----------------------------- MODULE MCNvmeAdmin -----------------------------
(***************************************************************************)
(* NvmeAdmin for TLC.  The rings have 16 entries: two attempts submit at   *)
(* most 12 commands, so that, as with 64, they do not go round.            *)
(***************************************************************************)
EXTENDS NvmeAdmin

=============================================================================
