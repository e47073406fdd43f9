------------------------------ MODULE MCGaossd ------------------------------
(***************************************************************************)
(* Two blocks and two contents, one of them what Format NVM leaves.        *)
(***************************************************************************)
EXTENDS Gaossd

Blocks == {0, 1}
Contents == {"zero", "v"}

=============================================================================
