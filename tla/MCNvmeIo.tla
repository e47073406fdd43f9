------------------------------ MODULE MCNvmeIo ------------------------------
(***************************************************************************)
(* Instances of NvmeIo for TLC.  Block contents are interchangeable.       *)
(***************************************************************************)
EXTENDS NvmeIo, TLC

ValueSymmetry == Permutations(Values)

=============================================================================
