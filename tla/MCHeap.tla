------------------------------- MODULE MCHeap -------------------------------
(***************************************************************************)
(* The heap for TLC: headers of two units of alignment, as 32 bytes are of *)
(* 16, and room for six smallest blocks.                                  *)
(***************************************************************************)
EXTENDS Heap

\* One byte, a size that is aligned already, and one that is not.
SmallRequests == {1, 4, 7}

=============================================================================
