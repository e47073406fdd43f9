-------------------------------- MODULE MCDma --------------------------------
(***************************************************************************)
(* Pages of two cells in six frames: low memory in frame 0, the kernel     *)
(* image in frames 1 and 2, a stack in frames 3 and 4, and one nobody      *)
(* uses.  Two blocks, the second with a sector number that has a high half.*)
(***************************************************************************)
EXTENDS Dma

\* A heap in the image and a stack in the HHDM: at a page, and beyond the start of one,
\* since new and the compiler align to 16 bytes.
AnyPlace == {32, 33, 19}
ASSUME AnyPlaceAssumption == \A v \in AnyPlace : Mapped(v)

=============================================================================
