---------------------------- MODULE MCContainers ----------------------------
(***************************************************************************)
(* Two arrays of up to three elements, and two strings with room for one   *)
(* character inside and up to five characters, so that a string moves to   *)
(* the heap at two and grows there at five.  Growing holds one block more  *)
(* than there are objects for a moment.                                    *)
(*                                                                         *)
(* Arrays and strings have no memory in common, so their interleavings     *)
(* show nothing that each kind alone does not: strings are used while the  *)
(* arrays are as at the start, and arrays while no string lives.           *)
(***************************************************************************)
EXTENDS Containers, TLC

CONSTANTS arr1, arr2, str1, str2, blk1, blk2, blk3

Arrays == {arr1, arr2}
TwoStrings == {str1, str2}
BlockNames == {blk1, blk2, blk3}
CStrings == {<<>>, <<1, 1>>}
Elements == {0, 1}
Texts == {<<>>, <<1>>, <<2, 1>>}

\* Objects and blocks may trade their names.  FreeBlock chooses a block, but from
\* blocks that nothing tells apart: all of them are free and nobody has their address.
Alike == Permutations(Arrays) \cup Permutations(TwoStrings) \cup Permutations(BlockNames)

\* Once the memory under an array was deleted there are no more calls.
MCNext ==
    \/ Arr!Next /\ (\A n \in StringNames : strObj[n] = Dead) /\ UNCHANGED strVars
    \/ Str!Next /\ Arr!Init /\ UNCHANGED arrVars
    \/ ~Arr!Sound /\ UNCHANGED <<arrVars, strVars>>
MCSpec == ContainersInit /\ [][MCNext]_<<arrVars, strVars>>

=============================================================================
