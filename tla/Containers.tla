----------------------------- MODULE Containers -----------------------------
(***************************************************************************)
(* The arrays and the strings of the kernel together.  Each kind has its   *)
(* objects and its blocks; a block is what operator new returns, which     *)
(* halts rather than find none.                                            *)
(***************************************************************************)
EXTENDS Integers, Sequences

CONSTANTS
    ArrayNames, StringNames,    \* the objects
    HeapBlocks,
    Values, Strings, MaxSize,   \* of arrays
    External, Null,
    Literals, MaxLength,        \* of strings
    SSO, MinHeap, Nul,
    Unset,                      \* a cell that was never written
    Unused,                     \* a block that is not allocated
    Dead

VARIABLES
    arrObj, arrMem, arrFault, arrValue,
    strObj, strMem, strFault, strValue

arrVars == <<arrObj, arrMem, arrFault, arrValue>>
strVars == <<strObj, strMem, strFault, strValue>>

Arr == INSTANCE Dynarr
    WITH Objects <- ArrayNames, Blocks <- HeapBlocks, Raw <- Unset, Free <- Unused,
         obj <- arrObj, mem <- arrMem, fault <- arrFault, value <- arrValue

Str == INSTANCE BasicString
    WITH Objects <- StringNames, Blocks <- HeapBlocks, Raw <- Unset, Free <- Unused,
         obj <- strObj, mem <- strMem, fault <- strFault, value <- strValue

-----------------------------------------------------------------------------

\* The names of things differ from what they name, and characters have an order.
ASSUME ContainersAssumption ==
    /\ 0 \in Values /\ Strings \subseteq Seq(Values) /\ 1 \in Values
    /\ {External, Null} \cap HeapBlocks = {} /\ External # Null
    /\ Literals \subseteq Seq(Int) /\ {SSO, MinHeap} \subseteq Nat
    /\ StringNames \cap HeapBlocks = {} /\ Nul \notin HeapBlocks \cup StringNames

ASSUME MarksAssumption ==
    /\ Unused \notin Seq(Values \cup {Unset}) /\ Unused \notin Seq(Int \cup {Nul, Unset})
    /\ Dead \notin [data : HeapBlocks \cup {External, Null}, size : Nat, capacity : Nat]
    /\ Dead \notin [is_sso : BOOLEAN, length : Nat, cells : Seq(Int \cup {Nul, Unset}),
                    ptr : HeapBlocks \cup {Unset}, capacity : Nat]

\* There are more blocks than objects: growing needs one while the old one lives.
ASSUME RoomAssumption ==
    /\ HeapBlocks # {}
    /\ \A f \in [ArrayNames -> HeapBlocks] : \E b \in HeapBlocks : \A o \in ArrayNames : f[o] # b
    /\ \A f \in [StringNames -> HeapBlocks] : \E b \in HeapBlocks : \A o \in StringNames : f[o] # b

ContainersInit == Arr!Init /\ Str!Init
ContainersNext ==
    \/ Arr!Next /\ UNCHANGED strVars
    \/ Str!Next /\ UNCHANGED arrVars
ContainersSpec == ContainersInit /\ [][ContainersNext]_<<arrVars, strVars>>

\* Every array and every string holds what its caller put into it, through
\* copies, moves and growth, whatever happens to the others; a string has its
\* terminator behind it, also when it is appended to itself or grows while its
\* source is a view of its own old storage.  Of arrays this is claimed until one
\* over external memory is made to grow, which hands that memory to operator delete.
ContentsExact == Arr!ContentExact /\ Str!ContentExact

\* No block is deleted twice, left behind or shared: each belongs to one live
\* object that knows its size.
BlocksOwnedOnce == Arr!OwnedOnce /\ Str!OwnedOnce

\* Memory that an array only borrows is deleted by no call but those that give
\* the array memory of its own.
BorrowedLeftAlone == Arr!BorrowedKept

\* operator< and operator== order the strings totally, wherever they are stored:
\* find_or_create_node of AbtrFS searches its tree by them.
StringsOrdered == Str!TotallyOrdered

=============================================================================
