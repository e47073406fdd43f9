-------------------------------- MODULE Heap --------------------------------
(***************************************************************************)
(* The kernel heap, operator new and operator delete                       *)
(* (src/src/kernel/new.cpp).                                               *)
(*                                                                         *)
(* The heap is one buffer, cut into blocks that follow each other: a block *)
(* header and its payload.  The free blocks are also in a doubly linked    *)
(* list, newest first, whose links are in the headers.  new takes the      *)
(* first block of the list that is large enough and cuts off what is left; *)
(* delete puts a block back and joins it with the block after it, never    *)
(* with the one before.                                                    *)
(*                                                                         *)
(* An address is an offset into the buffer.  The memory between headers    *)
(* is Raw: it holds what the owner of a block has put there.  A header     *)
(* that was joined into the block before it stays where it was until the   *)
(* memory is handed out again.  Callers delete what new gave them, once.   *)
(***************************************************************************)
EXTENDS Naturals, FiniteSets

CONSTANTS
    heap_size,      \* 16 MiB
    HEADER_SIZE,    \* sizeof(BlockHeader), 32
    ALIGNMENT,      \* 16
    Requests,       \* the sizes that callers ask for
    nullptr, Raw

ASSUME HeapAssumption ==
    /\ ALIGNMENT \in Nat \ {0}
    /\ HEADER_SIZE \in Nat \ {0} /\ HEADER_SIZE % ALIGNMENT = 0
    /\ heap_size \in Nat /\ heap_size > HEADER_SIZE
    /\ Requests \subseteq Nat \ {0}

Addresses == 0 .. heap_size - 1
Links == Addresses \cup {nullptr}
Steps == 0 .. heap_size \div HEADER_SIZE    \* no more blocks fit into the buffer
BlockHeader == [size : 0 .. heap_size, is_free : BOOLEAN, next : Links, prev : Links]

ASSUME NamesAssumption == nullptr \notin Addresses /\ Raw \notin BlockHeader

VARIABLES
    memory,             \* [Addresses -> BlockHeader \cup {Raw}]
    free_list_head,
    heap_initialized,
    live,               \* history: what callers hold, [ptr, size]
    halted              \* operator new found nothing and stopped the processor

vars == <<memory, free_list_head, heap_initialized, live, halted>>

Init ==
    /\ memory = [a \in Addresses |-> Raw]
    /\ free_list_head = nullptr
    /\ heap_initialized = FALSE
    /\ live = {}
    /\ halted = FALSE

-----------------------------------------------------------------------------
(* The operations on the buffer h, a record of its memory and its list head *)

Current == [memory |-> memory, head |-> free_list_head]

align_up_Identity(size) == size                         \* mutant: no rounding
align_up(size) == ((size + ALIGNMENT - 1) \div ALIGNMENT) * ALIGNMENT

AlignedSize(size) == IF align_up(size) < 1 THEN 1 ELSE align_up(size)

init_heap ==
    IF heap_initialized THEN Current
    ELSE [memory |-> [memory EXCEPT ![0] = [size |-> heap_size - HEADER_SIZE, is_free |-> TRUE,
                                            next |-> nullptr, prev |-> nullptr]],
          head |-> 0]

remove_from_free_list_OneWay(h, block) ==               \* mutant: next->prev is left
    LET prev == h.memory[block].prev
        next == h.memory[block].next
        m == IF prev = nullptr THEN h.memory ELSE [h.memory EXCEPT ![prev].next = next]
    IN  [memory |-> [m EXCEPT ![block].next = nullptr, ![block].prev = nullptr],
         head |-> IF prev = nullptr THEN next ELSE h.head]
remove_from_free_list(h, block) ==
    LET prev == h.memory[block].prev
        next == h.memory[block].next
        m1 == IF prev = nullptr THEN h.memory ELSE [h.memory EXCEPT ![prev].next = next]
        m2 == IF next = nullptr THEN m1 ELSE [m1 EXCEPT ![next].prev = prev]
    IN  [memory |-> [m2 EXCEPT ![block].next = nullptr, ![block].prev = nullptr],
         head |-> IF prev = nullptr THEN next ELSE h.head]

add_to_free_list(h, block) ==
    LET m == [h.memory EXCEPT ![block].is_free = TRUE, ![block].next = h.head,
                              ![block].prev = nullptr]
    IN  [memory |-> IF h.head = nullptr THEN m ELSE [m EXCEPT ![h.head].prev = block],
         head |-> block]

\* The list as it is walked from its head: the k-th block, nullptr after the last.
FreeList(h) ==
    LET block[k \in Steps] ==
            IF k = 0 THEN h.head
            ELSE LET before == block[k - 1]
                 IN  IF before = nullptr THEN nullptr ELSE h.memory[before].next
    IN  block

is_in_free_list(h, target) == \E k \in Steps : FreeList(h)[k] = target

Following(h, block) == block + HEADER_SIZE + h.memory[block].size

\* The joined block takes in the payload of the one after it and its header.
Joined_PayloadOnly(h, block, next) == h.memory[block].size + h.memory[next].size   \* mutant
Joined(h, block, next) == h.memory[block].size + HEADER_SIZE + h.memory[next].size

coalesce(h, block) ==
    LET next == Following(h, block)
    IN  IF /\ next + HEADER_SIZE <= heap_size
           /\ h.memory[next].is_free
           /\ is_in_free_list(h, next)
        THEN LET without == remove_from_free_list(h, next)
             IN  [without EXCEPT !.memory[block].size = Joined(h, block, next)]
        ELSE h

FirstFit(h, n) ==
    LET list == FreeList(h)
        fits == {k \in Steps :
                    /\ list[k] # nullptr
                    /\ h.memory[list[k]].is_free /\ h.memory[list[k]].size >= n}
    IN  IF fits = {} THEN nullptr
        ELSE list[CHOOSE k \in fits : \A j \in fits : k <= j]

\* What is left of a block is cut off when a header and more than ALIGNMENT
\* bytes fit into it.
WorthSplitting_NoHeader(remaining) == remaining >= ALIGNMENT    \* mutant: no room for the header
WorthSplitting(remaining) == remaining > HEADER_SIZE + ALIGNMENT

Split(h, block, n) ==
    LET remaining == h.memory[block].size - n
        new_block == block + HEADER_SIZE + n
        header == [size |-> remaining - HEADER_SIZE, is_free |-> FALSE,
                   next |-> nullptr, prev |-> nullptr]
        cut == [a \in Addresses |->
                  IF a = new_block THEN header
                  ELSE IF a \in new_block + 1 .. new_block + HEADER_SIZE - 1 THEN Raw
                  ELSE h.memory[a]]
    IN  IF WorthSplitting(remaining)
        THEN add_to_free_list([h EXCEPT !.memory = [cut EXCEPT ![block].size = n]], new_block)
        ELSE h

\* The owner may put anything into the payload.
HandedOut(h, block) ==
    [h EXCEPT !.memory = [a \in Addresses |->
        IF a \in block + 1 .. Following(h, block) - 1 THEN Raw ELSE h.memory[a]]]

TakeBlock(h, block, n) ==
    LET taken == remove_from_free_list(Split(h, block, n), block)
    IN  HandedOut([taken EXCEPT !.memory[block].is_free = FALSE], block)

-----------------------------------------------------------------------------
Becomes(h) == memory' = h.memory /\ free_list_head' = h.head

\* operator new: allocate_memory, and hlt when it returns nothing.
New(size) ==
    LET h == init_heap
        block == FirstFit(h, AlignedSize(size))
    IN  /\ ~halted
        /\ heap_initialized' = TRUE
        /\ IF block = nullptr
           THEN Becomes(h) /\ halted' = TRUE /\ UNCHANGED live
           ELSE /\ Becomes(TakeBlock(h, block, AlignedSize(size)))
                /\ live' = live \cup {[ptr |-> block + HEADER_SIZE, size |-> size]}
                /\ UNCHANGED halted

\* operator delete: free_memory.
Delete(l) ==
    LET block == l.ptr - HEADER_SIZE
    IN  /\ ~halted
        /\ IF memory[block].is_free THEN UNCHANGED <<memory, free_list_head>>
           ELSE Becomes(coalesce(add_to_free_list(Current, block), block))
        /\ live' = live \ {l}
        /\ UNCHANGED <<heap_initialized, halted>>

Next ==
    \/ \E size \in Requests : New(size)
    \/ \E l \in live : Delete(l)

Spec == Init /\ [][Next]_vars

-----------------------------------------------------------------------------
(* Properties *)

TypeOK ==
    /\ memory \in [Addresses -> BlockHeader \cup {Raw}]
    /\ free_list_head \in Links
    /\ heap_initialized \in BOOLEAN /\ halted \in BOOLEAN
    /\ \A l \in live : l.ptr \in Nat /\ l.size \in Requests

\* The blocks, as they follow each other from the start of the buffer.
Walk ==
    LET at[k \in Steps] ==
            IF k = 0 THEN 0
            ELSE LET before == at[k - 1]
                 IN  IF before >= heap_size \/ memory[before] = Raw THEN before
                     ELSE Following(Current, before)
    IN  at
WalkedTo == {Walk[k] : k \in Steps}
Blocks == WalkedTo \ {heap_size}

\* The blocks fill the buffer to its last byte, and each of them is either
\* free or held by the one caller it was given to: however new and delete
\* alternate, nothing is lost and nothing is handed out twice.
NothingLost ==
    heap_initialized =>
        /\ heap_size \in WalkedTo
        /\ \A b \in Blocks : b \in Addresses /\ memory[b] # Raw
        /\ {b \in Blocks : ~memory[b].is_free} = {l.ptr - HEADER_SIZE : l \in live}
        /\ \A l, k \in live : l.ptr = k.ptr => l = k

\* The list holds the free blocks, each of them once, and is the same list
\* from back to front.
FreeListExact ==
    heap_initialized =>
        LET list == FreeList(Current)
            used == {k \in Steps : list[k] # nullptr}
        IN  /\ {list[k] : k \in used} = {b \in Blocks : memory[b].is_free}
            /\ \A j, k \in used : list[j] = list[k] => j = k
            /\ \A k \in used :
                  memory[list[k]].prev = IF k = 0 THEN nullptr ELSE list[k - 1]

\* What a caller holds is aligned, as large as it asked for, inside the buffer
\* and apart from every header and from what any other caller holds.
LiveApart ==
    \A l \in live :
        /\ l.ptr % ALIGNMENT = 0
        /\ l.ptr + l.size <= heap_size
        /\ \A b \in Blocks : b + HEADER_SIZE <= l.ptr \/ l.ptr + l.size <= b
        /\ \A k \in live : k = l \/ k.ptr + k.size <= l.ptr \/ l.ptr + l.size <= k.ptr

=============================================================================
