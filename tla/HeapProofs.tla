----------------------------- MODULE HeapProofs -----------------------------
(***************************************************************************)
(* What operator new and operator delete keep up for every size of buffer, *)
(* header and alignment, and for every order of requests; and, in the      *)
(* second half, what the arrays and the strings keep up that are their     *)
(* main users.                                                             *)
(***************************************************************************)
EXTENDS Heap, Containers, FiniteSetTheorems, TLAPS

-----------------------------------------------------------------------------
(* The inductive invariant *)

Cells == [Addresses -> BlockHeader \cup {Raw}]
End(m, b) == b + HEADER_SIZE + m[b].size

\* The buffer m is cut into the blocks that start at B: each of them ends where
\* another one starts or where the buffer ends, and none starts inside another.
Layout(m, B) ==
    /\ m \in Cells
    /\ B \subseteq Addresses /\ 0 \in B
    /\ \A b \in B : /\ m[b] \in BlockHeader /\ b % ALIGNMENT = 0
                    /\ End(m, b) \in B \cup {heap_size}
    /\ \A b, c \in B : b < c => End(m, b) <= c

\* The n blocks L[0], L[1], ... are linked in this order, in both directions.
Linked(m, head, n, L) ==
    /\ n \in Nat /\ L \in [0 .. n - 1 -> Addresses]
    /\ head = IF n = 0 THEN nullptr ELSE L[0]
    /\ \A i, j \in 0 .. n - 1 : L[i] = L[j] => i = j
    /\ \A i \in 0 .. n - 1 :
          /\ m[L[i]] \in BlockHeader
          /\ m[L[i]].next = IF i = n - 1 THEN nullptr ELSE L[i + 1]
          /\ m[L[i]].prev = IF i = 0 THEN nullptr ELSE L[i - 1]

\* The linked blocks are the free ones.
Free(m, B) == {b \in B : m[b].is_free}
FreeLinked(m, B, n, L) == Free(m, B) = {L[i] : i \in 0 .. n - 1}

\* The other blocks are held, each by one caller, who asked for no more.
Held(m, B) ==
    /\ B \ Free(m, B) = {l.ptr - HEADER_SIZE : l \in live}
    /\ \A l, k \in live : l.ptr = k.ptr => l = k
    /\ \A l \in live : /\ l.ptr \in Nat /\ l.ptr >= HEADER_SIZE /\ l.size \in Requests
                       /\ l.size <= m[l.ptr - HEADER_SIZE].size

Arranged(B, n, L) ==
    /\ Layout(memory, B) /\ Linked(memory, free_list_head, n, L)
    /\ FreeLinked(memory, B, n, L) /\ Held(memory, B)

HeapInv ==
    /\ heap_initialized \in BOOLEAN /\ halted \in BOOLEAN
    /\ IF heap_initialized THEN \E B, n, L : Arranged(B, n, L)
       ELSE memory = [a \in Addresses |-> Raw] /\ free_list_head = nullptr /\ live = {}

-----------------------------------------------------------------------------
(* The linked list *)

Heaps == [memory : Cells, head : Links]

\* g has the blocks of m, with other links at most.
SameBlocks(m, g) ==
    \A a \in Addresses : m[a] \in BlockHeader =>
        /\ g[a] \in BlockHeader
        /\ g[a].size = m[a].size /\ g[a].is_free = m[a].is_free

LEMMA HeaderFields ==
    ASSUME NEW r \in BlockHeader
    PROVE  /\ r.size \in 0 .. heap_size /\ r.is_free \in BOOLEAN /\ r.next \in Links /\ r.prev \in Links
           /\ \A x \in Links : [r EXCEPT !.next = x] \in BlockHeader /\ [r EXCEPT !.prev = x] \in BlockHeader
           /\ \A x \in 0 .. heap_size : [r EXCEPT !.size = x] \in BlockHeader
           /\ \A x \in BOOLEAN : [r EXCEPT !.is_free = x] \in BlockHeader
BY DEF BlockHeader

LEMMA HeaderSame ==
    ASSUME NEW q \in BlockHeader, NEW r \in BlockHeader,
           q.size = r.size, q.is_free = r.is_free, q.next = r.next, q.prev = r.prev
    PROVE  q = r
BY DEF BlockHeader

LEMMA SetLinks ==
    ASSUME NEW r \in BlockHeader, NEW x \in Links
    PROVE  /\ [r EXCEPT !.next = x].size = r.size /\ [r EXCEPT !.prev = x].size = r.size
           /\ [r EXCEPT !.next = x].is_free = r.is_free /\ [r EXCEPT !.prev = x].is_free = r.is_free
           /\ [r EXCEPT !.next = x].next = x /\ [r EXCEPT !.prev = x].prev = x
           /\ [r EXCEPT !.next = x].prev = r.prev /\ [r EXCEPT !.prev = x].next = r.next
BY DEF BlockHeader

LEMMA SetFree ==
    ASSUME NEW r \in BlockHeader, NEW x \in BOOLEAN
    PROVE  /\ [r EXCEPT !.is_free = x].size = r.size /\ [r EXCEPT !.is_free = x].is_free = x
           /\ [r EXCEPT !.is_free = x].next = r.next /\ [r EXCEPT !.is_free = x].prev = r.prev
BY DEF BlockHeader

\* A block is put in front of the list.
InFront(block, n, L) == [i \in 0 .. n |-> IF i = 0 THEN block ELSE L[i - 1]]

LEMMA AddFront ==
    ASSUME NEW h \in Heaps, NEW n, NEW L, Linked(h.memory, h.head, n, L),
           NEW block \in Addresses, h.memory[block] \in BlockHeader,
           \A i \in 0 .. n - 1 : L[i] # block
    PROVE  /\ add_to_free_list(h, block) \in Heaps
           /\ SameBlocks([h.memory EXCEPT ![block].is_free = TRUE], add_to_free_list(h, block).memory)
           /\ Linked(add_to_free_list(h, block).memory, add_to_free_list(h, block).head,
                     n + 1, InFront(block, n, L))
<1> DEFINE m == h.memory
           r == [size |-> m[block].size, is_free |-> TRUE, next |-> h.head, prev |-> nullptr]
           m1 == [m EXCEPT ![block] = r]
           m2 == IF h.head = nullptr THEN m1
                 ELSE [m1 EXCEPT ![h.head] = [m[h.head] EXCEPT !.prev = block]]
           M == [i \in 0 .. n |-> IF i = 0 THEN block ELSE L[i - 1]]
<1>1. m \in Cells /\ h.head \in Links
  BY DEF Heaps
<1>2. r \in BlockHeader
  BY <1>1, HeaderFields DEF BlockHeader, Links
<1>3. m1 \in Cells
  BY <1>1, <1>2 DEF Cells
<1>4. n \in Nat /\ (n = 0 => h.head = nullptr) /\ (n # 0 => h.head = L[0] /\ h.head \in Addresses /\ h.head # block)
  BY DEF Linked
<1>5. h.head # nullptr <=> n # 0
  BY <1>4, NamesAssumption
<1>6. h.head # nullptr => m[h.head] \in BlockHeader
  BY <1>4, <1>5 DEF Linked
<1>7. m2 \in Cells
  <2>1. CASE h.head = nullptr
    BY <1>3, <2>1
  <2>2. CASE h.head # nullptr
    <3>1. [m[h.head] EXCEPT !.prev = block] \in BlockHeader
      BY <1>6, <2>2, HeaderFields DEF Links
    <3> HIDE DEF m1
    <3> QED
      BY <1>3, <2>2, <3>1 DEF Cells
  <2> QED
    BY <2>1, <2>2
<1>8. add_to_free_list(h, block) = [memory |-> m2, head |-> block]
  <2>1. [h.memory EXCEPT ![block].is_free = TRUE, ![block].next = h.head, ![block].prev = nullptr] = m1
    <3>1. [m[block] EXCEPT !.is_free = TRUE, !.next = h.head, !.prev = nullptr] = r
      <4> DEFINE q1 == [m[block] EXCEPT !.is_free = TRUE]
                 q2 == [q1 EXCEPT !.next = h.head]
                 q3 == [q2 EXCEPT !.prev = nullptr]
      <4>1. q1 \in BlockHeader /\ q1.size = m[block].size /\ q1.is_free = TRUE
        BY HeaderFields, SetFree
      <4>2. q2 \in BlockHeader /\ q2.size = m[block].size /\ q2.is_free = TRUE /\ q2.next = h.head
        <5> HIDE DEF q1
        <5>1. q2 \in BlockHeader
          BY <1>1, <4>1, HeaderFields
        <5>2. q2.size = q1.size /\ q2.is_free = q1.is_free /\ q2.next = h.head
          BY <1>1, <4>1, SetLinks
        <5> QED
          BY <5>1, <5>2, <4>1, Zenon
      <4>3. /\ q3 \in BlockHeader /\ q3.size = m[block].size /\ q3.is_free = TRUE /\ q3.next = h.head
            /\ q3.prev = nullptr
        <5> HIDE DEF q2
        <5>1. nullptr \in Links
          BY DEF Links
        <5>2. q3 \in BlockHeader
          BY <4>2, <5>1, HeaderFields
        <5>3. /\ q3.size = q2.size /\ q3.is_free = q2.is_free /\ q3.next = q2.next
              /\ q3.prev = nullptr
          BY <4>2, <5>1, SetLinks
        <5> QED
          BY <4>2, <5>2, <5>3, Zenon
      <4>4. r.size = m[block].size /\ r.is_free = TRUE /\ r.next = h.head /\ r.prev = nullptr
        BY Zenon
      <4>5. q3 = r
        <5> HIDE DEF q3, r
        <5> QED
          BY <1>2, <4>3, <4>4, HeaderSame, Zenon
      <4> QED
        BY <4>5
    <3>2. [m EXCEPT ![block].is_free = TRUE, ![block].next = h.head, ![block].prev = nullptr]
            = [m EXCEPT ![block] = [m[block] EXCEPT !.is_free = TRUE, !.next = h.head, !.prev = nullptr]]
      BY <1>1 DEF Cells
    <3> QED
      BY <3>1, <3>2
  <2>2. h.head # nullptr => [m1 EXCEPT ![h.head].prev = block] = [m1 EXCEPT ![h.head] = [m[h.head] EXCEPT !.prev = block]]
    BY <1>1, <1>4, <1>5 DEF Cells
  <2>3. add_to_free_list(h, block)
          = [memory |-> IF h.head = nullptr THEN m1 ELSE [m1 EXCEPT ![h.head].prev = block], head |-> block]
    <3> HIDE DEF m1
    <3> QED
      BY <2>1, ZenonT(40) DEF add_to_free_list
  <2> HIDE DEF m1
  <2>4. (IF h.head = nullptr THEN m1 ELSE [m1 EXCEPT ![h.head].prev = block]) = m2
    BY <2>2, ZenonT(40)
  <2> HIDE DEF m2
  <2> QED
    BY <2>3, <2>4, ZenonT(40)
<1>9. \A a \in Addresses : m2[a] = IF a = block THEN r
                                  ELSE IF n # 0 /\ a = h.head THEN [m[a] EXCEPT !.prev = block]
                                  ELSE m[a]
  BY <1>1, <1>4, <1>5 DEF Cells
<1> HIDE DEF m2, r
<1>10. SameBlocks([m EXCEPT ![block].is_free = TRUE], m2)
  <2> SUFFICES ASSUME NEW a \in Addresses, [m EXCEPT ![block].is_free = TRUE][a] \in BlockHeader
               PROVE  /\ m2[a] \in BlockHeader
                      /\ m2[a].size = [m EXCEPT ![block].is_free = TRUE][a].size
                      /\ m2[a].is_free = [m EXCEPT ![block].is_free = TRUE][a].is_free
    BY DEF SameBlocks
  <2>1. CASE a = block
    <3>1. m2[a] = r /\ [m EXCEPT ![block].is_free = TRUE][a] = [m[block] EXCEPT !.is_free = TRUE]
      BY <1>1, <1>9, <2>1 DEF Cells
    <3>2. r.size = m[block].size /\ r.is_free = TRUE
      BY Zenon DEF r
    <3>3. [m[block] EXCEPT !.is_free = TRUE].size = m[block].size /\ [m[block] EXCEPT !.is_free = TRUE].is_free = TRUE
      BY SetFree
    <3> QED
      BY <1>2, <3>1, <3>2, <3>3, Zenon
  <2>2. CASE a # block
    <3>1. [m EXCEPT ![block].is_free = TRUE][a] = m[a]
      BY <1>1, <2>2 DEF Cells
    <3>2. CASE n # 0 /\ a = h.head
      <4>1. m2[a] = [m[a] EXCEPT !.prev = block]
        BY <1>9, <2>2, <3>2
      <4>2. block \in Links
        BY DEF Links
      <4>3. [m[a] EXCEPT !.prev = block] \in BlockHeader
        BY <3>1, <4>2, HeaderFields
      <4>4. /\ [m[a] EXCEPT !.prev = block].size = m[a].size
            /\ [m[a] EXCEPT !.prev = block].is_free = m[a].is_free
        BY <3>1, <4>2, SetLinks
      <4> QED
        BY <3>1, <4>1, <4>3, <4>4, Zenon
    <3>3. CASE ~(n # 0 /\ a = h.head)
      <4>1. m2[a] = m[a]
        BY <1>9, <2>2, <3>3
      <4> QED
        BY <3>1, <4>1
    <3> QED
      BY <3>2, <3>3
  <2> QED
    BY <2>1, <2>2
<1>11. Linked(m2, block, n + 1, M)
  <2>1. n + 1 \in Nat /\ M \in [0 .. (n + 1) - 1 -> Addresses] /\ block = M[0]
    BY <1>4 DEF Linked
  <2>2. \A i, j \in 0 .. (n + 1) - 1 : M[i] = M[j] => i = j
    BY <1>4 DEF Linked
  <2>3. ASSUME NEW i \in 0 .. (n + 1) - 1
        PROVE  /\ m2[M[i]] \in BlockHeader
               /\ m2[M[i]].next = IF i = (n + 1) - 1 THEN nullptr ELSE M[i + 1]
               /\ m2[M[i]].prev = IF i = 0 THEN nullptr ELSE M[i - 1]
    <3>1. CASE i = 0
      <4>1. m2[M[i]] = r
        BY <1>9, <2>1, <3>1
      <4>2. h.head = IF n = 0 THEN nullptr ELSE M[1]
        BY <1>4
      <4> QED
        BY <1>2, <1>4, <3>1, <4>1, <4>2 DEF r
    <3>2. CASE i # 0
      <4>1. i - 1 \in 0 .. n - 1 /\ M[i] = L[i - 1] /\ L[i - 1] \in Addresses /\ L[i - 1] # block
        BY <1>4, <3>2 DEF Linked
      <4>2. /\ m[L[i - 1]] \in BlockHeader
            /\ m[L[i - 1]].next = IF i - 1 = n - 1 THEN nullptr ELSE L[(i - 1) + 1]
            /\ m[L[i - 1]].prev = IF i - 1 = 0 THEN nullptr ELSE L[(i - 1) - 1]
        BY <4>1 DEF Linked
      <4>3. (IF i - 1 = n - 1 THEN nullptr ELSE L[(i - 1) + 1]) = IF i = (n + 1) - 1 THEN nullptr ELSE M[i + 1]
        BY <1>4, <3>2
      <4>4. CASE i = 1
        <5>1. m2[M[i]] = [m[L[0]] EXCEPT !.prev = block]
          BY <1>4, <1>9, <4>1, <4>4
        <5>2. M[i - 1] = block
          BY <1>4, <4>4
        <5> QED
          BY <4>2, <4>3, <4>4, <5>1, <5>2, HeaderFields DEF BlockHeader, Links
      <4>5. CASE i # 1
        <5>1. h.head # L[i - 1]
          BY <1>4, <4>1, <4>5 DEF Linked
        <5>2. m2[M[i]] = m[L[i - 1]]
          BY <1>9, <4>1, <5>1
        <5>3. M[i - 1] = L[(i - 1) - 1]
          BY <1>4, <3>2, <4>5
        <5> QED
          BY <3>2, <4>2, <4>3, <4>5, <5>2, <5>3
      <4> QED
        BY <4>4, <4>5
    <3> QED
      BY <3>1, <3>2
  <2> HIDE DEF M
  <2>4. (n + 1) # 0
    BY <1>4
  <2> QED
    BY <2>1, <2>2, <2>3, <2>4 DEF Linked
<1>12. [memory |-> m2, head |-> block] \in Heaps
  BY <1>7 DEF Heaps, Links
<1> HIDE DEF M
<1> QED
  BY <1>8, <1>10, <1>11, <1>12 DEF M, InFront

\* A block is taken out of the list, wherever it is.
Without(j, n, L) == [i \in 0 .. n - 2 |-> IF i < j THEN L[i] ELSE L[i + 1]]

LEMMA RemoveAt ==
    ASSUME NEW h \in Heaps, NEW n, NEW L, Linked(h.memory, h.head, n, L), NEW j \in 0 .. n - 1
    PROVE  /\ remove_from_free_list(h, L[j]) \in Heaps
           /\ SameBlocks(h.memory, remove_from_free_list(h, L[j]).memory)
           /\ Linked(remove_from_free_list(h, L[j]).memory, remove_from_free_list(h, L[j]).head,
                     n - 1, Without(j, n, L))
<1> DEFINE m == h.memory
           block == L[j]
           p == IF j = 0 THEN nullptr ELSE L[j - 1]
           x == IF j = n - 1 THEN nullptr ELSE L[j + 1]
           N == [i \in 0 .. n - 2 |-> IF i < j THEN L[i] ELSE L[i + 1]]
           out == [[m[block] EXCEPT !.next = nullptr] EXCEPT !.prev = nullptr]
           m1 == IF p = nullptr THEN m ELSE [m EXCEPT ![p].next = x]
           m2 == IF x = nullptr THEN m1 ELSE [m1 EXCEPT ![x].prev = p]
           m3 == [m2 EXCEPT ![block].next = nullptr, ![block].prev = nullptr]
           hd == IF p = nullptr THEN x ELSE h.head
<1>1. /\ m \in Cells /\ h.head \in Links /\ n \in Nat /\ j \in Nat /\ j < n
      /\ \A i \in 0 .. n - 1 : L[i] \in Addresses /\ L[i] # nullptr /\ m[L[i]] \in BlockHeader
      /\ \A a, b \in 0 .. n - 1 : L[a] = L[b] => a = b
  BY NamesAssumption DEF Heaps, Linked
<1>2. m[block].prev = p /\ m[block].next = x
  BY DEF Linked
<1>3. p \in Links /\ x \in Links /\ nullptr \in Links
  BY <1>1 DEF Links
<1>4. (p = nullptr <=> j = 0) /\ (x = nullptr <=> j = n - 1)
  BY <1>1
<1>5. remove_from_free_list(h, block) = [memory |-> m3, head |-> hd]
  <2> HIDE DEF p, x
  <2> QED
    BY <1>2 DEF remove_from_free_list
<1>6. block \in Addresses /\ (j # 0 => p \in Addresses /\ p # block)
      /\ (j # n - 1 => x \in Addresses /\ x # block)
      /\ (j # 0 /\ j # n - 1 => p # x)
  BY <1>1
<1> HIDE DEF p, x, block
<1>7. \A a \in Addresses : m1[a] = IF j # 0 /\ a = p THEN [m[a] EXCEPT !.next = x] ELSE m[a]
  BY <1>1, <1>4, <1>6 DEF Cells
<1>8. DOMAIN m1 = Addresses
  BY <1>1 DEF Cells
<1> HIDE DEF m1
<1>9. \A a \in Addresses : m2[a] = IF j # n - 1 /\ a = x THEN [m1[a] EXCEPT !.prev = p] ELSE m1[a]
  BY <1>4, <1>6, <1>8
<1>10. DOMAIN m2 = Addresses
  BY <1>8
<1> HIDE DEF m2
<1>11. \A a \in Addresses : m3[a] = IF a = block THEN [[m2[a] EXCEPT !.next = nullptr] EXCEPT !.prev = nullptr]
                                    ELSE m2[a]
  BY <1>6, <1>10
<1>12. DOMAIN m3 = Addresses /\ m3 = [a \in Addresses |-> m3[a]]
  BY <1>10
<1> HIDE DEF m3
<1>13. m3[block] = out
  <2>1. m1[block] = m[block]
    BY <1>6, <1>7
  <2>2. m2[block] = m1[block]
    BY <1>6, <1>9
  <2>3. m3[block] = [[m2[block] EXCEPT !.next = nullptr] EXCEPT !.prev = nullptr]
    BY <1>6, <1>11
  <2> QED
    BY <2>1, <2>2, <2>3
<1>14. j # 0 => m3[p] = [m[p] EXCEPT !.next = x]
  BY <1>6, <1>7, <1>9, <1>11
<1>15. j # n - 1 => m3[x] = [m[x] EXCEPT !.prev = p]
  BY <1>6, <1>7, <1>9, <1>11
<1>16. \A a \in Addresses : a # block /\ (j # 0 => a # p) /\ (j # n - 1 => a # x) => m3[a] = m[a]
  BY <1>6, <1>7, <1>9, <1>11
<1>17. /\ out \in BlockHeader /\ out.size = m[block].size /\ out.is_free = m[block].is_free
  <2>0. m[block] \in BlockHeader
    BY <1>1 DEF block
  <2> DEFINE q == [m[block] EXCEPT !.next = nullptr]
  <2>1. q \in BlockHeader
    BY <1>3, <2>0, HeaderFields
  <2>2. q.size = m[block].size /\ q.is_free = m[block].is_free
    BY <1>3, <2>0, SetLinks
  <2> HIDE DEF q
  <2>3. out = [q EXCEPT !.prev = nullptr]
    BY DEF q
  <2>4. [q EXCEPT !.prev = nullptr] \in BlockHeader
    BY <1>3, <2>1, HeaderFields
  <2>5. [q EXCEPT !.prev = nullptr].size = q.size /\ [q EXCEPT !.prev = nullptr].is_free = q.is_free
    BY <1>3, <2>1, SetLinks
  <2> QED
    BY <2>2, <2>3, <2>4, <2>5, Zenon
<1> HIDE DEF out
<1>18. j # 0 => /\ m[p] \in BlockHeader /\ m3[p] \in BlockHeader /\ m3[p].size = m[p].size
                /\ m3[p].is_free = m[p].is_free /\ m3[p].next = x /\ m3[p].prev = m[p].prev
  <2>1. j # 0 => m[p] \in BlockHeader
    BY <1>1 DEF p
  <2>2. j # 0 => [m[p] EXCEPT !.next = x] \in BlockHeader
    BY <1>3, <2>1, HeaderFields
  <2>3. j # 0 => /\ [m[p] EXCEPT !.next = x].size = m[p].size
               /\ [m[p] EXCEPT !.next = x].is_free = m[p].is_free
               /\ [m[p] EXCEPT !.next = x].next = x /\ [m[p] EXCEPT !.next = x].prev = m[p].prev
    BY <1>3, <2>1, SetLinks
  <2> QED
    BY <1>14, <2>1, <2>2, <2>3, Zenon
<1>19. j # n - 1 => /\ m[x] \in BlockHeader /\ m3[x] \in BlockHeader /\ m3[x].size = m[x].size
                    /\ m3[x].is_free = m[x].is_free /\ m3[x].prev = p /\ m3[x].next = m[x].next
  <2>1. j # n - 1 => m[x] \in BlockHeader
    BY <1>1 DEF x
  <2>2. j # n - 1 => [m[x] EXCEPT !.prev = p] \in BlockHeader
    BY <1>3, <2>1, HeaderFields
  <2>3. j # n - 1 => /\ [m[x] EXCEPT !.prev = p].size = m[x].size
               /\ [m[x] EXCEPT !.prev = p].is_free = m[x].is_free
               /\ [m[x] EXCEPT !.prev = p].prev = p /\ [m[x] EXCEPT !.prev = p].next = m[x].next
    BY <1>3, <2>1, SetLinks
  <2> QED
    BY <1>15, <2>1, <2>2, <2>3, Zenon
<1>20. SameBlocks(m, m3)
  <2> SUFFICES ASSUME NEW a \in Addresses, m[a] \in BlockHeader
               PROVE  m3[a] \in BlockHeader /\ m3[a].size = m[a].size /\ m3[a].is_free = m[a].is_free
    BY DEF SameBlocks
  <2>1. CASE a = block
    BY <1>13, <1>17, <2>1, Zenon
  <2>2. CASE j # 0 /\ a = p
    BY <1>18, <2>2, Zenon
  <2>3. CASE j # n - 1 /\ a = x
    BY <1>19, <2>3, Zenon
  <2> QED
    BY <1>16, <2>1, <2>2, <2>3
<1>21. m3 \in Cells
  <2>1. \A a \in Addresses : m3[a] \in BlockHeader \cup {Raw}
    <3> TAKE a \in Addresses
    <3>1. m[a] \in BlockHeader \cup {Raw}
      BY <1>1 DEF Cells
    <3>2. CASE m[a] \in BlockHeader
      BY <1>20, <3>2 DEF SameBlocks
    <3>3. CASE m[a] = Raw
      <4>1. a # block /\ (j # 0 => a # p) /\ (j # n - 1 => a # x)
        BY <1>1, <1>18, <1>19, <3>3, NamesAssumption DEF block
      <4> QED
        BY <1>16, <3>3, <4>1
    <3> QED
      BY <3>1, <3>2, <3>3
  <2> QED
    BY <1>12, <2>1 DEF Cells
<1>22. hd \in Links
  BY <1>1, <1>3
<1>23. [memory |-> m3, head |-> hd] \in Heaps
  BY <1>21, <1>22 DEF Heaps
<1>24. Linked(m3, hd, n - 1, N)
  <2>1. n - 1 \in Nat /\ N \in [0 .. (n - 1) - 1 -> Addresses]
    BY <1>1
  <2>2. \A a, b \in 0 .. (n - 1) - 1 : N[a] = N[b] => a = b
    BY <1>1
  <2>3. hd = IF n - 1 = 0 THEN nullptr ELSE N[0]
    <3>1. CASE j = 0
      BY <1>1, <1>4, <3>1 DEF x
    <3>2. CASE j # 0
      BY <1>1, <1>4, <3>2 DEF Linked
    <3> QED
      BY <3>1, <3>2
  <2>4. ASSUME NEW i \in 0 .. (n - 1) - 1
        PROVE  /\ m3[N[i]] \in BlockHeader
               /\ m3[N[i]].next = IF i = (n - 1) - 1 THEN nullptr ELSE N[i + 1]
               /\ m3[N[i]].prev = IF i = 0 THEN nullptr ELSE N[i - 1]
    <3>0. i \in Nat /\ i < n - 1 /\ i \in 0 .. n - 1 /\ i + 1 \in 0 .. n - 1
      BY <1>1
    <3>1. /\ m[L[i]] \in BlockHeader
          /\ m[L[i]].next = L[i + 1]
          /\ m[L[i]].prev = IF i = 0 THEN nullptr ELSE L[i - 1]
      BY <3>0 DEF Linked
    <3>2. /\ m[L[i + 1]] \in BlockHeader
          /\ m[L[i + 1]].next = IF i + 1 = n - 1 THEN nullptr ELSE L[(i + 1) + 1]
          /\ m[L[i + 1]].prev = L[i]
      <4>1. (i + 1) - 1 = i /\ i + 1 # 0
        BY <3>0
      <4> QED
        BY <3>0, <4>1 DEF Linked
    <3>3. CASE i = j - 1
      <4>1. N[i] = p /\ j # 0
        BY <1>1, <3>0, <3>3 DEF p
      <4>2. x = IF i = (n - 1) - 1 THEN nullptr ELSE N[i + 1]
        BY <1>1, <3>0, <3>3 DEF x
      <4>3. p = L[i] /\ (IF i = 0 THEN nullptr ELSE L[i - 1]) = IF i = 0 THEN nullptr ELSE N[i - 1]
        BY <1>1, <3>0, <3>3 DEF p
      <4> HIDE DEF N
      <4> QED
        BY <1>18, <3>1, <4>1, <4>2, <4>3
    <3>4. CASE i = j
      <4>1. N[i] = x /\ j # n - 1
        BY <1>1, <3>0, <3>4 DEF x
      <4>2. p = IF i = 0 THEN nullptr ELSE N[i - 1]
        BY <1>1, <3>0, <3>4 DEF p
      <4>3. x = L[i + 1] /\ (IF i + 1 = n - 1 THEN nullptr ELSE L[(i + 1) + 1])
                              = IF i = (n - 1) - 1 THEN nullptr ELSE N[i + 1]
        BY <1>1, <3>0, <3>4 DEF x
      <4> HIDE DEF N
      <4> QED
        BY <1>19, <3>2, <4>1, <4>2, <4>3
    <3>5. CASE i < j - 1
      <4>1. N[i] = L[i] /\ L[i] # block /\ (j # 0 => L[i] # p) /\ (j # n - 1 => L[i] # x) /\ L[i] \in Addresses
        BY <1>1, <3>0, <3>5, SMTT(30) DEF p, x, block
      <4>2. L[i + 1] = IF i = (n - 1) - 1 THEN nullptr ELSE N[i + 1]
        BY <1>1, <3>0, <3>5
      <4>3. (IF i = 0 THEN nullptr ELSE L[i - 1]) = IF i = 0 THEN nullptr ELSE N[i - 1]
        BY <1>1, <3>0, <3>5
      <4> HIDE DEF N
      <4> QED
        BY <1>16, <3>1, <4>1, <4>2, <4>3
    <3>6. CASE i > j
      <4>1. N[i] = L[i + 1] /\ L[i + 1] # block /\ (j # 0 => L[i + 1] # p) /\ (j # n - 1 => L[i + 1] # x)
            /\ L[i + 1] \in Addresses
        BY <1>1, <3>0, <3>6 DEF p, x, block
      <4>2. (IF i + 1 = n - 1 THEN nullptr ELSE L[(i + 1) + 1]) = IF i = (n - 1) - 1 THEN nullptr ELSE N[i + 1]
        <5>1. i + 1 = n - 1 <=> i = (n - 1) - 1
          BY <1>1, <3>0
        <5>2. i # (n - 1) - 1 => i + 1 \in 0 .. n - 2 /\ ~(i + 1 < j)
          BY <1>1, <3>0, <3>6
        <5>3. i # (n - 1) - 1 => N[i + 1] = L[(i + 1) + 1]
          BY <5>2
        <5> HIDE DEF N
        <5> QED
          BY <5>1, <5>3
      <4>3. L[i] = IF i = 0 THEN nullptr ELSE N[i - 1]
        BY <1>1, <3>0, <3>6
      <4> HIDE DEF N
      <4> QED
        BY <1>16, <3>2, <4>1, <4>2, <4>3
    <3> QED
      BY <1>1, <3>0, <3>3, <3>4, <3>5, <3>6
  <2> HIDE DEF N, hd
  <2> QED
    BY <2>1, <2>2, <2>3, <2>4 DEF Linked
<1> HIDE DEF N, hd
<1> QED
  BY <1>5, <1>20, <1>23, <1>24 DEF N, block, Without

-----------------------------------------------------------------------------
(* There are no more free blocks than fit into the buffer *)

LEMMA MinExists ==
    ASSUME NEW T \in SUBSET Nat, T # {}
    PROVE  \E x \in T : \A y \in T : x <= y
<1>1. IsWellFoundedOn(OpToRel(<, Nat), Nat)
  BY NatLessThanWellFounded
<1>2. PICK x \in T : \A y \in T : ~(<<y, x>> \in OpToRel(<, Nat))
  BY <1>1, WFMin
<1>3. ASSUME NEW y \in T PROVE x <= y
  <2>1. x \in Nat /\ y \in Nat
    OBVIOUS
  <2>2. y < x => <<y, x>> \in OpToRel(<, Nat)
    BY <2>1 DEF OpToRel
  <2>3. ~(y < x)
    BY <1>2, <2>2, Zenon
  <2> QED
    BY <2>1, <2>3
<1> QED
  BY <1>3, Zenon

LEMMA DivBounds ==
    ASSUME NEW a \in Nat, NEW d \in Nat \ {0}
    PROVE  /\ a \div d \in Nat
           /\ (a \div d) * d <= a /\ a < (a \div d) * d + d
OBVIOUS

LEMMA Quotients ==
    ASSUME NEW q \in Nat, NEW k \in Nat, NEW d \in Nat \ {0}, q * d < k * d
    PROVE  q < k
<1> SUFFICES ASSUME q >= k PROVE FALSE
  OBVIOUS
<1>1. q = k + (q - k) /\ q - k \in Nat
  OBVIOUS
<1>2. q * d = k * d + (q - k) * d /\ (q - k) * d \in Nat /\ k * d \in Nat
  BY <1>1
<1> QED
  BY <1>2

Room == heap_size \div HEADER_SIZE

LEMMA RoomTyped ==
    /\ Room \in Nat /\ Steps = 0 .. Room
    /\ Room * HEADER_SIZE <= heap_size /\ heap_size < Room * HEADER_SIZE + HEADER_SIZE
BY HeapAssumption, DivBounds DEF Room, Steps

\* Where a block starts and ends.
LEMMA BlockBounds ==
    ASSUME NEW m, NEW B, Layout(m, B), NEW b \in B
    PROVE  /\ b \in Nat /\ b < heap_size /\ m[b] \in BlockHeader /\ m[b].size \in Nat
           /\ End(m, b) \in Nat /\ b + HEADER_SIZE <= End(m, b) /\ End(m, b) <= heap_size
           /\ End(m, b) = b + HEADER_SIZE + m[b].size
<1>1. b \in Nat /\ b < heap_size /\ m[b] \in BlockHeader
  BY HeapAssumption DEF Layout, Addresses
<1>2. m[b].size \in Nat
  BY <1>1, HeapAssumption DEF BlockHeader
<1>3. End(m, b) \in Nat /\ b + HEADER_SIZE <= End(m, b) /\ End(m, b) = b + HEADER_SIZE + m[b].size
  BY <1>1, <1>2, HeapAssumption DEF End
<1>4. End(m, b) <= heap_size
  <2>1. End(m, b) \in B \cup {heap_size} /\ \A c \in B : c \in Addresses
    BY DEF Layout
  <2> QED
    BY <2>1, HeapAssumption DEF Addresses
<1> QED
  BY <1>1, <1>2, <1>3, <1>4

LEMMA ListFits ==
    ASSUME NEW m, NEW B, NEW head, NEW n, NEW L, Layout(m, B), Linked(m, head, n, L),
           \A i \in 0 .. n - 1 : L[i] \in B
    PROVE  n <= Room
<1> DEFINE f == [i \in 0 .. n - 1 |-> L[i] \div HEADER_SIZE]
<1>1. n \in Nat /\ \A i, j \in 0 .. n - 1 : L[i] = L[j] => i = j
  BY DEF Linked
<1>2. HEADER_SIZE \in Nat \ {0} /\ heap_size \in Nat
  BY HeapAssumption
<1>3. ASSUME NEW b \in B
      PROVE  /\ b \div HEADER_SIZE \in 0 .. Room - 1
             /\ \A c \in B : b < c => b \div HEADER_SIZE # c \div HEADER_SIZE
  <2>1. b \in Nat /\ b + HEADER_SIZE <= heap_size
    BY <1>2, BlockBounds
  <2> DEFINE q == b \div HEADER_SIZE
  <2>2. q \in Nat /\ q * HEADER_SIZE <= b /\ b < q * HEADER_SIZE + HEADER_SIZE
    BY <1>2, <2>1, DivBounds
  <2> HIDE DEF q
  <2>3. q * HEADER_SIZE < Room * HEADER_SIZE
    BY <1>2, <2>1, <2>2, RoomTyped
  <2>4. q < Room
    BY <1>2, <2>2, <2>3, Quotients, RoomTyped
  <2>5. ASSUME NEW c \in B, b < c PROVE q # c \div HEADER_SIZE
    <3>1. c \in Nat /\ b + HEADER_SIZE <= c
      <4>1. c \in Nat /\ b + HEADER_SIZE <= End(m, b) /\ End(m, b) \in Nat
        BY BlockBounds
      <4>2. End(m, b) <= c
        BY <2>5 DEF Layout
      <4> QED
        BY <1>2, <2>1, <4>1, <4>2
    <3> DEFINE r == c \div HEADER_SIZE
    <3>2. r \in Nat /\ r * HEADER_SIZE <= c /\ c < r * HEADER_SIZE + HEADER_SIZE
      BY <1>2, <3>1, DivBounds
    <3> HIDE DEF r
    <3>3. q # r
      BY <1>2, <2>1, <2>2, <3>1, <3>2
    <3> QED
      BY <3>3 DEF r
  <2> QED
    BY <2>2, <2>4, <2>5, RoomTyped DEF q
<1>4. f \in [0 .. n - 1 -> 0 .. Room - 1]
  BY <1>3
<1>5. ASSUME NEW i \in 0 .. n - 1, NEW j \in 0 .. n - 1, f[i] = f[j] PROVE i = j
  <2>1. L[i] \in B /\ L[j] \in B /\ L[i] \div HEADER_SIZE = L[j] \div HEADER_SIZE
    BY <1>5
  <2>2. L[i] \in Nat /\ L[j] \in Nat
    BY <2>1, BlockBounds
  <2>3. ~(L[i] < L[j]) /\ ~(L[j] < L[i])
    BY <1>3, <2>1
  <2>4. L[i] = L[j]
    BY <2>2, <2>3
  <2> QED
    BY <1>1, <2>4
<1>6. f \in Injection(0 .. n - 1, 0 .. Room - 1)
  BY <1>4, <1>5 DEF Injection, IsInjective
<1>7. IsFiniteSet(0 .. Room - 1) /\ Cardinality(0 .. Room - 1) = Room
  <2>1. Room \in Nat /\ Room - 1 \in Int /\ 0 \in Int
    BY RoomTyped
  <2>2. IsFiniteSet(0 .. Room - 1) /\ Cardinality(0 .. Room - 1) = IF 0 > Room - 1 THEN 0 ELSE (Room - 1) - 0 + 1
    BY <2>1, FS_Interval
  <2> QED
    BY <2>1, <2>2
<1>8. Cardinality(0 .. n - 1) = n
  BY <1>1, FS_Interval
<1>9. Cardinality(0 .. n - 1) <= Cardinality(0 .. Room - 1)
  <2> HIDE DEF f
  <2> QED
    BY <1>6, <1>7, FS_Injection
<1> QED
  BY <1>7, <1>8, <1>9

-----------------------------------------------------------------------------
(* Walking the list and the blocks *)

\* The walk along the list meets the linked blocks in their order.
LEMMA ListWalked ==
    ASSUME NEW h, NEW n, NEW L, Linked(h.memory, h.head, n, L), n <= Room
    PROVE  FreeList(h) = [k \in Steps |-> IF k < n THEN L[k] ELSE nullptr]
<1> DEFINE f == [k \in Steps |-> IF k < n THEN L[k] ELSE nullptr]
           P(g) == g = [k \in Steps |-> IF k = 0 THEN h.head
                                        ELSE IF g[k - 1] = nullptr THEN nullptr ELSE h.memory[g[k - 1]].next]
<1>1. /\ n \in Nat /\ Room \in Nat /\ Steps = 0 .. Room
      /\ h.head = IF n = 0 THEN nullptr ELSE L[0]
      /\ \A i \in 0 .. n - 1 : L[i] # nullptr /\ h.memory[L[i]].next = IF i = n - 1 THEN nullptr ELSE L[i + 1]
  BY RoomTyped, NamesAssumption DEF Linked
<1>2. ASSUME NEW k \in Steps
      PROVE  f[k] = IF k = 0 THEN h.head
                    ELSE IF f[k - 1] = nullptr THEN nullptr ELSE h.memory[f[k - 1]].next
  <2>1. CASE k = 0
    BY <1>1, <2>1
  <2>2. CASE k # 0
    <3>1. k \in Nat /\ k - 1 \in Steps /\ k - 1 \in Nat
      BY <1>1, <2>2
    <3>2. CASE k - 1 < n
      <4>1. f[k - 1] = L[k - 1] /\ k - 1 \in 0 .. n - 1
        BY <1>1, <3>1, <3>2
      <4>2. (k - 1) + 1 = k /\ (k - 1 = n - 1 <=> ~(k < n))
        BY <1>1, <3>1, <3>2
      <4> QED
        BY <1>1, <2>2, <4>1, <4>2
    <3>3. CASE ~(k - 1 < n)
      BY <1>1, <2>2, <3>1, <3>3
    <3> QED
      BY <3>2, <3>3
  <2> QED
    BY <2>1, <2>2
<1>3. P(f)
  BY <1>2
<1>4. P(FreeList(h))
  <2>1. \E g : P(g)
    BY <1>3
  <2> QED
    BY <2>1 DEF FreeList
<1> DEFINE g == FreeList(h)
           T == {k \in Steps : g[k] # f[k]}
<1>5. T = {}
  <2> SUFFICES ASSUME T # {} PROVE FALSE
    OBVIOUS
  <2>0. T \in SUBSET Nat
    BY <1>1
  <2>1. PICK k \in T : \A y \in T : k <= y
    <3> HIDE DEF T
    <3> QED
      BY <2>0, MinExists
  <2>2. k \in Steps /\ g[k] # f[k]
    BY <2>1
  <2>3. g[k] = IF k = 0 THEN h.head
               ELSE IF g[k - 1] = nullptr THEN nullptr ELSE h.memory[g[k - 1]].next
    <3> HIDE DEF g
    <3> QED
      BY <1>4, <2>2 DEF g
  <2>4. f[k] = IF k = 0 THEN h.head
               ELSE IF f[k - 1] = nullptr THEN nullptr ELSE h.memory[f[k - 1]].next
    BY <1>2, <2>2
  <2> HIDE DEF f, g
  <2>5. k # 0
    BY <2>2, <2>3, <2>4
  <2>6. k - 1 \in Steps /\ ~(k <= k - 1)
    BY <1>1, <2>2, <2>5
  <2>7. g[k - 1] = f[k - 1]
    BY <2>1, <2>6
  <2> QED
    BY <2>2, <2>3, <2>4, <2>7
<1> QED
  BY <1>4, <1>5

\* A step that stays in S can be taken any number of times.
Iterates(S, x, step, n, f) ==
    f \in [0 .. n -> S] /\ \A k \in 0 .. n : f[k] = IF k = 0 THEN x ELSE step[f[k - 1]]

LEMMA Iterate ==
    ASSUME NEW S, NEW x \in S, NEW step \in [S -> S], NEW N \in Nat
    PROVE  \E f : Iterates(S, x, step, N, f)
<1> DEFINE Ok(n, f) == f \in [0 .. n -> S] /\ \A k \in 0 .. n : f[k] = IF k = 0 THEN x ELSE step[f[k - 1]]
           T == {n \in Nat : ~\E f : Ok(n, f)}
<1>1. T = {}
  <2> SUFFICES ASSUME T # {} PROVE FALSE
    OBVIOUS
  <2>0. T \in SUBSET Nat
    OBVIOUS
  <2>1. PICK n \in T : \A y \in T : n <= y
    <3> HIDE DEF T
    <3> QED
      BY <2>0, MinExists
  <2>2. n \in Nat /\ ~\E f : Ok(n, f)
    BY <2>1
  <2>3. CASE n = 0
    <3>1. Ok(0, [k \in 0 .. 0 |-> x])
      OBVIOUS
    <3> QED
      BY <2>2, <2>3, <3>1
  <2>4. CASE n # 0
    <3>1. n - 1 \in Nat /\ ~(n <= n - 1)
      BY <2>2, <2>4
    <3>2. PICK f : Ok(n - 1, f)
      BY <2>1, <3>1
    <3> DEFINE g == [k \in 0 .. n |-> IF k = n THEN step[f[n - 1]] ELSE f[k]]
    <3>3. f[n - 1] \in S
      BY <3>1, <3>2
    <3>4. g \in [0 .. n -> S]
      BY <3>1, <3>2, <3>3
    <3>5. ASSUME NEW k \in 0 .. n PROVE g[k] = IF k = 0 THEN x ELSE step[g[k - 1]]
      <4>1. CASE k = n
        <5>1. g[k] = step[f[n - 1]] /\ g[n - 1] = f[n - 1]
          BY <3>1, <4>1
        <5> HIDE DEF g
        <5> QED
          BY <2>4, <4>1, <5>1
      <4>2. CASE k # n
        <5>1. k \in 0 .. n - 1 /\ g[k] = f[k]
          BY <3>1, <4>2
        <5>2. k # 0 => g[k - 1] = f[k - 1]
          BY <3>1, <4>2
        <5>3. f[k] = IF k = 0 THEN x ELSE step[f[k - 1]]
          BY <3>2, <5>1
        <5> HIDE DEF g
        <5> QED
          BY <5>1, <5>2, <5>3
      <4> QED
        BY <4>1, <4>2
    <3>6. Ok(n, g)
      BY <3>4, <3>5
    <3> QED
      BY <2>2, <3>6
  <2> QED
    BY <2>3, <2>4
<1>2. \E f : Ok(N, f)
  BY <1>1
<1> QED
  BY <1>2 DEF Iterates

\* The walk from the start of the buffer meets every block, and no other place,
\* before it comes to the end.
LEMMA BlocksWalked ==
    ASSUME NEW B, Layout(memory, B)
    PROVE  WalkedTo = B \cup {heap_size} /\ Blocks = B
<1> DEFINE S == B \cup {heap_size}
           step == [b \in S |-> IF b = heap_size THEN heap_size ELSE End(memory, b)]
           P(g) == g = [k \in Steps |-> IF k = 0 THEN 0
                          ELSE IF g[k - 1] >= heap_size \/ memory[g[k - 1]] = Raw THEN g[k - 1]
                               ELSE Following(Current, g[k - 1])]
<1>1. /\ 0 \in B /\ heap_size \in Nat /\ heap_size \notin B /\ S \subseteq Nat
      /\ \A b \in B : b < heap_size /\ memory[b] # Raw /\ End(memory, b) \in S
  <2>1. 0 \in B /\ heap_size \in Nat
    BY HeapAssumption DEF Layout
  <2>2. ASSUME NEW b \in B PROVE b \in Nat /\ b < heap_size /\ memory[b] # Raw /\ End(memory, b) \in S
    BY BlockBounds, NamesAssumption DEF Layout
  <2> QED
    BY <2>1, <2>2
<1>2. step \in [S -> S] /\ 0 \in S
  BY <1>1
<1>3. ASSUME NEW b \in S
      PROVE  step[b] = IF b >= heap_size \/ memory[b] = Raw THEN b ELSE Following(Current, b)
  <2>1. Following(Current, b) = End(memory, b)
    BY DEF Following, Current, End
  <2>2. CASE b = heap_size
    BY <1>1, <2>2
  <2>3. CASE b # heap_size
    BY <1>1, <2>1, <2>3
  <2> QED
    BY <2>2, <2>3
<1> HIDE DEF step
<1>4. Steps = 0 .. Room /\ Room \in Nat
  BY RoomTyped
<1>5. PICK f \in [Steps -> S] : \A k \in Steps : f[k] = IF k = 0 THEN 0 ELSE step[f[k - 1]]
  <2> HIDE DEF S
  <2>1. \E f : Iterates(S, 0, step, Room, f)
    BY <1>2, <1>4, Iterate
  <2> QED
    BY <1>4, <2>1 DEF Iterates
<1>6. P(f)
  <2>1. ASSUME NEW k \in Steps
        PROVE  f[k] = IF k = 0 THEN 0
                      ELSE IF f[k - 1] >= heap_size \/ memory[f[k - 1]] = Raw THEN f[k - 1]
                           ELSE Following(Current, f[k - 1])
    <3>1. k # 0 => k - 1 \in Steps /\ f[k - 1] \in S
      BY <1>4, <1>5
    <3> HIDE DEF S
    <3> QED
      BY <1>3, <1>5, <3>1
  <2> QED
    BY <1>5, <2>1
<1>7. P(Walk)
  <2>1. \E g : P(g)
    BY <1>6
  <2> QED
    BY <2>1 DEF Walk
<1>8. \A k \in Steps : Walk[k] = IF k = 0 THEN 0
                          ELSE IF Walk[k - 1] >= heap_size \/ memory[Walk[k - 1]] = Raw THEN Walk[k - 1]
                               ELSE Following(Current, Walk[k - 1])
  <2> DEFINE w == Walk
  <2> HIDE DEF w
  <2>1. P(w)
    BY <1>7 DEF w
  <2>2. \A k \in Steps : w[k] = IF k = 0 THEN 0
                          ELSE IF w[k - 1] >= heap_size \/ memory[w[k - 1]] = Raw THEN w[k - 1]
                               ELSE Following(Current, w[k - 1])
    BY <2>1
  <2> QED
    BY <2>2 DEF w
<1>9. \A k \in Steps : Walk[k] \in S
  <2> DEFINE T == {k \in Steps : Walk[k] \notin S}
  <2> SUFFICES ASSUME T # {} PROVE FALSE
    OBVIOUS
  <2>0. T \in SUBSET Nat
    BY <1>4
  <2>1. PICK k \in T : \A y \in T : k <= y
    <3> HIDE DEF T
    <3> QED
      BY <2>0, MinExists
  <2>2. k \in Steps /\ Walk[k] \notin S
    BY <2>1
  <2>3. k # 0
    BY <1>2, <1>8, <2>2
  <2>4. k - 1 \in Steps /\ ~(k <= k - 1)
    BY <1>4, <2>2, <2>3
  <2>5. Walk[k - 1] \in S
    BY <2>1, <2>4
  <2>6. Walk[k] = step[Walk[k - 1]]
    <3> HIDE DEF S
    <3> QED
      BY <1>3, <1>8, <2>2, <2>3, <2>5
  <2> HIDE DEF S
  <2> QED
    BY <1>2, <2>2, <2>5, <2>6
<1>10. \A k \in Steps : k # 0 => k - 1 \in Steps /\ Walk[k] = step[Walk[k - 1]]
  <2> TAKE k \in Steps
  <2> HAVE k # 0
  <2>1. k - 1 \in Steps
    BY <1>4
  <2>2. Walk[k - 1] \in S
    BY <1>9, <2>1
  <2> HIDE DEF S
  <2> QED
    BY <1>3, <1>8, <2>1, <2>2
<1>11. Walk[0] = 0
  BY <1>4, <1>8
<1>12. \A b \in B : step[b] = End(memory, b)
  BY <1>1 DEF step
<1>13. step[heap_size] = heap_size
  BY DEF step
<1>14. \A k \in Steps : Walk[k] # heap_size => Walk[k] >= k * HEADER_SIZE
  <2> DEFINE T == {k \in Steps : Walk[k] # heap_size /\ Walk[k] < k * HEADER_SIZE}
  <2>9. T = {}
    <3> SUFFICES ASSUME T # {} PROVE FALSE
      OBVIOUS
    <3>0. T \in SUBSET Nat
      BY <1>4
    <3>1. PICK k \in T : \A y \in T : k <= y
      <4> HIDE DEF T
      <4> QED
        BY <3>0, MinExists
    <3>2. k \in Steps /\ Walk[k] # heap_size /\ Walk[k] < k * HEADER_SIZE /\ k \in Nat
      BY <1>4, <3>1
    <3>3. k # 0
      BY <1>11, <3>2, HeapAssumption
    <3>4. k - 1 \in Steps /\ ~(k <= k - 1) /\ Walk[k] = step[Walk[k - 1]]
      BY <1>10, <3>2, <3>3
    <3>5. Walk[k - 1] # heap_size /\ Walk[k - 1] \in B
      BY <1>9, <1>13, <3>2, <3>4
    <3>6. ~(Walk[k - 1] < (k - 1) * HEADER_SIZE)
      BY <3>1, <3>4, <3>5
    <3>7. Walk[k - 1] \in Nat /\ Walk[k] \in Nat /\ Walk[k - 1] + HEADER_SIZE <= Walk[k]
      BY <1>12, <3>4, <3>5, BlockBounds
    <3>8. (k - 1) * HEADER_SIZE + HEADER_SIZE = k * HEADER_SIZE /\ k * HEADER_SIZE \in Nat
          /\ (k - 1) * HEADER_SIZE \in Nat
      BY <1>4, <3>2, <3>3, HeapAssumption
    <3> QED
      BY <3>2, <3>6, <3>7, <3>8, HeapAssumption
  <2> TAKE k \in Steps
  <2>1. k * HEADER_SIZE \in Nat /\ Walk[k] \in Nat
    BY <1>1, <1>4, <1>9, HeapAssumption
  <2> QED
    BY <2>9, <2>1
<1>15. Walk[Room] = heap_size
  <2> SUFFICES ASSUME Walk[Room] # heap_size PROVE FALSE
    OBVIOUS
  <2>1. Walk[Room] >= Room * HEADER_SIZE /\ Walk[Room] \in B
    BY <1>4, <1>9, <1>14
  <2>2. Walk[Room] \in Nat /\ Walk[Room] + HEADER_SIZE <= End(memory, Walk[Room])
        /\ End(memory, Walk[Room]) <= heap_size /\ End(memory, Walk[Room]) \in Nat
    BY <2>1, BlockBounds
  <2>3. Room * HEADER_SIZE \in Nat
    BY <1>4, HeapAssumption
  <2> QED
    BY <2>1, <2>2, <2>3, RoomTyped, HeapAssumption
<1>16. ASSUME NEW b \in B PROVE \E k \in Steps : Walk[k] = b
  <2> DEFINE T == {k \in Steps : Walk[k] > b}
  <2>0. b \in Nat /\ b < heap_size
    BY BlockBounds
  <2>1. T # {}
    BY <1>1, <1>4, <1>15, <2>0
  <2>2. T \in SUBSET Nat
    BY <1>4
  <2>3. PICK k \in T : \A y \in T : k <= y
    <3> HIDE DEF T
    <3> QED
      BY <2>1, <2>2, MinExists
  <2>4. k \in Steps /\ Walk[k] > b /\ k \in Nat
    BY <1>4, <2>3
  <2>5. k # 0
    BY <1>11, <2>0, <2>4
  <2>6. k - 1 \in Steps /\ ~(k <= k - 1) /\ Walk[k] = step[Walk[k - 1]]
    BY <1>10, <2>4, <2>5
  <2>7. ~(Walk[k - 1] > b)
    BY <2>3, <2>6
  <2>8. Walk[k - 1] \in B /\ Walk[k - 1] \in Nat
    BY <1>1, <1>9, <2>0, <2>6, <2>7
  <2>9. Walk[k] = End(memory, Walk[k - 1])
    BY <1>12, <2>6, <2>8
  <2>10. Walk[k] \in Nat
    BY <2>8, <2>9, BlockBounds
  <2>11. ~(Walk[k - 1] < b)
    <3> SUFFICES ASSUME Walk[k - 1] < b PROVE FALSE
      OBVIOUS
    <3>1. End(memory, Walk[k - 1]) <= b
      BY <2>8 DEF Layout
    <3> QED
      BY <2>0, <2>4, <2>9, <2>10, <3>1
  <2>12. Walk[k - 1] = b
    BY <2>0, <2>7, <2>8, <2>11
  <2> QED
    BY <2>6, <2>12
<1>17. WalkedTo = S
  <2>1. WalkedTo \subseteq S
    BY <1>9 DEF WalkedTo
  <2>2. heap_size \in WalkedTo
    BY <1>4, <1>15 DEF WalkedTo
  <2>3. B \subseteq WalkedTo
    BY <1>16 DEF WalkedTo
  <2> QED
    BY <2>1, <2>2, <2>3
<1> QED
  BY <1>1, <1>17 DEF Blocks

-----------------------------------------------------------------------------
(* Splitting, taking, giving back and joining blocks *)

Good(h, B, n, L) ==
    /\ h \in Heaps /\ Layout(h.memory, B)
    /\ Linked(h.memory, h.head, n, L) /\ FreeLinked(h.memory, B, n, L)

LEMMA SameLayout ==
    ASSUME NEW m, NEW B, Layout(m, B), NEW g \in Cells,
           \A b \in B : g[b] \in BlockHeader /\ g[b].size = m[b].size
    PROVE  Layout(g, B)
<1>1. \A b \in B : End(g, b) = End(m, b)
  BY DEF End
<1> QED
  BY <1>1 DEF Layout

LEMMA SameIsFree ==
    ASSUME NEW m, NEW g, NEW B, \A b \in B : g[b].is_free = m[b].is_free
    PROVE  Free(g, B) = Free(m, B)
BY DEF Free

LEMMA FreeOnes ==
    ASSUME NEW h, NEW B, NEW n, NEW L, Good(h, B, n, L)
    PROVE  /\ \A i \in 0 .. n - 1 : L[i] \in B /\ L[i] \in Free(h.memory, B)
           /\ \A b \in Free(h.memory, B) : \E i \in 0 .. n - 1 : L[i] = b
           /\ n <= Room /\ n \in Nat
<1>1. Free(h.memory, B) = {L[i] : i \in 0 .. n - 1}
  BY DEF Good, FreeLinked
<1>2. Free(h.memory, B) \subseteq B
  BY DEF Free
<1>3. n <= Room
  BY <1>1, <1>2, ListFits DEF Good
<1>4. n \in Nat
  BY DEF Good, Linked
<1> QED
  BY <1>1, <1>2, <1>3, <1>4

LEMMA AlignedSizes ==
    ASSUME NEW size \in Nat \ {0}
    PROVE  /\ AlignedSize(size) \in Nat \ {0} /\ AlignedSize(size) >= size
           /\ AlignedSize(size) % ALIGNMENT = 0
<1> DEFINE q == (size + ALIGNMENT - 1) \div ALIGNMENT
<1>1. ALIGNMENT \in Nat \ {0} /\ size + ALIGNMENT - 1 \in Nat
  BY HeapAssumption
<1>2. q \in Nat /\ size + ALIGNMENT - 1 < q * ALIGNMENT + ALIGNMENT
  BY <1>1, DivBounds
<1>3. align_up(size) = q * ALIGNMENT
  BY DEF align_up
<1> HIDE DEF q
<1>4. q * ALIGNMENT \in Nat /\ q * ALIGNMENT >= size
  BY <1>1, <1>2
<1>5. (q * ALIGNMENT) % ALIGNMENT = 0
  BY <1>1, <1>2
<1>6. AlignedSize(size) = q * ALIGNMENT
  BY <1>3, <1>4 DEF AlignedSize
<1> QED
  BY <1>4, <1>5, <1>6

LEMMA AlignedSum ==
    ASSUME NEW a \in Nat, NEW b \in Nat, a % ALIGNMENT = 0, b % ALIGNMENT = 0
    PROVE  (a + b) % ALIGNMENT = 0
<1> DEFINE p == a \div ALIGNMENT
           q == b \div ALIGNMENT
<1>1. ALIGNMENT \in Nat \ {0}
  BY HeapAssumption
<1>2. p \in Nat /\ q \in Nat
  BY <1>1, DivBounds
<1>3. a = p * ALIGNMENT
  BY <1>1
<1>4. b = q * ALIGNMENT
  BY <1>1
<1> HIDE DEF p, q
<1>5. a + b = (p + q) * ALIGNMENT
  BY <1>1, <1>2, <1>3, <1>4
<1>6. ((p + q) * ALIGNMENT) % ALIGNMENT = 0
  BY <1>1, <1>2
<1> QED
  BY <1>5, <1>6

\* What new finds is a block of the list that is large enough.
LEMMA FitFound ==
    ASSUME NEW h, NEW B, NEW n, NEW L, Good(h, B, n, L), NEW size \in Nat, FirstFit(h, size) # nullptr
    PROVE  \E j \in 0 .. n - 1 : FirstFit(h, size) = L[j] /\ h.memory[L[j]].size >= size
<1> DEFINE list == FreeList(h)
           fits == {k \in Steps : /\ list[k] # nullptr
                                  /\ h.memory[list[k]].is_free /\ h.memory[list[k]].size >= size}
<1>1. list = [k \in Steps |-> IF k < n THEN L[k] ELSE nullptr]
  <2>1. n <= Room /\ Linked(h.memory, h.head, n, L)
    BY FreeOnes DEF Good
  <2> QED
    BY <2>1, ListWalked
<1>2. FirstFit(h, size) = IF fits = {} THEN nullptr ELSE list[CHOOSE k \in fits : \A j \in fits : k <= j]
  BY DEF FirstFit
<1>3. fits # {}
  BY <1>2
<1>4. \A k \in fits : k \in 0 .. n - 1 /\ list[k] = L[k] /\ h.memory[L[k]].size >= size
  <2> HIDE DEF list
  <2>1. Steps \subseteq Nat /\ n \in Nat
    BY RoomTyped, FreeOnes
  <2> QED
    BY <1>1, <2>1
<1>5. fits \in SUBSET Nat
  BY RoomTyped
<1> HIDE DEF fits, list
<1>6. \E k \in fits : \A j \in fits : k <= j
  BY <1>3, <1>5, MinExists
<1> DEFINE c == CHOOSE k \in fits : \A j \in fits : k <= j
<1>7. c \in fits
  BY <1>6
<1>8. FirstFit(h, size) = list[c]
  BY <1>2, <1>3
<1> HIDE DEF c
<1> QED
  BY <1>4, <1>7, <1>8

LEMMA SetSize ==
    ASSUME NEW r \in BlockHeader, NEW x \in 0 .. heap_size
    PROVE  /\ [r EXCEPT !.size = x] \in BlockHeader /\ [r EXCEPT !.size = x].size = x
           /\ [r EXCEPT !.size = x].is_free = r.is_free
           /\ [r EXCEPT !.size = x].next = r.next /\ [r EXCEPT !.size = x].prev = r.prev
BY DEF BlockHeader

\* The links of the list do not depend on what else is in the buffer.
LEMMA SameLinks ==
    ASSUME NEW m, NEW g, NEW head, NEW n, NEW L, Linked(m, head, n, L),
           \A i \in 0 .. n - 1 : /\ g[L[i]] \in BlockHeader
                                 /\ g[L[i]].next = m[L[i]].next /\ g[L[i]].prev = m[L[i]].prev
    PROVE  Linked(g, head, n, L)
BY DEF Linked

\* g is h after a split: no other block has changed, and none is held that was not.
SplitInto(h, B, block, size, g, C) ==
    /\ B \subseteq C /\ C \ Free(g.memory, C) = B \ Free(h.memory, B)
    /\ g.memory[block].size >= size
    /\ \A b \in B \ {block} : g.memory[b].size = h.memory[b].size

\* The block, and what is cut off from it if it is too large, are in the list.
LEMMA SplitGood ==
    ASSUME NEW h, NEW B, NEW n, NEW L, Good(h, B, n, L), NEW j \in 0 .. n - 1,
           NEW size \in Nat \ {0}, size % ALIGNMENT = 0, h.memory[L[j]].size >= size
    PROVE  \E C, k, M, i :
              /\ Good(Split(h, L[j], size), C, k, M) /\ i \in 0 .. k - 1 /\ M[i] = L[j]
              /\ SplitInto(h, B, L[j], size, Split(h, L[j], size), C)
<1> DEFINE block == L[j]
           m == h.memory
           remaining == m[block].size - size
           nb == block + HEADER_SIZE + size
           header == [size |-> remaining - HEADER_SIZE, is_free |-> FALSE, next |-> nullptr, prev |-> nullptr]
           cut == [a \in Addresses |-> IF a = nb THEN header
                                       ELSE IF a \in nb + 1 .. nb + HEADER_SIZE - 1 THEN Raw
                                       ELSE m[a]]
           m1 == [cut EXCEPT ![block].size = size]
           h1 == [h EXCEPT !.memory = m1]
           C == B \cup {nb}
<1>1. /\ h \in Heaps /\ m \in Cells /\ Layout(m, B) /\ Linked(m, h.head, n, L)
      /\ \A i \in 0 .. n - 1 : L[i] \in B
      /\ block \in B /\ block \in Free(m, B)
  BY FreeOnes DEF Good, Heaps
<1>2. CASE ~WorthSplitting(remaining)
  <2>1. Split(h, block, size) = h
    BY <1>2 DEF Split
  <2>2. SplitInto(h, B, L[j], size, h, B)
    BY DEF SplitInto
  <2> QED
    BY <1>1, <2>1, <2>2
<1>3. CASE WorthSplitting(remaining)
  <2>1. /\ HEADER_SIZE \in Nat \ {0} /\ ALIGNMENT \in Nat \ {0} /\ heap_size \in Nat
        /\ HEADER_SIZE % ALIGNMENT = 0
    BY HeapAssumption
  <2>2. /\ block \in Nat /\ block < heap_size /\ m[block] \in BlockHeader /\ m[block].size \in Nat
        /\ End(m, block) \in Nat /\ End(m, block) <= heap_size
        /\ End(m, block) = block + HEADER_SIZE + m[block].size
    BY <1>1, BlockBounds
  <2>3. /\ nb \in Nat /\ block < nb /\ nb + HEADER_SIZE <= End(m, block)
        /\ remaining - HEADER_SIZE \in Nat
        /\ nb + HEADER_SIZE + (remaining - HEADER_SIZE) = End(m, block)
        /\ size < m[block].size
    BY <1>3, <2>1, <2>2 DEF WorthSplitting
  <2>4. nb \in Addresses /\ block \in Addresses /\ B \subseteq Addresses
    BY <1>1, <2>1, <2>2, <2>3 DEF Addresses, Layout
  <2>5. header \in BlockHeader
    <3>1. remaining - HEADER_SIZE \in 0 .. heap_size
      BY <2>1, <2>2, <2>3
    <3> HIDE DEF remaining
    <3> QED
      BY <3>1 DEF BlockHeader, Links
  <2>6. header.size = remaining - HEADER_SIZE /\ header.is_free = FALSE
    BY Zenon
  <2> HIDE DEF header
  <2>7. \A b \in B : b \in Nat /\ b # nb /\ b \notin nb + 1 .. nb + HEADER_SIZE - 1
    <3> TAKE b \in B
    <3>1. b \in Nat /\ End(m, b) \in Nat /\ b + HEADER_SIZE <= End(m, b)
      BY <1>1, BlockBounds
    <3>2. b < block => End(m, b) <= block
      BY <1>1 DEF Layout
    <3>3. block < b => End(m, block) <= b
      BY <1>1 DEF Layout
    <3> HIDE DEF nb
    <3> QED
      BY <2>1, <2>2, <2>3, <3>1, <3>2, <3>3
  <2>8. cut \in Cells
    BY <1>1, <2>5 DEF Cells
  <2>9. \A b \in B : cut[b] = m[b]
    <3> HIDE DEF nb
    <3> QED
      BY <2>4, <2>7
  <2>10. cut[nb] = header
    BY <2>4
  <2> HIDE DEF cut, nb
  <2>11. size \in 0 .. heap_size
    BY <2>1, <2>2, <2>3
  <2>12. [m[block] EXCEPT !.size = size] \in BlockHeader
    BY <2>2, <2>11, SetSize
  <2>13. /\ DOMAIN m1 = Addresses /\ m1[block] = [m[block] EXCEPT !.size = size]
         /\ \A a \in Addresses : a # block => m1[a] = cut[a]
    BY <1>1, <2>4, <2>8, <2>9 DEF Cells
  <2>14. m1 \in Cells
    <3>1. m1 = [a \in Addresses |-> m1[a]]
      BY <2>8 DEF Cells
    <3>2. \A a \in Addresses : m1[a] \in BlockHeader \cup {Raw}
      <4> HIDE DEF m1
      <4> QED
        BY <2>8, <2>12, <2>13 DEF Cells
    <3> HIDE DEF m1
    <3> QED
      BY <3>1, <3>2 DEF Cells
  <2>15. h1 \in Heaps /\ h1.memory = m1 /\ h1.head = h.head
    <3> HIDE DEF m1
    <3> QED
      BY <1>1, <2>14 DEF Heaps
  <2> HIDE DEF m1
  <2>16. \A b \in B \ {block} : m1[b] = m[b] /\ m1[b] \in BlockHeader
    <3>1. \A b \in B : m[b] \in BlockHeader
      BY <1>1, BlockBounds
    <3> QED
      BY <2>4, <2>9, <2>13, <3>1
  <2>17. m1[nb] = header
    BY <2>3, <2>4, <2>10, <2>13
  <2>18. /\ m1[block] \in BlockHeader /\ m1[block].size = size /\ m1[block].is_free = m[block].is_free
         /\ m1[block].next = m[block].next /\ m1[block].prev = m[block].prev
    BY <2>2, <2>11, <2>13, SetSize
  <2>19. Layout(m1, C)
    <3>1. End(m1, block) = nb
      BY <2>18 DEF End, nb
    <3>2. End(m1, nb) = End(m, block)
      BY <2>3, <2>6, <2>17 DEF End
    <3>3. \A b \in B \ {block} : End(m1, b) = End(m, b)
      BY <2>16 DEF End
    <3>4. nb % ALIGNMENT = 0
      <4>1. block % ALIGNMENT = 0
        BY <1>1 DEF Layout
      <4>2. (block + HEADER_SIZE) % ALIGNMENT = 0
        BY <2>1, <2>2, <4>1, AlignedSum
      <4>3. (block + HEADER_SIZE + size) % ALIGNMENT = 0
        BY <2>1, <2>2, <4>2, AlignedSum
      <4> QED
        BY <4>3 DEF nb
    <3>5. ASSUME NEW b \in C
          PROVE  m1[b] \in BlockHeader /\ b % ALIGNMENT = 0 /\ End(m1, b) \in C \cup {heap_size}
      <4>1. CASE b = nb
        BY <1>1, <2>5, <2>17, <3>2, <3>4, <4>1 DEF Layout
      <4>2. CASE b = block
        BY <1>1, <2>18, <3>1, <4>2 DEF Layout
      <4>3. CASE b \in B \ {block}
        BY <1>1, <2>16, <3>3, <4>3 DEF Layout
      <4> QED
        BY <4>1, <4>2, <4>3
    <3>6. ASSUME NEW b \in C, NEW c \in C, b < c PROVE End(m1, b) <= c
      <4>0. \A d \in B : d \in Nat /\ End(m, d) \in Nat /\ d + HEADER_SIZE <= End(m, d)
        BY <1>1, BlockBounds
      <4>1. CASE b \in B \ {block} /\ c \in B
        BY <1>1, <3>3, <3>6, <4>1 DEF Layout
      <4>2. CASE b \in B \ {block} /\ c = nb
        <5>1. b < block
          <6>1. block < b => End(m, block) <= b
            BY <1>1, <4>2 DEF Layout
          <6>2. b \in Nat /\ b < nb /\ b # block /\ nb < End(m, block)
            BY <2>1, <2>2, <2>3, <3>6, <4>0, <4>2
          <6>3. block \in Nat /\ nb \in Nat /\ End(m, block) \in Nat
            BY <2>2, <2>3
          <6> HIDE DEF block
          <6> QED
            BY <6>1, <6>2, <6>3
        <5>2. End(m, b) <= block
          BY <1>1, <4>2, <5>1 DEF Layout
        <5> QED
          BY <2>2, <2>3, <3>3, <4>0, <4>2, <5>2
      <4>3. CASE b = block /\ c \in B
        <5>1. End(m, block) <= c
          BY <1>1, <3>6, <4>3 DEF Layout
        <5> QED
          BY <2>1, <2>2, <2>3, <3>1, <4>0, <4>3, <5>1
      <4>4. CASE b = block /\ c = nb
        BY <2>3, <3>1, <4>4
      <4>5. CASE b = nb /\ c \in B
        <5>1. block < c
          <6>1. nb < c /\ c \in Nat /\ block \in Nat /\ nb \in Nat /\ block < nb
            BY <2>2, <2>3, <3>6, <4>0, <4>5
          <6> HIDE DEF block
          <6> QED
            BY <6>1
        <5> QED
          BY <1>1, <3>2, <4>5, <5>1 DEF Layout
      <4>6. CASE b = nb /\ c = nb
        BY <2>3, <3>6, <4>6
      <4> QED
        BY <4>1, <4>2, <4>3, <4>4, <4>5, <4>6
    <3>7. C \subseteq Addresses /\ 0 \in C
      BY <1>1, <2>4 DEF Layout
    <3> QED
      BY <2>14, <3>5, <3>6, <3>7 DEF Layout
  <2>20. Linked(m1, h.head, n, L)
    <3>1. \A i \in 0 .. n - 1 : /\ m1[L[i]] \in BlockHeader
                                /\ m1[L[i]].next = m[L[i]].next /\ m1[L[i]].prev = m[L[i]].prev
      BY <1>1, <2>16, <2>18
    <3> QED
      BY <1>1, <3>1, SameLinks
  <2> DEFINE g == add_to_free_list(h1, nb)
             M == InFront(nb, n, L)
  <2>21. /\ g \in Heaps /\ Linked(g.memory, g.head, n + 1, M)
         /\ SameBlocks([m1 EXCEPT ![nb].is_free = TRUE], g.memory)
    <3>1. h1.memory[nb] \in BlockHeader /\ \A i \in 0 .. n - 1 : L[i] # nb
      BY <1>1, <2>5, <2>7, <2>15, <2>17
    <3>2. Linked(h1.memory, h1.head, n, L)
      BY <2>15, <2>20
    <3> HIDE DEF h1
    <3>3. /\ g \in Heaps /\ Linked(g.memory, g.head, n + 1, M)
          /\ SameBlocks([h1.memory EXCEPT ![nb].is_free = TRUE], g.memory)
      BY <2>4, <2>15, <3>1, <3>2, AddFront, SMTT(30)
    <3> HIDE DEF g, M
    <3> QED
      BY <2>15, <3>3
  <2>22. \A b \in B : /\ g.memory[b] \in BlockHeader
                      /\ g.memory[b].size = m1[b].size /\ g.memory[b].is_free = m[b].is_free
    <3> DEFINE mf == [m1 EXCEPT ![nb].is_free = TRUE]
    <3> TAKE b \in B
    <3>1. mf[b] = m1[b]
      BY <2>4, <2>7, <2>14 DEF Cells
    <3>2. m1[b] \in BlockHeader
      BY <2>16, <2>18
    <3>3. m1[b].is_free = m[b].is_free
      BY <2>16, <2>18
    <3>4. b \in Addresses
      BY <2>4
    <3> HIDE DEF g, mf
    <3>5. SameBlocks(mf, g.memory)
      BY <2>21 DEF mf
    <3>6. /\ g.memory[b] \in BlockHeader
          /\ g.memory[b].size = mf[b].size /\ g.memory[b].is_free = mf[b].is_free
      BY <3>1, <3>2, <3>4, <3>5 DEF SameBlocks
    <3> QED
      BY <3>1, <3>3, <3>6, Zenon
  <2>23. /\ g.memory[nb] \in BlockHeader /\ g.memory[nb].size = m1[nb].size
         /\ g.memory[nb].is_free = TRUE
    <3> DEFINE mf == [m1 EXCEPT ![nb].is_free = TRUE]
    <3>1. mf[nb] = [header EXCEPT !.is_free = TRUE]
      BY <2>4, <2>14, <2>17 DEF Cells
    <3>2. mf[nb] \in BlockHeader /\ mf[nb].size = header.size /\ mf[nb].is_free = TRUE
      <4>1. [header EXCEPT !.is_free = TRUE] \in BlockHeader
        BY <2>5, HeaderFields
      <4>2. [header EXCEPT !.is_free = TRUE].size = header.size /\ [header EXCEPT !.is_free = TRUE].is_free = TRUE
        BY <2>5, SetFree
      <4> QED
        BY <3>1, <4>1, <4>2, Zenon
    <3> HIDE DEF g, mf
    <3>3. SameBlocks(mf, g.memory)
      BY <2>21 DEF mf
    <3>4. /\ g.memory[nb] \in BlockHeader
          /\ g.memory[nb].size = mf[nb].size /\ g.memory[nb].is_free = mf[nb].is_free
      BY <2>4, <3>2, <3>3 DEF SameBlocks
    <3> QED
      BY <2>17, <3>2, <3>4, Zenon
  <2> HIDE DEF g
  <2>24. g.memory \in Cells
    BY <2>21 DEF Heaps
  <2>25. Layout(g.memory, C)
    BY <2>19, <2>22, <2>23, <2>24, SameLayout
  <2>26. Free(g.memory, C) = Free(m, B) \cup {nb}
    BY <2>22, <2>23 DEF Free
  <2>28. n \in Nat /\ M[0] = nb
    BY FreeOnes DEF InFront
  <2>27. \A i \in 1 .. n : M[i] = L[i - 1] /\ i - 1 \in 0 .. n - 1
    BY <2>28 DEF InFront
  <2>29. FreeLinked(g.memory, C, n + 1, M)
    <3>1. Free(m, B) = {L[i] : i \in 0 .. n - 1}
      BY DEF Good, FreeLinked
    <3> HIDE DEF M
    <3>2. {M[i] : i \in 0 .. (n + 1) - 1} = {L[i] : i \in 0 .. n - 1} \cup {nb}
      <4>1. \A i \in 0 .. (n + 1) - 1 : i = 0 \/ i \in 1 .. n
        BY <2>28
      <4>2. \A i \in 0 .. n - 1 : i + 1 \in 1 .. n /\ i + 1 \in 0 .. (n + 1) - 1 /\ (i + 1) - 1 = i
        BY <2>28
      <4>3. 0 \in 0 .. (n + 1) - 1
        BY <2>28
      <4> QED
        BY <2>27, <2>28, <4>1, <4>2, <4>3
    <3> QED
      BY <2>26, <3>1, <3>2 DEF FreeLinked
  <2>30. Split(h, block, size) = g
    BY <1>3 DEF Split, g, h1, m1, cut, header, nb
  <2>31. Good(g, C, n + 1, M)
    BY <2>21, <2>25, <2>29 DEF Good
  <2>32. j + 1 \in 0 .. (n + 1) - 1 /\ M[j + 1] = block
    <3>1. j + 1 \in 1 .. n /\ (j + 1) - 1 = j /\ j + 1 \in 0 .. (n + 1) - 1
      BY <2>28
    <3> HIDE DEF M
    <3> QED
      BY <2>27, <3>1
  <2>33. C \ Free(g.memory, C) = B \ Free(m, B)
    BY <2>7, <2>26
  <2>34. g.memory[block].size = size /\ \A b \in B \ {block} : g.memory[b].size = m[b].size
    BY <1>1, <2>16, <2>18, <2>22
  <2>35. g.memory[block].size >= size
    BY <2>34
  <2> HIDE DEF M, C
  <2>36. B \subseteq C
    BY DEF C
  <2> QED
    <3>1. /\ Good(g, C, n + 1, M) /\ j + 1 \in 0 .. (n + 1) - 1 /\ M[j + 1] = L[j]
          /\ SplitInto(h, B, L[j], size, g, C)
      BY <2>31, <2>32, <2>33, <2>34, <2>35, <2>36 DEF SplitInto
    <3>2. Split(h, L[j], size) = g
      BY <2>30
    <3> HIDE DEF m, block
    <3> QED
      BY <3>1, <3>2
<1> QED
  BY <1>2, <1>3

\* The list without one of its blocks.
LEMMA WithoutOne ==
    ASSUME NEW m, NEW head, NEW n, NEW L, Linked(m, head, n, L), NEW j \in 0 .. n - 1
    PROVE  {Without(j, n, L)[i] : i \in 0 .. (n - 1) - 1} = {L[i] : i \in 0 .. n - 1} \ {L[j]}
<1>1. n \in Nat /\ \A i, k \in 0 .. n - 1 : L[i] = L[k] => i = k
  BY DEF Linked
<1>2. \A i \in 0 .. (n - 1) - 1 : Without(j, n, L)[i] = IF i < j THEN L[i] ELSE L[i + 1]
  BY <1>1 DEF Without
<1>3. ASSUME NEW i \in 0 .. (n - 1) - 1
      PROVE  Without(j, n, L)[i] \in {L[k] : k \in 0 .. n - 1} \ {L[j]}
  <2>1. CASE i < j
    BY <1>1, <1>2, <2>1
  <2>2. CASE ~(i < j)
    <3>1. i + 1 \in 0 .. n - 1 /\ i + 1 # j
      BY <1>1, <2>2
    <3> QED
      BY <1>1, <1>2, <2>2, <3>1
  <2> QED
    BY <2>1, <2>2
<1>4. ASSUME NEW k \in 0 .. n - 1, k # j
      PROVE  \E i \in 0 .. (n - 1) - 1 : Without(j, n, L)[i] = L[k]
  <2>1. CASE k < j
    <3>1. k \in 0 .. (n - 1) - 1
      BY <1>1, <2>1
    <3> QED
      BY <1>2, <2>1, <3>1
  <2>2. CASE k > j
    <3>1. k - 1 \in 0 .. (n - 1) - 1 /\ ~(k - 1 < j) /\ (k - 1) + 1 = k
      BY <1>1, <2>2
    <3> QED
      BY <1>2, <3>1
  <2> QED
    BY <1>4, <2>1, <2>2
<1> QED
  BY <1>3, <1>4

\* g is h after the block was taken: it is held, and the other held blocks are as before.
Takes(h, B, block, size, g, C) ==
    /\ C \ Free(g.memory, C) = (B \ Free(h.memory, B)) \cup {block}
    /\ g.memory[block].size >= size
    /\ \A b \in B \ Free(h.memory, B) : g.memory[b].size = h.memory[b].size

\* What new takes is out of the list and held; the other held blocks stay as they are.
LEMMA TakeGood ==
    ASSUME NEW h, NEW B, NEW n, NEW L, Good(h, B, n, L), NEW j \in 0 .. n - 1,
           NEW size \in Nat \ {0}, size % ALIGNMENT = 0, h.memory[L[j]].size >= size
    PROVE  \E C, k, M : /\ Good(TakeBlock(h, L[j], size), C, k, M)
                        /\ Takes(h, B, L[j], size, TakeBlock(h, L[j], size), C)
<1> DEFINE block == L[j]
           h2 == Split(h, block, size)
<1>0. PICK C, k, M, i : /\ Good(h2, C, k, M) /\ i \in 0 .. k - 1 /\ M[i] = block
                        /\ SplitInto(h, B, block, size, h2, C)
  BY SplitGood
<1>1. /\ Good(h2, C, k, M) /\ i \in 0 .. k - 1 /\ M[i] = block
      /\ B \subseteq C /\ C \ Free(h2.memory, C) = B \ Free(h.memory, B)
      /\ h2.memory[block].size >= size
      /\ \A b \in B \ {block} : h2.memory[b].size = h.memory[b].size
  BY <1>0 DEF SplitInto
<1>2. block \in Free(h.memory, B) /\ block \in B
  BY FreeOnes
<1> HIDE DEF h2, block
<1> DEFINE h3 == remove_from_free_list(h2, block)
           N == Without(i, k, M)
           h4 == [h3 EXCEPT !.memory[block].is_free = FALSE]
           h5 == HandedOut(h4, block)
<1>3. h3 \in Heaps /\ SameBlocks(h2.memory, h3.memory) /\ Linked(h3.memory, h3.head, k - 1, N)
  <2>1. h2 \in Heaps /\ Linked(h2.memory, h2.head, k, M)
    BY <1>1 DEF Good
  <2> QED
    BY <1>1, <2>1, RemoveAt
<1>4. /\ Layout(h2.memory, C) /\ C \subseteq Addresses /\ block \in C
      /\ \A b \in C : h2.memory[b] \in BlockHeader
  BY <1>1, <1>2 DEF Good, Layout
<1> HIDE DEF h3, N
<1>5. h3.memory \in Cells /\ h3.head \in Links
  BY <1>3 DEF Heaps
<1>6. \A b \in C : /\ h3.memory[b] \in BlockHeader /\ h3.memory[b].size = h2.memory[b].size
                   /\ h3.memory[b].is_free = h2.memory[b].is_free
  BY <1>3, <1>4 DEF SameBlocks
<1> DEFINE off == [h3.memory[block] EXCEPT !.is_free = FALSE]
<1>7. off \in BlockHeader /\ off.size = h3.memory[block].size /\ off.is_free = FALSE
  BY <1>4, <1>6, HeaderFields, SetFree
<1>8. h4.memory = [h3.memory EXCEPT ![block] = off] /\ h4.head = h3.head
  BY <1>3, <1>4, <1>5 DEF Heaps, Cells
<1>9. h4 = [memory |-> h4.memory, head |-> h4.head]
  <2>1. h3 = [memory |-> h3.memory, head |-> h3.head]
    BY <1>3 DEF Heaps
  <2>2. \A x : [h3 EXCEPT !.memory = x] = [memory |-> x, head |-> h3.head]
    BY <2>1
  <2>3. h4 = [h3 EXCEPT !.memory = [h3.memory EXCEPT ![block].is_free = FALSE]]
    BY <2>1
  <2> QED
    BY <2>2, <2>3
<1> HIDE DEF h4, off
<1>10. h4.memory \in Cells /\ h4.memory[block] = off /\ \A a \in Addresses : a # block => h4.memory[a] = h3.memory[a]
  BY <1>4, <1>5, <1>7, <1>8 DEF Cells
<1>11. Layout(h4.memory, C)
  <2>1. \A b \in C : h4.memory[b] \in BlockHeader /\ h4.memory[b].size = h2.memory[b].size
    BY <1>4, <1>6, <1>7, <1>10
  <2> QED
    BY <1>4, <1>10, <2>1, SameLayout
<1>12. /\ h5.memory = [a \in Addresses |-> IF a \in block + 1 .. Following(h4, block) - 1 THEN Raw ELSE h4.memory[a]]
       /\ h5.head = h4.head /\ h5 = [memory |-> h5.memory, head |-> h5.head]
  BY <1>9 DEF HandedOut
<1> HIDE DEF h5
<1>13. h5.memory \in Cells
  BY <1>10, <1>12 DEF Cells
<1>14. \A b \in C : h5.memory[b] = h4.memory[b]
  <2> TAKE b \in C
  <2>1. Following(h4, block) = End(h4.memory, block)
    BY DEF Following, End
  <2>2. block < b => End(h4.memory, block) <= b
    BY <1>4, <1>11 DEF Layout
  <2>3. b \in Nat /\ block \in Nat /\ End(h4.memory, block) \in Nat
    BY <1>4, <1>11, BlockBounds
  <2>4. b \notin block + 1 .. Following(h4, block) - 1
    BY <2>1, <2>2, <2>3
  <2> QED
    BY <1>4, <1>12, <2>4
<1>15. Layout(h5.memory, C)
  <2>1. \A b \in C : h5.memory[b] \in BlockHeader /\ h5.memory[b].size = h4.memory[b].size
    BY <1>11, <1>14 DEF Layout
  <2> QED
    BY <1>11, <1>13, <2>1, SameLayout
<1>16. {N[a] : a \in 0 .. (k - 1) - 1} = {M[a] : a \in 0 .. k - 1} \ {block}
  <2>1. Linked(h2.memory, h2.head, k, M)
    BY <1>1 DEF Good
  <2> QED
    BY <1>1, <2>1, WithoutOne DEF N
<1>17. Free(h2.memory, C) = {M[a] : a \in 0 .. k - 1}
  BY <1>1 DEF Good, FreeLinked
<1>18. Free(h5.memory, C) = Free(h2.memory, C) \ {block}
  <2>1. \A b \in C \ {block} : h5.memory[b].is_free = h2.memory[b].is_free
    BY <1>4, <1>6, <1>10, <1>14
  <2>2. h5.memory[block].is_free = FALSE
    BY <1>4, <1>7, <1>10, <1>14
  <2> QED
    BY <2>1, <2>2 DEF Free
<1>19. Linked(h5.memory, h5.head, k - 1, N)
  <2>1. ASSUME NEW a \in 0 .. (k - 1) - 1
        PROVE  /\ h5.memory[N[a]] \in BlockHeader
               /\ h5.memory[N[a]].next = h3.memory[N[a]].next /\ h5.memory[N[a]].prev = h3.memory[N[a]].prev
    <3>1. N[a] \in C /\ N[a] # block
      BY <1>16, <1>17 DEF Free
    <3>2. h5.memory[N[a]] = h3.memory[N[a]] /\ h3.memory[N[a]] \in BlockHeader
      BY <1>4, <1>6, <1>10, <1>14, <3>1
    <3> QED
      BY <3>2
  <2>2. h5.head = h3.head
    BY <1>8, <1>12
  <2> QED
    BY <1>3, <2>1, <2>2, SameLinks
<1>20. Good(h5, C, k - 1, N)
  <2>1. h5 \in Heaps
    BY <1>5, <1>8, <1>12, <1>13 DEF Heaps
  <2>2. FreeLinked(h5.memory, C, k - 1, N)
    BY <1>16, <1>17, <1>18 DEF FreeLinked
  <2> QED
    BY <1>15, <1>19, <2>1, <2>2 DEF Good
<1>21. C \ Free(h5.memory, C) = (B \ Free(h.memory, B)) \cup {block}
  BY <1>1, <1>4, <1>18
<1>22. h5.memory[block].size = h2.memory[block].size
  BY <1>4, <1>6, <1>7, <1>10, <1>14
<1>23. ASSUME NEW b \in B \ Free(h.memory, B) PROVE h5.memory[b].size = h.memory[b].size
  <2>1. b # block /\ b \in C
    BY <1>1, <1>2
  <2> QED
    BY <1>1, <1>4, <1>6, <1>10, <1>14, <2>1
<1>24. TakeBlock(h, block, size) = h5
  BY DEF TakeBlock, h5, h4, h3, h2
<1>25. Good(h5, C, k - 1, N) /\ Takes(h, B, L[j], size, h5, C)
  BY <1>1, <1>20, <1>21, <1>22, <1>23 DEF block, Takes
<1>26. TakeBlock(h, L[j], size) = h5
  BY <1>24 DEF block
<1> QED
  BY <1>25, <1>26

\* g is h after the block was given back: the other held blocks are as before.
GivesBack(h, B, block, g, C) ==
    /\ C \ Free(g.memory, C) = (B \ Free(h.memory, B)) \ {block}
    /\ \A b \in (B \ Free(h.memory, B)) \ {block} : g.memory[b].size = h.memory[b].size

\* A held block is put in front of the list.
LEMMA AddGood ==
    ASSUME NEW h, NEW B, NEW n, NEW L, Good(h, B, n, L), NEW block \in B \ Free(h.memory, B)
    PROVE  /\ Good(add_to_free_list(h, block), B, n + 1, InFront(block, n, L))
           /\ Free(add_to_free_list(h, block).memory, B) = Free(h.memory, B) \cup {block}
           /\ \A b \in B : add_to_free_list(h, block).memory[b].size = h.memory[b].size
<1> DEFINE g == add_to_free_list(h, block)
           m == h.memory
           mf == [m EXCEPT ![block].is_free = TRUE]
           M == InFront(block, n, L)
<1>1. /\ h \in Heaps /\ m \in Cells /\ Layout(m, B) /\ Linked(m, h.head, n, L) /\ n \in Nat
      /\ B \subseteq Addresses /\ \A b \in B : m[b] \in BlockHeader
  BY DEF Good, Heaps, Layout, Linked
<1>2. \A i \in 0 .. n - 1 : L[i] # block
  BY FreeOnes
<1>3. /\ g \in Heaps /\ SameBlocks(mf, g.memory) /\ Linked(g.memory, g.head, n + 1, M)
  BY <1>1, <1>2, AddFront
<1>4. mf[block] = [m[block] EXCEPT !.is_free = TRUE] /\ \A b \in B : b # block => mf[b] = m[b]
  BY <1>1 DEF Cells
<1>5. [m[block] EXCEPT !.is_free = TRUE] \in BlockHeader
  BY <1>1, HeaderFields
<1>6. [m[block] EXCEPT !.is_free = TRUE].size = m[block].size /\ [m[block] EXCEPT !.is_free = TRUE].is_free = TRUE
  BY <1>1, SetFree
<1> HIDE DEF mf, g, M
<1>7. \A b \in B : mf[b] \in BlockHeader /\ mf[b].size = m[b].size
  BY <1>1, <1>4, <1>5, <1>6
<1>8. mf[block].is_free = TRUE /\ \A b \in B : b # block => mf[b].is_free = m[b].is_free
  BY <1>4, <1>6
<1>9. \A b \in B : /\ g.memory[b] \in BlockHeader /\ g.memory[b].size = mf[b].size
                   /\ g.memory[b].is_free = mf[b].is_free
  BY <1>1, <1>3, <1>7 DEF SameBlocks
<1>10. Layout(g.memory, B)
  <2>1. g.memory \in Cells
    BY <1>3 DEF Heaps
  <2>2. \A b \in B : g.memory[b] \in BlockHeader /\ g.memory[b].size = m[b].size
    BY <1>7, <1>9
  <2> QED
    BY <1>1, <2>1, <2>2, SameLayout
<1>11. Free(g.memory, B) = Free(m, B) \cup {block}
  <2>1. g.memory[block].is_free = TRUE
    BY <1>8, <1>9
  <2>2. \A b \in B : b # block => g.memory[b].is_free = m[b].is_free
    BY <1>8, <1>9
  <2> QED
    BY <2>1, <2>2 DEF Free
<1>12. FreeLinked(g.memory, B, n + 1, M)
  <2>1. Free(m, B) = {L[i] : i \in 0 .. n - 1}
    BY DEF Good, FreeLinked
  <2>2. M[0] = block /\ \A i \in 1 .. n : M[i] = L[i - 1] /\ i - 1 \in 0 .. n - 1
    BY <1>1 DEF M, InFront
  <2>3. {M[i] : i \in 0 .. (n + 1) - 1} = {L[i] : i \in 0 .. n - 1} \cup {block}
    <3>1. \A i \in 0 .. (n + 1) - 1 : i = 0 \/ i \in 1 .. n
      BY <1>1
    <3>2. \A i \in 0 .. n - 1 : i + 1 \in 1 .. n /\ i + 1 \in 0 .. (n + 1) - 1 /\ (i + 1) - 1 = i
      BY <1>1
    <3>3. 0 \in 0 .. (n + 1) - 1
      BY <1>1
    <3> QED
      BY <2>2, <3>1, <3>2, <3>3
  <2> QED
    BY <1>11, <2>1, <2>3 DEF FreeLinked
<1> QED
  BY <1>3, <1>7, <1>9, <1>10, <1>11, <1>12 DEF Good, g, M

\* Delete joins the block with the one after it if that is free, and keeps the
\* buffer filled.
LEMMA GiveBackGood ==
    ASSUME NEW h, NEW B, NEW n, NEW L, Good(h, B, n, L), NEW block \in B \ Free(h.memory, B)
    PROVE  \E C, k, M :
              /\ Good(coalesce(add_to_free_list(h, block), block), C, k, M)
              /\ GivesBack(h, B, block, coalesce(add_to_free_list(h, block), block), C)
<1> DEFINE h1 == add_to_free_list(h, block)
           M == InFront(block, n, L)
           next == Following(h1, block)
<1>1. /\ Good(h1, B, n + 1, M) /\ Free(h1.memory, B) = Free(h.memory, B) \cup {block}
      /\ \A b \in B : h1.memory[b].size = h.memory[b].size
  BY AddGood
<1> HIDE DEF h1, M
<1>2. /\ Layout(h1.memory, B) /\ h1 \in Heaps /\ h1.memory \in Cells /\ n + 1 \in Nat
      /\ Linked(h1.memory, h1.head, n + 1, M) /\ n + 1 <= Room
  BY <1>1, FreeOnes DEF Good, Heaps
<1>3. next = End(h1.memory, block)
  BY DEF Following, End
<1> HIDE DEF next
<1>4. next \in B \cup {heap_size} /\ B \subseteq Addresses
  BY <1>2, <1>3 DEF Layout
<1>5. /\ HEADER_SIZE \in Nat \ {0} /\ heap_size \in Nat
      /\ \A b \in B : b \in Nat /\ b < heap_size /\ b + HEADER_SIZE <= heap_size
  <2>1. HEADER_SIZE \in Nat \ {0} /\ heap_size \in Nat
    BY HeapAssumption
  <2>2. ASSUME NEW b \in B PROVE b \in Nat /\ b < heap_size /\ b + HEADER_SIZE <= heap_size
    <3>1. /\ b \in Nat /\ b < heap_size /\ End(h1.memory, b) \in Nat
          /\ b + HEADER_SIZE <= End(h1.memory, b) /\ End(h1.memory, b) <= heap_size
      BY <1>2, BlockBounds
    <3> QED
      BY <2>1, <3>1
  <2> QED
    BY <2>1, <2>2
<1> DEFINE Joins == next + HEADER_SIZE <= heap_size /\ h1.memory[next].is_free /\ is_in_free_list(h1, next)
<1>6. CASE ~Joins
  <2>1. coalesce(h1, block) = h1
    BY <1>6 DEF coalesce, next
  <2>2. GivesBack(h, B, block, h1, B)
    BY <1>1 DEF GivesBack
  <2> QED
    BY <1>1, <2>1, <2>2 DEF h1
<1>7. CASE Joins
  <2>1. next \in B
    BY <1>4, <1>5, <1>7
  <2>2. next \in Free(h1.memory, B)
    BY <1>7, <2>1 DEF Free
  <2>3. PICK i \in 0 .. (n + 1) - 1 : M[i] = next
    BY <1>1, <2>2, FreeOnes
  <2> DEFINE h2 == remove_from_free_list(h1, next)
             N == Without(i, n + 1, M)
             size == Joined(h1, block, next)
             m3 == [h2.memory EXCEPT ![block] = [h2.memory[block] EXCEPT !.size = size]]
             h3 == [h2 EXCEPT !.memory[block].size = size]
             C == B \ {next}
  <2>4. h2 \in Heaps /\ SameBlocks(h1.memory, h2.memory) /\ Linked(h2.memory, h2.head, (n + 1) - 1, N)
    BY <1>2, <2>3, RemoveAt
  <2>5. coalesce(h1, block) = h3
    BY <1>7 DEF coalesce, next
  <2> HIDE DEF h2, N
  <2>6. h2.memory \in Cells /\ h2.head \in Links
    BY <2>4 DEF Heaps
  <2>7. \A b \in B : /\ h2.memory[b] \in BlockHeader /\ h2.memory[b].size = h1.memory[b].size
                     /\ h2.memory[b].is_free = h1.memory[b].is_free
    <3>1. \A b \in B : h1.memory[b] \in BlockHeader
      BY <1>2 DEF Layout
    <3> QED
      BY <1>4, <2>4, <3>1 DEF SameBlocks
  <2>8. /\ block \in Nat /\ next \in Nat /\ h1.memory[block].size \in Nat /\ h1.memory[next].size \in Nat
        /\ next = block + HEADER_SIZE + h1.memory[block].size
        /\ End(h1.memory, next) = next + HEADER_SIZE + h1.memory[next].size
        /\ End(h1.memory, next) <= heap_size /\ End(h1.memory, next) \in Nat
    BY <1>2, <1>3, <2>1, BlockBounds
  <2>9. size = h1.memory[block].size + HEADER_SIZE + h1.memory[next].size
    BY DEF Joined
  <2> HIDE DEF size
  <2>10. block < next /\ size \in 0 .. heap_size /\ block + HEADER_SIZE + size = End(h1.memory, next)
    BY <1>5, <2>8, <2>9
  <2> DEFINE big == [h2.memory[block] EXCEPT !.size = size]
  <2>11. /\ big \in BlockHeader /\ big.size = size /\ big.is_free = h2.memory[block].is_free
         /\ big.next = h2.memory[block].next /\ big.prev = h2.memory[block].prev
    BY <2>7, <2>10, SetSize
  <2>12. h3 = [memory |-> m3, head |-> h2.head]
    <3>1. h2 = [memory |-> h2.memory, head |-> h2.head]
      BY <2>4 DEF Heaps
    <3>2. \A x : [h2 EXCEPT !.memory = x] = [memory |-> x, head |-> h2.head]
      BY <3>1
    <3>3. h3 = [h2 EXCEPT !.memory = [h2.memory EXCEPT ![block].size = size]]
      BY <3>1
    <3>4. [h2.memory EXCEPT ![block].size = size] = m3
      BY <1>4, <2>6 DEF Cells
    <3> QED
      BY <3>2, <3>3, <3>4
  <2> HIDE DEF big, h3
  <2>13. /\ m3 \in Cells /\ m3[block] = big
         /\ \A a \in Addresses : a # block => m3[a] = h2.memory[a]
    BY <1>4, <2>6, <2>11 DEF Cells, big
  <2> HIDE DEF m3
  <2>14. h3 \in Heaps /\ h3.memory = m3 /\ h3.head = h2.head
    BY <2>6, <2>12, <2>13 DEF Heaps
  <2>15. \A b \in B : m3[b] \in BlockHeader
    BY <1>4, <2>7, <2>11, <2>13
  <2>16. \A b \in B \ {block} : m3[b].size = h1.memory[b].size /\ End(m3, b) = End(h1.memory, b)
    BY <1>4, <2>7, <2>13 DEF End
  <2>17. End(m3, block) = End(h1.memory, next)
    BY <2>10, <2>11, <2>13 DEF End
  <2>18. \A b, c \in B : b < c => End(h1.memory, b) <= c
    BY <1>2 DEF Layout
  <2>19. \A b \in B : b \in Nat /\ End(h1.memory, b) \in Nat /\ b + HEADER_SIZE <= End(h1.memory, b)
                      /\ End(h1.memory, b) \in B \cup {heap_size} /\ b % ALIGNMENT = 0
    <3>1. \A b \in B : b \in Nat /\ End(h1.memory, b) \in Nat /\ b + HEADER_SIZE <= End(h1.memory, b)
      BY <1>2, BlockBounds
    <3> QED
      BY <1>2, <3>1 DEF Layout
  <2>20. Layout(m3, C)
    <3>1. ASSUME NEW b \in C PROVE End(m3, b) \in C \cup {heap_size}
      <4>1. CASE b = block
        <5>1. End(h1.memory, next) # next
          BY <1>5, <2>1, <2>19
        <5> QED
          BY <2>1, <2>17, <2>19, <4>1, <5>1
      <4>2. CASE b # block
        <5>1. End(h1.memory, b) # next
          <6>1. CASE b < block
            <7>1. End(h1.memory, b) <= block
              BY <2>18, <6>1
            <7> QED
              BY <2>8, <2>10, <2>19, <7>1
          <6>2. CASE block < b
            <7>1. next <= b
              BY <1>3, <2>18, <6>2
            <7>2. b \in Nat /\ End(h1.memory, b) \in Nat /\ b + HEADER_SIZE <= End(h1.memory, b)
              BY <2>19
            <7> QED
              BY <1>5, <2>8, <7>1, <7>2
          <6> QED
            BY <2>8, <2>19, <4>2, <6>1, <6>2
        <5> QED
          BY <2>16, <2>19, <4>2, <5>1
      <4> QED
        BY <4>1, <4>2
    <3>2. ASSUME NEW b \in C, NEW c \in C, b < c PROVE End(m3, b) <= c
      <4>1. CASE b = block
        <5>1. next <= c /\ c \in Nat /\ c # next
          BY <1>3, <2>18, <2>19, <3>2, <4>1
        <5>2. next < c
          BY <2>8, <5>1
        <5>3. End(h1.memory, next) <= c
          BY <2>1, <2>18, <5>2
        <5> QED
          BY <2>17, <4>1, <5>3
      <4>2. CASE b # block
        BY <2>16, <2>18, <3>2, <4>2
      <4> QED
        BY <4>1, <4>2
    <3>3. C \subseteq Addresses /\ 0 \in C
      <4>1. 0 \in B /\ next # 0
        BY <1>2, <2>8, <2>10 DEF Layout
      <4> QED
        BY <1>4, <4>1
    <3> QED
      BY <2>13, <2>15, <2>19, <3>1, <3>2, <3>3 DEF Layout
  <2>24. {N[a] : a \in 0 .. ((n + 1) - 1) - 1} = {M[a] : a \in 0 .. (n + 1) - 1} \ {next}
    <3> DEFINE c == n + 1
    <3>1. Linked(h1.memory, h1.head, c, M) /\ i \in 0 .. c - 1
      BY <1>2, <2>3
    <3> HIDE DEF c
    <3>2. {Without(i, c, M)[a] : a \in 0 .. (c - 1) - 1} = {M[a] : a \in 0 .. c - 1} \ {M[i]}
      BY <3>1, WithoutOne
    <3> QED
      BY <3>2, <2>3 DEF N, c
  <2>21. Linked(m3, h2.head, (n + 1) - 1, N)
    <3>1. {N[a] : a \in 0 .. ((n + 1) - 1) - 1} = {M[a] : a \in 0 .. (n + 1) - 1} \ {next}
      BY <2>24
    <3>2. ASSUME NEW a \in 0 .. ((n + 1) - 1) - 1
          PROVE  /\ m3[N[a]] \in BlockHeader
                 /\ m3[N[a]].next = h2.memory[N[a]].next /\ m3[N[a]].prev = h2.memory[N[a]].prev
      <4>0. \A x \in 0 .. (n + 1) - 1 : M[x] \in B
        BY <1>1, FreeOnes
      <4>1. N[a] \in B
        BY <3>1, <4>0
      <4> QED
        BY <1>4, <2>11, <2>13, <2>15, <4>1
    <3> QED
      BY <2>4, <3>2, SameLinks
  <2>22. Free(m3, C) = Free(h1.memory, B) \ {next}
    <3>1. \A b \in B : m3[b].is_free = h1.memory[b].is_free
      BY <1>4, <2>7, <2>11, <2>13
    <3> QED
      BY <3>1 DEF Free
  <2>23. FreeLinked(m3, C, (n + 1) - 1, N)
    <3>1. {N[a] : a \in 0 .. ((n + 1) - 1) - 1} = {M[a] : a \in 0 .. (n + 1) - 1} \ {next}
      BY <2>24
    <3>2. Free(h1.memory, B) = {M[a] : a \in 0 .. (n + 1) - 1}
      BY <1>1 DEF Good, FreeLinked
    <3> QED
      BY <2>22, <3>1, <3>2 DEF FreeLinked
  <2>26. Good(h3, C, (n + 1) - 1, N)
    BY <2>14, <2>20, <2>21, <2>23 DEF Good
  <2>25. GivesBack(h, B, block, h3, C)
    <3>1. C \ Free(m3, C) = (B \ Free(h.memory, B)) \ {block}
      BY <1>1, <2>2, <2>22
    <3>2. \A b \in (B \ Free(h.memory, B)) \ {block} : m3[b].size = h.memory[b].size
      BY <1>1, <2>16
    <3> QED
      BY <2>14, <3>1, <3>2 DEF GivesBack
  <2> HIDE DEF C
  <2> QED
    BY <2>5, <2>26, <2>25 DEF h1
<1> QED
  BY <1>6, <1>7

-----------------------------------------------------------------------------
(* Every step keeps the invariant *)

LEMMA InitInv == Init => HeapInv
BY DEF Init, HeapInv

\* The first new makes one free block of the whole buffer.
LEMMA FirstBlock ==
    ASSUME HeapInv
    PROVE  \E B, n, L : Good(init_heap, B, n, L) /\ Held(init_heap.memory, B)
<1>1. CASE heap_initialized
  <2>1. PICK B, n, L : Arranged(B, n, L)
    BY <1>1 DEF HeapInv
  <2>2. init_heap = Current /\ Current.memory = memory /\ Current.head = free_list_head
    BY <1>1 DEF init_heap, Current
  <2>3. free_list_head \in Links
    BY <2>1 DEF Arranged, Linked, Links
  <2>4. Current \in Heaps
    BY <2>1, <2>3 DEF Arranged, Layout, Current, Heaps
  <2> QED
    BY <2>1, <2>2, <2>4 DEF Arranged, Good
<1>2. CASE ~heap_initialized
  <2> DEFINE r == [size |-> heap_size - HEADER_SIZE, is_free |-> TRUE, next |-> nullptr, prev |-> nullptr]
             m == [memory EXCEPT ![0] = r]
             L == [i \in 0 .. 0 |-> 0]
  <2>1. memory = [a \in Addresses |-> Raw] /\ live = {}
    BY <1>2 DEF HeapInv
  <2>2. init_heap = [memory |-> m, head |-> 0]
    BY <1>2 DEF init_heap
  <2>3. 0 \in Addresses /\ heap_size \in Nat /\ HEADER_SIZE \in Nat /\ heap_size - HEADER_SIZE \in 0 .. heap_size
    BY HeapAssumption DEF Addresses
  <2>4. r \in BlockHeader
    BY <2>3 DEF BlockHeader, Links
  <2>5. r.size = heap_size - HEADER_SIZE /\ r.is_free = TRUE /\ r.next = nullptr /\ r.prev = nullptr
    BY Zenon
  <2> HIDE DEF r
  <2>6. m \in Cells /\ m[0] = r
    BY <2>1, <2>3, <2>4 DEF Cells
  <2> HIDE DEF m
  <2>7. End(m, 0) = heap_size
    BY <2>3, <2>5, <2>6 DEF End
  <2>8. Layout(m, {0})
    <3>1. 0 % ALIGNMENT = 0
      BY HeapAssumption
    <3> QED
      BY <2>3, <2>4, <2>6, <2>7, <3>1 DEF Layout
  <2>9. Linked(m, 0, 1, L)
    <3>1. 0 .. 1 - 1 = {0} /\ L \in [0 .. 1 - 1 -> Addresses] /\ L[0] = 0
      BY <2>3
    <3> HIDE DEF L
    <3> QED
      BY <2>4, <2>5, <2>6, <3>1 DEF Linked
  <2>10. Free(m, {0}) = {0}
    BY <2>5, <2>6 DEF Free
  <2>11. FreeLinked(m, {0}, 1, L)
    BY <2>10 DEF FreeLinked
  <2>12. init_heap \in Heaps /\ init_heap.memory = m /\ init_heap.head = 0
    BY <2>2, <2>3, <2>6 DEF Heaps, Links
  <2>13. Good(init_heap, {0}, 1, L)
    BY <2>8, <2>9, <2>11, <2>12 DEF Good
  <2>14. Held(m, {0})
    BY <2>1, <2>10 DEF Held
  <2> HIDE DEF L
  <2> QED
    BY <2>12, <2>13, <2>14
<1> QED
  BY <1>1, <1>2 DEF HeapInv

LEMMA HeldBlock ==
    ASSUME NEW m, NEW B, Layout(m, B), Held(m, B), NEW l \in live
    PROVE  /\ l.ptr - HEADER_SIZE \in B \ Free(m, B)
           /\ l.ptr \in Nat /\ l.ptr - HEADER_SIZE \in Nat /\ (l.ptr - HEADER_SIZE) + HEADER_SIZE = l.ptr
           /\ l.size \in Nat \ {0} /\ l.size <= m[l.ptr - HEADER_SIZE].size
           /\ l.ptr + l.size <= End(m, l.ptr - HEADER_SIZE)
<1> DEFINE b == l.ptr - HEADER_SIZE
<1>1. /\ b \in B \ Free(m, B) /\ l.ptr \in Nat /\ l.ptr >= HEADER_SIZE
      /\ l.size \in Nat \ {0} /\ l.size <= m[b].size /\ HEADER_SIZE \in Nat
  BY HeapAssumption DEF Held
<1>2. b \in Nat /\ b + HEADER_SIZE = l.ptr
  BY <1>1
<1> HIDE DEF b
<1>3. m[b].size \in Nat /\ End(m, b) = b + HEADER_SIZE + m[b].size
  BY <1>1, BlockBounds
<1>4. l.ptr + l.size <= End(m, b)
  BY <1>1, <1>2, <1>3
<1> QED
  BY <1>1, <1>2, <1>4 DEF b

LEMMA NewInv ==
    ASSUME HeapInv, NEW size \in Requests, New(size)
    PROVE  HeapInv'
<1> DEFINE h == init_heap
           s == AlignedSize(size)
           block == FirstFit(h, s)
<1>1. PICK B, n, L : Good(h, B, n, L) /\ Held(h.memory, B)
  BY FirstBlock
<1>2. size \in Nat \ {0} /\ s \in Nat \ {0} /\ s >= size /\ s % ALIGNMENT = 0
  <2>1. size \in Nat \ {0}
    BY HeapAssumption
  <2> QED
    BY <2>1, AlignedSizes
<1>3. heap_initialized' = TRUE
  BY DEF New
<1>4. CASE block = nullptr
  <2>1. memory' = h.memory /\ free_list_head' = h.head /\ halted' = TRUE /\ live' = live
    BY <1>4 DEF New, Becomes
  <2> HIDE DEF h
  <2>3. Layout(memory', B) /\ Linked(memory', free_list_head', n, L) /\ FreeLinked(memory', B, n, L)
    BY <1>1, <2>1 DEF Good
  <2>4. Held(memory, B)'
    BY <1>1, <2>1 DEF Held
  <2>5. Arranged(B, n, L)'
    BY <2>3, <2>4 DEF Arranged
  <2> QED
    BY <1>3, <2>1, <2>5 DEF HeapInv
<1>5. CASE block # nullptr
  <2> DEFINE g == TakeBlock(h, block, s)
             new == [ptr |-> block + HEADER_SIZE, size |-> size]
  <2>1. memory' = g.memory /\ free_list_head' = g.head /\ halted' = halted /\ live' = live \cup {new}
    BY <1>5 DEF New, Becomes
  <2> HIDE DEF h, s
  <2>2. PICK j \in 0 .. n - 1 : block = L[j] /\ h.memory[L[j]].size >= s
    BY <1>1, <1>2, <1>5, FitFound
  <2> HIDE DEF block
  <2>3. \E C, k, M : Good(TakeBlock(h, L[j], s), C, k, M) /\ Takes(h, B, L[j], s, TakeBlock(h, L[j], s), C)
    BY <1>1, <1>2, <2>2, TakeGood
  <2>4. PICK C, k, M : Good(g, C, k, M) /\ Takes(h, B, block, s, g, C)
    BY <2>2, <2>3
  <2>5. block \in B /\ block \in Free(h.memory, B) /\ Layout(h.memory, B)
    BY <1>1, <2>2, FreeOnes DEF Good
  <2>6. block \in Nat /\ HEADER_SIZE \in Nat
    BY <2>5, BlockBounds, HeapAssumption
  <2>7. new.ptr = block + HEADER_SIZE /\ new.size = size /\ new.ptr \in Nat /\ new.ptr - HEADER_SIZE = block
        /\ new.ptr >= HEADER_SIZE
    BY <2>6
  <2> HIDE DEF g, new
  <2>8. \A l \in live : l.ptr - HEADER_SIZE \in B \ Free(h.memory, B) /\ l.ptr # new.ptr
    <3>1. \A l \in live : l.ptr - HEADER_SIZE \in B \ Free(h.memory, B)
      BY <1>1, <2>5, HeldBlock
    <3> QED
      BY <2>5, <2>7, <3>1
  <2>9. C \ Free(g.memory, C) = {l.ptr - HEADER_SIZE : l \in live'}
    <3>1. C \ Free(g.memory, C) = (B \ Free(h.memory, B)) \cup {block}
      BY <2>4 DEF Takes
    <3>2. B \ Free(h.memory, B) = {l.ptr - HEADER_SIZE : l \in live}
      BY <1>1 DEF Held
    <3> QED
      BY <2>1, <2>7, <3>1, <3>2
  <2>10. \A l, i \in live' : l.ptr = i.ptr => l = i
    <3>1. \A l, i \in live : l.ptr = i.ptr => l = i
      BY <1>1 DEF Held
    <3> QED
      BY <2>1, <2>8, <3>1
  <2>11. ASSUME NEW l \in live'
         PROVE  /\ l.ptr \in Nat /\ l.ptr >= HEADER_SIZE /\ l.size \in Requests
                /\ l.size <= g.memory[l.ptr - HEADER_SIZE].size
    <3>1. CASE l \in live
      <4>1. /\ l.ptr \in Nat /\ l.ptr >= HEADER_SIZE /\ l.size \in Requests
            /\ l.size <= h.memory[l.ptr - HEADER_SIZE].size
        BY <1>1, <3>1 DEF Held
      <4>2. g.memory[l.ptr - HEADER_SIZE].size = h.memory[l.ptr - HEADER_SIZE].size
        BY <2>4, <2>8, <3>1 DEF Takes
      <4> QED
        BY <4>1, <4>2
    <3>2. CASE l = new
      <4>1. g.memory[block].size >= s /\ block \in C /\ Layout(g.memory, C)
        BY <2>4 DEF Takes, Good
      <4>2. g.memory[block].size \in Nat
        BY <4>1, BlockBounds
      <4> QED
        BY <1>2, <2>7, <3>2, <4>1, <4>2
    <3> QED
      BY <2>1, <3>1, <3>2
  <2>12. Held(memory, C)'
    BY <2>1, <2>9, <2>10, <2>11 DEF Held
  <2>13. Arranged(C, k, M)'
    BY <2>1, <2>4, <2>12 DEF Good, Arranged
  <2> QED
    BY <1>3, <2>1, <2>13 DEF HeapInv
<1> QED
  BY <1>4, <1>5

LEMMA DeleteInv ==
    ASSUME HeapInv, NEW l \in live, Delete(l)
    PROVE  HeapInv'
<1>1. heap_initialized
  BY DEF HeapInv
<1>2. PICK B, n, L : Arranged(B, n, L)
  BY <1>1 DEF HeapInv
<1> DEFINE block == l.ptr - HEADER_SIZE
           g == coalesce(add_to_free_list(Current, block), block)
<1>3. Good(Current, B, n, L) /\ Current.memory = memory /\ Held(memory, B) /\ Layout(memory, B)
  <2>1. free_list_head \in Links
    BY <1>2 DEF Arranged, Linked, Links
  <2> QED
    BY <1>2, <2>1 DEF Arranged, Good, Current, Heaps, Layout
<1>4. block \in B \ Free(memory, B)
  BY <1>3, HeldBlock
<1>5. ~memory[block].is_free
  BY <1>4 DEF Free
<1>6. memory' = g.memory /\ free_list_head' = g.head /\ live' = live \ {l} /\ UNCHANGED <<heap_initialized, halted>>
  BY <1>5 DEF Delete, Becomes
<1> HIDE DEF block
<1>7. PICK C, k, M : Good(g, C, k, M) /\ GivesBack(Current, B, block, g, C)
  BY <1>3, <1>4, GiveBackGood
<1> HIDE DEF g
<1>8. /\ C \ Free(g.memory, C) = (B \ Free(memory, B)) \ {block}
      /\ \A b \in (B \ Free(memory, B)) \ {block} : g.memory[b].size = memory[b].size
  BY <1>3, <1>7 DEF GivesBack
<1>9. \A i \in live : /\ i.ptr - HEADER_SIZE \in B \ Free(memory, B)
                      /\ (i.ptr - HEADER_SIZE = block => i = l)
  <2> TAKE i \in live
  <2>1. i.ptr - HEADER_SIZE \in B \ Free(memory, B)
    BY <1>3, HeldBlock
  <2>2. i.ptr = (i.ptr - HEADER_SIZE) + HEADER_SIZE /\ l.ptr = (l.ptr - HEADER_SIZE) + HEADER_SIZE
    BY <1>3, HeldBlock
  <2>3. i.ptr = l.ptr => i = l
    BY <1>3 DEF Held
  <2> QED
    BY <2>1, <2>2, <2>3 DEF block
<1>10. C \ Free(g.memory, C) = {i.ptr - HEADER_SIZE : i \in live'}
  <2>1. B \ Free(memory, B) = {i.ptr - HEADER_SIZE : i \in live}
    BY <1>3 DEF Held
  <2>2. block = l.ptr - HEADER_SIZE
    BY DEF block
  <2> QED
    BY <1>6, <1>8, <1>9, <2>1, <2>2
<1>11. ASSUME NEW i \in live'
       PROVE  /\ i.ptr \in Nat /\ i.ptr >= HEADER_SIZE /\ i.size \in Requests
              /\ i.size <= g.memory[i.ptr - HEADER_SIZE].size
  <2>1. i \in live /\ i # l
    BY <1>6
  <2>2. /\ i.ptr \in Nat /\ i.ptr >= HEADER_SIZE /\ i.size \in Requests
        /\ i.size <= memory[i.ptr - HEADER_SIZE].size
    BY <1>3, <2>1 DEF Held
  <2>3. g.memory[i.ptr - HEADER_SIZE].size = memory[i.ptr - HEADER_SIZE].size
    BY <1>8, <1>9, <2>1
  <2> QED
    BY <2>2, <2>3
<1>12. Held(memory, C)'
  <2>1. \A i, j \in live' : i.ptr = j.ptr => i = j
    BY <1>3, <1>6 DEF Held
  <2> QED
    BY <1>6, <1>10, <1>11, <2>1 DEF Held
<1>13. Arranged(C, k, M)'
  BY <1>6, <1>7, <1>12 DEF Good, Arranged
<1> QED
  BY <1>1, <1>6, <1>13 DEF HeapInv

LEMMA NextInv == HeapInv /\ [Next]_vars => HeapInv'
<1> SUFFICES ASSUME HeapInv, [Next]_vars PROVE HeapInv'
  OBVIOUS
<1>1. CASE UNCHANGED vars
  BY <1>1 DEF vars, HeapInv, Arranged, Held
<1> QED
  BY <1>1, NewInv, DeleteInv DEF Next

LEMMA Invariance == Spec => []HeapInv
<1> QED
  BY InitInv, NextInv, PTL DEF Spec

-----------------------------------------------------------------------------
(* Theorems *)

LEMMA InvTyped == HeapInv => TypeOK
<1> SUFFICES ASSUME HeapInv PROVE TypeOK
  OBVIOUS
<1>1. CASE heap_initialized
  <2>1. PICK B, n, L : Arranged(B, n, L)
    BY <1>1 DEF HeapInv
  <2>2. memory \in Cells
    BY <2>1 DEF Arranged, Layout
  <2>3. free_list_head \in Links
    BY <2>1 DEF Arranged, Linked, Links
  <2>4. \A l \in live : l.ptr \in Nat /\ l.size \in Requests
    BY <2>1 DEF Arranged, Held
  <2> QED
    BY <2>2, <2>3, <2>4 DEF HeapInv, TypeOK, Cells
<1>2. CASE ~heap_initialized
  BY <1>2 DEF HeapInv, TypeOK, Links
<1> QED
  BY <1>1, <1>2

LEMMA InvLosesNothing == HeapInv => NothingLost
<1> SUFFICES ASSUME HeapInv, heap_initialized PROVE NothingLost
  BY DEF NothingLost
<1>1. PICK B, n, L : Arranged(B, n, L)
  BY DEF HeapInv
<1>2. Layout(memory, B) /\ Held(memory, B)
  BY <1>1 DEF Arranged
<1>3. WalkedTo = B \cup {heap_size} /\ Blocks = B
  BY <1>2, BlocksWalked
<1>4. \A b \in B : b \in Addresses /\ memory[b] # Raw
  BY <1>2, NamesAssumption DEF Layout
<1>5. {b \in B : ~memory[b].is_free} = B \ Free(memory, B)
  BY DEF Free
<1> QED
  BY <1>2, <1>3, <1>4, <1>5 DEF NothingLost, Held

LEMMA InvListExact == HeapInv => FreeListExact
<1> SUFFICES ASSUME HeapInv, heap_initialized PROVE FreeListExact
  BY DEF FreeListExact
<1> DEFINE list == FreeList(Current)
           used == {k \in Steps : list[k] # nullptr}
<1>1. PICK B, n, L : Arranged(B, n, L)
  BY DEF HeapInv
<1>2. /\ Layout(memory, B) /\ Linked(memory, free_list_head, n, L) /\ FreeLinked(memory, B, n, L)
      /\ Current.memory = memory /\ Current.head = free_list_head
  BY <1>1 DEF Arranged, Current
<1>3. Blocks = B
  BY <1>2, BlocksWalked
<1>4. Free(memory, B) = {L[i] : i \in 0 .. n - 1} /\ Free(memory, B) \subseteq B
  BY <1>2 DEF FreeLinked, Free
<1>5. n <= Room
  BY <1>2, <1>4, ListFits
<1>6. list = [k \in Steps |-> IF k < n THEN L[k] ELSE nullptr]
  BY <1>2, <1>5, ListWalked
<1>7. /\ n \in Nat /\ Steps = 0 .. Room /\ Room \in Nat
      /\ \A i \in 0 .. n - 1 : L[i] # nullptr
  BY <1>2, RoomTyped, NamesAssumption DEF Linked
<1> HIDE DEF list
<1>8. used = 0 .. n - 1 /\ \A k \in used : list[k] = L[k]
  BY <1>5, <1>6, <1>7
<1> HIDE DEF used
<1>9. {list[k] : k \in used} = {b \in Blocks : memory[b].is_free}
  BY <1>3, <1>4, <1>8 DEF Free
<1>10. \A j, k \in used : list[j] = list[k] => j = k
  BY <1>2, <1>8 DEF Linked
<1>11. \A k \in used : memory[list[k]].prev = IF k = 0 THEN nullptr ELSE list[k - 1]
  <2> TAKE k \in used
  <2>1. memory[L[k]].prev = IF k = 0 THEN nullptr ELSE L[k - 1]
    BY <1>2, <1>8 DEF Linked
  <2>2. k # 0 => k - 1 \in used
    BY <1>7, <1>8
  <2> QED
    BY <1>8, <2>1, <2>2
<1> QED
  BY <1>9, <1>10, <1>11 DEF FreeListExact, list, used

LEMMA InvApart == HeapInv => LiveApart
<1> SUFFICES ASSUME HeapInv, NEW l \in live
             PROVE  /\ l.ptr % ALIGNMENT = 0
                    /\ l.ptr + l.size <= heap_size
                    /\ \A b \in Blocks : b + HEADER_SIZE <= l.ptr \/ l.ptr + l.size <= b
                    /\ \A k \in live : k = l \/ k.ptr + k.size <= l.ptr \/ l.ptr + l.size <= k.ptr
  BY DEF LiveApart
<1>1. PICK B, n, L : Arranged(B, n, L)
  BY DEF HeapInv
<1>2. Layout(memory, B) /\ Held(memory, B) /\ HEADER_SIZE \in Nat
  BY <1>1, HeapAssumption DEF Arranged
<1>3. Blocks = B
  BY <1>2, BlocksWalked
<1> DEFINE Start(k) == k.ptr - HEADER_SIZE
<1>4. \A k \in live : /\ Start(k) \in B /\ Start(k) \in Nat /\ Start(k) + HEADER_SIZE = k.ptr
                      /\ k.ptr \in Nat /\ k.size \in Nat /\ k.ptr + k.size <= End(memory, Start(k))
  BY <1>2, HeldBlock
<1> HIDE DEF Start
<1>5. \A b \in B : /\ b \in Nat /\ End(memory, b) \in Nat /\ End(memory, b) <= heap_size
                   /\ b + HEADER_SIZE <= End(memory, b) /\ b % ALIGNMENT = 0
  <2>1. \A b \in B : /\ b \in Nat /\ End(memory, b) \in Nat /\ End(memory, b) <= heap_size
                     /\ b + HEADER_SIZE <= End(memory, b)
    BY <1>2, BlockBounds
  <2> QED
    BY <1>2, <2>1 DEF Layout
<1>6. \A b, c \in B : b < c => End(memory, b) <= c
  BY <1>2 DEF Layout
<1>7. l.ptr % ALIGNMENT = 0
  <2>1. Start(l) % ALIGNMENT = 0 /\ HEADER_SIZE % ALIGNMENT = 0
    BY <1>4, <1>5, HeapAssumption
  <2>2. (Start(l) + HEADER_SIZE) % ALIGNMENT = 0
    BY <1>2, <1>4, <2>1, AlignedSum
  <2> QED
    BY <1>4, <2>2
<1>8. l.ptr + l.size <= heap_size
  <2>1. End(memory, Start(l)) <= heap_size /\ End(memory, Start(l)) \in Nat
    BY <1>4, <1>5
  <2> QED
    BY <1>4, <2>1, HeapAssumption
<1>9. ASSUME NEW b \in B
      PROVE  b + HEADER_SIZE <= l.ptr \/ l.ptr + l.size <= b
  <2>1. /\ Start(l) \in Nat /\ Start(l) + HEADER_SIZE = l.ptr /\ l.size \in Nat
        /\ l.ptr + l.size <= End(memory, Start(l)) /\ End(memory, Start(l)) \in Nat
        /\ b \in Nat /\ End(memory, b) \in Nat /\ b + HEADER_SIZE <= End(memory, b)
    BY <1>4, <1>5
  <2>2. Start(l) < b => End(memory, Start(l)) <= b
    BY <1>4, <1>6
  <2>3. b < Start(l) => End(memory, b) <= Start(l)
    BY <1>4, <1>6
  <2> QED
    BY <1>2, <2>1, <2>2, <2>3
<1>10. ASSUME NEW k \in live, k # l PROVE k.ptr + k.size <= l.ptr \/ l.ptr + l.size <= k.ptr
  <2>1. k.ptr # l.ptr
    BY <1>2, <1>10 DEF Held
  <2>2. /\ Start(l) \in Nat /\ Start(l) + HEADER_SIZE = l.ptr /\ l.size \in Nat
        /\ l.ptr + l.size <= End(memory, Start(l)) /\ End(memory, Start(l)) \in Nat
    BY <1>4, <1>5
  <2>3. /\ Start(k) \in Nat /\ Start(k) + HEADER_SIZE = k.ptr /\ k.size \in Nat
        /\ k.ptr + k.size <= End(memory, Start(k)) /\ End(memory, Start(k)) \in Nat
    BY <1>4, <1>5
  <2>4. Start(k) < Start(l) => End(memory, Start(k)) <= Start(l)
    BY <1>4, <1>6
  <2>5. Start(l) < Start(k) => End(memory, Start(l)) <= Start(k)
    BY <1>4, <1>6
  <2> QED
    BY <1>2, <2>1, <2>2, <2>3, <2>4, <2>5
<1> QED
  BY <1>3, <1>7, <1>8, <1>9, <1>10

\* The buffer, the list head and what callers hold have their types: no header that
\* new or delete writes lies outside the buffer or links to a place outside it.
THEOREM TypeCorrect == Spec => []TypeOK
BY InvTyped, Invariance, PTL

\* However operator new and operator delete alternate, the blocks fill the buffer to
\* its last byte, and each is free or held by exactly one caller.
THEOREM HeapLosesNothing == Spec => []NothingLost
BY InvLosesNothing, Invariance, PTL

\* The doubly linked free list that new searches and delete extends holds exactly the
\* free blocks, each once, in both directions.
THEOREM FreeListIsExact == Spec => []FreeListExact
BY InvListExact, Invariance, PTL

\* What new returns is aligned, large enough, inside the buffer, and apart from every
\* header and from what any other caller holds.
THEOREM AllocationsApart == Spec => []LiveApart
BY InvApart, Invariance, PTL

-----------------------------------------------------------------------------
(* Arrays *)

ArrayRecords == [data : HeapBlocks \cup {External, Null}, size : Nat, capacity : Nat]
ArrayMems == [HeapBlocks \cup {External} -> Seq(Values \cup {Unset}) \cup {Unused}]
ArrayObjs == [ArrayNames -> ArrayRecords \cup {Dead}]
ArrayState(ob, m) == [obj |-> ob, mem |-> m, fault |-> {}]

\* The array r over the memory m has the elements w.
ArrayHolds(m, r, w) ==
    /\ r.size = Len(w)
    /\ r.data = Null => r.size = 0 /\ r.capacity = 0
    /\ r.data # Null => /\ m[r.data] # Unused /\ r.size <= Len(m[r.data])
                        /\ \A k \in 1 .. r.size : m[r.data][k] = w[k]
    /\ r.data = External => r.capacity = 0
    /\ r.data \in HeapBlocks => r.capacity = Len(m[r.data]) /\ r.capacity > 0

\* The memory behind an external array is as long as ever and has been written.
ArrayBorrowed(m) == m[External] \in Seq(Values) /\ Len(m[External]) = Len(Arr!ExternalCells)

\* Nothing ever went wrong with memory, each array holds its sequence, and every
\* allocated block has one owner.
ArraySound(ob, m, w) ==
    /\ ob \in ArrayObjs /\ m \in ArrayMems /\ w \in [ArrayNames -> Seq(Values)]
    /\ ArrayBorrowed(m)
    /\ \A o \in ArrayNames : ob[o] # Dead => ArrayHolds(m, ob[o], w[o])
    /\ \A o, p \in ArrayNames :
         ob[o] # Dead /\ ob[p] # Dead /\ ob[o].data = ob[p].data /\ ob[o].data # Null => o = p
    /\ \A b \in HeapBlocks : m[b] # Unused => \E o \in ArrayNames : ob[o] # Dead /\ ob[o].data = b

\* s is a state in which the arrays hold w.
ArrayIs(s, w) == \E ob, m : s = ArrayState(ob, m) /\ ArraySound(ob, m, w)

LEMMA ArrayStateFields ==
    ASSUME NEW ob, NEW m
    PROVE  /\ ArrayState(ob, m).obj = ob /\ ArrayState(ob, m).mem = m
           /\ ArrayState(ob, m).fault = {}
BY DEF ArrayState

LEMMA ArrayStateStore ==
    ASSUME NEW ob, NEW m, NEW b, NEW y
    PROVE  Arr!Store(ArrayState(ob, m), b, y) = ArrayState(ob, [m EXCEPT ![b] = y])
BY DEF ArrayState, Arr!Store

LEMMA ArrayStateObject ==
    ASSUME NEW ob, NEW m, NEW o, NEW r
    PROVE  Arr!SetObject(ArrayState(ob, m), o, r) = ArrayState([ob EXCEPT ![o] = r], m)
BY DEF ArrayState, Arr!SetObject

\* The array o becomes r, with the elements e, and only memory that no other
\* array has is touched.
LEMMA ArrayUpdate ==
    ASSUME NEW ob, NEW m, NEW w, ArraySound(ob, m, w),
           NEW o \in ArrayNames, NEW r \in ArrayRecords \cup {Dead}, NEW n \in ArrayMems, NEW e \in Seq(Values),
           r # Dead => ArrayHolds(n, r, e),
           ArrayBorrowed(n),
           \A p \in ArrayNames \ {o} : ob[p] # Dead /\ ob[p].data # Null => n[ob[p].data] = m[ob[p].data],
           r # Dead => \A p \in ArrayNames \ {o} : ob[p] # Dead /\ ob[p].data # Null => r.data # ob[p].data,
           \A b \in HeapBlocks : n[b] # Unused =>
               \/ r # Dead /\ r.data = b
               \/ \E p \in ArrayNames \ {o} : ob[p] # Dead /\ ob[p].data = b
    PROVE  ArraySound([ob EXCEPT ![o] = r], n, [w EXCEPT ![o] = e])
<1> DEFINE ob2 == [ob EXCEPT ![o] = r]
           w2 == [w EXCEPT ![o] = e]
<1>1. /\ ob2 \in ArrayObjs /\ w2 \in [ArrayNames -> Seq(Values)]
      /\ ob2[o] = r /\ w2[o] = e
      /\ \A p \in ArrayNames \ {o} : ob2[p] = ob[p] /\ w2[p] = w[p]
  BY DEF ArraySound, ArrayObjs
<1> HIDE DEF ob2, w2
<1>2. ASSUME NEW p \in ArrayNames, ob2[p] # Dead PROVE ArrayHolds(n, ob2[p], w2[p])
  <2>1. CASE p = o
    BY <2>1, <1>1, <1>2
  <2>2. CASE p # o
    <3>1. ob[p] # Dead /\ ArrayHolds(m, ob[p], w[p])
      BY <2>2, <1>1, <1>2 DEF ArraySound
    <3>2. ArrayHolds(n, ob[p], w[p])
      BY <3>1, <2>2, ContainersAssumption DEF ArrayHolds
    <3> QED
      BY <3>2, <2>2, <1>1
  <2> QED
    BY <2>1, <2>2
<1>3. ASSUME NEW p \in ArrayNames, NEW q \in ArrayNames, ob2[p] # Dead, ob2[q] # Dead,
             ob2[p].data = ob2[q].data, ob2[p].data # Null
      PROVE  p = q
  <2>1. CASE p = o
    BY <2>1, <1>1, <1>3
  <2>2. CASE q = o
    BY <2>2, <1>1, <1>3
  <2>3. CASE p # o /\ q # o
    <3>1. ob2[p] = ob[p] /\ ob2[q] = ob[q]
      BY <2>3, <1>1
    <3> QED
      BY <3>1, <1>3 DEF ArraySound
  <2> QED
    BY <2>1, <2>2, <2>3
<1>4. ASSUME NEW b \in HeapBlocks, n[b] # Unused
      PROVE  \E p \in ArrayNames : ob2[p] # Dead /\ ob2[p].data = b
  BY <1>1, <1>4
<1> QED
  BY <1>1, <1>2, <1>3, <1>4 DEF ArraySound, ob2, w2

\* p hands its block over to o, which has none.
LEMMA ArrayMove ==
    ASSUME NEW ob, NEW m, NEW w, ArraySound(ob, m, w),
           NEW o \in ArrayNames, NEW p \in ArrayNames, ob[o] = Dead, ob[p] # Dead
    PROVE  ArraySound([[ob EXCEPT ![o] = ob[p]] EXCEPT ![p] = Arr!Empty], m,
                      [w EXCEPT ![o] = w[p], ![p] = <<>>])
<1> DEFINE ob2 == [[ob EXCEPT ![o] = ob[p]] EXCEPT ![p] = Arr!Empty]
           w2 == [w EXCEPT ![o] = w[p], ![p] = <<>>]
<1>0. Arr!Empty \in ArrayRecords /\ Arr!Empty # Dead /\ Arr!Empty.data = Null
      /\ Arr!Empty.size = 0 /\ Arr!Empty.capacity = 0
  BY MarksAssumption DEF Arr!Empty, ArrayRecords
<1>1. /\ o # p
      /\ ob2 \in ArrayObjs /\ w2 \in [ArrayNames -> Seq(Values)]
      /\ ob2[o] = ob[p] /\ w2[o] = w[p]
      /\ ob2[p] = Arr!Empty /\ w2[p] = <<>>
      /\ \A q \in ArrayNames \ {o, p} : ob2[q] = ob[q] /\ w2[q] = w[q]
  <2>1. /\ o # p /\ ob \in ArrayObjs /\ w \in [ArrayNames -> Seq(Values)]
        /\ <<>> \in Seq(Values) /\ w[p] \in Seq(Values) /\ ob[p] \in ArrayRecords \cup {Dead}
    BY DEF ArraySound, ArrayObjs
  <2>2. /\ w2 \in [ArrayNames -> Seq(Values)] /\ w2[o] = w[p] /\ w2[p] = <<>>
        /\ \A q \in ArrayNames \ {o, p} : w2[q] = w[q]
    BY <2>1
  <2>3. /\ ob2 \in ArrayObjs /\ ob2[o] = ob[p] /\ ob2[p] = Arr!Empty
        /\ \A q \in ArrayNames \ {o, p} : ob2[q] = ob[q]
    BY <2>1, <1>0 DEF ArrayObjs
  <2> QED
    BY <2>1, <2>2, <2>3
<1> HIDE DEF ob2, w2
<1>2. ASSUME NEW q \in ArrayNames, ob2[q] # Dead PROVE ArrayHolds(m, ob2[q], w2[q])
  <2>1. CASE q = p
    <3>1. ArrayHolds(m, Arr!Empty, <<>>)
      BY <1>0, ContainersAssumption DEF ArrayHolds
    <3> QED
      BY <3>1, <2>1, <1>1
  <2>2. CASE q = o
    BY <2>2, <1>1 DEF ArraySound
  <2>3. CASE q # o /\ q # p
    BY <2>3, <1>1, <1>2 DEF ArraySound
  <2> QED
    BY <2>1, <2>2, <2>3
<1>3. ASSUME NEW q \in ArrayNames, NEW t \in ArrayNames, ob2[q] # Dead, ob2[t] # Dead,
             ob2[q].data = ob2[t].data, ob2[q].data # Null
      PROVE  q = t
  <2> DEFINE F(x) == IF x = o THEN p ELSE x
  <2>1. q # p /\ t # p
    BY <1>0, <1>1, <1>3
  <2>2. ob2[q] = ob[F(q)] /\ ob2[t] = ob[F(t)]
    BY <2>1, <1>1
  <2>3. F(q) = F(t)
    BY <2>2, <1>3 DEF ArraySound
  <2> QED
    BY <2>1, <2>3
<1>4. ASSUME NEW b \in HeapBlocks, m[b] # Unused
      PROVE  \E q \in ArrayNames : ob2[q] # Dead /\ ob2[q].data = b
  <2>1. PICK q \in ArrayNames : ob[q] # Dead /\ ob[q].data = b
    BY <1>4 DEF ArraySound
  <2> QED
    BY <2>1, <1>1
<1>5. ArraySound(ob2, m, w2)
  BY <1>1, <1>2, <1>3, <1>4 DEF ArraySound
<1> QED
  BY <1>5 DEF ob2, w2

\* operator new finds a block.
LEMMA ArrayFreeBlock ==
    ASSUME NEW ob, NEW m, NEW w, ArraySound(ob, m, w)
    PROVE  Arr!FreeBlock(ArrayState(ob, m)) \in HeapBlocks /\ m[Arr!FreeBlock(ArrayState(ob, m))] = Unused
<1>1. PICK c \in HeapBlocks : TRUE
  BY RoomAssumption
<1> DEFINE f == [o \in ArrayNames |-> IF ob[o].data \in HeapBlocks THEN ob[o].data ELSE c]
<1>2. f \in [ArrayNames -> HeapBlocks]
  OBVIOUS
<1>3. PICK b \in HeapBlocks : \A o \in ArrayNames : f[o] # b
  BY <1>2, RoomAssumption
<1>4. m[b] = Unused
  BY <1>3 DEF ArraySound
<1>5. \E x \in HeapBlocks : ArrayState(ob, m).mem[x] = Unused
  BY <1>4, ArrayStateFields
<1> QED
  BY <1>5, ArrayStateFields DEF Arr!FreeBlock

\* What the record of a live array looks like.
LEMMA ArrayRecord ==
    ASSUME NEW ob, NEW m, NEW w, ArraySound(ob, m, w), NEW o \in ArrayNames, ob[o] # Dead
    PROVE  /\ ob[o] \in ArrayRecords /\ ob[o].size \in Nat /\ ob[o].capacity \in Nat
           /\ ob[o].data \in HeapBlocks \cup {External, Null}
           /\ ArrayHolds(m, ob[o], w[o]) /\ w[o] \in Seq(Values)
           /\ ob[o].data # Null => m[ob[o].data] \in Seq(Values \cup {Unset})
BY DEF ArraySound, ArrayObjs, ArrayMems, ArrayRecords, ArrayHolds

\* A new block with the elements of the old one.
ArrayGrown(ob, m, o, cap) ==
    [k \in 1 .. cap |-> IF k <= ob[o].size THEN Arr!Element(Arr!Cells(ArrayState(ob, m), ob[o].data), k) ELSE Unset]
ArrayMoved(ob, m, o, cap, b) ==
    LET made == [m EXCEPT ![b] = ArrayGrown(ob, m, o, cap)]
    IN  IF ob[o].data = Null THEN made ELSE [made EXCEPT ![ob[o].data] = Unused]

LEMMA ArrayGrowIs ==
    ASSUME NEW ob, NEW m, NEW w, ArraySound(ob, m, w), NEW o \in ArrayNames, ob[o] # Dead,
           ob[o].data # External, NEW cap \in Nat, cap > 0, ob[o].size <= cap
    PROVE  \E b \in HeapBlocks : 
              /\ m[b] = Unused
              /\ Arr!grow(ArrayState(ob, m), o, cap)
                   = ArrayState([ob EXCEPT ![o] = [data |-> b, size |-> ob[o].size, capacity |-> cap]],
                                ArrayMoved(ob, m, o, cap, b))
<1> DEFINE s == ArrayState(ob, m)
           b == Arr!FreeBlock(s)
           d == ob[o].data
           r == [data |-> b, size |-> ob[o].size, capacity |-> cap]
           X == ArrayGrown(ob, m, o, cap)
           made == [m EXCEPT ![b] = X]
           copy == Arr!Store(s, b, X)
           moved == IF ob[o].size > cap THEN [copy EXCEPT !.fault = @ \cup {"writes out of bounds"}] ELSE copy
           rid == IF d = Null THEN moved ELSE Arr!Delete(moved, d)
<1>1. b \in HeapBlocks /\ m[b] = Unused
  BY ArrayFreeBlock
<1>2. s.obj = ob /\ s.mem = m /\ s.fault = {}
  BY ArrayStateFields
<1>3. Arr!grow(s, o, cap) = Arr!SetObject(rid, o, r)
  BY <1>2 DEF Arr!grow, ArrayGrown
<1> HIDE DEF b, X
<1>4. moved = ArrayState(ob, made)
  <2>1. ~(ob[o].size > cap)
    BY ArrayRecord
  <2>2. copy = ArrayState(ob, made)
    BY ArrayStateStore
  <2> HIDE DEF copy, made
  <2> QED
    BY <2>1, <2>2
<1> HIDE DEF made, moved
<1>5. rid = ArrayState(ob, ArrayMoved(ob, m, o, cap, b))
  <2>1. CASE d = Null
    BY <2>1, <1>4 DEF ArrayMoved, made, X
  <2>2. CASE d # Null
    <3>1. d \in HeapBlocks /\ m[d] # Unused
      BY <2>2, ArrayRecord DEF ArrayHolds
    <3>2. made[d] # Unused
      BY <3>1, <1>1 DEF made, ArraySound, ArrayMems
    <3>3. d # External /\ moved.mem = made /\ moved.mem[d] # Unused
      BY <3>1, <3>2, <1>4, ArrayStateFields
    <3>4. rid = Arr!Store(moved, d, Unused)
      BY <2>2, <3>3 DEF Arr!Delete
    <3>5. rid = ArrayState(ob, [made EXCEPT ![d] = Unused])
      <4>1. Arr!Store(ArrayState(ob, made), d, Unused) = ArrayState(ob, [made EXCEPT ![d] = Unused])
        BY ArrayStateStore
      <4> QED
        BY <3>4, <4>1, <1>4, Zenon
    <3> QED
      BY <2>2, <3>5 DEF ArrayMoved, made, X
  <2> QED
    BY <2>1, <2>2
<1> HIDE DEF rid
<1>6. Arr!SetObject(rid, o, r) = ArrayState([ob EXCEPT ![o] = r], ArrayMoved(ob, m, o, cap, b))
  <2> DEFINE g == ArrayMoved(ob, m, o, cap, b)
  <2> HIDE DEF g, r
  <2>1. Arr!SetObject(ArrayState(ob, g), o, r) = ArrayState([ob EXCEPT ![o] = r], g)
    BY ArrayStateObject
  <2> QED
    BY <2>1, <1>5, Zenon DEF g
<1> QED
  BY <1>1, <1>3, <1>6

\* The arrays hold w in the state s, and the array o has n elements and room for c;
\* own says that it is not over external memory.
ArrayRoom(r, own) == IF own THEN r.capacity ELSE Len(Arr!ExternalCells)
ArrayReady(s, w, o, n, c, own) ==
    \E ob, m : /\ s = ArrayState(ob, m) /\ ArraySound(ob, m, w)
               /\ ob[o] # Dead /\ ob[o].size = n
               /\ own = (ob[o].data # External) /\ c = ArrayRoom(ob[o], own)

LEMMA SeqFrom ==
    ASSUME NEW S, NEW n \in Nat, NEW q, q = [k \in 1 .. n |-> q[k]], \A k \in 1 .. n : q[k] \in S
    PROVE  q \in Seq(S) /\ Len(q) = n /\ DOMAIN q = 1 .. n
OBVIOUS

LEMMA SeqJoined ==
    ASSUME NEW S, NEW x \in Seq(S), NEW y \in Seq(S)
    PROVE  Len(y) \in Nat /\ x \o y \in Seq(S) /\ Len(x \o y) = Len(x) + Len(y)
OBVIOUS

LEMMA ArraySized ==
    ASSUME NEW r \in ArrayRecords, NEW n \in Nat
    PROVE  /\ [r EXCEPT !.size = n] \in ArrayRecords /\ [r EXCEPT !.size = n] # Dead
           /\ [r EXCEPT !.size = n].data = r.data /\ [r EXCEPT !.size = n].capacity = r.capacity
           /\ [r EXCEPT !.size = n].size = n
<1>1. [r EXCEPT !.size = n] \in ArrayRecords
  BY DEF ArrayRecords
<1>2. [r EXCEPT !.size = n] # Dead
  BY <1>1, MarksAssumption DEF ArrayRecords
<1> QED
  BY <1>1, <1>2 DEF ArrayRecords

LEMMA ArrayStateSized ==
    ASSUME NEW ob, NEW m, NEW o, NEW n
    PROVE  Arr!SetSize(ArrayState(ob, m), o, n) = ArrayState([ob EXCEPT ![o] = [ob[o] EXCEPT !.size = n]], m)
BY DEF ArrayState, Arr!SetSize

\* The memory after growth: the old block is free, the new one has the elements.
LEMMA ArrayGrow ==
    ASSUME NEW s, NEW w, NEW o \in ArrayNames, NEW n, NEW c, ArrayReady(s, w, o, n, c, TRUE),
           NEW cap \in Nat, cap > 0, n <= cap
    PROVE  ArrayReady(Arr!grow(s, o, cap), w, o, n, cap, TRUE)
<1>1. PICK ob, m : /\ s = ArrayState(ob, m) /\ ArraySound(ob, m, w)
                   /\ ob[o] # Dead /\ ob[o].data # External /\ ob[o].size = n /\ ob[o].capacity = c
  BY DEF ArrayReady, ArrayRoom
<1>2. PICK b \in HeapBlocks : 
         /\ m[b] = Unused
         /\ Arr!grow(s, o, cap) = ArrayState([ob EXCEPT ![o] = [data |-> b, size |-> n, capacity |-> cap]],
                                             ArrayMoved(ob, m, o, cap, b))
  BY <1>1, ArrayGrowIs
<1> DEFINE d == ob[o].data
           r == [data |-> b, size |-> n, capacity |-> cap]
           X == ArrayGrown(ob, m, o, cap)
           q == ArrayMoved(ob, m, o, cap, b)
<1>3. /\ n \in Nat /\ d \in HeapBlocks \cup {Null} /\ ArrayHolds(m, ob[o], w[o]) /\ w[o] \in Seq(Values)
      /\ n = Len(w[o])
      /\ d # Null => m[d] # Unused /\ m[d] \in Seq(Values \cup {Unset}) /\ b # d
  BY <1>1, <1>2, ArrayRecord DEF ArrayHolds
<1>4. /\ m \in ArrayMems /\ m[External] \in Seq(Values) /\ b # External /\ d # External /\ Null \notin HeapBlocks
  BY <1>1, <1>3, ContainersAssumption DEF ArraySound, ArrayBorrowed
<1>5. r \in ArrayRecords /\ r # Dead /\ r.data = b /\ r.size = n /\ r.capacity = cap
  <2>1. r \in ArrayRecords
    BY <1>3 DEF ArrayRecords
  <2> QED
    BY <2>1, MarksAssumption DEF ArrayRecords
<1>6. \A k \in 1 .. n : X[k] = w[o][k]
  <2> SUFFICES ASSUME NEW k \in 1 .. n PROVE X[k] = w[o][k]
    OBVIOUS
  <2>1. d # Null /\ m[d][k] = w[o][k]
    BY <1>1, <1>3 DEF ArrayHolds
  <2>2. Arr!Cells(ArrayState(ob, m), d) = m[d]
    BY <2>1, <1>3, ArrayStateFields DEF Arr!Cells
  <2>3. k \in DOMAIN m[d] /\ k <= ob[o].size /\ k \in 1 .. cap
    BY <2>1, <1>1, <1>3 DEF ArrayHolds
  <2> QED
    BY <2>1, <2>2, <2>3, <1>1, <1>3 DEF ArrayGrown, Arr!Element
<1>7. X \in Seq(Values \cup {Unset}) /\ Len(X) = cap
  <2>1. \A k \in 1 .. n : w[o][k] \in Values
    BY <1>3
  <2>2. \A k \in 1 .. cap : X[k] \in Values \cup {Unset}
    <3> SUFFICES ASSUME NEW k \in 1 .. cap PROVE X[k] \in Values \cup {Unset}
      OBVIOUS
    <3>1. CASE k <= n
      BY <3>1, <2>1, <1>3, <1>6
    <3>2. CASE ~(k <= n)
      BY <3>2, <1>1 DEF ArrayGrown
    <3> QED
      BY <3>1, <3>2
  <2>3. X = [k \in 1 .. cap |-> X[k]]
    BY DEF ArrayGrown
  <2> HIDE DEF X
  <2> QED
    BY <2>2, <2>3
<1> HIDE DEF X
<1>8. /\ q \in ArrayMems /\ q[b] = X /\ (d # Null => q[d] = Unused)
      /\ \A x \in HeapBlocks \cup {External} : x # b /\ x # d => q[x] = m[x]
  <2>1. CASE d = Null
    <3>1. q = [m EXCEPT ![b] = X]
      BY <2>1 DEF ArrayMoved, X
    <3> QED
      BY <2>1, <3>1, <1>4, <1>7 DEF ArrayMems
  <2>2. CASE d # Null
    <3>1. q = [[m EXCEPT ![b] = X] EXCEPT ![d] = Unused]
      BY <2>2 DEF ArrayMoved, X
    <3>2. d \in HeapBlocks /\ b # d
      BY <2>2, <1>3
    <3> QED
      BY <2>2, <3>1, <3>2, <1>4, <1>7 DEF ArrayMems
  <2> QED
    BY <2>1, <2>2
<1> HIDE DEF q
<1>9. X # Unused
  BY <1>7, MarksAssumption
<1>10. ArrayHolds(q, r, w[o])
  BY <1>2, <1>3, <1>4, <1>5, <1>6, <1>7, <1>8, <1>9 DEF ArrayHolds
<1>11. ArrayBorrowed(q)
  BY <1>1, <1>4, <1>8 DEF ArrayBorrowed, ArraySound
<1>12. ASSUME NEW p \in ArrayNames \ {o}, ob[p] # Dead, ob[p].data # Null
       PROVE  q[ob[p].data] = m[ob[p].data] /\ r.data # ob[p].data
  <2>1. m[ob[p].data] # Unused /\ ob[p].data \in HeapBlocks \cup {External}
    BY <1>1, <1>12, ArrayRecord DEF ArrayHolds
  <2>2. ob[p].data # d
    BY <1>1, <1>12 DEF ArraySound
  <2> QED
    BY <2>1, <2>2, <1>2, <1>5, <1>8
<1>13. ASSUME NEW x \in HeapBlocks, q[x] # Unused
       PROVE  r.data = x \/ \E p \in ArrayNames \ {o} : ob[p] # Dead /\ ob[p].data = x
  <2>1. CASE x = b
    BY <2>1, <1>5
  <2>2. CASE x # b
    <3>1. x # d /\ m[x] # Unused
      BY <2>2, <1>4, <1>8, <1>13
    <3> QED
      BY <3>1, <1>1 DEF ArraySound
  <2> QED
    BY <2>1, <2>2
<1>14. ArraySound([ob EXCEPT ![o] = r], q, [w EXCEPT ![o] = w[o]])
  <2> HIDE DEF r
  <2> QED
    BY <1>1, <1>3, <1>5, <1>8, <1>10, <1>11, <1>12, <1>13, ArrayUpdate
<1>15. [w EXCEPT ![o] = w[o]] = w
  BY <1>1 DEF ArraySound
<1>16. [ob EXCEPT ![o] = r][o] = r
  BY <1>1 DEF ArraySound, ArrayObjs
<1>17. Arr!grow(s, o, cap) = ArrayState([ob EXCEPT ![o] = r], q)
  BY <1>2 DEF q
<1> HIDE DEF r
<1> QED
  BY <1>4, <1>5, <1>14, <1>15, <1>16, <1>17 DEF ArrayReady, ArrayRoom

LEMMA ArrayReserve ==
    ASSUME NEW s, NEW w, NEW o \in ArrayNames, NEW n, NEW c, ArrayReady(s, w, o, n, c, TRUE), NEW cap \in Nat
    PROVE  \E d \in Nat : d >= cap /\ d >= n /\ ArrayReady(Arr!reserve(s, o, cap), w, o, n, d, TRUE)
<1>1. PICK ob, m : /\ s = ArrayState(ob, m) /\ ArraySound(ob, m, w)
                   /\ ob[o] # Dead /\ ob[o].data # External /\ ob[o].size = n /\ ob[o].capacity = c
  BY DEF ArrayReady, ArrayRoom
<1>2. /\ c \in Nat /\ n \in Nat /\ n <= c
  BY <1>1, ArrayRecord DEF ArrayHolds
<1>3. s.obj[o].capacity = c
  BY <1>1, ArrayStateFields
<1>4. CASE cap > c
  <2>1. cap > 0 /\ n <= cap /\ cap >= cap /\ cap >= n
    BY <1>2, <1>4
  <2>2. ArrayReady(Arr!grow(s, o, cap), w, o, n, cap, TRUE)
    BY <2>1, ArrayGrow, Zenon
  <2>3. Arr!reserve(s, o, cap) = Arr!grow(s, o, cap)
    BY <1>3, <1>4 DEF Arr!reserve
  <2> QED
    BY <2>1, <2>2, <2>3, Zenon
<1>5. CASE ~(cap > c)
  <2>1. c >= cap /\ c >= n
    BY <1>2, <1>5
  <2>2. Arr!reserve(s, o, cap) = s
    BY <1>3, <1>5 DEF Arr!reserve
  <2> QED
    BY <2>1, <2>2, <1>2, Zenon
<1> QED
  BY <1>4, <1>5

\* Writing e from position i on and setting the size: the array holds x when x is e
\* there and what was in the array elsewhere.
LEMMA ArrayWrite ==
    ASSUME NEW s, NEW w, NEW o \in ArrayNames, NEW n, NEW c, NEW own, ArrayReady(s, w, o, n, c, own),
           NEW i \in Nat \ {0}, NEW e \in Seq(Values), NEW x \in Seq(Values),
           Len(x) <= c, i + Len(e) - 1 <= c,
           \A k \in 1 .. Len(x) : IF i <= k /\ k <= i + Len(e) - 1 THEN x[k] = e[k - i + 1]
                                  ELSE k <= n /\ x[k] = w[o][k]
    PROVE  ArrayReady(Arr!SetSize(Arr!Put(s, o, i, e), o, Len(x)), [w EXCEPT ![o] = x], o, Len(x), c, own)
<1>1. PICK ob, m : /\ s = ArrayState(ob, m) /\ ArraySound(ob, m, w)
                   /\ ob[o] # Dead /\ ob[o].size = n
                   /\ own = (ob[o].data # External) /\ c = ArrayRoom(ob[o], own)
  BY DEF ArrayReady
<1>0. PICK L \in Nat : L = Len(x)
  OBVIOUS
<1> DEFINE d == ob[o].data
           r == [ob[o] EXCEPT !.size = L]
           last == i + Len(e) - 1
           Y == [k \in DOMAIN m[d] |-> IF i <= k /\ k <= last THEN e[k - i + 1] ELSE m[d][k]]
           q == IF e = <<>> THEN m ELSE [m EXCEPT ![d] = Y]
<1>2. /\ c \in Nat /\ n \in Nat /\ d \in HeapBlocks \cup {External, Null} /\ ob[o] \in ArrayRecords
      /\ ArrayHolds(m, ob[o], w[o]) /\ w[o] \in Seq(Values)
      /\ d # Null => m[d] # Unused /\ m[d] \in Seq(Values \cup {Unset}) /\ Len(m[d]) = c
      /\ d = Null => c = 0
      /\ d = External => m[d] \in Seq(Values)
  <2>1. /\ n \in Nat /\ d \in HeapBlocks \cup {External, Null} /\ ob[o] \in ArrayRecords
        /\ ArrayHolds(m, ob[o], w[o]) /\ w[o] \in Seq(Values) /\ ob[o].capacity \in Nat
        /\ d # Null => m[d] # Unused /\ m[d] \in Seq(Values \cup {Unset})
    <3>1. /\ n \in Nat /\ d \in HeapBlocks \cup {External, Null} /\ ob[o] \in ArrayRecords
          /\ ArrayHolds(m, ob[o], w[o]) /\ w[o] \in Seq(Values) /\ ob[o].capacity \in Nat
          /\ d # Null => m[d] \in Seq(Values \cup {Unset})
      BY <1>1, ArrayRecord
    <3>2. d # Null => m[d] # Unused
      BY <3>1 DEF ArrayHolds
    <3> QED
      BY <3>1, <3>2
  <2>2. m[External] \in Seq(Values) /\ Len(m[External]) = Len(Arr!ExternalCells)
    BY <1>1 DEF ArraySound, ArrayBorrowed
  <2>3. CASE d = External
    <3>1. c = Len(Arr!ExternalCells)
      BY <2>3, <1>1 DEF ArrayRoom
    <3> QED
      BY <2>1, <2>2, <2>3, <3>1, ContainersAssumption
  <2>4. CASE d # External
    <3>1. c = ob[o].capacity
      BY <2>4, <1>1 DEF ArrayRoom
    <3>2. d # Null => Len(m[d]) = c
      BY <3>1, <2>1, <2>4 DEF ArrayHolds
    <3>3. d = Null => c = 0
      BY <3>1, <2>1 DEF ArrayHolds
    <3> QED
      BY <2>1, <2>4, <3>1, <3>2, <3>3
  <2> QED
    BY <2>3, <2>4
<1>3. r \in ArrayRecords /\ r # Dead /\ r.data = d /\ r.size = Len(x) /\ r.capacity = ob[o].capacity
  BY <1>0, <1>1, <1>2, ArraySized
<1>4. e # <<>> => Len(e) > 0 /\ d # Null
  BY <1>2
<1>5. d # Null => Y \in Seq(Values \cup {Unset}) /\ Len(Y) = c /\ DOMAIN Y = 1 .. c
  <2> SUFFICES ASSUME d # Null PROVE Y \in Seq(Values \cup {Unset}) /\ Len(Y) = c /\ DOMAIN Y = 1 .. c
    OBVIOUS
  <2>1. DOMAIN m[d] = 1 .. c
    BY <1>2
  <2>2. ASSUME NEW k \in 1 .. c
        PROVE  (IF i <= k /\ k <= last THEN e[k - i + 1] ELSE m[d][k]) \in Values \cup {Unset}
    <3>1. CASE i <= k /\ k <= last
      <4>1. k - i + 1 \in 1 .. Len(e)
        BY <3>1
      <4> QED
        BY <3>1, <4>1
    <3>2. CASE ~(i <= k /\ k <= last)
      BY <3>2, <1>2, <2>1
    <3> QED
      BY <3>1, <3>2
  <2>3. Y = [k \in 1 .. c |-> Y[k]] /\ \A k \in 1 .. c : Y[k] \in Values \cup {Unset}
    BY <2>1, <2>2
  <2>4. c \in Nat
    BY <1>2
  <2> HIDE DEF Y
  <2> QED
    BY <2>3, <2>4, SeqFrom
<1>51. d = External => Y \in Seq(Values)
  <2> SUFFICES ASSUME d = External PROVE Y \in Seq(Values)
    OBVIOUS
  <2>1. d # Null /\ c \in Nat /\ DOMAIN m[d] = 1 .. c
    BY <1>2, ContainersAssumption
  <2>2. ASSUME NEW k \in 1 .. c
        PROVE  (IF i <= k /\ k <= last THEN e[k - i + 1] ELSE m[d][k]) \in Values
    <3>1. CASE i <= k /\ k <= last
      <4>1. k - i + 1 \in 1 .. Len(e)
        BY <3>1
      <4> QED
        BY <3>1, <4>1
    <3>2. CASE ~(i <= k /\ k <= last)
      BY <3>2, <1>2, <2>1
    <3> QED
      BY <3>1, <3>2
  <2>3. Y = [k \in 1 .. c |-> Y[k]] /\ \A k \in 1 .. c : Y[k] \in Values
    BY <2>1, <2>2
  <2> HIDE DEF Y
  <2> QED
    BY <2>1, <2>3, SeqFrom
<1>6. Arr!Put(s, o, i, e) = ArrayState(ob, q)
  <2>1. CASE e = <<>>
    BY <2>1, <1>1 DEF Arr!Put
  <2>2. CASE e # <<>>
    <3>1. s.obj[o].data = d /\ s.mem = m
      BY <1>1, ArrayStateFields
    <3>2. Arr!Cells(s, d) = m[d]
      BY <3>1, <2>2, <1>2, <1>4 DEF Arr!Cells
    <3>3. ~(last > Len(Arr!Cells(s, d)))
      BY <3>2, <2>2, <1>2, <1>4
    <3>4. Arr!Put(s, o, i, e) = Arr!Store(s, d, Y)
      BY <2>2, <3>1, <3>3 DEF Arr!Put
    <3> HIDE DEF Y
    <3>5. Arr!Store(s, d, Y) = ArrayState(ob, [m EXCEPT ![d] = Y])
      <4>1. Arr!Store(ArrayState(ob, m), d, Y) = ArrayState(ob, [m EXCEPT ![d] = Y])
        BY ArrayStateStore
      <4> QED
        BY <1>1, <4>1, Zenon
    <3> QED
      BY <2>2, <3>4, <3>5
  <2> QED
    BY <2>1, <2>2
<1>7. Arr!SetSize(Arr!Put(s, o, i, e), o, L) = ArrayState([ob EXCEPT ![o] = r], q)
  <2> HIDE DEF q
  <2>1. Arr!SetSize(ArrayState(ob, q), o, L) = ArrayState([ob EXCEPT ![o] = r], q)
    BY ArrayStateSized
  <2> QED
    BY <1>6, <2>1, Zenon
<1>8. /\ q \in ArrayMems
      /\ \A z \in HeapBlocks \cup {External} : z # d => q[z] = m[z]
      /\ d # Null => q[d] = (IF e = <<>> THEN m[d] ELSE Y)
  <2>1. m \in ArrayMems
    BY <1>1 DEF ArraySound
  <2> HIDE DEF Y
  <2> QED
    BY <2>1, <1>2, <1>4, <1>5 DEF ArrayMems
<1>9. ArrayHolds(q, r, x)
  <2>1. d \in HeapBlocks => d # External
    BY ContainersAssumption
  <2>2. CASE d = Null
    BY <2>2, <1>2, <1>3, ContainersAssumption DEF ArrayHolds
  <2>3. CASE d # Null
    <3>1. q[d] \in Seq(Values \cup {Unset}) /\ Len(q[d]) = c /\ q[d] # Unused
      <4> HIDE DEF Y, q
      <4> QED
        BY <2>3, <1>2, <1>5, <1>8, MarksAssumption
    <3>2. ASSUME NEW k \in 1 .. Len(x) PROVE q[d][k] = x[k]
      <4>1. k \in 1 .. c
        BY <1>2
      <4>2. CASE e = <<>>
        <5>1. k <= n /\ x[k] = w[o][k]
          BY <4>2
        <5> QED
          BY <5>1, <4>2, <2>3, <1>1, <1>2, <1>8 DEF ArrayHolds
      <4>3. CASE e # <<>>
        <5>1. q[d][k] = IF i <= k /\ k <= last THEN e[k - i + 1] ELSE m[d][k]
          BY <4>1, <4>3, <2>3, <1>2, <1>8, SMTT(30)
        <5>2. k <= n => m[d][k] = w[o][k]
          BY <2>3, <1>1, <1>2 DEF ArrayHolds
        <5> QED
          BY <5>1, <5>2
      <4> QED
        BY <4>2, <4>3
    <3>3. /\ d = External => r.capacity = 0
          /\ d \in HeapBlocks => r.capacity = c /\ c > 0
      BY <2>1, <1>1, <1>2, <1>3 DEF ArrayHolds, ArrayRoom
    <3> HIDE DEF q, r, Y
    <3> QED
      BY <2>1, <2>3, <3>1, <3>2, <3>3, <1>2, <1>3 DEF ArrayHolds
  <2> QED
    BY <2>2, <2>3
<1> HIDE DEF q, r, Y
<1>10. ArrayBorrowed(q)
  <2>1. ArrayBorrowed(m) /\ External # Null
    BY <1>1, ContainersAssumption DEF ArraySound
  <2>2. CASE d # External
    BY <2>1, <2>2, <1>8 DEF ArrayBorrowed
  <2>3. CASE d = External
    BY <2>1, <2>3, <1>2, <1>5, <1>51, <1>8 DEF ArrayBorrowed
  <2> QED
    BY <2>2, <2>3
<1>11. ASSUME NEW p \in ArrayNames \ {o}, ob[p] # Dead, ob[p].data # Null
       PROVE  q[ob[p].data] = m[ob[p].data] /\ r.data # ob[p].data
  <2>1. ob[p].data # d /\ ob[p].data \in HeapBlocks \cup {External}
    <3>1. ob[p].data \in HeapBlocks \cup {External}
      BY <1>1, <1>11, ArrayRecord
    <3>2. ob[p].data # d
      BY <1>1, <1>11 DEF ArraySound
    <3> QED
      BY <3>1, <3>2
  <2> QED
    BY <2>1, <1>3, <1>8
<1>12. ASSUME NEW b \in HeapBlocks, q[b] # Unused
       PROVE  r.data = b \/ \E p \in ArrayNames \ {o} : ob[p] # Dead /\ ob[p].data = b
  <2>1. CASE b = d
    BY <2>1, <1>3
  <2>2. CASE b # d
    BY <2>2, <1>1, <1>8, <1>12 DEF ArraySound
  <2> QED
    BY <2>1, <2>2
<1>13. ArraySound([ob EXCEPT ![o] = r], q, [w EXCEPT ![o] = x])
  <2>1. \A p \in ArrayNames \ {o} : ob[p] # Dead /\ ob[p].data # Null => q[ob[p].data] = m[ob[p].data]
    BY <1>11
  <2>4. \A p \in ArrayNames \ {o} : ob[p] # Dead /\ ob[p].data # Null => r.data # ob[p].data
    BY <1>11
  <2>2. \A b \in HeapBlocks : q[b] # Unused =>
            \/ r # Dead /\ r.data = b
            \/ \E p \in ArrayNames \ {o} : ob[p] # Dead /\ ob[p].data = b
    BY <1>3, <1>12
  <2>3. r \in ArrayRecords \cup {Dead} /\ q \in ArrayMems /\ ArraySound(ob, m, w)
    BY <1>1, <1>3, <1>8
  <2> QED
    BY <2>1, <2>2, <2>3, <2>4, <1>9, <1>10, ArrayUpdate, Zenon
<1>14. [ob EXCEPT ![o] = r][o] = r
  BY <1>1 DEF ArraySound, ArrayObjs
<1>15. ArrayReady(ArrayState([ob EXCEPT ![o] = r], q), [w EXCEPT ![o] = x], o, L, c, own)
  BY <1>0, <1>1, <1>3, <1>13, <1>14 DEF ArrayReady, ArrayRoom
<1> QED
  BY <1>0, <1>7, <1>15, Zenon

\* What a ready array is known to be.
LEMMA ArrayReadyIs ==
    ASSUME NEW s, NEW w, NEW o \in ArrayNames, NEW n, NEW c, NEW own, ArrayReady(s, w, o, n, c, own)
    PROVE  /\ n \in Nat /\ c \in Nat /\ n <= c /\ w[o] \in Seq(Values) /\ Len(w[o]) = n
           /\ s.obj[o].size = n /\ (own => s.obj[o].capacity = c)
           /\ w \in [ArrayNames -> Seq(Values)]
<1>1. PICK ob, m : /\ s = ArrayState(ob, m) /\ ArraySound(ob, m, w)
                   /\ ob[o] # Dead /\ ob[o].size = n
                   /\ own = (ob[o].data # External) /\ c = ArrayRoom(ob[o], own)
  BY DEF ArrayReady
<1>2. /\ n \in Nat /\ ob[o].capacity \in Nat /\ w[o] \in Seq(Values) /\ ArrayHolds(m, ob[o], w[o])
      /\ ob[o].data \in HeapBlocks \cup {External, Null}
      /\ s.obj = ob /\ ArrayBorrowed(m) /\ w \in [ArrayNames -> Seq(Values)]
  BY <1>1, ArrayRecord, ArrayStateFields DEF ArraySound
<1>3. CASE ob[o].data = External
  <2>1. c = Len(Arr!ExternalCells) /\ ~own
    BY <1>1, <1>3 DEF ArrayRoom
  <2>2. Len(m[External]) = c /\ m[External] \in Seq(Values)
    BY <2>1, <1>2 DEF ArrayBorrowed
  <2>3. c \in Nat /\ n <= c /\ Len(w[o]) = n
    BY <2>2, <1>1, <1>2, <1>3, ContainersAssumption DEF ArrayHolds
  <2> QED
    BY <2>1, <2>3, <1>1, <1>2
<1>4. CASE ob[o].data # External
  <2>1. c = ob[o].capacity
    BY <1>1, <1>4 DEF ArrayRoom
  <2>2. n <= c /\ Len(w[o]) = n
    BY <2>1, <1>1, <1>2, <1>4 DEF ArrayHolds
  <2> QED
    BY <2>1, <2>2, <1>1, <1>2
<1> QED
  BY <1>3, <1>4

\* Writing changes no array object.
LEMMA ArrayPutKeepsSize ==
    ASSUME NEW s, NEW w, NEW o \in ArrayNames, NEW n, NEW c, NEW own, ArrayReady(s, w, o, n, c, own),
           NEW i, NEW e, e # <<>> => ~(i + Len(e) - 1 > Len(Arr!Cells(s, s.obj[o].data)))
    PROVE  Arr!SetSize(Arr!Put(s, o, i, e), o, n) = Arr!Put(s, o, i, e)
<1>1. PICK ob, m : s = ArrayState(ob, m) /\ ArraySound(ob, m, w) /\ ob[o] # Dead /\ ob[o].size = n
  BY DEF ArrayReady
<1>2. \E q : Arr!Put(s, o, i, e) = ArrayState(ob, q)
  <2>1. CASE e = <<>>
    BY <2>1, <1>1 DEF Arr!Put
  <2>2. CASE e # <<>>
    <3> DEFINE b == s.obj[o].data
               Y == [k \in DOMAIN s.mem[b] |-> IF i <= k /\ k <= i + Len(e) - 1 THEN e[k - i + 1] ELSE s.mem[b][k]]
    <3>1. Arr!Put(s, o, i, e) = Arr!Store(s, b, Y)
      BY <2>2, Zenon DEF Arr!Put
    <3> HIDE DEF b, Y
    <3>2. Arr!Store(ArrayState(ob, m), b, Y) = ArrayState(ob, [m EXCEPT ![b] = Y])
      BY ArrayStateStore
    <3>3. s = ArrayState(ob, m)
      BY <1>1
    <3> QED
      BY <3>1, <3>2, <3>3, Zenon
  <2> QED
    BY <2>1, <2>2
<1>3. PICK q : Arr!Put(s, o, i, e) = ArrayState(ob, q)
  BY <1>2
<1>4. ob \in ArrayObjs /\ ob[o] \in ArrayRecords
  BY <1>1, ArrayRecord DEF ArraySound
<1>5. [ob[o] EXCEPT !.size = n] = ob[o]
  BY <1>1, <1>4 DEF ArrayRecords
<1>6. [ob EXCEPT ![o] = ob[o]] = ob
  BY <1>4 DEF ArrayObjs
<1>7. Arr!SetSize(ArrayState(ob, q), o, n) = ArrayState([ob EXCEPT ![o] = [ob[o] EXCEPT !.size = n]], q)
  BY ArrayStateSized
<1> QED
  BY <1>3, <1>5, <1>6, <1>7

\* Writing inside the array.
LEMMA ArrayPut ==
    ASSUME NEW s, NEW w, NEW o \in ArrayNames, NEW n, NEW c, NEW own, ArrayReady(s, w, o, n, c, own),
           NEW i \in Nat \ {0}, NEW e \in Seq(Values), NEW x \in Seq(Values),
           Len(x) = n, i + Len(e) - 1 <= n,
           \A k \in 1 .. n : x[k] = IF i <= k /\ k <= i + Len(e) - 1 THEN e[k - i + 1] ELSE w[o][k]
    PROVE  ArrayReady(Arr!Put(s, o, i, e), [w EXCEPT ![o] = x], o, n, c, own)
<1>1. n \in Nat /\ c \in Nat /\ n <= c
  BY ArrayReadyIs
<1>2. e # <<>> => ~(i + Len(e) - 1 > Len(Arr!Cells(s, s.obj[o].data)))
  <2> SUFFICES ASSUME e # <<>> PROVE ~(i + Len(e) - 1 > Len(Arr!Cells(s, s.obj[o].data)))
    OBVIOUS
  <2>1. PICK ob, m : s = ArrayState(ob, m) /\ ArraySound(ob, m, w) /\ ob[o] # Dead /\ ob[o].size = n
    BY DEF ArrayReady
  <2>2. ArrayHolds(m, ob[o], w[o]) /\ s.obj = ob /\ s.mem = m /\ Len(e) > 0
        /\ (ob[o].data # Null => m[ob[o].data] \in Seq(Values \cup {Unset}))
    BY <2>1, ArrayRecord, ArrayStateFields
  <2>3. n > 0
    BY <1>1, <2>2
  <2>4. ob[o].data # Null /\ m[ob[o].data] # Unused /\ n <= Len(m[ob[o].data])
    BY <2>1, <2>2, <2>3 DEF ArrayHolds
  <2>5. Arr!Cells(s, s.obj[o].data) = m[ob[o].data]
    BY <2>2, <2>4 DEF Arr!Cells
  <2> QED
    BY <1>1, <2>2, <2>4, <2>5
<1>3. Arr!SetSize(Arr!Put(s, o, i, e), o, n) = Arr!Put(s, o, i, e)
  BY <1>2, ArrayPutKeepsSize, ZenonT(40)
<1>4. /\ Len(x) <= c /\ i + Len(e) - 1 <= c
      /\ \A k \in 1 .. Len(x) : IF i <= k /\ k <= i + Len(e) - 1 THEN x[k] = e[k - i + 1]
                                ELSE k <= n /\ x[k] = w[o][k]
  BY <1>1
<1>5. ArrayReady(Arr!SetSize(Arr!Put(s, o, i, e), o, Len(x)), [w EXCEPT ![o] = x], o, Len(x), c, own)
  BY <1>4, ArrayWrite, Zenon
<1> QED
  BY <1>3, <1>5, Zenon

\* The elements after resize.
ArrayCut(x, n) == [k \in 1 .. n |-> IF k <= Len(x) THEN x[k] ELSE 0]

LEMMA ArrayCutIs ==
    ASSUME NEW x \in Seq(Values), NEW n \in Nat
    PROVE  ArrayCut(x, n) \in Seq(Values) /\ Len(ArrayCut(x, n)) = n
BY ContainersAssumption DEF ArrayCut

LEMMA ArrayResize ==
    ASSUME NEW s, NEW w, NEW o \in ArrayNames, NEW n, NEW c, ArrayReady(s, w, o, n, c, TRUE), NEW j \in Nat
    PROVE  \E d \in Nat : ArrayReady(Arr!resize(s, o, j), [w EXCEPT ![o] = ArrayCut(w[o], j)], o, j, d, TRUE)
<1> DEFINE t == Arr!reserve(s, o, j)
           x == ArrayCut(w[o], j)
<1>1. PICK d \in Nat : d >= j /\ d >= n /\ ArrayReady(t, w, o, n, d, TRUE)
  BY ArrayReserve, Zenon
<1>2. /\ n \in Nat /\ n <= d /\ w[o] \in Seq(Values) /\ Len(w[o]) = n /\ t.obj[o].size = n
  <2> HIDE DEF t
  <2> QED
    BY <1>1, ArrayReadyIs, Zenon
<1>3. x \in Seq(Values) /\ Len(x) = j
  BY <1>2, ArrayCutIs
<1>4. \A k \in 1 .. j : x[k] = IF k <= n THEN w[o][k] ELSE 0
  BY <1>2 DEF ArrayCut
<1>5. Arr!resize(s, o, j) = Arr!SetSize(Arr!Fresh(t, o, j), o, j)
  BY DEF Arr!resize
<1> HIDE DEF t, x
<1>6. CASE j > n
  <2> DEFINE z == [k \in 1 .. j - n |-> 0]
  <2>1. z \in Seq(Values) /\ Len(z) = j - n /\ \A k \in 1 .. j - n : z[k] = 0
    BY <1>2, <1>6, ContainersAssumption
  <2>2. Arr!Fresh(t, o, j) = Arr!Put(t, o, n + 1, z)
    BY <1>2, <1>6 DEF Arr!Fresh
  <2> HIDE DEF z
  <2>3. /\ n + 1 \in Nat \ {0} /\ Len(x) <= d /\ (n + 1) + Len(z) - 1 <= d
        /\ \A k \in 1 .. Len(x) : IF n + 1 <= k /\ k <= (n + 1) + Len(z) - 1 THEN x[k] = z[k - (n + 1) + 1]
                                  ELSE k <= n /\ x[k] = w[o][k]
    BY <2>1, <1>1, <1>2, <1>3, <1>4, <1>6
  <2>4. ArrayReady(Arr!SetSize(Arr!Put(t, o, n + 1, z), o, Len(x)), [w EXCEPT ![o] = x], o, Len(x), d, TRUE)
    BY <2>1, <2>3, <1>1, <1>3, ArrayWrite, Zenon
  <2> QED
    BY <2>2, <2>4, <1>1, <1>3, <1>5, Zenon DEF x
<1>7. CASE ~(j > n)
  <2>1. Arr!Fresh(t, o, j) = t /\ Arr!Put(t, o, 1, <<>>) = t
    BY <1>2, <1>7 DEF Arr!Fresh, Arr!Put
  <2>2. /\ 1 \in Nat \ {0} /\ <<>> \in Seq(Values) /\ Len(x) <= d /\ 1 + Len(<<>>) - 1 <= d
        /\ \A k \in 1 .. Len(x) : IF 1 <= k /\ k <= 1 + Len(<<>>) - 1 THEN x[k] = <<>>[k - 1 + 1]
                                  ELSE k <= n /\ x[k] = w[o][k]
    BY <1>1, <1>2, <1>3, <1>4, <1>7
  <2>3. ArrayReady(Arr!SetSize(Arr!Put(t, o, 1, <<>>), o, Len(x)), [w EXCEPT ![o] = x], o, Len(x), d, TRUE)
    BY <2>2, <1>1, <1>3, ArrayWrite, Zenon
  <2> QED
    BY <2>1, <2>3, <1>1, <1>3, <1>5, Zenon DEF x
<1> QED
  BY <1>2, <1>6, <1>7

\* resize and then write all elements.
LEMMA ArrayAssign ==
    ASSUME NEW s, NEW w, NEW o \in ArrayNames, NEW n, NEW c, ArrayReady(s, w, o, n, c, TRUE),
           NEW e \in Seq(Values)
    PROVE  \E d \in Nat : ArrayReady(Arr!Assign(s, o, e), [w EXCEPT ![o] = e], o, Len(e), d, TRUE)
<1> DEFINE t == Arr!resize(s, o, Len(e))
           x == ArrayCut(w[o], Len(e))
           u == [w EXCEPT ![o] = x]
<1>1. Len(e) \in Nat
  OBVIOUS
<1>2. PICK d \in Nat : ArrayReady(t, u, o, Len(e), d, TRUE)
  BY <1>1, ArrayResize, Zenon
<1>3. /\ 1 \in Nat \ {0} /\ 1 + Len(e) - 1 <= Len(e) /\ Len(e) = Len(e)
      /\ \A k \in 1 .. Len(e) : e[k] = IF 1 <= k /\ k <= 1 + Len(e) - 1 THEN e[k - 1 + 1] ELSE u[o][k]
  <2> HIDE DEF u
  <2> QED
    BY <1>1
<1>4. [u EXCEPT ![o] = e] = [w EXCEPT ![o] = e]
  <2>1. w \in [ArrayNames -> Seq(Values)]
    BY ArrayReadyIs, Zenon
  <2> HIDE DEF x
  <2> QED
    BY <2>1
<1>5. ArrayReady(Arr!Put(t, o, 1, e), [u EXCEPT ![o] = e], o, Len(e), d, TRUE)
  <2> HIDE DEF t, u
  <2> QED
    BY <1>2, <1>3, ArrayPut, Zenon
<1> HIDE DEF u
<1> QED
  BY <1>4, <1>5, Zenon DEF Arr!Assign

LEMMA ArrayPushBack ==
    ASSUME NEW s, NEW w, NEW o \in ArrayNames, NEW n, NEW c, ArrayReady(s, w, o, n, c, TRUE), NEW v \in Values
    PROVE  \E d \in Nat : ArrayReady(Arr!push_back(s, o, v), [w EXCEPT ![o] = Append(w[o], v)], o, n + 1, d, TRUE)
<1> DEFINE t == IF s.obj[o].size >= s.obj[o].capacity THEN Arr!grow(s, o, Arr!Doubled(s.obj[o].capacity)) ELSE s
           x == Append(w[o], v)
<1>1. /\ n \in Nat /\ c \in Nat /\ n <= c /\ w[o] \in Seq(Values) /\ Len(w[o]) = n
      /\ s.obj[o].size = n /\ s.obj[o].capacity = c
  BY ArrayReadyIs, Zenon
<1>2. \E d \in Nat : d > n /\ ArrayReady(t, w, o, n, d, TRUE)
  <2>1. CASE n >= c
    <3> DEFINE d == Arr!Doubled(c)
    <3>1. d \in Nat /\ d > 0 /\ n <= d /\ d > n
      BY <2>1, <1>1 DEF Arr!Doubled
    <3>2. t = Arr!grow(s, o, d)
      BY <2>1, <1>1
    <3> HIDE DEF d, t
    <3>3. ArrayReady(Arr!grow(s, o, d), w, o, n, d, TRUE)
      BY <3>1, ArrayGrow, Zenon
    <3> QED
      BY <3>1, <3>2, <3>3, Zenon
  <2>2. CASE ~(n >= c)
    <3>1. t = s /\ c > n
      BY <2>2, <1>1
    <3> HIDE DEF t
    <3> QED
      BY <3>1, <1>1, Zenon
  <2> QED
    BY <2>1, <2>2
<1>3. Arr!push_back(s, o, v) = Arr!SetSize(Arr!Put(t, o, t.obj[o].size + 1, <<v>>), o, t.obj[o].size + 1)
  BY DEF Arr!push_back
<1> HIDE DEF t
<1>4. PICK d \in Nat : d > n /\ ArrayReady(t, w, o, n, d, TRUE)
  BY <1>2
<1>5. t.obj[o].size = n
  BY <1>4, ArrayReadyIs, Zenon
<1>6. /\ <<v>> \in Seq(Values) /\ x \in Seq(Values) /\ n + 1 \in Nat \ {0} /\ Len(x) = n + 1
      /\ Len(x) <= d /\ (n + 1) + Len(<<v>>) - 1 <= d
      /\ \A k \in 1 .. Len(x) : IF n + 1 <= k /\ k <= (n + 1) + Len(<<v>>) - 1 THEN x[k] = <<v>>[k - (n + 1) + 1]
                                ELSE k <= n /\ x[k] = w[o][k]
  BY <1>1, <1>4
<1> HIDE DEF x
<1>7. ArrayReady(Arr!SetSize(Arr!Put(t, o, n + 1, <<v>>), o, Len(x)), [w EXCEPT ![o] = x], o, Len(x), d, TRUE)
  BY <1>4, <1>6, ArrayWrite, Zenon
<1>8. Arr!push_back(s, o, v) = Arr!SetSize(Arr!Put(t, o, n + 1, <<v>>), o, Len(x))
  BY <1>3, <1>5, <1>6, Zenon
<1> QED
  BY <1>4, <1>6, <1>7, <1>8, Zenon DEF x

\* Setting a smaller size.
LEMMA ArrayShrink ==
    ASSUME NEW s, NEW w, NEW o \in ArrayNames, NEW n, NEW c, NEW own, ArrayReady(s, w, o, n, c, own),
           NEW j \in Nat, j <= n
    PROVE  ArrayReady(Arr!SetSize(s, o, j), [w EXCEPT ![o] = SubSeq(w[o], 1, j)], o, j, c, own)
<1> DEFINE x == SubSeq(w[o], 1, j)
<1>1. /\ n \in Nat /\ c \in Nat /\ n <= c /\ w[o] \in Seq(Values) /\ Len(w[o]) = n
  BY ArrayReadyIs
<1>2. x \in Seq(Values) /\ Len(x) = j /\ \A k \in 1 .. j : x[k] = w[o][k]
  BY <1>1
<1> HIDE DEF x
<1>3. /\ 1 \in Nat \ {0} /\ <<>> \in Seq(Values) /\ Len(x) <= c /\ 1 + Len(<<>>) - 1 <= c
      /\ \A k \in 1 .. Len(x) : IF 1 <= k /\ k <= 1 + Len(<<>>) - 1 THEN x[k] = <<>>[k - 1 + 1]
                                ELSE k <= n /\ x[k] = w[o][k]
  BY <1>1, <1>2
<1>4. ArrayReady(Arr!SetSize(Arr!Put(s, o, 1, <<>>), o, Len(x)), [w EXCEPT ![o] = x], o, Len(x), c, own)
  BY <1>2, <1>3, ArrayWrite, Zenon
<1>5. Arr!Put(s, o, 1, <<>>) = s
  BY DEF Arr!Put
<1> QED
  BY <1>2, <1>4, <1>5, Zenon DEF x

\* A live array is ready.
LEMMA ArrayOf ==
    ASSUME NEW ob, NEW m, NEW w, ArraySound(ob, m, w), NEW o \in ArrayNames, ob[o] # Dead
    PROVE  \E c : ArrayReady(ArrayState(ob, m), w, o, ob[o].size, c, ob[o].data # External)
BY DEF ArrayReady

LEMMA ArrayOfOwn ==
    ASSUME NEW ob, NEW m, NEW w, ArraySound(ob, m, w), NEW o \in ArrayNames, ob[o] # Dead, ob[o].data # External
    PROVE  \E c : ArrayReady(ArrayState(ob, m), w, o, ob[o].size, c, TRUE)
<1>1. TRUE = (ob[o].data # External)
  OBVIOUS
<1> QED
  BY <1>1, Zenon DEF ArrayReady

LEMMA ArrayReadySound ==
    ASSUME NEW s, NEW w, NEW o, NEW n, NEW c, NEW own, ArrayReady(s, w, o, n, c, own)
    PROVE  ArrayIs(s, w)
BY DEF ArrayReady, ArrayIs

\* A constructed array is empty.
LEMMA ArrayBegin ==
    ASSUME NEW ob, NEW m, NEW w, ArraySound(ob, m, w), NEW o \in ArrayNames, ob[o] = Dead
    PROVE  ArrayReady(Arr!Begin(ArrayState(ob, m), o), [w EXCEPT ![o] = <<>>], o, 0, 0, TRUE)
<1> DEFINE r == Arr!Empty
           ob2 == [ob EXCEPT ![o] = r]
           w2 == [w EXCEPT ![o] = <<>>]
<1>1. r \in ArrayRecords /\ r # Dead /\ r.data = Null /\ r.size = 0 /\ r.capacity = 0
  BY MarksAssumption DEF Arr!Empty, ArrayRecords
<1>2. ArrayHolds(m, r, <<>>)
  BY <1>1, ContainersAssumption DEF ArrayHolds
<1>3. m \in ArrayMems /\ ArrayBorrowed(m) /\ <<>> \in Seq(Values) /\ r \in ArrayRecords \cup {Dead}
  BY <1>1 DEF ArraySound
<1>4. \A b \in HeapBlocks : m[b] # Unused =>
            \/ r # Dead /\ r.data = b
            \/ \E p \in ArrayNames \ {o} : ob[p] # Dead /\ ob[p].data = b
  BY DEF ArraySound
<1> HIDE DEF r
<1>5. ArraySound(ob2, m, w2)
  <2>1. \A p \in ArrayNames \ {o} : ob[p] # Dead /\ ob[p].data # Null => m[ob[p].data] = m[ob[p].data]
    OBVIOUS
  <2>2. \A p \in ArrayNames \ {o} : ob[p] # Dead /\ ob[p].data # Null => r.data # ob[p].data
    BY <1>1
  <2> QED
    BY <2>1, <2>2, <1>2, <1>3, <1>4, ArrayUpdate, Zenon
<1>6. ob2[o] = r
  BY DEF ArraySound, ArrayObjs
<1>7. Arr!Begin(ArrayState(ob, m), o) = ArrayState(ob2, m)
  <2>1. Arr!SetObject(ArrayState(ob, m), o, r) = ArrayState([ob EXCEPT ![o] = r], m)
    BY ArrayStateObject
  <2> QED
    BY <2>1, Zenon DEF Arr!Begin, r
<1> HIDE DEF ob2, w2
<1>8. /\ ob2[o] # Dead /\ ob2[o].size = 0 /\ TRUE = (ob2[o].data # External) /\ 0 = ArrayRoom(ob2[o], TRUE)
  BY <1>1, <1>6, ContainersAssumption DEF ArrayRoom
<1>9. ArrayReady(ArrayState(ob2, m), w2, o, 0, 0, TRUE)
  BY <1>5, <1>8, Zenon DEF ArrayReady
<1> QED
  BY <1>7, <1>9, Zenon DEF w2

\* A destroyed array gives its block back.
ArrayFreed(m, d) == IF d \in HeapBlocks THEN [m EXCEPT ![d] = Unused] ELSE m

LEMMA ArrayKill ==
    ASSUME NEW ob, NEW m, NEW w, ArraySound(ob, m, w), NEW o \in ArrayNames, ob[o] # Dead
    PROVE  ArraySound([ob EXCEPT ![o] = Dead], ArrayFreed(m, ob[o].data), [w EXCEPT ![o] = <<>>])
<1> DEFINE d == ob[o].data
           q == ArrayFreed(m, d)
<1>1. m \in ArrayMems /\ ArrayBorrowed(m) /\ <<>> \in Seq(Values) /\ Dead \in ArrayRecords \cup {Dead}
  BY DEF ArraySound
<1>2. q \in ArrayMems /\ (d \in HeapBlocks => q[d] = Unused) /\ \A b \in HeapBlocks \cup {External} : b # d => q[b] = m[b]
  BY <1>1 DEF ArrayFreed, ArrayMems
<1>3. d = External => q = m
  BY ContainersAssumption DEF ArrayFreed
<1> HIDE DEF q
<1>4. ArrayBorrowed(q)
  BY <1>1, <1>2, <1>3 DEF ArrayBorrowed
<1>5. ASSUME NEW p \in ArrayNames \ {o}, ob[p] # Dead, ob[p].data # Null
      PROVE  q[ob[p].data] = m[ob[p].data]
  <2>1. ob[p].data \in HeapBlocks \cup {External}
    BY <1>5, ArrayRecord
  <2>2. ob[p].data # d
    BY <1>5 DEF ArraySound
  <2> QED
    BY <2>1, <2>2, <1>2
<1>6. ASSUME NEW b \in HeapBlocks, q[b] # Unused
      PROVE  \E p \in ArrayNames \ {o} : ob[p] # Dead /\ ob[p].data = b
  <2>1. b # d
    BY <1>2, <1>6
  <2>2. m[b] # Unused
    BY <2>1, <1>2, <1>6
  <2> QED
    BY <2>1, <2>2 DEF ArraySound
<1>7. ArraySound([ob EXCEPT ![o] = Dead], q, [w EXCEPT ![o] = <<>>])
  <2>1. \A p \in ArrayNames \ {o} : ob[p] # Dead /\ ob[p].data # Null => q[ob[p].data] = m[ob[p].data]
    BY <1>5
  <2>2. \A b \in HeapBlocks : q[b] # Unused =>
            \/ Dead # Dead /\ Dead.data = b
            \/ \E p \in ArrayNames \ {o} : ob[p] # Dead /\ ob[p].data = b
    BY <1>6
  <2> QED
    BY <2>1, <2>2, <1>1, <1>2, <1>4, ArrayUpdate, Zenon
<1> QED
  BY <1>7 DEF q

\* Content reads what the array holds.
LEMMA ArrayContent ==
    ASSUME NEW ob, NEW m, NEW w, ArraySound(ob, m, w), NEW o \in ArrayNames, ob[o] # Dead
    PROVE  Arr!Content(ArrayState(ob, m), o) = w[o]
<1> DEFINE n == ob[o].size
           q == Arr!Cells(ArrayState(ob, m), ob[o].data)
<1>1. /\ n \in Nat /\ ArrayHolds(m, ob[o], w[o]) /\ w[o] \in Seq(Values)
      /\ ob[o].data # Null => m[ob[o].data] \in Seq(Values \cup {Unset})
  BY ArrayRecord
<1>2. Arr!Content(ArrayState(ob, m), o) = [k \in 1 .. n |-> Arr!Element(q, k)]
  BY ArrayStateFields DEF Arr!Content
<1>3. q \in Seq(Values \cup {Unset}) /\ n <= Len(q) /\ n = Len(w[o]) /\ \A k \in 1 .. n : q[k] = w[o][k]
  <2>1. CASE ob[o].data = Null
    <3>1. q = <<>> /\ n = 0
      BY <2>1, <1>1 DEF Arr!Cells, ArrayHolds
    <3>2. n = Len(w[o])
      BY <1>1 DEF ArrayHolds
    <3> HIDE DEF q, n
    <3> QED
      BY <3>1, <3>2
  <2>2. CASE ob[o].data # Null
    <3>1. q = m[ob[o].data]
      BY <2>2, <1>1, ArrayStateFields DEF Arr!Cells, ArrayHolds
    <3> QED
      BY <2>2, <3>1, <1>1 DEF ArrayHolds
  <2> QED
    BY <2>1, <2>2
<1> HIDE DEF q, n
<1>4. \A k \in 1 .. n : Arr!Element(q, k) = w[o][k]
  BY <1>1, <1>3 DEF Arr!Element
<1>5. w[o] = [k \in 1 .. n |-> w[o][k]]
  BY <1>1, <1>3
<1> QED
  BY <1>2, <1>4, <1>5

\* Whatever was called on arrays, in whatever order, they are sound.
ArrayInv == arrFault = {} /\ ArraySound(arrObj, arrMem, arrValue)

LEMMA ArrayCurrent ==
    ASSUME ArrayInv
    PROVE  Arr!State = ArrayState(arrObj, arrMem) /\ ArraySound(arrObj, arrMem, arrValue)
BY DEF ArrayInv, ArrayState, Arr!State

LEMMA ArrayStep ==
    ASSUME NEW s, NEW w, ArrayIs(s, w), Arr!Becomes(s), arrValue' = w
    PROVE  ArrayInv'
<1>1. PICK ob, m : s = ArrayState(ob, m) /\ ArraySound(ob, m, w)
  BY DEF ArrayIs
<1>2. arrObj' = ob /\ arrMem' = m /\ arrFault' = {}
  BY <1>1, ArrayStateFields DEF Arr!Becomes
<1>3. ArraySound(arrObj', arrMem', arrValue')
  BY <1>1, <1>2, Zenon
<1> QED
  BY <1>2, <1>3 DEF ArrayInv, ArraySound, ArrayObjs, ArrayMems, ArrayRecords, ArrayBorrowed, ArrayHolds, Arr!ExternalCells

LEMMA ArrayStutter ==
    ASSUME ArrayInv, UNCHANGED arrVars
    PROVE  ArrayInv'
<1>1. Arr!State = ArrayState(arrObj, arrMem) /\ ArraySound(arrObj, arrMem, arrValue) /\ arrFault = {}
  BY ArrayCurrent DEF ArrayInv
<1>2. ArrayIs(Arr!State, arrValue)
  BY <1>1, Zenon DEF ArrayIs
<1>3. Arr!Becomes(Arr!State) /\ arrValue' = arrValue
  BY DEF arrVars, Arr!Becomes, Arr!State
<1> QED
  BY <1>2, <1>3, ArrayStep, Zenon

\* Two assignments to one array.
LEMMA ArrayTwice ==
    ASSUME NEW w \in [ArrayNames -> Seq(Values)], NEW o \in ArrayNames, NEW x, NEW y
    PROVE  [[w EXCEPT ![o] = x] EXCEPT ![o] = y] = [w EXCEPT ![o] = y]
OBVIOUS

\* The calls that construct an array.
LEMMA ArrayConstructs ==
    ASSUME ArrayInv, NEW o \in ArrayNames,
           \/ Arr!Construct(o)
           \/ \E n \in 0 .. MaxSize : Arr!ConstructSized(o, n)
           \/ \E c \in Strings : Arr!ConstructString(o, c)
           \/ \E p \in ArrayNames : Arr!ConstructCopy(o, p)
    PROVE  ArrayInv'
<1> DEFINE s == Arr!Begin(Arr!State, o)
           w == [arrValue EXCEPT ![o] = <<>>]
<1>1. Arr!State = ArrayState(arrObj, arrMem) /\ ArraySound(arrObj, arrMem, arrValue)
  BY ArrayCurrent
<1>2. arrObj[o] = Dead
  BY DEF Arr!Construct, Arr!ConstructSized, Arr!ConstructString, Arr!ConstructCopy, Arr!Live
<1>3. ArrayReady(s, w, o, 0, 0, TRUE)
  <2>1. ArrayReady(Arr!Begin(ArrayState(arrObj, arrMem), o), w, o, 0, 0, TRUE)
    BY <1>1, <1>2, ArrayBegin
  <2> QED
    BY <2>1, <1>1, Zenon
<1>4. arrValue \in [ArrayNames -> Seq(Values)] /\ w[o] = <<>>
  BY <1>1 DEF ArraySound
<1> HIDE DEF s
<1>5. ASSUME NEW e \in Seq(Values), Arr!Becomes(Arr!Assign(s, o, e)), arrValue' = [arrValue EXCEPT ![o] = e]
      PROVE  ArrayInv'
  <2>1. PICK d \in Nat : ArrayReady(Arr!Assign(s, o, e), [w EXCEPT ![o] = e], o, Len(e), d, TRUE)
    BY <1>3, ArrayAssign, Zenon
  <2>2. ArrayIs(Arr!Assign(s, o, e), [w EXCEPT ![o] = e])
    BY <2>1, ArrayReadySound, Zenon
  <2>3. [w EXCEPT ![o] = e] = arrValue'
    BY <1>4, <1>5
  <2> QED
    BY <2>2, <2>3, <1>5, ArrayStep, Zenon
<1>6. CASE Arr!Construct(o)
  <2>1. Arr!Becomes(s) /\ arrValue' = w
    BY <1>6 DEF Arr!Construct, Arr!Expect, s
  <2>2. ArrayIs(s, w)
    BY <1>3, ArrayReadySound, Zenon
  <2> HIDE DEF w
  <2> QED
    BY <2>1, <2>2, ArrayStep, Zenon
<1>7. ASSUME NEW n \in 0 .. MaxSize, Arr!ConstructSized(o, n) PROVE ArrayInv'
  <2>1. Arr!Becomes(Arr!resize(s, o, n)) /\ arrValue' = [arrValue EXCEPT ![o] = [k \in 1 .. n |-> 0]] /\ n \in Nat
    BY <1>7 DEF Arr!ConstructSized, Arr!Expect, s
  <2>2. PICK d \in Nat : ArrayReady(Arr!resize(s, o, n), [w EXCEPT ![o] = ArrayCut(w[o], n)], o, n, d, TRUE)
    <3> HIDE DEF w
    <3> QED
      BY <2>1, <1>3, ArrayResize, Zenon
  <2>3. ArrayCut(w[o], n) = [k \in 1 .. n |-> 0]
    <3>1. ArrayCut(<<>>, n) = [k \in 1 .. n |-> 0]
      BY <2>1 DEF ArrayCut
    <3> QED
      BY <3>1, <1>4
  <2>4. [w EXCEPT ![o] = ArrayCut(w[o], n)] = arrValue'
    BY <2>1, <2>3, <1>4
  <2>5. ArrayIs(Arr!resize(s, o, n), [w EXCEPT ![o] = ArrayCut(w[o], n)])
    BY <2>2, ArrayReadySound, Zenon
  <2> QED
    BY <2>1, <2>4, <2>5, ArrayStep, Zenon
<1>8. ASSUME NEW c \in Strings, Arr!ConstructString(o, c) PROVE ArrayInv'
  <2>1. c \in Seq(Values)
    BY ContainersAssumption
  <2> QED
    BY <2>1, <1>5, <1>8 DEF Arr!ConstructString, Arr!Expect, s
<1>9. ASSUME NEW p \in ArrayNames, Arr!ConstructCopy(o, p) PROVE ArrayInv'
  <2>1. arrObj[p] # Dead
    BY <1>9 DEF Arr!ConstructCopy, Arr!Live
  <2>2. Arr!Content(Arr!State, p) = arrValue[p] /\ arrValue[p] \in Seq(Values)
    BY <2>1, <1>1, <1>4, ArrayContent
  <2>3. Arr!Becomes(Arr!Assign(s, o, Arr!Content(Arr!State, p))) /\ arrValue' = [arrValue EXCEPT ![o] = arrValue[p]]
    BY <1>9 DEF Arr!ConstructCopy, Arr!Expect, s
  <2> QED
    BY <2>2, <2>3, <1>5, Zenon
<1> QED
  BY <1>6, <1>7, <1>8, <1>9

\* The array over external memory.
LEMMA ArrayViews ==
    ASSUME ArrayInv, NEW o \in ArrayNames, Arr!ConstructView(o)
    PROVE  ArrayInv'
<1> DEFINE r == [data |-> External, size |-> Len(Arr!ExternalCells), capacity |-> 0]
           e == arrMem[External]
           ob2 == [arrObj EXCEPT ![o] = r]
           w2 == [arrValue EXCEPT ![o] = e]
<1>1. Arr!State = ArrayState(arrObj, arrMem) /\ ArraySound(arrObj, arrMem, arrValue)
  BY ArrayCurrent
<1>2. /\ arrObj[o] = Dead /\ \A p \in ArrayNames : arrObj[p] # Dead => arrObj[p].data # External
      /\ Arr!Becomes(Arr!SetObject(Arr!State, o, r)) /\ arrValue' = w2
  BY DEF Arr!ConstructView, Arr!Live, Arr!Expect
<1>3. /\ arrMem \in ArrayMems /\ ArrayBorrowed(arrMem) /\ e \in Seq(Values) /\ Len(e) = Len(Arr!ExternalCells)
      /\ Len(Arr!ExternalCells) \in Nat
  <2>1. arrMem \in ArrayMems /\ ArrayBorrowed(arrMem) /\ e \in Seq(Values) /\ Len(e) = Len(Arr!ExternalCells)
    BY <1>1 DEF ArraySound, ArrayBorrowed
  <2> QED
    BY <2>1
<1>4. r \in ArrayRecords /\ r.data = External /\ r.size = Len(Arr!ExternalCells) /\ r.capacity = 0
  BY <1>3 DEF ArrayRecords
<1>5. r # Dead /\ r \in ArrayRecords \cup {Dead}
  BY <1>4, MarksAssumption DEF ArrayRecords
<1> HIDE DEF r
<1>6. ArrayHolds(arrMem, r, e)
  <2>1. e # Unused
    BY <1>3, MarksAssumption
  <2> QED
    BY <2>1, <1>3, <1>4, ContainersAssumption DEF ArrayHolds
<1>7. ArraySound(ob2, arrMem, w2)
  <2>1. \A p \in ArrayNames \ {o} : arrObj[p] # Dead /\ arrObj[p].data # Null => arrMem[arrObj[p].data] = arrMem[arrObj[p].data]
    OBVIOUS
  <2>2. \A p \in ArrayNames \ {o} : arrObj[p] # Dead /\ arrObj[p].data # Null => r.data # arrObj[p].data
    BY <1>2, <1>4
  <2>3. \A b \in HeapBlocks : arrMem[b] # Unused =>
            \/ r # Dead /\ r.data = b
            \/ \E p \in ArrayNames \ {o} : arrObj[p] # Dead /\ arrObj[p].data = b
    BY <1>1, <1>2 DEF ArraySound
  <2> HIDE DEF e
  <2> QED
    BY <2>1, <2>2, <2>3, <1>1, <1>3, <1>5, <1>6, ArrayUpdate, Zenon
<1>8. Arr!SetObject(ArrayState(arrObj, arrMem), o, r) = ArrayState(ob2, arrMem)
  BY ArrayStateObject
<1> HIDE DEF ob2, w2
<1>9. ArrayIs(ArrayState(ob2, arrMem), w2)
  BY <1>7, Zenon DEF ArrayIs
<1> QED
  BY <1>1, <1>2, <1>8, <1>9, ArrayStep, Zenon

\* Two arrays change when one is moved into another.
LEMMA ArrayMoveInto ==
    ASSUME NEW ob, NEW m, NEW w, NEW o \in ArrayNames, NEW p \in ArrayNames, o # p,
           ArraySound([ob EXCEPT ![o] = Dead], m, w), ob \in ArrayObjs, ob[p] # Dead
    PROVE  ArrayIs(Arr!MoveInto(ArrayState(ob, m), o, p), [w EXCEPT ![o] = w[p], ![p] = <<>>])
<1> DEFINE obD == [ob EXCEPT ![o] = Dead]
           ob1 == [ob EXCEPT ![o] = ob[p]]
           ob2 == [ob1 EXCEPT ![p] = Arr!Empty]
<1>1. obD[o] = Dead /\ obD[p] = ob[p] /\ obD[p] # Dead
  BY DEF ArrayObjs
<1>2. [[obD EXCEPT ![o] = obD[p]] EXCEPT ![p] = Arr!Empty] = ob2
  BY <1>1 DEF ArrayObjs
<1>3. ArraySound([[obD EXCEPT ![o] = obD[p]] EXCEPT ![p] = Arr!Empty], m, [w EXCEPT ![o] = w[p], ![p] = <<>>])
  <2> HIDE DEF obD
  <2>1. ArraySound(obD, m, w)
    BY DEF obD
  <2> QED
    BY <2>1, <1>1, ArrayMove
<1>4. Arr!MoveInto(ArrayState(ob, m), o, p) = ArrayState(ob2, m)
  <2>1. ArrayState(ob, m).obj[p] = ob[p]
    BY ArrayStateFields
  <2>2. Arr!SetObject(ArrayState(ob, m), o, ob[p]) = ArrayState(ob1, m)
    BY ArrayStateObject
  <2> HIDE DEF ob1
  <2>3. Arr!SetObject(ArrayState(ob1, m), p, Arr!Empty) = ArrayState(ob2, m)
    BY ArrayStateObject
  <2> QED
    BY <2>1, <2>2, <2>3, Zenon DEF Arr!MoveInto, Arr!Reset
<1> HIDE DEF ob2
<1> QED
  BY <1>2, <1>3, <1>4, Zenon DEF ArrayIs

\* operator delete on the block of an array, whose size may have been set to 0.
LEMMA ArrayDelete ==
    ASSUME NEW ob, NEW m, NEW d \in HeapBlocks, m[d] # Unused
    PROVE  Arr!Delete(ArrayState(ob, m), d) = ArrayState(ob, ArrayFreed(m, d))
<1>1. ArrayState(ob, m).mem = m /\ d # External
  BY ArrayStateFields, ContainersAssumption
<1>2. Arr!Delete(ArrayState(ob, m), d) = Arr!Store(ArrayState(ob, m), d, Unused)
  BY <1>1 DEF Arr!Delete
<1>3. Arr!Store(ArrayState(ob, m), d, Unused) = ArrayState(ob, [m EXCEPT ![d] = Unused])
  BY ArrayStateStore
<1> QED
  BY <1>2, <1>3, Zenon DEF ArrayFreed

LEMMA ArrayMoves ==
    ASSUME ArrayInv, NEW o \in ArrayNames, NEW p \in ArrayNames,
           \/ Arr!ConstructMove(o, p)
           \/ Arr!AssignMove(o, p) /\ (o = p \/ arrObj[o].data # External)
    PROVE  ArrayInv'
<1>1. Arr!State = ArrayState(arrObj, arrMem) /\ ArraySound(arrObj, arrMem, arrValue)
  BY ArrayCurrent
<1>2. arrObj \in ArrayObjs /\ arrValue \in [ArrayNames -> Seq(Values)]
  BY <1>1 DEF ArraySound
<1> DEFINE w2 == [arrValue EXCEPT ![o] = arrValue[p], ![p] = <<>>]
<1>3. CASE Arr!ConstructMove(o, p)
  <2>1. /\ arrObj[o] = Dead /\ arrObj[p] # Dead /\ o # p
        /\ Arr!Becomes(Arr!MoveInto(Arr!State, o, p)) /\ arrValue' = w2
    BY <1>3 DEF Arr!ConstructMove, Arr!Live
  <2>2. [arrObj EXCEPT ![o] = Dead] = arrObj
    BY <2>1, <1>2 DEF ArrayObjs
  <2>3. ArraySound([arrObj EXCEPT ![o] = Dead], arrMem, arrValue)
    BY <2>2, <1>1, Zenon
  <2>4. ArrayIs(Arr!MoveInto(ArrayState(arrObj, arrMem), o, p), w2)
    BY <2>1, <2>3, <1>2, ArrayMoveInto
  <2> HIDE DEF w2
  <2> QED
    BY <2>1, <2>4, <1>1, ArrayStep, Zenon
<1>4. CASE Arr!AssignMove(o, p) /\ o = p
  <2>1. UNCHANGED arrVars
    BY <1>4 DEF Arr!AssignMove, Arr!vars, arrVars
  <2> QED
    BY <2>1, ArrayStutter
<1>5. CASE Arr!AssignMove(o, p) /\ o # p /\ arrObj[o].data # External
  <2> DEFINE d == arrObj[o].data
             rid == IF d = Null THEN Arr!State ELSE Arr!Delete(Arr!clear(Arr!State, o), d)
             w1 == [arrValue EXCEPT ![o] = <<>>]
             q == ArrayFreed(arrMem, d)
  <2>1. /\ arrObj[o] # Dead /\ arrObj[p] # Dead /\ o # p /\ d # External
        /\ Arr!Becomes(Arr!MoveInto(rid, o, p)) /\ arrValue' = w2
    BY <1>5 DEF Arr!AssignMove, Arr!Live
  <2>2. ArraySound([arrObj EXCEPT ![o] = Dead], q, w1)
    BY <2>1, <1>1, ArrayKill
  <2>3. \E ob \in ArrayObjs : /\ rid = ArrayState(ob, q) /\ ob[p] # Dead
                              /\ [ob EXCEPT ![o] = Dead] = [arrObj EXCEPT ![o] = Dead]
    <3>1. CASE d = Null
      <4>1. q = arrMem
        BY <3>1, ContainersAssumption DEF ArrayFreed
      <4>2. rid = ArrayState(arrObj, q)
        BY <3>1, <4>1, <1>1
      <4> HIDE DEF rid, q
      <4> QED
        BY <4>2, <2>1, <1>2
    <3>2. CASE d # Null
      <4> DEFINE r == [arrObj[o] EXCEPT !.size = 0]
                 ob == [arrObj EXCEPT ![o] = r]
      <4>1. arrObj[o] \in ArrayRecords /\ d \in HeapBlocks /\ arrMem[d] # Unused
        BY <2>1, <3>2, <1>1, ArrayRecord DEF ArrayHolds
      <4>2. r \in ArrayRecords
        BY <4>1, ArraySized
      <4>3. Arr!SetSize(ArrayState(arrObj, arrMem), o, 0) = ArrayState(ob, arrMem)
        BY ArrayStateSized
      <4> HIDE DEF r
      <4>4. ob \in ArrayObjs /\ ob[p] # Dead /\ [ob EXCEPT ![o] = Dead] = [arrObj EXCEPT ![o] = Dead]
        BY <4>2, <2>1, <1>2 DEF ArrayObjs
      <4> HIDE DEF ob
      <4>5. Arr!Delete(ArrayState(ob, arrMem), d) = ArrayState(ob, q)
        BY <4>1, ArrayDelete
      <4>6. rid = Arr!Delete(Arr!SetSize(ArrayState(arrObj, arrMem), o, 0), d)
        BY <3>2, <1>1 DEF Arr!clear
      <4>7. rid = ArrayState(ob, q)
        <5> HIDE DEF rid, q, d
        <5> QED
          BY <4>3, <4>5, <4>6, Zenon
      <4> HIDE DEF rid, q
      <4> QED
        BY <4>4, <4>7
    <3> QED
      BY <3>1, <3>2
  <2>4. PICK ob \in ArrayObjs : /\ rid = ArrayState(ob, q) /\ ob[p] # Dead
                                /\ [ob EXCEPT ![o] = Dead] = [arrObj EXCEPT ![o] = Dead]
    BY <2>3
  <2> HIDE DEF rid, q
  <2>5. ArraySound([ob EXCEPT ![o] = Dead], q, w1)
    BY <2>2, <2>4, Zenon
  <2>6. ArrayIs(Arr!MoveInto(ArrayState(ob, q), o, p), [w1 EXCEPT ![o] = w1[p], ![p] = <<>>])
    <3> HIDE DEF w1
    <3> QED
      BY <2>1, <2>4, <2>5, ArrayMoveInto
  <2>7. [w1 EXCEPT ![o] = w1[p], ![p] = <<>>] = w2
    BY <2>1, <1>2
  <2> HIDE DEF w1, w2
  <2> QED
    BY <2>1, <2>4, <2>6, <2>7, ArrayStep, Zenon
<1> QED
  BY <1>3, <1>4, <1>5

LEMMA ArrayDestroys ==
    ASSUME ArrayInv, NEW o \in ArrayNames, Arr!Destroy(o)
    PROVE  ArrayInv'
<1> DEFINE d == arrObj[o].data
           r == [arrObj[o] EXCEPT !.size = 0]
           ob == [arrObj EXCEPT ![o] = r]
           q == ArrayFreed(arrMem, d)
           w2 == [arrValue EXCEPT ![o] = <<>>]
           s == ArrayState(ob, arrMem)
<1>1. Arr!State = ArrayState(arrObj, arrMem) /\ ArraySound(arrObj, arrMem, arrValue) /\ arrObj \in ArrayObjs
  BY ArrayCurrent DEF ArraySound
<1>2. /\ arrObj[o] # Dead /\ arrValue' = w2
      /\ Arr!Becomes(Arr!SetObject(Arr!Release(Arr!clear(Arr!State, o), o), o, Dead))
  BY DEF Arr!Destroy, Arr!Live, Arr!Expect
<1>3. /\ arrObj[o] \in ArrayRecords /\ d \in HeapBlocks \cup {External, Null} /\ arrObj[o].capacity \in Nat
      /\ (d \in HeapBlocks <=> d # Null /\ arrObj[o].capacity > 0)
      /\ (d \in HeapBlocks => arrMem[d] # Unused)
  BY <1>1, <1>2, ArrayRecord, ContainersAssumption DEF ArrayHolds
<1>4. Arr!SetSize(ArrayState(arrObj, arrMem), o, 0) = s
  BY ArrayStateSized
<1>5. r.data = d /\ r.capacity = arrObj[o].capacity
  BY <1>3, ArraySized
<1> HIDE DEF r
<1>6. ob[o] = r
  BY <1>1 DEF ArrayObjs
<1>7. Arr!Release(s, o) = ArrayState(ob, q)
  <2>1. s.obj[o].data = d /\ s.obj[o].capacity = arrObj[o].capacity
    <3> HIDE DEF ob
    <3>1. s.obj = ob
      BY ArrayStateFields
    <3> QED
      BY <3>1, <1>5, <1>6
  <2>2. CASE d \in HeapBlocks
    <3>1. Arr!Release(s, o) = Arr!Delete(s, d)
      BY <2>1, <2>2, <1>3 DEF Arr!Release
    <3> HIDE DEF ob, q
    <3> QED
      BY <3>1, <2>2, <1>3, ArrayDelete DEF q
  <2>3. CASE d \notin HeapBlocks
    <3>1. Arr!Release(s, o) = s
      BY <2>1, <2>3, <1>3 DEF Arr!Release
    <3>2. q = arrMem
      BY <2>3 DEF ArrayFreed
    <3> HIDE DEF q, ob
    <3> QED
      BY <3>1, <3>2, Zenon
  <2> QED
    BY <2>2, <2>3
<1>8. Arr!SetObject(ArrayState(ob, q), o, Dead) = ArrayState([ob EXCEPT ![o] = Dead], q)
  <2> HIDE DEF ob, q
  <2> QED
    BY ArrayStateObject
<1>9. [ob EXCEPT ![o] = Dead] = [arrObj EXCEPT ![o] = Dead]
  BY <1>1 DEF ArrayObjs
<1>10. ArraySound([arrObj EXCEPT ![o] = Dead], q, w2)
  BY <1>1, <1>2, ArrayKill
<1> HIDE DEF ob, q, w2
<1>11. ArrayIs(ArrayState([arrObj EXCEPT ![o] = Dead], q), w2)
  BY <1>10, Zenon DEF ArrayIs
<1>12. Arr!Release(Arr!clear(Arr!State, o), o) = ArrayState(ob, q)
  <2>1. Arr!clear(Arr!State, o) = Arr!SetSize(ArrayState(arrObj, arrMem), o, 0)
    BY <1>1 DEF Arr!clear
  <2> HIDE DEF s
  <2> QED
    BY <2>1, <1>4, <1>7, Zenon
<1> QED
  BY <1>2, <1>8, <1>9, <1>11, <1>12, ArrayStep, Zenon

\* The calls that may enlarge an array, on one that is not over external memory.
LEMMA ArrayEnlarges ==
    ASSUME ArrayInv, NEW o \in ArrayNames, arrObj[o].data # External,
           \/ \E p \in ArrayNames : Arr!AssignCopy(o, p)
           \/ \E c \in Strings : Arr!AssignString(o, c) \/ Arr!PushBackString(o, c)
           \/ \E n \in 0 .. MaxSize : Arr!Reserve(o, n) \/ Arr!Resize(o, n)
           \/ \E v \in Values : Arr!PushBack(o, v)
    PROVE  ArrayInv'
<1> DEFINE s == Arr!State
           n == arrObj[o].size
<1>1. s = ArrayState(arrObj, arrMem) /\ ArraySound(arrObj, arrMem, arrValue)
  BY ArrayCurrent
<1>2. arrObj[o] # Dead /\ arrObj[o].data # External
  BY DEF Arr!AssignCopy, Arr!AssignString, Arr!PushBackString, Arr!Reserve, Arr!Resize, Arr!PushBack, Arr!Live
<1>3. PICK c0 : ArrayReady(s, arrValue, o, n, c0, TRUE)
  BY <1>1, <1>2, ArrayOfOwn
<1> HIDE DEF s, n
<1>4. /\ n \in Nat /\ arrValue[o] \in Seq(Values) /\ Len(arrValue[o]) = n
      /\ arrValue \in [ArrayNames -> Seq(Values)]
  BY <1>3, ArrayReadyIs
<1>5. ASSUME NEW e \in Seq(Values), Arr!Becomes(Arr!Assign(Arr!clear(s, o), o, e)), arrValue' = [arrValue EXCEPT ![o] = e]
      PROVE  ArrayInv'
  <2> DEFINE t == Arr!SetSize(s, o, 0)
             w == [arrValue EXCEPT ![o] = SubSeq(arrValue[o], 1, 0)]
  <2>1. 0 \in Nat /\ 0 <= n
    BY <1>4
  <2>2. ArrayReady(t, w, o, 0, c0, TRUE)
    BY <2>1, <1>3, ArrayShrink, Zenon
  <2>3. [w EXCEPT ![o] = e] = arrValue'
    BY <1>4, <1>5
  <2> HIDE DEF w, t
  <2>4. PICK d \in Nat : ArrayReady(Arr!Assign(t, o, e), [w EXCEPT ![o] = e], o, Len(e), d, TRUE)
    BY <2>2, ArrayAssign, Zenon
  <2>5. ArrayIs(Arr!Assign(t, o, e), [w EXCEPT ![o] = e])
    BY <2>4, ArrayReadySound, Zenon
  <2>6. Arr!Becomes(Arr!Assign(t, o, e))
    BY <1>5 DEF Arr!clear, t
  <2> QED
    BY <2>3, <2>5, <2>6, ArrayStep, Zenon
<1>6. ASSUME NEW p \in ArrayNames, Arr!AssignCopy(o, p) PROVE ArrayInv'
  <2>1. arrObj[p] # Dead /\ arrValue' = [arrValue EXCEPT ![o] = arrValue[p]]
    BY <1>6 DEF Arr!AssignCopy, Arr!Live, Arr!Expect
  <2>2. CASE o = p
    <3>1. arrValue' = arrValue
      BY <2>1, <2>2, <1>4
    <3>2. Arr!Becomes(s)
      BY <2>2, <1>6 DEF Arr!AssignCopy, s
    <3>3. ArrayIs(s, arrValue)
      BY <1>3, ArrayReadySound, Zenon
    <3> QED
      BY <3>1, <3>2, <3>3, ArrayStep, Zenon
  <2>3. CASE o # p
    <3>1. Arr!Content(s, p) = arrValue[p] /\ arrValue[p] \in Seq(Values)
      BY <2>1, <1>1, <1>4, ArrayContent
    <3>2. Arr!Becomes(Arr!Assign(Arr!clear(s, o), o, Arr!Content(s, p)))
      BY <2>3, <1>6 DEF Arr!AssignCopy, s
    <3> QED
      BY <3>1, <3>2, <2>1, <1>5, Zenon
  <2> QED
    BY <2>2, <2>3
<1>7. ASSUME NEW c \in Strings, Arr!AssignString(o, c) PROVE ArrayInv'
  <2>1. c \in Seq(Values)
    BY ContainersAssumption
  <2> QED
    BY <2>1, <1>5, <1>7 DEF Arr!AssignString, Arr!Expect, s
<1>8. ASSUME NEW c \in Strings, Arr!PushBackString(o, c) PROVE ArrayInv'
  <2> DEFINE j == n + Len(c)
             t == Arr!resize(s, o, j)
             x == arrValue[o] \o c
             w == [arrValue EXCEPT ![o] = ArrayCut(arrValue[o], j)]
  <2>1. c \in Seq(Values)
    BY ContainersAssumption
  <2>2. Arr!Becomes(Arr!Put(t, o, n + 1, c)) /\ arrValue' = [arrValue EXCEPT ![o] = x]
    BY <1>8 DEF Arr!PushBackString, Arr!Expect, s, n
  <2>3. j \in Nat /\ Len(c) \in Nat /\ x \in Seq(Values) /\ Len(x) = j
    <3>1. Len(c) \in Nat /\ x \in Seq(Values) /\ Len(x) = Len(arrValue[o]) + Len(c)
      BY <2>1, <1>4, SeqJoined
    <3> HIDE DEF x
    <3> QED
      BY <3>1, <1>4
  <2>4. PICK d \in Nat : ArrayReady(t, w, o, j, d, TRUE)
    <3> HIDE DEF j
    <3> QED
      BY <2>3, <1>3, ArrayResize, Zenon
  <2>5. w[o] = ArrayCut(arrValue[o], j) /\ [w EXCEPT ![o] = x] = arrValue'
    <3> HIDE DEF x, j
    <3> QED
      BY <2>2, <1>4
  <2>6. \A k \in 1 .. j : x[k] = IF n + 1 <= k /\ k <= (n + 1) + Len(c) - 1 THEN c[k - (n + 1) + 1] ELSE w[o][k]
    <3>1. \A k \in 1 .. n : w[o][k] = arrValue[o][k]
      <4> HIDE DEF w
      <4> QED
        BY <2>3, <2>5, <1>4 DEF ArrayCut
    <3>2. ASSUME NEW k \in 1 .. j
          PROVE  x[k] = IF n + 1 <= k /\ k <= (n + 1) + Len(c) - 1 THEN c[k - (n + 1) + 1] ELSE w[o][k]
      <4>1. CASE k <= n
        <5>1. x[k] = arrValue[o][k] /\ ~(n + 1 <= k) /\ k \in 1 .. n
          BY <4>1, <2>1, <2>3, <1>4
        <5> HIDE DEF x, w
        <5> QED
          BY <5>1, <3>1
      <4>2. CASE ~(k <= n)
        <5>1. x[k] = c[k - n] /\ n + 1 <= k /\ k <= (n + 1) + Len(c) - 1 /\ k - (n + 1) + 1 = k - n
          BY <4>2, <2>1, <2>3, <1>4
        <5> HIDE DEF x, w
        <5> QED
          BY <5>1
      <4> QED
        BY <4>1, <4>2
    <3> QED
      BY <3>2
  <2>7. n + 1 \in Nat \ {0} /\ (n + 1) + Len(c) - 1 <= j
    BY <2>3, <1>4
  <2> HIDE DEF w, x, t, j
  <2>8. ArrayReady(Arr!Put(t, o, n + 1, c), [w EXCEPT ![o] = x], o, j, d, TRUE)
    BY <2>1, <2>3, <2>4, <2>6, <2>7, ArrayPut, Zenon
  <2>9. ArrayIs(Arr!Put(t, o, n + 1, c), [w EXCEPT ![o] = x])
    BY <2>8, ArrayReadySound, Zenon
  <2> QED
    BY <2>2, <2>5, <2>9, ArrayStep, Zenon
<1>9. ASSUME NEW j \in 0 .. MaxSize, Arr!Reserve(o, j) PROVE ArrayInv'
  <2>1. Arr!Becomes(Arr!reserve(s, o, j)) /\ arrValue' = arrValue /\ j \in Nat
    BY <1>9 DEF Arr!Reserve, s
  <2>2. PICK d \in Nat : ArrayReady(Arr!reserve(s, o, j), arrValue, o, n, d, TRUE)
    BY <2>1, <1>3, ArrayReserve, Zenon
  <2>3. ArrayIs(Arr!reserve(s, o, j), arrValue)
    BY <2>2, ArrayReadySound, Zenon
  <2> QED
    BY <2>1, <2>3, ArrayStep, Zenon
<1>10. ASSUME NEW j \in 0 .. MaxSize, Arr!Resize(o, j) PROVE ArrayInv'
  <2>1. /\ Arr!Becomes(Arr!resize(s, o, j)) /\ j \in Nat
        /\ arrValue' = [arrValue EXCEPT ![o] = ArrayCut(arrValue[o], j)]
    BY <1>10 DEF Arr!Resize, Arr!Expect, ArrayCut, s
  <2>2. PICK d \in Nat : ArrayReady(Arr!resize(s, o, j), [arrValue EXCEPT ![o] = ArrayCut(arrValue[o], j)], o, j, d, TRUE)
    BY <2>1, <1>3, ArrayResize, Zenon
  <2>3. ArrayIs(Arr!resize(s, o, j), [arrValue EXCEPT ![o] = ArrayCut(arrValue[o], j)])
    BY <2>2, ArrayReadySound, Zenon
  <2> QED
    BY <2>1, <2>3, ArrayStep, Zenon
<1>11. ASSUME NEW v \in Values, Arr!PushBack(o, v) PROVE ArrayInv'
  <2>1. Arr!Becomes(Arr!push_back(s, o, v)) /\ arrValue' = [arrValue EXCEPT ![o] = Append(arrValue[o], v)]
    BY <1>11 DEF Arr!PushBack, Arr!Expect, s
  <2>2. PICK d \in Nat :
          ArrayReady(Arr!push_back(s, o, v), [arrValue EXCEPT ![o] = Append(arrValue[o], v)], o, n + 1, d, TRUE)
    BY <1>3, ArrayPushBack, Zenon
  <2>3. ArrayIs(Arr!push_back(s, o, v), [arrValue EXCEPT ![o] = Append(arrValue[o], v)])
    BY <2>2, ArrayReadySound, Zenon
  <2> QED
    BY <2>1, <2>3, ArrayStep, Zenon
<1> QED
  BY <1>6, <1>7, <1>8, <1>9, <1>10, <1>11

\* The calls that never enlarge an array, which may be over external memory.
LEMMA ArrayKeepsRoom ==
    ASSUME ArrayInv, NEW o \in ArrayNames,
           \/ Arr!PopBack(o) \/ Arr!Clear(o)
           \/ \E i \in 1 .. MaxSize, v \in Values : Arr!SetElement(o, i, v)
    PROVE  ArrayInv'
<1> DEFINE s == Arr!State
           n == arrObj[o].size
           own == arrObj[o].data # External
<1>1. s = ArrayState(arrObj, arrMem) /\ ArraySound(arrObj, arrMem, arrValue)
  BY ArrayCurrent
<1>2. arrObj[o] # Dead
  BY DEF Arr!PopBack, Arr!Clear, Arr!SetElement, Arr!Live
<1>3. PICK c : ArrayReady(s, arrValue, o, n, c, own)
  BY <1>1, <1>2, ArrayOf
<1> HIDE DEF own
<1> HIDE DEF s, n
<1>4. /\ n \in Nat /\ arrValue[o] \in Seq(Values) /\ Len(arrValue[o]) = n
      /\ arrValue \in [ArrayNames -> Seq(Values)]
  BY <1>3, ArrayReadyIs
<1>5. ASSUME NEW j \in Nat, j <= n, Arr!Becomes(Arr!SetSize(s, o, j)),
             arrValue' = [arrValue EXCEPT ![o] = SubSeq(arrValue[o], 1, j)]
      PROVE  ArrayInv'
  <2>1. ArrayReady(Arr!SetSize(s, o, j), [arrValue EXCEPT ![o] = SubSeq(arrValue[o], 1, j)], o, j, c, own)
    BY <1>3, <1>5, ArrayShrink, Zenon
  <2>2. ArrayIs(Arr!SetSize(s, o, j), [arrValue EXCEPT ![o] = SubSeq(arrValue[o], 1, j)])
    BY <2>1, ArrayReadySound, Zenon
  <2> QED
    BY <2>2, <1>5, ArrayStep, Zenon
<1>6. CASE Arr!PopBack(o) /\ n = 0
  <2>1. UNCHANGED arrVars
    BY <1>6 DEF Arr!PopBack, Arr!vars, arrVars, n
  <2> QED
    BY <2>1, ArrayStutter
<1>7. CASE Arr!PopBack(o) /\ n # 0
  <2>1. /\ Arr!Becomes(Arr!SetSize(s, o, n - 1))
        /\ arrValue' = [arrValue EXCEPT ![o] = SubSeq(arrValue[o], 1, n - 1)]
    BY <1>4, <1>7 DEF Arr!PopBack, Arr!Expect, s, n
  <2>2. n - 1 \in Nat /\ n - 1 <= n
    BY <1>4, <1>7
  <2> QED
    BY <2>1, <2>2, <1>5, Zenon
<1>8. CASE Arr!Clear(o)
  <2>1. Arr!Becomes(Arr!SetSize(s, o, 0)) /\ arrValue' = [arrValue EXCEPT ![o] = <<>>]
    BY <1>8 DEF Arr!Clear, Arr!clear, Arr!Expect, s
  <2>2. SubSeq(arrValue[o], 1, 0) = <<>> /\ 0 \in Nat /\ 0 <= n
    BY <1>4
  <2> QED
    BY <2>1, <2>2, <1>5, Zenon
<1>9. ASSUME NEW i \in 1 .. MaxSize, NEW v \in Values, Arr!SetElement(o, i, v) PROVE ArrayInv'
  <2> DEFINE x == [arrValue[o] EXCEPT ![i] = v]
             e == <<v>>
  <2>1. Arr!Becomes(Arr!Put(s, o, i, e)) /\ arrValue' = [arrValue EXCEPT ![o] = x] /\ i <= n /\ i \in Nat \ {0}
    BY <1>9 DEF Arr!SetElement, Arr!Expect, s, n
  <2>2. /\ x \in Seq(Values) /\ Len(x) = n /\ e \in Seq(Values) /\ i + Len(e) - 1 <= n
        /\ \A k \in 1 .. n : x[k] = IF i <= k /\ k <= i + Len(e) - 1 THEN e[k - i + 1] ELSE arrValue[o][k]
    <3>1. e \in Seq(Values) /\ Len(e) = 1 /\ e[1] = v
      OBVIOUS
    <3>2. x \in Seq(Values) /\ Len(x) = n /\ i \in 1 .. n /\ DOMAIN arrValue[o] = 1 .. n
      BY <2>1, <1>4
    <3>3. \A k \in 1 .. n : x[k] = IF k = i THEN v ELSE arrValue[o][k]
      BY <3>2, <1>4
    <3> HIDE DEF x, e
    <3>4. \A k \in 1 .. n : (i <= k /\ k <= i + Len(e) - 1) <=> k = i
      BY <3>1, <2>1, <1>4
    <3>5. ASSUME NEW k \in 1 .. n
          PROVE  x[k] = IF i <= k /\ k <= i + Len(e) - 1 THEN e[k - i + 1] ELSE arrValue[o][k]
      <4>1. CASE k = i
        <5>1. k - i + 1 = 1
          BY <4>1, <2>1
        <5> QED
          BY <5>1, <4>1, <3>1, <3>3, <3>4
      <4>2. CASE k # i
        BY <4>2, <3>3, <3>4
      <4> QED
        BY <4>1, <4>2
    <3> QED
      BY <3>1, <3>2, <3>5, <2>1
  <2> HIDE DEF x, e
  <2>3. ArrayReady(Arr!Put(s, o, i, e), [arrValue EXCEPT ![o] = x], o, n, c, own)
    BY <2>1, <2>2, <1>3, ArrayPut, Zenon
  <2>4. ArrayIs(Arr!Put(s, o, i, e), [arrValue EXCEPT ![o] = x])
    BY <2>3, ArrayReadySound, Zenon
  <2> QED
    BY <2>1, <2>4, ArrayStep, Zenon
<1> QED
  BY <1>6, <1>7, <1>8, <1>9

LEMMA ArrayInit == Arr!Init => ArrayInv
<1> SUFFICES ASSUME Arr!Init PROVE ArrayInv
  OBVIOUS
<1>1. Arr!ExternalCells \in Seq(Values) /\ Arr!ExternalCells \in Seq(Values \cup {Unset})
  BY ContainersAssumption DEF Arr!ExternalCells
<1>2. arrMem \in ArrayMems /\ arrMem[External] = Arr!ExternalCells /\ \A b \in HeapBlocks : arrMem[b] = Unused
  BY <1>1, ContainersAssumption DEF Arr!Init, ArrayMems
<1>3. arrObj \in ArrayObjs /\ arrValue \in [ArrayNames -> Seq(Values)] /\ \A o \in ArrayNames : arrObj[o] = Dead
  BY DEF Arr!Init, ArrayObjs
<1>4. arrFault = {}
  BY DEF Arr!Init
<1> QED
  BY <1>1, <1>2, <1>3, <1>4 DEF ArrayInv, ArraySound, ArrayBorrowed

\* A state with any faults, and what the members do to its three parts.
Trio(ob, m, f) == [obj |-> ob, mem |-> m, fault |-> f]

LEMMA TrioFields ==
    ASSUME NEW ob, NEW m, NEW f
    PROVE  Trio(ob, m, f).obj = ob /\ Trio(ob, m, f).mem = m /\ Trio(ob, m, f).fault = f
BY DEF Trio

LEMMA TrioObject ==
    ASSUME NEW ob, NEW m, NEW f, NEW o, NEW x
    PROVE  Arr!SetObject(Trio(ob, m, f), o, x) = Trio([ob EXCEPT ![o] = x], m, f)
BY DEF Trio, Arr!SetObject

LEMMA TrioSized ==
    ASSUME NEW ob, NEW m, NEW f, NEW o, NEW n
    PROVE  Arr!SetSize(Trio(ob, m, f), o, n) = Trio([ob EXCEPT ![o] = [ob[o] EXCEPT !.size = n]], m, f)
BY DEF Trio, Arr!SetSize

LEMMA TrioStore ==
    ASSUME NEW ob, NEW m, NEW f, NEW b, NEW y
    PROVE  Arr!Store(Trio(ob, m, f), b, y) = Trio(ob, [m EXCEPT ![b] = y], f)
BY DEF Trio, Arr!Store

\* What can happen to memory that must not.
Deletes == "deletes external memory"
DeletesTwice == "deletes twice"
OutOfBounds == "writes out of bounds"

Fault(s, x) == [s EXCEPT !.fault = @ \cup {x}]

LEMMA TrioFault ==
    ASSUME NEW ob, NEW m, NEW f, NEW x
    PROVE  Fault(Trio(ob, m, f), x) = Trio(ob, m, f \cup {x})
<1> DEFINE s == Trio(ob, m, f)
           g == s.fault \cup {x}
<1>1. Fault(s, x) = [s EXCEPT !.fault = g]
  BY DEF Fault
<1>2. g = f \cup {x}
  BY DEF Trio
<1> HIDE DEF g
<1>3. [s EXCEPT !.fault = g] = Trio(ob, m, g)
  BY DEF Trio
<1> QED
  BY <1>1, <1>2, <1>3

\* t differs from an array state in its memory and in more faults, if at all.
Harmed(t, ob, f) == \E m, g : t = Trio(ob, m, g) /\ f \subseteq g
Borrowed(t, ob) == \E m, g : t = Trio(ob, m, g) /\ Deletes \in g

LEMMA TrioDelete ==
    ASSUME NEW ob, NEW m, NEW f
    PROVE  Borrowed(Arr!Delete(Trio(ob, m, f), External), ob)
<1>1. Arr!Delete(Trio(ob, m, f), External) = Fault(Trio(ob, m, f), Deletes)
  BY DEF Arr!Delete, Fault, Deletes
<1>2. Fault(Trio(ob, m, f), Deletes) = Trio(ob, m, f \cup {Deletes})
  BY TrioFault
<1>3. Deletes \in f \cup {Deletes}
  OBVIOUS
<1> QED
  BY <1>1, <1>2, <1>3, Zenon DEF Borrowed

LEMMA TrioPut ==
    ASSUME NEW ob, NEW m, NEW f, NEW o, NEW i, NEW e
    PROVE  Harmed(Arr!Put(Trio(ob, m, f), o, i, e), ob, f)
<1> DEFINE s == Trio(ob, m, f)
           b == s.obj[o].data
           out == i + Len(e) - 1 > Len(Arr!Cells(s, b))
           y == [k \in DOMAIN s.mem[b] |->
                   IF i <= k /\ k <= i + Len(e) - 1 THEN e[k - i + 1] ELSE s.mem[b][k]]
           f1 == f \cup {OutOfBounds}
           m1 == [m EXCEPT ![b] = y]
<1>1. Arr!Put(s, o, i, e) = IF e = <<>> THEN s
                            ELSE IF out THEN Fault(s, OutOfBounds) ELSE Arr!Store(s, b, y)
  BY Zenon DEF Arr!Put, Fault, OutOfBounds
<1>2. f \subseteq f1 /\ f \subseteq f
  OBVIOUS
<1> HIDE DEF b, out, y
<1>3. Fault(s, OutOfBounds) = Trio(ob, m, f1)
  BY TrioFault
<1>4. Arr!Store(s, b, y) = Trio(ob, m1, f)
  BY TrioStore
<1>5. Arr!Put(s, o, i, e) \in {Trio(ob, m, f), Trio(ob, m, f1), Trio(ob, m1, f)}
  BY <1>1, <1>3, <1>4
<1> HIDE DEF f1, m1, s
<1>6. \/ Arr!Put(s, o, i, e) = Trio(ob, m, f) \/ Arr!Put(s, o, i, e) = Trio(ob, m, f1)
      \/ Arr!Put(s, o, i, e) = Trio(ob, m1, f)
  BY <1>5
<1> QED
  BY <1>2, <1>6, Zenon DEF s, Harmed

\* In t the array o, which was over external memory, has taken other memory in its
\* place, and the external memory has been deleted.
ViewTaken(t, o) ==
    \E ob, m, f : /\ t = Trio(ob, m, f) /\ Deletes \in f
                  /\ o \in DOMAIN ob /\ ob[o] \in ArrayRecords /\ ob[o].data # External

LEMMA ViewGrows ==
    ASSUME NEW s, NEW w, NEW o \in ArrayNames, NEW n, NEW c, ArrayReady(s, w, o, n, c, FALSE), NEW cap \in Nat
    PROVE  ViewTaken(Arr!grow(s, o, cap), o)
<1>1. PICK ob, m : /\ s = ArrayState(ob, m) /\ ArraySound(ob, m, w)
                   /\ ob[o] # Dead /\ ob[o].data = External /\ ob[o].size = n
  BY DEF ArrayReady
<1>2. n \in Nat /\ ob \in ArrayObjs /\ External # Null
  BY <1>1, ArrayRecord, ContainersAssumption DEF ArraySound
<1> DEFINE b == Arr!FreeBlock(s)
           y == [k \in 1 .. cap |-> IF k <= n THEN Arr!Element(Arr!Cells(s, External), k) ELSE Unset]
           made == Arr!Store(s, b, y)
           moved == IF n > cap THEN [made EXCEPT !.fault = @ \cup {"writes out of bounds"}] ELSE made
           rid == Arr!Delete(moved, External)
           r == [data |-> b, size |-> n, capacity |-> cap]
<1>3. Arr!grow(s, o, cap) = Arr!SetObject(rid, o, r)
  <2>1. s.obj[o] = ob[o]
    BY <1>1, ArrayStateFields
  <2> QED
    BY <2>1, <1>1, <1>2, Zenon DEF Arr!grow
<1>4. b \in HeapBlocks
  BY <1>1, ArrayFreeBlock
<1>5. r \in ArrayRecords /\ r.data # External
  BY <1>1, <1>2, <1>4, ContainersAssumption DEF ArrayRecords
<1>6. s = Trio(ob, m, {})
  BY <1>1 DEF ArrayState, Trio
<1> HIDE DEF b, r, y
<1>7. made = Trio(ob, [m EXCEPT ![b] = y], {})
  <2>1. Arr!Store(Trio(ob, m, {}), b, y) = Trio(ob, [m EXCEPT ![b] = y], {})
    BY TrioStore
  <2> QED
    BY <2>1, <1>6, Zenon
<1> HIDE DEF made
<1>8. \E m1, f1 : moved = Trio(ob, m1, f1)
  <2>1. Fault(Trio(ob, [m EXCEPT ![b] = y], {}), OutOfBounds)
          = Trio(ob, [m EXCEPT ![b] = y], {} \cup {OutOfBounds})
    BY TrioFault
  <2>2. moved = IF n > cap THEN Fault(made, OutOfBounds) ELSE made
    BY Zenon DEF Fault, OutOfBounds
  <2> QED
    BY <2>1, <2>2, <1>7, Zenon
<1> HIDE DEF moved
<1>9. PICK m2, f2 : rid = Trio(ob, m2, f2) /\ Deletes \in f2
  <2>1. PICK m1, f1 : moved = Trio(ob, m1, f1)
    BY <1>8
  <2>2. Borrowed(Arr!Delete(Trio(ob, m1, f1), External), ob)
    BY TrioDelete
  <2>3. Borrowed(rid, ob)
    BY <2>1, <2>2, Zenon
  <2> HIDE DEF rid
  <2> QED
    BY <2>3 DEF Borrowed
<1> HIDE DEF rid
<1>10. Arr!SetObject(rid, o, r) = Trio([ob EXCEPT ![o] = r], m2, f2)
  <2>1. Arr!SetObject(Trio(ob, m2, f2), o, r) = Trio([ob EXCEPT ![o] = r], m2, f2)
    BY TrioObject
  <2> QED
    BY <2>1, <1>9, Zenon
<1>11. o \in DOMAIN [ob EXCEPT ![o] = r] /\ [ob EXCEPT ![o] = r][o] = r
  BY <1>2, <1>5 DEF ArrayObjs
<1> QED
  BY <1>3, <1>5, <1>9, <1>10, <1>11 DEF ViewTaken

LEMMA ViewKeeps ==
    ASSUME NEW t, NEW o, ViewTaken(t, o)
    PROVE  /\ \A i, e : ViewTaken(Arr!Put(t, o, i, e), o)
           /\ \A n \in Nat : ViewTaken(Arr!SetSize(t, o, n), o)
<1>1. PICK ob, m, f : /\ t = Trio(ob, m, f) /\ Deletes \in f
                      /\ o \in DOMAIN ob /\ ob[o] \in ArrayRecords /\ ob[o].data # External
  BY DEF ViewTaken
<1>2. ASSUME NEW i, NEW e PROVE ViewTaken(Arr!Put(t, o, i, e), o)
  <2>1. PICK m2, f2 : Arr!Put(t, o, i, e) = Trio(ob, m2, f2) /\ f \subseteq f2
    <3>1. Harmed(Arr!Put(Trio(ob, m, f), o, i, e), ob, f)
      BY TrioPut
    <3>2. Harmed(Arr!Put(t, o, i, e), ob, f)
      BY <3>1, <1>1, Zenon
    <3> QED
      BY <3>2, Zenon DEF Harmed
  <2> QED
    BY <2>1, <1>1 DEF ViewTaken
<1>3. ASSUME NEW n \in Nat PROVE ViewTaken(Arr!SetSize(t, o, n), o)
  <2> DEFINE r == [ob[o] EXCEPT !.size = n]
  <2>1. Arr!SetSize(t, o, n) = Trio([ob EXCEPT ![o] = r], m, f)
    <3>1. Arr!SetSize(Trio(ob, m, f), o, n) = Trio([ob EXCEPT ![o] = r], m, f)
      BY TrioSized
    <3> QED
      BY <3>1, <1>1, Zenon
  <2>2. r \in ArrayRecords /\ r.data # External
    BY <1>1, ArraySized
  <2> HIDE DEF r
  <2>3. o \in DOMAIN [ob EXCEPT ![o] = r] /\ [ob EXCEPT ![o] = r][o] = r
    BY <1>1
  <2> QED
    BY <2>1, <2>2, <2>3, <1>1 DEF ViewTaken
<1> QED
  BY <1>2, <1>3

\* resize and Assign of a view: to nothing, or into other memory.
LEMMA ViewReady ==
    ASSUME NEW s, NEW w, NEW o \in ArrayNames, NEW n, NEW c, ArrayReady(s, w, o, n, c, FALSE)
    PROVE  s.obj[o].capacity = 0 /\ s.obj[o].size = n /\ n \in Nat
<1>1. PICK ob, m : /\ s = ArrayState(ob, m) /\ ArraySound(ob, m, w)
                   /\ ob[o] # Dead /\ ob[o].data = External /\ ob[o].size = n
  BY DEF ArrayReady
<1> QED
  BY <1>1, ArrayRecord, ArrayStateFields DEF ArrayHolds

LEMMA ViewResizes ==
    ASSUME NEW s, NEW w, NEW o \in ArrayNames, NEW n, NEW c, ArrayReady(s, w, o, n, c, FALSE), NEW j \in Nat
    PROVE  /\ j > 0 => ViewTaken(Arr!resize(s, o, j), o)
           /\ j = 0 => Arr!resize(s, o, j) = Arr!SetSize(s, o, 0)
<1>1. s.obj[o].capacity = 0 /\ s.obj[o].size = n /\ n \in Nat
  BY ViewReady
<1>2. CASE j > 0
  <2>1. Arr!reserve(s, o, j) = Arr!grow(s, o, j)
    BY <1>1, <1>2 DEF Arr!reserve
  <2> DEFINE t == Arr!grow(s, o, j)
  <2>2. ViewTaken(t, o)
    BY ViewGrows
  <2> HIDE DEF t
  <2>3. ViewTaken(Arr!Fresh(t, o, j), o)
    BY <2>2, ViewKeeps DEF Arr!Fresh
  <2>4. ViewTaken(Arr!SetSize(Arr!Fresh(t, o, j), o, j), o)
    <3> DEFINE u == Arr!Fresh(t, o, j)
    <3> HIDE DEF u
    <3>1. ViewTaken(u, o)
      BY <2>3 DEF u
    <3>2. ViewTaken(Arr!SetSize(u, o, j), o)
      BY <3>1, ViewKeeps
    <3> QED
      BY <3>2 DEF u
  <2> QED
    BY <1>2, <2>1, <2>4 DEF Arr!resize, t
<1>3. CASE j = 0
  BY <1>1, <1>3 DEF Arr!resize, Arr!reserve, Arr!Fresh
<1> QED
  BY <1>2, <1>3

LEMMA ViewAssigns ==
    ASSUME NEW s, NEW w, NEW o \in ArrayNames, NEW n, NEW c, ArrayReady(s, w, o, n, c, FALSE),
           NEW e \in Seq(Values)
    PROVE  /\ e # <<>> => ViewTaken(Arr!Assign(s, o, e), o)
           /\ e = <<>> => Arr!Assign(s, o, e) = Arr!SetSize(s, o, 0)
<1>1. Len(e) \in Nat /\ (e # <<>> => Len(e) > 0) /\ (e = <<>> => Len(e) = 0)
  OBVIOUS
<1>2. CASE e # <<>>
  <2> DEFINE t == Arr!resize(s, o, Len(e))
  <2>1. ViewTaken(t, o)
    BY <1>1, <1>2, ViewResizes
  <2> HIDE DEF t
  <2>2. ViewTaken(Arr!Put(t, o, 1, e), o)
    BY <2>1, ViewKeeps
  <2> QED
    BY <1>2, <2>2 DEF Arr!Assign, t
<1>3. CASE e = <<>>
  <2>1. Arr!resize(s, o, Len(e)) = Arr!SetSize(s, o, 0)
    BY <1>1, <1>3, ViewResizes
  <2> QED
    BY <2>1, <1>3 DEF Arr!Assign, Arr!Put
<1> QED
  BY <1>2, <1>3

\* The array o over external memory has taken other memory in its place.
TakesOver(o) ==
    /\ arrObj[o] # Dead /\ arrObj[o].data = External
    /\ ~Arr!Sound' /\ arrObj'[o] # Dead /\ arrObj'[o].data # External

LEMMA ViewBecomes ==
    ASSUME NEW t, NEW o, ViewTaken(t, o), Arr!Becomes(t), arrObj[o] # Dead, arrObj[o].data = External
    PROVE  TakesOver(o)
<1>1. PICK ob, m, f : /\ t = Trio(ob, m, f) /\ Deletes \in f
                      /\ ob[o] \in ArrayRecords /\ ob[o].data # External
  BY DEF ViewTaken
<1>2. arrObj' = ob /\ arrFault' = f
  <2>1. Trio(ob, m, f).obj = ob /\ Trio(ob, m, f).fault = f
    BY TrioFields
  <2>2. arrObj' = t.obj /\ arrFault' = t.fault
    BY DEF Arr!Becomes
  <2> QED
    BY <2>1, <2>2, <1>1, Zenon
<1>3. ob[o] # Dead
  BY <1>1, MarksAssumption DEF ArrayRecords
<1> QED
  BY <1>1, <1>2, <1>3 DEF TakesOver, Arr!Sound, Deletes

\* The same calls on an array over external memory: they leave it as it is or empty,
\* or it takes other memory.
LEMMA ViewEnlarges ==
    ASSUME ArrayInv, NEW o \in ArrayNames, arrObj[o].data = External,
           \/ \E p \in ArrayNames : Arr!AssignCopy(o, p)
           \/ \E c \in Strings : Arr!AssignString(o, c) \/ Arr!PushBackString(o, c)
           \/ \E n \in 0 .. MaxSize : Arr!Reserve(o, n) \/ Arr!Resize(o, n)
           \/ \E v \in Values : Arr!PushBack(o, v)
    PROVE  ArrayInv' \/ TakesOver(o)
<1> DEFINE s == Arr!State
           n == arrObj[o].size
<1>1. s = ArrayState(arrObj, arrMem) /\ ArraySound(arrObj, arrMem, arrValue)
  BY ArrayCurrent
<1>2. arrObj[o] # Dead
  BY DEF Arr!AssignCopy, Arr!AssignString, Arr!PushBackString, Arr!Reserve, Arr!Resize, Arr!PushBack, Arr!Live
<1>3. PICK c0 : ArrayReady(s, arrValue, o, n, c0, FALSE)
  <2>1. (arrObj[o].data # External) = FALSE
    OBVIOUS
  <2>2. PICK c0 : ArrayReady(ArrayState(arrObj, arrMem), arrValue, o, n, c0, arrObj[o].data # External)
    BY <1>1, <1>2, ArrayOf
  <2> QED
    BY <1>1, <2>1, <2>2, Zenon
<1> HIDE DEF s, n
<1>4. /\ n \in Nat /\ arrValue[o] \in Seq(Values) /\ Len(arrValue[o]) = n
      /\ arrValue \in [ArrayNames -> Seq(Values)]
  BY <1>3, ArrayReadyIs
<1> DEFINE t == Arr!SetSize(s, o, 0)
           w == [arrValue EXCEPT ![o] = <<>>]
<1>5. ArrayReady(t, w, o, 0, c0, FALSE)
  <2>1. 0 \in Nat /\ 0 <= n /\ SubSeq(arrValue[o], 1, 0) = <<>>
    BY <1>4
  <2>2. ArrayReady(t, [arrValue EXCEPT ![o] = SubSeq(arrValue[o], 1, 0)], o, 0, c0, FALSE)
    BY <2>1, <1>3, ArrayShrink, Zenon
  <2> QED
    BY <2>1, <2>2, Zenon
<1>6. ASSUME Arr!Becomes(t), arrValue' = w PROVE ArrayInv'
  <2>1. ArrayIs(t, w)
    BY <1>5, ArrayReadySound, Zenon
  <2> QED
    BY <2>1, <1>6, ArrayStep, Zenon
<1>7. ASSUME Arr!Becomes(s), arrValue' = arrValue PROVE ArrayInv'
  <2>1. ArrayIs(s, arrValue)
    BY <1>3, ArrayReadySound, Zenon
  <2> QED
    BY <2>1, <1>7, ArrayStep, Zenon
<1> HIDE DEF t, w
<1>8. ASSUME NEW e \in Seq(Values), Arr!Becomes(Arr!Assign(Arr!clear(s, o), o, e)), arrValue' = [arrValue EXCEPT ![o] = e]
      PROVE  ArrayInv' \/ TakesOver(o)
  <2>1. Arr!Becomes(Arr!Assign(t, o, e))
    BY <1>8 DEF Arr!clear, t
  <2>2. CASE e # <<>>
    <3>1. ViewTaken(Arr!Assign(t, o, e), o)
      BY <2>2, <1>5, ViewAssigns
    <3> QED
      BY <3>1, <2>1, <1>2, ViewBecomes, Zenon
  <2>3. CASE e = <<>>
    <3>1. Arr!Assign(t, o, e) = Arr!SetSize(t, o, 0)
      BY <2>3, <1>5, ViewAssigns
    <3>2. Arr!SetSize(t, o, 0) = t
      BY <1>1 DEF t, Arr!SetSize, ArrayState
    <3> QED
      BY <3>1, <3>2, <2>1, <2>3, <1>6, <1>8, Zenon DEF w
  <2> QED
    BY <2>2, <2>3
<1>9. ASSUME NEW p \in ArrayNames, Arr!AssignCopy(o, p) PROVE ArrayInv' \/ TakesOver(o)
  <2>1. arrObj[p] # Dead /\ arrValue' = [arrValue EXCEPT ![o] = arrValue[p]]
    BY <1>9 DEF Arr!AssignCopy, Arr!Live, Arr!Expect
  <2>2. CASE o = p
    <3>1. arrValue' = arrValue
      BY <2>1, <2>2, <1>4
    <3>2. Arr!Becomes(s)
      BY <2>2, <1>9 DEF Arr!AssignCopy, s
    <3> QED
      BY <3>1, <3>2, <1>7
  <2>3. CASE o # p
    <3>1. Arr!Content(s, p) = arrValue[p] /\ arrValue[p] \in Seq(Values)
      BY <2>1, <1>1, <1>4, ArrayContent
    <3>2. Arr!Becomes(Arr!Assign(Arr!clear(s, o), o, Arr!Content(s, p)))
      BY <2>3, <1>9 DEF Arr!AssignCopy, s
    <3> QED
      BY <3>1, <3>2, <2>1, <1>8, Zenon
  <2> QED
    BY <2>2, <2>3
<1>10. ASSUME NEW c \in Strings, Arr!AssignString(o, c) PROVE ArrayInv' \/ TakesOver(o)
  <2>1. c \in Seq(Values)
    BY ContainersAssumption
  <2> QED
    BY <2>1, <1>8, <1>10 DEF Arr!AssignString, Arr!Expect, s
<1>11. ASSUME NEW c \in Strings, Arr!PushBackString(o, c) PROVE ArrayInv' \/ TakesOver(o)
  <2> DEFINE j == n + Len(c)
             u == Arr!resize(s, o, j)
  <2>1. c \in Seq(Values) /\ Len(c) \in Nat /\ j \in Nat
    BY <1>4, ContainersAssumption
  <2>2. Arr!Becomes(Arr!Put(u, o, n + 1, c)) /\ arrValue' = [arrValue EXCEPT ![o] = arrValue[o] \o c]
    BY <1>11 DEF Arr!PushBackString, Arr!Expect, s, n
  <2>3. CASE j > 0
    <3>1. ViewTaken(u, o)
      BY <2>1, <2>3, <1>3, ViewResizes
    <3> HIDE DEF u
    <3>2. ViewTaken(Arr!Put(u, o, n + 1, c), o)
      BY <3>1, ViewKeeps
    <3> QED
      BY <3>2, <2>2, <1>2, ViewBecomes, Zenon
  <2>4. CASE j = 0
    <3>1. n = 0 /\ c = <<>> /\ arrValue[o] = <<>>
      BY <2>1, <2>4, <1>4
    <3>2. u = t
      BY <2>1, <2>4, <1>3, ViewResizes DEF t
    <3>3. Arr!Put(t, o, n + 1, c) = t
      BY <3>1 DEF Arr!Put
    <3>4. arrValue' = w
      BY <3>1, <2>2 DEF w
    <3> HIDE DEF u
    <3> QED
      BY <3>2, <3>3, <3>4, <2>2, <1>6
  <2> QED
    BY <2>1, <2>3, <2>4
<1>12. ASSUME NEW j \in 0 .. MaxSize, Arr!Reserve(o, j) PROVE ArrayInv' \/ TakesOver(o)
  <2>1. Arr!Becomes(Arr!reserve(s, o, j)) /\ arrValue' = arrValue /\ j \in Nat
    BY <1>12 DEF Arr!Reserve, s
  <2>2. s.obj[o].capacity = 0
    BY <1>3, ViewReady
  <2>3. CASE j > 0
    <3>1. Arr!reserve(s, o, j) = Arr!grow(s, o, j)
      BY <2>1, <2>2, <2>3 DEF Arr!reserve
    <3>2. ViewTaken(Arr!grow(s, o, j), o)
      BY <2>1, <1>3, ViewGrows
    <3> QED
      BY <3>1, <3>2, <2>1, <1>2, ViewBecomes, Zenon
  <2>4. CASE j = 0
    <3>1. Arr!reserve(s, o, j) = s
      BY <2>2, <2>4 DEF Arr!reserve
    <3> QED
      BY <3>1, <2>1, <1>7, Zenon
  <2> QED
    BY <2>1, <2>3, <2>4
<1>13. ASSUME NEW j \in 0 .. MaxSize, Arr!Resize(o, j) PROVE ArrayInv' \/ TakesOver(o)
  <2>1. /\ Arr!Becomes(Arr!resize(s, o, j)) /\ j \in Nat
        /\ arrValue' = [arrValue EXCEPT ![o] = ArrayCut(arrValue[o], j)]
    BY <1>13 DEF Arr!Resize, Arr!Expect, ArrayCut, s
  <2>2. CASE j > 0
    <3>1. ViewTaken(Arr!resize(s, o, j), o)
      BY <2>1, <2>2, <1>3, ViewResizes
    <3> QED
      BY <3>1, <2>1, <1>2, ViewBecomes, Zenon
  <2>3. CASE j = 0
    <3>1. Arr!resize(s, o, j) = t
      BY <2>1, <2>3, <1>3, ViewResizes DEF t
    <3>2. ArrayCut(arrValue[o], j) = <<>>
      BY <2>1, <2>3, <1>4, ArrayCutIs
    <3> QED
      BY <3>1, <3>2, <2>1, <1>6, Zenon DEF w
  <2> QED
    BY <2>1, <2>2, <2>3
<1>14. ASSUME NEW v \in Values, Arr!PushBack(o, v) PROVE ArrayInv' \/ TakesOver(o)
  <2> DEFINE u == Arr!grow(s, o, 1)
             k == u.obj[o].size
  <2>1. Arr!Becomes(Arr!push_back(s, o, v))
    BY <1>14 DEF Arr!PushBack, s
  <2>2. s.obj[o].capacity = 0 /\ s.obj[o].size = n
    BY <1>3, ViewReady
  <2>3. Arr!push_back(s, o, v) = Arr!SetSize(Arr!Put(u, o, k + 1, <<v>>), o, k + 1)
    BY <2>2, <1>4 DEF Arr!push_back, Arr!Doubled
  <2>4. ViewTaken(u, o)
    BY <1>3, ViewGrows
  <2>5. k + 1 \in Nat
    <3> HIDE DEF u
    <3> QED
      <4>1. PICK ob, m, f : /\ u = Trio(ob, m, f) /\ o \in DOMAIN ob /\ ob[o] \in ArrayRecords
        BY <2>4 DEF ViewTaken
      <4>2. Trio(ob, m, f).obj = ob
        BY TrioFields
      <4>3. u.obj[o] = ob[o]
        BY <4>1, <4>2, Zenon
      <4>4. ob[o].size \in Nat
        BY <4>1 DEF ArrayRecords
      <4> QED
        BY <4>3, <4>4
  <2> HIDE DEF u, k
  <2>6. ViewTaken(Arr!Put(u, o, k + 1, <<v>>), o)
    BY <2>4, ViewKeeps
  <2> DEFINE x == Arr!Put(u, o, k + 1, <<v>>)
  <2> HIDE DEF x
  <2>7. ViewTaken(Arr!SetSize(x, o, k + 1), o)
    <3>1. ViewTaken(x, o)
      BY <2>6 DEF x
    <3> QED
      BY <3>1, <2>5, ViewKeeps
  <2>8. Arr!Becomes(Arr!SetSize(x, o, k + 1))
    BY <2>1, <2>3 DEF x
  <2> QED
    BY <2>7, <2>8, <1>2, ViewBecomes, Zenon
<1> QED
  BY <1>9, <1>10, <1>11, <1>12, <1>13, <1>14

\* Another array is moved into one over external memory.
LEMMA ViewMoves ==
    ASSUME ArrayInv, NEW o \in ArrayNames, NEW p \in ArrayNames, o # p,
           Arr!AssignMove(o, p), arrObj[o].data = External
    PROVE  TakesOver(o)
<1>1. Arr!State = ArrayState(arrObj, arrMem) /\ ArraySound(arrObj, arrMem, arrValue)
  BY ArrayCurrent
<1> DEFINE s == Arr!State
           t == Arr!SetSize(s, o, 0)
           rid == Arr!Delete(t, External)
           u == Arr!SetObject(rid, o, rid.obj[p])
           r == [arrObj[o] EXCEPT !.size = 0]
           ob == [arrObj EXCEPT ![o] = r]
           ob2 == [ob EXCEPT ![o] = arrObj[p]]
           ob3 == [ob2 EXCEPT ![p] = Arr!Empty]
<1>2. arrObj[o] # Dead /\ arrObj[p] # Dead /\ External # Null /\ Arr!Becomes(Arr!SetObject(u, p, Arr!Empty))
  BY ContainersAssumption DEF Arr!AssignMove, Arr!Live, Arr!MoveInto, Arr!Reset, Arr!clear
<1>3. arrObj[p] \in ArrayRecords /\ arrObj[p].data # External /\ arrObj \in ArrayObjs
  BY <1>1, <1>2, ArrayRecord DEF ArraySound
<1>4. s = Trio(arrObj, arrMem, {})
  BY <1>1 DEF ArrayState, Trio
<1> HIDE DEF s, r
<1>5. t = Trio(ob, arrMem, {})
  <2>1. Arr!SetSize(Trio(arrObj, arrMem, {}), o, 0)
          = Trio([arrObj EXCEPT ![o] = [arrObj[o] EXCEPT !.size = 0]], arrMem, {})
    BY TrioSized
  <2> QED
    BY <2>1, <1>4, Zenon DEF r
<1> HIDE DEF t
<1>6. ob[p] = arrObj[p] /\ ob3[o] = arrObj[p] /\ o \in DOMAIN ob3
  BY <1>3 DEF ArrayObjs
<1> HIDE DEF ob, ob2, ob3
<1>7. PICK m, f : rid = Trio(ob, m, f) /\ Deletes \in f
  <2>1. Borrowed(Arr!Delete(Trio(ob, arrMem, {}), External), ob)
    BY TrioDelete
  <2>2. Borrowed(rid, ob)
    BY <2>1, <1>5, Zenon
  <2> HIDE DEF rid
  <2> QED
    BY <2>2 DEF Borrowed
<1> HIDE DEF rid
<1>8. rid.obj[p] = arrObj[p]
  <2>1. Trio(ob, m, f).obj = ob
    BY TrioFields
  <2> QED
    BY <2>1, <1>6, <1>7, Zenon
<1>9. u = Trio(ob2, m, f)
  <2>1. Arr!SetObject(Trio(ob, m, f), o, arrObj[p]) = Trio([ob EXCEPT ![o] = arrObj[p]], m, f)
    BY TrioObject
  <2> QED
    BY <2>1, <1>7, <1>8, Zenon DEF ob2
<1> HIDE DEF u
<1>10. Arr!SetObject(u, p, Arr!Empty) = Trio(ob3, m, f)
  <2>1. Arr!SetObject(Trio(ob2, m, f), p, Arr!Empty) = Trio([ob2 EXCEPT ![p] = Arr!Empty], m, f)
    BY TrioObject
  <2> QED
    BY <2>1, <1>9, Zenon DEF ob3
<1>11. ViewTaken(Arr!SetObject(u, p, Arr!Empty), o)
  BY <1>3, <1>6, <1>7, <1>10 DEF ViewTaken
<1> QED
  BY <1>2, <1>11, ViewBecomes

\* A call keeps the arrays as they should be, or the external memory is deleted.
LEMMA ArrayNext == ArrayInv /\ Arr!Next => ArrayInv' \/ \E o \in ArrayNames : TakesOver(o)
<1> SUFFICES ASSUME ArrayInv, Arr!Next PROVE ArrayInv' \/ \E o \in ArrayNames : TakesOver(o)
  OBVIOUS
<1>1. ASSUME NEW o \in ArrayNames,
             \/ \E p \in ArrayNames : Arr!AssignCopy(o, p)
             \/ \E c \in Strings : Arr!AssignString(o, c) \/ Arr!PushBackString(o, c)
             \/ \E n \in 0 .. MaxSize : Arr!Reserve(o, n) \/ Arr!Resize(o, n)
             \/ \E v \in Values : Arr!PushBack(o, v)
      PROVE  ArrayInv' \/ TakesOver(o)
  BY <1>1, ArrayEnlarges, ViewEnlarges
<1>2. ASSUME NEW o \in ArrayNames, NEW p \in ArrayNames, Arr!AssignMove(o, p)
      PROVE  ArrayInv' \/ TakesOver(o)
  BY <1>2, ArrayMoves, ViewMoves
<1> QED
  BY <1>1, <1>2, ArrayConstructs, ArrayViews, ArrayMoves, ArrayDestroys, ArrayKeepsRoom DEF Arr!Next

LEMMA ArrayExact == ArrayInv => Arr!ContentExact /\ Arr!OwnedOnce
<1> SUFFICES ASSUME ArrayInv PROVE Arr!ContentExact /\ Arr!OwnedOnce
  OBVIOUS
<1>1. Arr!State = ArrayState(arrObj, arrMem) /\ ArraySound(arrObj, arrMem, arrValue) /\ arrFault = {}
  BY ArrayCurrent DEF ArrayInv
<1>2. Arr!ContentExact
  BY <1>1, ArrayContent DEF Arr!ContentExact, Arr!LiveObjects, Arr!Live
<1>3. ASSUME NEW b \in HeapBlocks, arrMem[b] # Unused
      PROVE  \E o \in Arr!LiveObjects : arrObj[o].data = b /\ arrObj[o].capacity = Len(arrMem[b])
  <2>1. PICK o \in ArrayNames : arrObj[o] # Dead /\ arrObj[o].data = b
    BY <1>1, <1>3 DEF ArraySound
  <2>2. arrObj[o].capacity = Len(arrMem[b])
    BY <2>1, <1>1, ArrayRecord DEF ArrayHolds
  <2> QED
    BY <2>1, <2>2 DEF Arr!LiveObjects, Arr!Live
<1>4. ASSUME NEW o \in Arr!LiveObjects, NEW p \in Arr!LiveObjects,
             arrObj[o].data = arrObj[p].data, arrObj[o].data # Null
      PROVE  o = p
  BY <1>1, <1>4 DEF ArraySound, Arr!LiveObjects, Arr!Live
<1>5. ASSUME NEW o \in Arr!LiveObjects, arrObj[o].capacity > 0 PROVE arrMem[arrObj[o].data] # Unused
  <2>1. o \in ArrayNames /\ arrObj[o] # Dead
    BY DEF Arr!LiveObjects, Arr!Live
  <2> QED
    BY <2>1, <1>1, <1>5, ArrayRecord DEF ArrayHolds
<1> QED
  BY <1>1, <1>2, <1>3, <1>4, <1>5 DEF Arr!OwnedOnce

-----------------------------------------------------------------------------
(* Strings *)

StringCells == Seq(Int \cup {Nul, Unset})
StringRecords == [is_sso : BOOLEAN, length : Nat, cells : StringCells,
                  ptr : HeapBlocks \cup {Unset}, capacity : Nat]
StringMems == [HeapBlocks -> StringCells \cup {Unused}]
StringObjs == [StringNames -> StringRecords \cup {Dead}]
StringState(ob, m) == [obj |-> ob, mem |-> m, fault |-> {}]

\* Where the characters of a string are: in the object or in its block.
StringText(m, r) == IF r.is_sso THEN r.cells ELSE m[r.ptr]
StringHeaped(ob, o) == ob[o] # Dead /\ ~ob[o].is_sso

\* The cells y have the characters e, the terminator and room for c characters.
StringSpells(y, e, c) ==
    /\ y \in StringCells /\ Len(y) = c + 1 /\ Len(e) <= c
    /\ \A k \in 1 .. Len(e) : y[k] = e[k]
    /\ y[Len(e) + 1] = Nul

\* The string r over the memory m has the characters e.
StringHolds(m, r, e) ==
    /\ r.length = Len(e) /\ StringSpells(StringText(m, r), e, r.capacity)
    /\ ~r.is_sso => r.ptr \in HeapBlocks

\* Nothing ever went wrong with memory, each string has its characters and the
\* terminator, and every allocated block has one owner.
StringSound(ob, m, w) ==
    /\ ob \in StringObjs /\ m \in StringMems /\ w \in [StringNames -> Seq(Int)]
    /\ \A o \in StringNames : ob[o] # Dead => StringHolds(m, ob[o], w[o])
    /\ \A o, p \in StringNames :
         StringHeaped(ob, o) /\ StringHeaped(ob, p) /\ ob[o].ptr = ob[p].ptr => o = p
    /\ \A b \in HeapBlocks : m[b] # Unused => \E o \in StringNames : StringHeaped(ob, o) /\ ob[o].ptr = b

\* s is a state in which the strings are w.
StringIs(s, w) == \E ob, m : s = StringState(ob, m) /\ StringSound(ob, m, w)

LEMMA StringStateFields ==
    ASSUME NEW ob, NEW m
    PROVE  /\ StringState(ob, m).obj = ob /\ StringState(ob, m).mem = m
           /\ StringState(ob, m).fault = {}
BY DEF StringState

LEMMA StringStateStore ==
    ASSUME NEW ob, NEW m, NEW b, NEW y
    PROVE  Str!Store(StringState(ob, m), b, y) = StringState(ob, [m EXCEPT ![b] = y])
BY DEF StringState, Str!Store

LEMMA StringStateObject ==
    ASSUME NEW ob, NEW m, NEW o, NEW r
    PROVE  Str!SetObject(StringState(ob, m), o, r) = StringState([ob EXCEPT ![o] = r], m)
BY DEF StringState, Str!SetObject

\* The string o becomes r, with the characters e, and only blocks that no other
\* string has are touched.
LEMMA StringUpdate ==
    ASSUME NEW ob, NEW m, NEW w, StringSound(ob, m, w),
           NEW o \in StringNames, NEW r \in StringRecords \cup {Dead}, NEW n \in StringMems, NEW e \in Seq(Int),
           r # Dead => StringHolds(n, r, e),
           \A p \in StringNames \ {o} : StringHeaped(ob, p) => n[ob[p].ptr] = m[ob[p].ptr],
           r # Dead /\ ~r.is_sso => \A p \in StringNames \ {o} : StringHeaped(ob, p) => r.ptr # ob[p].ptr,
           \A b \in HeapBlocks : n[b] # Unused =>
               \/ r # Dead /\ ~r.is_sso /\ r.ptr = b
               \/ \E p \in StringNames \ {o} : StringHeaped(ob, p) /\ ob[p].ptr = b
    PROVE  StringSound([ob EXCEPT ![o] = r], n, [w EXCEPT ![o] = e])
<1> DEFINE ob2 == [ob EXCEPT ![o] = r]
           w2 == [w EXCEPT ![o] = e]
<1>1. /\ ob2 \in StringObjs /\ w2 \in [StringNames -> Seq(Int)]
      /\ ob2[o] = r /\ w2[o] = e
      /\ \A p \in StringNames \ {o} : ob2[p] = ob[p] /\ w2[p] = w[p]
  BY DEF StringSound, StringObjs
<1> HIDE DEF ob2, w2
<1>2. ASSUME NEW p \in StringNames, ob2[p] # Dead PROVE StringHolds(n, ob2[p], w2[p])
  <2>1. CASE p = o
    BY <2>1, <1>1, <1>2
  <2>2. CASE p # o
    <3>1. ob[p] # Dead /\ StringHolds(m, ob[p], w[p])
      BY <2>2, <1>1, <1>2 DEF StringSound
    <3>2. StringText(n, ob[p]) = StringText(m, ob[p])
      BY <3>1, <2>2 DEF StringText, StringHeaped
    <3>3. StringHolds(n, ob[p], w[p])
      BY <3>1, <3>2 DEF StringHolds
    <3> QED
      BY <3>3, <2>2, <1>1
  <2> QED
    BY <2>1, <2>2
<1>3. ASSUME NEW p \in StringNames, NEW q \in StringNames, StringHeaped(ob2, p), StringHeaped(ob2, q),
             ob2[p].ptr = ob2[q].ptr
      PROVE  p = q
  <2>1. CASE p = o
    BY <2>1, <1>1, <1>3 DEF StringHeaped
  <2>2. CASE q = o
    BY <2>2, <1>1, <1>3 DEF StringHeaped
  <2>3. CASE p # o /\ q # o
    <3>1. ob2[p] = ob[p] /\ ob2[q] = ob[q]
      BY <2>3, <1>1
    <3> QED
      BY <3>1, <1>3 DEF StringSound, StringHeaped
  <2> QED
    BY <2>1, <2>2, <2>3
<1>4. ASSUME NEW b \in HeapBlocks, n[b] # Unused
      PROVE  \E p \in StringNames : StringHeaped(ob2, p) /\ ob2[p].ptr = b
  BY <1>1, <1>4 DEF StringHeaped
<1> QED
  BY <1>1, <1>2, <1>3, <1>4 DEF StringSound, ob2, w2

\* operator new finds a block.
LEMMA StringFreeBlock ==
    ASSUME NEW ob, NEW m, NEW w, StringSound(ob, m, w)
    PROVE  Str!FreeBlock(StringState(ob, m)) \in HeapBlocks /\ m[Str!FreeBlock(StringState(ob, m))] = Unused
<1>1. PICK c \in HeapBlocks : TRUE
  BY RoomAssumption
<1> DEFINE f == [o \in StringNames |-> IF ob[o].ptr \in HeapBlocks THEN ob[o].ptr ELSE c]
<1>2. f \in [StringNames -> HeapBlocks]
  OBVIOUS
<1>3. PICK b \in HeapBlocks : \A o \in StringNames : f[o] # b
  BY <1>2, RoomAssumption
<1>4. m[b] = Unused
  BY <1>3 DEF StringSound
<1>5. \E x \in HeapBlocks : StringState(ob, m).mem[x] = Unused
  BY <1>4, StringStateFields
<1> QED
  BY <1>5, StringStateFields DEF Str!FreeBlock

\* What the record of a live string looks like.
LEMMA StringRecord ==
    ASSUME NEW ob, NEW m, NEW w, StringSound(ob, m, w), NEW o \in StringNames, ob[o] # Dead
    PROVE  /\ ob[o] \in StringRecords /\ ob[o].length \in Nat /\ ob[o].capacity \in Nat
           /\ ob[o].is_sso \in BOOLEAN
           /\ StringHolds(m, ob[o], w[o]) /\ w[o] \in Seq(Int)
           /\ ~ob[o].is_sso => /\ ob[o].ptr \in HeapBlocks /\ m[ob[o].ptr] \in StringCells
                               /\ m[ob[o].ptr] # Unused
<1>1. ob[o] \in StringRecords /\ StringHolds(m, ob[o], w[o]) /\ w[o] \in Seq(Int)
  BY DEF StringSound, StringObjs
<1>2. ob[o].length \in Nat /\ ob[o].capacity \in Nat /\ ob[o].is_sso \in BOOLEAN
  BY <1>1 DEF StringRecords
<1>3. ~ob[o].is_sso => ob[o].ptr \in HeapBlocks /\ m[ob[o].ptr] \in StringCells
  BY <1>1 DEF StringHolds, StringText, StringSpells
<1> QED
  BY <1>1, <1>2, <1>3, MarksAssumption DEF StringCells

\* The empty string.
LEMMA StringFresh ==
    /\ Str!Fresh \in StringRecords /\ Str!Fresh # Dead /\ Str!Fresh.is_sso
    /\ \A m : StringHolds(m, Str!Fresh, <<>>)
<1> DEFINE y == <<Nul>> \o Str!RawCells(SSO)
<1>1. SSO \in Nat
  BY ContainersAssumption
<1>2. Str!RawCells(SSO) \in StringCells /\ Len(Str!RawCells(SSO)) = SSO
  BY <1>1 DEF Str!RawCells, StringCells
<1>3. y \in StringCells /\ Len(y) = SSO + 1 /\ y[1] = Nul
  BY <1>1, <1>2 DEF StringCells
<1> HIDE DEF y
<1>4. Str!Fresh = [is_sso |-> TRUE, length |-> 0, cells |-> y, ptr |-> Unset, capacity |-> SSO]
  BY DEF Str!Fresh, y
<1>5. Str!Fresh \in StringRecords
  BY <1>1, <1>3, <1>4 DEF StringRecords
<1>6. Str!Fresh # Dead
  BY <1>5, MarksAssumption DEF StringRecords, StringCells
<1>7. Str!Fresh.is_sso /\ Str!Fresh.length = 0 /\ Str!Fresh.cells = y /\ Str!Fresh.capacity = SSO
  BY <1>4
<1>8. ASSUME NEW m PROVE StringHolds(m, Str!Fresh, <<>>)
  BY <1>1, <1>3, <1>7 DEF StringHolds, StringText, StringSpells
<1> QED
  BY <1>5, <1>6, <1>7, <1>8

\* p hands its storage over to o, which has no block.
LEMMA StringMove ==
    ASSUME NEW ob, NEW m, NEW w, StringSound(ob, m, w),
           NEW o \in StringNames, NEW p \in StringNames, o # p, ~StringHeaped(ob, o), ob[p] # Dead
    PROVE  StringSound([[ob EXCEPT ![o] = ob[p]] EXCEPT ![p] = Str!Fresh], m,
                       [w EXCEPT ![o] = w[p], ![p] = <<>>])
<1> DEFINE ob2 == [[ob EXCEPT ![o] = ob[p]] EXCEPT ![p] = Str!Fresh]
           w2 == [w EXCEPT ![o] = w[p], ![p] = <<>>]
<1>1. /\ ob2 \in StringObjs /\ w2 \in [StringNames -> Seq(Int)]
      /\ ob2[o] = ob[p] /\ w2[o] = w[p]
      /\ ob2[p] = Str!Fresh /\ w2[p] = <<>>
      /\ \A q \in StringNames \ {o, p} : ob2[q] = ob[q] /\ w2[q] = w[q]
  <2>1. /\ ob \in StringObjs /\ w \in [StringNames -> Seq(Int)]
        /\ <<>> \in Seq(Int) /\ w[p] \in Seq(Int) /\ ob[p] \in StringRecords \cup {Dead}
    BY DEF StringSound, StringObjs
  <2>2. /\ w2 \in [StringNames -> Seq(Int)] /\ w2[o] = w[p] /\ w2[p] = <<>>
        /\ \A q \in StringNames \ {o, p} : w2[q] = w[q]
    BY <2>1
  <2>3. /\ ob2 \in StringObjs /\ ob2[o] = ob[p] /\ ob2[p] = Str!Fresh
        /\ \A q \in StringNames \ {o, p} : ob2[q] = ob[q]
    BY <2>1, StringFresh DEF StringObjs
  <2> QED
    BY <2>1, <2>2, <2>3
<1> HIDE DEF ob2, w2
<1>2. ASSUME NEW q \in StringNames, ob2[q] # Dead PROVE StringHolds(m, ob2[q], w2[q])
  <2>1. CASE q = p
    BY <2>1, <1>1, StringFresh
  <2>2. CASE q = o
    BY <2>2, <1>1 DEF StringSound
  <2>3. CASE q # o /\ q # p
    BY <2>3, <1>1, <1>2 DEF StringSound
  <2> QED
    BY <2>1, <2>2, <2>3
<1>3. ASSUME NEW q \in StringNames, NEW t \in StringNames, StringHeaped(ob2, q), StringHeaped(ob2, t),
             ob2[q].ptr = ob2[t].ptr
      PROVE  q = t
  <2> DEFINE F(x) == IF x = o THEN p ELSE x
  <2>1. q # p /\ t # p
    BY <1>1, <1>3, StringFresh DEF StringHeaped
  <2>2. ob2[q] = ob[F(q)] /\ ob2[t] = ob[F(t)]
    BY <2>1, <1>1
  <2>3. F(q) = F(t)
    BY <2>2, <1>3 DEF StringSound, StringHeaped
  <2> QED
    BY <2>1, <2>3
<1>4. ASSUME NEW b \in HeapBlocks, m[b] # Unused
      PROVE  \E q \in StringNames : StringHeaped(ob2, q) /\ ob2[q].ptr = b
  <2>1. PICK q \in StringNames : StringHeaped(ob, q) /\ ob[q].ptr = b
    BY <1>4 DEF StringSound
  <2>2. q # o
    BY <2>1
  <2>3. CASE q = p
    BY <2>1, <2>3, <1>1 DEF StringHeaped
  <2>4. CASE q # p
    BY <2>1, <2>2, <2>4, <1>1 DEF StringHeaped
  <2> QED
    BY <2>3, <2>4
<1>5. StringSound(ob2, m, w2)
  BY <1>1, <1>2, <1>3, <1>4 DEF StringSound
<1> QED
  BY <1>5 DEF ob2, w2

\* The memory without the block of o.
StringFreed(ob, m, o) == IF StringHeaped(ob, o) THEN [m EXCEPT ![ob[o].ptr] = Unused] ELSE m

\* The block of o goes, and o becomes empty or ends.
LEMMA StringRid ==
    ASSUME NEW ob, NEW m, NEW w, StringSound(ob, m, w), NEW o \in StringNames, NEW r \in {Str!Fresh, Dead}
    PROVE  StringSound([ob EXCEPT ![o] = r], StringFreed(ob, m, o), [w EXCEPT ![o] = <<>>])
<1> DEFINE q == StringFreed(ob, m, o)
<1>1. m \in StringMems /\ <<>> \in Seq(Int)
  BY DEF StringSound
<1>2. StringHeaped(ob, o) => ob[o].ptr \in HeapBlocks
  BY StringRecord DEF StringHeaped
<1>3. /\ q \in StringMems /\ (StringHeaped(ob, o) => q[ob[o].ptr] = Unused)
      /\ \A x \in HeapBlocks : ~(StringHeaped(ob, o) /\ x = ob[o].ptr) => q[x] = m[x]
  <2>1. CASE StringHeaped(ob, o)
    BY <2>1, <1>1, <1>2 DEF StringFreed, StringMems
  <2>2. CASE ~StringHeaped(ob, o)
    BY <2>2, <1>1 DEF StringFreed
  <2> QED
    BY <2>1, <2>2
<1> HIDE DEF q
<1>4. /\ r \in StringRecords \cup {Dead} /\ (r # Dead => r.is_sso /\ StringHolds(q, r, <<>>))
  BY StringFresh
<1>5. ASSUME NEW p \in StringNames \ {o}, StringHeaped(ob, p)
      PROVE  q[ob[p].ptr] = m[ob[p].ptr]
  <2>1. ob[p].ptr \in HeapBlocks
    BY <1>5, StringRecord DEF StringHeaped
  <2>2. ~(StringHeaped(ob, o) /\ ob[p].ptr = ob[o].ptr)
    BY <1>5 DEF StringSound
  <2> QED
    BY <2>1, <2>2, <1>3
<1>6. ASSUME NEW b \in HeapBlocks, q[b] # Unused
      PROVE  \E p \in StringNames \ {o} : StringHeaped(ob, p) /\ ob[p].ptr = b
  <2>1. ~(StringHeaped(ob, o) /\ b = ob[o].ptr) /\ m[b] # Unused
    BY <1>3, <1>6
  <2> QED
    BY <2>1 DEF StringSound
<1>7. StringSound([ob EXCEPT ![o] = r], q, [w EXCEPT ![o] = <<>>])
  <2>1. \A p \in StringNames \ {o} : StringHeaped(ob, p) => q[ob[p].ptr] = m[ob[p].ptr]
    BY <1>5
  <2>2. r # Dead /\ ~r.is_sso => \A p \in StringNames \ {o} : StringHeaped(ob, p) => r.ptr # ob[p].ptr
    BY <1>4
  <2>3. \A b \in HeapBlocks : q[b] # Unused =>
            \/ r # Dead /\ ~r.is_sso /\ r.ptr = b
            \/ \E p \in StringNames \ {o} : StringHeaped(ob, p) /\ ob[p].ptr = b
    BY <1>6
  <2>4. r # Dead => StringHolds(q, r, <<>>)
    BY <1>4
  <2> QED
    <3> DEFINE e == <<>>
    <3> HIDE DEF e
    <3>1. r \in StringRecords \cup {Dead} /\ q \in StringMems /\ e \in Seq(Int) /\ (r # Dead => StringHolds(q, r, e))
      BY <2>4, <1>1, <1>3, <1>4 DEF e
    <3>2. StringSound([ob EXCEPT ![o] = r], q, [w EXCEPT ![o] = e])
      BY <2>1, <2>2, <2>3, <3>1, StringUpdate, Zenon
    <3> QED
      BY <3>2 DEF e
<1> QED
  BY <1>7 DEF q

LEMMA StringClearIs ==
    ASSUME NEW ob, NEW m, NEW w, StringSound(ob, m, w), NEW o \in StringNames, ob[o] # Dead
    PROVE  Str!clear(StringState(ob, m), o) = StringState([ob EXCEPT ![o] = Str!Fresh], StringFreed(ob, m, o))
<1> DEFINE s == StringState(ob, m)
           q == StringFreed(ob, m, o)
           rid == IF s.obj[o].is_sso THEN s ELSE Str!Delete(s, s.obj[o].ptr)
<1>1. s.obj = ob /\ s.mem = m
  BY StringStateFields
<1>2. rid = StringState(ob, q)
  <2>1. CASE ob[o].is_sso
    <3>1. q = m
      BY <2>1 DEF StringFreed, StringHeaped
    <3>2. rid = s
      BY <2>1, <1>1
    <3> HIDE DEF q, rid
    <3> QED
      BY <3>1, <3>2
  <2>2. CASE ~ob[o].is_sso
    <3> DEFINE d == ob[o].ptr
    <3>1. m[d] # Unused
      BY <2>2, StringRecord
    <3>2. rid = Str!Delete(s, d)
      BY <2>2, <1>1
    <3>3. rid = Str!Store(s, d, Unused)
      BY <3>1, <3>2, <1>1 DEF Str!Delete
    <3>4. q = [m EXCEPT ![d] = Unused]
      BY <2>2 DEF StringFreed, StringHeaped
    <3> HIDE DEF q, rid, d
    <3>5. Str!Store(StringState(ob, m), d, Unused) = StringState(ob, [m EXCEPT ![d] = Unused])
      BY StringStateStore
    <3> QED
      BY <3>3, <3>4, <3>5, Zenon
  <2> QED
    BY <2>1, <2>2
<1>3. Str!clear(s, o) = Str!SetObject(rid, o, Str!Fresh)
  BY DEF Str!clear
<1> HIDE DEF rid, q
<1>4. Str!SetObject(StringState(ob, q), o, Str!Fresh) = StringState([ob EXCEPT ![o] = Str!Fresh], q)
  BY StringStateObject
<1>5. Str!clear(s, o) = StringState([ob EXCEPT ![o] = Str!Fresh], q)
  BY <1>2, <1>3, <1>4, Zenon
<1> QED
  BY <1>5 DEF q

LEMMA StringOverwritten ==
    ASSUME NEW y \in StringCells, NEW n \in Nat, NEW e \in Seq(Int), n + Len(e) + 1 <= Len(y)
    PROVE  /\ Str!Overwrite(y, n, e) \in StringCells /\ Len(Str!Overwrite(y, n, e)) = Len(y)
           /\ \A k \in 1 .. n : Str!Overwrite(y, n, e)[k] = y[k]
           /\ \A k \in 1 .. Len(e) : Str!Overwrite(y, n, e)[n + k] = e[k]
           /\ Str!Overwrite(y, n, e)[n + Len(e) + 1] = Nul
<1> DEFINE Y == Str!Overwrite(y, n, e)
           X(k) == IF n < k /\ k <= n + Len(e) THEN e[k - n]
                   ELSE IF k = n + Len(e) + 1 THEN Nul ELSE y[k]
<1>1. PICK L \in Nat : L = Len(y) /\ DOMAIN y = 1 .. L
  BY DEF StringCells
<1>2. Y = [k \in 1 .. L |-> X(k)]
  BY <1>1 DEF Str!Overwrite
<1>3. ASSUME NEW k \in 1 .. L PROVE X(k) \in Int \cup {Nul, Unset}
  <2>1. y[k] \in Int \cup {Nul, Unset}
    BY <1>1 DEF StringCells
  <2>2. CASE n < k /\ k <= n + Len(e)
    <3>1. k - n \in 1 .. Len(e)
      BY <2>2
    <3> QED
      BY <3>1, <2>2
  <2>3. CASE ~(n < k /\ k <= n + Len(e))
    BY <2>1, <2>3
  <2> QED
    BY <2>2, <2>3
<1>4. Y = [k \in 1 .. L |-> Y[k]] /\ (\A k \in 1 .. L : Y[k] \in Int \cup {Nul, Unset}) /\ \A k \in 1 .. L : Y[k] = X(k)
  BY <1>2, <1>3
<1> HIDE DEF Y
<1>5. Y \in Seq(Int \cup {Nul, Unset}) /\ Len(Y) = L
  BY <1>4, SeqFrom
<1>6. ASSUME NEW k \in 1 .. n PROVE Y[k] = y[k]
  <2>1. k \in 1 .. L /\ ~(n < k) /\ k # n + Len(e) + 1
    BY <1>1
  <2> QED
    BY <2>1, <1>4
<1>7. ASSUME NEW k \in 1 .. Len(e) PROVE Y[n + k] = e[k]
  <2>1. n + k \in 1 .. L /\ n < n + k /\ n + k <= n + Len(e) /\ (n + k) - n = k
    BY <1>1
  <2> QED
    BY <2>1, <1>4
<1>8. Y[n + Len(e) + 1] = Nul
  <2>1. n + Len(e) + 1 \in 1 .. L /\ ~(n + Len(e) + 1 <= n + Len(e))
    BY <1>1
  <2> QED
    BY <2>1, <1>4
<1> QED
  BY <1>1, <1>5, <1>6, <1>7, <1>8 DEF Y, StringCells

\* Characters written behind those that are there, with the terminator.
LEMMA StringExtended ==
    ASSUME NEW y, NEW a \in Seq(Int), NEW c \in Nat, StringSpells(y, a, c),
           NEW e \in Seq(Int), Len(a) + Len(e) <= c
    PROVE  StringSpells(Str!Overwrite(y, Len(a), e), a \o e, c)
<1> DEFINE Y == Str!Overwrite(y, Len(a), e)
           x == a \o e
<1>1. y \in StringCells /\ Len(y) = c + 1 /\ \A k \in 1 .. Len(a) : y[k] = a[k]
  BY DEF StringSpells
<1>2. Len(a) \in Nat /\ Len(e) \in Nat /\ Len(a) + Len(e) + 1 <= Len(y)
  BY <1>1
<1>3. /\ Y \in StringCells /\ Len(Y) = c + 1
      /\ \A k \in 1 .. Len(a) : Y[k] = a[k]
      /\ \A k \in 1 .. Len(e) : Y[Len(a) + k] = e[k]
      /\ Y[Len(a) + Len(e) + 1] = Nul
  BY <1>1, <1>2, StringOverwritten, SMTT(30)
<1> HIDE DEF Y
<1>4. /\ x \in Seq(Int) /\ Len(x) = Len(a) + Len(e)
  OBVIOUS
<1>5. ASSUME NEW k \in 1 .. Len(x) PROVE Y[k] = x[k]
  <2>1. CASE k <= Len(a)
    BY <2>1, <1>2, <1>3, <1>4
  <2>2. CASE ~(k <= Len(a))
    <3>1. k - Len(a) \in 1 .. Len(e) /\ Len(a) + (k - Len(a)) = k /\ x[k] = e[k - Len(a)]
      BY <2>2, <1>2, <1>4
    <3> QED
      BY <3>1, <1>3
  <2> QED
    BY <2>1, <2>2
<1> HIDE DEF x
<1>6. StringSpells(Y, x, c)
  BY <1>2, <1>3, <1>4, <1>5 DEF StringSpells
<1> QED
  BY <1>6 DEF Y, x

\* Characters written into a new block.
LEMMA StringNewBlock ==
    ASSUME NEW x \in Seq(Int), NEW c \in Nat, Len(x) <= c
    PROVE  StringSpells(Str!Overwrite(Str!RawCells(c + 1), 0, x), x, c)
<1> DEFINE y == Str!RawCells(c + 1)
           Y == Str!Overwrite(y, 0, x)
<1>1. y \in StringCells /\ Len(y) = c + 1
  BY DEF Str!RawCells, StringCells
<1> HIDE DEF y
<1>2. Len(x) \in Nat /\ 0 + Len(x) + 1 <= Len(y) /\ 0 + Len(x) + 1 = Len(x) + 1
  BY <1>1
<1>3. /\ Y \in StringCells /\ Len(Y) = c + 1
      /\ \A k \in 1 .. Len(x) : Y[0 + k] = x[k]
      /\ Y[0 + Len(x) + 1] = Nul
  BY <1>1, <1>2, StringOverwritten
<1> HIDE DEF Y
<1>4. StringSpells(Y, x, c)
  BY <1>2, <1>3 DEF StringSpells
<1> QED
  BY <1>4 DEF Y, y

LEMMA StringSpellsText ==
    ASSUME NEW y, NEW e \in Seq(Int), NEW c, StringSpells(y, e, c)
    PROVE  [k \in 1 .. Len(e) |-> y[k]] = e
BY DEF StringSpells

\* An address in the storage of a string reads as what is stored there.
LEMMA StringAt ==
    ASSUME NEW ob, NEW m, NEW w, StringSound(ob, m, w), NEW o \in StringNames, ob[o] # Dead
    PROVE  /\ Str!c_str(StringState(ob, m), o) = (IF ob[o].is_sso THEN o ELSE ob[o].ptr)
           /\ \A i : Str!At(StringState(ob, m), IF ob[o].is_sso THEN o ELSE ob[o].ptr, i) = StringText(m, ob[o])[i]
<1> DEFINE s == StringState(ob, m)
<1>1. s.obj = ob /\ s.mem = m
  BY StringStateFields
<1>2. StringText(m, ob[o]) \in StringCells /\ (~ob[o].is_sso => ob[o].ptr \in HeapBlocks)
  BY StringRecord DEF StringHolds, StringSpells
<1>3. StringText(m, ob[o]) # Unused /\ o \notin HeapBlocks
  BY <1>2, MarksAssumption, ContainersAssumption DEF StringCells
<1> HIDE DEF s
<1>4. CASE ob[o].is_sso
  BY <1>1, <1>3, <1>4 DEF Str!c_str, Str!At, StringText, s
<1>5. CASE ~ob[o].is_sso
  BY <1>1, <1>2, <1>3, <1>5 DEF Str!c_str, Str!At, StringText, s
<1> QED
  BY <1>4, <1>5

\* The address of the characters of the string p with the record r.
StringBase(r, p) == IF r.is_sso THEN p ELSE r.ptr

StringPart(x, off, len) == SubSeq(x, off + 1, off + len)

LEMMA StringPartIs ==
    ASSUME NEW x \in Seq(Int), NEW off \in Nat, NEW len \in Nat, off + len <= Len(x)
    PROVE  /\ StringPart(x, off, len) \in Seq(Int) /\ Len(StringPart(x, off, len)) = len
           /\ StringPart(x, off, len) = [i \in 1 .. len |-> x[off + i]]
           /\ \A i \in 1 .. len : off + i \in 1 .. Len(x)
BY DEF StringPart

\* A view of a string reads as that part of it.
LEMMA StringReads ==
    ASSUME NEW ob, NEW m, NEW w, StringSound(ob, m, w), NEW p \in StringNames, ob[p] # Dead,
           NEW off \in Nat, NEW len \in Nat, off + len <= ob[p].length,
           NEW src, src.base = StringBase(ob[p], p), src.off = off, src.len = len
    PROVE  /\ Str!Read(StringState(ob, m), src) = StringPart(w[p], off, len)
           /\ StringPart(w[p], off, len) \in Seq(Int) /\ Len(StringPart(w[p], off, len)) = len
<1> DEFINE s == StringState(ob, m)
           a == StringBase(ob[p], p)
<1>1. /\ w[p] \in Seq(Int) /\ ob[p].length = Len(w[p]) /\ (~ob[p].is_sso => ob[p].ptr \in HeapBlocks)
      /\ \A k \in 1 .. Len(w[p]) : StringText(m, ob[p])[k] = w[p][k]
  BY StringRecord DEF StringHolds, StringSpells
<1>2. src.base # Nul
  BY <1>1, ContainersAssumption DEF StringBase
<1>3. /\ StringPart(w[p], off, len) \in Seq(Int) /\ Len(StringPart(w[p], off, len)) = len
      /\ StringPart(w[p], off, len) = [i \in 1 .. len |-> w[p][off + i]]
      /\ \A i \in 1 .. len : off + i \in 1 .. Len(w[p])
  <2>1. off + len <= Len(w[p]) /\ w[p] \in Seq(Int)
    BY <1>1
  <2> QED
    BY <2>1, StringPartIs, ZenonT(40)
<1>4. \A i : Str!At(s, a, i) = StringText(m, ob[p])[i]
  <2>1. \A i : Str!At(s, Str!c_str(s, p), i) = StringText(m, ob[p])[i]
    BY StringAt
  <2>2. s.obj = ob
    BY StringStateFields
  <2> HIDE DEF s
  <2>3. Str!c_str(s, p) = a
    BY <2>2 DEF Str!c_str, StringBase
  <2> HIDE DEF a
  <2> QED
    BY <2>1, <2>3, Zenon
<1> HIDE DEF s, a
<1>5. Str!Read(s, src) = [i \in 1 .. len |-> Str!At(s, a, off + i)]
  BY <1>2 DEF Str!Read, a
<1>6. \A i \in 1 .. len : Str!At(s, a, off + i) = w[p][off + i]
  BY <1>1, <1>3, <1>4
<1> QED
  BY <1>3, <1>5, <1>6 DEF s

\* A block for the characters e of o, while the old block goes.
StringMoved(ob, m, o, b, y) ==
    IF ob[o].is_sso THEN [m EXCEPT ![b] = y] ELSE [[m EXCEPT ![b] = y] EXCEPT ![ob[o].ptr] = Unused]

LEMMA StringMoveIs ==
    ASSUME NEW ob, NEW m, NEW w, StringSound(ob, m, w), NEW o \in StringNames, ob[o] # Dead,
           NEW src, src.len \in Nat, NEW e, Str!Read(StringState(ob, m), src) = e,
           NEW n, n = ob[o].length + src.len, NEW cap, cap = Str!NewCapacity(n, ob[o].is_sso),
           NEW y, y = Str!Overwrite(Str!RawCells(cap + 1), 0, w[o] \o e)
    PROVE  \E b \in HeapBlocks :
              /\ m[b] = Unused
              /\ Str!MoveToHeap(StringState(ob, m), o, src)
                   = StringState([ob EXCEPT ![o] = Str!OnHeap(b, n, cap)], StringMoved(ob, m, o, b, y))
<1> DEFINE s == StringState(ob, m)
           b == Str!FreeBlock(s)
           d == ob[o].ptr
           q == StringMoved(ob, m, o, b, y)
           made == Str!Store(s, b, y)
           rid == IF ob[o].is_sso THEN made ELSE Str!Delete(made, d)
           r == Str!OnHeap(b, n, cap)
<1>1. b \in HeapBlocks /\ m[b] = Unused
  BY StringFreeBlock
<1>2. s.obj = ob /\ s.mem = m
  BY StringStateFields
<1>3. Str!Kept(s, o) = w[o]
  <2>1. w[o] \in Seq(Int) /\ ob[o].length = Len(w[o]) /\ StringSpells(StringText(m, ob[o]), w[o], ob[o].capacity)
    BY StringRecord DEF StringHolds
  <2>2. [k \in 1 .. Len(w[o]) |-> StringText(m, ob[o])[k]] = w[o]
    BY <2>1, StringSpellsText
  <2>3. \A i : Str!At(s, Str!c_str(s, o), i) = StringText(m, ob[o])[i]
    BY StringAt
  <2>4. Str!Kept(s, o) = [i \in 1 .. Len(w[o]) |-> Str!At(s, Str!c_str(s, o), i)]
    BY <2>1, <1>2 DEF Str!Kept
  <2> QED
    BY <2>2, <2>3, <2>4
<1>4. Str!MoveToHeap(s, o, src) = Str!SetObject(rid, o, r)
  <2> HIDE DEF s
  <2>1. s.obj[o] = ob[o] /\ Str!Read(s, src) = e
    BY <1>2 DEF s
  <2> QED
    BY <2>1, <1>3 DEF Str!MoveToHeap
<1> HIDE DEF b
<1>5. made = StringState(ob, [m EXCEPT ![b] = y])
  BY StringStateStore
<1>6. rid = StringState(ob, q)
  <2>1. CASE ob[o].is_sso
    <3>1. q = [m EXCEPT ![b] = y] /\ rid = made
      BY <2>1 DEF StringMoved
    <3> HIDE DEF q, rid, made
    <3> QED
      BY <3>1, <1>5
  <2>2. CASE ~ob[o].is_sso
    <3> DEFINE g == [m EXCEPT ![b] = y]
    <3>1. m[d] # Unused /\ d \in HeapBlocks /\ m \in StringMems
      <4>1. m[d] # Unused /\ d \in HeapBlocks
        BY <2>2, StringRecord
      <4> QED
        BY <4>1 DEF StringSound
    <3>2. g[d] = m[d]
      BY <3>1, <1>1 DEF StringMems
    <3>3. q = [g EXCEPT ![d] = Unused] /\ rid = Str!Delete(made, d)
      BY <2>2 DEF StringMoved
    <3> HIDE DEF g, made, rid, q
    <3>4. made = StringState(ob, g) /\ made.mem = g
      <4>1. made = StringState(ob, g)
        BY <1>5 DEF g
      <4> QED
        BY <4>1, StringStateFields
    <3>5. rid = Str!Store(made, d, Unused)
      BY <3>1, <3>2, <3>3, <3>4 DEF Str!Delete
    <3> HIDE DEF d
    <3>6. Str!Store(StringState(ob, g), d, Unused) = StringState(ob, [g EXCEPT ![d] = Unused])
      BY StringStateStore
    <3> QED
      BY <3>3, <3>4, <3>5, <3>6, Zenon
  <2> QED
    BY <2>1, <2>2
<1> HIDE DEF rid, r, q
<1>7. Str!SetObject(StringState(ob, q), o, r) = StringState([ob EXCEPT ![o] = r], q)
  BY StringStateObject
<1>8. Str!MoveToHeap(s, o, src) = StringState([ob EXCEPT ![o] = r], q)
  BY <1>4, <1>6, <1>7, Zenon
<1> QED
  BY <1>1, <1>8 DEF r, q

\* A block that is made for n characters has room for them.
LEMMA StringCapacity ==
    ASSUME NEW n \in Nat, NEW b \in BOOLEAN
    PROVE  Str!NewCapacity(n, b) \in Nat /\ n <= Str!NewCapacity(n, b)
<1>1. MinHeap \in Nat
  BY ContainersAssumption
<1>2. CASE b /\ 2 * n < MinHeap
  <2>1. Str!NewCapacity(n, b) = MinHeap
    BY <1>2 DEF Str!NewCapacity
  <2> QED
    BY <2>1, <1>1, <1>2
<1>3. CASE ~(b /\ 2 * n < MinHeap)
  <2>1. Str!NewCapacity(n, b) = 2 * n
    BY <1>3 DEF Str!NewCapacity
  <2> QED
    BY <2>1
<1> QED
  BY <1>2, <1>3

\* The strings after one of them moved to a new block.
LEMMA StringToHeap ==
    ASSUME NEW ob, NEW m, NEW w, StringSound(ob, m, w), NEW o \in StringNames, ob[o] # Dead,
           NEW e \in Seq(Int), NEW n, n = ob[o].length + Len(e), NEW cap \in Nat, n <= cap,
           NEW b \in HeapBlocks, m[b] = Unused,
           NEW y, y = Str!Overwrite(Str!RawCells(cap + 1), 0, w[o] \o e)
    PROVE  StringSound([ob EXCEPT ![o] = Str!OnHeap(b, n, cap)], StringMoved(ob, m, o, b, y),
                       [w EXCEPT ![o] = w[o] \o e])
<1> DEFINE r == Str!OnHeap(b, n, cap)
           q == StringMoved(ob, m, o, b, y)
           d == ob[o].ptr
           x == w[o] \o e
<1>1. /\ w[o] \in Seq(Int) /\ ob[o].length = Len(w[o]) /\ ob[o].length \in Nat
      /\ (~ob[o].is_sso => d \in HeapBlocks /\ m[d] # Unused)
  BY StringRecord DEF StringHolds
<1>2. n \in Nat /\ x \in Seq(Int) /\ Len(x) = n
  BY <1>1
<1>3. m \in StringMems
  BY DEF StringSound
<1> HIDE DEF x
<1>4. StringSpells(y, x, cap) /\ y \in StringCells /\ y # Unused
  <2>1. StringSpells(y, x, cap)
    BY <1>2, StringNewBlock DEF x
  <2> QED
    BY <2>1, MarksAssumption DEF StringSpells, StringCells
<1>5. /\ r \in StringRecords /\ r # Dead /\ ~r.is_sso /\ r.ptr = b /\ r.length = n /\ r.capacity = cap
  <2> DEFINE z == <<>>
  <2>1. z \in StringCells
    BY DEF StringCells
  <2>2. r = [is_sso |-> FALSE, length |-> n, cells |-> z, ptr |-> b, capacity |-> cap]
    BY DEF Str!OnHeap
  <2> HIDE DEF r, z
  <2>3. r \in StringRecords
    BY <2>1, <2>2, <1>2 DEF StringRecords
  <2>4. r # Dead
    BY <2>3, MarksAssumption DEF StringRecords, StringCells
  <2>5. ~r.is_sso /\ r.ptr = b /\ r.length = n /\ r.capacity = cap
    BY <2>2
  <2> QED
    BY <2>3, <2>4, <2>5
<1>6. /\ q \in StringMems /\ q[b] = y /\ (~ob[o].is_sso => q[d] = Unused)
      /\ \A z \in HeapBlocks : z # b /\ ~(~ob[o].is_sso /\ z = d) => q[z] = m[z]
  <2>1. CASE ob[o].is_sso
    <3>1. q = [m EXCEPT ![b] = y]
      BY <2>1 DEF StringMoved
    <3> QED
      BY <2>1, <3>1, <1>3, <1>4 DEF StringMems
  <2>2. CASE ~ob[o].is_sso
    <3>1. q = [[m EXCEPT ![b] = y] EXCEPT ![d] = Unused]
      BY <2>2 DEF StringMoved
    <3>2. d \in HeapBlocks /\ b # d
      BY <2>2, <1>1
    <3> HIDE DEF d
    <3> QED
      BY <2>2, <3>1, <3>2, <1>3, <1>4 DEF StringMems
  <2> QED
    BY <2>1, <2>2
<1> HIDE DEF q, r
<1>7. StringHolds(q, r, x)
  BY <1>2, <1>4, <1>5, <1>6 DEF StringHolds, StringText
<1>8. ASSUME NEW p \in StringNames \ {o}, StringHeaped(ob, p)
      PROVE  q[ob[p].ptr] = m[ob[p].ptr] /\ r.ptr # ob[p].ptr
  <2>1. ob[p].ptr \in HeapBlocks /\ m[ob[p].ptr] # Unused
    BY <1>8, StringRecord DEF StringHeaped
  <2>2. ~(~ob[o].is_sso /\ ob[p].ptr = d)
    BY <1>8 DEF StringSound, StringHeaped
  <2> QED
    BY <2>1, <2>2, <1>5, <1>6
<1>9. ASSUME NEW z \in HeapBlocks, q[z] # Unused
      PROVE  r.ptr = z \/ \E p \in StringNames \ {o} : StringHeaped(ob, p) /\ ob[p].ptr = z
  <2>1. CASE z = b
    BY <2>1, <1>5
  <2>2. CASE z # b
    <3>1. ~(~ob[o].is_sso /\ z = d)
      BY <1>6, <1>9
    <3>2. m[z] # Unused
      BY <2>2, <3>1, <1>6, <1>9
    <3>3. PICK p \in StringNames : StringHeaped(ob, p) /\ ob[p].ptr = z
      BY <3>2 DEF StringSound
    <3>4. p # o
      BY <3>1, <3>3 DEF StringHeaped
    <3> QED
      BY <3>3, <3>4
  <2> QED
    BY <2>1, <2>2
<1>10. StringSound([ob EXCEPT ![o] = r], q, [w EXCEPT ![o] = x])
  <2>1. \A p \in StringNames \ {o} : StringHeaped(ob, p) => q[ob[p].ptr] = m[ob[p].ptr]
    BY <1>8
  <2>2. \A p \in StringNames \ {o} : StringHeaped(ob, p) => r.ptr # ob[p].ptr
    BY <1>8
  <2>3. \A z \in HeapBlocks : q[z] # Unused =>
            \/ r # Dead /\ ~r.is_sso /\ r.ptr = z
            \/ \E p \in StringNames \ {o} : StringHeaped(ob, p) /\ ob[p].ptr = z
    BY <1>5, <1>9
  <2>4. r \in StringRecords \cup {Dead} /\ q \in StringMems
    BY <1>5, <1>6
  <2> QED
    BY <2>1, <2>2, <2>3, <2>4, <1>2, <1>7, StringUpdate, Zenon
<1> QED
  BY <1>10 DEF q, r, x

\* Characters added where there is room for them.
LEMMA StringInPlace ==
    ASSUME NEW ob, NEW m, NEW w, StringSound(ob, m, w), NEW o \in StringNames, ob[o] # Dead,
           NEW e \in Seq(Int), NEW n, n = ob[o].length + Len(e), n <= ob[o].capacity
    PROVE  IF ob[o].is_sso
           THEN StringSound([ob EXCEPT ![o] = [ob[o] EXCEPT !.cells = Str!Overwrite(@, ob[o].length, e), !.length = n]],
                            m, [w EXCEPT ![o] = w[o] \o e])
           ELSE StringSound([ob EXCEPT ![o] = [ob[o] EXCEPT !.length = n]],
                            [m EXCEPT ![ob[o].ptr] = Str!Overwrite(m[ob[o].ptr], ob[o].length, e)],
                            [w EXCEPT ![o] = w[o] \o e])
<1> DEFINE u == ob[o]
           d == u.ptr
           x == w[o] \o e
           Y == Str!Overwrite(StringText(m, u), u.length, e)
           r == IF u.is_sso THEN [u EXCEPT !.cells = Y, !.length = n] ELSE [u EXCEPT !.length = n]
           q == IF u.is_sso THEN m ELSE [m EXCEPT ![d] = Y]
<1>1. /\ u \in StringRecords /\ u.is_sso \in BOOLEAN /\ u.capacity \in Nat /\ u.length \in Nat
      /\ w[o] \in Seq(Int) /\ u.length = Len(w[o]) /\ StringSpells(StringText(m, u), w[o], u.capacity)
      /\ (~u.is_sso => d \in HeapBlocks /\ m[d] # Unused)
  BY StringRecord DEF StringHolds
<1>2. n \in Nat /\ x \in Seq(Int) /\ Len(x) = n /\ Len(w[o]) + Len(e) <= u.capacity
  BY <1>1
<1>3. m \in StringMems
  BY DEF StringSound
<1> HIDE DEF x, u
<1>4. StringSpells(Y, x, u.capacity) /\ Y \in StringCells /\ Y # Unused
  <2>1. StringSpells(Y, x, u.capacity)
    BY <1>1, <1>2, StringExtended DEF x
  <2> QED
    BY <2>1, MarksAssumption DEF StringSpells, StringCells
<1> HIDE DEF Y
<1>5. /\ r \in StringRecords /\ r.is_sso = u.is_sso /\ r.ptr = u.ptr /\ r.length = n /\ r.capacity = u.capacity
      /\ (u.is_sso => r.cells = Y)
  <2>1. CASE u.is_sso
    <3>1. r = [u EXCEPT !.cells = Y, !.length = n]
      BY <2>1
    <3> HIDE DEF r
    <3> QED
      BY <2>1, <3>1, <1>1, <1>2, <1>4 DEF StringRecords
  <2>2. CASE ~u.is_sso
    <3>1. r = [u EXCEPT !.length = n]
      BY <2>2
    <3> HIDE DEF r
    <3> QED
      BY <2>2, <3>1, <1>1, <1>2 DEF StringRecords
  <2> QED
    BY <2>1, <2>2
<1>6. r # Dead
  BY <1>5, MarksAssumption DEF StringRecords, StringCells
<1>7. /\ q \in StringMems /\ (~u.is_sso => q[d] = Y)
      /\ \A z \in HeapBlocks : ~(~u.is_sso /\ z = d) => q[z] = m[z]
  <2>1. CASE u.is_sso
    BY <2>1, <1>3
  <2>2. CASE ~u.is_sso
    <3>1. q = [m EXCEPT ![d] = Y] /\ d \in HeapBlocks
      BY <2>2, <1>1
    <3> HIDE DEF q
    <3> QED
      BY <2>2, <3>1, <1>3, <1>4 DEF StringMems
  <2> QED
    BY <2>1, <2>2
<1>8. r = IF u.is_sso THEN [u EXCEPT !.cells = Str!Overwrite(@, u.length, e), !.length = n]
          ELSE [u EXCEPT !.length = n]
  BY DEF Y, StringText
<1>9. q = IF u.is_sso THEN m ELSE [m EXCEPT ![u.ptr] = Str!Overwrite(m[u.ptr], u.length, e)]
  BY DEF Y, StringText
<1> HIDE DEF q, r
<1>10. StringHolds(q, r, x)
  <2>1. StringText(q, r) = Y
    BY <1>5, <1>7 DEF StringText
  <2> QED
    BY <2>1, <1>1, <1>2, <1>4, <1>5 DEF StringHolds
<1>11. ASSUME NEW p \in StringNames \ {o}, StringHeaped(ob, p)
       PROVE  q[ob[p].ptr] = m[ob[p].ptr] /\ (~r.is_sso => r.ptr # ob[p].ptr)
  <2>1. ob[p].ptr \in HeapBlocks
    BY <1>11, StringRecord DEF StringHeaped
  <2>2. ~(~u.is_sso /\ ob[p].ptr = d)
    BY <1>11 DEF StringSound, StringHeaped, u
  <2> QED
    BY <2>1, <2>2, <1>5, <1>7
<1>12. ASSUME NEW z \in HeapBlocks, q[z] # Unused
       PROVE  (~r.is_sso /\ r.ptr = z) \/ \E p \in StringNames \ {o} : StringHeaped(ob, p) /\ ob[p].ptr = z
  <2>1. CASE ~u.is_sso /\ z = d
    BY <2>1, <1>5
  <2>2. CASE ~(~u.is_sso /\ z = d)
    <3>1. m[z] # Unused
      BY <2>2, <1>7, <1>12
    <3>2. PICK p \in StringNames : StringHeaped(ob, p) /\ ob[p].ptr = z
      BY <3>1 DEF StringSound
    <3>3. p # o
      BY <2>2, <3>2 DEF StringHeaped, u
    <3> QED
      BY <3>2, <3>3
  <2> QED
    BY <2>1, <2>2
<1>13. StringSound([ob EXCEPT ![o] = r], q, [w EXCEPT ![o] = x])
  <2>1. \A p \in StringNames \ {o} : StringHeaped(ob, p) => q[ob[p].ptr] = m[ob[p].ptr]
    BY <1>11
  <2>2. r # Dead /\ ~r.is_sso => \A p \in StringNames \ {o} : StringHeaped(ob, p) => r.ptr # ob[p].ptr
    BY <1>11
  <2>3. \A z \in HeapBlocks : q[z] # Unused =>
            \/ r # Dead /\ ~r.is_sso /\ r.ptr = z
            \/ \E p \in StringNames \ {o} : StringHeaped(ob, p) /\ ob[p].ptr = z
    BY <1>6, <1>12
  <2>4. r \in StringRecords \cup {Dead} /\ q \in StringMems
    BY <1>5, <1>7
  <2> QED
    BY <2>1, <2>2, <2>3, <2>4, <1>2, <1>10, StringUpdate, Zenon
<1>14. CASE u.is_sso
  <2>1. /\ r = [u EXCEPT !.cells = Str!Overwrite(@, u.length, e), !.length = n] /\ q = m
    BY <1>8, <1>9, <1>14
  <2> QED
    BY <2>1, <1>13, <1>14 DEF u, x
<1>15. CASE ~u.is_sso
  <2>1. /\ r = [u EXCEPT !.length = n] /\ q = [m EXCEPT ![u.ptr] = Str!Overwrite(m[u.ptr], u.length, e)]
    BY <1>8, <1>9, <1>15
  <2> QED
    BY <2>1, <1>13, <1>15 DEF u, x
<1> QED
  BY <1>14, <1>15 DEF u

\* append adds the characters that its source reads as when it is called.
LEMMA StringAppend ==
    ASSUME NEW s, NEW ob, NEW m, NEW w, s = StringState(ob, m), StringSound(ob, m, w),
           NEW o \in StringNames, ob[o] # Dead,
           NEW src, NEW e \in Seq(Int), src.len = Len(e), Str!Read(s, src) = e
    PROVE  StringIs(Str!append(s, o, src), [w EXCEPT ![o] = w[o] \o e])
<1> DEFINE u == ob[o]
           n == u.length + Len(e)
           cap == Str!NewCapacity(n, u.is_sso)
           w2 == [w EXCEPT ![o] = w[o] \o e]
           Y == Str!Overwrite(StringText(m, u), u.length, e)
<1>1. /\ u.is_sso \in BOOLEAN /\ u.capacity \in Nat /\ u.length \in Nat
      /\ w[o] \in Seq(Int) /\ u.length = Len(w[o])
  BY StringRecord DEF StringHolds
<1>2. s.obj[o] = u /\ s.mem = m /\ n \in Nat /\ Len(e) \in Nat
  BY <1>1, StringStateFields
<1>3. CASE Len(e) = 0
  <2>1. w2 = w
    <3>1. w[o] \o e = w[o]
      BY <1>1, <1>3
    <3> QED
      BY <3>1 DEF StringSound
  <2>2. Str!append(s, o, src) = s
    BY <1>3 DEF Str!append
  <2> HIDE DEF w2
  <2>3. StringIs(Str!append(s, o, src), w2)
    BY <2>1, <2>2 DEF StringIs
  <2> QED
    BY <2>3 DEF w2
<1>4. CASE Len(e) # 0 /\ n > u.capacity
  <2> DEFINE y == Str!Overwrite(Str!RawCells(cap + 1), 0, w[o] \o e)
  <2>1. Str!append(s, o, src) = Str!MoveToHeap(s, o, src)
    BY <1>2, <1>4 DEF Str!append
  <2>2. cap \in Nat /\ n <= cap
    BY <1>1, <1>2, StringCapacity
  <2>3. PICK b \in HeapBlocks :
           /\ m[b] = Unused
           /\ Str!MoveToHeap(s, o, src)
                = StringState([ob EXCEPT ![o] = Str!OnHeap(b, n, cap)], StringMoved(ob, m, o, b, y))
    <3> HIDE DEF n, cap, y
    <3>1. /\ n = ob[o].length + src.len /\ y = Str!Overwrite(Str!RawCells(cap + 1), 0, w[o] \o e)
          /\ cap = Str!NewCapacity(n, ob[o].is_sso) /\ src.len \in Nat
      <4>1. n = ob[o].length + src.len /\ src.len \in Nat
        BY <1>2 DEF n
      <4>2. y = Str!Overwrite(Str!RawCells(cap + 1), 0, w[o] \o e)
        BY DEF y
      <4>3. cap = Str!NewCapacity(n, ob[o].is_sso)
        BY DEF cap
      <4> QED
        BY <4>1, <4>2, <4>3
    <3>2. Str!Read(StringState(ob, m), src) = e
      OBVIOUS
    <3>3. \E b \in HeapBlocks :
             /\ m[b] = Unused
             /\ Str!MoveToHeap(StringState(ob, m), o, src)
                  = StringState([ob EXCEPT ![o] = Str!OnHeap(b, n, cap)], StringMoved(ob, m, o, b, y))
      BY <3>1, <3>2, StringMoveIs
    <3> QED
      BY <3>3, Zenon
  <2>4. StringSound([ob EXCEPT ![o] = Str!OnHeap(b, n, cap)], StringMoved(ob, m, o, b, y), w2)
    <3> HIDE DEF n, cap, y
    <3>1. n = ob[o].length + Len(e) /\ y = Str!Overwrite(Str!RawCells(cap + 1), 0, w[o] \o e)
      BY DEF n, y
    <3> QED
      BY <3>1, <2>2, <2>3, StringToHeap, Zenon
  <2> HIDE DEF w2, y, n, cap
  <2>5. StringIs(Str!append(s, o, src), w2)
    BY <2>1, <2>3, <2>4, Zenon DEF StringIs
  <2> QED
    BY <2>5 DEF w2
<1>5. CASE Len(e) # 0 /\ ~(n > u.capacity) /\ u.is_sso
  <2> DEFINE r == [u EXCEPT !.cells = Str!Overwrite(@, u.length, e), !.length = n]
             ob2 == [ob EXCEPT ![o] = r]
  <2>1. Str!append(s, o, src) = Str!SetObject(s, o, r)
    BY <1>2, <1>5 DEF Str!append
  <2>2. StringSound(ob2, m, w2)
    <3>1. n <= ob[o].capacity
      BY <1>1, <1>2, <1>5
    <3> QED
      BY <3>1, <1>5, StringInPlace
  <2>3. Str!SetObject(s, o, r) = StringState(ob2, m)
    <3> HIDE DEF r
    <3> QED
      BY StringStateObject
  <2> HIDE DEF w2, ob2, r
  <2>4. StringIs(Str!append(s, o, src), w2)
    BY <2>1, <2>2, <2>3, Zenon DEF StringIs
  <2> QED
    BY <2>4 DEF w2
<1>6. CASE Len(e) # 0 /\ ~(n > u.capacity) /\ ~u.is_sso
  <2> DEFINE r == [u EXCEPT !.length = n]
             ob2 == [ob EXCEPT ![o] = r]
             Z == Str!Overwrite(m[u.ptr], u.length, e)
             q == [m EXCEPT ![u.ptr] = Z]
  <2>1. Str!append(s, o, src) = Str!SetObject(Str!Store(s, u.ptr, Z), o, r)
    BY <1>2, <1>6 DEF Str!append
  <2>2. StringSound(ob2, q, w2)
    <3>1. n <= ob[o].capacity
      BY <1>1, <1>2, <1>6
    <3> QED
      BY <3>1, <1>6, StringInPlace
  <2> HIDE DEF r, Z, u
  <2>3. Str!Store(s, u.ptr, Z) = StringState(ob, q)
    BY StringStateStore
  <2> HIDE DEF q
  <2>4. Str!SetObject(StringState(ob, q), o, r) = StringState(ob2, q)
    BY StringStateObject
  <2> HIDE DEF w2, ob2
  <2>5. StringIs(Str!append(s, o, src), w2)
    BY <2>1, <2>2, <2>3, <2>4, Zenon DEF StringIs
  <2> QED
    BY <2>5 DEF w2
<1> QED
  BY <1>3, <1>4, <1>5, <1>6

\* The inductive invariant of the strings.
StringInv == strFault = {} /\ StringSound(strObj, strMem, strValue)

LEMMA StringCurrent ==
    ASSUME StringInv
    PROVE  Str!State = StringState(strObj, strMem) /\ StringSound(strObj, strMem, strValue)
BY DEF StringInv, StringState, Str!State

LEMMA StringStep ==
    ASSUME NEW s, NEW w, StringIs(s, w), Str!Becomes(s), strValue' = w
    PROVE  StringInv'
<1>1. PICK ob, m : s = StringState(ob, m) /\ StringSound(ob, m, w)
  BY DEF StringIs
<1>2. strObj' = ob /\ strMem' = m /\ strFault' = {}
  BY <1>1, StringStateFields DEF Str!Becomes
<1>3. StringSound(strObj', strMem', strValue')
  BY <1>1, <1>2, Zenon
<1> QED
  BY <1>2, <1>3 DEF StringInv, StringSound, StringObjs, StringMems, StringRecords, StringCells, StringHolds,
                    StringSpells, StringText, StringHeaped

LEMMA StringStutter ==
    ASSUME StringInv, UNCHANGED strVars
    PROVE  StringInv'
<1>1. Str!State = StringState(strObj, strMem) /\ StringSound(strObj, strMem, strValue) /\ strFault = {}
  BY StringCurrent DEF StringInv
<1>2. StringIs(Str!State, strValue)
  BY <1>1, Zenon DEF StringIs
<1>3. Str!Becomes(Str!State) /\ strValue' = strValue
  BY DEF strVars, Str!Becomes, Str!State
<1> QED
  BY <1>2, <1>3, StringStep, Zenon

\* In the state s the string o is empty and the others are as they are now.
StringEmptied(s, ob, m, o) ==
    /\ s = StringState(ob, m) /\ StringSound(ob, m, [strValue EXCEPT ![o] = <<>>]) /\ ob[o] = Str!Fresh
    /\ \A p \in StringNames \ {o} : ob[p] = strObj[p]

LEMMA StringBegins ==
    ASSUME StringInv, NEW o \in StringNames, ~Str!Live(o)
    PROVE  \E ob, m : StringEmptied(Str!Begin(o), ob, m, o)
<1> DEFINE ob == [strObj EXCEPT ![o] = Str!Fresh]
           w == [strValue EXCEPT ![o] = <<>>]
<1>1. Str!State = StringState(strObj, strMem) /\ StringSound(strObj, strMem, strValue)
  BY StringCurrent
<1>2. ob[o] = Str!Fresh /\ \A p \in StringNames \ {o} : ob[p] = strObj[p]
  BY <1>1 DEF StringSound, StringObjs
<1>3. StringFreed(strObj, strMem, o) = strMem
  BY DEF StringFreed, StringHeaped, Str!Live
<1>4. StringSound(ob, strMem, w)
  <2>1. StringSound(ob, StringFreed(strObj, strMem, o), w)
    BY <1>1, StringRid
  <2> HIDE DEF ob, w
  <2> QED
    BY <2>1, <1>3
<1>5. Str!SetObject(StringState(strObj, strMem), o, Str!Fresh) = StringState(ob, strMem)
  BY StringStateObject
<1> HIDE DEF ob
<1>6. Str!Begin(o) = StringState(ob, strMem)
  BY <1>1, <1>5 DEF Str!Begin
<1> QED
  BY <1>2, <1>4, <1>6 DEF StringEmptied

LEMMA StringClears ==
    ASSUME StringInv, NEW o \in StringNames, Str!Live(o)
    PROVE  \E ob, m : StringEmptied(Str!clear(Str!State, o), ob, m, o)
<1> DEFINE ob == [strObj EXCEPT ![o] = Str!Fresh]
           m == StringFreed(strObj, strMem, o)
           w == [strValue EXCEPT ![o] = <<>>]
<1>1. Str!State = StringState(strObj, strMem) /\ StringSound(strObj, strMem, strValue) /\ strObj[o] # Dead
  BY StringCurrent DEF Str!Live
<1>2. ob[o] = Str!Fresh /\ \A p \in StringNames \ {o} : ob[p] = strObj[p]
  BY <1>1 DEF StringSound, StringObjs
<1>3. StringSound(ob, m, w)
  BY <1>1, StringRid
<1>4. Str!clear(StringState(strObj, strMem), o) = StringState(ob, m)
  BY <1>1, StringClearIs
<1> HIDE DEF ob, m
<1>5. Str!clear(Str!State, o) = StringState(ob, m)
  BY <1>1, <1>4, Zenon
<1> QED
  BY <1>2, <1>3, <1>5 DEF StringEmptied

\* An empty string is filled from a source.
LEMMA StringFills ==
    ASSUME NEW s, NEW ob, NEW m, NEW o \in StringNames, StringEmptied(s, ob, m, o), StringInv,
           NEW src, NEW e \in Seq(Int), src.len = Len(e), Str!Read(s, src) = e,
           Str!Becomes(Str!append(s, o, src)), strValue' = [strValue EXCEPT ![o] = e]
    PROVE  StringInv'
<1> DEFINE w == [strValue EXCEPT ![o] = <<>>]
           w2 == [w EXCEPT ![o] = w[o] \o e]
<1>1. s = StringState(ob, m) /\ StringSound(ob, m, w) /\ ob[o] # Dead
  BY StringFresh DEF StringEmptied
<1>2. w2 = strValue'
  <2>1. strValue \in [StringNames -> Seq(Int)]
    BY DEF StringInv, StringSound
  <2>2. w[o] \o e = e
    BY <2>1
  <2> QED
    BY <2>1, <2>2
<1> HIDE DEF w
<1>3. StringIs(Str!append(s, o, src), w2)
  BY <1>1, StringAppend, Zenon
<1> HIDE DEF w2
<1> QED
  BY <1>2, <1>3, StringStep, Zenon

LEMMA StringLiteral ==
    ASSUME NEW s, NEW e
    PROVE  Str!Literal(e).len = Len(e) /\ Str!Read(s, Str!Literal(e)) = e
BY DEF Str!Literal, Str!Read

\* A view of a live string, in a state in which that string is as it is now.
LEMMA StringViews ==
    ASSUME StringInv, NEW p \in StringNames, Str!Live(p), NEW off \in Nat, NEW len \in Nat,
           off + len <= strObj[p].length,
           NEW s, NEW ob, NEW m, NEW w, s = StringState(ob, m), StringSound(ob, m, w), ob[p] = strObj[p], w[p] = strValue[p]
    PROVE  /\ Str!View(p, off, len).len = len /\ Str!Read(s, Str!View(p, off, len)) = Str!Part(p, off, len)
           /\ Str!Part(p, off, len) \in Seq(Int) /\ Len(Str!Part(p, off, len)) = len
<1> DEFINE src == Str!View(p, off, len)
<1>1. Str!State = StringState(strObj, strMem) /\ StringSound(strObj, strMem, strValue) /\ strObj[p] # Dead
  BY StringCurrent DEF Str!Live
<1>2. Str!c_str(StringState(strObj, strMem), p) = (IF strObj[p].is_sso THEN p ELSE strObj[p].ptr)
  BY <1>1, StringAt
<1>3. src.base = StringBase(ob[p], p) /\ src.off = off /\ src.len = len
  <2>1. Str!c_str(Str!State, p) = StringBase(ob[p], p)
    BY <1>1, <1>2, Zenon DEF StringBase
  <2> QED
    BY <2>1 DEF Str!View
<1> HIDE DEF src
<1>4. ob[p] # Dead /\ off + len <= ob[p].length
  BY <1>1
<1>5. /\ Str!Read(StringState(ob, m), src) = StringPart(w[p], off, len)
      /\ StringPart(w[p], off, len) \in Seq(Int) /\ Len(StringPart(w[p], off, len)) = len
  BY <1>3, <1>4, StringReads
<1>6. Str!Part(p, off, len) = StringPart(w[p], off, len)
  BY DEF Str!Part, StringPart
<1> QED
  BY <1>3, <1>5, <1>6, Zenon DEF src

\* The same for a view in a state in which another string was emptied.
LEMMA StringViewsOther ==
    ASSUME StringInv, NEW p \in StringNames, Str!Live(p), NEW off \in Nat, NEW len \in Nat,
           off + len <= strObj[p].length,
           NEW o \in StringNames \ {p}, NEW s, NEW ob, NEW m, StringEmptied(s, ob, m, o)
    PROVE  /\ Str!View(p, off, len).len = len /\ Str!Read(s, Str!View(p, off, len)) = Str!Part(p, off, len)
           /\ Str!Part(p, off, len) \in Seq(Int) /\ Len(Str!Part(p, off, len)) = len
<1> DEFINE w == [strValue EXCEPT ![o] = <<>>]
<1>1. s = StringState(ob, m) /\ StringSound(ob, m, w) /\ ob[p] = strObj[p]
  BY DEF StringEmptied
<1>2. w[p] = strValue[p]
  BY DEF StringInv, StringSound
<1> HIDE DEF w
<1> QED
  BY <1>1, <1>2, StringViews

\* The calls that begin or replace the value of a string.
LEMMA StringSets ==
    ASSUME StringInv, NEW o \in StringNames,
           \/ \E chars \in Literals : Str!Construct(o, chars)
           \/ \E p \in StringNames : Str!AssignCopy(o, p)
           \/ \E p \in StringNames : \E off, len \in 0 .. MaxLength : Str!ConstructView(o, p, off, len)
    PROVE  StringInv'
<1>1. Str!State = StringState(strObj, strMem) /\ StringSound(strObj, strMem, strValue)
  BY StringCurrent
<1>2. ASSUME NEW chars \in Literals, Str!Construct(o, chars) PROVE StringInv'
  <2>1. /\ ~Str!Live(o) /\ Str!Becomes(Str!append(Str!Begin(o), o, Str!Literal(chars)))
        /\ strValue' = [strValue EXCEPT ![o] = chars] /\ chars \in Seq(Int)
    BY <1>2, ContainersAssumption DEF Str!Construct, Str!Expect
  <2>2. PICK ob, m : StringEmptied(Str!Begin(o), ob, m, o)
    BY <2>1, StringBegins
  <2>3. Str!Literal(chars).len = Len(chars) /\ Str!Read(Str!Begin(o), Str!Literal(chars)) = chars
    BY StringLiteral
  <2> QED
    BY <2>1, <2>2, <2>3, StringFills, Zenon
<1>3. ASSUME NEW p \in StringNames, Str!AssignCopy(o, p) PROVE StringInv'
  <2>1. Str!Live(o) /\ Str!Live(p) /\ strValue' = [strValue EXCEPT ![o] = strValue[p]]
    BY <1>3 DEF Str!AssignCopy, Str!Expect
  <2>2. CASE o = p
    <3>1. Str!Becomes(Str!State)
      BY <2>2, <1>3 DEF Str!AssignCopy
    <3>2. strValue' = strValue
      BY <2>1, <2>2, <1>1 DEF StringSound
    <3>3. StringIs(Str!State, strValue)
      BY <1>1 DEF StringIs
    <3> QED
      BY <3>1, <3>2, <3>3, StringStep, Zenon
  <2>3. CASE o # p
    <3> DEFINE s == Str!clear(Str!State, o)
               len == strObj[p].length
               e == Str!Part(p, 0, len)
    <3>1. Str!Becomes(Str!append(s, o, Str!View(p, 0, len)))
      BY <2>3, <1>3 DEF Str!AssignCopy, Str!Whole
    <3>2. PICK ob, m : StringEmptied(s, ob, m, o)
      BY <2>1, StringClears
    <3>3. len \in Nat /\ len = Len(strValue[p]) /\ strValue[p] \in Seq(Int)
      BY <2>1, <1>1, StringRecord DEF StringHolds, Str!Live
    <3>4. e = strValue[p] /\ 0 \in Nat /\ 0 + len <= len
      BY <3>3 DEF Str!Part
    <3> HIDE DEF s
    <3>5. /\ Str!View(p, 0, len).len = len /\ Str!Read(s, Str!View(p, 0, len)) = e
          /\ e \in Seq(Int) /\ Len(e) = len
      BY <2>1, <2>3, <3>2, <3>3, <3>4, StringViewsOther
    <3>6. strValue' = [strValue EXCEPT ![o] = e]
      BY <3>4, <2>1
    <3> HIDE DEF e, len
    <3> QED
      BY <3>1, <3>2, <3>5, <3>6, StringFills, Zenon
  <2> QED
    BY <2>2, <2>3
<1>4. ASSUME NEW p \in StringNames, NEW off \in 0 .. MaxLength, NEW len \in 0 .. MaxLength,
             Str!ConstructView(o, p, off, len)
      PROVE  StringInv'
  <2> DEFINE s == Str!Begin(o)
             e == Str!Part(p, off, len)
  <2>1. /\ ~Str!Live(o) /\ Str!Live(p) /\ off + len <= strObj[p].length
        /\ Str!Becomes(Str!append(s, o, Str!View(p, off, len)))
        /\ strValue' = [strValue EXCEPT ![o] = e] /\ o # p
    BY <1>4 DEF Str!ConstructView, Str!Expect
  <2>2. PICK ob, m : StringEmptied(s, ob, m, o)
    BY <2>1, StringBegins
  <2> HIDE DEF s
  <2>3. off \in Nat /\ len \in Nat
    OBVIOUS
  <2>4. /\ Str!View(p, off, len).len = len /\ Str!Read(s, Str!View(p, off, len)) = e
        /\ e \in Seq(Int) /\ Len(e) = len
    BY <2>1, <2>2, <2>3, StringViewsOther
  <2> HIDE DEF e
  <2> QED
    BY <2>1, <2>2, <2>4, StringFills, Zenon
<1> QED
  BY <1>2, <1>3, <1>4

\* The calls that add to a string, also what is in it already.
LEMMA StringAdds ==
    ASSUME StringInv, NEW o \in StringNames,
           \/ \E chars \in Literals : Str!AddLiteral(o, chars)
           \/ \E p \in StringNames : \E off, len \in 0 .. MaxLength : Str!AddView(o, p, off, len)
    PROVE  StringInv'
<1>1. Str!State = StringState(strObj, strMem) /\ StringSound(strObj, strMem, strValue) /\ strObj[o] # Dead
  BY StringCurrent DEF Str!AddLiteral, Str!AddView, Str!Live
<1>2. ASSUME NEW src, NEW e \in Seq(Int), src.len = Len(e), Str!Read(Str!State, src) = e,
             Str!Becomes(Str!append(Str!State, o, src)), strValue' = [strValue EXCEPT ![o] = strValue[o] \o e]
      PROVE  StringInv'
  <2>1. StringIs(Str!append(Str!State, o, src), [strValue EXCEPT ![o] = strValue[o] \o e])
    BY <1>1, <1>2, StringAppend, Zenon
  <2> QED
    BY <2>1, <1>2, StringStep, Zenon
<1>3. ASSUME NEW chars \in Literals, Str!AddLiteral(o, chars) PROVE StringInv'
  <2>1. /\ Str!Becomes(Str!append(Str!State, o, Str!Literal(chars)))
        /\ strValue' = [strValue EXCEPT ![o] = strValue[o] \o chars] /\ chars \in Seq(Int)
    BY <1>3, ContainersAssumption DEF Str!AddLiteral, Str!Expect
  <2>2. Str!Literal(chars).len = Len(chars) /\ Str!Read(Str!State, Str!Literal(chars)) = chars
    BY StringLiteral
  <2> QED
    BY <2>1, <2>2, <1>2, Zenon
<1>4. ASSUME NEW p \in StringNames, NEW off \in 0 .. MaxLength, NEW len \in 0 .. MaxLength,
             Str!AddView(o, p, off, len)
      PROVE  StringInv'
  <2> DEFINE e == Str!Part(p, off, len)
  <2>1. /\ Str!Live(p) /\ off + len <= strObj[p].length
        /\ Str!Becomes(Str!append(Str!State, o, Str!View(p, off, len)))
        /\ strValue' = [strValue EXCEPT ![o] = strValue[o] \o e]
    BY <1>4 DEF Str!AddView, Str!Expect
  <2>2. off \in Nat /\ len \in Nat
    OBVIOUS
  <2>3. /\ Str!View(p, off, len).len = len /\ Str!Read(Str!State, Str!View(p, off, len)) = e
        /\ e \in Seq(Int) /\ Len(e) = len
    BY <2>1, <2>2, <1>1, StringViews
  <2> HIDE DEF e
  <2> QED
    BY <2>1, <2>3, <1>2, Zenon
<1> QED
  BY <1>3, <1>4

\* The calls that hand the storage of a string over to another.
LEMMA StringMoves ==
    ASSUME StringInv, NEW o \in StringNames, NEW p \in StringNames,
           Str!ConstructMove(o, p) \/ Str!AssignMove(o, p)
    PROVE  StringInv'
<1>1. Str!State = StringState(strObj, strMem) /\ StringSound(strObj, strMem, strValue)
  BY StringCurrent
<1>2. ASSUME NEW s, NEW ob, NEW m, NEW w, s = StringState(ob, m), StringSound(ob, m, w), o # p,
             ~StringHeaped(ob, o), ob[p] # Dead, Str!Becomes(Str!Take(s, o, p)),
             strValue' = [w EXCEPT ![o] = w[p], ![p] = <<>>]
      PROVE  StringInv'
  <2> DEFINE ob1 == [ob EXCEPT ![o] = ob[p]]
             ob2 == [ob1 EXCEPT ![p] = Str!Fresh]
             w2 == [w EXCEPT ![o] = w[p], ![p] = <<>>]
  <2>1. StringSound(ob2, m, w2)
    BY <1>2, StringMove
  <2>2. Str!Take(s, o, p) = Str!SetObject(Str!SetObject(s, o, ob[p]), p, Str!Fresh)
    BY <1>2, StringStateFields DEF Str!Take, Str!Reset
  <2>3. Str!SetObject(StringState(ob, m), o, ob[p]) = StringState(ob1, m)
    BY StringStateObject
  <2> HIDE DEF ob1
  <2>4. Str!SetObject(StringState(ob1, m), p, Str!Fresh) = StringState(ob2, m)
    BY StringStateObject
  <2> HIDE DEF ob2, w2
  <2>5. Str!Take(s, o, p) = StringState(ob2, m)
    BY <2>2, <2>3, <2>4, <1>2, Zenon
  <2>6. StringIs(Str!Take(s, o, p), w2)
    BY <2>1, <2>5, Zenon DEF StringIs
  <2>7. strValue' = w2
    BY <1>2 DEF w2
  <2> QED
    BY <2>6, <2>7, <1>2, StringStep, Zenon
<1>3. CASE Str!ConstructMove(o, p)
  <2>1. /\ ~Str!Live(o) /\ Str!Live(p) /\ Str!Becomes(Str!Take(Str!State, o, p))
        /\ strValue' = [strValue EXCEPT ![o] = strValue[p], ![p] = <<>>]
    BY <1>3 DEF Str!ConstructMove
  <2>2. o # p /\ ~StringHeaped(strObj, o) /\ strObj[p] # Dead
    BY <2>1 DEF Str!Live, StringHeaped
  <2> QED
    BY <2>1, <2>2, <1>1, <1>2, Zenon
<1>4. CASE Str!AssignMove(o, p) /\ o = p
  <2>1. UNCHANGED strVars
    BY <1>4 DEF Str!AssignMove, Str!vars, strVars
  <2> QED
    BY <2>1, StringStutter
<1>5. CASE Str!AssignMove(o, p) /\ o # p
  <2> DEFINE s == Str!clear(Str!State, o)
             w == [strValue EXCEPT ![o] = <<>>]
  <2>1. /\ Str!Live(o) /\ Str!Live(p) /\ Str!Becomes(Str!Take(s, o, p))
        /\ strValue' = [strValue EXCEPT ![o] = strValue[p], ![p] = <<>>]
    BY <1>5 DEF Str!AssignMove
  <2>2. PICK ob, m : StringEmptied(s, ob, m, o)
    BY <2>1, StringClears
  <2> HIDE DEF s
  <2>3. /\ s = StringState(ob, m) /\ StringSound(ob, m, w) /\ ~StringHeaped(ob, o) /\ ob[p] # Dead
    <3>1. s = StringState(ob, m) /\ StringSound(ob, m, w) /\ ob[o] = Str!Fresh
      BY <2>2 DEF StringEmptied
    <3>2. ob[p] = strObj[p]
      BY <2>2, <1>5 DEF StringEmptied
    <3>3. ~StringHeaped(ob, o)
      BY <3>1, StringFresh DEF StringHeaped
    <3> QED
      BY <3>1, <3>2, <3>3, <2>1 DEF Str!Live
  <2>4. strValue' = [w EXCEPT ![o] = w[p], ![p] = <<>>]
    <3>1. strValue \in [StringNames -> Seq(Int)]
      BY <1>1 DEF StringSound
    <3>2. w[p] = strValue[p]
      BY <3>1, <1>5
    <3>3. [w EXCEPT ![o] = strValue[p], ![p] = <<>>] = [strValue EXCEPT ![o] = strValue[p], ![p] = <<>>]
      BY <3>1, <1>5
    <3> HIDE DEF w
    <3> QED
      BY <3>2, <3>3, <2>1, Zenon
  <2> HIDE DEF w
  <2> QED
    BY <2>1, <2>3, <2>4, <1>2, <1>5, Zenon
<1> QED
  BY <1>3, <1>4, <1>5

\* The calls that empty a string or end it.
LEMMA StringEnds ==
    ASSUME StringInv, NEW o \in StringNames, Str!Clear(o) \/ Str!Destroy(o)
    PROVE  StringInv'
<1> DEFINE s == Str!clear(Str!State, o)
           w == [strValue EXCEPT ![o] = <<>>]
<1>1. Str!Live(o) /\ strValue' = w
  BY DEF Str!Clear, Str!Destroy, Str!Expect
<1>2. PICK ob, m : StringEmptied(s, ob, m, o)
  BY <1>1, StringClears
<1>3. s = StringState(ob, m) /\ StringSound(ob, m, w) /\ ob[o] = Str!Fresh
  BY <1>2 DEF StringEmptied
<1>4. CASE Str!Clear(o)
  <2>1. Str!Becomes(s)
    BY <1>4 DEF Str!Clear
  <2> HIDE DEF s, w
  <2>2. StringIs(s, w)
    BY <1>3 DEF StringIs
  <2> QED
    BY <2>1, <2>2, <1>1, StringStep, Zenon
<1>5. CASE Str!Destroy(o)
  <2> DEFINE ob2 == [ob EXCEPT ![o] = Dead]
             t == Str!SetObject(s, o, Dead)
  <2>1. Str!Becomes(t)
    BY <1>5 DEF Str!Destroy
  <2>2. StringFreed(ob, m, o) = m
    BY <1>3, StringFresh DEF StringFreed, StringHeaped
  <2>3. [w EXCEPT ![o] = <<>>] = w
    <3>1. strValue \in [StringNames -> Seq(Int)]
      BY DEF StringInv, StringSound
    <3> QED
      BY <3>1
  <2> HIDE DEF s, w
  <2>4. StringSound(ob2, StringFreed(ob, m, o), [w EXCEPT ![o] = <<>>])
    BY <1>3, StringRid
  <2>5. Str!SetObject(StringState(ob, m), o, Dead) = StringState(ob2, m)
    BY StringStateObject
  <2> HIDE DEF ob2
  <2>6. t = StringState(ob2, m) /\ StringSound(ob2, m, w)
    BY <2>2, <2>3, <2>4, <2>5, <1>3, Zenon
  <2> HIDE DEF t
  <2>7. StringIs(t, w)
    BY <2>6, Zenon DEF StringIs
  <2> QED
    BY <2>1, <2>7, <1>1, StringStep, Zenon
<1> QED
  BY <1>4, <1>5

LEMMA StringInit == Str!Init => StringInv
<1> SUFFICES ASSUME Str!Init PROVE StringInv
  OBVIOUS
<1>1. strMem \in StringMems /\ \A b \in HeapBlocks : strMem[b] = Unused
  BY DEF Str!Init, StringMems
<1>2. strObj \in StringObjs /\ strValue \in [StringNames -> Seq(Int)] /\ \A o \in StringNames : strObj[o] = Dead
  BY DEF Str!Init, StringObjs
<1>3. strFault = {}
  BY DEF Str!Init
<1> QED
  BY <1>1, <1>2, <1>3 DEF StringInv, StringSound, StringHeaped

LEMMA StringNext == StringInv /\ Str!Next => StringInv'
<1> SUFFICES ASSUME StringInv, Str!Next PROVE StringInv'
  OBVIOUS
<1> QED
  BY StringSets, StringAdds, StringMoves, StringEnds DEF Str!Next

LEMMA StringExact == StringInv => Str!ContentExact /\ Str!OwnedOnce
<1> SUFFICES ASSUME StringInv PROVE Str!ContentExact /\ Str!OwnedOnce
  OBVIOUS
<1>1. Str!State = StringState(strObj, strMem) /\ StringSound(strObj, strMem, strValue) /\ strFault = {}
  BY StringCurrent DEF StringInv
<1>2. ASSUME NEW o \in StringNames, Str!Live(o)
      PROVE  /\ Str!Chars(o) = strValue[o] /\ Str!At(Str!State, Str!c_str(Str!State, o), strObj[o].length + 1) = Nul
             /\ strValue[o] \in Seq(Int)
             /\ strObj[o] \in StringRecords
             /\ ~strObj[o].is_sso => /\ strObj[o].ptr \in HeapBlocks /\ strMem[strObj[o].ptr] # Unused
                                     /\ Len(strMem[strObj[o].ptr]) = strObj[o].capacity + 1
  <2> DEFINE y == StringText(strMem, strObj[o])
             e == strValue[o]
  <2>1. strObj[o] # Dead
    BY <1>2 DEF Str!Live
  <2>2. e \in Seq(Int) /\ strObj[o].length = Len(e) /\ StringSpells(y, e, strObj[o].capacity)
        /\ (~strObj[o].is_sso => strObj[o].ptr \in HeapBlocks /\ strMem[strObj[o].ptr] # Unused)
        /\ strObj[o] \in StringRecords
    BY <2>1, <1>1, StringRecord DEF StringHolds
  <2>3. \A i : Str!At(Str!State, Str!c_str(Str!State, o), i) = y[i]
    BY <2>1, <1>1, StringAt
  <2>4. ~strObj[o].is_sso => Len(strMem[strObj[o].ptr]) = strObj[o].capacity + 1
    BY <2>2 DEF StringSpells, StringText
  <2> HIDE DEF y, e
  <2>5. [k \in 1 .. Len(e) |-> y[k]] = e
    BY <2>2, StringSpellsText
  <2>6. Str!Chars(o) = [i \in 1 .. Len(e) |-> Str!At(Str!State, Str!c_str(Str!State, o), i)]
    BY <2>2 DEF Str!Chars
  <2>7. Str!Chars(o) = e
    BY <2>3, <2>5, <2>6
  <2>8. y[strObj[o].length + 1] = Nul
    BY <2>2 DEF StringSpells
  <2> QED
    BY <2>2, <2>3, <2>4, <2>7, <2>8 DEF e
<1>3. Str!ContentExact
  BY <1>2 DEF Str!ContentExact, Str!LiveObjects
<1>4. ASSUME NEW b \in HeapBlocks, strMem[b] # Unused
      PROVE  \E o \in Str!LiveObjects : ~strObj[o].is_sso /\ strObj[o].ptr = b /\ Len(strMem[b]) = strObj[o].capacity + 1
  <2>1. PICK o \in StringNames : StringHeaped(strObj, o) /\ strObj[o].ptr = b
    BY <1>1, <1>4 DEF StringSound
  <2>2. Str!Live(o) /\ ~strObj[o].is_sso
    BY <2>1 DEF StringHeaped, Str!Live
  <2> QED
    BY <2>1, <2>2, <1>2 DEF Str!LiveObjects
<1>5. \A o, p \in Str!LiveObjects : ~strObj[o].is_sso /\ ~strObj[p].is_sso /\ strObj[o].ptr = strObj[p].ptr => o = p
  BY <1>1 DEF StringSound, StringHeaped, Str!LiveObjects, Str!Live
<1>6. \A o \in Str!LiveObjects : ~strObj[o].is_sso => strMem[strObj[o].ptr] # Unused
  BY <1>2 DEF Str!LiveObjects
<1> QED
  BY <1>1, <1>3, <1>4, <1>5, <1>6 DEF Str!OwnedOnce

\* Two sequences of characters are equal or the first difference, or the end of the
\* shorter one, decides.
LEMMA LessIsTotal ==
    ASSUME NEW x \in Seq(Int), NEW y \in Seq(Int)
    PROVE  Str!OneHolds(Str!Less(x, y), Str!Equal(x, y), Str!Less(y, x))
<1>1. PICK a \in Nat, b \in Nat :
        /\ Len(x) = a /\ DOMAIN x = 1 .. a /\ Len(y) = b /\ DOMAIN y = 1 .. b
        /\ (\A k \in 1 .. a : x[k] \in Int) /\ (\A k \in 1 .. b : y[k] \in Int)
  OBVIOUS
<1> DEFINE D == {k \in Nat : k \in 1 .. a /\ k \in 1 .. b /\ x[k] # y[k]}
           A == Str!Less(x, y)
           B == Str!Less(y, x)
           E == Str!Equal(x, y)
<1>2. A <=> \/ \E i \in 1 .. a : i \in 1 .. b /\ x[i] < y[i] /\ \A k \in 1 .. i - 1 : x[k] = y[k]
            \/ a < b /\ \A k \in 1 .. a : x[k] = y[k]
  BY <1>1 DEF Str!Less
<1>5. B <=> \/ \E i \in 1 .. a : i \in 1 .. b /\ y[i] < x[i] /\ \A k \in 1 .. i - 1 : y[k] = x[k]
            \/ b < a /\ \A k \in 1 .. b : y[k] = x[k]
  BY <1>1 DEF Str!Less
<1>6. E <=> a = b /\ \A k \in 1 .. a : x[k] = y[k]
  BY <1>1 DEF Str!Equal
<1> HIDE DEF A, B, E
<1>3. CASE D = {}
  <2>1. \A k \in 1 .. a : k \in 1 .. b => x[k] = y[k]
    BY <1>3
  <2>2. ~(\E i \in 1 .. a : i \in 1 .. b /\ (x[i] < y[i] \/ y[i] < x[i]))
    BY <2>1, <1>1
  <2>3. (A <=> a < b) /\ (B <=> b < a) /\ (E <=> a = b)
    <3>1. CASE a < b
      BY <3>1, <2>1, <2>2, <1>1, <1>2, <1>5, <1>6
    <3>2. CASE a = b
      BY <3>2, <2>1, <2>2, <1>1, <1>2, <1>5, <1>6
    <3>3. CASE b < a
      BY <3>3, <2>1, <2>2, <1>1, <1>2, <1>5, <1>6
    <3> QED
      BY <3>1, <3>2, <3>3
  <2> QED
    BY <2>3 DEF Str!OneHolds, A, B, E
<1>4. CASE D # {}
  <2>1. PICK i \in D : \A k \in D : i <= k
    BY <1>4, MinExists
  <2>2. /\ i \in 1 .. a /\ i \in 1 .. b /\ x[i] # y[i] /\ x[i] \in Int /\ y[i] \in Int
        /\ \A k \in 1 .. i - 1 : x[k] = y[k]
    BY <2>1, <1>1
  <2> HIDE DEF D
  <2>3. ~E /\ ~(\A k \in 1 .. a : x[k] = y[k]) /\ ~(\A k \in 1 .. b : y[k] = x[k])
    BY <2>2, <1>6
  <2>4. \A j \in 1 .. a : j \in 1 .. b /\ x[j] # y[j] /\ (\A k \in 1 .. j - 1 : x[k] = y[k]) => j = i
    BY <2>2
  <2>5. CASE x[i] < y[i]
    <3>1. A
      BY <2>2, <2>5, <1>2
    <3>2. ASSUME NEW j \in 1 .. a, j \in 1 .. b, y[j] < x[j], \A k \in 1 .. j - 1 : y[k] = x[k] PROVE FALSE
      <4>1. x[j] \in Int /\ y[j] \in Int /\ x[j] # y[j]
        BY <3>2, <1>1
      <4>2. j = i
        BY <4>1, <3>2, <2>4
      <4> QED
        BY <4>2, <3>2, <2>2, <2>5
    <3>3. ~B
      BY <3>2, <2>3, <1>5
    <3> QED
      BY <3>1, <3>3, <2>3 DEF Str!OneHolds, A, B, E
  <2>6. CASE y[i] < x[i]
    <3>1. B
      BY <2>2, <2>6, <1>5
    <3>2. ASSUME NEW j \in 1 .. a, j \in 1 .. b, x[j] < y[j], \A k \in 1 .. j - 1 : x[k] = y[k] PROVE FALSE
      <4>1. x[j] \in Int /\ y[j] \in Int /\ x[j] # y[j]
        BY <3>2, <1>1
      <4>2. j = i
        BY <4>1, <3>2, <2>4
      <4> QED
        BY <4>2, <3>2, <2>2, <2>6
    <3>3. ~A
      BY <3>2, <2>3, <1>2
    <3> QED
      BY <3>1, <3>3, <2>3 DEF Str!OneHolds, A, B, E
  <2> QED
    BY <2>2, <2>5, <2>6
<1> QED
  BY <1>3, <1>4

LEMMA StringOrder == StringInv => Str!TotallyOrdered
<1> SUFFICES ASSUME StringInv, NEW o \in Str!LiveObjects, NEW p \in Str!LiveObjects
             PROVE  Str!OneHolds(Str!Less(Str!Chars(o), Str!Chars(p)), Str!Equal(Str!Chars(o), Str!Chars(p)),
                                 Str!Less(Str!Chars(p), Str!Chars(o)))
  BY DEF Str!TotallyOrdered
<1>1. o \in StringNames /\ p \in StringNames /\ Str!Chars(o) = strValue[o] /\ Str!Chars(p) = strValue[p]
  BY StringExact DEF Str!ContentExact, Str!LiveObjects
<1>2. Str!Chars(o) \in Seq(Int) /\ Str!Chars(p) \in Seq(Int)
  BY <1>1 DEF StringInv, StringSound
<1> QED
  BY <1>2, LessIsTotal, Zenon

-----------------------------------------------------------------------------
(* Arrays and strings together *)

ArrayFine == ArrayInv \/ ~Arr!Sound

LEMMA ContainersStep ==
    ASSUME ArrayFine, StringInv, [ContainersNext]_<<arrVars, strVars>>
    PROVE  /\ ArrayFine' /\ StringInv'
           /\ Arr!Sound /\ ~Arr!Sound' => \E o \in ArrayNames : TakesOver(o)
<1>1. ArrayInv' => Arr!Sound'
  BY DEF ArrayInv, Arr!Sound
<1>2. CASE Arr!Next /\ UNCHANGED strVars
  <2>1. ArrayInv
    BY <1>2 DEF ArrayFine, Arr!Next
  <2>2. ArrayInv' \/ \E o \in ArrayNames : TakesOver(o)
    BY <2>1, <1>2, ArrayNext
  <2> QED
    BY <2>2, <1>1, <1>2, StringStutter DEF ArrayFine, TakesOver
<1>3. ASSUME UNCHANGED arrVars
      PROVE  ArrayFine' /\ ~(Arr!Sound /\ ~Arr!Sound')
  <2>1. ArrayInv => ArrayInv'
    BY <1>3, ArrayStutter
  <2>2. Arr!Sound' <=> Arr!Sound
    BY <1>3 DEF Arr!Sound, arrVars
  <2> QED
    BY <2>1, <2>2 DEF ArrayFine
<1>4. CASE Str!Next /\ UNCHANGED arrVars
  BY <1>3, <1>4, StringNext
<1>5. CASE UNCHANGED <<arrVars, strVars>>
  BY <1>3, <1>5, StringStutter
<1> QED
  BY <1>2, <1>4, <1>5 DEF ContainersNext

LEMMA ContainersInvariant == ContainersSpec => [](ArrayFine /\ StringInv)
<1>1. ContainersInit => ArrayFine /\ StringInv
  BY ArrayInit, StringInit DEF ContainersInit, ArrayFine
<1>2. ArrayFine /\ StringInv /\ [ContainersNext]_<<arrVars, strVars>> => ArrayFine' /\ StringInv'
  BY ContainersStep
<1> QED
  BY <1>1, <1>2, PTL DEF ContainersSpec

\* For every number of objects and blocks, every set of values and every capacity
\* inside a string: arrays and strings hold what their callers put into them; the
\* arrays as long as none over external memory was made to grow.
THEOREM ContainersHoldTheirContents == ContainersSpec => []ContentsExact
<1>1. ArrayFine /\ StringInv => ContentsExact
  BY ArrayExact, StringExact DEF ContentsExact, ArrayFine, Arr!ContentExact
<1> QED
  BY <1>1, ContainersInvariant, PTL

\* For the same instances, and the arrays for as long: operator delete never gets a
\* block twice, and every block has exactly one owner that knows its size.
THEOREM EveryBlockHasOneOwner == ContainersSpec => []BlocksOwnedOnce
<1>1. ArrayFine /\ StringInv => BlocksOwnedOnce
  BY ArrayExact, StringExact DEF BlocksOwnedOnce, ArrayFine, Arr!OwnedOnce
<1> QED
  BY <1>1, ContainersInvariant, PTL

\* For the same instances: the memory a caller lent to an array goes to operator
\* delete only in a call that gives that array a block or another array's memory
\* instead; no destructor, copy, move elsewhere or clearing deletes it.
THEOREM BorrowedIsLeftAlone == ContainersSpec => BorrowedLeftAlone
<1>1. ArrayFine /\ StringInv /\ [ContainersNext]_<<arrVars, strVars>>
        => [Arr!Sound /\ ~Arr!Sound' =>
              \E o \in Arr!LiveObjects :
                arrObj[o].data = External /\ arrObj'[o] # Dead /\ arrObj'[o].data # External]_<<arrObj, arrMem, arrFault, arrValue>>
  <2> SUFFICES ASSUME ArrayFine, StringInv, [ContainersNext]_<<arrVars, strVars>>, Arr!Sound, ~Arr!Sound'
               PROVE  \E o \in Arr!LiveObjects :
                        arrObj[o].data = External /\ arrObj'[o] # Dead /\ arrObj'[o].data # External
    OBVIOUS
  <2>1. PICK o \in ArrayNames : TakesOver(o)
    BY ContainersStep
  <2> QED
    BY <2>1 DEF TakesOver, Arr!LiveObjects, Arr!Live
<1> QED
  BY <1>1, ContainersInvariant, PTL DEF ContainersSpec, BorrowedLeftAlone, Arr!BorrowedKept, Arr!vars

\* For strings of every length: of operator<, operator== and operator< the other way
\* around exactly one holds, inside the object as on the heap.
THEOREM StringsTotallyOrdered == ContainersSpec => []StringsOrdered
<1>1. StringInv => StringsOrdered
  BY StringOrder DEF StringsOrdered
<1> QED
  BY <1>1, ContainersInvariant, PTL

=============================================================================
