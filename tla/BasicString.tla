----------------------------- MODULE BasicString -----------------------------
(***************************************************************************)
(* The string of the kernel (basic_string in src/include/string.hpp).  A   *)
(* string of at most SSO characters lives inside the object, a longer one  *)
(* in a block on the heap; the two share their storage in a union.  All    *)
(* members that add characters go through append, whose source may be the  *)
(* string itself or a view of a part of it.                                *)
(*                                                                         *)
(* A source is where its characters are when the call begins, so that      *)
(* reading it later finds what is there by then.  The variable value holds *)
(* what a caller expects of each string.                                   *)
(***************************************************************************)
EXTENDS Integers, Sequences

CONSTANTS
    Objects, Blocks,
    Literals,       \* C strings, characters and arrays, as sequences of characters
    SSO,            \* SSO_Capacity (23 for string)
    MinHeap,        \* the least capacity on the heap (32)
    MaxLength,      \* bound on the length of a string
    Nul, Raw, Free, Dead

VARIABLES obj, mem, fault, value

vars == <<obj, mem, fault, value>>

State == [obj |-> obj, mem |-> mem, fault |-> fault]
Becomes(s) == obj' = s.obj /\ mem' = s.mem /\ fault' = s.fault

\* cells is sso of the union, ptr and capacity are heap; only one of them is valid.
RawCells(n) == [k \in 1 .. n |-> Raw]
Fresh == [is_sso |-> TRUE, length |-> 0, cells |-> <<Nul>> \o RawCells(SSO), ptr |-> Raw, capacity |-> SSO]

Init ==
    /\ obj = [o \in Objects |-> Dead]
    /\ mem = [b \in Blocks |-> Free]
    /\ fault = {}
    /\ value = [o \in Objects |-> <<>>]

-----------------------------------------------------------------------------
(* Memory *)

FreeBlock(s) == CHOOSE b \in Blocks : s.mem[b] = Free
Store(s, b, cells) == [s EXCEPT !.mem[b] = cells]
SetObject(s, o, object) == [s EXCEPT !.obj[o] = object]
Delete(s, b) ==
    IF s.mem[b] = Free THEN [s EXCEPT !.fault = @ \cup {"deletes twice"}]
    ELSE Store(s, b, Free)

\* c_str: the block, or the object itself.
c_str(s, o) == IF s.obj[o].is_sso THEN o ELSE s.obj[o].ptr

\* What an address in a block or in an object reads as.
At(s, base, i) ==
    LET cells == IF base \in Blocks THEN s.mem[base]
                 ELSE IF s.obj[base].is_sso THEN s.obj[base].cells ELSE Free
    IN  IF cells = Free THEN Raw ELSE cells[i]

Literal(chars) == [base |-> Nul, off |-> 0, len |-> Len(chars), chars |-> chars]
View(o, off, len) == [base |-> c_str(State, o), off |-> off, len |-> len, chars |-> <<>>]
Whole(o) == View(o, 0, obj[o].length)
Read(s, src) ==
    IF src.base = Nul THEN src.chars
    ELSE [i \in 1 .. src.len |-> At(s, src.base, src.off + i)]

\* cells with characters and the terminator from position n + 1 on.
Overwrite(cells, n, chars) ==
    [k \in DOMAIN cells |->
        IF n < k /\ k <= n + Len(chars) THEN chars[k - n]
        ELSE IF k = n + Len(chars) + 1 THEN Nul ELSE cells[k]]

-----------------------------------------------------------------------------
(* Members *)

clear(s, o) ==
    LET rid == IF s.obj[o].is_sso THEN s ELSE Delete(s, s.obj[o].ptr)
    IN  SetObject(rid, o, Fresh)

\* The room of a block that is made for n characters.
NewCapacity(n, is_sso) == IF is_sso /\ 2 * n < MinHeap THEN MinHeap ELSE 2 * n

\* A new block: what was there, then the source; the old block is deleted last.
OnHeap(b, n, cap) == [is_sso |-> FALSE, length |-> n, cells |-> <<>>, ptr |-> b, capacity |-> cap]
Kept(s, o) == [i \in 1 .. s.obj[o].length |-> At(s, c_str(s, o), i)]

MoveToHeap_DeleteFirst(s, o, src) ==                    \* mutant
    LET this == s.obj[o]
        n == this.length + src.len
        cap == NewCapacity(n, this.is_sso)
        b == FreeBlock(s)
        rid == IF this.is_sso THEN s ELSE Delete(s, this.ptr)
        made == Store(rid, b, Overwrite(RawCells(cap + 1), 0, Kept(s, o) \o Read(rid, src)))
    IN  SetObject(made, o, OnHeap(b, n, cap))
MoveToHeap(s, o, src) ==
    LET this == s.obj[o]
        n == this.length + src.len
        cap == NewCapacity(n, this.is_sso)
        b == FreeBlock(s)
        made == Store(s, b, Overwrite(RawCells(cap + 1), 0, Kept(s, o) \o Read(s, src)))
        rid == IF this.is_sso THEN made ELSE Delete(made, this.ptr)
    IN  SetObject(rid, o, OnHeap(b, n, cap))

append(s, o, src) ==
    LET this == s.obj[o]
        n == this.length + src.len
        Added(cells) == Overwrite(cells, this.length, Read(s, src))
    IN  IF src.len = 0 THEN s
        ELSE IF n > this.capacity THEN MoveToHeap(s, o, src)
        ELSE IF this.is_sso
             THEN SetObject(s, o, [this EXCEPT !.cells = Added(@), !.length = n])
             ELSE SetObject(Store(s, this.ptr, Added(s.mem[this.ptr])), o, [this EXCEPT !.length = n])

\* Taking over the storage of another string, which is left empty.
Reset(s, p) == SetObject(s, p, Fresh)
Take(s, o, p) == Reset(SetObject(s, o, s.obj[p]), p)

-----------------------------------------------------------------------------
(* The calls *)

Live(o) == obj[o] # Dead
Begin(o) == SetObject(State, o, Fresh)
Expect(o, chars) == value' = [value EXCEPT ![o] = chars]
Part(o, off, len) == SubSeq(value[o], off + 1, off + len)

Construct(o, chars) ==
    ~Live(o) /\ Becomes(append(Begin(o), o, Literal(chars))) /\ Expect(o, chars)

ConstructView(o, p, off, len) ==
    /\ ~Live(o) /\ Live(p) /\ off + len <= obj[p].length
    /\ Becomes(append(Begin(o), o, View(p, off, len)))
    /\ Expect(o, Part(p, off, len))

ConstructMove(o, p) ==
    /\ ~Live(o) /\ Live(p)
    /\ Becomes(Take(State, o, p))
    /\ value' = [value EXCEPT ![o] = value[p], ![p] = <<>>]

Destroy(o) ==
    Live(o) /\ Becomes(SetObject(clear(State, o), o, Dead)) /\ Expect(o, <<>>)

Clear(o) == Live(o) /\ Becomes(clear(State, o)) /\ Expect(o, <<>>)

\* Assignment from itself does nothing.
AssignCopy(o, p) ==
    /\ Live(o) /\ Live(p)
    /\ Becomes(IF o = p THEN State ELSE append(clear(State, o), o, Whole(p)))
    /\ Expect(o, value[p])

AssignMove(o, p) ==
    /\ Live(o) /\ Live(p)
    /\ IF o = p THEN UNCHANGED vars
       ELSE /\ Becomes(Take(clear(State, o), o, p))
            /\ value' = [value EXCEPT ![o] = value[p], ![p] = <<>>]

\* operator+= with a C string, a character, an array or a dynarr.
AddLiteral(o, chars) ==
    /\ Live(o) /\ obj[o].length + Len(chars) <= MaxLength
    /\ Becomes(append(State, o, Literal(chars)))
    /\ Expect(o, value[o] \o chars)

\* operator+= with a string or a view, which may be of the string itself.
AddView(o, p, off, len) ==
    /\ Live(o) /\ Live(p) /\ off + len <= obj[p].length
    /\ obj[o].length + len <= MaxLength
    /\ Becomes(append(State, o, View(p, off, len)))
    /\ Expect(o, value[o] \o Part(p, off, len))

Next ==
    \/ \E o \in Objects :
         \/ Destroy(o) \/ Clear(o)
         \/ \E chars \in Literals : Construct(o, chars) \/ AddLiteral(o, chars)
    \/ \E o, p \in Objects :
         \/ ConstructMove(o, p) \/ AssignCopy(o, p) \/ AssignMove(o, p)
         \/ \E off, len \in 0 .. MaxLength : ConstructView(o, p, off, len) \/ AddView(o, p, off, len)

Spec == Init /\ [][Next]_vars

-----------------------------------------------------------------------------
(* Comparison *)

Chars(o) == [i \in 1 .. obj[o].length |-> At(State, c_str(State, o), i)]

Equal(x, y) == Len(x) = Len(y) /\ \A i \in DOMAIN x : x[i] = y[i]

\* Character by character; a string is less than a longer one that it begins.
Less_NoLength(x, y) ==                                  \* mutant
    \E i \in DOMAIN x \cap DOMAIN y :
        x[i] < y[i] /\ \A k \in 1 .. i - 1 : x[k] = y[k]
Less(x, y) ==
    \/ \E i \in DOMAIN x \cap DOMAIN y :
         x[i] < y[i] /\ \A k \in 1 .. i - 1 : x[k] = y[k]
    \/ Len(x) < Len(y) /\ \A k \in DOMAIN x : x[k] = y[k]

-----------------------------------------------------------------------------
(* Properties *)

LiveObjects == {o \in Objects : Live(o)}

TypeOK ==
    \A o \in LiveObjects :
        /\ obj[o].length \in 0 .. MaxLength /\ obj[o].length <= obj[o].capacity
        /\ IF obj[o].is_sso THEN Len(obj[o].cells) = SSO + 1
           ELSE obj[o].ptr \in Blocks /\ obj[o].capacity >= MinHeap

\* Every string holds the characters its caller put into it and the terminator
\* behind them, also when a string is appended to itself or grows while its
\* source is a view of its own old storage.
ContentExact ==
    \A o \in LiveObjects :
        Chars(o) = value[o] /\ At(State, c_str(State, o), obj[o].length + 1) = Nul

\* Every block on the heap belongs to one live string that knows its size; none
\* is shared, left behind or deleted twice.
OwnedOnce ==
    /\ fault = {}
    /\ \A b \in Blocks : mem[b] # Free =>
         \E o \in LiveObjects : ~obj[o].is_sso /\ obj[o].ptr = b /\ Len(mem[b]) = obj[o].capacity + 1
    /\ \A o, p \in LiveObjects : ~obj[o].is_sso /\ ~obj[p].is_sso /\ obj[o].ptr = obj[p].ptr => o = p
    /\ \A o \in LiveObjects : ~obj[o].is_sso => mem[obj[o].ptr] # Free

\* operator< and operator== order the strings totally, wherever they are stored:
\* find_or_create_node of AbtrFS searches its tree by them.
OneHolds(p, q, r) == (p \/ q \/ r) /\ ~(p /\ q) /\ ~(q /\ r) /\ ~(p /\ r)
TotallyOrdered ==
    \A o, p \in LiveObjects :
        OneHolds(Less(Chars(o), Chars(p)), Equal(Chars(o), Chars(p)), Less(Chars(p), Chars(o)))

=============================================================================
