------------------------------- MODULE Dynarr -------------------------------
(***************************************************************************)
(* The growable array of the kernel (dynarr in src/include/arr.hpp): what  *)
(* its members do to the blocks of memory behind it.  There are some array *)
(* objects; any member function may be called on any of them, in any       *)
(* order.  An array made over external memory has capacity 0 and does not  *)
(* own that memory; SystemX makes such arrays over the buffers of          *)
(* programs.  The first call that gives such an array a size other than 0, *)
(* reserves room for it or moves another array into it hands the memory to *)
(* operator delete, and copies all elements even into a smaller block.     *)
(* What the heap does with memory that is not its own is not modelled: the *)
(* calls end there.  What becomes of the buffer of a read, which is        *)
(* enlarged so, is in SystemX.                                             *)
(*                                                                         *)
(* The members call each other, so each is an operator on a record of the  *)
(* whole state, [obj, mem, fault].  The variable value holds what a caller *)
(* expects of each array: a sequence of elements.                          *)
(***************************************************************************)
EXTENDS Naturals, Sequences

CONSTANTS
    Objects, Blocks,
    Values,         \* of elements; the default value 0 is one
    Strings,        \* C strings, as sequences
    External,       \* the external memory
    MaxSize,        \* bound on the size of an array
    Null, Raw, Free, Dead

VARIABLES
    obj,        \* [data, size, capacity] of each array; Dead before and after its life
    mem,        \* the cells of each block; Free when it is not allocated
    fault,      \* what must never happen to memory, as far as it has
    value

vars == <<obj, mem, fault, value>>

State == [obj |-> obj, mem |-> mem, fault |-> fault]
Becomes(s) == obj' = s.obj /\ mem' = s.mem /\ fault' = s.fault

Empty == [data |-> Null, size |-> 0, capacity |-> 0]
ExternalCells == <<1, 0>>

Init ==
    /\ obj = [o \in Objects |-> Dead]
    /\ mem = [b \in Blocks \cup {External} |-> IF b = External THEN ExternalCells ELSE Free]
    /\ fault = {}
    /\ value = [o \in Objects |-> <<>>]

-----------------------------------------------------------------------------
(* Memory *)

Cells(s, b) == IF b = Null \/ s.mem[b] = Free THEN <<>> ELSE s.mem[b]
FreeBlock(s) == CHOOSE b \in Blocks : s.mem[b] = Free
Store(s, b, cells) == [s EXCEPT !.mem[b] = cells]
SetObject(s, o, object) == [s EXCEPT !.obj[o] = object]

\* operator delete
Delete(s, b) ==
    IF b = External THEN [s EXCEPT !.fault = @ \cup {"deletes external memory"}]
    ELSE IF s.mem[b] = Free THEN [s EXCEPT !.fault = @ \cup {"deletes twice"}]
    ELSE Store(s, b, Free)

\* Writing elements into the array from position i on.
Put(s, o, i, elements) ==
    LET b == s.obj[o].data
        last == i + Len(elements) - 1
    IN  IF elements = <<>> THEN s
        ELSE IF last > Len(Cells(s, b)) THEN [s EXCEPT !.fault = @ \cup {"writes out of bounds"}]
        ELSE Store(s, b, [k \in DOMAIN s.mem[b] |->
                             IF i <= k /\ k <= last THEN elements[k - i + 1] ELSE s.mem[b][k]])

\* What the elements of the array read as; behind the end of a block lies anything.
Element(cells, k) == IF k \in DOMAIN cells THEN cells[k] ELSE Raw
Content(s, o) == [k \in 1 .. s.obj[o].size |-> Element(Cells(s, s.obj[o].data), k)]

-----------------------------------------------------------------------------
(* Members *)

\* A new block takes over all elements, and the old one is deleted.
grow(s, o, cap) ==
    LET old == s.obj[o]
        b == FreeBlock(s)
        cells == Cells(s, old.data)
        copy == Store(s, b, [k \in 1 .. cap |-> IF k <= old.size THEN Element(cells, k) ELSE Raw])
        moved == IF old.size > cap THEN [copy EXCEPT !.fault = @ \cup {"writes out of bounds"}] ELSE copy
        rid == IF old.data = Null THEN moved ELSE Delete(moved, old.data)
    IN  SetObject(rid, o, [data |-> b, size |-> old.size, capacity |-> cap])

reserve(s, o, n) == IF n > s.obj[o].capacity THEN grow(s, o, n) ELSE s

\* Elements that are added have the default value.
Fresh(s, o, n) ==
    IF n > s.obj[o].size
    THEN Put(s, o, s.obj[o].size + 1, [k \in 1 .. n - s.obj[o].size |-> 0])
    ELSE s

SetSize(s, o, n) == [s EXCEPT !.obj[o].size = n]
resize(s, o, n) == SetSize(Fresh(reserve(s, o, n), o, n), o, n)
clear(s, o) == SetSize(s, o, 0)

Doubled(cap) == IF cap = 0 THEN 1 ELSE cap * 2

push_back(s, o, v) ==
    LET room == IF s.obj[o].size >= s.obj[o].capacity THEN grow(s, o, Doubled(s.obj[o].capacity)) ELSE s
    IN  SetSize(Put(room, o, room.obj[o].size + 1, <<v>>), o, room.obj[o].size + 1)

\* Copying elements, from another array or from a C string.
Assign(s, o, elements) == Put(resize(s, o, Len(elements)), o, 1, elements)

\* The moved-from array is left empty.
Reset_Kept(s, p) == s                       \* mutant
Reset(s, p) == SetObject(s, p, Empty)
MoveInto(s, o, p) == Reset(SetObject(s, o, s.obj[p]), p)

\* The destructor: memory that is not owned is left alone.
Release_Any(s, o) ==                        \* mutant: the capacity is not asked for
    IF s.obj[o].data # Null THEN Delete(s, s.obj[o].data) ELSE s
Release(s, o) ==
    IF s.obj[o].data # Null /\ s.obj[o].capacity > 0 THEN Delete(s, s.obj[o].data) ELSE s

-----------------------------------------------------------------------------
(* The calls *)

Live(o) == obj[o] # Dead
Begin(s, o) == SetObject(s, o, Empty)
Expect(o, elements) == value' = [value EXCEPT ![o] = elements]

Construct(o) == ~Live(o) /\ Becomes(Begin(State, o)) /\ Expect(o, <<>>)

ConstructSized(o, n) ==
    ~Live(o) /\ Becomes(resize(Begin(State, o), o, n)) /\ Expect(o, [k \in 1 .. n |-> 0])

ConstructString(o, c) ==
    ~Live(o) /\ Becomes(Assign(Begin(State, o), o, c)) /\ Expect(o, c)

ConstructCopy(o, p) ==
    /\ ~Live(o) /\ Live(p)
    /\ Becomes(Assign(Begin(State, o), o, Content(State, p)))
    /\ Expect(o, value[p])

ConstructMove(o, p) ==
    /\ ~Live(o) /\ Live(p)
    /\ Becomes(MoveInto(State, o, p))
    /\ value' = [value EXCEPT ![o] = value[p], ![p] = <<>>]

Destroy(o) ==
    /\ Live(o)
    /\ Becomes(SetObject(Release(clear(State, o), o), o, Dead))
    /\ Expect(o, <<>>)

\* Assignment from itself does nothing.
AssignCopy(o, p) ==
    /\ Live(o) /\ Live(p)
    /\ Becomes(IF o = p THEN State ELSE Assign(clear(State, o), o, Content(State, p)))
    /\ Expect(o, value[p])

\* The block of the target is deleted whether the target owns it or not.
AssignMove(o, p) ==
    /\ Live(o) /\ Live(p)
    /\ IF o = p THEN UNCHANGED vars
       ELSE /\ LET rid == IF obj[o].data = Null THEN State ELSE Delete(clear(State, o), obj[o].data)
               IN  Becomes(MoveInto(rid, o, p))
            /\ value' = [value EXCEPT ![o] = value[p], ![p] = <<>>]

AssignString(o, c) == Live(o) /\ Becomes(Assign(clear(State, o), o, c)) /\ Expect(o, c)

Reserve(o, n) == Live(o) /\ Becomes(reserve(State, o, n)) /\ UNCHANGED value

PushBack(o, v) ==
    /\ Live(o) /\ obj[o].size < MaxSize
    /\ Becomes(push_back(State, o, v))
    /\ Expect(o, Append(value[o], v))

\* push_back of a C string resizes and writes behind the old end.
PushBackString(o, c) ==
    /\ Live(o) /\ obj[o].size + Len(c) <= MaxSize
    /\ Becomes(Put(resize(State, o, obj[o].size + Len(c)), o, obj[o].size + 1, c))
    /\ Expect(o, value[o] \o c)

PopBack(o) ==
    /\ Live(o)
    /\ IF obj[o].size = 0 THEN UNCHANGED vars
       ELSE /\ Becomes(SetSize(State, o, obj[o].size - 1))
            /\ Expect(o, SubSeq(value[o], 1, Len(value[o]) - 1))

Resize(o, n) ==
    /\ Live(o)
    /\ Becomes(resize(State, o, n))
    /\ Expect(o, [k \in 1 .. n |-> IF k <= Len(value[o]) THEN value[o][k] ELSE 0])

Clear(o) == Live(o) /\ Becomes(clear(State, o)) /\ Expect(o, <<>>)

\* operator[] as the target of an assignment.
SetElement(o, i, v) ==
    /\ Live(o) /\ i <= obj[o].size
    /\ Becomes(Put(State, o, i, <<v>>))
    /\ Expect(o, [value[o] EXCEPT ![i] = v])

\* The array over external memory; there is one of it at a time.
ConstructView(o) ==
    /\ ~Live(o) /\ \A p \in Objects : Live(p) => obj[p].data # External
    /\ Becomes(SetObject(State, o, [data |-> External, size |-> Len(ExternalCells), capacity |-> 0]))
    /\ Expect(o, mem[External])

\* No array over external memory has been made to grow, or another moved into it.
Sound == "deletes external memory" \notin fault

Next ==
    /\ Sound
    /\ \/ \E o \in Objects :
            \/ Construct(o) \/ ConstructView(o) \/ Destroy(o) \/ PopBack(o) \/ Clear(o)
            \/ \E n \in 0 .. MaxSize : ConstructSized(o, n) \/ Reserve(o, n) \/ Resize(o, n)
            \/ \E c \in Strings : ConstructString(o, c) \/ AssignString(o, c) \/ PushBackString(o, c)
            \/ \E v \in Values : PushBack(o, v)
            \/ \E i \in 1 .. MaxSize, v \in Values : SetElement(o, i, v)
       \/ \E o, p \in Objects :
            ConstructCopy(o, p) \/ ConstructMove(o, p) \/ AssignCopy(o, p) \/ AssignMove(o, p)

Spec == Init /\ [][Next]_vars

-----------------------------------------------------------------------------
(* Properties *)

LiveObjects == {o \in Objects : Live(o)}

TypeOK ==
    /\ Sound => \A o \in LiveObjects :
         /\ obj[o].size \in 0 .. MaxSize
         /\ obj[o].size <= IF obj[o].data = External THEN Len(ExternalCells) ELSE obj[o].capacity
         /\ obj[o].capacity = 0 <=> obj[o].data \in {Null, External}
    /\ \A o \in Objects : value[o] \in Seq(Values)

\* Until an array over external memory is made to grow, every array holds what
\* its caller put into it, through copies, moves and growth, whatever else
\* happens to the other arrays.
ContentExact == Sound => \A o \in LiveObjects : Content(State, o) = value[o]

\* Until then no block is deleted twice or left behind either, and nothing is
\* written out of bounds: every allocated block belongs to one live array, which
\* knows its capacity, and two arrays never share one.
OwnedOnce == Sound =>
    /\ fault = {}
    /\ \A b \in Blocks : mem[b] # Free =>
         \E o \in LiveObjects : obj[o].data = b /\ obj[o].capacity = Len(mem[b])
    /\ \A o, p \in LiveObjects : obj[o].data = obj[p].data /\ obj[o].data # Null => o = p
    /\ \A o \in LiveObjects : obj[o].capacity > 0 => mem[obj[o].data] # Free

\* External memory is first deleted by a call that puts other memory in its place,
\* in an array that lives on; never by destroying the array, emptying or shortening
\* it, copying it or moving it elsewhere.
BorrowedKept ==
    [][Sound /\ ~Sound' =>
         \E o \in LiveObjects :
           obj[o].data = External /\ obj'[o] # Dead /\ obj'[o].data # External]_vars

=============================================================================
