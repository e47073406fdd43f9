------------------------------- MODULE Display -------------------------------
(***************************************************************************)
(* The display (src/src/kernel/display.cpp) and its use by kmain: the      *)
(* screens are made from the boot loader's answer, kmain takes one and     *)
(* asks for its size, then one drawing function is called with any         *)
(* arguments.  The frame buffer has Pitch pixels per row, of which the     *)
(* first Width are visible.  Coordinates are words that wrap around at     *)
(* Word (2^32).  Lines are drawn with signed integers of the same width:   *)
(* static_cast takes the upper half of the words for negative numbers, and *)
(* what leaves the range of int wraps around, as it does in the build of   *)
(* the kernel (CMakeLists.txt, no optimisation).                           *)
(***************************************************************************)
EXTENDS Integers, Sequences

CONSTANTS
    Width, Height, Pitch, Word,
    Extents,        \* the coordinates and sizes that are drawn with
    Responses,      \* sequences that say of each frame buffer whether its pointer is not null
    NoResponse, Garbage

ASSUME DisplayAssumption ==
    /\ Pitch \in Nat /\ Width \in 1 .. Pitch /\ Height \in Nat \ {0}
    /\ Word \in Nat /\ Pitch < Word /\ Height < Word /\ Word % 2 = 0
    /\ Extents \subseteq 0 .. Word - 1
    /\ Responses \subseteq Seq(BOOLEAN) /\ NoResponse \notin Responses

VARIABLES
    response,   \* of the boot loader
    screens,    \* _screen_buffer: whether the screen has a frame buffer
    cur,        \* the screen that kmain draws on
    size,       \* what get_screen_size returned
    painted,    \* the pixels that have been written, as offsets in the frame buffer
    op,         \* the drawing function with its arguments
    line,       \* of draw_line: [dx, dy, x, y, err], all int
    pc

vars == <<response, screens, cur, size, painted, op, line, pc>>

Coords == [x : 0 .. Word - 1, y : 0 .. Word - 1]
Points == [x : Extents, y : Extents]
Origin == [x |-> 0, y |-> 0]

Init ==
    /\ response \in Responses \cup {NoResponse}
    /\ screens = <<>> /\ cur = 0 /\ size = <<0, 0>>
    /\ painted = {} /\ op = [f |-> "none", a |-> Origin, b |-> Origin]
    /\ line = [dx |-> 0, dy |-> 0, x |-> 0, y |-> 0, err |-> 0]
    /\ pc = "boot"

-----------------------------------------------------------------------------
(* The screens *)

\* displays::displays waits for an answer; one that is not there at the start
\* never comes.
Wait == pc = "boot" /\ response = NoResponse /\ UNCHANGED vars

ConstructDisplays ==
    /\ pc = "boot" /\ response # NoResponse
    /\ screens' = response
    /\ pc' = "get"
    /\ UNCHANGED <<response, cur, size, painted, op, line>>

\* get_screen; kmain halts if there is no such screen.
get_screen(id) ==
    /\ pc = "get"
    /\ IF id >= Len(screens) THEN pc' = "halt" /\ UNCHANGED cur
       ELSE pc' = "size" /\ cur' = id + 1
    /\ UNCHANGED <<response, screens, size, painted, op, line>>

\* get_screen_size reads through the pointer, whatever it is.
get_screen_size ==
    /\ pc = "size"
    /\ size' = IF screens[cur] THEN <<Width, Height>> ELSE Garbage
    /\ pc' = "ready"
    /\ UNCHANGED <<response, screens, cur, painted, op, line>>

-----------------------------------------------------------------------------
(* Drawing: the pixels each function writes *)

Wrap(n) == n % Word
Address(x, y) == y * Pitch + x

set_pixel(x, y) ==
    IF screens[cur] /\ x < Width /\ y < Height THEN {Address(x, y)} ELSE {}

clear ==
    IF screens[cur] THEN {Address(x, y) : x \in 0 .. Width - 1, y \in 0 .. Height - 1} ELSE {}

Clamp_None(n, max) == n                     \* mutant
Clamp(n, max) == IF n > max THEN max ELSE n
Right(pos, extent) == Clamp(Wrap(pos.x + extent.x), Width)
Bottom(pos, extent) == Clamp(Wrap(pos.y + extent.y), Height)
Outside(pos) == ~screens[cur] \/ pos.x >= Width \/ pos.y >= Height

\* The last row or column before a bound.
Last_Bound(n) == n                          \* mutant: off by one
Last(n) == Wrap(n - 1)

draw_rect(pos, extent) ==
    LET x2 == Right(pos, extent)
        y2 == Bottom(pos, extent)
        top == UNION {set_pixel(x, pos.y) : x \in pos.x .. x2 - 1}
        bottom == IF Last(y2) > pos.y
                  THEN UNION {set_pixel(x, Last(y2)) : x \in pos.x .. x2 - 1} ELSE {}
        rows == pos.y + 1 .. Last(y2) - 1
        left == UNION {set_pixel(pos.x, y) : y \in rows}
        right == IF Last(x2) > pos.x THEN UNION {set_pixel(Last(x2), y) : y \in rows} ELSE {}
    IN  IF Outside(pos) THEN {} ELSE top \cup bottom \cup left \cup right

\* fill_rect writes without set_pixel.
fill_rect(pos, extent) ==
    IF Outside(pos) THEN {}
    ELSE {Address(pos.x + x, y) :
             y \in pos.y .. Bottom(pos, extent) - 1,
             x \in 0 .. Wrap(Right(pos, extent) - pos.x) - 1}

Draw(f, a, b, pixels) ==
    /\ op' = [f |-> f, a |-> a, b |-> b]
    /\ painted' = pixels
    /\ pc' = "done"
    /\ UNCHANGED <<response, screens, cur, size, line>>

-----------------------------------------------------------------------------
(* draw_line *)

Half == Word \div 2
Ints == -Half .. Half - 1

\* The int that a number becomes: of a word by static_cast, of a result by wrapping.
AsInt(n) == ((n + Half) % Word) - Half

Abs(n) == IF n < 0 THEN -n ELSE n
builtin_abs(n) == AsInt(Abs(n))             \* the least int has no opposite
dx(a, b) == builtin_abs(AsInt(AsInt(b.x) - AsInt(a.x)))
dy(a, b) == AsInt(-builtin_abs(AsInt(AsInt(b.y) - AsInt(a.y))))

\* The directions come from the words, not from the ints.
Sign(from, to) == IF from < to THEN 1 ELSE -1

StartLine(a, b) ==
    /\ op' = [f |-> "draw_line", a |-> a, b |-> b]
    /\ line' = [dx |-> dx(a, b), dy |-> dy(a, b), x |-> AsInt(a.x), y |-> AsInt(a.y),
                err |-> AsInt(dx(a, b) + dy(a, b))]
    /\ pc' = "line"
    /\ UNCHANGED <<response, screens, cur, size, painted>>

\* One round: where the line goes next.
Twice_Once(err) == err                      \* mutant: not doubled
Twice(err) == AsInt(2 * err)
GoesX_Positive(l) == Twice(l.err) >= -l.dy  \* mutant: the sign of dy
GoesX(l) == Twice(l.err) >= l.dy
GoesY(l) == Twice(l.err) <= l.dx
Advanced(l) ==
    [l EXCEPT !.x = IF GoesX(l) THEN AsInt(@ + Sign(op.a.x, op.b.x)) ELSE @,
              !.y = IF GoesY(l) THEN AsInt(@ + Sign(op.a.y, op.b.y)) ELSE @,
              !.err = AsInt(@ + (IF GoesX(l) THEN l.dy ELSE 0) + (IF GoesY(l) THEN l.dx ELSE 0))]

LineStep ==
    /\ pc = "line"
    /\ painted' = painted \cup set_pixel(Wrap(line.x), Wrap(line.y))
    /\ IF line.x = AsInt(op.b.x) /\ line.y = AsInt(op.b.y)
       THEN pc' = "done" /\ UNCHANGED line
       ELSE line' = Advanced(line) /\ UNCHANGED pc
    /\ UNCHANGED <<response, screens, cur, size, op>>

\* kmain ends in hlt.
Halt == pc \in {"done", "halt"} /\ UNCHANGED vars

Step ==
    \/ ConstructDisplays \/ get_screen_size \/ LineStep
    \/ \E id \in 0 .. 1 : get_screen(id)

Next ==
    \/ Wait \/ Step
    \/ /\ pc = "ready"
       /\ \/ Draw("clear", Origin, Origin, clear)
          \/ \E a \in Points :
               \/ Draw("set_pixel", a, Origin, set_pixel(a.x, a.y))
               \/ \E b \in Points :
                    \/ Draw("draw_rect", a, b, draw_rect(a, b))
                    \/ Draw("fill_rect", a, b, fill_rect(a, b))
                    \/ StartLine(a, b)
    \/ Halt

\* One thread, which nothing stops.
Spec == Init /\ [][Next]_vars /\ WF_vars(Step)

-----------------------------------------------------------------------------
(* Properties *)

TypeOK ==
    /\ cur \in 0 .. Len(screens)
    /\ painted \subseteq Nat
    /\ op.a \in Coords /\ op.b \in Coords
    /\ line \in [dx : Ints, dy : Ints, x : Ints, y : Ints, err : Ints]
    /\ pc \in {"boot", "get", "size", "ready", "line", "done", "halt"}

Visible == {Address(x, y) : x \in 0 .. Width - 1, y \in 0 .. Height - 1}

\* Drawing stays inside the visible part of a frame buffer that is there, for all
\* arguments; only of fill_rect it has to be known that the right edge, which is
\* a sum of words, does not wrap around.
StaysInside ==
    (op.f = "fill_rect" => op.a.x + op.b.x < Word) =>
        painted \subseteq (IF cur > 0 /\ screens[cur] THEN Visible ELSE {})

Inside(p, pos, extent) ==
    \E x \in pos.x .. pos.x + extent.x - 1, y \in pos.y .. pos.y + extent.y - 1 :
        x < Width /\ y < Height /\ p = Address(x, y)
OnBorder(p, pos, extent) ==
    \E x \in pos.x .. pos.x + extent.x - 1, y \in pos.y .. pos.y + extent.y - 1 :
        /\ x < Width /\ y < Height /\ p = Address(x, y)
        /\ \/ x \in {pos.x, pos.x + extent.x - 1, Width - 1}
           \/ y \in {pos.y, pos.y + extent.y - 1, Height - 1}

\* A rectangle that has an area and does not wrap around is drawn exactly: all
\* of it when filled, else its border, which a clipped side runs along the edge
\* of the screen.
RectExact ==
    (/\ pc = "done" /\ op.f \in {"fill_rect", "draw_rect"} /\ screens[cur]
     /\ op.b.x > 0 /\ op.b.y > 0
     /\ op.a.x + op.b.x < Word /\ op.a.y + op.b.y < Word) =>
        painted = {p \in Visible : IF op.f = "fill_rect" THEN Inside(p, op.a, op.b)
                                   ELSE OnBorder(p, op.a, op.b)}

\* Two coordinates between which a line counts without wrapping around: both in
\* the same half of the words, so that words and ints order them alike, and not
\* so far apart that twice err, which reaches three times their distance, leaves
\* the range of int.
Measurable(m, n) == (m < Half <=> n < Half) /\ 3 * Abs(n - m) < Half
Drawable == Measurable(op.a.x, op.b.x) /\ Measurable(op.a.y, op.b.y)

\* On the way along a drawable line twice err never wraps around; no point of it
\* is more than half a pixel off, measured along the shorter side, and the line
\* stays between its ends.
LineAccurate ==
    pc = "line" /\ Drawable =>
        LET ax == AsInt(op.a.x)     bx == AsInt(op.b.x)
            ay == AsInt(op.a.y)     by == AsInt(op.b.y)
            major == IF Abs(bx - ax) > Abs(by - ay) THEN Abs(bx - ax) ELSE Abs(by - ay)
        IN  /\ 2 * line.err \in Ints
            /\ 2 * Abs((bx - ax) * (line.y - ay) - (by - ay) * (line.x - ax)) <= major
            /\ Abs(line.x - ax) + Abs(bx - line.x) = Abs(bx - ax)
            /\ Abs(line.y - ay) + Abs(by - line.y) = Abs(by - ay)

\* Every drawable line comes to its end.
LineEnds == (pc = "line" /\ Drawable) ~> (pc = "done")

=============================================================================
