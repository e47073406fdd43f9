---------------------------- MODULE DisplayProofs ----------------------------
(***************************************************************************)
(* What the drawing functions satisfy for every size of screen and word,   *)
(* every list of frame buffers and all arguments; of lines, for those that *)
(* count without wrapping around.                                          *)
(***************************************************************************)
EXTENDS Display, TLAPS

-----------------------------------------------------------------------------
(* The inductive invariant *)

\* Before the first call nothing is painted, and a screen is chosen from the list.
Prepared ==
    /\ screens \in Seq(BOOLEAN) /\ response \in Responses \cup {NoResponse}
    /\ cur \in 0 .. Len(screens)
    /\ pc \in {"boot", "get"} => cur = 0
    /\ pc \in {"size", "ready", "line", "done"} => cur > 0
    /\ pc \notin {"line", "done"} => painted = {} /\ op.f = "none"
    /\ pc = "line" => op.f = "draw_line"

\* The ends of the line as the ints that draw_line counts in, the sides of its box,
\* and how far the line has come along each of them.
StartX == AsInt(op.a.x)
StartY == AsInt(op.a.y)
EndX == AsInt(op.b.x)
EndY == AsInt(op.b.y)
Run == Abs(EndX - StartX)
Rise == Abs(EndY - StartY)
Across == Abs(line.x - StartX)
Down == Abs(line.y - StartY)

\* The point lies in the box, on the side of the start from which the line comes.
InBox ==
    /\ line.dx = Run /\ line.dy = -Rise
    /\ line.x = StartX + Sign(StartX, EndX) * Across /\ Across <= Run
    /\ line.y = StartY + Sign(StartY, EndY) * Down /\ Down <= Rise

\* err is the distance of the point from the line, measured one point ahead.
ErrorTerm == line.err = Run * Down - Rise * Across + Run - Rise

\* The point is at most half a pixel from the line.
Near ==
    /\ 2 * (Run * Down - Rise * Across) <= IF Run > Rise THEN Run ELSE Rise
    /\ -(IF Run > Rise THEN Run ELSE Rise) <= 2 * (Run * Down - Rise * Across)

OnWay == Drawable /\ InBox /\ ErrorTerm /\ Near
OnLine == pc = "line" /\ Drawable => OnWay

DisplayInv == TypeOK /\ Prepared /\ StaysInside /\ RectExact /\ OnLine

-----------------------------------------------------------------------------
(* Lines: a box of D by E pixels, and the point X pixels along and Y down *)

Larger(D, E) == IF D > E THEN D ELSE E

LEMMA Multiple ==
    ASSUME NEW a \in Nat, NEW b \in Nat, b >= 1
    PROVE  a * b >= a
OBVIOUS

\* A line that has not come to its end does not leave the box: where it goes on
\* along an axis, it has not reached the end of that axis.
LEMMA NoOvershoot ==
    ASSUME NEW D \in Nat, NEW E \in Nat, NEW X \in Nat, NEW Y \in Nat, X <= D, Y <= E,
           NEW w \in Int, w = D * Y - E * X, X # D \/ Y # E
    PROVE  /\ 2 * w + 2 * D >= E => X < D
           /\ 2 * w + D <= 2 * E => Y < E
<1>1. ASSUME 2 * w + 2 * D >= E, X = D PROVE FALSE
  <2>1. E - Y \in Nat /\ E - Y >= 1
    BY <1>1
  <2>2. D * (E - Y) >= D /\ D * (E - Y) \in Int
    BY <2>1, Multiple
  <2>3. E * X = D * E
    BY <1>1
  <2>4. w = -(D * (E - Y))
    BY <2>3
  <2> QED
    BY <1>1, <2>1, <2>2, <2>4
<1>2. ASSUME 2 * w + D <= 2 * E, Y = E PROVE FALSE
  <2>1. D - X \in Nat /\ D - X >= 1
    BY <1>2
  <2>2. E * (D - X) >= E /\ E * (D - X) \in Int
    BY <2>1, Multiple
  <2>3. D * Y = E * D
    BY <1>2
  <2>4. w = E * (D - X)
    BY <2>3
  <2> QED
    BY <1>2, <2>1, <2>2, <2>4
<1> QED
  BY <1>1, <1>2

\* The two tests of a round keep the distance within half a pixel.
LEMMA StaysNear ==
    ASSUME NEW D \in Nat, NEW E \in Nat, NEW w \in Int,
           -Larger(D, E) <= 2 * w, 2 * w <= Larger(D, E),
           NEW v \in Int,
           v = w - (IF 2 * w + 2 * D >= E THEN E ELSE 0) + (IF 2 * w + D <= 2 * E THEN D ELSE 0)
    PROVE  -Larger(D, E) <= 2 * v /\ 2 * v <= Larger(D, E)
BY DEF Larger

LEMMA AbsIsNat == \A n \in Int : Abs(n) \in Nat /\ (n >= 0 => Abs(n) = n) /\ (n <= 0 => Abs(n) = -n)
BY DEF Abs

LEMMA HalfOfWord == Half \in Nat /\ Half >= 1 /\ Word = 2 * Half /\ Word \in Nat
BY DisplayAssumption DEF Half

\* Taking the int of a number: what is in its range stays, and the upper half of
\* the words becomes negative.
LEMMA IntOf ==
    /\ \A n \in Int : AsInt(n) \in Ints
    /\ \A n \in Ints : AsInt(n) = n
    /\ \A n \in 0 .. Word - 1 : AsInt(n) = IF n < Half THEN n ELSE n - Word
<1> USE HalfOfWord
<1>1. \A m \in Int : m % Word \in 0 .. Word - 1
  OBVIOUS
<1>2. \A m \in 0 .. Word - 1 : m % Word = m
  OBVIOUS
<1>3. \A m \in Word .. 2 * Word - 1 : m % Word = m - Word
  OBVIOUS
<1>4. ASSUME NEW n \in Int PROVE AsInt(n) \in Ints
  <2>1. PICK m \in Int : m = n + Half
    OBVIOUS
  <2>2. m % Word \in 0 .. Word - 1
    BY <1>1
  <2> QED
    BY <2>1, <2>2 DEF AsInt, Ints
<1>5. ASSUME NEW n \in Ints PROVE AsInt(n) = n
  <2>1. n + Half \in 0 .. Word - 1
    BY DEF Ints
  <2> QED
    BY <1>2, <2>1 DEF AsInt, Ints
<1>6. ASSUME NEW n \in 0 .. Word - 1 PROVE AsInt(n) = IF n < Half THEN n ELSE n - Word
  <2>1. CASE n < Half
    <3>1. n + Half \in 0 .. Word - 1
      BY <2>1
    <3> QED
      BY <1>2, <2>1, <3>1 DEF AsInt
  <2>2. CASE ~(n < Half)
    <3>1. n + Half \in Word .. 2 * Word - 1
      BY <2>2
    <3> QED
      BY <1>3, <2>2, <3>1 DEF AsInt
  <2> QED
    BY <2>1, <2>2
<1> QED
  BY <1>4, <1>5, <1>6

\* Between measurable coordinates the ints are as far apart as the words and in the
\* same order, and no difference, sum or double of err leaves the range of int.
LEMMA MeasuredAxis ==
    ASSUME NEW m \in 0 .. Word - 1, NEW n \in 0 .. Word - 1, Measurable(m, n)
    PROVE  /\ AsInt(m) \in Ints /\ AsInt(n) \in Ints
           /\ Sign(AsInt(m), AsInt(n)) = Sign(m, n)
           /\ 3 * Abs(AsInt(n) - AsInt(m)) < Half
           /\ builtin_abs(AsInt(AsInt(n) - AsInt(m))) = Abs(AsInt(n) - AsInt(m))
<1> USE HalfOfWord
<1>1. /\ AsInt(m) = IF m < Half THEN m ELSE m - Word
      /\ AsInt(n) = IF n < Half THEN n ELSE n - Word
  BY IntOf
<1>2. AsInt(m) \in Ints /\ AsInt(n) \in Ints
  BY IntOf
<1>3. PICK d \in Int : d = AsInt(n) - AsInt(m) /\ d = n - m
  BY <1>1 DEF Measurable
<1>4. 3 * Abs(d) < Half
  BY <1>3 DEF Measurable
<1>5. d \in Ints /\ Abs(d) \in Ints
  BY <1>4 DEF Abs, Ints
<1>6. AsInt(d) = d /\ builtin_abs(d) = Abs(d)
  BY <1>5, IntOf DEF builtin_abs
<1>7. Sign(AsInt(m), AsInt(n)) = Sign(m, n)
  BY <1>1 DEF Sign, Measurable
<1> QED
  BY <1>2, <1>3, <1>4, <1>6, <1>7

LEMMA OpTyped ==
    ASSUME TypeOK
    PROVE  /\ op.a.x \in 0 .. Word - 1 /\ op.a.y \in 0 .. Word - 1
           /\ op.b.x \in 0 .. Word - 1 /\ op.b.y \in 0 .. Word - 1
           /\ StartX \in Int /\ StartY \in Int /\ EndX \in Int /\ EndY \in Int
           /\ StartX \in Ints /\ StartY \in Ints /\ EndX \in Ints /\ EndY \in Ints
           /\ line.x \in Int /\ line.y \in Int /\ Run \in Nat /\ Rise \in Nat
<1>1. /\ op.a.x \in 0 .. Word - 1 /\ op.a.y \in 0 .. Word - 1
      /\ op.b.x \in 0 .. Word - 1 /\ op.b.y \in 0 .. Word - 1
  BY DEF TypeOK, Coords
<1>2. StartX \in Ints /\ StartY \in Ints /\ EndX \in Ints /\ EndY \in Ints
  BY <1>1, IntOf, HalfOfWord DEF StartX, StartY, EndX, EndY
<1>3. StartX \in Int /\ StartY \in Int /\ EndX \in Int /\ EndY \in Int
  BY <1>2, HalfOfWord DEF Ints
<1>4. line.x \in Int /\ line.y \in Int
  BY HalfOfWord DEF TypeOK, Ints
<1>5. Run \in Nat /\ Rise \in Nat
  BY <1>3, AbsIsNat DEF Run, Rise
<1> QED
  BY <1>1, <1>2, <1>3, <1>4, <1>5

\* What Drawable gives the two axes.
LEMMA DrawableAxes ==
    ASSUME TypeOK, Drawable
    PROVE  /\ Sign(op.a.x, op.b.x) = Sign(StartX, EndX) /\ 3 * Run < Half
           /\ Sign(op.a.y, op.b.y) = Sign(StartY, EndY) /\ 3 * Rise < Half
BY OpTyped, MeasuredAxis DEF Drawable, StartX, StartY, EndX, EndY, Run, Rise

\* One axis: a is the start, b the end, p the point, n how far it has come.
LEMMA Axis ==
    ASSUME NEW a \in Int, NEW b \in Int, NEW p \in Int,
           p = a + Sign(a, b) * Abs(p - a), Abs(p - a) <= Abs(b - a)
    PROVE  /\ p = b <=> Abs(p - a) = Abs(b - a)
           /\ Abs(p - a) + Abs(b - p) = Abs(b - a)
           /\ a <= b => a <= p /\ p <= b
           /\ b <= a => b <= p /\ p <= a
           /\ Abs((p + Sign(a, b)) - a) = Abs(p - a) + 1
           /\ p + Sign(a, b) = a + Sign(a, b) * (Abs(p - a) + 1)
<1>1. CASE a < b
  BY <1>1 DEF Sign, Abs
<1>2. CASE ~(a < b)
  BY <1>2 DEF Sign, Abs
<1> QED
  BY <1>1, <1>2

\* One step along an axis that has not come to its end stays between the ends, and
\* with them in the range of int.
LEMMA AxisStep ==
    ASSUME NEW a \in Ints, NEW b \in Ints, NEW p \in Int,
           p = a + Sign(a, b) * Abs(p - a), Abs(p - a) < Abs(b - a)
    PROVE  /\ AsInt(p + Sign(a, b)) = p + Sign(a, b)
           /\ Abs((p + Sign(a, b)) - a) = Abs(p - a) + 1
           /\ p + Sign(a, b) = a + Sign(a, b) * (Abs(p - a) + 1)
<1> USE HalfOfWord
<1>1. a \in Int /\ b \in Int
  BY DEF Ints
<1>2. /\ Abs((p + Sign(a, b)) - a) = Abs(p - a) + 1
      /\ p + Sign(a, b) = a + Sign(a, b) * (Abs(p - a) + 1)
  <2>1. Abs(p - a) <= Abs(b - a)
    BY <1>1 DEF Abs
  <2> QED
    BY <1>1, <2>1, Axis
<1>3. p + Sign(a, b) \in Ints
  <2>1. CASE a < b
    BY <1>1, <2>1 DEF Sign, Abs, Ints
  <2>2. CASE ~(a < b)
    BY <1>1, <2>2 DEF Sign, Abs, Ints
  <2> QED
    BY <2>1, <2>2
<1> QED
  BY <1>2, <1>3, IntOf

\* In a box of D by E pixels, err keeps clear of the ends of int while the point is
\* near, w being its distance from the line.
LEMMA ErrFits ==
    ASSUME NEW D \in Nat, NEW E \in Nat, NEW w \in Int, 3 * D < Half, 3 * E < Half,
           -Larger(D, E) <= 2 * w, 2 * w <= Larger(D, E)
    PROVE  w + D - E \in Ints /\ 2 * (w + D - E) \in Ints
BY HalfOfWord DEF Larger, Ints

\* The sizes and the position of a line on its way.
LEMMA Measures ==
    ASSUME TypeOK, OnWay
    PROVE  /\ Run \in Nat /\ Rise \in Nat /\ 3 * Run < Half /\ 3 * Rise < Half
           /\ Across \in Nat /\ Down \in Nat /\ Across <= Run /\ Down <= Rise
           /\ line.x = StartX + Sign(StartX, EndX) * Across
           /\ line.y = StartY + Sign(StartY, EndY) * Down
           /\ Run * Down - Rise * Across \in Int
           /\ line.err = (Run * Down - Rise * Across) + Run - Rise
           /\ -Larger(Run, Rise) <= 2 * (Run * Down - Rise * Across)
           /\ 2 * (Run * Down - Rise * Across) <= Larger(Run, Rise)
<1>1. Run \in Nat /\ Rise \in Nat /\ 3 * Run < Half /\ 3 * Rise < Half
  BY OpTyped, DrawableAxes DEF OnWay
<1>2. Across \in Nat /\ Down \in Nat
  BY OpTyped, AbsIsNat DEF Across, Down
<1>3. Run * Down - Rise * Across \in Int
  BY <1>1, <1>2
<1> QED
  BY <1>1, <1>2, <1>3 DEF OnWay, InBox, ErrorTerm, Near, Larger

\* A round leaves int what was int.
LEMMA AdvanceTyped ==
    ASSUME TypeOK
    PROVE  Advanced(line) \in [dx : Ints, dy : Ints, x : Ints, y : Ints, err : Ints]
<1>1. Ints \subseteq Int /\ line \in [dx : Ints, dy : Ints, x : Ints, y : Ints, err : Ints]
  BY HalfOfWord DEF Ints, TypeOK
<1>2. \A m, n \in {0, 1, -1} \cup Ints, k \in Ints : AsInt(k + m + n) \in Ints /\ AsInt(k + m) \in Ints
  BY <1>1, IntOf
<1>3. Sign(op.a.x, op.b.x) \in {1, -1} /\ Sign(op.a.y, op.b.y) \in {1, -1}
  BY DEF Sign
<1> QED
  BY <1>1, <1>2, <1>3 DEF Advanced

\* The point of the next round, seen from the start of the line.
LEMMA Advance ==
    ASSUME TypeOK, OnWay, ~(line.x = EndX /\ line.y = EndY),
           line' = Advanced(line), UNCHANGED op
    PROVE  OnWay'
<1> DEFINE D == Run
           E == Rise
           X == Across
           Y == Down
           w == D * Y - E * X
           gx == 2 * w + 2 * D >= E
           gy == 2 * w + D <= 2 * E
           sx == Sign(StartX, EndX)
           sy == Sign(StartY, EndY)
<1>1. /\ X \in Nat /\ Y \in Nat /\ X <= D /\ Y <= E /\ D \in Nat /\ E \in Nat
      /\ 3 * D < Half /\ 3 * E < Half
      /\ line.x = StartX + sx * X /\ line.y = StartY + sy * Y
  BY Measures
<1>2. w \in Int /\ line.err = w + D - E /\ line.err \in Int
  BY <1>1, Measures
<1>3. -Larger(D, E) <= 2 * w /\ 2 * w <= Larger(D, E)
  BY Measures
<1>4. X # D \/ Y # E
  <2>1. line.x = EndX <=> X = D
    BY <1>1, OpTyped, Axis DEF Across, Run
  <2>2. line.y = EndY <=> Y = E
    BY <1>1, OpTyped, Axis DEF Down, Rise
  <2> QED
    BY <2>1, <2>2
<1>5. (gx => X < D) /\ (gy => Y < E)
  <2> HIDE DEF D, E, X, Y
  <2> QED
    BY <1>1, <1>2, <1>4, NoOvershoot
<1>6. line.dx = D /\ line.dy = -E
  BY DEF OnWay, InBox
<1>7. (GoesX(line) <=> gx) /\ (GoesY(line) <=> gy)
  <2>1. Twice(line.err) = 2 * (w + D - E)
    <3> HIDE DEF w, D, E
    <3> QED
      BY <1>1, <1>2, <1>3, ErrFits, IntOf DEF Twice
  <2>2. (GoesX(line) <=> 2 * (w + D - E) >= -E) /\ (GoesY(line) <=> 2 * (w + D - E) <= D)
    BY <1>6, <2>1 DEF GoesX, GoesY
  <2> HIDE DEF w, D, E
  <2> QED
    BY <1>1, <1>2, <2>2
<1>8. Sign(op.a.x, op.b.x) = sx /\ Sign(op.a.y, op.b.y) = sy
  BY DrawableAxes DEF OnWay
<1>9. /\ line'.dx = line.dx /\ line'.dy = line.dy
      /\ line'.x = IF gx THEN AsInt(line.x + sx) ELSE line.x
      /\ line'.y = IF gy THEN AsInt(line.y + sy) ELSE line.y
      /\ line'.err = AsInt(line.err + (IF gx THEN line.dy ELSE 0) + (IF gy THEN line.dx ELSE 0))
  <2> HIDE DEF gx, gy, sx, sy
  <2> QED
    BY <1>7, <1>8 DEF Advanced, TypeOK
<1>10. UNCHANGED <<StartX, StartY, EndX, EndY, Run, Rise, Drawable>>
  BY DEF StartX, StartY, EndX, EndY, Run, Rise, Drawable
<1>11. /\ Across' = X + (IF gx THEN 1 ELSE 0)
       /\ line'.x = StartX + sx * Across'
  <2>1. Across' = Abs(line'.x - StartX)
    BY <1>10 DEF Across
  <2>2. CASE gx
    <3>1. line.x = StartX + sx * Abs(line.x - StartX) /\ Abs(line.x - StartX) < Abs(EndX - StartX)
      BY <1>1, <1>5, <2>2 DEF Across, Run
    <3>2. line'.x = line.x + sx /\ Abs((line.x + sx) - StartX) = Abs(line.x - StartX) + 1
          /\ line.x + sx = StartX + sx * (Abs(line.x - StartX) + 1)
      BY <1>9, <2>2, <3>1, OpTyped, AxisStep
    <3>3. X = Abs(line.x - StartX)
      BY DEF Across
    <3>4. Across' = X + 1 /\ line'.x = StartX + sx * (X + 1)
      BY <2>1, <3>2, <3>3, Zenon
    <3> HIDE DEF gx, sx, X
    <3> QED
      BY <2>2, <3>4
  <2>3. CASE ~gx
    BY <1>1, <1>9, <2>1, <2>3 DEF Across
  <2> QED
    BY <2>2, <2>3
<1>12. /\ Down' = Y + (IF gy THEN 1 ELSE 0)
       /\ line'.y = StartY + sy * Down'
  <2>1. Down' = Abs(line'.y - StartY)
    BY <1>10 DEF Down
  <2>2. CASE gy
    <3>1. line.y = StartY + sy * Abs(line.y - StartY) /\ Abs(line.y - StartY) < Abs(EndY - StartY)
      BY <1>1, <1>5, <2>2 DEF Down, Rise
    <3>2. line'.y = line.y + sy /\ Abs((line.y + sy) - StartY) = Abs(line.y - StartY) + 1
          /\ line.y + sy = StartY + sy * (Abs(line.y - StartY) + 1)
      BY <1>9, <2>2, <3>1, OpTyped, AxisStep
    <3>3. Y = Abs(line.y - StartY)
      BY DEF Down
    <3>4. Down' = Y + 1 /\ line'.y = StartY + sy * (Y + 1)
      BY <2>1, <3>2, <3>3, Zenon
    <3> HIDE DEF gy, sy, Y
    <3> QED
      BY <2>2, <3>4
  <2>3. CASE ~gy
    BY <1>1, <1>9, <2>1, <2>3 DEF Down
  <2> QED
    BY <2>2, <2>3
<1>13. Across' \in Nat /\ Across' <= D /\ Down' \in Nat /\ Down' <= E
  <2> HIDE DEF D, E, X, Y, gx, gy
  <2> QED
    BY <1>1, <1>5, <1>11, <1>12
<1> DEFINE v == D * Down' - E * Across'
<1>14. v = w - (IF gx THEN E ELSE 0) + (IF gy THEN D ELSE 0)
  <2> HIDE DEF D, E, X, Y, gx, gy
  <2> QED
    BY <1>1, <1>11, <1>12
<1>15. v \in Int /\ -Larger(D, E) <= 2 * v /\ 2 * v <= Larger(D, E)
  <2>1. v \in Int
    <3> HIDE DEF D, E
    <3> QED
      BY <1>1, <1>13
  <2> HIDE DEF D, E, v, w
  <2> QED
    BY <1>1, <1>2, <1>3, <1>14, <2>1, StaysNear
<1>16. line'.err = v + D - E
  <2>1. line.err + (IF gx THEN line.dy ELSE 0) + (IF gy THEN line.dx ELSE 0) = v + D - E
    <3> HIDE DEF D, E, v, w, gx, gy
    <3> QED
      BY <1>1, <1>2, <1>6, <1>14, <1>15
  <2>2. v + D - E \in Ints
    <3> HIDE DEF D, E, v
    <3> QED
      BY <1>1, <1>15, ErrFits
  <2> HIDE DEF D, E, v, gx, gy
  <2> QED
    BY <1>9, <2>1, <2>2, IntOf
<1>17. InBox'
  BY <1>6, <1>9, <1>10, <1>11, <1>12, <1>13 DEF InBox
<1>18. ErrorTerm'
  BY <1>10, <1>16 DEF ErrorTerm
<1>19. Near'
  BY <1>10, <1>15 DEF Near, Larger
<1> QED
  BY <1>10, <1>17, <1>18, <1>19 DEF OnWay

\* What the invariant says of a line is what LineAccurate says of it.
LEMMA NearIsAccurate == DisplayInv => LineAccurate
<1> SUFFICES ASSUME DisplayInv, pc = "line", Drawable PROVE LineAccurate
  BY DEF LineAccurate
<1> DEFINE D == Run
           E == Rise
           X == Across
           Y == Down
           w == D * Y - E * X
           sx == Sign(StartX, EndX)
           sy == Sign(StartY, EndY)
           off == (EndX - StartX) * (line.y - StartY) - (EndY - StartY) * (line.x - StartX)
<1>1. TypeOK /\ OnWay
  BY DEF DisplayInv, OnLine
<1>2. /\ X \in Nat /\ Y \in Nat /\ X <= D /\ Y <= E /\ D \in Nat /\ E \in Nat
      /\ line.x = StartX + sx * X /\ line.y = StartY + sy * Y
  BY <1>1, Measures
<1>3. EndX - StartX = sx * D /\ EndY - StartY = sy * E
  BY <1>1, OpTyped DEF Sign, Abs, Run, Rise
<1>4. line.x - StartX = sx * X /\ line.y - StartY = sy * Y
  BY <1>1, <1>2, OpTyped DEF Sign
<1>5. off = (sx * D) * (sy * Y) - (sy * E) * (sx * X)
  BY <1>3, <1>4
<1>6. off \in {w, -w} /\ w \in Int
  <2>1. sx \in {1, -1} /\ sy \in {1, -1}
    BY DEF Sign
  <2> HIDE DEF sx, sy, D, E, X, Y, off
  <2> QED
    BY <1>2, <1>5, <2>1
<1>7. -Larger(D, E) <= 2 * w /\ 2 * w <= Larger(D, E)
  BY <1>1, Measures
<1>8. 2 * Abs(off) <= Larger(D, E)
  <2>1. Larger(D, E) \in Nat
    BY <1>2 DEF Larger
  <2> HIDE DEF D, E, w, off
  <2> QED
    BY <1>6, <1>7, <2>1 DEF Abs
<1>9. Abs(line.x - StartX) + Abs(EndX - line.x) = Run
  BY <1>1, <1>2, OpTyped, Axis DEF Across, Run
<1>10. Abs(line.y - StartY) + Abs(EndY - line.y) = Rise
  BY <1>1, <1>2, OpTyped, Axis DEF Down, Rise
<1>11. 2 * line.err \in Ints
  <2>1. line.err = w + D - E /\ 3 * D < Half /\ 3 * E < Half
    BY <1>1, Measures
  <2> HIDE DEF D, E, w
  <2> QED
    BY <1>2, <1>6, <1>7, <2>1, ErrFits
<1> QED
  BY <1>8, <1>9, <1>10, <1>11 DEF LineAccurate, Larger, Run, Rise, StartX, StartY, EndX, EndY

-----------------------------------------------------------------------------
(* Rectangles *)

Shown == IF screens[cur] THEN Visible ELSE {}

\* One axis of a rectangle: the n pixels from k on, of which those before w are on
\* the screen, which are the ones before e.
Clipped(k, n, w, e) ==
    /\ e \in Nat /\ k < e /\ e <= w
    /\ \A i : i \in k .. e - 1 <=> i \in k .. k + n - 1 /\ i < w
    /\ \A i \in k .. e - 1 : i \in {k, k + n - 1, w - 1} <=> i \in {k, e - 1}
    /\ \A i \in k .. e - 1 : i \in 0 .. w - 1 /\ i < w /\ i - k \in 0 .. (e - k) - 1 /\ k + (i - k) = i
    /\ \A j \in 0 .. (e - k) - 1 : k + j \in k .. e - 1

LEMMA Clip ==
    ASSUME NEW k \in Nat, NEW n \in Nat, NEW w \in Nat, k < w, n > 0
    PROVE  Clipped(k, n, w, IF k + n > w THEN w ELSE k + n)
<1> DEFINE e == IF k + n > w THEN w ELSE k + n
<1>1. e \in Nat /\ k < e /\ e <= w
  OBVIOUS
<1>2. ASSUME NEW i PROVE i \in k .. e - 1 <=> i \in k .. k + n - 1 /\ i < w
  OBVIOUS
<1>3. ASSUME NEW i \in k .. e - 1 PROVE i \in {k, k + n - 1, w - 1} <=> i \in {k, e - 1}
  OBVIOUS
<1> HIDE DEF e
<1>4. ASSUME NEW i \in k .. e - 1
      PROVE  i \in 0 .. w - 1 /\ i < w /\ i - k \in 0 .. (e - k) - 1 /\ k + (i - k) = i
  BY <1>1
<1>5. ASSUME NEW j \in 0 .. (e - k) - 1 PROVE k + j \in k .. e - 1
  BY <1>1
<1>6. Clipped(k, n, w, e)
  BY <1>1, <1>2, <1>3, <1>4, <1>5 DEF Clipped
<1> QED
  BY <1>6 DEF e

LEMMA ShownIsNat == Shown \subseteq Nat
BY DisplayAssumption DEF Shown, Visible, Address

LEMMA WrapIsNat == \A n \in Int : Wrap(n) \in 0 .. Word - 1 /\ (n \in 0 .. Word - 1 => Wrap(n) = n)
BY DisplayAssumption DEF Wrap

LEMMA PixelShown ==
    ASSUME NEW x \in Nat, NEW y \in Nat
    PROVE  set_pixel(x, y) \subseteq Shown
BY DisplayAssumption DEF set_pixel, Shown, Visible

LEMMA ClearShown == clear \subseteq Shown
BY DEF clear, Shown, Visible

LEMMA CoordsTyped ==
    ASSUME NEW a \in Coords
    PROVE  /\ a.x \in Nat /\ a.x < Word
           /\ a.y \in Nat /\ a.y < Word
BY DisplayAssumption DEF Coords

LEMMA BoundsTyped ==
    ASSUME NEW a \in Coords, NEW b \in Coords
    PROVE  /\ Right(a, b) \in 0 .. Width /\ Bottom(a, b) \in 0 .. Height
           /\ Last(Right(a, b)) \in Nat /\ Last(Bottom(a, b)) \in Nat
<1>1. a.x + b.x \in Int /\ a.y + b.y \in Int
  BY CoordsTyped
<1>2. Wrap(a.x + b.x) \in Nat /\ Wrap(a.y + b.y) \in Nat
  BY <1>1, WrapIsNat, DisplayAssumption
<1>3. Right(a, b) \in 0 .. Width /\ Bottom(a, b) \in 0 .. Height
  BY <1>2, DisplayAssumption DEF Right, Bottom, Clamp
<1>4. Last(Right(a, b)) \in Nat /\ Last(Bottom(a, b)) \in Nat
  BY <1>3, WrapIsNat, DisplayAssumption DEF Last
<1> QED
  BY <1>3, <1>4

\* draw_rect writes through set_pixel, which keeps all of it on the screen.
LEMMA BorderShown ==
    ASSUME NEW a \in Coords, NEW b \in Coords
    PROVE  draw_rect(a, b) \subseteq Shown
<1> DEFINE x2 == Right(a, b)
           y2 == Bottom(a, b)
           rows == a.y + 1 .. Last(y2) - 1
<1>1. x2 \in Nat /\ y2 \in Nat /\ Last(x2) \in Nat /\ Last(y2) \in Nat
  BY BoundsTyped, DisplayAssumption
<1>2. a.x \in Nat /\ a.y \in Nat
  BY CoordsTyped
<1>3. (a.x .. x2 - 1) \subseteq Nat /\ rows \subseteq Nat
  BY <1>1, <1>2
<1>4. UNION {set_pixel(x, a.y) : x \in a.x .. x2 - 1} \subseteq Shown
  BY <1>2, <1>3, PixelShown
<1>5. UNION {set_pixel(x, Last(y2)) : x \in a.x .. x2 - 1} \subseteq Shown
  BY <1>1, <1>3, PixelShown
<1>6. UNION {set_pixel(a.x, y) : y \in rows} \subseteq Shown
  BY <1>2, <1>3, PixelShown
<1>7. UNION {set_pixel(Last(x2), y) : y \in rows} \subseteq Shown
  BY <1>1, <1>3, PixelShown
<1> QED
  BY <1>4, <1>5, <1>6, <1>7 DEF draw_rect

\* The columns that fill_rect writes when the right edge does not wrap around.
LEMMA FilledColumns ==
    ASSUME NEW a \in Coords, NEW b \in Coords, a.x + b.x < Word, a.x < Width
    PROVE  /\ Right(a, b) = IF a.x + b.x > Width THEN Width ELSE a.x + b.x
           /\ Wrap(Right(a, b) - a.x) = Right(a, b) - a.x
           /\ Right(a, b) >= a.x /\ Right(a, b) <= Width /\ Right(a, b) \in Nat
<1>1. a.x \in Nat /\ b.x \in Nat /\ a.x < Word
  BY CoordsTyped
<1>2. Wrap(a.x + b.x) = a.x + b.x
  BY <1>1, WrapIsNat, DisplayAssumption
<1>3. Right(a, b) = IF a.x + b.x > Width THEN Width ELSE a.x + b.x
  BY <1>2 DEF Right, Clamp
<1>4. Right(a, b) >= a.x /\ Right(a, b) <= Width /\ Right(a, b) \in Nat
  BY <1>1, <1>3, DisplayAssumption
<1>5. Right(a, b) - a.x \in 0 .. Word - 1
  BY <1>1, <1>4, DisplayAssumption
<1> QED
  BY <1>3, <1>4, <1>5, WrapIsNat

LEMMA FillShown ==
    ASSUME NEW a \in Coords, NEW b \in Coords, a.x + b.x < Word
    PROVE  fill_rect(a, b) \subseteq Shown
<1> SUFFICES ASSUME NEW p \in fill_rect(a, b) PROVE p \in Shown
  OBVIOUS
<1>1. screens[cur] /\ a.x < Width /\ a.y < Height
  BY CoordsTyped, DisplayAssumption DEF fill_rect, Outside
<1>2. PICK y \in a.y .. Bottom(a, b) - 1, x \in 0 .. Wrap(Right(a, b) - a.x) - 1 :
        p = Address(a.x + x, y)
  BY DEF fill_rect
<1>3. a.x + x \in 0 .. Width - 1
  BY <1>1, <1>2, FilledColumns, CoordsTyped, DisplayAssumption, SMTT(30)
<1>4. y \in 0 .. Height - 1
  <2>1. a.y \in Nat /\ Bottom(a, b) \in 0 .. Height
    BY BoundsTyped, CoordsTyped
  <2> HIDE DEF Bottom
  <2> QED
    BY <1>2, <2>1, DisplayAssumption
<1> QED
  BY <1>1, <1>2, <1>3, <1>4 DEF Shown, Visible

\* Where a rectangle that does not wrap around ends at the right and below.
LEMMA Edges ==
    ASSUME NEW a \in Coords, NEW b \in Coords, b.x > 0, b.y > 0,
           a.x + b.x < Word, a.y + b.y < Word, a.x < Width, a.y < Height
    PROVE  /\ Right(a, b) = IF a.x + b.x > Width THEN Width ELSE a.x + b.x
           /\ Bottom(a, b) = IF a.y + b.y > Height THEN Height ELSE a.y + b.y
           /\ Last(Right(a, b)) = Right(a, b) - 1 /\ Last(Bottom(a, b)) = Bottom(a, b) - 1
           /\ Wrap(Right(a, b) - a.x) = Right(a, b) - a.x
<1>1. a.x \in Nat /\ b.x \in Nat /\ a.y \in Nat /\ b.y \in Nat
  BY CoordsTyped
<1>2. Wrap(a.x + b.x) = a.x + b.x /\ Wrap(a.y + b.y) = a.y + b.y
  <2>1. a.x + b.x \in 0 .. Word - 1 /\ a.y + b.y \in 0 .. Word - 1
    BY <1>1, DisplayAssumption
  <2> QED
    BY <2>1, WrapIsNat, DisplayAssumption
<1>3. /\ Right(a, b) = IF a.x + b.x > Width THEN Width ELSE a.x + b.x
      /\ Bottom(a, b) = IF a.y + b.y > Height THEN Height ELSE a.y + b.y
  BY <1>2 DEF Right, Bottom, Clamp
<1>4. Right(a, b) - 1 \in 0 .. Word - 1 /\ Bottom(a, b) - 1 \in 0 .. Word - 1
  BY <1>1, <1>3, DisplayAssumption, SMTT(30)
<1> QED
  BY <1>3, <1>4, FilledColumns, WrapIsNat DEF Last

\* fill_rect writes every pixel of the rectangle that is on the screen, and no other.
LEMMA FillExact ==
    ASSUME NEW a \in Coords, NEW b \in Coords, b.x > 0, b.y > 0,
           a.x + b.x < Word, a.y + b.y < Word, screens[cur]
    PROVE  fill_rect(a, b) = {p \in Visible : Inside(p, a, b)}
<1>1. a.x \in Nat /\ b.x \in Nat /\ a.y \in Nat /\ b.y \in Nat
  BY CoordsTyped
<1>2. CASE a.x >= Width \/ a.y >= Height
  <2>1. fill_rect(a, b) = {}
    BY <1>2 DEF fill_rect, Outside
  <2>2. \A p : ~Inside(p, a, b)
    BY <1>1, <1>2, DisplayAssumption DEF Inside
  <2> QED
    BY <2>1, <2>2
<1>3. CASE a.x < Width /\ a.y < Height
  <2>0. Width \in Nat /\ Height \in Nat
    BY DisplayAssumption
  <2> DEFINE x2 == Right(a, b)
             y2 == Bottom(a, b)
  <2>1. fill_rect(a, b) = {Address(a.x + x, y) : y \in a.y .. y2 - 1, x \in 0 .. (x2 - a.x) - 1}
    <3>1. ~Outside(a)
      BY <1>1, <1>3, DisplayAssumption DEF Outside
    <3>2. Wrap(x2 - a.x) = x2 - a.x
      BY <1>3, Edges
    <3> QED
      BY <3>1, <3>2 DEF fill_rect
  <2>2. Clipped(a.x, b.x, Width, x2)
    BY <1>1, <1>3, <2>0, Edges, Clip
  <2>3. Clipped(a.y, b.y, Height, y2)
    BY <1>1, <1>3, <2>0, Edges, Clip
  <2> HIDE DEF x2, y2
  <2>4. ASSUME NEW p \in fill_rect(a, b) PROVE p \in Visible /\ Inside(p, a, b)
    <3>1. PICK y \in a.y .. y2 - 1, x \in 0 .. (x2 - a.x) - 1 : p = Address(a.x + x, y)
      BY <2>1, <2>4
    <3> DEFINE u == a.x + x
    <3>2. u \in a.x .. x2 - 1 /\ p = Address(u, y)
      BY <2>2, <3>1 DEF Clipped
    <3> HIDE DEF u
    <3> QED
      BY <2>2, <2>3, <3>1, <3>2 DEF Inside, Visible, Clipped
  <2>5. ASSUME NEW p \in Visible, Inside(p, a, b) PROVE p \in fill_rect(a, b)
    <3>1. PICK u \in a.x .. x2 - 1, y \in a.y .. y2 - 1 : p = Address(u, y)
      BY <2>2, <2>3, <2>5 DEF Inside, Clipped
    <3>2. u - a.x \in 0 .. (x2 - a.x) - 1 /\ p = Address(a.x + (u - a.x), y)
      BY <2>2, <3>1 DEF Clipped
    <3> QED
      BY <2>1, <3>1, <3>2
  <2> QED
    BY <2>4, <2>5
<1> QED
  BY <1>1, <1>2, <1>3, DisplayAssumption

\* draw_rect writes the border of the part of the rectangle that is on the screen.
LEMMA BorderExact ==
    ASSUME NEW a \in Coords, NEW b \in Coords, b.x > 0, b.y > 0,
           a.x + b.x < Word, a.y + b.y < Word, screens[cur]
    PROVE  draw_rect(a, b) = {p \in Visible : OnBorder(p, a, b)}
<1>1. a.x \in Nat /\ b.x \in Nat /\ a.y \in Nat /\ b.y \in Nat
  BY CoordsTyped
<1>2. CASE a.x >= Width \/ a.y >= Height
  <2>1. draw_rect(a, b) = {}
    BY <1>2 DEF draw_rect, Outside
  <2>2. \A p : ~OnBorder(p, a, b)
    BY <1>1, <1>2, DisplayAssumption DEF OnBorder
  <2> QED
    BY <2>1, <2>2
<1>3. CASE a.x < Width /\ a.y < Height
  <2>0. Width \in Nat /\ Height \in Nat
    BY DisplayAssumption
  <2> DEFINE x2 == Right(a, b)
             y2 == Bottom(a, b)
             top == UNION {set_pixel(x, a.y) : x \in a.x .. x2 - 1}
             bottom == IF y2 - 1 > a.y THEN UNION {set_pixel(x, y2 - 1) : x \in a.x .. x2 - 1} ELSE {}
             rows == a.y + 1 .. (y2 - 1) - 1
             left == UNION {set_pixel(a.x, y) : y \in rows}
             right == IF x2 - 1 > a.x THEN UNION {set_pixel(x2 - 1, y) : y \in rows} ELSE {}
  <2>1. draw_rect(a, b) = top \cup bottom \cup left \cup right
    <3>1. ~Outside(a)
      BY <1>1, <1>3, DisplayAssumption DEF Outside
    <3>2. Last(Right(a, b)) = Right(a, b) - 1 /\ Last(Bottom(a, b)) = Bottom(a, b) - 1
      BY <1>3, Edges
    <3> QED
      BY <3>1, <3>2 DEF draw_rect
  <2>2. Clipped(a.x, b.x, Width, x2)
    BY <1>1, <1>3, <2>0, Edges, Clip
  <2>3. Clipped(a.y, b.y, Height, y2)
    BY <1>1, <1>3, <2>0, Edges, Clip
  <2> DEFINE xs == a.x .. x2 - 1
             ys == a.y .. y2 - 1
  <2> HIDE DEF x2, y2
  <2>4. \A x \in xs, y \in ys : set_pixel(x, y) = {Address(x, y)}
    <3>1. \A x \in xs : x < Width
      BY <2>2 DEF Clipped
    <3>2. \A y \in ys : y < Height
      BY <2>3 DEF Clipped
    <3> QED
      BY <3>1, <3>2 DEF set_pixel
  <2>5. a.x \in xs /\ x2 - 1 \in xs /\ a.y \in ys /\ y2 - 1 \in ys /\ rows \subseteq ys
    BY <1>1, <2>2, <2>3 DEF Clipped
  <2>6. \A y \in ys : y \notin {a.y, y2 - 1} => y \in rows
    BY <1>1, <2>3 DEF Clipped
  <2>7. /\ top = {Address(x, a.y) : x \in xs}
        /\ UNION {set_pixel(x, y2 - 1) : x \in xs} = {Address(x, y2 - 1) : x \in xs}
        /\ left = {Address(a.x, y) : y \in rows}
        /\ UNION {set_pixel(x2 - 1, y) : y \in rows} = {Address(x2 - 1, y) : y \in rows}
    <3> HIDE DEF rows, xs, ys
    <3>1. \A x \in xs : set_pixel(x, a.y) = {Address(x, a.y)} /\ set_pixel(x, y2 - 1) = {Address(x, y2 - 1)}
      BY <2>4, <2>5
    <3>2. \A y \in rows : set_pixel(a.x, y) = {Address(a.x, y)} /\ set_pixel(x2 - 1, y) = {Address(x2 - 1, y)}
      BY <2>4, <2>5
    <3>3. top = UNION {set_pixel(x, a.y) : x \in xs}
      BY DEF xs
    <3> QED
      BY <3>1, <3>2, <3>3
  <2>8. y2 - 1 > a.y \/ y2 - 1 = a.y
    BY <1>1, <2>3 DEF Clipped
  <2>9. x2 - 1 > a.x \/ x2 - 1 = a.x
    BY <1>1, <2>2 DEF Clipped
  <2>10. bottom = IF y2 - 1 > a.y THEN {Address(x, y2 - 1) : x \in xs} ELSE {}
    BY <2>7
  <2>11. right = IF x2 - 1 > a.x THEN {Address(x2 - 1, y) : y \in rows} ELSE {}
    BY <2>7
  <2> DEFINE Edge(p) == \E x \in xs, y \in ys :
                           p = Address(x, y) /\ (x \in {a.x, x2 - 1} \/ y \in {a.y, y2 - 1})
  <2> HIDE DEF top, bottom, left, right, rows, xs, ys
  <2>12. ASSUME NEW p \in draw_rect(a, b) PROVE Edge(p)
    <3>1. CASE p \in top
      BY <2>5, <2>7, <3>1
    <3>2. CASE p \in bottom
      BY <2>5, <2>10, <3>2
    <3>3. CASE p \in left
      BY <2>5, <2>7, <3>3
    <3>4. CASE p \in right
      BY <2>5, <2>11, <3>4
    <3> QED
      BY <2>1, <2>12, <3>1, <3>2, <3>3, <3>4
  <2>13. ASSUME NEW p, Edge(p) PROVE p \in draw_rect(a, b)
    <3>1. PICK x \in xs, y \in ys :
            p = Address(x, y) /\ (x \in {a.x, x2 - 1} \/ y \in {a.y, y2 - 1})
      BY <2>13
    <3>2. CASE y = a.y
      BY <2>1, <2>7, <3>1, <3>2
    <3>3. CASE y # a.y /\ y = y2 - 1
      BY <2>1, <2>8, <2>10, <3>1, <3>3
    <3>4. CASE y \notin {a.y, y2 - 1}
      <4>1. y \in rows /\ x \in {a.x, x2 - 1}
        BY <2>6, <3>1, <3>4
      <4>2. CASE x = a.x
        BY <2>1, <2>7, <3>1, <4>1, <4>2
      <4>3. CASE x # a.x
        BY <2>1, <2>9, <2>11, <3>1, <4>1, <4>3
      <4> QED
        BY <4>2, <4>3
    <3> QED
      BY <3>2, <3>3, <3>4
  <2>14. ASSUME NEW p, Edge(p) PROVE p \in Visible /\ OnBorder(p, a, b)
    BY <2>2, <2>3, <2>14 DEF Visible, OnBorder, Clipped, xs, ys
  <2>15. ASSUME NEW p, OnBorder(p, a, b) PROVE Edge(p)
    BY <2>2, <2>3, <2>15 DEF OnBorder, Clipped, xs, ys
  <2> HIDE DEF Edge
  <2> QED
    BY <2>12, <2>13, <2>14, <2>15
<1> QED
  BY <1>1, <1>2, <1>3, DisplayAssumption

-----------------------------------------------------------------------------
(* Every step keeps the invariant *)

LEMMA InitInv == Init => DisplayInv
<1> SUFFICES ASSUME Init PROVE DisplayInv
  OBVIOUS
<1> USE DisplayAssumption DEF Init
<1>1. Origin \in Coords
  BY DEF Origin, Coords
<1>2. op.a = Origin /\ op.b = Origin /\ op.f = "none"
  OBVIOUS
<1>3. TypeOK
  <2>1. 0 \in Ints
    BY HalfOfWord DEF Ints
  <2> QED
    BY <1>1, <1>2, <2>1 DEF TypeOK
<1>4. Prepared
  BY <1>2 DEF Prepared
<1> QED
  BY <1>2, <1>3, <1>4 DEF DisplayInv, StaysInside, RectExact, OnLine

\* A call that paints at once: what it paints is on the screen, and a rectangle is exact.
LEMMA DrawInv ==
    ASSUME DisplayInv, pc = "ready", NEW f, NEW a \in Coords, NEW b \in Coords, NEW pixels,
           Draw(f, a, b, pixels),
           (f = "fill_rect" => a.x + b.x < Word) => pixels \subseteq Shown,
           pixels \subseteq Nat,
           f \in {"fill_rect", "draw_rect"} /\ screens[cur] /\ b.x > 0 /\ b.y > 0
               /\ a.x + b.x < Word /\ a.y + b.y < Word
             => pixels = {p \in Visible : IF f = "fill_rect" THEN Inside(p, a, b) ELSE OnBorder(p, a, b)}
    PROVE  DisplayInv'
<1>1. op'.f = f /\ op'.a = a /\ op'.b = b /\ painted' = pixels /\ pc' = "done"
      /\ UNCHANGED <<response, screens, cur, size, line>>
  BY DEF Draw
<1>2. cur > 0
  BY DEF DisplayInv, Prepared
<1>3. TypeOK'
  BY <1>1 DEF DisplayInv, TypeOK
<1>4. Prepared'
  BY <1>1, <1>2 DEF DisplayInv, Prepared
<1>5. StaysInside'
  BY <1>1, <1>2 DEF StaysInside, Shown
<1>6. RectExact'
  BY <1>1 DEF RectExact
<1> QED
  BY <1>1, <1>3, <1>4, <1>5, <1>6 DEF DisplayInv, OnLine

\* Every pixel written is a word of the frame buffer's address space.
LEMMA FillIsNat ==
    ASSUME NEW a \in Coords, NEW b \in Coords
    PROVE  fill_rect(a, b) \subseteq Nat
<1> SUFFICES ASSUME NEW p \in fill_rect(a, b) PROVE p \in Nat
  OBVIOUS
<1>1. PICK y \in a.y .. Bottom(a, b) - 1, x \in 0 .. Wrap(Right(a, b) - a.x) - 1 :
        p = Address(a.x + x, y)
  BY DEF fill_rect
<1>2. a.x \in Nat /\ a.y \in Nat /\ Bottom(a, b) \in Int /\ Right(a, b) \in Int
  BY CoordsTyped, BoundsTyped, DisplayAssumption
<1>3. Wrap(Right(a, b) - a.x) \in Int
  BY <1>2, WrapIsNat, DisplayAssumption, SMTT(30)
<1>4. x \in Nat /\ y \in Nat
  BY <1>1, <1>2, <1>3
<1> QED
  BY <1>1, <1>2, <1>4, DisplayAssumption DEF Address

LEMMA PointsAreCoords == Points \subseteq Coords
BY DisplayAssumption DEF Points, Coords

LEMMA OriginTyped == Origin \in Coords
BY DisplayAssumption DEF Origin, Coords

\* A line begins at its start.
LEMMA StartLineInv ==
    ASSUME DisplayInv, pc = "ready", NEW a \in Coords, NEW b \in Coords, StartLine(a, b)
    PROVE  DisplayInv'
<1>1. /\ op' = [f |-> "draw_line", a |-> a, b |-> b] /\ pc' = "line"
      /\ line' = [dx |-> dx(a, b), dy |-> dy(a, b), x |-> AsInt(a.x), y |-> AsInt(a.y),
                  err |-> AsInt(dx(a, b) + dy(a, b))]
      /\ UNCHANGED <<response, screens, cur, size, painted>>
  BY DEF StartLine
<1>2. a.x \in 0 .. Word - 1 /\ a.y \in 0 .. Word - 1 /\ b.x \in 0 .. Word - 1 /\ b.y \in 0 .. Word - 1
  BY DEF Coords
<1>3. cur > 0 /\ painted = {}
  BY DEF DisplayInv, Prepared
<1>4. line' \in [dx : Ints, dy : Ints, x : Ints, y : Ints, err : Ints]
  <2>1. AsInt(a.x) \in Ints /\ AsInt(a.y) \in Ints /\ AsInt(b.x) \in Ints /\ AsInt(b.y) \in Ints
    BY <1>2, IntOf, HalfOfWord
  <2>2. AsInt(AsInt(b.x) - AsInt(a.x)) \in Int /\ AsInt(AsInt(b.y) - AsInt(a.y)) \in Int
    <3>1. AsInt(b.x) - AsInt(a.x) \in Int /\ AsInt(b.y) - AsInt(a.y) \in Int
      BY <2>1, HalfOfWord DEF Ints
    <3> QED
      BY <3>1, IntOf, HalfOfWord DEF Ints
  <2>3. dx(a, b) \in Ints /\ builtin_abs(AsInt(AsInt(b.y) - AsInt(a.y))) \in Ints
    BY <2>2, AbsIsNat, IntOf DEF dx, builtin_abs
  <2>4. -builtin_abs(AsInt(AsInt(b.y) - AsInt(a.y))) \in Int
    BY <2>3, HalfOfWord DEF Ints
  <2>5. dy(a, b) \in Ints
    BY <2>4, IntOf DEF dy
  <2>6. dx(a, b) + dy(a, b) \in Int
    BY <2>3, <2>5, HalfOfWord DEF Ints
  <2>7. AsInt(dx(a, b) + dy(a, b)) \in Ints
    BY <2>6, IntOf
  <2> QED
    BY <1>1, <2>1, <2>3, <2>5, <2>7
<1>5. TypeOK'
  BY <1>1, <1>4 DEF DisplayInv, TypeOK
<1>6. Prepared'
  BY <1>1, <1>3 DEF DisplayInv, Prepared
<1>7. ASSUME Drawable' PROVE OnWay'
  <2>1. Measurable(a.x, b.x) /\ Measurable(a.y, b.y)
    BY <1>1, <1>7 DEF Drawable
  <2>2. /\ StartX' = AsInt(a.x) /\ EndX' = AsInt(b.x) /\ StartY' = AsInt(a.y) /\ EndY' = AsInt(b.y)
        /\ Run' = Abs(AsInt(b.x) - AsInt(a.x)) /\ Rise' = Abs(AsInt(b.y) - AsInt(a.y))
    BY <1>1 DEF StartX, EndX, StartY, EndY, Run, Rise
  <2>3. /\ dx(a, b) = Run' /\ builtin_abs(AsInt(AsInt(b.y) - AsInt(a.y))) = Rise'
        /\ 3 * Run' < Half /\ 3 * Rise' < Half
    BY <1>2, <2>1, <2>2, MeasuredAxis DEF dx
  <2>4. AsInt(a.x) \in Int /\ AsInt(a.y) \in Int /\ AsInt(b.x) \in Int /\ AsInt(b.y) \in Int
    BY <1>2, IntOf, HalfOfWord DEF Ints
  <2>5. Run' \in Nat /\ Rise' \in Nat
    BY <2>2, <2>4, AbsIsNat
  <2>6. -Rise' \in Ints /\ Run' - Rise' \in Ints
    <3>1. PICK r \in Nat, s \in Nat : r = Run' /\ s = Rise'
      BY <2>5
    <3>2. 3 * r < Half /\ 3 * s < Half
      BY <2>3, <3>1
    <3>3. -s \in Ints /\ r - s \in Ints
      BY <3>2, HalfOfWord DEF Ints
    <3> QED
      BY <3>1, <3>3
  <2>7. dy(a, b) = -Rise'
    BY <2>3, <2>6, IntOf DEF dy
  <2>8. AsInt(dx(a, b) + dy(a, b)) = Run' - Rise'
    <3>1. dx(a, b) + dy(a, b) = Run' - Rise'
      BY <2>3, <2>5, <2>7
    <3> QED
      BY <2>6, <3>1, IntOf
  <2>9. Across' = 0 /\ Down' = 0
    BY <1>1, <2>2, <2>4 DEF Across, Down, Abs
  <2>10. InBox'
    BY <1>1, <2>2, <2>3, <2>4, <2>5, <2>7, <2>9 DEF InBox, Sign
  <2>11. ErrorTerm' /\ Near'
    <3>1. PICK r \in Nat, s \in Nat : r = Run' /\ s = Rise'
      BY <2>5
    <3>2. line'.err = r - s
      BY <1>1, <2>8, <3>1
    <3>3. Run' * Down' - Rise' * Across' = 0
      <4>1. r * 0 - s * 0 = 0
        OBVIOUS
      <4> QED
        BY <2>9, <3>1, <4>1, Zenon
    <3>4. (Run' * Down' - Rise' * Across') + Run' - Rise' = r - s
      BY <3>1, <3>3
    <3>5. ErrorTerm'
      BY <3>2, <3>4, Zenon DEF ErrorTerm
    <3>6. Near'
      BY <3>1, <3>3 DEF Near
    <3> QED
      BY <3>5, <3>6
  <2> QED
    BY <1>7, <2>10, <2>11 DEF OnWay
<1> QED
  BY <1>1, <1>3, <1>5, <1>6, <1>7 DEF DisplayInv, OnLine, StaysInside, RectExact

LEMMA LineStepInv == ASSUME DisplayInv, LineStep PROVE DisplayInv'
<1> USE DEF DisplayInv
<1>1. pc = "line" /\ cur > 0 /\ op.f = "draw_line"
  BY DEF LineStep, Prepared
<1>2. /\ painted' = painted \cup set_pixel(Wrap(line.x), Wrap(line.y))
      /\ UNCHANGED <<response, screens, cur, size, op>>
  BY DEF LineStep
<1>3. Wrap(line.x) \in Nat /\ Wrap(line.y) \in Nat
  <2>1. line.x \in Int /\ line.y \in Int
    BY OpTyped
  <2>2. Wrap(line.x) \in 0 .. Word - 1 /\ Wrap(line.y) \in 0 .. Word - 1
    BY <2>1, WrapIsNat
  <2> QED
    BY <2>2, DisplayAssumption
<1>4. set_pixel(Wrap(line.x), Wrap(line.y)) \subseteq Shown
  BY <1>3, PixelShown
<1>5. StaysInside'
  BY <1>1, <1>2, <1>4 DEF StaysInside, Shown, Visible
<1>6. painted' \subseteq Nat
  BY <1>2, <1>4, ShownIsNat DEF TypeOK
<1>7. RectExact'
  BY <1>1, <1>2 DEF RectExact
<1>8. CASE line.x = EndX /\ line.y = EndY
  <2>1. pc' = "done" /\ line' = line
    BY <1>8 DEF LineStep, EndX, EndY
  <2> QED
    BY <1>1, <1>2, <1>5, <1>6, <1>7, <2>1 DEF TypeOK, Prepared, OnLine
<1>9. CASE ~(line.x = EndX /\ line.y = EndY)
  <2>1. pc' = pc /\ line' = Advanced(line)
    BY <1>9 DEF LineStep, EndX, EndY
  <2>2. TypeOK'
    <3>1. line' \in [dx : Ints, dy : Ints, x : Ints, y : Ints, err : Ints]
      BY <2>1, AdvanceTyped
    <3> QED
      BY <1>1, <1>2, <1>6, <2>1, <3>1 DEF TypeOK
  <2>3. OnLine'
    <3>1. Drawable' <=> Drawable
      BY <1>2 DEF Drawable
    <3> QED
      BY <1>1, <1>2, <1>9, <2>1, <3>1, Advance DEF OnLine
  <2> QED
    BY <1>1, <1>2, <1>5, <1>7, <2>1, <2>2, <2>3 DEF Prepared
<1> QED
  BY <1>8, <1>9

\* Until a screen has been chosen and measured nothing is painted.
LEMMA ScreenInv ==
    ASSUME DisplayInv,
           ConstructDisplays \/ get_screen_size \/ \E id \in 0 .. 1 : get_screen(id)
    PROVE  DisplayInv'
<1> USE DEF DisplayInv
<1>1. /\ UNCHANGED <<response, painted, op, line>> /\ painted = {} /\ op.f = "none"
      /\ pc' \in {"get", "size", "ready", "halt"}
  BY DEF ConstructDisplays, get_screen_size, get_screen, Prepared
<1>2. screens' \in Seq(BOOLEAN) /\ cur' \in 0 .. Len(screens')
      /\ (pc' = "get" => cur' = 0) /\ (pc' \in {"size", "ready"} => cur' > 0)
  <2>1. CASE ConstructDisplays
    BY <2>1, DisplayAssumption DEF ConstructDisplays, Prepared
  <2>2. CASE get_screen_size
    BY <2>2 DEF get_screen_size, Prepared
  <2>3. ASSUME NEW id \in 0 .. 1, get_screen(id)
        PROVE  screens' \in Seq(BOOLEAN) /\ cur' \in 0 .. Len(screens')
               /\ (pc' = "get" => cur' = 0) /\ (pc' \in {"size", "ready"} => cur' > 0)
    BY <2>3 DEF get_screen, Prepared
  <2> QED
    BY <2>1, <2>2, <2>3
<1>3. TypeOK'
  BY <1>1, <1>2 DEF TypeOK
<1>4. Prepared'
  BY <1>1, <1>2 DEF Prepared
<1>5. StaysInside' /\ RectExact' /\ OnLine'
  BY <1>1 DEF StaysInside, RectExact, OnLine
<1> QED
  BY <1>3, <1>4, <1>5

LEMMA StutterInv == ASSUME DisplayInv, UNCHANGED vars PROVE DisplayInv'
BY SMTT(30) DEF vars, DisplayInv, TypeOK, Prepared, StaysInside, RectExact, OnLine, Visible, Inside, OnBorder,
       OnWay, Drawable, InBox, ErrorTerm, Near, Across, Down, Run, Rise, StartX, StartY, EndX, EndY

LEMMA NextInv == DisplayInv /\ [Next]_vars => DisplayInv'
<1> SUFFICES ASSUME DisplayInv, [Next]_vars PROVE DisplayInv'
  OBVIOUS
<1>1. CASE Wait \/ Halt \/ UNCHANGED vars
  BY <1>1, StutterInv DEF Wait, Halt
<1>2. CASE Step
  BY <1>2, ScreenInv, LineStepInv DEF Step
<1>3. CASE pc = "ready" /\ Draw("clear", Origin, Origin, clear)
  BY <1>3, DrawInv, OriginTyped, ClearShown, ShownIsNat
<1>4. ASSUME pc = "ready", NEW a \in Points, Draw("set_pixel", a, Origin, set_pixel(a.x, a.y))
      PROVE  DisplayInv'
  <2>1. set_pixel(a.x, a.y) \subseteq Shown
    BY PointsAreCoords, CoordsTyped, PixelShown
  <2> QED
    BY <1>4, <2>1, PointsAreCoords, DrawInv, OriginTyped, ShownIsNat
<1>5. ASSUME pc = "ready", NEW a \in Points, NEW b \in Points,
             Draw("draw_rect", a, b, draw_rect(a, b))
      PROVE  DisplayInv'
  BY <1>5, PointsAreCoords, DrawInv, BorderShown, BorderExact, ShownIsNat
<1>6. ASSUME pc = "ready", NEW a \in Points, NEW b \in Points,
             Draw("fill_rect", a, b, fill_rect(a, b))
      PROVE  DisplayInv'
  BY <1>6, PointsAreCoords, DrawInv, FillShown, FillExact, FillIsNat
<1>7. ASSUME pc = "ready", NEW a \in Points, NEW b \in Points, StartLine(a, b)
      PROVE  DisplayInv'
  BY <1>7, PointsAreCoords, StartLineInv
<1> QED
  BY <1>1, <1>2, <1>3, <1>4, <1>5, <1>6, <1>7 DEF Next

LEMMA Invariance == Spec => []DisplayInv
<1> QED
  BY InitInv, NextInv, PTL DEF Spec

-----------------------------------------------------------------------------
(* Theorems *)

\* The state of the display has its type: the screen is one of the list, and what is
\* painted are offsets; the numbers of draw_line are ints because they wrap around.
THEOREM TypeCorrect == Spec => []TypeOK
<1>1. DisplayInv => TypeOK
  BY DEF DisplayInv
<1> QED
  BY <1>1, Invariance, PTL

\* No drawing function writes outside the visible part of the frame buffer of the
\* chosen screen, and none writes anywhere when that screen has no frame buffer; of
\* fill_rect this needs that the right edge does not wrap around.
THEOREM DrawingStaysInside == Spec => []StaysInside
<1>1. DisplayInv => StaysInside
  BY DEF DisplayInv
<1> QED
  BY <1>1, Invariance, PTL

\* fill_rect and draw_rect paint exactly the clipped rectangle and its border, for
\* every screen, position and extent that do not wrap around.
THEOREM RectanglesExact == Spec => []RectExact
<1>1. DisplayInv => RectExact
  BY DEF DisplayInv
<1> QED
  BY <1>1, Invariance, PTL

\* While draw_line draws a line whose ends lie in the same half of the words and less
\* than a sixth of them apart, twice err never leaves the range of int, no point is
\* more than half a pixel off, and none is outside the box of the line.  Of other lines
\* this says nothing: the ints order their ends otherwise than the words do, or wrap
\* around.
THEOREM LinesAccurate == Spec => []LineAccurate
BY NearIsAccurate, Invariance, PTL

=============================================================================
