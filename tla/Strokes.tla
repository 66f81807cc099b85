------------------------------ MODULE Strokes --------------------------------
(***************************************************************************)
(* What becomes of the samples of a pen: apps/web/src/lib/board/geometry.ts *)
(* and the end of a gesture in components/board/Whiteboard.tsx.            *)
(*                                                                         *)
(* A point is a pair of integers (pointer samples are rounded before they  *)
(* are kept) and a stroke a sequence of points, where the code has a flat  *)
(* list of coordinates. Distances are compared as squares, kept as a pair  *)
(* of numerator and denominator: exactly, where the code rounds. Of the    *)
(* shapes the eraser touches, ellipses and texts are left out.             *)
(***************************************************************************)
EXTENDS Integers, Sequences, FiniteSets, SequencesExt

CONSTANTS
    MaxPoints,  \* bound: half of MAX_STROKE_COORDS
    Samples     \* bound: the gestures to look at, with each beginning and each point of theirs

ASSUME PiecesOverlap == MaxPoints \in Nat /\ MaxPoints > 1

VARIABLES
    raw,        \* gesture.raw: the samples of the pen, <<>> before it goes down
    added       \* the strokes it was added to the board as, in order

penVars == <<raw, added>>

Square(n) == n * n

-----------------------------------------------------------------------------
(* Distances.                                                              *)

Between(p, q) == <<Square(p[1] - q[1]) + Square(p[2] - q[2]), 1>>

\* distToSegment: to a, to b, or to the line through both.
ToSegment(p, a, b) ==
    LET dx == b[1] - a[1]
        dy == b[2] - a[2]
        along  == (p[1] - a[1]) * dx + (p[2] - a[2]) * dy
        length == dx * dx + dy * dy
    IN  CASE along <= 0      -> Between(p, a)
          [] along >= length -> Between(p, b)
          [] OTHER -> <<Square((p[1] - a[1]) * dy - (p[2] - a[2]) * dx), length>>

Farther(d, e) == d[1] * e[2] > e[1] * d[2]

Epsilon == <<36, 25>>   \* 1.2, squared

-----------------------------------------------------------------------------
(* Ramer-Douglas-Peucker. The two parts of a segment do not depend on each *)
(* other, so the order in which the code's stack takes them does not show. *)

\* The farthest sample between two, the first of those equally far; 0 if all are
\* near enough.
Worst(points, first, last) ==
    LET d == [i \in first + 1 .. last - 1 |-> ToSegment(points[i], points[first], points[last])]
        far == {i \in DOMAIN d : Farther(d[i], Epsilon)}
    IN  IF far = {} THEN 0
        ELSE CHOOSE i \in far : \A j \in far : ~Farther(d[j], d[i]) /\ (Farther(d[i], d[j]) \/ i <= j)

\* (Mutant: only what follows the farthest sample is looked at again.)
KeptOnce(points) ==
    LET n == Len(points)
        keep[span \in (1 .. n) \X (1 .. n)] ==
            LET w == Worst(points, span[1], span[2]) IN
            IF w = 0 THEN {} ELSE {w} \cup keep[<<w, span[2]>>]
    IN  {1, n} \cup keep[<<1, n>>]

Kept(points) ==
    LET n == Len(points)
        keep[span \in (1 .. n) \X (1 .. n)] ==
            LET w == Worst(points, span[1], span[2]) IN
            IF w = 0 THEN {} ELSE {w} \cup keep[<<span[1], w>>] \cup keep[<<w, span[2]>>]
    IN  {1, n} \cup keep[<<1, n>>]

Simplify(points) ==
    LET kept == Kept(points)
        nth(k) == CHOOSE i \in kept : Cardinality({j \in kept : j <= i}) = k
    IN  [k \in 1 .. Cardinality(kept) |-> points[nth(k)]]

\* The pieces a stroke is sent in: each begins at the last point of the one before.
Pieces(points) ==
    LET step == MaxPoints - 1
        end(k) == IF k * step + 1 < Len(points) THEN k * step + 1 ELSE Len(points)
    IN  [k \in 1 .. (Len(points) - 1) \div step + 1 |-> SubSeq(points, (k - 1) * step + 1, end(k))]

-----------------------------------------------------------------------------
(* The eraser. `reach' is the square of its radius plus half the width.    *)

NearPolyline(points, p, reach) ==
    IF Len(points) = 1 THEN ~Farther(Between(p, points[1]), reach)
    ELSE \E i \in 1 .. Len(points) - 1 : ~Farther(ToSegment(p, points[i], points[i + 1]), reach)

Corners(a, b) == <<a, <<b[1], a[2]>>, b, <<a[1], b[2]>>, a>>

HitTest(el, p, reach) ==
    CASE el.type = "stroke" -> NearPolyline(el.points, p, reach)
      [] el.type = "line"   -> ~Farther(ToSegment(p, el.from, el.to), reach)
      [] el.type = "rect"   -> NearPolyline(Corners(el.from, el.to), p, reach)

-----------------------------------------------------------------------------
(* The pen goes down once, moves and goes up.                              *)

PenInit == raw = <<>> /\ added = <<>>

PenMove ==
    /\ added = <<>>
    /\ \E p \in {s[1] : s \in Samples} : raw' = Append(raw, p)
    /\ raw' \in Samples
    /\ UNCHANGED added

PenUp ==
    /\ raw # <<>> /\ added = <<>>
    /\ LET pieces == Pieces(Simplify(raw))
       IN  added' = [k \in DOMAIN pieces |-> [type |-> "stroke", points |-> pieces[k]]]
    /\ UNCHANGED raw

PenNext == PenMove \/ PenUp

-----------------------------------------------------------------------------
(* Property.                                                               *)

\* A stroke goes up whole: its pieces fit in an element and, joined where they
\* overlap, are what was simplified; and whoever touches the board where the pen
\* has been, within 1.2 of it, touches one of the pieces: no sample was dropped
\* that the stroke left farther away than that. A line or a rectangle is touched
\* at the same places whichever way it was dragged.
StrokeWhole ==
    added # <<>> =>
        LET first == raw[1]
            last  == raw[Len(raw)]
            shape(type, a, b) == [type |-> type, from |-> a, to |-> b]
        IN
        /\ \A k \in DOMAIN added : Len(added[k].points) \in 1 .. MaxPoints
        /\ \A k \in DOMAIN added \ {1} : Head(added[k].points) = Last(added[k - 1].points)
        /\ <<first>> \o FlattenSeq([k \in DOMAIN added |-> Tail(added[k].points)]) = Simplify(raw)
        /\ \A p \in ToSet(raw) : \E k \in DOMAIN added : HitTest(added[k], p, Epsilon)
        /\ \A type \in {"line", "rect"}, p \in ToSet(raw) :
              HitTest(shape(type, first, last), p, Epsilon)
                = HitTest(shape(type, last, first), p, Epsilon)
=============================================================================
