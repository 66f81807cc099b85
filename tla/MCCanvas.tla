------------------------------ MODULE MCCanvas -------------------------------
(***************************************************************************)
(* Situations of one board: changes of a single element with every fault   *)
(* of the board at once, and what ada sees of ben's gestures, when frames  *)
(* are late or lost, he undoes and erases, or one of them loses the        *)
(* connection in the middle of it. In the last one, the strokes of a pen.  *)
(***************************************************************************)
EXTENDS Canvas, Strokes

CONSTANTS ada, ben, e1, e2

Faulty  == [may |-> Kinds \ {"rejoin", "gesture"}, open |-> Members, ids |-> {e1},
            changes |-> MaxSeq, hands |-> {}, frames |-> 0]
Loading == [Faulty EXCEPT !.open = {ada}, !.changes = 2]
Watched == [may |-> {"gesture"}, open |-> {ben}, ids |-> {e1}, changes |-> 1,
            hands |-> {ben}, frames |-> 2]
Slow    == [Watched EXCEPT !.may = @ \cup {"decrypt"}, !.open = Members, !.changes = 2, !.frames = 1]
Two     == [Watched EXCEPT !.ids = {e1, e2}, !.open = Members, !.frames = 1]
Broken  == [Watched EXCEPT !.may = @ \cup {"rejoin"}, !.open = Members, !.frames = 1]

Still   == [Watched EXCEPT !.may = {}, !.open = {}, !.hands = {}]

MCScopes == {Faulty, Loading, Watched, Slow, Two, Broken, Still}

\* Up to four samples anywhere on a small grid, and a long zigzag, of which every
\* point is kept.
Grid   == {0, 1, 3} \X {0, 2, 4}
Zigzag == [i \in 1 .. 10 |-> <<3 * (i - 1), 4 * (i % 2)>>]
Starts == {Zigzag[i] : i \in 1 .. 10}

MCSamples == UNION {[1 .. n -> Grid] : n \in 1 .. 4} \cup {SubSeq(Zigzag, 1, n) : n \in 1 .. 10}
               \cup {<<p>> : p \in Starts}

\* Where the samples of a pen are looked into, nothing else happens.
MCInit == CanvasInit /\ PenInit
MCNext ==
    \/ scope # Still /\ CanvasNext /\ UNCHANGED penVars
    \/ scope = Still /\ PenNext /\ UNCHANGED canvasVars

MCSpec == MCInit /\ [][MCNext]_<<canvasVars, penVars>> /\ CanvasFairness
=============================================================================
