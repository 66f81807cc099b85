------------------------------ MODULE Arrivals -------------------------------
(***************************************************************************)
(* In what order changes take effect on each member's board, as history    *)
(* beside the steps of module Whiteboard, and what the boards then show.   *)
(*                                                                         *)
(* A session applies changes in the order in which they come, looking at   *)
(* their numbers only against the snapshot's (of those that were buffered) *)
(* and, for an add, against the element's own.  The boards are right where *)
(* every change takes effect over older ones; an id on which an older one  *)
(* took effect over a newer one has strayed on that board, until a newer   *)
(* one takes effect there.                                                 *)
(***************************************************************************)
EXTENDS Whiteboard

VARIABLES
    newest,     \* [member -> [id -> the highest number of a change its board reflects]]
    strayed     \* [member -> ids on which an older change took effect over a newer one]

arrivalVars == <<whiteVars, newest, strayed>>

-----------------------------------------------------------------------------
\* Of the changes c asked for and shows already, one about id is not numbered yet
\* (so it will be above all that are), or above n.
OwnAbove(c, id, n) ==
    \/ \E k \in DOMAIN requests[c] :
          LET q == requests[c][k] IN
          q.kind # "clear" /\ q.asker = "waiting" /\ id \in q.ids /\ (q.stage # "stored" \/ q.seq > n)
    \/ \E k \in DOMAIN inbox'[c] :
          LET a == inbox'[c][k] IN
          a.type = "ack" /\ a.kind # "clear" /\ id \in a.ids /\ a.seq > n

\* What one change makes of a board [els, clear] and its history.
After(h, c, op) ==
    LET v == Applied(h.v, op)
        fresh == {id \in op.ids : h.newest[id] <= op.seq /\ ~OwnAbove(c, id, op.seq)}
        hit == {id \in op.ids : v.els[id] # h.v.els[id]} IN
    [v       |-> v,
     newest  |-> [id \in Ids |-> IF id \in op.ids /\ h.newest[id] < op.seq THEN op.seq ELSE h.newest[id]],
     strayed |-> (h.strayed \cup hit) \ fresh]

AfterAll(h, c, ops) ==
    LET after[n \in 0 .. Len(ops)] == IF n = 0 THEN h ELSE After(after[n - 1], c, ops[n])
    IN  after[Len(ops)]

History(c) == [v |-> Standing(c), newest |-> newest[c], strayed |-> strayed[c]]
Keep(c, h) ==
    /\ newest' = [newest EXCEPT ![c] = h.newest]
    /\ strayed' = [strayed EXCEPT ![c] = h.strayed]

\* A session begins anew.
Begins(c) == Keep(c, [newest |-> Nothing, strayed |-> {}])

\* The snapshot reflects everything up to its number.
LoadsInOrder(c) ==
    /\ Loaded(c)
    /\ LET rs == snap[c].rows
           els == [id \in Ids |-> IF rs[id] = NoRow THEN 0 ELSE rs[id].seq]
           had == [id \in Ids |-> IF rs[id] = NoRow THEN snap[c].seq ELSE rs[id].seq] IN
       Keep(c, AfterAll([v |-> [els |-> els, clear |-> lastClear[c]], newest |-> had, strayed |-> {}],
                        c, Later(c)))

AppliesInOrder(c) ==
    /\ ApplyNext(c)
    /\ Keep(c, After(History(c), c, Head(queue[c])))

\* An own change takes effect before it is numbered, above all that are.
Gestures(c) ==
    /\ GestureStep(c)
    /\ newest' = newest
    /\ strayed' = [strayed EXCEPT ![c] = {id \in @ : elements'[c][id] = elements[c][id]}]

\* An acknowledged add takes its number, unless it is gone by now.
Confirmed(c, a) ==
    LET changed == {id \in a.ids : elements'[c][id] # elements[c][id]}
        over    == {id \in a.ids : OwnAbove(c, id, a.seq) \/ newest[c][id] > a.seq}
        taken   == {id \in a.ids : elements'[c][id] = a.seq} IN
    Keep(c, [newest  |-> [id \in Ids |-> IF id \in a.ids /\ newest[c][id] < a.seq
                                         THEN a.seq ELSE newest[c][id]],
             strayed |-> (strayed[c] \cup (changed \cap over)) \ (taken \ over)])

\* A refused one takes away what another may have put there.
Undone(c, a) ==
    /\ newest' = newest
    /\ strayed' = [strayed EXCEPT ![c] = @ \cup
          {id \in a.ids : /\ elements'[c][id] # elements[c][id]
                          /\ newest[c][id] # 0 /\ log[newest[c][id]].kind = "add"}]

Answers(c) ==
    LET a == Head(inbox[c]) IN
    /\ Receive(c)
    /\ \/ a.type = "op" /\ UNCHANGED <<newest, strayed>>
       \/ a.type = "ack" /\ a.kind = "clear" /\ Keep(c, After(History(c), c, a))
       \/ a.type = "ack" /\ a.kind # "clear" /\ Confirmed(c, a)
       \/ a.type = "nack" /\ Undone(c, a)

Elsewhere(c) ==
    /\ \/ Open(c) \/ ReadSnapshot(c) \/ LoadFailed(c) \/ Retry(c)
       \/ \E k \in DOMAIN requests[c] : Sealed(c, k) \/ Store(c, k) \/ Refuse(c, k) \/ Announce(c, k)
    /\ UNCHANGED <<newest, strayed>>

ArrivalsNext ==
    /\ UNCHANGED scope
    /\ \E c \in Members :
        \/ LoadsInOrder(c) \/ AppliesInOrder(c) \/ Answers(c) \/ Gestures(c)
        \/ Rejoin(c) /\ Begins(c)
        \/ Elsewhere(c)

ArrivalsInit == Init /\ newest = [c \in Members |-> Nothing] /\ strayed = [c \in Members |-> {}]

\* The server and the network answer; people need not do anything, and loading
\* need not come to an end.
ArrivalsSpec ==
    /\ ArrivalsInit /\ [][ArrivalsNext]_arrivalVars
    /\ \A c \in Members : WF_whiteVars(WireStep(c) /\ UNCHANGED scope)

-----------------------------------------------------------------------------
(* Properties.                                                             *)

\* What is shown of the stored rows, the pictures being compared by number.
Numbers(b) == [id \in Ids |-> IF b[id] = NoRow THEN 0 ELSE b[id].seq]

\* Nothing is in flight.
Quiescent == \A c \in Members : requests[c] = <<>> /\ inbox[c] = <<>> /\ queue[c] = <<>>

\* Sessions converge: a session that has loaded, when nothing is in flight, shows
\* the stored board, whatever raced with its load, with its own changes, undone and
\* done again, and with clears; but for the ids on which it let an older change take
\* effect over a newer one.  (Answers given up or refused without need, and own
\* changes that overtake each other, are not among the situations it is checked in.)
Convergence ==
    Quiescent => \A c \in Members : phase[c] = "ready" =>
        \A id \in Ids \ strayed[c] : elements[c][id] = Numbers(rows)[id]
=============================================================================
