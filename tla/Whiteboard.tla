----------------------------- MODULE Whiteboard ------------------------------
(***************************************************************************)
(* One room's whiteboard as its members see it: a BoardSession in each     *)
(* member's browser (apps/web/src/lib/board/session.ts), the handlers of   *)
(* apps/api/src/modules/board/board.gateway.ts, and the stored Board.      *)
(*                                                                         *)
(* A session's elements are kept as their numbers: 0 for no such element,  *)
(* Pending for one the server has not numbered yet.  Contents are left     *)
(* out: the canvas never changes an element's content under its id.        *)
(***************************************************************************)
EXTENDS Board, SequencesExt

CONSTANTS MaxSeq,       \* bound: changes ever asked for
          MaxUndo,      \* bound: length of the undo and redo stacks
          Scopes        \* the situations that are modelled

\* What may happen in a situation, besides the members' drawing:
Kinds ==      {"rejoin",    \* a member loses the connection and comes back
               "fail",      \* the snapshot request fails
               "undo",      \* members undo and redo
               "refuse",    \* changes are refused for other reasons than Board's
               "timeout",   \* an answer takes longer than ten seconds
               "seal",      \* encrypting takes longer than the next gesture
               "decrypt",   \* decrypting a change takes longer than the next message
               "overlap",   \* two changes of one socket are stored in either order
               "reorder",   \* changes are broadcast in either order
               "gesture"}   \* what a gesture shows before it ends (module Canvas)

\* A situation: what may happen, who has loaded the empty board already, and its bounds,
\* the ids drawn, the number of changes, who uses the pointer and the number of frames.
ASSUME WhiteboardAssumption ==
    /\ MaxSeq \in Nat /\ MaxUndo \in Nat
    /\ \A s \in Scopes : /\ s.may \subseteq Kinds /\ s.ids \subseteq Ids /\ s.open \subseteq Members
                         /\ s.changes \in 0 .. MaxSeq /\ s.frames \in Nat

VARIABLES
    phase,      \* [member -> closed, loading, failed (loading) or ready]
    elements,   \* [member -> [id -> its number, Pending or 0]]
    buffer,     \* [member -> changes that came while loading]
    snap,       \* [member -> the snapshot on its way: none, asked or got]
    queue,      \* [member -> changes being decrypted]
    lastClear,  \* [member -> lastClearSeq]
    undoStack,  \* [member -> what undo takes back, latest last]
    redoStack,
    requests,   \* [member -> changes asked for, in the order they are sent]
    inbox,      \* [member -> what its socket will receive]
    drawn,      \* ids ever made: randomUUID never repeats one
    asked,      \* how many changes were ever asked for
    scope       \* the situation, which does not change

sessionVars == <<phase, elements, buffer, snap, queue, lastClear, undoStack, redoStack>>
wireVars    == <<requests, inbox, drawn, asked>>
whiteVars   == <<boardVars, sessionVars, wireVars, scope>>

May(kind) == kind \in scope.may

Pending == MaxSeq + 1

NoSnap == [state |-> "none", seq |-> 0, rows |-> [id \in Ids |-> NoRow]]

\* `back' is what an erase that fails puts back; the asker waits for the answer,
\* gave up, or its socket is gone.
Request(kind, ids, back) ==
    [kind |-> kind, ids |-> ids, back |-> back, seq |-> 0, asker |-> "waiting",
     stage |-> IF kind = "add" THEN "sealing" ELSE "sent"]

ChangeKinds == {"add", "remove", "clear"}
Numbering   == [Ids -> Nat]
RequestType == [kind : ChangeKinds, ids : SUBSET Ids, back : Numbering, seq : Nat,
                asker : {"waiting", "gaveUp", "gone"}, stage : {"sealing", "sent", "stored"}]
AnswerType  == [type : {"op", "ack", "nack", "late"}, kind : ChangeKinds, ids : SUBSET Ids,
                seq : Nat, back : Numbering]
UndoType    == [kind : {"add", "erase"}, ids : SUBSET Ids]

Nothing == [id \in Ids |-> 0]
Shown(c) == {id \in Ids : elements[c][id] # 0}

-----------------------------------------------------------------------------
(* applyOpened, as what it does to [els, clear] (elements, lastClearSeq).  *)

Erased(els, ids) == [id \in Ids |-> IF id \in ids THEN 0 ELSE els[id]]
Applied(v, op) ==
    CASE op.kind = "add"    -> [v EXCEPT !.els = [id \in Ids |->
                                  IF id \in op.ids /\ v.els[id] < op.seq THEN op.seq ELSE v.els[id]]]
      [] op.kind = "remove" -> [v EXCEPT !.els = Erased(v.els, op.ids)]
      [] op.kind = "clear"  -> [els   |-> Erased(v.els, {id \in Ids : v.els[id] < op.seq}),
                                clear |-> IF op.seq > v.clear THEN op.seq ELSE v.clear]

\* One after another.
AllApplied(v, ops) ==
    LET after[n \in 0 .. Len(ops)] == IF n = 0 THEN v ELSE Applied(after[n - 1], ops[n])
    IN  after[Len(ops)]

Standing(c) == [els |-> elements[c], clear |-> lastClear[c]]

\* A clear leaves nothing to undo.
Become(c, v, wiped) ==
    /\ elements'  = [elements EXCEPT ![c] = v.els]
    /\ lastClear' = [lastClear EXCEPT ![c] = v.clear]
    /\ undoStack' = IF wiped THEN [undoStack EXCEPT ![c] = <<>>] ELSE undoStack
    /\ redoStack' = IF wiped THEN [redoStack EXCEPT ![c] = <<>>] ELSE redoStack

Apply(c, op) == Become(c, Applied(Standing(c), op), op.kind = "clear")

\* SelectSeq, of the elements in P, as a function that the provers can look into.
Among(s, P) ==
    LET kept[n \in 0 .. Len(s)] ==
          IF n = 0 THEN <<>> ELSE IF s[n] \in P THEN Append(kept[n - 1], s[n]) ELSE kept[n - 1]
    IN  kept[Len(s)]

-----------------------------------------------------------------------------
(* Loading.                                                                *)

Reset(c, ph, sn) ==
    /\ phase'     = [phase EXCEPT ![c] = ph]
    /\ elements'  = [elements EXCEPT ![c] = Nothing]
    /\ buffer'    = [buffer EXCEPT ![c] = <<>>]
    /\ snap'      = [snap EXCEPT ![c] = sn]
    /\ queue'     = [queue EXCEPT ![c] = <<>>]
    /\ lastClear' = [lastClear EXCEPT ![c] = 0]
    /\ undoStack' = [undoStack EXCEPT ![c] = <<>>]
    /\ redoStack' = [redoStack EXCEPT ![c] = <<>>]

Asked == [NoSnap EXCEPT !.state = "asked"]

\* The room key is ready: listen, then ask for the snapshot.
Open(c) ==
    /\ phase[c] = "closed"
    /\ Reset(c, "loading", Asked)
    /\ UNCHANGED <<boardVars, wireVars>>

\* A new connection: what the old one had in flight is answered to nobody, and
\* what it had not sent yet is sent before the new one is seated, to be refused.
Rejoin(c) ==
    /\ May("rejoin")
    /\ phase[c] # "closed"
    /\ Reset(c, "closed", NoSnap)
    /\ LET sent == Among(requests[c], {q \in Range(requests[c]) : q.stage # "sealing"}) IN
       requests' = [requests EXCEPT ![c] = [k \in DOMAIN sent |-> [sent[k] EXCEPT !.asker = "gone"]]]
    /\ inbox' = [inbox EXCEPT ![c] = <<>>]
    /\ UNCHANGED <<boardVars, drawn, asked>>

\* getSnapshot, in one repeatable-read transaction.
ReadSnapshot(c) ==
    /\ snap[c].state = "asked"
    /\ snap' = [snap EXCEPT ![c] = [state |-> "got", seq |-> boardSeq, rows |-> rows]]
    /\ UNCHANGED <<boardVars, phase, elements, buffer, queue, lastClear, undoStack, redoStack, wireVars>>

\* The snapshot, with these changes on top.
Load(c, ops) ==
    LET els == [id \in Ids |-> IF snap[c].rows[id] = NoRow THEN 0 ELSE snap[c].rows[id].seq] IN
    Become(c, AllApplied([els |-> els, clear |-> lastClear[c]], ops),
           \E k \in DOMAIN ops : ops[k].kind = "clear")

\* (Mutant: applies everything that was buffered.)
LoadedAll(c) ==
    /\ snap[c].state = "got"
    /\ Load(c, buffer[c])
    /\ phase' = [phase EXCEPT ![c] = "ready"]
    /\ buffer' = [buffer EXCEPT ![c] = <<>>]
    /\ snap' = [snap EXCEPT ![c] = NoSnap]
    /\ UNCHANGED <<boardVars, queue, wireVars>>

\* Buffered changes that are not in the snapshot.
Later(c) == Among(buffer[c], {op \in Range(buffer[c]) : op.seq > snap[c].seq})

\* The snapshot is decrypted and shown, with what was buffered on top.
Loaded(c) ==
    /\ snap[c].state = "got"
    /\ Load(c, Later(c))
    /\ phase' = [phase EXCEPT ![c] = "ready"]
    /\ buffer' = [buffer EXCEPT ![c] = <<>>]
    /\ snap' = [snap EXCEPT ![c] = NoSnap]
    /\ UNCHANGED <<boardVars, queue, wireVars>>

LoadFailed(c) ==
    /\ May("fail")
    /\ snap[c].state # "none"
    /\ snap' = [snap EXCEPT ![c] = NoSnap]
    /\ phase' = [phase EXCEPT ![c] = "failed"]
    /\ UNCHANGED <<boardVars, elements, buffer, queue, lastClear, undoStack, redoStack, wireVars>>

Retry(c) ==
    /\ phase[c] = "failed"
    /\ phase' = [phase EXCEPT ![c] = "loading"]
    /\ buffer' = [buffer EXCEPT ![c] = <<>>]
    /\ snap' = [snap EXCEPT ![c] = Asked]
    /\ UNCHANGED <<boardVars, elements, queue, lastClear, undoStack, redoStack, wireVars>>

-----------------------------------------------------------------------------
(* A member's own changes.                                                 *)

\* Within the bound on changes; and unless encrypting is slow, it is done before the
\* member's next gesture.
CanAsk(c, n) ==
    /\ phase[c] = "ready"
    /\ asked' = asked + n /\ asked' <= scope.changes
    /\ May("seal") \/ \A k \in DOMAIN requests[c] : requests[c][k].stage # "sealing"

\* add: shown at once, then sent.
Put(c, ids) ==
    LET adds == SetToSeq({Request("add", {id}, Nothing) : id \in ids}) IN
    /\ elements' = [elements EXCEPT ![c] = [id \in Ids |-> IF id \in ids THEN Pending ELSE @[id]]]
    /\ requests' = [requests EXCEPT ![c] = @ \o adds]

\* erase, of what is shown.
TakeOff(c, ids) ==
    LET hit == ids \cap Shown(c)
        back == [id \in Ids |-> IF id \in hit THEN elements[c][id] ELSE 0] IN
    /\ elements' = [elements EXCEPT ![c] = Erased(@, hit)]
    /\ requests' = IF hit = {} THEN requests
                   ELSE [requests EXCEPT ![c] = Append(@, Request("remove", hit, back))]

Record(c, kind, ids) ==
    /\ undoStack' = IF May("undo")
                    THEN [undoStack EXCEPT ![c] = Append(@, [kind |-> kind, ids |-> ids])]
                    ELSE undoStack
    /\ redoStack' = [redoStack EXCEPT ![c] = <<>>]
    /\ Len(undoStack'[c]) <= MaxUndo

Draw(c, id) ==
    /\ CanAsk(c, 1)
    /\ id \in scope.ids \ drawn
    /\ drawn' = drawn \cup {id}
    /\ Put(c, {id})
    /\ Record(c, "add", {id})
    /\ UNCHANGED <<boardVars, phase, buffer, snap, queue, lastClear, inbox>>

Erase(c, ids) ==
    /\ CanAsk(c, 1)
    /\ ids # {} /\ ids \subseteq Shown(c)
    /\ TakeOff(c, ids)
    /\ Record(c, "erase", ids)
    /\ UNCHANGED <<boardVars, phase, buffer, snap, queue, lastClear, inbox, drawn>>

Clear(c) ==
    /\ c \in Hosts
    /\ CanAsk(c, 1)
    /\ requests' = [requests EXCEPT ![c] = Append(@, Request("clear", Ids, Nothing))]
    /\ UNCHANGED <<boardVars, sessionVars, inbox, drawn>>

\* Takes the last entry of one stack to the other, and back what it did (undo)
\* or does it again (redo).
Undo(c) ==
    LET a == Last(undoStack[c]) IN
    /\ undoStack[c] # <<>> /\ CanAsk(c, Cardinality(a.ids))
    /\ IF a.kind = "add" THEN TakeOff(c, a.ids) ELSE Put(c, a.ids)
    /\ undoStack' = [undoStack EXCEPT ![c] = Front(@)]
    /\ redoStack' = [redoStack EXCEPT ![c] = Append(@, a)]
    /\ UNCHANGED <<boardVars, phase, buffer, snap, queue, lastClear, inbox, drawn>>

Redo(c) ==
    LET a == Last(redoStack[c]) IN
    /\ redoStack[c] # <<>> /\ CanAsk(c, Cardinality(a.ids))
    /\ IF a.kind = "add" THEN Put(c, a.ids) ELSE TakeOff(c, a.ids)
    /\ redoStack' = [redoStack EXCEPT ![c] = Front(@)]
    /\ undoStack' = [undoStack EXCEPT ![c] = Append(@, a)]
    /\ UNCHANGED <<boardVars, phase, buffer, snap, queue, lastClear, inbox, drawn>>

-----------------------------------------------------------------------------
(* The server.                                                             *)

\* Encrypted, and so sent: after everything sent before.
Sealed(c, k) ==
    /\ requests[c][k].stage = "sealing"
    /\ requests' = [requests EXCEPT ![c] =
                      Append(RemoveAt(@, k), [requests[c][k] EXCEPT !.stage = "sent"])]
    /\ UNCHANGED <<boardVars, sessionVars, inbox, drawn, asked>>

\* The requests of one socket are taken up in the order they were sent.
Handled(c, k) ==
    /\ requests[c][k].stage = "sent"
    /\ May("overlap") \/ \A j \in 1 .. k - 1 : requests[c][j].stage # "sent"

\* The transaction commits.
Store(c, k) ==
    LET q == requests[c][k] IN
    /\ Handled(c, k)
    /\ \/ q.kind = "add" /\ \E id \in q.ids : AddElement(c, id)
       \/ q.kind = "remove" /\ RemoveElements(c, q.ids)
       \/ q.kind = "clear" /\ ClearBoard(c)
    /\ requests' = [requests EXCEPT ![c][k].stage = "stored", ![c][k].seq = boardSeq']
    /\ UNCHANGED <<sessionVars, inbox, drawn, asked>>

Answer(q, type) == [type |-> type, kind |-> q.kind, ids |-> q.ids, seq |-> q.seq, back |-> q.back]

\* Not one's own element, the board is full, the socket has lost its seat, or
\* there were too many requests.
Refuse(c, k) ==
    LET q == requests[c][k] IN
    /\ Handled(c, k)
    /\ \/ q.kind = "add" /\ \E id \in q.ids : ~MayAdd(c, id)
       \/ q.asker = "gone"
       \/ May("refuse")
    /\ requests' = [requests EXCEPT ![c] = RemoveAt(@, k)]
    /\ inbox' = IF q.asker = "waiting" THEN [inbox EXCEPT ![c] = Append(@, Answer(q, "nack"))] ELSE inbox
    /\ UNCHANGED <<boardVars, sessionVars, drawn, asked>>

\* Its promise resolved: board:op to every other socket, then the acknowledgement.
Announce(c, k) ==
    LET q == requests[c][k] IN
    /\ q.stage = "stored"
    /\ May("reorder") \/ \A d \in Members : \A j \in DOMAIN requests[d] :
          requests[d][j].stage = "stored" => requests[d][j].seq >= q.seq
    /\ requests' = [requests EXCEPT ![c] = RemoveAt(@, k)]
    /\ inbox' = [d \in Members |->
                   IF d # c \/ q.asker = "gone" THEN Append(inbox[d], Answer(q, "op"))
                   ELSE IF q.asker = "waiting" THEN Append(inbox[d], Answer(q, "ack")) ELSE inbox[d]]
    /\ UNCHANGED <<boardVars, sessionVars, drawn, asked>>

-----------------------------------------------------------------------------
(* What the socket brings.                                                 *)

Unchanged(c) == UNCHANGED <<elements, lastClear, undoStack, redoStack>>

OnOp(c, op) ==
    /\ op.type = "op"
    /\ buffer' = IF phase[c] \in {"loading", "failed"} THEN [buffer EXCEPT ![c] = Append(@, op)] ELSE buffer
    /\ queue'  = IF phase[c] = "ready" THEN [queue EXCEPT ![c] = Append(@, op)] ELSE queue
    /\ Unchanged(c)

Acked(c, a) ==
    /\ a.type = "ack"
    /\ CASE a.kind = "add" ->
              /\ elements' = [elements EXCEPT ![c] = [id \in Ids |->
                    IF id \notin a.ids THEN @[id]
                    ELSE IF a.seq < lastClear[c] \/ @[id] = 0 THEN 0 ELSE a.seq]]
              /\ UNCHANGED <<lastClear, undoStack, redoStack>>
         [] a.kind = "remove" -> Unchanged(c)
         [] a.kind = "clear"  -> Apply(c, a)
    /\ UNCHANGED <<buffer, queue>>
\* (Mutant: a refused element stays on its author's board.)
NackedKept(c, a) == a.type \in {"nack", "late"} /\ Unchanged(c) /\ UNCHANGED <<buffer, queue>>

\* Refused or given up: an add goes, what an erase took comes back.
Nacked(c, a) ==
    /\ a.type \in {"nack", "late"}
    /\ CASE a.kind = "add" ->
              /\ elements' = [elements EXCEPT ![c] = Erased(@, a.ids)]
              /\ undoStack' = [undoStack EXCEPT ![c] =
                    Among(@, {x \in Range(@) : ~(x.kind = "add" /\ x.ids = a.ids)})]
              /\ UNCHANGED <<lastClear, redoStack>>
         [] a.kind = "remove" ->
              /\ elements' = [elements EXCEPT ![c] =
                    [id \in Ids |-> IF a.back[id] # 0 THEN a.back[id] ELSE @[id]]]
              /\ UNCHANGED <<lastClear, undoStack, redoStack>>
         [] a.kind = "clear" -> Unchanged(c)
    /\ UNCHANGED <<buffer, queue>>

Receive(c) ==
    /\ inbox[c] # <<>>
    /\ May("decrypt") \/ queue[c] = <<>>
    /\ LET msg == Head(inbox[c]) IN OnOp(c, msg) \/ Acked(c, msg) \/ Nacked(c, msg)
    /\ inbox' = [inbox EXCEPT ![c] = Tail(@)]
    /\ UNCHANGED <<boardVars, phase, snap, requests, drawn, asked>>

\* The next of the queued changes is decrypted.
ApplyNext(c) ==
    /\ queue[c] # <<>>
    /\ Apply(c, Head(queue[c]))
    /\ queue' = [queue EXCEPT ![c] = Tail(@)]
    /\ UNCHANGED <<boardVars, phase, buffer, snap, wireVars>>

\* emitWithAck gives up; the server does not know.
Timeout(c, k) ==
    /\ May("timeout")
    /\ requests[c][k].asker = "waiting" /\ requests[c][k].stage # "sealing"
    /\ Nacked(c, Answer(requests[c][k], "late"))
    /\ requests' = [requests EXCEPT ![c][k].asker = "gaveUp"]
    /\ UNCHANGED <<boardVars, phase, snap, inbox, drawn, asked>>

-----------------------------------------------------------------------------
Init ==
    /\ BoardInit
    /\ scope \in Scopes
    /\ phase = [c \in Members |-> IF c \in scope.open THEN "ready" ELSE "closed"]
    /\ elements = [c \in Members |-> Nothing]
    /\ buffer = [c \in Members |-> <<>>]
    /\ snap = [c \in Members |-> NoSnap]
    /\ queue = [c \in Members |-> <<>>]
    /\ lastClear = [c \in Members |-> 0]
    /\ undoStack = [c \in Members |-> <<>>]
    /\ redoStack = [c \in Members |-> <<>>]
    /\ requests = [c \in Members |-> <<>>]
    /\ inbox = [c \in Members |-> <<>>]
    /\ drawn = {}
    /\ asked = 0

GestureStep(c) ==
    \/ \E id \in Ids : Draw(c, id)
    \/ \E ids \in SUBSET Ids : Erase(c, ids)
    \/ Clear(c) \/ Undo(c) \/ Redo(c)

WireStep(c) ==
    \/ Receive(c) \/ ApplyNext(c)
    \/ \E k \in DOMAIN requests[c] : Sealed(c, k) \/ Store(c, k) \/ Refuse(c, k) \/ Announce(c, k)

Next ==
    /\ UNCHANGED scope
    /\ \E c \in Members :
        \/ GestureStep(c) \/ WireStep(c)
        \/ Open(c) \/ Rejoin(c) \/ ReadSnapshot(c) \/ Loaded(c) \/ LoadFailed(c) \/ Retry(c)
        \/ \E k \in DOMAIN requests[c] : Timeout(c, k)

Spec == Init /\ [][Next]_whiteVars

-----------------------------------------------------------------------------
(* Properties.                                                             *)

\* What members have drawn does not stay unconfirmed for ever.  (They draw no
\* more than MaxSeq changes, so there is a moment when nothing is pending.)
PendingResolves == []<>(\A c \in Members, id \in Ids : elements[c][id] # Pending)
=============================================================================
