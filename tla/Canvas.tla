------------------------------- MODULE Canvas --------------------------------
(***************************************************************************)
(* What members see of each other's gestures before they end: the pointer  *)
(* handlers of apps/web/src/components/board/Whiteboard.tsx, the drafts    *)
(* and cursors of BoardSession (apps/web/src/lib/board/session.ts), their  *)
(* relay (board.gateway.ts) and their pruning (useBoard.ts), on top of the *)
(* changes of module Whiteboard.                                           *)
(*                                                                         *)
(* A live frame is about an element id or, as a cursor, about the member.  *)
(* Its sender is a peer: a member's first connection, second, and so on.   *)
(* Colours, widths and coordinates are left out.                           *)
(***************************************************************************)
EXTENDS Whiteboard

CONSTANT None

VARIABLES
    gesture,    \* [member -> the id under the pointer, or None]
    erasing,    \* [member -> what the eraser has touched, or None]
    typing,     \* [member -> a text box is open]
    conn,       \* [member -> which of its connections this is]
    sealing,    \* [member -> the frames being encrypted]
    opening,    \* [member -> the frames being decrypted]
    live,       \* [member -> the drafts and cursors its canvas shows]
    frames,     \* how many frames were ever sent
    brought     \* history: [member -> shown ids that no change of another brought]

handVars   == <<gesture, erasing, typing>>
frameVars  == <<conn, sealing, opening, live, frames>>
canvasVars == <<whiteVars, handVars, frameVars, brought>>

FrameType == [type : {"live"}, from : Members \X {0, 1}, thing : Ids \cup Members, ends : BOOLEAN]
DraftType == [from : Members \X {0, 1}, thing : Ids \cup Members, old : BOOLEAN]

Peer(c) == <<c, conn[c]>>
Frame(c, thing, ends) == [type |-> "live", from |-> Peer(c), thing |-> thing, ends |-> ends]
Gone(from) == from # Peer(from[1])

\* What is on the board without another's change: loaded, drawn here, or put back here.
Keeps ==
    brought' = [c \in Members |-> {id \in Ids :
                  elements'[c][id] # 0 /\ (id \in brought[c] \/ elements[c][id] = 0)}]

-----------------------------------------------------------------------------
(* Frames.                                                                 *)

\* The relay is volatile: whoever cannot take a frame, or nobody if the sender has
\* no seat or sends too many, does without.
Relay(c, frame) ==
    \E got \in IF phase[c] = "closed" THEN {{}} ELSE SUBSET (Members \ {c}) :
        inbox' = [d \in Members |-> IF d \in got THEN Append(inbox[d], frame) ELSE inbox[d]]

\* Encrypted, or too long to send.
Emit(c) ==
    /\ sealing[c] # <<>>
    /\ Relay(c, Frame(c, Head(sealing[c]), FALSE))
    /\ sealing' = [sealing EXCEPT ![c] = Tail(@)]
    /\ UNCHANGED <<boardVars, sessionVars, requests, drawn, asked, handVars, conn, opening, live,
                   frames, brought>>

Without(c, things) == {x \in live[c] : x.thing \notin things}

\* An end is shown at once, anything else when it is decrypted.
OnLive(c) ==
    /\ inbox[c] # <<>> /\ Head(inbox[c]).type = "live"
    /\ inbox' = [inbox EXCEPT ![c] = Tail(@)]
    /\ LET f == Head(inbox[c]) IN
       /\ live' = IF f.ends
                  THEN [live EXCEPT ![c] = {x \in @ : ~(x.from = f.from /\ x.thing = f.thing)}] ELSE live
       /\ opening' = IF ~f.ends /\ phase[c] # "closed"
                     THEN [opening EXCEPT ![c] = Append(@, f)] ELSE opening
    /\ UNCHANGED <<boardVars, sessionVars, requests, drawn, asked, handVars, conn, sealing, frames, brought>>

Showing(c, f) ==
    {x \in live[c] : ~(x.from = f.from /\ x.thing = f.thing)}
        \cup {[from |-> f.from, thing |-> f.thing, old |-> FALSE]}

\* (Mutant: a draft is shown over what it became.)
OpenedAnyway(c) ==
    /\ opening[c] # <<>>
    /\ opening' = [opening EXCEPT ![c] = Tail(@)]
    /\ live' = [live EXCEPT ![c] = Showing(c, Head(opening[c]))]
    /\ UNCHANGED <<boardVars, sessionVars, wireVars, handVars, conn, sealing, frames, brought>>

\* Decrypted: a draft of something committed is stale.
Opened(c) ==
    LET f == Head(opening[c]) IN
    /\ opening[c] # <<>>
    /\ opening' = [opening EXCEPT ![c] = Tail(@)]
    /\ live' = IF f.thing \in Shown(c) THEN live ELSE [live EXCEPT ![c] = Showing(c, f)]
    /\ UNCHANGED <<boardVars, sessionVars, wireVars, handVars, conn, sealing, frames, brought>>

\* (Mutant: only those who left are forgotten.)
PruneAbsent(c) ==
    /\ \E x \in live[c] : Gone(x.from)
    /\ live' = [live EXCEPT ![c] = {x \in @ : ~Gone(x.from)}]
    /\ UNCHANGED <<boardVars, sessionVars, wireVars, handVars, conn, sealing, opening, frames, brought>>

\* Every two seconds: a frame more than five seconds old goes, here at the second
\* round, and those of connections that the roster no longer lists.
Prune(c) ==
    /\ live[c] # {}
    /\ \E unlisted \in BOOLEAN :
         live' = [live EXCEPT ![c] = {[x EXCEPT !.old = TRUE] :
                     x \in {y \in @ : ~y.old /\ ~(unlisted /\ Gone(y.from))}}]
    /\ UNCHANGED <<boardVars, sessionVars, wireVars, handVars, conn, sealing, opening, frames, brought>>

-----------------------------------------------------------------------------
(* The pointer.                                                            *)

Sends(c, things) ==
    /\ frames' = frames + Cardinality(things) /\ frames' <= scope.frames
    /\ sealing' = [sealing EXCEPT ![c] = @ \o SetToSeq(things)]

\* A second pointer overwrites what the first one had begun.
PointerDown(c) ==
    /\ phase[c] = "ready" /\ c \in scope.hands
    /\ \/ typing' = [typing EXCEPT ![c] = TRUE] /\ UNCHANGED <<gesture, erasing, drawn>>
       \/ /\ \E touched \in SUBSET Shown(c) : erasing' = [erasing EXCEPT ![c] = touched]
          /\ UNCHANGED <<gesture, typing, drawn>>
       \/ \E id \in scope.ids \ drawn :
            /\ gesture' = [gesture EXCEPT ![c] = id]
            /\ drawn' = drawn \cup {id}
            /\ UNCHANGED <<erasing, typing>>
    /\ UNCHANGED <<boardVars, sessionVars, requests, inbox, asked, frameVars, brought>>

\* The cursor is sent, and a draft, unless one was a moment ago.
PointerMove(c) ==
    /\ c \in scope.hands
    /\ \E things \in SUBSET ({c} \cup (IF erasing[c] = None THEN {gesture[c]} \ {None} ELSE {})) :
         Sends(c, things)
    /\ \E touched \in SUBSET Shown(c) :
         erasing' = [erasing EXCEPT ![c] = IF @ = None THEN None ELSE @ \cup touched]
    /\ UNCHANGED <<boardVars, sessionVars, wireVars, gesture, typing, conn, opening, live, brought>>

PointerLeave(c) ==
    /\ c \in scope.hands
    /\ frames < scope.frames /\ frames' = frames + 1
    /\ Relay(c, Frame(c, c, TRUE))
    /\ UNCHANGED <<boardVars, sessionVars, requests, drawn, asked, handVars, conn, sealing, opening,
                   live, brought>>

\* add: a session that is closed shows it to nobody, and its socket has no seat.
Adds(c, id) ==
    IF phase[c] = "closed"
    THEN UNCHANGED <<elements, requests, undoStack, redoStack, asked>>
    ELSE /\ asked' = asked + 1 /\ asked' <= scope.changes
         /\ Put(c, {id}) /\ Record(c, "add", {id})

\* erase of what was touched and is still there.
Erases(c) ==
    IF erasing[c] \cap Shown(c) = {}
    THEN UNCHANGED <<elements, requests, undoStack, redoStack, asked>>
    ELSE /\ asked' = asked + 1 /\ asked' <= scope.changes
         /\ TakeOff(c, erasing[c]) /\ Record(c, "erase", erasing[c] \cap Shown(c))

\* The pointer is lifted.  Neither of these asks whether the board has loaded: a
\* gesture may outlive the session it began on.  Less than four units is a click.
FinishGesture(c) ==
    /\ \/ /\ erasing[c] # None
          /\ erasing' = [erasing EXCEPT ![c] = None]
          /\ Erases(c)
          /\ UNCHANGED <<inbox, gesture>>
       \/ /\ erasing[c] = None /\ gesture[c] # None
          /\ gesture' = [gesture EXCEPT ![c] = None]
          /\ Relay(c, Frame(c, gesture[c], TRUE))
          /\ \/ Adds(c, gesture[c])
             \/ UNCHANGED <<elements, requests, undoStack, redoStack, asked>>
          /\ UNCHANGED erasing
    /\ Keeps
    /\ UNCHANGED <<boardVars, phase, buffer, snap, queue, lastClear, drawn, typing, frameVars>>

\* Blank text is not added.
CommitText(c) ==
    /\ typing[c]
    /\ typing' = [typing EXCEPT ![c] = FALSE]
    /\ \/ \E id \in scope.ids \ drawn : drawn' = drawn \cup {id} /\ Adds(c, id)
       \/ UNCHANGED <<elements, requests, undoStack, redoStack, asked, drawn>>
    /\ Keeps
    /\ UNCHANGED <<boardVars, phase, buffer, snap, queue, lastClear, inbox, gesture, erasing, frameVars>>

-----------------------------------------------------------------------------
(* Changes of module Whiteboard that the live frames are part of.          *)

\* applyOpened: a draft that was being watched is now the real thing.
AddedBy(ops) == UNION {op.ids : op \in {o \in ops : o.kind = "add"}}
Replaced(c, ops) == live' = [live EXCEPT ![c] = Without(c, AddedBy(ops))]

AppliedNext(c) ==
    /\ ApplyNext(c)
    /\ Replaced(c, {Head(queue[c])})
    /\ brought' = [brought EXCEPT ![c] = {id \in @ : elements'[c][id] # 0} \ AddedBy({Head(queue[c])})]
    /\ UNCHANGED <<handVars, conn, sealing, opening, frames>>

LoadedLive(c) ==
    LET ops == Range(Later(c)) IN
    /\ Loaded(c)
    /\ Replaced(c, ops)
    /\ brought' = [brought EXCEPT ![c] = {id \in Ids : elements'[c][id] # 0} \ AddedBy(ops)]
    /\ UNCHANGED <<handVars, conn, sealing, opening, frames>>

\* The session is rebuilt; the canvas, its gesture and its text box stay.
RejoinLive(c) ==
    /\ Rejoin(c)
    /\ conn[c] = 0 /\ conn' = [conn EXCEPT ![c] = 1]
    /\ opening' = [opening EXCEPT ![c] = <<>>]
    /\ live' = [live EXCEPT ![c] = {}]
    /\ brought' = [brought EXCEPT ![c] = {}]
    /\ UNCHANGED <<handVars, sealing, frames>>

Others(c) ==
    /\ \/ Clear(c) \/ Undo(c) \/ Redo(c) \/ Receive(c)
       \/ Open(c) \/ ReadSnapshot(c) \/ LoadFailed(c) \/ Retry(c)
       \/ \E k \in DOMAIN requests[c] :
            Sealed(c, k) \/ Store(c, k) \/ Refuse(c, k) \/ Announce(c, k) \/ Timeout(c, k)
    /\ Keeps
    /\ UNCHANGED <<handVars, frameVars>>

-----------------------------------------------------------------------------
CanvasInit ==
    /\ Init
    /\ gesture = [c \in Members |-> None]
    /\ erasing = [c \in Members |-> None]
    /\ typing = [c \in Members |-> FALSE]
    /\ conn = [c \in Members |-> 0]
    /\ sealing = [c \in Members |-> <<>>]
    /\ opening = [c \in Members |-> <<>>]
    /\ live = [c \in Members |-> {}]
    /\ frames = 0
    /\ brought = [c \in Members |-> {}]

\* Where gestures are not looked into, a change is asked for in one step.
Gestures(c) ==
    IF May("gesture")
    THEN PointerDown(c) \/ PointerMove(c) \/ PointerLeave(c) \/ FinishGesture(c) \/ CommitText(c)
    ELSE GestureStep(c) /\ Keeps /\ UNCHANGED <<handVars, frameVars>>

LiveStep(c) == Emit(c) \/ OnLive(c) \/ Opened(c) \/ Prune(c) \/ AppliedNext(c)

CanvasNext ==
    /\ UNCHANGED scope
    /\ \E c \in Members :
         Gestures(c) \/ LiveStep(c) \/ LoadedLive(c) \/ RejoinLive(c) \/ Others(c)

CanvasSpec == CanvasInit /\ [][CanvasNext]_canvasVars

\* Sockets, encryption and timers go on; people, and loading, need not.
CanvasFairness ==
    \A c \in Members :
        /\ WF_canvasVars(LiveStep(c) /\ UNCHANGED scope)
        /\ WF_canvasVars(Receive(c) /\ Others(c) /\ UNCHANGED scope)

-----------------------------------------------------------------------------
(* Properties.                                                             *)

SessionTypes ==
    /\ phase \in [Members -> {"closed", "loading", "failed", "ready"}]
    /\ elements \in [Members -> Numbering] /\ lastClear \in [Members -> Nat]
    /\ buffer \in [Members -> Seq(AnswerType)] /\ queue \in [Members -> Seq(AnswerType)]
    /\ snap \in [Members -> [state : {"none", "asked", "got"}, seq : Nat, rows : [Ids -> Row \cup {NoRow}]]]
    /\ undoStack \in [Members -> Seq(UndoType)] /\ redoStack \in [Members -> Seq(UndoType)]

WireTypes ==
    /\ requests \in [Members -> Seq(RequestType)]
    /\ inbox \in [Members -> Seq(AnswerType \cup FrameType)]
    /\ drawn \subseteq Ids /\ asked \in Nat

HandTypes ==
    /\ gesture \in [Members -> Ids \cup {None}]
    /\ erasing \in [Members -> (SUBSET Ids) \cup {None}]
    /\ typing \in [Members -> BOOLEAN]

FrameTypes ==
    /\ conn \in [Members -> {0, 1}] /\ frames \in Nat
    /\ sealing \in [Members -> Seq(Ids \cup Members)]
    /\ opening \in [Members -> Seq(FrameType)]
    /\ live \in [Members -> SUBSET DraftType]

CanvasTypeOK ==
    /\ BoardTypeOK /\ SessionTypes /\ WireTypes /\ HandTypes /\ FrameTypes
    /\ scope \in Scopes /\ brought \in [Members -> SUBSET Ids]

\* Nobody sees an element twice, as drawn and as being drawn, however drafts and
\* changes overtook each other: what another's change brought has no draft over it.
\* (Only a load, and what the viewer puts back, leave the draft of an element there
\* until it is pruned.)
DraftReplaced ==
    \A c \in Members : \A x \in live[c] : x.thing \notin Shown(c) \ brought[c]

\* A draft or a cursor does not stay on a board for good: when people stop moving,
\* what they were seen to draw is committed or gone, also if the frame that said so
\* was lost or came before one it ends.
DraftsGo == <>[](\A c \in Members : live[c] = {})
=============================================================================
