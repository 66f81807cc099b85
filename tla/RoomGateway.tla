---------------------------- MODULE RoomGateway -----------------------------
(***************************************************************************)
(* The room gateway (apps/api/src/modules/rooms/room.gateway.ts) with the  *)
(* screen gateway (modules/rtc/screen.gateway.ts), the tabs that drive     *)
(* them (apps/web/src/hooks/useRoom.ts) and the Redis scripts they call    *)
(* (ScreenLock).                                                           *)
(*                                                                         *)
(* Handlers are asynchronous: one invocation is a task that runs from one  *)
(* `await' to the next, and the tasks of all sockets, the sweepers and the *)
(* handler of `room-ended' interleave freely.  A task's `pc' names what it *)
(* is about to do.  What is broadcast to a room is the Roster module's     *)
(* matter; here a broadcast is only the tab state it changes.              *)
(***************************************************************************)
EXTENDS ScreenLock, SequencesExt

CONSTANTS Instances,    \* API processes
          InstanceOf,   \* the process each socket is connected to
          NoRoom,       \* socket.data.roomSlug = undefined; no page open
          MaxInflight,  \* bound: tasks of one socket in flight at once
          Faults        \* what may go wrong, or be done, in this instance of the model

FaultKinds == {"crash", "disconnect", "unmount", "timeout", "refuse", "end", "time",
               "overtake", "stall", "share"}

ASSUME InstanceOfAssumption == InstanceOf \in [Sockets -> Instances]
ASSUME NoRoomAssumption     == NoRoom \notin Rooms
ASSUME FaultsAssumption     == MaxInflight \in Nat /\ Faults \subseteq FaultKinds

VARIABLES
    roomSlug,   \* [socket -> socket.data.roomSlug]
    channel,    \* [room -> sockets subscribed to its broadcasts]
    up,         \* the connected sockets
    alive,      \* the running processes
    beaten,     \* processes whose heartbeat timer fired since the last tick
    tasks,      \* [socket -> its handlers in flight, in order of arrival]
    freeing,    \* [process -> slots its sweeper has still to free]
    ending,     \* [room -> how far endRoom has come]
    page,       \* [socket -> the room its tab shows, or NoRoom]
    status,     \* [socket -> useRoom's RoomState.status]
    presenting  \* the sockets whose tab was told it presents

serverVars  == <<roomSlug, channel, beaten, freeing, ending>>
tabVars     == <<page, status, presenting>>
gatewayVars == <<beats, peers, rooms, ttl, screen, roomSlug, channel, up, alive, beaten,
                 tasks, freeing, ending, page, status, presenting>>

Statuses == {"connecting", "joining", "joined", "refused", "ended", "displaced"}
Endings  == {"open", "ended", "announced", "unscreened", "cleared"}

Task == [kind    : {"join", "leave", "claim", "release"},
         room    : Rooms,
         pc      : {"start", "limit", "admit", "free", "unseat", "subscribe", "seat", "full",
                    "settle", "freePrevious", "register", "answer", "claim", "release"},
         leaving : Rooms \cup {NoRoom},         \* the room leaveCurrentRoom is leaving
         prev    : Sockets \cup {Nobody},       \* outcome.previous, another socket
         dead    : SUBSET Sockets,              \* outcome.timedOut, slots still to free
         mine    : BOOLEAN]                     \* the tab still waits for the answer

NewTask(kind, r) ==
    [kind |-> kind, room |-> r, pc |-> "start", leaving |-> NoRoom, prev |-> Nobody,
     dead |-> {}, mine |-> TRUE]

-----------------------------------------------------------------------------
(* Tasks.                                                                  *)

\* A socket's events are delivered in order: a handler whose first, synchronous
\* part has not run yet holds back those that arrived after it.
Runs(s, k, pc) ==
    /\ InstanceOf[s] \in alive
    /\ tasks[s][k].pc = pc
    /\ \A j \in 1 .. k - 1 : tasks[s][j].pc # "start"

\* The task has sent a command to Redis.  A process has one connection, so the
\* commands sent for one socket run in the order they were sent; a task that
\* sends one moves to the end of its socket's queue.  (Nothing is assumed
\* about the order of commands sent for different sockets.)
Waits(t) == \/ t.pc \in {"limit", "seat", "free", "unseat", "freePrevious", "claim", "release"}
            \/ t.pc \in {"settle", "full"} /\ t.dead # {}

Executes(s, k, pc) ==
    /\ Runs(s, k, pc)
    /\ \A j \in 1 .. k - 1 : ~Waits(tasks[s][j])

Goto(s, k, t) ==
    tasks' = [tasks EXCEPT ![s] = IF Waits(t) THEN Append(RemoveAt(@, k), t) ELSE ReplaceAt(@, k, t)]
GotoPc(s, k, pc) == Goto(s, k, [tasks[s][k] EXCEPT !.pc = pc])
Finish(s, k) == tasks' = [tasks EXCEPT ![s] = RemoveAt(@, k)]
Send(s, t)   == tasks' = [tasks EXCEPT ![s] = Append(@, t)]

\* The tab stops waiting for whatever it asked for.
Forget(q) == [j \in DOMAIN q |-> [q[j] EXCEPT !.mine = FALSE]]

\* The tab can send another event.
CanSend(s) == s \in up /\ Len(tasks[s]) < MaxInflight

\* Nothing of what put s out of its last room is still running: no join or
\* leave of its own, and nobody is about to free the slot it may have held.
PutOut(s) ==
    /\ \A j \in DOMAIN tasks[s] : tasks[s][j].kind \notin {"join", "leave"}
    /\ \A x \in Sockets : \A j \in DOMAIN tasks[x] : tasks[x][j].prev # s /\ s \notin tasks[x][j].dead
    /\ \A i \in alive, r \in Rooms : <<r, s>> \notin freeing[i]

\* Unless handlers may be overtaken, a person's next click on `join' comes
\* after them.
CanJoin(s) == CanSend(s) /\ ("overtake" \in Faults \/ PutOut(s))

\* The acknowledgement of a room:join: whatever the tab shows by now, the
\* answer it still waits for sets its state.
AnswerJoin(s, k, outcome) ==
    /\ status' = IF tasks[s][k].mine THEN [status EXCEPT ![s] = outcome] ELSE status
    /\ UNCHANGED <<page, presenting>>

-----------------------------------------------------------------------------
(* room:join.                                                              *)

\* The handler starts by asking the rate limiter, in Redis.
JoinStart(s, k) ==
    /\ tasks[s][k].kind = "join"
    /\ Runs(s, k, "start")
    /\ GotoPc(s, k, "limit")
    /\ UNCHANGED <<storeVars, serverVars, up, alive, tabVars>>

JoinLimited(s, k) ==
    /\ Executes(s, k, "limit")
    /\ \/ GotoPc(s, k, "admit") /\ UNCHANGED tabVars
       \/ "refuse" \in Faults /\ Finish(s, k) /\ AnswerJoin(s, k, "refused")
    /\ UNCHANGED <<storeVars, serverVars, up, alive>>

\* admit says no: the meeting has ended, or the room is locked or unknown.
JoinRefused(s, k) ==
    /\ Runs(s, k, "admit")
    /\ \/ ending[tasks[s][k].room] # "open" /\ AnswerJoin(s, k, "ended")
       \/ "refuse" \in Faults /\ AnswerJoin(s, k, "refused")
    /\ Finish(s, k)
    /\ UNCHANGED <<storeVars, serverVars, up, alive>>
\* (Mutant: an ended meeting admits.)
JoinAdmittedAnyway(s, k) ==
    /\ Runs(s, k, "admit")
    /\ roomSlug[s] \in {NoRoom, tasks[s][k].room}
    /\ GotoPc(s, k, "subscribe")
    /\ UNCHANGED <<storeVars, serverVars, up, alive, tabVars>>

\* Admitted; a socket in another room begins to leave that one.
JoinAdmitted(s, k) ==
    LET t == tasks[s][k]  old == roomSlug[s] IN
    /\ Runs(s, k, "admit")
    /\ ending[t.room] = "open"
    /\ IF old \in {NoRoom, t.room}
       THEN /\ GotoPc(s, k, "subscribe")
            /\ UNCHANGED <<roomSlug, channel>>
       ELSE /\ roomSlug' = [roomSlug EXCEPT ![s] = NoRoom]
            /\ channel'  = [channel EXCEPT ![old] = @ \ {s}]
            /\ Goto(s, k, [t EXCEPT !.pc = "free", !.leaving = old])
    /\ UNCHANGED <<storeVars, up, alive, beaten, freeing, ending, tabVars>>
\* (Mutant: a join that does not subscribe.)
JoinUnsubscribed(s, k) ==
    /\ Runs(s, k, "subscribe")
    /\ GotoPc(s, k, "seat")
    /\ UNCHANGED <<storeVars, serverVars, up, alive, tabVars>>

\* Subscribe before taking the seat.
JoinSubscribe(s, k) ==
    /\ Runs(s, k, "subscribe")
    /\ channel' = [channel EXCEPT ![tasks[s][k].room] = @ \cup {s}]
    /\ GotoPc(s, k, "seat")
    /\ UNCHANGED <<storeVars, roomSlug, up, alive, beaten, freeing, ending, tabVars>>

\* The presence script; what it returns is acted upon later.
JoinSeat(s, k) ==
    LET t == tasks[s][k]  r == t.room  before == KeptPeers(r)[UserOf[s]] IN
    /\ Executes(s, k, "seat")
    /\ \/ /\ \E m \in Media : JoinOk(r, s, m)
          /\ Goto(s, k, [t EXCEPT !.pc = "settle", !.dead = TimedOut(r),
                !.prev = IF before = NoEntry \/ before.peer = s THEN Nobody ELSE before.peer])
       \/ /\ JoinFull(r, s)
          /\ Goto(s, k, [t EXCEPT !.pc = "full", !.dead = TimedOut(r)])
    /\ UNCHANGED <<screen, serverVars, up, alive, tabVars>>

\* freeScreenIfHeld for one of those the script found timed out.
JoinFreeDead(s, k) ==
    /\ Executes(s, k, "settle") \/ Executes(s, k, "full")
    /\ \E d \in tasks[s][k].dead :
          /\ Release(tasks[s][k].room, d)
          /\ Goto(s, k, [tasks[s][k] EXCEPT !.dead = @ \ {d}])
    /\ UNCHANGED <<serverVars, up, alive, tabVars>>

\* ROOM_FULL.
JoinTurnedAway(s, k) ==
    /\ Runs(s, k, "full")
    /\ tasks[s][k].dead = {}
    /\ channel' = [channel EXCEPT ![tasks[s][k].room] = @ \ {s}]
    /\ AnswerJoin(s, k, "refused")
    /\ Finish(s, k)
    /\ UNCHANGED <<storeVars, roomSlug, up, alive, beaten, freeing, ending>>
\* (Mutant: the displaced tab goes on receiving the room.)
JoinDisplaceHearing(s, k) ==
    LET t == tasks[s][k]  p == t.prev IN
    /\ Runs(s, k, "settle")
    /\ t.dead = {} /\ p # Nobody
    /\ IF p \in up /\ page[p] = t.room
       THEN /\ status' = [status EXCEPT ![p] = "displaced"]
            /\ presenting' = presenting \ {p}
       ELSE UNCHANGED <<status, presenting>>
    /\ GotoPc(s, k, "freePrevious")
    /\ UNCHANGED <<storeVars, serverVars, up, alive, page>>

\* room:displaced to the tab whose seat this one took over, which stops
\* receiving the room's broadcasts.
JoinDisplace(s, k) ==
    LET t == tasks[s][k]  p == t.prev IN
    /\ Runs(s, k, "settle")
    /\ t.dead = {} /\ p # Nobody
    /\ channel' = [channel EXCEPT ![t.room] = @ \ {p}]
    /\ IF p \in up /\ page[p] = t.room
       THEN /\ status' = [status EXCEPT ![p] = "displaced"]
            /\ presenting' = presenting \ {p}
       ELSE UNCHANGED <<status, presenting>>
    /\ GotoPc(s, k, "freePrevious")
    /\ UNCHANGED <<storeVars, roomSlug, up, alive, beaten, freeing, ending, page>>

\* (Mutant: clears the slot whoever holds it by now.)
JoinFreeWhoever(s, k) ==
    /\ Executes(s, k, "freePrevious")
    /\ ClearScreen(tasks[s][k].room)
    /\ Goto(s, k, [tasks[s][k] EXCEPT !.pc = "register", !.prev = Nobody])
    /\ UNCHANGED <<serverVars, up, alive, tabVars>>

JoinFreePrevious(s, k) ==
    /\ Executes(s, k, "freePrevious")
    /\ Release(tasks[s][k].room, tasks[s][k].prev)
    /\ Goto(s, k, [tasks[s][k] EXCEPT !.pc = "register", !.prev = Nobody])
    /\ UNCHANGED <<serverVars, up, alive, tabVars>>

\* The socket is in the room from here on, as far as other handlers can tell.
JoinRegister(s, k) ==
    LET t == tasks[s][k] IN
    /\ \/ Runs(s, k, "register")
       \/ Runs(s, k, "settle") /\ t.dead = {} /\ t.prev = Nobody
    /\ roomSlug' = [roomSlug EXCEPT ![s] = t.room]
    /\ GotoPc(s, k, "answer")
    /\ UNCHANGED <<storeVars, channel, up, alive, beaten, freeing, ending, tabVars>>

JoinAnswered(s, k) ==
    /\ Runs(s, k, "answer")
    /\ AnswerJoin(s, k, "joined")
    /\ Finish(s, k)
    /\ UNCHANGED <<storeVars, serverVars, up, alive>>

-----------------------------------------------------------------------------
(* leaveCurrentRoom, on room:leave, on disconnect and within room:join.    *)

\* room:leave arrives: only the room this socket is in.
LeaveStart(s, k) ==
    LET t == tasks[s][k] IN
    /\ t.kind = "leave"
    /\ Runs(s, k, "start")
    /\ IF roomSlug[s] = t.room
       THEN /\ roomSlug' = [roomSlug EXCEPT ![s] = NoRoom]
            /\ channel'  = [channel EXCEPT ![t.room] = @ \ {s}]
            /\ Goto(s, k, [t EXCEPT !.pc = "free", !.leaving = t.room])
       ELSE Finish(s, k) /\ UNCHANGED <<roomSlug, channel>>
    /\ UNCHANGED <<storeVars, up, alive, beaten, freeing, ending, tabVars>>
\* (Mutant: forgets the slot.)
LeaveHolding(s, k) ==
    /\ Executes(s, k, "free")
    /\ GotoPc(s, k, "unseat")
    /\ UNCHANGED <<storeVars, serverVars, up, alive, tabVars>>

LeaveFree(s, k) ==
    /\ Executes(s, k, "free")
    /\ Release(tasks[s][k].leaving, s)
    /\ GotoPc(s, k, "unseat")
    /\ UNCHANGED <<serverVars, up, alive, tabVars>>
\* (Mutant: deletes the participant but not the heartbeat.)
LeaveHalf(s, k) ==
    LET t == tasks[s][k] IN
    /\ Executes(s, k, "unseat")
    /\ Seated(t.leaving, s)
    /\ peers' = [peers EXCEPT ![t.leaving] = [@ EXCEPT ![UserOf[s]] = NoEntry]]
    /\ IF t.kind = "join"
       THEN Goto(s, k, [t EXCEPT !.pc = "subscribe", !.leaving = NoRoom])
       ELSE Finish(s, k)
    /\ UNCHANGED <<beats, rooms, ttl, screen, serverVars, up, alive, tabVars>>

\* leavePresence; a join goes on from here.
LeaveUnseat(s, k) ==
    LET t == tasks[s][k] IN
    /\ Executes(s, k, "unseat")
    /\ Leave(t.leaving, s) \/ (~Seated(t.leaving, s) /\ UNCHANGED presenceVars)
    /\ IF t.kind = "join"
       THEN Goto(s, k, [t EXCEPT !.pc = "subscribe", !.leaving = NoRoom])
       ELSE Finish(s, k)
    /\ UNCHANGED <<screen, serverVars, up, alive, tabVars>>

\* The connection is gone; handlers already running go on without it.
Disconnect(s) ==
    LET r == roomSlug[s]
        cleanup == [NewTask("leave", r) EXCEPT !.pc = "free", !.leaving = r] IN
    /\ "disconnect" \in Faults
    /\ s \in up
    /\ up' = up \ {s}
    /\ channel' = [x \in Rooms |-> channel[x] \ {s}]
    /\ roomSlug' = [roomSlug EXCEPT ![s] = NoRoom]
    /\ tasks' = [tasks EXCEPT ![s] = Forget(@) \o (IF r = NoRoom THEN <<>> ELSE <<cleanup>>)]
    /\ page' = [page EXCEPT ![s] = NoRoom]
    /\ status' = [status EXCEPT ![s] = "connecting"]
    /\ presenting' = presenting \ {s}
    /\ UNCHANGED <<storeVars, alive, beaten, freeing, ending>>

-----------------------------------------------------------------------------
(* screen:claim and screen:release.                                        *)

\* requireSeat looks at socket.data only.
ScreenStart(s, k) ==
    LET t == tasks[s][k] IN
    /\ t.kind \in {"claim", "release"}
    /\ Runs(s, k, "start")
    /\ IF roomSlug[s] = t.room THEN GotoPc(s, k, t.kind) ELSE Finish(s, k)
    /\ UNCHANGED <<storeVars, serverVars, up, alive, tabVars>>

ScreenClaim(s, k) ==
    LET t == tasks[s][k] IN
    /\ Executes(s, k, "claim")
    /\ \/ /\ ClaimOk(t.room, s)
          /\ presenting' = IF t.mine /\ status[s] = "joined" THEN presenting \cup {s} ELSE presenting
       \/ /\ ClaimBusy(t.room, s)
          /\ UNCHANGED presenting
    /\ Finish(s, k)
    /\ UNCHANGED <<serverVars, up, alive, page, status>>

ScreenRelease(s, k) ==
    /\ Executes(s, k, "release")
    /\ Release(tasks[s][k].room, s)
    /\ Finish(s, k)
    /\ UNCHANGED <<serverVars, up, alive, tabVars>>

-----------------------------------------------------------------------------
(* Timers, the end of a meeting, and crashes.                              *)

\* (Mutant: heartbeats for every room a socket hears.)
BeatHeard(i) ==
    /\ "time" \in Faults
    /\ i \in alive /\ i \notin beaten
    /\ Heartbeat({k \in Rooms \X up : InstanceOf[k[2]] = i /\ k[2] \in channel[k[1]]})
    /\ beaten' = beaten \cup {i}
    /\ UNCHANGED <<screen, roomSlug, channel, up, alive, tasks, freeing, ending, tabVars>>

\* The heartbeat timer of one process, for its connected sockets.
Beat(i) ==
    /\ "time" \in Faults
    /\ i \in alive /\ i \notin beaten
    /\ Heartbeat({<<roomSlug[s], s>> : s \in {x \in up : InstanceOf[x] = i /\ roomSlug[x] # NoRoom}})
    /\ beaten' = beaten \cup {i}
    /\ UNCHANGED <<screen, roomSlug, channel, up, alive, tasks, freeing, ending, tabVars>>

\* s has taken a seat that its join has not registered yet.
Unregistered(s) ==
    \E j \in DOMAIN tasks[s] : tasks[s][j].pc \in {"settle", "freePrevious", "register"}

\* A tick is as long as heartbeatMs, so every running process beats in each; the
\* sweeper comes by, every sweepMs, well before a room's keys expire; and, unless
\* it stalls, a join registers the seat it took within a tick.
TimePasses ==
    /\ "time" \in Faults
    /\ alive \subseteq beaten
    /\ \A r \in Rooms : ttl[r] = 1 => TimedOut(r) = {}
    /\ "stall" \in Faults \/ \A s \in Sockets : ~Unregistered(s)
    /\ Tick
    /\ beaten' = {}
    /\ UNCHANGED <<screen, roomSlug, channel, up, alive, tasks, freeing, ending, tabVars>>

\* The sweep timer of one process, one room of its walk.
SweepRoom(i, r) ==
    /\ i \in alive
    /\ Sweep(r)
    /\ freeing' = [freeing EXCEPT ![i] = @ \cup {<<r, d>> : d \in TimedOut(r)}]
    /\ UNCHANGED <<screen, roomSlug, channel, up, alive, beaten, tasks, ending, tabVars>>

SweepFree(i, r, s) ==
    /\ i \in alive
    /\ <<r, s>> \in freeing[i]
    /\ Release(r, s)
    /\ freeing' = [freeing EXCEPT ![i] = @ \ {<<r, s>>}]
    /\ UNCHANGED <<roomSlug, channel, up, alive, beaten, tasks, ending, tabVars>>

\* endRoom writes endedAt.
EndRoom(r) ==
    /\ "end" \in Faults
    /\ ending[r] = "open"
    /\ ending' = [ending EXCEPT ![r] = "ended"]
    /\ UNCHANGED <<storeVars, roomSlug, channel, up, alive, beaten, tasks, freeing, tabVars>>

\* onEnded: room:ended to the room, which everyone then stops hearing.
AnnounceEnded(r) ==
    LET told == {s \in channel[r] \cap up : page[s] = r} IN
    /\ ending[r] = "ended"
    /\ ending' = [ending EXCEPT ![r] = "announced"]
    /\ channel' = [channel EXCEPT ![r] = {}]
    /\ status' = [s \in Sockets |-> IF s \in told THEN "ended" ELSE status[s]]
    /\ presenting' = presenting \ told
    /\ UNCHANGED <<storeVars, roomSlug, up, alive, beaten, tasks, freeing, page>>

\* Its two cleanups, sent in this order.
EndedClearScreen(r) ==
    /\ ending[r] = "announced"
    /\ ClearScreen(r)
    /\ ending' = [ending EXCEPT ![r] = "unscreened"]
    /\ UNCHANGED <<roomSlug, channel, up, alive, beaten, tasks, freeing, tabVars>>

EndedClearRoom(r) ==
    /\ ending[r] = "unscreened"
    /\ ClearRoom(r)
    /\ ending' = [ending EXCEPT ![r] = "cleared"]
    /\ UNCHANGED <<screen, roomSlug, channel, up, alive, beaten, tasks, freeing, tabVars>>

\* The slots a task has still to free.
ToFree(s, t) ==
    {slot \in Rooms \X Sockets :
        \/ slot[1] = t.room /\ slot[2] \in t.dead \cup {t.prev}
        \/ slot = <<t.leaving, s>> /\ t.pc = "free"}

\* A process dies without a word, between any two steps; one is left.  What it
\* had still to free, only the model remembers.
Crash(i) ==
    LET gone == {s \in Sockets : InstanceOf[s] = i}
        lost == UNION {UNION {ToFree(s, tasks[s][k]) : k \in DOMAIN tasks[s]} : s \in gone} IN
    /\ "crash" \in Faults
    /\ i \in alive /\ alive # {i}
    /\ alive' = alive \ {i}
    /\ up' = up \ gone
    /\ channel' = [r \in Rooms |-> channel[r] \ gone]
    /\ roomSlug' = [s \in Sockets |-> IF s \in gone THEN NoRoom ELSE roomSlug[s]]
    /\ tasks' = [s \in Sockets |-> IF s \in gone THEN <<>> ELSE tasks[s]]
    /\ freeing' = [freeing EXCEPT ![i] = @ \cup lost]
    /\ page' = [s \in Sockets |-> IF s \in gone THEN NoRoom ELSE page[s]]
    /\ status' = [s \in Sockets |-> IF s \in gone THEN "connecting" ELSE status[s]]
    /\ presenting' = presenting \ gone
    /\ UNCHANGED <<storeVars, beaten, ending>>

-----------------------------------------------------------------------------
(* Tabs: useRoom and the presenter's half of useCall.                      *)

OpenRoom(s, r) ==
    /\ CanJoin(s)
    /\ page[s] = NoRoom
    /\ page' = [page EXCEPT ![s] = r]
    /\ status' = [status EXCEPT ![s] = "joining"]
    /\ Send(s, NewTask("join", r))
    /\ UNCHANGED <<storeVars, serverVars, up, alive, presenting>>

\* `Use this tab instead'.
Rejoin(s) ==
    /\ CanJoin(s)
    /\ page[s] # NoRoom /\ status[s] = "displaced"
    /\ status' = [status EXCEPT ![s] = "joining"]
    /\ Send(s, NewTask("join", page[s]))
    /\ UNCHANGED <<storeVars, serverVars, up, alive, page, presenting>>

\* Unmounting sends room:leave only once the join has been acknowledged.
CloseRoom(s) ==
    /\ s \in up /\ page[s] # NoRoom
    /\ status[s] = "joining" => "unmount" \in Faults
    /\ page' = [page EXCEPT ![s] = NoRoom]
    /\ status' = [status EXCEPT ![s] = "connecting"]
    /\ presenting' = presenting \ {s}
    /\ IF status[s] = "joined"
       THEN /\ CanSend(s)
            /\ tasks' = [tasks EXCEPT ![s] = Append(Forget(@), NewTask("leave", page[s]))]
       ELSE tasks' = [tasks EXCEPT ![s] = Forget(@)]
    /\ UNCHANGED <<storeVars, serverVars, up, alive>>

\* emitWithAck gives up after ten seconds.
AckTimeout(s) ==
    /\ "timeout" \in Faults
    /\ s \in up /\ status[s] = "joining"
    /\ status' = [status EXCEPT ![s] = "refused"]
    /\ tasks' = [tasks EXCEPT ![s] = Forget(@)]
    /\ UNCHANGED <<storeVars, serverVars, up, alive, page, presenting>>

StartShare(s) ==
    /\ "share" \in Faults
    /\ CanSend(s)
    /\ page[s] # NoRoom /\ status[s] = "joined" /\ s \notin presenting
    /\ \A j \in DOMAIN tasks[s] : tasks[s][j].kind # "claim"
    /\ Send(s, NewTask("claim", page[s]))
    /\ UNCHANGED <<storeVars, serverVars, up, alive, tabVars>>

StopShare(s) ==
    /\ CanSend(s)
    /\ page[s] # NoRoom /\ s \in presenting
    /\ presenting' = presenting \ {s}
    /\ Send(s, NewTask("release", page[s]))
    /\ UNCHANGED <<storeVars, serverVars, up, alive, page, status>>

-----------------------------------------------------------------------------
Init ==
    /\ StoreInit
    /\ roomSlug = [s \in Sockets |-> NoRoom]
    /\ channel = [r \in Rooms |-> {}]
    /\ up = Sockets
    /\ alive = Instances
    /\ beaten = {}
    /\ tasks = [s \in Sockets |-> <<>>]
    /\ freeing = [i \in Instances |-> {}]
    /\ ending = [r \in Rooms |-> "open"]
    /\ page = [s \in Sockets |-> NoRoom]
    /\ status = [s \in Sockets |-> "connecting"]
    /\ presenting = {}

TaskStep(s, k) ==
    \/ JoinStart(s, k) \/ JoinLimited(s, k) \/ JoinRefused(s, k) \/ JoinAdmitted(s, k)
    \/ JoinSubscribe(s, k) \/ JoinSeat(s, k)
    \/ JoinFreeDead(s, k) \/ JoinTurnedAway(s, k) \/ JoinDisplace(s, k)
    \/ JoinFreePrevious(s, k) \/ JoinRegister(s, k) \/ JoinAnswered(s, k)
    \/ LeaveStart(s, k) \/ LeaveFree(s, k) \/ LeaveUnseat(s, k)
    \/ ScreenStart(s, k) \/ ScreenClaim(s, k) \/ ScreenRelease(s, k)

TabStep(s) ==
    \/ \E r \in Rooms : OpenRoom(s, r)
    \/ Rejoin(s) \/ CloseRoom(s) \/ AckTimeout(s) \/ StartShare(s) \/ StopShare(s)

TimerStep(i) ==
    \/ Beat(i)
    \/ \E r \in Rooms : SweepRoom(i, r) \/ \E s \in Sockets : SweepFree(i, r, s)

EndStep(r) == AnnounceEnded(r) \/ EndedClearScreen(r) \/ EndedClearRoom(r)

Next ==
    \/ \E s \in Sockets : TabStep(s) \/ Disconnect(s) \/ \E k \in DOMAIN tasks[s] : TaskStep(s, k)
    \/ \E i \in Instances : TimerStep(i) \/ Crash(i)
    \/ \E r \in Rooms : EndRoom(r) \/ EndStep(r)
    \/ TimePasses

Spec == Init /\ [][Next]_gatewayVars

-----------------------------------------------------------------------------
(* Properties.                                                             *)

\* The state keeps its types; in particular every handler in flight is at one
\* of its awaits.
TypeOK ==
    /\ StoreTypeOK
    /\ roomSlug \in [Sockets -> Rooms \cup {NoRoom}]
    /\ channel \in [Rooms -> SUBSET Sockets]
    /\ up \subseteq Sockets /\ alive \subseteq Instances /\ beaten \subseteq Instances
    /\ tasks \in [Sockets -> Seq(Task)]
    /\ freeing \in [Instances -> SUBSET (Rooms \X Sockets)]
    /\ ending \in [Rooms -> Endings]
    /\ page \in [Sockets -> Rooms \cup {NoRoom}]
    /\ status \in [Sockets -> Statuses]
    /\ presenting \subseteq Sockets

\* No handler, sweep or end of a meeting is half done.
Quiescent ==
    /\ \A s \in Sockets : tasks[s] = <<>>
    /\ \A i \in alive : freeing[i] = {}
    /\ \A r \in Rooms : ending[r] \in {"open", "cleared"}

\* A seat is somebody's: once everything has settled, a seat that a connected
\* socket holds in Redis is known to its process (which keeps it alive and will
\* give it back), hears the room, and its tab shows that room, joined.
SeatedIn ==
    Quiescent => \A r \in Rooms, s \in up :
        Seated(r, s) /\ ending[r] = "open" =>
            s \in channel[r] /\ roomSlug[s] = r /\ page[s] = r /\ status[s] = "joined"

\* A room is heard only from its seats: once everything has settled, a socket
\* that receives an open room's broadcasts holds its user's seat there, however
\* its join raced another tab's or another instance's.
HearersSeated ==
    Quiescent => \A r \in Rooms : ending[r] = "open" =>
        \A s \in channel[r] \cap up : Seated(r, s)

\* A tab that was told it presents, and still has its seat, holds the slot: no
\* cleanup for somebody else (displaced, timed out, left) frees it.
PresenterHoldsSlot ==
    \A r \in Rooms : ending[r] = "open" => \A s \in presenting : Seated(r, s) => screen[r] = s

\* A step never costs a person the seat of a connected, registered tab while
\* the meeting goes on, unless that tab leaves: handlers, sweepers and late
\* cleanups of others may at most hand it to another of the person's tabs.
SeatKept ==
    [][\A r \in Rooms, s \in up :
          Seated(r, s) /\ roomSlug[s] = r /\ ending[r] = "open" /\ s \in up' =>
              peers'[r][UserOf[s]] # NoEntry]_gatewayVars

-----------------------------------------------------------------------------
\* What keeps running: an awaited call comes back (that of the first in a
\* socket's queue, so of each handler in turn), the timers of a running
\* process fire and time passes (strongly fair: joins may make it wait, but not
\* for ever).  People need not do anything, and nothing is assumed of crashes
\* and disconnects.
FairSpec ==
    /\ Spec
    /\ \A s \in Sockets : WF_gatewayVars(tasks[s] # <<>> /\ TaskStep(s, 1))
    /\ \A i \in Instances : /\ WF_gatewayVars(Beat(i))
                            /\ \A r \in Rooms :
                                  /\ WF_gatewayVars(SweepRoom(i, r))
                                  /\ \A s \in Sockets : WF_gatewayVars(SweepFree(i, r, s))
    /\ SF_gatewayVars(TimePasses)
    /\ \A r \in Rooms : WF_gatewayVars(EndStep(r))

\* A seat whose socket is gone, with its process or before its join was
\* through, does not stay for ever.  (A socket that is gone never comes back.)
GhostsGo == []<>(\A r \in Rooms, s \in Sockets : Seated(r, s) => s \in up)

\* Nor does one that its own process no longer counts: when joins of one tab
\* overlap, a socket may be seated in two rooms, registered in the later one.
StraySeatsGo ==
    \A r \in Rooms, s \in Sockets : []<>(Seated(r, s) => roomSlug[s] = r)

\* Nor does the room's slot name a presenter that is gone for ever, unless the
\* process that was to free it died as well.
SlotFreed ==
    []<>(\A r \in Rooms : \/ screen[r] \in up \cup {Nobody}
                          \/ \E i \in Instances \ alive : <<r, screen[r]>> \in freeing[i])

\* An ended meeting refuses later joins: the joins in flight when it ended may
\* still take a seat, but from some point on nobody does.
EndedShut ==
    <>[][\A r \in Rooms, s \in Sockets :
            Seated(r, s)' /\ ~Seated(r, s) => ending[r] = "open"]_gatewayVars
=============================================================================
