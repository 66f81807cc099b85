------------------------------- MODULE Roster -------------------------------
(***************************************************************************)
(* What a meeting looks like from each of its tabs: the roster, the        *)
(* presenter and the lock that useRoom shows, against the seats and the    *)
(* slot in Redis and the room in Postgres (room.gateway.ts,                *)
(* signaling.gateway.ts, screen.gateway.ts, rooms.service.ts).             *)
(*                                                                         *)
(* Handlers interleave at their awaits, as in RoomGateway; here what they  *)
(* broadcast matters. A broadcast reaches the tabs of its own process at   *)
(* once and those of the other through Redis. With two processes one FIFO  *)
(* each way is what Redis' publish and subscribe amount to.                *)
(*                                                                         *)
(* Assumption: an answer of Redis or of the server takes one hop and is    *)
(* there before anything that takes three (a command of another process,   *)
(* its answer and what that process then publishes).                       *)
(***************************************************************************)
EXTENDS Naturals, Sequences, SequencesExt, FiniteSets

CONSTANTS
  Tabs,
  PersonOf,     \* the account of each tab
  Host,         \* the account that owns the room
  Procs,        \* two API processes
  ProcOf,       \* ProcOf[t][n]: the process the n-th connection of tab t is made to
  Scripts,      \* who is in the meeting at first, and what may happen once
  None

VARIABLES
  seats,    \* presence:{slug}:peers: [person -> [peer, media] or None]
  slot,     \* screen:{slug}: the peer that presents, or None
  room,     \* the room's row, and its members
  up,       \* peers whose connection their process believes in
  inRoom,   \* those with socket.data.roomSlug
  hears,    \* those subscribed to the room's broadcasts
  tasks,    \* handlers in flight: of a peer, or (timers, HTTP requests) of a process
  bus,      \* bus[p, q]: what p has published and q has not seen
  alive,
  tabs,     \* what each tab shows and knows
  todo,     \* what may still happen
  crossed   \* (history) what was announced in an order nobody can repair

rosterVars == <<seats, slot, room, up, inRoom, hears, tasks, bus, alive, tabs, todo, crossed>>

People == {PersonOf[t] : t \in Tabs}
Peers  == UNION {{<<t, n>> : n \in DOMAIN ProcOf[t]} : t \in Tabs}
Actors == Peers \union Procs
Proc(a)  == IF a \in Procs THEN a ELSE ProcOf[a[1]][a[2]]
Owner(x) == PersonOf[x[1]]
Peer(t)  == <<t, tabs[t].n>>

\* Who is in the meeting at first is there once; None is nobody.
ASSUME RosterAssumption ==
  /\ IsFiniteSet(Tabs) /\ PersonOf \in [Tabs -> STRING] /\ ProcOf \in [Tabs -> Seq(Procs) \ {<<>>}]
  /\ Procs \intersect Peers = {} /\ None \notin Tabs /\ None \notin Procs /\ None \notin Peers
  /\ None \notin [peer : Peers, media : BOOLEAN]
  /\ \A s \in Scripts : /\ s.inCall \subseteq Tabs /\ s.presents \in s.inCall \union {None}
                         /\ \A t, o \in s.inCall : PersonOf[t] = PersonOf[o] => t = o

Holds(x) == seats[Owner(x)] # None /\ seats[Owner(x)].peer = x

Does(what) == what \in todo /\ todo' = todo \ {what}

-----------------------------------------------------------------------------
(* What is sent to tabs, and what a tab makes of it.                       *)

\* A message of `about' to the room but for one of its sockets, or to one.
Msg(ev, about, arg) == [ev |-> ev, about |-> about, arg |-> arg, to |-> None, but |-> None]
Direct(m, x) == [m EXCEPT !.to = x]
Except(m, x) == [m EXCEPT !.but = x]

\* A presenter is trusted who is among the participants.
Presenter(tab) ==
  IF tab.screen # None /\ tab.roster[Owner(tab.screen)] # None /\ tab.roster[Owner(tab.screen)].peer = tab.screen
  THEN tab.screen ELSE None

\* InCall is unmounted, which ends a presentation.
Out(tab, status) == [tab EXCEPT !.status = status, !.joined = FALSE, !.sharing = FALSE]

\* (Mutant: a departure is taken for the person's, whatever the socket.)
LeftAny(tab, x) == [tab EXCEPT !.roster[Owner(x)] = None]

\* room:peer-left, of a socket: the person may be there with another by now.
Left(tab, x) ==
  IF tab.roster[Owner(x)] # None /\ tab.roster[Owner(x)].peer = x
  THEN [tab EXCEPT !.roster[Owner(x)] = None] ELSE tab

\* The events useRoom listens to.
Handle(tab, m) ==
  CASE m.ev = "participants" -> [tab EXCEPT !.roster = m.arg]
    [] m.ev = "joined" -> [tab EXCEPT !.roster[Owner(m.about)] = [peer |-> m.about, media |-> m.arg]]
    [] m.ev = "left"   -> Left(tab, m.about)
    [] m.ev = "media"  -> IF tab.roster[Owner(m.about)] # None /\ tab.roster[Owner(m.about)].peer = m.about
                          THEN [tab EXCEPT !.roster[Owner(m.about)].media = m.arg] ELSE tab
    [] m.ev = "screen"  -> IF tab.status = "joined" THEN [tab EXCEPT !.screen = m.about] ELSE tab
    [] m.ev = "updated" -> IF tab.status = "joined" THEN [tab EXCEPT !.locked = m.arg] ELSE tab
    [] m.ev = "ended"     -> Out(tab, "ended")
    [] m.ev = "displaced" -> Out(tab, "displaced")
    [] OTHER -> tab

\* Process p delivers a message to the tab's present connection.
Reaches(m, t, p) ==
  /\ tabs[t].online /\ tabs[t].open /\ Peer(t) \in up /\ Proc(Peer(t)) = p
  /\ IF m.to = None THEN Peer(t) \in hears /\ Peer(t) # m.but ELSE Peer(t) = m.to

\* What a tab shows after messages that p delivers one after the other.
After(t, p, ms) ==
  LET f[i \in 0 .. Len(ms)] == IF i = 0 THEN tabs[t]
                               ELSE IF Reaches(ms[i], t, p) THEN Handle(f[i - 1], ms[i]) ELSE f[i - 1]
  IN f[Len(ms)]
Told(p, ms) == [t \in Tabs |-> After(t, p, ms)]

\* socketsLeave, of one socket or of all.
Deafened(p, ms) ==
  {x \in hears : Proc(x) = p /\ \E i \in DOMAIN ms : ms[i].ev = "unhear" /\ ms[i].to \in {None, x}}

\* Past its subscription, a join is deaf when a displacement from before arrives.
Joining(x) == \E k \in DOMAIN tasks[x] : LET t == tasks[x][k] IN
                t.op = "join" /\ t.mine /\ t.pc \notin {"admit", "subscribe"}
Deaf(p, ms) == {<<"deaf", x>> : x \in {y \in Deafened(p, ms) : Joining(y)}}

\* What is published together arrives together.
Publish(p, ms) ==
  bus' = [l \in DOMAIN bus |-> IF l[1] = p /\ l[2] \in alive /\ ms # <<>> THEN Append(bus[l], ms) ELSE bus[l]]

\* To the tabs of the same process at once.
Broadcast(p, ms) ==
  /\ tabs' = Told(p, ms)
  /\ hears' = hears \ Deafened(p, ms)
  /\ Publish(p, ms)
Deliver(l) ==
  /\ bus[l] # <<>> /\ l[2] \in alive
  /\ tabs' = Told(l[2], Head(bus[l]))
  /\ hears' = hears \ Deafened(l[2], Head(bus[l]))
  /\ bus' = [bus EXCEPT ![l] = Tail(@)]
  /\ crossed' = crossed \union Deaf(l[2], Head(bus[l]))
  /\ UNCHANGED <<seats, slot, room, up, inRoom, tasks, alive, todo>>

\* What p does not know yet.
Coming(p) == UNION {UNION {Range(bus[l][i]) : i \in DOMAIN bus[l]} : l \in {d \in DOMAIN bus : d[2] = p}}

\* News of somebody at p, or of the presenter, overtakes what the other
\* process announced before.
Overtakes(p, u) == \E m \in Coming(p) : m.ev = "joined" /\ Owner(m.about) = u
Screens(p)      == \E m \in Coming(p) : m.ev = "screen"

-----------------------------------------------------------------------------
(* Tasks, as in RoomGateway.                                               *)

Task(op, pc, on) == [op |-> op, pc |-> pc, on |-> on, peer |-> None, mine |-> TRUE]

Arrivals == {"leave", "media", "share", "stop"}
Commands == {"seat", "freePrevious", "list", "slot", "holder", "free", "unseat", "setMedia", "claim",
             "release", "freeDead", "clearScreen", "clearRoom"}

\* A socket's events are taken in order, and the commands sent for it executed
\* in order.
Runs(a, k, pc) ==
  /\ Proc(a) \in alive
  /\ k \in DOMAIN tasks[a] /\ tasks[a][k].pc = pc
  /\ \A kind \in {Arrivals, Commands} : pc \in kind => \A j \in 1 .. k - 1 : tasks[a][j].pc \notin kind

Goes(a, k, t) ==
  [tasks EXCEPT ![a] = IF t.pc \in Commands THEN Append(RemoveAt(@, k), t) ELSE ReplaceAt(@, k, t)]
Goto(a, k, pc) == tasks' = Goes(a, k, [tasks[a][k] EXCEPT !.pc = pc])
Finished(a, k) == [tasks EXCEPT ![a] = RemoveAt(@, k)]
Finish(a, k)   == tasks' = Finished(a, k)
Sent(t, op, on) == [tasks EXCEPT ![Peer(t)] = Append(@, Task(op, IF op = "join" THEN "admit" ELSE op, on))]
Forgotten(x)    == [tasks EXCEPT ![x] = [k \in DOMAIN @ |-> [@[k] EXCEPT !.mine = FALSE]]]

\* The tab waits for the answer to its join.
Waiting(t) == \E k \in DOMAIN tasks[Peer(t)] : tasks[Peer(t)][k].op = "join" /\ tasks[Peer(t)][k].mine

\* freeScreenIfHeld: the script, and the message if it freed the slot.
Frees(x) == slot' = IF slot = x THEN None ELSE slot
Freed(x) == IF slot = x THEN <<Msg("screen", None, None)>> ELSE <<>>

\* What p announces now can cross what the other process announced before.
Crossed(p, ms) ==
  crossed' = crossed
    \union {<<"person", Owner(ms[i].about)>> :
                i \in {j \in DOMAIN ms : ms[j].ev \in {"joined", "left"} /\ Overtakes(p, Owner(ms[j].about))}}
    \union {<<"screen", p>> : i \in {j \in DOMAIN ms : ms[j].ev = "screen" /\ Screens(p)}}

-----------------------------------------------------------------------------
(* room:join.                                                              *)

\* admit: the room and the membership as they are now.
Admit(x, k) ==
  LET t == tasks[x][k] IN
  /\ Runs(x, k, "admit")
  /\ IF room.ended \/ (room.locked /\ Owner(x) \notin room.members)
     THEN /\ tabs' = IF t.mine THEN [tabs EXCEPT ![x[1]] = Out(@, IF room.ended THEN "ended" ELSE "refused")]
                     ELSE tabs
          /\ Finish(x, k)
     ELSE /\ tasks' = Goes(x, k, [t EXCEPT !.pc = "subscribe", !.on = room.locked])
          /\ UNCHANGED tabs
  /\ UNCHANGED <<seats, slot, room, up, inRoom, hears, bus, alive, todo, crossed>>

Subscribe(x, k) ==
  /\ Runs(x, k, "subscribe")
  /\ hears' = hears \union {x}
  /\ Goto(x, k, "seat")
  /\ UNCHANGED <<seats, slot, room, up, inRoom, bus, alive, tabs, todo, crossed>>
\* (Mutant: tells the other tab nothing.)
TakeSeatSilently(x, k) ==
  /\ Runs(x, k, "seat")
  /\ seats' = [seats EXCEPT ![Owner(x)] = [peer |-> x, media |-> FALSE]]
  /\ tasks' = Goes(x, k, [tasks[x][k] EXCEPT !.pc = "record"])
  /\ inRoom' = inRoom \union {x}
  /\ UNCHANGED <<slot, room, up, hears, bus, alive, tabs, todo, crossed>>

\* The presence script. A seat of another socket of theirs is taken over.
TakeSeat(x, k) ==
  LET before == seats[Owner(x)]
      ms == <<Direct(Msg("displaced", x, None), before.peer), Direct(Msg("unhear", x, None), before.peer)>> IN
  /\ Runs(x, k, "seat")
  /\ seats' = [seats EXCEPT ![Owner(x)] = [peer |-> x, media |-> FALSE]]
  /\ IF before = None \/ before.peer = x
     THEN /\ inRoom' = inRoom \union {x}
          /\ tasks' = Goes(x, k, [tasks[x][k] EXCEPT !.pc = "record",
                                     !.peer = IF before = None THEN None ELSE x])
          /\ UNCHANGED <<tabs, hears, bus, crossed>>
     ELSE /\ Broadcast(Proc(x), ms) /\ crossed' = crossed \union Deaf(Proc(x), ms)
          /\ tasks' = Goes(x, k, [tasks[x][k] EXCEPT !.pc = "freePrevious", !.peer = before.peer])
          /\ UNCHANGED inRoom
  /\ UNCHANGED <<slot, room, up, alive, todo>>

FreePrevious(x, k) ==
  LET prev == tasks[x][k].peer  ms == Freed(prev) \o <<Except(Msg("left", prev, None), x)>> IN
  /\ Runs(x, k, "freePrevious")
  /\ Frees(prev)
  /\ Broadcast(Proc(x), ms)
  /\ Crossed(Proc(x), ms)
  /\ inRoom' = inRoom \union {x}
  /\ tasks' = Goes(x, k, [tasks[x][k] EXCEPT !.pc = "record", !.peer = None])
  /\ UNCHANGED <<seats, room, up, alive, todo>>

\* A join whose seat has been taken over meanwhile announces itself all the same.
Record(x, k) ==
  LET ms == IF tasks[x][k].peer = x THEN <<>> ELSE <<Except(Msg("joined", x, FALSE), x)>> IN
  /\ Runs(x, k, "record")
  /\ room' = [room EXCEPT !.members = @ \union {Owner(x)}]
  /\ Broadcast(Proc(x), ms)
  /\ crossed' = IF ~Holds(x) \/ Overtakes(Proc(x), Owner(x)) THEN crossed \union {<<"person", Owner(x)>>} ELSE crossed
  /\ Goto(x, k, "list")
  /\ UNCHANGED <<seats, slot, up, inRoom, alive, todo>>

\* The snapshot, and the event that carries it to the joiner.
List(x, k) ==
  /\ Runs(x, k, "list")
  /\ tabs' = Told(Proc(x), <<Direct(Msg("participants", x, seats), x)>>)
  /\ Goto(x, k, "slot")
  /\ UNCHANGED <<seats, slot, room, up, inRoom, hears, bus, alive, todo, crossed>>

\* (Mutant: a tab that is in already keeps what it shows.)
EnteredOnce(tab, x, t, sharer) ==
  IF tab.status = "joined" THEN [tab EXCEPT !.self = x, !.sharing = FALSE]
  ELSE [tab EXCEPT !.status = "joined", !.joined = TRUE, !.self = x, !.locked = t.on, !.screen = sharer]

\* The answer. A tab that was out mounts the call, one with a new peer id
\* rebuilds it; both tell the room their media.
Entered(tab, x, t, sharer) ==
  [tab EXCEPT !.status = "joined", !.joined = TRUE, !.self = x, !.locked = t.on, !.screen = sharer,
              !.sharing = @ /\ tab.self = x]

AnswerJoin(x, k, sharer) ==
  LET t == tasks[x][k]  tab == tabs[x[1]] IN
  /\ IF t.mine
     THEN /\ tabs' = [tabs EXCEPT ![x[1]] = Entered(@, x, t, sharer)]
          /\ tasks' = IF tab.status = "joined" /\ tab.self = x THEN Finished(x, k)
                      ELSE [Finished(x, k) EXCEPT ![x] = Append(@, Task("media", "media", tab.media))]
     ELSE Finish(x, k) /\ UNCHANGED tabs
  /\ crossed' = crossed \union (IF Holds(x) THEN {} ELSE {<<"person", Owner(x)>>})
                        \union (IF t.on = room.locked THEN {} ELSE {<<"locked", x[1]>>})
                        \union (IF t.pc = "holder" /\ slot # t.peer THEN {<<"screen", x[1]>>} ELSE {})
  /\ UNCHANGED <<seats, slot, room, up, inRoom, hears, bus, alive, todo>>

\* currentSharer: the slot, and then whether who holds it has their seat.
ReadSlot(x, k) ==
  /\ Runs(x, k, "slot")
  /\ IF slot = None THEN AnswerJoin(x, k, None)
     ELSE /\ tasks' = Goes(x, k, [tasks[x][k] EXCEPT !.pc = "holder", !.peer = slot])
          /\ UNCHANGED <<seats, slot, room, up, inRoom, hears, bus, alive, tabs, todo, crossed>>

ReadHolder(x, k) ==
  /\ Runs(x, k, "holder")
  /\ AnswerJoin(x, k, IF Holds(tasks[x][k].peer) THEN tasks[x][k].peer ELSE None)

-----------------------------------------------------------------------------
(* leaveCurrentRoom.                                                       *)

\* What socket.data says, of a socket whose events are still taken.
Known(x) == x \in inRoom \intersect up

LeaveStart(x, k) ==
  /\ Runs(x, k, "leave")
  /\ IF Known(x)
     THEN inRoom' = inRoom \ {x} /\ hears' = hears \ {x} /\ Goto(x, k, "free")
     ELSE Finish(x, k) /\ UNCHANGED <<inRoom, hears>>
  /\ UNCHANGED <<seats, slot, room, up, bus, alive, tabs, todo, crossed>>

\* The process notices, perhaps late, that the tab is no longer there.
Disconnecting(x) ==
  /\ Proc(x) \in alive
  /\ x \in up /\ ~(tabs[x[1]].online /\ Peer(x[1]) = x)
  /\ up' = up \ {x} /\ hears' = hears \ {x} /\ inRoom' = inRoom \ {x}
  /\ tasks' = IF x \in inRoom THEN [tasks EXCEPT ![x] = Append(@, Task("leave", "free", FALSE))] ELSE tasks
  /\ UNCHANGED <<seats, slot, room, bus, alive, tabs, todo, crossed>>

\* (Mutant: the slot is freed, and nobody told.)
LeaveFreeSilently(x, k) ==
  /\ Runs(x, k, "free")
  /\ Frees(x)
  /\ Goto(x, k, "unseat")
  /\ UNCHANGED <<seats, room, up, inRoom, hears, bus, alive, tabs, todo, crossed>>

LeaveFree(x, k) ==
  /\ Runs(x, k, "free")
  /\ Frees(x) /\ Broadcast(Proc(x), Freed(x)) /\ Crossed(Proc(x), Freed(x))
  /\ Goto(x, k, "unseat")
  /\ UNCHANGED <<seats, room, up, inRoom, alive, todo>>

LeaveUnseat(x, k) ==
  LET ms == IF Holds(x) THEN <<Msg("left", x, None)>> ELSE <<>> IN
  /\ Runs(x, k, "unseat")
  /\ seats' = IF Holds(x) THEN [seats EXCEPT ![Owner(x)] = None] ELSE seats
  /\ Broadcast(Proc(x), ms) /\ Crossed(Proc(x), ms)
  /\ Finish(x, k)
  /\ UNCHANGED <<slot, room, up, inRoom, alive, todo>>

\* A sweep removes the seats nobody keeps alive: of sockets that are gone, by
\* the time they are stale, with every handler of theirs.
Stale == {u \in People : seats[u] # None /\ seats[u].peer \notin up
                          /\ (Proc(seats[u].peer) \notin alive \/ tasks[seats[u].peer] = <<>>)}

Sweep(p) ==
  /\ p \in alive /\ Stale # {}
  /\ seats' = [u \in People |-> IF u \in Stale THEN None ELSE seats[u]]
  /\ \E dead \in SetToSeqs({seats[u].peer : u \in Stale}) :
       /\ Broadcast(p, [i \in DOMAIN dead |-> Msg("left", dead[i], None)])
       /\ tasks' = [tasks EXCEPT ![p] = @ \o [i \in DOMAIN dead |->
                                                [Task("sweep", "freeDead", FALSE) EXCEPT !.peer = dead[i]]]]
  /\ crossed' = crossed \union {<<"person", u>> : u \in {v \in Stale : Overtakes(p, v)}}
  /\ UNCHANGED <<slot, room, up, inRoom, alive, todo>>

SweepFree(p, k) ==
  LET x == tasks[p][k].peer IN
  /\ Runs(p, k, "freeDead")
  /\ Frees(x) /\ Broadcast(p, Freed(x)) /\ Crossed(p, Freed(x))
  /\ Finish(p, k)
  /\ UNCHANGED <<seats, room, up, inRoom, alive, todo>>

-----------------------------------------------------------------------------
(* media:state, screen:claim and screen:release.                           *)

\* Each asks socket.data first.
Ask(x, k) ==
  \E ask \in {<<"media", "setMedia">>, <<"share", "claim">>, <<"stop", "release">>} :
    /\ Runs(x, k, ask[1])
    /\ IF Known(x) THEN Goto(x, k, ask[2]) ELSE Finish(x, k)
    /\ UNCHANGED <<seats, slot, room, up, inRoom, hears, bus, alive, tabs, todo, crossed>>

SetMedia(x, k) ==
  LET on == tasks[x][k].on IN
  /\ Runs(x, k, "setMedia")
  /\ seats' = IF Holds(x) THEN [seats EXCEPT ![Owner(x)].media = on] ELSE seats
  /\ Broadcast(Proc(x), IF Holds(x) THEN <<Except(Msg("media", x, on), x)>> ELSE <<>>)
  /\ Finish(x, k)
  /\ UNCHANGED <<slot, room, up, inRoom, alive, todo, crossed>>

\* The claim succeeds unless who holds the slot has their seat.
Claim(x, k) ==
  LET busy == slot # None /\ slot # x /\ Holds(slot)
      ms == <<Msg("screen", x, None)>>
      after == Told(Proc(x), ms) IN
  /\ Runs(x, k, "claim")
  /\ IF busy THEN UNCHANGED <<slot, tabs, hears, bus, crossed>>
     ELSE /\ slot' = x
          /\ tabs' = IF tasks[x][k].mine /\ tabs[x[1]].status = "joined"
                     THEN [after EXCEPT ![x[1]].sharing = TRUE] ELSE after
          /\ Publish(Proc(x), ms) /\ Crossed(Proc(x), ms)
          /\ UNCHANGED hears
  /\ Finish(x, k)
  /\ UNCHANGED <<seats, room, up, inRoom, alive, todo>>

Release(x, k) ==
  /\ Runs(x, k, "release")
  /\ Frees(x) /\ Broadcast(Proc(x), Freed(x)) /\ Crossed(Proc(x), Freed(x))
  /\ Finish(x, k)
  /\ UNCHANGED <<seats, room, up, inRoom, alive, todo>>

-----------------------------------------------------------------------------
(* updateRoom and endRoom, on the process the host's request reaches.      *)

FindRoom(p, k) ==
  \E find \in {<<"find", "update">>, <<"findOpen", "end">>} :
    /\ Runs(p, k, find[1])
    /\ IF room.ended THEN Finish(p, k) ELSE Goto(p, k, find[2])
    /\ UNCHANGED <<seats, slot, room, up, inRoom, hears, bus, alive, tabs, todo, crossed>>

UpdateRoom(p, k) ==
  /\ Runs(p, k, "update")
  /\ room' = [room EXCEPT !.locked = tasks[p][k].on]
  /\ Goto(p, k, "tell")
  /\ UNCHANGED <<seats, slot, up, inRoom, hears, bus, alive, tabs, todo, crossed>>

OnUpdated(p, k) ==
  /\ Runs(p, k, "tell")
  /\ Broadcast(p, <<Msg("updated", None, tasks[p][k].on)>>)
  /\ Finish(p, k)
  /\ UNCHANGED <<seats, slot, room, up, inRoom, alive, todo, crossed>>

EndRoom(p, k) ==
  /\ Runs(p, k, "end")
  /\ room' = [room EXCEPT !.ended = TRUE]
  /\ Goto(p, k, "announce")
  /\ UNCHANGED <<seats, slot, up, inRoom, hears, bus, alive, tabs, todo, crossed>>

OnEnded(p, k) ==
  /\ Runs(p, k, "announce")
  /\ Broadcast(p, <<Msg("ended", None, None), Msg("unhear", None, None)>>)
  /\ Goto(p, k, "clearScreen")
  /\ UNCHANGED <<seats, slot, room, up, inRoom, alive, todo, crossed>>

ClearScreen(p, k) ==
  /\ Runs(p, k, "clearScreen")
  /\ slot' = None
  /\ Goto(p, k, "clearRoom")
  /\ UNCHANGED <<seats, room, up, inRoom, hears, bus, alive, tabs, todo, crossed>>

ClearRoom(p, k) ==
  /\ Runs(p, k, "clearRoom")
  /\ seats' = [u \in People |-> None]
  /\ Finish(p, k)
  /\ UNCHANGED <<slot, room, up, inRoom, hears, bus, alive, tabs, todo, crossed>>

-----------------------------------------------------------------------------
(* Tabs.                                                                   *)

EmptyRoster == [u \in People |-> None]

Out0 == [n |-> 1, online |-> TRUE, open |-> FALSE, status |-> "connecting", joined |-> FALSE, self |-> None,
         roster |-> EmptyRoster, locked |-> FALSE, screen |-> None, media |-> FALSE, sharing |-> FALSE]

tabOnly == <<seats, slot, room, up, inRoom, hears, bus, alive, crossed>>

\* (Bound: not while a leave of the same socket is under way, whose scripts the
\* join could overtake; RoomGateway has that.)
Open(t) ==
  /\ Does(<<"open", t>>)
  /\ tabs[t].online /\ ~tabs[t].open
  /\ \A k \in DOMAIN tasks[Peer(t)] : tasks[Peer(t)][k].op # "leave"
  /\ tabs' = [tabs EXCEPT ![t] = [Out0 EXCEPT !.n = tabs[t].n, !.open = TRUE, !.status = "joining"]]
  /\ tasks' = Sent(t, "join", FALSE)
  /\ UNCHANGED tabOnly

\* `Use this tab instead'. (Bound: not while an answer is still awaited.)
Rejoin(t) ==
  /\ Does(<<"rejoin", t>>)
  /\ tabs[t].online /\ tabs[t].open /\ tabs[t].status = "displaced" /\ ~Waiting(t)
  /\ tabs' = [tabs EXCEPT ![t].status = "joining"]
  /\ tasks' = Sent(t, "join", FALSE)
  /\ UNCHANGED tabOnly

\* Unmounting sends room:leave once the join was acknowledged.
Close(t) ==
  /\ Does(<<"close", t>>)
  /\ tabs[t].open
  /\ tabs' = [tabs EXCEPT ![t] = [Out0 EXCEPT !.n = tabs[t].n, !.online = tabs[t].online]]
  /\ tasks' = LET rest == Forgotten(Peer(t)) IN
              IF tabs[t].joined /\ tabs[t].online
              THEN [rest EXCEPT ![Peer(t)] = Append(@, Task("leave", "leave", FALSE))] ELSE rest
  /\ UNCHANGED tabOnly

\* The microphone is muted or unmuted; what is sent offline is refused later.
Toggle(t) ==
  /\ Does(<<"mute", t>>)
  /\ tabs[t].status = "joined"
  /\ tabs' = [tabs EXCEPT ![t].media = ~@]
  /\ tasks' = IF tabs[t].online THEN Sent(t, "media", ~tabs[t].media) ELSE tasks
  /\ UNCHANGED tabOnly

StartShare(t) ==
  /\ Does(<<"share", t>>)
  /\ tabs[t].status = "joined" /\ tabs[t].online /\ ~tabs[t].sharing
  /\ tasks' = Sent(t, "share", FALSE)
  /\ UNCHANGED <<tabs, tabOnly>>

StopShare(t) ==
  /\ Does(<<"stop", t>>)
  /\ tabs[t].sharing /\ tabs[t].online
  /\ tabs' = [tabs EXCEPT ![t].sharing = FALSE]
  /\ tasks' = Sent(t, "stop", FALSE)
  /\ UNCHANGED tabOnly

\* The host asks for the opposite of what they see, one request at a time.
Asks(t, pc, on) ==
  \E p \in alive :
    /\ tabs[t].status = "joined" /\ tabs[t].online /\ PersonOf[t] = Host
    /\ tasks' = [tasks EXCEPT ![p] = Append(@, Task("host", pc, on))]
    /\ UNCHANGED <<tabs, tabOnly>>

Lock(t) ==
  /\ Does(<<"lock", t>>)
  /\ \A p \in Procs : \A k \in DOMAIN tasks[p] : tasks[p][k].op # "host"
  /\ \A p \in Procs : \A m \in Coming(p) : m.ev # "updated"
  /\ Asks(t, "find", ~tabs[t].locked)

End(t) ==
  /\ Does(<<"end", t>>)
  /\ Asks(t, "findOpen", FALSE)

\* The connection is lost: an answer that was awaited will not come.
Cut(tab, waiting) == [IF waiting THEN [tab EXCEPT !.status = "refused", !.sharing = FALSE] ELSE tab
                        EXCEPT !.online = FALSE]

Drop(t) ==
  /\ Does(<<"drop", t>>)
  /\ tabs[t].online
  /\ tabs' = [tabs EXCEPT ![t] = Cut(@, Waiting(t))]
  /\ tasks' = Forgotten(Peer(t))
  /\ UNCHANGED tabOnly

\* onConnect: every open page joins again, whatever it shows.
Reconnect(t) ==
  LET x == <<t, tabs[t].n + 1>> IN
  /\ ~tabs[t].online
  /\ x \in Peers /\ Proc(x) \in alive
  /\ up' = up \union {x}
  /\ tabs' = [tabs EXCEPT ![t].n = @ + 1, ![t].online = TRUE,
                          ![t].status = IF ~tabs[t].open \/ @ = "joined" THEN @ ELSE "joining"]
  /\ tasks' = IF tabs[t].open THEN [tasks EXCEPT ![x] = Append(@, Task("join", "admit", FALSE))] ELSE tasks
  /\ UNCHANGED <<seats, slot, room, inRoom, hears, bus, alive, todo, crossed>>

\* A process dies; what it has published arrives. A lock it has stored and not
\* announced nobody is told of.
Crash(p) ==
  LET gone(x) == x # None /\ Proc(x) = p IN
  /\ Does(<<"crash", p>>)
  /\ p \in alive /\ alive # {p}
  /\ alive' = alive \ {p}
  /\ up' = {x \in up : ~gone(x)} /\ hears' = {x \in hears : ~gone(x)} /\ inRoom' = {x \in inRoom : ~gone(x)}
  /\ tabs' = [t \in Tabs |-> IF tabs[t].online /\ gone(Peer(t)) THEN Cut(tabs[t], Waiting(t)) ELSE tabs[t]]
  /\ tasks' = [a \in Actors |-> IF Proc(a) = p THEN <<>> ELSE tasks[a]]
  /\ bus' = [l \in DOMAIN bus |-> IF l[2] = p THEN <<>> ELSE bus[l]]
  /\ crossed' = crossed
       \union (IF \E a \in Actors : Proc(a) = p /\ \E k \in DOMAIN tasks[a] : tasks[a][k].op # "join"
                THEN {<<"screen", p>>} ELSE {})
       \union (IF \E k \in DOMAIN tasks[p] : tasks[p][k].pc = "tell" THEN {"locked"} \X Tabs ELSE {})
  /\ UNCHANGED <<seats, slot, room>>

-----------------------------------------------------------------------------
\* The tabs of the script are in the meeting, and one of them may present.
Start(script) ==
  LET inside == {t \in Tabs : t \in script.inCall}
      sat == [u \in People |-> IF \E t \in inside : PersonOf[t] = u
                               THEN [peer |-> <<CHOOSE t \in inside : PersonOf[t] = u, 1>>, media |-> FALSE]
                               ELSE None] IN
  /\ seats = sat
  /\ slot = IF script.presents = None THEN None ELSE <<script.presents, 1>>
  /\ room = [locked |-> FALSE, ended |-> FALSE, members |-> {Host} \union {PersonOf[t] : t \in inside}]
  /\ up = {<<t, 1>> : t \in Tabs}
  /\ inRoom = {<<t, 1>> : t \in inside} /\ hears = inRoom
  /\ tasks = [a \in Actors |-> <<>>]
  /\ bus = [l \in {d \in Procs \X Procs : d[1] # d[2]} |-> <<>>]
  /\ alive = Procs
  /\ tabs = [t \in Tabs |-> IF t \notin inside THEN Out0
                            ELSE [Out0 EXCEPT !.open = TRUE, !.status = "joined", !.joined = TRUE, !.self = <<t, 1>>,
                                    !.roster = sat, !.screen = slot, !.sharing = script.presents = t]]
  /\ todo = script.ops
  /\ crossed = {}

Init == \E script \in Scripts : Start(script)

PeerStep(x) ==
  \/ Disconnecting(x)
  \/ \E k \in DOMAIN tasks[x] :
       \/ Admit(x, k) \/ Subscribe(x, k) \/ TakeSeat(x, k) \/ FreePrevious(x, k) \/ Record(x, k)
       \/ List(x, k) \/ ReadSlot(x, k) \/ ReadHolder(x, k)
       \/ LeaveStart(x, k) \/ LeaveFree(x, k) \/ LeaveUnseat(x, k)
       \/ Ask(x, k) \/ SetMedia(x, k) \/ Claim(x, k) \/ Release(x, k)

ProcStep(p) ==
  \/ Sweep(p)
  \/ \E k \in DOMAIN tasks[p] :
       \/ SweepFree(p, k) \/ FindRoom(p, k) \/ UpdateRoom(p, k) \/ OnUpdated(p, k)
       \/ EndRoom(p, k) \/ OnEnded(p, k) \/ ClearScreen(p, k) \/ ClearRoom(p, k)

TabStep(t) ==
  \/ Open(t) \/ Rejoin(t) \/ Close(t) \/ Toggle(t) \/ StartShare(t) \/ StopShare(t)
  \/ Lock(t) \/ End(t) \/ Drop(t) \/ Reconnect(t)

Next ==
  \/ \E x \in Peers : PeerStep(x)
  \/ \E p \in Procs : ProcStep(p) \/ Crash(p)
  \/ \E t \in Tabs : TabStep(t)
  \/ \E l \in DOMAIN bus : Deliver(l)

Spec == Init /\ [][Next]_rosterVars

-----------------------------------------------------------------------------
(* Properties.                                                             *)

\* Everything under way has come through, and the meeting is not over.
AtRest ==
  /\ ~room.ended
  /\ \A a \in Actors : tasks[a] = <<>>
  /\ \A l \in DOMAIN bus : bus[l] = <<>>
  /\ \A t \in Tabs : tabs[t].online
  /\ \A x \in up : tabs[x[1]].n = x[2]
  /\ Stale = {}

\* The tab shows the meeting; and it is the one that has its person's seat, and
\* was not put out, by a displacement that came late, while it was entering.
Shows(t) == tabs[t].open /\ tabs[t].status = "joined"
In(t)    == Shows(t) /\ Holds(Peer(t)) /\ <<"deaf", Peer(t)>> \notin crossed

\* Who is here: once everything has come through, every tab in the meeting
\* shows the seats there are, of the right sockets and with the media their
\* holders last told; whatever the order in which people came, left, lost
\* connections, switched tabs and were timed out on two processes. But for a
\* person whose arrival was overtaken by what came later: the seat lost before
\* the join was through, or news of them crossing between the processes.
RosterTrue ==
  AtRest => \A t \in Tabs : In(t) => \A u \in People : <<"person", u>> \notin crossed =>
    IF u = PersonOf[t] THEN tabs[t].roster[u] # None /\ seats[u] # None /\ tabs[t].roster[u].peer = seats[u].peer
                       ELSE tabs[t].roster[u] = seats[u]

\* Who presents: once everything has come through, every tab in the meeting
\* shows who holds the room's slot and a seat, and nobody else; but for tabs
\* that read the slot while it changed, and changes announced by two processes
\* at the same time.
SharerTrue ==
  AtRest => \A t \in Tabs :
    /\ In(t)
    /\ {<<"screen", w>> : w \in Procs \union {t}} \intersect crossed = {}
    /\ \A x \in {tabs[t].screen, slot} \ {None} : <<"person", Owner(x)>> \notin crossed
    => Presenter(tabs[t]) = IF slot # None /\ Holds(slot) THEN slot ELSE None

\* Whether new people can come in: every tab in the meeting shows it, but one
\* that was told in the answer of its join what had changed since it was admitted,
\* and but for a change whose process died before it was announced.
LockShown ==
  AtRest => \A t \in Tabs : In(t) /\ <<"locked", t>> \notin crossed => tabs[t].locked = room.locked

\* A person is in a meeting once (RoomPage.tsx: `You can only be in it once'):
\* of their tabs one shows it, and that is the one with the seat; but for a
\* person whose join went on after its seat was taken over.
InOnce ==
  AtRest => \A t \in Tabs :
    Shows(t) /\ <<"person", PersonOf[t]>> \notin crossed /\ <<"deaf", Peer(t)>> \notin crossed =>
      Holds(Peer(t)) /\ Peer(t) \in hears \intersect inRoom
=============================================================================
