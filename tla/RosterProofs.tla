---------------------------- MODULE RosterProofs -----------------------------
(***************************************************************************)
(* Proofs about Roster, for any tabs, processes and situations: a tab that *)
(* shows the meeting has its person's seat and hears the room, and shows   *)
(* whether the room is locked.                                             *)
(***************************************************************************)
EXTENDS Roster, SequenceTheorems, FiniteSetTheorems, WellFoundedInduction, TLAPS

-----------------------------------------------------------------------------
(* The invariant.                                                          *)

\* The values of the variables. Of a tab the roster, the presenter and the media
\* are left open.
SeatType == [peer : Peers, media : BOOLEAN]
JoinSteps  == {"admit", "subscribe", "seat", "freePrevious", "record", "list", "slot", "holder"}
LeaveSteps == {"leave", "free", "unseat"}
LockSteps  == {"find", "update", "tell"}
EndSteps   == {"announce", "clearScreen", "clearRoom"}
Operation(pc) ==
  IF pc \in JoinSteps THEN "join"
  ELSE IF pc \in LeaveSteps THEN "leave"
  ELSE IF pc \in LockSteps \union EndSteps \union {"findOpen", "end"} THEN "host"
  ELSE IF pc = "freeDead" THEN "sweep"
  ELSE IF pc \in {"media", "setMedia"} THEN "media"
  ELSE IF pc \in {"share", "claim"} THEN "share"
  ELSE "stop"
Pcs == JoinSteps \union LeaveSteps \union LockSteps \union EndSteps
         \union {"findOpen", "end", "freeDead", "media", "setMedia", "share", "claim", "stop", "release"}
Ops == {"join", "leave", "host", "sweep", "media", "share", "stop"}
TaskType == {t \in [op : Ops, pc : Pcs, on : BOOLEAN, peer : Peers \union {None}, mine : BOOLEAN] :
               t.op = Operation(t.pc)}
Events == {"participants", "joined", "left", "media", "screen", "updated", "ended", "displaced", "unhear"}
MsgType == [ev : Events, about : Peers \union {None}, arg : BOOLEAN \union {None},
            to : Peers \union {None}, but : Peers \union {None}]
Statuses == {"connecting", "joining", "joined", "refused", "displaced", "ended"}
IsTab(tab) ==
  /\ tab = [n |-> tab.n, online |-> tab.online, open |-> tab.open, status |-> tab.status, joined |-> tab.joined,
            self |-> tab.self, roster |-> tab.roster, locked |-> tab.locked, screen |-> tab.screen,
            media |-> tab.media, sharing |-> tab.sharing]
  /\ tab.n \in Nat /\ tab.online \in BOOLEAN /\ tab.open \in BOOLEAN /\ tab.status \in Statuses
  /\ tab.joined \in BOOLEAN /\ tab.locked \in BOOLEAN /\ tab.media \in BOOLEAN /\ tab.sharing \in BOOLEAN
Links == {d \in Procs \X Procs : d[1] # d[2]}

\* What an actor has still to do.
Has(a) == {tasks[a][k] : k \in DOMAIN tasks[a]}

RosterTypes ==
  /\ seats \in [People -> SeatType \union {None}]
  /\ slot \in Peers \union {None}
  /\ DOMAIN room = {"locked", "ended", "members"} /\ room.locked \in BOOLEAN /\ room.ended \in BOOLEAN
  /\ up \subseteq Peers /\ inRoom \subseteq Peers /\ hears \subseteq Peers
  /\ tasks \in [Actors -> Seq(TaskType)]
  /\ bus \in [Links -> Seq(Seq(MsgType))]
  /\ alive \subseteq Procs
  /\ DOMAIN tabs = Tabs /\ \A t \in Tabs : IsTab(tabs[t]) /\ Peer(t) \in Peers

\* Who awaits the answer to a join.
Awaited(t) == t.op = "join" /\ t.mine
\* The page is open, with this connection.
Live(x) == tabs[x[1]].online /\ tabs[x[1]].open /\ Peer(x[1]) = x
\* The tab shows the meeting by an answer to its present connection.
Fresh(t) == tabs[t].online /\ Shows(t) /\ tabs[t].self = Peer(t)

\* Connections to come have nothing in flight; a connection that is there is one the
\* process believes in; an open page awaits the answer to its join, and leaves nothing.
SocketOk(x) ==
  /\ x \in up \/ Has(x) # {} => x[2] <= tabs[x[1]].n
  /\ \A t \in Has(x) : Awaited(t) => Live(x)
  /\ Live(x) => \A t \in Has(x) : t.op # "leave"
TabOk(t) ==
  /\ tabs[t].self # None => tabs[t].self \in Peers /\ tabs[t].self[1] = t /\ tabs[t].self[2] <= tabs[t].n
  /\ tabs[t].online => Peer(t) \in up /\ Proc(Peer(t)) \in alive
  /\ tabs[t].online /\ Shows(t) /\ tabs[t].self # Peer(t) => \E k \in Has(Peer(t)) : Awaited(k)

\* Who gets through the subscription hears the room, and is in it once seated.
Heard(x) == x \in hears \/ <<"deaf", x>> \in crossed
JoinOk(x) ==
  \A t \in Has(x) : Awaited(t) /\ t.pc \notin {"admit", "subscribe"} =>
    /\ Heard(x)
    /\ t.pc \notin {"seat", "freePrevious"} => x \in inRoom

\* A tab that shows the meeting hears it and is in it; and has its seat, or is about
\* to be told that it has lost it.
PutOut(x) == \E m \in Coming(Proc(x)) : m.ev = "displaced" /\ m.to = x
ShownOk(t) ==
  LET x == Peer(t) IN
  Fresh(t) => /\ Heard(x) /\ x \in inRoom
              /\ Holds(x) \/ <<"person", PersonOf[t]>> \in crossed \/ PutOut(x)

\* The room is cleared once it has ended; who is made deaf is told why.
EndOk == (\E p \in Procs : \E t \in Has(p) : t.pc \in EndSteps) => room.ended
BatchOk(ms) ==
  \A i \in DOMAIN ms :
    /\ ms[i].ev = "unhear" => \E j \in DOMAIN ms : ms[j].ev \in {"displaced", "ended"} /\ ms[j].to = ms[i].to /\ ms[j].but = None
    /\ ms[i].ev \in {"displaced", "ended", "updated"} => ms[i].but = None
    /\ ms[i].ev = "updated" => ms[i].to = None

\* Requests to lock, and what is announced of them, agree; what is announced is so.
Requests == {t \in UNION {Has(p) : p \in Procs} : t.pc \in LockSteps}
Updates  == {m \in UNION {Coming(p) : p \in Procs} : m.ev = "updated"}
LocksOk ==
  /\ \A s, t \in Requests : s.on = t.on
  /\ \A t \in Requests, m \in Updates : t.on = m.arg
  /\ \A t \in Requests : t.pc = "tell" => t.on = room.locked
  /\ \A m \in Updates : m.arg = room.locked
LockOk(t) ==
  Fresh(t) /\ <<"locked", t>> \notin crossed /\ <<"deaf", Peer(t)>> \notin crossed /\ tabs[t].locked # room.locked =>
    \/ \E s \in Requests : s.pc = "tell"
    \/ \E m \in Coming(Proc(Peer(t))) : m.ev = "updated"

SocketsInv == (\A x \in Peers : SocketOk(x)) /\ (\A t \in Tabs : TabOk(t))
ShownInv == ~room.ended => (\A x \in Peers : JoinOk(x)) /\ (\A t \in Tabs : ShownOk(t))
BusInv == \A l \in Links, i \in Nat : i \in DOMAIN bus[l] => BatchOk(bus[l][i])
LockInv == LocksOk /\ (~room.ended => \A t \in Tabs : LockOk(t))
RosterInv == RosterTypes /\ SocketsInv /\ EndOk /\ BusInv /\ ShownInv /\ LockInv

-----------------------------------------------------------------------------
(* Constants.                                                              *)

\* People, and the processes of actors.
LEMMA Owners == \A x \in Peers : x[1] \in Tabs /\ x[2] \in Nat /\ x = <<x[1], x[2]>> /\ Owner(x) \in People
<1> SUFFICES ASSUME NEW x \in Peers PROVE x[1] \in Tabs /\ x[2] \in Nat /\ x = <<x[1], x[2]>> /\ Owner(x) \in People
  OBVIOUS
<1>1. PICK t \in Tabs : \E n \in DOMAIN ProcOf[t] : x = <<t, n>>
  BY DEF Peers
<1>2. PICK n \in DOMAIN ProcOf[t] : x = <<t, n>>
  BY <1>1
<1>3. ProcOf[t] \in Seq(Procs)
  BY RosterAssumption DEF RosterAssumption
<1>4. n \in Nat
  BY <1>2, <1>3
<1> QED
  BY <1>2, <1>4 DEF Owner, People

\* Every connection has its process.
LEMMA Processes == \A a \in Actors : Proc(a) \in Procs /\ (a \in Procs => Proc(a) = a)
<1> SUFFICES ASSUME NEW a \in Actors PROVE Proc(a) \in Procs /\ (a \in Procs => Proc(a) = a)
  OBVIOUS
<1>1. CASE a \in Procs
  BY <1>1 DEF Proc
<1>2. CASE a \notin Procs
  <2>1. PICK t \in Tabs : \E n \in DOMAIN ProcOf[t] : a = <<t, n>>
    BY <1>2 DEF Peers, Actors
  <2>2. PICK n \in DOMAIN ProcOf[t] : a = <<t, n>>
    BY <2>1
  <2>3. ProcOf[t] \in Seq(Procs)
    BY RosterAssumption DEF RosterAssumption
  <2> QED
    BY <1>2, <2>2, <2>3 DEF Proc
<1> QED
  BY <1>1, <1>2

\* Nobody is no peer, and no process is one.
LEMMA Distinct == None \notin Peers /\ (\A x \in Peers : x # None /\ x \notin Procs)
BY RosterAssumption DEF RosterAssumption

-----------------------------------------------------------------------------
(* Queues.                                                                 *)

\* What is left of a queue is what was in it.
LEMMA Removed ==
    ASSUME NEW V, NEW q \in Seq(V), NEW k \in DOMAIN q
    PROVE  /\ RemoveAt(q, k) \in Seq(V)
           /\ Len(RemoveAt(q, k)) = Len(q) - 1
           /\ \A j \in 1 .. Len(q) - 1 : RemoveAt(q, k)[j] = IF j < k THEN q[j] ELSE q[j + 1]
<1>1. k \in 1 .. Len(q) /\ Len(q) \in Nat
  OBVIOUS
<1> DEFINE a == SubSeq(q, 1, k - 1)
           b == SubSeq(q, k + 1, Len(q))
<1>2. /\ a \in Seq(V) /\ Len(a) = k - 1
      /\ \A j \in 1 .. k - 1 : a[j] = q[j]
  BY <1>1, SubSeqProperties
<1>3. /\ b \in Seq(V) /\ Len(b) = Len(q) - k
      /\ \A j \in 1 .. Len(q) - k : b[j] = q[j + k]
  BY <1>1, SubSeqProperties
<1> HIDE DEF a, b
<1>4. a \o b \in Seq(V) /\ Len(a \o b) = Len(q) - 1
  BY <1>1, <1>2, <1>3, ConcatProperties
<1>5. ASSUME NEW j \in 1 .. Len(q) - 1
      PROVE  (a \o b)[j] = IF j < k THEN q[j] ELSE q[j + 1]
  <2>1. CASE j < k
    BY <1>1, <1>2, <1>3, <2>1, ConcatProperties
  <2>2. CASE ~(j < k)
    <3>0. j \in 1 .. Len(a) + Len(b) /\ ~(j <= Len(a)) /\ j - Len(a) = j - (k - 1)
      BY <1>1, <1>2, <1>3, <2>2
    <3>1. (a \o b)[j] = b[j - (k - 1)]
      <4>1. \A i \in 1 .. Len(a) + Len(b) : (a \o b)[i] = IF i <= Len(a) THEN a[i] ELSE b[i - Len(a)]
        BY <1>2, <1>3, ConcatProperties
      <4> QED
        BY <3>0, <4>1
    <3>2. b[j - (k - 1)] = q[j + 1]
      BY <1>1, <1>3, <2>2
    <3> QED
      BY <2>2, <3>1, <3>2
  <2> QED
    BY <2>1, <2>2
<1>6. RemoveAt(q, k) = a \o b
  BY DEF RemoveAt, a, b
<1> QED
  BY <1>4, <1>5, <1>6

\* What a sequence consists of.
Elems(q) == {q[j] : j \in DOMAIN q}

\* A queue without its k-th member.
LEMMA RemovedHas ==
    ASSUME NEW V, NEW q \in Seq(V), NEW k \in DOMAIN q
    PROVE  /\ RemoveAt(q, k) \in Seq(V)
           /\ Elems(RemoveAt(q, k)) \subseteq Elems(q)
           /\ Elems(q) \ {q[k]} \subseteq Elems(RemoveAt(q, k))
<1> DEFINE r == RemoveAt(q, k)
           n == Len(q)
<1>1. /\ r \in Seq(V) /\ Len(r) = n - 1 /\ n \in Nat /\ k \in 1 .. n /\ DOMAIN q = 1 .. n
      /\ \A j \in 1 .. n - 1 : r[j] = IF j < k THEN q[j] ELSE q[j + 1]
  BY Removed
<1> HIDE DEF r
<1>2. DOMAIN r = 1 .. n - 1
  BY <1>1
<1>3. ASSUME NEW j \in DOMAIN r PROVE r[j] \in Elems(q)
  <2>1. j \in 1 .. n - 1 /\ j \in DOMAIN q /\ j + 1 \in DOMAIN q
    BY <1>1, <1>2
  <2> QED
    BY <1>1, <2>1 DEF Elems
<1>4. ASSUME NEW j \in DOMAIN q, q[j] # q[k] PROVE q[j] \in Elems(r)
  <2>1. CASE j < k
    <3>1. j \in 1 .. n - 1
      BY <1>1, <2>1
    <3>2. r[j] = q[j] /\ j \in DOMAIN r
      BY <1>1, <1>2, <2>1, <3>1
    <3> QED
      BY <3>2 DEF Elems
  <2>2. CASE ~(j < k)
    <3>1. j - 1 \in 1 .. n - 1 /\ ~(j - 1 < k) /\ (j - 1) + 1 = j
      BY <1>1, <1>4, <2>2
    <3>2. r[j - 1] = q[j] /\ j - 1 \in DOMAIN r
      BY <1>1, <1>2, <3>1
    <3> QED
      BY <3>2 DEF Elems
  <2> QED
    BY <2>1, <2>2
<1>5. Elems(r) \subseteq Elems(q)
  BY <1>3 DEF Elems
<1>6. Elems(q) \ {q[k]} \subseteq Elems(r)
  <2>1. ASSUME NEW v \in Elems(q), v # q[k] PROVE v \in Elems(r)
    <3>1. PICK j \in DOMAIN q : v = q[j]
      BY DEF Elems
    <3> QED
      BY <1>4, <2>1, <3>1
  <2> QED
    BY <2>1
<1> QED
  BY <1>1, <1>5, <1>6 DEF r

\* A queue with one more.
LEMMA AppendedHas ==
    ASSUME NEW V, NEW q \in Seq(V), NEW v \in V
    PROVE  Append(q, v) \in Seq(V) /\ Elems(Append(q, v)) = Elems(q) \union {v}
<1>1. /\ Append(q, v) \in Seq(V) /\ DOMAIN q = 1 .. Len(q) /\ Len(q) \in Nat
      /\ DOMAIN Append(q, v) = 1 .. Len(q) + 1
      /\ \A j \in 1 .. Len(q) : Append(q, v)[j] = q[j]
      /\ Append(q, v)[Len(q) + 1] = v
  BY AppendProperties
<1> DEFINE r == Append(q, v)
<1> HIDE DEF r
<1>2. ASSUME NEW w \in Elems(r) PROVE w \in Elems(q) \union {v}
  <2>1. PICK j \in DOMAIN r : w = r[j]
    BY DEF Elems
  <2>2. CASE j \in 1 .. Len(q)
    BY <1>1, <2>1, <2>2 DEF Elems, r
  <2>3. CASE j = Len(q) + 1
    BY <1>1, <2>1, <2>3 DEF Elems, r
  <2>4. j \in 1 .. Len(q) \/ j = Len(q) + 1
    BY <1>1 DEF r
  <2> QED
    BY <2>2, <2>3, <2>4
<1>3. ASSUME NEW w \in Elems(q) PROVE w \in Elems(r)
  <2>1. PICK j \in DOMAIN q : w = q[j]
    BY DEF Elems
  <2>2. j \in DOMAIN r /\ r[j] = w
    BY <1>1, <2>1 DEF r
  <2> QED
    BY <2>2 DEF Elems
<1>4. v \in Elems(r)
  <2>1. Len(q) + 1 \in DOMAIN r /\ r[Len(q) + 1] = v
    BY <1>1 DEF r
  <2> QED
    BY <2>1 DEF Elems
<1> QED
  BY <1>1, <1>2, <1>3, <1>4 DEF r

\* A queue with one replaced.
LEMMA ReplacedHas ==
    ASSUME NEW V, NEW q \in Seq(V), NEW k \in DOMAIN q, NEW v \in V
    PROVE  /\ ReplaceAt(q, k, v) \in Seq(V)
           /\ Elems(ReplaceAt(q, k, v)) \subseteq Elems(q) \union {v}
           /\ (Elems(q) \ {q[k]}) \union {v} \subseteq Elems(ReplaceAt(q, k, v))
<1> DEFINE r == ReplaceAt(q, k, v)
<1>1. /\ r \in Seq(V) /\ DOMAIN r = DOMAIN q /\ r[k] = v
      /\ \A j \in DOMAIN q \ {k} : r[j] = q[j]
  BY DEF ReplaceAt
<1> HIDE DEF r
<1>2. ASSUME NEW w \in Elems(r) PROVE w \in Elems(q) \union {v}
  <2>1. PICK j \in DOMAIN r : w = r[j]
    BY DEF Elems
  <2> QED
    BY <1>1, <2>1 DEF Elems
<1>3. ASSUME NEW w \in Elems(q) \ {q[k]} PROVE w \in Elems(r)
  <2>1. PICK j \in DOMAIN q : w = q[j]
    BY DEF Elems
  <2> QED
    BY <1>1, <1>3, <2>1 DEF Elems
<1>4. v \in Elems(r)
  BY <1>1 DEF Elems
<1> QED
  BY <1>1, <1>2, <1>3, <1>4 DEF r

-----------------------------------------------------------------------------
(* What becomes of the tasks of an actor.                                  *)

\* Those of O among the tasks of actor a are gone, and there are those of N.
Turns(a, O, N) ==
  /\ a \in Actors /\ O \subseteq Has(a)
  /\ Has(a)' \subseteq Has(a) \union N /\ (Has(a) \ O) \union N \subseteq Has(a)'
  /\ \A b \in Actors \ {a} : Has(b)' = Has(b)

\* A task that can go on is one of the actor's, and the actor's process runs.
LEMMA RunsIs ==
    ASSUME NEW a \in Actors, NEW k, NEW pc, Runs(a, k, pc), tasks \in [Actors -> Seq(TaskType)]
    PROVE  /\ k \in DOMAIN tasks[a] /\ tasks[a][k] \in Has(a) /\ tasks[a][k] \in TaskType
           /\ tasks[a][k].pc = pc /\ Proc(a) \in alive
<1>1. k \in DOMAIN tasks[a] /\ tasks[a][k].pc = pc /\ Proc(a) \in alive
  BY DEF Runs
<1>2. tasks[a] \in Seq(TaskType)
  OBVIOUS
<1> QED
  BY <1>1, <1>2 DEF Has

\* Queues of other actors are as they were.
LEMMA OthersHave ==
    ASSUME NEW a \in Actors, NEW q, tasks' = [tasks EXCEPT ![a] = q], tasks \in [Actors -> Seq(TaskType)]
    PROVE  tasks'[a] = q /\ Has(a)' = Elems(q) /\ \A b \in Actors \ {a} : Has(b)' = Has(b)
BY DEF Has, Elems

\* One that goes on.
LEMMA GoesTurns ==
    ASSUME tasks \in [Actors -> Seq(TaskType)], NEW a \in Actors, NEW k \in DOMAIN tasks[a], NEW u \in TaskType,
           tasks' = Goes(a, k, u)
    PROVE  tasks' \in [Actors -> Seq(TaskType)] /\ Turns(a, {tasks[a][k]}, {u})
<1> DEFINE q == tasks[a]
           r == IF u.pc \in Commands THEN Append(RemoveAt(q, k), u) ELSE ReplaceAt(q, k, u)
<1>1. q \in Seq(TaskType) /\ k \in DOMAIN q /\ Has(a) = Elems(q) /\ q[k] \in Has(a)
  BY DEF Has, Elems
<1>2. tasks' = [tasks EXCEPT ![a] = r]
  BY DEF Goes
<1>3. r \in Seq(TaskType) /\ Elems(r) \subseteq Elems(q) \union {u} /\ (Elems(q) \ {q[k]}) \union {u} \subseteq Elems(r)
  <2>1. CASE u.pc \in Commands
    <3>1. /\ RemoveAt(q, k) \in Seq(TaskType) /\ Elems(RemoveAt(q, k)) \subseteq Elems(q)
          /\ Elems(q) \ {q[k]} \subseteq Elems(RemoveAt(q, k))
      BY <1>1, RemovedHas
    <3>2. /\ Append(RemoveAt(q, k), u) \in Seq(TaskType)
          /\ Elems(Append(RemoveAt(q, k), u)) = Elems(RemoveAt(q, k)) \union {u}
      BY <3>1, AppendedHas
    <3>3. r = Append(RemoveAt(q, k), u)
      BY <2>1
    <3> QED
      BY <3>1, <3>2, <3>3
  <2>2. CASE u.pc \notin Commands
    BY <1>1, <2>2, ReplacedHas
  <2> QED
    BY <2>1, <2>2
<1> HIDE DEF r
<1>4. Has(a)' = Elems(r) /\ \A b \in Actors \ {a} : Has(b)' = Has(b)
  BY <1>2, OthersHave
<1> QED
  BY <1>1, <1>2, <1>3, <1>4 DEF Turns

\* One that ends.
LEMMA FinishedTurns ==
    ASSUME tasks \in [Actors -> Seq(TaskType)], NEW a \in Actors, NEW k \in DOMAIN tasks[a], tasks' = Finished(a, k)
    PROVE  tasks' \in [Actors -> Seq(TaskType)] /\ Turns(a, {tasks[a][k]}, {})
<1> DEFINE q == tasks[a]
           r == RemoveAt(q, k)
<1>1. q \in Seq(TaskType) /\ k \in DOMAIN q /\ Has(a) = Elems(q) /\ q[k] \in Has(a)
  BY DEF Has, Elems
<1>2. tasks' = [tasks EXCEPT ![a] = r]
  BY DEF Finished
<1>3. r \in Seq(TaskType) /\ Elems(r) \subseteq Elems(q) /\ Elems(q) \ {q[k]} \subseteq Elems(r)
  BY <1>1, RemovedHas
<1> HIDE DEF r
<1>4. Has(a)' = Elems(r) /\ \A b \in Actors \ {a} : Has(b)' = Has(b)
  BY <1>2, OthersHave
<1> QED
  BY <1>1, <1>2, <1>3, <1>4 DEF Turns

\* One that ends and leaves another.
LEMMA FinishedAppends ==
    ASSUME tasks \in [Actors -> Seq(TaskType)], NEW a \in Actors, NEW k \in DOMAIN tasks[a], NEW u \in TaskType,
           tasks' = [Finished(a, k) EXCEPT ![a] = Append(@, u)]
    PROVE  tasks' \in [Actors -> Seq(TaskType)] /\ Turns(a, {tasks[a][k]}, {u})
<1> DEFINE q == tasks[a]
           r == Append(RemoveAt(q, k), u)
<1>1. q \in Seq(TaskType) /\ k \in DOMAIN q /\ Has(a) = Elems(q) /\ q[k] \in Has(a)
  BY DEF Has, Elems
<1>2. tasks' = [tasks EXCEPT ![a] = r]
  BY DEF Finished
<1>3. RemoveAt(q, k) \in Seq(TaskType) /\ Elems(RemoveAt(q, k)) \subseteq Elems(q) /\ Elems(q) \ {q[k]} \subseteq Elems(RemoveAt(q, k))
  BY <1>1, RemovedHas
<1>4. r \in Seq(TaskType) /\ Elems(r) = Elems(RemoveAt(q, k)) \union {u}
  BY <1>3, AppendedHas
<1> HIDE DEF r
<1>5. Has(a)' = Elems(r) /\ \A b \in Actors \ {a} : Has(b)' = Has(b)
  BY <1>2, OthersHave
<1>6. tasks' \in [Actors -> Seq(TaskType)]
  BY <1>2, <1>4
<1>7. PICK R : R = Elems(RemoveAt(q, k))
  OBVIOUS
<1>8. Has(a)' = R \union {u} /\ R \subseteq Has(a) /\ Has(a) \ {q[k]} \subseteq R
  BY <1>1, <1>3, <1>4, <1>5, <1>7
<1> QED
  BY <1>1, <1>5, <1>6, <1>8 DEF Turns

\* A new one.
LEMMA AppendTurns ==
    ASSUME tasks \in [Actors -> Seq(TaskType)], NEW a \in Actors, NEW u \in TaskType,
           tasks' = [tasks EXCEPT ![a] = Append(@, u)]
    PROVE  tasks' \in [Actors -> Seq(TaskType)] /\ Turns(a, {}, {u})
<1> DEFINE q == tasks[a]
           r == Append(q, u)
<1>1. q \in Seq(TaskType) /\ Has(a) = Elems(q)
  BY DEF Has, Elems
<1>2. tasks' = [tasks EXCEPT ![a] = r]
  OBVIOUS
<1>3. r \in Seq(TaskType) /\ Elems(r) = Elems(q) \union {u}
  BY <1>1, AppendedHas
<1> HIDE DEF r
<1>4. Has(a)' = Elems(r) /\ \A b \in Actors \ {a} : Has(b)' = Has(b)
  BY <1>2, OthersHave
<1> QED
  BY <1>1, <1>2, <1>3, <1>4 DEF Turns

\* A task that nobody awaits any more.
LEMMA ForgottenTask ==
    ASSUME NEW t \in TaskType
    PROVE  [t EXCEPT !.mine = FALSE] \in TaskType
<1> DEFINE u == [t EXCEPT !.mine = FALSE]
<1>1. u \in [op : Ops, pc : Pcs, on : BOOLEAN, peer : Peers \union {None}, mine : BOOLEAN]
  BY DEF TaskType
<1>2. u.op = t.op /\ u.pc = t.pc /\ t.op = Operation(t.pc)
  BY DEF TaskType
<1> QED
  BY <1>1, <1>2 DEF TaskType

\* Tasks that nobody awaits any more.
LEMMA ForgottenHas ==
    ASSUME tasks \in [Actors -> Seq(TaskType)], NEW x \in Actors, NEW q, q = Forgotten(x)
    PROVE  /\ q \in [Actors -> Seq(TaskType)]
           /\ Elems(q[x]) = {[t EXCEPT !.mine = FALSE] : t \in Has(x)}
           /\ \A b \in Actors \ {x} : q[b] = tasks[b]
<1> DEFINE r == [k \in DOMAIN tasks[x] |-> [tasks[x][k] EXCEPT !.mine = FALSE]]
<1>1. tasks[x] \in Seq(TaskType) /\ DOMAIN tasks[x] = 1 .. Len(tasks[x]) /\ Len(tasks[x]) \in Nat
  OBVIOUS
<1>2. ASSUME NEW k \in DOMAIN tasks[x]
      PROVE  tasks[x][k] \in TaskType /\ [tasks[x][k] EXCEPT !.mine = FALSE] \in TaskType
  <2>1. tasks[x][k] \in TaskType
    BY <1>1
  <2> QED
    BY <2>1, ForgottenTask
<1>3. r \in [1 .. Len(tasks[x]) -> TaskType]
  BY <1>1, <1>2
<1>4. r \in Seq(TaskType)
  BY <1>1, <1>3, SeqDef
<1>5. q = [tasks EXCEPT ![x] = r]
  BY DEF Forgotten
<1>6. Elems(r) = {[t EXCEPT !.mine = FALSE] : t \in Has(x)}
  BY DEF Elems, Has
<1> HIDE DEF r
<1> QED
  BY <1>4, <1>5, <1>6

-----------------------------------------------------------------------------
(* What a tab makes of messages.                                           *)

\* A set of numbers has a least one.
LEMMA Least ==
    ASSUME NEW S \in SUBSET Nat, S # {}
    PROVE  \E x \in S : \A y \in S : x <= y
<1> DEFINE R == {ss \in Nat \X Nat : ss[1] < ss[2]}
<1>1. IsWellFoundedOn(R, Nat)
  BY NatLessThanWellFounded DEF OpToRel
<1>2. PICK x \in S : \A y \in S : ~(<<y, x>> \in R)
  BY <1>1, WFMin, Zenon
<1>3. ASSUME NEW y \in S PROVE x <= y
  <2>1. x \in Nat /\ y \in Nat /\ <<y, x>> \in Nat \X Nat
    OBVIOUS
  <2>2. ~(y < x)
    BY <1>2, <2>1
  <2> QED
    BY <2>1, <2>2
<1> QED
  BY <1>3

\* Induction up to n: what holds at 0 and is passed on holds up to n.
LEMMA Steps ==
    ASSUME NEW n \in Nat, NEW S, 0 \in S, \A i \in 0 .. n - 1 : i \in S => i + 1 \in S
    PROVE  0 .. n \subseteq S
<1> DEFINE M == (0 .. n) \ S
<1> SUFFICES ASSUME M # {} PROVE FALSE
  OBVIOUS
<1>1. M \in SUBSET Nat
  OBVIOUS
<1> HIDE DEF M
<1>2. PICK x \in M : \A y \in M : x <= y
  BY <1>1, Least
<1>3. x \in 0 .. n /\ x \notin S
  BY DEF M
<1>4. x # 0 /\ x - 1 \in 0 .. n - 1
  BY <1>3
<1>5. x - 1 \notin M
  BY <1>2, <1>4, <1>3
<1>6. x - 1 \in S
  BY <1>4, <1>5 DEF M
<1> QED
  BY <1>3, <1>4, <1>6


\* A tab takes the messages one after the other.
LEMMA AfterSteps ==
    ASSUME NEW t \in Tabs, NEW p, NEW ms, Len(ms) \in Nat
    PROVE  \E f : /\ After(t, p, ms) = f[Len(ms)] /\ f[0] = tabs[t]
                  /\ \A i \in 1 .. Len(ms) :
                       f[i] = IF Reaches(ms[i], t, p) THEN Handle(f[i - 1], ms[i]) ELSE f[i - 1]
<1> DEFINE n == Len(ms)
           S(i, v) == IF Reaches(ms[i], t, p) THEN Handle(v, ms[i]) ELSE v
           F(m, f) == [i \in 0 .. m |-> IF i = 0 THEN tabs[t] ELSE S(i, f[i - 1])]
           N == {m \in 0 .. n : \E f : f = F(m, f)}
<1> HIDE DEF S
<1>1. 0 \in N
  <2> DEFINE f == [i \in 0 .. 0 |-> tabs[t]]
  <2>1. f = F(0, f) /\ 0 \in 0 .. n
    OBVIOUS
  <2> HIDE DEF f, F
  <2> QED
    BY <2>1
<1>2. ASSUME NEW m \in 0 .. n - 1, m \in N PROVE m + 1 \in N
  <2>1. PICK f : f = F(m, f)
    BY <1>2
  <2> DEFINE h == [i \in 0 .. m + 1 |-> IF i = m + 1 THEN S(m + 1, f[m]) ELSE f[i]]
  <2>2. h[m] = f[m]
    OBVIOUS
  <2>3. ASSUME NEW i \in 0 .. m + 1
        PROVE  h[i] = IF i = 0 THEN tabs[t] ELSE S(i, h[i - 1])
    <3>1. CASE i = m + 1
      <4>1. h[i] = S(m + 1, f[m]) /\ i # 0 /\ i - 1 = m
        BY <3>1
      <4> HIDE DEF h
      <4> QED
        BY <4>1, <2>2, <3>1
    <3>2. CASE i # m + 1
      <4>1. i \in 0 .. m /\ h[i] = f[i]
        BY <3>2
      <4>2. f[i] = IF i = 0 THEN tabs[t] ELSE S(i, f[i - 1])
        BY <2>1, <4>1
      <4>3. i # 0 => h[i - 1] = f[i - 1]
        BY <4>1
      <4> HIDE DEF h
      <4> QED
        BY <4>1, <4>2, <4>3
    <3> QED
      BY <3>1, <3>2
  <2>4. h = F(m + 1, h)
    <3>1. DOMAIN h = 0 .. m + 1 /\ h = [i \in 0 .. m + 1 |-> h[i]]
      OBVIOUS
    <3> HIDE DEF h
    <3> QED
      BY <2>3, <3>1
  <2>5. m + 1 \in 0 .. n
    OBVIOUS
  <2> HIDE DEF h, F
  <2> QED
    BY <2>4, <2>5
<1>3. n \in N
  <2> HIDE DEF N
  <2>1. 0 .. n \subseteq N
    BY <1>1, <1>2, Steps
  <2> QED
    BY <2>1
<1> DEFINE G == CHOOSE f : f = F(n, f)
<1>4. G = F(n, G)
  <2>1. \E f : f = F(n, f)
    BY <1>3
  <2> HIDE DEF F
  <2> QED
    BY <2>1
<1>5. After(t, p, ms) = G[n]
  BY DEF After, S
<1> HIDE DEF G
<1>6. G[0] = tabs[t] /\ \A i \in 1 .. n : G[i] = S(i, G[i - 1])
  BY <1>4
<1> QED
  BY <1>5, <1>6 DEF S

\* What does not change of a tab with the messages, and what it hears of the lock.
Still(tab, new) ==
  /\ new.n = tab.n /\ new.online = tab.online /\ new.open = tab.open /\ new.self = tab.self
  /\ new.status = "joined" => tab.status = "joined"

\* One message.
LEMMA HandleIs ==
    ASSUME NEW tab, IsTab(tab), NEW m, m.ev = "updated" => m.arg \in BOOLEAN
    PROVE  /\ IsTab(Handle(tab, m)) /\ Still(tab, Handle(tab, m))
           /\ Handle(tab, m).status = "joined" => m.ev \notin {"displaced", "ended"}
           /\ Handle(tab, m).locked = IF m.ev = "updated" /\ tab.status = "joined" THEN m.arg ELSE tab.locked
<1> DEFINE R == [n |-> tab.n, online |-> tab.online, open |-> tab.open, status |-> tab.status, joined |-> tab.joined,
            self |-> tab.self, roster |-> tab.roster, locked |-> tab.locked, screen |-> tab.screen,
            media |-> tab.media, sharing |-> tab.sharing]
<1>1. tab = R
  BY DEF IsTab
<1>2. ASSUME NEW r PROVE IsTab([tab EXCEPT !.roster = r]) /\ Still(tab, [tab EXCEPT !.roster = r])
                         /\ [tab EXCEPT !.roster = r].locked = tab.locked
  BY <1>1 DEF IsTab, Still
<1>3. CASE m.ev = "participants"
  <2>1. Handle(tab, m) = [tab EXCEPT !.roster = m.arg]
    BY <1>3 DEF Handle
  <2> QED
    BY <1>2, <1>3, <2>1
<1>4. CASE m.ev = "joined"
  <2>1. \E r : Handle(tab, m) = [tab EXCEPT !.roster = r]
    BY <1>4 DEF Handle
  <2> QED
    BY <1>2, <1>4, <2>1
<1>5. CASE m.ev = "left"
  <2>1. Handle(tab, m) = tab \/ \E r : Handle(tab, m) = [tab EXCEPT !.roster = r]
    BY <1>5 DEF Handle, Left
  <2>2. CASE Handle(tab, m) = tab
    BY <1>5, <2>2 DEF Still
  <2>3. ASSUME NEW r, Handle(tab, m) = [tab EXCEPT !.roster = r] PROVE IsTab(Handle(tab, m)) /\ Still(tab, Handle(tab, m)) /\ Handle(tab, m).locked = tab.locked
    BY <1>2, <2>3
  <2> QED
    BY <1>5, <2>1, <2>2, <2>3
<1>6. CASE m.ev = "media"
  <2>1. Handle(tab, m) = tab \/ \E r : Handle(tab, m) = [tab EXCEPT !.roster = r]
    BY <1>6 DEF Handle
  <2>2. CASE Handle(tab, m) = tab
    BY <1>6, <2>2 DEF Still
  <2>3. ASSUME NEW r, Handle(tab, m) = [tab EXCEPT !.roster = r] PROVE IsTab(Handle(tab, m)) /\ Still(tab, Handle(tab, m)) /\ Handle(tab, m).locked = tab.locked
    BY <1>2, <2>3
  <2> QED
    BY <1>6, <2>1, <2>2, <2>3
<1>7. CASE m.ev = "screen"
  <2>1. Handle(tab, m) = tab \/ Handle(tab, m) = [tab EXCEPT !.screen = m.about]
    BY <1>7 DEF Handle
  <2> QED
    BY <1>1, <1>7, <2>1 DEF Still, IsTab
<1>8. CASE m.ev = "updated"
  <2>1. Handle(tab, m) = IF tab.status = "joined" THEN [tab EXCEPT !.locked = m.arg] ELSE tab
    BY <1>8 DEF Handle
  <2> QED
    BY <1>1, <1>8, <2>1 DEF Still, IsTab
<1>9. CASE m.ev \in {"ended", "displaced"}
  <2>1. Handle(tab, m) = [tab EXCEPT !.status = m.ev, !.joined = FALSE, !.sharing = FALSE]
    BY <1>9 DEF Handle, Out
  <2> QED
    BY <1>1, <1>9, <2>1 DEF Still, IsTab, Statuses
<1>10. CASE m.ev \notin {"participants", "joined", "left", "media", "screen", "updated", "ended", "displaced"}
  <2>1. Handle(tab, m) = tab
    BY <1>10 DEF Handle
  <2> QED
    BY <1>10, <2>1 DEF Still
<1> QED
  BY <1>3, <1>4, <1>5, <1>6, <1>7, <1>8, <1>9, <1>10

\* All of them.
LEMMA AfterIs ==
    ASSUME NEW t \in Tabs, IsTab(tabs[t]), NEW p, NEW ms, Len(ms) \in Nat,
           \A i \in 1 .. Len(ms) : ms[i].ev = "updated" => ms[i].arg \in BOOLEAN
    PROVE  /\ IsTab(After(t, p, ms)) /\ Still(tabs[t], After(t, p, ms))
           /\ \A i \in 1 .. Len(ms) : Reaches(ms[i], t, p) /\ ms[i].ev \in {"displaced", "ended"} =>
                After(t, p, ms).status # "joined"
           /\ \A v : \A i \in 1 .. Len(ms) :
                (\A j \in 1 .. Len(ms) : ms[j].ev = "updated" => ms[j].arg = v)
                /\ Reaches(ms[i], t, p) /\ ms[i].ev = "updated" =>
                After(t, p, ms).status # "joined" \/ After(t, p, ms).locked = v
           /\ (\A i \in 1 .. Len(ms) : Reaches(ms[i], t, p) => ms[i].ev # "updated") => After(t, p, ms).locked = tabs[t].locked
<1> DEFINE n == Len(ms)
<1>1. PICK f : /\ After(t, p, ms) = f[n] /\ f[0] = tabs[t]
               /\ \A i \in 1 .. n : f[i] = IF Reaches(ms[i], t, p) THEN Handle(f[i - 1], ms[i]) ELSE f[i - 1]
  BY AfterSteps
<1> HIDE DEF n
<1>0. n \in Nat /\ \A i \in 1 .. n : ms[i].ev = "updated" => ms[i].arg \in BOOLEAN
  BY DEF n
<1>2. \A i \in 0 .. n - 1 : i + 1 \in 1 .. n /\ (i + 1) - 1 = i
  BY <1>0
<1>3. ASSUME NEW i \in 0 .. n - 1, IsTab(f[i])
      PROVE  /\ IsTab(f[i + 1]) /\ Still(f[i], f[i + 1])
             /\ f[i + 1].locked = IF Reaches(ms[i + 1], t, p) /\ ms[i + 1].ev = "updated" /\ f[i].status = "joined"
                                  THEN ms[i + 1].arg ELSE f[i].locked
             /\ Reaches(ms[i + 1], t, p) /\ ms[i + 1].ev \in {"displaced", "ended"} => f[i + 1].status # "joined"
  <2>1. f[i + 1] = IF Reaches(ms[i + 1], t, p) THEN Handle(f[i], ms[i + 1]) ELSE f[i]
    BY <1>1, <1>2
  <2>2. ms[i + 1].ev = "updated" => ms[i + 1].arg \in BOOLEAN
    BY <1>2, <1>0
  <2> QED
    BY <1>3, <2>1, <2>2, HandleIs DEF Still
<1> DEFINE S == {i \in 0 .. n : IsTab(f[i]) /\ Still(tabs[t], f[i])
                                /\ ((\A j \in 1 .. n : Reaches(ms[j], t, p) => ms[j].ev # "updated") => f[i].locked = tabs[t].locked)}
<1>4. 0 .. n \subseteq S
  <2>1. 0 \in S
    BY <1>1, <1>0 DEF Still
  <2>2. ASSUME NEW i \in 0 .. n - 1, i \in S PROVE i + 1 \in S
    <3>1. IsTab(f[i]) /\ Still(tabs[t], f[i]) /\ ((\A j \in 1 .. n : Reaches(ms[j], t, p) => ms[j].ev # "updated") => f[i].locked = tabs[t].locked)
      BY <2>2
    <3>2. i + 1 \in 0 .. n
      BY <1>0
    <3> QED
      BY <1>2, <1>3, <3>1, <3>2 DEF Still
  <2> HIDE DEF S
  <2> QED
    BY <1>0, <2>1, <2>2, Steps
<1>5. \A i \in 0 .. n : IsTab(f[i]) /\ Still(tabs[t], f[i])
                        /\ ((\A j \in 1 .. n : Reaches(ms[j], t, p) => ms[j].ev # "updated") => f[i].locked = tabs[t].locked)
  BY <1>4
<1>6. ASSUME NEW k \in 1 .. n, Reaches(ms[k], t, p), ms[k].ev \in {"displaced", "ended"}
      PROVE  f[n].status # "joined"
  <2> DEFINE T == {i \in 0 .. n : i >= k => f[i].status # "joined"}
  <2>1. 0 \in T
    BY <1>0
  <2>2. ASSUME NEW i \in 0 .. n - 1, i \in T PROVE i + 1 \in T
    <3>0. i + 1 \in 1 .. n /\ i \in 0 .. n /\ i + 1 \in 0 .. n /\ IsTab(f[i])
      BY <1>5, <1>0
    <3>1. CASE i >= k
      <4>1. f[i].status # "joined"
        BY <2>2, <3>1
      <4>2. f[i + 1].status = "joined" => f[i].status = "joined"
        BY <1>3, <3>0 DEF Still
      <4> QED
        BY <3>0, <4>1, <4>2
    <3>2. CASE i + 1 = k
      <4>1. f[i + 1].status # "joined"
        BY <1>3, <1>6, <3>0, <3>2
      <4> QED
        BY <3>0, <4>1
    <3>3. i + 1 >= k => i >= k \/ i + 1 = k
      BY <1>0
    <3> QED
      BY <3>0, <3>1, <3>2, <3>3
  <2>3. 0 .. n \subseteq T
    <3> HIDE DEF T
    <3> QED
      BY <1>0, <2>1, <2>2, Steps
  <2> QED
    BY <1>0, <2>3
<1>7. ASSUME NEW k \in 1 .. n, NEW v, \A j \in 1 .. n : ms[j].ev = "updated" => ms[j].arg = v,
             Reaches(ms[k], t, p), ms[k].ev = "updated"
      PROVE  f[n].status # "joined" \/ f[n].locked = v
  <2> DEFINE T == {i \in 0 .. n : i >= k => f[i].status # "joined" \/ f[i].locked = v}
  <2>1. 0 \in T
    BY <1>0
  <2>2. ASSUME NEW i \in 0 .. n - 1, i \in T PROVE i + 1 \in T
    <3>0. i + 1 \in 1 .. n /\ i \in 0 .. n /\ i + 1 \in 0 .. n /\ IsTab(f[i])
      BY <1>5, <1>0
    <3>1. /\ f[i + 1].status = "joined" => f[i].status = "joined"
          /\ f[i + 1].locked = IF Reaches(ms[i + 1], t, p) /\ ms[i + 1].ev = "updated" /\ f[i].status = "joined"
                               THEN ms[i + 1].arg ELSE f[i].locked
      BY <1>3, <3>0 DEF Still
    <3>2. CASE i >= k
      <4>1. f[i].status # "joined" \/ f[i].locked = v
        BY <2>2, <3>2
      <4> QED
        BY <1>7, <3>0, <3>1, <4>1
    <3>3. CASE i + 1 = k
      BY <1>7, <3>0, <3>1, <3>3
    <3>4. i + 1 >= k => i >= k \/ i + 1 = k
      BY <1>0
    <3> QED
      BY <3>0, <3>2, <3>3, <3>4
  <2>3. 0 .. n \subseteq T
    <3> HIDE DEF T
    <3> QED
      BY <1>0, <2>1, <2>2, Steps
  <2> QED
    BY <1>0, <2>3
<1>8. n \in 0 .. n
  BY <1>0
<1>9. IsTab(f[n]) /\ Still(tabs[t], f[n]) /\ ((\A j \in 1 .. n : Reaches(ms[j], t, p) => ms[j].ev # "updated") => f[n].locked = tabs[t].locked)
  BY <1>5, <1>8
<1>10. /\ \A i \in 1 .. n : Reaches(ms[i], t, p) /\ ms[i].ev \in {"displaced", "ended"} => f[n].status # "joined"
       /\ \A v : \A i \in 1 .. n :
            (\A j \in 1 .. n : ms[j].ev = "updated" => ms[j].arg = v) /\ Reaches(ms[i], t, p) /\ ms[i].ev = "updated" =>
            f[n].status # "joined" \/ f[n].locked = v
  BY <1>6, <1>7
<1> USE DEF n
<1> QED
  BY <1>1, <1>9, <1>10

-----------------------------------------------------------------------------
(* Broadcasts.                                                             *)

\* Messages that neither put anybody out, nor silence anybody, nor tell of the lock.
Plain(ms) == ms \in Seq(MsgType) /\ \A i \in DOMAIN ms : ms[i].ev \in {"participants", "joined", "left", "media", "screen"}

\* Told of messages, tabs are the same but for what they show.
LEMMA ToldIs ==
    ASSUME RosterTypes, NEW p, NEW V, NEW ms \in Seq(V), tabs' = Told(p, ms),
           \A i \in DOMAIN ms : ms[i].ev = "updated" => ms[i].arg \in BOOLEAN
    PROVE  /\ DOMAIN tabs' = Tabs
           /\ \A t \in Tabs :
                /\ IsTab(tabs'[t]) /\ Still(tabs[t], tabs'[t])
                /\ \A i \in DOMAIN ms : Reaches(ms[i], t, p) /\ ms[i].ev \in {"displaced", "ended"} =>
                     tabs'[t].status # "joined"
                /\ \A v : \A i \in DOMAIN ms :
                     (\A j \in DOMAIN ms : ms[j].ev = "updated" => ms[j].arg = v)
                     /\ Reaches(ms[i], t, p) /\ ms[i].ev = "updated" =>
                     tabs'[t].status # "joined" \/ tabs'[t].locked = v
                /\ (\A i \in DOMAIN ms : Reaches(ms[i], t, p) => ms[i].ev # "updated") => tabs'[t].locked = tabs[t].locked
<1>1. DOMAIN ms = 1 .. Len(ms) /\ Len(ms) \in Nat
  OBVIOUS
<1>2. DOMAIN tabs' = Tabs /\ \A t \in Tabs : tabs'[t] = After(t, p, ms)
  BY DEF Told
<1>3. \A t \in Tabs : IsTab(tabs[t])
  BY DEF RosterTypes
<1>4. ASSUME NEW t \in Tabs
      PROVE  /\ IsTab(After(t, p, ms)) /\ Still(tabs[t], After(t, p, ms))
             /\ \A i \in 1 .. Len(ms) : Reaches(ms[i], t, p) /\ ms[i].ev \in {"displaced", "ended"} =>
                  After(t, p, ms).status # "joined"
             /\ \A v : \A i \in 1 .. Len(ms) :
                  (\A j \in 1 .. Len(ms) : ms[j].ev = "updated" => ms[j].arg = v)
                  /\ Reaches(ms[i], t, p) /\ ms[i].ev = "updated" =>
                  After(t, p, ms).status # "joined" \/ After(t, p, ms).locked = v
             /\ (\A i \in 1 .. Len(ms) : Reaches(ms[i], t, p) => ms[i].ev # "updated") => After(t, p, ms).locked = tabs[t].locked
  <2>1. IsTab(tabs[t]) /\ \A i \in 1 .. Len(ms) : ms[i].ev = "updated" => ms[i].arg \in BOOLEAN
    BY <1>1, <1>3
  <2> QED
    BY <1>1, <2>1, AfterIs
<1>5. ASSUME NEW t \in Tabs
      PROVE  /\ IsTab(tabs'[t]) /\ Still(tabs[t], tabs'[t])
             /\ \A i \in DOMAIN ms : Reaches(ms[i], t, p) /\ ms[i].ev \in {"displaced", "ended"} =>
                  tabs'[t].status # "joined"
             /\ \A v : \A i \in DOMAIN ms :
                  (\A j \in DOMAIN ms : ms[j].ev = "updated" => ms[j].arg = v)
                  /\ Reaches(ms[i], t, p) /\ ms[i].ev = "updated" =>
                  tabs'[t].status # "joined" \/ tabs'[t].locked = v
             /\ (\A i \in DOMAIN ms : Reaches(ms[i], t, p) => ms[i].ev # "updated") => tabs'[t].locked = tabs[t].locked
  <2>1. tabs'[t] = After(t, p, ms) /\ DOMAIN ms = 1 .. Len(ms)
    BY <1>1, <1>2
  <2>2. ASSUME NEW i \in DOMAIN ms, Reaches(ms[i], t, p), ms[i].ev \in {"displaced", "ended"}
        PROVE  tabs'[t].status # "joined"
    BY <1>4, <2>1, <2>2
  <2>3. ASSUME NEW v, NEW i \in DOMAIN ms, \A j \in DOMAIN ms : ms[j].ev = "updated" => ms[j].arg = v,
               Reaches(ms[i], t, p), ms[i].ev = "updated"
        PROVE  tabs'[t].status # "joined" \/ tabs'[t].locked = v
    <3>1. \A w : \A k \in 1 .. Len(ms) :
            (\A j \in 1 .. Len(ms) : ms[j].ev = "updated" => ms[j].arg = w)
            /\ Reaches(ms[k], t, p) /\ ms[k].ev = "updated" =>
            After(t, p, ms).status # "joined" \/ After(t, p, ms).locked = w
      BY <1>4
    <3>2. i \in 1 .. Len(ms) /\ \A j \in 1 .. Len(ms) : ms[j].ev = "updated" => ms[j].arg = v
      BY <2>1, <2>3
    <3>3. After(t, p, ms).status # "joined" \/ After(t, p, ms).locked = v
      BY <2>3, <3>1, <3>2
    <3> QED
      BY <2>1, <3>3
  <2>4. (\A i \in DOMAIN ms : Reaches(ms[i], t, p) => ms[i].ev # "updated") => tabs'[t].locked = tabs[t].locked
    BY <1>4, <2>1
  <2>5. IsTab(tabs'[t]) /\ Still(tabs[t], tabs'[t])
    BY <1>4, <2>1
  <2> QED
    BY <2>2, <2>3, <2>4, <2>5
<1> QED
  BY <1>2, <1>5

\* Plain messages silence nobody.
LEMMA PlainHeard ==
    ASSUME NEW p, NEW ms, Plain(ms)
    PROVE  Deafened(p, ms) = {} /\ BatchOk(ms)
BY DEF Plain, Deafened, BatchOk

\* What is published comes to the other processes that are there.
LEMMA PublishIs ==
    ASSUME bus \in [Links -> Seq(Seq(MsgType))], NEW p \in Procs, NEW ms \in Seq(MsgType), Publish(p, ms)
    PROVE  /\ bus' \in [Links -> Seq(Seq(MsgType))]
           /\ BusInv /\ BatchOk(ms) => BusInv'
           /\ \A q : Coming(q) \subseteq Coming(q)'
           /\ \A q : \A m \in Coming(q)' : m \in Coming(q) \/ \E i \in DOMAIN ms : m = ms[i]
           /\ \A q \in alive \ {p} : q \in Procs => \A i \in DOMAIN ms : ms[i] \in Coming(q)'
<1> DEFINE Sends(l) == l[1] = p /\ l[2] \in alive /\ ms # <<>>
<1>1. bus' = [l \in Links |-> IF Sends(l) THEN Append(bus[l], ms) ELSE bus[l]]
  BY DEF Publish
<1>2. ASSUME NEW l \in Links
      PROVE  /\ bus[l] \in Seq(Seq(MsgType)) /\ DOMAIN bus[l] = 1 .. Len(bus[l]) /\ Len(bus[l]) \in Nat
             /\ bus'[l] \in Seq(Seq(MsgType))
             /\ \A i \in DOMAIN bus[l] : i \in DOMAIN bus'[l] /\ bus'[l][i] = bus[l][i]
             /\ \A i \in DOMAIN bus'[l] : i \in Nat /\ ((i \in DOMAIN bus[l] /\ bus'[l][i] = bus[l][i]) \/ bus'[l][i] = ms)
             /\ Sends(l) => Len(bus[l]) + 1 \in DOMAIN bus'[l] /\ bus'[l][Len(bus[l]) + 1] = ms
  <2>1. bus[l] \in Seq(Seq(MsgType)) /\ DOMAIN bus[l] = 1 .. Len(bus[l]) /\ Len(bus[l]) \in Nat
    OBVIOUS
  <2>2. CASE Sends(l)
    <3>1. bus'[l] = Append(bus[l], ms)
      BY <1>1, <2>2
    <3>2. /\ Append(bus[l], ms) \in Seq(Seq(MsgType))
          /\ DOMAIN Append(bus[l], ms) = 1 .. Len(bus[l]) + 1
          /\ \A j \in 1 .. Len(bus[l]) : Append(bus[l], ms)[j] = bus[l][j]
          /\ Append(bus[l], ms)[Len(bus[l]) + 1] = ms
      BY <2>1, AppendProperties
    <3>3. \A i \in 1 .. Len(bus[l]) + 1 : i \in Nat /\ (i \in 1 .. Len(bus[l]) \/ i = Len(bus[l]) + 1)
      BY <2>1
    <3> HIDE DEF Sends
    <3> QED
      BY <2>1, <3>1, <3>2, <3>3
  <2>3. CASE ~Sends(l)
    <3>1. bus'[l] = bus[l]
      BY <1>1, <2>3
    <3> HIDE DEF Sends
    <3> QED
      BY <2>1, <2>3, <3>1
  <2> QED
    BY <2>2, <2>3
<1>3. bus' \in [Links -> Seq(Seq(MsgType))]
  <2>1. DOMAIN bus' = Links /\ bus' = [l \in Links |-> bus'[l]]
    BY <1>1
  <2> QED
    BY <1>2, <2>1
<1>4. DOMAIN bus = Links /\ DOMAIN bus' = Links
  BY <1>3
<1>5. BusInv /\ BatchOk(ms) => BusInv'
  <2> SUFFICES ASSUME BusInv, BatchOk(ms), NEW l \in Links, NEW i \in Nat, i \in DOMAIN bus'[l] PROVE BatchOk(bus'[l][i])
    BY DEF BusInv, BatchOk
  <2> QED
    BY <1>2 DEF BusInv
<1>6. ASSUME NEW q, NEW m \in Coming(q) PROVE m \in Coming(q)'
  <2>0. PICK l \in Links : l[2] = q /\ \E i \in DOMAIN bus[l] : m \in Range(bus[l][i])
    BY <1>4, <1>6 DEF Coming
  <2>1. PICK i \in DOMAIN bus[l] : l[2] = q /\ m \in Range(bus[l][i])
    BY <2>0
  <2>2. i \in DOMAIN bus'[l] /\ bus'[l][i] = bus[l][i]
    BY <1>2
  <2> QED
    BY <1>4, <2>1, <2>2 DEF Coming
<1>7. ASSUME NEW q, NEW m \in Coming(q)' PROVE m \in Coming(q) \/ \E i \in DOMAIN ms : m = ms[i]
  <2>0. PICK l \in Links : l[2] = q /\ \E i \in DOMAIN bus'[l] : m \in Range(bus'[l][i])
    BY <1>4, <1>7 DEF Coming
  <2>1. PICK i \in DOMAIN bus'[l] : l[2] = q /\ m \in Range(bus'[l][i])
    BY <2>0
  <2>2. CASE i \in DOMAIN bus[l] /\ bus'[l][i] = bus[l][i]
    BY <1>4, <2>1, <2>2 DEF Coming
  <2>3. CASE bus'[l][i] = ms
    BY <2>1, <2>3 DEF Range
  <2> QED
    BY <1>2, <2>2, <2>3
<1>8. ASSUME NEW q \in alive \ {p}, q \in Procs, NEW i \in DOMAIN ms PROVE ms[i] \in Coming(q)'
  <2> DEFINE l == <<p, q>>
  <2>1. l \in Links /\ Sends(l) /\ l[2] = q
    <3>1. ms # <<>>
      OBVIOUS
    <3> QED
      BY <1>8, <3>1 DEF Links
  <2>2. Len(bus[l]) + 1 \in DOMAIN bus'[l] /\ bus'[l][Len(bus[l]) + 1] = ms
    <3> HIDE DEF Sends, l
    <3> QED
      BY <1>2, <2>1
  <2>3. ms[i] \in Range(ms)
    BY DEF Range
  <2> HIDE DEF l
  <2> QED
    BY <1>4, <2>1, <2>2, <2>3 DEF Coming
<1> QED
  BY <1>3, <1>5, <1>6, <1>7, <1>8

\* Tabs show the meeting and its lock as before, or show it no more.
QuietTabs ==
  /\ DOMAIN tabs' = Tabs
  /\ \A t \in Tabs : IsTab(tabs'[t]) /\ Still(tabs[t], tabs'[t]) /\ tabs'[t].locked = tabs[t].locked

\* Nobody loses what they are being told; nothing new is told of the lock.
Undisturbed ==
  /\ QuietTabs /\ BusInv' /\ bus' \in [Links -> Seq(Seq(MsgType))]
  /\ \A q : Coming(q) \subseteq Coming(q)'
  /\ Updates' \subseteq Updates

\* A tab that is told of nothing but people and the presenter.
LEMMA PlainTold ==
    ASSUME RosterTypes, NEW p, NEW V, NEW ms \in Seq(V), tabs' = Told(p, ms), \A i \in DOMAIN ms : ms[i].ev # "updated"
    PROVE  QuietTabs
BY ToldIs DEF QuietTabs

\* Steps that tell nobody anything.
LEMMA Untold ==
    ASSUME RosterInv, bus' = bus, QuietTabs
    PROVE  Undisturbed
<1>1. BusInv' /\ (\A q : Coming(q)' = Coming(q)) /\ Updates' = Updates
  BY DEF RosterInv, BusInv, BatchOk, Coming, Updates
<1> QED
  BY <1>1 DEF RosterInv, RosterTypes, Undisturbed

\* Steps that leave tabs alone.
LEMMA SameTabs ==
    ASSUME RosterTypes, tabs' = tabs
    PROVE  QuietTabs
BY DEF RosterTypes, QuietTabs, Still, IsTab

\* A step that changes one tab.
LEMMA OneTab ==
    ASSUME RosterTypes, NEW t \in Tabs, NEW tab, IsTab(tab), Still(tabs[t], tab), tab.locked = tabs[t].locked,
           tabs' = [tabs EXCEPT ![t] = tab]
    PROVE  QuietTabs
BY DEF QuietTabs, RosterTypes, Still

\* A tab that is out.
LEMMA TabOut ==
    ASSUME RosterTypes, NEW t \in Tabs, NEW status \in Statuses \ {"joined"}, tabs' = [tabs EXCEPT ![t] = Out(@, status)]
    PROVE  QuietTabs
<1>1. PICK old : old = tabs[t]
  OBVIOUS
<1>2. PICK tab : tab = Out(old, status)
  OBVIOUS
<1>3. IsTab(old)
  BY <1>1 DEF RosterTypes
<1>4. old = [n |-> old.n, online |-> old.online, open |-> old.open, status |-> old.status, joined |-> old.joined,
             self |-> old.self, roster |-> old.roster, locked |-> old.locked, screen |-> old.screen,
             media |-> old.media, sharing |-> old.sharing]
  BY <1>3 DEF IsTab
<1>5. tab = [old EXCEPT !.status = status, !.joined = FALSE, !.sharing = FALSE]
  BY <1>2 DEF Out
<1>6. IsTab(tab) /\ Still(old, tab) /\ tab.locked = old.locked
  BY <1>3, <1>4, <1>5 DEF IsTab, Still
<1>7. tabs' = [tabs EXCEPT ![t] = tab]
  BY <1>1, <1>2
<1> QED
  BY <1>1, <1>6, <1>7, OneTab

\* Steps that announce nothing of the lock.
LEMMA Announced ==
    ASSUME RosterInv, NEW p \in Procs, NEW ms \in Seq(MsgType), BatchOk(ms), \A i \in DOMAIN ms : ms[i].ev # "updated",
           tabs' = Told(p, ms) \/ QuietTabs, Publish(p, ms)
    PROVE  Undisturbed
<1>1. RosterTypes /\ BusInv /\ bus \in [Links -> Seq(Seq(MsgType))]
  BY DEF RosterInv, RosterTypes
<1>2. QuietTabs
  BY <1>1, PlainTold
<1>3. /\ bus' \in [Links -> Seq(Seq(MsgType))] /\ BusInv'
      /\ \A q : Coming(q) \subseteq Coming(q)'
      /\ \A q : \A m \in Coming(q)' : m \in Coming(q) \/ \E i \in DOMAIN ms : m = ms[i]
  BY <1>1, PublishIs
<1>4. Updates' \subseteq Updates
  BY <1>3 DEF Updates
<1> QED
  BY <1>2, <1>3, <1>4 DEF Undisturbed

\* People or the presenter.
LEMMA PlainBroadcast ==
    ASSUME RosterInv, NEW p \in Procs, NEW ms, Plain(ms), tabs' = Told(p, ms) \/ QuietTabs, Publish(p, ms)
    PROVE  Undisturbed
<1>1. ms \in Seq(MsgType) /\ (\A i \in DOMAIN ms : ms[i].ev # "updated") /\ BatchOk(ms)
  BY PlainHeard DEF Plain
<1> QED
  BY <1>1, Announced

\* Who is made deaf by messages, and is shown the meeting, is shown it no more.
LEMMA DeafenedOut ==
    ASSUME RosterInv, NEW p, NEW ms \in Seq(MsgType), BatchOk(ms), tabs' = Told(p, ms),
           \A i \in DOMAIN ms : ms[i].ev = "updated" => ms[i].arg \in BOOLEAN,
           NEW x \in Peers, Live(x), x \in Deafened(p, ms)
    PROVE  tabs'[x[1]].status # "joined"
<1>1. PICK i \in DOMAIN ms : ms[i].ev = "unhear" /\ ms[i].to \in {None, x} /\ x \in hears /\ Proc(x) = p
  BY DEF Deafened
<1>2. PICK j \in DOMAIN ms : ms[j].ev \in {"displaced", "ended"} /\ ms[j].to = ms[i].to /\ ms[j].but = None
  BY <1>1 DEF BatchOk
<1>3. RosterTypes /\ x[1] \in Tabs /\ Peer(x[1]) = x /\ x \in up /\ x # None
  BY Owners, Distinct DEF Live, RosterInv, SocketsInv, TabOk
<1>4. Reaches(ms[j], x[1], p)
  BY <1>1, <1>2, <1>3 DEF Reaches, Live
<1> QED
  BY <1>2, <1>3, <1>4, ToldIs

-----------------------------------------------------------------------------
(* Which steps keep the parts of the invariant.                            *)

\* Steps that connect nobody and forget nobody who awaits an answer.
LEMMA SocketsKept ==
    ASSUME RosterTypes, SocketsInv,
           \A t \in Tabs : /\ tabs'[t].n = tabs[t].n /\ tabs'[t].online = tabs[t].online /\ tabs'[t].open = tabs[t].open
                           /\ tabs'[t].self \in {tabs[t].self, Peer(t)}
                           /\ tabs[t].online => Peer(t) \in up',
           alive' = alive, up' \subseteq up,
           \A x \in Peers : Has(x)' # {} => Has(x) # {} \/ x \in up,
           \A x \in Peers : \A t \in Has(x)' :
             /\ Awaited(t) => \E s \in Has(x) : Awaited(s)
             /\ t.op = "leave" => ~Live(x) \/ \E s \in Has(x) : s.op = "leave",
           \A t \in Tabs : (tabs[t].online /\ Shows(t)' /\ tabs'[t].self # Peer(t)) =>
             Shows(t) /\ tabs[t].self # Peer(t)
             /\ ((\E s \in Has(Peer(t)) : Awaited(s)) => \E s \in Has(Peer(t))' : Awaited(s))
    PROVE  SocketsInv'
<1>1. ASSUME NEW t \in Tabs PROVE Peer(t)' = Peer(t) /\ Peer(t) \in Peers
  BY DEF Peer, RosterTypes
<1>2. ASSUME NEW x \in Peers PROVE Live(x)' = Live(x) /\ tabs'[x[1]].n = tabs[x[1]].n /\ x[2] \in Nat
  BY <1>1, Owners DEF Live
<1>3. ASSUME NEW x \in Peers PROVE SocketOk(x)'
  <2>1. SocketOk(x)
    BY DEF SocketsInv
  <2>2. (x \in up \/ Has(x) # {})' => x[2] <= tabs'[x[1]].n
    BY <1>2, <2>1 DEF SocketOk
  <2>3. ASSUME NEW t \in Has(x)', Awaited(t) PROVE Live(x)'
    BY <1>2, <2>1, <2>3 DEF SocketOk
  <2>4. ASSUME NEW t \in Has(x)', Live(x)' PROVE t.op # "leave"
    BY <1>2, <2>1, <2>4 DEF SocketOk
  <2> QED
    BY <2>2, <2>3, <2>4 DEF SocketOk, Awaited
<1>4. ASSUME NEW t \in Tabs PROVE TabOk(t)'
  <2>1. TabOk(t) /\ Peer(t)' = Peer(t) /\ Peer(t) \in Peers /\ tabs[t].n \in Nat
    BY <1>1 DEF SocketsInv, RosterTypes, IsTab
  <2>2. (tabs[t].self # None => tabs[t].self \in Peers /\ tabs[t].self[1] = t /\ tabs[t].self[2] <= tabs[t].n)'
    BY <2>1 DEF TabOk, Peer
  <2>3. (tabs[t].online => Peer(t) \in up /\ Proc(Peer(t)) \in alive)'
    <3>1. Proc(Peer(t))' = Proc(Peer(t))
      BY <2>1 DEF Proc
    <3> QED
      BY <2>1, <3>1 DEF TabOk
  <2>4. ASSUME (tabs[t].online /\ Shows(t) /\ tabs[t].self # Peer(t))' PROVE (\E k \in Has(Peer(t)) : Awaited(k))'
    <3>1. \E s \in Has(Peer(t))' : Awaited(s)
      BY <2>1, <2>4 DEF TabOk
    <3>2. (Has(Peer(t)))' = {tasks'[Peer(t)][k] : k \in DOMAIN tasks'[Peer(t)]}
      BY <2>1 DEF Has
    <3> QED
      BY <2>1, <3>1, <3>2 DEF Has, Awaited
  <2> QED
    BY <2>2, <2>3, <2>4 DEF TabOk
<1> QED
  BY <1>3, <1>4 DEF SocketsInv

\* Steps after which who joins and who is shown the meeting hear it.
LEMMA ShownKept ==
    ASSUME RosterTypes, SocketsInv, ShownInv,
           room.ended => room'.ended, crossed \subseteq crossed',
           \A t \in Tabs : Fresh(t)' => ShownOk(t)' \/ (Fresh(t) /\ Peer(t)' = Peer(t)),
           \A x \in Peers : \A t \in Has(x)' : Awaited(t) /\ t.pc \notin {"admit", "subscribe"} =>
             \/ Heard(x)' /\ x \in inRoom'
             \/ Heard(x)' /\ t.pc = "seat"
             \/ \E s \in Has(x) : /\ Awaited(s) /\ s.pc \notin {"admit", "subscribe"}
                                  /\ t.pc \notin {"seat", "freePrevious"} => s.pc \notin {"seat", "freePrevious"} \/ x \in inRoom',
           \A x \in Peers : Live(x) =>
             /\ x \in inRoom => x \in inRoom'
             /\ x \in hears => \/ Heard(x)'
                               \/ ~Joining(x) /\ tabs'[x[1]].status # "joined"
             /\ Holds(x) => Holds(x)' \/ PutOut(x)' \/ tabs'[x[1]].status # "joined"
             /\ PutOut(x) => PutOut(x)' \/ tabs'[x[1]].status # "joined"
    PROVE  ShownInv'
<1> SUFFICES ASSUME ~room'.ended PROVE (\A x \in Peers : JoinOk(x)') /\ (\A t \in Tabs : ShownOk(t)')
  BY DEF ShownInv
<1>1. (\A x \in Peers : JoinOk(x)) /\ (\A t \in Tabs : ShownOk(t))
  BY DEF ShownInv
<1>2. ASSUME NEW x \in Peers PROVE JoinOk(x)'
  <2> SUFFICES ASSUME NEW t \in Has(x)', Awaited(t), t.pc \notin {"admit", "subscribe"}
               PROVE  Heard(x)' /\ (t.pc \notin {"seat", "freePrevious"} => x \in inRoom')
    BY DEF JoinOk, Awaited
  <2>1. CASE Heard(x)' /\ x \in inRoom'
    BY <2>1
  <2>2. CASE Heard(x)' /\ t.pc = "seat"
    BY <2>2
  <2>3. ASSUME NEW s \in Has(x), Awaited(s), s.pc \notin {"admit", "subscribe"},
               t.pc \notin {"seat", "freePrevious"} => s.pc \notin {"seat", "freePrevious"} \/ x \in inRoom'
        PROVE  Heard(x)' /\ (t.pc \notin {"seat", "freePrevious"} => x \in inRoom')
    <3>1. Live(x)
      BY <2>3 DEF SocketsInv, SocketOk
    <3>2. Heard(x) /\ (s.pc \notin {"seat", "freePrevious"} => x \in inRoom)
      BY <1>1, <2>3 DEF JoinOk
    <3>3. Joining(x)
      BY <2>3 DEF Joining, Has, Awaited
    <3>4. Heard(x)'
      BY <3>1, <3>2, <3>3 DEF Heard
    <3> QED
      BY <2>3, <3>1, <3>2, <3>4
  <2> QED
    BY <2>1, <2>2, <2>3
<1>3. ASSUME NEW t \in Tabs PROVE ShownOk(t)'
  <2> SUFFICES ASSUME Fresh(t)', Fresh(t), Peer(t)' = Peer(t)
               PROVE  ShownOk(t)'
    BY DEF ShownOk
  <2>0. Peer(t) \in Peers
    BY DEF RosterTypes
  <2>9. PICK x \in Peers : x = Peer(t)
    BY <2>0
  <2>1. x[1] = t /\ tabs'[x[1]].status = "joined" /\ Live(x) /\ x = Peer(t)'
    BY <2>9 DEF Peer, Fresh, Shows, Live
  <2>2. Heard(x) /\ x \in inRoom /\ (Holds(x) \/ <<"person", PersonOf[t]>> \in crossed \/ PutOut(x))
    BY <1>1, <2>9 DEF ShownOk
  <2>3. Heard(x)' /\ x \in inRoom'
    BY <2>1, <2>2 DEF Heard
  <2>4. Holds(x)' \/ <<"person", PersonOf[t]>> \in crossed' \/ PutOut(x)'
    BY <2>1, <2>2
  <2>5. Heard(Peer(t))' = Heard(x)'
    BY <2>1 DEF Heard
  <2>6. Holds(Peer(t))' = Holds(x)'
    BY <2>1 DEF Holds, Owner
  <2>7. PutOut(Peer(t))' = PutOut(x)'
    BY <2>1 DEF PutOut, Coming, Proc
  <2> QED
    BY <2>1, <2>3, <2>4, <2>5, <2>6, <2>7 DEF ShownOk
<1> QED
  BY <1>2, <1>3

\* Steps that neither change the lock nor what is under way about it, but deliver it.
LEMMA LockKept ==
    ASSUME RosterTypes, LockInv,
           room'.locked = room.locked, room.ended => room'.ended, crossed \subseteq crossed',
           \A s \in Requests' : s \in Requests \/ \E r \in Requests : s.on = r.on /\ s.pc # "tell",
           \A s \in Requests : s.pc = "tell" => s \in Requests',
           Updates' \subseteq Updates,
           \A t \in Tabs : Fresh(t)' =>
             \/ tabs'[t].locked = room.locked \/ <<"locked", t>> \in crossed' \/ <<"deaf", Peer(t)'>> \in crossed'
             \/ /\ Fresh(t) /\ Peer(t)' = Peer(t) /\ tabs'[t].locked = tabs[t].locked
                /\ \A m \in Coming(Proc(Peer(t))) : m.ev = "updated" => m \in Coming(Proc(Peer(t)))'
    PROVE  LockInv'
<1>1. LocksOk'
  BY DEF LockInv, LocksOk
<1>2. ASSUME ~room'.ended, NEW t \in Tabs PROVE LockOk(t)'
  <2> SUFFICES ASSUME Fresh(t)', tabs'[t].locked # room'.locked, <<"locked", t>> \notin crossed', <<"deaf", Peer(t)'>> \notin crossed'
               PROVE  (\E s \in Requests' : s.pc = "tell") \/ \E m \in Coming(Proc(Peer(t)))' : m.ev = "updated"
    BY DEF LockOk
  <2>1. /\ Fresh(t) /\ Peer(t)' = Peer(t) /\ tabs'[t].locked = tabs[t].locked
        /\ \A m \in Coming(Proc(Peer(t))) : m.ev = "updated" => m \in Coming(Proc(Peer(t)))'
    OBVIOUS
  <2>2. LockOk(t)
    BY <1>2 DEF LockInv
  <2>3. (\E s \in Requests : s.pc = "tell") \/ \E m \in Coming(Proc(Peer(t))) : m.ev = "updated"
    BY <2>1, <2>2 DEF LockOk
  <2> QED
    BY <2>1, <2>3
<1> QED
  BY <1>1, <1>2 DEF LockInv

\* Tabs show the meeting as before, or show it no more; nobody loses what they are
\* being told.
Calm ==
  /\ DOMAIN tabs' = Tabs /\ \A t \in Tabs : IsTab(tabs'[t]) /\ Still(tabs[t], tabs'[t])
  /\ BusInv' /\ bus' \in [Links -> Seq(Seq(MsgType))]
  /\ \A q : Coming(q) \subseteq Coming(q)'

\* What a handler may turn to: it awaits no more than before, and has what its step is
\* entered with; and whoever is shown the meeting leaves nothing.
HandsOn(a, O, N) ==
  /\ Turns(a, O, N)
  /\ \A u \in N : Awaited(u) => \E T \in O : Awaited(T)
  /\ \A T \in O : Awaited(T) => (\E u \in N : Awaited(u)) \/ (a \in Peers /\ tabs'[a[1]].status # "joined")
  /\ a \in Procs => \A u \in N : u.pc \in EndSteps => room'.ended
  /\ a \in Peers => /\ N # {} => O # {} \/ a \in up
                    /\ \A u \in N : u.op = "leave" => ~Live(a) \/ \E T \in O : T.op = "leave"
                    /\ \A u \in N : Awaited(u) /\ u.pc \notin {"admit", "subscribe"} =>
                         \/ Heard(a)' /\ a \in inRoom'
                         \/ Heard(a)' /\ u.pc = "seat"
                         \/ \E T \in O : /\ Awaited(T) /\ T.pc \notin {"admit", "subscribe"}
                                         /\ u.pc \notin {"seat", "freePrevious"} => T.pc \notin {"seat", "freePrevious"} \/ a \in inRoom'

\* And has nothing to do with the lock.
TurnOk(a, O, N) ==
  /\ HandsOn(a, O, N)
  /\ a \in Procs => \A T \in O \union N : T.pc \notin LockSteps

\* What is under way about the lock is as it was.
LEMMA SameRequests ==
    ASSUME NEW a, NEW O, NEW N, Turns(a, O, N), a \in Procs => \A T \in O \union N : T.pc \notin LockSteps
    PROVE  Requests' = Requests
<1>1. ASSUME NEW t, t.pc \in LockSteps, NEW p \in Procs PROVE t \in Has(p)' <=> t \in Has(p)
  <2>1. p \in Actors
    BY DEF Actors
  <2>2. CASE p = a
    BY <1>1, <2>2 DEF Turns
  <2>3. CASE p # a
    BY <2>1, <2>3 DEF Turns
  <2> QED
    BY <2>2, <2>3
<1> QED
  BY <1>1 DEF Requests

\* A step of a handler that leaves alone what is shown of the meeting.
LEMMA CalmStep ==
    ASSUME RosterInv, Calm, LockInv', NEW a, NEW O, NEW N, HandsOn(a, O, N), tasks' \in [Actors -> Seq(TaskType)],
           seats' \in [People -> SeatType \union {None}], slot' \in Peers \union {None},
           inRoom' \subseteq Peers, hears' \subseteq Peers, alive' = alive,
           up' \subseteq up, \A t \in Tabs : tabs[t].online => Peer(t) \in up',
           DOMAIN room' = DOMAIN room, room'.locked \in BOOLEAN, room'.ended \in BOOLEAN, room.ended => room'.ended,
           crossed \subseteq crossed',
           \A x \in Peers : Live(x) => /\ x \in inRoom => x \in inRoom'
                                       /\ x \in hears => Heard(x)' \/ room'.ended \/ (~Joining(x) /\ tabs'[x[1]].status # "joined")
                                       /\ Holds(x) => Holds(x)' \/ PutOut(x)' \/ tabs'[x[1]].status # "joined" \/ room'.ended
    PROVE  RosterInv'
<1>1. RosterTypes /\ SocketsInv /\ EndOk /\ BusInv /\ ShownInv /\ LockInv
  BY DEF RosterInv
<1>2. Peers \subseteq Actors /\ Procs \subseteq Actors /\ Procs \intersect Peers = {}
  BY RosterAssumption DEF Actors, RosterAssumption
<1>3. ASSUME NEW t \in Tabs
      PROVE  /\ tabs'[t].n = tabs[t].n /\ tabs'[t].online = tabs[t].online /\ tabs'[t].open = tabs[t].open
             /\ tabs'[t].self = tabs[t].self
             /\ tabs'[t].status = "joined" => tabs[t].status = "joined"
             /\ Peer(t)' = Peer(t) /\ (Fresh(t)' => Fresh(t)) /\ (Shows(t)' => Shows(t))
             /\ Peer(t) \in Peers
  BY <1>1 DEF Calm, Still, Peer, Fresh, Shows, RosterTypes
<1>0. RosterTypes'
  BY <1>1, <1>3 DEF Calm, RosterTypes
<1>4. ASSUME NEW b \in Actors, NEW u \in Has(b)' PROVE u \in Has(b) \/ (b = a /\ u \in N)
  BY <1>4 DEF HandsOn, Turns
<1>5. ASSUME NEW b \in Actors, NEW u \in Has(b) PROVE u \in Has(b)' \/ (b = a /\ u \in O)
  BY <1>5 DEF HandsOn, Turns
<1>6. O \subseteq Has(a) /\ N \subseteq Has(a)' /\ a \in Actors
  BY DEF HandsOn, Turns
<1>7. SocketsInv'
  <2>1. ASSUME NEW x \in Peers, Has(x)' # {} PROVE Has(x) # {} \/ x \in up
    BY <1>2, <1>4, <1>6, <2>1 DEF HandsOn
  <2>2. ASSUME NEW x \in Peers, NEW t \in Has(x)'
        PROVE  /\ Awaited(t) => \E s \in Has(x) : Awaited(s)
               /\ t.op = "leave" => ~Live(x) \/ \E s \in Has(x) : s.op = "leave"
    <3>1. CASE t \in Has(x)
      BY <3>1
    <3>2. CASE x = a /\ t \in N
      BY <1>6, <3>2 DEF HandsOn
    <3> QED
      BY <1>2, <1>4, <2>2, <3>1, <3>2
  <2>3. ASSUME NEW t \in Tabs, NEW s \in Has(Peer(t)), Awaited(s), Shows(t)' PROVE \E k \in Has(Peer(t))' : Awaited(k)
    <3>1. PICK x \in Peers : x = Peer(t)
      BY <1>3
    <3>0. x[1] = t /\ tabs'[t].status = "joined"
      BY <2>3, <3>1 DEF Peer, Shows
    <3>2. x \in Actors /\ s \in Has(x)
      BY <1>2, <2>3, <3>1
    <3>3. \E k \in Has(x)' : Awaited(k)
      <4>1. CASE s \in Has(x)'
        BY <2>3, <4>1
      <4>2. CASE x = a /\ s \in O
        BY <1>6, <2>3, <3>0, <4>2 DEF HandsOn
      <4> QED
        BY <1>5, <3>2, <4>1, <4>2
    <3>4. Has(Peer(t))' = Has(x)'
      BY <1>3, <3>1 DEF Has
    <3> QED
      BY <3>3, <3>4
  <2>4. \A t \in Tabs : /\ tabs'[t].n = tabs[t].n /\ tabs'[t].online = tabs[t].online /\ tabs'[t].open = tabs[t].open
                        /\ tabs'[t].self \in {tabs[t].self, Peer(t)}
                        /\ tabs[t].online => Peer(t) \in up'
    BY <1>3
  <2>5. \A t \in Tabs : (tabs[t].online /\ Shows(t)' /\ tabs'[t].self # Peer(t)) =>
           Shows(t) /\ tabs[t].self # Peer(t)
           /\ ((\E s \in Has(Peer(t)) : Awaited(s)) => \E s \in Has(Peer(t))' : Awaited(s))
    BY <1>3, <2>3
  <2> QED
    BY <1>1, <2>1, <2>2, <2>4, <2>5, SocketsKept
<1>8. EndOk'
  <2> SUFFICES ASSUME NEW p \in Procs, NEW t \in Has(p)', t.pc \in EndSteps PROVE room'.ended
    BY DEF EndOk
  <2>1. CASE t \in Has(p)
    BY <1>1, <2>1 DEF EndOk
  <2>2. CASE p = a /\ t \in N
    BY <2>2 DEF HandsOn
  <2> QED
    BY <1>2, <1>4, <2>1, <2>2
<1>9. ShownInv'
  <2>1. CASE room'.ended
    BY <2>1 DEF ShownInv
  <2>2. CASE ~room'.ended
    <3>1. ASSUME NEW x \in Peers, NEW t \in Has(x)', Awaited(t), t.pc \notin {"admit", "subscribe"}
          PROVE  \/ Heard(x)' /\ x \in inRoom'
                 \/ Heard(x)' /\ t.pc = "seat"
                 \/ \E s \in Has(x) : /\ Awaited(s) /\ s.pc \notin {"admit", "subscribe"}
                                      /\ t.pc \notin {"seat", "freePrevious"} => s.pc \notin {"seat", "freePrevious"} \/ x \in inRoom'
      <4>1. CASE t \in Has(x)
        BY <3>1, <4>1
      <4>2. CASE x = a /\ t \in N
        BY <1>6, <3>1, <4>2 DEF HandsOn
      <4> QED
        BY <1>2, <1>4, <3>1, <4>1, <4>2
    <3>2. ASSUME NEW x \in Peers, Live(x)
          PROVE  /\ x \in inRoom => x \in inRoom'
                 /\ x \in hears => Heard(x)' \/ (~Joining(x) /\ tabs'[x[1]].status # "joined")
                 /\ Holds(x) => Holds(x)' \/ PutOut(x)' \/ tabs'[x[1]].status # "joined"
                 /\ PutOut(x) => PutOut(x)'
      BY <2>2, <3>2 DEF PutOut, Calm
    <3>3. \A t \in Tabs : Fresh(t)' => ShownOk(t)' \/ (Fresh(t) /\ Peer(t)' = Peer(t))
      BY <1>3
    <3> QED
      BY <1>1, <3>1, <3>2, <3>3, ShownKept
  <2> QED
    BY <2>1, <2>2
<1> QED
  BY <1>0, <1>7, <1>8, <1>9 DEF RosterInv, Calm

\* A step of a handler that leaves alone the lock, too.
LEMMA QuietStep ==
    ASSUME RosterInv, Undisturbed, NEW a, NEW O, NEW N, TurnOk(a, O, N), tasks' \in [Actors -> Seq(TaskType)],
           seats' \in [People -> SeatType \union {None}], slot' \in Peers \union {None},
           inRoom' \subseteq Peers, hears' \subseteq Peers, alive' = alive,
           up' \subseteq up, \A t \in Tabs : tabs[t].online => Peer(t) \in up',
           DOMAIN room' = DOMAIN room, room'.locked = room.locked, room'.ended \in BOOLEAN, room.ended => room'.ended,
           crossed \subseteq crossed',
           \A x \in Peers : Live(x) => /\ x \in inRoom => x \in inRoom'
                                       /\ x \in hears => Heard(x)' \/ room'.ended \/ (~Joining(x) /\ tabs'[x[1]].status # "joined")
                                       /\ Holds(x) => Holds(x)' \/ PutOut(x)' \/ tabs'[x[1]].status # "joined" \/ room'.ended
    PROVE  RosterInv'
<1>1. RosterTypes /\ LockInv
  BY DEF RosterInv
<1>2. Calm /\ HandsOn(a, O, N) /\ room.locked \in BOOLEAN
  BY <1>1 DEF Calm, Undisturbed, QuietTabs, TurnOk, RosterTypes
<1>3. ASSUME NEW t \in Tabs
      PROVE  tabs'[t].locked = tabs[t].locked /\ Peer(t)' = Peer(t) /\ (Fresh(t)' => Fresh(t))
  BY DEF Undisturbed, QuietTabs, Still, Peer, Fresh, Shows
<1>4. LockInv'
  <2>1. Requests' = Requests
    BY SameRequests DEF TurnOk, HandsOn
  <2>2. ASSUME NEW t \in Tabs, Fresh(t)'
        PROVE  /\ Fresh(t) /\ Peer(t)' = Peer(t) /\ tabs'[t].locked = tabs[t].locked
               /\ \A m \in Coming(Proc(Peer(t))) : m.ev = "updated" => m \in Coming(Proc(Peer(t)))'
    <3>1. PICK q : q = Proc(Peer(t))
      OBVIOUS
    <3>2. Coming(Proc(Peer(t)))' = Coming(q)'
      BY <1>3, <3>1 DEF Coming, Proc
    <3> QED
      BY <1>3, <2>2, <3>1, <3>2 DEF Undisturbed
  <2> QED
    BY <1>1, <2>1, <2>2, LockKept DEF Undisturbed
<1> QED
  BY <1>2, <1>4, CalmStep

-----------------------------------------------------------------------------
(* Tasks and messages.                                                     *)

\* A new task.
LEMMA TaskIs ==
    ASSUME NEW op, NEW pc \in Pcs, NEW on \in BOOLEAN, op = Operation(pc), op \in Ops
    PROVE  /\ Task(op, pc, on) \in TaskType /\ Task(op, pc, on).op = op /\ Task(op, pc, on).pc = pc
           /\ Task(op, pc, on).on = on /\ Task(op, pc, on).mine = TRUE
           /\ Awaited(Task(op, pc, on)) <=> op = "join"
BY DEF Task, TaskType, Awaited

\* A message to the room, to a socket and to the others.
LEMMA MsgIs ==
    ASSUME NEW ev \in Events, NEW about \in Peers \union {None}, NEW arg \in BOOLEAN \union {None}, NEW x \in Peers
    PROVE  /\ Msg(ev, about, arg) \in MsgType /\ Msg(ev, about, arg).ev = ev /\ Msg(ev, about, arg).arg = arg
           /\ Msg(ev, about, arg).to = None /\ Msg(ev, about, arg).but = None
           /\ Direct(Msg(ev, about, arg), x) \in MsgType /\ Direct(Msg(ev, about, arg), x).ev = ev
           /\ Direct(Msg(ev, about, arg), x).to = x /\ Direct(Msg(ev, about, arg), x).but = None
           /\ Except(Msg(ev, about, arg), x) \in MsgType /\ Except(Msg(ev, about, arg), x).ev = ev
BY DEF Msg, MsgType, Direct, Except

\* Sequences of plain messages.
LEMMA PlainIs ==
    /\ Plain(<<>>)
    /\ \A m \in MsgType : m.ev \in {"participants", "joined", "left", "media", "screen"} => Plain(<<m>>)
    /\ \A ms, ns : Plain(ms) /\ Plain(ns) => Plain(ms \o ns)
<1>1. Plain(<<>>)
  BY DEF Plain
<1>2. ASSUME NEW m \in MsgType, m.ev \in {"participants", "joined", "left", "media", "screen"} PROVE Plain(<<m>>)
  BY <1>2 DEF Plain
<1>3. ASSUME NEW ms, NEW ns, Plain(ms), Plain(ns) PROVE Plain(ms \o ns)
  <2>1. ms \in Seq(MsgType) /\ ns \in Seq(MsgType)
    BY <1>3 DEF Plain
  <2>2. /\ ms \o ns \in Seq(MsgType) /\ Len(ms \o ns) = Len(ms) + Len(ns) /\ Len(ms) \in Nat /\ Len(ns) \in Nat
        /\ \A i \in 1 .. Len(ms) + Len(ns) : (ms \o ns)[i] = IF i <= Len(ms) THEN ms[i] ELSE ns[i - Len(ms)]
    BY <2>1, ConcatProperties
  <2>3. ASSUME NEW i \in 1 .. Len(ms) + Len(ns)
        PROVE  (ms \o ns)[i].ev \in {"participants", "joined", "left", "media", "screen"}
    <3>1. CASE i <= Len(ms)
      <4>1. i \in DOMAIN ms /\ (ms \o ns)[i] = ms[i]
        BY <2>1, <2>2, <3>1
      <4> QED
        BY <1>3, <4>1 DEF Plain
    <3>2. CASE ~(i <= Len(ms))
      <4>1. i - Len(ms) \in DOMAIN ns /\ (ms \o ns)[i] = ns[i - Len(ms)]
        BY <2>1, <2>2, <3>2
      <4> QED
        BY <1>3, <4>1 DEF Plain
    <3> QED
      BY <3>1, <3>2
  <2>4. DOMAIN (ms \o ns) = 1 .. Len(ms) + Len(ns)
    BY <2>2
  <2> QED
    BY <2>2, <2>3, <2>4 DEF Plain
<1> QED
  BY <1>1, <1>2, <1>3

\* That the slot is free.
LEMMA FreedIs ==
    ASSUME NEW x
    PROVE  Plain(Freed(x))
<1>1. Msg("screen", None, None) \in MsgType /\ Msg("screen", None, None).ev = "screen"
  BY DEF Msg, MsgType, Events
<1>2. Plain(<<Msg("screen", None, None)>>)
  <2>1. PICK m : m = Msg("screen", None, None)
    OBVIOUS
  <2>2. m \in MsgType /\ m.ev = "screen"
    BY <1>1, <2>1
  <2>3. Plain(<<m>>)
    BY <2>2, PlainIs
  <2> QED
    BY <2>1, <2>3
<1> QED
  BY <1>2, PlainIs DEF Freed

\* What the steps need of the operations.
LEMMA OperationIs ==
    /\ \A pc \in JoinSteps : Operation(pc) = "join" /\ pc \in Pcs
    /\ \A pc \in LeaveSteps : Operation(pc) = "leave" /\ pc \in Pcs
    /\ \A pc \in LockSteps \union EndSteps \union {"findOpen", "end"} : Operation(pc) = "host" /\ pc \in Pcs
    /\ Operation("media") = "media" /\ Operation("setMedia") = "media" /\ Operation("share") = "share" /\ Operation("claim") = "share"
    /\ Operation("stop") = "stop" /\ Operation("release") = "stop" /\ Operation("freeDead") = "sweep"
<1>1. ASSUME NEW pc \in JoinSteps PROVE Operation(pc) = "join" /\ pc \in Pcs
  BY DEF Operation, JoinSteps, LeaveSteps, LockSteps, EndSteps, Pcs
<1>2. ASSUME NEW pc \in LeaveSteps PROVE Operation(pc) = "leave" /\ pc \in Pcs
  BY DEF Operation, JoinSteps, LeaveSteps, LockSteps, EndSteps, Pcs
<1>3. ASSUME NEW pc \in LockSteps \union EndSteps \union {"findOpen", "end"} PROVE Operation(pc) = "host" /\ pc \in Pcs
  BY DEF Operation, JoinSteps, LeaveSteps, LockSteps, EndSteps, Pcs
<1>4. /\ Operation("media") = "media" /\ Operation("setMedia") = "media" /\ Operation("share") = "share" /\ Operation("claim") = "share"
      /\ Operation("freeDead") = "sweep"
  BY DEF Operation, JoinSteps, LeaveSteps, LockSteps, EndSteps, Pcs
<1>5. Operation("stop") = "stop" /\ Operation("release") = "stop"
  BY DEF Operation, JoinSteps, LeaveSteps, LockSteps, EndSteps, Pcs
<1> QED
  BY <1>1, <1>2, <1>3, <1>4, <1>5

\* A handler that goes on.
LEMMA GoesOk ==
    ASSUME RosterTypes, NEW a \in Actors, NEW k, NEW from, Runs(a, k, from), NEW u \in TaskType, tasks' = Goes(a, k, u),
           u.op = tasks[a][k].op, u.mine = tasks[a][k].mine,
           a \in Procs => from \notin LockSteps /\ u.pc \notin LockSteps /\ (u.pc \in EndSteps => room'.ended),
           a \in Peers /\ Awaited(tasks[a][k]) /\ u.pc \notin {"admit", "subscribe"} =>
             \/ Heard(a)' /\ a \in inRoom'
             \/ Heard(a)' /\ u.pc = "seat"
             \/ /\ from \notin {"admit", "subscribe"}
                /\ u.pc \notin {"seat", "freePrevious"} => from \notin {"seat", "freePrevious"} \/ a \in inRoom'
    PROVE  TurnOk(a, {tasks[a][k]}, {u}) /\ tasks' \in [Actors -> Seq(TaskType)]
<1> DEFINE T == tasks[a][k]
<1>1. tasks \in [Actors -> Seq(TaskType)]
  BY DEF RosterTypes
<1>2. k \in DOMAIN tasks[a] /\ T \in Has(a) /\ T.pc = from
  BY <1>1, RunsIs
<1>3. Turns(a, {T}, {u}) /\ tasks' \in [Actors -> Seq(TaskType)]
  BY <1>1, <1>2, GoesTurns
<1>4. Awaited(u) <=> Awaited(T)
  BY DEF Awaited
<1> QED
  BY <1>2, <1>3, <1>4 DEF TurnOk, HandsOn

\* One that ends.
LEMMA FinishOk ==
    ASSUME RosterTypes, NEW a \in Actors, NEW k, NEW from, Runs(a, k, from), tasks' = Finished(a, k),
           Awaited(tasks[a][k]) => a \in Peers /\ tabs'[a[1]].status # "joined",
           a \in Procs => from \notin LockSteps
    PROVE  TurnOk(a, {tasks[a][k]}, {}) /\ tasks' \in [Actors -> Seq(TaskType)]
<1> DEFINE T == tasks[a][k]
<1>1. tasks \in [Actors -> Seq(TaskType)]
  BY DEF RosterTypes
<1>2. k \in DOMAIN tasks[a] /\ T \in Has(a) /\ T.pc = from
  BY <1>1, RunsIs
<1>3. Turns(a, {T}, {}) /\ tasks' \in [Actors -> Seq(TaskType)]
  BY <1>1, <1>2, FinishedTurns
<1> QED
  BY <1>2, <1>3 DEF TurnOk, HandsOn

\* A new one.
LEMMA AddOk ==
    ASSUME RosterTypes, NEW a \in Actors, NEW u \in TaskType, tasks' = [tasks EXCEPT ![a] = Append(@, u)],
           ~Awaited(u), a \in Procs => u.pc \notin LockSteps \union EndSteps,
           a \in Peers => a \in up /\ (u.op = "leave" => ~Live(a))
    PROVE  TurnOk(a, {}, {u}) /\ tasks' \in [Actors -> Seq(TaskType)]
<1>1. Turns(a, {}, {u}) /\ tasks' \in [Actors -> Seq(TaskType)]
  BY AppendTurns DEF RosterTypes
<1> QED
  BY <1>1 DEF TurnOk, HandsOn

-----------------------------------------------------------------------------
(* room:join.                                                              *)

\* What a peer's handler is.
LEMMA PeerRuns ==
    ASSUME RosterInv, NEW x \in Peers, NEW k, NEW pc, Runs(x, k, pc)
    PROVE  /\ RosterTypes /\ x \in Actors /\ x \notin Procs /\ Proc(x) \in Procs /\ Proc(x) \in alive
           /\ k \in DOMAIN tasks[x] /\ tasks[x][k] \in TaskType /\ tasks[x][k] \in Has(x) /\ tasks[x][k].pc = pc
           /\ tasks[x][k].op = Operation(pc) /\ tasks[x][k].on \in BOOLEAN /\ tasks[x][k].peer \in Peers \union {None}
           /\ Awaited(tasks[x][k]) <=> pc \in JoinSteps /\ tasks[x][k].mine
           /\ Awaited(tasks[x][k]) => Live(x)
           /\ pc \in LeaveSteps => ~Live(x)
           /\ \A t \in Tabs : tabs[t].online => Peer(t) \in up
<1>1. RosterTypes /\ SocketsInv
  BY DEF RosterInv
<1>2. x \in Actors /\ x \notin Procs /\ Proc(x) \in Procs
  BY Processes, Distinct DEF Actors
<1>3. k \in DOMAIN tasks[x] /\ tasks[x][k] \in Has(x) /\ tasks[x][k] \in TaskType /\ tasks[x][k].pc = pc /\ Proc(x) \in alive
  BY <1>1, <1>2, RunsIs DEF RosterTypes
<1>4. tasks[x][k].op = Operation(pc) /\ tasks[x][k].on \in BOOLEAN /\ tasks[x][k].peer \in Peers \union {None}
  BY <1>3 DEF TaskType
<1>5. Awaited(tasks[x][k]) <=> pc \in JoinSteps /\ tasks[x][k].mine
  BY <1>4 DEF Awaited, Operation
<1>6. (Awaited(tasks[x][k]) => Live(x)) /\ (tasks[x][k].op = "leave" => ~Live(x))
  BY <1>1, <1>3 DEF SocketsInv, SocketOk
<1>7. pc \in LeaveSteps => tasks[x][k].op = "leave"
  BY <1>4, OperationIs
<1>8. \A t \in Tabs : tabs[t].online => Peer(t) \in up
  BY <1>1 DEF SocketsInv, TabOk
<1> QED
  BY <1>1, <1>2, <1>3, <1>4, <1>5, <1>6, <1>7, <1>8

\* Who may not come in is shown so; the others go on.
LEMMA AdmitKeeps ==
    ASSUME RosterInv, NEW x \in Peers, NEW k, Admit(x, k)
    PROVE  RosterInv'
<1> DEFINE T == tasks[x][k]
<1>1. Runs(x, k, "admit")
  BY DEF Admit
<1>2. /\ RosterTypes /\ x \in Actors /\ x \notin Procs /\ Proc(x) \in Procs
      /\ T \in TaskType /\ T.op = Operation("admit") /\ T.pc = "admit"
      /\ Awaited(T) <=> T.mine
      /\ \A t \in Tabs : tabs[t].online => Peer(t) \in up
  BY <1>1, PeerRuns DEF JoinSteps
<1>3. x[1] \in Tabs
  BY Owners
<1>4. UNCHANGED <<seats, slot, room, up, inRoom, hears, bus, alive, crossed>>
  BY DEF Admit
<1>5. CASE room.ended \/ (room.locked /\ Owner(x) \notin room.members)
  <2>1. /\ tabs' = IF T.mine THEN [tabs EXCEPT ![x[1]] = Out(@, IF room.ended THEN "ended" ELSE "refused")] ELSE tabs
        /\ tasks' = Finished(x, k)
    BY <1>5 DEF Admit, Finish
  <2>2. \E status \in Statuses \ {"joined"} : tabs' = IF T.mine THEN [tabs EXCEPT ![x[1]] = Out(@, status)] ELSE tabs
    BY <2>1 DEF Statuses
  <2>3. QuietTabs
    BY <1>2, <1>3, <2>2, SameTabs, TabOut
  <2>4. T.mine => tabs'[x[1]].status # "joined"
    BY <1>2, <1>3, <2>2 DEF RosterTypes, IsTab, Out
  <2>5. TurnOk(x, {T}, {}) /\ tasks' \in [Actors -> Seq(TaskType)]
    BY <1>1, <1>2, <2>1, <2>4, FinishOk
  <2>6. Undisturbed
    BY <1>4, <2>3, Untold
  <2> QED
    BY <1>2, <1>4, <2>5, <2>6, QuietStep DEF RosterTypes, Holds, Heard
<1>6. CASE ~(room.ended \/ (room.locked /\ Owner(x) \notin room.members))
  <2> DEFINE u == [T EXCEPT !.pc = "subscribe", !.on = room.locked]
  <2>1. tasks' = Goes(x, k, u) /\ tabs' = tabs
    BY <1>6 DEF Admit
  <2>2. u \in TaskType /\ u.pc = "subscribe" /\ u.op = T.op /\ u.mine = T.mine
    <3>1. "subscribe" \in Pcs /\ Operation("subscribe") = T.op /\ room.locked \in BOOLEAN
      BY <1>2, OperationIs DEF RosterTypes, JoinSteps
    <3> QED
      BY <1>2, <3>1 DEF TaskType
  <2> HIDE DEF u
  <2>3. TurnOk(x, {T}, {u}) /\ tasks' \in [Actors -> Seq(TaskType)]
    BY <1>1, <1>2, <2>1, <2>2, GoesOk
  <2>4. Undisturbed
    BY <1>2, <1>4, <2>1, Untold, SameTabs
  <2> QED
    BY <1>2, <1>4, <2>3, <2>4, QuietStep DEF RosterTypes, Holds, Heard
<1> QED
  BY <1>5, <1>6

\* Who is subscribed hears the room.
LEMMA SubscribeKeeps ==
    ASSUME RosterInv, NEW x \in Peers, NEW k, Subscribe(x, k)
    PROVE  RosterInv'
<1> DEFINE T == tasks[x][k]
           u == [T EXCEPT !.pc = "seat"]
<1>1. Runs(x, k, "subscribe")
  BY DEF Subscribe
<1>2. /\ RosterTypes /\ x \in Actors /\ x \notin Procs
      /\ T \in TaskType /\ T.op = Operation("subscribe") /\ T.pc = "subscribe"
      /\ \A t \in Tabs : tabs[t].online => Peer(t) \in up
  BY <1>1, PeerRuns
<1>3. /\ UNCHANGED <<seats, slot, room, up, inRoom, bus, alive, tabs, crossed>>
      /\ hears' = hears \union {x} /\ tasks' = Goes(x, k, u)
  BY DEF Subscribe, Goto
<1>4. u \in TaskType /\ u.pc = "seat" /\ u.op = T.op /\ u.mine = T.mine
  <2>1. "seat" \in Pcs /\ Operation("seat") = T.op
    BY <1>2, OperationIs DEF JoinSteps
  <2> QED
    BY <1>2, <2>1 DEF TaskType
<1> HIDE DEF u
<1>5. Heard(x)'
  BY <1>3 DEF Heard
<1>6. TurnOk(x, {T}, {u}) /\ tasks' \in [Actors -> Seq(TaskType)]
  BY <1>1, <1>2, <1>3, <1>4, <1>5, GoesOk
<1>7. Undisturbed
  BY <1>2, <1>3, Untold, SameTabs
<1> QED
  BY <1>2, <1>3, <1>6, <1>7, QuietStep DEF RosterTypes, Holds, Heard

\* Who takes over the seat of the previous tab is in the room.
LEMMA FreePreviousKeeps ==
    ASSUME RosterInv, NEW x \in Peers, NEW k, FreePrevious(x, k)
    PROVE  RosterInv'
<1> DEFINE T == tasks[x][k]
           u == [T EXCEPT !.pc = "record", !.peer = None]
           ms == Freed(T.peer) \o <<Except(Msg("left", T.peer, None), x)>>
<1>1. Runs(x, k, "freePrevious")
  BY DEF FreePrevious
<1>2. /\ RosterTypes /\ x \in Actors /\ x \notin Procs /\ Proc(x) \in Procs
      /\ T \in TaskType /\ T.op = Operation("freePrevious") /\ T.pc = "freePrevious" /\ T.peer \in Peers \union {None}
      /\ \A t \in Tabs : tabs[t].online => Peer(t) \in up
  BY <1>1, PeerRuns
<1>3. /\ UNCHANGED <<seats, room, up, alive>> /\ slot' \in {slot, None}
      /\ inRoom' = inRoom \union {x} /\ tasks' = Goes(x, k, u) /\ crossed \subseteq crossed'
      /\ Broadcast(Proc(x), ms)
  BY DEF FreePrevious, Frees, Crossed
<1>4. u \in TaskType /\ u.pc = "record" /\ u.op = T.op /\ u.mine = T.mine
  <2>1. "record" \in Pcs /\ Operation("record") = T.op
    BY <1>2, OperationIs DEF JoinSteps
  <2> QED
    BY <1>2, <2>1 DEF TaskType
<1>5. Plain(ms)
  <2>1. PICK m : m = Except(Msg("left", T.peer, None), x)
    OBVIOUS
  <2>2. m \in MsgType /\ m.ev = "left"
    BY <1>2, <2>1, MsgIs DEF Events
  <2>3. Plain(<<m>>)
    BY <2>2, PlainIs
  <2> QED
    BY <2>1, <2>3, PlainIs, FreedIs
<1> HIDE DEF u, ms
<1>6. TurnOk(x, {T}, {u}) /\ tasks' \in [Actors -> Seq(TaskType)]
  BY <1>1, <1>2, <1>3, <1>4, GoesOk
<1>7. Undisturbed /\ hears' = hears
  BY <1>2, <1>3, <1>5, PlainBroadcast, PlainHeard DEF Broadcast
<1> QED
  BY <1>2, <1>3, <1>6, <1>7, QuietStep DEF RosterTypes, Holds, Heard

\* Who is announced has nothing to do with what others are shown of the lock.
LEMMA RecordKeeps ==
    ASSUME RosterInv, NEW x \in Peers, NEW k, Record(x, k)
    PROVE  RosterInv'
<1> DEFINE T == tasks[x][k]
           u == [T EXCEPT !.pc = "list"]
           ms == IF T.peer = x THEN <<>> ELSE <<Except(Msg("joined", x, FALSE), x)>>
<1>1. Runs(x, k, "record")
  BY DEF Record
<1>2. /\ RosterTypes /\ x \in Actors /\ x \notin Procs /\ Proc(x) \in Procs
      /\ T \in TaskType /\ T.op = Operation("record") /\ T.pc = "record"
      /\ \A t \in Tabs : tabs[t].online => Peer(t) \in up
  BY <1>1, PeerRuns
<1>3. /\ UNCHANGED <<seats, slot, up, inRoom, alive>>
      /\ DOMAIN room' = DOMAIN room /\ room'.locked = room.locked /\ room'.ended = room.ended
      /\ tasks' = Goes(x, k, u) /\ crossed \subseteq crossed' /\ Broadcast(Proc(x), ms)
  BY <1>2 DEF Record, Goto, RosterTypes
<1>4. u \in TaskType /\ u.pc = "list" /\ u.op = T.op /\ u.mine = T.mine
  <2>1. "list" \in Pcs /\ Operation("list") = T.op
    BY <1>2, OperationIs DEF JoinSteps
  <2> QED
    BY <1>2, <2>1 DEF TaskType
<1>5. Plain(ms)
  <2>1. PICK m : m = Except(Msg("joined", x, FALSE), x)
    OBVIOUS
  <2>2. m \in MsgType /\ m.ev = "joined"
    BY <2>1 DEF Msg, Except, MsgType, Events
  <2>3. Plain(<<m>>)
    BY <2>2, PlainIs
  <2> QED
    BY <2>1, <2>3, PlainIs
<1> HIDE DEF u, ms
<1>6. TurnOk(x, {T}, {u}) /\ tasks' \in [Actors -> Seq(TaskType)]
  BY <1>1, <1>2, <1>3, <1>4, GoesOk
<1>7. Undisturbed /\ hears' = hears
  BY <1>2, <1>3, <1>5, PlainBroadcast, PlainHeard DEF Broadcast
<1> QED
  BY <1>2, <1>3, <1>6, <1>7, QuietStep DEF RosterTypes, Holds, Heard

\* Nor has who is listed.
LEMMA ListKeeps ==
    ASSUME RosterInv, NEW x \in Peers, NEW k, List(x, k)
    PROVE  RosterInv'
<1> DEFINE T == tasks[x][k]
           u == [T EXCEPT !.pc = "slot"]
<1>1. Runs(x, k, "list")
  BY DEF List
<1>2. /\ RosterTypes /\ x \in Actors /\ x \notin Procs /\ Proc(x) \in Procs
      /\ T \in TaskType /\ T.op = Operation("list") /\ T.pc = "list"
      /\ \A t \in Tabs : tabs[t].online => Peer(t) \in up
  BY <1>1, PeerRuns
<1>3. PICK m : m = Direct(Msg("participants", x, seats), x)
  OBVIOUS
<1>4. /\ UNCHANGED <<seats, slot, room, up, inRoom, hears, bus, alive, crossed>>
      /\ tasks' = Goes(x, k, u) /\ tabs' = Told(Proc(x), <<m>>)
  BY <1>3 DEF List, Goto
<1>5. u \in TaskType /\ u.pc = "slot" /\ u.op = T.op /\ u.mine = T.mine
  <2>1. "slot" \in Pcs /\ Operation("slot") = T.op
    BY <1>2, OperationIs DEF JoinSteps
  <2> QED
    BY <1>2, <2>1 DEF TaskType
<1> HIDE DEF u
<1>6. TurnOk(x, {T}, {u}) /\ tasks' \in [Actors -> Seq(TaskType)]
  BY <1>1, <1>2, <1>4, <1>5, GoesOk
<1>7. QuietTabs
  <2>1. m.ev = "participants"
    BY <1>3 DEF Direct, Msg
  <2>2. <<m>> \in Seq({m}) /\ \A i \in DOMAIN <<m>> : <<m>>[i].ev # "updated"
    BY <2>1
  <2> QED
    BY <1>2, <1>4, <2>2, PlainTold
<1>8. Undisturbed
  BY <1>4, <1>7, Untold
<1> QED
  BY <1>2, <1>4, <1>6, <1>8, QuietStep DEF RosterTypes, Holds, Heard

\* A tab that is told it is in.
LEMMA EnteredIs ==
    ASSUME NEW old, IsTab(old), NEW x, NEW T \in TaskType, NEW sharer, NEW tab, tab = Entered(old, x, T, sharer)
    PROVE  /\ IsTab(tab) /\ tab.n = old.n /\ tab.online = old.online /\ tab.open = old.open
           /\ tab.self = x /\ tab.locked = T.on
<1>1. old = [n |-> old.n, online |-> old.online, open |-> old.open, status |-> old.status, joined |-> old.joined,
             self |-> old.self, roster |-> old.roster, locked |-> old.locked, screen |-> old.screen,
             media |-> old.media, sharing |-> old.sharing]
  BY DEF IsTab
<1>2. PICK sharing : sharing = (old.sharing /\ old.self = x) /\ sharing \in BOOLEAN
  OBVIOUS
<1>3. tab = [old EXCEPT !.status = "joined", !.joined = TRUE, !.self = x, !.locked = T.on, !.screen = sharer, !.sharing = sharing]
  BY <1>1, <1>2 DEF Entered
<1>4. T.on \in BOOLEAN
  BY DEF TaskType
<1> QED
  BY <1>1, <1>2, <1>3, <1>4 DEF IsTab, Statuses

\* Who is told that they are in hears the room and has their seat, or is known not to.
LEMMA AnswerKeeps ==
    ASSUME RosterInv, NEW x \in Peers, NEW k, NEW pc \in {"slot", "holder"}, Runs(x, k, pc), NEW sharer, AnswerJoin(x, k, sharer)
    PROVE  RosterInv'
<1> DEFINE T == tasks[x][k]
<1>1. /\ RosterTypes /\ x \in Actors /\ x \notin Procs /\ Proc(x) \in Procs
      /\ k \in DOMAIN tasks[x] /\ T \in TaskType /\ T.op = Operation(pc) /\ T.pc = pc /\ T \in Has(x)
      /\ Awaited(T) <=> T.mine
      /\ Awaited(T) => Live(x)
      /\ \A t \in Tabs : tabs[t].online => Peer(t) \in up
  BY PeerRuns DEF JoinSteps
<1>2. /\ UNCHANGED <<seats, slot, room, up, inRoom, hears, bus, alive>> /\ crossed \subseteq crossed'
      /\ Holds(x) \/ <<"person", Owner(x)>> \in crossed'
      /\ T.on = room.locked \/ <<"locked", x[1]>> \in crossed'
  BY DEF AnswerJoin
<1>3. x[1] \in Tabs
  BY Owners
<1>4. CASE ~T.mine
  <2>1. tabs' = tabs /\ tasks' = Finished(x, k)
    BY <1>4 DEF AnswerJoin, Finish
  <2>2. TurnOk(x, {T}, {}) /\ tasks' \in [Actors -> Seq(TaskType)]
    BY <1>1, <1>4, <2>1, FinishOk
  <2>3. Undisturbed
    BY <1>1, <1>2, <2>1, Untold, SameTabs
  <2> QED
    BY <1>1, <1>2, <2>2, <2>3, QuietStep DEF RosterTypes, Holds, Heard
<1>5. CASE T.mine
  <2> DEFINE tab == Entered(tabs[x[1]], x, T, sharer)
  <2>1. /\ tabs' = [tabs EXCEPT ![x[1]] = tab]
        /\ tasks' = Finished(x, k) \/ tasks' = [Finished(x, k) EXCEPT ![x] = Append(@, Task("media", "media", tabs[x[1]].media))]
    BY <1>5 DEF AnswerJoin
  <2>2. Live(x) /\ Peer(x[1]) = x
    BY <1>1, <1>5 DEF Live
  <2>3. IsTab(tabs[x[1]])
    BY <1>1, <1>3 DEF RosterTypes
  <2>4. /\ IsTab(tab) /\ tab.n = tabs[x[1]].n /\ tab.online = tabs[x[1]].online /\ tab.open = tabs[x[1]].open
        /\ tab.self = x /\ tab.locked = T.on
    BY <1>1, <2>3, EnteredIs
  <2> HIDE DEF tab
  <2>5. \E N : Turns(x, {T}, N) /\ (\A u \in N : u.op = "media") /\ tasks' \in [Actors -> Seq(TaskType)]
    <3>1. tasks \in [Actors -> Seq(TaskType)]
      BY <1>1 DEF RosterTypes
    <3>2. CASE tasks' = Finished(x, k)
      <4>1. Turns(x, {T}, {}) /\ tasks' \in [Actors -> Seq(TaskType)]
        BY <1>1, <3>1, <3>2, FinishedTurns
      <4> QED
        BY <4>1
    <3>3. CASE tasks' = [Finished(x, k) EXCEPT ![x] = Append(@, Task("media", "media", tabs[x[1]].media))]
      <4>1. PICK u : u = Task("media", "media", tabs[x[1]].media)
        OBVIOUS
      <4>2. u \in TaskType /\ u.op = "media"
        BY <2>3, <4>1, OperationIs DEF IsTab, Task, TaskType, Pcs, Ops
      <4>3. Turns(x, {T}, {u}) /\ tasks' \in [Actors -> Seq(TaskType)]
        BY <1>1, <3>1, <3>3, <4>1, <4>2, FinishedAppends
      <4> QED
        BY <4>2, <4>3
    <3> QED
      BY <2>1, <3>2, <3>3
  <2>6. PICK N : Turns(x, {T}, N) /\ (\A u \in N : u.op = "media")
    BY <2>5
  <2>7. ASSUME NEW t \in Tabs
        PROVE  /\ tabs'[t].n = tabs[t].n /\ tabs'[t].online = tabs[t].online /\ tabs'[t].open = tabs[t].open
               /\ IsTab(tabs'[t]) /\ Peer(t)' = Peer(t) /\ Peer(t) \in Peers
               /\ t # x[1] => tabs'[t] = tabs[t] /\ Peer(t) # x /\ (Fresh(t)' <=> Fresh(t)) /\ (Shows(t)' <=> Shows(t))
               /\ t = x[1] => tabs'[t].self = x /\ tabs'[t].locked = T.on
    BY <1>1, <1>3, <2>1, <2>2, <2>4 DEF RosterTypes, Peer, Fresh, Shows
  <2>8. RosterTypes'
    BY <1>1, <1>2, <2>1, <2>5, <2>7 DEF RosterTypes
  <2>9. RosterTypes /\ SocketsInv /\ EndOk /\ BusInv /\ ShownInv /\ LockInv
    BY DEF RosterInv
  <2>10. Peers \subseteq Actors /\ Procs \subseteq Actors
    BY DEF Actors
  <2>11. ASSUME NEW b \in Actors, NEW u \in Has(b)' PROVE u \in Has(b) \/ (b = x /\ u.op = "media")
    BY <2>6, <2>11 DEF Turns
  <2>12. SocketsInv'
    <3>1. ASSUME NEW y \in Peers, Has(y)' # {} PROVE Has(y) # {} \/ y \in up
      BY <1>1, <2>10, <2>11, <3>1
    <3>2. ASSUME NEW y \in Peers, NEW t \in Has(y)'
          PROVE  /\ Awaited(t) => \E s \in Has(y) : Awaited(s)
                 /\ t.op = "leave" => ~Live(y) \/ \E s \in Has(y) : s.op = "leave"
      BY <2>10, <2>11, <3>2 DEF Awaited
    <3>3. \A t \in Tabs : /\ tabs'[t].n = tabs[t].n /\ tabs'[t].online = tabs[t].online /\ tabs'[t].open = tabs[t].open
                          /\ tabs'[t].self \in {tabs[t].self, Peer(t)}
                          /\ tabs[t].online => Peer(t) \in up'
      BY <1>1, <1>2, <2>2, <2>7
    <3>4. ASSUME NEW t \in Tabs, Shows(t)', tabs'[t].self # Peer(t)
          PROVE  Shows(t) /\ tabs[t].self # Peer(t)
                 /\ ((\E s \in Has(Peer(t)) : Awaited(s)) => \E s \in Has(Peer(t))' : Awaited(s))
      <4>1. t # x[1]
        BY <2>2, <2>7, <3>4
      <4>2. PICK y \in Peers : y = Peer(t)
        BY <2>7
      <4>3. y # x /\ Has(y)' = Has(y) /\ Has(Peer(t))' = Has(y)'
        <5>1. y # x /\ y = Peer(t)' /\ y \in Actors
          BY <2>7, <2>10, <4>1, <4>2
        <5>2. Has(y)' = Has(y)
          BY <2>6, <5>1 DEF Turns
        <5>3. Has(Peer(t))' = Has(y)'
          BY <5>1 DEF Has
        <5> QED
          BY <5>1, <5>2, <5>3
      <4> QED
        BY <2>7, <3>4, <4>1, <4>2, <4>3
    <3> QED
      BY <1>2, <2>9, <3>1, <3>2, <3>3, <3>4, SocketsKept
  <2>13. EndOk'
    BY <1>1, <1>2, <2>9, <2>10, <2>11 DEF EndOk
  <2>14. BusInv'
    BY <1>2, <2>9 DEF BusInv, BatchOk
  <2>15. ShownInv'
    <3>1. CASE room'.ended
      BY <3>1 DEF ShownInv
    <3>2. CASE ~room'.ended
      <4>1. ASSUME NEW t \in Tabs, Fresh(t)' PROVE ShownOk(t)' \/ (Fresh(t) /\ Peer(t)' = Peer(t))
        <5>1. CASE t # x[1]
          BY <2>7, <4>1, <5>1
        <5>2. CASE t = x[1]
          <6>1. Heard(x) /\ x \in inRoom
            BY <1>1, <1>2, <1>5, <2>9, <3>2 DEF ShownInv, JoinOk
          <6>2. Holds(x)' \/ <<"person", PersonOf[t]>> \in crossed'
            BY <1>2, <5>2 DEF Holds, Owner
          <6>3. Peer(t)' = x
            BY <2>2, <2>7, <5>2
          <6>4. ShownOk(t)'
            BY <1>2, <6>1, <6>2, <6>3 DEF ShownOk, Heard, Holds, Owner
          <6> QED
            BY <6>4
        <5> QED
          BY <5>1, <5>2
      <4>2. ASSUME NEW y \in Peers, NEW t \in Has(y)', Awaited(t), t.pc \notin {"admit", "subscribe"}
            PROVE  \E s \in Has(y) : /\ Awaited(s) /\ s.pc \notin {"admit", "subscribe"}
                                     /\ t.pc \notin {"seat", "freePrevious"} => s.pc \notin {"seat", "freePrevious"} \/ y \in inRoom'
        BY <2>10, <2>11, <4>2 DEF Awaited
      <4>3. ASSUME NEW y \in Peers
            PROVE  /\ y \in inRoom => y \in inRoom'
                   /\ y \in hears => Heard(y)'
                   /\ Holds(y) => Holds(y)'
                   /\ PutOut(y) => PutOut(y)'
        BY <1>2 DEF Heard, Holds, PutOut, Coming
      <4> QED
        BY <1>2, <2>9, <4>1, <4>2, <4>3, ShownKept
    <3> QED
      BY <3>1, <3>2
  <2>16. LockInv'
    <3>1. Requests' = Requests /\ Updates' = Updates
      BY <1>1, <1>2, <2>6, SameRequests DEF Updates, Coming
    <3>2. ASSUME NEW t \in Tabs, Fresh(t)'
          PROVE  \/ tabs'[t].locked = room.locked \/ <<"locked", t>> \in crossed'
                 \/ /\ Fresh(t) /\ Peer(t)' = Peer(t) /\ tabs'[t].locked = tabs[t].locked
                    /\ \A m \in Coming(Proc(Peer(t))) : m.ev = "updated" => m \in Coming(Proc(Peer(t)))'
      <4>1. CASE t = x[1]
        BY <1>2, <2>7, <4>1
      <4>2. CASE t # x[1]
        <5>1. Coming(Proc(Peer(t)))' = Coming(Proc(Peer(t)))
          BY <1>2, <2>7 DEF Coming, Proc
        <5> QED
          BY <2>7, <3>2, <4>2, <5>1
      <4> QED
        BY <4>1, <4>2
    <3> QED
      BY <1>2, <2>9, <3>1, <3>2, LockKept
  <2> QED
    BY <2>8, <2>12, <2>13, <2>14, <2>15, <2>16 DEF RosterInv
<1> QED
  BY <1>4, <1>5

\* The slot is read, and the answer is given, or who holds the slot looked up.
LEMMA ReadSlotKeeps ==
    ASSUME RosterInv, NEW x \in Peers, NEW k, ReadSlot(x, k)
    PROVE  RosterInv'
<1>1. Runs(x, k, "slot")
  BY DEF ReadSlot
<1>2. CASE slot = None
  <2>1. AnswerJoin(x, k, None)
    BY <1>2 DEF ReadSlot
  <2> QED
    BY <1>1, <2>1, AnswerKeeps
<1>3. CASE slot # None
  <2> DEFINE T == tasks[x][k]
             u == [T EXCEPT !.pc = "holder", !.peer = slot]
  <2>1. /\ RosterTypes /\ x \in Actors /\ x \notin Procs
        /\ T \in TaskType /\ T.op = Operation("slot") /\ T.pc = "slot"
        /\ \A t \in Tabs : tabs[t].online => Peer(t) \in up
    BY <1>1, PeerRuns
  <2>2. tasks' = Goes(x, k, u) /\ UNCHANGED <<seats, slot, room, up, inRoom, hears, bus, alive, tabs, crossed>>
    BY <1>3 DEF ReadSlot
  <2>3. u \in TaskType /\ u.pc = "holder" /\ u.op = T.op /\ u.mine = T.mine
    <3>1. "holder" \in Pcs /\ Operation("holder") = T.op /\ slot \in Peers \union {None}
      BY <2>1, OperationIs DEF JoinSteps, RosterTypes
    <3> QED
      BY <2>1, <3>1 DEF TaskType
  <2> HIDE DEF u
  <2>4. TurnOk(x, {T}, {u}) /\ tasks' \in [Actors -> Seq(TaskType)]
    BY <1>1, <2>1, <2>2, <2>3, GoesOk
  <2>5. Undisturbed
    BY <2>1, <2>2, Untold, SameTabs
  <2> QED
    BY <2>1, <2>2, <2>4, <2>5, QuietStep DEF RosterTypes, Holds, Heard
<1> QED
  BY <1>2, <1>3

\* Then the answer is given.
LEMMA ReadHolderKeeps ==
    ASSUME RosterInv, NEW x \in Peers, NEW k, ReadHolder(x, k)
    PROVE  RosterInv'
<1>1. Runs(x, k, "holder")
  BY DEF ReadHolder
<1>2. PICK sharer : AnswerJoin(x, k, sharer)
  BY DEF ReadHolder
<1> QED
  BY <1>1, <1>2, AnswerKeeps

\* Who loses their seat to another tab is told; and who is entering is known to be deaf.
LEMMA TakeSeatKeeps ==
    ASSUME RosterInv, NEW x \in Peers, NEW k, TakeSeat(x, k)
    PROVE  RosterInv'
<1> DEFINE T == tasks[x][k]
           before == seats[Owner(x)]
           p == Proc(x)
<1>1. Runs(x, k, "seat")
  BY DEF TakeSeat
<1>2. /\ RosterTypes /\ x \in Actors /\ x \notin Procs /\ p \in Procs
      /\ T \in TaskType /\ T.op = Operation("seat") /\ T.pc = "seat"
      /\ \A t \in Tabs : tabs[t].online => Peer(t) \in up
  BY <1>1, PeerRuns
<1>3. /\ Owner(x) \in People /\ before \in SeatType \union {None}
  BY <1>2, Owners DEF RosterTypes
<1>4. /\ UNCHANGED <<slot, room, up, alive>>
      /\ seats' = [seats EXCEPT ![Owner(x)] = [peer |-> x, media |-> FALSE]]
      /\ seats' \in [People -> SeatType \union {None}]
  BY <1>2, <1>3 DEF TakeSeat, RosterTypes, SeatType
<1>5. ASSUME NEW y \in Peers, Holds(y) PROVE Holds(y)' \/ (before # None /\ y = before.peer /\ y # x)
  <2>1. CASE Owner(y) = Owner(x)
    <3>0. PICK seat : seat = [peer |-> x, media |-> FALSE]
      OBVIOUS
    <3>1. seat \in [peer : Peers, media : BOOLEAN] /\ seat.peer = x
      BY <3>0
    <3>2. seat # None
      BY <3>1, RosterAssumption DEF RosterAssumption
    <3>3. seats'[Owner(x)] = seat
      BY <1>2, <1>3, <1>4, <3>0 DEF RosterTypes
    <3> QED
      BY <1>5, <2>1, <3>1, <3>2, <3>3 DEF Holds
  <2>2. CASE Owner(y) # Owner(x)
    BY <1>2, <1>4, <1>5, <2>2, Owners DEF Holds, RosterTypes
  <2> QED
    BY <2>1, <2>2
<1>6. CASE before = None \/ before.peer = x
  <2> DEFINE u == [T EXCEPT !.pc = "record", !.peer = IF before = None THEN None ELSE x]
  <2>1. UNCHANGED <<tabs, hears, bus, crossed>> /\ inRoom' = inRoom \union {x} /\ tasks' = Goes(x, k, u)
    BY <1>6 DEF TakeSeat
  <2>2. u \in TaskType /\ u.pc = "record" /\ u.op = T.op /\ u.mine = T.mine
    <3>1. "record" \in Pcs /\ Operation("record") = T.op
      BY <1>2, OperationIs DEF JoinSteps
    <3> QED
      BY <1>2, <3>1 DEF TaskType
  <2> HIDE DEF u
  <2>3. Awaited(T) => Heard(x)' \/ room.ended
    <3>1. Awaited(T) /\ ~room.ended => Heard(x)
      BY <1>1, <1>2, PeerRuns DEF RosterInv, ShownInv, JoinOk
    <3> QED
      BY <2>1, <3>1 DEF Heard
  <2>4. TurnOk(x, {T}, {u}) /\ tasks' \in [Actors -> Seq(TaskType)]
    BY <1>1, <1>2, <2>1, <2>2, GoesOk
  <2>5. Undisturbed
    BY <1>2, <2>1, Untold, SameTabs
  <2> QED
    BY <1>2, <1>4, <1>5, <1>6, <2>1, <2>4, <2>5, QuietStep DEF RosterTypes, Heard
<1>7. CASE ~(before = None \/ before.peer = x)
  <2> DEFINE y == before.peer
             ms == <<Direct(Msg("displaced", x, None), y), Direct(Msg("unhear", x, None), y)>>
             u == [T EXCEPT !.pc = "freePrevious", !.peer = y]
  <2>0. y \in Peers /\ y # x
    BY <1>3, <1>7 DEF SeatType
  <2>1. UNCHANGED inRoom /\ tasks' = Goes(x, k, u) /\ Broadcast(p, ms) /\ crossed' = crossed \union Deaf(p, ms)
    BY <1>7 DEF TakeSeat
  <2>2. u \in TaskType /\ u.pc = "freePrevious" /\ u.op = T.op /\ u.mine = T.mine
    <3>1. "freePrevious" \in Pcs /\ Operation("freePrevious") = T.op
      BY <1>2, OperationIs DEF JoinSteps
    <3> QED
      BY <1>2, <2>0, <3>1 DEF TaskType
  <2>3. /\ ms \in Seq(MsgType) /\ DOMAIN ms = {1, 2} /\ ms[1].ev = "displaced" /\ ms[2].ev = "unhear"
        /\ ms[1].to = y /\ ms[2].to = y /\ ms[1].but = None /\ ms[2].but = None
    <3>1. \A ev \in Events : LET m == Direct(Msg(ev, x, None), y) IN m \in MsgType /\ m.ev = ev /\ m.to = y /\ m.but = None
      BY <2>0 DEF Direct, Msg, MsgType
    <3>2. PICK m1, m2 : m1 = Direct(Msg("displaced", x, None), y) /\ m2 = Direct(Msg("unhear", x, None), y)
      OBVIOUS
    <3>3. m1 \in MsgType /\ m2 \in MsgType /\ m1.ev = "displaced" /\ m2.ev = "unhear" /\ m1.to = y /\ m2.to = y /\ m1.but = None /\ m2.but = None
      BY <3>1, <3>2 DEF Events
    <3>4. ms = <<m1, m2>>
      BY <3>2
    <3> HIDE DEF ms, y
    <3> QED
      BY <3>3, <3>4
  <2> HIDE DEF u, ms, y
  <2>4. BatchOk(ms) /\ \A i \in DOMAIN ms : ms[i].ev # "updated"
    BY <2>3 DEF BatchOk
  <2>5. TurnOk(x, {T}, {u}) /\ tasks' \in [Actors -> Seq(TaskType)]
    BY <1>1, <1>2, <2>1, <2>2, GoesOk
  <2>6. tabs' = Told(p, ms) /\ hears' = hears \ Deafened(p, ms) /\ Publish(p, ms)
    BY <2>1 DEF Broadcast
  <2>7. Undisturbed
    BY <1>2, <2>3, <2>4, <2>6, Announced
  <2>8. ASSUME NEW z \in Peers, Live(z), z \in hears PROVE Heard(z)' \/ (~Joining(z) /\ tabs'[z[1]].status # "joined")
    <3>1. CASE z \notin Deafened(p, ms)
      BY <2>6, <2>8, <3>1 DEF Heard
    <3>2. CASE z \in Deafened(p, ms) /\ Joining(z)
      BY <2>1, <3>2 DEF Heard, Deaf
    <3>3. CASE z \in Deafened(p, ms) /\ ~Joining(z)
      BY <2>3, <2>4, <2>6, <2>8, <3>3, DeafenedOut
    <3> QED
      BY <3>1, <3>2, <3>3
  <2>9. ASSUME NEW z \in Peers, Live(z), Holds(z) PROVE Holds(z)' \/ PutOut(z)' \/ tabs'[z[1]].status # "joined"
    <3>1. CASE z # y
      BY <1>5, <2>9, <3>1 DEF y
    <3>2. CASE z = y /\ Proc(z) = p
      <4>1. z[1] \in Tabs /\ Peer(z[1]) = z /\ z \in up
        BY <1>2, <2>9, Owners DEF Live
      <4>2. Reaches(ms[1], z[1], p)
        BY <2>3, <2>9, <3>2, <4>1, Distinct DEF Reaches, Live
      <4> QED
        BY <1>2, <2>3, <2>4, <2>6, <4>1, <4>2, ToldIs
    <3>3. CASE z = y /\ Proc(z) # p
      <4>1. Proc(z) \in alive /\ Proc(z) \in Procs
        BY <2>9, Owners, Processes DEF Live, RosterInv, SocketsInv, TabOk, Actors
      <4>2. ms[1] \in Coming(Proc(z))'
        BY <1>2, <2>3, <2>6, <3>3, <4>1, PublishIs DEF RosterTypes
      <4>3. PutOut(z)'
        <5>1. Proc(z)' = Proc(z)
          BY DEF Proc
        <5> QED
          BY <2>3, <3>3, <4>2, <5>1 DEF PutOut
      <4> QED
        BY <4>3
    <3> QED
      BY <3>1, <3>2, <3>3
  <2> QED
    BY <1>2, <1>4, <2>1, <2>5, <2>6, <2>7, <2>8, <2>9, QuietStep DEF RosterTypes, Deafened
<1> QED
  BY <1>6, <1>7

-----------------------------------------------------------------------------
(* leaveCurrentRoom, and disconnecting.                                    *)

\* Tasks as they are.
LEMMA SameTasks ==
    ASSUME RosterTypes, NEW a \in Actors, tasks' = tasks
    PROVE  TurnOk(a, {}, {}) /\ tasks' \in [Actors -> Seq(TaskType)]
BY DEF RosterTypes, TurnOk, HandsOn, Turns, Has

\* Only closed pages leave.
LEMMA LeaveStartKeeps ==
    ASSUME RosterInv, NEW x \in Peers, NEW k, LeaveStart(x, k)
    PROVE  RosterInv'
<1> DEFINE T == tasks[x][k]
           u == [T EXCEPT !.pc = "free"]
<1>1. Runs(x, k, "leave")
  BY DEF LeaveStart
<1>2. /\ RosterTypes /\ x \in Actors /\ x \notin Procs /\ ~Live(x)
      /\ T \in TaskType /\ T.op = Operation("leave") /\ T.pc = "leave" /\ ~Awaited(T)
      /\ \A t \in Tabs : tabs[t].online => Peer(t) \in up
  BY <1>1, PeerRuns DEF LeaveSteps, JoinSteps
<1>3. /\ UNCHANGED <<seats, slot, room, up, bus, alive, tabs, crossed>>
      /\ inRoom' \subseteq inRoom /\ inRoom \ {x} \subseteq inRoom' /\ hears' \subseteq hears /\ hears \ {x} \subseteq hears'
      /\ tasks' = Goes(x, k, u) \/ tasks' = Finished(x, k)
  BY DEF LeaveStart, Goto, Finish
<1>4. u \in TaskType /\ u.pc = "free" /\ u.op = T.op /\ u.mine = T.mine
  <2>1. "free" \in Pcs /\ Operation("free") = T.op
    BY <1>2, OperationIs DEF LeaveSteps
  <2> QED
    BY <1>2, <2>1 DEF TaskType
<1> HIDE DEF u
<1>5. \E N : TurnOk(x, {T}, N) /\ tasks' \in [Actors -> Seq(TaskType)]
  <2>1. CASE tasks' = Goes(x, k, u)
    BY <1>1, <1>2, <1>4, <2>1, GoesOk
  <2>2. CASE tasks' = Finished(x, k)
    BY <1>1, <1>2, <2>2, FinishOk
  <2> QED
    BY <1>3, <2>1, <2>2
<1>6. Undisturbed
  BY <1>2, <1>3, Untold, SameTabs
<1> QED
  BY <1>2, <1>3, <1>5, <1>6, QuietStep DEF RosterTypes, Holds, Heard

\* Only connections that are gone are given up.
LEMMA DisconnectingKeeps ==
    ASSUME RosterInv, NEW x \in Peers, Disconnecting(x)
    PROVE  RosterInv'
<1>1. /\ RosterTypes /\ x \in Actors /\ x \notin Procs /\ ~Live(x) /\ x \in up
      /\ \A t \in Tabs : tabs[t].online => Peer(t) \in up \ {x}
  <2>1. x \in up /\ ~(tabs[x[1]].online /\ Peer(x[1]) = x) /\ RosterTypes /\ SocketsInv
    BY DEF Disconnecting, RosterInv
  <2>2. ASSUME NEW t \in Tabs, tabs[t].online PROVE Peer(t) \in up \ {x}
    <3>1. Peer(t) # x
      BY <2>1, <2>2 DEF Peer
    <3> QED
      BY <2>1, <2>2, <3>1 DEF SocketsInv, TabOk
  <2> QED
    BY <2>1, <2>2, Distinct DEF Actors, Live
<1>2. /\ UNCHANGED <<seats, slot, room, bus, alive, tabs, crossed>>
      /\ inRoom' = inRoom \ {x} /\ hears' = hears \ {x} /\ up' = up \ {x}
      /\ tasks' = tasks \/ tasks' = [tasks EXCEPT ![x] = Append(@, Task("leave", "free", FALSE))]
  BY DEF Disconnecting
<1>3. PICK u : u = Task("leave", "free", FALSE)
  OBVIOUS
<1>4. u \in TaskType /\ u.op = "leave"
  BY <1>3, OperationIs DEF Task, TaskType, Pcs, Ops, LeaveSteps
<1>5. \E N : TurnOk(x, {}, N) /\ tasks' \in [Actors -> Seq(TaskType)]
  <2>1. CASE tasks' = tasks
    BY <1>1, <2>1, SameTasks
  <2>2. CASE tasks' = [tasks EXCEPT ![x] = Append(@, u)]
    BY <1>1, <1>4, <2>2, AddOk DEF Awaited
  <2> QED
    BY <1>2, <1>3, <2>1, <2>2
<1>6. Undisturbed
  BY <1>1, <1>2, Untold, SameTabs
<1> QED
  BY <1>1, <1>2, <1>5, <1>6, QuietStep DEF RosterTypes, Holds, Heard

\* The slot of who leaves is freed, and the room told.
LEMMA LeaveFreeKeeps ==
    ASSUME RosterInv, NEW x \in Peers, NEW k, LeaveFree(x, k)
    PROVE  RosterInv'
<1> DEFINE T == tasks[x][k]
           u == [T EXCEPT !.pc = "unseat"]
<1>1. Runs(x, k, "free")
  BY DEF LeaveFree
<1>2. /\ RosterTypes /\ x \in Actors /\ x \notin Procs /\ Proc(x) \in Procs
      /\ T \in TaskType /\ T.op = Operation("free") /\ T.pc = "free" /\ ~Awaited(T)
      /\ \A t \in Tabs : tabs[t].online => Peer(t) \in up
  BY <1>1, PeerRuns DEF JoinSteps
<1>3. /\ UNCHANGED <<seats, room, up, inRoom, alive>> /\ slot' \in {slot, None}
      /\ tasks' = Goes(x, k, u) /\ crossed \subseteq crossed' /\ Broadcast(Proc(x), Freed(x))
  BY DEF LeaveFree, Frees, Crossed, Goto
<1>4. u \in TaskType /\ u.pc = "unseat" /\ u.op = T.op /\ u.mine = T.mine
  <2>1. "unseat" \in Pcs /\ Operation("unseat") = T.op
    BY <1>2, OperationIs DEF LeaveSteps
  <2> QED
    BY <1>2, <2>1 DEF TaskType
<1> HIDE DEF u
<1>5. TurnOk(x, {T}, {u}) /\ tasks' \in [Actors -> Seq(TaskType)]
  BY <1>1, <1>2, <1>3, <1>4, GoesOk
<1>6. Undisturbed /\ hears' = hears
  BY <1>2, <1>3, FreedIs, PlainBroadcast, PlainHeard DEF Broadcast
<1> QED
  BY <1>2, <1>3, <1>5, <1>6, QuietStep DEF RosterTypes, Holds, Heard

\* Who leaves is shown the meeting no more when their seat is removed.
LEMMA LeaveUnseatKeeps ==
    ASSUME RosterInv, NEW x \in Peers, NEW k, LeaveUnseat(x, k)
    PROVE  RosterInv'
<1> DEFINE T == tasks[x][k]
           ms == IF Holds(x) THEN <<Msg("left", x, None)>> ELSE <<>>
<1>1. Runs(x, k, "unseat")
  BY DEF LeaveUnseat
<1>2. /\ RosterTypes /\ x \in Actors /\ x \notin Procs /\ Proc(x) \in Procs /\ ~Live(x)
      /\ T \in TaskType /\ ~Awaited(T)
      /\ \A t \in Tabs : tabs[t].online => Peer(t) \in up
  BY <1>1, PeerRuns DEF JoinSteps, LeaveSteps
<1>3. /\ UNCHANGED <<slot, room, up, inRoom, alive>>
      /\ seats' = IF Holds(x) THEN [seats EXCEPT ![Owner(x)] = None] ELSE seats
      /\ tasks' = Finished(x, k) /\ crossed \subseteq crossed' /\ Broadcast(Proc(x), ms)
  BY DEF LeaveUnseat, Crossed, Finish
<1>4. Plain(ms)
  <2>1. PICK m : m = Msg("left", x, None)
    OBVIOUS
  <2>2. m \in MsgType /\ m.ev = "left"
    BY <2>1 DEF Msg, MsgType, Events
  <2>3. Plain(<<m>>) /\ (ms = <<>> \/ ms = <<m>>)
    BY <2>1, <2>2, PlainIs
  <2> HIDE DEF ms
  <2> QED
    BY <2>3, PlainIs
<1> HIDE DEF ms
<1>5. TurnOk(x, {T}, {}) /\ tasks' \in [Actors -> Seq(TaskType)]
  BY <1>1, <1>2, <1>3, FinishOk
<1>6. Undisturbed /\ hears' = hears
  BY <1>2, <1>3, <1>4, PlainBroadcast, PlainHeard DEF Broadcast
<1>7. seats' \in [People -> SeatType \union {None}]
  BY <1>2, <1>3 DEF RosterTypes
<1>8. ASSUME NEW y \in Peers, y # x, Holds(y) PROVE Holds(y)'
  BY <1>2, <1>3, <1>8, Owners DEF Holds, RosterTypes
<1> QED
  BY <1>2, <1>3, <1>5, <1>6, <1>7, <1>8, QuietStep DEF RosterTypes, Heard

-----------------------------------------------------------------------------
(* media:state, screen:claim and screen:release.                           *)

\* Asking socket.data changes nothing.
LEMMA AskKeeps ==
    ASSUME RosterInv, NEW x \in Peers, NEW k, Ask(x, k)
    PROVE  RosterInv'
<1> DEFINE T == tasks[x][k]
<1>1. PICK ask \in {<<"media", "setMedia">>, <<"share", "claim">>, <<"stop", "release">>} :
        /\ Runs(x, k, ask[1])
        /\ IF Known(x) THEN Goto(x, k, ask[2]) ELSE Finish(x, k)
        /\ UNCHANGED <<seats, slot, room, up, inRoom, hears, bus, alive, tabs, todo, crossed>>
  BY DEF Ask
<1>2. /\ ask[1] \notin JoinSteps /\ Operation(ask[1]) = Operation(ask[2]) /\ ask[2] \in Pcs
      /\ ask[2] \notin LockSteps \union EndSteps
  BY OperationIs DEF JoinSteps, Pcs, LockSteps, EndSteps
<1>3. /\ RosterTypes /\ x \in Actors /\ x \notin Procs
      /\ T \in TaskType /\ T.op = Operation(ask[1]) /\ T.pc = ask[1] /\ ~Awaited(T)
      /\ \A t \in Tabs : tabs[t].online => Peer(t) \in up
  BY <1>1, <1>2, PeerRuns
<1> DEFINE u == [T EXCEPT !.pc = ask[2]]
<1>4. tasks' = Goes(x, k, u) \/ tasks' = Finished(x, k)
  BY <1>1 DEF Goto, Finish
<1>5. u \in TaskType /\ u.pc = ask[2] /\ u.op = T.op /\ u.mine = T.mine
  BY <1>2, <1>3 DEF TaskType
<1> HIDE DEF u
<1>6. \E N : TurnOk(x, {T}, N) /\ tasks' \in [Actors -> Seq(TaskType)]
  <2>1. CASE tasks' = Goes(x, k, u)
    BY <1>1, <1>3, <1>5, <2>1, GoesOk
  <2>2. CASE tasks' = Finished(x, k)
    BY <1>1, <1>3, <2>2, FinishOk
  <2> QED
    BY <1>4, <2>1, <2>2
<1>7. Undisturbed
  BY <1>1, <1>3, Untold, SameTabs
<1> QED
  BY <1>1, <1>3, <1>6, <1>7, QuietStep DEF RosterTypes, Holds, Heard

\* Seats stay with their peers.
LEMMA SetMediaKeeps ==
    ASSUME RosterInv, NEW x \in Peers, NEW k, SetMedia(x, k)
    PROVE  RosterInv'
<1> DEFINE T == tasks[x][k]
           ms == IF Holds(x) THEN <<Except(Msg("media", x, T.on), x)>> ELSE <<>>
<1>1. Runs(x, k, "setMedia")
  BY DEF SetMedia
<1>2. /\ RosterTypes /\ x \in Actors /\ x \notin Procs /\ Proc(x) \in Procs
      /\ T \in TaskType /\ ~Awaited(T) /\ T.on \in BOOLEAN
      /\ \A t \in Tabs : tabs[t].online => Peer(t) \in up
  BY <1>1, PeerRuns DEF JoinSteps
<1>3. /\ UNCHANGED <<slot, room, up, inRoom, alive, crossed>>
      /\ seats' = IF Holds(x) THEN [seats EXCEPT ![Owner(x)].media = T.on] ELSE seats
      /\ tasks' = Finished(x, k) /\ Broadcast(Proc(x), ms)
  BY DEF SetMedia, Finish
<1>4. Plain(ms)
  <2>1. PICK m : m = Except(Msg("media", x, T.on), x)
    OBVIOUS
  <2>2. m \in MsgType /\ m.ev = "media"
    BY <1>2, <2>1 DEF Except, Msg, MsgType, Events
  <2>3. Plain(<<m>>) /\ (ms = <<>> \/ ms = <<m>>)
    BY <2>1, <2>2, PlainIs
  <2> HIDE DEF ms
  <2> QED
    BY <2>3, PlainIs
<1> HIDE DEF ms
<1>5. TurnOk(x, {T}, {}) /\ tasks' \in [Actors -> Seq(TaskType)]
  BY <1>1, <1>2, <1>3, FinishOk
<1>6. Undisturbed /\ hears' = hears
  BY <1>2, <1>3, <1>4, PlainBroadcast, PlainHeard DEF Broadcast
<1>7. seats' \in [People -> SeatType \union {None}] /\ \A y \in Peers : Holds(y) => Holds(y)'
  <2>1. CASE ~Holds(x)
    BY <1>2, <1>3, <2>1 DEF RosterTypes, Holds
  <2>2. CASE Holds(x)
    <3>1. PICK seat : seat = [seats[Owner(x)] EXCEPT !.media = T.on]
      OBVIOUS
    <3>2. Owner(x) \in People /\ seats[Owner(x)] \in SeatType
      BY <1>2, <2>2, Owners DEF Holds, RosterTypes
    <3>3. seat \in SeatType /\ seat.peer = seats[Owner(x)].peer
      BY <1>2, <3>1, <3>2 DEF SeatType
    <3>4. seat # None
      BY <3>3, RosterAssumption DEF SeatType, RosterAssumption
    <3>5. seats' = [seats EXCEPT ![Owner(x)] = seat]
      BY <1>2, <1>3, <2>2, <3>1 DEF RosterTypes
    <3> QED
      BY <1>2, <3>2, <3>3, <3>4, <3>5, Owners DEF RosterTypes, Holds
  <2> QED
    BY <2>1, <2>2
<1> QED
  BY <1>2, <1>3, <1>5, <1>6, <1>7, QuietStep DEF RosterTypes, Heard

\* A tab that presents is shown the meeting as before.
LEMMA ClaimKeeps ==
    ASSUME RosterInv, NEW x \in Peers, NEW k, Claim(x, k)
    PROVE  RosterInv'
<1> DEFINE T == tasks[x][k]
           busy == slot # None /\ slot # x /\ Holds(slot)
<1>1. Runs(x, k, "claim")
  BY DEF Claim
<1>2. /\ RosterTypes /\ x \in Actors /\ x \notin Procs /\ Proc(x) \in Procs
      /\ T \in TaskType /\ ~Awaited(T)
      /\ \A t \in Tabs : tabs[t].online => Peer(t) \in up
  BY <1>1, PeerRuns DEF JoinSteps
<1>3. PICK m : m = Msg("screen", x, None)
  OBVIOUS
<1>4. /\ UNCHANGED <<seats, room, up, inRoom, alive, hears>> /\ crossed \subseteq crossed' /\ slot' \in {slot, x}
      /\ tasks' = Finished(x, k)
      /\ \/ UNCHANGED <<tabs, bus>>
         \/ /\ Publish(Proc(x), <<m>>)
            /\ \/ tabs' = Told(Proc(x), <<m>>)
               \/ tabs' = [Told(Proc(x), <<m>>) EXCEPT ![x[1]].sharing = TRUE]
  BY <1>3 DEF Claim, Crossed, Finish
<1>5. Plain(<<m>>)
  <2>1. m \in MsgType /\ m.ev = "screen"
    BY <1>3 DEF Msg, MsgType, Events
  <2> QED
    BY <2>1, PlainIs
<1>6. TurnOk(x, {T}, {}) /\ tasks' \in [Actors -> Seq(TaskType)]
  BY <1>1, <1>2, <1>4, FinishOk
<1>7. Undisturbed
  <2>1. CASE UNCHANGED <<tabs, bus>>
    BY <1>2, <2>1, Untold, SameTabs
  <2>2. CASE Publish(Proc(x), <<m>>) /\ tabs' = Told(Proc(x), <<m>>)
    BY <1>2, <1>5, <2>2, PlainBroadcast
  <2>3. CASE Publish(Proc(x), <<m>>) /\ tabs' = [Told(Proc(x), <<m>>) EXCEPT ![x[1]].sharing = TRUE]
    <3>1. PICK ms : ms = <<m>>
      OBVIOUS
    <3>2. Len(ms) \in Nat /\ \A i \in 1 .. Len(ms) : ms[i].ev # "updated"
      BY <1>5, <3>1 DEF Plain
    <3>3. ASSUME NEW t \in Tabs
          PROVE  IsTab(tabs'[t]) /\ Still(tabs[t], tabs'[t]) /\ tabs'[t].locked = tabs[t].locked
      <4>1. PICK new : new = After(t, Proc(x), ms)
        OBVIOUS
      <4>2. IsTab(tabs[t])
        BY <1>2 DEF RosterTypes
      <4>3. IsTab(new) /\ Still(tabs[t], new) /\ new.locked = tabs[t].locked
        BY <3>2, <4>1, <4>2, AfterIs
      <4>4. tabs'[t] = new \/ tabs'[t] = [new EXCEPT !.sharing = TRUE]
        BY <2>3, <3>1, <4>1 DEF Told
      <4>5. new = [n |-> new.n, online |-> new.online, open |-> new.open, status |-> new.status, joined |-> new.joined,
                   self |-> new.self, roster |-> new.roster, locked |-> new.locked, screen |-> new.screen,
                   media |-> new.media, sharing |-> new.sharing]
        BY <4>3 DEF IsTab
      <4>6. PICK old, next : old = tabs[t] /\ next = tabs'[t]
        OBVIOUS
      <4>7. CASE next = [new EXCEPT !.sharing = TRUE]
        <5>1. IsTab(next) /\ Still(old, next) /\ next.locked = old.locked
          BY <4>3, <4>5, <4>6, <4>7 DEF IsTab, Still
        <5> QED
          BY <4>6, <5>1
      <4> QED
        BY <4>3, <4>4, <4>6, <4>7
    <3>4. DOMAIN tabs' = Tabs
      BY <2>3 DEF Told
    <3>5. QuietTabs
      BY <3>3, <3>4 DEF QuietTabs
    <3> QED
      BY <1>2, <1>5, <2>3, <3>5, PlainBroadcast
  <2> QED
    BY <1>4, <2>1, <2>2, <2>3
<1> QED
  BY <1>2, <1>4, <1>6, <1>7, QuietStep DEF RosterTypes, Holds, Heard

\* Nor is anything else shown when a screen is no longer shared.
LEMMA ReleaseKeeps ==
    ASSUME RosterInv, NEW x \in Peers, NEW k, Release(x, k)
    PROVE  RosterInv'
<1> DEFINE T == tasks[x][k]
<1>1. Runs(x, k, "release")
  BY DEF Release
<1>2. /\ RosterTypes /\ x \in Actors /\ x \notin Procs /\ Proc(x) \in Procs
      /\ T \in TaskType /\ ~Awaited(T)
      /\ \A t \in Tabs : tabs[t].online => Peer(t) \in up
  BY <1>1, PeerRuns DEF JoinSteps
<1>3. /\ UNCHANGED <<seats, room, up, inRoom, alive>> /\ slot' \in {slot, None}
      /\ tasks' = Finished(x, k) /\ crossed \subseteq crossed' /\ Broadcast(Proc(x), Freed(x))
  BY DEF Release, Frees, Crossed, Finish
<1>4. TurnOk(x, {T}, {}) /\ tasks' \in [Actors -> Seq(TaskType)]
  BY <1>1, <1>2, <1>3, FinishOk
<1>5. Undisturbed /\ hears' = hears
  BY <1>2, <1>3, FreedIs, PlainBroadcast, PlainHeard DEF Broadcast
<1> QED
  BY <1>2, <1>3, <1>4, <1>5, QuietStep DEF RosterTypes, Holds, Heard

-----------------------------------------------------------------------------
(* The sweep.                                                              *)

\* What a process' handler is.
LEMMA ProcRuns ==
    ASSUME RosterInv, NEW p \in Procs, NEW k, NEW pc, Runs(p, k, pc)
    PROVE  /\ RosterTypes /\ p \in Actors /\ p \notin Peers /\ p \in alive
           /\ k \in DOMAIN tasks[p] /\ tasks[p][k] \in TaskType /\ tasks[p][k] \in Has(p) /\ tasks[p][k].pc = pc
           /\ tasks[p][k].op = Operation(pc) /\ tasks[p][k].on \in BOOLEAN /\ tasks[p][k].peer \in Peers \union {None}
           /\ Awaited(tasks[p][k]) => pc \in JoinSteps
           /\ \A t \in Tabs : tabs[t].online => Peer(t) \in up
<1>1. RosterTypes /\ SocketsInv
  BY DEF RosterInv
<1>2. p \in Actors /\ p \notin Peers /\ Proc(p) = p
  BY Processes, Distinct DEF Actors
<1>3. k \in DOMAIN tasks[p] /\ tasks[p][k] \in Has(p) /\ tasks[p][k] \in TaskType /\ tasks[p][k].pc = pc /\ p \in alive
  BY <1>1, <1>2, RunsIs DEF RosterTypes
<1>4. tasks[p][k].op = Operation(pc) /\ tasks[p][k].on \in BOOLEAN /\ tasks[p][k].peer \in Peers \union {None}
  BY <1>3 DEF TaskType
<1>5. Awaited(tasks[p][k]) => pc \in JoinSteps
  BY <1>4 DEF Awaited, Operation
<1>6. \A t \in Tabs : tabs[t].online => Peer(t) \in up
  BY <1>1 DEF SocketsInv, TabOk
<1> QED
  BY <1>1, <1>2, <1>3, <1>4, <1>5, <1>6

\* The slot of who was swept is freed.
LEMMA SweepFreeKeeps ==
    ASSUME RosterInv, NEW p \in Procs, NEW k, SweepFree(p, k)
    PROVE  RosterInv'
<1> DEFINE T == tasks[p][k]
<1>1. Runs(p, k, "freeDead")
  BY DEF SweepFree
<1>2. /\ RosterTypes /\ p \in Actors /\ p \notin Peers
      /\ T \in TaskType /\ ~Awaited(T)
      /\ \A t \in Tabs : tabs[t].online => Peer(t) \in up
  BY <1>1, ProcRuns DEF JoinSteps
<1>3. /\ UNCHANGED <<seats, room, up, inRoom, alive>> /\ slot' \in {slot, None}
      /\ tasks' = Finished(p, k) /\ crossed \subseteq crossed' /\ Broadcast(p, Freed(T.peer))
  BY DEF SweepFree, Frees, Crossed, Finish
<1>4. TurnOk(p, {T}, {}) /\ tasks' \in [Actors -> Seq(TaskType)]
  BY <1>1, <1>2, <1>3, FinishOk DEF LockSteps
<1>5. Undisturbed /\ hears' = hears
  BY <1>2, <1>3, FreedIs, PlainBroadcast, PlainHeard DEF Broadcast
<1> QED
  BY <1>2, <1>3, <1>4, <1>5, QuietStep DEF RosterTypes, Holds, Heard

\* Only seats of connections that are gone are removed.
LEMMA SweepKeeps ==
    ASSUME RosterInv, NEW p \in Procs, Sweep(p)
    PROVE  RosterInv'
<1> DEFINE S == {seats[u].peer : u \in Stale}
<1>1. PICK dead \in SetToSeqs(S) :
        /\ Broadcast(p, [i \in DOMAIN dead |-> Msg("left", dead[i], None)])
        /\ tasks' = [tasks EXCEPT ![p] = @ \o [i \in DOMAIN dead |-> [Task("sweep", "freeDead", FALSE) EXCEPT !.peer = dead[i]]]]
  BY DEF Sweep
<1>2. /\ UNCHANGED <<slot, room, up, inRoom, alive>> /\ crossed \subseteq crossed'
      /\ seats' = [u \in People |-> IF u \in Stale THEN None ELSE seats[u]]
  BY DEF Sweep
<1>3. RosterTypes /\ p \in Actors /\ p \notin Peers /\ \A t \in Tabs : tabs[t].online => Peer(t) \in up
  BY Distinct DEF RosterInv, SocketsInv, TabOk, Actors
<1>4. S \subseteq Peers
  BY <1>3 DEF Stale, RosterTypes, SeatType
<1>5. \E n \in Nat : dead \in [1 .. n -> Peers]
  <2>1. IsFiniteSet(S)
    <3> DEFINE f == [t \in Tabs |-> PersonOf[t]]
               g == [u \in Stale |-> seats[u].peer]
    <3>1. f \in Surjection(Tabs, People)
      BY DEF Surjection, People
    <3>2. IsFiniteSet(People)
      BY <3>1, RosterAssumption, FS_Surjection DEF RosterAssumption
    <3>3. IsFiniteSet(Stale)
      BY <3>2, FS_Subset DEF Stale
    <3>4. g \in Surjection(Stale, S)
      BY DEF Surjection
    <3> QED
      BY <3>3, <3>4, FS_Surjection
  <2>2. Cardinality(S) \in Nat
    BY <2>1, FS_CardinalityType
  <2>3. dead \in [1 .. Cardinality(S) -> S]
    BY DEF SetToSeqs
  <2>4. dead \in [1 .. Cardinality(S) -> Peers]
    BY <1>4, <2>3
  <2> QED
    BY <2>2, <2>4
<1> HIDE DEF S
<1>6. PICK n \in Nat : dead \in [1 .. n -> Peers]
  BY <1>5
<1> DEFINE ms == [i \in 1 .. n |-> Msg("left", dead[i], None)]
           us == [i \in 1 .. n |-> [Task("sweep", "freeDead", FALSE) EXCEPT !.peer = dead[i]]]
<1>7. Broadcast(p, ms) /\ tasks' = [tasks EXCEPT ![p] = @ \o us]
  BY <1>1, <1>6
<1>8. Plain(ms)
  <2>1. ASSUME NEW i \in 1 .. n PROVE ms[i] \in MsgType /\ ms[i].ev = "left"
    <3>1. dead[i] \in Peers
      BY <1>6
    <3> QED
      BY <3>1 DEF Msg, MsgType, Events
  <2>2. ms \in [1 .. n -> MsgType]
    BY <2>1
  <2>3. ms \in Seq(MsgType) /\ DOMAIN ms = 1 .. n
    BY <2>2, SeqDef
  <2> HIDE DEF ms
  <2> QED
    BY <2>1, <2>3 DEF Plain
<1>9. ASSUME NEW i \in 1 .. n PROVE us[i] \in TaskType /\ us[i].op = "sweep" /\ us[i].pc = "freeDead"
  <2>1. dead[i] \in Peers /\ Operation("freeDead") = "sweep"
    BY <1>6, OperationIs
  <2> QED
    BY <2>1 DEF Task, TaskType, Pcs, Ops
<1>10. us \in Seq(TaskType) /\ DOMAIN us = 1 .. n
  <2>1. us \in [1 .. n -> TaskType]
    BY <1>9
  <2> HIDE DEF us
  <2> QED
    BY <2>1, SeqDef
<1> HIDE DEF ms, us
<1>11. tasks' \in [Actors -> Seq(TaskType)] /\ Has(p)' = Has(p) \union Elems(us) /\ \A b \in Actors \ {p} : Has(b)' = Has(b)
  <2>1. PICK q : q = tasks[p]
    OBVIOUS
  <2>2. q \in Seq(TaskType) /\ tasks \in [Actors -> Seq(TaskType)] /\ Len(us) = n
    BY <1>3, <1>10, <2>1 DEF RosterTypes
  <2>3. /\ q \o us \in Seq(TaskType) /\ Len(q) \in Nat /\ DOMAIN q = 1 .. Len(q) /\ DOMAIN (q \o us) = 1 .. Len(q) + n
        /\ \A i \in 1 .. Len(q) + n : (q \o us)[i] = IF i <= Len(q) THEN q[i] ELSE us[i - Len(q)]
    <3>0. q \in Seq(TaskType) /\ us \in Seq(TaskType)
      BY <1>10, <2>2
    <3>1. q \o us \in Seq(TaskType) /\ Len(q \o us) = Len(q) + Len(us)
      BY <3>0, ConcatProperties
    <3>4. Len(q) \in Nat /\ DOMAIN q = 1 .. Len(q)
      BY <3>0
    <3>2. DOMAIN (q \o us) = 1 .. Len(q) + n
      BY <2>2, <3>1, <3>4
    <3>3. \A i \in 1 .. Len(q) + Len(us) : (q \o us)[i] = IF i <= Len(q) THEN q[i] ELSE us[i - Len(q)]
      BY <3>0, ConcatProperties
    <3> QED
      BY <2>2, <3>1, <3>2, <3>3, <3>4
  <2>4. tasks' = [tasks EXCEPT ![p] = q \o us]
    BY <1>7, <2>1
  <2>5. Elems(q \o us) = Elems(q) \union Elems(us)
    <3> DEFINE r == q \o us
    <3> HIDE DEF r
    <3>1. ASSUME NEW i \in 1 .. Len(q) + n PROVE r[i] \in Elems(q) \union Elems(us)
      <4>1. CASE i <= Len(q)
        BY <2>3, <4>1 DEF Elems, r
      <4>2. CASE ~(i <= Len(q))
        <5>1. i - Len(q) \in DOMAIN us /\ r[i] = us[i - Len(q)]
          BY <1>10, <2>3, <4>2 DEF r
        <5> QED
          BY <5>1 DEF Elems
      <4> QED
        BY <4>1, <4>2
    <3>2. ASSUME NEW i \in DOMAIN q PROVE q[i] \in Elems(r)
      <4>1. i \in DOMAIN r /\ r[i] = q[i]
        BY <2>3 DEF r
      <4> QED
        BY <4>1 DEF Elems
    <3>3. ASSUME NEW i \in DOMAIN us PROVE us[i] \in Elems(r)
      <4>1. Len(q) + i \in 1 .. Len(q) + n /\ ~(Len(q) + i <= Len(q)) /\ Len(q) + i - Len(q) = i
        BY <1>10, <2>3
      <4>2. Len(q) + i \in DOMAIN r /\ r[Len(q) + i] = us[i]
        BY <2>3, <4>1 DEF r
      <4> QED
        BY <4>2 DEF Elems
    <3>4. Elems(r) = {r[i] : i \in 1 .. Len(q) + n}
      BY <2>3 DEF Elems, r
    <3>5. Elems(r) = Elems(q) \union Elems(us)
      <4>1. Elems(q) = {q[i] : i \in DOMAIN q} /\ Elems(us) = {us[i] : i \in DOMAIN us}
        BY DEF Elems
      <4> QED
        BY <3>1, <3>2, <3>3, <3>4, <4>1
    <3> QED
      BY <3>5 DEF r
  <2>6. Has(p) = Elems(q)
    BY <2>1 DEF Has, Elems
  <2> QED
    BY <1>3, <2>2, <2>3, <2>4, <2>5, <2>6, OthersHave
<1>12. TurnOk(p, {}, Elems(us))
  BY <1>3, <1>9, <1>10, <1>11 DEF TurnOk, HandsOn, Turns, Elems, Awaited, LockSteps, EndSteps
<1>13. Undisturbed /\ hears' = hears
  BY <1>3, <1>7, <1>8, PlainBroadcast, PlainHeard DEF Broadcast
<1>14. seats' \in [People -> SeatType \union {None}]
  BY <1>2, <1>3 DEF RosterTypes
<1>15. ASSUME NEW y \in Peers, Live(y), Holds(y) PROVE Holds(y)'
  <2>1. y \in up /\ Owner(y) \in People
    BY <1>3, <1>15, Owners DEF Live
  <2>2. Owner(y) \notin Stale
    BY <1>15, <2>1 DEF Stale, Holds
  <2> QED
    BY <1>2, <1>15, <2>1, <2>2 DEF Holds
<1> QED
  BY <1>2, <1>3, <1>11, <1>12, <1>13, <1>14, <1>15, QuietStep DEF RosterTypes, Heard

-----------------------------------------------------------------------------
(* updateRoom and endRoom.                                                 *)

\* The steps of what the host asks for.
HostSteps == LockSteps \union EndSteps \union {"findOpen", "end"}

\* It goes on with the same request.
GoesOn(p, k, pc) ==
  \E u \in TaskType : /\ u.pc = pc /\ u.on = tasks[p][k].on
                      /\ HandsOn(p, {tasks[p][k]}, {u}) /\ tasks' \in [Actors -> Seq(TaskType)]

\* A host's request that goes on.
LEMMA RequestGoes ==
    ASSUME RosterInv, NEW p \in Procs, NEW k, NEW from \in HostSteps, Runs(p, k, from),
           NEW pc \in HostSteps, pc \in EndSteps => room'.ended = TRUE, Goto(p, k, pc)
    PROVE  GoesOn(p, k, pc)
<1> DEFINE T == tasks[p][k]
           u == [T EXCEPT !.pc = pc]
<1>1. RosterTypes /\ p \in Actors /\ p \notin Peers /\ k \in DOMAIN tasks[p] /\ T \in TaskType /\ T.op = Operation(from)
  BY ProcRuns
<1>2. Operation(from) = "host" /\ Operation(pc) = "host" /\ pc \in Pcs
  BY OperationIs DEF HostSteps
<1>3. u \in TaskType /\ u.pc = pc /\ u.on = T.on /\ u.op = "host"
  BY <1>1, <1>2 DEF TaskType
<1>4. tasks' = Goes(p, k, u)
  BY DEF Goto
<1> HIDE DEF u
<1>5. Turns(p, {T}, {u}) /\ tasks' \in [Actors -> Seq(TaskType)]
  BY <1>1, <1>3, <1>4, GoesTurns DEF RosterTypes
<1>6. ~Awaited(u) /\ ~Awaited(T)
  BY <1>1, <1>2, <1>3 DEF Awaited
<1>7. HandsOn(p, {T}, {u})
  BY <1>1, <1>3, <1>5, <1>6 DEF HandsOn
<1> QED
  BY <1>3, <1>5, <1>7 DEF GoesOn

\* One that ends.
LEMMA RequestEnds ==
    ASSUME RosterInv, NEW p \in Procs, NEW k, NEW from \in HostSteps, Runs(p, k, from), tasks' = Finished(p, k)
    PROVE  HandsOn(p, {tasks[p][k]}, {}) /\ tasks' \in [Actors -> Seq(TaskType)]
<1> DEFINE T == tasks[p][k]
<1>1. RosterTypes /\ p \in Actors /\ p \notin Peers /\ k \in DOMAIN tasks[p] /\ T.op = Operation(from)
  BY ProcRuns
<1>2. ~Awaited(T)
  BY <1>1, OperationIs DEF Awaited, HostSteps
<1>3. Turns(p, {T}, {}) /\ tasks' \in [Actors -> Seq(TaskType)]
  BY <1>1, FinishedTurns DEF RosterTypes
<1> QED
  BY <1>1, <1>2, <1>3 DEF HandsOn

\* What is asked about the lock, after a step of one request.
LEMMA RequestsAre ==
    ASSUME NEW p \in Procs, NEW T, NEW N, Turns(p, {T}, N)
    PROVE  /\ \A s \in Requests' : s \in Requests \/ s \in N
           /\ \A s \in Requests : s # T => s \in Requests'
           /\ T.pc \in LockSteps => T \in Requests
           /\ \A s \in N : s.pc \in LockSteps => s \in Requests'
<1>1. \A q \in Procs : q \in Actors
  BY DEF Actors
<1>2. ASSUME NEW q \in Procs, NEW s \in Has(q)' PROVE s \in Has(q) \/ s \in N
  BY <1>1, <1>2 DEF Turns
<1>3. ASSUME NEW q \in Procs, NEW s \in Has(q), s # T PROVE s \in Has(q)'
  BY <1>1, <1>3 DEF Turns
<1>4. T \in Has(p) /\ N \subseteq Has(p)'
  BY DEF Turns
<1> QED
  BY <1>2, <1>3, <1>4 DEF Requests

\* A room that has ended is neither locked nor ended again.
LEMMA FindRoomKeeps ==
    ASSUME RosterInv, NEW p \in Procs, NEW k, FindRoom(p, k)
    PROVE  RosterInv'
<1> DEFINE T == tasks[p][k]
<1>1. PICK find \in {<<"find", "update">>, <<"findOpen", "end">>} :
        /\ Runs(p, k, find[1])
        /\ IF room.ended THEN Finish(p, k) ELSE Goto(p, k, find[2])
        /\ UNCHANGED <<seats, slot, room, up, inRoom, hears, bus, alive, tabs, todo, crossed>>
  BY DEF FindRoom
<1>2. /\ find[1] \in {"find", "findOpen"} /\ find[2] \in {"update", "end"}
      /\ RosterTypes /\ LockInv /\ T.pc = find[1] /\ T \in TaskType
      /\ \A t \in Tabs : tabs[t].online => Peer(t) \in up
  BY <1>1, ProcRuns DEF RosterInv
<1>3. find[1] \in HostSteps /\ find[2] \in HostSteps /\ find[2] \notin EndSteps
  BY <1>2 DEF HostSteps, LockSteps, EndSteps
<1>4. Goto(p, k, find[2]) \/ tasks' = Finished(p, k)
  BY <1>1 DEF Finish
<1>5. PICK N : /\ HandsOn(p, {T}, N) /\ tasks' \in [Actors -> Seq(TaskType)]
               /\ \A s \in N : s.on = T.on /\ s.pc = find[2]
  <2>1. CASE Goto(p, k, find[2])
    <3>1. PICK u \in TaskType : /\ u.pc = find[2] /\ u.on = T.on
                                /\ HandsOn(p, {T}, {u}) /\ tasks' \in [Actors -> Seq(TaskType)]
      BY <1>1, <1>3, <2>1, RequestGoes DEF GoesOn
    <3> QED
      BY <3>1
  <2>2. CASE tasks' = Finished(p, k)
    <3>1. HandsOn(p, {T}, {}) /\ tasks' \in [Actors -> Seq(TaskType)]
      BY <1>1, <1>3, <2>2, RequestEnds
    <3> QED
      BY <3>1
  <2> QED
    BY <1>4, <2>1, <2>2
<1>6. Undisturbed
  BY <1>1, <1>2, Untold, SameTabs DEF RosterInv
<1>7. Calm
  BY <1>6 DEF Undisturbed, QuietTabs, Calm
<1>8. LockInv'
  <2>0. /\ \A s \in Requests' : s \in Requests \/ s \in N
        /\ \A s \in Requests : s # T => s \in Requests'
        /\ T.pc \in LockSteps => T \in Requests
    BY <1>5, RequestsAre DEF HandsOn
  <2>1. ASSUME NEW s \in Requests' PROVE s \in Requests \/ \E r \in Requests : s.on = r.on /\ s.pc # "tell"
    <3>1. CASE s \in N
      <4>1. s.on = T.on /\ s.pc = find[2] /\ s.pc \in LockSteps
        BY <1>5, <2>1, <3>1 DEF Requests
      <4>2. T.pc = "find" /\ s.pc # "tell"
        BY <1>1, <1>2, <4>1 DEF LockSteps, EndSteps
      <4> QED
        BY <2>0, <4>1, <4>2 DEF LockSteps
    <3> QED
      BY <2>0, <2>1, <3>1
  <2>2. \A s \in Requests : s.pc = "tell" => s \in Requests'
    BY <1>2, <2>0
  <2>3. Updates' = Updates
    BY <1>1 DEF Updates, Coming
  <2>4. ASSUME NEW t \in Tabs
        PROVE  /\ Fresh(t)' = Fresh(t) /\ Peer(t)' = Peer(t) /\ tabs'[t].locked = tabs[t].locked
               /\ Coming(Proc(Peer(t)))' = Coming(Proc(Peer(t)))
    BY <1>1 DEF Fresh, Shows, Peer, Coming, Proc
  <2> QED
    BY <1>1, <1>2, <2>1, <2>2, <2>3, <2>4, LockKept
<1> QED
  BY <1>1, <1>2, <1>5, <1>7, <1>8, CalmStep DEF RosterTypes, Holds, Heard

\* The lock that is stored is announced.
LEMMA UpdateRoomKeeps ==
    ASSUME RosterInv, NEW p \in Procs, NEW k, UpdateRoom(p, k)
    PROVE  RosterInv'
<1> DEFINE T == tasks[p][k]
<1>1. Runs(p, k, "update")
  BY DEF UpdateRoom
<1>2. /\ RosterTypes /\ LockInv /\ T.pc = "update" /\ T.on \in BOOLEAN
      /\ \A t \in Tabs : tabs[t].online => Peer(t) \in up
  BY <1>1, ProcRuns DEF RosterInv
<1>3. /\ UNCHANGED <<seats, slot, up, inRoom, hears, bus, alive, tabs, crossed>>
      /\ DOMAIN room' = DOMAIN room /\ room'.locked = T.on /\ room'.ended = room.ended
      /\ Goto(p, k, "tell")
  BY <1>2 DEF UpdateRoom, RosterTypes
<1>4. PICK u \in TaskType : /\ u.pc = "tell" /\ u.on = T.on
                            /\ HandsOn(p, {T}, {u}) /\ tasks' \in [Actors -> Seq(TaskType)]
  <2>1. "update" \in HostSteps /\ "tell" \in HostSteps /\ "tell" \notin EndSteps
    BY DEF HostSteps, LockSteps, EndSteps
  <2>2. GoesOn(p, k, "tell")
    BY <1>1, <1>3, <2>1, RequestGoes
  <2> QED
    BY <2>2 DEF GoesOn
<1>5. Calm
  <2>1. Undisturbed
    BY <1>2, <1>3, Untold, SameTabs
  <2> QED
    BY <2>1 DEF Undisturbed, QuietTabs, Calm
<1>6. LockInv'
  <2>1. /\ \A s \in Requests' : s \in Requests \/ s = u
        /\ T \in Requests /\ u \in Requests'
    <3>1. T.pc \in LockSteps /\ u.pc \in LockSteps /\ Turns(p, {T}, {u})
      BY <1>2, <1>4 DEF HandsOn, LockSteps
    <3> QED
      BY <3>1, RequestsAre
  <2>2. Updates' = Updates
    BY <1>3 DEF Updates, Coming
  <2>3. LocksOk'
    <3>1. \A s \in Requests' : s.on = T.on
      BY <1>2, <1>4, <2>1 DEF LockInv, LocksOk
    <3>2. \A m \in Updates' : m.arg = T.on
      BY <1>2, <2>1, <2>2 DEF LockInv, LocksOk
    <3> QED
      BY <1>3, <3>1, <3>2 DEF LocksOk
  <2>4. \A t \in Tabs : LockOk(t)'
    BY <1>4, <2>1 DEF LockOk
  <2> QED
    BY <2>3, <2>4 DEF LockInv
<1> QED
  BY <1>2, <1>3, <1>4, <1>5, <1>6, CalmStep DEF RosterTypes, Holds, Heard

\* Everybody who is shown the meeting hears of it.
LEMMA OnUpdatedKeeps ==
    ASSUME RosterInv, NEW p \in Procs, NEW k, OnUpdated(p, k)
    PROVE  RosterInv'
<1> DEFINE T == tasks[p][k]
<1>1. Runs(p, k, "tell")
  BY DEF OnUpdated
<1>2. /\ RosterTypes /\ LockInv /\ SocketsInv /\ ShownInv /\ BusInv /\ T.pc = "tell" /\ T.on \in BOOLEAN /\ p \in alive
      /\ \A t \in Tabs : tabs[t].online => Peer(t) \in up
  BY <1>1, ProcRuns DEF RosterInv
<1>3. PICK m : m = Msg("updated", None, T.on)
  OBVIOUS
<1>4. m \in MsgType /\ m.ev = "updated" /\ m.arg = T.on /\ m.to = None /\ m.but = None
  BY <1>2, <1>3 DEF Msg, MsgType, Events
<1>5. PICK ms : ms = <<m>>
  OBVIOUS
<1>6. ms \in Seq(MsgType) /\ DOMAIN ms = {1} /\ ms[1] = m /\ BatchOk(ms)
  <2>1. ms \in Seq(MsgType) /\ DOMAIN ms = {1} /\ ms[1] = m
    BY <1>4, <1>5
  <2> QED
    BY <1>4, <2>1 DEF BatchOk
<1>7. /\ UNCHANGED <<seats, slot, room, up, inRoom, alive, crossed>> /\ tasks' = Finished(p, k)
      /\ tabs' = Told(p, ms) /\ hears' = hears \ Deafened(p, ms) /\ Publish(p, ms)
  BY <1>3, <1>5 DEF OnUpdated, Broadcast, Finish
<1>8. hears' = hears
  BY <1>4, <1>6, <1>7 DEF Deafened
<1>9. HandsOn(p, {T}, {}) /\ tasks' \in [Actors -> Seq(TaskType)]
  <2>1. "tell" \in HostSteps
    BY DEF HostSteps, LockSteps
  <2> QED
    BY <1>1, <1>7, <2>1, RequestEnds
<1>10. /\ DOMAIN tabs' = Tabs
       /\ \A t \in Tabs : /\ IsTab(tabs'[t]) /\ Still(tabs[t], tabs'[t])
                          /\ Reaches(m, t, p) => tabs'[t].status # "joined" \/ tabs'[t].locked = T.on
  <2>1. \A i \in DOMAIN ms : ms[i].ev = "updated" => ms[i].arg = T.on /\ ms[i].arg \in BOOLEAN
    BY <1>2, <1>4, <1>6
  <2>2. 1 \in DOMAIN ms /\ ms[1] = m
    BY <1>6
  <2>3. /\ DOMAIN tabs' = Tabs
        /\ \A t \in Tabs :
             /\ IsTab(tabs'[t]) /\ Still(tabs[t], tabs'[t])
             /\ \A v : \A i \in DOMAIN ms :
                  (\A j \in DOMAIN ms : ms[j].ev = "updated" => ms[j].arg = v)
                  /\ Reaches(ms[i], t, p) /\ ms[i].ev = "updated" =>
                  tabs'[t].status # "joined" \/ tabs'[t].locked = v
    BY <1>2, <1>6, <1>7, <2>1, ToldIs
  <2> QED
    BY <1>4, <2>1, <2>2, <2>3
<1>11. /\ bus' \in [Links -> Seq(Seq(MsgType))] /\ BusInv'
       /\ \A q : Coming(q) \subseteq Coming(q)'
       /\ \A q : \A n \in Coming(q)' : n \in Coming(q) \/ n = m
       /\ \A q \in alive \ {p} : q \in Procs => m \in Coming(q)'
  BY <1>2, <1>6, <1>7, PublishIs DEF RosterTypes
<1>12. Calm
  BY <1>10, <1>11 DEF Calm
<1>13. LockInv'
  <2>0. T.pc \in LockSteps /\ \E N : N = {} /\ Turns(p, {T}, N)
    BY <1>2, <1>9 DEF HandsOn, LockSteps
  <2>1. (\A s \in Requests' : s \in Requests) /\ T \in Requests
    <3>1. PICK N : N = {} /\ Turns(p, {T}, N)
      BY <2>0
    <3> QED
      BY <2>0, <3>1, RequestsAre
  <2>2. \A n \in Updates' : n \in Updates \/ n = m
    BY <1>11 DEF Updates
  <2>3. T.on = room.locked
    BY <1>2, <2>1 DEF LockInv, LocksOk
  <2>4. LocksOk'
    BY <1>2, <1>4, <1>7, <2>1, <2>2, <2>3 DEF LockInv, LocksOk
  <2>5. ASSUME ~room'.ended, NEW t \in Tabs PROVE LockOk(t)'
    <3> SUFFICES ASSUME Fresh(t)', tabs'[t].locked # room'.locked, <<"deaf", Peer(t)'>> \notin crossed'
                 PROVE  \E n \in Coming(Proc(Peer(t)))' : n.ev = "updated"
      BY DEF LockOk
    <3>1. Fresh(t) /\ Peer(t)' = Peer(t)
      BY <1>10 DEF Fresh, Shows, Still, Peer
    <3>2. PICK x \in Peers : x = Peer(t)
      BY <1>2 DEF RosterTypes
    <3>3. x \in hears /\ x \in up /\ Proc(x) \in alive /\ x # None /\ Proc(x) \in Procs
      BY <1>2, <1>7, <2>5, <3>1, <3>2, Distinct, Processes DEF ShownInv, ShownOk, Heard, SocketsInv, TabOk, Fresh, Actors
    <3>4. CASE Proc(x) = p
      <4>1. Reaches(m, t, p)
        BY <1>4, <3>1, <3>2, <3>3, <3>4 DEF Reaches, Fresh, Shows
      <4> QED
        BY <1>7, <1>10, <2>3, <4>1 DEF Fresh, Shows
    <3>5. CASE Proc(x) # p
      <4>1. m \in Coming(Proc(x))'
        BY <1>11, <3>3, <3>5
      <4>2. Coming(Proc(Peer(t)))' = Coming(Proc(x))'
        BY <3>1, <3>2 DEF Coming, Proc
      <4> QED
        BY <1>4, <4>1, <4>2
    <3> QED
      BY <3>4, <3>5
  <2> QED
    BY <2>4, <2>5 DEF LockInv
<1> QED
  BY <1>2, <1>7, <1>8, <1>9, <1>12, <1>13, CalmStep DEF RosterTypes, Holds, Heard

\* A room that ends.
LEMMA EndRoomKeeps ==
    ASSUME RosterInv, NEW p \in Procs, NEW k, EndRoom(p, k)
    PROVE  RosterInv'
<1> DEFINE T == tasks[p][k]
<1>1. Runs(p, k, "end")
  BY DEF EndRoom
<1>2. RosterTypes /\ p \notin Peers /\ T.pc = "end" /\ \A t \in Tabs : tabs[t].online => Peer(t) \in up
  BY <1>1, ProcRuns
<1>3. /\ UNCHANGED <<seats, slot, up, inRoom, hears, bus, alive, tabs, crossed>>
      /\ DOMAIN room' = DOMAIN room /\ room'.locked = room.locked /\ room'.ended = TRUE
      /\ Goto(p, k, "announce")
  BY <1>2 DEF EndRoom, RosterTypes
<1>4. PICK u \in TaskType : u.pc = "announce" /\ HandsOn(p, {T}, {u}) /\ tasks' \in [Actors -> Seq(TaskType)]
  <2>1. "end" \in HostSteps /\ "announce" \in HostSteps
    BY DEF HostSteps, EndSteps
  <2>2. room'.ended = TRUE
    BY <1>2, <1>3
  <2>3. GoesOn(p, k, "announce")
    BY <1>1, <1>3, <2>1, <2>2, RequestGoes
  <2> QED
    BY <2>3 DEF GoesOn
<1>5. TurnOk(p, {T}, {u})
  BY <1>2, <1>4 DEF TurnOk, LockSteps
<1>6. Undisturbed
  BY <1>2, <1>3, Untold, SameTabs
<1> QED
  BY <1>2, <1>3, <1>4, <1>5, <1>6, QuietStep DEF RosterTypes, Holds, Heard

\* Everybody is put out of a room that has ended.
LEMMA OnEndedKeeps ==
    ASSUME RosterInv, NEW p \in Procs, NEW k, OnEnded(p, k)
    PROVE  RosterInv'
<1> DEFINE T == tasks[p][k]
<1>1. Runs(p, k, "announce")
  BY DEF OnEnded
<1>2. /\ RosterTypes /\ p \notin Peers /\ T.pc = "announce" /\ T \in Has(p) /\ EndOk
      /\ \A t \in Tabs : tabs[t].online => Peer(t) \in up
  BY <1>1, ProcRuns DEF RosterInv
<1>3. PICK ms : ms = <<Msg("ended", None, None), Msg("unhear", None, None)>>
  OBVIOUS
<1>4. /\ UNCHANGED <<seats, slot, room, up, inRoom, alive, crossed>> /\ Goto(p, k, "clearScreen")
      /\ tabs' = Told(p, ms) /\ hears' \subseteq hears /\ Publish(p, ms)
  BY <1>3 DEF OnEnded, Broadcast
<1>5. room.ended
  BY <1>2 DEF EndOk, EndSteps
<1>6. PICK u \in TaskType : u.pc = "clearScreen" /\ HandsOn(p, {T}, {u}) /\ tasks' \in [Actors -> Seq(TaskType)]
  <2>1. "announce" \in HostSteps /\ "clearScreen" \in HostSteps
    BY DEF HostSteps, EndSteps
  <2>2. room'.ended = TRUE
    BY <1>2, <1>3, <1>4, <1>5 DEF RosterTypes
  <2>3. GoesOn(p, k, "clearScreen")
    BY <1>1, <1>4, <2>1, <2>2, RequestGoes
  <2> QED
    BY <2>3 DEF GoesOn
<1>7. TurnOk(p, {T}, {u})
  BY <1>2, <1>6 DEF TurnOk, LockSteps
<1>8. ms \in Seq(MsgType) /\ BatchOk(ms) /\ \A i \in DOMAIN ms : ms[i].ev # "updated"
  <2>1. PICK m1, m2 : m1 = Msg("ended", None, None) /\ m2 = Msg("unhear", None, None)
    OBVIOUS
  <2>2. /\ m1 \in MsgType /\ m2 \in MsgType /\ m1.ev = "ended" /\ m2.ev = "unhear" /\ m1.to = None /\ m2.to = None
        /\ m1.but = None /\ m2.but = None
    BY <2>1 DEF Msg, MsgType, Events
  <2>3. ms \in Seq(MsgType) /\ DOMAIN ms = {1, 2} /\ ms[1] = m1 /\ ms[2] = m2
    BY <1>3, <2>1, <2>2
  <2> QED
    BY <2>2, <2>3 DEF BatchOk
<1>9. Undisturbed
  BY <1>4, <1>8, Announced
<1> QED
  BY <1>2, <1>4, <1>5, <1>6, <1>7, <1>9, QuietStep DEF RosterTypes, Holds

\* Its slot is cleared.
LEMMA ClearScreenKeeps ==
    ASSUME RosterInv, NEW p \in Procs, NEW k, ClearScreen(p, k)
    PROVE  RosterInv'
<1> DEFINE T == tasks[p][k]
<1>1. Runs(p, k, "clearScreen")
  BY DEF ClearScreen
<1>2. /\ RosterTypes /\ p \notin Peers /\ T.pc = "clearScreen" /\ T \in Has(p) /\ EndOk
      /\ \A t \in Tabs : tabs[t].online => Peer(t) \in up
  BY <1>1, ProcRuns DEF RosterInv
<1>3. /\ UNCHANGED <<seats, room, up, inRoom, hears, bus, alive, tabs, crossed>> /\ slot' = None
      /\ Goto(p, k, "clearRoom")
  BY DEF ClearScreen
<1>4. room.ended
  BY <1>2 DEF EndOk, EndSteps
<1>5. PICK u \in TaskType : u.pc = "clearRoom" /\ HandsOn(p, {T}, {u}) /\ tasks' \in [Actors -> Seq(TaskType)]
  <2>1. "clearScreen" \in HostSteps /\ "clearRoom" \in HostSteps
    BY DEF HostSteps, EndSteps
  <2>2. room'.ended = TRUE
    BY <1>2, <1>3, <1>4 DEF RosterTypes
  <2>3. GoesOn(p, k, "clearRoom")
    BY <1>1, <1>3, <2>1, <2>2, RequestGoes
  <2> QED
    BY <2>3 DEF GoesOn
<1>6. TurnOk(p, {T}, {u})
  BY <1>2, <1>5 DEF TurnOk, LockSteps
<1>7. Undisturbed
  BY <1>2, <1>3, Untold, SameTabs
<1> QED
  BY <1>2, <1>3, <1>5, <1>6, <1>7, QuietStep DEF RosterTypes, Holds, Heard

\* And its seats.
LEMMA ClearRoomKeeps ==
    ASSUME RosterInv, NEW p \in Procs, NEW k, ClearRoom(p, k)
    PROVE  RosterInv'
<1> DEFINE T == tasks[p][k]
<1>1. Runs(p, k, "clearRoom")
  BY DEF ClearRoom
<1>2. /\ RosterTypes /\ p \notin Peers /\ T.pc = "clearRoom" /\ T \in Has(p) /\ EndOk
      /\ \A t \in Tabs : tabs[t].online => Peer(t) \in up
  BY <1>1, ProcRuns DEF RosterInv
<1>3. /\ UNCHANGED <<slot, room, up, inRoom, hears, bus, alive, tabs, crossed>> /\ seats' = [u \in People |-> None]
      /\ tasks' = Finished(p, k)
  BY DEF ClearRoom, Finish
<1>4. room.ended
  BY <1>2 DEF EndOk, EndSteps
<1>5. HandsOn(p, {T}, {}) /\ tasks' \in [Actors -> Seq(TaskType)]
  <2>1. "clearRoom" \in HostSteps
    BY DEF HostSteps, EndSteps
  <2> QED
    BY <1>1, <1>3, <2>1, RequestEnds
<1>6. TurnOk(p, {T}, {})
  BY <1>2, <1>5 DEF TurnOk, LockSteps
<1>7. Undisturbed
  BY <1>2, <1>3, Untold, SameTabs
<1>8. seats' \in [People -> SeatType \union {None}]
  BY <1>3
<1> QED
  BY <1>2, <1>3, <1>4, <1>5, <1>6, <1>7, <1>8, QuietStep DEF RosterTypes, Heard

-----------------------------------------------------------------------------
(* What tabs ask.                                                          *)

\* A request of a tab that does not join or leave.
LEMMA SentOk ==
    ASSUME RosterInv, NEW t \in Tabs, tabs[t].online, NEW op \in {"media", "share", "stop"}, NEW on \in BOOLEAN,
           tasks' = Sent(t, op, on)
    PROVE  \E u : TurnOk(Peer(t), {}, {u}) /\ tasks' \in [Actors -> Seq(TaskType)]
<1>1. RosterTypes /\ SocketsInv
  BY DEF RosterInv
<1>2. PICK x \in Peers : x = Peer(t)
  BY <1>1 DEF RosterTypes
<1>3. x \in Actors /\ x \notin Procs /\ x \in up
  BY <1>1, <1>2, Distinct DEF Actors, SocketsInv, TabOk
<1>4. PICK u : u = Task(op, op, on)
  OBVIOUS
<1>5. op = Operation(op) /\ op \in Pcs /\ op \in Ops /\ op # "join" /\ op # "leave"
  <2>1. op = "media" \/ op = "share" \/ op = "stop"
    OBVIOUS
  <2>2. op = Operation(op)
    BY <2>1, OperationIs
  <2>3. op \in Pcs /\ op \in Ops
    BY <2>1 DEF Pcs, Ops
  <2> QED
    BY <2>1, <2>2, <2>3
<1>6. u \in TaskType /\ u.op = op /\ ~Awaited(u)
  BY <1>4, <1>5 DEF Task, TaskType, Awaited
<1>7. tasks' = [tasks EXCEPT ![x] = Append(@, u)]
  BY <1>2, <1>4, <1>5 DEF Sent
<1>8. TurnOk(x, {}, {u}) /\ tasks' \in [Actors -> Seq(TaskType)]
  BY <1>1, <1>3, <1>5, <1>6, <1>7, AddOk
<1> QED
  BY <1>2, <1>8

\* Muting.
LEMMA ToggleKeeps ==
    ASSUME RosterInv, NEW t \in Tabs, Toggle(t)
    PROVE  RosterInv'
<1>1. RosterTypes /\ IsTab(tabs[t]) /\ \A o \in Tabs : tabs[o].online => Peer(o) \in up
  BY DEF RosterInv, RosterTypes, SocketsInv, TabOk
<1>2. /\ UNCHANGED <<seats, slot, room, up, inRoom, hears, bus, alive, crossed>>
      /\ tabs' = [tabs EXCEPT ![t].media = ~@]
      /\ tasks' = IF tabs[t].online THEN Sent(t, "media", ~tabs[t].media) ELSE tasks
  BY DEF Toggle, tabOnly
<1>3. QuietTabs
  <2>1. PICK tab : tab = [tabs[t] EXCEPT !.media = ~@]
    OBVIOUS
  <2>2. tabs' = [tabs EXCEPT ![t] = tab]
    BY <1>1, <1>2, <2>1
  <2>3. IsTab(tab) /\ Still(tabs[t], tab) /\ tab.locked = tabs[t].locked
    BY <1>1, <2>1 DEF IsTab, Still
  <2> QED
    BY <1>1, <2>2, <2>3, OneTab
<1>4. Undisturbed
  BY <1>2, <1>3, Untold
<1>5. CASE tabs[t].online
  <2>1. (~tabs[t].media) \in BOOLEAN
    BY <1>1 DEF IsTab
  <2>2. PICK u : TurnOk(Peer(t), {}, {u}) /\ tasks' \in [Actors -> Seq(TaskType)]
    BY <1>2, <1>5, <2>1, SentOk
  <2> QED
    BY <1>1, <1>2, <1>4, <2>2, QuietStep DEF RosterTypes, Holds, Heard
<1>6. CASE ~tabs[t].online
  <2>1. Peer(t) \in Actors
    BY <1>1 DEF RosterTypes, Actors
  <2>2. TurnOk(Peer(t), {}, {}) /\ tasks' \in [Actors -> Seq(TaskType)]
    BY <1>1, <1>2, <1>6, <2>1, SameTasks
  <2> QED
    BY <1>1, <1>2, <1>4, <2>2, QuietStep DEF RosterTypes, Holds, Heard
<1> QED
  BY <1>5, <1>6

\* Starting to present.
LEMMA StartShareKeeps ==
    ASSUME RosterInv, NEW t \in Tabs, StartShare(t)
    PROVE  RosterInv'
<1>1. RosterTypes /\ tabs[t].online /\ \A o \in Tabs : tabs[o].online => Peer(o) \in up
  BY DEF RosterInv, SocketsInv, TabOk, StartShare
<1>2. /\ UNCHANGED <<seats, slot, room, up, inRoom, hears, bus, alive, tabs, crossed>>
      /\ tasks' = Sent(t, "share", FALSE)
  BY DEF StartShare, tabOnly
<1>3. Undisturbed
  BY <1>1, <1>2, Untold, SameTabs
<1>4. PICK u : TurnOk(Peer(t), {}, {u}) /\ tasks' \in [Actors -> Seq(TaskType)]
  BY <1>1, <1>2, SentOk
<1> QED
  BY <1>1, <1>2, <1>3, <1>4, QuietStep DEF RosterTypes, Holds, Heard

\* And ending it.
LEMMA StopShareKeeps ==
    ASSUME RosterInv, NEW t \in Tabs, StopShare(t)
    PROVE  RosterInv'
<1>1. RosterTypes /\ IsTab(tabs[t]) /\ tabs[t].online /\ \A o \in Tabs : tabs[o].online => Peer(o) \in up
  BY DEF RosterInv, RosterTypes, SocketsInv, TabOk, StopShare
<1>2. /\ UNCHANGED <<seats, slot, room, up, inRoom, hears, bus, alive, crossed>>
      /\ tabs' = [tabs EXCEPT ![t].sharing = FALSE]
      /\ tasks' = Sent(t, "stop", FALSE)
  BY DEF StopShare, tabOnly
<1>3. QuietTabs
  <2>1. PICK tab : tab = [tabs[t] EXCEPT !.sharing = FALSE]
    OBVIOUS
  <2>2. tabs' = [tabs EXCEPT ![t] = tab]
    BY <1>1, <1>2, <2>1
  <2>3. IsTab(tab) /\ Still(tabs[t], tab) /\ tab.locked = tabs[t].locked
    BY <1>1, <2>1 DEF IsTab, Still
  <2> QED
    BY <1>1, <2>2, <2>3, OneTab
<1>4. Undisturbed
  BY <1>2, <1>3, Untold
<1>5. PICK u : TurnOk(Peer(t), {}, {u}) /\ tasks' \in [Actors -> Seq(TaskType)]
  BY <1>1, <1>2, SentOk
<1> QED
  BY <1>1, <1>2, <1>4, <1>5, QuietStep DEF RosterTypes, Holds, Heard

\* The host ends the room.
LEMMA EndKeeps ==
    ASSUME RosterInv, NEW t \in Tabs, End(t)
    PROVE  RosterInv'
<1>1. RosterTypes /\ \A o \in Tabs : tabs[o].online => Peer(o) \in up
  BY DEF RosterInv, SocketsInv, TabOk
<1>2. PICK p \in alive : /\ tasks' = [tasks EXCEPT ![p] = Append(@, Task("host", "findOpen", FALSE))]
                         /\ UNCHANGED <<seats, slot, room, up, inRoom, hears, bus, alive, tabs, crossed>>
  BY DEF End, Asks, tabOnly
<1>3. p \in Procs /\ p \in Actors /\ p \notin Peers
  BY <1>1, <1>2, Distinct DEF RosterTypes, Actors
<1>4. PICK u : u = Task("host", "findOpen", FALSE)
  OBVIOUS
<1>5. u \in TaskType /\ u.pc = "findOpen" /\ ~Awaited(u)
  <2>1. "host" = Operation("findOpen") /\ "findOpen" \in Pcs /\ "host" \in Ops
    BY OperationIs DEF Ops
  <2> QED
    BY <1>4, <2>1, TaskIs
<1>6. TurnOk(p, {}, {u}) /\ tasks' \in [Actors -> Seq(TaskType)]
  <2>1. u.pc \notin LockSteps \union EndSteps
    BY <1>5 DEF LockSteps, EndSteps
  <2> QED
    BY <1>1, <1>2, <1>3, <1>4, <1>5, <2>1, AddOk
<1>7. Undisturbed
  BY <1>1, <1>2, Untold, SameTabs
<1> QED
  BY <1>1, <1>2, <1>6, <1>7, QuietStep DEF RosterTypes, Holds, Heard

\* The host locks or unlocks it: nothing else about the lock is under way.
LEMMA LockKeeps ==
    ASSUME RosterInv, NEW t \in Tabs, Lock(t)
    PROVE  RosterInv'
<1>1. /\ RosterTypes /\ LockInv /\ tabs[t].locked \in BOOLEAN
      /\ \A o \in Tabs : tabs[o].online => Peer(o) \in up
  BY DEF RosterInv, RosterTypes, IsTab, SocketsInv, TabOk
<1>2. PICK p \in alive : /\ tasks' = [tasks EXCEPT ![p] = Append(@, Task("host", "find", ~tabs[t].locked))]
                         /\ UNCHANGED <<seats, slot, room, up, inRoom, hears, bus, alive, tabs, crossed>>
  BY DEF Lock, Asks, tabOnly
<1>3. p \in Procs /\ p \in Actors /\ p \notin Peers
  BY <1>1, <1>2, Distinct DEF RosterTypes, Actors
<1>4. PICK u : u = Task("host", "find", ~tabs[t].locked)
  OBVIOUS
<1>5. u \in TaskType /\ u.pc = "find" /\ ~Awaited(u)
  <2>1. "find" \in LockSteps /\ "host" \in Ops
    BY DEF Ops, LockSteps
  <2>2. "host" = Operation("find") /\ "find" \in Pcs
    BY <2>1, OperationIs
  <2>3. (~tabs[t].locked) \in BOOLEAN
    BY <1>1
  <2>4. PICK on \in BOOLEAN : on = ~tabs[t].locked
    BY <2>3
  <2>5. u = Task("host", "find", on)
    BY <1>4, <2>4
  <2>6. u = [op |-> "host", pc |-> "find", on |-> on, peer |-> None, mine |-> TRUE]
    BY <2>5 DEF Task
  <2>7. u.op = "host" /\ u.pc = "find" /\ u.op = Operation(u.pc)
    BY <2>2, <2>6
  <2>8. u \in TaskType
    BY <2>1, <2>2, <2>6, <2>7 DEF TaskType
  <2> QED
    BY <2>7, <2>8 DEF Awaited
<1>6. Turns(p, {}, {u}) /\ tasks' \in [Actors -> Seq(TaskType)]
  BY <1>1, <1>2, <1>3, <1>4, <1>5, AppendTurns DEF RosterTypes
<1>7. HandsOn(p, {}, {u})
  BY <1>3, <1>5, <1>6 DEF HandsOn, EndSteps
<1>8. Calm
  <2>1. Undisturbed
    BY <1>1, <1>2, Untold, SameTabs
  <2> QED
    BY <2>1 DEF Undisturbed, QuietTabs, Calm
<1>9. LockInv'
  <2>1. Requests = {}
    <3>1. \A q \in Procs : \A k \in DOMAIN tasks[q] : tasks[q][k].op # "host"
      BY DEF Lock
    <3>2. ASSUME NEW q \in Procs, NEW s \in Has(q), s.pc \in LockSteps PROVE FALSE
      <4>1. s.op # "host"
        BY <3>1 DEF Has
      <4>2. s \in TaskType
        BY <1>1 DEF Has, RosterTypes, Actors
      <4>3. s.op = Operation(s.pc)
        BY <4>2 DEF TaskType
      <4> QED
        BY <3>2, <4>1, <4>3, OperationIs
    <3> QED
      BY <3>2 DEF Requests
  <2>2. Updates = {}
    BY DEF Lock, Updates
  <2>3. \A s \in Requests' : s = u
    <3>1. \A q \in Procs : q \in Actors
      BY DEF Actors
    <3>2. ASSUME NEW q \in Procs, NEW s \in Has(q)', s.pc \in LockSteps, s # u PROVE FALSE
      BY <1>6, <2>1, <3>1, <3>2 DEF Turns, Requests
    <3> QED
      BY <3>2 DEF Requests
  <2>4. Updates' = {}
    BY <1>2, <2>2 DEF Updates, Coming
  <2>5. LocksOk'
    BY <1>5, <2>3, <2>4 DEF LocksOk
  <2>6. ASSUME ~room'.ended, NEW o \in Tabs PROVE LockOk(o)'
    <3>1. LockOk(o) /\ Peer(o) \in Peers
      BY <1>1, <1>2, <2>6 DEF LockInv, RosterTypes
    <3>2. Proc(Peer(o)) \in Procs
      BY <3>1, Processes DEF Actors
    <3>3. ~(\E s \in Requests : s.pc = "tell") /\ ~(\E m \in Coming(Proc(Peer(o))) : m.ev = "updated")
      BY <2>1, <2>2, <3>2 DEF Updates
    <3>4. ~(Fresh(o) /\ <<"locked", o>> \notin crossed /\ <<"deaf", Peer(o)>> \notin crossed /\ tabs[o].locked # room.locked)
      BY <3>1, <3>3 DEF LockOk
    <3>5. Fresh(o)' = Fresh(o) /\ Peer(o)' = Peer(o)
      BY <1>2 DEF Fresh, Shows, Peer
    <3> QED
      BY <1>2, <3>4, <3>5 DEF LockOk
  <2> QED
    BY <2>5, <2>6 DEF LockInv
<1> QED
  BY <1>1, <1>2, <1>6, <1>7, <1>8, <1>9, CalmStep DEF RosterTypes, Holds, Heard

-----------------------------------------------------------------------------
(* Tabs that open, close, and lose and regain their connection.            *)

\* A step of one tab alone, after which it is not shown the meeting by its connection.
LEMMA TabStepKeeps ==
    ASSUME RosterInv, RosterTypes', NEW t \in Tabs,
           UNCHANGED <<seats, slot, room, inRoom, hears, bus, alive, crossed>>,
           \A o \in Tabs : o # t => tabs'[o] = tabs[o],
           \A x \in Peers : x[1] # t => Has(x)' = Has(x) /\ (x \in up' <=> x \in up),
           \A p \in Procs : Has(p)' = Has(p),
           \A x \in Peers : \A k \in Has(x)' : Awaited(k) => k \in Has(x) \/ k.pc = "admit",
           \A x \in Peers : x[1] = t => SocketOk(x)',
           TabOk(t)', ~Fresh(t)'
    PROVE  RosterInv'
<1>1. RosterTypes /\ SocketsInv /\ EndOk /\ BusInv /\ ShownInv /\ LockInv
  BY DEF RosterInv
<1>2. ASSUME NEW o \in Tabs, o # t
      PROVE  /\ Peer(o)' = Peer(o) /\ Shows(o)' = Shows(o) /\ Fresh(o)' = Fresh(o)
             /\ Peer(o) \in Peers /\ Peer(o)[1] = o
  BY <1>1, <1>2 DEF Peer, Shows, Fresh, RosterTypes
<1>3. \A q : Coming(q)' = Coming(q)
  BY DEF Coming
<1>4. SocketsInv'
  <2>1. ASSUME NEW x \in Peers PROVE SocketOk(x)'
    <3>1. CASE x[1] # t
      <4>1. x[1] \in Tabs /\ SocketOk(x)
        BY <1>1, Owners DEF SocketsInv
      <4>2. Live(x)' = Live(x) /\ Has(x)' = Has(x) /\ (x \in up' <=> x \in up) /\ tabs'[x[1]] = tabs[x[1]]
        BY <1>2, <3>1, <4>1 DEF Live
      <4> QED
        BY <4>1, <4>2 DEF SocketOk
    <3> QED
      BY <3>1
  <2>2. ASSUME NEW o \in Tabs PROVE TabOk(o)'
    <3>1. CASE o # t
      <4>1. TabOk(o)
        BY <1>1 DEF SocketsInv
      <4>2. PICK x \in Peers : x = Peer(o)
        BY <1>2, <3>1
      <4>3. /\ Peer(o)' = x /\ Shows(o)' = Shows(o) /\ tabs'[o] = tabs[o] /\ (x \in up' <=> x \in up)
            /\ Has(Peer(o)) = Has(x) /\ Has(Peer(o))' = Has(x)
        <5>1. x[1] = o /\ Peer(o)' = x /\ Shows(o)' = Shows(o)
          BY <1>2, <3>1, <4>2
        <5>2. Has(x)' = Has(x) /\ (x \in up' <=> x \in up)
          BY <3>1, <5>1
        <5>3. Has(Peer(o))' = Has(x)'
          BY <5>1 DEF Has
        <5> QED
          BY <3>1, <4>2, <5>1, <5>2, <5>3
      <4> QED
        BY <4>1, <4>2, <4>3 DEF TabOk
    <3> QED
      BY <3>1
  <2> QED
    BY <2>1, <2>2 DEF SocketsInv
<1>5. EndOk' /\ BusInv'
  BY <1>1 DEF EndOk, BusInv, BatchOk
<1>6. ShownInv'
  <2>1. \A o \in Tabs : Fresh(o)' => Fresh(o) /\ Peer(o)' = Peer(o)
    BY <1>2
  <2>2. \A x \in Peers : \A k \in Has(x)' : Awaited(k) /\ k.pc \notin {"admit", "subscribe"} => k \in Has(x)
    OBVIOUS
  <2>3. \A x : (Holds(x)' = Holds(x)) /\ (PutOut(x)' = PutOut(x)) /\ (Heard(x)' = Heard(x))
    BY <1>3 DEF Holds, PutOut, Heard, Coming, Proc, Owner
  <2>4. \A x \in Peers : Live(x) => /\ x \in inRoom => x \in inRoom'
                                    /\ x \in hears => Heard(x)'
                                    /\ Holds(x) => Holds(x)'
                                    /\ PutOut(x) => PutOut(x)'
    BY <2>3 DEF Heard
  <2> QED
    BY <1>1, <2>1, <2>2, <2>4, ShownKept
<1>7. LockInv'
  <2>1. Requests' = Requests /\ Updates' = Updates
    BY <1>3 DEF Requests, Updates
  <2>2. ASSUME NEW o \in Tabs, Fresh(o)'
        PROVE  /\ Fresh(o) /\ Peer(o)' = Peer(o) /\ tabs'[o].locked = tabs[o].locked
               /\ \A m \in Coming(Proc(Peer(o))) : m.ev = "updated" => m \in Coming(Proc(Peer(o)))'
    <3>1. o # t
      BY <2>2
    <3>2. Coming(Proc(Peer(o)))' = Coming(Proc(Peer(o)))
      BY <1>2, <3>1 DEF Coming, Proc
    <3> QED
      BY <1>2, <2>2, <3>1, <3>2
  <2> QED
    BY <1>1, <2>1, <2>2, LockKept
<1> QED
  BY <1>4, <1>5, <1>6, <1>7 DEF RosterInv

\* A tab's request to join.
LEMMA JoinSent ==
    ASSUME RosterTypes, NEW x \in Peers, tasks' = [tasks EXCEPT ![x] = Append(@, Task("join", "admit", FALSE))]
    PROVE  /\ tasks' \in [Actors -> Seq(TaskType)]
           /\ \A y \in Peers : y # x => Has(y)' = Has(y)
           /\ \A p \in Procs : Has(p)' = Has(p)
           /\ \A k \in Has(x)' : k \in Has(x) \/ (k.op = "join" /\ k.pc = "admit")
           /\ \E k \in Has(x)' : Awaited(k)
<1>1. x \in Actors /\ x \notin Procs
  BY Distinct DEF Actors
<1>2. PICK u : u = Task("join", "admit", FALSE)
  OBVIOUS
<1>3. u \in TaskType /\ u.op = "join" /\ u.pc = "admit" /\ Awaited(u)
  <2>1. "admit" \in JoinSteps
    BY DEF JoinSteps
  <2>2. "admit" \in Pcs /\ Operation("admit") = "join"
    BY <2>1, OperationIs
  <2> QED
    BY <1>2, <2>2 DEF Task, TaskType, Awaited, Ops
<1>4. Turns(x, {}, {u}) /\ tasks' \in [Actors -> Seq(TaskType)]
  BY <1>1, <1>2, <1>3, AppendTurns DEF RosterTypes
<1>5. \A b \in Peers \union Procs : b \in Actors
  BY DEF Actors
<1> QED
  BY <1>1, <1>3, <1>4, <1>5 DEF Turns

\* A page opens.
LEMMA OpenKeeps ==
    ASSUME RosterInv, NEW t \in Tabs, Open(t)
    PROVE  RosterInv'
<1>1. RosterTypes /\ SocketsInv /\ TabOk(t) /\ IsTab(tabs[t]) /\ Peer(t) \in Peers
  BY DEF RosterInv, RosterTypes, SocketsInv
<1>2. PICK tab : tab = [Out0 EXCEPT !.n = tabs[t].n, !.open = TRUE, !.status = "joining"]
  OBVIOUS
<1>3. PICK x \in Peers : x = Peer(t)
  BY <1>1
<1>4. /\ UNCHANGED <<seats, slot, room, up, inRoom, hears, bus, alive, crossed>>
      /\ tabs' = [tabs EXCEPT ![t] = tab]
      /\ tasks' = [tasks EXCEPT ![x] = Append(@, Task("join", "admit", FALSE))]
      /\ tabs[t].online /\ ~tabs[t].open
  BY <1>2, <1>3 DEF Open, tabOnly, Sent
<1>5. \A k \in Has(x) : k.op # "leave"
  BY <1>3 DEF Open, Has
<1>6. IsTab(tab) /\ tab.n = tabs[t].n /\ tab.online /\ tab.open /\ tab.status = "joining" /\ tab.self = None
  BY <1>1, <1>2 DEF Out0, IsTab, Statuses
<1>7. tabs'[t] = tab /\ DOMAIN tabs' = Tabs /\ \A o \in Tabs : o # t => tabs'[o] = tabs[o]
  BY <1>1, <1>4 DEF RosterTypes
<1>8. /\ tasks' \in [Actors -> Seq(TaskType)]
      /\ \A y \in Peers : y # x => Has(y)' = Has(y)
      /\ \A p \in Procs : Has(p)' = Has(p)
      /\ \A k \in Has(x)' : k \in Has(x) \/ (k.op = "join" /\ k.pc = "admit")
  BY <1>1, <1>4, JoinSent
<1>9. Peer(t)' = x /\ \A o \in Tabs : Peer(o)' = Peer(o)
  BY <1>3, <1>6, <1>7 DEF Peer
<1>10. RosterTypes'
  <2>1. \A o \in Tabs : IsTab(tabs'[o]) /\ Peer(o)' \in Peers
    BY <1>1, <1>6, <1>7, <1>9 DEF RosterTypes
  <2> QED
    BY <1>1, <1>4, <1>7, <1>8, <2>1 DEF RosterTypes
<1>11. x[1] = t /\ x[2] = tabs[t].n /\ x \in up
  BY <1>1, <1>3, <1>4 DEF Peer, TabOk
<1>12. ASSUME NEW y \in Peers, y[1] = t PROVE SocketOk(y)'
  <2>1. SocketOk(y) /\ tabs'[y[1]].n = tabs[y[1]].n
    BY <1>1, <1>6, <1>7, <1>12 DEF SocketsInv
  <2>2. CASE y = x
    <3>1. Live(y)'
      BY <1>6, <1>7, <1>9, <1>11, <2>2 DEF Live
    <3>2. \A k \in Has(y)' : k.op # "leave"
      BY <1>5, <1>8, <2>2
    <3>3. y[2] <= tabs'[y[1]].n
      BY <1>1, <1>6, <1>7, <1>11, <2>2 DEF IsTab
    <3> QED
      BY <3>1, <3>2, <3>3 DEF SocketOk
  <2>3. CASE y # x
    <3>1. ~Live(y) /\ ~Live(y)'
      BY <1>3, <1>9, <1>12, <2>3 DEF Live
    <3>2. Has(y)' = Has(y)
      BY <1>8, <2>3
    <3> QED
      BY <1>4, <2>1, <3>1, <3>2 DEF SocketOk
  <2> QED
    BY <2>2, <2>3
<1>13. TabOk(t)' /\ ~Fresh(t)'
  BY <1>1, <1>3, <1>4, <1>6, <1>7, <1>9 DEF TabOk, Fresh, Shows, Proc
<1>14. \A y \in Peers : y[1] # t => Has(y)' = Has(y) /\ (y \in up' <=> y \in up)
  BY <1>4, <1>8, <1>11
<1>15. \A y \in Peers : \A k \in Has(y)' : Awaited(k) => k \in Has(y) \/ k.pc = "admit"
  BY <1>8
<1> QED
  BY <1>4, <1>7, <1>8, <1>10, <1>12, <1>13, <1>14, <1>15, TabStepKeeps

\* A tab that is to be the one again.
LEMMA RejoinKeeps ==
    ASSUME RosterInv, NEW t \in Tabs, Rejoin(t)
    PROVE  RosterInv'
<1>1. RosterTypes /\ SocketsInv /\ TabOk(t) /\ IsTab(tabs[t]) /\ Peer(t) \in Peers
  BY DEF RosterInv, RosterTypes, SocketsInv
<1>2. PICK tab : tab = [tabs[t] EXCEPT !.status = "joining"]
  OBVIOUS
<1>3. PICK x \in Peers : x = Peer(t)
  BY <1>1
<1>4. /\ UNCHANGED <<seats, slot, room, up, inRoom, hears, bus, alive, crossed>>
      /\ tabs' = [tabs EXCEPT ![t] = tab]
      /\ tasks' = [tasks EXCEPT ![x] = Append(@, Task("join", "admit", FALSE))]
      /\ tabs[t].online /\ tabs[t].open
  BY <1>1, <1>2, <1>3 DEF Rejoin, tabOnly, Sent, RosterTypes
<1>6. IsTab(tab) /\ tab.n = tabs[t].n /\ tab.online /\ tab.open /\ tab.status = "joining" /\ tab.self = tabs[t].self
  BY <1>1, <1>2, <1>4 DEF IsTab, Statuses
<1>7. tabs'[t] = tab /\ DOMAIN tabs' = Tabs /\ \A o \in Tabs : o # t => tabs'[o] = tabs[o]
  BY <1>1, <1>4 DEF RosterTypes
<1>8. /\ tasks' \in [Actors -> Seq(TaskType)]
      /\ \A y \in Peers : y # x => Has(y)' = Has(y)
      /\ \A p \in Procs : Has(p)' = Has(p)
      /\ \A k \in Has(x)' : k \in Has(x) \/ (k.op = "join" /\ k.pc = "admit")
  BY <1>1, <1>4, JoinSent
<1>9. Peer(t)' = x /\ \A o \in Tabs : Peer(o)' = Peer(o)
  BY <1>3, <1>6, <1>7 DEF Peer
<1>10. RosterTypes'
  BY <1>1, <1>4, <1>6, <1>7, <1>8, <1>9 DEF RosterTypes
<1>11. x[1] = t /\ x[2] = tabs[t].n /\ x \in up
  BY <1>1, <1>3, <1>4 DEF Peer, TabOk
<1>12. ASSUME NEW y \in Peers, y[1] = t PROVE SocketOk(y)'
  <2>1. SocketOk(y) /\ tabs'[y[1]].n = tabs[y[1]].n
    BY <1>1, <1>6, <1>7, <1>12 DEF SocketsInv
  <2>2. CASE y = x
    <3>1. Live(y)' /\ Live(y)
      BY <1>3, <1>4, <1>6, <1>7, <1>9, <1>11, <2>2 DEF Live
    <3>2. \A k \in Has(y)' : k.op # "leave"
      BY <1>8, <2>1, <2>2, <3>1 DEF SocketOk
    <3>3. y[2] <= tabs'[y[1]].n
      BY <1>1, <1>6, <1>7, <1>11, <2>2 DEF IsTab
    <3> QED
      BY <3>1, <3>2, <3>3 DEF SocketOk
  <2>3. CASE y # x
    <3>1. ~Live(y) /\ ~Live(y)'
      BY <1>3, <1>9, <1>12, <2>3 DEF Live
    <3>2. Has(y)' = Has(y)
      BY <1>8, <2>3
    <3> QED
      BY <1>4, <2>1, <3>1, <3>2 DEF SocketOk
  <2> QED
    BY <2>2, <2>3
<1>13. TabOk(t)' /\ ~Fresh(t)'
  BY <1>1, <1>3, <1>4, <1>6, <1>7, <1>9 DEF TabOk, Fresh, Shows, Proc
<1>14. \A y \in Peers : y[1] # t => Has(y)' = Has(y) /\ (y \in up' <=> y \in up)
  BY <1>4, <1>8, <1>11
<1>15. \A y \in Peers : \A k \in Has(y)' : Awaited(k) => k \in Has(y) \/ k.pc = "admit"
  BY <1>8
<1> QED
  BY <1>4, <1>7, <1>8, <1>10, <1>12, <1>13, <1>14, <1>15, TabStepKeeps

\* What is still under way of a connection whose answers nobody awaits any more.
LEMMA ForgottenAre ==
    ASSUME RosterTypes, NEW x \in Peers,
           \/ tasks' = Forgotten(x)
           \/ tasks' = [Forgotten(x) EXCEPT ![x] = Append(@, Task("leave", "leave", FALSE))]
    PROVE  /\ tasks' \in [Actors -> Seq(TaskType)]
           /\ \A y \in Peers : y # x => Has(y)' = Has(y)
           /\ \A p \in Procs : Has(p)' = Has(p)
           /\ \A k \in Has(x)' : ~Awaited(k)
<1>1. x \in Actors /\ x \notin Procs /\ \A b \in Peers \union Procs : b \in Actors
  BY Distinct DEF Actors
<1>2. PICK q : q = Forgotten(x)
  OBVIOUS
<1>3. /\ q \in [Actors -> Seq(TaskType)]
      /\ Elems(q[x]) = {[t EXCEPT !.mine = FALSE] : t \in Has(x)}
      /\ \A b \in Actors \ {x} : q[b] = tasks[b]
  <2>1. tasks \in [Actors -> Seq(TaskType)]
    BY DEF RosterTypes
  <2>2. q \in [Actors -> Seq(TaskType)]
    BY <1>1, <1>2, <2>1, ForgottenHas
  <2>3. Elems(q[x]) = {[t EXCEPT !.mine = FALSE] : t \in Has(x)}
    BY <1>1, <1>2, <2>1, ForgottenHas
  <2>4. \A b \in Actors \ {x} : q[b] = tasks[b]
    BY <1>1, <1>2, <2>1, ForgottenHas
  <2> QED
    BY <2>2, <2>3, <2>4
<1>4. ASSUME NEW k \in Elems(q[x]) PROVE ~Awaited(k)
  <2>1. PICK s \in Has(x) : k = [s EXCEPT !.mine = FALSE]
    BY <1>3
  <2>2. s \in TaskType
    BY <1>1 DEF Has, RosterTypes
  <2> QED
    BY <2>1, <2>2 DEF Awaited, TaskType
<1>5. CASE tasks' = q
  <2>1. Has(x)' = Elems(q[x]) /\ \A b \in Actors \ {x} : Has(b)' = Has(b)
    BY <1>3, <1>5 DEF Has, Elems
  <2> QED
    BY <1>1, <1>3, <1>4, <1>5, <2>1
<1>6. CASE tasks' = [q EXCEPT ![x] = Append(@, Task("leave", "leave", FALSE))]
  <2>1. PICK u : u = Task("leave", "leave", FALSE)
    OBVIOUS
  <2>2. u \in TaskType /\ ~Awaited(u)
    <3>1. "leave" \in LeaveSteps
      BY DEF LeaveSteps
    <3>2. "leave" \in Pcs /\ Operation("leave") = "leave"
      BY <3>1, OperationIs
    <3> QED
      BY <2>1, <3>2 DEF Task, TaskType, Awaited, Ops
  <2>3. PICK r : r = Append(q[x], u)
    OBVIOUS
  <2>4. r \in Seq(TaskType) /\ Elems(r) = Elems(q[x]) \union {u}
    BY <1>1, <1>3, <2>2, <2>3, AppendedHas
  <2>5. tasks' = [q EXCEPT ![x] = r]
    BY <1>1, <1>3, <1>6, <2>1, <2>3
  <2>6. tasks' \in [Actors -> Seq(TaskType)] /\ tasks'[x] = r /\ \A b \in Actors \ {x} : tasks'[b] = tasks[b]
    BY <1>1, <1>3, <2>4, <2>5
  <2>7. Has(x)' = Elems(r) /\ \A b \in Actors \ {x} : Has(b)' = Has(b)
    BY <2>6 DEF Has, Elems
  <2> QED
    BY <1>1, <1>4, <2>2, <2>4, <2>6, <2>7
<1> QED
  BY <1>2, <1>5, <1>6

\* A step after which a tab awaits nothing of its connection.
LEMMA Abandons ==
    ASSUME RosterInv, NEW t \in Tabs, NEW x \in Peers, x = Peer(t),
           UNCHANGED <<seats, slot, room, up, inRoom, hears, bus, alive, crossed>>,
           NEW tab, tabs' = [tabs EXCEPT ![t] = tab], IsTab(tab), tab.n = tabs[t].n, tab.self \in {None, tabs[t].self},
           tab.online => tabs[t].online, ~tab.online \/ ~tab.open,
           \/ tasks' = Forgotten(x)
           \/ tasks' = [Forgotten(x) EXCEPT ![x] = Append(@, Task("leave", "leave", FALSE))]
    PROVE  RosterInv'
<1>1. RosterTypes /\ SocketsInv /\ TabOk(t) /\ IsTab(tabs[t])
  BY DEF RosterInv, RosterTypes, SocketsInv
<1>2. tabs'[t] = tab /\ DOMAIN tabs' = Tabs /\ \A o \in Tabs : o # t => tabs'[o] = tabs[o]
  BY <1>1 DEF RosterTypes
<1>3. /\ tasks' \in [Actors -> Seq(TaskType)]
      /\ \A y \in Peers : y # x => Has(y)' = Has(y)
      /\ \A p \in Procs : Has(p)' = Has(p)
      /\ \A k \in Has(x)' : ~Awaited(k)
  BY <1>1, ForgottenAre
<1>4. Peer(t)' = x /\ \A o \in Tabs : Peer(o)' = Peer(o)
  BY <1>2 DEF Peer
<1>5. RosterTypes'
  BY <1>1, <1>2, <1>3, <1>4 DEF RosterTypes
<1>6. x[1] = t /\ x[2] = tabs[t].n
  BY DEF Peer
<1>7. ASSUME NEW y \in Peers, y[1] = t PROVE SocketOk(y)'
  <2>1. SocketOk(y) /\ tabs'[y[1]].n = tabs[y[1]].n
    BY <1>1, <1>2, <1>7 DEF SocketsInv
  <2>2. ~Live(y)'
    BY <1>2, <1>7 DEF Live
  <2>3. CASE y = x
    <3>1. y[2] <= tabs'[y[1]].n
      BY <1>1, <1>2, <1>6, <2>3 DEF IsTab
    <3> QED
      BY <1>3, <2>2, <2>3, <3>1 DEF SocketOk
  <2>4. CASE y # x
    <3>1. ~Live(y)
      BY <1>7, <2>4 DEF Live
    <3>2. Has(y)' = Has(y)
      BY <1>3, <2>4
    <3> QED
      BY <2>1, <2>2, <3>1, <3>2 DEF SocketOk
  <2> QED
    BY <2>3, <2>4
<1>8. TabOk(t)' /\ ~Fresh(t)'
  BY <1>1, <1>2, <1>4 DEF TabOk, Fresh, Shows, Proc
<1>9. \A y \in Peers : y[1] # t => Has(y)' = Has(y) /\ (y \in up' <=> y \in up)
  BY <1>3, <1>6
<1>10. \A y \in Peers : \A k \in Has(y)' : Awaited(k) => k \in Has(y) \/ k.pc = "admit"
  BY <1>3
<1> QED
  BY <1>2, <1>3, <1>5, <1>7, <1>8, <1>9, <1>10, TabStepKeeps

\* A page closes.
LEMMA CloseKeeps ==
    ASSUME RosterInv, NEW t \in Tabs, Close(t)
    PROVE  RosterInv'
<1>1. RosterTypes /\ IsTab(tabs[t]) /\ Peer(t) \in Peers
  BY DEF RosterInv, RosterTypes
<1>2. PICK tab : tab = [Out0 EXCEPT !.n = tabs[t].n, !.online = tabs[t].online]
  OBVIOUS
<1>3. PICK x \in Peers : x = Peer(t)
  BY <1>1
<1>4. /\ UNCHANGED <<seats, slot, room, up, inRoom, hears, bus, alive, crossed>>
      /\ tabs' = [tabs EXCEPT ![t] = tab]
      /\ \/ tasks' = Forgotten(x)
         \/ tasks' = [Forgotten(x) EXCEPT ![x] = Append(@, Task("leave", "leave", FALSE))]
  BY <1>2, <1>3 DEF Close, tabOnly
<1>5. IsTab(tab) /\ tab.n = tabs[t].n /\ tab.self = None /\ tab.online = tabs[t].online /\ ~tab.open
  BY <1>1, <1>2 DEF Out0, IsTab, Statuses
<1> QED
  BY <1>3, <1>4, <1>5, Abandons

\* A tab without its connection.
LEMMA CutIs ==
    ASSUME NEW old, IsTab(old), NEW waiting \in BOOLEAN, NEW tab, tab = Cut(old, waiting)
    PROVE  IsTab(tab) /\ tab.n = old.n /\ tab.self = old.self /\ ~tab.online
<1>1. old = [n |-> old.n, online |-> old.online, open |-> old.open, status |-> old.status, joined |-> old.joined,
             self |-> old.self, roster |-> old.roster, locked |-> old.locked, screen |-> old.screen,
             media |-> old.media, sharing |-> old.sharing]
  BY DEF IsTab
<1>2. CASE waiting
  BY <1>1, <1>2 DEF Cut, IsTab, Statuses
<1>3. CASE ~waiting
  BY <1>1, <1>3 DEF Cut, IsTab, Statuses
<1> QED
  BY <1>2, <1>3

\* A connection is lost.
LEMMA DropKeeps ==
    ASSUME RosterInv, NEW t \in Tabs, Drop(t)
    PROVE  RosterInv'
<1>1. RosterTypes /\ IsTab(tabs[t]) /\ Peer(t) \in Peers
  BY DEF RosterInv, RosterTypes
<1>2. PICK tab : tab = Cut(tabs[t], Waiting(t))
  OBVIOUS
<1>3. PICK x \in Peers : x = Peer(t)
  BY <1>1
<1>4. /\ UNCHANGED <<seats, slot, room, up, inRoom, hears, bus, alive, crossed>>
      /\ tabs' = [tabs EXCEPT ![t] = tab]
      /\ tasks' = Forgotten(x)
  BY <1>1, <1>2, <1>3 DEF Drop, tabOnly, RosterTypes
<1>5. IsTab(tab) /\ tab.n = tabs[t].n /\ tab.self = tabs[t].self /\ ~tab.online
  <2>1. Waiting(t) \in BOOLEAN
    BY DEF Waiting
  <2> QED
    BY <1>1, <1>2, <2>1, CutIs
<1> QED
  BY <1>3, <1>4, <1>5, Abandons

\* A tab connects anew, to a process that has nothing of it in flight.
LEMMA ReconnectKeeps ==
    ASSUME RosterInv, NEW t \in Tabs, Reconnect(t)
    PROVE  RosterInv'
<1>1. RosterTypes /\ SocketsInv /\ TabOk(t) /\ IsTab(tabs[t]) /\ Peer(t) \in Peers
  BY DEF RosterInv, RosterTypes, SocketsInv
<1>2. PICK x : x = <<t, tabs[t].n + 1>>
  OBVIOUS
<1>3. PICK s : s = IF ~tabs[t].open \/ tabs[t].status = "joined" THEN tabs[t].status ELSE "joining"
  OBVIOUS
<1>0. PICK tab : tab = [tabs[t] EXCEPT !.n = tabs[t].n + 1, !.online = TRUE, !.status = s]
  OBVIOUS
<1>4. /\ UNCHANGED <<seats, slot, room, inRoom, hears, bus, alive, crossed>>
      /\ ~tabs[t].online /\ x \in Peers /\ Proc(x) \in alive /\ up' = up \union {x}
      /\ tabs' = [tabs EXCEPT ![t] = tab]
      /\ tasks' = IF tabs[t].open THEN [tasks EXCEPT ![x] = Append(@, Task("join", "admit", FALSE))] ELSE tasks
  <2>1. /\ UNCHANGED <<seats, slot, room, inRoom, hears, bus, alive, crossed>>
        /\ ~tabs[t].online /\ x \in Peers /\ Proc(x) \in alive /\ up' = up \union {x}
        /\ tasks' = IF tabs[t].open THEN [tasks EXCEPT ![x] = Append(@, Task("join", "admit", FALSE))] ELSE tasks
    BY <1>2 DEF Reconnect
  <2>2. tabs' = [tabs EXCEPT ![t].n = @ + 1, ![t].online = TRUE,
                             ![t].status = IF ~tabs[t].open \/ @ = "joined" THEN @ ELSE "joining"]
    BY DEF Reconnect
  <2>3. DOMAIN tabs' = Tabs /\ \A o \in Tabs : o # t => tabs'[o] = tabs[o]
    BY <1>1, <2>2 DEF RosterTypes
  <2>4. tabs'[t] = tab
    BY <1>0, <1>1, <1>3, <2>2 DEF RosterTypes, IsTab
  <2>5. tabs' = [tabs EXCEPT ![t] = tab]
    BY <1>1, <2>2, <2>3, <2>4 DEF RosterTypes
  <2> QED
    BY <2>1, <2>5
<1>5. /\ IsTab(tab) /\ tab.n = tabs[t].n + 1 /\ tab.online /\ tab.open = tabs[t].open /\ tab.self = tabs[t].self
      /\ tabs[t].n \in Nat
  <2>1. s \in Statuses
    BY <1>1, <1>3 DEF IsTab, Statuses
  <2>2. PICK old : old = tabs[t]
    OBVIOUS
  <2>3. old = [n |-> old.n, online |-> old.online, open |-> old.open, status |-> old.status, joined |-> old.joined,
               self |-> old.self, roster |-> old.roster, locked |-> old.locked, screen |-> old.screen,
               media |-> old.media, sharing |-> old.sharing]
    BY <1>1, <2>2 DEF IsTab
  <2>4. tab = [old EXCEPT !.n = old.n + 1, !.online = TRUE, !.status = s]
    BY <1>0, <2>2
  <2>5. tab.n = old.n + 1 /\ tab.online = TRUE /\ tab.open = old.open /\ tab.self = old.self /\ tab.status = s
    BY <2>3, <2>4
  <2>6. old.n \in Nat /\ old.n + 1 \in Nat
    BY <1>1, <2>2 DEF IsTab
  <2>7. IsTab(tab)
    BY <1>1, <2>1, <2>2, <2>3, <2>4, <2>6 DEF IsTab
  <2> QED
    BY <2>2, <2>5, <2>6, <2>7
<1>6. tabs'[t] = tab /\ DOMAIN tabs' = Tabs /\ \A o \in Tabs : o # t => tabs'[o] = tabs[o]
  BY <1>1, <1>4 DEF RosterTypes
<1>7. x[1] = t /\ x[2] = tabs[t].n + 1 /\ Peer(t)' = x /\ \A o \in Tabs : o # t => Peer(o)' = Peer(o)
  BY <1>2, <1>5, <1>6 DEF Peer
<1>8. Has(x) = {} /\ x # Peer(t)
  <2>1. SocketOk(x)
    BY <1>1, <1>4 DEF SocketsInv
  <2>2. ~(x[2] <= tabs[x[1]].n)
    BY <1>5, <1>7
  <2>3. Peer(t)[2] = tabs[t].n
    BY DEF Peer
  <2> QED
    BY <1>5, <1>7, <2>1, <2>2, <2>3 DEF SocketOk
<1>9. /\ tasks' \in [Actors -> Seq(TaskType)]
      /\ \A y \in Peers : y # x => Has(y)' = Has(y)
      /\ \A p \in Procs : Has(p)' = Has(p)
      /\ \A k \in Has(x)' : tabs[t].open /\ k.op = "join" /\ k.pc = "admit"
      /\ tabs[t].open => \E k \in Has(x)' : Awaited(k)
  <2>1. CASE tabs[t].open
    <3>1. tasks' = [tasks EXCEPT ![x] = Append(@, Task("join", "admit", FALSE))]
      BY <1>4, <2>1
    <3>2. /\ tasks' \in [Actors -> Seq(TaskType)]
          /\ \A y \in Peers : y # x => Has(y)' = Has(y)
          /\ \A p \in Procs : Has(p)' = Has(p)
          /\ \A k \in Has(x)' : k \in Has(x) \/ (k.op = "join" /\ k.pc = "admit")
          /\ \E k \in Has(x)' : Awaited(k)
      BY <1>1, <1>4, <3>1, JoinSent
    <3> QED
      BY <1>8, <2>1, <3>2
  <2>2. CASE ~tabs[t].open
    <3>1. tasks' = tasks
      BY <1>4, <2>2
    <3>2. \A a : Has(a)' = Has(a)
      BY <3>1 DEF Has
    <3> QED
      BY <1>1, <1>8, <2>2, <3>1, <3>2 DEF RosterTypes
  <2> QED
    BY <2>1, <2>2
<1>10. RosterTypes'
  <2>1. \A o \in Tabs : IsTab(tabs'[o]) /\ Peer(o)' \in Peers
    BY <1>1, <1>4, <1>5, <1>6, <1>7 DEF RosterTypes
  <2> QED
    BY <1>1, <1>4, <1>6, <1>9, <2>1 DEF RosterTypes
<1>11. ASSUME NEW y \in Peers, y[1] = t PROVE SocketOk(y)'
  <2>1. SocketOk(y) /\ y[2] \in Nat
    BY <1>1, Owners DEF SocketsInv
  <2>2. CASE y = x
    <3>1. y[2] <= tabs'[y[1]].n
      BY <1>5, <1>6, <1>7, <2>2
    <3>2. tabs[t].open => Live(y)'
      BY <1>5, <1>6, <1>7, <2>2 DEF Live
    <3>3. \A k \in Has(y)' : (Awaited(k) => Live(y)') /\ k.op # "leave"
      BY <1>9, <2>2, <3>2
    <3> QED
      BY <3>1, <3>3 DEF SocketOk
  <2>3. CASE y # x
    <3>1. ~Live(y) /\ ~Live(y)'
      BY <1>4, <1>7, <1>11, <2>3 DEF Live
    <3>2. Has(y)' = Has(y) /\ (y \in up' <=> y \in up)
      BY <1>4, <1>9, <2>3
    <3>3. y[2] <= tabs[y[1]].n => y[2] <= tabs'[y[1]].n
      BY <1>5, <1>6, <1>11, <2>1
    <3> QED
      BY <2>1, <3>1, <3>2, <3>3 DEF SocketOk
  <2> QED
    BY <2>2, <2>3
<1>12. tabs[t].self # None => tabs[t].self \in Peers /\ tabs[t].self[1] = t /\ tabs[t].self[2] <= tabs[t].n /\ tabs[t].self[2] \in Nat
  BY <1>1, Owners DEF TabOk
<1>13. tabs[t].self # x
  BY <1>4, <1>5, <1>7, <1>12, Distinct
<1>14. TabOk(t)'
  <2>1. tabs'[t].self # None => tabs'[t].self \in Peers /\ tabs'[t].self[1] = t /\ tabs'[t].self[2] <= tabs'[t].n
    <3>1. tabs'[t].self = tabs[t].self /\ tabs'[t].n = tabs[t].n + 1 /\ tabs[t].n \in Nat
      BY <1>5, <1>6
    <3> QED
      BY <1>12, <3>1
  <2>2. Peer(t)' \in up' /\ Proc(Peer(t))' \in alive'
    BY <1>4, <1>7 DEF Proc
  <2>3. tabs'[t].online /\ Shows(t)' /\ tabs'[t].self # Peer(t)' => \E k \in Has(Peer(t))' : Awaited(k)
    <3>1. Has(Peer(t))' = Has(x)'
      BY <1>7 DEF Has
    <3> QED
      BY <1>5, <1>6, <1>9, <3>1 DEF Shows
  <2> QED
    BY <2>1, <2>2, <2>3 DEF TabOk
<1>15. ~Fresh(t)'
  BY <1>5, <1>6, <1>7, <1>13 DEF Fresh
<1>16. \A y \in Peers : y[1] # t => Has(y)' = Has(y) /\ (y \in up' <=> y \in up)
  BY <1>4, <1>7, <1>9
<1>17. \A y \in Peers : \A k \in Has(y)' : Awaited(k) => k \in Has(y) \/ k.pc = "admit"
  BY <1>9
<1> QED
  BY <1>4, <1>6, <1>9, <1>10, <1>11, <1>14, <1>15, <1>16, <1>17, TabStepKeeps

-----------------------------------------------------------------------------
(* Processes that die, and what arrives.                                   *)

\* Who was connected to a process that dies is connected no more.
LEMMA CrashKeeps ==
    ASSUME RosterInv, NEW p \in Procs, Crash(p)
    PROVE  RosterInv'
<1> DEFINE gone(x) == x # None /\ Proc(x) = p
<1>1. RosterTypes /\ SocketsInv /\ EndOk /\ BusInv /\ ShownInv /\ LockInv
  BY DEF RosterInv
<1>2. /\ UNCHANGED <<seats, slot, room>>
      /\ alive' = alive \ {p}
      /\ up' = {x \in up : ~gone(x)} /\ hears' = {x \in hears : ~gone(x)} /\ inRoom' = {x \in inRoom : ~gone(x)}
      /\ tabs' = [t \in Tabs |-> IF tabs[t].online /\ gone(Peer(t)) THEN Cut(tabs[t], Waiting(t)) ELSE tabs[t]]
      /\ tasks' = [a \in Actors |-> IF Proc(a) = p THEN <<>> ELSE tasks[a]]
      /\ bus' = [l \in DOMAIN bus |-> IF l[2] = p THEN <<>> ELSE bus[l]]
      /\ crossed \subseteq crossed'
      /\ (\E k \in DOMAIN tasks[p] : tasks[p][k].pc = "tell") => {"locked"} \X Tabs \subseteq crossed'
  BY DEF Crash
<1>3. ASSUME NEW t \in Tabs
      PROVE  /\ IsTab(tabs'[t]) /\ tabs'[t].n = tabs[t].n /\ tabs'[t].self = tabs[t].self /\ Peer(t)' = Peer(t)
             /\ tabs'[t].online => tabs'[t] = tabs[t] /\ Proc(Peer(t)) # p
             /\ Peer(t) \in Peers /\ Peer(t) # None
  <2>1. IsTab(tabs[t]) /\ Peer(t) \in Peers /\ Peer(t) # None
    BY <1>1, Distinct DEF RosterTypes
  <2>2. CASE tabs[t].online /\ gone(Peer(t))
    <3>1. Waiting(t) \in BOOLEAN
      BY DEF Waiting
    <3>2. PICK tab : tab = Cut(tabs[t], Waiting(t))
      OBVIOUS
    <3>3. IsTab(tab) /\ tab.n = tabs[t].n /\ tab.self = tabs[t].self /\ ~tab.online
      BY <2>1, <3>1, <3>2, CutIs
    <3>4. tabs'[t] = tab
      BY <1>2, <2>2, <3>2
    <3> QED
      BY <2>1, <3>3, <3>4 DEF Peer
  <2>3. CASE ~(tabs[t].online /\ gone(Peer(t)))
    <3>1. tabs'[t] = tabs[t]
      BY <1>2, <2>3
    <3> QED
      BY <2>1, <2>3, <3>1 DEF Peer
  <2> QED
    BY <2>2, <2>3
<1>4. ASSUME NEW a \in Actors
      PROVE  /\ Proc(a) = p => Has(a)' = {}
             /\ Proc(a) # p => Has(a)' = Has(a)
             /\ Has(a)' \subseteq Has(a)
  BY <1>2 DEF Has
<1>5. Peers \subseteq Actors /\ Procs \subseteq Actors
  BY DEF Actors
<1>6. ASSUME NEW x \in Peers, Proc(x) # p
      PROVE  (x \in up' <=> x \in up) /\ (x \in hears' <=> x \in hears) /\ (x \in inRoom' <=> x \in inRoom)
  BY <1>2, <1>6
<1>7. ASSUME NEW x \in Peers, Proc(x) = p
      PROVE  x \notin up'
  BY <1>2, <1>7, Distinct
<1>8. DOMAIN bus = Links /\ \A l \in Links : bus'[l] = IF l[2] = p THEN <<>> ELSE bus[l]
  BY <1>1, <1>2 DEF RosterTypes
<1>9. /\ \A q : Coming(q)' \subseteq Coming(q)
      /\ \A q : q # p => Coming(q)' = Coming(q)
  <2>1. DOMAIN bus' = Links
    BY <1>1, <1>2 DEF RosterTypes
  <2>2. ASSUME NEW q, NEW m \in Coming(q)' PROVE m \in Coming(q)
    <3>1. PICK l \in Links : l[2] = q /\ \E i \in DOMAIN bus'[l] : m \in Range(bus'[l][i])
      BY <2>1, <2>2 DEF Coming
    <3>2. PICK i \in DOMAIN bus'[l] : m \in Range(bus'[l][i])
      BY <3>1
    <3>3. bus'[l] = bus[l]
      BY <1>8, <3>2
    <3> QED
      BY <1>8, <3>1, <3>2, <3>3 DEF Coming
  <2>3. ASSUME NEW q, q # p, NEW m \in Coming(q) PROVE m \in Coming(q)'
    <3>1. PICK l \in Links : l[2] = q /\ \E i \in DOMAIN bus[l] : m \in Range(bus[l][i])
      BY <1>8, <2>3 DEF Coming
    <3>2. PICK i \in DOMAIN bus[l] : m \in Range(bus[l][i])
      BY <3>1
    <3>3. bus'[l] = bus[l]
      BY <1>8, <2>3, <3>1
    <3> QED
      BY <2>1, <3>1, <3>2, <3>3 DEF Coming
  <2> QED
    BY <2>2, <2>3
<1>10. RosterTypes'
  <2>1. tasks' \in [Actors -> Seq(TaskType)]
    BY <1>1, <1>2 DEF RosterTypes
  <2>2. bus' \in [Links -> Seq(Seq(MsgType))]
    BY <1>1, <1>2, <1>8 DEF RosterTypes
  <2>3. DOMAIN tabs' = Tabs /\ \A t \in Tabs : IsTab(tabs'[t]) /\ Peer(t)' \in Peers
    BY <1>2, <1>3
  <2>4. up' \subseteq Peers /\ inRoom' \subseteq Peers /\ hears' \subseteq Peers /\ alive' \subseteq Procs
    BY <1>1, <1>2 DEF RosterTypes
  <2> QED
    BY <1>1, <1>2, <2>1, <2>2, <2>3, <2>4 DEF RosterTypes
<1>11. ASSUME NEW x \in Peers
       PROVE  Live(x)' => Live(x) /\ Proc(x) # p
  <2>1. x[1] \in Tabs
    BY Owners
  <2> QED
    BY <1>3, <2>1 DEF Live
<1>12. ASSUME NEW x \in Peers, Live(x), Proc(x) # p PROVE Live(x)'
  <2>1. x[1] \in Tabs
    BY Owners
  <2>2. tabs'[x[1]] = tabs[x[1]]
    BY <1>2, <1>12, <2>1 DEF Live
  <2> QED
    BY <1>3, <1>12, <2>1, <2>2 DEF Live
<1>13. SocketsInv'
  <2>1. ASSUME NEW x \in Peers PROVE SocketOk(x)'
    <3>1. SocketOk(x) /\ x \in Actors /\ x[1] \in Tabs
      BY <1>1, <1>5, Owners DEF SocketsInv
    <3>2. CASE Proc(x) = p
      <4>1. Has(x)' = {} /\ x \notin up'
        BY <1>4, <1>7, <3>1, <3>2
      <4> QED
        BY <4>1 DEF SocketOk
    <3>3. CASE Proc(x) # p
      <4>1. Has(x)' = Has(x) /\ (x \in up' <=> x \in up) /\ (Live(x)' <=> Live(x))
        BY <1>4, <1>6, <1>11, <1>12, <3>1, <3>3
      <4>2. tabs'[x[1]].n = tabs[x[1]].n
        BY <1>3, <3>1
      <4> QED
        BY <3>1, <4>1, <4>2 DEF SocketOk
    <3> QED
      BY <3>2, <3>3
  <2>2. ASSUME NEW t \in Tabs PROVE TabOk(t)'
    <3>1. TabOk(t)
      BY <1>1 DEF SocketsInv
    <3>2. tabs'[t].self # None => tabs'[t].self \in Peers /\ tabs'[t].self[1] = t /\ tabs'[t].self[2] <= tabs'[t].n
      BY <1>3, <3>1 DEF TabOk
    <3>3. ASSUME tabs'[t].online
          PROVE  /\ Peer(t)' \in up' /\ Proc(Peer(t))' \in alive'
                 /\ Shows(t)' /\ tabs'[t].self # Peer(t)' => \E k \in Has(Peer(t))' : Awaited(k)
      <4>1. PICK x \in Peers : x = Peer(t)
        BY <1>3
      <4>2. Peer(t)' = x /\ Proc(x) # p /\ tabs'[t] = tabs[t] /\ x \in Actors
        BY <1>3, <1>5, <3>3, <4>1
      <4>3. x \in up' /\ Proc(x) \in alive'
        BY <1>2, <1>6, <3>1, <3>3, <4>1, <4>2 DEF TabOk
      <4>4. Has(Peer(t))' = Has(x)' /\ Has(x)' = Has(x) /\ Has(Peer(t)) = Has(x)
        BY <1>4, <4>1, <4>2 DEF Has
      <4>5. Shows(t)' = Shows(t) /\ Proc(Peer(t))' = Proc(x)
        BY <4>2 DEF Shows, Proc
      <4> QED
        BY <3>1, <3>3, <4>1, <4>2, <4>3, <4>4, <4>5 DEF TabOk
    <3> QED
      BY <3>2, <3>3 DEF TabOk
  <2> QED
    BY <2>1, <2>2 DEF SocketsInv
<1>14. EndOk'
  BY <1>1, <1>2, <1>4, <1>5 DEF EndOk
<1>15. BusInv'
  <2>1. ASSUME NEW l \in Links, NEW i \in Nat, i \in DOMAIN bus'[l] PROVE BatchOk(bus'[l][i])
    <3>1. bus'[l] = bus[l] /\ i \in DOMAIN bus[l]
      BY <1>8, <2>1
    <3> QED
      BY <1>1, <3>1 DEF BusInv, BatchOk
  <2> QED
    BY <2>1 DEF BusInv
<1>16. ASSUME NEW t \in Tabs, Fresh(t)'
       PROVE  /\ Fresh(t) /\ tabs'[t] = tabs[t] /\ Peer(t)' = Peer(t) /\ Proc(Peer(t)) # p
              /\ Coming(Proc(Peer(t)))' = Coming(Proc(Peer(t)))
  <2>1. tabs'[t] = tabs[t] /\ Peer(t)' = Peer(t) /\ Proc(Peer(t)) # p
    BY <1>3, <1>16 DEF Fresh
  <2>2. PICK q : q = Proc(Peer(t))
    OBVIOUS
  <2>3. Coming(Proc(Peer(t)))' = Coming(q)'
    BY <2>1, <2>2 DEF Coming, Proc
  <2>4. Coming(q)' = Coming(q)
    BY <1>9, <2>1, <2>2
  <2> QED
    BY <1>16, <2>1, <2>2, <2>3, <2>4 DEF Fresh, Shows
<1>17. ASSUME ~room'.ended PROVE (\A x \in Peers : JoinOk(x)') /\ (\A t \in Tabs : ShownOk(t)')
  <2>0. (\A x \in Peers : JoinOk(x)) /\ (\A t \in Tabs : ShownOk(t))
    BY <1>1, <1>2, <1>17 DEF ShownInv
  <2>1. \A x \in Peers : Proc(x) # p /\ Heard(x) => Heard(x)'
    BY <1>2, <1>6 DEF Heard
  <2>2. ASSUME NEW x \in Peers PROVE JoinOk(x)'
    <3>1. CASE Proc(x) = p
      BY <1>4, <1>5, <3>1 DEF JoinOk
    <3>2. CASE Proc(x) # p
      BY <1>4, <1>5, <1>6, <2>0, <2>1, <3>2 DEF JoinOk
    <3> QED
      BY <3>1, <3>2
  <2>3. ASSUME NEW t \in Tabs PROVE ShownOk(t)'
    <3> SUFFICES ASSUME Fresh(t)'
                 PROVE  /\ Heard(Peer(t))' /\ Peer(t)' \in inRoom'
                        /\ Holds(Peer(t))' \/ <<"person", PersonOf[t]>> \in crossed' \/ PutOut(Peer(t))'
      BY DEF ShownOk
    <3>1. /\ Fresh(t) /\ tabs'[t] = tabs[t] /\ Peer(t)' = Peer(t) /\ Proc(Peer(t)) # p
          /\ Coming(Proc(Peer(t)))' = Coming(Proc(Peer(t)))
      BY <1>16
    <3>2. PICK x \in Peers : x = Peer(t)
      BY <1>3
    <3>3. Heard(x) /\ x \in inRoom /\ (Holds(x) \/ <<"person", PersonOf[t]>> \in crossed \/ PutOut(x))
      BY <2>0, <3>1, <3>2 DEF ShownOk
    <3>4. Heard(x)' /\ x \in inRoom'
      BY <1>6, <2>1, <3>1, <3>2, <3>3
    <3>5. Heard(Peer(t))' = Heard(x)'
      BY <3>1, <3>2 DEF Heard
    <3>6. Holds(Peer(t))' = Holds(x)
      BY <1>2, <3>1, <3>2 DEF Holds, Owner
    <3>7. PutOut(Peer(t))' = PutOut(x)
      BY <3>1, <3>2 DEF PutOut
    <3> QED
      BY <1>2, <3>1, <3>2, <3>3, <3>4, <3>5, <3>6, <3>7
  <2> QED
    BY <2>2, <2>3
<1>18. LockInv'
  <2>1. \A s \in Requests' : s \in Requests
    BY <1>4, <1>5 DEF Requests
  <2>2. \A m \in Updates' : m \in Updates
    BY <1>9 DEF Updates
  <2>3. LocksOk'
    BY <1>1, <1>2, <2>1, <2>2 DEF LockInv, LocksOk
  <2>4. ASSUME ~room'.ended, NEW t \in Tabs PROVE LockOk(t)'
    <3> SUFFICES ASSUME Fresh(t)', <<"locked", t>> \notin crossed', <<"deaf", Peer(t)'>> \notin crossed',
                        tabs'[t].locked # room'.locked
                 PROVE  (\E s \in Requests' : s.pc = "tell") \/ \E m \in Coming(Proc(Peer(t)))' : m.ev = "updated"
      BY DEF LockOk
    <3>1. /\ Fresh(t) /\ tabs'[t] = tabs[t] /\ Peer(t)' = Peer(t)
          /\ Coming(Proc(Peer(t)))' = Coming(Proc(Peer(t)))
      BY <1>16
    <3>2. (\E s \in Requests : s.pc = "tell") \/ \E m \in Coming(Proc(Peer(t))) : m.ev = "updated"
      BY <1>1, <1>2, <2>4, <3>1 DEF LockInv, LockOk
    <3>3. CASE \E s \in Requests : s.pc = "tell"
      <4>1. PICK s \in Requests : s.pc = "tell"
        BY <3>3
      <4>2. PICK q \in Procs : s \in Has(q)
        BY DEF Requests
      <4>3. q # p
        <5>1. ASSUME q = p PROVE FALSE
          <6>1. \E k \in DOMAIN tasks[p] : tasks[p][k].pc = "tell"
            BY <4>1, <4>2, <5>1 DEF Has
          <6>2. <<"locked", t>> \in {"locked"} \X Tabs
            OBVIOUS
          <6> QED
            BY <1>2, <6>1, <6>2
        <5> QED
          BY <5>1
      <4>4. s \in Has(q)'
        BY <1>4, <1>5, <4>2, <4>3, Processes
      <4> QED
        BY <4>1, <4>4 DEF Requests
    <3> QED
      BY <3>1, <3>2, <3>3
  <2> QED
    BY <2>3, <2>4 DEF LockInv
<1> QED
  BY <1>10, <1>13, <1>14, <1>15, <1>17, <1>18 DEF RosterInv, ShownInv

\* What arrives is what was published, and nothing else is lost.
Arrives(l, ms) ==
  /\ ms \in Seq(MsgType) /\ BatchOk(ms)
  /\ \A i \in DOMAIN ms : ms[i] \in Coming(l[2])
  /\ bus' \in [Links -> Seq(Seq(MsgType))] /\ BusInv'
  /\ \A q : Coming(q)' \subseteq Coming(q)
  /\ \A q : \A m \in Coming(q) : m \in Coming(q)' \/ (q = l[2] /\ \E i \in DOMAIN ms : m = ms[i])

\* What a process is told next.
LEMMA HeadIs ==
    ASSUME RosterTypes, BusInv, NEW l \in Links, bus[l] # <<>>, bus' = [bus EXCEPT ![l] = Tail(@)], NEW ms, ms = Head(bus[l])
    PROVE  Arrives(l, ms)
<1>1. DOMAIN bus = Links /\ bus[l] \in Seq(Seq(MsgType))
  BY DEF RosterTypes
<1>2. 1 \in DOMAIN bus[l] /\ ms = bus[l][1]
  BY <1>1
<1>3. ms \in Seq(MsgType)
  BY <1>1, <1>2
<1>4. BatchOk(ms)
  BY <1>2 DEF BusInv
<1>5. ASSUME NEW i \in DOMAIN ms PROVE ms[i] \in Coming(l[2])
  <2>1. ms[i] \in Range(bus[l][1])
    BY <1>2 DEF Range
  <2> QED
    BY <1>1, <1>2, <2>1 DEF Coming
<1>6. PICK r : r = Tail(bus[l])
  OBVIOUS
<1>7. /\ r \in Seq(Seq(MsgType))
      /\ \A i \in DOMAIN r : i \in Nat /\ i + 1 \in DOMAIN bus[l] /\ r[i] = bus[l][i + 1]
      /\ \A i \in DOMAIN bus[l] : i # 1 => i - 1 \in DOMAIN r /\ r[i - 1] = bus[l][i]
  <2>1. /\ r \in Seq(Seq(MsgType)) /\ Len(bus[l]) \in Nat /\ DOMAIN bus[l] = 1 .. Len(bus[l])
        /\ DOMAIN r = 1 .. Len(bus[l]) - 1
        /\ \A i \in 1 .. Len(bus[l]) - 1 : r[i] = bus[l][i + 1]
    BY <1>1, <1>6
  <2>2. ASSUME NEW i \in DOMAIN r PROVE i \in Nat /\ i + 1 \in DOMAIN bus[l] /\ r[i] = bus[l][i + 1]
    BY <2>1
  <2>3. ASSUME NEW i \in DOMAIN bus[l], i # 1 PROVE i - 1 \in DOMAIN r /\ r[i - 1] = bus[l][i]
    <3>1. i - 1 \in 1 .. Len(bus[l]) - 1 /\ (i - 1) + 1 = i
      BY <2>1, <2>3
    <3> QED
      BY <2>1, <3>1
  <2> QED
    BY <2>1, <2>2, <2>3
<1>8. DOMAIN bus' = Links /\ bus'[l] = r /\ \A k \in Links : k # l => bus'[k] = bus[k]
  BY <1>1, <1>6
<1>9. bus' \in [Links -> Seq(Seq(MsgType))]
  <2>1. bus' = [bus EXCEPT ![l] = r]
    BY <1>6
  <2> QED
    BY <1>7, <2>1 DEF RosterTypes
<1>10. BusInv'
  <2>1. ASSUME NEW k \in Links, NEW i \in Nat, i \in DOMAIN bus'[k] PROVE BatchOk(bus'[k][i])
    <3>1. CASE k = l
      <4>1. i + 1 \in Nat /\ i + 1 \in DOMAIN bus[l] /\ bus'[k][i] = bus[l][i + 1]
        BY <1>7, <1>8, <2>1, <3>1
      <4> QED
        BY <4>1 DEF BusInv
    <3>2. CASE k # l
      BY <1>8, <2>1, <3>2 DEF BusInv
    <3> QED
      BY <3>1, <3>2
  <2> QED
    BY <2>1 DEF BusInv
<1>11. ASSUME NEW q, NEW m \in Coming(q)' PROVE m \in Coming(q)
  <2>1. PICK k \in Links : k[2] = q /\ \E i \in DOMAIN bus'[k] : m \in Range(bus'[k][i])
    BY <1>8, <1>11 DEF Coming
  <2>2. PICK i \in DOMAIN bus'[k] : m \in Range(bus'[k][i])
    BY <2>1
  <2>3. \E j \in DOMAIN bus[k] : m \in Range(bus[k][j])
    <3>1. CASE k = l
      <4>1. i + 1 \in DOMAIN bus[k] /\ bus'[k][i] = bus[k][i + 1]
        BY <1>7, <1>8, <2>2, <3>1
      <4> QED
        BY <2>2, <4>1
    <3>2. CASE k # l
      BY <1>8, <2>2, <3>2
    <3> QED
      BY <3>1, <3>2
  <2> QED
    BY <1>1, <2>1, <2>3 DEF Coming
<1>12. ASSUME NEW q, NEW m \in Coming(q) PROVE m \in Coming(q)' \/ (q = l[2] /\ \E i \in DOMAIN ms : m = ms[i])
  <2>1. PICK k \in Links : k[2] = q /\ \E i \in DOMAIN bus[k] : m \in Range(bus[k][i])
    BY <1>1, <1>12 DEF Coming
  <2>2. PICK i \in DOMAIN bus[k] : m \in Range(bus[k][i])
    BY <2>1
  <2>3. CASE k = l /\ i = 1
    BY <1>2, <2>1, <2>2, <2>3 DEF Range
  <2>4. CASE ~(k = l /\ i = 1)
    <3>1. \E j \in DOMAIN bus'[k] : m \in Range(bus'[k][j])
      <4>1. CASE k = l
        <5>1. i - 1 \in DOMAIN bus'[k] /\ bus'[k][i - 1] = bus[k][i]
          BY <1>7, <1>8, <2>2, <2>4, <4>1
        <5> QED
          BY <2>2, <5>1
      <4>2. CASE k # l
        BY <1>8, <2>2, <4>2
      <4> QED
        BY <4>1, <4>2
    <3> QED
      BY <1>8, <2>1, <3>1 DEF Coming
  <2> QED
    BY <2>3, <2>4
<1> QED
  BY <1>3, <1>4, <1>5, <1>9, <1>10, <1>11, <1>12 DEF Arrives

\* What was published arrives.
LEMMA DeliverKeeps ==
    ASSUME RosterInv, NEW l \in DOMAIN bus, Deliver(l)
    PROVE  RosterInv'
<1>1. RosterTypes /\ SocketsInv /\ EndOk /\ BusInv /\ ShownInv /\ LockInv
  BY DEF RosterInv
<1>2. l \in Links /\ l[2] \in Procs
  BY <1>1 DEF RosterTypes, Links
<1>3. PICK ms : ms = Head(bus[l])
  OBVIOUS
<1>4. PICK p \in Procs : p = l[2]
  BY <1>2
<1>5. /\ UNCHANGED <<seats, slot, room, up, inRoom, tasks, alive>>
      /\ tabs' = Told(p, ms) /\ hears' = hears \ Deafened(p, ms)
      /\ crossed' = crossed \union Deaf(p, ms)
      /\ bus[l] # <<>> /\ bus' = [bus EXCEPT ![l] = Tail(@)]
  BY <1>3, <1>4 DEF Deliver
<1>6. /\ ms \in Seq(MsgType) /\ BatchOk(ms)
      /\ \A i \in DOMAIN ms : ms[i] \in Coming(p)
      /\ bus' \in [Links -> Seq(Seq(MsgType))] /\ BusInv'
      /\ \A q : Coming(q)' \subseteq Coming(q)
      /\ \A q : \A m \in Coming(q) : m \in Coming(q)' \/ (q = p /\ \E i \in DOMAIN ms : m = ms[i])
  <2>1. RosterTypes /\ BusInv /\ bus[l] # <<>> /\ bus' = [bus EXCEPT ![l] = Tail(@)]
    BY <1>1, <1>5
  <2>2. /\ ms \in Seq(MsgType) /\ BatchOk(ms)
        /\ \A i \in DOMAIN ms : ms[i] \in Coming(l[2])
        /\ bus' \in [Links -> Seq(Seq(MsgType))] /\ BusInv'
        /\ \A q : Coming(q)' \subseteq Coming(q)
        /\ \A q : \A m \in Coming(q) : m \in Coming(q)' \/ (q = l[2] /\ \E i \in DOMAIN ms : m = ms[i])
    <3>1. Arrives(l, ms)
      BY <1>2, <1>3, <2>1, HeadIs
    <3> QED
      BY <3>1 DEF Arrives
  <2> QED
    BY <1>4, <2>2
<1>7. \A i \in DOMAIN ms : ms[i].ev = "updated" => ms[i].arg = room.locked /\ ms[i].arg \in BOOLEAN
  <2>1. ASSUME NEW i \in DOMAIN ms, ms[i].ev = "updated" PROVE ms[i].arg = room.locked
    <3>1. ms[i] \in Updates
      BY <1>6, <2>1 DEF Updates
    <3> QED
      BY <1>1, <3>1 DEF LockInv, LocksOk
  <2> QED
    BY <1>1, <2>1 DEF RosterTypes
<1>8. /\ DOMAIN tabs' = Tabs
      /\ \A t \in Tabs :
           /\ IsTab(tabs'[t]) /\ Still(tabs[t], tabs'[t])
           /\ \A i \in DOMAIN ms : Reaches(ms[i], t, p) /\ ms[i].ev \in {"displaced", "ended"} => tabs'[t].status # "joined"
           /\ \A i \in DOMAIN ms : Reaches(ms[i], t, p) /\ ms[i].ev = "updated" =>
                tabs'[t].status # "joined" \/ tabs'[t].locked = room.locked
           /\ (\A i \in DOMAIN ms : Reaches(ms[i], t, p) => ms[i].ev # "updated") => tabs'[t].locked = tabs[t].locked
  <2>1. \A i \in DOMAIN ms : ms[i].ev = "updated" => ms[i].arg \in BOOLEAN
    BY <1>7
  <2>2. /\ DOMAIN tabs' = Tabs
        /\ \A t \in Tabs :
             /\ IsTab(tabs'[t]) /\ Still(tabs[t], tabs'[t])
             /\ \A i \in DOMAIN ms : Reaches(ms[i], t, p) /\ ms[i].ev \in {"displaced", "ended"} =>
                  tabs'[t].status # "joined"
             /\ \A v : \A i \in DOMAIN ms :
                  (\A j \in DOMAIN ms : ms[j].ev = "updated" => ms[j].arg = v)
                  /\ Reaches(ms[i], t, p) /\ ms[i].ev = "updated" =>
                  tabs'[t].status # "joined" \/ tabs'[t].locked = v
             /\ (\A i \in DOMAIN ms : Reaches(ms[i], t, p) => ms[i].ev # "updated") => tabs'[t].locked = tabs[t].locked
    <3>1. RosterTypes /\ tabs' = Told(p, ms) /\ ms \in Seq(MsgType)
      BY <1>1, <1>5, <1>6
    <3> QED
      BY <2>1, <3>1, ToldIs
  <2>3. \A j \in DOMAIN ms : ms[j].ev = "updated" => ms[j].arg = room.locked
    BY <1>7
  <2> QED
    BY <2>2, <2>3
<1>9. ASSUME NEW t \in Tabs
      PROVE  /\ tabs'[t].n = tabs[t].n /\ tabs'[t].online = tabs[t].online /\ tabs'[t].open = tabs[t].open
             /\ tabs'[t].self = tabs[t].self
             /\ Peer(t)' = Peer(t) /\ Peer(t) \in Peers /\ (Fresh(t)' => Fresh(t)) /\ (Shows(t)' => Shows(t))
             /\ tabs[t].online => Peer(t) \in up /\ Proc(Peer(t)) \in alive
  BY <1>1, <1>8 DEF Still, Peer, Fresh, Shows, RosterTypes, SocketsInv, TabOk
<1>10. \A a : Has(a)' = Has(a)
  BY <1>5 DEF Has
<1>11. RosterTypes'
  <2>1. \A t \in Tabs : IsTab(tabs'[t]) /\ Peer(t)' \in Peers
    BY <1>8, <1>9
  <2> QED
    BY <1>1, <1>5, <1>6, <1>8, <2>1 DEF RosterTypes
<1>12. SocketsInv'
  <2>1. \A t \in Tabs : (tabs[t].online /\ Shows(t)' /\ tabs'[t].self # Peer(t)) =>
          Shows(t) /\ tabs[t].self # Peer(t)
          /\ ((\E s \in Has(Peer(t)) : Awaited(s)) => \E s \in Has(Peer(t))' : Awaited(s))
    <3>1. ASSUME NEW t \in Tabs PROVE Has(Peer(t))' = Has(Peer(t))
      <4>1. Has(Peer(t))' = {tasks'[Peer(t)'][k] : k \in DOMAIN tasks'[Peer(t)']}
        BY DEF Has
      <4> QED
        BY <1>5, <1>9, <4>1 DEF Has
    <3> QED
      BY <1>9, <3>1
  <2> QED
    BY <1>1, <1>5, <1>9, <1>10, <2>1, SocketsKept
<1>13. EndOk'
  BY <1>1, <1>5, <1>10 DEF EndOk
<1>14. ASSUME NEW x \in Peers, Live(x), NEW i \in DOMAIN ms, ms[i].ev \in {"displaced", "ended"}, ms[i].to = x, Proc(x) = p
       PROVE  tabs'[x[1]].status # "joined"
  <2>1. x[1] \in Tabs /\ x # None /\ Peer(x[1]) = x /\ x \in up
    BY <1>9, <1>14, Owners, Distinct DEF Live
  <2>2. Reaches(ms[i], x[1], p)
    BY <1>14, <2>1 DEF Reaches, Live
  <2> QED
    BY <1>8, <1>14, <2>1, <2>2
<1>15. ShownInv'
  <2>1. ASSUME NEW x \in Peers, Live(x), x \in hears
        PROVE  Heard(x)' \/ (~Joining(x) /\ tabs'[x[1]].status # "joined")
    <3>1. CASE x \notin Deafened(p, ms)
      BY <1>5, <2>1, <3>1 DEF Heard
    <3>2. CASE x \in Deafened(p, ms) /\ Joining(x)
      BY <1>5, <3>2 DEF Heard, Deaf
    <3>3. CASE x \in Deafened(p, ms) /\ ~Joining(x)
      <4>1. \A i \in DOMAIN ms : ms[i].ev = "updated" => ms[i].arg \in BOOLEAN
        BY <1>7
      <4>2. tabs'[x[1]].status # "joined"
        BY <1>5, <1>6, <2>1, <3>3, <4>1, DeafenedOut
      <4> QED
        BY <3>3, <4>2
    <3> QED
      BY <3>1, <3>2, <3>3
  <2>2. ASSUME NEW x \in Peers, Live(x), PutOut(x)
        PROVE  PutOut(x)' \/ tabs'[x[1]].status # "joined"
    <3>1. PICK m \in Coming(Proc(x)) : m.ev = "displaced" /\ m.to = x
      BY <2>2 DEF PutOut
    <3>2. CASE m \in Coming(Proc(x))'
      BY <3>1, <3>2 DEF PutOut
    <3>3. CASE Proc(x) = p /\ \E i \in DOMAIN ms : m = ms[i]
      BY <1>14, <2>2, <3>1, <3>3
    <3>4. m \in Coming(Proc(x))' \/ (Proc(x) = p /\ \E i \in DOMAIN ms : m = ms[i])
      <4>1. PICK q : q = Proc(x)
        OBVIOUS
      <4>2. Coming(Proc(x))' = Coming(q)'
        BY <4>1 DEF Coming, Proc
      <4> QED
        BY <1>6, <3>1, <4>1, <4>2
    <3> QED
      BY <3>2, <3>3, <3>4
  <2>3. \A x \in Peers : Live(x) =>
          /\ x \in inRoom => x \in inRoom'
          /\ x \in hears => Heard(x)' \/ (~Joining(x) /\ tabs'[x[1]].status # "joined")
          /\ Holds(x) => Holds(x)' \/ PutOut(x)' \/ tabs'[x[1]].status # "joined"
          /\ PutOut(x) => PutOut(x)' \/ tabs'[x[1]].status # "joined"
    BY <1>5, <2>1, <2>2 DEF Holds
  <2>4. \A t \in Tabs : Fresh(t)' => ShownOk(t)' \/ (Fresh(t) /\ Peer(t)' = Peer(t))
    BY <1>9
  <2>5. \A x \in Peers : \A t \in Has(x)' : Awaited(t) /\ t.pc \notin {"admit", "subscribe"} =>
          \E s \in Has(x) : /\ Awaited(s) /\ s.pc \notin {"admit", "subscribe"}
                            /\ t.pc \notin {"seat", "freePrevious"} => s.pc \notin {"seat", "freePrevious"} \/ x \in inRoom'
    BY <1>10
  <2>6. crossed \subseteq crossed' /\ (room.ended => room'.ended)
    BY <1>5
  <2> QED
    BY <1>1, <2>3, <2>4, <2>5, <2>6, ShownKept
<1>16. LockInv'
  <2>1. Requests' = Requests
    BY <1>10 DEF Requests
  <2>2. Updates' \subseteq Updates
    BY <1>6 DEF Updates
  <2>3. CASE room.ended
    <3>1. LocksOk'
      BY <1>1, <1>5, <2>1, <2>2 DEF LockInv, LocksOk
    <3> QED
      BY <1>5, <2>3, <3>1 DEF LockInv
  <2>4. CASE ~room.ended
    <3>1. ASSUME NEW t \in Tabs, Fresh(t)'
          PROVE  \/ tabs'[t].locked = room.locked \/ <<"locked", t>> \in crossed' \/ <<"deaf", Peer(t)'>> \in crossed'
                 \/ /\ Fresh(t) /\ Peer(t)' = Peer(t) /\ tabs'[t].locked = tabs[t].locked
                    /\ \A m \in Coming(Proc(Peer(t))) : m.ev = "updated" => m \in Coming(Proc(Peer(t)))'
      <4>1. PICK x \in Peers : x = Peer(t)
        BY <1>9
      <4>2. Fresh(t) /\ Peer(t)' = x /\ tabs[t].online /\ tabs[t].open /\ x \in up /\ x # None /\ tabs'[t].status = "joined"
        BY <1>9, <3>1, <4>1, Distinct DEF Fresh, Shows
      <4>3. CASE \E i \in DOMAIN ms : Reaches(ms[i], t, p) /\ ms[i].ev = "updated"
        BY <1>8, <4>2, <4>3
      <4>4. CASE <<"deaf", x>> \in crossed
        BY <1>5, <4>2, <4>4
      <4>5. CASE <<"deaf", x>> \notin crossed /\ \A i \in DOMAIN ms : Reaches(ms[i], t, p) => ms[i].ev # "updated"
        <5>1. tabs'[t].locked = tabs[t].locked
          BY <1>8, <4>5
        <5>2. x \in hears
          BY <1>1, <2>4, <4>1, <4>2, <4>5 DEF ShownInv, ShownOk, Heard
        <5>3. PICK q : q = Proc(x)
          OBVIOUS
        <5>4. Coming(Proc(Peer(t)))' = Coming(q)' /\ Coming(Proc(Peer(t))) = Coming(q)
          BY <4>1, <4>2, <5>3 DEF Coming, Proc
        <5>5. ASSUME NEW m \in Coming(q), m.ev = "updated" PROVE m \in Coming(q)'
          <6> SUFFICES ASSUME q = p, NEW i \in DOMAIN ms, m = ms[i] PROVE FALSE
            BY <1>6
          <6>1. m.to = None /\ m.but = None
            BY <1>6, <5>5 DEF BatchOk
          <6>2. Reaches(ms[i], t, p)
            BY <4>1, <4>2, <5>2, <5>3, <6>1 DEF Reaches
          <6> QED
            BY <4>5, <5>5, <6>2
        <5> QED
          BY <4>1, <4>2, <5>1, <5>4, <5>5
      <4> QED
        BY <4>3, <4>4, <4>5
    <3>2. room'.locked = room.locked /\ (room.ended => room'.ended) /\ crossed \subseteq crossed'
      BY <1>5
    <3> QED
      BY <1>1, <2>1, <2>2, <3>1, <3>2, LockKept
  <2> QED
    BY <2>3, <2>4
<1> QED
  BY <1>6, <1>11, <1>12, <1>13, <1>15, <1>16 DEF RosterInv

-----------------------------------------------------------------------------
(* The invariant holds.                                                    *)

\* At first each tab has its first connection, and those inside their seats.
LEMMA InitOk ==
    ASSUME Init
    PROVE  RosterInv
<1>1. PICK script \in Scripts : Start(script)
  BY DEF Init
<1> DEFINE inside == {t \in Tabs : t \in script.inCall}
           first(t) == <<t, 1>>
           chosen(u) == CHOOSE t \in inside : PersonOf[t] = u
           sat == [u \in People |-> IF \E t \in inside : PersonOf[t] = u
                                    THEN [peer |-> <<chosen(u), 1>>, media |-> FALSE] ELSE None]
<1>2. /\ seats = sat
      /\ tabs = [t \in Tabs |-> IF t \notin inside THEN Out0
                                ELSE [Out0 EXCEPT !.open = TRUE, !.status = "joined", !.joined = TRUE, !.self = <<t, 1>>,
                                        !.roster = sat, !.screen = slot, !.sharing = script.presents = t]]
  BY <1>1 DEF Start
<1>0. /\ slot = IF script.presents = None THEN None ELSE <<script.presents, 1>>
      /\ DOMAIN room = {"locked", "ended", "members"} /\ ~room.locked /\ ~room.ended
      /\ room.locked \in BOOLEAN /\ room.ended \in BOOLEAN
      /\ up = {<<t, 1>> : t \in Tabs} /\ inRoom = {<<t, 1>> : t \in inside} /\ hears = inRoom
      /\ tasks = [a \in Actors |-> <<>>] /\ bus = [l \in Links |-> <<>>] /\ alive = Procs /\ crossed = {}
  BY <1>1 DEF Start, Links
<1>3. /\ \A t, o \in inside : PersonOf[t] = PersonOf[o] => t = o
      /\ script.presents # None => script.presents \in Tabs
  BY RosterAssumption DEF RosterAssumption
<1>4. ASSUME NEW t \in Tabs PROVE <<t, 1>> \in Peers /\ Proc(<<t, 1>>) \in Procs
  <2>1. ProcOf[t] \in Seq(Procs) /\ ProcOf[t] # <<>>
    BY RosterAssumption DEF RosterAssumption
  <2>2. 1 \in DOMAIN ProcOf[t]
    BY <2>1
  <2>3. <<t, 1>> \in Peers
    BY <2>2 DEF Peers
  <2> QED
    BY <2>3, Processes DEF Actors
<1>5. ASSUME NEW t \in inside PROVE PersonOf[t] \in People /\ chosen(PersonOf[t]) = t
  BY <1>3 DEF People
<1>6. ASSUME NEW u \in People, \E t \in inside : PersonOf[t] = u PROVE chosen(u) \in Tabs
  BY <1>6
<1>7. /\ inside \subseteq Tabs /\ inRoom = {<<t, 1>> : t \in inside}
      /\ \A t \in Tabs \ inside : tabs[t] = Out0
      /\ \A t \in inside : tabs[t] = [n |-> 1, online |-> TRUE, open |-> TRUE, status |-> "joined", joined |-> TRUE,
                                      self |-> <<t, 1>>, roster |-> sat, locked |-> FALSE, screen |-> slot,
                                      media |-> FALSE, sharing |-> (script.presents = t)]
      /\ DOMAIN tabs = Tabs
  BY <1>0, <1>2 DEF Out0
<1>9. /\ DOMAIN seats = People /\ \A u \in People : seats[u] \in SeatType \union {None}
      /\ \A t \in inside : seats[PersonOf[t]] = [peer |-> <<t, 1>>, media |-> FALSE]
  <2> HIDE DEF chosen
  <2>1. ASSUME NEW u \in People PROVE sat[u] \in SeatType \union {None}
    <3>1. CASE \E t \in inside : PersonOf[t] = u
      <4>1. sat[u] = [peer |-> <<chosen(u), 1>>, media |-> FALSE]
        BY <3>1
      <4>2. <<chosen(u), 1>> \in Peers
        BY <1>4, <1>6, <3>1
      <4> QED
        BY <4>1, <4>2 DEF SeatType
    <3>2. CASE ~\E t \in inside : PersonOf[t] = u
      BY <3>2
    <3> QED
      BY <3>1, <3>2
  <2>2. ASSUME NEW t \in inside PROVE sat[PersonOf[t]] = [peer |-> <<t, 1>>, media |-> FALSE]
    BY <1>5
  <2> QED
    BY <1>2, <2>1, <2>2
<1> HIDE DEF inside, sat, chosen
<1>8. ASSUME NEW t \in Tabs PROVE Peer(t) = <<t, 1>> /\ IsTab(tabs[t]) /\ tabs[t].n = 1 /\ tabs[t].locked = FALSE
                               /\ (t \in inside => tabs[t].self = <<t, 1>>)
  <2>1. CASE t \in inside
    <3>1. PICK tab : tab = tabs[t]
      OBVIOUS
    <3>2. PICK on \in BOOLEAN : on = (script.presents = t)
      OBVIOUS
    <3>3. tab = [n |-> 1, online |-> TRUE, open |-> TRUE, status |-> "joined", joined |-> TRUE,
                 self |-> <<t, 1>>, roster |-> sat, locked |-> FALSE, screen |-> slot,
                 media |-> FALSE, sharing |-> on]
      BY <1>7, <2>1, <3>1, <3>2
    <3>4. IsTab(tab) /\ tab.n = 1 /\ tab.locked = FALSE /\ tab.self = <<t, 1>>
      BY <3>3 DEF IsTab, Statuses
    <3> QED
      BY <3>1, <3>4 DEF Peer
  <2>2. CASE t \notin inside
    <3>1. IsTab(Out0) /\ Out0.n = 1 /\ Out0.locked = FALSE
      BY DEF IsTab, Statuses, Out0
    <3> QED
      BY <1>7, <2>2, <3>1 DEF Peer
  <2> QED
    BY <2>1, <2>2
<1>10. \A a \in Actors : tasks[a] = <<>> /\ Has(a) = {}
  BY <1>0 DEF Has
<1>11. \A l \in Links : bus[l] = <<>>
  BY <1>0
<1>12. \A p : Coming(p) = {}
  BY <1>0, <1>11 DEF Coming
<1>13. RosterTypes
  <2>1. slot \in Peers \union {None}
    BY <1>0, <1>3, <1>4
  <2>2. DOMAIN room = {"locked", "ended", "members"} /\ room.locked \in BOOLEAN /\ room.ended \in BOOLEAN
    BY <1>0
  <2>3. up \subseteq Peers /\ inRoom \subseteq Peers /\ hears \subseteq Peers /\ alive \subseteq Procs
    BY <1>0, <1>4, <1>7
  <2>4. tasks \in [Actors -> Seq(TaskType)] /\ bus \in [Links -> Seq(Seq(MsgType))]
    <3>1. <<>> \in Seq(TaskType) /\ <<>> \in Seq(Seq(MsgType))
      OBVIOUS
    <3> QED
      BY <1>0, <3>1
  <2>5. DOMAIN tabs = Tabs /\ \A t \in Tabs : IsTab(tabs[t]) /\ Peer(t) \in Peers
    BY <1>4, <1>7, <1>8
  <2> QED
    <3>1. seats \in [People -> SeatType \union {None}]
      <4>1. seats = [u \in People |-> seats[u]]
        BY <1>2, <1>9 DEF sat
      <4> QED
        BY <1>9, <4>1
    <3> QED
      BY <2>1, <2>2, <2>3, <2>4, <2>5, <3>1 DEF RosterTypes
<1>14. SocketsInv
  <2>1. ASSUME NEW x \in Peers PROVE SocketOk(x)
    <3>1. Has(x) = {} /\ x[1] \in Tabs /\ tabs[x[1]].n = 1
      BY <1>8, <1>10, Owners DEF Actors
    <3>2. x \in up => x[2] = 1
      BY <1>0
    <3> QED
      BY <3>1, <3>2 DEF SocketOk
  <2>2. ASSUME NEW t \in Tabs PROVE TabOk(t)
    <3>1. Peer(t) = <<t, 1>> /\ <<t, 1>> \in Peers /\ <<t, 1>> \in up /\ Proc(<<t, 1>>) \in alive
      BY <1>0, <1>4, <1>8
    <3>2. CASE t \in inside
      <4>1. tabs[t].self = <<t, 1>> /\ tabs[t].n = 1
        BY <1>8, <3>2
      <4> QED
        BY <3>1, <4>1 DEF TabOk
    <3>3. CASE t \notin inside
      BY <1>7, <3>1, <3>3 DEF TabOk, Out0, Shows
    <3> QED
      BY <3>2, <3>3
  <2> QED
    BY <2>1, <2>2 DEF SocketsInv
<1>15. EndOk
  BY <1>10 DEF EndOk, Actors
<1>16. BusInv
  BY <1>11 DEF BusInv
<1>17. ShownInv
  <2>1. \A x \in Peers : JoinOk(x)
    BY <1>10 DEF JoinOk, Actors
  <2>2. ASSUME NEW t \in Tabs, Fresh(t) PROVE Heard(Peer(t)) /\ Peer(t) \in inRoom /\ Holds(Peer(t))
    <3>1. t \in inside
      BY <1>7, <2>2 DEF Fresh, Shows, Out0
    <3>2. <<t, 1>> \in hears /\ <<t, 1>> \in inRoom
      BY <1>0, <3>1
    <3>3. seats[PersonOf[t]] = [peer |-> <<t, 1>>, media |-> FALSE]
      BY <1>9, <3>1
    <3>4. seats[PersonOf[t]] # None
      <4>1. seats[PersonOf[t]] \in SeatType
        BY <1>4, <3>3 DEF SeatType
      <4> QED
        BY <4>1, RosterAssumption DEF RosterAssumption, SeatType
    <3>5. Peer(t) = <<t, 1>> /\ Owner(<<t, 1>>) = PersonOf[t]
      BY <1>8 DEF Owner
    <3> QED
      BY <3>2, <3>3, <3>4, <3>5 DEF Heard, Holds
  <2> QED
    BY <2>1, <2>2 DEF ShownInv, ShownOk
<1>18. LockInv
  <2>1. Requests = {} /\ Updates = {}
    BY <1>10, <1>12 DEF Requests, Updates, Actors
  <2> QED
    BY <1>0, <1>8, <2>1 DEF LockInv, LocksOk, LockOk
<1> QED
  BY <1>13, <1>14, <1>15, <1>16, <1>17, <1>18 DEF RosterInv

\* Every step keeps the invariant.
LEMMA RosterStep ==
    ASSUME RosterInv, [Next]_rosterVars
    PROVE  RosterInv'
<1>1. ASSUME NEW x \in Peers, PeerStep(x) PROVE RosterInv'
  <2>1. CASE Disconnecting(x)
    BY <2>1, DisconnectingKeeps
  <2>2. ASSUME NEW k \in DOMAIN tasks[x], Admit(x, k) \/ Subscribe(x, k) \/ TakeSeat(x, k) \/ FreePrevious(x, k)
        PROVE  RosterInv'
    BY <2>2, AdmitKeeps, SubscribeKeeps, TakeSeatKeeps, FreePreviousKeeps
  <2>3. ASSUME NEW k \in DOMAIN tasks[x], Record(x, k) \/ List(x, k) \/ ReadSlot(x, k) \/ ReadHolder(x, k)
        PROVE  RosterInv'
    BY <2>3, RecordKeeps, ListKeeps, ReadSlotKeeps, ReadHolderKeeps
  <2>4. ASSUME NEW k \in DOMAIN tasks[x], LeaveStart(x, k) \/ LeaveFree(x, k) \/ LeaveUnseat(x, k)
        PROVE  RosterInv'
    BY <2>4, LeaveStartKeeps, LeaveFreeKeeps, LeaveUnseatKeeps
  <2>5. ASSUME NEW k \in DOMAIN tasks[x], Ask(x, k) \/ SetMedia(x, k) \/ Claim(x, k) \/ Release(x, k)
        PROVE  RosterInv'
    BY <2>5, AskKeeps, SetMediaKeeps, ClaimKeeps, ReleaseKeeps
  <2> QED
    BY <1>1, <2>1, <2>2, <2>3, <2>4, <2>5 DEF PeerStep
<1>2. ASSUME NEW p \in Procs, ProcStep(p) PROVE RosterInv'
  <2>1. CASE Sweep(p)
    BY <2>1, SweepKeeps
  <2>2. ASSUME NEW k \in DOMAIN tasks[p], SweepFree(p, k) \/ FindRoom(p, k) \/ UpdateRoom(p, k) \/ OnUpdated(p, k)
        PROVE  RosterInv'
    BY <2>2, SweepFreeKeeps, FindRoomKeeps, UpdateRoomKeeps, OnUpdatedKeeps
  <2>3. ASSUME NEW k \in DOMAIN tasks[p], EndRoom(p, k) \/ OnEnded(p, k) \/ ClearScreen(p, k) \/ ClearRoom(p, k)
        PROVE  RosterInv'
    BY <2>3, EndRoomKeeps, OnEndedKeeps, ClearScreenKeeps, ClearRoomKeeps
  <2> QED
    BY <1>2, <2>1, <2>2, <2>3 DEF ProcStep
<1>3. ASSUME NEW t \in Tabs, TabStep(t) PROVE RosterInv'
  <2>1. CASE Open(t) \/ Rejoin(t) \/ Close(t) \/ Toggle(t) \/ StartShare(t)
    BY <2>1, OpenKeeps, RejoinKeeps, CloseKeeps, ToggleKeeps, StartShareKeeps
  <2>2. CASE StopShare(t) \/ Lock(t) \/ End(t) \/ Drop(t) \/ Reconnect(t)
    BY <2>2, StopShareKeeps, LockKeeps, EndKeeps, DropKeeps, ReconnectKeeps
  <2> QED
    BY <1>3, <2>1, <2>2 DEF TabStep
<1>4. CASE UNCHANGED rosterVars
  <2>1. /\ seats' = seats /\ slot' = slot /\ room' = room /\ up' = up /\ inRoom' = inRoom /\ hears' = hears
        /\ tasks' = tasks /\ bus' = bus /\ alive' = alive /\ tabs' = tabs /\ crossed' = crossed
    BY <1>4 DEF rosterVars
  <2>2. RosterTypes' /\ EndOk' /\ BusInv'
    BY <2>1 DEF RosterInv, RosterTypes, EndOk, BusInv, Has, Peer
  <2>3. SocketsInv'
    <3>1. SocketsInv
      BY DEF RosterInv
    <3>2. ASSUME NEW x \in Peers PROVE SocketOk(x)'
      <4>1. SocketOk(x)
        BY <3>1 DEF SocketsInv
      <4> QED
        BY <2>1, <4>1 DEF SocketOk, Has, Live, Peer
    <3>3. ASSUME NEW t \in Tabs PROVE TabOk(t)'
      <4>1. TabOk(t)
        BY <3>1 DEF SocketsInv
      <4>2. Has(Peer(t))' = Has(Peer(t)) /\ Peer(t)' = Peer(t) /\ Proc(Peer(t))' = Proc(Peer(t))
        BY <2>1 DEF Has, Peer, Proc
      <4> QED
        BY <2>1, <4>1, <4>2 DEF TabOk, Shows
    <3> QED
      BY <3>2, <3>3 DEF SocketsInv
  <2>4. ShownInv'
    <3>1. ShownInv
      BY DEF RosterInv
    <3>2. ASSUME NEW x \in Peers, JoinOk(x) PROVE JoinOk(x)'
      BY <2>1, <3>2 DEF JoinOk, Has, Heard
    <3>3. ASSUME NEW t \in Tabs, ShownOk(t) PROVE ShownOk(t)'
      <4>1. Peer(t)' = Peer(t) /\ Holds(Peer(t))' = Holds(Peer(t)) /\ PutOut(Peer(t))' = PutOut(Peer(t))
        BY <2>1 DEF Peer, Holds, Owner, PutOut, Coming, Proc
      <4>2. (Fresh(t)' <=> Fresh(t)) /\ (Heard(Peer(t))' <=> Heard(Peer(t)))
        BY <2>1 DEF Fresh, Shows, Heard, Peer
      <4> QED
        BY <2>1, <3>3, <4>1, <4>2 DEF ShownOk
    <3> QED
      BY <2>1, <3>1, <3>2, <3>3 DEF ShownInv
  <2>5. Requests' = Requests /\ Updates' = Updates
    BY <2>1 DEF Requests, Updates, Has, Coming
  <2>6. LockInv'
    BY <2>1, <2>5 DEF RosterInv, LockInv, LocksOk, LockOk, Coming, Fresh, Shows, Peer, Proc
  <2> QED
    BY <2>2, <2>3, <2>4, <2>6 DEF RosterInv
<1>5. ASSUME NEW p \in Procs, Crash(p) PROVE RosterInv'
  BY <1>5, CrashKeeps
<1>6. ASSUME NEW l \in DOMAIN bus, Deliver(l) PROVE RosterInv'
  BY <1>6, DeliverKeeps
<1> QED
  BY <1>1, <1>2, <1>3, <1>4, <1>5, <1>6 DEF Next

\* The invariant of the meeting.
THEOREM MeetingInv == Spec => []RosterInv
<1>1. Init => RosterInv
  BY InitOk
<1>2. RosterInv /\ [Next]_rosterVars => RosterInv'
  BY RosterStep
<1> QED
  BY <1>1, <1>2, PTL DEF Spec

\* What a tab that shows the meeting is, once everything has come through.
LEMMA Rested ==
    ASSUME RosterInv, AtRest, NEW t \in Tabs, Shows(t), <<"deaf", Peer(t)>> \notin crossed
    PROVE  /\ Fresh(t) /\ Peer(t) \in hears \intersect inRoom
           /\ Holds(Peer(t)) \/ <<"person", PersonOf[t]>> \in crossed
           /\ Requests = {} /\ \A p : Coming(p) = {}
<1>1. /\ RosterTypes /\ SocketsInv /\ ShownInv /\ tabs[t].online /\ ~room.ended /\ Peer(t) \in Actors
      /\ \A a \in Actors : Has(a) = {}
  BY DEF RosterInv, AtRest, RosterTypes, Has, Actors
<1>2. \A p : Coming(p) = {}
  BY DEF AtRest, Coming
<1>3. Requests = {}
  BY <1>1 DEF Requests, Actors
<1>4. Fresh(t)
  BY <1>1 DEF SocketsInv, TabOk, Fresh
<1> QED
  BY <1>1, <1>2, <1>3, <1>4 DEF ShownInv, ShownOk, Heard, PutOut

\* A person is in a meeting once: of their tabs one shows it, and it has the seat and
\* hears the room (TakeSeat, FreePrevious and what they announce).
THEOREM InAMeetingOnce == Spec => []InOnce
<1>1. RosterInv => InOnce
  BY Rested DEF InOnce
<1> QED
  BY <1>1, MeetingInv, PTL

\* Every tab in the meeting shows whether new people can come in (UpdateRoom,
\* OnUpdated and the answer to a join).
THEOREM TheLockIsShown == Spec => []LockShown
<1>1. ASSUME RosterInv, AtRest, NEW t \in Tabs, In(t), <<"locked", t>> \notin crossed
      PROVE  tabs[t].locked = room.locked
  <2>1. Fresh(t) /\ Requests = {} /\ (\A p : Coming(p) = {}) /\ <<"deaf", Peer(t)>> \notin crossed /\ ~room.ended
    BY <1>1, Rested DEF In, AtRest
  <2> QED
    BY <1>1, <2>1 DEF RosterInv, LockInv, LockOk
<1>2. RosterInv => LockShown
  BY <1>1 DEF LockShown
<1> QED
  BY <1>2, MeetingInv, PTL
=============================================================================
