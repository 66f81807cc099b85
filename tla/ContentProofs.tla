---------------------------- MODULE ContentProofs ----------------------------
(***************************************************************************)
(* Proofs about RoomContent, for any people, tabs, files, purgers and      *)
(* situations and any bounds: everybody in the call encrypts with the      *)
(* room's key (RoomKeys); an object in the storage has a row or a known    *)
(* reason to have none, and a list of files is kept live (RoomFiles); the  *)
(* chat has no gap (Chat).                                                 *)
(***************************************************************************)
EXTENDS RoomContent, SequenceTheorems, WellFoundedInduction, TLAPS

-----------------------------------------------------------------------------
(* Invariant of the keys.                                                  *)

Pairs  == 0 .. MaxPairs
Copies == Nat \X Pairs

\* The values of the variables that are functions.
StoreType == [status : {"idle", "working", "ready", "locked", "error"}, pair : Pairs,
              op : {"none", "read", "reread", "create"}, right : BOOLEAN, forget : BOOLEAN]
TabType   == [auth : BOOLEAN, join : {"none", "admit", "seat", "record", "ask", "offline"}, seen : Nat,
              page : {"away", "joining", "in"}]
HookType  == [status : {"none", "waiting", "ready"}, key : Nat, roster : SUBSET People,
              skipped : SUBSET People]
CallType  == [pc : {"idle", "room", "member", "count", "init", "claim", "clear", "done"},
              pair : Pairs, retry : BOOLEAN, again : BOOLEAN, check : Nat,
              copy : Copies \union {None}, key : Nat]
GrantType == [pc : {"idle", "pick", "granter", "target", "write"}, queue : Seq(Nat), key : Nat,
              list : SUBSET (People \X Pairs), to : (People \X Pairs) \union {None}]

\* Type correctness of the part of the state that is about keys.
KeysTypes ==
  /\ account \in [People -> Pairs]
  /\ member \subseteq People
  /\ wrapped \in [People -> Copies \union {None}]
  /\ check \in Nat /\ made \in Nat
  /\ channel \subseteq Tabs
  /\ device \in [Tabs -> Pairs]
  /\ store \in [Tabs -> StoreType]
  /\ tab \in [Tabs -> TabType]
  /\ hook \in [Tabs -> HookType]
  /\ resolve \in [Tabs \X Slots -> CallType]
  /\ grant \in [Tabs -> GrantType]
  /\ dropped \subseteq Nat

\* A copy is dropped only once somebody has reset the password (which counts as a
\* drop of key 0), and from then on that person's pairs differ: what the parts
\* say of pairs they say until then.
\*
\* A key is the room's or was lost; a number is that of a person's only pair.
Right(k) == k # 0 /\ (k = check \/ k \in dropped)
Own(p, n) == dropped = {} => n = account[p] /\ n # 0

\* A sealed copy for p is of the room's key and can be opened by p's pair.
CopyOk(p, c) == c # None => p \in member /\ Right(c[1]) /\ Own(p, c[2])

\* A call of resolve works with p's pair, what it has read of the member's row is
\* right, and it replaces a fingerprint only if that is nobody's any more.
CallOk(p, a) ==
  a.pc # "idle" =>
    /\ p \in member
    /\ Own(p, a.pair)
    /\ a.pc \in {"init", "claim"} => a.key # 0
    /\ a.pc = "claim" => a.check = 0 \/ a.check \in dropped
    /\ a.pc = "done" /\ a.key # 0 => Right(a.key)
    /\ a.pc = "count" => CopyOk(p, a.copy)
    /\ dropped = {} =>
         /\ a.pc # "clear"
         /\ a.again => check # 0
         /\ a.pc \in {"member", "count"} => a.check = check \/ (a.check = 0 /\ ~a.again)

\* A pass seals a right key for members' own pairs.
TargetOk(x) == x[1] \in member /\ Own(x[1], x[2])
GrantOk(g) ==
  /\ \A i \in 1 .. Len(g.queue) : Right(g.queue[i])
  /\ g.pc # "idle" => Right(g.key)
  /\ \A x \in g.list : TargetOk(x)
  /\ g.pc \in {"granter", "target", "write"} => g.to # None /\ TargetOk(g.to)

\* Who is in the call, or about to ask for the key, has a member's row.
PageOk(p, b) ==
  /\ b.page = "in" \/ b.join = "ask" => p \in member
  /\ b.join = "offline" => b.page = "in"

CopiesOk == \A p \in People : CopyOk(p, wrapped[p])
CallsOk  == \A r \in Tabs \X Slots : CallOk(PersonOf[r[1]], resolve[r])
GrantsOk == \A t \in Tabs : GrantOk(grant[t])
HooksOk  == \A t \in Tabs : hook[t].key # 0 => Right(hook[t].key)
StoresOk == \A t \in Tabs : store[t].status = "ready" => Own(PersonOf[t], store[t].pair)
PagesOk  == \A t \in Tabs : PageOk(PersonOf[t], tab[t])

\* The key that the fingerprint is of is in somebody's copy, or was dropped.
CheckKept == \/ check = 0 \/ check \in dropped
             \/ \E p \in member : wrapped[p] # None /\ wrapped[p][1] = check
DropsLast == dropped # {} => 0 \in dropped

\* The inductive invariant of the keys.
KeysInv ==
  /\ KeysTypes /\ CopiesOk /\ CallsOk /\ GrantsOk /\ HooksOk /\ StoresOk /\ PagesOk
  /\ CheckKept /\ DropsLast

-----------------------------------------------------------------------------
(* Numbers of pairs, and calls of resolve.                                 *)

\* A set of numbers has a least.
LEMMA Least ==
    ASSUME NEW S \in SUBSET Nat, S # {}
    PROVE  \E x \in S : \A y \in S : x <= y
<1> DEFINE R == {ss \in Nat \X Nat : ss[1] < ss[2]}
<1>1. IsWellFoundedOn(R, Nat)
  BY NatLessThanWellFounded DEF OpToRel
<1>2. PICK x \in S : \A y \in S : ~(<<y, x>> \in R)
  BY <1>1, WFMin, Zenon
<1>3. ASSUME NEW y \in S PROVE x <= y
  <2>1. x \in Nat /\ y \in Nat /\ <<y, x>> \in Nat \X Nat
    OBVIOUS
  <2>2. ~(y < x)
    BY <1>2, <2>1
  <2> QED
    BY <2>1, <2>2
<1> QED
  BY <1>3

\* A set of numbers up to n has a greatest.
LEMMA Greatest ==
    ASSUME NEW n \in Nat, NEW S \in SUBSET (0 .. n), S # {}
    PROVE  \E x \in S : \A y \in S : y <= x
<1> DEFINE D == {n - y : y \in S}
<1>1. D \in SUBSET Nat /\ D # {}
  <2>1. ASSUME NEW y \in S PROVE n - y \in Nat
    <3>1. y \in 0 .. n
      OBVIOUS
    <3> QED
      BY <3>1
  <2> QED
    BY <2>1
<1>2. PICK d \in D : \A e \in D : d <= e
  BY <1>1, Least
<1>3. PICK x \in S : d = n - x
  BY <1>2
<1>4. ASSUME NEW y \in S PROVE y <= x
  <2>1. n - y \in D
    OBVIOUS
  <2>2. n - x <= n - y
    BY <1>2, <1>3, <2>1
  <2> QED
    BY <2>2
<1> QED
  BY <1>4

\* The number of a new pair is there, and not 0.
LEMMA PairNumber ==
    ASSUME KeysTypes, NEW p \in People
    PROVE  NewPair(p) \in 1 .. MaxPairs + 1
<1> DEFINE T == {u \in Tabs : PersonOf[u] = p}
           S == {account[p]} \union {device[t] : t \in T} \union {store[t].pair : t \in T}
                 \union {IF wrapped[p] = None THEN 0 ELSE wrapped[p][2]}
<1>1. MaxPairs \in Nat
  BY RoomKeysAssumption
<1>2. {account[p]} \in SUBSET (0 .. MaxPairs) /\ account[p] \in S
  BY DEF KeysTypes, Pairs
<1>3. {device[t] : t \in T} \in SUBSET (0 .. MaxPairs)
  BY DEF KeysTypes, Pairs
<1>4. {store[t].pair : t \in T} \in SUBSET (0 .. MaxPairs)
  BY DEF KeysTypes, Pairs, StoreType
<1>5. {IF wrapped[p] = None THEN 0 ELSE wrapped[p][2]} \in SUBSET (0 .. MaxPairs)
  BY <1>1 DEF KeysTypes, Copies, Pairs
<1>6. S \in SUBSET (0 .. MaxPairs)
  BY <1>2, <1>3, <1>4, <1>5
<1>7. PICK x \in S : \A y \in S : y <= x
  BY <1>1, <1>2, <1>6, Greatest
<1> HIDE DEF S
<1>8. x + 1 \in 1 .. MaxPairs + 1 /\ (x + 1) - 1 \in S /\ \A m \in S : m < x + 1
  BY <1>1, <1>6, <1>7
<1>9. \E n \in 1 .. MaxPairs + 1 : n - 1 \in S /\ \A m \in S : m < n
  BY <1>8
<1>10. NewPair(p) = CHOOSE n \in 1 .. MaxPairs + 1 : n - 1 \in S /\ \A m \in S : m < n
  BY DEF NewPair, S
<1> DEFINE P(n) == n - 1 \in S /\ \A m \in S : m < n
<1>11. \E n \in 1 .. MaxPairs + 1 : P(n)
  BY <1>9
<1>12. NewPair(p) = CHOOSE n \in 1 .. MaxPairs + 1 : P(n)
  BY <1>10
<1> HIDE DEF P
<1> QED
  BY <1>11, <1>12

\* A call just begun.
Begun(n) == [Idle EXCEPT !.pc = "room", !.pair = n, !.retry = TRUE]

\* One call more, of this tab and with this pair, or none.
LEMMA ResolvingIs ==
    ASSUME KeysTypes, NEW t \in Tabs, NEW n \in Pairs
    PROVE  /\ Resolving(resolve, t, n) \in [Tabs \X Slots -> CallType]
           /\ \A r \in Tabs \X Slots :
                \/ Resolving(resolve, t, n)[r] = resolve[r]
                \/ r[1] = t /\ Resolving(resolve, t, n)[r] = Begun(n)
<1> DEFINE free == {s \in Slots : resolve[<<t, s>>].pc = "idle"}
           s0 == CHOOSE s \in free : \A u \in free : s <= u
<1>1. resolve \in [Tabs \X Slots -> CallType]
  BY DEF KeysTypes
<1>2. Begun(n) \in CallType
  BY RoomKeysAssumption DEF Begun, CallType, Idle, Pairs
<1>3. Resolving(resolve, t, n) = IF free = {} THEN resolve ELSE [resolve EXCEPT ![<<t, s0>>] = Begun(n)]
  BY DEF Resolving, Begun
<1> HIDE DEF free, s0
<1>4. [resolve EXCEPT ![<<t, s0>>] = Begun(n)] \in [Tabs \X Slots -> CallType]
  BY <1>1, <1>2
<1>5. ASSUME NEW r \in Tabs \X Slots
      PROVE  [resolve EXCEPT ![<<t, s0>>] = Begun(n)][r] = resolve[r]
             \/ (r[1] = t /\ [resolve EXCEPT ![<<t, s0>>] = Begun(n)][r] = Begun(n))
  BY <1>1
<1> QED
  BY <1>1, <1>3, <1>4, <1>5

-----------------------------------------------------------------------------
(* Types of the keys: the steps.                                           *)

\* One more pass in the queue, with a key, or none.
LEMMA GrantingIs ==
    ASSUME NEW g \in GrantType, NEW k \in Nat
    PROVE  /\ Granting(g, k) \in GrantType
           /\ GrantOk(g) /\ Right(k) => GrantOk(Granting(g, k))
<1>1. g.queue \in Seq(Nat) /\ Append(g.queue, k) \in Seq(Nat)
  BY AppendProperties DEF GrantType
<1>2. [g EXCEPT !.queue = Append(g.queue, k)] \in GrantType
  BY <1>1 DEF GrantType
<1>3. /\ Len(Append(g.queue, k)) = Len(g.queue) + 1 /\ Len(g.queue) \in Nat
      /\ \A i \in 1 .. Len(g.queue) : Append(g.queue, k)[i] = g.queue[i]
      /\ Append(g.queue, k)[Len(g.queue) + 1] = k
  BY <1>1, AppendProperties, LenProperties
<1>4. ASSUME GrantOk(g), Right(k)
      PROVE  GrantOk([g EXCEPT !.queue = Append(g.queue, k)])
  <2> DEFINE h == [g EXCEPT !.queue = Append(g.queue, k)]
  <2>1. h.queue = Append(g.queue, k) /\ h.pc = g.pc /\ h.key = g.key /\ h.list = g.list /\ h.to = g.to
    BY DEF GrantType
  <2>2. ASSUME NEW i \in 1 .. Len(h.queue) PROVE Right(h.queue[i])
    <3> HIDE DEF h
    <3>1. i \in 1 .. Len(g.queue) \/ i = Len(g.queue) + 1
      BY <1>3, <2>1
    <3> QED
      BY <1>3, <1>4, <2>1, <3>1 DEF GrantOk
  <2> HIDE DEF h
  <2>3. GrantOk(h)
    BY <1>4, <2>1, <2>2 DEF GrantOk
  <2> QED
    BY <2>3 DEF h
<1> QED
  BY <1>2, <1>4 DEF Granting

\* What a pass takes from its queue, it leaves the rest of.
LEMMA TailIs ==
    ASSUME NEW q \in Seq(Nat), q # <<>>
    PROVE  /\ Head(q) \in Nat /\ Tail(q) \in Seq(Nat) /\ 1 \in 1 .. Len(q) /\ Head(q) = q[1]
           /\ \A i \in 1 .. Len(Tail(q)) : i + 1 \in 1 .. Len(q) /\ Tail(q)[i] = q[i + 1]
BY HeadTailProperties, LenProperties, EmptySeq

\* The pairs kept by the store.
LEMMA ReadyTypes ==
    ASSUME KeysTypes, NEW t \in Tabs, NEW n \in Pairs, Ready(t, n)
    PROVE  store' \in [Tabs -> StoreType] /\ resolve' \in [Tabs \X Slots -> CallType]
<1>1. [store[t] EXCEPT !.status = "ready", !.pair = n, !.op = "none"] \in StoreType
  BY DEF KeysTypes, StoreType
<1>2. store' \in [Tabs -> StoreType]
  BY <1>1 DEF KeysTypes, Ready, StoreIs
<1>3. resolve' \in [Tabs \X Slots -> CallType]
  BY ResolvingIs DEF KeysTypes, Ready
<1> QED
  BY <1>2, <1>3

\* The steps of the store keep the types.
LEMMA StoreTypes ==
    ASSUME KeysTypes, NEW t \in Tabs, StoreStep(t) \/ Unlock(t) \/ Reset(t)
    PROVE  KeysTypes'

<1>p. PersonOf[t] \in People /\ account[PersonOf[t]] \in Pairs /\ 0 \in Pairs
  BY RoomKeysAssumption DEF KeysTypes, Pairs
<1>1. ASSUME UnlockRead(t) PROVE KeysTypes'
  <2>1. store' \in [Tabs -> StoreType]
    <3>1. [store[t] EXCEPT !.op = "create"] \in StoreType /\ [store[t] EXCEPT !.status = "locked", !.op = "none"] \in StoreType
      BY DEF KeysTypes, StoreType
    <3>2. Ready(t, account[PersonOf[t]]) => store' \in [Tabs -> StoreType]
      BY <1>p, ReadyTypes
    <3>3. store \in [Tabs -> StoreType]
      BY DEF KeysTypes
    <3> QED
      BY <1>1, <3>1, <3>2, <3>3 DEF UnlockRead, StoreIs
  <2>2. resolve' \in [Tabs \X Slots -> CallType] /\ device' \in [Tabs -> Pairs]
    BY <1>1, <1>p, ReadyTypes DEF KeysTypes, UnlockRead
  <2> QED
    BY <1>1, <2>1, <2>2 DEF KeysTypes, UnlockRead, db
<1>2. ASSUME UnlockCreate(t) PROVE KeysTypes'
  <2>1. NewPair(PersonOf[t]) \in Pairs
    BY <1>2, <1>p, PairNumber DEF UnlockCreate, Pairs
  <2>2. store' \in [Tabs -> StoreType]
    <3>1. [store[t] EXCEPT !.op = "reread"] \in StoreType
      BY DEF KeysTypes, StoreType
    <3>2. Ready(t, NewPair(PersonOf[t])) => store' \in [Tabs -> StoreType]
      BY <2>1, ReadyTypes
    <3>3. store \in [Tabs -> StoreType]
      BY DEF KeysTypes
    <3> QED
      BY <1>2, <3>1, <3>2, <3>3 DEF UnlockCreate, StoreIs
  <2>3. /\ resolve' \in [Tabs \X Slots -> CallType] /\ device' \in [Tabs -> Pairs]
        /\ account' \in [People -> Pairs]
    BY <1>2, <2>1, ReadyTypes DEF KeysTypes, UnlockCreate
  <2> QED
    BY <1>2, <2>2, <2>3 DEF KeysTypes, UnlockCreate
<1>3. ASSUME StoreFails(t) PROVE KeysTypes'
  BY <1>3 DEF KeysTypes, StoreFails, StoreIs, StoreType, db
<1>4. ASSUME LoggedIn(t) PROVE KeysTypes'
  BY <1>4 DEF KeysTypes, LoggedIn, TabType, db
<1>5. ASSUME Restore(t) PROVE KeysTypes'
  <2>0. device[t] \in Pairs
    BY DEF KeysTypes
  <2>1. store' \in [Tabs -> StoreType]
    <3>1. NoStore \in StoreType /\ [NoStore EXCEPT !.status = "locked"] \in StoreType
      BY <1>p DEF NoStore, StoreType
    <3> QED
      BY <1>5, <2>0, <3>1, ReadyTypes DEF KeysTypes, Restore, StoreIs
  <2>2. resolve' \in [Tabs \X Slots -> CallType] /\ device' \in [Tabs -> Pairs]
    BY <1>5, <1>p, <2>0, ReadyTypes DEF KeysTypes, Restore
  <2> QED
    BY <1>5, <2>1, <2>2 DEF KeysTypes, Restore, db
<1>6. ASSUME ForgetKeys(t) PROVE KeysTypes'
  <2>1. NoStore \in StoreType
    BY <1>p DEF NoStore, StoreType
  <2> QED
    BY <1>6, <1>p, <2>1 DEF KeysTypes, ForgetKeys, StoreIs, db
<1>7. ASSUME Unlock(t) PROVE KeysTypes'
  <2>1. PICK right \in BOOLEAN : StoreIs(t, [NoStore EXCEPT !.status = "working", !.op = "read", !.right = right])
    BY <1>7 DEF Unlock
  <2>2. [NoStore EXCEPT !.status = "working", !.op = "read", !.right = right] \in StoreType
    BY <1>p DEF NoStore, StoreType
  <2> QED
    BY <1>7, <2>1, <2>2 DEF KeysTypes, Unlock, StoreIs, db
<1>8. ASSUME Reset(t) PROVE KeysTypes'
  <2>1. CopyOf(PersonOf[t]) \subseteq Nat
    BY <1>p DEF KeysTypes, CopyOf, Copies
  <2>2. dropped' \subseteq Nat
    <3>1. dropped' = dropped \union {0} \union CopyOf(PersonOf[t])
      BY <1>8 DEF Reset
    <3>2. dropped \subseteq Nat
      BY DEF KeysTypes
    <3>3. {0} \subseteq Nat
      OBVIOUS
    <3> QED
      BY <2>1, <3>1, <3>2, <3>3, Zenon
  <2>3. account' \in [People -> Pairs] /\ wrapped' \in [People -> Copies \union {None}]
    BY <1>8, <1>p DEF KeysTypes, Reset
  <2> QED
    BY <1>8, <2>2, <2>3 DEF KeysTypes, Reset
<1> QED
  BY <1>1, <1>2, <1>3, <1>4, <1>5, <1>6, <1>7, <1>8 DEF StoreStep

\* So do the steps of the page.
LEMMA PageTypes ==
    ASSUME KeysTypes, NEW t \in Tabs, JoinStep(t) \/ Enter(t) \/ Leave(t) \/ Drop(t)
    PROVE  KeysTypes'
<1>p. PersonOf[t] \in People /\ {PersonOf[u] : u \in channel} \subseteq People /\ store[t].pair \in Pairs
  BY RoomKeysAssumption DEF KeysTypes, StoreType
<1>h. NoHook \in HookType
  BY DEF NoHook, HookType
<1>1. ASSUME JoinAdmit(t) PROVE KeysTypes'
  BY <1>1 DEF KeysTypes, JoinAdmit, TabType, db
<1>2. ASSUME JoinSeat(t) PROVE KeysTypes'
  BY <1>2 DEF KeysTypes, JoinSeat, TabType, db
<1>3. ASSUME JoinRecord(t) PROVE KeysTypes'
  BY <1>3, <1>p DEF KeysTypes, JoinRecord, TabType
<1>4. ASSUME JoinAsk(t) PROVE KeysTypes'
  <2>1. tab' \in [Tabs -> TabType]
    BY <1>4 DEF KeysTypes, JoinAsk, TabType
  <2>2. hook' \in [Tabs -> HookType]
    <3>1. [hook EXCEPT ![t].roster = {PersonOf[u] : u \in channel}] \in [Tabs -> HookType]
      BY <1>p DEF KeysTypes, HookType
    <3> QED
      BY <1>4, <3>1 DEF KeysTypes, JoinAsk
  <2>3. resolve' \in [Tabs \X Slots -> CallType]
    BY <1>4, <1>p, ResolvingIs DEF KeysTypes, JoinAsk
  <2> QED
    BY <1>4, <2>1, <2>2, <2>3 DEF KeysTypes, JoinAsk, db
<1>5. ASSUME Roster(t) PROVE KeysTypes'
  <2> DEFINE now == {PersonOf[u] : u \in channel}
  <2>1. hook' \in [Tabs -> HookType]
    <3>1. [hook EXCEPT ![t].roster = now] \in [Tabs -> HookType]
      BY <1>p DEF KeysTypes, HookType
    <3> QED
      BY <1>5, <3>1 DEF Roster
  <2>2. grant' \in [Tabs -> GrantType]
    <3>1. Granting(grant[t], hook[t].key) \in GrantType
      BY GrantingIs DEF KeysTypes, HookType
    <3> QED
      BY <1>5, <3>1 DEF KeysTypes, Roster
  <2> QED
    BY <1>5, <2>1, <2>2 DEF KeysTypes, Roster, db
<1>6. ASSUME Reconnect(t) PROVE KeysTypes'
  <2>1. resolve' \in [Tabs \X Slots -> CallType]
    BY <1>6, <1>p, ResolvingIs DEF KeysTypes, Reconnect
  <2> QED
    BY <1>6, <2>1 DEF KeysTypes, Reconnect, TabType, db
<1>7. ASSUME Kicked(t) PROVE KeysTypes'
  <2>1. tab' \in [Tabs -> TabType]
    BY <1>7 DEF KeysTypes, Kicked, TabType
  <2>2. store' \in [Tabs -> StoreType]
    BY <1>7 DEF KeysTypes, Kicked, StoreIs, StoreType
  <2>3. hook' \in [Tabs -> HookType] /\ channel' \subseteq Tabs
    BY <1>7, <1>h DEF KeysTypes, Kicked, Unmounted
  <2> QED
    BY <1>7, <2>1, <2>2, <2>3 DEF KeysTypes, Kicked, db
<1>8. ASSUME Enter(t) PROVE KeysTypes'
  BY <1>8 DEF KeysTypes, Enter, TabType, db
<1>9. ASSUME Leave(t) PROVE KeysTypes'
  <2>1. hook' \in [Tabs -> HookType] /\ channel' \subseteq Tabs
    BY <1>9, <1>h DEF KeysTypes, Leave, Unmounted
  <2> QED
    BY <1>9, <2>1 DEF KeysTypes, Leave, TabType, db
<1>10. ASSUME Drop(t) PROVE KeysTypes'
  BY <1>10 DEF KeysTypes, Drop, TabType, db
<1> QED
  BY <1>1, <1>2, <1>3, <1>4, <1>5, <1>6, <1>7, <1>8, <1>9, <1>10 DEF JoinStep

\* So do those of a call of resolve.
LEMMA CallTypes ==
    ASSUME KeysTypes, NEW r \in Tabs \X Slots, ResolveStep(r)
    PROVE  KeysTypes'
<1>p. /\ PersonOf[r[1]] \in People /\ r[1] \in Tabs /\ resolve[r] \in CallType
      /\ resolve[r].check \in Nat /\ resolve[r].key \in Nat /\ resolve[r].pair \in Pairs
      /\ resolve[r].copy \in Copies \union {None} /\ resolve \in [Tabs \X Slots -> CallType]
  BY RoomKeysAssumption DEF KeysTypes, CallType
<1>i. Idle \in CallType
  BY RoomKeysAssumption DEF Idle, CallType, Pairs
<1>1. ASSUME Refused(r) PROVE KeysTypes'
  BY <1>1, <1>p, <1>i DEF KeysTypes, Refused, Goes, db
<1>2. ASSUME GetRoom(r) PROVE KeysTypes'
  <2>1. [resolve[r] EXCEPT !.pc = "member", !.check = check] \in CallType
    BY <1>p DEF KeysTypes, CallType
  <2> QED
    BY <1>2, <1>p, <2>1 DEF KeysTypes, GetRoom, Goes, db
<1>3. ASSUME GetMember(r) PROVE KeysTypes'
  <2>0. wrapped[PersonOf[r[1]]] \in Copies \union {None}
    BY <1>p DEF KeysTypes
  <2>1. [resolve[r] EXCEPT !.pc = "count", !.copy = wrapped[PersonOf[r[1]]]] \in CallType
    BY <1>p, <2>0 DEF CallType
  <2> QED
    BY <1>3, <1>p, <2>1 DEF KeysTypes, GetMember, Goes, db
<1>4. ASSUME GetCount(r) PROVE KeysTypes'
  <2>0. made \in Nat /\ made' \in Nat
    BY <1>4 DEF KeysTypes, GetCount
  <2>1. [resolve[r] EXCEPT !.pc = "init", !.key = made + 1] \in CallType
    <3>1. made + 1 \in Nat
      BY <2>0
    <3> QED
      BY <1>p, <3>1 DEF CallType
  <2>2. /\ [resolve[r] EXCEPT !.pc = "done", !.key = 0] \in CallType
        /\ [resolve[r] EXCEPT !.pc = "clear"] \in CallType
    BY <1>p DEF CallType
  <2>3. ASSUME resolve[r].copy # None
        PROVE  [resolve[r] EXCEPT !.pc = "done", !.key = resolve[r].copy[1]] \in CallType
    <3>1. resolve[r].copy[1] \in Nat
      BY <1>p, <2>3 DEF Copies
    <3> QED
      BY <1>p, <3>1 DEF CallType
  <2>4. resolve' \in [Tabs \X Slots -> CallType]
    BY <1>4, <1>p, <2>1, <2>2, <2>3 DEF GetCount, Goes
  <2> QED
    BY <1>4, <2>0, <2>4 DEF KeysTypes, GetCount, db
<1>c. Conflict(resolve[r]) \in CallType
  BY <1>p DEF Conflict, CallType
<1>5. ASSUME InitRead(r) PROVE KeysTypes'
  <2>1. [resolve[r] EXCEPT !.pc = "claim", !.check = check] \in CallType
    BY <1>p DEF KeysTypes, CallType
  <2> QED
    BY <1>5, <1>p, <1>c, <2>1 DEF KeysTypes, InitRead, Goes, db
<1>d. ASSUME NEW k \in Nat PROVE [resolve[r] EXCEPT !.pc = "done", !.key = k] \in CallType
  BY <1>p DEF CallType
<1>6. ASSUME InitClaim(r) PROVE KeysTypes'
  <2>1. [resolve[r] EXCEPT !.pc = "done"] \in CallType
    BY <1>p DEF CallType
  <2>2. <<resolve[r].key, resolve[r].pair>> \in Copies
    BY <1>p DEF Copies
  <2>3. resolve' \in [Tabs \X Slots -> CallType]
    BY <1>6, <1>p, <1>c, <2>1 DEF InitClaim, Goes
  <2>4. wrapped' \in [People -> Copies \union {None}] /\ check' \in Nat
    BY <1>6, <1>p, <2>2 DEF KeysTypes, InitClaim
  <2> QED
    BY <1>6, <2>3, <2>4 DEF KeysTypes, InitClaim
<1>7. ASSUME ClearMine(r) PROVE KeysTypes'
  <2>1. [resolve[r] EXCEPT !.pc = "room", !.retry = FALSE, !.again = FALSE] \in CallType
    BY <1>p DEF CallType
  <2>2. resolve' \in [Tabs \X Slots -> CallType]
    BY <1>7, <1>p, <1>d, <2>1 DEF ClearMine, Goes
  <2>3. CopyOf(PersonOf[r[1]]) \subseteq Nat
    BY <1>p DEF KeysTypes, CopyOf, Copies
  <2>4. dropped' \subseteq Nat
    <3>1. dropped' = dropped \union CopyOf(PersonOf[r[1]]) /\ dropped \subseteq Nat
      BY <1>7 DEF KeysTypes, ClearMine
    <3> QED
      BY <2>3, <3>1, Zenon
  <2>5. wrapped' \in [People -> Copies \union {None}]
    BY <1>7, <1>p DEF KeysTypes, ClearMine
  <2> QED
    BY <1>7, <2>2, <2>4, <2>5 DEF KeysTypes, ClearMine
<1>8. ASSUME Resolved(r) PROVE KeysTypes'
  <2>1. hook' \in [Tabs -> HookType]
    <3>1. hook \in [Tabs -> HookType]
      BY DEF KeysTypes
    <3>2. \A s \in {"waiting", "ready"} :
            [hook EXCEPT ![r[1]].key = resolve[r].key, ![r[1]].status = s] \in [Tabs -> HookType]
      BY <1>p, <3>1 DEF HookType
    <3> QED
      BY <1>8, <3>1, <3>2 DEF Resolved
  <2>2. Granting(grant[r[1]], resolve[r].key) \in GrantType
    BY <1>p, GrantingIs DEF KeysTypes
  <2>3. grant' \in [Tabs -> GrantType]
    BY <1>8, <2>2 DEF KeysTypes, Resolved
  <2> QED
    BY <1>8, <1>p, <1>i, <2>1, <2>3 DEF KeysTypes, Resolved, Goes, db
<1> QED
  BY <1>1, <1>2, <1>3, <1>4, <1>5, <1>6, <1>7, <1>8 DEF ResolveStep

\* And those of granting.
LEMMA PassTypes ==
    ASSUME KeysTypes, GrantsOk, NEW t \in Tabs, GrantStep(t) \/ Hear(t)
    PROVE  KeysTypes'
<1>p. /\ PersonOf[t] \in People /\ grant[t] \in GrantType /\ grant \in [Tabs -> GrantType]
      /\ grant[t].queue \in Seq(Nat) /\ grant[t].key \in Nat /\ grant[t].list \subseteq People \X Pairs
  BY RoomKeysAssumption DEF KeysTypes, GrantType
<1>n. None \in (People \X Pairs) \union {None} /\ <<>> \in Seq(Nat)
  OBVIOUS
<1>1. ASSUME PassRead(t) PROVE KeysTypes'
  <2>1. Tail(grant[t].queue) \in Seq(Nat) /\ Head(grant[t].queue) \in Nat
    BY <1>1, <1>p, TailIs DEF PassRead
  <2>2. {<<p, account[p]>> : p \in {q \in member : NeedsRoomKey(q)}} \subseteq People \X Pairs
    BY DEF KeysTypes
  <2>3. ASSUME NEW pc \in {"idle", "pick"}, NEW k \in Nat, NEW L \in SUBSET (People \X Pairs)
        PROVE  [grant[t] EXCEPT !.pc = pc, !.queue = Tail(grant[t].queue), !.key = k, !.list = L] \in GrantType
    BY <1>p, <2>1 DEF GrantType
  <2>4. grant' \in [Tabs -> GrantType]
    BY <1>1, <1>p, <2>1, <2>2, <2>3 DEF PassRead, Passes
  <2> QED
    BY <1>1, <2>4 DEF KeysTypes, PassRead, db
<1>2. ASSUME PassPick(t) PROVE KeysTypes'
  <2>1. CASE grant[t].list = {} /\ Passes(t, [NoGrant EXCEPT !.queue = grant[t].queue]) /\ UNCHANGED hook
    <3>1. [NoGrant EXCEPT !.queue = grant[t].queue] \in GrantType
      BY <1>p DEF NoGrant, GrantType
    <3> QED
      BY <1>2, <1>p, <2>1, <3>1 DEF KeysTypes, PassPick, Passes, db
  <2>2. ASSUME NEW to \in grant[t].list,
               LET here == to[1] \in hook[t].roster IN
               /\ hook' = [hook EXCEPT ![t].skipped = IF here THEN @ \ {to[1]} ELSE @ \union {to[1]}]
               /\ Passes(t, [grant[t] EXCEPT !.list = @ \ {to}, !.to = IF here THEN to ELSE None,
                                             !.pc = IF here THEN "granter" ELSE "pick"])
        PROVE  KeysTypes'
    <3>0. to \in People \X Pairs /\ to[1] \in People
      BY <1>p
    <3>1. hook' \in [Tabs -> HookType]
      <4>1. hook \in [Tabs -> HookType]
        BY DEF KeysTypes
      <4>2. /\ [hook EXCEPT ![t].skipped = @ \ {to[1]}] \in [Tabs -> HookType]
            /\ [hook EXCEPT ![t].skipped = @ \union {to[1]}] \in [Tabs -> HookType]
        BY <3>0, <4>1 DEF HookType
      <4> QED
        BY <2>2, <4>2
    <3>2. /\ [grant[t] EXCEPT !.list = @ \ {to}, !.to = to, !.pc = "granter"] \in GrantType
          /\ [grant[t] EXCEPT !.list = @ \ {to}, !.to = None, !.pc = "pick"] \in GrantType
      BY <1>p, <3>0 DEF GrantType
    <3>3. grant' \in [Tabs -> GrantType]
      BY <1>p, <2>2, <3>2 DEF Passes
    <3> QED
      BY <1>2, <3>1, <3>3 DEF KeysTypes, PassPick, db
  <2> QED
    BY <1>2, <2>1, <2>2 DEF PassPick
<1>3. ASSUME NEW pc \in {"idle", "pick", "granter", "target", "write"}
      PROVE  [grant[t] EXCEPT !.pc = pc] \in GrantType
  BY <1>p DEF GrantType
<1>4. ASSUME GrantCheck(t) PROVE KeysTypes'
  BY <1>4, <1>p, <1>3 DEF KeysTypes, GrantCheck, Passes, db
<1>5. ASSUME GrantTarget(t) PROVE KeysTypes'
  BY <1>5, <1>p, <1>3 DEF KeysTypes, GrantTarget, Passes, db
<1>6. ASSUME GrantWrite(t) PROVE KeysTypes'
  <2>0. grant[t].to \in People \X Pairs
    BY <1>6, <1>p DEF GrantWrite, GrantsOk, GrantOk, GrantType
  <2>1. <<grant[t].key, grant[t].to[2]>> \in Copies
    BY <2>0, <1>p DEF Copies
  <2>2. wrapped' \in [People -> Copies \union {None}]
    BY <1>6, <2>0, <2>1 DEF KeysTypes, GrantWrite
  <2>3. grant' \in [Tabs -> GrantType]
    BY <1>6, <1>p, <1>3 DEF GrantWrite, Passes
  <2> QED
    BY <1>6, <2>2, <2>3 DEF KeysTypes, GrantWrite
<1>7. ASSUME Hear(t) PROVE KeysTypes'
  <2>1. Granting(grant[t], hook[t].key) \in GrantType
    BY <1>p, GrantingIs DEF KeysTypes, HookType
  <2>2. grant' \in [Tabs -> GrantType]
    BY <1>7, <1>p, <2>1 DEF Hear
  <2>3. store[t].pair \in Pairs
    BY DEF KeysTypes, StoreType
  <2>4. resolve' \in [Tabs \X Slots -> CallType]
    <3>1. resolve' \in {resolve, Resolving(resolve, t, store[t].pair)}
      BY <1>7 DEF Hear
    <3>2. resolve \in [Tabs \X Slots -> CallType]
      BY DEF KeysTypes
    <3>3. Resolving(resolve, t, store[t].pair) \in [Tabs \X Slots -> CallType]
      BY <2>3, ResolvingIs
    <3> QED
      BY <3>1, <3>2, <3>3, Zenon
  <2> QED
    BY <1>7, <2>2, <2>4 DEF KeysTypes, Hear, db
<1> QED
  BY <1>1, <1>2, <1>4, <1>5, <1>6, <1>7 DEF GrantStep

-----------------------------------------------------------------------------
(* What the database may do in a step.                                     *)

\* What the database may do in a step, as the parts of the invariant see it: a
\* fingerprint is replaced once its key was dropped, and a pair once there was a
\* reset.
Grow ==
  /\ member \subseteq member' /\ dropped \subseteq dropped'
  /\ check' = check \/ check = 0 \/ check \in dropped
  /\ \A p \in People : account'[p] = account[p] \/ account[p] = 0 \/ dropped' # {}

\* Nothing that is right stops being so.
LEMMA Carried ==
    ASSUME Grow
    PROVE  /\ \A k : Right(k) => Right(k)'
           /\ \A p \in People : \A n : Own(p, n) => Own(p, n)'
<1>1. ASSUME NEW k, Right(k) PROVE Right(k)'
  BY <1>1 DEF Grow, Right
<1>2. ASSUME NEW p \in People, NEW n, Own(p, n) PROVE Own(p, n)'
  BY <1>2 DEF Grow, Own
<1> QED
  BY <1>1, <1>2

\* Nor is a sealed copy spoilt.
LEMMA CopyCarried ==
    ASSUME Grow, NEW p \in People, NEW c, CopyOk(p, c)
    PROVE  CopyOk(p, c)'
BY Carried DEF Grow, CopyOk

\* Nor a call of resolve.
LEMMA CallCarried ==
    ASSUME Grow, NEW p \in People, NEW a, CallOk(p, a)
    PROVE  CallOk(p, a)'
<1> SUFFICES ASSUME a.pc # "idle"
             PROVE  CallOk(p, a)'
  BY DEF CallOk
<1>1. (p \in member)' /\ Own(p, a.pair)'
  BY Carried DEF Grow, CallOk
<1>2. (a.pc = "claim" => a.check = 0 \/ a.check \in dropped)'
  BY DEF Grow, CallOk
<1>3. (a.pc = "done" /\ a.key # 0 => Right(a.key))'
  BY Carried DEF CallOk
<1>4. (a.pc = "count" => CopyOk(p, a.copy))'
  BY CopyCarried DEF CallOk
<1>5. ASSUME dropped' = {}
      PROVE  /\ a.pc # "clear"
             /\ (a.again => check # 0)'
             /\ (a.pc \in {"member", "count"} => a.check = check \/ (a.check = 0 /\ ~a.again))'
  <2>1. dropped = {} /\ (check' = check \/ check = 0)
    BY <1>5 DEF Grow
  <2> QED
    BY <2>1 DEF CallOk
<1> QED
  BY <1>1, <1>2, <1>3, <1>4, <1>5 DEF CallOk

\* Nor a pass of grantPending.
LEMMA GrantCarried ==
    ASSUME Grow, member \subseteq People, NEW g, GrantOk(g)
    PROVE  GrantOk(g)'
<1>1. ASSUME NEW x, TargetOk(x) PROVE TargetOk(x)'
  BY <1>1, Carried DEF Grow, TargetOk
<1>2. (\A i \in 1 .. Len(g.queue) : Right(g.queue[i]))' /\ (g.pc # "idle" => Right(g.key))'
  BY Carried DEF GrantOk
<1>3. (\A x \in g.list : TargetOk(x))'
  BY <1>1 DEF GrantOk
<1>4. (g.pc \in {"granter", "target", "write"} => g.to # None /\ TargetOk(g.to))'
  BY <1>1 DEF GrantOk
<1> QED
  BY <1>2, <1>3, <1>4 DEF GrantOk

\* Nor a page.
LEMMA PageCarried ==
    ASSUME Grow, NEW p, NEW b, PageOk(p, b)
    PROVE  PageOk(p, b)'
BY DEF Grow, PageOk

-----------------------------------------------------------------------------
\* The steps that write what the room agrees on.
LEMMA KeysGrow ==
    ASSUME KeysInv, KeysNext
    PROVE  Grow
<1> USE DEF db
<1>n. ASSUME UNCHANGED <<account, member, check, dropped>> PROVE Grow
  BY <1>n DEF Grow
<1>1. ASSUME NEW t \in Tabs, TabStep(t) \/ Unlock(t) \/ Reset(t) \/ Enter(t) \/ Leave(t) \/ Drop(t)
      PROVE  Grow
  <2>1. ASSUME UnlockCreate(t) PROVE Grow
    BY <2>1 DEF Grow, UnlockCreate, Unset, KeysInv, KeysTypes
  <2>2. ASSUME Reset(t) PROVE Grow
    BY <2>2 DEF Grow, Reset
  <2>3. ASSUME JoinRecord(t) PROVE Grow
    BY <2>3 DEF Grow, JoinRecord
  <2>4. ASSUME \/ UnlockRead(t) \/ StoreFails(t) \/ LoggedIn(t) \/ Restore(t) \/ ForgetKeys(t) \/ Unlock(t)
        PROVE  Grow
    BY <1>n, <2>4 DEF UnlockRead, StoreFails, LoggedIn, Restore, ForgetKeys, Unlock
  <2>5. ASSUME \/ JoinAdmit(t) \/ JoinSeat(t) \/ JoinAsk(t) \/ Roster(t) \/ Reconnect(t) \/ Kicked(t)
               \/ Enter(t) \/ Leave(t) \/ Drop(t)
        PROVE  Grow
    BY <1>n, <2>5 DEF JoinAdmit, JoinSeat, JoinAsk, Roster, Reconnect, Kicked, Enter, Leave, Drop
  <2>6. ASSUME GrantStep(t) \/ Hear(t) PROVE Grow
    BY <1>n, <2>6 DEF GrantStep, PassRead, PassPick, GrantCheck, GrantTarget, GrantWrite, Hear
  <2> QED
    BY <1>1, <2>1, <2>2, <2>3, <2>4, <2>5, <2>6 DEF TabStep, StoreStep, JoinStep
<1>2. ASSUME NEW r \in Tabs \X Slots, ResolveStep(r)
      PROVE  Grow
  <2>1. ASSUME InitClaim(r) PROVE Grow
    <3>1. CallOk(PersonOf[r[1]], resolve[r])
      BY DEF KeysInv, CallsOk
    <3>2. check' = check \/ check = 0 \/ check \in dropped
      BY <2>1, <3>1 DEF InitClaim, Claims, CallOk
    <3> QED
      BY <2>1, <3>2 DEF Grow, InitClaim
  <2>2. ASSUME ClearMine(r) PROVE Grow
    BY <2>2 DEF Grow, ClearMine
  <2>3. ASSUME Refused(r) \/ GetRoom(r) \/ GetMember(r) \/ GetCount(r) \/ InitRead(r) \/ Resolved(r) PROVE Grow
    BY <1>n, <2>3 DEF Refused, GetRoom, GetMember, GetCount, InitRead, Resolved
  <2> QED
    BY <1>2, <2>1, <2>2, <2>3 DEF ResolveStep
<1> QED
  BY <1>1, <1>2 DEF KeysNext

\* Every step keeps the types.
LEMMA KeysTyped ==
    ASSUME KeysInv, KeysNext
    PROVE  KeysTypes'
BY StoreTypes, PageTypes, CallTypes, PassTypes DEF KeysInv, KeysNext, TabStep

-----------------------------------------------------------------------------
(* The parts of the invariant, one by one.                                 *)

\* The pairs in the stores are the accounts'.
LEMMA StoresStep ==
    ASSUME KeysInv, Grow, KeysNext
    PROVE  StoresOk'
<1> USE DEF db
<1>t. store \in [Tabs -> StoreType] /\ \A u \in Tabs : PersonOf[u] \in People
  BY RoomKeysAssumption DEF KeysInv, KeysTypes
<1>c. ASSUME NEW u \in Tabs, store'[u].pair = store[u].pair /\ store'[u].status = store[u].status
      PROVE  (store[u].status = "ready" => Own(PersonOf[u], store[u].pair))'
  <2>1. store[u].status = "ready" => Own(PersonOf[u], store[u].pair)
    BY DEF KeysInv, StoresOk
  <2> QED
    BY <1>c, <1>t, <2>1, Carried DEF Own, Grow
<1>1. ASSUME UNCHANGED store PROVE StoresOk'
  BY <1>1, <1>c DEF StoresOk
<1>2. ASSUME NEW t \in Tabs, NEW s, StoreIs(t, s), s.status # "ready" \/ Own(PersonOf[t], s.pair)'
      PROVE  StoresOk'
  <2>1. store'[t] = s /\ \A u \in Tabs : u # t => store'[u] = store[u]
    BY <1>t, <1>2 DEF StoreIs
  <2>2. (store[t].status = "ready" => Own(PersonOf[t], store[t].pair))'
    BY <1>2, <2>1 DEF Own
  <2> QED
    BY <1>c, <2>1, <2>2 DEF StoresOk
<1>3. ASSUME NEW t \in Tabs, NEW n, Ready(t, n), Own(PersonOf[t], n)'
      PROVE  StoresOk'
  <2>1. StoreIs(t, [store[t] EXCEPT !.status = "ready", !.pair = n, !.op = "none"])
    BY <1>3 DEF Ready
  <2>2. [store[t] EXCEPT !.status = "ready", !.pair = n, !.op = "none"].pair = n
    BY <1>t DEF StoreType
  <2> QED
    BY <1>2, <1>3, <2>1, <2>2
<1>4. ASSUME NEW t \in Tabs, TabStep(t) \/ Unlock(t) \/ Reset(t) \/ Enter(t) \/ Leave(t) \/ Drop(t)
      PROVE  StoresOk'
  <2>1. ASSUME UnlockRead(t) PROVE StoresOk'
    <3> PICK n : n = account[PersonOf[t]]
      OBVIOUS
    <3>1. ASSUME n # 0 PROVE Own(PersonOf[t], n)'
      BY <2>1, <3>1 DEF Own, UnlockRead
    <3> PICK s : s = [store[t] EXCEPT !.op = "create"]
      OBVIOUS
    <3> PICK l : l = [store[t] EXCEPT !.status = "locked", !.op = "none"]
      OBVIOUS
    <3>2. s.status = store[t].status /\ s.pair = store[t].pair /\ l.status # "ready"
      BY <1>t DEF StoreType
    <3>3. ASSUME StoreIs(t, s) PROVE StoresOk'
      <4>1. ASSUME NEW u \in Tabs PROVE store'[u].pair = store[u].pair /\ store'[u].status = store[u].status
        BY <1>t, <3>2, <3>3 DEF StoreIs
      <4> QED
        BY <1>c, <4>1 DEF StoresOk
    <3>4. StoreIs(t, s) \/ (n # 0 /\ Ready(t, n)) \/ StoreIs(t, l)
      BY <2>1 DEF UnlockRead
    <3> QED
      BY <1>2, <1>3, <3>1, <3>2, <3>3, <3>4
  <2>2. ASSUME UnlockCreate(t) PROVE StoresOk'
    <3> PICK n : n = NewPair(PersonOf[t])
      OBVIOUS
    <3>1. ASSUME Unset(PersonOf[t]) PROVE Own(PersonOf[t], n)' /\ Ready(t, n)
      <4>1. n # 0 /\ account' = [account EXCEPT ![PersonOf[t]] = n] /\ account \in [People -> Pairs] /\ Ready(t, n)
        BY <1>t, <2>2, <3>1, PairNumber DEF UnlockCreate, KeysInv, KeysTypes
      <4> QED
        BY <4>1, <1>t DEF Own
    <3> PICK s : s = [store[t] EXCEPT !.op = "reread"]
      OBVIOUS
    <3>2. s.status = store[t].status /\ s.pair = store[t].pair
      BY <1>t DEF StoreType
    <3>3. ASSUME StoreIs(t, s) PROVE StoresOk'
      <4>1. ASSUME NEW u \in Tabs PROVE store'[u].pair = store[u].pair /\ store'[u].status = store[u].status
        BY <1>t, <3>2, <3>3 DEF StoreIs
      <4> QED
        BY <1>c, <4>1 DEF StoresOk
    <3>4. StoreIs(t, s) \/ Unset(PersonOf[t])
      BY <2>2 DEF UnlockCreate
    <3> QED
      BY <1>3, <3>1, <3>3, <3>4
  <2>3. ASSUME Restore(t) PROVE StoresOk'
    <3> PICK n : n = device[t]
      OBVIOUS
    <3> PICK s : s = [NoStore EXCEPT !.status = "locked"]
      OBVIOUS
    <3>1. s.status # "ready"
      BY DEF NoStore
    <3>2. ASSUME Ready(t, n), n # 0, n = account[PersonOf[t]] PROVE Own(PersonOf[t], n)'
      BY <2>3, <3>2 DEF Own, Restore
    <3>3. StoreIs(t, s) \/ (Ready(t, n) /\ n # 0 /\ n = account[PersonOf[t]])
      BY <2>3 DEF Restore
    <3> QED
      BY <1>2, <1>3, <3>1, <3>2, <3>3
  <2>4. ASSUME StoreFails(t) PROVE StoresOk'
    <3> PICK s : s = [store[t] EXCEPT !.status = "error", !.op = "none"]
      OBVIOUS
    <3>1. s.status # "ready" /\ StoreIs(t, s)
      BY <2>4, <1>t DEF StoreType, StoreFails
    <3> QED
      BY <1>2, <3>1
  <2>5. ASSUME ForgetKeys(t) PROVE StoresOk'
    BY <1>2, <2>5 DEF ForgetKeys, NoStore
  <2>6. ASSUME Unlock(t) PROVE StoresOk'
    <3>1. PICK right : StoreIs(t, [NoStore EXCEPT !.status = "working", !.op = "read", !.right = right])
      BY <2>6 DEF Unlock
    <3> PICK s : s = [NoStore EXCEPT !.status = "working", !.op = "read", !.right = right]
      OBVIOUS
    <3>2. s.status # "ready" /\ StoreIs(t, s)
      BY <3>1 DEF NoStore
    <3> QED
      BY <1>2, <3>2
  <2>7. ASSUME Kicked(t) PROVE StoresOk'
    <3>1. ASSUME NEW u \in Tabs PROVE store'[u].pair = store[u].pair /\ store'[u].status = store[u].status
      BY <2>7, <1>t DEF Kicked, StoreIs, StoreType
    <3> QED
      BY <1>c, <3>1 DEF StoresOk
  <2>8. ASSUME LoggedIn(t) \/ Reset(t) \/ Enter(t) \/ Leave(t) \/ Drop(t) \/ JoinAdmit(t) \/ JoinSeat(t)
               \/ JoinRecord(t) \/ JoinAsk(t) \/ Roster(t) \/ Reconnect(t)
        PROVE  StoresOk'
    BY <1>1, <2>8 DEF LoggedIn, Reset, Enter, Leave, Drop, JoinAdmit, JoinSeat, JoinRecord, JoinAsk, Roster, Reconnect
  <2>9. ASSUME GrantStep(t) \/ Hear(t) PROVE StoresOk'
    BY <1>1, <2>9 DEF GrantStep, PassRead, PassPick, GrantCheck, GrantTarget, GrantWrite, Hear
  <2> QED
    BY <1>4, <2>1, <2>2, <2>3, <2>4, <2>5, <2>6, <2>7, <2>8, <2>9 DEF TabStep, StoreStep, JoinStep
<1>5. ASSUME NEW r \in Tabs \X Slots, ResolveStep(r)
      PROVE  StoresOk'
  BY <1>1, <1>5 DEF ResolveStep, Refused, GetRoom, GetMember, GetCount, InitRead, InitClaim, ClearMine, Resolved
<1> QED
  BY <1>4, <1>5 DEF KeysNext

-----------------------------------------------------------------------------
\* Who is in the call, or about to be, is a member.
LEMMA PagesStep ==
    ASSUME KeysInv, Grow, KeysNext
    PROVE  PagesOk'
<1> USE DEF db
<1>t. tab \in [Tabs -> TabType] /\ \A u \in Tabs : PersonOf[u] \in People
  BY RoomKeysAssumption DEF KeysInv, KeysTypes
<1>o. ASSUME NEW u \in Tabs PROVE PageOk(PersonOf[u], tab[u])
  BY DEF KeysInv, PagesOk
<1>c. ASSUME NEW u \in Tabs, tab'[u] = tab[u]
      PROVE  PageOk(PersonOf[u], tab[u])'
  BY <1>o, <1>c DEF PageOk, Grow
<1>1. ASSUME UNCHANGED tab PROVE PagesOk'
  BY <1>1, <1>c DEF PagesOk
<1>2. ASSUME NEW t \in Tabs, \A u \in Tabs : u # t => tab'[u] = tab[u], PageOk(PersonOf[t], tab[t])'
      PROVE  PagesOk'
  BY <1>c, <1>2 DEF PagesOk
<1>4. ASSUME NEW t \in Tabs, TabStep(t) \/ Unlock(t) \/ Reset(t) \/ Enter(t) \/ Leave(t) \/ Drop(t)
      PROVE  PagesOk'
  <2>1. ASSUME LoggedIn(t) PROVE PagesOk'
    BY <1>o, <1>t, <1>2, <2>1 DEF LoggedIn, TabType, PageOk
  <2>2. ASSUME JoinAdmit(t) PROVE PagesOk'
    BY <1>o, <1>t, <1>2, <2>2 DEF JoinAdmit, TabType, PageOk
  <2>3. ASSUME JoinSeat(t) PROVE PagesOk'
    BY <1>o, <1>t, <1>2, <2>3 DEF JoinSeat, TabType, PageOk
  <2>4. ASSUME JoinRecord(t) PROVE PagesOk'
    BY <1>o, <1>t, <1>2, <2>4 DEF JoinRecord, TabType, PageOk
  <2>5. ASSUME JoinAsk(t) PROVE PagesOk'
    BY <1>o, <1>t, <1>2, <2>5 DEF JoinAsk, TabType, PageOk
  <2>6. ASSUME Reconnect(t) PROVE PagesOk'
    BY <1>o, <1>t, <1>2, <2>6 DEF Reconnect, TabType, PageOk
  <2>7. ASSUME Kicked(t) PROVE PagesOk'
    BY <1>o, <1>t, <1>2, <2>7 DEF Kicked, TabType, PageOk
  <2>8. ASSUME Enter(t) PROVE PagesOk'
    BY <1>o, <1>t, <1>2, <2>8 DEF Enter, TabType, PageOk
  <2>9. ASSUME Leave(t) PROVE PagesOk'
    BY <1>o, <1>t, <1>2, <2>9 DEF Leave, TabType, PageOk
  <2>10. ASSUME Drop(t) PROVE PagesOk'
    BY <1>o, <1>t, <1>2, <2>10 DEF Drop, TabType, PageOk, Mounted
  <2>11. ASSUME UnlockRead(t) \/ UnlockCreate(t) \/ StoreFails(t) \/ Restore(t) \/ ForgetKeys(t) \/ Unlock(t) \/ Reset(t)
                \/ Roster(t)
         PROVE  PagesOk'
    BY <1>1, <2>11 DEF UnlockRead, UnlockCreate, StoreFails, Restore, ForgetKeys, Unlock, Reset, Roster
  <2>12. ASSUME GrantStep(t) \/ Hear(t) PROVE PagesOk'
    BY <1>1, <2>12 DEF GrantStep, PassRead, PassPick, GrantCheck, GrantTarget, GrantWrite, Hear
  <2> QED
    BY <1>4, <2>1, <2>2, <2>3, <2>4, <2>5, <2>6, <2>7, <2>8, <2>9, <2>10, <2>11, <2>12 DEF TabStep, StoreStep, JoinStep
<1>5. ASSUME NEW r \in Tabs \X Slots, ResolveStep(r)
      PROVE  PagesOk'
  BY <1>1, <1>5 DEF ResolveStep, Refused, GetRoom, GetMember, GetCount, InitRead, InitClaim, ClearMine, Resolved
<1> QED
  BY <1>4, <1>5 DEF KeysNext

\* The steps that write neither copies nor the fingerprint nor what was dropped.
LEMMA Unwritten ==
    ASSUME KeysNext
    PROVE  \/ UNCHANGED <<wrapped, check, dropped>>
           \/ \E t \in Tabs : Reset(t) \/ GrantWrite(t)
           \/ \E r \in Tabs \X Slots : InitClaim(r) \/ ClearMine(r)
<1> USE DEF db
<1>1. ASSUME NEW t \in Tabs, TabStep(t) \/ Unlock(t) \/ Reset(t) \/ Enter(t) \/ Leave(t) \/ Drop(t)
      PROVE  UNCHANGED <<wrapped, check, dropped>> \/ Reset(t) \/ GrantWrite(t)
  <2>1. ASSUME StoreStep(t) \/ Unlock(t) PROVE UNCHANGED <<wrapped, check, dropped>>
    BY <2>1 DEF StoreStep, UnlockRead, UnlockCreate, StoreFails, LoggedIn, Restore, ForgetKeys, Unlock
  <2>2. ASSUME JoinStep(t) \/ Enter(t) \/ Leave(t) \/ Drop(t) PROVE UNCHANGED <<wrapped, check, dropped>>
    BY <2>2 DEF JoinStep, JoinAdmit, JoinSeat, JoinRecord, JoinAsk, Roster, Reconnect, Kicked, Enter, Leave, Drop
  <2>3. ASSUME PassRead(t) \/ PassPick(t) \/ GrantCheck(t) \/ GrantTarget(t) \/ Hear(t)
        PROVE  UNCHANGED <<wrapped, check, dropped>>
    BY <2>3 DEF PassRead, PassPick, GrantCheck, GrantTarget, Hear
  <2> QED
    BY <1>1, <2>1, <2>2, <2>3 DEF TabStep, GrantStep
<1>2. ASSUME NEW r \in Tabs \X Slots, ResolveStep(r)
      PROVE  UNCHANGED <<wrapped, check, dropped>> \/ InitClaim(r) \/ ClearMine(r)
  BY <1>2 DEF ResolveStep, Refused, GetRoom, GetMember, GetCount, InitRead, Resolved
<1> QED
  BY <1>1, <1>2 DEF KeysNext

\* What InitClaim writes.
LEMMA Claimed ==
    ASSUME KeysInv, NEW r \in Tabs \X Slots, InitClaim(r), resolve[r].check = check
    PROVE  /\ PersonOf[r[1]] \in member /\ PersonOf[r[1]] \in People /\ member' = member
           /\ check' = resolve[r].key /\ check' # 0
           /\ wrapped' = [wrapped EXCEPT ![PersonOf[r[1]]] = <<resolve[r].key, resolve[r].pair>>]
           /\ Own(PersonOf[r[1]], resolve[r].pair)
<1>1. CallOk(PersonOf[r[1]], resolve[r])
  BY DEF KeysInv, CallsOk
<1> QED
  BY <1>1, RoomKeysAssumption DEF CallOk, InitClaim, Claims

\* Every sealed copy is of the room's key or of one that was dropped.
LEMMA CopiesStep ==
    ASSUME KeysInv, Grow, KeysNext
    PROVE  CopiesOk'
<1>t. wrapped \in [People -> Copies \union {None}] /\ None \notin Nat \X Nat
  BY RoomKeysAssumption DEF KeysInv, KeysTypes
<1>c. ASSUME NEW p \in People, wrapped'[p] = wrapped[p]
      PROVE  CopyOk(p, wrapped[p])'
  <2> PICK c : c = wrapped[p]
    OBVIOUS
  <2>1. CopyOk(p, c)
    BY DEF KeysInv, CopiesOk
  <2>2. CopyOk(p, c)'
    BY <2>1, CopyCarried
  <2> QED
    BY <1>c, <2>2
<1>1. ASSUME UNCHANGED wrapped PROVE CopiesOk'
  BY <1>1, <1>c DEF CopiesOk
<1>2. ASSUME NEW q \in People, NEW c, wrapped' = [wrapped EXCEPT ![q] = c], CopyOk(q, c)'
      PROVE  CopiesOk'
  <2>1. ASSUME NEW p \in People PROVE CopyOk(p, wrapped[p])'
    <3>1. CASE p = q
      <4>1. wrapped'[p] = c
        BY <1>t, <1>2, <3>1
      <4> QED
        BY <1>2, <3>1, <4>1
    <3>2. CASE p # q
      BY <1>c, <1>t, <1>2, <3>2
    <3> QED
      BY <3>1, <3>2
  <2> QED
    BY <2>1 DEF CopiesOk
<1>3. ASSUME NEW t \in Tabs, Reset(t) PROVE CopiesOk'
  <2>1. CopyOk(PersonOf[t], None)'
    BY DEF CopyOk
  <2> QED
    BY <1>2, <1>3, <2>1, RoomKeysAssumption DEF Reset
<1>4. ASSUME NEW t \in Tabs, GrantWrite(t) PROVE CopiesOk'
  <2>1. GrantOk(grant[t]) /\ grant[t] \in GrantType
    BY DEF KeysInv, GrantsOk, KeysTypes
  <2> PICK k : k = grant[t].key
    OBVIOUS
  <2> PICK to : to = grant[t].to
    OBVIOUS
  <2>2. to \in People \X Pairs /\ Right(k) /\ TargetOk(to) /\ member' = member
    BY <1>4, <2>1 DEF GrantOk, GrantType, GrantWrite
  <2> PICK c : c = <<k, to[2]>>
    OBVIOUS
  <2>3. CopyOk(to[1], c)'
    BY <2>2, Carried DEF CopyOk, TargetOk
  <2>4. UNCHANGED wrapped \/ wrapped' = [wrapped EXCEPT ![to[1]] = c]
    BY <1>4 DEF GrantWrite
  <2> QED
    BY <1>1, <1>2, <2>2, <2>3, <2>4
<1>5. ASSUME NEW r \in Tabs \X Slots, InitClaim(r) PROVE CopiesOk'
  <2>1. CASE resolve[r].check # check
    BY <1>1, <1>5, <2>1 DEF InitClaim, Claims
  <2>2. CASE resolve[r].check = check
    <3> PICK k : k = resolve[r].key
      OBVIOUS
    <3> PICK n : n = resolve[r].pair
      OBVIOUS
    <3> PICK p : p = PersonOf[r[1]]
      OBVIOUS
    <3> PICK c : c = <<k, n>>
      OBVIOUS
    <3>1. p \in member /\ p \in People /\ member' = member /\ check' = k /\ k # 0 /\ Own(p, n)
          /\ wrapped' = [wrapped EXCEPT ![p] = c]
      BY <1>5, <2>2, Claimed
    <3>2. CopyOk(p, c)'
      BY <3>1, Carried DEF CopyOk, Right
    <3> QED
      BY <1>2, <3>1, <3>2
  <2> QED
    BY <2>1, <2>2
<1>6. ASSUME NEW r \in Tabs \X Slots, ClearMine(r) PROVE CopiesOk'
  <2>1. CopyOk(PersonOf[r[1]], None)'
    BY DEF CopyOk
  <2> QED
    BY <1>2, <1>6, <2>1, RoomKeysAssumption DEF ClearMine
<1> QED
  BY Unwritten, <1>1, <1>3, <1>4, <1>5, <1>6

\* The room's key is never without a copy, unless that was dropped.
LEMMA KeptStep ==
    ASSUME KeysInv, Grow, KeysNext
    PROVE  CheckKept'
<1>t. wrapped \in [People -> Copies \union {None}] /\ member \subseteq People
  BY DEF KeysInv, KeysTypes
<1>1. ASSUME check' = check, \A p \in member : wrapped'[p] = wrapped[p] \/ CopyOf(p) \subseteq dropped' \/ wrapped[p] = None
      PROVE  CheckKept'
  <2>1. CASE check = 0 \/ check \in dropped
    BY <1>1, <2>1 DEF CheckKept, Grow
  <2>2. CASE \E p \in member : wrapped[p] # None /\ wrapped[p][1] = check
    <3> PICK p \in member : wrapped[p] # None /\ wrapped[p][1] = check
      BY <2>2
    <3>1. CASE wrapped'[p] = wrapped[p]
      BY <1>1, <3>1 DEF CheckKept, Grow
    <3>2. CASE CopyOf(p) \subseteq dropped'
      BY <1>1, <3>2 DEF CheckKept, CopyOf
    <3> QED
      BY <1>1, <3>1, <3>2
  <2> QED
    BY <2>1, <2>2 DEF KeysInv, CheckKept
<1>2. ASSUME UNCHANGED <<wrapped, check, dropped>> PROVE CheckKept'
  BY <1>1, <1>2
<1>3. ASSUME NEW t \in Tabs, Reset(t) PROVE CheckKept'
  BY <1>1, <1>3, <1>t DEF Reset
<1>4. ASSUME NEW t \in Tabs, GrantWrite(t) PROVE CheckKept'
  BY <1>1, <1>4, <1>t DEF GrantWrite
<1>5. ASSUME NEW r \in Tabs \X Slots, InitClaim(r) PROVE CheckKept'
  <2>1. CASE resolve[r].check # check
    BY <1>2, <1>5, <2>1 DEF InitClaim, Claims
  <2>2. CASE resolve[r].check = check
    <3> PICK p : p = PersonOf[r[1]]
      OBVIOUS
    <3>1. p \in member' /\ wrapped'[p] = <<check', resolve[r].pair>>
      BY <1>5, <1>t, <2>2, Claimed
    <3>2. wrapped'[p] \in Copies /\ wrapped'[p] # None
      <4>1. check' \in Nat /\ resolve[r].pair \in Pairs
        BY <1>5, KeysTyped DEF KeysInv, KeysTypes, CallType
      <4> QED
        BY <3>1, <4>1, RoomKeysAssumption DEF Copies, Pairs
    <3> QED
      BY <3>1, <3>2 DEF CheckKept
  <2> QED
    BY <2>1, <2>2
<1>6. ASSUME NEW r \in Tabs \X Slots, ClearMine(r) PROVE CheckKept'
  BY <1>1, <1>6, <1>t DEF ClearMine
<1> QED
  BY Unwritten, <1>2, <1>3, <1>4, <1>5, <1>6

\* Only a reset lets copies be dropped.
LEMMA DropsStep ==
    ASSUME KeysInv, KeysNext
    PROVE  DropsLast'
<1>o. DropsLast
  BY DEF KeysInv
<1>1. ASSUME NEW t \in Tabs, Reset(t) PROVE DropsLast'
  BY <1>1 DEF DropsLast, Reset
<1>2. ASSUME NEW r \in Tabs \X Slots, ClearMine(r) PROVE DropsLast'
  <2>1. CallOk(PersonOf[r[1]], resolve[r])
    BY DEF KeysInv, CallsOk
  <2>2. dropped # {} /\ dropped \subseteq dropped'
    BY <1>2, <2>1 DEF CallOk, ClearMine
  <2> QED
    BY <1>o, <2>2 DEF DropsLast
<1>3. ASSUME UNCHANGED dropped PROVE DropsLast'
  BY <1>o, <1>3 DEF DropsLast
<1> QED
  BY Unwritten, <1>1, <1>2, <1>3 DEF GrantWrite, InitClaim

\* The key of a page is the room's, or one that was dropped.
LEMMA HooksStep ==
    ASSUME KeysInv, Grow, KeysNext
    PROVE  HooksOk'
<1> USE DEF db
<1>t. hook \in [Tabs -> HookType]
  BY DEF KeysInv, KeysTypes
<1>c. ASSUME NEW u \in Tabs, hook'[u].key = hook[u].key
      PROVE  (hook[u].key # 0 => Right(hook[u].key))'
  <2> PICK k : k = hook[u].key
    OBVIOUS
  <2>1. k # 0 => Right(k)
    BY DEF KeysInv, HooksOk
  <2>2. k # 0 => Right(k)'
    BY <2>1, Carried
  <2> QED
    BY <1>c, <2>2
<1>1. ASSUME NEW t \in Tabs, NEW h, hook' = [hook EXCEPT ![t] = h], NEW k, k = h.key, k \in {0, hook[t].key} \/ Right(k)'
      PROVE  HooksOk'
  <2>1. ASSUME NEW u \in Tabs PROVE (hook[u].key # 0 => Right(hook[u].key))'
    <3>1. CASE u # t \/ k = hook[t].key
      BY <1>c, <1>t, <1>1, <3>1
    <3>2. CASE u = t /\ (k = 0 \/ Right(k)')
      <4>1. hook'[u].key = k
        BY <1>t, <1>1, <3>2
      <4> QED
        BY <3>2, <4>1
    <3> QED
      BY <1>1, <3>1, <3>2
  <2> QED
    BY <2>1 DEF HooksOk
<1>2. ASSUME UNCHANGED hook PROVE HooksOk'
  BY <1>2, <1>c DEF HooksOk
<1>3. ASSUME \A u \in Tabs : hook'[u].key = hook[u].key PROVE HooksOk'
  BY <1>3, <1>c DEF HooksOk
<1>4. ASSUME NEW t \in Tabs, TabStep(t) \/ Unlock(t) \/ Reset(t) \/ Enter(t) \/ Leave(t) \/ Drop(t)
      PROVE  HooksOk'
  <2>1. ASSUME JoinAsk(t) PROVE HooksOk'
    BY <1>3, <1>t, <2>1 DEF JoinAsk, HookType
  <2>2. ASSUME Roster(t) PROVE HooksOk'
    BY <1>3, <1>t, <2>2 DEF Roster, HookType
  <2>3. ASSUME Kicked(t) \/ Leave(t) PROVE HooksOk'
    <3>1. hook' = [hook EXCEPT ![t] = NoHook] /\ NoHook.key = 0
      BY <2>3 DEF Kicked, Leave, Unmounted, NoHook
    <3> QED
      BY <1>1, <3>1
  <2>4. ASSUME PassPick(t) PROVE HooksOk'
    <3>1. PICK S : hook' = hook \/ hook' = [hook EXCEPT ![t].skipped = S]
      BY <2>4 DEF PassPick
    <3>2. \A u \in Tabs : hook'[u].key = hook[u].key
      BY <1>t, <3>1 DEF HookType
    <3> QED
      BY <1>3, <3>2
  <2>5. ASSUME StoreStep(t) \/ Unlock(t) \/ Reset(t) PROVE HooksOk'
    BY <1>2, <2>5 DEF StoreStep, UnlockRead, UnlockCreate, StoreFails, LoggedIn, Restore, ForgetKeys, Unlock, Reset
  <2>6. ASSUME JoinAdmit(t) \/ JoinSeat(t) \/ JoinRecord(t) \/ Reconnect(t) \/ Enter(t) \/ Drop(t) PROVE HooksOk'
    BY <1>2, <2>6 DEF JoinAdmit, JoinSeat, JoinRecord, Reconnect, Enter, Drop
  <2>7. ASSUME PassRead(t) \/ GrantCheck(t) \/ GrantTarget(t) \/ GrantWrite(t) \/ Hear(t) PROVE HooksOk'
    BY <1>2, <2>7 DEF PassRead, GrantCheck, GrantTarget, GrantWrite, Hear
  <2> QED
    BY <1>4, <2>1, <2>2, <2>3, <2>4, <2>5, <2>6, <2>7 DEF TabStep, JoinStep, GrantStep
<1>5. ASSUME NEW r \in Tabs \X Slots, ResolveStep(r)
      PROVE  HooksOk'
  <2>1. ASSUME Resolved(r) PROVE HooksOk'
    <3> PICK k : k = resolve[r].key
      OBVIOUS
    <3>1. CallOk(PersonOf[r[1]], resolve[r])
      BY DEF KeysInv, CallsOk
    <3>2. k = 0 \/ Right(k)'
      BY <2>1, <3>1, Carried DEF Resolved, CallOk
    <3>3. ASSUME NEW u \in Tabs, UNCHANGED hook \/ u # r[1] PROVE hook'[u].key = hook[u].key
      BY <1>t, <2>1, <3>3 DEF Resolved
    <3>4. ASSUME ~UNCHANGED hook PROVE hook'[r[1]].key = k
      BY <1>t, <2>1, <3>4 DEF Resolved, HookType
    <3>5. ASSUME NEW u \in Tabs PROVE (hook[u].key # 0 => Right(hook[u].key))'
      BY <1>c, <3>2, <3>3, <3>4, <3>5
    <3> QED
      BY <3>5 DEF HooksOk
  <2> QED
    BY <1>2, <1>5, <2>1 DEF ResolveStep, Refused, GetRoom, GetMember, GetCount, InitRead, InitClaim, ClearMine
<1> QED
  BY <1>4, <1>5 DEF KeysNext

-----------------------------------------------------------------------------
\* Passes grant right keys, for the pairs of members.
LEMMA GrantsStep ==
    ASSUME KeysInv, Grow, KeysNext
    PROVE  GrantsOk'
<1> USE DEF db
<1>t. grant \in [Tabs -> GrantType] /\ hook \in [Tabs -> HookType] /\ member \subseteq People
      /\ account \in [People -> Pairs]
  BY DEF KeysInv, KeysTypes
<1>g. ASSUME NEW t \in Tabs PROVE GrantOk(grant[t]) /\ grant[t] \in GrantType /\ (hook[t].key # 0 => Right(hook[t].key)) /\ hook[t].key \in Nat
  BY <1>t DEF KeysInv, GrantsOk, HooksOk, HookType
<1>c. ASSUME NEW u \in Tabs, NEW g, g = grant'[u], GrantOk(g)
      PROVE  GrantOk(grant[u])'
  <2>1. GrantOk(g)'
    BY <1>c, <1>t, GrantCarried
  <2> QED
    BY <1>c, <2>1
<1>1. ASSUME UNCHANGED grant PROVE GrantsOk'
  <2>1. ASSUME NEW u \in Tabs PROVE GrantOk(grant[u])'
    BY <1>1, <1>c, <1>g
  <2> QED
    BY <2>1 DEF GrantsOk
<1>2. ASSUME NEW t \in Tabs, NEW g, grant' = [grant EXCEPT ![t] = g], GrantOk(g)
      PROVE  GrantsOk'
  <2>1. ASSUME NEW u \in Tabs PROVE GrantOk(grant[u])'
    <3>1. grant'[u] = g \/ grant'[u] = grant[u]
      BY <1>2, <1>t
    <3> PICK h : h = grant'[u]
      OBVIOUS
    <3>2. GrantOk(h)
      BY <1>2, <1>g, <3>1
    <3> QED
      BY <1>c, <3>2
  <2> QED
    BY <2>1 DEF GrantsOk
<1>3. ASSUME NEW t \in Tabs, NEW k \in Nat, Right(k), grant' = [grant EXCEPT ![t] = Granting(@, k)]
      PROVE  GrantsOk'
  <2> PICK g : g = Granting(grant[t], k)
    OBVIOUS
  <2>1. GrantOk(g) /\ grant' = [grant EXCEPT ![t] = g]
    BY <1>3, <1>g, GrantingIs
  <2> QED
    BY <1>2, <2>1
<1>4. ASSUME NEW t \in Tabs, TabStep(t) \/ Unlock(t) \/ Reset(t) \/ Enter(t) \/ Leave(t) \/ Drop(t)
      PROVE  GrantsOk'
  <2> PICK k : k = hook[t].key
    OBVIOUS
  <2>k. k \in Nat /\ (k # 0 => Right(k))
    BY <1>g
  <2>1. ASSUME Roster(t) PROVE GrantsOk'
    BY <1>1, <1>3, <2>k, <2>1 DEF Roster, TurnsUp
  <2>2. ASSUME Hear(t) PROVE GrantsOk'
    BY <1>1, <1>3, <2>k, <2>2 DEF Hear
  <2>3. ASSUME PassRead(t) PROVE GrantsOk'
    <3> PICK h : h = grant[t]
      OBVIOUS
    <3> DEFINE L == IF Signed(t) /\ check # 0 THEN {<<p, account[p]>> : p \in {q \in member : NeedsRoomKey(q)}} ELSE {}
    <3> PICK g : g = [h EXCEPT !.pc = IF Signed(t) THEN "pick" ELSE "idle", !.queue = Tail(@),
                               !.key = IF Signed(t) THEN Head(h.queue) ELSE 0, !.list = L]
      OBVIOUS
    <3>1. grant' = [grant EXCEPT ![t] = g] /\ h.queue # <<>> /\ h \in GrantType /\ GrantOk(h) /\ h.pc = "idle"
      BY <2>3, <1>g DEF PassRead, Passes
    <3>2. h.queue \in Seq(Nat)
      BY <3>1 DEF GrantType
    <3>3. ASSUME NEW x \in L PROVE TargetOk(x)
      BY <1>t, <3>3 DEF TargetOk, Own, NeedsRoomKey
    <3> HIDE DEF L
    <3>4. /\ g.queue = Tail(h.queue) /\ g.list = L
          /\ g.pc \in {"idle", "pick"} /\ (g.pc = "pick" => g.key = Head(h.queue))
      BY <3>1 DEF GrantType
    <3>5. \A i \in 1 .. Len(h.queue) : Right(h.queue[i])
      BY <3>1 DEF GrantOk
    <3>6. /\ Head(h.queue) = h.queue[1] /\ 1 \in 1 .. Len(h.queue)
          /\ \A i \in 1 .. Len(Tail(h.queue)) : i + 1 \in 1 .. Len(h.queue) /\ Tail(h.queue)[i] = h.queue[i + 1]
      BY <3>1, <3>2, TailIs
    <3>7. Right(Head(h.queue)) /\ \A i \in 1 .. Len(Tail(h.queue)) : Right(Tail(h.queue)[i])
      BY <3>5, <3>6
    <3>8. GrantOk(g)
      BY <3>3, <3>4, <3>7 DEF GrantOk
    <3> QED
      BY <1>2, <3>1, <3>8
  <2>4. ASSUME PassPick(t) PROVE GrantsOk'
    <3> PICK h : h = grant[t]
      OBVIOUS
    <3>h. h \in GrantType /\ GrantOk(h) /\ h.pc = "pick"
      BY <2>4, <1>g DEF PassPick
    <3>1. ASSUME Passes(t, [NoGrant EXCEPT !.queue = h.queue]) PROVE GrantsOk'
      <4> PICK g : g = [NoGrant EXCEPT !.queue = h.queue]
        OBVIOUS
      <4>1. GrantOk(g)
        BY <3>h DEF GrantOk, NoGrant
      <4> QED
        BY <1>2, <3>1, <4>1 DEF Passes
    <3>2. ASSUME NEW to \in h.list, NEW here \in BOOLEAN,
                 Passes(t, [h EXCEPT !.list = @ \ {to}, !.to = IF here THEN to ELSE None,
                                     !.pc = IF here THEN "granter" ELSE "pick"])
          PROVE  GrantsOk'
      <4> PICK g : g = [h EXCEPT !.list = @ \ {to}, !.to = IF here THEN to ELSE None,
                                 !.pc = IF here THEN "granter" ELSE "pick"]
        OBVIOUS
      <4>1. /\ g.queue = h.queue /\ g.key = h.key /\ g.list = h.list \ {to}
            /\ g.pc = "pick" \/ (g.pc = "granter" /\ g.to = to)
        BY <3>h DEF GrantType
      <4>2. to \in People \X Pairs /\ to # None
        <5>1. to \in People \X Pairs
          BY <3>h DEF GrantType
        <5>2. to \in (Nat \union People) \X Nat
          BY <5>1 DEF Pairs
        <5> QED
          BY <5>1, <5>2, RoomKeysAssumption
      <4>3. GrantOk(g)
        BY <3>h, <4>1, <4>2 DEF GrantOk
      <4> QED
        BY <1>2, <3>2, <4>3 DEF Passes
    <3> QED
      BY <2>4, <3>1, <3>2 DEF PassPick
  <2>5. ASSUME GrantCheck(t) \/ GrantTarget(t) \/ GrantWrite(t) PROVE GrantsOk'
    <3> PICK h : h = grant[t]
      OBVIOUS
    <3>h. h \in GrantType /\ GrantOk(h) /\ h.pc \in {"granter", "target", "write"}
      BY <2>5, <1>g DEF GrantCheck, GrantTarget, GrantWrite
    <3>1. PICK pc \in {"pick", "target", "write"} : grant' = [grant EXCEPT ![t] = [h EXCEPT !.pc = pc]]
      BY <2>5 DEF GrantCheck, GrantTarget, GrantWrite, Passes
    <3> PICK g : g = [h EXCEPT !.pc = pc]
      OBVIOUS
    <3>2. g.queue = h.queue /\ g.key = h.key /\ g.list = h.list /\ g.to = h.to /\ g.pc = pc
      BY <3>h DEF GrantType
    <3>3. GrantOk(g)
      BY <3>h, <3>2 DEF GrantOk
    <3> QED
      BY <1>2, <3>1, <3>3
  <2>6. ASSUME StoreStep(t) \/ Unlock(t) \/ Reset(t) PROVE GrantsOk'
    BY <1>1, <2>6 DEF StoreStep, UnlockRead, UnlockCreate, StoreFails, LoggedIn, Restore, ForgetKeys, Unlock, Reset
  <2>7. ASSUME JoinAdmit(t) \/ JoinSeat(t) \/ JoinRecord(t) \/ JoinAsk(t) \/ Reconnect(t) \/ Kicked(t)
               \/ Enter(t) \/ Leave(t) \/ Drop(t)
        PROVE  GrantsOk'
    BY <1>1, <2>7 DEF JoinAdmit, JoinSeat, JoinRecord, JoinAsk, Reconnect, Kicked, Enter, Leave, Drop
  <2> QED
    BY <1>4, <2>1, <2>2, <2>3, <2>4, <2>5, <2>6, <2>7 DEF TabStep, JoinStep, GrantStep
<1>5. ASSUME NEW r \in Tabs \X Slots, ResolveStep(r)
      PROVE  GrantsOk'
  <2>1. ASSUME Resolved(r) PROVE GrantsOk'
    <3> PICK k : k = resolve[r].key
      OBVIOUS
    <3>1. CallOk(PersonOf[r[1]], resolve[r]) /\ k \in Nat
      BY DEF KeysInv, CallsOk, KeysTypes, CallType
    <3>2. k = 0 \/ Right(k)
      BY <2>1, <3>1 DEF Resolved, CallOk
    <3> QED
      BY <1>1, <1>3, <2>1, <3>1, <3>2 DEF Resolved
  <2> QED
    BY <1>1, <1>5, <2>1 DEF ResolveStep, Refused, GetRoom, GetMember, GetCount, InitRead, InitClaim, ClearMine
<1> QED
  BY <1>4, <1>5 DEF KeysNext

\* A call of resolve works with its person's pair, and claims or clears only
\* where that loses nothing.
LEMMA CallsStep ==
    ASSUME KeysInv, Grow, KeysNext
    PROVE  CallsOk'
<1> USE DEF db
<1>t. resolve \in [Tabs \X Slots -> CallType] /\ wrapped \in [People -> Copies \union {None}]
      /\ check \in Nat /\ made \in Nat /\ \A q \in Tabs \X Slots : q[1] \in Tabs /\ PersonOf[q[1]] \in People
  BY RoomKeysAssumption DEF KeysInv, KeysTypes
<1>g. ASSUME NEW q \in Tabs \X Slots PROVE CallOk(PersonOf[q[1]], resolve[q]) /\ resolve[q] \in CallType
  BY <1>t DEF KeysInv, CallsOk
<1>c. ASSUME NEW q \in Tabs \X Slots, resolve'[q] = resolve[q]
      PROVE  CallOk(PersonOf[q[1]], resolve[q])'
  <2> PICK a : a = resolve[q]
    OBVIOUS
  <2>1. CallOk(PersonOf[q[1]], a)'
    BY <1>g, <1>t, CallCarried
  <2> QED
    BY <1>c, <2>1
<1>1. ASSUME UNCHANGED resolve PROVE CallsOk'
  BY <1>1, <1>c DEF CallsOk
<1>2. ASSUME NEW r \in Tabs \X Slots, NEW a, Goes(r, a), CallOk(PersonOf[r[1]], a)'
      PROVE  CallsOk'
  <2>1. ASSUME NEW q \in Tabs \X Slots PROVE CallOk(PersonOf[q[1]], resolve[q])'
    <3>1. CASE q = r
      <4>1. resolve'[q] = a
        BY <1>2, <1>t, <3>1 DEF Goes
      <4> QED
        BY <1>2, <3>1, <4>1
    <3>2. CASE q # r
      BY <1>2, <1>c, <1>t, <3>2 DEF Goes
    <3> QED
      BY <3>1, <3>2
  <2> QED
    BY <2>1 DEF CallsOk
<1>3. ASSUME NEW t \in Tabs, NEW n \in Pairs, Own(PersonOf[t], n)', PersonOf[t] \in member',
             resolve' = Resolving(resolve, t, n)
      PROVE  CallsOk'
  <2> PICK a : a = Begun(n)
    OBVIOUS
  <2>1. a.pc = "room" /\ a.pair = n /\ a.again = FALSE
    BY DEF Idle, Begun
  <2>2. CallOk(PersonOf[t], a)'
    BY <1>3, <2>1 DEF CallOk
  <2>3. ASSUME NEW q \in Tabs \X Slots PROVE CallOk(PersonOf[q[1]], resolve[q])'
    <3>1. CASE resolve'[q] = resolve[q]
      BY <1>c, <3>1
    <3>2. CASE q[1] = t /\ resolve'[q] = a
      <4>1. PersonOf[q[1]] = PersonOf[t]
        BY <3>2
      <4>2. CallOk(PersonOf[q[1]], a)'
        BY <2>2, <4>1
      <4> QED
        BY <3>2, <4>2
    <3>3. resolve'[q] = resolve[q] \/ (q[1] = t /\ resolve'[q] = a)
      <4>1. Resolving(resolve, t, n)[q] = resolve[q] \/ (q[1] = t /\ Resolving(resolve, t, n)[q] = a)
        BY ResolvingIs DEF KeysInv
      <4> QED
        BY <1>3, <4>1
    <3> QED
      BY <3>1, <3>2, <3>3
  <2> QED
    BY <2>3 DEF CallsOk
<1>m. ASSUME NEW t \in Tabs, Mounted(t) PROVE PersonOf[t] \in member'
  BY <1>m DEF KeysInv, PagesOk, PageOk, Mounted, Grow
<1>4. ASSUME NEW t \in Tabs, NEW n \in Pairs, Ready(t, n), Own(PersonOf[t], n)'
      PROVE  CallsOk'
  BY <1>1, <1>3, <1>4, <1>m DEF Ready
<1>s. ASSUME NEW t \in Tabs, store[t].status = "ready", NEW n, n = store[t].pair
      PROVE  n \in Pairs /\ Own(PersonOf[t], n)'
  <2>1. Own(PersonOf[t], n) /\ n \in Pairs
    BY <1>s DEF KeysInv, StoresOk, KeysTypes, StoreType
  <2> QED
    BY <2>1, Carried, RoomKeysAssumption
<1>5. ASSUME NEW t \in Tabs, TabStep(t) \/ Unlock(t) \/ Reset(t) \/ Enter(t) \/ Leave(t) \/ Drop(t)
      PROVE  CallsOk'
  <2>1. ASSUME UnlockRead(t) PROVE CallsOk'
    <3> PICK n : n = account[PersonOf[t]]
      OBVIOUS
    <3>1. n \in Pairs
      BY RoomKeysAssumption DEF KeysInv, KeysTypes
    <3>2. UNCHANGED resolve \/ (Ready(t, n) /\ n # 0)
      BY <2>1 DEF UnlockRead
    <3>3. n # 0 => Own(PersonOf[t], n)'
      BY <2>1 DEF UnlockRead, Own
    <3> QED
      BY <1>1, <1>4, <3>1, <3>2, <3>3
  <2>2. ASSUME UnlockCreate(t) PROVE CallsOk'
    <3> PICK n : n = NewPair(PersonOf[t])
      OBVIOUS
    <3>1. n \in Pairs /\ n # 0
      BY <2>2, PairNumber, RoomKeysAssumption DEF UnlockCreate, KeysInv, Pairs
    <3>2. UNCHANGED resolve \/ (Ready(t, n) /\ account' = [account EXCEPT ![PersonOf[t]] = n])
      BY <2>2 DEF UnlockCreate
    <3>3. account' = [account EXCEPT ![PersonOf[t]] = n] => Own(PersonOf[t], n)'
      BY <3>1, RoomKeysAssumption DEF Own, KeysInv, KeysTypes
    <3> QED
      BY <1>1, <1>4, <3>1, <3>2, <3>3
  <2>3. ASSUME Restore(t) PROVE CallsOk'
    <3> PICK n : n = device[t]
      OBVIOUS
    <3>1. n \in Pairs
      BY DEF KeysInv, KeysTypes
    <3>2. UNCHANGED resolve \/ (Ready(t, n) /\ n # 0 /\ n = account[PersonOf[t]])
      BY <2>3 DEF Restore
    <3>3. n # 0 /\ n = account[PersonOf[t]] => Own(PersonOf[t], n)'
      BY <2>3 DEF Restore, Own
    <3> QED
      BY <1>1, <1>4, <3>1, <3>2, <3>3
  <2> PICK n : n = store[t].pair
    OBVIOUS
  <2>4. ASSUME JoinAsk(t) PROVE CallsOk'
    <3>1. PersonOf[t] \in member'
      BY <2>4 DEF KeysInv, PagesOk, PageOk, Grow, JoinAsk
    <3> QED
      BY <1>1, <1>3, <1>s, <2>4, <3>1 DEF JoinAsk
  <2>5. ASSUME Reconnect(t) PROVE CallsOk'
    <3>1. PersonOf[t] \in member'
      BY <2>5 DEF KeysInv, PagesOk, PageOk, Grow, Reconnect
    <3> QED
      BY <1>1, <1>3, <1>s, <2>5, <3>1 DEF Reconnect
  <2>6. ASSUME Hear(t) PROVE CallsOk'
    BY <1>1, <1>3, <1>s, <1>m, <2>6 DEF Hear
  <2>7. ASSUME StoreFails(t) \/ LoggedIn(t) \/ ForgetKeys(t) \/ Unlock(t) \/ Reset(t) PROVE CallsOk'
    BY <1>1, <2>7 DEF StoreFails, LoggedIn, ForgetKeys, Unlock, Reset
  <2>8. ASSUME JoinAdmit(t) \/ JoinSeat(t) \/ JoinRecord(t) \/ Roster(t) \/ Kicked(t) \/ Enter(t) \/ Leave(t) \/ Drop(t)
        PROVE  CallsOk'
    BY <1>1, <2>8 DEF JoinAdmit, JoinSeat, JoinRecord, Roster, Kicked, Enter, Leave, Drop
  <2>9. ASSUME GrantStep(t) PROVE CallsOk'
    BY <1>1, <2>9 DEF GrantStep, PassRead, PassPick, GrantCheck, GrantTarget, GrantWrite
  <2> QED
    BY <1>5, <2>1, <2>2, <2>3, <2>4, <2>5, <2>6, <2>7, <2>8, <2>9 DEF TabStep, StoreStep, JoinStep
<1>6. ASSUME NEW r \in Tabs \X Slots, ResolveStep(r)
      PROVE  CallsOk'
  <2> PICK p : p = PersonOf[r[1]]
    OBVIOUS
  <2> PICK a : a = resolve[r]
    OBVIOUS
  <2>a. a \in CallType /\ CallOk(p, a) /\ p \in People
    BY <1>g, <1>t
  <2>b. ASSUME NEW b, Goes(r, b), CallOk(p, b) PROVE CallsOk'
    BY <1>2, <2>a, <2>b, CallCarried
  <2>i. CallOk(p, Idle)
    BY DEF CallOk, Idle
  <2>1. ASSUME Refused(r) PROVE CallsOk'
    BY <2>1, <2>b, <2>i DEF Refused
  <2>2. ASSUME GetRoom(r) PROVE CallsOk'
    <3> PICK b : b = [a EXCEPT !.pc = "member", !.check = check]
      OBVIOUS
    <3>1. b.pc = "member" /\ b.check = check /\ b.pair = a.pair /\ b.again = a.again
      BY <2>a DEF CallType
    <3>2. CallOk(p, b)
      BY <2>2, <2>a, <3>1 DEF CallOk, GetRoom
    <3> QED
      BY <2>2, <2>b, <3>2 DEF GetRoom
  <2>3. ASSUME GetMember(r) PROVE CallsOk'
    <3> PICK b : b = [a EXCEPT !.pc = "count", !.copy = wrapped[p]]
      OBVIOUS
    <3>1. b.pc = "count" /\ b.copy = wrapped[p] /\ b.check = a.check /\ b.pair = a.pair /\ b.again = a.again
      BY <2>a DEF CallType
    <3>2. CopyOk(p, b.copy)
      BY <2>a, <3>1 DEF KeysInv, CopiesOk
    <3>3. CallOk(p, b)
      BY <2>3, <2>a, <3>1, <3>2 DEF CallOk, GetMember
    <3> QED
      BY <2>3, <2>b, <3>3 DEF GetMember
  <2>4. ASSUME GetCount(r) PROVE CallsOk'
    <3>0. a.pc = "count" /\ made + 1 # 0
      BY <2>4, <1>t DEF GetCount
    <3>1. CASE ~a.again /\ (a.check = 0 \/ (a.copy = None /\ Holders = {}))
      <4> PICK b : b = [a EXCEPT !.pc = "init", !.key = made + 1]
        OBVIOUS
      <4>1. b.pc = "init" /\ b.key = made + 1 /\ b.pair = a.pair /\ b.again = a.again
        BY <2>a DEF CallType
      <4>2. CallOk(p, b)
        BY <2>a, <3>0, <4>1 DEF CallOk
      <4> QED
        BY <2>4, <2>b, <3>1, <4>2 DEF GetCount
    <3>2. CASE ~(~a.again /\ (a.check = 0 \/ (a.copy = None /\ Holders = {})))
      <4> PICK b : b = [a EXCEPT !.pc = "done", !.key = 0]
        OBVIOUS
      <4> PICK d : d = [a EXCEPT !.pc = "done", !.key = a.copy[1]]
        OBVIOUS
      <4> PICK e : e = [a EXCEPT !.pc = "clear"]
        OBVIOUS
      <4>1. /\ b.pc = "done" /\ b.key = 0 /\ b.pair = a.pair /\ b.again = a.again
            /\ d.pc = "done" /\ d.key = a.copy[1] /\ d.pair = a.pair /\ d.again = a.again
            /\ e.pc = "clear" /\ e.pair = a.pair /\ e.again = a.again
        BY <2>a DEF CallType
      <4>2. CallOk(p, b)
        BY <2>a, <3>0, <4>1 DEF CallOk
      <4>3. ASSUME a.copy # None PROVE CallOk(p, d)
        BY <2>a, <3>0, <4>1, <4>3 DEF CallOk, CopyOk
      <4>4. ASSUME a.copy # None, ~Opens(a) PROVE CallOk(p, e)
        <5>1. ASSUME dropped = {} PROVE FALSE
          <6>1. a.check = check /\ check # 0
            BY <2>a, <3>0, <3>2, <5>1 DEF CallOk
          <6>2. a.copy[1] = check /\ a.copy[2] = a.pair
            BY <2>a, <3>0, <4>4, <5>1 DEF CallOk, CopyOk, Right, Own
          <6>3. a.copy = <<a.copy[1], a.copy[2]>>
            BY <2>a, <4>4 DEF CallType, Copies
          <6> QED
            BY <4>4, <6>1, <6>2, <6>3 DEF Opens
        <5> QED
          BY <2>a, <3>0, <4>1, <5>1 DEF CallOk
      <4>5. Goes(r, b) \/ (a.copy # None /\ Goes(r, d)) \/ (a.copy # None /\ ~Opens(a) /\ Goes(r, e))
        BY <2>4, <3>2 DEF GetCount
      <4> QED
        BY <2>b, <4>2, <4>3, <4>4, <4>5
    <3> QED
      BY <3>1, <3>2
  <2>5. ASSUME InitRead(r) PROVE CallsOk'
    <3> PICK b : b = Conflict(a)
      OBVIOUS
    <3> PICK d : d = [a EXCEPT !.pc = "claim", !.check = check]
      OBVIOUS
    <3>1. /\ b.pc = "room" /\ b.pair = a.pair /\ b.again = TRUE
          /\ d.pc = "claim" /\ d.check = check /\ d.key = a.key /\ d.pair = a.pair /\ d.again = a.again
      BY <2>a DEF CallType, Conflict
    <3>2. ASSUME check # 0 PROVE CallOk(p, b)
      BY <2>5, <2>a, <3>1, <3>2 DEF CallOk, InitRead
    <3>3. ASSUME check = 0 \/ Holders = {} PROVE CallOk(p, d)
      <4>1. check = 0 \/ check \in dropped
        BY <3>3 DEF KeysInv, CheckKept, Holders
      <4> QED
        BY <2>5, <2>a, <3>1, <4>1 DEF CallOk, InitRead
    <3>4. (check # 0 /\ Goes(r, b)) \/ ((check = 0 \/ Holders = {}) /\ Goes(r, d))
      BY <2>5 DEF InitRead
    <3> QED
      BY <2>b, <3>2, <3>3, <3>4
  <2>6. ASSUME InitClaim(r) PROVE CallsOk'
    <3>1. CASE a.check # check
      <4> PICK b : b = Conflict(a)
        OBVIOUS
      <4>1. b.pc = "room" /\ b.pair = a.pair /\ b.again = TRUE
        BY <2>a DEF CallType, Conflict
      <4>2. dropped = {} => check # 0
        BY <2>6, <2>a, <3>1 DEF CallOk, InitClaim
      <4>3. CallOk(p, b)
        BY <2>6, <2>a, <4>1, <4>2 DEF CallOk, InitClaim
      <4> QED
        BY <2>6, <2>b, <3>1, <4>3 DEF InitClaim, Claims
    <3>2. CASE a.check = check
      <4> PICK b : b = [a EXCEPT !.pc = "done"]
        OBVIOUS
      <4> PICK k : k = a.key
        OBVIOUS
      <4>1. b.pc = "done" /\ b.key = k /\ b.pair = a.pair /\ b.again = a.again
        BY <2>a DEF CallType
      <4>2. check' = k /\ k # 0 /\ p \in member' /\ Own(p, a.pair)
        BY <2>6, <3>2, Claimed
      <4>3. Own(p, b.pair)'
        BY <2>a, <4>1, <4>2, Carried
      <4>4. CallOk(p, b)'
        BY <4>1, <4>2, <4>3 DEF CallOk, Right
      <4> QED
        BY <1>2, <2>6, <3>2, <4>4 DEF InitClaim, Claims
    <3> QED
      BY <3>1, <3>2
  <2>7. ASSUME ClearMine(r) PROVE CallsOk'
    <3> PICK b : b = [a EXCEPT !.pc = "room", !.retry = FALSE, !.again = FALSE]
      OBVIOUS
    <3> PICK d : d = [a EXCEPT !.pc = "done", !.key = 0]
      OBVIOUS
    <3>1. /\ b.pc = "room" /\ b.pair = a.pair /\ b.again = FALSE
          /\ d.pc = "done" /\ d.key = 0 /\ d.pair = a.pair /\ d.again = a.again
      BY <2>a DEF CallType
    <3>2. CallOk(p, b) /\ CallOk(p, d)
      BY <2>7, <2>a, <3>1 DEF CallOk, ClearMine
    <3>3. Goes(r, b) \/ Goes(r, d)
      BY <2>7 DEF ClearMine
    <3> QED
      BY <2>b, <3>2, <3>3
  <2>8. ASSUME Resolved(r) PROVE CallsOk'
    BY <2>8, <2>b, <2>i DEF Resolved
  <2> QED
    BY <1>6, <2>1, <2>2, <2>3, <2>4, <2>5, <2>6, <2>7, <2>8 DEF ResolveStep
<1> QED
  BY <1>5, <1>6 DEF KeysNext

-----------------------------------------------------------------------------
\* The invariant holds at the start,
LEMMA KeysStart ==
    ASSUME KeysInit
    PROVE  KeysInv
<1>0. PICK s \in Scripts :
        /\ account = [p \in People |-> IF p \in s.paired THEN 1 ELSE 0]
        /\ member = s.members
        /\ wrapped = [p \in People |-> IF p \in s.holders THEN <<1, 1>> ELSE None]
        /\ check = IF s.holders = {} THEN 0 ELSE 1
        /\ made = check
        /\ device = [t \in Tabs |-> IF t \in s.devices THEN account[PersonOf[t]] ELSE 0]
        /\ tab = [t \in Tabs |-> [auth |-> t \in s.signedIn, join |-> "none", seen |-> 0,
                                  page |-> IF t \in s.inCall THEN "in" ELSE "away"]]
        /\ store = [t \in Tabs |-> IF t \in s.inCall
                                    THEN [NoStore EXCEPT !.status = "ready", !.pair = 1] ELSE NoStore]
        /\ hook = [t \in Tabs |-> IF t \in s.inCall
                     THEN [NoHook EXCEPT !.status = "ready", !.key = 1,
                                         !.roster = {PersonOf[u] : u \in s.inCall}]
                     ELSE NoHook]
        /\ channel = s.inCall
        /\ dropped = {}
        /\ resolve = [r \in Tabs \X Slots |-> Idle]
        /\ grant = [t \in Tabs |-> NoGrant]
  BY DEF KeysInit
<1>s. /\ s.members \subseteq People /\ s.holders \subseteq s.members \cap s.paired
      /\ \A t \in s.inCall : t \in Tabs /\ PersonOf[t] \in s.holders
  BY ScriptsAssumption
<1>p. PersonOf \in [Tabs -> People] /\ 0 \in Pairs /\ 1 \in Pairs
  BY RoomKeysAssumption DEF Pairs
<1>n. <<1, 1>> \in Copies /\ <<1, 1>> # None
  BY <1>p, RoomKeysAssumption DEF Copies
<1>a. /\ account = [p \in People |-> IF p \in s.paired THEN 1 ELSE 0]
      /\ member = s.members
      /\ wrapped = [p \in People |-> IF p \in s.holders THEN <<1, 1>> ELSE None]
      /\ check = IF s.holders = {} THEN 0 ELSE 1
      /\ made = check
      /\ channel = s.inCall /\ dropped = {}
  BY <1>0
<1>b. tab = [t \in Tabs |-> [auth |-> t \in s.signedIn, join |-> "none", seen |-> 0,
                              page |-> IF t \in s.inCall THEN "in" ELSE "away"]]
  BY <1>0
<1>c. store = [t \in Tabs |-> IF t \in s.inCall
                 THEN [NoStore EXCEPT !.status = "ready", !.pair = 1] ELSE NoStore]
  BY <1>0
<1>d. hook = [t \in Tabs |-> IF t \in s.inCall
                THEN [NoHook EXCEPT !.status = "ready", !.key = 1, !.roster = {PersonOf[u] : u \in s.inCall}]
                ELSE NoHook]
  BY <1>0
<1>e. resolve = [r \in Tabs \X Slots |-> Idle] /\ grant = [t \in Tabs |-> NoGrant]
  BY <1>0
<1>1. KeysTypes
  <2>1. account \in [People -> Pairs] /\ wrapped \in [People -> Copies \union {None}] /\ member \subseteq People
    BY <1>a, <1>s, <1>p, <1>n
  <2>2. check \in Nat /\ made \in Nat /\ channel \subseteq Tabs /\ dropped \subseteq Nat
    BY <1>a, <1>s
  <2>3. device \in [Tabs -> Pairs]
    BY <1>0, <2>1, <1>p
  <2>4. store \in [Tabs -> StoreType]
    <3>1. NoStore \in StoreType /\ [NoStore EXCEPT !.status = "ready", !.pair = 1] \in StoreType
      BY <1>p DEF StoreType, NoStore
    <3> QED
      BY <1>c, <3>1
  <2>5. tab \in [Tabs -> TabType]
    <3>1. ASSUME NEW t \in Tabs
          PROVE  [auth |-> t \in s.signedIn, join |-> "none", seen |-> 0,
                  page |-> IF t \in s.inCall THEN "in" ELSE "away"] \in TabType
      <4>1. (t \in s.signedIn) \in BOOLEAN
        OBVIOUS
      <4> QED
        BY <4>1 DEF TabType
    <3> QED
      BY <1>b, <3>1
  <2>6. hook \in [Tabs -> HookType]
    <3>1. {PersonOf[u] : u \in s.inCall} \subseteq People
      BY <1>s, <1>p
    <3>2. NoHook \in HookType /\ [NoHook EXCEPT !.status = "ready", !.key = 1, !.roster = {PersonOf[u] : u \in s.inCall}] \in HookType
      BY <3>1 DEF HookType, NoHook
    <3> QED
      BY <1>d, <3>2
  <2>7. resolve \in [Tabs \X Slots -> CallType]
    <3>1. Idle \in CallType
      BY <1>p DEF CallType, Idle
    <3> QED
      BY <1>e, <3>1
  <2>8. grant \in [Tabs -> GrantType]
    <3>1. NoGrant \in GrantType
      BY EmptySeq DEF GrantType, NoGrant
    <3> QED
      BY <1>e, <3>1
  <2> QED
    BY <2>1, <2>2, <2>3, <2>4, <2>5, <2>6, <2>7, <2>8 DEF KeysTypes
<1>2. CopiesOk
  <2>1. ASSUME NEW p \in People, wrapped[p] # None PROVE CopyOk(p, wrapped[p])
    <3>1. p \in s.holders /\ wrapped[p] = <<1, 1>> /\ account[p] = 1 /\ check = 1 /\ p \in member
      BY <1>a, <1>s, <2>1
    <3> QED
      BY <3>1 DEF CopyOk, Right, Own
  <2> QED
    BY <2>1 DEF CopiesOk, CopyOk
<1>3. CallsOk
  BY <1>e DEF CallsOk, CallOk, Idle
<1>4. GrantsOk
  <2>1. GrantOk(NoGrant)
    <3>1. NoGrant.queue = <<>> /\ NoGrant.pc = "idle" /\ NoGrant.list = {} /\ Len(<<>>) = 0
      BY EmptySeq DEF NoGrant
    <3> QED
      BY <3>1 DEF GrantOk
  <2> QED
    BY <1>e, <2>1 DEF GrantsOk
<1>5. HooksOk
  <2>1. ASSUME NEW t \in Tabs, hook[t].key # 0 PROVE Right(hook[t].key)
    <3>1. t \in s.inCall /\ hook[t].key = 1
      BY <1>d, <2>1 DEF NoHook
    <3>2. check = 1
      BY <1>a, <1>s, <3>1
    <3> QED
      BY <3>1, <3>2 DEF Right
  <2> QED
    BY <2>1 DEF HooksOk
<1>6. StoresOk
  <2>1. ASSUME NEW t \in Tabs, store[t].status = "ready" PROVE Own(PersonOf[t], store[t].pair)
    <3>1. t \in s.inCall /\ store[t].pair = 1
      BY <1>c, <2>1 DEF NoStore
    <3>2. account[PersonOf[t]] = 1
      BY <1>a, <1>s, <1>p, <3>1
    <3> QED
      BY <3>1, <3>2 DEF Own
  <2> QED
    BY <2>1 DEF StoresOk
<1>7. PagesOk
  <2>1. ASSUME NEW t \in Tabs PROVE tab[t].join = "none" /\ (tab[t].page = "in" => PersonOf[t] \in member)
    BY <1>a, <1>b, <1>s
  <2> QED
    BY <2>1 DEF PagesOk, PageOk
<1>8. CheckKept /\ DropsLast
  <2>1. ASSUME check # 0 PROVE \E p \in member : wrapped[p] # None /\ wrapped[p][1] = check
    <3>1. PICK p \in s.holders : TRUE
      BY <1>a, <2>1
    <3>2. p \in member /\ p \in People /\ wrapped[p] = <<1, 1>> /\ check = 1
      BY <1>a, <1>s, <3>1
    <3> QED
      BY <1>n, <3>2
  <2> QED
    BY <1>a, <2>1 DEF CheckKept, DropsLast
<1> QED
  BY <1>1, <1>2, <1>3, <1>4, <1>5, <1>6, <1>7, <1>8 DEF KeysInv

\* and is kept by every step of the tabs, of the chat and of the files.
LEMMA KeysStep ==
    ASSUME KeysInv, [Next]_contentVars
    PROVE  KeysInv'
<1>1. CASE KeysNext
  <2>1. Grow
    BY <1>1, KeysGrow
  <2> QED
    BY <1>1, <2>1, KeysTyped, CopiesStep, CallsStep, GrantsStep, HooksStep, StoresStep, PagesStep, KeptStep, DropsStep
    DEF KeysInv
<1>2. CASE UNCHANGED keysRest
  BY <1>2 DEF keysRest, db, KeysInv, KeysTypes, CopiesOk, CopyOk, CallsOk, CallOk, GrantsOk, GrantOk, TargetOk,
              HooksOk, StoresOk, PagesOk, PageOk, CheckKept, DropsLast, Right, Own
<1> QED
  BY <1>1, <1>2 DEF Next, contentVars, keysVars, keysRest, db

\* Everybody in the call has the room's key, or one of which a copy was dropped.
THEOREM KeysOfTheRoom == Spec => []KeysAgree
<1>1. Init => KeysInv
  BY KeysStart DEF Init
<1>2. KeysInv /\ [Next]_contentVars => KeysInv'
  BY KeysStep
<1>3. KeysInv => KeysAgree
  BY DEF KeysInv, KeysAgree, DropsLast, HooksOk, Right
<1> QED
  BY <1>1, <1>2, <1>3, PTL DEF Spec

-----------------------------------------------------------------------------
(* Invariant of the files.                                                 *)

\* The values of the variables that are functions.
FileType  == [row : {"none", "new", "up", "gone"}, old : BOOLEAN, expired : BOOLEAN,
              job : {"none", "creating", "putting", "finishing", "over"},
              complete : {"none", "find", "size", "update", "emit", "ok", "error"}]
PassType  == [pc : {"off", "find", "next", "row", "emit"}, list : SUBSET (Files \X BOOLEAN),
             on : (Files \union {None}) \X BOOLEAN]

\* Type correctness of the part of the state that is about files.
FilesTypes ==
  /\ file \in [Files -> FileType]
  /\ objects \subseteq Files /\ flying \subseteq Files
  /\ deletes \subseteq Files \X Tabs \X BOOLEAN \X {"find", "object", "row", "emit"}
  /\ purge \in [Purgers -> PassType]

\* Its row was created; its object is away for good, or its orphan is explained.
Made(f) == file[f].row # "none"
Away(f) == f \in excused \/ f \notin objects \union flying

\* Nothing is uploaded before the row, and a row goes after its object.
RowOk(f) ==
  /\ ~Made(f) => f \notin objects \union flying
  /\ file[f].row = "gone" => Away(f)
  /\ file[f].job \in {"none", "creating"} => ~Made(f)

\* A deletion about to delete the row has dealt with the object.
DeleteOk(d) ==
  /\ d[4] # "find" => Made(d[1])
  /\ d[4] = "row" => Away(d[1])

\* And so has a pass of the purge, which works on rows it has found.
PassOk(x) ==
  /\ \A y \in x.list : Made(y[1])
  /\ x.pc = "row" => x.on[1] \in Files /\ Made(x.on[1]) /\ Away(x.on[1])

RowsOk == \A f \in Files : RowOk(f)
DeletesOk == \A d \in deletes : DeleteOk(d)
PassesOk == \A i \in Purgers : PassOk(purge[i])

\* The inductive invariant of the files.
FilesInv == FilesTypes /\ RowsOk /\ DeletesOk /\ PassesOk

\* A file once made stays made, and its object once away stays away.
Stays == \A f \in Files : Made(f) => Made(f)' /\ (Away(f) => Away(f)')

\* Which then also holds for what deletions and passes know of it.
LEMMA DeleteCarried ==
    ASSUME Stays, NEW d, d[1] \in Files, DeleteOk(d)
    PROVE  DeleteOk(d)'
BY DEF Stays, DeleteOk

\* A pass keeps what it knows.
LEMMA PassCarried ==
    ASSUME Stays, NEW x \in PassType, PassOk(x)
    PROVE  PassOk(x)'
<1>1. ASSUME NEW y \in x.list PROVE Made(y[1])'
  <2>1. y[1] \in Files
    BY DEF PassType
  <2> QED
    BY <2>1 DEF Stays, PassOk
<1>2. ASSUME x.pc = "row" PROVE x.on[1] \in Files /\ Made(x.on[1])' /\ Away(x.on[1])'
  BY <1>2 DEF Stays, PassOk
<1> QED
  BY <1>1, <1>2 DEF PassOk

\* Deletions that were right stay so, whatever is added to them.
LEMMA DeletesKept ==
    ASSUME FilesInv, Stays, \A d \in deletes' : d \in deletes \/ DeleteOk(d)'
    PROVE  DeletesOk'
<1>1. ASSUME NEW d \in deletes' PROVE DeleteOk(d)'
  <2>1. ASSUME d \in deletes PROVE DeleteOk(d)'
    <3>1. d[1] \in Files /\ DeleteOk(d)
      BY <2>1 DEF FilesInv, FilesTypes, DeletesOk
    <3> QED
      BY <3>1, DeleteCarried
  <2> QED
    BY <2>1
<1> QED
  BY <1>1 DEF DeletesOk

\* And passes of the purge that stay where they are.
LEMMA PassesKept ==
    ASSUME FilesInv, Stays, UNCHANGED purge
    PROVE  PassesOk'
<1>1. ASSUME NEW i \in Purgers PROVE PassOk(purge[i])'
  <2> PICK x : x = purge[i]
    OBVIOUS
  <2>1. PassOk(x) /\ x \in PassType
    BY DEF FilesInv, FilesTypes, PassesOk
  <2>2. PassOk(x)'
    BY <2>1, PassCarried
  <2> QED
    BY <2>2
<1> QED
  BY <1>1 DEF PassesOk

\* Steps that move neither rows nor objects.
LEMMA Unmoved ==
    ASSUME FilesInv, FilesTypes', UNCHANGED <<objects, flying, excused, purge>>,
           \A f \in Files : /\ file'[f].row = file[f].row \/ {file[f].row, file'[f].row} \subseteq {"new", "up"}
                            /\ file'[f].job \in {"none", "creating"} => file[f].job \in {"none", "creating"},
           \A d \in deletes' : \/ d \in deletes \/ d[4] = "find"
                               \/ d[4] = "object" /\ d[1] \in Files /\ Made(d[1])
    PROVE  FilesInv'
<1>1. Stays
  BY DEF Stays, Made, Away
<1>2. RowsOk'
  <2>1. ASSUME NEW f \in Files PROVE RowOk(f)'
    BY DEF FilesInv, RowsOk, RowOk, Made, Away
  <2> QED
    BY <2>1 DEF RowsOk
<1>3. DeletesOk'
  <2>1. ASSUME NEW d \in deletes' PROVE d \in deletes \/ DeleteOk(d)'
    BY <1>1 DEF DeleteOk, Stays
  <2> QED
    BY <1>1, <2>1, DeletesKept
<1> QED
  BY <1>1, <1>2, <1>3, PassesKept DEF FilesInv

\* Steps of a pass that move none either.
LEMMA PassMoves ==
    ASSUME FilesInv, UNCHANGED <<file, objects, flying, deletes, excused>>,
           NEW i \in Purgers, NEW x \in PassType, PurgeIs(i, x), PassOk(x)
    PROVE  FilesInv'
<1>1. Stays
  BY DEF Stays, Made, Away
<1>2. FilesTypes'
  BY DEF FilesInv, FilesTypes, PurgeIs
<1>3. RowsOk' /\ DeletesOk'
  BY DEF FilesInv, RowsOk, RowOk, DeletesOk, DeleteOk, Made, Away
<1>4. ASSUME NEW j \in Purgers PROVE PassOk(purge[j])'
  <2> PICK y : y = purge'[j]
    OBVIOUS
  <2>1. PassOk(y)
    BY DEF FilesInv, FilesTypes, PassesOk, PurgeIs
  <2> QED
    BY <2>1 DEF PassOk, Made, Away
<1> QED
  BY <1>2, <1>3, <1>4 DEF FilesInv, PassesOk

-----------------------------------------------------------------------------
(* The requests about files.                                               *)

\* Requests of a deletion, one step on.
LEMMA OnwardTypes ==
    ASSUME FilesTypes, NEW d \in deletes, NEW pc \in {"find", "object", "row", "emit"}, Onward(d, pc)
    PROVE  /\ deletes' \subseteq Files \X Tabs \X BOOLEAN \X {"find", "object", "row", "emit"}
           /\ \A e \in deletes' : e \in deletes \/ (e[1] = d[1] /\ e[4] = pc)
<1>1. d \in Files \X Tabs \X BOOLEAN \X {"find", "object", "row", "emit"}
  BY DEF FilesTypes
<1>2. <<d[1], d[2], d[3], pc>> \in Files \X Tabs \X BOOLEAN \X {"find", "object", "row", "emit"}
  BY <1>1
<1> QED
  BY <1>2 DEF FilesTypes, Onward

\* And a new one.
LEMMA CleanUpTypes ==
    ASSUME FilesTypes, NEW f \in Files, CleanUp(f)
    PROVE  /\ deletes' \subseteq Files \X Tabs \X BOOLEAN \X {"find", "object", "row", "emit"}
           /\ \A e \in deletes' : e \in deletes \/ e[4] = "find"
<1>1. <<f, UploaderOf[f], FALSE, "find">> \in Files \X Tabs \X BOOLEAN \X {"find", "object", "row", "emit"}
  BY FilesAssumption
<1> QED
  BY <1>1 DEF FilesTypes, CleanUp

\* The steps of an upload and of the clock.
LEMMA UploadsStep ==
    ASSUME FilesInv, NEW f \in Files,
           Upload(f) \/ Abort(f) \/ LoseAnswer(f) \/ UploadStep(f) \/ HourPasses(f) \/ WeekPasses(f)
    PROVE  FilesInv'
<1>t. file \in [Files -> FileType] /\ FilesTypes /\ file[f] \in FileType
  BY DEF FilesInv, FilesTypes
<1>1. ASSUME Upload(f) PROVE FilesInv'
  BY <1>1, <1>t, Unmoved DEF Upload, FilesTypes, FileType
<1>2. ASSUME Abort(f) PROVE FilesInv'
  BY <1>2, <1>t, Unmoved, CleanUpTypes DEF Abort, FilesTypes, FileType
<1>3. ASSUME LoseAnswer(f) PROVE FilesInv'
  BY <1>3, <1>t, Unmoved, CleanUpTypes DEF LoseAnswer, FilesTypes, FileType
<1>4. ASSUME HourPasses(f) \/ WeekPasses(f) PROVE FilesInv'
  <2>1. UNCHANGED <<objects, flying, deletes, purge, excused>>
    BY <1>4 DEF HourPasses, WeekPasses
  <2>2. file' \in [Files -> FileType] /\ \A g \in Files : file'[g].row = file[g].row /\ file'[g].job = file[g].job
    <3>1. PICK x : file' = [file EXCEPT ![f] = x] /\ x \in {[file[f] EXCEPT !.old = TRUE], [file[f] EXCEPT !.expired = TRUE]}
      BY <1>4 DEF HourPasses, WeekPasses
    <3>2. x \in FileType /\ x.row = file[f].row /\ x.job = file[f].job
      BY <1>t, <3>1 DEF FileType
    <3> QED
      BY <1>t, <3>1, <3>2
  <2> QED
    BY <1>t, <2>1, <2>2, Unmoved DEF FilesTypes
<1>c. ASSUME NEW pc \in {"none", "find", "size", "update", "emit", "ok", "error"}, NEW row,
             row = file[f].row \/ (HasRow(f) /\ row = "up"), Completing(f, pc, row),
             UNCHANGED <<objects, flying, deletes, purge, excused>>
      PROVE  FilesInv'
  <2>1. row \in {"none", "new", "up", "gone"} /\ (row = file[f].row \/ {file[f].row, row} \subseteq {"new", "up"})
    BY <1>c, <1>t DEF FileType, HasRow
  <2>2. file' \in [Files -> FileType] /\ file'[f].row = row /\ file'[f].job = file[f].job
    BY <1>c, <1>t, <2>1 DEF FileType, Completing
  <2>3. \A g \in Files : g # f => file'[g] = file[g]
    BY <1>c, <1>t DEF Completing
  <2> QED
    BY <1>c, <1>t, <2>1, <2>2, <2>3, Unmoved DEF FilesTypes
<1>5. ASSUME CompleteFind(f) \/ CompleteSize(f) \/ CompleteUpdate(f) \/ CompleteEmit(f) PROVE FilesInv'
  BY <1>5, <1>c DEF CompleteFind, CompleteSize, CompleteUpdate, CompleteEmit
<1>6. ASSUME CompleteAnswer(f) PROVE FilesInv'
  <2>1. file' \in [Files -> FileType] /\ \A g \in Files : file'[g].row = file[g].row /\ file'[g].job \in {file[g].job, "over"}
    BY <1>6, <1>t DEF CompleteAnswer, FileType
  <2>2. UNCHANGED deletes \/ CleanUp(f)
    BY <1>6 DEF CompleteAnswer
  <2> QED
    BY <1>6, <1>t, <2>1, <2>2, Unmoved, CleanUpTypes DEF CompleteAnswer, FilesTypes
<1>7. ASSUME Create(f) PROVE FilesInv'
  <2>1. CASE Signed(UploaderOf[f])
    <3> DEFINE x == [file[f] EXCEPT !.row = "new", !.job = "putting"]
    <3>a. file' = [file EXCEPT ![f] = x] /\ flying' = flying \union {f} /\ UNCHANGED <<objects, deletes, purge, excused>>
      BY <1>7, <2>1 DEF Create
    <3>b. x \in FileType /\ x.row = "new" /\ x.job = "putting"
      BY <1>t DEF FileType
    <3> HIDE DEF x
    <3>1. /\ file' \in [Files -> FileType] /\ file'[f].row = "new" /\ file'[f].job = "putting"
          /\ \A g \in Files : g # f => file'[g] = file[g]
      BY <1>t, <3>a, <3>b
    <3>0. ~Made(f) /\ Made(f)' /\ flying' = flying \union {f} /\ UNCHANGED <<objects, deletes, purge, excused>>
      BY <1>7, <3>a, <3>1 DEF Create, FilesInv, RowsOk, RowOk, Made
    <3>2. Stays
      BY <3>0, <3>1 DEF Stays, Made, Away
    <3>3. FilesTypes'
      BY <1>t, <3>0, <3>1 DEF FilesTypes
    <3>4. ASSUME NEW g \in Files PROVE RowOk(g)'
      BY <3>0, <3>1 DEF FilesInv, RowsOk, RowOk, Made, Away
    <3>5. RowsOk'
      BY <3>4 DEF RowsOk
    <3> QED
      BY <3>0, <3>2, <3>3, <3>5, DeletesKept, PassesKept DEF FilesInv
  <2>2. CASE ~Signed(UploaderOf[f])
    <3>1. file' \in [Files -> FileType] /\ \A g \in Files : file'[g].row = file[g].row /\ file'[g].job \in {file[g].job, "over"}
      BY <1>7, <1>t, <2>2 DEF Create, FileType
    <3> QED
      BY <1>7, <1>t, <2>2, <3>1, Unmoved DEF Create, FilesTypes
  <2> QED
    BY <2>1, <2>2
<1>8. ASSUME PutLands(f) \/ PutDrops(f) PROVE FilesInv'
  <2>0. UNCHANGED <<deletes, purge, excused>> /\ flying' = flying \ {f} /\ f \in flying /\ objects' \subseteq objects \union {f}
    BY <1>8 DEF PutLands, PutDrops
  <2>1. file' \in [Files -> FileType] /\ \A g \in Files : /\ file'[g].row = file[g].row
                                                          /\ file'[g].job = file[g].job \/ file'[g].job = "finishing"
    <3>1. [file[f] EXCEPT !.job = "finishing", !.complete = "find"] \in FileType
      BY <1>t DEF FileType
    <3>2. file' = file \/ file' = [file EXCEPT ![f] = [file[f] EXCEPT !.job = "finishing", !.complete = "find"]]
      BY <1>8 DEF PutLands, PutDrops
    <3> DEFINE x == [file[f] EXCEPT !.job = "finishing", !.complete = "find"]
    <3>3. x.row = file[f].row /\ x.job = "finishing"
      BY <1>t DEF FileType
    <3> HIDE DEF x
    <3>4. x \in FileType /\ (file' = file \/ file' = [file EXCEPT ![f] = x])
      BY <3>1, <3>2 DEF x
    <3> QED
      BY <1>t, <3>3, <3>4
  <2>2. Stays
    BY <2>0, <2>1 DEF Stays, Made, Away
  <2>3. FilesTypes'
    BY <1>t, <2>0, <2>1 DEF FilesTypes
  <2>4. ASSUME NEW g \in Files PROVE RowOk(g)'
    BY <2>0, <2>1 DEF FilesInv, RowsOk, RowOk, Made, Away
  <2>5. RowsOk'
    BY <2>4 DEF RowsOk
  <2> QED
    BY <2>0, <2>2, <2>3, <2>5, DeletesKept, PassesKept DEF FilesInv
<1> QED
  BY <1>1, <1>2, <1>3, <1>4, <1>5, <1>6, <1>7, <1>8 DEF UploadStep

\* An object is deleted: nothing else moves, and it is away.
LEMMA ObjectLeaves ==
    ASSUME FilesInv, NEW f \in Files, Made(f), UNCHANGED <<file, flying>>,
           \/ ObjectGone(f) \/ (excused' = excused \union {f} /\ UNCHANGED objects)
    PROVE  Stays /\ Away(f)' /\ RowsOk' /\ objects' \subseteq objects
<1>1. \A g \in Files : /\ g \in objects' => g \in objects
                       /\ g \in excused => g \in excused'
  BY DEF ObjectGone
<1>2. Stays
  BY <1>1 DEF Stays, Made, Away
<1>3. Away(f)'
  BY DEF Away, ObjectGone
<1>4. ASSUME NEW g \in Files PROVE RowOk(g)'
  BY <1>1 DEF FilesInv, RowsOk, RowOk, Made, Away
<1>5. objects' \subseteq objects
  BY DEF ObjectGone
<1> QED
  BY <1>2, <1>3, <1>4, <1>5 DEF RowsOk

\* A row is deleted, of an object that is away.
LEMMA RowLeaves ==
    ASSUME FilesInv, NEW f \in Files, Made(f), Away(f), RowGone(f), UNCHANGED <<objects, flying, excused>>
    PROVE  Stays /\ RowsOk' /\ file' \in [Files -> FileType]
<1>t. file \in [Files -> FileType]
  BY DEF FilesInv, FilesTypes
<1>1. /\ file' \in [Files -> FileType] /\ file'[f].row = "gone" /\ file'[f].job = file[f].job
      /\ \A g \in Files : g # f => file'[g] = file[g]
  BY <1>t DEF RowGone, FileType
<1>2. Stays
  BY <1>1 DEF Stays, Made, Away
<1>3. ASSUME NEW g \in Files PROVE RowOk(g)'
  BY <1>1 DEF FilesInv, RowsOk, RowOk, Made, Away
<1> QED
  BY <1>1, <1>2, <1>3 DEF RowsOk

\* The steps of a deletion.
LEMMA DeletionsStep ==
    ASSUME FilesInv, NEW f \in Files, DeleteStep(f) \/ \E t \in Tabs : RemoveFile(t, f)
    PROVE  FilesInv'
<1>t. file \in [Files -> FileType] /\ FilesTypes
  BY DEF FilesInv, FilesTypes
<1>1. ASSUME NEW t \in Tabs, RemoveFile(t, f) PROVE FilesInv'
  <2>1. <<f, t, TRUE, "find">> \in Files \X Tabs \X BOOLEAN \X {"find", "object", "row", "emit"}
    OBVIOUS
  <2>2. /\ deletes' \subseteq Files \X Tabs \X BOOLEAN \X {"find", "object", "row", "emit"}
        /\ \A e \in deletes' : e \in deletes \/ e[4] = "find"
    BY <1>1, <1>t, <2>1 DEF RemoveFile, FilesTypes
  <2>3. UNCHANGED <<file, objects, flying, purge, excused>>
    BY <1>1 DEF RemoveFile
  <2>4. FilesTypes'
    BY <1>t, <2>2, <2>3 DEF FilesTypes
  <2> QED
    BY <2>2, <2>3, <2>4, Unmoved
<1>2. ASSUME NEW d \in deletes, d[1] = f, DeleteFind(d) \/ DeleteObject(d) \/ DeleteRow(d) \/ DeleteEmit(d)
      PROVE  FilesInv'
  <2>d. DeleteOk(d) /\ (d[4] # "find" => Made(f))
    BY <1>2 DEF FilesInv, DeletesOk, DeleteOk
  <2>1. ASSUME deletes' = deletes \ {d}, UNCHANGED <<file, objects, flying, purge, excused>> PROVE FilesInv'
    BY <2>1, <1>t, Unmoved DEF FilesTypes
  <2>2. ASSUME DeleteFind(d) PROVE FilesInv'
    <3>1. ASSUME Onward(d, "object"), HasRow(f) PROVE FilesInv'
      <4>1. Made(f) /\ UNCHANGED <<file, objects, flying, purge, excused>>
        BY <2>2, <3>1 DEF HasRow, Made, DeleteFind
      <4>2. FilesTypes' /\ \A e \in deletes' : e \in deletes \/ (e[1] = f /\ e[4] = "object")
        BY <1>2, <1>t, <3>1, <4>1, OnwardTypes DEF FilesTypes
      <4> QED
        BY <4>1, <4>2, Unmoved
    <3> QED
      BY <1>2, <2>1, <2>2, <3>1 DEF DeleteFind
  <2>3. ASSUME DeleteObject(d) PROVE FilesInv'
    <3>1. Made(f) /\ UNCHANGED <<file, flying, purge>> /\ Onward(d, "row")
      BY <2>3, <2>d DEF DeleteObject
    <3>2. ObjectGone(f) \/ (excused' = excused \union {f} /\ UNCHANGED objects)
      BY <1>2, <2>3 DEF DeleteObject
    <3>3. Stays /\ Away(f)' /\ RowsOk' /\ objects' \subseteq objects
      BY <3>1, <3>2, ObjectLeaves
    <3>4. /\ deletes' \subseteq Files \X Tabs \X BOOLEAN \X {"find", "object", "row", "emit"}
          /\ \A e \in deletes' : e \in deletes \/ (e[1] = f /\ e[4] = "row")
      BY <1>2, <1>t, <3>1, OnwardTypes
    <3>5. ASSUME NEW e \in deletes' PROVE e \in deletes \/ DeleteOk(e)'
      BY <3>1, <3>3, <3>4 DEF DeleteOk, Stays
    <3>6. DeletesOk'
      BY <3>3, <3>5, DeletesKept
    <3>7. FilesTypes'
      BY <1>t, <3>1, <3>3, <3>4 DEF FilesTypes
    <3> QED
      BY <3>1, <3>3, <3>6, <3>7, PassesKept DEF FilesInv
  <2>4. ASSUME DeleteRow(d) PROVE FilesInv'
    <3>1. ASSUME Onward(d, "emit"), RowGone(f) PROVE FilesInv'
      <4>1. Made(f) /\ Away(f) /\ UNCHANGED <<objects, flying, purge, excused>>
        BY <1>2, <2>4, <2>d DEF DeleteRow, DeleteOk
      <4>2. Stays /\ RowsOk' /\ file' \in [Files -> FileType]
        BY <3>1, <4>1, RowLeaves
      <4>3. /\ deletes' \subseteq Files \X Tabs \X BOOLEAN \X {"find", "object", "row", "emit"}
            /\ \A e \in deletes' : e \in deletes \/ (e[1] = f /\ e[4] = "emit")
        BY <1>2, <1>t, <3>1, OnwardTypes
      <4>4. ASSUME NEW e \in deletes' PROVE e \in deletes \/ DeleteOk(e)'
        BY <4>1, <4>2, <4>3 DEF DeleteOk, Stays
      <4>5. DeletesOk'
        BY <4>2, <4>4, DeletesKept
      <4>6. FilesTypes'
        BY <1>t, <4>1, <4>2, <4>3 DEF FilesTypes
      <4> QED
        BY <4>1, <4>2, <4>5, <4>6, PassesKept DEF FilesInv
    <3> QED
      BY <1>2, <2>1, <2>4, <3>1 DEF DeleteRow
  <2>5. ASSUME DeleteEmit(d) PROVE FilesInv'
    BY <2>1, <2>5 DEF DeleteEmit
  <2> QED
    BY <1>2, <2>2, <2>3, <2>4, <2>5
<1> QED
  BY <1>1, <1>2 DEF DeleteStep

-----------------------------------------------------------------------------
(* The purge, and the theorem.                                             *)

\* The steps of the purge.
LEMMA PurgesStep ==
    ASSUME FilesInv, NEW i \in Purgers, PurgeStep(i) \/ PurgeDies(i)
    PROVE  FilesInv'
<1>t. file \in [Files -> FileType] /\ FilesTypes /\ purge[i] \in PassType /\ PassOk(purge[i])
  BY DEF FilesInv, FilesTypes, PassesOk
<1>n. ASSUME NEW x \in PassType, x.pc # "row", \A y \in x.list : Made(y[1]), PurgeIs(i, x),
             UNCHANGED <<file, objects, flying, deletes, excused>>
      PROVE  FilesInv'
  BY <1>n, PassMoves DEF PassOk
<1>o. ASSUME NEW pc \in {"off", "find", "next"}, NEW x, x = [NoPurge EXCEPT !.pc = pc], PurgeIs(i, x),
             UNCHANGED <<file, objects, flying, deletes, excused>>
      PROVE  FilesInv'
  <2>1. x \in PassType /\ x.pc = pc /\ x.list = {}
    BY <1>o DEF NoPurge, PassType
  <2> QED
    BY <1>o, <1>n, <2>1
<1>1. ASSUME PurgeStart(i) PROVE FilesInv'
  BY <1>1, <1>o DEF PurgeStart
<1>2. ASSUME PurgeFind(i) PROVE FilesInv'
  <2> DEFINE all == {<<f, file[f].row = "up">> : f \in {g \in Files : Doomed(g)}}
  <2>1. all \subseteq Files \X BOOLEAN
    <3>1. ASSUME NEW f \in Files PROVE <<f, file[f].row = "up">> \in Files \X BOOLEAN
      <4>1. (file[f].row = "up") \in BOOLEAN
        OBVIOUS
      <4> QED
        BY <4>1
    <3> QED
      BY <3>1
  <2>2. \A y \in all : Made(y[1])
    BY DEF Doomed, HasRow, Made
  <2>3. PICK list \in SUBSET all : PurgeIs(i, [NoPurge EXCEPT !.pc = "next", !.list = list])
    BY <1>2 DEF PurgeFind, kSubset
  <2> HIDE DEF all
  <2>4. list \in SUBSET (Files \X BOOLEAN) /\ \A y \in list : Made(y[1])
    BY <2>1, <2>2
  <2>5. UNCHANGED <<file, objects, flying, deletes, excused>>
    BY <1>2 DEF PurgeFind
  <2> PICK x : x = [NoPurge EXCEPT !.pc = "next", !.list = list]
    OBVIOUS
  <2>6. x \in PassType /\ x.pc = "next" /\ x.list = list
    BY <2>4 DEF NoPurge, PassType
  <2> QED
    BY <1>n, <2>3, <2>4, <2>5, <2>6
<1>3. ASSUME PurgeObject(i) PROVE FilesInv'
  <2>1. PICK x \in purge[i].list :
          LET rest == purge[i].list \ {x} IN
          \/ Works(x[1]) /\ ObjectGone(x[1]) /\ PurgeIs(i, [pc |-> "row", list |-> rest, on |-> x])
          \/ Falters(x[1]) /\ PurgeIs(i, Failed(x, rest)) /\ UNCHANGED <<objects, excused>>
    BY <1>3 DEF PurgeObject
  <2> DEFINE rest == purge[i].list \ {x}
  <2>2. x \in Files \X BOOLEAN /\ x[1] \in Files /\ Made(x[1]) /\ rest \in SUBSET (Files \X BOOLEAN)
        /\ \A y \in rest : Made(y[1])
    BY <1>t DEF PassType, PassOk
  <2>3. UNCHANGED <<file, flying, deletes>>
    BY <1>3 DEF PurgeObject
  <2>4. ASSUME PurgeIs(i, Failed(x, rest)), UNCHANGED <<objects, excused>> PROVE FilesInv'
    <3> PICK p : p = Failed(x, rest)
      OBVIOUS
    <3>1. p \in PassType /\ p.pc = "next" /\ p.list = rest
      BY <2>2 DEF Failed, NoPurge, PassType
    <3> QED
      BY <1>n, <2>2, <2>3, <2>4, <3>1
  <2>5. ASSUME ObjectGone(x[1]), PurgeIs(i, [pc |-> "row", list |-> rest, on |-> x]) PROVE FilesInv'
    <3> PICK p : p = [pc |-> "row", list |-> rest, on |-> x]
      OBVIOUS
    <3>1. p \in PassType /\ p.pc = "row" /\ p.list = rest /\ p.on = x
      BY <2>2 DEF PassType
    <3>2. Stays /\ Away(x[1])' /\ RowsOk' /\ objects' \subseteq objects
      BY <2>2, <2>3, <2>5, ObjectLeaves
    <3>3. FilesTypes' /\ purge' = [purge EXCEPT ![i] = p]
      BY <1>t, <2>3, <2>5, <3>1, <3>2 DEF FilesTypes, PurgeIs
    <3>4. DeletesOk'
      BY <2>3, <3>2, DeletesKept
    <3>5. PassOk(p)'
      <4>1. ASSUME NEW y \in p.list PROVE Made(y[1])'
        BY <2>2, <3>1, <3>2 DEF Stays, PassType
      <4>2. Made(x[1])'
        BY <2>2, <3>2 DEF Stays
      <4> QED
        BY <2>2, <3>1, <3>2, <4>1, <4>2 DEF PassOk
    <3>6. ASSUME NEW j \in Purgers PROVE PassOk(purge[j])'
      <4> PICK q : q = purge'[j]
        OBVIOUS
      <4>1. q = p \/ (q = purge[j] /\ q \in PassType /\ PassOk(q))
        BY <3>3, <1>t DEF FilesTypes, FilesInv, PassesOk
      <4>2. PassOk(q)'
        BY <3>2, <3>5, <4>1, PassCarried
      <4> QED
        BY <4>2
    <3> QED
      BY <3>2, <3>3, <3>4, <3>6 DEF FilesInv, PassesOk
  <2> QED
    BY <2>1, <2>4, <2>5
<1>4. ASSUME PurgeRow(i) PROVE FilesInv'
  <2> PICK f : f = purge[i].on[1]
    OBVIOUS
  <2>0. f \in Files /\ Made(f) /\ Away(f) /\ UNCHANGED <<objects, flying, deletes, excused>>
    BY <1>4, <1>t DEF PurgeRow, PassOk
  <2>1. CASE HasRow(f)
    <3> PICK pc \in {"emit", "next"} : PurgeIs(i, [purge[i] EXCEPT !.pc = pc])
      BY <1>4, <2>1 DEF PurgeRow
    <3> PICK p : p = [purge[i] EXCEPT !.pc = pc]
      OBVIOUS
    <3>1. p \in PassType /\ p.pc = pc /\ p.list = purge[i].list /\ purge' = [purge EXCEPT ![i] = p]
      BY <1>t DEF PassType, PurgeIs
    <3>2. Stays /\ RowsOk' /\ file' \in [Files -> FileType]
      BY <1>4, <2>0, <2>1, RowLeaves DEF PurgeRow
    <3>3. FilesTypes'
      BY <1>t, <2>0, <3>1, <3>2 DEF FilesTypes
    <3>4. DeletesOk'
      BY <2>0, <3>2, DeletesKept
    <3>5. PassOk(p)'
      <4>1. ASSUME NEW y \in p.list PROVE Made(y[1])'
        BY <1>t, <3>1, <3>2 DEF Stays, PassType, PassOk
      <4> QED
        BY <3>1, <4>1 DEF PassOk
    <3>6. ASSUME NEW j \in Purgers PROVE PassOk(purge[j])'
      <4> PICK q : q = purge'[j]
        OBVIOUS
      <4>1. q = p \/ (q = purge[j] /\ q \in PassType /\ PassOk(q))
        BY <3>1, <1>t DEF FilesTypes, FilesInv, PassesOk
      <4>2. PassOk(q)'
        BY <3>2, <3>5, <4>1, PassCarried
      <4> QED
        BY <4>2
    <3> QED
      BY <3>2, <3>3, <3>4, <3>6 DEF FilesInv, PassesOk
  <2>2. CASE ~HasRow(f)
    <3>1. PurgeIs(i, [NoPurge EXCEPT !.pc = "next"]) /\ UNCHANGED file
      BY <1>4, <2>2 DEF PurgeRow
    <3> QED
      BY <1>o, <2>0, <3>1
  <2> QED
    BY <2>1, <2>2
<1>5. ASSUME PurgeEmit(i) PROVE FilesInv'
  <2> PICK p : p = [purge[i] EXCEPT !.pc = "next"]
    OBVIOUS
  <2>1. p \in PassType /\ p.pc = "next" /\ p.list = purge[i].list
    BY <1>t DEF PassType
  <2>2. PassOk(p)
    BY <1>t, <2>1 DEF PassOk
  <2>3. PurgeIs(i, p) /\ UNCHANGED <<file, objects, flying, deletes, excused>>
    BY <1>5 DEF PurgeEmit
  <2> QED
    BY <2>1, <2>2, <2>3, PassMoves
<1>6. ASSUME PurgeEnd(i) \/ PurgeDies(i) PROVE FilesInv'
  <2>1. PurgeIs(i, NoPurge) /\ UNCHANGED <<file, objects, flying, deletes, excused>>
    BY <1>6 DEF PurgeEnd, PurgeDies
  <2>2. NoPurge \in PassType /\ NoPurge.pc = "off" /\ NoPurge.list = {}
    BY DEF NoPurge, PassType
  <2> QED
    BY <1>n, <2>1, <2>2
<1> QED
  BY <1>1, <1>2, <1>3, <1>4, <1>5, <1>6 DEF PurgeStep

\* What a step of the tab means for its uploads.
LEMMA FollowsStep ==
    ASSUME FilesInv, FilesFollow
    PROVE  FilesInv'
<1> DEFINE out == {f \in Files : file[f].job = "putting" /\ Mounted(UploaderOf[f]) /\ tab'[UploaderOf[f]].page # "in"}
<1>t. FilesTypes /\ file \in [Files -> FileType]
  BY DEF FilesInv, FilesTypes
<1>1. file' = [f \in Files |-> IF f \in out THEN [file[f] EXCEPT !.job = "over"] ELSE file[f]]
  BY DEF FilesFollow
<1>2. deletes' = deletes \union {<<f, UploaderOf[f], FALSE, "find">> : f \in out}
  BY DEF FilesFollow
<1>3. UNCHANGED <<objects, flying, purge, excused>>
  BY DEF FilesFollow
<1>4. out \subseteq Files
  OBVIOUS
<1> HIDE DEF out
<1>5. file' \in [Files -> FileType] /\ \A f \in Files : file'[f].row = file[f].row /\ file'[f].job \in {file[f].job, "over"}
  BY <1>t, <1>1 DEF FileType
<1>6. /\ deletes' \subseteq Files \X Tabs \X BOOLEAN \X {"find", "object", "row", "emit"}
      /\ \A d \in deletes' : d \in deletes \/ d[4] = "find"
  <2>1. ASSUME NEW f \in out
        PROVE  <<f, UploaderOf[f], FALSE, "find">> \in Files \X Tabs \X BOOLEAN \X {"find", "object", "row", "emit"}
    BY <1>4, FilesAssumption
  <2>2. deletes \subseteq Files \X Tabs \X BOOLEAN \X {"find", "object", "row", "emit"}
    BY <1>t DEF FilesTypes
  <2>3. ASSUME NEW d \in deletes'
        PROVE  d \in deletes \/ \E f \in out : d = <<f, UploaderOf[f], FALSE, "find">>
    BY <1>2
  <2> QED
    BY <2>1, <2>2, <2>3
<1> QED
  BY <1>t, <1>3, <1>5, <1>6, Unmoved DEF FilesTypes

\* No step leaves an object behind unexplained.
LEMMA FilesStep ==
    ASSUME FilesInv, [Next]_contentVars
    PROVE  FilesInv'
<1>u. ASSUME UNCHANGED <<file, objects, flying, deletes, purge, excused>> PROVE FilesInv'
  BY <1>u DEF FilesInv, FilesTypes, RowsOk, RowOk, DeletesOk, DeleteOk, PassesOk, PassOk, Made, Away
<1>1. ASSUME FilesNext PROVE FilesInv'
  <2>1. ASSUME NEW t \in Tabs, PanelStep(t) PROVE FilesInv'
    BY <1>u, <2>1 DEF PanelStep, ListRead, ListDone, HearFile, Opened
  <2>2. ASSUME LockExpires PROVE FilesInv'
    BY <1>u, <2>2 DEF LockExpires
  <2> QED
    BY <1>1, <2>1, <2>2, UploadsStep, DeletionsStep, PurgesStep DEF FilesNext
<1>2. ASSUME KeysNext /\ Follow PROVE FilesInv'
  BY <1>2, FollowsStep DEF Follow
<1>3. ASSUME UNCHANGED filesVars PROVE FilesInv'
  BY <1>3, <1>u DEF filesVars
<1> QED
  BY <1>1, <1>2, <1>3 DEF Next, contentVars

\* At the start every object has its row.
LEMMA FilesStart ==
    ASSUME FilesInit
    PROVE  FilesInv
<1>1. PICK s \in Scripts :
        /\ objects = s.stored
        /\ file = [f \in Files |-> IF f \in s.stored THEN [NoFile EXCEPT !.row = "up", !.job = "over"] ELSE NoFile]
  BY DEF FilesInit
<1>2. flying = {} /\ deletes = {} /\ purge = [i \in Purgers |-> NoPurge]
  BY DEF FilesInit
<1>3. NoFile \in FileType /\ [NoFile EXCEPT !.row = "up", !.job = "over"] \in FileType
  BY DEF NoFile, FileType
<1>4. FilesTypes
  <2>1. objects \subseteq Files
    BY <1>1, FilesAssumption
  <2>2. file \in [Files -> FileType]
    BY <1>1, <1>3
  <2>3. NoPurge \in PassType
    BY DEF NoPurge, PassType
  <2> QED
    BY <1>2, <2>1, <2>2, <2>3 DEF FilesTypes
<1>5. RowsOk
  <2>1. ASSUME NEW f \in Files PROVE RowOk(f)
    <3>1. f \in objects => file[f].row = "up" /\ file[f].job = "over"
      BY <1>1 DEF NoFile
    <3>2. f \notin objects => file[f].row = "none"
      BY <1>1 DEF NoFile
    <3> QED
      BY <1>2, <3>1, <3>2 DEF RowOk, Made
  <2> QED
    BY <2>1 DEF RowsOk
<1>6. DeletesOk /\ PassesOk
  BY <1>2 DEF DeletesOk, PassesOk, PassOk, NoPurge
<1> QED
  BY <1>4, <1>5, <1>6 DEF FilesInv

\* An object without a row is one whose deletion failed in a request, or that
\* was still on its way then.
THEOREM ObjectsHaveRows == Spec => []OrphansExplained
<1>1. Init => FilesInv
  BY FilesStart DEF Init
<1>2. FilesInv /\ [Next]_contentVars => FilesInv'
  BY FilesStep
<1>3. FilesInv => OrphansExplained
  <2>1. ASSUME FilesInv, NEW f \in objects PROVE HasRow(f) \/ f \in excused
    <3>1. f \in Files /\ RowOk(f) /\ file[f].row \in {"none", "new", "up", "gone"}
      BY <2>1 DEF FilesInv, FilesTypes, RowsOk, FileType
    <3> QED
      BY <3>1 DEF RowOk, HasRow, Made, Away
  <2> QED
    BY <2>1 DEF OrphansExplained
<1> QED
  BY <1>1, <1>2, <1>3, PTL DEF Spec

-----------------------------------------------------------------------------
(* Invariant of the lists of files.                                        *)

\* The values of the panels, and events on their way.
PanelType == [shown : SUBSET Files, load : {"none", "asked", "got"}, got : SUBSET Files, opening : SUBSET Files]
PanelTypes ==
  /\ panel \in [Tabs -> PanelType]
  /\ news \subseteq channel \X {"shared", "deleted"} \X Files

\* An event a tab is still to hear; the end of a deletion; that of a purge.
Told(t, kind, f) == <<t, kind, f>> \in news
Spoken(f) == \E d \in deletes : d[1] = f /\ d[4] = "emit"
Purged(f) == \E i \in Purgers : purge[i].pc = "emit" /\ purge[i].on[1] = f

\* The tab is going to show the file; it is going to hear that it is gone.
Announced(t, f) == f \in panel[t].opening \/ Told(t, "shared", f)
Ending(t, f) == Told(t, "deleted", f) \/ Spoken(f)

\* A page that is open is of somebody signed in, and what is not shown holds nothing.
TabOk(t) ==
  /\ tab[t].page # "away" => tab[t].auth
  /\ tab[t].join # "none" => tab[t].page # "away"
  /\ ~Mounted(t) => hook[t].key = 0
PanelOff(t) ==
  ~Mounted(t) => panel[t].shown = {} /\ panel[t].got = {} /\ panel[t].opening = {} /\ panel[t].load = "none"

\* Deletions are told of rows that are gone, files of rows that are complete.
GoneOk(f) == Spoken(f) \/ Purged(f) \/ (\E t \in Tabs : Told(t, "deleted", f)) => file[f].row = "gone"
SeenOk(t, f) ==
  f \in panel[t].shown \/ f \in panel[t].got \/ Announced(t, f) => file[f].row \in {"up", "gone"}
JobOk(f) ==
  /\ file[f].job \in {"none", "creating", "putting"} => file[f].complete = "none"
  /\ file[f].complete \in {"emit", "ok"} => file[f].row \in {"up", "gone"}

\* A pass announces only files that have expired.
ExpiryOk(x) ==
  /\ \A y \in x.list : y[2] => file[y[1]].expired
  /\ x.pc \in {"row", "emit"} => x.on[1] \in Files /\ (x.on[2] => file[x.on[1]].expired)

\* What is in S, of the files the tab lists, is there, or going to be announced
\* as it is, or as gone.
Follows(t, f, S) ==
  /\ file[f].row = "up" => f \in S \/ Announced(t, f) \/ file[f].complete = "emit"
  /\ file[f].row = "gone" /\ f \in S => Ending(t, f)

Sure(t, f) == <<t, f>> \notin unsure /\ ~file[f].expired
ViewOk(t, f) ==
  Sure(t, f) =>
    /\ Shows(t) /\ Signed(t) /\ panel[t].load = "none" => Follows(t, f, panel[t].shown)
    /\ Shows(t) /\ Signed(t) /\ panel[t].load = "got" => Follows(t, f, panel[t].got)
    /\ Announced(t, f) /\ file[f].row = "gone" => Ending(t, f)

\* The inductive invariant of the lists.
ListInv ==
  /\ PanelTypes
  /\ \A t \in Tabs : TabOk(t) /\ PanelOff(t)
  /\ \A f \in Files : GoneOk(f) /\ JobOk(f)
  /\ \A t \in Tabs, f \in Files : SeenOk(t, f) /\ ViewOk(t, f)
  /\ \A i \in Purgers : ExpiryOk(purge[i])

\* Passes that stay where they are.
LEMMA ExpiryKept ==
    ASSUME NEW x \in PassType, ExpiryOk(x), \A f \in Files : file[f].expired => file'[f].expired
    PROVE  ExpiryOk(x)'
<1>1. ASSUME NEW y \in x.list PROVE y[2] => file'[y[1]].expired
  <2>1. y[1] \in Files
    BY DEF PassType
  <2> QED
    BY <2>1 DEF ExpiryOk
<1>2. ASSUME x.pc \in {"row", "emit"} PROVE x.on[1] \in Files /\ (x.on[2] => file'[x.on[1]].expired)
  BY <1>2 DEF ExpiryOk
<1> QED
  BY <1>1, <1>2 DEF ExpiryOk

\* Where no list, event or end of a deletion moves, and no row goes or is completed,
\* nothing changes for a list.
LEMMA ListsKept ==
    ASSUME ListInv, FilesTypes, UNCHANGED <<tab, hook, revoked, channel, panel, news, unsure>>,
           \A f \in Files :
             /\ file'[f].row = file[f].row \/ (file[f].row = "none" /\ file'[f].row = "new")
             /\ file[f].expired => file'[f].expired
             /\ (file'[f].complete = "emit") = (file[f].complete = "emit")
             /\ file'[f].complete = "ok" => file[f].complete = "ok"
             /\ file'[f].job \in {"none", "creating", "putting"} => file'[f].complete = "none"
             /\ (Spoken(f)' <=> Spoken(f)) /\ (Purged(f)' => Purged(f)),
           \A i \in Purgers : ExpiryOk(purge[i])'
    PROVE  ListInv'
<1>1. PanelTypes'
  BY DEF ListInv, PanelTypes
<1>2. ASSUME NEW t \in Tabs PROVE TabOk(t)' /\ PanelOff(t)'
  BY DEF ListInv, TabOk, PanelOff, Mounted
<1>3. ASSUME NEW f \in Files PROVE GoneOk(f)' /\ JobOk(f)'
  <2>1. GoneOk(f) /\ JobOk(f)
    BY DEF ListInv
  <2> QED
    BY <2>1 DEF GoneOk, JobOk, Told
<1>4. ASSUME NEW t \in Tabs, NEW f \in Files PROVE SeenOk(t, f)' /\ ViewOk(t, f)'
  <2>1. SeenOk(t, f) /\ ViewOk(t, f)
    BY DEF ListInv
  <2>2. SeenOk(t, f)'
    BY <2>1 DEF SeenOk, Announced, Told
  <2>3. ViewOk(t, f)'
    BY <2>1 DEF ViewOk, Sure, Follows, Announced, Ending, Told, Shows, Signed, Mounted
  <2> QED
    BY <2>2, <2>3
<1> QED
  BY <1>1, <1>2, <1>3, <1>4 DEF ListInv

\* Passes that stay where they are know what they knew.
LEMMA PassesAsTheyWere ==
    ASSUME ListInv, FilesTypes, UNCHANGED purge, \A f \in Files : file[f].expired => file'[f].expired
    PROVE  \A i \in Purgers : ExpiryOk(purge[i])'
<1>1. ASSUME NEW i \in Purgers PROVE ExpiryOk(purge[i])'
  <2> PICK x : x = purge[i]
    OBVIOUS
  <2>1. x \in PassType /\ ExpiryOk(x)
    BY DEF ListInv, FilesTypes
  <2>2. ExpiryOk(x)'
    BY <2>1, ExpiryKept
  <2> QED
    BY <2>2
<1> QED
  BY <1>1

\* Ends of deletions, when nothing but beginnings are added.
LEMMA SpokenKept ==
    ASSUME \A d \in deletes' : d \in deletes \/ d[4] # "emit", \A d \in deletes : d \in deletes' \/ d[4] # "emit"
    PROVE  \A f \in Files : (Spoken(f)' <=> Spoken(f))
BY DEF Spoken

\* A step of completeFile that neither completes the row nor tells of it.
LEMMA CompletingIs ==
    ASSUME FilesTypes, NEW f \in Files, NEW pc \in {"none", "find", "size", "update", "emit", "ok", "error"},
           NEW row \in {"none", "new", "up", "gone"}, Completing(f, pc, row)
    PROVE  /\ file'[f].row = row /\ file'[f].complete = pc
           /\ file'[f].job = file[f].job /\ file'[f].expired = file[f].expired
           /\ \A g \in Files : g # f => file'[g] = file[g]
<1>1. file \in [Files -> FileType] /\ file[f] \in FileType
  BY DEF FilesTypes
<1> QED
  BY <1>1 DEF FileType, Completing

\* What is being uploaded, and the clock.
LEMMA ListsWhileUploaded ==
    ASSUME ListInv, FilesInv, NEW f \in Files, UNCHANGED keysRest,
           \/ Upload(f) \/ Create(f) \/ PutLands(f) \/ PutDrops(f) \/ Abort(f) \/ LoseAnswer(f)
           \/ HourPasses(f) \/ WeekPasses(f) \/ CompleteFind(f) \/ CompleteSize(f)
    PROVE  ListInv'
<1>t. FilesTypes /\ file \in [Files -> FileType] /\ file[f] \in FileType /\ RowOk(f) /\ JobOk(f)
  BY DEF FilesInv, FilesTypes, RowsOk, ListInv
<1>u. UNCHANGED <<tab, hook, revoked, channel, panel, news, unsure, purge>>
  BY DEF keysRest, Upload, Create, PutLands, PutDrops, Abort, LoseAnswer, HourPasses, WeekPasses, CompleteFind, CompleteSize
<1>d. \A g \in Files : (Spoken(g)' <=> Spoken(g))
  <2>1. UNCHANGED deletes \/ CleanUp(f)
    BY DEF Upload, Create, PutLands, PutDrops, Abort, LoseAnswer, HourPasses, WeekPasses, CompleteFind, CompleteSize
  <2>2. \A d \in deletes' : d \in deletes \/ d[4] # "emit"
    BY <1>t, <2>1, CleanUpTypes
  <2>3. deletes \subseteq deletes'
    BY <2>1 DEF CleanUp
  <2> QED
    BY <2>2, <2>3, SpokenKept
<1>p. \A g \in Files : Purged(g)' => Purged(g)
  BY <1>u DEF Purged
<1>1. ASSUME NEW x, x \in FileType, file' = [file EXCEPT ![f] = x],
             x.row = file[f].row \/ (file[f].row = "none" /\ x.row = "new"),
             file[f].expired => x.expired, (x.complete = "emit") = (file[f].complete = "emit"),
             x.complete = "ok" => file[f].complete = "ok",
             x.job \in {"none", "creating", "putting"} => x.complete = "none"
      PROVE  ListInv'
  <2>1. file'[f] = x /\ \A g \in Files : g # f => file'[g] = file[g]
    BY <1>t, <1>1
  <2>2. \A g \in Files : JobOk(g)
    BY DEF ListInv
  <2>3. \A g \in Files : file[g].expired => file'[g].expired
    BY <1>1, <2>1
  <2>4. \A i \in Purgers : ExpiryOk(purge[i])'
    BY <1>t, <1>u, <2>3, PassesAsTheyWere
  <2>5. ASSUME NEW g \in Files
        PROVE  /\ file'[g].row = file[g].row \/ (file[g].row = "none" /\ file'[g].row = "new")
               /\ (file'[g].complete = "emit") = (file[g].complete = "emit")
               /\ file'[g].complete = "ok" => file[g].complete = "ok"
               /\ file'[g].job \in {"none", "creating", "putting"} => file'[g].complete = "none"
    BY <1>1, <2>1, <2>2 DEF JobOk
  <2> QED
    BY <1>t, <1>u, <1>d, <1>p, <2>3, <2>4, <2>5, ListsKept
<1>2. ASSUME UNCHANGED file PROVE ListInv'
  <2>1. file' = [file EXCEPT ![f] = file[f]]
    BY <1>t, <1>2
  <2> QED
    BY <1>1, <1>t, <2>1 DEF JobOk
<1> DEFINE upl == [file[f] EXCEPT !.job = "creating"]
           over == [file[f] EXCEPT !.job = "over"]
           cre == [file[f] EXCEPT !.row = "new", !.job = "putting"]
           fin == [file[f] EXCEPT !.job = "finishing", !.complete = "find"]
           old == [file[f] EXCEPT !.old = TRUE]
           exp == [file[f] EXCEPT !.expired = TRUE]
<1>3. ASSUME Upload(f) PROVE ListInv'
  <2>1. file' = [file EXCEPT ![f] = upl]
    BY <1>3 DEF Upload
  <2>2. upl \in FileType /\ upl.row = file[f].row /\ upl.expired = file[f].expired /\ upl.complete = "none"
    BY <1>3, <1>t DEF FileType, Upload, JobOk
  <2> QED
    BY <1>1, <2>1, <2>2, <1>t, <1>3 DEF JobOk, Upload
<1>4. ASSUME file' = [file EXCEPT ![f] = over] PROVE ListInv'
  <2>2. over \in FileType /\ over.row = file[f].row /\ over.expired = file[f].expired /\ over.job = "over" /\ over.complete = file[f].complete
    BY <1>t DEF FileType
  <2> QED
    BY <1>1, <1>4, <2>2
<1>5. ASSUME Create(f) PROVE ListInv'
  <2>1. ASSUME file' = [file EXCEPT ![f] = cre] PROVE ListInv'
    <3>1. cre \in FileType /\ cre.row = "new" /\ cre.expired = file[f].expired /\ cre.job = "putting" /\ cre.complete = file[f].complete
      BY <1>t DEF FileType
    <3>2. file[f].row = "none" /\ file[f].complete = "none"
      BY <1>5, <1>t DEF Create, RowOk, Made, JobOk
    <3> QED
      BY <1>1, <2>1, <3>1, <3>2
  <2> QED
    BY <1>4, <1>5, <2>1 DEF Create
<1>6. ASSUME PutLands(f) PROVE ListInv'
  <2>1. ASSUME file' = [file EXCEPT ![f] = fin], file[f].job = "putting" PROVE ListInv'
    <3>1. fin \in FileType /\ fin.row = file[f].row /\ fin.expired = file[f].expired /\ fin.job = "finishing" /\ fin.complete = "find"
      BY <1>t DEF FileType
    <3>2. file[f].complete = "none"
      BY <2>1, <1>t DEF JobOk
    <3> QED
      BY <1>1, <2>1, <3>1, <3>2
  <2> QED
    BY <1>2, <1>6, <2>1 DEF PutLands
<1>7. ASSUME HourPasses(f) PROVE ListInv'
  <2>1. old \in FileType /\ old.row = file[f].row /\ old.expired = file[f].expired /\ old.job = file[f].job /\ old.complete = file[f].complete
    BY <1>t DEF FileType
  <2>2. file' = [file EXCEPT ![f] = old]
    BY <1>7 DEF HourPasses
  <2> QED
    BY <1>1, <1>t, <2>1, <2>2 DEF JobOk
<1>8. ASSUME WeekPasses(f) PROVE ListInv'
  <2>1. exp \in FileType /\ exp.row = file[f].row /\ exp.expired /\ exp.job = file[f].job /\ exp.complete = file[f].complete
    BY <1>t DEF FileType
  <2>2. file' = [file EXCEPT ![f] = exp]
    BY <1>8 DEF WeekPasses
  <2> QED
    BY <1>1, <1>t, <2>1, <2>2 DEF JobOk
<1>9. ASSUME CompleteFind(f) \/ CompleteSize(f) PROVE ListInv'
  <2>1. PICK pc \in {"error", "size", "update"} : Completing(f, pc, file[f].row)
    BY <1>9 DEF CompleteFind, CompleteSize
  <2> DEFINE x == [file[f] EXCEPT !.complete = pc, !.row = file[f].row]
  <2>2. file' = [file EXCEPT ![f] = x]
    BY <2>1 DEF Completing
  <2>3. x \in FileType /\ x.row = file[f].row /\ x.expired = file[f].expired /\ x.job = file[f].job /\ x.complete = pc
    BY <1>t DEF FileType
  <2>4. file[f].complete \in {"find", "size"}
    BY <1>9 DEF CompleteFind, CompleteSize
  <2> QED
    BY <1>1, <1>t, <2>2, <2>3, <2>4 DEF JobOk
<1> QED
  BY <1>2, <1>3, <1>4, <1>5, <1>6, <1>7, <1>8, <1>9 DEF Abort, LoseAnswer, PutDrops

\* A step that gets a tab an event it hears for sure, or one unsure of it.
LEMMA TellIs ==
    ASSUME PanelTypes, NEW kind \in {"shared", "deleted"}, NEW f \in Files, Tell(kind, f), UNCHANGED channel
    PROVE  /\ news' \subseteq channel' \X {"shared", "deleted"} \X Files
           /\ \A t \in Tabs, k \in {"shared", "deleted"}, g \in Files :
                /\ Told(t, k, g) => Told(t, k, g)'
                /\ Told(t, k, g)' => Told(t, k, g) \/ (t \in channel /\ k = kind /\ g = f)
                /\ t \in channel => Told(t, kind, f)'
                /\ <<t, g>> \in unsure => <<t, g>> \in unsure'
           /\ \A t \in Tabs :
                /\ t \in channel /\ kind = "shared" /\ ~HasRow(f) => <<t, f>> \in unsure'
                /\ t \notin channel /\ Mounted(t) => <<t, f>> \in unsure'
BY DEF PanelTypes, Tell, Told

\* The row is completed: the file is announced next.
LEMMA ListsOnceComplete ==
    ASSUME ListInv, FilesInv, NEW f \in Files, UNCHANGED keysRest, CompleteUpdate(f)
    PROVE  ListInv'
<1>t. FilesTypes /\ file \in [Files -> FileType] /\ file[f] \in FileType /\ JobOk(f) /\ GoneOk(f)
  BY DEF FilesInv, FilesTypes, ListInv
<1>u. UNCHANGED <<tab, hook, revoked, channel, panel, news, unsure, purge, deletes>>
  BY DEF keysRest, CompleteUpdate
<1>1. ASSUME HasRow(f), Completing(f, "emit", "up") PROVE ListInv'
  <2>1. /\ file'[f].row = "up" /\ file'[f].complete = "emit"
        /\ file'[f].job = file[f].job /\ file'[f].expired = file[f].expired
        /\ \A g \in Files : g # f => file'[g] = file[g]
    BY <1>1, <1>t, CompletingIs
  <2>0. file[f].row \in {"new", "up"} /\ file[f].complete = "update"
    BY <1>1 DEF HasRow, CompleteUpdate
  <2>2. \A i \in Purgers : ExpiryOk(purge[i])'
    BY <1>t, <1>u, <2>1, PassesAsTheyWere
  <2>3. PanelTypes' /\ \A t \in Tabs : TabOk(t)' /\ PanelOff(t)'
    BY <1>u DEF ListInv, PanelTypes, TabOk, PanelOff, Mounted
  <2>4. ASSUME NEW g \in Files PROVE GoneOk(g)' /\ JobOk(g)'
    <3>1. GoneOk(g) /\ JobOk(g)
      BY DEF ListInv
    <3> QED
      BY <1>u, <2>0, <2>1, <3>1 DEF GoneOk, JobOk, Told, Spoken, Purged
  <2>5. ASSUME NEW t \in Tabs, NEW g \in Files PROVE SeenOk(t, g)' /\ ViewOk(t, g)'
    <3>1. SeenOk(t, g) /\ ViewOk(t, g)
      BY DEF ListInv
    <3>2. SeenOk(t, g)'
      BY <1>u, <2>1, <3>1 DEF SeenOk, Announced, Told
    <3>3. CASE g # f
      BY <1>u, <2>1, <3>1, <3>2, <3>3 DEF ViewOk, Sure, Follows, Announced, Ending, Told, Spoken, Shows, Signed, Mounted
    <3>4. CASE g = f
      BY <2>1, <3>2, <3>4 DEF ViewOk, Sure, Follows, Announced
    <3> QED
      BY <3>2, <3>3, <3>4
  <2> QED
    BY <2>2, <2>3, <2>4, <2>5 DEF ListInv
<1>2. ASSUME Completing(f, "error", file[f].row) PROVE ListInv'
  <2>1. /\ file'[f].row = file[f].row /\ file'[f].complete = "error"
        /\ file'[f].job = file[f].job /\ file'[f].expired = file[f].expired
        /\ \A g \in Files : g # f => file'[g] = file[g]
    BY <1>2, <1>t, CompletingIs DEF FileType
  <2>0. file[f].complete = "update"
    BY DEF CompleteUpdate
  <2>2. \A g \in Files : JobOk(g)
    BY DEF ListInv
  <2>3. \A i \in Purgers : ExpiryOk(purge[i])'
    BY <1>t, <1>u, <2>1, PassesAsTheyWere
  <2>4. \A g \in Files : (Spoken(g)' <=> Spoken(g)) /\ (Purged(g)' => Purged(g))
    BY <1>u DEF Spoken, Purged
  <2>5. ASSUME NEW g \in Files
        PROVE  /\ file'[g].row = file[g].row \/ (file[g].row = "none" /\ file'[g].row = "new")
               /\ file[g].expired => file'[g].expired
               /\ (file'[g].complete = "emit") = (file[g].complete = "emit")
               /\ file'[g].complete = "ok" => file[g].complete = "ok"
               /\ file'[g].job \in {"none", "creating", "putting"} => file'[g].complete = "none"
    BY <1>t, <2>0, <2>1, <2>2 DEF JobOk
  <2> QED
    BY <1>t, <1>u, <2>3, <2>4, <2>5, ListsKept
<1> QED
  BY <1>1, <1>2 DEF CompleteUpdate

\* It is announced: whoever does not hear it is unsure.
LEMMA ListsOnceAnnounced ==
    ASSUME ListInv, FilesInv, NEW f \in Files, UNCHANGED keysRest, CompleteEmit(f)
    PROVE  ListInv'
<1>t. FilesTypes /\ file \in [Files -> FileType] /\ file[f] \in FileType /\ JobOk(f) /\ GoneOk(f) /\ PanelTypes
  BY DEF FilesInv, FilesTypes, ListInv
<1>u. UNCHANGED <<tab, hook, revoked, channel, panel, purge, deletes>> /\ Tell("shared", f)
  BY DEF keysRest, CompleteEmit
<1>0. file[f].complete = "emit" /\ file[f].row \in {"up", "gone"}
  BY <1>t DEF CompleteEmit, JobOk
<1>1. /\ file'[f].row = file[f].row /\ file'[f].complete = "ok"
      /\ file'[f].job = file[f].job /\ file'[f].expired = file[f].expired
      /\ \A g \in Files : g # f => file'[g] = file[g]
  BY <1>t, CompletingIs DEF FileType, CompleteEmit
<1>n. /\ news' \subseteq channel' \X {"shared", "deleted"} \X Files
      /\ \A t \in Tabs, k \in {"shared", "deleted"}, g \in Files :
           /\ Told(t, k, g) => Told(t, k, g)'
           /\ Told(t, k, g)' => Told(t, k, g) \/ (t \in channel /\ k = "shared" /\ g = f)
           /\ t \in channel => Told(t, "shared", f)'
           /\ <<t, g>> \in unsure => <<t, g>> \in unsure'
      /\ \A t \in Tabs :
           /\ t \in channel /\ ~HasRow(f) => <<t, f>> \in unsure'
           /\ t \notin channel /\ Mounted(t) => <<t, f>> \in unsure'
  BY <1>t, <1>u, TellIs
<1>2. \A i \in Purgers : ExpiryOk(purge[i])'
  BY <1>t, <1>u, <1>1, PassesAsTheyWere
<1>3. PanelTypes' /\ \A t \in Tabs : TabOk(t)' /\ PanelOff(t)'
  BY <1>u, <1>n DEF ListInv, PanelTypes, TabOk, PanelOff, Mounted
<1>4. ASSUME NEW g \in Files PROVE GoneOk(g)' /\ JobOk(g)'
  <2>1. GoneOk(g) /\ JobOk(g)
    BY DEF ListInv
  <2>2. \A t \in Tabs : Told(t, "deleted", g)' => Told(t, "deleted", g)
    BY <1>n
  <2> QED
    BY <1>u, <1>0, <1>1, <2>1, <2>2 DEF GoneOk, JobOk, Spoken, Purged
<1>5. ASSUME NEW t \in Tabs, NEW g \in Files PROVE SeenOk(t, g)' /\ ViewOk(t, g)'
  <2>1. SeenOk(t, g) /\ ViewOk(t, g)
    BY DEF ListInv
  <2>2. /\ (Told(t, "deleted", g)' <=> Told(t, "deleted", g))
        /\ Told(t, "shared", g)' => Told(t, "shared", g) \/ (g = f /\ t \in channel)
        /\ Told(t, "shared", g) => Told(t, "shared", g)'
    BY <1>n DEF Told
  <2>3. SeenOk(t, g)'
    BY <1>u, <1>0, <1>1, <2>1, <2>2 DEF SeenOk, Announced
  <2>4. (Shows(t)' <=> Shows(t)) /\ (Signed(t)' <=> Signed(t)) /\ (Sure(t, g)' => Sure(t, g)) /\ (Spoken(g)' <=> Spoken(g))
    BY <1>u, <1>n, <1>1 DEF Shows, Signed, Mounted, Sure, Spoken
  <2>5. CASE g # f
    BY <1>u, <1>1, <2>1, <2>2, <2>3, <2>4, <2>5 DEF ViewOk, Follows, Announced, Ending
  <2>6. CASE g = f
    <3>1. Sure(t, f)' => (t \in channel => HasRow(f) /\ Told(t, "shared", f)') /\ (t \notin channel => ~Mounted(t))
      BY <1>n DEF Sure
    <3>2. HasRow(f) => file[f].row = "up"
      BY <1>0 DEF HasRow
    <3> QED
      BY <1>u, <1>1, <2>1, <2>2, <2>3, <2>4, <2>6, <3>1, <3>2 DEF ViewOk, Follows, Announced, Ending, Shows
  <2> QED
    BY <2>3, <2>5, <2>6
<1> QED
  BY <1>2, <1>3, <1>4, <1>5 DEF ListInv

\* The answer comes: the tab shows the file, or the half-made one is to be deleted.
LEMMA ListsOnceAnswered ==
    ASSUME ListInv, FilesInv, NEW f \in Files, UNCHANGED keysRest, CompleteAnswer(f)
    PROVE  ListInv'
<1> DEFINE up == UploaderOf[f]
           x == [file[f] EXCEPT !.job = "over", !.complete = "none"]
<1>t. FilesTypes /\ file \in [Files -> FileType] /\ file[f] \in FileType /\ JobOk(f) /\ PanelTypes
      /\ panel \in [Tabs -> PanelType] /\ up \in Tabs /\ panel[up] \in PanelType
  BY FilesAssumption DEF FilesInv, FilesTypes, ListInv, PanelTypes
<1>u. UNCHANGED <<tab, hook, revoked, channel, news, purge>>
  BY DEF keysRest, CompleteAnswer
<1>0. file[f].complete \in {"ok", "error"}
  BY DEF CompleteAnswer
<1>1. /\ file'[f].row = file[f].row /\ file'[f].complete = "none" /\ file'[f].job = "over" /\ file'[f].expired = file[f].expired
      /\ \A g \in Files : g # f => file'[g] = file[g]
  <2>1. file' = [file EXCEPT ![f] = x]
    BY DEF CompleteAnswer
  <2>2. x.row = file[f].row /\ x.complete = "none" /\ x.job = "over" /\ x.expired = file[f].expired
    BY <1>t DEF FileType
  <2> QED
    BY <1>t, <2>1, <2>2
<1>d. \A g \in Files : (Spoken(g)' <=> Spoken(g))
  <2>1. UNCHANGED deletes \/ CleanUp(f)
    BY DEF CompleteAnswer
  <2>2. \A d \in deletes' : d \in deletes \/ d[4] # "emit"
    BY <1>t, <2>1, CleanUpTypes
  <2>3. deletes \subseteq deletes'
    BY <2>1 DEF CleanUp
  <2> QED
    BY <2>2, <2>3, SpokenKept
<1>p. \A g \in Files : Purged(g)' => Purged(g)
  BY <1>u DEF Purged
<1>2. \A i \in Purgers : ExpiryOk(purge[i])'
  BY <1>t, <1>u, <1>1, PassesAsTheyWere
<1>3. ASSUME UNCHANGED <<panel, unsure>> PROVE ListInv'
  <2>1. \A g \in Files : JobOk(g)
    BY DEF ListInv
  <2>2. ASSUME NEW g \in Files
        PROVE  /\ file'[g].row = file[g].row \/ (file[g].row = "none" /\ file'[g].row = "new")
               /\ file[g].expired => file'[g].expired
               /\ (file'[g].complete = "emit") = (file[g].complete = "emit")
               /\ file'[g].complete = "ok" => file[g].complete = "ok"
               /\ file'[g].job \in {"none", "creating", "putting"} => file'[g].complete = "none"
    BY <1>0, <1>1, <2>1 DEF JobOk
  <2> QED
    BY <1>t, <1>u, <1>2, <1>d, <1>p, <1>3, <2>2, ListsKept
<1>4. ASSUME file[f].complete = "ok", Mounted(up), panel' = [panel EXCEPT ![up].shown = @ \union {f}],
             unsure' = IF file[f].row = "gone" \/ panel[up].load = "got" THEN unsure \union {<<up, f>>} ELSE unsure
      PROVE  ListInv'
  <2>0. file[f].row \in {"up", "gone"}
    BY <1>t, <1>4 DEF JobOk
  <2>1. /\ panel' \in [Tabs -> PanelType]
        /\ panel'[up].shown = panel[up].shown \union {f} /\ panel'[up].load = panel[up].load
        /\ panel'[up].got = panel[up].got /\ panel'[up].opening = panel[up].opening
        /\ \A t \in Tabs : t # up => panel'[t] = panel[t]
    BY <1>t, <1>4 DEF PanelType
  <2>2. PanelTypes' /\ \A t \in Tabs : TabOk(t)' /\ PanelOff(t)'
    BY <1>u, <1>4, <2>1 DEF ListInv, PanelTypes, TabOk, PanelOff, Mounted
  <2>3. ASSUME NEW g \in Files PROVE GoneOk(g)' /\ JobOk(g)'
    <3>1. GoneOk(g) /\ JobOk(g)
      BY DEF ListInv
    <3> QED
      BY <1>u, <1>d, <1>p, <1>1, <3>1 DEF GoneOk, JobOk, Told
  <2>4. ASSUME NEW t \in Tabs, NEW g \in Files PROVE SeenOk(t, g)' /\ ViewOk(t, g)'
    <3>1. SeenOk(t, g) /\ ViewOk(t, g)
      BY DEF ListInv
    <3>2. SeenOk(t, g)'
      BY <1>u, <1>1, <2>0, <2>1, <3>1 DEF SeenOk, Announced, Told
    <3>3. (Sure(t, g)' => Sure(t, g)) /\ (Shows(t)' <=> Shows(t)) /\ (Signed(t)' <=> Signed(t))
      BY <1>u, <1>1, <1>4 DEF Sure, Shows, Signed, Mounted
    <3>4. CASE g # f \/ t # up
      BY <1>u, <1>d, <1>0, <1>1, <2>1, <3>1, <3>2, <3>3, <3>4 DEF ViewOk, Follows, Announced, Ending, Told
    <3>5. CASE g = f /\ t = up
      <4>1. Sure(t, g)' => file[f].row = "up" /\ panel[up].load # "got"
        BY <1>4, <2>0, <3>5 DEF Sure
      <4> QED
        BY <1>u, <1>d, <1>0, <1>1, <2>1, <3>1, <3>2, <3>3, <3>5, <4>1 DEF ViewOk, Follows, Announced, Ending, Told
    <3> QED
      BY <3>4, <3>5
  <2> QED
    BY <1>2, <2>2, <2>3, <2>4 DEF ListInv
<1> QED
  BY <1>3, <1>4 DEF CompleteAnswer

\* The requests to delete a file, up to its row.
LEMMA ListsBeforeDeleted ==
    ASSUME ListInv, FilesInv, NEW f \in Files, UNCHANGED keysRest,
           \/ \E t \in Tabs : RemoveFile(t, f)
           \/ \E d \in deletes : DeleteFind(d) \/ DeleteObject(d)
           \/ \E d \in deletes : DeleteRow(d) /\ ~HasRow(d[1])
    PROVE  ListInv'
<1>t. FilesTypes /\ deletes \subseteq Files \X Tabs \X BOOLEAN \X {"find", "object", "row", "emit"}
  BY DEF FilesInv, FilesTypes
<1>u. UNCHANGED <<tab, hook, revoked, channel, panel, news, unsure, purge, file>>
  BY DEF keysRest, RemoveFile, DeleteFind, DeleteObject, DeleteRow
<1>d. \A g \in Files : (Spoken(g)' <=> Spoken(g))
  <2>1. ASSUME NEW t \in Tabs, RemoveFile(t, f) PROVE \A g \in Files : (Spoken(g)' <=> Spoken(g))
    <3>1. PICK e : e = <<f, t, TRUE, "find">>
      OBVIOUS
    <3>2. deletes' = deletes \union {e} /\ e[4] = "find"
      BY <2>1, <3>1 DEF RemoveFile
    <3> QED
      BY <3>2, SpokenKept
  <2>2. ASSUME NEW d \in deletes, d[4] # "emit", (\E pc \in {"object", "row"} : Onward(d, pc)) \/ deletes' = deletes \ {d}
        PROVE  \A g \in Files : (Spoken(g)' <=> Spoken(g))
    <3>1. \A e \in deletes' : e \in deletes \/ e[4] # "emit"
      BY <1>t, <2>2, OnwardTypes
    <3>2. \A e \in deletes : e \in deletes' \/ e[4] # "emit"
      BY <2>2 DEF Onward
    <3> QED
      BY <3>1, <3>2, SpokenKept
  <2> QED
    BY <2>1, <2>2 DEF DeleteFind, DeleteObject, DeleteRow
<1>p. \A g \in Files : Purged(g)' => Purged(g)
  BY <1>u DEF Purged
<1>1. \A g \in Files : JobOk(g)
  BY DEF ListInv
<1>2. \A i \in Purgers : ExpiryOk(purge[i])'
  BY <1>t, <1>u, PassesAsTheyWere
<1>3. ASSUME NEW g \in Files
      PROVE  /\ file'[g].row = file[g].row \/ (file[g].row = "none" /\ file'[g].row = "new")
             /\ file[g].expired => file'[g].expired
             /\ (file'[g].complete = "emit") = (file[g].complete = "emit")
             /\ file'[g].complete = "ok" => file[g].complete = "ok"
             /\ file'[g].job \in {"none", "creating", "putting"} => file'[g].complete = "none"
  BY <1>u, <1>1 DEF JobOk
<1> QED
  BY <1>t, <1>u, <1>d, <1>p, <1>2, <1>3, ListsKept

\* The row goes: the end of the deletion is to be told, or nobody is sure of it.
LEMMA ListsOnceGone ==
    ASSUME ListInv, FilesInv, NEW f \in Files, HasRow(f), RowGone(f),
           UNCHANGED <<tab, hook, revoked, channel, panel, news>>,
           \A g \in Files : g # f => (Spoken(g)' <=> Spoken(g)) /\ (Purged(g)' => Purged(g)),
           \A t \in Tabs, g \in Files : <<t, g>> \in unsure => <<t, g>> \in unsure',
           \/ Spoken(f)' \/ file[f].row = "new" \/ file[f].expired
           \/ \A t \in Tabs : <<t, f>> \in unsure',
           \A i \in Purgers : ExpiryOk(purge[i])'
    PROVE  ListInv'
<1>1. /\ file'[f].row = "gone" /\ file'[f].complete = file[f].complete
      /\ file'[f].job = file[f].job /\ file'[f].expired = file[f].expired
      /\ \A g \in Files : g # f => file'[g] = file[g]
  BY DEF FilesInv, FilesTypes, FileType, RowGone
<1>0. file[f].row \in {"new", "up"}
  BY DEF HasRow
<1>2. PanelTypes' /\ \A t \in Tabs : TabOk(t)' /\ PanelOff(t)'
  BY DEF ListInv, PanelTypes, TabOk, PanelOff, Mounted
<1>3. ASSUME NEW g \in Files PROVE GoneOk(g)' /\ JobOk(g)'
  <2>1. GoneOk(g) /\ JobOk(g)
    BY DEF ListInv
  <2> QED
    BY <1>0, <1>1, <2>1 DEF GoneOk, JobOk, Told
<1>4. ASSUME NEW t \in Tabs, NEW g \in Files PROVE SeenOk(t, g)' /\ ViewOk(t, g)'
  <2>1. SeenOk(t, g) /\ ViewOk(t, g)
    BY DEF ListInv
  <2>2. SeenOk(t, g)'
    BY <1>0, <1>1, <2>1 DEF SeenOk, Announced, Told
  <2>3. (Shows(t)' <=> Shows(t)) /\ (Signed(t)' <=> Signed(t)) /\ (Sure(t, g)' => Sure(t, g))
    BY <1>1 DEF Shows, Signed, Mounted, Sure
  <2>4. CASE g # f
    BY <1>1, <2>1, <2>2, <2>3, <2>4 DEF ViewOk, Follows, Announced, Ending, Told
  <2>5. CASE g = f /\ file[f].row = "new"
    <3>1. f \notin panel[t].shown /\ f \notin panel[t].got /\ ~Announced(t, f)
      BY <2>1, <2>5 DEF SeenOk
    <3> QED
      BY <1>1, <2>2, <2>5, <3>1 DEF ViewOk, Follows, Announced, Told
  <2>6. CASE g = f /\ file[f].row # "new"
    <3>1. Sure(t, f)' => Spoken(f)'
      BY <1>1, <2>6 DEF Sure
    <3> QED
      BY <1>1, <2>2, <2>6, <3>1 DEF ViewOk, Follows, Ending
  <2> QED
    BY <2>4, <2>5, <2>6
<1> QED
  BY <1>2, <1>3, <1>4 DEF ListInv

\* A deletion deletes the row.
LEMMA ListsOnceDeleted ==
    ASSUME ListInv, FilesInv, UNCHANGED keysRest, NEW d \in deletes, DeleteRow(d), HasRow(d[1])
    PROVE  ListInv'
<1>t. FilesTypes /\ deletes \subseteq Files \X Tabs \X BOOLEAN \X {"find", "object", "row", "emit"} /\ d[1] \in Files
  BY DEF FilesInv, FilesTypes
<1>u. UNCHANGED <<tab, hook, revoked, channel, panel, news, unsure, purge>> /\ RowGone(d[1]) /\ Onward(d, "emit") /\ d[4] = "row"
  BY DEF keysRest, DeleteRow
<1>1. PICK e : e = <<d[1], d[2], d[3], "emit">> /\ deletes' = (deletes \ {d}) \union {e}
  BY <1>u DEF Onward
<1>2. Spoken(d[1])'
  BY <1>1 DEF Spoken
<1>3. \A g \in Files : g # d[1] => (Spoken(g)' <=> Spoken(g)) /\ (Purged(g)' => Purged(g))
  BY <1>u, <1>1 DEF Spoken, Purged
<1>4. \A g \in Files : file[g].expired => file'[g].expired
  BY <1>t, <1>u DEF RowGone, FilesTypes, FileType
<1>5. \A i \in Purgers : ExpiryOk(purge[i])'
  BY <1>t, <1>u, <1>4, PassesAsTheyWere
<1>6. \A t \in Tabs, g \in Files : <<t, g>> \in unsure => <<t, g>> \in unsure'
  BY <1>u
<1> QED
  BY <1>t, <1>u, <1>2, <1>3, <1>5, <1>6, ListsOnceGone

\* The end of a deletion is told: whoever does not hear it is unsure.
LEMMA ListsOnceSpoken ==
    ASSUME ListInv, FilesInv, NEW f \in Files, Tell("deleted", f), file[f].row = "gone",
           UNCHANGED <<tab, hook, revoked, channel, file>>,
           \A g \in Files : (g # f => (Spoken(g)' <=> Spoken(g))) /\ (Purged(g)' => Purged(g)),
           panel' \in [Tabs -> PanelType],
           \A t \in Tabs : /\ panel'[t].shown \in {panel[t].shown, panel[t].shown \ {f}}
                           /\ panel'[t].load = panel[t].load
                           /\ panel'[t].got = panel[t].got /\ panel'[t].opening = panel[t].opening,
           Spoken(f)' => Spoken(f),
           \A i \in Purgers : ExpiryOk(purge[i])'
    PROVE  ListInv'
<1>n. /\ news' \subseteq channel' \X {"shared", "deleted"} \X Files
      /\ \A t \in Tabs, k \in {"shared", "deleted"}, g \in Files :
           /\ Told(t, k, g) => Told(t, k, g)'
           /\ Told(t, k, g)' => Told(t, k, g) \/ (t \in channel /\ k = "deleted" /\ g = f)
           /\ t \in channel => Told(t, "deleted", f)'
           /\ <<t, g>> \in unsure => <<t, g>> \in unsure'
      /\ \A t \in Tabs : t \notin channel /\ Mounted(t) => <<t, f>> \in unsure'
  BY TellIs DEF ListInv
<1>2. PanelTypes' /\ \A t \in Tabs : TabOk(t)' /\ PanelOff(t)'
  <2>1. PanelTypes'
    BY <1>n DEF PanelTypes
  <2>2. ASSUME NEW t \in Tabs PROVE TabOk(t)' /\ PanelOff(t)'
    <3>1. TabOk(t) /\ PanelOff(t)
      BY DEF ListInv
    <3>2. PanelOff(t)'
      BY <3>1 DEF PanelOff, Mounted
    <3> QED
      BY <3>1, <3>2 DEF TabOk, Mounted
  <2> QED
    BY <2>1, <2>2
<1>3. ASSUME NEW g \in Files PROVE GoneOk(g)' /\ JobOk(g)'
  <2>1. GoneOk(g) /\ JobOk(g)
    BY DEF ListInv
  <2>2. \A t \in Tabs : Told(t, "deleted", g)' => Told(t, "deleted", g) \/ g = f
    BY <1>n
  <2> QED
    BY <2>1, <2>2 DEF GoneOk, JobOk
<1>4. ASSUME NEW t \in Tabs, NEW g \in Files PROVE SeenOk(t, g)' /\ ViewOk(t, g)'
  <2>1. SeenOk(t, g) /\ ViewOk(t, g) /\ PanelOff(t)
    BY DEF ListInv
  <2>2. Told(t, "shared", g)' <=> Told(t, "shared", g)
    BY <1>n
  <2>3. SeenOk(t, g)'
    BY <2>1, <2>2 DEF SeenOk, Announced
  <2>4. (Shows(t)' <=> Shows(t)) /\ (Signed(t)' <=> Signed(t)) /\ (Sure(t, g)' => Sure(t, g))
    BY <1>n DEF Shows, Signed, Mounted, Sure
  <2>5. CASE g # f
    <3>1. Told(t, "deleted", g)' <=> Told(t, "deleted", g)
      BY <1>n, <2>5
    <3>2. g \in panel'[t].shown <=> g \in panel[t].shown
      BY <2>5
    <3> QED
      BY <2>1, <2>2, <2>3, <2>4, <2>5, <3>1, <3>2 DEF ViewOk, Follows, Announced, Ending
  <2>6. CASE g = f
    <3>1. CASE t \in channel
      <4>1. Told(t, "deleted", f)'
        BY <1>n, <3>1
      <4> QED
        BY <2>3, <2>6, <4>1 DEF ViewOk, Follows, Ending
    <3>2. CASE t \notin channel
      <4>1. CASE Mounted(t)
        BY <1>n, <2>3, <2>6, <3>2, <4>1 DEF ViewOk, Sure
      <4>2. CASE ~Mounted(t)
        <5>1. ~Shows(t)' /\ panel'[t].opening = {}
          BY <2>1, <2>4, <4>2 DEF PanelOff, Shows
        <5>2. ~Told(t, "shared", f)'
          BY <1>n, <3>2 DEF Told
        <5> QED
          BY <2>3, <2>6, <5>1, <5>2 DEF ViewOk, Announced
      <4> QED
        BY <4>1, <4>2
    <3> QED
      BY <3>1, <3>2
  <2> QED
    BY <2>5, <2>6
<1> QED
  BY <1>2, <1>3, <1>4 DEF ListInv

\* By a request, which takes the file from the list of whoever asked.
LEMMA ListsOnceRequestSpoken ==
    ASSUME ListInv, FilesInv, UNCHANGED keysRest, NEW d \in deletes, DeleteEmit(d)
    PROVE  ListInv'
<1>t. FilesTypes /\ d \in Files \X Tabs \X BOOLEAN \X {"find", "object", "row", "emit"} /\ d[1] \in Files /\ d[2] \in Tabs
      /\ panel \in [Tabs -> PanelType] /\ panel[d[2]] \in PanelType
  BY DEF FilesInv, FilesTypes, ListInv, PanelTypes
<1>u. UNCHANGED <<tab, hook, revoked, channel, file, purge>> /\ Tell("deleted", d[1]) /\ deletes' = deletes \ {d} /\ d[4] = "emit"
  BY DEF keysRest, DeleteEmit
<1>1. file[d[1]].row = "gone"
  BY <1>t, <1>u DEF ListInv, GoneOk, Spoken
<1>2. \A g \in Files : (g # d[1] => (Spoken(g)' <=> Spoken(g))) /\ (Purged(g)' => Purged(g))
  BY <1>u DEF Spoken, Purged
<1>3. Spoken(d[1])' => Spoken(d[1])
  BY <1>u DEF Spoken
<1>4. /\ panel' \in [Tabs -> PanelType]
      /\ \A t \in Tabs : /\ panel'[t].shown \in {panel[t].shown, panel[t].shown \ {d[1]}}
                         /\ panel'[t].load = panel[t].load
                         /\ panel'[t].got = panel[t].got /\ panel'[t].opening = panel[t].opening
  <2>1. CASE UNCHANGED panel
    BY <1>t, <2>1
  <2>2. CASE panel' = [panel EXCEPT ![d[2]].shown = @ \ {d[1]}]
    BY <1>t, <2>2 DEF PanelType
  <2> QED
    BY <2>1, <2>2 DEF DeleteEmit
<1>5. \A i \in Purgers : ExpiryOk(purge[i])'
  BY <1>t, <1>u, PassesAsTheyWere
<1> QED
  BY <1>t, <1>u, <1>1, <1>2, <1>3, <1>4, <1>5, ListsOnceSpoken

-----------------------------------------------------------------------------
(* The purge.                                                              *)

\* A pass that goes on without a word, having what it has for a reason.
LEMMA ListsWhilePurging ==
    ASSUME ListInv, FilesInv, UNCHANGED keysRest, UNCHANGED <<file, deletes, panel, news, unsure>>,
           NEW i \in Purgers, NEW x \in PassType, PurgeIs(i, x), ExpiryOk(x), x.pc # "emit"
    PROVE  ListInv'
<1>t. FilesTypes /\ purge \in [Purgers -> PassType]
  BY DEF FilesInv, FilesTypes
<1>u. UNCHANGED <<tab, hook, revoked, channel>>
  BY DEF keysRest
<1>1. purge'[i] = x /\ \A j \in Purgers : j # i => purge'[j] = purge[j]
  BY <1>t DEF PurgeIs
<1>2. \A f \in Files : (Spoken(f)' <=> Spoken(f)) /\ (Purged(f)' => Purged(f))
  BY <1>1 DEF Spoken, Purged
<1>3. ASSUME NEW j \in Purgers PROVE ExpiryOk(purge[j])'
  <2> PICK y : y = purge'[j]
    OBVIOUS
  <2>1. y \in PassType /\ ExpiryOk(y)
    BY <1>t, <1>1 DEF ListInv
  <2>2. ExpiryOk(y)'
    BY <2>1, ExpiryKept
  <2> QED
    BY <2>2
<1>4. \A f \in Files : JobOk(f)
  BY DEF ListInv
<1>5. ASSUME NEW f \in Files
      PROVE  /\ file'[f].row = file[f].row \/ (file[f].row = "none" /\ file'[f].row = "new")
             /\ file[f].expired => file'[f].expired
             /\ (file'[f].complete = "emit") = (file[f].complete = "emit")
             /\ file'[f].complete = "ok" => file[f].complete = "ok"
             /\ file'[f].job \in {"none", "creating", "putting"} => file'[f].complete = "none"
  BY <1>4 DEF JobOk
<1> QED
  BY <1>t, <1>u, <1>2, <1>3, <1>5, ListsKept

\* A pass that has deleted a row told before only of what it found complete.
LEMMA ListsOncePurged ==
    ASSUME ListInv, FilesInv, UNCHANGED keysRest, NEW i \in Purgers, PurgeRow(i), HasRow(purge[i].on[1])
    PROVE  ListInv'
<1> PICK f : f = purge[i].on[1]
  OBVIOUS
<1>t. /\ FilesTypes /\ purge \in [Purgers -> PassType] /\ purge[i] \in PassType /\ purge[i].on \in (Files \union {None}) \X BOOLEAN
      /\ ExpiryOk(purge[i]) /\ PassOk(purge[i])
  BY DEF FilesInv, FilesTypes, PassType, ListInv, PassesOk
<1>0. f \in Files /\ purge[i].pc = "row" /\ HasRow(f) /\ RowGone(f)
  BY <1>t DEF PurgeRow, PassOk
<1>u. UNCHANGED <<tab, hook, revoked, channel, panel, news, deletes>>
  BY DEF keysRest, PurgeRow
<1> PICK pc \in {"emit", "next"} : PurgeIs(i, [purge[i] EXCEPT !.pc = pc])
  BY <1>0 DEF PurgeRow
<1> PICK p : p = [purge[i] EXCEPT !.pc = pc]
  OBVIOUS
<1>1. p \in PassType /\ p.pc = pc /\ p.list = purge[i].list /\ p.on = purge[i].on /\ purge' = [purge EXCEPT ![i] = p]
  BY <1>t DEF PassType, PurgeIs
<1>2. /\ file'[f].row = "gone" /\ file'[f].expired = file[f].expired
      /\ \A g \in Files : g # f => file'[g] = file[g]
  BY <1>t, <1>0 DEF FilesTypes, FileType, RowGone
<1>3. \A g \in Files : g # f => (Spoken(g)' <=> Spoken(g)) /\ (Purged(g)' => Purged(g))
  BY <1>t, <1>u, <1>1 DEF Spoken, Purged
<1>4. \A t \in Tabs, g \in Files : <<t, g>> \in unsure => <<t, g>> \in unsure'
  BY <1>0 DEF PurgeRow
<1>5. ASSUME file[f].row # "new", ~file[f].expired, NEW t \in Tabs PROVE <<t, f>> \in unsure'
  <2>1. file[f].row = "up"
    BY <1>0, <1>5 DEF HasRow
  <2>2. ~purge[i].on[2]
    BY <1>t, <1>0, <1>5 DEF ExpiryOk
  <2> QED
    BY <1>0, <2>1, <2>2 DEF PurgeRow
<1>6. ASSUME NEW j \in Purgers PROVE ExpiryOk(purge[j])'
  <2> PICK y : y = purge'[j]
    OBVIOUS
  <2>1. y \in PassType /\ ExpiryOk(y)
    <3>1. ExpiryOk(p)
      BY <1>t, <1>0, <1>1 DEF ExpiryOk
    <3> QED
      BY <1>t, <1>1, <3>1 DEF ListInv
  <2>2. \A g \in Files : file[g].expired => file'[g].expired
    BY <1>2
  <2>3. ExpiryOk(y)'
    BY <2>1, <2>2, ExpiryKept
  <2> QED
    BY <2>3
<1> QED
  BY <1>t, <1>0, <1>u, <1>3, <1>4, <1>5, <1>6, ListsOnceGone

\* A pass tells of a row that is gone.
LEMMA ListsOncePurgeSpoken ==
    ASSUME ListInv, FilesInv, UNCHANGED keysRest, NEW i \in Purgers, PurgeEmit(i)
    PROVE  ListInv'
<1> PICK f : f = purge[i].on[1]
  OBVIOUS
<1>t. /\ FilesTypes /\ purge \in [Purgers -> PassType] /\ purge[i] \in PassType /\ ExpiryOk(purge[i]) /\ PanelTypes
      /\ panel \in [Tabs -> PanelType]
  BY DEF FilesInv, FilesTypes, ListInv, PanelTypes
<1>0. purge[i].pc = "emit" /\ Tell("deleted", f)
  BY DEF PurgeEmit
<1>u. UNCHANGED <<tab, hook, revoked, channel, file, deletes, panel>>
  BY DEF keysRest, PurgeEmit
<1> PICK p : p = [purge[i] EXCEPT !.pc = "next"]
  OBVIOUS
<1>1. p \in PassType /\ p.pc = "next" /\ p.list = purge[i].list /\ purge' = [purge EXCEPT ![i] = p]
  BY <1>t DEF PassType, PurgeIs, PurgeEmit
<1>2. \A g \in Files : (Spoken(g)' <=> Spoken(g)) /\ (Purged(g)' => Purged(g))
  BY <1>t, <1>u, <1>1 DEF Spoken, Purged
<1>3. ASSUME NEW j \in Purgers PROVE ExpiryOk(purge[j])'
  <2> PICK y : y = purge'[j]
    OBVIOUS
  <2>1. y \in PassType /\ ExpiryOk(y)
    <3>1. ExpiryOk(p)
      BY <1>t, <1>1 DEF ExpiryOk
    <3> QED
      BY <1>t, <1>1, <3>1 DEF ListInv
  <2>2. ExpiryOk(y)'
    BY <1>u, <2>1, ExpiryKept
  <2> QED
    BY <2>2
<1>4. f \in Files
  BY <1>t, <1>0 DEF ExpiryOk
<1>5. file[f].row = "gone"
  BY <1>0, <1>4 DEF ListInv, GoneOk, Purged
<1>6. \A t \in Tabs : /\ panel'[t].shown \in {panel[t].shown, panel[t].shown \ {f}}
                      /\ panel'[t].load = panel[t].load
                      /\ panel'[t].got = panel[t].got /\ panel'[t].opening = panel[t].opening
  BY <1>u
<1>7. panel' \in [Tabs -> PanelType]
  BY <1>t, <1>u
<1> QED
  BY <1>t, <1>0, <1>u, <1>2, <1>3, <1>4, <1>5, <1>6, <1>7, ListsOnceSpoken

\* All steps of a pass.
LEMMA ListsThroughPurge ==
    ASSUME ListInv, FilesInv, UNCHANGED keysRest, NEW i \in Purgers, PurgeStep(i) \/ PurgeDies(i)
    PROVE  ListInv'
<1>t. /\ FilesTypes /\ file \in [Files -> FileType] /\ purge[i] \in PassType /\ ExpiryOk(purge[i])
  BY DEF FilesInv, FilesTypes, ListInv
<1>o. ASSUME NEW pc \in {"off", "find", "next"}, NEW x, x = [NoPurge EXCEPT !.pc = pc], PurgeIs(i, x),
             UNCHANGED <<file, deletes, panel, news, unsure>>
      PROVE  ListInv'
  <2>1. x \in PassType /\ x.pc = pc /\ x.list = {}
    BY <1>o DEF NoPurge, PassType
  <2>2. ExpiryOk(x)
    BY <2>1 DEF ExpiryOk
  <2> QED
    BY <1>o, <2>1, <2>2, ListsWhilePurging
<1>1. ASSUME PurgeStart(i) PROVE ListInv'
  BY <1>1, <1>o DEF PurgeStart
<1>2. ASSUME PurgeFind(i) PROVE ListInv'
  <2> DEFINE all == {<<f, file[f].row = "up">> : f \in {g \in Files : Doomed(g)}}
  <2>1. ASSUME NEW y \in all PROVE y \in Files \X BOOLEAN /\ (y[2] => file[y[1]].expired)
    <3>1. PICK f \in Files : Doomed(f) /\ y = <<f, file[f].row = "up">>
      OBVIOUS
    <3>2. file[f].row = "up" => file[f].expired
      BY <3>1 DEF Doomed
    <3>3. PICK b \in BOOLEAN : b = (file[f].row = "up")
      OBVIOUS
    <3>4. y = <<f, b>>
      BY <3>1, <3>3
    <3> QED
      BY <3>2, <3>3, <3>4
  <2>3. PICK list \in SUBSET all : PurgeIs(i, [NoPurge EXCEPT !.pc = "next", !.list = list])
    BY <1>2 DEF PurgeFind, kSubset
  <2> HIDE DEF all
  <2>4. list \in SUBSET (Files \X BOOLEAN) /\ \A y \in list : y[2] => file[y[1]].expired
    BY <2>1
  <2>5. UNCHANGED <<file, deletes, panel, news, unsure>>
    BY <1>2 DEF PurgeFind
  <2> PICK x : x = [NoPurge EXCEPT !.pc = "next", !.list = list]
    OBVIOUS
  <2>6. x \in PassType /\ x.pc = "next" /\ x.list = list
    BY <2>4 DEF NoPurge, PassType
  <2>7. ExpiryOk(x)
    BY <2>4, <2>6 DEF ExpiryOk
  <2> QED
    BY <2>3, <2>5, <2>6, <2>7, ListsWhilePurging
<1>3. ASSUME PurgeObject(i) PROVE ListInv'
  <2>1. PICK x \in purge[i].list :
          LET rest == purge[i].list \ {x} IN
          \/ Works(x[1]) /\ ObjectGone(x[1]) /\ PurgeIs(i, [pc |-> "row", list |-> rest, on |-> x])
          \/ Falters(x[1]) /\ PurgeIs(i, Failed(x, rest)) /\ UNCHANGED <<objects, excused>>
    BY <1>3 DEF PurgeObject
  <2> DEFINE rest == purge[i].list \ {x}
  <2>2. x \in Files \X BOOLEAN /\ x[1] \in Files /\ rest \in SUBSET (Files \X BOOLEAN)
        /\ \A y \in rest \union {x} : y[2] => file[y[1]].expired
    BY <1>t DEF PassType, ExpiryOk
  <2>3. UNCHANGED <<file, deletes, panel, news, unsure>>
    BY <1>3 DEF PurgeObject
  <2>4. ASSUME PurgeIs(i, Failed(x, rest)) PROVE ListInv'
    <3> PICK p : p = Failed(x, rest)
      OBVIOUS
    <3>1. p \in PassType /\ p.pc = "next" /\ p.list = rest
      BY <2>2 DEF Failed, NoPurge, PassType
    <3>2. ExpiryOk(p)
      BY <2>2, <3>1 DEF ExpiryOk
    <3> QED
      BY <2>3, <2>4, <3>1, <3>2, ListsWhilePurging
  <2>5. ASSUME PurgeIs(i, [pc |-> "row", list |-> rest, on |-> x]) PROVE ListInv'
    <3> PICK p : p = [pc |-> "row", list |-> rest, on |-> x]
      OBVIOUS
    <3>1. p \in PassType /\ p.pc = "row" /\ p.list = rest /\ p.on = x
      BY <2>2 DEF PassType
    <3>2. ExpiryOk(p)
      BY <2>2, <3>1 DEF ExpiryOk
    <3> QED
      BY <2>3, <2>5, <3>1, <3>2, ListsWhilePurging
  <2> QED
    BY <2>1, <2>4, <2>5
<1>4. ASSUME PurgeRow(i), ~HasRow(purge[i].on[1]) PROVE ListInv'
  <2>1. PurgeIs(i, [NoPurge EXCEPT !.pc = "next"]) /\ UNCHANGED <<file, deletes, panel, news, unsure>>
    BY <1>4 DEF PurgeRow
  <2> QED
    BY <1>o, <2>1
<1>5. ASSUME PurgeEnd(i) \/ PurgeDies(i) PROVE ListInv'
  <2>1. PurgeIs(i, NoPurge) /\ UNCHANGED <<file, deletes, panel, news, unsure>>
    BY <1>5 DEF PurgeEnd, PurgeDies
  <2>2. NoPurge \in PassType /\ NoPurge.pc = "off" /\ NoPurge.list = {}
    BY DEF NoPurge, PassType
  <2>3. ExpiryOk(NoPurge)
    BY <2>2 DEF ExpiryOk
  <2> QED
    BY <2>1, <2>2, <2>3, ListsWhilePurging
<1> QED
  BY <1>1, <1>2, <1>3, <1>4, <1>5, ListsOncePurged, ListsOncePurgeSpoken DEF PurgeStep

-----------------------------------------------------------------------------
(* The panels.                                                             *)

\* A step of one panel is about its own list and events.
LEMMA ListsOfOneTab ==
    ASSUME ListInv, FilesInv, UNCHANGED keysRest, UNCHANGED <<file, deletes, purge>>,
           NEW t \in Tabs, NEW y \in PanelType, panel' = [panel EXCEPT ![t] = y],
           news' \subseteq news,
           \A u \in Tabs, k \in {"shared", "deleted"}, f \in Files : u # t => (Told(u, k, f)' <=> Told(u, k, f)),
           \A u \in Tabs, f \in Files : <<u, f>> \in unsure => <<u, f>> \in unsure',
           PanelOff(t)', \A f \in Files : SeenOk(t, f)' /\ ViewOk(t, f)'
    PROVE  ListInv'
<1>t. FilesTypes /\ panel \in [Tabs -> PanelType] /\ PanelTypes
  BY DEF FilesInv, ListInv, PanelTypes
<1>u. UNCHANGED <<tab, hook, revoked, channel>>
  BY DEF keysRest
<1>1. panel'[t] = y /\ \A u \in Tabs : u # t => panel'[u] = panel[u]
  BY <1>t
<1>2. PanelTypes'
  BY <1>t, <1>u DEF PanelTypes
<1>3. ASSUME NEW u \in Tabs PROVE TabOk(u)' /\ PanelOff(u)'
  BY <1>u, <1>1 DEF ListInv, TabOk, PanelOff, Mounted
<1>4. ASSUME NEW f \in Files PROVE GoneOk(f)' /\ JobOk(f)'
  <2>1. GoneOk(f) /\ JobOk(f)
    BY DEF ListInv
  <2> QED
    BY <2>1 DEF GoneOk, JobOk, Spoken, Purged, Told
<1>5. ASSUME NEW u \in Tabs, NEW f \in Files, u # t PROVE SeenOk(u, f)' /\ ViewOk(u, f)'
  <2>1. SeenOk(u, f) /\ ViewOk(u, f)
    BY DEF ListInv
  <2>2. /\ panel'[u] = panel[u] /\ (Told(u, "shared", f)' <=> Told(u, "shared", f))
        /\ (Told(u, "deleted", f)' <=> Told(u, "deleted", f)) /\ (Sure(u, f)' => Sure(u, f))
        /\ (Spoken(f)' <=> Spoken(f)) /\ (Shows(u)' <=> Shows(u)) /\ (Signed(u)' <=> Signed(u))
    BY <1>u, <1>1, <1>5 DEF Sure, Spoken, Shows, Signed, Mounted
  <2> QED
    BY <2>1, <2>2 DEF SeenOk, ViewOk, Follows, Announced, Ending
<1>6. \A i \in Purgers : ExpiryOk(purge[i])'
  BY <1>t, PassesAsTheyWere
<1> QED
  BY <1>2, <1>3, <1>4, <1>5, <1>6 DEF ListInv

\* All steps of a panel.
LEMMA ListsHeard ==
    ASSUME ListInv, FilesInv, UNCHANGED keysRest, NEW t \in Tabs, PanelStep(t)
    PROVE  ListInv'
<1>t. FilesTypes /\ panel \in [Tabs -> PanelType] /\ panel[t] \in PanelType /\ PanelTypes /\ PanelOff(t) /\ TabOk(t)
  BY DEF FilesInv, ListInv, PanelTypes
<1>s. UNCHANGED <<tab, hook, revoked, channel>>
  BY DEF keysRest
<1>u. UNCHANGED <<file, deletes, purge>> /\ (Shows(t)' <=> Shows(t)) /\ (Signed(t)' <=> Signed(t)) /\ (Mounted(t)' <=> Mounted(t))
      /\ \A f \in Files : (Spoken(f)' <=> Spoken(f))
  BY <1>s DEF PanelStep, ListRead, ListDone, HearFile, Opened, Shows, Signed, Mounted, Spoken
<1>v. \A f \in Files : SeenOk(t, f) /\ ViewOk(t, f) /\ GoneOk(f)
  BY DEF ListInv
<1>w. panel[t].load # "none" \/ panel[t].opening # {} => Mounted(t)
  BY <1>t DEF PanelOff
<1>1. ASSUME NEW y \in PanelType, panel' = [panel EXCEPT ![t] = y], UNCHANGED <<news, unsure>>,
             Mounted(t), y.opening = panel[t].opening,
             y.shown \subseteq panel[t].shown \union panel[t].got, y.got \subseteq panel[t].got \union Listed,
             \A f \in Files : /\ Shows(t) /\ Signed(t) /\ Sure(t, f) /\ y.load = "none" => Follows(t, f, y.shown)
                              /\ Shows(t) /\ Signed(t) /\ Sure(t, f) /\ y.load = "got" => Follows(t, f, y.got)
      PROVE  ListInv'
  <2>1. panel'[t] = y
    BY <1>t, <1>1
  <2>2. PanelOff(t)'
    BY <1>u, <1>1 DEF PanelOff
  <2>3. ASSUME NEW f \in Files PROVE SeenOk(t, f)' /\ ViewOk(t, f)'
    <3>1. SeenOk(t, f) /\ ViewOk(t, f)
      BY <1>v
    <3>2. /\ (Announced(t, f)' <=> Announced(t, f)) /\ (Ending(t, f)' <=> Ending(t, f)) /\ (Sure(t, f)' <=> Sure(t, f))
      BY <1>u, <1>1, <2>1 DEF Announced, Ending, Told, Sure
    <3>3. SeenOk(t, f)'
      BY <1>u, <1>1, <2>1, <3>1, <3>2 DEF SeenOk, Listed
    <3>4. ViewOk(t, f)'
      BY <1>u, <1>1, <2>1, <3>1, <3>2 DEF ViewOk, Follows
    <3> QED
      BY <3>3, <3>4
  <2>4. \A u \in Tabs, k \in {"shared", "deleted"}, f \in Files : u # t => (Told(u, k, f)' <=> Told(u, k, f))
    BY <1>1 DEF Told
  <2> QED
    BY <1>u, <1>1, <2>2, <2>3, <2>4, ListsOfOneTab
<1>2. ASSUME ListRead(t) PROVE ListInv'
  <2> PICK y : y = IF Signed(t) THEN [panel[t] EXCEPT !.load = "got", !.got = Listed] ELSE [panel[t] EXCEPT !.load = "none"]
    OBVIOUS
  <2>1. panel' = [panel EXCEPT ![t] = y] /\ panel[t].load = "asked" /\ UNCHANGED <<news, unsure>>
    BY <1>2 DEF ListRead
  <2>2. CASE Signed(t)
    <3>1. y = [panel[t] EXCEPT !.load = "got", !.got = Listed]
      BY <2>2
    <3>2. y \in PanelType /\ y.load = "got" /\ y.got = Listed /\ y.shown = panel[t].shown /\ y.opening = panel[t].opening
      <4>1. Listed \in SUBSET Files
        BY DEF Listed
      <4> QED
        BY <1>t, <3>1, <4>1 DEF PanelType
    <3>3. \A f \in Files : Sure(t, f) => Follows(t, f, y.got)
      BY <3>2 DEF Sure, Follows, Listed
    <3> QED
      BY <1>1, <1>w, <2>1, <3>2, <3>3
  <2>3. CASE ~Signed(t)
    <3>1. y = [panel[t] EXCEPT !.load = "none"]
      BY <2>3
    <3>2. y \in PanelType /\ y.load = "none" /\ y.got = panel[t].got /\ y.shown = panel[t].shown /\ y.opening = panel[t].opening
      BY <1>t, <3>1 DEF PanelType
    <3> QED
      BY <1>1, <1>w, <2>1, <2>3, <3>2
  <2> QED
    BY <2>2, <2>3
<1>3. ASSUME ListDone(t) PROVE ListInv'
  <2> PICK y : y = [panel[t] EXCEPT !.load = "none", !.shown = panel[t].got, !.got = {}]
    OBVIOUS
  <2>1. panel' = [panel EXCEPT ![t] = y] /\ panel[t].load = "got" /\ UNCHANGED <<news, unsure>>
    BY <1>3 DEF ListDone
  <2>2. y \in PanelType /\ y.load = "none" /\ y.got = {} /\ y.shown = panel[t].got /\ y.opening = panel[t].opening
    BY <1>t DEF PanelType
  <2>3. \A f \in Files : Shows(t) /\ Signed(t) /\ Sure(t, f) => Follows(t, f, y.shown)
    BY <1>v, <2>1, <2>2 DEF ViewOk
  <2> QED
    BY <1>1, <1>w, <2>1, <2>2, <2>3
<1>4. ASSUME HearFile(t) PROVE ListInv'
  <2> PICK kind \in {"shared", "deleted"}, f \in Files :
        /\ <<t, kind, f>> \in news /\ (kind = "deleted" => <<t, "shared", f>> \notin news)
        /\ news' = news \ {<<t, kind, f>>}
        /\ panel' = IF ~Shows(t) THEN panel
                    ELSE IF kind = "shared" THEN [panel EXCEPT ![t].opening = @ \union {f}]
                    ELSE [panel EXCEPT ![t].shown = @ \ {f}]
        /\ unsure' = IF panel[t].load = "got" \/ f \in panel[t].opening
                     THEN unsure \union {<<t, f>>} ELSE unsure
    BY <1>4 DEF HearFile
  <2>1. /\ \A u \in Tabs, k \in {"shared", "deleted"}, g \in Files :
             u # t \/ k # kind \/ g # f => (Told(u, k, g)' <=> Told(u, k, g))
        /\ Told(t, kind, f) /\ (kind = "deleted" => ~Told(t, "shared", f)) /\ ~Told(t, kind, f)'
    BY DEF Told
  <2>2. \A u \in Tabs, g \in Files : <<u, g>> \in unsure => <<u, g>> \in unsure'
    OBVIOUS
  <2>3. Sure(t, f)' => panel[t].load # "got" /\ f \notin panel[t].opening
    BY DEF Sure
  <2>4. \A g \in Files : Sure(t, g)' => Sure(t, g)
    BY <1>u, <2>2 DEF Sure
  <2>5. PICK y \in PanelType : /\ panel' = [panel EXCEPT ![t] = y] /\ y.load = panel[t].load /\ y.got = panel[t].got
                               /\ y.shown = IF Shows(t) /\ kind = "deleted" THEN panel[t].shown \ {f} ELSE panel[t].shown
                               /\ y.opening = IF Shows(t) /\ kind = "shared" THEN panel[t].opening \union {f} ELSE panel[t].opening
    <3>1. CASE ~Shows(t)
      <4>1. panel' = [panel EXCEPT ![t] = panel[t]]
        BY <1>t, <3>1
      <4> QED
        BY <1>t, <3>1, <4>1
    <3>2. CASE Shows(t) /\ kind = "shared"
      <4> PICK y : y = [panel[t] EXCEPT !.opening = @ \union {f}]
        OBVIOUS
      <4>1. y \in PanelType /\ y.load = panel[t].load /\ y.got = panel[t].got /\ y.shown = panel[t].shown /\ y.opening = panel[t].opening \union {f}
        BY <1>t DEF PanelType
      <4>2. panel' = [panel EXCEPT ![t] = y]
        BY <1>t, <3>2
      <4> QED
        BY <3>2, <4>1, <4>2
    <3>3. CASE Shows(t) /\ kind = "deleted"
      <4> PICK y : y = [panel[t] EXCEPT !.shown = @ \ {f}]
        OBVIOUS
      <4>1. y \in PanelType /\ y.load = panel[t].load /\ y.got = panel[t].got /\ y.shown = panel[t].shown \ {f} /\ y.opening = panel[t].opening
        BY <1>t DEF PanelType
      <4>2. panel' = [panel EXCEPT ![t] = y]
        BY <1>t, <3>3
      <4> QED
        BY <3>3, <4>1, <4>2
    <3> QED
      BY <3>1, <3>2, <3>3
  <2>6. panel'[t] = y
    BY <1>t, <2>5
  <2>7. PanelOff(t)'
    BY <1>t, <1>u, <2>5, <2>6 DEF PanelOff, Shows
  <2>8. ASSUME NEW g \in Files PROVE SeenOk(t, g)' /\ ViewOk(t, g)'
    <3>1. SeenOk(t, g) /\ ViewOk(t, g) /\ GoneOk(f) /\ SeenOk(t, f)
      BY <1>v
    <3>2. Announced(t, g)' => Announced(t, g)
      BY <2>1, <2>5, <2>6 DEF Announced
    <3>3. SeenOk(t, g)'
      BY <1>u, <2>5, <2>6, <3>1, <3>2 DEF SeenOk
    <3>4. CASE g # f
      <4>1. /\ (Announced(t, g)' <=> Announced(t, g)) /\ (Ending(t, g)' <=> Ending(t, g))
            /\ (g \in panel'[t].shown <=> g \in panel[t].shown) /\ (g \in panel'[t].got <=> g \in panel[t].got)
        BY <1>u, <2>1, <2>5, <2>6, <3>4 DEF Announced, Ending
      <4> QED
        BY <1>u, <2>4, <2>5, <2>6, <3>1, <3>3, <4>1 DEF ViewOk, Follows
    <3>5. CASE g = f /\ kind = "shared"
      <4>1. /\ (Ending(t, f)' <=> Ending(t, f)) /\ panel'[t].shown = panel[t].shown
        BY <1>u, <2>1, <2>5, <2>6, <3>5 DEF Ending
      <4>2. Shows(t) => Announced(t, f)'
        BY <2>5, <2>6, <3>5 DEF Announced
      <4> QED
        BY <1>u, <2>4, <2>5, <2>6, <3>1, <3>2, <3>3, <3>5, <4>1, <4>2 DEF ViewOk, Follows
    <3>6. CASE g = f /\ kind = "deleted"
      <4>1. file[f].row = "gone"
        BY <2>1, <3>1, <3>6 DEF GoneOk
      <4>2. Sure(t, f)' => ~Announced(t, f)'
        BY <2>1, <2>3, <2>5, <2>6, <3>6 DEF Announced
      <4>3. Sure(t, f)' /\ Shows(t) => f \notin panel'[t].shown /\ panel'[t].load # "got"
        BY <2>3, <2>5, <2>6, <3>6
      <4> QED
        BY <1>u, <3>3, <3>6, <4>1, <4>2, <4>3 DEF ViewOk, Follows
    <3> QED
      BY <3>4, <3>5, <3>6
  <2>9. UNCHANGED <<file, deletes, purge>> /\ news' \subseteq news
    BY <1>4 DEF HearFile
  <2> QED
    BY <2>1, <2>2, <2>5, <2>7, <2>8, <2>9, ListsOfOneTab
<1>5. ASSUME Opened(t) PROVE ListInv'
  <2> PICK f \in panel[t].opening :
        /\ panel' = [panel EXCEPT ![t].opening = @ \ {f}, ![t].shown = @ \union {f}]
        /\ unsure' = IF panel[t].load = "got" THEN unsure \union {<<t, f>>} ELSE unsure
        /\ UNCHANGED news
    BY <1>5 DEF Opened
  <2>0. f \in Files
    BY <1>t DEF PanelType
  <2> PICK y : y = [panel[t] EXCEPT !.opening = panel[t].opening \ {f}, !.shown = panel[t].shown \union {f}]
    OBVIOUS
  <2>1. y \in PanelType /\ y.load = panel[t].load /\ y.got = panel[t].got /\ y.shown = panel[t].shown \union {f} /\ y.opening = panel[t].opening \ {f}
    BY <1>t, <2>0 DEF PanelType
  <2>2. panel' = [panel EXCEPT ![t] = y] /\ panel'[t] = y
    <3>1. panel' = [panel EXCEPT ![t] = y]
      OBVIOUS
    <3> QED
      BY <1>t, <3>1
  <2>3. \A u \in Tabs, g \in Files : <<u, g>> \in unsure => <<u, g>> \in unsure'
    OBVIOUS
  <2>4. \A u \in Tabs, k \in {"shared", "deleted"}, g \in Files : (Told(u, k, g)' <=> Told(u, k, g))
    BY DEF Told
  <2>5. PanelOff(t)'
    BY <1>t, <1>u, <1>w DEF PanelOff
  <2>6. ASSUME NEW g \in Files PROVE SeenOk(t, g)' /\ ViewOk(t, g)'
    <3>1. SeenOk(t, g) /\ ViewOk(t, g)
      BY <1>v
    <3>2. /\ (Announced(t, g)' => Announced(t, g)) /\ (Ending(t, g)' <=> Ending(t, g)) /\ (Sure(t, g)' => Sure(t, g))
          /\ (g # f => (Announced(t, g)' <=> Announced(t, g)) /\ (g \in panel'[t].shown <=> g \in panel[t].shown))
          /\ Announced(t, f) /\ f \in panel'[t].shown
      BY <1>u, <2>1, <2>2, <2>3, <2>4 DEF Announced, Ending, Sure
    <3>3. SeenOk(t, g)'
      BY <1>u, <2>1, <2>2, <3>1, <3>2 DEF SeenOk
    <3>4. Sure(t, f)' => panel[t].load # "got"
      BY <2>0 DEF Sure
    <3>5. ViewOk(t, g)'
      BY <1>u, <2>1, <2>2, <3>1, <3>2, <3>4 DEF ViewOk, Follows
    <3> QED
      BY <3>3, <3>5
  <2>7. UNCHANGED <<file, deletes, purge>> /\ news' \subseteq news
    BY <1>5 DEF Opened
  <2> QED
    BY <2>1, <2>2, <2>3, <2>4, <2>5, <2>6, <2>7, ListsOfOneTab
<1> QED
  BY <1>2, <1>3, <1>4, <1>5 DEF PanelStep

-----------------------------------------------------------------------------
(* The steps of the tabs.                                                  *)

\* Pages stay with those signed in, and a page that is open never has its session back.
LEMMA TabsStayOk ==
    ASSUME KeysTypes, \A t \in Tabs : TabOk(t), KeysNext
    PROVE  \A t \in Tabs : TabOk(t)' /\ (Mounted(t) /\ Signed(t)' => Signed(t))
<1>t. tab \in [Tabs -> TabType] /\ hook \in [Tabs -> HookType]
  BY DEF KeysTypes
<1>n. ASSUME UNCHANGED <<tab, hook>>, \A t \in Tabs : tab[t].auth /\ t \in revoked => t \in revoked', NEW t \in Tabs
      PROVE  TabOk(t)' /\ (Mounted(t) /\ Signed(t)' => Signed(t))
  BY <1>n DEF TabOk, Mounted, Signed
<1>1. ASSUME NEW u \in Tabs, Unlock(u) \/ Reset(u) \/ UnlockRead(u) \/ UnlockCreate(u) \/ StoreFails(u) \/ Restore(u) \/ ForgetKeys(u)
                             \/ PassRead(u) \/ GrantCheck(u) \/ GrantTarget(u) \/ GrantWrite(u) \/ Hear(u)
      PROVE  UNCHANGED <<tab, hook>> /\ \A t \in Tabs : tab[t].auth /\ t \in revoked => t \in revoked'
  BY <1>1 DEF Unlock, Reset, UnlockRead, UnlockCreate, StoreFails, Restore, ForgetKeys, PassRead, GrantCheck, GrantTarget, GrantWrite, Hear
<1>2. ASSUME NEW r \in Tabs \X Slots, Refused(r) \/ GetRoom(r) \/ GetMember(r) \/ GetCount(r) \/ InitRead(r) \/ InitClaim(r) \/ ClearMine(r)
      PROVE  UNCHANGED <<tab, hook, revoked>>
  BY <1>2 DEF Refused, GetRoom, GetMember, GetCount, InitRead, InitClaim, ClearMine
<1>3. ASSUME UNCHANGED revoked, NEW u \in Tabs, NEW x \in TabType, tab' = [tab EXCEPT ![u] = x], UNCHANGED hook,
             x.page # "away" => x.auth, x.join # "none" => x.page # "away", Mounted(u) => x.page = "in" /\ tab[u].auth, NEW t \in Tabs
      PROVE  TabOk(t)' /\ (Mounted(t) /\ Signed(t)' => Signed(t))
  <2>1. tab'[u] = x /\ \A v \in Tabs : v # u => tab'[v] = tab[v]
    BY <1>t, <1>3
  <2> QED
    BY <1>3, <2>1 DEF TabOk, Mounted, Signed
<1>4. ASSUME NEW u \in Tabs, NEW x \in TabType, tab' = [tab EXCEPT ![u] = x], UNCHANGED revoked, hook' = [hook EXCEPT ![u] = NoHook],
             x.page = "away", x.join = "none", x.auth => tab[u].auth, NEW t \in Tabs
      PROVE  TabOk(t)' /\ (Mounted(t) /\ Signed(t)' => Signed(t))
  <2>1. tab'[u] = x /\ \A v \in Tabs : v # u => tab'[v] = tab[v]
    BY <1>t, <1>4
  <2>2. hook'[u].key = 0 /\ \A v \in Tabs : v # u => hook'[v] = hook[v]
    BY <1>t, <1>4 DEF NoHook
  <2> QED
    BY <1>4, <2>1, <2>2 DEF TabOk, Mounted, Signed
<1>5. ASSUME UNCHANGED <<tab, revoked>>, NEW u \in Tabs, hook'[u].key # hook[u].key => Mounted(u),
             \A v \in Tabs : v # u => hook'[v] = hook[v], NEW t \in Tabs
      PROVE  TabOk(t)' /\ (Mounted(t) /\ Signed(t)' => Signed(t))
  BY <1>5 DEF TabOk, Mounted, Signed
<1>6. ASSUME NEW u \in Tabs, LoggedIn(u), NEW t \in Tabs PROVE TabOk(t)' /\ (Mounted(t) /\ Signed(t)' => Signed(t))
  <2> PICK x : x = [tab[u] EXCEPT !.auth = TRUE]
    OBVIOUS
  <2>1. x \in TabType /\ x.auth /\ x.page = tab[u].page /\ x.join = tab[u].join
    BY <1>t DEF TabType
  <2>2. tab' = [tab EXCEPT ![u] = x] /\ UNCHANGED <<hook, revoked>> /\ ~tab[u].auth
    BY <1>6 DEF LoggedIn
  <2> QED
    BY <1>3, <2>1, <2>2 DEF TabOk, Mounted
<1>7. ASSUME NEW u \in Tabs, Kicked(u), NEW t \in Tabs PROVE TabOk(t)' /\ (Mounted(t) /\ Signed(t)' => Signed(t))
  <2> PICK x : x = [tab[u] EXCEPT !.auth = FALSE, !.page = "away", !.join = "none"]
    OBVIOUS
  <2>1. x \in TabType /\ ~x.auth /\ x.page = "away" /\ x.join = "none"
    BY <1>t DEF TabType
  <2>2. tab' = [tab EXCEPT ![u] = x] /\ hook' = [hook EXCEPT ![u] = NoHook] /\ UNCHANGED revoked
    BY <1>7 DEF Kicked, Unmounted
  <2> QED
    BY <1>4, <2>1, <2>2
<1>8. ASSUME NEW u \in Tabs, Enter(u), NEW t \in Tabs PROVE TabOk(t)' /\ (Mounted(t) /\ Signed(t)' => Signed(t))
  <2> PICK x : x = [tab[u] EXCEPT !.page = "joining", !.join = "admit"]
    OBVIOUS
  <2>1. x \in TabType /\ x.auth = tab[u].auth /\ x.page = "joining" /\ x.join = "admit"
    BY <1>t DEF TabType
  <2>2. tab' = [tab EXCEPT ![u] = x] /\ UNCHANGED <<hook, revoked>> /\ tab[u].auth /\ ~Mounted(u)
    BY <1>8 DEF Enter, Signed, Mounted
  <2> QED
    BY <1>3, <2>1, <2>2
<1>9. ASSUME NEW u \in Tabs, JoinAdmit(u) \/ JoinSeat(u) \/ JoinRecord(u) \/ Reconnect(u) \/ Drop(u), NEW t \in Tabs
      PROVE  TabOk(t)' /\ (Mounted(t) /\ Signed(t)' => Signed(t))
  <2>0. KeysTypes /\ tab[u].page # "away" /\ UNCHANGED <<hook, revoked>>
    BY <1>9 DEF JoinAdmit, JoinSeat, JoinRecord, Reconnect, Drop, TabOk, Mounted
  <2>1. PICK x : /\ tab' = [tab EXCEPT ![u] = x]
                 /\ x \in {[tab[u] EXCEPT !.join = "seat", !.seen = check], [tab[u] EXCEPT !.join = "record"], [tab[u] EXCEPT !.join = "ask"],
                           [tab[u] EXCEPT !.join = "admit"], [tab[u] EXCEPT !.join = "offline"]}
    BY <1>9 DEF JoinAdmit, JoinSeat, JoinRecord, Reconnect, Drop
  <2>2. x \in TabType /\ x.auth = tab[u].auth /\ x.page = tab[u].page
    BY <1>t, <2>0, <2>1 DEF TabType, KeysTypes
  <2>3. tab[u].auth
    BY <2>0 DEF TabOk
  <2> QED
    BY <1>3, <2>0, <2>1, <2>2, <2>3 DEF Mounted
<1>10. ASSUME NEW u \in Tabs, JoinAsk(u), NEW t \in Tabs PROVE TabOk(t)' /\ (Mounted(t) /\ Signed(t)' => Signed(t))
  <2> PICK x : x = [tab[u] EXCEPT !.join = "none", !.page = "in"]
    OBVIOUS
  <2>1. x \in TabType /\ x.auth = tab[u].auth /\ x.page = "in" /\ x.join = "none"
    BY <1>t DEF TabType
  <2>2. tab' = [tab EXCEPT ![u] = x] /\ UNCHANGED revoked /\ tab[u].auth
    BY <1>10 DEF JoinAsk, TabOk
  <2>3. hook' \in {hook, [hook EXCEPT ![u].roster = {PersonOf[v] : v \in channel}]}
    BY <1>10 DEF JoinAsk
  <2>4. \A v \in Tabs : hook'[v].key = hook[v].key
    BY <1>t, <2>3 DEF HookType
  <2>5. tab'[u] = x /\ \A v \in Tabs : v # u => tab'[v] = tab[v]
    BY <1>t, <2>2
  <2> QED
    BY <2>1, <2>2, <2>4, <2>5 DEF TabOk, Mounted, Signed
<1>11. ASSUME NEW u \in Tabs, Leave(u), NEW t \in Tabs PROVE TabOk(t)' /\ (Mounted(t) /\ Signed(t)' => Signed(t))
  <2> PICK x : x = [tab[u] EXCEPT !.page = "away"]
    OBVIOUS
  <2>1. x \in TabType /\ x.auth = tab[u].auth /\ x.page = "away" /\ x.join = tab[u].join
    BY <1>t DEF TabType
  <2>2. tab' = [tab EXCEPT ![u] = x] /\ hook' = [hook EXCEPT ![u] = NoHook] /\ UNCHANGED revoked /\ tab[u].join = "none"
    BY <1>11 DEF Leave, Unmounted
  <2> QED
    BY <1>4, <2>1, <2>2
<1>12. ASSUME NEW u \in Tabs, Roster(u) \/ PassPick(u), NEW t \in Tabs PROVE TabOk(t)' /\ (Mounted(t) /\ Signed(t)' => Signed(t))
  <2>1. UNCHANGED <<tab, revoked>>
    BY <1>12 DEF Roster, PassPick
  <2>2. hook' = hook \/ \E S : hook' = [hook EXCEPT ![u].roster = S] \/ hook' = [hook EXCEPT ![u].skipped = S]
    BY <1>12 DEF Roster, PassPick
  <2>3. \A v \in Tabs : hook'[v].key = hook[v].key
    BY <1>t, <2>2 DEF HookType
  <2> QED
    BY <2>1, <2>3 DEF TabOk, Mounted, Signed
<1>13. ASSUME NEW r \in Tabs \X Slots, Resolved(r), NEW t \in Tabs PROVE TabOk(t)' /\ (Mounted(t) /\ Signed(t)' => Signed(t))
  <2>1. UNCHANGED <<tab, revoked>> /\ r[1] \in Tabs
    BY <1>13 DEF Resolved
  <2>2. (hook' = hook) \/ (Mounted(r[1]) /\ \A v \in Tabs : v # r[1] => hook'[v] = hook[v])
    BY <1>t, <1>13 DEF Resolved
  <2> QED
    BY <1>5, <2>1, <2>2
<1>14. ASSUME NEW t \in Tabs, NEW u \in Tabs, TabStep(u) \/ Unlock(u) \/ Reset(u) \/ Enter(u) \/ Leave(u) \/ Drop(u)
       PROVE  TabOk(t)' /\ (Mounted(t) /\ Signed(t)' => Signed(t))
  BY <1>n, <1>1, <1>6, <1>7, <1>8, <1>9, <1>10, <1>11, <1>12, <1>14 DEF TabStep, StoreStep, JoinStep, GrantStep
<1>15. ASSUME NEW t \in Tabs, NEW r \in Tabs \X Slots, ResolveStep(r) PROVE TabOk(t)' /\ (Mounted(t) /\ Signed(t)' => Signed(t))
  BY <1>n, <1>2, <1>13, <1>15 DEF ResolveStep
<1> QED
  BY <1>14, <1>15 DEF KeysNext

\* What a step of a tab means for the lists.
LEMMA ListsFollow ==
    ASSUME ListInv, FilesInv, KeysInv, KeysNext, FilesFollow
    PROVE  ListInv'
<1> DEFINE out == {f \in Files : file[f].job = "putting" /\ Mounted(UploaderOf[f]) /\ tab'[UploaderOf[f]].page # "in"}
<1> DEFINE again(t) == [panel[t] EXCEPT !.load = IF hook'[t].key # 0 /\ Sharing THEN "asked" ELSE "none", !.got = {}]
<1>t. FilesTypes /\ file \in [Files -> FileType] /\ PanelTypes /\ panel \in [Tabs -> PanelType]
  BY DEF FilesInv, FilesTypes, ListInv, PanelTypes
<1>k. \A t \in Tabs : TabOk(t)' /\ (Mounted(t) /\ Signed(t)' => Signed(t))
  BY TabsStayOk DEF ListInv, KeysInv
<1>c. channel' \subseteq Tabs
  BY KeysTyped DEF KeysTypes
<1>1. file' = [f \in Files |-> IF f \in out THEN [file[f] EXCEPT !.job = "over"] ELSE file[f]]
  BY DEF FilesFollow
<1>2. deletes' = deletes \union {<<f, UploaderOf[f], FALSE, "find">> : f \in out}
  BY DEF FilesFollow
<1>3. UNCHANGED purge /\ news' = {x \in news : x[1] \in channel'}
      /\ unsure' = {x \in unsure \union {<<y[1], y[3]>> : y \in news \ news'} : tab'[x[1]].page = "in" \/ x[1] \in channel'}
  BY DEF FilesFollow
<1>4. \A t \in Tabs : panel'[t] = IF ~Mounted(t)' THEN NoPanel
                                  ELSE IF ~NewKey(t) THEN panel[t] ELSE again(t)
  BY DEF FilesFollow, Mounted
<1>g. ASSUME NEW t \in Tabs
      PROVE  /\ again(t) \in PanelType /\ again(t).shown = panel[t].shown /\ again(t).got = {} /\ again(t).opening = panel[t].opening
             /\ again(t).load = IF hook'[t].key # 0 /\ Sharing THEN "asked" ELSE "none"
  BY <1>t DEF PanelType
<1> HIDE DEF out, again
<1>5. \A f \in Files : /\ file'[f].row = file[f].row /\ file'[f].complete = file[f].complete
                       /\ file'[f].expired = file[f].expired /\ file'[f].job \in {file[f].job, "over"}
  BY <1>t, <1>1 DEF FileType
<1>6. \A f \in Files : (Spoken(f)' <=> Spoken(f)) /\ (Purged(f)' <=> Purged(f))
  <2>1. ASSUME NEW d \in deletes' PROVE d \in deletes \/ d[4] # "emit"
    <3>1. ASSUME NEW f \in out, d = <<f, UploaderOf[f], FALSE, "find">> PROVE d[4] # "emit"
      BY <3>1
    <3> QED
      BY <1>2, <3>1
  <2>2. \A d \in deletes : d \in deletes'
    BY <1>2
  <2> QED
    BY <1>3, <2>1, <2>2, SpokenKept DEF Purged
<1>7. \A t \in Tabs : /\ panel'[t] \in PanelType
                      /\ panel'[t].shown \subseteq panel[t].shown /\ panel'[t].got \subseteq panel[t].got
                      /\ panel'[t].opening \subseteq panel[t].opening
                      /\ Mounted(t)' => panel'[t].opening = panel[t].opening
                      /\ ~Mounted(t)' => panel'[t] = NoPanel
  <2>1. NoPanel \in PanelType /\ NoPanel.shown = {} /\ NoPanel.got = {} /\ NoPanel.opening = {}
    BY DEF NoPanel, PanelType
  <2>3. ASSUME NEW t \in Tabs, ~Mounted(t)' PROVE panel'[t] = NoPanel
    BY <1>4, <2>3
  <2>4. ASSUME NEW t \in Tabs, Mounted(t)' PROVE panel'[t] = panel[t] \/ panel'[t] = again(t)
    BY <1>4, <2>4
  <2> QED
    BY <1>t, <1>g, <2>1, <2>3, <2>4
<1>8. PanelTypes'
  <2>1. panel' \in [Tabs -> PanelType]
    BY <1>7 DEF FilesFollow
  <2>2. news' \subseteq channel' \X {"shared", "deleted"} \X Files
    BY <1>t, <1>3 DEF PanelTypes
  <2> QED
    BY <2>1, <2>2 DEF PanelTypes
<1>9. ASSUME NEW t \in Tabs PROVE TabOk(t)' /\ PanelOff(t)'
  <2>1. TabOk(t)'
    BY <1>k
  <2>2. PanelOff(t)'
    BY <1>7 DEF PanelOff, NoPanel
  <2> QED
    BY <2>1, <2>2
<1>10. \A t \in Tabs, k \in {"shared", "deleted"}, f \in Files : Told(t, k, f)' <=> Told(t, k, f) /\ t \in channel'
  BY <1>3 DEF Told
<1>11. ASSUME NEW f \in Files PROVE GoneOk(f)' /\ JobOk(f)'
  <2>1. GoneOk(f) /\ JobOk(f)
    BY DEF ListInv
  <2> QED
    BY <1>5, <1>6, <1>10, <2>1 DEF GoneOk, JobOk
<1>12. \A t \in Tabs, f \in Files : Announced(t, f)' => Announced(t, f)
  BY <1>7, <1>10 DEF Announced
<1>13. \A t \in Tabs, f \in Files : SeenOk(t, f)'
  BY <1>5, <1>7, <1>12 DEF ListInv, SeenOk
<1>14. ASSUME NEW t \in Tabs, NEW f \in Files, Sure(t, f)', Mounted(t)' \/ t \in channel'
       PROVE  Sure(t, f) /\ \A k \in {"shared", "deleted"} : Told(t, k, f)' <=> Told(t, k, f)
  <2>1. <<t, f>> \notin unsure'
    BY <1>14 DEF Sure
  <2>2. <<t, f>> \notin unsure \union {<<y[1], y[3]>> : y \in news \ news'}
    <3>1. PICK x : x = <<t, f>>
      OBVIOUS
    <3>2. x[1] = t
      BY <3>1
    <3> QED
      BY <1>3, <1>14, <2>1, <3>1, <3>2 DEF Mounted
  <2>3. ASSUME NEW k \in {"shared", "deleted"}, Told(t, k, f) PROVE Told(t, k, f)'
    <3>1. PICK y : y = <<t, k, f>>
      OBVIOUS
    <3>2. y \in news /\ y[1] = t /\ y[3] = f
      BY <2>3, <3>1 DEF Told
    <3>3. y \in news'
      BY <2>2, <3>2
    <3> QED
      BY <3>1, <3>3 DEF Told
  <2> QED
    BY <1>5, <1>10, <1>14, <2>2, <2>3 DEF Sure
<1>15. ASSUME NEW t \in Tabs, NEW f \in Files PROVE ViewOk(t, f)'
  <2>1. ViewOk(t, f) /\ TabOk(t)
    BY DEF ListInv
  <2>2. CASE ~Mounted(t)' /\ t \notin channel'
    <3>1. ~Shows(t)'
      BY <2>2 DEF Shows
    <3>2. ~Announced(t, f)'
      BY <1>7, <1>10, <2>2 DEF Announced, NoPanel
    <3> QED
      BY <3>1, <3>2 DEF ViewOk
  <2>3. CASE Mounted(t)' \/ t \in channel'
    <3> SUFFICES ASSUME Sure(t, f)'
                 PROVE  /\ Shows(t)' /\ Signed(t)' /\ panel'[t].load = "none" => Follows(t, f, panel[t].shown)'
                        /\ Shows(t)' /\ Signed(t)' /\ panel'[t].load = "got" => Follows(t, f, panel[t].got)'
                        /\ Announced(t, f)' /\ file'[f].row = "gone" => Ending(t, f)'
      BY DEF ViewOk
    <3>1. Sure(t, f) /\ \A k \in {"shared", "deleted"} : Told(t, k, f)' <=> Told(t, k, f)
      BY <1>14, <2>3
    <3>2. Ending(t, f)' <=> Ending(t, f)
      BY <1>6, <3>1 DEF Ending
    <3>3. Announced(t, f)' /\ file'[f].row = "gone" => Ending(t, f)'
      BY <1>5, <1>12, <2>1, <3>1, <3>2 DEF ViewOk
    <3>4. ASSUME Shows(t)', Signed(t)', panel'[t].load # "asked"
          PROVE  /\ panel'[t].load = "none" => Follows(t, f, panel[t].shown)'
                 /\ panel'[t].load = "got" => Follows(t, f, panel[t].got)'
      <4>1. Mounted(t)' /\ hook'[t].key # 0
        BY <3>4 DEF Shows
      <4>2. Announced(t, f)' <=> Announced(t, f)
        BY <1>7, <3>1, <4>1 DEF Announced
      <4>3. CASE ~NewKey(t)
        <5>0. hook'[t].key = hook[t].key
          BY <4>3 DEF NewKey
        <5>1. Mounted(t)
          BY <2>1, <4>1, <5>0 DEF TabOk
        <5>2. Shows(t) /\ Signed(t)
          BY <1>k, <3>4, <4>1, <5>0, <5>1 DEF Shows
        <5>3. panel'[t] = panel[t]
          BY <1>4, <4>1, <4>3
        <5> QED
          BY <1>5, <2>1, <3>1, <3>2, <4>2, <5>2, <5>3 DEF ViewOk, Follows
      <4>4. CASE NewKey(t)
        <5>1. ~Sharing
          BY <1>4, <1>g, <3>4, <4>1, <4>4
        <5>2. file[f].row = "none"
          BY <5>1 DEF Sharing, NoFile
        <5> QED
          BY <1>5, <5>2 DEF Follows
      <4> QED
        BY <4>3, <4>4
    <3> QED
      BY <3>3, <3>4
  <2> QED
    BY <2>2, <2>3
<1>16. \A i \in Purgers : ExpiryOk(purge[i])'
  BY <1>t, <1>3, <1>5, PassesAsTheyWere
<1> QED
  BY <1>8, <1>9, <1>11, <1>13, <1>15, <1>16 DEF ListInv

-----------------------------------------------------------------------------
\* Steps that touch nothing a list is about.
LEMMA ListsUntouched ==
    ASSUME ListInv, FilesInv, UNCHANGED <<file, deletes, panel, news, unsure, purge, tab, hook, revoked, channel>>
    PROVE  ListInv'
<1>1. \A f \in Files : (Spoken(f)' <=> Spoken(f)) /\ (Purged(f)' => Purged(f)) /\ JobOk(f)
  BY DEF Spoken, Purged, ListInv
<1>2. FilesTypes /\ \A i \in Purgers : ExpiryOk(purge[i])'
  BY PassesAsTheyWere DEF FilesInv
<1>3. ASSUME NEW f \in Files
      PROVE  /\ file'[f].row = file[f].row \/ (file[f].row = "none" /\ file'[f].row = "new")
             /\ file[f].expired => file'[f].expired
             /\ (file'[f].complete = "emit") = (file[f].complete = "emit")
             /\ file'[f].complete = "ok" => file[f].complete = "ok"
             /\ file'[f].job \in {"none", "creating", "putting"} => file'[f].complete = "none"
  BY <1>1 DEF JobOk
<1> QED
  BY <1>1, <1>2, <1>3, ListsKept

\* No step leaves a list behind unexplained.
LEMMA ListsStep ==
    ASSUME ListInv, FilesInv, KeysInv, [Next]_contentVars
    PROVE  ListInv'
<1>1. ASSUME FilesNext, UNCHANGED keysRest PROVE ListInv'
  <2>1. ASSUME NEW f \in Files, Upload(f) \/ Abort(f) \/ LoseAnswer(f) \/ UploadStep(f) \/ HourPasses(f) \/ WeekPasses(f)
        PROVE  ListInv'
    BY <1>1, <2>1, ListsWhileUploaded, ListsOnceComplete, ListsOnceAnnounced, ListsOnceAnswered DEF UploadStep
  <2>2. ASSUME NEW f \in Files, DeleteStep(f) \/ \E t \in Tabs : RemoveFile(t, f)
        PROVE  ListInv'
    <3>1. ASSUME NEW d \in deletes, DeleteRow(d) PROVE ListInv'
      BY <1>1, <3>1, ListsBeforeDeleted, ListsOnceDeleted
    <3>2. ASSUME NEW d \in deletes, DeleteEmit(d) PROVE ListInv'
      BY <1>1, <3>2, ListsOnceRequestSpoken
    <3> QED
      BY <1>1, <2>2, <3>1, <3>2, ListsBeforeDeleted DEF DeleteStep
  <2>3. ASSUME LockExpires PROVE ListInv'
    BY <1>1, <2>3, ListsUntouched DEF LockExpires, keysRest
  <2> QED
    BY <1>1, <2>1, <2>2, <2>3, ListsThroughPurge, ListsHeard DEF FilesNext
<1>2. ASSUME KeysNext, Follow PROVE ListInv'
  BY <1>2, ListsFollow DEF Follow
<1>4. ASSUME UNCHANGED <<keysRest, filesVars>> PROVE ListInv'
  BY <1>4, ListsUntouched DEF keysRest, filesVars
<1>5. ASSUME UNCHANGED contentVars PROVE ListInv'
  BY <1>5, ListsUntouched DEF contentVars, keysVars, filesVars
<1> QED
  BY <1>1, <1>2, <1>4, <1>5 DEF Next

\* At the start a page that is open shows what is stored.
LEMMA ListsStart ==
    ASSUME Init
    PROVE  ListInv
<1>1. PICK s \in Scripts :
        /\ file = [f \in Files |-> IF f \in s.stored THEN [NoFile EXCEPT !.row = "up", !.job = "over"] ELSE NoFile]
        /\ panel = [t \in Tabs |-> IF Mounted(t) THEN [NoPanel EXCEPT !.shown = s.stored] ELSE NoPanel]
  BY DEF Init, FilesInit
<1>2. deletes = {} /\ purge = [i \in Purgers |-> NoPurge] /\ news = {} /\ unsure = {}
  BY DEF Init, FilesInit
<1>3. ASSUME NEW t \in Tabs PROVE TabOk(t)
  <2>1. PICK c \in Scripts :
          /\ tab = [u \in Tabs |-> [auth |-> u \in c.signedIn, join |-> "none", seen |-> 0,
                                    page |-> IF u \in c.inCall THEN "in" ELSE "away"]]
          /\ hook = [u \in Tabs |-> IF u \in c.inCall
                       THEN [NoHook EXCEPT !.status = "ready", !.key = 1, !.roster = {PersonOf[v] : v \in c.inCall}]
                       ELSE NoHook]
    BY DEF Init, KeysInit
  <2>2. t \in c.inCall => t \in c.signedIn
    BY ScriptsAssumption
  <2>3. /\ tab[t].auth = (t \in c.signedIn) /\ tab[t].join = "none"
        /\ tab[t].page = IF t \in c.inCall THEN "in" ELSE "away"
    BY <2>1
  <2>4. t \notin c.inCall => hook[t].key = 0
    BY <2>1 DEF NoHook
  <2> QED
    BY <2>2, <2>3, <2>4 DEF TabOk, Mounted
<1>4. ASSUME NEW f \in Files
      PROVE  /\ file[f].row = IF f \in s.stored THEN "up" ELSE "none"
             /\ file[f].complete = "none"
  BY <1>1 DEF NoFile
<1>5. ASSUME NEW t \in Tabs
      PROVE  /\ panel[t] \in PanelType
             /\ panel[t].shown = (IF Mounted(t) THEN s.stored ELSE {})
             /\ panel[t].got = {} /\ panel[t].opening = {} /\ panel[t].load = "none"
  <2>1. s.stored \subseteq Files
    BY FilesAssumption
  <2> DEFINE x == [NoPanel EXCEPT !.shown = s.stored]
  <2>2. NoPanel \in PanelType /\ NoPanel.shown = {} /\ NoPanel.got = {} /\ NoPanel.opening = {} /\ NoPanel.load = "none"
    BY DEF NoPanel, PanelType
  <2>3. x \in PanelType /\ x.shown = s.stored /\ x.got = {} /\ x.opening = {} /\ x.load = "none"
    BY <2>1 DEF NoPanel, PanelType
  <2>4. panel[t] = IF Mounted(t) THEN x ELSE NoPanel
    BY <1>1
  <2> HIDE DEF x
  <2> QED
    BY <2>2, <2>3, <2>4
<1>6. PanelTypes
  <2>1. panel \in [Tabs -> PanelType]
    BY <1>1, <1>5
  <2> QED
    BY <1>2, <2>1 DEF PanelTypes
<1>7. ASSUME NEW i \in Purgers PROVE ExpiryOk(purge[i]) /\ purge[i].pc = "off"
  BY <1>2 DEF ExpiryOk, NoPurge
<1>8. ASSUME NEW f \in Files PROVE GoneOk(f) /\ JobOk(f)
  BY <1>2, <1>4, <1>7 DEF GoneOk, JobOk, Spoken, Purged, Told
<1>9. ASSUME NEW t \in Tabs, NEW f \in Files PROVE SeenOk(t, f) /\ ViewOk(t, f)
  BY <1>2, <1>4, <1>5 DEF SeenOk, ViewOk, Follows, Announced, Told, Shows
<1>10. ASSUME NEW t \in Tabs PROVE PanelOff(t)
  BY <1>5 DEF PanelOff
<1> QED
  BY <1>3, <1>6, <1>7, <1>8, <1>9, <1>10 DEF ListInv

\* Outside the moments named, a tab in the call with the key shows exactly the
\* files that are there, however uploads, deletions, the purge, lists being read
\* and tabs that come and go meet.
THEOREM ListsAreLive == Spec => []ListTrue
<1>1. Init => KeysInv /\ FilesInv /\ ListInv
  BY KeysStart, FilesStart, ListsStart DEF Init
<1>2. KeysInv /\ FilesInv /\ ListInv /\ [Next]_contentVars => (KeysInv /\ FilesInv /\ ListInv)'
  BY KeysStep, FilesStep, ListsStep
<1>3. KeysInv /\ FilesInv /\ ListInv => ListTrue
  <2>1. ASSUME FilesInv, ListInv, NEW t \in Tabs, NEW f \in Files, FilesRest(t, f), <<t, f>> \notin unsure, ~file[f].expired
        PROVE  f \in panel[t].shown <=> file[f].row = "up"
    <3>1. SeenOk(t, f) /\ ViewOk(t, f)
      BY <2>1 DEF ListInv
    <3>2. ~Announced(t, f) /\ ~Ending(t, f) /\ file[f].complete # "emit"
      <4>1. ASSUME NEW k, Told(t, k, f) PROVE FALSE
        <5>1. PICK x : x = <<t, k, f>>
          OBVIOUS
        <5>2. x \in news /\ x[1] = t /\ x[3] = f
          BY <4>1, <5>1 DEF Told
        <5> QED
          BY <2>1, <5>2 DEF FilesRest
      <4> QED
        BY <2>1, <4>1 DEF FilesRest, Announced, Ending, Spoken
    <3>3. Follows(t, f, panel[t].shown)
      BY <2>1, <3>1 DEF ViewOk, Sure, FilesRest
    <3> QED
      BY <3>1, <3>2, <3>3 DEF Follows, SeenOk
  <2> QED
    BY <2>1 DEF ListTrue
<1> QED
  BY <1>1, <1>2, <1>3, PTL DEF Spec

-----------------------------------------------------------------------------
(* Invariant of the chat.                                                  *)

\* The values of the chat.
SendSteps   == {"none", "sent", "find", "create", "emit", "ok", "error", "lost"}
HistoryType == [pc : {"none", "asked", "got"}, got : SUBSET Messages, more : BOOLEAN]
ChatType == [entry : [Messages -> {"none", "sending", "sent", "failed"}], once : BOOLEAN, more : BOOLEAN,
             load : HistoryType, older : HistoryType]
SendType == [n : 0 .. Tries, wait : BOOLEAN, cut : 0 .. Tries, at : [1 .. Tries -> SendSteps]]

\* Type correctness of the part of the state that is about the chat: no message
\* is stored twice, and only stored ones are told.
ChatTypes ==
  /\ rows \in Seq(Messages) /\ IsInjective(rows)
  /\ chat \in [Tabs -> ChatType]
  /\ live \subseteq channel \X Posted
  /\ sends \in [Messages -> SendType]
  /\ missed \in [Tabs -> SUBSET Messages]
  /\ gaps \subseteq Tabs

\* An attempt that is being told is of a stored message; one whose answer is
\* awaited shows; what shows as sending or failed was sent.
SendOk(m) ==
  /\ \A i \in 1 .. Tries : /\ i > sends[m].n => sends[m].at[i] = "none"
                           /\ sends[m].at[i] = "emit" => m \in Posted
  /\ sends[m].wait => sends[m].n # 0 /\ Mounted(SenderOf[m]) /\ chat[SenderOf[m]].entry[m] # "none"
  /\ sends[m].n = 0 => chat[SenderOf[m]].entry[m] \in {"none", "sent"}

\* A tab in the channel is joining or has joined, and one that joins is there
\* once it has its seat.
SeatOk(t) ==
  /\ t \in channel => tab[t].page # "away"
  /\ tab[t].page = "joining" /\ tab[t].join \in {"record", "ask"} => t \in channel

\* What is read and missed is stored; what is not shown holds nothing.
HistoryOk(t) ==
  /\ missed[t] \union chat[t].load.got \union chat[t].older.got \subseteq Posted
  /\ chat[t].load.pc # "got" => chat[t].load.got = {}
  /\ chat[t].older.pc # "got" => chat[t].older.got = {}
  /\ chat[t].more \/ chat[t].older.pc = "got" => chat[t].once
  /\ ~Mounted(t) => chat[t] = NoChat

\* A message of the tab's own that is on its way shows.
Underway(m) == \E i \in 1 .. Tries : sends[m].at[i] \in {"sent", "find", "create", "emit"}
OwnOk(t) ==
  \A m \in Messages : SenderOf[m] = t /\ Underway(m) =>
    tab[t].page # "joining" /\ (Mounted(t) => chat[t].entry[m] # "none")

\* What was stored after a message the tab knows it knows, too; all of it once it
\* says that there is no more; and what it is told without being there it has.
Had(t) == Shown(t) \union chat[t].load.got \union chat[t].older.got \union missed[t]
Final(x) == x.pc = "got" /\ ~x.more
WholeOk(t) ==
  /\ After(Known(t)) \subseteq Known(t)
  /\ Mounted(t) /\ ((chat[t].once /\ ~chat[t].more) \/ Final(chat[t].load) \/ Final(chat[t].older))
       => Posted \subseteq Known(t)
  /\ t \notin channel => Coming(t) \subseteq Had(t)

\* Once the history is read, nothing is missed that is within a page.
ReadOk(t) ==
  Mounted(t) /\ Signed(t) /\ hook[t].key # 0 /\ chat[t].load.pc # "asked" =>
    /\ t \in channel /\ tab[t].join = "none" /\ missed[t] \subseteq LastPage.got => missed[t] = {}
    /\ chat[t].once \/ chat[t].load.pc = "got" \/ ~Chatting

\* What the invariant says of a tab.
ChatOk(t) ==
  /\ SeatOk(t) /\ HistoryOk(t) /\ ReadOk(t)
  /\ t \notin gaps => OwnOk(t) /\ (Present(t) => WholeOk(t))

\* The inductive invariant of the chat.
ChatInv ==
  /\ ChatTypes
  /\ \A m \in Messages : SendOk(m)
  /\ \A t \in Tabs : ChatOk(t)

-----------------------------------------------------------------------------
(* Messages, pages and attempts.                                           *)

\* What was stored after either of two sets, and after a larger one.
LEMMA AfterBoth ==
    ASSUME NEW S, NEW T
    PROVE  After(S \union T) = After(S) \union After(T) /\ (S \subseteq T => After(S) \subseteq After(T))
BY DEF After

\* What was stored after messages of which some were stored after others.
LEMMA AfterAfter ==
    ASSUME rows \in Seq(Messages), IsInjective(rows), NEW S
    PROVE  After(S \union After(S)) = After(S) /\ After(S) \subseteq Posted
<1>1. After(S) \subseteq Posted
  BY DEF After, Posted, ToSet
<1>2. ASSUME NEW x \in After(After(S)) PROVE x \in After(S)
  <2>1. PICK j \in DOMAIN rows : x = rows[j] /\ \E i \in 1 .. j - 1 : rows[i] \in After(S)
    BY <1>2 DEF After
  <2>2. PICK i \in 1 .. j - 1 : rows[i] \in After(S)
    BY <2>1
  <2>3. PICK k \in DOMAIN rows : rows[i] = rows[k] /\ \E l \in 1 .. k - 1 : rows[l] \in S
    BY <2>2 DEF After
  <2>4. i = k
    BY <2>1, <2>2, <2>3 DEF IsInjective
  <2>5. \E l \in 1 .. j - 1 : rows[l] \in S
    BY <2>1, <2>2, <2>3, <2>4
  <2> QED
    BY <2>1, <2>5 DEF After
<1>3. After(S \union After(S)) = After(S) \union After(After(S))
  BY AfterBoth
<1> QED
  BY <1>1, <1>2, <1>3

\* A page holds what precedes its end; whatever was stored after one of it is of
\* the page or at its end or later; nothing precedes it if there is no more.
LEMMA PageIs ==
    ASSUME rows \in Seq(Messages), IsInjective(rows), NEW i \in 1 .. Len(rows) + 1
    PROVE  /\ PageBefore(i) \in HistoryType /\ PageBefore(i).pc = "got" /\ PageBefore(i).got \subseteq Posted
           /\ \A x \in After(PageBefore(i).got) : x \in PageBefore(i).got \/ \E j \in i .. Len(rows) : x = rows[j]
           /\ ~PageBefore(i).more => \A k \in 1 .. i - 1 : rows[k] \in PageBefore(i).got
<1> DEFINE got == {rows[k] : k \in DOMAIN rows \cap (i - Page .. i - 1)}
<1>1. PageBefore(i) = [pc |-> "got", got |-> got, more |-> i - 1 > Page]
  BY DEF PageBefore
<1>2. got \subseteq Posted /\ got \subseteq Messages
  BY DEF Posted, ToSet
<1>3. ASSUME NEW x \in After(got) PROVE x \in got \/ \E j \in i .. Len(rows) : x = rows[j]
  <2>1. PICK j \in DOMAIN rows : x = rows[j] /\ \E h \in 1 .. j - 1 : rows[h] \in got
    BY <1>3 DEF After
  <2>2. PICK h \in 1 .. j - 1 : rows[h] \in got
    BY <2>1
  <2>3. h \in i - Page .. i - 1
    BY <2>1, <2>2 DEF IsInjective
  <2>4. CASE j \in i .. Len(rows)
    BY <2>1, <2>4
  <2>5. CASE j \notin i .. Len(rows)
    <3>1. j \in DOMAIN rows \cap (i - Page .. i - 1)
      BY <2>3, <2>5, ChatAssumption
    <3> QED
      BY <2>1, <3>1
  <2> QED
    BY <2>4, <2>5
<1>4. ASSUME ~(i - 1 > Page), NEW k \in 1 .. i - 1 PROVE rows[k] \in got
  BY <1>4, ChatAssumption
<1>5. PageBefore(i) \in HistoryType
  BY <1>1, <1>2 DEF HistoryType
<1>6. ~PageBefore(i).more => ~(i - 1 > Page)
  <2>1. CASE i - 1 > Page
    <3>1. (i - 1 > Page) = TRUE
      BY <2>1
    <3>2. PageBefore(i) = [pc |-> "got", got |-> got, more |-> TRUE]
      BY <1>1, <3>1, Zenon
    <3> QED
      BY <3>2
  <2> QED
    BY <2>1
<1>7. PageBefore(i).got = got /\ PageBefore(i).pc = "got"
  BY <1>1
<1> HIDE DEF got
<1> QED
  BY <1>2, <1>3, <1>4, <1>5, <1>6, <1>7

\* The last page: nothing comes after it.
LEMMA LastPageIs ==
    ASSUME rows \in Seq(Messages), IsInjective(rows)
    PROVE  /\ LastPage \in HistoryType /\ LastPage.pc = "got" /\ LastPage.got \subseteq Posted
           /\ After(LastPage.got) \subseteq LastPage.got
           /\ ~LastPage.more => Posted \subseteq LastPage.got
<1>1. Len(rows) + 1 \in 1 .. Len(rows) + 1 /\ Len(rows) \in Nat
  OBVIOUS
<1> QED
  BY <1>1, PageIs DEF LastPage, Posted, ToSet

\* What is merged shows as sent.
LEMMA MergedIs ==
    ASSUME NEW c \in ChatType, NEW S \in SUBSET Messages
    PROVE  /\ Merged(c, S) \in ChatType
           /\ \A m \in Messages : Merged(c, S).entry[m] = IF m \in S THEN "sent" ELSE c.entry[m]
           /\ Merged(c, S).once = c.once /\ Merged(c, S).more = c.more
           /\ Merged(c, S).load = c.load /\ Merged(c, S).older = c.older
BY DEF Merged, ChatType

\* One attempt moves, the others stay where they are.
LEMMA AtIs ==
    ASSUME sends \in [Messages -> SendType], NEW m \in Messages, NEW i \in 1 .. Tries, NEW how \in SendSteps, At(m, i, how)
    PROVE  /\ sends' \in [Messages -> SendType]
           /\ \A x \in Messages : /\ sends'[x].n = sends[x].n /\ sends'[x].wait = sends[x].wait /\ sends'[x].cut = sends[x].cut
                                  /\ \A j \in 1 .. Tries : sends'[x].at[j] = IF x = m /\ j = i THEN how ELSE sends[x].at[j]
BY DEF At, SendType

-----------------------------------------------------------------------------
(* Steps of the chat of one tab.                                           *)

\* What the panels share stays as it is.
Undisturbed == UNCHANGED <<tab, hook, channel, revoked>>

\* What was stored after what the tab knows, when it knows the same.
LEMMA AfterKept ==
    ASSUME NEW t, UNCHANGED rows, Known(t)' = Known(t)
    PROVE  After(Known(t))' = After(Known(t))
BY DEF After

\* A tab of which nothing changes.
LEMMA ChatElsewhere ==
    ASSUME NEW t \in Tabs, ChatOk(t), Undisturbed, UNCHANGED rows, chat'[t] = chat[t], missed'[t] = missed[t],
           Coming(t)' = Coming(t), t \in gaps => t \in gaps', ~Chatting => ~Chatting',
           \A m \in Messages : SenderOf[m] = t /\ Underway(m)' => Underway(m)
    PROVE  ChatOk(t)'
<1>1. Shown(t)' = Shown(t) /\ Had(t)' = Had(t) /\ Known(t)' = Known(t) /\ Posted' = Posted /\ LastPage' = LastPage
  BY DEF Shown, Had, Known, Posted, LastPage, PageBefore
<1>2. After(Known(t))' = After(Known(t))
  BY <1>1, AfterKept
<1>3. (Mounted(t)' <=> Mounted(t)) /\ (Signed(t)' <=> Signed(t)) /\ (Present(t)' <=> Present(t)) /\ UNCHANGED <<tab, hook, channel>>
  BY DEF Undisturbed, Mounted, Signed, Present
<1>4. SeatOk(t)' /\ HistoryOk(t)' /\ ReadOk(t)'
  BY <1>1, <1>3 DEF ChatOk, SeatOk, HistoryOk, ReadOk
<1>5. OwnOk(t) => OwnOk(t)'
  BY <1>3 DEF OwnOk
<1>6. WholeOk(t) => WholeOk(t)'
  BY <1>1, <1>2, <1>3 DEF WholeOk
<1> QED
  BY <1>3, <1>4, <1>5, <1>6 DEF ChatOk

\* One tab's chat changes, and it shows what it showed: the invariant is kept if
\* what it says of that tab is.
LEMMA ChatOfOneTab ==
    ASSUME ChatInv, Undisturbed, NEW t \in Tabs, NEW c \in ChatType, UNCHANGED <<rows, sends, gaps>>, todo' \subseteq todo,
           chat' = [chat EXCEPT ![t] = c], missed' \in [Tabs -> SUBSET Messages],
           live' \subseteq live, \A u \in Tabs : u # t => missed'[u] = missed[u] /\ \A m \in Messages : <<u, m>> \in live => <<u, m>> \in live',
           \A m \in Messages : c.entry[m] \in {chat[t].entry[m], "sent"},
           HistoryOk(t)', ReadOk(t)', t \notin gaps /\ Present(t) => WholeOk(t)'
    PROVE  ChatInv'
<1>t. ChatTypes /\ chat \in [Tabs -> ChatType]
  BY DEF ChatInv, ChatTypes
<1>1. chat' \in [Tabs -> ChatType] /\ chat'[t] = c /\ \A u \in Tabs : u # t => chat'[u] = chat[u]
  BY <1>t
<1>2. Posted' = Posted /\ ChatTypes'
  BY <1>t, <1>1 DEF ChatTypes, Posted, Undisturbed
<1>3. \A u \in Tabs : (Mounted(u)' <=> Mounted(u)) /\ (Present(u)' <=> Present(u))
  BY DEF Mounted, Present, Undisturbed
<1>4. ASSUME NEW m \in Messages PROVE SendOk(m)'
  <2>1. SendOk(m) /\ SenderOf[m] \in Tabs
    BY ChatAssumption DEF ChatInv
  <2> QED
    BY <1>1, <1>2, <1>3, <2>1 DEF SendOk
<1>5. ASSUME NEW u \in Tabs, u # t PROVE ChatOk(u)'
  <2>1. Coming(u)' = Coming(u)
    <3>1. \A m \in Messages : Emitting(m)' <=> Emitting(m)
      BY DEF Emitting
    <3>2. \A m \in Messages : <<u, m>> \in live' <=> <<u, m>> \in live
      BY <1>5
    <3>3. Posted \subseteq Messages
      BY <1>t DEF ChatTypes, Posted, ToSet
    <3> QED
      BY <1>2, <3>1, <3>2, <3>3 DEF Coming
  <2>2. ~Chatting => ~Chatting'
    BY DEF Chatting
  <2>3. \A m \in Messages : Underway(m)' <=> Underway(m)
    BY DEF Underway
  <2> QED
    BY <1>1, <1>5, <2>1, <2>2, <2>3, ChatElsewhere DEF ChatInv
<1>6. ChatOk(t)'
  <2>1. ChatOk(t)
    BY DEF ChatInv
  <2>2. SeatOk(t)'
    BY <2>1 DEF ChatOk, SeatOk, Undisturbed
  <2>3. ASSUME OwnOk(t) PROVE OwnOk(t)'
    BY <1>1, <1>3, <2>3 DEF OwnOk, Underway, Undisturbed
  <2> QED
    BY <1>3, <2>1, <2>2, <2>3 DEF ChatOk
<1> QED
  BY <1>2, <1>4, <1>5, <1>6 DEF ChatInv

\* The last page is read, or the request is refused.
LEMMA ChatOnceRead ==
    ASSUME ChatInv, Undisturbed, NEW t \in Tabs, LoadRead(t)
    PROVE  ChatInv'
<1> DEFINE x == IF Signed(t) THEN LastPage ELSE NoPage
           c == [chat[t] EXCEPT !.load = x]
           read == Signed(t) /\ t \in channel /\ tab[t].join = "none" /\ missed[t] \subseteq LastPage.got
<1>t. ChatTypes /\ chat[t] \in ChatType /\ missed \in [Tabs -> SUBSET Messages] /\ rows \in Seq(Messages) /\ IsInjective(rows)
  BY DEF ChatInv, ChatTypes
<1>i. ChatOk(t) /\ HistoryOk(t)
  BY DEF ChatInv, ChatOk
<1>p. /\ LastPage \in HistoryType /\ LastPage.pc = "got" /\ LastPage.got \subseteq Posted
      /\ After(LastPage.got) \subseteq LastPage.got /\ (~LastPage.more => Posted \subseteq LastPage.got)
  BY <1>t, LastPageIs
<1>n. NoPage \in HistoryType /\ NoPage.pc = "none" /\ NoPage.got = {}
  BY DEF NoPage, HistoryType
<1>1. c \in ChatType /\ c.load = x /\ c.entry = chat[t].entry /\ c.once = chat[t].once /\ c.more = chat[t].more /\ c.older = chat[t].older
  BY <1>t, <1>p, <1>n DEF ChatType
<1>2. chat' = [chat EXCEPT ![t] = c] /\ chat[t].load.pc = "asked" /\ UNCHANGED <<rows, live, sends, gaps, todo>>
  BY DEF LoadRead, ChatIs
<1>3. /\ missed' \in [Tabs -> SUBSET Messages] /\ \A u \in Tabs : u # t => missed'[u] = missed[u]
      /\ missed'[t] = IF read THEN {} ELSE missed[t]
  BY <1>t DEF LoadRead
<1>4. chat'[t] = c
  BY <1>2, <1>t DEF ChatTypes
<1> HIDE DEF c
<1>5. chat[t].load.got = {} /\ Mounted(t)
  BY <1>i, <1>2 DEF HistoryOk, NoChat, NoPage
<1>6. Shown(t)' = Shown(t) /\ Coming(t)' = Coming(t) /\ Posted' = Posted /\ LastPage' = LastPage
  BY <1>1, <1>2, <1>4 DEF Shown, Coming, Emitting, Posted, LastPage, PageBefore
<1>7. HistoryOk(t)'
  BY <1>i, <1>n, <1>p, <1>1, <1>3, <1>4, <1>5, <1>6 DEF HistoryOk, Mounted, Undisturbed
<1>8. ReadOk(t)'
  <2>1. (Signed(t)' <=> Signed(t)) /\ UNCHANGED <<tab, hook, channel>>
    BY DEF Signed, Undisturbed
  <2> QED
    BY <1>p, <1>1, <1>3, <1>4, <1>6, <2>1 DEF ReadOk
<1>9. ASSUME t \notin gaps, Present(t) PROVE WholeOk(t)'
  <2>1. WholeOk(t)
    BY <1>i, <1>9 DEF ChatOk
  <2>2. Known(t)' = Known(t) \union x.got
    BY <1>p, <1>n, <1>1, <1>3, <1>4, <1>5, <1>6 DEF Known
  <2>3. Had(t)' = Had(t) \union x.got
    BY <1>p, <1>n, <1>1, <1>3, <1>4, <1>5, <1>6 DEF Had
  <2>4. After(x.got) \subseteq x.got
    BY <1>p, <1>n DEF After
  <2>5. After(Known(t))' = After(Known(t) \union x.got)
    BY <1>2, <2>2 DEF After
  <2>6. After(Known(t))' \subseteq Known(t)'
    BY <2>1, <2>2, <2>4, <2>5, AfterBoth DEF WholeOk
  <2>7. x.pc = "got" /\ ~x.more => Posted \subseteq x.got
    BY <1>p, <1>n
  <2> HIDE DEF x
  <2> QED
    BY <1>1, <1>4, <1>6, <2>1, <2>2, <2>3, <2>6, <2>7 DEF WholeOk, Final, Mounted, Undisturbed
<1> QED
  BY <1>1, <1>2, <1>3, <1>7, <1>8, <1>9, ChatOfOneTab

\* What was read shows.
LEMMA ChatOnceLoaded ==
    ASSUME ChatInv, Undisturbed, NEW t \in Tabs, LoadDone(t)
    PROVE  ChatInv'
<1> DEFINE d == Merged(chat[t], chat[t].load.got)
           c == [d EXCEPT !.load = NoPage, !.once = TRUE, !.more = IF chat[t].once THEN chat[t].more ELSE chat[t].load.more]
<1>t. ChatTypes /\ chat[t] \in ChatType /\ chat[t].load \in HistoryType
  BY DEF ChatInv, ChatTypes, ChatType
<1>i. ChatOk(t) /\ HistoryOk(t)
  BY DEF ChatInv, ChatOk
<1>n. NoPage \in HistoryType /\ NoPage.pc = "none" /\ NoPage.got = {}
  BY DEF NoPage, HistoryType
<1>g. chat[t].load.got \in SUBSET Messages /\ chat[t].load.more \in BOOLEAN
  BY <1>t DEF HistoryType
<1>d. /\ d \in ChatType /\ d.older = chat[t].older
      /\ \A m \in Messages : d.entry[m] = IF m \in chat[t].load.got THEN "sent" ELSE chat[t].entry[m]
  BY <1>t, <1>g, MergedIs
<1> HIDE DEF d
<1>1. /\ c \in ChatType /\ c.load = NoPage /\ c.entry = d.entry /\ c.once = TRUE /\ c.older = chat[t].older
      /\ c.more = IF chat[t].once THEN chat[t].more ELSE chat[t].load.more
  BY <1>t, <1>n, <1>d, <1>g DEF ChatType
<1>2. chat' = [chat EXCEPT ![t] = c] /\ chat[t].load.pc = "got" /\ UNCHANGED <<rows, live, sends, gaps, missed, todo>>
  BY DEF LoadDone, ChatIs, d
<1>4. chat'[t] = c
  BY <1>2, <1>t DEF ChatTypes
<1> HIDE DEF c
<1>5. Mounted(t)
  BY <1>i, <1>2 DEF HistoryOk, NoChat, NoPage
<1>6. /\ Shown(t)' = Shown(t) \union chat[t].load.got /\ Coming(t)' = Coming(t) /\ Posted' = Posted
      /\ LastPage' = LastPage
  <2>1. Shown(t)' = Shown(t) \union chat[t].load.got
    BY <1>d, <1>g, <1>1, <1>4 DEF Shown
  <2> QED
    BY <1>2, <2>1 DEF Coming, Emitting, Posted, LastPage, PageBefore
<1>7. HistoryOk(t)'
  BY <1>i, <1>n, <1>1, <1>2, <1>4, <1>5, <1>6 DEF HistoryOk, Mounted, Undisturbed
<1>8. ReadOk(t)'
  BY <1>i, <1>1, <1>2, <1>4, <1>6 DEF ChatOk, ReadOk, Signed, Mounted, Undisturbed
<1>9. ASSUME t \notin gaps, Present(t) PROVE WholeOk(t)'
  <2>1. WholeOk(t)
    BY <1>i, <1>9 DEF ChatOk
  <2>2. Known(t)' = Known(t) /\ Had(t)' = Had(t)
    BY <1>n, <1>1, <1>2, <1>4, <1>6 DEF Known, Had
  <2>3. After(Known(t))' = After(Known(t))
    BY <1>2, <2>2, AfterKept
  <2> QED
    BY <1>n, <1>1, <1>2, <1>4, <1>6, <2>1, <2>2, <2>3 DEF WholeOk, Final, Mounted, Undisturbed
<1>10. missed' \in [Tabs -> SUBSET Messages]
  BY <1>t, <1>2 DEF ChatTypes
<1>11. \A m \in Messages : c.entry[m] \in {chat[t].entry[m], "sent"}
  BY <1>d, <1>1
<1> QED
  BY <1>1, <1>2, <1>7, <1>8, <1>9, <1>10, <1>11, ChatOfOneTab

\* A page of older messages is read: the messages from its end on are known.
LEMMA ChatOnceOlderRead ==
    ASSUME ChatInv, Undisturbed, NEW t \in Tabs, OlderRead(t)
    PROVE  ChatInv'
<1> DEFINE first == {i \in DOMAIN rows : chat[t].entry[rows[i]] = "sent"}
           n == IF first = {} THEN Len(rows) + 1 ELSE Min(first)
           x == PageBefore(n)
           c == [chat[t] EXCEPT !.older = x]
<1>t. /\ ChatTypes /\ chat[t] \in ChatType /\ rows \in Seq(Messages) /\ IsInjective(rows)
      /\ missed \in [Tabs -> SUBSET Messages]
  BY DEF ChatInv, ChatTypes
<1>i. ChatOk(t) /\ HistoryOk(t)
  BY DEF ChatInv, ChatOk
<1>m. n \in 1 .. Len(rows) + 1 /\ \A j \in n .. Len(rows) : j = n => chat[t].entry[rows[j]] = "sent"
  <2>1. CASE first = {}
    BY <1>t, <2>1
  <2>2. CASE first # {}
    <3>1. first \subseteq Nat
      BY <1>t
    <3>2. PICK h \in first : \A j \in first : h <= j
      BY <2>2, <3>1, Least
    <3>3. Min(first) \in first
      BY <3>2 DEF Min
    <3>4. PICK k : k = Min(first)
      OBVIOUS
    <3>5. k \in DOMAIN rows /\ chat[t].entry[rows[k]] = "sent"
      BY <3>3, <3>4
    <3>6. n = k
      BY <2>2, <3>4
    <3> HIDE DEF n
    <3> QED
      BY <1>t, <3>5, <3>6
  <2> QED
    BY <2>1, <2>2
<1>2. /\ chat' = [chat EXCEPT ![t] = c] /\ chat[t].older.pc = "none" /\ chat[t].more /\ Mounted(t)
      /\ UNCHANGED <<rows, live, sends, gaps, missed>> /\ todo' \subseteq todo
  BY DEF OlderRead, ChatIs, Does
<1> HIDE DEF n
<1>p. /\ x \in HistoryType /\ x.pc = "got" /\ x.got \subseteq Posted
      /\ \A y \in After(x.got) : y \in x.got \/ \E j \in n .. Len(rows) : y = rows[j]
      /\ (~x.more => \A k \in 1 .. n - 1 : rows[k] \in x.got)
  BY <1>t, <1>m, PageIs
<1>1. c \in ChatType /\ c.load = chat[t].load /\ c.entry = chat[t].entry /\ c.once = chat[t].once /\ c.more = chat[t].more /\ c.older = x
  BY <1>t, <1>p DEF ChatType
<1>4. chat'[t] = c
  BY <1>2, <1>t DEF ChatTypes
<1> HIDE DEF c, x
<1>5. chat[t].older.got = {} /\ chat[t].once
  BY <1>i, <1>2 DEF HistoryOk
<1>6. Shown(t)' = Shown(t) /\ Coming(t)' = Coming(t) /\ Posted' = Posted /\ LastPage' = LastPage
  BY <1>1, <1>2, <1>4 DEF Shown, Coming, Emitting, Posted, LastPage, PageBefore
<1>7. HistoryOk(t)'
  BY <1>i, <1>p, <1>1, <1>2, <1>4, <1>5, <1>6 DEF HistoryOk, Mounted, Undisturbed
<1>8. ReadOk(t)'
  BY <1>i, <1>1, <1>2, <1>4, <1>5, <1>6 DEF ChatOk, ReadOk, Signed, Mounted, Undisturbed
<1>9. ASSUME t \notin gaps, Present(t) PROVE WholeOk(t)'
  <2>1. WholeOk(t)
    BY <1>i, <1>9 DEF ChatOk
  <2>2. Known(t)' = Known(t) \union x.got /\ Had(t)' = Had(t) \union x.got
    BY <1>1, <1>2, <1>4, <1>5, <1>6 DEF Known, Had
  <2>3. ASSUME NEW j \in n .. Len(rows) PROVE rows[j] \in Known(t)
    <3>0. n \in Nat /\ j \in DOMAIN rows /\ n \in DOMAIN rows
      BY <1>t, <1>m
    <3>1. rows[n] \in Shown(t)
      BY <1>t, <1>m, <3>0 DEF Shown
    <3>2. rows[n] \in Known(t)
      BY <3>1 DEF Known
    <3>3. j # n => rows[j] \in After(Known(t))
      BY <3>0, <3>2 DEF After
    <3> QED
      BY <2>1, <3>2, <3>3 DEF WholeOk
  <2>4. After(x.got) \subseteq Known(t) \union x.got
    BY <1>p, <2>3
  <2>5. After(Known(t))' = After(Known(t) \union x.got)
    BY <1>2, <2>2 DEF After
  <2>6. After(Known(t))' \subseteq Known(t)'
    BY <2>1, <2>2, <2>4, <2>5, AfterBoth DEF WholeOk
  <2>7. ASSUME ~x.more PROVE Posted \subseteq Known(t)'
    <3>1. \A k \in DOMAIN rows : k \in 1 .. n - 1 \/ k \in n .. Len(rows)
      BY <1>t, <1>m
    <3> QED
      BY <1>p, <2>2, <2>3, <2>7, <3>1 DEF Posted, ToSet
  <2> QED
    BY <1>1, <1>2, <1>4, <1>6, <2>1, <2>2, <2>6, <2>7 DEF WholeOk, Final, Mounted, Undisturbed
<1>10. missed' \in [Tabs -> SUBSET Messages]
  BY <1>t, <1>2
<1> QED
  BY <1>1, <1>2, <1>7, <1>8, <1>9, <1>10, ChatOfOneTab

\* The page of older messages shows.
LEMMA ChatOnceOlder ==
    ASSUME ChatInv, Undisturbed, NEW t \in Tabs, OlderDone(t)
    PROVE  ChatInv'
<1> DEFINE d == Merged(chat[t], chat[t].older.got)
           c == [d EXCEPT !.older = NoPage, !.more = chat[t].older.more]
<1>t. ChatTypes /\ chat[t] \in ChatType /\ chat[t].older \in HistoryType
  BY DEF ChatInv, ChatTypes, ChatType
<1>i. ChatOk(t) /\ HistoryOk(t)
  BY DEF ChatInv, ChatOk
<1>n. NoPage \in HistoryType /\ NoPage.pc = "none" /\ NoPage.got = {}
  BY DEF NoPage, HistoryType
<1>g. chat[t].older.got \in SUBSET Messages /\ chat[t].older.more \in BOOLEAN
  BY <1>t DEF HistoryType
<1>d. /\ d \in ChatType /\ d.load = chat[t].load /\ d.once = chat[t].once
      /\ \A m \in Messages : d.entry[m] = IF m \in chat[t].older.got THEN "sent" ELSE chat[t].entry[m]
  BY <1>t, <1>g, MergedIs
<1> HIDE DEF d
<1>1. /\ c \in ChatType /\ c.older = NoPage /\ c.entry = d.entry /\ c.once = chat[t].once /\ c.load = chat[t].load
      /\ c.more = chat[t].older.more
  BY <1>t, <1>n, <1>d, <1>g DEF ChatType
<1>2. chat' = [chat EXCEPT ![t] = c] /\ chat[t].older.pc = "got" /\ UNCHANGED <<rows, live, sends, gaps, missed, todo>>
  BY DEF OlderDone, ChatIs, d
<1>4. chat'[t] = c
  BY <1>2, <1>t DEF ChatTypes
<1> HIDE DEF c
<1>5. Mounted(t) /\ chat[t].once
  BY <1>i, <1>2 DEF HistoryOk, NoChat, NoPage
<1>6. /\ Shown(t)' = Shown(t) \union chat[t].older.got /\ Coming(t)' = Coming(t) /\ Posted' = Posted
      /\ LastPage' = LastPage
  <2>1. Shown(t)' = Shown(t) \union chat[t].older.got
    BY <1>d, <1>g, <1>1, <1>4 DEF Shown
  <2> QED
    BY <1>2, <2>1 DEF Coming, Emitting, Posted, LastPage, PageBefore
<1>7. HistoryOk(t)'
  BY <1>i, <1>n, <1>1, <1>2, <1>4, <1>5, <1>6 DEF HistoryOk, Mounted, Undisturbed
<1>8. ReadOk(t)'
  BY <1>i, <1>1, <1>2, <1>4, <1>5, <1>6 DEF ChatOk, ReadOk, Signed, Mounted, Undisturbed
<1>9. ASSUME t \notin gaps, Present(t) PROVE WholeOk(t)'
  <2>1. WholeOk(t)
    BY <1>i, <1>9 DEF ChatOk
  <2>2. Known(t)' = Known(t) /\ Had(t)' = Had(t)
    BY <1>n, <1>1, <1>2, <1>4, <1>6 DEF Known, Had
  <2>3. After(Known(t))' = After(Known(t))
    BY <1>2, <2>2, AfterKept
  <2> QED
    BY <1>n, <1>1, <1>2, <1>4, <1>6, <2>1, <2>2, <2>3 DEF WholeOk, Final, Mounted, Undisturbed
<1>10. missed' \in [Tabs -> SUBSET Messages]
  BY <1>t, <1>2 DEF ChatTypes
<1>11. \A m \in Messages : c.entry[m] \in {chat[t].entry[m], "sent"}
  BY <1>d, <1>1
<1> QED
  BY <1>1, <1>2, <1>7, <1>8, <1>9, <1>10, <1>11, ChatOfOneTab

\* A message is heard. A tab that cannot show it may take it for missed.
LEMMA ChatOnceHeard ==
    ASSUME ChatInv, Undisturbed, NEW t \in Tabs, NEW m \in Messages, HearChat(t, m)
    PROVE  ChatInv'
<1> DEFINE shows == Mounted(t) /\ hook[t].key # 0
           late == chat[t].once \/ chat[t].load.pc = "got" \/ m \in After(Known(t))
           c == IF shows THEN Merged(chat[t], {m}) ELSE chat[t]
           now == IF ~shows /\ late THEN missed[t] \union {m} ELSE missed[t]
<1>t. /\ ChatTypes /\ chat \in [Tabs -> ChatType] /\ chat[t] \in ChatType /\ rows \in Seq(Messages) /\ IsInjective(rows)
      /\ missed \in [Tabs -> SUBSET Messages] /\ live \subseteq channel \X Posted
  BY DEF ChatInv, ChatTypes
<1>i. ChatOk(t) /\ HistoryOk(t)
  BY DEF ChatInv, ChatOk
<1>0. m \in Posted /\ t \in channel /\ <<t, m>> \in live
  <2>1. PICK x : x = <<t, m>>
    OBVIOUS
  <2>2. x \in live /\ x[1] = t /\ x[2] = m
    BY <2>1 DEF HearChat
  <2> QED
    BY <1>t, <2>1, <2>2
<1>1. /\ c \in ChatType /\ c.older = chat[t].older /\ c.load = chat[t].load /\ c.once = chat[t].once /\ c.more = chat[t].more
      /\ \A x \in Messages : c.entry[x] = IF shows /\ x = m THEN "sent" ELSE chat[t].entry[x]
      /\ ~shows => c = chat[t]
  BY <1>t, MergedIs
<1>2. /\ UNCHANGED <<rows, sends, gaps, todo>> /\ live' = live \ {<<t, m>>}
      /\ chat' = [chat EXCEPT ![t] = c] /\ missed' = [missed EXCEPT ![t] = now]
  BY <1>t DEF HearChat
<1>3. /\ missed' \in [Tabs -> SUBSET Messages] /\ missed'[t] = now
      /\ \A u \in Tabs : u # t => missed'[u] = missed[u] /\ \A x \in Messages : <<u, x>> \in live => <<u, x>> \in live'
  BY <1>t, <1>2
<1>4. chat'[t] = c
  BY <1>2, <1>t
<1> HIDE DEF c
<1>6. /\ Shown(t)' = IF shows THEN Shown(t) \union {m} ELSE Shown(t)
      /\ Coming(t)' \subseteq Coming(t) /\ Coming(t) \subseteq Coming(t)' \union {m} /\ m \in Coming(t)
      /\ Posted' = Posted /\ LastPage' = LastPage
  <2>1. Shown(t)' = IF shows THEN Shown(t) \union {m} ELSE Shown(t)
    BY <1>1, <1>4 DEF Shown
  <2>2. Posted' = Posted /\ LastPage' = LastPage /\ \A x \in Messages : Emitting(x)' <=> Emitting(x)
    BY <1>2 DEF Posted, LastPage, PageBefore, Emitting
  <2>3. Posted \subseteq Messages
    BY <1>t DEF Posted, ToSet
  <2>4. \A x \in Messages : x # m => (<<t, x>> \in live' <=> <<t, x>> \in live)
    BY <1>2
  <2> QED
    BY <1>0, <1>2, <2>1, <2>2, <2>3, <2>4 DEF Coming
<1>7. HistoryOk(t)'
  BY <1>i, <1>0, <1>1, <1>3, <1>4, <1>6 DEF HistoryOk, Mounted, Undisturbed
<1>8. ReadOk(t)'
  <2>1. (Signed(t)' <=> Signed(t)) /\ (Mounted(t)' <=> Mounted(t)) /\ UNCHANGED <<tab, hook, channel>> /\ (Chatting' <=> Chatting)
    BY <1>2 DEF Signed, Mounted, Undisturbed, Chatting
  <2>2. shows => missed'[t] = missed[t]
    BY <1>3
  <2>3. ReadOk(t)
    BY <1>i DEF ChatOk
  <2> QED
    BY <1>1, <1>4, <1>6, <2>1, <2>2, <2>3 DEF ReadOk
<1>9. ASSUME t \notin gaps, Present(t) PROVE WholeOk(t)'
  <2>1. WholeOk(t)
    BY <1>i, <1>9 DEF ChatOk
  <2>2. CASE shows \/ late
    <3>1. Known(t)' = Known(t)
      BY <1>1, <1>3, <1>4, <1>6, <2>2 DEF Known
    <3>2. After(Known(t))' = After(Known(t))
      BY <1>2, <3>1, AfterKept
    <3> QED
      BY <1>0, <1>1, <1>4, <1>6, <2>1, <3>1, <3>2 DEF WholeOk, Final, Mounted, Undisturbed
  <2>3. CASE ~shows /\ ~late
    <3>1. Known(t)' \subseteq Known(t) /\ Known(t) \subseteq Known(t)' \union {m}
      BY <1>1, <1>3, <1>4, <1>6, <2>3 DEF Known
    <3>2. After(Known(t))' = After(Known(t)')
      BY <1>2 DEF After
    <3>3. After(Known(t)') \subseteq After(Known(t)) /\ m \notin After(Known(t)')
      BY <2>3, <3>1 DEF After
    <3>4. ~chat[t].once /\ chat[t].load.pc # "got" /\ chat[t].older.pc # "got"
      BY <1>i, <2>3 DEF HistoryOk
    <3> HIDE DEF late
    <3> QED
      BY <1>0, <1>1, <1>4, <2>1, <3>1, <3>2, <3>3, <3>4 DEF WholeOk, Final, Undisturbed
  <2> QED
    BY <2>2, <2>3
<1>11. \A x \in Messages : c.entry[x] \in {chat[t].entry[x], "sent"}
  BY <1>1
<1>12. live' \subseteq live
  BY <1>2
<1> HIDE DEF shows, late, now
<1> QED
  BY <1>1, <1>2, <1>3, <1>7, <1>8, <1>9, <1>11, <1>12, ChatOfOneTab

-----------------------------------------------------------------------------
(* Messages being sent.                                                    *)

\* Where a message is on its way, the chat is used.
LEMMA ChatIsUsed ==
    ASSUME NEW m \in Messages, NEW i \in 1 .. Tries, sends[m].at[i] # "none"
    PROVE  Chatting
<1>1. NoSend.at[i] = "none"
  BY DEF NoSend
<1> QED
  BY <1>1 DEF Chatting

\* A tab enters a message of its own; if that is stored, it was there before.
Enters(u, m) ==
  /\ u # SenderOf[m] \/ ~Mounted(u) => chat'[u] = chat[u]
  /\ chat'[u].once = chat[u].once /\ chat'[u].more = chat[u].more
  /\ chat'[u].load = chat[u].load /\ chat'[u].older = chat[u].older
  /\ \A x \in Messages : x # m => chat'[u].entry[x] = chat[u].entry[x]
  /\ chat[u].entry[m] # "none" => chat'[u].entry[m] # "none"
  /\ m \in Posted /\ chat'[u].entry[m] # "none" => chat[u].entry[m] # "none"

\* A message is entered by its sender, and nothing that is stored or told changes.
LEMMA ChatWhileSending ==
    ASSUME ChatInv, Undisturbed, NEW m \in Messages, UNCHANGED <<rows, live, missed, gaps>>, Chatting,
           sends' \in [Messages -> SendType], chat' \in [Tabs -> ChatType],
           \A x \in Messages : SendOk(x)' /\ (Emitting(x)' <=> Emitting(x)),
           \A u \in Tabs : Enters(u, m),
           \A x \in Messages : Underway(x)' => Underway(x) \/ (x = m /\ Mounted(SenderOf[m]) /\ chat'[SenderOf[m]].entry[m] # "none")
    PROVE  ChatInv'
<1>t. ChatTypes /\ chat \in [Tabs -> ChatType] /\ rows \in Seq(Messages)
  BY DEF ChatInv, ChatTypes
<1>1. ChatTypes' /\ Posted' = Posted /\ LastPage' = LastPage
  BY <1>t DEF ChatTypes, Posted, LastPage, PageBefore, Undisturbed
<1>2. ASSUME NEW t \in Tabs PROVE ChatOk(t)'
  <2>0. /\ t # SenderOf[m] \/ ~Mounted(t) => chat'[t] = chat[t]
        /\ chat'[t].once = chat[t].once /\ chat'[t].more = chat[t].more
        /\ chat'[t].load = chat[t].load /\ chat'[t].older = chat[t].older
        /\ \A x \in Messages : x # m => chat'[t].entry[x] = chat[t].entry[x]
        /\ chat[t].entry[m] # "none" => chat'[t].entry[m] # "none"
        /\ m \in Posted /\ chat'[t].entry[m] # "none" => chat[t].entry[m] # "none"
    BY DEF Enters
  <2>1. ChatOk(t)
    BY DEF ChatInv
  <2>2. Coming(t)' = Coming(t)
    <3>1. Posted \subseteq Messages
      BY <1>t DEF Posted, ToSet
    <3> QED
      BY <1>1, <3>1 DEF Coming
  <2>3. Shown(t) \subseteq Shown(t)' /\ Shown(t)' \subseteq Shown(t) \union {m} /\ (m \in Posted => Shown(t)' = Shown(t))
    BY <2>0 DEF Shown
  <2>4. Known(t) \subseteq Known(t)' /\ Known(t)' \subseteq Known(t) \union {m} /\ (m \in Posted => Known(t)' = Known(t))
    BY <2>0, <2>2, <2>3 DEF Known
  <2>5. Had(t) \subseteq Had(t)'
    BY <2>0, <2>3 DEF Had
  <2>6. ASSUME NEW y \in After(Known(t))' PROVE y \in After(Known(t))
    <3>1. PICK j \in DOMAIN rows : y = rows[j] /\ \E i \in 1 .. j - 1 : rows[i] \in Known(t)'
      BY <2>6 DEF After
    <3>2. PICK i \in 1 .. j - 1 : rows[i] \in Known(t)'
      BY <3>1
    <3>3. rows[i] \in Posted
      BY <1>t, <3>1, <3>2 DEF Posted, ToSet
    <3>4. rows[i] \in Known(t)
      BY <2>4, <3>2, <3>3
    <3> QED
      BY <3>1, <3>4 DEF After
  <2>7. (Mounted(t)' <=> Mounted(t)) /\ (Signed(t)' <=> Signed(t)) /\ (Present(t)' <=> Present(t)) /\ UNCHANGED <<tab, hook, channel>>
    BY DEF Undisturbed, Mounted, Signed, Present
  <2>8. SeatOk(t)' /\ HistoryOk(t)'
    BY <1>1, <2>0, <2>1, <2>7 DEF ChatOk, SeatOk, HistoryOk
  <2>9. ReadOk(t)'
    BY <1>1, <2>0, <2>1, <2>7 DEF ChatOk, ReadOk
  <2>10. ASSUME OwnOk(t) PROVE OwnOk(t)'
    <3> SUFFICES ASSUME NEW x \in Messages, SenderOf[x] = t, Underway(x)'
                 PROVE  tab'[t].page # "joining" /\ (Mounted(t)' => chat'[t].entry[x] # "none")
      BY DEF OwnOk
    <3>1. CASE Underway(x)
      BY <2>0, <2>7, <2>10, <3>1 DEF OwnOk
    <3>2. CASE ~Underway(x)
      BY <2>7, <3>2 DEF Mounted
    <3> QED
      BY <3>1, <3>2
  <2>11. ASSUME WholeOk(t) PROVE WholeOk(t)'
    BY <1>1, <2>0, <2>2, <2>4, <2>5, <2>6, <2>7, <2>11 DEF WholeOk, Final
  <2> QED
    BY <2>1, <2>7, <2>8, <2>9, <2>10, <2>11 DEF ChatOk
<1> QED
  BY <1>1, <1>2 DEF ChatInv

\* One more attempt, of a message that is not stored or shows already.
LEMMA ChatOnceDelivered ==
    ASSUME ChatInv, Undisturbed, NEW m \in Messages, Send(m) \/ Retry(m)
    PROVE  ChatInv'
<1> DEFINE t == SenderOf[m]
           c == [chat[t] EXCEPT !.entry[m] = "sending"]
<1>t. /\ ChatTypes /\ chat \in [Tabs -> ChatType] /\ sends \in [Messages -> SendType] /\ sends[m] \in SendType
      /\ t \in Tabs /\ chat[t] \in ChatType /\ SendOk(m)
  BY ChatAssumption DEF ChatInv, ChatTypes
<1>n. PICK n \in 1 .. Tries : n = sends[m].n + 1
  BY <1>t, ChatAssumption DEF Send, Retry, Deliver, SendType
<1> DEFINE s == [n |-> n, wait |-> TRUE, cut |-> sends[m].cut, at |-> [sends[m].at EXCEPT ![n] = "sent"]]
<1>1. /\ Mounted(t) /\ UNCHANGED <<rows, live, missed, gaps>>
      /\ chat' = [chat EXCEPT ![t] = c] /\ sends' = [sends EXCEPT ![m] = s]
      /\ m \in Posted => chat[t].entry[m] # "none"
  BY <1>t, <1>n DEF Send, Retry, Deliver, ChatIs, Mounted, SendType
<1>2. Chatting
  <2>1. CASE Send(m)
    BY <2>1 DEF Send, Does, Chatting
  <2>2. CASE Retry(m)
    <3>1. sends[m].n # 0
      BY <1>t, <2>2 DEF Retry, SendOk
    <3> QED
      BY <3>1 DEF Chatting, NoSend
  <2> QED
    BY <2>1, <2>2
<1>3. /\ c \in ChatType /\ c.once = chat[t].once /\ c.more = chat[t].more /\ c.load = chat[t].load /\ c.older = chat[t].older
      /\ \A x \in Messages : c.entry[x] = IF x = m THEN "sending" ELSE chat[t].entry[x]
  BY <1>t DEF ChatType
<1>4. /\ s \in SendType /\ s.n = n /\ s.wait = TRUE
      /\ \A i \in 1 .. Tries : s.at[i] = IF i = n THEN "sent" ELSE sends[m].at[i]
  <2>1. n \in 0 .. Tries /\ sends[m].cut \in 0 .. Tries /\ sends[m].at \in [1 .. Tries -> SendSteps]
    BY <1>t, ChatAssumption DEF SendType
  <2>2. PICK a : a = [sends[m].at EXCEPT ![n] = "sent"]
    OBVIOUS
  <2>3. a \in [1 .. Tries -> SendSteps] /\ \A i \in 1 .. Tries : a[i] = IF i = n THEN "sent" ELSE sends[m].at[i]
    BY <2>1, <2>2 DEF SendSteps
  <2>4. s = [n |-> n, wait |-> TRUE, cut |-> sends[m].cut, at |-> a]
    BY <2>2
  <2> HIDE DEF s
  <2> QED
    BY <2>1, <2>3, <2>4 DEF SendType
<1> HIDE DEF c, s
<1>5. /\ chat' \in [Tabs -> ChatType] /\ chat'[t] = c /\ \A u \in Tabs : u # t => chat'[u] = chat[u]
      /\ sends' \in [Messages -> SendType] /\ sends'[m] = s /\ \A x \in Messages : x # m => sends'[x] = sends[x]
  BY <1>t, <1>1, <1>3, <1>4
<1>k. sends[m].n \in Nat /\ n \in Nat /\ Tries \in Nat
  BY <1>t, ChatAssumption DEF SendType
<1>6. sends[m].at[n] = "none"
  BY <1>t, <1>n, <1>k DEF SendOk
<1>7. \A x \in Messages : Emitting(x)' <=> Emitting(x)
  BY <1>4, <1>5, <1>6 DEF Emitting
<1>8. \A x \in Messages : Underway(x)' => Underway(x) \/ x = m
  BY <1>5 DEF Underway
<1>9. ASSUME NEW x \in Messages PROVE SendOk(x)'
  <2>1. SendOk(x) /\ SenderOf[x] \in Tabs
    BY ChatAssumption DEF ChatInv
  <2>2. (\A u \in Tabs : Mounted(u)' <=> Mounted(u)) /\ Posted' = Posted
    BY <1>1 DEF Undisturbed, Mounted, Posted
  <2>3. CASE x = m
    BY <1>1, <1>3, <1>4, <1>5, <1>6, <1>n, <1>k, <2>1, <2>2, <2>3 DEF SendOk
  <2>4. CASE x # m
    BY <1>3, <1>5, <2>1, <2>2, <2>4 DEF SendOk
  <2> QED
    BY <2>3, <2>4
<1> HIDE DEF t
<1>10. t = SenderOf[m]
  BY DEF t
<1>11. \A u \in Tabs : Enters(u, m)
  BY <1>1, <1>3, <1>5, <1>10 DEF Enters
<1>12. \A x \in Messages : Underway(x)' => Underway(x) \/ (x = m /\ Mounted(SenderOf[m]) /\ chat'[SenderOf[m]].entry[m] # "none")
  BY <1>1, <1>3, <1>5, <1>8, <1>10
<1> QED
  BY <1>1, <1>2, <1>5, <1>7, <1>9, <1>11, <1>12, ChatWhileSending

\* The answer comes, or none in time.
LEMMA ChatOnceAcked ==
    ASSUME ChatInv, Undisturbed, NEW m \in Messages, Acked(m) \/ GiveUp(m)
    PROVE  ChatInv'
<1> DEFINE t == SenderOf[m]
<1>t. /\ ChatTypes /\ chat \in [Tabs -> ChatType] /\ sends \in [Messages -> SendType] /\ sends[m] \in SendType
      /\ t \in Tabs /\ chat[t] \in ChatType /\ SendOk(m)
  BY ChatAssumption DEF ChatInv, ChatTypes
<1>1. PICK how \in {"sent", "failed"} : chat' = [chat EXCEPT ![t] = [chat[t] EXCEPT !.entry[m] = how]]
  BY DEF Acked, GiveUp, ChatIs
<1>2. /\ sends[m].wait /\ sends' = [sends EXCEPT ![m].wait = FALSE] /\ UNCHANGED <<rows, live, missed, gaps>>
      /\ todo' = todo
  BY DEF Acked, GiveUp
<1> DEFINE c == [chat[t] EXCEPT !.entry[m] = how]
           s == [sends[m] EXCEPT !.wait = FALSE]
<1>3. Mounted(t) /\ chat[t].entry[m] # "none"
  BY <1>t, <1>2 DEF SendOk
<1>4. /\ c \in ChatType /\ c.once = chat[t].once /\ c.more = chat[t].more /\ c.load = chat[t].load /\ c.older = chat[t].older
      /\ \A x \in Messages : c.entry[x] = IF x = m THEN how ELSE chat[t].entry[x]
  BY <1>t DEF ChatType
<1>5. s \in SendType /\ s.n = sends[m].n /\ s.wait = FALSE /\ s.at = sends[m].at
  BY <1>t DEF SendType
<1>6. /\ chat' \in [Tabs -> ChatType] /\ chat'[t] = c /\ \A u \in Tabs : u # t => chat'[u] = chat[u]
      /\ sends' \in [Messages -> SendType] /\ sends'[m] = s /\ \A x \in Messages : x # m => sends'[x] = sends[x]
  <2>1. sends' = [sends EXCEPT ![m] = s]
    BY <1>2
  <2>2. chat' = [chat EXCEPT ![t] = c]
    BY <1>1
  <2> HIDE DEF c, s
  <2> QED
    BY <1>t, <1>4, <1>5, <2>1, <2>2
<1> HIDE DEF c, s
<1>k. sends[m].n # 0
  BY <1>t, <1>2 DEF SendOk
<1>7. Chatting
  BY <1>k DEF Chatting, NoSend
<1>8. \A x \in Messages : (Emitting(x)' <=> Emitting(x)) /\ (Underway(x)' <=> Underway(x))
  BY <1>5, <1>6 DEF Emitting, Underway
<1>9. ASSUME NEW x \in Messages PROVE SendOk(x)'
  <2>1. SendOk(x) /\ SenderOf[x] \in Tabs
    BY ChatAssumption DEF ChatInv
  <2>2. (\A u \in Tabs : Mounted(u)' <=> Mounted(u)) /\ Posted' = Posted
    BY <1>2 DEF Undisturbed, Mounted, Posted
  <2>3. CASE x = m
    BY <1>5, <1>6, <1>k, <2>1, <2>2, <2>3 DEF SendOk
  <2>4. CASE x # m
    BY <1>4, <1>6, <2>1, <2>2, <2>4 DEF SendOk
  <2> QED
    BY <2>3, <2>4
<1> HIDE DEF t
<1>10. t = SenderOf[m]
  BY DEF t
<1>11. \A u \in Tabs : Enters(u, m)
  BY <1>3, <1>4, <1>6, <1>10 DEF Enters
<1>12. \A x \in Messages : Emitting(x)' <=> Emitting(x)
  BY <1>8
<1>13. \A x \in Messages : Underway(x)' => Underway(x)
  BY <1>8
<1> QED
  BY <1>2, <1>6, <1>7, <1>9, <1>11, <1>12, <1>13, ChatWhileSending

\* An attempt is let in or refused, and finds nothing; of two that found nothing
\* the second is refused.
LEMMA ChatOnceChecked ==
    ASSUME ChatInv, Undisturbed, NEW m \in Messages, NEW i \in 1 .. Tries,
           SendCheck(m, i) \/ (SendFind(m, i) /\ m \notin Posted) \/ (SendCreate(m, i) /\ m \in Posted)
    PROVE  ChatInv'
<1>t. ChatTypes /\ chat \in [Tabs -> ChatType] /\ sends \in [Messages -> SendType]
  BY DEF ChatInv, ChatTypes
<1>1. PICK how \in {"find", "create", "error"} : At(m, i, how)
  BY DEF SendCheck, SendFind, SendCreate
<1>2. sends[m].at[i] \in {"sent", "find", "create"} /\ UNCHANGED <<rows, chat, live, missed, gaps, todo>>
  BY DEF SendCheck, SendFind, SendCreate
<1>3. /\ sends' \in [Messages -> SendType]
      /\ \A x \in Messages : /\ sends'[x].n = sends[x].n /\ sends'[x].wait = sends[x].wait
                             /\ \A j \in 1 .. Tries : sends'[x].at[j] = IF x = m /\ j = i THEN how ELSE sends[x].at[j]
  BY <1>t, <1>1, AtIs DEF SendSteps
<1>4. \A x \in Messages : Emitting(x)' <=> Emitting(x)
  BY <1>2, <1>3 DEF Emitting
<1>5. \A x \in Messages : Underway(x)' => Underway(x)
  BY <1>2, <1>3 DEF Underway
<1>6. ASSUME NEW x \in Messages PROVE SendOk(x)'
  <2>1. SendOk(x) /\ SenderOf[x] \in Tabs
    BY ChatAssumption DEF ChatInv
  <2>2. Mounted(SenderOf[x])' <=> Mounted(SenderOf[x])
    BY DEF Undisturbed, Mounted
  <2>3. Posted' = Posted
    BY <1>2 DEF Posted
  <2> QED
    BY <1>2, <1>3, <2>1, <2>2, <2>3 DEF SendOk
<1>7. Chatting
  BY <1>2, ChatIsUsed
<1>8. \A u \in Tabs : Enters(u, m)
  BY <1>2 DEF Enters
<1> QED
  BY <1>t, <1>2, <1>3, <1>4, <1>5, <1>6, <1>7, <1>8, ChatWhileSending

\* A message that was sent before is found, and is going to be told once more.
LEMMA ChatOnceFound ==
    ASSUME ChatInv, Undisturbed, NEW m \in Messages, NEW i \in 1 .. Tries, SendFind(m, i), m \in Posted
    PROVE  ChatInv'
<1>t. ChatTypes /\ sends \in [Messages -> SendType] /\ Posted \subseteq Messages
  BY DEF ChatInv, ChatTypes, Posted, ToSet
<1>1. At(m, i, "emit") /\ sends[m].at[i] = "find"
  BY DEF SendFind
<1>2. UNCHANGED <<rows, chat, live, missed, todo>> /\ gaps' = gaps \union {t \in Tabs : Present(t) /\ m \notin Known(t)}
  BY DEF SendFind
<1>3. /\ sends' \in [Messages -> SendType]
      /\ \A x \in Messages : /\ sends'[x].n = sends[x].n /\ sends'[x].wait = sends[x].wait
                             /\ \A j \in 1 .. Tries : sends'[x].at[j] = IF x = m /\ j = i THEN "emit" ELSE sends[x].at[j]
  BY <1>t, <1>1, AtIs DEF SendSteps
<1>4. \A x \in Messages : Emitting(x)' <=> Emitting(x) \/ x = m
  BY <1>1, <1>3 DEF Emitting
<1>5. \A x \in Messages : Underway(x)' <=> Underway(x)
  BY <1>1, <1>3 DEF Underway
<1>6. Posted' = Posted /\ LastPage' = LastPage /\ Chatting /\ ChatTypes'
  BY <1>t, <1>1, <1>2, <1>3, ChatIsUsed DEF Posted, LastPage, PageBefore, ChatTypes, Undisturbed
<1>7. ASSUME NEW x \in Messages PROVE SendOk(x)'
  <2>1. SendOk(x) /\ SenderOf[x] \in Tabs
    BY ChatAssumption DEF ChatInv
  <2>2. Mounted(SenderOf[x])' <=> Mounted(SenderOf[x])
    BY DEF Undisturbed, Mounted
  <2> QED
    BY <1>1, <1>2, <1>3, <1>6, <2>1, <2>2 DEF SendOk
<1>8. ASSUME NEW t \in Tabs PROVE ChatOk(t)'
  <2>1. ChatOk(t)
    BY DEF ChatInv
  <2>2. Coming(t)' = Coming(t) \union {m}
    BY <1>t, <1>2, <1>4, <1>6 DEF Coming
  <2>3. Shown(t)' = Shown(t) /\ Had(t)' = Had(t)
    BY <1>2 DEF Shown, Had
  <2>4. Known(t)' = Known(t) \union {m}
    BY <1>2, <2>2, <2>3 DEF Known
  <2>5. (Mounted(t)' <=> Mounted(t)) /\ (Signed(t)' <=> Signed(t)) /\ (Present(t)' <=> Present(t)) /\ UNCHANGED <<tab, hook, channel>>
    BY DEF Undisturbed, Mounted, Signed, Present
  <2>6. SeatOk(t)' /\ HistoryOk(t)' /\ ReadOk(t)'
    BY <1>2, <1>6, <2>1, <2>5 DEF ChatOk, SeatOk, HistoryOk, ReadOk
  <2>7. OwnOk(t) => OwnOk(t)'
    BY <1>2, <1>5, <2>5 DEF OwnOk
  <2>8. ASSUME t \notin gaps', Present(t)', WholeOk(t) PROVE WholeOk(t)'
    <3>1. Known(t)' = Known(t)
      BY <1>2, <2>4, <2>5, <2>8
    <3>2. After(Known(t))' = After(Known(t))
      BY <1>2, <3>1, AfterKept
    <3>3. m \in Coming(t) \/ m \in Had(t)
      BY <2>4, <3>1 DEF Known, Had
    <3> QED
      BY <1>2, <1>6, <2>2, <2>3, <2>5, <2>8, <3>1, <3>2, <3>3 DEF WholeOk
  <2> QED
    BY <1>2, <2>1, <2>5, <2>6, <2>7, <2>8 DEF ChatOk
<1> QED
  BY <1>6, <1>7, <1>8 DEF ChatInv

\* A message is told: to all but the tab it came from, which shows it.
LEMMA ChatOnceTold ==
    ASSUME ChatInv, KeysTypes, Undisturbed, NEW m \in Messages, NEW i \in 1 .. Tries, SendEmit(m, i)
    PROVE  ChatInv'
<1>t. ChatTypes /\ sends \in [Messages -> SendType] /\ Posted \subseteq Messages /\ live \subseteq channel \X Posted
  BY DEF ChatInv, ChatTypes, Posted, ToSet
<1> DEFINE not == IF i > sends[m].cut THEN {SenderOf[m]} ELSE {}
<1>1. At(m, i, "ok") /\ sends[m].at[i] = "emit"
  BY DEF SendEmit
<1>2. UNCHANGED <<rows, chat, gaps, missed, todo>> /\ live' = live \union ((channel \ not) \X {m})
  BY DEF SendEmit
<1>3. /\ sends' \in [Messages -> SendType]
      /\ \A x \in Messages : /\ sends'[x].n = sends[x].n /\ sends'[x].wait = sends[x].wait
                             /\ \A j \in 1 .. Tries : sends'[x].at[j] = IF x = m /\ j = i THEN "ok" ELSE sends[x].at[j]
  BY <1>t, <1>1, AtIs DEF SendSteps
<1>4. (\A x \in Messages : Emitting(x)' => Emitting(x)) /\ (\A x \in Messages : x # m /\ Emitting(x) => Emitting(x)')
  BY <1>1, <1>3 DEF Emitting
<1>5. (\A x \in Messages : Underway(x)' => Underway(x)) /\ Underway(m) /\ Emitting(m)
  BY <1>1, <1>3 DEF Underway, Emitting
<1>m. m \in Posted
  BY <1>1 DEF ChatInv, SendOk
<1>6. Posted' = Posted /\ LastPage' = LastPage /\ Chatting /\ ChatTypes'
  <2>1. live' \subseteq channel' \X Posted
    BY <1>t, <1>2, <1>m DEF Undisturbed
  <2> QED
    BY <1>t, <1>1, <1>2, <1>3, <2>1, ChatIsUsed DEF Posted, LastPage, PageBefore, ChatTypes, Undisturbed
<1>7. ASSUME NEW x \in Messages PROVE SendOk(x)'
  <2>1. SendOk(x) /\ SenderOf[x] \in Tabs
    BY ChatAssumption DEF ChatInv
  <2>2. Mounted(SenderOf[x])' <=> Mounted(SenderOf[x])
    BY DEF Undisturbed, Mounted
  <2> QED
    BY <1>1, <1>2, <1>3, <1>6, <2>1, <2>2 DEF SendOk
<1> HIDE DEF not
<1>8. ASSUME NEW t \in Tabs PROVE ChatOk(t)'
  <2>1. ChatOk(t)
    BY DEF ChatInv
  <2>l. \A x \in Messages : <<t, x>> \in live' <=> <<t, x>> \in live \/ (x = m /\ t \in channel \ not)
    BY <1>2
  <2>2. /\ Coming(t)' \subseteq Coming(t) /\ Coming(t) \subseteq Coming(t)' \union {m} /\ m \in Coming(t)
        /\ t \in channel \ not => m \in Coming(t)'
    BY <1>t, <1>m, <1>4, <1>5, <1>6, <2>l DEF Coming
  <2>3. Shown(t)' = Shown(t) /\ Had(t)' = Had(t)
    BY <1>2 DEF Shown, Had
  <2>5. (Mounted(t)' <=> Mounted(t)) /\ (Signed(t)' <=> Signed(t)) /\ (Present(t)' <=> Present(t)) /\ UNCHANGED <<tab, hook, channel>>
    BY DEF Undisturbed, Mounted, Signed, Present
  <2>6. SeatOk(t)' /\ HistoryOk(t)' /\ ReadOk(t)'
    BY <1>2, <1>6, <2>1, <2>5 DEF ChatOk, SeatOk, HistoryOk, ReadOk
  <2>7. OwnOk(t) => OwnOk(t)'
    BY <1>2, <1>5, <2>5 DEF OwnOk
  <2>8. ASSUME t \notin gaps, Present(t) PROVE WholeOk(t)'
    <3>1. WholeOk(t) /\ OwnOk(t) /\ SeatOk(t)
      BY <2>1, <2>8 DEF ChatOk
    <3>2. m \in Coming(t)' \/ m \in Had(t)
      <4>1. CASE t \in channel \ not
        BY <2>2, <4>1
      <4>2. CASE t \notin channel
        BY <2>2, <3>1, <4>2 DEF WholeOk
      <4>3. CASE t \in channel /\ t \in not
        <5>1. SenderOf[m] = t
          BY <4>3 DEF not
        <5>2. tab[t].page \in {"away", "joining", "in"}
          BY DEF KeysTypes, TabType
        <5>3. m \in Shown(t)
          BY <1>5, <3>1, <4>3, <5>1, <5>2 DEF OwnOk, SeatOk, Mounted, Shown
        <5> QED
          BY <5>3 DEF Had
      <4> QED
        BY <4>1, <4>2, <4>3
    <3>3. Known(t)' = Known(t)
      BY <1>2, <2>2, <2>3, <3>2 DEF Known, Had
    <3>4. After(Known(t))' = After(Known(t))
      BY <1>2, <3>3, AfterKept
    <3> QED
      BY <1>2, <1>6, <2>2, <2>3, <2>5, <3>1, <3>3, <3>4 DEF WholeOk
  <2> QED
    BY <1>2, <2>1, <2>5, <2>6, <2>7, <2>8 DEF ChatOk
<1> QED
  BY <1>6, <1>7, <1>8 DEF ChatInv

\* A message is stored: the last of all, that everybody in the call is to hear.
LEMMA ChatOnceStored ==
    ASSUME ChatInv, Undisturbed, NEW m \in Messages, NEW i \in 1 .. Tries, SendCreate(m, i), m \notin Posted
    PROVE  ChatInv'
<1>t. /\ ChatTypes /\ sends \in [Messages -> SendType] /\ Posted \subseteq Messages /\ rows \in Seq(Messages) /\ IsInjective(rows)
      /\ missed \in [Tabs -> SUBSET Messages] /\ live \subseteq channel \X Posted
  BY DEF ChatInv, ChatTypes, Posted, ToSet
<1>1. At(m, i, "emit") /\ sends[m].at[i] = "create"
  BY DEF SendCreate
<1>2. /\ UNCHANGED <<chat, live, gaps, todo>> /\ rows' = Append(rows, m)
      /\ missed' = [t \in Tabs |-> IF Mounted(t) /\ t \notin channel THEN missed[t] \union {m} ELSE missed[t]]
  BY DEF SendCreate
<1>3. /\ sends' \in [Messages -> SendType]
      /\ \A x \in Messages : /\ sends'[x].n = sends[x].n /\ sends'[x].wait = sends[x].wait
                             /\ \A j \in 1 .. Tries : sends'[x].at[j] = IF x = m /\ j = i THEN "emit" ELSE sends[x].at[j]
  BY <1>t, <1>1, AtIs DEF SendSteps
<1>4. \A x \in Messages : Emitting(x)' <=> Emitting(x) \/ x = m
  BY <1>1, <1>3 DEF Emitting
<1>5. \A x \in Messages : Underway(x)' <=> Underway(x)
  BY <1>1, <1>3 DEF Underway
<1> DEFINE last == Len(rows) + 1
<1>r. /\ rows' \in Seq(Messages) /\ last \in Nat \ {0} /\ DOMAIN rows = 1 .. last - 1 /\ DOMAIN rows' = 1 .. last
      /\ Len(rows') = last /\ rows'[last] = m /\ \A k \in 1 .. last - 1 : rows'[k] = rows[k]
  BY <1>t, <1>2
<1> HIDE DEF last
<1>p. Posted' = Posted \union {m} /\ \A k \in 1 .. last - 1 : rows[k] \in Posted
  BY <1>r DEF Posted, ToSet
<1>j. IsInjective(rows')
  BY <1>t, <1>r, <1>p DEF IsInjective
<1>6. ChatTypes' /\ Chatting
  <2>1. live' \subseteq channel' \X Posted'
    BY <1>t, <1>2, <1>p DEF Undisturbed
  <2>2. missed' \in [Tabs -> SUBSET Messages]
    BY <1>t, <1>2
  <2> QED
    BY <1>t, <1>1, <1>2, <1>3, <1>r, <1>j, <2>1, <2>2, ChatIsUsed DEF ChatTypes
<1>7. ASSUME NEW x \in Messages PROVE SendOk(x)'
  <2>1. SendOk(x) /\ SenderOf[x] \in Tabs
    BY ChatAssumption DEF ChatInv
  <2>2. Mounted(SenderOf[x])' <=> Mounted(SenderOf[x])
    BY DEF Undisturbed, Mounted
  <2> QED
    BY <1>1, <1>2, <1>3, <1>p, <2>1, <2>2 DEF SendOk
<1>8. \A x \in LastPage'.got : x = m \/ x \in LastPage.got
  <2>1. LastPage.got = {rows[k] : k \in (1 .. last - 1) \cap (last - Page .. last - 1)}
    BY <1>r DEF LastPage, PageBefore, last
  <2> PICK n : n = last + 1
    OBVIOUS
  <2>2. LastPage'.got = {rows'[k] : k \in DOMAIN rows' \cap (n - Page .. n - 1)}
    <3>1. LastPage' = PageBefore(n)'
      BY <1>r DEF LastPage, PageBefore
    <3>2. PageBefore(n)'.got = {rows'[k] : k \in DOMAIN rows' \cap (n - Page .. n - 1)}
      BY DEF PageBefore
    <3> QED
      BY <3>1, <3>2
  <2> SUFFICES ASSUME NEW x \in LastPage'.got PROVE x = m \/ x \in LastPage.got
    OBVIOUS
  <2>3. PICK k \in DOMAIN rows' \cap (n - Page .. n - 1) : x = rows'[k]
    BY <2>2
  <2>4. Page \in Nat
    BY ChatAssumption
  <2>5. CASE k = last
    BY <1>r, <2>3, <2>5
  <2>6. CASE k # last
    <3>1. k \in (1 .. last - 1) \cap (last - Page .. last - 1)
      BY <1>r, <2>3, <2>4, <2>6
    <3> QED
      BY <1>r, <2>1, <2>3, <3>1
  <2> QED
    BY <2>5, <2>6
<1>9. ASSUME NEW t \in Tabs PROVE ChatOk(t)'
  <2>1. ChatOk(t) /\ HistoryOk(t) /\ ReadOk(t)
    BY DEF ChatInv, ChatOk
  <2>m. missed'[t] = (IF Mounted(t) /\ t \notin channel THEN missed[t] \union {m} ELSE missed[t])
    BY <1>2
  <2>2. Coming(t)' = Coming(t) \union {m}
    BY <1>t, <1>2, <1>4, <1>p DEF Coming
  <2>3. Shown(t)' = Shown(t) /\ Had(t) \subseteq Had(t)' /\ (missed'[t] = missed[t] \union {m} => m \in Had(t)')
    BY <1>2, <2>m DEF Shown, Had
  <2>4. Known(t)' = Known(t) \union {m}
    BY <1>2, <2>m, <2>2, <2>3 DEF Known
  <2>5. (Mounted(t)' <=> Mounted(t)) /\ (Signed(t)' <=> Signed(t)) /\ (Present(t)' <=> Present(t)) /\ UNCHANGED <<tab, hook, channel>>
    BY DEF Undisturbed, Mounted, Signed, Present
  <2>6. SeatOk(t)' /\ HistoryOk(t)'
    BY <1>2, <1>p, <2>m, <2>1, <2>5 DEF ChatOk, SeatOk, HistoryOk
  <2>7. ReadOk(t)'
    <3>1. ASSUME t \in channel, missed'[t] \subseteq LastPage'.got PROVE missed'[t] = missed[t] /\ missed[t] \subseteq LastPage.got
      <4>1. missed[t] \subseteq Posted
        BY <2>1 DEF HistoryOk
      <4>2. missed'[t] = missed[t]
        BY <2>m, <3>1
      <4> QED
        BY <1>8, <3>1, <4>1, <4>2
    <3> QED
      BY <1>2, <1>6, <2>1, <2>5, <3>1 DEF ReadOk
  <2>8. OwnOk(t) => OwnOk(t)'
    BY <1>2, <1>5, <2>5 DEF OwnOk
  <2>9. ASSUME Present(t), WholeOk(t) PROVE WholeOk(t)'
    <3>1. ASSUME NEW y \in After(Known(t))' PROVE y \in Known(t)'
      <4>1. PICK j \in 1 .. last : y = rows'[j] /\ \E h \in 1 .. j - 1 : rows'[h] \in Known(t)'
        BY <1>r, <3>1 DEF After
      <4>2. CASE j = last
        BY <1>r, <2>4, <4>1, <4>2
      <4>3. CASE j # last
        <5>1. j \in 1 .. last - 1
          BY <1>r, <4>3
        <5>2. PICK h \in 1 .. j - 1 : rows'[h] \in Known(t)'
          BY <4>1
        <5>3. h \in 1 .. last - 1
          BY <1>r, <5>1
        <5>4. rows[h] \in Known(t)
          BY <1>r, <1>p, <2>4, <5>2, <5>3
        <5>5. rows[j] \in After(Known(t))
          BY <1>r, <5>1, <5>4 DEF After
        <5> QED
          BY <1>r, <2>4, <2>9, <4>1, <5>1, <5>5 DEF WholeOk
      <4> QED
        BY <4>2, <4>3
    <3>2. t \notin channel => Mounted(t)
      BY <2>9 DEF Present
    <3> QED
      BY <1>2, <1>p, <2>m, <2>2, <2>3, <2>4, <2>5, <2>9, <3>1, <3>2 DEF WholeOk
  <2> QED
    BY <1>2, <2>1, <2>5, <2>6, <2>7, <2>8, <2>9 DEF ChatOk
<1> QED
  BY <1>6, <1>7, <1>9 DEF ChatInv

-----------------------------------------------------------------------------
(* Steps of a tab.                                                         *)

\* How a step of the keys moves a tab: its page, its join and its seat.
Moves(t) ==
  LET p == tab[t].page
      q == tab'[t].page
      j == tab[t].join
      k == tab'[t].join
      keeps == (t \in channel' <=> t \in channel) IN
  \/ q = p /\ k = j /\ keeps
  \/ q = "joining" /\ p = "away" /\ k = "admit" /\ keeps
  \/ q = p /\ p # "away" /\ j = "admit" /\ k = "seat" /\ keeps
  \/ q = p /\ p # "away" /\ j = "seat" /\ k = "record" /\ t \in channel'
  \/ q = p /\ p # "away" /\ j = "record" /\ k = "ask" /\ keeps
  \/ q = "in" /\ p # "away" /\ j = "ask" /\ k = "none" /\ keeps
  \/ q = "away" /\ k = "none" /\ t \notin channel'
  \/ q = "in" /\ p = "in" /\ j = "none" /\ k = "offline" /\ t \notin channel'
  \/ q = p /\ p # "away" /\ j = "offline" /\ k = "admit" /\ keeps

\* Every step of the keys moves a tab in one of these ways.
LEMMA TabsMove ==
    ASSUME KeysTypes, \A t \in Tabs : TabOk(t), KeysNext
    PROVE  todo' \subseteq todo /\ \A t \in Tabs : Moves(t)
<1>t. tab \in [Tabs -> TabType]
  BY DEF KeysTypes
<1>1. todo' \subseteq todo
  <2>1. ASSUME NEW u \in Tabs, Unlock(u) \/ Reset(u) \/ Enter(u) \/ Leave(u) \/ Drop(u) PROVE todo' \subseteq todo
    BY <2>1 DEF Unlock, Reset, Enter, Leave, Drop, Does
  <2>2. ASSUME NEW u \in Tabs, StoreStep(u) PROVE todo' \subseteq todo
    BY <2>2 DEF StoreStep, UnlockRead, UnlockCreate, StoreFails, LoggedIn, Restore, ForgetKeys
  <2>3. ASSUME NEW u \in Tabs, JoinStep(u) PROVE todo' \subseteq todo
    BY <2>3 DEF JoinStep, JoinAdmit, JoinSeat, JoinRecord, JoinAsk, Roster, Reconnect, Kicked
  <2>4. ASSUME NEW u \in Tabs, GrantStep(u) \/ Hear(u) PROVE todo' \subseteq todo
    BY <2>4 DEF GrantStep, PassRead, PassPick, GrantCheck, GrantTarget, GrantWrite, Hear
  <2>5. ASSUME NEW r \in Tabs \X Slots, ResolveStep(r) PROVE todo' \subseteq todo
    BY <2>5 DEF ResolveStep, Refused, GetRoom, GetMember, GetCount, InitRead, InitClaim, ClearMine, Resolved
  <2> QED
    BY <2>1, <2>2, <2>3, <2>4, <2>5 DEF KeysNext, TabStep
<1>n. ASSUME UNCHANGED <<tab, channel>>, NEW t \in Tabs PROVE Moves(t)
  BY <1>n DEF Moves
<1>2. ASSUME NEW u \in Tabs, Unlock(u) \/ Reset(u) \/ UnlockRead(u) \/ UnlockCreate(u) \/ StoreFails(u) \/ Restore(u) \/ ForgetKeys(u)
                             \/ GrantStep(u) \/ Hear(u) \/ Roster(u)
      PROVE  UNCHANGED <<tab, channel>>
  BY <1>2 DEF Unlock, Reset, UnlockRead, UnlockCreate, StoreFails, Restore, ForgetKeys, GrantStep, PassRead, PassPick, GrantCheck,
              GrantTarget, GrantWrite, Hear, Roster
<1>3. ASSUME NEW r \in Tabs \X Slots, ResolveStep(r) PROVE UNCHANGED <<tab, channel>>
  BY <1>3 DEF ResolveStep, Refused, GetRoom, GetMember, GetCount, InitRead, InitClaim, ClearMine, Resolved
<1>4. ASSUME NEW u \in Tabs, NEW x, tab' = [tab EXCEPT ![u] = x], Moves(u), \A t \in Tabs : t # u => (t \in channel' <=> t \in channel),
             NEW t \in Tabs
      PROVE  Moves(t)
  <2>1. CASE t = u
    BY <1>4, <2>1
  <2>2. CASE t # u
    <3>1. tab'[t] = tab[t]
      BY <1>t, <1>4, <2>2
    <3> QED
      BY <1>4, <2>2, <3>1 DEF Moves
  <2> QED
    BY <2>1, <2>2
<1>5. ASSUME NEW u \in Tabs, LoggedIn(u) \/ JoinAdmit(u) \/ JoinSeat(u) \/ JoinRecord(u) \/ JoinAsk(u) \/ Reconnect(u) \/ Kicked(u)
                             \/ Enter(u) \/ Leave(u) \/ Drop(u)
      PROVE  Moves(u) /\ (\E x : tab' = [tab EXCEPT ![u] = x]) /\ \A t \in Tabs : t # u => (t \in channel' <=> t \in channel)
  <2>t. tab[u] \in TabType /\ TabOk(u)
    BY <1>t
  <2>1. CASE LoggedIn(u)
    <3> PICK x : x = [tab[u] EXCEPT !.auth = TRUE]
      OBVIOUS
    <3>1. tab' = [tab EXCEPT ![u] = x] /\ UNCHANGED channel
      BY <2>1 DEF LoggedIn
    <3>2. tab'[u] = x /\ x.page = tab[u].page /\ x.join = tab[u].join
      BY <1>t, <2>t, <3>1 DEF TabType
    <3> QED
      BY <3>1, <3>2 DEF Moves
  <2>2. CASE JoinAdmit(u)
    <3> PICK x : x = [tab[u] EXCEPT !.join = "seat", !.seen = check]
      OBVIOUS
    <3>1. tab' = [tab EXCEPT ![u] = x] /\ UNCHANGED channel /\ tab[u].join = "admit"
      BY <2>2 DEF JoinAdmit
    <3>2. tab'[u] = x /\ x.page = tab[u].page /\ x.join = "seat"
      BY <1>t, <2>t, <3>1 DEF TabType
    <3> QED
      BY <2>t, <3>1, <3>2 DEF Moves, TabOk
  <2>3. CASE JoinSeat(u)
    <3> PICK x : x = [tab[u] EXCEPT !.join = "record"]
      OBVIOUS
    <3>1. tab' = [tab EXCEPT ![u] = x] /\ channel' = channel \union {u} /\ tab[u].join = "seat"
      BY <2>3 DEF JoinSeat
    <3>2. tab'[u] = x /\ x.page = tab[u].page /\ x.join = "record"
      BY <1>t, <2>t, <3>1 DEF TabType
    <3> QED
      BY <2>t, <3>1, <3>2 DEF Moves, TabOk
  <2>4. CASE JoinRecord(u)
    <3> PICK x : x = [tab[u] EXCEPT !.join = "ask"]
      OBVIOUS
    <3>1. tab' = [tab EXCEPT ![u] = x] /\ UNCHANGED channel /\ tab[u].join = "record"
      BY <2>4 DEF JoinRecord
    <3>2. tab'[u] = x /\ x.page = tab[u].page /\ x.join = "ask"
      BY <1>t, <2>t, <3>1 DEF TabType
    <3> QED
      BY <2>t, <3>1, <3>2 DEF Moves, TabOk
  <2>5. CASE JoinAsk(u)
    <3> PICK x : x = [tab[u] EXCEPT !.join = "none", !.page = "in"]
      OBVIOUS
    <3>1. tab' = [tab EXCEPT ![u] = x] /\ UNCHANGED channel /\ tab[u].join = "ask"
      BY <2>5 DEF JoinAsk
    <3>2. tab'[u] = x /\ x.page = "in" /\ x.join = "none"
      BY <1>t, <2>t, <3>1 DEF TabType
    <3> QED
      BY <2>t, <3>1, <3>2 DEF Moves, TabOk
  <2>6. CASE Reconnect(u)
    <3> PICK x : x = [tab[u] EXCEPT !.join = "admit"]
      OBVIOUS
    <3>1. tab' = [tab EXCEPT ![u] = x] /\ UNCHANGED channel /\ tab[u].join = "offline"
      BY <2>6 DEF Reconnect
    <3>2. tab'[u] = x /\ x.page = tab[u].page /\ x.join = "admit"
      BY <1>t, <2>t, <3>1 DEF TabType
    <3> QED
      BY <2>t, <3>1, <3>2 DEF Moves, TabOk
  <2>7. CASE Kicked(u)
    <3> PICK x : x = [tab[u] EXCEPT !.auth = FALSE, !.page = "away", !.join = "none"]
      OBVIOUS
    <3>1. tab' = [tab EXCEPT ![u] = x] /\ channel' = channel \ {u}
      BY <2>7 DEF Kicked, Unmounted
    <3>2. tab'[u] = x /\ x.page = "away" /\ x.join = "none"
      BY <1>t, <2>t, <3>1 DEF TabType
    <3> QED
      BY <3>1, <3>2 DEF Moves
  <2>8. CASE Enter(u)
    <3> PICK x : x = [tab[u] EXCEPT !.page = "joining", !.join = "admit"]
      OBVIOUS
    <3>1. tab' = [tab EXCEPT ![u] = x] /\ UNCHANGED channel /\ tab[u].page = "away"
      BY <2>8 DEF Enter
    <3>2. tab'[u] = x /\ x.page = "joining" /\ x.join = "admit"
      BY <1>t, <2>t, <3>1 DEF TabType
    <3> QED
      BY <3>1, <3>2 DEF Moves
  <2>9. CASE Leave(u)
    <3> PICK x : x = [tab[u] EXCEPT !.page = "away"]
      OBVIOUS
    <3>1. tab' = [tab EXCEPT ![u] = x] /\ channel' = channel \ {u} /\ tab[u].join = "none"
      BY <2>9 DEF Leave, Unmounted
    <3>2. tab'[u] = x /\ x.page = "away" /\ x.join = "none"
      BY <1>t, <2>t, <3>1 DEF TabType
    <3> QED
      BY <3>1, <3>2 DEF Moves
  <2>10. CASE Drop(u)
    <3> PICK x : x = [tab[u] EXCEPT !.join = "offline"]
      OBVIOUS
    <3>1. tab' = [tab EXCEPT ![u] = x] /\ channel' = channel \ {u} /\ tab[u].join = "none" /\ tab[u].page = "in"
      BY <2>10 DEF Drop, Mounted
    <3>2. tab'[u] = x /\ x.page = "in" /\ x.join = "offline"
      BY <1>t, <2>t, <3>1 DEF TabType
    <3> QED
      BY <3>1, <3>2 DEF Moves
  <2> QED
    BY <1>5, <2>1, <2>2, <2>3, <2>4, <2>5, <2>6, <2>7, <2>8, <2>9, <2>10
<1>6. ASSUME NEW t \in Tabs, NEW u \in Tabs, TabStep(u) \/ Unlock(u) \/ Reset(u) \/ Enter(u) \/ Leave(u) \/ Drop(u)
      PROVE  Moves(t)
  BY <1>n, <1>2, <1>4, <1>5, <1>6 DEF TabStep, StoreStep, JoinStep
<1> QED
  BY <1>1, <1>n, <1>3, <1>6 DEF KeysNext

\* What a step of the tabs means for the attempts to send: none of them goes on,
\* and where nobody writes nobody is going to.
LEMMA SendsFollow ==
    ASSUME ChatInv, ChatFollows, todo' \subseteq todo
    PROVE  /\ sends' \in [Messages -> SendType]
           /\ \A m \in Messages : /\ sends'[m].n = sends[m].n
                                  /\ sends'[m].wait => sends[m].wait /\ Mounted(SenderOf[m])'
                                  /\ \A i \in 1 .. Tries : \/ sends'[m].at[i] = sends[m].at[i]
                                                           \/ sends'[m].at[i] = "lost" /\ sends[m].at[i] = "sent"
           /\ ~Chatting => ~Chatting'
<1>t. sends \in [Messages -> SendType] /\ SenderOf \in [Messages -> Tabs]
  BY ChatAssumption DEF ChatInv, ChatTypes
<1>1. ASSUME NEW m \in Messages
      PROVE  /\ sends'[m] \in SendType
             /\ sends'[m].n = sends[m].n
             /\ sends'[m].wait => sends[m].wait /\ Mounted(SenderOf[m])'
             /\ \A i \in 1 .. Tries : \/ sends'[m].at[i] = sends[m].at[i]
                                      \/ sends'[m].at[i] = "lost" /\ sends[m].at[i] = "sent"
             /\ sends[m] = NoSend => sends'[m] = NoSend
  <2>1. PICK g \in BOOLEAN : g <=> SenderOf[m] \in channel \ channel'
    OBVIOUS
  <2>2. PICK w \in BOOLEAN : w <=> sends[m].wait /\ tab'[SenderOf[m]].page = "in"
    OBVIOUS
  <2>3. PICK a : a = [i \in 1 .. Tries |-> IF g /\ sends[m].at[i] = "sent" THEN "lost" ELSE sends[m].at[i]]
    OBVIOUS
  <2>4. PICK c : c = IF g THEN sends[m].n ELSE sends[m].cut
    OBVIOUS
  <2>5. sends[m] \in SendType /\ sends[m].wait \in BOOLEAN
    BY <1>t DEF SendType
  <2>6. sends'[m] = [n |-> sends[m].n, wait |-> w, cut |-> c, at |-> a]
    <3>1. sends'[m] = Cut(m)
      BY DEF ChatFollows
    <3>2. (SenderOf[m] \in channel \ channel') = g
      BY <2>1, Zenon
    <3>3. (sends[m].wait /\ tab'[SenderOf[m]].page = "in") = w
      BY <2>2, Zenon
    <3>4. Cut(m) = [n |-> sends[m].n, wait |-> sends[m].wait /\ tab'[SenderOf[m]].page = "in", cut |-> c, at |-> a]
      BY <2>1, <2>3, <2>4 DEF Cut
    <3> QED
      BY <3>1, <3>3, <3>4, Zenon
  <2>7. /\ a \in [1 .. Tries -> SendSteps] /\ c \in 0 .. Tries /\ sends[m].n \in 0 .. Tries
        /\ \A i \in 1 .. Tries : a[i] = IF g /\ sends[m].at[i] = "sent" THEN "lost" ELSE sends[m].at[i]
    BY <2>3, <2>4, <2>5 DEF SendType, SendSteps
  <2>8. ASSUME sends[m] = NoSend PROVE sends'[m] = NoSend
    <3>1. sends[m].n = 0 /\ sends[m].wait = FALSE /\ sends[m].cut = 0 /\ sends[m].at = [i \in 1 .. Tries |-> "none"]
      BY <2>8 DEF NoSend
    <3>2. w = FALSE
      BY <2>2, <3>1
    <3>3. c = 0
      BY <2>4, <3>1
    <3>4. a = [i \in 1 .. Tries |-> "none"]
      BY <2>3, <3>1
    <3> QED
      BY <2>6, <3>1, <3>2, <3>3, <3>4 DEF NoSend
  <2>9. sends'[m] \in SendType
    BY <2>6, <2>7 DEF SendType
  <2>10. sends'[m].n = sends[m].n /\ sends'[m].wait = w /\ sends'[m].at = a
    BY <2>6
  <2> QED
    BY <2>2, <2>7, <2>8, <2>9, <2>10 DEF Mounted
<1>2. sends' \in [Messages -> SendType]
  <2>1. PICK q : q = [m \in Messages |-> Cut(m)]
    OBVIOUS
  <2>2. sends' = q
    BY <2>1 DEF ChatFollows
  <2> QED
    BY <1>1, <2>1, <2>2
<1>3. ~Chatting => ~Chatting'
  BY <1>1 DEF Chatting, ChatFollows
<1> QED
  BY <1>1, <1>2, <1>3

\* What a step of the tabs means for the chat of one.
LEMMA ChatIsFollowed ==
    ASSUME ChatInv, ChatFollows, NEW t \in Tabs
    PROVE  /\ chat'[t] \in ChatType
           /\ Mounted(t)' => /\ chat'[t].entry = chat[t].entry /\ chat'[t].once = chat[t].once /\ chat'[t].more = chat[t].more
                             /\ chat'[t].older = chat[t].older
                             /\ ~Reloads(t) => chat'[t] = chat[t]
                             /\ Reloads(t) => chat'[t].load.got = {} /\ ~Final(chat'[t].load)
                                              /\ (chat'[t].load.pc = "asked" \/ hook'[t].key = 0 \/ ~Chatting)
                                              /\ chat'[t].load.pc # "got"
           /\ ~Mounted(t)' => chat'[t] = NoChat
<1> DEFINE x == IF hook'[t].key # 0 /\ Chatting THEN [NoPage EXCEPT !.pc = "asked"] ELSE NoPage
           again == [chat[t] EXCEPT !.load = x]
<1>t. chat[t] \in ChatType
  BY DEF ChatInv, ChatTypes
<1>1. /\ x \in HistoryType /\ x.got = {} /\ x.pc # "got" /\ ~Final(x)
      /\ x.pc = "asked" \/ hook'[t].key = 0 \/ ~Chatting
  BY DEF NoPage, HistoryType, Final
<1>2. chat'[t] = IF tab'[t].page # "in" THEN NoChat ELSE IF ~Reloads(t) THEN chat[t] ELSE again
  BY DEF ChatFollows
<1> HIDE DEF x
<1>3. /\ again \in ChatType /\ again.entry = chat[t].entry /\ again.once = chat[t].once /\ again.more = chat[t].more
      /\ again.older = chat[t].older /\ again.load = x
  BY <1>t, <1>1 DEF ChatType
<1> HIDE DEF again
<1>4. NoChat \in ChatType
  <2>1. NoPage \in HistoryType
    BY DEF NoPage, HistoryType
  <2> QED
    BY <2>1 DEF NoChat, ChatType
<1> QED
  BY <1>t, <1>1, <1>2, <1>3, <1>4 DEF Mounted

\* What a step of the tabs means for what one has still to hear, and missed.
LEMMA HearingFollows ==
    ASSUME ChatInv, KeysTypes, ChatFollows, todo' \subseteq todo, NEW t \in Tabs
    PROVE  /\ UNCHANGED rows /\ Posted' = Posted /\ LastPage' = LastPage /\ Posted \subseteq Messages
           /\ Coming(t)' \subseteq Coming(t) /\ Coming(t) \subseteq Posted
           /\ ~(t \in channel \ channel') => Coming(t)' = Coming(t)
           /\ missed'[t] = IF tab'[t].page = "away" THEN {} ELSE Misses(t)
           /\ missed'[t] \subseteq Posted
<1>t. ChatTypes /\ live \subseteq channel \X Posted /\ Posted \subseteq Messages /\ rows \in Seq(Messages) /\ IsInjective(rows)
  BY DEF ChatInv, ChatTypes, Posted, ToSet
<1>1. UNCHANGED rows /\ Posted' = Posted /\ LastPage' = LastPage /\ live' = {x \in live : x[1] \in channel'}
  BY DEF ChatFollows, Posted, LastPage, PageBefore
<1>2. \A m \in Messages : Emitting(m)' <=> Emitting(m)
  BY SendsFollow DEF Emitting
<1>3. Coming(t) \subseteq Posted /\ Coming(t)' \subseteq Coming(t)
  BY <1>t, <1>1, <1>2 DEF Coming
<1>4. ASSUME ~(t \in channel \ channel') PROVE Coming(t)' = Coming(t)
  <2>1. ASSUME NEW m \in Posted, <<t, m>> \in live PROVE <<t, m>> \in live'
    <3>1. PICK x : x = <<t, m>>
      OBVIOUS
    <3>2. x \in live /\ x[1] = t /\ t \in channel
      BY <1>t, <2>1, <3>1
    <3> QED
      BY <1>1, <1>4, <3>1, <3>2
  <2> QED
    BY <1>t, <1>1, <1>2, <1>3, <2>1 DEF Coming
<1>5. missed'[t] = IF tab'[t].page = "away" THEN {} ELSE Misses(t)
  BY DEF ChatFollows
<1>6. Misses(t) \subseteq Posted
  <2>1. HistoryOk(t)
    BY DEF ChatInv, ChatOk
  <2>2. After(Coming(t)) \subseteq Posted
    BY <1>t, AfterAfter
  <2> QED
    BY <1>3, <2>1, <2>2 DEF Misses, HistoryOk
<1> QED
  BY <1>t, <1>1, <1>3, <1>4, <1>5, <1>6

\* A step of the tabs leaves a tab as the invariant says.
LEMMA ChatOfTabFollows ==
    ASSUME ChatInv, KeysTypes, ChatFollows, todo' \subseteq todo, NEW t \in Tabs, TabOk(t), Moves(t),
           Mounted(t) /\ Signed(t)' => Signed(t)
    PROVE  ChatOk(t)'
<1>i. ChatOk(t) /\ SeatOk(t) /\ HistoryOk(t) /\ ReadOk(t)
  BY DEF ChatInv, ChatOk
<1>t. /\ rows \in Seq(Messages) /\ IsInjective(rows) /\ tab[t].page \in {"away", "joining", "in"}
      /\ tab'[t].page \in {"away", "joining", "in"}
  <2>1. ChatTypes /\ tab[t] \in TabType
    BY DEF ChatInv, KeysTypes
  <2> QED
    BY <2>1 DEF ChatTypes, TabType, Moves
<1>c. /\ Mounted(t)' => /\ chat'[t].entry = chat[t].entry /\ chat'[t].once = chat[t].once /\ chat'[t].more = chat[t].more
                        /\ chat'[t].older = chat[t].older
                        /\ ~Reloads(t) => chat'[t] = chat[t]
                        /\ Reloads(t) => chat'[t].load.got = {} /\ ~Final(chat'[t].load)
                                         /\ (chat'[t].load.pc = "asked" \/ hook'[t].key = 0 \/ ~Chatting)
                                         /\ chat'[t].load.pc # "got"
      /\ ~Mounted(t)' => chat'[t] = NoChat
  BY ChatIsFollowed
<1>h. /\ UNCHANGED rows /\ Posted' = Posted /\ LastPage' = LastPage /\ Posted \subseteq Messages
      /\ Coming(t)' \subseteq Coming(t) /\ Coming(t) \subseteq Posted
      /\ ~(t \in channel \ channel') => Coming(t)' = Coming(t)
      /\ missed'[t] = IF tab'[t].page = "away" THEN {} ELSE Misses(t)
      /\ missed'[t] \subseteq Posted
  BY HearingFollows
<1>s. /\ ~Chatting => ~Chatting'
      /\ \A m \in Messages : Underway(m)' => Underway(m)
  BY SendsFollow DEF Underway
<1>n. /\ NoChat.entry = [m \in Messages |-> "none"] /\ ~NoChat.once /\ ~NoChat.more /\ NoChat.load = NoPage /\ NoChat.older = NoPage
      /\ NoPage.pc = "none" /\ NoPage.got = {}
  BY DEF NoChat, NoPage
<1>1. SeatOk(t)'
  BY <1>i, <1>t DEF SeatOk, Moves, TabOk
<1>2. HistoryOk(t)'
  <2>1. CASE Mounted(t)'
    BY <1>i, <1>c, <1>h, <2>1 DEF HistoryOk
  <2>2. CASE ~Mounted(t)'
    BY <1>c, <1>h, <1>n, <2>2 DEF HistoryOk
  <2> QED
    BY <2>1, <2>2
<1>3. ReadOk(t)'
  <2> SUFFICES ASSUME Mounted(t)', Signed(t)', hook'[t].key # 0, chat'[t].load.pc # "asked"
               PROVE  /\ t \in channel' /\ tab'[t].join = "none" /\ missed'[t] \subseteq LastPage'.got => missed'[t] = {}
                      /\ chat'[t].once \/ chat'[t].load.pc = "got" \/ ~Chatting'
    BY DEF ReadOk
  <2>1. CASE Reloads(t)
    <3>1. ~Chatting /\ ~Chatting'
      BY <1>c, <1>s, <2>1
    <3>2. Posted = {}
      BY <3>1 DEF Chatting, Posted, ToSet
    <3> QED
      BY <1>h, <3>1, <3>2
  <2>2. CASE ~Reloads(t)
    <3>1. Mounted(t) /\ hook[t].key # 0 /\ chat'[t] = chat[t]
      BY <1>c, <2>2 DEF Reloads, NewKey, Moves, Mounted
    <3>2. /\ t \in channel /\ tab[t].join = "none" /\ missed[t] \subseteq LastPage.got => missed[t] = {}
          /\ chat[t].once \/ chat[t].load.pc = "got" \/ ~Chatting
      BY <1>i, <3>1 DEF ReadOk
    <3>3. t \in channel' /\ tab'[t].join = "none" => t \in channel /\ tab[t].join = "none" /\ missed'[t] = missed[t]
      BY <1>h, <2>2, <3>1 DEF Moves, Mounted, Reloads, Misses
    <3> QED
      BY <1>h, <1>s, <3>1, <3>2, <3>3
  <2> QED
    BY <2>1, <2>2
<1>4. ASSUME t \notin gaps', tab'[t].page = "away" PROVE OwnOk(t)' /\ ~Present(t)'
  BY <1>1, <1>4 DEF OwnOk, Present, Mounted, SeatOk
<1>5. ASSUME t \notin gaps', tab'[t].page # "away" PROVE t \notin gaps /\ (tab[t].page = "away" => ~Sending(t)) /\ OwnOk(t)
  <2>1. t \notin gaps /\ (tab[t].page = "away" => ~Sending(t))
    BY <1>5 DEF ChatFollows
  <2> QED
    BY <1>i, <2>1 DEF ChatOk
<1>6. ASSUME t \notin gaps', tab'[t].page # "away" PROVE OwnOk(t)'
  <2> SUFFICES ASSUME NEW m \in Messages, SenderOf[m] = t, Underway(m)'
               PROVE  tab'[t].page # "joining" /\ (Mounted(t)' => chat'[t].entry[m] # "none")
    BY DEF OwnOk
  <2>1. Underway(m)
    BY <1>s
  <2>2. tab[t].page # "joining" /\ tab[t].page # "away"
    <3>1. Sending(t)
      BY <2>1 DEF Sending, Underway
    <3> QED
      BY <1>5, <1>6, <2>1, <3>1 DEF OwnOk
  <2>3. Mounted(t) /\ chat[t].entry[m] # "none"
    BY <1>t, <1>5, <1>6, <2>1, <2>2 DEF OwnOk, Mounted
  <2> QED
    BY <1>c, <2>3 DEF Moves, Mounted
<1>7. ASSUME t \notin gaps', Present(t)' PROVE WholeOk(t)'
  <2>0. tab'[t].page # "away" /\ t \notin gaps /\ (Present(t) => WholeOk(t))
    BY <1>i, <1>4, <1>5, <1>7 DEF ChatOk
  <2>1. CASE Mounted(t)'
    <3>1. (Mounted(t) \/ t \in channel) /\ (t \in channel' => t \in channel \/ Mounted(t))
      BY <1>i, <1>t, <2>1 DEF Moves, Mounted, SeatOk
    <3>2. WholeOk(t)
      BY <2>0, <3>1 DEF Present
    <3>3. missed'[t] = missed[t] \union (IF t \in channel \ channel' THEN Coming(t) ELSE {})
                          \union (IF Reloads(t) THEN chat[t].load.got \ Shown(t) ELSE {})
      BY <1>h, <2>0, <3>1 DEF Misses
    <3>4. Shown(t)' = Shown(t)
      BY <1>c, <2>1 DEF Shown
    <3>5. Known(t)' = Known(t)
      BY <1>c, <1>h, <2>1, <3>3, <3>4 DEF Known
    <3>6. Had(t) \subseteq Had(t)'
      BY <1>c, <2>1, <3>3, <3>4 DEF Had
    <3>7. After(Known(t))' = After(Known(t))
      BY <1>h, <3>5, AfterKept
    <3>8. (chat'[t].once /\ ~chat'[t].more) \/ Final(chat'[t].load) \/ Final(chat'[t].older)
            => Mounted(t) /\ ((chat[t].once /\ ~chat[t].more) \/ Final(chat[t].load) \/ Final(chat[t].older))
      BY <1>i, <1>c, <1>n, <2>1 DEF HistoryOk, Final
    <3>9. t \notin channel' => Coming(t)' \subseteq Had(t)'
      <4>1. CASE t \in channel
        BY <1>h, <3>3, <4>1 DEF Had
      <4>2. CASE t \notin channel
        BY <1>h, <3>2, <3>6, <4>2 DEF WholeOk
      <4> QED
        BY <4>1, <4>2
    <3> QED
      BY <1>h, <3>2, <3>5, <3>7, <3>8, <3>9 DEF WholeOk, Final
  <2>2. CASE ~Mounted(t)'
    <3>1. t \in channel' /\ tab[t].page = "joining" /\ ~Mounted(t)
      BY <1>i, <1>t, <1>7, <2>0, <2>2 DEF Present, Moves, Mounted, SeatOk
    <3>2. chat[t] = NoChat /\ chat'[t] = NoChat
      BY <1>i, <1>c, <2>2, <3>1 DEF HistoryOk
    <3>3. Coming(t)' = Coming(t)
      BY <1>h, <3>1
    <3>4. Shown(t) = {} /\ Shown(t)' = {}
      BY <1>n, <3>2 DEF Shown
    <3>5. Known(t) = Coming(t) \union missed[t] /\ Known(t)' = Coming(t) \union missed'[t]
      BY <1>n, <3>2, <3>3, <3>4 DEF Known
    <3>6. CASE t \in channel
      <4>1. missed'[t] = missed[t]
        BY <1>h, <1>n, <2>0, <3>1, <3>2, <3>6 DEF Misses
      <4>2. After(Known(t))' = After(Known(t)) /\ Known(t)' = Known(t)
        BY <1>h, <3>5, <4>1, AfterKept
      <4> QED
        BY <2>0, <2>2, <3>1, <3>6, <4>2 DEF WholeOk, Present
    <3>7. CASE t \notin channel
      <4>1. missed'[t] = After(Coming(t)) \ Coming(t)
        BY <1>h, <2>0, <3>1, <3>7 DEF Misses
      <4>2. Known(t)' = Coming(t) \union After(Coming(t))
        BY <3>5, <4>1
      <4>3. After(Known(t))' = After(Coming(t) \union After(Coming(t)))
        BY <1>h, <4>2 DEF After
      <4>4. After(Known(t))' \subseteq Known(t)'
        BY <1>t, <4>2, <4>3, AfterAfter
      <4> QED
        BY <2>2, <3>1, <4>4 DEF WholeOk
    <3> QED
      BY <3>6, <3>7
  <2> QED
    BY <2>1, <2>2
<1> QED
  BY <1>1, <1>2, <1>3, <1>4, <1>6, <1>7 DEF ChatOk

\* What a step of the tabs means for the chat.
LEMMA ChatThroughTabs ==
    ASSUME ChatInv, KeysTypes, \A t \in Tabs : TabOk(t), KeysNext, ChatFollows
    PROVE  ChatInv'
<1>1. todo' \subseteq todo /\ \A t \in Tabs : Moves(t) /\ (Mounted(t) /\ Signed(t)' => Signed(t))
  BY TabsMove, TabsStayOk
<1>2. \A t \in Tabs : ChatOk(t)'
  BY <1>1, ChatOfTabFollows
<1>3. ASSUME NEW t \in Tabs
      PROVE  /\ chat'[t] \in ChatType
             /\ Mounted(t)' => chat'[t].entry = chat[t].entry
             /\ ~Mounted(t)' => chat'[t] = NoChat
             /\ missed'[t] \subseteq Posted
  BY <1>1, <1>3, ChatIsFollowed, HearingFollows
<1>4. /\ sends' \in [Messages -> SendType]
      /\ \A m \in Messages : /\ sends'[m].n = sends[m].n
                             /\ sends'[m].wait => sends[m].wait /\ Mounted(SenderOf[m])'
                             /\ \A i \in 1 .. Tries : \/ sends'[m].at[i] = sends[m].at[i]
                                                      \/ sends'[m].at[i] = "lost" /\ sends[m].at[i] = "sent"
  BY <1>1, SendsFollow
<1>5. UNCHANGED rows /\ Posted' = Posted /\ Posted \subseteq Messages
  BY DEF ChatFollows, Posted, ToSet, ChatInv, ChatTypes
<1>6. ChatTypes'
  <2>1. chat' \in [Tabs -> ChatType]
    <3>1. chat' = [t \in Tabs |-> chat'[t]]
      BY DEF ChatFollows
    <3> QED
      BY <1>3, <3>1
  <2>2. missed' \in [Tabs -> SUBSET Messages]
    <3>1. missed' = [t \in Tabs |-> missed'[t]]
      BY DEF ChatFollows
    <3>2. \A t \in Tabs : missed'[t] \in SUBSET Messages
      BY <1>3, <1>5
    <3> QED
      BY <3>1, <3>2
  <2>3. live' \subseteq channel' \X Posted
    <3>1. live \subseteq channel \X Posted /\ live' = {x \in live : x[1] \in channel'}
      BY DEF ChatInv, ChatTypes, ChatFollows
    <3> QED
      BY <3>1
  <2>4. gaps' \subseteq Tabs
    BY DEF ChatFollows
  <2>5. ChatTypes
    BY DEF ChatInv
  <2> QED
    BY <1>4, <1>5, <2>1, <2>2, <2>3, <2>4, <2>5 DEF ChatTypes
<1>7. ASSUME NEW m \in Messages PROVE SendOk(m)'
  <2>1. SendOk(m) /\ SenderOf[m] \in Tabs
    BY ChatAssumption DEF ChatInv
  <2>2. chat'[SenderOf[m]].entry[m] = chat[SenderOf[m]].entry[m] \/ (~Mounted(SenderOf[m])' /\ chat'[SenderOf[m]].entry[m] = "none")
    BY <1>3, <2>1 DEF NoChat
  <2> QED
    BY <1>4, <1>5, <2>1, <2>2 DEF SendOk
<1> QED
  BY <1>2, <1>6, <1>7 DEF ChatInv

\* Steps that touch nothing the chat is about.
LEMMA ChatUntouched ==
    ASSUME ChatInv, Undisturbed, UNCHANGED chatVars, todo' \subseteq todo
    PROVE  ChatInv'
<1>1. Posted' = Posted /\ ChatTypes' /\ UNCHANGED <<rows, chat, live, sends, missed, gaps>>
  BY DEF ChatInv, ChatTypes, chatVars, Posted, Undisturbed
<1>2. ASSUME NEW m \in Messages PROVE SendOk(m)'
  <2>1. SendOk(m)
    BY DEF ChatInv
  <2> QED
    BY <1>1, <2>1 DEF SendOk, Mounted, Undisturbed
<1>3. ASSUME NEW t \in Tabs PROVE ChatOk(t)'
  <2>1. Coming(t)' = Coming(t)
    BY <1>1 DEF Coming, Emitting
  <2>2. ~Chatting => ~Chatting'
    BY <1>1 DEF Chatting
  <2>3. \A m \in Messages : Underway(m)' <=> Underway(m)
    BY <1>1 DEF Underway
  <2> QED
    BY <1>1, <2>1, <2>2, <2>3, ChatElsewhere DEF ChatInv
<1> QED
  BY <1>1, <1>2, <1>3 DEF ChatInv

\* Steps of the files take from what people are going to do, and add nothing.
LEMMA FilesTake ==
    ASSUME FilesNext
    PROVE  todo' \subseteq todo
<1>1. ASSUME NEW f \in Files, Upload(f) \/ Abort(f) \/ LoseAnswer(f) \/ UploadStep(f) \/ HourPasses(f) \/ WeekPasses(f)
                              \/ \E t \in Tabs : RemoveFile(t, f)
      PROVE  todo' \subseteq todo
  BY <1>1 DEF Upload, Abort, LoseAnswer, UploadStep, HourPasses, WeekPasses, RemoveFile, Does, Create, PutLands, PutDrops, CompleteFind,
              CompleteSize, CompleteUpdate, CompleteEmit, CompleteAnswer
<1>2. ASSUME NEW f \in Files, DeleteStep(f) PROVE todo' \subseteq todo
  BY <1>2 DEF DeleteStep, DeleteFind, DeleteObject, DeleteRow, DeleteEmit, Works, Falters, Does
<1>3. ASSUME NEW i \in Purgers, PurgeStep(i) \/ PurgeDies(i) PROVE todo' \subseteq todo
  BY <1>3 DEF PurgeStep, PurgeStart, PurgeFind, PurgeObject, PurgeRow, PurgeEmit, PurgeEnd, PurgeDies, Works, Falters, Does
<1>4. ASSUME NEW t \in Tabs, PanelStep(t) PROVE todo' \subseteq todo
  BY <1>4 DEF PanelStep, ListRead, ListDone, HearFile, Opened
<1>5. ASSUME LockExpires PROVE todo' \subseteq todo
  BY <1>5 DEF LockExpires, Does
<1> QED
  BY <1>1, <1>2, <1>3, <1>4, <1>5 DEF FilesNext

\* No step leaves a gap in the chat unexplained.
LEMMA ChatStep ==
    ASSUME ChatInv, ListInv, KeysInv, [Next]_contentVars
    PROVE  ChatInv'
<1>t. KeysTypes /\ \A t \in Tabs : TabOk(t)
  BY DEF KeysInv, ListInv
<1>1. ASSUME KeysNext, Follow PROVE ChatInv'
  BY <1>t, <1>1, ChatThroughTabs DEF Follow
<1>2. ASSUME ChatNext, Undisturbed PROVE ChatInv'
  <2>1. ASSUME NEW t \in Tabs, ChatTab(t) \/ OlderRead(t) PROVE ChatInv'
    BY <1>2, <2>1, ChatOnceRead, ChatOnceLoaded, ChatOnceOlderRead, ChatOnceOlder, ChatOnceHeard DEF ChatTab
  <2>2. ASSUME NEW m \in Messages, Send(m) \/ Retry(m) \/ Acked(m) \/ GiveUp(m) PROVE ChatInv'
    BY <1>2, <2>2, ChatOnceDelivered, ChatOnceAcked
  <2>3. ASSUME NEW m \in Messages, NEW i \in 1 .. Tries, SendCheck(m, i) \/ SendFind(m, i) \/ SendCreate(m, i) \/ SendEmit(m, i)
        PROVE  ChatInv'
    <3>1. CASE SendCheck(m, i)
      BY <1>2, <3>1, ChatOnceChecked
    <3>2. CASE SendFind(m, i)
      BY <1>2, <3>2, ChatOnceChecked, ChatOnceFound
    <3>3. CASE SendCreate(m, i)
      BY <1>2, <3>3, ChatOnceChecked, ChatOnceStored
    <3>4. CASE SendEmit(m, i)
      BY <1>t, <1>2, <3>4, ChatOnceTold
    <3> QED
      BY <2>3, <3>1, <3>2, <3>3, <3>4
  <2> QED
    BY <1>2, <2>1, <2>2, <2>3 DEF ChatNext, ChatServer
<1>3. ASSUME FilesNext, UNCHANGED <<keysRest, chatVars>> PROVE ChatInv'
  BY <1>3, FilesTake, ChatUntouched DEF keysRest, Undisturbed
<1>4. ASSUME UNCHANGED contentVars PROVE ChatInv'
  BY <1>4, ChatUntouched DEF contentVars, keysVars, Undisturbed
<1>5. UNCHANGED keysRest => Undisturbed
  BY DEF keysRest, Undisturbed
<1> QED
  BY <1>1, <1>2, <1>3, <1>4, <1>5 DEF Next

\* At the start a page that is open shows the last page of what was sent.
LEMMA ChatStart ==
    ASSUME Init
    PROVE  ChatInv
<1>1. PICK s \in Scripts : rows = s.posted
  BY DEF Init, ChatInit
<1>2. /\ chat = [t \in Tabs |-> IF ~Mounted(t) THEN NoChat ELSE
                   [Merged(NoChat, LastPage.got) EXCEPT !.once = TRUE, !.more = LastPage.more]]
      /\ live = {} /\ sends = [m \in Messages |-> NoSend] /\ missed = [t \in Tabs |-> {}] /\ gaps = {}
  BY DEF Init, ChatInit
<1>3. rows \in Seq(Messages) /\ IsInjective(rows) /\ Posted \subseteq Messages
  BY <1>1, ChatAssumption DEF Posted, ToSet
<1>p. /\ LastPage \in HistoryType /\ LastPage.pc = "got" /\ LastPage.got \subseteq Posted
      /\ After(LastPage.got) \subseteq LastPage.got /\ (~LastPage.more => Posted \subseteq LastPage.got)
  BY <1>3, LastPageIs
<1>4. PICK k \in Scripts :
        /\ tab = [u \in Tabs |-> [auth |-> u \in k.signedIn, join |-> "none", seen |-> 0,
                                  page |-> IF u \in k.inCall THEN "in" ELSE "away"]]
        /\ channel = k.inCall
  BY DEF Init, KeysInit
<1>5. ASSUME NEW t \in Tabs PROVE tab[t].join = "none" /\ (Mounted(t) <=> t \in channel) /\ tab[t].page \in {"in", "away"}
  BY <1>4 DEF Mounted
<1>n. /\ NoPage \in HistoryType /\ NoChat \in ChatType /\ ~NoChat.once /\ ~NoChat.more /\ NoChat.load = NoPage /\ NoChat.older = NoPage
      /\ NoPage.pc = "none" /\ NoPage.got = {} /\ NoChat.entry = [m \in Messages |-> "none"]
  <2>1. NoPage \in HistoryType
    BY DEF NoPage, HistoryType
  <2> QED
    BY <2>1 DEF NoPage, NoChat, ChatType
<1>6. ASSUME NEW t \in Tabs
      PROVE  /\ chat[t] \in ChatType /\ chat[t].load = NoPage /\ chat[t].older = NoPage
             /\ ~Mounted(t) => chat[t] = NoChat
             /\ Mounted(t) => /\ chat[t].once /\ chat[t].more = LastPage.more
                              /\ \A m \in Messages : chat[t].entry[m] = IF m \in LastPage.got THEN "sent" ELSE "none"
  <2> DEFINE d == Merged(NoChat, LastPage.got)
             c == [d EXCEPT !.once = TRUE, !.more = LastPage.more]
  <2>1. LastPage.got \in SUBSET Messages /\ LastPage.more \in BOOLEAN
    BY <1>p DEF HistoryType
  <2>2. d \in ChatType /\ d.load = NoPage /\ d.older = NoPage /\ \A m \in Messages : d.entry[m] = IF m \in LastPage.got THEN "sent" ELSE "none"
    BY <1>n, <2>1, MergedIs
  <2>3. chat[t] = IF ~Mounted(t) THEN NoChat ELSE c
    BY <1>2
  <2> HIDE DEF d
  <2>4. c \in ChatType /\ c.load = NoPage /\ c.older = NoPage /\ c.entry = d.entry /\ c.once /\ c.more = LastPage.more
    BY <2>1, <2>2 DEF ChatType
  <2> HIDE DEF c
  <2> QED
    BY <1>n, <2>2, <2>3, <2>4
<1>7. ASSUME NEW m \in Messages
      PROVE  /\ sends[m] = NoSend /\ NoSend \in SendType /\ NoSend.n = 0 /\ ~NoSend.wait
             /\ \A i \in 1 .. Tries : NoSend.at[i] = "none"
  <2>1. [i \in 1 .. Tries |-> "none"] \in [1 .. Tries -> SendSteps] /\ 0 \in 0 .. Tries
    BY ChatAssumption DEF SendSteps
  <2> QED
    BY <1>2, <2>1 DEF NoSend, SendType
<1>8. ChatTypes
  <2>1. chat \in [Tabs -> ChatType]
    BY <1>2, <1>6
  <2>2. sends \in [Messages -> SendType]
    BY <1>2, <1>7
  <2> QED
    BY <1>2, <1>3, <2>1, <2>2 DEF ChatTypes
<1>9. ASSUME NEW m \in Messages PROVE SendOk(m)
  <2>1. SenderOf[m] \in Tabs
    BY ChatAssumption
  <2>2. chat[SenderOf[m]].entry[m] \in {"none", "sent"}
    BY <1>6, <1>n, <2>1
  <2> QED
    BY <1>7, <2>2 DEF SendOk
<1>10. ASSUME NEW t \in Tabs PROVE ChatOk(t)
  <2>1. missed[t] = {}
    BY <1>2
  <2>2. Coming(t) = {}
    BY <1>2, <1>3, <1>7 DEF Coming, Emitting
  <2>3. Mounted(t) => Shown(t) = LastPage.got
    BY <1>3, <1>p, <1>6 DEF Shown
  <2>4. SeatOk(t)
    BY <1>5 DEF SeatOk, Mounted
  <2>5. HistoryOk(t)
    BY <1>6, <1>n, <2>1 DEF HistoryOk
  <2>6. ReadOk(t)
    BY <1>6, <2>1 DEF ReadOk
  <2>7. OwnOk(t)
    BY <1>7 DEF OwnOk, Underway
  <2>8. ASSUME Present(t) PROVE WholeOk(t)
    <3>1. Mounted(t) /\ t \in channel
      BY <1>5, <2>8 DEF Present
    <3>2. Known(t) = LastPage.got
      BY <1>6, <1>n, <2>1, <2>2, <2>3, <3>1 DEF Known
    <3> QED
      BY <1>6, <1>n, <1>p, <3>1, <3>2 DEF WholeOk, Final
  <2> QED
    BY <2>4, <2>5, <2>6, <2>7, <2>8 DEF ChatOk
<1> QED
  BY <1>8, <1>9, <1>10 DEF ChatInv

\* Joining, getting the key late, losing the connection and loading older pages
\* leave no gap in the chat of a tab that has not missed more than a page, and
\* what it has not shown yet it can still load.
THEOREM NothingIsLeftOut == Spec => []Complete
<1>1. Init => KeysInv /\ FilesInv /\ ListInv /\ ChatInv
  BY KeysStart, FilesStart, ListsStart, ChatStart DEF Init
<1>2. KeysInv /\ FilesInv /\ ListInv /\ ChatInv /\ [Next]_contentVars => (KeysInv /\ FilesInv /\ ListInv /\ ChatInv)'
  BY KeysStep, FilesStep, ListsStep, ChatStep
<1>3. ASSUME ChatInv PROVE Complete
  <2> SUFFICES ASSUME NEW t \in Tabs, ChatRests(t), t \notin gaps, missed[t] \subseteq LastPage.got
               PROVE  Gapless(t) /\ (chat[t].more \/ \A m \in Posted : chat[t].entry[m] # "none")
    BY DEF Complete
  <2>t. rows \in Seq(Messages) /\ Posted \subseteq Messages
    BY <1>3 DEF ChatInv, ChatTypes, Posted, ToSet
  <2>1. WholeOk(t) /\ ReadOk(t)
    BY <1>3 DEF ChatInv, ChatOk, ChatRests, Present
  <2>2. missed[t] = {} /\ (chat[t].once \/ ~Chatting)
    BY <2>1 DEF ReadOk, ChatRests, NoPage
  <2>3. Known(t) = Shown(t)
    BY <2>2 DEF Known, ChatRests, NoPage
  <2>4. Gapless(t)
    <3> SUFFICES ASSUME NEW i \in DOMAIN rows, NEW j \in DOMAIN rows, i < j, chat[t].entry[rows[i]] = "sent"
                 PROVE  chat[t].entry[rows[j]] # "none"
      BY DEF Gapless
    <3>1. rows[i] \in Shown(t)
      BY <2>t DEF Shown
    <3>2. i \in 1 .. j - 1
      BY <2>t
    <3>3. rows[j] \in After(Known(t))
      BY <2>3, <3>1, <3>2 DEF After
    <3> QED
      BY <2>1, <2>3, <3>3 DEF WholeOk, Shown
  <2>5. ~chat[t].more => \A m \in Posted : chat[t].entry[m] # "none"
    <3>1. ~Chatting => Posted = {}
      BY DEF Chatting, Posted, ToSet
    <3> QED
      BY <2>1, <2>2, <2>3, <3>1 DEF WholeOk, ChatRests, Shown
  <2> QED
    BY <2>4, <2>5
<1> QED
  BY <1>1, <1>2, <1>3, PTL DEF Spec
=============================================================================
