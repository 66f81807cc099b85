------------------------------ MODULE RoomKeys ------------------------------
(***************************************************************************)
(* How the members of one room come by its end-to-end key.                 *)
(*                                                                         *)
(* Server: keys.service.ts over the rows of User, Room and RoomMember, the *)
(* part of join in room.gateway.ts that asks for a key, and resetPassword  *)
(* where it drops keys. Browser: keystore.ts (the key pair of a person, on *)
(* this device) and useRoomKey.ts (obtaining and granting the room's key). *)
(* Every await is a step; each query reads what is committed by then.      *)
(*                                                                         *)
(* Key pairs of a person and keys of the room are numbered as they are     *)
(* made; 0 is none. A sealed copy is <<key, pair it can be opened with>>.  *)
(* What reaches a tab is a set: a message is handled after the last of its *)
(* like was sent.                                                          *)
(***************************************************************************)
EXTENDS Integers, Sequences, FiniteSets

CONSTANTS
  People,
  Tabs,
  PersonOf,    \* whose tab it is; each tab is a browser of its own
  MaxKeys,     \* bound on the room keys made
  MaxPairs,    \* bound on the key pairs of a person
  Slots,       \* bound on the calls of resolve at once in a tab
  Scripts,     \* how things stand and what people may be going to do
  None

ASSUME RoomKeysAssumption ==
  /\ PersonOf \in [Tabs -> People]
  /\ MaxKeys \in Nat /\ MaxPairs \in Nat \ {0} /\ Slots \subseteq Nat
  /\ None \notin (Nat \union People) \X Nat

\* Who holds the room's key is a member with a key pair, and whoever is in the
\* call with the key is signed in, and holds it.
ASSUME ScriptsAssumption ==
  \A s \in Scripts :
    /\ s.members \subseteq People /\ s.holders \subseteq s.members \cap s.paired
    /\ \A t \in s.inCall : t \in Tabs \cap s.signedIn /\ PersonOf[t] \in s.holders

VARIABLES
  account,    \* User.publicKey: a key pair of each person
  member,     \* people with a RoomMember row
  wrapped,    \* RoomMember.wrappedRoomKey
  check,      \* Room.keyCheck: the key it is the fingerprint of
  revoked,    \* tabs whose session has been revoked
  channel,    \* tabs in the room's channel, with a seat in the call
  made,       \* room keys made so far
  device,     \* the pair kept on the device
  store,      \* useKeys and the operation of its queue that is running
  tab,        \* signed in, where the page is, and join
  hook,       \* useRoomKey: its key, status, the roster and those passed over
  resolve,    \* obtainRoomKey, by tab and slot
  grant,      \* grantPending: passes waiting, and the one running
  mail,       \* messages on their way: <<tab, kind>>
  todo,       \* what people, and faults, are still going to do: <<what, to what>>
  asked,      \* (history) <<tab, person>>: its pass read that the person lacks the key
  dropped     \* (history) keys of which a copy was dropped; 0: there was a reset

db == <<account, member, wrapped, check>>
keysVars == <<db, revoked, channel, made, device, store, tab, hook, resolve, grant, mail, todo,
          asked, dropped>>

Idle == [pc |-> "idle", pair |-> 0, retry |-> FALSE, again |-> FALSE, check |-> 0,
         copy |-> None, key |-> 0]
NoGrant == [pc |-> "idle", queue |-> <<>>, key |-> 0, list |-> {}, to |-> None]
NoHook == [status |-> "none", key |-> 0, roster |-> {}, skipped |-> {}]
NoStore == [status |-> "idle", pair |-> 0, op |-> "none", right |-> TRUE,
            forget |-> FALSE]

\* A script says who has a key pair, a seat in earlier calls and the room's
\* key, which browsers keep a pair, who is signed in, and which tabs are in the
\* call with the key already.
KeysInit ==
  \E s \in Scripts :
    /\ account = [p \in People |-> IF p \in s.paired THEN 1 ELSE 0]
    /\ member = s.members
    /\ wrapped = [p \in People |-> IF p \in s.holders THEN <<1, 1>> ELSE None]
    /\ check = IF s.holders = {} THEN 0 ELSE 1
    /\ made = check
    /\ device = [t \in Tabs |-> IF t \in s.devices THEN account[PersonOf[t]] ELSE 0]
    /\ tab = [t \in Tabs |-> [auth |-> t \in s.signedIn, join |-> "none", seen |-> 0,
                              page |-> IF t \in s.inCall THEN "in" ELSE "away"]]
    /\ store = [t \in Tabs |-> IF t \in s.inCall
                                THEN [NoStore EXCEPT !.status = "ready", !.pair = 1] ELSE NoStore]
    /\ hook = [t \in Tabs |-> IF t \in s.inCall
                 THEN [NoHook EXCEPT !.status = "ready", !.key = 1,
                                     !.roster = {PersonOf[u] : u \in s.inCall}]
                 ELSE NoHook]
    /\ channel = s.inCall
    /\ todo = s.ops
    /\ revoked = {} /\ mail = {} /\ asked = {} /\ dropped = {}
    /\ resolve = [r \in Tabs \X Slots |-> Idle]
    /\ grant = [t \in Tabs |-> NoGrant]

Mounted(t) == tab[t].page = "in"
Signed(t)  == tab[t].auth /\ t \notin revoked
CopyOf(p)  == IF wrapped[p] = None THEN {} ELSE {wrapped[p][1]}
Holders    == {p \in member : wrapped[p] # None}
Does(op, t) == <<op, t>> \in todo /\ todo' = todo \ {<<op, t>>}

\* resolve is called: nothing waits for the calls before it.
Resolving(rs, t, pair) ==
  LET free == {s \in Slots : rs[<<t, s>>].pc = "idle"} IN
  IF free = {} THEN rs
  ELSE [rs EXCEPT ![<<t, CHOOSE s \in free : \A u \in free : s <= u>>] =
          [Idle EXCEPT !.pc = "room", !.pair = pair, !.retry = TRUE]]

\* grantPending is called: one pass at a time, with the key of this moment.
Granting(g, key) == IF Len(g.queue) < 2 THEN [g EXCEPT !.queue = Append(@, key)] ELSE g

Quiet(t) == grant[t] = NoGrant /\ \A s \in Slots : resolve[<<t, s>>] = Idle

-----------------------------------------------------------------------------
(* keystore.ts. Operations of a tab run one after the other.               *)

StoreIs(t, s) == store' = [store EXCEPT ![t] = s]

\* A pair is in the store: whoever shows the room resolves its key with it.
Ready(t, pair) ==
  /\ StoreIs(t, [store[t] EXCEPT !.status = "ready", !.pair = pair, !.op = "none"])
  /\ resolve' = IF Mounted(t) THEN Resolving(resolve, t, pair) ELSE resolve

\* The sign-in, or the password typed into the form of a locked store.
Unlock(t) ==
  /\ store[t].op = "none" /\ ~store[t].forget
  /\ \/ Does("login", t) /\ ~tab[t].auth
     \/ Does("unlock", t) /\ store[t].status = "locked"
  /\ \E right \in IF tab[t].auth THEN BOOLEAN ELSE {TRUE} :
       StoreIs(t, [NoStore EXCEPT !.status = "working", !.op = "read", !.right = right])
  /\ revoked' = revoked \ IF tab[t].auth THEN {} ELSE {t}
  /\ UNCHANGED <<db, channel, made, device, tab, hook, resolve, grant, mail, asked, dropped>>

\* getMyKeys, the first time or after another tab was first.
UnlockRead(t) ==
  LET p == PersonOf[t] IN
  /\ store[t].op \in {"read", "reread"} /\ t \notin revoked
  /\ IF account[p] = 0 /\ store[t].op = "read"
     THEN StoreIs(t, [store[t] EXCEPT !.op = "create"]) /\ UNCHANGED <<device, resolve>>
     ELSE IF account[p] # 0 /\ store[t].right
     THEN Ready(t, account[p]) /\ device' = [device EXCEPT ![t] = account[p]]
     ELSE /\ StoreIs(t, [store[t] EXCEPT !.status = "locked", !.op = "none"])
          /\ UNCHANGED <<device, resolve>>
  /\ UNCHANGED <<db, revoked, channel, made, tab, hook, grant, mail, todo, asked, dropped>>

\* Numbers a new pair: one more than any this person has made.
NewPair(p) ==
  LET S == {account[p]} \union {device[t] : t \in {u \in Tabs : PersonOf[u] = p}}
             \union {store[t].pair : t \in {u \in Tabs : PersonOf[u] = p}}
             \union {IF wrapped[p] = None THEN 0 ELSE wrapped[p][2]}
  IN  CHOOSE n \in 1 .. MaxPairs + 1 : n - 1 \in S /\ \A m \in S : m < n

Unset(p) == account[p] = 0

\* setUserKeys.
UnlockCreate(t) ==
  LET p == PersonOf[t] IN
  /\ store[t].op = "create" /\ t \notin revoked /\ NewPair(p) <= MaxPairs
  /\ IF Unset(p)
     THEN /\ account' = [account EXCEPT ![p] = NewPair(p)]
          /\ device' = [device EXCEPT ![t] = NewPair(p)]
          /\ Ready(t, NewPair(p))
     ELSE /\ StoreIs(t, [store[t] EXCEPT !.op = "reread"])
          /\ UNCHANGED <<account, device, resolve>>
  /\ UNCHANGED <<member, wrapped, check, revoked, channel, made, tab, hook, grant, mail, todo,
                 asked, dropped>>

\* login: whatever became of the keys, the session is set.
LoggedIn(t) ==
  /\ ~tab[t].auth /\ store[t].op = "none" /\ store[t].status # "idle" /\ ~store[t].forget
  /\ tab' = [tab EXCEPT ![t].auth = TRUE]
  /\ UNCHANGED <<db, revoked, channel, made, device, store, hook, resolve, grant, mail, todo,
                 asked, dropped>>

\* A session without a password: the pair of this device, if it is still the
\* account's.
Restore(t) ==
  LET p == PersonOf[t] IN
  /\ Signed(t) /\ store[t].status = "idle" /\ store[t].op = "none" /\ ~store[t].forget
  /\ IF device[t] # 0 /\ device[t] = account[p]
     THEN Ready(t, device[t]) /\ UNCHANGED device
     ELSE /\ StoreIs(t, [NoStore EXCEPT !.status = "locked"])
          /\ device' = [device EXCEPT ![t] = 0]
          /\ UNCHANGED resolve
  /\ UNCHANGED <<db, revoked, channel, made, tab, hook, grant, mail, todo, asked, dropped>>

\* Requests of a session that has been revoked fail.
StoreFails(t) ==
  /\ store[t].op # "none" /\ t \in revoked
  /\ StoreIs(t, [store[t] EXCEPT !.status = "error", !.op = "none"])
  /\ UNCHANGED <<db, revoked, channel, made, device, tab, hook, resolve, grant, mail, todo,
                 asked, dropped>>

ForgetKeys(t) ==
  /\ store[t].forget /\ store[t].op = "none"
  /\ StoreIs(t, NoStore)
  /\ device' = [device EXCEPT ![t] = 0]
  /\ UNCHANGED <<db, revoked, channel, made, tab, hook, resolve, grant, mail, todo,
                 asked, dropped>>

StoreStep(t) ==
  UnlockRead(t) \/ UnlockCreate(t) \/ StoreFails(t) \/ LoggedIn(t) \/ Restore(t) \/ ForgetKeys(t)

-----------------------------------------------------------------------------
(* resetPassword, and the tabs it signs out.                               *)

Reset(t) ==
  LET p == PersonOf[t] IN
  /\ Does("reset", t)
  /\ account' = [account EXCEPT ![p] = 0]
  /\ wrapped' = [wrapped EXCEPT ![p] = None]
  /\ revoked' = revoked \union {u \in Tabs : PersonOf[u] = p /\ (tab[u].auth \/ store[u].status # "idle")}
  /\ dropped' = dropped \union {0} \union CopyOf(p)
  /\ asked' = {a \in asked : a[2] # p}
  /\ UNCHANGED <<member, check, channel, made, device, store, tab, hook, resolve, grant, mail>>

Unmounted(t) ==
  /\ channel' = channel \ {t}
  /\ hook' = [hook EXCEPT ![t] = NoHook]
  /\ mail' = {m \in mail : m[1] # t}

Kicked(t) ==
  /\ t \in revoked /\ tab[t].auth
  /\ tab' = [tab EXCEPT ![t] = [@ EXCEPT !.auth = FALSE, !.page = "away", !.join = "none"]]
  /\ StoreIs(t, [store[t] EXCEPT !.forget = TRUE])
  /\ Unmounted(t)
  /\ UNCHANGED <<db, revoked, made, device, resolve, grant, todo, asked, dropped>>

-----------------------------------------------------------------------------
(* join in room.gateway.ts, and what of the room page comes and goes.      *)

\* Bounds: not while requests of an earlier visit are in flight, nor while
\* another tab of the person is in (what happens then: RoomGateway).
Enter(t) ==
  /\ Signed(t) /\ Quiet(t)
  /\ \A u \in Tabs : PersonOf[u] = PersonOf[t] => tab[u].page = "away"
  /\ Does("enter", t)
  /\ tab' = [tab EXCEPT ![t].page = "joining", ![t].join = "admit"]
  /\ UNCHANGED <<db, revoked, channel, made, device, store, hook, resolve, grant, mail,
                 asked, dropped>>

\* admit reads the room; everything after it uses that row.
JoinAdmit(t) ==
  /\ tab[t].join = "admit"
  /\ tab' = [tab EXCEPT ![t].join = "seat", ![t].seen = check]
  /\ UNCHANGED <<db, revoked, channel, made, device, store, hook, resolve, grant, mail, todo,
                 asked, dropped>>

JoinSeat(t) ==
  /\ tab[t].join = "seat"
  /\ channel' = channel \union {t}
  /\ tab' = [tab EXCEPT ![t].join = "record"]
  /\ UNCHANGED <<db, revoked, made, device, store, hook, resolve, grant, mail, todo,
                 asked, dropped>>

\* recordJoin.
JoinRecord(t) ==
  /\ tab[t].join = "record"
  /\ member' = member \union {PersonOf[t]}
  /\ tab' = [tab EXCEPT ![t].join = "ask"]
  /\ UNCHANGED <<account, wrapped, check, revoked, channel, made, device, store, hook, resolve,
                 grant, mail, todo, asked, dropped>>

\* 'room:key-requested' to each tab of S.
Announce(S) == mail' = mail \union (S \X {"requested"})

NeedsRoomKey(p) == p \in member /\ wrapped[p] = None /\ account[p] # 0

\* The newcomer is announced and gets the roster; the page shows the call.
JoinAsk(t) ==
  LET p == PersonOf[t] IN
  /\ tab[t].join = "ask"
  /\ IF tab[t].seen # 0 /\ NeedsRoomKey(p)
     THEN Announce(channel \ {t}) ELSE UNCHANGED mail
  /\ tab' = [tab EXCEPT ![t].join = "none", ![t].page = "in"]
  /\ hook' = IF Mounted(t) THEN hook
             ELSE [hook EXCEPT ![t].roster = {PersonOf[u] : u \in channel}]
  /\ resolve' = IF ~Mounted(t) /\ store[t].status = "ready"
                THEN Resolving(resolve, t, store[t].pair) ELSE resolve
  /\ UNCHANGED <<db, revoked, channel, made, device, store, grant, todo, asked, dropped>>

\* (Mutant: nobody looks at those passed over again.)
TurnsUpNever(t, now) == FALSE
TurnsUp(t, now) == hook[t].key # 0 /\ hook[t].skipped \cap now # {}

\* peer-joined and peer-left, rendered: those passed over may be there now.
Roster(t) ==
  LET now == {PersonOf[u] : u \in channel} IN
  /\ Mounted(t) /\ t \in channel /\ hook[t].roster # now
  /\ hook' = [hook EXCEPT ![t].roster = now]
  /\ grant' = IF TurnsUp(t, now)
              THEN [grant EXCEPT ![t] = Granting(@, hook[t].key)] ELSE grant
  /\ UNCHANGED <<db, revoked, channel, made, device, store, tab, resolve, mail, todo,
                 asked, dropped>>

Leave(t) ==
  /\ Mounted(t) /\ tab[t].join = "none" /\ Quiet(t)
  /\ Does("leave", t)
  /\ tab' = [tab EXCEPT ![t].page = "away"]
  /\ Unmounted(t)
  /\ UNCHANGED <<db, revoked, made, device, store, resolve, grant, asked, dropped>>

\* The connection drops; the page stays and comes back as a new socket.
Drop(t) ==
  /\ Mounted(t) /\ tab[t].join = "none"
  /\ Does("drop", t)
  /\ channel' = channel \ {t}
  /\ mail' = {m \in mail : m[1] # t}
  /\ tab' = [tab EXCEPT ![t].join = "offline"]
  /\ UNCHANGED <<db, revoked, made, device, store, hook, resolve, grant, asked, dropped>>

Reconnect(t) ==
  /\ tab[t].join = "offline" /\ Signed(t)
  /\ tab' = [tab EXCEPT ![t].join = "admit"]
  /\ resolve' = IF hook[t].key = 0 /\ store[t].status = "ready"
                THEN Resolving(resolve, t, store[t].pair) ELSE resolve
  /\ UNCHANGED <<db, revoked, channel, made, device, store, hook, grant, mail, todo,
                 asked, dropped>>

JoinStep(t) ==
  JoinAdmit(t) \/ JoinSeat(t) \/ JoinRecord(t) \/ JoinAsk(t) \/ Roster(t) \/ Reconnect(t) \/ Kicked(t)

-----------------------------------------------------------------------------
(* obtainRoomKey.                                                          *)

Goes(r, how) == resolve' = [resolve EXCEPT ![r] = how]

\* A request of a tab that is signed out is refused, which ends the call.
Refused(r) ==
  /\ resolve[r].pc \in {"room", "init", "clear"} /\ ~Signed(r[1])
  /\ Goes(r, Idle)
  /\ UNCHANGED <<db, revoked, channel, made, device, store, tab, hook, grant, mail, todo,
                 asked, dropped>>

GetRoom(r) ==
  /\ resolve[r].pc = "room" /\ Signed(r[1])
  /\ Goes(r, [resolve[r] EXCEPT !.pc = "member", !.check = check])
  /\ UNCHANGED <<db, revoked, channel, made, device, store, tab, hook, grant, mail, todo,
                 asked, dropped>>

GetMember(r) ==
  /\ resolve[r].pc = "member"
  /\ Goes(r, [resolve[r] EXCEPT !.pc = "count", !.copy = wrapped[PersonOf[r[1]]]])
  /\ UNCHANGED <<db, revoked, channel, made, device, store, tab, hook, grant, mail, todo,
                 asked, dropped>>

Opens(a) == a.copy = <<a.check, a.pair>>

\* The holders are counted, and the tab decides what to do with the answer.
GetCount(r) ==
  LET a == resolve[r] IN
  /\ a.pc = "count"
  /\ IF ~a.again /\ (a.check = 0 \/ (a.copy = None /\ Holders = {}))
     THEN /\ made < MaxKeys
          /\ made' = made + 1
          /\ Goes(r, [a EXCEPT !.pc = "init", !.key = made + 1])
     ELSE /\ UNCHANGED made
          /\ IF a.copy = None THEN Goes(r, [a EXCEPT !.pc = "done", !.key = 0])
             ELSE IF Opens(a) THEN Goes(r, [a EXCEPT !.pc = "done", !.key = a.copy[1]])
             ELSE Goes(r, [a EXCEPT !.pc = "clear"])
  /\ UNCHANGED <<db, revoked, channel, device, store, tab, hook, grant, mail, todo,
                 asked, dropped>>

Conflict(a) == [a EXCEPT !.pc = "room", !.again = TRUE]

\* initRoomKey: the transaction reads the fingerprint and counts the holders.
InitRead(r) ==
  /\ resolve[r].pc = "init" /\ Signed(r[1])
  /\ Goes(r, IF check # 0 /\ Holders # {} THEN Conflict(resolve[r])
             ELSE [resolve[r] EXCEPT !.pc = "claim", !.check = check])
  /\ UNCHANGED <<db, revoked, channel, made, device, store, tab, hook, grant, mail, todo,
                 asked, dropped>>

\* (Mutant: the fingerprint is written whatever it is by now.)
ClaimsAlways(a) == TRUE
Claims(a) == check = a.check

InitClaim(r) ==
  LET a == resolve[r] IN
  /\ a.pc = "claim"
  /\ IF Claims(a)
     THEN /\ check' = a.key
          /\ wrapped' = [wrapped EXCEPT ![PersonOf[r[1]]] = <<a.key, a.pair>>]
          /\ Goes(r, [a EXCEPT !.pc = "done"])
     ELSE Goes(r, Conflict(a)) /\ UNCHANGED <<check, wrapped>>
  /\ UNCHANGED <<account, member, revoked, channel, made, device, store, tab, hook, grant, mail,
                 todo, asked, dropped>>

\* clearMyRoomKey, and one more attempt.
ClearMine(r) ==
  LET a == resolve[r] IN
  /\ a.pc = "clear" /\ Signed(r[1])
  /\ wrapped' = [wrapped EXCEPT ![PersonOf[r[1]]] = None]
  /\ dropped' = dropped \union CopyOf(PersonOf[r[1]])
  /\ Announce(channel)
  /\ Goes(r, IF a.retry THEN [a EXCEPT !.pc = "room", !.retry = FALSE, !.again = FALSE]
             ELSE [a EXCEPT !.pc = "done", !.key = 0])
  /\ UNCHANGED <<account, member, check, revoked, channel, made, device, store, tab, hook, grant,
                 todo, asked>>

\* Whatever resolve brings is a new key to the panels, also when it is the same.
NewKey(t) ==
  \/ hook'[t].key # hook[t].key
  \/ \E s \in Slots : resolve[<<t, s>>].pc = "done" /\ resolve'[<<t, s>>].pc # "done"

Resolved(r) ==
  LET t == r[1]
      k == resolve[r].key IN
  /\ resolve[r].pc = "done"
  /\ Goes(r, Idle)
  /\ IF Mounted(t)
     THEN /\ hook' = [hook EXCEPT ![t].key = k, ![t].status = IF k = 0 THEN "waiting" ELSE "ready"]
          /\ grant' = IF k = 0 THEN grant ELSE [grant EXCEPT ![t] = Granting(@, k)]
     ELSE UNCHANGED <<hook, grant>>
  /\ UNCHANGED <<db, revoked, channel, made, device, store, tab, mail, todo, asked, dropped>>

ResolveStep(r) ==
  \/ Refused(r) \/ GetRoom(r) \/ GetMember(r) \/ GetCount(r)
  \/ InitRead(r) \/ InitClaim(r) \/ ClearMine(r) \/ Resolved(r)

-----------------------------------------------------------------------------
(* grantPending and grantRoomKey.                                          *)

Passes(t, how) == grant' = [grant EXCEPT ![t] = how]

\* keyRequests: members who lack the key and can be sent it.
PassRead(t) ==
  LET g == grant[t] IN
  /\ g.pc = "idle" /\ g.queue # <<>>
  /\ Passes(t, [g EXCEPT !.pc = IF Signed(t) THEN "pick" ELSE "idle", !.queue = Tail(@),
                  !.key = IF Signed(t) THEN Head(g.queue) ELSE 0,
                  !.list = IF Signed(t) /\ check # 0
                           THEN {<<p, account[p]>> : p \in {q \in member : NeedsRoomKey(q)}}
                           ELSE {}])
  /\ asked' = IF Signed(t) /\ check # 0
              THEN asked \union ({t} \X {q \in member : NeedsRoomKey(q)}) ELSE asked
  /\ UNCHANGED <<db, revoked, channel, made, device, store, tab, hook, resolve, mail, todo,
                 dropped>>

\* The next of them, passed over if not in the call as this tab sees it.
PassPick(t) ==
  LET g == grant[t] IN
  /\ g.pc = "pick"
  /\ \/ /\ g.list = {}
        /\ Passes(t, [NoGrant EXCEPT !.queue = g.queue])
        /\ UNCHANGED hook
     \/ \E to \in g.list :
          LET here == to[1] \in hook[t].roster IN
          /\ hook' = [hook EXCEPT ![t].skipped = IF here THEN @ \ {to[1]} ELSE @ \union {to[1]}]
          /\ Passes(t, [g EXCEPT !.list = @ \ {to}, !.to = IF here THEN to ELSE None,
                                 !.pc = IF here THEN "granter" ELSE "pick"])
  /\ UNCHANGED <<db, revoked, channel, made, device, store, tab, resolve, mail, todo,
                 asked, dropped>>

\* Only a member who holds the key may grant it.
GrantCheck(t) ==
  LET g == grant[t] IN
  /\ g.pc = "granter"
  /\ Passes(t, [g EXCEPT !.pc =
       IF Signed(t) /\ wrapped[PersonOf[t]] # None THEN "target" ELSE "pick"])
  /\ UNCHANGED <<db, revoked, channel, made, device, store, tab, hook, resolve, mail, todo,
                 asked, dropped>>

GrantTarget(t) ==
  LET g == grant[t] IN
  /\ g.pc = "target"
  /\ Passes(t, [g EXCEPT !.pc = IF account[g.to[1]] # 0 THEN "write" ELSE "pick"])
  /\ UNCHANGED <<db, revoked, channel, made, device, store, tab, hook, resolve, mail, todo,
                 asked, dropped>>

\* Never overwrites; the person's tabs are told.
GrantWrite(t) ==
  LET g == grant[t]
      p == g.to[1] IN
  /\ g.pc = "write"
  /\ Passes(t, [g EXCEPT !.pc = "pick"])
  /\ IF wrapped[p] = None
     THEN /\ wrapped' = [wrapped EXCEPT ![p] = <<g.key, g.to[2]>>]
          /\ mail' = mail \union ({u \in Tabs : PersonOf[u] = p /\ u \in channel} \X {"granted"})
          /\ asked' = {a \in asked : a[2] # p}
     ELSE UNCHANGED <<wrapped, mail, asked>>
  /\ UNCHANGED <<account, member, check, revoked, channel, made, device, store, tab, hook, resolve,
                 todo, dropped>>

GrantStep(t) == PassRead(t) \/ PassPick(t) \/ GrantCheck(t) \/ GrantTarget(t) \/ GrantWrite(t)

\* onRequested and onGranted; a page without a key pair does not listen.
Hear(t) ==
  \E kind \in {"requested", "granted"} :
    /\ <<t, kind>> \in mail
    /\ mail' = mail \ {<<t, kind>>}
    /\ LET listens == Mounted(t) /\ store[t].status = "ready" IN
       /\ grant' = IF listens /\ kind = "requested" /\ hook[t].key # 0
                   THEN [grant EXCEPT ![t] = Granting(@, hook[t].key)] ELSE grant
       /\ resolve' = IF listens /\ kind = "granted" /\ hook[t].key = 0
                     THEN Resolving(resolve, t, store[t].pair) ELSE resolve
    /\ UNCHANGED <<db, revoked, channel, made, device, store, tab, hook, todo, asked, dropped>>

-----------------------------------------------------------------------------
TabStep(t) == StoreStep(t) \/ JoinStep(t) \/ GrantStep(t) \/ Hear(t)

KeysNext ==
  \/ \E t \in Tabs : TabStep(t) \/ Unlock(t) \/ Reset(t) \/ Enter(t) \/ Leave(t) \/ Drop(t)
  \/ \E r \in Tabs \X Slots : ResolveStep(r)

-----------------------------------------------------------------------------
\* Everybody in a call encrypts with the room's key: a tab still signed in has
\* another key only if a copy of that one was dropped, and copies are dropped
\* only after somebody has reset the password. Two members who open a new room
\* at once, a key granted by a tab that has an outdated one, and a tab that asks
\* for the key twice at once must not split the room.
KeysAgree ==
  /\ dropped # {} => 0 \in dropped
  /\ \A t \in Tabs : Mounted(t) /\ Signed(t) /\ hook[t].key # 0
                       => hook[t].key = check \/ hook[t].key \in dropped

\* A tab in the call without the key, and one that could share it.
Waits(t)  == /\ Mounted(t) /\ Signed(t) /\ t \in channel /\ tab[t].join = "none"
             /\ store[t].status = "ready" /\ hook[t].key = 0
Helps(t)  == /\ Mounted(t) /\ Signed(t) /\ t \in channel /\ tab[t].join = "none"
             /\ hook[t].key # 0 /\ hook[t].key = check /\ wrapped[PersonOf[t]] # None

\* Who is found to lack the key by a tab that has it gets it in the end, if both
\* stay: also when the pass came before the tab saw the person join, and after
\* the tab was disconnected meanwhile.
GrantedOnceAsked ==
  \A u, t \in Tabs :
    <>[](<<u, PersonOf[t]>> \in asked => ~(Waits(t) /\ Helps(u)))

=============================================================================
