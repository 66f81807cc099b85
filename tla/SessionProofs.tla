----------------------------- MODULE SessionProofs ----------------------------
(***************************************************************************)
(* Proofs about Sessions and Accounts, for any tabs, browsers, requests,   *)
(* periods and scripts: types, the queue of the lock, and the order of the *)
(* refresh tokens; tokens of a session are good one at a time and an ended *)
(* session stays ended.  Then about the end of a session: under the lock   *)
(* of the browser nobody is signed out for reuse of a token unless an      *)
(* answer was lost, and a revocation closes the sockets of its sessions,   *)
(* because its marker outlives every access token of theirs.               *)
(***************************************************************************)
EXTENDS Accounts, SequenceTheorems, TLAPS

-----------------------------------------------------------------------------
(* Types.                                                                  *)

Token       == Families \X (Nat \ {0})
AccessType  == [session : Families \cup {None}, left : Nat]
RowType     == [st : {"live", "gone", "ROTATED"} \cup Reasons, grace : Nat, left : Nat]
TabType     == [status : {"anonymous", "booting", "authenticated"}, leaving : BOOLEAN,
                access : AccessType]
RefreshType == [pc : {"idle", "wait", "sent", "rotate", "revoking", "reply"}, attempt : {0, 1},
                token : Token \cup {None}, grace : Nat, left : Nat,
                reply : {"none", "absent", "invalid", "stale", "expired", "reuse", "ok"}]
LeaveType   == [pc : {"idle", "sent", "resent", "refresh", "denied", "revoking", "reply"},
                all : BOOLEAN, token : Token \cup {None}]
RevokeType  == [pc : {"idle", "find", "scan", "write", "mark", "tell", "done"},
                of : SUBSET Families, seen : SUBSET Token, why : Reasons]
SocketType  == [st : {"none", "checked", "up", "kicked", "closed"},
                session : Families \cup {None}, overtaken : BOOLEAN]
UserType    == [exists : BOOLEAN, password : Nat, outdated : BOOLEAN, verified : BOOLEAN,
                resets : Nat]
Ops         == {"none", "register", "resend", "forgot", "verify", "reset", "mistype", "login"}
Pcs         == {"idle", "lookup", "create", "asked", "issue", "commit", "find", "claim", "revoke",
                "revoking", "peek", "check", "count", "clear", "rehash", "create-session", "answer"}
ReqType     == [op : Ops, pc : Pcs, tab : Tabs \cup {None}, pw : Nat, user : UserType,
                link : Nat, seen : SUBSET Nat, session : Families \cup {0}, left : Nat]
LinkType    == [kind : {"verify", "reset"}, st : {"unused", "used", "deleted"}, left : Nat]

ServerTypes  == /\ rows \in [Families -> Seq(RowType)]
                /\ life \in [Families -> Nat] /\ marker \in [Families -> Nat]
BrowserTypes == /\ jar \in [Browsers -> Token \cup {None}]
                /\ tab \in [Tabs -> TabType] /\ sock \in [Tabs -> SocketType]
                /\ lock \in [Browsers -> Seq(Tabs)]
CallTypes    == /\ refresh \in [Tabs -> RefreshType] /\ leave \in [Tabs -> LeaveType]
                /\ revoke \in [Calls -> RevokeType]
RequestTypes == /\ req \in [Requests -> ReqType] /\ acct \in UserType
                /\ links \in Seq(LinkType)
SessionTypes == ServerTypes /\ BrowserTypes /\ CallTypes /\ RequestTypes

-----------------------------------------------------------------------------
(* The invariants.                                                         *)

\* Only the last token of a session can be good, and it has not been exchanged.
InOrder ==
    \A f \in Families : \A n \in DOMAIN rows[f] :
        /\ n < Len(rows[f]) => rows[f][n].st # "live"
        /\ n = Len(rows[f]) => rows[f][n].st # "ROTATED"

\* Tokens that are about were issued.
Issued(k) == k = None \/ k[2] \in DOMAIN rows[k[1]]
Exchanged(t) == refresh[t].pc = "reply" /\ refresh[t].reply = "ok"
Answering(r, f) == req[r].pc = "answer" /\ req[r].session = f

JarIssued   == \A b \in Browsers : Issued(jar[b])
LeaveIssued == \A t \in Tabs : Issued(leave[t].token)
TokenIssued(t) ==
    /\ Issued(refresh[t].token)
    /\ refresh[t].pc = "rotate" \/ Exchanged(t) => refresh[t].token # None
    /\ Exchanged(t) => refresh[t].token[2] < Len(rows[refresh[t].token[1]])
RefreshIssued == \A t \in Tabs : TokenIssued(t)
AnswerIssued ==
    \A r \in Requests : req[r].pc = "answer" => req[r].session \in Families /\ rows[req[r].session] # <<>>

AllIssued == JarIssued /\ LeaveIssued /\ RefreshIssued /\ AnswerIssued

\* Who waits for the lock of the browser is in its queue, who refreshes is first.
Queued(t, q) == \E i \in DOMAIN q : q[i] = t
Locked ==
    \A t \in Tabs :
        /\ refresh[t].pc # "idle" => Queued(t, lock[BrowserOf[t]])
        /\ refresh[t].pc \notin {"idle", "wait"} => lock[BrowserOf[t]][1] = t
        /\ refresh[t].pc \in {"idle", "wait"} => refresh[t].token = None

LifeInv == SessionTypes /\ InOrder /\ AllIssued /\ Locked

-----------------------------------------------------------------------------
(* What the operators that several actions share do to the types.          *)

Replies == {"absent", "invalid", "stale", "expired", "reuse", "ok"}

LEMMA Initials ==
    /\ NoAccess \in AccessType /\ SignedOut \in TabType /\ NoRefresh \in RefreshType
    /\ NoLeave \in LeaveType /\ NoRevoke \in RevokeType /\ NoSocket \in SocketType
BY DEF NoAccess, AccessType, SignedOut, TabType, NoRefresh, RefreshType, NoLeave, LeaveType,
       NoRevoke, RevokeType, Reasons, NoSocket, SocketType

LEMMA PresentedType ==
    ASSUME BrowserTypes, NEW b \in Browsers
    PROVE  Presented(b) \in Token \cup {None} /\ (Presented(b) = None \/ Presented(b) = jar[b])
BY DEF BrowserTypes, Presented

\* A value is kept for one tab, all else as before.
LEMMA RefreshAt ==
    ASSUME CallTypes, NEW t \in Tabs, NEW v \in RefreshType, refresh' = [refresh EXCEPT ![t] = v]
    PROVE  /\ refresh' \in [Tabs -> RefreshType]
           /\ refresh'[t] = v /\ \A u \in Tabs \ {t} : refresh'[u] = refresh[u]
BY DEF CallTypes

LEMMA LeaveAt ==
    ASSUME CallTypes, NEW t \in Tabs, NEW v \in LeaveType, leave' = [leave EXCEPT ![t] = v]
    PROVE  /\ leave' \in [Tabs -> LeaveType]
           /\ leave'[t] = v /\ \A u \in Tabs \ {t} : leave'[u] = leave[u]
BY DEF CallTypes

LEMMA RevokeAt ==
    ASSUME CallTypes, NEW c \in Calls, NEW v \in RevokeType, revoke' = [revoke EXCEPT ![c] = v]
    PROVE  /\ revoke' \in [Calls -> RevokeType]
           /\ revoke'[c] = v /\ \A d \in Calls \ {c} : revoke'[d] = revoke[d]
BY DEF CallTypes

LEMMA SendType ==
    ASSUME BrowserTypes, CallTypes, NEW t \in Tabs, NEW n \in {0, 1}, Send(t, n)
    PROVE  /\ refresh' \in [Tabs -> RefreshType]
           /\ refresh'[t].pc = "sent" /\ refresh'[t].token = Presented(BrowserOf[t])
           /\ \A u \in Tabs \ {t} : refresh'[u] = refresh[u]
<1> DEFINE k == Presented(BrowserOf[t])
           v == [NoRefresh EXCEPT !.pc = "sent", !.attempt = n, !.token = k]
<1>1. k \in Token \cup {None}
  BY PresentedType DEF Browsers
<1> HIDE DEF k
<1>2. v \in RefreshType /\ v.pc = "sent" /\ v.token = k
  BY <1>1 DEF NoRefresh, RefreshType
<1>3. refresh' = [refresh EXCEPT ![t] = v]
  BY DEF Send, k
<1> HIDE DEF v
<1> QED
  BY <1>2, <1>3, RefreshAt DEF k

LEMMA AnswerType ==
    ASSUME CallTypes, NEW t \in Tabs, NEW what \in Replies, Answer(t, what)
    PROVE  /\ refresh' \in [Tabs -> RefreshType]
           /\ refresh'[t].pc = "reply" /\ refresh'[t].reply = what
           /\ refresh'[t].token = refresh[t].token
           /\ \A u \in Tabs \ {t} : refresh'[u] = refresh[u]
<1> DEFINE v == [refresh[t] EXCEPT !.pc = "reply", !.reply = what]
<1>1. v \in RefreshType /\ v.pc = "reply" /\ v.reply = what /\ v.token = refresh[t].token
  BY DEF CallTypes, RefreshType, Replies
<1>2. refresh' = [refresh EXCEPT ![t] = v]
  BY DEF Answer, CallTypes, RefreshType
<1> HIDE DEF v
<1> QED
  BY <1>1, <1>2, RefreshAt

LEMMA EndedType ==
    ASSUME CallTypes, NEW t \in Tabs, Ended(t)
    PROVE  /\ refresh' \in [Tabs -> RefreshType]
           /\ refresh'[t] = NoRefresh /\ \A u \in Tabs \ {t} : refresh'[u] = refresh[u]
BY Initials, RefreshAt DEF Ended

LEMMA SignOutType ==
    ASSUME BrowserTypes, NEW t \in Tabs, SignOut(t)
    PROVE  /\ tab' \in [Tabs -> TabType] /\ sock' \in [Tabs -> SocketType]
           /\ tab'[t] = SignedOut /\ sock'[t] = NoSocket
           /\ \A u \in Tabs \ {t} : tab'[u] = tab[u] /\ sock'[u] = sock[u]
BY Initials DEF SignOut, BrowserTypes

LEMMA SetSessionType ==
    ASSUME BrowserTypes, NEW t \in Tabs, NEW f \in Families, NEW n \in Nat \ {0}, NEW left \in Nat,
           SetSession(t, f, n, left)
    PROVE  /\ jar' \in [Browsers -> Token \cup {None}] /\ tab' \in [Tabs -> TabType]
           /\ jar' = [jar EXCEPT ![BrowserOf[t]] = <<f, n>>]
           /\ tab'[t].access = [session |-> f, left |-> left]
           /\ \A u \in Tabs \ {t} : tab'[u] = tab[u]
<1> DEFINE a == [session |-> f, left |-> left]
           v == [tab[t] EXCEPT !.status = "authenticated", !.access = a]
<1>1. a \in AccessType
  BY DEF AccessType
<1> HIDE DEF a
<1>2. v \in TabType /\ v.access = a
  BY <1>1 DEF BrowserTypes, TabType
<1>3. tab' = [tab EXCEPT ![t] = v]
  BY DEF SetSession, BrowserTypes, TabType, a
<1> HIDE DEF v
<1>4. tab' \in [Tabs -> TabType] /\ tab'[t] = v /\ \A u \in Tabs \ {t} : tab'[u] = tab[u]
  BY <1>2, <1>3 DEF BrowserTypes
<1>5. <<f, n>> \in Token /\ BrowserOf[t] \in Browsers
  BY DEF Token, Browsers
<1> QED
  BY <1>2, <1>4, <1>5 DEF SetSession, BrowserTypes, a

LEMMA LeavingType ==
    ASSUME CallTypes, NEW t \in Tabs,
           NEW pc \in {"resent", "refresh", "denied", "revoking", "reply"},
           leave' = [leave EXCEPT ![t].pc = pc]
    PROVE  /\ leave' \in [Tabs -> LeaveType]
           /\ leave'[t].token = leave[t].token /\ leave'[t].pc = pc
           /\ \A u \in Tabs \ {t} : leave'[u] = leave[u]
<1> DEFINE v == [leave[t] EXCEPT !.pc = pc]
<1>1. v \in LeaveType /\ v.token = leave[t].token /\ v.pc = pc
  BY DEF CallTypes, LeaveType
<1>2. leave' = [leave EXCEPT ![t] = v]
  BY DEF CallTypes, LeaveType
<1> HIDE DEF v
<1> QED
  BY <1>1, <1>2, LeaveAt

\* A revocation begins.
Begun(pc, S, why) == [NoRevoke EXCEPT !.pc = pc, !.of = S, !.why = why]
LEMMA RevokeBegins ==
    ASSUME CallTypes, NEW c \in Calls, NEW pc \in {"find", "scan"}, NEW S \in SUBSET Families,
           NEW why \in Reasons,
           revoke' = [revoke EXCEPT ![c] = Begun(pc, S, why)]
    PROVE  /\ revoke' \in [Calls -> RevokeType]
           /\ revoke'[c].pc = pc /\ revoke'[c].of = S /\ revoke'[c].seen = {} /\ revoke'[c].why = why
           /\ \A d \in Calls \ {c} : revoke'[d] = revoke[d]
<1> DEFINE v == Begun(pc, S, why)
<1>1. v \in RevokeType /\ v.pc = pc /\ v.of = S /\ v.seen = {} /\ v.why = why
  BY DEF Begun, NoRevoke, RevokeType
<1> HIDE DEF v
<1> QED
  BY <1>1, RevokeAt DEF v
-----------------------------------------------------------------------------
(* Steps of a tab that leave the table alone.                              *)

TabKeeps == BrowserTypes' /\ CallTypes' /\ JarIssued' /\ LeaveIssued' /\ RefreshIssued' /\ Locked'

\* The queue of the lock grows, and shrinks.
LEMMA QueueGrows ==
    ASSUME NEW q \in Seq(Tabs), NEW t \in Tabs
    PROVE  /\ Append(q, t) \in Seq(Tabs) /\ Queued(t, Append(q, t))
           /\ \A u \in Tabs : Queued(u, q) => Queued(u, Append(q, t)) /\ Append(q, t)[1] = q[1]
<1>1. /\ Append(q, t) \in Seq(Tabs) /\ Len(Append(q, t)) = Len(q) + 1
      /\ Append(q, t)[Len(q) + 1] = t /\ \A i \in 1 .. Len(q) : Append(q, t)[i] = q[i]
  BY AppendProperties
<1>2. Len(q) \in Nat /\ DOMAIN q = 1 .. Len(q) /\ DOMAIN Append(q, t) = 1 .. Len(q) + 1
  BY <1>1
<1> QED
  BY <1>1, <1>2 DEF Queued

LEMMA QueueShrinks ==
    ASSUME NEW q \in Seq(Tabs), NEW t \in Tabs, Queued(t, q)
    PROVE  /\ Tail(q) \in Seq(Tabs)
           /\ \A u \in Tabs : Queued(u, q) /\ u # q[1] => Queued(u, Tail(q))
<1>1. q # <<>>
  BY DEF Queued
<1>2. /\ Tail(q) \in Seq(Tabs) /\ Len(Tail(q)) = Len(q) - 1
      /\ \A i \in 1 .. Len(Tail(q)) : Tail(q)[i] = q[i + 1]
  BY <1>1, HeadTailProperties
<1>3. ASSUME NEW u \in Tabs, Queued(u, q), u # q[1] PROVE Queued(u, Tail(q))
  <2>1. PICK i \in 1 .. Len(q) : q[i] = u
    BY <1>3 DEF Queued
  <2>2. i # 1 /\ Len(q) \in Nat
    BY <1>3, <2>1
  <2>3. PICK j \in 1 .. Len(q) - 1 : i = j + 1
    BY <2>2
  <2>4. j \in DOMAIN Tail(q) /\ Tail(q)[j] = u
    BY <1>2, <2>1, <2>3
  <2> QED
    BY <2>4 DEF Queued
<1> QED
  BY <1>2, <1>3

\* A refresh is over, and the next in the queue has the lock.
LEMMA Released ==
    ASSUME LifeInv, NEW t \in Tabs, refresh[t].pc \notin {"idle", "wait"}, Ended(t), Release(t)
    PROVE  lock' \in [Browsers -> Seq(Tabs)] /\ Locked'
<1> DEFINE q == lock[BrowserOf[t]]
<1>1. q \in Seq(Tabs) /\ Queued(t, q) /\ q[1] = t /\ BrowserOf[t] \in Browsers
  BY DEF LifeInv, SessionTypes, BrowserTypes, Locked, Browsers
<1>2. /\ Tail(q) \in Seq(Tabs)
      /\ \A u \in Tabs : Queued(u, q) /\ u # q[1] => Queued(u, Tail(q))
  BY <1>1, QueueShrinks
<1>3. lock' = [lock EXCEPT ![BrowserOf[t]] = Tail(q)]
  BY DEF Release
<1> HIDE DEF q
<1>4. /\ lock' \in [Browsers -> Seq(Tabs)] /\ lock'[BrowserOf[t]] = Tail(q)
      /\ \A b \in Browsers : b # BrowserOf[t] => lock'[b] = lock[b]
  BY <1>1, <1>2, <1>3 DEF LifeInv, SessionTypes, BrowserTypes
<1>5. refresh'[t] = NoRefresh /\ \A u \in Tabs \ {t} : refresh'[u] = refresh[u]
  BY EndedType DEF LifeInv, SessionTypes
<1>6. ASSUME NEW u \in Tabs
      PROVE  /\ refresh'[u].pc # "idle" => Queued(u, lock'[BrowserOf[u]])
             /\ refresh'[u].pc \notin {"idle", "wait"} => lock'[BrowserOf[u]][1] = u
             /\ refresh'[u].pc \in {"idle", "wait"} => refresh'[u].token = None
  <2>1. CASE u = t
    BY <1>5, <2>1 DEF NoRefresh
  <2>2. CASE u # t /\ BrowserOf[u] # BrowserOf[t]
    BY <1>4, <1>5, <2>2 DEF LifeInv, Locked, Browsers
  <2>3. CASE u # t /\ BrowserOf[u] = BrowserOf[t]
    <3>1. refresh[u].pc \in {"idle", "wait"}
      BY <1>1, <2>3 DEF LifeInv, Locked, q
    <3> QED
      BY <1>1, <1>2, <1>4, <1>5, <2>3, <3>1 DEF LifeInv, Locked, q
  <2> QED
    BY <2>1, <2>2, <2>3
<1> QED
  BY <1>4, <1>6 DEF Locked

\* A refresh goes on: its tab keeps the lock.
LEMMA StillLocked ==
    ASSUME LifeInv, NEW t \in Tabs, UNCHANGED lock,
           refresh[t].pc \notin {"idle", "wait"}, refresh'[t].pc \notin {"idle", "wait"},
           \A u \in Tabs \ {t} : refresh'[u] = refresh[u]
    PROVE  Locked'
BY DEF LifeInv, Locked

\* Tokens of the other tabs stay as they are.
LEMMA RefreshIssuedAt ==
    ASSUME LifeInv, UNCHANGED rows, NEW t \in Tabs, \A u \in Tabs \ {t} : refresh'[u] = refresh[u],
           Issued(refresh'[t].token),
           refresh'[t].pc = "rotate" => refresh'[t].token # None,
           refresh'[t].pc = "reply" => refresh'[t].reply # "ok"
    PROVE  RefreshIssued'
<1> SUFFICES ASSUME NEW u \in Tabs PROVE TokenIssued(u)'
  BY DEF RefreshIssued
<1>1. CASE u = t
  BY <1>1 DEF TokenIssued, Issued, Exchanged
<1>2. CASE u # t
  BY <1>2 DEF LifeInv, AllIssued, RefreshIssued, TokenIssued, Issued, Exchanged
<1> QED
  BY <1>1, <1>2

LEMMA LeaveIssuedAt ==
    ASSUME LifeInv, UNCHANGED rows, NEW t \in Tabs, \A u \in Tabs \ {t} : leave'[u] = leave[u],
           Issued(leave'[t].token)
    PROVE  LeaveIssued'
BY DEF LifeInv, AllIssued, LeaveIssued, Issued

LEMMA NoTabChange ==
    ASSUME LifeInv, UNCHANGED rows
    PROVE  /\ UNCHANGED jar => JarIssued'
           /\ UNCHANGED leave => LeaveIssued' /\ leave' \in [Tabs -> LeaveType]
           /\ UNCHANGED refresh => RefreshIssued' /\ refresh' \in [Tabs -> RefreshType]
           /\ UNCHANGED <<refresh, lock>> => Locked'
           /\ UNCHANGED revoke => revoke' \in [Calls -> RevokeType]
           /\ UNCHANGED jar => jar' \in [Browsers -> Token \cup {None}]
           /\ UNCHANGED tab => tab' \in [Tabs -> TabType]
           /\ UNCHANGED sock => sock' \in [Tabs -> SocketType]
           /\ UNCHANGED lock => lock' \in [Browsers -> Seq(Tabs)]
<1>1. UNCHANGED jar => JarIssued'
  BY DEF LifeInv, AllIssued, JarIssued, Issued
<1>2. UNCHANGED leave => LeaveIssued' /\ leave' \in [Tabs -> LeaveType]
  BY DEF LifeInv, SessionTypes, CallTypes, AllIssued, LeaveIssued, Issued
<1>3. UNCHANGED refresh => RefreshIssued' /\ refresh' \in [Tabs -> RefreshType]
  BY DEF LifeInv, SessionTypes, CallTypes, AllIssued, RefreshIssued, TokenIssued, Issued, Exchanged
<1>4. UNCHANGED <<refresh, lock>> => Locked'
  BY DEF LifeInv, Locked
<1> QED
  BY <1>1, <1>2, <1>3, <1>4 DEF LifeInv, SessionTypes, BrowserTypes, CallTypes

LEMMA PresentedIssued ==
    ASSUME LifeInv, NEW t \in Tabs
    PROVE  Issued(Presented(BrowserOf[t])) /\ Presented(BrowserOf[t]) \in Token \cup {None}
BY PresentedType DEF LifeInv, SessionTypes, AllIssued, JarIssued, Issued, Browsers

LEMMA RefreshStartLife ==
    ASSUME LifeInv, NEW t \in Tabs, RefreshStart(t)
    PROVE  TabKeeps
<1> DEFINE v == [refresh[t] EXCEPT !.pc = "wait"]
           q == lock[BrowserOf[t]]
<1>1. v \in RefreshType /\ v.pc = "wait" /\ v.token = None
  BY DEF RefreshStart, NoRefresh, RefreshType
<1>2. refresh' = [refresh EXCEPT ![t] = v] /\ lock' = [lock EXCEPT ![BrowserOf[t]] = Append(q, t)]
  BY DEF RefreshStart
<1>3. q \in Seq(Tabs) /\ BrowserOf[t] \in Browsers
  BY DEF LifeInv, SessionTypes, BrowserTypes, Browsers
<1>4. UNCHANGED <<rows, jar, tab, sock, leave, revoke>>
  BY DEF RefreshStart, server
<1> HIDE DEF v, q
<1>5. /\ refresh' \in [Tabs -> RefreshType] /\ refresh'[t] = v
      /\ \A u \in Tabs \ {t} : refresh'[u] = refresh[u]
  BY <1>1, <1>2, RefreshAt DEF LifeInv, SessionTypes
<1>6. /\ Append(q, t) \in Seq(Tabs) /\ Queued(t, Append(q, t))
      /\ \A u \in Tabs : Queued(u, q) => Queued(u, Append(q, t)) /\ Append(q, t)[1] = q[1]
  BY <1>3, QueueGrows
<1>7. /\ lock' \in [Browsers -> Seq(Tabs)] /\ lock'[BrowserOf[t]] = Append(q, t)
      /\ \A b \in Browsers : b # BrowserOf[t] => lock'[b] = lock[b]
  BY <1>2, <1>3, <1>6 DEF LifeInv, SessionTypes, BrowserTypes
<1>8. ASSUME NEW u \in Tabs
      PROVE  /\ refresh'[u].pc # "idle" => Queued(u, lock'[BrowserOf[u]])
             /\ refresh'[u].pc \notin {"idle", "wait"} => lock'[BrowserOf[u]][1] = u
             /\ refresh'[u].pc \in {"idle", "wait"} => refresh'[u].token = None
  <2>1. CASE u = t
    BY <1>1, <1>5, <1>6, <1>7, <2>1
  <2>2. CASE u # t /\ BrowserOf[u] # BrowserOf[t]
    BY <1>5, <1>7, <2>2 DEF LifeInv, Locked, Browsers
  <2>3. CASE u # t /\ BrowserOf[u] = BrowserOf[t]
    BY <1>5, <1>6, <1>7, <2>3 DEF LifeInv, Locked, q
  <2> QED
    BY <2>1, <2>2, <2>3
<1>9. Locked'
  BY <1>8 DEF Locked
<1>10. RefreshIssued'
  BY <1>1, <1>4, <1>5, RefreshIssuedAt DEF Issued
<1> QED
  BY <1>4, <1>5, <1>7, <1>9, <1>10, NoTabChange DEF TabKeeps, BrowserTypes, CallTypes

LEMMA RefreshSendLife ==
    ASSUME LifeInv, NEW t \in Tabs, RefreshSend(t)
    PROVE  TabKeeps
<1>1. Send(t, 0) /\ refresh[t].pc = "wait" /\ Head(lock[BrowserOf[t]]) = t
      /\ UNCHANGED <<rows, jar, tab, sock, lock, leave, revoke>>
  BY DEF RefreshSend, HoldsLock, server, browser
<1>2. /\ refresh' \in [Tabs -> RefreshType]
      /\ refresh'[t].pc = "sent" /\ refresh'[t].token = Presented(BrowserOf[t])
      /\ \A u \in Tabs \ {t} : refresh'[u] = refresh[u]
  BY <1>1, SendType DEF LifeInv, SessionTypes
<1>3. RefreshIssued'
  BY <1>1, <1>2, PresentedIssued, RefreshIssuedAt
<1>4. Locked'
  <2>1. lock[BrowserOf[t]][1] = t
    BY <1>1
  <2> QED
    BY <1>1, <1>2, <2>1 DEF LifeInv, Locked
<1> QED
  BY <1>1, <1>2, <1>3, <1>4, NoTabChange DEF TabKeeps, BrowserTypes, CallTypes

LEMMA ReuseRevokedLife ==
    ASSUME LifeInv, NEW t \in Tabs, ReuseRevoked(t)
    PROVE  TabKeeps
<1>1. Answer(t, "reuse") /\ revoke' = [revoke EXCEPT ![<<t, "refresh">>] = NoRevoke]
      /\ refresh[t].pc = "revoking" /\ UNCHANGED <<rows, jar, tab, sock, lock, leave>>
  BY DEF ReuseRevoked, server, browser
<1>2. /\ refresh' \in [Tabs -> RefreshType]
      /\ refresh'[t].pc = "reply" /\ refresh'[t].reply = "reuse"
      /\ refresh'[t].token = refresh[t].token
      /\ \A u \in Tabs \ {t} : refresh'[u] = refresh[u]
  BY <1>1, AnswerType DEF LifeInv, SessionTypes, Replies
<1>3. revoke' \in [Calls -> RevokeType]
  BY <1>1, Initials, RevokeAt DEF Calls, LifeInv, SessionTypes
<1>4. RefreshIssued'
  BY <1>1, <1>2, RefreshIssuedAt DEF LifeInv, AllIssued, RefreshIssued, TokenIssued
<1>5. Locked'
  BY <1>1, <1>2, StillLocked
<1> QED
  BY <1>1, <1>2, <1>3, <1>4, <1>5, NoTabChange DEF TabKeeps, BrowserTypes, CallTypes

\* What the server finds when a refresh arrives, case by case.
Found(t) ==
    \/ \E what \in Replies \ {"ok", "reuse"} : Answer(t, what) /\ UNCHANGED revoke
    \/ /\ refresh[t].token # None
       /\ rows[refresh[t].token[1]][refresh[t].token[2]].st = "ROTATED"
       /\ ~InGrace(rows[refresh[t].token[1]][refresh[t].token[2]])
       /\ revoke' = [revoke EXCEPT ![<<t, "refresh">>] =
                       [NoRevoke EXCEPT !.pc = "scan", !.of = {refresh[t].token[1]},
                                        !.why = "REUSE_DETECTED"]]
       /\ refresh' = [refresh EXCEPT ![t].pc = "revoking"]
    \/ /\ refresh[t].token # None
       /\ refresh' = [refresh EXCEPT ![t].pc = "rotate", ![t].grace = Grace,
                        ![t].left = Smaller(RefreshTtl, life[refresh[t].token[1]])]
       /\ UNCHANGED revoke

LEMMA RotateReadFinds ==
    ASSUME NEW t \in Tabs, RotateRead(t)
    PROVE  Found(t)
<1>1. refresh[t].token = None => Found(t)
  BY DEF RotateRead, Found, Replies
<1>2. refresh[t].token # None => Found(t)
  BY DEF RotateRead, Found, Replies
<1> QED
  BY <1>1, <1>2

LEMMA RotateReadLife ==
    ASSUME LifeInv, NEW t \in Tabs, RotateRead(t)
    PROVE  /\ TabKeeps
           /\ refresh'[t].token = refresh[t].token /\ \A u \in Tabs \ {t} : refresh'[u] = refresh[u]
           /\ refresh'[t].pc \in {"reply", "revoking", "rotate"} /\ ~Exchanged(t)'
           /\ \/ UNCHANGED revoke /\ refresh'[t].pc # "revoking"
              \/ /\ refresh'[t].pc = "revoking" /\ refresh[t].token # None
                 /\ refresh[t].token[1] \in Families
                 /\ rows[refresh[t].token[1]][refresh[t].token[2]].st = "ROTATED"
                 /\ revoke'[<<t, "refresh">>].pc = "scan"
                 /\ revoke'[<<t, "refresh">>].of = {refresh[t].token[1]}
                 /\ revoke'[<<t, "refresh">>].seen = {}
                 /\ \A d \in Calls \ {<<t, "refresh">>} : revoke'[d] = revoke[d]
<1> DEFINE k == refresh[t].token
           Same == refresh'[t].token = refresh[t].token /\ \A u \in Tabs \ {t} : refresh'[u] = refresh[u]
<1>1. UNCHANGED <<rows, jar, tab, sock, lock, leave>> /\ refresh[t].pc = "sent"
  BY DEF RotateRead, server, browser
<1>2. k \in Token \cup {None} /\ Issued(k) /\ refresh[t] \in RefreshType /\ CallTypes
  BY DEF LifeInv, SessionTypes, CallTypes, RefreshType, AllIssued, RefreshIssued, TokenIssued
<1>3. CASE \E what \in Replies \ {"ok", "reuse"} : Answer(t, what) /\ UNCHANGED revoke
  <2>1. PICK what \in Replies \ {"ok", "reuse"} : Answer(t, what)
    BY <1>3
  <2>2. refresh' \in [Tabs -> RefreshType] /\ Same
        /\ refresh'[t].pc = "reply" /\ refresh'[t].reply # "ok"
    BY <1>2, <2>1, AnswerType DEF Replies
  <2>3. RefreshIssued' /\ Locked'
    BY <1>1, <1>2, <2>2, RefreshIssuedAt, StillLocked
  <2> QED
    BY <1>1, <1>3, <2>2, <2>3, NoTabChange DEF TabKeeps, BrowserTypes, CallTypes, Exchanged
<1>4. CASE /\ k # None
           /\ rows[k[1]][k[2]].st = "ROTATED"
           /\ revoke' = [revoke EXCEPT ![<<t, "refresh">>] =
                           [NoRevoke EXCEPT !.pc = "scan", !.of = {k[1]}, !.why = "REUSE_DETECTED"]]
           /\ refresh' = [refresh EXCEPT ![t].pc = "revoking"]
  <2> DEFINE v == [refresh[t] EXCEPT !.pc = "revoking"]
  <2>1. v \in RefreshType /\ v.pc = "revoking" /\ v.token = k
    BY <1>2 DEF RefreshType
  <2>2. refresh' = [refresh EXCEPT ![t] = v]
    BY <1>4
  <2> HIDE DEF v
  <2>3. refresh' \in [Tabs -> RefreshType] /\ Same /\ refresh'[t].pc = "revoking"
    BY <1>2, <2>1, <2>2, RefreshAt
  <2>4. k[1] \in Families /\ <<t, "refresh">> \in Calls /\ "REUSE_DETECTED" \in Reasons
    BY <1>2, <1>4 DEF Token, Calls, Reasons
  <2>5. /\ revoke' \in [Calls -> RevokeType]
        /\ revoke'[<<t, "refresh">>].pc = "scan" /\ revoke'[<<t, "refresh">>].of = {k[1]}
        /\ revoke'[<<t, "refresh">>].seen = {}
        /\ \A d \in Calls \ {<<t, "refresh">>} : revoke'[d] = revoke[d]
    <3> DEFINE c == <<t, "refresh">>
    <3>1. c \in Calls /\ {k[1]} \in SUBSET Families
      BY <2>4
    <3> HIDE DEF c
    <3>2. revoke' = [revoke EXCEPT ![c] = Begun("scan", {k[1]}, "REUSE_DETECTED")]
      BY <1>4 DEF c, Begun
    <3>3. /\ revoke' \in [Calls -> RevokeType]
          /\ revoke'[c].pc = "scan" /\ revoke'[c].of = {k[1]} /\ revoke'[c].seen = {}
          /\ \A d \in Calls \ {c} : revoke'[d] = revoke[d]
      BY <1>2, <2>4, <3>1, <3>2, RevokeBegins
    <3> QED
      BY <3>3 DEF c
  <2>6. RefreshIssued' /\ Locked'
    BY <1>1, <1>2, <2>3, RefreshIssuedAt, StillLocked
  <2> QED
    BY <1>1, <1>4, <2>3, <2>4, <2>5, <2>6, NoTabChange DEF TabKeeps, BrowserTypes, CallTypes, Exchanged
<1>5. CASE /\ k # None /\ UNCHANGED revoke
           /\ refresh' = [refresh EXCEPT ![t].pc = "rotate", ![t].grace = Grace,
                            ![t].left = Smaller(RefreshTtl, life[k[1]])]
  <2> DEFINE left == Smaller(RefreshTtl, life[k[1]])
             v == [refresh[t] EXCEPT !.pc = "rotate", !.grace = Grace, !.left = left]
  <2>1. left \in Nat /\ Grace \in Nat
    BY <1>2, <1>5, SessionsAssumption DEF Smaller, Token, LifeInv, SessionTypes, ServerTypes
  <2> HIDE DEF left
  <2>2. v \in RefreshType /\ v.pc = "rotate" /\ v.token = k
    BY <1>2, <2>1 DEF RefreshType
  <2>3. refresh' = [refresh EXCEPT ![t] = v]
    BY <1>2, <1>5 DEF CallTypes, RefreshType, left
  <2> HIDE DEF v
  <2>4. refresh' \in [Tabs -> RefreshType] /\ Same /\ refresh'[t].pc = "rotate"
    BY <1>2, <2>2, <2>3, RefreshAt
  <2>5. RefreshIssued' /\ Locked'
    BY <1>1, <1>2, <1>5, <2>4, RefreshIssuedAt, StillLocked
  <2> QED
    BY <1>1, <1>5, <2>4, <2>5, NoTabChange DEF TabKeeps, BrowserTypes, CallTypes, Exchanged
<1> QED
  BY <1>3, <1>4, <1>5, RotateReadFinds DEF Found

LEMMA RefreshDeliverLife ==
    ASSUME LifeInv, NEW t \in Tabs, RefreshDeliver(t)
    PROVE  /\ TabKeeps
           /\ \A u \in Tabs \ {t} : refresh'[u] = refresh[u] /\ tab'[u] = tab[u] /\ sock'[u] = sock[u]
           /\ ~Exchanged(t)'
           /\ \/ /\ Exchanged(t) /\ refresh'[t].token = None /\ UNCHANGED sock
                 /\ refresh[t].token[1] \in Families
                 /\ jar' = [jar EXCEPT ![BrowserOf[t]] = <<refresh[t].token[1], refresh[t].token[2] + 1>>]
                 /\ tab'[t].access = [session |-> refresh[t].token[1], left |-> refresh[t].left]
              \/ /\ ~Exchanged(t) /\ UNCHANGED <<jar, tab, sock>>
                 /\ refresh'[t].token = Presented(BrowserOf[t]) /\ refresh'[t].pc = "sent"
              \/ /\ ~Exchanged(t) /\ refresh'[t].token = None /\ refresh'[t].pc = "idle"
                 /\ jar' = jar \/ jar' = [jar EXCEPT ![BrowserOf[t]] = None]
                 /\ tab'[t].access = NoAccess /\ sock'[t] = NoSocket
<1> DEFINE k == refresh[t].token
           b == BrowserOf[t]
<1>1. UNCHANGED <<rows, leave, revoke>> /\ refresh[t].pc = "reply" /\ BrowserTypes /\ CallTypes
      /\ BrowserOf[t] \in Browsers
  BY DEF RefreshDeliver, server, LifeInv, SessionTypes, Browsers
<1>2. refresh[t] \in RefreshType /\ k \in Token \cup {None} /\ Issued(k)
  BY DEF LifeInv, SessionTypes, CallTypes, RefreshType, AllIssued, RefreshIssued, TokenIssued
<1>3. CASE refresh[t].reply = "ok"
  <2>1. SetSession(t, k[1], k[2] + 1, refresh[t].left) /\ Ended(t) /\ Release(t) /\ UNCHANGED sock
    BY <1>3 DEF RefreshDeliver
  <2>2. /\ k # None /\ k[1] \in Families /\ k[2] + 1 \in Nat \ {0} /\ k[2] + 1 \in DOMAIN rows[k[1]]
        /\ refresh[t].left \in Nat
    <3>1. k # None /\ k[2] < Len(rows[k[1]])
      BY <1>1, <1>3 DEF LifeInv, AllIssued, RefreshIssued, TokenIssued, Exchanged
    <3>2. k[1] \in Families /\ k[2] \in Nat \ {0} /\ Len(rows[k[1]]) \in Nat
      BY <1>2, <3>1 DEF Token, LifeInv, SessionTypes, ServerTypes
    <3> QED
      BY <1>2, <3>1, <3>2 DEF RefreshType, LifeInv, SessionTypes, ServerTypes
  <2>3. /\ jar' \in [Browsers -> Token \cup {None}] /\ tab' \in [Tabs -> TabType]
        /\ jar' = [jar EXCEPT ![BrowserOf[t]] = <<k[1], k[2] + 1>>]
        /\ tab'[t].access = [session |-> k[1], left |-> refresh[t].left]
        /\ \A u \in Tabs \ {t} : tab'[u] = tab[u]
    BY <1>1, <2>1, <2>2, SetSessionType
  <2>4. /\ refresh' \in [Tabs -> RefreshType] /\ refresh'[t] = NoRefresh
        /\ \A u \in Tabs \ {t} : refresh'[u] = refresh[u]
    BY <1>1, <2>1, EndedType
  <2>5. lock' \in [Browsers -> Seq(Tabs)] /\ Locked'
    BY <1>1, <2>1, Released
  <2>6. RefreshIssued'
    BY <1>1, <2>4, RefreshIssuedAt DEF Issued, NoRefresh
  <2>7. JarIssued'
    <3>1. \A c \in Browsers : jar'[c] = jar[c] \/ jar'[c] = <<k[1], k[2] + 1>>
      BY <2>3, <1>1 DEF BrowserTypes
    <3> QED
      BY <1>1, <2>2, <3>1 DEF LifeInv, AllIssued, JarIssued, Issued
  <2>8. TabKeeps
    <3>1. BrowserTypes'
      BY <1>1, <2>1, <2>3, <2>5, NoTabChange DEF BrowserTypes
    <3>2. CallTypes' /\ LeaveIssued'
      BY <1>1, <2>4, NoTabChange DEF CallTypes
    <3> QED
      BY <2>5, <2>6, <2>7, <3>1, <3>2 DEF TabKeeps
  <2>9. Exchanged(t) /\ ~Exchanged(t)' /\ refresh'[t].token = None
    BY <1>1, <1>3, <2>4 DEF Exchanged, NoRefresh
  <2> QED
    BY <2>1, <2>2, <2>3, <2>4, <2>8, <2>9
<1>4. CASE /\ refresh[t].reply = "stale" /\ Send(t, 1)
           /\ UNCHANGED <<jar, tab, sock, lock>>
  <2>1. /\ refresh' \in [Tabs -> RefreshType]
        /\ refresh'[t].pc = "sent" /\ refresh'[t].token = Presented(b)
        /\ \A u \in Tabs \ {t} : refresh'[u] = refresh[u]
    BY <1>1, <1>4, SendType
  <2>2. RefreshIssued' /\ Locked'
    BY <1>1, <1>4, <2>1, PresentedIssued, RefreshIssuedAt, StillLocked
  <2> QED
    BY <1>1, <1>4, <2>1, <2>2, NoTabChange DEF TabKeeps, BrowserTypes, CallTypes, Exchanged
<1>5. CASE /\ refresh[t].reply # "ok"
           /\ jar' = IF refresh[t].reply \in {"stale", "absent"} THEN jar ELSE [jar EXCEPT ![b] = None]
           /\ SignOut(t) /\ Ended(t) /\ Release(t)
  <2>1. jar' = jar \/ jar' = [jar EXCEPT ![b] = None]
    BY <1>5
  <2>2. jar' \in [Browsers -> Token \cup {None}] /\ \A c \in Browsers : jar'[c] = jar[c] \/ jar'[c] = None
    BY <1>1, <2>1 DEF BrowserTypes
  <2>3. JarIssued'
    BY <1>1, <2>2 DEF LifeInv, AllIssued, JarIssued, Issued
  <2>4. /\ refresh' \in [Tabs -> RefreshType] /\ refresh'[t] = NoRefresh
        /\ \A u \in Tabs \ {t} : refresh'[u] = refresh[u]
    BY <1>1, <1>5, EndedType
  <2>5. lock' \in [Browsers -> Seq(Tabs)] /\ Locked'
    BY <1>1, <1>5, Released
  <2>6. /\ tab' \in [Tabs -> TabType] /\ sock' \in [Tabs -> SocketType]
        /\ tab'[t] = SignedOut /\ sock'[t] = NoSocket
        /\ \A u \in Tabs \ {t} : tab'[u] = tab[u] /\ sock'[u] = sock[u]
    BY <1>1, <1>5, SignOutType
  <2>7. RefreshIssued'
    BY <1>1, <2>4, RefreshIssuedAt DEF Issued, NoRefresh
  <2> QED
    BY <1>1, <1>5, <2>1, <2>2, <2>3, <2>4, <2>5, <2>6, <2>7, NoTabChange
       DEF TabKeeps, BrowserTypes, CallTypes, Exchanged, NoRefresh, SignedOut
<1> QED
  BY <1>3, <1>4, <1>5 DEF RefreshDeliver

LEMMA RefreshLostLife ==
    ASSUME LifeInv, NEW t \in Tabs, RefreshLost(t)
    PROVE  /\ TabKeeps
           /\ refresh'[t] = NoRefresh
           /\ \A u \in Tabs \ {t} : refresh'[u] = refresh[u] /\ tab'[u] = tab[u] /\ sock'[u] = sock[u]
           /\ \/ UNCHANGED <<tab, sock>>
              \/ tab'[t].access = NoAccess /\ sock'[t] = NoSocket
<1>1. UNCHANGED <<rows, jar, leave, revoke>> /\ refresh[t].pc \in {"sent", "reply"}
      /\ Ended(t) /\ Release(t) /\ BrowserTypes /\ CallTypes
  BY DEF RefreshLost, server, LifeInv, SessionTypes
<1>2. /\ refresh' \in [Tabs -> RefreshType] /\ refresh'[t] = NoRefresh
      /\ \A u \in Tabs \ {t} : refresh'[u] = refresh[u]
  BY <1>1, EndedType
<1>3. lock' \in [Browsers -> Seq(Tabs)] /\ Locked'
  BY <1>1, Released
<1>4. RefreshIssued'
  BY <1>1, <1>2, RefreshIssuedAt DEF Issued, NoRefresh
<1>5. CASE SignOut(t)
  <2>1. /\ tab' \in [Tabs -> TabType] /\ sock' \in [Tabs -> SocketType]
        /\ tab'[t] = SignedOut /\ sock'[t] = NoSocket
        /\ \A u \in Tabs \ {t} : tab'[u] = tab[u] /\ sock'[u] = sock[u]
    BY <1>1, <1>5, SignOutType
  <2> QED
    BY <1>1, <1>2, <1>3, <1>4, <2>1, NoTabChange DEF TabKeeps, BrowserTypes, CallTypes, SignedOut
<1>6. CASE UNCHANGED <<tab, sock>>
  BY <1>1, <1>2, <1>3, <1>4, <1>6, NoTabChange DEF TabKeeps, BrowserTypes, CallTypes
<1> QED
  BY <1>5, <1>6 DEF RefreshLost

LEMMA LeaveReadLife ==
    ASSUME LifeInv, NEW t \in Tabs, LeaveRead(t)
    PROVE  /\ TabKeeps
           /\ leave'[t].token = leave[t].token /\ \A u \in Tabs \ {t} : leave'[u] = leave[u]
           /\ \/ UNCHANGED revoke /\ leave'[t].pc # "revoking" /\ leave[t].pc # "revoking"
              \/ /\ leave'[t].pc = "revoking"
                 /\ revoke'[<<t, "leave">>].pc \in {"find", "scan"}
                 /\ revoke'[<<t, "leave">>].pc = "find" => revoke'[<<t, "leave">>].of = {}
                 /\ revoke'[<<t, "leave">>].of = {}
                    \/ /\ leave[t].token # None /\ leave[t].token[1] \in Families
                       /\ revoke'[<<t, "leave">>].of = {leave[t].token[1]}
                 /\ revoke'[<<t, "leave">>].seen = {}
                 /\ revoke'[<<t, "leave">>].why # "REUSE_DETECTED"
                 /\ \A d \in Calls \ {<<t, "leave">>} : revoke'[d] = revoke[d]
<1> DEFINE k == leave[t].token
           c == <<t, "leave">>
<1>1. UNCHANGED <<rows, jar, tab, sock, lock, refresh>> /\ leave[t].pc \in {"sent", "resent"}
  BY DEF LeaveRead, server, browser
<1>2. k \in Token \cup {None} /\ Issued(k) /\ CallTypes /\ c \in Calls
  BY DEF LifeInv, SessionTypes, CallTypes, LeaveType, AllIssued, LeaveIssued, Calls
<1>3. CASE \E pc \in {"reply", "refresh", "denied"} : Leaving(t, pc)
  <2>1. PICK pc \in {"reply", "refresh", "denied"} : Leaving(t, pc)
    BY <1>3
  <2>2. leave' = [leave EXCEPT ![t].pc = pc] /\ UNCHANGED revoke
    BY <2>1 DEF Leaving
  <2>3. /\ leave' \in [Tabs -> LeaveType] /\ leave'[t].token = k /\ leave'[t].pc = pc
        /\ \A u \in Tabs \ {t} : leave'[u] = leave[u]
    BY <1>2, <2>2, LeavingType
  <2>4. LeaveIssued'
    BY <1>1, <1>2, <2>3, LeaveIssuedAt
  <2> QED
    BY <1>1, <2>2, <2>3, <2>4, NoTabChange DEF TabKeeps, BrowserTypes, CallTypes
<1>4. ASSUME NEW pc \in {"find", "scan"}, NEW S \in SUBSET Families,
             NEW why \in {"LOGOUT", "LOGOUT_ALL"}, LeaveRevoke(t, pc, S, why)
      PROVE  /\ TabKeeps
             /\ leave'[t].token = k /\ \A u \in Tabs \ {t} : leave'[u] = leave[u]
             /\ leave'[t].pc = "revoking"
             /\ revoke'[c].pc = pc /\ revoke'[c].of = S /\ revoke'[c].seen = {}
             /\ revoke'[c].why = why
             /\ \A d \in Calls \ {c} : revoke'[d] = revoke[d]
  <2> HIDE DEF c
  <2>1. revoke' = [revoke EXCEPT ![c] = Begun(pc, S, why)]
        /\ leave' = [leave EXCEPT ![t].pc = "revoking"]
    BY <1>4 DEF LeaveRevoke, c, Begun
  <2>2. /\ leave' \in [Tabs -> LeaveType] /\ leave'[t].token = k /\ leave'[t].pc = "revoking"
        /\ \A u \in Tabs \ {t} : leave'[u] = leave[u]
    BY <1>2, <2>1, LeavingType
  <2>3. LeaveIssued'
    BY <1>1, <1>2, <2>2, LeaveIssuedAt
  <2>4. why \in Reasons
    BY DEF Reasons
  <2>5. /\ revoke' \in [Calls -> RevokeType]
        /\ revoke'[c].pc = pc /\ revoke'[c].of = S /\ revoke'[c].seen = {} /\ revoke'[c].why = why
        /\ \A d \in Calls \ {c} : revoke'[d] = revoke[d]
    <3> DEFINE v == Begun(pc, S, why)
    <3>1. v \in RevokeType /\ v.pc = pc /\ v.of = S /\ v.seen = {} /\ v.why = why
      BY <2>4 DEF Begun, NoRevoke, RevokeType
    <3> HIDE DEF v
    <3> QED
      BY <1>2, <2>1, <3>1, RevokeAt DEF v
  <2> QED
    BY <1>1, <2>2, <2>3, <2>5, NoTabChange DEF TabKeeps, BrowserTypes, CallTypes
<1>5. CASE k # None /\ LeaveRevoke(t, "scan", {k[1]}, "LOGOUT")
  <2>1. k[1] \in Families /\ {k[1]} \in SUBSET Families
    BY <1>2, <1>5 DEF Token
  <2> QED
    BY <1>4, <1>5, <2>1
<1>6. CASE LeaveRevoke(t, "find", {}, "LOGOUT_ALL")
  BY <1>4, <1>6
<1> QED
  BY <1>1, <1>3, <1>5, <1>6 DEF LeaveRead

LEMMA LeaveAgainLife ==
    ASSUME LifeInv, NEW t \in Tabs, LeaveAgain(t)
    PROVE  /\ TabKeeps /\ leave'[t].token = leave[t].token /\ leave'[t].pc # "revoking"
           /\ leave[t].pc = "refresh" /\ \A u \in Tabs \ {t} : leave'[u] = leave[u]
<1> DEFINE pc == IF tab[t].access.left > 0 THEN "resent" ELSE "denied"
<1>1. /\ UNCHANGED <<rows, jar, tab, sock, lock, refresh, revoke>> /\ leave[t].pc = "refresh"
      /\ leave' = [leave EXCEPT ![t].pc = pc] /\ CallTypes
  BY DEF LeaveAgain, server, browser, LifeInv, SessionTypes
<1>2. pc \in {"resent", "denied"}
  OBVIOUS
<1> HIDE DEF pc
<1>3. /\ leave' \in [Tabs -> LeaveType] /\ leave'[t].token = leave[t].token /\ leave'[t].pc = pc
      /\ \A u \in Tabs \ {t} : leave'[u] = leave[u]
  BY <1>1, <1>2, LeavingType
<1>4. LeaveIssued'
  BY <1>1, <1>3, LeaveIssuedAt DEF LifeInv, AllIssued, LeaveIssued
<1> QED
  BY <1>1, <1>2, <1>3, <1>4, NoTabChange DEF TabKeeps, BrowserTypes, CallTypes

LEMMA LeaveRevokedLife ==
    ASSUME LifeInv, NEW t \in Tabs, LeaveRevoked(t)
    PROVE  /\ TabKeeps
           /\ revoke[<<t, "leave">>].pc = "done" /\ revoke'[<<t, "leave">>] = NoRevoke
           /\ \A d \in Calls \ {<<t, "leave">>} : revoke'[d] = revoke[d]
           /\ leave'[t].token = leave[t].token /\ \A u \in Tabs \ {t} : leave'[u] = leave[u]
<1> DEFINE c == <<t, "leave">>
<1>1. /\ UNCHANGED <<rows, jar, tab, sock, lock, refresh>> /\ CallTypes /\ c \in Calls
      /\ leave' = [leave EXCEPT ![t].pc = "reply"]
      /\ revoke' = [revoke EXCEPT ![c] = NoRevoke] /\ revoke[c].pc = "done"
  BY DEF LeaveRevoked, server, browser, LifeInv, SessionTypes, Calls
<1>2. /\ leave' \in [Tabs -> LeaveType] /\ leave'[t].token = leave[t].token
      /\ \A u \in Tabs \ {t} : leave'[u] = leave[u]
  BY <1>1, LeavingType
<1>3. LeaveIssued'
  BY <1>1, <1>2, LeaveIssuedAt DEF LifeInv, AllIssued, LeaveIssued
<1> HIDE DEF c
<1>4. /\ revoke' \in [Calls -> RevokeType] /\ revoke'[c] = NoRevoke
      /\ \A d \in Calls \ {c} : revoke'[d] = revoke[d]
  BY <1>1, Initials, RevokeAt
<1> QED
  BY <1>1, <1>2, <1>3, <1>4, NoTabChange DEF TabKeeps, BrowserTypes, CallTypes, c

LEMMA LeaveDoneLife ==
    ASSUME LifeInv, NEW t \in Tabs, LeaveDone(t)
    PROVE  /\ TabKeeps
           /\ leave[t].pc # "revoking" /\ leave'[t] = NoLeave
           /\ \A u \in Tabs \ {t} : leave'[u] = leave[u] /\ tab'[u] = tab[u] /\ sock'[u] = sock[u]
           /\ tab'[t].access = NoAccess /\ sock'[t] = NoSocket
           /\ UNCHANGED jar \/ jar' = [jar EXCEPT ![BrowserOf[t]] = None]
<1> DEFINE b == BrowserOf[t]
<1>1. /\ UNCHANGED <<rows, lock, refresh, revoke>> /\ CallTypes /\ BrowserTypes
      /\ leave[t].pc \in {"sent", "reply", "denied"}
      /\ leave' = [leave EXCEPT ![t] = NoLeave] /\ SignOut(t)
      /\ UNCHANGED jar \/ jar' = [jar EXCEPT ![b] = None]
  BY DEF LeaveDone, server, LifeInv, SessionTypes
<1>2. /\ leave' \in [Tabs -> LeaveType] /\ leave'[t] = NoLeave
      /\ \A u \in Tabs \ {t} : leave'[u] = leave[u]
  BY <1>1, Initials, LeaveAt
<1>3. LeaveIssued'
  BY <1>1, <1>2, LeaveIssuedAt DEF Issued, NoLeave
<1>4. jar' \in [Browsers -> Token \cup {None}] /\ \A a \in Browsers : jar'[a] = jar[a] \/ jar'[a] = None
  BY <1>1 DEF BrowserTypes
<1>5. JarIssued'
  BY <1>1, <1>4 DEF LifeInv, AllIssued, JarIssued, Issued
<1>6. /\ tab' \in [Tabs -> TabType] /\ sock' \in [Tabs -> SocketType]
      /\ tab'[t] = SignedOut /\ sock'[t] = NoSocket
      /\ \A u \in Tabs \ {t} : tab'[u] = tab[u] /\ sock'[u] = sock[u]
  BY <1>1, SignOutType
<1> QED
  BY <1>1, <1>2, <1>3, <1>4, <1>5, <1>6, NoTabChange DEF TabKeeps, BrowserTypes, CallTypes, SignedOut

\* Only what a tab knows and its socket change.
LEMMA TabAlone ==
    ASSUME LifeInv, UNCHANGED <<rows, jar, lock, refresh, leave, revoke>>,
           tab' \in [Tabs -> TabType], sock' \in [Tabs -> SocketType]
    PROVE  TabKeeps
BY NoTabChange DEF TabKeeps, BrowserTypes, CallTypes

LEMMA HearSignedOutLife ==
    ASSUME LifeInv, NEW t \in Tabs, HearSignedOut(t)
    PROVE  /\ TabKeeps
           /\ \A u \in Tabs \ {t} : tab'[u] = tab[u] /\ sock'[u] = sock[u]
           /\ UNCHANGED <<tab, sock>> \/ (tab'[t].access = NoAccess /\ sock'[t] = NoSocket)
<1>1. UNCHANGED <<rows, jar, lock, refresh, leave, revoke>> /\ BrowserTypes
  BY DEF HearSignedOut, server, LifeInv, SessionTypes
<1>2. CASE SignOut(t)
  <2>1. /\ tab' \in [Tabs -> TabType] /\ sock' \in [Tabs -> SocketType]
        /\ tab'[t] = SignedOut /\ sock'[t] = NoSocket
        /\ \A u \in Tabs \ {t} : tab'[u] = tab[u] /\ sock'[u] = sock[u]
    BY <1>1, <1>2, SignOutType
  <2>2. TabKeeps
    BY <1>1, <2>1, TabAlone
  <2> QED
    BY <2>1, <2>2 DEF SignedOut
<1>3. CASE UNCHANGED <<tab, sock>>
  <2>1. tab' \in [Tabs -> TabType] /\ sock' \in [Tabs -> SocketType]
    BY <1>1, <1>3 DEF BrowserTypes
  <2>2. TabKeeps
    BY <1>1, <2>1, TabAlone
  <2>3. tab' = tab /\ sock' = sock
    BY <1>3
  <2> QED
    BY <2>2, <2>3
<1> QED
  BY <1>2, <1>3 DEF HearSignedOut

\* Something new is known of the socket of one tab.
LEMMA SocketAt ==
    ASSUME BrowserTypes, NEW t \in Tabs, NEW v \in SocketType, sock' = [sock EXCEPT ![t] = v]
    PROVE  /\ sock' \in [Tabs -> SocketType]
           /\ sock'[t] = v /\ \A u \in Tabs \ {t} : sock'[u] = sock[u]
BY DEF BrowserTypes

LEMMA SocketCheckLife ==
    ASSUME LifeInv, NEW t \in Tabs, SocketCheck(t)
    PROVE  /\ TabKeeps /\ \A u \in Tabs \ {t} : sock'[u] = sock[u]
           /\ sock'[t].session = tab[t].access.session
           /\ sock'[t].st = "checked" => Admitted(tab[t].access.session)
           /\ sock'[t].st # "up"
<1> DEFINE f == tab[t].access.session
           st == IF Admitted(f) THEN "checked" ELSE "closed"
           v == [NoSocket EXCEPT !.st = st, !.session = f]
<1>1. UNCHANGED <<rows, jar, lock, refresh, leave, revoke, tab>> /\ BrowserTypes
      /\ sock' = [sock EXCEPT ![t] = v]
  BY DEF SocketCheck, server, browser, LifeInv, SessionTypes
<1>2. f \in Families \cup {None} /\ st \in {"checked", "closed"}
  BY <1>1 DEF BrowserTypes, TabType, AccessType
<1>3. st = "checked" => Admitted(f)
  OBVIOUS
<1> HIDE DEF f, st
<1>4. v \in SocketType /\ v.session = f /\ v.st = st
  BY <1>2 DEF NoSocket, SocketType
<1> HIDE DEF v
<1>5. /\ sock' \in [Tabs -> SocketType]
      /\ sock'[t] = v /\ \A u \in Tabs \ {t} : sock'[u] = sock[u]
  BY <1>1, <1>4, SocketAt
<1>6. TabKeeps
  BY <1>1, <1>5, TabAlone DEF BrowserTypes
<1> QED
  BY <1>2, <1>3, <1>4, <1>5, <1>6 DEF f

LEMMA SocketJoinLife ==
    ASSUME LifeInv, NEW t \in Tabs, SocketJoin(t)
    PROVE  /\ TabKeeps /\ \A u \in Tabs \ {t} : sock'[u] = sock[u]
           /\ sock[t].st = "checked" /\ sock'[t].st = "up"
           /\ sock'[t].session = sock[t].session /\ sock'[t].overtaken = sock[t].overtaken
<1> DEFINE v == [sock[t] EXCEPT !.st = "up"]
<1>1. UNCHANGED <<rows, jar, lock, refresh, leave, revoke, tab>> /\ BrowserTypes
      /\ sock' = [sock EXCEPT ![t] = v] /\ sock[t].st = "checked"
  BY DEF SocketJoin, server, browser, LifeInv, SessionTypes
<1>2. v \in SocketType /\ v.st = "up" /\ v.session = sock[t].session /\ v.overtaken = sock[t].overtaken
  BY <1>1 DEF BrowserTypes, SocketType
<1> HIDE DEF v
<1>3. /\ sock' \in [Tabs -> SocketType]
      /\ sock'[t] = v /\ \A u \in Tabs \ {t} : sock'[u] = sock[u]
  BY <1>1, <1>2, SocketAt
<1>4. TabKeeps
  BY <1>1, <1>3, TabAlone DEF BrowserTypes
<1> QED
  BY <1>1, <1>2, <1>3, <1>4

LEMMA SocketKickedLife ==
    ASSUME LifeInv, NEW t \in Tabs, SocketKicked(t)
    PROVE  /\ TabKeeps /\ \A u \in Tabs \ {t} : tab'[u] = tab[u] /\ sock'[u] = sock[u]
           /\ UNCHANGED tab \/ tab'[t].access = NoAccess
           /\ sock'[t].st \in {"none", "closed"}
<1>1. UNCHANGED <<rows, jar, lock, refresh, leave, revoke>> /\ BrowserTypes
  BY DEF SocketKicked, server, LifeInv, SessionTypes
<1>2. CASE SignOut(t)
  BY <1>1, <1>2, SignOutType, TabAlone DEF SignedOut, NoSocket
<1>3. CASE sock' = [sock EXCEPT ![t].st = "closed"] /\ UNCHANGED tab
  <2> DEFINE v == [sock[t] EXCEPT !.st = "closed"]
  <2>1. v \in SocketType /\ v.st = "closed"
    BY <1>1 DEF BrowserTypes, SocketType
  <2>2. sock' = [sock EXCEPT ![t] = v]
    BY <1>3
  <2> HIDE DEF v
  <2>3. /\ sock' \in [Tabs -> SocketType]
        /\ sock'[t] = v /\ \A u \in Tabs \ {t} : sock'[u] = sock[u]
    BY <1>1, <2>1, <2>2, SocketAt
  <2>4. TabKeeps
    BY <1>1, <1>3, <2>3, TabAlone DEF BrowserTypes
  <2> QED
    BY <1>3, <2>1, <2>3, <2>4
<1> QED
  BY <1>2, <1>3 DEF SocketKicked

LEMMA ReloadLife ==
    ASSUME LifeInv, NEW t \in Tabs, Reload(t)
    PROVE  /\ TabKeeps /\ \A u \in Tabs \ {t} : tab'[u] = tab[u] /\ sock'[u] = sock[u]
           /\ tab'[t].access = NoAccess /\ sock'[t] = NoSocket
<1> DEFINE v == [SignedOut EXCEPT !.status = "booting"]
<1>1. /\ UNCHANGED <<rows, jar, lock, refresh, leave, revoke>> /\ BrowserTypes
      /\ tab' = [tab EXCEPT ![t] = v] /\ sock' = [sock EXCEPT ![t] = NoSocket]
  BY DEF Reload, server, LifeInv, SessionTypes
<1>2. v \in TabType /\ v.access = NoAccess
  BY Initials DEF SignedOut, TabType
<1> HIDE DEF v
<1>3. /\ tab' \in [Tabs -> TabType] /\ tab'[t] = v /\ \A u \in Tabs \ {t} : tab'[u] = tab[u]
  BY <1>1, <1>2 DEF BrowserTypes
<1>4. /\ sock' \in [Tabs -> SocketType]
      /\ sock'[t] = NoSocket /\ \A u \in Tabs \ {t} : sock'[u] = sock[u]
  BY <1>1, Initials, SocketAt
<1> QED
  BY <1>1, <1>2, <1>3, <1>4, TabAlone

LEMMA LogoutLife ==
    ASSUME LifeInv, NEW t \in Tabs, Logout(t)
    PROVE  /\ TabKeeps /\ \A u \in Tabs \ {t} : tab'[u] = tab[u] /\ leave'[u] = leave[u]
           /\ tab'[t].access = tab[t].access
           /\ leave[t] = NoLeave /\ leave'[t].pc = "sent"
<1> DEFINE v == [tab[t] EXCEPT !.leaving = TRUE]
           k == Presented(BrowserOf[t])
<1>1. PICK all \in BOOLEAN : leave' = [leave EXCEPT ![t] = [pc |-> "sent", all |-> all, token |-> k]]
  BY DEF Logout
<1>2. /\ UNCHANGED <<rows, jar, lock, refresh, revoke, sock>> /\ BrowserTypes /\ CallTypes
      /\ leave[t] = NoLeave /\ tab' = [tab EXCEPT ![t] = v]
  BY DEF Logout, server, LifeInv, SessionTypes
<1>3. v \in TabType /\ v.access = tab[t].access
  BY <1>2 DEF BrowserTypes, TabType
<1> HIDE DEF v
<1>4. /\ tab' \in [Tabs -> TabType] /\ tab'[t] = v /\ \A u \in Tabs \ {t} : tab'[u] = tab[u]
  BY <1>2, <1>3 DEF BrowserTypes
<1>5. k \in Token \cup {None} /\ Issued(k)
  BY PresentedIssued
<1> HIDE DEF k
<1> DEFINE w == [pc |-> "sent", all |-> all, token |-> k]
<1>6. w \in LeaveType /\ w.pc = "sent" /\ w.token = k
  BY <1>5 DEF LeaveType
<1>7. leave' = [leave EXCEPT ![t] = w]
  BY <1>1
<1> HIDE DEF w
<1>8. /\ leave' \in [Tabs -> LeaveType] /\ leave'[t] = w
      /\ \A u \in Tabs \ {t} : leave'[u] = leave[u]
  BY <1>2, <1>6, <1>7, LeaveAt
<1>9. LeaveIssued'
  BY <1>2, <1>5, <1>6, <1>8, LeaveIssuedAt
<1> QED
  BY <1>2, <1>3, <1>4, <1>6, <1>8, <1>9, NoTabChange DEF TabKeeps, BrowserTypes, CallTypes

-----------------------------------------------------------------------------
(* Steps of a revocation.                                                  *)

LEMMA LiveTokensAre ==
    ASSUME ServerTypes, NEW S \in SUBSET Families
    PROVE  /\ LiveTokens(S) \in SUBSET Token
           /\ \A f \in Families, n \in Nat \ {0} :
                 <<f, n>> \in LiveTokens(S) <=> f \in S /\ Live(f, n)
<1>1. \A f \in Families : DOMAIN rows[f] \subseteq Nat \ {0}
  BY DEF ServerTypes
<1>2. ASSUME NEW k \in LiveTokens(S) PROVE k \in Token
  BY <1>1, <1>2 DEF LiveTokens, Token
<1>3. ASSUME NEW f \in Families, NEW n \in Nat \ {0}
      PROVE  <<f, n>> \in LiveTokens(S) <=> f \in S /\ Live(f, n)
  <2>1. <<f, n>> \in LiveTokens(S) => f \in S /\ Live(f, n)
    BY DEF LiveTokens
  <2>2. f \in S /\ Live(f, n) => <<f, n>> \in LiveTokens(S)
    BY DEF LiveTokens, Live
  <2> QED
    BY <2>1, <2>2
<1> QED
  BY <1>2, <1>3

LEMMA RevokeFindLife ==
    ASSUME LifeInv, NEW c \in Calls, RevokeFind(c)
    PROVE  /\ TabKeeps /\ revoke[c].pc = "find" /\ revoke'[c].pc \in {"done", "scan"}
           /\ revoke'[c].pc = "done" => revoke'[c].of = {}
           /\ \A f \in revoke'[c].of : f \in Families /\ \E n \in DOMAIN rows[f] : Live(f, n)
           /\ revoke'[c].seen = revoke[c].seen /\ revoke'[c].why = revoke[c].why
           /\ \A d \in Calls \ {c} : revoke'[d] = revoke[d]
<1> DEFINE open == {k[1] : k \in LiveTokens(Families)}
           pc == IF open = {} THEN "done" ELSE "scan"
<1>1. /\ UNCHANGED <<rows, jar, tab, sock, lock, refresh, leave>> /\ CallTypes /\ ServerTypes
      /\ revoke[c].pc = "find"
      /\ revoke' = [revoke EXCEPT ![c].pc = pc, ![c].of = open]
  BY DEF RevokeFind, server, browser, LifeInv, SessionTypes
<1>2. LiveTokens(Families) \in SUBSET Token
  BY <1>1, LiveTokensAre
<1>3. \A f \in open : f \in Families /\ \E n \in DOMAIN rows[f] : Live(f, n)
  <2>1. SUFFICES ASSUME NEW k \in LiveTokens(Families)
                 PROVE  k[1] \in Families /\ \E n \in DOMAIN rows[k[1]] : Live(k[1], n)
    OBVIOUS
  <2>2. k[1] \in Families /\ k[2] \in Nat \ {0} /\ k = <<k[1], k[2]>>
    BY <1>2 DEF Token
  <2>3. Live(k[1], k[2])
    BY <1>1, <2>2, LiveTokensAre
  <2> QED
    BY <2>2, <2>3 DEF Live
<1>4. pc \in {"done", "scan"} /\ (pc = "done" => open = {})
  OBVIOUS
<1>5. open \in SUBSET Families
  BY <1>3
<1> HIDE DEF open, pc
<1>6. revoke[c].seen \in SUBSET Token
  BY <1>1 DEF CallTypes, RevokeType
<1> DEFINE v == [revoke[c] EXCEPT !.pc = pc, !.of = open]
<1>7. /\ v \in RevokeType /\ v.pc = pc /\ v.of = open /\ v.seen = revoke[c].seen
      /\ v.why = revoke[c].why
      /\ revoke' = [revoke EXCEPT ![c] = v]
  BY <1>1, <1>4, <1>5, <1>6 DEF CallTypes, RevokeType
<1> HIDE DEF v
<1>8. /\ revoke' \in [Calls -> RevokeType]
      /\ revoke'[c].pc = pc /\ revoke'[c].of = open /\ revoke'[c].seen = revoke[c].seen
      /\ revoke'[c].why = revoke[c].why
      /\ \A d \in Calls \ {c} : revoke'[d] = revoke[d]
  BY <1>1, <1>7, RevokeAt
<1>9. TabKeeps
  BY <1>1, <1>8, NoTabChange DEF TabKeeps, BrowserTypes, CallTypes
<1> QED
  BY <1>1, <1>3, <1>4, <1>8, <1>9

LEMMA RevokeScanLife ==
    ASSUME LifeInv, NEW c \in Calls, RevokeScan(c)
    PROVE  /\ TabKeeps /\ revoke[c].pc = "scan" /\ revoke'[c].pc = "write"
           /\ revoke'[c].of = revoke[c].of
           /\ revoke'[c].seen \in SUBSET Token
           /\ \A f \in Families, n \in Nat \ {0} :
                 <<f, n>> \in revoke'[c].seen <=> f \in revoke[c].of /\ Live(f, n)
           /\ revoke'[c].why = revoke[c].why
           /\ \A d \in Calls \ {c} : revoke'[d] = revoke[d]
<1> DEFINE S == revoke[c].of
           seen == LiveTokens(S)
<1>1. /\ UNCHANGED <<rows, jar, tab, sock, lock, refresh, leave>> /\ CallTypes /\ ServerTypes
      /\ revoke[c].pc = "scan"
      /\ revoke' = [revoke EXCEPT ![c].pc = "write", ![c].seen = seen]
  BY DEF RevokeScan, server, browser, LifeInv, SessionTypes
<1>2. S \in SUBSET Families
  BY <1>1 DEF CallTypes, RevokeType
<1>3. /\ seen \in SUBSET Token
      /\ \A f \in Families, n \in Nat \ {0} : <<f, n>> \in seen <=> f \in S /\ Live(f, n)
  BY <1>1, <1>2, LiveTokensAre
<1> HIDE DEF seen
<1> DEFINE v == [revoke[c] EXCEPT !.pc = "write", !.seen = seen]
<1>4. /\ v \in RevokeType /\ v.pc = "write" /\ v.of = S /\ v.seen = seen
      /\ v.why = revoke[c].why
      /\ revoke' = [revoke EXCEPT ![c] = v]
  BY <1>1, <1>2, <1>3 DEF CallTypes, RevokeType
<1> HIDE DEF v
<1>5. /\ revoke' \in [Calls -> RevokeType]
      /\ revoke'[c].pc = "write" /\ revoke'[c].of = S /\ revoke'[c].seen = seen
      /\ revoke'[c].why = revoke[c].why
      /\ \A d \in Calls \ {c} : revoke'[d] = revoke[d]
  BY <1>1, <1>4, RevokeAt
<1>6. TabKeeps
  BY <1>1, <1>5, NoTabChange DEF TabKeeps, BrowserTypes, CallTypes
<1> QED
  BY <1>1, <1>3, <1>5, <1>6

LEMMA RevokeMarkLife ==
    ASSUME LifeInv, NEW c \in Calls, RevokeMark(c)
    PROVE  /\ TabKeeps /\ revoke[c].pc = "mark" /\ revoke'[c].pc = "tell"
           /\ revoke'[c].of = revoke[c].of /\ revoke'[c].seen = revoke[c].seen
           /\ revoke'[c].why = revoke[c].why
           /\ \A d \in Calls \ {c} : revoke'[d] = revoke[d]
           /\ marker' \in [Families -> Nat]
           /\ \A f \in Families : marker'[f] = IF f \in revoke[c].of THEN AccessTtl ELSE marker[f]
<1> DEFINE S == revoke[c].of
           seen == revoke[c].seen
<1>1. /\ UNCHANGED <<rows, jar, tab, sock, lock, refresh, leave>> /\ CallTypes /\ ServerTypes
      /\ revoke[c].pc = "mark"
      /\ revoke' = [revoke EXCEPT ![c].pc = "tell"]
      /\ marker' = [f \in Families |-> IF f \in revoke[c].of THEN AccessTtl ELSE marker[f]]
  BY DEF RevokeMark, server, browser, LifeInv, SessionTypes, MarkerTtl
<1>2. S \in SUBSET Families /\ seen \in SUBSET Token
  BY <1>1 DEF CallTypes, RevokeType
<1>3. marker' \in [Families -> Nat]
  BY <1>1, SessionsAssumption DEF ServerTypes
<1> DEFINE v == [revoke[c] EXCEPT !.pc = "tell"]
<1>4. /\ v \in RevokeType /\ v.pc = "tell" /\ v.of = S /\ v.seen = seen
      /\ v.why = revoke[c].why
      /\ revoke' = [revoke EXCEPT ![c] = v]
  BY <1>1, <1>2 DEF CallTypes, RevokeType
<1> HIDE DEF v
<1>5. /\ revoke' \in [Calls -> RevokeType]
      /\ revoke'[c].pc = "tell" /\ revoke'[c].of = S /\ revoke'[c].seen = seen
      /\ revoke'[c].why = revoke[c].why
      /\ \A d \in Calls \ {c} : revoke'[d] = revoke[d]
  BY <1>1, <1>4, RevokeAt
<1>6. TabKeeps
  BY <1>1, <1>5, NoTabChange DEF TabKeeps, BrowserTypes, CallTypes
<1> QED
  BY <1>1, <1>3, <1>5, <1>6

LEMMA RevokeTellLife ==
    ASSUME LifeInv, NEW c \in Calls, RevokeTell(c)
    PROVE  /\ TabKeeps /\ revoke[c].pc = "tell" /\ revoke'[c].pc = "done" /\ revoke'[c].of = {}
           /\ revoke'[c].seen = revoke[c].seen /\ revoke'[c].why = revoke[c].why
           /\ \A d \in Calls \ {c} : revoke'[d] = revoke[d]
           /\ \A t \in Tabs :
                 /\ sock'[t].session = sock[t].session
                 /\ sock[t].overtaken => sock'[t].overtaken
                 /\ sock'[t].st \in {"checked", "up"} => sock'[t].st = sock[t].st
                 /\ sock'[t].session \in revoke[c].of /\ sock'[t].st \in {"checked", "up"} =>
                       sock'[t].overtaken
<1> DEFINE S == revoke[c].of
           seen == revoke[c].seen
           W(t) == IF sock[t].session \notin S THEN sock[t]
                   ELSE CASE sock[t].st = "up"      -> [sock[t] EXCEPT !.st = "kicked"]
                          [] sock[t].st = "checked" -> [sock[t] EXCEPT !.overtaken = TRUE]
                          [] OTHER -> sock[t]
<1>1. /\ UNCHANGED <<rows, jar, tab, lock, refresh, leave>> /\ CallTypes /\ BrowserTypes
      /\ revoke[c].pc = "tell"
      /\ revoke' = [revoke EXCEPT ![c].pc = "done", ![c].of = {}]
      /\ sock' = [t \in Tabs |-> W(t)]
  BY DEF RevokeTell, server, browser, LifeInv, SessionTypes
<1>2. S \in SUBSET Families /\ seen \in SUBSET Token
  BY <1>1 DEF CallTypes, RevokeType
<1>3. ASSUME NEW t \in Tabs
      PROVE  /\ W(t) \in SocketType
             /\ W(t).session = sock[t].session
             /\ sock[t].overtaken => W(t).overtaken
             /\ W(t).st \in {"checked", "up"} => W(t).st = sock[t].st
             /\ W(t).session \in S /\ W(t).st \in {"checked", "up"} => W(t).overtaken
  <2>1. sock[t] \in SocketType
    BY <1>1 DEF BrowserTypes
  <2>2. CASE sock[t].session \notin S
    BY <2>1, <2>2
  <2>3. CASE sock[t].session \in S /\ sock[t].st = "up"
    <3>1. W(t) = [sock[t] EXCEPT !.st = "kicked"]
      BY <2>3
    <3> QED
      BY <2>1, <3>1 DEF SocketType
  <2>4. CASE sock[t].session \in S /\ sock[t].st = "checked"
    <3>1. W(t) = [sock[t] EXCEPT !.overtaken = TRUE]
      BY <2>4
    <3> QED
      BY <2>1, <2>4, <3>1 DEF SocketType
  <2>5. CASE sock[t].session \in S /\ sock[t].st \notin {"up", "checked"}
    <3>1. W(t) = sock[t]
      BY <2>5
    <3> QED
      BY <2>1, <2>5, <3>1
  <2> QED
    BY <2>2, <2>3, <2>4, <2>5
<1> HIDE DEF W
<1>4. sock' \in [Tabs -> SocketType] /\ \A t \in Tabs : sock'[t] = W(t)
  BY <1>1, <1>3
<1> DEFINE v == [revoke[c] EXCEPT !.pc = "done", !.of = {}]
<1>5. /\ v \in RevokeType /\ v.pc = "done" /\ v.of = {} /\ v.seen = seen
      /\ v.why = revoke[c].why
      /\ revoke' = [revoke EXCEPT ![c] = v]
  BY <1>1, <1>2 DEF CallTypes, RevokeType
<1> HIDE DEF v
<1>6. /\ revoke' \in [Calls -> RevokeType]
      /\ revoke'[c].pc = "done" /\ revoke'[c].of = {} /\ revoke'[c].seen = seen
      /\ revoke'[c].why = revoke[c].why
      /\ \A d \in Calls \ {c} : revoke'[d] = revoke[d]
  BY <1>1, <1>5, RevokeAt
<1>7. TabKeeps
  BY <1>1, <1>4, <1>6, NoTabChange DEF TabKeeps, BrowserTypes, CallTypes
<1> QED
  BY <1>1, <1>3, <1>4, <1>6, <1>7

-----------------------------------------------------------------------------
(* Steps that write the table of refresh tokens.                           *)

\* The rows are the same, and none of them came to be good or exchanged.
Rewritten ==
    /\ rows' \in [Families -> Seq(RowType)]
    /\ \A f \in Families : /\ DOMAIN rows'[f] = DOMAIN rows[f] /\ Len(rows'[f]) = Len(rows[f])
                           /\ \A n \in DOMAIN rows[f] : \/ rows'[f][n].st = rows[f][n].st
                                                        \/ rows'[f][n].st \in Reasons \cup {"gone"}

LEMMA SameLength ==
    ASSUME NEW s \in Seq(RowType), NEW z \in [DOMAIN s -> RowType]
    PROVE  z \in Seq(RowType) /\ Len(z) = Len(s) /\ DOMAIN z = DOMAIN s
<1>1. Len(s) \in Nat /\ DOMAIN s = 1 .. Len(s)
  OBVIOUS
<1>2. z \in [1 .. Len(s) -> RowType]
  BY <1>1
<1> QED
  BY <1>1, <1>2

LEMMA RewrittenAll ==
    ASSUME ServerTypes, NEW z,
           z \in [Families -> UNION {[D -> RowType] : D \in SUBSET Nat}],
           \A f \in Families : z[f] \in [DOMAIN rows[f] -> RowType],
           rows' = z,
           \A f \in Families : \A n \in DOMAIN rows[f] :
              z[f][n].st = rows[f][n].st \/ z[f][n].st \in Reasons \cup {"gone"}
    PROVE  Rewritten
<1>1. \A f \in Families : z[f] \in Seq(RowType) /\ Len(z[f]) = Len(rows[f])
                          /\ DOMAIN z[f] = DOMAIN rows[f]
  BY SameLength DEF ServerTypes
<1>2. z \in [Families -> Seq(RowType)]
  BY <1>1
<1> QED
  BY <1>1, <1>2 DEF Rewritten

LEMMA RewrittenInOrder ==
    ASSUME LifeInv, Rewritten
    PROVE  /\ InOrder'
           /\ UNCHANGED jar => JarIssued'
           /\ UNCHANGED leave => LeaveIssued'
           /\ UNCHANGED refresh => RefreshIssued'
           /\ UNCHANGED req => AnswerIssued'
<1>1. InOrder'
  <2>1. SUFFICES ASSUME NEW f \in Families, NEW n \in DOMAIN rows[f]
                 PROVE  /\ n < Len(rows[f]) => rows'[f][n].st # "live"
                        /\ n = Len(rows[f]) => rows'[f][n].st # "ROTATED"
    BY DEF InOrder, Rewritten
  <2> QED
    BY <2>1 DEF LifeInv, InOrder, Rewritten, Reasons
<1>2. ASSUME NEW k \in Token \cup {None}, Issued(k)
      PROVE  k = None \/ k[2] \in DOMAIN rows'[k[1]]
  BY <1>2 DEF Issued, Rewritten, Token
<1>3. UNCHANGED jar => JarIssued'
  BY <1>2 DEF LifeInv, SessionTypes, BrowserTypes, AllIssued, JarIssued, Issued
<1>4. UNCHANGED leave => LeaveIssued'
  BY <1>2 DEF LifeInv, SessionTypes, CallTypes, LeaveType, AllIssued, LeaveIssued, Issued
<1>5. ASSUME UNCHANGED refresh PROVE RefreshIssued'
  <2> SUFFICES ASSUME NEW t \in Tabs PROVE TokenIssued(t)'
    BY DEF RefreshIssued
  <2>1. TokenIssued(t) /\ refresh[t].token \in Token \cup {None}
    BY DEF LifeInv, SessionTypes, CallTypes, RefreshType, AllIssued, RefreshIssued
  <2>2. Issued(refresh[t].token)'
    BY <1>2, <1>5, <2>1 DEF TokenIssued, Issued
  <2>3. Exchanged(t)' <=> Exchanged(t)
    BY <1>5 DEF Exchanged
  <2>4. refresh[t].token # None => Len(rows'[refresh[t].token[1]]) = Len(rows[refresh[t].token[1]])
    BY <2>1 DEF Rewritten, Token
  <2> QED
    BY <1>5, <2>1, <2>2, <2>3, <2>4 DEF TokenIssued
<1>6. UNCHANGED req => AnswerIssued'
  <2>1. \A f \in Families : rows[f] # <<>> => rows'[f] # <<>>
    BY DEF LifeInv, SessionTypes, ServerTypes, Rewritten
  <2> QED
    BY <2>1 DEF LifeInv, AllIssued, AnswerIssued
<1> QED
  BY <1>1, <1>3, <1>4, <1>5, <1>6

LEMMA RevokeWriteLife ==
    ASSUME LifeInv, NEW c \in Calls, RevokeWrite(c)
    PROVE  /\ Rewritten /\ CallTypes' /\ revoke[c].pc = "write" /\ revoke'[c].pc = "mark"
           /\ revoke'[c].of = revoke[c].of /\ revoke'[c].seen = {}
           /\ revoke'[c].why = revoke[c].why
           /\ \A d \in Calls \ {c} : revoke'[d] = revoke[d]
           /\ \A f \in Families : \A n \in DOMAIN rows[f] :
                 rows'[f][n].st = IF <<f, n>> \in revoke[c].seen /\ Live(f, n)
                                  THEN revoke[c].why ELSE rows[f][n].st
<1> DEFINE hit(f, n) == <<f, n>> \in revoke[c].seen /\ Live(f, n)
           row(f, n) == IF hit(f, n) THEN [rows[f][n] EXCEPT !.st = revoke[c].why] ELSE rows[f][n]
           z == [f \in Families |-> [n \in DOMAIN rows[f] |-> row(f, n)]]
           v == [revoke[c] EXCEPT !.pc = "mark", !.seen = {}]
<1>1. /\ UNCHANGED <<refresh, leave>> /\ CallTypes /\ ServerTypes
      /\ revoke[c].pc = "write"
      /\ revoke' = [revoke EXCEPT ![c].pc = "mark", ![c].seen = {}]
      /\ rows' = z
  BY DEF RevokeWrite, LifeInv, SessionTypes
<1>2. revoke[c].why \in Reasons
  BY <1>1 DEF CallTypes, RevokeType
<1>3. ASSUME NEW f \in Families, NEW n \in DOMAIN rows[f]
      PROVE  /\ row(f, n) \in RowType
             /\ row(f, n).st = IF hit(f, n) THEN revoke[c].why ELSE rows[f][n].st
  <2>1. rows[f][n] \in RowType
    BY <1>1 DEF ServerTypes
  <2> HIDE DEF hit
  <2>2. CASE hit(f, n)
    BY <1>2, <2>1, <2>2 DEF RowType
  <2>3. CASE ~hit(f, n)
    BY <2>1, <2>3
  <2> QED
    BY <2>2, <2>3
<1> HIDE DEF hit, row
<1>4. \A f \in Families : z[f] \in [DOMAIN rows[f] -> RowType] /\ DOMAIN rows[f] \in SUBSET Nat
  BY <1>1, <1>3 DEF ServerTypes
<1>5. z \in [Families -> UNION {[D -> RowType] : D \in SUBSET Nat}]
  BY <1>4
<1>6. \A f \in Families : \A n \in DOMAIN rows[f] : z[f][n] = row(f, n)
  OBVIOUS
<1> HIDE DEF z
<1>7. Rewritten
  <2>1. \A f \in Families : \A n \in DOMAIN rows[f] :
              z[f][n].st = rows[f][n].st \/ z[f][n].st \in Reasons \cup {"gone"}
    BY <1>2, <1>3, <1>6
  <2> QED
    BY <1>1, <1>4, <1>5, <2>1, RewrittenAll
<1>8. /\ v \in RevokeType /\ v.pc = "mark" /\ v.of = revoke[c].of /\ v.seen = {}
      /\ v.why = revoke[c].why
      /\ revoke' = [revoke EXCEPT ![c] = v]
  BY <1>1 DEF CallTypes, RevokeType
<1> HIDE DEF v
<1>9. /\ revoke' \in [Calls -> RevokeType]
      /\ revoke'[c].pc = "mark" /\ revoke'[c].of = revoke[c].of /\ revoke'[c].seen = {}
      /\ revoke'[c].why = revoke[c].why
      /\ \A d \in Calls \ {c} : revoke'[d] = revoke[d]
  BY <1>1, <1>8, RevokeAt
<1>10. CallTypes'
  BY <1>1, <1>9 DEF CallTypes
<1> QED
  BY <1>1, <1>3, <1>6, <1>7, <1>9, <1>10 DEF hit

LEMMA DeleteExpiredLife ==
    ASSUME LifeInv, DeleteExpired
    PROVE  /\ Rewritten
           /\ \A f \in Families : \A n \in DOMAIN rows[f] : rows'[f][n].st \in {rows[f][n].st, "gone"}
<1> DEFINE row(f, n) == IF rows[f][n].left = 0 THEN [rows[f][n] EXCEPT !.st = "gone"] ELSE rows[f][n]
           z == [f \in Families |-> [n \in DOMAIN rows[f] |-> row(f, n)]]
<1>1. ServerTypes /\ rows' = z
  BY DEF DeleteExpired, LifeInv, SessionTypes
<1>2. ASSUME NEW f \in Families, NEW n \in DOMAIN rows[f]
      PROVE  row(f, n) \in RowType /\ row(f, n).st \in {rows[f][n].st, "gone"}
  <2>1. rows[f][n] \in RowType
    BY <1>1 DEF ServerTypes
  <2>2. CASE rows[f][n].left = 0
    BY <2>1, <2>2 DEF RowType
  <2>3. CASE rows[f][n].left # 0
    BY <2>1, <2>3
  <2> QED
    BY <2>2, <2>3
<1> HIDE DEF row
<1>3. \A f \in Families : z[f] \in [DOMAIN rows[f] -> RowType] /\ DOMAIN rows[f] \in SUBSET Nat
  BY <1>1, <1>2 DEF ServerTypes
<1>4. z \in [Families -> UNION {[D -> RowType] : D \in SUBSET Nat}]
  BY <1>3
<1>5. \A f \in Families : \A n \in DOMAIN rows[f] : z[f][n] = row(f, n)
  OBVIOUS
<1> HIDE DEF z
<1>6. \A f \in Families : \A n \in DOMAIN rows[f] :
            z[f][n].st = rows[f][n].st \/ z[f][n].st \in Reasons \cup {"gone"}
  BY <1>2, <1>5
<1> QED
  BY <1>1, <1>2, <1>3, <1>4, <1>5, <1>6, RewrittenAll

\* The good token is spent and the next one appended.
LEMMA RotateLife ==
    ASSUME LifeInv, NEW t \in Tabs, Rotate(t)
    PROVE  LET f == refresh[t].token[1]
               n == refresh[t].token[2] IN
           /\ refresh[t].pc = "rotate" /\ refresh[t].token # None /\ f \in Families
           /\ n \in DOMAIN rows[f]
           /\ CallTypes' /\ RefreshIssued' /\ Locked' /\ refresh'[t].pc = "reply"
           /\ refresh'[t].token = refresh[t].token /\ \A u \in Tabs \ {t} : refresh'[u] = refresh[u]
           /\ rows' \in [Families -> Seq(RowType)]
           /\ \/ UNCHANGED <<rows, overlapped>> /\ refresh'[t].reply = "stale"
              \/ /\ Live(f, n) /\ n = Len(rows[f])
                 /\ refresh'[t].reply = "ok" /\ refresh'[t].left = AccessTtl
                 /\ Len(rows'[f]) = n + 1 /\ DOMAIN rows'[f] = 1 .. n + 1
                 /\ rows'[f][n].st = "ROTATED" /\ rows'[f][n + 1].st = "live"
                 /\ \A m \in 1 .. n - 1 : rows'[f][m] = rows[f][m]
                 /\ \A g \in Families \ {f} : rows'[g] = rows[g]
                 /\ overlapped' = IF BeingRevoked(f) THEN overlapped \cup {f} ELSE overlapped
<1> DEFINE k == refresh[t].token
           f == k[1]
           n == k[2]
<1>1. /\ refresh[t].pc = "rotate" /\ CallTypes /\ ServerTypes
      /\ UNCHANGED <<jar, tab, sock, lock, leave, revoke>>
  BY DEF Rotate, browser, LifeInv, SessionTypes
<1>2. refresh[t] \in RefreshType /\ k # None /\ k \in Token /\ Issued(k)
  BY <1>1 DEF LifeInv, SessionTypes, CallTypes, RefreshType, AllIssued, RefreshIssued, TokenIssued
<1>3. f \in Families /\ n \in DOMAIN rows[f] /\ rows[f] \in Seq(RowType) /\ n \in Nat \ {0}
      /\ n <= Len(rows[f]) /\ Len(rows[f]) \in Nat /\ DOMAIN rows[f] = 1 .. Len(rows[f])
  BY <1>1, <1>2 DEF Token, Issued, ServerTypes
<1>4. CASE Answer(t, "stale") /\ UNCHANGED <<rows, overlapped>>
  <2>1. /\ refresh' \in [Tabs -> RefreshType]
        /\ refresh'[t].pc = "reply" /\ refresh'[t].reply = "stale"
        /\ refresh'[t].token = k
        /\ \A u \in Tabs \ {t} : refresh'[u] = refresh[u]
    BY <1>1, <1>4, AnswerType DEF Replies
  <2>2. RefreshIssued' /\ Locked'
    BY <1>1, <1>2, <1>4, <2>1, RefreshIssuedAt, StillLocked
  <2>3. CallTypes' /\ rows' \in [Families -> Seq(RowType)]
    BY <1>1, <1>4, <2>1 DEF CallTypes, ServerTypes
  <2> QED
    BY <1>1, <1>2, <1>3, <1>4, <2>1, <2>2, <2>3
<1>5. CASE /\ Claimed(f, n)
           /\ rows' = [rows EXCEPT ![f] =
                Append([@ EXCEPT ![n].st = "ROTATED", ![n].grace = refresh[t].grace],
                       Row(refresh[t].left))]
           /\ refresh' = [refresh EXCEPT ![t].pc = "reply", ![t].reply = "ok",
                                         ![t].left = AccessTtl]
           /\ overlapped' = IF BeingRevoked(f) THEN overlapped \cup {f} ELSE overlapped
  <2> DEFINE v == [refresh[t] EXCEPT !.pc = "reply", !.reply = "ok", !.left = AccessTtl]
             w == [rows[f][n] EXCEPT !.st = "ROTATED", !.grace = refresh[t].grace]
             s == [rows[f] EXCEPT ![n] = w]
             new == Row(refresh[t].left)
             z == Append(s, new)
  <2>1. AccessTtl \in Nat
    BY SessionsAssumption
  <2>2. v \in RefreshType /\ v.pc = "reply" /\ v.reply = "ok" /\ v.left = AccessTtl /\ v.token = k
    BY <1>2, <2>1 DEF RefreshType
  <2>3. refresh' = [refresh EXCEPT ![t] = v]
    BY <1>1, <1>5 DEF CallTypes, RefreshType
  <2>4. rows[f][n] \in RowType
    BY <1>3
  <2>5. w \in RowType /\ w.st = "ROTATED"
    BY <1>2, <2>4 DEF RowType, RefreshType
  <2>6. rows' = [rows EXCEPT ![f] = z]
    <3> DEFINE q == rows[f]
               g == refresh[t].grace
    <3>1. n \in DOMAIN q /\ q \in [DOMAIN q -> RowType]
      BY <1>3
    <3>2. s = [q EXCEPT ![n] = [q[n] EXCEPT !.st = "ROTATED", !.grace = g]]
      OBVIOUS
    <3>3. rows' = [rows EXCEPT ![f] =
                     Append([q EXCEPT ![n].st = "ROTATED", ![n].grace = g], new)]
      BY <1>5
    <3> HIDE DEF s, q, g, new
    <3>4. [q EXCEPT ![n].st = "ROTATED", ![n].grace = g] = s
      BY <3>1, <3>2 DEF RowType
    <3> QED
      BY <3>3, <3>4
  <2>7. new \in RowType /\ new.st = "live"
    BY <1>2 DEF Row, RowType, RefreshType
  <2> HIDE DEF v, w, new
  <2>8. /\ s \in Seq(RowType) /\ Len(s) = Len(rows[f])
        /\ s[n] = w /\ \A m \in 1 .. Len(rows[f]) : m # n => s[m] = rows[f][m]
    BY <1>3, <2>5
  <2> HIDE DEF s
  <2>9. /\ z \in Seq(RowType) /\ Len(z) = Len(rows[f]) + 1 /\ z[Len(rows[f]) + 1] = new
        /\ \A m \in 1 .. Len(rows[f]) : z[m] = s[m]
    BY <1>3, <2>7, <2>8, AppendProperties
  <2> HIDE DEF z
  <2>10. /\ rows' \in [Families -> Seq(RowType)] /\ rows'[f] = z
         /\ \A g \in Families \ {f} : rows'[g] = rows[g]
    BY <1>1, <1>3, <2>6, <2>9 DEF ServerTypes
  <2>11. n = Len(rows[f])
    <3>1. n < Len(rows[f]) => rows[f][n].st # "live"
      BY <1>3 DEF LifeInv, InOrder
    <3>2. rows[f][n].st = "live"
      BY <1>5 DEF Claimed
    <3> QED
      BY <1>3, <3>1, <3>2
  <2>12. /\ refresh' \in [Tabs -> RefreshType] /\ refresh'[t] = v
         /\ \A u \in Tabs \ {t} : refresh'[u] = refresh[u]
    BY <1>1, <2>2, <2>3, RefreshAt
  <2>13. Len(rows'[f]) = n + 1 /\ DOMAIN rows'[f] = 1 .. n + 1
    BY <1>3, <2>9, <2>10, <2>11
  <2>14. RefreshIssued'
    <3> SUFFICES ASSUME NEW u \in Tabs PROVE TokenIssued(u)'
      BY DEF RefreshIssued
    <3>1. CASE u = t
      <4>1. k = <<f, n>> /\ n \in DOMAIN rows'[f] /\ n < Len(rows'[f])
        BY <1>2, <1>3, <2>13 DEF Token
      <4> QED
        BY <1>2, <2>2, <2>12, <3>1, <4>1 DEF TokenIssued, Issued, Exchanged
    <3>2. CASE u # t
      <4>1. TokenIssued(u) /\ refresh'[u] = refresh[u] /\ refresh[u].token \in Token \cup {None}
        BY <2>12, <3>2 DEF LifeInv, SessionTypes, CallTypes, RefreshType, AllIssued, RefreshIssued
      <4>2. ASSUME NEW g \in Families, NEW m \in DOMAIN rows[g]
            PROVE  m \in DOMAIN rows'[g] /\ (m < Len(rows[g]) => m < Len(rows'[g]))
        BY <1>1, <1>3, <2>10, <2>11, <2>13 DEF ServerTypes
      <4>3. Exchanged(u)' <=> Exchanged(u)
        BY <4>1 DEF Exchanged
      <4>4. Issued(refresh[u].token)'
        BY <4>1, <4>2 DEF TokenIssued, Issued, Token
      <4>5. refresh[u].token # None => refresh[u].token[1] \in Families
                                       /\ refresh[u].token[2] \in DOMAIN rows[refresh[u].token[1]]
        BY <4>1 DEF TokenIssued, Issued, Token
      <4> QED
        BY <4>1, <4>2, <4>3, <4>4, <4>5 DEF TokenIssued
    <3> QED
      BY <3>1, <3>2
  <2>15. Locked'
    BY <1>1, <2>2, <2>12, StillLocked
  <2>16. CallTypes'
    BY <1>1, <2>12 DEF CallTypes
  <2>17. rows'[f][n].st = "ROTATED" /\ rows'[f][n + 1].st = "live"
         /\ \A m \in 1 .. n - 1 : rows'[f][m] = rows[f][m]
    <3> HIDE DEF f, n
    <3>1. z[n] = w /\ z[n + 1] = new
      BY <1>3, <2>8, <2>9, <2>11
    <3>2. \A m \in 1 .. n - 1 : z[m] = rows[f][m]
      BY <1>3, <2>8, <2>9, <2>11
    <3> QED
      BY <2>5, <2>7, <2>10, <3>1, <3>2
  <2>18. Live(f, n)
    BY <1>3, <1>5 DEF Claimed, Live
  <2>19. /\ refresh'[t].pc = "reply" /\ refresh'[t].reply = "ok" /\ refresh'[t].left = AccessTtl
         /\ refresh'[t].token = refresh[t].token
    BY <2>2, <2>12
  <2>20. overlapped' = IF BeingRevoked(f) THEN overlapped \cup {f} ELSE overlapped
    BY <1>5
  <2>21. /\ Live(f, n) /\ n = Len(rows[f])
         /\ refresh'[t].reply = "ok" /\ refresh'[t].left = AccessTtl
         /\ Len(rows'[f]) = n + 1 /\ DOMAIN rows'[f] = 1 .. n + 1
         /\ rows'[f][n].st = "ROTATED" /\ rows'[f][n + 1].st = "live"
         /\ \A m \in 1 .. n - 1 : rows'[f][m] = rows[f][m]
         /\ \A g \in Families \ {f} : rows'[g] = rows[g]
         /\ overlapped' = IF BeingRevoked(f) THEN overlapped \cup {f} ELSE overlapped
    BY <2>10, <2>11, <2>13, <2>17, <2>18, <2>19, <2>20
  <2>22. /\ refresh[t].pc = "rotate" /\ k # None /\ f \in Families /\ n \in DOMAIN rows[f]
         /\ CallTypes' /\ RefreshIssued' /\ Locked' /\ refresh'[t].pc = "reply"
         /\ refresh'[t].token = refresh[t].token /\ \A u \in Tabs \ {t} : refresh'[u] = refresh[u]
         /\ rows' \in [Families -> Seq(RowType)]
    BY <1>1, <1>2, <1>3, <2>10, <2>12, <2>14, <2>15, <2>16, <2>19
  <2> HIDE DEF k, f, n
  <2> QED
    BY <2>21, <2>22 DEF k, f, n
<1> QED
  BY <1>4, <1>5 DEF Rotate

-----------------------------------------------------------------------------
(* The requests.                                                           *)

LEMMA InitialRequests == NoUser \in UserType /\ NoRequest \in ReqType
BY DEF NoUser, UserType, NoRequest, ReqType, Ops, Pcs

\* One request changes.
LEMMA ReqAt ==
    ASSUME RequestTypes, NEW r \in Requests, NEW v \in ReqType, req' = [req EXCEPT ![r] = v]
    PROVE  /\ req' \in [Requests -> ReqType]
           /\ req'[r] = v /\ \A q \in Requests \ {r} : req'[q] = req[q]
BY DEF RequestTypes

LEMMA StepType ==
    ASSUME RequestTypes, NEW r \in Requests, NEW pc \in Pcs, Step(r, pc)
    PROVE  /\ req' \in [Requests -> ReqType]
           /\ req'[r].pc = pc /\ \A q \in Requests \ {r} : req'[q] = req[q]
<1> DEFINE v == [req[r] EXCEPT !.pc = pc]
<1>1. v \in ReqType /\ v.pc = pc
  BY DEF RequestTypes, ReqType
<1>2. req' = [req EXCEPT ![r] = v]
  BY DEF Step
<1> HIDE DEF v
<1> QED
  BY <1>1, <1>2, ReqAt

LEMMA DoneType ==
    ASSUME RequestTypes, NEW r \in Requests, Done(r)
    PROVE  /\ req' \in [Requests -> ReqType]
           /\ req'[r].pc = "idle" /\ \A q \in Requests \ {r} : req'[q] = req[q]
<1> DEFINE v == NoRequest
<1>1. v.pc = "idle" /\ v \in ReqType /\ req' = [req EXCEPT ![r] = v]
  BY InitialRequests DEF NoRequest, Done
<1> HIDE DEF v
<1> QED
  BY <1>1, ReqAt

\* A step of a request that has nothing to do with sessions.
Busy == {"answer", "revoking"}
Elsewhere(r) ==
    /\ UNCHANGED <<server, browser, refresh, leave, revoke, sock, history>>
    /\ RequestTypes'
    /\ req[r].pc \notin Busy /\ req'[r].pc \notin Busy
    /\ \A q \in Requests \ {r} : req'[q] = req[q]

LEMMA ArriveElsewhere ==
    ASSUME RequestTypes, NEW r \in Requests, NEW t \in Tabs,
           NEW op \in Ops, NEW pc \in Pcs \ Busy, NEW pw \in Nat, NEW n \in Nat,
           Arrive(r, op, t, pc, pw, n)
    PROVE  Elsewhere(r)
<1> DEFINE v == [NoRequest EXCEPT !.op = op, !.pc = pc, !.tab = t, !.pw = pw, !.link = n]
<1>1. v \in ReqType /\ v.pc = pc
  BY InitialRequests DEF NoRequest, ReqType
<1>2. req' = [req EXCEPT ![r] = v] /\ req[r] = NoRequest /\ UNCHANGED <<acct, links>>
      /\ UNCHANGED <<server, browser, refresh, leave, revoke, sock, history>>
  BY DEF Arrive
<1> HIDE DEF v
<1>3. /\ req' \in [Requests -> ReqType]
      /\ req'[r] = v /\ \A q \in Requests \ {r} : req'[q] = req[q]
  BY <1>1, <1>2, ReqAt
<1>4. req[r].pc \notin Busy
  BY <1>2 DEF NoRequest, Busy
<1> QED
  BY <1>1, <1>2, <1>3, <1>4 DEF Elsewhere, RequestTypes

\* A step or the end of a request, with what else of the account changes.
LEMMA GoesOn ==
    ASSUME RequestTypes, NEW r \in Requests, NotSessions, req[r].pc \notin Busy,
           acct' \in UserType, links' \in Seq(LinkType),
           Done(r) \/ \E pc \in Pcs \ Busy : Step(r, pc)
    PROVE  Elsewhere(r)
<1>1. UNCHANGED <<server, browser, refresh, leave, revoke, sock, history>>
  BY DEF NotSessions, vars
<1>2. CASE Done(r)
  BY <1>1, <1>2, DoneType DEF Elsewhere, RequestTypes, Busy
<1>3. CASE \E pc \in Pcs \ Busy : Step(r, pc)
  BY <1>1, <1>3, StepType DEF Elsewhere, RequestTypes
<1> QED
  BY <1>2, <1>3

LEMMA SubmitElsewhere ==
    ASSUME RequestTypes, NEW r \in Requests,
           SubmitRegister(r) \/ SubmitResend(r) \/ SubmitForgot(r) \/ FollowLink(r) \/ LoginArrive(r)
    PROVE  Elsewhere(r)
<1>1. CASE SubmitRegister(r)
  <2>1. PICK t \in Tabs : Arrive(r, "register", t, "lookup", 1, 0)
    BY <1>1 DEF SubmitRegister
  <2>2. "register" \in Ops /\ "lookup" \in Pcs \ Busy
    BY DEF Ops, Pcs, Busy
  <2> QED
    BY <2>1, <2>2, ArriveElsewhere
<1>2. CASE SubmitResend(r)
  <2>1. PICK t \in Tabs : Arrive(r, "resend", t, "asked", 0, 0)
    BY <1>2 DEF SubmitResend
  <2>2. "resend" \in Ops /\ "asked" \in Pcs \ Busy
    BY DEF Ops, Pcs, Busy
  <2> QED
    BY <2>1, <2>2, ArriveElsewhere
<1>3. CASE SubmitForgot(r)
  <2>1. PICK t \in Tabs : Arrive(r, "forgot", t, "asked", 0, 0)
    BY <1>3 DEF SubmitForgot
  <2>2. "forgot" \in Ops /\ "asked" \in Pcs \ Busy
    BY DEF Ops, Pcs, Busy
  <2> QED
    BY <2>1, <2>2, ArriveElsewhere
<1>4. CASE FollowLink(r)
  <2>1. PICK t \in Tabs, n \in DOMAIN links :
          Arrive(r, IF links[n].kind = "verify" THEN "verify" ELSE "reset", t, "find", 0, n)
    BY <1>4 DEF FollowLink
  <2> DEFINE op == IF links[n].kind = "verify" THEN "verify" ELSE "reset"
  <2>2. n \in Nat /\ op \in Ops /\ "find" \in Pcs \ Busy
    BY DEF RequestTypes, Ops, Pcs, Busy
  <2> HIDE DEF op
  <2>3. Arrive(r, op, t, "find", 0, n)
    BY <2>1 DEF op
  <2> QED
    BY <2>2, <2>3, ArriveElsewhere
<1>5. CASE LoginArrive(r)
  <2>1. PICK t \in Tabs, pw \in 0 .. acct.resets + 1 :
          Arrive(r, IF pw = 0 THEN "mistype" ELSE "login", t, "peek", pw, 0)
    BY <1>5 DEF LoginArrive
  <2> DEFINE op == IF pw = 0 THEN "mistype" ELSE "login"
  <2>2. pw \in Nat /\ op \in Ops /\ "peek" \in Pcs \ Busy
    BY DEF RequestTypes, UserType, Ops, Pcs, Busy
  <2> HIDE DEF op
  <2>3. Arrive(r, op, t, "peek", pw, 0)
    BY <2>1 DEF op
  <2> QED
    BY <2>2, <2>3, ArriveElsewhere
<1> QED
  BY <1>1, <1>2, <1>3, <1>4, <1>5

\* Steps that look at the account, the links or the limiter and go on.
LEMMA LookElsewhere ==
    ASSUME RequestTypes, NEW r \in Requests,
           \/ Register(r) \/ ResendVerification(r) \/ RequestPasswordReset(r) \/ FindLink(r)
           \/ LoginPeek(r) \/ LoginCount(r) \/ LoginClear(r)
    PROVE  Elsewhere(r)
<1>1. NotSessions /\ UNCHANGED <<acct, links>>
  BY DEF Register, ResendVerification, RequestPasswordReset, FindLink, LoginPeek, LoginCount,
         LoginClear
<1>2. req[r].pc \notin Busy
  BY DEF Register, ResendVerification, RequestPasswordReset, FindLink, LoginPeek, LoginCount,
         LoginClear, Busy
<1>3. Done(r) \/ \E pc \in {"issue", "create", "claim", "check", "rehash", "create-session"} : Step(r, pc)
  BY DEF Register, ExistingRegistration, ResendVerification, RequestPasswordReset, FindLink,
         LoginPeek, LoginCount, LoginClear
<1>4. {"issue", "create", "claim", "check", "rehash", "create-session"} \subseteq Pcs \ Busy
  BY DEF Pcs, Busy
<1> QED
  BY <1>1, <1>2, <1>3, <1>4, GoesOn DEF RequestTypes

LEMMA IssueElsewhere ==
    ASSUME RequestTypes, NEW r \in Requests, IssueScan(r) \/ IssueCommit(r)
    PROVE  Elsewhere(r)
<1>1. CASE IssueScan(r)
  <2> DEFINE seen == Unused(KindOf(r))
             v == [req[r] EXCEPT !.pc = "commit", !.seen = seen]
  <2>1. seen \in SUBSET Nat
    BY DEF RequestTypes, Unused
  <2>2. /\ req[r].pc = "issue" /\ UNCHANGED <<acct, links>>
        /\ req' = [req EXCEPT ![r].pc = "commit", ![r].seen = seen]
        /\ UNCHANGED <<server, browser, refresh, leave, revoke, sock, history>>
    BY <1>1 DEF IssueScan, NotSessions, vars
  <2> HIDE DEF seen
  <2>3. v \in ReqType /\ v.pc = "commit" /\ req' = [req EXCEPT ![r] = v]
    BY <2>1, <2>2 DEF RequestTypes, ReqType, Pcs
  <2> HIDE DEF v
  <2>4. /\ req' \in [Requests -> ReqType]
        /\ req'[r] = v /\ \A q \in Requests \ {r} : req'[q] = req[q]
    BY <2>3, ReqAt
  <2> QED
    BY <2>2, <2>3, <2>4 DEF Elsewhere, RequestTypes, Busy
<1>2. CASE IssueCommit(r)
  <2> DEFINE gone == {n \in req[r].seen : Usable(n)}
             row(n) == IF n \notin DOMAIN links
                       THEN [kind |-> KindOf(r), st |-> "unused", left |-> LinkTtl]
                       ELSE IF n \in gone THEN [links[n] EXCEPT !.st = "deleted"] ELSE links[n]
             z == [n \in DOMAIN links \cup {Len(links) + 1} |-> row(n)]
             D == 1 .. Len(links) + 1
  <2>1. /\ req[r].pc = "commit" /\ UNCHANGED acct /\ Done(r) /\ NotSessions /\ links' = z
    BY <1>2 DEF IssueCommit, Reissued
  <2>2. Len(links) \in Nat /\ DOMAIN links = 1 .. Len(links)
    BY DEF RequestTypes
  <2>3. LinkTtl \in Nat /\ KindOf(r) \in {"verify", "reset"}
    BY AccountsAssumption DEF KindOf
  <2>4. \A n \in DOMAIN links : links[n] \in LinkType
    BY DEF RequestTypes
  <2>5. D = DOMAIN links \cup {Len(links) + 1}
    BY <2>2
  <2>6. ASSUME NEW n \in D PROVE row(n) \in LinkType
    <3>1. CASE n \in DOMAIN links /\ n \in gone
      <4>1. row(n) = [links[n] EXCEPT !.st = "deleted"]
        BY <3>1
      <4> QED
        BY <2>4, <3>1, <4>1 DEF LinkType
    <3>2. CASE n \in DOMAIN links /\ n \notin gone
      <4>1. row(n) = links[n]
        BY <3>2
      <4> QED
        BY <2>4, <3>2, <4>1
    <3>3. CASE n \notin DOMAIN links
      <4>1. row(n) = [kind |-> KindOf(r), st |-> "unused", left |-> LinkTtl]
        BY <3>3
      <4> QED
        BY <2>3, <4>1 DEF LinkType
    <3> QED
      BY <3>1, <3>2, <3>3
  <2> HIDE DEF row
  <2>7. z = [n \in D |-> row(n)]
    BY <2>5
  <2>8. z \in Seq(LinkType)
    <3>1. Len(links) + 1 \in Nat /\ [n \in D |-> row(n)] \in [D -> LinkType]
      BY <2>2, <2>6
    <3> QED
      BY <2>7, <3>1
  <2>9. links' \in Seq(LinkType) /\ acct' \in UserType
    BY <2>1, <2>8 DEF RequestTypes
  <2> QED
    BY <2>1, <2>9, GoesOn DEF Busy
<1> QED
  BY <1>1, <1>2

\* The user is read, created or changed.
LEMMA UserElsewhere ==
    ASSUME RequestTypes, NEW r \in Requests,
           RegisterCreate(r) \/ LoginCheck(r) \/ LoginRehash(r)
    PROVE  Elsewhere(r)
<1>1. CASE RegisterCreate(r)
  <2>1. /\ req[r].pc = "create" /\ NotSessions /\ UNCHANGED links
        /\ Step(r, "lookup") \/ Step(r, "issue")
        /\ UNCHANGED acct \/ acct' = [NoUser EXCEPT !.exists = TRUE, !.password = req[r].pw]
    BY <1>1 DEF RegisterCreate
  <2>2. req[r].pw \in Nat
    BY DEF RequestTypes, ReqType
  <2>3. acct' \in UserType
    <3>1. NoUser \in UserType /\ acct \in UserType
      BY InitialRequests DEF RequestTypes
    <3>2. [NoUser EXCEPT !.exists = TRUE, !.password = req[r].pw] \in UserType
      BY <2>2, <3>1 DEF UserType
    <3> QED
      BY <2>1, <3>1, <3>2
  <2>4. \E pc \in {"lookup", "issue"} : Step(r, pc)
    BY <2>1
  <2>5. {"lookup", "issue"} \subseteq Pcs \ Busy
    BY DEF Pcs, Busy
  <2> QED
    BY <2>1, <2>3, <2>4, <2>5, GoesOn DEF Busy, RequestTypes
<1>2. CASE LoginCheck(r)
  <2> DEFINE pc == IF acct.exists /\ req[r].pw = acct.password THEN "clear" ELSE "count"
             v == [req[r] EXCEPT !.pc = pc, !.user = acct]
  <2>1. /\ req[r].pc = "check" /\ UNCHANGED <<acct, links>>
        /\ req' = [req EXCEPT ![r].pc = pc, ![r].user = acct]
        /\ UNCHANGED <<server, browser, refresh, leave, revoke, sock, history>>
    BY <1>2 DEF LoginCheck, NotSessions, vars
  <2>2. pc \in {"clear", "count"} /\ acct \in UserType
    BY DEF RequestTypes
  <2> HIDE DEF pc
  <2>3. v \in ReqType /\ v.pc = pc /\ req' = [req EXCEPT ![r] = v]
    BY <2>1, <2>2 DEF RequestTypes, ReqType, Pcs
  <2> HIDE DEF v
  <2>4. /\ req' \in [Requests -> ReqType]
        /\ req'[r] = v /\ \A q \in Requests \ {r} : req'[q] = req[q]
    BY <2>3, ReqAt
  <2> QED
    BY <2>1, <2>2, <2>3, <2>4 DEF Elsewhere, RequestTypes, Busy
<1>3. CASE LoginRehash(r)
  <2>1. /\ req[r].pc = "rehash" /\ NotSessions /\ UNCHANGED links /\ Step(r, "create-session")
        /\ acct' = [acct EXCEPT !.password = req[r].pw, !.outdated = FALSE]
    BY <1>3 DEF LoginRehash
  <2>2. req[r].pw \in Nat
    BY DEF RequestTypes, ReqType
  <2>3. acct' \in UserType
    BY <2>1, <2>2 DEF RequestTypes, UserType
  <2>4. "create-session" \in Pcs \ Busy
    BY DEF Pcs, Busy
  <2> QED
    BY <2>1, <2>3, <2>4, GoesOn DEF Busy, RequestTypes
<1> QED
  BY <1>1, <1>2, <1>3

\* A link is used.
LEMMA ClaimElsewhere ==
    ASSUME RequestTypes, NEW r \in Requests, ClaimVerify(r) \/ ClaimReset(r)
    PROVE  Elsewhere(r)
<1>1. /\ req[r].pc = "claim" /\ NotSessions
      /\ Done(r) \/ Step(r, "revoke")
  BY DEF ClaimVerify, ClaimReset
<1>2. acct' \in UserType
  <2>1. \/ acct' = acct
        \/ acct' = [acct EXCEPT !.verified = TRUE]
        \/ acct' = [acct EXCEPT !.password = acct.resets + 2, !.resets = @ + 1,
                                !.outdated = FALSE, !.verified = TRUE]
    BY DEF ClaimVerify, ClaimReset
  <2>2. acct \in UserType
    BY DEF RequestTypes
  <2>3. acct.resets + 2 \in Nat /\ acct.resets + 1 \in Nat
    BY <2>2 DEF UserType
  <2>4. [acct EXCEPT !.verified = TRUE] \in UserType
    BY <2>2 DEF UserType
  <2>5. [acct EXCEPT !.password = acct.resets + 2, !.resets = @ + 1,
                     !.outdated = FALSE, !.verified = TRUE] \in UserType
    BY <2>2, <2>3 DEF UserType
  <2> QED
    BY <2>1, <2>2, <2>4, <2>5
<1>3. links' \in Seq(LinkType)
  <2> DEFINE row(n, m) == IF m = n THEN [links[m] EXCEPT !.st = "used"]
                          ELSE IF m \in Unused("reset") THEN [links[m] EXCEPT !.st = "deleted"]
                          ELSE links[m]
             z(n) == [m \in DOMAIN links |-> row(n, m)]
             n0 == req[r].link
  <2>1. \A m \in DOMAIN links : links[m] \in LinkType
    BY DEF RequestTypes
  <2>2. CASE UNCHANGED links
    BY <2>2 DEF RequestTypes
  <2>3. CASE links' = [links EXCEPT ![n0].st = "used"]
    <3>1. [links EXCEPT ![n0].st = "used"] = [links EXCEPT ![n0] = [links[n0] EXCEPT !.st = "used"]]
      OBVIOUS
    <3>2. CASE n0 \in DOMAIN links
      <4>1. [links[n0] EXCEPT !.st = "used"] \in LinkType
        BY <2>1, <3>2 DEF LinkType
      <4> QED
        BY <2>3, <3>1, <3>2, <4>1 DEF RequestTypes
    <3>3. CASE n0 \notin DOMAIN links
      <4>1. links' = links
        BY <2>3, <3>3 DEF RequestTypes
      <4> QED
        BY <4>1 DEF RequestTypes
    <3> QED
      BY <3>2, <3>3
  <2>4. CASE links' = z(n0)
    <3>1. ASSUME NEW m \in DOMAIN links PROVE row(n0, m) \in LinkType
      <4>1. [links[m] EXCEPT !.st = "used"] \in LinkType /\ [links[m] EXCEPT !.st = "deleted"] \in LinkType
        BY <2>1 DEF LinkType
      <4> QED
        BY <2>1, <4>1
    <3> HIDE DEF row
    <3>2. Len(links) \in Nat /\ DOMAIN links = 1 .. Len(links)
      BY DEF RequestTypes
    <3>3. z(n0) \in [1 .. Len(links) -> LinkType]
      BY <3>1, <3>2
    <3> QED
      BY <2>4, <3>2, <3>3
  <2> QED
    BY <2>2, <2>3, <2>4 DEF ClaimVerify, ClaimReset
<1>4. "revoke" \in Pcs \ Busy /\ "claim" \notin Busy
  BY DEF Pcs, Busy
<1> QED
  BY <1>1, <1>2, <1>3, <1>4, GoesOn

\* The steps of a password reset and of a sign-in that touch sessions.
LEMMA ResetRevokeLife ==
    ASSUME LifeInv, NEW r \in Requests, ResetRevoke(r)
    PROVE  /\ TabKeeps /\ RequestTypes'
           /\ req[r].pc = "revoke" /\ req'[r].pc = "revoking"
           /\ \A q \in Requests \ {r} : req'[q] = req[q]
           /\ revoke'[r].pc = "find" /\ revoke'[r].of = {} /\ revoke'[r].seen = {}
           /\ revoke'[r].why = "PASSWORD_RESET" /\ r \in Calls
           /\ \A d \in Calls \ {r} : revoke'[d] = revoke[d]
<1> DEFINE v == [NoRevoke EXCEPT !.pc = "find", !.why = "PASSWORD_RESET"]
<1>1. /\ UNCHANGED <<rows, jar, tab, sock, lock, refresh, leave, acct, links>> /\ CallTypes
      /\ req[r].pc = "revoke" /\ Step(r, "revoking") /\ RequestTypes
      /\ revoke' = [revoke EXCEPT ![r] = v]
  BY DEF ResetRevoke, server, browser, LifeInv, SessionTypes
<1>2. r \in Calls /\ "revoking" \in Pcs
  BY DEF Calls, Pcs
<1>3. /\ v \in RevokeType /\ v.pc = "find" /\ v.of = {} /\ v.seen = {}
      /\ v.why = "PASSWORD_RESET"
  BY DEF NoRevoke, RevokeType, Reasons
<1> HIDE DEF v
<1>4. /\ revoke' \in [Calls -> RevokeType]
      /\ revoke'[r].pc = "find" /\ revoke'[r].of = {} /\ revoke'[r].seen = {}
      /\ revoke'[r].why = "PASSWORD_RESET"
      /\ \A d \in Calls \ {r} : revoke'[d] = revoke[d]
  BY <1>1, <1>2, <1>3, RevokeAt
<1>5. /\ req' \in [Requests -> ReqType]
      /\ req'[r].pc = "revoking" /\ \A q \in Requests \ {r} : req'[q] = req[q]
  BY <1>1, <1>2, StepType
<1>6. TabKeeps
  BY <1>1, <1>4, NoTabChange DEF TabKeeps, BrowserTypes, CallTypes
<1> QED
  BY <1>1, <1>2, <1>4, <1>5, <1>6 DEF RequestTypes

LEMMA ResetDoneLife ==
    ASSUME LifeInv, NEW r \in Requests, ResetDone(r)
    PROVE  /\ TabKeeps /\ RequestTypes' /\ r \in Calls
           /\ req[r].pc = "revoking" /\ req'[r].pc = "idle"
           /\ \A q \in Requests \ {r} : req'[q] = req[q]
           /\ revoke[r].pc = "done" /\ revoke'[r] = NoRevoke
           /\ \A d \in Calls \ {r} : revoke'[d] = revoke[d]
           /\ jar' = [jar EXCEPT ![BrowserOf[req[r].tab]] = None]
           /\ \A t \in Tabs : \/ tab'[t] = tab[t] /\ sock'[t] = sock[t]
                              \/ tab'[t].access = NoAccess /\ sock'[t] = NoSocket
<1> DEFINE t == req[r].tab
<1>1. /\ UNCHANGED <<rows, lock, refresh, leave, acct, links>> /\ CallTypes /\ BrowserTypes
      /\ req[r].pc = "revoking" /\ Done(r) /\ RequestTypes /\ revoke[r].pc = "done"
      /\ revoke' = [revoke EXCEPT ![r] = NoRevoke] /\ SignOut(t)
      /\ jar' = [jar EXCEPT ![BrowserOf[t]] = None]
  BY DEF ResetDone, server, LifeInv, SessionTypes
<1>2. r \in Calls
  BY DEF Calls
<1>3. /\ revoke' \in [Calls -> RevokeType] /\ revoke'[r] = NoRevoke
      /\ \A d \in Calls \ {r} : revoke'[d] = revoke[d]
  BY <1>1, <1>2, Initials, RevokeAt
<1>4. /\ req' \in [Requests -> ReqType]
      /\ req'[r].pc = "idle" /\ \A q \in Requests \ {r} : req'[q] = req[q]
  BY <1>1, DoneType
<1> HIDE DEF t
<1>5. jar' \in [Browsers -> Token \cup {None}] /\ \A b \in Browsers : jar'[b] = jar[b] \/ jar'[b] = None
  BY <1>1 DEF BrowserTypes
<1>6. JarIssued'
  BY <1>1, <1>5 DEF LifeInv, AllIssued, JarIssued, Issued
<1>7. /\ tab' \in [Tabs -> TabType] /\ sock' \in [Tabs -> SocketType]
      /\ \A u \in Tabs : \/ tab'[u] = tab[u] /\ sock'[u] = sock[u]
                         \/ tab'[u] = SignedOut /\ sock'[u] = NoSocket
  BY <1>1, Initials DEF SignOut, BrowserTypes
<1>8. TabKeeps
  BY <1>1, <1>3, <1>5, <1>6, <1>7, NoTabChange DEF TabKeeps, BrowserTypes, CallTypes
<1>9. SignedOut.access = NoAccess
  BY DEF SignedOut
<1> QED
  BY <1>1, <1>2, <1>3, <1>4, <1>7, <1>8, <1>9 DEF RequestTypes, t

LEMMA LoginCreateLife ==
    ASSUME LifeInv, NEW r \in Requests, LoginCreate(r)
    PROVE  /\ RequestTypes' /\ req[r].pc = "create-session" /\ req'[r].pc = "answer"
           /\ req'[r].left = AccessTtl
           /\ \A q \in Requests \ {r} : req'[q] = req[q]
           /\ \E f \in Families :
                 /\ rows[f] = <<>> /\ req'[r].session = f
                 /\ rows' \in [Families -> Seq(RowType)] /\ life' \in [Families -> Nat]
                 /\ Len(rows'[f]) = 1 /\ DOMAIN rows'[f] = {1} /\ rows'[f][1].st = "live"
                 /\ \A g \in Families \ {f} : rows'[g] = rows[g]
<1>1. PICK f \in Families :
          /\ CreateSession(f)
          /\ req' = [req EXCEPT ![r].pc = "answer", ![r].session = f, ![r].left = AccessTtl]
  BY DEF LoginCreate
<1> DEFINE v == [req[r] EXCEPT !.pc = "answer", !.session = f, !.left = AccessTtl]
           new == Row(RefreshTtl)
           z == <<new>>
<1>2. UNCHANGED <<acct, links>> /\ req[r].pc = "create-session" /\ RequestTypes /\ ServerTypes
  BY DEF LoginCreate, LifeInv, SessionTypes
<1>3. AccessTtl \in Nat /\ RefreshTtl \in Nat /\ FamilyTtl \in Nat
  BY SessionsAssumption
<1>4. v \in ReqType /\ v.pc = "answer" /\ v.session = f /\ v.left = AccessTtl
      /\ req' = [req EXCEPT ![r] = v]
  BY <1>1, <1>2, <1>3 DEF RequestTypes, ReqType, Pcs
<1> HIDE DEF v
<1>5. /\ req' \in [Requests -> ReqType] /\ req'[r] = v
      /\ \A q \in Requests \ {r} : req'[q] = req[q]
  BY <1>2, <1>4, ReqAt
<1>6. rows[f] = <<>> /\ rows' = [rows EXCEPT ![f] = z] /\ life' = [life EXCEPT ![f] = FamilyTtl]
  BY <1>1 DEF CreateSession
<1>7. new \in RowType /\ new.st = "live"
  BY <1>3 DEF Row, RowType
<1> HIDE DEF new
<1>8. z \in Seq(RowType) /\ Len(z) = 1 /\ DOMAIN z = {1} /\ z[1] = new
  BY <1>7
<1> HIDE DEF z
<1>9. /\ rows' \in [Families -> Seq(RowType)] /\ rows'[f] = z
      /\ \A g \in Families \ {f} : rows'[g] = rows[g]
  BY <1>2, <1>6, <1>8 DEF ServerTypes
<1>10. life' \in [Families -> Nat]
  BY <1>2, <1>3, <1>6 DEF ServerTypes
<1> QED
  BY <1>2, <1>4, <1>5, <1>6, <1>7, <1>8, <1>9, <1>10 DEF RequestTypes

LEMMA LoginAnswerLife ==
    ASSUME LifeInv, NEW r \in Requests, LoginAnswer(r)
    PROVE  /\ TabKeeps /\ RequestTypes'
           /\ Answering(r, req[r].session) /\ req[r].session \in Families /\ req'[r].pc = "idle"
           /\ \A q \in Requests \ {r} : req'[q] = req[q]
           /\ jar' = [jar EXCEPT ![BrowserOf[req[r].tab]] = <<req[r].session, 1>>]
           /\ \A t \in Tabs : \/ tab'[t] = tab[t]
                              \/ tab'[t].access = [session |-> req[r].session, left |-> req[r].left]
<1> DEFINE t == req[r].tab
           f == req[r].session
           left == req[r].left
           a == [session |-> f, left |-> left]
           k == <<f, 1>>
           v == [tab[t] EXCEPT !.status = "authenticated", !.access = a]
<1>1. /\ UNCHANGED <<rows, sock, lock, refresh, leave, revoke, acct, links>> /\ BrowserTypes /\ RequestTypes
      /\ req[r].pc = "answer" /\ Done(r) /\ SetSession(t, f, 1, left)
  BY DEF LoginAnswer, server, LifeInv, SessionTypes
<1>2. f \in Families /\ left \in Nat /\ rows[f] # <<>>
  BY <1>1 DEF LifeInv, AllIssued, AnswerIssued, RequestTypes, ReqType
<1>3. 1 \in DOMAIN rows[f]
  BY <1>2 DEF LifeInv, SessionTypes, ServerTypes
<1>4. k \in Token /\ Issued(k) /\ a \in AccessType
  BY <1>2, <1>3 DEF Token, Issued, AccessType
<1>5. /\ jar' = [jar EXCEPT ![BrowserOf[t]] = k]
      /\ tab' = [tab EXCEPT ![t].status = "authenticated", ![t].access = a]
  BY <1>1 DEF SetSession
<1>6. /\ req' \in [Requests -> ReqType]
      /\ req'[r].pc = "idle" /\ \A q \in Requests \ {r} : req'[q] = req[q]
  BY <1>1, DoneType
<1> HIDE DEF t, k, a
<1>7. jar' \in [Browsers -> Token \cup {None}] /\ \A b \in Browsers : jar'[b] = jar[b] \/ jar'[b] = k
  BY <1>1, <1>4, <1>5 DEF BrowserTypes
<1>8. JarIssued'
  BY <1>1, <1>4, <1>7 DEF LifeInv, AllIssued, JarIssued, Issued
<1>9. /\ tab' \in [Tabs -> TabType]
      /\ \A u \in Tabs : tab'[u] = tab[u] \/ tab'[u].access = a
  <2>1. CASE t \in Tabs
    <3>1. v \in TabType /\ v.access = a
      BY <1>1, <1>4, <2>1 DEF BrowserTypes, TabType
    <3>2. tab' = [tab EXCEPT ![t] = v]
      BY <1>1, <1>5, <2>1 DEF BrowserTypes, TabType
    <3> HIDE DEF v
    <3> QED
      BY <1>1, <3>1, <3>2 DEF BrowserTypes
  <2>2. CASE t \notin Tabs
    <3>1. tab' = tab
      BY <1>1, <1>5, <2>2 DEF BrowserTypes
    <3> QED
      BY <1>1, <3>1 DEF BrowserTypes
  <2> QED
    BY <2>1, <2>2
<1>10. TabKeeps
  BY <1>1, <1>7, <1>8, <1>9, NoTabChange DEF TabKeeps, BrowserTypes, CallTypes
<1>11. RequestTypes'
  BY <1>1, <1>6 DEF RequestTypes
<1>12. Answering(r, f)
  BY <1>1 DEF Answering
<1>13. jar' = [jar EXCEPT ![BrowserOf[req[r].tab]] = <<f, 1>>]
  BY <1>5 DEF t, k
<1>14. \A u \in Tabs : \/ tab'[u] = tab[u]
                       \/ tab'[u].access = [session |-> f, left |-> left]
  BY <1>9 DEF a
<1> QED
  BY <1>2, <1>6, <1>10, <1>11, <1>12, <1>13, <1>14

-----------------------------------------------------------------------------
(* Time passes.                                                            *)

LEMMA LessType == \A n \in Nat : Less(n) \in Nat /\ Less(n) <= n
BY DEF Less

LEMMA TickLife ==
    ASSUME LifeInv, AccountTick
    PROVE  /\ Rewritten /\ \A f \in Families : \A n \in DOMAIN rows[f] : rows'[f][n].st = rows[f][n].st
           /\ ServerTypes' /\ BrowserTypes' /\ CallTypes' /\ RequestTypes'
           /\ UNCHANGED <<jar, lock, leave, revoke, sock, dropped, overlapped, revoked>>
           /\ \A f \in Families : marker'[f] = Less(marker[f])
           /\ \A t \in Tabs : /\ tab'[t].access.session = tab[t].access.session
                              /\ tab'[t].access.left = Less(tab[t].access.left)
                              /\ refresh'[t].pc = refresh[t].pc /\ refresh'[t].reply = refresh[t].reply
                              /\ refresh'[t].token = refresh[t].token
                              /\ refresh'[t].left = Less(refresh[t].left)
           /\ \A r \in Requests : /\ req'[r].pc = req[r].pc /\ req'[r].session = req[r].session
                                  /\ req'[r].left = Less(req[r].left)
<1> DEFINE row(f, n) == [rows[f][n] EXCEPT !.grace = Less(@), !.left = Less(@)]
           z == [f \in Families |-> [n \in DOMAIN rows[f] |-> row(f, n)]]
           tab2(t) == [tab[t] EXCEPT !.access.left = Less(@)]
           refresh2(t) == [refresh[t] EXCEPT !.grace = Less(@), !.left = Less(@)]
           req2(r) == [req[r] EXCEPT !.left = Less(@)]
           link2(n) == [links[n] EXCEPT !.left = Less(@)]
<1>1. /\ ServerTypes /\ BrowserTypes /\ CallTypes /\ RequestTypes
      /\ UNCHANGED <<jar, lock, leave, revoke, sock, dropped, overlapped, revoked, acct>>
  BY DEF AccountTick, Tick, history, LifeInv, SessionTypes
<1>2. /\ rows' = z /\ life' = [f \in Families |-> Less(life[f])]
      /\ marker' = [f \in Families |-> Less(marker[f])]
      /\ tab' = [t \in Tabs |-> tab2(t)] /\ refresh' = [t \in Tabs |-> refresh2(t)]
      /\ req' = [r \in Requests |-> req2(r)] /\ links' = [n \in DOMAIN links |-> link2(n)]
  BY DEF AccountTick, Tick
<1>3. ASSUME NEW f \in Families, NEW n \in DOMAIN rows[f]
      PROVE  row(f, n) \in RowType /\ row(f, n).st = rows[f][n].st
  <2>1. rows[f][n] \in RowType
    BY <1>1 DEF ServerTypes
  <2> QED
    BY <2>1, LessType DEF RowType
<1>4. ASSUME NEW t \in Tabs
      PROVE  /\ tab2(t) \in TabType /\ tab2(t).access.session = tab[t].access.session
             /\ tab2(t).access.left = Less(tab[t].access.left)
  <2>1. tab[t] \in TabType /\ tab[t].access \in AccessType
    BY <1>1 DEF BrowserTypes, TabType
  <2> DEFINE a == [tab[t].access EXCEPT !.left = Less(@)]
  <2>2. a \in AccessType /\ a.session = tab[t].access.session /\ a.left = Less(tab[t].access.left)
    BY <2>1, LessType DEF AccessType
  <2>3. tab2(t) = [tab[t] EXCEPT !.access = a]
    OBVIOUS
  <2> HIDE DEF a, tab2
  <2> QED
    BY <2>1, <2>2, <2>3 DEF TabType
<1>5. ASSUME NEW t \in Tabs
      PROVE  /\ refresh2(t) \in RefreshType /\ refresh2(t).pc = refresh[t].pc
             /\ refresh2(t).reply = refresh[t].reply /\ refresh2(t).token = refresh[t].token
             /\ refresh2(t).left = Less(refresh[t].left)
  <2>1. refresh[t] \in RefreshType
    BY <1>1 DEF CallTypes
  <2> QED
    BY <2>1, LessType DEF RefreshType
<1>6. ASSUME NEW r \in Requests
      PROVE  /\ req2(r) \in ReqType /\ req2(r).pc = req[r].pc /\ req2(r).session = req[r].session
             /\ req2(r).left = Less(req[r].left)
  <2>1. req[r] \in ReqType
    BY <1>1 DEF RequestTypes
  <2> QED
    BY <2>1, LessType DEF ReqType
<1>7. ASSUME NEW n \in DOMAIN links PROVE link2(n) \in LinkType
  <2>1. links[n] \in LinkType
    BY <1>1 DEF RequestTypes
  <2> QED
    BY <2>1, LessType DEF LinkType
<1> HIDE DEF row, tab2, refresh2, req2, link2
<1>8. \A f \in Families : z[f] \in [DOMAIN rows[f] -> RowType] /\ DOMAIN rows[f] \in SUBSET Nat
  BY <1>1, <1>3 DEF ServerTypes
<1>9. z \in [Families -> UNION {[D -> RowType] : D \in SUBSET Nat}]
  BY <1>8
<1>10. \A f \in Families : \A n \in DOMAIN rows[f] : z[f][n].st = rows[f][n].st
  BY <1>3
<1> HIDE DEF z
<1>11. Rewritten
  BY <1>1, <1>2, <1>8, <1>9, <1>10, RewrittenAll
<1>12. ServerTypes'
  <2>1. life' \in [Families -> Nat] /\ marker' \in [Families -> Nat]
    BY <1>1, <1>2, LessType DEF ServerTypes
  <2> QED
    BY <1>11, <2>1 DEF ServerTypes, Rewritten
<1>13. BrowserTypes'
  BY <1>1, <1>2, <1>4 DEF BrowserTypes
<1>14. CallTypes'
  BY <1>1, <1>2, <1>5 DEF CallTypes
<1>15. RequestTypes'
  <2>1. req' \in [Requests -> ReqType]
    BY <1>2, <1>6
  <2>2. links' \in Seq(LinkType)
    <3>1. Len(links) \in Nat /\ DOMAIN links = 1 .. Len(links)
      BY <1>1 DEF RequestTypes
    <3>2. links' \in [1 .. Len(links) -> LinkType]
      BY <1>2, <1>7, <3>1
    <3> QED
      BY <3>1, <3>2
  <2> QED
    BY <1>1, <2>1, <2>2 DEF RequestTypes
<1>16. \A f \in Families : marker'[f] = Less(marker[f])
  BY <1>2
<1>17. \A t \in Tabs : /\ tab'[t].access.session = tab[t].access.session
                       /\ tab'[t].access.left = Less(tab[t].access.left)
  BY <1>2, <1>4
<1>18. \A t \in Tabs : /\ refresh'[t].pc = refresh[t].pc /\ refresh'[t].reply = refresh[t].reply
                       /\ refresh'[t].token = refresh[t].token
                       /\ refresh'[t].left = Less(refresh[t].left)
  BY <1>2, <1>5
<1>19. \A r \in Requests : /\ req'[r].pc = req[r].pc /\ req'[r].session = req[r].session
                           /\ req'[r].left = Less(req[r].left)
  BY <1>2, <1>6
<1> QED
  BY <1>1, <1>2, <1>10, <1>11, <1>12, <1>13, <1>14, <1>15, <1>16, <1>17, <1>18, <1>19

-----------------------------------------------------------------------------
(* LifeInv is inductive.                                                   *)

LEMMA LifeInit == AccountsInit => LifeInv
<1> SUFFICES ASSUME AccountsInit PROVE LifeInv
  OBVIOUS
<1>1. /\ rows = [f \in Families |-> <<>>] /\ life = [f \in Families |-> 0]
      /\ marker = [f \in Families |-> 0] /\ jar = [b \in Browsers |-> None]
      /\ tab = [t \in Tabs |-> SignedOut] /\ refresh = [t \in Tabs |-> NoRefresh]
      /\ lock = [b \in Browsers |-> <<>>] /\ leave = [t \in Tabs |-> NoLeave]
      /\ revoke = [c \in Calls |-> NoRevoke] /\ sock = [t \in Tabs |-> NoSocket]
      /\ links = <<>> /\ req = [r \in Requests |-> NoRequest]
  BY DEF AccountsInit, Init
<1>2. acct \in UserType
  <2>1. \/ acct = NoUser
        \/ \E outdated \in BOOLEAN :
              acct = [NoUser EXCEPT !.exists = TRUE, !.password = 1, !.outdated = outdated,
                                    !.verified = TRUE]
    BY DEF AccountsInit
  <2>2. ASSUME NEW outdated \in BOOLEAN
        PROVE  [NoUser EXCEPT !.exists = TRUE, !.password = 1, !.outdated = outdated,
                              !.verified = TRUE] \in UserType
    BY InitialRequests DEF UserType
  <2> QED
    BY <2>1, <2>2, InitialRequests
<1>3. SessionTypes
  <2>1. ServerTypes
    BY <1>1 DEF ServerTypes
  <2>2. BrowserTypes
    BY <1>1, Initials DEF BrowserTypes
  <2>3. CallTypes
    BY <1>1, Initials DEF CallTypes
  <2>4. RequestTypes
    BY <1>1, <1>2, InitialRequests DEF RequestTypes
  <2> QED
    BY <2>1, <2>2, <2>3, <2>4 DEF SessionTypes
<1>4. InOrder
  BY <1>1 DEF InOrder
<1>5. AllIssued
  <2>1. \A t \in Tabs : TokenIssued(t)
    BY <1>1 DEF TokenIssued, Issued, Exchanged, NoRefresh
  <2> QED
    BY <1>1, <2>1 DEF AllIssued, JarIssued, LeaveIssued, RefreshIssued, AnswerIssued,
                      Issued, NoLeave, NoRequest
<1>6. Locked
  BY <1>1 DEF Locked, NoRefresh
<1> QED
  BY <1>3, <1>4, <1>5, <1>6 DEF LifeInv

\* The table stays as it is.
LEMMA TableKept ==
    ASSUME LifeInv, UNCHANGED rows, life' \in [Families -> Nat], marker' \in [Families -> Nat],
           TabKeeps, RequestTypes',
           \A r \in Requests : req'[r].pc = "answer" => req'[r] = req[r]
    PROVE  LifeInv'
<1>1. ServerTypes'
  BY DEF LifeInv, SessionTypes, ServerTypes
<1>2. InOrder'
  BY DEF LifeInv, InOrder
<1>3. AnswerIssued'
  BY DEF LifeInv, AllIssued, AnswerIssued
<1> QED
  BY <1>1, <1>2, <1>3 DEF TabKeeps, LifeInv, SessionTypes, AllIssued

\* Only what a tab, or a revocation of its, does changes.
TabActs(t) ==
    \/ RefreshStart(t) \/ RefreshSend(t) \/ RotateRead(t) \/ ReuseRevoked(t) \/ RefreshDeliver(t)
    \/ RefreshLost(t) \/ LeaveRead(t) \/ LeaveAgain(t) \/ LeaveRevoked(t) \/ LeaveDone(t)
    \/ HearSignedOut(t) \/ SocketCheck(t) \/ SocketJoin(t) \/ SocketKicked(t) \/ Reload(t)
    \/ Logout(t)
RevokeActs(c) == RevokeFind(c) \/ RevokeScan(c) \/ RevokeTell(c)

LEMMA TabActsKeep ==
    ASSUME LifeInv, NEW t \in Tabs, TabActs(t)
    PROVE  TabKeeps /\ UNCHANGED server
<1>1. UNCHANGED server
  BY DEF TabActs, RefreshStart, RefreshSend, RotateRead, ReuseRevoked, RefreshDeliver, RefreshLost,
         LeaveRead, LeaveAgain, LeaveRevoked, LeaveDone, HearSignedOut, SocketCheck, SocketJoin,
         SocketKicked, Reload, Logout
<1>2. TabKeeps
  BY RefreshStartLife, RefreshSendLife, RotateReadLife, ReuseRevokedLife, RefreshDeliverLife,
     RefreshLostLife, LeaveReadLife, LeaveAgainLife, LeaveRevokedLife, LeaveDoneLife,
     HearSignedOutLife, SocketCheckLife, SocketJoinLife, SocketKickedLife, ReloadLife, LogoutLife
     DEF TabActs
<1> QED
  BY <1>1, <1>2

LEMMA RevokeActsKeep ==
    ASSUME LifeInv, NEW c \in Calls, RevokeActs(c)
    PROVE  TabKeeps /\ UNCHANGED server
<1>1. UNCHANGED server
  BY DEF RevokeActs, RevokeFind, RevokeScan, RevokeTell
<1>2. TabKeeps
  BY RevokeFindLife, RevokeScanLife, RevokeTellLife DEF RevokeActs
<1> QED
  BY <1>1, <1>2

\* What there is to do besides: one case for every step that writes rows, the
\* marker or the sign-in's side of a session.
LEMMA NextCases ==
    ASSUME AccountsNext
    PROVE  \/ \E t \in Tabs : TabActs(t) /\ UNCHANGED account
           \/ \E t \in Tabs : Rotate(t) /\ UNCHANGED account
           \/ \E c \in Calls : RevokeActs(c) /\ UNCHANGED account
           \/ \E c \in Calls : RevokeWrite(c) /\ UNCHANGED account
           \/ \E c \in Calls : RevokeMark(c) /\ UNCHANGED account
           \/ DeleteExpired /\ UNCHANGED account
           \/ AccountTick
           \/ \E r \in Requests :
                 \/ SubmitRegister(r) \/ SubmitResend(r) \/ SubmitForgot(r) \/ FollowLink(r)
                    \/ LoginArrive(r)
                 \/ Register(r) \/ ResendVerification(r) \/ RequestPasswordReset(r) \/ FindLink(r)
                    \/ LoginPeek(r) \/ LoginCount(r) \/ LoginClear(r)
                 \/ IssueScan(r) \/ IssueCommit(r)
                 \/ RegisterCreate(r) \/ LoginCheck(r) \/ LoginRehash(r)
                 \/ ClaimVerify(r) \/ ClaimReset(r)
           \/ \E r \in Requests : ResetRevoke(r)
           \/ \E r \in Requests : ResetDone(r)
           \/ \E r \in Requests : LoginCreate(r)
           \/ \E r \in Requests : LoginAnswer(r)
BY DEF AccountsNext, SessionStep, TabStep, RevokeStep, RequestStep, TabActs, RevokeActs

LEMMA RequestElsewhere ==
    ASSUME LifeInv, NEW r \in Requests,
           \/ SubmitRegister(r) \/ SubmitResend(r) \/ SubmitForgot(r) \/ FollowLink(r)
              \/ LoginArrive(r)
           \/ Register(r) \/ ResendVerification(r) \/ RequestPasswordReset(r) \/ FindLink(r)
              \/ LoginPeek(r) \/ LoginCount(r) \/ LoginClear(r)
           \/ IssueScan(r) \/ IssueCommit(r)
           \/ RegisterCreate(r) \/ LoginCheck(r) \/ LoginRehash(r)
           \/ ClaimVerify(r) \/ ClaimReset(r)
    PROVE  Elsewhere(r)
<1>1. RequestTypes
  BY DEF LifeInv, SessionTypes
<1> QED
  BY <1>1, SubmitElsewhere, LookElsewhere, IssueElsewhere, UserElsewhere, ClaimElsewhere

LEMMA ElsewhereKeeps ==
    ASSUME LifeInv, NEW r \in Requests, Elsewhere(r)
    PROVE  TabKeeps /\ \A q \in Requests : req'[q].pc = "answer" => req'[q] = req[q]
<1>1. UNCHANGED <<rows, jar, tab, sock, lock, refresh, leave, revoke>>
  BY DEF Elsewhere, server, browser
<1>2. TabKeeps
  BY <1>1, NoTabChange DEF TabKeeps, BrowserTypes, CallTypes
<1>3. req'[r].pc # "answer" /\ \A q \in Requests \ {r} : req'[q] = req[q]
  BY DEF Elsewhere, Busy
<1> QED
  BY <1>2, <1>3

LEMMA RewrittenLife ==
    ASSUME LifeInv, Rewritten, UNCHANGED <<jar, lock, tab, sock, leave, refresh, account>>,
           CallTypes', life' \in [Families -> Nat], marker' \in [Families -> Nat]
    PROVE  LifeInv'
<1>1. InOrder' /\ AllIssued'
  BY RewrittenInOrder DEF account, AllIssued
<1>2. ServerTypes' /\ BrowserTypes' /\ RequestTypes'
  BY DEF LifeInv, SessionTypes, ServerTypes, BrowserTypes, RequestTypes, Rewritten, account
<1>3. Locked'
  BY DEF LifeInv, Locked
<1> QED
  BY <1>1, <1>2, <1>3 DEF LifeInv, SessionTypes

LEMMA RotateKeeps ==
    ASSUME LifeInv, NEW t \in Tabs, Rotate(t), UNCHANGED account
    PROVE  LifeInv'
<1> DEFINE f == refresh[t].token[1]
           n == refresh[t].token[2]
<1>1. /\ UNCHANGED <<life, marker, jar, tab, sock, lock, leave, revoke>>
      /\ CallTypes' /\ RefreshIssued' /\ Locked' /\ rows' \in [Families -> Seq(RowType)]
      /\ f \in Families /\ n \in DOMAIN rows[f]
  BY RotateLife DEF Rotate, browser
<1>2. \/ UNCHANGED rows
      \/ /\ n = Len(rows[f]) /\ Len(rows'[f]) = n + 1 /\ DOMAIN rows'[f] = 1 .. n + 1
         /\ rows'[f][n].st = "ROTATED" /\ rows'[f][n + 1].st = "live"
         /\ \A m \in 1 .. n - 1 : rows'[f][m] = rows[f][m]
         /\ \A g \in Families \ {f} : rows'[g] = rows[g]
  BY RotateLife
<1> HIDE DEF f, n
<1>3. ServerTypes' /\ BrowserTypes' /\ RequestTypes'
  BY <1>1 DEF LifeInv, SessionTypes, ServerTypes, BrowserTypes, RequestTypes, account
<1>4. CASE UNCHANGED rows
  <2>1. InOrder' /\ JarIssued' /\ LeaveIssued' /\ AnswerIssued'
    BY <1>1, <1>4, NoTabChange DEF LifeInv, InOrder, AllIssued, AnswerIssued, account
  <2> QED
    BY <1>1, <1>3, <2>1 DEF LifeInv, SessionTypes, AllIssued
<1>5. CASE /\ n = Len(rows[f]) /\ Len(rows'[f]) = n + 1 /\ DOMAIN rows'[f] = 1 .. n + 1
           /\ rows'[f][n].st = "ROTATED" /\ rows'[f][n + 1].st = "live"
           /\ \A m \in 1 .. n - 1 : rows'[f][m] = rows[f][m]
           /\ \A g \in Families \ {f} : rows'[g] = rows[g]
  <2>1. n \in Nat \ {0} /\ DOMAIN rows[f] = 1 .. n
    BY <1>1, <1>5 DEF LifeInv, SessionTypes, ServerTypes
  <2>2. InOrder'
    <3>1. SUFFICES ASSUME NEW g \in Families, NEW m \in DOMAIN rows'[g]
                   PROVE  /\ m < Len(rows'[g]) => rows'[g][m].st # "live"
                          /\ m = Len(rows'[g]) => rows'[g][m].st # "ROTATED"
      BY DEF InOrder
    <3>2. CASE g # f
      BY <1>5, <3>1, <3>2 DEF LifeInv, InOrder
    <3>3. CASE g = f /\ m = n + 1
      BY <1>5, <2>1, <3>3
    <3>4. CASE g = f /\ m = n
      BY <1>5, <2>1, <3>4
    <3>5. CASE g = f /\ m \in 1 .. n - 1
      <4>1. m \in DOMAIN rows[f] /\ m < Len(rows[f]) /\ m < n + 1 /\ m # n + 1
        BY <1>5, <2>1, <3>5
      <4> QED
        BY <1>5, <3>5, <4>1 DEF LifeInv, InOrder
    <3> QED
      BY <1>5, <2>1, <3>2, <3>3, <3>4, <3>5
  <2>3. \A g \in Families : \A m \in DOMAIN rows[g] : m \in DOMAIN rows'[g]
    BY <1>5, <2>1
  <2>4. \A k \in Token \cup {None} : Issued(k) => k = None \/ k[2] \in DOMAIN rows'[k[1]]
    BY <2>3 DEF Issued, Token
  <2>5. JarIssued' /\ LeaveIssued'
    BY <1>1, <2>4 DEF LifeInv, SessionTypes, BrowserTypes, CallTypes, LeaveType, AllIssued,
                      JarIssued, LeaveIssued, Issued
  <2>6. AnswerIssued'
    <3>1. \A g \in Families : rows[g] # <<>> => rows'[g] # <<>>
      BY <1>1, <1>5
    <3> QED
      BY <3>1 DEF LifeInv, AllIssued, AnswerIssued, account
  <2> QED
    BY <1>1, <1>3, <2>2, <2>5, <2>6 DEF LifeInv, SessionTypes, AllIssued
<1> QED
  BY <1>2, <1>4, <1>5

LEMMA LoginCreateKeeps ==
    ASSUME LifeInv, NEW r \in Requests, LoginCreate(r)
    PROVE  LifeInv'
<1>1. PICK f \in Families :
           /\ rows[f] = <<>> /\ req'[r].session = f
           /\ rows' \in [Families -> Seq(RowType)] /\ life' \in [Families -> Nat]
           /\ Len(rows'[f]) = 1 /\ DOMAIN rows'[f] = {1} /\ rows'[f][1].st = "live"
           /\ \A g \in Families \ {f} : rows'[g] = rows[g]
  BY LoginCreateLife
<1>2. /\ UNCHANGED <<marker, jar, tab, sock, lock, leave, refresh, revoke>>
      /\ RequestTypes' /\ \A q \in Requests \ {r} : req'[q] = req[q]
  BY LoginCreateLife DEF LoginCreate, CreateSession, browser
<1>3. ServerTypes' /\ BrowserTypes' /\ CallTypes'
  BY <1>1, <1>2 DEF LifeInv, SessionTypes, ServerTypes, BrowserTypes, CallTypes
<1>4. InOrder'
  <2> SUFFICES ASSUME NEW g \in Families, NEW m \in DOMAIN rows'[g]
               PROVE  /\ m < Len(rows'[g]) => rows'[g][m].st # "live"
                      /\ m = Len(rows'[g]) => rows'[g][m].st # "ROTATED"
    BY DEF InOrder
  <2>1. CASE g = f
    <3>1. m = 1 /\ Len(rows'[g]) = 1
      BY <1>1, <2>1
    <3>2. rows'[g][m].st = "live"
      BY <1>1, <2>1, <3>1
    <3> QED
      BY <3>1, <3>2
  <2>2. CASE g # f
    BY <1>1, <2>2 DEF LifeInv, InOrder
  <2> QED
    BY <2>1, <2>2
<1>5. \A g \in Families : \A m \in DOMAIN rows[g] : g # f
  BY <1>1
<1>6. \A k \in Token \cup {None} : Issued(k) => k = None \/ (k[1] # f /\ k[1] \in Families)
  BY <1>5 DEF Issued, Token
<1>7. JarIssued' /\ LeaveIssued'
  <2>1. \A k \in Token \cup {None} : Issued(k) => k = None \/ k[2] \in DOMAIN rows'[k[1]]
    BY <1>1, <1>6 DEF Issued
  <2> QED
    BY <1>2, <2>1 DEF LifeInv, SessionTypes, BrowserTypes, CallTypes, LeaveType, AllIssued,
                         JarIssued, LeaveIssued, Issued
<1>8. RefreshIssued'
  <2> SUFFICES ASSUME NEW t \in Tabs PROVE TokenIssued(t)'
    BY DEF RefreshIssued
  <2>1. TokenIssued(t) /\ refresh[t].token \in Token \cup {None} /\ refresh'[t] = refresh[t]
    BY <1>2 DEF LifeInv, SessionTypes, CallTypes, RefreshType, AllIssued, RefreshIssued
  <2>2. refresh[t].token = None \/ rows'[refresh[t].token[1]] = rows[refresh[t].token[1]]
    BY <1>1, <1>6, <2>1 DEF TokenIssued
  <2> QED
    BY <2>1, <2>2 DEF TokenIssued, Issued, Exchanged
<1>9. AnswerIssued'
  <2>1. \A g \in Families : rows[g] # <<>> => rows'[g] # <<>>
    BY <1>1
  <2>2. rows'[f] # <<>>
    <3>1. Len(<<>>) = 0 /\ Len(rows'[f]) = 1
      BY <1>1
    <3> QED
      BY <3>1
  <2> SUFFICES ASSUME NEW q \in Requests, req'[q].pc = "answer"
               PROVE  req'[q].session \in Families /\ rows'[req'[q].session] # <<>>
    BY DEF AnswerIssued
  <2>3. CASE q = r
    BY <1>1, <2>2, <2>3
  <2>4. CASE q # r
    BY <1>2, <2>1, <2>4 DEF LifeInv, AllIssued, AnswerIssued
  <2> QED
    BY <2>3, <2>4
<1>10. Locked'
  BY <1>2 DEF LifeInv, Locked
<1> QED
  BY <1>2, <1>3, <1>4, <1>7, <1>8, <1>9, <1>10 DEF LifeInv, SessionTypes, AllIssued

LEMMA TickKeeps ==
    ASSUME LifeInv, AccountTick
    PROVE  LifeInv'
<1>1. /\ Rewritten /\ ServerTypes' /\ BrowserTypes' /\ CallTypes' /\ RequestTypes'
      /\ UNCHANGED <<jar, lock, leave>>
      /\ \A t \in Tabs : /\ refresh'[t].pc = refresh[t].pc /\ refresh'[t].reply = refresh[t].reply
                         /\ refresh'[t].token = refresh[t].token
      /\ \A r \in Requests : req'[r].pc = req[r].pc /\ req'[r].session = req[r].session
  BY TickLife
<1>2. InOrder' /\ JarIssued' /\ LeaveIssued'
  BY <1>1, RewrittenInOrder
<1>3. RefreshIssued'
  <2> SUFFICES ASSUME NEW t \in Tabs PROVE TokenIssued(t)'
    BY DEF RefreshIssued
  <2> DEFINE k == refresh[t].token
  <2>1. TokenIssued(t) /\ k \in Token \cup {None}
    BY DEF LifeInv, SessionTypes, CallTypes, RefreshType, AllIssued, RefreshIssued
  <2>2. refresh'[t].token = k /\ refresh'[t].pc = refresh[t].pc /\ refresh'[t].reply = refresh[t].reply
    BY <1>1
  <2>3. k = None \/ (DOMAIN rows'[k[1]] = DOMAIN rows[k[1]] /\ Len(rows'[k[1]]) = Len(rows[k[1]]))
    BY <1>1, <2>1 DEF Rewritten, Token
  <2> QED
    BY <2>1, <2>2, <2>3 DEF TokenIssued, Issued, Exchanged
<1>4. AnswerIssued'
  <2>1. \A f \in Families : rows[f] # <<>> => rows'[f] # <<>>
    BY <1>1 DEF LifeInv, SessionTypes, ServerTypes, Rewritten
  <2> QED
    BY <1>1, <2>1 DEF LifeInv, AllIssued, AnswerIssued
<1>5. Locked'
  BY <1>1 DEF LifeInv, Locked
<1> QED
  BY <1>1, <1>2, <1>3, <1>4, <1>5 DEF LifeInv, SessionTypes, AllIssued

LEMMA LifeStep == LifeInv /\ AccountsNext => LifeInv'
<1> SUFFICES ASSUME LifeInv, AccountsNext PROVE LifeInv'
  OBVIOUS
<1>1. life \in [Families -> Nat] /\ marker \in [Families -> Nat] /\ RequestTypes /\ CallTypes
  BY DEF LifeInv, SessionTypes, ServerTypes
<1>2. UNCHANGED account => RequestTypes' /\ \A r \in Requests : req'[r] = req[r]
  BY <1>1 DEF account, RequestTypes
<1>3. ASSUME NEW t \in Tabs, TabActs(t), UNCHANGED account PROVE LifeInv'
  BY <1>1, <1>2, <1>3, TabActsKeep, TableKept DEF server
<1>4. ASSUME NEW t \in Tabs, Rotate(t), UNCHANGED account PROVE LifeInv'
  BY <1>4, RotateKeeps
<1>5. ASSUME NEW c \in Calls, RevokeActs(c), UNCHANGED account PROVE LifeInv'
  BY <1>1, <1>2, <1>5, RevokeActsKeep, TableKept DEF server
<1>6. ASSUME NEW c \in Calls, RevokeWrite(c), UNCHANGED account PROVE LifeInv'
  <2>1. UNCHANGED <<jar, lock, tab, sock, leave, refresh, life, marker>>
    BY <1>6 DEF RevokeWrite, browser
  <2> QED
    BY <1>1, <1>6, <2>1, RevokeWriteLife, RewrittenLife
<1>7. ASSUME NEW c \in Calls, RevokeMark(c), UNCHANGED account PROVE LifeInv'
  <2>1. UNCHANGED <<rows, life>>
    BY <1>7 DEF RevokeMark
  <2> QED
    BY <1>1, <1>2, <1>7, <2>1, RevokeMarkLife, TableKept
<1>8. ASSUME DeleteExpired, UNCHANGED account PROVE LifeInv'
  <2>1. UNCHANGED <<jar, lock, tab, sock, leave, refresh, revoke, life, marker>>
    BY <1>8 DEF DeleteExpired, browser
  <2>2. CallTypes'
    BY <1>1, <2>1 DEF CallTypes
  <2> QED
    BY <1>1, <1>8, <2>1, <2>2, DeleteExpiredLife, RewrittenLife
<1>9. ASSUME AccountTick PROVE LifeInv'
  BY <1>9, TickKeeps
<1>10. ASSUME NEW r \in Requests, Elsewhere(r) PROVE LifeInv'
  <2>1. UNCHANGED <<rows, life, marker>> /\ RequestTypes'
    BY <1>10 DEF Elsewhere, server
  <2> QED
    BY <1>1, <1>10, <2>1, ElsewhereKeeps, TableKept
<1>11. ASSUME NEW r \in Requests, ResetRevoke(r) PROVE LifeInv'
  <2>1. UNCHANGED <<rows, life, marker>>
    BY <1>11 DEF ResetRevoke, server
  <2>2. TabKeeps /\ RequestTypes' /\ \A q \in Requests : req'[q].pc = "answer" => req'[q] = req[q]
    BY <1>11, ResetRevokeLife
  <2> QED
    BY <1>1, <2>1, <2>2, TableKept
<1>12. ASSUME NEW r \in Requests, ResetDone(r) PROVE LifeInv'
  <2>1. UNCHANGED <<rows, life, marker>>
    BY <1>12 DEF ResetDone, server
  <2>2. TabKeeps /\ RequestTypes' /\ \A q \in Requests : req'[q].pc = "answer" => req'[q] = req[q]
    BY <1>12, ResetDoneLife
  <2> QED
    BY <1>1, <2>1, <2>2, TableKept
<1>13. ASSUME NEW r \in Requests, LoginCreate(r) PROVE LifeInv'
  BY <1>13, LoginCreateKeeps
<1>14. ASSUME NEW r \in Requests, LoginAnswer(r) PROVE LifeInv'
  <2>1. UNCHANGED <<rows, life, marker>>
    BY <1>14 DEF LoginAnswer, server
  <2>2. TabKeeps /\ RequestTypes' /\ \A q \in Requests : req'[q].pc = "answer" => req'[q] = req[q]
    BY <1>14, LoginAnswerLife
  <2> QED
    BY <1>1, <2>1, <2>2, TableKept
<1> QED
  BY <1>3, <1>4, <1>5, <1>6, <1>7, <1>8, <1>9, <1>10, <1>11, <1>12, <1>13, <1>14,
     NextCases, RequestElsewhere

LEMMA LifeStutter == LifeInv /\ UNCHANGED allVars => LifeInv'
BY DEF LifeInv, SessionTypes, ServerTypes, BrowserTypes, CallTypes, RequestTypes, InOrder, AllIssued,
       JarIssued, LeaveIssued, RefreshIssued, TokenIssued, AnswerIssued, Issued, Exchanged, Locked,
       allVars, vars, account, server, browser, history

\* Types, the order of the tokens of a session, and the queue of the lock are
\* kept, whoever does what when.
THEOREM SessionsTyped == AccountsSpec => []LifeInv
BY LifeInit, LifeStep, LifeStutter, PTL DEF AccountsSpec

-----------------------------------------------------------------------------
(* A session lives as SessionLife says.                                    *)

\* Of the rows rewritten, some sessions end.
LEMMA SomeEnd ==
    ASSUME LifeInv, Rewritten, NEW f \in Families
    PROVE  Current(f)' = Current(f) \/ (Current(f) >= 1 /\ Current(f)' = -1)
<1>1. Len(rows'[f]) = Len(rows[f]) /\ (rows[f] = <<>> <=> rows'[f] = <<>>) /\ Len(rows[f]) \in Nat
  BY DEF LifeInv, SessionTypes, ServerTypes, Rewritten
<1>2. CASE rows[f] = <<>>
  BY <1>1, <1>2 DEF Current
<1>3. CASE rows[f] # <<>>
  <2> DEFINE n == Len(rows[f])
  <2>1. n >= 1 /\ n \in DOMAIN rows[f]
    BY <1>3 DEF LifeInv, SessionTypes, ServerTypes
  <2>2. rows'[f][n].st = "live" => rows[f][n].st = "live"
    BY <2>1 DEF Rewritten, Reasons
  <2>3. Current(f) = IF rows[f][n].st = "live" THEN n ELSE -1
    BY <1>3 DEF Current
  <2>4. Current(f)' = IF rows'[f][n].st = "live" THEN n ELSE -1
    BY <1>1, <1>3 DEF Current
  <2> QED
    BY <2>1, <2>2, <2>3, <2>4
<1> QED
  BY <1>2, <1>3

LEMMA RewrittenRefines ==
    ASSUME LifeInv, Rewritten
    PROVE  Life!Next \/ UNCHANGED [f \in Families |-> Current(f)]
<1> DEFINE S == {f \in Families : Current(f)' # Current(f)}
<1>1. \A f \in S : Current(f) >= 1 /\ Current(f)' = -1
  BY SomeEnd
<1>2. CASE S = {}
  BY <1>2
<1>3. CASE S # {}
  <2>1. \A f \in Families : Current(f)' = IF f \in S THEN -1 ELSE Current(f)
    BY <1>1
  <2>2. Life!Close(S)
    BY <1>1, <1>3, <2>1 DEF Life!Close, Life!Shut
  <2> QED
    BY <2>2 DEF Life!Next
<1> QED
  BY <1>2, <1>3

LEMMA RotateRefines ==
    ASSUME LifeInv, NEW t \in Tabs, Rotate(t)
    PROVE  Life!Next \/ UNCHANGED [f \in Families |-> Current(f)]
<1>1. PICK f \in Families, n \in Nat :
          /\ f = refresh[t].token[1] /\ n = refresh[t].token[2] /\ n \in DOMAIN rows[f]
          /\ rows[f] \in Seq(RowType)
  <2> DEFINE f0 == refresh[t].token[1]
             n0 == refresh[t].token[2]
  <2>1. f0 \in Families /\ n0 \in DOMAIN rows[f0]
    BY RotateLife
  <2> HIDE DEF f0, n0
  <2>2. rows[f0] \in Seq(RowType) /\ n0 \in Nat
    BY <2>1 DEF LifeInv, SessionTypes, ServerTypes
  <2> QED
    BY <2>1, <2>2 DEF f0, n0
<1>2. \/ UNCHANGED rows
      \/ /\ Live(f, n) /\ n = Len(rows[f]) /\ Len(rows'[f]) = n + 1 /\ DOMAIN rows'[f] = 1 .. n + 1
         /\ rows'[f][n + 1].st = "live"
         /\ \A g \in Families \ {f} : rows'[g] = rows[g]
  <2> DEFINE f0 == refresh[t].token[1]
             n0 == refresh[t].token[2]
  <2>1. \/ UNCHANGED rows
        \/ /\ Live(f0, n0) /\ n0 = Len(rows[f0]) /\ Len(rows'[f0]) = n0 + 1
           /\ DOMAIN rows'[f0] = 1 .. n0 + 1 /\ rows'[f0][n0 + 1].st = "live"
           /\ \A g \in Families \ {f0} : rows'[g] = rows[g]
    BY RotateLife
  <2>2. f0 = f /\ n0 = n
    BY <1>1
  <2> HIDE DEF f0, n0
  <2> QED
    BY <2>1, <2>2
<1>3. CASE UNCHANGED rows
  BY <1>3 DEF Current
<1>4. CASE /\ Live(f, n) /\ n = Len(rows[f]) /\ Len(rows'[f]) = n + 1 /\ DOMAIN rows'[f] = 1 .. n + 1
           /\ rows'[f][n + 1].st = "live"
           /\ \A g \in Families \ {f} : rows'[g] = rows[g]
  <2>1. n \in Nat /\ n >= 1 /\ rows[f] # <<>> /\ rows'[f] # <<>>
    BY <1>1, <1>4
  <2>2. Current(f) = n /\ Current(f)' = n + 1
    BY <1>4, <2>1 DEF Current, Live
  <2>3. \A g \in Families \ {f} : Current(g)' = Current(g)
    BY <1>4 DEF Current
  <2>4. [g \in Families |-> Current(g)]' =
           [[g \in Families |-> Current(g)] EXCEPT ![f] = @ + 1]
    BY <1>1, <2>2, <2>3
  <2>5. Life!Rotate(f)
    BY <1>1, <2>1, <2>2, <2>4 DEF Life!Rotate
  <2> QED
    BY <1>1, <2>5 DEF Life!Next
<1> QED
  BY <1>2, <1>3, <1>4

LEMMA LoginCreateRefines ==
    ASSUME LifeInv, NEW r \in Requests, LoginCreate(r)
    PROVE  Life!Next
<1>1. PICK f \in Families :
           /\ rows[f] = <<>> /\ Len(rows'[f]) = 1 /\ rows'[f][1].st = "live"
           /\ \A g \in Families \ {f} : rows'[g] = rows[g]
  BY LoginCreateLife
<1>2. rows'[f] # <<>>
  <2>1. Len(<<>>) = 0
    OBVIOUS
  <2> QED
    BY <1>1, <2>1
<1>3. Current(f) = 0 /\ Current(f)' = 1
  BY <1>1, <1>2 DEF Current
<1>4. \A g \in Families \ {f} : Current(g)' = Current(g)
  BY <1>1 DEF Current
<1>5. [g \in Families |-> Current(g)]' = [[g \in Families |-> Current(g)] EXCEPT ![f] = 1]
  BY <1>3, <1>4
<1>6. Life!Open(f)
  BY <1>3, <1>5 DEF Life!Open, Life!Unopened
<1> QED
  BY <1>6 DEF Life!Next

\* Every step is a step of SessionLife or none.
LEMMA LifeRefines == LifeInv /\ AccountsNext => Life!Next \/ UNCHANGED [f \in Families |-> Current(f)]
<1> SUFFICES ASSUME LifeInv, AccountsNext
             PROVE  Life!Next \/ UNCHANGED [f \in Families |-> Current(f)]
  OBVIOUS
<1>1. ASSUME UNCHANGED rows PROVE UNCHANGED [f \in Families |-> Current(f)]
  BY <1>1 DEF Current
<1>2. (\E t \in Tabs : TabActs(t)) => UNCHANGED rows
  BY TabActsKeep DEF server
<1>3. (\E c \in Calls : RevokeActs(c)) => UNCHANGED rows
  BY RevokeActsKeep DEF server
<1>4. (\E c \in Calls : RevokeMark(c)) => UNCHANGED rows
  BY DEF RevokeMark
<1>5. (\E r \in Requests : Elsewhere(r)) => UNCHANGED rows
  BY DEF Elsewhere, server
<1>6. (\E r \in Requests : ResetRevoke(r) \/ ResetDone(r) \/ LoginAnswer(r)) => UNCHANGED rows
  BY DEF ResetRevoke, ResetDone, LoginAnswer, server
<1>7. (\E c \in Calls : RevokeWrite(c)) \/ DeleteExpired \/ AccountTick => Rewritten
  BY RevokeWriteLife, DeleteExpiredLife, TickLife
<1> QED
  BY <1>1, <1>2, <1>3, <1>4, <1>5, <1>6, <1>7, RewrittenRefines, RotateRefines, LoginCreateRefines,
     NextCases, RequestElsewhere

\* Tokens of a session are good one at a time, in order, and an ended session
\* does not come back: the store implements SessionLife.
THEOREM SessionsLive == AccountsSpec => LifeSpec
<1>1. AccountsInit => Life!Init
  BY DEF AccountsInit, Init, Life!Init, Life!Unopened, Current
<1>2. LifeInv /\ [AccountsNext]_allVars => [Life!Next]_([f \in Families |-> Current(f)])
  <2>1. UNCHANGED allVars => UNCHANGED [f \in Families |-> Current(f)]
    BY DEF allVars, vars, server, Current
  <2> QED
    BY <2>1, LifeRefines
<1> QED
  BY <1>1, <1>2, SessionsTyped, PTL DEF AccountsSpec, LifeSpec, Life!Spec

-----------------------------------------------------------------------------
(* Reuse of a token is found only when an answer was lost.                 *)

\* The browser has a token of the session, or sent one.
Carries(t, f) == refresh[t].token # None /\ refresh[t].token[1] = f
Holds(b, f) ==
    \/ jar[b] # None /\ jar[b][1] = f
    \/ \E t \in Tabs : BrowserOf[t] = b /\ Carries(t, f)

\* What a browser holds of a session of which no answer was lost is its last
\* token, save for the moment when the next is on its way.
OnItsWay(b) == \E t \in Tabs : BrowserOf[t] = b /\ Exchanged(t) /\ refresh[t].token = jar[b]
JarLast(b) ==
    jar[b] # None /\ jar[b][1] \notin dropped =>
       jar[b][2] = Len(rows[jar[b][1]]) \/ OnItsWay(b)
TokenLast(t) ==
    LET k == refresh[t].token IN
    k # None /\ k[1] \notin dropped =>
       /\ refresh[t].pc \in {"sent", "rotate"} => k[2] = Len(rows[k[1]])
       /\ Exchanged(t) => k[2] + 1 = Len(rows[k[1]])
LastHeld == (\A b \in Browsers : JarLast(b)) /\ \A t \in Tabs : TokenLast(t)

\* Such a session is in one browser, or still on its way to the first.
FirstAnswer(r, f) ==
    /\ Len(rows[f]) = 1
    /\ \A b \in Browsers : ~Holds(b, f)
    /\ \A s \in Requests : Answering(s, f) => s = r
OneBrowser ==
    \A f \in Families : f \notin dropped =>
        /\ \A b1, b2 \in Browsers : Holds(b1, f) /\ Holds(b2, f) => b1 = b2
        /\ \A r \in Requests : Answering(r, f) => FirstAnswer(r, f)

\* A revocation for reuse is of sessions of which an answer was lost.
OfLost(c) ==
    revoke[c].why = "REUSE_DETECTED" =>
       /\ revoke[c].pc # "find"
       /\ revoke[c].pc \in {"scan", "write"} =>
             revoke[c].of \subseteq dropped /\ \A k \in revoke[c].seen : k[1] \in revoke[c].of
ReuseOfLost == \A c \in Calls : OfLost(c)

ReuseInv == LastHeld /\ OneBrowser /\ ReuseOfLost /\ ReuseMeansLost

\* The browser holds no more of a session than it did.
Fewer(t) ==
    \/ /\ refresh'[t].token = refresh[t].token /\ (Exchanged(t)' <=> Exchanged(t))
       /\ refresh'[t].pc \in {"sent", "rotate"} => refresh[t].pc \in {"sent", "rotate"}
    \/ /\ refresh'[t].token = None /\ ~Exchanged(t)'
       /\ Exchanged(t) => refresh[t].token[1] \in dropped'
SameAnswers == \A r \in Requests : req'[r].pc = "answer" =>
                  req[r].pc = "answer" /\ req'[r].session = req[r].session

LEMMA HeldFewer ==
    ASSUME LifeInv, LastHeld, OneBrowser, dropped \subseteq dropped',
           \A f \in Families : Len(rows'[f]) = Len(rows[f]),
           \A b \in Browsers : jar'[b] = jar[b] \/ jar'[b] = None,
           \A t \in Tabs : Fewer(t), SameAnswers
    PROVE  LastHeld' /\ OneBrowser'
<1>1. \A b \in Browsers : jar[b] # None => jar[b][1] \in Families
  BY DEF LifeInv, SessionTypes, BrowserTypes, Token
<1>2. \A t \in Tabs : refresh[t].token # None => refresh[t].token[1] \in Families
  BY DEF LifeInv, SessionTypes, CallTypes, RefreshType, Token
<1>3. ASSUME NEW b \in Browsers PROVE JarLast(b)'
  <2>1. SUFFICES ASSUME jar'[b] # None, jar'[b][1] \notin dropped'
                 PROVE  jar'[b][2] = Len(rows'[jar'[b][1]]) \/ OnItsWay(b)'
    BY DEF JarLast
  <2>2. jar'[b] = jar[b] /\ jar[b] # None /\ jar[b][1] \in Families /\ jar[b][1] \notin dropped
    BY <1>1, <2>1
  <2>3. CASE jar[b][2] = Len(rows[jar[b][1]])
    BY <2>2, <2>3
  <2>4. CASE OnItsWay(b)
    <3>1. PICK t \in Tabs : BrowserOf[t] = b /\ Exchanged(t) /\ refresh[t].token = jar[b]
      BY <2>4 DEF OnItsWay
    <3>2. refresh'[t].token = refresh[t].token /\ Exchanged(t)'
      BY <2>1, <2>2, <3>1 DEF Fewer
    <3>3. OnItsWay(b)'
      BY <2>2, <3>1, <3>2 DEF OnItsWay
    <3> QED
      BY <3>3
  <2> QED
    BY <2>2, <2>3, <2>4 DEF LastHeld, JarLast
<1>4. ASSUME NEW t \in Tabs PROVE TokenLast(t)'
  <2>1. CASE refresh'[t].token = None
    BY <2>1 DEF TokenLast
  <2>2. CASE /\ refresh'[t].token = refresh[t].token /\ (Exchanged(t)' <=> Exchanged(t))
             /\ refresh'[t].pc \in {"sent", "rotate"} => refresh[t].pc \in {"sent", "rotate"}
    BY <1>2, <2>2 DEF LastHeld, TokenLast
  <2> QED
    BY <2>1, <2>2 DEF Fewer
<1>5. ASSUME NEW b \in Browsers, NEW f \in Families, Holds(b, f)' PROVE Holds(b, f)
  <2>1. CASE jar'[b] # None /\ jar'[b][1] = f
    BY <2>1 DEF Holds
  <2>2. CASE \E t \in Tabs : BrowserOf[t] = b /\ Carries(t, f)'
    BY <2>2 DEF Holds, Carries, Fewer
  <2> QED
    BY <1>5, <2>1, <2>2 DEF Holds
<1>6. OneBrowser'
  <2> SUFFICES ASSUME NEW f \in Families, f \notin dropped'
               PROVE  /\ \A b1, b2 \in Browsers : Holds(b1, f)' /\ Holds(b2, f)' => b1 = b2
                      /\ \A r \in Requests : Answering(r, f)' => FirstAnswer(r, f)'
    BY DEF OneBrowser
  <2>1. \A b1, b2 \in Browsers : Holds(b1, f)' /\ Holds(b2, f)' => b1 = b2
    BY <1>5 DEF OneBrowser
  <2>2. ASSUME NEW r \in Requests, Answering(r, f)' PROVE FirstAnswer(r, f)'
    <3>1. \A s \in Requests : Answering(s, f)' => Answering(s, f)
      BY DEF Answering, SameAnswers
    <3>2. FirstAnswer(r, f)
      BY <2>2, <3>1 DEF OneBrowser
    <3> QED
      BY <1>5, <3>1, <3>2 DEF FirstAnswer
  <2> QED
    BY <2>1, <2>2
<1> QED
  BY <1>3, <1>4, <1>6 DEF LastHeld

\* Nothing of what the browsers hold changes.
LEMMA HeldSame ==
    ASSUME LifeInv, LastHeld, OneBrowser, dropped \subseteq dropped',
           \A f \in Families : Len(rows'[f]) = Len(rows[f]),
           UNCHANGED refresh, \A b \in Browsers : jar'[b] = jar[b] \/ jar'[b] = None, SameAnswers
    PROVE  LastHeld' /\ OneBrowser'
<1>1. \A t \in Tabs : Fewer(t)
  BY DEF Fewer, Exchanged
<1> QED
  BY <1>1, HeldFewer

\* No revocation for reuse begins, and no row is marked for it.
LEMMA NoNewReuse ==
    ASSUME ReuseOfLost, ReuseMeansLost, dropped \subseteq dropped',
           \A c \in Calls : \/ revoke'[c] = revoke[c] \/ revoke'[c].why # "REUSE_DETECTED"
                            \/ revoke'[c].pc \notin {"find", "scan", "write"},
           \A f \in Families : \A n \in DOMAIN rows'[f] : rows'[f][n].st = "REUSE_DETECTED" =>
              n \in DOMAIN rows[f] /\ rows[f][n].st = "REUSE_DETECTED"
    PROVE  ReuseOfLost' /\ ReuseMeansLost'
<1>1. ASSUME NEW c \in Calls PROVE OfLost(c)'
  BY DEF ReuseOfLost, OfLost
<1>2. ReuseMeansLost'
  BY DEF ReuseMeansLost
<1> QED
  BY <1>1, <1>2 DEF ReuseOfLost

\* The table stays, and no revocation for reuse begins.
LEMMA ReuseFrame ==
    ASSUME ReuseInv, UNCHANGED rows, dropped \subseteq dropped',
           \A c \in Calls : \/ revoke'[c] = revoke[c] \/ revoke'[c].why # "REUSE_DETECTED"
                            \/ revoke'[c].pc \notin {"find", "scan", "write"},
           LastHeld', OneBrowser'
    PROVE  ReuseInv'
BY NoNewReuse DEF ReuseInv

\* A refresh is asked for, or was refused for reuse.
LEMMA RefreshWaits ==
    ASSUME LifeInv, ReuseInv, NEW t \in Tabs, RefreshStart(t) \/ ReuseRevoked(t), UNCHANGED account
    PROVE  ReuseInv'
<1>1. UNCHANGED <<rows, dropped, jar>> /\ SameAnswers
  BY DEF RefreshStart, ReuseRevoked, server, browser, history, account, SameAnswers
<1>2. ASSUME RefreshStart(t) PROVE \A u \in Tabs : Fewer(u)
  <2>1. /\ refresh[t].pc = "idle" /\ refresh' = [refresh EXCEPT ![t].pc = "wait"]
    BY <1>2 DEF RefreshStart, NoRefresh
  <2> QED
    BY <2>1 DEF Fewer, Exchanged, LifeInv, SessionTypes, CallTypes, RefreshType
<1>3. ASSUME ReuseRevoked(t) PROVE \A u \in Tabs : Fewer(u)
  <2>1. refresh[t].pc = "revoking" /\ Answer(t, "reuse")
    BY <1>3 DEF ReuseRevoked
  <2>2. /\ refresh'[t].pc = "reply" /\ refresh'[t].reply = "reuse"
        /\ refresh'[t].token = refresh[t].token
        /\ \A u \in Tabs \ {t} : refresh'[u] = refresh[u]
    BY <2>1, AnswerType DEF LifeInv, SessionTypes, Replies
  <2> QED
    BY <2>1, <2>2 DEF Fewer, Exchanged
<1>4. LastHeld' /\ OneBrowser'
  BY <1>1, <1>2, <1>3, HeldFewer DEF ReuseInv
<1>5. \A c \in Calls : revoke'[c] = revoke[c] \/ revoke'[c] = NoRevoke
  BY DEF RefreshStart, ReuseRevoked, LifeInv, SessionTypes, CallTypes
<1> QED
  BY <1>1, <1>4, <1>5, ReuseFrame DEF NoRevoke

\* A tab asks with the cookie of its browser: nobody else of the browser is refreshing.
LEMMA Presents ==
    ASSUME LifeInv, LastHeld, OneBrowser, NEW t \in Tabs, lock[BrowserOf[t]][1] = t, ~Exchanged(t),
           UNCHANGED <<rows, jar, dropped>>, SameAnswers,
           refresh'[t].token = Presented(BrowserOf[t]), ~Exchanged(t)',
           \A u \in Tabs \ {t} : refresh'[u] = refresh[u]
    PROVE  LastHeld' /\ OneBrowser'
<1> DEFINE b == BrowserOf[t]
<1>1. b \in Browsers /\ (Presented(b) = None \/ Presented(b) = jar[b])
  BY PresentedType DEF Browsers, LifeInv, SessionTypes
<1>2. ~OnItsWay(b)
  BY DEF OnItsWay, Exchanged, LifeInv, Locked
<1>3. jar[b] # None /\ jar[b][1] \notin dropped => jar[b][2] = Len(rows[jar[b][1]])
  BY <1>1, <1>2 DEF LastHeld, JarLast
<1>4. TokenLast(t)'
  BY <1>1, <1>3 DEF TokenLast
<1>5. ASSUME NEW u \in Tabs \ {t} PROVE TokenLast(u)'
  BY <1>5 DEF TokenLast, LastHeld, Exchanged
<1>6. ASSUME NEW c \in Browsers PROVE JarLast(c)'
  <2>1. OnItsWay(c) => OnItsWay(c)'
    BY DEF OnItsWay, Exchanged
  <2> QED
    BY <2>1 DEF JarLast, LastHeld
<1>7. ASSUME NEW c \in Browsers, NEW f \in Families, Holds(c, f)' PROVE Holds(c, f)
  <2>1. CASE jar'[c] # None /\ jar'[c][1] = f
    BY <2>1 DEF Holds
  <2>2. CASE \E u \in Tabs : BrowserOf[u] = c /\ Carries(u, f)'
    BY <1>1, <2>2 DEF Holds, Carries
  <2> QED
    BY <1>7, <2>1, <2>2 DEF Holds
<1>8. OneBrowser'
  <2> SUFFICES ASSUME NEW f \in Families, f \notin dropped
               PROVE  /\ \A b1, b2 \in Browsers : Holds(b1, f)' /\ Holds(b2, f)' => b1 = b2
                      /\ \A r \in Requests : Answering(r, f)' => FirstAnswer(r, f)'
    BY DEF OneBrowser
  <2>1. \A b1, b2 \in Browsers : Holds(b1, f)' /\ Holds(b2, f)' => b1 = b2
    BY <1>7 DEF OneBrowser
  <2>2. ASSUME NEW r \in Requests, Answering(r, f)' PROVE FirstAnswer(r, f)'
    <3>1. \A s \in Requests : Answering(s, f)' => Answering(s, f)
      BY DEF Answering, SameAnswers
    <3>2. FirstAnswer(r, f)
      BY <2>2, <3>1 DEF OneBrowser
    <3> QED
      BY <1>7, <3>1, <3>2 DEF FirstAnswer
  <2> QED
    BY <2>1, <2>2
<1> QED
  BY <1>4, <1>5, <1>6, <1>8 DEF LastHeld

LEMMA RefreshSendReuse ==
    ASSUME LifeInv, ReuseInv, NEW t \in Tabs, RefreshSend(t), UNCHANGED account
    PROVE  ReuseInv'
<1>1. /\ UNCHANGED <<rows, jar, dropped, revoke>> /\ SameAnswers /\ Send(t, 0)
      /\ refresh[t].pc = "wait" /\ HoldsLock(t)
  BY DEF RefreshSend, server, browser, history, account, SameAnswers
<1>2. lock[BrowserOf[t]][1] = t
  <2>1. lock[BrowserOf[t]] \in Seq(Tabs) /\ Queued(t, lock[BrowserOf[t]])
    BY <1>1 DEF LifeInv, SessionTypes, BrowserTypes, Browsers, Locked
  <2>2. lock[BrowserOf[t]] # <<>>
    BY <2>1 DEF Queued
  <2> QED
    BY <1>1, <2>1, <2>2 DEF HoldsLock
<1>3. /\ refresh'[t].pc = "sent" /\ refresh'[t].token = Presented(BrowserOf[t])
      /\ \A u \in Tabs \ {t} : refresh'[u] = refresh[u]
  BY <1>1, SendType DEF LifeInv, SessionTypes
<1>4. LastHeld' /\ OneBrowser'
  BY <1>1, <1>2, <1>3, Presents DEF Exchanged, ReuseInv
<1> QED
  BY <1>1, <1>4, ReuseFrame

\* The answer arrives: the cookie is the next token, or the old one is sent
\* again, or nothing is held.
LEMMA RefreshDeliverReuse ==
    ASSUME LifeInv, ReuseInv, NEW t \in Tabs, RefreshDeliver(t), UNCHANGED account
    PROVE  ReuseInv'
<1> DEFINE b == BrowserOf[t]
<1>1. UNCHANGED <<rows, dropped, revoke>> /\ SameAnswers /\ refresh[t].pc = "reply"
  BY DEF RefreshDeliver, server, history, account, SameAnswers
<1>2. lock[b][1] = t /\ b \in Browsers /\ jar \in [Browsers -> Token \cup {None}]
  BY <1>1 DEF LifeInv, Locked, SessionTypes, BrowserTypes, Browsers
<1>3. \A u \in Tabs \ {t} : refresh'[u] = refresh[u]
  BY RefreshDeliverLife
<1>4. ~Exchanged(t)'
  BY RefreshDeliverLife
<1>5. CASE /\ ~Exchanged(t) /\ UNCHANGED <<jar, tab, sock>>
           /\ refresh'[t].token = Presented(b) /\ refresh'[t].pc = "sent"
  <2>1. LastHeld' /\ OneBrowser'
    BY <1>1, <1>2, <1>3, <1>4, <1>5, Presents DEF ReuseInv
  <2> QED
    BY <1>1, <2>1, ReuseFrame
<1>6. CASE /\ ~Exchanged(t) /\ refresh'[t].token = None /\ refresh'[t].pc = "idle"
           /\ jar' = jar \/ jar' = [jar EXCEPT ![b] = None]
  <2>1. \A u \in Tabs : Fewer(u)
    BY <1>3, <1>4, <1>6 DEF Fewer, Exchanged
  <2>2. \A c \in Browsers : jar'[c] = jar[c] \/ jar'[c] = None
    BY <1>2, <1>6
  <2>3. LastHeld' /\ OneBrowser'
    BY <1>1, <2>1, <2>2, HeldFewer DEF ReuseInv
  <2> QED
    BY <1>1, <2>3, ReuseFrame
<1>7. CASE /\ Exchanged(t) /\ refresh'[t].token = None
           /\ refresh[t].token[1] \in Families
           /\ jar' = [jar EXCEPT ![b] = <<refresh[t].token[1], refresh[t].token[2] + 1>>]
  <2>1. PICK f \in Families, n \in Nat : f = refresh[t].token[1] /\ n = refresh[t].token[2]
    <3>1. refresh[t].token \in Token
      BY <1>7 DEF LifeInv, SessionTypes, CallTypes, RefreshType, AllIssued, RefreshIssued, TokenIssued
    <3> QED
      BY <1>7, <3>1 DEF Token
  <2>2. refresh[t].token # None
    BY <1>7 DEF LifeInv, AllIssued, RefreshIssued, TokenIssued
  <2>3. jar'[b] = <<f, n + 1>> /\ \A c \in Browsers \ {b} : jar'[c] = jar[c]
    BY <1>2, <1>7, <2>1
  <2>4. f \notin dropped => n + 1 = Len(rows[f])
    BY <1>7, <2>1, <2>2 DEF ReuseInv, LastHeld, TokenLast
  <2>5. JarLast(b)'
    BY <1>1, <2>3, <2>4 DEF JarLast
  <2>6. ASSUME NEW c \in Browsers \ {b} PROVE JarLast(c)'
    <3>1. OnItsWay(c) => OnItsWay(c)'
      BY <1>3, <2>3 DEF OnItsWay, Exchanged
    <3> QED
      BY <1>1, <2>3, <3>1 DEF JarLast, ReuseInv, LastHeld
  <2>7. ASSUME NEW u \in Tabs PROVE TokenLast(u)'
    BY <1>1, <1>3, <1>7 DEF TokenLast, ReuseInv, LastHeld, Exchanged
  <2>8. ASSUME NEW c \in Browsers, NEW g \in Families, Holds(c, g)' PROVE Holds(c, g)
    <3>1. CASE jar'[c] # None /\ jar'[c][1] = g
      <4>1. CASE c = b
        <5>1. Carries(t, g)
          BY <2>1, <2>2, <2>3, <3>1, <4>1 DEF Carries
        <5> QED
          BY <4>1, <5>1 DEF Holds
      <4> QED
        BY <2>3, <3>1, <4>1 DEF Holds
    <3>2. CASE \E u \in Tabs : BrowserOf[u] = c /\ Carries(u, g)'
      BY <1>3, <1>7, <3>2 DEF Holds, Carries
    <3> QED
      BY <2>8, <3>1, <3>2 DEF Holds
  <2>9. OneBrowser'
    <3>1. \A r \in Requests, g \in Families : Answering(r, g)' => Answering(r, g)
      BY <1>1 DEF Answering, SameAnswers
    <3> QED
      BY <1>1, <2>8, <3>1 DEF OneBrowser, FirstAnswer, ReuseInv
  <2>10. LastHeld'
    BY <2>5, <2>6, <2>7 DEF LastHeld
  <2> QED
    BY <1>1, <2>9, <2>10, ReuseFrame
<1> QED
  BY <1>5, <1>6, <1>7, RefreshDeliverLife

\* Only an old cookie meets a token already exchanged: an answer was lost.
LEMMA RotateReadReuse ==
    ASSUME LifeInv, ReuseInv, NEW t \in Tabs, RotateRead(t), UNCHANGED account
    PROVE  ReuseInv'
<1>1. UNCHANGED <<rows, dropped, jar>> /\ SameAnswers /\ refresh[t].pc = "sent"
  BY DEF RotateRead, server, browser, history, account, SameAnswers
<1>2. /\ refresh'[t].token = refresh[t].token /\ \A u \in Tabs \ {t} : refresh'[u] = refresh[u]
      /\ refresh'[t].pc \in {"reply", "revoking", "rotate"} /\ ~Exchanged(t)'
  BY RotateReadLife
<1>3. \A u \in Tabs : Fewer(u)
  BY <1>1, <1>2 DEF Fewer, Exchanged
<1>4. LastHeld' /\ OneBrowser'
  BY <1>1, <1>3, HeldFewer DEF ReuseInv
<1>5. CASE UNCHANGED revoke
  BY <1>1, <1>4, <1>5, ReuseFrame
<1>6. CASE /\ refresh[t].token # None /\ refresh[t].token[1] \in Families
           /\ rows[refresh[t].token[1]][refresh[t].token[2]].st = "ROTATED"
           /\ revoke'[<<t, "refresh">>].pc = "scan"
           /\ revoke'[<<t, "refresh">>].of = {refresh[t].token[1]}
           /\ revoke'[<<t, "refresh">>].seen = {}
           /\ \A d \in Calls \ {<<t, "refresh">>} : revoke'[d] = revoke[d]
  <2>1. refresh[t].token[1] \in dropped
    <3>1. refresh[t].token[2] \in DOMAIN rows[refresh[t].token[1]]
      BY <1>6 DEF LifeInv, AllIssued, RefreshIssued, TokenIssued, Issued
    <3>2. refresh[t].token[2] # Len(rows[refresh[t].token[1]])
      BY <1>6, <3>1 DEF LifeInv, InOrder
    <3> QED
      BY <1>1, <1>6, <3>2 DEF ReuseInv, LastHeld, TokenLast
  <2>2. ReuseOfLost'
    <3> SUFFICES ASSUME NEW c \in Calls PROVE OfLost(c)'
      BY DEF ReuseOfLost
    <3>1. CASE c = <<t, "refresh">>
      BY <1>1, <1>6, <2>1, <3>1 DEF OfLost
    <3>2. CASE c # <<t, "refresh">>
      <4>1. revoke'[c] = revoke[c]
        BY <1>6, <3>2
      <4> QED
        BY <1>1, <4>1 DEF OfLost, ReuseOfLost, ReuseInv
    <3> QED
      BY <3>1, <3>2
  <2>3. ReuseMeansLost'
    BY <1>1 DEF ReuseMeansLost, ReuseInv
  <2> QED
    BY <1>4, <2>2, <2>3 DEF ReuseInv
<1> QED
  BY <1>5, <1>6, RotateReadLife

\* A lost answer is remembered.
LEMMA RefreshLostReuse ==
    ASSUME LifeInv, ReuseInv, NEW t \in Tabs, RefreshLost(t), UNCHANGED account
    PROVE  ReuseInv'
<1>1. UNCHANGED <<rows, jar, revoke>> /\ SameAnswers /\ refresh[t].pc \in {"sent", "reply"}
      /\ dropped' = IF refresh[t].reply = "ok" THEN dropped \union {refresh[t].token[1]} ELSE dropped
  BY DEF RefreshLost, server, account, SameAnswers
<1>2. refresh'[t] = NoRefresh /\ \A u \in Tabs \ {t} : refresh'[u] = refresh[u]
  BY RefreshLostLife
<1>3. \A u \in Tabs : Fewer(u)
  BY <1>1, <1>2 DEF Fewer, Exchanged, NoRefresh
<1>4. dropped \subseteq dropped'
  BY <1>1
<1>5. LastHeld' /\ OneBrowser'
  BY <1>1, <1>3, <1>4, HeldFewer DEF ReuseInv
<1> QED
  BY <1>1, <1>4, <1>5, ReuseFrame

\* Leaving, and what is about the socket, touches no token that is about.
LEMMA LeaveReuse ==
    ASSUME LifeInv, ReuseInv, NEW t \in Tabs, UNCHANGED account,
           \/ LeaveRead(t) \/ LeaveAgain(t) \/ LeaveRevoked(t) \/ LeaveDone(t)
           \/ HearSignedOut(t) \/ SocketCheck(t) \/ SocketJoin(t) \/ SocketKicked(t) \/ Reload(t)
           \/ Logout(t)
    PROVE  ReuseInv'
<1>1. UNCHANGED <<rows, refresh, dropped>> /\ SameAnswers
  BY DEF LeaveRead, LeaveAgain, LeaveRevoked, LeaveDone, HearSignedOut, SocketCheck, SocketJoin,
         SocketKicked, Reload, Logout, server, browser, history, account, SameAnswers
<1>2. UNCHANGED jar \/ jar' = [jar EXCEPT ![BrowserOf[t]] = None]
  BY LeaveDoneLife DEF LeaveRead, LeaveAgain, LeaveRevoked, HearSignedOut, SocketCheck, SocketJoin,
         SocketKicked, Reload, Logout, browser
<1>3. \A b \in Browsers : jar'[b] = jar[b] \/ jar'[b] = None
  BY <1>2 DEF LifeInv, SessionTypes, BrowserTypes
<1>4. LastHeld' /\ OneBrowser'
  BY <1>1, <1>3, HeldSame DEF ReuseInv
<1>5. \A c \in Calls : revoke'[c] = revoke[c] \/ revoke'[c].why # "REUSE_DETECTED"
  <2>1. ASSUME LeaveRead(t), NEW c \in Calls
        PROVE  revoke'[c] = revoke[c] \/ revoke'[c].why # "REUSE_DETECTED"
    BY <2>1, LeaveReadLife
  <2>2. ASSUME LeaveRevoked(t), NEW c \in Calls
        PROVE  revoke'[c] = revoke[c] \/ revoke'[c].why # "REUSE_DETECTED"
    <3>1. c = <<t, "leave">> \/ revoke'[c] = revoke[c]
      BY <2>2, LeaveRevokedLife
    <3>2. revoke'[<<t, "leave">>].why = "LOGOUT"
      BY <2>2, LeaveRevokedLife DEF NoRevoke
    <3> QED
      BY ONLY <3>1, <3>2
  <2>3. ~LeaveRead(t) /\ ~LeaveRevoked(t) => UNCHANGED revoke
    BY DEF LeaveAgain, LeaveDone, HearSignedOut, SocketCheck, SocketJoin, SocketKicked, Reload,
           Logout
  <2>4. UNCHANGED revoke => \A c \in Calls : revoke'[c] = revoke[c]
    OBVIOUS
  <2> QED
    BY ONLY <2>1, <2>2, <2>3, <2>4
<1> QED
  BY <1>1, <1>4, <1>5, ReuseFrame

\* A revocation goes on.
LEMMA RevokeReuse ==
    ASSUME LifeInv, ReuseInv, NEW c \in Calls, UNCHANGED account,
           RevokeFind(c) \/ RevokeScan(c) \/ RevokeMark(c) \/ RevokeTell(c)
    PROVE  ReuseInv'
<1>1. UNCHANGED <<rows, refresh, dropped, jar>> /\ SameAnswers
  BY DEF RevokeFind, RevokeScan, RevokeMark, RevokeTell, server, browser, history, account,
         SameAnswers
<1>2. LastHeld' /\ OneBrowser'
  BY <1>1, HeldSame DEF ReuseInv
<1>3. ASSUME RevokeScan(c) PROVE OfLost(c)'
  <2> SUFFICES ASSUME revoke'[c].why = "REUSE_DETECTED"
               PROVE  /\ revoke'[c].pc # "find"
                      /\ revoke'[c].of \subseteq dropped'
                      /\ \A k \in revoke'[c].seen : k[1] \in revoke'[c].of
    BY DEF OfLost
  <2>1. \A k \in revoke'[c].seen : k[1] \in revoke'[c].of
    <3> SUFFICES ASSUME NEW k \in revoke'[c].seen PROVE k[1] \in revoke'[c].of
      OBVIOUS
    <3>1. k \in Token
      BY <1>3, RevokeScanLife
    <3>2. PICK f \in Families, n \in Nat \ {0} : k = <<f, n>>
      BY <3>1 DEF Token
    <3>3. <<f, n>> \in revoke'[c].seen
      BY <3>2
    <3>4. f \in revoke'[c].of
      BY <1>3, <3>3, RevokeScanLife
    <3> QED
      BY <3>2, <3>4
  <2>2. /\ revoke[c].pc = "scan" /\ revoke'[c].pc = "write" /\ revoke'[c].of = revoke[c].of
        /\ revoke'[c].why = revoke[c].why
    BY <1>3, RevokeScanLife
  <2> QED
    BY <1>1, <2>1, <2>2 DEF OfLost, ReuseOfLost, ReuseInv
<1>4. ASSUME RevokeFind(c) PROVE OfLost(c)'
  BY <1>4, RevokeFindLife DEF OfLost, ReuseOfLost, ReuseInv
<1>5. ASSUME RevokeMark(c) PROVE OfLost(c)'
  BY <1>5, RevokeMarkLife DEF OfLost
<1>6. ASSUME RevokeTell(c) PROVE OfLost(c)'
  BY <1>6, RevokeTellLife DEF OfLost
<1>7. \A d \in Calls \ {c} : revoke'[d] = revoke[d]
  BY RevokeFindLife, RevokeScanLife, RevokeMarkLife, RevokeTellLife
<1>8. ReuseOfLost'
  BY <1>1, <1>3, <1>4, <1>5, <1>6, <1>7 DEF ReuseOfLost, OfLost, ReuseInv
<1>9. ReuseMeansLost'
  BY <1>1 DEF ReuseMeansLost, ReuseInv
<1> QED
  BY <1>2, <1>8, <1>9 DEF ReuseInv

\* The rows of a session end for reuse only when an answer was lost.
LEMMA RevokeWriteReuse ==
    ASSUME LifeInv, ReuseInv, NEW c \in Calls, UNCHANGED account, RevokeWrite(c)
    PROVE  ReuseInv'
<1>1. UNCHANGED <<refresh, dropped, jar>> /\ SameAnswers
  BY DEF RevokeWrite, browser, account, SameAnswers
<1>2. Rewritten /\ revoke[c].pc = "write" /\ revoke'[c].pc = "mark"
      /\ \A d \in Calls \ {c} : revoke'[d] = revoke[d]
  BY RevokeWriteLife
<1>3. \A f \in Families : Len(rows'[f]) = Len(rows[f]) /\ DOMAIN rows'[f] = DOMAIN rows[f]
  BY <1>2 DEF Rewritten
<1>4. LastHeld' /\ OneBrowser'
  BY <1>1, <1>3, HeldSame DEF ReuseInv
<1>5. ReuseOfLost'
  BY <1>1, <1>2 DEF ReuseOfLost, OfLost, ReuseInv
<1>6. ReuseMeansLost'
  <2> SUFFICES ASSUME NEW f \in Families, NEW n \in DOMAIN rows'[f],
                      rows'[f][n].st = "REUSE_DETECTED"
               PROVE  f \in dropped
    BY <1>1 DEF ReuseMeansLost
  <2>1. n \in DOMAIN rows[f]
    BY <1>3
  <2>2. rows'[f][n].st = IF <<f, n>> \in revoke[c].seen /\ Live(f, n)
                         THEN revoke[c].why ELSE rows[f][n].st
    BY <2>1, RevokeWriteLife
  <2>3. CASE <<f, n>> \in revoke[c].seen /\ Live(f, n)
    <3>1. revoke[c].why = "REUSE_DETECTED"
      BY <2>2, <2>3
    <3>2. <<f, n>>[1] \in revoke[c].of /\ revoke[c].of \subseteq dropped
      BY <1>2, <2>3, <3>1 DEF ReuseInv, ReuseOfLost, OfLost
    <3> QED
      BY <3>2
  <2>4. CASE ~(<<f, n>> \in revoke[c].seen /\ Live(f, n))
    BY <2>1, <2>2, <2>4 DEF ReuseInv, ReuseMeansLost
  <2> QED
    BY <2>3, <2>4
<1> QED
  BY <1>4, <1>5, <1>6 DEF ReuseInv

\* Rows grow old, or are deleted.
LEMMA RowsAgeReuse ==
    ASSUME LifeInv, ReuseInv, (DeleteExpired /\ UNCHANGED account) \/ AccountTick
    PROVE  ReuseInv'
<1>1. UNCHANGED <<dropped, jar, revoke>>
  BY TickLife DEF DeleteExpired, browser, history
<1>2. Rewritten /\ \A f \in Families : \A n \in DOMAIN rows[f] :
                      rows'[f][n].st \in {rows[f][n].st, "gone"}
  BY TickLife, DeleteExpiredLife
<1>3. \A f \in Families : Len(rows'[f]) = Len(rows[f]) /\ DOMAIN rows'[f] = DOMAIN rows[f]
  BY <1>2 DEF Rewritten
<1>4. SameAnswers /\ \A t \in Tabs : Fewer(t)
  <2>1. ASSUME DeleteExpired, UNCHANGED account PROVE SameAnswers /\ \A t \in Tabs : Fewer(t)
    BY <2>1 DEF DeleteExpired, account, SameAnswers, Fewer, Exchanged
  <2>2. ASSUME AccountTick PROVE SameAnswers /\ \A t \in Tabs : Fewer(t)
    BY <2>2, TickLife DEF SameAnswers, Fewer, Exchanged
  <2> QED
    BY <2>1, <2>2
<1>5. LastHeld' /\ OneBrowser'
  BY <1>1, <1>3, <1>4, HeldFewer DEF ReuseInv
<1>6. \A f \in Families : \A n \in DOMAIN rows'[f] : rows'[f][n].st = "REUSE_DETECTED" =>
          n \in DOMAIN rows[f] /\ rows[f][n].st = "REUSE_DETECTED"
  BY <1>2, <1>3
<1>7. ReuseOfLost' /\ ReuseMeansLost'
  BY <1>1, <1>6, NoNewReuse DEF ReuseInv
<1> QED
  BY <1>5, <1>7 DEF ReuseInv

\* Holds and Carries do not look at the table.
LEMMA HoldsAsBefore ==
    ASSUME LifeInv, UNCHANGED jar, \A t \in Tabs : refresh'[t].token = refresh[t].token
    PROVE  \A b \in Browsers, f \in Families : Holds(b, f)' <=> Holds(b, f)
BY DEF Holds, Carries

\* The next token is on its way: nobody else has one of the session.
LEMMA RotateReuse ==
    ASSUME LifeInv, ReuseInv, NEW t \in Tabs, Rotate(t), UNCHANGED account
    PROVE  ReuseInv'
<1> DEFINE b == BrowserOf[t]
<1>1. UNCHANGED <<jar, dropped, revoke>> /\ SameAnswers
  BY DEF Rotate, browser, account, SameAnswers
<1>2. /\ refresh[t].pc = "rotate" /\ refresh[t].token # None
      /\ refresh'[t].pc = "reply"
      /\ refresh'[t].token = refresh[t].token /\ \A u \in Tabs \ {t} : refresh'[u] = refresh[u]
  BY RotateLife
<1>3. b \in Browsers /\ lock[b][1] = t
  BY <1>2 DEF LifeInv, Locked, Browsers
<1>4. PICK f \in Families, n \in Nat \ {0} :
          refresh[t].token = <<f, n>> /\ f = refresh[t].token[1] /\ n = refresh[t].token[2]
  <2>1. refresh[t].token \in Token
    BY <1>2 DEF LifeInv, SessionTypes, CallTypes, RefreshType
  <2> QED
    BY <2>1 DEF Token
<1>5. \/ UNCHANGED rows /\ ~Exchanged(t)'
      \/ /\ n = Len(rows[f]) /\ Exchanged(t)'
         /\ Len(rows'[f]) = n + 1 /\ DOMAIN rows'[f] = 1 .. n + 1
         /\ rows'[f][n].st = "ROTATED" /\ rows'[f][n + 1].st = "live"
         /\ \A m \in 1 .. n - 1 : rows'[f][m] = rows[f][m]
         /\ \A g \in Families \ {f} : rows'[g] = rows[g]
  <2> DEFINE f0 == refresh[t].token[1]
             n0 == refresh[t].token[2]
  <2>1. \/ UNCHANGED <<rows, overlapped>> /\ refresh'[t].reply = "stale"
        \/ /\ n0 = Len(rows[f0])
           /\ refresh'[t].reply = "ok"
           /\ Len(rows'[f0]) = n0 + 1 /\ DOMAIN rows'[f0] = 1 .. n0 + 1
           /\ rows'[f0][n0].st = "ROTATED" /\ rows'[f0][n0 + 1].st = "live"
           /\ \A m \in 1 .. n0 - 1 : rows'[f0][m] = rows[f0][m]
           /\ \A g \in Families \ {f0} : rows'[g] = rows[g]
    BY RotateLife
  <2>2. f0 = f /\ n0 = n
    BY <1>4
  <2> HIDE DEF f0, n0
  <2> QED
    BY <1>2, <2>1, <2>2 DEF Exchanged
<1>6. CASE UNCHANGED rows /\ ~Exchanged(t)'
  <2>1. \A u \in Tabs : Fewer(u)
    BY <1>2, <1>6 DEF Fewer, Exchanged
  <2>2. LastHeld' /\ OneBrowser'
    BY <1>1, <1>6, <2>1, HeldFewer DEF ReuseInv
  <2> QED
    BY <1>1, <1>6, <2>2, ReuseFrame
<1>7. CASE /\ n = Len(rows[f]) /\ Exchanged(t)'
           /\ Len(rows'[f]) = n + 1 /\ DOMAIN rows'[f] = 1 .. n + 1
           /\ rows'[f][n].st = "ROTATED" /\ rows'[f][n + 1].st = "live"
           /\ \A m \in 1 .. n - 1 : rows'[f][m] = rows[f][m]
           /\ \A g \in Families \ {f} : rows'[g] = rows[g]
  <2>1. Holds(b, f)
    BY <1>2, <1>4 DEF Holds, Carries
  <2>2. \A c \in Browsers, g \in Families : Holds(c, g)' <=> Holds(c, g)
    <3>1. \A u \in Tabs : refresh'[u].token = refresh[u].token
      BY <1>2
    <3> QED
      BY <1>1, <3>1, HoldsAsBefore
  <2>3. OneBrowser'
    <3> SUFFICES ASSUME NEW g \in Families, g \notin dropped
                 PROVE  /\ \A b1, b2 \in Browsers : Holds(b1, g)' /\ Holds(b2, g)' => b1 = b2
                        /\ \A r \in Requests : Answering(r, g)' => FirstAnswer(r, g)'
      BY <1>1 DEF OneBrowser
    <3>1. \A b1, b2 \in Browsers : Holds(b1, g)' /\ Holds(b2, g)' => b1 = b2
      BY <2>2 DEF ReuseInv, OneBrowser
    <3>2. \A r \in Requests : Answering(r, g)' => Answering(r, g)
      BY <1>1 DEF Answering, SameAnswers
    <3>3. \A r \in Requests : Answering(r, g) => FirstAnswer(r, g)
      BY DEF ReuseInv, OneBrowser
    <3>4. CASE g = f
      BY <1>3, <2>1, <3>1, <3>2, <3>3, <3>4 DEF FirstAnswer
    <3>5. CASE g # f
      <4>1. rows'[g] = rows[g]
        BY <1>7, <3>5
      <4> QED
        BY <2>2, <3>1, <3>2, <3>3, <4>1 DEF FirstAnswer
    <3> QED
      BY <3>4, <3>5
  <2>4. ASSUME NEW c \in Browsers PROVE JarLast(c)'
    <3> SUFFICES ASSUME jar[c] # None, jar[c][1] \notin dropped
                 PROVE  jar[c][2] = Len(rows'[jar[c][1]]) \/ OnItsWay(c)'
      BY <1>1 DEF JarLast
    <3>1. PICK g \in Families, m \in Nat \ {0} : jar[c] = <<g, m>> /\ g = jar[c][1] /\ m = jar[c][2]
      <4>1. jar[c] \in Token
        BY DEF LifeInv, SessionTypes, BrowserTypes
      <4> QED
        BY <4>1 DEF Token
    <3>2. m = Len(rows[g]) \/ OnItsWay(c)
      BY <3>1 DEF ReuseInv, LastHeld, JarLast
    <3>3. OnItsWay(c) => OnItsWay(c)'
      <4>1. ASSUME NEW u \in Tabs, Exchanged(u) PROVE u # t /\ Exchanged(u)'
        BY <1>2, <4>1 DEF Exchanged
      <4> QED
        BY <1>1, <1>2, <4>1 DEF OnItsWay
    <3>4. CASE g = f
      <4>1. Holds(c, f)
        BY <3>1, <3>4 DEF Holds
      <4>2. c = b
        BY <1>3, <2>1, <3>1, <3>4, <4>1 DEF ReuseInv, OneBrowser
      <4>3. ASSUME m = Len(rows[g]) PROVE OnItsWay(c)'
        <5>1. jar[c] = refresh[t].token
          BY <1>4, <1>7, <3>1, <3>4, <4>3
        <5> QED
          BY <1>1, <1>2, <1>7, <4>2, <5>1 DEF OnItsWay
      <4> QED
        BY <3>2, <3>3, <4>3
    <3>5. CASE g # f
      <4>1. rows'[g] = rows[g]
        BY <1>7, <3>5
      <4> QED
        BY <3>1, <3>2, <3>3, <4>1
    <3> QED
      BY <3>4, <3>5
  <2>5. ASSUME NEW u \in Tabs PROVE TokenLast(u)'
    <3>1. CASE u = t
      BY <1>2, <1>4, <1>7, <3>1 DEF TokenLast
    <3>2. CASE u # t
      <4>0. refresh'[u] = refresh[u]
        BY <1>2, <3>2
      <4>1. CASE refresh[u].token # None /\ refresh[u].token[1] = f /\ f \notin dropped
        <5>1. BrowserOf[u] \in Browsers /\ Holds(BrowserOf[u], f)
          BY <4>1 DEF Browsers, Holds, Carries
        <5>2. BrowserOf[u] = b
          BY <1>3, <2>1, <4>1, <5>1 DEF ReuseInv, OneBrowser
        <5>3. refresh[u].pc \in {"idle", "wait"}
          BY <1>3, <3>2, <5>2 DEF LifeInv, Locked
        <5> QED
          BY <4>0, <5>3 DEF TokenLast, Exchanged
      <4>2. CASE refresh[u].token # None /\ refresh[u].token[1] # f
        <5>1. refresh[u].token[1] \in Families
          BY <4>2 DEF LifeInv, SessionTypes, CallTypes, RefreshType, Token
        <5>2. rows'[refresh[u].token[1]] = rows[refresh[u].token[1]]
          BY <1>7, <4>2, <5>1
        <5> QED
          BY <1>1, <4>0, <5>2 DEF ReuseInv, LastHeld, TokenLast, Exchanged
      <4> QED
        BY <1>1, <4>0, <4>1, <4>2 DEF TokenLast
    <3> QED
      BY <3>1, <3>2
  <2>6. ReuseOfLost'
    BY <1>1 DEF ReuseOfLost, OfLost, ReuseInv
  <2>7. ReuseMeansLost'
    <3> SUFFICES ASSUME NEW g \in Families, NEW m \in DOMAIN rows'[g],
                        rows'[g][m].st = "REUSE_DETECTED"
                 PROVE  g \in dropped
      BY <1>1 DEF ReuseMeansLost
    <3>1. CASE g # f
      BY <1>7, <3>1 DEF ReuseInv, ReuseMeansLost
    <3>2. CASE g = f
      <4>1. m \in 1 .. n - 1
        BY <1>7, <3>2
      <4>2. rows[f] \in Seq(RowType)
        BY DEF LifeInv, SessionTypes, ServerTypes
      <4>3. m \in DOMAIN rows[f]
        BY <1>7, <4>1, <4>2
      <4> QED
        BY <1>7, <3>2, <4>1, <4>3 DEF ReuseInv, ReuseMeansLost
    <3> QED
      BY <3>1, <3>2
  <2> QED
    BY <2>3, <2>4, <2>5, <2>6, <2>7 DEF LastHeld, ReuseInv
<1> QED
  BY <1>5, <1>6, <1>7

\* Requests that do not sign anybody in.
LEMMA RequestReuse ==
    ASSUME LifeInv, ReuseInv, NEW r \in Requests, Elsewhere(r) \/ ResetRevoke(r) \/ ResetDone(r)
    PROVE  ReuseInv'
<1>1. UNCHANGED <<rows, refresh, dropped>>
  BY DEF Elsewhere, ResetRevoke, ResetDone, server, history
<1>2. SameAnswers
  <2>1. ASSUME Elsewhere(r) PROVE SameAnswers
    BY <2>1 DEF Elsewhere, Busy, SameAnswers
  <2>2. ASSUME ResetRevoke(r) PROVE SameAnswers
    BY <2>2, ResetRevokeLife DEF SameAnswers
  <2>3. ASSUME ResetDone(r) PROVE SameAnswers
    BY <2>3, ResetDoneLife DEF SameAnswers
  <2> QED
    BY <2>1, <2>2, <2>3
<1>3. UNCHANGED jar \/ jar' = [jar EXCEPT ![BrowserOf[req[r].tab]] = None]
  BY ResetDoneLife DEF Elsewhere, ResetRevoke, browser
<1>4. \A b \in Browsers : jar'[b] = jar[b] \/ jar'[b] = None
  BY <1>3 DEF LifeInv, SessionTypes, BrowserTypes
<1>5. LastHeld' /\ OneBrowser'
  BY <1>1, <1>2, <1>4, HeldSame DEF ReuseInv
<1>6. \A c \in Calls : revoke'[c] = revoke[c] \/ revoke'[c].why # "REUSE_DETECTED"
  <2>1. ASSUME Elsewhere(r), NEW c \in Calls
        PROVE  revoke'[c] = revoke[c] \/ revoke'[c].why # "REUSE_DETECTED"
    BY <2>1 DEF Elsewhere
  <2>2. ASSUME ResetRevoke(r), NEW c \in Calls
        PROVE  revoke'[c] = revoke[c] \/ revoke'[c].why # "REUSE_DETECTED"
    BY <2>2, ResetRevokeLife
  <2>3. ASSUME ResetDone(r), NEW c \in Calls
        PROVE  revoke'[c] = revoke[c] \/ revoke'[c].why # "REUSE_DETECTED"
    BY <2>3, ResetDoneLife DEF NoRevoke
  <2> QED
    BY <2>1, <2>2, <2>3
<1> QED
  BY <1>1, <1>5, <1>6, ReuseFrame

\* A new session is nowhere but in the answer.
LEMMA LoginCreateReuse ==
    ASSUME LifeInv, ReuseInv, NEW r \in Requests, LoginCreate(r)
    PROVE  ReuseInv'
<1>1. UNCHANGED <<jar, refresh, revoke, dropped>>
  BY DEF LoginCreate, browser, history
<1>2. PICK f \in Families :
         /\ rows[f] = <<>> /\ req'[r].session = f
         /\ Len(rows'[f]) = 1 /\ DOMAIN rows'[f] = {1} /\ rows'[f][1].st = "live"
         /\ \A g \in Families \ {f} : rows'[g] = rows[g]
  BY LoginCreateLife
<1>3. req'[r].pc = "answer" /\ \A q \in Requests \ {r} : req'[q] = req[q]
  BY LoginCreateLife
<1>4. \A k \in Token : k # None /\ Issued(k) => k[1] # f
  BY <1>2 DEF Token, Issued
<1>5. \A b \in Browsers : jar[b] # None => jar[b][1] \in Families \ {f}
  <2> SUFFICES ASSUME NEW b \in Browsers, jar[b] # None PROVE jar[b][1] \in Families \ {f}
    OBVIOUS
  <2>1. jar[b] \in Token /\ Issued(jar[b])
    BY DEF LifeInv, SessionTypes, BrowserTypes, AllIssued, JarIssued
  <2> QED
    BY <1>4, <2>1 DEF Token
<1>6. \A t \in Tabs : refresh[t].token # None => refresh[t].token[1] \in Families \ {f}
  <2> SUFFICES ASSUME NEW t \in Tabs, refresh[t].token # None
               PROVE  refresh[t].token[1] \in Families \ {f}
    OBVIOUS
  <2>1. refresh[t].token \in Token /\ Issued(refresh[t].token)
    BY DEF LifeInv, SessionTypes, CallTypes, RefreshType, AllIssued, RefreshIssued, TokenIssued
  <2> QED
    BY <1>4, <2>1 DEF Token
<1>7. \A b \in Browsers : ~Holds(b, f)
  BY <1>5, <1>6 DEF Holds, Carries
<1>8. \A q \in Requests \ {r} : Answering(q, f)' => FALSE
  BY <1>2, <1>3 DEF Answering, LifeInv, AllIssued, AnswerIssued
<1>9. \A b \in Browsers, g \in Families : Holds(b, g)' <=> Holds(b, g)
  BY <1>1, HoldsAsBefore
<1>10. \A b \in Browsers : JarLast(b)'
  <2>1. \A b \in Browsers : OnItsWay(b)' <=> OnItsWay(b)
    BY <1>1 DEF OnItsWay, Exchanged
  <2> QED
    BY <1>1, <1>2, <1>5, <2>1 DEF JarLast, ReuseInv, LastHeld
<1>11. \A t \in Tabs : TokenLast(t)'
  BY <1>1, <1>2, <1>6 DEF TokenLast, Exchanged, ReuseInv, LastHeld
<1>12. OneBrowser'
  <2> SUFFICES ASSUME NEW g \in Families, g \notin dropped
               PROVE  /\ \A b1, b2 \in Browsers : Holds(b1, g)' /\ Holds(b2, g)' => b1 = b2
                      /\ \A q \in Requests : Answering(q, g)' => FirstAnswer(q, g)'
    BY <1>1 DEF OneBrowser
  <2>1. \A b1, b2 \in Browsers : Holds(b1, g)' /\ Holds(b2, g)' => b1 = b2
    BY <1>9 DEF ReuseInv, OneBrowser
  <2>2. CASE g = f
    BY <1>2, <1>7, <1>8, <1>9, <2>1, <2>2 DEF FirstAnswer
  <2>3. CASE g # f
    <3>1. \A q \in Requests : Answering(q, g)' => Answering(q, g)
      BY <1>2, <1>3, <2>3 DEF Answering
    <3>2. \A q \in Requests : Answering(q, g) => FirstAnswer(q, g)
      BY DEF ReuseInv, OneBrowser
    <3>3. rows'[g] = rows[g]
      BY <1>2, <2>3
    <3> QED
      BY <1>9, <2>1, <3>1, <3>2, <3>3 DEF FirstAnswer
  <2> QED
    BY <2>2, <2>3
<1>13. ReuseOfLost'
  BY <1>1 DEF ReuseOfLost, OfLost, ReuseInv
<1>14. ReuseMeansLost'
  BY <1>1, <1>2 DEF ReuseInv, ReuseMeansLost
<1> QED
  BY <1>10, <1>11, <1>12, <1>13, <1>14 DEF ReuseInv, LastHeld

\* The first cookie of a session: no other browser has one.
LEMMA LoginAnswerReuse ==
    ASSUME LifeInv, ReuseInv, NEW r \in Requests, LoginAnswer(r)
    PROVE  ReuseInv'
<1>1. UNCHANGED <<rows, refresh, revoke, dropped>>
  BY DEF LoginAnswer, server, history
<1>2. PICK f \in Families : Answering(r, f) /\ f = req[r].session
  BY LoginAnswerLife
<1>3. req'[r].pc = "idle" /\ \A q \in Requests \ {r} : req'[q] = req[q]
  BY LoginAnswerLife
<1> DEFINE b == BrowserOf[req[r].tab]
<1>4. \A c \in Browsers : jar'[c] = IF c = b THEN <<f, 1>> ELSE jar[c]
  <2>1. jar' = [jar EXCEPT ![b] = <<f, 1>>]
    BY <1>2, LoginAnswerLife
  <2> QED
    BY <2>1 DEF LifeInv, SessionTypes, BrowserTypes
<1> HIDE DEF b
<1>5. f \notin dropped => FirstAnswer(r, f)
  BY <1>2 DEF ReuseInv, OneBrowser
<1>6. ASSUME NEW c \in Browsers PROVE JarLast(c)'
  <2>1. CASE c = b
    <3>1. f \notin dropped => Len(rows[f]) = 1
      BY <1>5 DEF FirstAnswer
    <3>2. jar'[c][1] = f /\ jar'[c][2] = 1
      BY <1>4, <2>1
    <3> QED
      BY <1>1, <3>1, <3>2 DEF JarLast
  <2>2. CASE c # b
    <3>1. OnItsWay(c)' <=> OnItsWay(c)
      BY <1>1, <1>4, <2>2 DEF OnItsWay, Exchanged
    <3> QED
      BY <1>1, <1>4, <2>2, <3>1 DEF JarLast, ReuseInv, LastHeld
  <2> QED
    BY <2>1, <2>2
<1>7. \A t \in Tabs : TokenLast(t)'
  BY <1>1 DEF TokenLast, Exchanged, ReuseInv, LastHeld
<1>8. ASSUME NEW c \in Browsers, NEW g \in Families, Holds(c, g)', ~Holds(c, g)
      PROVE  c = b /\ g = f
  <2>1. jar'[c] # None /\ jar'[c][1] = g
    BY <1>1, <1>8 DEF Holds, Carries
  <2>2. c = b
    BY <1>4, <1>8, <2>1 DEF Holds
  <2> QED
    BY <1>4, <2>1, <2>2
<1>9. OneBrowser'
  <2> SUFFICES ASSUME NEW g \in Families, g \notin dropped
               PROVE  /\ \A b1, b2 \in Browsers : Holds(b1, g)' /\ Holds(b2, g)' => b1 = b2
                      /\ \A q \in Requests : Answering(q, g)' => FirstAnswer(q, g)'
    BY <1>1 DEF OneBrowser
  <2>1. \A q \in Requests : Answering(q, g)' => q # r /\ Answering(q, g)
    BY <1>3 DEF Answering
  <2>2. CASE g = f
    <3>1. \A c \in Browsers : Holds(c, f)' => c = b
      BY <1>5, <1>8, <2>2 DEF FirstAnswer
    <3>2. \A q \in Requests : ~Answering(q, f)'
      BY <1>5, <2>1, <2>2 DEF FirstAnswer
    <3> QED
      BY <2>2, <3>1, <3>2
  <2>3. CASE g # f
    <3>1. \A c \in Browsers : Holds(c, g)' => Holds(c, g)
      BY <1>8, <2>3
    <3>2. /\ \A b1, b2 \in Browsers : Holds(b1, g) /\ Holds(b2, g) => b1 = b2
          /\ \A q \in Requests : Answering(q, g) => FirstAnswer(q, g)
      BY DEF ReuseInv, OneBrowser
    <3> QED
      BY <1>1, <2>1, <3>1, <3>2 DEF FirstAnswer
  <2> QED
    BY <2>2, <2>3
<1> QED
  BY <1>1, <1>6, <1>7, <1>9, ReuseFrame DEF LastHeld

LEMMA ReuseInit == AccountsInit => ReuseInv
<1> SUFFICES ASSUME AccountsInit PROVE ReuseInv
  OBVIOUS
<1>1. /\ rows = [f \in Families |-> <<>>] /\ jar = [b \in Browsers |-> None]
      /\ refresh = [t \in Tabs |-> NoRefresh] /\ revoke = [c \in Calls |-> NoRevoke]
      /\ req = [r \in Requests |-> NoRequest]
  BY DEF AccountsInit, Init
<1>2. /\ \A b \in Browsers : jar[b] = None
      /\ \A t \in Tabs : refresh[t].token = None
      /\ \A c \in Calls : revoke[c].why = "LOGOUT"
      /\ \A r \in Requests : req[r].pc = "idle"
      /\ \A f \in Families : DOMAIN rows[f] = {}
  BY <1>1 DEF NoRefresh, NoRevoke, NoRequest
<1>3. LastHeld
  BY <1>2 DEF LastHeld, JarLast, TokenLast
<1>4. OneBrowser
  BY <1>2 DEF OneBrowser, Holds, Carries, Answering
<1>5. ReuseOfLost /\ ReuseMeansLost
  BY <1>2 DEF ReuseOfLost, OfLost, ReuseMeansLost
<1> QED
  BY <1>3, <1>4, <1>5 DEF ReuseInv

LEMMA ReuseStep == LifeInv /\ ReuseInv /\ AccountsNext => ReuseInv'
<1> SUFFICES ASSUME LifeInv, ReuseInv, AccountsNext PROVE ReuseInv'
  OBVIOUS
<1>1. ASSUME NEW t \in Tabs, TabActs(t), UNCHANGED account PROVE ReuseInv'
  BY <1>1, RefreshWaits, RefreshSendReuse, RotateReadReuse, RefreshDeliverReuse, RefreshLostReuse,
     LeaveReuse DEF TabActs
<1>2. ASSUME NEW c \in Calls, RevokeActs(c) \/ RevokeMark(c), UNCHANGED account PROVE ReuseInv'
  BY <1>2, RevokeReuse DEF RevokeActs
<1> QED
  BY <1>1, <1>2, NextCases, RequestElsewhere, RotateReuse, RevokeWriteReuse, RowsAgeReuse,
     RequestReuse, LoginCreateReuse, LoginAnswerReuse

\* Browsers that refresh under the lock never trip over each other: a session
\* is ended for reuse of a token only after an answer to a rotation was lost.
THEOREM ReuseNeedsLoss == AccountsSpec => []ReuseMeansLost
<1>1. ReuseInv /\ UNCHANGED allVars => ReuseInv'
  BY DEF ReuseInv, LastHeld, JarLast, OnItsWay, Exchanged, TokenLast, OneBrowser, Holds, Carries,
         Answering, FirstAnswer, ReuseOfLost, OfLost, ReuseMeansLost,
         allVars, vars, account, server, browser, history
<1>2. ReuseInv => ReuseMeansLost
  BY DEF ReuseInv
<1> QED
  BY <1>1, <1>2, SessionsTyped, ReuseInit, ReuseStep, PTL DEF AccountsSpec

-----------------------------------------------------------------------------
(* A revocation closes the sockets of its sessions.                        *)

\* A request waits for the revocation it began.
Waiting ==
    /\ \A t \in Tabs : /\ revoke[<<t, "refresh">>].pc # "idle" => refresh[t].pc = "revoking"
                       /\ revoke[<<t, "leave">>].pc # "idle" => leave[t].pc = "revoking"
    /\ \A r \in Requests : revoke[r].pc # "idle" => req[r].pc = "revoking"

\* What is revoked was there, and of it nothing is good any more, unless a rotation
\* ran into the revocation.
Revoking ==
    /\ \A c \in Calls : /\ \A f \in revoke[c].of : rows[f] # <<>>
                        /\ revoke[c].pc \in {"idle", "find", "done"} => revoke[c].of = {}
                        /\ revoke[c].pc \in {"mark", "tell"} => revoke[c].of \subseteq revoked
                        /\ revoke[c].pc = "write" =>
                             \A f \in revoke[c].of \ overlapped : \A n \in DOMAIN rows[f] :
                                rows[f][n].st = "live" => <<f, n>> \in revoke[c].seen
    /\ \A f \in revoked : rows[f] # <<>>
    /\ \A f \in revoked \ overlapped : \A n \in DOMAIN rows[f] : rows[f][n].st # "live"

\* Access tokens of a session, in tabs or on their way, last no longer than m.
Lasts(f, m) ==
    /\ \A t \in Tabs : /\ tab[t].access.session = f => tab[t].access.left <= m
                       /\ Exchanged(t) /\ refresh[t].token[1] = f => refresh[t].left <= m
    /\ \A r \in Requests : Answering(r, f) => req[r].left <= m

\* The marker of a revoked session outlives them.
Outlived ==
    /\ \A f \in Families : Lasts(f, AccessTtl)
    /\ \A c \in Calls : \A f \in revoke[c].of \ overlapped :
          revoke[c].pc = "tell" => Lasts(f, marker[f])
    /\ \A f \in revoked \ overlapped : ~Unfinished(f) => Lasts(f, marker[f])

\* No socket of a session that is revoked slips through.
Overtaken ==
    \A f \in revoked \ overlapped : ~Unfinished(f) =>
        \A t \in Tabs : sock[t].session = f /\ sock[t].st \in {"checked", "up"} => sock[t].overtaken

HasSession ==
    \A t \in Tabs : tab[t].access.left > 0 => tab[t].access.session \in Families

RevokeInv == revoked \subseteq Families /\ Waiting /\ Revoking /\ Outlived /\ Overtaken /\ HasSession

\* A call does nothing to its sessions, or has just begun or ended.
Early == {"idle", "find", "scan", "done"}
CallQuiet(c) ==
    \/ /\ revoke'[c].pc = revoke[c].pc /\ revoke'[c].of = revoke[c].of
       /\ revoke'[c].seen = revoke[c].seen
    \/ /\ revoke[c].pc \in Early /\ revoke'[c].pc \in Early \cup {"write"}
       /\ revoke'[c].pc \in {"idle", "find", "done"} => revoke'[c].of = {}
       /\ \A f \in revoke'[c].of : rows'[f] # <<>>
       /\ revoke'[c].pc = "write" => \A f \in revoke'[c].of : \A n \in DOMAIN rows'[f] :
             rows'[f][n].st = "live" => <<f, n>> \in revoke'[c].seen
CallsQuiet == \A c \in Calls : CallQuiet(c)

\* No session gets a good token that is being revoked or has been.
Fresh(f) ==
    /\ f \in revoked => f \in overlapped'
    /\ \A c \in Calls : revoke[c].pc \in {"write", "tell"} /\ f \in revoke[c].of => f \in overlapped'
RowsQuiet ==
    \A f \in Families :
        /\ rows[f] # <<>> => rows'[f] # <<>>
        /\ \/ Fresh(f)
           \/ \A n \in DOMAIN rows'[f] : rows'[f][n].st = "live" =>
                 n \in DOMAIN rows[f] /\ rows[f][n].st = "live"

LEMMA RevokingKept ==
    ASSUME LifeInv, RevokeInv, RowsQuiet, CallsQuiet, UNCHANGED revoked,
           overlapped \subseteq overlapped'
    PROVE  Revoking'
<1>1. \A c \in Calls : revoke[c].of \subseteq Families
  BY DEF LifeInv, SessionTypes, CallTypes, RevokeType
<1>2. revoked \subseteq Families
  BY DEF RevokeInv
<1>3. ASSUME NEW c \in Calls
      PROVE  /\ \A f \in revoke'[c].of : rows'[f] # <<>>
             /\ revoke'[c].pc \in {"idle", "find", "done"} => revoke'[c].of = {}
             /\ revoke'[c].pc \in {"mark", "tell"} => revoke'[c].of \subseteq revoked'
             /\ revoke'[c].pc = "write" =>
                  \A f \in revoke'[c].of \ overlapped' : \A n \in DOMAIN rows'[f] :
                     rows'[f][n].st = "live" => <<f, n>> \in revoke'[c].seen
  <2>1. CASE /\ revoke'[c].pc = revoke[c].pc /\ revoke'[c].of = revoke[c].of
             /\ revoke'[c].seen = revoke[c].seen
    <3>1. \A f \in revoke'[c].of : rows'[f] # <<>>
      BY <1>1, <2>1 DEF RevokeInv, Revoking, RowsQuiet
    <3>2. /\ revoke'[c].pc \in {"idle", "find", "done"} => revoke'[c].of = {}
          /\ revoke'[c].pc \in {"mark", "tell"} => revoke'[c].of \subseteq revoked'
      BY <2>1 DEF RevokeInv, Revoking
    <3>3. ASSUME revoke'[c].pc = "write", NEW f \in revoke'[c].of \ overlapped',
                 NEW n \in DOMAIN rows'[f], rows'[f][n].st = "live"
          PROVE  <<f, n>> \in revoke'[c].seen
      <4>1. f \in Families /\ f \in revoke[c].of \ overlapped /\ revoke[c].pc = "write"
        BY <1>1, <2>1, <3>3
      <4>2. ~Fresh(f)
        BY <3>3, <4>1 DEF Fresh
      <4>3. n \in DOMAIN rows[f] /\ rows[f][n].st = "live"
        BY <3>3, <4>1, <4>2 DEF RowsQuiet
      <4> QED
        BY <2>1, <4>1, <4>3 DEF RevokeInv, Revoking
    <3> QED
      BY <3>1, <3>2, <3>3
  <2>2. CASE /\ revoke[c].pc \in Early /\ revoke'[c].pc \in Early \cup {"write"}
             /\ revoke'[c].pc \in {"idle", "find", "done"} => revoke'[c].of = {}
             /\ \A f \in revoke'[c].of : rows'[f] # <<>>
             /\ revoke'[c].pc = "write" => \A f \in revoke'[c].of : \A n \in DOMAIN rows'[f] :
                   rows'[f][n].st = "live" => <<f, n>> \in revoke'[c].seen
    BY <2>2 DEF Early
  <2> QED
    BY <2>1, <2>2 DEF CallsQuiet, CallQuiet
<1>4. \A f \in revoked' : rows'[f] # <<>>
  BY <1>2 DEF RevokeInv, Revoking, RowsQuiet
<1>5. ASSUME NEW f \in revoked' \ overlapped', NEW n \in DOMAIN rows'[f] PROVE rows'[f][n].st # "live"
  <2>1. f \in Families /\ f \in revoked \ overlapped /\ ~Fresh(f)
    BY <1>2, <1>5 DEF Fresh
  <2> QED
    BY <1>5, <2>1 DEF RowsQuiet, RevokeInv, Revoking
<1> QED
  BY <1>3, <1>4, <1>5 DEF Revoking

\* A session being revoked stays so.
LEMMA StillUnfinished ==
    ASSUME CallsQuiet, NEW f
    PROVE  Unfinished(f) => Unfinished(f)'
BY DEF CallsQuiet, CallQuiet, Early, Unfinished

\* Access tokens last no longer than they did, or belong to a session that is
\* not revoked.
NoLonger(f) == \A m \in Nat : Lasts(f, m) => Lasts(f, m)'
AccessQuiet == \A f \in Families : NoLonger(f) \/ (Lasts(f, AccessTtl)' /\ Fresh(f))

LEMMA OutlivedKept ==
    ASSUME LifeInv, RevokeInv, AccessQuiet, CallsQuiet, UNCHANGED <<revoked, marker>>,
           overlapped \subseteq overlapped'
    PROVE  Outlived'
<1>1. AccessTtl \in Nat /\ \A f \in Families : marker[f] \in Nat
  BY SessionsAssumption DEF LifeInv, SessionTypes, ServerTypes
<1>2. ASSUME NEW f \in Families PROVE Lasts(f, AccessTtl)'
  BY <1>1 DEF AccessQuiet, NoLonger, RevokeInv, Outlived
<1>3. ASSUME NEW f \in Families, ~Fresh(f), Lasts(f, marker[f]) PROVE Lasts(f, marker[f])'
  <2>1. PICK m \in Nat : m = marker[f]
    BY <1>1
  <2>2. marker'[f] = m
    BY <2>1
  <2>3. Lasts(f, m)'
    BY <1>3, <2>1 DEF AccessQuiet, NoLonger
  <2> QED
    BY <2>2, <2>3
<1>4. ASSUME NEW c \in Calls, NEW f \in revoke'[c].of \ overlapped', revoke'[c].pc = "tell"
      PROVE  Lasts(f, marker[f])'
  <2>1. revoke[c].pc = "tell" /\ f \in revoke[c].of
    BY <1>4 DEF CallsQuiet, CallQuiet, Early
  <2>2. f \in Families /\ ~Fresh(f)
    BY <1>4, <2>1 DEF Fresh, LifeInv, SessionTypes, CallTypes, RevokeType
  <2>3. Lasts(f, marker[f])
    BY <1>4, <2>1 DEF RevokeInv, Outlived
  <2> QED
    BY <1>3, <2>2, <2>3
<1>5. ASSUME NEW f \in revoked' \ overlapped', ~Unfinished(f)' PROVE Lasts(f, marker[f])'
  <2>1. f \in Families /\ f \in revoked \ overlapped /\ ~Fresh(f) /\ ~Unfinished(f)
    BY <1>5, StillUnfinished DEF Fresh, RevokeInv
  <2>2. Lasts(f, marker[f])
    BY <2>1 DEF RevokeInv, Outlived
  <2> QED
    BY <1>3, <2>1, <2>2
<1> QED
  BY <1>2, <1>4, <1>5 DEF Outlived

\* A socket is as it was, or gone, or was let in while its session was good.
SocketQuiet(t) ==
    \/ sock'[t].st \notin {"checked", "up"}
    \/ /\ sock[t].st \in {"checked", "up"} /\ sock'[t].session = sock[t].session
       /\ sock'[t].overtaken = sock[t].overtaken
    \/ sock'[t].session \in revoked \ overlapped => Unfinished(sock'[t].session)

LEMMA OvertakenKept ==
    ASSUME RevokeInv, CallsQuiet, UNCHANGED revoked, overlapped \subseteq overlapped',
           \A t \in Tabs : SocketQuiet(t)
    PROVE  Overtaken'
<1> SUFFICES ASSUME NEW f \in revoked' \ overlapped', ~Unfinished(f)',
                    NEW t \in Tabs, sock'[t].session = f, sock'[t].st \in {"checked", "up"}
             PROVE  sock'[t].overtaken
  BY DEF Overtaken
<1>1. f \in revoked \ overlapped /\ ~Unfinished(f)
  BY StillUnfinished
<1>2. /\ sock[t].st \in {"checked", "up"} /\ sock'[t].session = sock[t].session
      /\ sock'[t].overtaken = sock[t].overtaken
  BY <1>1 DEF SocketQuiet
<1> QED
  BY <1>1, <1>2 DEF RevokeInv, Overtaken

\* Where the access token of a tab comes from.
AccessFrom(t) ==
    \/ tab'[t].access = tab[t].access
    \/ tab'[t].access = NoAccess
    \/ /\ Exchanged(t) /\ refresh[t].token[1] \in Families
       /\ tab'[t].access = [session |-> refresh[t].token[1], left |-> refresh[t].left]
    \/ \E r \in Requests, f \in Families :
          Answering(r, f) /\ tab'[t].access = [session |-> f, left |-> req[r].left]
OnTheirWay ==
    /\ \A t \in Tabs : Exchanged(t)' => /\ Exchanged(t) /\ refresh'[t].token = refresh[t].token
                                        /\ refresh'[t].left = refresh[t].left
    /\ \A r \in Requests : req'[r].pc = "answer" => req'[r] = req[r]

LEMMA AccessKept ==
    ASSUME RevokeInv, \A t \in Tabs : AccessFrom(t), OnTheirWay
    PROVE  HasSession' /\ AccessQuiet
<1>1. ASSUME NEW t \in Tabs, tab'[t].access.left > 0 PROVE tab'[t].access.session \in Families
  <2>1. CASE tab'[t].access = tab[t].access
    BY <1>1, <2>1 DEF RevokeInv, HasSession
  <2>2. CASE tab'[t].access = NoAccess
    BY <1>1, <2>2 DEF NoAccess
  <2>3. CASE /\ Exchanged(t) /\ refresh[t].token[1] \in Families
             /\ tab'[t].access = [session |-> refresh[t].token[1], left |-> refresh[t].left]
    BY <2>3
  <2>4. CASE \E r \in Requests, g \in Families :
                Answering(r, g) /\ tab'[t].access = [session |-> g, left |-> req[r].left]
    BY <2>4
  <2> QED
    BY <2>1, <2>2, <2>3, <2>4 DEF AccessFrom
<1>2. ASSUME NEW f \in Families, NEW m \in Nat, Lasts(f, m) PROVE Lasts(f, m)'
  <2>1. ASSUME NEW t \in Tabs, tab'[t].access.session = f PROVE tab'[t].access.left <= m
    <3>1. CASE tab'[t].access = tab[t].access
      BY <1>2, <2>1, <3>1 DEF Lasts
    <3>2. CASE tab'[t].access = NoAccess
      BY <3>2 DEF NoAccess
    <3>3. CASE /\ Exchanged(t) /\ refresh[t].token[1] \in Families
               /\ tab'[t].access = [session |-> refresh[t].token[1], left |-> refresh[t].left]
      BY <1>2, <2>1, <3>3 DEF Lasts
    <3>4. CASE \E r \in Requests, g \in Families :
                  Answering(r, g) /\ tab'[t].access = [session |-> g, left |-> req[r].left]
      BY <1>2, <2>1, <3>4 DEF Lasts
    <3> QED
      BY <3>1, <3>2, <3>3, <3>4 DEF AccessFrom
  <2>2. \A t \in Tabs : Exchanged(t)' /\ refresh'[t].token[1] = f => refresh'[t].left <= m
    BY <1>2 DEF OnTheirWay, Lasts
  <2>3. \A r \in Requests : Answering(r, f)' => req'[r].left <= m
    BY <1>2 DEF OnTheirWay, Lasts, Answering
  <2> QED
    BY <2>1, <2>2, <2>3 DEF Lasts
<1> QED
  BY <1>1, <1>2 DEF HasSession, AccessQuiet, NoLonger

\* The three together.
LEMMA RevokeFrame ==
    ASSUME LifeInv, RevokeInv, UNCHANGED <<rows, marker, revoked, overlapped>>, CallsQuiet,
           \A t \in Tabs : AccessFrom(t), OnTheirWay, \A t \in Tabs : SocketQuiet(t), Waiting'
    PROVE  RevokeInv'
<1>1. RowsQuiet
  BY DEF RowsQuiet
<1>2. Revoking'
  BY <1>1, RevokingKept
<1>3. HasSession' /\ AccessQuiet
  BY AccessKept
<1>4. Outlived'
  BY <1>3, OutlivedKept
<1>5. Overtaken'
  BY OvertakenKept
<1> QED
  BY <1>2, <1>3, <1>4, <1>5 DEF RevokeInv

\* Nothing but the call of one request changes, and its request waits for it.
LEMMA CallOf == \A t \in Tabs : <<t, "refresh">> \in Calls /\ <<t, "leave">> \in Calls
BY DEF Calls

LEMMA CallsApart ==
    /\ \A t, u \in Tabs : <<t, "refresh">> # <<u, "leave">>
    /\ \A t, u \in Tabs : t # u => <<t, "refresh">> # <<u, "refresh">> /\ <<t, "leave">> # <<u, "leave">>
    /\ \A r \in Requests, t \in Tabs : r # <<t, "refresh">> /\ r # <<t, "leave">>
<1>1. \A t \in Tabs : <<t, "refresh">> \in Tabs \X {"refresh", "leave"}
                      /\ <<t, "leave">> \in Tabs \X {"refresh", "leave"}
  OBVIOUS
<1>2. \A r \in Requests, t \in Tabs : r # <<t, "refresh">> /\ r # <<t, "leave">>
  BY <1>1, SessionsAssumption
<1> QED
  BY <1>2

\* A refresh that is not revoking has no revocation of its own.
LEMMA Idle ==
    ASSUME LifeInv, RevokeInv, NEW t \in Tabs
    PROVE  /\ refresh[t].pc # "revoking" =>
                revoke[<<t, "refresh">>].pc = "idle" /\ revoke[<<t, "refresh">>].of = {}
           /\ leave[t].pc # "revoking" =>
                revoke[<<t, "leave">>].pc = "idle" /\ revoke[<<t, "leave">>].of = {}
BY CallOf DEF RevokeInv, Waiting, Revoking

\* Who waits for what, when only the refresh of a tab changes.
LEMMA WaitingRefresh ==
    ASSUME RevokeInv, NEW t \in Tabs, UNCHANGED leave,
           \A r \in Requests : req'[r] = req[r],
           \A u \in Tabs \ {t} : refresh'[u] = refresh[u],
           \A c \in Calls \ {<<t, "refresh">>} : revoke'[c] = revoke[c],
           revoke'[<<t, "refresh">>].pc # "idle" => refresh'[t].pc = "revoking"
    PROVE  Waiting'
<1>1. \A u \in Tabs : /\ revoke'[<<u, "refresh">>].pc # "idle" => refresh'[u].pc = "revoking"
                      /\ revoke'[<<u, "leave">>].pc # "idle" => leave'[u].pc = "revoking"
  BY CallOf, CallsApart DEF RevokeInv, Waiting
<1>2. \A r \in Requests : revoke'[r].pc # "idle" => req'[r].pc = "revoking"
  BY CallsApart DEF RevokeInv, Waiting, Calls
<1> QED
  BY <1>1, <1>2 DEF Waiting

LEMMA WaitingLeave ==
    ASSUME RevokeInv, NEW t \in Tabs, UNCHANGED refresh,
           \A r \in Requests : req'[r] = req[r],
           \A u \in Tabs \ {t} : leave'[u] = leave[u],
           \A c \in Calls \ {<<t, "leave">>} : revoke'[c] = revoke[c],
           revoke'[<<t, "leave">>].pc # "idle" => leave'[t].pc = "revoking"
    PROVE  Waiting'
<1>1. \A u \in Tabs : /\ revoke'[<<u, "refresh">>].pc # "idle" => refresh'[u].pc = "revoking"
                      /\ revoke'[<<u, "leave">>].pc # "idle" => leave'[u].pc = "revoking"
  BY CallOf, CallsApart DEF RevokeInv, Waiting
<1>2. \A r \in Requests : revoke'[r].pc # "idle" => req'[r].pc = "revoking"
  BY CallsApart DEF RevokeInv, Waiting, Calls
<1> QED
  BY <1>1, <1>2 DEF Waiting

LEMMA WaitingRequest ==
    ASSUME RevokeInv, NEW r \in Requests, UNCHANGED <<refresh, leave>>,
           \A q \in Requests \ {r} : req'[q] = req[q],
           \A c \in Calls \ {r} : revoke'[c] = revoke[c],
           revoke'[r].pc # "idle" => req'[r].pc = "revoking"
    PROVE  Waiting'
<1>1. \A u \in Tabs : /\ revoke'[<<u, "refresh">>].pc # "idle" => refresh'[u].pc = "revoking"
                      /\ revoke'[<<u, "leave">>].pc # "idle" => leave'[u].pc = "revoking"
  BY CallOf, CallsApart DEF RevokeInv, Waiting
<1>2. \A q \in Requests : revoke'[q].pc # "idle" => req'[q].pc = "revoking"
  BY DEF RevokeInv, Waiting, Calls
<1> QED
  BY <1>1, <1>2 DEF Waiting

\* The revocation goes on while its request waits.
LEMMA WaitingCall ==
    ASSUME RevokeInv, NEW c \in Calls, UNCHANGED <<refresh, leave>>,
           \A r \in Requests : req'[r] = req[r],
           \A d \in Calls \ {c} : revoke'[d] = revoke[d], revoke[c].pc # "idle"
    PROVE  Waiting'
<1>1. \A u \in Tabs : /\ revoke'[<<u, "refresh">>].pc # "idle" => refresh'[u].pc = "revoking"
                      /\ revoke'[<<u, "leave">>].pc # "idle" => leave'[u].pc = "revoking"
  BY CallOf DEF RevokeInv, Waiting
<1>2. \A q \in Requests : revoke'[q].pc # "idle" => req'[q].pc = "revoking"
  BY DEF RevokeInv, Waiting, Calls
<1> QED
  BY <1>1, <1>2 DEF Waiting

SocketsGo == \A t \in Tabs : sock'[t] = sock[t] \/ sock'[t].st \notin {"checked", "up"}
LEMMA SocketsGone == SocketsGo => \A t \in Tabs : SocketQuiet(t)
BY DEF SocketsGo, SocketQuiet

LEMMA RefreshStepRevoke ==
    ASSUME LifeInv, RevokeInv, NEW t \in Tabs, UNCHANGED account,
           RefreshStart(t) \/ RefreshSend(t) \/ ReuseRevoked(t)
    PROVE  RevokeInv'
<1>1. /\ UNCHANGED <<rows, marker, revoked, overlapped, tab, sock, leave>>
      /\ \A r \in Requests : req'[r] = req[r]
  BY DEF RefreshStart, RefreshSend, ReuseRevoked, server, browser, history, account
<1>2. /\ \A u \in Tabs \ {t} : refresh'[u] = refresh[u]
      /\ ~Exchanged(t)' /\ ~Exchanged(t)
  <2>1. ASSUME RefreshStart(t)
        PROVE  /\ \A u \in Tabs \ {t} : refresh'[u] = refresh[u]
               /\ ~Exchanged(t)' /\ ~Exchanged(t)
    BY <2>1 DEF RefreshStart, NoRefresh, Exchanged, LifeInv, SessionTypes, CallTypes, RefreshType
  <2>2. ASSUME RefreshSend(t)
        PROVE  /\ \A u \in Tabs \ {t} : refresh'[u] = refresh[u]
               /\ ~Exchanged(t)' /\ ~Exchanged(t)
    <3>1. Send(t, 0) /\ refresh[t].pc = "wait"
      BY <2>2 DEF RefreshSend
    <3> QED
      BY <3>1, SendType DEF Exchanged, LifeInv, SessionTypes
  <2>3. ASSUME ReuseRevoked(t)
        PROVE  /\ \A u \in Tabs \ {t} : refresh'[u] = refresh[u]
               /\ ~Exchanged(t)' /\ ~Exchanged(t)
    <3>1. Answer(t, "reuse") /\ refresh[t].pc = "revoking"
      BY <2>3 DEF ReuseRevoked
    <3> QED
      BY <3>1, AnswerType DEF Exchanged, LifeInv, SessionTypes, Replies
  <2> QED
    BY <2>1, <2>2, <2>3
<1>3. /\ \A c \in Calls \ {<<t, "refresh">>} : revoke'[c] = revoke[c]
      /\ CallQuiet(<<t, "refresh">>)
      /\ revoke'[<<t, "refresh">>].pc # "idle" => refresh'[t].pc = "revoking"
  <2>1. ASSUME RefreshStart(t) \/ RefreshSend(t)
        PROVE  /\ \A c \in Calls \ {<<t, "refresh">>} : revoke'[c] = revoke[c]
               /\ CallQuiet(<<t, "refresh">>)
               /\ revoke'[<<t, "refresh">>].pc # "idle" => refresh'[t].pc = "revoking"
    <3>1. UNCHANGED revoke /\ refresh[t].pc # "revoking"
      BY <2>1 DEF RefreshStart, RefreshSend, NoRefresh
    <3> QED
      BY <3>1, Idle DEF CallQuiet
  <2>2. ASSUME ReuseRevoked(t)
        PROVE  /\ \A c \in Calls \ {<<t, "refresh">>} : revoke'[c] = revoke[c]
               /\ CallQuiet(<<t, "refresh">>)
               /\ revoke'[<<t, "refresh">>].pc # "idle" => refresh'[t].pc = "revoking"
    <3> DEFINE c == <<t, "refresh">>
    <3>1. revoke' = [revoke EXCEPT ![c] = NoRevoke] /\ revoke[c].pc = "done"
      BY <2>2 DEF ReuseRevoked
    <3>2. c \in Calls /\ revoke \in [Calls -> RevokeType]
      BY CallOf DEF LifeInv, SessionTypes, CallTypes
    <3> HIDE DEF c
    <3>3. revoke'[c] = NoRevoke /\ \A d \in Calls \ {c} : revoke'[d] = revoke[d]
      BY <3>1, <3>2
    <3>4. CallQuiet(c) /\ revoke'[c].pc = "idle"
      BY <3>1, <3>3 DEF CallQuiet, Early, NoRevoke
    <3> QED
      BY <3>3, <3>4 DEF c
  <2> QED
    BY <2>1, <2>2
<1>4. CallsQuiet
  BY <1>3 DEF CallsQuiet, CallQuiet
<1>5. Waiting'
  BY <1>1, <1>2, <1>3, WaitingRefresh
<1>6. (\A u \in Tabs : AccessFrom(u)) /\ OnTheirWay
  BY <1>1, <1>2 DEF AccessFrom, OnTheirWay, Exchanged
<1>7. \A u \in Tabs : SocketQuiet(u)
  BY <1>1, SocketsGone DEF SocketsGo
<1> QED
  BY <1>1, <1>4, <1>5, <1>6, <1>7, RevokeFrame

LEMMA RotateReadRevoke ==
    ASSUME LifeInv, RevokeInv, NEW t \in Tabs, UNCHANGED account, RotateRead(t)
    PROVE  RevokeInv'
<1> DEFINE c == <<t, "refresh">>
<1>1. /\ UNCHANGED <<rows, marker, revoked, overlapped, tab, sock, leave>>
      /\ \A r \in Requests : req'[r] = req[r]
      /\ refresh[t].pc = "sent"
  BY DEF RotateRead, server, browser, history, account
<1>2. /\ \A u \in Tabs \ {t} : refresh'[u] = refresh[u]
      /\ ~Exchanged(t)' /\ ~Exchanged(t)
  BY <1>1, RotateReadLife DEF Exchanged
<1>3. revoke[c].pc = "idle" /\ revoke[c].of = {}
  BY <1>1, Idle
<1>4. \/ UNCHANGED revoke
      \/ /\ refresh'[t].pc = "revoking" /\ refresh[t].token # None
         /\ revoke'[c].pc = "scan" /\ revoke'[c].of = {refresh[t].token[1]}
         /\ \A d \in Calls \ {c} : revoke'[d] = revoke[d]
  BY RotateReadLife
<1>5. refresh[t].token # None => rows[refresh[t].token[1]] # <<>>
  BY DEF LifeInv, AllIssued, RefreshIssued, TokenIssued, Issued
<1>6. CallQuiet(c)
  BY <1>1, <1>3, <1>4, <1>5 DEF CallQuiet, Early
<1>7. CallsQuiet
  BY <1>4, <1>6 DEF CallsQuiet, CallQuiet
<1>8. Waiting'
  <2>1. revoke'[c].pc # "idle" => refresh'[t].pc = "revoking"
    BY <1>3, <1>4
  <2>2. \A d \in Calls \ {c} : revoke'[d] = revoke[d]
    BY <1>4
  <2> QED
    BY <1>1, <1>2, <2>1, <2>2, WaitingRefresh
<1>9. (\A u \in Tabs : AccessFrom(u)) /\ OnTheirWay
  BY <1>1, <1>2 DEF AccessFrom, OnTheirWay, Exchanged
<1>10. \A u \in Tabs : SocketQuiet(u)
  BY <1>1, SocketsGone DEF SocketsGo
<1> QED
  BY <1>1, <1>7, <1>8, <1>9, <1>10, RevokeFrame

LEMMA RefreshOverRevoke ==
    ASSUME LifeInv, RevokeInv, NEW t \in Tabs, UNCHANGED account,
           RefreshDeliver(t) \/ RefreshLost(t)
    PROVE  RevokeInv'
<1>1. /\ UNCHANGED <<rows, marker, revoked, overlapped, leave, revoke>>
      /\ \A r \in Requests : req'[r] = req[r]
      /\ refresh[t].pc \in {"sent", "reply"}
  BY DEF RefreshDeliver, RefreshLost, server, history, account
<1>2. /\ \A u \in Tabs \ {t} : refresh'[u] = refresh[u] /\ tab'[u] = tab[u] /\ sock'[u] = sock[u]
      /\ ~Exchanged(t)'
  <2>1. ASSUME RefreshLost(t)
        PROVE  /\ \A u \in Tabs \ {t} : refresh'[u] = refresh[u] /\ tab'[u] = tab[u] /\ sock'[u] = sock[u]
               /\ refresh'[t].pc = "idle"
    BY <2>1, RefreshLostLife DEF NoRefresh
  <2> QED
    BY <2>1, RefreshDeliverLife DEF Exchanged
<1>3. SocketsGo /\ AccessFrom(t)
  <2>1. ASSUME RefreshDeliver(t) PROVE (sock'[t] = sock[t] \/ sock'[t] = NoSocket) /\ AccessFrom(t)
    BY <2>1, RefreshDeliverLife DEF AccessFrom
  <2>2. ASSUME RefreshLost(t) PROVE (sock'[t] = sock[t] \/ sock'[t] = NoSocket) /\ AccessFrom(t)
    BY <2>2, RefreshLostLife DEF AccessFrom
  <2> QED
    BY <1>2, <2>1, <2>2 DEF SocketsGo, NoSocket
<1>4. CallsQuiet
  BY <1>1 DEF CallsQuiet, CallQuiet
<1>5. Waiting'
  <2>1. revoke[<<t, "refresh">>].pc = "idle"
    BY <1>1, Idle
  <2> QED
    BY <1>1, <1>2, <2>1, WaitingRefresh
<1>6. (\A u \in Tabs : AccessFrom(u)) /\ OnTheirWay
  BY <1>1, <1>2, <1>3 DEF AccessFrom, OnTheirWay, Exchanged
<1>7. \A u \in Tabs : SocketQuiet(u)
  BY <1>3, SocketsGone
<1> QED
  BY <1>1, <1>4, <1>5, <1>6, <1>7, RevokeFrame

\* The call of a logout, or the socket of a tab.
LEMMA LeaveReadRevoke ==
    ASSUME LifeInv, RevokeInv, NEW t \in Tabs, UNCHANGED account, LeaveRead(t)
    PROVE  RevokeInv'
<1> DEFINE c == <<t, "leave">>
<1>1. /\ UNCHANGED <<rows, marker, revoked, overlapped, tab, sock, refresh>>
      /\ \A r \in Requests : req'[r] = req[r]
      /\ leave[t].pc \in {"sent", "resent"}
  BY DEF LeaveRead, server, browser, history, account
<1>2. revoke[c].pc = "idle" /\ revoke[c].of = {}
  BY <1>1, Idle
<1>3. leave[t].token # None => rows[leave[t].token[1]] # <<>>
  BY DEF LifeInv, AllIssued, LeaveIssued, Issued
<1>4. \A u \in Tabs \ {t} : leave'[u] = leave[u]
  BY LeaveReadLife
<1>5. \/ UNCHANGED revoke
      \/ /\ leave'[t].pc = "revoking"
         /\ revoke'[c].pc \in {"find", "scan"}
         /\ revoke'[c].pc = "find" => revoke'[c].of = {}
         /\ \A f \in revoke'[c].of : rows'[f] # <<>>
         /\ \A d \in Calls \ {c} : revoke'[d] = revoke[d]
  <2>1. \/ UNCHANGED revoke
        \/ /\ leave'[t].pc = "revoking"
           /\ revoke'[c].pc \in {"find", "scan"}
           /\ revoke'[c].pc = "find" => revoke'[c].of = {}
           /\ \/ revoke'[c].of = {}
              \/ leave[t].token # None /\ revoke'[c].of = {leave[t].token[1]}
           /\ \A d \in Calls \ {c} : revoke'[d] = revoke[d]
    BY LeaveReadLife
  <2> HIDE DEF c
  <2> QED
    BY <1>1, <1>3, <2>1
<1> HIDE DEF c
<1>6. CallQuiet(c)
  BY <1>2, <1>5 DEF CallQuiet, Early
<1>7. CallsQuiet
  BY <1>5, <1>6 DEF CallsQuiet, CallQuiet
<1>8. Waiting'
  <2>1. revoke'[c].pc # "idle" => leave'[t].pc = "revoking"
    BY <1>2, <1>5
  <2>2. \A d \in Calls \ {c} : revoke'[d] = revoke[d]
    BY <1>5
  <2> QED
    BY <1>1, <1>4, <2>1, <2>2, WaitingLeave DEF c
<1>9. (\A u \in Tabs : AccessFrom(u)) /\ OnTheirWay
  BY <1>1 DEF AccessFrom, OnTheirWay, Exchanged
<1>10. \A u \in Tabs : SocketQuiet(u)
  BY <1>1, SocketsGone DEF SocketsGo
<1> QED
  BY <1>1, <1>7, <1>8, <1>9, <1>10, RevokeFrame

LEMMA LeaveRevokedRevoke ==
    ASSUME LifeInv, RevokeInv, NEW t \in Tabs, UNCHANGED account, LeaveRevoked(t)
    PROVE  RevokeInv'
<1> DEFINE c == <<t, "leave">>
<1>1. /\ UNCHANGED <<rows, marker, revoked, overlapped, tab, sock, refresh>>
      /\ \A r \in Requests : req'[r] = req[r]
  BY DEF LeaveRevoked, server, browser, history, account
<1>2. /\ revoke[c].pc = "done" /\ revoke'[c] = NoRevoke
      /\ \A d \in Calls \ {c} : revoke'[d] = revoke[d]
      /\ \A u \in Tabs \ {t} : leave'[u] = leave[u]
  BY LeaveRevokedLife
<1> HIDE DEF c
<1>3. CallQuiet(c) /\ revoke'[c].pc = "idle"
  BY <1>2 DEF CallQuiet, Early, NoRevoke
<1>4. CallsQuiet
  BY <1>2, <1>3 DEF CallsQuiet, CallQuiet
<1>5. Waiting'
  BY <1>1, <1>2, <1>3, WaitingLeave DEF c
<1>6. (\A u \in Tabs : AccessFrom(u)) /\ OnTheirWay
  BY <1>1 DEF AccessFrom, OnTheirWay, Exchanged
<1>7. \A u \in Tabs : SocketQuiet(u)
  BY <1>1, SocketsGone DEF SocketsGo
<1> QED
  BY <1>1, <1>4, <1>5, <1>6, <1>7, RevokeFrame

\* Steps of a tab in which no revocation takes part.
Alone(t) ==
    /\ UNCHANGED <<rows, marker, revoked, overlapped, refresh, revoke>>
    /\ \A r \in Requests : req'[r] = req[r]
    /\ \A u \in Tabs \ {t} : leave'[u] = leave[u] /\ tab'[u].access = tab[u].access
                             /\ sock'[u] = sock[u]
    /\ tab'[t].access = tab[t].access \/ tab'[t].access = NoAccess
    /\ leave'[t] = leave[t] \/ leave[t].pc # "revoking"

LEMMA AloneRevoke ==
    ASSUME LifeInv, RevokeInv, NEW t \in Tabs, Alone(t), SocketQuiet(t)
    PROVE  RevokeInv'
<1>1. CallsQuiet
  BY DEF Alone, CallsQuiet, CallQuiet
<1>2. revoke'[<<t, "leave">>].pc # "idle" => leave'[t].pc = "revoking"
  BY Idle DEF Alone, RevokeInv, Waiting
<1>3. Waiting'
  BY <1>2, WaitingLeave DEF Alone
<1>4. (\A u \in Tabs : AccessFrom(u)) /\ OnTheirWay
  BY DEF Alone, AccessFrom, OnTheirWay, Exchanged
<1>5. \A u \in Tabs : SocketQuiet(u)
  BY DEF Alone, SocketQuiet
<1> QED
  BY <1>1, <1>3, <1>4, <1>5, RevokeFrame DEF Alone

LEMMA LeaveStepRevoke ==
    ASSUME LifeInv, RevokeInv, NEW t \in Tabs, UNCHANGED account,
           LeaveAgain(t) \/ LeaveDone(t) \/ HearSignedOut(t) \/ Reload(t) \/ Logout(t)
    PROVE  RevokeInv'
<1>1. /\ UNCHANGED <<rows, marker, revoked, overlapped, refresh, revoke>>
      /\ \A r \in Requests : req'[r] = req[r]
  BY DEF LeaveAgain, LeaveDone, HearSignedOut, Reload, Logout, server, browser, history, account
<1>2. ASSUME LeaveAgain(t) PROVE Alone(t) /\ SocketQuiet(t)
  <2>1. UNCHANGED <<tab, sock>>
    BY <1>2 DEF LeaveAgain, browser
  <2>2. leave[t].pc = "refresh" /\ \A u \in Tabs \ {t} : leave'[u] = leave[u]
    BY <1>2, LeaveAgainLife
  <2> QED
    BY <1>1, <2>1, <2>2 DEF Alone, SocketQuiet
<1>3. ASSUME LeaveDone(t) PROVE Alone(t) /\ SocketQuiet(t)
  BY <1>1, <1>3, LeaveDoneLife DEF Alone, SocketQuiet, NoSocket
<1>4. ASSUME HearSignedOut(t) PROVE Alone(t) /\ SocketQuiet(t)
  <2>1. UNCHANGED leave
    BY <1>4 DEF HearSignedOut
  <2> QED
    BY <1>1, <1>4, <2>1, HearSignedOutLife DEF Alone, SocketQuiet, NoSocket
<1>5. ASSUME Reload(t) PROVE Alone(t) /\ SocketQuiet(t)
  <2>1. UNCHANGED leave
    BY <1>5 DEF Reload
  <2> QED
    BY <1>1, <1>5, <2>1, ReloadLife DEF Alone, SocketQuiet, NoSocket
<1>6. ASSUME Logout(t) PROVE Alone(t) /\ SocketQuiet(t)
  <2>1. UNCHANGED sock
    BY <1>6 DEF Logout
  <2>2. leave[t].pc = "idle"
    BY <1>6, LogoutLife DEF NoLeave
  <2> QED
    BY <1>1, <1>6, <2>1, <2>2, LogoutLife DEF Alone, SocketQuiet
<1> QED
  BY <1>2, <1>3, <1>4, <1>5, <1>6, AloneRevoke

\* A socket whose session was revoked is not let in: the marker outlives the
\* access token it comes with.
LEMMA SocketRevoke ==
    ASSUME LifeInv, RevokeInv, NEW t \in Tabs, UNCHANGED account,
           SocketCheck(t) \/ SocketJoin(t) \/ SocketKicked(t)
    PROVE  RevokeInv'
<1>1. /\ UNCHANGED <<rows, marker, revoked, overlapped, refresh, revoke, leave>>
      /\ \A r \in Requests : req'[r] = req[r]
  BY DEF SocketCheck, SocketJoin, SocketKicked, server, browser, history, account
<1>2. ASSUME SocketCheck(t) PROVE Alone(t) /\ SocketQuiet(t)
  <2>1. UNCHANGED tab /\ tab[t].access.left > 0
    BY <1>2 DEF SocketCheck, browser
  <2>2. /\ \A u \in Tabs \ {t} : sock'[u] = sock[u]
        /\ sock'[t].session = tab[t].access.session
        /\ sock'[t].st = "checked" => Admitted(tab[t].access.session)
        /\ sock'[t].st # "up"
    BY <1>2, SocketCheckLife
  <2>3. PICK f \in Families : f = tab[t].access.session
    BY <2>1 DEF RevokeInv, HasSession
  <2>4. ASSUME f \in revoked \ overlapped, marker[f] = 0 PROVE Unfinished(f)
    <3>1. ~Unfinished(f) => Lasts(f, 0)
      BY <2>4 DEF RevokeInv, Outlived
    <3>2. tab[t].access.left \in Nat
      BY DEF LifeInv, SessionTypes, BrowserTypes, TabType, AccessType
    <3>3. ~Lasts(f, 0)
      BY <2>1, <2>3, <3>2 DEF Lasts
    <3> QED
      BY <3>1, <3>3
  <2>5. sock'[t].st = "checked" /\ f \in revoked \ overlapped => Unfinished(f)
    BY <2>2, <2>3, <2>4 DEF Admitted
  <2>6. SocketQuiet(t)
    BY <2>2, <2>3, <2>5 DEF SocketQuiet
  <2> QED
    BY <1>1, <2>1, <2>2, <2>6 DEF Alone
<1>3. ASSUME SocketJoin(t) PROVE Alone(t) /\ SocketQuiet(t)
  <2>1. UNCHANGED tab
    BY <1>3 DEF SocketJoin, browser
  <2> QED
    BY <1>1, <1>3, <2>1, SocketJoinLife DEF Alone, SocketQuiet
<1>4. ASSUME SocketKicked(t) PROVE Alone(t) /\ SocketQuiet(t)
  <2>1. /\ \A u \in Tabs \ {t} : tab'[u] = tab[u] /\ sock'[u] = sock[u]
        /\ UNCHANGED tab \/ tab'[t].access = NoAccess
        /\ sock'[t].st \in {"none", "closed"}
    BY <1>4, SocketKickedLife
  <2> QED
    BY <1>1, <2>1 DEF Alone, SocketQuiet
<1> QED
  BY <1>2, <1>3, <1>4, AloneRevoke

\* The sessions to revoke are found, and their good tokens read.
LEMMA RevokeReadRevoke ==
    ASSUME LifeInv, RevokeInv, NEW c \in Calls, UNCHANGED account, RevokeFind(c) \/ RevokeScan(c)
    PROVE  RevokeInv'
<1>1. /\ UNCHANGED <<rows, marker, revoked, overlapped, tab, sock, refresh, leave>>
      /\ \A r \in Requests : req'[r] = req[r]
  BY DEF RevokeFind, RevokeScan, server, browser, history, account
<1>2. /\ \A d \in Calls \ {c} : revoke'[d] = revoke[d]
      /\ revoke[c].pc \in {"find", "scan"}
  BY RevokeFindLife, RevokeScanLife
<1>3. ASSUME RevokeFind(c) PROVE CallQuiet(c)
  <2>1. /\ revoke[c].pc = "find" /\ revoke'[c].pc \in {"done", "scan"}
        /\ revoke'[c].pc = "done" => revoke'[c].of = {}
        /\ \A f \in revoke'[c].of : \E n \in DOMAIN rows[f] : Live(f, n)
    BY <1>3, RevokeFindLife
  <2>2. \A f \in revoke'[c].of : rows'[f] # <<>>
    BY <1>1, <2>1
  <2> QED
    BY <2>1, <2>2 DEF CallQuiet, Early
<1>4. ASSUME RevokeScan(c) PROVE CallQuiet(c)
  <2>1. /\ revoke[c].pc = "scan" /\ revoke'[c].pc = "write" /\ revoke'[c].of = revoke[c].of
        /\ \A f \in Families, n \in Nat \ {0} :
              <<f, n>> \in revoke'[c].seen <=> f \in revoke[c].of /\ Live(f, n)
    BY <1>4, RevokeScanLife
  <2>2. \A f \in revoke'[c].of : f \in Families /\ rows'[f] # <<>>
    BY <1>1, <2>1 DEF RevokeInv, Revoking, LifeInv, SessionTypes, CallTypes, RevokeType
  <2>3. ASSUME NEW f \in revoke'[c].of, NEW n \in DOMAIN rows'[f], rows'[f][n].st = "live"
        PROVE  <<f, n>> \in revoke'[c].seen
    <3>1. n \in Nat \ {0}
      BY <1>1, <2>2, <2>3 DEF LifeInv, SessionTypes, ServerTypes
    <3>2. Live(f, n)
      BY <1>1, <2>3 DEF Live
    <3> QED
      BY <2>1, <2>2, <3>1, <3>2
  <2> QED
    BY <2>1, <2>2, <2>3 DEF CallQuiet, Early
<1>5. CallsQuiet
  BY <1>2, <1>3, <1>4 DEF CallsQuiet, CallQuiet
<1>6. Waiting'
  BY <1>1, <1>2, WaitingCall
<1>7. (\A u \in Tabs : AccessFrom(u)) /\ OnTheirWay
  BY <1>1 DEF AccessFrom, OnTheirWay, Exchanged
<1>8. \A u \in Tabs : SocketQuiet(u)
  BY <1>1, SocketsGone DEF SocketsGo
<1> QED
  BY <1>1, <1>5, <1>6, <1>7, <1>8, RevokeFrame

\* The rows are written: what was good and read is good no more.
LEMMA RevokeWriteRevoke ==
    ASSUME LifeInv, RevokeInv, NEW c \in Calls, UNCHANGED account, RevokeWrite(c)
    PROVE  RevokeInv'
<1>1. /\ UNCHANGED <<marker, overlapped, tab, sock, refresh, leave>>
      /\ \A r \in Requests : req'[r] = req[r]
      /\ revoked' = revoked \cup revoke[c].of
  BY DEF RevokeWrite, browser, account
<1>2. /\ Rewritten /\ revoke[c].pc = "write" /\ revoke'[c].pc = "mark"
      /\ revoke'[c].of = revoke[c].of /\ revoke[c].why \in Reasons
      /\ \A d \in Calls \ {c} : revoke'[d] = revoke[d]
  BY RevokeWriteLife DEF LifeInv, SessionTypes, CallTypes, RevokeType
<1>3. \A f \in Families : \A n \in DOMAIN rows[f] :
          rows'[f][n].st = IF <<f, n>> \in revoke[c].seen /\ Live(f, n)
                           THEN revoke[c].why ELSE rows[f][n].st
  BY RevokeWriteLife
<1>4. \A f \in Families : DOMAIN rows'[f] = DOMAIN rows[f] /\ (rows[f] # <<>> => rows'[f] # <<>>)
  BY <1>2 DEF Rewritten, LifeInv, SessionTypes, ServerTypes
<1>5. revoke[c].of \subseteq Families /\ \A d \in Calls : revoke[d].of \subseteq Families
  BY DEF LifeInv, SessionTypes, CallTypes, RevokeType
<1>6. ASSUME NEW f \in Families, NEW n \in DOMAIN rows'[f], rows'[f][n].st = "live"
      PROVE  n \in DOMAIN rows[f] /\ rows[f][n].st = "live" /\ <<f, n>> \notin revoke[c].seen
  <2>1. n \in DOMAIN rows[f]
    BY <1>4, <1>6
  <2>2. rows'[f][n].st = IF <<f, n>> \in revoke[c].seen /\ Live(f, n)
                         THEN revoke[c].why ELSE rows[f][n].st
    BY <1>3, <2>1
  <2>3. revoke[c].why # "live"
    BY <1>2 DEF Reasons
  <2>4. ~(<<f, n>> \in revoke[c].seen /\ Live(f, n))
    BY <1>6, <2>2, <2>3
  <2> QED
    BY <1>6, <2>1, <2>2, <2>4 DEF Live
<1>7. Revoking'
  <2>1. ASSUME NEW d \in Calls
        PROVE  /\ \A f \in revoke'[d].of : rows'[f] # <<>>
               /\ revoke'[d].pc \in {"idle", "find", "done"} => revoke'[d].of = {}
               /\ revoke'[d].pc \in {"mark", "tell"} => revoke'[d].of \subseteq revoked'
               /\ revoke'[d].pc = "write" =>
                    \A f \in revoke'[d].of \ overlapped' : \A n \in DOMAIN rows'[f] :
                       rows'[f][n].st = "live" => <<f, n>> \in revoke'[d].seen
    <3>1. CASE d = c
      BY <1>1, <1>2, <1>4, <1>5, <3>1 DEF RevokeInv, Revoking
    <3>2. CASE d # c
      <4>1. revoke'[d] = revoke[d]
        BY <1>2, <3>2
      <4>2. /\ \A f \in revoke[d].of : rows'[f] # <<>>
            /\ revoke[d].pc \in {"idle", "find", "done"} => revoke[d].of = {}
            /\ revoke[d].pc \in {"mark", "tell"} => revoke[d].of \subseteq revoked'
        BY <1>1, <1>4, <1>5 DEF RevokeInv, Revoking
      <4>3. ASSUME revoke[d].pc = "write", NEW f \in revoke[d].of \ overlapped,
                   NEW n \in DOMAIN rows'[f], rows'[f][n].st = "live"
            PROVE  <<f, n>> \in revoke[d].seen
        <5>1. f \in Families
          BY <1>5
        <5>2. n \in DOMAIN rows[f] /\ rows[f][n].st = "live"
          BY <1>6, <4>3, <5>1
        <5> QED
          BY <4>3, <5>2 DEF RevokeInv, Revoking
      <4> QED
        BY <1>1, <4>1, <4>2, <4>3
    <3> QED
      BY <3>1, <3>2
  <2>2. \A f \in revoked' : rows'[f] # <<>>
    BY <1>1, <1>4, <1>5 DEF RevokeInv, Revoking
  <2>3. ASSUME NEW f \in revoked' \ overlapped', NEW n \in DOMAIN rows'[f], rows'[f][n].st = "live"
        PROVE  FALSE
    <3>1. f \in Families /\ f \notin overlapped
      BY <1>1, <1>5 DEF RevokeInv
    <3>2. n \in DOMAIN rows[f] /\ rows[f][n].st = "live" /\ <<f, n>> \notin revoke[c].seen
      BY <1>6, <2>3, <3>1
    <3>3. CASE f \in revoked
      BY <3>1, <3>2, <3>3 DEF RevokeInv, Revoking
    <3>4. CASE f \in revoke[c].of
      BY <1>2, <3>1, <3>2, <3>4 DEF RevokeInv, Revoking
    <3> QED
      BY <1>1, <3>3, <3>4
  <2> QED
    BY <2>1, <2>2, <2>3 DEF Revoking
<1>8. \A f : Unfinished(f)' <=> Unfinished(f)
  <2>1. ASSUME NEW f, NEW d \in Calls
        PROVE  revoke'[d].pc \in {"write", "mark", "tell"} /\ f \in revoke'[d].of
                 <=> revoke[d].pc \in {"write", "mark", "tell"} /\ f \in revoke[d].of
    BY <1>2
  <2> QED
    BY <2>1 DEF Unfinished
<1>9. \A f \in revoke[c].of : Unfinished(f)
  BY <1>2 DEF Unfinished
<1>10. \A f \in Families, m \in Nat : Lasts(f, m)' <=> Lasts(f, m)
  BY <1>1 DEF Lasts, Exchanged, Answering
<1>11. Outlived'
  <2>1. AccessTtl \in Nat /\ \A f \in Families : marker[f] \in Nat
    BY SessionsAssumption DEF LifeInv, SessionTypes, ServerTypes
  <2>2. \A f \in Families : Lasts(f, AccessTtl)' /\ (Lasts(f, marker[f])' <=> Lasts(f, marker[f]))
    <3> SUFFICES ASSUME NEW f \in Families
                 PROVE  Lasts(f, AccessTtl)' /\ (Lasts(f, marker[f])' <=> Lasts(f, marker[f]))
      OBVIOUS
    <3>1. PICK m \in Nat : m = marker[f] /\ m = marker'[f]
      BY <1>1, <2>1
    <3> QED
      BY <1>10, <2>1, <3>1 DEF RevokeInv, Outlived
  <2>3. \A d \in Calls : revoke'[d].pc = "tell" => revoke[d].pc = "tell" /\ revoke'[d] = revoke[d]
    BY <1>2
  <2>4. \A f \in revoked' : Unfinished(f) \/ f \in revoked
    BY <1>1, <1>9
  <2>5. ASSUME NEW d \in Calls, NEW f \in revoke'[d].of \ overlapped', revoke'[d].pc = "tell"
        PROVE  Lasts(f, marker[f])'
    BY <1>1, <1>5, <2>2, <2>3, <2>5 DEF RevokeInv, Outlived
  <2>6. ASSUME NEW f \in revoked' \ overlapped', ~Unfinished(f)' PROVE Lasts(f, marker[f])'
    <3>1. f \in revoked \ overlapped /\ ~Unfinished(f) /\ f \in Families
      BY <1>1, <1>5, <1>8, <2>4, <2>6 DEF RevokeInv
    <3> QED
      BY <2>2, <3>1 DEF RevokeInv, Outlived
  <2> QED
    BY <2>2, <2>5, <2>6 DEF Outlived
<1>12. Overtaken'
  <2>1. \A f \in revoked' \ overlapped' : ~Unfinished(f)' => f \in revoked \ overlapped /\ ~Unfinished(f)
    BY <1>1, <1>8, <1>9
  <2> QED
    BY <1>1, <2>1 DEF Overtaken, RevokeInv
<1>13. Waiting' /\ HasSession' /\ revoked' \subseteq Families
  BY <1>1, <1>2, <1>5, WaitingCall DEF HasSession, RevokeInv
<1> QED
  BY <1>7, <1>11, <1>12, <1>13 DEF RevokeInv

\* The marker is set: it lasts as long as an access token can.
LEMMA RevokeMarkRevoke ==
    ASSUME LifeInv, RevokeInv, NEW c \in Calls, UNCHANGED account, RevokeMark(c)
    PROVE  RevokeInv'
<1>1. /\ UNCHANGED <<rows, revoked, overlapped, tab, sock, refresh, leave>>
      /\ \A r \in Requests : req'[r] = req[r]
  BY DEF RevokeMark, browser, history, account
<1>2. /\ revoke[c].pc = "mark" /\ revoke'[c].pc = "tell"
      /\ revoke'[c].of = revoke[c].of
      /\ \A d \in Calls \ {c} : revoke'[d] = revoke[d]
      /\ \A f \in Families : marker'[f] = IF f \in revoke[c].of THEN AccessTtl ELSE marker[f]
      /\ marker' \in [Families -> Nat]
  BY RevokeMarkLife
<1>3. \A d \in Calls : revoke[d].of \subseteq Families
  BY DEF LifeInv, SessionTypes, CallTypes, RevokeType
<1>4. Revoking'
  <2>1. ASSUME NEW d \in Calls
        PROVE  /\ \A f \in revoke'[d].of : rows'[f] # <<>>
               /\ revoke'[d].pc \in {"idle", "find", "done"} => revoke'[d].of = {}
               /\ revoke'[d].pc \in {"mark", "tell"} => revoke'[d].of \subseteq revoked'
               /\ revoke'[d].pc = "write" =>
                    \A f \in revoke'[d].of \ overlapped' : \A n \in DOMAIN rows'[f] :
                       rows'[f][n].st = "live" => <<f, n>> \in revoke'[d].seen
    <3>1. CASE d = c
      BY <1>1, <1>2, <3>1 DEF RevokeInv, Revoking
    <3>2. CASE d # c
      <4>1. revoke'[d] = revoke[d]
        BY <1>2, <3>2
      <4> QED
        BY <1>1, <4>1 DEF RevokeInv, Revoking
    <3> QED
      BY <3>1, <3>2
  <2> QED
    BY <1>1, <2>1 DEF RevokeInv, Revoking
<1>5. \A f : Unfinished(f)' <=> Unfinished(f)
  <2>1. ASSUME NEW f, NEW d \in Calls
        PROVE  revoke'[d].pc \in {"write", "mark", "tell"} /\ f \in revoke'[d].of
                 <=> revoke[d].pc \in {"write", "mark", "tell"} /\ f \in revoke[d].of
    BY <1>2
  <2> QED
    BY <2>1 DEF Unfinished
<1>6. \A f \in Families, m \in Nat : Lasts(f, m)' <=> Lasts(f, m)
  BY <1>1 DEF Lasts, Exchanged, Answering
<1>7. Outlived'
  <2>1. AccessTtl \in Nat /\ \A f \in Families : marker[f] \in Nat
    BY SessionsAssumption DEF LifeInv, SessionTypes, ServerTypes
  <2>2. ASSUME NEW f \in Families PROVE Lasts(f, AccessTtl)'
    BY <1>6, <2>1 DEF RevokeInv, Outlived
  <2>3. ASSUME NEW f \in Families, f \in revoke[c].of \/ Lasts(f, marker[f])
        PROVE  Lasts(f, marker[f])'
    <3>1. PICK m \in Nat : m = marker'[f]
      BY <1>2
    <3>2. m = AccessTtl \/ (f \notin revoke[c].of /\ m = marker[f])
      BY <1>2, <3>1
    <3>3. Lasts(f, m)
      BY <2>1, <2>3, <3>2 DEF RevokeInv, Outlived
    <3>4. Lasts(f, m)'
      BY <1>6, <3>3
    <3> QED
      BY <3>1, <3>4
  <2>4. ASSUME NEW d \in Calls, NEW f \in revoke'[d].of \ overlapped', revoke'[d].pc = "tell"
        PROVE  Lasts(f, marker[f])'
    <3>1. revoke'[d].of = revoke[d].of /\ f \in Families
      BY <1>2, <1>3, <2>4
    <3>2. d = c \/ (revoke[d].pc = "tell" /\ revoke'[d] = revoke[d])
      BY <1>2, <2>4
    <3>3. f \in revoke[c].of \/ Lasts(f, marker[f])
      BY <1>1, <2>4, <3>1, <3>2 DEF RevokeInv, Outlived
    <3> QED
      BY <2>3, <3>1, <3>3
  <2>5. ASSUME NEW f \in revoked' \ overlapped', ~Unfinished(f)' PROVE Lasts(f, marker[f])'
    <3>1. f \in revoked \ overlapped /\ ~Unfinished(f) /\ f \in Families
      BY <1>1, <1>5, <2>5 DEF RevokeInv
    <3>2. Lasts(f, marker[f])
      BY <3>1 DEF RevokeInv, Outlived
    <3> QED
      BY <2>3, <3>1, <3>2
  <2> QED
    BY <2>2, <2>4, <2>5 DEF Outlived
<1>8. Overtaken'
  BY <1>1, <1>5 DEF Overtaken, RevokeInv
<1>9. Waiting' /\ HasSession' /\ revoked' \subseteq Families
  BY <1>1, <1>2, WaitingCall DEF HasSession, RevokeInv
<1> QED
  BY <1>4, <1>7, <1>8, <1>9 DEF RevokeInv

\* The sockets are told: what was let in before is closed or overtaken.
LEMMA RevokeTellRevoke ==
    ASSUME LifeInv, RevokeInv, NEW c \in Calls, UNCHANGED account, RevokeTell(c)
    PROVE  RevokeInv'
<1>1. /\ UNCHANGED <<rows, marker, revoked, overlapped, tab, refresh, leave>>
      /\ \A r \in Requests : req'[r] = req[r]
  BY DEF RevokeTell, server, browser, history, account
<1>2. /\ revoke[c].pc = "tell" /\ revoke'[c].pc = "done" /\ revoke'[c].of = {}
      /\ \A d \in Calls \ {c} : revoke'[d] = revoke[d]
      /\ \A t \in Tabs :
            /\ sock'[t].session = sock[t].session
            /\ sock[t].overtaken => sock'[t].overtaken
            /\ sock'[t].st \in {"checked", "up"} => sock'[t].st = sock[t].st
            /\ sock'[t].session \in revoke[c].of /\ sock'[t].st \in {"checked", "up"} =>
                  sock'[t].overtaken
  BY RevokeTellLife
<1>3. revoke[c].of \subseteq Families
  BY DEF LifeInv, SessionTypes, CallTypes, RevokeType
<1>4. Revoking'
  <2>1. ASSUME NEW d \in Calls
        PROVE  /\ \A f \in revoke'[d].of : rows'[f] # <<>>
               /\ revoke'[d].pc \in {"idle", "find", "done"} => revoke'[d].of = {}
               /\ revoke'[d].pc \in {"mark", "tell"} => revoke'[d].of \subseteq revoked'
               /\ revoke'[d].pc = "write" =>
                    \A f \in revoke'[d].of \ overlapped' : \A n \in DOMAIN rows'[f] :
                       rows'[f][n].st = "live" => <<f, n>> \in revoke'[d].seen
    <3>1. CASE d = c
      BY <1>2, <3>1
    <3>2. CASE d # c
      <4>1. revoke'[d] = revoke[d]
        BY <1>2, <3>2
      <4> QED
        BY <1>1, <4>1 DEF RevokeInv, Revoking
    <3> QED
      BY <3>1, <3>2
  <2> QED
    BY <1>1, <2>1 DEF RevokeInv, Revoking
<1>5. ASSUME NEW f, ~Unfinished(f)', f \notin revoke[c].of PROVE ~Unfinished(f)
  <2>1. ASSUME NEW d \in Calls, revoke[d].pc \in {"write", "mark", "tell"}, f \in revoke[d].of
        PROVE  FALSE
    <3>1. d # c
      BY <1>5, <2>1
    <3>2. revoke'[d] = revoke[d]
      BY <1>2, <3>1
    <3> QED
      BY <1>5, <2>1, <3>2 DEF Unfinished
  <2> QED
    BY <2>1 DEF Unfinished
<1>6. \A f \in Families, m \in Nat : Lasts(f, m)' <=> Lasts(f, m)
  BY <1>1 DEF Lasts, Exchanged, Answering
<1>7. Outlived'
  <2>1. AccessTtl \in Nat /\ \A f \in Families : marker[f] \in Nat
    BY SessionsAssumption DEF LifeInv, SessionTypes, ServerTypes
  <2>2. \A f \in Families : Lasts(f, AccessTtl)' /\ (Lasts(f, marker[f])' <=> Lasts(f, marker[f]))
    <3> SUFFICES ASSUME NEW f \in Families
                 PROVE  Lasts(f, AccessTtl)' /\ (Lasts(f, marker[f])' <=> Lasts(f, marker[f]))
      OBVIOUS
    <3>1. PICK m \in Nat : m = marker[f] /\ m = marker'[f]
      BY <1>1, <2>1
    <3> QED
      BY <1>6, <2>1, <3>1 DEF RevokeInv, Outlived
  <2>3. ASSUME NEW d \in Calls, NEW f \in revoke'[d].of \ overlapped', revoke'[d].pc = "tell"
        PROVE  Lasts(f, marker[f])'
    <3>1. revoke'[d] = revoke[d]
      BY <1>2, <2>3
    <3>2. f \in Families
      BY <2>3, <3>1 DEF LifeInv, SessionTypes, CallTypes, RevokeType
    <3> QED
      BY <1>1, <2>2, <2>3, <3>1, <3>2 DEF RevokeInv, Outlived
  <2>4. ASSUME NEW f \in revoked' \ overlapped', ~Unfinished(f)' PROVE Lasts(f, marker[f])'
    <3>1. f \in revoked \ overlapped /\ f \in Families
      BY <1>1 DEF RevokeInv
    <3>2. Lasts(f, marker[f])
      BY <1>2, <1>5, <2>4, <3>1 DEF RevokeInv, Outlived
    <3> QED
      BY <2>2, <3>1, <3>2
  <2> QED
    BY <2>2, <2>3, <2>4 DEF Outlived
<1>8. Overtaken'
  <2> SUFFICES ASSUME NEW f \in revoked' \ overlapped', ~Unfinished(f)',
                      NEW t \in Tabs, sock'[t].session = f, sock'[t].st \in {"checked", "up"}
               PROVE  sock'[t].overtaken
    BY DEF Overtaken
  <2>1. CASE f \in revoke[c].of
    BY <1>2, <2>1
  <2>2. CASE f \notin revoke[c].of
    <3>1. f \in revoked \ overlapped /\ ~Unfinished(f)
      BY <1>1, <1>5, <2>2
    <3>2. sock[t].session = f /\ sock[t].st \in {"checked", "up"}
      BY <1>2
    <3> QED
      BY <1>2, <3>1, <3>2 DEF RevokeInv, Overtaken
  <2> QED
    BY <2>1, <2>2
<1>9. Waiting' /\ HasSession' /\ revoked' \subseteq Families
  BY <1>1, <1>2, WaitingCall DEF HasSession, RevokeInv
<1> QED
  BY <1>4, <1>7, <1>8, <1>9 DEF RevokeInv

\* A rotation that runs into a revocation is remembered; no session revoked
\* before is rotated.
LEMMA RotateRevoke ==
    ASSUME LifeInv, RevokeInv, NEW t \in Tabs, UNCHANGED account, Rotate(t)
    PROVE  RevokeInv'
<1>1. /\ UNCHANGED <<marker, revoked, tab, sock, leave, revoke>>
      /\ \A r \in Requests : req'[r] = req[r]
  BY DEF Rotate, browser, account
<1>2. /\ refresh[t].pc = "rotate" /\ refresh[t].token # None /\ refresh'[t].pc = "reply"
      /\ refresh'[t].token = refresh[t].token /\ \A u \in Tabs \ {t} : refresh'[u] = refresh[u]
  BY RotateLife
<1>3. PICK f \in Families, n \in Nat \ {0} : f = refresh[t].token[1] /\ n = refresh[t].token[2]
  <2>1. refresh[t].token \in Token
    BY <1>2 DEF LifeInv, SessionTypes, CallTypes, RefreshType
  <2> QED
    BY <2>1 DEF Token
<1>4. \/ UNCHANGED <<rows, overlapped>> /\ ~Exchanged(t)'
      \/ /\ Live(f, n) /\ Exchanged(t)' /\ refresh'[t].left = AccessTtl
         /\ Len(rows'[f]) = n + 1
         /\ \A g \in Families \ {f} : rows'[g] = rows[g]
         /\ overlapped' = IF BeingRevoked(f) THEN overlapped \cup {f} ELSE overlapped
  <2> DEFINE f0 == refresh[t].token[1]
             n0 == refresh[t].token[2]
  <2>1. \/ UNCHANGED <<rows, overlapped>> /\ refresh'[t].reply = "stale"
        \/ /\ Live(f0, n0)
           /\ refresh'[t].reply = "ok" /\ refresh'[t].left = AccessTtl
           /\ Len(rows'[f0]) = n0 + 1
           /\ \A g \in Families \ {f0} : rows'[g] = rows[g]
           /\ overlapped' = IF BeingRevoked(f0) THEN overlapped \cup {f0} ELSE overlapped
    BY RotateLife
  <2>2. f0 = f /\ n0 = n
    BY <1>3
  <2> HIDE DEF f0, n0
  <2> QED
    BY <1>2, <2>1, <2>2 DEF Exchanged
<1>5. CallsQuiet
  BY <1>1 DEF CallsQuiet, CallQuiet
<1>6. \A u \in Tabs : SocketQuiet(u)
  BY <1>1, SocketsGone DEF SocketsGo
<1>7. Waiting'
  <2>1. revoke[<<t, "refresh">>].pc = "idle"
    BY <1>2, Idle
  <2> QED
    BY <1>1, <1>2, <2>1, WaitingRefresh
<1>8. CASE UNCHANGED <<rows, overlapped>> /\ ~Exchanged(t)'
  <2>1. (\A u \in Tabs : AccessFrom(u)) /\ OnTheirWay
    BY <1>1, <1>2, <1>8 DEF AccessFrom, OnTheirWay, Exchanged
  <2> QED
    BY <1>1, <1>5, <1>6, <1>7, <1>8, <2>1, RevokeFrame
<1>9. CASE /\ Live(f, n) /\ Exchanged(t)' /\ refresh'[t].left = AccessTtl
           /\ Len(rows'[f]) = n + 1
           /\ \A g \in Families \ {f} : rows'[g] = rows[g]
           /\ overlapped' = IF BeingRevoked(f) THEN overlapped \cup {f} ELSE overlapped
  <2>1. overlapped \subseteq overlapped'
    BY <1>9
  <2>2. n \in DOMAIN rows[f] /\ rows[f][n].st = "live"
    BY <1>9 DEF Live
  <2>3. f \in revoked => f \in overlapped'
    BY <2>1, <2>2 DEF RevokeInv, Revoking
  <2>4. ASSUME NEW c \in Calls, revoke[c].pc \in {"write", "tell"}, f \in revoke[c].of
        PROVE  f \in overlapped'
    <3>1. CASE revoke[c].pc = "write"
      <4>1. BeingRevoked(f)
        BY <2>4, <3>1 DEF BeingRevoked
      <4> QED
        BY <1>9, <4>1
    <3>2. CASE revoke[c].pc = "tell"
      <4>1. f \in revoked
        BY <2>4, <3>2 DEF RevokeInv, Revoking
      <4> QED
        BY <2>3, <4>1
    <3> QED
      BY <2>4, <3>1, <3>2
  <2>5. Fresh(f)
    BY <2>3, <2>4 DEF Fresh
  <2>6. rows'[f] # <<>>
    <3>1. Len(<<>>) = 0
      OBVIOUS
    <3> QED
      BY <1>9, <3>1
  <2>7. RowsQuiet
    BY <1>9, <2>5, <2>6 DEF RowsQuiet
  <2>8. AccessTtl \in Nat
    BY SessionsAssumption
  <2>9. ASSUME NEW g \in Families, NEW m \in Nat, Lasts(g, m), g # f \/ m = AccessTtl
        PROVE  Lasts(g, m)'
    <3>1. \A u \in Tabs : tab'[u].access.session = g => tab'[u].access.left <= m
      BY <1>1, <2>9 DEF Lasts
    <3>2. ASSUME NEW u \in Tabs, Exchanged(u)', refresh'[u].token[1] = g
          PROVE  refresh'[u].left <= m
      <4>1. CASE u = t
        BY <1>2, <1>3, <1>9, <2>8, <2>9, <3>2, <4>1
      <4>2. CASE u # t
        BY <1>2, <2>9, <3>2, <4>2 DEF Lasts, Exchanged
      <4> QED
        BY <4>1, <4>2
    <3>3. \A r \in Requests : Answering(r, g)' => req'[r].left <= m
      BY <1>1, <2>9 DEF Lasts, Answering
    <3> QED
      BY <3>1, <3>2, <3>3 DEF Lasts
  <2>10. AccessQuiet
    <3>1. Lasts(f, AccessTtl)'
      BY <2>8, <2>9 DEF RevokeInv, Outlived
    <3>2. \A g \in Families \ {f} : NoLonger(g)
      BY <2>9 DEF NoLonger
    <3> QED
      BY <2>5, <3>1, <3>2 DEF AccessQuiet
  <2>11. HasSession'
    BY <1>1 DEF HasSession, RevokeInv
  <2>12. Revoking' /\ Outlived' /\ Overtaken'
    BY <1>1, <1>5, <1>6, <2>1, <2>7, <2>10, RevokingKept, OutlivedKept, OvertakenKept
  <2> QED
    BY <1>1, <1>7, <2>11, <2>12 DEF RevokeInv
<1> QED
  BY <1>4, <1>8, <1>9

LEMMA DeleteExpiredRevoke ==
    ASSUME LifeInv, RevokeInv, UNCHANGED account, DeleteExpired
    PROVE  RevokeInv'
<1>1. /\ UNCHANGED <<marker, revoked, overlapped, tab, sock, leave, revoke, refresh>>
      /\ \A r \in Requests : req'[r] = req[r]
  BY DEF DeleteExpired, browser, history, account
<1>2. Rewritten /\ \A f \in Families : \A n \in DOMAIN rows[f] :
                      rows'[f][n].st \in {rows[f][n].st, "gone"}
  BY DeleteExpiredLife
<1>3. RowsQuiet
  <2>1. \A f \in Families : DOMAIN rows'[f] = DOMAIN rows[f] /\ (rows[f] # <<>> => rows'[f] # <<>>)
    BY <1>2 DEF Rewritten, LifeInv, SessionTypes, ServerTypes
  <2>2. \A f \in Families : \A n \in DOMAIN rows'[f] : rows'[f][n].st = "live" => rows[f][n].st = "live"
    BY <1>2, <2>1
  <2> QED
    BY <2>1, <2>2 DEF RowsQuiet
<1>4. CallsQuiet
  BY <1>1 DEF CallsQuiet, CallQuiet
<1>5. (\A t \in Tabs : AccessFrom(t)) /\ OnTheirWay
  BY <1>1 DEF AccessFrom, OnTheirWay, Exchanged
<1>6. \A t \in Tabs : SocketQuiet(t)
  BY <1>1, SocketsGone DEF SocketsGo
<1>7. HasSession' /\ AccessQuiet
  BY <1>5, AccessKept
<1>8. Revoking' /\ Outlived' /\ Overtaken'
  BY <1>1, <1>3, <1>4, <1>6, <1>7, RevokingKept, OutlivedKept, OvertakenKept
<1>9. Waiting'
  BY <1>1 DEF Waiting, RevokeInv
<1> QED
  BY <1>1, <1>7, <1>8, <1>9 DEF RevokeInv

\* A unit of time passes for the marker and for the access tokens alike.
LEMMA TickRevoke ==
    ASSUME LifeInv, RevokeInv, AccountTick
    PROVE  RevokeInv'
<1>1. UNCHANGED <<leave, revoke, sock, overlapped, revoked>>
  BY TickLife
<1>2. /\ Rewritten
      /\ \A f \in Families : \A n \in DOMAIN rows[f] : rows'[f][n].st = rows[f][n].st
  BY TickLife
<1>3. \A f \in Families : marker'[f] = Less(marker[f])
  BY TickLife
<1>4. \A t \in Tabs : /\ tab'[t].access.session = tab[t].access.session
                      /\ tab'[t].access.left = Less(tab[t].access.left)
                      /\ refresh'[t].pc = refresh[t].pc /\ refresh'[t].reply = refresh[t].reply
                      /\ refresh'[t].token = refresh[t].token
                      /\ refresh'[t].left = Less(refresh[t].left)
  BY TickLife
<1>5. \A r \in Requests : /\ req'[r].pc = req[r].pc /\ req'[r].session = req[r].session
                          /\ req'[r].left = Less(req[r].left)
  BY TickLife
<1>6. RowsQuiet
  <2>1. \A f \in Families : DOMAIN rows'[f] = DOMAIN rows[f] /\ (rows[f] # <<>> => rows'[f] # <<>>)
    BY <1>2 DEF Rewritten, LifeInv, SessionTypes, ServerTypes
  <2>2. \A f \in Families : \A n \in DOMAIN rows'[f] : rows'[f][n].st = "live" => rows[f][n].st = "live"
    BY <1>2, <2>1
  <2> QED
    BY <2>1, <2>2 DEF RowsQuiet
<1>7. CallsQuiet
  BY <1>1 DEF CallsQuiet, CallQuiet
<1>8. \A t \in Tabs : SocketQuiet(t)
  BY <1>1, SocketsGone DEF SocketsGo
<1>9. Revoking' /\ Overtaken'
  BY <1>1, <1>6, <1>7, <1>8, RevokingKept, OvertakenKept
<1>10. \A a, b \in Nat : a <= b => Less(a) <= Less(b) /\ Less(a) <= b
  BY DEF Less
<1>11. /\ \A t \in Tabs : tab[t].access.left \in Nat /\ refresh[t].left \in Nat
       /\ \A r \in Requests : req[r].left \in Nat
       /\ \A f \in Families : marker[f] \in Nat
       /\ AccessTtl \in Nat
  BY SessionsAssumption DEF LifeInv, SessionTypes, ServerTypes, BrowserTypes, TabType, AccessType,
     CallTypes, RefreshType, RequestTypes, ReqType
<1>12. ASSUME NEW f \in Families, NEW m \in Nat, Lasts(f, m), NEW k \in {m, Less(m)}
       PROVE  Lasts(f, k)'
  <2>1. \A a \in Nat : a <= m => Less(a) <= k
    BY <1>10, <1>12
  <2>2. \A t \in Tabs : tab'[t].access.session = f => tab'[t].access.left <= k
    BY <1>4, <1>11, <1>12, <2>1 DEF Lasts
  <2>3. \A t \in Tabs : Exchanged(t)' /\ refresh'[t].token[1] = f => refresh'[t].left <= k
    BY <1>4, <1>11, <1>12, <2>1 DEF Lasts, Exchanged
  <2>4. \A r \in Requests : Answering(r, f)' => req'[r].left <= k
    BY <1>5, <1>11, <1>12, <2>1 DEF Lasts, Answering
  <2> QED
    BY <2>2, <2>3, <2>4 DEF Lasts
<1>13. ASSUME NEW f \in Families, Lasts(f, marker[f]) PROVE Lasts(f, marker[f])'
  <2>1. PICK m \in Nat : m = marker[f]
    BY <1>11
  <2>2. PICK k \in Nat : k = Less(m)
    BY <2>1, LessType
  <2>3. marker'[f] = k
    BY <1>3, <2>1, <2>2
  <2>4. Lasts(f, k)'
    BY <1>12, <1>13, <2>1, <2>2
  <2> QED
    BY <2>3, <2>4
<1>14. Outlived'
  <2>1. \A f \in Families : Lasts(f, AccessTtl)'
    BY <1>11, <1>12 DEF RevokeInv, Outlived
  <2>2. ASSUME NEW c \in Calls, NEW f \in revoke'[c].of \ overlapped', revoke'[c].pc = "tell"
        PROVE  Lasts(f, marker[f])'
    <3>1. f \in Families
      BY <1>1, <2>2 DEF LifeInv, SessionTypes, CallTypes, RevokeType
    <3>2. Lasts(f, marker[f])
      BY <1>1, <2>2 DEF RevokeInv, Outlived
    <3> QED
      BY <1>13, <3>1, <3>2
  <2>3. ASSUME NEW f \in revoked' \ overlapped', ~Unfinished(f)' PROVE Lasts(f, marker[f])'
    <3>1. f \in revoked \ overlapped /\ f \in Families /\ ~Unfinished(f)
      BY <1>1, <2>3 DEF RevokeInv, Unfinished
    <3>2. Lasts(f, marker[f])
      BY <3>1 DEF RevokeInv, Outlived
    <3> QED
      BY <1>13, <3>1, <3>2
  <2> QED
    BY <2>1, <2>2, <2>3 DEF Outlived
<1>15. HasSession'
  <2>1. \A a \in Nat : Less(a) > 0 => a > 0
    BY DEF Less
  <2> QED
    BY <1>4, <1>11, <2>1 DEF HasSession, RevokeInv
<1>16. Waiting'
  BY <1>1, <1>4, <1>5 DEF Waiting, RevokeInv
<1> QED
  BY <1>1, <1>9, <1>14, <1>15, <1>16 DEF RevokeInv

LEMMA ElsewhereRevoke ==
    ASSUME LifeInv, RevokeInv, NEW r \in Requests, Elsewhere(r)
    PROVE  RevokeInv'
<1>1. /\ UNCHANGED <<rows, marker, revoked, overlapped, tab, sock, leave, revoke, refresh>>
      /\ \A q \in Requests \ {r} : req'[q] = req[q]
      /\ req[r].pc \notin {"answer", "revoking"} /\ req'[r].pc \notin {"answer", "revoking"}
  BY DEF Elsewhere, Busy, server, browser, history
<1>2. CallsQuiet
  BY <1>1 DEF CallsQuiet, CallQuiet
<1>3. (\A t \in Tabs : AccessFrom(t)) /\ OnTheirWay
  BY <1>1 DEF AccessFrom, OnTheirWay, Exchanged
<1>4. \A t \in Tabs : SocketQuiet(t)
  BY <1>1, SocketsGone DEF SocketsGo
<1>5. Waiting'
  BY <1>1, WaitingRequest DEF RevokeInv, Waiting
<1> QED
  BY <1>1, <1>2, <1>3, <1>4, <1>5, RevokeFrame

\* The revocation of a password reset begins, and is over.
LEMMA ResetRevokeRevoke ==
    ASSUME LifeInv, RevokeInv, NEW r \in Requests, ResetRevoke(r)
    PROVE  RevokeInv'
<1>1. UNCHANGED <<rows, marker, revoked, overlapped, tab, sock, leave, refresh>>
  BY DEF ResetRevoke, server, browser, history
<1>2. /\ req[r].pc = "revoke" /\ req'[r].pc = "revoking" /\ r \in Calls
      /\ \A q \in Requests \ {r} : req'[q] = req[q]
      /\ revoke'[r].pc = "find" /\ revoke'[r].of = {}
      /\ \A d \in Calls \ {r} : revoke'[d] = revoke[d]
  BY ResetRevokeLife
<1>3. revoke[r].pc = "idle"
  BY <1>2 DEF RevokeInv, Waiting
<1>4. CallQuiet(r)
  BY <1>2, <1>3 DEF CallQuiet, Early
<1>5. CallsQuiet
  BY <1>2, <1>4 DEF CallsQuiet, CallQuiet
<1>6. (\A t \in Tabs : AccessFrom(t)) /\ OnTheirWay
  BY <1>1, <1>2 DEF AccessFrom, OnTheirWay, Exchanged
<1>7. \A t \in Tabs : SocketQuiet(t)
  BY <1>1, SocketsGone DEF SocketsGo
<1>8. Waiting'
  BY <1>1, <1>2, WaitingRequest
<1> QED
  BY <1>1, <1>5, <1>6, <1>7, <1>8, RevokeFrame

LEMMA ResetDoneRevoke ==
    ASSUME LifeInv, RevokeInv, NEW r \in Requests, ResetDone(r)
    PROVE  RevokeInv'
<1>1. UNCHANGED <<rows, marker, revoked, overlapped, leave, refresh>>
  BY DEF ResetDone, server, history
<1>2. /\ req[r].pc = "revoking" /\ req'[r].pc = "idle" /\ r \in Calls
      /\ \A q \in Requests \ {r} : req'[q] = req[q]
      /\ revoke[r].pc = "done" /\ revoke'[r] = NoRevoke
      /\ \A d \in Calls \ {r} : revoke'[d] = revoke[d]
      /\ \A t \in Tabs : \/ tab'[t] = tab[t] /\ sock'[t] = sock[t]
                         \/ tab'[t].access = NoAccess /\ sock'[t] = NoSocket
  BY ResetDoneLife
<1>3. CallQuiet(r) /\ revoke'[r].pc = "idle"
  BY <1>2 DEF CallQuiet, Early, NoRevoke
<1>4. CallsQuiet
  BY <1>2, <1>3 DEF CallsQuiet, CallQuiet
<1>5. (\A t \in Tabs : AccessFrom(t)) /\ OnTheirWay
  BY <1>1, <1>2 DEF AccessFrom, OnTheirWay, Exchanged
<1>6. \A t \in Tabs : SocketQuiet(t)
  BY <1>2, SocketsGone DEF SocketsGo, NoSocket
<1>7. Waiting'
  BY <1>1, <1>2, <1>3, WaitingRequest
<1> QED
  BY <1>1, <1>4, <1>5, <1>6, <1>7, RevokeFrame

\* A session that is new is being revoked by nobody.
LEMMA LoginCreateRevoke ==
    ASSUME LifeInv, RevokeInv, NEW r \in Requests, LoginCreate(r)
    PROVE  RevokeInv'
<1>1. UNCHANGED <<marker, revoked, overlapped, tab, sock, leave, refresh, revoke>>
  BY DEF LoginCreate, CreateSession, browser, history
<1>2. PICK f \in Families :
         /\ rows[f] = <<>> /\ req'[r].session = f
         /\ Len(rows'[f]) = 1
         /\ \A g \in Families \ {f} : rows'[g] = rows[g]
  BY LoginCreateLife
<1>3. /\ req[r].pc = "create-session" /\ req'[r].pc = "answer" /\ req'[r].left = AccessTtl
      /\ \A q \in Requests \ {r} : req'[q] = req[q]
  BY LoginCreateLife
<1>4. Fresh(f)
  <2>1. f \notin revoked
    BY <1>2 DEF RevokeInv, Revoking
  <2>2. \A c \in Calls : f \notin revoke[c].of
    BY <1>2 DEF RevokeInv, Revoking
  <2> QED
    BY <2>1, <2>2 DEF Fresh
<1>5. RowsQuiet
  <2>1. \A g \in Families \ {f} : rows'[g] = rows[g]
    BY <1>2
  <2> QED
    BY <1>2, <1>4, <2>1 DEF RowsQuiet
<1>6. CallsQuiet
  BY <1>1 DEF CallsQuiet, CallQuiet
<1>7. \A t \in Tabs : SocketQuiet(t)
  BY <1>1, SocketsGone DEF SocketsGo
<1>8. AccessTtl \in Nat
  BY SessionsAssumption
<1>9. ASSUME NEW g \in Families, NEW m \in Nat, Lasts(g, m), g # f \/ m = AccessTtl
      PROVE  Lasts(g, m)'
  <2>1. \A t \in Tabs : /\ tab'[t].access.session = g => tab'[t].access.left <= m
                        /\ Exchanged(t)' /\ refresh'[t].token[1] = g => refresh'[t].left <= m
    BY <1>1, <1>9 DEF Lasts, Exchanged
  <2>2. ASSUME NEW q \in Requests, Answering(q, g)' PROVE req'[q].left <= m
    <3>1. CASE q = r
      BY <1>2, <1>3, <1>8, <1>9, <2>2, <3>1 DEF Answering
    <3>2. CASE q # r
      BY <1>3, <1>9, <2>2, <3>2 DEF Answering, Lasts
    <3> QED
      BY <3>1, <3>2
  <2> QED
    BY <2>1, <2>2 DEF Lasts
<1>10. AccessQuiet
  <2>1. Lasts(f, AccessTtl)'
    BY <1>8, <1>9 DEF RevokeInv, Outlived
  <2>2. \A g \in Families \ {f} : NoLonger(g)
    BY <1>9 DEF NoLonger
  <2> QED
    BY <1>4, <2>1, <2>2 DEF AccessQuiet
<1>11. HasSession'
  BY <1>1 DEF HasSession, RevokeInv
<1>12. Waiting'
  <2>1. revoke[r].pc = "idle"
    BY <1>3 DEF RevokeInv, Waiting
  <2> QED
    BY <1>1, <1>3, <2>1, WaitingRequest
<1>13. Revoking' /\ Outlived' /\ Overtaken'
  BY <1>1, <1>5, <1>6, <1>7, <1>10, RevokingKept, OutlivedKept, OvertakenKept
<1> QED
  BY <1>1, <1>11, <1>12, <1>13 DEF RevokeInv

LEMMA LoginAnswerRevoke ==
    ASSUME LifeInv, RevokeInv, NEW r \in Requests, LoginAnswer(r)
    PROVE  RevokeInv'
<1>1. UNCHANGED <<rows, marker, revoked, overlapped, sock, leave, refresh, revoke>>
  BY DEF LoginAnswer, server, history
<1>2. /\ Answering(r, req[r].session) /\ req[r].session \in Families /\ req'[r].pc = "idle"
      /\ \A q \in Requests \ {r} : req'[q] = req[q]
      /\ \A t \in Tabs : \/ tab'[t] = tab[t]
                         \/ tab'[t].access = [session |-> req[r].session, left |-> req[r].left]
  BY LoginAnswerLife
<1>3. CallsQuiet
  BY <1>1 DEF CallsQuiet, CallQuiet
<1>4. (\A t \in Tabs : AccessFrom(t)) /\ OnTheirWay
  BY <1>1, <1>2 DEF AccessFrom, OnTheirWay, Exchanged
<1>5. \A t \in Tabs : SocketQuiet(t)
  BY <1>1, SocketsGone DEF SocketsGo
<1>6. Waiting'
  <2>1. revoke[r].pc = "idle"
    BY <1>2 DEF RevokeInv, Waiting, Answering
  <2> QED
    BY <1>1, <1>2, <2>1, WaitingRequest
<1> QED
  BY <1>1, <1>3, <1>4, <1>5, <1>6, RevokeFrame

LEMMA RevokeInit == AccountsInit => RevokeInv
<1> SUFFICES ASSUME AccountsInit PROVE RevokeInv
  OBVIOUS
<1>1. /\ revoke = [c \in Calls |-> NoRevoke] /\ revoked = {}
      /\ tab = [t \in Tabs |-> SignedOut] /\ refresh = [t \in Tabs |-> NoRefresh]
      /\ req = [r \in Requests |-> NoRequest]
  BY DEF AccountsInit, Init
<1>2. /\ \A c \in Calls : revoke[c].pc = "idle" /\ revoke[c].of = {}
      /\ \A t \in Tabs : tab[t].access = NoAccess /\ refresh[t].pc = "idle"
      /\ \A r \in Requests : req[r].pc = "idle"
  BY <1>1 DEF NoRevoke, SignedOut, NoRefresh, NoRequest
<1>3. Waiting
  BY <1>2, CallOf DEF Waiting, Calls
<1>4. Revoking /\ Overtaken
  BY <1>1, <1>2 DEF Revoking, Overtaken
<1>5. NoAccess.left = 0 /\ NoAccess.session = None
  BY DEF NoAccess
<1>6. AccessTtl \in Nat /\ AccessTtl >= 0
  BY SessionsAssumption
<1>7. \A f \in Families : Lasts(f, AccessTtl)
  BY <1>2, <1>5, <1>6 DEF Lasts, Exchanged, Answering
<1>8. Outlived /\ HasSession
  BY <1>1, <1>2, <1>5, <1>7 DEF Outlived, HasSession
<1> QED
  BY <1>1, <1>3, <1>4, <1>8 DEF RevokeInv

LEMMA RevokeStepKeeps == LifeInv /\ RevokeInv /\ AccountsNext => RevokeInv'
<1> SUFFICES ASSUME LifeInv, RevokeInv, AccountsNext PROVE RevokeInv'
  OBVIOUS
<1>1. ASSUME NEW t \in Tabs, TabActs(t), UNCHANGED account PROVE RevokeInv'
  BY <1>1, RefreshStepRevoke, RotateReadRevoke, RefreshOverRevoke, LeaveReadRevoke,
     LeaveRevokedRevoke, LeaveStepRevoke, SocketRevoke DEF TabActs
<1>2. ASSUME NEW c \in Calls, RevokeActs(c), UNCHANGED account PROVE RevokeInv'
  BY <1>2, RevokeReadRevoke, RevokeTellRevoke DEF RevokeActs
<1> QED
  BY <1>1, <1>2, NextCases, RequestElsewhere, RotateRevoke, RevokeWriteRevoke, RevokeMarkRevoke,
     DeleteExpiredRevoke, TickRevoke, ElsewhereRevoke, ResetRevokeRevoke, ResetDoneRevoke,
     LoginCreateRevoke, LoginAnswerRevoke

\* Every socket opened under a revoked session is closed, save one that passed
\* its handshake before the revocation and joined the channel after it, and
\* sessions whose last rotation ran into the revocation.
THEOREM RevocationCloses == AccountsSpec => []SocketsClosed
<1>1. RevokeInv /\ UNCHANGED allVars => RevokeInv'
  BY DEF RevokeInv, Waiting, Revoking, Outlived, Lasts, Exchanged, Answering, Unfinished, Overtaken,
         HasSession, allVars, vars, account, server, browser, history
<1>2. RevokeInv => SocketsClosed
  BY DEF RevokeInv, Overtaken, SocketsClosed
<1> QED
  BY <1>1, <1>2, SessionsTyped, RevokeInit, RevokeStepKeeps, PTL DEF AccountsSpec
=============================================================================
