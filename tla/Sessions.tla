------------------------------ MODULE Sessions ------------------------------
(***************************************************************************)
(* Refresh-token sessions of one person, from the database rows to the     *)
(* tabs of their browsers.                                                 *)
(*                                                                         *)
(* Server: session.service.ts (rotation with reuse detection, revocation)  *)
(* and the routes of auth.router.ts; every await is a step of its own, and *)
(* the UPDATE of a revocation is two steps, the snapshot its statement     *)
(* reads and the rows it then locks and changes (READ COMMITTED).          *)
(* Browser: session.ts (one refresh at a time per tab and, by a Web Lock,  *)
(* per browser), stores/auth.ts, the BroadcastChannel, and the socket of a *)
(* tab with the handshake check of server.ts.                              *)
(*                                                                         *)
(* Time is kept as what is left of each period: Tick takes one unit from   *)
(* all of them.                                                            *)
(***************************************************************************)
EXTENDS Integers, Sequences, FiniteSets

CONSTANTS
  MaxSessions,  \* bound on the sign-ins
  Tabs,         \* browser tabs
  BrowserOf,    \* the browser of a tab: tabs of one share cookies and the lock
  Requests,     \* requests that may revoke sessions besides a tab's own two
  MaxGen,       \* bound on the refresh tokens of a session
  Grace,        \* ROTATION_GRACE_MS
  AccessTtl,    \* ACCESS_TOKEN_TTL_SECONDS
  RefreshTtl,   \* REFRESH_TOKEN_TTL_MS
  FamilyTtl,    \* REFRESH_FAMILY_TTL_MS
  Scripts,      \* what people may be going to do: sets of <<what, tab>>
  None

\* Session ids, numbered in the order of the sign-ins.
Families == 1 .. MaxSessions

ASSUME SessionsAssumption ==
  /\ Scripts # {}
  /\ None \notin Families \union Tabs
  /\ Requests \intersect (Tabs \X {"refresh", "leave"}) = {}
  /\ {MaxSessions, MaxGen, Grace, AccessTtl, RefreshTtl, FamilyTtl} \subseteq Nat \ {0}

VARIABLES
  rows,       \* RefreshToken table: the rows of a session, oldest first
  life,       \* time left to familyExpiresAt
  marker,     \* time left of the Redis key auth:revoked-session:<id>
  jar,        \* the refresh cookie of a browser: <<session, number>> or None
  tab,        \* stores/auth.ts: status, session and time left of the access token
  refresh,    \* refreshOnce of a tab
  lock,       \* the Web Lock of a browser: its holder, then those who wait
  leave,      \* logout or logoutEverywhere of a tab
  revoke,     \* the revokeSessions call of a request
  sock,       \* the socket of a tab and the session it was opened under
  told,       \* tabs the 'signed-out' broadcast is on its way to
  todo,       \* what people are still going to do: <<what, tab>>
  cleanup,    \* a sign-in's deletion of expired rows is still to run
  dropped,    \* (history) sessions of which the answer to a rotation was lost
  overlapped, \* (history) sessions rotated while a revocation was reading them
  revoked     \* (history) sessions whose revocation has written its rows

server  == <<rows, life, marker, cleanup>>
browser == <<jar, tab, lock, told>>
history == <<dropped, overlapped, revoked>>
vars == <<server, browser, refresh, leave, revoke, sock, todo, history>>

Browsers == {BrowserOf[t] : t \in Tabs}
Calls == (Tabs \X {"refresh", "leave"}) \union Requests
Reasons == {"LOGOUT", "LOGOUT_ALL", "REUSE_DETECTED", "PASSWORD_RESET"}

NoAccess  == [session |-> None, left |-> 0]
NoRefresh == [pc |-> "idle", attempt |-> 0, token |-> None, grace |-> 0, left |-> 0,
              reply |-> "none"]
NoLeave   == [pc |-> "idle", all |-> FALSE, token |-> None]
NoRevoke  == [pc |-> "idle", of |-> {}, seen |-> {}, why |-> "LOGOUT"]
NoSocket  == [st |-> "none", session |-> None, overtaken |-> FALSE]
SignedOut == [status |-> "anonymous", leaving |-> FALSE, access |-> NoAccess]

Init ==
  /\ rows = [f \in Families |-> <<>>]
  /\ life = [f \in Families |-> 0]
  /\ marker = [f \in Families |-> 0]
  /\ cleanup = FALSE
  /\ jar = [b \in Browsers |-> None]
  /\ tab = [t \in Tabs |-> SignedOut]
  /\ refresh = [t \in Tabs |-> NoRefresh]
  /\ lock = [b \in Browsers |-> <<>>]
  /\ leave = [t \in Tabs |-> NoLeave]
  /\ revoke = [c \in Calls |-> NoRevoke]
  /\ sock = [t \in Tabs |-> NoSocket]
  /\ told = {}
  /\ todo \in Scripts
  /\ dropped = {} /\ overlapped = {} /\ revoked = {}

-----------------------------------------------------------------------------
(* The table of refresh tokens. *)

Row(left) == [st |-> "live", grace |-> 0, left |-> left]

Live(f, n) == n \in DOMAIN rows[f] /\ rows[f][n].st = "live"
LiveTokens(S) == UNION {{f} \X {n \in DOMAIN rows[f] : Live(f, n)} : f \in S}

Smaller(a, b) == IF a < b THEN a ELSE b

\* The cookie a request of the browser carries: it expires with its token.
Presented(b) ==
  IF jar[b] = None \/ rows[jar[b][1]][jar[b][2]].left = 0 THEN None ELSE jar[b]

-----------------------------------------------------------------------------
(* Signing in: createSession, and the answer of /auth/login in the tab.    *)

CreateSession(f) ==
  /\ rows[f] = <<>> /\ \A g \in 1 .. f - 1 : rows[g] # <<>>
  /\ rows' = [rows EXCEPT ![f] = <<Row(RefreshTtl)>>]
  /\ life' = [life EXCEPT ![f] = FamilyTtl]
  /\ cleanup' = TRUE
  /\ UNCHANGED marker

\* The deletion createSession starts and does not wait for.
DeleteExpired ==
  /\ cleanup
  /\ cleanup' = FALSE
  /\ rows' = [f \in Families |-> [n \in DOMAIN rows[f] |->
                IF rows[f][n].left = 0 THEN [rows[f][n] EXCEPT !.st = "gone"] ELSE rows[f][n]]]
  /\ UNCHANGED <<life, marker, browser, refresh, leave, revoke, sock, todo, history>>

\* The Set-Cookie header, then setSession in the tab.
SetSession(t, f, n, left) ==
  /\ jar' = [jar EXCEPT ![BrowserOf[t]] = <<f, n>>]
  /\ tab' = [tab EXCEPT ![t].status = "authenticated",
                        ![t].access = [session |-> f, left |-> left]]

\* signOut of the store; the page then closes the socket of the session.
SignOut(t) ==
  /\ tab' = [tab EXCEPT ![t] = SignedOut]
  /\ sock' = [sock EXCEPT ![t] = NoSocket]

\* The page is loaded again: the access token is gone, the cookie is not.
Reload(t) ==
  /\ <<"reload", t>> \in todo /\ tab[t].status # "booting"
  /\ refresh[t] = NoRefresh /\ leave[t] = NoLeave
  /\ tab' = [tab EXCEPT ![t] = [SignedOut EXCEPT !.status = "booting"]]
  /\ sock' = [sock EXCEPT ![t] = NoSocket]
  /\ told' = told \ {t}
  /\ todo' = todo \ {<<"reload", t>>}
  /\ UNCHANGED <<server, jar, lock, refresh, leave, revoke, history>>

-----------------------------------------------------------------------------
(* refreshAccessToken: single flight in the tab, a lock across tabs.       *)

\* Bound: no session is rotated beyond MaxGen.
WithinBound(t) ==
  LET b == BrowserOf[t] IN jar[b] # None => jar[b][2] + Len(lock[b]) < MaxGen

\* At start-up, or when a request or the handshake met TOKEN_EXPIRED.
RefreshStart(t) ==
  /\ refresh[t] = NoRefresh /\ WithinBound(t)
  /\ \/ tab[t].status = "booting"
     \/ tab[t].status = "authenticated" /\ tab[t].access.left = 0
  /\ refresh' = [refresh EXCEPT ![t].pc = "wait"]
  /\ lock' = [lock EXCEPT ![BrowserOf[t]] = Append(@, t)]
  /\ UNCHANGED <<server, jar, tab, told, leave, revoke, sock, todo, history>>

\* (Mutant: two tabs refresh at once, as without the lock.)
HoldsLockAlways(t) == TRUE
HoldsLock(t) == Head(lock[BrowserOf[t]]) = t

Send(t, attempt) ==
  refresh' = [refresh EXCEPT ![t] = [NoRefresh EXCEPT
                !.pc = "sent", !.attempt = attempt, !.token = Presented(BrowserOf[t])]]

RefreshSend(t) ==
  /\ refresh[t].pc = "wait" /\ HoldsLock(t)
  /\ Send(t, 0)
  /\ UNCHANGED <<server, browser, leave, revoke, sock, todo, history>>

Answer(t, what) == refresh' = [refresh EXCEPT ![t].pc = "reply", ![t].reply = what]

InGrace(row) == row.grace > 0

\* POST /auth/refresh up to the transaction of rotateSession.
RotateRead(t) ==
  LET k   == refresh[t].token
      row == rows[k[1]][k[2]] IN
  /\ refresh[t].pc = "sent"
  /\ \/ k = None /\ Answer(t, "absent") /\ UNCHANGED revoke
     \/ /\ k # None
        /\ \/ row.st \in Reasons \union {"gone"} /\ Answer(t, "invalid") /\ UNCHANGED revoke
           \/ row.st = "ROTATED" /\ InGrace(row) /\ Answer(t, "stale") /\ UNCHANGED revoke
           \/ /\ row.st = "ROTATED" /\ ~InGrace(row)
              /\ revoke' = [revoke EXCEPT ![<<t, "refresh">>] =
                              [NoRevoke EXCEPT !.pc = "scan", !.of = {k[1]},
                                               !.why = "REUSE_DETECTED"]]
              /\ refresh' = [refresh EXCEPT ![t].pc = "revoking"]
           \/ row.st = "live" /\ row.left = 0 /\ Answer(t, "expired") /\ UNCHANGED revoke
           \/ /\ row.st = "live" /\ row.left > 0
              /\ refresh' = [refresh EXCEPT ![t].pc = "rotate", ![t].grace = Grace,
                               ![t].left = Smaller(RefreshTtl, life[k[1]])]
              /\ UNCHANGED revoke
  /\ UNCHANGED <<server, browser, leave, sock, todo, history>>

\* (Mutant: the transaction does not look at revokedAt again.)
ClaimedBlind(f, n) == rows[f][n].st # "gone"
Claimed(f, n) == rows[f][n].st = "live"

\* Rows a revocation has seen and not changed yet.
BeingRevoked(f) == \E c \in Calls : revoke[c].pc = "write" /\ f \in revoke[c].of

\* The transaction: the token is spent and the next one created, or not.
Rotate(t) ==
  LET f == refresh[t].token[1]
      n == refresh[t].token[2] IN
  /\ refresh[t].pc = "rotate"
  /\ \/ /\ Claimed(f, n)
        /\ rows' = [rows EXCEPT ![f] =
             Append([@ EXCEPT ![n].st = "ROTATED", ![n].grace = refresh[t].grace],
                    Row(refresh[t].left))]
        /\ refresh' = [refresh EXCEPT ![t].pc = "reply", ![t].reply = "ok",
                                      ![t].left = AccessTtl]
        /\ overlapped' = IF BeingRevoked(f) THEN overlapped \union {f} ELSE overlapped
     \/ /\ ~Claimed(f, n)
        /\ Answer(t, "stale")
        /\ UNCHANGED <<rows, overlapped>>
  /\ UNCHANGED <<life, marker, cleanup, browser, leave, revoke, sock, todo, dropped, revoked>>

ReuseRevoked(t) ==
  /\ refresh[t].pc = "revoking" /\ revoke[<<t, "refresh">>].pc = "done"
  /\ Answer(t, "reuse")
  /\ revoke' = [revoke EXCEPT ![<<t, "refresh">>] = NoRevoke]
  /\ UNCHANGED <<server, browser, leave, sock, todo, history>>

\* (Mutant: a refresh that failed keeps the lock.)
ReleaseNever(t) == UNCHANGED lock
Release(t) == lock' = [lock EXCEPT ![BrowserOf[t]] = Tail(@)]

Ended(t) == refresh' = [refresh EXCEPT ![t] = NoRefresh]

\* Every refusal but one clears the cookie, whatever it holds by now.
RefreshDeliver(t) ==
  LET reply == refresh[t].reply
      b     == BrowserOf[t] IN
  /\ refresh[t].pc = "reply"
  /\ \/ /\ reply = "ok"
        /\ SetSession(t, refresh[t].token[1], refresh[t].token[2] + 1, refresh[t].left)
        /\ Ended(t) /\ Release(t)
        /\ UNCHANGED sock
     \/ /\ reply = "stale" /\ refresh[t].attempt = 0
        /\ Send(t, 1)
        /\ UNCHANGED <<jar, tab, sock, lock>>
     \/ /\ reply # "ok" /\ (reply = "stale" => refresh[t].attempt = 1)
        /\ jar' = IF reply \in {"stale", "absent"} THEN jar ELSE [jar EXCEPT ![b] = None]
        /\ SignOut(t)
        /\ Ended(t) /\ Release(t)
  /\ UNCHANGED <<server, told, leave, revoke, todo, history>>

\* The request or its answer is lost: at start-up that means signed out,
\* later the caller gets the error and the session stays as it is.
RefreshLost(t) ==
  /\ refresh[t].pc \in {"sent", "reply"} /\ <<"lose", t>> \in todo
  /\ IF tab[t].status = "booting" THEN SignOut(t) ELSE UNCHANGED <<tab, sock>>
  /\ Ended(t) /\ Release(t)
  /\ dropped' = IF refresh[t].reply = "ok" THEN dropped \union {refresh[t].token[1]} ELSE dropped
  /\ todo' = todo \ {<<"lose", t>>}
  /\ UNCHANGED <<server, jar, told, leave, revoke, overlapped, revoked>>

-----------------------------------------------------------------------------
(* revokeSessions and revokeAllSessions, on behalf of a request c.         *)

\* revokeAllSessions: the sessions with a token not revoked.
RevokeFind(c) ==
  LET open == {k[1] : k \in LiveTokens(Families)} IN
  /\ revoke[c].pc = "find"
  /\ revoke' = [revoke EXCEPT ![c].pc = IF open = {} THEN "done" ELSE "scan", ![c].of = open]
  /\ UNCHANGED <<server, browser, refresh, leave, sock, todo, history>>

RevokeScan(c) ==
  /\ revoke[c].pc = "scan"
  /\ revoke' = [revoke EXCEPT ![c].pc = "write", ![c].seen = LiveTokens(revoke[c].of)]
  /\ UNCHANGED <<server, browser, refresh, leave, sock, todo, history>>

RevokeWrite(c) ==
  /\ revoke[c].pc = "write"
  /\ rows' = [f \in Families |-> [n \in DOMAIN rows[f] |->
       IF <<f, n>> \in revoke[c].seen /\ Live(f, n)
       THEN [rows[f][n] EXCEPT !.st = revoke[c].why] ELSE rows[f][n]]]
  /\ revoke' = [revoke EXCEPT ![c].pc = "mark", ![c].seen = {}]
  /\ revoked' = revoked \union revoke[c].of
  /\ UNCHANGED <<life, marker, cleanup, browser, refresh, leave, sock, todo,
                 dropped, overlapped>>

MarkerTtl == AccessTtl

RevokeMark(c) ==
  /\ revoke[c].pc = "mark"
  /\ marker' = [f \in Families |-> IF f \in revoke[c].of THEN MarkerTtl ELSE marker[f]]
  /\ revoke' = [revoke EXCEPT ![c].pc = "tell"]
  /\ UNCHANGED <<rows, life, cleanup, browser, refresh, leave, sock, todo, history>>

\* The 'sessions-revoked' event: every socket of the sessions is closed; one
\* whose handshake has been checked but that has not joined is not among them.
RevokeTell(c) ==
  /\ revoke[c].pc = "tell"
  /\ sock' = [t \in Tabs |->
       IF sock[t].session \notin revoke[c].of THEN sock[t]
       ELSE CASE sock[t].st = "up"      -> [sock[t] EXCEPT !.st = "kicked"]
              [] sock[t].st = "checked" -> [sock[t] EXCEPT !.overtaken = TRUE]
              [] OTHER -> sock[t]]
  /\ revoke' = [revoke EXCEPT ![c].pc = "done", ![c].of = {}]
  /\ UNCHANGED <<server, browser, refresh, leave, todo, history>>

RevokeStep(c) == RevokeFind(c) \/ RevokeScan(c) \/ RevokeWrite(c) \/ RevokeMark(c) \/ RevokeTell(c)

-----------------------------------------------------------------------------
(* logout and logoutEverywhere.                                            *)

Logout(t) ==
  /\ tab[t].status = "authenticated" /\ leave[t] = NoLeave
  /\ \E all \in BOOLEAN :
       /\ <<IF all THEN "logout-all" ELSE "logout", t>> \in todo
       /\ leave' = [leave EXCEPT ![t] = [pc |-> "sent", all |-> all,
                                         token |-> Presented(BrowserOf[t])]]
       /\ todo' = todo \ {<<IF all THEN "logout-all" ELSE "logout", t>>}
  /\ tab' = [tab EXCEPT ![t].leaving = TRUE]
  /\ UNCHANGED <<server, jar, lock, told, refresh, revoke, sock, history>>

LeaveRevoke(t, pc, S, why) ==
  /\ revoke' = [revoke EXCEPT ![<<t, "leave">>] =
                  [NoRevoke EXCEPT !.pc = pc, !.of = S, !.why = why]]
  /\ leave' = [leave EXCEPT ![t].pc = "revoking"]

Leaving(t, pc) == leave' = [leave EXCEPT ![t].pc = pc] /\ UNCHANGED revoke

\* The server's side up to the revocation. Signing out everywhere needs the
\* access token; an expired one is refreshed once and the request repeated.
LeaveRead(t) ==
  LET k      == leave[t].token
      access == tab[t].access IN
  /\ leave[t].pc \in {"sent", "resent"}
  /\ \/ /\ ~leave[t].all
        /\ IF k = None \/ rows[k[1]][k[2]].st = "gone" THEN Leaving(t, "reply")
           ELSE LeaveRevoke(t, "scan", {k[1]}, "LOGOUT")
     \/ /\ leave[t].all
        /\ \/ access.left = 0 /\ Leaving(t, IF leave[t].pc = "sent" THEN "refresh" ELSE "denied")
           \/ access.left > 0 /\ marker[access.session] > 0 /\ Leaving(t, "denied")
           \/ access.left > 0 /\ marker[access.session] = 0 /\ LeaveRevoke(t, "find", {}, "LOGOUT_ALL")
  /\ UNCHANGED <<server, browser, refresh, sock, todo, history>>

\* The repeated request, once the refresh it waited for is over.
LeaveAgain(t) ==
  /\ leave[t].pc = "refresh" /\ refresh[t] = NoRefresh
  /\ \/ tab[t].access.left > 0
     \/ tab[t].status # "authenticated"
     \/ ~WithinBound(t)
  /\ leave' = [leave EXCEPT ![t].pc = IF tab[t].access.left > 0 THEN "resent" ELSE "denied"]
  /\ UNCHANGED <<server, browser, refresh, revoke, sock, todo, history>>

LeaveRevoked(t) ==
  /\ leave[t].pc = "revoking" /\ revoke[<<t, "leave">>].pc = "done"
  /\ leave' = [leave EXCEPT ![t].pc = "reply"]
  /\ revoke' = [revoke EXCEPT ![<<t, "leave">>] = NoRevoke]
  /\ UNCHANGED <<server, browser, refresh, sock, todo, history>>

\* Whatever became of the request, the tab is signed out and tells the others.
LeaveDone(t) ==
  LET b == BrowserOf[t] IN
  /\ \/ leave[t].pc \in {"reply", "denied"} /\ UNCHANGED todo
     \/ /\ leave[t].pc \in {"sent", "reply"} /\ <<"lose", t>> \in todo
        /\ todo' = todo \ {<<"lose", t>>}
  /\ jar' = IF leave[t].pc = "reply" /\ todo' = todo THEN [jar EXCEPT ![b] = None] ELSE jar
  /\ SignOut(t)
  /\ told' = told \union {u \in Tabs \ {t} : BrowserOf[u] = b}
  /\ leave' = [leave EXCEPT ![t] = NoLeave]
  /\ UNCHANGED <<server, lock, refresh, revoke, history>>

\* The 'signed-out' message in another tab.
HearSignedOut(t) ==
  /\ t \in told
  /\ told' = told \ {t}
  /\ IF tab[t].status = "authenticated" THEN SignOut(t) ELSE UNCHANGED <<tab, sock>>
  /\ UNCHANGED <<server, jar, lock, refresh, leave, revoke, todo, history>>

-----------------------------------------------------------------------------
(* The socket of a tab: the handshake is checked, then the socket joins    *)
(* the channel of its session. Bound: a script names the tabs whose socket *)
(* it follows.                                                             *)

\* (Mutant: the handshake does not ask for the marker.)
AdmittedAlways(f) == TRUE
Admitted(f) == marker[f] = 0

SocketCheck(t) ==
  LET f == tab[t].access.session IN
  /\ <<"socket", t>> \in todo
  /\ tab[t].status = "authenticated" /\ sock[t] = NoSocket
  /\ tab[t].access.left > 0
  /\ sock' = [sock EXCEPT ![t] = [NoSocket EXCEPT
                !.st = IF Admitted(f) THEN "checked" ELSE "closed", !.session = f]]
  /\ UNCHANGED <<server, browser, refresh, leave, revoke, todo, history>>

SocketJoin(t) ==
  /\ sock[t].st = "checked"
  /\ sock' = [sock EXCEPT ![t].st = "up"]
  /\ UNCHANGED <<server, browser, refresh, leave, revoke, todo, history>>

\* 'io server disconnect': news, unless this tab is signing itself out.
SocketKicked(t) ==
  /\ sock[t].st = "kicked"
  /\ IF tab[t].leaving
     THEN sock' = [sock EXCEPT ![t].st = "closed"] /\ UNCHANGED tab
     ELSE SignOut(t)
  /\ UNCHANGED <<server, jar, lock, told, refresh, leave, revoke, todo, history>>

-----------------------------------------------------------------------------
(* Time. *)

Less(n) == IF n > 0 THEN n - 1 ELSE 0

\* Bound: a script has so many units of time.
Tick ==
  /\ \E n \in 1 .. FamilyTtl : /\ <<"tick", n>> \in todo /\ <<"tick", n + 1>> \notin todo
                               /\ todo' = todo \ {<<"tick", n>>}
  /\ rows' = [f \in Families |-> [n \in DOMAIN rows[f] |->
                [rows[f][n] EXCEPT !.grace = Less(@), !.left = Less(@)]]]
  /\ life' = [f \in Families |-> Less(life[f])]
  /\ marker' = [f \in Families |-> Less(marker[f])]
  /\ tab' = [t \in Tabs |-> [tab[t] EXCEPT !.access.left = Less(@)]]
  /\ refresh' = [t \in Tabs |-> [refresh[t] EXCEPT !.grace = Less(@), !.left = Less(@)]]
  /\ UNCHANGED <<cleanup, jar, lock, told, leave, revoke, sock, history>>

-----------------------------------------------------------------------------
TabStep(t) ==
  \/ RefreshSend(t) \/ RotateRead(t) \/ Rotate(t) \/ ReuseRevoked(t) \/ RefreshDeliver(t)
  \/ LeaveRead(t) \/ LeaveAgain(t) \/ LeaveRevoked(t) \/ LeaveDone(t) \/ HearSignedOut(t)
  \/ SocketJoin(t) \/ SocketKicked(t)

\* Everything but time, signing in and the other requests, which are in
\* Accounts.
SessionStep ==
  \/ \E t \in Tabs : \/ TabStep(t) \/ RefreshStart(t) \/ RefreshLost(t)
                     \/ Reload(t) \/ Logout(t) \/ SocketCheck(t)
  \/ \E c \in Calls : RevokeStep(c)
  \/ DeleteExpired

-----------------------------------------------------------------------------
(* Properties.                                                             *)

\* Browsers that refresh under the lock never trip over each other: a session
\* is ended for reuse of a token only after the answer to one of its
\* rotations was lost, so that a cookie really was an old one.
ReuseMeansLost ==
  \A f \in Families :
    (\E n \in DOMAIN rows[f] : rows[f][n].st = "REUSE_DETECTED") => f \in dropped

\* Revocation in progress on a session, before its sockets are told.
Unfinished(f) == \E c \in Calls : revoke[c].pc \in {"write", "mark", "tell"} /\ f \in revoke[c].of

\* server.ts: every socket opened under a revoked session is closed; the one
\* that stays open passed its handshake before the revocation and joined the
\* channel after it.
SocketsClosed ==
  \A f \in Families : f \in revoked /\ ~Unfinished(f) /\ f \notin overlapped =>
    \A t \in Tabs : sock[t].session = f /\ sock[t].st = "up" => sock[t].overtaken

\* The number of the good token of a session, for SessionLife.
Current(f) ==
  IF rows[f] = <<>> THEN 0
  ELSE IF rows[f][Len(rows[f])].st = "live" THEN Len(rows[f]) ELSE -1

Life == INSTANCE SessionLife WITH current <- [f \in Families |-> Current(f)]

\* Tokens of a session are good one at a time, in order, and an ended session
\* does not come back: the store implements SessionLife.
LifeSpec == Life!Spec

\* A refresh always comes to an end, whoever else refreshes, signs out or
\* loses an answer: nobody keeps the lock of the browser.
RefreshEnds == \A t \in Tabs : refresh[t].pc = "wait" ~> refresh[t] = NoRefresh

\* What the event loops of the tabs and of the server get done.
Fairness ==
  /\ \A t \in Tabs : WF_vars(TabStep(t))
  /\ \A c \in Calls : WF_vars(RevokeStep(c))

=============================================================================
