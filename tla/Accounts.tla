------------------------------ MODULE Accounts ------------------------------
(***************************************************************************)
(* One email address: registration, verification, sign-in with its         *)
(* failure limit, and password reset (auth.service.ts, rate-limiter.ts,    *)
(* the routes of auth.router.ts), on top of the sessions of that person.   *)
(*                                                                         *)
(* A request runs in a slot of its own and every await is a step. The      *)
(* transaction that issues a link deletes what its first statement saw and *)
(* commits with the new link, so two of them can miss each other's.        *)
(* Passwords are numbered in the order they were chosen; 0 is a wrong one. *)
(***************************************************************************)
EXTENDS Sessions

CONSTANTS
  Limit,      \* RATE_LIMITS.loginFailures.limit
  Window,     \* and its windowMs
  LinkTtl     \* EMAIL_TOKEN_TTL_MS, PASSWORD_RESET_TOKEN_TTL_MS

ASSUME AccountsAssumption == {Limit, Window, LinkTtl} \subseteq Nat \ {0}

VARIABLES
  acct,       \* the row of User
  links,      \* EmailVerificationToken and PasswordResetToken, by age
  hits,       \* the sorted set of the limiter: time until a hit leaves it
  req         \* the request in each slot

account == <<acct, links, hits, req>>
allVars == <<vars, account>>

NoUser == [exists |-> FALSE, password |-> 0, outdated |-> FALSE, verified |-> FALSE,
           resets |-> 0]
NoRequest == [op |-> "none", pc |-> "idle", tab |-> None, pw |-> 0, user |-> NoUser,
              link |-> 0, seen |-> {}, session |-> 0, left |-> 0]

\* The address is new, or has an account whose hash may be an old one.
AccountsInit ==
  /\ Init
  /\ \/ acct = NoUser
     \/ \E outdated \in BOOLEAN :
          acct = [NoUser EXCEPT !.exists = TRUE, !.password = 1, !.outdated = outdated,
                                !.verified = TRUE]
  /\ links = <<>> /\ hits = <<>>
  /\ req = [r \in Requests |-> NoRequest]

Step(r, pc) == req' = [req EXCEPT ![r].pc = pc]
Done(r) == req' = [req EXCEPT ![r] = NoRequest]
NotSessions == UNCHANGED vars

\* A request comes in: what the person does, from tab t.
Arrive(r, op, t, pc, pw, n) ==
  /\ req[r] = NoRequest
  /\ <<op, t>> \in todo /\ todo' = todo \ {<<op, t>>}
  /\ req' = [req EXCEPT ![r] = [NoRequest EXCEPT
               !.op = op, !.pc = pc, !.tab = t, !.pw = pw, !.link = n]]
  /\ UNCHANGED <<server, browser, refresh, leave, revoke, sock, history, acct, links, hits>>

-----------------------------------------------------------------------------
(* The sliding window of rate-limiter.ts.                                  *)

WithinLimit == Len(hits) < Limit

\* consume: count what is in the window and record the hit, in one script.
Consume == hits' = IF WithinLimit THEN Append(hits, Window) ELSE hits

-----------------------------------------------------------------------------
(* Links. issueVerificationToken and requestPasswordReset.                 *)

Usable(n) == links[n].st = "unused"
Unused(kind) == {n \in DOMAIN links : links[n].kind = kind /\ Usable(n)}
KindOf(r) == IF req[r].op = "forgot" THEN "reset" ELSE "verify"

\* deleteMany: these rows are locked until the transaction commits.
IssueScan(r) ==
  /\ req[r].pc = "issue"
  /\ req' = [req EXCEPT ![r].pc = "commit", ![r].seen = Unused(KindOf(r))]
  /\ NotSessions /\ UNCHANGED <<acct, links, hits>>

Reissued(ls, gone, kind) ==
  [n \in DOMAIN ls \union {Len(ls) + 1} |->
     IF n \notin DOMAIN ls THEN [kind |-> kind, st |-> "unused", left |-> LinkTtl]
     ELSE IF n \in gone THEN [ls[n] EXCEPT !.st = "deleted"] ELSE ls[n]]

IssueCommit(r) ==
  /\ req[r].pc = "commit"
  /\ links' = Reissued(links, {n \in req[r].seen : Usable(n)}, KindOf(r))
  /\ Done(r)
  /\ NotSessions /\ UNCHANGED <<acct, hits>>

\* A row another transaction is deleting is waited for.
Unlocked(n) == \A r \in Requests : n \notin req[r].seen

-----------------------------------------------------------------------------
(* register, resendVerification, requestPasswordReset. How often people ask *)
(* is up to the script.                                                     *)

\* The password typed at registration is number 1.
SubmitRegister(r) == \E t \in Tabs : Arrive(r, "register", t, "lookup", 1, 0)
SubmitResend(r)   == \E t \in Tabs : Arrive(r, "resend", t, "asked", 0, 0)
SubmitForgot(r)   == \E t \in Tabs : Arrive(r, "forgot", t, "asked", 0, 0)

\* An address not verified yet gets another link, another only a notice.
ExistingRegistration(r) == IF acct.verified THEN Done(r) ELSE Step(r, "issue")

Register(r) ==
  /\ req[r].pc = "lookup"
  /\ IF acct.exists THEN ExistingRegistration(r) ELSE Step(r, "create")
  /\ NotSessions /\ UNCHANGED <<acct, links, hits>>

\* The loser of two registrations at once takes the other path (P2002).
RegisterCreate(r) ==
  /\ req[r].pc = "create"
  /\ IF acct.exists
     THEN Step(r, "lookup") /\ UNCHANGED acct
     ELSE /\ acct' = [NoUser EXCEPT !.exists = TRUE, !.password = req[r].pw]
          /\ Step(r, "issue")
  /\ NotSessions /\ UNCHANGED <<links, hits>>

\* Both answer alike whatever they find.
ResendVerification(r) ==
  /\ req[r].op = "resend" /\ req[r].pc = "asked"
  /\ IF acct.exists /\ ~acct.verified THEN Step(r, "issue") ELSE Done(r)
  /\ NotSessions /\ UNCHANGED <<acct, links, hits>>

RequestPasswordReset(r) ==
  /\ req[r].op = "forgot" /\ req[r].pc = "asked"
  /\ IF acct.exists THEN Step(r, "issue") ELSE Done(r)
  /\ NotSessions /\ UNCHANGED <<acct, links, hits>>

-----------------------------------------------------------------------------
(* verifyEmail and resetPassword: a link is followed.                      *)

FollowLink(r) ==
  \E t \in Tabs, n \in DOMAIN links :
    Arrive(r, IF links[n].kind = "verify" THEN "verify" ELSE "reset", t, "find", 0, n)

\* The first look at the link; resetPassword then hashes the new password.
FindLink(r) ==
  LET n == req[r].link IN
  /\ req[r].pc = "find"
  /\ IF Usable(n) /\ links[n].left > 0 THEN Step(r, "claim") ELSE Done(r)
  /\ NotSessions /\ UNCHANGED <<acct, links, hits>>

Claimable(n) == links[n].st = "unused"

ClaimVerify(r) ==
  LET n == req[r].link IN
  /\ req[r].op = "verify" /\ req[r].pc = "claim" /\ Unlocked(n)
  /\ IF Claimable(n)
     THEN /\ links' = [links EXCEPT ![n].st = "used"]
          /\ acct' = [acct EXCEPT !.verified = TRUE]
     ELSE UNCHANGED <<links, acct>>
  /\ Done(r)
  /\ NotSessions /\ UNCHANGED <<hits>>

\* The new password, the address verified, and every other link gone.
ClaimReset(r) ==
  LET n == req[r].link IN
  /\ req[r].op = "reset" /\ req[r].pc = "claim" /\ Unlocked(n)
  /\ IF Claimable(n)
     THEN /\ links' = [m \in DOMAIN links |->
                         IF m = n THEN [links[m] EXCEPT !.st = "used"]
                         ELSE IF m \in Unused("reset") THEN [links[m] EXCEPT !.st = "deleted"]
                         ELSE links[m]]
          /\ acct' = [acct EXCEPT !.password = acct.resets + 2, !.resets = @ + 1,
                                  !.outdated = FALSE, !.verified = TRUE]
          /\ Step(r, "revoke")
     ELSE Done(r) /\ UNCHANGED <<links, acct>>
  /\ NotSessions /\ UNCHANGED <<hits>>

ResetRevoke(r) ==
  /\ req[r].op = "reset" /\ req[r].pc = "revoke"
  /\ revoke' = [revoke EXCEPT ![r] = [NoRevoke EXCEPT !.pc = "find", !.why = "PASSWORD_RESET"]]
  /\ Step(r, "revoking")
  /\ UNCHANGED <<server, browser, refresh, leave, sock, todo, history, acct, links, hits>>

\* The lockout is cleared; the answer clears the cookie and the tab signs out.
ResetDone(r) ==
  LET t == req[r].tab IN
  /\ req[r].pc = "revoking" /\ revoke[r].pc = "done"
  /\ revoke' = [revoke EXCEPT ![r] = NoRevoke]
  /\ hits' = <<>>
  /\ jar' = [jar EXCEPT ![BrowserOf[t]] = None]
  /\ SignOut(t)
  /\ Done(r)
  /\ UNCHANGED <<server, lock, told, refresh, leave, todo, history, acct, links>>

-----------------------------------------------------------------------------
(* login.                                                                  *)

\* With a password of the past or present, or a wrong one.
LoginArrive(r) ==
  \E t \in Tabs, pw \in 0 .. acct.resets + 1 :
    /\ tab[t].status = "anonymous"
    /\ Arrive(r, IF pw = 0 THEN "mistype" ELSE "login", t, "peek", pw, 0)

\* peek, before anything else.
LoginPeek(r) ==
  /\ req[r].pc = "peek"
  /\ IF WithinLimit THEN Step(r, "check") ELSE Done(r)
  /\ NotSessions /\ UNCHANGED <<acct, links, hits>>

\* The user is read and the password compared with what was read.
LoginCheck(r) ==
  LET right == acct.exists /\ req[r].pw = acct.password IN
  /\ req[r].pc = "check"
  /\ req' = [req EXCEPT ![r].pc = IF right THEN "clear" ELSE "count", ![r].user = acct]
  /\ NotSessions /\ UNCHANGED <<acct, links, hits>>

LoginCount(r) ==
  /\ req[r].pc = "count"
  /\ Consume
  /\ Done(r)
  /\ NotSessions /\ UNCHANGED <<acct, links>>

LoginClear(r) ==
  /\ req[r].pc = "clear"
  /\ hits' = <<>>
  /\ IF ~req[r].user.verified THEN Done(r)
     ELSE Step(r, IF req[r].user.outdated THEN "rehash" ELSE "create-session")
  /\ NotSessions /\ UNCHANGED <<acct, links>>

\* The hash is replaced by one of the password typed, whatever it is by now.
LoginRehash(r) ==
  /\ req[r].pc = "rehash"
  /\ acct' = [acct EXCEPT !.password = req[r].pw, !.outdated = FALSE]
  /\ Step(r, "create-session")
  /\ NotSessions /\ UNCHANGED <<links, hits>>

LoginCreate(r) ==
  /\ req[r].pc = "create-session"
  /\ \E f \in Families :
       /\ CreateSession(f)
       /\ req' = [req EXCEPT ![r].pc = "answer", ![r].session = f, ![r].left = AccessTtl]
  /\ UNCHANGED <<browser, refresh, leave, revoke, sock, todo, history, acct, links, hits>>

LoginAnswer(r) ==
  /\ req[r].pc = "answer"
  /\ SetSession(req[r].tab, req[r].session, 1, req[r].left)
  /\ Done(r)
  /\ UNCHANGED <<server, lock, told, refresh, leave, revoke, sock, todo, history,
                 acct, links, hits>>

-----------------------------------------------------------------------------
Aged(s) == [n \in DOMAIN s |-> s[n] - 1]
InWindow(s) == SelectSeq(Aged(s), LAMBDA left : left > 0)

AccountTick ==
  /\ Tick
  /\ links' = [n \in DOMAIN links |-> [links[n] EXCEPT !.left = Less(@)]]
  /\ hits' = InWindow(hits)
  /\ req' = [r \in Requests |-> [req[r] EXCEPT !.left = Less(@)]]
  /\ UNCHANGED acct

RequestStep(r) ==
  \/ SubmitRegister(r) \/ Register(r) \/ RegisterCreate(r)
  \/ SubmitResend(r) \/ ResendVerification(r) \/ SubmitForgot(r) \/ RequestPasswordReset(r)
  \/ IssueScan(r) \/ IssueCommit(r) \/ FollowLink(r) \/ FindLink(r) \/ ClaimVerify(r)
  \/ ClaimReset(r) \/ ResetRevoke(r) \/ ResetDone(r)
  \/ LoginArrive(r) \/ LoginPeek(r) \/ LoginCheck(r) \/ LoginCount(r) \/ LoginClear(r)
  \/ LoginRehash(r) \/ LoginCreate(r) \/ LoginAnswer(r)

AccountsNext ==
  \/ SessionStep /\ UNCHANGED account
  \/ AccountTick
  \/ \E r \in Requests : RequestStep(r)

AccountsSpec == AccountsInit /\ [][AccountsNext]_allVars

-----------------------------------------------------------------------------
(* Properties.                                                             *)

AccountsFair == AccountsSpec /\ Fairness
=============================================================================
