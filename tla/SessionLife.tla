---------------------------- MODULE SessionLife ----------------------------
(***************************************************************************)
(* What session.service.ts promises about a session: it is opened once by  *)
(* a sign-in, its refresh tokens are numbered and used strictly one after  *)
(* the other, at most one of them is good at any time, and once the last   *)
(* one is spent or revoked the session never comes back.                   *)
(***************************************************************************)
EXTENDS Integers

CONSTANTS Families   \* session ids (the familyId of a refresh token)

VARIABLE current     \* the number of the good refresh token of a session

Unopened == 0        \* nobody signed in under this id yet
Shut     == -1       \* the session has ended

TypeOK == current \in [Families -> Nat \union {Shut}]

Init == current = [f \in Families |-> Unopened]

Open(f) ==
  /\ current[f] = Unopened
  /\ current' = [current EXCEPT ![f] = 1]

\* The good token is exchanged for the next one.
Rotate(f) ==
  /\ current[f] >= 1
  /\ current' = [current EXCEPT ![f] = @ + 1]

\* Some of the open sessions end, together.
Close(S) ==
  /\ S # {}
  /\ \A f \in S : current[f] >= 1
  /\ current' = [f \in Families |-> IF f \in S THEN Shut ELSE current[f]]

Next ==
  \/ \E f \in Families : Open(f) \/ Rotate(f)
  \/ \E S \in SUBSET Families : Close(S)

Spec == Init /\ [][Next]_current
=============================================================================
