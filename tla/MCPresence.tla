----------------------------- MODULE MCPresence -----------------------------
(* Presence on a small instance: person u1 has two tabs.                   *)
EXTENDS Presence, TLC

CONSTANTS u1, u2, u3, s1, s1b, s2, s3

MCUserOf == (s1 :> u1) @@ (s1b :> u1) @@ (s2 :> u2) @@ (s3 :> u3)
=============================================================================
