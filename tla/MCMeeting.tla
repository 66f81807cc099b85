------------------------------ MODULE MCMeeting ------------------------------
(***************************************************************************)
(* Two tabs of ann, who hosts, and one of ben, on two processes p and q.   *)
(* Each situation of MCScripts says who is in the meeting at first and     *)
(* what may happen, in any order and at any time; each of it once.         *)
(***************************************************************************)
EXTENDS Roster

CONSTANTS p, q

MCPersonOf == [a1 |-> "ann", a2 |-> "ann", b |-> "ben"]
MCProcOf == [a1 |-> <<p, q>>, a2 |-> <<q, p>>, b |-> <<q, p>>]

Situation(inCall, presents, ops) == [inCall |-> inCall, presents |-> presents, ops |-> ops]

Meet   == Situation({}, None, {<<"open", "a1">>, <<"open", "a2">>, <<"open", "b">>})
Move   == Situation({"a1", "b"}, None, {<<"open", "a2">>, <<"mute", "a1">>, <<"close", "a1">>, <<"share", "b">>})
Back   == Situation({"a1", "b"}, None, {<<"open", "a2">>, <<"rejoin", "a1">>, <<"mute", "b">>})
Blink  == Situation({"a1", "b"}, None, {<<"drop", "b">>, <<"mute", "a1">>, <<"mute", "b">>})
Lapse  == Situation({"a1", "b"}, "a1", {<<"drop", "a1">>, <<"drop", "b">>})
Present == Situation({"a1", "b"}, None, {<<"share", "a1">>, <<"stop", "a1">>, <<"share", "b">>, <<"stop", "b">>, <<"open", "a2">>})
Watch  == Situation({"a1"}, "a1", {<<"open", "b">>, <<"stop", "a1">>, <<"share", "a1">>, <<"mute", "a1">>})
Quit   == Situation({"a1", "b"}, "a1", {<<"close", "a1">>, <<"open", "a1">>, <<"share", "b">>, <<"close", "b">>})
Crashes == Situation({"a1", "b"}, "b", {<<"crash", q>>, <<"mute", "a1">>, <<"stop", "b">>, <<"mute", "b">>})
Locks  == Situation({"a1", "b"}, None, {<<"lock", "a1">>, <<"drop", "b">>})
Shut   == Situation({"a1"}, None, {<<"lock", "a1">>, <<"open", "b">>, <<"mute", "a1">>})
Return == Situation({"a1", "b"}, None, {<<"open", "a2">>, <<"close", "a1">>, <<"open", "a1">>})
Gone   == Situation({"a1", "b"}, "b", {<<"drop", "b">>, <<"close", "b">>, <<"open", "b">>})
Silent == Situation({"a1", "b"}, None, {<<"lock", "a1">>, <<"crash", q>>})
Ends   == Situation({"a1", "b"}, "b", {<<"end", "a1">>, <<"open", "a2">>, <<"close", "b">>})

MCScripts == {Meet, Move, Back, Blink, Lapse, Present, Watch, Quit, Crashes, Locks, Shut, Return, Gone, Silent, Ends}
=============================================================================
