------------------------------- MODULE MCCall -------------------------------
(***************************************************************************)
(* Two tabs, of two people. Each situation of MCScripts says which of them *)
(* is in the call at first, with which socket, camera and picture, and     *)
(* what may happen, in any order and at any time; each of it once.         *)
(***************************************************************************)
EXTENDS Call

\* Sockets 1 and 3 are ann's, so that she is the impolite side of ben's 2, or not.
MCOwnerOf == <<"ann", "ben", "ann", "ben">>
MCCameras == [ann |-> <<"ann1", "ann2", "ann3">>, ben |-> <<"ben1">>]
MCSize == [f |-> 2, g |-> 1]

First  == [ann |-> 1, ben |-> 2]
Second == [ann |-> 3, ben |-> 2]

Situation(ids, inCall, cameras, ops) ==
  LET own == [t \in Tabs |-> IF t \in cameras THEN MCCameras[t][1] ELSE None] IN
  [ids |-> ids, inCall |-> inCall, tracks |-> own, sends |-> own, ops |-> ops]

Presenting(s) == [s EXCEPT !.sends["ann"] = "screen"]

InCallAll(ops) == Situation(First, Tabs, {}, ops)

\* People come and go; sockets and messages are lost.
Meet    == Situation(First, {}, {}, {"join"} \X Tabs)
MeetBad == Situation(First, {}, {}, ({"join"} \X Tabs) \union {<<"lose", 1>>})
Return  == InCallAll({<<"leave", "ben">>, <<"join", "ben">>, <<"lose", 1>>})
DropBen == InCallAll({<<"drop", "ben">>})

\* Connections fail.
Blips   == InCallAll({<<"blip", "ann">>, <<"blip", "ben">>})
FailBen == InCallAll({<<"fail", "ben">>})
Dtls    == InCallAll({<<"dtls", "ben">>, <<"blip", "ann">>})

\* Cameras and screens.
DropPresenting  == Presenting(Situation(First, Tabs, {"ann"}, {<<"drop", "ann">>}))
LeavePresenting == Presenting(Situation(First, Tabs, {"ann"},
                     {<<"leave", "ann">>, <<"join", "ann">>, <<"camera", "ann">>}))
FailPresenting  == Presenting(Situation(First, Tabs, {"ann"}, {<<"stop", "ann">>, <<"fail", "ann">>}))
Share   == Situation(Second, {"ben"}, {"ben"}, {<<"join", "ann">>, <<"share", "ann">>, <<"camera", "ann">>})
Choose  == Situation(First, Tabs, {"ann"},
             {<<"switch", "ann", 2>>, <<"switch", "ann", 3>>, <<"share", "ann">>, <<"stop", "ann">>, <<"deny", "ann">>})
Depart  == Situation(First, Tabs, {"ann"}, {<<"share", "ann">>, <<"leave", "ann">>, <<"switch", "ann", 2>>})
Refuse  == Situation(First, {}, {}, {<<"join", "ann">>, <<"leave", "ann">>, <<"camera", "ann">>,
                                     <<"deny", "ann">>, <<"switch", "ann", 2>>})

\* The lobby.
Prepare == Situation(First, {}, {}, {<<"visit", "ann", 1>>, <<"preview", "ann">>, <<"try", "ann", 2>>, <<"enter", "ann">>,
                                     <<"join", "ann">>, <<"camera", "ann">>, <<"switch", "ann", 1>>, <<"leave", "ann">>})
Wander  == Situation(First, {}, {}, {<<"visit", "ann", 1>>, <<"visit", "ann", 2>>, <<"preview", "ann">>, <<"refuse", "ann">>,
                                     <<"try", "ann", 2>>, <<"try", "ann", 3>>, <<"back", "ann">>, <<"enter", "ann">>, <<"deny", "ann">>})

\* Files.
SendBoth == InCallAll({<<"send", "ann", "f">>, <<"send", "ann", "g">>, <<"send", "ben", "g">>})
Retract  == InCallAll({<<"send", "ann", "f">>, <<"send", "ann", "g">>, <<"cancel", "ann">>})
Decline  == InCallAll({<<"send", "ann", "f">>, <<"send", "ann", "g">>, <<"cancel", "ben">>})
SendGone == InCallAll({<<"send", "ann", "f">>, <<"send", "ann", "g">>, <<"leave", "ben">>})
SendBack == InCallAll({<<"send", "ann", "g">>, <<"leave", "ben">>, <<"join", "ben">>})

MCScripts == {Meet, MeetBad, Return, DropBen, Blips, FailBen, Dtls, DropPresenting, LeavePresenting,
              FailPresenting, Share, Choose, Depart, Refuse, Prepare, Wander, SendBoth, Retract, Decline, SendGone, SendBack}
=============================================================================
