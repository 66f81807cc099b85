----------------------------- MODULE MCRoomContent -----------------------------
EXTENDS RoomContent

MCPersonOf == [a1 |-> "ann", a2 |-> "ann", b1 |-> "bob"]

MCUploaderOf == [f1 |-> "a1", f2 |-> "a1", f3 |-> "b1"]

MCSenderOf == [m1 |-> "a1", m2 |-> "a1", m3 |-> "b1"]

Script(paired, members, holders, devices, signedIn, ops) ==
  [paired |-> paired, members |-> members, holders |-> holders, devices |-> devices,
   signedIn |-> signedIn, inCall |-> {}, posted |-> <<>>, stored |-> {}, ops |-> ops]

AB == {"a1", "b1"}

\* In the call with the key from the start, after `posted' was sent and `stored'
\* was shared.
InCall(tabs, posted, stored, ops) ==
  LET p == {MCPersonOf[t] : t \in AB} IN
  [paired |-> p, members |-> p, holders |-> p, devices |-> AB,
   signedIn |-> AB, inCall |-> tabs, posted |-> posted, stored |-> stored, ops |-> ops]

Both == {"enter"} \X AB

\* Two people without keys enter a new room at once.
NewRoom == Script({"ann", "bob"}, {}, {}, AB, AB, Both)
\* Bob is new, and the only holder is disconnected meanwhile.
Dropped == [Script({"ann", "bob"}, {"ann"}, {"ann"}, AB, AB, {<<"enter", "b1">>, <<"drop", "a1">>})
              EXCEPT !.inCall = {"a1"}]
\* Bob comes and goes.
Leaving == Script({"ann", "bob"}, {"ann"}, {"ann"}, AB, AB, Both \union {<<"leave", "b1">>})
\* The only holder resets the password during the call.
LastHolder == [Script({"ann", "bob"}, {"ann"}, {"ann"}, AB, AB, {<<"enter", "b1">>, <<"reset", "a1">>})
                 EXCEPT !.inCall = {"a1"}]
\* Ann resets the password by a link and signs in with it in another browser.
NewPairs == [Script({"ann", "bob"}, {"ann", "bob"}, {"bob"}, AB, {"b1"},
                    {<<"drop", "b1">>, <<"reset", "a2">>, <<"login", "a2">>, <<"enter", "a2">>})
               EXCEPT !.inCall = {"b1"}]
\* Two browsers sign in to an account without keys, or whose keys a reset dropped.
TwoBrowsers == Script({"ann"}, {}, {}, {"a1"}, {"a1"},
                      {<<"reset", "a1">>, <<"login", "a2">>, <<"login", "a1">>, <<"enter", "a1">>})
\* Ann holds the key but not on this device, where it has to be unlocked.
Locked == Script({"ann", "bob"}, {"ann"}, {"ann"}, {"b1"}, AB, Both \union {<<"unlock", "a1">>})

\* Bob is disconnected while Ann sends a message, or two.
Missing == InCall(AB, <<>>, {}, ({"send"} \X {"m1", "m2"}) \union {<<"drop", "b1">>})
\* Ann is, while she sends.
Resent == InCall(AB, <<>>, {}, {<<"send", "m1">>, <<"drop", "a1">>, <<"retry", "m1">>})
\* Bob comes late, and loads older messages.
Late == InCall({"a1"}, <<"m1", "m3">>, {}, {<<"enter", "b1">>, <<"older", "b1">>, <<"send", "m2">>, <<"flood", "m2">>})

Purging == {<<"purge", 1>>, <<"purge", 2>>}

\* Ann shares a file; it may be cancelled, deleted by Bob, the host, and
\* purged.
Shared == InCall(AB, <<>>, {}, {<<"share", "f1">>, <<"cancel", "f1">>, <<"remove", "f1">>, <<"lose", "f1">>,
                               <<"hour", "f1">>, <<"purge", 1>>})
\* Ann leaves while she shares one, and it takes more than an hour.
Abandoned == InCall(AB, <<>>, {}, {<<"share", "f1">>, <<"leave", "a1">>, <<"hour", "f1">>, <<"purge", 1>>})
\* Two of three files expire, one cannot be deleted; processes die and are slow.
Expired == InCall({"b1"}, <<>>, {"f1", "f2", "f3"},
                  Purging \union ({"week"} \X {"f1", "f2"}) \union {<<"stuck", "f1">>, <<"slow", None>>, <<"die", 1>>})
\* Bob deletes a file when it expires, which the storage fails to do once.
Faltering == InCall({"b1"}, <<>>, {"f1"}, Purging \union {<<"week", "f1">>, <<"remove", "f1">>, <<"falter", "f1">>})
\* Bob comes, is disconnected, and comes back, while files come and go.
Listing == InCall({"a1"}, <<>>, {"f1"}, {<<"enter", "b1">>, <<"remove", "f1">>, <<"share", "f2">>})
Offline == InCall(AB, <<>>, {"f1"}, {<<"drop", "b1">>, <<"remove", "f1">>})

MCFaltering == {Faltering}

MCScripts == {NewRoom, Dropped, Leaving, LastHolder, NewPairs, TwoBrowsers, Locked,
              Missing, Resent, Late,
              Shared, Abandoned, Expired, Faltering, Listing, Offline}
=============================================================================
