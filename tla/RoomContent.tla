---------------------------- MODULE RoomContent -----------------------------
(***************************************************************************)
(* The tabs of one room with what they share: its key, its chat and its    *)
(* files. A step of a tab (its page, its key) is one step with what its    *)
(* panels make of it.                                                      *)
(***************************************************************************)
EXTENDS Chat, RoomFiles

Init == KeysInit /\ ChatInit /\ FilesInit
contentVars == <<keysVars, chatVars, filesVars>>

\* All of RoomKeys but what people are going to do, which the panels share.
keysRest == <<db, revoked, channel, made, device, store, tab, hook, resolve, grant, mail, asked,
              dropped>>

Follow == ChatFollows /\ FilesFollow

Next ==
  \/ KeysNext /\ Follow
  \/ ChatNext /\ UNCHANGED <<keysRest, filesVars>>
  \/ FilesNext /\ UNCHANGED <<keysRest, chatVars>>

Spec == Init /\ [][Next]_contentVars

\* Event loops, the network, the timers and the database get done what was begun.
Fairness ==
  /\ \A t \in Tabs : /\ WF_contentVars(StoreStep(t) /\ Follow)
                     /\ WF_contentVars(JoinStep(t) /\ Follow)
                     /\ WF_contentVars(GrantStep(t) /\ Follow)
                     /\ WF_contentVars(Hear(t) /\ Follow)
  /\ \A r \in Tabs \X Slots : WF_contentVars(ResolveStep(r) /\ Follow)
  /\ \A i \in Purgers : WF_contentVars(PurgeStep(i) /\ UNCHANGED <<keysRest, chatVars>>)
  /\ WF_contentVars(LockExpires /\ UNCHANGED <<keysRest, chatVars>>)

FairSpec == Spec /\ Fairness
=============================================================================
