-------------------------------- MODULE Call --------------------------------
(***************************************************************************)
(* A call: the connections (Mesh), what is captured and sent on them       *)
(* (Tracks, and Lobby before the call) and the files passed over them      *)
(* (Transfers).                                                            *)
(***************************************************************************)
EXTENDS Lobby, Transfers

vars == <<meshVars, tracksVars, lobbyVars, transferVars>>

Init == MeshInit /\ TracksInit /\ LobbyInit /\ TransfersInit

\* Bound: what a browser does with a connection given the description of a
\* stranger is not followed.
Next ==
  /\ ~strange
  /\ \/ MeshNext /\ TracksFollow /\ LobbyFollow /\ TransfersFollow
     \/ TracksNext /\ UNCHANGED lobbyVars /\ TransfersFollow
     \/ LobbyNext /\ TransfersFollow
     \/ TransfersNext /\ UNCHANGED <<id, callVars, seats, made, links, wire, mail, busy, tracks, local,
                                     strange, tracksVars, lobbyVars>>

Spec == Init /\ [][Next]_vars

\* The code and the browsers go on with what is under way, and the server with
\* what it is sent; nobody has to do, and nothing has to befall, what a script
\* only allows.
FairSpec == Spec /\ WF_vars(Next /\ UNCHANGED todo)
=============================================================================
