-------------------------------- MODULE Lobby --------------------------------
(***************************************************************************)
(* The lobby of a tab, before it joins: the room is looked up, the camera  *)
(* previewed and chosen, and the call entered with it. Of a preview the    *)
(* video is followed, as in Tracks.                                        *)
(***************************************************************************)
EXTENDS Tracks

VARIABLES
  lobby,     \* lobby[t]: its page, the camera it shows, and what it waits for
  preview    \* preview[t]: cameras being captured for it

lobbyVars == <<lobby, preview>>
callRest == <<meshRest, tracks, local, links, live, acquire, switching, share, sharing>>

\* No lobby: elsewhere, or in the room with `preferences' set. What earlier lobbies
\* still wait for is marked "late".
NoLobby == [page |-> "none", shown |-> None, asks |-> {}, switches |-> {}]

LobbyInit ==
  /\ lobby = [t \in Tabs |-> NoLobby]
  /\ preview = [t \in Tabs |-> {}]

\* The room's page is opened. Who has just created the room goes straight in.
Visit(t) ==
  /\ self[t] = 0 /\ mesh[t].self = 0 /\ lobby[t].page = "none"
  /\ \E n \in 1 .. 2 : Does(<<"visit", t, n>>)
  /\ lobby' = [lobby EXCEPT ![t].page = "loading", ![t].shown = None]
  /\ UNCHANGED <<callRest, chosen, muddled, preview>>

\* getRoom answers: a room that is gone, ended or locked, or no answer, leaves the
\* devices alone; otherwise the camera is asked for, the default one.
RoomShown(t) ==
  /\ lobby[t].page = "loading"
  /\ \/ /\ lobby' = [lobby EXCEPT ![t].page = "ready", ![t].asks = @ \union {"asked"}]
        /\ UNCHANGED todo
     \/ /\ lobby' = [lobby EXCEPT ![t].page = "unavailable"]
        /\ Does(<<"refuse", t>>)
  /\ UNCHANGED <<callRest, chosen, muddled, preview>>

\* The permission prompt is answered, maybe with a no; a lobby that was left stops
\* what it gets.
PreviewAcquired(t, ask) ==
  /\ ask \in lobby[t].asks
  /\ Does(<<"preview", t>>)
  /\ IF ask = "late" THEN lobby' = [lobby EXCEPT ![t].asks = @ \ {ask}] /\ UNCHANGED preview
     ELSE \E c \in {Cameras[t][1], None} :
            /\ lobby' = [lobby EXCEPT ![t].asks = @ \ {ask}, ![t].shown = c]
            /\ preview' = [preview EXCEPT ![t] = @ \union ({c} \ {None})]
  /\ UNCHANGED <<callRest, chosen, muddled>>

\* The device picker, which is there once the prompt has been answered.
PreviewSwitch(t) ==
  /\ lobby[t].page = "ready" /\ "asked" \notin lobby[t].asks
  /\ \E i \in 1 .. Len(Cameras[t]) :
       /\ Cameras[t][i] # lobby[t].shown
       /\ Does(<<"try", t, i>>)
       /\ lobby' = [lobby EXCEPT ![t].switches = @ \union {[camera |-> Cameras[t][i], ask |-> "asked"]}]
  /\ UNCHANGED <<callRest, chosen, muddled, preview>>

\* The new camera comes, and the one shown is stopped. When the lobby was left
\* meanwhile nobody shows, or stops, the new one.
PreviewSwitched(t, s) ==
  /\ s \in lobby[t].switches
  /\ lobby' = [lobby EXCEPT ![t].switches = @ \ {s},
                            ![t].shown = IF s.ask = "late" THEN @ ELSE s.camera]
  /\ preview' = [preview EXCEPT ![t] = (IF s.ask = "late" THEN @ ELSE @ \ {lobby[t].shown})
                                         \union {s.camera}]
  /\ Noted(t, s.ask = "late")
  /\ UNCHANGED <<callRest, todo, chosen>>

PreviewFails(t, s) ==
  /\ s \in lobby[t].switches
  /\ Does(<<"deny", t>>)
  /\ lobby' = [lobby EXCEPT ![t].switches = @ \ {s}]
  /\ UNCHANGED <<callRest, chosen, muddled, preview>>

\* The lobby goes from the page: what it shows is stopped.
Unmounts(t) ==
  /\ lobby' = [lobby EXCEPT ![t] = [page |-> "none", shown |-> None,
                                    asks |-> IF @.asks = {} THEN {} ELSE {"late"},
                                    switches |-> {[s EXCEPT !.ask = "late"] : s \in @.switches}]]
  /\ preview' = [preview EXCEPT ![t] = IF lobby[t].page = "ready" THEN @ \ {lobby[t].shown} ELSE @]

\* "Join now": the camera shown, if there is one, is what the call will ask for.
Enter(t) ==
  /\ lobby[t].page = "ready"
  /\ Does(<<"enter", t>>)
  /\ Unmounts(t)
  /\ chosen' = [chosen EXCEPT ![t] = IF lobby[t].shown = None THEN Cameras[t][1] ELSE lobby[t].shown]
  /\ UNCHANGED <<callRest, muddled>>

\* Back to the home screen.
Back(t) ==
  /\ lobby[t].page # "none"
  /\ Does(<<"back", t>>)
  /\ Unmounts(t)
  /\ UNCHANGED <<callRest, chosen, muddled>>

\* While the lobby is shown nothing is joined.
LobbyFollow ==
  /\ \A t \in Tabs : self[t] = 0 /\ self'[t] # 0 => lobby[t].page = "none"
  /\ UNCHANGED lobbyVars

LobbyNext ==
  \E t \in Tabs :
    \/ Visit(t) \/ RoomShown(t) \/ PreviewSwitch(t) \/ Enter(t) \/ Back(t)
    \/ \E ask \in {"asked", "late"} : PreviewAcquired(t, ask)
    \/ \E s \in lobby[t].switches : PreviewSwitched(t, s) \/ PreviewFails(t, s)

-----------------------------------------------------------------------------
\* Outside a call no camera and no screen is captured; and the preview never
\* outlives the lobby.
NothingCaptured ==
  \A t \in Tabs \ muddled :
    /\ self[t] = 0 => live[t] = {}
    /\ preview[t] \subseteq IF lobby[t].page = "ready" THEN {lobby[t].shown} ELSE {}
=============================================================================
