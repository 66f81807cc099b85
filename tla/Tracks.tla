------------------------------- MODULE Tracks -------------------------------
(***************************************************************************)
(* What a tab captures and what its connections send: the camera, the      *)
(* device picker and presenting of useCall.ts, publish() of the mesh, and  *)
(* local-media.ts. Of the two kinds of tracks it follows the video: the    *)
(* microphone takes the same way, with the mix in place of the screen.     *)
(*                                                                         *)
(* replaceTrack is asynchronous; the replacements asked of a sender are    *)
(* done in order, and its track is the one of the last that is done.       *)
(***************************************************************************)
EXTENDS Mesh

CONSTANT
  Cameras     \* Cameras[t]: the cameras of a tab, as they are chosen; "screen" is its screen

ASSUME TracksAssumption == Cameras \in [Tabs -> Seq(STRING) \ {<<>>}] /\ None # "screen"

VARIABLES
  chosen,    \* chosen[t]: the camera the call begins with, preferences.devices.video
  live,      \* live[t]: tracks being captured
  acquire,   \* acquire[t]: what acquireMedia is awaited for, "asked" or "late" (the call was left)
  switching, \* switchDevice calls: [tab, step, next, previous]
  share,     \* share.current: the screen, or None
  sharing,   \* startShare and stopShare: "no", "picking", "swapping", "stopping"
  muddled    \* (history) tabs two of whose operations met; see Noted

tracksVars == <<chosen, live, acquire, switching, share, sharing, muddled>>
meshRest == <<id, self, mesh, roster, seats, made, wire, mail, busy, strange>>

TracksInit ==
  /\ chosen = [t \in Tabs |-> Cameras[t][1]]
  /\ live = [t \in Tabs |-> {tracks[t], local[t]} \ {None}]
  /\ acquire = [t \in Tabs |-> {}]
  /\ switching = {}
  /\ share = [t \in Tabs |-> IF local[t] = tracks[t] THEN None ELSE local[t]]
  /\ sharing = [t \in Tabs |-> "no"]
  /\ muddled = {}

-----------------------------------------------------------------------------
(* publish                                                                 *)

HasSender(l, track) == l # None => ~l.files \/ l.sends = track

\* Nothing for a link without transceivers, or that sends the track already.
SetSender(l, track) == IF HasSender(l, track) THEN l ELSE [l EXCEPT !.swaps = Append(@, track)]

Publish(t, track) ==
  /\ local' = [local EXCEPT ![t] = track]
  /\ links' = [links EXCEPT ![t] = [p \in Ids |-> SetSender(@[p], track)]]

Publishes(t, track) == IF mesh[t].self = 0 THEN UNCHANGED <<local, links>> ELSE Publish(t, track)

TrackReplaced(t, p) ==
  /\ links[t][p] # None
  /\ LET l == links[t][p] IN
     /\ l.swaps # <<>>
     /\ SetLink(t, p, [l EXCEPT !.sends = Head(l.swaps), !.swaps = Tail(@)])
  /\ UNCHANGED <<meshRest, tracks, local, todo, live, acquire, switching, share, sharing, muddled>>

Swapped(t) == \A p \in Ids : links[t][p] # None => links[t][p].swaps = <<>>

\* Operations that meet in the middle leave the wrong track in a sender, or one
\* that nobody stops: publishing while a replacement is being done (the old
\* track is still found in the sender), the camera arriving when the screen is
\* shared, one switch of the camera beginning in another, a presentation
\* stopped during a switch, either of them outliving its transport.
Noted(t, meets) == muddled' = IF meets THEN muddled \union {t} ELSE muddled

Switching(t) == \E s \in switching : s.tab = t

-----------------------------------------------------------------------------
(* The camera of the call and the device picker.                           *)

\* A call that was left stops what it gets. (Mutant: it is kept.)
WantedAlways(ask) == TRUE
Wanted(ask) == ask = "asked"

\* The permission prompt is answered.
Acquired(t, ask) ==
  /\ ask \in acquire[t]
  /\ Does(<<"camera", t>>)
  /\ acquire' = [acquire EXCEPT ![t] = @ \ {ask}]
  /\ LET c == chosen[t] IN
     IF ~Wanted(ask) THEN UNCHANGED <<live, tracks, local, links, muddled>>
     ELSE /\ live' = [live EXCEPT ![t] = @ \union {c}]
          /\ tracks' = [tracks EXCEPT ![t] = c]
          /\ Noted(t, ~Swapped(t) \/ share[t] # None \/ Switching(t))
          /\ Publishes(t, c)
  /\ UNCHANGED <<meshRest, switching, share, sharing>>

\* No camera, or no permission: the call goes on without.
NotAcquired(t, ask) ==
  /\ ask \in acquire[t]
  /\ Does(<<"deny", t>>)
  /\ acquire' = [acquire EXCEPT ![t] = @ \ {ask}]
  /\ tracks' = IF Wanted(ask) THEN [tracks EXCEPT ![t] = None] ELSE tracks
  /\ UNCHANGED <<meshRest, local, links, live, switching, share, sharing, muddled>>

\* switchDevice
Switch(t) ==
  /\ mesh[t].self # 0
  /\ \E i \in 1 .. Len(Cameras[t]) :
       /\ Cameras[t][i] # tracks[t]
       /\ Does(<<"switch", t, i>>)
       /\ switching' = switching \union
            {[tab |-> t, step |-> "acquiring", next |-> Cameras[t][i], previous |-> tracks[t]]}
  /\ Noted(t, Switching(t) \/ acquire[t] # {})
  /\ UNCHANGED <<meshRest, tracks, local, links, live, acquire, share, sharing>>

\* The camera that was in use is stopped, and the new one taken.
Taken(s) ==
  /\ live' = [live EXCEPT ![s.tab] = (@ \union {s.next}) \ {s.previous}]
  /\ tracks' = [tracks EXCEPT ![s.tab] = s.next]

\* While presenting the screen stays in the sender.
SwitchAcquired(s) ==
  /\ s \in switching /\ s.step = "acquiring"
  /\ IF share[s.tab] # None
     THEN /\ Taken(s)
          /\ switching' = switching \ {s}
          /\ UNCHANGED <<local, links, muddled>>
     ELSE /\ Noted(s.tab, ~Swapped(s.tab))
          /\ Publishes(s.tab, s.next)
          /\ live' = [live EXCEPT ![s.tab] = @ \union {s.next}]
          /\ switching' = (switching \ {s}) \union {[s EXCEPT !.step = "publishing"]}
          /\ UNCHANGED tracks
  /\ UNCHANGED <<meshRest, todo, acquire, share, sharing>>

SwitchDone(s) ==
  /\ s \in switching /\ s.step = "publishing" /\ Swapped(s.tab)
  /\ Taken(s)
  /\ switching' = switching \ {s}
  /\ UNCHANGED <<meshRest, local, links, todo, acquire, share, sharing, muddled>>

SwitchFails(s) ==
  /\ s \in switching /\ s.step = "acquiring"
  /\ Does(<<"deny", s.tab>>)
  /\ switching' = switching \ {s}
  /\ UNCHANGED <<meshRest, tracks, local, links, live, acquire, share, sharing, muddled>>

-----------------------------------------------------------------------------
(* Presenting. The claim of the slot is in RoomGateway.                    *)

StartShare(t) ==
  /\ mesh[t].self # 0 /\ share[t] = None /\ sharing[t] = "no"
  /\ Does(<<"share", t>>)
  /\ sharing' = [sharing EXCEPT ![t] = "picking"]
  /\ UNCHANGED <<meshRest, tracks, local, links, live, acquire, switching, share, muddled>>

Picked(t) ==
  /\ sharing[t] = "picking"
  /\ live' = [live EXCEPT ![t] = @ \union {"screen"}]
  /\ share' = [share EXCEPT ![t] = "screen"]
  /\ sharing' = [sharing EXCEPT ![t] = "swapping"]
  /\ Noted(t, ~Swapped(t) \/ Switching(t))
  /\ Publishes(t, "screen")
  /\ UNCHANGED <<meshRest, tracks, todo, acquire, switching>>

NotPicked(t) ==
  /\ sharing[t] = "picking"
  /\ sharing' = [sharing EXCEPT ![t] = "no"]
  /\ UNCHANGED <<meshRest, tracks, local, links, todo, live, acquire, switching, share, muddled>>

\* stopShare, asked for here or by the browser's own button.
StopShare(t) ==
  /\ share[t] # None
  /\ Does(<<"stop", t>>)
  /\ share' = [share EXCEPT ![t] = None]
  /\ live' = [live EXCEPT ![t] = @ \ {share[t]}]
  /\ sharing' = [sharing EXCEPT ![t] = "stopping"]
  /\ Noted(t, ~Swapped(t) \/ Switching(t))
  /\ Publishes(t, tracks[t])
  /\ UNCHANGED <<meshRest, tracks, acquire, switching>>

ShareDone(t) ==
  /\ sharing[t] \in {"swapping", "stopping"} /\ Swapped(t)
  /\ sharing' = [sharing EXCEPT ![t] = "no"]
  /\ UNCHANGED <<meshRest, tracks, local, links, todo, live, acquire, switching, share, muddled>>

-----------------------------------------------------------------------------
(* What a step of the mesh means for the tracks.                           *)

Begins(t) == mesh[t].self = 0 /\ mesh'[t].self # 0
Left(t)   == self[t] # 0 /\ self'[t] = 0
Goes(t)   == mesh[t].self # 0 /\ mesh'[t] # mesh[t]

\* A call that begins asks for the camera; one that is left wants it no longer.
AskedAfter(t) ==
  IF Begins(t) THEN acquire[t] \union {"asked"}
  ELSE IF Left(t) /\ acquire[t] # {} THEN {"late"} ELSE acquire[t]

\* Leaving stops the camera, and a transport that goes the presentation.
StoppedBy(t) == (IF Left(t) THEN {tracks[t]} ELSE {}) \union (IF Goes(t) THEN {share[t]} ELSE {})

TracksFollow ==
  /\ live' = [t \in Tabs |-> live[t] \ StoppedBy(t)]
  /\ share' = [t \in Tabs |-> IF Goes(t) THEN None ELSE share[t]]
  /\ acquire' = [t \in Tabs |-> AskedAfter(t)]
  /\ muddled' = muddled \union {t \in Tabs : Goes(t) /\ (Switching(t) \/ sharing[t] # "no")}
  /\ UNCHANGED <<chosen, switching, sharing>>

TracksStep(t) ==
  \/ \E p \in Ids : TrackReplaced(t, p)
  \/ \E ask \in {"asked", "late"} : Acquired(t, ask)
  \/ Picked(t) \/ ShareDone(t)
  \/ \E s \in switching : s.tab = t /\ (SwitchAcquired(s) \/ SwitchDone(s))

TracksNext ==
  /\ \/ \E t \in Tabs : TracksStep(t) \/ Switch(t) \/ StartShare(t) \/ NotPicked(t) \/ StopShare(t)
     \/ \E t \in Tabs, ask \in {"asked", "late"} : NotAcquired(t, ask)
     \/ \E s \in switching : SwitchFails(s)
  /\ UNCHANGED chosen

-----------------------------------------------------------------------------
\* Every replacement is done, and noted by the switch of the camera that asked for it.
AtRest(t) == Swapped(t) /\ \A s \in switching : s.tab = t => s.step # "publishing"

\* Then every connection carries the screen while it is presented and the camera of
\* the moment otherwise: across connections made, rebuilt and answered meanwhile,
\* switches of the camera and reconnects.
RightPicture ==
  \A t \in Tabs \ muddled : mesh[t].self # 0 /\ AtRest(t) =>
    \A l \in {links[t][p] : p \in Ids} \ {None} :
      l.files => l.sends = IF share[t] # None THEN share[t] ELSE tracks[t]
=============================================================================
