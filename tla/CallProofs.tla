----------------------------- MODULE CallProofs ------------------------------
(***************************************************************************)
(* Proofs about the pictures of a call, for any tabs, sockets, cameras and *)
(* scripts: every connection comes to carry what is shown, and nothing is  *)
(* captured outside a call or a lobby. They hold of a tab none of whose    *)
(* operations met, which `muddled' notes.                                  *)
(***************************************************************************)
EXTENDS Call, SequenceTheorems, TLAPS

-----------------------------------------------------------------------------
(* The invariant.                                                          *)

\* Cameras and screens. (The provers do not know a literal for a STRING.)
Pictures == STRING \union {"screen"}
\* What a sender has.
Video == Pictures \union {None}
\* What becomes of a question to the user.
Asks == {"asked", "late"}

\* What of a link carries a picture: before it has transceivers none is replaced.
CarryOk(l) ==
  /\ {"files", "sends", "swaps"} \subseteq DOMAIN l
  /\ l.files \in BOOLEAN /\ l.sends \in Video /\ l.swaps \in Seq(Video)
  /\ ~l.files => l.swaps = <<>>

\* What it carries once every replacement asked for is done.
Final(l) == IF l.swaps = <<>> THEN l.sends ELSE l.swaps[Len(l.swaps)]

\* A link of t carries, in the end, the track that t published last.
Fits(t, l) == CarryOk(l) /\ (t \notin muddled /\ l.files => Final(l) = local[t])

\* Every link does.
LinksInv == \A t \in Tabs, p \in Ids : links[t][p] # None => Fits(t, links[t][p])

\* The types.
Lobbies == [page : {"none", "loading", "ready", "unavailable"}, shown : STRING \union {None}, asks : SUBSET Asks,
            switches : SUBSET [camera : STRING, ask : Asks]]

MeshTypes ==
  /\ id \in [Tabs -> Ids] /\ self \in [Tabs -> Nat]
  /\ mesh \in [Tabs -> [self : Nat, session : Nat]]
  /\ tracks \in [Tabs -> Video] /\ local \in [Tabs -> Video]
  /\ DOMAIN links = Tabs /\ \A t \in Tabs : DOMAIN links[t] = Ids

TrackTypes ==
  /\ chosen \in [Tabs -> STRING] /\ live \in [Tabs -> SUBSET Pictures]
  /\ acquire \in [Tabs -> SUBSET Asks]
  /\ switching \subseteq [tab : Tabs, step : {"acquiring", "publishing"}, next : STRING, previous : Video]
  /\ share \in [Tabs -> Video] /\ sharing \in [Tabs -> {"no", "picking", "swapping", "stopping"}]
  /\ preview \in [Tabs -> SUBSET STRING] /\ lobby \in [Tabs -> Lobbies]

\* What a tab shows the others, its switches of the camera, and those being published.
Shown(t) == IF share[t] # None THEN share[t] ELSE tracks[t]
Switches(t) == {s \in switching : s.tab = t}
Publishing(t) == {s \in Switches(t) : s.step = "publishing"}

\* The transport outlives no call, and a camera is asked for in one.
Outside(t) ==
  /\ mesh[t].self # 0 => self[t] # 0
  /\ "asked" \in acquire[t] => mesh[t].self # 0

\* What is captured is shown, or about to be; one switch at a time, of the camera
\* there was when it began, and none while the camera of the call is awaited.
Tidy(t) ==
  /\ mesh[t].self = 0 => tracks[t] = None /\ share[t] = None /\ sharing[t] = "no" /\ Switches(t) = {}
  /\ live[t] \subseteq {tracks[t], share[t]} \union {s.next : s \in Publishing(t)}
  /\ \A s \in Switches(t) : s.previous = tracks[t] /\ \A r \in Switches(t) : r = s
  /\ Switches(t) # {} => "asked" \notin acquire[t]
  /\ "asked" \in acquire[t] => tracks[t] = None
  /\ sharing[t] = "picking" => share[t] = None

\* What is published is what is shown, or the camera being switched to.
Sends(t) == mesh[t].self # 0 =>
  /\ \A s \in Publishing(t) : local[t] = s.next /\ share[t] = None
  /\ Publishing(t) = {} => local[t] = Shown(t)

\* The preview is the camera shown; once the lobby is left what it waits for is late,
\* and no other camera is tried before the first is there.
LobbyTidy(t) ==
  /\ preview[t] \subseteq IF lobby[t].page = "ready" THEN {lobby[t].shown} ELSE {}
  /\ lobby[t].page # "ready" => "asked" \notin lobby[t].asks /\ \A s \in lobby[t].switches : s.ask = "late"
  /\ "asked" \in lobby[t].asks => preview[t] = {} /\ \A s \in lobby[t].switches : s.ask = "late"

\* Of a tab two of whose operations met little is said.
TabOk(t) == Outside(t) /\ (t \notin muddled => Tidy(t) /\ Sends(t) /\ LobbyTidy(t))
TabsInv == \A t \in Tabs : TabOk(t)

\* The invariant.
CallInv == MeshTypes /\ TrackTypes /\ LinksInv /\ TabsInv

-----------------------------------------------------------------------------
(* Constants.                                                              *)

\* Socket ids are positive.
LEMMA IdsPositive == \A i \in Ids : i \in Nat /\ i # 0
BY MeshAssumption, LenProperties DEF Ids, MeshAssumption

\* None is no picture.
LEMMA NoneNoPicture == None \notin Pictures
BY MeshAssumption, TracksAssumption DEF MeshAssumption, TracksAssumption, Pictures

\* The cameras of a tab are tracks, and there is a default one.
LEMMA CamerasAre ==
  ASSUME NEW t \in Tabs
  PROVE  /\ Cameras[t][1] \in STRING
         /\ \A i \in 1 .. Len(Cameras[t]) : Cameras[t][i] \in STRING
<1>1. Cameras[t] \in Seq(STRING) /\ Cameras[t] # <<>>
  BY TracksAssumption DEF TracksAssumption
<1>2. Len(Cameras[t]) \in Nat \ {0}
  BY <1>1, EmptySeq
<1>3. QED
  BY <1>1, <1>2, ElementOfSeq

-----------------------------------------------------------------------------
(* Links.                                                                  *)

\* A link that carries what another does fits when that does.
LEMMA FitsSame ==
  ASSUME NEW t, NEW l, NEW n, Fits(t, l), {"files", "sends", "swaps"} \subseteq DOMAIN n,
         n.files = l.files, n.sends = l.sends, n.swaps = l.swaps
  PROVE  Fits(t, n)
BY DEF Fits, CarryOk, Final

\* A new link carries the track it is made with.
LEMMA NewLinkFits ==
  ASSUME NEW t, NEW p, NEW negotiates \in BOOLEAN, NEW track \in Video
  PROVE  /\ CarryOk(NewLink(t, p, negotiates, track))
         /\ NewLink(t, p, negotiates, track).files => Final(NewLink(t, p, negotiates, track)) = track
<1>1. CarryOk(Created(t, p)) /\ ~Created(t, p).files
  BY EmptySeq DEF CarryOk, Created, Video
<1>2. /\ CarryOk(Negotiating(Created(t, p), track))
      /\ Final(Negotiating(Created(t, p), track)) = track
  BY EmptySeq DEF CarryOk, Final, Created, Negotiating, Video
<1>3. QED
  BY <1>1, <1>2 DEF NewLink

\* So does one that a failure or a message made.
LEMMA RebuiltFits ==
  ASSUME NEW t \in Tabs, NEW p, NEW l, local[t] \in Video
  PROVE  Fits(t, Rebuilt(t, p, l)) /\ Fits(t, Stray(t, p))
<1>1. ASSUME NEW m, NEW negotiates \in BOOLEAN, NEW track \in {local[t], None},
             negotiates => track = local[t], NEW stray,
             m = [NewLink(t, p, negotiates, track) EXCEPT !.stray = stray]
      PROVE  Fits(t, m)
  <2>1. track \in Video
    BY <1>1 DEF Video
  <2>2. /\ CarryOk(NewLink(t, p, negotiates, track))
        /\ NewLink(t, p, negotiates, track).files => Final(NewLink(t, p, negotiates, track)) = track
    BY <2>1, NewLinkFits
  <2>3. NewLink(t, p, negotiates, track).files => negotiates
    BY DEF NewLink, Created
  <2>4. Fits(t, NewLink(t, p, negotiates, track))
    BY <2>2, <2>3, <1>1 DEF Fits
  <2> DEFINE n == NewLink(t, p, negotiates, track)
  <2>5. {"files", "sends", "swaps"} \subseteq DOMAIN n
    BY <2>2 DEF CarryOk
  <2> HIDE DEF n
  <2>6. m = [n EXCEPT !.stray = stray]
    BY <1>1 DEF n
  <2>7. /\ {"files", "sends", "swaps"} \subseteq DOMAIN m
        /\ m.files = n.files /\ m.sends = n.sends /\ m.swaps = n.swaps
    BY <2>5, <2>6
  <2>8. QED
    BY <2>4, <2>7, FitsSame DEF n
<1>2. Fits(t, Rebuilt(t, p, l))
  <2> DEFINE far == ~Polite(t, p)
             old == l.stray
             m == [NewLink(t, p, far, local[t]) EXCEPT !.stray = old]
  <2>1. far \in BOOLEAN
    BY DEF Polite
  <2> HIDE DEF far, old
  <2>2. Fits(t, m)
    BY <1>1, <2>1
  <2>3. QED
    BY <2>2 DEF Rebuilt, far, old
<1>3. Fits(t, Stray(t, p))
  <2> DEFINE far == ~Polite(t, p)
             m == [NewLink(t, p, FALSE, None) EXCEPT !.stray = far]
  <2> HIDE DEF far
  <2>1. Fits(t, m)
    BY <1>1
  <2>2. QED
    BY <2>1 DEF Stray, far
<1>4. QED
  BY <1>2, <1>3

\* An answer attaches the tracks published, which a link already carries or takes.
LEMMA AnsweredFits ==
  ASSUME NEW t \in Tabs, NEW l, NEW m, local[t] \in Video, Fits(t, l)
  PROVE  Fits(t, Remote(l, m)) /\ Fits(t, Answered(t, l, m))
<1> DEFINE r == Remote(l, m)
<1>1. /\ {"files", "sends", "swaps"} \subseteq DOMAIN l
      /\ l.files \in BOOLEAN /\ l.sends \in Video /\ l.swaps \in Seq(Video)
      /\ ~l.files => l.swaps = <<>>
      /\ t \notin muddled /\ l.files => Final(l) = local[t]
  BY DEF Fits, CarryOk
<1>2. /\ {"files", "sends", "swaps"} \subseteq DOMAIN r
      /\ r.files = l.files /\ r.sends = l.sends /\ r.swaps = l.swaps
  BY <1>1 DEF Remote
<1>3. Fits(t, r)
  BY <1>2, FitsSame
<1> HIDE DEF r
<1> DEFINE a == Attached(t, r)
<1>4. /\ {"files", "sends", "swaps"} \subseteq DOMAIN a /\ a.files = TRUE /\ a.sends = local[t]
      /\ a.swaps = IF r.sends = local[t] THEN r.swaps ELSE <<>>
  BY <1>2 DEF Attached
<1>5. a.swaps \in Seq(Video)
  BY <1>1, <1>2, <1>4, EmptySeq
<1>6. t \notin muddled => Final(a) = local[t]
  BY <1>1, <1>2, <1>4 DEF Final
<1>7. Fits(t, a)
  BY <1>4, <1>5, <1>6 DEF Fits, CarryOk
<1> HIDE DEF a
<1> DEFINE n == Answered(t, l, m)
<1>8. /\ {"files", "sends", "swaps"} \subseteq DOMAIN n
      /\ n.files = a.files /\ n.sends = a.sends /\ n.swaps = a.swaps
  BY <1>4 DEF Answered, a, r
<1>9. QED
  BY <1>3, <1>7, <1>8, FitsSame DEF r

-----------------------------------------------------------------------------
(* What a step does to the links and the tabs.                             *)

\* What was noted stays so.
Noting == muddled \subseteq muddled'

\* Links that become others that fit what is then published.
LEMMA LinksFit ==
  ASSUME MeshTypes, LinksInv, Noting, DOMAIN links' = Tabs,
         \A u \in Tabs : DOMAIN links'[u] = Ids,
         \A u \in Tabs, p \in Ids : links'[u][p] # None =>
            Fits(u, links[u][p])' \/ (links'[u][p] = links[u][p] /\ local'[u] = local[u])
  PROVE  LinksInv' /\ DOMAIN links' = Tabs /\ \A u \in Tabs : DOMAIN links'[u] = Ids
<1>1. ASSUME NEW u \in Tabs, NEW p \in Ids, links'[u][p] # None
      PROVE  Fits(u, links[u][p])'
  <2>1. CASE links'[u][p] = links[u][p] /\ local'[u] = local[u]
    <3>1. Fits(u, links[u][p])
      BY <1>1, <2>1 DEF LinksInv
    <3>2. QED
      BY <3>1, <2>1 DEF Fits, Noting
  <2>2. QED
    BY <1>1, <2>1
<1>2. QED
  BY <1>1 DEF LinksInv

\* One link changes.
LEMMA LinkSet ==
  ASSUME MeshTypes, LinksInv, Noting, NEW t \in Tabs, NEW p \in Ids, NEW n, SetLink(t, p, n),
         n = None \/ Fits(t, n), local' = local
  PROVE  LinksInv' /\ DOMAIN links' = Tabs /\ \A u \in Tabs : DOMAIN links'[u] = Ids
<1>1. DOMAIN links = Tabs /\ \A u \in Tabs : DOMAIN links[u] = Ids
  BY DEF MeshTypes
<1>2. DOMAIN links' = Tabs /\ \A u \in Tabs : DOMAIN links'[u] = Ids
  BY <1>1 DEF SetLink
<1>3. links'[t][p] = n
  BY <1>1 DEF SetLink
<1>4. \A u \in Tabs, q \in Ids : u # t \/ q # p => links'[u][q] = links[u][q]
  BY <1>1 DEF SetLink
<1>5. n # None => Fits(t, n)'
  BY DEF Fits, Noting
<1>6. ASSUME NEW u \in Tabs, NEW q \in Ids, links'[u][q] # None
      PROVE  Fits(u, links[u][q])' \/ (links'[u][q] = links[u][q] /\ local'[u] = local[u])
  <2>1. CASE u = t /\ q = p
    BY <1>3, <1>5, <1>6, <2>1
  <2>2. CASE u # t \/ q # p
    BY <1>4, <2>2
  <2>3. QED
    BY <2>1, <2>2
<1>7. QED
  BY <1>2, <1>6, LinksFit

\* A tab of which nothing changes.
Same(u) ==
  /\ self'[u] = self[u] /\ mesh'[u].self = mesh[u].self
  /\ tracks'[u] = tracks[u] /\ local'[u] = local[u] /\ live'[u] = live[u]
  /\ acquire'[u] = acquire[u] /\ share'[u] = share[u] /\ sharing'[u] = sharing[u]
  /\ Switches(u)' = Switches(u)
  /\ preview'[u] = preview[u] /\ lobby'[u] = lobby[u]

\* It stays as it was.
LEMMA SameOk ==
  ASSUME NEW u \in Tabs, TabOk(u), Same(u), Noting
  PROVE  TabOk(u)'
<1>1. Publishing(u)' = Publishing(u)
  BY DEF Publishing, Same
<1>2. Shown(u)' = Shown(u)
  BY DEF Shown, Same
<1>3. Outside(u)'
  BY DEF Same, TabOk, Outside
<1>4. ASSUME u \notin muddled' PROVE Tidy(u)' /\ Sends(u)' /\ LobbyTidy(u)'
  <2>1. Tidy(u) /\ Sends(u) /\ LobbyTidy(u)
    BY <1>4 DEF TabOk, Noting
  <2>2. Tidy(u)'
    BY <1>1, <2>1 DEF Same, Tidy
  <2>3. Sends(u)'
    BY <1>1, <1>2, <2>1 DEF Same, Sends
  <2>4. LobbyTidy(u)'
    BY <2>1 DEF Same, LobbyTidy
  <2>5. QED
    BY <2>2, <2>3, <2>4
<1>5. QED
  BY <1>3, <1>4 DEF TabOk

-----------------------------------------------------------------------------
(* The steps of the mesh that begin and end no call.                       *)

\* What follows a step of the mesh notes more, and keeps the types.
LEMMA FollowTypes ==
  ASSUME TrackTypes, TracksFollow, LobbyFollow
  PROVE  Noting /\ TrackTypes'
<1>1. Noting
  BY DEF Noting, TracksFollow
<1>2. live' \in [Tabs -> SUBSET Pictures]
  BY DEF TrackTypes, TracksFollow
<1>3. acquire' \in [Tabs -> SUBSET Asks]
  <2>1. ASSUME NEW t \in Tabs PROVE AskedAfter(t) \in SUBSET Asks
    BY DEF TrackTypes, AskedAfter, Asks
  <2>2. QED
    BY <2>1 DEF TracksFollow
<1>4. share' \in [Tabs -> Video]
  BY DEF TrackTypes, TracksFollow, Video
<1>5. QED
  BY <1>1, <1>2, <1>3, <1>4 DEF TrackTypes, TracksFollow, LobbyFollow, lobbyVars

\* A tab of which a step of the mesh changes nothing that matters here.
Still(u) ==
  /\ self'[u] = self[u] /\ mesh'[u] = mesh[u]
  /\ tracks'[u] = tracks[u] /\ local'[u] = local[u]

\* It stays the same.
LEMMA StillSame ==
  ASSUME NEW u \in Tabs, TrackTypes, TracksFollow, LobbyFollow, Still(u)
  PROVE  Same(u)
<1>1. ~Begins(u) /\ ~Left(u) /\ ~Goes(u)
  BY DEF Still, Begins, Left, Goes
<1>2. live'[u] = live[u]
  <2>1. StoppedBy(u) = {}
    BY <1>1 DEF StoppedBy
  <2>2. live'[u] = live[u] \ StoppedBy(u)
    BY DEF TracksFollow
  <2>3. QED
    BY <2>1, <2>2
<1>3. acquire'[u] = acquire[u]
  BY <1>1 DEF TracksFollow, AskedAfter
<1>4. share'[u] = share[u]
  BY <1>1 DEF TracksFollow
<1>5. Switches(u)' = Switches(u) /\ sharing'[u] = sharing[u]
  BY DEF TracksFollow, Switches
<1>6. QED
  BY <1>2, <1>3, <1>4, <1>5 DEF Same, Still, LobbyFollow, lobbyVars

\* A step of the mesh at which nobody begins or ends a call.
LEMMA StillTabs ==
  ASSUME TrackTypes, TabsInv, TracksFollow, LobbyFollow,
         self' = self, mesh' = mesh, tracks' = tracks, local' = local
  PROVE  TabsInv'
<1>1. ASSUME NEW u \in Tabs PROVE TabOk(u)'
  <2>1. Still(u)
    BY DEF Still
  <2>2. QED
    BY <2>1, StillSame, SameOk, FollowTypes DEF TabsInv
<1>2. QED
  BY <1>1 DEF TabsInv

\* A description, a candidate, an ICE event: one link changes, into one that fits.
LEMMA LinkStepOk ==
  ASSUME CallInv, TracksFollow, LobbyFollow, NEW t \in Tabs, NEW p \in Ids, NEW n,
         SetLink(t, p, n), n = None \/ Fits(t, n),
         id' = id, self' = self, mesh' = mesh, tracks' = tracks, local' = local
  PROVE  CallInv'
<1>1. Noting /\ TrackTypes'
  BY FollowTypes DEF CallInv
<1>2. LinksInv' /\ DOMAIN links' = Tabs /\ \A u \in Tabs : DOMAIN links'[u] = Ids
  BY <1>1, LinkSet DEF CallInv
<1>3. TabsInv'
  BY StillTabs DEF CallInv
<1>4. MeshTypes'
  BY <1>2 DEF CallInv, MeshTypes
<1>5. QED
  BY <1>1, <1>2, <1>3, <1>4 DEF CallInv

\* A step that leaves the links alone.
LEMMA QuietStepOk ==
  ASSUME CallInv, TracksFollow, LobbyFollow, id' \in [Tabs -> Ids],
         self' = self, mesh' = mesh, tracks' = tracks, local' = local, links' = links
  PROVE  CallInv'
<1>1. Noting /\ TrackTypes'
  BY FollowTypes DEF CallInv
<1>2. LinksInv'
  BY <1>1 DEF CallInv, LinksInv, Noting, Fits
<1>3. TabsInv'
  BY StillTabs DEF CallInv
<1>4. MeshTypes'
  BY DEF CallInv, MeshTypes
<1>5. QED
  BY <1>1, <1>2, <1>3, <1>4 DEF CallInv

\* The links a tab follows its list with fit, when those it keeps do.
LEMMA FollowingFits ==
  ASSUME NEW t \in Tabs, NEW me, NEW mine, NEW present, NEW track \in Video, NEW p \in Ids, NEW n,
         mine[p] # None => Fits(t, mine[p])', local'[t] = track,
         n = Following(t, me, mine, present, track)[p], n # None
  PROVE  Fits(t, n)'
<1> DEFINE new == NewLink(t, p, me < p, track)
<1>1. CarryOk(new) /\ (new.files => Final(new) = track)
  <2>1. (me < p) \in BOOLEAN
    OBVIOUS
  <2>2. QED
    BY <2>1, NewLinkFits
<1> HIDE DEF new
<1>2. n = mine[p] \/ n = new
  BY DEF Following, Subscribed, new
<1>3. n = new => Fits(t, n)'
  BY <1>1 DEF Fits
<1>4. QED
  BY <1>2, <1>3

\* The participants followed during a call: links are closed and made.
LEMMA FollowRosterOk ==
  ASSUME CallInv, TracksFollow, LobbyFollow, NEW t \in Tabs, FollowRoster(t)
  PROVE  CallInv'
<1>1. id' = id /\ self' = self /\ mesh' = mesh /\ tracks' = tracks /\ local' = local
  BY DEF FollowRoster
<1>2. CASE links' = links
  BY <1>1, <1>2, QuietStepOk DEF CallInv, MeshTypes
<1>3. CASE links' = [links EXCEPT ![t] = Following(t, self[t], links[t], roster'[t], local[t])]
  <2>1. Noting /\ TrackTypes'
    BY FollowTypes DEF CallInv
  <2>2. DOMAIN links = Tabs /\ \A u \in Tabs : DOMAIN links[u] = Ids
    BY DEF CallInv, MeshTypes
  <2>3. PICK me, mine, present, track :
          me = self[t] /\ mine = links[t] /\ present = roster'[t] /\ track = local[t]
    OBVIOUS
  <2>4. links'[t] = Following(t, me, mine, present, track) /\ track \in Video
    BY <1>3, <2>2, <2>3 DEF CallInv, MeshTypes
  <2>5. DOMAIN links' = Tabs /\ \A u \in Tabs : DOMAIN links'[u] = Ids
    BY <1>3, <2>2, <2>4 DEF Following
  <2>6. ASSUME NEW u \in Tabs, NEW p \in Ids, links'[u][p] # None
        PROVE  Fits(u, links[u][p])' \/ (links'[u][p] = links[u][p] /\ local'[u] = local[u])
    <3>1. CASE u # t
      BY <1>1, <1>3, <2>2, <3>1
    <3>2. CASE u = t
      <4>1. PICK n : n = links'[t][p]
        OBVIOUS
      <4>2. mine[p] # None => Fits(t, mine[p])'
        BY <1>1, <2>1, <2>3 DEF CallInv, LinksInv, Fits, Noting
      <4>3. Fits(t, n)'
        BY <1>1, <2>3, <2>4, <2>6, <3>2, <4>1, <4>2, FollowingFits
      <4>4. QED
        BY <3>2, <4>1, <4>3
    <3>3. QED
      BY <3>1, <3>2
  <2>7. LinksInv'
    BY <2>1, <2>5, <2>6, LinksFit DEF CallInv
  <2>8. TabsInv'
    BY <1>1, StillTabs DEF CallInv
  <2>9. MeshTypes'
    BY <1>1, <2>5 DEF CallInv, MeshTypes
  <2>10. QED
    BY <2>1, <2>7, <2>8, <2>9 DEF CallInv
<1>4. QED
  BY <1>2, <1>3 DEF FollowRoster

\* A link fits when it is one that does with other of its fields changed.
LEMMA FitsTouched ==
  ASSUME NEW t \in Tabs, NEW p \in Ids, CallInv, links[t][p] # None, NEW l, l = links[t][p]
  PROVE  /\ Fits(t, l) /\ Fits(t, [l EXCEPT !.making = TRUE])
         /\ Fits(t, [l EXCEPT !.resends = @ + 1]) /\ Fits(t, [l EXCEPT !.cands = TRUE])
         /\ Fits(t, [l EXCEPT !.ice = "up", !.timed = FALSE]) /\ Fits(t, [l EXCEPT !.ice = "down"])
         /\ Fits(t, [l EXCEPT !.timed = TRUE, !.need = "restart"]) /\ Fits(t, [l EXCEPT !.dead = TRUE])
         /\ Fits(t, [l EXCEPT !.making = FALSE, !.sig = "have-local-offer", !.need = "no", !.resends = 0,
                              !.uf = IF l.need = "restart" THEN @ + 1 ELSE @])
<1>1. Fits(t, l)
  BY DEF CallInv, LinksInv
<1>2. {"files", "sends", "swaps"} \subseteq DOMAIN l
  BY <1>1 DEF Fits, CarryOk
<1>3. Fits(t, [l EXCEPT !.making = TRUE])
  BY <1>1, <1>2, FitsSame
<1>4. Fits(t, [l EXCEPT !.resends = @ + 1])
  BY <1>1, <1>2, FitsSame
<1>5. Fits(t, [l EXCEPT !.cands = TRUE])
  BY <1>1, <1>2, FitsSame
<1>6. Fits(t, [l EXCEPT !.ice = "up", !.timed = FALSE])
  BY <1>1, <1>2, FitsSame
<1>7. Fits(t, [l EXCEPT !.ice = "down"])
  BY <1>1, <1>2, FitsSame
<1>8. Fits(t, [l EXCEPT !.timed = TRUE, !.need = "restart"])
  BY <1>1, <1>2, FitsSame
<1>9. Fits(t, [l EXCEPT !.dead = TRUE])
  BY <1>1, <1>2, FitsSame
<1>10. Fits(t, [l EXCEPT !.making = FALSE, !.sig = "have-local-offer", !.need = "no", !.resends = 0,
                         !.uf = IF l.need = "restart" THEN @ + 1 ELSE @])
  BY <1>1, <1>2, FitsSame
<1>11. QED
  BY <1>1, <1>3, <1>4, <1>5, <1>6, <1>7, <1>8, <1>9, <1>10

\* Negotiation and ICE.
LEMMA LinkStepsOk ==
  ASSUME CallInv, TracksFollow, LobbyFollow, NEW t \in Tabs, NEW p \in Ids,
         LinkStep(t, p) \/ Resend(t, p) \/ Disconnected(t, p) \/ Failed(t, p) \/ DtlsFails(t, p)
  PROVE  CallInv'
<1> DEFINE rest == id' = id /\ self' = self /\ mesh' = mesh /\ tracks' = tracks /\ local' = local
           step(n) == SetLink(t, p, n) /\ Fits(t, n) /\ rest
<1>1. local[t] \in Video /\ CallInv
  BY DEF CallInv, MeshTypes
<1>2. ASSUME NEW n, step(n) PROVE CallInv'
  BY <1>2, LinkStepOk
<1>3. CASE NegotiationNeeded(t, p)
  <2>1. PICK l : l = links[t][p]
    OBVIOUS
  <2>2. SetLink(t, p, [l EXCEPT !.making = TRUE]) /\ l # None /\ rest
    BY <1>3, <2>1 DEF NegotiationNeeded, callVars
  <2>3. QED
    BY <1>2, <2>1, <2>2, FitsTouched
<1>4. CASE OfferMade(t, p)
  <2>1. PICK l : l = links[t][p]
    OBVIOUS
  <2>2. /\ SetLink(t, p, [l EXCEPT !.making = FALSE, !.sig = "have-local-offer", !.need = "no", !.resends = 0,
                                   !.uf = IF l.need = "restart" THEN @ + 1 ELSE @])
        /\ l # None /\ rest
    BY <1>4, <2>1 DEF OfferMade, callVars
  <2>3. QED
    BY <1>2, <2>1, <2>2, FitsTouched
<1>5. CASE HandleCandidate(t, p)
  <2>1. PICK l : l = Found(t, p)
    OBVIOUS
  <2>2. Fits(t, l)
    BY <1>1, <2>1, RebuiltFits DEF Found, CallInv, LinksInv
  <2>3. Fits(t, [l EXCEPT !.cands = TRUE])
    BY <2>2, FitsSame DEF Fits, CarryOk
  <2>4. \/ SetLink(t, p, l) /\ rest
        \/ SetLink(t, p, [l EXCEPT !.cands = TRUE]) /\ rest
    BY <1>5, <2>1 DEF HandleCandidate, Keep, callVars
  <2>5. QED
    BY <1>2, <2>2, <2>3, <2>4
<1>6. CASE HandleDescription(t, p)
  <2>1. Fits(t, Found(t, p)) /\ Fits(t, Rebuilt(t, p, Found(t, p)))
    BY <1>1, RebuiltFits DEF Found, CallInv, LinksInv
  <2>2. PICK n : SetLink(t, p, n) /\ n \in {Found(t, p), Rebuilt(t, p, Found(t, p))} /\ rest
    BY <1>6 DEF HandleDescription, Keep, callVars
  <2>3. QED
    BY <1>2, <2>1, <2>2
<1>7. CASE Apply(t, p)
  <2>1. rest
    BY <1>7 DEF Apply, callVars
  <2>2. PICK m : m = Head(mail[t][p])
    OBVIOUS
  <2>3. PICK l : l = links[t][p]
    OBVIOUS
  <2>4. \/ links' = links
        \/ l # None /\ SetLink(t, p, Remote(l, m))
        \/ l # None /\ SetLink(t, p, Answered(t, l, m))
    BY <1>7, <2>2, <2>3 DEF Apply
  <2>5. l # None => Fits(t, Remote(l, m)) /\ Fits(t, Answered(t, l, m))
    <3>1. l # None => Fits(t, l)
      BY <1>1, <2>3 DEF CallInv, LinksInv
    <3>2. QED
      BY <1>1, <3>1, AnsweredFits
  <2>6. CASE links' = links
    BY <2>1, <2>6, QuietStepOk DEF CallInv, MeshTypes
  <2>7. QED
    BY <1>2, <2>1, <2>4, <2>5, <2>6
<1>8. CASE Connected(t, p)
  <2>1. PICK l : l = links[t][p]
    OBVIOUS
  <2>2. SetLink(t, p, [l EXCEPT !.ice = "up", !.timed = FALSE]) /\ l # None /\ rest
    BY <1>8, <2>1 DEF Connected, Ice, callVars
  <2>3. QED
    BY <1>2, <2>1, <2>2, FitsTouched
<1>9. CASE RestartIce(t, p)
  <2>1. PICK l : l = links[t][p]
    OBVIOUS
  <2>2. SetLink(t, p, [l EXCEPT !.timed = TRUE, !.need = "restart"]) /\ l # None /\ rest
    BY <1>9, <2>1 DEF RestartIce, Ice, callVars
  <2>3. QED
    BY <1>2, <2>1, <2>2, FitsTouched
<1>10. CASE Resend(t, p)
  <2>1. PICK l : l = links[t][p]
    OBVIOUS
  <2>2. SetLink(t, p, [l EXCEPT !.resends = @ + 1]) /\ l # None /\ rest
    BY <1>10, <2>1 DEF Resend, callVars
  <2>3. QED
    BY <1>2, <2>1, <2>2, FitsTouched
<1>11. CASE Disconnected(t, p)
  <2>1. PICK l : l = links[t][p]
    OBVIOUS
  <2>2. SetLink(t, p, [l EXCEPT !.ice = "down"]) /\ l # None /\ rest
    BY <1>11, <2>1 DEF Disconnected, Ice, callVars
  <2>3. QED
    BY <1>2, <2>1, <2>2, FitsTouched
<1>12. CASE Failed(t, p)
  <2>1. SetLink(t, p, Rebuilt(t, p, links[t][p])) /\ rest
    BY <1>12 DEF Failed, callVars
  <2>2. PICK l : l = links[t][p]
    OBVIOUS
  <2>3. Fits(t, Rebuilt(t, p, l))
    BY <1>1, RebuiltFits
  <2>4. QED
    BY <1>2, <2>1, <2>2, <2>3
<1>13. CASE DtlsFails(t, p)
  <2>1. PICK l : l = links[t][p]
    OBVIOUS
  <2>2. SetLink(t, p, [l EXCEPT !.dead = TRUE]) /\ l # None /\ rest
    BY <1>13, <2>1 DEF DtlsFails, Ice, callVars
  <2>3. QED
    BY <1>2, <2>1, <2>2, FitsTouched
<1>14. QED
  BY <1>3, <1>4, <1>5, <1>6, <1>7, <1>8, <1>9, <1>10, <1>11, <1>12, <1>13 DEF LinkStep

-----------------------------------------------------------------------------
(* Calls begin and end.                                                    *)

\* A step that changes one tab leaves the others as they were.
LEMMA OtherTabs ==
  ASSUME TrackTypes, TabsInv, TracksFollow, LobbyFollow, NEW t \in Tabs,
         \A u \in Tabs \ {t} : Still(u), TabOk(t)'
  PROVE  TabsInv'
<1>1. ASSUME NEW u \in Tabs \ {t} PROVE TabOk(u)'
  BY StillSame, SameOk, FollowTypes DEF TabsInv
<1>2. QED
  BY <1>1 DEF TabsInv

\* What follows a step of the mesh, at one tab.
LEMMA FollowsAt ==
  ASSUME TrackTypes, TracksFollow, LobbyFollow, NEW t \in Tabs
  PROVE  /\ live'[t] = live[t] \ StoppedBy(t)
         /\ share'[t] = IF Goes(t) THEN None ELSE share[t]
         /\ acquire'[t] = AskedAfter(t) /\ sharing'[t] = sharing[t]
         /\ Switches(t)' = Switches(t) /\ Publishing(t)' = Publishing(t)
         /\ preview'[t] = preview[t] /\ lobby'[t] = lobby[t]
         /\ t \notin muddled' => /\ t \notin muddled
                                 /\ Goes(t) => Switches(t) = {} /\ sharing[t] = "no"
<1>1. Switches(t)' = Switches(t) /\ Publishing(t)' = Publishing(t)
  BY DEF TracksFollow, Switches, Publishing
<1>2. t \notin muddled' => /\ t \notin muddled
                           /\ Goes(t) => Switches(t) = {} /\ sharing[t] = "no"
  BY DEF TracksFollow, Switching, Switches
<1>3. QED
  BY <1>1, <1>2 DEF TracksFollow, LobbyFollow, lobbyVars

\* A join, which is acknowledged.
LEMMA JoinOk ==
  ASSUME CallInv, TracksFollow, LobbyFollow, NEW t \in Tabs, Join(t)
  PROVE  CallInv'
<1>1. /\ id' = id /\ mesh' = mesh /\ tracks' = tracks /\ local' = local /\ links' = links
      /\ self' = [self EXCEPT ![t] = id[t]]
  BY DEF Join
<1>2. self'[t] = id[t] /\ id[t] \in Nat /\ id[t] # 0
  BY <1>1, IdsPositive DEF CallInv, MeshTypes
<1>3. Noting /\ TrackTypes'
  BY FollowTypes DEF CallInv
<1>4. LinksInv'
  BY <1>1, <1>3 DEF CallInv, LinksInv, Noting, Fits
<1>5. MeshTypes'
  BY <1>1, <1>2 DEF CallInv, MeshTypes
<1>6. \A u \in Tabs \ {t} : Still(u)
  BY <1>1 DEF Still, CallInv, MeshTypes
<1>7. TabOk(t)'
  <2>1. ~Begins(t) /\ ~Left(t) /\ ~Goes(t)
    BY <1>1, <1>2 DEF Begins, Left, Goes
  <2>2. live'[t] = live[t] /\ share'[t] = share[t] /\ acquire'[t] = acquire[t]
    BY <2>1, FollowsAt DEF StoppedBy, AskedAfter, CallInv
  <2>3. TabOk(t)
    BY DEF CallInv, TabsInv
  <2>4. Outside(t)'
    BY <1>1, <1>2, <2>2, <2>3 DEF TabOk, Outside
  <2>5. ASSUME t \notin muddled' PROVE Tidy(t)' /\ Sends(t)' /\ LobbyTidy(t)'
    <3>1. Tidy(t) /\ Sends(t) /\ LobbyTidy(t)
      BY <1>3, <2>3, <2>5 DEF TabOk, Noting
    <3>2. /\ sharing'[t] = sharing[t] /\ Switches(t)' = Switches(t) /\ Publishing(t)' = Publishing(t)
          /\ preview'[t] = preview[t] /\ lobby'[t] = lobby[t]
      BY FollowsAt DEF CallInv
    <3>3. Tidy(t)'
      BY <1>1, <2>2, <3>1, <3>2 DEF Tidy
    <3>4. Sends(t)'
      BY <1>1, <2>2, <3>1, <3>2 DEF Sends, Shown
    <3>5. LobbyTidy(t)'
      BY <3>1, <3>2 DEF LobbyTidy
    <3>6. QED
      BY <3>3, <3>4, <3>5
  <2>6. QED
    BY <2>4, <2>5 DEF TabOk
<1>8. TabsInv'
  BY <1>6, <1>7, OtherTabs DEF CallInv
<1>9. QED
  BY <1>3, <1>4, <1>5, <1>8 DEF CallInv

\* A transport is made, in the place of another or at the beginning of a call: it
\* publishes the camera, and a presentation on the old one ends.
LEMMA MountOk ==
  ASSUME CallInv, TracksFollow, LobbyFollow, NEW t \in Tabs, Mount(t)
  PROVE  CallInv'
<1>1. /\ id' = id /\ self' = self /\ tracks' = tracks /\ self[t] # 0
      /\ mesh' = [mesh EXCEPT ![t] = [self |-> self[t], session |-> mesh[t].session + 1]]
      /\ links' = [links EXCEPT ![t] = Following(t, self[t], NoLinks, roster[t], tracks[t])]
      /\ local' = [local EXCEPT ![t] = tracks[t]]
  BY DEF Mount
<1>2. /\ DOMAIN links = Tabs /\ \A u \in Tabs : DOMAIN links[u] = Ids
      /\ tracks[t] \in Video /\ mesh[t].session \in Nat /\ self[t] \in Nat /\ mesh[t] \in [self : Nat, session : Nat]
  BY DEF CallInv, MeshTypes
<1>3. mesh'[t] = [self |-> self[t], session |-> mesh[t].session + 1] /\ local'[t] = tracks[t]
  BY <1>1 DEF CallInv, MeshTypes
<1>4. Noting /\ TrackTypes'
  BY FollowTypes DEF CallInv
<1>5. PICK me, present, track, n : /\ me = self[t] /\ present = roster[t] /\ track = tracks[t]
                                   /\ n = links'[t]
  OBVIOUS
<1>6. n = Following(t, me, NoLinks, present, track) /\ DOMAIN n = Ids
  BY <1>1, <1>2, <1>5 DEF Following
<1>7. DOMAIN links' = Tabs /\ \A u \in Tabs : DOMAIN links'[u] = Ids
  BY <1>1, <1>2, <1>5, <1>6
<1>8. LinksInv'
  <2>1. ASSUME NEW u \in Tabs, NEW p \in Ids, links'[u][p] # None
        PROVE  Fits(u, links[u][p])' \/ (links'[u][p] = links[u][p] /\ local'[u] = local[u])
    <3>1. CASE u # t
      BY <1>1, <1>2, <3>1 DEF CallInv, MeshTypes
    <3>2. CASE u = t
      <4>1. PICK l : l = n[p]
        OBVIOUS
      <4>2. NoLinks[p] = None
        BY DEF NoLinks
      <4>3. l = Following(t, me, NoLinks, present, track)[p] /\ l # None
        BY <1>5, <1>6, <2>1, <3>2, <4>1, <4>2
      <4>4. local'[t] = track /\ track \in Video
        BY <1>2, <1>3, <1>5
      <4>5. Fits(t, l)'
        BY <4>2, <4>3, <4>4, FollowingFits
      <4>6. QED
        BY <1>5, <3>2, <4>1, <4>5
    <3>3. QED
      BY <3>1, <3>2
  <2>2. QED
    BY <1>4, <1>7, <2>1, LinksFit DEF CallInv
<1>9. MeshTypes'
  BY <1>1, <1>2, <1>7 DEF CallInv, MeshTypes
<1>10. \A u \in Tabs \ {t} : Still(u)
  BY <1>1 DEF Still, CallInv, MeshTypes
<1>11. TabOk(t)'
  <2>1. /\ ~Left(t) /\ (Begins(t) <=> mesh[t].self = 0) /\ (Goes(t) <=> mesh[t].self # 0)
    BY <1>1, <1>2, <1>3 DEF Begins, Left, Goes
  <2>2. /\ live'[t] = live[t] \ (IF Goes(t) THEN {share[t]} ELSE {})
        /\ acquire'[t] = acquire[t] \union (IF Begins(t) THEN {"asked"} ELSE {})
    BY <2>1, FollowsAt DEF StoppedBy, AskedAfter, CallInv
  <2>3. /\ share'[t] = IF Goes(t) THEN None ELSE share[t]
        /\ sharing'[t] = sharing[t] /\ Switches(t)' = Switches(t) /\ Publishing(t)' = Publishing(t)
        /\ preview'[t] = preview[t] /\ lobby'[t] = lobby[t]
        /\ t \notin muddled' => /\ t \notin muddled
                                /\ Goes(t) => Switches(t) = {} /\ sharing[t] = "no"
    BY FollowsAt DEF CallInv
  <2>4. TabOk(t)
    BY DEF CallInv, TabsInv
  <2>5. mesh'[t].self # 0
    BY <1>1, <1>3
  <2>6. Outside(t)'
    BY <1>1, <1>3 DEF Outside
  <2>7. ASSUME t \notin muddled' PROVE Tidy(t)' /\ Sends(t)' /\ LobbyTidy(t)'
    <3>1. Tidy(t) /\ Sends(t) /\ LobbyTidy(t)
      BY <2>3, <2>4, <2>7 DEF TabOk
    <3>2. Switches(t) = {} /\ Publishing(t) = {} /\ sharing[t] = "no" /\ share'[t] = None
      BY <2>1, <2>3, <2>7, <3>1 DEF Tidy, Publishing
    <3>3. "asked" \in acquire'[t] => tracks'[t] = None
      BY <1>1, <2>1, <2>2, <3>1 DEF Tidy
    <3>4. live'[t] \subseteq {tracks[t]}
      BY <2>1, <2>2, <3>1, <3>2, NoneNoPicture DEF Tidy, CallInv, TrackTypes
    <3>5. Tidy(t)'
      BY <1>1, <2>3, <2>5, <3>2, <3>3, <3>4 DEF Tidy
    <3>6. Sends(t)'
      BY <1>1, <1>3, <2>3, <3>2 DEF Sends, Shown
    <3>7. LobbyTidy(t)'
      BY <2>3, <3>1 DEF LobbyTidy
    <3>8. QED
      BY <3>5, <3>6, <3>7
  <2>8. QED
    BY <2>6, <2>7 DEF TabOk
<1>12. TabsInv'
  BY <1>10, <1>11, OtherTabs DEF CallInv
<1>13. QED
  BY <1>4, <1>8, <1>9, <1>12 DEF CallInv

\* A call is left: what was captured in it is stopped, and what was asked for no
\* longer wanted.
LEMMA LeaveOk ==
  ASSUME CallInv, TracksFollow, LobbyFollow, NEW t \in Tabs, Leave(t)
  PROVE  CallInv'
<1>1. /\ id' = id /\ local' = local /\ self[t] # 0
      /\ self' = [self EXCEPT ![t] = 0] /\ tracks' = [tracks EXCEPT ![t] = None]
      /\ mesh' = [mesh EXCEPT ![t].self = 0] /\ links' = [links EXCEPT ![t] = NoLinks]
  BY DEF Leave, Close
<1>2. /\ DOMAIN links = Tabs /\ \A u \in Tabs : DOMAIN links[u] = Ids
      /\ mesh[t] \in [self : Nat, session : Nat]
  BY DEF CallInv, MeshTypes
<1>3. self'[t] = 0 /\ tracks'[t] = None /\ mesh'[t] = [mesh[t] EXCEPT !.self = 0] /\ mesh'[t].self = 0
  BY <1>1, <1>2 DEF CallInv, MeshTypes
<1>4. Noting /\ TrackTypes'
  BY FollowTypes DEF CallInv
<1>5. links'[t] = NoLinks /\ DOMAIN links' = Tabs /\ \A u \in Tabs : DOMAIN links'[u] = Ids
  BY <1>1, <1>2 DEF NoLinks
<1>6. LinksInv'
  <2>1. ASSUME NEW u \in Tabs, NEW p \in Ids, links'[u][p] # None
        PROVE  links'[u][p] = links[u][p] /\ local'[u] = local[u]
    BY <1>1, <1>2, <1>5, <2>1 DEF NoLinks
  <2>2. QED
    BY <1>4, <1>5, <2>1, LinksFit DEF CallInv
<1>7. MeshTypes'
  BY <1>1, <1>2, <1>5 DEF CallInv, MeshTypes, Video
<1>8. \A u \in Tabs \ {t} : Still(u)
  BY <1>1 DEF Still, CallInv, MeshTypes
<1>9. TabOk(t)'
  <2>1. Left(t) /\ ~Begins(t) /\ (Goes(t) <=> mesh[t].self # 0)
    <3>1. Left(t) /\ ~Begins(t)
      BY <1>1, <1>3 DEF Left, Begins
    <3>2. Goes(t) => mesh[t].self # 0
      BY DEF Goes
    <3>3. mesh[t].self # 0 => Goes(t)
      BY <1>3 DEF Goes
    <3>4. QED
      BY <3>1, <3>2, <3>3
  <2>2. /\ live'[t] = live[t] \ ({tracks[t]} \union (IF Goes(t) THEN {share[t]} ELSE {}))
        /\ "asked" \notin acquire'[t]
    <3>1. StoppedBy(t) = {tracks[t]} \union (IF Goes(t) THEN {share[t]} ELSE {})
      BY <2>1 DEF StoppedBy
    <3>2. "asked" \notin AskedAfter(t)
      BY <2>1 DEF AskedAfter
    <3>3. QED
      BY <3>1, <3>2, FollowsAt DEF CallInv
  <2>3. /\ share'[t] = IF Goes(t) THEN None ELSE share[t]
        /\ sharing'[t] = sharing[t] /\ Switches(t)' = Switches(t) /\ Publishing(t)' = Publishing(t)
        /\ preview'[t] = preview[t] /\ lobby'[t] = lobby[t]
        /\ t \notin muddled' => /\ t \notin muddled
                                /\ Goes(t) => Switches(t) = {} /\ sharing[t] = "no"
    BY FollowsAt DEF CallInv
  <2>4. TabOk(t)
    BY DEF CallInv, TabsInv
  <2>5. Outside(t)'
    BY <1>3, <2>2 DEF Outside
  <2>6. ASSUME t \notin muddled' PROVE Tidy(t)' /\ Sends(t)' /\ LobbyTidy(t)'
    <3>1. Tidy(t) /\ Sends(t) /\ LobbyTidy(t)
      BY <2>3, <2>4, <2>6 DEF TabOk
    <3>2. Switches(t) = {} /\ Publishing(t) = {} /\ sharing[t] = "no" /\ share'[t] = None
      BY <2>1, <2>3, <2>6, <3>1 DEF Tidy, Publishing
    <3>3. live'[t] \subseteq {None}
      BY <2>1, <2>2, <2>3, <3>1, <3>2 DEF Tidy
    <3>4. Tidy(t)'
      BY <1>3, <2>2, <2>3, <3>2, <3>3 DEF Tidy
    <3>5. Sends(t)'
      BY <1>3 DEF Sends
    <3>6. LobbyTidy(t)'
      BY <2>3, <3>1 DEF LobbyTidy
    <3>7. QED
      BY <3>4, <3>5, <3>6
  <2>7. QED
    BY <2>5, <2>6 DEF TabOk
<1>10. TabsInv'
  BY <1>8, <1>9, OtherTabs DEF CallInv
<1>11. QED
  BY <1>4, <1>6, <1>7, <1>10 DEF CallInv

\* A step of the mesh, with what follows it.
LEMMA MeshOk ==
  ASSUME CallInv, MeshNext, TracksFollow, LobbyFollow
  PROVE  CallInv'
<1>1. CASE \E t \in Tabs : Reconnect(t)
  <2>1. PICK t \in Tabs : Reconnect(t)
    BY <1>1
  <2>2. id' \in [Tabs -> Ids]
    BY <2>1 DEF Reconnect, CallInv, MeshTypes
  <2>3. QED
    BY <2>1, <2>2, QuietStepOk DEF Reconnect, callVars
<1>2. CASE \E t \in Tabs : Relay(t)
  <2>1. PICK t \in Tabs : Relay(t)
    BY <1>2
  <2>2. id' = id /\ self' = self /\ mesh' = mesh /\ tracks' = tracks /\ local' = local /\ links' = links
    BY <2>1 DEF Relay, callVars
  <2>3. QED
    BY <2>2, QuietStepOk DEF CallInv, MeshTypes
<1>3. CASE \E i \in Ids : Vacate(i)
  <2>1. id' = id /\ self' = self /\ mesh' = mesh /\ tracks' = tracks /\ local' = local /\ links' = links
    BY <1>3 DEF Vacate, callVars
  <2>2. QED
    BY <2>1, QuietStepOk DEF CallInv, MeshTypes
<1>4. QED
  BY <1>1, <1>2, <1>3, JoinOk, MountOk, LeaveOk, FollowRosterOk, LinkStepsOk DEF MeshNext

-----------------------------------------------------------------------------
(* The camera and the screen.                                              *)

\* A step at one tab.
LEMMA OneTab ==
  ASSUME TabsInv, Noting, NEW t \in Tabs, \A u \in Tabs \ {t} : Same(u), TabOk(t)'
  PROVE  TabsInv'
<1>1. ASSUME NEW u \in Tabs \ {t} PROVE TabOk(u)'
  BY SameOk DEF TabsInv
<1>2. QED
  BY <1>1 DEF TabsInv

\* A replacement asked of a link that has transceivers is in the end what it carries.
LEMMA AppendFits ==
  ASSUME NEW t, NEW l, CarryOk(l), NEW track \in Video, ~HasSender(l, track),
         l # None, local'[t] = track
  PROVE  Fits(t, [l EXCEPT !.swaps = Append(@, track)])'
<1> DEFINE n == [l EXCEPT !.swaps = Append(@, track)]
<1>1. /\ {"files", "sends", "swaps"} \subseteq DOMAIN n
      /\ n.files = l.files /\ n.sends = l.sends /\ n.swaps = Append(l.swaps, track)
  BY DEF CarryOk
<1>2. l.files /\ l.swaps \in Seq(Video)
  BY DEF HasSender, CarryOk
<1>3. /\ Append(l.swaps, track) \in Seq(Video) /\ Append(l.swaps, track) # <<>>
      /\ Append(l.swaps, track)[Len(Append(l.swaps, track))] = track
  BY <1>2, AppendProperties
<1> HIDE DEF n
<1>4. Final(n) = track
  BY <1>1, <1>3 DEF Final
<1>5. CarryOk(n)
  BY <1>1, <1>2, <1>3 DEF CarryOk
<1>6. Fits(t, n)'
  BY <1>4, <1>5 DEF Fits
<1>7. QED
  BY <1>6 DEF n

\* Publishing: every link comes to carry the track, unless a replacement was being
\* done, which is noted.
LEMMA PublishesOk ==
  ASSUME MeshTypes, LinksInv, Noting, NEW t \in Tabs, NEW track \in Video, Publishes(t, track),
         ~Swapped(t) => t \in muddled'
  PROVE  /\ LinksInv' /\ DOMAIN links' = Tabs /\ \A u \in Tabs : DOMAIN links'[u] = Ids
         /\ local' \in [Tabs -> Video]
         /\ local'[t] = IF mesh[t].self = 0 THEN local[t] ELSE track
         /\ \A u \in Tabs \ {t} : local'[u] = local[u]
<1>1. DOMAIN links = Tabs /\ (\A u \in Tabs : DOMAIN links[u] = Ids) /\ local \in [Tabs -> Video]
  BY DEF MeshTypes
<1>2. CASE mesh[t].self = 0
  <2>1. local' = local /\ links' = links
    BY <1>2 DEF Publishes
  <2>2. LinksInv'
    BY <2>1 DEF LinksInv, Noting, Fits
  <2>3. QED
    BY <1>1, <1>2, <2>1, <2>2
<1>3. CASE mesh[t].self # 0
  <2> DEFINE row == [p \in Ids |-> SetSender(links[t][p], track)]
  <2>1. local' = [local EXCEPT ![t] = track] /\ links' = [links EXCEPT ![t] = row]
    BY <1>3 DEF Publishes, Publish
  <2>2. /\ local'[t] = track /\ links'[t] = row /\ DOMAIN links' = Tabs
        /\ \A u \in Tabs : DOMAIN links'[u] = Ids
        /\ \A u \in Tabs \ {t} : links'[u] = links[u] /\ local'[u] = local[u]
        /\ \A p \in Ids : links'[t][p] = SetSender(links[t][p], track)
    BY <1>1, <2>1
  <2>3. ASSUME NEW u \in Tabs, NEW p \in Ids, links'[u][p] # None
        PROVE  Fits(u, links[u][p])' \/ (links'[u][p] = links[u][p] /\ local'[u] = local[u])
    <3>1. CASE u # t
      BY <2>2, <3>1
    <3>2. CASE u = t
      <4>1. PICK l : l = links[t][p]
        OBVIOUS
      <4>2. CASE HasSender(l, track)
        <5>1. links'[t][p] = l /\ l # None
          BY <2>2, <2>3, <3>2, <4>1, <4>2 DEF SetSender
        <5>2. Fits(t, l)
          BY <4>1, <5>1 DEF LinksInv
        <5>3. CASE l.files /\ t \notin muddled'
          <6>1. l.sends = track /\ l.swaps = <<>>
            BY <4>1, <4>2, <5>1, <5>3 DEF HasSender, Swapped
          <6>2. Fits(t, l)'
            BY <2>2, <5>2, <6>1 DEF Fits, Final
          <6>3. QED
            BY <3>2, <5>1, <6>2
        <5>4. CASE ~l.files \/ t \in muddled'
          <6>1. Fits(t, l)'
            BY <5>2, <5>4 DEF Fits
          <6>2. QED
            BY <3>2, <5>1, <6>1
        <5>5. QED
          BY <5>3, <5>4
      <4>3. CASE ~HasSender(l, track)
        <5>1. links'[t][p] = [l EXCEPT !.swaps = Append(@, track)] /\ l # None
          BY <2>2, <4>1, <4>3 DEF SetSender, HasSender
        <5>2. CarryOk(l)
          BY <4>1, <5>1 DEF LinksInv, Fits
        <5>3. Fits(t, [l EXCEPT !.swaps = Append(@, track)])'
          BY <2>2, <4>3, <5>1, <5>2, AppendFits
        <5>4. QED
          BY <3>2, <5>1, <5>3
      <4>4. QED
        BY <4>2, <4>3
    <3>3. QED
      BY <3>1, <3>2
  <2>4. LinksInv'
    BY <2>2, <2>3, LinksFit
  <2>5. QED
    BY <1>1, <1>3, <2>1, <2>2, <2>4
<1>4. QED
  BY <1>2, <1>3

\* A replacement done leaves what a link comes to carry.
LEMMA ReplacedFits ==
  ASSUME NEW t, NEW l, Fits(t, l), l.swaps # <<>>
  PROVE  Fits(t, [l EXCEPT !.sends = Head(l.swaps), !.swaps = Tail(@)])
<1> DEFINE n == [l EXCEPT !.sends = Head(l.swaps), !.swaps = Tail(@)]
<1>1. /\ {"files", "sends", "swaps"} \subseteq DOMAIN n
      /\ n.files = l.files /\ n.sends = Head(l.swaps) /\ n.swaps = Tail(l.swaps)
  BY DEF Fits, CarryOk
<1> HIDE DEF n
<1>2. l.swaps \in Seq(Video) /\ l.files
  BY DEF Fits, CarryOk
<1>3. /\ Head(l.swaps) \in Video /\ Tail(l.swaps) \in Seq(Video)
      /\ Len(Tail(l.swaps)) = Len(l.swaps) - 1
      /\ \A i \in 1 .. Len(Tail(l.swaps)) : Tail(l.swaps)[i] = l.swaps[i + 1]
      /\ Len(l.swaps) \in Nat \ {0} /\ Head(l.swaps) = l.swaps[1]
  BY <1>2, HeadTailProperties, EmptySeq, LenProperties
<1>4. Final(n) = Final(l)
  <2>1. CASE Tail(l.swaps) = <<>>
    <3>1. Len(<<>>) = 0
      OBVIOUS
    <3>2. Len(Tail(l.swaps)) = 0
      BY <2>1, <3>1
    <3>3. Len(l.swaps) = 1
      BY <1>3, <3>2
    <3>4. QED
      BY <1>1, <1>3, <2>1, <3>3 DEF Final
  <2>2. CASE Tail(l.swaps) # <<>>
    <3>1. Len(Tail(l.swaps)) \in 1 .. Len(Tail(l.swaps)) /\ Len(Tail(l.swaps)) + 1 = Len(l.swaps)
      BY <1>3, <2>2, EmptySeq
    <3>2. QED
      BY <1>1, <1>3, <2>2, <3>1 DEF Final
  <2>3. QED
    BY <2>1, <2>2
<1>5. CarryOk(n)
  BY <1>1, <1>2, <1>3 DEF CarryOk
<1>6. QED
  BY <1>1, <1>4, <1>5 DEF Fits, n

\* What no step of the camera, the screen or the lobby touches.
Apart == id' = id /\ self' = self /\ mesh' = mesh

\* A replacement is done.
LEMMA TrackReplacedOk ==
  ASSUME CallInv, NEW t \in Tabs, NEW p \in Ids, TrackReplaced(t, p), chosen' = chosen, UNCHANGED lobbyVars
  PROVE  CallInv'
<1>1. /\ Apart /\ tracks' = tracks /\ local' = local /\ live' = live /\ acquire' = acquire
      /\ switching' = switching /\ share' = share /\ sharing' = sharing /\ muddled' = muddled
  BY DEF TrackReplaced, meshRest, Apart
<1>2. lobby' = lobby /\ preview' = preview
  BY DEF lobbyVars
<1>3. Noting /\ TrackTypes'
  BY <1>1, <1>2 DEF Noting, CallInv, TrackTypes
<1>4. LinksInv' /\ DOMAIN links' = Tabs /\ \A u \in Tabs : DOMAIN links'[u] = Ids
  <2>1. PICK l : l = links[t][p]
    OBVIOUS
  <2>2. l # None /\ l.swaps # <<>> /\ SetLink(t, p, [l EXCEPT !.sends = Head(l.swaps), !.swaps = Tail(@)])
    BY <2>1 DEF TrackReplaced
  <2>3. Fits(t, [l EXCEPT !.sends = Head(l.swaps), !.swaps = Tail(@)])
    BY <2>1, <2>2, ReplacedFits DEF CallInv, LinksInv
  <2>4. QED
    BY <1>1, <1>3, <2>2, <2>3, LinkSet DEF CallInv
<1>5. MeshTypes'
  BY <1>1, <1>4 DEF CallInv, MeshTypes, Apart
<1>6. TabsInv'
  <2>1. ASSUME NEW u \in Tabs PROVE Same(u)
    BY <1>1, <1>2 DEF Same, Switches, Apart
  <2>2. QED
    BY <1>3, <2>1, SameOk DEF CallInv, TabsInv
<1>7. QED
  BY <1>3, <1>4, <1>5, <1>6 DEF CallInv

\* Steps that publish nothing.
LEMMA UnpublishedOk ==
  ASSUME CallInv, Apart, Noting, links' = links, local' = local, tracks' \in [Tabs -> Video]
  PROVE  MeshTypes' /\ LinksInv'
<1>1. LinksInv'
  BY DEF CallInv, LinksInv, Noting, Fits
<1>2. MeshTypes'
  BY DEF CallInv, MeshTypes, Apart
<1>3. QED
  BY <1>1, <1>2

\* Steps that publish a track.
LEMMA PublishedOk ==
  ASSUME CallInv, Apart, Noting, NEW t \in Tabs, NEW track \in Video, Publishes(t, track),
         ~Swapped(t) => t \in muddled', tracks' \in [Tabs -> Video]
  PROVE  /\ MeshTypes' /\ LinksInv'
         /\ local'[t] = IF mesh[t].self = 0 THEN local[t] ELSE track
         /\ \A u \in Tabs \ {t} : local'[u] = local[u]
<1>1. /\ LinksInv' /\ DOMAIN links' = Tabs /\ \A u \in Tabs : DOMAIN links'[u] = Ids
      /\ local' \in [Tabs -> Video]
      /\ local'[t] = IF mesh[t].self = 0 THEN local[t] ELSE track
      /\ \A u \in Tabs \ {t} : local'[u] = local[u]
  BY PublishesOk DEF CallInv
<1>2. MeshTypes'
  BY <1>1 DEF CallInv, MeshTypes, Apart
<1>3. QED
  BY <1>1, <1>2

\* The switches of other tabs.
LEMMA SwitchesElsewhere ==
  ASSUME NEW t, NEW s, NEW r, s.tab = t, r.tab = t,
         \/ switching' = switching \union {r}
         \/ switching' = switching \ {s}
         \/ switching' = (switching \ {s}) \union {r}
  PROVE  \A u \in Tabs \ {t} : Switches(u)' = Switches(u)
BY DEF Switches

\* A switch of the camera begins, one at a time unless it is noted.
LEMMA SwitchOk ==
  ASSUME CallInv, NEW t \in Tabs, Switch(t), chosen' = chosen, UNCHANGED lobbyVars
  PROVE  CallInv'
<1>1. PICK i \in 1 .. Len(Cameras[t]) : switching' = switching \union
          {[tab |-> t, step |-> "acquiring", next |-> Cameras[t][i], previous |-> tracks[t]]}
  BY DEF Switch
<1>2. PICK r : r = [tab |-> t, step |-> "acquiring", next |-> Cameras[t][i], previous |-> tracks[t]]
  OBVIOUS
<1>3. /\ mesh[t].self # 0 /\ Apart /\ tracks' = tracks /\ local' = local /\ links' = links /\ live' = live
      /\ acquire' = acquire /\ share' = share /\ sharing' = sharing /\ lobby' = lobby /\ preview' = preview
      /\ switching' = switching \union {r} /\ Noted(t, Switching(t) \/ acquire[t] # {})
  BY <1>1, <1>2 DEF Switch, meshRest, lobbyVars, Apart
<1>4. Noting /\ (t \notin muddled' => t \notin muddled /\ Switches(t) = {} /\ acquire[t] = {})
  BY <1>3 DEF Noting, Noted, Switching, Switches
<1>5. r \in [tab : Tabs, step : {"acquiring", "publishing"}, next : STRING, previous : Video]
  BY <1>2, CamerasAre DEF CallInv, MeshTypes
<1>6. TrackTypes'
  BY <1>3, <1>5 DEF CallInv, TrackTypes
<1>7. MeshTypes' /\ LinksInv'
  BY <1>3, <1>4, UnpublishedOk DEF CallInv, MeshTypes
<1>8. \A u \in Tabs \ {t} : Same(u)
  BY <1>2, <1>3, SwitchesElsewhere DEF Same, Apart
<1>9. TabOk(t)'
  <2>1. TabOk(t)
    BY DEF CallInv, TabsInv
  <2>2. Outside(t)'
    BY <1>3, <2>1 DEF TabOk, Outside, Apart
  <2>3. ASSUME t \notin muddled' PROVE Tidy(t)' /\ Sends(t)' /\ LobbyTidy(t)'
    <3>1. Tidy(t) /\ Sends(t) /\ LobbyTidy(t) /\ Switches(t) = {} /\ acquire[t] = {}
      BY <1>4, <2>1, <2>3 DEF TabOk
    <3>2. Switches(t)' = {r} /\ r.previous = tracks[t]
      BY <1>2, <1>3, <3>1 DEF Switches
    <3>3. Publishing(t) = {} /\ Publishing(t)' = {}
      BY <1>2, <3>1, <3>2 DEF Publishing
    <3>4. Tidy(t)'
      BY <1>3, <3>1, <3>2, <3>3 DEF Tidy, Apart
    <3>5. Sends(t)'
      BY <1>3, <3>1, <3>3 DEF Sends, Shown, Apart
    <3>6. LobbyTidy(t)'
      BY <1>3, <3>1 DEF LobbyTidy
    <3>7. QED
      BY <3>4, <3>5, <3>6
  <2>4. QED
    BY <2>2, <2>3 DEF TabOk
<1>10. TabsInv'
  BY <1>4, <1>8, <1>9, OneTab DEF CallInv
<1>11. QED
  BY <1>6, <1>7, <1>10 DEF CallInv

\* A tab that switches its camera is in a call, and switches no other.
LEMMA SwitchAlone ==
  ASSUME CallInv, NEW s \in switching
  PROVE  /\ s \in [tab : Tabs, step : {"acquiring", "publishing"}, next : STRING, previous : Video]
         /\ s.tab \in Tabs /\ s.next \in Video /\ s.next \in Pictures /\ TabOk(s.tab)
         /\ s.tab \notin muddled =>
              /\ mesh[s.tab].self # 0 /\ Switches(s.tab) = {s} /\ s.previous = tracks[s.tab]
              /\ "asked" \notin acquire[s.tab]
              /\ Publishing(s.tab) = IF s.step = "publishing" THEN {s} ELSE {}
<1>1. s \in [tab : Tabs, step : {"acquiring", "publishing"}, next : STRING, previous : Video]
  BY DEF CallInv, TrackTypes
<1>2. s.tab \in Tabs /\ s.next \in Video /\ s.next \in Pictures /\ TabOk(s.tab)
  BY <1>1 DEF CallInv, TabsInv, Video, Pictures
<1>3. ASSUME s.tab \notin muddled
      PROVE  /\ mesh[s.tab].self # 0 /\ Switches(s.tab) = {s} /\ s.previous = tracks[s.tab]
             /\ "asked" \notin acquire[s.tab]
             /\ Publishing(s.tab) = IF s.step = "publishing" THEN {s} ELSE {}
  <2>1. Tidy(s.tab) /\ s \in Switches(s.tab)
    BY <1>2, <1>3 DEF TabOk, Switches
  <2>2. mesh[s.tab].self # 0 /\ Switches(s.tab) = {s} /\ s.previous = tracks[s.tab]
    BY <2>1 DEF Tidy
  <2>3. "asked" \notin acquire[s.tab]
    BY <2>1 DEF Tidy
  <2>4. QED
    BY <2>2, <2>3 DEF Publishing
<1>4. QED
  BY <1>1, <1>2, <1>3

\* The new camera comes while the screen is shown: it waits for the end of that.
LEMMA SwitchedBehindOk ==
  ASSUME CallInv, NEW s, SwitchAcquired(s), share[s.tab] # None, chosen' = chosen, UNCHANGED lobbyVars
  PROVE  CallInv'
<1> DEFINE t == s.tab
<1>1. s \in switching /\ s.step = "acquiring"
  BY DEF SwitchAcquired
<1>2. /\ Apart /\ local' = local /\ links' = links /\ acquire' = acquire /\ share' = share
      /\ sharing' = sharing /\ lobby' = lobby /\ preview' = preview /\ muddled' = muddled
      /\ switching' = switching \ {s} /\ Taken(s)
  BY DEF SwitchAcquired, meshRest, lobbyVars, Apart
<1>3. t \in Tabs /\ s.next \in Video /\ s.next \in Pictures /\ TabOk(t)
  BY <1>1, SwitchAlone
<1>4. /\ live' = [live EXCEPT ![t] = (live[t] \union {s.next}) \ {s.previous}]
      /\ tracks' = [tracks EXCEPT ![t] = s.next]
  BY <1>2 DEF Taken
<1> HIDE DEF t
<1>5. Noting /\ tracks' \in [Tabs -> Video]
  BY <1>2, <1>3, <1>4 DEF Noting, CallInv, MeshTypes
<1>6. live' \in [Tabs -> SUBSET Pictures]
  BY <1>3, <1>4 DEF CallInv, TrackTypes
<1>7. TrackTypes'
  BY <1>2, <1>6, chosen' = chosen DEF CallInv, TrackTypes
<1>8. MeshTypes' /\ LinksInv'
  BY <1>2, <1>5, UnpublishedOk
<1>9. \A u \in Tabs \ {t} : Same(u)
  <2>1. \A u \in Tabs \ {t} : Switches(u)' = Switches(u)
    BY <1>2, SwitchesElsewhere DEF t
  <2>2. QED
    BY <1>2, <1>4, <2>1 DEF Same, Apart, CallInv, MeshTypes, TrackTypes
<1>10. /\ live'[t] = (live[t] \union {s.next}) \ {s.previous} /\ tracks'[t] = s.next
  BY <1>3, <1>4 DEF CallInv, MeshTypes, TrackTypes
<1>11. TabOk(t)'
  <2>1. Outside(t)'
    BY <1>2, <1>3 DEF TabOk, Outside, Apart
  <2>2. ASSUME t \notin muddled' PROVE Tidy(t)' /\ Sends(t)' /\ LobbyTidy(t)'
    <3>1. Tidy(t) /\ Sends(t) /\ LobbyTidy(t)
      BY <1>2, <1>3, <2>2 DEF TabOk
    <3>2. /\ mesh[t].self # 0 /\ Switches(t) = {s} /\ s.previous = tracks[t]
          /\ "asked" \notin acquire[t] /\ Publishing(t) = {}
      BY <1>1, <1>2, <2>2, SwitchAlone DEF t
    <3>3. Switches(t)' = {} /\ Publishing(t)' = {}
      BY <1>2, <3>2 DEF Switches, Publishing
    <3>4. live'[t] \subseteq {tracks'[t], share'[t]}
      BY <1>2, <1>10, <3>1, <3>2 DEF Tidy
    <3>5. Tidy(t)'
      BY <1>2, <3>1, <3>2, <3>3, <3>4 DEF Tidy, Apart
    <3>6. Sends(t)'
      BY <1>2, <3>1, <3>2, <3>3 DEF Sends, Shown, Apart, t
    <3>7. LobbyTidy(t)'
      BY <1>2, <3>1 DEF LobbyTidy
    <3>8. QED
      BY <3>5, <3>6, <3>7
  <2>3. QED
    BY <2>1, <2>2 DEF TabOk
<1>12. TabsInv'
  BY <1>3, <1>5, <1>9, <1>11, OneTab DEF CallInv
<1>13. QED
  BY <1>7, <1>8, <1>12 DEF CallInv

\* The new camera comes, and is published.
LEMMA SwitchedOk ==
  ASSUME CallInv, NEW s, SwitchAcquired(s), share[s.tab] = None, chosen' = chosen, UNCHANGED lobbyVars
  PROVE  CallInv'
<1> DEFINE t == s.tab
<1>1. s \in switching /\ s.step = "acquiring"
  BY DEF SwitchAcquired
<1>2. PICK r : r = [s EXCEPT !.step = "publishing"]
  OBVIOUS
<1>3. /\ Apart /\ tracks' = tracks /\ acquire' = acquire /\ share' = share
      /\ sharing' = sharing /\ lobby' = lobby /\ preview' = preview
      /\ switching' = (switching \ {s}) \union {r} /\ live' = [live EXCEPT ![t] = live[t] \union {s.next}]
      /\ Noted(t, ~Swapped(t)) /\ Publishes(t, s.next)
  BY <1>2 DEF SwitchAcquired, meshRest, lobbyVars, Apart
<1>4. t \in Tabs /\ s.next \in Video /\ s.next \in Pictures /\ TabOk(t)
  BY <1>1, SwitchAlone
<1>5. /\ r \in [tab : Tabs, step : {"acquiring", "publishing"}, next : STRING, previous : Video]
      /\ r.tab = s.tab /\ r.next = s.next /\ r.previous = s.previous /\ r.step = "publishing"
  BY <1>1, <1>2, SwitchAlone
<1>6. share[t] = None
  OBVIOUS
<1> HIDE DEF t
<1>7. Noting /\ tracks' \in [Tabs -> Video] /\ (~Swapped(t) => t \in muddled')
  BY <1>3 DEF Noting, Noted, CallInv, MeshTypes
<1>8. live' \in [Tabs -> SUBSET Pictures]
  BY <1>3, <1>4 DEF CallInv, TrackTypes
<1>9. TrackTypes'
  BY <1>3, <1>8, <1>5, chosen' = chosen DEF CallInv, TrackTypes
<1>10. /\ MeshTypes' /\ LinksInv'
       /\ local'[t] = IF mesh[t].self = 0 THEN local[t] ELSE s.next
       /\ \A u \in Tabs \ {t} : local'[u] = local[u]
  BY <1>3, <1>4, <1>7, PublishedOk
<1>11. \A u \in Tabs \ {t} : Same(u)
  <2>1. \A u \in Tabs \ {t} : Switches(u)' = Switches(u)
    BY <1>3, <1>5, SwitchesElsewhere DEF t
  <2>2. QED
    BY <1>3, <1>10, <2>1 DEF Same, Apart, CallInv, MeshTypes, TrackTypes
<1>12. live'[t] = live[t] \union {s.next}
  BY <1>3, <1>4 DEF CallInv, TrackTypes
<1>13. TabOk(t)'
  <2>1. Outside(t)'
    BY <1>3, <1>4 DEF TabOk, Outside, Apart
  <2>2. ASSUME t \notin muddled' PROVE Tidy(t)' /\ Sends(t)' /\ LobbyTidy(t)'
    <3>1. t \notin muddled
      BY <1>7, <2>2 DEF Noting
    <3>2. Tidy(t) /\ Sends(t) /\ LobbyTidy(t)
      BY <1>4, <3>1 DEF TabOk
    <3>3. /\ mesh[t].self # 0 /\ Switches(t) = {s} /\ s.previous = tracks[t]
          /\ "asked" \notin acquire[t] /\ Publishing(t) = {}
      BY <1>1, <3>1, SwitchAlone DEF t
    <3>4. Switches(t)' = {r} /\ Publishing(t)' = {r}
      BY <1>3, <1>5, <3>3 DEF Switches, Publishing, t
    <3>5. live'[t] \subseteq {tracks'[t], share'[t]} \union {q.next : q \in Publishing(t)'}
      BY <1>3, <1>12, <1>5, <3>2, <3>3, <3>4 DEF Tidy
    <3>6. Tidy(t)'
      BY <1>3, <1>5, <3>2, <3>3, <3>4, <3>5 DEF Tidy, Apart
    <3>7. Sends(t)'
      BY <1>3, <1>10, <1>5, <1>6, <3>3, <3>4 DEF Sends, Apart
    <3>8. LobbyTidy(t)'
      BY <1>3, <3>2 DEF LobbyTidy
    <3>9. QED
      BY <3>6, <3>7, <3>8
  <2>3. QED
    BY <2>1, <2>2 DEF TabOk
<1>14. TabsInv'
  BY <1>4, <1>7, <1>11, <1>13, OneTab DEF CallInv
<1>15. QED
  BY <1>9, <1>10, <1>14 DEF CallInv

\* Published everywhere: the camera before it is stopped.
LEMMA SwitchDoneOk ==
  ASSUME CallInv, NEW s, SwitchDone(s), chosen' = chosen, UNCHANGED lobbyVars
  PROVE  CallInv'
<1> DEFINE t == s.tab
<1>1. s \in switching /\ s.step = "publishing"
  BY DEF SwitchDone
<1>2. /\ Apart /\ local' = local /\ links' = links /\ acquire' = acquire /\ share' = share
      /\ sharing' = sharing /\ lobby' = lobby /\ preview' = preview /\ muddled' = muddled
      /\ switching' = switching \ {s} /\ Taken(s)
  BY DEF SwitchDone, meshRest, lobbyVars, Apart
<1>3. t \in Tabs /\ s.next \in Video /\ s.next \in Pictures /\ TabOk(t)
  BY <1>1, SwitchAlone
<1>4. /\ live' = [live EXCEPT ![t] = (live[t] \union {s.next}) \ {s.previous}]
      /\ tracks' = [tracks EXCEPT ![t] = s.next]
  BY <1>2 DEF Taken
<1> HIDE DEF t
<1>5. Noting /\ tracks' \in [Tabs -> Video]
  BY <1>2, <1>3, <1>4 DEF Noting, CallInv, MeshTypes
<1>6. live' \in [Tabs -> SUBSET Pictures]
  BY <1>3, <1>4 DEF CallInv, TrackTypes
<1>7. TrackTypes'
  BY <1>2, <1>6, chosen' = chosen DEF CallInv, TrackTypes
<1>8. MeshTypes' /\ LinksInv'
  BY <1>2, <1>5, UnpublishedOk
<1>9. \A u \in Tabs \ {t} : Same(u)
  <2>1. \A u \in Tabs \ {t} : Switches(u)' = Switches(u)
    BY <1>2, SwitchesElsewhere DEF t
  <2>2. QED
    BY <1>2, <1>4, <2>1 DEF Same, Apart, CallInv, MeshTypes, TrackTypes
<1>10. /\ live'[t] = (live[t] \union {s.next}) \ {s.previous} /\ tracks'[t] = s.next
  BY <1>3, <1>4 DEF CallInv, MeshTypes, TrackTypes
<1>11. TabOk(t)'
  <2>1. Outside(t)'
    BY <1>2, <1>3 DEF TabOk, Outside, Apart
  <2>2. ASSUME t \notin muddled' PROVE Tidy(t)' /\ Sends(t)' /\ LobbyTidy(t)'
    <3>1. Tidy(t) /\ Sends(t) /\ LobbyTidy(t)
      BY <1>2, <1>3, <2>2 DEF TabOk
    <3>2. /\ mesh[t].self # 0 /\ Switches(t) = {s} /\ s.previous = tracks[t]
          /\ "asked" \notin acquire[t] /\ Publishing(t) = {s}
      BY <1>1, <1>2, <2>2, SwitchAlone DEF t
    <3>3. Switches(t)' = {} /\ Publishing(t)' = {}
      BY <1>2, <3>2 DEF Switches, Publishing
    <3>4. local[t] = s.next /\ share[t] = None
      BY <3>1, <3>2 DEF Sends
    <3>5. live'[t] \subseteq {tracks'[t], share'[t]}
      BY <1>2, <1>10, <3>1, <3>2, <3>4 DEF Tidy
    <3>6. Tidy(t)'
      BY <1>2, <3>1, <3>2, <3>3, <3>5 DEF Tidy, Apart
    <3>7. Sends(t)'
      BY <1>2, <1>10, <3>1, <3>2, <3>3, <3>4 DEF Sends, Shown, Apart
    <3>8. LobbyTidy(t)'
      BY <1>2, <3>1 DEF LobbyTidy
    <3>9. QED
      BY <3>6, <3>7, <3>8
  <2>3. QED
    BY <2>1, <2>2 DEF TabOk
<1>12. TabsInv'
  BY <1>3, <1>5, <1>9, <1>11, OneTab DEF CallInv
<1>13. QED
  BY <1>7, <1>8, <1>12 DEF CallInv

\* The camera chosen is not to be had: the one in use stays.
LEMMA SwitchFailsOk ==
  ASSUME CallInv, NEW s, SwitchFails(s), chosen' = chosen, UNCHANGED lobbyVars
  PROVE  CallInv'
<1> DEFINE t == s.tab
<1>1. s \in switching /\ s.step = "acquiring"
  BY DEF SwitchFails
<1>2. /\ Apart /\ tracks' = tracks /\ local' = local /\ links' = links /\ live' = live /\ acquire' = acquire
      /\ share' = share /\ sharing' = sharing /\ lobby' = lobby /\ preview' = preview
      /\ muddled' = muddled /\ switching' = switching \ {s}
  BY DEF SwitchFails, meshRest, lobbyVars, Apart
<1>3. t \in Tabs /\ TabOk(t)
  BY <1>1, SwitchAlone
<1> HIDE DEF t
<1>4. Noting
  BY <1>2 DEF Noting
<1>5. TrackTypes'
  BY <1>2, chosen' = chosen DEF CallInv, TrackTypes
<1>6. MeshTypes' /\ LinksInv'
  BY <1>2, <1>4, UnpublishedOk DEF CallInv, MeshTypes
<1>7. \A u \in Tabs \ {t} : Same(u)
  <2>1. \A u \in Tabs \ {t} : Switches(u)' = Switches(u)
    BY <1>2, SwitchesElsewhere DEF t
  <2>2. QED
    BY <1>2, <2>1 DEF Same, Apart
<1>8. TabOk(t)'
  <2>1. Outside(t)'
    BY <1>2, <1>3 DEF TabOk, Outside, Apart
  <2>2. ASSUME t \notin muddled' PROVE Tidy(t)' /\ Sends(t)' /\ LobbyTidy(t)'
    <3>1. Tidy(t) /\ Sends(t) /\ LobbyTidy(t)
      BY <1>2, <1>3, <2>2 DEF TabOk
    <3>2. mesh[t].self # 0 /\ Switches(t) = {s} /\ Publishing(t) = {}
      BY <1>1, <1>2, <2>2, SwitchAlone DEF t
    <3>3. Switches(t)' = {} /\ Publishing(t)' = {}
      BY <1>2, <3>2 DEF Switches, Publishing
    <3>4. Tidy(t)'
      BY <1>2, <3>1, <3>2, <3>3 DEF Tidy, Apart
    <3>5. Sends(t)'
      BY <1>2, <3>1, <3>2, <3>3 DEF Sends, Shown, Apart
    <3>6. LobbyTidy(t)'
      BY <1>2, <3>1 DEF LobbyTidy
    <3>7. QED
      BY <3>4, <3>5, <3>6
  <2>3. QED
    BY <2>1, <2>2 DEF TabOk
<1>9. TabsInv'
  BY <1>3, <1>4, <1>7, <1>8, OneTab DEF CallInv
<1>10. QED
  BY <1>5, <1>6, <1>9 DEF CallInv

\* The picker opens, or is closed again, or the screen has replaced the camera, or
\* the camera the screen: nothing of it concerns what is captured or published.
LEMMA SharingOk ==
  ASSUME CallInv, NEW t \in Tabs, StartShare(t) \/ NotPicked(t) \/ ShareDone(t),
         chosen' = chosen, UNCHANGED lobbyVars
  PROVE  CallInv'
<1>1. PICK step \in {"no", "picking"} : sharing' = [sharing EXCEPT ![t] = step]
  BY DEF StartShare, NotPicked, ShareDone
<1>2. /\ Apart /\ tracks' = tracks /\ local' = local /\ links' = links /\ live' = live /\ acquire' = acquire
      /\ switching' = switching /\ share' = share /\ muddled' = muddled /\ lobby' = lobby /\ preview' = preview
  BY DEF StartShare, NotPicked, ShareDone, meshRest, lobbyVars, Apart
<1>3. step = "picking" => mesh[t].self # 0 /\ share[t] = None
  BY <1>1 DEF StartShare, NotPicked, ShareDone, CallInv, TrackTypes
<1>4. sharing'[t] = step /\ \A u \in Tabs \ {t} : sharing'[u] = sharing[u]
  BY <1>1 DEF CallInv, TrackTypes
<1>5. Noting
  BY <1>2 DEF Noting
<1>6. TrackTypes'
  BY <1>1, <1>2, chosen' = chosen DEF CallInv, TrackTypes
<1>7. MeshTypes' /\ LinksInv'
  BY <1>2, <1>5, UnpublishedOk DEF CallInv, MeshTypes
<1>8. \A u \in Tabs \ {t} : Same(u)
  BY <1>2, <1>4 DEF Same, Apart, Switches
<1>9. TabOk(t)'
  <2>1. TabOk(t)
    BY DEF CallInv, TabsInv
  <2>2. Outside(t)'
    BY <1>2, <2>1 DEF TabOk, Outside, Apart
  <2>3. ASSUME t \notin muddled' PROVE Tidy(t)' /\ Sends(t)' /\ LobbyTidy(t)'
    <3>1. Tidy(t) /\ Sends(t) /\ LobbyTidy(t)
      BY <1>2, <2>1, <2>3 DEF TabOk
    <3>2. Switches(t)' = Switches(t) /\ Publishing(t)' = Publishing(t)
      BY <1>2 DEF Switches, Publishing
    <3>3. Tidy(t)'
      BY <1>2, <1>3, <1>4, <3>1, <3>2 DEF Tidy, Apart
    <3>4. Sends(t)'
      BY <1>2, <3>1, <3>2 DEF Sends, Shown, Apart
    <3>5. LobbyTidy(t)'
      BY <1>2, <3>1 DEF LobbyTidy
    <3>6. QED
      BY <3>3, <3>4, <3>5
  <2>4. QED
    BY <2>2, <2>3 DEF TabOk
<1>10. TabsInv'
  BY <1>5, <1>8, <1>9, OneTab DEF CallInv
<1>11. QED
  BY <1>6, <1>7, <1>10 DEF CallInv

\* A screen is picked, and published in the place of the camera.
LEMMA PickedOk ==
  ASSUME CallInv, NEW t \in Tabs, Picked(t), chosen' = chosen, UNCHANGED lobbyVars
  PROVE  CallInv'
<1>1. /\ Apart /\ tracks' = tracks /\ acquire' = acquire /\ switching' = switching
      /\ live' = [live EXCEPT ![t] = live[t] \union {"screen"}] /\ share' = [share EXCEPT ![t] = "screen"]
      /\ sharing' = [sharing EXCEPT ![t] = "swapping"] /\ lobby' = lobby /\ preview' = preview
      /\ Noted(t, ~Swapped(t) \/ Switching(t)) /\ Publishes(t, "screen") /\ sharing[t] = "picking"
  BY DEF Picked, meshRest, lobbyVars, Apart
<1>2. "screen" \in Pictures /\ "screen" \in Video /\ "screen" # None
  BY NoneNoPicture DEF Pictures, Video
<1>3. /\ Noting /\ tracks' \in [Tabs -> Video] /\ (~Swapped(t) => t \in muddled')
      /\ t \notin muddled' => t \notin muddled /\ Switches(t) = {}
  BY <1>1 DEF Noting, Noted, CallInv, MeshTypes, Switching, Switches
<1>4. TrackTypes'
  BY <1>1, <1>2, chosen' = chosen DEF CallInv, TrackTypes
<1>5. /\ MeshTypes' /\ LinksInv'
      /\ local'[t] = IF mesh[t].self = 0 THEN local[t] ELSE "screen"
      /\ \A u \in Tabs \ {t} : local'[u] = local[u]
  BY <1>1, <1>2, <1>3, PublishedOk
<1>6. /\ live'[t] = live[t] \union {"screen"} /\ share'[t] = "screen" /\ sharing'[t] = "swapping"
      /\ \A u \in Tabs \ {t} : live'[u] = live[u] /\ share'[u] = share[u] /\ sharing'[u] = sharing[u]
  BY <1>1 DEF CallInv, TrackTypes
<1>7. \A u \in Tabs \ {t} : Same(u)
  BY <1>1, <1>5, <1>6 DEF Same, Apart, Switches
<1>8. TabOk(t)'
  <2>1. TabOk(t)
    BY DEF CallInv, TabsInv
  <2>2. Outside(t)'
    BY <1>1, <2>1 DEF TabOk, Outside, Apart
  <2>3. ASSUME t \notin muddled' PROVE Tidy(t)' /\ Sends(t)' /\ LobbyTidy(t)'
    <3>1. Tidy(t) /\ Sends(t) /\ LobbyTidy(t) /\ Switches(t) = {}
      BY <1>3, <2>1, <2>3 DEF TabOk
    <3>2. mesh[t].self # 0 /\ share[t] = None
      BY <1>1, <3>1 DEF Tidy
    <3>3. Switches(t)' = {} /\ Publishing(t)' = {} /\ Publishing(t) = {}
      BY <1>1, <3>1 DEF Switches, Publishing
    <3>4. live'[t] \subseteq {tracks'[t], share'[t], None}
      BY <1>1, <1>6, <3>1, <3>2, <3>3 DEF Tidy
    <3>5. live'[t] \subseteq {tracks'[t], share'[t]}
      BY <1>4, <3>4, NoneNoPicture DEF TrackTypes
    <3>6. Tidy(t)'
      BY <1>1, <1>6, <3>1, <3>2, <3>3, <3>5 DEF Tidy, Apart
    <3>7. Sends(t)'
      BY <1>1, <1>2, <1>5, <1>6, <3>2, <3>3 DEF Sends, Shown, Apart
    <3>8. LobbyTidy(t)'
      BY <1>1, <3>1 DEF LobbyTidy
    <3>9. QED
      BY <3>6, <3>7, <3>8
  <2>4. QED
    BY <2>2, <2>3 DEF TabOk
<1>9. TabsInv'
  BY <1>3, <1>7, <1>8, OneTab DEF CallInv
<1>10. QED
  BY <1>4, <1>5, <1>9 DEF CallInv

\* The presentation ends, and the camera is published again.
LEMMA StopShareOk ==
  ASSUME CallInv, NEW t \in Tabs, StopShare(t), chosen' = chosen, UNCHANGED lobbyVars
  PROVE  CallInv'
<1>1. /\ Apart /\ tracks' = tracks /\ acquire' = acquire /\ switching' = switching /\ share[t] # None
      /\ live' = [live EXCEPT ![t] = live[t] \ {share[t]}] /\ share' = [share EXCEPT ![t] = None]
      /\ sharing' = [sharing EXCEPT ![t] = "stopping"] /\ lobby' = lobby /\ preview' = preview
      /\ Noted(t, ~Swapped(t) \/ Switching(t)) /\ Publishes(t, tracks[t])
  BY DEF StopShare, meshRest, lobbyVars, Apart
<1>2. PICK c : c = tracks[t] /\ c \in Video
  BY DEF CallInv, MeshTypes
<1>3. /\ Noting /\ tracks' \in [Tabs -> Video] /\ (~Swapped(t) => t \in muddled')
      /\ t \notin muddled' => t \notin muddled /\ Switches(t) = {}
  BY <1>1 DEF Noting, Noted, CallInv, MeshTypes, Switching, Switches
<1>4. TrackTypes'
  BY <1>1, chosen' = chosen DEF CallInv, TrackTypes, Video
<1>5. /\ MeshTypes' /\ LinksInv'
      /\ local'[t] = IF mesh[t].self = 0 THEN local[t] ELSE c
      /\ \A u \in Tabs \ {t} : local'[u] = local[u]
  <2>1. Publishes(t, c)
    BY <1>1, <1>2
  <2>2. QED
    BY <1>1, <1>2, <1>3, <2>1, PublishedOk
<1>6. /\ live'[t] = live[t] \ {share[t]} /\ share'[t] = None /\ sharing'[t] = "stopping"
      /\ \A u \in Tabs \ {t} : live'[u] = live[u] /\ share'[u] = share[u] /\ sharing'[u] = sharing[u]
  BY <1>1 DEF CallInv, TrackTypes
<1>7. \A u \in Tabs \ {t} : Same(u)
  BY <1>1, <1>5, <1>6 DEF Same, Apart, Switches
<1>8. TabOk(t)'
  <2>1. TabOk(t)
    BY DEF CallInv, TabsInv
  <2>2. Outside(t)'
    BY <1>1, <2>1 DEF TabOk, Outside, Apart
  <2>3. ASSUME t \notin muddled' PROVE Tidy(t)' /\ Sends(t)' /\ LobbyTidy(t)'
    <3>1. Tidy(t) /\ Sends(t) /\ LobbyTidy(t) /\ Switches(t) = {}
      BY <1>3, <2>1, <2>3 DEF TabOk
    <3>2. mesh[t].self # 0
      BY <1>1, <3>1 DEF Tidy
    <3>3. Switches(t)' = {} /\ Publishing(t)' = {} /\ Publishing(t) = {}
      BY <1>1, <3>1 DEF Switches, Publishing
    <3>4. live'[t] \subseteq {tracks'[t]}
      BY <1>1, <1>6, <3>1, <3>3 DEF Tidy
    <3>5. Tidy(t)'
      BY <1>1, <1>6, <3>1, <3>2, <3>3, <3>4 DEF Tidy, Apart
    <3>6. Sends(t)'
      BY <1>1, <1>2, <1>5, <1>6, <3>2, <3>3 DEF Sends, Shown, Apart
    <3>7. LobbyTidy(t)'
      BY <1>1, <3>1 DEF LobbyTidy
    <3>8. QED
      BY <3>5, <3>6, <3>7
  <2>4. QED
    BY <2>2, <2>3 DEF TabOk
<1>9. TabsInv'
  BY <1>3, <1>7, <1>8, OneTab DEF CallInv
<1>10. QED
  BY <1>4, <1>5, <1>9 DEF CallInv

\* The camera of the call is there.
LEMMA AcquiredOk ==
  ASSUME CallInv, NEW t \in Tabs, Acquired(t, "asked"), chosen' = chosen, UNCHANGED lobbyVars
  PROVE  CallInv'
<1> DEFINE c == chosen[t]
<1>1. /\ Apart /\ tracks' = [tracks EXCEPT ![t] = c] /\ "asked" \in acquire[t] /\ switching' = switching
      /\ acquire' = [acquire EXCEPT ![t] = acquire[t] \ {"asked"}]
      /\ live' = [live EXCEPT ![t] = live[t] \union {c}] /\ share' = share
      /\ sharing' = sharing /\ lobby' = lobby /\ preview' = preview
      /\ Noted(t, ~Swapped(t) \/ share[t] # None \/ Switching(t)) /\ Publishes(t, c)
  BY DEF Acquired, Wanted, meshRest, lobbyVars, Apart
<1>2. c \in Video /\ c \in Pictures
  BY DEF CallInv, TrackTypes, Pictures, Video
<1> HIDE DEF c
<1>3. /\ Noting /\ tracks' \in [Tabs -> Video] /\ (~Swapped(t) => t \in muddled')
      /\ t \notin muddled' => t \notin muddled /\ Switches(t) = {} /\ share[t] = None
  <2>1. /\ Noting /\ (~Swapped(t) => t \in muddled')
        /\ t \notin muddled' => t \notin muddled /\ Switches(t) = {} /\ share[t] = None
    BY <1>1 DEF Noting, Noted, Switching, Switches
  <2>2. QED
    BY <1>1, <1>2, <2>1 DEF CallInv, MeshTypes
<1>4. TrackTypes'
  BY <1>1, <1>2, chosen' = chosen DEF CallInv, TrackTypes
<1>5. /\ MeshTypes' /\ LinksInv'
      /\ local'[t] = IF mesh[t].self = 0 THEN local[t] ELSE c
      /\ \A u \in Tabs \ {t} : local'[u] = local[u]
  <2>1. PICK k : k = c
    OBVIOUS
  <2>2. Publishes(t, k) /\ k \in Video
    BY <1>1, <1>2, <2>1
  <2>3. QED
    BY <1>1, <1>3, <2>1, <2>2, PublishedOk
<1>6. /\ live'[t] = live[t] \union {c} /\ tracks'[t] = c /\ acquire'[t] = acquire[t] \ {"asked"}
      /\ \A u \in Tabs \ {t} : live'[u] = live[u] /\ tracks'[u] = tracks[u] /\ acquire'[u] = acquire[u]
  BY <1>1 DEF CallInv, MeshTypes, TrackTypes
<1>7. \A u \in Tabs \ {t} : Same(u)
  BY <1>1, <1>5, <1>6 DEF Same, Apart, Switches
<1>8. TabOk(t)'
  <2>1. TabOk(t)
    BY DEF CallInv, TabsInv
  <2>2. Outside(t)' /\ mesh[t].self # 0
    BY <1>1, <1>6, <2>1 DEF TabOk, Outside, Apart
  <2>3. ASSUME t \notin muddled' PROVE Tidy(t)' /\ Sends(t)' /\ LobbyTidy(t)'
    <3>1. Tidy(t) /\ Sends(t) /\ LobbyTidy(t) /\ Switches(t) = {} /\ share[t] = None
      BY <1>3, <2>1, <2>3 DEF TabOk
    <3>2. Switches(t)' = {} /\ Publishing(t)' = {} /\ Publishing(t) = {}
      BY <1>1, <3>1 DEF Switches, Publishing
    <3>3. live'[t] \subseteq {tracks'[t], share'[t]}
      BY <1>1, <1>6, <3>1, <3>2 DEF Tidy
    <3>4. Tidy(t)'
      BY <1>1, <1>6, <2>2, <3>1, <3>2, <3>3 DEF Tidy, Apart
    <3>5. Sends(t)'
      BY <1>1, <1>5, <1>6, <2>2, <3>1, <3>2 DEF Sends, Shown, Apart
    <3>6. LobbyTidy(t)'
      BY <1>1, <3>1 DEF LobbyTidy
    <3>7. QED
      BY <3>4, <3>5, <3>6
  <2>4. QED
    BY <2>2, <2>3 DEF TabOk
<1>9. TabsInv'
  BY <1>3, <1>7, <1>8, OneTab DEF CallInv
<1>10. QED
  BY <1>4, <1>5, <1>9 DEF CallInv

\* It is not to be had, or comes when the call was left.
LEMMA NotAcquiredOk ==
  ASSUME CallInv, NEW t \in Tabs, NEW ask \in Asks,
         NotAcquired(t, ask) \/ (ask = "late" /\ Acquired(t, ask)), chosen' = chosen, UNCHANGED lobbyVars
  PROVE  CallInv'
<1>1. /\ Apart /\ links' = links /\ local' = local /\ live' = live /\ switching' = switching
      /\ acquire' = [acquire EXCEPT ![t] = acquire[t] \ {ask}] /\ ask \in acquire[t]
      /\ share' = share /\ sharing' = sharing /\ lobby' = lobby /\ preview' = preview /\ muddled' = muddled
      /\ tracks' = tracks \/ (ask = "asked" /\ tracks' = [tracks EXCEPT ![t] = None])
  BY DEF Acquired, NotAcquired, Wanted, meshRest, lobbyVars, Apart
<1>2. tracks' \in [Tabs -> Video] /\ Noting
  BY <1>1 DEF CallInv, MeshTypes, Video, Noting
<1>3. MeshTypes' /\ LinksInv'
  BY <1>1, <1>2, UnpublishedOk
<1>4. TrackTypes'
  BY <1>1, chosen' = chosen DEF CallInv, TrackTypes
<1>5. /\ acquire'[t] = acquire[t] \ {ask}
      /\ \A u \in Tabs \ {t} : acquire'[u] = acquire[u] /\ tracks'[u] = tracks[u]
      /\ tracks'[t] = tracks[t] \/ (ask = "asked" /\ tracks'[t] = None)
  BY <1>1 DEF CallInv, TrackTypes, MeshTypes
<1>6. \A u \in Tabs \ {t} : Same(u)
  BY <1>1, <1>5 DEF Same, Apart, Switches
<1>7. TabOk(t)'
  <2>1. TabOk(t)
    BY DEF CallInv, TabsInv
  <2>2. Outside(t)'
    BY <1>1, <1>5, <2>1 DEF TabOk, Outside, Apart
  <2>3. ASSUME t \notin muddled' PROVE Tidy(t)' /\ Sends(t)' /\ LobbyTidy(t)'
    <3>1. Tidy(t) /\ Sends(t) /\ LobbyTidy(t)
      BY <1>1, <2>1, <2>3 DEF TabOk
    <3>2. tracks'[t] = tracks[t]
      BY <1>1, <1>5, <3>1 DEF Tidy
    <3>3. Switches(t)' = Switches(t) /\ Publishing(t)' = Publishing(t)
      BY <1>1 DEF Switches, Publishing
    <3>4. Tidy(t)'
      BY <1>1, <1>5, <3>1, <3>2, <3>3 DEF Tidy, Apart
    <3>5. Sends(t)'
      BY <1>1, <3>1, <3>2, <3>3 DEF Sends, Shown, Apart
    <3>6. LobbyTidy(t)'
      BY <1>1, <3>1 DEF LobbyTidy
    <3>7. QED
      BY <3>4, <3>5, <3>6
  <2>4. QED
    BY <2>2, <2>3 DEF TabOk
<1>8. TabsInv'
  BY <1>2, <1>6, <1>7, OneTab DEF CallInv
<1>9. QED
  BY <1>3, <1>4, <1>8 DEF CallInv

\* Every step of the camera and the screen.
LEMMA TracksOk ==
  ASSUME CallInv, TracksNext, UNCHANGED lobbyVars
  PROVE  CallInv'
<1>1. chosen' = chosen
  BY DEF TracksNext
<1>2. ASSUME NEW t \in Tabs, TracksStep(t) \/ Switch(t) \/ StartShare(t) \/ NotPicked(t) \/ StopShare(t)
      PROVE  CallInv'
  <2>1. ASSUME NEW s, SwitchAcquired(s) PROVE CallInv'
    BY <1>1, <2>1, SwitchedOk, SwitchedBehindOk
  <2>2. ASSUME NEW ask \in {"asked", "late"}, Acquired(t, ask) PROVE CallInv'
    BY <1>1, <2>2, AcquiredOk, NotAcquiredOk DEF Asks
  <2>3. QED
    BY <1>1, <1>2, <2>1, <2>2, TrackReplacedOk, SwitchOk, SwitchDoneOk, SharingOk, PickedOk,
       StopShareOk DEF TracksStep
<1>3. ASSUME NEW t \in Tabs, NEW ask \in {"asked", "late"}, NotAcquired(t, ask) PROVE CallInv'
  BY <1>1, <1>3, NotAcquiredOk DEF Asks
<1>4. QED
  BY <1>1, <1>2, <1>3, SwitchFailsOk DEF TracksNext

-----------------------------------------------------------------------------
(* The lobby.                                                              *)

\* A step of the lobby changes one tab's, and what the call will begin with.
LEMMA LobbyStepOk ==
  ASSUME CallInv, NEW t \in Tabs, UNCHANGED callRest, Noting,
         chosen' \in [Tabs -> STRING], lobby' \in [Tabs -> Lobbies], preview' \in [Tabs -> SUBSET STRING],
         \A u \in Tabs \ {t} : lobby'[u] = lobby[u] /\ preview'[u] = preview[u],
         t \notin muddled' /\ LobbyTidy(t) => LobbyTidy(t)'
  PROVE  CallInv'
<1>1. /\ Apart /\ tracks' = tracks /\ local' = local /\ links' = links /\ live' = live
      /\ acquire' = acquire /\ switching' = switching /\ share' = share /\ sharing' = sharing
  BY DEF callRest, meshRest, Apart
<1>2. MeshTypes' /\ LinksInv'
  BY <1>1, UnpublishedOk DEF CallInv, MeshTypes
<1>3. TrackTypes'
  BY <1>1 DEF CallInv, TrackTypes
<1>4. \A u \in Tabs \ {t} : Same(u)
  BY <1>1 DEF Same, Apart, Switches
<1>5. TabOk(t)'
  <2>1. TabOk(t)
    BY DEF CallInv, TabsInv
  <2>2. Outside(t)'
    BY <1>1, <2>1 DEF TabOk, Outside, Apart
  <2>3. ASSUME t \notin muddled' PROVE Tidy(t)' /\ Sends(t)' /\ LobbyTidy(t)'
    <3>1. Tidy(t) /\ Sends(t) /\ LobbyTidy(t)
      BY <2>1, <2>3 DEF TabOk, Noting
    <3>2. Switches(t)' = Switches(t) /\ Publishing(t)' = Publishing(t)
      BY <1>1 DEF Switches, Publishing
    <3>3. Tidy(t)'
      BY <1>1, <3>1, <3>2 DEF Tidy, Apart
    <3>4. Sends(t)'
      BY <1>1, <3>1, <3>2 DEF Sends, Shown, Apart
    <3>5. QED
      BY <2>3, <3>1, <3>3, <3>4
  <2>4. QED
    BY <2>2, <2>3 DEF TabOk
<1>6. TabsInv'
  BY <1>4, <1>5, OneTab DEF CallInv
<1>7. QED
  BY <1>2, <1>3, <1>6 DEF CallInv

\* The page is opened.
LEMMA VisitOk ==
  ASSUME CallInv, NEW t \in Tabs, Visit(t)
  PROVE  CallInv'
<1>1. /\ UNCHANGED callRest /\ chosen' = chosen /\ preview' = preview /\ muddled' = muddled
      /\ lobby' = [lobby EXCEPT ![t].page = "loading", ![t].shown = None] /\ lobby[t].page = "none"
  BY DEF Visit
<1>2. lobby \in [Tabs -> Lobbies] /\ chosen \in [Tabs -> STRING] /\ preview \in [Tabs -> SUBSET STRING]
  BY DEF CallInv, TrackTypes
<1>3. lobby'[t] = [lobby[t] EXCEPT !.page = "loading", !.shown = None]
  BY <1>1, <1>2
<1>4. /\ lobby'[t].page = "loading" /\ lobby'[t].shown = None /\ lobby'[t].asks = lobby[t].asks
      /\ lobby'[t].switches = lobby[t].switches /\ lobby'[t] \in Lobbies
  BY <1>2, <1>3 DEF Lobbies
<1>5. lobby' \in [Tabs -> Lobbies] /\ \A u \in Tabs \ {t} : lobby'[u] = lobby[u]
  BY <1>1, <1>2, <1>4
<1>6. LobbyTidy(t) => LobbyTidy(t)'
  BY <1>1, <1>4 DEF LobbyTidy
<1>7. QED
  BY <1>1, <1>2, <1>5, <1>6, LobbyStepOk DEF Noting

\* The room is shown, and the camera asked for, or is not to be entered.
LEMMA RoomShownOk ==
  ASSUME CallInv, NEW t \in Tabs, RoomShown(t)
  PROVE  CallInv'
<1>1. /\ UNCHANGED callRest /\ chosen' = chosen /\ preview' = preview /\ muddled' = muddled
      /\ lobby[t].page = "loading"
      /\ \/ lobby' = [lobby EXCEPT ![t].page = "ready", ![t].asks = @ \union {"asked"}]
         \/ lobby' = [lobby EXCEPT ![t].page = "unavailable"]
  BY DEF RoomShown
<1>2. lobby \in [Tabs -> Lobbies] /\ chosen \in [Tabs -> STRING] /\ preview \in [Tabs -> SUBSET STRING]
  BY DEF CallInv, TrackTypes
<1>3. \/ lobby'[t] = [lobby[t] EXCEPT !.page = "ready", !.asks = @ \union {"asked"}]
      \/ lobby'[t] = [lobby[t] EXCEPT !.page = "unavailable"]
  BY <1>1, <1>2
<1>4. /\ lobby'[t].shown = lobby[t].shown /\ lobby'[t].switches = lobby[t].switches
      /\ \/ lobby'[t].page = "ready" /\ lobby'[t].asks = lobby[t].asks \union {"asked"}
         \/ lobby'[t].page = "unavailable" /\ lobby'[t].asks = lobby[t].asks
      /\ lobby'[t] \in Lobbies
  <2>1. CASE lobby'[t] = [lobby[t] EXCEPT !.page = "ready", !.asks = @ \union {"asked"}]
    <3>1. PICK asks : asks = lobby[t].asks \union {"asked"}
      OBVIOUS
    <3>2. asks \in SUBSET Asks
      BY <1>2, <3>1 DEF Lobbies, Asks
    <3>3. lobby'[t] = [lobby[t] EXCEPT !.page = "ready", !.asks = asks] /\ lobby[t] \in Lobbies
      BY <1>2, <2>1, <3>1
    <3>4. QED
      BY <3>1, <3>2, <3>3 DEF Lobbies
  <2>2. CASE lobby'[t] = [lobby[t] EXCEPT !.page = "unavailable"]
    BY <1>2, <2>2 DEF Lobbies
  <2>3. QED
    BY <1>3, <2>1, <2>2
<1>5. lobby' \in [Tabs -> Lobbies] /\ \A u \in Tabs \ {t} : lobby'[u] = lobby[u]
  BY <1>1, <1>2, <1>4
<1>6. LobbyTidy(t) => LobbyTidy(t)'
  BY <1>1, <1>4 DEF LobbyTidy
<1>7. QED
  BY <1>1, <1>2, <1>5, <1>6, LobbyStepOk DEF Noting

\* The preview is there, or refused, or too late.
LEMMA PreviewAcquiredOk ==
  ASSUME CallInv, NEW t \in Tabs, NEW ask \in Asks, PreviewAcquired(t, ask)
  PROVE  CallInv'
<1>1. /\ UNCHANGED callRest /\ chosen' = chosen /\ muddled' = muddled /\ ask \in lobby[t].asks
  BY DEF PreviewAcquired
<1>2. lobby \in [Tabs -> Lobbies] /\ chosen \in [Tabs -> STRING] /\ preview \in [Tabs -> SUBSET STRING]
  BY DEF CallInv, TrackTypes
<1>3. CASE ask = "late"
  <2>1. preview' = preview /\ lobby' = [lobby EXCEPT ![t].asks = @ \ {ask}]
    BY <1>3 DEF PreviewAcquired
  <2>2. lobby'[t] = [lobby[t] EXCEPT !.asks = @ \ {ask}]
    BY <1>2, <2>1
  <2>3. /\ lobby'[t].page = lobby[t].page /\ lobby'[t].shown = lobby[t].shown
        /\ lobby'[t].switches = lobby[t].switches /\ lobby'[t].asks = lobby[t].asks \ {ask}
        /\ lobby'[t] \in Lobbies
    BY <1>2, <2>2 DEF Lobbies
  <2>4. lobby' \in [Tabs -> Lobbies] /\ \A u \in Tabs \ {t} : lobby'[u] = lobby[u]
    BY <1>2, <2>1, <2>3
  <2>5. LobbyTidy(t) => LobbyTidy(t)'
    BY <2>1, <2>3 DEF LobbyTidy
  <2>6. QED
    BY <1>1, <1>2, <2>1, <2>4, <2>5, LobbyStepOk DEF Noting
<1>4. CASE ask = "asked"
  <2>1. PICK c \in {Cameras[t][1], None} :
          /\ lobby' = [lobby EXCEPT ![t].asks = @ \ {ask}, ![t].shown = c]
          /\ preview' = [preview EXCEPT ![t] = @ \union ({c} \ {None})]
    BY <1>4 DEF PreviewAcquired
  <2>2. lobby'[t] = [lobby[t] EXCEPT !.asks = @ \ {ask}, !.shown = c]
    BY <1>2, <2>1
  <2>3. c \in STRING \union {None} /\ {c} \ {None} \subseteq STRING
    BY CamerasAre
  <2>4. /\ lobby'[t].page = lobby[t].page /\ lobby'[t].shown = c
        /\ lobby'[t].switches = lobby[t].switches /\ lobby'[t].asks = lobby[t].asks \ {ask}
        /\ lobby'[t] \in Lobbies
    BY <1>2, <2>2, <2>3 DEF Lobbies
  <2>5. lobby' \in [Tabs -> Lobbies] /\ \A u \in Tabs \ {t} : lobby'[u] = lobby[u]
    BY <1>2, <2>1, <2>4
  <2>6. /\ preview'[t] = preview[t] \union ({c} \ {None}) /\ preview' \in [Tabs -> SUBSET STRING]
        /\ \A u \in Tabs \ {t} : preview'[u] = preview[u]
    BY <1>2, <2>1, <2>3
  <2>7. LobbyTidy(t) => LobbyTidy(t)'
    BY <1>1, <1>4, <2>4, <2>6 DEF LobbyTidy
  <2>8. QED
    BY <1>1, <1>2, <2>5, <2>6, <2>7, LobbyStepOk DEF Noting
<1>5. QED
  BY <1>3, <1>4 DEF Asks

\* Another camera is tried.
LEMMA PreviewSwitchOk ==
  ASSUME CallInv, NEW t \in Tabs, PreviewSwitch(t)
  PROVE  CallInv'
<1>1. PICK i \in 1 .. Len(Cameras[t]) :
        lobby' = [lobby EXCEPT ![t].switches = @ \union {[camera |-> Cameras[t][i], ask |-> "asked"]}]
  BY DEF PreviewSwitch
<1>2. PICK r : r = [camera |-> Cameras[t][i], ask |-> "asked"]
  OBVIOUS
<1>3. /\ UNCHANGED callRest /\ chosen' = chosen /\ muddled' = muddled /\ preview' = preview
      /\ lobby[t].page = "ready" /\ "asked" \notin lobby[t].asks
      /\ lobby' = [lobby EXCEPT ![t].switches = @ \union {r}]
  BY <1>1, <1>2 DEF PreviewSwitch
<1>4. lobby \in [Tabs -> Lobbies] /\ chosen \in [Tabs -> STRING] /\ preview \in [Tabs -> SUBSET STRING]
  BY DEF CallInv, TrackTypes
<1>5. r \in [camera : STRING, ask : Asks]
  BY <1>2, CamerasAre DEF Asks
<1>6. lobby'[t] = [lobby[t] EXCEPT !.switches = @ \union {r}]
  BY <1>3, <1>4
<1>7. /\ lobby'[t].page = lobby[t].page /\ lobby'[t].shown = lobby[t].shown
      /\ lobby'[t].asks = lobby[t].asks /\ lobby'[t] \in Lobbies
  BY <1>4, <1>5, <1>6 DEF Lobbies
<1>8. lobby' \in [Tabs -> Lobbies] /\ \A u \in Tabs \ {t} : lobby'[u] = lobby[u]
  BY <1>3, <1>4, <1>7
<1>9. LobbyTidy(t) => LobbyTidy(t)'
  BY <1>3, <1>7 DEF LobbyTidy
<1>10. QED
  BY <1>3, <1>4, <1>8, <1>9, LobbyStepOk DEF Noting

\* It is there: the one shown is stopped, unless the lobby was left, which is noted.
LEMMA PreviewSwitchedOk ==
  ASSUME CallInv, NEW t \in Tabs, NEW s \in lobby[t].switches, PreviewSwitched(t, s)
  PROVE  CallInv'
<1> DEFINE shown == IF s.ask = "late" THEN lobby[t].shown ELSE s.camera
           kept == IF s.ask = "late" THEN preview[t] ELSE preview[t] \ {lobby[t].shown}
<1>1. /\ UNCHANGED callRest /\ chosen' = chosen /\ Noted(t, s.ask = "late")
      /\ lobby' = [lobby EXCEPT ![t].switches = @ \ {s}, ![t].shown = shown]
      /\ preview' = [preview EXCEPT ![t] = kept \union {s.camera}]
  BY DEF PreviewSwitched
<1>2. /\ lobby \in [Tabs -> Lobbies] /\ chosen \in [Tabs -> STRING] /\ preview \in [Tabs -> SUBSET STRING]
      /\ lobby[t] \in Lobbies /\ s \in [camera : STRING, ask : Asks]
  BY DEF CallInv, TrackTypes, Lobbies
<1>3. Noting /\ (t \notin muddled' => s.ask # "late")
  BY <1>1 DEF Noting, Noted
<1>4. shown \in STRING \union {None} /\ kept \subseteq STRING /\ s.camera \in STRING
  BY <1>2 DEF Lobbies
<1> HIDE DEF shown, kept
<1>5. lobby'[t] = [lobby[t] EXCEPT !.switches = @ \ {s}, !.shown = shown]
  BY <1>1, <1>2
<1>6. /\ lobby'[t].page = lobby[t].page /\ lobby'[t].shown = shown
      /\ lobby'[t].switches = lobby[t].switches \ {s} /\ lobby'[t].asks = lobby[t].asks
      /\ lobby'[t] \in Lobbies
  BY <1>2, <1>4, <1>5 DEF Lobbies
<1>7. lobby' \in [Tabs -> Lobbies] /\ \A u \in Tabs \ {t} : lobby'[u] = lobby[u]
  BY <1>1, <1>2, <1>6
<1>8. /\ preview'[t] = kept \union {s.camera} /\ preview' \in [Tabs -> SUBSET STRING]
      /\ \A u \in Tabs \ {t} : preview'[u] = preview[u]
  BY <1>1, <1>2, <1>4
<1>9. ASSUME t \notin muddled', LobbyTidy(t) PROVE LobbyTidy(t)'
  <2>1. s.ask # "late" /\ shown = s.camera /\ kept = preview[t] \ {lobby[t].shown}
    BY <1>3, <1>9 DEF shown, kept
  <2>2. lobby[t].page = "ready" /\ "asked" \notin lobby[t].asks
    BY <1>9, <2>1 DEF LobbyTidy
  <2>3. kept = {}
    BY <1>9, <2>1, <2>2 DEF LobbyTidy
  <2>4. QED
    BY <1>6, <1>8, <2>1, <2>2, <2>3 DEF LobbyTidy
<1>10. QED
  BY <1>1, <1>2, <1>3, <1>7, <1>8, <1>9, LobbyStepOk

\* It is not to be had.
LEMMA PreviewFailsOk ==
  ASSUME CallInv, NEW t \in Tabs, NEW s, PreviewFails(t, s)
  PROVE  CallInv'
<1>1. /\ UNCHANGED callRest /\ chosen' = chosen /\ muddled' = muddled /\ preview' = preview
      /\ lobby' = [lobby EXCEPT ![t].switches = @ \ {s}]
  BY DEF PreviewFails
<1>2. lobby \in [Tabs -> Lobbies] /\ chosen \in [Tabs -> STRING] /\ preview \in [Tabs -> SUBSET STRING]
  BY DEF CallInv, TrackTypes
<1>3. lobby'[t] = [lobby[t] EXCEPT !.switches = @ \ {s}]
  BY <1>1, <1>2
<1>4. /\ lobby'[t].page = lobby[t].page /\ lobby'[t].shown = lobby[t].shown
      /\ lobby'[t].asks = lobby[t].asks /\ lobby'[t].switches = lobby[t].switches \ {s}
      /\ lobby'[t] \in Lobbies
  BY <1>2, <1>3 DEF Lobbies
<1>5. lobby' \in [Tabs -> Lobbies] /\ \A u \in Tabs \ {t} : lobby'[u] = lobby[u]
  BY <1>1, <1>2, <1>4
<1>6. LobbyTidy(t) => LobbyTidy(t)'
  BY <1>1, <1>4 DEF LobbyTidy
<1>7. QED
  BY <1>1, <1>2, <1>5, <1>6, LobbyStepOk DEF Noting

\* The lobby is left, for the call or for the home screen: its preview is stopped.
LEMMA UnmountsOk ==
  ASSUME CallInv, NEW t \in Tabs, Enter(t) \/ Back(t)
  PROVE  CallInv'
<1>1. UNCHANGED callRest /\ muddled' = muddled /\ Unmounts(t)
  BY DEF Enter, Back
<1>2. /\ lobby \in [Tabs -> Lobbies] /\ chosen \in [Tabs -> STRING] /\ preview \in [Tabs -> SUBSET STRING]
      /\ lobby[t] \in Lobbies
  BY DEF CallInv, TrackTypes
<1>3. chosen' \in [Tabs -> STRING]
  <2>1. CASE Enter(t)
    <3>1. PICK c : c = IF lobby[t].shown = None THEN Cameras[t][1] ELSE lobby[t].shown
      OBVIOUS
    <3>2. c \in STRING
      BY <1>2, <3>1, CamerasAre DEF Lobbies
    <3>3. QED
      BY <1>2, <2>1, <3>1, <3>2 DEF Enter
  <2>2. QED
    BY <1>2, <2>1 DEF Back
<1> DEFINE late == {[s EXCEPT !.ask = "late"] : s \in lobby[t].switches}
           asks == IF lobby[t].asks = {} THEN {} ELSE {"late"}
           kept == IF lobby[t].page = "ready" THEN preview[t] \ {lobby[t].shown} ELSE preview[t]
<1>4. /\ lobby' = [lobby EXCEPT ![t] = [page |-> "none", shown |-> None, asks |-> asks, switches |-> late]]
      /\ preview' = [preview EXCEPT ![t] = kept]
  BY <1>1 DEF Unmounts
<1>5. late \subseteq [camera : STRING, ask : Asks] /\ \A s \in late : s.ask = "late"
  BY <1>2 DEF Lobbies, Asks
<1>6. asks \subseteq Asks /\ "asked" \notin asks /\ kept \subseteq STRING
  BY <1>2 DEF Asks
<1>7. LobbyTidy(t) => kept = {}
  BY DEF LobbyTidy
<1> HIDE DEF late, asks, kept
<1>8. /\ lobby'[t].page = "none" /\ lobby'[t].asks = asks /\ lobby'[t].switches = late
      /\ lobby' \in [Tabs -> Lobbies] /\ \A u \in Tabs \ {t} : lobby'[u] = lobby[u]
  BY <1>2, <1>4, <1>5, <1>6 DEF Lobbies
<1>9. /\ preview'[t] = kept /\ preview' \in [Tabs -> SUBSET STRING]
      /\ \A u \in Tabs \ {t} : preview'[u] = preview[u]
  BY <1>2, <1>4, <1>6
<1>10. LobbyTidy(t) => LobbyTidy(t)'
  BY <1>5, <1>6, <1>8, <1>9, <1>7 DEF LobbyTidy
<1>11. QED
  BY <1>1, <1>3, <1>8, <1>9, <1>10, LobbyStepOk DEF Noting

\* Every step of the lobby.
LEMMA LobbyOk ==
  ASSUME CallInv, LobbyNext
  PROVE  CallInv'
<1>1. ASSUME NEW t \in Tabs, NEW ask \in {"asked", "late"}, PreviewAcquired(t, ask) PROVE CallInv'
  BY <1>1, PreviewAcquiredOk DEF Asks
<1>2. QED
  BY <1>1, VisitOk, RoomShownOk, PreviewSwitchOk, PreviewSwitchedOk, PreviewFailsOk, UnmountsOk DEF LobbyNext

-----------------------------------------------------------------------------
(* The invariant holds, and what follows from it.                          *)

\* A step that touches neither pictures nor lobbies, as those of the transfers.
LEMMA ElsewhereOk ==
  ASSUME CallInv,
         UNCHANGED <<id, callVars, links, tracks, local, tracksVars, lobbyVars>>
  PROVE  CallInv'
<1>1. /\ Apart /\ links' = links /\ tracks' = tracks /\ local' = local
      /\ chosen' = chosen /\ live' = live /\ acquire' = acquire /\ switching' = switching
      /\ share' = share /\ sharing' = sharing /\ muddled' = muddled /\ lobby' = lobby /\ preview' = preview
  BY DEF callVars, tracksVars, lobbyVars, Apart
<1>2. Noting
  BY <1>1 DEF Noting
<1>3. MeshTypes' /\ LinksInv'
  BY <1>1, <1>2, UnpublishedOk DEF CallInv, MeshTypes
<1>4. TrackTypes'
  BY <1>1 DEF CallInv, TrackTypes
<1>5. ASSUME NEW u \in Tabs PROVE TabOk(u)'
  BY <1>1, <1>2, SameOk DEF Same, Apart, Switches, CallInv, TabsInv
<1>6. QED
  BY <1>3, <1>4, <1>5 DEF CallInv, TabsInv

\* The invariant is kept by every step.
LEMMA CallStep ==
  ASSUME CallInv, [Next]_vars
  PROVE  CallInv'
<1>1. CASE MeshNext /\ TracksFollow /\ LobbyFollow
  BY <1>1, MeshOk
<1>2. CASE TracksNext /\ UNCHANGED lobbyVars
  BY <1>2, TracksOk
<1>3. CASE LobbyNext
  BY <1>3, LobbyOk
<1>4. CASE UNCHANGED <<id, callVars, seats, made, links, wire, mail, busy, tracks, local,
                       strange, tracksVars, lobbyVars>>
  BY <1>4, ElsewhereOk
<1>5. CASE UNCHANGED vars
  <2>1. UNCHANGED <<id, callVars, links, tracks, local, tracksVars, lobbyVars>>
    BY <1>5 DEF vars, meshVars, callVars
  <2>2. QED
    BY <2>1, ElsewhereOk
<1>6. QED
  BY <1>1, <1>2, <1>3, <1>4, <1>5 DEF Next

\* And it holds at first, whatever the script.
LEMMA CallStart ==
  ASSUME Init
  PROVE  CallInv
<1>1. PICK s \in Scripts :
    LET in == {s.ids[t] : t \in s.inCall} IN
    /\ id = s.ids
    /\ self = [t \in Tabs |-> IF t \in s.inCall THEN id[t] ELSE 0]
    /\ mesh = [t \in Tabs |-> [self |-> self[t], session |-> IF t \in s.inCall THEN 1 ELSE 0]]
    /\ links = [t \in Tabs |-> [p \in Ids |->
                  IF t \in s.inCall /\ p \in in \ {id[t]} THEN Linked(s.ids, s.sends[t], t, p) ELSE None]]
    /\ tracks = s.tracks /\ local = s.sends
  BY DEF Init, MeshInit
<1>2. /\ s.ids \in [Tabs -> Ids]
      /\ s.tracks \in [Tabs -> STRING \union {None}] /\ s.sends \in [Tabs -> STRING \union {None}]
      /\ \A t \in Tabs : /\ s.sends[t] = None => s.tracks[t] = None
                         /\ t \notin s.inCall => s.sends[t] = None
  BY ScriptsAssumption DEF ScriptsAssumption
<1>3. \A t \in Tabs : id[t] \in Nat /\ id[t] # 0
  BY <1>1, <1>2, IdsPositive
<1>4. /\ tracks \in [Tabs -> STRING \union {None}] /\ local \in [Tabs -> STRING \union {None}]
      /\ \A t \in Tabs : /\ local[t] = None => tracks[t] = None
                         /\ mesh[t].self = 0 => local[t] = None
                         /\ self[t] = mesh[t].self
  BY <1>1, <1>2, <1>3
<1>5. MeshTypes
  <2>1. self \in [Tabs -> Nat]
    BY <1>1, <1>3
  <2>2. mesh \in [Tabs -> [self : Nat, session : Nat]]
    BY <1>1, <2>1
  <2>3. DOMAIN links = Tabs /\ \A t \in Tabs : DOMAIN links[t] = Ids
    BY <1>1
  <2>4. QED
    BY <1>1, <1>2, <1>4, <2>1, <2>2, <2>3 DEF MeshTypes, Video, Pictures
<1>6. /\ chosen = [t \in Tabs |-> Cameras[t][1]] /\ live = [t \in Tabs |-> {tracks[t], local[t]} \ {None}]
      /\ acquire = [t \in Tabs |-> {}] /\ switching = {}
      /\ share = [t \in Tabs |-> IF local[t] = tracks[t] THEN None ELSE local[t]]
      /\ sharing = [t \in Tabs |-> "no"] /\ lobby = [t \in Tabs |-> NoLobby] /\ preview = [t \in Tabs |-> {}]
  BY DEF Init, TracksInit, LobbyInit
<1>7. TrackTypes
  <2>1. chosen \in [Tabs -> STRING]
    BY <1>6, CamerasAre
  <2>2. live \in [Tabs -> SUBSET Pictures] /\ share \in [Tabs -> Video]
    BY <1>4, <1>6 DEF Pictures, Video
  <2>3. NoLobby \in Lobbies
    BY DEF NoLobby, Lobbies
  <2>4. QED
    BY <1>6, <2>1, <2>2, <2>3 DEF TrackTypes
<1>8. LinksInv
  <2>1. ASSUME NEW t \in Tabs, NEW p \in Ids, links[t][p] # None
        PROVE  Fits(t, links[t][p])
    <3>1. links[t][p] = Linked(s.ids, s.sends[t], t, p)
      BY <1>1, <2>1
    <3>2. /\ {"files", "sends", "swaps"} \subseteq DOMAIN links[t][p]
          /\ links[t][p].files = TRUE /\ links[t][p].sends = local[t] /\ links[t][p].swaps = <<>>
      BY <1>1, <3>1 DEF Linked
    <3>3. local[t] \in Video
      BY <1>5 DEF MeshTypes
    <3>4. QED
      BY <3>2, <3>3, EmptySeq DEF Fits, CarryOk, Final
  <2>2. QED
    BY <2>1 DEF LinksInv
<1>9. TabsInv
  <2>1. ASSUME NEW t \in Tabs PROVE TabOk(t)
    <3>1. Switches(t) = {} /\ Publishing(t) = {}
      BY <1>6 DEF Switches, Publishing
    <3>2. share[t] = None \/ share[t] = local[t]
      BY <1>6
    <3>3. Shown(t) = local[t]
      BY <1>4, <1>6 DEF Shown
    <3>4. live[t] \subseteq {tracks[t], share[t]}
      BY <1>6
    <3>5. Outside(t)
      BY <1>4, <1>6 DEF Outside
    <3>6. Tidy(t)
      BY <1>4, <1>6, <3>1, <3>2, <3>4 DEF Tidy
    <3>7. Sends(t)
      BY <3>1, <3>3 DEF Sends
    <3>8. LobbyTidy(t)
      BY <1>6 DEF LobbyTidy, NoLobby
    <3>9. QED
      BY <3>5, <3>6, <3>7, <3>8 DEF TabOk
  <2>2. QED
    BY <2>1 DEF TabsInv
<1>10. QED
  BY <1>5, <1>7, <1>8, <1>9 DEF CallInv

\* In every state of every call, what is captured and sent is as CallInv says.
THEOREM CallHolds == Spec => []CallInv
<1>1. Init => CallInv
  BY CallStart
<1>2. CallInv /\ [Next]_vars => CallInv'
  BY CallStep
<1>3. QED
  BY <1>1, <1>2, PTL DEF Spec

\* With every replacement done, each connection of a tab carries the screen it presents,
\* or else its camera, whatever was made, rebuilt, answered, switched and replaced
\* before: useCall.ts and publish() of the mesh. Of a tab two of whose operations met
\* nothing is said.
THEOREM CallPicturesRight == Spec => []RightPicture
<1>1. ASSUME CallInv PROVE RightPicture
  <2>1. ASSUME NEW t \in Tabs \ muddled, mesh[t].self # 0, AtRest(t),
               NEW l \in {links[t][p] : p \in Ids} \ {None}, l.files
        PROVE  l.sends = IF share[t] # None THEN share[t] ELSE tracks[t]
    <3>1. PICK p \in Ids : l = links[t][p] /\ l # None
      OBVIOUS
    <3>2. l.swaps = <<>>
      BY <2>1, <3>1 DEF AtRest, Swapped
    <3>3. l.sends = local[t]
      BY <1>1, <2>1, <3>1, <3>2 DEF CallInv, LinksInv, Fits, Final
    <3>4. Publishing(t) = {}
      BY <2>1 DEF AtRest, Publishing, Switches
    <3>5. local[t] = Shown(t)
      BY <1>1, <2>1, <3>4 DEF CallInv, TabsInv, TabOk, Sends
    <3>6. QED
      BY <3>3, <3>5 DEF Shown
  <2>2. QED
    BY <2>1 DEF RightPicture
<1>2. QED
  BY <1>1, CallHolds, PTL

\* Outside a call no camera and no screen is captured, whatever was still asked for
\* when it was left, and what the lobby previews is what it shows: useCall.ts and
\* Lobby.tsx, for a tab none of whose operations met.
THEOREM NothingStaysOn == Spec => []NothingCaptured
<1>1. ASSUME CallInv PROVE NothingCaptured
  <2>1. ASSUME NEW t \in Tabs \ muddled
        PROVE  /\ self[t] = 0 => live[t] = {}
               /\ preview[t] \subseteq IF lobby[t].page = "ready" THEN {lobby[t].shown} ELSE {}
    <3>1. Outside(t) /\ Tidy(t) /\ LobbyTidy(t)
      BY <1>1, <2>1 DEF CallInv, TabsInv, TabOk
    <3>2. ASSUME self[t] = 0 PROVE live[t] = {}
      <4>1. tracks[t] = None /\ share[t] = None /\ Publishing(t) = {}
        BY <3>1, <3>2 DEF Outside, Tidy, Publishing
      <4>2. live[t] \subseteq {None}
        BY <3>1, <4>1 DEF Tidy
      <4>3. live[t] \subseteq Pictures
        BY <1>1 DEF CallInv, TrackTypes
      <4>4. QED
        BY <4>2, <4>3, NoneNoPicture
    <3>3. QED
      BY <3>1, <3>2 DEF LobbyTidy
  <2>2. QED
    BY <2>1 DEF NothingCaptured
<1>2. QED
  BY <1>1, CallHolds, PTL
=============================================================================
