-------------------------------- MODULE Mesh --------------------------------
(***************************************************************************)
(* The connections of a call: MeshTransport in every tab, the inbox its    *)
(* signaling waits in, and the server's relay.                             *)
(*                                                                         *)
(* A connection is the pair of the peer it was made for and a number;      *)
(* `uf' numbers its ICE credentials, which a restart replaces. A           *)
(* description is the connection and credentials it describes, and all     *)
(* candidates gathered for one are a single message. RTCPeerConnection is  *)
(* modelled as the code uses it: two connections reach each other when     *)
(* each has the description, with its present credentials, of the other,   *)
(* and one of them the candidates.                                         *)
(***************************************************************************)
EXTENDS Naturals, Sequences, FiniteSets

CONSTANTS
  Tabs,
  OwnerOf,       \* socket ids are 1, 2, ... up to a bound, each of the tab OwnerOf[id]
  MaxMade,       \* bound: connections a tab makes before ICE fails no more
  OfferResends,  \* OFFER_RESENDS
  Scripts,       \* what happens in a call: the tabs in it, and what may happen once
  None

ASSUME MeshAssumption ==
  OwnerOf \in Seq(Tabs) /\ OfferResends \in Nat /\ None \notin Tabs \union STRING

VARIABLES
  id,      \* the tab's socket id
  self,    \* its peer id in the room, 0 outside
  mesh,    \* its transport: the peer id it was made for (0: none), and the session
  roster,  \* peer ids of the participants it shows
  seats,   \* peer ids with a seat in the room
  made,    \* connections made by the tab
  links,   \* links[t][p]: the PeerLink of t to p, or None
  wire,    \* signaling messages from a tab to the server
  mail,    \* mail[t][p]: messages from p, in the inbox or in the queue of the transport
  busy,    \* busy[t][p]: the connection the first of them is being applied to, or None
  tracks,  \* the camera: tracks.current.video
  local,   \* the video track published
  todo,    \* what may still happen
  strange  \* (history) a connection was given the description of another than before

callVars == <<self, mesh, roster>>
meshVars == <<id, self, mesh, roster, seats, made, links, wire, mail, busy, tracks, local,
              todo, strange>>

Ids == DOMAIN OwnerOf

\* Outside a call there is no camera; who sends nothing has none.
ASSUME ScriptsAssumption == \A s \in Scripts :
  /\ s.ids \in [Tabs -> Ids] /\ s.inCall \subseteq Tabs
  /\ s.tracks \in [Tabs -> STRING \union {None}] /\ s.sends \in [Tabs -> STRING \union {None}]
  /\ \A t \in Tabs : /\ s.sends[t] = None => s.tracks[t] = None
                     /\ t \notin s.inCall => s.sends[t] = None

Does(what) == what \in todo /\ todo' = todo \ {what}

Polite(t, p) == mesh[t].self > p

\* createLink.
Created(t, p) ==
  [pc |-> <<p, made[t] + 1>>, sig |-> "stable", uf |-> 0, making |-> FALSE,
   need |-> "no", remote |-> None, session |-> 0, cands |-> FALSE,
   ice |-> "new", timed |-> FALSE, resends |-> 0, dead |-> FALSE,
   sends |-> None, swaps |-> <<>>, stray |-> FALSE, files |-> FALSE]

\* startNegotiation: there are transceivers, which carry what is published, and an
\* offer to make.
Negotiating(l, track) == [l EXCEPT !.need = "first", !.sends = track, !.files = TRUE]

NewLink(t, p, negotiates, track) ==
  IF negotiates THEN Negotiating(Created(t, p), track) ELSE Created(t, p)

\* rebuild. (Mutant: it does not start the negotiation anew.)
RebuiltMute(t, p, l) == [NewLink(t, p, FALSE, None) EXCEPT !.stray = l.stray]
Rebuilt(t, p, l) == [NewLink(t, p, ~Polite(t, p), local[t]) EXCEPT !.stray = l.stray]

\* A link made for a message of a peer nobody subscribed to.
Stray(t, p) == [NewLink(t, p, FALSE, None) EXCEPT !.stray = ~Polite(t, p)]

Offer(l)  == [type |-> "offer", pc |-> l.pc, uf |-> l.uf]
Answer(l) == [type |-> "answer", pc |-> l.pc, uf |-> l.uf]
Cands(l)  == [type |-> "candidate", pc |-> l.pc, uf |-> l.uf]

Send(t, p, signals) ==
  wire' = [wire EXCEPT ![t] = @ \o [i \in 1 .. Len(signals) |->
             [to |-> p, session |-> mesh[t].session, signal |-> signals[i]]]]

SetLink(t, p, l) == links' = [links EXCEPT ![t][p] = l]

\* A link that replaces, or joins, those of the tab counts as made.
Made(t) == made' = [made EXCEPT ![t] = @ + 1]

NoLinks == [p \in Ids |-> None]
NoMail  == [p \in Ids |-> <<>>]

\* In a call from the start: everyone with everyone else.
Linked(in, sends, t, p) ==
  LET far == CHOOSE u \in Tabs : in[u] = p IN
  [pc |-> <<p, 1>>, sig |-> "stable", uf |-> 0, making |-> FALSE, need |-> "no",
   remote |-> [type |-> IF in[t] > p THEN "offer" ELSE "answer", pc |-> <<in[t], 1>>, uf |-> 0],
   session |-> 1, cands |-> TRUE, ice |-> "up", timed |-> FALSE, resends |-> 0,
   dead |-> FALSE, sends |-> sends, swaps |-> <<>>, stray |-> FALSE, files |-> TRUE]

\* A script gives the ids of the sockets, the tabs in the call, their cameras,
\* what they send, and its `ops'.
MeshInit ==
  \E s \in Scripts :
    LET in == {s.ids[t] : t \in s.inCall} IN
    /\ id = s.ids /\ seats = in /\ todo = s.ops
    /\ self = [t \in Tabs |-> IF t \in s.inCall THEN id[t] ELSE 0]
    /\ mesh = [t \in Tabs |-> [self |-> self[t], session |-> IF t \in s.inCall THEN 1 ELSE 0]]
    /\ roster = [t \in Tabs |-> IF t \in s.inCall THEN in ELSE {}]
    /\ made = [t \in Tabs |-> IF t \in s.inCall THEN 1 ELSE 0]
    /\ links = [t \in Tabs |-> [p \in Ids |->
                  IF t \in s.inCall /\ p \in in \ {id[t]} THEN Linked(s.ids, s.sends[t], t, p) ELSE None]]
    /\ wire = [t \in Tabs |-> <<>>]
    /\ mail = [t \in Tabs |-> NoMail]
    /\ busy = [t \in Tabs |-> NoLinks]
    /\ tracks = s.tracks /\ local = s.sends
    /\ strange = FALSE

-----------------------------------------------------------------------------
(* Joining, leaving and the participant list.                              *)

\* The join is acknowledged, with the participants; a person has one seat. What
\* an earlier call left in the inbox may be older than MAX_AGE_MS.
Join(t) ==
  /\ self[t] # id[t] /\ id[t] \notin seats
  /\ IF self[t] = 0 THEN Does(<<"join", t>>) ELSE UNCHANGED todo
  /\ seats' = (seats \ {self[t]}) \union {id[t]}
  /\ self' = [self EXCEPT ![t] = id[t]]
  /\ roster' = [roster EXCEPT ![t] = seats']
  /\ \/ UNCHANGED mail
     \/ mesh[t].self = 0 /\ mail' = [mail EXCEPT ![t] = NoMail]
  /\ UNCHANGED <<id, mesh, made, links, wire, busy, tracks, local, strange>>

\* subscribe, for who is there, and unsubscribe: the impolite side, whose id is the
\* smaller, negotiates.
Subscribed(t, me, p, l, there, track) ==
  IF p = me \/ ~there THEN None
  ELSE IF l # None THEN l ELSE NewLink(t, p, me < p, track)

\* The effect that follows the participants, for a transport made for `me'.
Following(t, me, mine, present, track) ==
  [p \in Ids |-> Subscribed(t, me, p, mine[p], p \in present, track)]

\* The transport effect: the old one is closed, a new one made to publish the
\* camera, and it takes what is in the inbox. What the old one had queued is gone.
Mount(t) ==
  LET me == self[t] IN
  /\ me # 0 /\ mesh[t].self # me
  /\ mesh' = [mesh EXCEPT ![t] = [self |-> me, session |-> @.session + 1]]
  /\ links' = [links EXCEPT ![t] = Following(t, me, NoLinks, roster[t], tracks[t])]
  /\ Made(t)
  /\ mail' = IF mesh[t].self = 0 THEN mail ELSE [mail EXCEPT ![t] = NoMail]
  /\ busy' = [busy EXCEPT ![t] = NoLinks]
  /\ local' = [local EXCEPT ![t] = tracks[t]]
  /\ UNCHANGED <<id, self, roster, seats, wire, tracks, todo, strange>>

Close(t) ==
  /\ mesh' = [mesh EXCEPT ![t].self = 0]
  /\ links' = [links EXCEPT ![t] = NoLinks]
  /\ mail' = IF mesh[t].self = 0 THEN mail ELSE [mail EXCEPT ![t] = NoMail]
  /\ busy' = [busy EXCEPT ![t] = NoLinks]

Leave(t) ==
  /\ self[t] # 0
  /\ Does(<<"leave", t>>)
  /\ self' = [self EXCEPT ![t] = 0]
  /\ roster' = [roster EXCEPT ![t] = {}]
  /\ tracks' = [tracks EXCEPT ![t] = None]
  /\ Close(t)
  /\ UNCHANGED <<id, seats, made, wire, local, strange>>

\* The socket is lost, and the tab connected again with another.
Reconnect(t) ==
  /\ self[t] = id[t]
  /\ Does(<<"drop", t>>)
  /\ \E i \in Ids \ {id[t]} : OwnerOf[i] = t /\ id' = [id EXCEPT ![t] = i]
  /\ UNCHANGED <<callVars, seats, made, links, wire, mail, busy, tracks, local, strange>>

\* The server handles a leave after what was sent before it, and notices a
\* lost socket at some time.
Vacate(i) ==
  /\ i \in seats
  /\ \A t \in Tabs : id[t] = i => self[t] = 0 /\ wire[t] = <<>>
  /\ seats' = seats \ {i}
  /\ UNCHANGED <<id, callVars, made, links, wire, mail, busy, tracks, local, todo, strange>>

\* Participants come and go in the tab's list, which shows a person once; the
\* effect makes one connection for each and closes the rest.
FollowRoster(t) ==
  /\ self[t] # 0 /\ self[t] = id[t] /\ roster[t] # seats
  /\ \E i \in Ids : roster' = [roster EXCEPT ![t] =
                      IF i \in seats \ @ THEN {j \in @ : OwnerOf[j] # OwnerOf[i]} \union {i}
                      ELSE @ \ ({i} \ seats)]
  /\ roster' # roster
  /\ IF mesh[t].self # self[t] THEN UNCHANGED <<links, made>>
     ELSE /\ links' = [links EXCEPT ![t] = Following(t, self[t], @, roster'[t], local[t])]
          /\ IF roster'[t] \subseteq roster[t] THEN UNCHANGED made ELSE Made(t)
  /\ UNCHANGED <<id, self, mesh, seats, wire, mail, busy, tracks, local, todo, strange>>

-----------------------------------------------------------------------------
(* The relay.                                                              *)

\* To a peer with a seat in the room of the sender, stamped with the sender's
\* id; anything else is refused, as is what exceeds the sender's budget.
Relay(t) ==
  /\ wire[t] # <<>>
  /\ LET m == Head(wire[t])
         heard == {u \in Tabs \ {t} : id[u] = m.to}
     IN /\ wire' = [wire EXCEPT ![t] = Tail(@)]
        /\ \/ /\ id[t] \in seats /\ m.to \in seats
              /\ mail' = [u \in Tabs |-> IF u \in heard THEN [mail[u] EXCEPT ![id[t]] = Append(@, m)]
                                         ELSE mail[u]]
              /\ UNCHANGED todo
           \/ /\ ~(id[t] \in seats /\ m.to \in seats)
              /\ UNCHANGED <<mail, todo>>
           \/ /\ \E n \in 1 .. OfferResends : Does(<<"lose", n>>)
              /\ UNCHANGED mail
  /\ UNCHANGED <<id, callVars, seats, made, links, busy, tracks, local, strange>>

-----------------------------------------------------------------------------
(* Negotiation.                                                            *)

\* negotiationneeded fires when no operation is going on.
NegotiationNeeded(t, p) ==
  /\ links[t][p] # None
  /\ LET l == links[t][p] IN
     /\ l.need # "no" /\ l.sig = "stable" /\ ~l.making /\ busy[t][p] # l.pc
     /\ SetLink(t, p, [l EXCEPT !.making = TRUE])
  /\ UNCHANGED <<id, callVars, seats, made, wire, mail, busy, tracks, local, todo, strange>>

\* setLocalDescription is done, and the offer sent.
OfferMade(t, p) ==
  /\ links[t][p] # None /\ links[t][p].making
  /\ LET l  == links[t][p]
         n  == [l EXCEPT !.making = FALSE, !.sig = "have-local-offer", !.need = "no", !.resends = 0,
                         !.uf = IF l.need = "restart" THEN @ + 1 ELSE @]
     IN SetLink(t, p, n) /\ Send(t, p, <<Offer(n), Cands(n)>>)
  /\ UNCHANGED <<id, callVars, seats, made, mail, busy, tracks, local, todo, strange>>

\* Seconds have passed: who left is gone from every list, who joined has its
\* transport. (A lost socket may take the server longer to notice.)
Later ==
  /\ \A t \in Tabs : IF self[t] = 0 THEN id[t] \notin seats ELSE mesh[t].self = self[t]
  /\ \A t \in Tabs : self[t] \in {0, id[t]} => roster[t] = IF self[t] = 0 THEN {} ELSE seats

\* No message is on its way to a transport, or being handled.
Idle == \A t \in Tabs : wire[t] = <<>> /\ (mesh[t].self # 0 => mail[t] = NoMail)

\* watchAnswer, after ANSWER_TIMEOUT_MS. An answer may be late for the first of
\* the resends; by the last everything sent has long been handled.
Resend(t, p) ==
  /\ links[t][p] # None
  /\ LET l == links[t][p] IN
     /\ l.sig = "have-local-offer" /\ l.resends < OfferResends /\ Later
     /\ l.resends + 1 = OfferResends => Idle
     /\ SetLink(t, p, [l EXCEPT !.resends = @ + 1])
     /\ Send(t, p, <<Offer(l)>>)
  /\ UNCHANGED <<id, callVars, seats, made, mail, busy, tracks, local, todo, strange>>

\* The first message of a peer is taken up, when the one before it is done.
Next1(t, p) == mesh[t].self \notin {0, p} /\ mail[t][p] # <<>> /\ busy[t][p] = None

\* The link a task is run with.
Found(t, p) == IF links[t][p] # None THEN links[t][p] ELSE Stray(t, p)
Popped(t, p) == mail' = [mail EXCEPT ![t][p] = Tail(@)]
Keep(t, p, l) == SetLink(t, p, l) /\ IF l.pc[2] > made[t] THEN Made(t) ELSE UNCHANGED made

\* A candidate of a session since replaced is left; one that comes before any
\* description is lost; one for other credentials is of no use.
HandleCandidate(t, p) ==
  /\ Next1(t, p)
  /\ LET m == Head(mail[t][p])
         l == Found(t, p)
         useful == l.session \in {0, m.session} /\ l.remote # None
                     /\ l.remote.pc = m.signal.pc /\ l.remote.uf = m.signal.uf
     IN /\ m.signal.type = "candidate"
        /\ Keep(t, p, IF useful THEN [l EXCEPT !.cands = TRUE] ELSE l)
  /\ Popped(t, p)
  /\ UNCHANGED <<id, callVars, seats, wire, busy, tracks, local, todo, strange>>

Replaced(l, m) == l.session \notin {0, m.session}

\* handleDescription, up to its first await: the link is rebuilt when the far
\* side replaced its own, and answers nobody waits for and offers that lose a
\* collision are dropped.
HandleDescription(t, p) ==
  /\ Next1(t, p)
  /\ LET m == Head(mail[t][p])
         d == m.signal
         found == Found(t, p)
         l == IF Replaced(found, m) \/ (d.type = "offer" /\ found.dead)
              THEN Rebuilt(t, p, found) ELSE found
         dropped == IF d.type = "answer" THEN Replaced(found, m) \/ l.sig # "have-local-offer"
                    ELSE ~Polite(t, p) /\ (l.making \/ l.sig # "stable")
     IN /\ d.type \in {"offer", "answer"}
        /\ Keep(t, p, l)
        /\ IF dropped THEN Popped(t, p) /\ UNCHANGED busy
           ELSE busy' = [busy EXCEPT ![t][p] = l.pc] /\ UNCHANGED mail
  /\ UNCHANGED <<id, callVars, seats, wire, tracks, local, todo, strange>>

\* setRemoteDescription, which rolls an offer of the polite side back.
Remote(l, m) ==
  LET d == m.signal IN
  [l EXCEPT !.sig = "stable", !.remote = d, !.session = m.session,
            !.cands = @ /\ l.remote # None /\ l.remote.pc = d.pc /\ l.remote.uf = d.uf]

\* openFilesChannel and attachLocalTracks. (Mutant: the tracks are forgotten.)
AttachedBare(t, l) == [l EXCEPT !.files = TRUE]
Attached(t, l) == [l EXCEPT !.files = TRUE, !.sends = local[t],
                            !.swaps = IF l.sends = local[t] THEN @ ELSE <<>>]

\* The answer has new credentials when the offer has. Transceivers added for an
\* offer of one's own are not those of the far side's, so that offer is still to
\* be made.
Answered(t, l, m) ==
  LET d == m.signal
      anew == l.remote # None /\ <<l.remote.pc, l.remote.uf>> # <<d.pc, d.uf>>
  IN [Attached(t, Remote(l, m)) EXCEPT !.uf = IF anew THEN @ + 1 ELSE @,
                                       !.need = IF @ = "first" THEN @ ELSE "no"]

\* The rest of handleDescription, unless its connection was closed meanwhile.
Apply(t, p) ==
  /\ busy[t][p] # None
  /\ busy' = [busy EXCEPT ![t][p] = None]
  /\ Popped(t, p)
  /\ LET m == Head(mail[t][p])
         l == links[t][p]
     IN IF l = None THEN UNCHANGED <<links, wire, strange>>
        ELSE IF l.pc # busy[t][p] THEN UNCHANGED <<links, wire, strange>>
        ELSE /\ ~l.making
             /\ strange' = (l.remote # None /\ l.remote.pc # m.signal.pc)
             /\ IF m.signal.type = "answer"
                THEN SetLink(t, p, Remote(l, m)) /\ UNCHANGED wire
                ELSE LET n == Answered(t, l, m) IN
                     /\ SetLink(t, p, n)
                     /\ Send(t, p, IF l.remote = None \/ n.uf # l.uf THEN <<Answer(n), Cands(n)>>
                                   ELSE <<Answer(n)>>)
  /\ UNCHANGED <<id, callVars, seats, made, tracks, local, todo>>

-----------------------------------------------------------------------------
(* ICE, and what the mesh does about it.                                   *)

\* The other end of a link, if it is still there: {} or one link.
FarEnds(l) == {f \in {links[u][q] : u \in Tabs, q \in Ids} \ {None} :
                 l.remote # None /\ f.pc = l.remote.pc /\ f.pc # l.pc}

\* That end knows this one. A description to come may still change it.
Reaches(l) == \E f \in FarEnds(l) :
  /\ f.remote # None /\ f.remote.pc = l.pc /\ f.remote.uf = l.uf /\ l.remote.uf = f.uf
  /\ l.cands \/ f.cands

Gone(l) == l.remote # None /\ \A f \in FarEnds(l) : f.remote # None /\ f.remote.pc # l.pc

\* Nothing is on its way any more. ICE gives up after 15 s and more: later
\* than signaling takes.
Quiet ==
  /\ Later /\ Idle
  /\ \A t \in Tabs :
       /\ self[t] \in {0, id[t]}
       /\ \A l \in {links[t][p] : p \in Ids} \ {None} :
            /\ ~l.making /\ l.need = "no"
            /\ l.sig = "have-local-offer" => l.resends = OfferResends

Ice(t, p, l) ==
  /\ SetLink(t, p, l)
  /\ UNCHANGED <<id, callVars, seats, made, wire, mail, busy, tracks, local, strange>>

Connected(t, p) ==
  /\ links[t][p] # None
  /\ LET l == links[t][p] IN
     /\ l.ice # "up" /\ l.sig = "stable" /\ Reaches(l)
     /\ Ice(t, p, [l EXCEPT !.ice = "up", !.timed = FALSE])
  /\ UNCHANGED todo

Disconnected(t, p) ==
  /\ links[t][p] # None
  /\ LET l == links[t][p] IN
     /\ l.ice = "up"
     /\ Ice(t, p, [l EXCEPT !.ice = "down"])
     /\ IF Gone(l) THEN UNCHANGED todo ELSE Does(<<"blip", t>>)

\* ICE_RESTART_DELAY_MS later.
RestartIce(t, p) ==
  /\ links[t][p] # None
  /\ LET l == links[t][p] IN
     /\ l.ice = "down" /\ ~l.timed /\ Later
     /\ Ice(t, p, [l EXCEPT !.timed = TRUE, !.need = "restart"])
  /\ UNCHANGED todo

\* failed: the connection is built anew; the impolite side offers.
Failed(t, p) ==
  /\ links[t][p] # None
  /\ LET l == links[t][p] IN
     /\ made[t] < MaxMade
     /\ l.remote # None /\ (l.sig = "stable" \/ Gone(l))
     /\ IF Quiet /\ ~Reaches(l) THEN UNCHANGED todo
        ELSE l.ice \in {"up", "down"} /\ Does(<<"fail", t>>)
     /\ SetLink(t, p, Rebuilt(t, p, l)) /\ Made(t)
  /\ UNCHANGED <<id, callVars, seats, wire, mail, busy, tracks, local, strange>>

\* connectionState is failed, though ICE is not.
DtlsFails(t, p) ==
  /\ links[t][p] # None /\ links[t][p].ice = "up"
  /\ Does(<<"dtls", t>>)
  /\ Ice(t, p, [links[t][p] EXCEPT !.dead = TRUE])

-----------------------------------------------------------------------------
LinkStep(t, p) ==
  \/ NegotiationNeeded(t, p) \/ OfferMade(t, p) \/ HandleCandidate(t, p)
  \/ HandleDescription(t, p) \/ Apply(t, p) \/ Connected(t, p) \/ RestartIce(t, p)

MeshNext ==
  \/ \E t \in Tabs : Join(t) \/ Mount(t) \/ Leave(t) \/ Reconnect(t) \/ FollowRoster(t) \/ Relay(t)
  \/ \E i \in Ids : Vacate(i)
  \/ \E t \in Tabs, p \in Ids :
       LinkStep(t, p) \/ Resend(t, p) \/ Disconnected(t, p) \/ Failed(t, p) \/ DtlsFails(t, p)

-----------------------------------------------------------------------------
(* Two people who stay get connected.                                      *)

InCall(t) == self[t] # 0 /\ self[t] = id[t] /\ mesh[t].self = id[t] /\ id[t] \in seats

\* The end of t is not one that a message alone made, and DTLS is well.
Sound(t, u) == LET l == links[t][id[u]] IN l # None => ~l.stray /\ ~l.dead

Settled(t, u) == InCall(t) /\ InCall(u) /\ Sound(t, u) /\ Sound(u, t)

Up(t, u) ==
  /\ links[t][id[u]] # None /\ links[u][id[t]] # None
  /\ LET l == links[t][id[u]] IN l.ice = "up" /\ Reaches(l) /\ links[u][id[t]] \in FarEnds(l)

\* When what may happen to a call has happened (people coming and going, sockets
\* and messages lost, connections failing), any two people still in it are
\* connected: offers that cross, are lost, come too early or to a transport since
\* replaced are made up for.
Connects == <>[](\A t \in Tabs : \A u \in Tabs \ {t} : Settled(t, u) /\ ~strange => Up(t, u))
=============================================================================
