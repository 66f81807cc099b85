------------------------------ MODULE Transfers ------------------------------
(***************************************************************************)
(* Files sent from tab to tab over the `files' channel of a connection:    *)
(* DirectTransfers, one per call. A transfer is known at both ends by the  *)
(* peer and the file, sent once; its blocks are the numbers 1 .. Size[f].  *)
(*                                                                         *)
(* What is sent on a channel is in `pipe' until the far side handles it.   *)
(* How much of it the browser still buffers, which is what the sender      *)
(* looks at, is not followed: it may be anything of it.                    *)
(***************************************************************************)
EXTENDS Mesh

CONSTANTS
  Files,
  Size        \* Size[f]: the number of chunks

ASSUME TransfersAssumption == Size \in [Files -> Nat \ {0}]

VARIABLES
  picked,      \* files chosen and being checked, and the peers they are for
  sent,        \* sent[t][p][f]: status of the file t sends to p, "no" before
  recv,         \* recv[t][p][f]: status of the file t gets from p, "no" before
  queue,      \* sendQueues: the files to pump to a peer, one after the other
  pump,       \* what the pump of the first of them has come to, or None
  chan,       \* channels: the connection of the channel attached, and its readyState
  pipe,       \* messages on the channel of a link to a peer
  incoming,   \* the transfer being received from a peer, or None
  sniffing,   \* received whole, and being checked
  got         \* blobs of the transfers complete

transferVars == <<picked, sent, recv, queue, pump, chan, pipe, incoming, sniffing, got>>

Per(x) == [t \in Tabs |-> [p \in Ids |-> x]]
Statuses == [f \in Files |-> "no"]

TransfersInit ==
  /\ picked = {} /\ sent = Per(Statuses) /\ recv = Per(Statuses)
  /\ queue = Per(<<>>) /\ pump = Per(None)
  /\ chan = [t \in Tabs |-> [p \in Ids |->
       IF links[t][p] = None THEN None ELSE [pc |-> links[t][p].pc, state |-> "open"]]]
  /\ pipe = Per(<<>>)
  /\ incoming = Per(None)
  /\ sniffing = {} /\ got = {}

Live == {"queued", "active"}

Ended(statuses, status) == [f \in Files |-> IF statuses[f] \in Live THEN status ELSE statuses[f]]

-----------------------------------------------------------------------------
(* Channels.                                                               *)

Open(t, p) == chan[t][p] # None /\ chan[t][p].state = "open"

\* The far end of a link, at a tab and a peer id of its.
FarSide(t, p) == {s \in Tabs \X Ids :
  links[t][p] # None /\ links[s[1]][s[2]] \in FarEnds(links[t][p])}

ChanOpens(t, p) ==
  /\ chan[t][p] # None /\ chan[t][p].state = "connecting"
  /\ links[t][p] # None /\ links[t][p].ice = "up" /\ Reaches(links[t][p])
  /\ chan' = [chan EXCEPT ![t][p].state = "open"]
  /\ UNCHANGED <<picked, sent, recv, queue, pump, pipe, incoming, sniffing, got>>

\* onclose of the channel attached: the far side closed its connection, or, for
\* one closed here, the browser says so late. failPeer.
ChanCloses(t, p) ==
  /\ chan[t][p] # None
  /\ \/ chan[t][p].state = "closed"
     \/ chan[t][p].state = "open" /\ FarSide(t, p) = {}
  /\ chan' = [chan EXCEPT ![t][p].state = "gone"]
  /\ sent' = [sent EXCEPT ![t][p] = Ended(@, "failed")]
  /\ recv' = [recv EXCEPT ![t][p] = Ended(@, "failed")]
  /\ incoming' = [incoming EXCEPT ![t][p] = None]
  /\ UNCHANGED <<picked, queue, pump, pipe, sniffing, got>>

-----------------------------------------------------------------------------
(* Sending.                                                                *)

Msg(type, f, n) == [t |-> type, file |-> f, n |-> n]

\* What a tab sends on a channel that is closed is an error, or goes nowhere.
Put(t, p, m) == pipe' = [pipe EXCEPT ![t][p] = IF Open(t, p) THEN Append(@, m) ELSE @]

\* accept: a file chosen for the peers whose channel is open is checked first.
Accept(t, f) ==
  LET to == {p \in Ids : Open(t, p)} IN
  /\ to # {}
  /\ Does(<<"send", t, f>>)
  /\ picked' = picked \union {[tab |-> t, file |-> f, to |-> to]}
  /\ UNCHANGED <<sent, recv, queue, pump, chan, pipe, incoming, sniffing, got>>

\* send, to the peers of then.
SendFile(t, f, to) ==
  /\ [tab |-> t, file |-> f, to |-> to] \in picked
  /\ picked' = picked \ {[tab |-> t, file |-> f, to |-> to]}
  /\ sent' = [sent EXCEPT ![t] = [p \in Ids |-> IF p \in to THEN [@[p] EXCEPT ![f] = "queued"] ELSE @[p]]]
  /\ queue' = [queue EXCEPT ![t] = [p \in Ids |-> IF p \in to THEN Append(@[p], f) ELSE @[p]]]
  /\ UNCHANGED <<recv, pump, chan, pipe, incoming, sniffing, got>>

Marked(t, p, f, status) == sent' = [sent EXCEPT ![t][p][f] = status]
MarkedIfLive(t, p, f, status) == Marked(t, p, f, IF sent[t][p][f] \in Live THEN status ELSE sent[t][p][f])

\* The pump is done with the file, and the next one's turn comes.
Ends(t, p) ==
  /\ pump' = [pump EXCEPT ![t][p] = None]
  /\ queue' = [queue EXCEPT ![t][p] = Tail(@)]

Busy(t, p, step) == pump[t][p] # None /\ pump[t][p].step = step

\* The channel the pump began with is still the one attached, and open.
StillOpen(t, p) == Open(t, p) /\ chan[t][p].pc = pump[t][p].pc

PumpBegins(t, p) ==
  /\ queue[t][p] # <<>> /\ pump[t][p] = None
  /\ LET f == Head(queue[t][p]) IN
     IF sent[t][p][f] # "queued" THEN Ends(t, p) /\ UNCHANGED <<sent, pipe>>
     ELSE IF ~Open(t, p) THEN Ends(t, p) /\ Marked(t, p, f, "failed") /\ UNCHANGED pipe
     ELSE /\ Marked(t, p, f, "active")
          /\ Put(t, p, Msg("begin", f, 0))
          /\ pump' = [pump EXCEPT ![t][p] = [step |-> "sending", file |-> f, at |-> 1, pc |-> chan[t][p].pc]]
          /\ UNCHANGED queue
  /\ UNCHANGED <<picked, recv, chan, incoming, sniffing, got>>

\* channel.send of a chunk, which throws when the channel is closed.
SendsChunk(t, p) ==
  LET m == pump[t][p] IN
  IF ~StillOpen(t, p) THEN MarkedIfLive(t, p, m.file, "failed") /\ Ends(t, p) /\ UNCHANGED pipe
  ELSE /\ Put(t, p, Msg("chunk", m.file, m.at))
       /\ pump' = [pump EXCEPT ![t][p] = [m EXCEPT !.at = @ + 1, !.step = "sending"]]
       /\ UNCHANGED <<sent, queue>>

\* The next chunk, unless the transfer was cancelled; or a wait until the
\* browser has sent most of what it holds.
PumpChunk(t, p) ==
  /\ Busy(t, p, "sending")
  /\ LET m == pump[t][p] IN
     /\ m.at <= Size[m.file]
     /\ \/ sent[t][p][m.file] # "active" /\ Ends(t, p) /\ UNCHANGED <<sent, pipe>>
        \/ sent[t][p][m.file] = "active" /\ SendsChunk(t, p)
        \/ /\ sent[t][p][m.file] = "active" /\ StillOpen(t, p) /\ pipe[t][p] # <<>>
           /\ pump' = [pump EXCEPT ![t][p].step = "paused"]
           /\ UNCHANGED <<sent, queue, pipe>>
  /\ UNCHANGED <<picked, recv, chan, incoming, sniffing, got>>

\* drained() resolves, when the channel closes too. (Mutant: not then.)
DrainedOnly(t, p) == pipe[t][p] = <<>> /\ StillOpen(t, p)
Drained(t, p) == pipe[t][p] = <<>> \/ ~StillOpen(t, p)

PumpResumes(t, p) ==
  /\ Busy(t, p, "paused") /\ Drained(t, p)
  /\ SendsChunk(t, p)
  /\ UNCHANGED <<picked, recv, chan, incoming, sniffing, got>>

PumpFinishes(t, p) ==
  /\ Busy(t, p, "sending") /\ pump[t][p].at > Size[pump[t][p].file]
  /\ IF StillOpen(t, p)
     THEN /\ Put(t, p, Msg("end", pump[t][p].file, 0))
          /\ pump' = [pump EXCEPT ![t][p].step = "draining"]
          /\ UNCHANGED <<sent, queue>>
     ELSE MarkedIfLive(t, p, pump[t][p].file, "failed") /\ Ends(t, p) /\ UNCHANGED pipe
  /\ UNCHANGED <<picked, recv, chan, incoming, sniffing, got>>

\* Handed to the network. A transfer cancelled while it was drained is done all
\* the same.
PumpDone(t, p) ==
  /\ Busy(t, p, "draining")
  /\ IF StillOpen(t, p) THEN Marked(t, p, pump[t][p].file, "complete")
     ELSE MarkedIfLive(t, p, pump[t][p].file, "failed")
  /\ Ends(t, p)
  /\ UNCHANGED <<picked, recv, chan, pipe, incoming, sniffing, got>>

\* cancel, at either end, which tells the far one. (Mutant: it does not.)
TellsNot(t, p, f) == UNCHANGED pipe
Tells(t, p, f) == Put(t, p, Msg("cancel", f, 0))

CancelSend(t, p, f) ==
  /\ sent[t][p][f] \in Live
  /\ Does(<<"cancel", t>>)
  /\ Marked(t, p, f, "cancelled")
  /\ IF sent[t][p][f] = "active" THEN Tells(t, p, f) ELSE UNCHANGED pipe
  /\ UNCHANGED <<picked, recv, queue, pump, chan, incoming, sniffing, got>>

CancelReceive(t, p, f) ==
  /\ recv[t][p][f] \in Live
  /\ Does(<<"cancel", t>>)
  /\ recv' = [recv EXCEPT ![t][p][f] = "cancelled"]
  /\ incoming' = [incoming EXCEPT ![t][p] = None]
  /\ Tells(t, p, f)
  /\ UNCHANGED <<picked, sent, queue, pump, chan, sniffing, got>>

-----------------------------------------------------------------------------
(* Receiving. u gets from q the first message t sent on its link to p.     *)

Gets(t, p, u, q, type) ==
  /\ Head(pipe[t][p]).t = type
  /\ <<u, q>> \in FarSide(t, p)
  /\ Open(u, q) /\ chan[u][q].pc = links[u][q].pc

Handled(t, p) == pipe' = [pipe EXCEPT ![t][p] = Tail(@)]

OnBegin(t, p, u, q) ==
  /\ Gets(t, p, u, q, "begin") /\ Handled(t, p)
  /\ LET f == Head(pipe[t][p]).file
         before == incoming[u][q]
         others == IF before = None THEN recv[u][q] ELSE [recv[u][q] EXCEPT ![before.file] = "interrupted"]
     IN /\ recv' = [recv EXCEPT ![u][q] = [others EXCEPT ![f] = "active"]]
        /\ incoming' = [incoming EXCEPT ![u][q] = [file |-> f, parts |-> <<>>, pc |-> links[u][q].pc]]
  /\ UNCHANGED <<picked, sent, queue, pump, chan, sniffing, got>>

\* A chunk more than was announced ends the transfer, and says so to the sender.
OnChunk(t, p, u, q) ==
  /\ Gets(t, p, u, q, "chunk")
  /\ LET now == incoming[u][q]
         m == Head(pipe[t][p])
     IN IF now = None THEN Handled(t, p) /\ UNCHANGED <<recv, incoming>>
        ELSE IF Len(now.parts) = Size[now.file]
        THEN /\ recv' = [recv EXCEPT ![u][q][now.file] = "overrun"]
             /\ incoming' = [incoming EXCEPT ![u][q] = None]
             /\ pipe' = [pipe EXCEPT ![t][p] = Tail(@), ![u][q] = Append(@, Msg("cancel", now.file, 0))]
        ELSE /\ incoming' = [incoming EXCEPT ![u][q].parts = Append(@, <<m.file, m.n>>)]
             /\ Handled(t, p) /\ UNCHANGED recv
  /\ UNCHANGED <<picked, sent, queue, pump, chan, sniffing, got>>

OnEnd(t, p, u, q) ==
  /\ Gets(t, p, u, q, "end") /\ Handled(t, p)
  /\ LET now == incoming[u][q]
         f == Head(pipe[t][p]).file
     IN IF now = None THEN UNCHANGED <<recv, incoming, sniffing>>
        ELSE IF now.file # f THEN UNCHANGED <<recv, incoming, sniffing>>
        ELSE /\ incoming' = [incoming EXCEPT ![u][q] = None]
             /\ IF Len(now.parts) # Size[f]
                THEN recv' = [recv EXCEPT ![u][q][f] = "incomplete"] /\ UNCHANGED sniffing
                ELSE /\ sniffing' = sniffing \union {[tab |-> u, peer |-> q, file |-> f, parts |-> now.parts]}
                     /\ UNCHANGED recv
  /\ UNCHANGED <<picked, sent, queue, pump, chan, got>>

\* onCancel looks for the transfer in both directions.
OnCancel(t, p, u, q) ==
  /\ Gets(t, p, u, q, "cancel") /\ Handled(t, p)
  /\ LET f == Head(pipe[t][p]).file IN
     /\ recv' = IF recv[u][q][f] \in Live THEN [recv EXCEPT ![u][q][f] = "cancelled"] ELSE recv
     /\ incoming' = IF recv[u][q][f] \in Live THEN [incoming EXCEPT ![u][q] = None] ELSE incoming
     /\ sent' = IF sent[u][q][f] \in Live THEN [sent EXCEPT ![u][q][f] = "cancelled"] ELSE sent
  /\ UNCHANGED <<picked, queue, pump, chan, sniffing, got>>

\* What arrived passes the check it passed where it was sent from. A transfer
\* cancelled meanwhile is complete all the same.
Sniffed(s) ==
  /\ s \in sniffing
  /\ sniffing' = sniffing \ {s}
  /\ recv' = [recv EXCEPT ![s.tab][s.peer][s.file] = "complete"]
  /\ got' = got \union {s}
  /\ UNCHANGED <<picked, sent, queue, pump, chan, pipe, incoming>>

-----------------------------------------------------------------------------
\* Who leaves cancels everything.
Over(t, statuses) == IF self[t] # 0 /\ self'[t] = 0 THEN Ended(statuses, "cancelled") ELSE statuses

\* What a step of the mesh means for the transfers. A new connection has a new
\* channel, which is attached for its peer when the old one is already closed;
\* what was on a channel is lost with it.
TransfersFollow ==
  LET left(t) == self[t] # 0 /\ self'[t] = 0
      new(t, p) == /\ links'[t][p] # None
                   /\ links'[t][p].files
                   /\ chan[t][p] = None \/ chan[t][p].pc # links'[t][p].pc
      closed(t, p) == /\ chan[t][p] # None
                      /\ links'[t][p] = None \/ links'[t][p].pc # chan[t][p].pc
  IN /\ chan' = [t \in Tabs |-> [p \in Ids |->
          IF left(t) THEN None
          ELSE IF new(t, p) THEN [pc |-> links'[t][p].pc, state |-> "connecting"]
          ELSE IF closed(t, p) /\ chan[t][p].state # "gone" THEN [chan[t][p] EXCEPT !.state = "closed"]
          ELSE chan[t][p]]]
     /\ pipe' = [t \in Tabs |-> [p \in Ids |->
          IF left(t) \/ new(t, p) \/ closed(t, p) THEN <<>> ELSE pipe[t][p]]]
     /\ sent' = [t \in Tabs |-> [p \in Ids |-> Over(t, sent[t][p])]]
     /\ recv' = [t \in Tabs |-> [p \in Ids |-> Over(t, recv[t][p])]]
     /\ incoming' = [t \in Tabs |-> [p \in Ids |-> IF left(t) THEN None ELSE incoming[t][p]]]
     /\ pump' = [t \in Tabs |-> [p \in Ids |-> IF left(t) THEN None ELSE pump[t][p]]]
     /\ queue' = [t \in Tabs |-> [p \in Ids |-> IF left(t) THEN <<>> ELSE queue[t][p]]]
     /\ sniffing' = {s \in sniffing : ~left(s.tab)}
     /\ picked' = {s \in picked : ~left(s.tab)}
     /\ UNCHANGED got

Pumping(t, p) ==
  PumpBegins(t, p) \/ PumpChunk(t, p) \/ PumpResumes(t, p) \/ PumpFinishes(t, p) \/ PumpDone(t, p)

Receives(t, p) == pipe[t][p] # <<>> /\ \E u \in Tabs, q \in Ids :
  OnBegin(t, p, u, q) \/ OnChunk(t, p, u, q) \/ OnEnd(t, p, u, q) \/ OnCancel(t, p, u, q)

TransfersStep(t, p) == Pumping(t, p) \/ Receives(t, p) \/ ChanOpens(t, p) \/ ChanCloses(t, p)

TransfersNext ==
  \/ UNCHANGED todo /\ \E t \in Tabs, p \in Ids : TransfersStep(t, p)
  \/ UNCHANGED todo /\ \E s \in sniffing : Sniffed(s)
  \/ UNCHANGED todo /\ \E s \in picked : SendFile(s.tab, s.file, s.to)
  \/ \E t \in Tabs, f \in Files : Accept(t, f)
  \/ \E t \in Tabs, p \in Ids, f \in Files : CancelSend(t, p, f) \/ CancelReceive(t, p, f)

-----------------------------------------------------------------------------
\* What is received over a connection that holds is the file that was sent: no
\* file is mixed with another's chunks, cut off by the next one, or short.
ArrivesWhole ==
  [][ /\ \A t \in Tabs, p \in Ids :
           LET now == incoming[t][p] IN
           now # None => now.pc # chan[t][p].pc
                         \/ recv'[t][p][now.file] \notin {"interrupted", "overrun", "incomplete"}
      /\ \A s \in got' : s.parts = [n \in 1 .. Size[s.file] |-> <<s.file, n>>]
    ]_transferVars

\* Whatever becomes of the connection, a file offered to a peer is sent, fails or
\* is cancelled, and does not hold up those queued behind it.
TransfersEnd ==
  <>[](\A t \in Tabs, p \in Ids, f \in Files : sent[t][p][f] \notin Live \/ strange)
=============================================================================
