-------------------------------- MODULE Chat --------------------------------
(***************************************************************************)
(* The room's chat: chat.gateway.ts and chat.service.ts over the rows of   *)
(* Message, and useChat.ts in each tab, which shows the chat once it has   *)
(* the room's key (RoomKeys).                                              *)
(*                                                                         *)
(* A message is its id, chosen by the sender; text and sealing are left    *)
(* out, as is the count of unread messages. What a tab shows is the status *)
(* of each message, in the order the server stored them.                   *)
(***************************************************************************)
EXTENDS RoomKeys, FiniteSetsExt, SequencesExt

CONSTANTS
  Messages,
  SenderOf,   \* the tab a message is sent from
  Page,       \* HISTORY_PAGE
  Tries       \* bound on the attempts to send a message

ASSUME ChatAssumption ==
  /\ SenderOf \in [Messages -> Tabs] /\ Page \in Nat \ {0} /\ Tries \in Nat
  /\ \A s \in Scripts : s.posted \in Seq(Messages) /\ IsInjective(s.posted)

VARIABLES
  rows,       \* Message, by createdAt
  chat,       \* useChat, by tab: its entries and its requests
  live,       \* chat:message on its way: <<tab, message>>
  sends,      \* the attempts to send a message
  missed,     \* (history) messages a tab will not hear, or read and did not
              \* show; until it reads the history, if that is within a page
  gaps        \* (history) tabs that were told once more of a message from
              \* before they came, or came back before their own was sent

chatVars == <<rows, chat, live, sends, missed, gaps>>

NoPage == [pc |-> "none", got |-> {}, more |-> FALSE]
NoChat == [entry |-> [m \in Messages |-> "none"], once |-> FALSE, more |-> FALSE,
           load |-> NoPage, older |-> NoPage]

\* `at' is how far each attempt has come; the client waits for the last one, of
\* which it hears no more if its number is at most `cut'.
NoSend == [n |-> 0, wait |-> FALSE, cut |-> 0, at |-> [i \in 1 .. Tries |-> "none"]]

Posted == ToSet(rows)

ChatIs(t, c) == chat' = [chat EXCEPT ![t] = c]
Merged(c, S) == [c EXCEPT !.entry = [m \in Messages |-> IF m \in S THEN "sent" ELSE c.entry[m]]]

-----------------------------------------------------------------------------
(* history.                                                                *)

\* The page before the message at index i.
PageBefore(i) ==
  [pc |-> "got", got |-> {rows[k] : k \in DOMAIN rows \cap (i - Page .. i - 1)}, more |-> i - 1 > Page]
LastPage == PageBefore(Len(rows) + 1)

ChatInit ==
  /\ \E s \in Scripts : s.ops = todo /\ rows = s.posted
  /\ chat = [t \in Tabs |-> IF ~Mounted(t) THEN NoChat ELSE
               [Merged(NoChat, LastPage.got) EXCEPT !.once = TRUE, !.more = LastPage.more]]
  /\ live = {}
  /\ sends = [m \in Messages |-> NoSend]
  /\ missed = [t \in Tabs |-> {}] /\ gaps = {}

-----------------------------------------------------------------------------
(* What a tab has, and what it may still have to hear.                     *)

Shown(t) == {m \in Messages : chat[t].entry[m] # "none"}

\* Stored messages that the tab has still to hear.
Emitting(m) == \E i \in 1 .. Tries : sends[m].at[i] = "emit"
Coming(t) == {m \in Posted : <<t, m>> \in live \/ Emitting(m)}

\* Messages the tab shows, is going to show, or is known to lack.
Known(t) == Shown(t) \union Coming(t) \union chat[t].load.got \union chat[t].older.got \union missed[t]

\* Messages stored after one of S.
After(S) == {rows[j] : j \in {k \in DOMAIN rows : \E i \in 1 .. k - 1 : rows[i] \in S}}

Present(t) == Mounted(t) \/ t \in channel

\* Own messages that are still on their way, or being stored.
Sending(t) == \E m \in Messages : SenderOf[m] = t
                /\ \E i \in 1 .. Tries : sends[m].at[i] \in {"sent", "find", "create", "emit"}

-----------------------------------------------------------------------------
(* What steps of the tab mean for its chat.                                *)

\* (Mutant: the history is loaded for the key only.)
ReloadsForKey(t) == NewKey(t)
\* The effect that loads the history runs: a new key, or a new peer id.
Reloads(t) == NewKey(t) \/ (tab[t].join = "ask" /\ tab'[t].join = "none")

\* Bound: where nobody is ever going to write, nothing is loaded.
Chatting == rows # <<>> \/ \E m \in Messages : sends[m] # NoSend \/ <<"send", m>> \in todo

\* An attempt whose socket is gone is lost on its way; at the server it goes on.
Cut(m) ==
  LET t == SenderOf[m]
      s == sends[m]
      gone == t \in channel \ channel' IN
  [n |-> s.n, wait |-> s.wait /\ tab'[t].page = "in", cut |-> IF gone THEN s.n ELSE s.cut,
   at |-> [i \in 1 .. Tries |-> IF gone /\ s.at[i] = "sent" THEN "lost" ELSE s.at[i]]]

\* What the tab will not hear or show, of what it was going to.
Misses(t) ==
  IF t \in channel' \ channel /\ ~Mounted(t) THEN After(Coming(t)) \ Coming(t)
  ELSE missed[t] \union (IF t \in channel \ channel' THEN Coming(t) ELSE {})
                 \union (IF Reloads(t) THEN chat[t].load.got \ Shown(t) ELSE {})

ChatFollows ==
  /\ chat' = [t \in Tabs |-> IF tab'[t].page # "in" THEN NoChat
                ELSE IF ~Reloads(t) THEN chat[t]
                ELSE [chat[t] EXCEPT !.load = IF hook'[t].key # 0 /\ Chatting THEN [NoPage EXCEPT !.pc = "asked"]
                                              ELSE NoPage]]
  /\ sends' = [m \in Messages |-> Cut(m)]
  /\ live' = {x \in live : x[1] \in channel'}
  /\ missed' = [t \in Tabs |-> IF tab'[t].page = "away" THEN {} ELSE Misses(t)]
  /\ gaps' = {t \in Tabs : tab'[t].page # "away" /\ (t \in gaps \/ (tab[t].page = "away" /\ Sending(t)))}
  /\ UNCHANGED rows

-----------------------------------------------------------------------------
(* useChat.                                                                *)

\* deliver: one more attempt.
Deliver(m) ==
  LET n == sends[m].n + 1 IN
  /\ n <= Tries
  /\ ChatIs(SenderOf[m], [chat[SenderOf[m]] EXCEPT !.entry[m] = "sending"])
  /\ sends' = [sends EXCEPT ![m] = [n |-> n, wait |-> TRUE, cut |-> sends[m].cut,
                                     at |-> [sends[m].at EXCEPT ![n] = "sent"]]]
  /\ UNCHANGED <<rows, live, missed, gaps>>

Send(m) ==
  /\ Mounted(SenderOf[m]) /\ hook[SenderOf[m]].key # 0
  /\ chat[SenderOf[m]].entry[m] = "none" /\ m \notin Posted
  /\ Does("send", m)
  /\ Deliver(m)

\* The same id: the server is to recognise it.
Retry(m) ==
  /\ Mounted(SenderOf[m]) /\ hook[SenderOf[m]].key # 0
  /\ chat[SenderOf[m]].entry[m] = "failed"
  /\ Does("retry", m)
  /\ Deliver(m)

Answered(m) == sends[m].at[sends[m].n] \in {"ok", "error"} /\ sends[m].n > sends[m].cut

\* The acknowledgement of the last attempt.
Acked(m) ==
  LET t == SenderOf[m] IN
  /\ sends[m].wait /\ Answered(m)
  /\ sends' = [sends EXCEPT ![m].wait = FALSE]
  /\ ChatIs(t, [chat[t] EXCEPT !.entry[m] =
                  IF sends[m].at[sends[m].n] = "ok" THEN "sent" ELSE "failed"])
  /\ UNCHANGED <<rows, live, missed, gaps, todo>>

\* Ten seconds without one.
GiveUp(m) ==
  LET t == SenderOf[m] IN
  /\ sends[m].wait /\ ~Answered(m)
  /\ sends' = [sends EXCEPT ![m].wait = FALSE]
  /\ ChatIs(t, [chat[t] EXCEPT !.entry[m] = "failed"])
  /\ UNCHANGED <<rows, live, missed, gaps, todo>>

\* chat:message; without the key it waits for the history.
HearChat(t, m) ==
  LET shows == Mounted(t) /\ hook[t].key # 0
      late == chat[t].once \/ chat[t].load.pc = "got" \/ m \in After(Known(t)) IN
  /\ <<t, m>> \in live
  /\ live' = live \ {<<t, m>>}
  /\ chat' = IF shows THEN [chat EXCEPT ![t] = Merged(chat[t], {m})] ELSE chat
  /\ missed' = IF ~shows /\ late THEN [missed EXCEPT ![t] = missed[t] \union {m}] ELSE missed
  /\ UNCHANGED <<rows, sends, gaps, todo>>

LoadRead(t) ==
  /\ chat[t].load.pc = "asked"
  /\ ChatIs(t, [chat[t] EXCEPT !.load = IF Signed(t) THEN LastPage ELSE NoPage])
  /\ missed' = [missed EXCEPT ![t] =
       IF Signed(t) /\ t \in channel /\ tab[t].join = "none" /\ missed[t] \subseteq LastPage.got THEN {}
       ELSE missed[t]]
  /\ UNCHANGED <<rows, live, sends, gaps, todo>>

\* Only the first load says whether there are older messages.
LoadDone(t) ==
  LET c == chat[t] IN
  /\ c.load.pc = "got"
  /\ ChatIs(t, [Merged(c, c.load.got) EXCEPT !.load = NoPage, !.once = TRUE,
                  !.more = IF c.once THEN c.more ELSE c.load.more])
  /\ UNCHANGED <<rows, live, sends, missed, gaps, todo>>

\* loadOlder, before the first message that is shown as sent.
OlderRead(t) ==
  LET first == {i \in DOMAIN rows : chat[t].entry[rows[i]] = "sent"} IN
  /\ Mounted(t) /\ Signed(t) /\ hook[t].key # 0 /\ chat[t].more /\ chat[t].older.pc = "none"
  /\ Does("older", t)
  /\ ChatIs(t, [chat[t] EXCEPT !.older =
                  PageBefore(IF first = {} THEN Len(rows) + 1 ELSE Min(first))])
  /\ UNCHANGED <<rows, live, sends, missed, gaps>>

OlderDone(t) ==
  LET c == chat[t] IN
  /\ c.older.pc = "got"
  /\ ChatIs(t, [Merged(c, c.older.got) EXCEPT !.older = NoPage, !.more = c.older.more])
  /\ UNCHANGED <<rows, live, sends, missed, gaps, todo>>

ChatTab(t) == LoadRead(t) \/ LoadDone(t) \/ OlderDone(t) \/ \E m \in Messages : HearChat(t, m)

-----------------------------------------------------------------------------
(* chat:send and sendMessage.                                              *)

At(m, i, how) == sends' = [sends EXCEPT ![m].at[i] = how]

\* Refused unless the socket has joined, or too many are sent.
SendCheck(m, i) ==
  LET t == SenderOf[m] IN
  /\ sends[m].at[i] = "sent"
  /\ LET joined == t \in channel /\ tab[t].join \in {"ask", "none"} IN
     \/ joined /\ At(m, i, "find")
     \/ ~joined /\ tab[t].join # "offline" /\ At(m, i, "error")
     \/ <<"flood", m>> \in todo /\ At(m, i, "error")
  /\ UNCHANGED <<rows, chat, live, missed, gaps, todo>>

\* A retried message is found, and told again.
SendFind(m, i) ==
  /\ sends[m].at[i] = "find"
  /\ At(m, i, IF m \in Posted THEN "emit" ELSE "create")
  /\ gaps' = IF m \in Posted THEN gaps \union {t \in Tabs : Present(t) /\ m \notin Known(t)} ELSE gaps
  /\ UNCHANGED <<rows, chat, live, missed, todo>>

\* Of two attempts that found nothing, the second violates the primary key.
SendCreate(m, i) ==
  /\ sends[m].at[i] = "create"
  /\ IF m \in Posted THEN At(m, i, "error") /\ UNCHANGED <<rows, missed>>
     ELSE /\ At(m, i, "emit")
          /\ rows' = Append(rows, m)
          /\ missed' = [t \in Tabs |-> IF Mounted(t) /\ t \notin channel THEN missed[t] \union {m} ELSE missed[t]]
  /\ UNCHANGED <<chat, live, gaps, todo>>

\* To all but the socket it came from.
SendEmit(m, i) ==
  /\ sends[m].at[i] = "emit"
  /\ At(m, i, "ok")
  /\ live' = live \union ((channel \ IF i > sends[m].cut THEN {SenderOf[m]} ELSE {}) \X {m})
  /\ UNCHANGED <<rows, chat, missed, gaps, todo>>

ChatServer(m) ==
  \E i \in 1 .. Tries : SendCheck(m, i) \/ SendFind(m, i) \/ SendCreate(m, i) \/ SendEmit(m, i)

ChatNext ==
  \/ \E t \in Tabs : ChatTab(t) \/ OlderRead(t)
  \/ \E m \in Messages : Send(m) \/ Retry(m) \/ Acked(m) \/ GiveUp(m) \/ ChatServer(m)

-----------------------------------------------------------------------------
\* In the call, with the key, and nothing about the chat is on its way.
ChatRests(t) ==
  /\ Mounted(t) /\ Signed(t) /\ t \in channel /\ tab[t].join = "none" /\ hook[t].key # 0
  /\ chat[t].load = NoPage /\ chat[t].older = NoPage
  /\ Coming(t) = {}

\* From the first message on that a tab shows, it shows every one: none falls
\* between the history it loads and what it hears.
Gapless(t) ==
  \A i, j \in DOMAIN rows :
    i < j /\ chat[t].entry[rows[i]] = "sent" => chat[t].entry[rows[j]] # "none"

\* Joining, getting the key late, losing the connection and loading older pages
\* leave no gap in the chat, unless the tab missed more than a page, or was told
\* of a message of another time (`gaps'); and what it has not shown yet it can
\* still load.
Complete ==
  \A t \in Tabs : ChatRests(t) /\ t \notin gaps /\ missed[t] \subseteq LastPage.got =>
    /\ Gapless(t)
    /\ chat[t].more \/ \A m \in Posted : chat[t].entry[m] # "none"
=============================================================================
