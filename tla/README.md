# Confluence: a TLA+ model of the meeting server and its clients

Confluence is a video-meeting application: an Express and Socket.IO API
(`src/apps/api`) over PostgreSQL (Prisma) and Redis, a React client
(`src/apps/web`), and two shared packages. This directory holds TLA+ modules
translated from its source, configurations that model-check them with TLC, and
theorems about them checked with TLAPS. Paths below are relative to `src/`.

## 1. The system and what is hard about it

| Component | State it keeps | Operations | Hard behaviour | What makes it correct |
|---|---|---|---|---|
| Presence store `apps/api/src/modules/rooms/presence.ts` | Redis, per room: sorted set `beats` (user, last heartbeat), hash `peers` (user, participant), common expiry; global set of rooms | Lua scripts JOIN, LEAVE, HEARTBEAT, SWEEP, MEDIA; MULTI in `clearRoom` | several processes race; a process dies with seats taken; keys expire by themselves | the two keys agree; never over capacity; ghosts go; an entry is stale before its keys expire |
| Screen lock `rooms/screen-lock.ts` | Redis: one socket id per room | CLAIM, RELEASE, clear | claims race with releases meant for others | one presenter; a slot does not pass straight to a rival |
| Room gateway `rooms/room.gateway.ts` | `socket.data.roomSlug`, Socket.IO channels, heartbeat and sweep timers | join, leave, disconnecting, `room-ended` | handlers of a socket overlap at each `await`; displacement across processes; disconnect inside a join; end of the meeting inside a join | a registered socket hears the room and holds the seat; a seat is not lost to another's cleanup; ended rooms empty |
| Screen gateway `rtc/screen.gateway.ts` | none of its own | claim, release | seat checked before the script | the presenter holds the slot |
| Tab `apps/web/src/hooks/useRoom.ts`, `useCall.ts` | page, status, presenting | join, retry, leave, unmount, share | the answer overtaken by a displacement; ten-second timeouts | shown state agrees with the seat |
| Rooms service `rooms/rooms.service.ts` | Room, RoomMember rows | create, admit, lock, end | check at the HTTP layer, use at the socket | as above; memberships unique |
| Whiteboard server `board/board.service.ts`, `board.gateway.ts` | `Room.boardSeq`, `WhiteboardOp` rows | add, remove, clear, snapshot, broadcast | racing transactions, cap, broadcast after commit | each change is atomic, numbered without a gap; compaction loses nothing |
| Whiteboard session `apps/web/src/lib/board/session.ts` | elements, buffer, decrypt queue, undo/redo, lastClearSeq | load, retry, apply, add, erase, clear, undo, redo | optimistic changes against the server's order; load against live changes; slow crypto; timeouts | sessions converge to the stored board |
| Signaling relay, mesh `rtc/signaling.gateway.ts`, `lib/media/mesh-transport.ts` | peer connections | relay, negotiate | glare, lost or stale messages | negotiation settles; only seated people relay |
| Chat `chat/*`, `hooks/useChat.ts` | Message rows, pages | send, history | retries of a stored message; a page against live messages | each message once, in one order |
| Room keys `keys/keys.service.ts`, `hooks/useRoomKey.ts` | key version, grants | create, grant, reset | two creators; a grant of an old version | one key per version; nobody waits for ever while a holder is present |
| Files `files/files.service.ts`, `files.purge.ts` | File rows, objects | create, complete, delete, purge | two stores without a transaction; two purgers | no complete row without an object |
| Sessions `auth/session.service.ts` | refresh tokens by family | login, rotate, revoke | concurrent refreshes, reuse | reuse ends the family; one live token |
| Gestures `web/src/hooks/useBoard.ts`, `components/board/Whiteboard.tsx` | gesture, drafts, cursors | draw, erase, type, relay, prune | drafts against changes; encryption outlasting a gesture | nobody sees an element twice; drafts go |
| Media and transfers `web/src/lib/media`, `hooks/useCall.ts`, `components/call/Lobby.tsx`, `lib/files` | preview, tracks, senders, chunks | preview, switch, present, send, accept, cancel | a device that answers late; channels that close | the right picture is sent; nothing captured outside a lobby or call; a file arrives whole or not |
| Rate limiting `lib/rate-limiter.ts`, `realtime/socket-limiter.ts` | window counters, token buckets | take | boundaries | bounded admissions |

Styling, mail, TURN credentials, health probes, configuration,
validation schemas and the libsodium wrappers keep no protocol state and are
not modelled; `PROJECT.json` lists every component with its status.

How the parts interact. A tab's Socket.IO events (`room:join`, `screen:claim`,
`board:add`, ...) start asynchronous handlers in the process its socket is
connected to. The gateways call the Redis scripts and services and broadcast
through the Redis adapter to every process. `socket.data.roomSlug`, which only
`room:join` and the departures write, is what all other gateways authorise by.
Two timers per process refresh (heartbeat) and prune (sweep) presence.
`rooms.service` ends a meeting and tells the gateway through an in-process event.
The whiteboard, chat and key sessions of a tab exist while it has joined and, for
the encrypted ones, while it holds the room key.

## 2. Modules

    Presence <- ScreenLock <- RoomGateway              Sessions <- Accounts
                                  \_ GatewayProofs         (INSTANCE SessionLife)
                                                             \_ SessionProofs
    Board <- BoardTx                                   RoomKeys <- Chat      \
       \  \_ BoardProofs <- BoardTxProofs                 \_ RoomFiles  ------- RoomContent <- ContentProofs
        \_ Whiteboard <- Canvas <- CanvasProofs        Mesh <- Tracks <- Lobby \
    Strokes (with Canvas in MCCanvas)                     \_ Transfers -------- Call <- CallProofs
                                                       Roster <- RosterProofs

    MCPresence, MCGateway, MCBoardTx, MCWhiteboard, MCCanvas,
    MCAccounts, MCRoomContent, MCCall, MCMeeting

An arrow points at the module that is extended. The `MC` modules give constants
their values; what they call situations, scripts or scopes are sets of initial
states that say who is where at first and what people and the network *may* do.

**Presence** is the specification of Redis's presence keys. A Lua script is one
action. A heartbeat is an age in clock ticks, saturating at `StaleAge`
(`staleMs`), because the scripts compare nothing else; `ttl` is the common expiry
of the room's two keys (`KeyTtl`, four times `staleMs`). `Tick` is the clock,
together with Redis's expiry.

**ScreenLock** adds the key of the presenter's slot. `StoreSpec`, presence and
slot together with any script at any time, is the *abstract* specification of
Redis that the gateway must implement.

**RoomGateway** is the *detailed* one: each handler invocation is a task that goes
from `await` to `await`. A task's `pc` says what it is about to do, and tasks of
all sockets interleave, with the sweepers, the heartbeats and `onEnded`, and with
the tabs. What the source guarantees about order is kept: the synchronous head of
a socket's handlers runs in order of arrival, and commands that one socket's
handlers have sent to Redis are executed in the order sent (one connection per
process). Nothing is assumed between sockets. `Faults` selects what may happen in
a run:

| Fault | Meaning |
|---|---|
| `crash`, `disconnect` | a process dies between any two steps, with its sockets and tasks; a socket drops at any `await` |
| `unmount`, `timeout` | the page closes before the answer; `emitWithAck` gives up after ten seconds |
| `refuse` | the rate limit or `admit` refuses |
| `end` | the host ends the meeting |
| `time` | the clock advances (without it all entries stay fresh) |
| `stall` | a join takes longer than `staleMs` between seat and registration |
| `overtake` | a tab that was put out of a room joins again while handlers that put it out still run |

Two assumptions about time are built into `TimePasses`, and follow from the
intervals in `server.ts:110-115` and `presence.ts:26-33`. A tick is one heartbeat
interval, so every running process beats once in each. And the sweeper, which
comes every fifteen seconds, visits a room with stale entries before the room's
keys, which outlive the staleness threshold by ninety seconds, expire. What a
crashed process had still to free is remembered by the model alone
(`freeing` of a dead process): no process of the code knows it, and only the next
claim gets the slot back.

**Roster** is the same meeting seen from the tabs: what `useRoom` shows of
participants, presenter and lock against Redis and Postgres. It keeps less of the
handlers' order than RoomGateway and more of what they send: every broadcast
reaches the tabs of its own process at once and those of the other through one
FIFO each way, which is what Redis' publish and subscribe amount to with two
processes. An answer of Redis takes one hop and so precedes what takes three; two
messages published in one go arrive in one go. JOIN's own pruning of stale
entries is a sweep just before it, the cap is left to RoomGateway, and lock
requests come one at a time. `crossed` is a history variable: it notes which of
the races of section 4 has happened, and to whom.

**Board** is the atomic whiteboard: one change, one number, one step; `log`
is a history variable that the service forgets. **BoardTx** is the same service
query by query under PostgreSQL's READ COMMITTED, with the row lock that
`UPDATE ... SET "boardSeq" = "boardSeq" + 1` takes; it implements Board.
**Whiteboard** puts the sessions on top of Board: the snapshot, the buffer while
loading, the decrypt queue, optimistic adds and erasures, undo, acknowledgements,
refusals. An element is kept as the number shown for it, since the canvas never
changes an element's content under its id. **Canvas** adds what is never stored:
the pointer handlers, the drafts and cursors they send, their relay, and when a
viewer shows and prunes them. **Strokes** is the arithmetic at the end of a
gesture: simplifying the samples of a pen, cutting them into elements of at most
`MaxPoints` points, and what the eraser touches, over integer points and with
exact squares of distances where the code rounds; ellipses and the box of a text
are left out. A member of `Scopes` says what may happen in a situation (`scope.may`):

| Kind | Meaning |
|---|---|
| `rejoin` | a new connection: the session is closed and a fresh one loads, what was in flight is answered to nobody |
| `fail` | the snapshot request fails, and may be retried |
| `undo` | members undo and redo |
| `refuse` | any change may be refused (rate limit, no seat) |
| `timeout` | the client gives up on a change that the server goes on with |
| `seal`, `decrypt` | encryption outlasts the next gesture, decryption the next message |
| `lag` | a change that is in the snapshot arrives after the load |
| `overlap` | two changes of one socket are stored in either order |
| `reorder` | changes are broadcast in an order other than that of their numbers |
| `gesture` | members draw with drafts and cursors |

The choice of colours and shapes and `unseen` are left out. A client times out
before the server announces the change; an answer that crosses the timeout on the
wire is not distinguished.

**SessionLife** is what a session promises: its refresh tokens are numbered, used
one after the other, one good at a time, and an ended session stays ended.
**Sessions** is the code of it, from the rows of PostgreSQL to the tabs: rotation
with reuse detection and the grace period, revocation as the two steps an UPDATE
takes under READ COMMITTED (the rows it sees, the rows it locks and changes), the
marker in Redis that refuses access tokens, the socket's handshake, and in the
browser the one refresh at a time per tab and, by a Web Lock, per browser.
Periods are kept as what is left of them. **Accounts** puts registration, links,
sign-in with its failure window and password resets on top, each request await by
await, each transaction split where another can come between.

**RoomKeys** is how members come by the room's end-to-end key: key pairs, sealed
copies, creating and replacing the key, granting it to those who ask, and password
resets that drop copies. Wrapping is a pair <<key, key pair that opens it>>.
**Chat** and **RoomFiles** are two panels of a tab that follow the key (`Follow`): a message is
sent, stored, resent and listed in pages; a file is a row and an object, uploaded,
completed, deleted, expired and purged without a transaction over the two.
**RoomContent** puts the three together, since one reconnect makes all of them reload, and so does
every key that `resolve` brings, even the same once more (`NewKey`): a `Uint8Array` is new each time
it is opened, and the panels' effects depend on it.

**Mesh** is perfect negotiation over the server's relay: links, sessions,
rebuilding, resending, the task queue of each peer, the inbox. `RTCPeerConnection`
is external: two connections reach each other when each has the description, with its
present credentials, of the other, and one of them the candidates. A connection
that is given a stranger's description stops the model (`strange`), since what a browser
makes of it is not specified. **Tracks** is the camera, its switches and the
presented screen, and which track each connection sends. **Lobby** is the page before
the call: it asks for the default camera once the room has turned out to exist, lets another be tried, and
hands the one shown over to Tracks as the camera the call will ask for. **Transfers** is files in
chunks over data channels. **Call** composes them: a mesh step is one step with
what tracks, lobby and transfers make of it.

Every mutant operator (marked `(Mutant: ...)`, next to the definition it
would replace) is used by no specification: it records a bug that the
properties of a run detect.

## 3. Runs

All bounds are constants of the configurations. Deadlock checking is off
throughout: people may do nothing more, and bounded runs use up what may happen.

| Run (configuration) | Instance | Question |
|---|---|---|
| `presence` (MCPresence) | 3 people, one with 2 tabs, 2 seats, `StaleAge` 2, `KeyTtl` 8; the clock fair | `SeatsBeat`: do the two keys agree; `Capacity`: is the room ever over-full; `AbandonedRoomsExpire`: does Redis alone clear what nobody refreshes |
| `gateway_tabs` (MCGatewayTabs) | 2 tabs of one person, 1 of another, 2 processes, 2 handlers per socket | `HearersSeated`: at rest, has everybody who hears a room a seat in it; `StoreSpec`: does the gateway implement the store; `SlotNotStolen`: does a slot ever pass straight to a rival |
| `gateway_rooms` (MCGatewayRooms) | 2 tabs, 2 rooms; refuse, unmount, timeout; one handler at a time | `OneRoomPerSocket` |
| `gateway_crash` (MCGatewayCrash) | 2 people, 2 processes; crash, disconnect, time | `SeatedIn`: is a seat somebody's; `SeatKept`: does another's cleanup take it; `GhostsGo`, `SlotFreed`: do seats and slots of the dead go |
| `gateway_end` (MCGatewayEnd) | 2 people, 1 seat; end, stall, time | `PresenterHoldsSlot`, `EndedShut` |
| `meeting` (MCMeeting) | 3 tabs of 2 people, 2 processes, 15 situations | at rest, `RosterTrue`, `SharerTrue`, `LockShown`, `InOnce`: is what a tab shows what the server holds |
| `accounts` (MCAccounts) | 3 tabs in 2 browsers, 2 requests, 12 scripts | `LifeSpec`; `ReuseMeansLost`: is anybody signed out for reuse without a lost answer; `SocketsClosed`: does a revocation reach every socket; `RefreshEnds`: does every refresh end and free the lock |
| `room_content` (MCRoomContent) | 3 tabs of 2 people, 16 situations | `KeysAgree`, `GrantedOnceAsked`; `Complete`: does the chat miss or repeat a message; `OrphansExplained`, `ListTrue`, `PurgeGetsPast`: do rows, objects and lists agree |
| `call` (MCCall) | 2 tabs, 21 situations, 7 connections, 2 resends | `Connects`; `RightPicture`; `NothingCaptured` outside a lobby or call; `ArrivesWhole`, `TransfersEnd` |
| `board_tx` (MCBoardTx) | 2 calls, 2 ids, room for 1 element, 3 changes | `RowsAreLog`, `ImplementsBoard` |
| `whiteboard` (MCWhiteboard) | host and member, 2 ids, room for 1 element, 3 changes; rejoin | `Convergence`, `PendingResolves` |
| `canvas` (MCCanvas) | host and member, 7 situations; 4-point elements and strokes on a grid | `DraftReplaced`, `DraftsGo`, `BoardSpec` with every fault at once, `StrokeWhole` |

Why these bounds are enough. Two or three people suffice for the store: a race
needs two, and a third seat-taker shows the cap. `StaleAge = 2` separates fresh,
ageing and stale; `KeyTtl` is four times that, as in the code, except in
`gateway_crash` and `gateway_end`, where twice leaves the sweeper a tick more than
it needs. Two sockets of one person on two processes show displacement; its races
need a displaced tab, a displacing one and a bystander, each with one more
handler behind it. One seat makes two people meet in the full room, two seats
let one clean up after the other. Three changes of a board are an add, its removal
or clearing, and one more that races with both; room for one element makes the cap
refuse without the `refuse` fault. In the situation runs every operation happens
at most once in a situation, in any order and at any moment: a situation puts
together the three or four operations that touch the same state. Two sign-ins are a
session and the one that outlives it; two requests besides the tabs' own are two
revocations that race. Two tabs make one link, which is all that a pair of peers
shares; three tabs make a person with two. `MaxMade` 7 lets each of them rebuild a link more
often than the resends last. Any four samples of a pen on a 3 by 3 grid are
all the turns and repetitions a simplified stroke can have between two kept points,
and the zigzag of ten points fills three elements.

What holds only without certain faults is said by the choice of faults.
`OneRoomPerSocket` holds while a person's next join waits for the handlers of the
last, and not with `overtake`; `HearersSeated` speaks of a world without crashes,
since a displaced tab hears the room for as long as the process that was to put it
out is dead; `Convergence` holds for members that reconnect, load and
race, and not with slow decryption, late changes, reordering or undo by two
members. Section 4 says how each of them breaks it. The properties of `meeting`,
`room_content` and `call` name the crossings after which they do not hold, in
history variables (`excused`, `unsure`, `missed`, `gaps`, `muddled`, `strange` and the like)
that say what happened and not what should follow.

### Fairness

- `AbandonedPresenceSpec`: only the clock goes on, as when every process is dead.
- `RoomGateway.FairSpec`: an awaited call comes back (Redis and PostgreSQL
  answer), the timers of a *running* process fire and the frees they start finish
  one by one, and time passes; the clock is strongly fair because the model makes
  it wait for handlers in flight (unless `stall` is on) and new handlers keep
  starting. Nothing is assumed of people, crashes or disconnects. `EndedShut` needs
  no fairness at all.
- `Whiteboard.FairSpec`: what a member asks for is sealed, stored or refused and
  announced, and what a socket brings is applied; members need not draw anything, nor
  loads finish. `PendingResolves` is not claimed with `refuse` or `timeout`: putting back a
  refused erase can restore an element as it was before its acknowledgement.
- `CanvasFairness`: frames are sealed, relayed and opened, the pruning timer fires.
- `Sessions.Fairness` (`AccountsFair`): event loops, the network and the database
  get done what a tab or a revocation began; nobody has to begin anything.
- `RoomContent.Fairness`: likewise for handlers, grants, tabs and purges, and the
  purge's lock expires.
- `Call.FairSpec`: everything goes on except what a script only allows
  (`UNCHANGED todo`). A channel that closes tells both ends, which the code relies
  on when a paused sender waits for it.
- Roster states no fairness: its properties are about states where nothing is
  under way.

## 4. Where the code and its documents part

No run is kept only to be violated. The models contain all of the following, and
the properties are stated so as to allow exactly that. Each item was met as a counterexample
or while translating.

Seats, slots and tabs:

- `room.gateway.ts:115` says one room per socket. `socket.data.roomSlug` is read
  before five awaits and set after them (`:166`), and `useRoom` sends `room:leave` only for
  an acknowledged join (`useRoom.ts:193`): when a tab opens one room, leaves before the
  answer and opens another, both handlers find it unset, and the socket is seated twice.
  `OneRoomPerSocket` holds without `overtake`. It speaks of running processes: one that dies in the
  middle of a move leaves ghosts in both rooms until they are swept.
- A displacement that reaches a tab before its own join's answer is overwritten by it
  (`useRoom.ts:78`), and two tabs show themselves joined; `RoomPage.tsx:132` says one
  can only be in a meeting once.
- `screen:claim` checks the seat, then awaits a script that does not
  (`screen.gateway.ts:26`): the slot may go to a socket that has just left, until the next claim;
  `room.gateway.ts:58` says the slot never outlives the presenter.
- A join admitted before the end takes its seat after the cleanup
  (`room.gateway.ts:139`); `presence.integration.test.ts:180` says later joins are
  refused. `EndedShut` is what does hold.
- With `overtake`, a displacing join's late release (`room.gateway.ts:161`) frees
  the slot that the displaced tab has meanwhile claimed again; `SECURITY.md:295` says
  nobody can end someone else's presentation.
- A displacing process that dies between taking the seat and telling the other tab leaves
  that tab hearing a room it has no seat in.
- With `unmount` or `timeout` and two tabs of a person, a re-opened page can be put out
  by the end of its own old join, while it is seated.
- In the roster: a join that is still announced after its displacement brings the
  old peer back; screen broadcasts of two processes cross; the lock an entering tab is shown is
  that of its admission; `currentSharer` reads slot and seat one after the other; a displaced tab whose
  connection blips joins again and takes the meeting back; a leave is overtaken by the
  rejoin on the same socket. A displacement that arrives when its tab is already joining again
  on the same socket (`room.gateway.ts:154`) leaves it seated and showing the meeting, but out of the
  channel; and when the process that stored a lock dies before it says so, no tab learns of it.

Whiteboard:

- `board:op` follows the commit, unordered between sockets (`board.gateway.ts:40`);
  `ARCHITECTURE.md:366` says everyone receives it in server order.
- `board.service.ts:51` has a client apply the snapshot and then any op with a higher number;
  the session compares numbers only for ops that arrived before the load
  (`session.ts:205`), so a change that is in the snapshot and arrives after it is applied again.
- `session.ts:180` says changes are applied strictly one after another; the
  acknowledgement of one's own clear is applied at once, past the decrypt queue.
- A removal is applied whatever the number of the element it takes away
  (`session.ts:234`), so that one crossing an undo hides the restored element from its author alone.
- An erase that is refused or times out puts its elements back even if it was
  stored, or somebody else removed them meanwhile, and they stay until the next load.
- An erase sent while the add of the same element is still being encrypted reaches
  the server first: the element is stored and its author does not see it.
- A gesture or text carried into a session that is loading is not shown to its author
  (`useBoard.ts:8` says it is); a draft over a loaded element stays until it is pruned;
  a second pointer overwrites an open gesture; an eraser begun during one leaves it open.
- A stroke whose points exactly fill an element is followed by a one-point piece, and
  the pieces of a long stroke are erased and undone one by one.

Accounts: a sign-in that read the row before a password reset and issues its session after it
survives the reset (`auth.service.ts:183`, `:316`); the rehash of an old password can
overwrite a new one (`:205`); a refresh that fails clears a cookie that another
tab has just received (`auth.router.ts:179`).

Content: a chat that missed more than a page keeps a gap. A message that is
resent after it was stored is broadcast once more (`chat.gateway.ts:26`): a tab that came
meanwhile and has not loaded so far back shows it with a gap behind it for good, since older
pages are loaded from before the first message shown (`useChat.ts:120`). Who sends a message, loses the connection and comes back
before it is stored does not hear it, if it left the page in between. Files lists are not loaded again
after a reconnect, a list that loads late replaces what live events changed, and an event's lookup re-adds
a file deleted meanwhile; a cancel during the creation of the row is ignored; an object that could not
be deleted is orphaned with its row (`files.service.ts:147`); the purge deletes
its lock without owning it, a batch of stuck files holds up later ones, and a file completed late is
purged without an event; a newcomer may wait for the key although a holder was present when it asked
(`ARCHITECTURE.md:302`).

Calls: a mesh session belongs to the transport and not to the link, so the answer to an old
offer, or a stranger's description, can be applied to a new connection after a rejoin
(`mesh-transport.ts:254`); a queued task rebuilds a link to a peer that left; offers are
resent at most `OFFER_RESENDS` times. A camera acquired late is published over the
presented screen; a picker or switch that returns after the page closed keeps capturing;
overlapping switches leak one camera, and so does one in the lobby that comes when the lobby has
been left (`Lobby.tsx:121`; `:107` says the preview never outlives it). A transfer cancelled while it is checked becomes complete, or
deletes the next one's data; a channel replaced by a new one leaves its receiver waiting.

## 5. Proofs

TLC shows a property for the small instances above; the theorems hold for all
values of the constants under the modules' named assumptions (each module's
`...Assumption`, evaluated by TLC on the runs).

**GatewayProofs** begins with the presence store, whose properties are not inductive one by
one: the cap counts `beats` while the seats are in `peers`, and a heartbeat keeps
the keys alive only if the room is indexed. `PresenceInv` is their
conjunction room by room with the types. `PresenceStep` shows that each script
and the clock preserve it. From it follow `TypeCorrect`, `KeysAgree` (`SeatsBeat`),
`NeverOverfull` (`Capacity`), and two facts no run states: every room with an
entry is in the sweeper's set (`AlwaysSwept`) and an entry is stale before its keys
expire (`StaleBeforeExpiry`).

Then the gateway: `TypeOK` is inductive (`GatewayStep`, one lemma per group of
actions; tasks in a queue, and so what is passed to the scripts, are of the right
kind), and with it every step of the gateway is a step of `StoreNext` or leaves
Redis alone: `GatewayImplementsStore`. Through this refinement the gateway
inherits `Capacity` and `SeatsBeat` (`GatewayNeverOverfull`, `GatewayKeysAgree`),
and `GatewayNeverStealsSlot` proves the action property `SlotNotStolen`. All of it for any number of
tabs, processes, rooms and handlers in flight, and for all faults.

Its second half proves the gateway's invariants about tabs. Most speak of a
world at rest, and none is inductive: what a socket's queue still holds is what
accounts for the difference between seat, channel, registration and page. The
first lemmas say where the tasks of a queue come from in a step (`TaskFrom`, the
`Turning` lemmas) and what a step can make of presence (`Taking`, `Losing`). The
inductive invariants built on it:

- `MoveInv`: what tasks of each kind carry (`Shapes`), nothing of sockets that are
  gone (`Gone`), at most one task that moves a socket between rooms (`OneMove`), none
  for a tab that shows itself joined (`Settled`), what a join past its admission has established
  (`PastAdmission`), and `Accounted`: every seat of a socket is in its room, or in the
  room that the one moving task is entering or leaving. It gives `OneRoomEach`.
- with `Away` and `Beats`, that a seat's owner has not lost it to anybody
  else's cleanup: `SeatsKept`.
- with `Hears`, that who hears a room sits in it or is about to be put out of it:
  `HearersHaveSeats`.
- `SeatInv` (`OwnSeats`, `Unspoken`, `Asked`, `Known`): who may act on a seat is its own
  socket alone, and what the tab believes follows it: `SeatsAreSomebodys`.
- `SlotInv` on top of it: a socket's claims and releases reach Redis in turn (`InTurn`), a
  tab that presents is joined and has nothing in flight (`Sharing`), and what it waits for the slot
  of is the room it shows (`Wanted`). Nobody whose release is still to come can then
  be seated and presenting (`SlotKept`): `PresentersKeepSlot`.

Section 4 says what goes wrong without most of their hypotheses on `Faults`: `OneRoomEach` assumes no `overtake`; `SeatsKept` moreover no `stall` and
`StaleAge > 1` (a heartbeat may be one tick old); `HearersHaveSeats` moreover no `crash`;
`SeatsAreSomebodys` and `PresentersKeepSlot` no `overtake`, `unmount` or `timeout`.

**BoardProofs.** `BoardInv` is the types, `RowsAreLog` and `BoardCap`. Its heart is
`ChangeKeepsLog`: appending a change moves the last touch of exactly the ids it names.
`CompactionLossless` and `NeverTooMany` follow.

**BoardTxProofs.** `TxInv` adds to `BoardInv` that calls are well formed and
`LockedReads`: a call with a number holds the lock, so nobody else's commit can
invalidate what it read. Hence a commit is one atomic change (`CommitIsChange`),
every other step stutters, and `TxImplementsBoard`, `ReadsStayTrue` and `TxKeepsBoard` follow.

**CanvasProofs.** `CanvasTypes` is inductive over every action of the sessions, the
wire and the canvas; with it each stored change is one of Board's (`CanvasImplementsBoard`, in
every situation and for any bounds). The sessions apply lists of changes with the
recursive function `AllApplied`; the lemmas at the top of the module (`Least`, `Steps`,
`Recursion`) show, by the least length at which it would fail, that such a function has
a value of its type at every length. `CanvasInv` adds `DraftReplaced` to the types, and
`CanvasStep` that every action keeps it: a frame for an element that is shown adds no
draft (`FramesKeep`), and a change of another that brings an element takes its draft off in
the same step (`AppliedKeeps`). `NobodySeesTwice` follows.

**SessionProofs.** `SessionsTyped` is the types of all three layers. `SessionsLive`
is the refinement of `SessionLife`: the inductive invariant `LifeInv` is the types,
`InOrder` (the rows of a session form one line of which only the last may be good),
`AllIssued` (whatever a browser, request or rotation carries was issued) and
`Locked` (the browser's refreshes queue for its lock).

In the second half, `ReuseNeedsLoss`: for a session none of whose answers was lost, what a browser holds
is its last token or the next one is on its way (`LastHeld`), only one browser has it (`OneBrowser`), and so
a revocation for reuse is of a session that lost one (`ReuseOfLost`). `RevocationCloses`: the
channel of a revoked session is closed only after its marker is set (`Waiting`, `Revoking`), the
marker outlives every access token of the session (`Outlived`), so that a socket is
refused or authenticated before (`Overtaken`), and every socket and
token has its session (`HasSession`). `SocketsClosed` excludes two kinds of sockets on purpose:
those authenticated before the marker that join the channel after it is closed, and
those of a session that rotated while the revocation was reading its rows.

**CallProofs.** `CallInv` is the types of mesh, tracks and lobby, and two parts that a replaced track connects.
`LinksInv`: the last of the replacements that a connection has still to make (`Final`) is the track its
tab published last (`Fits`), and before it has transceivers it has none to make. `TabsInv`: the picture published is that of
the moment (the screen while one is presented, the camera otherwise), what is captured is what is shown or
published, one switch is under way at a time, and a lobby that was left waits only for what comes late.
Both speak of tabs that are not `muddled`, which notes each of the crossings of section 4, and only those, where
they happen. A mesh step is proved against what it may do to a link at all, so that glare, rebuilding
and resending need not be told apart. `CallHolds` is the invariant; `CallPicturesRight` (`RightPicture`) and
`NothingStaysOn` (`NothingCaptured`) follow, for any number of tabs, connections and cameras.

**ContentProofs.** `KeysOfTheRoom`: that the tabs in a call agree (`KeysAgree`) is the end of a chain of things read earlier
and used later, and the inductive invariant `KeysInv` has one part for each link. A call of
`resolve` carries the fingerprint, the sealed copy and the count it read (`CallsOk`), a pass
of `grantPending` the key it was started with and the person it has chosen (`GrantsOk`), the
page its key (`HooksOk`), the key store its pair (`StoresOk`), the room its copies
(`CopiesOk`). What keeps them together is that the key of the fingerprint is in some copy unless one was dropped
(`CheckKept`), so that a count of none allows it to be replaced, and that whoever writes is a member (`PagesOk`).
Until somebody resets a password nothing is dropped (`DropsLast`), every pair is its
owner's only one, and no call clears a copy; `Grow` says what a step may do to the
database, and the `...Carried` lemmas that a link survives it. `ObjectsHaveRows`: a row that is gone had
its object away for good (`RowsOk`), which a deletion and a pass of the purge must know
before they delete the row (`DeletesOk`, `PassesOk`). `Stays` says that a file once away stays
away, and is what lets them rely on what they did a query earlier. The situations are assumed
to start consistent: who holds the key is a member with a key pair, who is in the call
holds it (`ScriptsAssumption`), and what is stored is a file (`FilesAssumption`).

`ListsAreLive` is about a list and the moments at which it is stale. `ListInv` says
of a file what `unsure` must have noted when it is gone, of an upload where its row is (`GoneOk`, `JobOk`), and of a
tab and a file what is still to be told (`SeenOk`): an event on its way to the tab, or a request that
is about to send one. `ViewOk` closes the circle: a panel shows a file, or an event or the list that was read will make it, exactly if
the file is there. A panel without a key or a call is empty and reads nothing (`TabOk`, `PanelOff`), and a
pass of the purge believes a file expired only if it is (`ExpiryOk`).

`NothingIsLeftOut` is about order. What a tab *knows* is what it shows, what is on its way to it or in a page it
has been sent, and what `missed` says it lacks; `ChatInv` says that whatever was stored after a message the
tab knows it knows too (`WholeOk`), and everything that was stored once it says that there is no more. A page read for a
newcomer has what was stored last, a page before the first message shown has all that was stored between
its own first and that one, and a broadcast reaches every tab in the channel, where a tab is from its seat on (`SeatOk`); a
member's own messages, which are not broadcast to it, are shown since they were sent (`OwnOk`).
`ChatTypes` includes that no message is stored twice, `SendOk` that only stored ones are told, and
`ReadOk` that `missed` is empty once a page that covers it is read. `TabsMove` is what the steps of RoomKeys may do to
a tab as far as the chat sees it. The exceptions of section 4 are `missed` beyond a page, and `gaps`.

**RosterProofs** proves `InAMeetingOnce` (`InOnce`) and `TheLockIsShown` (`LockShown`) for any number of
tabs, people, processes and connections, any number of broadcasts under way and any situation. Both speak of a meeting at
rest; `RosterInv` says what holds before:

- `SocketsInv`: a tab that shows the meeting by an answer to an older connection awaits one to its present
  connection, and nothing awaits an answer for a page that is not there. At rest every tab is therefore `Fresh`.
- `ShownInv`: a join past its subscription hears the room, one past its seat is in it, and a tab
  that shows the meeting has its person's seat, or a displacement is on its way to it (`PutOut`). `BatchOk` is why whoever is
  taken out of the channel is told so too: the displacement, or the end, travels with the order to leave it.
- `LockInv`: requests to lock, what is stored and what is being announced agree, and a tab that shows
  the other value is still to be told (`LockOk`).

Each message of a batch meets what the one before left. What a tab shows after a batch (`After`) is a recursive
function, and `AfterIs` says, by the first message for which it would fail, only what these invariants need of it: a displacement or the end puts the tab
out, an update is shown, nothing else touches either. There is one lemma per action, most of them instances of
`CalmStep` and `QuietStep`. Two attempts failed for a reason that lay in the model and not in
the proof: `Close` gave a page that had reconnected the number of its first connection, and `crossed` did not know the two races
at the end of the list in section 4; situations `Return`, `Gone` and `Silent` of the run are there since.

What stays with TLC, and why:

- Liveness: `AbandonedRoomsExpire`, `GhostsGo`, `SlotFreed`, `PendingResolves`,
  `DraftsGo`, `RefreshEnds`, `GrantedOnceAsked`, `PurgeGetsPast`, `ArrivesWhole`,
  `TransfersEnd`, `Connects` need fairness and ENABLED; `EndedShut` says that a room
  closes for good in the end, which takes a bound on what its handlers may still do.
- `Convergence` is true of the situations of its run and not of every scope, so that its invariant
  has to say what each fault breaks; it is not written.
- `StrokeWhole` speaks of what a recursive definition computes for every input.
- `RosterTrue` and `SharerTrue` compare all that a tab was told of people and of the presenter with the server. What a tab will
  show is a fold over the broadcasts in both directions of the bus and in its own channel, and, unlike for the lock,
  the last one does not decide it: an entry depends on which departures name its socket. The invariant would be about that
  fold.

## 6. What is not modelled, and the plan

Not modelled of the modelled components: failures of single Redis commands; the order of
shutdown; creating and listing rooms; announcements and layout; statistics, speaker
detection, mixing and quality; chat's unread count and the board's `unseen`;
download links and sniffing of files; message schemas and relay budgets; the
token bucket and the other rate windows; ellipses and text boxes under the eraser.
Mail, TURN credentials, health probes, HTTP middleware, validation schemas,
the libsodium wrappers, the database schema, deployment and the interface
keep no protocol state of their own.

What would come next: who is shown in the roster, over `RosterInv` and an account of
what each queue of broadcasts amounts to; and `Convergence` for the situations of its run, where the
canvas of a session differs from the board by what is under way alone.
