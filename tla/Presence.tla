------------------------------ MODULE Presence ------------------------------
(***************************************************************************)
(* Who is in which room, as kept in Redis by                               *)
(* apps/api/src/modules/rooms/presence.ts.  Per room two keys, the sorted  *)
(* set `beats' (user -> last heartbeat) and the hash `peers' (user ->      *)
(* participant), plus one global set `rooms' that the sweeper walks.       *)
(*                                                                         *)
(* Every mutation of the code is one Lua script (or MULTI), so each is one *)
(* action here.  A heartbeat is kept as its age in clock ticks, saturating *)
(* at StaleAge: the scripts only ever compare an age with that threshold.  *)
(* `ttl' is what is left of the PEXPIRE of the two keys of a room, which   *)
(* the scripts always set together.                                        *)
(***************************************************************************)
EXTENDS Integers, FiniteSets

CONSTANTS Users,        \* people
          Sockets,      \* socket ids; a socket is one tab's connection
          UserOf,       \* the user each socket authenticated as
          Rooms,        \* slugs
          Media,        \* mic/camera states
          MaxSeats,     \* room.maxParticipants
          StaleAge,     \* staleMs, in ticks
          KeyTtl,       \* staleMs * 4, in ticks
          NoEntry       \* HGET's nil

ASSUME UsersAssumption   == IsFiniteSet(Users)
ASSUME UserOfAssumption  == UserOf \in [Sockets -> Users]
ASSUME SeatsAssumption   == MaxSeats \in Nat \ {0}
ASSUME TimingAssumption  == StaleAge \in Nat \ {0} /\ KeyTtl \in Nat /\ KeyTtl > StaleAge
ASSUME NoEntryAssumption == NoEntry \notin [peer : Sockets, media : Media]

VARIABLES beats,        \* [room -> [user -> age of the last heartbeat, or NoBeat]]
          peers,        \* [room -> [user -> participant, or NoEntry]]
          rooms,        \* presence:rooms
          ttl           \* [room -> ticks until both keys of the room expire]

presenceVars == <<beats, peers, rooms, ttl>>

NoBeat == -1
Participant == [peer : Sockets, media : Media]

-----------------------------------------------------------------------------
(* Reading a room.                                                         *)

\* Members of the sorted set: ZCARD counts these.
Beating(r) == {u \in Users : beats[r][u] # NoBeat}

\* Members of the hash: HVALS lists these.
Listed(r) == {u \in Users : peers[r][u] # NoEntry}

\* The socket s holds its user's seat in room r.
Seated(r, s) == peers[r][UserOf[s]] # NoEntry /\ peers[r][UserOf[s]].peer = s

\* What `prune' removes: entries not refreshed for staleMs.
Expired(r) == {u \in Users : beats[r][u] >= StaleAge}
\* (Mutant: announces everyone listed.)
TimedOutAll(r) == {peers[r][u].peer : u \in Listed(r)}

\* The sockets whose departure the caller of a pruning script announces.
TimedOut(r) == {peers[r][u].peer : u \in Expired(r) \cap Listed(r)}

KeptBeats(r) == [u \in Users |-> IF u \in Expired(r) THEN NoBeat ELSE beats[r][u]]
\* (Mutant: prunes the sorted set only.)
KeptPeersAll(r) == peers[r]

KeptPeers(r) == [u \in Users |-> IF u \in Expired(r) THEN NoEntry ELSE peers[r][u]]

\* Redis deletes a sorted set or hash, and its expiry, with its last member.
TtlOf(r, b) == IF \A u \in Users : b[u] = NoBeat THEN 0 ELSE ttl[r]

-----------------------------------------------------------------------------
(* The scripts.                                                            *)
\* (Mutant: one seat too many.)
HasSeatBeyond(r, s) ==
    KeptPeers(r)[UserOf[s]] # NoEntry \/ Cardinality(Beating(r) \ Expired(r)) <= MaxSeats

\* A person has one seat; somebody new needs a free one.
HasSeatFor(r, s) ==
    KeptPeers(r)[UserOf[s]] # NoEntry \/ Cardinality(Beating(r) \ Expired(r)) < MaxSeats

\* JOIN, refused.  The stale entries it found are pruned all the same.
JoinFull(r, s) ==
    /\ ~HasSeatFor(r, s)
    /\ beats' = [beats EXCEPT ![r] = KeptBeats(r)]
    /\ peers' = [peers EXCEPT ![r] = KeptPeers(r)]
    /\ UNCHANGED <<rooms, ttl>>

\* JOIN, granted: a new seat, or the user's own seat taken over.
JoinOk(r, s, m) ==
    /\ HasSeatFor(r, s)
    /\ beats' = [beats EXCEPT ![r] = [KeptBeats(r) EXCEPT ![UserOf[s]] = 0]]
    /\ peers' = [peers EXCEPT ![r] = [KeptPeers(r) EXCEPT ![UserOf[s]] = [peer |-> s, media |-> m]]]
    /\ ttl'   = [ttl EXCEPT ![r] = KeyTtl]
    /\ rooms' = rooms \cup {r}

\* LEAVE: compare-and-delete.
Leave(r, s) ==
    LET b == [beats[r] EXCEPT ![UserOf[s]] = NoBeat] IN
    /\ Seated(r, s)
    /\ beats' = [beats EXCEPT ![r] = b]
    /\ peers' = [peers EXCEPT ![r] = [peers[r] EXCEPT ![UserOf[s]] = NoEntry]]
    /\ ttl'   = [ttl EXCEPT ![r] = TtlOf(r, b)]
    /\ UNCHANGED rooms
\* (Mutant: does not renew the keys.)
HeartbeatNoRenewal(entries) ==
    /\ beats' = [r \in Rooms |-> [u \in Users |->
                   IF beats[r][u] # NoBeat /\ \E e \in entries : e[1] = r /\ Seated(r, e[2]) /\ UserOf[e[2]] = u
                   THEN 0 ELSE beats[r][u]]]
    /\ UNCHANGED <<peers, rooms, ttl>>

\* HEARTBEAT, pipelined for all of one process's <<room, socket>> entries:
\* refreshes only those that are still that socket's.
Heartbeat(entries) ==
    LET own(r) == {e[2] : e \in {x \in entries : x[1] = r /\ Seated(r, x[2])}} IN
    /\ beats' = [r \in Rooms |-> [u \in Users |->
                   IF beats[r][u] # NoBeat /\ \E s \in own(r) : UserOf[s] = u THEN 0 ELSE beats[r][u]]]
    /\ ttl'   = [r \in Rooms |-> IF own(r) # {} THEN KeyTtl ELSE ttl[r]]
    /\ UNCHANGED <<peers, rooms>>
\* (Mutant: sweeps a room only when everyone in it is stale.)
SweepDead(r) ==
    /\ r \in rooms
    /\ Beating(r) \subseteq Expired(r)
    /\ beats' = [beats EXCEPT ![r] = KeptBeats(r)]
    /\ peers' = [peers EXCEPT ![r] = [u \in Users |-> NoEntry]]
    /\ rooms' = rooms \ {r}
    /\ ttl'   = [ttl EXCEPT ![r] = 0]

\* SWEEP of one room of presence:rooms.
Sweep(r) ==
    /\ r \in rooms
    /\ beats' = [beats EXCEPT ![r] = KeptBeats(r)]
    /\ IF Beating(r) \subseteq Expired(r)
       THEN /\ peers' = [peers EXCEPT ![r] = [u \in Users |-> NoEntry]]
            /\ rooms' = rooms \ {r}
            /\ ttl'   = [ttl EXCEPT ![r] = 0]
       ELSE /\ peers' = [peers EXCEPT ![r] = KeptPeers(r)]
            /\ UNCHANGED <<rooms, ttl>>
\* (Mutant: renews the keys as well.)
SetMediaRenewing(r, s, m) ==
    /\ Seated(r, s)
    /\ peers' = [peers EXCEPT ![r][UserOf[s]].media = m]
    /\ ttl'   = [ttl EXCEPT ![r] = KeyTtl]
    /\ UNCHANGED <<beats, rooms>>

\* MEDIA: changes the entry only while it is still that socket's.
SetMedia(r, s, m) ==
    /\ Seated(r, s)
    /\ peers' = [peers EXCEPT ![r][UserOf[s]].media = m]
    /\ UNCHANGED <<beats, rooms, ttl>>

\* clearRoom: the MULTI that drops a room's keys when its meeting ends.
ClearRoom(r) ==
    /\ beats' = [beats EXCEPT ![r] = [u \in Users |-> NoBeat]]
    /\ peers' = [peers EXCEPT ![r] = [u \in Users |-> NoEntry]]
    /\ rooms' = rooms \ {r}
    /\ ttl'   = [ttl EXCEPT ![r] = 0]

\* Time passes: heartbeats age, and keys whose expiry has come are gone.
Older(age) == IF age = NoBeat THEN NoBeat ELSE IF age < StaleAge THEN age + 1 ELSE StaleAge

Tick ==
    /\ beats' = [r \in Rooms |-> [u \in Users |->
                   IF ttl[r] <= 1 THEN NoBeat ELSE Older(beats[r][u])]]
    /\ peers' = [r \in Rooms |-> IF ttl[r] <= 1 THEN [u \in Users |-> NoEntry] ELSE peers[r]]
    /\ ttl'   = [r \in Rooms |-> IF ttl[r] = 0 THEN 0 ELSE ttl[r] - 1]
    /\ UNCHANGED rooms

-----------------------------------------------------------------------------
PresenceInit ==
    /\ beats = [r \in Rooms |-> [u \in Users |-> NoBeat]]
    /\ peers = [r \in Rooms |-> [u \in Users |-> NoEntry]]
    /\ rooms = {}
    /\ ttl   = [r \in Rooms |-> 0]

\* Any instance may run any script for any of its sockets at any time.
PresenceNext ==
    \/ \E r \in Rooms, s \in Sockets :
          \/ JoinFull(r, s)
          \/ \E m \in Media : JoinOk(r, s, m)
          \/ Leave(r, s)
          \/ \E m \in Media : SetMedia(r, s, m)
    \/ \E entries \in SUBSET (Rooms \X Sockets) : Heartbeat(entries)
    \/ \E r \in Rooms : Sweep(r) \/ ClearRoom(r)
    \/ Tick

PresenceSpec == PresenceInit /\ [][PresenceNext]_presenceVars

\* With every process dead, only Redis itself is left: its clock goes on.
AbandonedPresenceSpec == PresenceSpec /\ WF_presenceVars(Tick)

-----------------------------------------------------------------------------
(* Properties.                                                             *)

\* The state keeps its types: heartbeat ages are bounded by the staleness
\* threshold and every participant's entry is well formed.
PresenceTypeOK ==
    /\ beats \in [Rooms -> [Users -> NoBeat .. StaleAge]]
    /\ peers \in [Rooms -> [Users -> Participant \cup {NoEntry}]]
    /\ rooms \in SUBSET Rooms
    /\ ttl \in [Rooms -> 0 .. KeyTtl]

\* The two keys of a room always name the same people.  JOIN takes the head
\* count from one key and looks the user up in the other, and the pruning
\* scripts find in the one what they delete from the other: an entry in
\* `peers' alone would never be swept, one in `beats' alone would hold a seat.
SeatsBeat == \A r \in Rooms : Listed(r) = Beating(r)

\* Racing joiners never over-fill a room: no interleaving of the scripts puts
\* more people in the hash than maxParticipants.
Capacity == \A r \in Rooms : Cardinality(Listed(r)) <= MaxSeats

\* A room with anyone in it is in presence:rooms, or the sweeper would never
\* visit it and its ghosts would stay.
Indexed == \A r \in Rooms : Listed(r) # {} => r \in rooms

\* The keys' expiry is only the last resort: every entry turns stale, and so
\* becomes the sweeper's to announce, strictly before the keys it is in expire
\* unannounced.
ExpiryAfterStale ==
    \A r \in Rooms : \A u \in Beating(r) : ttl[r] > StaleAge - beats[r][u]

\* A step in which a process speaks for the seat that user u has in room r.
Refreshed(r, u) == peers'[r][u] # NoEntry /\ (peers[r][u] = NoEntry \/ beats'[r][u] < beats[r][u])

\* An abandoned room's presence disappears even if every instance dies: the
\* keys' expiry alone empties a room that nobody refreshes.
AbandonedRoomsExpire ==
    \A r \in Rooms :
        <>[][\A u \in Users : ~Refreshed(r, u)]_presenceVars => <>[](Listed(r) = {})
=============================================================================
