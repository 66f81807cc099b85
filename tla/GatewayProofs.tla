---------------------------- MODULE GatewayProofs ----------------------------
(***************************************************************************)
(* Proofs about RoomGateway and the store below it, for any number of      *)
(* tabs, people, processes, rooms and seats, any number of handlers in     *)
(* flight and all faults. Presence first: its inductive invariant is the   *)
(* conjunction of its safety properties. SeatsBeat is what makes the head  *)
(* count of JOIN (one key) bound the hash (the other key), and what lets   *)
(* the sweeper empty a room by looking at heartbeats alone. Then the       *)
(* gateway: its state keeps its types, and it implements the atomic store  *)
(* of ScreenLock, whose invariants it therefore inherits.                  *)
(***************************************************************************)
EXTENDS RoomGateway, FiniteSetTheorems, SequenceTheorems, TLAPS

-----------------------------------------------------------------------------
(* The presence store.                                                     *)

USE DEF NoBeat

\* The parts of the inductive invariant that concern one room.
RoomOK(r) ==
    /\ Listed(r) = Beating(r)
    /\ Cardinality(Listed(r)) <= MaxSeats
    /\ Listed(r) # {} => r \in rooms
    /\ \A u \in Beating(r) : ttl[r] > StaleAge - beats[r][u]

PresenceInv == PresenceTypeOK /\ \A r \in Rooms : RoomOK(r)

-----------------------------------------------------------------------------
(* Type correctness.                                                       *)

\* Pruning keeps the types of the two keys of a room.
LEMMA KeptTypes ==
    ASSUME PresenceTypeOK, NEW r \in Rooms
    PROVE  /\ KeptBeats(r) \in [Users -> NoBeat .. StaleAge]
           /\ KeptPeers(r) \in [Users -> Participant \cup {NoEntry}]
BY TimingAssumption DEF PresenceTypeOK, KeptBeats, KeptPeers, Expired

\* An ageing heartbeat stays within the range of ages.
LEMMA OlderType ==
    ASSUME NEW age \in NoBeat .. StaleAge
    PROVE  Older(age) \in NoBeat .. StaleAge
BY TimingAssumption DEF Older

\* Every script and the passing of time preserve the types.
LEMMA TypeStep ==
    ASSUME PresenceTypeOK, [PresenceNext]_presenceVars
    PROVE  PresenceTypeOK'
<1> USE TimingAssumption, UserOfAssumption
<1>1. CASE UNCHANGED presenceVars
  BY <1>1 DEF PresenceTypeOK, presenceVars
<1>2. ASSUME NEW r \in Rooms, NEW s \in Sockets, JoinFull(r, s)
      PROVE  PresenceTypeOK'
  BY <1>2, KeptTypes DEF PresenceTypeOK, JoinFull
<1>3. ASSUME NEW r \in Rooms, NEW s \in Sockets, NEW m \in Media, JoinOk(r, s, m)
      PROVE  PresenceTypeOK'
  <2>1. [peer |-> s, media |-> m] \in Participant
    BY DEF Participant
  <2> QED
    BY <1>3, <2>1, KeptTypes DEF PresenceTypeOK, JoinOk
<1>4. ASSUME NEW r \in Rooms, NEW s \in Sockets, Leave(r, s)
      PROVE  PresenceTypeOK'
  BY <1>4 DEF PresenceTypeOK, Leave, TtlOf
<1>5. ASSUME NEW r \in Rooms, NEW s \in Sockets, NEW m \in Media, SetMedia(r, s, m)
      PROVE  PresenceTypeOK'
  <2>1. peers[r][UserOf[s]] \in Participant
    BY <1>5 DEF PresenceTypeOK, SetMedia, Seated
  <2>2. [peers[r][UserOf[s]] EXCEPT !.media = m] \in Participant
    BY <2>1 DEF Participant
  <2> QED
    BY <1>5, <2>2 DEF PresenceTypeOK, SetMedia
<1>6. ASSUME NEW entries \in SUBSET (Rooms \X Sockets), Heartbeat(entries)
      PROVE  PresenceTypeOK'
  BY <1>6 DEF PresenceTypeOK, Heartbeat
<1>7. ASSUME NEW r \in Rooms, Sweep(r)
      PROVE  PresenceTypeOK'
  <2>1. beats' \in [Rooms -> [Users -> NoBeat .. StaleAge]]
    BY <1>7, KeptTypes DEF PresenceTypeOK, Sweep
  <2>2. peers' \in [Rooms -> [Users -> Participant \cup {NoEntry}]]
    <3>1. [u \in Users |-> NoEntry] \in [Users -> Participant \cup {NoEntry}]
      OBVIOUS
    <3> QED
      BY <1>7, <3>1, KeptTypes DEF PresenceTypeOK, Sweep
  <2>3. rooms' \in SUBSET Rooms /\ ttl' \in [Rooms -> 0 .. KeyTtl]
    BY <1>7 DEF PresenceTypeOK, Sweep
  <2> QED
    BY <2>1, <2>2, <2>3 DEF PresenceTypeOK
<1>8. ASSUME NEW r \in Rooms, ClearRoom(r)
      PROVE  PresenceTypeOK'
  BY <1>8 DEF PresenceTypeOK, ClearRoom
<1>9. CASE Tick
  <2>1. beats' \in [Rooms -> [Users -> NoBeat .. StaleAge]]
    <3>1. ASSUME NEW r \in Rooms, NEW u \in Users
          PROVE  (IF ttl[r] <= 1 THEN NoBeat ELSE Older(beats[r][u])) \in NoBeat .. StaleAge
      BY OlderType DEF PresenceTypeOK
    <3> QED
      BY <1>9, <3>1 DEF Tick
  <2>2. peers' \in [Rooms -> [Users -> Participant \cup {NoEntry}]]
    BY <1>9 DEF PresenceTypeOK, Tick
  <2>3. rooms' \in SUBSET Rooms /\ ttl' \in [Rooms -> 0 .. KeyTtl]
    BY <1>9 DEF PresenceTypeOK, Tick
  <2> QED
    BY <2>1, <2>2, <2>3 DEF PresenceTypeOK
<1> QED
  BY <1>1, <1>2, <1>3, <1>4, <1>5, <1>6, <1>7, <1>8, <1>9 DEF PresenceNext

\* Ages stay within the staleness threshold and entries well formed, however
\* the scripts interleave.
THEOREM TypeCorrect == PresenceSpec => []PresenceTypeOK
<1>1. PresenceInit => PresenceTypeOK
  BY TimingAssumption DEF PresenceInit, PresenceTypeOK
<1>2. PresenceTypeOK /\ [PresenceNext]_presenceVars => PresenceTypeOK'
  BY TypeStep
<1> QED
  BY <1>1, <1>2, PTL DEF PresenceSpec

-----------------------------------------------------------------------------
(* The two keys of a room, its seats, its entry in presence:rooms and its  *)
(* expiry.                                                                 *)

\* What is left of a room after pruning.
LEMMA Kept ==
    ASSUME NEW r \in Rooms
    PROVE  /\ {u \in Users : KeptBeats(r)[u] # NoBeat} = Beating(r) \ Expired(r)
           /\ {u \in Users : KeptPeers(r)[u] # NoEntry} = Listed(r) \ Expired(r)
           /\ \A u \in Beating(r) \ Expired(r) : KeptBeats(r)[u] = beats[r][u]
BY DEF KeptBeats, KeptPeers, Beating, Listed

\* People are finitely many, so a smaller set of them is no larger in number.
LEMMA FewerPeople ==
    ASSUME NEW S \in SUBSET Users, NEW T \in SUBSET S
    PROVE  /\ IsFiniteSet(S) /\ IsFiniteSet(T)
           /\ Cardinality(S) \in Nat /\ Cardinality(T) \in Nat
           /\ Cardinality(T) <= Cardinality(S)
BY UsersAssumption, FS_Subset, FS_CardinalityType

\* One more person is at most one more in number.
LEMMA OneMore ==
    ASSUME NEW S \in SUBSET Users, NEW u \in Users
    PROVE  Cardinality(S \cup {u}) <= Cardinality(S) + 1
BY UsersAssumption, FS_Subset, FS_AddElement, FS_CardinalityType

\* A refused join prunes one room.
LEMMA JoinFullOK ==
    ASSUME PresenceInv, NEW r \in Rooms, NEW s \in Sockets, JoinFull(r, s), NEW x \in Rooms
    PROVE  RoomOK(x)'
<1> USE DEF PresenceInv, RoomOK, PresenceTypeOK
<1>1. CASE x # r
  BY <1>1 DEF JoinFull, Listed, Beating
<1>2. CASE x = r
  <2>1. Beating(r)' = Beating(r) \ Expired(r) /\ Listed(r)' = Listed(r) \ Expired(r)
    BY Kept, KeptTypes DEF JoinFull, Beating, Listed
  <2>2. Cardinality(Listed(r)') <= Cardinality(Listed(r))
    <3>1. Listed(r)' \in SUBSET Listed(r) /\ Listed(r) \in SUBSET Users
      BY <2>1 DEF Listed
    <3> QED
      BY <3>1, FewerPeople
  <2>3. Cardinality(Listed(r)') <= MaxSeats
    <3>1. Cardinality(Listed(r)) \in Nat /\ Cardinality(Listed(r)') \in Nat
      <4>1. Listed(r)' \in SUBSET Listed(r) /\ Listed(r) \in SUBSET Users
        BY <2>1 DEF Listed
      <4> QED
        BY <4>1, FewerPeople
    <3>2. Cardinality(Listed(r)) <= MaxSeats
      BY DEF PresenceInv, RoomOK
    <3> QED
      BY <2>2, <3>1, <3>2, SeatsAssumption
  <2>4. \A u \in Beating(r)' : beats'[r][u] = beats[r][u]
    BY <2>1, Kept DEF JoinFull
  <2> QED
    BY <1>2, <2>1, <2>3, <2>4 DEF JoinFull
<1> QED
  BY <1>1, <1>2

\* A granted join prunes one room and takes a seat that was free or its own.
LEMMA JoinOkOK ==
    ASSUME PresenceInv, NEW r \in Rooms, NEW s \in Sockets, NEW m \in Media, JoinOk(r, s, m),
           NEW x \in Rooms
    PROVE  RoomOK(x)'
<1> USE DEF PresenceInv, RoomOK, PresenceTypeOK
<1> DEFINE me == UserOf[s]
           stay == Beating(r) \ Expired(r)
<1>0. me \in Users
  BY UserOfAssumption
<1>1. CASE x # r
  BY <1>1 DEF JoinOk, Listed, Beating
<1>2. CASE x = r
  <2>1. [peer |-> s, media |-> m] # NoEntry
    BY NoEntryAssumption
  <2>2. /\ beats'[r] = [KeptBeats(r) EXCEPT ![me] = 0]
        /\ peers'[r] = [KeptPeers(r) EXCEPT ![me] = [peer |-> s, media |-> m]]
        /\ ttl'[r] = KeyTtl
        /\ rooms' = rooms \cup {r}
    BY DEF JoinOk
  <2>3. Beating(r)' = stay \cup {me}
    BY <1>0, <2>2, Kept, KeptTypes DEF Beating
  <2>4. Listed(r)' = (Listed(r) \ Expired(r)) \cup {me}
    BY <1>0, <2>1, <2>2, Kept, KeptTypes DEF Listed
  <2>5. Listed(r)' = Beating(r)'
    BY <2>3, <2>4
  <2>6. Cardinality(Listed(r)') <= MaxSeats
    <3>1. stay \in SUBSET Users /\ stay \in SUBSET Listed(r) /\ Listed(r) \in SUBSET Users
      BY DEF Beating, Listed
    <3>2. Cardinality(stay) <= MaxSeats /\ Cardinality(stay) \in Nat
      <4>1. Cardinality(Listed(r)) <= MaxSeats
        BY DEF PresenceInv, RoomOK
      <4>2. /\ Cardinality(stay) <= Cardinality(Listed(r))
            /\ Cardinality(stay) \in Nat /\ Cardinality(Listed(r)) \in Nat
        BY <3>1, FewerPeople
      <4> QED
        BY <4>1, <4>2, SeatsAssumption
    <3>3. CASE KeptPeers(r)[me] # NoEntry
      <4>1. me \in stay
        BY <1>0, <3>3, Kept
      <4> QED
        BY <2>3, <2>5, <3>2, <4>1, stay \cup {me} = stay
    <3>4. CASE Cardinality(stay) < MaxSeats
      <4>1. Cardinality(stay \cup {me}) <= Cardinality(stay) + 1
        BY <1>0, <3>1, OneMore
      <4>2. Cardinality(stay \cup {me}) \in Nat
        BY <1>0, <3>1, UsersAssumption, FS_Subset, FS_CardinalityType
      <4> QED
        BY <2>3, <2>5, <3>2, <3>4, <4>1, <4>2, SeatsAssumption
    <3> QED
      BY <3>3, <3>4 DEF JoinOk, HasSeatFor
  <2>7. ASSUME NEW u \in Beating(r)'
        PROVE  ttl'[r] > StaleAge - beats'[r][u]
    <3>1. beats'[r][u] \in 0 .. StaleAge
      <4>1. CASE u = me
        BY <1>0, <2>2, <4>1, KeptTypes, TimingAssumption
      <4>2. CASE u # me
        BY <1>0, <2>2, <2>3, <4>2, KeptTypes, TimingAssumption DEF Beating
      <4> QED
        BY <4>1, <4>2
    <3> QED
      BY <2>2, <3>1, TimingAssumption
  <2> QED
    BY <1>2, <2>2, <2>5, <2>6, <2>7
<1> QED
  BY <1>1, <1>2

\* Leaving takes away one entry of both keys, or nothing.
LEMMA LeaveOK ==
    ASSUME PresenceInv, NEW r \in Rooms, NEW s \in Sockets, Leave(r, s), NEW x \in Rooms
    PROVE  RoomOK(x)'
<1> USE DEF PresenceInv, RoomOK, PresenceTypeOK
<1> DEFINE me == UserOf[s]
<1>0. me \in Users
  BY UserOfAssumption
<1>1. CASE x # r
  BY <1>1 DEF Leave, Listed, Beating
<1>2. CASE x = r
  <2>1. Beating(r)' = Beating(r) \ {me}
    BY <1>0 DEF Leave, Beating
  <2>2. Listed(r)' = Listed(r) \ {me}
    BY <1>0 DEF Leave, Listed
  <2>3. Listed(r)' = Beating(r)'
    BY <2>1, <2>2
  <2>4. Cardinality(Listed(r)') <= MaxSeats
    <3>1. Listed(r)' \in SUBSET Listed(r) /\ Listed(r) \in SUBSET Users
      BY <2>2 DEF Listed
    <3>2. /\ Cardinality(Listed(r)') <= Cardinality(Listed(r))
          /\ Cardinality(Listed(r)') \in Nat /\ Cardinality(Listed(r)) \in Nat
      BY <3>1, FewerPeople
    <3> QED
      BY <3>2, SeatsAssumption
  <2>5. ASSUME NEW u \in Beating(r)'
        PROVE  ttl'[r] > StaleAge - beats'[r][u]
    <3>1. u \in Beating(r) /\ beats'[r][u] = beats[r][u] /\ beats'[r][u] # NoBeat /\ u \in Users
      BY <1>0, <2>1 DEF Leave, Beating
    <3>2. ttl'[r] = ttl[r]
      BY <1>0, <3>1 DEF Leave, TtlOf, Beating
    <3> QED
      BY <3>1, <3>2
  <2> QED
    BY <1>2, <2>2, <2>3, <2>4, <2>5 DEF Leave
<1> QED
  BY <1>1, <1>2

\* A change of media leaves the membership alone.
LEMMA SetMediaOK ==
    ASSUME PresenceInv, NEW r \in Rooms, NEW s \in Sockets, NEW m \in Media, SetMedia(r, s, m),
           NEW x \in Rooms
    PROVE  RoomOK(x)'
<1> USE DEF PresenceInv, RoomOK, PresenceTypeOK
<1> DEFINE me == UserOf[s]
           entry == peers[r][me]
<1>0. me \in Users
  BY UserOfAssumption
<1>1. [entry EXCEPT !.media = m] # NoEntry
  <2>1. entry \in Participant
    BY <1>0 DEF SetMedia, Seated
  <2> QED
    BY <2>1, NoEntryAssumption DEF Participant
<1>2. peers' = [peers EXCEPT ![r] = [peers[r] EXCEPT ![me] = [entry EXCEPT !.media = m]]]
  BY DEF SetMedia
<1>3. Listed(x)' = Listed(x)
  BY <1>0, <1>1, <1>2 DEF Listed, SetMedia, Seated
<1>4. Beating(x)' = Beating(x)
  BY DEF SetMedia, Beating
<1> QED
  BY <1>3, <1>4 DEF SetMedia

\* A heartbeat refreshes entries that are there, and their keys with them.
LEMMA HeartbeatOK ==
    ASSUME PresenceInv, NEW entries \in SUBSET (Rooms \X Sockets), Heartbeat(entries),
           NEW x \in Rooms
    PROVE  RoomOK(x)'
<1> USE DEF PresenceInv, RoomOK, PresenceTypeOK
<1> DEFINE own == {e[2] : e \in {y \in entries : y[1] = x /\ Seated(x, y[2])}}
<1>1. ASSUME NEW u \in Users
      PROVE  beats'[x][u] = IF beats[x][u] # NoBeat /\ \E s \in own : UserOf[s] = u
                            THEN 0 ELSE beats[x][u]
  BY DEF Heartbeat
<1>2. ttl'[x] = IF own # {} THEN KeyTtl ELSE ttl[x]
  BY DEF Heartbeat
<1>3. Listed(x)' = Listed(x) /\ rooms' = rooms
  BY DEF Heartbeat, Listed
<1>4. Beating(x)' = Beating(x)
  BY <1>1 DEF Beating
<1>5. ASSUME NEW u \in Beating(x)'
      PROVE  ttl'[x] > StaleAge - beats'[x][u]
  <2>1. u \in Users /\ u \in Beating(x) /\ beats[x][u] \in 0 .. StaleAge
    BY <1>4, TimingAssumption DEF Beating
  <2>2. CASE own # {}
    <3>1. beats'[x][u] \in 0 .. StaleAge
      BY <1>1, <2>1, TimingAssumption
    <3> QED
      BY <1>2, <2>2, <3>1, TimingAssumption
  <2>3. CASE own = {}
    BY <1>1, <1>2, <2>1, <2>3
  <2> QED
    BY <2>2, <2>3
<1> QED
  BY <1>3, <1>4, <1>5

\* A sweep prunes one room, and drops it when nobody is left.
LEMMA SweepOK ==
    ASSUME PresenceInv, NEW r \in Rooms, Sweep(r), NEW x \in Rooms
    PROVE  RoomOK(x)'
<1> USE DEF PresenceInv, RoomOK, PresenceTypeOK
<1>1. CASE x # r
  <2>1. beats'[x] = beats[x] /\ peers'[x] = peers[x] /\ ttl'[x] = ttl[x]
    BY <1>1 DEF Sweep
  <2>2. x \in rooms => x \in rooms'
    BY <1>1 DEF Sweep
  <2> QED
    BY <2>1, <2>2 DEF Listed, Beating
<1>2. CASE x = r
  <2>1. Beating(r)' = Beating(r) \ Expired(r)
    BY Kept, KeptTypes DEF Sweep, Beating
  <2>2. Listed(r)' = Listed(r) \ Expired(r)
    <3>1. CASE Beating(r) \subseteq Expired(r)
      <4>1. peers'[r] = [u \in Users |-> NoEntry]
        BY <3>1 DEF Sweep
      <4>2. Listed(r)' = {} /\ Listed(r) \subseteq Expired(r)
        BY <3>1, <4>1 DEF Listed
      <4> QED
        BY <4>2
    <3>2. CASE ~(Beating(r) \subseteq Expired(r))
      BY <3>2, Kept, KeptTypes DEF Sweep, Listed
    <3> QED
      BY <3>1, <3>2
  <2>3. Cardinality(Listed(r)') <= MaxSeats
    <3>1. Listed(r)' \in SUBSET Listed(r) /\ Listed(r) \in SUBSET Users
      BY <2>2 DEF Listed
    <3>2. /\ Cardinality(Listed(r)') <= Cardinality(Listed(r))
          /\ Cardinality(Listed(r)') \in Nat /\ Cardinality(Listed(r)) \in Nat
      BY <3>1, FewerPeople
    <3> QED
      BY <3>2, SeatsAssumption
  <2>4. Listed(r)' # {} => r \in rooms'
    BY <2>2 DEF Sweep
  <2>5. ASSUME NEW u \in Beating(r)'
        PROVE  ttl'[r] > StaleAge - beats'[r][u]
    <3>1. u \in Beating(r) \ Expired(r) /\ beats'[r][u] = beats[r][u]
      BY <2>1, Kept DEF Sweep
    <3>2. ttl'[r] = ttl[r]
      BY <3>1 DEF Sweep
    <3> QED
      BY <3>1, <3>2
  <2> QED
    BY <1>2, <2>1, <2>2, <2>3, <2>4, <2>5
<1> QED
  BY <1>1, <1>2

\* Clearing a room empties both keys.
LEMMA ClearRoomOK ==
    ASSUME PresenceInv, NEW r \in Rooms, ClearRoom(r), NEW x \in Rooms
    PROVE  RoomOK(x)'
<1> USE DEF PresenceInv, RoomOK, PresenceTypeOK
<1>1. CASE x # r
  BY <1>1 DEF ClearRoom, Listed, Beating
<1>2. CASE x = r
  <2>1. Beating(r)' = {} /\ Listed(r)' = {}
    BY DEF ClearRoom, Beating, Listed
  <2> QED
    BY <1>2, <2>1, SeatsAssumption, FS_EmptySet
<1> QED
  BY <1>1, <1>2

\* Ageing keeps an expiry ahead of the staleness of what it covers, and keys
\* that expire go together.
LEMMA TickOK ==
    ASSUME PresenceInv, Tick, NEW x \in Rooms
    PROVE  RoomOK(x)'
<1> USE DEF PresenceInv, RoomOK, PresenceTypeOK
<1>0. ttl'[x] = (IF ttl[x] = 0 THEN 0 ELSE ttl[x] - 1) /\ ttl[x] \in 0 .. KeyTtl /\ rooms' = rooms
  BY DEF Tick
<1>1. CASE ttl[x] <= 1
  <2>1. Beating(x)' = {} /\ Listed(x)' = {}
    BY <1>1 DEF Tick, Beating, Listed
  <2> QED
    BY <2>1, SeatsAssumption, FS_EmptySet
<1>2. CASE ~(ttl[x] <= 1)
  <2>1. Listed(x)' = Listed(x)
    BY <1>2 DEF Tick, Listed
  <2>2. \A u \in Users : beats'[x][u] = Older(beats[x][u])
    BY <1>2 DEF Tick
  <2>3. Beating(x)' = Beating(x)
    BY <2>2, TimingAssumption DEF Beating, Older
  <2>4. ASSUME NEW u \in Beating(x)'
        PROVE  ttl'[x] > StaleAge - beats'[x][u]
    <3>1. u \in Users /\ beats[x][u] \in 0 .. StaleAge /\ ttl[x] > StaleAge - beats[x][u]
      BY <2>3, TimingAssumption DEF Beating
    <3> QED
      BY <1>0, <1>2, <2>2, <3>1, TimingAssumption DEF Older
  <2> QED
    BY <1>0, <2>1, <2>3, <2>4
<1> QED
  BY <1>1, <1>2

\* The invariant is inductive.
LEMMA PresenceStep ==
    ASSUME PresenceInv, [PresenceNext]_presenceVars
    PROVE  PresenceInv'
<1>1. PresenceTypeOK'
  BY TypeStep DEF PresenceInv
<1>2. ASSUME NEW x \in Rooms
      PROVE  RoomOK(x)'
  <2>1. CASE UNCHANGED presenceVars
    BY <2>1 DEF presenceVars, PresenceInv, RoomOK, Listed, Beating
  <2>2. CASE PresenceNext
    BY <2>2, JoinFullOK, JoinOkOK, LeaveOK, SetMediaOK, HeartbeatOK, SweepOK, ClearRoomOK, TickOK
       DEF PresenceNext
  <2> QED
    BY <2>1, <2>2
<1> QED
  BY <1>1, <1>2 DEF PresenceInv

\* Redis starts out empty.
LEMMA PresenceStart == PresenceInit => PresenceInv
<1> SUFFICES ASSUME PresenceInit PROVE PresenceInv
  OBVIOUS
<1>1. PresenceTypeOK
  BY TimingAssumption DEF PresenceInit, PresenceTypeOK
<1>2. \A r \in Rooms : Listed(r) = {} /\ Beating(r) = {}
  BY DEF PresenceInit, Listed, Beating
<1> QED
  BY <1>1, <1>2, SeatsAssumption, FS_EmptySet DEF PresenceInv, RoomOK

\* Every reachable state of presence satisfies the invariant.
THEOREM Invariance == PresenceSpec => []PresenceInv
BY PresenceStart, PresenceStep, PTL DEF PresenceSpec

\* The sorted set and the hash of a room always name the same people.
THEOREM KeysAgree == PresenceSpec => []SeatsBeat
<1>1. PresenceInv => SeatsBeat
  BY DEF PresenceInv, RoomOK, SeatsBeat
<1> QED
  BY <1>1, Invariance, PTL

\* No room ever holds more people than it has seats, however many join at once.
THEOREM NeverOverfull == PresenceSpec => []Capacity
<1>1. PresenceInv => Capacity
  BY DEF PresenceInv, RoomOK, Capacity
<1> QED
  BY <1>1, Invariance, PTL

\* The sweeper visits every room that has anyone in it.
THEOREM AlwaysSwept == PresenceSpec => []Indexed
<1>1. PresenceInv => Indexed
  BY DEF PresenceInv, RoomOK, Indexed
<1> QED
  BY <1>1, Invariance, PTL

\* Whatever staleMs and the keys' expiry, as long as the expiry is longer: no
\* entry expires with its keys before the sweeper could announce it.
THEOREM StaleBeforeExpiry == PresenceSpec => []ExpiryAfterStale
<1>1. PresenceInv => ExpiryAfterStale
  BY DEF PresenceInv, RoomOK, ExpiryAfterStale
<1> QED
  BY <1>1, Invariance, PTL

-----------------------------------------------------------------------------
(* The gateway.                                                            *)

\* The types of everything but what is in Redis.
HandlersTypeOK ==
    /\ roomSlug \in [Sockets -> Rooms \cup {NoRoom}]
    /\ channel \in [Rooms -> SUBSET Sockets]
    /\ up \subseteq Sockets /\ alive \subseteq Instances /\ beaten \subseteq Instances
    /\ tasks \in [Sockets -> Seq(Task)]
    /\ freeing \in [Instances -> SUBSET (Rooms \X Sockets)]
    /\ ending \in [Rooms -> Endings]
    /\ page \in [Sockets -> Rooms \cup {NoRoom}]
    /\ status \in [Sockets -> Statuses]
    /\ presenting \subseteq Sockets

-----------------------------------------------------------------------------
(* Queues of tasks.                                                        *)

\* Removing, replacing and appending a task keeps a queue a queue of tasks.
LEMMA Queues ==
    ASSUME NEW q \in Seq(Task), NEW t \in Task
    PROVE  /\ \A k \in DOMAIN q : RemoveAt(q, k) \in Seq(Task) /\ ReplaceAt(q, k, t) \in Seq(Task)
           /\ Append(q, t) \in Seq(Task)
<1>1. ASSUME NEW k \in DOMAIN q
      PROVE  RemoveAt(q, k) \in Seq(Task)
  <2>1. k \in 1 .. Len(q) /\ Len(q) \in Nat
    BY <1>1
  <2>2. SubSeq(q, 1, k - 1) \in Seq(Task) /\ SubSeq(q, k + 1, Len(q)) \in Seq(Task)
    BY <2>1, SubSeqProperties
  <2> QED
    BY <2>2, ConcatProperties DEF RemoveAt
<1>2. ASSUME NEW k \in DOMAIN q
      PROVE  ReplaceAt(q, k, t) \in Seq(Task)
  BY <1>2, ExceptSeq DEF ReplaceAt
<1>3. Append(q, t) \in Seq(Task)
  BY AppendProperties
<1> QED
  BY <1>1, <1>2, <1>3

\* So does forgetting whose answer is awaited.
LEMMA Forgetting ==
    ASSUME NEW q \in Seq(Task)
    PROVE  Forget(q) \in Seq(Task)
<1>1. DOMAIN q = 1 .. Len(q) /\ Len(q) \in Nat
    BY LenProperties
<1>2. ASSUME NEW j \in 1 .. Len(q)
        PROVE  [q[j] EXCEPT !.mine = FALSE] \in Task
  <2>1. q[j] \in Task
    BY ElementOfSeq
  <2> QED
    BY <2>1 DEF Task
<1> QED
  BY <1>1, <1>2, IsASeq DEF Forget

\* A handler that moves on, ends or begins leaves queues of tasks.
LEMMA TaskMoves ==
    ASSUME tasks \in [Sockets -> Seq(Task)], NEW s \in Sockets
    PROVE  /\ \A k \in DOMAIN tasks[s] : tasks[s][k] \in Task
           /\ \A k \in DOMAIN tasks[s], t \in Task :
                 Goto(s, k, t) => tasks' \in [Sockets -> Seq(Task)]
           /\ \A k \in DOMAIN tasks[s] : Finish(s, k) => tasks' \in [Sockets -> Seq(Task)]
           /\ \A t \in Task : Send(s, t) => tasks' \in [Sockets -> Seq(Task)]
<1>0. tasks[s] \in Seq(Task)
  OBVIOUS
<1>1. ASSUME NEW k \in DOMAIN tasks[s]
      PROVE  tasks[s][k] \in Task
  BY <1>0, <1>1, ElementOfSeq, LenProperties
<1>2. ASSUME NEW k \in DOMAIN tasks[s], NEW t \in Task, Goto(s, k, t)
      PROVE  tasks' \in [Sockets -> Seq(Task)]
  <2>1. ReplaceAt(tasks[s], k, t) \in Seq(Task) /\ RemoveAt(tasks[s], k) \in Seq(Task)
    BY <1>0, Queues
  <2>2. Append(RemoveAt(tasks[s], k), t) \in Seq(Task)
    BY <2>1, Queues
  <2> QED
    BY <1>2, <2>1, <2>2 DEF Goto
<1>3. ASSUME NEW k \in DOMAIN tasks[s], Finish(s, k)
      PROVE  tasks' \in [Sockets -> Seq(Task)]
  <2>1. RemoveAt(tasks[s], k) \in Seq(Task)
    BY <1>0, <1>1, Queues
  <2> QED
    BY <1>3, <2>1 DEF Finish
<1>4. ASSUME NEW t \in Task, Send(s, t)
      PROVE  tasks' \in [Sockets -> Seq(Task)]
  BY <1>0, <1>4, Queues DEF Send
<1> QED
  BY <1>1, <1>2, <1>3, <1>4

-----------------------------------------------------------------------------
(* One step per action: it keeps the handlers' types, and what it does to  *)
(* Redis is one script of the store or nothing.                            *)

\* The answer to a join changes the tab's status only.
LEMMA Answers ==
    ASSUME HandlersTypeOK, NEW s \in Sockets, NEW k, NEW outcome \in Statuses,
           AnswerJoin(s, k, outcome)
    PROVE  /\ page' \in [Sockets -> Rooms \cup {NoRoom}]
           /\ status' \in [Sockets -> Statuses]
           /\ presenting' \subseteq Sockets
BY DEF HandlersTypeOK, AnswerJoin

\* A slot is freed by the compare-and-delete of the store.
LEMMA Releases ==
    ASSUME NEW r \in Rooms, NEW d \in Sockets, Release(r, d)
    PROVE  StoreNext
BY DEF StoreNext

\* The handler of room:join, from its start to its answer.
LEMMA JoinSteps ==
    ASSUME StoreTypeOK, HandlersTypeOK, NEW s \in Sockets, NEW k \in DOMAIN tasks[s],
           \/ JoinStart(s, k) \/ JoinLimited(s, k) \/ JoinRefused(s, k) \/ JoinAdmitted(s, k)
           \/ JoinSubscribe(s, k) \/ JoinSeat(s, k)
           \/ JoinFreeDead(s, k) \/ JoinTurnedAway(s, k) \/ JoinDisplace(s, k)
           \/ JoinFreePrevious(s, k) \/ JoinRegister(s, k) \/ JoinAnswered(s, k)
    PROVE  HandlersTypeOK' /\ [StoreNext]_storeVars
<1> DEFINE t == tasks[s][k]
<1>0. t \in Task /\ tasks \in [Sockets -> Seq(Task)]
  BY TaskMoves DEF HandlersTypeOK
<1>1. ASSUME NEW pc \in {"limit", "admit", "subscribe", "seat", "freePrevious", "answer"},
             GotoPc(s, k, pc)
      PROVE  tasks' \in [Sockets -> Seq(Task)]
  <2>1. [t EXCEPT !.pc = pc] \in Task
    BY <1>0 DEF Task
  <2> QED
    BY <1>0, <1>1, <2>1, TaskMoves DEF GotoPc
<1>2. CASE JoinStart(s, k)
  BY <1>1, <1>2 DEF JoinStart, HandlersTypeOK, serverVars, tabVars
<1>3. CASE JoinLimited(s, k)
  <2>1. CASE GotoPc(s, k, "admit") /\ UNCHANGED tabVars
    BY <1>1, <1>3, <2>1 DEF JoinLimited, HandlersTypeOK, serverVars, tabVars
  <2>2. CASE Finish(s, k) /\ AnswerJoin(s, k, "refused")
    BY <1>0, <1>3, <2>2, TaskMoves, Answers DEF JoinLimited, HandlersTypeOK, serverVars, Statuses
  <2> QED
    BY <1>3, <2>1, <2>2 DEF JoinLimited
<1>4. CASE JoinRefused(s, k)
  <2>1. PICK outcome \in {"ended", "refused"} : AnswerJoin(s, k, outcome)
    BY <1>4 DEF JoinRefused
  <2> QED
    BY <1>0, <1>4, <2>1, TaskMoves, Answers DEF JoinRefused, HandlersTypeOK, serverVars, Statuses
<1>5. CASE JoinAdmitted(s, k)
  <2>1. CASE roomSlug[s] \in {NoRoom, t.room}
    BY <1>1, <1>5, <2>1 DEF JoinAdmitted, HandlersTypeOK, tabVars
  <2>2. CASE roomSlug[s] \notin {NoRoom, t.room}
    <3>1. roomSlug[s] \in Rooms
      BY <2>2 DEF HandlersTypeOK
    <3>2. [t EXCEPT !.pc = "free", !.leaving = roomSlug[s]] \in Task
      BY <1>0, <3>1 DEF Task
    <3>3. tasks' \in [Sockets -> Seq(Task)]
      BY <1>0, <1>5, <2>2, <3>2, TaskMoves DEF JoinAdmitted
    <3>4. /\ roomSlug' \in [Sockets -> Rooms \cup {NoRoom}]
          /\ channel' \in [Rooms -> SUBSET Sockets]
      <4>1. /\ roomSlug' = [roomSlug EXCEPT ![s] = NoRoom]
            /\ channel' = [channel EXCEPT ![roomSlug[s]] = @ \ {s}]
        BY <1>5, <2>2 DEF JoinAdmitted
      <4>2. roomSlug' \in [Sockets -> Rooms \cup {NoRoom}]
        BY <4>1 DEF HandlersTypeOK
      <4> QED
        BY <3>1, <4>1, <4>2 DEF HandlersTypeOK
    <3> QED
      BY <1>5, <3>3, <3>4 DEF JoinAdmitted, HandlersTypeOK, tabVars
  <2> QED
    BY <2>1, <2>2
<1>6. CASE JoinSubscribe(s, k)
  BY <1>0, <1>1, <1>6 DEF JoinSubscribe, HandlersTypeOK, tabVars, Task
<1>7. CASE JoinSeat(s, k)
  <2> DEFINE r == t.room
             before == KeptPeers(r)[UserOf[s]]
  <2>1. r \in Rooms
    BY <1>0 DEF Task
  <2>2. TimedOut(r) \in SUBSET Sockets
    BY <2>1 DEF TimedOut, Listed, StoreTypeOK, PresenceTypeOK, Participant
  <2>3. before = NoEntry \/ before.peer \in Sockets
    <3>1. before \in Participant \cup {NoEntry}
      BY <2>1, KeptTypes, UserOfAssumption DEF StoreTypeOK
    <3> QED
      BY <3>1 DEF Participant
  <2>4. CASE \E m \in Media : JoinOk(r, s, m)
    <3>1. StoreNext
      BY <1>7, <2>1, <2>4 DEF JoinSeat, StoreNext, PresenceNext
    <3>2. /\ [t EXCEPT !.pc = "settle", !.dead = TimedOut(r),
                 !.prev = IF before = NoEntry \/ before.peer = s THEN Nobody ELSE before.peer] \in Task
          /\ [t EXCEPT !.pc = "full", !.dead = TimedOut(r)] \in Task
      BY <1>0, <2>2, <2>3 DEF Task
    <3>3. tasks' \in [Sockets -> Seq(Task)]
      BY <1>0, <1>7, <3>2, TaskMoves DEF JoinSeat
    <3> QED
      BY <1>7, <3>1, <3>3 DEF JoinSeat, HandlersTypeOK, serverVars, tabVars
  <2>5. CASE JoinFull(r, s) /\ Goto(s, k, [t EXCEPT !.pc = "full", !.dead = TimedOut(r)])
    <3>1. StoreNext
      BY <1>7, <2>1, <2>5 DEF JoinSeat, StoreNext, PresenceNext
    <3>2. [t EXCEPT !.pc = "full", !.dead = TimedOut(r)] \in Task
      BY <1>0, <2>2 DEF Task
    <3>3. tasks' \in [Sockets -> Seq(Task)]
      BY <1>0, <2>5, <3>2, TaskMoves
    <3> QED
      BY <1>7, <3>1, <3>3 DEF JoinSeat, HandlersTypeOK, serverVars, tabVars
  <2> QED
    BY <1>7, <2>4, <2>5 DEF JoinSeat
<1>8. CASE JoinFreeDead(s, k)
  <2>1. PICK d \in t.dead : /\ Release(t.room, d)
                            /\ Goto(s, k, [t EXCEPT !.dead = @ \ {d}])
    BY <1>8 DEF JoinFreeDead
  <2>2. t.room \in Rooms /\ d \in Sockets /\ [t EXCEPT !.dead = @ \ {d}] \in Task
    BY <1>0 DEF Task
  <2>3. tasks' \in [Sockets -> Seq(Task)]
    BY <1>0, <2>1, <2>2, TaskMoves
  <2> QED
    BY <1>8, <2>1, <2>2, <2>3, Releases DEF JoinFreeDead, HandlersTypeOK, serverVars, tabVars
<1>9. CASE JoinTurnedAway(s, k)
  BY <1>0, <1>9, TaskMoves, Answers DEF JoinTurnedAway, HandlersTypeOK, Task, Statuses
<1>10. CASE JoinDisplace(s, k)
  <2>1. t.room \in Rooms
    BY <1>0 DEF Task
  <2>2. /\ page' \in [Sockets -> Rooms \cup {NoRoom}]
        /\ status' \in [Sockets -> Statuses]
        /\ presenting' \subseteq Sockets
    BY <1>10 DEF JoinDisplace, HandlersTypeOK, Statuses
  <2> QED
    BY <1>1, <1>10, <2>1, <2>2 DEF JoinDisplace, HandlersTypeOK
<1>11. CASE JoinFreePrevious(s, k)
  <2>1. t.room \in Rooms /\ [t EXCEPT !.pc = "register", !.prev = Nobody] \in Task
    BY <1>0 DEF Task
  <2>2. tasks' \in [Sockets -> Seq(Task)]
    BY <1>0, <1>11, <2>1, TaskMoves DEF JoinFreePrevious
  <2>3. [StoreNext]_storeVars
    <3>1. CASE t.prev \in Sockets
      BY <1>11, <2>1, <3>1, Releases DEF JoinFreePrevious
    <3>2. CASE t.prev = Nobody
      BY <1>11, <2>1, <3>2 DEF JoinFreePrevious, Release, storeVars, presenceVars, StoreTypeOK
    <3> QED
      BY <1>0, <3>1, <3>2 DEF Task
  <2> QED
    BY <1>11, <2>2, <2>3 DEF JoinFreePrevious, HandlersTypeOK, serverVars, tabVars
<1>12. CASE JoinRegister(s, k)
  BY <1>0, <1>1, <1>12 DEF JoinRegister, HandlersTypeOK, tabVars, Task
<1>13. CASE JoinAnswered(s, k)
  BY <1>0, <1>13, TaskMoves, Answers DEF JoinAnswered, HandlersTypeOK, serverVars, Statuses
<1> QED
  BY <1>2, <1>3, <1>4, <1>5, <1>6, <1>7, <1>8, <1>9, <1>10, <1>11, <1>12, <1>13

\* leaveCurrentRoom.  (A task that is leaving no room changes nothing.)
LEMMA LeaveSteps ==
    ASSUME StoreTypeOK, HandlersTypeOK, NEW s \in Sockets, NEW k \in DOMAIN tasks[s],
           LeaveStart(s, k) \/ LeaveFree(s, k) \/ LeaveUnseat(s, k)
    PROVE  HandlersTypeOK' /\ [StoreNext]_storeVars
<1> DEFINE t == tasks[s][k]
<1>0. /\ t \in Task /\ tasks \in [Sockets -> Seq(Task)]
      /\ t.room \in Rooms /\ t.leaving \in Rooms \cup {NoRoom}
  BY TaskMoves DEF HandlersTypeOK, Task
<1>1. CASE LeaveStart(s, k)
  <2>1. [t EXCEPT !.pc = "free", !.leaving = t.room] \in Task
    BY <1>0 DEF Task
  <2>2. tasks' \in [Sockets -> Seq(Task)]
    BY <1>0, <1>1, <2>1, TaskMoves DEF LeaveStart
  <2>3. /\ roomSlug' \in [Sockets -> Rooms \cup {NoRoom}]
        /\ channel' \in [Rooms -> SUBSET Sockets]
    <3>1. CASE roomSlug[s] = t.room
      <4>1. /\ roomSlug' = [roomSlug EXCEPT ![s] = NoRoom]
            /\ channel' = [channel EXCEPT ![t.room] = @ \ {s}]
        BY <1>1, <3>1 DEF LeaveStart
      <4>2. roomSlug' \in [Sockets -> Rooms \cup {NoRoom}]
        BY <4>1 DEF HandlersTypeOK
      <4> QED
        BY <1>0, <4>1, <4>2 DEF HandlersTypeOK
    <3>2. CASE roomSlug[s] # t.room
      BY <1>1, <3>2 DEF LeaveStart, HandlersTypeOK
    <3> QED
      BY <3>1, <3>2
  <2> QED
    BY <1>1, <2>2, <2>3 DEF LeaveStart, HandlersTypeOK, tabVars
<1>2. CASE LeaveFree(s, k)
  <2>1. [t EXCEPT !.pc = "unseat"] \in Task
    BY <1>0 DEF Task
  <2>2. tasks' \in [Sockets -> Seq(Task)]
    BY <1>0, <1>2, <2>1, TaskMoves DEF LeaveFree, GotoPc
  <2>3. [StoreNext]_storeVars
    <3>1. CASE t.leaving \in Rooms
      BY <1>2, <3>1, Releases DEF LeaveFree
    <3>2. CASE t.leaving \notin Rooms
      BY <1>2, <3>2 DEF LeaveFree, Release, storeVars, presenceVars, StoreTypeOK
    <3> QED
      BY <3>1, <3>2
  <2> QED
    BY <1>2, <2>2, <2>3 DEF LeaveFree, HandlersTypeOK, serverVars, tabVars
<1>3. CASE LeaveUnseat(s, k)
  <2>1. [t EXCEPT !.pc = "subscribe", !.leaving = NoRoom] \in Task
    BY <1>0 DEF Task
  <2>2. tasks' \in [Sockets -> Seq(Task)]
    BY <1>0, <1>3, <2>1, TaskMoves DEF LeaveUnseat
  <2>3. [StoreNext]_storeVars
    <3>1. CASE UNCHANGED presenceVars
      BY <1>3, <3>1 DEF LeaveUnseat, storeVars, presenceVars
    <3>2. CASE Leave(t.leaving, s) /\ t.leaving \in Rooms
      BY <1>3, <3>2 DEF LeaveUnseat, StoreNext, PresenceNext
    <3>3. CASE Leave(t.leaving, s) /\ t.leaving \notin Rooms
      BY <1>3, <3>3 DEF LeaveUnseat, Leave, storeVars, StoreTypeOK, PresenceTypeOK
    <3> QED
      BY <1>3, <3>1, <3>2, <3>3 DEF LeaveUnseat
  <2> QED
    BY <1>3, <2>2, <2>3 DEF LeaveUnseat, HandlersTypeOK, serverVars, tabVars
<1> QED
  BY <1>1, <1>2, <1>3

\* screen:claim and screen:release.
LEMMA ScreenSteps ==
    ASSUME StoreTypeOK, HandlersTypeOK, NEW s \in Sockets, NEW k \in DOMAIN tasks[s],
           ScreenStart(s, k) \/ ScreenClaim(s, k) \/ ScreenRelease(s, k)
    PROVE  HandlersTypeOK' /\ [StoreNext]_storeVars
<1> DEFINE t == tasks[s][k]
<1>0. t \in Task /\ tasks \in [Sockets -> Seq(Task)] /\ t.room \in Rooms
  BY TaskMoves DEF HandlersTypeOK, Task
<1>1. CASE ScreenStart(s, k)
  <2>1. t.kind \in {"claim", "release"} => [t EXCEPT !.pc = t.kind] \in Task
    BY <1>0 DEF Task
  <2>2. tasks' \in [Sockets -> Seq(Task)]
    BY <1>0, <1>1, <2>1, TaskMoves DEF ScreenStart, GotoPc
  <2> QED
    BY <1>1, <2>2 DEF ScreenStart, HandlersTypeOK, serverVars, tabVars
<1>2. CASE ScreenClaim(s, k)
  <2>1. tasks' \in [Sockets -> Seq(Task)]
    BY <1>0, <1>2, TaskMoves DEF ScreenClaim
  <2>2. StoreNext
    BY <1>0, <1>2 DEF ScreenClaim, StoreNext
  <2>3. presenting' \subseteq Sockets
    BY <1>2 DEF ScreenClaim, HandlersTypeOK
  <2> QED
    BY <1>2, <2>1, <2>2, <2>3 DEF ScreenClaim, HandlersTypeOK, serverVars
<1>3. CASE ScreenRelease(s, k)
  BY <1>0, <1>3, TaskMoves, Releases DEF ScreenRelease, HandlersTypeOK, serverVars, tabVars
<1> QED
  BY <1>1, <1>2, <1>3

\* The timers of a process.
LEMMA TimerSteps ==
    ASSUME StoreTypeOK, HandlersTypeOK, NEW i \in Instances, TimerStep(i)
    PROVE  HandlersTypeOK' /\ [StoreNext]_storeVars
<1>1. CASE Beat(i)
  <2> DEFINE entries == {<<roomSlug[s], s>> :
                            s \in {x \in up : InstanceOf[x] = i /\ roomSlug[x] # NoRoom}}
  <2>1. entries \in SUBSET (Rooms \X Sockets)
    BY DEF HandlersTypeOK
  <2>2. StoreNext
    <3>1. Heartbeat(entries) /\ UNCHANGED screen
      BY <1>1 DEF Beat
    <3> QED
      BY <2>1, <3>1 DEF StoreNext, PresenceNext
  <2> QED
    BY <1>1, <2>2 DEF Beat, HandlersTypeOK, tabVars
<1>2. ASSUME NEW r \in Rooms, SweepRoom(i, r)
      PROVE  HandlersTypeOK' /\ [StoreNext]_storeVars
  <2>1. TimedOut(r) \in SUBSET Sockets
    BY DEF TimedOut, Listed, StoreTypeOK, PresenceTypeOK, Participant
  <2>2. {<<r, d>> : d \in TimedOut(r)} \in SUBSET (Rooms \X Sockets)
    BY <2>1
  <2>3. freeing' \in [Instances -> SUBSET (Rooms \X Sockets)]
    BY <1>2, <2>2 DEF SweepRoom, HandlersTypeOK
  <2>4. StoreNext
    BY <1>2 DEF SweepRoom, StoreNext, PresenceNext
  <2> QED
    BY <1>2, <2>3, <2>4 DEF SweepRoom, HandlersTypeOK, tabVars
<1>3. ASSUME NEW r \in Rooms, NEW s \in Sockets, SweepFree(i, r, s)
      PROVE  HandlersTypeOK' /\ [StoreNext]_storeVars
  <2>1. freeing' \in [Instances -> SUBSET (Rooms \X Sockets)]
    BY <1>3 DEF SweepFree, HandlersTypeOK
  <2> QED
    BY <1>3, <2>1, Releases DEF SweepFree, HandlersTypeOK, tabVars
<1> QED
  BY <1>1, <1>2, <1>3 DEF TimerStep

\* The end of a meeting.
LEMMA EndSteps ==
    ASSUME StoreTypeOK, HandlersTypeOK, NEW r \in Rooms, EndRoom(r) \/ EndStep(r)
    PROVE  HandlersTypeOK' /\ [StoreNext]_storeVars
<1>1. CASE EndRoom(r)
  BY <1>1 DEF EndRoom, HandlersTypeOK, Endings, tabVars
<1>2. CASE AnnounceEnded(r)
  <2>1. status' \in [Sockets -> Statuses]
    BY <1>2 DEF AnnounceEnded, HandlersTypeOK, Statuses
  <2> QED
    BY <1>2, <2>1 DEF AnnounceEnded, HandlersTypeOK, Endings
<1>3. CASE EndedClearScreen(r)
  BY <1>3 DEF EndedClearScreen, StoreNext, HandlersTypeOK, Endings, tabVars
<1>4. CASE EndedClearRoom(r)
  BY <1>4 DEF EndedClearRoom, StoreNext, PresenceNext, HandlersTypeOK, Endings, tabVars
<1> QED
  BY <1>1, <1>2, <1>3, <1>4 DEF EndStep

\* The tab stops waiting, and possibly asks for something else.
LEMMA Forgets ==
    ASSUME HandlersTypeOK, NEW s \in Sockets
    PROVE  /\ Forget(tasks[s]) \in Seq(Task)
           /\ \A kind \in {"join", "leave", "claim", "release"}, r \in Rooms :
                 /\ NewTask(kind, r) \in Task
                 /\ [NewTask(kind, r) EXCEPT !.pc = "free", !.leaving = r] \in Task
<1>1. \A kind \in {"join", "leave", "claim", "release"}, r \in Rooms : NewTask(kind, r) \in Task
  BY DEF NewTask, Task
<1>2. \A t \in Task, r \in Rooms : [t EXCEPT !.pc = "free", !.leaving = r] \in Task
  BY DEF Task
<1>3. tasks[s] \in Seq(Task)
  BY DEF HandlersTypeOK
<1>4. Forget(tasks[s]) \in Seq(Task)
  BY <1>3, Forgetting
<1> QED
  BY <1>1, <1>2, <1>4

\* What a person does in a tab never touches Redis itself.
LEMMA TabSteps ==
    ASSUME StoreTypeOK, HandlersTypeOK, NEW s \in Sockets, TabStep(s)
    PROVE  HandlersTypeOK' /\ [StoreNext]_storeVars
<1>0. /\ tasks \in [Sockets -> Seq(Task)] /\ tasks[s] \in Seq(Task)
      /\ page \in [Sockets -> Rooms \cup {NoRoom}] /\ status \in [Sockets -> Statuses]
  BY DEF HandlersTypeOK
<1>1. ASSUME NEW r \in Rooms, OpenRoom(s, r)
      PROVE  HandlersTypeOK' /\ [StoreNext]_storeVars
  <2>1. tasks' \in [Sockets -> Seq(Task)]
    BY <1>0, <1>1, Forgets, TaskMoves DEF OpenRoom
  <2> QED
    BY <1>1, <2>1 DEF OpenRoom, HandlersTypeOK, Statuses, serverVars
<1>2. CASE Rejoin(s)
  <2>1. page[s] \in Rooms => tasks' \in [Sockets -> Seq(Task)]
    BY <1>0, <1>2, Forgets, TaskMoves DEF Rejoin
  <2>2. page[s] \in Rooms
    BY <1>2 DEF Rejoin, HandlersTypeOK
  <2> QED
    BY <1>2, <2>1, <2>2 DEF Rejoin, HandlersTypeOK, Statuses, serverVars
<1>3. CASE CloseRoom(s)
  <2>1. page[s] \in Rooms
    BY <1>0, <1>3 DEF CloseRoom
  <2>2. Forget(tasks[s]) \in Seq(Task) /\ NewTask("leave", page[s]) \in Task
    BY <2>1, Forgets
  <2>3. Append(Forget(tasks[s]), NewTask("leave", page[s])) \in Seq(Task)
    BY <2>2, Queues
  <2>4. tasks' \in [Sockets -> Seq(Task)]
    BY <1>0, <1>3, <2>2, <2>3 DEF CloseRoom
  <2> QED
    BY <1>3, <2>4 DEF CloseRoom, HandlersTypeOK, Statuses, serverVars
<1>4. CASE AckTimeout(s)
  <2>1. tasks' \in [Sockets -> Seq(Task)]
    BY <1>0, <1>4, Forgets DEF AckTimeout
  <2> QED
    BY <1>4, <2>1 DEF AckTimeout, HandlersTypeOK, Statuses, serverVars
<1>5. CASE StartShare(s)
  <2>1. page[s] \in Rooms => tasks' \in [Sockets -> Seq(Task)]
    BY <1>0, <1>5, Forgets, TaskMoves DEF StartShare
  <2>2. page[s] \in Rooms
    BY <1>5 DEF StartShare, HandlersTypeOK
  <2> QED
    BY <1>5, <2>1, <2>2 DEF StartShare, HandlersTypeOK, serverVars, tabVars
<1>6. CASE StopShare(s)
  <2>1. page[s] \in Rooms => tasks' \in [Sockets -> Seq(Task)]
    BY <1>0, <1>6, Forgets, TaskMoves DEF StopShare
  <2>2. page[s] \in Rooms
    BY <1>6 DEF StopShare, HandlersTypeOK
  <2> QED
    BY <1>6, <2>1, <2>2 DEF StopShare, HandlersTypeOK, serverVars
<1> QED
  BY <1>1, <1>2, <1>3, <1>4, <1>5, <1>6 DEF TabStep

\* A tab loses its connection, a process dies: Redis keeps what it has.
LEMMA FaultSteps ==
    ASSUME StoreTypeOK, HandlersTypeOK,
           (\E s \in Sockets : Disconnect(s)) \/ (\E i \in Instances : Crash(i))
    PROVE  HandlersTypeOK' /\ [StoreNext]_storeVars
<1>1. ASSUME NEW s \in Sockets, Disconnect(s)
      PROVE  HandlersTypeOK' /\ [StoreNext]_storeVars
  <2> DEFINE r == roomSlug[s]
             cleanup == [NewTask("leave", r) EXCEPT !.pc = "free", !.leaving = r]
             left == Forget(tasks[s]) \o (IF r = NoRoom THEN <<>> ELSE <<cleanup>>)
  <2>1. left \in Seq(Task)
    <3>1. Forget(tasks[s]) \in Seq(Task)
      BY Forgets
    <3>2. CASE r = NoRoom
      BY <3>1, <3>2, ConcatProperties, EmptySeq
    <3>3. CASE r # NoRoom
      <4>1. r \in Rooms
        BY <3>3 DEF HandlersTypeOK
      <4>2. cleanup \in Task
        BY <4>1, Forgets
      <4>3. <<cleanup>> \in Seq(Task)
        BY <4>2
      <4> QED
        BY <3>1, <3>3, <4>3, ConcatProperties
    <3> QED
      BY <3>2, <3>3
  <2>2. tasks' = [tasks EXCEPT ![s] = left]
    BY <1>1 DEF Disconnect
  <2>3. tasks' \in [Sockets -> Seq(Task)]
    BY <2>1, <2>2 DEF HandlersTypeOK
  <2> QED
    BY <1>1, <2>3 DEF Disconnect, HandlersTypeOK, Statuses
<1>2. ASSUME NEW i \in Instances, Crash(i)
      PROVE  HandlersTypeOK' /\ [StoreNext]_storeVars
  <2>1. tasks' \in [Sockets -> Seq(Task)]
    BY <1>2, EmptySeq DEF Crash, HandlersTypeOK
  <2>2. freeing' \in [Instances -> SUBSET (Rooms \X Sockets)]
    <3> DEFINE gone == {s \in Sockets : InstanceOf[s] = i}
               lost == UNION {UNION {ToFree(s, tasks[s][k]) : k \in DOMAIN tasks[s]} : s \in gone}
    <3>1. \A s \in Sockets : \A k \in DOMAIN tasks[s] :
             ToFree(s, tasks[s][k]) \subseteq Rooms \X Sockets
      BY DEF ToFree
    <3>2. lost \subseteq Rooms \X Sockets
      BY <3>1
    <3>3. freeing' = [freeing EXCEPT ![i] = @ \cup lost]
      BY <1>2 DEF Crash
    <3> HIDE DEF lost
    <3> QED
      BY <3>2, <3>3 DEF HandlersTypeOK
  <2>3. roomSlug' \in [Sockets -> Rooms \cup {NoRoom}] /\ page' \in [Sockets -> Rooms \cup {NoRoom}]
    BY <1>2 DEF Crash, HandlersTypeOK
  <2>4. channel' \in [Rooms -> SUBSET Sockets] /\ status' \in [Sockets -> Statuses]
    BY <1>2 DEF Crash, HandlersTypeOK, Statuses
  <2> QED
    BY <1>2, <2>1, <2>2, <2>3, <2>4 DEF Crash, HandlersTypeOK
<1> QED
  BY <1>1, <1>2

-----------------------------------------------------------------------------
(* The store alone.                                                        *)

\* What the scripts of the slot do to presence: nothing.
LEMMA StoreIsPresence == [StoreNext]_storeVars => [PresenceNext]_presenceVars
BY DEF StoreNext, storeVars, presenceVars, ClaimOk, ClaimBusy, Release, ClearScreen

\* Every script keeps the store's types.
LEMMA StoreTypeStep == StoreTypeOK /\ [StoreNext]_storeVars => StoreTypeOK'
<1> SUFFICES ASSUME StoreTypeOK, [StoreNext]_storeVars PROVE StoreTypeOK'
  OBVIOUS
<1>1. PresenceTypeOK'
  BY StoreIsPresence, TypeStep DEF StoreTypeOK
<1>2. screen' \in [Rooms -> Sockets \cup {Nobody}]
  BY DEF StoreTypeOK, StoreNext, storeVars, ClaimOk, ClaimBusy, Release, ClearScreen
<1> QED
  BY <1>1, <1>2 DEF StoreTypeOK

\* The store keeps everything presence promises.
LEMMA StoreKeepsPresence == StoreSpec => PresenceSpec
<1>1. StoreInit => PresenceInit
  BY DEF StoreInit
<1> QED
  BY <1>1, StoreIsPresence, PTL DEF StoreSpec, PresenceSpec

-----------------------------------------------------------------------------
(* The gateway.                                                            *)

\* Every step of the gateway keeps all types and is one script or none.
LEMMA GatewayStep ==
    ASSUME TypeOK, [Next]_gatewayVars
    PROVE  TypeOK' /\ [StoreNext]_storeVars
<1>0. StoreTypeOK /\ HandlersTypeOK
  BY DEF TypeOK, HandlersTypeOK
<1>1. HandlersTypeOK' /\ [StoreNext]_storeVars
  <2>1. CASE UNCHANGED gatewayVars
    BY <1>0, <2>1 DEF gatewayVars, storeVars, HandlersTypeOK
  <2>2. ASSUME NEW s \in Sockets, NEW k \in DOMAIN tasks[s], TaskStep(s, k)
        PROVE  HandlersTypeOK' /\ [StoreNext]_storeVars
    BY <1>0, <2>2, JoinSteps, LeaveSteps, ScreenSteps DEF TaskStep
  <2>3. ASSUME NEW s \in Sockets, TabStep(s) \/ Disconnect(s)
        PROVE  HandlersTypeOK' /\ [StoreNext]_storeVars
    BY <1>0, <2>3, TabSteps, FaultSteps
  <2>4. ASSUME NEW i \in Instances, TimerStep(i) \/ Crash(i)
        PROVE  HandlersTypeOK' /\ [StoreNext]_storeVars
    BY <1>0, <2>4, TimerSteps, FaultSteps
  <2>5. ASSUME NEW r \in Rooms, EndRoom(r) \/ EndStep(r)
        PROVE  HandlersTypeOK' /\ [StoreNext]_storeVars
    BY <1>0, <2>5, EndSteps
  <2>6. CASE TimePasses
    BY <1>0, <2>6 DEF TimePasses, StoreNext, PresenceNext, HandlersTypeOK, tabVars
  <2> QED
    BY <2>1, <2>2, <2>3, <2>4, <2>5, <2>6 DEF Next
<1>2. StoreTypeOK'
  BY <1>0, <1>1, StoreTypeStep
<1> QED
  BY <1>1, <1>2 DEF TypeOK, HandlersTypeOK

\* The gateway starts with nobody connected to a room.
LEMMA GatewayStart == Init => TypeOK /\ StoreInit
<1> SUFFICES ASSUME Init PROVE TypeOK
  BY DEF Init
<1>1. StoreTypeOK
  <2>1. PresenceTypeOK
    BY PresenceStart DEF Init, StoreInit, PresenceInv
  <2> QED
    BY <2>1 DEF Init, StoreInit, StoreTypeOK
<1>2. tasks \in [Sockets -> Seq(Task)]
  BY EmptySeq DEF Init
<1> QED
  BY <1>1, <1>2 DEF Init, TypeOK, Endings, Statuses

\* The types hold whatever interleaves, fails or crashes.
THEOREM GatewayTypes == Spec => []TypeOK
<1>1. TypeOK /\ [Next]_gatewayVars => TypeOK'
  BY GatewayStep
<1> QED
  BY <1>1, GatewayStart, PTL DEF Spec

\* The asynchronous gateway implements the atomic store: whatever its handlers,
\* timers and faults do, Redis sees one script after the other, each for a
\* socket, a room and a participant of the right kind.
THEOREM GatewayImplementsStore == Spec => StoreSpec
<1>1. TypeOK /\ [Next]_gatewayVars => [StoreNext]_storeVars
  BY GatewayStep
<1> QED
  BY <1>1, GatewayTypes, GatewayStart, PTL DEF Spec, StoreSpec

\* So no interleaving of joins, displacements, sweeps and ends of meetings over
\* any number of processes ever seats more people than a room has seats.
THEOREM GatewayNeverOverfull == Spec => []Capacity
BY GatewayImplementsStore, StoreKeepsPresence, NeverOverfull, PTL

\* Nor do the two keys of a room come to disagree, whatever is half done.
THEOREM GatewayKeysAgree == Spec => []SeatsBeat
BY GatewayImplementsStore, StoreKeepsPresence, KeysAgree, PTL

-----------------------------------------------------------------------------
(* Who is seated in a room, who hears it and who presents in it.  What the *)
(* theorems assume of Faults is what the code does not guard against: see  *)
(* each of them.                                                           *)

HIDE DEF NoBeat


-----------------------------------------------------------------------------
(* Where the tasks of a queue come from when one of them moves on or ends. *)

\* What is left of a queue is what was in it, in the same order.
LEMMA Removed ==
    ASSUME NEW q \in Seq(Task), NEW k \in DOMAIN q
    PROVE  /\ RemoveAt(q, k) \in Seq(Task)
           /\ Len(RemoveAt(q, k)) = Len(q) - 1
           /\ \A j \in 1 .. Len(q) - 1 :
                 RemoveAt(q, k)[j] = IF j < k THEN q[j] ELSE q[j + 1]
<1>1. k \in 1 .. Len(q) /\ Len(q) \in Nat
  OBVIOUS
<1> DEFINE a == SubSeq(q, 1, k - 1)
           b == SubSeq(q, k + 1, Len(q))
<1>2. /\ a \in Seq(Task) /\ Len(a) = k - 1
      /\ \A j \in 1 .. k - 1 : a[j] = q[j]
  BY <1>1, SubSeqProperties
<1>3. /\ b \in Seq(Task) /\ Len(b) = Len(q) - k
      /\ \A j \in 1 .. Len(q) - k : b[j] = q[j + k]
  BY <1>1, SubSeqProperties
<1> HIDE DEF a, b
<1>4. a \o b \in Seq(Task) /\ Len(a \o b) = Len(q) - 1
  BY <1>1, <1>2, <1>3, ConcatProperties
<1>5. ASSUME NEW j \in 1 .. Len(q) - 1
      PROVE  (a \o b)[j] = IF j < k THEN q[j] ELSE q[j + 1]
  <2>1. CASE j < k
    BY <1>1, <1>2, <1>3, <2>1, ConcatProperties
  <2>2. CASE ~(j < k)
    <3>0. j \in 1 .. Len(a) + Len(b) /\ ~(j <= Len(a)) /\ j - Len(a) = j - (k - 1)
      BY <1>1, <1>2, <1>3, <2>2
    <3>1. (a \o b)[j] = b[j - (k - 1)]
      BY <1>2, <1>3, <3>0, ConcatProperties
    <3>2. b[j - (k - 1)] = q[j + 1]
      BY <1>1, <1>3, <2>2
    <3> QED
      BY <2>2, <3>1, <3>2
  <2> QED
    BY <2>1, <2>2
<1>6. RemoveAt(q, k) = a \o b
  BY DEF RemoveAt, a, b
<1> QED
  BY <1>4, <1>5, <1>6

\* The task that was k-th in the queue of s is u now; f says which task each of
\* the queue was, and g which it has become.
Moves(s, k, u, f, g) ==
    LET D == DOMAIN tasks[s] IN
    /\ DOMAIN tasks'[s] = D
    /\ f \in [D -> D] /\ g \in [D -> D]
    /\ \A j \in D : f[g[j]] = j /\ g[f[j]] = j
    /\ tasks'[s][g[k]] = u
    /\ \A j \in D \ {k} : tasks'[s][g[j]] = tasks[s][j]
    /\ \A i, j \in D \ {k} : i < j => g[i] < g[j]
    /\ IF Waits(u) THEN g[k] = Len(tasks[s]) ELSE g = [j \in D |-> j]

\* The task that was k-th in the queue of s has ended.
Ends(s, k, f, g) ==
    LET D == DOMAIN tasks[s]  E == DOMAIN tasks'[s] IN
    /\ f \in [E -> D \ {k}] /\ g \in [D \ {k} -> E]
    /\ \A j \in E : g[f[j]] = j /\ tasks'[s][j] = tasks[s][f[j]]
    /\ \A j \in D \ {k} : f[g[j]] = j /\ tasks'[s][g[j]] = tasks[s][j]
    /\ \A i, j \in D \ {k} : i < j => g[i] < g[j]

\* What Goto does to a queue.
LEMMA GotoMoves ==
    ASSUME tasks \in [Sockets -> Seq(Task)], NEW s \in Sockets,
           NEW k \in DOMAIN tasks[s], NEW u \in Task, Goto(s, k, u)
    PROVE  /\ \E f, g : Moves(s, k, u, f, g)
           /\ \A x \in Sockets \ {s} : tasks'[x] = tasks[x]
<1> DEFINE q == tasks[s]
           D == DOMAIN q
           n == Len(q)
<1>1. /\ q \in Seq(Task) /\ n \in Nat /\ D = 1 .. n /\ k \in 1 .. n
      /\ \A x \in Sockets \ {s} : tasks'[x] = tasks[x]
      /\ tasks'[s] = IF Waits(u) THEN Append(RemoveAt(q, k), u) ELSE ReplaceAt(q, k, u)
  BY DEF Goto
<1>2. CASE Waits(u)
  <2> DEFINE f == [j \in D |-> IF j < k THEN j ELSE IF j = n THEN k ELSE j + 1]
             g == [j \in D |-> IF j < k THEN j ELSE IF j = k THEN n ELSE j - 1]
  <2>1. /\ tasks'[s] \in Seq(Task) /\ Len(tasks'[s]) = n
        /\ tasks'[s][n] = u
        /\ \A j \in 1 .. n - 1 : tasks'[s][j] = IF j < k THEN q[j] ELSE q[j + 1]
    <3>1. /\ RemoveAt(q, k) \in Seq(Task) /\ Len(RemoveAt(q, k)) = n - 1
          /\ \A j \in 1 .. n - 1 : RemoveAt(q, k)[j] = IF j < k THEN q[j] ELSE q[j + 1]
      BY <1>1, Removed
    <3>2. tasks'[s] = Append(RemoveAt(q, k), u)
      BY <1>1, <1>2
    <3> DEFINE p == RemoveAt(q, k)
    <3>3. p \in Seq(Task) /\ Len(p) = n - 1 /\ tasks'[s] = Append(p, u)
      BY <3>1, <3>2
    <3>4. \A j \in 1 .. n - 1 : p[j] = IF j < k THEN q[j] ELSE q[j + 1]
      BY <3>1
    <3> HIDE DEF p
    <3>5. /\ tasks'[s] \in Seq(Task) /\ Len(tasks'[s]) = (n - 1) + 1
          /\ \A j \in 1 .. n - 1 : tasks'[s][j] = p[j]
          /\ tasks'[s][(n - 1) + 1] = u
      BY <3>3, AppendProperties
    <3>6. (n - 1) + 1 = n
      BY <1>1
    <3> QED
      BY <3>4, <3>5, <3>6
  <2>2. f \in [D -> D] /\ g \in [D -> D] /\ \A j \in D : f[g[j]] = j /\ g[f[j]] = j
    BY <1>1
  <2>3. /\ g[k] = n
        /\ \A j \in D \ {k} : g[j] \in 1 .. n - 1 /\ tasks'[s][g[j]] = q[j]
    <3>1. g[k] = n
      BY <1>1
    <3>2. ASSUME NEW j \in D \ {k}
          PROVE  g[j] \in 1 .. n - 1 /\ tasks'[s][g[j]] = q[j]
      <4>1. j \in 1 .. n /\ j # k
        BY <1>1
      <4>2. CASE j < k
        <5>1. g[j] = j
          BY <4>1, <4>2
        <5>2. j \in 1 .. n - 1
          BY <1>1, <4>1, <4>2
        <5> HIDE DEF g
        <5> QED
          BY <2>1, <4>2, <5>1, <5>2
      <4>3. CASE ~(j < k)
        <5>1. g[j] = j - 1
          BY <4>1, <4>3
        <5>2. j - 1 \in 1 .. n - 1 /\ ~(j - 1 < k) /\ (j - 1) + 1 = j
          BY <1>1, <4>1, <4>3
        <5> HIDE DEF g
        <5> QED
          BY <2>1, <5>1, <5>2
      <4> QED
        BY <4>2, <4>3
    <3> QED
      BY <3>1, <3>2
  <2>4. DOMAIN tasks'[s] = D
    <3>1. DOMAIN tasks'[s] = 1 .. Len(tasks'[s])
      BY <2>1, LenProperties
    <3> QED
      BY <1>1, <2>1, <3>1
  <2>5. \A i, j \in D \ {k} : i < j => g[i] < g[j]
    BY <1>1
  <2> HIDE DEF f, g
  <2>6. g[k] = Len(tasks[s]) /\ tasks'[s][g[k]] = u
    BY <2>1, <2>3
  <2>7. \A j \in D \ {k} : tasks'[s][g[j]] = tasks[s][j]
    BY <2>3
  <2>8. Moves(s, k, u, f, g)
    BY <1>2, <2>2, <2>4, <2>5, <2>6, <2>7 DEF Moves
  <2> QED
    BY <1>1, <2>8
<1>3. CASE ~Waits(u)
  <2> DEFINE f == [j \in D |-> j]
  <2>0. tasks'[s] = ReplaceAt(q, k, u)
    BY <1>1, <1>3
  <2>1. tasks'[s] = [q EXCEPT ![k] = u]
    BY <2>0 DEF ReplaceAt
  <2>2. Moves(s, k, u, f, f)
    BY <1>1, <1>3, <2>1 DEF Moves
  <2> QED
    BY <1>1, <2>2
<1> QED
  BY <1>2, <1>3

\* What Finish does to it.
LEMMA FinishEnds ==
    ASSUME tasks \in [Sockets -> Seq(Task)], NEW s \in Sockets,
           NEW k \in DOMAIN tasks[s], Finish(s, k)
    PROVE  /\ \E f, g : Ends(s, k, f, g)
           /\ \A x \in Sockets \ {s} : tasks'[x] = tasks[x]
<1> DEFINE q == tasks[s]
           D == DOMAIN q
           n == Len(q)
           f == [j \in 1 .. n - 1 |-> IF j < k THEN j ELSE j + 1]
           g == [j \in D \ {k} |-> IF j < k THEN j ELSE j - 1]
<1>1. /\ q \in Seq(Task) /\ n \in Nat /\ D = 1 .. n /\ k \in 1 .. n
      /\ \A x \in Sockets \ {s} : tasks'[x] = tasks[x]
      /\ tasks'[s] = RemoveAt(q, k)
  BY DEF Finish
<1>2. /\ tasks'[s] \in Seq(Task) /\ Len(tasks'[s]) = n - 1
      /\ \A j \in 1 .. n - 1 : tasks'[s][j] = IF j < k THEN q[j] ELSE q[j + 1]
  BY <1>1, Removed
<1>3. DOMAIN tasks'[s] = 1 .. n - 1
  BY <1>2
<1>4. f \in [1 .. n - 1 -> D \ {k}] /\ g \in [D \ {k} -> 1 .. n - 1]
  BY <1>1
<1>5. \A j \in 1 .. n - 1 : g[f[j]] = j /\ tasks'[s][j] = q[f[j]]
  BY <1>1, <1>2
<1>6. \A j \in D \ {k} : f[g[j]] = j /\ tasks'[s][g[j]] = q[j]
  BY <1>1, <1>2
<1>7. \A i, j \in D \ {k} : i < j => g[i] < g[j]
  BY <1>1
<1> HIDE DEF f, g
<1>8. Ends(s, k, f, g)
  BY <1>3, <1>4, <1>5, <1>6, <1>7 DEF Ends
<1> QED
  BY <1>1, <1>8

-----------------------------------------------------------------------------
(* The inductive invariants.                                               *)

\* A handler that moves its socket between rooms, one that has taken a seat
\* without saying so yet, and one that has not come to the seat.
Moving(t) == t.kind \in {"join", "leave"}
Seating(t) == t.kind = "join" /\ t.pc \in {"settle", "freePrevious", "register"}
Early(t) == t.kind = "join" /\ t.pc \in {"start", "limit", "admit"}

\* What a handler has yet to do agrees with what it is.
Shape(t) ==
    /\ \/ t.kind = "join" /\ t.pc \notin {"claim", "release"}
       \/ t.kind = "leave" /\ t.pc \in {"start", "free", "unseat"}
       \/ t.kind = "claim" /\ t.pc \in {"start", "claim"}
       \/ t.kind = "release" /\ t.pc \in {"start", "release"}
    /\ t.leaving # NoRoom <=> t.pc \in {"free", "unseat"}
    /\ t.kind = "join" => t.leaving # t.room
    /\ t.kind = "leave" => t.leaving \in {NoRoom, t.room}
    /\ t.prev # Nobody => t.pc \in {"settle", "freePrevious"}
    /\ t.dead # {} => t.pc \in {"settle", "full"}

Shapes == \A s \in Sockets : \A k \in DOMAIN tasks[s] : Shape(tasks[s][k])

\* A socket that is gone shows nothing, and nobody waits for its answers.
Gone ==
    /\ \A s \in Sockets \ up :
          /\ status[s] = "connecting" /\ page[s] = NoRoom
          /\ \A k \in DOMAIN tasks[s] : tasks[s][k].mine => tasks[s][k].kind = "leave"
    /\ \A s \in up : InstanceOf[s] \in alive

\* One handler at a time moves a socket: of a socket that is gone one join may
\* go on beside the cleanup.
OneMove ==
    \A s \in Sockets : \A j, k \in DOMAIN tasks[s] :
        /\ tasks[s][j].kind = "join" /\ tasks[s][k].kind = "join" => j = k
        /\ s \in up /\ Moving(tasks[s][j]) /\ Moving(tasks[s][k]) => j = k

\* None while the tab shows that it has joined.
Settled ==
    \A s \in Sockets : status[s] = "joined" => \A k \in DOMAIN tasks[s] : ~Moving(tasks[s][k])

\* A join that was admitted finds no other room under roomSlug.
PastAdmission ==
    \A s \in Sockets : \A k \in DOMAIN tasks[s] :
        LET t == tasks[s][k] IN
        t.kind = "join" /\ ~Early(t) => roomSlug[s] \in {NoRoom, t.room}

\* For the seat that the socket of a running process holds there is a reason:
\* the socket is in the room, is about to be, or is giving the seat up.
Accounted ==
    \A s \in Sockets, r \in Rooms :
        InstanceOf[s] \in alive /\ Seated(r, s) =>
            \/ roomSlug[s] = r
            \/ \E k \in DOMAIN tasks[s] :
                  \/ Seating(tasks[s][k]) /\ tasks[s][k].room = r
                  \/ tasks[s][k].leaving = r

MoveInv == Shapes /\ Gone /\ OneMove /\ Settled /\ PastAdmission /\ Accounted

-----------------------------------------------------------------------------
\* The queue of x holds what is left of it, in the same order.
Continued(x) ==
    \E f \in [DOMAIN tasks'[x] -> DOMAIN tasks[x]] :
        /\ \A i, j \in DOMAIN tasks'[x] : f[i] = f[j] => i = j
        /\ \A j \in DOMAIN tasks'[x] : tasks'[x][j].kind = tasks[x][f[j]].kind

\* A queue nothing happens to is continued.
LEMMA Unchanged ==
    ASSUME NEW x, tasks'[x] = tasks[x]
    PROVE  Continued(x)
<1> DEFINE id == [j \in DOMAIN tasks[x] |-> j]
<1>1. id \in [DOMAIN tasks'[x] -> DOMAIN tasks[x]] /\ \A j \in DOMAIN tasks[x] : id[j] = j
  OBVIOUS
<1> HIDE DEF id
<1> QED
  BY <1>1 DEF Continued

\* Queues that only get shorter keep one mover each.
LEMMA ContinuedMoves ==
    ASSUME OneMove, up' \subseteq up, \A x \in Sockets : Continued(x)
    PROVE  OneMove'
<1> SUFFICES ASSUME NEW x \in Sockets, NEW i \in DOMAIN tasks'[x], NEW j \in DOMAIN tasks'[x]
             PROVE  /\ tasks'[x][i].kind = "join" /\ tasks'[x][j].kind = "join" => i = j
                    /\ x \in up' /\ Moving(tasks'[x][i]) /\ Moving(tasks'[x][j]) => i = j
  BY DEF OneMove, Moving
<1>1. PICK f \in [DOMAIN tasks'[x] -> DOMAIN tasks[x]] :
        /\ \A a, b \in DOMAIN tasks'[x] : f[a] = f[b] => a = b
        /\ \A a \in DOMAIN tasks'[x] : tasks'[x][a].kind = tasks[x][f[a]].kind
  BY DEF Continued
<1>2. f[i] \in DOMAIN tasks[x] /\ f[j] \in DOMAIN tasks[x]
  OBVIOUS
<1> QED
  BY <1>1, <1>2 DEF OneMove, Moving

\* And a joined tab's none.
LEMMA ContinuedSettles ==
    ASSUME Settled, NEW x \in Sockets, Continued(x), status[x] = "joined"
    PROVE  \A k \in DOMAIN tasks'[x] : ~Moving(tasks'[x][k])
BY DEF Settled, Continued, Moving

\* Of a script only JOIN seats anybody.
LEMMA SeatsLost ==
    ASSUME StoreTypeOK, NEW r \in Rooms, NEW s \in Sockets,
           \/ JoinFull(r, s) \/ Leave(r, s) \/ Sweep(r) \/ ClearRoom(r) \/ Tick
           \/ \E e \in SUBSET (Rooms \X Sockets) : Heartbeat(e)
    PROVE  \A x \in Rooms, y \in Sockets : Seated(x, y)' => Seated(x, y)
<1> USE UserOfAssumption DEF Seated, StoreTypeOK, PresenceTypeOK, KeptPeers
<1>1. CASE JoinFull(r, s)
  BY <1>1 DEF JoinFull
<1>2. CASE Leave(r, s)
  BY <1>2 DEF Leave
<1>3. CASE Sweep(r)
  BY <1>3 DEF Sweep
<1>4. CASE ClearRoom(r)
  BY <1>4 DEF ClearRoom
<1>5. CASE Tick
  BY <1>5 DEF Tick
<1>6. CASE \E e \in SUBSET (Rooms \X Sockets) : Heartbeat(e)
  BY <1>6 DEF Heartbeat
<1> QED
  BY <1>1, <1>2, <1>3, <1>4, <1>5, <1>6

\* And only its own socket.
LEMMA SeatTaken ==
    ASSUME StoreTypeOK, NEW r \in Rooms, NEW s \in Sockets, NEW m \in Media, JoinOk(r, s, m)
    PROVE  \A x \in Rooms, y \in Sockets : Seated(x, y)' => Seated(x, y) \/ (x = r /\ y = s)
BY UserOfAssumption DEF Seated, StoreTypeOK, PresenceTypeOK, KeptPeers, JoinOk

\* A handler that moves on.
LEMMA MoveOn ==
    ASSUME HandlersTypeOK, MoveInv, NEW s \in Sockets, NEW k \in DOMAIN tasks[s], NEW u \in Task,
           Goto(s, k, u), Shape(u),
           u.kind = tasks[s][k].kind, u.room = tasks[s][k].room, u.mine = tasks[s][k].mine,
           up' = up, alive' = alive, page' = page,
           \A x \in Sockets : /\ status'[x] = "joined" => status[x] = "joined"
                              /\ x \notin up => status'[x] = status[x]
                              /\ x # s => roomSlug'[x] = roomSlug[x],
           roomSlug'[s] \in {roomSlug[s], NoRoom, u.room},
           u.kind = "join" /\ ~Early(u) => roomSlug'[s] \in {NoRoom, u.room},
           roomSlug'[s] = roomSlug[s] \/ (u.kind = "join" /\ ~Early(u)) \/ roomSlug'[s] = NoRoom,
           \A r \in Rooms, x \in Sockets :
              Seated(r, x)' => Seated(r, x) \/ (x = s /\ r = u.room /\ Seating(u)),
           \A r \in Rooms :
              \/ Seating(tasks[s][k]) /\ tasks[s][k].room = r
              \/ tasks[s][k].leaving = r
              \/ roomSlug[s] = r
              => \/ ~Seated(r, s)' \/ roomSlug'[s] = r
                 \/ Seating(u) /\ u.room = r
                 \/ u.leaving = r
    PROVE  MoveInv'
<1> DEFINE t == tasks[s][k]
           D == DOMAIN tasks[s]
<1>0. tasks \in [Sockets -> Seq(Task)]
  BY DEF HandlersTypeOK
<1>1. /\ \E f, g : Moves(s, k, u, f, g)
      /\ \A x \in Sockets \ {s} : tasks'[x] = tasks[x]
  BY <1>0, GotoMoves
<1>2. PICK f, g : Moves(s, k, u, f, g)
  BY <1>1
<1>3. /\ DOMAIN tasks'[s] = D /\ f \in [D -> D] /\ g \in [D -> D]
      /\ \A j \in D : f[g[j]] = j /\ g[f[j]] = j
      /\ tasks'[s][g[k]] = u
      /\ \A j \in D \ {k} : tasks'[s][g[j]] = tasks[s][j]
  BY <1>2 DEF Moves
<1>4. \A j \in D : \/ f[j] = k /\ tasks'[s][j] = u
                   \/ f[j] # k /\ f[j] \in D /\ tasks'[s][j] = tasks[s][f[j]]
  BY <1>3
<1>5. \A x \in Sockets : Continued(x)
  <2>1. Continued(s)
    <3>1. \A i, j \in D : f[i] = f[j] => i = j
      BY <1>3
    <3> QED
      BY <1>3, <1>4, <3>1 DEF Continued
  <2>2. ASSUME NEW x \in Sockets \ {s} PROVE Continued(x)
    BY <1>1, <2>2, Unchanged
  <2> QED
    BY <2>1, <2>2
<1>6. Shapes'
  BY <1>1, <1>3, <1>4 DEF MoveInv, Shapes
<1>7. Gone'
  BY <1>1, <1>3, <1>4 DEF MoveInv, Gone
<1>8. OneMove'
  BY <1>5, ContinuedMoves DEF MoveInv
<1>9. Settled'
  BY <1>5, ContinuedSettles DEF MoveInv, Settled
<1>10. PastAdmission'
  <2> SUFFICES ASSUME NEW x \in Sockets, NEW j \in DOMAIN tasks'[x],
                      tasks'[x][j].kind = "join", ~Early(tasks'[x][j])
               PROVE  roomSlug'[x] \in {NoRoom, tasks'[x][j].room}
    BY DEF PastAdmission, Early
  <2>1. CASE x # s
    BY <1>1, <2>1 DEF MoveInv, PastAdmission
  <2>2. CASE x = s /\ f[j] = k
    BY <1>3, <1>4, <2>2
  <2>3. CASE x = s /\ f[j] # k
    <3>1. f[j] \in D /\ tasks'[s][j] = tasks[s][f[j]]
      BY <1>3, <1>4, <2>3
    <3>2. roomSlug[s] \in {NoRoom, tasks[s][f[j]].room}
      BY <2>3, <3>1 DEF MoveInv, PastAdmission
    <3>3. u.kind # "join"
      BY <2>3, <3>1 DEF MoveInv, OneMove
    <3> QED
      BY <2>3, <3>1, <3>2, <3>3
  <2> QED
    BY <2>1, <2>2, <2>3
<1>11. Accounted'
  <2> SUFFICES ASSUME NEW x \in Sockets, NEW r \in Rooms, InstanceOf[x] \in alive', Seated(r, x)'
               PROVE  \/ roomSlug'[x] = r
                      \/ \E j \in DOMAIN tasks'[x] :
                            \/ Seating(tasks'[x][j]) /\ tasks'[x][j].room = r
                            \/ tasks'[x][j].leaving = r
    BY DEF Accounted, Seating
  <2>1. CASE x # s
    <3>1. Seated(r, x)
      BY <2>1
    <3> QED
      BY <1>1, <2>1, <3>1 DEF MoveInv, Accounted
  <2>2. CASE x = s
    <3>1. CASE Seating(u) /\ u.room = r
      BY <1>3, <2>2, <3>1
    <3>2. CASE ~(Seating(u) /\ u.room = r)
      <4>1. Seated(r, s) /\ InstanceOf[s] \in alive
        BY <2>2, <3>2
      <4>2. CASE roomSlug[s] = r
        BY <1>3, <2>2, <4>2
      <4>3. ASSUME NEW j \in D,
                   \/ Seating(tasks[s][j]) /\ tasks[s][j].room = r
                   \/ tasks[s][j].leaving = r
            PROVE  \/ roomSlug'[s] = r
                   \/ \E i \in DOMAIN tasks'[s] :
                         \/ Seating(tasks'[s][i]) /\ tasks'[s][i].room = r
                         \/ tasks'[s][i].leaving = r
        <5>1. CASE j = k
          BY <1>3, <2>2, <4>3, <5>1
        <5>2. CASE j # k
          BY <1>3, <4>3, <5>2
        <5> QED
          BY <5>1, <5>2
      <4> QED
        BY <2>2, <4>1, <4>2, <4>3 DEF MoveInv, Accounted
    <3> QED
      BY <3>1, <3>2
  <2> QED
    BY <2>1, <2>2
<1> QED
  BY <1>6, <1>7, <1>8, <1>9, <1>10, <1>11 DEF MoveInv

\* A handler that ends.
LEMMA MoveEnds ==
    ASSUME HandlersTypeOK, MoveInv, NEW s \in Sockets, NEW k \in DOMAIN tasks[s],
           Finish(s, k),
           up' = up, alive' = alive, page' = page,
           \A x \in Sockets : /\ \/ status'[x] = "joined" => status[x] = "joined"
                                 \/ x = s /\ x \in up /\ Moving(tasks[s][k])
                              /\ x \notin up => status'[x] = status[x]
                              /\ roomSlug'[x] = roomSlug[x],
           \A r \in Rooms, x \in Sockets : Seated(r, x)' => Seated(r, x),
           \A r \in Rooms :
              \/ Seating(tasks[s][k]) /\ tasks[s][k].room = r
              \/ tasks[s][k].leaving = r
              => ~Seated(r, s)'
    PROVE  MoveInv'
<1> DEFINE t == tasks[s][k]
           D == DOMAIN tasks[s]
           E == DOMAIN tasks'[s]
<1>0. tasks \in [Sockets -> Seq(Task)]
  BY DEF HandlersTypeOK
<1>1. /\ \E f, g : Ends(s, k, f, g)
      /\ \A x \in Sockets \ {s} : tasks'[x] = tasks[x]
  BY <1>0, FinishEnds
<1>2. PICK f, g : Ends(s, k, f, g)
  BY <1>1
<1>3. /\ f \in [E -> D \ {k}] /\ g \in [D \ {k} -> E]
      /\ \A j \in E : g[f[j]] = j /\ tasks'[s][j] = tasks[s][f[j]]
      /\ \A j \in D \ {k} : tasks'[s][g[j]] = tasks[s][j]
  BY <1>2 DEF Ends
<1>4. \A j \in E : f[j] \in D /\ f[j] # k /\ tasks'[s][j] = tasks[s][f[j]]
  BY <1>3
<1>5. \A x \in Sockets : Continued(x)
  <2>1. Continued(s)
    <3>1. \A i, j \in E : f[i] = f[j] => i = j
      BY <1>3
    <3>2. f \in [E -> D]
      BY <1>3
    <3> QED
      BY <1>4, <3>1, <3>2 DEF Continued
  <2>2. ASSUME NEW x \in Sockets \ {s} PROVE Continued(x)
    BY <1>1, <2>2, Unchanged
  <2> QED
    BY <2>1, <2>2
<1>6. Shapes'
  BY <1>1, <1>4 DEF MoveInv, Shapes
<1>7. Gone'
  BY <1>1, <1>4 DEF MoveInv, Gone
<1>8. OneMove'
  BY <1>5, ContinuedMoves DEF MoveInv
<1>9. Settled'
  <2> SUFFICES ASSUME NEW x \in Sockets, status'[x] = "joined", NEW j \in DOMAIN tasks'[x]
               PROVE  ~Moving(tasks'[x][j])
    BY DEF Settled, Moving
  <2>1. CASE status[x] = "joined"
    BY <1>5, <2>1, ContinuedSettles DEF MoveInv
  <2>2. CASE x = s /\ x \in up /\ Moving(t)
    BY <1>4, <2>2 DEF MoveInv, OneMove
  <2> QED
    BY <2>1, <2>2
<1>10. PastAdmission'
  BY <1>1, <1>4 DEF MoveInv, PastAdmission, Early
<1>11. Accounted'
  <2> SUFFICES ASSUME NEW x \in Sockets, NEW r \in Rooms, InstanceOf[x] \in alive', Seated(r, x)'
               PROVE  \/ roomSlug'[x] = r
                      \/ \E j \in DOMAIN tasks'[x] :
                            \/ Seating(tasks'[x][j]) /\ tasks'[x][j].room = r
                            \/ tasks'[x][j].leaving = r
    BY DEF Accounted, Seating
  <2>0. Seated(r, x) /\ InstanceOf[x] \in alive
    OBVIOUS
  <2>1. CASE x # s
    BY <1>1, <2>0, <2>1 DEF MoveInv, Accounted
  <2>2. CASE x = s
    BY <1>3, <2>0, <2>2 DEF MoveInv, Accounted
  <2> QED
    BY <2>1, <2>2
<1> QED
  BY <1>6, <1>7, <1>8, <1>9, <1>10, <1>11 DEF MoveInv

\* A tab stops waiting, asks for something, or is lost: its tasks stay, perhaps
\* with one more behind them.
Asks(s, v, more) ==
    LET D == DOMAIN tasks[s]  n == Len(tasks[s]) IN
    /\ DOMAIN tasks'[s] = IF more THEN 1 .. n + 1 ELSE D
    /\ \A j \in D : /\ tasks'[s][j].kind = tasks[s][j].kind
                    /\ tasks'[s][j].room = tasks[s][j].room
                    /\ tasks'[s][j].pc = tasks[s][j].pc
                    /\ tasks'[s][j].leaving = tasks[s][j].leaving
                    /\ tasks'[s][j].prev = tasks[s][j].prev
                    /\ tasks'[s][j].dead = tasks[s][j].dead
                    /\ tasks'[s][j].mine => tasks[s][j].mine
    /\ more => tasks'[s][n + 1] = v
    /\ \A x \in Sockets \ {s} : tasks'[x] = tasks[x]

\* To stop waiting for answers changes nothing else of the handlers.
LEMMA ForgetKeeps ==
    ASSUME NEW q \in Seq(Task)
    PROVE  /\ Forget(q) \in Seq(Task) /\ DOMAIN Forget(q) = DOMAIN q /\ Len(Forget(q)) = Len(q)
           /\ \A j \in DOMAIN q : /\ Forget(q)[j].kind = q[j].kind
                                  /\ Forget(q)[j].room = q[j].room
                                  /\ Forget(q)[j].pc = q[j].pc
                                  /\ Forget(q)[j].leaving = q[j].leaving
                                  /\ Forget(q)[j].prev = q[j].prev
                                  /\ Forget(q)[j].dead = q[j].dead
                                  /\ ~Forget(q)[j].mine
<1>1. Forget(q) \in Seq(Task)
  BY Forgetting
<1>2. DOMAIN Forget(q) = DOMAIN q
  BY DEF Forget
<1>3. Len(Forget(q)) = Len(q)
  BY <1>1, <1>2, LenProperties
<1>4. ASSUME NEW j \in DOMAIN q
      PROVE  /\ Forget(q)[j].kind = q[j].kind
             /\ Forget(q)[j].room = q[j].room
             /\ Forget(q)[j].pc = q[j].pc
             /\ Forget(q)[j].leaving = q[j].leaving
             /\ Forget(q)[j].prev = q[j].prev
             /\ Forget(q)[j].dead = q[j].dead
             /\ ~Forget(q)[j].mine
  <2>1. q[j] \in Task
    BY ElementOfSeq, LenProperties
  <2>2. Forget(q)[j] = [q[j] EXCEPT !.mine = FALSE]
    BY DEF Forget
  <2> QED
    BY <2>1, <2>2 DEF Task
<1> QED
  BY <1>1, <1>2, <1>3, <1>4

\* An event adds a handler to its socket's queue.
LEMMA SendAsks ==
    ASSUME tasks \in [Sockets -> Seq(Task)], NEW s \in Sockets, NEW v \in Task,
           Send(s, v)
    PROVE  Asks(s, v, TRUE)
<1> DEFINE q == tasks[s]
           p == tasks'[s]
<1>1. q \in Seq(Task) /\ p = Append(q, v) /\ \A x \in Sockets \ {s} : tasks'[x] = tasks[x]
  BY DEF Send
<1>2. Len(q) \in Nat /\ DOMAIN q = 1 .. Len(q)
  BY <1>1, LenProperties
<1>3. /\ p \in Seq(Task) /\ Len(p) = Len(q) + 1
      /\ \A j \in 1 .. Len(q) : p[j] = q[j]
      /\ p[Len(q) + 1] = v
  BY <1>1, AppendProperties
<1>4. DOMAIN p = 1 .. Len(q) + 1
  BY <1>3, LenProperties
<1> QED
  BY <1>1, <1>2, <1>3, <1>4 DEF Asks

\* A tab that gives up waiting, and may send one more event.
LEMMA ForgetAsks ==
    ASSUME tasks \in [Sockets -> Seq(Task)], NEW s \in Sockets, NEW v
    PROVE  /\ tasks' = [tasks EXCEPT ![s] = Forget(@)] => Asks(s, v, FALSE)
           /\ v \in Task /\ tasks' = [tasks EXCEPT ![s] = Append(Forget(@), v)] => Asks(s, v, TRUE)
<1> DEFINE q == tasks[s]
           o == Forget(q)
           p == tasks'[s]
           Alike(x, y) == /\ x.kind = y.kind /\ x.room = y.room /\ x.pc = y.pc
                          /\ x.leaving = y.leaving /\ x.prev = y.prev /\ x.dead = y.dead
                          /\ ~x.mine
<1>1. q \in Seq(Task) /\ Len(q) \in Nat /\ DOMAIN q = 1 .. Len(q)
  BY LenProperties
<1>2. /\ o \in Seq(Task) /\ Len(o) = Len(q) /\ DOMAIN o = DOMAIN q
      /\ \A j \in DOMAIN q : Alike(o[j], q[j])
  BY <1>1, ForgetKeeps
<1> HIDE DEF o
<1>3. ASSUME tasks' = [tasks EXCEPT ![s] = o] PROVE Asks(s, v, FALSE)
  <2>1. p = o /\ \A x \in Sockets \ {s} : tasks'[x] = tasks[x]
    BY <1>3
  <2> QED
    BY <1>2, <2>1 DEF Asks
<1>4. ASSUME v \in Task, tasks' = [tasks EXCEPT ![s] = Append(o, v)] PROVE Asks(s, v, TRUE)
  <2>1. p = Append(o, v) /\ \A x \in Sockets \ {s} : tasks'[x] = tasks[x]
    BY <1>4
  <2>2. /\ p \in Seq(Task) /\ Len(p) = Len(q) + 1
        /\ \A j \in 1 .. Len(q) : p[j] = o[j]
        /\ p[Len(q) + 1] = v
    BY <1>2, <1>4, <2>1, AppendProperties
  <2>3. DOMAIN p = 1 .. Len(q) + 1
    BY <2>2, LenProperties
  <2>4. \A j \in DOMAIN q : Alike(p[j], q[j])
    BY <1>1, <1>2, <2>2
  <2> QED
    BY <2>1, <2>2, <2>3, <2>4 DEF Asks
<1> QED
  BY <1>3, <1>4 DEF o

\* A tab that asks, forgets or is lost.
LEMMA MoveAsks ==
    ASSUME HandlersTypeOK, MoveInv, NEW s \in Sockets, NEW v, NEW more \in BOOLEAN,
           Asks(s, v, more), s \in up,
           up' = up \/ up' = up \ {s}, alive' = alive,
           \A x \in Sockets \ {s} : /\ page'[x] = page[x] /\ status'[x] = status[x]
                                    /\ roomSlug'[x] = roomSlug[x],
           more => Shape(v) /\ (v.kind = "join" => Early(v)) /\ ~Seating(v),
           more /\ Moving(v) => \/ v.kind = "leave" /\ s \notin up'
                                \/ /\ \A j \in DOMAIN tasks[s] : ~Moving(tasks[s][j])
                                   /\ status'[s] # "joined",
           status'[s] = "joined" => status[s] = "joined",
           s \notin up' => /\ page'[s] = NoRoom /\ status'[s] = "connecting"
                           /\ \A j \in DOMAIN tasks[s] : ~tasks'[s][j].mine
                           /\ more => v.kind = "leave",
           \/ roomSlug'[s] = roomSlug[s]
           \/ /\ roomSlug'[s] = NoRoom
              /\ roomSlug[s] # NoRoom => more /\ v.leaving = roomSlug[s],
           \A r \in Rooms, x \in Sockets : Seated(r, x)' => Seated(r, x)
    PROVE  MoveInv'
<1> DEFINE D == DOMAIN tasks[s]
           n == Len(tasks[s])
<1>1. n \in Nat /\ D = 1 .. n /\ n + 1 \notin D
  BY LenProperties DEF HandlersTypeOK
<1>2. /\ DOMAIN tasks'[s] = IF more THEN 1 .. n + 1 ELSE D
      /\ \A j \in D : /\ tasks'[s][j].kind = tasks[s][j].kind
                      /\ tasks'[s][j].room = tasks[s][j].room
                      /\ tasks'[s][j].pc = tasks[s][j].pc
                      /\ tasks'[s][j].leaving = tasks[s][j].leaving
                      /\ tasks'[s][j].prev = tasks[s][j].prev
                      /\ tasks'[s][j].dead = tasks[s][j].dead
                      /\ tasks'[s][j].mine => tasks[s][j].mine
      /\ more => tasks'[s][n + 1] = v
      /\ \A x \in Sockets \ {s} : tasks'[x] = tasks[x]
  BY DEF Asks
<1>3. /\ D \subseteq DOMAIN tasks'[s]
      /\ \A j \in DOMAIN tasks'[s] : j \in D \/ (more /\ j = n + 1)
  BY <1>1, <1>2
<1>4. Shapes'
  <2> SUFFICES ASSUME NEW x \in Sockets, NEW j \in DOMAIN tasks'[x] PROVE Shape(tasks'[x][j])
    BY DEF Shapes, Shape
  <2>1. CASE x # s
    BY <1>2, <2>1 DEF MoveInv, Shapes
  <2>2. CASE x = s /\ j \in D
    BY <1>2, <2>2 DEF MoveInv, Shapes, Shape
  <2>3. CASE x = s /\ j = n + 1 /\ more
    BY <1>2, <2>3
  <2> QED
    BY <1>3, <2>1, <2>2, <2>3
<1>5. Gone'
  <2>1. \A x \in up' : InstanceOf[x] \in alive'
    BY DEF MoveInv, Gone
  <2>2. ASSUME NEW x \in Sockets \ up'
        PROVE  /\ status'[x] = "connecting" /\ page'[x] = NoRoom
               /\ \A j \in DOMAIN tasks'[x] : tasks'[x][j].mine => tasks'[x][j].kind = "leave"
    <3>1. CASE x # s
      BY <1>2, <2>2, <3>1 DEF MoveInv, Gone
    <3>2. CASE x = s
      BY <1>2, <1>3, <2>2, <3>2
    <3> QED
      BY <3>1, <3>2
  <2> QED
    BY <2>1, <2>2 DEF Gone
<1>6. OneMove'
  <2> SUFFICES ASSUME NEW x \in Sockets, NEW i \in DOMAIN tasks'[x], NEW j \in DOMAIN tasks'[x]
               PROVE  /\ tasks'[x][i].kind = "join" /\ tasks'[x][j].kind = "join" => i = j
                      /\ x \in up' /\ Moving(tasks'[x][i]) /\ Moving(tasks'[x][j]) => i = j
    BY DEF OneMove, Moving
  <2>1. CASE x # s
    BY <1>2, <2>1 DEF MoveInv, OneMove
  <2>2. CASE x = s /\ i \in D /\ j \in D
    BY <1>2, <2>2 DEF MoveInv, OneMove, Moving
  <2>3. CASE x = s /\ i \in D /\ j = n + 1 /\ more
    BY <1>2, <2>3 DEF Moving
  <2>4. CASE x = s /\ j \in D /\ i = n + 1 /\ more
    BY <1>2, <2>4 DEF Moving
  <2> QED
    BY <1>3, <2>1, <2>2, <2>3, <2>4
<1>7. Settled'
  <2> SUFFICES ASSUME NEW x \in Sockets, status'[x] = "joined", NEW j \in DOMAIN tasks'[x]
               PROVE  ~Moving(tasks'[x][j])
    BY DEF Settled, Moving
  <2>1. CASE x # s
    BY <1>2, <2>1 DEF MoveInv, Settled
  <2>2. CASE x = s /\ j \in D
    BY <1>2, <2>2 DEF MoveInv, Settled, Moving
  <2>3. CASE x = s /\ j = n + 1 /\ more
    BY <1>2, <2>3
  <2> QED
    BY <1>3, <2>1, <2>2, <2>3
<1>8. PastAdmission'
  <2> SUFFICES ASSUME NEW x \in Sockets, NEW j \in DOMAIN tasks'[x],
                      tasks'[x][j].kind = "join", ~Early(tasks'[x][j])
               PROVE  roomSlug'[x] \in {NoRoom, tasks'[x][j].room}
    BY DEF PastAdmission, Early
  <2>1. CASE x # s
    BY <1>2, <2>1 DEF MoveInv, PastAdmission
  <2>2. CASE x = s /\ j \in D
    BY <1>2, <2>2 DEF MoveInv, PastAdmission, Early
  <2>3. CASE x = s /\ j = n + 1 /\ more
    BY <1>2, <2>3
  <2> QED
    BY <1>3, <2>1, <2>2, <2>3
<1>9. Accounted'
  <2> SUFFICES ASSUME NEW x \in Sockets, NEW r \in Rooms, InstanceOf[x] \in alive', Seated(r, x)'
               PROVE  \/ roomSlug'[x] = r
                      \/ \E j \in DOMAIN tasks'[x] :
                            \/ Seating(tasks'[x][j]) /\ tasks'[x][j].room = r
                            \/ tasks'[x][j].leaving = r
    BY DEF Accounted, Seating
  <2>0. Seated(r, x) /\ InstanceOf[x] \in alive
    OBVIOUS
  <2>1. CASE x # s
    BY <1>2, <2>0, <2>1 DEF MoveInv, Accounted
  <2>2. CASE x = s
    <3>1. CASE roomSlug[s] = r
      <4>1. r # NoRoom
        BY NoRoomAssumption
      <4> QED
        BY <1>1, <1>2, <2>2, <3>1, <4>1
    <3>2. ASSUME NEW j \in D,
                 \/ Seating(tasks[s][j]) /\ tasks[s][j].room = r
                 \/ tasks[s][j].leaving = r
          PROVE  \E i \in DOMAIN tasks'[s] :
                    \/ Seating(tasks'[s][i]) /\ tasks'[s][i].room = r
                    \/ tasks'[s][i].leaving = r
      BY <1>2, <1>3, <3>2 DEF Seating
    <3> QED
      BY <2>0, <2>2, <3>1, <3>2 DEF MoveInv, Accounted
  <2> QED
    BY <2>1, <2>2
<1> QED
  BY <1>4, <1>5, <1>6, <1>7, <1>8, <1>9 DEF MoveInv

\* The task t at another point.
At(t, pc) == [t EXCEPT !.pc = pc]

\* Only the point at which it is differs.
LEMMA AtPc ==
    ASSUME NEW t \in Task,
           NEW pc \in {"start", "limit", "admit", "free", "unseat", "subscribe", "seat", "full",
                       "settle", "freePrevious", "register", "answer", "claim", "release"}
    PROVE  /\ At(t, pc) \in Task /\ At(t, pc).pc = pc
           /\ At(t, pc).kind = t.kind /\ At(t, pc).room = t.room /\ At(t, pc).leaving = t.leaving
           /\ At(t, pc).prev = t.prev /\ At(t, pc).dead = t.dead /\ At(t, pc).mine = t.mine
BY DEF Task, At

\* A handler that only goes on to another point of its code.
LEMMA MovePc ==
    ASSUME HandlersTypeOK, MoveInv, NEW s \in Sockets, NEW k \in DOMAIN tasks[s],
           NEW pc \in {"limit", "admit", "unseat", "subscribe", "seat", "freePrevious",
                       "claim", "release"},
           GotoPc(s, k, pc), Shape(At(tasks[s][k], pc)),
           UNCHANGED <<peers, roomSlug, up, alive, page>>,
           \A x \in Sockets : /\ status'[x] = "joined" => status[x] = "joined"
                              /\ x \notin up => status'[x] = status[x],
           pc \in {"subscribe", "seat", "freePrevious"} =>
              \/ ~Early(tasks[s][k])
              \/ roomSlug[s] \in {NoRoom, tasks[s][k].room},
           Seating(tasks[s][k]) => pc = "freePrevious"
    PROVE  MoveInv'
<1> DEFINE t == tasks[s][k]
           u == At(t, pc)
<1>0. t \in Task
  BY TaskMoves DEF HandlersTypeOK
<1>1. /\ u \in Task /\ u.pc = pc
      /\ u.kind = t.kind /\ u.room = t.room /\ u.leaving = t.leaving
      /\ u.prev = t.prev /\ u.dead = t.dead /\ u.mine = t.mine
  BY <1>0, AtPc
<1>2. Goto(s, k, u)
  BY DEF GotoPc, At
<1>3. \A r \in Rooms, x \in Sockets : Seated(r, x)' => Seated(r, x)
  BY DEF Seated
<1>4. Shape(u)
  BY <1>1
<1>5. u.kind = "join" /\ ~Early(u) => roomSlug'[s] \in {NoRoom, u.room}
  <2>1. t.kind = "join" /\ ~Early(t) => roomSlug[s] \in {NoRoom, t.room}
    BY DEF MoveInv, PastAdmission
  <2>2. u.kind = "join" /\ ~Early(u) => pc \in {"unseat", "subscribe", "seat", "freePrevious"}
    BY <1>1, <1>4 DEF Early, Shape
  <2>3. u.kind = "join" /\ pc = "unseat" => ~Early(t)
    <3>1. Shape(t)
      BY DEF MoveInv, Shapes
    <3> QED
      BY <1>1, <1>4, <3>1 DEF Shape, Early
  <2> QED
    BY <1>1, <2>1, <2>2, <2>3
<1>6. Seating(t) => Seating(u)
  BY <1>1 DEF Seating
<1>7. roomSlug' = roomSlug /\ up' = up /\ alive' = alive /\ page' = page
  OBVIOUS
<1>8. /\ roomSlug'[s] \in {roomSlug[s], NoRoom, u.room} /\ roomSlug'[s] = roomSlug[s]
      /\ \A x \in Sockets : x # s => roomSlug'[x] = roomSlug[x]
  BY <1>7
<1>9. \A r \in Rooms :
         \/ Seating(t) /\ t.room = r
         \/ t.leaving = r
         \/ roomSlug[s] = r
         => \/ ~Seated(r, s)' \/ roomSlug'[s] = r
            \/ Seating(u) /\ u.room = r
            \/ u.leaving = r
  BY <1>1, <1>6, <1>7
<1>10. \A x \in Sockets : /\ status'[x] = "joined" => status[x] = "joined"
                          /\ x \notin up => status'[x] = status[x]
                          /\ x # s => roomSlug'[x] = roomSlug[x]
  BY <1>8
<1> HIDE DEF u
<1> QED
  BY <1>1, <1>2, <1>3, <1>4, <1>5, <1>7, <1>8, <1>9, <1>10, MoveOn

\* The steps of a join keep the invariant.
LEMMA MoveJoins ==
    ASSUME StoreTypeOK, HandlersTypeOK, MoveInv, NEW s \in Sockets, NEW k \in DOMAIN tasks[s],
           \/ JoinStart(s, k) \/ JoinLimited(s, k) \/ JoinRefused(s, k) \/ JoinAdmitted(s, k)
           \/ JoinSubscribe(s, k) \/ JoinSeat(s, k)
           \/ JoinFreeDead(s, k) \/ JoinTurnedAway(s, k) \/ JoinDisplace(s, k)
           \/ JoinFreePrevious(s, k) \/ JoinRegister(s, k) \/ JoinAnswered(s, k)
    PROVE  MoveInv'
<1> DEFINE t == tasks[s][k]
           r == t.room
<1>0. /\ t \in Task /\ tasks \in [Sockets -> Seq(Task)] /\ r \in Rooms
      /\ t.mine \in BOOLEAN /\ t.dead \in SUBSET Sockets /\ t.prev \in Sockets \cup {Nobody}
  BY TaskMoves DEF HandlersTypeOK, Task
<1>1. Shape(t)
  BY DEF MoveInv, Shapes
<1>2. s \notin up => ~(t.kind = "join" /\ t.mine)
  BY DEF MoveInv, Gone
<1>3. CASE JoinStart(s, k)
  <2>1. Shape(At(t, "limit"))
    BY <1>0, <1>1, <1>3, AtPc DEF JoinStart, Runs, Shape
  <2> QED
    BY <1>3, <2>1, MovePc DEF JoinStart, Runs, Seating, storeVars, serverVars, tabVars
<1>4. CASE JoinLimited(s, k)
  <2>0. t.pc = "limit" /\ t.kind = "join"
    BY <1>1, <1>4 DEF JoinLimited, Executes, Runs, Shape
  <2>1. CASE GotoPc(s, k, "admit") /\ UNCHANGED tabVars
    <3>1. Shape(At(t, "admit"))
      BY <1>0, <1>1, <2>0, AtPc DEF Shape
    <3> QED
      BY <1>4, <2>0, <2>1, <3>1, MovePc DEF JoinLimited, Seating, storeVars, serverVars, tabVars
  <2>2. CASE Finish(s, k) /\ AnswerJoin(s, k, "refused")
    <3>1. ~Seating(t) /\ t.leaving = NoRoom
      BY <1>1, <2>0 DEF Shape, Seating
    <3>2. /\ up' = up /\ alive' = alive /\ roomSlug' = roomSlug /\ page' = page
          /\ \A x \in Sockets, y \in Rooms : Seated(y, x)' => Seated(y, x)
      BY <1>4, <2>2 DEF JoinLimited, AnswerJoin, storeVars, serverVars, Seated
    <3>3. \A x \in Sockets : /\ status'[x] = "joined" => status[x] = "joined"
                             /\ x \notin up => status'[x] = status[x]
      BY <1>2, <2>0, <2>2 DEF AnswerJoin, HandlersTypeOK
    <3> QED
      BY <2>2, <3>1, <3>2, <3>3, NoRoomAssumption, MoveEnds
  <2> QED
    BY <1>4, <2>1, <2>2 DEF JoinLimited
<1>5. CASE JoinRefused(s, k)
  <2>0. t.pc = "admit" /\ t.kind = "join"
    BY <1>1, <1>5 DEF JoinRefused, Runs, Shape
  <2>1. ~Seating(t) /\ t.leaving = NoRoom
    BY <1>1, <2>0 DEF Shape, Seating
  <2>2. /\ up' = up /\ alive' = alive /\ roomSlug' = roomSlug /\ page' = page
        /\ \A x \in Sockets, y \in Rooms : Seated(y, x)' => Seated(y, x)
    BY <1>5 DEF JoinRefused, AnswerJoin, storeVars, serverVars, Seated
  <2>3. \A x \in Sockets : /\ status'[x] = "joined" => status[x] = "joined"
                           /\ x \notin up => status'[x] = status[x]
    BY <1>2, <1>5, <2>0 DEF JoinRefused, AnswerJoin, HandlersTypeOK
  <2> QED
    BY <1>5, <2>1, <2>2, <2>3, NoRoomAssumption, MoveEnds DEF JoinRefused
<1>6. CASE JoinAdmitted(s, k)
  <2> DEFINE old == roomSlug[s]
  <2>0. t.pc = "admit" /\ t.kind = "join" /\ ~Seating(t) /\ t.leaving = NoRoom
    BY <1>1, <1>6 DEF JoinAdmitted, Runs, Shape, Seating
  <2>1. CASE old \in {NoRoom, r}
    <3>1. Shape(At(t, "subscribe"))
      BY <1>0, <1>1, <2>0, AtPc DEF Shape
    <3>2. GotoPc(s, k, "subscribe") /\ UNCHANGED <<peers, roomSlug, up, alive, page, status>>
      BY <1>6, <2>1 DEF JoinAdmitted, storeVars, tabVars
    <3> QED
      BY <2>0, <2>1, <3>1, <3>2, MovePc
  <2>2. CASE old \notin {NoRoom, r}
    <3> DEFINE u == [t EXCEPT !.pc = "free", !.leaving = old]
    <3>1. old \in Rooms
      BY <2>2 DEF HandlersTypeOK
    <3>2. /\ u \in Task /\ u.pc = "free" /\ u.leaving = old
          /\ u.kind = t.kind /\ u.room = r
          /\ u.prev = t.prev /\ u.dead = t.dead /\ u.mine = t.mine
      BY <1>0, <3>1 DEF Task
    <3>3. /\ Goto(s, k, u) /\ roomSlug' = [roomSlug EXCEPT ![s] = NoRoom]
          /\ up' = up /\ alive' = alive /\ page' = page /\ status' = status
          /\ \A x \in Sockets, y \in Rooms : Seated(y, x)' => Seated(y, x)
      BY <1>6, <2>2 DEF JoinAdmitted, storeVars, tabVars, Seated
    <3>4. roomSlug'[s] = NoRoom /\ \A x \in Sockets : x # s => roomSlug'[x] = roomSlug[x]
      BY <3>3 DEF HandlersTypeOK
    <3>5. Shape(u)
      BY <1>1, <2>0, <2>2, <3>1, <3>2, NoRoomAssumption DEF Shape
    <3> HIDE DEF u
    <3> QED
      BY <2>0, <3>2, <3>3, <3>4, <3>5, NoRoomAssumption, MoveOn
  <2> QED
    BY <2>1, <2>2
<1>7. CASE JoinSubscribe(s, k)
  <2>0. t.pc = "subscribe" /\ t.kind = "join"
    BY <1>1, <1>7 DEF JoinSubscribe, Runs, Shape
  <2>1. Shape(At(t, "seat"))
    BY <1>0, <1>1, <2>0, AtPc DEF Shape
  <2> QED
    BY <1>7, <2>0, <2>1, MovePc DEF JoinSubscribe, Seating, Early, storeVars, tabVars
<1>8. CASE JoinSeat(s, k)
  <2> DEFINE before == KeptPeers(r)[UserOf[s]]
             prev == IF before = NoEntry \/ before.peer = s THEN Nobody ELSE before.peer
  <2>0. t.pc = "seat" /\ t.kind = "join" /\ ~Seating(t) /\ t.leaving = NoRoom /\ t.prev = Nobody
    BY <1>1, <1>8 DEF JoinSeat, Executes, Runs, Shape, Seating
  <2>1. TimedOut(r) \in SUBSET Sockets
    BY <1>0 DEF TimedOut, Listed, StoreTypeOK, PresenceTypeOK, Participant
  <2>2. prev \in Sockets \cup {Nobody}
    <3>1. before \in Participant \cup {NoEntry}
      BY <1>0, KeptTypes, UserOfAssumption DEF StoreTypeOK
    <3> QED
      BY <3>1 DEF Participant
  <2>3. roomSlug[s] \in {NoRoom, r}
    BY <2>0 DEF MoveInv, PastAdmission, Early
  <2>4. up' = up /\ alive' = alive /\ page' = page /\ status' = status /\ roomSlug' = roomSlug
    BY <1>8 DEF JoinSeat, serverVars, tabVars
  <2>5. CASE \E m \in Media : JoinOk(r, s, m)
    <3> DEFINE u == [t EXCEPT !.pc = "settle", !.dead = TimedOut(r), !.prev = prev]
    <3>1. /\ u \in Task /\ u.pc = "settle" /\ u.leaving = NoRoom
          /\ u.kind = t.kind /\ u.room = r /\ u.mine = t.mine
      BY <1>0, <2>0, <2>1, <2>2 DEF Task
    <3>2. Goto(s, k, u) \/ JoinFull(r, s)
      BY <1>8 DEF JoinSeat
    <3>3. ~JoinFull(r, s)
      BY <2>5 DEF JoinFull, JoinOk
    <3>4. \A x \in Rooms, y \in Sockets : Seated(x, y)' => Seated(x, y) \/ (x = r /\ y = s)
      BY <1>0, <2>5, SeatTaken
    <3>5. Shape(u) /\ Seating(u) /\ ~Early(u)
      BY <1>0, <2>0, <3>1, NoRoomAssumption DEF Shape, Seating, Early
    <3> HIDE DEF u, prev
    <3> QED
      BY <2>0, <2>3, <2>4, <3>1, <3>2, <3>3, <3>4, <3>5, MoveOn
  <2>6. CASE JoinFull(r, s) /\ Goto(s, k, [t EXCEPT !.pc = "full", !.dead = TimedOut(r)])
    <3> DEFINE u == [t EXCEPT !.pc = "full", !.dead = TimedOut(r)]
    <3>1. /\ u \in Task /\ u.pc = "full" /\ u.leaving = NoRoom /\ u.prev = Nobody
          /\ u.kind = t.kind /\ u.room = r /\ u.mine = t.mine
      BY <1>0, <2>0, <2>1 DEF Task
    <3>2. \A x \in Rooms, y \in Sockets : Seated(x, y)' => Seated(x, y)
      BY <1>0, <2>6, SeatsLost
    <3>3. Shape(u)
      BY <1>0, <2>0, <3>1, NoRoomAssumption DEF Shape
    <3>4. Goto(s, k, u)
      BY <2>6
    <3> HIDE DEF u
    <3> QED
      BY <2>0, <2>3, <2>4, <3>1, <3>2, <3>3, <3>4, NoRoomAssumption, MoveOn
  <2> QED
    BY <1>8, <2>5, <2>6 DEF JoinSeat
<1>9. CASE JoinFreeDead(s, k)
  <2>1. PICK d \in t.dead : Goto(s, k, [t EXCEPT !.dead = @ \ {d}])
    BY <1>9 DEF JoinFreeDead
  <2> DEFINE u == [t EXCEPT !.dead = @ \ {d}]
  <2>2. /\ u \in Task /\ u.pc = t.pc /\ u.leaving = t.leaving /\ u.prev = t.prev
        /\ u.kind = t.kind /\ u.room = r /\ u.mine = t.mine /\ u.dead \subseteq t.dead
    BY <1>0 DEF Task
  <2>3. t.pc \in {"settle", "full"}
    BY <1>9 DEF JoinFreeDead, Executes, Runs
  <2>4. Shape(u)
    BY <1>1, <2>2, <2>3 DEF Shape
  <2>5. /\ up' = up /\ alive' = alive /\ page' = page /\ status' = status /\ roomSlug' = roomSlug
        /\ \A x \in Sockets, y \in Rooms : Seated(y, x)' => Seated(y, x)
    BY <1>9 DEF JoinFreeDead, Release, serverVars, tabVars, presenceVars, Seated
  <2>6. t.kind = "join" /\ t.leaving = NoRoom /\ roomSlug[s] \in {NoRoom, r}
    BY <1>1, <2>3 DEF Shape, MoveInv, PastAdmission, Early
  <2>7. Goto(s, k, u) /\ (Seating(t) => Seating(u))
    BY <2>1, <2>2 DEF Seating
  <2> HIDE DEF u
  <2> QED
    BY <2>2, <2>4, <2>5, <2>6, <2>7, NoRoomAssumption, MoveOn
<1>10. CASE JoinTurnedAway(s, k)
  <2>0. t.pc = "full" /\ t.kind = "join"
    BY <1>1, <1>10 DEF JoinTurnedAway, Runs, Shape
  <2>1. ~Seating(t) /\ t.leaving = NoRoom
    BY <1>1, <2>0 DEF Shape, Seating
  <2>2. /\ up' = up /\ alive' = alive /\ roomSlug' = roomSlug /\ page' = page
        /\ \A x \in Sockets, y \in Rooms : Seated(y, x)' => Seated(y, x)
    BY <1>10 DEF JoinTurnedAway, AnswerJoin, storeVars, serverVars, Seated
  <2>3. \A x \in Sockets : /\ status'[x] = "joined" => status[x] = "joined"
                           /\ x \notin up => status'[x] = status[x]
    BY <1>2, <1>10, <2>0 DEF JoinTurnedAway, AnswerJoin, HandlersTypeOK
  <2> QED
    BY <1>10, <2>1, <2>2, <2>3, NoRoomAssumption, MoveEnds DEF JoinTurnedAway
<1>11. CASE JoinDisplace(s, k)
  <2>0. t.pc = "settle" /\ t.kind = "join" /\ t.dead = {}
    BY <1>1, <1>11 DEF JoinDisplace, Runs, Shape
  <2>1. Shape(At(t, "freePrevious"))
    BY <1>0, <1>1, <2>0, AtPc DEF Shape
  <2>2. \A x \in Sockets : /\ status'[x] = "joined" => status[x] = "joined"
                           /\ x \notin up => status'[x] = status[x]
    BY <1>11 DEF JoinDisplace, HandlersTypeOK
  <2>3. GotoPc(s, k, "freePrevious") /\ UNCHANGED <<peers, roomSlug, up, alive, page>>
    BY <1>11 DEF JoinDisplace, storeVars
  <2> QED
    BY <2>0, <2>1, <2>2, <2>3, MovePc DEF Early
<1>12. CASE JoinFreePrevious(s, k)
  <2> DEFINE u == [t EXCEPT !.pc = "register", !.prev = Nobody]
  <2>1. /\ u \in Task /\ u.pc = "register" /\ u.leaving = t.leaving /\ u.prev = Nobody
        /\ u.kind = t.kind /\ u.room = r /\ u.mine = t.mine /\ u.dead = t.dead
    BY <1>0 DEF Task
  <2>2. t.pc = "freePrevious"
    BY <1>12 DEF JoinFreePrevious, Executes, Runs
  <2>3. t.kind = "join" /\ t.leaving = NoRoom /\ roomSlug[s] \in {NoRoom, r}
    BY <1>1, <2>2 DEF Shape, MoveInv, PastAdmission, Early
  <2>4. Shape(u) /\ Seating(u)
    BY <1>1, <2>1, <2>2, <2>3 DEF Shape, Seating
  <2>5. /\ up' = up /\ alive' = alive /\ page' = page /\ status' = status /\ roomSlug' = roomSlug
        /\ \A x \in Sockets, y \in Rooms : Seated(y, x)' => Seated(y, x)
    BY <1>12 DEF JoinFreePrevious, Release, serverVars, tabVars, presenceVars, Seated
  <2>6. Goto(s, k, u)
    BY <1>12 DEF JoinFreePrevious
  <2> HIDE DEF u
  <2> QED
    BY <2>1, <2>3, <2>4, <2>5, <2>6, NoRoomAssumption, MoveOn
<1>13. CASE JoinRegister(s, k)
  <2> DEFINE u == At(t, "answer")
  <2>1. /\ u \in Task /\ u.pc = "answer" /\ u.leaving = t.leaving /\ u.prev = t.prev
        /\ u.kind = t.kind /\ u.room = r /\ u.mine = t.mine /\ u.dead = t.dead
    BY <1>0, AtPc
  <2>2. t.pc = "register" \/ (t.pc = "settle" /\ t.dead = {} /\ t.prev = Nobody)
    BY <1>13 DEF JoinRegister, Runs
  <2>3. t.kind = "join" /\ t.leaving = NoRoom /\ roomSlug[s] \in {NoRoom, r} /\ t.dead = {} /\ t.prev = Nobody
    BY <1>1, <2>2 DEF Shape, MoveInv, PastAdmission, Early
  <2>4. Shape(u)
    BY <1>1, <2>1, <2>2, <2>3 DEF Shape
  <2>5. /\ up' = up /\ alive' = alive /\ page' = page /\ status' = status
        /\ roomSlug' = [roomSlug EXCEPT ![s] = r]
        /\ \A x \in Sockets, y \in Rooms : Seated(y, x)' => Seated(y, x)
    BY <1>13 DEF JoinRegister, storeVars, tabVars, Seated
  <2>6. roomSlug'[s] = r /\ \A x \in Sockets : x # s => roomSlug'[x] = roomSlug[x]
    BY <2>5 DEF HandlersTypeOK
  <2>7. Goto(s, k, u)
    BY <1>13 DEF JoinRegister, GotoPc, At
  <2>8. u.kind = "join" /\ ~Early(u)
    BY <2>1, <2>3 DEF Early
  <2>9. \A y \in Rooms : ((Seating(t) /\ t.room = y) \/ t.leaving = y \/ roomSlug[s] = y) => y = r
    BY <2>3, NoRoomAssumption
  <2>10. /\ roomSlug'[s] \in {roomSlug[s], NoRoom, u.room}
         /\ u.kind = "join" /\ ~Early(u) => roomSlug'[s] \in {NoRoom, u.room}
         /\ roomSlug'[s] = roomSlug[s] \/ (u.kind = "join" /\ ~Early(u)) \/ roomSlug'[s] = NoRoom
         /\ \A y \in Rooms :
               \/ Seating(t) /\ t.room = y
               \/ t.leaving = y
               \/ roomSlug[s] = y
               => roomSlug'[s] = y
    BY <2>1, <2>6, <2>8, <2>9
  <2>11. \A x \in Sockets : /\ status'[x] = "joined" => status[x] = "joined"
                            /\ x \notin up => status'[x] = status[x]
                            /\ x # s => roomSlug'[x] = roomSlug[x]
    BY <2>5, <2>6
  <2> HIDE DEF u
  <2> QED
    BY <2>1, <2>4, <2>5, <2>7, <2>10, <2>11, MoveOn
<1>14. CASE JoinAnswered(s, k)
  <2>0. t.pc = "answer" /\ t.kind = "join"
    BY <1>1, <1>14 DEF JoinAnswered, Runs, Shape
  <2>1. ~Seating(t) /\ t.leaving = NoRoom
    BY <1>1, <2>0 DEF Shape, Seating
  <2>2. /\ up' = up /\ alive' = alive /\ roomSlug' = roomSlug /\ page' = page
        /\ \A x \in Sockets, y \in Rooms : Seated(y, x)' => Seated(y, x)
    BY <1>14 DEF JoinAnswered, AnswerJoin, storeVars, serverVars, Seated
  <2>3. \A x \in Sockets : /\ (status'[x] = "joined" => status[x] = "joined") \/ (x = s /\ x \in up /\ Moving(t))
                           /\ x \notin up => status'[x] = status[x]
    BY <1>2, <1>14, <2>0 DEF JoinAnswered, AnswerJoin, HandlersTypeOK, Moving
  <2> QED
    BY <1>14, <2>1, <2>2, <2>3, NoRoomAssumption, MoveEnds DEF JoinAnswered
<1> QED
  BY <1>3, <1>4, <1>5, <1>6, <1>7, <1>8, <1>9, <1>10, <1>11, <1>12, <1>13, <1>14

\* Who leaves has no seat.
LEMMA Unseats ==
    ASSUME StoreTypeOK, NEW r \in Rooms, NEW s \in Sockets, Leave(r, s)
    PROVE  ~Seated(r, s)'
BY UserOfAssumption DEF Leave, Seated, StoreTypeOK, PresenceTypeOK

\* The steps of a leave keep the invariant.
LEMMA MoveLeaves ==
    ASSUME StoreTypeOK, HandlersTypeOK, MoveInv, NEW s \in Sockets, NEW k \in DOMAIN tasks[s],
           LeaveStart(s, k) \/ LeaveFree(s, k) \/ LeaveUnseat(s, k)
    PROVE  MoveInv'
<1> DEFINE t == tasks[s][k]
           r == t.room
<1>0. /\ t \in Task /\ tasks \in [Sockets -> Seq(Task)] /\ r \in Rooms
      /\ t.leaving \in Rooms \cup {NoRoom}
  BY TaskMoves DEF HandlersTypeOK, Task
<1>1. Shape(t)
  BY DEF MoveInv, Shapes
<1>2. CASE LeaveStart(s, k)
  <2>0. t.pc = "start" /\ t.kind = "leave" /\ t.leaving = NoRoom /\ ~Seating(t)
    BY <1>1, <1>2 DEF LeaveStart, Runs, Shape, Seating
  <2>1. /\ up' = up /\ alive' = alive /\ page' = page /\ status' = status
        /\ \A x \in Sockets, y \in Rooms : Seated(y, x)' => Seated(y, x)
    BY <1>2 DEF LeaveStart, storeVars, tabVars, Seated
  <2>2. CASE roomSlug[s] = r
    <3> DEFINE u == [t EXCEPT !.pc = "free", !.leaving = r]
    <3>1. /\ u \in Task /\ u.pc = "free" /\ u.leaving = r
          /\ u.kind = t.kind /\ u.room = r
          /\ u.prev = t.prev /\ u.dead = t.dead /\ u.mine = t.mine
      BY <1>0 DEF Task
    <3>2. Goto(s, k, u) /\ roomSlug' = [roomSlug EXCEPT ![s] = NoRoom]
      BY <1>2, <2>2 DEF LeaveStart
    <3>3. roomSlug'[s] = NoRoom /\ \A x \in Sockets : x # s => roomSlug'[x] = roomSlug[x]
      BY <3>2 DEF HandlersTypeOK
    <3>4. Shape(u)
      BY <1>0, <1>1, <2>0, <3>1, NoRoomAssumption DEF Shape
    <3> HIDE DEF u
    <3> QED
      BY <2>0, <2>1, <2>2, <3>1, <3>2, <3>3, <3>4, NoRoomAssumption, MoveOn
  <2>3. CASE roomSlug[s] # r
    <3>1. Finish(s, k) /\ roomSlug' = roomSlug
      BY <1>2, <2>3 DEF LeaveStart
    <3> QED
      BY <2>0, <2>1, <3>1, NoRoomAssumption, MoveEnds
  <2> QED
    BY <2>2, <2>3
<1>3. CASE LeaveFree(s, k)
  <2>0. t.pc = "free" /\ ~Seating(t)
    BY <1>1, <1>3 DEF LeaveFree, Executes, Runs, Seating
  <2>1. Shape(At(t, "unseat"))
    BY <1>0, <1>1, <2>0, AtPc DEF Shape
  <2>2. GotoPc(s, k, "unseat") /\ UNCHANGED <<peers, roomSlug, up, alive, page, status>>
    BY <1>3 DEF LeaveFree, Release, presenceVars, serverVars, tabVars
  <2> QED
    BY <2>0, <2>1, <2>2, MovePc
<1>4. CASE LeaveUnseat(s, k)
  <2>0. /\ t.pc = "unseat" /\ ~Seating(t) /\ t.leaving \in Rooms
        /\ t.kind \in {"join", "leave"}
        /\ t.prev = Nobody /\ t.dead = {}
    BY <1>0, <1>1, <1>4 DEF LeaveUnseat, Executes, Runs, Shape, Seating
  <2>1. \A y \in Rooms : t.leaving = y => ~Seated(y, s)'
    <3> SUFFICES ASSUME NEW y \in Rooms, t.leaving = y PROVE ~Seated(y, s)'
      OBVIOUS
    <3>1. CASE Leave(y, s)
      BY <3>1, Unseats
    <3>2. CASE ~Seated(y, s) /\ UNCHANGED presenceVars
      BY <3>2 DEF presenceVars, Seated
    <3> QED
      BY <1>4, <3>1, <3>2 DEF LeaveUnseat
  <2>2. \A x \in Rooms, y \in Sockets : Seated(x, y)' => Seated(x, y)
    <3>1. CASE Leave(t.leaving, s)
      BY <2>0, <3>1, SeatsLost
    <3>2. CASE ~Seated(t.leaving, s) /\ UNCHANGED presenceVars
      BY <3>2 DEF presenceVars, Seated
    <3> QED
      BY <1>4, <3>1, <3>2 DEF LeaveUnseat
  <2>3. up' = up /\ alive' = alive /\ page' = page /\ status' = status /\ roomSlug' = roomSlug
    BY <1>4 DEF LeaveUnseat, serverVars, tabVars
  <2>4. CASE t.kind = "join"
    <3> DEFINE u == [t EXCEPT !.pc = "subscribe", !.leaving = NoRoom]
    <3>1. /\ u \in Task /\ u.pc = "subscribe" /\ u.leaving = NoRoom
          /\ u.kind = t.kind /\ u.room = r
          /\ u.prev = t.prev /\ u.dead = t.dead /\ u.mine = t.mine
      BY <1>0 DEF Task
    <3>2. Goto(s, k, u)
      BY <1>4, <2>4 DEF LeaveUnseat
    <3>3. Shape(u)
      BY <1>0, <1>1, <2>0, <2>4, <3>1, NoRoomAssumption DEF Shape
    <3>4. roomSlug[s] \in {NoRoom, r}
      BY <2>0, <2>4 DEF MoveInv, PastAdmission, Early
    <3> HIDE DEF u
    <3> QED
      BY <2>0, <2>1, <2>2, <2>3, <3>1, <3>2, <3>3, <3>4, NoRoomAssumption, MoveOn
  <2>5. CASE t.kind # "join"
    <3>1. Finish(s, k)
      BY <1>4, <2>5 DEF LeaveUnseat
    <3> QED
      BY <2>0, <2>1, <2>2, <2>3, <3>1, MoveEnds
  <2> QED
    BY <2>4, <2>5
<1> QED
  BY <1>2, <1>3, <1>4

\* And those of a claim or a release.
LEMMA MoveScreens ==
    ASSUME StoreTypeOK, HandlersTypeOK, MoveInv, NEW s \in Sockets, NEW k \in DOMAIN tasks[s],
           ScreenStart(s, k) \/ ScreenClaim(s, k) \/ ScreenRelease(s, k)
    PROVE  MoveInv'
<1> DEFINE t == tasks[s][k]
<1>0. t \in Task /\ tasks \in [Sockets -> Seq(Task)]
  BY TaskMoves DEF HandlersTypeOK
<1>1. Shape(t)
  BY DEF MoveInv, Shapes
<1>2. /\ up' = up /\ alive' = alive /\ page' = page /\ status' = status /\ roomSlug' = roomSlug
      /\ peers' = peers
  BY DEF ScreenStart, ScreenClaim, ScreenRelease, ClaimOk, ClaimBusy, Release, storeVars,
         presenceVars, serverVars, tabVars
<1>3. \A x \in Sockets, y \in Rooms : Seated(y, x)' => Seated(y, x)
  BY <1>2 DEF Seated
<1>4. t.kind \in {"claim", "release"} /\ ~Seating(t) /\ t.leaving = NoRoom
  BY <1>1 DEF ScreenStart, ScreenClaim, ScreenRelease, Executes, Runs, Shape, Seating
<1>5. CASE Finish(s, k)
  BY <1>2, <1>3, <1>4, <1>5, NoRoomAssumption, MoveEnds
<1>6. CASE GotoPc(s, k, t.kind) /\ t.pc = "start"
  <2>1. Shape(At(t, t.kind))
    BY <1>0, <1>1, <1>4, <1>6, AtPc DEF Shape
  <2> QED
    BY <1>2, <1>4, <1>6, <2>1, MovePc
<1> QED
  BY <1>5, <1>6 DEF ScreenStart, ScreenClaim, ScreenRelease, Runs

\* A step that leaves the handlers and where the sockets are alone.
LEMMA MoveStays ==
    ASSUME MoveInv, UNCHANGED <<tasks, roomSlug, up, alive, page>>,
           \A x \in Sockets : /\ status'[x] = "joined" => status[x] = "joined"
                              /\ x \notin up => status'[x] = status[x],
           \A r \in Rooms, x \in Sockets : Seated(r, x)' => Seated(r, x)
    PROVE  MoveInv'
<1>1. Shapes' /\ OneMove' /\ PastAdmission'
  BY DEF MoveInv, Shapes, OneMove, PastAdmission, Shape, Moving, Early
<1>2. Gone'
  BY DEF MoveInv, Gone
<1>3. Settled'
  BY DEF MoveInv, Settled, Moving
<1>4. Accounted'
  <2> SUFFICES ASSUME NEW s \in Sockets, NEW r \in Rooms, InstanceOf[s] \in alive, Seated(r, s)'
               PROVE  \/ roomSlug[s] = r
                      \/ \E k \in DOMAIN tasks[s] :
                            \/ Seating(tasks[s][k]) /\ tasks[s][k].room = r
                            \/ tasks[s][k].leaving = r
    BY DEF Accounted, Seating
  <2>1. Seated(r, s)
    OBVIOUS
  <2> QED
    BY <2>1 DEF MoveInv, Accounted
<1> QED
  BY <1>1, <1>2, <1>3, <1>4 DEF MoveInv

\* And timers, the end of a meeting and time.
LEMMA MoveTimers ==
    ASSUME StoreTypeOK, HandlersTypeOK, MoveInv,
           \/ \E i \in Instances : TimerStep(i)
           \/ \E r \in Rooms : EndRoom(r) \/ EndStep(r)
           \/ TimePasses
    PROVE  MoveInv'
<1>1. UNCHANGED <<tasks, roomSlug, up, alive, page>>
  BY DEF TimerStep, Beat, SweepRoom, SweepFree, EndRoom, EndStep, AnnounceEnded,
         EndedClearScreen, EndedClearRoom, TimePasses, tabVars
<1>2. \A x \in Sockets : /\ status'[x] = "joined" => status[x] = "joined"
                         /\ x \notin up => status'[x] = status[x]
  BY DEF TimerStep, Beat, SweepRoom, SweepFree, EndRoom, EndStep, AnnounceEnded,
         EndedClearScreen, EndedClearRoom, TimePasses, tabVars
<1>3. \A y \in Rooms, x \in Sockets : Seated(y, x)' => Seated(y, x)
  <2>1. ASSUME NEW i \in Instances, NEW r \in Rooms, SweepRoom(i, r)
        PROVE  \A y \in Rooms, x \in Sockets : Seated(y, x)' => Seated(y, x)
    BY <2>1, SeatsLost DEF SweepRoom
  <2>2. ASSUME NEW r \in Rooms, EndedClearRoom(r)
        PROVE  \A y \in Rooms, x \in Sockets : Seated(y, x)' => Seated(y, x)
    BY <2>2, SeatsLost DEF EndedClearRoom
  <2>3. CASE TimePasses
    BY <2>3, SeatsLost DEF TimePasses
  <2>4. CASE peers' = peers
    BY <2>4 DEF Seated
  <2> QED
    BY <2>1, <2>2, <2>3, <2>4 DEF TimerStep, Beat, Heartbeat, SweepFree, Release, EndRoom, EndStep,
         AnnounceEnded, EndedClearScreen, ClearScreen, storeVars, presenceVars
<1> QED
  BY <1>1, <1>2, <1>3, MoveStays

\* A task that a tab sends.
LEMMA NewTaskIs ==
    ASSUME NEW kind \in {"join", "leave", "claim", "release"}, NEW r \in Rooms
    PROVE  LET v == NewTask(kind, r) IN
           /\ v \in Task /\ v.kind = kind /\ v.room = r /\ v.pc = "start" /\ v.leaving = NoRoom
           /\ v.prev = Nobody /\ v.dead = {} /\ v.mine
           /\ Shape(v) /\ ~Seating(v) /\ Early(v) = (kind = "join")
BY NoRoomAssumption DEF NewTask, Task, Shape, Seating, Early

\* And tabs.  Here a join may come only after whatever put its socket out.
LEMMA MoveTabs ==
    ASSUME "overtake" \notin Faults, HandlersTypeOK, MoveInv, NEW s \in Sockets, TabStep(s)
    PROVE  MoveInv'
<1>0. tasks \in [Sockets -> Seq(Task)]
  BY DEF HandlersTypeOK
<1>1. /\ s \in up /\ up' = up /\ alive' = alive /\ roomSlug' = roomSlug
      /\ \A x \in Sockets \ {s} : page'[x] = page[x] /\ status'[x] = status[x]
  BY DEF HandlersTypeOK, TabStep, OpenRoom, Rejoin, CloseRoom, AckTimeout, StartShare, StopShare,
         CanJoin, CanSend, serverVars, tabVars
<1>2. \A r \in Rooms, x \in Sockets : Seated(r, x)' => Seated(r, x)
  BY DEF TabStep, OpenRoom, Rejoin, CloseRoom, AckTimeout, StartShare, StopShare, storeVars, Seated
<1>3. ASSUME NEW r \in Rooms, CanJoin(s), Send(s, NewTask("join", r)),
             status' = [status EXCEPT ![s] = "joining"]
      PROVE  MoveInv'
  <2> DEFINE v == NewTask("join", r)
  <2>1. /\ v \in Task /\ v.kind = "join" /\ Shape(v) /\ Early(v) /\ ~Seating(v)
    BY NewTaskIs
  <2>2. \A j \in DOMAIN tasks[s] : ~Moving(tasks[s][j])
    BY <1>3 DEF CanJoin, PutOut, Moving
  <2>3. Asks(s, v, TRUE)
    BY <1>0, <1>3, <2>1, SendAsks
  <2>4. status'[s] = "joining"
    BY <1>3 DEF HandlersTypeOK
  <2> HIDE DEF v
  <2> QED
    BY <1>1, <1>2, <2>1, <2>2, <2>3, <2>4, MoveAsks
<1>4. ASSUME NEW kind \in {"claim", "release"}, NEW r \in Rooms, Send(s, NewTask(kind, r)),
             status' = status
      PROVE  MoveInv'
  <2> DEFINE v == NewTask(kind, r)
  <2>1. /\ v \in Task /\ v.kind = kind /\ Shape(v) /\ ~Seating(v)
    BY NewTaskIs
  <2>2. ~Moving(v) /\ v.kind # "join"
    BY <2>1 DEF Moving
  <2>3. Asks(s, v, TRUE)
    BY <1>0, <1>4, <2>1, SendAsks
  <2> HIDE DEF v
  <2> QED
    BY <1>1, <1>2, <1>4, <2>1, <2>2, <2>3, MoveAsks
<1>5. ASSUME tasks' = [tasks EXCEPT ![s] = Forget(@)], status'[s] # "joined"
      PROVE  MoveInv'
  <2>1. Asks(s, NoRoom, FALSE)
    BY <1>0, <1>5, ForgetAsks
  <2> QED
    BY <1>1, <1>2, <1>5, <2>1, MoveAsks
<1>6. CASE CloseRoom(s) /\ status[s] = "joined"
  <2>1. page[s] \in Rooms /\ status'[s] = "connecting"
    BY <1>6 DEF CloseRoom, HandlersTypeOK
  <2> DEFINE v == NewTask("leave", page[s])
  <2>2. /\ v \in Task /\ v.kind = "leave" /\ Shape(v) /\ ~Seating(v)
    BY <2>1, NewTaskIs
  <2>3. Asks(s, v, TRUE)
    BY <1>0, <1>6, <2>2, ForgetAsks DEF CloseRoom
  <2>4. \A j \in DOMAIN tasks[s] : ~Moving(tasks[s][j])
    BY <1>6 DEF MoveInv, Settled
  <2> HIDE DEF v
  <2> QED
    BY <1>1, <1>2, <2>1, <2>2, <2>3, <2>4, MoveAsks
<1>7. CASE \E r \in Rooms : OpenRoom(s, r)
  BY <1>3, <1>7 DEF OpenRoom
<1>8. CASE Rejoin(s)
  <2>1. page[s] \in Rooms
    BY <1>8 DEF Rejoin, HandlersTypeOK
  <2> QED
    BY <1>3, <1>8, <2>1 DEF Rejoin
<1>9. CASE CloseRoom(s) /\ status[s] # "joined"
  BY <1>5, <1>9 DEF CloseRoom, HandlersTypeOK
<1>10. CASE AckTimeout(s)
  BY <1>5, <1>10 DEF AckTimeout, HandlersTypeOK
<1>11. CASE StartShare(s)
  <2>1. page[s] \in Rooms
    BY <1>11 DEF StartShare, HandlersTypeOK
  <2> QED
    BY <1>4, <1>11, <2>1 DEF StartShare, tabVars
<1>12. CASE StopShare(s)
  <2>1. page[s] \in Rooms
    BY <1>12 DEF StopShare, HandlersTypeOK
  <2> QED
    BY <1>4, <1>12, <2>1 DEF StopShare
<1> QED
  BY <1>6, <1>7, <1>8, <1>9, <1>10, <1>11, <1>12 DEF TabStep

\* The cleanup that a lost connection leaves behind.
LEMMA CleanupIs ==
    ASSUME NEW r \in Rooms
    PROVE  LET v == [NewTask("leave", r) EXCEPT !.pc = "free", !.leaving = r] IN
           /\ v \in Task /\ v.kind = "leave" /\ v.room = r /\ v.pc = "free" /\ v.leaving = r
           /\ v.prev = Nobody /\ v.dead = {}
           /\ Shape(v) /\ ~Seating(v) /\ ~Early(v)
BY NoRoomAssumption DEF NewTask, Task, Shape, Seating, Early

\* A connection that goes leaves its handlers, and a cleanup.
LEMMA DisconnectAsks ==
    ASSUME HandlersTypeOK, NEW s \in Sockets, Disconnect(s), NEW v,
           roomSlug[s] # NoRoom =>
              v \in Task /\ v = [NewTask("leave", roomSlug[s]) EXCEPT !.pc = "free", !.leaving = roomSlug[s]]
    PROVE  /\ Asks(s, v, roomSlug[s] # NoRoom)
           /\ \A j \in DOMAIN tasks[s] : ~tasks'[s][j].mine
<1> DEFINE o == Forget(tasks[s])
<1>0. /\ tasks \in [Sockets -> Seq(Task)] /\ tasks[s] \in Seq(Task)
      /\ Len(tasks[s]) \in Nat /\ DOMAIN tasks[s] = 1 .. Len(tasks[s])
  BY LenProperties DEF HandlersTypeOK
<1>1. /\ o \in Seq(Task) /\ DOMAIN o = DOMAIN tasks[s] /\ Len(o) = Len(tasks[s])
      /\ \A j \in DOMAIN tasks[s] : ~o[j].mine
  BY <1>0, ForgetKeeps
<1>2. CASE roomSlug[s] = NoRoom
  <2>1. tasks' = [tasks EXCEPT ![s] = Forget(@)]
    BY <1>1, <1>2, ConcatEmptySeq DEF Disconnect
  <2>2. tasks'[s] = o
    BY <1>0, <2>1
  <2> HIDE DEF o
  <2> QED
    BY <1>0, <1>1, <1>2, <2>1, <2>2, ForgetAsks
<1>3. CASE roomSlug[s] # NoRoom
  <2>1. tasks' = [tasks EXCEPT ![s] = Forget(@) \o <<v>>]
    BY <1>3 DEF Disconnect
  <2>2. o \o <<v>> = Append(o, v)
    <3> HIDE DEF o
    <3> QED
      BY <1>1, AppendIsConcat
  <2>3. tasks' = [tasks EXCEPT ![s] = Append(Forget(@), v)]
    BY <2>1, <2>2
  <2>4. tasks'[s] = Append(o, v)
    BY <1>0, <2>3
  <2> HIDE DEF o
  <2>5. \A j \in 1 .. Len(o) : tasks'[s][j] = o[j]
    BY <1>1, <2>4, AppendProperties
  <2> QED
    BY <1>0, <1>1, <1>3, <2>3, <2>5, ForgetAsks
<1> QED
  BY <1>2, <1>3

\* Which keeps the invariant.
LEMMA MoveDisconnects ==
    ASSUME HandlersTypeOK, MoveInv, NEW s \in Sockets, Disconnect(s)
    PROVE  MoveInv'
<1>0. /\ tasks \in [Sockets -> Seq(Task)] /\ roomSlug[s] \in Rooms \cup {NoRoom}
      /\ s \in up
  BY DEF HandlersTypeOK, Disconnect
<1>1. /\ up' = up \ {s} /\ alive' = alive
      /\ page'[s] = NoRoom /\ status'[s] = "connecting" /\ roomSlug'[s] = NoRoom
      /\ \A x \in Sockets \ {s} : /\ page'[x] = page[x] /\ status'[x] = status[x]
                                  /\ roomSlug'[x] = roomSlug[x]
  BY DEF HandlersTypeOK, Disconnect
<1>2. \A r \in Rooms, x \in Sockets : Seated(r, x)' => Seated(r, x)
  BY DEF Disconnect, storeVars, Seated
<1> DEFINE more == roomSlug[s] # NoRoom
       v == [NewTask("leave", roomSlug[s]) EXCEPT !.pc = "free", !.leaving = roomSlug[s]]
<1>3. more => v \in Task /\ Shape(v) /\ v.kind = "leave" /\ v.leaving = roomSlug[s] /\ ~Seating(v)
  BY <1>0, CleanupIs
<1>4. Asks(s, v, more) /\ \A j \in DOMAIN tasks[s] : ~tasks'[s][j].mine
  BY <1>3, DisconnectAsks
<1>5. more \in BOOLEAN /\ s \notin up'
  BY <1>1
<1>6. more /\ Moving(v) => v.kind = "leave" /\ s \notin up'
  BY <1>3, <1>5
<1>7. /\ roomSlug'[s] = NoRoom
      /\ roomSlug[s] # NoRoom => more /\ v.leaving = roomSlug[s]
  BY <1>1, <1>3
<1> HIDE DEF more, v
<1> QED
  BY <1>0, <1>1, <1>2, <1>3, <1>4, <1>5, <1>6, <1>7, MoveAsks

\* So does a process that dies.
LEMMA MoveCrashes ==
    ASSUME HandlersTypeOK, MoveInv, NEW i \in Instances, Crash(i)
    PROVE  MoveInv'
<1> DEFINE gone == {s \in Sockets : InstanceOf[s] = i}
<1>1. /\ alive' = alive \ {i} /\ up' = up \ gone
      /\ \A s \in gone : /\ tasks'[s] = <<>> /\ roomSlug'[s] = NoRoom /\ page'[s] = NoRoom
                         /\ status'[s] = "connecting"
      /\ \A s \in Sockets \ gone : /\ tasks'[s] = tasks[s] /\ roomSlug'[s] = roomSlug[s]
                                   /\ page'[s] = page[s] /\ status'[s] = status[s]
  BY DEF Crash, HandlersTypeOK
<1>2. \A r \in Rooms, x \in Sockets : Seated(r, x)' => Seated(r, x)
  BY DEF Crash, storeVars, Seated
<1>3. \A s \in gone : \A k \in DOMAIN tasks'[s] : FALSE
  BY <1>1
<1>4. \A s \in Sockets : InstanceOf[s] \in alive' => s \in Sockets \ gone /\ InstanceOf[s] \in alive
  BY <1>1
<1> HIDE DEF gone
<1>5. Shapes'
  BY <1>1, <1>3 DEF MoveInv, Shapes
<1>6. Gone'
  <2>1. \A s \in up' : InstanceOf[s] \in alive'
    BY <1>1 DEF MoveInv, Gone, HandlersTypeOK, gone
  <2> QED
    BY <1>1, <1>3, <2>1 DEF MoveInv, Gone
<1>7. OneMove' /\ Settled' /\ PastAdmission'
  BY <1>1, <1>3 DEF MoveInv, OneMove, Settled, PastAdmission, Moving, Early
<1>8. Accounted'
  <2> SUFFICES ASSUME NEW s \in Sockets, NEW r \in Rooms, InstanceOf[s] \in alive', Seated(r, s)'
               PROVE  \/ roomSlug'[s] = r
                      \/ \E k \in DOMAIN tasks'[s] :
                            \/ Seating(tasks'[s][k]) /\ tasks'[s][k].room = r
                            \/ tasks'[s][k].leaving = r
    BY DEF Accounted, Seating
  <2> QED
    BY <1>1, <1>2, <1>4 DEF MoveInv, Accounted
<1> QED
  BY <1>5, <1>6, <1>7, <1>8 DEF MoveInv

\* Nobody moves at first.
LEMMA MoveStarts == TypeOK /\ Init => MoveInv
<1> SUFFICES ASSUME TypeOK, Init PROVE MoveInv
  OBVIOUS
<1>1. /\ up = Sockets /\ alive = Instances
      /\ \A s \in Sockets : /\ tasks[s] = <<>> /\ DOMAIN tasks[s] = {}
                            /\ page[s] = NoRoom /\ status[s] = "connecting"
  BY DEF Init
<1>2. \A r \in Rooms, s \in Sockets : ~Seated(r, s)
  BY UserOfAssumption DEF Init, StoreInit, PresenceInit, Seated
<1>3. Shapes /\ Gone /\ OneMove /\ Settled /\ PastAdmission
  BY <1>1, InstanceOfAssumption DEF Shapes, Gone, OneMove, Settled, PastAdmission
<1>4. Accounted
  BY <1>2 DEF Accounted
<1> QED
  BY <1>3, <1>4 DEF MoveInv

\* Every step keeps the invariant.
LEMMA MoveStep ==
    ASSUME "overtake" \notin Faults, TypeOK, MoveInv, [Next]_gatewayVars
    PROVE  MoveInv'
<1>0. StoreTypeOK /\ HandlersTypeOK
  BY DEF TypeOK, HandlersTypeOK
<1>1. CASE UNCHANGED gatewayVars
  <2>1. \A x \in Sockets, y \in Rooms : Seated(y, x)' => Seated(y, x)
    BY <1>1 DEF gatewayVars, Seated
  <2> QED
    BY <1>1, <2>1, MoveStays DEF gatewayVars
<1>2. ASSUME NEW s \in Sockets, TabStep(s) PROVE MoveInv'
  BY <1>0, <1>2, MoveTabs
<1>3. ASSUME NEW s \in Sockets, Disconnect(s) PROVE MoveInv'
  BY <1>0, <1>3, MoveDisconnects
<1>4. ASSUME NEW s \in Sockets, NEW k \in DOMAIN tasks[s], TaskStep(s, k) PROVE MoveInv'
  BY <1>0, <1>4, MoveJoins, MoveLeaves, MoveScreens DEF TaskStep
<1>5. ASSUME NEW i \in Instances, Crash(i) PROVE MoveInv'
  BY <1>0, <1>5, MoveCrashes
<1>6. CASE \/ \E i \in Instances : TimerStep(i)
           \/ \E r \in Rooms : EndRoom(r) \/ EndStep(r)
           \/ TimePasses
  BY <1>0, <1>6, MoveTimers
<1> QED
  BY <1>1, <1>2, <1>3, <1>4, <1>5, <1>6 DEF Next

\* It holds throughout.
LEMMA MoveAlways ==
    ASSUME "overtake" \notin Faults
    PROVE  Spec => []MoveInv
<1>1. TypeOK /\ MoveInv /\ [Next]_gatewayVars => MoveInv'
  BY MoveStep
<1> QED
  BY <1>1, MoveStarts, GatewayTypes, GatewayStart, PTL DEF Spec

-----------------------------------------------------------------------------
(* The handlers of a socket as a set, and what a step makes of them.       *)

InFlight(s) == {tasks[s][k] : k \in DOMAIN tasks[s]}
Rest(s, k) == {tasks[s][j] : j \in DOMAIN tasks[s] \ {k}}
Elsewhere(s) == \A x \in Sockets \ {s} : InFlight(x)' = InFlight(x)
Turns(s, k, u) == InFlight(s)' = Rest(s, k) \cup {u} /\ Elsewhere(s)
Drops(s, k) == InFlight(s)' = Rest(s, k) /\ Elsewhere(s)

\* The same handler, still owing the answer.
SameJob(t, u) == u.kind = t.kind /\ u.room = t.room /\ u.mine = t.mine
SameBut(t, u) == SameJob(t, u) /\ u.leaving = t.leaving /\ u.prev = t.prev /\ u.dead = t.dead

\* What Goto does to the handlers in flight.
LEMMA Turning ==
    ASSUME HandlersTypeOK, NEW s \in Sockets, NEW k \in DOMAIN tasks[s], NEW u \in Task,
           Goto(s, k, u)
    PROVE  Turns(s, k, u)
<1>1. /\ \E f, g : Moves(s, k, u, f, g)
      /\ \A x \in Sockets \ {s} : tasks'[x] = tasks[x]
  BY GotoMoves DEF HandlersTypeOK
<1>2. PICK f, g : Moves(s, k, u, f, g)
  BY <1>1
<1> DEFINE D == DOMAIN tasks[s]
<1>3. /\ DOMAIN tasks'[s] = D /\ f \in [D -> D] /\ g \in [D -> D]
      /\ \A j \in D : f[g[j]] = j /\ g[f[j]] = j
      /\ tasks'[s][g[k]] = u
      /\ \A j \in D \ {k} : tasks'[s][g[j]] = tasks[s][j]
  BY <1>2 DEF Moves
<1>4. \A j \in D : \/ f[j] = k /\ tasks'[s][j] = u
                   \/ f[j] \in D \ {k} /\ tasks'[s][j] = tasks[s][f[j]]
  BY <1>3
<1>5. InFlight(s)' = {tasks'[s][j] : j \in D}
  BY <1>3 DEF InFlight
<1>6. \A v \in Rest(s, k) : v \in InFlight(s)'
  BY <1>3, <1>5 DEF Rest
<1>7. u \in InFlight(s)' /\ InFlight(s)' \subseteq Rest(s, k) \cup {u}
  BY <1>3, <1>4, <1>5 DEF Rest
<1>8. Elsewhere(s)
  BY <1>1 DEF Elsewhere, InFlight
<1> QED
  BY <1>6, <1>7, <1>8 DEF Turns

\* What Finish does to them.
LEMMA Dropping ==
    ASSUME HandlersTypeOK, NEW s \in Sockets, NEW k \in DOMAIN tasks[s], Finish(s, k)
    PROVE  Drops(s, k)
<1>1. /\ \E f, g : Ends(s, k, f, g)
      /\ \A x \in Sockets \ {s} : tasks'[x] = tasks[x]
  BY FinishEnds DEF HandlersTypeOK
<1>2. PICK f, g : Ends(s, k, f, g)
  BY <1>1
<1> DEFINE D == DOMAIN tasks[s]
           E == DOMAIN tasks'[s]
<1>3. /\ f \in [E -> D \ {k}] /\ g \in [D \ {k} -> E]
      /\ \A j \in E : tasks'[s][j] = tasks[s][f[j]]
      /\ \A j \in D \ {k} : tasks'[s][g[j]] = tasks[s][j]
  BY <1>2 DEF Ends
<1>4. \A v : v \in InFlight(s)' <=> v \in Rest(s, k)
  BY <1>3 DEF InFlight, Rest
<1>5. Elsewhere(s)
  BY <1>1 DEF Elsewhere, InFlight
<1> QED
  BY <1>4, <1>5 DEF Drops

\* Only the point of the handler changes.
LEMMA TurningPc ==
    ASSUME HandlersTypeOK, NEW s \in Sockets, NEW k \in DOMAIN tasks[s],
           NEW pc \in {"start", "limit", "admit", "free", "unseat", "subscribe", "seat", "full",
                       "settle", "freePrevious", "register", "answer", "claim", "release"},
           GotoPc(s, k, pc)
    PROVE  \E u \in Task : u.pc = pc /\ SameBut(tasks[s][k], u) /\ Turns(s, k, u)
<1>0. tasks[s][k] \in Task
  BY TaskMoves DEF HandlersTypeOK
<1> DEFINE u == At(tasks[s][k], pc)
<1>1. u \in Task /\ u.pc = pc /\ SameBut(tasks[s][k], u)
  BY <1>0, AtPc DEF SameBut, SameJob
<1>2. Goto(s, k, u)
  BY DEF GotoPc, At
<1> HIDE DEF u
<1> QED
  BY <1>1, <1>2, Turning

\* What is in flight of a socket.
LEMMA InFlightIs ==
    ASSUME HandlersTypeOK, NEW s \in Sockets
    PROVE  /\ \A t \in InFlight(s) : t \in Task
           /\ \A k \in DOMAIN tasks[s] :
                 tasks[s][k] \in InFlight(s) /\ Rest(s, k) \subseteq InFlight(s)
                 /\ InFlight(s) = Rest(s, k) \cup {tasks[s][k]}
<1>1. \A k \in DOMAIN tasks[s] : tasks[s][k] \in Task
  BY TaskMoves DEF HandlersTypeOK
<1> QED
  BY <1>1 DEF InFlight, Rest

\* MoveInv, of what is in flight.
LEMMA MovesOf ==
    ASSUME MoveInv, NEW s \in Sockets
    PROVE  /\ \A t \in InFlight(s) : /\ Shape(t)
                                     /\ t.kind = "join" /\ ~Early(t) => roomSlug[s] \in {NoRoom, t.room}
                                     /\ status[s] = "joined" => ~Moving(t)
                                     /\ s \notin up /\ t.mine => t.kind = "leave"
           /\ s \in up => \A t, u \in InFlight(s) : Moving(t) /\ Moving(u) => t = u
           /\ s \in up => \A k \in DOMAIN tasks[s] : \A t \in Rest(s, k) : Moving(tasks[s][k]) => ~Moving(t)
BY DEF MoveInv, Shapes, PastAdmission, Settled, Gone, OneMove, InFlight, Rest

\* One that takes its seat, or is turned away.
LEMMA TurningSeat ==
    ASSUME StoreTypeOK, HandlersTypeOK, MoveInv, NEW s \in Sockets, NEW k \in DOMAIN tasks[s],
           JoinSeat(s, k)
    PROVE  LET t == tasks[s][k] IN
           /\ t.kind = "join" /\ t.pc = "seat" /\ t.leaving = NoRoom /\ t.prev = Nobody /\ t.dead = {}
           /\ t.room \in Rooms
           /\ \E u \in Task :
                 /\ Turns(s, k, u) /\ SameJob(t, u) /\ u.leaving = NoRoom
                 /\ u.dead = TimedOut(t.room)
                 /\ \/ u.pc = "settle" /\ \E m \in Media : JoinOk(t.room, s, m)
                    \/ u.pc = "full" /\ JoinFull(t.room, s)
                 /\ u.prev = IF u.pc = "full" \/ KeptPeers(t.room)[UserOf[s]] = NoEntry THEN Nobody
                             ELSE IF KeptPeers(t.room)[UserOf[s]].peer = s THEN Nobody
                             ELSE KeptPeers(t.room)[UserOf[s]].peer
<1> DEFINE t == tasks[s][k]
           r == t.room
           before == KeptPeers(r)[UserOf[s]]
           prev == IF before = NoEntry \/ before.peer = s THEN Nobody ELSE before.peer
<1>0. t \in Task /\ r \in Rooms /\ Shape(t)
  BY TaskMoves DEF HandlersTypeOK, Task, MoveInv, Shapes
<1>1. t.kind = "join" /\ t.pc = "seat" /\ t.leaving = NoRoom /\ t.prev = Nobody /\ t.dead = {}
  BY <1>0 DEF JoinSeat, Executes, Runs, Shape
<1>2. TimedOut(r) \in SUBSET Sockets
  BY <1>0 DEF TimedOut, Listed, StoreTypeOK, PresenceTypeOK, Participant
<1>3. prev \in Sockets \cup {Nobody}
  <2>1. before \in Participant \cup {NoEntry}
    BY <1>0, KeptTypes, UserOfAssumption DEF StoreTypeOK
  <2> QED
    BY <2>1 DEF Participant
<1>4. CASE /\ \E m \in Media : JoinOk(r, s, m)
           /\ Goto(s, k, [t EXCEPT !.pc = "settle", !.dead = TimedOut(r), !.prev = prev])
  <2> DEFINE u == [t EXCEPT !.pc = "settle", !.dead = TimedOut(r), !.prev = prev]
  <2>1. /\ u \in Task /\ u.pc = "settle" /\ u.leaving = NoRoom /\ SameJob(t, u)
        /\ u.dead = TimedOut(r) /\ u.prev = prev
    BY <1>0, <1>1, <1>2, <1>3 DEF Task, SameJob
  <2>2. Goto(s, k, u)
    BY <1>4
  <2> HIDE DEF u
  <2>3. Turns(s, k, u)
    BY <2>1, <2>2, Turning
  <2> QED
    BY <1>0, <1>1, <1>4, <2>1, <2>3
<1>5. CASE JoinFull(r, s) /\ Goto(s, k, [t EXCEPT !.pc = "full", !.dead = TimedOut(r)])
  <2> DEFINE u == [t EXCEPT !.pc = "full", !.dead = TimedOut(r)]
  <2>1. /\ u \in Task /\ u.pc = "full" /\ u.leaving = NoRoom /\ SameJob(t, u)
        /\ u.dead = TimedOut(r) /\ u.prev = Nobody
    BY <1>0, <1>1, <1>2 DEF Task, SameJob
  <2>2. Goto(s, k, u)
    BY <1>5
  <2> HIDE DEF u
  <2>3. Turns(s, k, u)
    BY <2>1, <2>2, Turning
  <2> QED
    BY <1>0, <1>1, <1>5, <2>1, <2>3
<1> QED
  BY <1>4, <1>5 DEF JoinSeat

\* Admitted, and leaving the room the socket is in.
LEMMA TurningAdmitted ==
    ASSUME HandlersTypeOK, MoveInv, NEW s \in Sockets, NEW k \in DOMAIN tasks[s],
           JoinAdmitted(s, k)
    PROVE  LET t == tasks[s][k] IN
           /\ t.kind = "join" /\ t.pc = "admit"
           /\ \E u \in Task :
                 /\ Turns(s, k, u) /\ SameJob(t, u) /\ u.prev = t.prev /\ u.dead = t.dead
                 /\ \/ u.pc = "subscribe" /\ u.leaving = NoRoom /\ UNCHANGED <<roomSlug, channel>>
                    \/ /\ u.pc = "free" /\ u.leaving = roomSlug[s]
                       /\ roomSlug[s] \in Rooms /\ roomSlug[s] # t.room
                       /\ roomSlug' = [roomSlug EXCEPT ![s] = NoRoom]
                       /\ channel' = [channel EXCEPT ![roomSlug[s]] = @ \ {s}]
<1> DEFINE t == tasks[s][k]
           old == roomSlug[s]
<1>0. t \in Task /\ Shape(t)
  BY TaskMoves DEF HandlersTypeOK, MoveInv, Shapes
<1>1. t.kind = "join" /\ t.pc = "admit" /\ t.leaving = NoRoom
  BY <1>0 DEF JoinAdmitted, Runs, Shape
<1>2. CASE old \in {NoRoom, t.room}
  <2>1. GotoPc(s, k, "subscribe") /\ UNCHANGED <<roomSlug, channel>>
    BY <1>2 DEF JoinAdmitted
  <2>2. PICK u \in Task : u.pc = "subscribe" /\ SameBut(t, u) /\ Turns(s, k, u)
    BY <2>1, TurningPc
  <2> QED
    BY <1>1, <2>1, <2>2 DEF SameBut
<1>3. CASE old \notin {NoRoom, t.room}
  <2> DEFINE u == [t EXCEPT !.pc = "free", !.leaving = old]
  <2>1. old \in Rooms
    BY <1>3 DEF HandlersTypeOK
  <2>2. u \in Task /\ u.pc = "free" /\ u.leaving = old /\ SameJob(t, u) /\ u.prev = t.prev /\ u.dead = t.dead
    BY <1>0, <2>1 DEF Task, SameJob
  <2>3. /\ Goto(s, k, u)
        /\ roomSlug' = [roomSlug EXCEPT ![s] = NoRoom]
        /\ channel' = [channel EXCEPT ![old] = @ \ {s}]
    BY <1>3 DEF JoinAdmitted
  <2> HIDE DEF u
  <2>4. Turns(s, k, u)
    BY <2>2, <2>3, Turning
  <2> QED
    BY <1>1, <1>3, <2>1, <2>2, <2>3, <2>4
<1> QED
  BY <1>2, <1>3

\* One of the slots it has to free.
LEMMA TurningDead ==
    ASSUME HandlersTypeOK, MoveInv, NEW s \in Sockets, NEW k \in DOMAIN tasks[s],
           JoinFreeDead(s, k)
    PROVE  LET t == tasks[s][k] IN
           /\ t.kind = "join" /\ t.pc \in {"settle", "full"} /\ t.leaving = NoRoom
           /\ \E u \in Task, d \in t.dead :
                 /\ Turns(s, k, u) /\ SameJob(t, u) /\ u.prev = t.prev /\ u.pc = t.pc
                 /\ u.leaving = NoRoom /\ u.dead = t.dead \ {d}
                 /\ Release(t.room, d)
<1> DEFINE t == tasks[s][k]
<1>0. t \in Task /\ Shape(t)
  BY TaskMoves DEF HandlersTypeOK, MoveInv, Shapes
<1>1. t.kind = "join" /\ t.pc \in {"settle", "full"} /\ t.leaving = NoRoom
  BY <1>0 DEF JoinFreeDead, Executes, Runs, Shape
<1>2. PICK d \in t.dead : Release(t.room, d) /\ Goto(s, k, [t EXCEPT !.dead = @ \ {d}])
  BY DEF JoinFreeDead
<1> DEFINE u == [t EXCEPT !.dead = @ \ {d}]
<1>3. /\ u \in Task /\ SameJob(t, u) /\ u.prev = t.prev /\ u.pc = t.pc /\ u.leaving = t.leaving
      /\ u.dead = t.dead \ {d}
  BY <1>0 DEF Task, SameJob
<1>4. Goto(s, k, u)
  BY <1>2
<1> HIDE DEF u
<1>5. Turns(s, k, u)
  BY <1>3, <1>4, Turning
<1> QED
  BY <1>1, <1>2, <1>3, <1>5

\* A join that frees the slot of the socket it displaced.
LEMMA TurningPrevious ==
    ASSUME HandlersTypeOK, MoveInv, NEW s \in Sockets, NEW k \in DOMAIN tasks[s],
           JoinFreePrevious(s, k)
    PROVE  LET t == tasks[s][k] IN
           /\ t.kind = "join" /\ t.pc = "freePrevious" /\ t.leaving = NoRoom /\ t.dead = {}
           /\ \E u \in Task :
                 /\ Turns(s, k, u) /\ SameJob(t, u) /\ u.prev = Nobody /\ u.pc = "register"
                 /\ u.leaving = NoRoom /\ u.dead = {}
           /\ Release(t.room, t.prev)
<1> DEFINE t == tasks[s][k]
<1>0. t \in Task /\ Shape(t)
  BY TaskMoves DEF HandlersTypeOK, MoveInv, Shapes
<1>1. t.kind = "join" /\ t.pc = "freePrevious" /\ t.leaving = NoRoom /\ t.dead = {}
  BY <1>0 DEF JoinFreePrevious, Executes, Runs, Shape
<1> DEFINE u == [t EXCEPT !.pc = "register", !.prev = Nobody]
<1>2. /\ u \in Task /\ SameJob(t, u) /\ u.prev = Nobody /\ u.pc = "register" /\ u.leaving = t.leaving
      /\ u.dead = t.dead
  BY <1>0 DEF Task, SameJob
<1>3. Goto(s, k, u) /\ Release(t.room, t.prev)
  BY DEF JoinFreePrevious
<1> HIDE DEF u
<1>4. Turns(s, k, u)
  BY <1>2, <1>3, Turning
<1> QED
  BY <1>1, <1>2, <1>3, <1>4

\* A leave that starts.
LEMMA TurningLeave ==
    ASSUME HandlersTypeOK, MoveInv, NEW s \in Sockets, NEW k \in DOMAIN tasks[s],
           LeaveStart(s, k)
    PROVE  LET t == tasks[s][k] IN
           /\ t.kind = "leave" /\ t.pc = "start" /\ t.room \in Rooms /\ t.leaving = NoRoom
           /\ \/ /\ roomSlug[s] # t.room /\ UNCHANGED <<roomSlug, channel>>
                 /\ Drops(s, k)
              \/ /\ roomSlug[s] = t.room
                 /\ roomSlug' = [roomSlug EXCEPT ![s] = NoRoom]
                 /\ channel' = [channel EXCEPT ![t.room] = @ \ {s}]
                 /\ \E u \in Task : /\ Turns(s, k, u) /\ SameJob(t, u) /\ u.prev = t.prev /\ u.dead = t.dead
                                    /\ u.pc = "free" /\ u.leaving = t.room
<1> DEFINE t == tasks[s][k]
<1>0. t \in Task /\ Shape(t) /\ t.room \in Rooms
  BY TaskMoves DEF HandlersTypeOK, MoveInv, Shapes, Task
<1>1. t.kind = "leave" /\ t.pc = "start" /\ t.leaving = NoRoom
  BY <1>0 DEF LeaveStart, Runs, Shape
<1>2. CASE roomSlug[s] = t.room
  <2> DEFINE u == [t EXCEPT !.pc = "free", !.leaving = t.room]
  <2>2. u \in Task /\ u.pc = "free" /\ u.leaving = t.room /\ SameJob(t, u) /\ u.prev = t.prev /\ u.dead = t.dead
    BY <1>0 DEF Task, SameJob
  <2>3. /\ Goto(s, k, u)
        /\ roomSlug' = [roomSlug EXCEPT ![s] = NoRoom]
        /\ channel' = [channel EXCEPT ![t.room] = @ \ {s}]
    BY <1>2 DEF LeaveStart
  <2> HIDE DEF u
  <2>4. Turns(s, k, u)
    BY <2>2, <2>3, Turning
  <2> QED
    BY <1>0, <1>1, <1>2, <2>2, <2>3, <2>4
<1>3. CASE roomSlug[s] # t.room
  <2>1. Finish(s, k) /\ UNCHANGED <<roomSlug, channel>>
    BY <1>3 DEF LeaveStart
  <2> QED
    BY <1>0, <1>1, <1>3, <2>1, Dropping
<1> QED
  BY <1>2, <1>3

\* A handler that gives the seat up.
LEMMA TurningUnseat ==
    ASSUME HandlersTypeOK, MoveInv, NEW s \in Sockets, NEW k \in DOMAIN tasks[s],
           LeaveUnseat(s, k)
    PROVE  LET t == tasks[s][k] IN
           /\ t.kind \in {"join", "leave"} /\ t.pc = "unseat" /\ t.leaving \in Rooms
           /\ t.prev = Nobody /\ t.dead = {}
           /\ \/ t.kind = "leave" /\ Drops(s, k)
              \/ /\ t.kind = "join"
                 /\ \E u \in Task : /\ Turns(s, k, u) /\ SameJob(t, u) /\ u.prev = Nobody /\ u.dead = {}
                                    /\ u.pc = "subscribe" /\ u.leaving = NoRoom
<1> DEFINE t == tasks[s][k]
<1>0. t \in Task /\ Shape(t)
  BY TaskMoves DEF HandlersTypeOK, MoveInv, Shapes
<1>1. t.pc = "unseat"
  BY DEF LeaveUnseat, Executes, Runs
<1>2. t.kind \in {"join", "leave"} /\ t.leaving \in Rooms /\ t.prev = Nobody /\ t.dead = {}
  BY <1>0, <1>1 DEF Shape, Task
<1>3. CASE t.kind = "join"
  <2> DEFINE u == [t EXCEPT !.pc = "subscribe", !.leaving = NoRoom]
  <2>2. u \in Task /\ u.pc = "subscribe" /\ u.leaving = NoRoom /\ SameJob(t, u) /\ u.prev = t.prev /\ u.dead = t.dead
    BY <1>0 DEF Task, SameJob
  <2>3. Goto(s, k, u)
    BY <1>3 DEF LeaveUnseat
  <2> HIDE DEF u
  <2>4. Turns(s, k, u)
    BY <2>2, <2>3, Turning
  <2> QED
    BY <1>1, <1>2, <1>3, <2>2, <2>4
<1>4. CASE t.kind # "join"
  <2>1. Finish(s, k)
    BY <1>4 DEF LeaveUnseat
  <2> QED
    BY <1>1, <1>2, <1>4, <2>1, Dropping
<1> QED
  BY <1>3, <1>4

\* Handlers of what a tab sends, and of one that forgets.
LEMMA Sending ==
    ASSUME HandlersTypeOK, NEW s \in Sockets, NEW v \in Task, Send(s, v)
    PROVE  InFlight(s)' = InFlight(s) \cup {v} /\ Elsewhere(s)
<1>1. Asks(s, v, TRUE)
  BY SendAsks DEF HandlersTypeOK
<1>2. tasks[s] \in Seq(Task) /\ tasks'[s] = Append(tasks[s], v)
  BY DEF HandlersTypeOK, Send
<1>3. Len(tasks[s]) \in Nat /\ DOMAIN tasks[s] = 1 .. Len(tasks[s])
  BY <1>2, LenProperties
<1>4. \A j \in DOMAIN tasks[s] : tasks'[s][j] = tasks[s][j]
  BY <1>2, <1>3, AppendProperties
<1>5. DOMAIN tasks'[s] = 1 .. Len(tasks[s]) + 1 /\ tasks'[s][Len(tasks[s]) + 1] = v
  BY <1>1 DEF Asks
<1>6. \A j \in DOMAIN tasks'[s] : j \in DOMAIN tasks[s] \/ j = Len(tasks[s]) + 1
  BY <1>3, <1>5
<1>7. DOMAIN tasks[s] \subseteq DOMAIN tasks'[s] /\ Len(tasks[s]) + 1 \in DOMAIN tasks'[s]
  BY <1>3, <1>5
<1>8. InFlight(s)' = InFlight(s) \cup {v}
  BY <1>4, <1>5, <1>6, <1>7 DEF InFlight
<1>9. \A x \in Sockets \ {s} : tasks'[x] = tasks[x]
  BY <1>1 DEF Asks
<1>10. Elsewhere(s)
  BY <1>9 DEF Elsewhere, InFlight
<1> QED
  BY <1>8, <1>10

Forgotten(t, u) ==
    /\ u.kind = t.kind /\ u.room = t.room /\ u.pc = t.pc /\ u.leaving = t.leaving
    /\ u.prev = t.prev /\ u.dead = t.dead /\ ~u.mine

\* Every handler that is in flight was, or is v; and none is lost.
Forgetful(s, v, more) ==
    /\ \A u \in InFlight(s)' : (more /\ u = v) \/ \E t \in InFlight(s) : Forgotten(t, u)
    /\ \A t \in InFlight(s) : \E u \in InFlight(s)' : Forgotten(t, u)
    /\ more => v \in InFlight(s)'
    /\ Elsewhere(s)

\* What a tab that gives up waiting does to its handlers.
LEMMA ForgettingAll ==
    ASSUME HandlersTypeOK, NEW s \in Sockets, NEW v, NEW more \in BOOLEAN, Asks(s, v, more),
           \A j \in DOMAIN tasks[s] : ~tasks'[s][j].mine
    PROVE  Forgetful(s, v, more)
<1> DEFINE n == Len(tasks[s])
           D == DOMAIN tasks[s]
<1>1. n \in Nat /\ D = 1 .. n
  BY LenProperties DEF HandlersTypeOK
<1>2. /\ DOMAIN tasks'[s] = IF more THEN 1 .. n + 1 ELSE D
      /\ \A j \in D : Forgotten(tasks[s][j], tasks'[s][j])
      /\ more => tasks'[s][n + 1] = v
      /\ \A x \in Sockets \ {s} : tasks'[x] = tasks[x]
  BY DEF Asks, Forgotten
<1>3. \A j \in DOMAIN tasks'[s] : j \in D \/ (more /\ j = n + 1)
  BY <1>1, <1>2
<1>4. D \subseteq DOMAIN tasks'[s] /\ (more => n + 1 \in DOMAIN tasks'[s])
  BY <1>1, <1>2
<1>5. \A u \in InFlight(s)' : (more /\ u = v) \/ \E t \in InFlight(s) : Forgotten(t, u)
  BY <1>2, <1>3 DEF InFlight
<1>6. \A t \in InFlight(s) : \E u \in InFlight(s)' : Forgotten(t, u)
  BY <1>2, <1>4 DEF InFlight
<1>7. more => v \in InFlight(s)'
  BY <1>2, <1>4 DEF InFlight
<1>8. Elsewhere(s)
  BY <1>2 DEF Elsewhere, InFlight
<1> QED
  BY <1>5, <1>6, <1>7, <1>8 DEF Forgetful

\* What a tab does to its handlers.
Sends(s, v) == v \in Task /\ InFlight(s)' = InFlight(s) \cup {v} /\ Elsewhere(s)

\* The tab's steps, one by one.
LEMMA TabTurns ==
    ASSUME HandlersTypeOK, NEW s \in Sockets, TabStep(s)
    PROVE  \/ \E r \in Rooms : /\ OpenRoom(s, r) \/ (Rejoin(s) /\ r = page[s])
                               /\ Sends(s, NewTask("join", r))
                               /\ CanJoin(s) /\ page'[s] = r /\ status'[s] = "joining"
                               /\ presenting' = presenting
                               /\ \/ page[s] = NoRoom
                                  \/ page[s] = r /\ status[s] = "displaced"
           \/ /\ CloseRoom(s) /\ status[s] = "joined" /\ page[s] \in Rooms
              /\ Forgetful(s, NewTask("leave", page[s]), TRUE)
              /\ page'[s] = NoRoom /\ status'[s] = "connecting" /\ presenting' = presenting \ {s}
           \/ /\ CloseRoom(s) /\ status[s] # "joined" /\ Forgetful(s, NoRoom, FALSE)
              /\ page'[s] = NoRoom /\ status'[s] = "connecting" /\ presenting' = presenting \ {s}
              /\ status[s] = "joining" => "unmount" \in Faults
           \/ /\ AckTimeout(s) /\ Forgetful(s, NoRoom, FALSE)
              /\ page'[s] = page[s] /\ status'[s] = "refused" /\ presenting' = presenting
              /\ status[s] = "joining"
              /\ "timeout" \in Faults
           \/ /\ StartShare(s) /\ page[s] \in Rooms /\ Sends(s, NewTask("claim", page[s]))
              /\ page'[s] = page[s] /\ status'[s] = status[s] /\ presenting' = presenting
              /\ status[s] = "joined" /\ s \notin presenting
              /\ \A j \in DOMAIN tasks[s] : tasks[s][j].kind # "claim"
           \/ /\ StopShare(s) /\ page[s] \in Rooms /\ Sends(s, NewTask("release", page[s]))
              /\ page'[s] = page[s] /\ status'[s] = status[s] /\ presenting' = presenting \ {s}
              /\ s \in presenting
<1>0. tasks \in [Sockets -> Seq(Task)] /\ page[s] \in Rooms \cup {NoRoom}
  BY DEF HandlersTypeOK
<1>1. ASSUME NEW r \in Rooms, NEW kind \in {"join", "claim", "release"}, Send(s, NewTask(kind, r))
      PROVE  Sends(s, NewTask(kind, r))
  BY <1>1, NewTaskIs, Sending DEF Sends
<1>2. ASSUME tasks' = [tasks EXCEPT ![s] = Forget(@)] PROVE Forgetful(s, NoRoom, FALSE)
  <2>1. Asks(s, NoRoom, FALSE)
    BY <1>0, <1>2, ForgetAsks
  <2>2. tasks[s] \in Seq(Task) /\ tasks'[s] = Forget(tasks[s])
    BY <1>0, <1>2
  <2>3. \A j \in DOMAIN tasks[s] : ~tasks'[s][j].mine
    BY <2>2, ForgetKeeps
  <2> QED
    BY <2>1, <2>3, ForgettingAll
<1>3. CASE \E r \in Rooms : OpenRoom(s, r)
  <2>1. PICK r \in Rooms : OpenRoom(s, r)
    BY <1>3
  <2>2. page'[s] = r /\ status'[s] = "joining"
    BY <2>1 DEF OpenRoom, HandlersTypeOK
  <2> QED
    BY <1>1, <2>1, <2>2 DEF OpenRoom
<1>4. CASE Rejoin(s)
  <2>1. page[s] \in Rooms /\ page'[s] = page[s] /\ status'[s] = "joining"
    BY <1>0, <1>4 DEF Rejoin, HandlersTypeOK
  <2> QED
    BY <1>1, <1>4, <2>1 DEF Rejoin
<1>5. CASE CloseRoom(s)
  <2>0. page[s] \in Rooms /\ page'[s] = NoRoom /\ status'[s] = "connecting"
    BY <1>0, <1>5 DEF CloseRoom, HandlersTypeOK
  <2>1. CASE status[s] = "joined"
    <3> DEFINE v == NewTask("leave", page[s])
               o == Forget(tasks[s])
    <3>1. v \in Task
      BY <2>0, NewTaskIs
    <3>2. tasks' = [tasks EXCEPT ![s] = Append(Forget(@), v)]
      BY <1>5, <2>1 DEF CloseRoom
    <3>3. Asks(s, v, TRUE)
      BY <1>0, <3>1, <3>2, ForgetAsks
    <3>4. tasks[s] \in Seq(Task) /\ tasks'[s] = Append(o, v)
      BY <1>0, <3>2
    <3>5. o \in Seq(Task) /\ DOMAIN o = DOMAIN tasks[s] /\ \A j \in DOMAIN o : ~o[j].mine
      BY <3>4, ForgetKeeps
    <3> HIDE DEF o, v
    <3>6. \A j \in DOMAIN o : tasks'[s][j] = o[j]
      BY <3>1, <3>4, <3>5, AppendProperties, LenProperties
    <3>7. Forgetful(s, v, TRUE)
      BY <3>3, <3>5, <3>6, ForgettingAll
    <3> QED
      BY <1>5, <2>0, <2>1, <3>7 DEF CloseRoom, v
  <2>2. CASE status[s] # "joined"
    BY <1>2, <1>5, <2>0, <2>2 DEF CloseRoom
  <2> QED
    BY <2>1, <2>2
<1>6. CASE AckTimeout(s)
  BY <1>2, <1>6 DEF AckTimeout, HandlersTypeOK
<1>7. CASE StartShare(s)
  BY <1>0, <1>1, <1>7 DEF StartShare, tabVars
<1>8. CASE StopShare(s)
  BY <1>0, <1>1, <1>8 DEF StopShare
<1> QED
  BY <1>3, <1>4, <1>5, <1>6, <1>7, <1>8 DEF TabStep

\* The same handler at the same point, whether or not its answer is awaited.
Alike(t, u) ==
    /\ u.kind = t.kind /\ u.room = t.room /\ u.pc = t.pc /\ u.leaving = t.leaving
    /\ u.prev = t.prev /\ u.dead = t.dead /\ (u.mine => t.mine)

\* What they have in common: handlers stay, and one may come.
LEMMA TabAdds ==
    ASSUME HandlersTypeOK, NEW s \in Sockets, TabStep(s)
    PROVE  /\ Elsewhere(s)
           /\ \A u \in InFlight(s)' : \/ \E t \in InFlight(s) : Alike(t, u)
                                      \/ \E kind \in {"join", "leave", "claim", "release"}, r \in Rooms :
                                            u = NewTask(kind, r) /\ (kind = "join" => CanJoin(s) /\ page'[s] = r /\ status'[s] = "joining")
           /\ \A t \in InFlight(s) : \E u \in InFlight(s)' : Alike(t, u)
<1>1. ASSUME NEW kind \in {"join", "leave", "claim", "release"}, NEW r \in Rooms, Sends(s, NewTask(kind, r)),
             kind = "join" => CanJoin(s) /\ page'[s] = r /\ status'[s] = "joining"
      PROVE  /\ Elsewhere(s)
             /\ \A u \in InFlight(s)' : \/ \E t \in InFlight(s) : Alike(t, u)
                                        \/ \E b \in {"join", "leave", "claim", "release"}, x \in Rooms :
                                              u = NewTask(b, x) /\ (b = "join" => CanJoin(s) /\ page'[s] = x /\ status'[s] = "joining")
             /\ \A t \in InFlight(s) : \E u \in InFlight(s)' : Alike(t, u)
  <2> DEFINE v == NewTask(kind, r)
  <2>1. InFlight(s)' = InFlight(s) \cup {v} /\ Elsewhere(s)
    BY <1>1 DEF Sends
  <2>2. \A t : Alike(t, t)
    BY DEF Alike
  <2> HIDE DEF v
  <2>3. \A u \in InFlight(s)' : (\E t \in InFlight(s) : Alike(t, u)) \/ u = v
    BY <2>1, <2>2
  <2>4. \A t \in InFlight(s) : \E u \in InFlight(s)' : Alike(t, u)
    BY <2>1, <2>2
  <2> QED
    BY <1>1, <2>1, <2>3, <2>4 DEF v
<1>2. ASSUME NEW v, NEW more \in BOOLEAN, Forgetful(s, v, more),
             more => \E r \in Rooms : v = NewTask("leave", r)
      PROVE  /\ Elsewhere(s)
             /\ \A u \in InFlight(s)' : \/ \E t \in InFlight(s) : Alike(t, u)
                                        \/ \E r \in Rooms : u = NewTask("leave", r)
             /\ \A t \in InFlight(s) : \E u \in InFlight(s)' : Alike(t, u)
  <2>1. \A t, u : Forgotten(t, u) => Alike(t, u)
    BY DEF Alike, Forgotten
  <2> QED
    BY <1>2, <2>1 DEF Forgetful
<1>3. CASE \E r \in Rooms : /\ Sends(s, NewTask("join", r))
                            /\ CanJoin(s) /\ page'[s] = r /\ status'[s] = "joining"
  BY <1>1, <1>3
<1>4. CASE page[s] \in Rooms /\ Forgetful(s, NewTask("leave", page[s]), TRUE)
  BY <1>2, <1>4
<1>5. CASE Forgetful(s, NoRoom, FALSE)
  BY <1>2, <1>5
<1>6. CASE page[s] \in Rooms /\ (Sends(s, NewTask("claim", page[s])) \/ Sends(s, NewTask("release", page[s])))
  BY <1>1, <1>6
<1> QED
  BY <1>3, <1>4, <1>5, <1>6, TabTurns

\* What is left of a socket whose connection is gone.
LEMMA DisconnectTurns ==
    ASSUME HandlersTypeOK, NEW s \in Sockets, Disconnect(s)
    PROVE  /\ \E v : /\ Forgetful(s, v, roomSlug[s] # NoRoom)
                     /\ roomSlug[s] # NoRoom =>
                           v.kind = "leave" /\ v.room = roomSlug[s] /\ v.leaving = roomSlug[s] /\ v.pc = "free"
                           /\ v.prev = Nobody /\ v.dead = {} /\ v \in Task
           /\ s \in up /\ up' = up \ {s} /\ presenting' = presenting \ {s}
           /\ \A x \in Sockets \ {s} : /\ page'[x] = page[x] /\ status'[x] = status[x]
                                       /\ roomSlug'[x] = roomSlug[x]
           /\ \A r \in Rooms : channel'[r] = channel[r] \ {s}
<1> DEFINE v == [NewTask("leave", roomSlug[s]) EXCEPT !.pc = "free", !.leaving = roomSlug[s]]
<1>1. roomSlug[s] # NoRoom =>
         v.kind = "leave" /\ v.room = roomSlug[s] /\ v.leaving = roomSlug[s] /\ v.pc = "free" /\ v \in Task
         /\ v.prev = Nobody /\ v.dead = {}
  <2> SUFFICES ASSUME roomSlug[s] # NoRoom
               PROVE  /\ v.kind = "leave" /\ v.room = roomSlug[s] /\ v.leaving = roomSlug[s]
                      /\ v.pc = "free" /\ v \in Task /\ v.prev = Nobody /\ v.dead = {}
    OBVIOUS
  <2>1. roomSlug[s] \in Rooms
    BY DEF HandlersTypeOK
  <2> QED
    BY <2>1, CleanupIs
<1>2. Asks(s, v, roomSlug[s] # NoRoom) /\ \A j \in DOMAIN tasks[s] : ~tasks'[s][j].mine
  BY <1>1, DisconnectAsks
<1> HIDE DEF v
<1>3. Forgetful(s, v, roomSlug[s] # NoRoom)
  BY <1>2, ForgettingAll
<1> QED
  BY <1>1, <1>3 DEF Disconnect, HandlersTypeOK

\* What is left when a process dies.
LEMMA CrashTurns ==
    ASSUME HandlersTypeOK, NEW i \in Instances, Crash(i)
    PROVE  /\ \A s \in Sockets : InFlight(s)' \subseteq InFlight(s)
           /\ up' \subseteq up /\ presenting' \subseteq presenting /\ presenting' \cap up' = presenting \cap up'
           /\ \A s \in Sockets : /\ InstanceOf[s] = i => s \notin up' /\ s \notin presenting'
                                 /\ InstanceOf[s] # i =>
                                      /\ InFlight(s)' = InFlight(s) /\ page'[s] = page[s]
                                      /\ status'[s] = status[s] /\ roomSlug'[s] = roomSlug[s]
           /\ \A r \in Rooms, s \in Sockets : s \in channel'[r] => s \in channel[r]
           /\ \A r \in Rooms, s \in up' : s \in channel[r] => s \in channel'[r]
           /\ \A j \in Instances : j \in alive' => j \in alive /\ freeing'[j] = freeing[j]
<1> DEFINE gone == {s \in Sockets : InstanceOf[s] = i}
<1>1. /\ alive' = alive \ {i} /\ up' = up \ gone /\ presenting' = presenting \ gone
      /\ \A s \in gone : tasks'[s] = <<>>
      /\ \A s \in Sockets \ gone : /\ tasks'[s] = tasks[s] /\ roomSlug'[s] = roomSlug[s]
                                   /\ page'[s] = page[s] /\ status'[s] = status[s]
      /\ \A r \in Rooms : channel'[r] = channel[r] \ gone
  BY DEF Crash, HandlersTypeOK
<1>2. \A j \in Instances : j # i => freeing'[j] = freeing[j]
  BY DEF Crash, HandlersTypeOK
<1>3. \A s \in Sockets : InFlight(s)' \subseteq InFlight(s) /\ (s \notin gone => InFlight(s)' = InFlight(s))
  BY <1>1 DEF InFlight
<1> QED
  BY <1>1, <1>2, <1>3 DEF HandlersTypeOK

\* The handlers that only go on to their next point, and those that end.
GoesOn(s, k) ==
    \/ JoinStart(s, k) \/ (JoinLimited(s, k) /\ GotoPc(s, k, "admit") /\ UNCHANGED tabVars)
    \/ JoinSubscribe(s, k) \/ JoinDisplace(s, k) \/ JoinRegister(s, k) \/ LeaveFree(s, k)
    \/ ScreenStart(s, k) /\ roomSlug[s] = tasks[s][k].room

Quits(s, k) ==
    \/ JoinLimited(s, k) /\ Finish(s, k) /\ AnswerJoin(s, k, "refused")
    \/ JoinRefused(s, k) \/ JoinTurnedAway(s, k) \/ JoinAnswered(s, k)
    \/ ScreenStart(s, k) /\ roomSlug[s] # tasks[s][k].room
    \/ ScreenClaim(s, k) \/ ScreenRelease(s, k)

\* A step of a handler is one of these.
LEMMA TaskCases ==
    ASSUME NEW s, NEW k, TaskStep(s, k)
    PROVE  \/ GoesOn(s, k) \/ Quits(s, k) \/ JoinAdmitted(s, k) \/ JoinSeat(s, k)
           \/ JoinFreeDead(s, k) \/ JoinFreePrevious(s, k) \/ LeaveStart(s, k) \/ LeaveUnseat(s, k)
BY DEF TaskStep, GoesOn, Quits, JoinLimited

\* The handlers that go on with the same in hand.
LEMMA GoingOn ==
    ASSUME HandlersTypeOK, MoveInv, NEW s \in Sockets, NEW k \in DOMAIN tasks[s], GoesOn(s, k)
    PROVE  LET t == tasks[s][k] IN
           \E u \in Task :
              /\ SameBut(t, u) /\ Turns(s, k, u)
              /\ \/ JoinStart(s, k) /\ t.kind = "join" /\ t.pc = "start" /\ u.pc = "limit"
                 \/ /\ JoinLimited(s, k) /\ UNCHANGED tabVars
                    /\ t.kind = "join" /\ t.pc = "limit" /\ u.pc = "admit"
                 \/ JoinSubscribe(s, k) /\ t.kind = "join" /\ t.pc = "subscribe" /\ u.pc = "seat"
                 \/ /\ JoinDisplace(s, k) /\ t.kind = "join" /\ t.pc = "settle" /\ u.pc = "freePrevious"
                    /\ t.dead = {} /\ t.prev \in Sockets
                 \/ /\ JoinRegister(s, k) /\ t.kind = "join" /\ t.pc \in {"settle", "register"}
                    /\ u.pc = "answer" /\ t.prev = Nobody /\ t.dead = {}
                 \/ LeaveFree(s, k) /\ t.kind \in {"join", "leave"} /\ t.pc = "free" /\ u.pc = "unseat"
                 \/ /\ ScreenStart(s, k) /\ t.kind \in {"claim", "release"}
                    /\ t.pc = "start" /\ u.pc = t.kind
<1> DEFINE t == tasks[s][k]
<1>0. t \in Task /\ Shape(t) /\ t.prev \in Sockets \cup {Nobody}
  BY TaskMoves DEF HandlersTypeOK, MoveInv, Shapes, Task
<1>1. CASE JoinStart(s, k)
  <2>1. t.kind = "join" /\ t.pc = "start" /\ GotoPc(s, k, "limit")
    BY <1>1 DEF JoinStart, Runs
  <2> QED
    BY <1>1, <2>1, TurningPc
<1>2. CASE JoinLimited(s, k) /\ GotoPc(s, k, "admit") /\ UNCHANGED tabVars
  <2>1. t.kind = "join" /\ t.pc = "limit"
    BY <1>0, <1>2 DEF JoinLimited, Executes, Runs, Shape
  <2> QED
    BY <1>2, <2>1, TurningPc
<1>3. CASE JoinSubscribe(s, k)
  <2>1. t.kind = "join" /\ t.pc = "subscribe" /\ GotoPc(s, k, "seat")
    BY <1>0, <1>3 DEF JoinSubscribe, Runs, Shape
  <2> QED
    BY <1>3, <2>1, TurningPc
<1>4. CASE JoinDisplace(s, k)
  <2>1. /\ t.kind = "join" /\ t.pc = "settle" /\ GotoPc(s, k, "freePrevious")
        /\ t.dead = {} /\ t.prev \in Sockets
    BY <1>0, <1>4 DEF JoinDisplace, Runs, Shape
  <2> QED
    BY <1>4, <2>1, TurningPc
<1>5. CASE JoinRegister(s, k)
  <2>1. /\ t.kind = "join" /\ t.pc \in {"settle", "register"} /\ GotoPc(s, k, "answer")
        /\ t.prev = Nobody /\ t.dead = {}
    BY <1>0, <1>5 DEF JoinRegister, Runs, Shape
  <2> QED
    BY <1>5, <2>1, TurningPc
<1>6. CASE LeaveFree(s, k)
  <2>1. t.kind \in {"join", "leave"} /\ t.pc = "free" /\ GotoPc(s, k, "unseat")
    BY <1>0, <1>6 DEF LeaveFree, Executes, Runs, Shape
  <2> QED
    BY <1>6, <2>1, TurningPc
<1>7. CASE ScreenStart(s, k) /\ roomSlug[s] = t.room
  <2>1. t.kind \in {"claim", "release"} /\ t.pc = "start" /\ GotoPc(s, k, t.kind)
    BY <1>7 DEF ScreenStart, Runs
  <2> QED
    BY <1>7, <2>1, TurningPc
<1> QED
  BY <1>1, <1>2, <1>3, <1>4, <1>5, <1>6, <1>7 DEF GoesOn

\* The handlers that end.
LEMMA Quitting ==
    ASSUME HandlersTypeOK, MoveInv, NEW s \in Sockets, NEW k \in DOMAIN tasks[s], Quits(s, k)
    PROVE  LET t == tasks[s][k] IN
           /\ Drops(s, k) /\ t.leaving = NoRoom /\ t.prev = Nobody /\ t.dead = {}
           /\ UNCHANGED <<peers, beats, ttl, roomSlug, page>>
           /\ \/ /\ t.kind = "join" /\ t.pc \in {"limit", "admit", "full", "answer"}
                 /\ UNCHANGED <<screen, presenting>>
                 /\ t.pc # "full" => UNCHANGED channel
                 /\ t.pc = "full" => channel' = [channel EXCEPT ![t.room] = @ \ {s}]
                 /\ status' = IF t.mine
                              THEN [status EXCEPT ![s] = IF t.pc = "answer" THEN "joined" ELSE status'[s]]
                              ELSE status
                 /\ t.pc # "answer" => status'[s] # "joined" \/ status' = status
              \/ /\ t.kind \in {"claim", "release"} /\ UNCHANGED <<channel, status>>
                 /\ ScreenClaim(s, k) \/ (UNCHANGED presenting /\ (UNCHANGED screen \/ ScreenRelease(s, k)))
<1> DEFINE t == tasks[s][k]
<1>0. t \in Task /\ Shape(t) /\ status \in [Sockets -> Statuses]
  BY TaskMoves DEF HandlersTypeOK, MoveInv, Shapes
<1>1. Finish(s, k)
  BY DEF Quits, JoinRefused, JoinTurnedAway, JoinAnswered, ScreenStart, ScreenClaim, ScreenRelease
<1>2. Drops(s, k)
  BY <1>1, Dropping
<1>3. UNCHANGED <<peers, beats, ttl, roomSlug, page>>
  BY DEF Quits, JoinLimited, JoinRefused, JoinTurnedAway, JoinAnswered, ScreenStart, ScreenClaim,
         ScreenRelease, AnswerJoin, storeVars, presenceVars, serverVars, tabVars, ClaimOk, ClaimBusy, Release
<1>4. CASE JoinLimited(s, k) /\ Finish(s, k) /\ AnswerJoin(s, k, "refused")
  BY <1>0, <1>2, <1>3, <1>4 DEF JoinLimited, Executes, Runs, AnswerJoin, Shape, storeVars, serverVars
<1>5. CASE JoinRefused(s, k)
  BY <1>0, <1>2, <1>3, <1>5 DEF JoinRefused, Runs, AnswerJoin, Shape, storeVars, serverVars
<1>6. CASE JoinTurnedAway(s, k)
  BY <1>0, <1>2, <1>3, <1>6 DEF JoinTurnedAway, Runs, AnswerJoin, Shape, storeVars
<1>7. CASE JoinAnswered(s, k)
  BY <1>0, <1>2, <1>3, <1>7 DEF JoinAnswered, Runs, AnswerJoin, Shape, storeVars, serverVars
<1>8. CASE ScreenStart(s, k) /\ roomSlug[s] # t.room
  BY <1>0, <1>2, <1>3, <1>8 DEF ScreenStart, Runs, Shape, storeVars, serverVars, tabVars
<1>9. CASE ScreenClaim(s, k)
  BY <1>0, <1>2, <1>3, <1>9 DEF ScreenClaim, Executes, Runs, Shape, serverVars
<1>10. CASE ScreenRelease(s, k)
  BY <1>0, <1>2, <1>3, <1>10 DEF ScreenRelease, Executes, Runs, Shape, serverVars, tabVars
<1> QED
  BY <1>4, <1>5, <1>6, <1>7, <1>8, <1>9, <1>10 DEF Quits

-----------------------------------------------------------------------------
\* What a connected socket is leaving it is out of.
Away ==
    \A s \in up : \A t \in InFlight(s) : \A r \in Rooms :
        t.leaving = r => roomSlug[s] # r /\ s \notin channel[r]

\* It stays true as long as nobody comes back.
LEMMA AwayKept ==
    ASSUME Away, up' \subseteq up,
           \A x \in up' : /\ \A u \in InFlight(x)' : \/ u.leaving = NoRoom
                                                     \/ \E t \in InFlight(x) : t.leaving = u.leaving
                          /\ roomSlug'[x] \in {roomSlug[x], NoRoom}
                          /\ \A r \in Rooms : x \in channel'[r] => x \in channel[r]
    PROVE  Away'
<1> SUFFICES ASSUME NEW s \in up', NEW u \in InFlight(s)', NEW r \in Rooms, u.leaving = r
             PROVE  roomSlug'[s] # r /\ s \notin channel'[r]
  BY DEF Away
<1>1. PICK t \in InFlight(s) : t.leaving = r
  BY NoRoomAssumption
<1> QED
  BY <1>1, NoRoomAssumption DEF Away

\* The socket whose only moving handler leaves nothing.
LEMMA AwayAlone ==
    ASSUME HandlersTypeOK, MoveInv, Away, NEW s \in Sockets, NEW k \in DOMAIN tasks[s], NEW u \in Task,
           Turns(s, k, u), Moving(tasks[s][k]), u.leaving = NoRoom, up' = up,
           \A x \in up', r \in Rooms : x # s => roomSlug'[x] \in {roomSlug[x], NoRoom}
                                                /\ (x \in channel'[r] => x \in channel[r])
    PROVE  Away'
<1> SUFFICES ASSUME NEW x \in up', NEW v \in InFlight(x)', NEW r \in Rooms, v.leaving = r
             PROVE  roomSlug'[x] # r /\ x \notin channel'[r]
  BY DEF Away
<1>0. x \in Sockets /\ r # NoRoom
  BY NoRoomAssumption DEF HandlersTypeOK
<1>1. CASE x # s
  <2>1. v \in InFlight(x)
    BY <1>0, <1>1 DEF Turns, Elsewhere
  <2> QED
    BY <1>0, <1>1, <2>1 DEF Away
<1>2. CASE x = s
  <2>1. v \in Rest(s, k) /\ v \in InFlight(s)
    BY <1>0, <1>2, InFlightIs DEF Turns
  <2>2. Shape(v) /\ ~Moving(v)
    BY <1>2, <2>1, MovesOf
  <2> QED
    BY <1>0, <2>2 DEF Shape, Moving
<1> QED
  BY <1>1, <1>2

\* The socket that begins to leave the room it is in.
LEMMA AwayLeaves ==
    ASSUME HandlersTypeOK, MoveInv, Away, NEW s \in Sockets, NEW k \in DOMAIN tasks[s], NEW u \in Task,
           Turns(s, k, u), Moving(tasks[s][k]), up' = up,
           \/ u.leaving = NoRoom /\ UNCHANGED <<roomSlug, channel>>
           \/ /\ u.leaving = roomSlug[s] /\ roomSlug[s] \in Rooms
              /\ roomSlug' = [roomSlug EXCEPT ![s] = NoRoom]
              /\ channel' = [channel EXCEPT ![roomSlug[s]] = @ \ {s}]
    PROVE  Away'
<1> SUFFICES ASSUME NEW x \in up', NEW v \in InFlight(x)', NEW r \in Rooms, v.leaving = r
             PROVE  roomSlug'[x] # r /\ x \notin channel'[r]
  BY DEF Away
<1>0. x \in Sockets /\ r # NoRoom
  BY NoRoomAssumption DEF HandlersTypeOK
<1>1. /\ roomSlug'[x] \in {roomSlug[x], NoRoom}
      /\ x \in channel'[r] => x \in channel[r]
  BY <1>0 DEF HandlersTypeOK
<1>2. CASE v \in InFlight(x)
  BY <1>0, <1>1, <1>2 DEF Away
<1>3. CASE x = s /\ v = u
  <2>1. u.leaving = roomSlug[s] /\ r = roomSlug[s]
    BY <1>0, <1>3
  <2>2. roomSlug'[s] = NoRoom /\ s \notin channel'[r]
    BY <1>0, <1>3, <2>1, NoRoomAssumption DEF HandlersTypeOK
  <2> QED
    BY <1>0, <1>3, <2>2
<1> QED
  BY <1>0, <1>2, <1>3, InFlightIs DEF Turns, Elsewhere

\* Handlers keep it.
LEMMA AwayTasks ==
    ASSUME StoreTypeOK, HandlersTypeOK, MoveInv, Away, NEW s \in Sockets, NEW k \in DOMAIN tasks[s],
           TaskStep(s, k)
    PROVE  Away'
<1> DEFINE t == tasks[s][k]
<1>0. /\ t \in InFlight(s) /\ Rest(s, k) \subseteq InFlight(s)
      /\ up \subseteq Sockets
  BY InFlightIs DEF HandlersTypeOK
<1>1. CASE GoesOn(s, k)
  <2>1. PICK u \in Task :
              /\ SameBut(t, u) /\ Turns(s, k, u)
              /\ \/ JoinStart(s, k) \/ (JoinLimited(s, k) /\ UNCHANGED tabVars)
                 \/ JoinSubscribe(s, k) /\ Moving(t) /\ u.leaving = NoRoom
                 \/ JoinDisplace(s, k)
                 \/ JoinRegister(s, k) /\ Moving(t) /\ u.leaving = NoRoom
                 \/ LeaveFree(s, k) \/ ScreenStart(s, k)
    <3>1. Shape(t)
      BY DEF MoveInv, Shapes
    <3> QED
      BY <1>1, <3>1, GoingOn DEF Moving, SameBut, Shape
  <2>2. up' = up
    BY <2>1 DEF JoinStart, JoinLimited, JoinSubscribe, JoinDisplace, JoinRegister, LeaveFree, ScreenStart
  <2>3. ASSUME NEW x \in up'
        PROVE  \A v \in InFlight(x)' : \/ v.leaving = NoRoom
                                       \/ \E w \in InFlight(x) : w.leaving = v.leaving
    BY <1>0, <2>1, <2>2, <2>3 DEF Turns, Elsewhere, SameBut
  <2>4. CASE JoinSubscribe(s, k) /\ Moving(t) /\ u.leaving = NoRoom
    <3>1. /\ roomSlug' = roomSlug
          /\ \A x \in Sockets, r \in Rooms : x \in channel'[r] => x \in channel[r] \/ x = s
      BY <2>4 DEF JoinSubscribe, HandlersTypeOK
    <3>2. \A x \in up', r \in Rooms : roomSlug'[x] \in {roomSlug[x], NoRoom} /\ (x # s => (x \in channel'[r] => x \in channel[r]))
      BY <1>0, <2>2, <3>1
    <3> QED
      BY <2>1, <2>2, <2>4, <3>2, AwayAlone
  <2>5. CASE JoinRegister(s, k) /\ Moving(t) /\ u.leaving = NoRoom
    <3>1. /\ channel' = channel
          /\ \A x \in Sockets : x # s => roomSlug'[x] = roomSlug[x]
      BY <2>5 DEF JoinRegister, HandlersTypeOK
    <3>2. \A x \in up', r \in Rooms : x # s => roomSlug'[x] \in {roomSlug[x], NoRoom} /\ (x \in channel'[r] => x \in channel[r])
      BY <1>0, <2>2, <3>1
    <3> QED
      BY <2>1, <2>2, <2>5, <3>2, AwayAlone
  <2>6. CASE \/ JoinStart(s, k) \/ (JoinLimited(s, k) /\ UNCHANGED tabVars)
             \/ JoinDisplace(s, k) \/ LeaveFree(s, k) \/ ScreenStart(s, k)
    <3>1. roomSlug' = roomSlug /\ \A x \in Sockets, r \in Rooms : x \in channel'[r] => x \in channel[r]
      BY <2>6 DEF JoinStart, JoinLimited, JoinDisplace, LeaveFree, ScreenStart, serverVars, HandlersTypeOK
    <3> QED
      BY <1>0, <2>2, <2>3, <3>1, AwayKept
  <2> QED
    BY <2>1, <2>4, <2>5, <2>6
<1>2. CASE Quits(s, k) \/ JoinFreeDead(s, k) \/ JoinSeat(s, k) \/ JoinFreePrevious(s, k) \/ LeaveUnseat(s, k)
  <2>1. up' = up /\ roomSlug' = roomSlug
    BY <1>2 DEF Quits, JoinLimited, JoinRefused, JoinTurnedAway, JoinAnswered, ScreenStart, ScreenClaim,
                ScreenRelease, JoinFreeDead, JoinSeat, JoinFreePrevious, LeaveUnseat, serverVars
  <2>2. \A x \in Sockets, r \in Rooms : x \in channel'[r] => x \in channel[r]
    BY <1>2 DEF Quits, JoinLimited, JoinRefused, JoinTurnedAway, JoinAnswered, ScreenStart, ScreenClaim,
                ScreenRelease, JoinFreeDead, JoinSeat, JoinFreePrevious, LeaveUnseat, serverVars, HandlersTypeOK
  <2>3. \/ Drops(s, k)
        \/ \E u \in Task : Turns(s, k, u) /\ u.leaving = NoRoom
    BY <1>2, Quitting, TurningDead, TurningSeat, TurningPrevious, TurningUnseat
  <2>4. ASSUME NEW x \in up'
        PROVE  \A v \in InFlight(x)' : \/ v.leaving = NoRoom
                                       \/ \E w \in InFlight(x) : w.leaving = v.leaving
    BY <1>0, <2>1, <2>3, <2>4 DEF Turns, Drops, Elsewhere
  <2> QED
    BY <1>0, <2>1, <2>2, <2>4, AwayKept
<1>3. CASE JoinAdmitted(s, k)
  <2>1. PICK u \in Task :
            /\ Turns(s, k, u) /\ Moving(t)
            /\ \/ u.leaving = NoRoom /\ UNCHANGED <<roomSlug, channel>>
               \/ /\ u.leaving = roomSlug[s] /\ roomSlug[s] \in Rooms
                  /\ roomSlug' = [roomSlug EXCEPT ![s] = NoRoom]
                  /\ channel' = [channel EXCEPT ![roomSlug[s]] = @ \ {s}]
    BY <1>3, TurningAdmitted DEF Moving
  <2> QED
    BY <1>3, <2>1, AwayLeaves DEF JoinAdmitted
<1>4. CASE LeaveStart(s, k)
  <2>1. Moving(t)
    BY <1>4, TurningLeave DEF Moving
  <2>2. CASE roomSlug[s] # t.room /\ UNCHANGED <<roomSlug, channel>> /\ Drops(s, k)
    <3>1. up' = up
      BY <1>4 DEF LeaveStart
    <3>2. ASSUME NEW x \in up'
          PROVE  \A v \in InFlight(x)' : \/ v.leaving = NoRoom
                                         \/ \E w \in InFlight(x) : w.leaving = v.leaving
      BY <1>0, <2>2, <3>1, <3>2 DEF Drops, Elsewhere
    <3> QED
      BY <2>2, <3>1, <3>2, AwayKept
  <2>3. ASSUME NEW u \in Task, Turns(s, k, u), u.leaving = roomSlug[s], roomSlug[s] \in Rooms,
               roomSlug' = [roomSlug EXCEPT ![s] = NoRoom],
               channel' = [channel EXCEPT ![roomSlug[s]] = @ \ {s}]
        PROVE  Away'
    BY <1>4, <2>1, <2>3, AwayLeaves DEF LeaveStart
  <2> QED
    BY <1>4, <2>2, <2>3, TurningLeave
<1> QED
  BY <1>1, <1>2, <1>3, <1>4, TaskCases

\* Every step keeps it.
LEMMA AwayStep ==
    ASSUME TypeOK, MoveInv, Away, [Next]_gatewayVars
    PROVE  Away'
<1>0. StoreTypeOK /\ HandlersTypeOK
  BY DEF TypeOK, HandlersTypeOK
<1>1. CASE UNCHANGED gatewayVars
  BY <1>1 DEF gatewayVars, Away, InFlight
<1>2. ASSUME NEW s \in Sockets, TabStep(s) PROVE Away'
  <2>1. up' = up /\ roomSlug' = roomSlug /\ channel' = channel
    BY <1>2 DEF TabStep, OpenRoom, Rejoin, CloseRoom, AckTimeout, StartShare, StopShare, serverVars
  <2>2. \A kind \in {"join", "leave", "claim", "release"}, r \in Rooms : NewTask(kind, r).leaving = NoRoom
    BY NewTaskIs
  <2>3. /\ Elsewhere(s)
        /\ \A u \in InFlight(s)' : \/ u.leaving = NoRoom
                                   \/ \E w \in InFlight(s) : w.leaving = u.leaving
    BY <1>0, <1>2, <2>2, TabAdds DEF Alike
  <2>4. ASSUME NEW x \in up'
        PROVE  \A u \in InFlight(x)' : \/ u.leaving = NoRoom
                                       \/ \E w \in InFlight(x) : w.leaving = u.leaving
    BY <1>0, <2>1, <2>3, <2>4 DEF Elsewhere, HandlersTypeOK
  <2> QED
    BY <2>1, <2>4, AwayKept
<1>3. ASSUME NEW s \in Sockets, Disconnect(s) PROVE Away'
  <2>1. PICK v : Forgetful(s, v, roomSlug[s] # NoRoom)
    BY <1>0, <1>3, DisconnectTurns
  <2>2. /\ up' = up \ {s}
        /\ \A x \in Sockets \ {s} : roomSlug'[x] = roomSlug[x]
        /\ \A r \in Rooms : channel'[r] = channel[r] \ {s}
    BY <1>0, <1>3, DisconnectTurns
  <2>3. \A x \in up' : InFlight(x)' = InFlight(x) /\ roomSlug'[x] = roomSlug[x]
    BY <1>0, <2>1, <2>2 DEF Forgetful, Elsewhere, HandlersTypeOK
  <2> QED
    BY <2>2, <2>3, AwayKept
<1>4. ASSUME NEW s \in Sockets, NEW k \in DOMAIN tasks[s], TaskStep(s, k) PROVE Away'
  BY <1>0, <1>4, AwayTasks
<1>5. ASSUME NEW i \in Instances, Crash(i) PROVE Away'
  <2>1. /\ up' \subseteq up /\ up' \subseteq Sockets
        /\ \A s \in up' : /\ InFlight(s)' = InFlight(s) /\ roomSlug'[s] = roomSlug[s]
                          /\ \A r \in Rooms : s \in channel'[r] => s \in channel[r]
    BY <1>0, <1>5, CrashTurns DEF HandlersTypeOK
  <2> QED
    BY <2>1, AwayKept
<1>6. CASE \/ \E i \in Instances : TimerStep(i)
           \/ \E r \in Rooms : EndRoom(r) \/ EndStep(r)
           \/ TimePasses
  <2>1. UNCHANGED <<tasks, roomSlug, up>>
    BY <1>6 DEF TimerStep, Beat, SweepRoom, SweepFree, EndRoom, EndStep, AnnounceEnded,
         EndedClearScreen, EndedClearRoom, TimePasses, tabVars
  <2>2. \A r \in Rooms, x \in up : x \in channel'[r] => x \in channel[r]
    BY <1>0, <1>6 DEF TimerStep, Beat, SweepRoom, SweepFree, EndRoom, EndStep, AnnounceEnded,
         EndedClearScreen, EndedClearRoom, TimePasses, tabVars, HandlersTypeOK
  <2>3. \A x \in up' : InFlight(x)' = InFlight(x)
    BY <2>1 DEF InFlight
  <2> QED
    BY <2>1, <2>2, <2>3, AwayKept
<1> QED
  BY <1>1, <1>2, <1>3, <1>4, <1>5, <1>6 DEF Next

\* While nothing stalls, the seat of a connected socket that its process knows
\* of, or that its join has just taken, is at most one heartbeat old.
Beats ==
    \A s \in up, r \in Rooms : Seated(r, s) =>
        /\ roomSlug[s] = r => beats[r][UserOf[s]] <= (IF InstanceOf[s] \in beaten THEN 0 ELSE 1)
        /\ \A t \in InFlight(s) : Seating(t) /\ t.room = r => beats[r][UserOf[s]] <= 0

\* A seat that is held after a script was held before, or is fresh; only the
\* passing of time makes it older.
LEMMA AgesKept ==
    ASSUME StoreTypeOK, NEW r \in Rooms, NEW s \in Sockets,
           \/ JoinFull(r, s) \/ Leave(r, s) \/ Sweep(r) \/ ClearRoom(r)
           \/ \E m \in Media : JoinOk(r, s, m)
           \/ \E e \in SUBSET (Rooms \X Sockets) : Heartbeat(e)
           \/ UNCHANGED presenceVars
    PROVE  \A y \in Rooms, x \in Sockets : Seated(y, x)' =>
              \/ Seated(y, x) /\ beats'[y][UserOf[x]] <= beats[y][UserOf[x]]
              \/ beats'[y][UserOf[x]] <= 0
<1> SUFFICES ASSUME NEW y \in Rooms, NEW x \in Sockets, Seated(y, x)'
             PROVE  \/ Seated(y, x) /\ beats'[y][UserOf[x]] <= beats[y][UserOf[x]]
                    \/ beats'[y][UserOf[x]] <= 0
  OBVIOUS
<1>0. /\ UserOf[x] \in Users /\ UserOf[s] \in Users
      /\ beats[y][UserOf[x]] \in Int /\ NoBeat <= 0
      /\ beats \in [Rooms -> [Users -> NoBeat .. StaleAge]]
      /\ peers \in [Rooms -> [Users -> Participant \cup {NoEntry}]]
  BY UserOfAssumption, TimingAssumption DEF StoreTypeOK, PresenceTypeOK, NoBeat
<1>1. CASE JoinFull(r, s)
  BY <1>0, <1>1 DEF JoinFull, KeptBeats, KeptPeers, Seated
<1>2. CASE Leave(r, s)
  BY <1>0, <1>2 DEF Leave, Seated
<1>3. CASE Sweep(r)
  BY <1>0, <1>3 DEF Sweep, KeptBeats, KeptPeers, Seated
<1>4. CASE ClearRoom(r)
  BY <1>0, <1>4 DEF ClearRoom, Seated
<1>5. ASSUME NEW m \in Media, JoinOk(r, s, m)
      PROVE  \/ Seated(y, x) /\ beats'[y][UserOf[x]] <= beats[y][UserOf[x]]
             \/ beats'[y][UserOf[x]] <= 0
  <2>1. CASE y # r \/ UserOf[x] # UserOf[s]
    BY <1>0, <1>5, <2>1 DEF JoinOk, KeptBeats, KeptPeers, Seated
  <2>2. CASE y = r /\ UserOf[x] = UserOf[s]
    <3>1. beats'[y][UserOf[x]] = 0
      BY <1>0, <1>5, <2>2 DEF JoinOk, KeptBeats
    <3> QED
      BY <3>1
  <2> QED
    BY <2>1, <2>2
<1>6. ASSUME NEW e \in SUBSET (Rooms \X Sockets), Heartbeat(e)
      PROVE  \/ Seated(y, x) /\ beats'[y][UserOf[x]] <= beats[y][UserOf[x]]
             \/ beats'[y][UserOf[x]] <= 0
  <2>1. Seated(y, x)
    BY <1>6 DEF Heartbeat, Seated
  <2>2. beats'[y][UserOf[x]] \in {0, beats[y][UserOf[x]]}
    BY <1>0, <1>6 DEF Heartbeat
  <2> QED
    BY <1>0, <2>1, <2>2
<1>7. CASE UNCHANGED presenceVars
  BY <1>0, <1>7 DEF presenceVars, Seated
<1> QED
  BY <1>1, <1>2, <1>3, <1>4, <1>5, <1>6, <1>7

\* It stays true as long as seats are no older and nobody comes in.
LEMMA BeatsKept ==
    ASSUME StoreTypeOK, HandlersTypeOK, Beats, up' \subseteq up, beaten' = beaten,
           StoreTypeOK',
           \A x \in up', y \in Rooms :
              /\ Seated(y, x)' => \/ Seated(y, x) /\ beats'[y][UserOf[x]] <= beats[y][UserOf[x]]
                                  \/ beats'[y][UserOf[x]] <= 0
              /\ roomSlug'[x] = y => \/ roomSlug[x] = y
                                     \/ \E t \in InFlight(x) : Seating(t) /\ t.room = y
              /\ \A u \in InFlight(x)' : Seating(u) /\ u.room = y =>
                    \/ \E t \in InFlight(x) : Seating(t) /\ t.room = y
                    \/ beats'[y][UserOf[x]] <= 0
    PROVE  Beats'
<1> SUFFICES ASSUME NEW x \in up', NEW y \in Rooms, Seated(y, x)'
             PROVE  /\ roomSlug'[x] = y => beats'[y][UserOf[x]] <= (IF InstanceOf[x] \in beaten THEN 0 ELSE 1)
                    /\ \A t \in InFlight(x)' : Seating(t) /\ t.room = y => beats'[y][UserOf[x]] <= 0
  BY DEF Beats, Seating
<1>0. /\ x \in up /\ x \in Sockets
      /\ beats[y][UserOf[x]] \in Int /\ beats'[y][UserOf[x]] \in Int
  BY UserOfAssumption, TimingAssumption DEF StoreTypeOK, PresenceTypeOK, NoBeat, HandlersTypeOK
<1>1. CASE beats'[y][UserOf[x]] <= 0
  BY <1>0, <1>1
<1>2. CASE Seated(y, x) /\ beats'[y][UserOf[x]] <= beats[y][UserOf[x]]
  <2>1. ASSUME NEW t \in InFlight(x), Seating(t), t.room = y
        PROVE  beats'[y][UserOf[x]] <= 0
    BY <1>0, <1>2, <2>1 DEF Beats
  <2>2. CASE roomSlug[x] = y
    BY <1>0, <1>2, <2>1, <2>2 DEF Beats
  <2>3. CASE ~ \E t \in InFlight(x) : Seating(t) /\ t.room = y
    BY <1>0, <1>2, <2>2, <2>3 DEF Beats
  <2> QED
    BY <1>1, <2>1, <2>3
<1> QED
  BY <1>1, <1>2

\* Handlers keep it.
LEMMA BeatsTasks ==
    ASSUME StoreTypeOK, StoreTypeOK', HandlersTypeOK, MoveInv, Beats, NEW s \in Sockets, NEW k \in DOMAIN tasks[s],
           TaskStep(s, k)
    PROVE  Beats'
<1> DEFINE t == tasks[s][k]
           r == t.room
<1>0. /\ t \in InFlight(s) /\ Rest(s, k) \subseteq InFlight(s) /\ r \in Rooms /\ t \in Task
      /\ up \subseteq Sockets /\ up' = up /\ beaten' = beaten
  BY InFlightIs, TaskMoves DEF HandlersTypeOK, Task, TaskStep, JoinStart, JoinLimited, JoinRefused, JoinAdmitted,
     JoinSubscribe, JoinSeat, JoinFreeDead, JoinTurnedAway, JoinDisplace, JoinFreePrevious, JoinRegister,
     JoinAnswered, LeaveStart, LeaveFree, LeaveUnseat, ScreenStart, ScreenClaim, ScreenRelease, serverVars
<1>1. ASSUME NEW u \in Task, Turns(s, k, u) \/ Drops(s, k), u.room = r,
             Seating(u) => Seating(t) \/ beats'[r][UserOf[s]] <= 0
      PROVE  \A x \in up', y \in Rooms : \A v \in InFlight(x)' : Seating(v) /\ v.room = y =>
                    \/ \E w \in InFlight(x) : Seating(w) /\ w.room = y
                    \/ beats'[y][UserOf[x]] <= 0
  <2> SUFFICES ASSUME NEW x \in up', NEW v \in InFlight(x)', Seating(v)
               PROVE  \/ v \in InFlight(x)
                      \/ v = u /\ x = s
    BY <1>0, <1>1
  <2> QED
    BY <1>0, <1>1 DEF Turns, Drops, Elsewhere
<1>2. CASE GoesOn(s, k)
  <2>1. PICK u \in Task :
              /\ SameBut(t, u) /\ Turns(s, k, u)
              /\ \/ JoinStart(s, k) /\ ~Seating(u)
                 \/ JoinLimited(s, k) /\ ~Seating(u)
                 \/ JoinSubscribe(s, k) /\ ~Seating(u)
                 \/ JoinDisplace(s, k) /\ Seating(t)
                 \/ JoinRegister(s, k) /\ Seating(t) /\ ~Seating(u)
                 \/ LeaveFree(s, k) /\ ~Seating(u)
                 \/ ScreenStart(s, k) /\ ~Seating(u)
    BY <1>2, GoingOn DEF Seating
  <2>2. UNCHANGED presenceVars
    BY <2>1 DEF JoinStart, JoinLimited, JoinSubscribe, JoinDisplace, JoinRegister, LeaveFree, ScreenStart,
                storeVars, presenceVars, Release
  <2>3. \A y \in Rooms, x \in Sockets : Seated(y, x)' =>
              \/ Seated(y, x) /\ beats'[y][UserOf[x]] <= beats[y][UserOf[x]]
              \/ beats'[y][UserOf[x]] <= 0
    BY <1>0, <2>2, AgesKept
  <2>4. u.room = r /\ (Seating(u) => Seating(t))
    BY <2>1 DEF SameBut, SameJob
  <2>5. \A x \in up', y \in Rooms : roomSlug'[x] = y => \/ roomSlug[x] = y
                                     \/ \E v \in InFlight(x) : Seating(v) /\ v.room = y
    <3>1. CASE JoinRegister(s, k) /\ Seating(t)
      <4>1. \A x \in Sockets : roomSlug'[x] = IF x = s THEN r ELSE roomSlug[x]
        BY <3>1 DEF JoinRegister, HandlersTypeOK
      <4> QED
        BY <1>0, <3>1, <4>1
    <3>2. CASE roomSlug' = roomSlug
      BY <3>2
    <3>3. roomSlug' = roomSlug \/ (JoinRegister(s, k) /\ Seating(t))
      BY <2>1 DEF JoinStart, JoinLimited, JoinSubscribe, JoinDisplace, LeaveFree, ScreenStart, serverVars
    <3> QED
      BY <3>1, <3>2, <3>3
  <2>6. \A x \in up', y \in Rooms : \A v \in InFlight(x)' : Seating(v) /\ v.room = y =>
                    \/ \E w \in InFlight(x) : Seating(w) /\ w.room = y
                    \/ beats'[y][UserOf[x]] <= 0
    BY <1>1, <2>1, <2>4
  <2> QED
    BY <1>0, <2>3, <2>5, <2>6, BeatsKept
<1>3. CASE ~GoesOn(s, k)
  <2>1. \A x \in up', y \in Rooms : roomSlug'[x] = y => roomSlug[x] = y
    BY <1>0, <1>3, TaskCases, NoRoomAssumption DEF Quits, JoinLimited, JoinRefused, JoinAdmitted, JoinSeat, JoinFreeDead,
       JoinTurnedAway, JoinFreePrevious, JoinAnswered, LeaveStart, LeaveUnseat, ScreenStart, ScreenClaim,
       ScreenRelease, serverVars, HandlersTypeOK
  <2>2. \A y \in Rooms, x \in Sockets : Seated(y, x)' =>
              \/ Seated(y, x) /\ beats'[y][UserOf[x]] <= beats[y][UserOf[x]]
              \/ beats'[y][UserOf[x]] <= 0
    <3>1. CASE JoinSeat(s, k)
      <4>1. JoinFull(r, s) \/ \E m \in Media : JoinOk(r, s, m)
        BY <3>1 DEF JoinSeat
      <4> QED
        BY <1>0, <4>1, AgesKept
    <3>2. CASE LeaveUnseat(s, k)
      <4>1. t.leaving \in Rooms
        BY <3>2, TurningUnseat
      <4>2. Leave(t.leaving, s) \/ UNCHANGED presenceVars
        BY <3>2 DEF LeaveUnseat
      <4> QED
        BY <4>1, <4>2, AgesKept
    <3>3. CASE UNCHANGED presenceVars
      BY <1>0, <3>3, AgesKept
    <3> QED
      BY <1>3, <3>1, <3>2, <3>3, TaskCases DEF Quits, JoinLimited, JoinRefused, JoinAdmitted, JoinFreeDead,
       JoinTurnedAway, JoinFreePrevious, JoinAnswered, LeaveStart, ScreenStart, ScreenClaim,
       ScreenRelease, ClaimOk, ClaimBusy, Release, storeVars, presenceVars
  <2>3. \E u \in Task : /\ Turns(s, k, u) \/ Drops(s, k)
                        /\ u.room = r
                        /\ Seating(u) => Seating(t) \/ beats'[r][UserOf[s]] <= 0
    <3>1. CASE Quits(s, k)
      <4>1. Drops(s, k)
        BY <3>1, Quitting
      <4> QED
        BY <1>0, <4>1
    <3>2. CASE JoinAdmitted(s, k)
      BY <3>2, TurningAdmitted DEF Seating, SameJob
    <3>3. CASE JoinSeat(s, k)
      <4>1. PICK u \in Task : /\ Turns(s, k, u) /\ SameJob(t, u)
                              /\ u.pc = "full" \/ \E m \in Media : JoinOk(r, s, m)
        BY <3>3, TurningSeat
      <4>2. ASSUME NEW m \in Media, JoinOk(r, s, m) PROVE beats'[r][UserOf[s]] <= 0
        BY <1>0, <4>2, UserOfAssumption DEF JoinOk, KeptBeats, StoreTypeOK, PresenceTypeOK
      <4> QED
        BY <4>1, <4>2 DEF SameJob, Seating
    <3>4. CASE JoinFreeDead(s, k)
      BY <3>4, TurningDead DEF Seating, SameJob
    <3>5. CASE JoinFreePrevious(s, k)
      BY <3>5, TurningPrevious DEF Seating, SameJob
    <3>6. CASE LeaveStart(s, k)
      BY <1>0, <3>6, TurningLeave DEF Seating, SameJob
    <3>7. CASE LeaveUnseat(s, k)
      BY <1>0, <3>7, TurningUnseat DEF Seating, SameJob
    <3> QED
      BY <1>3, <3>1, <3>2, <3>3, <3>4, <3>5, <3>6, <3>7, TaskCases
  <2>4. \A x \in up', y \in Rooms : \A v \in InFlight(x)' : Seating(v) /\ v.room = y =>
                    \/ \E w \in InFlight(x) : Seating(w) /\ w.room = y
                    \/ beats'[y][UserOf[x]] <= 0
    BY <1>1, <2>3
  <2> QED
    BY <1>0, <2>1, <2>2, <2>4, BeatsKept
<1> QED
  BY <1>2, <1>3

\* No heartbeat is lost where nothing is in flight to lose it.
LEMMA BeatsElse ==
    ASSUME StoreTypeOK, HandlersTypeOK, Beats, StoreTypeOK', up' \subseteq up, beaten' = beaten,
           \A x \in up' : /\ roomSlug'[x] = roomSlug[x]
                          /\ \A u \in InFlight(x)' : Seating(u) =>
                                \E t \in InFlight(x) : Seating(t) /\ t.room = u.room,
           \/ UNCHANGED presenceVars
           \/ \E r \in Rooms : Sweep(r) \/ ClearRoom(r)
    PROVE  Beats'
<1>1. ASSUME NEW x \in up', NEW y \in Rooms, Seated(y, x)'
      PROVE  \/ Seated(y, x) /\ beats'[y][UserOf[x]] <= beats[y][UserOf[x]]
             \/ beats'[y][UserOf[x]] <= 0
  <2>1. x \in Sockets
    BY <1>1 DEF HandlersTypeOK
  <2>2. PICK r \in Rooms : Sweep(r) \/ ClearRoom(r) \/ UNCHANGED presenceVars
    BY <1>1
  <2> QED
    BY <1>1, <2>1, <2>2, AgesKept
<1> QED
  BY <1>1, BeatsKept

\* Every step keeps it, when no join stalls.
LEMMA BeatsStep ==
    ASSUME "stall" \notin Faults, TypeOK, TypeOK', MoveInv, Beats, [Next]_gatewayVars
    PROVE  Beats'
<1>0. StoreTypeOK /\ HandlersTypeOK /\ StoreTypeOK' /\ up \subseteq Sockets
  BY DEF TypeOK, HandlersTypeOK
<1>1. CASE UNCHANGED gatewayVars
  BY <1>1 DEF gatewayVars, Beats, InFlight, Seated
<1>2. ASSUME NEW s \in Sockets, TabStep(s) PROVE Beats'
  <2>1. up' = up /\ roomSlug' = roomSlug /\ beaten' = beaten /\ UNCHANGED presenceVars
    BY <1>2 DEF TabStep, OpenRoom, Rejoin, CloseRoom, AckTimeout, StartShare, StopShare, serverVars,
                storeVars, presenceVars
  <2>2. \A kind \in {"join", "leave", "claim", "release"}, r \in Rooms : ~Seating(NewTask(kind, r))
    BY NewTaskIs
  <2>3. /\ Elsewhere(s)
        /\ \A u \in InFlight(s)' : Seating(u) => \E w \in InFlight(s) : Seating(w) /\ w.room = u.room
    BY <1>0, <1>2, <2>2, TabAdds DEF Alike, Seating
  <2>4. \A x \in up' : \A u \in InFlight(x)' : Seating(u) => \E w \in InFlight(x) : Seating(w) /\ w.room = u.room
    BY <1>0, <2>1, <2>3 DEF Elsewhere
  <2> QED
    BY <1>0, <2>1, <2>4, BeatsElse
<1>3. ASSUME NEW s \in Sockets, Disconnect(s) PROVE Beats'
  <2>1. PICK v : Forgetful(s, v, roomSlug[s] # NoRoom)
    BY <1>0, <1>3, DisconnectTurns
  <2>2. /\ up' = up \ {s}
        /\ \A x \in Sockets \ {s} : roomSlug'[x] = roomSlug[x]
    BY <1>0, <1>3, DisconnectTurns
  <2>3. \A x \in up' : InFlight(x)' = InFlight(x) /\ roomSlug'[x] = roomSlug[x]
    BY <1>0, <2>1, <2>2 DEF Forgetful, Elsewhere
  <2>4. beaten' = beaten /\ UNCHANGED presenceVars
    BY <1>3 DEF Disconnect, storeVars, presenceVars
  <2> QED
    BY <1>0, <2>2, <2>3, <2>4, BeatsElse
<1>4. ASSUME NEW s \in Sockets, NEW k \in DOMAIN tasks[s], TaskStep(s, k) PROVE Beats'
  BY <1>0, <1>4, BeatsTasks
<1>5. ASSUME NEW i \in Instances, Crash(i) PROVE Beats'
  <2>1. /\ up' \subseteq up /\ up' \subseteq Sockets
        /\ \A s \in up' : InFlight(s)' = InFlight(s) /\ roomSlug'[s] = roomSlug[s]
    BY <1>0, <1>5, CrashTurns
  <2>2. beaten' = beaten /\ UNCHANGED presenceVars
    BY <1>5 DEF Crash, storeVars, presenceVars
  <2> QED
    BY <1>0, <2>1, <2>2, BeatsElse
<1>6. CASE \/ \E i \in Instances, r \in Rooms : SweepRoom(i, r) \/ \E s \in Sockets : SweepFree(i, r, s)
           \/ \E r \in Rooms : EndRoom(r) \/ EndStep(r)
  <2>1. UNCHANGED <<tasks, roomSlug, up, beaten>>
    BY <1>6 DEF SweepRoom, SweepFree, EndRoom, EndStep, AnnounceEnded,
         EndedClearScreen, EndedClearRoom, tabVars
  <2>2. UNCHANGED presenceVars \/ \E r \in Rooms : Sweep(r) \/ ClearRoom(r)
    BY <1>6 DEF SweepRoom, SweepFree, Release, EndRoom, EndStep, AnnounceEnded,
         EndedClearScreen, ClearScreen, EndedClearRoom, storeVars, presenceVars
  <2>3. \A x \in up' : InFlight(x)' = InFlight(x) /\ roomSlug'[x] = roomSlug[x]
    BY <2>1 DEF InFlight
  <2> QED
    BY <1>0, <2>1, <2>2, <2>3, BeatsElse
<1>7. ASSUME NEW i \in Instances, Beat(i) PROVE Beats'
  <2> DEFINE e == {<<roomSlug[s], s>> : s \in {x \in up : InstanceOf[x] = i /\ roomSlug[x] # NoRoom}}
  <2>1. /\ Heartbeat(e) /\ beaten' = beaten \cup {i} /\ UNCHANGED <<tasks, roomSlug, up>>
    BY <1>7 DEF Beat
  <2>2. e \in SUBSET (Rooms \X Sockets)
    BY <1>0 DEF HandlersTypeOK
  <2> SUFFICES ASSUME NEW x \in up', NEW y \in Rooms, Seated(y, x)'
               PROVE  /\ roomSlug'[x] = y => beats'[y][UserOf[x]] <= (IF InstanceOf[x] \in beaten' THEN 0 ELSE 1)
                      /\ \A t \in InFlight(x)' : Seating(t) /\ t.room = y => beats'[y][UserOf[x]] <= 0
    BY DEF Beats, Seating
  <2>3. /\ x \in up /\ x \in Sockets /\ InFlight(x)' = InFlight(x) /\ roomSlug'[x] = roomSlug[x]
        /\ beats[y][UserOf[x]] \in Int /\ beats[y][UserOf[x]] >= NoBeat /\ beats'[y][UserOf[x]] \in Int
        /\ UserOf[x] \in Users
    BY <1>0, <2>1, UserOfAssumption, TimingAssumption DEF StoreTypeOK, PresenceTypeOK, NoBeat, InFlight
  <2>4. Seated(y, x)
    BY <2>1 DEF Heartbeat, Seated
  <2>5. \/ Seated(y, x) /\ beats'[y][UserOf[x]] <= beats[y][UserOf[x]]
        \/ beats'[y][UserOf[x]] <= 0
    BY <1>0, <2>1, <2>2, <2>3, AgesKept
  <2>6. CASE roomSlug[x] = y /\ InstanceOf[x] = i
    <3>1. <<y, x>> \in e
      BY <2>3, <2>6, NoRoomAssumption
    <3> HIDE DEF e
    <3> DEFINE own == {p[2] : p \in {q \in e : q[1] = y /\ Seated(y, q[2])}}
    <3>2. x \in own
      BY <2>4, <3>1
    <3>3. beats'[y][UserOf[x]] = IF beats[y][UserOf[x]] # NoBeat /\ \E z \in own : UserOf[z] = UserOf[x]
                                 THEN 0 ELSE beats[y][UserOf[x]]
      BY <2>1, <2>3 DEF Heartbeat
    <3> HIDE DEF own
    <3>4. beats'[y][UserOf[x]] <= 0
      BY <2>3, <3>2, <3>3 DEF NoBeat
    <3> QED
      BY <2>3, <3>4
  <2>7. CASE ~(roomSlug[x] = y /\ InstanceOf[x] = i)
    <3>1. /\ roomSlug[x] = y => beats[y][UserOf[x]] <= (IF InstanceOf[x] \in beaten THEN 0 ELSE 1)
          /\ \A t \in InFlight(x) : Seating(t) /\ t.room = y => beats[y][UserOf[x]] <= 0
      BY <2>3, <2>4 DEF Beats
    <3>2. roomSlug[x] = y => (InstanceOf[x] \in beaten' <=> InstanceOf[x] \in beaten)
      BY <2>1, <2>7
    <3> QED
      BY <2>3, <2>5, <3>1, <3>2
  <2> QED
    BY <2>6, <2>7
<1>8. CASE TimePasses
  <2> SUFFICES ASSUME NEW x \in up', NEW y \in Rooms, Seated(y, x)'
               PROVE  /\ roomSlug'[x] = y => beats'[y][UserOf[x]] <= (IF InstanceOf[x] \in beaten' THEN 0 ELSE 1)
                      /\ \A t \in InFlight(x)' : Seating(t) /\ t.room = y => beats'[y][UserOf[x]] <= 0
    BY DEF Beats, Seating
  <2>1. /\ UNCHANGED <<tasks, roomSlug, up>> /\ beaten' = {} /\ alive \subseteq beaten
        /\ ~Unregistered(x) /\ Tick
    BY <1>0, <1>8 DEF TimePasses, tabVars
  <2>2. /\ x \in up /\ x \in Sockets /\ UserOf[x] \in Users
        /\ beats[y][UserOf[x]] \in Int /\ beats[y][UserOf[x]] >= NoBeat
    BY <1>0, <2>1, UserOfAssumption, TimingAssumption DEF StoreTypeOK, PresenceTypeOK, NoBeat
  <2>3. \A t \in InFlight(x)' : ~Seating(t)
    BY <2>1 DEF Unregistered, InFlight, Seating
  <2>4. ASSUME roomSlug'[x] = y
        PROVE  beats'[y][UserOf[x]] <= 1
    <3>1. Seated(y, x) /\ beats'[y][UserOf[x]] = Older(beats[y][UserOf[x]])
      BY <2>1, <2>2, UserOfAssumption DEF Tick, Seated
    <3>2. InstanceOf[x] \in beaten
      BY <2>1, <2>2 DEF MoveInv, Gone
    <3>3. beats[y][UserOf[x]] <= 0
      BY <2>1, <2>2, <2>4, <3>1, <3>2 DEF Beats
    <3> QED
      BY <2>2, <3>1, <3>3, TimingAssumption DEF Older, NoBeat
  <2> QED
    BY <2>1, <2>3, <2>4
<1> QED
  BY <1>1, <1>2, <1>3, <1>4, <1>5, <1>6, <1>7, <1>8 DEF Next, TimerStep

\* Among the steps of a handler, the presence scripts are run by the join's and
\* the leave's alone.
LEMMA TaskPresence ==
    ASSUME NEW x \in Sockets, NEW k \in DOMAIN tasks[x], TaskStep(x, k)
    PROVE  UNCHANGED presenceVars \/ JoinSeat(x, k) \/ LeaveUnseat(x, k)
<1>1. CASE \/ JoinStart(x, k) \/ JoinLimited(x, k) \/ JoinRefused(x, k) \/ JoinAdmitted(x, k)
           \/ JoinSubscribe(x, k) \/ JoinTurnedAway(x, k) \/ JoinDisplace(x, k)
           \/ JoinRegister(x, k) \/ JoinAnswered(x, k) \/ LeaveStart(x, k) \/ ScreenStart(x, k)
  <2>1. UNCHANGED storeVars
    BY <1>1 DEF JoinStart, JoinLimited, JoinRefused, JoinAdmitted, JoinSubscribe, JoinTurnedAway,
                JoinDisplace, JoinRegister, JoinAnswered, LeaveStart, ScreenStart
  <2> QED
    BY <2>1 DEF storeVars, presenceVars
<1>2. CASE \/ JoinFreeDead(x, k) \/ JoinFreePrevious(x, k) \/ LeaveFree(x, k)
           \/ ScreenClaim(x, k) \/ ScreenRelease(x, k)
  BY <1>2 DEF JoinFreeDead, JoinFreePrevious, LeaveFree, ScreenClaim, ScreenRelease,
              Release, ClaimOk, ClaimBusy, storeVars, presenceVars
<1> QED
  BY <1>1, <1>2 DEF TaskStep

-----------------------------------------------------------------------------
\* The steps that run a presence script.
LEMMA PresenceSteps ==
    ASSUME HandlersTypeOK, [Next]_gatewayVars
    PROVE  \/ UNCHANGED presenceVars \/ Tick
           \/ \E e \in SUBSET (Rooms \X Sockets) : Heartbeat(e)
           \/ \E y \in Rooms : Sweep(y) \/ EndedClearRoom(y)
           \/ \E x \in Sockets : \E k \in DOMAIN tasks[x] : JoinSeat(x, k) \/ LeaveUnseat(x, k)
<1>1. ASSUME NEW x \in Sockets, TabStep(x) \/ Disconnect(x) PROVE UNCHANGED presenceVars
  BY <1>1 DEF TabStep, OpenRoom, Rejoin, CloseRoom, AckTimeout, StartShare, StopShare, Disconnect,
              storeVars, presenceVars
<1>2. ASSUME NEW i \in Instances, Beat(i) PROVE \E e \in SUBSET (Rooms \X Sockets) : Heartbeat(e)
  <2>1. {<<roomSlug[x], x>> : x \in {z \in up : InstanceOf[z] = i /\ roomSlug[z] # NoRoom}}
           \in SUBSET (Rooms \X Sockets)
    BY DEF HandlersTypeOK
  <2> QED
    BY <1>2, <2>1 DEF Beat
<1>3. ASSUME NEW i \in Instances, Crash(i) PROVE UNCHANGED presenceVars
  BY <1>3 DEF Crash, storeVars, presenceVars
<1>4. ASSUME NEW i \in Instances, NEW y \in Rooms, SweepRoom(i, y) \/ \E x \in Sockets : SweepFree(i, y, x)
      PROVE  UNCHANGED presenceVars \/ Sweep(y)
  BY <1>4 DEF SweepRoom, SweepFree, Release
<1>5. ASSUME NEW y \in Rooms, EndRoom(y) \/ AnnounceEnded(y) \/ EndedClearScreen(y)
      PROVE  UNCHANGED presenceVars
  BY <1>5 DEF EndRoom, AnnounceEnded, EndedClearScreen, ClearScreen, storeVars, presenceVars
<1>6. UNCHANGED gatewayVars => UNCHANGED presenceVars
  BY DEF gatewayVars, presenceVars
<1>7. TimePasses => Tick
  BY DEF TimePasses
<1>8. CASE \E x \in Sockets : TabStep(x) \/ Disconnect(x) \/ \E k \in DOMAIN tasks[x] : TaskStep(x, k)
  BY <1>1, <1>8, TaskPresence
<1>9. CASE \E i \in Instances : TimerStep(i) \/ Crash(i)
  BY <1>2, <1>3, <1>4, <1>9 DEF TimerStep
<1>10. CASE \E y \in Rooms : EndRoom(y) \/ EndStep(y)
  BY <1>5, <1>10 DEF EndStep
<1> QED
  BY <1>6, <1>7, <1>8, <1>9, <1>10 DEF Next

\* The seat of a socket that is in the room, or hears it, is fresh, and the
\* socket is not about to give it up.
LEMMA FreshSeat ==
    ASSUME StoreTypeOK, HandlersTypeOK, MoveInv, Away, Beats, NEW r \in Rooms, NEW s \in up, Seated(r, s),
           roomSlug[s] = r \/ s \in channel[r]
    PROVE  beats[r][UserOf[s]] <= 1 /\ \A t \in InFlight(s) : t.leaving # r
<1>0. s \in Sockets /\ InstanceOf[s] \in alive /\ beats[r][UserOf[s]] \in Int
  BY UserOfAssumption, TimingAssumption DEF HandlersTypeOK, MoveInv, Gone, StoreTypeOK, PresenceTypeOK, NoBeat
<1>1. \A t \in InFlight(s) : t.leaving # r
  BY DEF Away
<1>2. \/ roomSlug[s] = r
      \/ \E t \in InFlight(s) : Seating(t) /\ t.room = r
  BY <1>0, <1>1 DEF MoveInv, Accounted, InFlight
<1>3. beats[r][UserOf[s]] <= 1
  BY <1>0, <1>2 DEF Beats
<1> QED
  BY <1>1, <1>3

\* Such a seat is lost, while the meeting goes on, only to another of the
\* person's tabs.
LEMMA SeatHeld ==
    ASSUME StaleAge > 1, PresenceInv, StoreTypeOK, HandlersTypeOK, MoveInv, [Next]_gatewayVars,
           NEW r \in Rooms, NEW s \in up, Seated(r, s), ending[r] = "open",
           beats[r][UserOf[s]] <= 1, \A t \in InFlight(s) : t.leaving # r
    PROVE  /\ peers'[r][UserOf[s]] # NoEntry
           /\ \/ Seated(r, s)'
              \/ \E x \in Sockets \ {s} : \E k \in DOMAIN tasks[x] :
                    /\ JoinSeat(x, k) /\ tasks[x][k].room = r /\ UserOf[x] = UserOf[s]
                    /\ \E m \in Media : JoinOk(r, x, m)
                    /\ KeptPeers(r)[UserOf[x]] = peers[r][UserOf[x]]
<1> DEFINE me == UserOf[s]
<1>0. /\ s \in Sockets /\ me \in Users
      /\ beats[r][me] \in Int /\ beats[r][me] >= NoBeat
      /\ peers \in [Rooms -> [Users -> Participant \cup {NoEntry}]]
  BY UserOfAssumption, TimingAssumption DEF HandlersTypeOK, StoreTypeOK, PresenceTypeOK, NoBeat
<1>1. me \notin Expired(r) /\ KeptPeers(r)[me] = peers[r][me]
  BY <1>0, TimingAssumption DEF Expired, KeptPeers
<1>2. peers[r][me] # NoEntry /\ peers[r][me].peer = s
  BY DEF Seated
<1>3. me \in Beating(r) /\ ttl[r] > 1
  <2>1. me \in Beating(r)
    BY <1>0, <1>2 DEF PresenceInv, RoomOK, Listed
  <2>2. ttl[r] > StaleAge - beats[r][me] /\ ttl[r] \in Int
    BY <2>1 DEF PresenceInv, RoomOK, PresenceTypeOK
  <2> QED
    BY <1>0, <2>1, <2>2, TimingAssumption
<1>4. SUFFICES \/ peers'[r][me] = peers[r][me]
               \/ \E m \in Media : peers'[r][me] = [peer |-> s, media |-> m]
               \/ \E x \in Sockets \ {s} : \E k \in DOMAIN tasks[x] :
                    /\ JoinSeat(x, k) /\ tasks[x][k].room = r /\ UserOf[x] = me
                    /\ \E m \in Media : JoinOk(r, x, m)
  <2>1. CASE peers'[r][me] = peers[r][me]
    BY <1>2, <2>1 DEF Seated
  <2>2. ASSUME NEW x \in Sockets \ {s}, NEW k \in DOMAIN tasks[x], NEW m \in Media,
               JoinSeat(x, k), tasks[x][k].room = r, UserOf[x] = me, JoinOk(r, x, m)
        PROVE  peers'[r][me] # NoEntry
    <3>1. peers'[r][me] = [peer |-> x, media |-> m]
      BY <1>0, <2>2 DEF JoinOk, KeptPeers
    <3> QED
      BY <2>2, <3>1, NoEntryAssumption
  <2>3. ASSUME NEW m \in Media, peers'[r][me] = [peer |-> s, media |-> m]
        PROVE  peers'[r][me] # NoEntry /\ Seated(r, s)'
    BY <1>0, <2>3, NoEntryAssumption DEF Seated
  <2> QED
    BY <1>1, <2>1, <2>2, <2>3
<1>5. CASE UNCHANGED presenceVars
  BY <1>5 DEF presenceVars
<1>6. ASSUME NEW x \in Sockets, NEW k \in DOMAIN tasks[x], JoinSeat(x, k)
      PROVE  \/ peers'[r][me] = peers[r][me]
             \/ \E m \in Media : peers'[r][me] = [peer |-> s, media |-> m]
             \/ x # s /\ JoinSeat(x, k) /\ tasks[x][k].room = r /\ UserOf[x] = me /\ \E m \in Media : JoinOk(r, x, m)
  <2>0. tasks[x][k].room \in Rooms
    BY <1>6, TurningSeat
  <2>1. CASE JoinFull(tasks[x][k].room, x)
    BY <1>0, <1>1, <2>0, <2>1 DEF JoinFull
  <2>2. ASSUME NEW m \in Media, JoinOk(tasks[x][k].room, x, m),
               ~(tasks[x][k].room = r /\ UserOf[x] = me)
        PROVE  peers'[r][me] = peers[r][me]
    <3>1. KeptPeers(r) \in [Users -> Participant \cup {NoEntry}] /\ UserOf[x] \in Users
      BY KeptTypes, UserOfAssumption DEF StoreTypeOK
    <3> QED
      BY <1>0, <1>1, <2>0, <2>2, <3>1 DEF JoinOk
  <2>3. ASSUME NEW m \in Media, JoinOk(r, x, m), tasks[x][k].room = r, UserOf[x] = me, x = s
        PROVE  peers'[r][me] = [peer |-> s, media |-> m]
    BY <1>0, <2>3 DEF JoinOk, KeptPeers
  <2> QED
    BY <1>6, <2>1, <2>2, <2>3 DEF JoinSeat
<1>7. ASSUME NEW x \in Sockets, NEW k \in DOMAIN tasks[x], LeaveUnseat(x, k)
      PROVE  peers'[r][me] = peers[r][me]
  <2>1. tasks[x][k].leaving \in Rooms /\ tasks[x][k] \in InFlight(x)
    BY <1>7, TurningUnseat DEF InFlight
  <2>2. CASE UNCHANGED presenceVars
    BY <2>2 DEF presenceVars
  <2>3. CASE Leave(tasks[x][k].leaving, x) /\ (tasks[x][k].leaving # r \/ UserOf[x] # me)
    BY <1>0, <2>1, <2>3, UserOfAssumption DEF Leave
  <2>4. CASE Leave(tasks[x][k].leaving, x) /\ tasks[x][k].leaving = r /\ UserOf[x] = me
    <3>1. x = s
      BY <1>2, <2>4 DEF Leave, Seated
    <3> QED
      BY <2>1, <2>4, <3>1
  <2> QED
    BY <1>7, <2>2, <2>3, <2>4 DEF LeaveUnseat
<1>8. ASSUME NEW y \in Rooms, Sweep(y)
      PROVE  peers'[r][me] = peers[r][me]
  <2>1. CASE y # r
    BY <1>8, <2>1, <1>0 DEF Sweep
  <2>2. CASE y = r
    <3>1. ~(Beating(r) \subseteq Expired(r))
      BY <1>1, <1>3
    <3> QED
      BY <1>0, <1>1, <1>8, <2>2, <3>1 DEF Sweep
  <2> QED
    BY <2>1, <2>2
<1>9. ASSUME NEW y \in Rooms, EndedClearRoom(y)
      PROVE  peers'[r][me] = peers[r][me]
  <2>1. y # r
    BY <1>9 DEF EndedClearRoom
  <2> QED
    BY <1>0, <1>9, <2>1 DEF EndedClearRoom, ClearRoom
<1>10. CASE Tick
  <2>1. ~(ttl[r] <= 1)
    BY <1>3 DEF StoreTypeOK, PresenceTypeOK
  <2> QED
    BY <1>10, <2>1 DEF Tick
<1>11. CASE \E e \in SUBSET (Rooms \X Sockets) : Heartbeat(e)
  BY <1>11 DEF Heartbeat
<1> QED
  BY <1>5, <1>6, <1>7, <1>8, <1>9, <1>10, <1>11, PresenceSteps

\* Both hold at first.
LEMMA FreshStarts == Init => Away /\ Beats
<1> SUFFICES ASSUME Init PROVE Away /\ Beats
  OBVIOUS
<1>1. \A s \in Sockets : InFlight(s) = {}
  BY DEF Init, InFlight
<1>2. \A r \in Rooms, s \in Sockets : ~Seated(r, s)
  BY UserOfAssumption DEF Init, StoreInit, PresenceInit, Seated
<1>3. up = Sockets
  BY DEF Init
<1> QED
  BY <1>1, <1>2, <1>3 DEF Away, Beats

\* What a connected socket is leaving it is out of, always.
LEMMA AwayAlways ==
    ASSUME "overtake" \notin Faults
    PROVE  Spec => []Away
<1>1. TypeOK /\ MoveInv /\ Away /\ [Next]_gatewayVars => Away'
  BY AwayStep
<1>2. Init => Away
  BY FreshStarts
<1> QED
  BY <1>1, <1>2, GatewayTypes, MoveAlways, PTL DEF Spec

\* A registered seat is always young enough.
LEMMA BeatsAlways ==
    ASSUME "overtake" \notin Faults, "stall" \notin Faults
    PROVE  Spec => []Beats
<1>1. TypeOK /\ TypeOK' /\ MoveInv /\ Beats /\ [Next]_gatewayVars => Beats'
  BY BeatsStep
<1>2. Init => Beats
  BY FreshStarts
<1> QED
  BY <1>1, <1>2, GatewayTypes, MoveAlways, PTL DEF Spec

\* The store's own invariant, which the gateway inherits.
LEMMA PresenceAlways == Spec => []PresenceInv
BY GatewayImplementsStore, StoreKeepsPresence, Invariance, PTL

\* No step costs a connected, registered tab its person's seat while the meeting
\* goes on: handlers, sweepers and late cleanups of others may at most hand it on,
\* if joins do not stall and a seat outlives a missed heartbeat.
THEOREM SeatsKept ==
    ASSUME "overtake" \notin Faults, "stall" \notin Faults, StaleAge > 1
    PROVE  Spec => SeatKept
<1> DEFINE Hold == \A r \in Rooms, s \in up :
                      Seated(r, s) /\ roomSlug[s] = r /\ ending[r] = "open" /\ s \in up' =>
                          peers'[r][UserOf[s]] # NoEntry
<1>1. TypeOK /\ PresenceInv /\ MoveInv /\ Away /\ Beats /\ [Next]_gatewayVars => [Hold]_gatewayVars
  <2> SUFFICES ASSUME TypeOK, PresenceInv, MoveInv, Away, Beats, [Next]_gatewayVars,
                      NEW r \in Rooms, NEW s \in up, Seated(r, s), roomSlug[s] = r, ending[r] = "open"
               PROVE  peers'[r][UserOf[s]] # NoEntry
    OBVIOUS
  <2>1. StoreTypeOK /\ HandlersTypeOK
    BY DEF TypeOK, HandlersTypeOK
  <2>2. beats[r][UserOf[s]] <= 1 /\ \A t \in InFlight(s) : t.leaving # r
    BY <2>1, FreshSeat
  <2> QED
    BY <2>1, <2>2, SeatHeld
<1>2. Spec => [][Hold]_gatewayVars
  BY <1>1, GatewayTypes, PresenceAlways, MoveAlways, AwayAlways, BeatsAlways, PTL DEF Spec
<1> QED
  BY <1>2 DEF SeatKept

\* What a step of a handler makes of its socket's handlers.
LEMMA TaskTurns ==
    ASSUME StoreTypeOK, HandlersTypeOK, MoveInv, NEW s \in Sockets, NEW k \in DOMAIN tasks[s],
           TaskStep(s, k)
    PROVE  Drops(s, k) \/ \E u \in Task : Turns(s, k, u) /\ SameJob(tasks[s][k], u)
<1>1. CASE GoesOn(s, k)
  BY <1>1, GoingOn DEF SameBut
<1>2. CASE Quits(s, k)
  BY <1>2, Quitting
<1>3. CASE JoinAdmitted(s, k)
  BY <1>3, TurningAdmitted
<1>4. CASE JoinSeat(s, k)
  BY <1>4, TurningSeat
<1>5. CASE JoinFreeDead(s, k)
  BY <1>5, TurningDead
<1>6. CASE JoinFreePrevious(s, k)
  BY <1>6, TurningPrevious
<1>7. CASE LeaveStart(s, k)
  BY <1>7, TurningLeave
<1>8. CASE LeaveUnseat(s, k)
  BY <1>8, TurningUnseat
<1> QED
  BY <1>1, <1>2, <1>3, <1>4, <1>5, <1>6, <1>7, <1>8, TaskCases

\* A handler goes on, or it is the one that takes the step, or its process dies.
LEMMA TaskStays ==
    ASSUME TypeOK, MoveInv, [Next]_gatewayVars, NEW x \in Sockets, NEW t \in InFlight(x)
    PROVE  \/ \E u \in InFlight(x)' : Alike(t, u)
           \/ \E k \in DOMAIN tasks[x] : TaskStep(x, k) /\ t = tasks[x][k]
           \/ Crash(InstanceOf[x])
<1>0. StoreTypeOK /\ HandlersTypeOK /\ \A v : Alike(v, v)
  BY DEF TypeOK, HandlersTypeOK, Alike
<1>1. ASSUME NEW s \in Sockets, TabStep(s) PROVE \E u \in InFlight(x)' : Alike(t, u)
  BY <1>0, <1>1, TabAdds DEF Elsewhere
<1>2. ASSUME NEW s \in Sockets, Disconnect(s) PROVE \E u \in InFlight(x)' : Alike(t, u)
  <2>1. PICK v : Forgetful(s, v, roomSlug[s] # NoRoom)
    BY <1>0, <1>2, DisconnectTurns
  <2>2. \A v1, v2 : Forgotten(v1, v2) => Alike(v1, v2)
    BY DEF Forgotten, Alike
  <2> QED
    BY <1>0, <2>1, <2>2 DEF Forgetful, Elsewhere
<1>3. ASSUME NEW s \in Sockets, NEW k \in DOMAIN tasks[s], TaskStep(s, k), ~(s = x /\ t = tasks[x][k])
      PROVE  \E u \in InFlight(x)' : Alike(t, u)
  <2>1. t \in InFlight(x)'
    BY <1>0, <1>3, TaskTurns, InFlightIs DEF Turns, Drops, Elsewhere
  <2> QED
    BY <1>0, <2>1
<1>4. ASSUME NEW i \in Instances, Crash(i), InstanceOf[x] # i
      PROVE  \E u \in InFlight(x)' : Alike(t, u)
  BY <1>0, <1>4, CrashTurns
<1>5. CASE \/ UNCHANGED gatewayVars \/ \E i \in Instances : TimerStep(i)
           \/ \E r \in Rooms : EndRoom(r) \/ EndStep(r)
           \/ TimePasses
  <2>1. tasks' = tasks
    BY <1>5 DEF TimerStep, Beat, SweepRoom, SweepFree, EndRoom, EndStep, AnnounceEnded,
         EndedClearScreen, EndedClearRoom, TimePasses, gatewayVars
  <2> QED
    BY <1>0, <2>1 DEF InFlight
<1> QED
  BY <1>1, <1>2, <1>3, <1>4, <1>5 DEF Next

\* Nobody subscribes but a join, and nobody connects; a meeting that has ended
\* stays so.
LEMMA Subscribers ==
    ASSUME TypeOK, MoveInv, [Next]_gatewayVars
    PROVE  /\ up' \subseteq up
           /\ \A r \in Rooms : ending'[r] = "open" => ending[r] = "open"
           /\ \A r \in Rooms : \A s \in channel'[r] \ channel[r] :
                 /\ s \in Sockets
                 /\ \E k \in DOMAIN tasks[s] : JoinSubscribe(s, k) /\ tasks[s][k].room = r
<1>0. StoreTypeOK /\ HandlersTypeOK
  BY DEF TypeOK, HandlersTypeOK
<1>1. ASSUME NEW x \in Sockets, TabStep(x) PROVE up' = up /\ channel' = channel /\ ending' = ending
  BY <1>1 DEF TabStep, OpenRoom, Rejoin, CloseRoom, AckTimeout, StartShare, StopShare, serverVars
<1>2. ASSUME NEW x \in Sockets, Disconnect(x)
      PROVE  up' \subseteq up /\ ending' = ending /\ \A r \in Rooms : channel'[r] \subseteq channel[r]
  BY <1>2 DEF Disconnect
<1>3. ASSUME NEW x \in Sockets, NEW k \in DOMAIN tasks[x], TaskStep(x, k)
      PROVE  /\ up' = up /\ ending' = ending
             /\ \A r \in Rooms : \A s \in channel'[r] \ channel[r] :
                   s = x /\ JoinSubscribe(x, k) /\ tasks[x][k].room = r
  <2>1. CASE JoinSubscribe(x, k)
    BY <1>0, <2>1 DEF JoinSubscribe, HandlersTypeOK
  <2>2. CASE JoinTurnedAway(x, k) \/ JoinDisplace(x, k) \/ JoinAdmitted(x, k) \/ LeaveStart(x, k)
    <3>1. up' = up /\ ending' = ending
      BY <2>2 DEF JoinTurnedAway, JoinDisplace, JoinAdmitted, LeaveStart
    <3>2. \A r \in Rooms : channel'[r] \subseteq channel[r]
      <4>1. \/ channel' = channel
            \/ \E y, z : channel' = [channel EXCEPT ![y] = @ \ {z}]
        BY <2>2 DEF JoinTurnedAway, JoinDisplace, JoinAdmitted, LeaveStart
      <4> QED
        BY <1>0, <4>1 DEF HandlersTypeOK
    <3> QED
      BY <3>1, <3>2
  <2>3. CASE \/ JoinStart(x, k) \/ JoinLimited(x, k) \/ JoinRefused(x, k) \/ JoinSeat(x, k)
             \/ JoinFreeDead(x, k) \/ JoinFreePrevious(x, k) \/ JoinRegister(x, k) \/ JoinAnswered(x, k)
             \/ LeaveFree(x, k) \/ LeaveUnseat(x, k)
             \/ ScreenStart(x, k) \/ ScreenClaim(x, k) \/ ScreenRelease(x, k)
    <3>1. up' = up /\ ending' = ending /\ channel' = channel
      BY <2>3 DEF JoinStart, JoinLimited, JoinRefused, JoinSeat, JoinFreeDead, JoinFreePrevious,
                  JoinRegister, JoinAnswered, LeaveFree, LeaveUnseat, ScreenStart, ScreenClaim,
                  ScreenRelease, serverVars
    <3> QED
      BY <3>1
  <2> QED
    BY <1>3, <2>1, <2>2, <2>3 DEF TaskStep
<1>4. ASSUME NEW i \in Instances, Crash(i)
      PROVE  up' \subseteq up /\ ending' = ending /\ \A r \in Rooms : channel'[r] \subseteq channel[r]
  BY <1>4 DEF Crash
<1>5. ASSUME UNCHANGED gatewayVars \/ TimePasses \/ \E i \in Instances : TimerStep(i)
      PROVE  up' = up /\ channel' = channel /\ ending' = ending
  BY <1>5 DEF TimerStep, Beat, SweepRoom, SweepFree, TimePasses, gatewayVars
<1>6. ASSUME NEW y \in Rooms, EndRoom(y) \/ EndStep(y)
      PROVE  /\ up' = up /\ \A r \in Rooms : channel'[r] \subseteq channel[r]
             /\ \A r \in Rooms : ending'[r] = "open" => ending[r] = "open"
  BY <1>0, <1>6 DEF EndRoom, EndStep, AnnounceEnded, EndedClearScreen, EndedClearRoom, HandlersTypeOK
<1>7. \/ /\ up' \subseteq up /\ \A r \in Rooms : channel'[r] \subseteq channel[r]
         /\ \A r \in Rooms : ending'[r] = "open" => ending[r] = "open"
      \/ \E x \in Sockets : \E k \in DOMAIN tasks[x] : TaskStep(x, k)
  BY <1>1, <1>2, <1>4, <1>5, <1>6 DEF Next
<1>8. CASE \E x \in Sockets : \E k \in DOMAIN tasks[x] : TaskStep(x, k)
  <2>0. PICK x \in Sockets : \E k \in DOMAIN tasks[x] : TaskStep(x, k)
    BY <1>8
  <2>1. PICK k \in DOMAIN tasks[x] : TaskStep(x, k)
    BY <2>0
  <2>2. /\ up' = up /\ ending' = ending
        /\ \A r \in Rooms : \A s \in channel'[r] \ channel[r] :
              s = x /\ JoinSubscribe(x, k) /\ tasks[x][k].room = r
    BY <1>3, <2>1
  <2> QED
    BY <2>2
<1> QED
  BY <1>7, <1>8

-----------------------------------------------------------------------------
(* Who hears a room.                                                       *)

\* Of a connected socket that hears an open room: it holds its seat, or is
\* about to take it or to be turned away, or another join took the seat over and
\* is about to say so.
Heard(r, s) ==
    \/ Seated(r, s)
    \/ \E t \in InFlight(s) : t.room = r /\ t.pc \in {"seat", "full"}
    \/ \E x \in Sockets : \E t \in InFlight(x) : t.room = r /\ t.prev = s /\ t.pc = "settle"

Hears == \A r \in Rooms : ending[r] = "open" => \A s \in channel[r] \cap up : Heard(r, s)

\* The seat of one that hears the room is lost only to a join that will say so.
LEMMA HeardSeated ==
    ASSUME StaleAge > 1, TypeOK, PresenceInv, MoveInv, Away, Beats, [Next]_gatewayVars,
           NEW r \in Rooms, NEW s \in up, Seated(r, s), ending[r] = "open", s \in channel[r]
    PROVE  Heard(r, s)'
<1>0. StoreTypeOK /\ HandlersTypeOK /\ s \in Sockets /\ UserOf[s] \in Users
  BY UserOfAssumption DEF TypeOK, HandlersTypeOK
<1>1. beats[r][UserOf[s]] <= 1 /\ \A t \in InFlight(s) : t.leaving # r
  BY <1>0, FreshSeat
<1>2. \/ Seated(r, s)'
      \/ \E x \in Sockets \ {s} : \E k \in DOMAIN tasks[x] :
            /\ JoinSeat(x, k) /\ tasks[x][k].room = r /\ UserOf[x] = UserOf[s]
            /\ \E m \in Media : JoinOk(r, x, m)
            /\ KeptPeers(r)[UserOf[x]] = peers[r][UserOf[x]]
  BY <1>0, <1>1, SeatHeld
<1>3. ASSUME NEW x \in Sockets \ {s}, NEW k \in DOMAIN tasks[x], JoinSeat(x, k), tasks[x][k].room = r,
             UserOf[x] = UserOf[s], HasSeatFor(r, x), KeptPeers(r)[UserOf[x]] = peers[r][UserOf[x]]
      PROVE  Heard(r, s)'
  <2>1. peers[r][UserOf[x]] # NoEntry /\ peers[r][UserOf[x]].peer = s
    BY <1>3 DEF Seated
  <2>2. PICK u \in Task :
           /\ Turns(x, k, u) /\ SameJob(tasks[x][k], u)
           /\ u.pc = "settle" \/ JoinFull(r, x)
           /\ u.prev = IF u.pc = "full" \/ KeptPeers(r)[UserOf[x]] = NoEntry THEN Nobody
                       ELSE IF KeptPeers(r)[UserOf[x]].peer = x THEN Nobody
                       ELSE KeptPeers(r)[UserOf[x]].peer
    BY <1>0, <1>3, TurningSeat
  <2>3. ~JoinFull(r, x)
    BY <1>3 DEF JoinFull
  <2>4. u \in InFlight(x)' /\ u.room = r /\ u.pc = "settle" /\ u.prev = s
    BY <1>3, <2>1, <2>2, <2>3 DEF Turns, SameJob
  <2> QED
    BY <2>4 DEF Heard
<1> QED
  BY <1>2, <1>3 DEF JoinOk, Heard

\* The handler that is about to take its seat takes it or is turned away.
LEMMA HeardSeating ==
    ASSUME "crash" \notin Faults, TypeOK, MoveInv, [Next]_gatewayVars,
           NEW r \in Rooms, NEW s \in Sockets, NEW t \in InFlight(s), t.room = r,
           t.pc \in {"seat", "full"}, s \in channel'[r]
    PROVE  Heard(r, s)'
<1>0. StoreTypeOK /\ HandlersTypeOK
  BY DEF TypeOK, HandlersTypeOK
<1>1. ~Crash(InstanceOf[s])
  BY DEF Crash
<1>2. ASSUME NEW k \in DOMAIN tasks[s], TaskStep(s, k), t = tasks[s][k]
      PROVE  Heard(r, s)'
  <2>0. Shape(t)
    BY <1>0, MovesOf
  <2>1. CASE GoesOn(s, k)
    BY <1>0, <1>2, <2>1, GoingOn
  <2>2. CASE Quits(s, k)
    <3>1. channel' = [channel EXCEPT ![t.room] = @ \ {s}]
      BY <1>0, <1>2, <2>0, <2>2, Quitting DEF Shape
    <3> QED
      BY <1>0, <3>1 DEF HandlersTypeOK
  <2>3. CASE JoinSeat(s, k)
    <3>1. PICK u \in Task : /\ Turns(s, k, u) /\ SameJob(t, u)
                            /\ u.pc = "full" \/ \E m \in Media : JoinOk(t.room, s, m)
      BY <1>0, <1>2, <2>3, TurningSeat
    <3>2. CASE u.pc = "full"
      BY <3>1, <3>2 DEF Heard, Turns, SameJob
    <3>3. ASSUME NEW m \in Media, JoinOk(r, s, m) PROVE Seated(r, s)'
      <4>1. UserOf[s] \in Users
        BY UserOfAssumption
      <4>2. peers'[r][UserOf[s]] = [peer |-> s, media |-> m]
        BY <1>0, <3>3, <4>1 DEF JoinOk, KeptPeers, StoreTypeOK, PresenceTypeOK
      <4>3. peers'[r][UserOf[s]] # NoEntry
        BY <4>2, NoEntryAssumption
      <4> QED
        BY <4>2, <4>3 DEF Seated
    <3> QED
      BY <3>1, <3>2, <3>3 DEF Heard
  <2>4. CASE JoinFreeDead(s, k)
    <3>1. PICK u \in Task : Turns(s, k, u) /\ SameJob(t, u) /\ u.pc = t.pc
      BY <1>0, <1>2, <2>4, TurningDead
    <3> QED
      BY <3>1 DEF Heard, Turns, SameJob
  <2>5. ~JoinAdmitted(s, k) /\ ~JoinFreePrevious(s, k) /\ ~LeaveStart(s, k) /\ ~LeaveUnseat(s, k)
    BY <1>2 DEF JoinAdmitted, JoinFreePrevious, LeaveStart, LeaveUnseat, Executes, Runs
  <2> QED
    BY <1>2, <2>1, <2>2, <2>3, <2>4, <2>5, TaskCases
<1>3. CASE \E u \in InFlight(s)' : Alike(t, u)
  BY <1>3 DEF Alike, Heard
<1> QED
  BY <1>1, <1>2, <1>3, TaskStays

\* The one that took the seat over says so.
LEMMA HeardSettling ==
    ASSUME "crash" \notin Faults, TypeOK, MoveInv, [Next]_gatewayVars,
           NEW r \in Rooms, NEW s \in Sockets, NEW x \in Sockets, NEW t \in InFlight(x), t.room = r,
           t.prev = s, t.pc = "settle", s \in channel'[r]
    PROVE  Heard(r, s)'
<1>0. StoreTypeOK /\ HandlersTypeOK
  BY DEF TypeOK, HandlersTypeOK
<1>1. ~Crash(InstanceOf[x])
  BY DEF Crash
<1>2. ASSUME NEW k \in DOMAIN tasks[x], TaskStep(x, k), t = tasks[x][k]
      PROVE  Heard(r, s)'
  <2>0. t.prev # Nobody
    BY NobodyAssumption
  <2>1. CASE GoesOn(x, k)
    <3>1. JoinDisplace(x, k)
      BY <1>0, <1>2, <2>0, <2>1, GoingOn
    <3>2. channel' = [channel EXCEPT ![r] = @ \ {s}]
      BY <1>2, <3>1 DEF JoinDisplace
    <3> QED
      BY <1>0, <3>2 DEF HandlersTypeOK
  <2>2. CASE Quits(x, k)
    BY <1>0, <1>2, <2>0, <2>2, Quitting
  <2>3. CASE JoinFreeDead(x, k)
    <3>1. PICK u \in Task : Turns(x, k, u) /\ SameJob(t, u) /\ u.pc = t.pc /\ u.prev = t.prev
      BY <1>0, <1>2, <2>3, TurningDead
    <3> QED
      BY <3>1 DEF Heard, Turns, SameJob
  <2>4. /\ ~JoinAdmitted(x, k) /\ ~JoinSeat(x, k) /\ ~JoinFreePrevious(x, k)
        /\ ~LeaveStart(x, k) /\ ~LeaveUnseat(x, k)
    BY <1>2 DEF JoinAdmitted, JoinSeat, JoinFreePrevious, LeaveStart, LeaveUnseat, Executes, Runs
  <2> QED
    BY <1>2, <2>1, <2>2, <2>3, <2>4, TaskCases
<1>3. CASE \E u \in InFlight(x)' : Alike(t, u)
  BY <1>3 DEF Alike, Heard
<1> QED
  BY <1>1, <1>2, <1>3, TaskStays

\* Every step keeps it, unless a process dies between taking a seat over and saying so.
LEMMA HearsStep ==
    ASSUME StaleAge > 1, "crash" \notin Faults, TypeOK, PresenceInv, MoveInv, Away, Beats, Hears,
           [Next]_gatewayVars
    PROVE  Hears'
<1> SUFFICES ASSUME NEW r \in Rooms, ending'[r] = "open", NEW s \in channel'[r] \cap up'
             PROVE  Heard(r, s)'
  BY DEF Hears, Heard
<1>0. StoreTypeOK /\ HandlersTypeOK
  BY DEF TypeOK, HandlersTypeOK
<1>1. s \in up /\ s \in Sockets /\ ending[r] = "open"
  BY <1>0, Subscribers DEF HandlersTypeOK
<1>2. CASE s \in channel[r]
  <2>1. Heard(r, s)
    BY <1>1, <1>2 DEF Hears
  <2> QED
    BY <1>1, <1>2, <2>1, HeardSeated, HeardSeating, HeardSettling DEF Heard
<1>3. CASE s \notin channel[r]
  <2>1. PICK k \in DOMAIN tasks[s] : JoinSubscribe(s, k) /\ tasks[s][k].room = r
    BY <1>3, Subscribers
  <2>2. PICK u \in Task : SameBut(tasks[s][k], u) /\ Turns(s, k, u) /\ u.pc = "seat"
    <3>1. GotoPc(s, k, "seat")
      BY <2>1 DEF JoinSubscribe
    <3> QED
      BY <1>0, <1>1, <3>1, TurningPc
  <2>3. u \in InFlight(s)' /\ u.room = r
    BY <2>1, <2>2 DEF Turns, SameBut, SameJob
  <2> QED
    BY <2>2, <2>3 DEF Heard
<1> QED
  BY <1>2, <1>3

\* A room is heard only from its seats (room.gateway.ts subscribes before it takes
\* the seat, and unsubscribes whom it displaces): once everything has settled, a
\* connected socket that hears an open room holds its person's seat there.
THEOREM HearersHaveSeats ==
    ASSUME "overtake" \notin Faults, "stall" \notin Faults, "crash" \notin Faults, StaleAge > 1
    PROVE  Spec => []HearersSeated
<1>1. Init => Hears
  BY DEF Init, Hears
<1>2. TypeOK /\ PresenceInv /\ MoveInv /\ Away /\ Beats /\ Hears /\ [Next]_gatewayVars => Hears'
  BY HearsStep
<1>3. Spec => []Hears
  BY <1>1, <1>2, GatewayTypes, PresenceAlways, MoveAlways, AwayAlways, BeatsAlways, PTL DEF Spec
<1>4. TypeOK /\ Hears => HearersSeated
  <2> SUFFICES ASSUME TypeOK, Hears, Quiescent, NEW r \in Rooms, ending[r] = "open", NEW s \in channel[r] \cap up
               PROVE  Seated(r, s)
    BY DEF HearersSeated
  <2>1. \A x \in Sockets : InFlight(x) = {}
    BY DEF Quiescent, InFlight
  <2>2. Heard(r, s)
    BY DEF Hears
  <2> QED
    BY <2>1, <2>2 DEF Heard, TypeOK
<1> QED
  BY <1>3, <1>4, GatewayTypes, PTL

-----------------------------------------------------------------------------
(* What a step is to one connected socket.                                 *)

\* Somebody is about to put s out of room r: its seat was taken over or timed
\* out, and that is still to be said or its slot to be freed.
Pending(r, s) ==
    \/ \E x \in Sockets : \E t \in InFlight(x) : t.room = r /\ (t.prev = s \/ s \in t.dead)
    \/ \E i \in alive : <<r, s>> \in freeing[i]

\* Nothing happens to the socket, except perhaps as regards room y.
Spared(s, y) ==
    /\ InFlight(s)' = InFlight(s) /\ page'[s] = page[s] /\ roomSlug'[s] = roomSlug[s]
    /\ \A r \in Rooms \ {y} : s \in channel[r] <=> s \in channel'[r]
    /\ page[s] # y \/ s \in presenting' => status'[s] = status[s]
    /\ s \in presenting' => s \in presenting

\* Every step is, to a connected socket, one of its own or its tab's, or leaves it
\* alone except for a room that has ended or that it is being put out of.
LEMMA Seen ==
    ASSUME TypeOK, MoveInv, [Next]_gatewayVars, NEW s \in up'
    PROVE  \/ Spared(s, NoRoom) /\ status'[s] = status[s]
           \/ \E y \in Rooms : Spared(s, y) /\ (ending[y] # "open" \/ Pending(y, s))
           \/ TabStep(s)
           \/ \E k \in DOMAIN tasks[s] : TaskStep(s, k)
<1>0. StoreTypeOK /\ HandlersTypeOK /\ s \in Sockets /\ s \in up
  BY Subscribers DEF TypeOK, HandlersTypeOK
<1> USE DEF HandlersTypeOK
<1>1. ASSUME NEW x \in Sockets \ {s}, TabStep(x) PROVE Spared(s, NoRoom) /\ status'[s] = status[s]
  <2>1. roomSlug' = roomSlug /\ channel' = channel
    BY <1>1 DEF TabStep, OpenRoom, Rejoin, CloseRoom, AckTimeout, StartShare, StopShare, serverVars
  <2>2. page'[s] = page[s] /\ status'[s] = status[s]
    BY <1>0, <1>1 DEF TabStep, OpenRoom, Rejoin, CloseRoom, AckTimeout, StartShare, StopShare, tabVars
  <2>4. s \in presenting' => s \in presenting
    BY <1>0, <1>1 DEF TabStep, OpenRoom, Rejoin, CloseRoom, AckTimeout, StartShare, StopShare, tabVars
  <2>3. InFlight(s)' = InFlight(s)
    BY <1>0, <1>1, TabAdds DEF Elsewhere
  <2> QED
    BY <1>0, <2>1, <2>2, <2>3, <2>4 DEF Spared
<1>2. ASSUME NEW x \in Sockets, Disconnect(x) PROVE Spared(s, NoRoom) /\ status'[s] = status[s]
  BY <1>0, <1>2, DisconnectTurns DEF Spared, Forgetful, Elsewhere
<1>3. ASSUME NEW x \in Sockets \ {s}, NEW k \in DOMAIN tasks[x], TaskStep(x, k)
      PROVE  \/ Spared(s, NoRoom) /\ status'[s] = status[s]
             \/ \E y \in Rooms : Spared(s, y) /\ (ending[y] # "open" \/ Pending(y, s))
  <2>1. InFlight(s)' = InFlight(s)
    BY <1>0, <1>3, TaskTurns DEF Turns, Drops, Elsewhere
  <2>2. tasks[x][k] \in InFlight(x) /\ tasks[x][k] \in Task
    BY <1>0, InFlightIs
  <2>3. CASE JoinDisplace(x, k) /\ tasks[x][k].prev = s
    <3> DEFINE y == tasks[x][k].room
    <3>1. y \in Rooms /\ Pending(y, s)
      BY <2>2, <2>3 DEF Pending, Task
    <3>2. Spared(s, y)
      BY <1>0, <2>1, <2>3, <3>1 DEF Spared, JoinDisplace
    <3> QED
      BY <3>1, <3>2
  <2>4. CASE JoinDisplace(x, k) /\ tasks[x][k].prev # s
    BY <1>0, <2>1, <2>4 DEF Spared, JoinDisplace
  <2>5. CASE JoinTurnedAway(x, k) \/ JoinAdmitted(x, k) \/ LeaveStart(x, k) \/ JoinSubscribe(x, k)
             \/ JoinRegister(x, k)
    <3>1. /\ page'[s] = page[s] /\ status'[s] = status[s]
          /\ s \in presenting' => s \in presenting
      BY <1>0, <1>3, <2>5 DEF JoinTurnedAway, JoinAdmitted, LeaveStart, JoinSubscribe, JoinRegister, tabVars, AnswerJoin
    <3>2. \/ roomSlug' = roomSlug \/ \E z : roomSlug' = [roomSlug EXCEPT ![x] = z]
      BY <2>5 DEF JoinTurnedAway, JoinAdmitted, LeaveStart, JoinSubscribe, JoinRegister
    <3>3. \/ channel' = channel
          \/ \E z : \/ channel' = [channel EXCEPT ![z] = @ \ {x}]
                    \/ channel' = [channel EXCEPT ![z] = @ \cup {x}]
      BY <2>5 DEF JoinTurnedAway, JoinAdmitted, LeaveStart, JoinSubscribe, JoinRegister
    <3>4. \A r \in Rooms : s \in channel[r] <=> s \in channel'[r]
      <4>1. CASE channel' = channel
        BY <4>1
      <4>2. ASSUME NEW z, channel' = [channel EXCEPT ![z] = @ \ {x}]
            PROVE  \A r \in Rooms : s \in channel[r] <=> s \in channel'[r]
        BY <1>0, <1>3, <4>2
      <4>3. ASSUME NEW z, channel' = [channel EXCEPT ![z] = @ \cup {x}]
            PROVE  \A r \in Rooms : s \in channel[r] <=> s \in channel'[r]
        BY <1>0, <1>3, <4>3
      <4> QED
        BY <3>3, <4>1, <4>2, <4>3
    <3>5. roomSlug'[s] = roomSlug[s]
      BY <1>0, <1>3, <3>2
    <3> QED
      BY <2>1, <3>1, <3>4, <3>5 DEF Spared
  <2>6. CASE \/ JoinStart(x, k) \/ JoinLimited(x, k) \/ JoinRefused(x, k) \/ JoinSeat(x, k)
             \/ JoinFreeDead(x, k) \/ JoinFreePrevious(x, k) \/ JoinAnswered(x, k)
             \/ LeaveFree(x, k) \/ LeaveUnseat(x, k)
             \/ ScreenStart(x, k) \/ ScreenClaim(x, k) \/ ScreenRelease(x, k)
    <3>1. roomSlug' = roomSlug /\ channel' = channel
      BY <2>6 DEF JoinStart, JoinLimited, JoinRefused, JoinSeat, JoinFreeDead, JoinFreePrevious,
                  JoinAnswered, LeaveFree, LeaveUnseat, ScreenStart, ScreenClaim,
                  ScreenRelease, serverVars
    <3>2. /\ page'[s] = page[s] /\ status'[s] = status[s]
          /\ s \in presenting' => s \in presenting
      BY <1>0, <1>3, <2>6 DEF JoinStart, JoinLimited, JoinRefused, JoinSeat, JoinFreeDead, JoinFreePrevious,
                  JoinAnswered, LeaveFree, LeaveUnseat, ScreenStart, ScreenClaim,
                  ScreenRelease, tabVars, AnswerJoin
    <3> QED
      BY <2>1, <3>1, <3>2 DEF Spared
  <2> QED
    BY <1>3, <2>3, <2>4, <2>5, <2>6 DEF TaskStep
<1>4. ASSUME NEW i \in Instances, Crash(i) PROVE Spared(s, NoRoom) /\ status'[s] = status[s]
  BY <1>0, <1>4, CrashTurns DEF Spared
<1>5. ASSUME UNCHANGED gatewayVars \/ TimePasses \/ \E i \in Instances : TimerStep(i)
      PROVE  Spared(s, NoRoom) /\ status'[s] = status[s]
  <2>1. UNCHANGED <<tasks, roomSlug, channel, page, status, presenting>>
    BY <1>5 DEF TimerStep, Beat, SweepRoom, SweepFree, TimePasses, gatewayVars, tabVars
  <2> QED
    BY <2>1 DEF Spared, InFlight
<1>6. ASSUME NEW y \in Rooms, EndRoom(y) \/ EndedClearScreen(y) \/ EndedClearRoom(y)
      PROVE  Spared(s, NoRoom) /\ status'[s] = status[s]
  <2>1. UNCHANGED <<tasks, roomSlug, channel, page, status, presenting>>
    BY <1>6 DEF EndRoom, EndedClearScreen, EndedClearRoom, tabVars
  <2> QED
    BY <2>1 DEF Spared, InFlight
<1>7. ASSUME NEW y \in Rooms, AnnounceEnded(y) PROVE Spared(s, y) /\ ending[y] # "open"
  BY <1>0, <1>7 DEF Spared, InFlight, AnnounceEnded
<1> QED
  BY <1>1, <1>2, <1>3, <1>4, <1>5, <1>6, <1>7 DEF Next, EndStep

\* An entry of a room stays, goes, or is a join's.
LEMMA EntrySteps ==
    ASSUME TypeOK, MoveInv, [Next]_gatewayVars, NEW r \in Rooms, NEW u \in Users
    PROVE  \/ peers'[r][u] \in {peers[r][u], NoEntry}
           \/ \E x \in Sockets : \E k \in DOMAIN tasks[x] : \E m \in Media :
                 /\ JoinSeat(x, k) /\ tasks[x][k].room = r /\ UserOf[x] = u
                 /\ JoinOk(r, x, m) /\ peers'[r][u] = [peer |-> x, media |-> m]
<1>0. /\ StoreTypeOK /\ HandlersTypeOK
      /\ peers \in [Rooms -> [Users -> Participant \cup {NoEntry}]]
  BY DEF TypeOK, HandlersTypeOK, StoreTypeOK, PresenceTypeOK
<1>1. KeptPeers(r) \in [Users -> Participant \cup {NoEntry}] /\ KeptPeers(r)[u] \in {peers[r][u], NoEntry}
  BY <1>0, KeptTypes DEF KeptPeers, StoreTypeOK
<1>2. CASE UNCHANGED presenceVars \/ \E e \in SUBSET (Rooms \X Sockets) : Heartbeat(e)
  BY <1>2 DEF presenceVars, Heartbeat
<1>3. CASE Tick
  BY <1>3 DEF Tick
<1>4. ASSUME NEW y \in Rooms, Sweep(y) PROVE peers'[r][u] \in {peers[r][u], NoEntry}
  BY <1>0, <1>1, <1>4 DEF Sweep
<1>5. ASSUME NEW y \in Rooms, EndedClearRoom(y) PROVE peers'[r][u] \in {peers[r][u], NoEntry}
  BY <1>0, <1>5 DEF EndedClearRoom, ClearRoom
<1>6. ASSUME NEW x \in Sockets, NEW k \in DOMAIN tasks[x], LeaveUnseat(x, k)
      PROVE  peers'[r][u] \in {peers[r][u], NoEntry}
  <2>1. tasks[x][k].leaving \in Rooms /\ UserOf[x] \in Users
    BY <1>0, <1>6, TurningUnseat, UserOfAssumption
  <2> QED
    BY <1>0, <1>6, <2>1 DEF LeaveUnseat, Leave, presenceVars
<1>7. ASSUME NEW x \in Sockets, NEW k \in DOMAIN tasks[x], JoinSeat(x, k)
      PROVE  \/ peers'[r][u] \in {peers[r][u], NoEntry}
             \/ \E m \in Media : /\ tasks[x][k].room = r /\ UserOf[x] = u
                                 /\ JoinOk(r, x, m) /\ peers'[r][u] = [peer |-> x, media |-> m]
  <2> DEFINE y == tasks[x][k].room
  <2>1. y \in Rooms /\ UserOf[x] \in Users
    BY <1>0, <1>7, TurningSeat, UserOfAssumption
  <2>2. CASE JoinFull(y, x)
    BY <1>0, <1>1, <2>1, <2>2 DEF JoinFull
  <2>3. ASSUME NEW m \in Media, JoinOk(y, x, m), y # r PROVE peers'[r][u] = peers[r][u]
    BY <1>0, <2>1, <2>3 DEF JoinOk
  <2>4. ASSUME NEW m \in Media, JoinOk(r, x, m)
        PROVE  IF UserOf[x] = u THEN peers'[r][u] = [peer |-> x, media |-> m]
                                ELSE peers'[r][u] \in {peers[r][u], NoEntry}
    BY <1>0, <1>1, <2>1, <2>4 DEF JoinOk
  <2> QED
    BY <1>7, <2>2, <2>3, <2>4 DEF JoinSeat
<1> QED
  BY <1>0, <1>2, <1>3, <1>4, <1>5, <1>6, <1>7, PresenceSteps

\* Whoever is seated now was, or has just taken the seat.
LEMMA SeatGained ==
    ASSUME TypeOK, MoveInv, [Next]_gatewayVars, NEW r \in Rooms, NEW s \in Sockets, Seated(r, s)'
    PROVE  \/ Seated(r, s)
           \/ \E k \in DOMAIN tasks[s] : /\ JoinSeat(s, k) /\ tasks[s][k].room = r
                                         /\ \E m \in Media : JoinOk(r, s, m)
<1>1. UserOf[s] \in Users
  BY UserOfAssumption
<1>2. CASE peers'[r][UserOf[s]] \in {peers[r][UserOf[s]], NoEntry}
  BY <1>2 DEF Seated
<1>3. ASSUME NEW x \in Sockets, NEW k \in DOMAIN tasks[x], NEW m \in Media,
             JoinSeat(x, k), tasks[x][k].room = r, JoinOk(r, x, m),
             peers'[r][UserOf[s]] = [peer |-> x, media |-> m]
      PROVE  \E j \in DOMAIN tasks[s] : /\ JoinSeat(s, j) /\ tasks[s][j].room = r
                                        /\ \E z \in Media : JoinOk(r, s, z)
  <2>1. x = s
    BY <1>3 DEF Seated
  <2> QED
    BY <1>3, <2>1
<1> QED
  BY <1>1, <1>2, <1>3, EntrySteps

\* An entry is its own person's.
OwnSeats ==
    \A r \in Rooms, u \in Users : peers[r][u] # NoEntry => UserOf[peers[r][u].peer] = u

\* Every step keeps entries their own people's.
LEMMA OwnStep ==
    ASSUME TypeOK, MoveInv, OwnSeats, [Next]_gatewayVars
    PROVE  OwnSeats'
<1> SUFFICES ASSUME NEW r \in Rooms, NEW u \in Users, peers'[r][u] # NoEntry
             PROVE  UserOf[peers'[r][u].peer] = u
  BY DEF OwnSeats
<1>1. CASE peers'[r][u] \in {peers[r][u], NoEntry}
  BY <1>1 DEF OwnSeats
<1>2. ASSUME NEW x \in Sockets, NEW m \in Media, UserOf[x] = u, peers'[r][u] = [peer |-> x, media |-> m]
      PROVE  UserOf[peers'[r][u].peer] = u
  BY <1>2
<1>3. \/ peers'[r][u] \in {peers[r][u], NoEntry}
      \/ \E x \in Sockets, m \in Media : UserOf[x] = u /\ peers'[r][u] = [peer |-> x, media |-> m]
  BY EntrySteps
<1> QED
  BY <1>1, <1>2, <1>3

\* Where a handler in flight comes from.
LEMMA TaskFrom ==
    ASSUME TypeOK, MoveInv, [Next]_gatewayVars, NEW x \in Sockets, NEW u \in InFlight(x)'
    PROVE  \/ \E t \in InFlight(x) : Alike(t, u) /\ (u = t \/ TabStep(x) \/ Disconnect(x))
           \/ \E k \in DOMAIN tasks[x] : TaskStep(x, k) /\ u \notin Rest(x, k)
           \/ /\ TabStep(x)
              /\ \E kind \in {"join", "leave", "claim", "release"}, r \in Rooms :
                    u = NewTask(kind, r) /\ (kind = "join" => CanJoin(x) /\ page'[x] = r /\ status'[x] = "joining")
           \/ Disconnect(x) /\ u.kind = "leave" /\ u.prev = Nobody /\ u.dead = {}
<1>0. StoreTypeOK /\ HandlersTypeOK /\ \A v : Alike(v, v)
  BY DEF TypeOK, HandlersTypeOK, Alike
<1>1. CASE TabStep(x)
  BY <1>0, <1>1, TabAdds
<1>2. CASE Disconnect(x)
  <2>1. PICK v : /\ Forgetful(x, v, roomSlug[x] # NoRoom)
                 /\ roomSlug[x] # NoRoom => v.kind = "leave" /\ v.prev = Nobody /\ v.dead = {}
    BY <1>0, <1>2, DisconnectTurns
  <2>2. \A v1, v2 : Forgotten(v1, v2) => Alike(v1, v2)
    BY DEF Forgotten, Alike
  <2> QED
    BY <1>2, <2>1, <2>2 DEF Forgetful
<1>3. ASSUME NEW k \in DOMAIN tasks[x], TaskStep(x, k)
      PROVE  u \in InFlight(x) \/ u \notin Rest(x, k)
  BY <1>0, InFlightIs
<1>4. CASE \E s \in Sockets \ {x} : TabStep(s) \/ Disconnect(s) \/ \E k \in DOMAIN tasks[s] : TaskStep(s, k)
  <2>1. PICK s \in Sockets \ {x} : TabStep(s) \/ Disconnect(s) \/ \E k \in DOMAIN tasks[s] : TaskStep(s, k)
    BY <1>4
  <2>2. Elsewhere(s)
    BY <1>0, <2>1, TabAdds, DisconnectTurns, TaskTurns DEF Forgetful, Turns, Drops
  <2>3. u \in InFlight(x)
    BY <2>1, <2>2 DEF Elsewhere
  <2> QED
    BY <1>0, <2>3
<1>5. CASE \E i \in Instances : Crash(i)
  <2>1. u \in InFlight(x)
    BY <1>0, <1>5, CrashTurns
  <2> QED
    BY <1>0, <2>1
<1>6. CASE \/ UNCHANGED gatewayVars \/ \E i \in Instances : TimerStep(i)
           \/ \E r \in Rooms : EndRoom(r) \/ EndStep(r)
           \/ TimePasses
  <2>1. tasks' = tasks
    BY <1>6 DEF TimerStep, Beat, SweepRoom, SweepFree, EndRoom, EndStep, AnnounceEnded,
         EndedClearScreen, EndedClearRoom, TimePasses, gatewayVars
  <2>2. u \in InFlight(x)
    BY <2>1 DEF InFlight
  <2> QED
    BY <1>0, <2>2
<1> QED
  BY <1>0, <1>1, <1>2, <1>3, <1>4, <1>5, <1>6 DEF Next

-----------------------------------------------------------------------------
(* Whose seat it is.                                                       *)

\* A join that has not come to its seat yet.
Before(t) ==
    t.kind = "join" /\ t.pc \in {"start", "limit", "admit", "free", "unseat", "subscribe", "seat"}
Arriving(r, s) == \E t \in InFlight(s) : Before(t) /\ t.room = r

\* Nobody is about to put out a socket that is seated, or on its way.
Unspoken ==
    \A s \in up, r \in Rooms :
        ending[r] = "open" /\ (Seated(r, s) \/ Arriving(r, s)) => ~Pending(r, s)

\* The tab shows the room and waits for the answer of this join.
Waiting(s, t) == t.mine /\ page[s] = t.room /\ status[s] = "joining"

Asked ==
    \A s \in up : \A t \in InFlight(s) :
        Before(t) /\ ending[t.room] = "open" =>
            Waiting(s, t) /\ (t.pc = "seat" => s \in channel[t.room])

\* A seated socket is in the room, or its join is about to say so, or it is
\* giving the seat up.
Home(r, s) == s \in channel[r] /\ page[s] = r /\ roomSlug[s] = r /\ status[s] = "joined"
Landing(r, s, t) ==
    /\ t.room = r /\ t.kind = "join" /\ t.pc \in {"settle", "freePrevious", "register", "answer"}
    /\ Waiting(s, t) /\ s \in channel[r] /\ (t.pc = "answer" => roomSlug[s] = r)
Going(r, s, t) == t.room = r /\ t.kind = "leave" /\ (t.pc = "start" => roomSlug[s] = r)

Known ==
    \A s \in up, r \in Rooms : Seated(r, s) /\ ending[r] = "open" =>
        Home(r, s) \/ \E t \in InFlight(s) : Landing(r, s, t) \/ Going(r, s, t)

\* While its join is on the way to a seat, or turned away, a socket has none.
LEMMA Unseated ==
    ASSUME HandlersTypeOK, MoveInv, Known, NEW s \in up, NEW r \in Rooms, ending[r] = "open",
           NEW t \in InFlight(s), Before(t) \/ (t.kind = "join" /\ t.pc = "full")
    PROVE  ~Seated(r, s)
<1>1. s \in Sockets /\ Moving(t)
  BY DEF HandlersTypeOK, Before, Moving
<1>2. status[s] # "joined" /\ \A u \in InFlight(s) : Moving(u) => u = t
  BY <1>1, MovesOf
<1>3. \A u \in InFlight(s) : ~Landing(r, s, u) /\ ~Going(r, s, u)
  BY <1>2 DEF Landing, Going, Moving, Before
<1> QED
  BY <1>2, <1>3 DEF Known, Home

\* A socket that a script finds timed out held its own seat, which goes.
LEMMA TimedOutSeated ==
    ASSUME StoreTypeOK, OwnSeats, NEW r \in Rooms, NEW s, s \in TimedOut(r)
    PROVE  Seated(r, s) /\ UserOf[s] \in Expired(r) /\ UserOf[s] \in Users /\ KeptPeers(r)[UserOf[s]] = NoEntry
<1>1. PICK u \in Users : u \in Expired(r) /\ peers[r][u] # NoEntry /\ peers[r][u].peer = s
  BY DEF TimedOut, Expired, Listed
<1>2. UserOf[s] = u
  BY <1>1 DEF OwnSeats
<1> QED
  BY <1>1, <1>2 DEF Seated, KeptPeers

\* A handler of a tab that stays a screen's leaves the rest as it is.
LEMMA ScreenTurns ==
    ASSUME HandlersTypeOK, MoveInv, NEW s \in Sockets, NEW k \in DOMAIN tasks[s], TaskStep(s, k),
           ~Moving(tasks[s][k])
    PROVE  /\ ScreenStart(s, k) \/ ScreenClaim(s, k) \/ ScreenRelease(s, k)
           /\ UNCHANGED <<page, status, roomSlug, channel, freeing, presenceVars, ending, up, alive>>
           /\ Rest(s, k) \subseteq InFlight(s)'
<1>0. Shape(tasks[s][k])
  BY DEF MoveInv, Shapes
<1>1. ScreenStart(s, k) \/ ScreenClaim(s, k) \/ ScreenRelease(s, k)
  BY <1>0 DEF TaskStep, JoinStart, JoinLimited, JoinRefused, JoinAdmitted, JoinSubscribe, JoinSeat,
     JoinFreeDead, JoinTurnedAway, JoinDisplace, JoinFreePrevious, JoinRegister, JoinAnswered,
     LeaveStart, LeaveFree, LeaveUnseat, Executes, Runs, Shape, Moving
<1>2. UNCHANGED <<page, status, roomSlug, channel, freeing, presenceVars, ending, up, alive>>
  BY <1>1 DEF ScreenStart, ScreenClaim, ScreenRelease, ClaimOk, ClaimBusy, Release, serverVars, tabVars,
              storeVars, presenceVars
<1>3. GoesOn(s, k) \/ Quits(s, k)
  BY <1>1 DEF GoesOn, Quits
<1>4. Rest(s, k) \subseteq InFlight(s)'
  BY <1>3, GoingOn, Quitting DEF Turns, Drops
<1> QED
  BY <1>1, <1>2, <1>4

\* A join on its way to its seat was on its way, and tells its tab nothing.
LEMMA BeforeTurns ==
    ASSUME StoreTypeOK, HandlersTypeOK, MoveInv, NEW s \in Sockets, NEW k \in DOMAIN tasks[s], TaskStep(s, k),
           NEW u \in InFlight(s)', u \notin Rest(s, k), Before(u)
    PROVE  /\ Before(tasks[s][k]) /\ SameJob(tasks[s][k], u)
           /\ page' = page /\ status' = status
           /\ u.pc = "seat" => s \in channel'[u.room]
<1> DEFINE t == tasks[s][k]
<1>0. t \in Task /\ t.room \in Rooms
  BY InFlightIs DEF Task
<1>1. CASE GoesOn(s, k)
  <2>1. PICK v \in Task :
              /\ SameBut(t, v) /\ Turns(s, k, v)
              /\ \/ JoinStart(s, k) /\ t.kind = "join" /\ t.pc = "start" /\ v.pc = "limit"
                 \/ /\ JoinLimited(s, k) /\ UNCHANGED tabVars
                    /\ t.kind = "join" /\ t.pc = "limit" /\ v.pc = "admit"
                 \/ JoinSubscribe(s, k) /\ t.kind = "join" /\ t.pc = "subscribe" /\ v.pc = "seat"
                 \/ v.pc \in {"freePrevious", "answer"}
                 \/ LeaveFree(s, k) /\ t.pc = "free" /\ v.pc = "unseat"
                 \/ t.kind \in {"claim", "release"}
    BY <1>1, GoingOn
  <2>2. u = v
    BY <2>1 DEF Turns
  <2>3. Before(t) /\ SameJob(t, u)
    BY <2>1, <2>2 DEF Before, SameBut, SameJob
  <2>4. CASE JoinSubscribe(s, k)
    BY <1>0, <2>3, <2>4 DEF JoinSubscribe, tabVars, SameJob, HandlersTypeOK
  <2>5. CASE JoinStart(s, k) \/ (JoinLimited(s, k) /\ UNCHANGED tabVars) \/ LeaveFree(s, k)
    <3>1. page' = page /\ status' = status
      BY <2>5 DEF JoinStart, LeaveFree, tabVars
    <3>2. u.pc # "seat"
      <4>1. t.kind = "join" /\ t.pc \in {"start", "limit", "free"}
        BY <2>3, <2>5 DEF JoinStart, JoinLimited, LeaveFree, Executes, Runs, Before
      <4> QED
        BY <2>1, <2>2, <4>1
    <3> QED
      BY <2>3, <3>1, <3>2
  <2> QED
    BY <2>1, <2>2, <2>3, <2>4, <2>5 DEF Before
<1>2. CASE Quits(s, k)
  BY <1>2, Quitting DEF Drops
<1>3. CASE JoinAdmitted(s, k)
  <2>1. PICK v \in Task : Turns(s, k, v) /\ SameJob(t, v) /\ v.pc \in {"subscribe", "free"}
    BY <1>3, TurningAdmitted
  <2> QED
    BY <1>3, <2>1, TurningAdmitted DEF Turns, Before, JoinAdmitted, tabVars
<1>4. CASE JoinSeat(s, k)
  BY <1>4, TurningSeat DEF Turns, Before
<1>5. CASE JoinFreeDead(s, k)
  BY <1>5, TurningDead DEF Turns, Before
<1>6. CASE JoinFreePrevious(s, k)
  BY <1>6, TurningPrevious DEF Turns, Before
<1>7. CASE LeaveStart(s, k)
  BY <1>7, TurningLeave DEF Turns, Drops, Before, SameJob
<1>8. CASE LeaveUnseat(s, k)
  <2>1. t.pc = "unseat" /\ (Drops(s, k) \/ \E v \in Task : Turns(s, k, v) /\ SameJob(t, v) /\ v.pc = "subscribe")
    BY <1>8, TurningUnseat
  <2> QED
    BY <1>8, <2>1 DEF Turns, Drops, Before, SameJob, LeaveUnseat, tabVars
<1> QED
  BY <1>1, <1>2, <1>3, <1>4, <1>5, <1>6, <1>7, <1>8, TaskCases

\* Nobody tells a seated or arriving socket, or one in an open room, of that room.
LEMMA SparedRoom ==
    ASSUME Unspoken, NEW s \in up, NEW r \in Rooms, ending[r] = "open",
           Seated(r, s) \/ Arriving(r, s), NEW y,
           y = NoRoom \/ (y \in Rooms /\ (ending[y] # "open" \/ Pending(y, s)))
    PROVE  y # r
BY NoRoomAssumption DEF Unspoken

\* Handlers in flight after a step are handlers.
LEMMA InFlightNext ==
    ASSUME TypeOK, [Next]_gatewayVars, NEW s \in Sockets, NEW u \in InFlight(s)'
    PROVE  u \in Task /\ u.room \in Rooms
<1>1. tasks'[s] \in Seq(Task)
  BY GatewayStep DEF TypeOK
<1>2. u \in Task
  BY <1>1, ElementOfSeq, LenProperties DEF InFlight
<1> QED
  BY <1>2 DEF Task

\* Every step keeps it, if no tab gives up waiting.
LEMMA AskedStep ==
    ASSUME "overtake" \notin Faults, "unmount" \notin Faults, "timeout" \notin Faults,
           TypeOK, MoveInv, Unspoken, Asked, [Next]_gatewayVars
    PROVE  Asked'
<1> SUFFICES ASSUME NEW s \in up', NEW u \in InFlight(s)', Before(u), ending'[u.room] = "open"
             PROVE  Waiting(s, u)' /\ (u.pc = "seat" => s \in channel'[u.room])
  BY DEF Asked, Before
<1> DEFINE r == u.room
<1>0. StoreTypeOK /\ HandlersTypeOK
  BY DEF TypeOK, HandlersTypeOK
<1>1. s \in up /\ s \in Sockets /\ r \in Rooms /\ ending[r] = "open" /\ u \in Task
  <2>1. up' \subseteq up /\ \A y \in Rooms : ending'[y] = "open" => ending[y] = "open"
    BY Subscribers
  <2>2. s \in Sockets
    BY <1>0, <2>1 DEF HandlersTypeOK
  <2> QED
    BY <2>1, <2>2, InFlightNext
<1>2. ASSUME u \in InFlight(s)
      PROVE  Waiting(s, u) /\ (u.pc = "seat" => s \in channel[r]) /\ Arriving(r, s)
  BY <1>1, <1>2 DEF Asked, Arriving
<1>3. ASSUME NEW y, u \in InFlight(s), Spared(s, y), y = NoRoom => status'[s] = status[s],
             y = NoRoom \/ (y \in Rooms /\ (ending[y] # "open" \/ Pending(y, s)))
      PROVE  Waiting(s, u)' /\ (u.pc = "seat" => s \in channel'[r])
  <2>1. y # r
    BY <1>1, <1>2, <1>3, SparedRoom
  <2> QED
    BY <1>1, <1>2, <1>3, <2>1 DEF Spared, Waiting
<1>4. CASE Spared(s, NoRoom) /\ status'[s] = status[s]
  BY <1>3, <1>4 DEF Spared
<1>5. CASE \E y \in Rooms : Spared(s, y) /\ (ending[y] # "open" \/ Pending(y, s))
  BY <1>3, <1>5, NoRoomAssumption DEF Spared
<1>6. CASE TabStep(s)
  <2>1. channel' = channel
    BY <1>6 DEF TabStep, OpenRoom, Rejoin, CloseRoom, AckTimeout, StartShare, StopShare, serverVars
  <2>2. ASSUME NEW y \in Rooms, Sends(s, NewTask("join", y)), CanJoin(s), page'[s] = y, status'[s] = "joining"
        PROVE  Waiting(s, u)' /\ (u.pc = "seat" => s \in channel'[r])
    <3>1. \A t \in InFlight(s) : t.kind \notin {"join", "leave"}
      BY <2>2 DEF CanJoin, PutOut, InFlight
    <3>2. u = NewTask("join", y)
      BY <2>2, <3>1 DEF Sends, Before
    <3> QED
      BY <2>2, <3>2, NewTaskIs DEF Waiting
  <2>3. ASSUME NEW v, NEW more \in BOOLEAN, Forgetful(s, v, more), more => v.kind = "leave",
               status[s] # "joining"
        PROVE  FALSE
    <3>1. PICK t \in InFlight(s) : Forgotten(t, u)
      BY <2>3 DEF Forgetful, Before
    <3>2. Before(t) /\ t.room = r
      BY <3>1 DEF Forgotten, Before
    <3> QED
      BY <1>1, <2>3, <3>2 DEF Asked, Waiting
  <2>4. ASSUME NEW v, Sends(s, v), v.kind \in {"claim", "release"}, page'[s] = page[s], status'[s] = status[s]
        PROVE  Waiting(s, u)' /\ (u.pc = "seat" => s \in channel'[r])
    BY <1>2, <2>1, <2>4 DEF Sends, Before, Waiting
  <2>5. \A y \in Rooms : /\ NewTask("leave", y).kind = "leave" /\ NewTask("claim", y).kind = "claim"
                         /\ NewTask("release", y).kind = "release"
    BY NewTaskIs
  <2>6. \/ \E y \in Rooms : /\ Sends(s, NewTask("join", y)) /\ CanJoin(s) /\ page'[s] = y
                            /\ status'[s] = "joining"
        \/ \E y \in Rooms : Forgetful(s, NewTask("leave", y), TRUE) /\ status[s] # "joining"
        \/ Forgetful(s, NoRoom, FALSE) /\ status[s] # "joining"
        \/ \E y \in Rooms : /\ Sends(s, NewTask("claim", y)) \/ Sends(s, NewTask("release", y))
                            /\ page'[s] = page[s] /\ status'[s] = status[s]
    BY <1>0, <1>1, <1>6, TabTurns
  <2> QED
    BY <2>2, <2>3, <2>4, <2>5, <2>6
<1>7. ASSUME NEW k \in DOMAIN tasks[s], TaskStep(s, k)
      PROVE  Waiting(s, u)' /\ (u.pc = "seat" => s \in channel'[r])
  <2>1. CASE u \in Rest(s, k)
    <3>1. u \in InFlight(s) /\ ~Moving(tasks[s][k])
      BY <1>0, <1>1, <2>1, InFlightIs, MovesOf DEF Before, Moving
    <3> QED
      BY <1>0, <1>1, <1>2, <1>7, <3>1, ScreenTurns DEF Waiting
  <2>2. CASE u \notin Rest(s, k)
    <3>1. /\ Before(tasks[s][k]) /\ SameJob(tasks[s][k], u)
          /\ page' = page /\ status' = status
          /\ u.pc = "seat" => s \in channel'[r]
      BY <1>0, <1>1, <1>7, <2>2, BeforeTurns
    <3>2. Waiting(s, tasks[s][k])
      BY <1>0, <1>1, <3>1, InFlightIs DEF Asked, SameJob
    <3> QED
      BY <3>1, <3>2 DEF Waiting, SameJob
  <2> QED
    BY <2>1, <2>2
<1> QED
  BY <1>4, <1>5, <1>6, <1>7, Seen

\* A socket whose seat was known and that takes a step of its own.
LEMMA KnownTask ==
    ASSUME TypeOK, MoveInv, Unspoken, Asked, Known, [Next]_gatewayVars,
           NEW s \in up, NEW r \in Rooms, ending[r] = "open", Seated(r, s), Seated(r, s)',
           NEW k \in DOMAIN tasks[s], TaskStep(s, k)
    PROVE  Home(r, s)' \/ \E u \in InFlight(s)' : (Landing(r, s, u) \/ Going(r, s, u))'
<1> DEFINE t == tasks[s][k]
<1>0. StoreTypeOK /\ HandlersTypeOK /\ s \in Sockets /\ t \in InFlight(s) /\ t \in Task
  <2>1. StoreTypeOK /\ HandlersTypeOK /\ s \in Sockets
    BY DEF TypeOK, HandlersTypeOK
  <2> QED
    BY <2>1, InFlightIs
<1>1. CASE ~Moving(t)
  <2>1. UNCHANGED <<page, status, roomSlug, channel>> /\ Rest(s, k) \subseteq InFlight(s)'
    BY <1>0, <1>1, ScreenTurns
  <2>2. \A u \in InFlight(s) : Moving(u) => u \in InFlight(s)'
    BY <1>0, <1>1, <2>1, InFlightIs
  <2>3. Home(r, s) \/ \E u \in InFlight(s) : Moving(u) /\ (Landing(r, s, u) \/ Going(r, s, u))
    BY DEF Known, Moving, Landing, Going
  <2> QED
    BY <2>1, <2>2, <2>3 DEF Home, Landing, Going, Waiting
<1>2. CASE Moving(t)
  <2>1. status[s] # "joined" /\ \A u \in InFlight(s) : Moving(u) => u = t
    BY <1>0, <1>2, MovesOf
  <2>2. Landing(r, s, t) \/ Going(r, s, t)
    BY <2>1 DEF Known, Home, Moving, Landing, Going
  <2>3. ~Pending(r, s)
    BY DEF Unspoken
  <2>4. CASE Landing(r, s, t)
    <3>1. /\ t.kind = "join" /\ t.room = r /\ t.mine /\ page[s] = r /\ status[s] = "joining" /\ s \in channel[r]
          /\ t.pc \in {"settle", "freePrevious", "register", "answer"} /\ (t.pc = "answer" => roomSlug[s] = r)
      BY <2>4 DEF Landing, Waiting
    <3>2. CASE GoesOn(s, k)
      <4>1. PICK u \in Task :
              /\ SameBut(t, u) /\ Turns(s, k, u)
              /\ \/ JoinDisplace(s, k) /\ u.pc = "freePrevious"
                 \/ JoinRegister(s, k) /\ u.pc = "answer"
        BY <1>0, <3>1, <3>2, GoingOn
      <4>2. u \in InFlight(s)' /\ u.kind = "join" /\ u.room = r /\ u.mine
        BY <3>1, <4>1 DEF Turns, SameBut, SameJob
      <4>3. CASE JoinDisplace(s, k) /\ u.pc = "freePrevious"
        <5>1. t.prev # s
          BY <1>0, <2>3, <3>1 DEF Pending
        <5>2. /\ channel' = [channel EXCEPT ![r] = @ \ {t.prev}] /\ page' = page
              /\ status' \in {status, [status EXCEPT ![t.prev] = "displaced"]}
          BY <3>1, <4>3 DEF JoinDisplace
        <5>3. s \in channel'[r] /\ page'[s] = r /\ status'[s] = "joining"
          BY <1>0, <3>1, <5>1, <5>2 DEF HandlersTypeOK
        <5> QED
          BY <4>2, <4>3, <5>3 DEF Landing, Waiting
      <4>4. CASE JoinRegister(s, k) /\ u.pc = "answer"
        <5>1. roomSlug'[s] = r /\ UNCHANGED <<channel, page, status>>
          BY <1>0, <3>1, <4>4 DEF JoinRegister, HandlersTypeOK, tabVars
        <5> QED
          BY <3>1, <4>2, <4>4, <5>1 DEF Landing, Waiting
      <4> QED
        BY <4>1, <4>3, <4>4
    <3>3. CASE Quits(s, k)
      <4>1. /\ t.pc = "answer" /\ UNCHANGED <<roomSlug, page, channel>>
            /\ status' = [status EXCEPT ![s] = "joined"]
        BY <1>0, <3>1, <3>3, Quitting
      <4> QED
        BY <1>0, <3>1, <4>1 DEF Home, HandlersTypeOK
    <3>4. CASE JoinFreeDead(s, k) \/ JoinFreePrevious(s, k)
      <4>1. PICK u \in Task : Turns(s, k, u) /\ SameJob(t, u) /\ u.pc \in {"settle", "register"}
        BY <1>0, <3>1, <3>4, TurningDead, TurningPrevious
      <4>2. UNCHANGED <<channel, page, status, roomSlug>>
        BY <3>4 DEF JoinFreeDead, JoinFreePrevious, serverVars, tabVars
      <4> QED
        BY <3>1, <4>1, <4>2 DEF Turns, SameJob, Landing, Waiting
    <3>5. ~JoinAdmitted(s, k) /\ ~JoinSeat(s, k) /\ ~LeaveStart(s, k) /\ ~LeaveUnseat(s, k)
      BY <3>1 DEF JoinAdmitted, JoinSeat, LeaveStart, LeaveUnseat, Executes, Runs
    <3> QED
      BY <3>2, <3>3, <3>4, <3>5, TaskCases
  <2>5. CASE Going(r, s, t)
    <3>1. t.kind = "leave" /\ t.room = r /\ (t.pc = "start" => roomSlug[s] = r) /\ Shape(t)
      BY <1>0, <2>5, MovesOf DEF Going
    <3>2. CASE GoesOn(s, k)
      <4>1. PICK u \in Task : SameBut(t, u) /\ Turns(s, k, u) /\ u.pc = "unseat"
        BY <1>0, <3>1, <3>2, GoingOn
      <4> QED
        BY <3>1, <4>1 DEF Turns, SameBut, SameJob, Going
    <3>3. CASE LeaveStart(s, k)
      <4>1. t.pc = "start" /\ roomSlug[s] = t.room
        BY <1>0, <3>1, <3>3, TurningLeave
      <4>2. PICK u \in Task : Turns(s, k, u) /\ SameJob(t, u) /\ u.pc = "free"
        BY <1>0, <3>3, <4>1, TurningLeave
      <4> QED
        BY <3>1, <4>2 DEF Turns, SameJob, Going
    <3>4. CASE LeaveUnseat(s, k)
      <4>1. t.leaving = r
        <5>1. t.pc = "unseat"
          BY <3>4 DEF LeaveUnseat, Executes, Runs
        <5> QED
          BY <3>1, <5>1 DEF Shape
      <4>2. Leave(r, s) /\ UserOf[s] \in Users
        BY <1>0, <3>4, <4>1, UserOfAssumption DEF LeaveUnseat
      <4>3. peers'[r][UserOf[s]] = NoEntry
        BY <1>0, <4>2 DEF Leave, StoreTypeOK, PresenceTypeOK
      <4> QED
        BY <4>3 DEF Seated
    <3>5. ~Quits(s, k)
      BY <1>0, <3>1, Quitting
    <3>6. ~JoinAdmitted(s, k) /\ ~JoinSeat(s, k) /\ ~JoinFreeDead(s, k) /\ ~JoinFreePrevious(s, k)
      BY <1>0, <3>1, TurningAdmitted, TurningSeat, TurningDead, TurningPrevious
    <3> QED
      BY <3>2, <3>3, <3>4, <3>5, <3>6, TaskCases
  <2> QED
    BY <2>2, <2>4, <2>5
<1> QED
  BY <1>1, <1>2

\* And one whose tab takes a step.
LEMMA KnownTab ==
    ASSUME "unmount" \notin Faults, "timeout" \notin Faults,
           TypeOK, MoveInv, Known, NEW s \in up, NEW r \in Rooms, ending[r] = "open", Seated(r, s), TabStep(s)
    PROVE  Home(r, s)' \/ \E u \in InFlight(s)' : (Landing(r, s, u) \/ Going(r, s, u))'
<1>0. StoreTypeOK /\ HandlersTypeOK /\ s \in Sockets
  BY DEF TypeOK, HandlersTypeOK
<1>1. channel' = channel /\ roomSlug' = roomSlug
  BY DEF TabStep, OpenRoom, Rejoin, CloseRoom, AckTimeout, StartShare, StopShare, serverVars
<1>2. CASE Home(r, s)
  <2>1. page[s] = r /\ status[s] = "joined" /\ s \in channel[r] /\ roomSlug[s] = r /\ r # NoRoom
    BY <1>2, NoRoomAssumption DEF Home
  <2>2. CASE page'[s] = page[s] /\ status'[s] = status[s]
    BY <1>1, <2>1, <2>2 DEF Home
  <2>3. CASE Forgetful(s, NewTask("leave", page[s]), TRUE)
    <3>1. NewTask("leave", r) \in InFlight(s)'
      BY <2>1, <2>3 DEF Forgetful
    <3>2. Going(r, s, NewTask("leave", r))'
      BY <1>1, <2>1, NewTaskIs DEF Going
    <3> QED
      BY <3>1, <3>2
  <2> QED
    BY <1>0, <2>1, <2>2, <2>3, TabTurns
<1>3. ASSUME NEW t \in InFlight(s), Landing(r, s, t)
      PROVE  \E u \in InFlight(s)' : Landing(r, s, u)'
  <2>1. page[s] = r /\ status[s] = "joining" /\ r # NoRoom
    BY <1>3, NoRoomAssumption DEF Landing, Waiting
  <2>2. page'[s] = page[s] /\ status'[s] = status[s] /\ \E v : Sends(s, v)
    BY <1>0, <2>1, TabTurns
  <2> QED
    BY <1>1, <1>3, <2>2 DEF Sends, Landing, Waiting
<1>4. ASSUME NEW t \in InFlight(s), Going(r, s, t)
      PROVE  \E u \in InFlight(s)' : Going(r, s, u)'
  <2>1. \E u \in InFlight(s)' : Alike(t, u)
    BY <1>0, TabAdds
  <2> QED
    BY <1>1, <1>4, <2>1 DEF Alike, Going
<1> QED
  BY <1>2, <1>3, <1>4 DEF Known

\* Every step keeps it.
LEMMA KnownStep ==
    ASSUME "unmount" \notin Faults, "timeout" \notin Faults,
           TypeOK, MoveInv, Unspoken, Asked, Known, [Next]_gatewayVars
    PROVE  Known'
<1> SUFFICES ASSUME NEW s \in up', NEW r \in Rooms, Seated(r, s)', ending'[r] = "open"
             PROVE  Home(r, s)' \/ \E u \in InFlight(s)' : (Landing(r, s, u) \/ Going(r, s, u))'
  BY DEF Known
<1>0. StoreTypeOK /\ HandlersTypeOK
  BY DEF TypeOK, HandlersTypeOK
<1>1. s \in up /\ s \in Sockets /\ ending[r] = "open"
  BY <1>0, Subscribers DEF HandlersTypeOK
<1>2. ASSUME NEW k \in DOMAIN tasks[s], JoinSeat(s, k), tasks[s][k].room = r, HasSeatFor(r, s)
      PROVE  \E u \in InFlight(s)' : Landing(r, s, u)'
  <2> DEFINE t == tasks[s][k]
  <2>1. PICK u \in Task : Turns(s, k, u) /\ SameJob(t, u) /\ u.pc = "settle" /\ t.kind = "join" /\ t.pc = "seat"
    BY <1>0, <1>1, <1>2, TurningSeat DEF JoinFull
  <2>2. t \in InFlight(s) /\ Before(t)
    BY <2>1 DEF InFlight, Before
  <2>3. Waiting(s, t) /\ s \in channel[r]
    BY <1>1, <1>2, <2>1, <2>2 DEF Asked
  <2>4. UNCHANGED <<page, status, channel>>
    BY <1>2 DEF JoinSeat, serverVars, tabVars
  <2> QED
    BY <1>2, <2>1, <2>3, <2>4 DEF Turns, SameJob, Landing, Waiting
<1>3. ASSUME NEW y, Seated(r, s), Spared(s, y), y = NoRoom => status'[s] = status[s],
             y = NoRoom \/ (y \in Rooms /\ (ending[y] # "open" \/ Pending(y, s)))
      PROVE  Home(r, s)' \/ \E u \in InFlight(s)' : (Landing(r, s, u) \/ Going(r, s, u))'
  <2>1. y # r
    BY <1>1, <1>3, SparedRoom
  <2>2. CASE Home(r, s)
    BY <1>3, <2>1, <2>2 DEF Home, Spared
  <2>3. ASSUME NEW t \in InFlight(s), Landing(r, s, t) PROVE t \in InFlight(s)' /\ Landing(r, s, t)'
    BY <1>3, <2>1, <2>3 DEF Landing, Waiting, Spared
  <2>4. ASSUME NEW t \in InFlight(s), Going(r, s, t) PROVE t \in InFlight(s)' /\ Going(r, s, t)'
    BY <1>3, <2>4 DEF Going, Spared
  <2> QED
    BY <1>1, <1>3, <2>2, <2>3, <2>4 DEF Known
<1>4. CASE Seated(r, s)
  <2>1. CASE Spared(s, NoRoom) /\ status'[s] = status[s]
    BY <1>3, <1>4, <2>1
  <2>2. CASE \E y \in Rooms : Spared(s, y) /\ (ending[y] # "open" \/ Pending(y, s))
    BY <1>3, <1>4, <2>2, NoRoomAssumption
  <2>3. CASE TabStep(s)
    BY <1>1, <1>4, <2>3, KnownTab
  <2>4. CASE \E k \in DOMAIN tasks[s] : TaskStep(s, k)
    BY <1>1, <1>4, <2>4, KnownTask
  <2> QED
    BY <2>1, <2>2, <2>3, <2>4, Seen
<1> QED
  BY <1>1, <1>2, <1>4, SeatGained DEF JoinOk

\* What a running process has to free it had to, or has just swept.
LEMMA FreeingSteps ==
    ASSUME HandlersTypeOK, [Next]_gatewayVars, NEW i \in alive', NEW r \in Rooms, NEW s, <<r, s>> \in freeing'[i]
    PROVE  i \in alive /\ (<<r, s>> \in freeing[i] \/ (Sweep(r) /\ s \in TimedOut(r)))
<1> USE DEF HandlersTypeOK
<1>1. CASE \/ \E x \in Sockets : TabStep(x) \/ Disconnect(x)
           \/ UNCHANGED gatewayVars \/ TimePasses \/ \E y \in Rooms : EndRoom(y) \/ EndStep(y)
           \/ \E j \in Instances : Beat(j)
  <2>1. alive' = alive /\ freeing' = freeing
    BY <1>1 DEF TabStep, OpenRoom, Rejoin, CloseRoom, AckTimeout, StartShare, StopShare, serverVars,
       Disconnect, gatewayVars, TimePasses, EndRoom, EndStep, AnnounceEnded, EndedClearScreen, EndedClearRoom, Beat
  <2> QED
    BY <2>1
<1>2. ASSUME NEW x \in Sockets, NEW k \in DOMAIN tasks[x], TaskStep(x, k)
      PROVE  alive' = alive /\ freeing' = freeing
  BY <1>2 DEF TaskStep, JoinStart, JoinLimited, JoinRefused, JoinAdmitted, JoinSubscribe, JoinSeat,
     JoinFreeDead, JoinTurnedAway, JoinDisplace, JoinFreePrevious, JoinRegister, JoinAnswered,
     LeaveStart, LeaveFree, LeaveUnseat, ScreenStart, ScreenClaim, ScreenRelease, serverVars
<1>3. ASSUME NEW j \in Instances, NEW y \in Rooms, SweepRoom(j, y)
      PROVE  i \in alive /\ (<<r, s>> \in freeing[i] \/ (Sweep(r) /\ s \in TimedOut(r)))
  BY <1>3 DEF SweepRoom
<1>4. ASSUME NEW j \in Instances, NEW y \in Rooms, NEW x \in Sockets, SweepFree(j, y, x)
      PROVE  i \in alive /\ <<r, s>> \in freeing[i]
  BY <1>4 DEF SweepFree
<1>5. ASSUME NEW j \in Instances, Crash(j)
      PROVE  i \in alive /\ <<r, s>> \in freeing[i]
  BY <1>5 DEF Crash
<1> QED
  BY <1>1, <1>2, <1>3, <1>4, <1>5 DEF Next, TimerStep

\* A handler's debts are what they were, but for the one that takes a seat.
LEMMA DebtTurns ==
    ASSUME StoreTypeOK, HandlersTypeOK, MoveInv, NEW x \in Sockets, NEW k \in DOMAIN tasks[x], TaskStep(x, k),
           NEW u \in InFlight(x)', u \notin Rest(x, k), ~JoinSeat(x, k)
    PROVE  /\ SameJob(tasks[x][k], u) /\ u.prev \in {tasks[x][k].prev, Nobody}
           /\ u.dead \subseteq tasks[x][k].dead
<1> DEFINE t == tasks[x][k]
<1>1. CASE GoesOn(x, k)
  <2>1. PICK v \in Task : SameBut(t, v) /\ Turns(x, k, v)
    BY <1>1, GoingOn
  <2> QED
    BY <2>1 DEF Turns, SameBut
<1>2. CASE Quits(x, k)
  BY <1>2, Quitting DEF Drops
<1>3. CASE JoinAdmitted(x, k)
  <2>1. PICK v \in Task : Turns(x, k, v) /\ SameJob(t, v) /\ v.prev = t.prev /\ v.dead = t.dead
    BY <1>3, TurningAdmitted
  <2> QED
    BY <2>1 DEF Turns
<1>4. CASE JoinFreeDead(x, k)
  <2>1. PICK v \in Task : Turns(x, k, v) /\ SameJob(t, v) /\ v.prev = t.prev /\ v.dead \subseteq t.dead
    BY <1>4, TurningDead
  <2> QED
    BY <2>1 DEF Turns
<1>5. CASE JoinFreePrevious(x, k)
  <2>1. PICK v \in Task : Turns(x, k, v) /\ SameJob(t, v) /\ v.prev = Nobody /\ v.dead = {}
    BY <1>5, TurningPrevious
  <2> QED
    BY <2>1 DEF Turns
<1>6. CASE LeaveStart(x, k)
  <2>1. Drops(x, k) \/ \E v \in Task : Turns(x, k, v) /\ SameJob(t, v) /\ v.prev = t.prev /\ v.dead = t.dead
    BY <1>6, TurningLeave
  <2> QED
    BY <2>1 DEF Turns, Drops
<1>7. CASE LeaveUnseat(x, k)
  <2>1. Drops(x, k) \/ \E v \in Task : Turns(x, k, v) /\ SameJob(t, v) /\ v.prev = Nobody /\ v.dead = {}
    BY <1>7, TurningUnseat
  <2> QED
    BY <2>1 DEF Turns, Drops
<1> QED
  BY <1>1, <1>2, <1>3, <1>4, <1>5, <1>6, <1>7, TaskCases

\* A debt was there, or has just been found: by a join that takes the seat over,
\* or by whoever prunes the room.
LEMMA Debts ==
    ASSUME TypeOK, MoveInv, [Next]_gatewayVars, NEW r \in Rooms, NEW s \in Sockets, Pending(r, s)'
    PROVE  \/ Pending(r, s)
           \/ \E x \in Sockets : \E k \in DOMAIN tasks[x] :
                 /\ JoinSeat(x, k) /\ tasks[x][k].room = r
                 /\ \/ s \in TimedOut(r)
                    \/ /\ x # s /\ KeptPeers(r)[UserOf[x]] # NoEntry /\ KeptPeers(r)[UserOf[x]].peer = s
                       /\ \E m \in Media : JoinOk(r, x, m)
           \/ Sweep(r) /\ s \in TimedOut(r)
<1>0. StoreTypeOK /\ HandlersTypeOK /\ s # Nobody
  BY NobodyAssumption DEF TypeOK, HandlersTypeOK
<1>1. CASE \E i \in alive' : <<r, s>> \in freeing'[i]
  BY <1>0, <1>1, FreeingSteps DEF Pending
<1>2. ASSUME NEW x \in Sockets, NEW u \in InFlight(x)', u.room = r, u.prev = s \/ s \in u.dead
      PROVE  \/ Pending(r, s)
             \/ \E k \in DOMAIN tasks[x] :
                 /\ JoinSeat(x, k) /\ tasks[x][k].room = r
                 /\ \/ s \in TimedOut(r)
                    \/ /\ x # s /\ KeptPeers(r)[UserOf[x]] # NoEntry /\ KeptPeers(r)[UserOf[x]].peer = s
                       /\ \E m \in Media : JoinOk(r, x, m)
  <2>1. CASE \E t \in InFlight(x) : Alike(t, u)
    BY <1>2, <2>1 DEF Alike, Pending
  <2>2. ASSUME NEW k \in DOMAIN tasks[x], TaskStep(x, k), u \notin Rest(x, k), ~JoinSeat(x, k)
        PROVE  Pending(r, s)
    <3>1. tasks[x][k] \in InFlight(x) /\ tasks[x][k].room = r
          /\ (tasks[x][k].prev = s \/ s \in tasks[x][k].dead)
      BY <1>0, <1>2, <2>2, DebtTurns DEF SameJob, InFlight
    <3> QED
      BY <3>1 DEF Pending
  <2>3. ASSUME NEW k \in DOMAIN tasks[x], u \notin Rest(x, k), JoinSeat(x, k)
        PROVE  /\ tasks[x][k].room = r
               /\ \/ s \in TimedOut(r)
                  \/ /\ x # s /\ KeptPeers(r)[UserOf[x]] # NoEntry /\ KeptPeers(r)[UserOf[x]].peer = s
                     /\ \E m \in Media : JoinOk(r, x, m)
    <3> DEFINE before == KeptPeers(r)[UserOf[x]]
    <3>1. PICK v \in Task :
                 /\ Turns(x, k, v) /\ SameJob(tasks[x][k], v) /\ v.dead = TimedOut(tasks[x][k].room)
                 /\ \/ v.pc = "settle" /\ \E m \in Media : JoinOk(tasks[x][k].room, x, m)
                    \/ v.pc = "full"
                 /\ v.prev = IF v.pc = "full" \/ KeptPeers(tasks[x][k].room)[UserOf[x]] = NoEntry THEN Nobody
                             ELSE IF KeptPeers(tasks[x][k].room)[UserOf[x]].peer = x THEN Nobody
                             ELSE KeptPeers(tasks[x][k].room)[UserOf[x]].peer
      BY <1>0, <2>3, TurningSeat
    <3>2. u = v
      BY <2>3, <3>1 DEF Turns
    <3>3. tasks[x][k].room = r
      BY <1>2, <3>1, <3>2 DEF SameJob
    <3> QED
      BY <1>0, <1>2, <3>1, <3>2, <3>3
  <2>4. ASSUME NEW kind \in {"join", "leave", "claim", "release"}, NEW y \in Rooms, u = NewTask(kind, y)
        PROVE  FALSE
    BY <1>0, <1>2, <2>4, NewTaskIs
  <2>5. ASSUME u.prev = Nobody, u.dead = {} PROVE FALSE
    BY <1>0, <1>2, <2>5
  <2> QED
    BY <2>1, <2>2, <2>3, <2>4, <2>5, TaskFrom
<1> QED
  BY <1>1, <1>2 DEF Pending

\* A tab brings no debts.
LEMMA TabDebts ==
    ASSUME HandlersTypeOK, NEW s \in Sockets, TabStep(s), NEW r \in Rooms, Pending(r, s)'
    PROVE  Pending(r, s)
<1>1. alive' = alive /\ freeing' = freeing
  BY DEF TabStep, OpenRoom, Rejoin, CloseRoom, AckTimeout, StartShare, StopShare, serverVars
<1>2. ASSUME NEW x \in Sockets, NEW u \in InFlight(x)', u.room = r, u.prev = s \/ s \in u.dead
      PROVE  Pending(r, s)
  <2>1. CASE x # s
    BY <1>2, <2>1, TabAdds DEF Elsewhere, Pending
  <2>2. CASE x = s
    <3>1. CASE \E t \in InFlight(s) : Alike(t, u)
      BY <1>2, <3>1 DEF Alike, Pending
    <3>2. ASSUME NEW kind \in {"join", "leave", "claim", "release"}, NEW y \in Rooms, u = NewTask(kind, y)
          PROVE  FALSE
      BY <1>2, <3>2, NewTaskIs, NobodyAssumption
    <3> QED
      BY <2>2, <3>1, <3>2, TabAdds
  <2> QED
    BY <2>1, <2>2
<1> QED
  BY <1>1, <1>2 DEF Pending

\* Whom somebody is found to owe loses the seat in the same script.
LEMMA DebtUnseats ==
    ASSUME TypeOK, MoveInv, OwnSeats, Known, [Next]_gatewayVars, NEW r \in Rooms, NEW s \in up,
           ending[r] = "open", Pending(r, s)', ~Pending(r, s)
    PROVE  Seated(r, s) /\ ~Seated(r, s)'
<1>0. /\ StoreTypeOK /\ HandlersTypeOK /\ s \in Sockets /\ UserOf[s] \in Users
      /\ peers \in [Rooms -> [Users -> Participant \cup {NoEntry}]]
      /\ KeptPeers(r) \in [Users -> Participant \cup {NoEntry}]
  <2>1. StoreTypeOK /\ HandlersTypeOK /\ s \in Sockets /\ UserOf[s] \in Users
    BY UserOfAssumption DEF TypeOK, HandlersTypeOK
  <2> QED
    BY <2>1, KeptTypes DEF StoreTypeOK, PresenceTypeOK
<1>1. CASE Sweep(r) /\ s \in TimedOut(r)
  <2>1. Seated(r, s) /\ KeptPeers(r)[UserOf[s]] = NoEntry
    BY <1>0, <1>1, TimedOutSeated
  <2>2. peers'[r][UserOf[s]] = NoEntry
    BY <1>0, <1>1, <2>1 DEF Sweep
  <2> QED
    BY <2>1, <2>2 DEF Seated
<1>2. ASSUME NEW x \in Sockets, NEW k \in DOMAIN tasks[x], JoinSeat(x, k), tasks[x][k].room = r,
             s \in TimedOut(r)
      PROVE  Seated(r, s) /\ ~Seated(r, s)'
  <2>1. Seated(r, s) /\ KeptPeers(r)[UserOf[s]] = NoEntry
    BY <1>0, <1>2, TimedOutSeated
  <2>2. x # s
    <3>1. Before(tasks[x][k]) /\ tasks[x][k] \in InFlight(x)
      BY <1>0, <1>2, TurningSeat DEF InFlight, Before
    <3> QED
      BY <1>0, <2>1, <3>1, Unseated
  <2>3. CASE JoinFull(r, x)
    BY <1>0, <2>1, <2>3 DEF JoinFull, Seated
  <2>4. ASSUME NEW m \in Media, JoinOk(r, x, m) PROVE ~Seated(r, s)'
    <3>1. peers'[r][UserOf[s]] = IF UserOf[x] = UserOf[s] THEN [peer |-> x, media |-> m] ELSE NoEntry
      BY <1>0, <2>1, <2>4, UserOfAssumption DEF JoinOk
    <3> QED
      BY <2>2, <3>1 DEF Seated
  <2> QED
    BY <1>2, <2>1, <2>3, <2>4 DEF JoinSeat
<1>3. ASSUME NEW x \in Sockets, x # s, KeptPeers(r)[UserOf[x]] # NoEntry, KeptPeers(r)[UserOf[x]].peer = s,
             NEW m \in Media, JoinOk(r, x, m)
      PROVE  Seated(r, s) /\ ~Seated(r, s)'
  <2>1. peers[r][UserOf[x]] # NoEntry /\ peers[r][UserOf[x]].peer = s /\ UserOf[x] \in Users
    BY <1>3, UserOfAssumption DEF KeptPeers
  <2>2. UserOf[s] = UserOf[x]
    BY <2>1 DEF OwnSeats
  <2>3. peers'[r][UserOf[s]] = [peer |-> x, media |-> m]
    BY <1>0, <1>3, <2>2 DEF JoinOk
  <2> QED
    BY <1>3, <2>1, <2>2, <2>3 DEF Seated
<1> QED
  BY <1>0, <1>1, <1>2, <1>3, Debts

\* Every step keeps it: whoever is put out has lost the seat in that very script.
LEMMA UnspokenStep ==
    ASSUME "overtake" \notin Faults, TypeOK, MoveInv, OwnSeats, Unspoken, Known, [Next]_gatewayVars
    PROVE  Unspoken'
<1> SUFFICES ASSUME NEW s \in up', NEW r \in Rooms, ending'[r] = "open", Seated(r, s)' \/ Arriving(r, s)',
                    Pending(r, s)'
             PROVE  FALSE
  BY DEF Unspoken
<1>0. StoreTypeOK /\ HandlersTypeOK
  BY DEF TypeOK, HandlersTypeOK
<1>1. s \in up /\ s \in Sockets /\ ending[r] = "open"
  BY <1>0, Subscribers DEF HandlersTypeOK
<1>2. ASSUME NEW k \in DOMAIN tasks[s], JoinSeat(s, k), tasks[s][k].room = r
      PROVE  Arriving(r, s)
  BY <1>0, <1>1, <1>2, TurningSeat DEF Arriving, InFlight, Before
<1>3. Seated(r, s)' => Seated(r, s) \/ Arriving(r, s)
  BY <1>1, <1>2, SeatGained
<1>4. ASSUME NEW u \in InFlight(s)', Before(u), u.room = r, ~TabStep(s)
      PROVE  Arriving(r, s)
  <2>1. CASE \E t \in InFlight(s) : Alike(t, u)
    BY <1>4, <2>1 DEF Alike, Arriving, Before
  <2>2. ASSUME NEW k \in DOMAIN tasks[s], TaskStep(s, k), u \notin Rest(s, k)
        PROVE  Arriving(r, s)
    <3>1. Before(tasks[s][k]) /\ SameJob(tasks[s][k], u)
      BY <1>0, <1>1, <1>4, <2>2, BeforeTurns
    <3> QED
      BY <1>4, <3>1 DEF Arriving, InFlight, SameJob
  <2> QED
    BY <1>1, <1>4, <2>1, <2>2, TaskFrom DEF Before
<1>5. CASE TabStep(s)
  <2>1. Pending(r, s)
    BY <1>0, <1>1, <1>5, TabDebts
  <2>2. ~Seated(r, s) /\ ~Arriving(r, s)
    BY <1>1, <2>1 DEF Unspoken
  <2>3. PICK u \in InFlight(s)' : Before(u) /\ u.room = r
    BY <1>3, <2>2 DEF Arriving
  <2>4. ~\E t \in InFlight(s) : Alike(t, u)
    BY <2>2, <2>3 DEF Arriving, Alike, Before
  <2>5. CanJoin(s)
    <3>1. PICK kind \in {"join", "leave", "claim", "release"}, y \in Rooms :
             u = NewTask(kind, y) /\ (kind = "join" => CanJoin(s))
      BY <1>0, <1>1, <1>5, <2>4, TabAdds
    <3> QED
      BY <2>3, <3>1, NewTaskIs DEF Before
  <2>6. ~Pending(r, s)
    BY <2>5 DEF CanJoin, PutOut, Pending, InFlight
  <2> QED
    BY <2>1, <2>6
<1>6. CASE ~TabStep(s)
  <2>1. Seated(r, s) \/ Arriving(r, s)
    BY <1>3, <1>4, <1>6 DEF Arriving
  <2>2. ~Pending(r, s)
    BY <1>1, <2>1 DEF Unspoken
  <2>3. Seated(r, s) /\ ~Seated(r, s)'
    BY <1>1, <2>2, DebtUnseats
  <2>4. PICK u \in InFlight(s)' : Before(u) /\ u.room = r
    BY <2>3 DEF Arriving
  <2>5. Arriving(r, s)
    BY <1>4, <1>6, <2>4
  <2> QED
    BY <1>0, <1>1, <2>3, <2>5, Unseated DEF Arriving
<1> QED
  BY <1>5, <1>6

SeatInv == OwnSeats /\ Unspoken /\ Asked /\ Known

\* It holds at first.
LEMMA SeatStarts == Init => SeatInv
<1> SUFFICES ASSUME Init PROVE SeatInv
  OBVIOUS
<1>1. \A s \in Sockets : InFlight(s) = {}
  BY DEF Init, InFlight
<1>2. /\ \A r \in Rooms, s \in Sockets : ~Seated(r, s)
      /\ \A r \in Rooms, u \in Users : peers[r][u] = NoEntry
  BY UserOfAssumption DEF Init, StoreInit, PresenceInit, Seated
<1>3. up = Sockets
  BY DEF Init
<1> QED
  BY <1>1, <1>2, <1>3 DEF SeatInv, OwnSeats, Unspoken, Asked, Known, Arriving

\* It holds throughout.
LEMMA SeatAlways ==
    ASSUME "overtake" \notin Faults, "unmount" \notin Faults, "timeout" \notin Faults
    PROVE  Spec => []SeatInv
<1>1. TypeOK /\ MoveInv /\ SeatInv /\ [Next]_gatewayVars => SeatInv'
  BY OwnStep, UnspokenStep, AskedStep, KnownStep DEF SeatInv
<1> QED
  BY <1>1, SeatStarts, GatewayTypes, MoveAlways, PTL DEF Spec

\* A seat is somebody's: once everything has settled, the seat of a connected
\* socket is known to its process, hears the room, and its tab shows it, joined,
\* if tabs neither give up waiting for a join nor overtake their handlers.
THEOREM SeatsAreSomebodys ==
    ASSUME "overtake" \notin Faults, "unmount" \notin Faults, "timeout" \notin Faults
    PROVE  Spec => []SeatedIn
<1>1. TypeOK /\ SeatInv => SeatedIn
  <2> SUFFICES ASSUME TypeOK, SeatInv, Quiescent, NEW r \in Rooms, NEW s \in up, Seated(r, s), ending[r] = "open"
               PROVE  s \in channel[r] /\ roomSlug[s] = r /\ page[s] = r /\ status[s] = "joined"
    BY DEF SeatedIn
  <2>1. InFlight(s) = {}
    BY DEF Quiescent, InFlight, TypeOK
  <2> QED
    BY <2>1 DEF SeatInv, Known, Home
<1> QED
  BY <1>1, SeatAlways, GatewayTypes, PTL

-----------------------------------------------------------------------------
(* Who presents holds the slot (room.gateway.ts:251, screen-lock.ts:29).   *)

\* A tab's claims and releases of the slot are handled in turn: there is one claim at a
\* time, and what was released before it is sent to Redis before it.
Ordered(s) ==
    \A j, k \in DOMAIN tasks[s] : tasks[s][k].kind = "claim" =>
        /\ tasks[s][j].kind = "claim" => j = k
        /\ tasks[s][j].kind = "release" =>
              /\ tasks[s][k].pc = "claim" => j < k /\ tasks[s][j].pc = "release"
              /\ tasks[s][j].pc = "start" => j < k

Screening(t) == t.kind \in {"claim", "release"}

\* A queue stays in order when a task ends,
LEMMA OrderedEnds ==
    ASSUME NEW s, NEW k, NEW f, NEW g, Ends(s, k, f, g), Ordered(s)
    PROVE  Ordered(s)'
<1> DEFINE D == DOMAIN tasks[s]
           E == DOMAIN tasks'[s]
<1>1. \A a \in E : f[a] \in D /\ f[a] \in D \ {k} /\ g[f[a]] = a /\ tasks'[s][a] = tasks[s][f[a]]
  BY DEF Ends
<1>2. \A i, j \in D \ {k} : i < j => g[i] < g[j]
  BY DEF Ends
<1> SUFFICES ASSUME NEW a \in E, NEW b \in E, tasks'[s][b].kind = "claim"
             PROVE  /\ tasks'[s][a].kind = "claim" => a = b
                    /\ tasks'[s][a].kind = "release" =>
                          /\ tasks'[s][b].pc = "claim" => a < b /\ tasks'[s][a].pc = "release"
                          /\ tasks'[s][a].pc = "start" => a < b
  BY DEF Ordered
<1>3. PICK i \in D : i = f[a] /\ i \in D \ {k} /\ g[i] = a /\ tasks'[s][a] = tasks[s][i]
  BY <1>1
<1>4. PICK j \in D : j = f[b] /\ j \in D \ {k} /\ g[j] = b /\ tasks'[s][b] = tasks[s][j]
  BY <1>1
<1>5. /\ tasks[s][i].kind = "claim" => i = j
      /\ tasks[s][i].kind = "release" =>
              /\ tasks[s][j].pc = "claim" => i < j /\ tasks[s][i].pc = "release"
              /\ tasks[s][i].pc = "start" => i < j
  BY <1>4 DEF Ordered
<1>6. i < j => a < b
  BY <1>2, <1>3, <1>4
<1> QED
  BY <1>3, <1>4, <1>5, <1>6

\* when one moves on,
LEMMA OrderedMoves ==
    ASSUME tasks \in [Sockets -> Seq(Task)], NEW s \in Sockets, NEW k \in DOMAIN tasks[s],
           NEW u, NEW f, NEW g, Moves(s, k, u, f, g), Ordered(s), Shape(tasks[s][k]),
           u.kind = tasks[s][k].kind,
           Screening(u) => /\ u.pc = u.kind /\ tasks[s][k].pc = "start"
                           /\ \A j \in 1 .. k - 1 : tasks[s][j].pc # "start",
           \A j \in DOMAIN tasks[s] : Shape(tasks[s][j])
    PROVE  Ordered(s)'
<1> DEFINE D == DOMAIN tasks[s]
           n == Len(tasks[s])
<1>0. D = 1 .. n /\ n \in Nat /\ k \in D
  OBVIOUS
<1>1. /\ DOMAIN tasks'[s] = D
      /\ \A a \in D : f[a] \in D /\ g[f[a]] = a
      /\ \A i \in D : g[i] \in D
  BY DEF Moves
<1>2. /\ tasks'[s][g[k]] = u
      /\ \A i \in D \ {k} : tasks'[s][g[i]] = tasks[s][i]
      /\ \A i, j \in D \ {k} : i < j => g[i] < g[j]
      /\ \A i, j \in D : g[i] = g[j] => i = j
  BY DEF Moves
<1>3. Waits(u) => g[k] = n
  BY DEF Moves
<1>4. ~Waits(u) => g = [i \in D |-> i]
  BY DEF Moves
<1> HIDE DEF D, n
<1> SUFFICES ASSUME NEW i \in D, NEW j \in D, tasks'[s][g[j]].kind = "claim"
             PROVE  /\ tasks'[s][g[i]].kind = "claim" => g[i] = g[j]
                    /\ tasks'[s][g[i]].kind = "release" =>
                          /\ tasks'[s][g[j]].pc = "claim" => g[i] < g[j] /\ tasks'[s][g[i]].pc = "release"
                          /\ tasks'[s][g[i]].pc = "start" => g[i] < g[j]
  <2>1. ASSUME NEW a \in D, NEW b \in D, tasks'[s][b].kind = "claim"
        PROVE  /\ tasks'[s][a].kind = "claim" => a = b
               /\ tasks'[s][a].kind = "release" =>
                     /\ tasks'[s][b].pc = "claim" => a < b /\ tasks'[s][a].pc = "release"
                     /\ tasks'[s][a].pc = "start" => a < b
    <3>1. PICK i \in D : g[i] = a
      BY <1>1
    <3>2. PICK j \in D : g[j] = b
      BY <1>1
    <3> QED
      BY <2>1, <3>1, <3>2
  <2> QED
    BY <1>1, <2>1 DEF Ordered
<1>5. \A x, y \in D : tasks[s][y].kind = "claim" =>
        /\ tasks[s][x].kind = "claim" => x = y
        /\ tasks[s][x].kind = "release" =>
              /\ tasks[s][y].pc = "claim" => x < y /\ tasks[s][x].pc = "release"
              /\ tasks[s][x].pc = "start" => x < y
  BY DEF Ordered, D
<1>6. CASE i # k /\ j # k
  BY <1>2, <1>5, <1>6
<1>7. CASE i = k /\ j = k
  <2>1. tasks'[s][g[i]] = u /\ tasks'[s][g[j]] = u
    BY <1>2, <1>7
  <2> QED
    BY <1>7, <2>1
<1>8. CASE i = k /\ j # k
  <2>1. tasks'[s][g[i]] = u /\ tasks'[s][g[j]] = tasks[s][j]
    BY <1>2, <1>8
  <2>2. u.kind # "claim"
    BY <1>5, <1>8, <2>1
  <2>3. u.kind = "release" => u.pc = "release" /\ tasks[s][j].pc # "claim"
    BY <1>5, <1>8, <2>1 DEF Screening
  <2> QED
    BY <2>1, <2>2, <2>3
<1>9. CASE i # k /\ j = k
  <2>1. tasks'[s][g[i]] = tasks[s][i] /\ tasks'[s][g[j]] = u /\ tasks[s][k].kind = "claim"
    BY <1>2, <1>9
  <2>2. tasks[s][i].kind # "claim"
    BY <1>5, <1>9, <2>1
  <2>3. u.pc = "claim" /\ Waits(u)
    BY <2>1 DEF Screening, Waits
  <2>4. g[i] < g[j]
    <3>1. g[i] # g[j] /\ g[j] = n /\ g[i] \in 1 .. n
      BY <1>0, <1>1, <1>2, <1>3, <1>9, <2>3
    <3> QED
      BY <1>0, <3>1
  <2>5. tasks[s][i].kind = "release" => tasks[s][i].pc = "release"
    <3>1. ASSUME tasks[s][i].kind = "release", tasks[s][i].pc = "start" PROVE FALSE
      <4>1. i < k
        BY <1>0, <1>5, <2>1, <3>1
      <4>2. i \in 1 .. k - 1
        BY <1>0, <4>1
      <4> QED
        BY <2>1, <3>1, <4>2 DEF Screening
    <3> QED
      BY <3>1 DEF Shape, D
  <2> QED
    BY <2>1, <2>2, <2>4, <2>5
<1> QED
  BY <1>6, <1>7, <1>8, <1>9

\* and when the tab asks for more, as it does.
LEMMA OrderedAsks ==
    ASSUME tasks \in [Sockets -> Seq(Task)], NEW s \in Sockets, NEW v, NEW more, Asks(s, v, more),
           more \in BOOLEAN, Ordered(s),
           more /\ Screening(v) => /\ v.pc = "start"
                                   /\ \A j \in DOMAIN tasks[s] : tasks[s][j].kind # "claim"
    PROVE  Ordered(s)'
<1> DEFINE D == DOMAIN tasks[s]
           n == Len(tasks[s])
<1>0. D = 1 .. n /\ n \in Nat
  OBVIOUS
<1>1. /\ DOMAIN tasks'[s] = IF more THEN 1 .. n + 1 ELSE D
      /\ \A j \in D : tasks'[s][j].kind = tasks[s][j].kind /\ tasks'[s][j].pc = tasks[s][j].pc
      /\ more => tasks'[s][n + 1] = v
  BY DEF Asks
<1>2. \A x, y \in D : tasks[s][y].kind = "claim" =>
        /\ tasks[s][x].kind = "claim" => x = y
        /\ tasks[s][x].kind = "release" =>
              /\ tasks[s][y].pc = "claim" => x < y /\ tasks[s][x].pc = "release"
              /\ tasks[s][x].pc = "start" => x < y
  BY DEF Ordered
<1> HIDE DEF D, n
<1> SUFFICES ASSUME NEW a \in DOMAIN tasks'[s], NEW b \in DOMAIN tasks'[s], tasks'[s][b].kind = "claim"
             PROVE  /\ tasks'[s][a].kind = "claim" => a = b
                    /\ tasks'[s][a].kind = "release" =>
                          /\ tasks'[s][b].pc = "claim" => a < b /\ tasks'[s][a].pc = "release"
                          /\ tasks'[s][a].pc = "start" => a < b
  BY DEF Ordered
<1>3. CASE a \in D /\ b \in D
  BY <1>1, <1>2, <1>3
<1>4. CASE a \notin D \/ b \notin D
  <2>1. more /\ (a = n + 1 \/ b = n + 1) /\ (a = n + 1 \/ a \in D) /\ (b = n + 1 \/ b \in D)
    BY <1>0, <1>1, <1>4
  <2>2. CASE b = n + 1
    <3>1. v.kind = "claim" /\ v.pc = "start" /\ \A j \in D : tasks[s][j].kind # "claim"
      BY <1>1, <2>1, <2>2 DEF Screening, D
    <3>2. CASE a = n + 1
      BY <1>1, <2>1, <2>2, <3>1, <3>2
    <3>3. CASE a \in D
      <4>1. a < b
        BY <1>0, <2>2, <3>3
      <4> QED
        BY <1>1, <2>1, <2>2, <3>1, <3>3, <4>1
    <3> QED
      BY <2>1, <3>2, <3>3
  <2>3. CASE b # n + 1
    <3>1. a = n + 1 /\ b \in D /\ tasks[s][b].kind = "claim" /\ tasks'[s][a] = v
      BY <1>1, <2>1, <2>3
    <3>2. ~Screening(v)
      BY <2>1, <3>1 DEF D
    <3> QED
      BY <3>1, <3>2 DEF Screening
  <2> QED
    BY <2>2, <2>3
<1> QED
  BY <1>3, <1>4

\* A task ends, or moves on as what it is; a claim or release moves on to the
\* command it sends.
LEMMA TaskQueue ==
    ASSUME StoreTypeOK, HandlersTypeOK, MoveInv, NEW s \in Sockets, NEW k \in DOMAIN tasks[s], TaskStep(s, k)
    PROVE  \/ Finish(s, k)
           \/ \E u \in Task :
                 /\ Goto(s, k, u) /\ u.kind = tasks[s][k].kind
                 /\ Screening(u) => Runs(s, k, "start") /\ u.pc = u.kind
<1> DEFINE t == tasks[s][k]
<1>0. t \in Task /\ Shape(t)
  BY TaskMoves DEF HandlersTypeOK, MoveInv, Shapes
<1>1. ASSUME NEW pc \in {"start", "limit", "admit", "free", "unseat", "subscribe", "seat", "full",
                       "settle", "freePrevious", "register", "answer", "claim", "release"},
             GotoPc(s, k, pc)
      PROVE  \E u \in Task : Goto(s, k, u) /\ u.kind = t.kind /\ u.pc = pc
  <2> DEFINE u == At(t, pc)
  <2>1. u \in Task /\ u.pc = pc /\ u.kind = t.kind
    BY <1>0, AtPc
  <2>2. Goto(s, k, u)
    BY <1>1 DEF GotoPc, At
  <2> QED
    BY <2>1, <2>2
<1>10. CASE ~Moving(t)
  <2>1. ScreenStart(s, k) \/ ScreenClaim(s, k) \/ ScreenRelease(s, k)
    BY <1>10, ScreenTurns
  <2>2. CASE GotoPc(s, k, t.kind) /\ ScreenStart(s, k)
    <3>1. Runs(s, k, "start") /\ t.kind \in {"claim", "release"}
      BY <2>2 DEF ScreenStart
    <3>2. PICK u \in Task : Goto(s, k, u) /\ u.kind = t.kind /\ u.pc = t.kind
      BY <1>1, <2>2, <3>1
    <3> QED
      BY <3>1, <3>2
  <2> QED
    BY <2>1, <2>2 DEF ScreenStart, ScreenClaim, ScreenRelease
<1>2. CASE GoesOn(s, k) /\ Moving(t)
  <2>2. ~ScreenStart(s, k)
    BY <1>2 DEF ScreenStart, Moving
  <2>3. \/ GotoPc(s, k, "limit") \/ GotoPc(s, k, "admit") \/ GotoPc(s, k, "seat")
        \/ GotoPc(s, k, "freePrevious") \/ GotoPc(s, k, "answer") \/ GotoPc(s, k, "unseat")
    BY <1>2, <2>2 DEF GoesOn, JoinStart, JoinSubscribe, JoinDisplace, JoinRegister, LeaveFree
  <2>4. PICK u \in Task : Goto(s, k, u) /\ u.kind = t.kind
    BY <1>1, <2>3
  <2> QED
    BY <1>2, <2>4 DEF Screening, Moving
<1>3. CASE Quits(s, k)
  BY <1>3 DEF Quits, JoinRefused, JoinTurnedAway, JoinAnswered, ScreenStart, ScreenClaim, ScreenRelease
<1>4. CASE JoinAdmitted(s, k)
  <2>0. t.kind = "join"
    BY <1>4, TurningAdmitted
  <2>1. CASE roomSlug[s] \in {NoRoom, t.room}
    <3>1. GotoPc(s, k, "subscribe")
      BY <1>4, <2>1 DEF JoinAdmitted
    <3> QED
      BY <1>1, <2>0, <3>1 DEF Screening
  <2>2. CASE roomSlug[s] \notin {NoRoom, t.room}
    <3> DEFINE u == [t EXCEPT !.pc = "free", !.leaving = roomSlug[s]]
    <3>1. u \in Task /\ u.kind = t.kind
      BY <1>0 DEF Task, HandlersTypeOK
    <3>2. Goto(s, k, u)
      BY <1>4, <2>2 DEF JoinAdmitted
    <3> HIDE DEF u
    <3> QED
      BY <2>0, <3>1, <3>2 DEF Screening
  <2> QED
    BY <2>1, <2>2
<1>5. CASE JoinSeat(s, k)
  <2> DEFINE r == t.room
             before == KeptPeers(r)[UserOf[s]]
             prev == IF before = NoEntry \/ before.peer = s THEN Nobody ELSE before.peer
  <2>0. t.kind = "join" /\ r \in Rooms
    BY <1>5, TurningSeat
  <2>1. TimedOut(r) \in SUBSET Sockets
    BY <2>0 DEF TimedOut, Listed, StoreTypeOK, PresenceTypeOK, Participant
  <2>2. prev \in Sockets \cup {Nobody}
    <3>1. before \in Participant \cup {NoEntry}
      BY <2>0, KeptTypes, UserOfAssumption DEF StoreTypeOK
    <3> QED
      BY <3>1 DEF Participant
  <2>3. CASE Goto(s, k, [t EXCEPT !.pc = "settle", !.dead = TimedOut(r), !.prev = prev])
    <3> DEFINE u == [t EXCEPT !.pc = "settle", !.dead = TimedOut(r), !.prev = prev]
    <3>1. u \in Task /\ u.kind = t.kind
      BY <1>0, <2>1, <2>2 DEF Task
    <3>2. Goto(s, k, u)
      BY <2>3
    <3> HIDE DEF u
    <3> QED
      BY <2>0, <3>1, <3>2 DEF Screening
  <2>4. CASE Goto(s, k, [t EXCEPT !.pc = "full", !.dead = TimedOut(r)])
    <3> DEFINE u == [t EXCEPT !.pc = "full", !.dead = TimedOut(r)]
    <3>1. u \in Task /\ u.kind = t.kind
      BY <1>0, <2>1 DEF Task
    <3>2. Goto(s, k, u)
      BY <2>4
    <3> HIDE DEF u
    <3> QED
      BY <2>0, <3>1, <3>2 DEF Screening
  <2> QED
    BY <1>5, <2>3, <2>4 DEF JoinSeat
<1>6. CASE JoinFreeDead(s, k)
  <2>0. t.kind = "join"
    BY <1>6, TurningDead
  <2>1. PICK d \in t.dead : Goto(s, k, [t EXCEPT !.dead = @ \ {d}])
    BY <1>6 DEF JoinFreeDead
  <2> DEFINE u == [t EXCEPT !.dead = @ \ {d}]
  <2>2. u \in Task /\ u.kind = t.kind
    BY <1>0 DEF Task
  <2>3. Goto(s, k, u)
    BY <2>1
  <2> HIDE DEF u
  <2> QED
    BY <2>0, <2>2, <2>3 DEF Screening
<1>7. CASE JoinFreePrevious(s, k)
  <2>0. t.kind = "join"
    BY <1>7, TurningPrevious
  <2> DEFINE u == [t EXCEPT !.pc = "register", !.prev = Nobody]
  <2>2. u \in Task /\ u.kind = t.kind
    BY <1>0 DEF Task
  <2>3. Goto(s, k, u)
    BY <1>7 DEF JoinFreePrevious
  <2> HIDE DEF u
  <2> QED
    BY <2>0, <2>2, <2>3 DEF Screening
<1>8. CASE LeaveStart(s, k)
  <2>0. t.kind = "leave"
    BY <1>8 DEF LeaveStart
  <2> DEFINE u == [t EXCEPT !.pc = "free", !.leaving = t.room]
  <2>2. u \in Task /\ u.kind = t.kind
    BY <1>0 DEF Task
  <2>3. Goto(s, k, u) \/ Finish(s, k)
    BY <1>8 DEF LeaveStart
  <2> HIDE DEF u
  <2> QED
    BY <2>0, <2>2, <2>3 DEF Screening
<1>9. CASE LeaveUnseat(s, k)
  <2>0. t.kind \in {"join", "leave"}
    BY <1>9, TurningUnseat
  <2> DEFINE u == [t EXCEPT !.pc = "subscribe", !.leaving = NoRoom]
  <2>2. u \in Task /\ u.kind = t.kind
    BY <1>0 DEF Task
  <2>3. Goto(s, k, u) \/ Finish(s, k)
    BY <1>9 DEF LeaveUnseat
  <2> HIDE DEF u
  <2> QED
    BY <2>0, <2>2, <2>3 DEF Screening
<1> QED
  BY <1>2, <1>3, <1>4, <1>5, <1>6, <1>7, <1>8, <1>9, <1>10, TaskCases

\* What a task of another socket does leaves a queue alone.
LEMMA OtherQueues ==
    ASSUME StoreTypeOK, HandlersTypeOK, MoveInv, NEW x \in Sockets, NEW k \in DOMAIN tasks[x], TaskStep(x, k),
           NEW s \in Sockets, s # x
    PROVE  tasks'[s] = tasks[s]
<1>0. tasks \in [Sockets -> Seq(Task)]
  BY DEF HandlersTypeOK
<1>1. CASE Finish(x, k)
  BY <1>0, <1>1, FinishEnds
<1>2. ASSUME NEW u \in Task, Goto(x, k, u) PROVE tasks'[s] = tasks[s]
  BY <1>0, <1>2, GotoMoves
<1> QED
  BY <1>1, <1>2, TaskQueue

\* A task that moves on or ends leaves the others in order.
LEMMA OrderedTask ==
    ASSUME StoreTypeOK, HandlersTypeOK, MoveInv, NEW s \in Sockets, NEW k \in DOMAIN tasks[s], TaskStep(s, k),
           Ordered(s)
    PROVE  Ordered(s)'
<1>0. tasks \in [Sockets -> Seq(Task)] /\ \A j \in DOMAIN tasks[s] : Shape(tasks[s][j])
  BY DEF HandlersTypeOK, MoveInv, Shapes
<1>1. CASE Finish(s, k)
  <2>1. PICK f, g : Ends(s, k, f, g)
    BY <1>0, <1>1, FinishEnds
  <2> QED
    BY <2>1, OrderedEnds
<1>2. ASSUME NEW u \in Task, Goto(s, k, u), u.kind = tasks[s][k].kind,
             Screening(u) => Runs(s, k, "start") /\ u.pc = u.kind
      PROVE  Ordered(s)'
  <2>1. PICK f, g : Moves(s, k, u, f, g)
    BY <1>0, <1>2, GotoMoves
  <2>2. Screening(u) => /\ u.pc = u.kind /\ tasks[s][k].pc = "start"
                        /\ \A j \in 1 .. k - 1 : tasks[s][j].pc # "start"
    BY <1>2 DEF Runs
  <2> QED
    BY <1>0, <1>2, <2>1, <2>2, OrderedMoves
<1> QED
  BY <1>1, <1>2, TaskQueue

\* The queue of every connected socket is in order.
InTurn == \A s \in up : Ordered(s)

\* A tab that presents shows a room, joined, and has nothing in flight.
Sharing == \A s \in presenting :
    s \in up /\ status[s] = "joined" /\ page[s] # NoRoom /\ InFlight(s) = {}

\* What a tab waits for the slot of is the room it shows.
Wanted == \A s \in up : \A t \in InFlight(s) : t.kind = "claim" /\ t.mine => page[s] = t.room

\* A socket's queue is changed by its own tab and handlers only, while it is connected.
LEMMA QueueSteps ==
    ASSUME TypeOK, MoveInv, [Next]_gatewayVars, NEW s \in up'
    PROVE  tasks'[s] = tasks[s] \/ TabStep(s) \/ \E k \in DOMAIN tasks[s] : TaskStep(s, k)
<1>0. StoreTypeOK /\ HandlersTypeOK /\ s \in Sockets /\ s \in up /\ tasks \in [Sockets -> Seq(Task)]
  BY Subscribers DEF TypeOK, HandlersTypeOK
<1>1. ASSUME NEW x \in Sockets \ {s}, TabStep(x) PROVE tasks'[s] = tasks[s]
  BY <1>0, <1>1 DEF TabStep, OpenRoom, Rejoin, CloseRoom, AckTimeout, StartShare, StopShare, Send
<1>2. ASSUME NEW x \in Sockets, Disconnect(x) PROVE tasks'[s] = tasks[s]
  BY <1>0, <1>2 DEF Disconnect
<1>3. ASSUME NEW i \in Instances, Crash(i) PROVE tasks'[s] = tasks[s]
  BY <1>0, <1>3 DEF Crash
<1>4. ASSUME UNCHANGED gatewayVars \/ TimePasses \/ \E i \in Instances : TimerStep(i)
      PROVE  tasks'[s] = tasks[s]
  BY <1>4 DEF TimerStep, Beat, SweepRoom, SweepFree, TimePasses, gatewayVars
<1>5. ASSUME NEW y \in Rooms, EndRoom(y) \/ EndStep(y) PROVE tasks'[s] = tasks[s]
  BY <1>5 DEF EndRoom, EndStep, AnnounceEnded, EndedClearScreen, EndedClearRoom
<1> QED
  BY <1>0, <1>1, <1>2, <1>3, <1>4, <1>5, OtherQueues DEF Next

\* The tab keeps its queue in order.
LEMMA OrderedTab ==
    ASSUME HandlersTypeOK, Sharing, NEW s \in Sockets, TabStep(s), Ordered(s)
    PROVE  Ordered(s)'
<1>0. tasks \in [Sockets -> Seq(Task)] /\ page[s] \in Rooms \cup {NoRoom}
  BY DEF HandlersTypeOK
<1>1. ASSUME NEW r \in Rooms, NEW kind \in {"join", "claim", "release"}, Send(s, NewTask(kind, r)),
             kind # "join" => \A j \in DOMAIN tasks[s] : tasks[s][j].kind # "claim"
      PROVE  Ordered(s)'
  <2> DEFINE v == NewTask(kind, r)
  <2>1. v \in Task /\ v.kind = kind /\ v.pc = "start"
    BY NewTaskIs
  <2>2. Asks(s, v, TRUE)
    BY <1>0, <1>1, <2>1, SendAsks
  <2> HIDE DEF v
  <2> QED
    BY <1>0, <1>1, <2>1, <2>2, OrderedAsks DEF Screening
<1>2. ASSUME tasks' = [tasks EXCEPT ![s] = Forget(@)] PROVE Ordered(s)'
  <2>1. Asks(s, NoRoom, FALSE)
    BY <1>0, <1>2, ForgetAsks
  <2> QED
    BY <1>0, <2>1, OrderedAsks
<1>3. ASSUME NEW r \in Rooms, tasks' = [tasks EXCEPT ![s] = Append(Forget(@), NewTask("leave", r))]
      PROVE  Ordered(s)'
  <2> DEFINE v == NewTask("leave", r)
  <2>1. v \in Task /\ v.kind = "leave"
    BY NewTaskIs
  <2>2. Asks(s, v, TRUE)
    BY <1>0, <1>3, <2>1, ForgetAsks
  <2> HIDE DEF v
  <2> QED
    BY <1>0, <2>1, <2>2, OrderedAsks DEF Screening
<1>4. CASE (\E r \in Rooms : OpenRoom(s, r)) \/ Rejoin(s)
  BY <1>0, <1>1, <1>4 DEF OpenRoom, Rejoin
<1>5. CASE CloseRoom(s) \/ AckTimeout(s)
  BY <1>0, <1>2, <1>3, <1>5 DEF CloseRoom, AckTimeout
<1>6. CASE StartShare(s)
  BY <1>0, <1>1, <1>6 DEF StartShare
<1>7. CASE StopShare(s)
  <2>1. \A j \in DOMAIN tasks[s] : tasks[s][j] \in InFlight(s) /\ InFlight(s) = {}
    BY <1>7 DEF StopShare, Sharing, InFlight
  <2> QED
    BY <1>0, <1>1, <1>7, <2>1 DEF StopShare
<1> QED
  BY <1>4, <1>5, <1>6, <1>7 DEF TabStep

\* Every step keeps the queues of connected sockets in order.
LEMMA InTurnStep ==
    ASSUME TypeOK, MoveInv, Sharing, InTurn, [Next]_gatewayVars
    PROVE  InTurn'
<1> SUFFICES ASSUME NEW s \in up' PROVE Ordered(s)'
  BY DEF InTurn
<1>0. StoreTypeOK /\ HandlersTypeOK /\ s \in Sockets /\ s \in up /\ Ordered(s)
  BY Subscribers DEF TypeOK, HandlersTypeOK, InTurn
<1>1. CASE tasks'[s] = tasks[s]
  BY <1>0, <1>1 DEF Ordered
<1> QED
  BY <1>0, <1>1, OrderedTab, OrderedTask, QueueSteps

\* A tab that presents did, or a claim it waits for has just been granted.
LEMMA PresentersNext ==
    ASSUME TypeOK, MoveInv, [Next]_gatewayVars, NEW s \in presenting'
    PROVE  /\ s \in Sockets
           /\ \/ s \in presenting /\ (s \in up => s \in up')
              \/ \E k \in DOMAIN tasks[s] :
                    /\ ScreenClaim(s, k) /\ ClaimOk(tasks[s][k].room, s)
                    /\ tasks[s][k].mine /\ status[s] = "joined"
<1>0. HandlersTypeOK /\ StoreTypeOK
  BY DEF TypeOK, HandlersTypeOK
<1>1. ASSUME NEW x \in Sockets, TabStep(x) PROVE s \in presenting /\ up' = up
  BY <1>1 DEF TabStep, OpenRoom, Rejoin, CloseRoom, AckTimeout, StartShare, StopShare, tabVars
<1>2. ASSUME NEW x \in Sockets, Disconnect(x) PROVE s \in presenting /\ (s \in up => s \in up')
  BY <1>2 DEF Disconnect
<1>3. ASSUME NEW i \in Instances, Crash(i) PROVE s \in presenting /\ (s \in up => s \in up')
  BY <1>3 DEF Crash
<1>4. ASSUME UNCHANGED gatewayVars \/ TimePasses \/ \E i \in Instances : TimerStep(i)
      PROVE  s \in presenting /\ up' = up
  BY <1>4 DEF TimerStep, Beat, SweepRoom, SweepFree, TimePasses, gatewayVars, tabVars
<1>5. ASSUME NEW y \in Rooms, EndRoom(y) \/ EndStep(y) PROVE s \in presenting /\ up' = up
  BY <1>5 DEF EndRoom, EndStep, AnnounceEnded, EndedClearScreen, EndedClearRoom, tabVars
<1>6. ASSUME NEW x \in Sockets, NEW k \in DOMAIN tasks[x], TaskStep(x, k), ~ScreenClaim(x, k)
      PROVE  s \in presenting /\ up' = up
  BY <1>6 DEF TaskStep, JoinStart, JoinLimited, JoinRefused, JoinAdmitted, JoinSubscribe, JoinSeat,
      JoinFreeDead, JoinTurnedAway, JoinDisplace, JoinFreePrevious, JoinRegister, JoinAnswered,
      LeaveStart, LeaveFree, LeaveUnseat, ScreenStart, ScreenRelease, AnswerJoin, tabVars
<1>7. ASSUME NEW x \in Sockets, NEW k \in DOMAIN tasks[x], ScreenClaim(x, k), s \notin presenting
      PROVE  /\ x = s /\ ClaimOk(tasks[x][k].room, x)
             /\ tasks[x][k].mine /\ status[x] = "joined"
  BY <1>7 DEF ScreenClaim
<1>8. ASSUME NEW x \in Sockets, NEW k \in DOMAIN tasks[x], ScreenClaim(x, k) PROVE up' = up
  BY <1>8 DEF ScreenClaim
<1>9. CASE s \in presenting
  <2>1. s \in Sockets
    BY <1>0, <1>9 DEF HandlersTypeOK
  <2> QED
    BY <1>1, <1>2, <1>3, <1>4, <1>5, <1>6, <1>8, <1>9, <2>1 DEF Next
<1>10. CASE s \notin presenting
  <2>1. PICK x \in Sockets : \E k \in DOMAIN tasks[x] : ScreenClaim(x, k)
    BY <1>1, <1>2, <1>3, <1>4, <1>5, <1>6, <1>10 DEF Next
  <2>2. PICK k \in DOMAIN tasks[x] : ScreenClaim(x, k)
    BY <2>1
  <2>3. x = s
    BY <1>7, <1>10, <2>2
  <2> QED
    BY <1>7, <1>10, <2>2, <2>3
<1> QED
  BY <1>9, <1>10

\* A claim that is granted to a tab that waits for it was the last thing in flight.
LEMMA Granted ==
    ASSUME TypeOK, MoveInv, InTurn, Wanted, NEW s \in Sockets, NEW k \in DOMAIN tasks[s],
           ScreenClaim(s, k), tasks[s][k].mine, status[s] = "joined"
    PROVE  /\ s \in up /\ s \in up' /\ page[s] = tasks[s][k].room /\ page[s] \in Rooms
           /\ page'[s] = page[s] /\ status'[s] = "joined"
           /\ InFlight(s)' = {}
<1> DEFINE t == tasks[s][k]
<1>0. HandlersTypeOK
  BY DEF TypeOK, HandlersTypeOK
<1>1. t \in InFlight(s) /\ t \in Task /\ t.room \in Rooms /\ Shape(t)
  BY <1>0, InFlightIs, MovesOf DEF Task
<1>2. t.kind = "claim" /\ t.pc = "claim"
  BY <1>1 DEF ScreenClaim, Executes, Runs, Shape
<1>3. s \in up
  BY <1>1, <1>2, MovesOf
<1>4. page[s] = t.room
  BY <1>1, <1>2, <1>3 DEF Wanted
<1>5. page' = page /\ status' = status /\ up' = up
  BY DEF ScreenClaim
<1>6. Drops(s, k)
  BY <1>0, Dropping DEF ScreenClaim
<1>7. ASSUME NEW j \in DOMAIN tasks[s], j # k PROVE FALSE
  <2>1. Shape(tasks[s][j]) /\ ~Moving(tasks[s][j])
    BY DEF MoveInv, Shapes, Settled
  <2>2. tasks[s][j].kind \in {"claim", "release"}
    BY <2>1 DEF Shape, Moving
  <2>3. Ordered(s)
    BY <1>3 DEF InTurn
  <2>4. tasks[s][j].kind = "release" /\ j < k /\ tasks[s][j].pc = "release"
    BY <1>2, <1>7, <2>2, <2>3 DEF Ordered
  <2>5. j \in 1 .. k - 1
    BY <1>0, <2>4 DEF HandlersTypeOK
  <2> QED
    BY <2>4, <2>5 DEF ScreenClaim, Executes, Waits
<1>8. InFlight(s)' = {}
  BY <1>6, <1>7 DEF Drops, Rest
<1> QED
  BY <1>1, <1>3, <1>4, <1>5, <1>8

\* Every step keeps that a presenting tab has nothing in flight.
LEMMA SharingStep ==
    ASSUME TypeOK, MoveInv, Sharing, InTurn, Wanted, [Next]_gatewayVars
    PROVE  Sharing'
<1> SUFFICES ASSUME NEW s \in presenting'
             PROVE  /\ s \in up' /\ status'[s] = "joined" /\ page'[s] # NoRoom /\ InFlight(s)' = {}
  BY DEF Sharing
<1>0. HandlersTypeOK
  BY DEF TypeOK, HandlersTypeOK
<1>1. CASE s \in presenting /\ (s \in up => s \in up')
  <2>1. /\ s \in up /\ s \in up' /\ s \in Sockets
        /\ status[s] = "joined" /\ page[s] # NoRoom /\ InFlight(s) = {}
    BY <1>0, <1>1 DEF Sharing, HandlersTypeOK
  <2>2. ASSUME NEW y, Spared(s, y)
        PROVE  status'[s] = "joined" /\ page'[s] # NoRoom /\ InFlight(s)' = {}
    BY <2>1, <2>2 DEF Spared
  <2>3. ~TabStep(s)
    <3>1. CASE \E r \in Rooms : CanJoin(s) /\ (page[s] = NoRoom \/ status[s] = "displaced")
      BY <2>1, <3>1
    <3>2. CASE presenting' = presenting \ {s}
      BY <3>2
    <3> QED
      BY <1>0, <1>1, <2>1, <3>1, <3>2, TabTurns
  <2>4. ~\E k \in DOMAIN tasks[s] : TaskStep(s, k)
    BY <2>1 DEF InFlight
  <2> QED
    BY <2>1, <2>2, <2>3, <2>4, Seen
<1>2. ASSUME s \in Sockets, NEW k \in DOMAIN tasks[s], ScreenClaim(s, k), tasks[s][k].mine, status[s] = "joined"
      PROVE  s \in up' /\ status'[s] = "joined" /\ page'[s] # NoRoom /\ InFlight(s)' = {}
  BY <1>2, Granted, NoRoomAssumption
<1> QED
  BY <1>1, <1>2, PresentersNext

\* Every step keeps that a tab waits for the slot of the room it shows.
LEMMA WantedStep ==
    ASSUME TypeOK, MoveInv, Wanted, [Next]_gatewayVars
    PROVE  Wanted'
<1> SUFFICES ASSUME NEW s \in up', NEW u \in InFlight(s)', u.kind = "claim", u.mine
             PROVE  page'[s] = u.room
  BY DEF Wanted
<1>0. StoreTypeOK /\ HandlersTypeOK
  BY DEF TypeOK, HandlersTypeOK
<1>1. s \in up /\ s \in Sockets
  BY <1>0, Subscribers DEF HandlersTypeOK
<1>2. \A t \in InFlight(s) : t.kind = "claim" /\ t.mine => page[s] = t.room /\ t.room \in Rooms
  BY <1>0, <1>1, InFlightIs DEF Wanted, Task
<1>3. ASSUME NEW y, Spared(s, y) PROVE page'[s] = u.room
  BY <1>2, <1>3 DEF Spared
<1>4. CASE TabStep(s)
  <2>1. ASSUME NEW v, Forgetful(s, v, TRUE), v.kind = "leave" PROVE FALSE
    BY <2>1 DEF Forgetful, Forgotten
  <2>2. ASSUME NEW r \in Rooms, Forgetful(s, NewTask("leave", r), TRUE) PROVE FALSE
    <3>1. NewTask("leave", r).kind = "leave"
      BY NewTaskIs
    <3> QED
      BY <2>1, <2>2, <3>1
  <2>3. ASSUME Forgetful(s, NoRoom, FALSE) PROVE FALSE
    BY <2>3 DEF Forgetful, Forgotten
  <2>4. ASSUME NEW r \in Rooms, NEW kind \in {"join", "claim", "release"}, Sends(s, NewTask(kind, r)),
               kind = "claim" => page'[s] = r,
               page'[s] = page[s] \/ page[s] = NoRoom
        PROVE  page'[s] = u.room
    <3>1. CASE u \in InFlight(s)
      BY <1>2, <2>4, <3>1, NoRoomAssumption
    <3>2. CASE u = NewTask(kind, r)
      BY <2>4, <3>2, NewTaskIs
    <3> QED
      BY <2>4, <3>1, <3>2 DEF Sends
  <2> QED
    BY <1>0, <1>1, <1>4, <2>2, <2>3, <2>4, TabTurns
<1>5. ASSUME NEW k \in DOMAIN tasks[s], TaskStep(s, k) PROVE page'[s] = u.room
  <2>1. page' = page
    BY <1>5 DEF TaskStep, JoinStart, JoinLimited, JoinRefused, JoinAdmitted, JoinSubscribe, JoinSeat,
      JoinFreeDead, JoinTurnedAway, JoinDisplace, JoinFreePrevious, JoinRegister, JoinAnswered,
      LeaveStart, LeaveFree, LeaveUnseat, ScreenStart, ScreenClaim, ScreenRelease, AnswerJoin, tabVars
  <2>2. \E t \in InFlight(s) : SameJob(t, u)
    <3>1. Rest(s, k) \subseteq InFlight(s) /\ tasks[s][k] \in InFlight(s)
      BY <1>0, <1>1, InFlightIs
    <3>2. Drops(s, k) \/ \E v \in Task : Turns(s, k, v) /\ SameJob(tasks[s][k], v)
      BY <1>0, <1>1, <1>5, TaskTurns
    <3> QED
      BY <3>1, <3>2 DEF Drops, Turns, SameJob
  <2> QED
    BY <1>2, <2>1, <2>2 DEF SameJob
<1> QED
  BY <1>1, <1>3, <1>4, <1>5, Seen

\* Nobody but the holder itself takes the slot from one who is seated and has not
\* been put out.
LEMMA SlotKept ==
    ASSUME TypeOK, MoveInv, [Next]_gatewayVars, NEW r \in Rooms, NEW s \in Sockets,
           screen[r] = s, Seated(r, s), ending[r] = "open", ~Pending(r, s),
           ~\E k \in DOMAIN tasks[s] : TaskStep(s, k)
    PROVE  screen'[r] = s
<1>0. HandlersTypeOK /\ screen \in [Rooms -> Sockets \cup {Nobody}] /\ s # Nobody
  BY NobodyAssumption DEF TypeOK, HandlersTypeOK, StoreTypeOK
<1>1. ASSUME NEW y \in Rooms, NEW d, Release(y, d), y = r => d # s PROVE screen'[r] = s
  BY <1>0, <1>1 DEF Release
<1>2. CASE \/ \E x \in Sockets : TabStep(x) \/ Disconnect(x)
           \/ UNCHANGED gatewayVars \/ TimePasses
           \/ \E i \in Instances : Beat(i) \/ Crash(i) \/ \E y \in Rooms : SweepRoom(i, y)
           \/ \E y \in Rooms : EndRoom(y) \/ AnnounceEnded(y) \/ EndedClearRoom(y)
  BY <1>2 DEF TabStep, OpenRoom, Rejoin, CloseRoom, AckTimeout, StartShare, StopShare, Disconnect,
     gatewayVars, storeVars, TimePasses, Beat, Crash, SweepRoom, EndRoom, AnnounceEnded, EndedClearRoom
<1>3. ASSUME NEW i \in Instances, NEW y \in Rooms, NEW d \in Sockets, SweepFree(i, y, d) PROVE screen'[r] = s
  BY <1>1, <1>3 DEF SweepFree, Pending
<1>4. ASSUME NEW y \in Rooms, EndedClearScreen(y) PROVE screen'[r] = s
  BY <1>0, <1>4 DEF EndedClearScreen, ClearScreen
<1>5. ASSUME NEW x \in Sockets, NEW k \in DOMAIN tasks[x], TaskStep(x, k) PROVE screen'[r] = s
  <2> DEFINE t == tasks[x][k]
  <2>1. x # s
    BY <1>5
  <2>2. t \in InFlight(x) /\ t \in Task /\ t.room \in Rooms /\ t.leaving \in Rooms \cup {NoRoom} /\ Shape(t)
    BY <1>0, InFlightIs, MovesOf DEF Task
  <2>3. CASE JoinFreeDead(x, k)
    <3>1. PICK d \in t.dead : Release(t.room, d)
      BY <2>3 DEF JoinFreeDead
    <3> QED
      BY <1>1, <2>2, <3>1 DEF Pending
  <2>4. CASE JoinFreePrevious(x, k)
    BY <1>1, <2>2, <2>4 DEF JoinFreePrevious, Pending
  <2>5. CASE LeaveFree(x, k)
    <3>1. t.leaving \in Rooms
      BY <2>2, <2>5 DEF LeaveFree, Executes, Runs, Shape
    <3> QED
      BY <1>1, <2>1, <2>5, <3>1 DEF LeaveFree
  <2>6. CASE ScreenRelease(x, k)
    BY <1>1, <2>1, <2>2, <2>6 DEF ScreenRelease
  <2>7. CASE ScreenClaim(x, k)
    <3>1. CASE ClaimBusy(t.room, x)
      BY <3>1 DEF ClaimBusy, storeVars
    <3>2. CASE ClaimOk(t.room, x)
      <4>1. t.room # r
        BY <1>0, <2>1, <3>2 DEF ClaimOk, HolderSeated
      <4> QED
        BY <1>0, <2>2, <3>2, <4>1 DEF ClaimOk
    <3> QED
      BY <2>7, <3>1, <3>2 DEF ScreenClaim
  <2>8. CASE \/ JoinStart(x, k) \/ JoinLimited(x, k) \/ JoinRefused(x, k) \/ JoinAdmitted(x, k)
             \/ JoinSubscribe(x, k) \/ JoinSeat(x, k) \/ JoinTurnedAway(x, k) \/ JoinDisplace(x, k)
             \/ JoinRegister(x, k) \/ JoinAnswered(x, k)
             \/ LeaveStart(x, k) \/ LeaveUnseat(x, k) \/ ScreenStart(x, k)
    BY <2>8 DEF JoinStart, JoinLimited, JoinRefused, JoinAdmitted, JoinSubscribe, JoinSeat,
       JoinTurnedAway, JoinDisplace, JoinRegister, JoinAnswered, LeaveStart, LeaveUnseat, ScreenStart, storeVars
  <2> QED
    BY <1>5, <2>3, <2>4, <2>5, <2>6, <2>7, <2>8 DEF TaskStep
<1> QED
  BY <1>2, <1>3, <1>4, <1>5 DEF Next, TimerStep, EndStep

\* Every step leaves the slot with whoever presents from a seat.
LEMMA SlotStep ==
    ASSUME TypeOK, MoveInv, SeatInv, Sharing, InTurn, Wanted, PresenterHoldsSlot, [Next]_gatewayVars
    PROVE  PresenterHoldsSlot'
<1> SUFFICES ASSUME NEW r \in Rooms, ending'[r] = "open", NEW s \in presenting', Seated(r, s)'
             PROVE  screen'[r] = s
  BY DEF PresenterHoldsSlot
<1>0. HandlersTypeOK /\ s \in Sockets /\ ending[r] = "open"
  BY PresentersNext, Subscribers DEF TypeOK, HandlersTypeOK
<1>1. CASE s \in presenting
  <2>1. s \in up /\ InFlight(s) = {}
    BY <1>1 DEF Sharing
  <2>2. tasks[s] = <<>> \/ DOMAIN tasks[s] = {}
    BY <2>1 DEF InFlight
  <2>3. DOMAIN tasks[s] = {}
    BY <2>2
  <2>4. Seated(r, s)
    BY <1>0, <2>3, SeatGained
  <2>5. ~Pending(r, s)
    BY <1>0, <2>1, <2>4 DEF SeatInv, Unspoken
  <2>6. screen[r] = s
    BY <1>0, <1>1, <2>4 DEF PresenterHoldsSlot
  <2> QED
    BY <1>0, <2>3, <2>4, <2>5, <2>6, SlotKept
<1>2. ASSUME NEW k \in DOMAIN tasks[s], ScreenClaim(s, k), ClaimOk(tasks[s][k].room, s),
             tasks[s][k].mine, status[s] = "joined"
      PROVE  screen'[r] = s
  <2>1. s \in up /\ page[s] = tasks[s][k].room
    BY <1>0, <1>2, Granted
  <2>2. Seated(r, s)
    BY <1>2 DEF ClaimOk, presenceVars, Seated
  <2>3. \A t \in InFlight(s) : ~Moving(t)
    BY <1>0, <1>2, MovesOf
  <2>4. Home(r, s)
    BY <1>0, <2>1, <2>2, <2>3 DEF SeatInv, Known, Landing, Going, Moving
  <2>5. tasks[s][k].room = r /\ screen \in [Rooms -> Sockets \cup {Nobody}]
    BY <2>1, <2>4 DEF Home, TypeOK, StoreTypeOK
  <2> QED
    BY <1>2, <2>5 DEF ClaimOk
<1> QED
  BY <1>1, <1>2, PresentersNext

\* What PresenterHoldsSlot needs to be inductive.
SlotInv == Sharing /\ InTurn /\ Wanted /\ PresenterHoldsSlot

\* It holds at first,
LEMMA SlotStarts == Init => SlotInv
<1> SUFFICES ASSUME Init PROVE SlotInv
  OBVIOUS
<1>1. up = Sockets /\ presenting = {} /\ \A s \in Sockets : InFlight(s) = {} /\ DOMAIN tasks[s] = {}
  BY DEF Init, InFlight
<1> QED
  BY <1>1 DEF SlotInv, Sharing, InTurn, Wanted, PresenterHoldsSlot, Ordered

\* and throughout.
LEMMA SlotAlways ==
    ASSUME "overtake" \notin Faults, "unmount" \notin Faults, "timeout" \notin Faults
    PROVE  Spec => []SlotInv
<1>1. TypeOK /\ MoveInv /\ SeatInv /\ SlotInv /\ [Next]_gatewayVars => SlotInv'
  BY InTurnStep, SharingStep, WantedStep, SlotStep DEF SlotInv
<1> QED
  BY <1>1, SlotStarts, GatewayTypes, MoveAlways, SeatAlways, PTL DEF Spec

\* A tab that was told it presents, and still has its seat, holds the slot: no
\* cleanup for somebody else frees it, however the handlers of all sockets, the
\* timers and the crashes of processes interleave.
THEOREM PresentersKeepSlot ==
    ASSUME "overtake" \notin Faults, "unmount" \notin Faults, "timeout" \notin Faults
    PROVE  Spec => []PresenterHoldsSlot
<1>1. SlotInv => PresenterHoldsSlot
  BY DEF SlotInv
<1> QED
  BY <1>1, SlotAlways, PTL
=============================================================================
