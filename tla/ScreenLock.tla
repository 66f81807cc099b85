----------------------------- MODULE ScreenLock -----------------------------
(***************************************************************************)
(* A room's single screen-share slot, kept in Redis next to its presence   *)
(* (apps/api/src/modules/rooms/screen-lock.ts): `screen[r]' is the socket  *)
(* named by the key screen:{slug}, which has no expiry.  Each Lua script   *)
(* is one action.                                                          *)
(***************************************************************************)
EXTENDS Presence

CONSTANT Nobody       \* nobody: GET's nil

ASSUME NobodyAssumption == Nobody \notin Sockets

VARIABLE screen         \* [room -> the presenting socket, or Nobody]

storeVars == <<beats, peers, rooms, ttl, screen>>

-----------------------------------------------------------------------------
\* The slot's holder still holds its seat in the room.
HolderSeated(r) == screen[r] # Nobody /\ Seated(r, screen[r])

\* CLAIM, granted: the slot is free, already this socket's, or stale.
ClaimOk(r, s) ==
    /\ screen[r] = s \/ ~HolderSeated(r)
    /\ screen' = [screen EXCEPT ![r] = s]
    /\ UNCHANGED presenceVars

\* CLAIM, refused: somebody else is presenting from their seat.
ClaimBusy(r, s) ==
    /\ screen[r] # s
    /\ HolderSeated(r)
    /\ UNCHANGED storeVars

\* RELEASE: compare-and-delete.
Release(r, s) ==
    /\ screen' = [screen EXCEPT ![r] = IF @ = s THEN Nobody ELSE @]
    /\ UNCHANGED presenceVars

\* clearScreen: the slot of a room whose meeting ended.
ClearScreen(r) ==
    /\ screen' = [screen EXCEPT ![r] = Nobody]
    /\ UNCHANGED presenceVars

-----------------------------------------------------------------------------
(* Presence and the slot together: everything Redis holds about a room.    *)

StoreInit == PresenceInit /\ screen = [r \in Rooms |-> Nobody]

StoreNext ==
    \/ PresenceNext /\ UNCHANGED screen
    \/ \E r \in Rooms, s \in Sockets : ClaimOk(r, s) \/ ClaimBusy(r, s) \/ Release(r, s)
    \/ \E r \in Rooms : ClearScreen(r)

\* What every process together may do to Redis: one script of one of them at a
\* time (presence.ts, screen-lock.ts).
StoreSpec == StoreInit /\ [][StoreNext]_storeVars

-----------------------------------------------------------------------------
(* Properties.                                                             *)

\* The slot names a socket or nobody, and presence keeps its types.
StoreTypeOK == PresenceTypeOK /\ screen \in [Rooms -> Sockets \cup {Nobody}]
=============================================================================
