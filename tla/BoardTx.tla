------------------------------- MODULE BoardTx -------------------------------
(***************************************************************************)
(* The transactions of apps/api/src/modules/board/board.service.ts, one    *)
(* query at a time, in PostgreSQL's READ COMMITTED: a query sees what was  *)
(* committed before it began, and the row lock taken by the increment of   *)
(* Room.boardSeq is held until the end of the transaction.  They implement *)
(* BoardSpec, the variables of Board being what is committed.              *)
(***************************************************************************)
EXTENDS Board

CONSTANTS Calls,        \* invocations that may be in flight at once
          NoCall,       \* nobody holds the row lock
          MaxSeq        \* bound: changes of the board

VARIABLES lock,         \* the call holding the lock on the room's row
          calls         \* [call -> what it is doing]

txVars == <<boardVars, lock, calls>>

ASSUME NoCallAssumption == NoCall \notin Calls
ASSUME MaxSeqAssumption == MaxSeq \in Nat

Call == [pc : {"begin", "find", "count", "write"}, kind : {"add", "remove", "clear"},
         by : Members, ids : SUBSET Ids, seq : Nat]
Idle == [pc |-> "idle"]

-----------------------------------------------------------------------------
At(c, pc) == calls[c].pc = pc
Goto(c, pc) == calls' = [calls EXCEPT ![c].pc = pc]

\* writableRoom let the call through: the caller is a member, and a host if it
\* is to clear the board.
Begin(c) ==
    /\ At(c, "idle")
    /\ \E u \in Members, kind \in {"add", "remove", "clear"}, ids \in SUBSET Ids :
          /\ kind = "add"   => \E id \in Ids : ids = {id}
          /\ kind = "clear" => u \in Hosts /\ ids = Ids
          /\ calls' = [calls EXCEPT ![c] =
                [pc |-> "begin", kind |-> kind, by |-> u, ids |-> ids, seq |-> 0]]
    /\ UNCHANGED <<boardVars, lock>>

\* nextSeq: waits for the lock, and then sees what its last holder committed.
NextSeq(c) ==
    /\ At(c, "begin")
    /\ lock = NoCall
    /\ boardSeq < MaxSeq
    /\ lock' = c
    /\ calls' = [calls EXCEPT ![c].seq = boardSeq + 1,
                              ![c].pc = IF calls[c].kind = "add" THEN "find" ELSE "write"]
    /\ UNCHANGED boardVars

\* A transaction that throws is rolled back, the number it took with it.
Rollback(c) ==
    /\ lock' = NoCall
    /\ calls' = [calls EXCEPT ![c] = Idle]
    /\ UNCHANGED boardVars

Mine(c, id) == rows[id] # NoRow /\ rows[id].authorId = calls[c].by

\* (Mutants: whoever owns the element; without counting.)
FindAnyones(c) ==
    /\ At(c, "find")
    /\ \E id \in calls[c].ids :
          \/ rows[id] = NoRow /\ Goto(c, "count")
          \/ rows[id] # NoRow /\ Goto(c, "write")
    /\ UNCHANGED <<boardVars, lock>>

FindExisting(c) ==
    /\ At(c, "find")
    /\ \E id \in calls[c].ids :
          \/ rows[id] = NoRow /\ Goto(c, "count") /\ UNCHANGED <<boardVars, lock>>
          \/ Mine(c, id) /\ Goto(c, "write") /\ UNCHANGED <<boardVars, lock>>
          \/ rows[id] # NoRow /\ ~Mine(c, id) /\ Rollback(c)

CountLive(c) ==
    /\ At(c, "count")
    /\ IF Cardinality(Live) < MaxElements
       THEN Goto(c, "write") /\ UNCHANGED <<boardVars, lock>>
       ELSE Rollback(c)
\* (Mutant: a replaced element keeps its number as well.)
WrittenKeepingSeq(c, id) ==
    LET t == calls[c] IN
    IF t.kind # "add" THEN NoRow
    ELSE IF rows[id] # NoRow THEN rows[id]
    ELSE [seq |-> t.seq, authorId |-> t.by]

\* What a transaction writes to one row: a replaced element keeps its author.
Written(c, id) ==
    LET t == calls[c] IN
    IF t.kind # "add" THEN NoRow
    ELSE IF rows[id] # NoRow THEN [rows[id] EXCEPT !.seq = t.seq]
    ELSE [seq |-> t.seq, authorId |-> t.by]

\* The write, and the commit that makes it and the new boardSeq visible.
Write(c) ==
    LET t == calls[c] IN
    /\ At(c, "write")
    /\ boardSeq' = t.seq
    /\ rows' = [id \in Ids |-> IF id \in t.ids THEN Written(c, id) ELSE rows[id]]
    /\ log' = Append(log, [kind |-> t.kind, ids |-> t.ids, authorId |-> t.by])
    /\ lock' = NoCall
    /\ calls' = [calls EXCEPT ![c] = Idle]

\* The connection fails before the commit.
Abort(c) == calls[c].pc \in {"find", "count", "write"} /\ Rollback(c)

TxInit ==
    /\ BoardInit
    /\ lock = NoCall
    /\ calls = [c \in Calls |-> Idle]

TxNext ==
    \E c \in Calls : \/ Begin(c) \/ NextSeq(c) \/ FindExisting(c) \/ CountLive(c) \/ Write(c) \/ Abort(c)

TxSpec == TxInit /\ [][TxNext]_txVars

-----------------------------------------------------------------------------
(* Properties.                                                             *)

\* What makes the transactions atomic: one that has its number holds the lock,
\* its number is still the next, and what it has read is still so when it writes.
LockedReads ==
    \A c \in Calls :
        /\ calls[c].pc \in {"find", "count", "write"} => lock = c /\ calls[c].seq = boardSeq + 1
        /\ At(c, "count") => \A id \in calls[c].ids : rows[id] = NoRow
        /\ At(c, "write") /\ calls[c].kind = "add" =>
              \A id \in calls[c].ids : MayAdd(calls[c].by, id)

\* Query by query, the transactions do what the board promises: each one is
\* one atomic change by somebody who may make it, or none at all.
ImplementsBoard == BoardSpec
=============================================================================
