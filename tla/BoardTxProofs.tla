---------------------------- MODULE BoardTxProofs ----------------------------
(***************************************************************************)
(* Proofs about BoardTx, for any calls in flight: the row lock makes every *)
(* transaction one atomic change of Board, whose invariants the stored     *)
(* board therefore has.                                                    *)
(***************************************************************************)
EXTENDS BoardTx, BoardProofs

\* What writableRoom and the request schemas let through, and who looks at rows.
Admitted(t) ==
    /\ t.pc \in {"find", "count"} => t.kind = "add"
    /\ t.kind = "add"   => \E id \in Ids : t.ids = {id}
    /\ t.kind = "clear" => t.by \in Hosts /\ t.ids = Ids

CallsOK ==
    /\ lock \in Calls \cup {NoCall}
    /\ calls \in [Calls -> Call \cup {Idle}]
    /\ \A c \in Calls : calls[c] = Idle \/ Admitted(calls[c])

TxInv == BoardInv /\ CallsOK /\ LockedReads

-----------------------------------------------------------------------------
\* A call that is not idle has all its fields.
LEMMA Busy ==
    ASSUME CallsOK, NEW c \in Calls, calls[c].pc # "idle"
    PROVE  calls[c] \in Call /\ Admitted(calls[c])
BY DEF CallsOK, Idle

\* A step of one call that leaves the board and, but for the lock's holder, the
\* others alone keeps the types.
LEMMA OneCall ==
    ASSUME CallsOK, NEW c \in Calls, NEW t \in Call \cup {Idle}, t = Idle \/ Admitted(t),
           calls' = [calls EXCEPT ![c] = t], lock' \in Calls \cup {NoCall}
    PROVE  CallsOK' /\ calls'[c] = t /\ \A d \in Calls \ {c} : calls'[d] = calls[d]
BY DEF CallsOK, Admitted

\* A commit is one atomic change of the board.
LEMMA CommitIsChange ==
    ASSUME TxInv, NEW c \in Calls, Write(c)
    PROVE  BoardNext
<1> USE DEF TxInv, BoardInv
<1> DEFINE t == calls[c]
<1>1. t \in Call /\ Admitted(t)
  BY Busy DEF Write, At
<1>2. t.by \in Members /\ t.ids \in SUBSET Ids /\ t.seq = boardSeq + 1
  BY <1>1 DEF Call, LockedReads, Write, At
<1>3. Numbered(t.kind, t.ids, t.by)
  BY <1>2 DEF Write, Numbered
<1>4. CASE t.kind = "add"
  <2>1. PICK id \in Ids : t.ids = {id}
    BY <1>1, <1>4 DEF Admitted
  <2>2. MayAdd(t.by, id)
    BY <1>4, <2>1 DEF LockedReads, Write, At
  <2>3. Written(c, id) = [seq |-> boardSeq + 1, authorId |-> t.by]
    <3>1. rows[id] # NoRow => rows[id] \in Row /\ rows[id].authorId = t.by
      BY <2>2 DEF BoardTypeOK, MayAdd
    <3> QED
      BY <1>2, <1>4, <3>1 DEF Written, Row
  <2>4. rows' = [rows EXCEPT ![id] = [seq |-> boardSeq + 1, authorId |-> t.by]]
    BY <2>1, <2>3 DEF Write, BoardTypeOK
  <2> QED
    BY <1>2, <1>3, <1>4, <2>1, <2>2, <2>4 DEF AddElement, BoardNext
<1>5. CASE t.kind # "add"
  <2>1. rows' = [id \in Ids |-> IF id \in t.ids THEN NoRow ELSE rows[id]]
    BY <1>5 DEF Write, Written
  <2>2. CASE t.kind = "remove"
    BY <1>2, <1>3, <2>1, <2>2 DEF RemoveElements, BoardNext
  <2>3. CASE t.kind = "clear"
    BY <1>1, <1>2, <1>3, <2>1, <2>3 DEF Admitted, ClearBoard, BoardNext
  <2> QED
    BY <1>1, <1>5, <2>2, <2>3 DEF Call
<1> QED
  BY <1>4, <1>5

\* Moving call c on to t, by steps that only it takes, keeps the others' reads:
\* they need the lock, and it is free or held by c.
LEMMA OthersRead ==
    ASSUME TxInv, NEW c \in Calls, NEW t \in Call \cup {Idle}, t = Idle \/ Admitted(t),
           calls' = [calls EXCEPT ![c] = t], lock' \in Calls \cup {NoCall},
           \/ lock' = lock /\ UNCHANGED boardVars
           \/ lock \in {c, NoCall},
           t.pc \in {"find", "count", "write"} => lock' = c /\ t.seq = boardSeq' + 1,
           t.pc = "count" => \A id \in t.ids : rows'[id] = NoRow,
           t.pc = "write" /\ t.kind = "add" => \A id \in t.ids : MayAdd(t.by, id)'
    PROVE  CallsOK' /\ LockedReads'
<1>1. CallsOK' /\ calls'[c] = t /\ \A d \in Calls \ {c} : calls'[d] = calls[d]
  BY OneCall DEF TxInv
<1>2. ASSUME NEW d \in Calls \ {c}
      PROVE  /\ calls'[d].pc \in {"find", "count", "write"} => lock' = d /\ calls'[d].seq = boardSeq' + 1
             /\ At(d, "count")' => \A id \in calls'[d].ids : rows'[id] = NoRow
             /\ At(d, "write")' /\ calls'[d].kind = "add" =>
                   \A id \in calls'[d].ids : MayAdd(calls[d].by, id)'
  <2>1. CASE lock' = lock /\ UNCHANGED boardVars
    BY <1>1, <2>1 DEF TxInv, LockedReads, At, MayAdd, Live, boardVars
  <2>2. CASE lock \in {c, NoCall}
    BY <1>1, <2>2, NoCallAssumption DEF TxInv, LockedReads, At
  <2> QED
    BY <2>1, <2>2
<1> QED
  BY <1>1, <1>2 DEF LockedReads, At

-----------------------------------------------------------------------------
\* Each step of a transaction keeps the invariant.

LEMMA RollbackStep ==
    ASSUME TxInv, NEW c \in Calls, Rollback(c), lock \in {c, NoCall}
    PROVE  CallsOK' /\ LockedReads'
<1>1. Idle.pc \notin {"find", "count", "write"}
  BY DEF Idle
<1> QED
  BY <1>1, OthersRead DEF Rollback

LEMMA BeginStep ==
    ASSUME TxInv, NEW c \in Calls, Begin(c)
    PROVE  CallsOK' /\ LockedReads' /\ UNCHANGED boardVars
<1>1. PICK u \in Members, kind \in {"add", "remove", "clear"}, ids \in SUBSET Ids :
         /\ kind = "add"   => \E id \in Ids : ids = {id}
         /\ kind = "clear" => u \in Hosts /\ ids = Ids
         /\ calls' = [calls EXCEPT ![c] =
                [pc |-> "begin", kind |-> kind, by |-> u, ids |-> ids, seq |-> 0]]
  BY DEF Begin
<1> DEFINE t == [pc |-> "begin", kind |-> kind, by |-> u, ids |-> ids, seq |-> 0]
<1>2. t \in Call /\ Admitted(t)
  BY <1>1 DEF Call, Admitted
<1>3. lock' = lock /\ UNCHANGED boardVars /\ lock \in Calls \cup {NoCall}
  BY DEF Begin, TxInv, CallsOK
<1> QED
  BY <1>1, <1>2, <1>3, OthersRead

LEMMA NextSeqStep ==
    ASSUME TxInv, NEW c \in Calls, NextSeq(c)
    PROVE  CallsOK' /\ LockedReads' /\ UNCHANGED boardVars
<1> DEFINE t == [calls[c] EXCEPT !.seq = boardSeq + 1,
                                 !.pc = IF calls[c].kind = "add" THEN "find" ELSE "write"]
<1>1. calls[c] \in Call /\ Admitted(calls[c])
  BY Busy DEF NextSeq, At, TxInv
<1>2. boardSeq \in Nat
  BY DEF TxInv, BoardInv, BoardTypeOK
<1>3. t \in Call /\ Admitted(t)
  <2>1. PICK n \in Nat, pc \in {"find", "write"} :
           n = boardSeq + 1 /\ pc = IF calls[c].kind = "add" THEN "find" ELSE "write"
    BY <1>2
  <2>2. t = [calls[c] EXCEPT !.seq = n, !.pc = pc]
    BY <2>1
  <2>3. t \in Call /\ t.kind = calls[c].kind /\ t.ids = calls[c].ids /\ t.by = calls[c].by
        /\ t.pc = pc
    BY <1>1, <2>1, <2>2 DEF Call
  <2> QED
    BY <1>1, <2>1, <2>3 DEF Admitted
<1>4. calls' = [calls EXCEPT ![c] = t]
  BY DEF NextSeq, TxInv, CallsOK
<1>5. lock = NoCall /\ lock' = c /\ UNCHANGED boardVars /\ boardSeq' = boardSeq
  BY DEF NextSeq, boardVars
<1>6. t.seq = boardSeq' + 1 /\ t.pc # "count" /\ ~(t.pc = "write" /\ t.kind = "add")
  BY <1>1, <1>5 DEF Call
<1> QED
  BY <1>3, <1>4, <1>5, <1>6, OthersRead

\* A step to the counting or to the writing that changes nothing else.
LEMMA GotoStep ==
    ASSUME TxInv, NEW c \in Calls, NEW pc \in {"count", "write"}, Goto(c, pc),
           calls[c].pc \in {"find", "count"},
           UNCHANGED <<boardVars, lock>>,
           pc = "count" => \A id \in calls[c].ids : rows[id] = NoRow,
           pc = "write" => \A id \in calls[c].ids : MayAdd(calls[c].by, id)
    PROVE  CallsOK' /\ LockedReads' /\ UNCHANGED boardVars
<1> PICK t : t = [calls[c] EXCEPT !.pc = pc]
  OBVIOUS
<1>1. calls[c] \in Call /\ Admitted(calls[c])
  BY Busy DEF TxInv
<1>2. t \in Call /\ Admitted(t) /\ t.pc = pc /\ t.ids = calls[c].ids /\ t.by = calls[c].by
      /\ t.seq = calls[c].seq
  BY <1>1 DEF Call, Admitted
<1>3. calls' = [calls EXCEPT ![c] = t]
  BY DEF Goto, TxInv, CallsOK
<1>4. lock' = lock /\ lock = c /\ calls[c].seq = boardSeq + 1
      /\ boardSeq' = boardSeq /\ rows' = rows /\ UNCHANGED boardVars
  BY DEF TxInv, LockedReads, boardVars
<1>5. \A id : MayAdd(t.by, id) => MayAdd(t.by, id)'
  BY <1>1, <1>2, <1>4 DEF MayAdd, Live
<1> QED
  BY <1>2, <1>3, <1>4, <1>5, OthersRead

LEMMA FindStep ==
    ASSUME TxInv, NEW c \in Calls, FindExisting(c)
    PROVE  CallsOK' /\ LockedReads' /\ UNCHANGED boardVars
<1>1. PICK id \in calls[c].ids :
        \/ rows[id] = NoRow /\ Goto(c, "count") /\ UNCHANGED <<boardVars, lock>>
        \/ Mine(c, id) /\ Goto(c, "write") /\ UNCHANGED <<boardVars, lock>>
        \/ rows[id] # NoRow /\ ~Mine(c, id) /\ Rollback(c)
  BY DEF FindExisting
<1>2. calls[c] \in Call /\ Admitted(calls[c]) /\ lock = c /\ calls[c].pc = "find"
  BY Busy DEF FindExisting, At, TxInv, LockedReads
<1>3. calls[c].ids = {id}
  BY <1>1, <1>2 DEF Admitted
<1>4. CASE rows[id] = NoRow /\ Goto(c, "count") /\ UNCHANGED <<boardVars, lock>>
  BY <1>2, <1>3, <1>4, GotoStep
<1>5. CASE Mine(c, id) /\ Goto(c, "write") /\ UNCHANGED <<boardVars, lock>>
  BY <1>2, <1>3, <1>5, GotoStep DEF Mine, MayAdd
<1>6. CASE Rollback(c)
  BY <1>2, <1>6, RollbackStep DEF Rollback
<1> QED
  BY <1>1, <1>4, <1>5, <1>6

LEMMA CountStep ==
    ASSUME TxInv, NEW c \in Calls, CountLive(c)
    PROVE  CallsOK' /\ LockedReads' /\ UNCHANGED boardVars
<1>1. lock = c /\ calls[c].pc = "count" /\ \A id \in calls[c].ids : rows[id] = NoRow
  BY DEF CountLive, At, TxInv, LockedReads
<1>2. CASE Cardinality(Live) < MaxElements
  BY <1>1, <1>2, GotoStep DEF CountLive, MayAdd
<1>3. CASE ~(Cardinality(Live) < MaxElements)
  BY <1>1, <1>3, RollbackStep DEF CountLive, Rollback
<1> QED
  BY <1>2, <1>3

LEMMA WriteStep ==
    ASSUME TxInv, NEW c \in Calls, Write(c)
    PROVE  CallsOK' /\ LockedReads'
<1>1. lock = c
  BY DEF Write, At, TxInv, LockedReads
<1>2. Idle.pc \notin {"find", "count", "write"}
  BY DEF Idle
<1> QED
  BY <1>1, <1>2, OthersRead DEF Write

\* Every step keeps the invariant, and is a step of the board or leaves it alone.
LEMMA TxStep == TxInv /\ [TxNext]_txVars => TxInv' /\ [BoardNext]_boardVars
<1> SUFFICES ASSUME TxInv, [TxNext]_txVars
             PROVE  CallsOK' /\ LockedReads' /\ [BoardNext]_boardVars
  BY BoardStep DEF TxInv
<1>1. ASSUME NEW c \in Calls, Begin(c) \/ NextSeq(c) \/ FindExisting(c) \/ CountLive(c)
      PROVE  CallsOK' /\ LockedReads' /\ [BoardNext]_boardVars
  BY <1>1, BeginStep, NextSeqStep, FindStep, CountStep
<1>2. ASSUME NEW c \in Calls, Write(c)
      PROVE  CallsOK' /\ LockedReads' /\ [BoardNext]_boardVars
  BY <1>2, WriteStep, CommitIsChange
<1>3. ASSUME NEW c \in Calls, Abort(c)
      PROVE  CallsOK' /\ LockedReads' /\ [BoardNext]_boardVars
  <2>1. lock = c /\ Rollback(c)
    BY <1>3 DEF Abort, TxInv, LockedReads
  <2> QED
    BY <2>1, RollbackStep DEF Rollback
<1>4. CASE UNCHANGED txVars
  BY <1>4 DEF txVars, boardVars, TxInv, CallsOK, LockedReads, At, MayAdd, Live
<1> QED
  BY <1>1, <1>2, <1>3, <1>4 DEF TxNext

LEMMA TxStart == TxInit => TxInv
<1> SUFFICES ASSUME TxInit PROVE TxInv
  OBVIOUS
<1>1. \A c \in Calls : calls[c] = Idle
  BY DEF TxInit
<1> QED
  BY <1>1, BoardStart DEF TxInit, TxInv, CallsOK, LockedReads, At, Idle

\* At READ COMMITTED, the row lock is enough: whatever calls interleave, abort or
\* are refused, each is one atomic change of the board or none.
THEOREM TxImplementsBoard == TxSpec => ImplementsBoard
<1>1. TxInit => BoardInit
  BY DEF TxInit
<1> QED
  BY <1>1, TxStart, TxStep, PTL DEF TxSpec, BoardSpec, ImplementsBoard

\* What a transaction has read is still so, and its number the next, until it ends.
THEOREM ReadsStayTrue == TxSpec => []LockedReads
<1>1. TxInv => LockedReads
  BY DEF TxInv
<1> QED
  BY <1>1, TxStart, TxStep, PTL DEF TxSpec

\* So racing transactions never add one element too many, nor lose or repeat a number.
THEOREM TxKeepsBoard == TxSpec => [](RowsAreLog /\ BoardCap)
BY TxImplementsBoard, CompactionLossless, NeverTooMany, PTL DEF ImplementsBoard
=============================================================================
