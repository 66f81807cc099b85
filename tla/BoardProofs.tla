----------------------------- MODULE BoardProofs -----------------------------
(***************************************************************************)
(* Proofs about Board, for any members, ids and cap: compaction loses      *)
(* nothing, and the cap on elements holds.                                 *)
(***************************************************************************)
EXTENDS Board, FiniteSetTheorems, SequenceTheorems, TLAPS

BoardInv == BoardTypeOK /\ RowsAreLog /\ BoardCap

\* What a change leaves of one row.
Changed(kind, ids, u, id) ==
    IF id \notin ids THEN rows[id]
    ELSE IF kind = "add" THEN [seq |-> boardSeq + 1, authorId |-> u] ELSE NoRow

-----------------------------------------------------------------------------
\* A change that takes the next number and writes its rows keeps rows and
\* history in agreement.
LEMMA ChangeKeepsLog ==
    ASSUME BoardTypeOK, RowsAreLog,
           NEW kind \in {"add", "remove", "clear"}, NEW ids \in SUBSET Ids, NEW u \in Members,
           Numbered(kind, ids, u),
           rows' = [id \in Ids |-> Changed(kind, ids, u, id)]
    PROVE  BoardTypeOK' /\ RowsAreLog'
<1> DEFINE n == boardSeq
           new == [kind |-> kind, ids |-> ids, authorId |-> u]
<1>1. n \in Nat /\ n = Len(log) /\ IsPicture(rows, n)
  BY DEF BoardTypeOK, RowsAreLog
<1>2. new \in Change
  BY DEF Change
<1>3. log' \in Seq(Change) /\ Len(log') = n + 1 /\ log'[n + 1] = new
      /\ \A i \in 1 .. n : log'[i] = log[i]
  BY <1>1, <1>2, AppendProperties DEF Numbered, BoardTypeOK
<1>4. boardSeq' = n + 1
  BY DEF Numbered
<1>5. rows' \in [Ids -> Row \cup {NoRow}]
  BY <1>1 DEF BoardTypeOK, Row, Changed
<1>6. BoardTypeOK'
  BY <1>1, <1>3, <1>4, <1>5 DEF BoardTypeOK
<1>7. ASSUME NEW id \in Ids
      PROVE  /\ rows'[id] = NoRow => \A i \in 1 .. n + 1 :
                   LastTouch(id, i, boardSeq)' => log'[i].kind # "add"
             /\ rows'[id] # NoRow => /\ LastTouch(id, rows[id].seq, boardSeq)'
                                     /\ log'[rows'[id].seq].kind = "add"
                                     /\ log'[rows'[id].seq].authorId = rows'[id].authorId
  <2>1. CASE id \in ids
    <3>1. rows'[id] = IF kind = "add" THEN [seq |-> n + 1, authorId |-> u] ELSE NoRow
      BY <2>1 DEF Changed
    <3>2. [seq |-> n + 1, authorId |-> u] # NoRow
      BY <1>1, NoRowAssumption
    <3>3. ASSUME NEW i \in 1 .. n + 1
          PROVE  LastTouch(id, i, boardSeq)' <=> i = n + 1
      BY <1>1, <1>3, <1>4, <2>1 DEF LastTouch
    <3> QED
      BY <1>1, <1>3, <1>4, <3>1, <3>2, <3>3
  <2>2. CASE id \notin ids
    <3>1. rows'[id] = rows[id]
      BY <2>2 DEF Changed
    <3>2. ASSUME NEW i \in 1 .. n + 1
          PROVE  LastTouch(id, i, boardSeq)' <=> LastTouch(id, i, n)
      BY <1>1, <1>3, <1>4, <2>2 DEF LastTouch
    <3>3. ASSUME NEW i \in 1 .. n + 1, LastTouch(id, i, n)
          PROVE  i \in 1 .. n
      BY <3>3 DEF LastTouch
    <3> QED
      BY <1>1, <1>3, <3>1, <3>2, <3>3 DEF IsPicture, LastTouch
  <2> QED
    BY <2>1, <2>2
<1>8. RowsAreLog'
  BY <1>3, <1>4, <1>7 DEF RowsAreLog, IsPicture
<1> QED
  BY <1>6, <1>8

\* Every change of the board keeps the invariant.
LEMMA BoardStep == BoardInv /\ [BoardNext]_boardVars => BoardInv'
<1> SUFFICES ASSUME BoardInv, [BoardNext]_boardVars PROVE BoardInv'
  OBVIOUS
<1> USE DEF BoardInv
<1>1. IsFiniteSet(Live) /\ Cardinality(Live) \in Nat
  BY BoardIdsAssumption, FS_Subset, FS_CardinalityType DEF Live
<1>2. ASSUME NEW u \in Members, NEW id \in Ids, AddElement(u, id)
      PROVE  BoardInv'
  <2>1. rows' = [x \in Ids |-> Changed("add", {id}, u, x)]
    BY <1>2 DEF AddElement, Changed, BoardTypeOK
  <2>2. BoardTypeOK' /\ RowsAreLog'
    BY <1>2, <2>1, ChangeKeepsLog DEF AddElement
  <2>3. Live' \subseteq Live \cup {id}
    BY <2>1 DEF Live, Changed
  <2>4. CASE rows[id] = NoRow
    <3>1. Cardinality(Live) < MaxElements
      BY <1>2, <2>4 DEF AddElement, MayAdd
    <3>2. IsFiniteSet(Live \cup {id}) /\ Cardinality(Live \cup {id}) <= Cardinality(Live) + 1
      BY <1>1, FS_AddElement
    <3>3. Cardinality(Live \cup {id}) \in Nat /\ Cardinality(Live') \in Nat
          /\ Cardinality(Live') <= Cardinality(Live \cup {id})
      BY <2>3, <3>2, FS_Subset, FS_CardinalityType
    <3> QED
      BY <1>1, <2>2, <3>1, <3>2, <3>3, BoardCapAssumption DEF BoardCap
  <2>5. CASE rows[id] # NoRow
    <3>1. Live' \subseteq Live
      BY <2>3, <2>5 DEF Live
    <3> QED
      BY <1>1, <2>2, <3>1, FS_Subset, FS_CardinalityType, BoardCapAssumption DEF BoardCap
  <2> QED
    BY <2>4, <2>5
<1>3. ASSUME NEW u \in Members, NEW ids \in SUBSET Ids, NEW kind \in {"remove", "clear"},
             Numbered(kind, ids, u),
             rows' = [id \in Ids |-> IF id \in ids THEN NoRow ELSE rows[id]]
      PROVE  BoardInv'
  <2>1. rows' = [id \in Ids |-> Changed(kind, ids, u, id)]
    BY <1>3 DEF Changed
  <2>2. BoardTypeOK' /\ RowsAreLog'
    BY <1>3, <2>1, ChangeKeepsLog
  <2>3. Live' \subseteq Live
    BY <1>3 DEF Live
  <2> QED
    BY <1>1, <2>2, <2>3, FS_Subset, FS_CardinalityType, BoardCapAssumption DEF BoardCap
<1>4. ASSUME NEW u \in Members, NEW ids \in SUBSET Ids, RemoveElements(u, ids)
      PROVE  BoardInv'
  BY <1>3, <1>4 DEF RemoveElements
<1>5. ASSUME NEW u \in Members, ClearBoard(u)
      PROVE  BoardInv'
  <2>1. rows' = [id \in Ids |-> IF id \in Ids THEN NoRow ELSE rows[id]]
    BY <1>5 DEF ClearBoard
  <2>2. Numbered("clear", Ids, u) /\ Ids \in SUBSET Ids
    BY <1>5 DEF ClearBoard
  <2> QED
    BY <1>3, <2>1, <2>2
<1>6. CASE UNCHANGED boardVars
  BY <1>6 DEF boardVars, BoardTypeOK, RowsAreLog, IsPicture, LastTouch, BoardCap, Live
<1> QED
  BY <1>2, <1>4, <1>5, <1>6 DEF BoardNext

LEMMA BoardStart == BoardInit => BoardInv
<1> SUFFICES ASSUME BoardInit PROVE BoardInv
  OBVIOUS
<1>1. log \in Seq(Change) /\ Len(log) = 0
  BY EmptySeq DEF BoardInit
<1>2. Live = {}
  BY DEF BoardInit, Live
<1>3. BoardTypeOK
  BY <1>1 DEF BoardInit, BoardTypeOK
<1>4. RowsAreLog
  BY <1>1 DEF BoardInit, RowsAreLog, IsPicture
<1>5. BoardCap
  BY <1>2, FS_EmptySet, BoardCapAssumption DEF BoardCap
<1> QED
  BY <1>3, <1>4, <1>5 DEF BoardInv

\* The board keeps its types.
THEOREM BoardTypes == BoardSpec => []BoardTypeOK
<1>1. BoardInv => BoardTypeOK
  BY DEF BoardInv
<1> QED
  BY <1>1, BoardStart, BoardStep, PTL DEF BoardSpec

\* The stored rows are what the whole history leaves, numbered without a gap:
\* deleting what was erased, and replacing what was drawn again, loses nothing.
THEOREM CompactionLossless == BoardSpec => []RowsAreLog
<1>1. BoardInv => RowsAreLog
  BY DEF BoardInv
<1> QED
  BY <1>1, BoardStart, BoardStep, PTL DEF BoardSpec

\* There are never more elements than MaxElements.
THEOREM NeverTooMany == BoardSpec => []BoardCap
<1>1. BoardInv => BoardCap
  BY DEF BoardInv
<1> QED
  BY <1>1, BoardStart, BoardStep, PTL DEF BoardSpec
=============================================================================
