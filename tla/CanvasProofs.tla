---------------------------- MODULE CanvasProofs ------------------------------
(***************************************************************************)
(* Proofs about Canvas, and Whiteboard under it, for any members, ids,     *)
(* bounds and situations: whatever the sessions and the network do, the    *)
(* stored board is Board's, and nobody sees what another drew together     *)
(* with its draft.                                                         *)
(***************************************************************************)
EXTENDS Canvas, BoardProofs, SequencesExt, FiniteSetTheorems, SequenceTheorems,
        WellFoundedInduction, TLAPS

-----------------------------------------------------------------------------
(* Sequences: induction and recursion along them, and the types of what is *)
(* removed from them and listed by them.                                   *)

\* Numbers are well ordered.
LEMMA Least ==
    ASSUME NEW S \in SUBSET Nat, S # {}
    PROVE  \E x \in S : \A y \in S : x <= y
<1> DEFINE R == {ss \in Nat \X Nat : ss[1] < ss[2]}
<1>1. IsWellFoundedOn(R, Nat)
  BY NatLessThanWellFounded DEF OpToRel
<1>2. PICK x \in S : \A y \in S : ~(<<y, x>> \in R)
  BY <1>1, WFMin, Zenon
<1>3. ASSUME NEW y \in S PROVE x <= y
  <2>1. x \in Nat /\ y \in Nat /\ <<y, x>> \in Nat \X Nat
    OBVIOUS
  <2>2. ~(y < x)
    BY <1>2, <2>1
  <2> QED
    BY <2>1, <2>2
<1> QED
  BY <1>3

\* Induction up to n: what holds at 0 and is passed on holds up to n.
LEMMA Steps ==
    ASSUME NEW n \in Nat, NEW S, 0 \in S, \A i \in 0 .. n - 1 : i \in S => i + 1 \in S
    PROVE  0 .. n \subseteq S
<1> DEFINE M == (0 .. n) \ S
<1> SUFFICES ASSUME M # {} PROVE FALSE
  OBVIOUS
<1>1. M \in SUBSET Nat
  OBVIOUS
<1> HIDE DEF M
<1>2. PICK x \in M : \A y \in M : x <= y
  BY <1>1, Least
<1>3. x \in 0 .. n /\ x \notin S
  BY DEF M
<1>4. x # 0 /\ x - 1 \in 0 .. n - 1
  BY <1>3
<1>5. x - 1 \notin M
  BY <1>2, <1>4, <1>3
<1>6. x - 1 \in S
  BY <1>4, <1>5 DEF M
<1> QED
  BY <1>3, <1>4, <1>6

\* f is the function by recursion on 0 .. n with f[0] = a and the steps g.
Recursive(f, n, V, a, g) ==
    /\ f \in [0 .. n -> V]
    /\ f[0] = a /\ \A i \in 1 .. n : f[i] = g[i][f[i - 1]]

\* There is one.
LEMMA Recursion ==
    ASSUME NEW n \in Nat, NEW V, NEW a \in V, NEW g \in [1 .. n -> [V -> V]]
    PROVE  \E f : Recursive(f, n, V, a, g)
<1> DEFINE Upto(m, f) == f[0] = a /\ \A i \in 1 .. m : f[i] = g[i][f[i - 1]]
           N == {m \in 0 .. n : \E f \in [0 .. m -> V] : Upto(m, f)}
<1>1. 0 \in N
  <2> DEFINE h == [i \in 0 .. 0 |-> a]
  <2>1. h \in [0 .. 0 -> V] /\ Upto(0, h)
    OBVIOUS
  <2> HIDE DEF h, Upto
  <2> QED
    BY <2>1
<1>2. ASSUME NEW m \in 0 .. n - 1, m \in N PROVE m + 1 \in N
  <2>1. PICK f \in [0 .. m -> V] : Upto(m, f)
    BY <1>2
  <2> DEFINE h == [i \in 0 .. m + 1 |-> IF i = m + 1 THEN g[m + 1][f[m]] ELSE f[i]]
  <2>2. h \in [0 .. m + 1 -> V]
    BY <2>1
  <2>3. h[0] = a
    BY <2>1
  <2>4. ASSUME NEW i \in 1 .. m + 1 PROVE h[i] = g[i][h[i - 1]]
    <3>1. i - 1 \in 0 .. m /\ h[i - 1] = f[i - 1]
      OBVIOUS
    <3>2. CASE i = m + 1
      <4>1. h[m + 1] = g[m + 1][f[m]] /\ h[m] = f[m]
        OBVIOUS
      <4> QED
        BY <3>2, <4>1
    <3>3. CASE i # m + 1
      <4>1. i \in 1 .. m /\ h[i] = f[i]
        BY <3>3
      <4> QED
        BY <2>1, <3>1, <4>1
    <3> QED
      BY <3>2, <3>3
  <2>5. Upto(m + 1, h)
    BY <2>3, <2>4
  <2>6. m + 1 \in 0 .. n
    OBVIOUS
  <2> HIDE DEF h, Upto
  <2> QED
    BY <2>2, <2>5, <2>6
<1>3. n \in N
  <2>1. \A m \in 0 .. n - 1 : m \in N => m + 1 \in N
    BY <1>2
  <2> HIDE DEF N
  <2>2. 0 .. n \subseteq N
    BY <1>1, <2>1, Steps
  <2> QED
    BY <2>2
<1> QED
  BY <1>3 DEF Recursive

-----------------------------------------------------------------------------
\* Removing one element keeps the type of a sequence.
LEMMA RemoveAtSeq ==
    ASSUME NEW S, NEW s \in Seq(S), NEW k \in DOMAIN s
    PROVE  RemoveAt(s, k) \in Seq(S)
<1>1. k \in 1 .. Len(s) /\ Len(s) \in Nat
  OBVIOUS
<1>2. SubSeq(s, 1, k - 1) \in Seq(S) /\ SubSeq(s, k + 1, Len(s)) \in Seq(S)
  BY <1>1, SubSeqProperties
<1> QED
  BY <1>2 DEF RemoveAt

\* A finite set can be listed.
LEMMA SetToSeqSeq ==
    ASSUME NEW S, IsFiniteSet(S)
    PROVE  SetToSeq(S) \in Seq(S)
<1>1. PICK f \in [1 .. Cardinality(S) -> S] : IsInjective(f)
  <2>1. PICK n \in Nat : ExistsBijection(1 .. n, S)
    BY FS_NatBijection
  <2>2. Cardinality(S) = n
    BY <2>1, FS_CountingElements
  <2> QED
    BY <2>1, <2>2 DEF ExistsBijection, Bijection, Injection, IsInjective
<1>2. Cardinality(S) \in Nat
  BY FS_CardinalityType
<1>3. SetToSeq(S) \in [1 .. Cardinality(S) -> S]
  BY <1>1 DEF SetToSeq
<1> QED
  BY <1>2, <1>3

-----------------------------------------------------------------------------
Picture == [els : Numbering, clear : Nat]

-----------------------------------------------------------------------------
(* What is selected and applied keeps its type.                            *)

\* Selecting keeps the type of a sequence.
LEMMA AmongSeq ==
    ASSUME NEW S, NEW s \in Seq(S), NEW P
    PROVE  Among(s, P) \in Seq(S)
<1> DEFINE step(n, v) == IF s[n] \in P THEN Append(v, s[n]) ELSE v
           none == <<>>
           Is(f) == f = [n \in 0 .. Len(s) |-> IF n = 0 THEN none ELSE step(n, f[n - 1])]
           kept == CHOOSE f : Is(f)
           V == Seq(S)
           N == Len(s)
           g == [n \in 1 .. N |-> [v \in V |-> step(n, v)]]
<1>1. Among(s, P) = kept[N]
  BY DEF Among
<1>2. N \in Nat /\ none \in V
  OBVIOUS
<1>3. \A n \in 1 .. N, v \in V : step(n, v) \in V
  OBVIOUS
<1> HIDE DEF V, N, step, none
<1>4. g \in [1 .. N -> [V -> V]] /\ \A n \in 1 .. N, v \in V : g[n][v] = step(n, v)
  BY <1>3
<1> HIDE DEF g
<1>5. PICK f : Recursive(f, N, V, none, g)
  BY <1>2, <1>4, Recursion
<1>6. \A n \in 1 .. N : f[n] = step(n, f[n - 1])
  BY <1>2, <1>4, <1>5 DEF Recursive
<1>7. Is(f)
  BY <1>2, <1>5, <1>6 DEF N, Recursive
<1>8. Is(kept)
  BY <1>7, Zenon
<1> HIDE DEF kept
<1>9. kept[0] = none /\ \A n \in 0 .. N - 1 : kept[n + 1] = step(n + 1, kept[n])
  BY <1>2, <1>8 DEF N
<1> DEFINE T == {n \in 0 .. N : kept[n] \in V}
<1>10. 0 \in T /\ \A n \in 0 .. N - 1 : n \in T => n + 1 \in T
  BY <1>2, <1>3, <1>9
<1>11. 0 .. N \subseteq T
  <2> HIDE DEF T
  <2> QED
    BY <1>2, <1>10, Steps
<1> QED
  BY <1>1, <1>2, <1>11 DEF V

LEMMA AppliedType ==
    ASSUME NEW v \in Picture, NEW op \in AnswerType
    PROVE  Applied(v, op) \in Picture
BY DEF Picture, Numbering, AnswerType, ChangeKinds, Applied, Erased

LEMMA AllAppliedType ==
    ASSUME NEW v \in Picture, NEW ops \in Seq(AnswerType)
    PROVE  AllApplied(v, ops) \in Picture
<1> DEFINE step(n, x) == Applied(x, ops[n])
           Is(f) == f = [n \in 0 .. Len(ops) |-> IF n = 0 THEN v ELSE step(n, f[n - 1])]
           after == CHOOSE f : Is(f)
           N == Len(ops)
           g == [n \in 1 .. N |-> [x \in Picture |-> step(n, x)]]
<1>1. AllApplied(v, ops) = after[N]
  BY DEF AllApplied
<1>2. N \in Nat /\ v \in Picture
  OBVIOUS
<1>3. \A n \in 1 .. N, x \in Picture : step(n, x) \in Picture
  BY AppliedType
<1> HIDE DEF N, step
<1>4. g \in [1 .. N -> [Picture -> Picture]] /\ \A n \in 1 .. N, x \in Picture : g[n][x] = step(n, x)
  BY <1>3
<1> HIDE DEF g
<1>5. PICK f : Recursive(f, N, Picture, v, g)
  BY <1>2, <1>4, Recursion
<1>6. \A n \in 1 .. N : f[n] = step(n, f[n - 1])
  BY <1>2, <1>4, <1>5 DEF Recursive
<1>7. Is(f)
  BY <1>2, <1>5, <1>6 DEF N, Recursive
<1>8. Is(after)
  BY <1>7, Zenon
<1> HIDE DEF after
<1>9. after[0] = v /\ \A n \in 0 .. N - 1 : after[n + 1] = step(n + 1, after[n])
  BY <1>2, <1>8 DEF N
<1> DEFINE T == {n \in 0 .. N : after[n] \in Picture}
<1>10. 0 \in T /\ \A n \in 0 .. N - 1 : n \in T => n + 1 \in T
  BY <1>2, <1>3, <1>9
<1>11. 0 .. N \subseteq T
  <2> HIDE DEF T
  <2> QED
    BY <1>2, <1>10, Steps
<1> QED
  BY <1>1, <1>2, <1>11

-----------------------------------------------------------------------------
(* The changes of a session, one lemma for each operator that several      *)
(* actions use.                                                            *)

PictureTypes ==
    /\ elements \in [Members -> Numbering] /\ lastClear \in [Members -> Nat]
    /\ undoStack \in [Members -> Seq(UndoType)] /\ redoStack \in [Members -> Seq(UndoType)]

LEMMA BecomeType ==
    ASSUME SessionTypes, NEW c \in Members, NEW v \in Picture, NEW wiped \in BOOLEAN,
           Become(c, v, wiped)
    PROVE  PictureTypes'
<1>1. v.els \in Numbering /\ v.clear \in Nat
  BY DEF Picture
<1> QED
  BY <1>1 DEF SessionTypes, PictureTypes, Become

LEMMA ApplyType ==
    ASSUME SessionTypes, NEW c \in Members, NEW op \in AnswerType, Apply(c, op)
    PROVE  PictureTypes'
<1>1. Standing(c) \in Picture
  BY DEF SessionTypes, Standing, Picture
<1>2. Applied(Standing(c), op) \in Picture
  BY <1>1, AppliedType
<1> QED
  BY <1>2, BecomeType DEF Apply

LEMMA LaterType ==
    ASSUME SessionTypes, NEW c \in Members
    PROVE  Later(c) \in Seq(AnswerType)
<1>1. buffer[c] \in Seq(AnswerType)
  BY DEF SessionTypes
<1> QED
  BY <1>1, AmongSeq DEF Later

LEMMA LoadType ==
    ASSUME SessionTypes, NEW c \in Members, Load(c, Later(c))
    PROVE  PictureTypes'
<1> DEFINE els == [id \in Ids |-> IF snap[c].rows[id] = NoRow THEN 0 ELSE snap[c].rows[id].seq]
<1>1. els \in Numbering /\ lastClear[c] \in Nat
  BY DEF SessionTypes, Numbering, Row
<1>2. [els |-> els, clear |-> lastClear[c]] \in Picture
  BY <1>1 DEF Picture
<1>3. AllApplied([els |-> els, clear |-> lastClear[c]], Later(c)) \in Picture
  BY <1>2, LaterType, AllAppliedType
<1> QED
  BY <1>3, BecomeType DEF Load

\* What is asked for is typed.
LEMMA PutType ==
    ASSUME SessionTypes, WireTypes, NEW c \in Members, NEW ids \in SUBSET Ids, Put(c, ids)
    PROVE  /\ elements' \in [Members -> Numbering]
           /\ requests' \in [Members -> Seq(RequestType)]
<1> DEFINE f == [id \in ids |-> Request("add", {id}, Nothing)]
           asks == {Request("add", {id}, Nothing) : id \in ids}
<1>1. asks \subseteq RequestType
  BY DEF Request, RequestType, ChangeKinds, Nothing, Numbering
<1>2. IsFiniteSet(asks)
  <2>1. IsFiniteSet(ids)
    BY BoardIdsAssumption, FS_Subset
  <2>2. f \in Surjection(ids, asks)
    BY DEF Surjection
  <2> QED
    BY <2>1, <2>2, FS_Surjection
<1>3. SetToSeq(asks) \in Seq(RequestType)
  BY <1>1, <1>2, SetToSeqSeq, SeqMonotonic
<1>4. requests[c] \in Seq(RequestType)
  BY DEF WireTypes
<1>5. requests[c] \o SetToSeq(asks) \in Seq(RequestType)
  BY <1>3, <1>4, ConcatProperties
<1>6. requests' \in [Members -> Seq(RequestType)]
  BY <1>5 DEF Put, WireTypes
<1>7. [id \in Ids |-> IF id \in ids THEN Pending ELSE elements[c][id]] \in Numbering
  BY WhiteboardAssumption DEF SessionTypes, Numbering, Pending
<1>8. elements' \in [Members -> Numbering]
  BY <1>7 DEF Put, SessionTypes
<1> QED
  BY <1>6, <1>8

LEMMA TakeOffType ==
    ASSUME SessionTypes, WireTypes, NEW c \in Members, NEW ids, TakeOff(c, ids)
    PROVE  /\ elements' \in [Members -> Numbering]
           /\ requests' \in [Members -> Seq(RequestType)]
<1> DEFINE hit == ids \cap Shown(c)
           back == [id \in Ids |-> IF id \in hit THEN elements[c][id] ELSE 0]
<1>1. hit \in SUBSET Ids /\ back \in Numbering
  BY DEF Numbering, Shown, SessionTypes
<1>2. Request("remove", hit, back) \in RequestType
  BY <1>1 DEF Request, RequestType, ChangeKinds
<1>3. requests' \in [Members -> Seq(RequestType)]
  BY <1>2 DEF TakeOff, WireTypes
<1>4. Erased(elements[c], hit) \in Numbering
  BY DEF SessionTypes, Numbering, Erased
<1>5. elements' \in [Members -> Numbering]
  BY <1>4 DEF TakeOff, SessionTypes
<1> QED
  BY <1>3, <1>5

LEMMA RecordType ==
    ASSUME SessionTypes, NEW c \in Members, NEW kind \in {"add", "erase"}, NEW ids \in SUBSET Ids,
           Record(c, kind, ids)
    PROVE  /\ undoStack' \in [Members -> Seq(UndoType)]
           /\ redoStack' \in [Members -> Seq(UndoType)]
<1>1. [kind |-> kind, ids |-> ids] \in UndoType
  BY DEF UndoType
<1>2. undoStack[c] \in Seq(UndoType)
  BY DEF SessionTypes
<1>3. Append(undoStack[c], [kind |-> kind, ids |-> ids]) \in Seq(UndoType)
  BY <1>1, <1>2, AppendProperties
<1> QED
  BY <1>3 DEF Record, SessionTypes

-----------------------------------------------------------------------------
(* The actions of Whiteboard keep its types.                               *)

WhiteTypes == BoardTypeOK /\ SessionTypes /\ WireTypes

SnapType == [state : {"none", "asked", "got"}, seq : Nat, rows : [Ids -> Row \cup {NoRow}]]

LEMMA SnapTypes == NoSnap \in SnapType /\ Asked \in SnapType
BY DEF NoSnap, Asked, SnapType

LEMMA PictureKept ==
    ASSUME SessionTypes, PictureTypes', UNCHANGED <<phase, buffer, snap, queue>>
    PROVE  SessionTypes'
BY DEF SessionTypes, PictureTypes

LEMMA ResetType ==
    ASSUME WhiteTypes, NEW c \in Members, NEW ph \in {"closed", "loading"},
           NEW sn \in {NoSnap, Asked}, Reset(c, ph, sn)
    PROVE  SessionTypes'
<1>1. sn \in SnapType
  BY SnapTypes
<1>2. Nothing \in Numbering
  BY DEF Nothing, Numbering
<1> QED
  BY <1>1, <1>2 DEF WhiteTypes, SessionTypes, SnapType, Reset

LEMMA LoadingTypes ==
    ASSUME WhiteTypes, NEW c \in Members,
           Open(c) \/ ReadSnapshot(c) \/ LoadFailed(c) \/ Retry(c)
    PROVE  SessionTypes' /\ WireTypes'
<1> USE DEF WhiteTypes
<1>1. CASE Open(c)
  BY <1>1, ResetType DEF Open, wireVars, WireTypes
<1>2. CASE ReadSnapshot(c)
  <2> DEFINE got == [state |-> "got", seq |-> boardSeq, rows |-> rows]
  <2>1. got \in SnapType
    BY DEF BoardTypeOK, SnapType
  <2>2. snap' = [snap EXCEPT ![c] = got]
    BY <1>2 DEF ReadSnapshot
  <2> HIDE DEF got
  <2> QED
    BY <1>2, <2>1, <2>2 DEF ReadSnapshot, wireVars, WireTypes, SessionTypes, SnapType
<1>3. CASE LoadFailed(c)
  <2>1. /\ snap' = [snap EXCEPT ![c] = NoSnap]
        /\ phase' = [phase EXCEPT ![c] = "failed"]
        /\ UNCHANGED <<elements, buffer, queue, lastClear, undoStack, redoStack, requests, inbox, drawn, asked>>
    BY <1>3 DEF LoadFailed, wireVars
  <2>2. SessionTypes'
    BY <2>1, SnapTypes DEF SessionTypes, SnapType
  <2>3. WireTypes'
    BY <2>1 DEF WireTypes
  <2> QED
    BY <2>2, <2>3
<1>4. CASE Retry(c)
  <2> DEFINE none == <<>>
  <2>1. none \in Seq(AnswerType)
    OBVIOUS
  <2>2. /\ phase' = [phase EXCEPT ![c] = "loading"]
        /\ buffer' = [buffer EXCEPT ![c] = none]
        /\ snap' = [snap EXCEPT ![c] = Asked]
        /\ UNCHANGED <<elements, queue, lastClear, undoStack, redoStack, requests, inbox, drawn, asked>>
    BY <1>4 DEF Retry, wireVars
  <2> HIDE DEF none
  <2> QED
    BY <2>1, <2>2, SnapTypes DEF WireTypes, SessionTypes, SnapType
<1> QED
  BY <1>1, <1>2, <1>3, <1>4

LEMMA RejoinTypes ==
    ASSUME WhiteTypes, NEW c \in Members, Rejoin(c)
    PROVE  SessionTypes' /\ WireTypes'
<1> USE DEF WhiteTypes
<1>1. SessionTypes'
  BY ResetType DEF Rejoin
<1> DEFINE sent == Among(requests[c], {q \in Range(requests[c]) : q.stage # "sealing"})
           gone == [k \in DOMAIN sent |-> [sent[k] EXCEPT !.asker = "gone"]]
<1>2. sent \in Seq(RequestType)
  BY AmongSeq DEF WireTypes
<1> HIDE DEF sent
<1>3. \A k \in DOMAIN sent : [sent[k] EXCEPT !.asker = "gone"] \in RequestType
  <2> SUFFICES ASSUME NEW k \in DOMAIN sent PROVE [sent[k] EXCEPT !.asker = "gone"] \in RequestType
    OBVIOUS
  <2>1. sent[k] \in RequestType
    BY <1>2
  <2> QED
    BY <2>1 DEF RequestType
<1>4. gone \in Seq(RequestType)
  BY <1>2, <1>3
<1> DEFINE none == <<>>
<1>5. /\ requests' = [requests EXCEPT ![c] = gone]
      /\ inbox' = [inbox EXCEPT ![c] = none]
      /\ UNCHANGED <<drawn, asked>>
  BY DEF Rejoin, sent
<1>6. none \in Seq(AnswerType \cup FrameType)
  OBVIOUS
<1> HIDE DEF gone, none
<1>7. WireTypes'
  BY <1>4, <1>5, <1>6 DEF WireTypes
<1> QED
  BY <1>1, <1>7

LEMMA LoadedTypes ==
    ASSUME WhiteTypes, NEW c \in Members, Loaded(c)
    PROVE  SessionTypes' /\ WireTypes'
<1> USE DEF WhiteTypes
<1>1. PictureTypes'
  BY LoadType DEF Loaded
<1> DEFINE none == <<>>
<1>2. /\ phase' = [phase EXCEPT ![c] = "ready"]
      /\ buffer' = [buffer EXCEPT ![c] = none]
      /\ snap' = [snap EXCEPT ![c] = NoSnap]
      /\ UNCHANGED <<queue, requests, inbox, drawn, asked>>
  BY DEF Loaded, wireVars
<1>3. none \in Seq(AnswerType)
  OBVIOUS
<1> HIDE DEF none
<1>4. SessionTypes'
  BY <1>1, <1>2, <1>3, SnapTypes DEF SessionTypes, PictureTypes, SnapType
<1> QED
  BY <1>2, <1>4 DEF WireTypes

LEMMA ApplyNextTypes ==
    ASSUME WhiteTypes, NEW c \in Members, ApplyNext(c)
    PROVE  SessionTypes' /\ WireTypes' /\ Head(queue[c]) \in AnswerType
<1> USE DEF WhiteTypes
<1>1. Head(queue[c]) \in AnswerType /\ Tail(queue[c]) \in Seq(AnswerType)
  BY HeadTailProperties DEF ApplyNext, SessionTypes
<1>2. PictureTypes'
  BY <1>1, ApplyType DEF ApplyNext
<1> QED
  BY <1>1, <1>2 DEF ApplyNext, wireVars, WireTypes, SessionTypes, PictureTypes

\* What members ask for.
LEMMA UndoTypes ==
    ASSUME WhiteTypes, NEW c \in Members, Undo(c) \/ Redo(c)
    PROVE  SessionTypes' /\ WireTypes'
<1> USE DEF WhiteTypes
<1>1. ASSUME NEW s \in Seq(UndoType), s # <<>>
      PROVE  Last(s) \in UndoType /\ Front(s) \in Seq(UndoType)
  BY <1>1, SubSeqProperties DEF Last, Front
<1>2. ASSUME NEW n \in Nat, CanAsk(c, n)
      PROVE  asked' \in Nat
  BY <1>2 DEF CanAsk, WireTypes
<1>3. ASSUME NEW ids \in SUBSET Ids PROVE Cardinality(ids) \in Nat
  BY BoardIdsAssumption, FS_Subset, FS_CardinalityType
<1>4. CASE Undo(c)
  <2> DEFINE a == Last(undoStack[c])
  <2>1. undoStack[c] \in Seq(UndoType) /\ undoStack[c] # <<>> /\ redoStack[c] \in Seq(UndoType)
    BY <1>4 DEF Undo, SessionTypes
  <2>2. a \in UndoType /\ Front(undoStack[c]) \in Seq(UndoType)
    BY <1>1, <2>1
  <2>3. a.ids \in SUBSET Ids
    BY <2>2 DEF UndoType
  <2>4. Append(redoStack[c], a) \in Seq(UndoType)
    BY <2>1, <2>2, AppendProperties
  <2>5. asked' \in Nat
    BY <1>2, <1>3, <1>4, <2>3 DEF Undo
  <2>6. elements' \in [Members -> Numbering] /\ requests' \in [Members -> Seq(RequestType)]
    BY <1>4, <2>3, PutType, TakeOffType DEF Undo
  <2> HIDE DEF a
  <2>7. /\ undoStack' = [undoStack EXCEPT ![c] = Front(undoStack[c])]
        /\ redoStack' = [redoStack EXCEPT ![c] = Append(redoStack[c], a)]
    BY <1>4 DEF Undo, a
  <2>8. UNCHANGED <<phase, buffer, snap, queue, lastClear, inbox, drawn>>
    BY <1>4 DEF Undo
  <2>9. PictureTypes'
    BY <2>2, <2>4, <2>6, <2>7, <2>8 DEF SessionTypes, PictureTypes
  <2> QED
    BY <2>5, <2>6, <2>8, <2>9, PictureKept DEF WireTypes
<1>5. CASE Redo(c)
  <2> DEFINE a == Last(redoStack[c])
  <2>1. redoStack[c] \in Seq(UndoType) /\ redoStack[c] # <<>> /\ undoStack[c] \in Seq(UndoType)
    BY <1>5 DEF Redo, SessionTypes
  <2>2. a \in UndoType /\ Front(redoStack[c]) \in Seq(UndoType)
    BY <1>1, <2>1
  <2>3. a.ids \in SUBSET Ids
    BY <2>2 DEF UndoType
  <2>4. Append(undoStack[c], a) \in Seq(UndoType)
    BY <2>1, <2>2, AppendProperties
  <2>5. asked' \in Nat
    BY <1>2, <1>3, <1>5, <2>3 DEF Redo
  <2>6. elements' \in [Members -> Numbering] /\ requests' \in [Members -> Seq(RequestType)]
    BY <1>5, <2>3, PutType, TakeOffType DEF Redo
  <2> HIDE DEF a
  <2>7. /\ redoStack' = [redoStack EXCEPT ![c] = Front(redoStack[c])]
        /\ undoStack' = [undoStack EXCEPT ![c] = Append(undoStack[c], a)]
    BY <1>5 DEF Redo, a
  <2>8. UNCHANGED <<phase, buffer, snap, queue, lastClear, inbox, drawn>>
    BY <1>5 DEF Redo
  <2>9. PictureTypes'
    BY <2>2, <2>4, <2>6, <2>7, <2>8 DEF SessionTypes, PictureTypes
  <2> QED
    BY <2>5, <2>6, <2>8, <2>9, PictureKept DEF WireTypes
<1> QED
  BY <1>4, <1>5

LEMMA AskTypes ==
    ASSUME WhiteTypes, NEW c \in Members,
           (\E id \in Ids : Draw(c, id)) \/ (\E ids \in SUBSET Ids : Erase(c, ids)) \/ Clear(c)
    PROVE  SessionTypes' /\ WireTypes'
<1> USE DEF WhiteTypes
<1>1. ASSUME NEW n \in Nat, CanAsk(c, n)
      PROVE  asked' \in Nat
  BY <1>1 DEF CanAsk, WireTypes
<1>2. ASSUME NEW id \in Ids, Draw(c, id) PROVE SessionTypes' /\ WireTypes'
  <2>1. asked' \in Nat
    BY <1>1, <1>2 DEF Draw
  <2>2. elements' \in [Members -> Numbering] /\ requests' \in [Members -> Seq(RequestType)]
    BY <1>2, PutType DEF Draw
  <2>3. undoStack' \in [Members -> Seq(UndoType)] /\ redoStack' \in [Members -> Seq(UndoType)]
    BY <1>2, RecordType DEF Draw
  <2> QED
    BY <1>2, <2>1, <2>2, <2>3 DEF Draw, SessionTypes, WireTypes
<1>3. ASSUME NEW ids \in SUBSET Ids, Erase(c, ids) PROVE SessionTypes' /\ WireTypes'
  <2>1. asked' \in Nat
    BY <1>1, <1>3 DEF Erase
  <2>2. elements' \in [Members -> Numbering] /\ requests' \in [Members -> Seq(RequestType)]
    BY <1>3, TakeOffType DEF Erase
  <2>3. undoStack' \in [Members -> Seq(UndoType)] /\ redoStack' \in [Members -> Seq(UndoType)]
    BY <1>3, RecordType DEF Erase
  <2> QED
    BY <1>3, <2>1, <2>2, <2>3 DEF Erase, SessionTypes, WireTypes
<1>4. CASE Clear(c)
  <2>1. Request("clear", Ids, Nothing) \in RequestType
    BY DEF Request, RequestType, ChangeKinds, Nothing, Numbering
  <2>2. asked' \in Nat
    BY <1>1, <1>4 DEF Clear
  <2>3. Append(requests[c], Request("clear", Ids, Nothing)) \in Seq(RequestType)
    BY <2>1, AppendProperties DEF WireTypes
  <2> QED
    BY <1>4, <2>2, <2>3 DEF Clear, sessionVars, SessionTypes, WireTypes
<1> QED
  BY <1>2, <1>3, <1>4
-----------------------------------------------------------------------------
(* The server and what the socket brings.                                  *)

\* A request is changed, sent on, or done with.
LEMMA RequestsType ==
    ASSUME WireTypes, NEW c \in Members, NEW s \in Seq(RequestType),
           requests' = [requests EXCEPT ![c] = s]
    PROVE  requests' \in [Members -> Seq(RequestType)]
BY DEF WireTypes

LEMMA RequestAt ==
    ASSUME WireTypes, NEW c \in Members, NEW k \in DOMAIN requests[c]
    PROVE  /\ requests[c] \in Seq(RequestType) /\ requests[c][k] \in RequestType
           /\ k \in 1 .. Len(requests[c]) /\ RemoveAt(requests[c], k) \in Seq(RequestType)
<1>1. requests[c] \in Seq(RequestType)
  BY DEF WireTypes
<1>2. RemoveAt(requests[c], k) \in Seq(RequestType)
  BY <1>1, RemoveAtSeq
<1> QED
  BY <1>1, <1>2

LEMMA AnswerTypes ==
    ASSUME NEW q \in RequestType, NEW type \in {"op", "ack", "nack", "late"}
    PROVE  Answer(q, type) \in AnswerType
BY DEF Answer, RequestType, AnswerType

LEMMA SealedTypes ==
    ASSUME WhiteTypes, NEW c \in Members, NEW k \in DOMAIN requests[c], Sealed(c, k)
    PROVE  SessionTypes' /\ WireTypes'
<1> USE DEF WhiteTypes
<1> DEFINE q == [requests[c][k] EXCEPT !.stage = "sent"]
           left == RemoveAt(requests[c], k)
<1>1. q \in RequestType
  <2>1. requests[c][k] \in RequestType
    BY RequestAt
  <2> QED
    BY <2>1 DEF RequestType
<1>2. left \in Seq(RequestType)
  BY RequestAt
<1> HIDE DEF q, left
<1>3. Append(left, q) \in Seq(RequestType)
  BY <1>1, <1>2, AppendProperties
<1>4. requests' = [requests EXCEPT ![c] = Append(left, q)]
  BY DEF Sealed, q, left
<1>5. UNCHANGED <<sessionVars, inbox, drawn, asked>>
  BY DEF Sealed
<1>6. requests' \in [Members -> Seq(RequestType)]
  BY <1>3, <1>4, RequestsType
<1> QED
  BY <1>5, <1>6 DEF sessionVars, SessionTypes, WireTypes

\* A change that is stored is one of Board's.
LEMMA StoreIsBoards ==
    ASSUME WhiteTypes, NEW c \in Members, NEW k \in DOMAIN requests[c], Store(c, k)
    PROVE  BoardNext
<1> USE DEF WhiteTypes
<1>1. requests[c][k] \in RequestType
  BY RequestAt
<1>2. requests[c][k].ids \in SUBSET Ids
  BY <1>1 DEF RequestType
<1> QED
  BY <1>2 DEF Store, BoardNext

LEMMA StoreTypes ==
    ASSUME WhiteTypes, NEW c \in Members, NEW k \in DOMAIN requests[c], Store(c, k),
           boardSeq' \in Nat
    PROVE  SessionTypes' /\ WireTypes'
<1> USE DEF WhiteTypes
<1> DEFINE q == [requests[c][k] EXCEPT !.stage = "stored", !.seq = boardSeq']
           s == [requests[c] EXCEPT ![k] = q]
<1>1. q \in RequestType
  <2>1. requests[c][k] \in RequestType
    BY RequestAt
  <2> QED
    BY <2>1 DEF RequestType
<1>2. requests' = [requests EXCEPT ![c] = s]
  BY RequestAt DEF Store, WireTypes
<1>3. s \in Seq(RequestType)
  <2> HIDE DEF q
  <2>1. requests[c] \in Seq(RequestType) /\ k \in 1 .. Len(requests[c])
    BY RequestAt
  <2> QED
    BY <1>1, <2>1
<1> HIDE DEF s
<1>4. requests' \in [Members -> Seq(RequestType)]
  BY <1>2, <1>3, RequestsType
<1>5. UNCHANGED <<sessionVars, inbox, drawn, asked>>
  BY DEF Store
<1> QED
  BY <1>4, <1>5 DEF sessionVars, SessionTypes, WireTypes

LEMMA AnsweredTypes ==
    ASSUME WhiteTypes, NEW c \in Members, NEW k \in DOMAIN requests[c],
           Refuse(c, k) \/ Announce(c, k)
    PROVE  SessionTypes' /\ WireTypes'
<1> USE DEF WhiteTypes
<1> DEFINE q == requests[c][k]
           Wire == AnswerType \cup FrameType
<1>1. q \in RequestType
  BY RequestAt
<1>2. requests' = [requests EXCEPT ![c] = RemoveAt(requests[c], k)]
  BY DEF Refuse, Announce
<1>3. requests' \in [Members -> Seq(RequestType)]
  BY <1>2, RequestAt, RequestsType
<1>4. ASSUME NEW d \in Members, NEW type \in {"op", "ack", "nack"}
      PROVE  Append(inbox[d], Answer(q, type)) \in Seq(Wire)
  <2>1. Answer(q, type) \in Wire
    BY <1>1, AnswerTypes
  <2>2. inbox[d] \in Seq(Wire)
    BY DEF WireTypes
  <2> HIDE DEF q, Wire
  <2> QED
    BY <2>1, <2>2, AppendProperties
<1>5. inbox \in [Members -> Seq(Wire)]
  BY DEF WireTypes
<1> HIDE DEF Wire
<1>6. inbox' \in [Members -> Seq(Wire)]
  <2>1. CASE Refuse(c, k)
    <3> DEFINE told == Append(inbox[c], Answer(q, "nack"))
    <3>1. told \in Seq(Wire)
      BY <1>4
    <3>2. inbox' = inbox \/ inbox' = [inbox EXCEPT ![c] = told]
      BY <2>1 DEF Refuse
    <3> HIDE DEF told
    <3> QED
      BY <1>5, <3>1, <3>2
  <2>2. CASE Announce(c, k)
    <3> DEFINE op(d) == Append(inbox[d], Answer(q, "op"))
               ack(d) == Append(inbox[d], Answer(q, "ack"))
    <3>1. \A d \in Members : op(d) \in Seq(Wire) /\ ack(d) \in Seq(Wire)
      BY <1>4
    <3>2. inbox' = [d \in Members |-> IF d # c \/ q.asker = "gone" THEN op(d)
                                      ELSE IF q.asker = "waiting" THEN ack(d) ELSE inbox[d]]
      BY <2>2 DEF Announce
    <3> HIDE DEF op, ack
    <3> QED
      BY <1>5, <3>1, <3>2
  <2> QED
    BY <2>1, <2>2
<1>7. UNCHANGED <<sessionVars, drawn, asked>>
  BY DEF Refuse, Announce
<1> QED
  BY <1>3, <1>6, <1>7 DEF sessionVars, SessionTypes, WireTypes, Wire

\* A failure is handled, of a change that is refused or given up.
LEMMA NackedTypes ==
    ASSUME SessionTypes, NEW c \in Members, NEW a \in AnswerType, Nacked(c, a)
    PROVE  PictureTypes' /\ UNCHANGED <<buffer, queue>>
<1> DEFINE els == [id \in Ids |-> IF a.back[id] # 0 THEN a.back[id] ELSE elements[c][id]]
           wanted == {x \in Range(undoStack[c]) : ~(x.kind = "add" /\ x.ids = a.ids)}
<1>1. /\ els \in Numbering /\ Erased(elements[c], a.ids) \in Numbering
      /\ a.kind \in ChangeKinds
  BY DEF SessionTypes, Numbering, AnswerType, Erased
<1>2. Among(undoStack[c], wanted) \in Seq(UndoType)
  BY AmongSeq DEF SessionTypes
<1> HIDE DEF els, wanted
<1>3. CASE a.kind = "add"
  <2>1. /\ elements' = [elements EXCEPT ![c] = Erased(elements[c], a.ids)]
        /\ undoStack' = [undoStack EXCEPT ![c] = Among(undoStack[c], wanted)]
        /\ UNCHANGED <<lastClear, redoStack, buffer, queue>>
    BY <1>3 DEF Nacked, wanted
  <2> QED
    BY <1>1, <1>2, <2>1 DEF SessionTypes, PictureTypes
<1>4. CASE a.kind = "remove"
  <2>1. /\ elements' = [elements EXCEPT ![c] = els]
        /\ UNCHANGED <<lastClear, undoStack, redoStack, buffer, queue>>
    BY <1>4 DEF Nacked, els
  <2> QED
    BY <1>1, <2>1 DEF SessionTypes, PictureTypes
<1>5. CASE a.kind = "clear"
  BY <1>5 DEF Nacked, Unchanged, SessionTypes, PictureTypes
<1> QED
  BY <1>1, <1>3, <1>4, <1>5 DEF ChangeKinds

LEMMA AckedTypes ==
    ASSUME SessionTypes, NEW c \in Members, NEW a \in AnswerType, Acked(c, a)
    PROVE  PictureTypes' /\ UNCHANGED <<buffer, queue>>
<1> DEFINE els == [id \in Ids |-> IF id \notin a.ids THEN elements[c][id]
                     ELSE IF a.seq < lastClear[c] \/ elements[c][id] = 0 THEN 0 ELSE a.seq]
<1>1. els \in Numbering /\ a.kind \in ChangeKinds
  BY DEF SessionTypes, Numbering, AnswerType
<1> HIDE DEF els
<1>2. CASE a.kind = "add"
  <2>1. /\ elements' = [elements EXCEPT ![c] = els]
        /\ UNCHANGED <<lastClear, undoStack, redoStack, buffer, queue>>
    BY <1>2 DEF Acked, els
  <2> QED
    BY <1>1, <2>1 DEF SessionTypes, PictureTypes
<1>3. CASE a.kind = "remove"
  BY <1>3 DEF Acked, Unchanged, SessionTypes, PictureTypes
<1>4. CASE a.kind = "clear"
  <2>1. Apply(c, a) /\ UNCHANGED <<buffer, queue>>
    BY <1>4 DEF Acked
  <2> QED
    BY <2>1, ApplyType
<1> QED
  BY <1>1, <1>2, <1>3, <1>4 DEF ChangeKinds

LEMMA ReceiveTypes ==
    ASSUME WhiteTypes, NEW c \in Members, Receive(c)
    PROVE  SessionTypes' /\ WireTypes'
<1> USE DEF WhiteTypes
<1> DEFINE msg == Head(inbox[c])
           Wire == AnswerType \cup FrameType
<1>1. msg \in Wire /\ Tail(inbox[c]) \in Seq(Wire)
  <2>1. inbox[c] \in Seq(Wire) /\ inbox[c] # <<>>
    BY DEF Receive, WireTypes
  <2> HIDE DEF Wire
  <2> QED
    BY <2>1, HeadTailProperties
<1>2. msg.type # "live" => msg \in AnswerType
  BY <1>1 DEF FrameType
<1>3. inbox' = [inbox EXCEPT ![c] = Tail(inbox[c])] /\ UNCHANGED <<phase, snap, requests, drawn, asked>>
  BY DEF Receive
<1>4. OnOp(c, msg) \/ Acked(c, msg) \/ Nacked(c, msg)
  BY DEF Receive
<1>5. WireTypes'
  <2> HIDE DEF msg
  <2> QED
    BY <1>1, <1>3 DEF WireTypes
<1> HIDE DEF msg, Wire
<1>6. CASE OnOp(c, msg)
  <2>1. msg \in AnswerType
    BY <1>2, <1>6 DEF OnOp
  <2>2. Append(buffer[c], msg) \in Seq(AnswerType) /\ Append(queue[c], msg) \in Seq(AnswerType)
    BY <2>1, AppendProperties DEF SessionTypes
  <2>3. buffer' \in [Members -> Seq(AnswerType)] /\ queue' \in [Members -> Seq(AnswerType)]
    BY <1>6, <2>2 DEF OnOp, SessionTypes
  <2> QED
    BY <1>3, <1>5, <1>6, <2>3 DEF OnOp, Unchanged, SessionTypes
<1>7. CASE Acked(c, msg)
  <2>1. msg \in AnswerType
    BY <1>2, <1>7 DEF Acked
  <2> QED
    BY <1>3, <1>5, <1>7, <2>1, AckedTypes, PictureKept
<1>8. CASE Nacked(c, msg)
  <2>1. msg \in AnswerType
    BY <1>2, <1>8 DEF Nacked
  <2> QED
    BY <1>3, <1>5, <1>8, <2>1, NackedTypes, PictureKept
<1> QED
  BY <1>4, <1>6, <1>7, <1>8

LEMMA TimeoutTypes ==
    ASSUME WhiteTypes, NEW c \in Members, NEW k \in DOMAIN requests[c], Timeout(c, k)
    PROVE  SessionTypes' /\ WireTypes'
<1> USE DEF WhiteTypes
<1> DEFINE q == [requests[c][k] EXCEPT !.asker = "gaveUp"]
           s == [requests[c] EXCEPT ![k] = q]
           a == Answer(requests[c][k], "late")
<1>1. q \in RequestType /\ a \in AnswerType
  <2>1. requests[c][k] \in RequestType
    BY RequestAt
  <2> QED
    BY <2>1, AnswerTypes DEF RequestType
<1>2. requests' = [requests EXCEPT ![c] = s]
  BY RequestAt DEF Timeout, WireTypes
<1>3. s \in Seq(RequestType)
  <2> HIDE DEF q
  <2>1. requests[c] \in Seq(RequestType) /\ k \in 1 .. Len(requests[c])
    BY RequestAt
  <2> QED
    BY <1>1, <2>1
<1>4. Nacked(c, a) /\ UNCHANGED <<phase, snap, inbox, drawn, asked>>
  BY DEF Timeout
<1> HIDE DEF s, a
<1>5. requests' \in [Members -> Seq(RequestType)]
  BY <1>2, <1>3, RequestsType
<1>6. SessionTypes'
  BY <1>1, <1>4, NackedTypes, PictureKept
<1> QED
  BY <1>4, <1>5, <1>6 DEF WireTypes
-----------------------------------------------------------------------------
(* Whatever of Whiteboard happens, the board's step is one of Board's.     *)

SessionsInv == BoardInv /\ SessionTypes /\ WireTypes

LEMMA OffTheBoard ==
    ASSUME SessionsInv, UNCHANGED boardVars, SessionTypes' /\ WireTypes'
    PROVE  SessionsInv' /\ [BoardNext]_boardVars
BY BoardStep DEF SessionsInv

LEMMA GestureStepKeeps ==
    ASSUME SessionsInv, NEW c \in Members, GestureStep(c)
    PROVE  SessionsInv' /\ [BoardNext]_boardVars
<1>1. WhiteTypes
  BY DEF SessionsInv, BoardInv, WhiteTypes
<1>2. UNCHANGED boardVars
  BY DEF GestureStep, Draw, Erase, Clear, Undo, Redo
<1>3. SessionTypes' /\ WireTypes'
  BY <1>1, AskTypes, UndoTypes DEF GestureStep
<1> QED
  BY <1>2, <1>3, OffTheBoard

LEMMA OthersKeep ==
    ASSUME SessionsInv, NEW c \in Members, Others(c)
    PROVE  SessionsInv' /\ [BoardNext]_boardVars
<1> DEFINE Kept == SessionsInv' /\ [BoardNext]_boardVars
<1>1. WhiteTypes
  BY DEF SessionsInv, BoardInv, WhiteTypes
<1>2. CASE Clear(c) \/ Undo(c) \/ Redo(c)
  BY <1>2, GestureStepKeeps DEF GestureStep
<1>3. CASE Receive(c)
  BY <1>1, <1>3, ReceiveTypes, OffTheBoard DEF Receive, boardVars
<1>4. CASE Open(c) \/ ReadSnapshot(c) \/ LoadFailed(c) \/ Retry(c)
  <2>1. UNCHANGED boardVars
    BY <1>4 DEF Open, ReadSnapshot, LoadFailed, Retry
  <2> QED
    BY <1>1, <1>4, <2>1, LoadingTypes, OffTheBoard
<1>5. ASSUME NEW k \in DOMAIN requests[c], Store(c, k) PROVE Kept
  <2>1. BoardNext
    BY <1>1, <1>5, StoreIsBoards
  <2>2. BoardInv'
    BY <2>1, BoardStep DEF SessionsInv
  <2>3. boardSeq' \in Nat
    BY <2>2 DEF BoardInv, BoardTypeOK
  <2> QED
    BY <1>1, <1>5, <2>1, <2>2, <2>3, StoreTypes DEF SessionsInv
<1>6. ASSUME NEW k \in DOMAIN requests[c],
             Sealed(c, k) \/ Refuse(c, k) \/ Announce(c, k) \/ Timeout(c, k)
      PROVE  Kept
  <2>1. UNCHANGED boardVars
    BY <1>6 DEF Sealed, Refuse, Announce, Timeout
  <2>2. SessionTypes' /\ WireTypes'
    BY <1>1, <1>6, SealedTypes, AnsweredTypes, TimeoutTypes
  <2> QED
    BY <2>1, <2>2, OffTheBoard
<1> QED
  BY <1>2, <1>3, <1>4, <1>5, <1>6 DEF Others

-----------------------------------------------------------------------------
(* Drafts.                                                                 *)

\* What another's change brought, of which no draft may be shown.
Brought(c) == Shown(c) \ brought[c]

\* A member sees nobody's draft of what it was brought.
NoDraft(c) == \A x \in live[c] : x.thing \notin Brought(c)

\* Nothing more was brought, and no more drafts are shown.
LEMMA FewerDrafts ==
    ASSUME NEW c, NoDraft(c), Brought(c)' \subseteq Brought(c),
           \A x \in live'[c] : \E y \in live[c] : y.thing = x.thing
    PROVE  NoDraft(c)'
BY DEF NoDraft

\* What a session puts on its board itself was not brought.
LEMMA KeepsBroughtLess ==
    ASSUME NEW c \in Members, Keeps
    PROVE  Brought(c)' \subseteq Brought(c)
BY DEF Keeps, Brought, Shown

LEMMA KeepsDrafts ==
    ASSUME DraftReplaced, Keeps, UNCHANGED live
    PROVE  DraftReplaced'
<1> SUFFICES ASSUME NEW c \in Members PROVE NoDraft(c)'
  BY DEF DraftReplaced, NoDraft, Brought
<1>1. NoDraft(c)
  BY DEF DraftReplaced, NoDraft, Brought
<1> QED
  BY <1>1, KeepsBroughtLess, FewerDrafts

\* Only an add puts something on a board.
LEMMA AppliedAdds ==
    ASSUME NEW v \in Picture, NEW op \in AnswerType, NEW id \in Ids, Applied(v, op).els[id] # 0
    PROVE  v.els[id] # 0 \/ id \in AddedBy({op})
<1>1. op.kind \in ChangeKinds /\ v.els \in Numbering
  BY DEF AnswerType, Picture
<1>2. CASE op.kind = "add"
  BY <1>1, <1>2 DEF Applied, AddedBy, Picture
<1>3. CASE op.kind = "remove"
  BY <1>1, <1>3 DEF Applied, Erased, Picture
<1>4. CASE op.kind = "clear"
  BY <1>1, <1>4 DEF Applied, Erased, Picture
<1> QED
  BY <1>1, <1>2, <1>3, <1>4 DEF ChangeKinds

CanvasInv == SessionsInv /\ HandTypes /\ FrameTypes /\ DraftReplaced
             /\ scope \in Scopes /\ brought \in [Members -> SUBSET Ids]

LEMMA KeepsType ==
    ASSUME Keeps
    PROVE  brought' \in [Members -> SUBSET Ids]
BY DEF Keeps

\* Frames are relayed to some, and each is received once.
LEMMA RelayTypes ==
    ASSUME WireTypes, NEW c \in Members, NEW f \in FrameType, Relay(c, f)
    PROVE  inbox' \in [Members -> Seq(AnswerType \cup FrameType)]
<1> DEFINE Wire == AnswerType \cup FrameType
           more(d) == Append(inbox[d], f)
<1>1. f \in Wire /\ inbox \in [Members -> Seq(Wire)]
  BY DEF WireTypes
<1>2. PICK got : inbox' = [d \in Members |-> IF d \in got THEN more(d) ELSE inbox[d]]
  BY DEF Relay
<1> HIDE DEF Wire
<1>3. \A d \in Members : more(d) \in Seq(Wire)
  BY <1>1, AppendProperties
<1> HIDE DEF more
<1>4. inbox' \in [Members -> Seq(Wire)]
  BY <1>1, <1>2, <1>3
<1> QED
  BY <1>4 DEF Wire

LEMMA FrameIs ==
    ASSUME FrameTypes, NEW c \in Members, NEW thing \in Ids \cup Members, NEW ends \in BOOLEAN
    PROVE  Frame(c, thing, ends) \in FrameType
BY DEF FrameTypes, Frame, FrameType, Peer

\* The frames of a member, and what it sees of others'.
LEMMA FramesKeep ==
    ASSUME CanvasInv, UNCHANGED scope, NEW c \in Members,
           Emit(c) \/ OnLive(c) \/ Opened(c) \/ Prune(c)
    PROVE  CanvasInv' /\ UNCHANGED boardVars
<1> USE DEF CanvasInv, SessionsInv
<1>1. UNCHANGED boardVars /\ BoardInv'
  <2>1. UNCHANGED boardVars
    BY DEF Emit, OnLive, Opened, Prune
  <2> QED
    BY <2>1, BoardStep
<1>2. UNCHANGED sessionVars /\ SessionTypes'
  BY DEF Emit, OnLive, Opened, Prune, sessionVars, SessionTypes
<1>3. UNCHANGED <<requests, drawn, asked, gesture, erasing, typing, brought, scope, conn, frames>>
  BY DEF Emit, OnLive, Opened, Prune, wireVars, handVars
<1>4. HandTypes'
  BY <1>3 DEF HandTypes
<1>5. ASSUME NEW d \in Members
      PROVE  Brought(d)' = Brought(d) /\ NoDraft(d)
  BY <1>2, <1>3 DEF sessionVars, Brought, Shown, DraftReplaced, NoDraft
<1>6. ASSUME \A d \in Members : NoDraft(d)' PROVE DraftReplaced'
  BY <1>6 DEF DraftReplaced, NoDraft, Brought
<1>7. CASE Emit(c)
  <2>1. sealing[c] \in Seq(Ids \cup Members) /\ sealing[c] # <<>>
    BY <1>7 DEF Emit, FrameTypes
  <2>2. Head(sealing[c]) \in Ids \cup Members /\ Tail(sealing[c]) \in Seq(Ids \cup Members)
    BY <2>1, HeadTailProperties
  <2>3. inbox' \in [Members -> Seq(AnswerType \cup FrameType)]
    BY <1>7, <2>2, FrameIs, RelayTypes DEF Emit
  <2>4. sealing' = [sealing EXCEPT ![c] = Tail(sealing[c])] /\ UNCHANGED <<opening, live>>
    BY <1>7 DEF Emit
  <2>5. FrameTypes'
    BY <1>3, <2>2, <2>4 DEF FrameTypes
  <2>6. WireTypes'
    BY <1>3, <2>3 DEF WireTypes
  <2>7. DraftReplaced'
    BY <1>5, <1>6, <2>4, FewerDrafts
  <2> QED
    BY <1>1, <1>2, <1>3, <1>4, <2>5, <2>6, <2>7
<1>8. CASE OnLive(c)
  <2> DEFINE f == Head(inbox[c])
             Wire == AnswerType \cup FrameType
             some == {x \in live[c] : ~(x.from = f.from /\ x.thing = f.thing)}
  <2>1. f \in Wire /\ Tail(inbox[c]) \in Seq(Wire)
    <3>1. inbox[c] \in Seq(Wire) /\ inbox[c] # <<>>
      BY <1>8 DEF OnLive, WireTypes
    <3> HIDE DEF Wire
    <3> QED
      BY <3>1, HeadTailProperties
  <2>2. f \in FrameType
    BY <1>8, <2>1 DEF OnLive, AnswerType
  <2>3. inbox' = [inbox EXCEPT ![c] = Tail(inbox[c])]
    BY <1>8 DEF OnLive
  <2>4. live' = live \/ live' = [live EXCEPT ![c] = some]
    BY <1>8 DEF OnLive
  <2>5. opening' = opening \/ opening' = [opening EXCEPT ![c] = Append(opening[c], f)]
    BY <1>8 DEF OnLive
  <2>6. UNCHANGED sealing
    BY <1>8 DEF OnLive
  <2>7. some \subseteq live[c]
    OBVIOUS
  <2> HIDE DEF f, Wire, some
  <2>8. Append(opening[c], f) \in Seq(FrameType)
    BY <2>2, AppendProperties DEF FrameTypes
  <2>9. FrameTypes'
    BY <1>3, <2>4, <2>5, <2>6, <2>7, <2>8 DEF FrameTypes
  <2>10. WireTypes'
    BY <1>3, <2>1, <2>3 DEF WireTypes, Wire
  <2>11. \A d \in Members : live'[d] \subseteq live[d]
    BY <2>4, <2>7 DEF FrameTypes
  <2>12. DraftReplaced'
    BY <1>5, <1>6, <2>11, FewerDrafts
  <2> QED
    BY <1>1, <1>2, <1>3, <1>4, <2>9, <2>10, <2>12
<1>9. CASE Opened(c)
  <2> DEFINE f == Head(opening[c])
  <2>1. f \in FrameType /\ Tail(opening[c]) \in Seq(FrameType)
    BY <1>9, HeadTailProperties DEF Opened, FrameTypes
  <2>2. /\ opening' = [opening EXCEPT ![c] = Tail(opening[c])]
        /\ UNCHANGED <<inbox, sealing>>
    BY <1>9 DEF Opened, wireVars
  <2>3. \/ live' = live
        \/ live' = [live EXCEPT ![c] = Showing(c, f)] /\ f.thing \notin Shown(c)
    BY <1>9 DEF Opened
  <2> HIDE DEF f
  <2>4. Showing(c, f) \subseteq live[c] \cup {[from |-> f.from, thing |-> f.thing, old |-> FALSE]}
    BY DEF Showing
  <2>5. Showing(c, f) \subseteq DraftType
    <3> DEFINE new == [from |-> f.from, thing |-> f.thing, old |-> FALSE]
    <3>1. new \in DraftType
      BY <2>1 DEF FrameType, DraftType
    <3>2. live[c] \subseteq DraftType
      BY DEF FrameTypes
    <3> HIDE DEF new
    <3>3. Showing(c, f) \subseteq live[c] \cup {new}
      BY <2>4 DEF new
    <3> QED
      BY <3>1, <3>2, <3>3
  <2>6. FrameTypes'
    BY <1>3, <2>1, <2>2, <2>3, <2>5 DEF FrameTypes
  <2>7. WireTypes'
    BY <1>3, <2>2 DEF WireTypes
  <2>8. ASSUME NEW d \in Members PROVE NoDraft(d)'
    <3>1. CASE live'[d] = live[d]
      BY <1>5, <3>1, FewerDrafts
    <3>2. CASE live'[d] # live[d]
      <4>1. d = c /\ live'[d] = Showing(c, f) /\ f.thing \notin Shown(c)
        BY <2>3, <3>2 DEF FrameTypes
      <4>2. f.thing \notin Brought(c)
        BY <4>1 DEF Brought
      <4> QED
        BY <1>5, <2>4, <4>1, <4>2 DEF NoDraft
    <3> QED
      BY <3>1, <3>2
  <2> QED
    BY <1>1, <1>2, <1>3, <1>4, <1>6, <2>6, <2>7, <2>8
<1>10. CASE Prune(c)
  <2>1. PICK unlisted \in BOOLEAN :
          live' = [live EXCEPT ![c] = {[x EXCEPT !.old = TRUE] :
                     x \in {y \in live[c] : ~y.old /\ ~(unlisted /\ Gone(y.from))}}]
    BY <1>10 DEF Prune
  <2> DEFINE young == {y \in live[c] : ~y.old /\ ~(unlisted /\ Gone(y.from))}
             older == {[x EXCEPT !.old = TRUE] : x \in young}
  <2>2. live' = [live EXCEPT ![c] = older]
    BY <2>1
  <2>3. young \subseteq live[c] /\ young \subseteq DraftType
    BY DEF FrameTypes
  <2> HIDE DEF young
  <2>4. \A z \in older : z \in DraftType /\ \E y \in live[c] : y.thing = z.thing
    BY <2>3 DEF DraftType
  <2> HIDE DEF older
  <2>5. UNCHANGED <<inbox, sealing, opening>>
    BY <1>10 DEF Prune, wireVars
  <2>6. FrameTypes'
    BY <1>3, <2>2, <2>4, <2>5 DEF FrameTypes
  <2>7. WireTypes'
    BY <1>3, <2>5 DEF WireTypes
  <2>8. ASSUME NEW d \in Members PROVE NoDraft(d)'
    <3>1. \A x \in live'[d] : \E y \in live[d] : y.thing = x.thing
      BY <2>2, <2>4 DEF FrameTypes
    <3> QED
      BY <1>5, <3>1, FewerDrafts
  <2> QED
    BY <1>1, <1>2, <1>3, <1>4, <1>6, <2>6, <2>7, <2>8
<1> QED
  BY <1>1, <1>7, <1>8, <1>9, <1>10
-----------------------------------------------------------------------------
(* The pointer.                                                            *)

LEMMA SendsTypes ==
    ASSUME FrameTypes, NEW c \in Members, NEW a, NEW b, NEW things \in SUBSET ({a} \cup {b}),
           things \subseteq Ids \cup Members, Sends(c, things)
    PROVE  frames' \in Nat /\ sealing' \in [Members -> Seq(Ids \cup Members)]
<1>1. IsFiniteSet({a} \cup {b})
  BY FS_Singleton, FS_Union
<1>2. IsFiniteSet(things) /\ Cardinality(things) \in Nat
  BY <1>1, FS_Subset, FS_CardinalityType
<1>3. SetToSeq(things) \in Seq(Ids \cup Members)
  BY <1>2, SetToSeqSeq, SeqMonotonic
<1>4. sealing[c] \o SetToSeq(things) \in Seq(Ids \cup Members)
  BY <1>3, ConcatProperties DEF FrameTypes
<1> QED
  BY <1>2, <1>4 DEF Sends, FrameTypes

LEMMA PointerKeeps ==
    ASSUME CanvasInv, UNCHANGED scope, NEW c \in Members,
           PointerDown(c) \/ PointerMove(c) \/ PointerLeave(c)
    PROVE  CanvasInv' /\ UNCHANGED boardVars
<1> USE DEF CanvasInv, SessionsInv
<1>1. UNCHANGED boardVars /\ BoardInv'
  <2>1. UNCHANGED boardVars
    BY DEF PointerDown, PointerMove, PointerLeave
  <2> QED
    BY <2>1, BoardStep
<1>2. UNCHANGED sessionVars /\ SessionTypes'
  BY DEF PointerDown, PointerMove, PointerLeave, sessionVars, SessionTypes
<1>3. UNCHANGED <<requests, asked, conn, opening, live, brought, scope>>
  BY DEF PointerDown, PointerMove, PointerLeave, wireVars, frameVars
<1>4. DraftReplaced'
  BY <1>2, <1>3 DEF sessionVars, DraftReplaced, Shown
<1>5. Shown(c) \in SUBSET Ids
  BY DEF Shown
<1>6. HandTypes'
  <2>1. CASE PointerDown(c)
    <3>1. scope.ids \subseteq Ids
      BY WhiteboardAssumption
    <3> QED
      BY <2>1, <3>1, <1>5 DEF PointerDown, HandTypes
  <2>2. CASE PointerMove(c)
    <3>1. PICK touched \in SUBSET Shown(c) :
            erasing' = [erasing EXCEPT ![c] = IF erasing[c] = None THEN None ELSE erasing[c] \cup touched]
      BY <2>2 DEF PointerMove
    <3>2. erasing[c] = None \/ erasing[c] \cup touched \in SUBSET Ids
      BY <1>5 DEF HandTypes
    <3> QED
      BY <2>2, <3>1, <3>2 DEF PointerMove, HandTypes
  <2>3. CASE PointerLeave(c)
    BY <2>3 DEF PointerLeave, handVars, HandTypes
  <2> QED
    BY <2>1, <2>2, <2>3
<1>7. FrameTypes' /\ inbox' \in [Members -> Seq(AnswerType \cup FrameType)]
  <2>1. CASE PointerDown(c)
    BY <2>1 DEF PointerDown, frameVars, FrameTypes, WireTypes
  <2>2. CASE PointerMove(c)
    <3>1. PICK things \in SUBSET ({c} \cup (IF erasing[c] = None THEN {gesture[c]} \ {None} ELSE {})) :
            Sends(c, things)
      BY <2>2 DEF PointerMove
    <3>2. things \in SUBSET ({c} \cup {gesture[c]}) /\ things \subseteq Ids \cup Members
      BY <3>1 DEF HandTypes
    <3>3. frames' \in Nat /\ sealing' \in [Members -> Seq(Ids \cup Members)]
      BY <3>1, <3>2, SendsTypes
    <3>4. UNCHANGED inbox
      BY <2>2 DEF PointerMove, wireVars
    <3> QED
      BY <1>3, <3>3, <3>4 DEF FrameTypes, WireTypes
  <2>3. CASE PointerLeave(c)
    <3>1. Frame(c, c, TRUE) \in FrameType
      BY FrameIs
    <3>2. inbox' \in [Members -> Seq(AnswerType \cup FrameType)]
      BY <2>3, <3>1, RelayTypes DEF PointerLeave
    <3>3. frames' = frames + 1 /\ UNCHANGED sealing
      BY <2>3 DEF PointerLeave
    <3> QED
      BY <1>3, <3>2, <3>3 DEF FrameTypes
  <2> QED
    BY <2>1, <2>2, <2>3
<1>8. drawn' \subseteq Ids
  <2>1. scope.ids \subseteq Ids
    BY WhiteboardAssumption
  <2> QED
    BY <2>1 DEF PointerDown, PointerMove, PointerLeave, wireVars, WireTypes
<1>9. WireTypes'
  BY <1>3, <1>7, <1>8 DEF WireTypes
<1> QED
  BY <1>1, <1>2, <1>3, <1>4, <1>6, <1>7, <1>9

LEMMA AddsTypes ==
    ASSUME SessionTypes, WireTypes, NEW c \in Members, NEW id \in Ids, Adds(c, id)
    PROVE  /\ elements' \in [Members -> Numbering]
           /\ requests' \in [Members -> Seq(RequestType)]
           /\ undoStack' \in [Members -> Seq(UndoType)] /\ redoStack' \in [Members -> Seq(UndoType)]
           /\ asked' \in Nat
<1>1. CASE phase[c] = "closed"
  BY <1>1 DEF Adds, SessionTypes, WireTypes
<1>2. CASE phase[c] # "closed"
  <2>1. asked' = asked + 1 /\ Put(c, {id}) /\ Record(c, "add", {id})
    BY <1>2 DEF Adds
  <2> QED
    BY <2>1, PutType, RecordType DEF WireTypes
<1> QED
  BY <1>1, <1>2

LEMMA ErasesTypes ==
    ASSUME SessionTypes, WireTypes, NEW c \in Members, Erases(c)
    PROVE  /\ elements' \in [Members -> Numbering]
           /\ requests' \in [Members -> Seq(RequestType)]
           /\ undoStack' \in [Members -> Seq(UndoType)] /\ redoStack' \in [Members -> Seq(UndoType)]
           /\ asked' \in Nat
<1> DEFINE hit == erasing[c] \cap Shown(c)
<1>1. hit \in SUBSET Ids
  BY DEF Shown
<1>2. CASE hit = {}
  BY <1>2 DEF Erases, SessionTypes, WireTypes
<1>3. CASE hit # {}
  <2>1. asked' = asked + 1 /\ TakeOff(c, erasing[c]) /\ Record(c, "erase", hit)
    BY <1>3 DEF Erases
  <2> HIDE DEF hit
  <2> QED
    BY <1>1, <2>1, TakeOffType, RecordType DEF WireTypes
<1> QED
  BY <1>2, <1>3

LEMMA LiftedKeeps ==
    ASSUME CanvasInv, UNCHANGED scope, NEW c \in Members, FinishGesture(c) \/ CommitText(c)
    PROVE  CanvasInv' /\ UNCHANGED boardVars
<1> USE DEF CanvasInv, SessionsInv
<1>1. UNCHANGED boardVars /\ BoardInv'
  <2>1. UNCHANGED boardVars
    BY DEF FinishGesture, CommitText
  <2> QED
    BY <2>1, BoardStep
<1>2. UNCHANGED <<phase, buffer, snap, queue, lastClear, frameVars>> /\ Keeps
  BY DEF FinishGesture, CommitText
<1>3. FrameTypes' /\ brought' \in [Members -> SUBSET Ids] /\ DraftReplaced'
  BY <1>2, KeepsType, KeepsDrafts DEF frameVars, FrameTypes
<1>4. scope.ids \subseteq Ids
  BY WhiteboardAssumption
<1> DEFINE Changed5 == <<elements, requests, undoStack, redoStack, asked>>
           Types5 == /\ elements' \in [Members -> Numbering]
                     /\ requests' \in [Members -> Seq(RequestType)]
                     /\ undoStack' \in [Members -> Seq(UndoType)]
                     /\ redoStack' \in [Members -> Seq(UndoType)]
                     /\ asked' \in Nat
<1>5. UNCHANGED Changed5 => Types5
  BY DEF SessionTypes, WireTypes
<1>6. CASE FinishGesture(c)
  <2>1. UNCHANGED <<typing, drawn>>
    BY <1>6 DEF FinishGesture
  <2>2. CASE erasing[c] # None /\ erasing' = [erasing EXCEPT ![c] = None] /\ Erases(c)
             /\ UNCHANGED <<inbox, gesture>>
    <3>1. Types5
      BY <2>2, ErasesTypes
    <3> HIDE DEF Types5
    <3>2. HandTypes'
      BY <2>1, <2>2 DEF HandTypes
    <3> QED
      BY <1>1, <1>2, <1>3, <2>1, <2>2, <3>1, <3>2 DEF SessionTypes, WireTypes, Types5
  <2>3. CASE /\ erasing[c] = None /\ gesture[c] # None
             /\ gesture' = [gesture EXCEPT ![c] = None]
             /\ Relay(c, Frame(c, gesture[c], TRUE))
             /\ Adds(c, gesture[c]) \/ UNCHANGED Changed5
             /\ UNCHANGED erasing
    <3>1. gesture[c] \in Ids
      BY <2>3 DEF HandTypes
    <3>2. Types5
      BY <1>5, <2>3, <3>1, AddsTypes
    <3>3. inbox' \in [Members -> Seq(AnswerType \cup FrameType)]
      BY <2>3, <3>1, FrameIs, RelayTypes
    <3> HIDE DEF Types5
    <3>4. HandTypes'
      BY <2>1, <2>3 DEF HandTypes
    <3> QED
      BY <1>1, <1>2, <1>3, <2>1, <3>2, <3>3, <3>4 DEF SessionTypes, WireTypes, Types5
  <2> QED
    BY <1>6, <2>2, <2>3 DEF FinishGesture
<1>7. CASE CommitText(c)
  <2>1. typing' = [typing EXCEPT ![c] = FALSE] /\ UNCHANGED <<inbox, gesture, erasing>>
    BY <1>7 DEF CommitText
  <2>2. drawn' \subseteq Ids /\ Types5
    <3>1. CASE UNCHANGED Changed5 /\ UNCHANGED drawn
      BY <1>5, <3>1 DEF WireTypes
    <3>2. ASSUME NEW id \in scope.ids \ drawn, drawn' = drawn \cup {id}, Adds(c, id)
          PROVE  drawn' \subseteq Ids /\ Types5
      BY <1>4, <3>2, AddsTypes DEF WireTypes
    <3> QED
      BY <1>7, <3>1, <3>2 DEF CommitText
  <2> HIDE DEF Types5
  <2>3. HandTypes'
    BY <2>1 DEF HandTypes
  <2> QED
    BY <1>1, <1>2, <1>3, <2>1, <2>2, <2>3 DEF SessionTypes, WireTypes, Types5
<1> QED
  BY <1>6, <1>7

-----------------------------------------------------------------------------
(* Changes that drafts are part of.                                        *)

LEMMA AppliedKeeps ==
    ASSUME CanvasInv, UNCHANGED scope, NEW c \in Members, AppliedNext(c)
    PROVE  CanvasInv' /\ UNCHANGED boardVars
<1> USE DEF CanvasInv, SessionsInv
<1> DEFINE op == Head(queue[c])
           v == Applied(Standing(c), op)
           more == AddedBy({op})
<1>1. ApplyNext(c) /\ UNCHANGED <<handVars, conn, sealing, opening, frames>>
  BY DEF AppliedNext
<1>2. UNCHANGED boardVars /\ BoardInv'
  <2>1. UNCHANGED boardVars
    BY <1>1 DEF ApplyNext
  <2> QED
    BY <2>1, BoardStep
<1>3. SessionTypes' /\ WireTypes' /\ op \in AnswerType
  BY <1>1, ApplyNextTypes DEF WhiteTypes, BoardInv
<1>4. elements' = [elements EXCEPT ![c] = v.els]
  BY <1>1 DEF ApplyNext, Apply, Become
<1>5. Standing(c) \in Picture /\ Standing(c).els = elements[c]
  BY DEF SessionTypes, Standing, Picture
<1> DEFINE still == {id \in brought[c] : elements'[c][id] # 0} \ more
<1>6. /\ live' = [live EXCEPT ![c] = Without(c, more)]
      /\ brought' = [brought EXCEPT ![c] = still]
  BY DEF AppliedNext, Replaced
<1>7. \A id \in Ids : v.els[id] # 0 => elements[c][id] # 0 \/ id \in more
  BY <1>3, <1>5, AppliedAdds
<1>8. Without(c, more) \subseteq live[c] /\ \A x \in Without(c, more) : x.thing \notin more
  BY DEF Without
<1>9. still \subseteq Ids /\ still = {id \in brought[c] : v.els[id] # 0} \ more
  BY <1>4 DEF SessionTypes
<1> HIDE DEF op, v, more, still
<1>10. HandTypes' /\ FrameTypes' /\ brought' \in [Members -> SUBSET Ids]
  BY <1>1, <1>6, <1>8, <1>9 DEF handVars, HandTypes, FrameTypes
<1>11. ASSUME NEW d \in Members PROVE NoDraft(d)'
  <2>1. NoDraft(d)
    BY DEF DraftReplaced, NoDraft, Brought
  <2>2. CASE d # c
    <3>1. live'[d] = live[d] /\ brought'[d] = brought[d] /\ elements'[d] = elements[d]
      BY <1>4, <1>6, <2>2 DEF FrameTypes, SessionTypes
    <3> QED
      BY <2>1, <3>1 DEF NoDraft, Brought, Shown
  <2>3. CASE d = c
    <3>1. live'[c] = Without(c, more) /\ brought'[c] = still /\ elements'[c] = v.els
      BY <1>4, <1>6 DEF FrameTypes, SessionTypes
    <3>2. ASSUME NEW id \in Brought(c)' PROVE id \in Brought(c) \/ id \in more
      <4>1. id \in Ids /\ v.els[id] # 0 /\ id \notin still
        BY <3>1, <3>2 DEF Brought, Shown
      <4> QED
        BY <1>7, <1>9, <4>1 DEF Brought, Shown
    <3> QED
      BY <1>8, <2>1, <2>3, <3>1, <3>2 DEF NoDraft
  <2> QED
    BY <2>2, <2>3
<1>12. DraftReplaced'
  BY <1>11 DEF DraftReplaced, NoDraft, Brought
<1> QED
  BY <1>2, <1>3, <1>10, <1>12

LEMMA LoadedKeeps ==
    ASSUME CanvasInv, UNCHANGED scope, NEW c \in Members, LoadedLive(c)
    PROVE  CanvasInv' /\ UNCHANGED boardVars
<1> USE DEF CanvasInv, SessionsInv
<1> DEFINE more == AddedBy(Range(Later(c)))
           still == {id \in Ids : elements'[c][id] # 0} \ more
<1>1. Loaded(c) /\ UNCHANGED <<handVars, conn, sealing, opening, frames>>
  BY DEF LoadedLive
<1>2. UNCHANGED boardVars /\ BoardInv'
  <2>1. UNCHANGED boardVars
    BY <1>1 DEF Loaded
  <2> QED
    BY <2>1, BoardStep
<1>3. SessionTypes' /\ WireTypes'
  BY <1>1, LoadedTypes DEF WhiteTypes, BoardInv
<1>4. \A d \in Members \ {c} : elements'[d] = elements[d]
  BY <1>1 DEF Loaded, Load, Become, SessionTypes
<1>5. /\ live' = [live EXCEPT ![c] = Without(c, more)]
      /\ brought' = [brought EXCEPT ![c] = still]
  BY DEF LoadedLive, Replaced
<1>6. Without(c, more) \subseteq live[c] /\ \A x \in Without(c, more) : x.thing \notin more
  BY DEF Without
<1>7. still \subseteq Ids /\ Shown(c)' \ still \subseteq more
  BY DEF Shown
<1> HIDE DEF more, still
<1>8. HandTypes' /\ FrameTypes' /\ brought' \in [Members -> SUBSET Ids]
  BY <1>1, <1>5, <1>6, <1>7 DEF handVars, HandTypes, FrameTypes
<1>9. ASSUME NEW d \in Members PROVE NoDraft(d)'
  <2>1. NoDraft(d)
    BY DEF DraftReplaced, NoDraft, Brought
  <2>2. CASE d # c
    <3>1. live'[d] = live[d] /\ brought'[d] = brought[d] /\ elements'[d] = elements[d]
      BY <1>4, <1>5, <2>2 DEF FrameTypes
    <3> QED
      BY <2>1, <3>1 DEF NoDraft, Brought, Shown
  <2>3. CASE d = c
    <3>1. live'[c] = Without(c, more) /\ brought'[c] = still
      BY <1>5 DEF FrameTypes
    <3> QED
      BY <1>6, <1>7, <2>3, <3>1 DEF NoDraft, Brought
  <2> QED
    BY <2>2, <2>3
<1>10. DraftReplaced'
  BY <1>9 DEF DraftReplaced, NoDraft, Brought
<1> QED
  BY <1>2, <1>3, <1>8, <1>10

LEMMA RejoinKeeps ==
    ASSUME CanvasInv, UNCHANGED scope, NEW c \in Members, RejoinLive(c)
    PROVE  CanvasInv' /\ UNCHANGED boardVars
<1> USE DEF CanvasInv, SessionsInv
<1> DEFINE none == <<>>
<1>1. Rejoin(c) /\ UNCHANGED <<handVars, sealing, frames>>
  BY DEF RejoinLive
<1>2. UNCHANGED boardVars /\ BoardInv'
  <2>1. UNCHANGED boardVars
    BY <1>1 DEF Rejoin
  <2> QED
    BY <2>1, BoardStep
<1>3. SessionTypes' /\ WireTypes'
  BY <1>1, RejoinTypes DEF WhiteTypes, BoardInv
<1>4. \A d \in Members \ {c} : elements'[d] = elements[d]
  BY <1>1 DEF Rejoin, Reset, SessionTypes
<1>5. /\ conn' = [conn EXCEPT ![c] = 1] /\ opening' = [opening EXCEPT ![c] = none]
      /\ live' = [live EXCEPT ![c] = {}] /\ brought' = [brought EXCEPT ![c] = {}]
  BY DEF RejoinLive
<1>6. none \in Seq(FrameType)
  OBVIOUS
<1> HIDE DEF none
<1>7. HandTypes' /\ FrameTypes' /\ brought' \in [Members -> SUBSET Ids]
  BY <1>1, <1>5, <1>6 DEF handVars, HandTypes, FrameTypes
<1>8. ASSUME NEW d \in Members PROVE NoDraft(d)'
  <2>1. CASE d # c
    <3>1. live'[d] = live[d] /\ brought'[d] = brought[d] /\ elements'[d] = elements[d]
      BY <1>4, <1>5, <2>1 DEF FrameTypes
    <3> QED
      BY <3>1 DEF DraftReplaced, NoDraft, Brought, Shown
  <2>2. CASE d = c
    BY <1>5, <2>2 DEF FrameTypes, NoDraft
  <2> QED
    BY <2>1, <2>2
<1>9. DraftReplaced'
  BY <1>8 DEF DraftReplaced, NoDraft, Brought
<1> QED
  BY <1>2, <1>3, <1>7, <1>9

-----------------------------------------------------------------------------
(* The theorems.                                                           *)

LEMMA CanvasStart == CanvasInit => CanvasInv /\ BoardInit
<1> SUFFICES ASSUME CanvasInit PROVE CanvasInv /\ BoardInit
  OBVIOUS
<1> USE DEF CanvasInit
<1>1. Init /\ BoardInit /\ scope \in Scopes
  BY DEF Init
<1>2. BoardInv
  BY <1>1, BoardStart
<1> DEFINE none == <<>>
<1>3. /\ none \in Seq(AnswerType) /\ none \in Seq(AnswerType \cup FrameType)
      /\ none \in Seq(UndoType) /\ none \in Seq(RequestType)
      /\ none \in Seq(Ids \cup Members) /\ none \in Seq(FrameType)
  OBVIOUS
<1>4. /\ phase = [c \in Members |-> IF c \in scope.open THEN "ready" ELSE "closed"]
      /\ elements = [c \in Members |-> Nothing] /\ lastClear = [c \in Members |-> 0]
      /\ buffer = [c \in Members |-> none] /\ queue = [c \in Members |-> none]
      /\ snap = [c \in Members |-> NoSnap]
      /\ undoStack = [c \in Members |-> none] /\ redoStack = [c \in Members |-> none]
      /\ requests = [c \in Members |-> none] /\ inbox = [c \in Members |-> none]
      /\ drawn = {} /\ asked = 0
  BY <1>1 DEF Init
<1>5. /\ sealing = [c \in Members |-> none] /\ opening = [c \in Members |-> none]
      /\ conn = [c \in Members |-> 0] /\ live = [c \in Members |-> {}] /\ frames = 0
  OBVIOUS
<1>6. Nothing \in Numbering
  BY DEF Nothing, Numbering
<1> HIDE DEF none
<1>7. SessionTypes
  BY <1>3, <1>4, <1>6, SnapTypes DEF SessionTypes, SnapType
<1>8. WireTypes
  BY <1>3, <1>4 DEF WireTypes
<1>9. FrameTypes
  BY <1>3, <1>5 DEF FrameTypes
<1>10. HandTypes
  BY DEF HandTypes
<1>11. DraftReplaced
  BY <1>5 DEF DraftReplaced
<1> QED
  BY <1>1, <1>2, <1>7, <1>8, <1>9, <1>10, <1>11 DEF CanvasInv, SessionsInv

LEMMA CanvasStep ==
    CanvasInv /\ [CanvasNext]_canvasVars => CanvasInv' /\ [BoardNext]_boardVars
<1> SUFFICES ASSUME CanvasInv, [CanvasNext]_canvasVars
             PROVE  CanvasInv' /\ [BoardNext]_boardVars
  OBVIOUS
<1>1. ASSUME NEW c \in Members, UNCHANGED scope,
             (GestureStep(c) \/ Others(c)), Keeps, UNCHANGED <<handVars, frameVars>>
      PROVE  CanvasInv' /\ [BoardNext]_boardVars
  <2>1. SessionsInv' /\ [BoardNext]_boardVars
    BY <1>1, GestureStepKeeps, OthersKeep DEF CanvasInv
  <2>2. HandTypes' /\ FrameTypes'
    BY <1>1 DEF CanvasInv, handVars, frameVars, HandTypes, FrameTypes
  <2>3. UNCHANGED live
    BY <1>1 DEF frameVars
  <2> QED
    BY <1>1, <2>1, <2>2, <2>3, KeepsType, KeepsDrafts DEF CanvasInv
<1>2. CASE UNCHANGED canvasVars
  <2>1. UNCHANGED boardVars /\ BoardInv'
    <3>1. UNCHANGED boardVars
      BY <1>2 DEF canvasVars, whiteVars
    <3> QED
      BY <3>1, BoardStep DEF CanvasInv, SessionsInv
  <2>2. UNCHANGED <<sessionVars, wireVars, handVars, frameVars, brought, scope>>
    BY <1>2 DEF canvasVars, whiteVars
  <2>3. SessionTypes' /\ WireTypes'
    BY <2>2 DEF CanvasInv, SessionsInv, sessionVars, wireVars, SessionTypes, WireTypes
  <2>4. HandTypes' /\ FrameTypes' /\ DraftReplaced'
    BY <2>2 DEF CanvasInv, sessionVars, handVars, frameVars, HandTypes, FrameTypes, DraftReplaced, Shown
  <2> QED
    BY <2>1, <2>2, <2>3, <2>4 DEF CanvasInv, SessionsInv
<1>3. CASE CanvasNext
  <2>1. UNCHANGED scope
    BY <1>3 DEF CanvasNext
  <2>2. PICK c \in Members :
          Gestures(c) \/ LiveStep(c) \/ LoadedLive(c) \/ RejoinLive(c) \/ Others(c)
    BY <1>3 DEF CanvasNext
  <2>3. CASE Gestures(c)
    BY <1>1, <2>1, <2>3, PointerKeeps, LiftedKeeps DEF Gestures
  <2>4. CASE LiveStep(c)
    BY <2>1, <2>4, FramesKeep, AppliedKeeps DEF LiveStep
  <2>5. CASE LoadedLive(c) \/ RejoinLive(c)
    BY <2>1, <2>5, LoadedKeeps, RejoinKeeps
  <2>6. CASE Others(c)
    BY <1>1, <2>1, <2>6 DEF Others
  <2> QED
    BY <2>2, <2>3, <2>4, <2>5, <2>6
<1> QED
  BY <1>2, <1>3

\* Every variable of the canvas, the whiteboard and the wire keeps its type.
THEOREM CanvasTypes == CanvasSpec => []CanvasTypeOK
<1>1. CanvasInv => CanvasTypeOK
  BY DEF CanvasInv, SessionsInv, BoardInv, CanvasTypeOK
<1> QED
  BY <1>1, CanvasStart, CanvasStep, PTL DEF CanvasSpec

\* No member sees a draft over the element that another's change brought.
THEOREM NobodySeesTwice == CanvasSpec => []DraftReplaced
<1>1. CanvasInv => DraftReplaced
  BY DEF CanvasInv
<1> QED
  BY <1>1, CanvasStart, CanvasStep, PTL DEF CanvasSpec
=============================================================================
