-------------------------------- MODULE Board --------------------------------
(***************************************************************************)
(* What the whiteboard's server side promises                              *)
(* (apps/api/src/modules/board/board.service.ts) of one room's board:      *)
(* every change takes the next number of Room.boardSeq and is stored in    *)
(* one atomic step, and only the live elements are kept.                   *)
(*                                                                         *)
(* `log' is history, kept to say what the stored rows are to be: the       *)
(* changes in the order of their numbers.  The service forgets it (that is *)
(* its compaction).  An element's content is never looked at.              *)
(***************************************************************************)
EXTENDS Integers, Sequences, FiniteSets

CONSTANTS Members,      \* users who are members of the room
          Hosts,        \* OWNER or MODERATOR
          Ids,          \* element ids
          MaxElements,  \* MAX_BOARD_ELEMENTS
          NoRow         \* no element with that id

ASSUME BoardIdsAssumption  == IsFiniteSet(Ids)
ASSUME HostsAssumption     == Hosts \subseteq Members
ASSUME BoardCapAssumption  == MaxElements \in Nat
ASSUME NoRowAssumption     == NoRow \notin [seq : Nat, authorId : Members]

VARIABLES boardSeq,     \* Room.boardSeq
          rows,         \* [id -> its WhiteboardOp row, or NoRow]
          log           \* history: the changes, by number

boardVars == <<boardSeq, rows, log>>

Row    == [seq : Nat, authorId : Members]
Change == [kind : {"add", "remove", "clear"}, ids : SUBSET Ids, authorId : Members]

Live == {id \in Ids : rows[id] # NoRow}

-----------------------------------------------------------------------------
Numbered(kind, ids, u) ==
    /\ boardSeq' = boardSeq + 1
    /\ log' = Append(log, [kind |-> kind, ids |-> ids, authorId |-> u])

\* One may replace one's own element, or add one while there is room.
MayAdd(u, id) ==
    IF rows[id] = NoRow THEN Cardinality(Live) < MaxElements ELSE rows[id].authorId = u

AddElement(u, id) ==
    /\ MayAdd(u, id)
    /\ Numbered("add", {id}, u)
    /\ rows' = [rows EXCEPT ![id] = [seq |-> boardSeq + 1, authorId |-> u]]

\* Anyone may erase anyone's elements.
RemoveElements(u, ids) ==
    /\ Numbered("remove", ids, u)
    /\ rows' = [id \in Ids |-> IF id \in ids THEN NoRow ELSE rows[id]]

ClearBoard(u) ==
    /\ u \in Hosts
    /\ Numbered("clear", Ids, u)
    /\ rows' = [id \in Ids |-> NoRow]

BoardInit == boardSeq = 0 /\ rows = [id \in Ids |-> NoRow] /\ log = <<>>

BoardNext ==
    \E u \in Members :
        \/ \E id \in Ids : AddElement(u, id)
        \/ \E ids \in SUBSET Ids : RemoveElements(u, ids)
        \/ ClearBoard(u)

\* A board changes by one member's add, removal or clearing at a time, each with
\* the next number (board.service.ts).
BoardSpec == BoardInit /\ [][BoardNext]_boardVars

-----------------------------------------------------------------------------
(* Properties.                                                             *)

BoardTypeOK ==
    /\ boardSeq \in Nat
    /\ rows \in [Ids -> Row \cup {NoRow}]
    /\ log \in Seq(Change)

\* Of the first n changes, the i-th is the last that touches this id.
LastTouch(id, i, n) ==
    /\ i \in 1 .. n
    /\ id \in log[i].ids
    /\ \A j \in i + 1 .. n : id \notin log[j].ids

\* The picture b (ids to rows) is what the first n changes leave.
IsPicture(b, n) ==
    \A id \in Ids :
        /\ b[id] = NoRow => \A i \in 1 .. n : LastTouch(id, i, n) => log[i].kind # "add"
        /\ b[id] # NoRow => /\ LastTouch(id, b[id].seq, n)
                            /\ log[b[id].seq].kind = "add"
                            /\ log[b[id].seq].authorId = b[id].authorId

\* Compaction loses nothing: the stored rows with boardSeq are the whole of
\* the history, no number is skipped (a refused change consumes none) and none
\* is given twice.  So a snapshot and the changes numbered above it make up
\* the board.
RowsAreLog == boardSeq = Len(log) /\ IsPicture(rows, boardSeq)

\* The cap on live elements holds however adds race.
BoardCap == Cardinality(Live) <= MaxElements
=============================================================================
