------------------------------ MODULE MCBoardTx ------------------------------
(* Calls in flight on a board with room for fewer elements than there are. *)
EXTENDS BoardTx, TLC

CONSTANTS ada, ben

CallsAndIds == Permutations(Calls) \cup Permutations(Ids)
=============================================================================
