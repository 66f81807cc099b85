---------------------------- MODULE MCWhiteboard -----------------------------
(***************************************************************************)
(* Situations of one board: ben loads it while ada draws and undoes; both  *)
(* draw, erase, undo and clear one element; members lose the connection    *)
(* and come back, with slow decryption, or with two elements where there   *)
(* is room for one.                                                        *)
(***************************************************************************)
EXTENDS Arrivals

CONSTANTS ada, ben, e1, e2

Loading == [may |-> {"reorder", "decrypt", "undo", "fail"}, open |-> {ada}, ids |-> {e1}, changes |-> 3,
            hands |-> {}, frames |-> 0]
Shared  == [Loading EXCEPT !.may = @ \ {"fail"}, !.open = Members, !.changes = 4]
Broken  == [Loading EXCEPT !.may = {"rejoin", "reorder", "decrypt"}, !.changes = 2]
Full    == [Broken EXCEPT !.may = {"rejoin", "reorder"}, !.open = {}, !.ids = {e1, e2}]

MCScopes == {Loading, Shared, Broken, Full}
=============================================================================
