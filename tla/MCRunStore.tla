------------------------------ MODULE MCRunStore ------------------------------
(* A small instance of RunStore: the list shows the later id first. *)
EXTENDS RunStore

CONSTANTS r1, r2, p1, c2, t1
TwoForms == [plan : {p1}, code : {c2}, track : {t1}, nav : Navs]
NewestFirst == [id \in RunIds |-> IF id = r2 THEN 1 ELSE 2]
=============================================================================
