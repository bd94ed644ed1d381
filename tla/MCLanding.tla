------------------------------ MODULE MCLanding -----------------------------
(***************************************************************************)
(* Two changes, a commit past the queue, a crash and a withdrawal.         *)
(***************************************************************************)
EXTENDS Landing

CONSTANTS c1, c2

TwoChanges == {c1, c2}
OneChange == {c1}
=============================================================================
