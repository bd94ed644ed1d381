------------------------------ MODULE MCUvHost ------------------------------
(***************************************************************************)
(* Two tasks, one other thread, and timers enough to reuse a slot.         *)
(***************************************************************************)
EXTENDS UvHost

CONSTANTS t1, t2, t3, w1

TwoTasks == {t1, t2}
ThreeTasks == {t1, t2, t3}
Worker == {w1}
Millisecond == {1}
Zero == {0}

=============================================================================
