----------------------------- MODULE MCCollector -----------------------------
(* Instances of Collector for TLC. *)
EXTENDS Collector, TLC

CONSTANTS a, b, c

MCObj == {a, b, c}

\* Every type can lead to every other
AnyHolds == MCObj \X MCObj

\* c is of a leaf type: it holds nothing, others hold it
LeafHolds == {a, b} \X MCObj

Pair == {a, b}
PairHolds == Pair \X Pair

=============================================================================
