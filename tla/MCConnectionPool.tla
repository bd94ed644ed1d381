-------------------------- MODULE MCConnectionPool --------------------------
(***************************************************************************)
(* Two calls to one origin and one each to two others, two connections,    *)
(* one per origin.                                                         *)
(***************************************************************************)
EXTENDS ConnectionPool

CONSTANTS r1, r2, r3, r4

Calls == {r1, r2, r3, r4}
ThreeOrigins == {"a", "b", "c"}
Targets == [r \in Calls |-> CASE r \in {r1, r2} -> "a" [] r = r3 -> "b" [] r = r4 -> "c"]
=============================================================================
