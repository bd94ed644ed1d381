---------------------------- MODULE MCCheckpoint ----------------------------
(***************************************************************************)
(* One or two async frames; each run allows a few of the calls.            *)
(***************************************************************************)
EXTENDS Checkpoint

CONSTANTS f, g

One == {f}
Two == {f, g}
FrameKind == [p \in Promise |-> "frame"]

NoFuel == [call \in Calls |-> 0]

\* everything that nests in everything
NestedFuel == [NoFuel EXCEPT !["call"] = 1, !["post"] = 1, !["signal"] = 1,
                             !["reenter"] = 1, !["checkpoint"] = 1, !["loop"] = 1,
                             !["release"] = 1]
\* both queues, callbacks that return to compiled code, and joins that drive
\* the host
JoinFuel == [NoFuel EXCEPT !["call"] = 1, !["post"] = 1, !["signal"] = 2,
                           !["tick"] = 1, !["join"] = 2]

\* the smallest programs in which each divergence shows
SignalFuel == [NoFuel EXCEPT !["signal"] = 2, !["loop"] = 1]
NestedReportFuel == [NoFuel EXCEPT !["release"] = 1, !["checkpoint"] = 1]
LandingFuel == [NoFuel EXCEPT !["checkpoint"] = 1]

=============================================================================
