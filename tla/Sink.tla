-------------------------------- MODULE Sink --------------------------------
(***************************************************************************)
(* What a writable stream promises its underlying sink and its callers:    *)
(* the sink is asked for one thing at a time, for the chunks in the order  *)
(* they were accepted, for the close after the last of them, for the abort *)
(* at most once and never after a close; and a write is fulfilled only     *)
(* when the sink has just ended it.                                        *)
(***************************************************************************)
EXTENDS Naturals, Sequences, SequencesExt

CONSTANT Write          \* the calls of write

VARIABLES accepted,     \* the writes the stream took, and "close"
          begun,        \* what the sink was asked for after "start"
          doing,        \* what it has not ended yet
          fulfilled     \* the writes whose promise is fulfilled

sinkVars == <<accepted, begun, doing, fulfilled>>

SinkInit == accepted = << >> /\ begun = << >> /\ doing = {"start"} /\ fulfilled = {}

\* Nothing is accepted behind a close.
Accept == \/ UNCHANGED accepted
          \/ /\ "close" \notin Range(accepted)
             /\ \E x \in Write \cup {"close"} : accepted' = Append(accepted, x)

Begin(x) == /\ begun' = Append(begun, x)
            /\ doing' = {x}
            /\ IF x = "abort" THEN "close" \notin Range(begun)
                              ELSE IsPrefix(begun', accepted')
            /\ "abort" \notin Range(begun)

Work == \/ UNCHANGED begun /\ doing' \in {doing, {}}
        \/ \E x \in Write \cup {"close", "abort"} : Begin(x)

SinkNext == /\ Accept /\ Work
            /\ fulfilled \subseteq fulfilled'
            /\ fulfilled' \ fulfilled \subseteq doing \ doing'

SinkSpec == SinkInit /\ [][SinkNext]_sinkVars
=============================================================================
