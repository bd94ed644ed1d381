------------------------------ MODULE MainLine ------------------------------
(***************************************************************************)
(* What the landing check promises of main, whatever the service, its      *)
(* crashes and its clients do: main only grows, one commit at a time, a    *)
(* change is put on it at most once, and the answers a change is given are *)
(* true when they are given.                                               *)
(***************************************************************************)
EXTENDS Naturals, Sequences, SequencesExt

CONSTANTS Change,   \* the changes submitted
          Outside   \* a commit that somebody puts on main without the queue

VARIABLES line,     \* main's commits since the start, oldest first
          answers   \* the newest answer of each change

lineVars == <<line, answers>>

OnLine(c) == \E i \in DOMAIN line : line[i] = c

\* The answers that are true of a change now. Neither a withdrawal nor a hold
\* is a statement about main: a change can be queued twice after a crash, and
\* have landed before.
True(c) == {"withdrawn", "held"} \cup {IF OnLine(c) THEN "landed" ELSE "refused"}

LineInit == /\ line = <<>>
            /\ answers = [c \in Change |-> "none"]

\* main moves to a commit on top of it: a change that is not on it yet, or
\* somebody's own commit
Grow == /\ \E c \in {d \in Change : ~OnLine(d)} \cup {Outside} :
             line' = Append(line, c)
        /\ UNCHANGED answers

Tell(c) == /\ \E a \in True(c) : answers' = [answers EXCEPT ![c] = a]
           /\ UNCHANGED line

LineNext == Grow \/ \E c \in Change : Tell(c)

LineSpec == LineInit /\ [][LineNext]_lineVars
=============================================================================
