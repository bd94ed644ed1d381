--------------------------- MODULE LandingProofs ----------------------------
(***************************************************************************)
(* Proofs about Landing, for every set of changes and whatever the bounds. *)
(***************************************************************************)
EXTENDS Landing, SequenceTheorems, TLAPS

\* Where the service has an entry in hand.
InHand == {"taking", "taken", "land", "rebase", "run", "passed", "advance", "finish",
           "answer", "hold", "clear", "unmark", "requeue", "requeued"}

\* Where it is checking the tip that it rebased.
Checked == {"run", "passed", "advance"}

\* The types, with those of the service's variables while they are in use.
TypeInv ==
    /\ TypeOK
    /\ pc \in InHand \cup {"off", "start", "take", "exiting"}
    /\ pc \in InHand => cur \in Entry
    /\ base \in Seq(Commit) /\ tip \in Seq(Commit)
    /\ pc = "answer" => verdict \in {"landed", "refused", "withdrawn", "held"}
    /\ wd \in [step : {"idle", "mark", "remove", "unhold", "answer", "look", "clear",
                       "unmark"},
               id : Change \cup {None}]
    /\ wd.step # "idle" => wd.id \in Change
    /\ retrying \in [step : {"idle", "queue", "remove"}, id : Change \cup {None}]
    /\ retrying.step # "idle" => retrying.id \in Change
    /\ clock \in Nat

\* An entry was submitted in the past: no command queues an entry equal to the
\* one the service is about to take out of the queue.
ClockInv ==
    /\ \A e \in queue : e.at < clock
    /\ checking # None => checking.entry.at < clock
    /\ pc \in InHand => cur.at < clock

\* checking.json is of the change in hand, and is gone between two changes.
HandInv ==
    /\ pc \in {"take", "taking", "exiting", "unmark"} => checking = None
    /\ pc \in InHand /\ checking # None => checking.entry.id = cur.id

\* NothingLost, without the files that are about to be removed: the entry being
\* taken, and checking.json once the change is queued again or answered. The
\* entries in held/ are not needed for it.
Kept(c) ==
    \/ \E e \in queue : e.id = c /\ ~(pc = "taken" /\ e = cur)
    \/ Checking(c) /\ pc \notin {"requeued", "hold", "clear", "unmark"}
    \/ wd.id = c /\ wd.step \in {"unhold", "answer"}
    \/ c \in stolen

LostInv == \A c \in owed : Kept(c)

\* What the service knows of main at each point.
MainInv ==
    /\ pc \in Checked => /\ tip = Append(base, cur.id)
                         /\ ~OnMain(cur.id)
                         /\ checking # None => checking.tip = tip
    /\ pc \in {"passed", "advance"} => tip \in green
    /\ checking # None /\ checking.phase = "landing" =>
         \E i \in DOMAIN checking.tip : checking.tip[i] = checking.entry.id
    /\ pc = "finish" => OnMain(cur.id)
    /\ pc = "answer" => /\ verdict = "landed" => OnMain(cur.id)
                        /\ verdict = "refused" => ~OnMain(cur.id)

Inv == TypeInv /\ ClockInv /\ HandInv /\ LostInv /\ MainInv /\ LandedWasGreen

(***************************************************************************)
(* The types.                                                              *)
(***************************************************************************)
LEMMA QueuedIsEntry ==
    ASSUME NEW c \in Change, NEW f \in BOOLEAN, NEW t \in Nat
    PROVE  [id |-> c, first |-> f, at |-> t] \in Entry
  BY DEF Entry

\* requeue puts the entry in hand first.
LEMMA FirstIsEntry ==
    ASSUME NEW e \in Entry
    PROVE  /\ [e EXCEPT !.first = TRUE] \in Entry
           /\ [e EXCEPT !.first = TRUE].id = e.id
           /\ [e EXCEPT !.first = TRUE].at = e.at
  BY DEF Entry

\* update writes the phase, and with it the base and the tip.
LEMMA UpdateIsRecord ==
    ASSUME NEW r \in CheckingRecord, NEW p \in {"checking", "landing"}
    PROVE  /\ [r EXCEPT !.phase = p] \in CheckingRecord
           /\ \A b, t \in Seq(Commit) :
                [r EXCEPT !.phase = p, !.base = b, !.tip = t] \in CheckingRecord
  BY DEF CheckingRecord

LEMMA RebaseIsLine ==
    ASSUME NEW s \in Seq(Commit), NEW c \in Change
    PROVE  /\ RebaseOnto(s, c) \in Seq(Commit)
           /\ RebaseOnto(s, c) = s => \E i \in DOMAIN s : s[i] = c
           /\ RebaseOnto(s, c) # s => /\ RebaseOnto(s, c) = Append(s, c)
                                      /\ ~\E i \in DOMAIN s : s[i] = c
  <1>1. c \in Commit
    BY DEF Commit
  <1>2. Append(s, c) \in Seq(Commit) /\ Len(Append(s, c)) = Len(s) + 1
    BY <1>1, AppendProperties
  <1>3. Len(s) \in Nat
    OBVIOUS
  <1>4. Append(s, c) # s
    BY <1>2, <1>3
  <1> QED
    BY <1>2, <1>4 DEF RebaseOnto

\* What a step writes in checking.json keeps the entry that is there.
LEMMA UpdateKeepsEntry ==
    ASSUME TypeInv, checking # None, Rebase \/ Passed
    PROVE  /\ checking' \in CheckingRecord /\ checking' # None
           /\ checking'.entry = checking.entry
           /\ Rebase /\ pc' = "run" => /\ checking'.tip = RebaseOnto(main, cur.id)
                                       /\ checking'.phase = "checking"
           /\ Passed => checking'.tip = checking.tip
  <1>1. checking \in CheckingRecord /\ main \in Seq(Commit)
    BY DEF TypeInv, TypeOK
  <1>2. CASE Rebase
    <2> DEFINE onto == RebaseOnto(main, cur.id)
    <2>1. onto \in Seq(Commit)
      BY <1>1, <1>2, RebaseIsLine DEF Rebase, TypeInv, InHand, Entry
    <2>2. CASE checking' = checking /\ pc' # "run"
      BY <1>1, <1>2, <2>2, LandingAssumption DEF Rebase, Passed
    <2> HIDE DEF onto
    <2>3. CASE checking' = [checking EXCEPT !.phase = "checking",
                                            !.base = main, !.tip = onto]
      <3>1. checking' \in CheckingRecord
        BY <1>1, <2>1, <2>3, UpdateIsRecord
      <3>2. checking'.entry = checking.entry /\ checking'.tip = onto
            /\ checking'.phase = "checking"
        BY <1>1, <2>1, <2>3 DEF CheckingRecord
      <3>3. ~Passed
        BY <1>2 DEF Rebase, Passed
      <3> QED
        BY <3>1, <3>2, <3>3, LandingAssumption DEF onto
    <2> QED
      BY <1>2, <2>2, <2>3 DEF Rebase, Answer, LetGo, onto
  <1>3. CASE Passed
    <2>1. CASE checking' = checking
      BY <1>1, <1>3, <2>1, LandingAssumption DEF Rebase, Passed
    <2>2. CASE checking' = [checking EXCEPT !.phase = "landing"]
      <3>1. checking' \in CheckingRecord
        BY <1>1, <2>2, UpdateIsRecord
      <3>2. checking'.entry = checking.entry /\ checking'.tip = checking.tip
        BY <1>1, <2>2 DEF CheckingRecord
      <3>3. ~Rebase
        BY <1>3 DEF Rebase, Passed
      <3> QED
        BY <3>1, <3>2, <3>3, LandingAssumption
    <2> QED
      BY <1>3, <2>1, <2>2 DEF Passed
  <1> QED
    BY <1>2, <1>3

\* The service lets go of what it has in hand.
LEMMA LetGoTypes ==
    ASSUME TypeInv, NEW to \in {"off", "start", "take"}, LetGo(to),
           queue' = queue, checking' \in {checking, None}, held' = held,
           marks' \subseteq marks, UNCHANGED <<main, results, clientVars, owed>>
    PROVE  TypeInv'
  <1>1. <<>> \in Seq(Commit)
    OBVIOUS
  <1> QED
    BY <1>1, LandingAssumption
    DEF TypeInv, TypeOK, LetGo, InHand, clientVars, NoEntry

\* Every step keeps the types.
LEMMA TypeStep ==
    ASSUME TypeInv, Next
    PROVE  TypeInv'
  <1> USE LandingAssumption DEF TypeInv, TypeOK, fileVars, svcVars, clientVars, historyVars, InHand, Entry, CheckingRecord, NoEntry, NoCommand
  <1>1. ASSUME NEW c \in Change, Submit(c)
        PROVE  TypeInv'
    <2>1. [id |-> c, first |-> c \in Reverts, at |-> clock] \in Entry
      BY QueuedIsEntry
    <2> HIDE DEF Entry
    <2> QED
      BY <1>1, <2>1 DEF Submit, Tick, EnsureService
  <1>2. ASSUME NEW c \in Change, WaitEnsures(c)
        PROVE  TypeInv'
    BY <1>2 DEF WaitEnsures, Tick, EnsureService
  <1>3. CASE RetryQueues
    <2> PICK c \in Change : c = retrying.id
      BY <1>3 DEF RetryQueues
    <2>1. [id |-> c, first |-> TRUE, at |-> clock] \in Entry
      BY QueuedIsEntry
    <2> HIDE DEF Entry, CheckingRecord
    <2>2. queue' \subseteq Entry /\ owed' \subseteq Change
      BY <1>3, <2>1 DEF RetryQueues
    <2>3. clock' \in Nat
      BY <1>3 DEF RetryQueues, Tick
    <2>4. /\ retrying' \in [step : {"idle", "queue", "remove"}, id : Change \cup {None}]
          /\ retrying'.id = c
      BY <1>3 DEF RetryQueues
    <2> QED
      BY <1>3, <2>2, <2>3, <2>4 DEF RetryQueues
  <1>4. ASSUME NEW c \in Change, WithdrawFinds(c)
        PROVE  TypeInv'
    BY <1>4 DEF WithdrawFinds, Tick, EnsureService
  <1>5. CASE RetryRemoves
    BY <1>5 DEF RetryRemoves, EnsureService
  <1>6. CASE WithdrawMarks
    BY <1>6 DEF WithdrawMarks
  <1> DEFINE Steps == {"idle", "mark", "remove", "unhold", "answer", "look", "clear", "unmark"}
  <1>0. ASSUME NEW from, NEW to \in Steps \ {"idle"}, from # "idle", WdStep(from, to)
        PROVE  wd' \in [step : Steps, id : Change \cup {None}] /\ wd'.id \in Change
    <2> HIDE DEF Entry, CheckingRecord
    <2> QED
      BY <1>0 DEF WdStep
  <1>7. CASE WithdrawRemoves
    <2>1. wd' \in [step : Steps, id : Change \cup {None}] /\ wd'.id \in Change
      BY <1>0, <1>7 DEF WithdrawRemoves
    <2> HIDE DEF Entry, CheckingRecord
    <2> QED
      BY <1>7, <2>1 DEF WithdrawRemoves
  <1>8. CASE WithdrawAnswers
    <2>1. wd' \in [step : Steps, id : Change \cup {None}] /\ wd'.id \in Change
      BY <1>0, <1>8 DEF WithdrawAnswers
    <2> HIDE DEF Entry, CheckingRecord
    <2> QED
      BY <1>8, <2>1 DEF WithdrawAnswers
  <1>9. CASE WithdrawLooks
    <2> PICK to \in {"clear", "unmark"} : WdStep("look", to)
      BY <1>9 DEF WithdrawLooks, WdStep
    <2>1. wd' \in [step : Steps, id : Change \cup {None}] /\ wd'.id \in Change
      BY <1>0
    <2> HIDE DEF Entry, CheckingRecord
    <2> QED
      BY <1>9, <2>1 DEF WithdrawLooks
  <1>10. CASE WithdrawClears
    <2>1. wd' \in [step : Steps, id : Change \cup {None}] /\ wd'.id \in Change
      BY <1>0, <1>10 DEF WithdrawClears
    <2> HIDE DEF Entry, CheckingRecord
    <2> QED
      BY <1>10, <2>1 DEF WithdrawClears
  <1>11. CASE WithdrawUnmarks
    BY <1>11 DEF WithdrawUnmarks
  <1>12. CASE Recover
    BY <1>12 DEF Recover
  <1>13. CASE DrainStarts
    BY <1>13 DEF DrainStarts, Step
  <1>14. CASE Requeue
    <2>1. [cur EXCEPT !.first = TRUE] \in Entry
      BY <1>14, FirstIsEntry DEF Requeue, Step
    <2>2. CASE pc = "requeue"
      <3> HIDE DEF Entry
      <3> QED
        BY <1>14, <2>1, <2>2 DEF Requeue, Step
    <2>3. CASE pc = "requeued"
      BY <1>14, <2>3, LetGoTypes DEF Requeue, Step
    <2> QED
      BY <1>14, <2>2, <2>3 DEF Requeue, Step
  <1>15. CASE TakeReads
    BY <1>15 DEF TakeReads, Step
  <1>16. CASE TakeWrites
    BY <1>16 DEF TakeWrites, Step
  <1>17. CASE TakeRemoves
    BY <1>17 DEF TakeRemoves, Step
  <1>18. CASE DrainEnds
    BY <1>18 DEF DrainEnds, Step
  <1>19. CASE Exit
    BY <1>19 DEF Exit, Step
  <1>20. CASE LandOne
    BY <1>20 DEF LandOne, Answer
  <1>21. CASE Rebase
    <2> DEFINE onto == RebaseOnto(main, cur.id)
    <2>1. cur \in Entry /\ onto \in Seq(Commit)
      BY <1>21, RebaseIsLine DEF Rebase
    <2>2. CASE checking = None /\ LetGo("off") /\ UNCHANGED checking
      BY <1>21, <2>2, LetGoTypes DEF Rebase
    <2>3. CASE base' = main /\ tip' = onto /\ UNCHANGED <<checking, cur, round>>
               /\ ((pc' = "finish" /\ UNCHANGED verdict) \/ Answer("refused"))
      <3> HIDE DEF Entry, CheckingRecord, onto
      <3> QED
        BY <1>21, <2>1, <2>3 DEF Rebase, Answer
    <2>4. CASE /\ base' = main /\ tip' = onto /\ checking # None
               /\ pc' = "run" /\ UNCHANGED <<cur, round, verdict>>
               /\ checking' = [checking EXCEPT !.phase = "checking",
                                               !.base = main, !.tip = onto]
      <3>1. checking' \in CheckingRecord
        <4> HIDE DEF CheckingRecord, onto
        <4> QED
          BY <2>1, <2>4, UpdateIsRecord
      <3> HIDE DEF Entry, CheckingRecord, onto
      <3> QED
        BY <1>21, <2>1, <2>4, <3>1 DEF Rebase
    <2> QED
      BY <1>21, <2>2, <2>3, <2>4 DEF Rebase
  <1>22. CASE RunSteps
    <2>1. CASE checking = None
      BY <1>22, <2>1, LetGoTypes DEF RunSteps
    <2>2. CASE checking # None
      BY <1>22, <2>2 DEF RunSteps, Answer
    <2> QED
      BY <2>1, <2>2
  <1>23. CASE Passed
    <2>1. CASE cur.id \in marks
      BY <1>23, <2>1 DEF Passed, Answer
    <2>2. CASE cur.id \notin marks /\ checking # None
      <3>1. checking' \in CheckingRecord
        <4> HIDE DEF CheckingRecord
        <4>1. [checking EXCEPT !.phase = "landing"] \in CheckingRecord
          BY <2>2, UpdateIsRecord
        <4> QED
          BY <1>23, <2>2, <4>1 DEF Passed
      <3> HIDE DEF Entry, CheckingRecord
      <3> QED
        BY <1>23, <2>2, <3>1 DEF Passed
    <2>3. CASE cur.id \notin marks /\ checking = None
      BY <1>23, <2>3, LetGoTypes DEF Passed
    <2> QED
      BY <2>1, <2>2, <2>3
  <1>24. CASE Advance
    BY <1>24 DEF Advance, Answer
  <1>25. CASE FinishLanding
    BY <1>25 DEF FinishLanding, Answer
  <1>26. CASE AnswerWrites
    BY <1>26 DEF AnswerWrites
  <1>27. CASE AnswerHolds
    BY <1>27 DEF AnswerHolds, Step
  <1>28. CASE AnswerClears
    BY <1>28 DEF AnswerClears, Step
  <1>29. CASE AnswerEnds
    BY <1>29, LetGoTypes DEF AnswerEnds
  <1>30. CASE Unfinished
    <2>1. CASE checking = None
      BY <1>30, <2>1, LetGoTypes DEF Unfinished
    <2>2. CASE checking # None
      BY <1>30, <2>2 DEF Unfinished, Answer
    <2> QED
      BY <2>1, <2>2
  <1>31. CASE Crash
    BY <1>31, LetGoTypes DEF Crash
  <1>32. CASE MainMoves
    <2>1. Append(main, Outside) \in Seq(Commit)
      BY AppendProperties DEF Commit
    <2> HIDE DEF Entry, CheckingRecord
    <2> QED
      BY <1>32, <2>1 DEF MainMoves
  <1>33. CASE WithdrawUnholds
    <2>1. wd' \in [step : Steps, id : Change \cup {None}] /\ wd'.id \in Change
      BY <1>0, <1>33 DEF WithdrawUnholds
    <2> HIDE DEF Entry, CheckingRecord
    <2> QED
      BY <1>33, <2>1 DEF WithdrawUnholds
  <1>34. ASSUME NEW c \in Change, RetryReads(c)
        PROVE  TypeInv'
    BY <1>34 DEF RetryReads
  <1> QED
    BY <1>1, <1>2, <1>3, <1>4, <1>5, <1>6, <1>7, <1>8, <1>9, <1>10, <1>11, <1>12, <1>13, <1>14, <1>15, <1>16, <1>17, <1>18, <1>19, <1>20, <1>21, <1>22, <1>23, <1>24, <1>25, <1>26, <1>27, <1>28, <1>29, <1>30, <1>31, <1>32, <1>33, <1>34
    DEF Next, Command, WithdrawGoesOn, ServiceStep

\* No step queues or takes up an entry of the future.
LEMMA ClockStep ==
    ASSUME TypeInv, ClockInv, Next
    PROVE  ClockInv'
  <1> USE LandingAssumption DEF TypeInv, TypeOK, ClockInv, CheckingRecord, Entry, fileVars, svcVars, clientVars, historyVars, InHand
  <1>1. ASSUME NEW c \in Change, Submit(c)
        PROVE  ClockInv'
    BY <1>1 DEF Submit, EnsureService, Tick
  <1>2. ASSUME NEW c \in Change, WaitEnsures(c)
        PROVE  ClockInv'
    BY <1>2 DEF WaitEnsures, EnsureService
  <1>3. CASE RetryQueues
    BY <1>3 DEF RetryQueues, Tick
  <1>4. ASSUME NEW c \in Change, WithdrawFinds(c)
        PROVE  ClockInv'
    BY <1>4 DEF WithdrawFinds
  <1>5. CASE RetryRemoves
    BY <1>5 DEF RetryRemoves, EnsureService
  <1>6. CASE WithdrawMarks
    BY <1>6 DEF WithdrawMarks
  <1>7. CASE WithdrawRemoves
    BY <1>7 DEF WithdrawRemoves, WdStep
  <1>8. CASE WithdrawAnswers
    BY <1>8 DEF WithdrawAnswers, WdStep
  <1>9. CASE WithdrawLooks
    BY <1>9 DEF WithdrawLooks
  <1>10. CASE WithdrawClears
    BY <1>10 DEF WithdrawClears, WdStep
  <1>11. CASE WithdrawUnmarks
    BY <1>11 DEF WithdrawUnmarks
  <1>12. CASE Recover
    BY <1>12 DEF Recover
  <1>13. CASE DrainStarts
    BY <1>13 DEF DrainStarts, Step
  <1>14. CASE Requeue
    BY <1>14 DEF Requeue, Step, LetGo
  <1>15. CASE TakeReads
    BY <1>15 DEF TakeReads, Step
  <1>16. CASE TakeWrites
    BY <1>16 DEF TakeWrites, Step
  <1>17. CASE TakeRemoves
    BY <1>17 DEF TakeRemoves, Step
  <1>18. CASE DrainEnds
    BY <1>18 DEF DrainEnds, Step
  <1>19. CASE Exit
    BY <1>19 DEF Exit, Step
  <1>20. CASE LandOne
    BY <1>20 DEF LandOne, Answer
  <1>21. CASE Rebase
    BY <1>21 DEF Rebase, LetGo, Answer
  <1>22. CASE RunSteps
    BY <1>22 DEF RunSteps, LetGo, Answer
  <1>23. CASE Passed
    BY <1>23 DEF Passed, LetGo, Answer
  <1>24. CASE Advance
    BY <1>24 DEF Advance, Answer
  <1>25. CASE FinishLanding
    BY <1>25 DEF FinishLanding, Answer
  <1>26. CASE AnswerWrites
    BY <1>26 DEF AnswerWrites
  <1>27. CASE AnswerHolds
    BY <1>27 DEF AnswerHolds, Step
  <1>28. CASE AnswerClears
    BY <1>28 DEF AnswerClears, Step
  <1>29. CASE AnswerEnds
    BY <1>29 DEF AnswerEnds, LetGo
  <1>30. CASE Unfinished
    BY <1>30 DEF Unfinished, LetGo, Answer
  <1>31. CASE Crash
    BY <1>31 DEF Crash, LetGo
  <1>32. CASE MainMoves
    BY <1>32 DEF MainMoves
  <1>33. CASE WithdrawUnholds
    BY <1>33 DEF WithdrawUnholds, WdStep
  <1>34. ASSUME NEW c \in Change, RetryReads(c)
        PROVE  ClockInv'
    BY <1>34 DEF RetryReads
  <1> QED
    BY <1>1, <1>2, <1>3, <1>4, <1>5, <1>6, <1>7, <1>8, <1>9, <1>10, <1>11, <1>12, <1>13, <1>14, <1>15, <1>16, <1>17, <1>18, <1>19, <1>20, <1>21, <1>22, <1>23, <1>24, <1>25, <1>26, <1>27, <1>28, <1>29, <1>30, <1>31, <1>32, <1>33, <1>34
    DEF Next, Command, WithdrawGoesOn, ServiceStep

\* Every step keeps checking.json with the change in hand.
LEMMA HandStep ==
    ASSUME TypeInv, HandInv, Next
    PROVE  HandInv'
  <1> USE LandingAssumption DEF TypeInv, TypeOK, HandInv, CheckingRecord, Entry, Checking, fileVars, svcVars, clientVars, historyVars, InHand
  <1>1. ASSUME NEW c \in Change, Submit(c)
        PROVE  HandInv'
    BY <1>1 DEF Submit, EnsureService, Tick
  <1>2. ASSUME NEW c \in Change, WaitEnsures(c)
        PROVE  HandInv'
    BY <1>2 DEF WaitEnsures, EnsureService
  <1>3. CASE RetryQueues
    BY <1>3 DEF RetryQueues, Tick
  <1>4. ASSUME NEW c \in Change, WithdrawFinds(c)
        PROVE  HandInv'
    BY <1>4 DEF WithdrawFinds
  <1>5. CASE RetryRemoves
    BY <1>5 DEF RetryRemoves, EnsureService
  <1>6. CASE WithdrawMarks
    BY <1>6 DEF WithdrawMarks
  <1>7. CASE WithdrawRemoves
    BY <1>7 DEF WithdrawRemoves, WdStep
  <1>8. CASE WithdrawAnswers
    BY <1>8 DEF WithdrawAnswers, WdStep
  <1>9. CASE WithdrawLooks
    BY <1>9 DEF WithdrawLooks
  <1>10. CASE WithdrawClears
    BY <1>10 DEF WithdrawClears, WdStep
  <1>11. CASE WithdrawUnmarks
    BY <1>11 DEF WithdrawUnmarks
  <1>12. CASE Recover
    BY <1>12 DEF Recover
  <1>13. CASE DrainStarts
    BY <1>13 DEF DrainStarts, Step
  <1>14. CASE Requeue
    BY <1>14 DEF Requeue, Step, LetGo
  <1>15. CASE TakeReads
    BY <1>15 DEF TakeReads, Step
  <1>16. CASE TakeWrites
    BY <1>16 DEF TakeWrites, Step
  <1>17. CASE TakeRemoves
    BY <1>17 DEF TakeRemoves, Step
  <1>18. CASE DrainEnds
    BY <1>18 DEF DrainEnds, Step
  <1>19. CASE Exit
    BY <1>19 DEF Exit, Step
  <1>20. CASE LandOne
    BY <1>20 DEF LandOne, Answer
  <1>21. CASE Rebase
    BY <1>21 DEF Rebase, LetGo, Answer
  <1>22. CASE RunSteps
    BY <1>22 DEF RunSteps, LetGo, Answer
  <1>23. CASE Passed
    BY <1>23 DEF Passed, LetGo, Answer
  <1>24. CASE Advance
    BY <1>24 DEF Advance, Answer
  <1>25. CASE FinishLanding
    BY <1>25 DEF FinishLanding, Answer
  <1>26. CASE AnswerWrites
    BY <1>26 DEF AnswerWrites
  <1>27. CASE AnswerHolds
    BY <1>27 DEF AnswerHolds, Step
  <1>28. CASE AnswerClears
    BY <1>28 DEF AnswerClears, Step
  <1>29. CASE AnswerEnds
    BY <1>29 DEF AnswerEnds, LetGo
  <1>30. CASE Unfinished
    BY <1>30 DEF Unfinished, LetGo, Answer
  <1>31. CASE Crash
    BY <1>31 DEF Crash, LetGo
  <1>32. CASE MainMoves
    BY <1>32 DEF MainMoves
  <1>33. CASE WithdrawUnholds
    BY <1>33 DEF WithdrawUnholds, WdStep
  <1>34. ASSUME NEW c \in Change, RetryReads(c)
        PROVE  HandInv'
    BY <1>34 DEF RetryReads
  <1> QED
    BY <1>1, <1>2, <1>3, <1>4, <1>5, <1>6, <1>7, <1>8, <1>9, <1>10, <1>11, <1>12, <1>13, <1>14, <1>15, <1>16, <1>17, <1>18, <1>19, <1>20, <1>21, <1>22, <1>23, <1>24, <1>25, <1>26, <1>27, <1>28, <1>29, <1>30, <1>31, <1>32, <1>33, <1>34
    DEF Next, Command, WithdrawGoesOn, ServiceStep

\* No step loses a change that is owed an answer.
LEMMA LostStep ==
    ASSUME TypeInv, ClockInv, HandInv, LostInv, Next
    PROVE  LostInv'
  <1> USE LandingAssumption DEF TypeInv, TypeOK, ClockInv, HandInv, LostInv, Kept, CheckingRecord, Entry, Checking, Waiting, fileVars, svcVars, clientVars, historyVars, InHand
  <1>1. ASSUME NEW c \in Change, Submit(c)
        PROVE  LostInv'
    <2> DEFINE e == [id |-> c, first |-> c \in Reverts, at |-> clock]
    <2>1. e \in queue' /\ e.id = c /\ e.at = clock
      BY <1>1 DEF Submit
    <2>2. queue \subseteq queue' /\ owed' = owed \cup {c}
      BY <1>1 DEF Submit
    <2>3. UNCHANGED <<checking, cur, wd, stolen>>
      BY <1>1 DEF Submit
    <2>4. pc' = pc \/ (pc = "off" /\ pc' = "start")
      BY <1>1 DEF Submit, EnsureService
    <2> HIDE DEF e, Entry, CheckingRecord
    <2>5. ASSUME pc' = "taken"
          PROVE  e # cur
      BY <2>1, <2>4, <2>5
    <2> SUFFICES ASSUME NEW d \in owed'
                 PROVE  Kept(d)'
      OBVIOUS
    <2>6. CASE d = c
      BY <2>1, <2>3, <2>5, <2>6
    <2>7. CASE d \in owed
      BY <2>2, <2>3, <2>4, <2>7
    <2> QED
      BY <2>2, <2>6, <2>7
  <1>2. ASSUME NEW c \in Change, WaitEnsures(c)
        PROVE  LostInv'
    BY <1>2 DEF WaitEnsures, EnsureService
  <1>3. CASE RetryQueues
    <2> PICK c \in Change : c = retrying.id
      BY <1>3 DEF RetryQueues
    <2> DEFINE e == [id |-> c, first |-> TRUE, at |-> clock]
    <2>1. e \in queue' /\ e.id = c /\ e.at = clock
      BY <1>3 DEF RetryQueues
    <2>2. queue \subseteq queue' /\ owed' = owed \cup {c}
      BY <1>3 DEF RetryQueues
    <2>3. UNCHANGED <<checking, cur, wd, stolen>>
      BY <1>3 DEF RetryQueues
    <2>4. pc' = pc \/ (pc = "off" /\ pc' = "start")
      BY <1>3 DEF RetryQueues
    <2> HIDE DEF e, Entry, CheckingRecord
    <2>5. ASSUME pc' = "taken"
          PROVE  e # cur
      BY <2>1, <2>4, <2>5
    <2> SUFFICES ASSUME NEW d \in owed'
                 PROVE  Kept(d)'
      OBVIOUS
    <2>6. CASE d = c
      BY <2>1, <2>3, <2>5, <2>6
    <2>7. CASE d \in owed
      BY <2>2, <2>3, <2>4, <2>7
    <2> QED
      BY <2>2, <2>6, <2>7
  <1>4. ASSUME NEW c \in Change, WithdrawFinds(c)
        PROVE  LostInv'
    BY <1>4 DEF WithdrawFinds
  <1>5. CASE RetryRemoves
    BY <1>5 DEF RetryRemoves, EnsureService
  <1>6. CASE WithdrawMarks
    BY <1>6 DEF WithdrawMarks
  <1>7. CASE WithdrawRemoves
    BY <1>7 DEF WithdrawRemoves, WdStep
  <1>8. CASE WithdrawAnswers
    BY <1>8 DEF WithdrawAnswers, WdStep
  <1>9. CASE WithdrawLooks
    BY <1>9 DEF WithdrawLooks
  <1>10. CASE WithdrawClears
    BY <1>10 DEF WithdrawClears, WdStep
  <1>11. CASE WithdrawUnmarks
    BY <1>11 DEF WithdrawUnmarks
  <1>12. CASE Recover
    BY <1>12 DEF Recover
  <1>13. CASE DrainStarts
    BY <1>13 DEF DrainStarts, Step
  <1>14. CASE Requeue
    <2> SUFFICES ASSUME NEW d \in owed
                 PROVE  Kept(d)'
      BY <1>14 DEF Requeue
    <2>1. CASE pc = "requeue"
      <3> DEFINE e == [cur EXCEPT !.first = TRUE]
      <3>1. e.id = cur.id /\ e \in queue' /\ queue \subseteq queue'
        BY <1>14, <2>1, FirstIsEntry DEF Requeue, Step
      <3>2. pc' = "requeued" /\ UNCHANGED <<wd, stolen>>
        BY <1>14, <2>1 DEF Requeue, Step
      <3> HIDE DEF e, Entry, CheckingRecord
      <3> QED
        BY <2>1, <3>1, <3>2
    <2>2. CASE pc = "requeued"
      BY <1>14, <2>2 DEF Requeue, Step, LetGo
    <2> QED
      BY <1>14, <2>1, <2>2 DEF Requeue, Step
  <1>15. CASE TakeReads
    BY <1>15 DEF TakeReads, Step
  <1>16. CASE TakeWrites
    <2> SUFFICES ASSUME NEW d \in owed
                 PROVE  Kept(d)'
      BY <1>16 DEF TakeWrites
    <2>1. checking' \in CheckingRecord /\ checking'.entry = cur
      BY <1>16 DEF TakeWrites, Step
    <2>2. checking' # None /\ checking = None
      BY <1>16, <2>1 DEF TakeWrites, Step
    <2> HIDE DEF Entry, CheckingRecord
    <2> QED
      BY <1>16, <2>1, <2>2 DEF TakeWrites, Step
  <1>17. CASE TakeRemoves
    BY <1>17 DEF TakeRemoves, Step
  <1>18. CASE DrainEnds
    BY <1>18 DEF DrainEnds, Step
  <1>19. CASE Exit
    BY <1>19 DEF Exit, Step
  <1>20. CASE LandOne
    BY <1>20 DEF LandOne, Answer
  <1>21. CASE Rebase
    <2>1. pc' \in {"off", "finish", "answer", "run"} /\ pc = "rebase"
      BY <1>21 DEF Rebase, LetGo, Answer
    <2>2. UNCHANGED <<queue, wd, stolen, owed>>
      BY <1>21 DEF Rebase
    <2>3. checking # None => checking' # None /\ checking'.entry = checking.entry
      BY <1>21, UpdateKeepsEntry
    <2> HIDE DEF Entry, CheckingRecord
    <2> QED
      BY <2>1, <2>2, <2>3
  <1>22. CASE RunSteps
    BY <1>22 DEF RunSteps, LetGo, Answer
  <1>23. CASE Passed
    <2>1. pc' \in {"off", "answer", "advance"} /\ pc = "passed"
      BY <1>23 DEF Passed, LetGo, Answer
    <2>2. UNCHANGED <<queue, wd, stolen, owed>>
      BY <1>23 DEF Passed
    <2>3. checking # None => checking' # None /\ checking'.entry = checking.entry
      BY <1>23, UpdateKeepsEntry
    <2> HIDE DEF Entry, CheckingRecord
    <2> QED
      BY <2>1, <2>2, <2>3
  <1>24. CASE Advance
    BY <1>24 DEF Advance, Answer
  <1>25. CASE FinishLanding
    BY <1>25 DEF FinishLanding, Answer
  <1>26. CASE AnswerWrites
    BY <1>26 DEF AnswerWrites
  <1>27. CASE AnswerHolds
    BY <1>27 DEF AnswerHolds, Step
  <1>28. CASE AnswerClears
    BY <1>28 DEF AnswerClears, Step
  <1>29. CASE AnswerEnds
    BY <1>29 DEF AnswerEnds, LetGo
  <1>30. CASE Unfinished
    BY <1>30 DEF Unfinished, LetGo, Answer
  <1>31. CASE Crash
    BY <1>31 DEF Crash, LetGo
  <1>32. CASE MainMoves
    BY <1>32 DEF MainMoves
  <1>33. CASE WithdrawUnholds
    BY <1>33 DEF WithdrawUnholds, WdStep
  <1>34. ASSUME NEW c \in Change, RetryReads(c)
        PROVE  LostInv'
    BY <1>34 DEF RetryReads
  <1> QED
    BY <1>1, <1>2, <1>3, <1>4, <1>5, <1>6, <1>7, <1>8, <1>9, <1>10, <1>11, <1>12, <1>13, <1>14, <1>15, <1>16, <1>17, <1>18, <1>19, <1>20, <1>21, <1>22, <1>23, <1>24, <1>25, <1>26, <1>27, <1>28, <1>29, <1>30, <1>31, <1>32, <1>33, <1>34
    DEF Next, Command, WithdrawGoesOn, ServiceStep

(***************************************************************************)
(* main.                                                                   *)
(***************************************************************************)
LEMMA LastIsAppended ==
    ASSUME NEW s \in Seq(Commit), NEW c \in Commit
    PROVE  \E i \in DOMAIN Append(s, c) : Append(s, c)[i] = c
  <1>1. /\ Len(Append(s, c)) = Len(s) + 1
        /\ Append(s, c)[Len(s) + 1] = c
        /\ Append(s, c) \in Seq(Commit)
    BY AppendProperties
  <1>2. Len(s) + 1 \in DOMAIN Append(s, c)
    BY <1>1
  <1> QED
    BY <1>1, <1>2

\* A commit past the queue is no change.
LEMMA OutsideIsNoChange ==
    ASSUME main \in Seq(Commit), main' = Append(main, Outside), NEW c \in Change
    PROVE  OnMain(c)' <=> OnMain(c)
  <1>1. Outside \in Commit /\ Outside # c
    BY LandingAssumption DEF Commit
  <1>2. /\ DOMAIN main = 1..Len(main) /\ Len(main) \in Nat
        /\ DOMAIN main' = 1..(Len(main) + 1)
        /\ \A i \in 1..Len(main) : main'[i] = main[i]
        /\ main'[Len(main) + 1] = Outside
    BY <1>1, AppendProperties
  <1> QED
    BY <1>1, <1>2 DEF OnMain

\* What a tip holds is on main once the tip is an ancestor of main: a restarted
\* service that finds main moved knows that the change landed.
LEMMA AncestorOnMain ==
    ASSUME main \in Seq(Commit), NEW s \in Seq(Commit), NEW c,
           \E i \in DOMAIN s : s[i] = c, IsAncestor(s, main)
    PROVE  OnMain(c)
  <1> PICK i \in DOMAIN s : s[i] = c
    OBVIOUS
  <1>1. Len(s) \in Nat /\ i \in 1..Len(s) /\ Len(main) \in Nat
    OBVIOUS
  <1>2. Len(s) <= Len(main) /\ SubSeq(s, 1, Len(s)) = SubSeq(main, 1, Len(s))
    BY DEF IsAncestor, IsPrefix
  <1>3. SubSeq(s, 1, Len(s))[i] = s[i] /\ SubSeq(main, 1, Len(s))[i] = main[i]
    BY <1>1, <1>2
  <1>4. i \in DOMAIN main
    BY <1>1, <1>2
  <1> QED
    BY <1>2, <1>3, <1>4 DEF OnMain

\* Every step keeps what the service knows of main.
LEMMA MainStep ==
    ASSUME TypeInv, HandInv, MainInv, Next
    PROVE  MainInv'
  <1> USE LandingAssumption DEF TypeInv, TypeOK, HandInv, MainInv, OnMain, Checked, CheckingRecord, Entry, fileVars, svcVars, clientVars, historyVars, InHand
  <1>1. ASSUME NEW c \in Change, Submit(c)
        PROVE  MainInv'
    BY <1>1 DEF Submit, EnsureService, Tick
  <1>2. ASSUME NEW c \in Change, WaitEnsures(c)
        PROVE  MainInv'
    BY <1>2 DEF WaitEnsures, EnsureService
  <1>3. CASE RetryQueues
    BY <1>3 DEF RetryQueues, Tick
  <1>4. ASSUME NEW c \in Change, WithdrawFinds(c)
        PROVE  MainInv'
    BY <1>4 DEF WithdrawFinds
  <1>5. CASE RetryRemoves
    BY <1>5 DEF RetryRemoves, EnsureService
  <1>6. CASE WithdrawMarks
    BY <1>6 DEF WithdrawMarks
  <1>7. CASE WithdrawRemoves
    BY <1>7 DEF WithdrawRemoves, WdStep
  <1>8. CASE WithdrawAnswers
    BY <1>8 DEF WithdrawAnswers, WdStep
  <1>9. CASE WithdrawLooks
    BY <1>9 DEF WithdrawLooks
  <1>10. CASE WithdrawClears
    BY <1>10 DEF WithdrawClears, WdStep
  <1>11. CASE WithdrawUnmarks
    BY <1>11 DEF WithdrawUnmarks
  <1>12. CASE Recover
    <2>1. ASSUME checking.phase = "landing", IsAncestor(checking.tip, main)
          PROVE  OnMain(checking.entry.id)
      BY <1>12, <2>1, AncestorOnMain DEF Recover
    <2>2. pc' \in {"finish", "requeue"} /\ UNCHANGED <<main, checking, green, verdict>>
          /\ cur' = checking.entry
      BY <1>12 DEF Recover
    <2>3. pc' = "finish" => checking.phase = "landing" /\ IsAncestor(checking.tip, main)
      BY <1>12 DEF Recover
    <2> HIDE DEF Entry, CheckingRecord
    <2> QED
      BY <2>1, <2>2, <2>3
  <1>13. CASE DrainStarts
    BY <1>13 DEF DrainStarts, Step
  <1>14. CASE Requeue
    BY <1>14 DEF Requeue, Step, LetGo
  <1>15. CASE TakeReads
    BY <1>15 DEF TakeReads, Step
  <1>16. CASE TakeWrites
    BY <1>16 DEF TakeWrites, Step
  <1>17. CASE TakeRemoves
    BY <1>17 DEF TakeRemoves, Step
  <1>18. CASE DrainEnds
    BY <1>18 DEF DrainEnds, Step
  <1>19. CASE Exit
    BY <1>19 DEF Exit, Step
  <1>20. CASE LandOne
    BY <1>20 DEF LandOne, Answer
  <1>21. CASE Rebase
    <2> DEFINE onto == RebaseOnto(main, cur.id)
    <2>1. /\ onto = main => OnMain(cur.id)
          /\ onto # main => onto = Append(main, cur.id) /\ ~OnMain(cur.id)
      <3>1. cur.id \in Change
        BY <1>21 DEF Rebase
      <3> HIDE DEF Entry, CheckingRecord
      <3> QED
        BY <3>1, RebaseIsLine
    <2>2. checking = None => checking' = None
      BY <1>21 DEF Rebase
    <2>3. checking # None => /\ checking' # None /\ checking'.entry = checking.entry
                             /\ pc' = "run" => checking'.tip = onto
                                               /\ checking'.phase = "checking"
      BY <1>21, UpdateKeepsEntry
    <2>4. pc' # "run" => checking' = checking
      BY <1>21 DEF Rebase
    <2>5. UNCHANGED <<main, green>>
      BY <1>21 DEF Rebase
    <2> HIDE DEF onto, Entry, CheckingRecord
    <2>6. CASE pc' = "finish"
      BY <1>21, <2>1, <2>4, <2>5, <2>6 DEF Rebase, Answer, LetGo, onto
    <2>7. CASE pc' = "answer"
      BY <1>21, <2>1, <2>4, <2>5, <2>7 DEF Rebase, Answer, LetGo, onto
    <2>8. CASE pc' = "run"
      <3>1. base' = main /\ tip' = onto /\ onto # main /\ cur' = cur
        BY <1>21, <2>8 DEF Rebase, Answer, LetGo, onto
      <3> QED
        BY <2>1, <2>2, <2>3, <2>5, <2>8, <3>1
    <2>9. CASE pc' = "off"
      BY <2>4, <2>5, <2>9
    <2> QED
      BY <1>21, <2>6, <2>7, <2>8, <2>9 DEF Rebase, Answer, LetGo
  <1>22. CASE RunSteps
    BY <1>22 DEF RunSteps, LetGo, Answer
  <1>23. CASE Passed
    <2>1. UNCHANGED <<main, green>>
      BY <1>23 DEF Passed
    <2>2. CASE pc' \in {"answer", "off"}
      BY <1>23, <2>1, <2>2 DEF Passed, LetGo, Answer
    <2>3. CASE pc' = "advance"
      <3>1. UNCHANGED <<cur, base, tip>> /\ checking # None
        BY <1>23, <2>3 DEF Passed, LetGo, Answer
      <3>2. checking'.entry = checking.entry /\ checking'.tip = checking.tip
        BY <1>23, <3>1, UpdateKeepsEntry
      <3>3. \E i \in DOMAIN tip : tip[i] = cur.id
        BY <1>23, LastIsAppended DEF Passed, Commit
      <3> HIDE DEF Entry, CheckingRecord
      <3>4. checking.tip = tip /\ checking.entry.id = cur.id /\ pc = "passed"
        BY <1>23, <3>1 DEF Passed
      <3> QED
        BY <2>1, <2>3, <3>1, <3>2, <3>3, <3>4
    <2> QED
      BY <1>23, <2>2, <2>3 DEF Passed, LetGo, Answer
  <1>24. CASE Advance
    BY <1>24 DEF Advance, Answer
  <1>25. CASE FinishLanding
    BY <1>25 DEF FinishLanding, Answer
  <1>26. CASE AnswerWrites
    BY <1>26 DEF AnswerWrites
  <1>27. CASE AnswerHolds
    BY <1>27 DEF AnswerHolds, Step
  <1>28. CASE AnswerClears
    BY <1>28 DEF AnswerClears, Step
  <1>29. CASE AnswerEnds
    BY <1>29 DEF AnswerEnds, LetGo
  <1>30. CASE Unfinished
    <2>1. ASSUME checking # None, checking.phase = "landing", IsAncestor(checking.tip, main)
          PROVE  OnMain(cur.id)
      <3>1. checking.entry.id = cur.id
        BY <1>30, <2>1 DEF Unfinished
      <3>2. OnMain(checking.entry.id)
        BY <2>1, AncestorOnMain
      <3> QED
        BY <3>1, <3>2
    <2> HIDE DEF Entry, CheckingRecord
    <2>2. CASE checking = None
      BY <1>30, <2>2 DEF Unfinished, LetGo
    <2>3. CASE checking # None
      BY <1>30, <2>1, <2>3 DEF Unfinished, Answer
    <2> QED
      BY <2>2, <2>3
  <1>31. CASE Crash
    BY <1>31 DEF Crash, LetGo
  <1>32. CASE MainMoves
    <2>1. \A c \in Change : OnMain(c)' <=> OnMain(c)
      BY <1>32, OutsideIsNoChange DEF MainMoves
    <2>2. UNCHANGED <<pc, cur, base, tip, verdict, checking, green>>
      BY <1>32 DEF MainMoves
    <2>3. pc \in InHand => cur.id \in Change
      OBVIOUS
    <2> HIDE DEF OnMain, Entry, CheckingRecord
    <2> QED
      BY <2>1, <2>2, <2>3
  <1>33. CASE WithdrawUnholds
    BY <1>33 DEF WithdrawUnholds, WdStep
  <1>34. ASSUME NEW c \in Change, RetryReads(c)
        PROVE  MainInv'
    BY <1>34 DEF RetryReads
  <1> QED
    BY <1>1, <1>2, <1>3, <1>4, <1>5, <1>6, <1>7, <1>8, <1>9, <1>10, <1>11, <1>12, <1>13, <1>14, <1>15, <1>16, <1>17, <1>18, <1>19, <1>20, <1>21, <1>22, <1>23, <1>24, <1>25, <1>26, <1>27, <1>28, <1>29, <1>30, <1>31, <1>32, <1>33, <1>34
    DEF Next, Command, WithdrawGoesOn, ServiceStep

\* main grows by a commit that is green where it lands, or that is no change.
LEMMA GrownIsGreen ==
    ASSUME main \in Seq(Commit), LandedWasGreen, NEW c \in Commit,
           main' = Append(main, c), c \in Change => main' \in green', green \subseteq green'
    PROVE  LandedWasGreen'
  <1>1. /\ Len(main) \in Nat /\ DOMAIN main = 1..Len(main)
        /\ DOMAIN main' = 1..(Len(main) + 1) /\ Len(main') = Len(main) + 1
        /\ main' \in Seq(Commit)
        /\ \A i \in 1..Len(main) : main'[i] = main[i]
        /\ main'[Len(main) + 1] = c
    BY AppendProperties
  <1> SUFFICES ASSUME NEW i \in DOMAIN main', main'[i] \in Change
               PROVE  SubSeq(main', 1, i) \in green'
    BY DEF LandedWasGreen
  <1>2. CASE i \in 1..Len(main)
    <2>1. SubSeq(main', 1, i) = SubSeq(main, 1, i)
      BY <1>1, <1>2
    <2> QED
      BY <1>1, <1>2, <2>1 DEF LandedWasGreen
  <1>3. CASE i = Len(main) + 1
    <2>1. SubSeq(main', 1, i) = main'
      BY <1>1, <1>3
    <2> QED
      BY <1>1, <1>3, <2>1
  <1> QED
    BY <1>1, <1>2, <1>3

\* Only advanceMain, and somebody past the queue, move main.
LEMMA MovesOfMain ==
    ASSUME Next, main' # main
    PROVE  MainMoves \/ (Advance /\ main = base /\ main' = tip)
  BY DEF Next, Command, Submit, WaitEnsures, RetryReads, RetryQueues, RetryRemoves, WithdrawFinds,
         WithdrawGoesOn, WithdrawMarks, WithdrawRemoves, WithdrawUnholds, WithdrawAnswers, WithdrawLooks,
         WithdrawClears, WithdrawUnmarks, ServiceStep, Recover, DrainStarts, Requeue,
         TakeReads, TakeWrites, TakeRemoves, DrainEnds, Exit, LandOne, Rebase, RunSteps,
         Passed, Advance, FinishLanding, AnswerWrites, AnswerHolds, AnswerClears,
         AnswerEnds, Unfinished, Crash

\* What was green stays green.
LEMMA GreenGrows ==
    ASSUME Next
    PROVE  green \subseteq green'
  BY DEF Next, Command, Submit, WaitEnsures, RetryReads, RetryQueues, RetryRemoves, WithdrawFinds,
         WithdrawGoesOn, WithdrawMarks, WithdrawRemoves, WithdrawUnholds, WithdrawAnswers, WithdrawLooks,
         WithdrawClears, WithdrawUnmarks, ServiceStep, Recover, DrainStarts, Requeue,
         TakeReads, TakeWrites, TakeRemoves, DrainEnds, Exit, LandOne, Rebase, RunSteps,
         Passed, Advance, FinishLanding, AnswerWrites, AnswerHolds, AnswerClears,
         AnswerEnds, Unfinished, Crash, MainMoves, historyVars

LEMMA GreenStep ==
    ASSUME TypeInv, MainInv, LandedWasGreen, Next
    PROVE  LandedWasGreen'
  <1>1. main \in Seq(Commit) /\ green \subseteq green'
    BY GreenGrows DEF TypeInv, TypeOK
  <1>2. CASE main' = main
    BY <1>1, <1>2 DEF LandedWasGreen
  <1>3. CASE MainMoves
    <2>1. main' = Append(main, Outside) /\ Outside \in Commit /\ Outside \notin Change
      BY <1>3, LandingAssumption DEF MainMoves, Commit
    <2> QED
      BY <1>1, <2>1, GrownIsGreen
  <1>4. CASE Advance /\ main = base /\ main' = tip
    <2>1. cur.id \in Commit /\ main' = Append(main, cur.id) /\ main' \in green
      BY <1>4 DEF Advance, MainInv, Checked, TypeInv, InHand, Entry, Commit
    <2> QED
      BY <1>1, <2>1, GrownIsGreen
  <1> QED
    BY <1>2, <1>3, <1>4, MovesOfMain

-----------------------------------------------------------------------------
(***************************************************************************)
(* The theorems.                                                           *)
(***************************************************************************)
LEMMA InitInv == Init => Inv
  <1> SUFFICES ASSUME Init
               PROVE  Inv
    OBVIOUS
  <1> USE LandingAssumption DEF Init
  <1>1. TypeInv
    BY DEF TypeInv, TypeOK, InHand, NoEntry, NoCommand
  <1>2. ClockInv /\ HandInv /\ LostInv /\ MainInv
    BY DEF ClockInv, HandInv, LostInv, MainInv, InHand, Checked
  <1>3. LandedWasGreen
    BY DEF LandedWasGreen
  <1> QED
    BY <1>1, <1>2, <1>3 DEF Inv

LEMMA StepInv == Inv /\ [Next]_vars => Inv'
  <1> SUFFICES ASSUME Inv, [Next]_vars
               PROVE  Inv'
    OBVIOUS
  <1>1. CASE Next
    BY <1>1, TypeStep, ClockStep, HandStep, LostStep, MainStep, GreenStep DEF Inv
  <1>2. CASE UNCHANGED vars
    <2> USE <1>2 DEF vars, fileVars, svcVars, clientVars, historyVars
    <2>1. TypeInv'
      BY DEF Inv, TypeInv, TypeOK
    <2>2. ClockInv' /\ HandInv' /\ LostInv'
      BY DEF Inv, ClockInv, HandInv, LostInv, Kept, Checking
    <2>3. MainInv' /\ LandedWasGreen'
      BY DEF Inv, MainInv, OnMain, LandedWasGreen
    <2> QED
      BY <2>1, <2>2, <2>3 DEF Inv
  <1> QED
    BY <1>1, <1>2

LEMMA Invariant == Spec => []Inv
  BY InitInv, StepInv, PTL DEF Spec

\* However the service is killed between two writes of take, requeue, answer or
\* recover, and whatever the commands do meanwhile, a change that was queued
\* stays in a file until it is answered (Queue, drain).
THEOREM NoChangeLost == Spec => []QueueSound
  <1>1. Inv => QueueSound
    BY DEF Inv, TypeInv, LostInv, Kept, QueueSound, NothingLost, Waiting
  <1> QED
    BY <1>1, Invariant, PTL

\* What landOne and advanceMain put on main was checked on exactly the commits
\* below it, however often main moved and the service restarted meanwhile.
THEOREM OnlyGreenLands == Spec => []LandedWasGreen
  <1>1. Inv => LandedWasGreen
    BY DEF Inv
  <1> QED
    BY <1>1, Invariant, PTL

\* A step writes at most one answer, and then leaves main alone.
LEMMA AnswersGiven ==
    ASSUME Next, results' # results
    PROVE  /\ main' = main
           /\ WithdrawAnswers \/ AnswerWrites
  BY DEF Next, Command, Submit, WaitEnsures, RetryReads, RetryQueues, RetryRemoves, WithdrawFinds,
         WithdrawGoesOn, WithdrawMarks, WithdrawRemoves, WithdrawUnholds, WithdrawAnswers, WithdrawLooks,
         WithdrawClears, WithdrawUnmarks, ServiceStep, Recover, DrainStarts, Requeue,
         TakeReads, TakeWrites, TakeRemoves, DrainEnds, Exit, LandOne, Rebase, RunSteps,
         Passed, Advance, FinishLanding, AnswerWrites, AnswerHolds, AnswerClears,
         AnswerEnds, Unfinished, Crash, MainMoves, fileVars

\* Every step of the landing check is a step of MainLine, or none of it.
LEMMA LineStep ==
    ASSUME Inv, Next
    PROVE  Line!LineNext \/ UNCHANGED <<main, results>>
  <1>1. CASE main' = main /\ results' = results
    BY <1>1
  <1>2. CASE MainMoves
    BY <1>2 DEF MainMoves, fileVars, Line!LineNext, Line!Grow
  <1>3. CASE Advance /\ main = base /\ main' = tip
    <2>1. cur.id \in Change /\ main' = Append(main, cur.id) /\ ~OnMain(cur.id)
      BY <1>3 DEF Advance, Inv, MainInv, Checked, TypeInv, InHand, Entry
    <2>2. results' = results
      BY <1>3 DEF Advance, fileVars
    <2> QED
      BY <2>1, <2>2 DEF OnMain, Line!LineNext, Line!Grow, Line!OnLine
  <1>4. CASE WithdrawAnswers
    <2>1. wd.id \in Change
      BY <1>4 DEF WithdrawAnswers, WdStep, Inv, TypeInv
    <2>2. main' = main /\ results' = [results EXCEPT ![wd.id] = "withdrawn"]
      BY <1>4 DEF WithdrawAnswers
    <2> QED
      BY <2>1, <2>2 DEF Line!LineNext, Line!Tell, Line!True
  <1>5. CASE AnswerWrites
    <2>1. cur.id \in Change /\ verdict \in Line!True(cur.id)
      BY <1>5 DEF AnswerWrites, Inv, MainInv, TypeInv, InHand, Entry, OnMain,
                  Line!True, Line!OnLine
    <2>2. main' = main /\ results' = [results EXCEPT ![cur.id] = verdict]
      BY <1>5 DEF AnswerWrites
    <2> QED
      BY <2>1, <2>2 DEF Line!LineNext, Line!Tell
  <1> QED
    BY <1>1, <1>2, <1>3, <1>4, <1>5, MovesOfMain, AnswersGiven

\* main only grows, by one commit at a time and by a change at most once, and
\* every answer is true when it is given: the service, its restarts and the
\* commands implement MainLine (advanceMain, recover, unfinished, answer).
THEOREM LandingImplementsMainLine == Spec => ImplementsMainLine
  <1>1. Init => Line!LineInit
    BY DEF Init, Line!LineInit
  <1>2. Inv /\ [Next]_vars => [Line!LineNext]_(Line!lineVars)
    <2>1. CASE UNCHANGED vars
      BY <2>1 DEF vars, fileVars, Line!lineVars
    <2>2. ASSUME Inv, Next
          PROVE  [Line!LineNext]_(Line!lineVars)
      BY <2>2, LineStep DEF Line!lineVars
    <2> QED
      BY <2>1, <2>2
  <1> QED
    BY <1>1, <1>2, Invariant, PTL DEF Spec, ImplementsMainLine, Line!LineSpec
=============================================================================
