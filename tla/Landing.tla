------------------------------ MODULE Landing -------------------------------
(***************************************************************************)
(* The landing check: the durable queue of changes (queue.ts), the service *)
(* that drains it (service.ts), main moved by compare-and-swap (git.ts),   *)
(* and the commands that submit, wait, withdraw and retry (check.ts).      *)
(*                                                                         *)
(* The state that outlives a process is files. Each is written by a rename *)
(* (durable-record.ts) or removed, so one write or one removal is one step *)
(* here, and the service can stop between any two of them. The service's   *)
(* own variables (pc and what it has in hand) are lost when it stops.      *)
(*                                                                         *)
(* One service runs at a time: it is a systemd unit of a fixed name, and   *)
(* systemd refuses a second one.                                           *)
(***************************************************************************)
EXTENDS Naturals, Sequences, FiniteSets, SequencesExt

CONSTANTS Change,       \* the changes, each submitted once; a change is its commit
          Reverts,      \* the changes the full check submits, to go first
          Waiters,      \* the changes submitted without --no-wait
          Outside,      \* a commit put on main past the queue
          None,         \* no file, or nobody
          MaxRounds,    \* the checks of one change while main moves: 3 in the code
          MaxOutside,   \* bound: commits put on main past the queue
          MaxCrashes,   \* bound: times the service is killed
          MaxClock,     \* bound: submissions and retries
          MaxWithdraws  \* bound: withdraw commands

-----------------------------------------------------------------------------
(* The records. *)

Entry == [id : Change, first : BOOLEAN, at : Nat]

Commit == Change \cup {Outside}

\* What checking.json holds: the type Checking of the queue.
CheckingRecord == [entry : Entry, phase : {"checking", "landing"},
                   base : Seq(Commit), tip : Seq(Commit)]

ASSUME LandingAssumption ==
    /\ None \notin Change /\ Outside \notin Change
    /\ None \notin CheckingRecord
    /\ Reverts \cup Waiters \subseteq Change
    /\ MaxRounds \in Nat \ {0}
    /\ {MaxOutside, MaxCrashes, MaxClock, MaxWithdraws} \subseteq Nat

-----------------------------------------------------------------------------
VARIABLES
    main,       \* refs/heads/main: its commits since the start, oldest first
    queue,      \* queue/*.json: a set of entries
    checking,   \* checking.json: None, or the entry with its phase, base and tip
    held,       \* held/*.json: the ids held for a person
    results,    \* results/*.json: the newest answer of each id
    marks,      \* withdraw/*: the ids asked to be withdrawn while checked
    clock,      \* the time an entry is submitted at
    pc,         \* the service: what it does next
    cur,        \* the service: the entry in hand
    base, tip,  \* the service: main when it rebased, and the change on top of it
    round,      \* the service: the check's round
    verdict,    \* the service: the answer being given
    crashes,    \* times the service was killed
    wd,         \* the withdraw command: its step and the change it found
    withdraws,  \* withdraw commands so far
    retrying,   \* the retry command: its step and the change it read
    owed,       \* history: the changes queued since they were last answered
    green,      \* history: the tips whose steps all passed
    stolen      \* history: the changes still to be answered whose checking.json a
                \*   withdrawal removed

fileVars == <<queue, checking, held, results, marks>>
svcVars == <<pc, cur, base, tip, round, verdict>>
clientVars == <<wd, withdraws, retrying, clock>>
historyVars == <<owed, green, stolen>>
vars == <<main, fileVars, svcVars, crashes, clientVars, historyVars>>

-----------------------------------------------------------------------------
(* The files. *)

\* The order of the keys: `0-` before `1-`, then the time.
Before(a, b) == IF a.first = b.first THEN a.at < b.at ELSE a.first

Waiting(c) == \E e \in queue : e.id = c
Checking(c) == checking # None /\ checking.entry.id = c
OnMain(c) == \E i \in DOMAIN main : main[i] = c

-----------------------------------------------------------------------------
(* Git. *)

IsAncestor(a, b) == IsPrefix(a, b)

\* Mutant: rebaseOnto replays what main has already
ReplayAll(onto, c) == Append(onto, c)

\* rebaseOnto: what main has already is not replayed.
RebaseOnto(onto, c) ==
    IF \E i \in DOMAIN onto : onto[i] = c THEN onto ELSE Append(onto, c)

\* Somebody moves main past the queue.
MainMoves ==
    /\ Cardinality({i \in DOMAIN main : main[i] = Outside}) < MaxOutside
    /\ main' = Append(main, Outside)
    /\ UNCHANGED <<fileVars, svcVars, crashes, clientVars, historyVars>>

-----------------------------------------------------------------------------
(* The commands. *)

\* ensureService: nothing while a service holds the lock or its unit exists.
EnsureService == pc' = IF pc = "off" THEN "start" ELSE pc

Tick == /\ clock < MaxClock
        /\ clock' = clock + 1

\* Queue a change, and see that a service drains the queue.
Submit(c) ==
    /\ c \notin owed /\ results[c] = "none"
    /\ Tick
    /\ queue' = queue \cup {[id |-> c, first |-> c \in Reverts, at |-> clock]}
    /\ owed' = owed \cup {c}
    /\ EnsureService
    /\ UNCHANGED <<main, checking, held, results, marks, cur, base, tip, round, verdict,
                   crashes, wd, withdraws, retrying, green, stolen>>

\* The command of a change waits until it has a result, looking every two
\* seconds.
Waits(c) == c \in Waiters /\ c \in owed /\ results[c] = "none"

\* Mutant: wait looks, and leaves the service to others
WaitOnly(c) == Waits(c) /\ UNCHANGED vars

\* One look of wait: a service is started when the change is found waiting
\* (checking.json is looked at first) and no service holds the lock.
WaitEnsures(c) ==
    /\ Waits(c)
    /\ Waiting(c) /\ ~Checking(c)
    /\ pc = "off" /\ EnsureService
    /\ UNCHANGED <<main, fileVars, cur, base, tip, round, verdict, crashes,
                   clientVars, historyVars>>

NoCommand == [step |-> "idle", id |-> None]

\* Queue a held change again, first: its entry is read, is queued, whatever
\* became of it meanwhile, and leaves held/ after that.
RetryReads(c) ==
    /\ retrying.step = "idle" /\ c \in held
    /\ retrying' = [step |-> "queue", id |-> c]
    /\ UNCHANGED <<main, fileVars, svcVars, crashes, wd, withdraws, clock, historyVars>>

RetryQueues ==
    /\ retrying.step = "queue"
    /\ Tick
    /\ queue' = queue \cup {[id |-> retrying.id, first |-> TRUE, at |-> clock]}
    /\ retrying' = [retrying EXCEPT !.step = "remove"]
    /\ owed' = owed \cup {retrying.id}
    /\ UNCHANGED <<main, checking, held, results, marks, svcVars, crashes,
                   wd, withdraws, green, stolen>>

RetryRemoves ==
    /\ retrying.step = "remove" /\ retrying' = NoCommand
    /\ held' = held \ {retrying.id}
    /\ EnsureService
    /\ UNCHANGED <<main, queue, checking, results, marks, cur, base, tip,
                   round, verdict, crashes, wd, withdraws, clock,
                   historyVars>>

-----------------------------------------------------------------------------
(* Withdraw, while the service goes on: what `find` saw may be over when it *)
(* is acted on.                                                            *)

WdStep(from, to) == wd.step = from /\ wd' = [wd EXCEPT !.step = to]

\* find: the change being checked, else one waiting, else one held.
WithdrawFinds(c) ==
    /\ wd.step = "idle" /\ withdraws < MaxWithdraws
    /\ withdraws' = withdraws + 1
    /\ \/ /\ Checking(c)
          /\ wd' = [step |-> "mark", id |-> c]
       \/ /\ ~Checking(c) /\ (Waiting(c) \/ c \in held)
          /\ wd' = [step |-> "remove", id |-> c]
    /\ UNCHANGED <<main, fileVars, svcVars, crashes, retrying, clock, historyVars>>

\* Found checking: the answer is left to the service.
WithdrawMarks ==
    /\ wd.step = "mark" /\ wd' = NoCommand
    /\ marks' = marks \cup {wd.id}
    /\ UNCHANGED <<main, queue, checking, held, results, svcVars, crashes,
                   withdraws, retrying, clock, owed, green, stolen>>

\* Found waiting or held: its files go, from the queue and then from held/, and
\* it is answered (answer) at once.
WithdrawRemoves ==
    /\ WdStep("remove", "unhold")
    /\ queue' = {e \in queue : e.id # wd.id}
    /\ UNCHANGED <<main, checking, held, results, marks, svcVars, crashes, withdraws, retrying,
                   clock, historyVars>>

WithdrawUnholds ==
    /\ WdStep("unhold", "answer")
    /\ held' = held \ {wd.id}
    /\ UNCHANGED <<main, queue, checking, results, marks, svcVars, crashes, withdraws, retrying,
                   clock, historyVars>>

WithdrawAnswers ==
    /\ WdStep("answer", "look")
    /\ results' = [results EXCEPT ![wd.id] = "withdrawn"]
    /\ owed' = owed \ {wd.id}
    /\ UNCHANGED <<main, queue, checking, held, marks, svcVars, crashes,
                   withdraws, retrying, clock, green, stolen>>

\* answer reads checking.json, and removes it if it is this change's: by then
\* it may be the next one's.
WithdrawLooks ==
    /\ wd.step = "look"
    /\ wd' = [wd EXCEPT !.step = IF Checking(wd.id) THEN "clear" ELSE "unmark"]
    /\ UNCHANGED <<main, fileVars, svcVars, crashes, withdraws, retrying, clock, historyVars>>

WithdrawClears ==
    /\ WdStep("clear", "unmark")
    /\ checking' = None
    /\ stolen' = stolen \cup {c \in owed : Checking(c)}
    /\ UNCHANGED <<main, queue, held, results, marks, svcVars, crashes, withdraws, retrying, clock, owed, green>>

WithdrawUnmarks ==
    /\ wd.step = "unmark" /\ wd' = NoCommand
    /\ marks' = marks \ {wd.id}
    /\ UNCHANGED <<main, queue, checking, held, results, svcVars, crashes,
                   withdraws, retrying, clock, historyVars>>

WithdrawGoesOn == \/ WithdrawMarks \/ WithdrawRemoves \/ WithdrawUnholds \/ WithdrawAnswers
                  \/ WithdrawLooks \/ WithdrawClears \/ WithdrawUnmarks

-----------------------------------------------------------------------------
(* The service. *)

Step(from, to) == pc = from /\ pc' = to

\* What the service has in hand goes with an iteration, and with the process.
NoEntry == [id |-> None, first |-> FALSE, at |-> 0]
LetGo(to) == /\ pc' = to
             /\ cur' = NoEntry /\ base' = <<>> /\ tip' = <<>>
             /\ round' = 1 /\ verdict' = "none"

\* Give an answer to the entry in hand: the steps of answer follow.
Answer(a) == pc' = "answer" /\ verdict' = a

\* recover: a change that was being checked when the service stopped has
\* landed, or goes back to the front of the queue.
Recover ==
    /\ pc = "start"
    /\ checking # None
    /\ cur' = checking.entry /\ base' = checking.base /\ tip' = checking.tip
    /\ pc' = IF checking.phase = "landing" /\ IsAncestor(checking.tip, main)
             THEN "finish" ELSE "requeue"
    /\ UNCHANGED <<main, fileVars, round, verdict, crashes, clientVars,
                   historyVars>>

\* drain: the lock is taken, and there is nothing to recover. Here and below,
\* pushing main and tidying up after a task (its pool tree, its branch) are
\* left out: their failures are only reported.
DrainStarts ==
    /\ Step("start", "take")
    /\ checking = None
    /\ UNCHANGED <<main, fileVars, cur, base, tip, round, verdict, crashes,
                   clientVars, historyVars>>

\* Mutant: requeue takes checking.json away before the queue has the change
RequeueRemovesFirst ==
    /\ \/ /\ Step("requeue", "requeued")
          /\ checking' = None
          /\ UNCHANGED <<queue, cur, base, tip, round, verdict>>
       \/ /\ pc = "requeued" /\ LetGo("take")
          /\ queue' = queue \cup {[cur EXCEPT !.first = TRUE]}
          /\ UNCHANGED checking
    /\ UNCHANGED <<main, held, results, marks, crashes, clientVars, historyVars>>

\* requeue: first in the queue, then out of checking.json.
Requeue ==
    /\ \/ /\ Step("requeue", "requeued")
          /\ queue' = queue \cup {[cur EXCEPT !.first = TRUE]}
          /\ UNCHANGED <<checking, cur, base, tip, round, verdict>>
       \/ /\ pc = "requeued" /\ LetGo("take")
          /\ checking' = None
          /\ UNCHANGED queue
    /\ UNCHANGED <<main, held, results, marks, crashes, clientVars, historyVars>>

\* take: the first file is read, becomes checking.json, and leaves the queue.
TakeReads ==
    /\ Step("take", "taking")
    /\ cur' \in {e \in queue : \A f \in queue : f = e \/ Before(e, f)}
    /\ UNCHANGED <<main, fileVars, base, tip, round, verdict, crashes,
                   clientVars, historyVars>>

TakeWrites ==
    /\ Step("taking", "taken")
    /\ checking' = [entry |-> cur, phase |-> "checking", base |-> <<>>, tip |-> <<>>]
    /\ UNCHANGED <<main, queue, held, results, marks, cur, base, tip, round,
                   verdict, crashes, clientVars, historyVars>>

TakeRemoves ==
    /\ Step("taken", "land")
    /\ queue' = queue \ {cur}
    /\ UNCHANGED <<main, checking, held, results, marks, cur, base, tip, round,
                   verdict, crashes, clientVars, historyVars>>

\* The queue was empty: the lock goes, and the process exits. A change
\* queued from here on finds the lock held, or the unit there, and no service.
DrainEnds ==
    /\ Step("take", "exiting")
    /\ queue = {}
    /\ UNCHANGED <<main, fileVars, cur, base, tip, round, verdict, crashes,
                   clientVars, historyVars>>

Exit == /\ Step("exiting", "off")
        /\ UNCHANGED <<main, fileVars, cur, base, tip, round, verdict, crashes,
                       clientVars, historyVars>>

\* landOne, before its first round.
LandOne ==
    /\ pc = "land"
    /\ IF cur.id \in marks THEN Answer("withdrawn") /\ UNCHANGED round
                           ELSE pc' = "rebase" /\ round' = 1 /\ UNCHANGED verdict
    /\ UNCHANGED <<main, fileVars, cur, base, tip, crashes, clientVars,
                   historyVars>>

\* A round: rebase onto main now. A conflict (or a commit that is not there)
\* refuses; a change that main has is answered as landed. update throws when
\* checking.json is gone, and unfinished then fails on it too: drain ends.
Rebase ==
    /\ pc = "rebase"
    /\ LET onto == RebaseOnto(main, cur.id) IN
       \/ /\ base' = main /\ tip' = onto
          /\ \/ /\ onto = main
                /\ pc' = "finish" /\ UNCHANGED <<checking, verdict>>
             \/ /\ onto # main
                /\ Answer("refused") /\ UNCHANGED checking
             \/ /\ onto # main /\ checking # None
                /\ pc' = "run" /\ UNCHANGED verdict
                /\ checking' = [checking EXCEPT !.phase = "checking",
                                                !.base = main, !.tip = onto]
          /\ UNCHANGED <<cur, round>>
       \/ /\ onto # main /\ checking = None
          /\ LetGo("off") /\ UNCHANGED checking
    /\ UNCHANGED <<main, queue, held, results, marks, crashes, clientVars,
                   historyVars>>

\* Select the steps and run them in the landing tree.
RunSteps ==
    /\ pc = "run"
    /\ \/ checking = None /\ LetGo("off") /\ UNCHANGED green
       \/ /\ checking # None
          /\ \/ pc' = "passed" /\ green' = green \cup {tip} /\ UNCHANGED verdict
             \/ \E a \in {"refused", "held"} : Answer(a) /\ UNCHANGED green
          /\ UNCHANGED <<cur, base, tip, round>>
    /\ UNCHANGED <<main, fileVars, crashes, clientVars, owed, stolen>>

\* Green: the last look at the withdrawals, then the phase from which a
\* restarted service finishes the landing.
Passed ==
    /\ pc = "passed"
    /\ \/ /\ cur.id \in marks
          /\ Answer("withdrawn") /\ UNCHANGED <<checking, cur, base, tip, round>>
       \/ /\ cur.id \notin marks /\ checking # None
          /\ pc' = "advance"
          /\ checking' = [checking EXCEPT !.phase = "landing"]
          /\ UNCHANGED <<cur, base, tip, round, verdict>>
       \/ /\ cur.id \notin marks /\ checking = None
          /\ LetGo("off") /\ UNCHANGED checking
    /\ UNCHANGED <<main, queue, held, results, marks, crashes, clientVars,
                   historyVars>>

\* Mutant: a change whose base moved is rebased again and lands unchecked
AdvanceRebased ==
    /\ Step("advance", "finish")
    /\ main' = RebaseOnto(main, cur.id)
    /\ UNCHANGED <<fileVars, cur, base, tip, round, verdict, crashes, clientVars,
                   historyVars>>

\* advanceMain: main moves to the tip only from the base it was checked on. If
\* it moved meanwhile the change is checked again, a few times; the tree that
\* has main checked out may refuse.
Advance ==
    /\ pc = "advance"
    /\ \/ /\ main = base
          /\ main' = tip
          /\ pc' = "finish" /\ UNCHANGED <<round, verdict>>
       \/ /\ main = base
          /\ Answer("held") /\ UNCHANGED <<main, round>>
       \/ /\ main # base
          /\ IF round < MaxRounds
             THEN pc' = "rebase" /\ round' = round + 1 /\ UNCHANGED verdict
             ELSE Answer("held") /\ UNCHANGED round
          /\ UNCHANGED main
    /\ UNCHANGED <<fileVars, cur, base, tip, crashes, clientVars, historyVars>>

\* finishLanding: main has moved; answer.
FinishLanding ==
    /\ pc = "finish"
    /\ Answer("landed")
    /\ UNCHANGED <<main, fileVars, cur, base, tip, round, crashes, clientVars,
                   historyVars>>

\* unfinished: the check threw. The change has landed if main moved to it, and
\* is held otherwise; without checking.json the handler fails as well.
Unfinished ==
    /\ pc \in {"rebase", "run", "passed", "advance"}
    /\ \/ checking = None /\ LetGo("off")
       \/ /\ checking # None
          /\ IF checking.phase = "landing" /\ IsAncestor(checking.tip, main)
             THEN pc' = "finish" /\ UNCHANGED verdict
             ELSE Answer("held")
          /\ UNCHANGED <<cur, base, tip, round>>
    /\ UNCHANGED <<main, fileVars, crashes, clientVars, historyVars>>

\* answer: the result, the held entry, and only then checking.json and the mark.
AnswerWrites ==
    /\ pc = "answer"
    /\ results' = [results EXCEPT ![cur.id] = verdict]
    /\ owed' = owed \ {cur.id}
    /\ pc' = IF verdict = "held" THEN "hold" ELSE "clear"
    /\ UNCHANGED <<main, queue, checking, held, marks, cur, base, tip, round,
                   verdict, crashes, clientVars, green, stolen>>

AnswerHolds ==
    /\ Step("hold", "clear")
    /\ held' = held \cup {cur.id}
    /\ UNCHANGED <<main, queue, checking, results, marks, cur, base, tip, round,
                   verdict, crashes, clientVars, historyVars>>

AnswerClears ==
    /\ Step("clear", "unmark")
    /\ checking' = IF Checking(cur.id) THEN None ELSE checking
    /\ UNCHANGED <<main, queue, held, results, marks, cur, base, tip, round,
                   verdict, crashes, clientVars, historyVars>>

\* The next change; after one that touched the service's own code, a new
\* process that runs it.
AnswerEnds ==
    /\ pc = "unmark"
    /\ marks' = marks \ {cur.id}
    /\ \/ LetGo("take")
       \/ verdict = "landed" /\ base # tip /\ LetGo("start")
    /\ UNCHANGED <<main, queue, checking, held, results, crashes, clientVars,
                   historyVars>>

ServiceStep ==
    \/ Recover \/ DrainStarts \/ Requeue
    \/ TakeReads \/ TakeWrites \/ TakeRemoves \/ DrainEnds \/ Exit
    \/ LandOne \/ Rebase \/ RunSteps \/ Passed \/ Advance \/ FinishLanding
    \/ AnswerWrites \/ AnswerHolds \/ AnswerClears \/ AnswerEnds

Crash ==
    /\ pc # "off" /\ crashes < MaxCrashes
    /\ crashes' = crashes + 1
    /\ LetGo("off")
    /\ UNCHANGED <<main, fileVars, clientVars, historyVars>>

-----------------------------------------------------------------------------
Init ==
    /\ main = <<>>
    /\ queue = {} /\ checking = None /\ held = {} /\ marks = {}
    /\ results = [c \in Change |-> "none"]
    /\ pc = "off" /\ cur = NoEntry /\ base = <<>> /\ tip = <<>> /\ round = 1
    /\ verdict = "none" /\ crashes = 0
    /\ wd = NoCommand /\ withdraws = 0
    /\ retrying = NoCommand /\ clock = 0
    /\ owed = {} /\ green = {} /\ stolen = {}

Command ==
    \/ \E c \in Change :
         Submit(c) \/ WaitEnsures(c) \/ RetryReads(c) \/ WithdrawFinds(c)
    \/ RetryQueues \/ RetryRemoves
    \/ WithdrawGoesOn

Next == Command \/ ServiceStep \/ Unfinished \/ Crash \/ MainMoves

Spec == Init /\ [][Next]_vars

\* The processes run on; wait looks every two seconds.
Fairness == /\ WF_vars(ServiceStep) /\ WF_vars(WithdrawGoesOn)
            /\ \A c \in Change : WF_vars(WaitEnsures(c))

FairSpec == Spec /\ Fairness

-----------------------------------------------------------------------------
(* Properties. *)

\* Type correctness of the files, the service and the commands.
TypeOK ==
    /\ main \in Seq(Commit)
    /\ queue \subseteq Entry
    /\ checking \in CheckingRecord \cup {None}
    /\ held \cup marks \cup owed \subseteq Change
    /\ results \in [Change -> {"none", "landed", "refused", "withdrawn", "held"}]
    /\ cur \in Entry \cup {NoEntry}
    /\ round \in 1..MaxRounds

\* A change that was queued and not answered since is still in a file, or in
\* the hands of a withdrawal that is about to answer it, however the service
\* was interrupted between two of its writes (take, requeue, answer, retry) --
\* unless a withdrawal answered before removed its checking.json.
NothingLost ==
    \A c \in owed : \/ Waiting(c) \/ Checking(c) \/ c \in held
                    \/ wd.id = c /\ wd.step \in {"unhold", "answer"}
                    \/ c \in stolen

\* The files are well formed and hold what is owed an answer.
QueueSound == TypeOK /\ NothingLost

\* What lands was checked where it lands: every change on main was green on
\* exactly the commits below it, however often main moved, the service stopped
\* or the change sat in the queue twice.
LandedWasGreen ==
    \A i \in DOMAIN main : main[i] \in Change => SubSeq(main, 1, i) \in green

\* main and the answers are those of MainLine: main only grows, a change is on
\* it at most once, and an answer is true when it is given.
Line == INSTANCE MainLine WITH line <- main, answers <- results
ImplementsMainLine == Line!LineSpec

\* A change that somebody waits for and that is in the queue is taken up, even
\* if the service that was to do it had seen an empty queue, or was killed.
\* (Taken up means in checking.json; wait does not restart a service that was
\* killed after that.)
WaitedIsTaken ==
    \A c \in Change : (Waits(c) /\ Waiting(c)) ~> (Checking(c) \/ ~Waits(c) \/ c \in stolen)

Accepted(c) == c \in marks \/ results[c] = "withdrawn"

\* A withdrawal that was accepted keeps the change off main: "the one being
\* checked is answered when its check ends, and never lands".
WithdrawnNeverLands ==
    [][\A c \in Change : Accepted(c) /\ OnMain(c)' => OnMain(c)]_vars
=============================================================================
