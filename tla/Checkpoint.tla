----------------------------- MODULE Checkpoint -----------------------------
(***************************************************************************)
(* When jobs run: the checkpoint of runtime/c/nts_runtime.c and everything *)
(* that can begin one.                                                     *)
(*                                                                         *)
(* One thread runs all of this, so what makes it hard is not parallelism   *)
(* but re-entry.  Compiled code calls out and is called back: a task of    *)
(* the loop, a capability that re-enters, a callback of a C library, a     *)
(* release of a foreign handle in the middle of the collector, a           *)
(* synchronous join that drives the loop.  The C stack is therefore a      *)
(* variable, and each function that calls out is a frame that stays on it. *)
(*                                                                         *)
(* Compiled code at the top of the stack does anything Promises allows it. *)
(* A tick has no identity of its own: the queue of ticks is its length.    *)
(* An exception that escapes a job is not modelled, nor is a host that     *)
(* owns the microtask queue (NtsHost.enqueue_microtask).                   *)
(***************************************************************************)
EXTENDS Promises

CONSTANTS
    Fuel,         \* bounds: how often the program makes each call of Calls
    ForeignLoop,  \* NtsEnvironment.checkpoint_after_callbacks
    LoopTells,    \* NtsEnvironment.returns_to_loop is set, as GLib's host does
    Landing       \* the embedder keeps an NtsLanding around its entries

Calls == {"call", "post", "tick", "signal", "reenter", "release", "checkpoint",
          "join", "loop"}

ASSUME CheckpointAssumption ==
    /\ Fuel \in [Calls -> Nat]
    /\ ForeignLoop \in BOOLEAN
    /\ LoopTells \in BOOLEAN
    /\ Landing \in BOOLEAN

VARIABLES
    stack,             \* the C stack, top first
    depth,             \* NtsEnvironment.depth
    inCallback,        \* NtsEnvironment.in_callback
    checkpointActive,  \* NtsEnvironment.checkpoint_active
    joinActive,        \* NtsEnvironment.join_active
    checkpointPosted,  \* NtsEnvironment.checkpoint_posted
    ticks,             \* length of NtsEnvironment.tick_queue
    tasks,             \* what the host was asked to run, oldest first
    exited,            \* the process has ended
    fuel,              \* what is left of Fuel
    \* history
    joins,             \* promises a join was asked about
    joinResult,        \* what the last finished join answered
    reports,           \* rejections given to nts_uncaught, in order
    released           \* how often the report gave back each candidate

log == <<joins, joinResult, reports, released>>
control == <<stack, depth, inCallback, checkpointActive, joinActive,
             checkpointPosted, ticks, tasks, exited, fuel,
             log>>
checkpointVars == <<vars, control>>

(***************************************************************************)
(* Frames.  `prev` is the local `previous` of a checkpoint, `why` what     *)
(* began it, `at` the position of a loop, `of` the promise of a join.      *)
(***************************************************************************)
Frame(kind) ==
    [kind |-> kind, prev |-> FALSE, why |-> "none", at |-> 0, of |-> None]

CheckpointFrame(why) ==
    [Frame("checkpoint") EXCEPT !.prev = checkpointActive, !.why = why]

\* Frames of compiled code.
ProgramKinds == {"module", "call", "task", "callback", "release", "job"}

Top == Head(stack)
TopIs(kind) == ~exited /\ ~aborted /\ stack # <<>> /\ Top.kind = kind
InProgram == \E kind \in ProgramKinds : TopIs(kind)

\* Between tasks: the embedder, or the loop it runs.
AtBase == ~exited /\ ~aborted /\ stack = <<>>

\* A loop that can dispatch: the base one, or one compiled code turns.
AtLoop == AtBase \/ TopIs("loop")

Push(frame) == stack' = <<frame>> \o stack
Pop == stack' = Tail(stack)
Replace(frame) == stack' = <<frame>> \o Tail(stack)

Spend(call) ==
    /\ fuel[call] > 0
    /\ fuel' = [fuel EXCEPT ![call] = @ - 1]

(***************************************************************************)
(* Compiled code.                                                          *)
(***************************************************************************)
ProgramStep ==
    /\ InProgram
    /\ Program
    /\ UNCHANGED control

EnqueueTick ==
    /\ InProgram
    /\ Spend("tick")
    /\ ticks' = ticks + 1
    /\ UNCHANGED <<vars, stack, depth, inCallback, checkpointActive, joinActive,
                   checkpointPosted, tasks, exited, log>>

PostTask ==
    /\ InProgram
    /\ Spend("post")
    /\ tasks' = Append(tasks, "program")
    /\ UNCHANGED <<vars, stack, depth, inCallback, checkpointActive, joinActive,
                   checkpointPosted, ticks, exited, log>>

\* The embedder calls an exported function: no entry, no exit.
Call ==
    /\ AtBase
    /\ Spend("call")
    /\ Push(Frame("call"))
    /\ UNCHANGED <<vars, depth, inCallback, checkpointActive, joinActive,
                   checkpointPosted, ticks, tasks, exited, log>>

\* Module evaluation turns a foreign loop (g_application_run).
TurnLoop ==
    /\ TopIs("module")
    /\ Spend("loop")
    /\ Push(Frame("loop"))
    /\ UNCHANGED <<vars, depth, inCallback, checkpointActive, joinActive,
                   checkpointPosted, ticks, tasks, exited, log>>

\* A capability calls compiled code back between nts_enter and nts_leave.
Enter ==
    /\ InProgram
    /\ Spend("reenter")
    /\ Push(Frame("task"))
    /\ depth' = depth + 1
    /\ UNCHANGED <<vars, inCallback, checkpointActive, joinActive,
                   checkpointPosted, ticks, tasks, exited, log>>

\* A C library calls compiled code back: a signal that compiled code emitted,
\* or an event its own loop dispatches.
CallbackEnter ==
    /\ InProgram \/ TopIs("loop")
    /\ Spend("signal")
    /\ Push(Frame("callback"))
    /\ inCallback' = inCallback + 1
    /\ UNCHANGED <<vars, depth, checkpointActive, joinActive, checkpointPosted,
                   ticks, tasks, exited, log>>

(***************************************************************************)
(* Returning from compiled code.                                           *)
(***************************************************************************)
\* A checkpoint takes the place of the frame that returns.
BeginCheckpoint(why) ==
    /\ Replace(CheckpointFrame(why))
    /\ checkpointActive' = TRUE

\* Module evaluation is a job: nts_enter, nts_leave behind it.
ModuleEnd ==
    /\ TopIs("module")
    /\ BeginCheckpoint("leave")
    /\ UNCHANGED <<vars, depth, inCallback, joinActive, checkpointPosted, ticks,
                   tasks, exited, fuel, log>>

\* Only the outermost leave is a checkpoint.
Leave ==
    /\ TopIs("task")
    /\ depth' = depth - 1
    /\ IF depth = 1
       THEN BeginCheckpoint("leave")
       ELSE Pop /\ UNCHANGED checkpointActive
    /\ UNCHANGED <<vars, inCallback, joinActive, checkpointPosted, ticks, tasks,
                   exited, fuel, log>>

\* GLib's answer: inside a dispatch of its loop.  A host that does not say has
\* every outermost callback return to its loop.
ReturnsToLoop == ~LoopTells \/ \E i \in DOMAIN stack : stack[i].kind = "loop"

\* Mutant: a callback entered from a task ends a turn too.
EndsTurnAnyDepth == ForeignLoop /\ inCallback = 1

EndsTurn == ForeignLoop /\ inCallback = 1 /\ depth = 0

CallbackLeave ==
    /\ TopIs("callback")
    /\ inCallback' = inCallback - 1
    /\ IF EndsTurn /\ ReturnsToLoop
       THEN /\ BeginCheckpoint("callback")
            /\ UNCHANGED <<tasks, checkpointPosted>>
       ELSE /\ Pop
            /\ UNCHANGED checkpointActive
            /\ IF EndsTurn /\ ~checkpointPosted
               THEN /\ checkpointPosted' = TRUE
                    /\ tasks' = Append(tasks, "checkpoint")
               ELSE UNCHANGED <<tasks, checkpointPosted>>
    /\ UNCHANGED <<vars, depth, joinActive, ticks, exited, fuel, log>>

\* A job, an exported function or the foreign loop returns; a foreign release
\* is counted as a callback but its return ends no turn.
Return ==
    /\ \E kind \in {"job", "call", "loop", "release"} : TopIs(kind)
    /\ Pop
    /\ inCallback' = IF Top.kind = "release" THEN inCallback - 1 ELSE inCallback
    /\ UNCHANGED <<vars, depth, checkpointActive, joinActive, checkpointPosted,
                   ticks, tasks, exited, fuel, log>>

(***************************************************************************)
(* The host runs the oldest task it was given, through nts_task_run.  The  *)
(* task nts_callback_leave posted is empty: its checkpoint is the point.   *)
(***************************************************************************)
\* Mutant: the posted checkpoint forgets to say that it ran.
TaskRunStaysPosted(below) ==
    /\ tasks # <<>>
    /\ tasks' = Tail(tasks)
    /\ IF Head(tasks) = "program"
       THEN /\ stack' = <<Frame("task")>> \o below
            /\ depth' = depth + 1
            /\ UNCHANGED checkpointActive
       ELSE /\ stack' = <<CheckpointFrame("leave")>> \o below
            /\ checkpointActive' = TRUE
            /\ UNCHANGED depth
    /\ UNCHANGED checkpointPosted

TaskRun(below) ==
    /\ tasks # <<>>
    /\ tasks' = Tail(tasks)
    /\ IF Head(tasks) = "program"
       THEN /\ stack' = <<Frame("task")>> \o below
            /\ depth' = depth + 1
            /\ UNCHANGED <<checkpointActive, checkpointPosted>>
       ELSE /\ stack' = <<CheckpointFrame("leave")>> \o below
            /\ checkpointActive' = TRUE
            /\ checkpointPosted' = FALSE
            /\ UNCHANGED depth

RunTask ==
    /\ AtLoop
    /\ TaskRun(stack)
    /\ UNCHANGED <<vars, inCallback, joinActive, ticks, exited, fuel, log>>

(***************************************************************************)
(* The checkpoint: `at` is 0 in the loop over ticks, 1 in the loop over    *)
(* microtasks, 2 once both queues are empty.                               *)
(***************************************************************************)
\* nts_checkpoint, called by compiled code or by the embedder.
ExplicitCheckpoint ==
    /\ InProgram \/ AtBase
    /\ Spend("checkpoint")
    /\ Push(CheckpointFrame("explicit"))
    /\ checkpointActive' = TRUE
    /\ UNCHANGED <<vars, depth, inCallback, joinActive, checkpointPosted, ticks,
                   tasks, exited, log>>

RunTick ==
    /\ TopIs("checkpoint") /\ Top.at = 0
    /\ IF ticks > 0
       THEN ticks' = ticks - 1 /\ Push(Frame("job"))
       ELSE Replace([Top EXCEPT !.at = 1]) /\ UNCHANGED ticks
    /\ UNCHANGED <<vars, depth, inCallback, checkpointActive, joinActive,
                   checkpointPosted, tasks, exited, fuel, log>>

\* Compiled code that the job resumes is a frame of its own.
Drain ==
    /\ TopIs("checkpoint") /\ Top.at = 1
    /\ micro # <<>>
    /\ RunJob(Tail(micro), Head(micro))
    /\ IF Head(micro)[1] \in {"user", "thenable"}
       THEN Push(Frame("job"))
       ELSE UNCHANGED stack
    /\ UNCHANGED <<depth, inCallback, checkpointActive, joinActive,
                   checkpointPosted, ticks, tasks, exited, fuel, log>>

\* Mutant: no second pass.
AfterDrainOnce == 2

\* Ticks that the microtasks queued are a second pass of this checkpoint.
AfterDrain == IF ticks # 0 THEN 0 ELSE 2

DrainEnd ==
    /\ TopIs("checkpoint") /\ Top.at = 1
    /\ micro = <<>>
    /\ Replace([Top EXCEPT !.at = AfterDrain])
    /\ UNCHANGED <<vars, depth, inCallback, checkpointActive, joinActive,
                   checkpointPosted, ticks, tasks, exited, fuel, log>>

\* An object that holds a foreign handle dies, when compiled code lets go of
\* it, in the collection at the end of a checkpoint, or in the report's own
\* releases: nts_call_foreign_release enters compiled code. (Inside another
\* such release the death may be left to the drain around it: the same call,
\* later.)
ForeignRelease ==
    /\ \/ InProgram
       \/ TopIs("checkpoint") /\ Top.at = 2
       \/ TopIs("report") /\ Top.at > 0
    /\ Spend("release")
    /\ Push(Frame("release"))
    /\ inCallback' = inCallback + 1
    /\ UNCHANGED <<vars, depth, checkpointActive, joinActive, checkpointPosted,
                   ticks, tasks, exited, log>>

\* Mutant: a nested checkpoint reports as well.
FinishCheckpointReports ==
    /\ TopIs("checkpoint") /\ Top.at = 2
    /\ checkpointActive' = Top.prev
    /\ Replace(Frame("report"))
    /\ UNCHANGED <<vars, depth, inCallback, joinActive, checkpointPosted, ticks,
                   tasks, exited, fuel, log>>

\* Mutant: the flag is cleared rather than restored.
FinishCheckpointClears ==
    /\ TopIs("checkpoint") /\ Top.at = 2
    /\ checkpointActive' = FALSE
    /\ IF Top.prev THEN Pop ELSE Replace(Frame("report"))
    /\ UNCHANGED <<vars, depth, inCallback, joinActive, checkpointPosted, ticks,
                   tasks, exited, fuel, log>>

\* Only the outermost checkpoint reports.
FinishCheckpoint ==
    /\ TopIs("checkpoint") /\ Top.at = 2
    /\ checkpointActive' = Top.prev
    /\ IF Top.prev THEN Pop ELSE Replace(Frame("report"))
    /\ UNCHANGED <<vars, depth, inCallback, joinActive, checkpointPosted, ticks,
                   tasks, exited, fuel, log>>

(***************************************************************************)
(* The report: `at` candidates have been looked at.                        *)
(***************************************************************************)
Unhandled(p) == state[p] = "rejected" /\ ~handled[p]

\* nts_uncaught: a landing, if no C frame of a callback is in between, is a
\* jump past every frame; otherwise the process ends.
Uncaught(p) ==
    /\ reports' = Append(reports, p)
    /\ IF Landing /\ inCallback = 0
       THEN stack' = <<>> /\ UNCHANGED exited
       ELSE exited' = TRUE /\ UNCHANGED stack

ReportCandidate ==
    /\ TopIs("report") /\ Top.at < Len(rejected)
    /\ LET p == rejected[Top.at + 1]
       IN  IF Unhandled(p)
           THEN Uncaught(p) /\ UNCHANGED released
           ELSE /\ released' = [released EXCEPT ![p] = @ + 1]
                /\ Replace([Top EXCEPT !.at = @ + 1])
                /\ UNCHANGED <<reports, exited>>
    /\ UNCHANGED <<vars, depth, inCallback, checkpointActive, joinActive,
                   checkpointPosted, ticks, tasks, fuel, joins, joinResult>>

\* Mutant: the list is kept.
ReportEndKeeps ==
    /\ TopIs("report") /\ Top.at >= Len(rejected)
    /\ Pop
    /\ UNCHANGED <<vars, depth, inCallback, checkpointActive, joinActive,
                   checkpointPosted, ticks, tasks, exited, fuel, log>>

ReportEnd ==
    /\ TopIs("report") /\ Top.at >= Len(rejected)
    /\ rejected' = <<>>
    /\ Pop
    /\ UNCHANGED <<promiseVars, micro, aborted, history, depth, inCallback,
                   checkpointActive, joinActive, checkpointPosted, ticks, tasks,
                   exited, fuel, log>>

(***************************************************************************)
(* nts_promise_join: `at` is 0 before the loop's checkpoint, 1 after it,   *)
(* 2 after the checkpoint that follows a pump with nothing to run.         *)
(***************************************************************************)
JoinRefused == depth > 0 \/ checkpointActive \/ joinActive

\* Joining is handling, before anything else.
JoinMarks(p) == handled' = [handled EXCEPT ![p] = TRUE]

Join(p) ==
    /\ InProgram \/ AtBase
    /\ p \in made
    /\ Spend("join")
    /\ JoinMarks(p)
    /\ joins' = joins \cup {p}
    /\ IF JoinRefused
       THEN joinResult' = "reentrant" /\ UNCHANGED <<stack, joinActive>>
       ELSE /\ Push([Frame("join") EXCEPT !.of = p])
            /\ joinActive' = TRUE
            /\ UNCHANGED joinResult
    /\ UNCHANGED <<state, value, reactions, resolutions, pairs, open, made,
                   sources, values, remaining, micro, rejected, aborted,
                   history, depth, inCallback, checkpointActive,
                   checkpointPosted, ticks, tasks, exited, reports, released>>

JoinReturn ==
    /\ Pop
    /\ joinActive' = FALSE
    /\ joinResult' = state[Top.of]
    /\ UNCHANGED <<checkpointActive, depth, checkpointPosted, tasks>>

\* Mutant: looks at the promise before it drains.
JoinCheckpointSkipped(next) ==
    /\ Replace([Top EXCEPT !.at = next])
    /\ UNCHANGED <<checkpointActive, joinActive, joinResult, depth,
                   checkpointPosted, tasks>>

JoinCheckpoint(next) ==
    /\ stack' = <<CheckpointFrame("join"), [Top EXCEPT !.at = next]>> \o Tail(stack)
    /\ checkpointActive' = TRUE
    /\ UNCHANGED <<joinActive, joinResult, depth, checkpointPosted, tasks>>

\* Between its checkpoints the join drives the host one turn at a time.
JoinPump ==
    /\ TaskRun(<<[Top EXCEPT !.at = 0]>> \o Tail(stack))
    /\ UNCHANGED <<joinActive, joinResult>>

JoinStep ==
    /\ TopIs("join")
    /\ \/ Top.at = 0 /\ JoinCheckpoint(1)
       \/ Top.at = 1 /\ ~Pending(Top.of) /\ JoinReturn
       \/ Top.at = 1 /\ Pending(Top.of) /\ JoinPump
       \/ Top.at = 1 /\ Pending(Top.of) /\ tasks = <<>> /\ JoinCheckpoint(2)
       \/ Top.at = 2 /\ JoinReturn
    /\ UNCHANGED <<vars, inCallback, ticks, exited, fuel, joins, reports,
                   released>>

(***************************************************************************)
(* The specification.  Module evaluation is on the stack when it starts.   *)
(***************************************************************************)
CheckpointInit ==
    /\ Init
    /\ stack = <<Frame("module")>>
    /\ depth = 0
    /\ inCallback = 0
    /\ checkpointActive = FALSE
    /\ joinActive = FALSE
    /\ checkpointPosted = FALSE
    /\ ticks = 0
    /\ tasks = <<>>
    /\ exited = FALSE
    /\ fuel = Fuel
    /\ joins = {}
    /\ joinResult = "none"
    /\ reports = <<>>
    /\ released = [p \in Promise |-> 0]

\* What the runtime does by itself once compiled code returns.
Runtime ==
    \/ ModuleEnd \/ Leave \/ CallbackLeave \/ Return
    \/ RunTask
    \/ RunTick \/ Drain \/ DrainEnd \/ FinishCheckpoint
    \/ ReportCandidate \/ ReportEnd
    \/ JoinStep

CheckpointNext ==
    \/ Runtime
    \/ ProgramStep \/ EnqueueTick \/ PostTask
    \/ Call \/ TurnLoop \/ Enter \/ CallbackEnter
    \/ ExplicitCheckpoint \/ ForeignRelease
    \/ \E p \in Promise : Join(p)

CheckpointSpec == CheckpointInit /\ [][CheckpointNext]_checkpointVars

\* Compiled code returns, the host runs the tasks it was given, and the
\* runtime's own loops go on.
CheckpointFairSpec == CheckpointSpec /\ WF_checkpointVars(Runtime)

(***************************************************************************)
(* Properties.                                                             *)
(***************************************************************************)
\* The type invariant: promises and queues keep their types, and the counters
\* of nts_enter and nts_callback_enter never go below zero.
CheckpointTypeOK ==
    /\ TypeOK
    /\ stack \in Seq([kind : ProgramKinds \cup {"loop", "checkpoint", "report", "join"},
                      prev : BOOLEAN,
                      why : {"none", "leave", "callback", "explicit", "join"},
                      at : Nat,
                      of : Promise \cup {None}])
    /\ depth \in Nat
    /\ inCallback \in Nat
    /\ {checkpointActive, joinActive, checkpointPosted, exited} \subseteq BOOLEAN
    /\ ticks \in Nat
    /\ tasks \in Seq({"program", "checkpoint"})
    /\ fuel \in [Calls -> Nat]
    /\ joins \subseteq made
    /\ joinResult \in {"none", "reentrant", "pending", "fulfilled", "rejected"}
    /\ reports \in Seq(made)
    /\ released \in [Promise -> Nat]

Frames(kinds) == {i \in DOMAIN stack : stack[i].kind \in kinds}

\* The environment's counters and flags tell what is on the C stack, whatever
\* nested in whatever: every decision of nts_leave, nts_callback_leave,
\* nts_finish_checkpoint and nts_promise_join is read off them.
FlagsTellStack ==
    /\ depth = Cardinality(Frames({"task"}))
    /\ inCallback = Cardinality(Frames({"callback", "release"}))
    /\ checkpointActive <=> Frames({"checkpoint"}) # {}
    /\ joinActive <=> Frames({"join"}) # {}

\* The stack is well formed, and the flags tell it.
StackSound == CheckpointTypeOK /\ FlagsTellStack

\* A checkpoint that compiled code did not ask for, above a frame of kind k.
InterruptedBy(k) ==
    \E i, j \in DOMAIN stack : /\ i < j
                               /\ stack[i].kind = "checkpoint"
                               /\ stack[i].why \in {"leave", "callback"}
                               /\ stack[j].kind = k

\* A task runs to completion: neither a capability's re-entry nor a callback
\* that returns inside it is a checkpoint (nts_leave, nts_callback_leave).
TaskRunsToCompletion == ~InterruptedBy("task")

\* A job of the queues runs to completion too: a callback that returns inside
\* one is not a checkpoint either (nts_callback_leave under nts_run_checkpoint).
JobRunsToCompletion == ~InterruptedBy("job")

\* Only the outermost checkpoint reports: while rejections are reported no
\* checkpoint is under way below, whose turn could still attach a handler
\* (nts_finish_checkpoint).
OutermostReports ==
    \A i \in Frames({"report"}) : \A j \in Frames({"checkpoint"}) : j < i

\* The drain runs to its fixpoint: when the report begins both queues are
\* empty, ticks queued by microtasks included, so no queued job can still
\* attach a handler (nts_process_ticks_and_rejections).
DrainedBeforeReport ==
    TopIs("report") /\ Top.at = 0 => micro = <<>> /\ ticks = 0

\* A rejection is reported only if nothing subscribed to the promise and
\* nobody joined it, at any time of the turn (nts_report_unhandled_rejections).
ReportedWereUnobserved ==
    \A i \in DOMAIN reports : ~Observed(reports[i]) /\ reports[i] \notin joins

\* A report comes after the drain and names only what nobody observed.
ReportsSound == DrainedBeforeReport /\ ReportedWereUnobserved

\* A promise is reported once; only rejecting again could make it a
\* candidate again (nts_report_unhandled_rejections).
ReportedOnce ==
    \A i, j \in DOMAIN reports : reports[i] = reports[j] => i = j

\* The reference nts_rejection_candidate takes on a promise is given back once
\* (the loop of nts_report_unhandled_rejections).
CandidateReleasedOnce == \A p \in Promise : released[p] <= 1

\* What a join answers.  A settlement is the promise's own; "pending" means
\* that nothing is left that could settle it: no task, no tick, no job.
JoinAnswers ==
    [][Frames({"join"}) # {} /\ TopIs("join") /\ joinActive /\ ~joinActive' =>
          /\ joinResult' = state[Top.of]
          /\ joinResult' = "pending" => tasks = <<>> /\ micro = <<>> /\ ticks = 0
      ]_checkpointVars

\* Someone will checkpoint: only an embedder's bare call, with no callback in
\* it, returns without one.
Attended == stack # <<>> /\ (inCallback > 0 \/ Frames({"call"}) = {})

\* Every awaiter of a settled promise resumes and every queued job runs: one
\* left in the queue by a callback that returned to compiled code does not wait
\* for an event (nts_callback_leave, nts_run_checkpoint).
AwaitersResume ==
    \A n \in 1 .. MaxJobs :
        (Attended /\ n <= Len(owner) /\ (owner[n] = None \/ ~Pending(owner[n])))
            ~> (n \in ran \/ aborted \/ exited)

\* Every join returns: its loop ends when the promise settles or the host has
\* nothing left to pump (nts_promise_join).
JoinsReturn == joinActive ~> (~joinActive \/ aborted \/ exited)

\* Jobs and joins both end.
JobsAndJoinsEnd == AwaitersResume /\ JoinsReturn

=============================================================================
