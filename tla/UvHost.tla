------------------------------- MODULE UvHost -------------------------------
(***************************************************************************)
(* The libuv host of runtime/c/nts_uv_host.c: the owner thread's queue of  *)
(* tasks behind an idle handle, timers in a table of generation-counted    *)
(* slots, the queue other threads post to behind an async handle, and the  *)
(* four ways in which the loop is driven (run, pump_one, pump and          *)
(* backend_fd).  The owner thread runs tasks, and the tasks run compiled   *)
(* code that calls the host again; the threads of `Thread` only ever post. *)
(*                                                                         *)
(* libuv is external: its handles are flags (active, referenced, closing,  *)
(* sent) and uv_run is its documented cycle of phases.  Time is abstract:  *)
(* an armed timer may be due whenever the loop looks.  A queue is the      *)
(* sequence its ring stands for.  Releasing a task's state is not followed *)
(* into compiled code.                                                     *)
(***************************************************************************)
EXTENDS Integers, Sequences, SequencesExt, FiniteSets

CONSTANTS
    Task,         \* tasks, each with a state that it owns
    Thread,       \* threads other than the owner
    None,
    Delays,       \* delays in milliseconds, after nts_delay
    MaxTimers,    \* bound: timers ever started
    MaxPending,   \* bound: operations awaited at once
    GenWrap,      \* 2^32: where a slot's generation wraps
    MaskWrap,     \* 2^21: how much of it an id holds
    ForeignLoop   \* another loop watches the backend descriptor and pumps

ASSUME UvHostAssumption ==
    /\ None \notin Task \cup Thread
    /\ Delays \subseteq Nat
    /\ MaxTimers \in Nat
    /\ MaxPending \in Nat
    /\ GenWrap \in Nat /\ MaskWrap \in Nat
    /\ MaskWrap > 1 /\ GenWrap >= MaskWrap
    /\ GenWrap % MaskWrap = 0
    /\ ForeignLoop \in BOOLEAN

Timer == 1 .. MaxTimers

VARIABLES
    live,        \* tasks posted, neither run nor dropped yet
    tasks,       \* nts_uv_tasks
    idle,        \* the idle handle is started
    foreign,     \* nts_uv_foreign
    sent,        \* the async handle is marked sent
    referenced,  \* the async handle is referenced
    pending,     \* nts_uv_pending
    posting,     \* what each thread has pushed and not yet sent for
    slots,       \* nts_uv_slots, one-based
    freeSlot,    \* nts_uv_free_slot
    timer,       \* the NtsUvTimer allocated n-th, and the id it was given
    started,     \* how many were
    armed,       \* timers libuv will fire
    closing,     \* timers whose close callback has not run
    installed,   \* nts_uv_installed
    running,     \* nts_uv_running
    entry,       \* which function drives the loop
    phase,       \* where that function, or uv_run inside it, is
    batch,       \* the local `batch` of nts_uv_run_foreign
    left,        \* the local `pending` of nts_uv_drain_tasks, counting down
    due,         \* timers this timer phase found due
    current,     \* the task being run
    registered,  \* the async handle's descriptor is in the backend
    edge         \* the watcher of the backend has an event it has not handled

queues == <<tasks, idle, foreign, sent, posting>>
table == <<slots, freeSlot, timer, started, armed, closing>>
loop == <<installed, running, entry, phase, batch, left, due>>
watch == <<registered, edge>>
vars == <<live, queues, referenced, pending, table, loop, current, watch>>

(***************************************************************************)
(* The slot table.                                                         *)
(***************************************************************************)
NoTimer == [task |-> None, slot |-> 0, repeating |-> FALSE, period |-> 0, id |-> <<0, 0>>]

\* Mutant: a released slot keeps its generation.
NextGenerationSame(generation) == generation

\* Mutant: a wrapped generation is zero.
NextGenerationZero(generation) == (generation + 1) % GenWrap

\* The generation of a released slot; zero means never used.
NextGeneration(generation) ==
    IF (generation + 1) % GenWrap = 0 THEN 1 ELSE (generation + 1) % GenWrap

\* Where nts_uv_slot_claim puts a timer: a freed slot before a new one.
ClaimedSlot == IF freeSlot # 0 THEN freeSlot ELSE Len(slots) + 1

SlotClaim(x) ==
    IF freeSlot # 0
    THEN /\ slots' = [slots EXCEPT ![freeSlot].timer = x]
         /\ freeSlot' = slots[freeSlot].next
    ELSE /\ slots' = Append(slots, [timer |-> x, generation |-> 1, next |-> 0])
         /\ UNCHANGED freeSlot

SlotRelease(i) ==
    /\ slots' = [slots EXCEPT ![i] = [timer |-> 0, next |-> freeSlot,
                                      generation |-> NextGeneration(@.generation)]]
    /\ freeSlot' = i

\* An id is the slot and what it keeps of the generation.
SlotId(i, generation) == <<i, generation % MaskWrap>>

\* The timer an id names now, or 0.
SlotFind(id) ==
    IF id[1] \notin DOMAIN slots \/ slots[id[1]].generation % MaskWrap # id[2]
    THEN 0
    ELSE slots[id[1]].timer

(***************************************************************************)
(* libuv.                                                                  *)
(***************************************************************************)
Alive == idle \/ armed # {} \/ referenced \/ closing # {}

\* What uv_backend_timeout answers: 0, or a wait for a timer or for nothing.
DueNow == ~Alive \/ idle \/ closing # {}

(***************************************************************************)
(* What compiled code, and the callbacks it is entered through, may do: in *)
(* a task, or outside the loop.                                            *)
(***************************************************************************)
InProgram == installed /\ (current # None \/ phase = "out")

Fresh(t) == t \notin live /\ t # current

PostTask(t) ==
    /\ InProgram /\ Fresh(t)
    /\ live' = live \cup {t}
    /\ tasks' = Append(tasks, t)
    /\ idle' = TRUE
    /\ UNCHANGED <<foreign, sent, posting, referenced, pending, table, loop,
                   current, watch>>

\* Mutant: started as a one-shot whatever it is.
PeriodNone(ms, repeating) == 0

\* The `repeat` that uv_timer_start is given; zero is no repeat to libuv.
Period(ms, repeating) == IF repeating THEN ms ELSE 0

PostDelayed(t, ms, repeating) ==
    /\ InProgram /\ Fresh(t)
    /\ started < MaxTimers
    /\ live' = live \cup {t}
    /\ started' = started + 1
    /\ SlotClaim(started')
    /\ timer' = [timer EXCEPT ![started'] =
                    [task |-> t, slot |-> ClaimedSlot, repeating |-> repeating,
                     period |-> Period(ms, repeating),
                     id |-> SlotId(ClaimedSlot, slots'[ClaimedSlot].generation)]]
    /\ armed' = armed \cup {started'}
    /\ UNCHANGED <<queues, referenced, pending, closing, loop, current, watch>>

Retire(x) ==
    /\ SlotRelease(timer[x].slot)
    /\ closing' = closing \cup {x}

\* clearTimeout of any id the program was ever given.
CancelDelayed(n) ==
    /\ InProgram
    /\ n \in 1 .. started
    /\ LET x == SlotFind(timer[n].id)
       IN  /\ x # 0
           /\ Retire(x)
           /\ armed' = armed \ {x}
           /\ live' = live \ {timer[x].task}
    /\ UNCHANGED <<queues, referenced, pending, timer, started, loop, current,
                   watch>>

PendingChange(delta) ==
    /\ InProgram
    /\ pending + delta \in 0 .. MaxPending
    /\ pending' = pending + delta
    /\ referenced' = IF pending = 0 THEN TRUE
                     ELSE IF pending' = 0 THEN FALSE ELSE referenced
    /\ UNCHANGED <<live, queues, table, loop, current, watch>>

(***************************************************************************)
(* Other threads: pushed under the lock, sent for after it.                *)
(***************************************************************************)
PostFromAnyThread(w, t) ==
    /\ installed /\ Fresh(t)
    /\ posting[w] = None
    /\ live' = live \cup {t}
    /\ foreign' = Append(foreign, t)
    /\ posting' = [posting EXCEPT ![w] = t]
    /\ UNCHANGED <<tasks, idle, sent, referenced, pending, table, loop, current,
                   watch>>

\* libuv writes the descriptor only for a handle not marked sent yet.
AsyncSend(w) ==
    /\ posting[w] # None
    /\ posting' = [posting EXCEPT ![w] = None]
    /\ sent' = TRUE
    /\ edge' = (edge \/ (registered /\ ~sent))
    /\ UNCHANGED <<live, tasks, idle, foreign, referenced, pending, table, loop,
                   current, registered>>

(***************************************************************************)
(* The owner thread runs a task: a one-shot gives its state back by        *)
(* running, a repeating timer keeps it until it is cancelled.              *)
(***************************************************************************)
LiveTimers == {slots[i].timer : i \in DOMAIN slots} \ {0}
TimerTasks == {timer[x].task : x \in LiveTimers}

TaskReturns ==
    /\ current # None
    /\ live' = IF current \in TimerTasks THEN live ELSE live \ {current}
    /\ current' = None
    /\ UNCHANGED <<queues, referenced, pending, table, loop, watch>>

\* Between two tasks of the loop.
Loop(where) == installed /\ phase = where /\ current = None

(***************************************************************************)
(* The entry points.  Each is refused, or does nothing, inside the loop.   *)
(***************************************************************************)
Outside == installed /\ ~running /\ phase = "out"

\* Mutant: one task for each wakeup.
TakeForeignOne ==
    /\ batch' = IF foreign = <<>> THEN <<>> ELSE <<Head(foreign)>>
    /\ foreign' = IF foreign = <<>> THEN <<>> ELSE Tail(foreign)

\* nts_uv_run_foreign takes the whole queue under the lock.
TakeForeign == batch' = foreign /\ foreign' = <<>>

\* Mutant: the turn does not hold the handle.
HoldForTurnNot == UNCHANGED referenced

\* nts_uv_turn holds the async handle, so that the loop is alive and polls.
HoldForTurn == referenced' = TRUE

Run ==
    /\ Outside /\ ~ForeignLoop
    /\ running' = TRUE
    /\ entry' = "run"
    /\ phase' = "batch"
    /\ TakeForeign
    /\ UNCHANGED <<live, tasks, idle, sent, posting, referenced, pending, table,
                   installed, left, due, current, watch>>

\* One turn for a join: a queued batch is a turn, and so is uv_run ONCE.
PumpOne ==
    /\ Outside /\ ~ForeignLoop
    /\ \/ foreign # <<>> /\ phase' = "batch" /\ TakeForeign
       \/ foreign = <<>> /\ Alive /\ phase' = "head" /\ UNCHANGED <<batch, foreign>>
    /\ running' = TRUE
    /\ entry' = "pump_one"
    /\ UNCHANGED <<live, tasks, idle, sent, posting, referenced, pending, table,
                   installed, left, due, current, watch>>

\* The other loop pumps when the descriptor stirs or the timeout has passed.
Pump ==
    /\ Outside /\ ForeignLoop /\ registered
    /\ edge \/ (Alive /\ (DueNow \/ armed # {}))
    /\ edge' = FALSE
    /\ running' = TRUE
    /\ entry' = "pump"
    /\ phase' = "batch"
    /\ TakeForeign
    /\ UNCHANGED <<live, tasks, idle, sent, posting, referenced, pending, table,
                   installed, left, due, current, registered>>

\* The other loop asks for the descriptor before it watches it.
BackendFd ==
    /\ Outside /\ ForeignLoop /\ ~registered
    /\ running' = TRUE
    /\ entry' = "backend_fd"
    /\ phase' = "head"
    /\ HoldForTurn
    /\ UNCHANGED <<live, queues, pending, table, installed, batch, left, due,
                   current, watch>>

(***************************************************************************)
(* Inside: a batch of foreign tasks is run in two places.                  *)
(***************************************************************************)
RunForeign ==
    /\ Loop("batch") \/ Loop("async")
    /\ batch # <<>>
    /\ current' = Head(batch)
    /\ batch' = Tail(batch)
    /\ UNCHANGED <<live, queues, referenced, pending, table, installed, running,
                   entry, phase, left, due, watch>>

Return ==
    /\ running' = FALSE
    /\ phase' = "out"

\* Before uv_run.  A pump_one that ran a batch has had its turn.
BatchEnd ==
    /\ Loop("batch")
    /\ batch = <<>>
    /\ \/ /\ entry = "run"
          /\ phase' = "timers" /\ due' \in SUBSET armed
          /\ UNCHANGED <<running, referenced>>
       \/ /\ entry = "pump_one"
          /\ Return
          /\ UNCHANGED <<due, referenced>>
       \/ /\ entry = "pump"
          /\ phase' = "head" /\ HoldForTurn
          /\ UNCHANGED <<due, running>>
    /\ UNCHANGED <<live, queues, pending, table, installed, entry, batch, left,
                   current, watch>>

\* Mutant: the turn lets the handle go whoever else holds it.
TurnEndLets == referenced' = FALSE

\* After a turn the async handle is held only for awaited operations.
TurnEnd == referenced' = IF pending = 0 THEN FALSE ELSE referenced

\* uv_run returns to the function that drives it.
LoopEnd ==
    /\ Return
    /\ IF entry \in {"pump", "backend_fd"} THEN TurnEnd ELSE UNCHANGED referenced

\* The head of uv_run's loop.
LoopHead ==
    /\ Loop("head")
    /\ IF Alive
       THEN phase' = "idle" /\ UNCHANGED <<running, referenced>>
       ELSE LoopEnd
    /\ UNCHANGED <<live, queues, pending, table, installed, entry, batch, left,
                   due, current, watch>>

(***************************************************************************)
(* The idle handle: nts_uv_drain_tasks.                                    *)
(***************************************************************************)
IdlePhase ==
    /\ Loop("idle")
    /\ IF idle
       THEN phase' = "drain" /\ left' = Len(tasks)
       ELSE phase' = "poll" /\ UNCHANGED left
    /\ UNCHANGED <<live, queues, referenced, pending, table, installed, running,
                   entry, batch, due, current, watch>>

\* One pass over what was queued when the drain began.
PassLeft == left - 1

Draining == left > 0 /\ tasks # <<>>

DrainTask ==
    /\ Loop("drain")
    /\ Draining
    /\ current' = Head(tasks)
    /\ tasks' = Tail(tasks)
    /\ left' = PassLeft
    /\ UNCHANGED <<live, idle, foreign, sent, posting, referenced, pending, table,
                   installed, running, entry, phase, batch, due, watch>>

\* Mutant: the idle handle is stopped after every pass.
IdleAfterDrainStops == FALSE

IdleAfterDrain == tasks # <<>> /\ idle

DrainEnd ==
    /\ Loop("drain")
    /\ ~Draining
    /\ idle' = IdleAfterDrain
    /\ phase' = "poll"
    /\ left' = 0
    /\ UNCHANGED <<live, tasks, foreign, sent, posting, referenced, pending,
                   table, installed, running, entry, batch, due, current, watch>>

(***************************************************************************)
(* The poll registers the descriptor, consumes the wakeup and calls        *)
(* nts_uv_drain_foreign; without one it returns at once or when a timer is *)
(* due, and otherwise waits.                                               *)
(***************************************************************************)
PollWakes ==
    /\ Loop("poll")
    /\ sent
    /\ sent' = FALSE
    /\ registered' = TRUE
    /\ phase' = "async"
    /\ TakeForeign
    /\ UNCHANGED <<live, tasks, idle, posting, referenced, pending, table,
                   installed, running, entry, left, due, current, edge>>

PollPasses ==
    /\ Loop("poll")
    /\ ~sent
    /\ entry \in {"pump", "backend_fd"} \/ DueNow \/ armed # {}
    /\ registered' = TRUE
    /\ phase' = "closing"
    /\ UNCHANGED <<live, queues, referenced, pending, table, installed, running,
                   entry, batch, left, due, current, edge>>

AsyncEnd ==
    /\ Loop("async")
    /\ batch = <<>>
    /\ phase' = "closing"
    /\ UNCHANGED <<live, queues, referenced, pending, table, installed, running,
                   entry, batch, left, due, current, watch>>

\* nts_uv_timer_closed frees what was retired; then the timers found due.
ClosingPhase ==
    /\ Loop("closing")
    /\ closing' = {}
    /\ phase' = "timers"
    /\ due' \in SUBSET armed
    /\ UNCHANGED <<live, queues, referenced, pending, slots, freeSlot, timer,
                   started, armed, installed, running, entry, batch, left,
                   current, watch>>

(***************************************************************************)
(* The timer phase: libuv stops a timer, starts it again if its period is  *)
(* not zero, and calls nts_uv_timer_fired.                                 *)
(***************************************************************************)
Ready == due \cap armed

TimerFired(x) ==
    /\ Loop("timers")
    /\ x \in Ready
    /\ due' = due \ {x}
    /\ armed' = IF timer[x].period = 0 THEN armed \ {x} ELSE armed
    /\ current' = timer[x].task
    /\ IF timer[x].repeating
       THEN UNCHANGED <<slots, freeSlot, closing>>
       ELSE Retire(x)
    /\ UNCHANGED <<live, queues, referenced, pending, timer, started, installed,
                   running, entry, phase, batch, left, watch>>

TimersEnd ==
    /\ Loop("timers")
    /\ Ready = {}
    /\ due' = {}
    /\ IF entry = "run"
       THEN phase' = "head" /\ UNCHANGED <<running, referenced>>
       ELSE LoopEnd
    /\ UNCHANGED <<live, queues, pending, table, installed, entry, batch, left,
                   current, watch>>

(***************************************************************************)
(* nts_uv_host_shutdown, by an embedder whose other threads are done: every *)
(* task that is still held is dropped.                                     *)
(***************************************************************************)
\* Mutant: what other threads posted is discarded without being dropped.
DroppedAtShutdownOwn == Range(tasks) \cup TimerTasks

DroppedAtShutdown == TimerTasks \cup Range(tasks) \cup Range(foreign)

Shutdown ==
    /\ Outside
    /\ \A w \in Thread : posting[w] = None
    /\ live' = live \ DroppedAtShutdown
    /\ tasks' = <<>> /\ foreign' = <<>>
    /\ idle' = FALSE /\ sent' = FALSE
    /\ slots' = <<>> /\ freeSlot' = 0
    /\ armed' = {} /\ closing' = {}
    /\ installed' = FALSE
    /\ UNCHANGED <<posting, referenced, pending, timer, started, running, entry,
                   phase, batch, left, due, current, watch>>

Init ==
    /\ live = {} /\ tasks = <<>> /\ foreign = <<>>
    /\ idle = FALSE /\ sent = FALSE /\ referenced = FALSE
    /\ pending = 0
    /\ posting = [w \in Thread |-> None]
    /\ slots = <<>> /\ freeSlot = 0
    /\ timer = [x \in Timer |-> NoTimer]
    /\ started = 0 /\ armed = {} /\ closing = {}
    /\ installed = TRUE /\ running = FALSE
    /\ entry = "run" /\ phase = "out"
    /\ batch = <<>> /\ left = 0 /\ due = {}
    /\ current = None
    /\ registered = FALSE /\ edge = FALSE

Program ==
    \/ \E t \in Task : PostTask(t)
    \/ \E t \in Task, ms \in Delays, repeating \in BOOLEAN : PostDelayed(t, ms, repeating)
    \/ \E n \in Timer : CancelDelayed(n)
    \/ PendingChange(1) \/ PendingChange(-1)

\* What the owner thread does by itself once the loop is entered.
Owner ==
    \/ TaskReturns
    \/ RunForeign \/ BatchEnd \/ LoopHead
    \/ IdlePhase \/ DrainTask \/ DrainEnd
    \/ PollWakes \/ PollPasses \/ AsyncEnd \/ ClosingPhase
    \/ TimersEnd \/ \E x \in Timer : TimerFired(x)

Next ==
    \/ Owner
    \/ Program
    \/ \E w \in Thread, t \in Task : PostFromAnyThread(w, t)
    \/ \E w \in Thread : AsyncSend(w)
    \/ Run \/ PumpOne \/ Pump \/ BackendFd
    \/ Shutdown

Spec == Init /\ [][Next]_vars

\* A task returns and the loop goes on; a thread that pushed sends; whoever
\* drives the loop does so when there is something to drive it for, and does
\* not go on joining for ever instead.
FairSpec ==
    /\ Spec
    /\ WF_vars(Owner)
    /\ \A w \in Thread : WF_vars(AsyncSend(w))
    /\ SF_vars(Run)
    /\ WF_vars(BackendFd)
    /\ WF_vars(Pump)

(***************************************************************************)
(* Properties.                                                             *)
(***************************************************************************)
\* The type invariant of the host's state.
TypeOK ==
    /\ live \subseteq Task
    /\ {tasks, foreign, batch} \subseteq Seq(Task)
    /\ {idle, sent, referenced, installed, running, registered, edge} \subseteq BOOLEAN
    /\ pending \in 0 .. MaxPending
    /\ posting \in [Thread -> Task \cup {None}]
    /\ slots \in Seq([timer : Timer \cup {0}, generation : 1 .. GenWrap - 1,
                      next : 0 .. MaxTimers])
    /\ freeSlot \in 0 .. Len(slots)
    /\ timer \in [Timer -> [task : Task \cup {None}, slot : 0 .. MaxTimers,
                            repeating : BOOLEAN, period : Delays \cup {0},
                            id : (0 .. MaxTimers) \X (0 .. MaskWrap - 1)]]
    /\ started \in 0 .. MaxTimers
    /\ armed \subseteq 1 .. started /\ closing \subseteq 1 .. started
    /\ due \subseteq 1 .. started
    /\ entry \in {"run", "pump_one", "pump", "backend_fd"}
    /\ phase \in {"out", "batch", "head", "idle", "drain", "poll", "async",
                  "closing", "timers"}
    /\ left \in Nat
    /\ current \in Task \cup {None}

Occurrences(t, queue) == Cardinality({i \in DOMAIN queue : queue[i] = t})

\* A task has one holder until it is run or dropped, and none after: never run
\* twice, run and dropped, or forgotten, at shutdown either (the contract of
\* NtsTask; nts_uv_cancel_delayed, nts_uv_timer_fired, nts_uv_host_shutdown).
TaskOwnership ==
    \A t \in Task :
        LET holders == Occurrences(t, tasks) + Occurrences(t, foreign)
                       + Occurrences(t, batch)
                       + Cardinality({x \in LiveTimers : timer[x].task = t})
            runs == t = current /\ t \notin TimerTasks
        IN  IF t \in live
            THEN holders + (IF runs THEN 1 ELSE 0) = 1
            ELSE holders = 0

\* An id names the timer it was given to, for as long as that timer lives, and
\* nothing after: clearing a timer that has fired never cancels the one that
\* took its slot (nts_uv_slot_find).
IdsNameTheirTimer ==
    \A n \in 1 .. started :
        SlotFind(timer[n].id) = IF installed /\ n \in LiveTimers THEN n ELSE 0

\* The free list goes once through the free slots and through no other, so a
\* slot is never lost and never given to two timers (nts_uv_slot_claim,
\* nts_uv_slot_release).
FreeListExact ==
    LET free == {i \in DOMAIN slots : slots[i].timer = 0}
        at[k \in 0 .. Cardinality(free)] ==
            IF k = 0 THEN freeSlot
            ELSE IF at[k - 1] = 0 THEN 0 ELSE slots[at[k - 1]].next
    IN  /\ {at[k] : k \in 0 .. Cardinality(free) - 1} = free
        /\ at[Cardinality(free)] = 0

\* The table of timers: its ids and its free list.
SlotsExact == IdsNameTheirTimer /\ FreeListExact

\* What another thread queued is never left without a wakeup to come
\* (nts_uv_post_from_any_thread against nts_uv_drain_foreign).
WakeupToCome ==
    foreign # <<>> => sent \/ \E w \in Thread : posting[w] # None

\* The async handle holds the loop exactly while an operation is awaited;
\* only a turn for another loop holds it for longer (nts_uv_pending_change
\* against nts_uv_turn).
AwaitedHoldsLoop ==
    phase = "out" \/ entry \in {"run", "pump_one"} => (referenced <=> pending > 0)

\* A timer the program has not cancelled, and that has not fired for the last
\* time, is one libuv will fire: a repeating timer repeats until cancelled
\* (nts_uv_timer_fired).
LiveTimersArmed == LiveTimers \subseteq armed

\* The loop returns only when no registered work remains: no task, no timer,
\* no awaited operation (nts_uv_host_run).
RunReturnsDrained ==
    [][entry = "run" /\ phase # "out" /\ phase' = "out" =>
          tasks = <<>> /\ armed = {} /\ pending = 0]_vars

\* A posted task is run, or dropped at shutdown (nts_uv_post_task).
TasksRun ==
    \A t \in Task : t \in Range(tasks) ~> t \notin Range(tasks)

\* A task posted by another thread is run, unless the loop had nothing it was
\* waiting for and returned; a loop that another one drives never returns.
\* Tasks that post tasks without end do not starve it (nts_uv_drain_tasks),
\* and neither does a watcher that hears of a wakeup once (nts_uv_turn).
ForeignTasksRun ==
    \A t \in Task : t \in Range(foreign) ~>
                        \/ t \notin Range(foreign)
                        \/ ~ForeignLoop /\ phase = "out"

\* Neither queue starves: both are served, under endless posts to the other.
QueuesRun == TasksRun /\ ForeignTasksRun

=============================================================================
