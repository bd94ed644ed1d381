# A TLA+ verification of nts

nts compiles TypeScript ahead of time. A compiled native program carries a C
runtime (`runtime/c/nts_runtime.c`) that counts references and collects cycles,
settles promises, drains the tick and microtask queues, and talks to an event
loop through a host (`runtime/c/nts_uv_host.c` and its siblings). Above it are
libraries written in TypeScript: node's, the web platform's, React's. Changes to
all of it reach main through a landing tool (`tooling/landing`). This project
models the core of the runtime, two stateful parts of the web platform library
(the HTTP/1 connection pool and writable streams) and the landing tool, checks
them with TLC on small instances, and proves part of it with TLAPS for every
instance.

Paths below are relative to `src/`; line numbers refer to
`runtime/c/nts_runtime.c` unless another file is named.

## 1. Inventory

### The parts and their state

| Part | Source | State | Operations |
|---|---|---|---|
| Memory manager | 880–1018, 1279–1409, 1853–2497 | per object: count, colour, buffered and dying flags, index in the candidate buffer; per environment: candidate buffer, dying list, worklists, `draining`, `collecting`, `collect_at` | allocate, retain, release, store, drain (`nts_destroy`), collect (`nts_collect_pass`, `nts_collect_cycles`) |
| Promises | 12041–12646 | per promise: state, payload, reactions, `handled`, number of the live resolving pair; combinators: `values`, `remaining`; the environment's `rejected` list | settle, subscribe, forward, adopt, claim and resolve, `all`, `race` |
| Checkpoints and joins | 2571–2632, 11493–11932 | two queues, `depth`, `in_callback`, `checkpoint_active`, `checkpoint_posted`, `join_active` | enter, leave, callback enter and leave, checkpoint, report, join |
| libuv host | `runtime/c/nts_uv_host.c` | task queue and idle handle, timer slot table, cross-thread queue and async handle, pending count, `running` | post a task, start and cancel a timer, post from any thread, run, pump one, pump, backend descriptor, shut down |
| Task rings | 11493–11527; `nts_uv_host.c` 77–121 | ring buffer | push, shift, drop |
| Other hosts | `nts_test_host.c`, `nts_cf_host.c`, `nts_win_host.c`, `nts_glib_host.c` | as the libuv host, over another loop | as the libuv host |
| Foreign families | `nts_gobject.c`, `nts_winrt.c` | holder nodes, toggle references | trace, sever, fallen |
| Regions, environments | 617–897, 177–414 | bump blocks, an accounting window; everything of one program | open, close, activate, end |
| Maps and sets | 8875–11440 | ordered hash tables and live iterators | insert, delete, iterate |
| JVM runtime | `runtime/jvm` | inbox, promises, environment, sockets | as the native runtime |
| HTTP/1 pool | `runtime/web-platform/src/http1/pool.ts` | a list of waiters, connects under way, records (idle or leased), counts per origin and in all, the drain's promise | acquire, abort, release, detach, expire, drain, close; each ends in `pump` |
| Writable streams | `runtime/web-platform/src/streams/writable.ts`, `queue-with-sizes.ts` | the stream's state, a size-accounted queue, the requests beside it, operations in flight, pending abort, backpressure, the writer's two promises | write, close, abort, error, getWriter, releaseLock; the ends of what the sink was asked for |
| Other libraries | `runtime/node`, `runtime/web-platform`, `runtime/react` | timers, readable streams, sockets, scheduler | written in TypeScript |
| Compiler | `compiler/` | none that outlives a compilation | translate |
| Landing tool | `tooling/landing` (`queue.ts`, `service.ts`, `git.ts`, `check.ts`) | files: the queue, `checking.json`, held entries, results, withdrawal marks; main; the service's place in its check | submit, wait, withdraw, retry; take, rebase, check, advance, answer, recover |

### How the parts interact

* One thread owns an environment. Other threads reach it only through the
  host's `post_from_any_thread`.
* The host runs every task through `nts_task_run`, which ends in a checkpoint.
  The checkpoint drains both queues, collects, and reports rejections.
* The collector and every release can give back a foreign handle, and *that*
  runs program code (`nts_call_foreign_release`): in the middle of a drain, of
  the collector's free loop, of a checkpoint, or of the report. Most of what is
  hard in this code is re-entrancy of this kind and not parallelism.
* A foreign library calls compiled code back between `nts_callback_enter` and
  `nts_callback_leave`; under a foreign loop (GTK) the outermost return is a
  checkpoint.
* `nts_promise_join` drives the host from inside the runtime.
* The libraries are single-threaded too. What interleaves in them is what happens
  between a call and its answer: a connect that settles after its call was
  aborted, an error while a write is in flight, a size function or a listener
  that calls back into the stream.
* The landing tool is processes that share files: commands of several people, one
  service, and git. Each write is a rename and each removal atomic, and a process
  can be killed between any two.

### What makes each part correct

* **Memory manager**: counts are exact at every step; nothing reachable is
  freed and nothing freed is reachable; every garbage cycle is reachable from a
  candidate; a collection leaves nothing collectable; it ends.
* **Promises**: the first resolution decides; a settlement is carried
  unchanged; reactions run once, in order; adoption takes exactly two hops;
  every unhandled rejection is known.
* **Checkpoints**: tasks and jobs run to completion; the drain is a fixpoint;
  only the outermost checkpoint reports, once, and only what nobody observed;
  joins answer truthfully and return.
* **libuv host**: a task is run or dropped exactly once; an id names its timer
  or nothing; no wakeup is lost; the loop returns exactly when nothing is left.

* **HTTP/1 pool**: the counters are what they count, whatever was aborted
  meanwhile; no waiter is left that could be served; a connection has one holder,
  of its own origin; every call and every drain is answered.
* **Writable streams**: a request stays with its chunk; the sink does one thing at
  a time, in the order accepted, and is aborted or closed at most once and last;
  the writer's promises tell the truth; every call is answered.
* **Landing tool**: main only grows, a change is on it once and only as it was
  checked; an answer is true; no change is lost, whoever is killed when; a change
  somebody waits for is taken up.

`PROJECT.json` lists the hazards at their lines with the properties that cover
them.

## 2. Modules

| Module | Models |
|---|---|
| `Heap` | what the memory manager promises: a heap from which only the unreachable disappears |
| `Collector` | the memory manager; `HeapSpec` says it implements `Heap` |
| `Promises` | promises and the microtask queue, for any program that calls them |
| `Checkpoint` | extends `Promises`: the C stack, the two queues, the collection and report behind the drain, callbacks, joins |
| `UvHost` | the libuv host, libuv's phases, threads that post, the loops that drive it |
| `MainLine` | what the landing tool promises: a main that only grows, each change on it once, answers that are true |
| `Landing` | the landing tool; `ImplementsMainLine` |
| `Leases` | what the pool promises its callers: each call is answered once, a lease is of an open connection, which has one holder at a time, of its own origin |
| `ConnectionPool` | the HTTP/1 pool; `ImplementsLeases` |
| `Sink` | what a stream promises its sink: one thing at a time, the accepted in order, abort or close last |
| `Writable` | writable streams; `ImplementsSink` |
| `CollectorProofs`, `PromisesProofs`, `CheckpointProofs`, `UvHostProofs`, `UvTimerProofs`, `LandingProofs`, `ConnectionPoolProofs`, `WritableProofs` | inductive invariants and theorems, one module per component (the host's timers have their own) |
| `MC*` | instances for TLC |

The definitions whose comment begins with *Mutant* are wrong variants of the
definition that follows them. They are used by nothing: each shows, put in place
of the real definition, that a property notices that mistake.

### Collector

An object has a fixed number of slots. `ext` counts the references the program
and foreign code hold, so `rc` is compared with something the code does not
compute. The program's actions (`New`, `Retain`, `Store`, `Release`,
`CollectAtCheckpoint`) are enabled whenever program code runs: at the top, and
in a foreign release (`drainPc` or `phase` is `"callback"`). Each turn of the
loops of `nts_destroy` and `nts_collect_pass` is an action, since the
program can run between two of them.

Abstractions: an immortal object is never counted, traced or freed, so a slot
that names one is `Null`; a string holds nothing and cannot be a candidate, so
it is not in `Obj`; the order of a field store's counts is the compiler's
(`compiler/core/src/hir/rc.rs`); no holder family is registered, as in any program without
GObject; regions are left out; worklists, and the lists of the dying and the
dead, are sets, since a walk that meets an object twice does nothing the second
time. The candidate buffer stays a sequence because its indices are stored in
the objects. A dying object's count word is a list link; the model keeps 0
there, and `Retain` and `ReleaseRef` leave it alone as the code does.

### Promises

A payload is the promise it was first settled on: that is all that forwarding
could confuse. Jobs are tuples that name the runtime function they run. `owner`,
`ran`, `adopting`, `adopted` and `after` are history variables for the properties. A
thenable's `then` is compiled code that is given the next resolving pair. A
`Promise.all` is told from a `Promise.race` as the code tells them: by having an
array to fill.

### Checkpoint

`stack` is the C stack, one record per frame of compiled code, checkpoint,
report, join or foreign loop; the flags are those of the environment. A frame's
`prev` is the local `previous` of `nts_process_ticks_and_rejections`. Which calls a
program may make, and how often, is `Fuel`: the runs choose from it. A tick has
no identity. Not modelled: a throw that leaves a job, a host that owns the
microtask queue (Chromium's), and the join's answers for a wrong thread, a host
without `pump_one`, and a busy host.

### UvHost

libuv is external: a handle is the flags its documentation gives it (active,
referenced, closing, marked sent) and `uv_run` is its cycle of phases. Time is
abstract: any armed timer may be due whenever the loop looks. Task identifiers
are used again once a task has run, so posting is unbounded; timers are numbered
by allocation. `edge` is an edge-triggered watcher of the backend descriptor
(CoreFoundation's), the harder of the two kinds. Shutdown happens when other
threads are done, as its contract asks. A task's `drop` is not followed into
compiled code, and the `on_schedule` hook and the counter of dropped tasks are
left out.

### Landing

One action is one write or removal of a file, or one look at them, by the service
or by a command. `pc` and what the service has in hand are lost in a `Crash`; the
files are not. A commit is the change it came from, and main is the sequence of
them: a change rebased onto other commits is another tip. `green` remembers the
tips whose steps passed, `owed` the changes not answered since they were queued.
A rebase that conflicts, a step that fails, a hold, and a throw anywhere in the
check (`Unfinished`) may happen at any time they can. A restart after a change to
the tool's own code is a choice. Two submissions have different times, so the
order of the queue is total. One service runs at a time: `ensureService` starts a
systemd unit of a fixed name; the lock file, which would matter without systemd,
is left out, and so are pushing, the pool of task trees and branch deletion, whose
failures are only reported. A command that withdraws is not killed half way. What
`now` gives a retry is the time its entry is queued at.

`MainLine` maps `main` to its line and `results` to its answers. It forbids a
rewrite of main, a change landing twice, and "landed" or "refused" said of a
change that did not, or did, land.

### ConnectionPool

`pump` runs to its end before anything else; `phase` and `scan` are its place, so
that each waiter it looks at is a step. A record is named by the call its
connection was opened for. `place` is a waiter's position in the linked list.
Which idle connection of an origin is taken is left open (the code takes the
oldest), and what makes a lease not reusable (unread bytes, no idle timeout) is the
caller's choice. A connect that is told to abort may still succeed.

`Leases` sees a call as asked, refused, holding a connection, or done, and which
connections are open: a lease is of one opened for the call or of one that is
still open. A lease on a record that `close` has dropped is done.

### Writable

The private methods are operators from a stream and its answers to the next; an
action is a whole handler. The caller's code runs in the middle of two of them:
the size function in `write`, and the listeners of the abort signal in `abort`.
Those two leave a frame, and any call may be made above it; nothing asynchronous
ends while one is there. Error values, and which promise object `ready` is, are
left out: `ready` and `closed` are the states of the writer's current promises.
Sizes are naturals; a size that throws or is no size is an action of its own.

`Sink` sees what the stream accepted, what the sink was asked for and has not
ended, and the writes fulfilled.

## 3. Runs

| Run | Instance | Shows |
|---|---|---|
| `collector` | 3 objects, 2 of them cyclic, 1 with a handle whose release may allocate; 1 slot; threshold 1; at most 2 program references to one object | counts, candidates and walks right at every step; `Heap` is implemented; collections are complete, and end unless their own callbacks allocate for ever |
| `promises` | executor, frame, `all` or `race` of up to 2 elements, 2 reactions, 3 pair numbers | one route, order, accounting, `all`, two hops, rejections known; settlements carried and final |
| `checkpoint` | 1 promise, 1 job, one each of call, task, signal, re-entry, explicit checkpoint, foreign loop and foreign release | flags tell the stack; tasks complete; one report |
| `checkpoint_join` | 1 promise, 1 job, both queues, a call, a task, 2 signals and 2 joins, under a foreign loop | what is reported, what a join answers; queued jobs run, joins return |
| `uv_host` | 2 tasks, 3 timers, 1 thread, 1 awaited operation | ownership, ids, free list, wakeups, timers armed; the loop returns drained |
| `uv_pump` | 3 tasks that post without end, 1 thread, a foreign loop with an edge-triggered watcher | neither queue starves; awaited operations hold the loop |
| `landing` | 2 changes, one of them a revert; 2 rounds, 1 commit past the queue, 1 kill, 1 withdrawal, 2 submissions or retries | nothing is lost; what landed was green where it landed; `MainLine` is implemented; what is waited for is taken |
| `http_pool` | 4 calls to 3 origins, 2 connections, 1 per origin, 2 waiters | exact books, no lost wakeup, order within an origin, `Leases` is implemented, everything settles |
| `writable` | 2 writes, 1 close, 2 aborts, 2 writers, high water mark 1, sizes 0 and 1 | queue and requests agree, the writer is told, `Sink` is implemented, every call is answered |

Several properties of a run are conjunctions of named parts (`CountsSound` is
`CountExact /\ NoDangling`); the parts carry the comments.

Runs that end in a counterexample, each with a finding in `PROJECT.json`:

| Run | What TLC shows |
|---|---|
| `checkpoint_nested_report` | a checkpoint inside a candidate's release gives the candidates' references back twice |
| `uv_interval` | a repeating timer with a delay below one millisecond fires once and is never armed again |
| `landing_withdraw` | a withdrawal accepted after `landOne`'s last look at the mark (`service.ts:162`) does not keep the change off main (`service.ts:165`), though `queue.ts:146` says it never lands |

### Divergences without a run of their own

* `CollectionEnds` (in `Collector`): a foreign release that makes a new cycle with
  a handle keeps a collection going for ever; the comment at 2480 argues that it
  ends. Shows with two handled objects; `CollectionEndsUnlessFed` is what holds.
* `JobRunsToCompletion` (in `Checkpoint`, fuel `SignalFuel`, `ForeignLoop` and
  `LoopTells` on): a microtask that emits a signal inside a loop dispatch is
  interrupted by a nested checkpoint, though 2614 reads depth 0 as "no compiled
  task is running".
* `ReportedOnce` (in `Checkpoint`, fuel `LandingFuel`, `Landing` on): after an
  embedder survives a report the same rejection is reported again, though 11662
  says only if it rejects again.
* `NothingLost` without its last disjunct (in `Landing`): a withdrawal found its
  change waiting, and by the time its `answer` looks, the service checks that
  change. Between the look and the removal (both `queue.ts:113`) the service can
  answer it and take the next one. The removal then deletes the next change's
  `checking.json`: that change is in no file, its check throws, and the handler
  fails too (`service.ts:102`), so the service stops. `stolen` marks those changes.
* A service is killed while it checks a change: `checking.json` stays, and `wait`
  (`check.ts:110-115`) finds the change "checking", and starts a service only for
  one found waiting. So it waits until some other command starts a service, whose
  `recover` puts the change back. `WaitedIsTaken` counts that change as taken and
  says nothing of it.
* A retry that has read the held entry queues it even if a withdrawal has removed
  and answered the change meanwhile (`queue.ts:127-130`, 152-155), and one that
  queues it between the withdrawal's look through `queue/` and that through `held/`
  is not seen by it: answered as withdrawn, the change is checked and may land.
  `MainLine` allows it, since each answer is true when it is given;
  `WithdrawnNeverLands` does not.
* A writer attached while the sink's abort is still settling gets a rejected
  `closed`, and `#rejectCloseAndClosed` (`writable.ts:583`, by 81-83) replaces it by
  another promise; the comment at `writable.ts:48` says its identity changes only
  when the Standard requires it. Not modelled.

`DrainedBeforeReport` (part of `ReportsSound`) is checked without foreign releases (`JoinFuel` has none).
With one it does not hold: `nts_finish_checkpoint` collects after the drain
(11677), the collection can run a foreign release, that can queue a job, and the
report follows at once. Adding `release` to the fuel of `checkpoint_join` shows it.

### Why the bounds are enough

*Collector.* A cycle needs two cyclic objects, a cycle's tail a leaf; with a
threshold of 1 every new candidate may start a collection, and with two
references the count takes each of the values the code compares it with (0, 1,
more). One slot gives self loops, pairs and chains. Callbacks nest in a drain
inside a pass, which needs one object with a handle. The model is not symmetric in
its objects, so no symmetry is declared. Deadlock is checked: a program can
always go on.

*Promises.* Two elements tell the first from the last; `e`, `f` and `c` may adopt
each other and themselves, so chains have length two and there are cycles; pair
numbers reach their maximum, where the process stops. *Checkpoint.* Each divergence
needs one or two calls, and the passing runs allow more than any of them. *UvHost.*
Three timers use one slot again after two others, and wrap the generation once
(`GenWrap = MaskWrap = 4` stand for 2^32 and 2^21; an id can alias only after
`MaskWrap` reuses of one slot, which `MaxTimers` excludes and the code's comment
at `nts_uv_host.c:167` accepts).

*Landing.* Two changes are the least with an order, a revert that overtakes, and a
next change for a withdrawal to hit; main moves once between a check and its
advance, and after `MaxRounds` = 2 (3 in the code) the change is held; one kill
falls between any two writes, and the restarted service finds each leftover. A
retry needs a submission and a second tick of the clock, hence `MaxClock` = 2.
*ConnectionPool.* With 2 connections and 1 per origin each cap binds without the
other and an idle connection of another origin is reclaimed; two calls share an
origin so that one waits for the other. The list of 2 is full only when no call is
left to come, so the run never meets its limit (calls are refused by a drain, a
close or an abort); a fifth call would, but takes TLC more than five minutes. The
theorems hold for any number of calls and any limit. *Writable.* One write can be in flight, one behind it, and the close
behind both; the second abort finds the first pending or settled; a chunk of size
1 fills the queue exactly and one of size 0 leaves it as it was; the second writer
attaches in every state. Each is symmetric in nothing but names that the runs
tell apart, so no symmetry is declared.

Deadlock checking is off in all runs but those of `Collector`: a program that has
spent its calls has ended, a loop that was shut down stops, a queue that is empty
has no service, a pool or a stream whose calls are answered rests.

### Fairness

* `Collector`: weak fairness of the drain's and of the pass's steps, which are
  loops of the runtime, and strong fairness of a foreign release's return: it is
  a call that returns, though it may run other drains first.
* `Promises`: none; its properties are safety, and that awaiters resume is a
  property of `Checkpoint`.
* `Checkpoint`: weak fairness of `Runtime`: compiled code returns, the host runs
  its tasks, the runtime's loops go on. An exported function called by an
  embedder leaves its jobs in the queue until someone checkpoints, so
  `AwaitersResume` speaks of jobs seen while anything else is on the stack
  (`Attended`).
* `UvHost`: weak fairness of the owner's steps, of a thread's send after its
  push, and of a foreign loop that asks for the descriptor and pumps when it
  stirs; strong fairness of `Run`, that is, an embedder does not join for ever
  instead of running its loop. Fairness of `Run` is vacuous under a foreign loop,
  which is how `uv_pump` drives it.
* `Landing`: weak fairness of the service's steps and of a withdrawal under way,
  which are processes that run on, and of a waiting command's look every two
  seconds. Nobody is obliged to submit, retry or withdraw; a kill is never fair.
* `ConnectionPool`: weak fairness of `pump`'s steps, which are a loop, of each
  connect's settlement (the connector has a timeout) and of each lease being given
  back (the exchange that holds it ends).
* `Writable`: weak fairness of the caller's code returning and of the sink ending
  what it was asked for. A sink that never ends a write leaves the stream waiting,
  as the Standard says.

## 4. Proofs

The theorems hold for every value of the constants that their assumptions allow:
any number of promises, jobs, calls, changes, tasks and timers. Each proof module
begins with the inductive invariant, then has one lemma per action (or per group
of actions that leave the invariant's variables alone), and ends with the theorems.
TLC checked each of these invariants on the instance of the component's run before
it was proved.

| Theorem | Says |
|---|---|
| `CollectorProofs!TypeCorrect` | `WellFormed` always holds: types, and which phases, drains and callbacks can be combined |
| `CollectorProofs!CountsCorrect` | `CountsSound`: exact counts in every phase, nothing dangling |
| `CollectorProofs!CandidatesCorrect` | `CandidatesSound` |
| `CollectorProofs!GarbageCovered` | `GarbageHasCandidate` |
| `CollectorProofs!FreesCorrect` | `FreesSound`: freed once and in the right state; a collection that returns has collected all |
| `CollectorProofs!HeapImplemented` | `HeapSpec`: every step is a step of `Heap` or a stutter |
| `PromisesProofs!SettledForGood` | `SettlesOnce` |
| `PromisesProofs!FirstResolutionDecides` | `ResolutionSound`: a pending promise has exactly one way left to be settled, and a settlement is carried unchanged |
| `PromisesProofs!JobsRunOnceInOrder` | `JobsSound`: each job once, in order, behind the hops of an adoption |
| `PromisesProofs!AllWaitsForAll` | `AllMeansAll` |
| `PromisesProofs!NoRejectionForgotten` | `RejectionsKnown` |
| `CheckpointProofs!FlagsExact` | `StackSound`: counters and flags are what is on the C stack, without landings |
| `CheckpointProofs!TasksRunToCompletion` | `TaskRunsToCompletion` |
| `CheckpointProofs!ReportsAreOutermost` | `OutermostReports` |
| `CheckpointProofs!ReportsAfterDrain` | `ReportsSound`, without landings and foreign releases |
| `CheckpointProofs!CandidatesReleasedOnce` | `CandidateReleasedOnce`, without landings and foreign releases |
| `CheckpointProofs!JoinsAnswerRight` | `JoinAnswers`, without foreign releases |
| `UvHostProofs!NoLostWakeup` | `WakeupToCome` |
| `UvHostProofs!AwaitedHolds` | `AwaitedHoldsLoop` |
| `UvHostProofs!RunDrains` | `RunReturnsDrained` |
| `UvTimerProofs!HostTyped` | the host's `TypeOK` |
| `UvTimerProofs!TasksOwned` | `TaskOwnership`: one holder until a task is run or dropped, none after |
| `UvTimerProofs!SlotTableExact` | `SlotsExact`, if fewer timers are started than a generation has values |
| `UvTimerProofs!TimersStayArmed` | `LiveTimersArmed`, if no period is zero |
| `LandingProofs!NoChangeLost` | `QueueSound` |
| `LandingProofs!OnlyGreenLands` | `LandedWasGreen` |
| `LandingProofs!LandingImplementsMainLine` | `ImplementsMainLine`: every step is a step of `MainLine` or a stutter |
| `ConnectionPoolProofs!PoolBooksExact` | `PoolSound`: counters, caps, leases |
| `ConnectionPoolProofs!PumpLeavesNothing` | `PumpSound` |
| `ConnectionPoolProofs!ServedInOrder` | `InOrder` |
| `ConnectionPoolProofs!PoolImplementsLeases` | `ImplementsLeases` |
| `WritableProofs!StreamBooksExact` | `StreamSound`: types, requests beside the queue, no work and no call left |
| `WritableProofs!WriterToldRight` | `WriterTold` |
| `WritableProofs!StreamImplementsSink` | `ImplementsSink` |

### The arguments

* **Collector.** `TypeOK` and `Shape` are inductive together, not alone: that
  `drainObj` is an object in a drain's steps, and that `kept` stays below `cursor`
  so that the compaction writes inside the buffer, need the shape; the shape needs
  the types of the lists. On top of them `CollectorInv` has these parts.
  `CountInv`: the count of an object is the program's references plus the slots of
  the allocated objects that are not in `Trial`, those whose references the trial
  deletion has taken off; what is in use has a count, unless its last references
  are gray ones. Each action puts an object into `Trial`, takes one out, or moves
  one reference, and the cardinality of `Refs` follows. `BlockInv`, `DrainInv`,
  `ShellInv` and `DeadInv` say what an allocated block is besides in use -- dying,
  being emptied, an empty shell that a pass has still to find, gathered -- and that
  it is one of them only. `ColourInv` gives the colours of each phase, and that a
  white object has count 0, so that nothing outside the trial refers to one.
  The rest is reachability, which an induction over paths would give and this
  prover cannot do. `VisitInv` therefore speaks of *every set closed under the
  steps of the walk*: such a set holds everything the phase has still to colour.
  When a phase ends the set of what is left to do is empty, hence so is the colour:
  no gray object survives the scan and no white one the gathering. `GarbageInv`
  is about `Orphans`, objects in use that nothing else refers to and the program
  does not hold: there are none without a purple one, and once marking is over none
  outside of what is gray, white or gathered. That a release to a nonzero count makes a purple object is
  what keeps it, except for a type not marked cyclic, where nothing is buffered:
  there `AcyclicAssumption` gives a smaller set of orphans that the release did not
  touch. `FreedInv` says that a pass that freed nothing has run no program code,
  which is why the last pass of a collection leaves nothing behind.
  The five theorems are consequences, step by step for `FreesSound` and `HeapSpec`.
* **Promises.** A job is one key -- of a program's job, of the adoption of a
  promise, of an element of a combinator -- and `OneEach` says that each key is at
  one position of one list, the queue or a reaction list. `JobInv` says which
  promises a held job is about and that a job waits in the reactions of a promise
  only while that is pending; `RouteInv` that exactly one of an open frame, a live
  pair and an adoption's key is there for a pending promise; `OrderInv` that jobs
  of one owner stand in order, oldest first in the queue and newest first in a
  reaction list; `AfterInv` that the jobs an adoption must not overtake stand
  before its second hop, and that a hop is held as long as one of them has not
  run; `SlotInv` that an element whose slot is still held is not stored.
  Everything that counts positions (`Routes`, `JobsAccounted`, `remaining`)
  follows from the keys. A job being run is no longer in the queue, so the parts
  take the queue as a parameter: `Tail(micro)` for the step of a job.
* **Checkpoint.** Every step of it is a step of `Promises` or leaves the promises
  alone but for the marks a join and a report set, so the invariant of
  `PromisesProofs` holds here too. Its part about rejections comes in two: `Noted`
  (the list names rejected promises, each once) survives the report,
  `Remembered` (nothing unhandled is missing) does not, since the report empties
  the list. `Sound` says which kind of frame can stand above which -- a join above
  no task, checkpoint or join, a report above no checkpoint, a checkpoint that
  nobody asked for above no task -- and `Books` ties the two counters and the two
  flags to the frames. A guard of the code reads a counter, the theorem speaks of
  the stack, so neither is inductive alone. An action puts at most two frames on
  what is left of the stack, so each is a push, a pop or a replacement of the top,
  and those three are proved once. A landing pops every frame and leaves `depth`
  and `join_active` too high: with one, only `depth >=` the number of tasks holds,
  which is enough for `TaskRunsToCompletion` and `OutermostReports`. `QuietInv` says
  that a frame which has seen the drain finds both queues still empty, and a join
  which has seen the host idle no task either; `ReleaseInv` that what a report has
  given back is behind its position in the list.
* **UvHost.** For the wakeups, the owner either leaves the foreign queue, the mark
  and the threads alone or takes the whole queue, and a thread that pushed has
  still to send. `HeldInv` adds that inside a turn the handle is held whatever is
  awaited. A queued task keeps the idle handle started (`IdleInv`), so the loop
  that ends has no task.
* **UvHost's timers.** The free list is a sequence without repetitions of exactly
  the free slots, which the links spell (`FreeInv`); a slot in use and its timer
  point at each other (`TableInv`). From that the walk of `FreeListExact` is
  computed step by step: a first index where it departs from the sequence is
  contradictory. `IdInv` adds the age of a slot: its generation exceeds that of
  every id given out for it. `TaskOwnership` is inductive with `LoopInv` (the batch
  is empty unless it is being run) once holders are counted.
* **Landing.** `Kept` is `NothingLost` without the files that are about to be
  removed; `HandInv` ties `checking.json` to the change in hand and `ClockInv` says
  that no command can queue an entry equal to the one being taken. `MainInv` says
  what the service knows of `main` at each of its points: what is advanced is
  `base` with one change on it, green, and not on `main` yet.
* **ConnectionPool.** `PlaceInv` puts each call in one place, `LeaseInv` says whose
  record is busy, and with the cardinality theorems every step moves the counters
  as it moves the sets. `ScanInv` says that a waiter the pump has gone over stays
  passed over until the pump ends, which is why giving up an idle connection of
  another origin needs no second pass for those before it, and that what is idle
  while it goes over the list is open.
* **Writable.** The invariant `Books` is about a stream, the answers and what was
  accepted, because the private methods work on streams in the middle of an action.
  `Flight` says what can be in flight beside what; `Aborts` that an abort waits only
  in an erroring stream and finds the sink's algorithm if it is to use it; `Matched`
  ties queue, total and requests; `Lined` says that what the sink was asked for and
  the rest of the queue are what was accepted; `Owed` that a call is pending exactly
  while the stream keeps its promise in one of its fields, and in one only; `Told`
  and `Going` are the writer's view and the progress. Between two of its lines a
  method breaks some of them, so each method is proved once from its own
  precondition (`Doomed` for finishErroring, `Failing` for startErroring, `Idling`
  for advanceQueueIfNeeded) and an action only has to establish that. What each
  action gives (`Step`) is both the invariant afterwards and a step of `Sink`.

### Assumptions

`CollectorAssumption` (a finite heap, sensible constants); `UvHostAssumption`, with
`GenWrap >= MaskWrap > 1` (the generation's word is at least as wide as the part an
id keeps); `LandingAssumption` and `PromisesAssumption`, which say among other
things that the value standing for a missing file or array is no such record or
array; `PoolAssumption`; `StreamAssumption` (the calls of write, close and abort
are different things, none of them the value for an empty field).

Six theorems have a hypothesis, each because without it the code does something
else. `TimersStayArmed` needs that no period is zero: with a zero period it is
false, which is what the run `uv_interval` shows. `SlotTableExact` needs
`MaxTimers < MaskWrap`: after as many timers as a generation has values an id is
given out a second time, and the code relies on nobody keeping an id that long.
`FlagsExact`, `ReportsAfterDrain` and `CandidatesReleasedOnce` need `~Landing`: an
embedder that survives a report returns past frames that never undo `depth` and
`join_active`, and past a report that had not emptied its list. `ReportsAfterDrain`,
`CandidatesReleasedOnce` and `JoinsAnswerRight` need `Fuel["release"] = 0`, that is,
that giving back a foreign handle runs no compiled code: such code can queue jobs
between the drain and the report or the join's answer (section 3), and a checkpoint
in it gives candidates back twice, which the run `checkpoint_nested_report` shows.
Both are instances the runs use: `checkpoint_join` satisfies both, `checkpoint` the
first.

`AcyclicAssumption` (a type not marked cyclic cannot lead back to itself, which the
compiler guarantees) is what `GarbageCovered`, and through it `FreesCorrect`, need
beyond the code: `nts_possible_root` buffers no object of such a type, and one on a cycle
would be lost.

### Only model-checked

* Liveness: `CollectionEndsUnlessFed`, `JobsAndJoinsEnd`, `QueuesRun`,
  `WaitedIsTaken`, `Settles` and `CallsAnswered`. They hold under fairness, which
  is out of the prover's reach.

Every other property that a passing run checks is a theorem.

## 5. Not modelled

The compiler, the front and back ends, number formatting, Unicode and the
libraries are pure translations or pure functions over domains too large for
TLC, or are written in the compiled language. Of the TypeScript libraries the pool
and the writable stream are modelled; most of the rest is declarations of widgets,
conformance data, and React's reconciler, whose algorithm is upstream's. The other
hosts, the foreign families, regions, environments, maps, the JVM runtime, readable
and transform streams and React's scheduler have state worth modelling and are in
the plan. Of the landing tool the lock, the push, the pool of trees and the
selection of steps are left out. `PROJECT.json` lists each with its
reason.

## 6. Plan

In order:

1. `Ring`: `NtsQueue` and `NtsUvQueue` as rings with growth, shown to refine the
   sequences that the other modules use.
2. Readable streams, and a pipe that composes one with `Writable`; React's scheduler.
3. Holder families in `Collector`, and `task.drop` in `UvHost`, followed into
   compiled code; the landing tool's lock without systemd.
4. `Regions` and `Environments`; `OrderedMap` (insertion, deletion and live
   iterators against a reference sequence); the JVM runtime's inbox and promises.
