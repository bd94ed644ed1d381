---------------------------- MODULE UvHostProofs ----------------------------
(***************************************************************************)
(* Proofs about UvHost, for every set of tasks and of threads.             *)
(***************************************************************************)
EXTENDS UvHost, TLAPS

\* What the wakeup argument needs of the types: a thread that has pushed and
\* not yet sent is told apart from one that has not pushed.
PostingType == posting \in [Thread -> Task \cup {None}]

WakeupInv == PostingType /\ WakeupToCome

\* Every step that is not a thread's either leaves the foreign queue, the
\* wakeup and the threads alone, or takes the whole queue.
LEMMA OwnerKeepsWakeup ==
    ASSUME WakeupInv, Owner
    PROVE  WakeupInv'
  <1>1. CASE TaskReturns \/ RunForeign \/ BatchEnd \/ LoopHead \/ IdlePhase
             \/ PollPasses \/ AsyncEnd \/ ClosingPhase \/ TimersEnd
             \/ \E x \in Timer : TimerFired(x)
    <2>1. UNCHANGED queues
      BY <1>1 DEF TaskReturns, RunForeign, BatchEnd, LoopHead, IdlePhase,
                  PollPasses, AsyncEnd, ClosingPhase, TimersEnd, TimerFired
    <2> QED
      BY <2>1 DEF queues, WakeupInv, PostingType, WakeupToCome
  <1>2. CASE DrainTask \/ DrainEnd
    BY <1>2 DEF DrainTask, DrainEnd, WakeupInv, PostingType, WakeupToCome
  <1>3. CASE PollWakes
    BY <1>3 DEF PollWakes, TakeForeign, WakeupInv, PostingType, WakeupToCome
  <1> QED
    BY <1>1, <1>2, <1>3 DEF Owner

\* Entering the loop takes the whole foreign queue or leaves it alone, and so
\* does a shutdown.
LEMMA EntryKeepsWakeup ==
    ASSUME WakeupInv, Run \/ PumpOne \/ Pump \/ BackendFd \/ Shutdown
    PROVE  WakeupInv'
  <1>1. CASE Run
    BY <1>1 DEF Run, TakeForeign, WakeupInv, PostingType, WakeupToCome
  <1>2. CASE PumpOne
    BY <1>2 DEF PumpOne, TakeForeign, WakeupInv, PostingType, WakeupToCome
  <1>3. CASE Pump
    BY <1>3 DEF Pump, TakeForeign, WakeupInv, PostingType, WakeupToCome
  <1>4. CASE BackendFd
    BY <1>4 DEF BackendFd, queues, WakeupInv, PostingType, WakeupToCome
  <1>5. CASE Shutdown
    BY <1>5 DEF Shutdown, WakeupInv, PostingType, WakeupToCome
  <1> QED
    BY <1>1, <1>2, <1>3, <1>4, <1>5

\* Compiled code on the owner thread does not touch the foreign queue.
LEMMA ProgramKeepsWakeup ==
    ASSUME WakeupInv, Program
    PROVE  WakeupInv'
  <1>1. UNCHANGED <<foreign, sent, posting>>
    BY DEF Program, PostTask, PostDelayed, CancelDelayed, PendingChange, queues
  <1> QED
    BY <1>1 DEF WakeupInv, PostingType, WakeupToCome

\* A thread that pushes has its wakeup to send; sending it marks the handle.
LEMMA ThreadsKeepWakeup ==
    ASSUME WakeupInv, NEW w \in Thread
    PROVE  /\ \A t \in Task : PostFromAnyThread(w, t) => WakeupInv'
           /\ AsyncSend(w) => WakeupInv'
  <1>1. ASSUME NEW t \in Task, PostFromAnyThread(w, t)
        PROVE  WakeupInv'
    <2>1. posting' \in [Thread -> Task \cup {None}] /\ posting'[w] = t
      BY <1>1 DEF PostFromAnyThread, WakeupInv, PostingType
    <2>2. t # None
      BY UvHostAssumption
    <2> QED
      BY <2>1, <2>2 DEF WakeupInv, PostingType, WakeupToCome
  <1>2. ASSUME AsyncSend(w)
        PROVE  WakeupInv'
    BY <1>2 DEF AsyncSend, WakeupInv, PostingType, WakeupToCome
  <1> QED
    BY <1>1, <1>2

\* No wakeup is lost: whatever threads post, and however the owner is driven
\* meanwhile, a queued foreign task has a wakeup on its way to the loop
\* (nts_uv_post_from_any_thread, nts_uv_run_foreign, nts_uv_drain_foreign).
THEOREM NoLostWakeup == Spec => []WakeupToCome
  <1>1. Init => WakeupInv
    BY DEF Init, WakeupInv, PostingType, WakeupToCome
  <1>2. WakeupInv /\ [Next]_vars => WakeupInv'
    <2> SUFFICES ASSUME WakeupInv, [Next]_vars
                 PROVE  WakeupInv'
      OBVIOUS
    <2>1. CASE UNCHANGED vars
      BY <2>1 DEF vars, queues, WakeupInv, PostingType, WakeupToCome
    <2>2. CASE Next
      BY <2>2, OwnerKeepsWakeup, EntryKeepsWakeup, ProgramKeepsWakeup,
         ThreadsKeepWakeup DEF Next
    <2> QED
      BY <2>1, <2>2
  <1>3. WakeupInv => WakeupToCome
    BY DEF WakeupInv
  <1> QED
    BY <1>1, <1>2, <1>3, PTL DEF Spec

-----------------------------------------------------------------------------
(***************************************************************************)
(* The reference of the async handle.  AwaitedHoldsLoop says nothing of a  *)
(* turn for another loop while it lasts; what carries it across the turn   *)
(* is that an awaited operation holds the handle then too.                 *)
(***************************************************************************)
HeldInv ==
    /\ pending \in Nat
    /\ pending > 0 => referenced
    /\ referenced \in BOOLEAN
    /\ entry \in {"run", "pump_one", "pump", "backend_fd"}
    /\ AwaitedHoldsLoop

\* A step that leaves the handle, the count and the driver alone keeps the
\* invariant.
LEMMA StillHeld ==
    ASSUME HeldInv, UNCHANGED <<pending, referenced, entry>>,
           phase' = "out" => phase = "out" \/ entry \in {"run", "pump_one"}
    PROVE  HeldInv'
  BY DEF HeldInv, AwaitedHoldsLoop

\* uv_run returns: a turn lets go unless something is awaited.
LEMMA LoopEndHolds ==
    ASSUME HeldInv, LoopEnd, UNCHANGED <<pending, entry>>
    PROVE  HeldInv'
  <1>1. CASE entry \in {"pump", "backend_fd"}
    <2>1. referenced' = IF pending = 0 THEN FALSE ELSE referenced
      BY <1>1 DEF LoopEnd, TurnEnd
    <2>2. CASE pending = 0
      BY <2>1, <2>2 DEF HeldInv, AwaitedHoldsLoop
    <2>3. CASE pending # 0
      BY <2>1, <2>3 DEF HeldInv, AwaitedHoldsLoop
    <2> QED
      BY <2>2, <2>3
  <1>2. CASE entry \notin {"pump", "backend_fd"}
    <2>1. UNCHANGED referenced
      BY <1>2 DEF LoopEnd
    <2>2. entry \in {"run", "pump_one"}
      BY <1>2 DEF HeldInv
    <2> QED
      BY <2>1, <2>2 DEF HeldInv, AwaitedHoldsLoop
  <1> QED
    BY <1>1, <1>2

\* An operation begins or ends.
LEMMA PendingHolds ==
    ASSUME HeldInv, NEW delta \in {1, -1}, PendingChange(delta)
    PROVE  HeldInv'
  <1>1. pending' \in Nat /\ UNCHANGED <<entry, phase>>
    BY UvHostAssumption DEF PendingChange, HeldInv, loop
  <1>2. CASE pending = 0
    <2>1. referenced' = TRUE /\ pending' > 0
      BY <1>1, <1>2 DEF PendingChange
    <2> QED
      BY <1>1, <2>1 DEF HeldInv, AwaitedHoldsLoop
  <1>3. CASE pending # 0 /\ pending' = 0
    <2>1. referenced' = FALSE
      BY <1>3 DEF PendingChange
    <2>2. ~(pending' > 0)
      BY <1>3
    <2> QED
      BY <1>1, <2>1, <2>2 DEF HeldInv, AwaitedHoldsLoop
  <1>4. CASE pending # 0 /\ pending' # 0
    <2>1. UNCHANGED referenced
      BY <1>4 DEF PendingChange
    <2>2. pending > 0 /\ pending' > 0
      BY <1>1, <1>4 DEF HeldInv
    <2> QED
      BY <1>1, <2>1, <2>2 DEF HeldInv, AwaitedHoldsLoop
  <1> QED
    BY <1>2, <1>3, <1>4

\* The steps of the loop, the end of a turn among them.
LEMMA OwnerHolds ==
    ASSUME HeldInv, Owner
    PROVE  HeldInv'
  <1>1. CASE TaskReturns \/ RunForeign \/ IdlePhase \/ DrainTask \/ DrainEnd
             \/ PollWakes \/ PollPasses \/ AsyncEnd \/ ClosingPhase
             \/ \E x \in Timer : TimerFired(x)
    <2>1. /\ UNCHANGED <<pending, referenced, entry>>
          /\ phase' = "out" => phase = "out"
      BY <1>1 DEF TaskReturns, RunForeign, IdlePhase, DrainTask, DrainEnd,
                  PollWakes, PollPasses, AsyncEnd, ClosingPhase, TimerFired, loop
    <2> QED
      BY <2>1, StillHeld
  <1>2. CASE LoopHead
    <2>1. UNCHANGED <<pending, entry>>
      BY <1>2 DEF LoopHead
    <2>2. CASE Alive
      BY <1>2, <2>1, <2>2, StillHeld DEF LoopHead
    <2>3. CASE ~Alive
      BY <1>2, <2>1, <2>3, LoopEndHolds DEF LoopHead
    <2> QED
      BY <2>2, <2>3
  <1>3. CASE TimersEnd
    <2>1. UNCHANGED <<pending, entry>>
      BY <1>3 DEF TimersEnd
    <2>2. CASE entry = "run"
      BY <1>3, <2>1, <2>2, StillHeld DEF TimersEnd
    <2>3. CASE entry # "run"
      BY <1>3, <2>1, <2>3, LoopEndHolds DEF TimersEnd
    <2> QED
      BY <2>2, <2>3
  <1>4. CASE BatchEnd
    <2>1. UNCHANGED <<pending, entry>>
      BY <1>4 DEF BatchEnd
    <2>2. CASE entry \in {"run", "pump_one"} /\ UNCHANGED referenced
      BY <2>1, <2>2, StillHeld
    <2>3. CASE entry = "pump" /\ phase' = "head" /\ HoldForTurn
      BY <2>1, <2>3 DEF HoldForTurn, HeldInv, AwaitedHoldsLoop
    <2> QED
      BY <1>4, <2>2, <2>3 DEF BatchEnd
  <1> QED
    BY <1>1, <1>2, <1>3, <1>4 DEF Owner

\* The entry points; a turn takes hold of the handle.
LEMMA EntryHolds ==
    ASSUME HeldInv, Run \/ PumpOne \/ Pump \/ BackendFd \/ Shutdown
    PROVE  HeldInv'
  <1>1. CASE Run \/ PumpOne \/ Pump
    <2>1. /\ phase = "out"
          /\ UNCHANGED <<pending, referenced>>
          /\ entry' \in {"run", "pump_one", "pump", "backend_fd"}
      BY <1>1 DEF Run, PumpOne, Pump, Outside
    <2> QED
      BY <2>1 DEF HeldInv, AwaitedHoldsLoop
  <1>2. CASE BackendFd
    BY <1>2 DEF BackendFd, HoldForTurn, HeldInv, AwaitedHoldsLoop
  <1>3. CASE Shutdown
    BY <1>3, StillHeld DEF Shutdown
  <1> QED
    BY <1>1, <1>2, <1>3

\* Timers, tasks and other threads leave the hold alone.
LEMMA OthersHold ==
    ASSUME HeldInv,
           \/ UNCHANGED vars
           \/ \E t \in Task : PostTask(t)
           \/ \E t \in Task, ms \in Delays, repeating \in BOOLEAN : PostDelayed(t, ms, repeating)
           \/ \E n \in Timer : CancelDelayed(n)
           \/ \E w \in Thread, t \in Task : PostFromAnyThread(w, t)
           \/ \E w \in Thread : AsyncSend(w)
    PROVE  HeldInv'
  <1>1. UNCHANGED <<pending, referenced, entry, phase>>
    BY DEF vars, PostTask, PostDelayed, CancelDelayed, PostFromAnyThread,
           AsyncSend, loop
  <1> QED
    BY <1>1, StillHeld

LEMMA InitHeld == Init => HeldInv
  <1>1. ASSUME Init
        PROVE  pending = 0 /\ referenced = FALSE /\ entry = "run"
    BY <1>1 DEF Init
  <1>2. ASSUME Init
        PROVE  ~(pending > 0)
    BY <1>1, <1>2
  <1> QED
    BY <1>1, <1>2 DEF HeldInv, AwaitedHoldsLoop

LEMMA HeldKept == HeldInv /\ [Next]_vars => HeldInv'
  <1> SUFFICES ASSUME HeldInv, [Next]_vars
               PROVE  HeldInv'
    OBVIOUS
  <1>1. CASE PendingChange(1) \/ PendingChange(-1)
    BY <1>1, PendingHolds
  <1> QED
    BY <1>1, OwnerHolds, EntryHolds, OthersHold DEF Next, Program

\* The async handle keeps the loop alive exactly while an operation is
\* awaited: a turn that another loop asks for holds the handle and lets it go
\* again without taking an awaited operation's hold with it
\* (nts_uv_pending_change, nts_uv_turn).
THEOREM AwaitedHolds == Spec => []AwaitedHoldsLoop
  <1>1. HeldInv => AwaitedHoldsLoop
    BY DEF HeldInv
  <1> QED
    BY <1>1, InitHeld, HeldKept, PTL DEF Spec

-----------------------------------------------------------------------------
(***************************************************************************)
(* When the loop returns.  A queued task keeps the idle handle started,    *)
(* which keeps the loop alive.                                             *)
(***************************************************************************)
IdleInv == tasks # <<>> => idle = TRUE

LEMMA IdleKept ==
    ASSUME IdleInv, [Next]_vars
    PROVE  IdleInv'
  <1>1. CASE UNCHANGED <<tasks, idle>>
    BY <1>1 DEF IdleInv
  <1>2. CASE Owner
    <2>1. CASE DrainTask
      BY <2>1 DEF DrainTask, Draining, IdleInv
    <2>2. CASE DrainEnd
      BY <2>2 DEF DrainEnd, IdleAfterDrain, IdleInv
    <2>3. CASE ~DrainTask /\ ~DrainEnd
      <3>1. UNCHANGED <<tasks, idle>>
        BY <1>2, <2>3 DEF Owner, TaskReturns, RunForeign, BatchEnd, LoopHead,
                   IdlePhase, PollWakes, PollPasses, AsyncEnd, ClosingPhase,
                   TimersEnd, TimerFired, queues
      <3> QED
        BY <1>1, <3>1
    <2> QED
      BY <2>1, <2>2, <2>3
  <1>3. CASE \E t \in Task : PostTask(t)
    BY <1>3 DEF PostTask, IdleInv
  <1>4. CASE Shutdown
    BY <1>4 DEF Shutdown, IdleInv
  <1>5. CASE ~Owner /\ ~(\E t \in Task : PostTask(t)) /\ ~Shutdown
    <2>1. UNCHANGED <<tasks, idle>>
      BY <1>5 DEF Next, Program, PostDelayed, CancelDelayed, PendingChange,
                  PostFromAnyThread, AsyncSend, Run, PumpOne, Pump, BackendFd,
                  vars, queues
    <2> QED
      BY <1>1, <2>1
  <1> QED
    BY <1>2, <1>3, <1>4, <1>5

\* A step that leaves the loop from inside, driven by run, is the one that
\* finds it not alive.
LEMMA OnlyHeadReturns ==
    ASSUME [Next]_vars, entry = "run", phase # "out", phase' = "out"
    PROVE  LoopHead /\ ~Alive
  <1>1. CASE Owner
    <2>1. CASE LoopHead
      BY <2>1 DEF LoopHead
    <2>2. CASE BatchEnd
      BY <2>2 DEF BatchEnd
    <2>3. CASE TimersEnd
      BY <2>3 DEF TimersEnd
    <2>4. CASE ~LoopHead /\ ~BatchEnd /\ ~TimersEnd
      BY <1>1, <2>4 DEF Owner, TaskReturns, RunForeign, IdlePhase, DrainTask,
                 DrainEnd, PollWakes, PollPasses, AsyncEnd, ClosingPhase,
                 TimerFired, loop
    <2> QED
      BY <2>1, <2>2, <2>3, <2>4
  <1>2. CASE ~Owner
    BY <1>2 DEF Next, Program, PostTask, PostDelayed, CancelDelayed,
                PendingChange, PostFromAnyThread, AsyncSend, Run, PumpOne,
                Pump, BackendFd, Shutdown, Outside, vars, loop
  <1> QED
    BY <1>1, <1>2

\* The loop returns from run only when no task is queued, no timer is armed
\* and no operation is awaited (nts_uv_host_run, nts_uv_drain_tasks,
\* nts_uv_pending_change).
THEOREM RunDrains == Spec => RunReturnsDrained
  <1>1. Init => IdleInv
    BY DEF Init, IdleInv
  <1>2. IdleInv /\ [Next]_vars => IdleInv'
    BY IdleKept
  <1>3. ASSUME HeldInv, IdleInv, [Next]_vars
        PROVE  [entry = "run" /\ phase # "out" /\ phase' = "out" =>
                   tasks = <<>> /\ armed = {} /\ pending = 0]_vars
    <2> SUFFICES ASSUME entry = "run", phase # "out", phase' = "out"
                 PROVE  tasks = <<>> /\ armed = {} /\ pending = 0
      OBVIOUS
    <2>1. ~Alive
      BY <1>3, OnlyHeadReturns
    <2>2. idle # TRUE /\ armed = {} /\ referenced # TRUE
      BY <2>1 DEF Alive
    <2>3. tasks = <<>>
      BY <1>3, <2>2 DEF IdleInv
    <2>4. ~(pending > 0)
      BY <1>3, <2>1 DEF HeldInv, Alive
    <2>5. pending = 0
      BY <1>3, <2>4 DEF HeldInv
    <2> QED
      BY <2>2, <2>3, <2>5
  <1> QED
    BY <1>1, <1>2, <1>3, InitHeld, HeldKept, PTL DEF Spec, RunReturnsDrained

=============================================================================
