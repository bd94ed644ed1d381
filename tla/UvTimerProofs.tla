--------------------------- MODULE UvTimerProofs ---------------------------
(***************************************************************************)
(* Proofs about the timers and the tasks of UvHost: the slot table, whom   *)
(* an id names, which timers libuv will fire, and who holds a task.        *)
(***************************************************************************)
EXTENDS UvHost, FiniteSetTheorems, SequenceTheorems, TLAPS

SlotRecord ==
    [timer : Timer \cup {0}, generation : 1 .. GenWrap - 1, next : 0 .. MaxTimers]

TimerRecord ==
    [task : Task \cup {None}, slot : 0 .. MaxTimers, repeating : BOOLEAN,
     period : Delays \cup {0}, id : (0 .. MaxTimers) \X (0 .. MaskWrap - 1)]

(***************************************************************************)
(* The inductive invariant of the table.  The free list is a sequence fl   *)
(* without repetitions of exactly the free slots, which the links spell;   *)
(* a slot in use and its timer point at each other; libuv only has timers  *)
(* that are in the table.                                                  *)
(***************************************************************************)
Linked(n, fl) ==
    /\ \A i \in DOMAIN slots : slots[i].timer = 0 <=> \E k \in 1 .. n : fl[k] = i
    /\ \A j, k \in 1 .. n : fl[j] = fl[k] => j = k
    /\ freeSlot = IF n = 0 THEN 0 ELSE fl[1]
    /\ \A k \in 1 .. n : slots[fl[k]].next = IF k = n THEN 0 ELSE fl[k + 1]

FreeInv == \E n \in Nat : \E fl \in [1 .. n -> DOMAIN slots] : Linked(n, fl)

TableInv ==
    /\ Len(slots) <= started
    /\ \A i \in DOMAIN slots :
          slots[i].timer # 0 => /\ slots[i].timer \in 1 .. started
                                /\ timer[slots[i].timer].slot = i
    /\ \A x \in armed : /\ timer[x].slot \in DOMAIN slots
                        /\ slots[timer[x].slot].timer = x
    /\ \A x \in 1 .. started :
          /\ timer[x].task \in Task
          /\ ~timer[x].repeating => timer[x].period = 0
          /\ timer[x].repeating => timer[x].period \in Delays

HostInv == TypeOK /\ TableInv /\ FreeInv

-----------------------------------------------------------------------------
\* What the proofs need of the remainder.
LEMMA ModSmall == \A a \in Nat, b \in Nat : a < b => a % b = a
  OBVIOUS

LEMMA ModRange == \A a \in Nat, b \in Nat : b > 0 => a % b \in 0 .. b - 1
  OBVIOUS

LEMMA ModSelf == \A b \in Nat : b > 0 => b % b = 0
  OBVIOUS

\* A generation stays one, through the wrap too (nts_uv_slot_release).
LEMMA GenerationTyped ==
    ASSUME NEW g \in 1 .. GenWrap - 1
    PROVE  NextGeneration(g) \in 1 .. GenWrap - 1
  <1>1. CASE g + 1 = GenWrap
    BY <1>1, UvHostAssumption, ModSelf DEF NextGeneration
  <1>2. CASE g + 1 < GenWrap
    BY <1>2, UvHostAssumption, ModSmall DEF NextGeneration
  <1> QED
    BY <1>1, <1>2, UvHostAssumption

LEMMA SlotWith ==
    ASSUME NEW r \in SlotRecord, NEW x \in Timer
    PROVE  /\ [r EXCEPT !.timer = x] \in SlotRecord
           /\ [r EXCEPT !.timer = x].timer = x
           /\ [r EXCEPT !.timer = x].generation = r.generation
           /\ [r EXCEPT !.timer = x].next = r.next
  BY DEF SlotRecord

\* A claim writes one slot that was free or did not exist, and takes it off
\* the free list (nts_uv_slot_claim).
LEMMA ClaimEffect ==
    ASSUME HostInv, NEW x \in Timer, SlotClaim(x), started < MaxTimers
    PROVE  /\ slots' \in Seq(SlotRecord)
           /\ Len(slots) <= Len(slots') /\ Len(slots') <= started + 1
           /\ ClaimedSlot \in 1 .. Len(slots')
           /\ slots'[ClaimedSlot].timer = x
           /\ ClaimedSlot \in DOMAIN slots =>
                 /\ slots[ClaimedSlot].timer = 0
                 /\ slots'[ClaimedSlot].generation = slots[ClaimedSlot].generation
           /\ ClaimedSlot \notin DOMAIN slots => slots'[ClaimedSlot].generation = 1
           /\ \A i \in 1 .. Len(slots') :
                 i # ClaimedSlot => i \in DOMAIN slots /\ slots'[i] = slots[i]
           /\ freeSlot' \in 0 .. Len(slots')
           /\ FreeInv'
  <1> USE UvHostAssumption
  <1>0. /\ slots \in Seq(SlotRecord) /\ freeSlot \in 0 .. Len(slots)
        /\ started \in 0 .. MaxTimers /\ Len(slots) <= started
    BY DEF HostInv, TypeOK, TableInv, SlotRecord
  <1>a. PICK n \in Nat : \E fl \in [1 .. n -> DOMAIN slots] : Linked(n, fl)
    BY DEF HostInv, FreeInv
  <1>1. PICK fl \in [1 .. n -> DOMAIN slots] : Linked(n, fl)
    BY <1>a
  <1>2. CASE freeSlot # 0
    <2>1. /\ n > 0 /\ freeSlot = fl[1] /\ freeSlot \in DOMAIN slots
          /\ slots[freeSlot].timer = 0
          /\ slots[freeSlot].next = IF n = 1 THEN 0 ELSE fl[2]
      BY <1>0, <1>1, <1>2 DEF Linked
    <2>2. /\ slots' = [slots EXCEPT ![freeSlot] = [slots[freeSlot] EXCEPT !.timer = x]]
          /\ freeSlot' = slots[freeSlot].next
          /\ ClaimedSlot = freeSlot
      BY <1>2 DEF SlotClaim, ClaimedSlot
    <2>3. /\ [slots[freeSlot] EXCEPT !.timer = x] \in SlotRecord
          /\ [slots[freeSlot] EXCEPT !.timer = x].timer = x
          /\ [slots[freeSlot] EXCEPT !.timer = x].generation = slots[freeSlot].generation
      <3>1. slots[freeSlot] \in SlotRecord
        BY <1>0, <2>1
      <3> QED
        BY <3>1, SlotWith
    <2>4. /\ slots' \in Seq(SlotRecord) /\ Len(slots') = Len(slots)
          /\ slots'[freeSlot] = [slots[freeSlot] EXCEPT !.timer = x]
          /\ \A i \in DOMAIN slots : i # freeSlot => slots'[i] = slots[i]
          /\ DOMAIN slots' = DOMAIN slots
      BY <1>0, <2>1, <2>2, <2>3
    <2>5. x # 0
      BY DEF Timer
    <2>6. FreeInv'
      <3>a. PICK m \in Nat : m = n - 1
        BY <2>1
      <3>b. PICK gl : gl = [k \in 1 .. m |-> fl[k + 1]]
        OBVIOUS
      <3>1. /\ gl \in [1 .. m -> DOMAIN slots']
            /\ \A k \in 1 .. m : gl[k] = fl[k + 1] /\ gl[k] # freeSlot
        <4>1. \A k \in 1 .. m : k + 1 \in 1 .. n /\ k + 1 # 1
          BY <2>1, <3>a
        <4>2. 1 \in 1 .. n
          BY <2>1
        <4>3. \A k \in 1 .. m : fl[k + 1] \in DOMAIN slots' /\ fl[k + 1] # freeSlot
          <5> TAKE k \in 1 .. m
          <5>1. k + 1 \in 1 .. n /\ k + 1 # 1
            BY <4>1
          <5>2. fl[k + 1] = fl[1] => k + 1 = 1
            BY <1>1, <4>2, <5>1 DEF Linked
          <5> QED
            BY <2>1, <2>4, <5>1, <5>2
        <4> QED
          BY <3>b, <4>1, <4>3
      <3>2. \A i \in DOMAIN slots' :
               slots'[i].timer = 0 <=> \E k \in 1 .. m : gl[k] = i
        <4> TAKE i \in DOMAIN slots'
        <4>1. CASE i = freeSlot
          BY <2>3, <2>4, <2>5, <3>1, <4>1
        <4>2. CASE i # freeSlot
          <5>1. slots'[i].timer = 0 <=> \E k \in 1 .. n : fl[k] = i
            BY <1>1, <2>4, <4>2 DEF Linked
          <5>2. \A k \in 1 .. n : fl[k] = i => k # 1 /\ k - 1 \in 1 .. m /\ gl[k - 1] = i
            BY <2>1, <3>a, <3>1, <4>2
          <5>3. \A k \in 1 .. m : gl[k] = i => k + 1 \in 1 .. n /\ fl[k + 1] = i
            BY <3>a, <3>1
          <5> QED
            BY <5>1, <5>2, <5>3
        <4> QED
          BY <4>1, <4>2
      <3>3. \A j, k \in 1 .. m : gl[j] = gl[k] => j = k
        <4> TAKE j, k \in 1 .. m
        <4>1. j + 1 \in 1 .. n /\ k + 1 \in 1 .. n
          BY <3>a
        <4>2. fl[j + 1] = fl[k + 1] => j + 1 = k + 1
          BY <1>1, <4>1 DEF Linked
        <4> QED
          BY <3>1, <4>2
      <3>4. freeSlot' = IF m = 0 THEN 0 ELSE gl[1]
        BY <2>1, <2>2, <3>a, <3>1
      <3>5. \A k \in 1 .. m : slots'[gl[k]].next = IF k = m THEN 0 ELSE gl[k + 1]
        <4> TAKE k \in 1 .. m
        <4>1. k + 1 \in 1 .. n /\ gl[k] = fl[k + 1] /\ slots'[gl[k]] = slots[fl[k + 1]]
          BY <2>4, <3>a, <3>1
        <4>2. slots[fl[k + 1]].next = IF k + 1 = n THEN 0 ELSE fl[k + 2]
          BY <1>1, <4>1 DEF Linked
        <4> QED
          BY <3>a, <3>1, <4>1, <4>2
      <3> QED
        <4>1. Linked(m, gl)'
          BY <3>2, <3>3, <3>4, <3>5 DEF Linked
        <4> QED
          BY <3>1, <4>1 DEF FreeInv
    <2>7. freeSlot' \in 0 .. Len(slots')
      BY <1>0, <1>1, <2>1, <2>2, <2>4
    <2>8. Len(slots') <= started + 1 /\ freeSlot \in 1 .. Len(slots')
      BY <1>0, <1>2, <2>4
    <2>9. \A i \in 1 .. Len(slots') : i # freeSlot => i \in DOMAIN slots /\ slots'[i] = slots[i]
      BY <1>0, <2>4
    <2>10. slots'[freeSlot].timer = x /\ slots'[freeSlot].generation = slots[freeSlot].generation
      BY <2>3, <2>4
    <2>11. Len(slots) <= Len(slots')
      BY <1>0, <2>4
    <2> QED
      BY <2>1, <2>2, <2>4, <2>6, <2>7, <2>8, <2>9, <2>10, <2>11
  <1>3. CASE freeSlot = 0
    <2> DEFINE new == [timer |-> x, generation |-> 1, next |-> 0]
    <2>1. new \in SlotRecord /\ new.timer = x /\ new.generation = 1
      BY DEF SlotRecord
    <2>2. /\ slots' = Append(slots, new) /\ freeSlot' = 0
          /\ ClaimedSlot = Len(slots) + 1
      BY <1>3 DEF SlotClaim, ClaimedSlot
    <2> HIDE DEF new
    <2>3. /\ slots' \in Seq(SlotRecord) /\ Len(slots') = Len(slots) + 1
          /\ slots'[Len(slots) + 1] = new
          /\ \A i \in DOMAIN slots : slots'[i] = slots[i]
          /\ DOMAIN slots' = DOMAIN slots \cup {Len(slots) + 1}
          /\ Len(slots) + 1 \notin DOMAIN slots
      BY <1>0, <2>1, <2>2
    <2>4. FreeInv'
      <3>1. n = 0
        BY <1>0, <1>1, <1>3 DEF Linked
      <3>2. fl \in [1 .. n -> DOMAIN slots']
        BY <2>3, <3>1
      <3>3. x # 0
        BY DEF Timer
      <3>4. \A i \in DOMAIN slots' : slots'[i].timer # 0
        BY <1>1, <2>1, <2>3, <3>1, <3>3 DEF Linked
      <3> QED
        <4>1. Linked(n, fl)'
          BY <2>2, <3>1, <3>2, <3>4 DEF Linked
        <4> QED
          BY <3>2, <4>1 DEF FreeInv
    <2> QED
      BY <1>0, <2>1, <2>2, <2>3, <2>4
  <1> QED
    BY <1>2, <1>3

\* A release writes one slot that was in use, and puts it first in the free
\* list (nts_uv_slot_release).
LEMMA ReleaseEffect ==
    ASSUME HostInv, NEW i \in DOMAIN slots, slots[i].timer # 0, SlotRelease(i)
    PROVE  /\ slots' \in Seq(SlotRecord)
           /\ Len(slots') = Len(slots) /\ DOMAIN slots' = DOMAIN slots
           /\ slots'[i].timer = 0
           /\ slots'[i].generation = NextGeneration(slots[i].generation)
           /\ \A j \in DOMAIN slots : j # i => slots'[j] = slots[j]
           /\ freeSlot' \in 0 .. Len(slots')
           /\ FreeInv'
  <1> USE UvHostAssumption
  <1>0. /\ slots \in Seq(SlotRecord) /\ freeSlot \in 0 .. Len(slots)
        /\ started \in 0 .. MaxTimers /\ Len(slots) <= started
    BY DEF HostInv, TypeOK, TableInv, SlotRecord
  <1>a. PICK n \in Nat : \E fl \in [1 .. n -> DOMAIN slots] : Linked(n, fl)
    BY DEF HostInv, FreeInv
  <1>1. PICK fl \in [1 .. n -> DOMAIN slots] : Linked(n, fl)
    BY <1>a
  <1> DEFINE old == [timer |-> 0, next |-> freeSlot,
                     generation |-> NextGeneration(slots[i].generation)]
  <1>2. slots[i].generation \in 1 .. GenWrap - 1
    <2>1. slots[i] \in SlotRecord
      BY <1>0
    <2> QED
      BY <2>1 DEF SlotRecord
  <1>3. /\ old \in SlotRecord /\ old.timer = 0 /\ old.next = freeSlot
        /\ old.generation = NextGeneration(slots[i].generation)
    <2>1. NextGeneration(slots[i].generation) \in 1 .. GenWrap - 1
      BY <1>2, GenerationTyped
    <2>2. freeSlot \in 0 .. MaxTimers
      BY <1>0
    <2> QED
      BY <2>1, <2>2 DEF SlotRecord
  <1>4. slots' = [slots EXCEPT ![i] = old] /\ freeSlot' = i
    BY DEF SlotRelease
  <1> HIDE DEF old
  <1>5. /\ slots' \in Seq(SlotRecord) /\ Len(slots') = Len(slots)
        /\ slots'[i] = old /\ DOMAIN slots' = DOMAIN slots
        /\ \A j \in DOMAIN slots : j # i => slots'[j] = slots[j]
    BY <1>0, <1>3, <1>4
  <1>6. \A k \in 1 .. n : fl[k] # i
    BY <1>1 DEF Linked
  <1>7. FreeInv'
    <2>a. PICK gl : gl = [k \in 1 .. n + 1 |-> IF k = 1 THEN i ELSE fl[k - 1]]
      OBVIOUS
    <2>1. /\ n + 1 \in Nat /\ gl \in [1 .. n + 1 -> DOMAIN slots']
          /\ gl[1] = i
          /\ \A k \in 1 .. n : gl[k + 1] = fl[k]
          /\ \A k \in 1 .. n + 1 : k # 1 => k - 1 \in 1 .. n /\ gl[k] = fl[k - 1]
      BY <1>1, <1>5, <2>a
    <2>2. \A j \in DOMAIN slots' :
             slots'[j].timer = 0 <=> \E k \in 1 .. n + 1 : gl[k] = j
      <3> TAKE j \in DOMAIN slots'
      <3>1. CASE j = i
        <4>1. 1 \in 1 .. n + 1
          OBVIOUS
        <4> QED
          BY <1>3, <1>5, <2>1, <3>1, <4>1
      <3>2. CASE j # i
        <4>1. slots'[j].timer = 0 <=> \E k \in 1 .. n : fl[k] = j
          BY <1>1, <1>5, <3>2 DEF Linked
        <4>2. \A k \in 1 .. n : k + 1 \in 1 .. n + 1
          OBVIOUS
        <4>3. \A k \in 1 .. n + 1 : gl[k] = j => k - 1 \in 1 .. n /\ fl[k - 1] = j
          BY <2>1, <3>2
        <4>4. \A k \in 1 .. n : fl[k] = j => k + 1 \in 1 .. n + 1 /\ gl[k + 1] = j
          BY <2>1, <4>2
        <4> QED
          BY <4>1, <4>3, <4>4
      <3> QED
        BY <3>1, <3>2
    <2>3. \A j, k \in 1 .. n + 1 : gl[j] = gl[k] => j = k
      <3> SUFFICES ASSUME NEW j \in 1 .. n + 1, NEW k \in 1 .. n + 1, gl[j] = gl[k]
                   PROVE  j = k
        OBVIOUS
      <3>1. CASE j # 1 /\ k # 1
        <4>1. fl[j - 1] = fl[k - 1] /\ j - 1 \in 1 .. n /\ k - 1 \in 1 .. n
          BY <2>1, <3>1
        <4>2. j - 1 = k - 1
          BY <1>1, <4>1 DEF Linked
        <4> QED
          BY <4>2
      <3> QED
        BY <1>6, <2>1, <3>1
    <2>4. \A k \in 1 .. n + 1 : slots'[gl[k]].next = IF k = n + 1 THEN 0 ELSE gl[k + 1]
      <3> TAKE k \in 1 .. n + 1
      <3>1. CASE k = 1
        <4>1. slots'[gl[k]].next = freeSlot
          BY <1>3, <1>5, <2>1, <3>1
        <4>2. freeSlot = IF n = 0 THEN 0 ELSE fl[1]
          BY <1>1 DEF Linked
        <4>3. n # 0 => gl[2] = fl[1]
          BY <2>1
        <4> QED
          BY <3>1, <4>1, <4>2, <4>3
      <3>2. CASE k # 1
        <4>1. k - 1 \in 1 .. n /\ gl[k] = fl[k - 1] /\ fl[k - 1] \in DOMAIN slots
          BY <1>1, <2>1, <3>2
        <4>2. slots'[gl[k]] = slots[fl[k - 1]]
          BY <1>5, <1>6, <4>1
        <4>3. slots[fl[k - 1]].next = IF k - 1 = n THEN 0 ELSE fl[k]
          BY <1>1, <4>1 DEF Linked
        <4>4. k - 1 # n => gl[k + 1] = fl[k]
          BY <2>1
        <4> QED
          BY <4>2, <4>3, <4>4
      <3> QED
        BY <3>1, <3>2
    <2>5. freeSlot' = IF n + 1 = 0 THEN 0 ELSE gl[1]
      BY <1>4, <2>1
    <2> QED
      <3>1. PICK m \in Nat : m = n + 1
        OBVIOUS
      <3>2. Linked(m, gl)'
        BY <2>2, <2>3, <2>4, <2>5, <3>1 DEF Linked
      <3> QED
        BY <2>1, <3>1, <3>2 DEF FreeInv
  <1>8. freeSlot' \in 0 .. Len(slots')
    BY <1>0, <1>4, <1>5
  <1> QED
    BY <1>3, <1>5, <1>7, <1>8

-----------------------------------------------------------------------------
(***************************************************************************)
(* The steps that leave the table alone.                                   *)
(***************************************************************************)
LEMMA TableKept ==
    ASSUME HostInv, UNCHANGED <<slots, freeSlot, timer, started, armed>>
    PROVE  TableInv' /\ FreeInv'
  <1>1. TableInv'
    BY DEF HostInv, TableInv
  <1>2. FreeInv'
    <2>1. PICK n \in Nat : \E fl \in [1 .. n -> DOMAIN slots] : Linked(n, fl)
      BY DEF HostInv, FreeInv
    <2>2. PICK fl \in [1 .. n -> DOMAIN slots] : Linked(n, fl)
      BY <2>1
    <2>3. Linked(n, fl)' /\ fl \in [1 .. n -> DOMAIN slots']
      BY <2>2 DEF Linked
    <2> QED
      BY <2>3 DEF FreeInv
  <1> QED
    BY <1>1, <1>2

LEMMA LoopKeepsHost ==
    ASSUME HostInv,
           \/ UNCHANGED vars
           \/ TaskReturns \/ RunForeign \/ BatchEnd \/ LoopHead
           \/ IdlePhase \/ DrainTask \/ DrainEnd
           \/ PollWakes \/ PollPasses \/ AsyncEnd \/ TimersEnd
           \/ Run \/ PumpOne \/ Pump \/ BackendFd
    PROVE  HostInv'
  <1> USE UvHostAssumption
  <1>1. UNCHANGED <<slots, freeSlot, timer, started, armed, closing>>
    BY DEF vars, table, TaskReturns, RunForeign, BatchEnd, LoopHead, IdlePhase,
           DrainTask, DrainEnd, PollWakes, PollPasses, AsyncEnd, TimersEnd,
           Run, PumpOne, Pump, BackendFd
  <1>2. TypeOK'
    <2>0. TypeOK
      BY DEF HostInv
    <2>1. CASE UNCHANGED vars
      BY <2>0, <2>1 DEF TypeOK, vars, queues, table, loop, watch
    <2>2. CASE TaskReturns
      BY <2>0, <2>2 DEF TypeOK, TaskReturns, queues, table, loop, watch
    <2>3. CASE RunForeign
      BY <2>0, <2>3 DEF TypeOK, RunForeign, queues, table, watch
    <2>4. CASE BatchEnd
      BY <2>0, <2>4 DEF TypeOK, BatchEnd, Return, HoldForTurn, queues, table, watch
    <2>5. CASE LoopHead
      BY <2>0, <2>5 DEF TypeOK, LoopHead, LoopEnd, TurnEnd, Return, queues, table, watch
    <2>6. CASE IdlePhase
      BY <2>0, <2>6 DEF TypeOK, IdlePhase, queues, table, watch
    <2>7. CASE DrainTask
      BY <2>0, <2>7 DEF TypeOK, DrainTask, Draining, PassLeft, table, watch
    <2>8. CASE DrainEnd
      BY <2>0, <2>8 DEF TypeOK, DrainEnd, IdleAfterDrain, table, watch
    <2>9. CASE PollWakes
      <3>1. {tasks', foreign', batch'} \subseteq Seq(Task)
        BY <2>0, <2>9 DEF TypeOK, PollWakes, TakeForeign
      <3>2. {idle', sent', referenced', installed', running', registered', edge'} \subseteq BOOLEAN
        BY <2>0, <2>9 DEF TypeOK, PollWakes, watch
      <3>3. entry' \in {"run", "pump_one", "pump", "backend_fd"}
        BY <2>0, <2>9 DEF TypeOK, PollWakes
      <3>4. phase' \in {"batch", "head", "async"}
        BY <2>9 DEF PollWakes
      <3>5. UNCHANGED <<live, posting, referenced, pending, table, left, due, current>>
        BY <2>9 DEF PollWakes
      <3> QED
        BY <2>0, <3>1, <3>2, <3>3, <3>4, <3>5 DEF TypeOK, table
    <2>10. CASE PollPasses \/ AsyncEnd
      BY <2>0, <2>10 DEF TypeOK, PollPasses, AsyncEnd, queues, table, watch
    <2>11. CASE TimersEnd
      BY <2>0, <2>11 DEF TypeOK, TimersEnd, LoopEnd, TurnEnd, Return, queues, table, watch
    <2>12. CASE Run
      BY <2>0, <2>12 DEF TypeOK, Run, TakeForeign, table, watch
    <2>13. CASE PumpOne
      <3>1. {tasks', foreign', batch'} \subseteq Seq(Task)
        <4>1. tasks \in Seq(Task) /\ foreign \in Seq(Task) /\ batch \in Seq(Task)
          BY <2>0 DEF TypeOK
        <4>2. /\ tasks' = tasks
              /\ \/ batch' = foreign /\ foreign' = <<>>
                 \/ batch' = batch /\ foreign' = foreign
          BY <2>13 DEF PumpOne, TakeForeign
        <4>3. <<>> \in Seq(Task)
          OBVIOUS
        <4> QED
          BY <4>1, <4>2, <4>3
      <3>2. {idle', sent', referenced', installed', running', registered', edge'} \subseteq BOOLEAN
        BY <2>0, <2>13 DEF TypeOK, PumpOne, watch
      <3>3. entry' \in {"run", "pump_one", "pump", "backend_fd"}
        BY <2>0, <2>13 DEF TypeOK, PumpOne
      <3>4. phase' \in {"batch", "head", "async"}
        BY <2>13 DEF PumpOne
      <3>5. UNCHANGED <<live, posting, referenced, pending, table, left, due, current>>
        BY <2>13 DEF PumpOne
      <3> QED
        BY <2>0, <3>1, <3>2, <3>3, <3>4, <3>5 DEF TypeOK, table
    <2>14. CASE Pump
      <3>1. {tasks', foreign', batch'} \subseteq Seq(Task)
        BY <2>0, <2>14 DEF TypeOK, Pump, TakeForeign
      <3>2. {idle', sent', referenced', installed', running', registered', edge'} \subseteq BOOLEAN
        BY <2>0, <2>14 DEF TypeOK, Pump, watch
      <3>3. entry' \in {"run", "pump_one", "pump", "backend_fd"}
        BY <2>0, <2>14 DEF TypeOK, Pump
      <3>4. phase' \in {"batch", "head", "async"}
        BY <2>14 DEF Pump
      <3>5. UNCHANGED <<live, posting, referenced, pending, table, left, due, current>>
        BY <2>14 DEF Pump
      <3> QED
        BY <2>0, <3>1, <3>2, <3>3, <3>4, <3>5 DEF TypeOK, table
    <2>15. CASE BackendFd
      BY <2>0, <2>15 DEF TypeOK, BackendFd, HoldForTurn, queues, table, watch
    <2> QED
      BY <2>1, <2>2, <2>3, <2>4, <2>5, <2>6, <2>7, <2>8, <2>9, <2>10, <2>11,
         <2>12, <2>13, <2>14, <2>15
  <1> QED
    BY <1>1, <1>2, TableKept DEF HostInv

LEMMA PostsKeepHost ==
    ASSUME HostInv,
           \/ \E t \in Task : PostTask(t)
           \/ PendingChange(1) \/ PendingChange(-1)
           \/ \E w \in Thread, t \in Task : PostFromAnyThread(w, t)
           \/ \E w \in Thread : AsyncSend(w)
           \/ ClosingPhase
    PROVE  HostInv'
  <1> USE UvHostAssumption
  <1>1. UNCHANGED <<slots, freeSlot, timer, started, armed>>
    BY DEF table, PostTask, PendingChange, PostFromAnyThread, AsyncSend,
           ClosingPhase
  <1>2. TypeOK'
    <2>0. TypeOK
      BY DEF HostInv
    <2>1. ASSUME NEW t \in Task, PostTask(t)
          PROVE  TypeOK'
      BY <2>0, <2>1 DEF TypeOK, PostTask, table, loop, watch
    <2>2. CASE PendingChange(1) \/ PendingChange(-1)
      BY <2>0, <2>2 DEF TypeOK, PendingChange, queues, table, loop, watch
    <2>3. ASSUME NEW w \in Thread, NEW t \in Task, PostFromAnyThread(w, t)
          PROVE  TypeOK'
      BY <2>0, <2>3 DEF TypeOK, PostFromAnyThread, table, loop, watch
    <2>4. ASSUME NEW w \in Thread, AsyncSend(w)
          PROVE  TypeOK'
      BY <2>0, <2>4 DEF TypeOK, AsyncSend, table, loop
    <2>5. CASE ClosingPhase
      BY <2>0, <2>5 DEF TypeOK, ClosingPhase, queues, watch
    <2> QED
      BY <2>1, <2>2, <2>3, <2>4, <2>5
  <1> QED
    BY <1>1, <1>2, TableKept DEF HostInv

-----------------------------------------------------------------------------
(***************************************************************************)
(* The steps that change the table.                                        *)
(***************************************************************************)
LEMMA PostDelayedKeepsHost ==
    ASSUME HostInv, NEW t \in Task, NEW ms \in Delays, NEW repeating \in BOOLEAN,
           PostDelayed(t, ms, repeating)
    PROVE  HostInv'
  <1> USE UvHostAssumption
  <1>0. /\ TypeOK /\ TableInv /\ started < MaxTimers /\ started' = started + 1
        /\ SlotClaim(started + 1) /\ started \in 0 .. MaxTimers
    BY DEF HostInv, TypeOK, PostDelayed
  <1>1. started + 1 \in Timer
    BY <1>0 DEF Timer
  <1> DEFINE at == ClaimedSlot
  <1>a. /\ slots' \in Seq(SlotRecord)
        /\ Len(slots) <= Len(slots') /\ Len(slots') <= started + 1
        /\ at \in 1 .. Len(slots')
        /\ slots'[at].timer = started + 1
        /\ \A i \in 1 .. Len(slots') : i # at => i \in DOMAIN slots /\ slots'[i] = slots[i]
        /\ freeSlot' \in 0 .. Len(slots')
        /\ at \in DOMAIN slots => slots[at].timer = 0
    BY <1>0, <1>1, ClaimEffect
  <1>b. FreeInv'
    BY <1>0, <1>1, ClaimEffect
  <1>c. PICK c \in 1 .. Len(slots') : c = ClaimedSlot
    BY <1>a
  <1>2. slots'[c] \in SlotRecord
    BY <1>a, <1>c
  <1>3. /\ c \in 0 .. MaxTimers
        /\ slots'[c].generation % MaskWrap \in 0 .. MaskWrap - 1
    <2>1. slots'[c].generation \in Nat
      BY <1>2 DEF SlotRecord
    <2> QED
      BY <1>0, <1>a, <1>c, <2>1, ModRange
  <1>4. Period(ms, repeating) \in Delays \cup {0}
    BY DEF Period
  <1> DEFINE new == [task |-> t, slot |-> c, repeating |-> repeating,
                     period |-> Period(ms, repeating),
                     id |-> SlotId(c, slots'[c].generation)]
  <1>5. PICK r : r = new
    OBVIOUS
  <1>6. /\ r \in TimerRecord /\ r.task = t /\ r.slot = c /\ r.repeating = repeating
        /\ r.period = Period(ms, repeating)
    BY <1>3, <1>4, <1>5 DEF TimerRecord, SlotId
  <1>7. timer' = [timer EXCEPT ![started + 1] = r]
    BY <1>0, <1>c, <1>5 DEF PostDelayed
  <1> HIDE DEF at, new
  <1>8. timer \in [Timer -> TimerRecord]
    BY <1>0 DEF TypeOK, TimerRecord
  <1>9. /\ timer' \in [Timer -> TimerRecord] /\ timer'[started + 1] = r
        /\ \A x \in Timer : x # started + 1 => timer'[x] = timer[x]
    BY <1>1, <1>6, <1>7, <1>8
  <1>10. 1 .. started \subseteq Timer /\ started + 1 \notin 1 .. started
    BY <1>0 DEF Timer
  <1>11. /\ slots' \in Seq(SlotRecord) /\ slots'[c].timer = started + 1
         /\ Len(slots) <= Len(slots') /\ Len(slots') <= started + 1
         /\ \A i \in 1 .. Len(slots') : i # c => i \in DOMAIN slots /\ slots'[i] = slots[i]
         /\ c \in DOMAIN slots => slots[c].timer = 0
    BY <1>a, <1>c DEF at
  <1>12. DOMAIN slots' = 1 .. Len(slots') /\ DOMAIN slots = 1 .. Len(slots)
    BY <1>0, <1>11 DEF TypeOK
  <1>13. armed' = armed \cup {started + 1} /\ armed \subseteq 1 .. started
    BY <1>0 DEF PostDelayed, TypeOK
  <1>14. TableInv'
    <2>1. Len(slots') <= started'
      BY <1>0, <1>11
    <2>2. ASSUME NEW i \in DOMAIN slots', slots'[i].timer # 0
          PROVE  slots'[i].timer \in 1 .. started' /\ timer'[slots'[i].timer].slot = i
      <3>1. CASE i = c
        BY <1>0, <1>6, <1>9, <1>11, <3>1
      <3>2. CASE i # c
        <4>1. i \in DOMAIN slots /\ slots'[i] = slots[i]
          BY <1>11, <1>12, <2>2, <3>2
        <4>2. slots[i].timer \in 1 .. started /\ timer[slots[i].timer].slot = i
          BY <1>0, <2>2, <4>1 DEF TableInv
        <4>3. slots[i].timer \in Timer /\ slots[i].timer # started + 1 /\ slots[i].timer \in 1 .. started'
          BY <1>0, <1>10, <4>2
        <4> QED
          BY <1>9, <4>1, <4>2, <4>3
      <3> QED
        BY <3>1, <3>2
    <2>3. ASSUME NEW x \in armed'
          PROVE  timer'[x].slot \in DOMAIN slots' /\ slots'[timer'[x].slot].timer = x
      <3>1. CASE x = started + 1
        BY <1>6, <1>9, <1>11, <1>12, <3>1
      <3>2. CASE x # started + 1
        <4>1. x \in armed /\ x \in 1 .. started /\ x \in Timer /\ timer'[x] = timer[x]
          BY <1>9, <1>10, <1>13, <3>2
        <4>2. timer[x].slot \in DOMAIN slots /\ slots[timer[x].slot].timer = x
          BY <1>0, <4>1 DEF TableInv
        <4>3. timer[x].slot # c
          BY <1>11, <4>1, <4>2
        <4>4. timer[x].slot \in 1 .. Len(slots')
          BY <1>11, <1>12, <4>2
        <4> QED
          BY <1>11, <1>12, <4>1, <4>2, <4>3, <4>4
      <3> QED
        BY <3>1, <3>2
    <2>4. ASSUME NEW x \in 1 .. started'
          PROVE  /\ timer'[x].task \in Task
                 /\ ~timer'[x].repeating => timer'[x].period = 0
                 /\ timer'[x].repeating => timer'[x].period \in Delays
      <3>1. CASE x = started + 1
        BY <1>6, <1>9, <3>1 DEF Period
      <3>2. CASE x # started + 1
        <4>1. x \in 1 .. started /\ x \in Timer
          BY <1>0, <1>10, <3>2
        <4> QED
          BY <1>0, <1>9, <3>2, <4>1 DEF TableInv
      <3> QED
        BY <3>1, <3>2
    <2> QED
      BY <2>1, <2>2, <2>3, <2>4 DEF TableInv
  <1>15. TypeOK'
    <2>1. UNCHANGED <<queues, referenced, pending, closing, loop, current, watch>>
      BY DEF PostDelayed
    <2>2. live' \subseteq Task
      BY <1>0 DEF PostDelayed, TypeOK
    <2>3. armed' \subseteq 1 .. started' /\ closing \subseteq 1 .. started' /\ due \subseteq 1 .. started'
      <3>1. 1 .. started \subseteq 1 .. started' /\ started + 1 \in 1 .. started'
        BY <1>0
      <3> QED
        BY <1>0, <1>13, <3>1 DEF TypeOK
    <2>4. started' \in 0 .. MaxTimers
      BY <1>0
    <2>5. freeSlot' \in 0 .. Len(slots')
      BY <1>a
    <2> QED
      BY <1>0, <1>9, <1>11, <2>1, <2>2, <2>3, <2>4, <2>5
         DEF TypeOK, TimerRecord, SlotRecord, queues, loop, watch
  <1> QED
    BY <1>b, <1>14, <1>15 DEF HostInv

\* A timer is retired by a cancel or, a one-shot, when it fires.
LEMMA RetireKeepsHost ==
    ASSUME HostInv, NEW x \in 1 .. started, Retire(x),
           timer[x].slot \in DOMAIN slots, slots[timer[x].slot].timer = x,
           armed' = armed \ {x}, UNCHANGED <<timer, started>>
    PROVE  /\ TableInv' /\ FreeInv'
           /\ slots' \in Seq(SlotRecord) /\ freeSlot' \in 0 .. Len(slots')
           /\ closing' \subseteq 1 .. started'
           /\ armed' \subseteq 1 .. started'
  <1> USE UvHostAssumption
  <1>0. TypeOK /\ TableInv /\ x # 0 /\ SlotRelease(timer[x].slot)
    BY DEF HostInv, Retire
  <1>1. PICK i \in DOMAIN slots : i = timer[x].slot
    OBVIOUS
  <1>2. /\ slots' \in Seq(SlotRecord)
        /\ Len(slots') = Len(slots) /\ DOMAIN slots' = DOMAIN slots
        /\ slots'[i].timer = 0
        /\ \A j \in DOMAIN slots : j # i => slots'[j] = slots[j]
        /\ freeSlot' \in 0 .. Len(slots')
        /\ FreeInv'
    BY <1>0, <1>1, ReleaseEffect
  <1>3. TableInv'
    <2>1. Len(slots') <= started'
      BY <1>0, <1>2 DEF TableInv
    <2>2. ASSUME NEW j \in DOMAIN slots', slots'[j].timer # 0
          PROVE  slots'[j].timer \in 1 .. started' /\ timer'[slots'[j].timer].slot = j
      BY <1>0, <1>2, <2>2 DEF TableInv
    <2>3. ASSUME NEW y \in armed'
          PROVE  timer'[y].slot \in DOMAIN slots' /\ slots'[timer'[y].slot].timer = y
      <3>1. /\ y \in armed /\ y # x /\ timer[y].slot \in DOMAIN slots
            /\ slots[timer[y].slot].timer = y
        BY <1>0, <2>3 DEF TableInv
      <3>2. timer[y].slot # i
        BY <1>1, <3>1
      <3> QED
        BY <1>2, <3>1, <3>2
    <2> QED
      BY <1>0, <2>1, <2>2, <2>3 DEF TableInv
  <1>4. closing' \subseteq 1 .. started' /\ armed' \subseteq 1 .. started'
    BY <1>0 DEF Retire, TypeOK
  <1> QED
    BY <1>2, <1>3, <1>4

\* What SlotFind answers is a timer of the table, in the slot it says.
LEMMA FoundInTable ==
    ASSUME HostInv, NEW n \in 1 .. started, SlotFind(timer[n].id) # 0
    PROVE  LET x == SlotFind(timer[n].id)
           IN  /\ x \in 1 .. started
               /\ timer[x].slot \in DOMAIN slots
               /\ slots[timer[x].slot].timer = x
  <1>1. PICK i \in DOMAIN slots : SlotFind(timer[n].id) = slots[i].timer
    BY DEF SlotFind
  <1> QED
    BY <1>1 DEF HostInv, TableInv

LEMMA CancelKeepsHost ==
    ASSUME HostInv, NEW n \in Timer, CancelDelayed(n)
    PROVE  HostInv'
  <1>1. n \in 1 .. started /\ SlotFind(timer[n].id) # 0
    BY DEF CancelDelayed
  <1>2. PICK x \in 1 .. started :
           /\ x = SlotFind(timer[n].id)
           /\ timer[x].slot \in DOMAIN slots /\ slots[timer[x].slot].timer = x
    BY <1>1, FoundInTable
  <1>3. /\ Retire(x) /\ armed' = armed \ {x} /\ live' \subseteq live
        /\ UNCHANGED <<queues, referenced, pending, timer, started, loop, current, watch>>
    BY <1>2 DEF CancelDelayed
  <1>4. /\ TableInv' /\ FreeInv'
        /\ slots' \in Seq(SlotRecord) /\ freeSlot' \in 0 .. Len(slots')
        /\ closing' \subseteq 1 .. started'
        /\ armed' \subseteq 1 .. started'
    BY <1>2, <1>3, RetireKeepsHost
  <1>5. TypeOK'
    BY <1>3, <1>4 DEF HostInv, TypeOK, SlotRecord, queues, loop, watch
  <1> QED
    BY <1>4, <1>5 DEF HostInv

LEMMA FiredKeepsHost ==
    ASSUME HostInv, NEW x \in Timer, TimerFired(x)
    PROVE  HostInv'
  <1>0. /\ TypeOK /\ TableInv /\ x \in armed /\ due' \subseteq due
        /\ current' = timer[x].task
        /\ UNCHANGED <<live, queues, referenced, pending, timer, started, installed,
                       running, entry, phase, batch, left, watch>>
    BY DEF HostInv, TimerFired, Ready
  <1>1. /\ x \in 1 .. started /\ timer[x].slot \in DOMAIN slots
        /\ slots[timer[x].slot].timer = x
        /\ timer[x].task \in Task
    BY <1>0 DEF TypeOK, TableInv
  <1>2. CASE timer[x].repeating
    <2>1. UNCHANGED <<slots, freeSlot, closing>> /\ armed' \subseteq armed
      BY <1>2 DEF TimerFired
    <2>2. TypeOK'
      BY <1>0, <1>1, <2>1 DEF TypeOK, queues, watch
    <2>3. TableInv'
      BY <1>0, <2>1 DEF TableInv
    <2>4. PICK n \in Nat : \E fl \in [1 .. n -> DOMAIN slots] : Linked(n, fl)
      BY DEF HostInv, FreeInv
    <2>5. PICK fl \in [1 .. n -> DOMAIN slots] : Linked(n, fl)
      BY <2>4
    <2>6. Linked(n, fl)' /\ fl \in [1 .. n -> DOMAIN slots']
      BY <2>1, <2>5 DEF Linked
    <2> QED
      BY <2>2, <2>3, <2>6 DEF HostInv, FreeInv
  <1>3. CASE ~timer[x].repeating
    <2>1. Retire(x) /\ armed' = armed \ {x}
      BY <1>0, <1>1, <1>3 DEF TimerFired, TableInv
    <2>2. /\ TableInv' /\ FreeInv'
          /\ slots' \in Seq(SlotRecord) /\ freeSlot' \in 0 .. Len(slots')
          /\ closing' \subseteq 1 .. started'
          /\ armed' \subseteq 1 .. started'
      BY <1>0, <1>1, <2>1, RetireKeepsHost
    <2>3. TypeOK'
      BY <1>0, <1>1, <2>2 DEF TypeOK, SlotRecord, queues, watch
    <2> QED
      BY <2>2, <2>3 DEF HostInv
  <1> QED
    BY <1>2, <1>3

LEMMA ShutdownKeepsHost ==
    ASSUME HostInv, Shutdown
    PROVE  HostInv'
  <1> USE UvHostAssumption
  <1>0. TypeOK /\ TableInv /\ slots' = <<>> /\ freeSlot' = 0 /\ armed' = {}
        /\ UNCHANGED <<timer, started>>
    BY DEF HostInv, Shutdown
  <1>1. TypeOK'
    <2>1. tasks' = <<>> /\ foreign' = <<>> /\ UNCHANGED batch /\ <<>> \in Seq(Task)
      BY DEF Shutdown
    <2>2. <<>> \in Seq(SlotRecord) /\ freeSlot' \in 0 .. Len(slots')
      BY <1>0
    <2> QED
      BY <1>0, <2>1, <2>2 DEF TypeOK, Shutdown, watch, SlotRecord
  <1>2. TableInv'
    <2>1. Len(slots') <= started' /\ DOMAIN slots' = {}
      BY <1>0 DEF TypeOK
    <2> QED
      BY <1>0, <2>1 DEF TableInv
  <1>3. FreeInv'
    <2>1. PICK fl : fl = [k \in 1 .. 0 |-> 0]
      OBVIOUS
    <2>2. fl \in [1 .. 0 -> DOMAIN slots'] /\ Linked(0, fl)' /\ 0 \in Nat
      BY <1>0, <2>1 DEF Linked
    <2> QED
      BY <2>2 DEF FreeInv
  <1> QED
    BY <1>1, <1>2, <1>3 DEF HostInv

LEMMA InitHost == Init => HostInv
  <1> SUFFICES ASSUME Init
               PROVE  HostInv
    OBVIOUS
  <1> USE UvHostAssumption
  <1>1. TypeOK
    <2>1. NoTimer \in TimerRecord
      BY DEF NoTimer, TimerRecord
    <2>2. timer \in [Timer -> TimerRecord]
      BY <2>1 DEF Init
    <2>3. /\ <<>> \in Seq(Task)
          /\ <<>> \in Seq([timer : Timer \cup {0}, generation : 1 .. GenWrap - 1,
                           next : 0 .. MaxTimers])
      OBVIOUS
    <2>4. {tasks, foreign, batch} \subseteq Seq(Task) /\ live \subseteq Task
      BY <2>3 DEF Init
    <2>5. {idle, sent, referenced, installed, running, registered, edge} \subseteq BOOLEAN
      BY DEF Init
    <2>6. /\ pending \in 0 .. MaxPending /\ freeSlot \in 0 .. Len(slots)
          /\ started \in 0 .. MaxTimers /\ left \in Nat
      BY DEF Init
    <2>7. /\ posting \in [Thread -> Task \cup {None}] /\ current \in Task \cup {None}
          /\ armed \subseteq 1 .. started /\ closing \subseteq 1 .. started
          /\ due \subseteq 1 .. started
          /\ entry = "run" /\ phase = "out" /\ slots = <<>>
      BY DEF Init
    <2> QED
      BY <2>2, <2>3, <2>4, <2>5, <2>6, <2>7 DEF TypeOK, TimerRecord
  <1>2. TableInv
    BY DEF Init, TableInv
  <1>3. FreeInv
    <2>1. PICK fl : fl = [k \in 1 .. 0 |-> 0]
      OBVIOUS
    <2>2. fl \in [1 .. 0 -> DOMAIN slots] /\ Linked(0, fl) /\ 0 \in Nat
      BY <2>1 DEF Linked, Init
    <2> QED
      BY <2>2 DEF FreeInv
  <1> QED
    BY <1>1, <1>2, <1>3 DEF HostInv

LEMMA HostKept == HostInv /\ [Next]_vars => HostInv'
  <1> SUFFICES ASSUME HostInv, [Next]_vars
               PROVE  HostInv'
    OBVIOUS
  <1>1. CASE Owner
    BY <1>1, LoopKeepsHost, PostsKeepHost, FiredKeepsHost DEF Owner
  <1>2. CASE Program
    BY <1>2, PostsKeepHost, PostDelayedKeepsHost, CancelKeepsHost DEF Program
  <1> QED
    BY <1>1, <1>2, LoopKeepsHost, PostsKeepHost, ShutdownKeepsHost DEF Next

\* The state of the host is well typed: a claim of a freed slot follows a link
\* that is a slot, and a cancel releases a slot that is in the table
\* (nts_uv_slot_claim, nts_uv_slot_find).
THEOREM HostTyped == Spec => []TypeOK
  <1>1. HostInv => TypeOK
    BY DEF HostInv
  <1> QED
    BY <1>1, InitHost, HostKept, PTL DEF Spec

-----------------------------------------------------------------------------
(***************************************************************************)
(* Which timers live.                                                      *)
(***************************************************************************)
LEMMA LiveStarted == HostInv => LiveTimers \subseteq 1 .. started /\ armed \subseteq LiveTimers
  <1> SUFFICES ASSUME HostInv
               PROVE  LiveTimers \subseteq 1 .. started /\ armed \subseteq LiveTimers
    OBVIOUS
  <1>1. LiveTimers \subseteq 1 .. started
    BY DEF HostInv, TableInv, LiveTimers
  <1>2. ASSUME NEW x \in armed
        PROVE  x \in LiveTimers
    <2>1. x # 0
      BY DEF HostInv, TypeOK
    <2> QED
      BY <1>2, <2>1 DEF HostInv, TableInv, LiveTimers
  <1> QED
    BY <1>1, <1>2

LEMMA LiveKept ==
    ASSUME UNCHANGED slots
    PROVE  LiveTimers' = LiveTimers
  BY DEF LiveTimers

LEMMA ClaimLives ==
    ASSUME HostInv, NEW t \in Task, NEW ms \in Delays, NEW repeating \in BOOLEAN,
           PostDelayed(t, ms, repeating)
    PROVE  /\ LiveTimers' = LiveTimers \cup {started + 1}
           /\ started + 1 \notin LiveTimers
           /\ \A x \in 1 .. started : timer'[x] = timer[x]
           /\ timer'[started + 1].task = t
  <1> USE UvHostAssumption
  <1>0. /\ TypeOK /\ TableInv /\ started < MaxTimers /\ started' = started + 1
        /\ SlotClaim(started + 1) /\ started \in 0 .. MaxTimers
    BY DEF HostInv, TypeOK, PostDelayed
  <1>1. started + 1 \in Timer /\ 1 .. started \subseteq Timer /\ started + 1 \notin 1 .. started
    BY <1>0 DEF Timer
  <1>2. PICK c \in 1 .. Len(slots') :
           /\ slots' \in Seq(SlotRecord)
           /\ Len(slots) <= Len(slots')
           /\ slots'[c].timer = started + 1
           /\ \A i \in 1 .. Len(slots') : i # c => i \in DOMAIN slots /\ slots'[i] = slots[i]
           /\ c \in DOMAIN slots => slots[c].timer = 0
    BY <1>0, <1>1, ClaimEffect
  <1>3. DOMAIN slots' = 1 .. Len(slots') /\ DOMAIN slots = 1 .. Len(slots)
    BY <1>0, <1>2 DEF TypeOK
  <1>4. \A i \in DOMAIN slots : i # c => i \in DOMAIN slots' /\ slots'[i] = slots[i]
    BY <1>0, <1>2, <1>3
  <1>5. LiveTimers' = LiveTimers \cup {started + 1}
    <2>1. ASSUME NEW x \in LiveTimers'
          PROVE  x \in LiveTimers \cup {started + 1}
      BY <1>2, <1>3, <2>1 DEF LiveTimers
    <2>2. ASSUME NEW x \in LiveTimers
          PROVE  x \in LiveTimers'
      <3>1. PICK i \in DOMAIN slots : slots[i].timer = x /\ x # 0
        BY <2>2 DEF LiveTimers
      <3> QED
        BY <1>2, <1>4, <3>1 DEF LiveTimers
    <2>3. started + 1 \in LiveTimers'
      BY <1>0, <1>2, <1>3 DEF LiveTimers
    <2> QED
      BY <2>1, <2>2, <2>3
  <1>6. started + 1 \notin LiveTimers
    BY <1>1, LiveStarted
  <1>7. /\ \A x \in 1 .. started : timer'[x] = timer[x]
        /\ timer'[started + 1].task = t
    <2>1. DOMAIN timer = Timer
      BY <1>0 DEF TypeOK
    <2> QED
      BY <1>0, <1>1, <2>1 DEF PostDelayed
  <1> QED
    BY <1>5, <1>6, <1>7

LEMMA RetireLives ==
    ASSUME HostInv, NEW x \in 1 .. started, Retire(x),
           timer[x].slot \in DOMAIN slots, slots[timer[x].slot].timer = x
    PROVE  LiveTimers' = LiveTimers \ {x} /\ x \in LiveTimers
  <1>0. x # 0 /\ SlotRelease(timer[x].slot)
    BY DEF HostInv, TypeOK, Retire
  <1>1. PICK i \in DOMAIN slots : i = timer[x].slot
    OBVIOUS
  <1>2. /\ DOMAIN slots' = DOMAIN slots
        /\ slots'[i].timer = 0
        /\ \A j \in DOMAIN slots : j # i => slots'[j] = slots[j]
    BY <1>0, <1>1, ReleaseEffect
  <1>3. \A j \in DOMAIN slots : slots[j].timer = x => j = i
    BY <1>0, <1>1 DEF HostInv, TableInv
  <1>4. ASSUME NEW y \in LiveTimers'
        PROVE  y \in LiveTimers \ {x}
    <2>1. PICK j \in DOMAIN slots' : slots'[j].timer = y /\ y # 0
      BY <1>4 DEF LiveTimers
    <2>2. j # i /\ slots[j].timer = y /\ j \in DOMAIN slots
      BY <1>2, <2>1
    <2> QED
      BY <1>3, <2>1, <2>2 DEF LiveTimers
  <1>5. ASSUME NEW y \in LiveTimers, y # x
        PROVE  y \in LiveTimers'
    <2>1. PICK j \in DOMAIN slots : slots[j].timer = y /\ y # 0
      BY <1>5 DEF LiveTimers
    <2>2. j # i
      BY <1>1, <1>5, <2>1
    <2> QED
      BY <1>2, <2>1, <2>2 DEF LiveTimers
  <1>6. x \in LiveTimers
    BY <1>0, <1>1 DEF LiveTimers
  <1>7. x \notin LiveTimers'
    BY <1>4
  <1> QED
    BY <1>4, <1>5, <1>6, <1>7

\* What a cancel does, seen from the timers.
LEMMA CancelLives ==
    ASSUME HostInv, NEW n \in Timer, CancelDelayed(n)
    PROVE  \E x \in LiveTimers :
              /\ LiveTimers' = LiveTimers \ {x}
              /\ armed' = armed \ {x}
              /\ live' = live \ {timer[x].task}
              /\ timer' = timer
  <1>1. n \in 1 .. started /\ SlotFind(timer[n].id) # 0
    BY DEF CancelDelayed
  <1>2. PICK x \in 1 .. started :
           /\ x = SlotFind(timer[n].id)
           /\ timer[x].slot \in DOMAIN slots /\ slots[timer[x].slot].timer = x
    BY <1>1, FoundInTable
  <1>3. Retire(x) /\ armed' = armed \ {x} /\ live' = live \ {timer[x].task} /\ timer' = timer
    BY <1>2 DEF CancelDelayed
  <1> QED
    BY <1>2, <1>3, RetireLives

\* What firing does: a one-shot leaves the table.
LEMMA FiredLives ==
    ASSUME HostInv, NEW x \in Timer, TimerFired(x)
    PROVE  /\ x \in LiveTimers /\ x \in armed /\ timer' = timer
           /\ timer[x].task \in Task /\ current' = timer[x].task
           /\ timer[x].repeating =>
                 /\ LiveTimers' = LiveTimers
                 /\ timer[x].period \in Delays
                 /\ timer[x].period # 0 => armed' = armed
           /\ ~timer[x].repeating =>
                 /\ LiveTimers' = LiveTimers \ {x}
                 /\ armed' = armed \ {x}
  <1>1. /\ x \in armed /\ timer' = timer /\ current' = timer[x].task
        /\ x \in 1 .. started /\ timer[x].slot \in DOMAIN slots
        /\ slots[timer[x].slot].timer = x
        /\ timer[x].task \in Task
        /\ ~timer[x].repeating => timer[x].period = 0
        /\ timer[x].repeating => timer[x].period \in Delays
    BY DEF HostInv, TypeOK, TableInv, TimerFired, Ready
  <1>2. x \in LiveTimers
    BY <1>1, LiveStarted
  <1>3. CASE timer[x].repeating
    <2>1. UNCHANGED slots
      BY <1>3 DEF TimerFired
    <2>2. timer[x].period # 0 => armed' = armed
      BY DEF TimerFired
    <2> QED
      BY <1>1, <1>2, <1>3, <2>1, <2>2, LiveKept
  <1>4. CASE ~timer[x].repeating
    <2>1. Retire(x) /\ armed' = armed \ {x}
      BY <1>1, <1>4 DEF TimerFired
    <2> QED
      BY <1>1, <1>2, <1>4, <2>1, RetireLives
  <1> QED
    BY <1>3, <1>4

-----------------------------------------------------------------------------
\* Every other step leaves the slots and the timers alone.
LEMMA OthersKeepTable ==
    ASSUME \/ UNCHANGED vars
           \/ TaskReturns \/ RunForeign \/ BatchEnd \/ LoopHead
           \/ IdlePhase \/ DrainTask \/ DrainEnd
           \/ PollWakes \/ PollPasses \/ AsyncEnd \/ ClosingPhase \/ TimersEnd
           \/ Run \/ PumpOne \/ Pump \/ BackendFd
           \/ \E t \in Task : PostTask(t)
           \/ PendingChange(1) \/ PendingChange(-1)
           \/ \E w \in Thread, t \in Task : PostFromAnyThread(w, t)
           \/ \E w \in Thread : AsyncSend(w)
    PROVE  UNCHANGED <<slots, timer, started, armed>>
  BY DEF vars, table, TaskReturns, RunForeign, BatchEnd, LoopHead, IdlePhase,
         DrainTask, DrainEnd, PollWakes, PollPasses, AsyncEnd, ClosingPhase,
         TimersEnd, Run, PumpOne, Pump, BackendFd, PostTask, PendingChange,
         PostFromAnyThread, AsyncSend

\* A timer that lives is armed, when every period is one to libuv: a zero
\* period would make a repeating timer fire once and stay in the table for
\* ever (nts_uv_post_delayed, nts_uv_timer_fired).
THEOREM TimersStayArmed == 0 \notin Delays => (Spec => []LiveTimersArmed)
  <1> SUFFICES ASSUME 0 \notin Delays
               PROVE  Spec => []LiveTimersArmed
    OBVIOUS
  <1> DEFINE Inv == HostInv /\ LiveTimersArmed
  <1>1. Init => Inv
    BY InitHost DEF Init, LiveTimersArmed, LiveTimers
  <1>2. Inv /\ [Next]_vars => Inv'
    <2> SUFFICES ASSUME HostInv, LiveTimersArmed, [Next]_vars
                 PROVE  LiveTimersArmed'
      BY HostKept
    <2>1. ASSUME UNCHANGED <<slots, timer, started, armed>>
          PROVE  LiveTimersArmed'
      BY <2>1, LiveKept DEF LiveTimersArmed
    <2>2. ASSUME NEW t \in Task, NEW ms \in Delays, NEW repeating \in BOOLEAN,
                 PostDelayed(t, ms, repeating)
          PROVE  LiveTimersArmed'
      <3>1. armed' = armed \cup {started + 1}
        BY <2>2 DEF PostDelayed
      <3> QED
        BY <2>2, <3>1, ClaimLives DEF LiveTimersArmed
    <2>3. ASSUME NEW n \in Timer, CancelDelayed(n)
          PROVE  LiveTimersArmed'
      BY <2>3, CancelLives DEF LiveTimersArmed
    <2>4. ASSUME NEW x \in Timer, TimerFired(x)
          PROVE  LiveTimersArmed'
      <3>1. CASE timer[x].repeating
        BY <2>4, <3>1, FiredLives DEF LiveTimersArmed
      <3>2. CASE ~timer[x].repeating
        BY <2>4, <3>2, FiredLives DEF LiveTimersArmed
      <3> QED
        BY <3>1, <3>2
    <2>5. CASE Shutdown
      BY <2>5 DEF Shutdown, LiveTimersArmed, LiveTimers
    <2>6. CASE Owner
      BY <2>1, <2>4, <2>6, OthersKeepTable DEF Owner
    <2>7. CASE Program
      BY <2>1, <2>2, <2>3, <2>7, OthersKeepTable DEF Program
    <2> QED
      BY <2>1, <2>5, <2>6, <2>7, OthersKeepTable DEF Next
  <1>3. Inv => LiveTimersArmed
    OBVIOUS
  <1> HIDE DEF Inv
  <1> QED
    BY <1>1, <1>2, <1>3, PTL DEF Spec

-----------------------------------------------------------------------------
(***************************************************************************)
(* How often a task is in a queue.                                         *)
(***************************************************************************)
LEMMA OccurrencesNat ==
    ASSUME NEW t, NEW S, NEW q \in Seq(S)
    PROVE  /\ IsFiniteSet({i \in DOMAIN q : q[i] = t})
           /\ Occurrences(t, q) \in Nat
           /\ Occurrences(t, q) = 0 <=> t \notin Range(q)
  <1>1. IsFiniteSet(1 .. Len(q)) /\ DOMAIN q = 1 .. Len(q)
    BY FS_Interval
  <1>2. {i \in DOMAIN q : q[i] = t} \in SUBSET (1 .. Len(q))
    BY <1>1
  <1>3. IsFiniteSet({i \in DOMAIN q : q[i] = t})
    BY <1>1, <1>2, FS_Subset
  <1>4. Occurrences(t, q) \in Nat
    BY <1>3, FS_CardinalityType DEF Occurrences
  <1>5. Occurrences(t, q) = 0 <=> {i \in DOMAIN q : q[i] = t} = {}
    BY <1>3, FS_EmptySet DEF Occurrences
  <1>6. {i \in DOMAIN q : q[i] = t} = {} <=> t \notin Range(q)
    BY DEF Range
  <1> QED
    BY <1>3, <1>4, <1>5, <1>6

LEMMA OccurrencesEmpty == \A t : Occurrences(t, <<>>) = 0
  <1> TAKE t
  <1>1. {i \in DOMAIN <<>> : <<>>[i] = t} = {}
    OBVIOUS
  <1> QED
    BY <1>1, FS_EmptySet DEF Occurrences

LEMMA OccurrencesAppend ==
    ASSUME NEW t, NEW S, NEW q \in Seq(S), NEW u \in S
    PROVE  Occurrences(t, Append(q, u)) = Occurrences(t, q) + IF t = u THEN 1 ELSE 0
  <1> DEFINE A == {i \in DOMAIN q : q[i] = t}
             B == {i \in DOMAIN Append(q, u) : Append(q, u)[i] = t}
  <1>1. /\ DOMAIN Append(q, u) = DOMAIN q \cup {Len(q) + 1}
        /\ Len(q) + 1 \notin DOMAIN q
        /\ \A i \in DOMAIN q : Append(q, u)[i] = q[i]
        /\ Append(q, u)[Len(q) + 1] = u
    OBVIOUS
  <1>2. IsFiniteSet(A) /\ Cardinality(A) \in Nat
    BY OccurrencesNat DEF Occurrences
  <1>3. CASE t = u
    <2>1. B = A \cup {Len(q) + 1} /\ Len(q) + 1 \notin A
      BY <1>1, <1>3
    <2> HIDE DEF A, B
    <2>2. Cardinality(B) = Cardinality(A) + 1
      BY <1>2, <2>1, FS_AddElement
    <2> QED
      BY <1>3, <2>2 DEF Occurrences, A, B
  <1>4. CASE t # u
    <2>1. B = A
      BY <1>1, <1>4
    <2> HIDE DEF A, B
    <2>2. Cardinality(B) = Cardinality(A) + 0
      BY <1>2, <2>1
    <2> QED
      BY <1>4, <2>2 DEF Occurrences, A, B
  <1> QED
    BY <1>3, <1>4

LEMMA OccurrencesTail ==
    ASSUME NEW t, NEW S, NEW q \in Seq(S), q # <<>>
    PROVE  /\ Head(q) \in S /\ Tail(q) \in Seq(S)
           /\ Occurrences(t, q) = Occurrences(t, Tail(q)) + IF t = Head(q) THEN 1 ELSE 0
  <1>1. PICK r \in Seq(S) : r = Tail(q)
    BY HeadTailProperties
  <1>2. /\ Head(q) = q[1] /\ Head(q) \in S /\ Len(q) \in Nat /\ Len(q) > 0
        /\ DOMAIN q = 1 .. Len(q)
        /\ DOMAIN r = 1 .. Len(q) - 1
        /\ \A i \in DOMAIN r : r[i] = q[i + 1]
    BY <1>1, HeadTailProperties
  <1> DEFINE A == {i \in DOMAIN r : r[i] = t}
             B == {i \in DOMAIN q : q[i] = t}
             f == [i \in A |-> i + 1]
  <1>3. IsFiniteSet(A) /\ Cardinality(A) \in Nat /\ IsFiniteSet(B) /\ Cardinality(B) \in Nat
    BY OccurrencesNat DEF Occurrences
  <1>4. Cardinality(B \ {1}) = Cardinality(A)
    <2>1. \A i \in A : i \in 1 .. Len(q) - 1 /\ i + 1 \in B \ {1}
      BY <1>2
    <2>2. \A i \in B \ {1} : i - 1 \in A /\ (i - 1) + 1 = i
      BY <1>2
    <2>3. f \in [A -> B \ {1}]
      BY <2>1
    <2>4. \A i \in B \ {1} : \E j \in A : f[j] = i
      BY <2>2
    <2>5. \A i, j \in A : f[i] = f[j] => i = j
      BY <2>1
    <2> HIDE DEF A, B, f
    <2>6. f \in Injection(A, B \ {1})
      BY <2>3, <2>5 DEF Injection, IsInjective
    <2>7. f \in Surjection(A, B \ {1})
      BY <2>3, <2>4 DEF Surjection
    <2> QED
      BY <1>3, <2>6, <2>7, FS_Surjection
  <1>5. 1 \in B <=> t = Head(q)
    BY <1>2
  <1> HIDE DEF A, B, f
  <1>6. Cardinality(B \ {1}) = IF 1 \in B THEN Cardinality(B) - 1 ELSE Cardinality(B)
    BY <1>3, FS_RemoveElement
  <1>7. Cardinality(B) = Cardinality(A) + IF t = Head(q) THEN 1 ELSE 0
    BY <1>3, <1>4, <1>5, <1>6
  <1> QED
    BY <1>1, <1>2, <1>7 DEF Occurrences, A, B

-----------------------------------------------------------------------------
(***************************************************************************)
(* Who holds a task.  The batch is empty but while it is run, and no task  *)
(* runs outside the loop.                                                  *)
(***************************************************************************)
LoopInv ==
    /\ batch # <<>> => phase \in {"batch", "async"}
    /\ phase = "out" => current = None

HeldBy(t) == {x \in LiveTimers : timer[x].task = t}

Holders(t) ==
    Occurrences(t, tasks) + Occurrences(t, foreign) + Occurrences(t, batch)
      + Cardinality(HeldBy(t))

Runs(t) == t = current /\ t \notin TimerTasks

Owned(t) ==
    IF t \in live THEN Holders(t) + (IF Runs(t) THEN 1 ELSE 0) = 1
                  ELSE Holders(t) = 0

LEMMA OwnershipByTask == TaskOwnership <=> \A t \in Task : Owned(t)
  BY DEF TaskOwnership, Owned, Holders, HeldBy, Runs

LEMMA InitLoop == Init => LoopInv
  BY DEF Init, LoopInv

LEMMA LoopKept ==
    ASSUME HostInv, LoopInv, [Next]_vars
    PROVE  LoopInv'
  <1>1. CASE UNCHANGED <<phase, batch, current>>
    BY <1>1 DEF LoopInv
  <1>2. CASE Owner
    <2>1. CASE TaskReturns
      BY <2>1 DEF TaskReturns, LoopInv, loop
    <2>2. CASE RunForeign
      BY <2>2 DEF RunForeign, Loop, LoopInv
    <2>3. CASE BatchEnd
      BY <2>3 DEF BatchEnd, Loop, Return, LoopInv
    <2>4. CASE LoopHead \/ TimersEnd
      BY <2>4 DEF LoopHead, TimersEnd, Loop, LoopEnd, Return, LoopInv
    <2>5. CASE IdlePhase \/ DrainTask \/ DrainEnd \/ PollPasses \/ ClosingPhase
      BY <2>5 DEF IdlePhase, DrainTask, DrainEnd, PollPasses, ClosingPhase, Loop, LoopInv
    <2>6. CASE PollWakes \/ AsyncEnd
      BY <2>6 DEF PollWakes, AsyncEnd, Loop, LoopInv
    <2>7. CASE \E x \in Timer : TimerFired(x)
      BY <2>7 DEF TimerFired, Loop, LoopInv
    <2> QED
      BY <1>2, <2>1, <2>2, <2>3, <2>4, <2>5, <2>6, <2>7 DEF Owner
  <1>3. CASE Program
    <2>1. UNCHANGED <<phase, batch, current>>
      BY <1>3 DEF Program, PostTask, PostDelayed, CancelDelayed, PendingChange, loop
    <2> QED
      BY <1>1, <2>1
  <1>4. CASE Run \/ PumpOne \/ Pump \/ BackendFd
    BY <1>4 DEF Run, PumpOne, Pump, BackendFd, Outside, LoopInv
  <1>5. CASE \/ \E w \in Thread, t \in Task : PostFromAnyThread(w, t)
             \/ \E w \in Thread : AsyncSend(w)
             \/ Shutdown
             \/ UNCHANGED vars
    <2>1. UNCHANGED <<phase, batch, current>>
      BY <1>5 DEF PostFromAnyThread, AsyncSend, Shutdown, vars, loop
    <2> QED
      BY <1>1, <2>1
  <1> QED
    BY <1>2, <1>3, <1>4, <1>5 DEF Next

LEMMA HoldersNat ==
    ASSUME HostInv, NEW t
    PROVE  /\ Occurrences(t, tasks) \in Nat /\ Occurrences(t, foreign) \in Nat
           /\ Occurrences(t, batch) \in Nat
           /\ IsFiniteSet(HeldBy(t)) /\ Cardinality(HeldBy(t)) \in Nat
           /\ Cardinality(HeldBy(t)) = 0 <=> t \notin TimerTasks
           /\ Occurrences(t, tasks) = 0 <=> t \notin Range(tasks)
           /\ Occurrences(t, foreign) = 0 <=> t \notin Range(foreign)
  <1>1. /\ tasks \in Seq(Task) /\ foreign \in Seq(Task) /\ batch \in Seq(Task)
        /\ started \in Nat
    BY UvHostAssumption DEF HostInv, TypeOK
  <1>2. HeldBy(t) \in SUBSET (1 .. started) /\ IsFiniteSet(1 .. started)
    BY <1>1, LiveStarted, FS_Interval DEF HeldBy
  <1>3. IsFiniteSet(HeldBy(t)) /\ Cardinality(HeldBy(t)) \in Nat
    BY <1>2, FS_Subset, FS_CardinalityType
  <1>4. Cardinality(HeldBy(t)) = 0 <=> HeldBy(t) = {}
    BY <1>3, FS_EmptySet
  <1>5. HeldBy(t) = {} <=> t \notin TimerTasks
    BY DEF HeldBy, TimerTasks
  <1> QED
    BY <1>1, <1>3, <1>4, <1>5, OccurrencesNat

LEMMA HeldKept ==
    ASSUME UNCHANGED <<slots, timer>>, NEW t
    PROVE  HeldBy(t)' = HeldBy(t) /\ (t \in TimerTasks)' = (t \in TimerTasks)
  BY LiveKept DEF HeldBy, TimerTasks

LEMMA HeldTasks ==
    ASSUME NEW t
    PROVE  /\ t \in TimerTasks <=> HeldBy(t) # {}
           /\ (t \in TimerTasks)' <=> HeldBy(t)' # {}
           /\ HeldBy(t)' = HeldBy(t) => (t \in TimerTasks)' = (t \in TimerTasks)
  <1>1. t \in TimerTasks <=> HeldBy(t) # {}
    BY DEF HeldBy, TimerTasks
  <1>2. (t \in TimerTasks)' <=> HeldBy(t)' # {}
    BY DEF HeldBy, TimerTasks
  <1> QED
    BY <1>1, <1>2

\* A timer more: its task has a holder more.
LEMMA HeldMore ==
    ASSUME HostInv, NEW u \in Task, NEW ms \in Delays, NEW repeating \in BOOLEAN,
           PostDelayed(u, ms, repeating), NEW t
    PROVE  /\ Cardinality(HeldBy(t)') = Cardinality(HeldBy(t)) + IF t = u THEN 1 ELSE 0
           /\ t # u => HeldBy(t)' = HeldBy(t)
  <1>1. /\ LiveTimers' = LiveTimers \cup {started + 1}
        /\ started + 1 \notin LiveTimers
        /\ \A x \in LiveTimers : timer'[x] = timer[x]
        /\ timer'[started + 1].task = u
    BY ClaimLives, LiveStarted
  <1>2. IsFiniteSet(HeldBy(t)) /\ Cardinality(HeldBy(t)) \in Nat
    BY HoldersNat
  <1>3. CASE t = u
    <2>1. HeldBy(t)' = HeldBy(t) \cup {started + 1} /\ started + 1 \notin HeldBy(t)
      BY <1>1, <1>3 DEF HeldBy
    <2>2. Cardinality(HeldBy(t)') = Cardinality(HeldBy(t)) + 1
      BY <1>2, <2>1, FS_AddElement
    <2> QED
      BY <1>3, <2>2
  <1>4. CASE t # u
    <2>1. HeldBy(t)' = HeldBy(t)
      BY <1>1, <1>4 DEF HeldBy
    <2>2. Cardinality(HeldBy(t)') = Cardinality(HeldBy(t)) + 0
      BY <1>2, <2>1
    <2> QED
      BY <1>4, <2>1, <2>2
  <1> QED
    BY <1>3, <1>4

\* A timer less: its task has a holder less.
LEMMA HeldLess ==
    ASSUME HostInv, NEW x \in LiveTimers, LiveTimers' = LiveTimers \ {x},
           timer' = timer, NEW t
    PROVE  /\ Cardinality(HeldBy(t)) = Cardinality(HeldBy(t)') + IF t = timer[x].task THEN 1 ELSE 0
           /\ t # timer[x].task => HeldBy(t)' = HeldBy(t)
           /\ Cardinality(HeldBy(t)') \in Nat
  <1>2. IsFiniteSet(HeldBy(t)) /\ Cardinality(HeldBy(t)) \in Nat
    BY HoldersNat
  <1>3. CASE t = timer[x].task
    <2>1. HeldBy(t)' = HeldBy(t) \ {x} /\ x \in HeldBy(t)
      BY <1>3 DEF HeldBy
    <2>2. Cardinality(HeldBy(t)') = Cardinality(HeldBy(t)) - 1
      BY <1>2, <2>1, FS_RemoveElement
    <2>3. Cardinality(HeldBy(t)) # 0
      BY <1>2, <2>1, FS_EmptySet
    <2> QED
      BY <1>2, <1>3, <2>2, <2>3
  <1>4. CASE t # timer[x].task
    <2>1. HeldBy(t)' = HeldBy(t)
      BY <1>4 DEF HeldBy
    <2>2. Cardinality(HeldBy(t)') = Cardinality(HeldBy(t)) + 0
      BY <1>2, <2>1
    <2> QED
      BY <1>2, <1>4, <2>1, <2>2
  <1> QED
    BY <1>3, <1>4

-----------------------------------------------------------------------------
\* The steps that move no task.
LEMMA OwnedStill ==
    ASSUME NEW t, Owned(t), UNCHANGED <<live, tasks, foreign, batch, slots, timer, current>>
    PROVE  Owned(t)'
  <1>1. HeldBy(t)' = HeldBy(t) /\ (t \in TimerTasks)' = (t \in TimerTasks)
    BY HeldKept
  <1> QED
    BY <1>1 DEF Owned, Holders, Runs

\* nts_uv_run_foreign takes the queue when it has run the batch before.
LEMMA OwnedByBatch ==
    ASSUME HostInv, NEW t, Owned(t), batch = <<>>, TakeForeign,
           UNCHANGED <<live, tasks, slots, timer, current>>
    PROVE  Owned(t)'
  <1>1. HeldBy(t)' = HeldBy(t) /\ (t \in TimerTasks)' = (t \in TimerTasks)
    BY HeldKept
  <1>2. /\ Occurrences(t, batch) = 0 /\ Occurrences(t, foreign') = 0
        /\ batch' = foreign /\ Occurrences(t, foreign) \in Nat
        /\ Occurrences(t, tasks) \in Nat
        /\ Cardinality(HeldBy(t)) \in Nat
    BY OccurrencesEmpty, HoldersNat DEF TakeForeign
  <1>3. Holders(t)' = Holders(t)
    BY <1>1, <1>2 DEF Holders
  <1> QED
    BY <1>1, <1>3 DEF Owned, Runs

LEMMA OwnedPosted ==
    ASSUME HostInv, NEW t \in Task, Owned(t), NEW u \in Task,
           \/ PostTask(u)
           \/ \E w \in Thread : PostFromAnyThread(w, u)
           \/ \E ms \in Delays, repeating \in BOOLEAN : PostDelayed(u, ms, repeating)
    PROVE  Owned(t)'
  <1>0. /\ tasks \in Seq(Task) /\ foreign \in Seq(Task)
        /\ Fresh(u) /\ live' = live \cup {u} /\ UNCHANGED <<batch, current>>
    BY DEF HostInv, TypeOK, PostTask, PostFromAnyThread, PostDelayed, loop
  <1>1. /\ Occurrences(t, tasks) \in Nat /\ Occurrences(t, foreign) \in Nat
        /\ Occurrences(t, batch) \in Nat /\ Cardinality(HeldBy(t)) \in Nat
    BY HoldersNat
  <1>2. Holders(t)' = Holders(t) + IF t = u THEN 1 ELSE 0
    <2>1. CASE PostTask(u)
      <3>1. tasks' = Append(tasks, u) /\ UNCHANGED <<foreign, slots, timer>>
        BY <2>1 DEF PostTask, table
      <3>2. Occurrences(t, tasks') = Occurrences(t, tasks) + IF t = u THEN 1 ELSE 0
        BY <1>0, <3>1, OccurrencesAppend
      <3>3. HeldBy(t)' = HeldBy(t)
        BY <3>1, HeldKept
      <3> QED
        BY <1>0, <1>1, <3>1, <3>2, <3>3 DEF Holders
    <2>2. ASSUME NEW w \in Thread, PostFromAnyThread(w, u)
          PROVE  Holders(t)' = Holders(t) + IF t = u THEN 1 ELSE 0
      <3>1. foreign' = Append(foreign, u) /\ UNCHANGED <<tasks, slots, timer>>
        BY <2>2 DEF PostFromAnyThread, table
      <3>2. Occurrences(t, foreign') = Occurrences(t, foreign) + IF t = u THEN 1 ELSE 0
        BY <1>0, <3>1, OccurrencesAppend
      <3>3. HeldBy(t)' = HeldBy(t)
        BY <3>1, HeldKept
      <3> QED
        BY <1>0, <1>1, <3>1, <3>2, <3>3 DEF Holders
    <2>3. ASSUME NEW ms \in Delays, NEW repeating \in BOOLEAN, PostDelayed(u, ms, repeating)
          PROVE  Holders(t)' = Holders(t) + IF t = u THEN 1 ELSE 0
      <3>1. UNCHANGED <<tasks, foreign>>
        BY <2>3 DEF PostDelayed, queues
      <3>2. Cardinality(HeldBy(t)') = Cardinality(HeldBy(t)) + IF t = u THEN 1 ELSE 0
        BY <2>3, HeldMore
      <3> QED
        BY <1>0, <1>1, <3>1, <3>2 DEF Holders
    <2> QED
      BY <2>1, <2>2, <2>3
  <1>3. Holders(t) \in Nat
    BY <1>1 DEF Holders
  <1>4. CASE t = u
    <2>1. t \notin live /\ t # current /\ Holders(t) = 0 /\ t \in live'
      BY <1>0, <1>4 DEF Fresh, Owned
    <2>2. ~Runs(t)' /\ Holders(t)' = 1
      BY <1>0, <1>2, <1>4, <2>1 DEF Runs
    <2> QED
      BY <2>1, <2>2 DEF Owned
  <1>5. CASE t # u
    <2>1. Holders(t)' = Holders(t) /\ (t \in live') = (t \in live)
      BY <1>0, <1>2, <1>3, <1>5
    <2>2. (t \in TimerTasks)' = (t \in TimerTasks)
      <3>1. CASE UNCHANGED <<slots, timer>>
        BY <3>1, HeldKept
      <3>2. ASSUME NEW ms \in Delays, NEW repeating \in BOOLEAN, PostDelayed(u, ms, repeating)
            PROVE  HeldBy(t)' = HeldBy(t)
        BY <1>5, <3>2, HeldMore
      <3>3. HeldBy(t)' = HeldBy(t) => (t \in TimerTasks)' = (t \in TimerTasks)
        BY HeldTasks
      <3> QED
        BY <3>1, <3>2, <3>3 DEF PostTask, PostFromAnyThread, table
    <2> QED
      BY <1>0, <2>1, <2>2 DEF Owned, Runs
  <1> QED
    BY <1>4, <1>5

LEMMA OwnedReturned ==
    ASSUME HostInv, NEW t \in Task, Owned(t), TaskReturns
    PROVE  Owned(t)'
  <1>0. /\ UNCHANGED <<tasks, foreign, batch, slots, timer>>
        /\ current' = None /\ t # None
        /\ live' = IF current \in TimerTasks THEN live ELSE live \ {current}
    BY UvHostAssumption DEF TaskReturns, queues, table, loop
  <1>1. HeldBy(t)' = HeldBy(t) /\ (t \in TimerTasks)' = (t \in TimerTasks)
    BY <1>0, HeldKept
  <1>2. Holders(t)' = Holders(t) /\ ~Runs(t)'
    BY <1>0, <1>1 DEF Holders, Runs
  <1>3. Holders(t) \in Nat
    BY HoldersNat DEF Holders
  <1>4. CASE t = current /\ t \notin TimerTasks
    <2>1. t \notin live' /\ Holders(t) = 0
      BY <1>0, <1>3, <1>4 DEF Owned, Runs
    <2> QED
      BY <1>2, <2>1 DEF Owned
  <1>5. CASE ~(t = current /\ t \notin TimerTasks)
    <2>1. (t \in live') = (t \in live) /\ ~Runs(t)
      BY <1>0, <1>5 DEF Runs
    <2> QED
      BY <1>2, <2>1 DEF Owned
  <1> QED
    BY <1>4, <1>5

\* A task leaves its only holder to be run.
LEMMA OwnedTaken ==
    ASSUME NEW t, Owned(t), current = None, t # None, NEW u,
           current' = u, live' = live,
           Holders(t) \in Nat, Holders(t)' \in Nat,
           Holders(t) = Holders(t)' + IF t = u THEN 1 ELSE 0,
           t = u => (t \notin TimerTasks)'
    PROVE  Owned(t)'
  <1>1. ~Runs(t)
    BY DEF Runs
  <1>2. CASE t = u
    <2>1. Holders(t) = Holders(t)' + 1 /\ Runs(t)'
      BY <1>2 DEF Runs
    <2> QED
      BY <1>1, <2>1 DEF Owned
  <1>3. CASE t # u
    <2>1. Holders(t) = Holders(t)' /\ ~Runs(t)'
      BY <1>3 DEF Runs
    <2> QED
      BY <1>1, <2>1 DEF Owned
  <1> QED
    BY <1>2, <1>3

\* What is in a queue is live, has no timer and no second place.
LEMMA QueuedNotTimer ==
    ASSUME HostInv, NEW t, Owned(t),
           Occurrences(t, tasks) + Occurrences(t, foreign) + Occurrences(t, batch) > 0
    PROVE  t \notin TimerTasks
  <1>1. /\ Occurrences(t, tasks) \in Nat /\ Occurrences(t, foreign) \in Nat
        /\ Occurrences(t, batch) \in Nat
        /\ Cardinality(HeldBy(t)) \in Nat
        /\ Cardinality(HeldBy(t)) = 0 <=> t \notin TimerTasks
    BY HoldersNat
  <1>2. Holders(t) <= 1
    BY <1>1 DEF Owned, Holders
  <1> QED
    BY <1>1, <1>2 DEF Holders

LEMMA OwnedDequeued ==
    ASSUME HostInv, NEW t \in Task, Owned(t), RunForeign \/ DrainTask
    PROVE  Owned(t)'
  <1>0. /\ tasks \in Seq(Task) /\ foreign \in Seq(Task) /\ batch \in Seq(Task)
        /\ current = None /\ t # None
        /\ UNCHANGED <<live, foreign, slots, timer>>
    BY UvHostAssumption DEF HostInv, TypeOK, RunForeign, DrainTask, Loop, queues, table
  <1>1. HeldBy(t)' = HeldBy(t) /\ (t \in TimerTasks)' = (t \in TimerTasks)
    BY <1>0, HeldKept
  <1>2. /\ Occurrences(t, tasks) \in Nat /\ Occurrences(t, foreign) \in Nat
        /\ Occurrences(t, batch) \in Nat /\ Cardinality(HeldBy(t)) \in Nat
    BY HoldersNat
  <1>3. Holders(t) \in Nat
    BY <1>2 DEF Holders
  <1>4. CASE RunForeign
    <2>1. batch # <<>> /\ current' = Head(batch) /\ batch' = Tail(batch) /\ UNCHANGED tasks
      BY <1>4 DEF RunForeign, queues
    <2>2. /\ batch' \in Seq(Task)
          /\ Occurrences(t, batch) = Occurrences(t, batch') + IF t = current' THEN 1 ELSE 0
      BY <1>0, <2>1, OccurrencesTail
    <2>3. Occurrences(t, batch') \in Nat
      BY <2>2, OccurrencesNat
    <2>4. /\ Holders(t)' \in Nat
          /\ Holders(t) = Holders(t)' + IF t = current' THEN 1 ELSE 0
      <3>1. PICK d \in Nat : d = IF t = current' THEN 1 ELSE 0
        OBVIOUS
      <3>2. Holders(t)' = Occurrences(t, tasks) + Occurrences(t, foreign)
                            + Occurrences(t, batch') + Cardinality(HeldBy(t))
        BY <1>0, <1>1, <2>1 DEF Holders
      <3>3. Holders(t) = Occurrences(t, tasks) + Occurrences(t, foreign)
                           + Occurrences(t, batch) + Cardinality(HeldBy(t))
        BY DEF Holders
      <3>4. Occurrences(t, batch) = Occurrences(t, batch') + d
        BY <2>2, <3>1
      <3> QED
        BY <1>2, <2>3, <3>1, <3>2, <3>3, <3>4
    <2>5. t = current' => t \notin TimerTasks
      <3> SUFFICES ASSUME t = current'
                   PROVE  t \notin TimerTasks
        OBVIOUS
      <3>1. Occurrences(t, tasks) + Occurrences(t, foreign) + Occurrences(t, batch) > 0
        BY <1>2, <2>2, <2>3
      <3> QED
        BY <3>1, QueuedNotTimer
    <2> QED
      BY <1>0, <1>1, <1>3, <2>4, <2>5, OwnedTaken
  <1>5. CASE DrainTask
    <2>1. tasks # <<>> /\ current' = Head(tasks) /\ tasks' = Tail(tasks) /\ UNCHANGED batch
      BY <1>5 DEF DrainTask, Draining
    <2>2. /\ tasks' \in Seq(Task)
          /\ Occurrences(t, tasks) = Occurrences(t, tasks') + IF t = current' THEN 1 ELSE 0
      BY <1>0, <2>1, OccurrencesTail
    <2>3. Occurrences(t, tasks') \in Nat
      BY <2>2, OccurrencesNat
    <2>4. /\ Holders(t)' \in Nat
          /\ Holders(t) = Holders(t)' + IF t = current' THEN 1 ELSE 0
      <3>1. PICK d \in Nat : d = IF t = current' THEN 1 ELSE 0
        OBVIOUS
      <3>2. Holders(t)' = Occurrences(t, tasks') + Occurrences(t, foreign)
                            + Occurrences(t, batch) + Cardinality(HeldBy(t))
        BY <1>0, <1>1, <2>1 DEF Holders
      <3>3. Holders(t) = Occurrences(t, tasks) + Occurrences(t, foreign)
                           + Occurrences(t, batch) + Cardinality(HeldBy(t))
        BY DEF Holders
      <3>4. Occurrences(t, tasks) = Occurrences(t, tasks') + d
        BY <2>2, <3>1
      <3> QED
        BY <1>2, <2>3, <3>1, <3>2, <3>3, <3>4
    <2>5. t = current' => t \notin TimerTasks
      <3> SUFFICES ASSUME t = current'
                   PROVE  t \notin TimerTasks
        OBVIOUS
      <3>1. Occurrences(t, tasks) + Occurrences(t, foreign) + Occurrences(t, batch) > 0
        BY <1>2, <2>2, <2>3
      <3> QED
        BY <3>1, QueuedNotTimer
    <2> QED
      BY <1>0, <1>1, <1>3, <2>4, <2>5, OwnedTaken
  <1> QED
    BY <1>4, <1>5

LEMMA OwnedCancelled ==
    ASSUME HostInv, NEW t \in Task, Owned(t), NEW n \in Timer, CancelDelayed(n)
    PROVE  Owned(t)'
  <1>1. PICK x \in LiveTimers :
           /\ LiveTimers' = LiveTimers \ {x}
           /\ live' = live \ {timer[x].task}
           /\ timer' = timer
    BY CancelLives
  <1>2. UNCHANGED <<tasks, foreign, batch, current>>
    BY DEF CancelDelayed, queues, loop
  <1>3. /\ Cardinality(HeldBy(t)) = Cardinality(HeldBy(t)') + IF t = timer[x].task THEN 1 ELSE 0
        /\ t # timer[x].task => HeldBy(t)' = HeldBy(t)
        /\ Cardinality(HeldBy(t)') \in Nat
    BY <1>1, HeldLess
  <1>4. /\ Occurrences(t, tasks) \in Nat /\ Occurrences(t, foreign) \in Nat
        /\ Occurrences(t, batch) \in Nat /\ Cardinality(HeldBy(t)) \in Nat
    BY HoldersNat
  <1>5. CASE t = timer[x].task
    <2>1. Holders(t) <= 1
      BY <1>4 DEF Owned, Holders
    <2>2. Holders(t)' = 0
      BY <1>2, <1>3, <1>4, <1>5, <2>1 DEF Holders
    <2> QED
      BY <1>1, <1>5, <2>2 DEF Owned
  <1>6. CASE t # timer[x].task
    <2>1. HeldBy(t)' = HeldBy(t) /\ (t \in TimerTasks)' = (t \in TimerTasks)
      BY <1>3, <1>6, HeldTasks
    <2>2. (t \in live') = (t \in live)
      BY <1>1, <1>6
    <2> QED
      BY <1>2, <2>1, <2>2 DEF Owned, Holders, Runs
  <1> QED
    BY <1>5, <1>6

LEMMA OwnedFired ==
    ASSUME HostInv, NEW t \in Task, Owned(t), NEW x \in Timer, TimerFired(x)
    PROVE  Owned(t)'
  <1>0. /\ current = None /\ t # None /\ live' = live
        /\ UNCHANGED <<tasks, foreign, batch>>
        /\ x \in LiveTimers /\ current' = timer[x].task /\ timer' = timer
    BY UvHostAssumption, FiredLives DEF TimerFired, Loop, queues
  <1>1. /\ Occurrences(t, tasks) \in Nat /\ Occurrences(t, foreign) \in Nat
        /\ Occurrences(t, batch) \in Nat /\ Cardinality(HeldBy(t)) \in Nat
    BY HoldersNat
  <1>2. Holders(t) \in Nat
    BY <1>1 DEF Holders
  <1>3. CASE timer[x].repeating
    <2>1. UNCHANGED slots
      BY <1>3 DEF TimerFired
    <2>2. HeldBy(t)' = HeldBy(t) /\ (t \in TimerTasks)' = (t \in TimerTasks)
      BY <1>0, <2>1, HeldKept
    <2>3. timer[x].task \in TimerTasks
      BY <1>0 DEF TimerTasks
    <2>4. ~Runs(t) /\ ~Runs(t)'
      BY <1>0, <2>2, <2>3 DEF Runs
    <2> QED
      BY <1>0, <2>2, <2>4 DEF Owned, Holders
  <1>4. CASE ~timer[x].repeating
    <2>1. LiveTimers' = LiveTimers \ {x}
      BY <1>4, FiredLives
    <2>2. /\ Cardinality(HeldBy(t)) = Cardinality(HeldBy(t)') + IF t = timer[x].task THEN 1 ELSE 0
          /\ Cardinality(HeldBy(t)') \in Nat
      BY <1>0, <2>1, HeldLess
    <2>3. /\ Holders(t)' \in Nat
          /\ Holders(t) = Holders(t)' + IF t = timer[x].task THEN 1 ELSE 0
      BY <1>0, <1>1, <2>2 DEF Holders
    <2>4. t = timer[x].task => (t \notin TimerTasks)'
      <3> SUFFICES ASSUME t = timer[x].task
                   PROVE  (t \notin TimerTasks)'
        OBVIOUS
      <3>1. Holders(t) <= 1
        BY <1>1 DEF Owned, Holders
      <3>2. Cardinality(HeldBy(t)') = 0
        BY <1>1, <2>2, <3>1 DEF Holders
      <3>3. HeldBy(t)' \subseteq HeldBy(t) /\ IsFiniteSet(HeldBy(t))
        BY <1>0, <2>1, HoldersNat DEF HeldBy
      <3>4. HeldBy(t)' = {}
        BY <3>2, <3>3, FS_Subset, FS_EmptySet
      <3> QED
        BY <3>4, HeldTasks
    <2> QED
      BY <1>0, <1>2, <2>3, <2>4, OwnedTaken
  <1> QED
    BY <1>3, <1>4

LEMMA OwnedShutdown ==
    ASSUME HostInv, LoopInv, NEW t \in Task, Owned(t), Shutdown
    PROVE  Owned(t)'
  <1>0. /\ tasks' = <<>> /\ foreign' = <<>> /\ slots' = <<>>
        /\ batch = <<>> /\ batch' = <<>> /\ current = None /\ t # None
        /\ live' = live \ DroppedAtShutdown
    BY UvHostAssumption DEF Shutdown, Outside, LoopInv
  <1>1. /\ Occurrences(t, tasks) \in Nat /\ Occurrences(t, foreign) \in Nat
        /\ Cardinality(HeldBy(t)) \in Nat
        /\ Cardinality(HeldBy(t)) = 0 <=> t \notin TimerTasks
        /\ Occurrences(t, tasks) = 0 <=> t \notin Range(tasks)
        /\ Occurrences(t, foreign) = 0 <=> t \notin Range(foreign)
    BY HoldersNat
  <1>2. Holders(t)' = 0
    <2>1. HeldBy(t)' = {}
      BY <1>0 DEF HeldBy, LiveTimers
    <2>2. /\ Cardinality(HeldBy(t)') = 0
          /\ Occurrences(t, <<>>) = 0
      BY <2>1, FS_EmptySet, OccurrencesEmpty
    <2> QED
      BY <1>0, <2>2 DEF Holders
  <1>3. t \notin live'
    <2>1. CASE t \in live
      <3>1. Holders(t) = 1 /\ Occurrences(t, batch) = 0
        <4>1. ~Runs(t) /\ Occurrences(t, batch) = 0
          BY <1>0, OccurrencesEmpty DEF Runs
        <4>2. Holders(t) + 0 = 1
          BY <2>1, <4>1 DEF Owned
        <4>3. Holders(t) \in Nat
          BY <1>1, <4>1 DEF Holders
        <4> QED
          BY <4>1, <4>2, <4>3
      <3>2. t \in TimerTasks \/ t \in Range(tasks) \/ t \in Range(foreign)
        BY <1>1, <3>1 DEF Holders
      <3> QED
        BY <1>0, <3>2 DEF DroppedAtShutdown
    <2>2. CASE t \notin live
      BY <1>0, <2>2
    <2> QED
      BY <2>1, <2>2
  <1> QED
    BY <1>2, <1>3 DEF Owned

LEMMA OwnedKept ==
    ASSUME HostInv, LoopInv, NEW t \in Task, Owned(t), [Next]_vars
    PROVE  Owned(t)'
  <1>1. CASE \/ UNCHANGED vars \/ BatchEnd \/ LoopHead \/ IdlePhase \/ DrainEnd
             \/ PollPasses \/ AsyncEnd \/ ClosingPhase \/ TimersEnd \/ BackendFd
             \/ PendingChange(1) \/ PendingChange(-1)
             \/ \E w \in Thread : AsyncSend(w)
    <2>1. UNCHANGED <<live, tasks, foreign, batch, slots, timer, current>>
      BY <1>1 DEF vars, queues, table, loop, BatchEnd, LoopHead, IdlePhase,
                  DrainEnd, PollPasses, AsyncEnd, ClosingPhase, TimersEnd,
                  BackendFd, PendingChange, AsyncSend
    <2> QED
      BY <2>1, OwnedStill
  <1>2. CASE Run \/ PumpOne \/ Pump \/ PollWakes
    <2>1. UNCHANGED <<live, tasks, slots, timer, current>> /\ batch = <<>>
      BY <1>2 DEF table, Run, PumpOne, Pump, PollWakes, Outside, Loop, LoopInv
    <2>2. TakeForeign \/ UNCHANGED <<batch, foreign>>
      BY <1>2 DEF Run, PumpOne, Pump, PollWakes
    <2> QED
      BY <2>1, <2>2, OwnedByBatch, OwnedStill
  <1>3. CASE Owner
    BY <1>1, <1>2, <1>3, OwnedReturned, OwnedDequeued, OwnedFired DEF Owner
  <1>4. CASE Program
    BY <1>1, <1>4, OwnedPosted, OwnedCancelled DEF Program
  <1> QED
    BY <1>1, <1>2, <1>3, <1>4, OwnedPosted, OwnedShutdown DEF Next

\* A task is held by exactly one of a queue, the batch, a timer and the loop
\* that runs it, until it has run or is dropped, and by none afterwards: it is
\* never run twice, run after it was dropped, or forgotten, whoever posts,
\* cancels, drives the loop or shuts it down (nts_uv_run_foreign,
\* nts_uv_drain_tasks, nts_uv_cancel_delayed, nts_uv_timer_fired,
\* nts_uv_host_shutdown).
THEOREM TasksOwned == Spec => []TaskOwnership
  <1> DEFINE Inv == HostInv /\ LoopInv /\ TaskOwnership
  <1>1. Init => Inv
    <2> SUFFICES ASSUME Init
                 PROVE  TaskOwnership
      BY InitHost, InitLoop
    <2> SUFFICES ASSUME NEW t \in Task
                 PROVE  Owned(t)
      BY OwnershipByTask
    <2>1. /\ tasks = <<>> /\ foreign = <<>> /\ batch = <<>>
          /\ t \notin live /\ HeldBy(t) = {}
      BY DEF Init, HeldBy, LiveTimers
    <2>2. Holders(t) = 0
      BY <2>1, OccurrencesEmpty, FS_EmptySet DEF Holders
    <2> QED
      BY <2>1, <2>2 DEF Owned
  <1>2. Inv /\ [Next]_vars => Inv'
    <2> SUFFICES ASSUME HostInv, LoopInv, TaskOwnership, [Next]_vars
                 PROVE  TaskOwnership'
      BY HostKept, LoopKept
    <2>1. \A t \in Task : Owned(t)'
      BY OwnershipByTask, OwnedKept
    <2> QED
      BY <2>1 DEF TaskOwnership, Owned, Holders, HeldBy, Runs
  <1>3. Inv => TaskOwnership
    OBVIOUS
  <1> HIDE DEF Inv
  <1> QED
    BY <1>1, <1>2, <1>3, PTL DEF Spec

-----------------------------------------------------------------------------
(***************************************************************************)
(* The free list is exact: following the links from freeSlot spells fl.    *)
(***************************************************************************)
LEMMA LeastOfNat ==
    ASSUME NEW T \in SUBSET Nat, T # {}
    PROVE  \E n \in T : \A m \in T : n <= m
  <1>1. PICK n \in T : \A m \in T : ~(<<m, n>> \in OpToRel(<, Nat))
    BY WFMin, NatLessThanWellFounded
  <1>2. \A m \in T : ~(m < n)
    BY <1>1 DEF OpToRel
  <1> QED
    BY <1>2

LEMMA FreeListSpelled == HostInv => FreeListExact
  <1> SUFFICES ASSUME HostInv
               PROVE  FreeListExact
    OBVIOUS
  <1> DEFINE free == {i \in DOMAIN slots : slots[i].timer = 0}
             size == Cardinality(free)
             at[k \in 0 .. size] ==
                 IF k = 0 THEN freeSlot
                 ELSE IF at[k - 1] = 0 THEN 0 ELSE slots[at[k - 1]].next
  <1>1. PICK n \in Nat : \E fl \in [1 .. n -> DOMAIN slots] : Linked(n, fl)
    BY DEF HostInv, FreeInv
  <1>2. PICK fl \in [1 .. n -> DOMAIN slots] : Linked(n, fl)
    BY <1>1
  <1>3. /\ \A i \in DOMAIN slots : i \in 1 .. Len(slots) /\ i # 0
        /\ \A k \in 1 .. n : fl[k] # 0 /\ fl[k] \in free
    <2>1. \A i \in DOMAIN slots : i \in 1 .. Len(slots) /\ i # 0
      BY DEF HostInv, TypeOK
    <2> HIDE DEF at
    <2>2. \A k \in 1 .. n : fl[k] \in DOMAIN slots /\ slots[fl[k]].timer = 0
      BY <1>2 DEF Linked
    <2> QED
      BY <2>1, <2>2
  <1>4. size = n
    <2>1. fl \in Surjection(1 .. n, free) /\ fl \in Injection(1 .. n, free)
      BY <1>2, <1>3 DEF Linked, Surjection, Injection, IsInjective
    <2>2. IsFiniteSet(1 .. n) /\ Cardinality(1 .. n) = n
      BY FS_Interval
    <2> HIDE DEF free
    <2> QED
      BY <2>1, <2>2, FS_Surjection
  <1>5. \E f : f = [k \in 0 .. size |-> IF k = 0 THEN freeSlot
                                        ELSE IF f[k - 1] = 0 THEN 0 ELSE slots[f[k - 1]].next]
    <2> DEFINE g == [k \in 0 .. n |-> IF k = n THEN 0 ELSE fl[k + 1]]
    <2>1. ASSUME NEW k \in 0 .. n
          PROVE  g[k] = IF k = 0 THEN freeSlot
                        ELSE IF g[k - 1] = 0 THEN 0 ELSE slots[g[k - 1]].next
      <3>1. CASE k = 0
        BY <1>2, <3>1 DEF Linked
      <3>2. CASE k # 0
        <4>1. k \in 1 .. n /\ g[k - 1] = fl[k] /\ fl[k] # 0
          BY <1>3, <3>2
        <4>2. slots[fl[k]].next = IF k = n THEN 0 ELSE fl[k + 1]
          BY <1>2, <4>1 DEF Linked
        <4> QED
          BY <3>2, <4>1, <4>2
      <3> QED
        BY <3>1, <3>2
    <2>2. g = [k \in 0 .. n |-> IF k = 0 THEN freeSlot
                                ELSE IF g[k - 1] = 0 THEN 0 ELSE slots[g[k - 1]].next]
      <3>1. DOMAIN g = 0 .. n /\ g = [k \in 0 .. n |-> g[k]]
        OBVIOUS
      <3> HIDE DEF g
      <3> QED
        BY <2>1, <3>1
    <2> HIDE DEF g
    <2> QED
      BY <1>4, <2>2
  <1>6. at = [k \in 0 .. size |-> IF k = 0 THEN freeSlot
                                  ELSE IF at[k - 1] = 0 THEN 0 ELSE slots[at[k - 1]].next]
    <2> HIDE DEF size
    <2> QED
      BY <1>5, Zenon DEF at
  <1> HIDE DEF at, size
  <1>7. \A k \in 0 .. n : at[k] = IF k = n THEN 0 ELSE fl[k + 1]
    <2> DEFINE bad == {k \in 0 .. n : at[k] # IF k = n THEN 0 ELSE fl[k + 1]}
    <2> SUFFICES ASSUME bad # {}
                 PROVE  FALSE
      OBVIOUS
    <2>1. PICK k \in bad : \A m \in bad : k <= m
      <3>1. bad \in SUBSET Nat
        OBVIOUS
      <3> HIDE DEF bad
      <3> QED
        BY <3>1, LeastOfNat
    <2>2. k \in 0 .. n /\ at[k] # IF k = n THEN 0 ELSE fl[k + 1]
      OBVIOUS
    <2>3. CASE k = 0
      <3>1. at[0] = freeSlot
        BY <1>4, <1>6
      <3> QED
        BY <1>2, <2>2, <2>3, <3>1 DEF Linked
    <2>4. CASE k # 0
      <3>1. k - 1 \in 0 .. n /\ k - 1 \notin bad /\ k - 1 # n /\ k \in 1 .. n
        BY <2>1, <2>2, <2>4
      <3>2. at[k - 1] = fl[k]
        BY <3>1
      <3>3. at[k] = IF at[k - 1] = 0 THEN 0 ELSE slots[at[k - 1]].next
        BY <1>4, <1>6, <2>2, <2>4
      <3>4. at[k] = slots[fl[k]].next
        BY <1>3, <3>1, <3>2, <3>3
      <3>5. slots[fl[k]].next = IF k = n THEN 0 ELSE fl[k + 1]
        BY <1>2, <3>1 DEF Linked
      <3> QED
        BY <2>2, <3>4, <3>5
    <2> QED
      BY <2>3, <2>4
  <1>8. {at[k] : k \in 0 .. size - 1} = free
    <2>1. ASSUME NEW k \in 0 .. n - 1
          PROVE  at[k] \in free
      BY <1>3, <1>7, <2>1
    <2>2. ASSUME NEW i \in free
          PROVE  \E k \in 0 .. n - 1 : at[k] = i
      <3>1. PICK k \in 1 .. n : fl[k] = i
        BY <1>2, <2>2 DEF Linked
      <3>2. k - 1 \in 0 .. n - 1 /\ at[k - 1] = i
        BY <1>7, <3>1
      <3> QED
        BY <3>2
    <2> HIDE DEF free
    <2> QED
      BY <1>4, <2>1, <2>2
  <1>9. at[size] = 0
    BY <1>4, <1>7
  <1> QED
    BY <1>8, <1>9 DEF FreeListExact, at, size

-----------------------------------------------------------------------------
(***************************************************************************)
(* Whom an id names.  The generation of a slot grows with every release,   *)
(* so an id that a slot gave out is older than what the slot holds now;    *)
(* the part of it an id keeps tells them apart for as long as fewer timers *)
(* were started than that part can count.                                  *)
(***************************************************************************)
Given(n, i) ==
    /\ i \in DOMAIN slots
    /\ timer[n].slot = i
    /\ timer[n].id = <<i, timer[n].id[2]>>
    /\ timer[n].id[2] \in 1 .. n
    /\ slots[i].timer = n => timer[n].id[2] = slots[i].generation
    /\ slots[i].timer # n /\ (slots[i].timer # 0 \/ started < MaxTimers) =>
          timer[n].id[2] < slots[i].generation

Aged(i) ==
    /\ slots[i].timer # 0 => slots[i].generation <= slots[i].timer
    /\ slots[i].timer = 0 /\ started < MaxTimers => slots[i].generation <= started + 1

IdInv ==
    /\ ~installed => slots = <<>>
    /\ \A i \in DOMAIN slots : Aged(i)
    /\ installed => \A n \in 1 .. started : Given(n, timer[n].slot)

LEMMA IdPosted ==
    ASSUME HostInv, IdInv, MaxTimers < MaskWrap,
           NEW t \in Task, NEW ms \in Delays, NEW repeating \in BOOLEAN,
           PostDelayed(t, ms, repeating)
    PROVE  IdInv'
  <1> USE UvHostAssumption
  <1>0. /\ TypeOK /\ TableInv /\ started < MaxTimers /\ started' = started + 1
        /\ SlotClaim(started + 1) /\ started \in Nat
        /\ slots \in Seq(SlotRecord) /\ installed /\ installed'
    BY DEF HostInv, TypeOK, PostDelayed, SlotRecord, InProgram, loop
  <1>1. started + 1 \in Timer
    BY <1>0 DEF Timer
  <1>2. PICK c \in 1 .. Len(slots') :
           /\ c = ClaimedSlot
           /\ slots' \in Seq(SlotRecord)
           /\ Len(slots) <= Len(slots')
           /\ slots'[c].timer = started + 1
           /\ c \in DOMAIN slots => /\ slots[c].timer = 0
                                    /\ slots'[c].generation = slots[c].generation
           /\ c \notin DOMAIN slots => slots'[c].generation = 1
           /\ \A i \in 1 .. Len(slots') : i # c => i \in DOMAIN slots /\ slots'[i] = slots[i]
    BY <1>0, <1>1, ClaimEffect
  <1>3. DOMAIN slots' = 1 .. Len(slots') /\ DOMAIN slots = 1 .. Len(slots)
    BY <1>0, <1>2
  <1>4. slots'[c].generation \in 1 .. started + 1
    <2>1. slots'[c] \in SlotRecord
      BY <1>2
    <2>2. slots'[c].generation \in Nat /\ slots'[c].generation >= 1
      BY <2>1 DEF SlotRecord
    <2>3. slots'[c].generation <= started + 1
      BY <1>0, <1>2, <2>2 DEF IdInv, Aged
    <2> QED
      BY <1>0, <2>2, <2>3
  <1>5. /\ timer'[started + 1].slot = c
        /\ timer'[started + 1].id = <<c, slots'[c].generation>>
        /\ \A n \in 1 .. started : timer'[n] = timer[n]
    <2>1. slots'[c].generation % MaskWrap = slots'[c].generation
      BY <1>0, <1>4, ModSmall
    <2>2. SlotId(c, slots'[c].generation) = <<c, slots'[c].generation>>
      BY <2>1 DEF SlotId
    <2>3. DOMAIN timer = Timer /\ 1 .. started \subseteq Timer
      BY <1>0 DEF TypeOK, Timer
    <2>4. timer'[started + 1].slot = c /\ timer'[started + 1].id = SlotId(c, slots'[c].generation)
      BY <1>0, <1>1, <1>2, <2>3 DEF PostDelayed
    <2>5. \A n \in 1 .. started : timer'[n] = timer[n]
      BY <1>0, <1>1, <2>3 DEF PostDelayed
    <2> QED
      BY <2>2, <2>4, <2>5
  <1>6. ASSUME NEW i \in DOMAIN slots'
        PROVE  Aged(i)'
    <2>1. CASE i = c
      BY <1>0, <1>2, <1>4, <2>1 DEF Aged
    <2>2. CASE i # c
      <3>1. i \in DOMAIN slots /\ slots'[i] = slots[i] /\ slots[i] \in SlotRecord
        BY <1>0, <1>2, <1>3, <2>2
      <3>2. Aged(i) /\ slots[i].generation \in Nat
        BY <3>1 DEF IdInv, SlotRecord
      <3> QED
        BY <1>0, <3>1, <3>2 DEF Aged
    <2> QED
      BY <2>1, <2>2
  <1>7. ASSUME NEW n \in 1 .. started'
        PROVE  Given(n, timer[n].slot)'
    <2>1. CASE n = started + 1
      BY <1>0, <1>2, <1>3, <1>4, <1>5, <2>1 DEF Given
    <2>2. CASE n # started + 1
      <3>1. n \in 1 .. started
        BY <1>0, <2>2
      <3>2. PICK i : i = timer[n].slot
        OBVIOUS
      <3>3. Given(n, i) /\ timer'[n] = timer[n]
        BY <1>0, <1>5, <3>1, <3>2 DEF IdInv
      <3>4. i \in DOMAIN slots' /\ i \in 1 .. Len(slots')
        BY <1>0, <1>2, <1>3, <3>3 DEF Given
      <3>5. CASE i = c
        <4>1. slots[c].timer = 0 /\ n # 0 /\ slots'[c].generation = slots[c].generation
          BY <1>2, <3>1, <3>3, <3>5 DEF Given
        <4>2. timer[n].id[2] < slots[c].generation
          BY <1>0, <3>3, <3>5, <4>1 DEF Given
        <4>3. Given(n, i)'
          BY <1>0, <1>2, <2>2, <3>3, <3>4, <3>5, <4>1, <4>2 DEF Given
        <4> QED
          BY <3>2, <3>3, <4>3
      <3>6. CASE i # c
        <4>1. slots'[i] = slots[i]
          BY <1>2, <3>4, <3>6
        <4>2. Given(n, i)'
          BY <1>0, <3>3, <3>4, <4>1 DEF Given
        <4> QED
          BY <3>2, <3>3, <4>2
      <3> QED
        BY <3>5, <3>6
    <2> QED
      BY <2>1, <2>2
  <1> QED
    BY <1>0, <1>6, <1>7 DEF IdInv

LEMMA IdRetired ==
    ASSUME HostInv, IdInv, MaxTimers < MaskWrap, NEW x \in 1 .. started, Retire(x),
           timer[x].slot \in DOMAIN slots, slots[timer[x].slot].timer = x,
           UNCHANGED <<timer, started, installed>>, installed
    PROVE  IdInv'
  <1> USE UvHostAssumption
  <1>0. /\ TypeOK /\ TableInv /\ x # 0 /\ SlotRelease(timer[x].slot)
        /\ slots \in Seq(SlotRecord) /\ started \in 0 .. MaxTimers
    <2>1. started \in 0 .. MaxTimers /\ slots \in Seq(SlotRecord)
      BY DEF HostInv, TypeOK, SlotRecord
    <2> QED
      BY <2>1 DEF HostInv, Retire
  <1>1. PICK r \in DOMAIN slots : r = timer[x].slot
    OBVIOUS
  <1>2. /\ DOMAIN slots' = DOMAIN slots
        /\ slots'[r].timer = 0
        /\ slots'[r].generation = NextGeneration(slots[r].generation)
        /\ \A j \in DOMAIN slots : j # r => slots'[j] = slots[j]
    BY <1>0, <1>1, ReleaseEffect
  <1>3. slots[r].timer = x /\ slots[r].generation \in Nat /\ slots[r].generation <= x
    <2>1. slots[r] \in SlotRecord
      BY <1>0
    <2> QED
      BY <1>0, <1>1, <2>1 DEF IdInv, Aged, SlotRecord
  <1>4. started < MaxTimers => slots'[r].generation = slots[r].generation + 1
    <2> SUFFICES ASSUME started < MaxTimers
                 PROVE  slots'[r].generation = slots[r].generation + 1
      OBVIOUS
    <2>1. slots[r].generation + 1 < GenWrap
      BY <1>0, <1>3
    <2>2. (slots[r].generation + 1) % GenWrap = slots[r].generation + 1
      BY <1>3, <2>1, ModSmall
    <2> QED
      BY <1>2, <1>3, <2>2 DEF NextGeneration
  <1>5. ASSUME NEW i \in DOMAIN slots'
        PROVE  Aged(i)'
    <2>1. CASE i = r
      BY <1>0, <1>2, <1>3, <1>4, <2>1 DEF Aged
    <2>2. CASE i # r
      BY <1>2, <2>2 DEF Aged, IdInv
    <2> QED
      BY <2>1, <2>2
  <1>6. ASSUME NEW n \in 1 .. started'
        PROVE  Given(n, timer[n].slot)'
    <2>1. PICK i : i = timer[n].slot
      OBVIOUS
    <2>2. Given(n, i)
      BY <2>1 DEF IdInv
    <2>3. i \in DOMAIN slots'
      BY <1>2, <2>2 DEF Given
    <2>4. CASE i = r
      <3>1. n # 0 /\ slots'[i].timer # n
        BY <1>2, <2>4
      <3>2. timer[n].id[2] \in Nat /\ timer[n].id[2] <= slots[r].generation
        BY <1>0, <1>3, <2>2, <2>4 DEF Given
      <3>3. started < MaxTimers => timer[n].id[2] < slots'[r].generation
        BY <1>3, <1>4, <3>2
      <3>4. Given(n, i)'
        BY <1>2, <2>2, <2>3, <2>4, <3>1, <3>3 DEF Given
      <3> QED
        BY <2>1, <3>4
    <2>5. CASE i # r
      <3>1. slots'[i] = slots[i]
        BY <1>2, <2>3, <2>5
      <3>2. Given(n, i)'
        BY <2>2, <2>3, <3>1 DEF Given
      <3> QED
        BY <2>1, <3>2
    <2> QED
      BY <2>4, <2>5
  <1> QED
    BY <1>5, <1>6 DEF IdInv

LEMMA IdKept ==
    ASSUME HostInv, IdInv, MaxTimers < MaskWrap, [Next]_vars
    PROVE  IdInv'
  <1>1. ASSUME UNCHANGED <<slots, timer, started, installed>>
        PROVE  IdInv'
    BY <1>1 DEF IdInv, Aged, Given
  <1>2. CASE \/ UNCHANGED vars
             \/ TaskReturns \/ RunForeign \/ BatchEnd \/ LoopHead
             \/ IdlePhase \/ DrainTask \/ DrainEnd
             \/ PollWakes \/ PollPasses \/ AsyncEnd \/ ClosingPhase \/ TimersEnd
             \/ Run \/ PumpOne \/ Pump \/ BackendFd
             \/ \E t \in Task : PostTask(t)
             \/ PendingChange(1) \/ PendingChange(-1)
             \/ \E w \in Thread, t \in Task : PostFromAnyThread(w, t)
             \/ \E w \in Thread : AsyncSend(w)
    <2>1. UNCHANGED installed
      BY <1>2 DEF vars, loop, TaskReturns, RunForeign, BatchEnd, LoopHead, IdlePhase,
             DrainTask, DrainEnd, PollWakes, PollPasses, AsyncEnd, ClosingPhase,
             TimersEnd, Run, PumpOne, Pump, BackendFd, PostTask, PendingChange,
             PostFromAnyThread, AsyncSend
    <2> QED
      BY <1>1, <1>2, <2>1, OthersKeepTable
  <1>3. ASSUME NEW n \in Timer, CancelDelayed(n)
        PROVE  IdInv'
    <2>1. /\ n \in 1 .. started /\ SlotFind(timer[n].id) # 0
          /\ UNCHANGED <<timer, started, installed>> /\ installed
      BY <1>3 DEF CancelDelayed, InProgram, loop
    <2>2. PICK x \in 1 .. started :
             /\ x = SlotFind(timer[n].id)
             /\ timer[x].slot \in DOMAIN slots /\ slots[timer[x].slot].timer = x
      BY <2>1, FoundInTable
    <2>3. Retire(x)
      BY <1>3, <2>2 DEF CancelDelayed
    <2> QED
      BY <2>1, <2>2, <2>3, IdRetired
  <1>4. ASSUME NEW x \in Timer, TimerFired(x)
        PROVE  IdInv'
    <2>1. /\ x \in 1 .. started /\ timer[x].slot \in DOMAIN slots
          /\ slots[timer[x].slot].timer = x
          /\ UNCHANGED <<timer, started, installed>> /\ installed
      BY <1>4 DEF HostInv, TypeOK, TableInv, TimerFired, Ready, Loop
    <2>2. UNCHANGED slots \/ Retire(x)
      BY <1>4 DEF TimerFired
    <2> QED
      BY <1>1, <2>1, <2>2, IdRetired
  <1>5. CASE Shutdown
    BY <1>5 DEF Shutdown, IdInv
  <1>6. CASE Owner
    BY <1>2, <1>4, <1>6 DEF Owner
  <1>7. CASE Program
    BY <1>2, <1>3, <1>7, IdPosted DEF Program
  <1> QED
    BY <1>2, <1>5, <1>6, <1>7 DEF Next

LEMMA IdsNamed ==
    ASSUME HostInv, IdInv, MaxTimers < MaskWrap
    PROVE  IdsNameTheirTimer
  <1> USE UvHostAssumption
  <1>0. /\ slots \in Seq(SlotRecord) /\ TableInv /\ started \in 0 .. MaxTimers
        /\ installed \in BOOLEAN
    BY DEF HostInv, TypeOK, SlotRecord
  <1> SUFFICES ASSUME NEW n \in 1 .. started
               PROVE  SlotFind(timer[n].id) = IF installed /\ n \in LiveTimers THEN n ELSE 0
    BY DEF IdsNameTheirTimer
  <1>1. CASE ~installed
    BY <1>1 DEF IdInv, SlotFind
  <1>2. CASE installed
    <2>1. PICK i : i = timer[n].slot /\ Given(n, i)
      BY <1>2 DEF IdInv
    <2>2. i \in DOMAIN slots /\ timer[n].id[1] = i /\ Aged(i) /\ slots[i] \in SlotRecord
      BY <1>0, <2>1 DEF Given, IdInv
    <2>3. slots[i].timer # 0 => slots[i].generation % MaskWrap = slots[i].generation
      <3>1. slots[i].timer # 0 => slots[i].timer \in 1 .. started
        BY <1>0, <2>2 DEF TableInv
      <3>2. slots[i].generation \in Nat
        BY <2>2 DEF SlotRecord
      <3>3. slots[i].timer # 0 => slots[i].generation < MaskWrap
        BY <1>0, <2>2, <3>1, <3>2 DEF Aged
      <3> QED
        BY <3>2, <3>3, ModSmall
    <2>4. CASE slots[i].timer = n
      <3>1. timer[n].id[2] = slots[i].generation /\ n # 0
        BY <2>1, <2>4 DEF Given
      <3>2. n \in LiveTimers
        BY <2>2, <2>4, <3>1 DEF LiveTimers
      <3> QED
        BY <1>2, <2>2, <2>3, <2>4, <3>1, <3>2 DEF SlotFind
    <2>5. CASE slots[i].timer # n
      <3>1. n \notin LiveTimers
        <4> SUFFICES ASSUME n \in LiveTimers
                     PROVE  FALSE
          OBVIOUS
        <4>1. PICK j \in DOMAIN slots : slots[j].timer = n /\ n # 0
          BY DEF LiveTimers
        <4>2. j = i
          BY <1>0, <2>1, <4>1 DEF TableInv
        <4> QED
          BY <2>5, <4>1, <4>2
      <3>2. CASE slots[i].timer = 0
        BY <2>2, <3>1, <3>2 DEF SlotFind
      <3>3. CASE slots[i].timer # 0
        <4>1. timer[n].id[2] < slots[i].generation /\ timer[n].id[2] \in Nat
          BY <1>0, <2>1, <2>5, <3>3 DEF Given
        <4>2. slots[i].generation \in Nat
          BY <2>2 DEF SlotRecord
        <4>3. slots[i].generation % MaskWrap # timer[n].id[2]
          BY <2>3, <3>3, <4>1, <4>2
        <4> QED
          BY <2>2, <3>1, <4>3 DEF SlotFind
      <3> QED
        BY <3>2, <3>3
    <2> QED
      BY <2>4, <2>5
  <1> QED
    BY <1>0, <1>1, <1>2

\* An id names the timer it was given to and nothing after that timer is gone,
\* and the free list goes once through the free slots, as long as fewer timers
\* are started than the generations an id tells apart
\* (nts_uv_slot_find, nts_uv_slot_claim, nts_uv_slot_release).
THEOREM SlotTableExact == MaxTimers < MaskWrap => (Spec => []SlotsExact)
  <1> SUFFICES ASSUME MaxTimers < MaskWrap
               PROVE  Spec => []SlotsExact
    OBVIOUS
  <1> DEFINE Inv == HostInv /\ IdInv
  <1>1. Init => Inv
    BY InitHost DEF Init, IdInv
  <1>2. Inv /\ [Next]_vars => Inv'
    BY HostKept, IdKept
  <1>3. Inv => SlotsExact
    BY FreeListSpelled, IdsNamed DEF SlotsExact
  <1> HIDE DEF Inv
  <1> QED
    BY <1>1, <1>2, <1>3, PTL DEF Spec

=============================================================================
