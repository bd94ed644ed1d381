------------------------ MODULE ConnectionPoolProofs ------------------------
(***************************************************************************)
(* Proofs about ConnectionPool, for every set of calls, of origins, and    *)
(* every cap.                                                              *)
(***************************************************************************)
EXTENDS ConnectionPool, FiniteSetTheorems, TLAPS

\* The pool's connections and connects.
Slots == records \cup connecting

\* A call is in one place: in the list, with a connect under way, or answered.
PlaceInv ==
    /\ IsFiniteSet(Slots) /\ IsFiniteSet(pending)
    /\ \A w \in pending : answer[w] = "pending" /\ w \notin connecting
    /\ \A w \in connecting : answer[w] \in {"pending", "rejected"}
    /\ \A w \in records : answer[w] = "lease"
    /\ destroyed => records = {} /\ pending = {} /\ ~accepting

\* A lease is of a busy record of the call's origin, and of no other call; a
\* closed pool's leases are of connections that are gone.
LeaseInv ==
    /\ \A w \in Request : lease[w] # None =>
         /\ answer[w] = "lease" /\ OriginOf[lease[w]] = OriginOf[w]
         /\ destroyed \/ lease[w] \in busy
    /\ \A v, w \in Request : lease[v] # None /\ lease[v] = lease[w] => v = w
    /\ \A r \in busy : \E w \in Request : lease[w] = r

\* Nothing serves this waiter now.
PassedOver(w) ==
    /\ IdleOf(OriginOf[w]) = {}
    /\ \/ total >= MaxConnections /\ Idle = {}
       \/ counts[OriginOf[w]] >= MaxPerOrigin

\* pump: what it has gone over stays passed over until it ends, and what is
\* idle while it goes over the list is open.
ScanInv ==
    /\ phase # "scan" => scan = {}
    /\ scan \subseteq pending
    /\ phase # "sweep" => \A w \in pending \ scan : PassedOver(w)
    /\ phase = "scan" => Idle \cap closed = {}

\* drain: the pool takes no calls from then on.
DrainInv ==
    /\ drained # "none" => ~accepting
    /\ destroyed => drained # "pending"
    /\ drained = "resolved" /\ ~destroyed => Empty
    /\ phase = "idle" /\ drained = "pending" => ~Empty

Inv == TypeOK /\ PlaceInv /\ LeaseInv /\ CountsExact /\ ScanInv /\ DrainInv

-----------------------------------------------------------------------------
(***************************************************************************)
(* The list.                                                               *)
(***************************************************************************)
LEMMA LeastOfNat ==
    ASSUME NEW T \in SUBSET Nat, T # {}
    PROVE  \E n \in T : \A m \in T : n <= m
  <1>1. PICK n \in T : \A m \in T : ~(<<m, n>> \in OpToRel(<, Nat))
    BY WFMin, NatLessThanWellFounded
  <1>2. \A m \in T : ~(m < n)
    BY <1>1 DEF OpToRel
  <1> QED
    BY <1>2

\* The waiter pump looks at next is one of those left, and none is before it.
LEMMA FirstIsFirst ==
    ASSUME TypeOK, scan # {}
    PROVE  /\ First(scan) \in scan /\ First(scan) \in Request
           /\ \A v \in scan : place[First(scan)] <= place[v]
  <1> DEFINE places == {place[v] : v \in scan}
  <1>1. places \in SUBSET Nat /\ places # {}
    BY DEF TypeOK
  <1>2. PICK n \in places : \A m \in places : n <= m
    <2> HIDE DEF places
    <2> QED
      BY <1>1, LeastOfNat
  <1>3. \E w \in scan : \A v \in scan : place[w] <= place[v]
    BY <1>2
  <1>4. First(scan) \in scan /\ \A v \in scan : place[First(scan)] <= place[v]
    BY <1>3 DEF First
  <1> QED
    BY <1>4 DEF TypeOK

-----------------------------------------------------------------------------
(***************************************************************************)
(* The counters.                                                           *)
(***************************************************************************)
LEMMA CountRest ==
    ASSUME NEW S, IsFiniteSet(S), NEW rs \in SUBSET S
    PROVE  /\ IsFiniteSet(S \ rs) /\ IsFiniteSet(rs)
           /\ Cardinality(S) \in Nat /\ Cardinality(rs) \in Nat
           /\ Cardinality(S \ rs) \in Nat
           /\ Cardinality(S \ rs) = Cardinality(S) - Cardinality(rs)
  <1>1. IsFiniteSet(rs) /\ IsFiniteSet(S \ rs) /\ S \cap rs = rs
    BY FS_Subset, FS_Difference
  <1>2. Cardinality(S \ rs) = Cardinality(S) - Cardinality(rs)
    BY <1>1, FS_Difference
  <1> QED
    BY <1>1, <1>2, FS_CardinalityType

LEMMA CountOfRest ==
    ASSUME NEW S, IsFiniteSet(S), NEW rs \in SUBSET S, NEW o
    PROVE  /\ IsFiniteSet(Of(o, S)) /\ IsFiniteSet(Of(o, S \ rs))
           /\ Cardinality(Of(o, S)) \in Nat /\ Cardinality(Of(o, rs)) \in Nat
           /\ Cardinality(Of(o, S \ rs)) \in Nat
           /\ Cardinality(Of(o, S \ rs)) = Cardinality(Of(o, S)) - Cardinality(Of(o, rs))
  <1>1. Of(o, S) \in SUBSET S /\ Of(o, rs) \in SUBSET Of(o, S)
    BY DEF Of
  <1>2. Of(o, S \ rs) = Of(o, S) \ Of(o, rs)
    BY DEF Of
  <1>3. IsFiniteSet(Of(o, S))
    BY <1>1, FS_Subset
  <1> QED
    BY <1>1, <1>2, <1>3, CountRest

LEMMA CountMore ==
    ASSUME NEW S, IsFiniteSet(S), NEW w, w \notin S
    PROVE  /\ IsFiniteSet(S \cup {w})
           /\ Cardinality(S \cup {w}) = Cardinality(S) + 1
  BY FS_AddElement

LEMMA CountOfMore ==
    ASSUME NEW S, IsFiniteSet(S), NEW w, w \notin S, NEW o
    PROVE  Cardinality(Of(o, S \cup {w})) =
             IF OriginOf[w] = o THEN Cardinality(Of(o, S)) + 1 ELSE Cardinality(Of(o, S))
  <1>1. IsFiniteSet(Of(o, S)) /\ w \notin Of(o, S)
    <2>1. Of(o, S) \in SUBSET S
      BY DEF Of
    <2> QED
      BY <2>1, FS_Subset
  <1>2. Of(o, S \cup {w}) = IF OriginOf[w] = o THEN Of(o, S) \cup {w} ELSE Of(o, S)
    BY DEF Of
  <1> QED
    BY <1>1, <1>2, CountMore

\* What the counters say of the slots, and their types.
Booked == /\ IsFiniteSet(Slots) /\ CountsExact
          /\ counts \in [Origin -> Nat] /\ total \in Nat

\* Slots are given up and the counters lowered for them.
LEMMA BookedLess ==
    ASSUME Booked, NEW rs \in SUBSET Slots,
           Slots' = Slots \ rs, counts' = Less(rs), total' = total - Cardinality(rs)
    PROVE  Booked'
  <1> USE PoolAssumption
  <1>1. /\ IsFiniteSet(Slots') /\ total' = Cardinality(Slots')
        /\ total' \in Nat /\ total' <= total
    <2>1. total = Cardinality(Slots) /\ IsFiniteSet(Slots)
      BY DEF Booked, CountsExact, Slots
    <2>2. /\ IsFiniteSet(Slots \ rs) /\ Cardinality(Slots) \in Nat
          /\ Cardinality(rs) \in Nat /\ Cardinality(Slots \ rs) \in Nat
          /\ Cardinality(Slots \ rs) = Cardinality(Slots) - Cardinality(rs)
      BY <2>1, CountRest
    <2> QED
      BY <2>1, <2>2
  <1>2. \A o \in Origin : /\ counts'[o] = Cardinality(Of(o, Slots'))
                          /\ counts'[o] \in Nat /\ counts'[o] <= counts[o]
    <2> TAKE o \in Origin
    <2>1. counts'[o] = counts[o] - Cardinality(Of(o, rs))
      BY DEF Less
    <2>2. counts[o] = Cardinality(Of(o, Slots))
      BY DEF Booked, CountsExact, Slots
    <2>3. /\ Cardinality(Of(o, Slots)) \in Nat /\ Cardinality(Of(o, rs)) \in Nat
          /\ Cardinality(Of(o, Slots \ rs)) \in Nat
          /\ Cardinality(Of(o, Slots \ rs)) = Cardinality(Of(o, Slots)) - Cardinality(Of(o, rs))
      BY CountOfRest DEF Booked
    <2> QED
      BY <2>1, <2>2, <2>3
  <1>3. counts' \in [Origin -> Nat]
    BY <1>2 DEF Less
  <1>4. CountsExact'
    <2>1. total <= MaxConnections /\ total \in Nat
      BY DEF Booked, CountsExact
    <2>2. \A o \in Origin : counts[o] <= MaxPerOrigin /\ counts[o] \in Nat
      BY DEF Booked, CountsExact
    <2>3. total' <= MaxConnections
      BY <1>1, <2>1
    <2>4. \A o \in Origin : counts'[o] <= MaxPerOrigin
      BY <1>2, <2>2
    <2> QED
      BY <1>1, <1>2, <2>3, <2>4 DEF CountsExact, Slots, Of
  <1> QED
    BY <1>1, <1>3, <1>4 DEF Booked

\* Neither a slot nor a counter changes.
LEMMA BookedSame ==
    ASSUME Booked, Slots' = Slots, UNCHANGED countVars
    PROVE  Booked'
  BY DEF Booked, CountsExact, Slots, countVars, Of

\* A slot is taken for a connect, below both caps.
LEMMA BookedMore ==
    ASSUME Booked, NEW rs \in SUBSET Slots, NEW w \in Request \ Slots,
           Slots' = (Slots \ rs) \cup {w},
           total - Cardinality(rs) < MaxConnections,
           Less(rs)[OriginOf[w]] < MaxPerOrigin,
           counts' = [Less(rs) EXCEPT ![OriginOf[w]] = @ + 1],
           total' = total - Cardinality(rs) + 1
    PROVE  Booked'
  <1> USE PoolAssumption
  <1> DEFINE S == Slots \ rs
  <1>1. IsFiniteSet(S) /\ w \notin S
    BY CountRest DEF Booked
  <1>2. /\ IsFiniteSet(Slots') /\ total' = Cardinality(Slots')
        /\ total' \in Nat /\ total' <= MaxConnections
    <2>1. total - Cardinality(rs) = Cardinality(S) /\ Cardinality(S) \in Nat
      BY CountRest DEF Booked, CountsExact, Slots
    <2> HIDE DEF S
    <2>2. IsFiniteSet(S \cup {w}) /\ Cardinality(S \cup {w}) = Cardinality(S) + 1
      BY <1>1, CountMore
    <2> QED
      BY <2>1, <2>2 DEF S
  <1>3. \A o \in Origin : /\ counts'[o] = Cardinality(Of(o, Slots'))
                          /\ counts'[o] \in Nat /\ counts'[o] <= MaxPerOrigin
    <2> TAKE o \in Origin
    <2>1. Less(rs)[o] = counts[o] - Cardinality(Of(o, rs))
      BY DEF Less
    <2>2. counts[o] = Cardinality(Of(o, Slots)) /\ counts[o] <= MaxPerOrigin
      BY DEF Booked, CountsExact, Slots
    <2>3. Less(rs)[o] = Cardinality(Of(o, S)) /\ Less(rs)[o] \in Nat
          /\ Less(rs)[o] <= MaxPerOrigin
      <3>1. /\ Cardinality(Of(o, Slots)) \in Nat /\ Cardinality(Of(o, rs)) \in Nat
            /\ Cardinality(Of(o, S)) \in Nat
            /\ Cardinality(Of(o, S)) = Cardinality(Of(o, Slots)) - Cardinality(Of(o, rs))
        BY CountOfRest DEF Booked
      <3> QED
        BY <2>1, <2>2, <3>1
    <2>4. counts'[o] = IF OriginOf[w] = o THEN Less(rs)[o] + 1 ELSE Less(rs)[o]
      BY DEF Less
    <2>5. Cardinality(Of(o, Slots')) =
            IF OriginOf[w] = o THEN Cardinality(Of(o, S)) + 1 ELSE Cardinality(Of(o, S))
      BY <1>1, CountOfMore
    <2> QED
      BY <2>3, <2>4, <2>5
  <1>4. counts' \in [Origin -> Nat]
    BY <1>3 DEF Less
  <1> QED
    BY <1>2, <1>3, <1>4 DEF Booked, CountsExact, Slots, Of

\* What the steps need of a single record or connect.
LEMMA BookedDrop ==
    ASSUME TypeOK, Booked, records \cap connecting = {}, NEW rs \in SUBSET records,
           Drop(rs), connecting' = connecting
    PROVE  Booked'
  <1>1. rs \in SUBSET Slots /\ Slots' = Slots \ rs
    BY DEF Slots, Drop
  <1> QED
    BY <1>1, BookedLess DEF Drop

LEMMA BookedConnectGone ==
    ASSUME TypeOK, Booked, records \cap connecting = {}, NEW w \in connecting,
           connecting' = connecting \ {w}, records' = records,
           counts' = Less({w}), total' = total - 1
    PROVE  Booked'
  <1>1. {w} \in SUBSET Slots /\ Slots' = Slots \ {w}
    BY DEF Slots
  <1>2. Cardinality({w}) = 1
    BY FS_Singleton
  <1> QED
    BY <1>1, <1>2, BookedLess

\* Every step keeps the counters exact.
LEMMA CountsStep ==
    ASSUME TypeOK, PlaceInv, CountsExact, ScanInv, Next
    PROVE  Booked'
  <1>1. Booked /\ records \cap connecting = {}
    BY DEF TypeOK, PlaceInv, Booked
  <1>2. ASSUME NEW w \in Request,
               \/ AcquireRejected(w) \/ Acquire(w) \/ AbortEarly(w) \/ Abort(w)
               \/ PeerCloses(w)
        PROVE  Booked'
    <2>1. Slots' = Slots /\ UNCHANGED countVars
      BY <1>2 DEF Slots, AcquireRejected, Acquire, AbortEarly, Abort, PeerCloses, recordVars
    <2> QED
      BY <1>1, <2>1, BookedSame
  <1>3. CASE ScanReuses \/ ScanEnds
    <2>1. Slots' = Slots /\ UNCHANGED countVars
      BY <1>3 DEF Slots, ScanReuses, ScanEnds, recordVars
    <2> QED
      BY <1>1, <2>1, BookedSame
  <1>4. CASE Sweep
    <2>1. CASE destroyed
      <3>1. Slots' = Slots /\ UNCHANGED countVars
        BY <1>4, <2>1 DEF Slots, Sweep, recordVars
      <3> QED
        BY <1>1, <3>1, BookedSame
    <2>2. CASE ~destroyed
      BY <1>1, <1>4, <2>2, BookedDrop DEF Sweep, Idle
    <2> QED
      BY <2>1, <2>2
  <1>5. CASE ScanConnects
    <2> DEFINE w == First(scan)
               o == OriginOf[w]
    <2>1. w \in pending /\ w \in Request \ Slots
      BY <1>5, FirstIsFirst DEF ScanConnects, ScanInv, PlaceInv, TypeOK, Slots
    <2> HIDE DEF w
    <2>2. PICK given \in Reclaimable :
            /\ records' = records \ given
            /\ IF total - Cardinality(given) < MaxConnections /\ Less(given)[o] < MaxPerOrigin
               THEN /\ connecting' = connecting \cup {w}
                    /\ counts' = [Less(given) EXCEPT ![o] = @ + 1]
                    /\ total' = total - Cardinality(given) + 1
               ELSE /\ counts' = Less(given) /\ total' = total - Cardinality(given)
                    /\ UNCHANGED connecting
      BY <1>5 DEF ScanConnects, w
    <2>3. given \in SUBSET records /\ given \in SUBSET Slots
      BY <2>2 DEF Reclaimable, Idle, Slots
    <2>4. CASE total - Cardinality(given) < MaxConnections /\ Less(given)[o] < MaxPerOrigin
      <3>1. Slots' = (Slots \ given) \cup {w}
        BY <1>1, <2>2, <2>3, <2>4 DEF Slots
      <3> QED
        BY <1>1, <2>1, <2>2, <2>3, <2>4, <3>1, BookedMore
    <2>5. CASE ~(total - Cardinality(given) < MaxConnections /\ Less(given)[o] < MaxPerOrigin)
      <3>1. Slots' = Slots \ given
        BY <1>1, <2>2, <2>3, <2>5 DEF Slots
      <3> QED
        BY <1>1, <2>2, <2>3, <2>5, <3>1, BookedLess
    <2> QED
      BY <2>4, <2>5
  <1>6. ASSUME NEW w \in Request, Connected(w)
        PROVE  Booked'
    <2>1. CASE destroyed \/ answer[w] # "pending"
      BY <1>1, <1>6, <2>1, BookedConnectGone DEF Connected
    <2>2. CASE ~(destroyed \/ answer[w] # "pending")
      <3>1. Slots' = Slots /\ UNCHANGED countVars
        BY <1>6, <2>2 DEF Connected, Slots
      <3> QED
        BY <1>1, <3>1, BookedSame
    <2> QED
      BY <2>1, <2>2
  <1>7. ASSUME NEW w \in Request, ConnectFails(w)
        PROVE  Booked'
    BY <1>1, <1>7, BookedConnectGone DEF ConnectFails, recordVars
  <1>8. ASSUME NEW w \in Request, GiveBack(w)
        PROVE  Booked'
    <2>1. CASE UNCHANGED <<records, connecting, countVars>>
      BY <1>1, <2>1, BookedSame DEF Slots
    <2>2. CASE lease[w] \in records /\ Drop({lease[w]}) /\ connecting' = connecting
      BY <1>1, <2>2, BookedDrop
    <2> QED
      BY <1>8, <2>1, <2>2 DEF GiveBack, Detach, Release, recordVars
  <1>9. ASSUME NEW w \in Request, Expire(w)
        PROVE  Booked'
    BY <1>1, <1>9, BookedDrop DEF Expire, Idle
  <1>10. CASE Close
    BY <1>1, <1>10, BookedDrop DEF Close
  <1>11. CASE Drain
    BY <1>1, <1>11, BookedDrop DEF Drain, Idle
  <1> QED
    BY <1>2, <1>3, <1>4, <1>5, <1>6, <1>7, <1>8, <1>9, <1>10, <1>11
    DEF Next, PumpStep, Settle

\* Every step keeps the types.
LEMMA TypeStep ==
    ASSUME TypeOK, PlaceInv, CountsExact, ScanInv, Next
    PROVE  TypeOK'
  <1> USE PoolAssumption DEF TypeOK, waiterVars, recordVars, countVars, stateVars
  <1>c. counts' \in [Origin -> Nat] /\ total' \in Nat
    BY CountsStep DEF Booked
  <1>f. Cardinality(pending) \in Nat
    BY FS_CardinalityType DEF PlaceInv
  <1>1. ASSUME NEW w \in Request, AcquireRejected(w)
        PROVE  TypeOK'
    BY <1>1, <1>c DEF AcquireRejected, Quiet
  <1>2. ASSUME NEW w \in Request, Acquire(w)
        PROVE  TypeOK'
    BY <1>2, <1>c, <1>f DEF Acquire, Pump, AppendPending
  <1>3. ASSUME NEW w \in Request, AbortEarly(w)
        PROVE  TypeOK'
    BY <1>3, <1>c DEF AbortEarly, Quiet
  <1>4. ASSUME NEW w \in Request, Abort(w)
        PROVE  TypeOK'
    BY <1>4, <1>c DEF Abort, Quiet, Pump, RemovePending, Rejected
  <1>5. ASSUME NEW w \in Request, Connected(w)
        PROVE  TypeOK'
    BY <1>5, <1>c DEF Connected, Pump, Rejected
  <1>6. ASSUME NEW w \in Request, ConnectFails(w)
        PROVE  TypeOK'
    BY <1>6, <1>c DEF ConnectFails, Pump, Rejected
  <1>7. ASSUME NEW w \in Request, GiveBack(w)
        PROVE  TypeOK'
    BY <1>7, <1>c DEF GiveBack, Detach, Release, Quiet, Pump, Drop
  <1>8. ASSUME NEW w \in Request, Expire(w)
        PROVE  TypeOK'
    BY <1>8, <1>c DEF Expire, Drop, Pump, Idle
  <1>9. ASSUME NEW w \in Request, PeerCloses(w)
        PROVE  TypeOK'
    BY <1>9, <1>c DEF PeerCloses, Quiet
  <1>10. CASE Sweep
    BY <1>10, <1>c DEF Sweep, Drop, Idle
  <1>11. CASE ScanReuses
    BY <1>11, <1>c, FirstIsFirst DEF ScanReuses, RemovePending, IdleOf, Idle, Of
  <1>12. CASE ScanConnects
    BY <1>12, <1>c, FirstIsFirst DEF ScanConnects, RemovePending, Reclaimable, Idle, IdleOf, Of
  <1>13. CASE ScanEnds
    BY <1>13, <1>c DEF ScanEnds, Empty
  <1>14. CASE Close
    BY <1>14, <1>c DEF Close, Quiet, Drop, Rejected
  <1>15. CASE Drain
    BY <1>15, <1>c DEF Drain, Drop, Pump, Idle
  <1> QED
    BY <1>1, <1>2, <1>3, <1>4, <1>5, <1>6, <1>7, <1>8, <1>9, <1>10, <1>11, <1>12, <1>13, <1>14, <1>15
    DEF Next, PumpStep, Settle

\* Every step keeps a call in one place.
LEMMA PlaceStep ==
    ASSUME TypeOK, PlaceInv, CountsExact, ScanInv, Next
    PROVE  PlaceInv'
  <1> USE PoolAssumption DEF TypeOK, PlaceInv, waiterVars, recordVars, countVars, stateVars
  <1>c. IsFiniteSet(Slots')
    BY CountsStep DEF Booked
  <1>1. ASSUME NEW w \in Request, AcquireRejected(w)
        PROVE  PlaceInv'
    BY <1>1, <1>c DEF AcquireRejected, Quiet
  <1>2. ASSUME NEW w \in Request, Acquire(w)
        PROVE  PlaceInv'
    <2>1. pending' = pending \cup {w}
      BY <1>2 DEF Acquire, AppendPending
    <2>2. IsFiniteSet(pending')
      BY <2>1, FS_AddElement, FS_RemoveElement
    <2> QED
      BY <1>2, <1>c, <2>1, <2>2 DEF Acquire
  <1>3. ASSUME NEW w \in Request, AbortEarly(w)
        PROVE  PlaceInv'
    BY <1>3, <1>c DEF AbortEarly, Quiet
  <1>4. ASSUME NEW w \in Request, Abort(w)
        PROVE  PlaceInv'
    <2>1. pending' = pending \ {w}
      BY <1>4 DEF Abort, RemovePending
    <2>2. IsFiniteSet(pending')
      BY <2>1, FS_AddElement, FS_RemoveElement
    <2> QED
      BY <1>4, <1>c, <2>1, <2>2 DEF Abort, Rejected
  <1>5. ASSUME NEW w \in Request, Connected(w)
        PROVE  PlaceInv'
    BY <1>5, <1>c DEF Connected, Pump, Rejected
  <1>6. ASSUME NEW w \in Request, ConnectFails(w)
        PROVE  PlaceInv'
    BY <1>6, <1>c DEF ConnectFails, Pump, Rejected
  <1>7. ASSUME NEW w \in Request, GiveBack(w)
        PROVE  PlaceInv'
    BY <1>7, <1>c DEF GiveBack, Detach, Release, Quiet, Pump, Drop
  <1>8. ASSUME NEW w \in Request, Expire(w)
        PROVE  PlaceInv'
    BY <1>8, <1>c DEF Expire, Drop, Pump, Idle
  <1>9. ASSUME NEW w \in Request, PeerCloses(w)
        PROVE  PlaceInv'
    BY <1>9, <1>c DEF PeerCloses, Quiet
  <1>10. CASE Sweep
    BY <1>10, <1>c DEF Sweep, Drop, Idle
  <1>11. CASE ScanReuses
    <2>1. First(scan) \in pending /\ pending' = pending \ {First(scan)}
      BY <1>11, FirstIsFirst DEF ScanReuses, RemovePending, ScanInv
    <2>2. IsFiniteSet(pending')
      BY <2>1, FS_AddElement, FS_RemoveElement
    <2> QED
      BY <1>11, <1>c, <2>1, <2>2 DEF ScanReuses
  <1>12. CASE ScanConnects
    <2>1. First(scan) \in pending /\ answer[First(scan)] = "pending"
      BY <1>12, FirstIsFirst DEF ScanConnects, ScanInv
    <2>2. \/ pending' = pending \ {First(scan)} /\ connecting' = connecting \cup {First(scan)}
          \/ UNCHANGED <<pending, connecting>>
      BY <1>12 DEF ScanConnects, RemovePending
    <2>3. records' \subseteq records /\ UNCHANGED <<answer, accepting, destroyed>>
      BY <1>12 DEF ScanConnects
    <2>4. IsFiniteSet(pending')
      BY <2>2, FS_RemoveElement
    <2> QED
      BY <1>c, <2>1, <2>2, <2>3, <2>4
  <1>13. CASE ScanEnds
    BY <1>13, <1>c DEF ScanEnds, Empty
  <1>14. CASE Close
    BY <1>14, <1>c, FS_EmptySet DEF Close, Quiet, Drop, Rejected
  <1>15. CASE Drain
    BY <1>15, <1>c DEF Drain, Drop, Pump, Idle
  <1> QED
    BY <1>1, <1>2, <1>3, <1>4, <1>5, <1>6, <1>7, <1>8, <1>9, <1>10, <1>11, <1>12, <1>13, <1>14, <1>15
    DEF Next, PumpStep, Settle

\* Every step keeps the leases.
LEMMA LeaseStep ==
    ASSUME TypeOK, PlaceInv, LeaseInv, ScanInv, Next
    PROVE  LeaseInv'
  <1> USE PoolAssumption DEF TypeOK, PlaceInv, LeaseInv, waiterVars, recordVars, countVars, stateVars
  <1>1. ASSUME NEW w \in Request, AcquireRejected(w)
        PROVE  LeaseInv'
    BY <1>1 DEF AcquireRejected, Quiet
  <1>2. ASSUME NEW w \in Request, Acquire(w)
        PROVE  LeaseInv'
    BY <1>2 DEF Acquire, Pump, AppendPending
  <1>3. ASSUME NEW w \in Request, AbortEarly(w)
        PROVE  LeaseInv'
    BY <1>3 DEF AbortEarly, Quiet
  <1>4. ASSUME NEW w \in Request, Abort(w)
        PROVE  LeaseInv'
    BY <1>4 DEF Abort, Quiet, Pump, RemovePending, Rejected
  <1>5. ASSUME NEW w \in Request, Connected(w)
        PROVE  LeaseInv'
    BY <1>5 DEF Connected, Pump, Rejected
  <1>6. ASSUME NEW w \in Request, ConnectFails(w)
        PROVE  LeaseInv'
    BY <1>6 DEF ConnectFails, Pump, Rejected
  <1>7. ASSUME NEW w \in Request, GiveBack(w)
        PROVE  LeaseInv'
    BY <1>7 DEF GiveBack, Detach, Release, Quiet, Pump, Drop
  <1>8. ASSUME NEW w \in Request, Expire(w)
        PROVE  LeaseInv'
    BY <1>8 DEF Expire, Drop, Pump, Idle
  <1>9. ASSUME NEW w \in Request, PeerCloses(w)
        PROVE  LeaseInv'
    BY <1>9 DEF PeerCloses, Quiet
  <1>10. CASE Sweep
    BY <1>10 DEF Sweep, Drop, Idle
  <1>11. CASE ScanReuses
    <2> DEFINE w == First(scan)
    <2>1. w \in pending /\ answer[w] = "pending" /\ lease[w] = None
      BY <1>11, FirstIsFirst DEF ScanReuses, ScanInv
    <2> HIDE DEF w
    <2>2. PICK r \in Idle : /\ OriginOf[r] = OriginOf[w]
                           /\ lease' = [lease EXCEPT ![w] = r]
                           /\ busy' = busy \cup {r}
      BY <1>11 DEF ScanReuses, IdleOf, Of, w
    <2>3. answer' = [answer EXCEPT ![w] = "lease"] /\ UNCHANGED destroyed
      BY <1>11 DEF ScanReuses, w
    <2>4. r \in Request /\ r \notin busy /\ ~destroyed
      BY <2>2 DEF Idle
    <2>5. \A v \in Request : lease[v] # r
      BY <2>4
    <2> QED
      BY <2>1, <2>2, <2>3, <2>4, <2>5
  <1>12. CASE ScanConnects
    BY <1>12, FirstIsFirst DEF ScanConnects, RemovePending, Reclaimable, Idle, IdleOf, Of
  <1>13. CASE ScanEnds
    BY <1>13 DEF ScanEnds, Empty
  <1>14. CASE Close
    BY <1>14 DEF Close, Quiet, Drop, Rejected
  <1>15. CASE Drain
    BY <1>15 DEF Drain, Drop, Pump, Idle
  <1> QED
    BY <1>1, <1>2, <1>3, <1>4, <1>5, <1>6, <1>7, <1>8, <1>9, <1>10, <1>11, <1>12, <1>13, <1>14, <1>15
    DEF Next, PumpStep, Settle

-----------------------------------------------------------------------------
(***************************************************************************)
(* pump.                                                                   *)
(***************************************************************************)
\* What pump has passed over stays so while connections only become busier.
LEMMA StaysPassedOver ==
    ASSUME NEW w, PassedOver(w), Idle' \subseteq Idle, UNCHANGED countVars
    PROVE  PassedOver(w)'
  BY DEF PassedOver, IdleOf, Of, countVars

\* The slots given up for a waiter: none below the cap, and none of an origin
\* without idle connections.
LEMMA GivenUp ==
    ASSUME TypeOK, CountsExact, NEW rs \in Reclaimable
    PROVE  /\ rs \subseteq Idle /\ Cardinality(rs) \in {0, 1}
           /\ \A o \in Origin : IdleOf(o) = {} => Less(rs)[o] = counts[o]
           /\ total >= MaxConnections /\ Idle = {} => rs = {} /\ Cardinality(rs) = 0
           /\ total - Cardinality(rs) >= MaxConnections => rs = {} /\ Idle = {}
  <1>1. CASE total >= MaxConnections /\ Idle # {}
    <2> PICK r \in Idle : rs = {r}
      BY <1>1 DEF Reclaimable
    <2>1. Cardinality(rs) = 1
      BY FS_Singleton
    <2>2. ASSUME NEW o \in Origin, IdleOf(o) = {}
          PROVE  Less(rs)[o] = counts[o]
      <3>1. Of(o, rs) = {}
        BY <2>2 DEF IdleOf, Of
      <3>2. Cardinality(Of(o, rs)) = 0
        BY <3>1, FS_EmptySet
      <3> QED
        BY <3>2 DEF Less, TypeOK
    <2>3. total <= MaxConnections
      BY DEF CountsExact
    <2>4. ~(total - 1 >= MaxConnections)
      BY <2>3, PoolAssumption DEF TypeOK
    <2> QED
      BY <1>1, <2>1, <2>2, <2>4
  <1>2. CASE ~(total >= MaxConnections /\ Idle # {})
    <2>1. rs = {} /\ Cardinality(rs) = 0
      BY <1>2, FS_EmptySet DEF Reclaimable
    <2>2. ASSUME NEW o \in Origin
          PROVE  Less(rs)[o] = counts[o]
      <3>1. Of(o, rs) = {}
        BY <2>1 DEF Of
      <3>2. Cardinality(Of(o, rs)) = 0
        BY <3>1, FS_EmptySet
      <3> QED
        BY <3>2 DEF Less, TypeOK
    <2>3. total - 0 >= MaxConnections => Idle = {}
      BY <1>2, PoolAssumption DEF TypeOK
    <2> QED
      BY <2>1, <2>2, <2>3
  <1> QED
    BY <1>1, <1>2

\* A waiter that was passed over keeps a later one of its origin from being
\* connected.
LEMMA NoOvertaking ==
    ASSUME TypeOK, CountsExact, NEW v \in Request, PassedOver(v), NEW rs \in Reclaimable
    PROVE  ~(/\ total - Cardinality(rs) < MaxConnections
             /\ Less(rs)[OriginOf[v]] < MaxPerOrigin)
  <1>1. OriginOf[v] \in Origin
    BY PoolAssumption
  <1>2. CASE total >= MaxConnections /\ Idle = {}
    BY <1>2, GivenUp, PoolAssumption DEF TypeOK
  <1>3. CASE counts[OriginOf[v]] >= MaxPerOrigin
    BY <1>1, <1>3, GivenUp, PoolAssumption DEF TypeOK, PassedOver
  <1> QED
    BY <1>2, <1>3 DEF PassedOver

\* pump looks at one waiter: what it passed over stays so, and so is this one
\* when it stays in the list.
LEMMA ScanConnectsPasses ==
    ASSUME TypeOK, PlaceInv, CountsExact, ScanInv, ScanConnects
    PROVE  ScanInv'
  <1> PICK w \in Request : w = First(scan)
    BY FirstIsFirst DEF ScanConnects
  <1> DEFINE o == OriginOf[w]
  <1>1. w \in scan /\ o \in Origin
    BY FirstIsFirst, PoolAssumption DEF ScanConnects
  <1>2. PICK given \in Reclaimable :
          /\ records' = records \ given
          /\ IF total - Cardinality(given) < MaxConnections /\ Less(given)[o] < MaxPerOrigin
             THEN /\ pending' = pending \ {w}
                  /\ counts' = [Less(given) EXCEPT ![o] = @ + 1]
                  /\ total' = total - Cardinality(given) + 1
             ELSE /\ counts' = Less(given) /\ total' = total - Cardinality(given)
                  /\ UNCHANGED pending
    BY DEF ScanConnects, RemovePending
  <1>3. scan' = scan \ {w} /\ phase = "scan" /\ phase' = "scan" /\ busy' = busy
        /\ IdleOf(o) = {}
    BY DEF ScanConnects
  <1>4. Idle' \subseteq Idle /\ closed' \subseteq closed
    <2>1. closed' \subseteq closed
      BY DEF ScanConnects
    <2> QED
      BY <1>2, <1>3, <2>1 DEF Idle
  <1>5. ASSUME NEW v \in Request, PassedOver(v)
        PROVE  PassedOver(v)'
    <2> DEFINE ov == OriginOf[v]
    <2>1. ov \in Origin /\ IdleOf(ov) = {}
      BY <1>5, PoolAssumption DEF PassedOver
    <2>2. IdleOf(ov)' = {}
      BY <1>4, <2>1 DEF IdleOf, Of
    <2>3. CASE total >= MaxConnections /\ Idle = {}
      <3>1. given = {} /\ Cardinality(given) = 0 /\ total \in Nat
        BY <2>3, GivenUp DEF TypeOK
      <3>2. total' >= MaxConnections /\ Idle' = {}
        BY <1>2, <1>4, <2>3, <3>1, PoolAssumption
      <3> QED
        BY <2>2, <3>2 DEF PassedOver
    <2>4. CASE counts[ov] >= MaxPerOrigin
      <3>1. Less(given)[ov] = counts[ov] /\ counts[ov] \in Nat
        BY <2>1, GivenUp DEF TypeOK
      <3>2. counts' = Less(given) \/ counts' = [Less(given) EXCEPT ![o] = @ + 1]
        BY <1>2
      <3>3. counts'[ov] = counts[ov] \/ counts'[ov] = counts[ov] + 1
        BY <2>1, <3>1, <3>2 DEF Less
      <3>4. counts'[ov] >= MaxPerOrigin
        BY <2>4, <3>1, <3>3, PoolAssumption
      <3> QED
        BY <2>2, <3>4 DEF PassedOver
    <2> QED
      BY <1>5, <2>3, <2>4 DEF PassedOver
  <1>6. ASSUME w \in pending'
        PROVE  PassedOver(w)'
    <2>1. ~(total - Cardinality(given) < MaxConnections /\ Less(given)[o] < MaxPerOrigin)
      BY <1>2, <1>6
    <2>2. counts' = Less(given) /\ total' = total - Cardinality(given)
      BY <1>2, <2>1
    <2>3. IdleOf(o)' = {}
      BY <1>3, <1>4 DEF IdleOf, Of
    <2>4. total \in Nat /\ Cardinality(given) \in {0, 1} /\ Less(given)[o] \in Int
      BY <1>1, <1>3, GivenUp DEF TypeOK
    <2>5. CASE total - Cardinality(given) >= MaxConnections
      <3>1. Idle = {}
        BY <2>5, GivenUp
      <3> QED
        BY <1>4, <2>2, <2>3, <2>5, <3>1 DEF PassedOver
    <2>6. CASE Less(given)[o] >= MaxPerOrigin
      BY <2>2, <2>3, <2>6 DEF PassedOver
    <2> QED
      BY <2>1, <2>4, <2>5, <2>6, PoolAssumption
  <1>7. scan' \subseteq pending' /\ pending' \subseteq pending
    BY <1>2, <1>3 DEF ScanInv
  <1>8. \A v \in pending' \ scan' : PassedOver(v)'
    <2> TAKE v \in pending' \ scan'
    <2>1. v = w \/ (v \in pending \ scan /\ v \in Request)
      BY <1>3, <1>7 DEF TypeOK
    <2> QED
      BY <1>3, <1>5, <1>6, <2>1 DEF ScanInv
  <1>9. (Idle \cap closed)' = {}
    BY <1>3, <1>4 DEF ScanInv
  <1> QED
    BY <1>3, <1>7, <1>8, <1>9 DEF ScanInv

\* Every step keeps what pump knows of the list.
LEMMA ScanStep ==
    ASSUME TypeOK, PlaceInv, CountsExact, ScanInv, Next
    PROVE  ScanInv'
  <1>1. CASE phase' = "sweep" /\ scan' = scan /\ phase = "idle"
    BY <1>1 DEF ScanInv
  <1>2. CASE UNCHANGED <<phase, scan, pending, countVars, records, busy>> /\ phase = "idle"
    BY <1>2 DEF ScanInv, PassedOver, IdleOf, Idle, Of, countVars
  <1>3. ASSUME NEW w \in Request,
               \/ AcquireRejected(w) \/ Acquire(w) \/ AbortEarly(w) \/ Abort(w)
               \/ Settle(w) \/ GiveBack(w) \/ Expire(w) \/ PeerCloses(w)
        PROVE  ScanInv'
    <2>1. CASE AcquireRejected(w) \/ AbortEarly(w) \/ PeerCloses(w)
      BY <1>2, <2>1 DEF AcquireRejected, AbortEarly, PeerCloses, Quiet, recordVars, waiterVars
    <2>2. CASE Acquire(w) \/ Settle(w) \/ Expire(w)
      BY <1>1, <2>2 DEF Acquire, Settle, Connected, ConnectFails, Expire, Pump
    <2>3. CASE Abort(w)
      BY <1>1, <1>2, <2>3 DEF Abort, Pump, Quiet, recordVars
    <2>4. CASE GiveBack(w)
      BY <1>1, <1>2, <2>4 DEF GiveBack, Detach, Release, Pump, Quiet, recordVars, waiterVars
    <2> QED
      BY <1>3, <2>1, <2>2, <2>3, <2>4
  <1>4. CASE Close
    BY <1>4 DEF Close, Quiet, ScanInv
  <1>5. CASE Drain
    BY <1>1, <1>5 DEF Drain, Pump
  <1>6. CASE Sweep
    <2>1. ~destroyed => (Idle \cap closed)' = {}
      BY <1>6 DEF Sweep, Drop, Idle
    <2> QED
      BY <1>6, <2>1 DEF Sweep, ScanInv, PlaceInv, waiterVars
  <1>7. CASE ScanReuses
    <2>1. First(scan) \in scan
      BY <1>7, FirstIsFirst DEF ScanReuses
    <2>2. /\ scan' = scan \ {First(scan)} /\ pending' = pending \ {First(scan)}
          /\ phase = "scan" /\ UNCHANGED <<phase, countVars, closed>> /\ Idle' \subseteq Idle
      BY <1>7 DEF ScanReuses, RemovePending, Idle
    <2>3. \A v : PassedOver(v) => PassedOver(v)'
      BY <2>2, StaysPassedOver
    <2> QED
      BY <2>1, <2>2, <2>3 DEF ScanInv
  <1>8. CASE ScanConnects
    BY <1>8, ScanConnectsPasses
  <1>9. CASE ScanEnds
    BY <1>9 DEF ScanEnds, ScanInv, PassedOver, IdleOf, Idle, Of, waiterVars, recordVars,
       countVars
  <1> QED
    BY <1>3, <1>4, <1>5, <1>6, <1>7, <1>8, <1>9 DEF Next, PumpStep

\* Every step keeps what drain waits for.
LEMMA DrainStep ==
    ASSUME TypeOK, PlaceInv, ScanInv, DrainInv, Next
    PROVE  DrainInv'
  <1> USE DEF DrainInv, Empty, waiterVars, recordVars, stateVars
  <1>1. ASSUME NEW w \in Request,
               AcquireRejected(w) \/ Acquire(w) \/ AbortEarly(w) \/ PeerCloses(w)
        PROVE  DrainInv'
    BY <1>1 DEF AcquireRejected, Acquire, AbortEarly, PeerCloses, Quiet, Pump, AppendPending
  <1>2. ASSUME NEW w \in Request, Abort(w)
        PROVE  DrainInv'
    BY <1>2 DEF Abort, Quiet, Pump, RemovePending
  <1>3. ASSUME NEW w \in Request, Settle(w)
        PROVE  DrainInv'
    BY <1>3 DEF Settle, Connected, ConnectFails, Pump
  <1>4. ASSUME NEW w \in Request, GiveBack(w)
        PROVE  DrainInv'
    BY <1>4 DEF GiveBack, Detach, Release, Quiet, Pump, Drop
  <1>5. ASSUME NEW w \in Request, Expire(w)
        PROVE  DrainInv'
    BY <1>5 DEF Expire, Drop, Pump
  <1>6. CASE Close
    BY <1>6 DEF Close
  <1>7. CASE Drain
    BY <1>7 DEF Drain, Pump
  <1>8. CASE Sweep
    BY <1>8 DEF Sweep, Drop
  <1>9. CASE ScanReuses \/ ScanConnects
    <2>1. pending # {}
      BY <1>9, FirstIsFirst DEF ScanReuses, ScanConnects, ScanInv
    <2> QED
      BY <1>9, <2>1 DEF ScanReuses, ScanConnects
  <1>10. CASE ScanEnds
    BY <1>10 DEF ScanEnds
  <1> QED
    BY <1>1, <1>2, <1>3, <1>4, <1>5, <1>6, <1>7, <1>8, <1>9, <1>10 DEF Next, PumpStep

-----------------------------------------------------------------------------
(***************************************************************************)
(* The theorems.                                                           *)
(***************************************************************************)
LEMMA InitInv == Init => Inv
  <1> SUFFICES ASSUME Init
               PROVE  Inv
    OBVIOUS
  <1> USE PoolAssumption DEF Init
  <1>1. TypeOK /\ LeaseInv /\ ScanInv /\ DrainInv
    BY DEF TypeOK, LeaseInv, ScanInv, DrainInv
  <1>2. Slots = {} /\ IsFiniteSet({}) /\ Cardinality({}) = 0
    BY FS_EmptySet DEF Slots
  <1>3. \A o : Of(o, Slots) = {}
    BY <1>2 DEF Of
  <1>4. PlaceInv
    BY <1>2 DEF PlaceInv
  <1>5. CountsExact
    BY <1>2, <1>3 DEF CountsExact, Slots
  <1> QED
    BY <1>1, <1>4, <1>5 DEF Inv

LEMMA StepInv == Inv /\ [Next]_vars => Inv'
  <1> SUFFICES ASSUME Inv, [Next]_vars
               PROVE  Inv'
    OBVIOUS
  <1>1. CASE Next
    <2>1. CountsExact'
      BY <1>1, CountsStep DEF Inv, Booked
    <2> QED
      BY <1>1, <2>1, TypeStep, PlaceStep, LeaseStep, ScanStep, DrainStep DEF Inv
  <1>2. CASE UNCHANGED vars
    <2> USE <1>2 DEF vars, waiterVars, recordVars, countVars, stateVars
    <2>1. TypeOK' /\ PlaceInv' /\ LeaseInv'
      BY DEF Inv, TypeOK, PlaceInv, LeaseInv, Slots
    <2>2. CountsExact' /\ ScanInv' /\ DrainInv'
      BY DEF Inv, CountsExact, ScanInv, PassedOver, IdleOf, Idle, Of, DrainInv, Empty
    <2> QED
      BY <2>1, <2>2 DEF Inv
  <1> QED
    BY <1>1, <1>2

LEMMA Invariant == Spec => []Inv
  BY InitInv, StepInv, PTL DEF Spec

\* A record is leased to exactly one call while it is busy, to none while idle.
LEMMA LeasedOnce ==
    ASSUME Inv
    PROVE  OneLease
  <1> SUFFICES ASSUME NEW r \in records
               PROVE  Cardinality({w \in Request : lease[w] = r}) =
                        IF r \in busy THEN 1 ELSE 0
    BY DEF OneLease
  <1>1. r \in Request /\ r # None /\ ~destroyed
    BY PoolAssumption DEF Inv, TypeOK, PlaceInv
  <1>2. CASE r \in busy
    <2>1. PICK w \in Request : lease[w] = r
      BY <1>2 DEF Inv, LeaseInv
    <2>2. {v \in Request : lease[v] = r} = {w}
      BY <1>1, <2>1 DEF Inv, LeaseInv
    <2> QED
      BY <1>2, <2>2, FS_Singleton
  <1>3. CASE r \notin busy
    <2>1. {v \in Request : lease[v] = r} = {}
      BY <1>1, <1>3 DEF Inv, LeaseInv
    <2> QED
      BY <1>3, <2>1, FS_EmptySet
  <1> QED
    BY <1>2, <1>3

\* Whatever connects, aborts, releases, timers, a drain or a close do between
\* each other, the counters are exactly the connections and the connects under
\* way, both caps hold, and a busy connection has one holder (acquire, connect,
\* release, detach, drop, close).
THEOREM PoolBooksExact == Spec => []PoolSound
  <1>1. Inv => PoolSound
    BY LeasedOnce DEF Inv, PoolSound
  <1> QED
    BY <1>1, Invariant, PTL

\* When pump has ended no call waits that could be served, and no drain that
\* could be resolved (pump, checkDrained).
THEOREM PumpLeavesNothing == Spec => []PumpSound
  <1>1. Inv => PumpSound
    BY DEF Inv, PumpSound, NoStall, DrainExact, PlaceInv, ScanInv, PassedOver, DrainInv
  <1> QED
    BY <1>1, Invariant, PTL

\* A waiter leaves the list with a connection only in a step of pump, which
\* looks at it first.
LEMMA LeavesServed ==
    ASSUME Inv, Next, NEW w \in pending, w \notin pending', answer'[w] # "rejected"
    PROVE  (ScanReuses \/ ScanConnects) /\ w = First(scan)
  <1>1. w \in Request /\ answer[w] = "pending"
    BY DEF Inv, TypeOK, PlaceInv
  <1>2. ~Close
    BY <1>1 DEF Close, Rejected
  <1>3. ASSUME NEW v \in Request
        PROVE  /\ ~AcquireRejected(v) /\ ~Acquire(v) /\ ~AbortEarly(v) /\ ~Settle(v)
               /\ ~GiveBack(v) /\ ~Expire(v) /\ ~PeerCloses(v)
    BY DEF AcquireRejected, Acquire, AppendPending, AbortEarly, Settle, Connected,
           ConnectFails, GiveBack, Detach, Release, Expire, PeerCloses, waiterVars
  <1>4. ASSUME NEW v \in Request, Abort(v)
        PROVE  FALSE
    <2>1. v = w
      BY <1>4 DEF Abort, RemovePending
    <2> QED
      BY <1>1, <1>4, <2>1 DEF Abort, Rejected
  <1>5. ~Drain /\ ~Sweep /\ ~ScanEnds
    BY DEF Drain, Sweep, ScanEnds, waiterVars
  <1>6. ScanReuses \/ ScanConnects
    BY <1>2, <1>3, <1>4, <1>5 DEF Next, PumpStep
  <1> QED
    BY <1>6 DEF ScanReuses, ScanConnects, RemovePending

\* Calls of one origin are served in the order of the list, however pump skips
\* waiters, gives up idle connections and is run again (pump).
THEOREM ServedInOrder == Spec => InOrder
  <1>1. ASSUME Inv, Next, NEW v \in pending, NEW w \in pending,
               OriginOf[v] = OriginOf[w], place[v] < place[w],
               w \notin pending', answer'[w] # "rejected"
        PROVE  v \notin pending'
    <2>1. (ScanReuses \/ ScanConnects) /\ w = First(scan)
      BY <1>1, LeavesServed
    <2>2. scan # {} /\ phase = "scan"
      BY <2>1 DEF ScanReuses, ScanConnects
    <2>3. v \in Request /\ w \in Request /\ place[v] \in Nat /\ place[w] \in Nat
      BY <1>1 DEF Inv, TypeOK
    <2>4. v \notin scan
      BY <1>1, <2>1, <2>2, <2>3, FirstIsFirst DEF Inv
    <2>5. PassedOver(v)
      BY <1>1, <2>2, <2>4 DEF Inv, ScanInv
    <2>6. ~ScanReuses
      BY <1>1, <2>1, <2>5 DEF ScanReuses, PassedOver
    <2>7. ~ScanConnects
      <3>1. \A rs \in Reclaimable : ~(/\ total - Cardinality(rs) < MaxConnections
                                      /\ Less(rs)[OriginOf[w]] < MaxPerOrigin)
        BY <1>1, <2>3, <2>5, NoOvertaking DEF Inv
      <3> QED
        BY <1>1, <2>1, <3>1 DEF ScanConnects
    <2> QED
      BY <2>1, <2>6, <2>7
  <1> DEFINE Ordered ==
        \A v, w \in pending :
          /\ OriginOf[v] = OriginOf[w] /\ place[v] < place[w]
          /\ w \notin pending' /\ answer'[w] # "rejected"
          => v \notin pending'
  <1>2. Inv /\ [Next]_vars => [Ordered]_vars
    BY <1>1
  <1> QED
    BY <1>2, Invariant, PTL DEF Spec, InOrder

-----------------------------------------------------------------------------
(***************************************************************************)
(* The pool implements Leases.                                             *)
(***************************************************************************)
\* While the pool is open the holders are the calls that have a lease; once it
\* is closed there are none.
LEMMA WhoHolds ==
    ASSUME Inv
    PROVE  /\ ~destroyed => Holders = {w \in Request : lease[w] # None}
           /\ destroyed => Holders = {}
           /\ \A w \in Holders : /\ lease[w] \in busy /\ lease[w] \in Request
                                 /\ answer[w] = "lease" /\ OriginOf[lease[w]] = OriginOf[w]
           /\ \A v, w \in Holders : lease[v] = lease[w] => v = w
  <1>1. None \notin records
    BY PoolAssumption DEF Inv, TypeOK
  <1>2. destroyed => records = {}
    BY DEF Inv, PlaceInv
  <1>3. \A w \in Holders : lease[w] # None /\ ~destroyed
    BY <1>1, <1>2 DEF Holders
  <1> QED
    BY <1>1, <1>2, <1>3 DEF Holders, Inv, LeaseInv, TypeOK

\* Records that nobody holds come and go without a holder seeing it.
LEMMA HoldersKept ==
    ASSUME Inv, UNCHANGED lease, records' \subseteq records, busy \subseteq records'
    PROVE  Holders' = Holders
  BY WhoHolds DEF Holders

LEMMA CallersStutter ==
    ASSUME UNCHANGED <<answer, lease>>, Holders' = Holders,
           (records \ closed)' = records \ closed
    PROVE  UNCHANGED Callers!leaseVars
  BY DEF Callers!leaseVars

\* Calls are refused, leases end and connections close.
LEMMA CallersEnd ==
    ASSUME Inv, NEW rs \in SUBSET Request, \A w \in rs : answer[w] \in {"new", "pending"},
           NEW gs \in SUBSET Holders,
           answer' = [w \in Request |-> IF w \in rs THEN "rejected" ELSE answer[w]],
           Holders' = Holders \ gs, \A w \in Holders \ gs : lease'[w] = lease[w],
           (records \ closed)' \subseteq records \ closed
    PROVE  Callers!End
  <1> DEFINE asked == {w \in Request : answer[w] = "pending"}
             refused == {w \in Request : answer[w] = "rejected"}
             held == [w \in Holders |-> lease[w]]
             given == {w \in Request : answer[w] = "lease"} \ Holders
  <1>1. /\ asked' = asked \ rs
        /\ refused' = refused \cup rs
    BY DEF Inv, TypeOK
  <1>2. DOMAIN held = Holders
    OBVIOUS
  <1>3. rs \in SUBSET (asked \cup (Request \ (asked \cup refused \cup Holders \cup given)))
    <2>1. \A w \in rs : w \notin Holders
      BY WhoHolds
    <2> QED
      BY <2>1
  <1>4. held' = [w \in Holders \ gs |-> held[w]]
    OBVIOUS
  <1>5. given' = given \cup gs
    <2>1. \A w \in gs : w \in Request /\ answer[w] = "lease" /\ w \in Holders
      BY WhoHolds DEF Holders
    <2>2. \A w \in Request : answer'[w] = "lease" <=> answer[w] = "lease"
      BY DEF Inv, TypeOK
    <2> QED
      BY <2>1, <2>2
  <1> HIDE DEF asked, refused, held, given
  <1>6. \E ss \in SUBSET (asked \cup (Request \ (asked \cup refused \cup DOMAIN held \cup given))) :
          refused' = refused \cup ss /\ asked' = asked \ ss
    BY <1>1, <1>2, <1>3
  <1>7. \E ss \in SUBSET DOMAIN held :
          held' = [w \in DOMAIN held \ ss |-> held[w]] /\ given' = given \cup ss
    BY <1>2, <1>4, <1>5
  <1>8. (records \ closed)' \in SUBSET (records \ closed)
    OBVIOUS
  <1> QED
    BY <1>6, <1>7, <1>8 DEF Callers!End, Callers!Fresh, Callers!leased, Callers!Restrict,
                      asked, refused, held, given

\* Connections go that no call holds.
LEMMA CallersGone ==
    ASSUME Inv, UNCHANGED <<answer, lease>>, records' \subseteq records,
           busy \subseteq records', (records \ closed)' \subseteq records \ closed
    PROVE  Callers!End
  <1>1. Holders' = Holders \ {} /\ \A w \in Holders \ {} : lease'[w] = lease[w]
    BY HoldersKept
  <1>2. answer' = [w \in Request |-> IF w \in {} THEN "rejected" ELSE answer[w]]
    BY DEF Inv, TypeOK
  <1>3. {} \in SUBSET Request /\ {} \in SUBSET Holders
    OBVIOUS
  <1>4. \A w \in {} : answer[w] \in {"new", "pending"}
    OBVIOUS
  <1> QED
    BY <1>1, <1>2, <1>3, <1>4, CallersEnd

\* Before a lease is granted there is room for it: the leases out are of busy
\* records, and the slot it gets is not.
LEMMA RoomForLease ==
    ASSUME Inv, NEW r \in Slots \ busy, NEW o \in Origin, OriginOf[r] = o
    PROVE  /\ Cardinality(Holders) < MaxConnections
           /\ Cardinality({w \in Holders : OriginOf[w] = o}) < MaxPerOrigin
  <1> USE PoolAssumption
  <1>1. /\ IsFiniteSet(Slots) /\ Cardinality(Slots) <= MaxConnections
        /\ Cardinality(Of(o, Slots)) <= MaxPerOrigin
    BY DEF Inv, PlaceInv, CountsExact, Slots
  <1> DEFINE others == Slots \ {r}
             leases == [w \in Holders |-> lease[w]]
             mine == {w \in Holders : OriginOf[w] = o}
             leasesOf == [w \in mine |-> lease[w]]
  <1>2. /\ IsFiniteSet(others) /\ Cardinality(others) = Cardinality(Slots) - 1
        /\ Cardinality(Slots) \in Nat /\ Cardinality(others) \in Nat
    BY <1>1, FS_RemoveElement, FS_CardinalityType
  <1>3. leases \in Injection(Holders, others)
    <2>1. \A w \in Holders : lease[w] \in others
      BY WhoHolds DEF Inv, TypeOK, Slots
    <2> QED
      BY <2>1, WhoHolds DEF Injection, IsInjective
  <1>4. /\ IsFiniteSet(Holders) /\ Cardinality(Holders) <= Cardinality(others)
        /\ Cardinality(Holders) \in Nat
    <2> HIDE DEF leases, others
    <2> QED
      BY <1>2, <1>3, FS_Injection, FS_CardinalityType
  <1>5. Of(o, others) = Of(o, Slots) \ {r} /\ r \in Of(o, Slots)
    BY DEF Of
  <1>6. IsFiniteSet(Of(o, Slots))
    <2>1. Of(o, Slots) \in SUBSET Slots
      BY DEF Of
    <2> QED
      BY <1>1, <2>1, FS_Subset
  <1>7. /\ IsFiniteSet(Of(o, others)) /\ Cardinality(Of(o, others)) \in Nat
        /\ Cardinality(Of(o, others)) = Cardinality(Of(o, Slots)) - 1
        /\ Cardinality(Of(o, Slots)) \in Nat
    <2>1. /\ IsFiniteSet(Of(o, Slots) \ {r})
          /\ Cardinality(Of(o, Slots) \ {r}) = Cardinality(Of(o, Slots)) - 1
      BY <1>5, <1>6, FS_RemoveElement
    <2> QED
      BY <1>5, <1>6, <2>1, FS_CardinalityType
  <1>8. leasesOf \in Injection(mine, Of(o, others))
    <2>1. \A w \in mine : lease[w] \in Of(o, others)
      BY WhoHolds DEF Inv, TypeOK, Slots, Of
    <2> QED
      BY <2>1, WhoHolds DEF Injection, IsInjective
  <1>9. Cardinality(mine) <= Cardinality(Of(o, others)) /\ Cardinality(mine) \in Nat
    <2> HIDE DEF leasesOf, others, mine
    <2> QED
      BY <1>7, <1>8, FS_Injection, FS_CardinalityType
  <1> HIDE DEF others, mine
  <1>10. Cardinality(Holders) < MaxConnections
    BY <1>1, <1>2, <1>4
  <1>11. Cardinality(mine) < MaxPerOrigin
    BY <1>1, <1>7, <1>9
  <1> QED
    BY <1>10, <1>11 DEF mine

\* The instance counts as the pool does.
LEMMA SameCardinality == \A S : Callers!Cardinality(S) = Cardinality(S)
  BY DEF Callers!Cardinality, Cardinality

\* A waiter gets a slot of its origin that is not leased and not closed.
LEMMA CallersGrant ==
    ASSUME Inv, ~destroyed, NEW w \in Request, answer[w] = "pending",
           NEW r \in Slots \ busy, OriginOf[r] = OriginOf[w],
           lease' = [lease EXCEPT ![w] = r], answer' = [answer EXCEPT ![w] = "lease"],
           records' = records \cup {r}, UNCHANGED closed, r \notin closed,
           r = w \/ r \in records
    PROVE  Callers!Grant(w, r)
  <1> USE PoolAssumption
  <1>1. w \notin Holders /\ r \in Request /\ lease[w] = None
    BY WhoHolds DEF Inv, TypeOK, Slots, LeaseInv
  <1>2. Holders' = Holders \cup {w}
    <2>1. \A v \in Request : v # w /\ lease[v] # None => lease[v] \in busy
      BY DEF Inv, LeaseInv
    <2>2. \A v \in Request : v # w => lease'[v] = lease[v]
      BY DEF Inv, TypeOK
    <2>3. lease'[w] = r
      BY DEF Inv, TypeOK
    <2>4. busy \subseteq records /\ None \notin records /\ None # r
      BY <1>1 DEF Inv, TypeOK
    <2> QED
      BY <1>1, <2>1, <2>2, <2>3, <2>4 DEF Holders
  <1> DEFINE asked == {v \in Request : answer[v] = "pending"}
             refused == {v \in Request : answer[v] = "rejected"}
             held == [v \in Holders |-> lease[v]]
             given == {v \in Request : answer[v] = "lease"} \ Holders
  <1>3. DOMAIN held = Holders
    OBVIOUS
  <1>4. held' = [v \in Holders \cup {w} |-> IF v = w THEN r ELSE held[v]]
    BY <1>1, <1>2 DEF Inv, TypeOK, Holders
  <1>5. r \notin {held[v] : v \in DOMAIN held}
    BY WhoHolds
  <1>6. w \in asked /\ asked' = asked \ {w} /\ refused' = refused /\ given' = given
    BY <1>2 DEF Inv, TypeOK
  <1>7. /\ Cardinality(Holders) < MaxConnections
        /\ Cardinality({v \in Holders : OriginOf[v] = OriginOf[w]}) < MaxPerOrigin
    BY RoomForLease
  <1>8. Callers!leased = Holders
    BY DEF Callers!leased
  <1>9. Callers!Range(held) = {held[v] : v \in DOMAIN held}
    BY DEF Callers!Range
  <1>10. held' = [v \in Callers!leased \cup {w} |-> IF v = w THEN r ELSE held[v]]
    BY <1>4, <1>8
  <1>11. /\ Callers!Cardinality(Callers!leased) < MaxConnections
         /\ Callers!Cardinality({v \in Callers!leased : OriginOf[v] = OriginOf[w]})
              < MaxPerOrigin
    BY <1>7, <1>8, SameCardinality
  <1>12. r \notin Callers!Range(held)
    BY <1>5, <1>9
  <1>13. (r = w \/ r \in records \ closed) /\ (records \ closed)' = (records \ closed) \cup {r}
    OBVIOUS
  <1> QED
    BY <1>6, <1>10, <1>11, <1>12, <1>13 DEF Callers!Grant

\* Every step of the pool is a step of Leases, or none that a caller sees.
LEMMA CallersStep ==
    ASSUME Inv, Next
    PROVE  Callers!LeasesNext \/ UNCHANGED Callers!leaseVars
  <1>1. Inv'
    BY StepInv
  <1>2. ASSUME NEW w \in Request, AbortEarly(w) \/ PeerCloses(w) \/ Expire(w)
        PROVE  Callers!End
    <2>1. UNCHANGED <<answer, lease>> /\ records' \subseteq records /\ busy \subseteq records'
      BY <1>2 DEF AbortEarly, PeerCloses, Expire, Drop, Idle, recordVars, waiterVars,
                  Inv, TypeOK
    <2>2. (records \ closed)' \subseteq records \ closed
      BY <1>2 DEF AbortEarly, PeerCloses, Expire, Drop, recordVars
    <2> QED
      BY <2>1, <2>2, CallersGone
  <1>3. CASE Sweep \/ ScanConnects \/ ScanEnds \/ Drain
    <2>1. UNCHANGED <<answer, lease>> /\ records' \subseteq records /\ busy \subseteq records'
      BY <1>3 DEF Sweep, ScanConnects, Reclaimable, ScanEnds, Drain, Drop, Idle,
                  recordVars, waiterVars, Inv, TypeOK
    <2>2. (records \ closed)' \subseteq records \ closed
      BY <1>3 DEF Sweep, ScanConnects, ScanEnds, Drain, Drop, recordVars
    <2>3. Callers!End
      BY <2>1, <2>2, CallersGone
    <2> QED
      BY <2>3 DEF Callers!LeasesNext
  <1>4. ASSUME NEW w \in Request, Acquire(w)
        PROVE  Callers!Ask(w)
    <2>1. Holders' = Holders /\ UNCHANGED <<lease, records, closed>>
      BY <1>4 DEF Acquire, Holders, recordVars
    <2>2. answer[w] = "new" /\ answer' = [answer EXCEPT ![w] = "pending"] /\ w \notin Holders
      BY <1>4, WhoHolds DEF Acquire
    <2> QED
      BY <2>1, <2>2 DEF Callers!Ask, Callers!Fresh, Callers!leased, Inv, TypeOK
  <1>5. ASSUME NEW w \in Request, answer[w] \in {"new", "pending"},
               answer' = [answer EXCEPT ![w] = "rejected"], UNCHANGED <<lease, records, closed>>
        PROVE  Callers!End
    <2>1. Holders' = Holders \ {} /\ {} \in SUBSET Holders
          /\ \A v \in Holders \ {} : lease'[v] = lease[v]
      BY <1>5 DEF Holders
    <2>2. {w} \in SUBSET Request /\ \A v \in {w} : answer[v] \in {"new", "pending"}
      BY <1>5
    <2>3. answer' = [v \in Request |-> IF v \in {w} THEN "rejected" ELSE answer[v]]
      BY <1>5 DEF Inv, TypeOK
    <2>4. (records \ closed)' \subseteq records \ closed
      BY <1>5
    <2> QED
      BY <2>1, <2>2, <2>3, <2>4, CallersEnd
  <1>6. ASSUME NEW w \in Request, AcquireRejected(w)
        PROVE  Callers!End
    BY <1>5, <1>6 DEF AcquireRejected, recordVars
  <1>7. ASSUME NEW w \in Request, answer' = Rejected({w}), UNCHANGED <<lease, records, closed>>
        PROVE  Callers!End \/ UNCHANGED Callers!leaseVars
    <2>1. CASE answer[w] = "pending"
      <3>1. answer' = [answer EXCEPT ![w] = "rejected"]
        BY <1>7, <2>1 DEF Rejected, Inv, TypeOK
      <3> QED
        BY <1>5, <1>7, <2>1, <3>1
    <2>2. CASE answer[w] # "pending"
      <3>1. answer' = answer /\ Holders' = Holders
        BY <1>7, <2>2 DEF Rejected, Inv, TypeOK, Holders
      <3> QED
        BY <1>7, <3>1, CallersStutter
    <2> QED
      BY <2>1, <2>2
  <1>8. ASSUME NEW w \in Request, Abort(w) \/ ConnectFails(w)
        PROVE  Callers!End \/ UNCHANGED Callers!leaseVars
    BY <1>7, <1>8 DEF Abort, ConnectFails, recordVars
  <1>9. ASSUME NEW w \in Request, Connected(w)
        PROVE  Callers!End \/ Callers!Grant(w, w) \/ UNCHANGED Callers!leaseVars
    <2>1. CASE destroyed \/ answer[w] # "pending"
      BY <1>7, <1>9, <2>1 DEF Connected
    <2>2. CASE ~destroyed /\ answer[w] = "pending"
      <3>1. w \in Slots \ busy /\ w \notin closed
        BY <1>9, <2>2 DEF Connected, Slots, Inv, PlaceInv, TypeOK
      <3> QED
        BY <1>9, <2>2, <3>1, CallersGrant DEF Connected
    <2> QED
      BY <2>1, <2>2
  <1>10. CASE ScanReuses
    <2> PICK w \in Request : w = First(scan)
      BY <1>10, FirstIsFirst DEF ScanReuses, Inv
    <2>1. w \in pending
      BY <1>10, FirstIsFirst DEF ScanReuses, Inv, ScanInv
    <2>2. answer[w] = "pending" /\ ~destroyed
      BY <2>1 DEF Inv, PlaceInv
    <2>3. PICK r \in Idle : OriginOf[r] = OriginOf[w] /\ lease' = [lease EXCEPT ![w] = r]
      BY <1>10 DEF ScanReuses, IdleOf, Of
    <2>4. /\ r \in Slots \ busy /\ r \in records /\ r \in Request
          /\ r \notin closed
      BY <1>10, <2>3 DEF ScanReuses, Idle, Slots, Inv, TypeOK, ScanInv
    <2>5. /\ answer' = [answer EXCEPT ![w] = "lease"] /\ records' = records \cup {r}
          /\ UNCHANGED closed
      BY <1>10, <2>4 DEF ScanReuses
    <2>6. Callers!Grant(w, r)
      BY <2>2, <2>3, <2>4, <2>5, CallersGrant
    <2> QED
      BY <2>4, <2>6 DEF Callers!LeasesNext
  <1>11. ASSUME NEW w \in Request, GiveBack(w)
         PROVE  Callers!End \/ UNCHANGED Callers!leaseVars
    <2>1. lease[w] # None /\ lease' = [lease EXCEPT ![w] = None] /\ UNCHANGED answer
      BY <1>11 DEF GiveBack, Detach, Release, waiterVars
    <2>2. CASE lease[w] \notin records
      <3>1. records' = records /\ closed' = closed
        BY <1>11, <2>2 DEF GiveBack, Detach, Release, recordVars
      <3>2. destroyed
        BY <2>1, <2>2 DEF Inv, LeaseInv, TypeOK
      <3>3. Holders = {} /\ Holders' = {}
        BY <3>1, <3>2, WhoHolds DEF Holders, Inv, PlaceInv
      <3> QED
        BY <2>1, <3>1, <3>3 DEF Callers!leaseVars
    <2>3. CASE lease[w] \in records
      <3>1. w \in Holders /\ ~destroyed
        BY <2>3 DEF Holders, Inv, PlaceInv
      <3>2. UNCHANGED destroyed
        BY <1>11 DEF GiveBack, Detach, Release, stateVars
      <3>3. Holders' = {v \in Request : lease'[v] # None}
        <4>1. ~destroyed' => Holders' = {v \in Request : lease'[v] # None}
          BY <1>1, PoolAssumption DEF Holders, Inv, LeaseInv, TypeOK, PlaceInv
        <4> QED
          BY <3>1, <3>2, <4>1
      <3>4. Holders = {v \in Request : lease[v] # None}
        BY <3>1, WhoHolds
      <3>5. Holders' = Holders \ {w}
        BY <2>1, <3>3, <3>4 DEF Inv, TypeOK
      <3>6. answer' = [v \in Request |-> IF v \in {} THEN "rejected" ELSE answer[v]]
        BY <2>1 DEF Inv, TypeOK
      <3>7. \A v \in Holders \ {w} : lease'[v] = lease[v]
        BY <2>1, <3>4 DEF Inv, TypeOK
      <3>8. {w} \in SUBSET Holders /\ {} \in SUBSET Request
        BY <3>1
      <3>9. \A v \in {} : answer[v] \in {"new", "pending"}
        OBVIOUS
      <3>10. (records \ closed)' \subseteq records \ closed
        BY <1>11 DEF GiveBack, Detach, Release, Drop, recordVars
      <3>11. Callers!End
        BY <3>5, <3>6, <3>7, <3>8, <3>9, <3>10, CallersEnd
      <3> QED
        BY <3>11
    <2> QED
      BY <2>2, <2>3
  <1>12. CASE Close
    <2> DEFINE rs == {w \in Request : answer[w] = "pending"}
    <2>1. answer' = [w \in Request |-> IF w \in rs THEN "rejected" ELSE answer[w]]
      BY <1>12 DEF Close, Rejected
    <2>2. Holders' = Holders \ Holders
      BY <1>12 DEF Close, Drop, Holders
    <2>3. rs \in SUBSET Request /\ \A w \in rs : answer[w] \in {"new", "pending"}
      OBVIOUS
    <2> HIDE DEF rs
    <2>4. (records \ closed)' \subseteq records \ closed
      BY <1>12 DEF Close, Drop
    <2>5. Callers!End
      BY <2>1, <2>2, <2>3, <2>4, CallersEnd
    <2> QED
      BY <2>5 DEF Callers!LeasesNext
  <1> QED
    BY <1>2, <1>3, <1>4, <1>6, <1>8, <1>9, <1>10, <1>11, <1>12
    DEF Next, PumpStep, Settle, Callers!LeasesNext

\* What the callers see is Leases: every call is answered once, a lease is of a
\* connection to the call's own origin that is open and that nobody else holds,
\* and the leases out never exceed a cap (acquire, connect, release, detach,
\* close).
THEOREM PoolImplementsLeases == Spec => ImplementsLeases
  <1>1. Init => Callers!LeasesInit
    <2> SUFFICES ASSUME Init
                 PROVE  Callers!LeasesInit
      OBVIOUS
    <2>1. Holders = {}
      BY DEF Init, Holders
    <2>2. [w \in Holders |-> lease[w]] = << >>
      BY <2>1
    <2> QED
      BY <2>1, <2>2 DEF Init, Callers!LeasesInit
  <1>2. Inv /\ [Next]_vars => [Callers!LeasesNext]_(Callers!leaseVars)
    <2>1. CASE UNCHANGED vars
      BY <2>1, CallersStutter DEF vars, waiterVars, recordVars, Holders
    <2>2. ASSUME Inv, Next
          PROVE  [Callers!LeasesNext]_(Callers!leaseVars)
      BY <2>2, CallersStep
    <2> QED
      BY <2>1, <2>2
  <1> QED
    BY <1>1, <1>2, Invariant, PTL DEF Spec, ImplementsLeases, Callers!LeasesSpec
=============================================================================
