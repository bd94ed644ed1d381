--------------------------- MODULE ConnectionPool ---------------------------
(***************************************************************************)
(* The HTTP/1 connection pool of the web platform library                  *)
(* (http1/pool.ts): requests wait in one list, are given an idle           *)
(* connection of their origin or one that is opened for them, and give it  *)
(* back. Every operation ends in `pump`, which runs to its end before      *)
(* anything else does: phase and scan are its place in the list, and the   *)
(* other actions wait for it. Connections are opened asynchronously; what  *)
(* happens meanwhile (an abort, a drain, a close) is found out when the    *)
(* connect settles.                                                        *)
(*                                                                         *)
(* A record is named by the request that its connection was opened for.    *)
(***************************************************************************)
EXTENDS Integers, FiniteSets

CONSTANTS Request,          \* the calls of acquire
          Origin, OriginOf, \* the pool's keys, and the key of each call
          MaxConnections, MaxPerOrigin, MaxPending,
          None

ASSUME PoolAssumption ==
    /\ OriginOf \in [Request -> Origin] /\ None \notin Request
    /\ {MaxConnections, MaxPerOrigin, MaxPending} \subseteq Nat \ {0}

VARIABLES
    answer,     \* each call's promise: new, pending, lease or rejected
    aborted,    \* the calls whose signal is aborted
    pending,    \* the waiters in the list
    place,      \* their places in it, from 1
    connecting, \* the calls a connect is under way for
    records,    \* the pool's connections
    busy,       \* the records leased
    closed,     \* the records whose connection has closed
    lease,      \* the record of each call's lease; None before and after
    counts,     \* connections and connects per origin
    total,      \* and in all
    accepting, destroyed,
    drained,    \* drain's promise: none, pending or resolved
    phase,      \* pump: idle, sweep (the closed connections go) or scan
    scan        \* pump: the waiters it has still to look at

waiterVars == <<answer, aborted, pending, place>>
recordVars == <<records, busy, closed>>
countVars == <<counts, total>>
stateVars == <<accepting, destroyed, drained>>
vars == <<waiterVars, connecting, recordVars, lease, countVars, stateVars, phase, scan>>

-----------------------------------------------------------------------------
Of(o, rs) == {r \in rs : OriginOf[r] = o}

\* The idle connections. The code takes the one added first; which one is
\* taken is left open here.
Idle == records \ busy
IdleOf(o) == Of(o, Idle)

\* Mutant: the list is gone over from its end.
Last(ws) == CHOOSE w \in ws : \A v \in ws : place[w] >= place[v]

First(ws) == CHOOSE w \in ws : \A v \in ws : place[w] <= place[v]

\* appendPending and removePending.
AppendPending(w) ==
    /\ pending' = pending \cup {w}
    /\ place' = [place EXCEPT ![w] = Cardinality(pending) + 1]
RemovePending(w) ==
    /\ pending' = pending \ {w}
    /\ place' = [v \in Request |-> IF v = w THEN 0
                                   ELSE IF place[v] > place[w] THEN place[v] - 1
                                   ELSE place[v]]

\* The counters after these records and connects are gone.
Less(rs) == [o \in Origin |-> counts[o] - Cardinality(Of(o, rs))]

\* drop: the records leave the pool and their connections are closed.
Drop(rs) == /\ records' = records \ rs
            /\ busy' = busy \ rs
            /\ counts' = Less(rs)
            /\ total' = total - Cardinality(rs)
            /\ closed' = closed \ rs

\* rejectWaiter: a promise that is settled stays as it is.
Rejected(ws) == [w \in Request |-> IF w \in ws /\ answer[w] = "pending"
                                   THEN "rejected" ELSE answer[w]]

Pump == phase = "idle" /\ phase' = "sweep" /\ UNCHANGED scan
Quiet == phase = "idle" /\ UNCHANGED <<phase, scan>>

-----------------------------------------------------------------------------
(* acquire, and the signal given to it. *)

AcquireRejected(w) ==
    /\ Quiet
    /\ answer[w] = "new"
    /\ ~accepting \/ w \in aborted \/ Cardinality(pending) >= MaxPending
    /\ answer' = [answer EXCEPT ![w] = "rejected"]
    /\ UNCHANGED <<aborted, pending, place, connecting, recordVars, lease, countVars, stateVars>>

Acquire(w) ==
    /\ answer[w] = "new"
    /\ accepting /\ w \notin aborted /\ Cardinality(pending) < MaxPending
    /\ answer' = [answer EXCEPT ![w] = "pending"]
    /\ AppendPending(w)
    /\ Pump
    /\ UNCHANGED <<aborted, connecting, recordVars, lease, countVars, stateVars>>

AbortEarly(w) ==
    /\ Quiet
    /\ w \notin aborted /\ answer[w] = "new"
    /\ aborted' = aborted \cup {w}
    /\ UNCHANGED <<answer, pending, place, connecting, recordVars, lease,
                   countVars, stateVars>>

\* The signal's callback, until it is unsubscribed: a waiter leaves the list;
\* a connect under way is told, and keeps its place until it settles.
Abort(w) ==
    /\ w \notin aborted /\ answer[w] = "pending"
    /\ aborted' = aborted \cup {w}
    /\ answer' = Rejected({w})
    /\ IF w \in pending THEN Pump /\ RemovePending(w) ELSE Quiet /\ UNCHANGED <<pending, place>>
    /\ UNCHANGED <<connecting, recordVars, lease, countVars, stateVars>>

-----------------------------------------------------------------------------
(* pump. *)

\* Nothing once destroyed; else idle connections that have closed are dropped
\* and the list is gone over from the front.
Sweep ==
    /\ phase = "sweep"
    /\ IF destroyed
       THEN /\ phase' = "idle"
            /\ UNCHANGED <<recordVars, countVars, scan>>
       ELSE /\ phase' = "scan" /\ scan' = pending
            /\ Drop(Idle \cap closed)
    /\ UNCHANGED <<waiterVars, connecting, lease, stateVars>>

\* Mutant: an idle connection of any origin will do.
ScanReusesAny ==
    /\ phase = "scan" /\ scan # {}
    /\ LET w == First(scan) IN
       /\ \E r \in Idle : lease' = [lease EXCEPT ![w] = r] /\ busy' = busy \cup {r}
       /\ answer' = [answer EXCEPT ![w] = "lease"]
       /\ RemovePending(w)
       /\ scan' = scan \ {w}
    /\ UNCHANGED <<aborted, connecting, records, closed, countVars, stateVars, phase>>

\* An idle connection of its origin serves the waiter. (A settled waiter is
\* never found: an abort takes it out of the list.)
ScanReuses ==
    /\ phase = "scan" /\ scan # {}
    /\ LET w == First(scan) IN
       /\ \E r \in IdleOf(OriginOf[w]) :
            /\ lease' = [lease EXCEPT ![w] = r]
            /\ busy' = busy \cup {r}
       /\ answer' = [answer EXCEPT ![w] = "lease"]
       /\ RemovePending(w)
       /\ scan' = scan \ {w}
    /\ UNCHANGED <<aborted, connecting, records, closed, countVars,
                   stateVars, phase>>

\* At the global cap an idle connection of another origin is given up.
Reclaimable == IF total >= MaxConnections /\ Idle # {} THEN {{r} : r \in Idle} ELSE {{}}

\* Then the waiter stays where it is, or a connection is opened for it.
ScanConnects ==
    /\ phase = "scan" /\ scan # {}
    /\ LET w == First(scan)
           o == OriginOf[w] IN
       /\ IdleOf(o) = {}
       /\ \E given \in Reclaimable :
            /\ records' = records \ given
            /\ closed' = closed \ given
            /\ IF total - Cardinality(given) < MaxConnections /\ Less(given)[o] < MaxPerOrigin
               THEN /\ RemovePending(w)
                    /\ connecting' = connecting \cup {w}
                    /\ counts' = [Less(given) EXCEPT ![o] = @ + 1]
                    /\ total' = total - Cardinality(given) + 1
               ELSE /\ counts' = Less(given) /\ total' = total - Cardinality(given)
                    /\ UNCHANGED <<pending, place, connecting>>
       /\ scan' = scan \ {w}
    /\ UNCHANGED <<answer, aborted, busy, lease, stateVars, phase>>

\* checkDrained.
Empty == pending = {} /\ connecting = {} /\ records = {}

ScanEnds ==
    /\ phase = "scan" /\ scan = {}
    /\ phase' = "idle"
    /\ drained' = IF drained = "pending" /\ Empty THEN "resolved" ELSE drained
    /\ UNCHANGED <<waiterVars, connecting, recordVars, lease, countVars, accepting,
                   destroyed, scan>>

-----------------------------------------------------------------------------
(* The connect settles. *)

\* Mutant: a connect whose caller has gone keeps its slot.
ConnectedKeepsSlot(w) ==
    /\ w \in connecting
    /\ connecting' = connecting \ {w}
    /\ IF destroyed \/ answer[w] # "pending"
       THEN /\ answer' = Rejected({w})
            /\ UNCHANGED <<records, busy, lease>>
       ELSE /\ records' = records \cup {w}
            /\ busy' = busy \cup {w}
            /\ lease' = [lease EXCEPT ![w] = w]
            /\ answer' = [answer EXCEPT ![w] = "lease"]
    /\ Pump
    /\ UNCHANGED <<aborted, pending, place, closed, countVars, stateVars>>

Connected(w) ==
    /\ w \in connecting
    /\ connecting' = connecting \ {w}
    /\ IF destroyed \/ answer[w] # "pending"
       THEN /\ counts' = Less({w}) /\ total' = total - 1
            /\ answer' = Rejected({w})
            /\ UNCHANGED <<records, busy, lease>>
       ELSE /\ records' = records \cup {w}
            /\ busy' = busy \cup {w}
            /\ lease' = [lease EXCEPT ![w] = w]
            /\ answer' = [answer EXCEPT ![w] = "lease"]
            /\ UNCHANGED countVars
    /\ Pump
    /\ UNCHANGED <<aborted, pending, place, closed, stateVars>>

\* Mutant: the failure is not told to the call.
ConnectFailsSilently(w) ==
    /\ w \in connecting
    /\ connecting' = connecting \ {w}
    /\ counts' = Less({w}) /\ total' = total - 1
    /\ Pump
    /\ UNCHANGED <<waiterVars, recordVars, lease, stateVars>>

ConnectFails(w) ==
    /\ w \in connecting
    /\ connecting' = connecting \ {w}
    /\ counts' = Less({w}) /\ total' = total - 1
    /\ answer' = Rejected({w})
    /\ Pump
    /\ UNCHANGED <<aborted, pending, place, recordVars, lease, stateVars>>

-----------------------------------------------------------------------------
(* A lease is given back, once; a connection closes or idles too long. *)

\* release: back to idle if it can serve again, else out of the pool. A
\* record that close has dropped is left alone.
Release(w, reusable) ==
    /\ lease[w] # None
    /\ lease' = [lease EXCEPT ![w] = None]
    /\ \/ /\ lease[w] \notin records
          /\ Quiet /\ UNCHANGED <<recordVars, countVars>>
       \/ /\ lease[w] \in records /\ Pump
          /\ IF reusable /\ accepting /\ lease[w] \notin closed
             THEN busy' = busy \ {lease[w]} /\ UNCHANGED <<records, closed, countVars>>
             ELSE Drop({lease[w]})
    /\ UNCHANGED <<waiterVars, connecting, stateVars>>

\* Mutant: detach does not pump, and so not check the drain either.
DetachOnly(w) ==
    /\ lease[w] # None
    /\ lease' = [lease EXCEPT ![w] = None]
    /\ Quiet
    /\ IF lease[w] \in records THEN Drop({lease[w]}) ELSE UNCHANGED <<recordVars, countVars>>
    /\ UNCHANGED <<waiterVars, connecting, stateVars>>

\* detach: the connection leaves the pool without being closed.
Detach(w) ==
    /\ lease[w] # None
    /\ lease' = [lease EXCEPT ![w] = None]
    /\ \/ /\ lease[w] \notin records
          /\ Quiet /\ UNCHANGED <<recordVars, countVars>>
       \/ /\ lease[w] \in records /\ Pump /\ Drop({lease[w]})
    /\ UNCHANGED <<waiterVars, connecting, stateVars>>

\* The timer of an idle connection.
Expire(r) ==
    /\ r \in Idle
    /\ Drop({r})
    /\ Pump
    /\ UNCHANGED <<waiterVars, connecting, lease, stateVars>>

PeerCloses(r) ==
    /\ Quiet
    /\ r \in records \ closed
    /\ closed' = closed \cup {r}
    /\ UNCHANGED <<waiterVars, connecting, records, busy, lease, countVars, stateVars>>

-----------------------------------------------------------------------------
(* The end of the pool. *)

Close ==
    /\ Quiet
    /\ ~destroyed
    /\ destroyed' = TRUE /\ accepting' = FALSE
    /\ answer' = Rejected(Request)
    /\ pending' = {} /\ place' = [w \in Request |-> 0]
    /\ Drop(records)
    /\ drained' = IF drained = "pending" THEN "resolved" ELSE drained
    /\ UNCHANGED <<aborted, connecting, lease>>

\* The idle connections go; the rest is waited for.
Drain ==
    /\ ~destroyed /\ drained = "none"
    /\ accepting' = FALSE
    /\ drained' = "pending"
    /\ Drop(Idle)
    /\ Pump
    /\ UNCHANGED <<waiterVars, connecting, lease, destroyed>>

-----------------------------------------------------------------------------
Init ==
    /\ answer = [w \in Request |-> "new"] /\ aborted = {} /\ pending = {}
    /\ place = [w \in Request |-> 0]
    /\ connecting = {} /\ records = {} /\ busy = {} /\ closed = {}
    /\ lease = [w \in Request |-> None]
    /\ counts = [o \in Origin |-> 0] /\ total = 0
    /\ accepting = TRUE /\ destroyed = FALSE /\ drained = "none"
    /\ phase = "idle" /\ scan = {}

PumpStep == Sweep \/ ScanReuses \/ ScanConnects \/ ScanEnds

GiveBack(w) == Detach(w) \/ \E reusable \in BOOLEAN : Release(w, reusable)
Settle(w) == Connected(w) \/ ConnectFails(w)

Next ==
    \/ PumpStep
    \/ \E w \in Request : \/ AcquireRejected(w) \/ Acquire(w)
                          \/ AbortEarly(w) \/ Abort(w)
                          \/ Settle(w) \/ GiveBack(w)
                          \/ Expire(w) \/ PeerCloses(w)
    \/ Close \/ Drain

Spec == Init /\ [][Next]_vars

\* pump runs to its end; a connect settles (its connector has a timeout), and
\* a request gives its connection back when its exchange is over.
Fairness == /\ WF_vars(PumpStep)
            /\ \A w \in Request : WF_vars(Settle(w)) /\ WF_vars(GiveBack(w))

FairSpec == Spec /\ Fairness

-----------------------------------------------------------------------------
(* Properties. *)

\* Type correctness of the pool.
TypeOK ==
    /\ answer \in [Request -> {"new", "pending", "lease", "rejected"}]
    /\ aborted \cup pending \cup scan \cup connecting \cup records \subseteq Request
    /\ busy \cup closed \subseteq records
    /\ place \in [Request -> Nat]
    /\ lease \in [Request -> Request \cup {None}]
    /\ counts \in [Origin -> Nat] /\ total \in Nat
    /\ accepting \in BOOLEAN /\ destroyed \in BOOLEAN
    /\ drained \in {"none", "pending", "resolved"} /\ phase \in {"idle", "sweep", "scan"}

\* The counters are what they count, connections and connects under way, also
\* those that close or an abort has given up: a slot is neither leaked nor
\* freed twice, and the caps hold.
CountsExact ==
    /\ total = Cardinality(records \cup connecting)
    /\ \A o \in Origin : counts[o] = Cardinality(Of(o, records \cup connecting))
    /\ total <= MaxConnections
    /\ \A o \in Origin : counts[o] <= MaxPerOrigin

\* A connection in the pool is busy exactly while one call holds its lease.
OneLease ==
    \A r \in records :
        Cardinality({w \in Request : lease[w] = r}) = IF r \in busy THEN 1 ELSE 0

\* The pool's books: types, counters, leases.
PoolSound == TypeOK /\ CountsExact /\ OneLease

\* No wakeup is lost: when pump has ended, a call that still waits could not be
\* served -- no connection of its origin is idle, and a cap is reached that no
\* idle connection could be given up for. Only unanswered calls are in the list.
NoStall ==
    \A w \in pending :
        /\ answer[w] = "pending"
        /\ phase = "idle" =>
             /\ IdleOf(OriginOf[w]) = {}
             /\ \/ total >= MaxConnections /\ Idle = {}
                \/ counts[OriginOf[w]] >= MaxPerOrigin

\* drain's promise is pending only while there is something to wait for, and
\* once it is resolved nothing is left that could still be leased.
DrainExact ==
    phase = "idle" => /\ drained = "pending" => ~Empty
                      /\ drained = "resolved" /\ ~destroyed => Empty

\* A pump leaves neither a call nor a drain behind that it could have answered.
PumpSound == NoStall /\ DrainExact

\* Calls of one origin leave the list for a connection, idle or to be opened, in
\* the order they were made.
InOrder ==
    [][\A v, w \in pending :
         /\ OriginOf[v] = OriginOf[w] /\ place[v] < place[w]
         /\ w \notin pending' /\ answer'[w] # "rejected"
         => v \notin pending']_vars

\* The pool keeps the promises of Leases.
Holders == {w \in Request : lease[w] \in records}
Callers == INSTANCE Leases
    WITH asked <- {w \in Request : answer[w] = "pending"},
         refused <- {w \in Request : answer[w] = "rejected"},
         held <- [w \in Holders |-> lease[w]],
         given <- {w \in Request : answer[w] = "lease"} \ Holders,
         open <- records \ closed
ImplementsLeases == Callers!LeasesSpec

\* Every call of acquire is answered, and a drain ends.
Settles == /\ \A w \in Request : (answer[w] = "pending") ~> (answer[w] # "pending")
           /\ (drained = "pending") ~> (drained = "resolved")
=============================================================================
