------------------------------- MODULE Leases -------------------------------
(***************************************************************************)
(* What a connection pool promises its callers: a request for a connection *)
(* is answered once, with a lease or a refusal; a lease is of a connection *)
(* to the request's own origin that is open and that nobody else holds;    *)
(* and the leases out never exceed the caps.                               *)
(***************************************************************************)
EXTENDS Naturals, FiniteSets, Functions

CONSTANTS Request, Origin, OriginOf, MaxConnections, MaxPerOrigin

VARIABLES asked,    \* the requests without an answer
          refused,  \* the requests refused
          held,     \* the connection of each request that holds a lease
          given,    \* the requests whose lease is over
          open      \* the pool's connections that have not closed

leaseVars == <<asked, refused, held, given, open>>

leased == DOMAIN held
Fresh == Request \ (asked \cup refused \cup leased \cup given)

LeasesInit == asked = {} /\ refused = {} /\ held = << >> /\ given = {} /\ open = {}

Ask(r) == /\ r \in Fresh
          /\ asked' = asked \cup {r}
          /\ UNCHANGED <<refused, held, given, open>>

\* A connection is named by the request it was opened for: the lease is of the
\* request's own, just opened, or of one that is still open.
Grant(r, c) ==
    /\ r \in asked
    /\ c = r \/ c \in open
    /\ OriginOf[c] = OriginOf[r] /\ c \notin Range(held)
    /\ Cardinality(leased) < MaxConnections
    /\ Cardinality({s \in leased : OriginOf[s] = OriginOf[r]}) < MaxPerOrigin
    /\ held' = [s \in leased \cup {r} |-> IF s = r THEN c ELSE held[s]]
    /\ asked' = asked \ {r}
    /\ open' = open \cup {c}
    /\ UNCHANGED <<refused, given>>

\* Requests are refused, leases end and connections close: one at a time, or
\* many when the pool closes.
End ==
    /\ \E rs \in SUBSET (asked \cup Fresh) :
         refused' = refused \cup rs /\ asked' = asked \ rs
    /\ \E gs \in SUBSET leased :
         held' = Restrict(held, leased \ gs) /\ given' = given \cup gs
    /\ open' \in SUBSET open

LeasesNext == End \/ \E r \in Request : Ask(r) \/ \E c \in Request : Grant(r, c)

LeasesSpec == LeasesInit /\ [][LeasesNext]_leaseVars
=============================================================================
