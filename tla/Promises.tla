------------------------------ MODULE Promises ------------------------------
(***************************************************************************)
(* Promises as runtime/c/nts_runtime.c settles them: reactions, the        *)
(* resolving functions of an executor, adoption, Promise.all and           *)
(* Promise.race, the microtask queue they all meet in, and the list of     *)
(* rejections nobody has listened to yet.                                  *)
(*                                                                         *)
(* Compiled code calls these operations; a job of the queue runs either    *)
(* more compiled code (a reaction) or one of the runtime's own functions   *)
(* (a hop of an adoption, an element of a combinator).  When a job may run *)
(* is the checkpoint's business: module Checkpoint extends this one.       *)
(*                                                                         *)
(* A payload is represented by the promise it was first settled on, which  *)
(* is all that forwarding can confuse.                                     *)
(***************************************************************************)
EXTENDS Integers, Sequences, SequencesExt, FiniteSets

CONSTANTS
    Promise,      \* the promises of one program
    Kind,         \* how each is settled: see Kinds
    None,         \* no payload, no owner
    MaxJobs,      \* bound: reactions and jobs of the program
    MaxElements,  \* bound: elements given to one combinator
    PairMax       \* UINT32_MAX, the last number of a resolving pair

\* A frame promise is the result of an async function, settled when its frame
\* completes; an executor promise is settled through resolving functions; the
\* others are results of a combinator.
Kinds == {"frame", "executor", "combinator"}

ASSUME PromisesAssumption ==
    /\ IsFiniteSet(Promise)
    /\ None \notin Promise
    /\ \A n \in 0 .. MaxElements : None \notin [1 .. n -> Promise \cup {None}]
    /\ Kind \in [Promise -> Kinds]
    /\ MaxJobs \in Nat
    /\ MaxElements \in Nat
    /\ PairMax \in Nat

VARIABLES
    state,        \* NtsPromise.state
    value,        \* NtsPromise.value
    handled,      \* NtsPromise.handled
    reactions,    \* NtsPromise.reactions, newest first
    resolutions,  \* NtsPromise.resolutions
    pairs,        \* the resolving functions the program was given
    open,         \* async frames that have not completed
    made,         \* promises that exist
    sources,      \* NtsCombinatorSlot.source, by index
    values,       \* NtsCombinator.values, None unless it is a Promise.all's
    remaining,    \* NtsCombinator.remaining
    micro,        \* NtsEnvironment.microtask_queue
    rejected,     \* NtsEnvironment.rejected
    aborted,      \* nts_promise_claim stopped the process
    \* history
    owner,        \* owner[n]: the promise job n waits for, None for a bare job
    ran,          \* the program's jobs that have run
    adopting,     \* promises resolved with a promise by the running code
    after,        \* after[p]: jobs queued behind p's adoption by that same code
    adopted       \* promises that an adoption has subscribed to

promiseVars == <<state, value, handled, reactions, resolutions, pairs, open,
                 made, sources, values, remaining>>
history == <<owner, ran, adopting, after, adopted>>
vars == <<promiseVars, micro, rejected, aborted, history>>

(***************************************************************************)
(* Jobs: what a reaction or an entry of the microtask queue will run.      *)
(***************************************************************************)
UserJob(n) == <<"user", n>>
AdoptionBegin(outer, inner) == <<"begin", outer, inner>>
AdoptionSettled(outer, inner) == <<"settled", outer, inner>>
CombinatorSlot(result, index) == <<"slot", result, index>>
ThenableJob(p) == <<"thenable", p>>

Pending(p) == state[p] = "pending"

(***************************************************************************)
(* Settling and subscribing.  q is the microtask queue as the caller sees  *)
(* it: a job that settles a promise has been shifted off already.          *)
(***************************************************************************)
\* A rejection has a listener if something is subscribed or ever was.
Listened(p) == reactions[p] # <<>> \/ handled[p]

\* The chain is reversed into subscription order and handed to the queue.
Schedule(q, p) ==
    /\ micro' = q \o Reverse(reactions[p])
    /\ reactions' = [reactions EXCEPT ![p] = <<>>]

RejectionCandidate(p) == rejected' = Append(rejected, p)

\* Mutant: no test that the promise is pending.
SettleAgain(q, p, outcome, payload) ==
    /\ state' = [state EXCEPT ![p] = outcome]
    /\ value' = [value EXCEPT ![p] = payload]
    /\ Schedule(q, p)
    /\ IF outcome = "rejected" /\ ~Listened(p)
       THEN RejectionCandidate(p)
       ELSE UNCHANGED rejected

\* A second settlement is ignored.
Settle(q, p, outcome, payload) ==
    IF ~Pending(p)
    THEN /\ micro' = q
         /\ UNCHANGED <<state, value, reactions, rejected>>
    ELSE /\ state' = [state EXCEPT ![p] = outcome]
         /\ value' = [value EXCEPT ![p] = payload]
         /\ Schedule(q, p)
         /\ IF outcome = "rejected" /\ ~Listened(p)
            THEN RejectionCandidate(p)
            ELSE UNCHANGED rejected

\* Copies a settlement.
Forward(q, to, from) == Settle(q, to, state[from], value[from])

\* Part of a mutant: only a pending promise is marked handled.
SubscribeMarksPending(q, p, job) ==
    /\ IF Pending(p)
       THEN /\ handled' = [handled EXCEPT ![p] = TRUE]
            /\ reactions' = [reactions EXCEPT ![p] = <<job>> \o @]
            /\ micro' = q
       ELSE /\ micro' = Append(q, job)
            /\ UNCHANGED <<handled, reactions>>
    /\ UNCHANGED <<state, value, rejected>>

\* Settled already: still a microtask.
Subscribe(q, p, job) ==
    /\ handled' = [handled EXCEPT ![p] = TRUE]
    /\ IF Pending(p)
       THEN /\ reactions' = [reactions EXCEPT ![p] = <<job>> \o @]
            /\ micro' = q
       ELSE /\ micro' = Append(q, job)
            /\ UNCHANGED reactions
    /\ UNCHANGED <<state, value, rejected>>

(***************************************************************************)
(* The program's jobs.                                                     *)
(***************************************************************************)
NextJob == Len(owner) + 1

\* Job NextJob is made, behind the adoptions the running code has begun if it
\* goes straight to the queue.
MakeJob(p, queued) ==
    /\ NextJob <= MaxJobs
    /\ owner' = Append(owner, p)
    /\ after' = IF queued
                THEN [o \in Promise |->
                        IF o \in adopting THEN after[o] \cup {NextJob} ELSE after[o]]
                ELSE after
    /\ UNCHANGED <<ran, adopting, adopted>>

\* await p, or p.then(...): a reaction that runs compiled code.
Await(p) ==
    /\ p \in made
    /\ MakeJob(p, ~Pending(p))
    /\ Subscribe(micro, p, UserJob(NextJob))
    /\ UNCHANGED <<resolutions, pairs, open, made, sources, values, remaining, aborted>>

\* A job of the compiler's making.
EnqueueJob ==
    /\ MakeJob(None, TRUE)
    /\ micro' = Append(micro, UserJob(NextJob))
    /\ UNCHANGED <<promiseVars, rejected, aborted>>

(***************************************************************************)
(* Resolving.                                                              *)
(***************************************************************************)
\* Mutant: subscribes at once, saving a hop.
AdoptOneHop(outer, inner) ==
    /\ Subscribe(micro, inner, AdoptionSettled(outer, inner))
    /\ adopting' = adopting \cup {outer}
    /\ adopted' = adopted \cup {inner}
    /\ UNCHANGED <<owner, ran, after>>

Adopt(outer, inner) ==
    /\ micro' = Append(micro, AdoptionBegin(outer, inner))
    /\ adopting' = adopting \cup {outer}
    /\ UNCHANGED <<state, value, handled, reactions, rejected, owner, ran, after, adopted>>

SettleNow(p, outcome) ==
    /\ Settle(micro, p, outcome, p)
    /\ UNCHANGED <<handled, history>>

\* An async frame completes: it throws or returns a value, or a promise.
FrameReturn(p) ==
    /\ p \in open
    /\ open' = open \ {p}
    /\ \/ \E outcome \in {"fulfilled", "rejected"} : SettleNow(p, outcome)
       \/ \E inner \in made : Adopt(p, inner)
    /\ UNCHANGED <<resolutions, pairs, made, sources, values, remaining, aborted>>

\* Mutant: the question the settle helpers ask instead.
ClaimsWhilePending(p, pair) == Pending(p)

\* Whether the pair may still resolve the promise; the call spends it.
Claims(p, pair) == resolutions[p] = pair

NextPair(pair) == pair + 1

\* resolve(value), resolve(promise), resolve(thenable) or reject(reason),
\* through the functions numbered `pair`.
Resolve(p, pair) ==
    /\ pair \in pairs[p]
    /\ Claims(p, pair)
    /\ pair < PairMax
    /\ resolutions' = [resolutions EXCEPT ![p] = NextPair(pair)]
    /\ \/ \E outcome \in {"fulfilled", "rejected"} : SettleNow(p, outcome)
       \/ \E inner \in made : Adopt(p, inner)
       \/ /\ micro' = Append(micro, ThenableJob(p))
          /\ UNCHANGED <<state, value, handled, reactions, rejected, history>>
    /\ UNCHANGED <<pairs, open, made, sources, values, remaining, aborted>>

\* The count is about to wrap: the process stops.
ResolveAborts(p, pair) ==
    /\ pair \in pairs[p]
    /\ Claims(p, pair)
    /\ pair = PairMax
    /\ aborted' = TRUE
    /\ UNCHANGED <<promiseVars, micro, rejected, history>>

(***************************************************************************)
(* Combinators.                                                            *)
(***************************************************************************)
\* The array an all fills, allocated with the length of its argument.
ResultArray(elements) == [i \in 1 .. Len(elements) |-> None]

\* A Promise.all has an array to fill, a Promise.race none.
IsAll(p) == values[p] # None

\* The slots of p for the indices in I, in order.
SlotsAt(p, I) ==
    CHOOSE slots \in [1 .. Cardinality(I) -> {CombinatorSlot(p, i) : i \in I}] :
        \A j, k \in DOMAIN slots : j < k => slots[j][3] < slots[k][3]

\* Promise.all or Promise.race: subscribes to every element, in order, before
\* it returns.
MakeCombinator(p, elements, all) ==
    LET of(q) == SlotsAt(p, {i \in DOMAIN elements : elements[i] = q /\ Pending(q)})
        queued == SlotsAt(p, {i \in DOMAIN elements : ~Pending(elements[i])})
        filled == all /\ elements = <<>>
    IN  /\ p \notin made
        /\ Kind[p] = "combinator"
        /\ made' = made \cup {p}
        /\ sources' = [sources EXCEPT ![p] = elements]
        /\ values' = [values EXCEPT ![p] = IF all THEN ResultArray(elements) ELSE None]
        /\ remaining' = [remaining EXCEPT ![p] = Len(elements)]
        /\ handled' = [q \in Promise |->
                         handled[q] \/ \E i \in 1 .. Len(elements) : elements[i] = q]
        /\ reactions' = [q \in Promise |-> Reverse(of(q)) \o reactions[q]]
        /\ micro' = micro \o queued
        /\ state' = [state EXCEPT ![p] = IF filled THEN "fulfilled" ELSE "pending"]
        /\ value' = [value EXCEPT ![p] = IF filled THEN p ELSE None]
        /\ UNCHANGED <<resolutions, pairs, open, rejected, aborted, history>>

\* --remaining == 0
LastFulfilment(result) == remaining[result] = 1

\* Mutant: a rejection counts as a settlement too.
CombinatorCountsRejections(q, result, index) ==
    LET source == sources[result][index]
    IN  IF ~IsAll(result)
        THEN Forward(q, result, source) /\ UNCHANGED <<values, remaining>>
        ELSE /\ values' = [values EXCEPT ![result][index] = value[source]]
             /\ remaining' = [remaining EXCEPT ![result] = @ - 1]
             /\ IF state[source] = "rejected"
                THEN Forward(q, result, source)
                ELSE IF LastFulfilment(result)
                THEN Settle(q, result, "fulfilled", result)
                ELSE /\ micro' = q
                     /\ UNCHANGED <<state, value, reactions, rejected>>

\* One element of `result` has settled.
CombinatorSettled(q, result, index) ==
    LET source == sources[result][index]
    IN  IF ~IsAll(result)
           \/ state[source] = "rejected"
        THEN Forward(q, result, source) /\ UNCHANGED <<values, remaining>>
        ELSE /\ values' = [values EXCEPT ![result][index] = value[source]]
             /\ remaining' = [remaining EXCEPT ![result] = @ - 1]
             /\ IF LastFulfilment(result)
                THEN Settle(q, result, "fulfilled", result)
                ELSE /\ micro' = q
                     /\ UNCHANGED <<state, value, reactions, rejected>>

(***************************************************************************)
(* Running a job.  Compiled code that a user job resumes goes on as the    *)
(* program's actions.                                                      *)
(***************************************************************************)
UserStep(q, n) ==
    /\ ran' = ran \cup {n}
    /\ micro' = q
    /\ UNCHANGED <<promiseVars, rejected, adopted>>

\* The thenable's then is called with a new pair of resolving functions.
ThenableStep(q, p) ==
    /\ pairs' = [pairs EXCEPT ![p] = @ \cup {resolutions[p]}]
    /\ micro' = q
    /\ UNCHANGED <<state, value, handled, reactions, resolutions, open, made,
                   sources, values, remaining, rejected, ran, adopted>>

\* Mutant: the second hop marks only a pending promise handled.
AdoptionBeginMarksPending(q, outer, inner) ==
    /\ SubscribeMarksPending(q, inner, AdoptionSettled(outer, inner))
    /\ adopted' = adopted \cup {inner}
    /\ UNCHANGED <<resolutions, pairs, open, made, sources, values, remaining, ran>>

AdoptionBeginStep(q, outer, inner) ==
    /\ Subscribe(q, inner, AdoptionSettled(outer, inner))
    /\ adopted' = adopted \cup {inner}
    /\ UNCHANGED <<resolutions, pairs, open, made, sources, values, remaining, ran>>

AdoptionSettledStep(q, outer, inner) ==
    /\ Forward(q, outer, inner)
    /\ UNCHANGED <<handled, resolutions, pairs, open, made, sources, values,
                   remaining, ran, adopted>>

SlotStep(q, result, index) ==
    /\ CombinatorSettled(q, result, index)
    /\ UNCHANGED <<handled, resolutions, pairs, open, made, sources, ran, adopted>>

RunJob(q, job) ==
    /\ adopting' = {}
    /\ \/ job[1] = "user" /\ UserStep(q, job[2])
       \/ job[1] = "thenable" /\ ThenableStep(q, job[2])
       \/ job[1] = "begin" /\ AdoptionBeginStep(q, job[2], job[3])
       \/ job[1] = "settled" /\ AdoptionSettledStep(q, job[2], job[3])
       \/ job[1] = "slot" /\ SlotStep(q, job[2], job[3])
    /\ UNCHANGED <<owner, after, aborted>>

RunMicrotask ==
    /\ ~aborted
    /\ micro # <<>>
    /\ RunJob(Tail(micro), Head(micro))

(***************************************************************************)
(* The specification.                                                      *)
(***************************************************************************)
Init ==
    /\ state = [p \in Promise |-> "pending"]
    /\ value = [p \in Promise |-> None]
    /\ handled = [p \in Promise |-> FALSE]
    /\ reactions = [p \in Promise |-> <<>>]
    /\ resolutions = [p \in Promise |-> 0]
    /\ pairs = [p \in Promise |-> IF Kind[p] = "executor" THEN {0} ELSE {}]
    /\ open = {p \in Promise : Kind[p] = "frame"}
    /\ made = {p \in Promise : Kind[p] \in {"frame", "executor"}}
    /\ sources = [p \in Promise |-> <<>>]
    /\ values = [p \in Promise |-> None]
    /\ remaining = [p \in Promise |-> 0]
    /\ micro = <<>>
    /\ rejected = <<>>
    /\ aborted = FALSE
    /\ owner = <<>>
    /\ ran = {}
    /\ adopting = {}
    /\ after = [p \in Promise |-> {}]
    /\ adopted = {}

Elements == UNION {[1 .. n -> made] : n \in 0 .. MaxElements}

\* What compiled code may do.
Program ==
    /\ ~aborted
    /\ \/ \E p \in Promise : \/ Await(p)
                             \/ FrameReturn(p)
                             \/ \E pair \in pairs[p] : Resolve(p, pair)
                             \/ \E pair \in pairs[p] : ResolveAborts(p, pair)
                             \/ \E elements \in Elements, all \in BOOLEAN :
                                    MakeCombinator(p, elements, all)
       \/ EnqueueJob

Next == Program \/ RunMicrotask

Spec == Init /\ [][Next]_vars

(***************************************************************************)
(* Properties.                                                             *)
(***************************************************************************)
Job ==
    {UserJob(n) : n \in 1 .. MaxJobs}
        \cup {ThenableJob(p) : p \in Promise}
        \cup {AdoptionBegin(p, q) : p \in Promise, q \in Promise}
        \cup {AdoptionSettled(p, q) : p \in Promise, q \in Promise}
        \cup {CombinatorSlot(p, i) : p \in Promise, i \in 1 .. MaxElements}

\* The type invariant: every queue holds jobs of the program or the runtime.
TypeOK ==
    /\ state \in [Promise -> {"pending", "fulfilled", "rejected"}]
    /\ value \in [Promise -> Promise \cup {None}]
    /\ handled \in [Promise -> BOOLEAN]
    /\ reactions \in [Promise -> Seq(Job)]
    /\ resolutions \in [Promise -> 0 .. PairMax]
    /\ pairs \in [Promise -> SUBSET (0 .. PairMax)]
    /\ open \subseteq made
    /\ made \subseteq Promise
    /\ sources \in [Promise -> Seq(made)]
    /\ \A p \in Promise : /\ Len(sources[p]) <= MaxElements
                          /\ IsAll(p) => /\ values[p] \in Seq(Promise \cup {None})
                                         /\ Len(values[p]) = Len(sources[p])
    /\ remaining \in [Promise -> 0 .. MaxElements]
    /\ micro \in Seq(Job)
    /\ rejected \in Seq(made)
    /\ aborted \in BOOLEAN
    /\ owner \in Seq(Promise \cup {None})
    /\ ran \subseteq 1 .. Len(owner)
    /\ adopting \cup adopted \subseteq made
    /\ after \in [Promise -> SUBSET (1 .. MaxJobs)]

\* Positions of the queue, and of the reaction lists, that hold a job in J.
QueuedAt(J(_)) == {i \in DOMAIN micro : J(micro[i])}
WaitingAt(J(_)) ==
    UNION {{p} \X {i \in DOMAIN reactions[p] : J(reactions[p][i])} : p \in Promise}

\* The ways p can still be settled: a frame that has not returned, a pair of
\* resolving functions that is live, a thenable or an adoption under way.
Routes(p) ==
    LET leads(job) == /\ job[1] \in {"begin", "settled", "thenable"}
                      /\ job[2] = p
    IN  Cardinality(open \cap {p})
          + Cardinality({pair \in pairs[p] : pair = resolutions[p]})
          + Cardinality(QueuedAt(leads))
          + Cardinality(WaitingAt(leads))

\* The first resolution decides.  A pending promise has exactly one way left
\* to be settled, a settled one none: resolve(later) locks the promise in
\* though it stays pending, no second pair of resolving functions is live at
\* the same time, and none is lost (nts_promise_claim, nts_promise_adopt).
OneRoute ==
    ~aborted => \A p \in made : Kind[p] \in {"frame", "executor"} =>
                    Routes(p) = IF Pending(p) THEN 1 ELSE 0

\* A promise settles once: a race's second element, an all's late rejection
\* and a resolution through a spent pair change nothing (nts_promise_settle).
SettlesOnce ==
    [][\A p \in made : ~Pending(p) => state'[p] = state[p] /\ value'[p] = value[p]]_vars

\* A settlement is carried unchanged along any chain of adoptions, races and
\* rejected alls: payload and outcome both come from the promise that was
\* settled first (nts_promise_forward).
SettlementCarried ==
    \A p \in made :
        /\ Pending(p) <=> value[p] = None
        /\ ~Pending(p) => /\ state[value[p]] = state[p]
                          /\ value[value[p]] = value[p]

\* Reactions of one promise run in subscription order, whether subscribed
\* before it settled or after (nts_promise_schedule, nts_promise_subscribe).
ReactionOrder ==
    \A n \in ran : \A m \in 1 .. n - 1 : owner[m] = owner[n] => m \in ran

\* No reaction is lost, run twice or left on a settled promise: each job of
\* the program has run, or is queued once, or waits on its pending promise.
JobsAccounted ==
    /\ \A n \in 1 .. Len(owner) :
          LET mine(job) == job = UserJob(n)
          IN  Cardinality(ran \cap {n}) + Cardinality(QueuedAt(mine))
                + Cardinality(WaitingAt(mine)) = 1
    /\ \A p \in made : ~Pending(p) => reactions[p] = <<>>

\* Promise.all fulfils exactly when every element has, with the elements'
\* values in input order, and rejects only with an element's rejection; zero
\* remaining means every element fulfilled (nts_combinator_settled).
AllMeansAll ==
    \A p \in made : IsAll(p) =>
        /\ remaining[p] = Cardinality({i \in DOMAIN values[p] : values[p][i] = None})
        /\ \A i \in DOMAIN values[p] : values[p][i] # None =>
              state[sources[p][i]] = "fulfilled" /\ values[p][i] = value[sources[p][i]]
        /\ state[p] = "fulfilled" <=> remaining[p] = 0
        /\ state[p] = "rejected" =>
              \E i \in DOMAIN sources[p] : /\ state[sources[p][i]] = "rejected"
                                           /\ value[sources[p][i]] = value[p]

\* Adopting a promise takes two microtasks: the jobs that the adopting code
\* queues after it run before the outer promise settles, even if the inner one
\* had settled long ago (nts_promise_adopt, nts_adoption_begin).
AdoptionTakesTwoHops ==
    \A p \in made : ~Pending(p) => after[p] \subseteq ran

\* One route settles a promise, and what it carries arrives unchanged.
ResolutionSound == OneRoute /\ SettlementCarried

\* The program's jobs: each once, in order, behind the hops of an adoption.
JobsSound == ReactionOrder /\ JobsAccounted /\ AdoptionTakesTwoHops

\* Someone subscribed to p: compiled code, a combinator or the second hop of an
\* adoption.
Observed(p) ==
    \/ \E n \in 1 .. Len(owner) : owner[n] = p
    \/ \E q \in made, i \in 1 .. MaxElements :
          i \in DOMAIN sources[q] /\ sources[q][i] = p
    \/ p \in adopted

\* The checkpoint can tell every unhandled rejection: a rejected promise that
\* nothing subscribed to is remembered, once, and one that anything subscribed
\* to, even after it rejected, is marked handled (nts_promise_reject_store,
\* nts_promise_subscribe).
RejectionsKnown ==
    /\ \A p \in made : state[p] = "rejected" /\ ~handled[p] =>
          \E i \in DOMAIN rejected : rejected[i] = p
    /\ \A p \in made : Observed(p) => handled[p]
    /\ \A i, j \in DOMAIN rejected : rejected[i] = rejected[j] => i = j
    /\ \A i \in DOMAIN rejected : state[rejected[i]] = "rejected"

=============================================================================
