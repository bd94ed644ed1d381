------------------------------ MODULE Writable ------------------------------
(***************************************************************************)
(* The writable stream of the web platform library (streams/writable.ts):  *)
(* WritableStreamState with its controller and the writer attached to it.  *)
(* Chunks wait in a size-accounted queue, their promises in a list of      *)
(* their own; the sink is asked for one of them at a time, and ends it     *)
(* later. An error or an abort lets the operation in flight end first.     *)
(*                                                                         *)
(* The private methods are functions from stream to stream, so that an     *)
(* action is the whole handler. The two places where a method runs the     *)
(* caller's code and goes on afterwards -- the size of a chunk, and the    *)
(* listeners of the abort signal -- are frames: any call can be made while *)
(* one is there, and nothing asynchronous happens. Elsewhere the sink's    *)
(* code is the last thing a method runs, and calls made from it are calls  *)
(* made right after it.                                                    *)
(***************************************************************************)
EXTENDS Integers, Sequences, SequencesExt, FiniteSets

CONSTANTS Write, Closer, Aborter,   \* the calls of write, close and abort
          Sizes,                    \* the sizes of chunks
          HighWaterMark,
          MaxWriters,               \* bound: getWriter calls that succeed
          None

Call == Write \cup Closer \cup Aborter

AbortRequest == [calls : SUBSET Aborter, wasAlreadyErroring : BOOLEAN]

ASSUME StreamAssumption ==
    /\ Sizes \subseteq Nat /\ HighWaterMark \in Nat /\ MaxWriters \in Nat
    /\ None \notin Call /\ None \notin AbortRequest /\ None \notin 1 .. MaxWriters
    /\ Write \cap Closer = {} /\ Write \cap Aborter = {} /\ Closer \cap Aborter = {}
    /\ Write \cap {"start", "close", "abort"} = {}

VARIABLES
    stream,     \* the fields of WritableStreamState
    answer,     \* the promise of each call: new, called (its frame is on the
                \* stack), pending, fulfilled or rejected
    frames,     \* the methods that wait for the caller's code, the last on top
    writers,    \* how often a writer was attached
    accepted    \* history: the chunks and the close that entered the queue

vars == <<stream, answer, frames, writers, accepted>>

\* An effect: the stream and the answers after a method.
Now == [s |-> stream, a |-> answer]

Settle(e, cs, v) == [e EXCEPT !.a = [c \in Call |-> IF c \in cs THEN v ELSE @[c]]]
Reject(e, cs) == Settle(e, cs, "rejected")

\* WriterPromise; "none" while there is no writer.
Resolved(p) == IF p = "pending" THEN "fulfilled" ELSE p
Rejected(p) == IF p = "none" THEN p ELSE "rejected"

CloseSentinel == [value |-> "close", size |-> 0]

CloseQueuedOrInFlight(s) == s.closeRequest # None \/ s.inFlightClose # None
\* Mutant: an error does not wait for the close in flight.
HasWriteInFlight(s) == s.inFlightWrite # None

HasOperationInFlight(s) == s.inFlightWrite # None \/ s.inFlightClose # None
IsTerminal(s) == s.state \in {"closed", "errored"}

\* The sink is asked for x, unless clearAlgorithms has dropped it.
Invoke(s, x) == IF s.cleared THEN s ELSE [s EXCEPT !.sunk = Append(@, x)]

\* The total is clamped, for the rounding of sizes that are no integers.
Dequeue(s) ==
    LET total == s.totalSize - Head(s.queue).size
    IN  [s EXCEPT !.queue = Tail(@), !.totalSize = IF total < 0 THEN 0 ELSE total]

-----------------------------------------------------------------------------
(* The private methods. *)

\* Mutant: the close that waits is forgotten with the queue.
RejectClosed(e) == [e EXCEPT !.s.closeRequest = None, !.s.closed = Rejected(@)]

RejectCloseAndClosed(e) ==
    [Reject(e, {e.s.closeRequest}) EXCEPT !.s.closeRequest = None, !.s.closed = Rejected(@)]

FinishErroring(e) ==
    LET abort == e.s.pendingAbort
        f == [Reject(e, Range(e.s.writeRequests)) EXCEPT
                !.s.state = "errored", !.s.queue = << >>, !.s.totalSize = 0,
                !.s.writeRequests = << >>, !.s.pendingAbort = None]
    IN  IF abort = None THEN RejectCloseAndClosed(f)
        ELSE IF abort.wasAlreadyErroring THEN RejectCloseAndClosed(Reject(f, abort.calls))
        ELSE [f EXCEPT !.s = [Invoke(@, "abort") EXCEPT !.aborting = abort.calls,
                                                        !.cleared = TRUE]]

StartErroring(e) ==
    LET f == [e EXCEPT !.s.state = "erroring", !.s.ready = Rejected(@)]
    IN  IF ~HasOperationInFlight(e.s) /\ e.s.started THEN FinishErroring(f) ELSE f

Error(e) == IF e.s.state = "writable" THEN StartErroring([e EXCEPT !.s.cleared = TRUE]) ELSE e

DealWithRejection(e) == CASE e.s.state = "writable" -> StartErroring(e)
                          [] e.s.state = "erroring" -> FinishErroring(e)
                          [] OTHER -> e

\* Mutant: a queue that is just full still has room.
UpdateBackpressureLate(e) ==
    LET full == HighWaterMark - e.s.totalSize < 0
    IN  [e EXCEPT !.s.backpressure = full,
                  !.s.ready = IF @ = "none" \/ full = e.s.backpressure THEN @
                              ELSE IF full THEN "pending" ELSE Resolved(@)]

UpdateBackpressure(e) ==
    LET full == HighWaterMark - e.s.totalSize <= 0
    IN  [e EXCEPT !.s.backpressure = full,
                  !.s.ready = IF @ = "none" \/ full = e.s.backpressure THEN @
                              ELSE IF full THEN "pending" ELSE Resolved(@)]

ProcessWrite(s) ==
    [Invoke(s, Head(s.queue).value) EXCEPT !.inFlightWrite = Head(s.writeRequests),
                                           !.writeRequests = Tail(@)]

ProcessClose(s) ==
    [Invoke(Dequeue(s), "close") EXCEPT !.closeRequest = None,
                                        !.inFlightClose = s.closeRequest,
                                        !.cleared = TRUE]

AdvanceQueueIfNeeded(e) ==
    IF ~e.s.started \/ e.s.inFlightWrite # None THEN e
    ELSE IF e.s.state = "erroring" THEN FinishErroring(e)
    ELSE IF e.s.queue = << >> THEN e
    ELSE [e EXCEPT !.s = IF Head(@.queue) = CloseSentinel THEN ProcessClose(@)
                                                          ELSE ProcessWrite(@)]

Becomes(e) == stream' = e.s /\ answer' = e.a

-----------------------------------------------------------------------------
(* write: the size of the chunk is asked for first, and the stream looked   *)
(* at afterwards. A size that throws is taken as 1, one that is no size is  *)
(* found out when the request is in its list already; both error the        *)
(* stream.                                                                  *)

\* Mutant: a chunk is taken behind the close.
AcceptsWhileClosing(s) == s.state = "writable"

Accepts(s) == s.state = "writable" /\ ~CloseQueuedOrInFlight(s)

Enqueue(e, w, size) ==
    AdvanceQueueIfNeeded(UpdateBackpressure(
        [Settle(e, {w}, "pending") EXCEPT
            !.s.writeRequests = Append(@, w),
            !.s.queue = Append(@, [value |-> w, size |-> size]),
            !.s.totalSize = @ + size]))

EnqueueThrows(e, w) ==
    Error([Settle(e, {w}, "pending") EXCEPT !.s.writeRequests = Append(@, w)])

WriteCall(w) ==
    /\ answer[w] = "new" /\ stream.writer # None /\ ~stream.cleared
    /\ frames' = Append(frames, [call |-> w, writer |-> stream.writer])
    /\ answer' = [answer EXCEPT ![w] = "called"]
    /\ UNCHANGED <<stream, writers, accepted>>

\* The size algorithm is gone; so is the stream that would take the chunk.
WriteCleared(w) ==
    /\ answer[w] = "new" /\ stream.writer # None /\ stream.cleared
    /\ answer' = [answer EXCEPT ![w] = "rejected"]
    /\ UNCHANGED <<stream, frames, writers, accepted>>

Returning == Last(frames)

WriteSized(w, size) ==
    /\ frames # << >> /\ Returning.call = w
    /\ frames' = Front(frames)
    /\ LET taken == Returning.writer = stream.writer /\ Accepts(stream) IN
       /\ Becomes(IF taken THEN Enqueue(Now, w, size) ELSE Reject(Now, {w}))
       /\ accepted' = IF taken THEN Append(accepted, w) ELSE accepted
    /\ UNCHANGED writers

WriteSizeThrows(w) ==
    /\ frames # << >> /\ Returning.call = w
    /\ frames' = Front(frames)
    /\ Becomes(Reject(Error(Now), {w}))
    /\ UNCHANGED <<writers, accepted>>

WriteSizeInvalid(w) ==
    /\ frames # << >> /\ Returning.call = w
    /\ frames' = Front(frames)
    /\ Becomes(IF Returning.writer = stream.writer /\ Accepts(stream)
               THEN EnqueueThrows(Now, w) ELSE Reject(Now, {w}))
    /\ UNCHANGED <<writers, accepted>>

-----------------------------------------------------------------------------
(* close and abort, of the writer or of a stream that has none. *)

Close(c) ==
    /\ answer[c] = "new"
    /\ LET taken == ~IsTerminal(stream) /\ ~CloseQueuedOrInFlight(stream) IN
       /\ Becomes(IF ~taken THEN Reject(Now, {c})
                  ELSE AdvanceQueueIfNeeded(
                        [Settle(Now, {c}, "pending") EXCEPT
                           !.s.closeRequest = c,
                           !.s.queue = Append(@, CloseSentinel),
                           !.s.ready = IF stream.backpressure /\ stream.state = "writable"
                                       THEN Resolved(@) ELSE @]))
       /\ accepted' = IF taken THEN Append(accepted, "close") ELSE accepted
    /\ UNCHANGED <<frames, writers>>

\* abort after its signal is triggered.
AbortRest(e, a) ==
    LET already == e.s.state = "erroring"
        calls == IF e.s.pendingAbort = None THEN {} ELSE e.s.pendingAbort.calls
        f == [Settle(e, {a}, "pending") EXCEPT
                !.s.pendingAbort =
                    [calls |-> calls \cup {a},
                     wasAlreadyErroring |-> IF @ = None THEN already ELSE @.wasAlreadyErroring]]
    IN  IF IsTerminal(e.s) THEN Settle(e, {a}, "fulfilled")
        ELSE IF e.s.pendingAbort = None /\ ~already THEN StartErroring(f) ELSE f

\* The first abort of a live stream triggers the signal, whose listeners run.
AbortSignals(a) ==
    /\ answer[a] = "new" /\ ~IsTerminal(stream) /\ ~stream.signalled
    /\ stream' = [stream EXCEPT !.signalled = TRUE]
    /\ frames' = Append(frames, [call |-> a, writer |-> stream.writer])
    /\ answer' = [answer EXCEPT ![a] = "called"]
    /\ UNCHANGED <<writers, accepted>>

AbortSignalled(a) ==
    /\ frames # << >> /\ Returning.call = a
    /\ frames' = Front(frames)
    /\ Becomes(AbortRest(Now, a))
    /\ UNCHANGED <<writers, accepted>>

Abort(a) ==
    /\ answer[a] = "new"
    /\ IsTerminal(stream) \/ stream.signalled
    /\ Becomes(AbortRest(Now, a))
    /\ UNCHANGED <<frames, writers, accepted>>

\* close or abort of a stream that is locked, or any call of a writer that was
\* released.
Refused(c) ==
    /\ answer[c] = "new"
    /\ \/ c \notin Write /\ stream.writer # None
       \/ writers > IF stream.writer = None THEN 0 ELSE 1
    /\ answer' = [answer EXCEPT ![c] = "rejected"]
    /\ UNCHANGED <<stream, frames, writers, accepted>>

\* The controller's error.
ControllerError ==
    /\ stream.state = "writable"
    /\ Becomes(Error(Now))
    /\ UNCHANGED <<frames, writers, accepted>>

-----------------------------------------------------------------------------
(* getWriter and releaseLock. *)

AttachWriter ==
    /\ stream.writer = None /\ writers < MaxWriters
    /\ writers' = writers + 1
    /\ stream' = [stream EXCEPT
         !.writer = writers',
         !.ready = CASE stream.state \in {"erroring", "errored"} -> "rejected"
                     [] stream.state = "writable" /\ ~CloseQueuedOrInFlight(stream)
                        /\ stream.backpressure -> "pending"
                     [] OTHER -> "fulfilled",
         !.closed = CASE stream.state = "errored" -> "rejected"
                      [] stream.state = "closed" -> "fulfilled"
                      [] OTHER -> "pending"]
    /\ UNCHANGED <<answer, frames, accepted>>

ReleaseWriter ==
    /\ stream.writer # None
    /\ stream' = [stream EXCEPT !.writer = None, !.ready = "none", !.closed = "none"]
    /\ UNCHANGED <<answer, frames, writers, accepted>>

-----------------------------------------------------------------------------
(* What the sink was asked for ends. *)

Ended == frames = << >> /\ UNCHANGED <<frames, writers, accepted>>

StartEnds(ok) ==
    /\ Ended /\ ~stream.started
    /\ LET e == [Now EXCEPT !.s.started = TRUE] IN
       Becomes(IF ok THEN AdvanceQueueIfNeeded(e) ELSE DealWithRejection(e))

FinishWrite(ok) ==
    /\ Ended /\ stream.inFlightWrite # None
    /\ LET e == [Settle(Now, {stream.inFlightWrite}, IF ok THEN "fulfilled" ELSE "rejected")
                 EXCEPT !.s = [Dequeue(@) EXCEPT !.inFlightWrite = None]]
           open == stream.state = "writable"
       IN  Becomes(IF ok
                   THEN AdvanceQueueIfNeeded(IF open /\ ~CloseQueuedOrInFlight(stream)
                                             THEN UpdateBackpressure(e) ELSE e)
                   ELSE DealWithRejection([e EXCEPT !.s.cleared = @ \/ open]))

FinishInFlightClose ==
    /\ Ended /\ stream.inFlightClose # None
    /\ LET aborts == IF stream.state = "erroring" /\ stream.pendingAbort # None
                     THEN stream.pendingAbort.calls ELSE {}
       IN  Becomes([Settle(Now, {stream.inFlightClose} \cup aborts, "fulfilled") EXCEPT
                      !.s.inFlightClose = None, !.s.state = "closed",
                      !.s.pendingAbort = IF stream.state = "erroring" THEN None ELSE @,
                      !.s.closed = Resolved(@)])

FinishInFlightCloseWithError ==
    /\ Ended /\ stream.inFlightClose # None
    /\ LET aborts == IF stream.pendingAbort = None THEN {} ELSE stream.pendingAbort.calls
       IN  Becomes(DealWithRejection(
                     [Reject(Now, {stream.inFlightClose} \cup aborts) EXCEPT
                        !.s.inFlightClose = None, !.s.pendingAbort = None]))

SettleAbort(ok) ==
    /\ Ended /\ stream.aborting # {}
    /\ Becomes(RejectCloseAndClosed(
                 [Settle(Now, stream.aborting, IF ok THEN "fulfilled" ELSE "rejected")
                  EXCEPT !.s.aborting = {}]))

-----------------------------------------------------------------------------
Init ==
    /\ stream = [state |-> "writable", started |-> FALSE, cleared |-> FALSE,
                 backpressure |-> HighWaterMark = 0, queue |-> << >>, totalSize |-> 0,
                 writeRequests |-> << >>, closeRequest |-> None, inFlightWrite |-> None,
                 inFlightClose |-> None, pendingAbort |-> None, aborting |-> {},
                 signalled |-> FALSE, writer |-> None, ready |-> "none", closed |-> "none",
                 sunk |-> << >>]
    /\ answer = [c \in Call |-> "new"]
    /\ frames = << >> /\ writers = 0 /\ accepted = << >>

Returns == \/ \E w \in Write : \/ \E size \in Sizes : WriteSized(w, size)
                               \/ WriteSizeThrows(w) \/ WriteSizeInvalid(w)
           \/ \E a \in Aborter : AbortSignalled(a)

SinkEnds == \/ \E ok \in BOOLEAN : StartEnds(ok) \/ FinishWrite(ok) \/ SettleAbort(ok)
            \/ FinishInFlightClose \/ FinishInFlightCloseWithError

Next == \/ Returns \/ SinkEnds
        \/ \E w \in Write : WriteCall(w) \/ WriteCleared(w)
        \/ \E c \in Closer : Close(c)
        \/ \E a \in Aborter : AbortSignals(a) \/ Abort(a)
        \/ \E c \in Call : Refused(c)
        \/ ControllerError \/ AttachWriter \/ ReleaseWriter

Spec == Init /\ [][Next]_vars

\* The caller's code returns, and the sink ends what it was asked for.
Fairness == WF_vars(Returns) /\ WF_vars(SinkEnds)

FairSpec == Spec /\ Fairness

-----------------------------------------------------------------------------
(* Properties. *)

Promise == {"none", "pending", "fulfilled", "rejected"}
Status == {"new", "called", "pending", "fulfilled", "rejected"}
Takes == Write \cup {"close"}
Asks == Takes \cup {"abort"}
Item == [value : Takes, size : Nat]

StreamRecord ==
    [state : {"writable", "erroring", "errored", "closed"},
     started : BOOLEAN, cleared : BOOLEAN, signalled : BOOLEAN, backpressure : BOOLEAN,
     queue : Seq(Item), totalSize : Nat, writeRequests : Seq(Write),
     inFlightWrite : Write \cup {None}, closeRequest : Closer \cup {None},
     inFlightClose : Closer \cup {None}, pendingAbort : AbortRequest \cup {None},
     aborting : SUBSET Aborter, writer : (1 .. MaxWriters) \cup {None},
     ready : Promise, closed : Promise, sunk : Seq(Asks)]

\* Type correctness of the stream.
TypeOK ==
    /\ stream \in StreamRecord
    /\ answer \in [Call -> Status]
    /\ frames \in Seq([call : Write \cup Aborter, writer : (1 .. MaxWriters) \cup {None}])
    /\ writers \in 0 .. MaxWriters
    /\ accepted \in Seq(Takes)
    /\ stream.writer = None <=> stream.ready = "none"
    /\ stream.writer = None <=> stream.closed = "none"

\* A chunk's request is found where the chunk is: the chunks of the queue are
\* the write in flight and the requests behind it (an erroring stream may have
\* one more request, whose size was refused), the sentinel stands at the end
\* as long as the close waits, and the total is that of the queue. The two
\* throws "lost its request" are never reached.
Values(q) == [i \in 1 .. Len(q) |-> q[i].value]
Total(q) ==
    LET total[n \in 0 .. Len(q)] == IF n = 0 THEN 0 ELSE total[n - 1] + q[n].size
    IN  total[Len(q)]
InFlight == IF stream.inFlightWrite = None THEN << >> ELSE <<stream.inFlightWrite>>

RequestsMatchQueue ==
    LET requests == InFlight \o stream.writeRequests
        closing == IF stream.closeRequest = None THEN << >> ELSE <<"close">>
    IN  /\ stream.totalSize = Total(stream.queue)
        /\ stream.state = "writable" => Values(stream.queue) = requests \o closing
        /\ stream.state = "erroring" =>
             \E n \in {Len(requests), Len(requests) - 1} :
                n >= 0 /\ Values(stream.queue) = SubSeq(requests, 1, n) \o closing

\* The writer's ready tells whether the queue has room, and nothing is waited
\* for once the stream closes; its closed tells how the stream ended (a writer
\* attached while the sink aborts finds it rejected, an earlier one waits).
WriterTold ==
    stream.writer # None =>
        /\ stream.ready \in CASE stream.state \in {"erroring", "errored"} -> {"rejected"}
                              [] stream.state = "writable" ->
                                   IF ~CloseQueuedOrInFlight(stream)
                                      /\ stream.totalSize >= HighWaterMark
                                   THEN {"pending"} ELSE {"fulfilled"}
                              [] OTHER -> {"fulfilled", "rejected"}
        /\ stream.closed \in CASE stream.state = "closed" -> {"fulfilled"}
                               [] stream.state = "errored" ->
                                    {"rejected"} \cup {"pending" : a \in stream.aborting}
                               [] OTHER -> {"pending"}

\* Nothing is left behind: an open stream that has started is working while
\* its queue holds something, an erroring one waits for an operation in
\* flight or for the start, and one that has ended answers every call.
NothingLeft ==
    /\ stream.state = "writable" /\ stream.started /\ stream.queue # << >>
          => stream.inFlightWrite # None
    /\ stream.state = "erroring" => ~stream.started \/ HasOperationInFlight(stream)
    /\ IsTerminal(stream) /\ stream.aborting = {} => \A c \in Call : answer[c] # "pending"

\* The books of the stream: types, queue and requests, work left.
StreamSound == TypeOK /\ RequestsMatchQueue /\ NothingLeft

\* The stream keeps the promises of Sink.
Contract == INSTANCE Sink
    WITH begun <- stream.sunk,
         doing <- (IF stream.started THEN {} ELSE {"start"})
                  \cup ({stream.inFlightWrite} \ {None})
                  \cup (IF stream.inFlightClose = None THEN {} ELSE {"close"})
                  \cup (IF stream.aborting = {} THEN {} ELSE {"abort"}),
         fulfilled <- {w \in Write : answer[w] = "fulfilled"}
ImplementsSink == Contract!SinkSpec

\* Every call is answered.
CallsAnswered == \A c \in Call : answer[c] \in {"called", "pending"}
                                    ~> answer[c] \in {"fulfilled", "rejected"}
=============================================================================
