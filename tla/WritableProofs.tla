--------------------------- MODULE WritableProofs ---------------------------
(***************************************************************************)
(* What holds of the writable stream of Writable for any calls, sizes and  *)
(* high water mark: its books, what its writer is told, and that it keeps  *)
(* the promises of Sink.                                                   *)
(***************************************************************************)
EXTENDS Writable, WellFoundedInduction, NaturalsInduction, TLAPS

Effect == [s : StreamRecord, a : [Call -> Status]]

(***************************************************************************)
(* The inductive invariant, part by part.  The private methods work on     *)
(* streams in the middle of an action, so each part is about any stream s, *)
(* answers a and accepted chunks acc.                                      *)
(***************************************************************************)
\* The sink has one thing to do at a time, and an ended stream keeps nothing
\* but the close that an abort under way will reject.
Flight(s) ==
    /\ ~s.started => ~HasOperationInFlight(s) /\ ~IsTerminal(s)
    /\ s.inFlightWrite # None => s.inFlightClose = None
    /\ s.inFlightClose # None =>
          s.closeRequest = None /\ s.queue = << >> /\ s.writeRequests = << >>
    /\ IsTerminal(s) => /\ ~HasOperationInFlight(s)
                        /\ s.queue = << >> /\ s.writeRequests = << >>
                        /\ s.closeRequest # None => s.aborting # {}
    /\ s.aborting # {} => s.state = "errored"

\* An abort waits only in an erroring stream; it finds the sink's algorithms
\* if it began the erroring, unless a close has taken them.
Aborts(s) ==
    /\ s.pendingAbort # None =>
          /\ s.state = "erroring" /\ s.pendingAbort.calls # {}
          /\ s.pendingAbort.wasAlreadyErroring \/ ~s.cleared \/ s.inFlightClose # None
    /\ s.state = "writable" /\ s.cleared => s.inFlightClose # None

Busy(s) == IF s.inFlightWrite = None THEN 0 ELSE 1
Closing(s) == IF s.closeRequest = None THEN 0 ELSE 1

\* The queue is the write in flight, the requests but the last k, the sentinel.
Match(s, k) ==
    /\ k <= Len(s.writeRequests)
    /\ Len(s.queue) = Busy(s) + Len(s.writeRequests) - k + Closing(s)
    /\ s.inFlightWrite # None => s.queue[1].value = s.inFlightWrite
    /\ \A i \in 1 .. Len(s.writeRequests) - k :
          s.queue[Busy(s) + i].value = s.writeRequests[i]
    /\ s.closeRequest # None => s.queue[Len(s.queue)] = CloseSentinel

Matched(s) ==
    /\ s.totalSize = Total(s.queue)
    /\ s.state = "writable" => Match(s, 0)
    /\ s.state = "erroring" => Match(s, 0) \/ Match(s, 1)

Starts(k, acc) == Len(k) <= Len(acc) /\ \A i \in 1 .. Len(k) : k[i] = acc[i]
Ends(q, acc) ==
    Len(q) <= Len(acc) /\ \A j \in 1 .. Len(q) : q[j].value = acc[Len(acc) - Len(q) + j]

\* What the sink was asked for, and the rest of the queue, are what was
\* accepted.
Lined(s, acc) ==
    ~IsTerminal(s) =>
        /\ Len(s.sunk) + Len(s.queue) = Len(acc) + Busy(s)
        /\ Starts(s.sunk, acc) /\ Ends(s.queue, acc)

\* A close is accepted, and the sink asked for it, once.
Once(s, acc) ==
    /\ "close" \in Range(acc) => CloseQueuedOrInFlight(s) \/ IsTerminal(s)
    /\ "close" \in Range(s.sunk) => s.inFlightClose # None \/ IsTerminal(s)
    /\ "abort" \in Range(s.sunk) => s.state = "errored"

\* The calls whose promise the stream keeps.
Kept(s) ==
    Range(s.writeRequests)
      \cup ({s.inFlightWrite, s.closeRequest, s.inFlightClose} \ {None})
      \cup (IF s.pendingAbort = None THEN {} ELSE s.pendingAbort.calls)
      \cup s.aborting

Distinct(q) == \A i, j \in 1 .. Len(q) : q[i] = q[j] => i = j

\* A promise is pending exactly while the stream keeps it, and kept once.
Owed(s, a) ==
    /\ \A x \in Call : a[x] = "pending" <=> x \in Kept(s)
    /\ Distinct(s.writeRequests)
    /\ s.inFlightWrite \notin Range(s.writeRequests)

Full(s) == s.totalSize >= HighWaterMark

ToldReady(s) ==
    IF s.state \in {"erroring", "errored"} THEN {"rejected"}
    ELSE IF s.state = "closed" THEN {"fulfilled", "rejected"}
    ELSE IF ~CloseQueuedOrInFlight(s) /\ Full(s) THEN {"pending"}
    ELSE {"fulfilled"}

ToldClosed(s) ==
    IF s.state = "closed" THEN {"fulfilled"}
    ELSE IF s.state # "errored" THEN {"pending"}
    ELSE IF s.aborting = {} THEN {"rejected"} ELSE {"pending", "rejected"}

\* What the writer is told; the flag is up to date while chunks are taken.
Told(s) ==
    /\ IF s.writer = None THEN s.ready = "none" /\ s.closed = "none"
                          ELSE s.ready \in ToldReady(s) /\ s.closed \in ToldClosed(s)
    /\ s.state = "writable" /\ ~CloseQueuedOrInFlight(s) => (s.backpressure <=> Full(s))

\* The work goes on.
Going(s) ==
    /\ s.state = "writable" /\ s.started /\ s.queue # << >> => s.inFlightWrite # None
    /\ s.state = "erroring" => ~s.started \/ HasOperationInFlight(s)

Books(s, a, acc) == 
    /\ Flight(s) /\ Aborts(s) /\ Matched(s) /\ Lined(s, acc) /\ Once(s, acc)
    /\ Owed(s, a) /\ Told(s) /\ Going(s)

\* A frame's call has no promise yet, and one frame.
FrameInv ==
    /\ \A i \in 1 .. Len(frames) : answer[frames[i].call] = "called"
    /\ \A i, j \in 1 .. Len(frames) : frames[i].call = frames[j].call => i = j

Inv == TypeOK /\ Books(stream, answer, accepted) /\ FrameInv

-----------------------------------------------------------------------------
(***************************************************************************)
(* The total of a queue.  f holds the totals of its prefixes.              *)
(***************************************************************************)
LEMMA LeastOfNat ==
    ASSUME NEW T \in SUBSET Nat, T # {}
    PROVE  \E n \in T : \A m \in T : n <= m
  <1>1. PICK n \in T : \A m \in T : ~(<<m, n>> \in OpToRel(<, Nat))
    BY WFMin, NatLessThanWellFounded
  <1>2. \A m \in T : ~(m < n)
    BY <1>1 DEF OpToRel
  <1> QED
    BY <1>2

Sums(q, f) ==
    /\ f \in [0 .. Len(q) -> Nat]
    /\ f[0] = 0
    /\ \A n \in 1 .. Len(q) : f[n] = f[n - 1] + q[n].size

LEMMA SumsAppend ==
    ASSUME NEW q \in Seq(Item), NEW x \in Item, NEW f, Sums(q, f)
    PROVE  Sums(Append(q, x), [n \in 0 .. Len(q) + 1 |->
                                 IF n = Len(q) + 1 THEN f[Len(q)] + x.size ELSE f[n]])
  <1> DEFINE g == [n \in 0 .. Len(q) + 1 |->
                      IF n = Len(q) + 1 THEN f[Len(q)] + x.size ELSE f[n]]
             r == Append(q, x)
  <1>1. Len(r) = Len(q) + 1 /\ r[Len(q) + 1] = x /\ \A n \in 1 .. Len(q) : r[n] = q[n]
    OBVIOUS
  <1>2. x.size \in Nat /\ f[Len(q)] \in Nat /\ Len(q) \in Nat
    BY DEF Sums, Item
  <1>3. g \in [0 .. Len(q) + 1 -> Nat]
    BY <1>2 DEF Sums
  <1>4. ASSUME NEW n \in 1 .. Len(q) + 1
        PROVE  g[n] = g[n - 1] + r[n].size
    BY <1>1, <1>2 DEF Sums
  <1>5. g[0] = 0
    BY <1>2 DEF Sums
  <1> HIDE DEF g, r
  <1>6. Sums(r, g)
    BY <1>1, <1>3, <1>4, <1>5 DEF Sums
  <1> QED
    BY <1>6 DEF g, r

LEMMA SumsExist == \A q \in Seq(Item) : \E f : Sums(q, f)
  <1> DEFINE T == {n \in Nat : \E q \in Seq(Item) : Len(q) = n /\ ~\E f : Sums(q, f)}
  <1> SUFFICES ASSUME T # {}
               PROVE  FALSE
    OBVIOUS
  <1>1. PICK n \in T : \A m \in T : n <= m
    <2>1. T \in SUBSET Nat
      OBVIOUS
    <2> HIDE DEF T
    <2> QED
      BY <2>1, LeastOfNat
  <1>2. PICK q \in Seq(Item) : Len(q) = n /\ ~\E f : Sums(q, f)
    OBVIOUS
  <1>3. CASE n = 0
    <2>1. Sums(q, [i \in 0 .. 0 |-> 0])
      BY <1>2, <1>3 DEF Sums
    <2> QED
      BY <1>2, <2>1
  <1>4. CASE n # 0
    <2>0. n \in Nat /\ n - 1 \in Nat /\ n - 1 \notin T
      BY <1>1, <1>4
    <2>1. PICK p \in Seq(Item) : Len(p) = n - 1 /\ q = Append(p, q[n])
      <3>1. SubSeq(q, 1, n - 1) \in Seq(Item) /\ Len(SubSeq(q, 1, n - 1)) = n - 1
        BY <1>2, <1>4, <2>0
      <3>2. q = Append(SubSeq(q, 1, n - 1), q[n])
        BY <1>2, <1>4, <2>0, <3>1
      <3> QED
        BY <3>1, <3>2
    <2>2. PICK f : Sums(p, f)
      BY <2>0, <2>1
    <2>3. q[n] \in Item
      BY <1>2, <1>4, <2>0
    <2> QED
      BY <1>2, <2>1, <2>2, <2>3, SumsAppend
  <1> QED
    BY <1>3, <1>4

LEMMA TotalIs ==
    ASSUME NEW q \in Seq(Item), NEW f, Sums(q, f)
    PROVE  Total(q) = f[Len(q)]
  <1> DEFINE size == Len(q)
             total[n \in 0 .. size] == IF n = 0 THEN 0 ELSE total[n - 1] + q[n].size
  <1>1. \E g : g = [n \in 0 .. size |-> IF n = 0 THEN 0 ELSE g[n - 1] + q[n].size]
    <2>1. f = [n \in 0 .. size |-> IF n = 0 THEN 0 ELSE f[n - 1] + q[n].size]
      BY DEF Sums
    <2> QED
      BY <2>1
  <1>2. total = [n \in 0 .. size |-> IF n = 0 THEN 0 ELSE total[n - 1] + q[n].size]
    <2> HIDE DEF size
    <2> QED
      BY <1>1, Zenon DEF total
  <1> HIDE DEF total
  <1>3. \A n \in 0 .. size : total[n] = f[n]
    <2> DEFINE bad == {n \in 0 .. size : total[n] # f[n]}
    <2> SUFFICES ASSUME bad # {}
                 PROVE  FALSE
      OBVIOUS
    <2>1. PICK k \in bad : \A m \in bad : k <= m
      <3>1. bad \in SUBSET Nat
        OBVIOUS
      <3> HIDE DEF bad
      <3> QED
        BY <3>1, LeastOfNat
    <2>2. k \in 0 .. size /\ total[k] # f[k]
      OBVIOUS
    <2>3. CASE k = 0
      <3>1. total[0] = 0
        BY <1>2
      <3> QED
        BY <2>2, <2>3, <3>1 DEF Sums
    <2>4. CASE k # 0
      <3>1. k \in 1 .. size /\ k - 1 \in 0 .. size /\ k - 1 \notin bad
        BY <2>1, <2>2, <2>4
      <3>2. total[k - 1] = f[k - 1]
        BY <3>1
      <3>3. total[k] = total[k - 1] + q[k].size
        BY <1>2, <2>2, <2>4
      <3> QED
        BY <2>2, <3>1, <3>2, <3>3 DEF Sums
    <2> QED
      BY <2>3, <2>4
  <1>4. Total(q) = total[Len(q)]
    BY DEF Total, total
  <1> QED
    BY <1>3, <1>4

LEMMA TotalNat == ASSUME NEW q \in Seq(Item) PROVE Total(q) \in Nat
  <1>1. PICK f : Sums(q, f)
    BY SumsExist
  <1> QED
    BY <1>1, TotalIs DEF Sums

LEMMA TotalEmpty == Total(<< >>) = 0
  <1>1. \A S : << >> \in Seq(S)
    OBVIOUS
  <1>2. << >> \in Seq(Item)
    BY <1>1, Zenon
  <1>3. PICK f : Sums(<< >>, f)
    BY <1>2, SumsExist
  <1> QED
    BY <1>2, <1>3, TotalIs DEF Sums

LEMMA TotalAppend ==
    ASSUME NEW q \in Seq(Item), NEW x \in Item
    PROVE  Total(Append(q, x)) = Total(q) + x.size
  <1>1. PICK f : Sums(q, f)
    BY SumsExist
  <1> DEFINE g == [n \in 0 .. Len(q) + 1 |->
                      IF n = Len(q) + 1 THEN f[Len(q)] + x.size ELSE f[n]]
             r == Append(q, x)
  <1>2. Sums(r, g)
    BY <1>1, SumsAppend
  <1>3. r \in Seq(Item) /\ Len(r) = Len(q) + 1
    OBVIOUS
  <1>4. g[Len(q) + 1] = f[Len(q)] + x.size
    OBVIOUS
  <1>5. Total(r) = g[Len(r)] /\ Total(q) = f[Len(q)]
    <2> HIDE DEF g, r
    <2> QED
      BY <1>1, <1>2, <1>3, TotalIs
  <1> QED
    BY <1>3, <1>4, <1>5

LEMMA TotalTail ==
    ASSUME NEW q \in Seq(Item), q # << >>
    PROVE  Total(q) = Total(Tail(q)) + Head(q).size
  <1> DEFINE r == Tail(q)
             h == Head(q).size
  <1>1. /\ r \in Seq(Item) /\ Len(r) = Len(q) - 1 /\ Len(q) \in Nat \ {0}
        /\ q[1] = Head(q) /\ \A n \in 2 .. Len(q) : q[n] = r[n - 1]
    OBVIOUS
  <1>0. \A n \in 1 .. Len(q) : q[n] \in Item
    OBVIOUS
  <1>2. h \in Nat
    <2>1. Head(q) \in Item
      BY <1>0, <1>1
    <2> QED
      BY <2>1 DEF Item
  <1>3. PICK f : Sums(r, f)
    BY <1>1, SumsExist
  <1> DEFINE g == [n \in 0 .. Len(q) |-> IF n = 0 THEN 0 ELSE f[n - 1] + h]
  <1>4. g \in [0 .. Len(q) -> Nat]
    BY <1>1, <1>2, <1>3 DEF Sums
  <1>5. ASSUME NEW n \in 1 .. Len(q)
        PROVE  g[n] = g[n - 1] + q[n].size
    <2>1. CASE n = 1
      BY <1>1, <1>2, <1>3, <2>1 DEF Sums
    <2>2. CASE n # 1
      <3>1. n \in 2 .. Len(q) /\ n - 1 \in 1 .. Len(r) /\ q[n] = r[n - 1]
        BY <1>1, <2>2
      <3>2. f[n - 1] = f[n - 2] + q[n].size /\ f[n - 1] \in Nat /\ f[n - 2] \in Nat
        <4>1. f[n - 1] = f[(n - 1) - 1] + r[n - 1].size
          BY <1>3, <3>1 DEF Sums
        <4> QED
          BY <1>3, <3>1, <4>1 DEF Sums
      <3>3. q[n].size \in Nat
        BY <1>0 DEF Item
      <3>4. g[n] = f[n - 1] + h /\ g[n - 1] = f[n - 2] + h
        BY <3>1, <1>1
      <3> HIDE DEF h, g
      <3> QED
        BY <1>2, <3>2, <3>3, <3>4
    <2> QED
      BY <2>1, <2>2
  <1>6. g[0] = 0 /\ g[Len(q)] = f[Len(r)] + h
    BY <1>1
  <1>7. Sums(q, g)
    <2> HIDE DEF g
    <2> QED
      BY <1>4, <1>5, <1>6 DEF Sums
  <1> HIDE DEF g, r
  <1> QED
    BY <1>1, <1>3, <1>6, <1>7, TotalIs DEF r

-----------------------------------------------------------------------------
(***************************************************************************)
(* What the private methods do, field by field.                            *)
(***************************************************************************)
LEMMA EmptySeq == \A S : << >> \in Seq(S)
  OBVIOUS

LEMMA NoneIn == \A S : \A q \in Seq(S) : Len(q) = 0 => q = << >>
  OBVIOUS

LEMMA AppendSeq == \A S : \A q \in Seq(S) : \A x \in S : Append(q, x) \in Seq(S)
  OBVIOUS

\* What no method here changes.
Same(s, t) ==
    /\ t.started = s.started /\ t.signalled = s.signalled
    /\ t.writer = s.writer /\ t.inFlightClose = s.inFlightClose

AbortCalls(s) == IF s.pendingAbort = None THEN {} ELSE s.pendingAbort.calls

\* The abort that waits is the sink's.
Hers(s) == s.pendingAbort # None /\ ~s.pendingAbort.wasAlreadyErroring

Finished(e, f) ==
    /\ Same(e.s, f.s) /\ f.s.inFlightWrite = e.s.inFlightWrite
    /\ f.s.ready = e.s.ready /\ f.s.backpressure = e.s.backpressure
    /\ f.s.state = "errored" /\ f.s.queue = << >> /\ f.s.totalSize = 0
    /\ f.s.writeRequests = << >> /\ f.s.pendingAbort = None
    /\ ~Hers(e.s) =>
          /\ f.s.sunk = e.s.sunk /\ f.s.aborting = e.s.aborting
          /\ f.s.cleared = e.s.cleared /\ f.s.closeRequest = None
          /\ f.s.closed = Rejected(e.s.closed)
          /\ \A c \in Call : f.a[c] = IF c \in Range(e.s.writeRequests) \/ c = e.s.closeRequest
                                         \/ c \in AbortCalls(e.s)
                                      THEN "rejected" ELSE e.a[c]
    /\ Hers(e.s) =>
          /\ f.s.sunk = IF e.s.cleared THEN e.s.sunk ELSE Append(e.s.sunk, "abort")
          /\ f.s.aborting = e.s.pendingAbort.calls
          /\ f.s.closeRequest = e.s.closeRequest /\ f.s.closed = e.s.closed
          /\ \A c \in Call : f.a[c] = IF c \in Range(e.s.writeRequests)
                                      THEN "rejected" ELSE e.a[c]

LEMMA SettleIs ==
    ASSUME NEW e \in Effect, NEW cs, NEW v \in Status
    PROVE  /\ Settle(e, cs, v) \in Effect
           /\ Settle(e, cs, v).s = e.s
           /\ \A c \in Call : Settle(e, cs, v).a[c] = IF c \in cs THEN v ELSE e.a[c]
  BY DEF Settle, Effect

LEMMA RejectCloseAndClosedIs ==
    ASSUME NEW e \in Effect
    PROVE  LET f == RejectCloseAndClosed(e)
           IN  /\ f \in Effect /\ Same(e.s, f.s)
               /\ f.s.closeRequest = None /\ f.s.closed = Rejected(e.s.closed)
               /\ f.s.inFlightWrite = e.s.inFlightWrite
               /\ f.s.ready = e.s.ready /\ f.s.backpressure = e.s.backpressure
               /\ f.s.state = e.s.state /\ f.s.queue = e.s.queue
               /\ f.s.totalSize = e.s.totalSize /\ f.s.writeRequests = e.s.writeRequests
               /\ f.s.pendingAbort = e.s.pendingAbort /\ f.s.sunk = e.s.sunk
               /\ f.s.aborting = e.s.aborting /\ f.s.cleared = e.s.cleared
               /\ \A c \in Call : f.a[c] = IF c = e.s.closeRequest THEN "rejected" ELSE e.a[c]
  <1> DEFINE g == Reject(e, {e.s.closeRequest})
  <1>1. /\ g \in Effect /\ g.s = e.s
        /\ \A c \in Call : g.a[c] = IF c = e.s.closeRequest THEN "rejected" ELSE e.a[c]
    BY SettleIs DEF Reject, Status
  <1>2. RejectCloseAndClosed(e) = [g EXCEPT !.s.closeRequest = None, !.s.closed = Rejected(@)]
    BY DEF RejectCloseAndClosed
  <1> HIDE DEF g
  <1>3. PICK v \in Promise : v = Rejected(e.s.closed)
    BY DEF Effect, StreamRecord, Rejected, Promise
  <1> DEFINE f == [g EXCEPT !.s.closeRequest = None, !.s.closed = v]
  <1>4. /\ f \in Effect /\ f.a = g.a /\ Same(e.s, f.s)
    BY <1>1 DEF Effect, StreamRecord, Same
  <1>5. /\ f.s.closeRequest = None /\ f.s.closed = v
        /\ f.s.inFlightWrite = e.s.inFlightWrite
        /\ f.s.ready = e.s.ready /\ f.s.backpressure = e.s.backpressure
        /\ f.s.state = e.s.state /\ f.s.queue = e.s.queue
        /\ f.s.totalSize = e.s.totalSize /\ f.s.writeRequests = e.s.writeRequests
        /\ f.s.pendingAbort = e.s.pendingAbort /\ f.s.sunk = e.s.sunk
        /\ f.s.aborting = e.s.aborting /\ f.s.cleared = e.s.cleared
    BY <1>1 DEF Effect, StreamRecord
  <1>6. RejectCloseAndClosed(e) = f
    <2>1. [g EXCEPT !.s.closeRequest = None].s.closed = e.s.closed
      BY <1>1 DEF Effect, StreamRecord
    <2> QED
      BY ZenonT(60), <1>2, <1>3, <2>1
  <1> HIDE DEF f
  <1> QED
    BY <1>1, <1>3, <1>4, <1>5, <1>6

LEMMA InvokeIs ==
    ASSUME NEW s \in StreamRecord, NEW x \in Asks
    PROVE  LET h == Invoke(s, x)
           IN  /\ h \in StreamRecord /\ Same(s, h)
               /\ h.sunk = IF s.cleared THEN s.sunk ELSE Append(s.sunk, x)
               /\ h.state = s.state /\ h.queue = s.queue /\ h.totalSize = s.totalSize
               /\ h.writeRequests = s.writeRequests /\ h.pendingAbort = s.pendingAbort
               /\ h.inFlightWrite = s.inFlightWrite /\ h.closeRequest = s.closeRequest
               /\ h.ready = s.ready /\ h.backpressure = s.backpressure
               /\ h.closed = s.closed /\ h.aborting = s.aborting /\ h.cleared = s.cleared
  <1>1. CASE s.cleared
    BY <1>1 DEF Invoke, Same
  <1>2. CASE ~s.cleared
    <2>1. PICK y \in Seq(Asks) : y = Append(s.sunk, x)
      <3>1. s.sunk \in Seq(Asks)
        BY DEF StreamRecord
      <3> QED
        BY <3>1, AppendSeq
    <2>2. Invoke(s, x) = [s EXCEPT !.sunk = y]
      BY <1>2, <2>1 DEF Invoke
    <2> QED
      BY ZenonT(60), <1>2, <2>1, <2>2 DEF StreamRecord, Same
  <1> QED
    BY <1>1, <1>2

LEMMA FinishErroringIs ==
    ASSUME NEW e \in Effect
    PROVE  FinishErroring(e) \in Effect /\ Finished(e, FinishErroring(e))
  <1> DEFINE g == Reject(e, Range(e.s.writeRequests))
             f == [g EXCEPT !.s.state = "errored", !.s.queue = << >>, !.s.totalSize = 0,
                            !.s.writeRequests = << >>, !.s.pendingAbort = None]
  <1>1. /\ g \in Effect /\ g.s = e.s
        /\ \A c \in Call : g.a[c] = IF c \in Range(e.s.writeRequests)
                                    THEN "rejected" ELSE e.a[c]
    BY SettleIs DEF Reject, Status
  <1>2. << >> \in Seq(Item) /\ << >> \in Seq(Write)
    BY EmptySeq, Zenon
  <1>3. /\ f \in Effect /\ Same(e.s, f.s) /\ f.a = g.a
    <2> HIDE DEF g
    <2> QED
      BY ZenonT(60), <1>1, <1>2 DEF Effect, StreamRecord, Same
  <1>4. /\ f.s.state = "errored" /\ f.s.queue = << >> /\ f.s.totalSize = 0
        /\ f.s.writeRequests = << >> /\ f.s.pendingAbort = None
        /\ f.s.inFlightWrite = e.s.inFlightWrite
        /\ f.s.ready = e.s.ready /\ f.s.backpressure = e.s.backpressure
        /\ f.s.closed = e.s.closed /\ f.s.closeRequest = e.s.closeRequest
        /\ f.s.sunk = e.s.sunk /\ f.s.aborting = e.s.aborting /\ f.s.cleared = e.s.cleared
    <2> HIDE DEF g
    <2> QED
      BY <1>1, <1>2 DEF Effect, StreamRecord
  <1>5. FinishErroring(e) = IF e.s.pendingAbort = None THEN RejectCloseAndClosed(f)
           ELSE IF e.s.pendingAbort.wasAlreadyErroring
                THEN RejectCloseAndClosed(Reject(f, e.s.pendingAbort.calls))
           ELSE [f EXCEPT !.s = [Invoke(@, "abort") EXCEPT
                                    !.aborting = e.s.pendingAbort.calls, !.cleared = TRUE]]
    BY DEF FinishErroring
  <1> HIDE DEF f, g
  <1>6. CASE e.s.pendingAbort = None
    <2>1. FinishErroring(e) = RejectCloseAndClosed(f)
      BY <1>5, <1>6
    <2> QED
      BY <1>1, <1>3, <1>4, <1>6, <2>1, RejectCloseAndClosedIs DEF Finished, Same, Hers, AbortCalls
  <1>7. CASE e.s.pendingAbort # None /\ e.s.pendingAbort.wasAlreadyErroring
    <2> DEFINE h == Reject(f, e.s.pendingAbort.calls)
    <2>1. /\ h \in Effect /\ h.s = f.s
          /\ \A c \in Call : h.a[c] = IF c \in e.s.pendingAbort.calls
                                      THEN "rejected" ELSE f.a[c]
      BY <1>3, SettleIs DEF Reject, Status
    <2>2. FinishErroring(e) = RejectCloseAndClosed(h)
      BY <1>5, <1>7
    <2> HIDE DEF h
    <2> QED
      BY <1>1, <1>3, <1>4, <1>7, <2>1, <2>2, RejectCloseAndClosedIs
      DEF Finished, Same, Hers, AbortCalls
  <1>8. CASE e.s.pendingAbort # None /\ ~e.s.pendingAbort.wasAlreadyErroring
    <2> DEFINE h == Invoke(f.s, "abort")
               calls == e.s.pendingAbort.calls
    <2>1. /\ h \in StreamRecord /\ h.sunk = IF e.s.cleared THEN e.s.sunk
                                            ELSE Append(e.s.sunk, "abort")
          /\ Same(e.s, h) /\ h.state = "errored" /\ h.queue = << >> /\ h.totalSize = 0
          /\ h.writeRequests = << >> /\ h.pendingAbort = None
          /\ h.inFlightWrite = e.s.inFlightWrite
          /\ h.ready = e.s.ready /\ h.backpressure = e.s.backpressure
          /\ h.closed = e.s.closed /\ h.closeRequest = e.s.closeRequest
      <3>1. f.s \in StreamRecord
        BY <1>3 DEF Effect
      <3> QED
        BY <1>3, <1>4, <3>1, InvokeIs DEF Same, Asks
    <2>2. FinishErroring(e) = [f EXCEPT !.s = [h EXCEPT !.aborting = calls, !.cleared = TRUE]]
      BY <1>5, <1>8
    <2>3. calls \in SUBSET Aborter
      BY <1>8 DEF Effect, StreamRecord, AbortRequest
    <2> HIDE DEF h, calls
    <2>4. [h EXCEPT !.aborting = calls, !.cleared = TRUE] \in StreamRecord
      BY ZenonT(60), <2>1, <2>3 DEF StreamRecord
    <2>5. PICK t \in StreamRecord : t = [h EXCEPT !.aborting = calls, !.cleared = TRUE]
      BY <2>4
    <2>6. /\ t.sunk = h.sunk /\ Same(h, t) /\ t.state = h.state /\ t.queue = h.queue
          /\ t.totalSize = h.totalSize /\ t.aborting = calls
          /\ t.writeRequests = h.writeRequests /\ t.pendingAbort = h.pendingAbort
          /\ t.inFlightWrite = h.inFlightWrite
          /\ t.ready = h.ready /\ t.backpressure = h.backpressure
          /\ t.closed = h.closed /\ t.closeRequest = h.closeRequest
      BY <2>1, <2>5 DEF StreamRecord, Same
    <2>7. FinishErroring(e) = [f EXCEPT !.s = t]
      BY <2>2, <2>5
    <2>8. FinishErroring(e) \in Effect /\ FinishErroring(e).s = t /\ FinishErroring(e).a = f.a
      BY <1>3, <2>7 DEF Effect
    <2> QED
      BY <1>1, <1>3, <1>4, <1>8, <2>1, <2>6, <2>8
      DEF Finished, Same, Hers, calls
  <1> QED
    BY <1>6, <1>7, <1>8

-----------------------------------------------------------------------------
(***************************************************************************)
(* What the private methods keep and restore.                              *)
(***************************************************************************)
\* What the sink has not ended, as the refinement mapping has it.
Doing(s) ==
    (IF s.started THEN {} ELSE {"start"})
      \cup ({s.inFlightWrite} \ {None})
      \cup (IF s.inFlightClose = None THEN {} ELSE {"close"})
      \cup (IF s.aborting = {} THEN {} ELSE {"abort"})

Asked(s, t, x, acc) ==
    /\ t.sunk = Append(s.sunk, x) /\ Doing(t) = {x}
    /\ IF x = "abort" THEN "close" \notin Range(s.sunk) ELSE IsPrefix(t.sunk, acc)
    /\ "abort" \notin Range(s.sunk)

\* The sink's part of a step of Sink.
Moves(s, t, acc) ==
    \/ t.sunk = s.sunk /\ Doing(t) \in {Doing(s), {}}
    \/ \E x \in Asks : Asked(s, t, x, acc)

\* Only promises that are pending are settled, and by a rejection.
Rejects(a, b) == \A c \in Call : b[c] = a[c] \/ (a[c] = "pending" /\ b[c] = "rejected")

Sound(e, f, acc) ==
    /\ f \in Effect /\ Books(f.s, f.a, acc) /\ Rejects(e.a, f.a)
    /\ Moves(e.s, f.s, acc) /\ f.s.signalled = e.s.signalled
    /\ f.s.inFlightWrite = e.s.inFlightWrite \/ f.s.inFlightWrite \in Range(e.s.writeRequests)

\* A stream that has nothing to wait for any more.
Doomed(e) ==
    /\ e.s.state = "erroring" /\ e.s.started /\ ~HasOperationInFlight(e.s)
    /\ Flight(e.s) /\ Aborts(e.s) /\ Told(e.s) /\ Owed(e.s, e.a)
    /\ e.s.pendingAbort # None => "close" \notin Range(e.s.sunk)
    /\ "abort" \notin Range(e.s.sunk)

LEMMA RangeAppend ==
    ASSUME NEW S, NEW q \in Seq(S), NEW x \in S
    PROVE  Range(Append(q, x)) = Range(q) \cup {x}
  <1>1. /\ Len(Append(q, x)) = Len(q) + 1 /\ Append(q, x)[Len(q) + 1] = x
        /\ \A i \in 1 .. Len(q) : Append(q, x)[i] = q[i]
        /\ DOMAIN q = 1 .. Len(q) /\ DOMAIN Append(q, x) = 1 .. Len(q) + 1
        /\ Len(q) \in Nat
    OBVIOUS
  <1> DEFINE r == Append(q, x)
  <1> HIDE DEF r
  <1>2. ASSUME NEW y \in Range(r) PROVE y \in Range(q) \cup {x}
    BY <1>1 DEF Range, r
  <1>3. ASSUME NEW y \in Range(q) \cup {x} PROVE y \in Range(r)
    BY <1>1 DEF Range, r
  <1> QED
    BY <1>2, <1>3 DEF r

LEMMA RangeIn ==
    ASSUME NEW S, NEW q \in Seq(S)
    PROVE  /\ \A x : x \in Range(q) <=> \E i \in 1 .. Len(q) : q[i] = x
           /\ \A x \in Range(q) : x \in S
  BY DEF Range

LEMMA RangeEmpty == Range(<< >>) = {}
  BY DEF Range

LEMMA FinishErroringSound ==
    ASSUME NEW e \in Effect, NEW acc, Doomed(e)
    PROVE  Sound(e, FinishErroring(e), acc)
  <1>1. PICK f \in Effect : f = FinishErroring(e) /\ Finished(e, f)
    BY FinishErroringIs
  <1> DEFINE R == Range(e.s.writeRequests)
  <1>2. /\ e.s \in StreamRecord /\ e.a \in [Call -> Status]
        /\ f.s \in StreamRecord /\ f.a \in [Call -> Status]
    BY DEF Effect
  <1>3. /\ e.s.writeRequests \in Seq(Write) /\ e.s.closeRequest \in Closer \cup {None}
        /\ AbortCalls(e.s) \in SUBSET Aborter /\ e.s.aborting = {}
        /\ e.s.inFlightWrite = None /\ e.s.inFlightClose = None
        /\ e.s.cleared \in BOOLEAN
    BY <1>2 DEF StreamRecord, AbortCalls, AbortRequest, Doomed, Flight, HasOperationInFlight
  <1>4. R \subseteq Write
    BY <1>3, RangeIn
  <1>5. Kept(e.s) = R \cup ({e.s.closeRequest} \ {None}) \cup AbortCalls(e.s)
    BY <1>3 DEF Kept, AbortCalls
  <1>6. \A x \in Call : e.a[x] = "pending" <=> x \in Kept(e.s)
    BY DEF Doomed, Owed
  <1>7. Range(f.s.writeRequests) = {}
    BY <1>1, RangeEmpty DEF Finished
  <1>8. Hers(e.s) => e.s.pendingAbort.calls # {} /\ ~e.s.cleared /\ AbortCalls(e.s) = e.s.pendingAbort.calls
    BY <1>3 DEF Doomed, Aborts, Hers, AbortCalls
  <1> HIDE DEF R
  <1>9. Flight(f.s)
    BY <1>1, <1>3, <1>8 DEF Finished, Same, Flight, HasOperationInFlight, IsTerminal, Doomed
  <1>10. Aborts(f.s) /\ Going(f.s)
    BY <1>1 DEF Finished, Aborts, Going
  <1>11. Matched(f.s) /\ Lined(f.s, acc) /\ Once(f.s, acc)
    BY <1>1, TotalEmpty DEF Finished, Matched, Lined, Once, IsTerminal
  <1>12. Told(f.s)
    BY <1>1, <1>3, <1>8 DEF Finished, Told, Same, ToldReady, ToldClosed, Doomed, Rejected
  <1>13. Owed(f.s, f.a)
    <2>1. Kept(f.s) = (IF Hers(e.s) THEN {e.s.closeRequest} \ {None} ELSE {})
                        \cup (IF Hers(e.s) THEN AbortCalls(e.s) ELSE {})
      BY <1>1, <1>3, <1>7, <1>8 DEF Kept, Finished, Same
    <2>2. ASSUME NEW x \in Call PROVE f.a[x] = "pending" <=> x \in Kept(f.s)
      <3>1. CASE Hers(e.s)
        <4>1. f.a[x] = IF x \in R THEN "rejected" ELSE e.a[x]
          BY <1>1, <3>1 DEF Finished, R
        <4> QED
          BY <1>3, <1>4, <1>5, <1>6, <2>1, <3>1, <4>1, StreamAssumption
      <3>2. CASE ~Hers(e.s)
        <4>1. f.a[x] = IF x \in R \/ x = e.s.closeRequest \/ x \in AbortCalls(e.s)
                       THEN "rejected" ELSE e.a[x]
          BY <1>1, <3>2 DEF Finished, R
        <4> QED
          BY <1>5, <1>6, <2>1, <3>2, <4>1
      <3> QED
        BY <3>1, <3>2
    <2>3. Len(f.s.writeRequests) = 0
      BY <1>1 DEF Finished
    <2> QED
      BY <1>7, <2>2, <2>3 DEF Owed, Distinct
  <1>14. Rejects(e.a, f.a)
    <2> SUFFICES ASSUME NEW c \in Call
                 PROVE  f.a[c] = e.a[c] \/ (e.a[c] = "pending" /\ f.a[c] = "rejected")
      BY DEF Rejects
    <2>1. c # None
      BY StreamAssumption
    <2>2. f.a[c] = e.a[c] \/ (f.a[c] = "rejected" /\ (c \in R \/ c = e.s.closeRequest \/ c \in AbortCalls(e.s)))
      BY <1>1 DEF Finished, R
    <2> QED
      BY <1>5, <1>6, <2>1, <2>2
  <1>15. Moves(e.s, f.s, acc)
    <2>1. CASE ~Hers(e.s)
      BY <1>1, <1>3, <2>1 DEF Finished, Moves, Same, Doing
    <2>2. CASE Hers(e.s)
      <3>1. Doing(f.s) = {"abort"}
        BY <1>1, <1>3, <1>8, <2>2 DEF Finished, Same, Doing, Doomed
      <3>2. Asked(e.s, f.s, "abort", acc)
        BY <1>1, <1>8, <2>2, <3>1 DEF Finished, Asked, Doomed, Hers
      <3> QED
        BY <3>2 DEF Moves, Asks
    <2> QED
      BY <2>1, <2>2
  <1> QED
    BY <1>1, <1>9, <1>10, <1>11, <1>12, <1>13, <1>14, <1>15 DEF Sound, Books, Finished, Same

-----------------------------------------------------------------------------
\* A stream about to err: whatever the caller has broken so far is mended by
\* erroring, but what a stream that goes on waiting needs.
Failing(e, acc) ==
    /\ e.s.state = "writable"
    /\ Flight(e.s) /\ Owed(e.s, e.a) /\ Lined(e.s, acc)
    /\ e.s.totalSize = Total(e.s.queue) /\ (Match(e.s, 0) \/ Match(e.s, 1))
    /\ IF e.s.writer = None THEN e.s.ready = "none" /\ e.s.closed = "none"
                            ELSE e.s.ready # "none" /\ e.s.closed = "pending"
    /\ "abort" \notin Range(e.s.sunk)
    /\ e.s.pendingAbort # None =>
          /\ e.s.pendingAbort.calls # {}
          /\ e.s.pendingAbort.wasAlreadyErroring \/ ~e.s.cleared \/ e.s.inFlightClose # None
          /\ "close" \in Range(e.s.sunk) => e.s.inFlightClose # None
    /\ HasOperationInFlight(e.s) \/ ~e.s.started => Once(e.s, acc)

\* The fields of s but state, ready, cleared, closed are those of t.
Alike(s, t) ==
    /\ Same(s, t) /\ t.queue = s.queue /\ t.totalSize = s.totalSize
    /\ t.writeRequests = s.writeRequests /\ t.closeRequest = s.closeRequest
    /\ t.inFlightWrite = s.inFlightWrite /\ t.pendingAbort = s.pendingAbort
    /\ t.aborting = s.aborting /\ t.sunk = s.sunk /\ t.closed = s.closed
    /\ t.backpressure = s.backpressure

LEMMA StartErroringSound ==
    ASSUME NEW e \in Effect, NEW acc, Failing(e, acc)
    PROVE  Sound(e, StartErroring(e), acc)
  <1>1. PICK v \in Promise : v = Rejected(e.s.ready)
    BY DEF Effect, StreamRecord, Rejected, Promise
  <1> DEFINE g == [e EXCEPT !.s.state = "erroring", !.s.ready = v]
  <1>2. g \in Effect /\ g.a = e.a
    BY DEF Effect, StreamRecord
  <1>3. /\ Alike(e.s, g.s) /\ g.s.state = "erroring" /\ g.s.ready = v
        /\ g.s.cleared = e.s.cleared
    BY DEF Effect, StreamRecord, Alike, Same
  <1>4. StartErroring(e) = IF ~HasOperationInFlight(e.s) /\ e.s.started
                           THEN FinishErroring(g) ELSE g
    <2>1. [e EXCEPT !.s.state = "erroring"].s.ready = e.s.ready
      BY DEF Effect, StreamRecord
    <2> QED
      BY <1>1, <2>1 DEF StartErroring
  <1> HIDE DEF g
  <1>5. Flight(g.s)
    BY <1>3 DEF Flight, Alike, Same, HasOperationInFlight, IsTerminal, Failing
  <1>6. Aborts(g.s)
    BY <1>3 DEF Aborts, Alike, Same, Failing
  <1>7. Told(g.s)
    BY <1>1, <1>3 DEF Told, Alike, Same, Failing, ToldReady, ToldClosed, Rejected
  <1>8. Owed(g.s, g.a)
    BY <1>2, <1>3 DEF Owed, Kept, Alike, Same, Failing
  <1>9. Doing(g.s) = Doing(e.s)
    BY <1>3 DEF Doing, Alike, Same
  <1>10. CASE ~HasOperationInFlight(e.s) /\ e.s.started
    <2>1. Doomed(g)
      BY <1>3, <1>5, <1>6, <1>7, <1>8, <1>10
      DEF Doomed, Alike, Same, HasOperationInFlight, Failing
    <2>2. PICK f : f = FinishErroring(g)
      OBVIOUS
    <2>3. Sound(g, f, acc)
      BY <1>2, <2>1, <2>2, FinishErroringSound
    <2>4. g.s.sunk = e.s.sunk /\ g.s.signalled = e.s.signalled
          /\ g.s.inFlightWrite = e.s.inFlightWrite /\ g.s.writeRequests = e.s.writeRequests
      BY <1>3 DEF Alike, Same
    <2>5. Sound(e, f, acc)
      BY <1>2, <1>9, <2>3, <2>4 DEF Sound, Moves, Asked
    <2> QED
      BY <1>4, <1>10, <2>2, <2>5
  <1>11. CASE HasOperationInFlight(e.s) \/ ~e.s.started
    <2>1. Matched(g.s)
      BY ZenonT(60), <1>3 DEF Matched, Match, Busy, Closing, Alike, Same, Failing
    <2>2. Lined(g.s, acc)
      BY <1>3 DEF Lined, Busy, Alike, Same, IsTerminal, Failing
    <2>3. Once(g.s, acc)
      BY <1>3, <1>11 DEF Once, Alike, Same, IsTerminal, Failing, CloseQueuedOrInFlight
    <2>4. Going(g.s)
      BY <1>3, <1>11 DEF Going, Alike, Same, HasOperationInFlight
    <2>5. Books(g.s, g.a, acc)
      BY <1>5, <1>6, <1>7, <1>8, <2>1, <2>2, <2>3, <2>4 DEF Books
    <2>6. Sound(e, g, acc)
      BY <1>2, <1>3, <1>9, <2>5 DEF Sound, Rejects, Moves, Alike, Same
    <2> QED
      BY <1>4, <1>11, <2>6
  <1> QED
    BY <1>10, <1>11

\* error clears the algorithms first.
LEMMA ClearIs ==
    ASSUME NEW e \in Effect, NEW c \in BOOLEAN
    PROVE  /\ [e EXCEPT !.s.cleared = c] \in Effect
           /\ [e EXCEPT !.s.cleared = c].a = e.a
           /\ Alike(e.s, [e EXCEPT !.s.cleared = c].s)
           /\ [e EXCEPT !.s.cleared = c].s.state = e.s.state
           /\ [e EXCEPT !.s.cleared = c].s.ready = e.s.ready
           /\ [e EXCEPT !.s.cleared = c].s.cleared = c
  BY SMTT(30) DEF Effect, StreamRecord, Alike, Same

LEMMA ErrorSound ==
    ASSUME NEW e \in Effect, NEW acc, Failing(e, acc), e.s.pendingAbort = None
    PROVE  Sound(e, Error(e), acc)
  <1> DEFINE g == [e EXCEPT !.s.cleared = TRUE]
  <1>1. /\ g \in Effect /\ g.a = e.a /\ Alike(e.s, g.s)
        /\ g.s.state = e.s.state /\ g.s.ready = e.s.ready /\ g.s.cleared = TRUE
    BY ClearIs
  <1>2. Error(e) = StartErroring(g)
    BY DEF Error, Failing
  <1> HIDE DEF g
  <1>3. Flight(g.s) /\ Owed(g.s, g.a)
    BY <1>1 DEF Failing, Alike, Same, Flight, HasOperationInFlight, IsTerminal, Owed, Kept
  <1>4. /\ Lined(g.s, acc) /\ g.s.totalSize = Total(g.s.queue)
        /\ Match(g.s, 0) \/ Match(g.s, 1)
    <2>0. Lined(e.s, acc)
      BY DEF Failing
    <2>1. Lined(g.s, acc)
      BY <1>1, <2>0 DEF Alike, Lined, Busy, IsTerminal
    <2>2. \A k : Match(e.s, k) => Match(g.s, k)
      BY <1>1 DEF Alike, Match, Busy, Closing
    <2> QED
      BY <1>1, <2>1, <2>2 DEF Failing, Alike
  <1>5. HasOperationInFlight(g.s) \/ ~g.s.started => Once(g.s, acc)
    BY <1>1 DEF Failing, Alike, Same, HasOperationInFlight, Once, CloseQueuedOrInFlight,
                IsTerminal
  <1>6. Failing(g, acc)
    BY <1>1, <1>3, <1>4, <1>5 DEF Failing, Alike, Same
  <1>7. PICK f : f = StartErroring(g)
    OBVIOUS
  <1>8. Sound(g, f, acc)
    BY <1>1, <1>6, <1>7, StartErroringSound
  <1>9. Doing(g.s) = Doing(e.s)
    BY <1>1 DEF Alike, Same, Doing
  <1>10. g.s.sunk = e.s.sunk /\ g.s.signalled = e.s.signalled
          /\ g.s.inFlightWrite = e.s.inFlightWrite /\ g.s.writeRequests = e.s.writeRequests
    BY <1>1 DEF Alike, Same
  <1> QED
    BY <1>1, <1>2, <1>7, <1>8, <1>9, <1>10 DEF Sound, Moves, Asked

-----------------------------------------------------------------------------
(***************************************************************************)
(* AdvanceQueueIfNeeded.                                                   *)
(***************************************************************************)
LEMMA PrefixIs ==
    ASSUME NEW S, NEW s \in Seq(S), NEW T, NEW t \in Seq(T), Len(s) <= Len(t),
           \A i \in 1 .. Len(s) : s[i] = t[i]
    PROVE  IsPrefix(s, t)
  <1>1. Len(s) \in Nat /\ Len(t) \in Nat
    OBVIOUS
  <1>2. SubSeq(s, 1, Len(s)) = [i \in 1 .. Len(s) |-> s[i]]
    BY <1>1
  <1>3. SubSeq(t, 1, Len(s)) = [i \in 1 .. Len(s) |-> t[i]]
    BY <1>1
  <1> QED
    BY <1>2, <1>3 DEF IsPrefix

LEMMA TailSeq ==
    ASSUME NEW S, NEW q \in Seq(S), q # << >>
    PROVE  /\ Tail(q) \in Seq(S) /\ Len(Tail(q)) = Len(q) - 1 /\ Len(q) \in Nat \ {0}
           /\ \A i \in 1 .. Len(q) - 1 : Tail(q)[i] = q[i + 1]
           /\ Head(q) = q[1] /\ q[1] \in S
  OBVIOUS

LEMMA RangeTail ==
    ASSUME NEW S, NEW q \in Seq(S), q # << >>
    PROVE  Range(q) = Range(Tail(q)) \cup {q[1]}
  <1>1. PICK r \in Seq(S) : r = Tail(q)
    BY TailSeq
  <1>2. /\ Len(r) = Len(q) - 1 /\ Len(q) \in Nat \ {0}
        /\ \A i \in 1 .. Len(r) : r[i] = q[i + 1]
    BY <1>1, TailSeq
  <1>3. ASSUME NEW x \in Range(q) PROVE x \in Range(r) \cup {q[1]}
    <2>1. PICK i \in 1 .. Len(q) : q[i] = x
      BY RangeIn
    <2>2. CASE i # 1
      <3>1. i - 1 \in 1 .. Len(r) /\ r[i - 1] = x
        BY <1>2, <2>1, <2>2
      <3> QED
        BY <3>1, RangeIn
    <2> QED
      BY <2>1, <2>2
  <1>4. ASSUME NEW x \in Range(r) PROVE x \in Range(q)
    <2>1. PICK i \in 1 .. Len(r) : r[i] = x
      BY RangeIn
    <2>2. i + 1 \in 1 .. Len(q) /\ q[i + 1] = x
      BY <1>2, <2>1
    <2> QED
      BY <2>2, RangeIn
  <1>5. q[1] \in Range(q)
    BY <1>2, RangeIn
  <1> QED
    BY <1>1, <1>3, <1>4, <1>5

LEMMA TailDistinct ==
    ASSUME NEW S, NEW q \in Seq(S), q # << >>, Distinct(q)
    PROVE  Distinct(Tail(q)) /\ q[1] \notin Range(Tail(q))
  <1>1. PICK r \in Seq(S) : r = Tail(q)
    BY TailSeq
  <1>2. /\ Len(r) = Len(q) - 1 /\ Len(q) \in Nat \ {0}
        /\ \A i \in 1 .. Len(r) : r[i] = q[i + 1]
    BY <1>1, TailSeq
  <1>3. ASSUME NEW i \in 1 .. Len(r), NEW j \in 1 .. Len(r), r[i] = r[j]
        PROVE  i = j
    <2>1. i + 1 \in 1 .. Len(q) /\ j + 1 \in 1 .. Len(q) /\ q[i + 1] = q[j + 1]
      BY <1>2, <1>3
    <2>2. i + 1 = j + 1
      BY <2>1 DEF Distinct
    <2> QED
      BY <1>2, <2>2
  <1>4. ASSUME q[1] \in Range(r)
        PROVE  FALSE
    <2>1. PICK i \in 1 .. Len(r) : r[i] = q[1]
      BY <1>4, RangeIn
    <2>2. i + 1 \in 1 .. Len(q) /\ 1 \in 1 .. Len(q) /\ q[i + 1] = q[1] /\ i + 1 # 1
      BY <1>2, <2>1
    <2> QED
      BY <2>2 DEF Distinct
  <1> QED
    BY <1>1, <1>3, <1>4 DEF Distinct

\* The sink is asked for the chunk at the head of the queue q.
LEMMA AskedInOrder ==
    ASSUME NEW k \in Seq(Asks), NEW x \in Asks, NEW acc \in Seq(Takes),
           NEW q \in Seq(Item), q # << >>, Starts(k, acc), Ends(q, acc),
           Len(k) + Len(q) = Len(acc) + 0, q[1].value = x
    PROVE  /\ Starts(Append(k, x), acc) /\ IsPrefix(Append(k, x), acc)
           /\ Len(Append(k, x)) + Len(q) = Len(acc) + 1
  <1>1. PICK k1 \in Seq(Asks) : k1 = Append(k, x)
    BY AppendSeq
  <1>2. /\ Len(k1) = Len(k) + 1 /\ k1[Len(k) + 1] = x
        /\ \A i \in 1 .. Len(k) : k1[i] = k[i]
    BY <1>1
  <1>3. Len(k) \in Nat /\ Len(acc) \in Nat /\ Len(q) \in Nat \ {0}
    OBVIOUS
  <1>4. Len(acc) - Len(q) + 1 = Len(k) + 1 /\ Len(k) + 1 <= Len(acc)
    <2>1. \A a, b, c \in Nat : a + b = c + 0 /\ b # 0 => c - b + 1 = a + 1 /\ a + 1 <= c
      OBVIOUS
    <2> QED
      BY <1>3, <2>1, Zenon
  <1>5. q[1].value = acc[Len(acc) - Len(q) + 1]
    <2>1. 1 \in 1 .. Len(q)
      BY <1>3
    <2> QED
      BY <2>1, Zenon DEF Ends
  <1>6. \A i \in 1 .. Len(k1) : k1[i] = acc[i]
    BY SMTT(30), <1>2, <1>3, <1>4, <1>5 DEF Starts
  <1>7. Len(k1) <= Len(acc) /\ Len(k1) + Len(q) = Len(acc) + 1
    BY <1>2, <1>3, <1>4
  <1> QED
    BY <1>1, <1>6, <1>7, PrefixIs DEF Starts

\* All but the queue, what is in flight and the requests.
Beside(s, t) ==
    /\ t.started = s.started /\ t.signalled = s.signalled /\ t.state = s.state
    /\ t.writer = s.writer /\ t.ready = s.ready /\ t.closed = s.closed
    /\ t.pendingAbort = s.pendingAbort /\ t.aborting = s.aborting
    /\ t.backpressure = s.backpressure

\* What Dequeue leaves of a queue that is not empty.
LEMMA DequeueIs ==
    ASSUME NEW s \in StreamRecord, s.queue # << >>, s.totalSize = Total(s.queue)
    PROVE  LET h == Dequeue(s)
           IN  /\ h \in StreamRecord /\ Beside(s, h)
               /\ h.queue = Tail(s.queue) /\ h.totalSize = Total(h.queue)
               /\ h.inFlightWrite = s.inFlightWrite /\ h.inFlightClose = s.inFlightClose
               /\ h.writeRequests = s.writeRequests /\ h.closeRequest = s.closeRequest
               /\ h.cleared = s.cleared /\ h.sunk = s.sunk
  <1>1. s.queue \in Seq(Item)
    BY DEF StreamRecord
  <1>2. PICK q \in Seq(Item) : q = Tail(s.queue)
    BY <1>1, TailSeq
  <1>3. Total(s.queue) = Total(q) + Head(s.queue).size
    BY <1>1, <1>2, TotalTail
  <1>4. PICK n \in Nat : n = Total(q)
    BY TotalNat
  <1>5. Head(s.queue).size \in Nat
    <2>1. Head(s.queue) \in Item
      BY <1>1
    <2> QED
      BY <2>1 DEF Item
  <1>6. s.totalSize - Head(s.queue).size = n
    BY <1>3, <1>4, <1>5
  <1> DEFINE h == [s EXCEPT !.queue = q, !.totalSize = n]
  <1>7. h \in StreamRecord /\ Beside(s, h)
    BY DEF StreamRecord, Beside
  <1>8. /\ h.queue = q /\ h.totalSize = n
        /\ h.inFlightWrite = s.inFlightWrite /\ h.inFlightClose = s.inFlightClose
        /\ h.writeRequests = s.writeRequests /\ h.closeRequest = s.closeRequest
        /\ h.cleared = s.cleared /\ h.sunk = s.sunk
    BY DEF StreamRecord
  <1>9. Dequeue(s) = h
    <2>1. ~(n < 0)
      OBVIOUS
    <2> QED
      BY <1>2, <1>6, <2>1 DEF Dequeue
  <1> HIDE DEF h
  <1> QED
    BY <1>2, <1>4, <1>7, <1>8, <1>9

\* A stream that looks whether it has something to do.
Idling(e, acc) ==
    /\ Flight(e.s) /\ Aborts(e.s) /\ Matched(e.s) /\ Lined(e.s, acc) /\ Once(e.s, acc)
    /\ Owed(e.s, e.a) /\ Told(e.s)
    /\ e.s.inFlightClose = None

\* The next write.
LEMMA ProcessWriteSound ==
    ASSUME NEW e \in Effect, NEW acc \in Seq(Takes), Idling(e, acc),
           e.s.started, e.s.inFlightWrite = None, e.s.state = "writable",
           e.s.queue # << >>, Head(e.s.queue) # CloseSentinel
    PROVE  Sound(e, [e EXCEPT !.s = ProcessWrite(@)], acc)
  <1>1. /\ e.s \in StreamRecord /\ e.a \in [Call -> Status]
        /\ e.s.queue \in Seq(Item) /\ e.s.writeRequests \in Seq(Write)
        /\ e.s.sunk \in Seq(Asks)
    BY DEF Effect, StreamRecord
  <1>2. e.s.queue[1] = Head(e.s.queue) /\ Len(e.s.queue) \in Nat \ {0}
    BY <1>1
  <1>3. Match(e.s, 0) /\ Len(e.s.writeRequests) \in Nat
    BY <1>1 DEF Idling, Matched
  <1>4. Len(e.s.writeRequests) # 0
    <2> SUFFICES ASSUME Len(e.s.writeRequests) = 0
                 PROVE  FALSE
      OBVIOUS
    <2>1. Len(e.s.queue) = Closing(e.s)
      BY <1>2, <1>3 DEF Match, Busy, Closing
    <2>2. Len(e.s.queue) = 1 /\ e.s.closeRequest # None
      BY <1>2, <2>1 DEF Closing
    <2> QED
      BY <1>2, <1>3, <2>2 DEF Match
  <1>5. /\ e.s.writeRequests[1] \in Write
        /\ e.s.queue[1].value = e.s.writeRequests[1]
    BY <1>1, <1>3, <1>4 DEF Match, Busy
  <1>6. PICK w \in Write : w = e.s.writeRequests[1]
    BY <1>5
  <1>7. ~e.s.cleared /\ w # None
    BY <1>6, StreamAssumption DEF Idling, Aborts, Call
  <1>8. PICK r \in Seq(Write) : r = Tail(e.s.writeRequests)
    <2>1. e.s.writeRequests # << >>
      BY <1>4
    <2> QED
      BY <1>1, <2>1, TailSeq
  <1>9. /\ Len(r) = Len(e.s.writeRequests) - 1
        /\ \A i \in 1 .. Len(r) : r[i] = e.s.writeRequests[i + 1]
        /\ Len(r) \in Nat
    BY <1>1, <1>4, <1>8
  <1> DEFINE h == Invoke(e.s, w)
             t == [h EXCEPT !.inFlightWrite = w, !.writeRequests = r]
             f == [e EXCEPT !.s = t]
  <1>10. /\ h \in StreamRecord /\ Same(e.s, h)
         /\ h.sunk = Append(e.s.sunk, w)
         /\ h.state = e.s.state /\ h.queue = e.s.queue /\ h.totalSize = e.s.totalSize
         /\ h.writeRequests = e.s.writeRequests /\ h.pendingAbort = e.s.pendingAbort
         /\ h.inFlightWrite = e.s.inFlightWrite /\ h.closeRequest = e.s.closeRequest
         /\ h.ready = e.s.ready /\ h.backpressure = e.s.backpressure
         /\ h.closed = e.s.closed /\ h.aborting = e.s.aborting /\ h.cleared = e.s.cleared
    <2>1. w \in Asks
      BY DEF Asks, Takes
    <2> HIDE DEF h
    <2> QED
      BY <1>1, <1>7, <2>1, InvokeIs DEF h
  <1>11. [e EXCEPT !.s = ProcessWrite(@)] = f
    <2>1. /\ Invoke(e.s, Head(e.s.queue).value) = h
          /\ Head(e.s.writeRequests) = w
      BY <1>1, <1>2, <1>4, <1>5, <1>6
    <2> HIDE DEF h
    <2>2. h.writeRequests = e.s.writeRequests
      BY <1>10
    <2>3. [h EXCEPT !.inFlightWrite = w].writeRequests = e.s.writeRequests
      BY <1>10 DEF StreamRecord
    <2>4. ProcessWrite(e.s) = t
      BY <1>8, <2>1, <2>3 DEF ProcessWrite
    <2> HIDE DEF t
    <2> QED
      BY <2>4
  <1> HIDE DEF h
  <1>12. t \in StreamRecord /\ Beside(e.s, t)
    BY ZenonT(60), <1>10 DEF StreamRecord, Beside, Same
  <1>13. /\ t.inFlightWrite = w /\ t.writeRequests = r /\ t.sunk = Append(e.s.sunk, w)
         /\ t.queue = e.s.queue /\ t.totalSize = e.s.totalSize
         /\ t.inFlightClose = None /\ t.closeRequest = e.s.closeRequest
         /\ t.cleared = e.s.cleared
    BY <1>10 DEF StreamRecord, Same, Idling
  <1> HIDE DEF t
  <1>14. f \in Effect /\ f.s = t /\ f.a = e.a
    BY <1>12 DEF Effect
  <1> HIDE DEF f
  <1>15. Flight(t)
    BY <1>7, <1>12, <1>13 DEF Idling, Flight, Beside, HasOperationInFlight, IsTerminal
  <1>16. Aborts(t) /\ Told(t) /\ Going(t)
    BY <1>7, <1>12, <1>13 DEF Idling, Aborts, Beside, Told, ToldReady, ToldClosed, Going,
                               CloseQueuedOrInFlight, Full
  <1>17. Matched(t)
    <2>1. Busy(e.s) = 0 /\ Busy(t) = 1 /\ Closing(t) = Closing(e.s)
          /\ Closing(e.s) \in {0, 1}
      BY <1>7, <1>13 DEF Busy, Closing
    <2>2. ASSUME NEW i \in 1 .. Len(r) PROVE t.queue[1 + i].value = r[i]
      <3>1. i + 1 \in 1 .. Len(e.s.writeRequests)
        BY <1>9
      <3>2. e.s.queue[0 + (i + 1)].value = e.s.writeRequests[i + 1]
        BY <1>3, <2>1, <3>1 DEF Match
      <3> QED
        BY <1>9, <1>13, <3>2
    <2>3. Match(t, 0)
      BY <1>3, <1>5, <1>6, <1>7, <1>9, <1>13, <2>1, <2>2 DEF Match
    <2> QED
      BY <1>12, <1>13, <2>3 DEF Matched, Idling, Beside
  <1>18. w \in Asks
    BY DEF Asks, Takes
  <1>19. Lined(e.s, acc) /\ ~IsTerminal(e.s) /\ Busy(e.s) = 0
    BY DEF Idling, IsTerminal, Busy
  <1>20. /\ Starts(t.sunk, acc) /\ IsPrefix(t.sunk, acc)
         /\ Len(t.sunk) + Len(e.s.queue) = Len(acc) + 1
    <2>1. /\ Starts(e.s.sunk, acc) /\ Ends(e.s.queue, acc)
          /\ Len(e.s.sunk) + Len(e.s.queue) = Len(acc) + 0
          /\ e.s.queue[1].value = w
      BY <1>5, <1>6, <1>19 DEF Lined
    <2>2. PICK k \in Seq(Asks) : k = e.s.sunk
      BY <1>1
    <2>3. PICK q \in Seq(Item) : q = e.s.queue
      BY <1>1
    <2>4. /\ Starts(k, acc) /\ Ends(q, acc) /\ Len(k) + Len(q) = Len(acc) + 0
          /\ q[1].value = w /\ q # << >>
      BY <2>1, <2>2, <2>3
    <2>5. /\ Starts(Append(k, w), acc) /\ IsPrefix(Append(k, w), acc)
          /\ Len(Append(k, w)) + Len(q) = Len(acc) + 1
      BY <1>18, <2>4, AskedInOrder
    <2> QED
      BY <1>13, <2>2, <2>3, <2>5
  <1>22. Lined(t, acc)
    <2>1. Busy(t) = 1
      BY <1>7, <1>13 DEF Busy
    <2> QED
      BY <1>13, <1>19, <1>20, <2>1 DEF Lined
  <1>23. Range(t.sunk) = Range(e.s.sunk) \cup {w}
    BY <1>1, <1>13, <1>18, RangeAppend
  <1>24. w # "close" /\ w # "abort"
    BY StreamAssumption
  <1>25. Once(t, acc)
    BY <1>12, <1>13, <1>23, <1>24 DEF Once, Idling, Beside, CloseQueuedOrInFlight, IsTerminal
  <1>26. Range(e.s.writeRequests) = Range(r) \cup {w}
    <2>1. e.s.writeRequests # << >>
      BY <1>4
    <2> QED
      BY <1>1, <1>6, <1>8, <2>1, RangeTail
  <1>27. Owed(t, e.a)
    <2>1. Kept(t) = Kept(e.s)
      <3>1. /\ t.pendingAbort = e.s.pendingAbort /\ t.aborting = e.s.aborting
            /\ e.s.inFlightClose = None /\ e.s.inFlightWrite = None
        BY <1>12 DEF Beside, Idling
      <3> QED
        BY <1>7, <1>13, <1>26, <3>1 DEF Kept
    <2>2. Distinct(e.s.writeRequests) /\ e.s.writeRequests # << >>
      BY <1>4 DEF Idling, Owed
    <2>3. Distinct(r) /\ w \notin Range(r)
      BY <1>1, <1>6, <1>8, <2>2, TailDistinct
    <2> QED
      BY <1>13, <2>1, <2>2, <2>3 DEF Owed, Idling
  <1>28. Asked(e.s, t, w, acc)
    <2>1. Doing(t) = {w}
      BY <1>7, <1>12, <1>13 DEF Doing, Beside, Idling, Flight
    <2> QED
      BY <1>13, <1>20, <1>24, <2>1 DEF Asked, Idling, Once
  <1>29. Books(f.s, f.a, acc)
    BY <1>14, <1>15, <1>16, <1>17, <1>22, <1>25, <1>27 DEF Books
  <1>30. Moves(e.s, f.s, acc) /\ Rejects(e.a, f.a)
    BY <1>14, <1>18, <1>28 DEF Moves, Rejects
  <1> QED
    BY <1>11, <1>12, <1>13, <1>14, <1>26, <1>29, <1>30 DEF Sound, Beside

LEMMA CloseBeginsIs ==
    ASSUME NEW h \in StreamRecord, NEW c \in Closer \cup {None}
    PROVE  [h EXCEPT !.closeRequest = None, !.inFlightClose = c, !.cleared = TRUE]
             \in StreamRecord
  <1>1. [h EXCEPT !.closeRequest = None] \in StreamRecord
    BY DEF StreamRecord
  <1>2. \A g \in StreamRecord : [g EXCEPT !.inFlightClose = c] \in StreamRecord
    BY ZenonT(60) DEF StreamRecord
  <1>3. \A g \in StreamRecord : [g EXCEPT !.cleared = TRUE] \in StreamRecord
    BY ZenonT(60) DEF StreamRecord
  <1> QED
    BY <1>1, <1>2, <1>3

\* The close, when every write before it has ended.
LEMMA ProcessCloseSound ==
    ASSUME NEW e \in Effect, NEW acc \in Seq(Takes), Idling(e, acc),
           e.s.started, e.s.inFlightWrite = None, e.s.state = "writable",
           e.s.queue # << >>, Head(e.s.queue) = CloseSentinel
    PROVE  Sound(e, [e EXCEPT !.s = ProcessClose(@)], acc)
  <1>1. /\ e.s \in StreamRecord /\ e.a \in [Call -> Status]
        /\ e.s.queue \in Seq(Item) /\ e.s.writeRequests \in Seq(Write)
        /\ e.s.sunk \in Seq(Asks) /\ e.s.closeRequest \in Closer \cup {None}
    BY DEF Effect, StreamRecord
  <1>2. e.s.queue[1] = CloseSentinel /\ Len(e.s.queue) \in Nat \ {0}
    BY <1>1, TailSeq
  <1>3. Match(e.s, 0) /\ Len(e.s.writeRequests) \in Nat
    BY <1>1 DEF Idling, Matched
  <1>4. Len(e.s.writeRequests) = 0
    <2> SUFFICES ASSUME Len(e.s.writeRequests) # 0
                 PROVE  FALSE
      OBVIOUS
    <2>1. 1 \in 1 .. Len(e.s.writeRequests) - 0 /\ e.s.writeRequests[1] \in Write
      BY <1>1, <1>3
    <2>2. e.s.queue[0 + 1].value = e.s.writeRequests[1]
      BY <1>3, <2>1 DEF Match, Busy
    <2>3. e.s.queue[1].value = "close"
      BY <1>2 DEF CloseSentinel
    <2> QED
      BY <2>1, <2>2, <2>3, StreamAssumption
  <1>5. Len(e.s.queue) = 1 /\ e.s.closeRequest # None /\ e.s.writeRequests = << >>
    BY <1>1, <1>2, <1>3, <1>4 DEF Match, Busy, Closing
  <1>6. ~e.s.cleared /\ e.s.inFlightClose = None
    BY DEF Idling, Aborts
  <1>7. "close" \in Asks
    BY DEF Asks, Takes
  <1>8. e.s.totalSize = Total(e.s.queue)
    BY DEF Idling, Matched
  <1>0. PICK c \in Closer \cup {None} : c = e.s.closeRequest
    BY <1>1
  <1> DEFINE d == Dequeue(e.s)
             h == Invoke(d, "close")
             t == [h EXCEPT !.closeRequest = None, !.inFlightClose = c, !.cleared = TRUE]
             f == [e EXCEPT !.s = t]
  <1>9. /\ d \in StreamRecord /\ Beside(e.s, d)
        /\ d.queue = Tail(e.s.queue) /\ d.totalSize = Total(d.queue)
        /\ d.inFlightWrite = e.s.inFlightWrite /\ d.inFlightClose = e.s.inFlightClose
        /\ d.writeRequests = e.s.writeRequests /\ d.closeRequest = e.s.closeRequest
        /\ d.cleared = e.s.cleared /\ d.sunk = e.s.sunk
    BY <1>1, <1>8, DequeueIs
  <1>10. d.queue = << >>
    <2>1. Tail(e.s.queue) \in Seq(Item) /\ Len(Tail(e.s.queue)) = 0
      BY <1>1, <1>5, TailSeq
    <2> HIDE DEF d
    <2> QED
      BY <1>9, <2>1, NoneIn
  <1> HIDE DEF d
  <1>11. /\ h \in StreamRecord /\ Same(d, h)
         /\ h.sunk = Append(e.s.sunk, "close")
         /\ h.state = d.state /\ h.queue = d.queue /\ h.totalSize = d.totalSize
         /\ h.writeRequests = d.writeRequests /\ h.pendingAbort = d.pendingAbort
         /\ h.inFlightWrite = d.inFlightWrite /\ h.closeRequest = d.closeRequest
         /\ h.ready = d.ready /\ h.backpressure = d.backpressure
         /\ h.closed = d.closed /\ h.aborting = d.aborting
    <2> HIDE DEF h
    <2> QED
      BY ZenonT(60), <1>6, <1>7, <1>9, InvokeIs DEF h
  <1>12. [e EXCEPT !.s = ProcessClose(@)] = f
    <2>1. ProcessClose(e.s) = t
      BY <1>0 DEF ProcessClose, d
    <2> HIDE DEF t
    <2> QED
      BY <2>1
  <1> HIDE DEF h
  <1>13. t \in StreamRecord /\ Beside(e.s, t)
    <2>1. t \in StreamRecord
      BY <1>11, CloseBeginsIs
    <2>2. Beside(h, t)
      BY <1>11 DEF StreamRecord, Beside
    <2> HIDE DEF t
    <2> QED
      BY <1>9, <1>11, <2>1, <2>2 DEF Beside, Same
  <1>14. /\ t.closeRequest = None /\ t.inFlightClose = c /\ t.cleared = TRUE
         /\ t.sunk = Append(e.s.sunk, "close") /\ t.queue = << >>
         /\ t.totalSize = Total(<< >>) /\ t.writeRequests = << >>
         /\ t.inFlightWrite = None
    BY ZenonT(60), <1>5, <1>9, <1>10, <1>11 DEF StreamRecord
  <1> HIDE DEF t
  <1>15. f \in Effect /\ f.s = t /\ f.a = e.a
    BY <1>13 DEF Effect
  <1> HIDE DEF f
  <1>16. Flight(t)
    BY <1>0, <1>13, <1>14 DEF Idling, Flight, Beside, HasOperationInFlight, IsTerminal
  <1>17. Aborts(t) /\ Told(t) /\ Going(t)
    <2>1. CloseQueuedOrInFlight(t) /\ CloseQueuedOrInFlight(e.s) /\ t.state = "writable"
      BY <1>0, <1>5, <1>13, <1>14 DEF CloseQueuedOrInFlight, Beside
    <2> QED
      BY <1>0, <1>5, <1>13, <1>14, <2>1 DEF Idling, Aborts, Beside, Told, ToldReady, ToldClosed, Going
  <1>18. Matched(t)
    <2>1. Match(t, 0)
      BY <1>14 DEF Match, Busy, Closing
    <2> QED
      BY <1>13, <1>14, <2>1 DEF Matched, Beside
  <1>19. Lined(e.s, acc) /\ ~IsTerminal(e.s) /\ Busy(e.s) = 0
    BY DEF Idling, IsTerminal, Busy
  <1>20. /\ Starts(t.sunk, acc) /\ IsPrefix(t.sunk, acc)
         /\ Len(t.sunk) + Len(e.s.queue) = Len(acc) + 1
    <2>1. /\ Starts(e.s.sunk, acc) /\ Ends(e.s.queue, acc)
          /\ Len(e.s.sunk) + Len(e.s.queue) = Len(acc) + 0
          /\ e.s.queue[1].value = "close"
      <3>1. e.s.queue[1].value = "close"
        BY <1>2 DEF CloseSentinel
      <3> QED
        BY <1>19, <3>1 DEF Lined
    <2>2. PICK k \in Seq(Asks) : k = e.s.sunk
      BY <1>1
    <2>3. PICK q \in Seq(Item) : q = e.s.queue
      BY <1>1
    <2>4. /\ Starts(k, acc) /\ Ends(q, acc) /\ Len(k) + Len(q) = Len(acc) + 0
          /\ q[1].value = "close" /\ q # << >>
      BY <2>1, <2>2, <2>3
    <2>5. /\ Starts(Append(k, "close"), acc) /\ IsPrefix(Append(k, "close"), acc)
          /\ Len(Append(k, "close")) + Len(q) = Len(acc) + 1
      BY <1>7, <2>4, AskedInOrder
    <2> QED
      BY <1>14, <2>2, <2>3, <2>5
  <1>22. Lined(t, acc)
    <2>1. Busy(t) = 0 /\ Ends(t.queue, acc) /\ Len(t.queue) = 0
      BY <1>14 DEF Busy, Ends
    <2>2. Len(t.sunk) \in Nat /\ Len(acc) \in Nat
      BY <1>13 DEF StreamRecord
    <2>3. Len(t.sunk) + Len(t.queue) = Len(acc) + Busy(t)
      BY <1>5, <1>20, <2>1, <2>2
    <2> QED
      BY <1>20, <2>1, <2>3 DEF Lined
  <1>23. Range(t.sunk) = Range(e.s.sunk) \cup {"close"}
    BY <1>1, <1>7, <1>14, RangeAppend
  <1>25. Once(t, acc)
    BY <1>0, <1>5, <1>13, <1>14, <1>23 DEF Once, Idling, Beside, CloseQueuedOrInFlight, IsTerminal
  <1>27. Owed(t, e.a)
    <2>1. Kept(t) = Kept(e.s)
      <3>1. /\ t.pendingAbort = e.s.pendingAbort /\ t.aborting = e.s.aborting
            /\ e.s.inFlightClose = None /\ e.s.inFlightWrite = None
        BY <1>13 DEF Beside, Idling
      <3> QED
        BY <1>0, <1>5, <1>14, <3>1 DEF Kept
    <2> QED
      BY <1>0, <1>5, <1>14, <2>1 DEF Owed, Idling
  <1>28. Asked(e.s, t, "close", acc)
    <2>1. Doing(t) = {"close"}
      BY <1>0, <1>5, <1>13, <1>14 DEF Doing, Beside, Idling, Flight
    <2> QED
      BY <1>14, <1>20, <2>1 DEF Asked, Idling, Once
  <1>29. Books(f.s, f.a, acc)
    BY <1>15, <1>16, <1>17, <1>18, <1>22, <1>25, <1>27 DEF Books
  <1>30. Moves(e.s, f.s, acc) /\ Rejects(e.a, f.a)
    BY <1>7, <1>15, <1>28 DEF Moves, Rejects
  <1> QED
    BY <1>12, <1>13, <1>14, <1>15, <1>29, <1>30 DEF Sound, Beside

LEMMA AdvanceQueueSound ==
    ASSUME NEW e \in Effect, NEW acc \in Seq(Takes), Idling(e, acc)
    PROVE  Sound(e, AdvanceQueueIfNeeded(e), acc)
  <1>1. ASSUME Going(e.s)
        PROVE  Sound(e, e, acc)
    BY <1>1 DEF Sound, Books, Idling, Moves, Rejects
  <1>2. CASE ~e.s.started \/ e.s.inFlightWrite # None
    <2>1. Going(e.s)
      BY <1>2 DEF Going, HasOperationInFlight
    <2> QED
      BY <1>1, <1>2, <2>1 DEF AdvanceQueueIfNeeded
  <1>3. CASE e.s.started /\ e.s.inFlightWrite = None /\ e.s.state = "erroring"
    <2>1. Doomed(e)
      BY <1>3 DEF Doomed, Idling, HasOperationInFlight, Once, IsTerminal
    <2>2. AdvanceQueueIfNeeded(e) = FinishErroring(e)
      BY <1>3 DEF AdvanceQueueIfNeeded
    <2> QED
      BY <2>1, <2>2, FinishErroringSound
  <1>4. CASE e.s.started /\ e.s.inFlightWrite = None /\ e.s.state # "erroring"
             /\ e.s.queue = << >>
    <2>1. Going(e.s)
      BY <1>4 DEF Going
    <2> QED
      BY <1>1, <1>4, <2>1 DEF AdvanceQueueIfNeeded
  <1>5. CASE e.s.started /\ e.s.inFlightWrite = None /\ e.s.state # "erroring"
             /\ e.s.queue # << >>
    <2>1. e.s.state = "writable"
      BY <1>5 DEF Effect, StreamRecord, Idling, Flight, IsTerminal
    <2>2. CASE Head(e.s.queue) = CloseSentinel
      <3>1. AdvanceQueueIfNeeded(e) = [e EXCEPT !.s = ProcessClose(@)]
        BY <1>5, <2>2 DEF AdvanceQueueIfNeeded
      <3> QED
        BY <1>5, <2>1, <2>2, <3>1, ProcessCloseSound
    <2>3. CASE Head(e.s.queue) # CloseSentinel
      <3>1. AdvanceQueueIfNeeded(e) = [e EXCEPT !.s = ProcessWrite(@)]
        BY <1>5, <2>3 DEF AdvanceQueueIfNeeded
      <3> QED
        BY <1>5, <2>1, <2>3, <3>1, ProcessWriteSound
    <2> QED
      BY <2>2, <2>3
  <1>6. e.s.started \in BOOLEAN
    BY DEF Effect, StreamRecord
  <1> QED
    BY <1>2, <1>3, <1>4, <1>5, <1>6

-----------------------------------------------------------------------------
(***************************************************************************)
(* What the actions put together.                                          *)
(***************************************************************************)
\* All but the backpressure and what the writer was told of it.
Apart(s, t) ==
    /\ Same(s, t) /\ t.state = s.state /\ t.queue = s.queue /\ t.totalSize = s.totalSize
    /\ t.writeRequests = s.writeRequests /\ t.closeRequest = s.closeRequest
    /\ t.inFlightWrite = s.inFlightWrite /\ t.pendingAbort = s.pendingAbort
    /\ t.aborting = s.aborting /\ t.sunk = s.sunk /\ t.closed = s.closed
    /\ t.cleared = s.cleared

\* The writer was told of the backpressure; the queue has changed since.
Heard(s) ==
    /\ s.state = "writable" /\ ~CloseQueuedOrInFlight(s)
    /\ IF s.writer = None THEN s.ready = "none" /\ s.closed = "none"
       ELSE s.ready = (IF s.backpressure THEN "pending" ELSE "fulfilled") /\ s.closed = "pending"

LEMMA UpdateBackpressureIs ==
    ASSUME NEW e \in Effect
    PROVE  LET f == UpdateBackpressure(e)
           IN  /\ f \in Effect /\ f.a = e.a /\ Apart(e.s, f.s)
               /\ f.s.backpressure <=> Full(e.s)
               /\ f.s.ready = IF e.s.ready = "none" \/ (e.s.backpressure <=> Full(e.s))
                              THEN e.s.ready
                              ELSE IF Full(e.s) THEN "pending" ELSE Resolved(e.s.ready)
  <1>2. e.s.totalSize \in Nat /\ HighWaterMark \in Nat /\ e.s.backpressure \in BOOLEAN
        /\ e.s.ready \in Promise
    BY StreamAssumption DEF Effect, StreamRecord
  <1>1. PICK full \in BOOLEAN : full = (HighWaterMark - e.s.totalSize <= 0)
    <2>1. \A m, n \in Nat : (m - n <= 0) \in BOOLEAN
      OBVIOUS
    <2>2. (HighWaterMark - e.s.totalSize <= 0) \in BOOLEAN
      BY <1>2, <2>1, Zenon
    <2> QED
      BY <2>2, Zenon
  <1>3. full <=> Full(e.s)
    <2>1. \A m, n \in Nat : (m - n <= 0) <=> (n >= m)
      OBVIOUS
    <2>2. (HighWaterMark - e.s.totalSize <= 0) <=> (e.s.totalSize >= HighWaterMark)
      BY <1>2, <2>1, Zenon
    <2> QED
      BY <1>1, <2>2 DEF Full
  <1>4. PICK v \in Promise : v = IF e.s.ready = "none" \/ full = e.s.backpressure THEN e.s.ready
                                 ELSE IF full THEN "pending" ELSE Resolved(e.s.ready)
    BY <1>2 DEF Promise, Resolved
  <1> DEFINE f == [e EXCEPT !.s.backpressure = full, !.s.ready = v]
  <1>5. f \in Effect /\ f.a = e.a
    BY DEF Effect, StreamRecord
  <1>6. Apart(e.s, f.s) /\ f.s.backpressure = full /\ f.s.ready = v
    BY DEF Effect, StreamRecord, Apart, Same
  <1>7. UpdateBackpressure(e) = f
    <2>1. [e EXCEPT !.s.backpressure = full].s.ready = e.s.ready
      BY DEF Effect, StreamRecord
    <2> QED
      BY <1>1, <1>4, <2>1 DEF UpdateBackpressure
  <1> HIDE DEF f
  <1> QED
    BY <1>2, <1>3, <1>4, <1>5, <1>6, <1>7

\* What Idling asks for, but what the writer is told.
Deaf(e, acc) ==
    /\ Flight(e.s) /\ Aborts(e.s) /\ Matched(e.s) /\ Lined(e.s, acc) /\ Once(e.s, acc)
    /\ Owed(e.s, e.a) /\ e.s.inFlightClose = None

LEMMA UpdateAndAdvance ==
    ASSUME NEW e \in Effect, NEW acc \in Seq(Takes), Deaf(e, acc), Heard(e.s)
    PROVE  Sound(e, AdvanceQueueIfNeeded(UpdateBackpressure(e)), acc)
  <1>1. PICK g \in Effect :
           /\ g = UpdateBackpressure(e) /\ g.a = e.a /\ Apart(e.s, g.s)
           /\ g.s.backpressure <=> Full(e.s)
           /\ g.s.ready = IF e.s.ready = "none" \/ (e.s.backpressure <=> Full(e.s))
                          THEN e.s.ready
                          ELSE IF Full(e.s) THEN "pending" ELSE Resolved(e.s.ready)
    BY UpdateBackpressureIs
  <1>2. Flight(g.s) /\ Aborts(g.s)
    BY <1>1 DEF Deaf, Apart, Same, Flight, Aborts, HasOperationInFlight, IsTerminal
  <1>3. Matched(g.s)
    <2>1. \A k : Match(e.s, k) => Match(g.s, k)
      BY SMTT(30), <1>1 DEF Apart, Match, Busy, Closing
    <2> QED
      BY <1>1, <2>1 DEF Deaf, Apart, Matched
  <1>4. Lined(g.s, acc) /\ Once(g.s, acc)
    <2>1. Lined(e.s, acc) /\ Once(e.s, acc)
      BY DEF Deaf
    <2>2. Lined(g.s, acc)
      BY <1>1, <2>1 DEF Apart, Lined, Busy, IsTerminal
    <2>3. Once(g.s, acc)
      BY <1>1, <2>1 DEF Apart, Same, Once, CloseQueuedOrInFlight, IsTerminal
    <2> QED
      BY <2>2, <2>3
  <1>5. Owed(g.s, g.a)
    BY <1>1 DEF Deaf, Apart, Same, Owed, Kept
  <1>6. Told(g.s)
    <2>1. /\ g.s.state = "writable" /\ ~CloseQueuedOrInFlight(g.s) /\ g.s.writer = e.s.writer
          /\ g.s.closed = e.s.closed /\ (Full(g.s) <=> Full(e.s))
      BY <1>1 DEF Heard, Apart, Same, CloseQueuedOrInFlight, Full
    <2>2. e.s.backpressure \in BOOLEAN
      BY DEF Effect, StreamRecord
    <2> QED
      BY <1>1, <2>1, <2>2 DEF Heard, Told, ToldReady, ToldClosed, Resolved
  <1>7. Idling(g, acc)
    BY <1>1, <1>2, <1>3, <1>4, <1>5, <1>6 DEF Idling, Deaf, Apart, Same
  <1>8. PICK f : f = AdvanceQueueIfNeeded(g)
    OBVIOUS
  <1>9. Sound(g, f, acc)
    BY <1>7, <1>8, AdvanceQueueSound
  <1>10. /\ Doing(g.s) = Doing(e.s) /\ g.s.sunk = e.s.sunk /\ g.s.signalled = e.s.signalled
         /\ g.s.inFlightWrite = e.s.inFlightWrite /\ g.s.writeRequests = e.s.writeRequests
    BY <1>1 DEF Apart, Same, Doing
  <1> QED
    BY <1>1, <1>8, <1>9, <1>10 DEF Sound, Moves, Asked

LEMMA BooksFail ==
    ASSUME NEW e \in Effect, NEW acc, Books(e.s, e.a, acc), e.s.state = "writable"
    PROVE  Failing(e, acc) /\ e.s.pendingAbort = None
  <1>1. IF e.s.writer = None THEN e.s.ready = "none" /\ e.s.closed = "none"
                             ELSE e.s.ready # "none" /\ e.s.closed = "pending"
    BY DEF Books, Told, ToldReady, ToldClosed
  <1>2. e.s.totalSize = Total(e.s.queue) /\ Match(e.s, 0)
    BY DEF Books, Matched
  <1>3. e.s.pendingAbort = None
    BY DEF Books, Aborts
  <1>4. "abort" \notin Range(e.s.sunk)
    BY DEF Books, Once
  <1> QED
    BY <1>1, <1>2, <1>3, <1>4 DEF Books, Failing

LEMMA DealWithRejectionSound ==
    ASSUME NEW e \in Effect, NEW acc,
           \/ e.s.state = "writable" /\ Failing(e, acc)
           \/ e.s.state = "erroring" /\ Doomed(e)
    PROVE  Sound(e, DealWithRejection(e), acc)
  <1>1. CASE e.s.state = "writable" /\ Failing(e, acc)
    <2>1. DealWithRejection(e) = StartErroring(e)
      BY <1>1 DEF DealWithRejection
    <2> QED
      BY <1>1, <2>1, StartErroringSound
  <1>2. CASE e.s.state = "erroring" /\ Doomed(e)
    <2>1. DealWithRejection(e) = FinishErroring(e)
      BY <1>2 DEF DealWithRejection
    <2> QED
      BY <1>2, <2>1, FinishErroringSound
  <1> QED
    BY <1>1, <1>2

\* A call the stream does not keep is answered.
LEMMA AnswerSound ==
    ASSUME NEW s \in StreamRecord, NEW a, NEW b, NEW acc, NEW x,
           Books(s, a, acc), a[x] # "pending", b[x] # "pending",
           \A c \in Call : c # x => b[c] = a[c]
    PROVE  Books(s, b, acc)
  <1>1. \A c \in Call : b[c] = "pending" <=> c \in Kept(s)
    BY DEF Books, Owed
  <1> QED
    BY <1>1 DEF Books, Owed

\* What waits for the sink moves with a stream that a method took further.
LEMMA MovesOn ==
    ASSUME NEW r, NEW s, NEW t, NEW acc, s.sunk = r.sunk, Doing(s) \in {Doing(r), {}},
           Moves(s, t, acc)
    PROVE  Moves(r, t, acc)
  BY DEF Moves, Asked

\* Behind what was accepted, one more.
LEMMA AppendEnds ==
    ASSUME NEW acc \in Seq(Takes), NEW x \in Takes, NEW q \in Seq(Item), NEW y \in Item,
           y.value = x, Ends(q, acc)
    PROVE  Ends(Append(q, y), Append(acc, x))
  <1>1. PICK q1 \in Seq(Item) : q1 = Append(q, y)
    BY AppendSeq
  <1>2. PICK acc1 \in Seq(Takes) : acc1 = Append(acc, x)
    BY AppendSeq
  <1>3. /\ Len(q1) = Len(q) + 1 /\ q1[Len(q) + 1] = y
        /\ \A i \in 1 .. Len(q) : q1[i] = q[i]
    BY <1>1
  <1>4. /\ Len(acc1) = Len(acc) + 1 /\ acc1[Len(acc) + 1] = x
        /\ \A i \in 1 .. Len(acc) : acc1[i] = acc[i]
    BY <1>2
  <1>5. Len(q) \in Nat /\ Len(acc) \in Nat /\ Len(q) <= Len(acc)
    BY DEF Ends
  <1>6. ASSUME NEW j \in 1 .. Len(q1)
        PROVE  q1[j].value = acc1[Len(acc1) - Len(q1) + j]
    <2>1. \A m, n \in Nat : \A i \in 1 .. n + 1 :
             /\ (m + 1) - (n + 1) + i = m - n + i
             /\ i = n + 1 => m - n + i = m + 1
             /\ n <= m /\ i # n + 1 => i \in 1 .. n /\ m - n + i \in 1 .. m
      OBVIOUS
    <2>2. /\ Len(acc1) - Len(q1) + j = Len(acc) - Len(q) + j
          /\ j = Len(q) + 1 => Len(acc) - Len(q) + j = Len(acc) + 1
          /\ j # Len(q) + 1 => j \in 1 .. Len(q) /\ Len(acc) - Len(q) + j \in 1 .. Len(acc)
      <3>1. j \in 1 .. Len(q) + 1
        BY <1>3
      <3>2. /\ (Len(acc) + 1) - (Len(q) + 1) + j = Len(acc) - Len(q) + j
            /\ j = Len(q) + 1 => Len(acc) - Len(q) + j = Len(acc) + 1
            /\ j # Len(q) + 1 => j \in 1 .. Len(q) /\ Len(acc) - Len(q) + j \in 1 .. Len(acc)
        BY <1>5, <2>1, <3>1, Zenon
      <3> QED
        BY <1>3, <1>4, <3>2, Zenon
    <2>3. CASE j = Len(q) + 1
      BY <1>3, <1>4, <2>2, <2>3, Zenon
    <2>4. CASE j # Len(q) + 1
      <3>1. q[j].value = acc[Len(acc) - Len(q) + j]
        BY <2>2, <2>4, Zenon DEF Ends
      <3> QED
        BY <1>3, <1>4, <2>2, <2>4, <3>1, Zenon
    <2> QED
      BY <2>3, <2>4
  <1>7. Len(q1) <= Len(acc1)
    BY <1>3, <1>4, <1>5
  <1> QED
    BY <1>1, <1>2, <1>6, <1>7 DEF Ends

LEMMA AppendStarts ==
    ASSUME NEW acc \in Seq(Takes), NEW x \in Takes, NEW k \in Seq(Asks), Starts(k, acc)
    PROVE  Starts(k, Append(acc, x))
  <1>1. PICK acc1 : acc1 = Append(acc, x)
    OBVIOUS
  <1>2. /\ Len(acc1) = Len(acc) + 1 /\ Len(acc) \in Nat /\ Len(k) \in Nat
        /\ \A i \in 1 .. Len(acc) : acc1[i] = acc[i]
    BY <1>1
  <1>3. Len(k) <= Len(acc) /\ \A i \in 1 .. Len(k) : k[i] = acc[i]
    BY DEF Starts
  <1> QED
    BY <1>1, <1>2, <1>3 DEF Starts

LEMMA TailEnds ==
    ASSUME NEW acc \in Seq(Takes), NEW q \in Seq(Item), q # << >>, Ends(q, acc)
    PROVE  Ends(Tail(q), acc)
  <1>1. PICK r \in Seq(Item) : r = Tail(q)
    BY TailSeq
  <1>2. /\ Len(r) = Len(q) - 1 /\ Len(q) \in Nat \ {0}
        /\ \A i \in 1 .. Len(r) : r[i] = q[i + 1]
    BY <1>1, TailSeq
  <1>3. Len(acc) \in Nat /\ Len(q) <= Len(acc)
    BY DEF Ends
  <1>4. ASSUME NEW j \in 1 .. Len(r)
        PROVE  r[j].value = acc[Len(acc) - Len(r) + j]
    <2>1. \A m, n \in Nat : \A i \in 1 .. n - 1 :
             i + 1 \in 1 .. n /\ m - (n - 1) + i = m - n + (i + 1)
      OBVIOUS
    <2>2. j + 1 \in 1 .. Len(q) /\ Len(acc) - Len(r) + j = Len(acc) - Len(q) + (j + 1)
      <3>1. Len(q) \in Nat
        BY <1>2
      <3>2. j \in 1 .. Len(q) - 1
        BY <1>2
      <3>3. j + 1 \in 1 .. Len(q) /\ Len(acc) - (Len(q) - 1) + j = Len(acc) - Len(q) + (j + 1)
        BY <1>3, <2>1, <3>1, <3>2, Zenon
      <3> QED
        BY <1>2, <3>3, Zenon
    <2>3. q[j + 1].value = acc[Len(acc) - Len(q) + (j + 1)]
      BY <2>2, Zenon DEF Ends
    <2> QED
      BY <1>2, <2>2, <2>3, Zenon
  <1>5. Len(r) <= Len(acc)
    BY <1>2, <1>3
  <1> QED
    BY <1>1, <1>4, <1>5 DEF Ends

-----------------------------------------------------------------------------
(***************************************************************************)
(* What every action does: the books are kept, and the step is one of      *)
(* Sink.  x is the call whose frame the action takes off, if any.          *)
(***************************************************************************)
Gains(s, a, t, b) ==
    \A w \in Write :
        /\ a[w] = "fulfilled" => b[w] = "fulfilled"
        /\ b[w] = "fulfilled" /\ a[w] # "fulfilled" => w \in Doing(s) \ Doing(t)

Accepting(acc, acc2) ==
    \/ acc2 = acc
    \/ "close" \notin Range(acc) /\ \E y \in Takes : acc2 = Append(acc, y)

Step(s, a, t, b, acc, acc2, x) ==
    /\ t \in StreamRecord /\ b \in [Call -> Status] /\ acc2 \in Seq(Takes)
    /\ Books(t, b, acc2) /\ Moves(s, t, acc2) /\ Gains(s, a, t, b) /\ Accepting(acc, acc2)
    /\ \A c \in Call : c # x /\ a[c] = "called" => b[c] = "called"

\* The calls that an action answers before it runs a method.
Answers(d, e, f, x) ==
    \A c \in Call :
        \/ e.a[c] = d.a[c]
        \/ /\ c = x \/ d.a[c] # "called"
           /\ d.a[c] # "fulfilled"
           /\ c \in Write /\ e.a[c] = "fulfilled" => c \in Doing(d.s) \ Doing(f.s)

LEMMA MethodSteps ==
    ASSUME NEW d \in Effect, NEW e \in Effect, NEW f, NEW acc, NEW acc2 \in Seq(Takes), NEW x,
           e.s.sunk = d.s.sunk, Doing(e.s) \in {Doing(d.s), {}}, Answers(d, e, f, x),
           Sound(e, f, acc2), Accepting(acc, acc2)
    PROVE  Step(d.s, d.a, f.s, f.a, acc, acc2, x)
  <1>1. f.s \in StreamRecord /\ f.a \in [Call -> Status] /\ Books(f.s, f.a, acc2)
    BY DEF Sound, Effect
  <1>2. Moves(d.s, f.s, acc2)
    BY MovesOn DEF Sound
  <1>3. \A c \in Call : f.a[c] = e.a[c] \/ (e.a[c] = "pending" /\ f.a[c] = "rejected")
    BY DEF Sound, Rejects
  <1>4. ASSUME NEW c \in Call, c # x, d.a[c] = "called" PROVE f.a[c] = "called"
    BY <1>3, <1>4 DEF Answers
  <1>5. Gains(d.s, d.a, f.s, f.a)
    <2>1. ASSUME NEW w \in Write
          PROVE  /\ d.a[w] = "fulfilled" => f.a[w] = "fulfilled"
                 /\ f.a[w] = "fulfilled" /\ d.a[w] # "fulfilled" => w \in Doing(d.s) \ Doing(f.s)
      <3>1. w \in Call
        BY DEF Call
      <3>2. /\ f.a[w] = e.a[w] \/ (e.a[w] = "pending" /\ f.a[w] = "rejected")
            /\ \/ e.a[w] = d.a[w]
               \/ /\ d.a[w] # "fulfilled"
                  /\ e.a[w] = "fulfilled" => w \in Doing(d.s) \ Doing(f.s)
        BY <1>3, <3>1 DEF Answers
      <3> QED
        BY <3>2
    <2> QED
      BY <2>1 DEF Gains
  <1> QED
    BY <1>1, <1>2, <1>4, <1>5 DEF Step

\* An action that answers one call and leaves the stream alone.
LEMMA AnswerSteps ==
    ASSUME NEW s \in StreamRecord, NEW a \in [Call -> Status], NEW b \in [Call -> Status],
           NEW acc \in Seq(Takes), NEW x, NEW y \in Call,
           Books(s, a, acc), \A c \in Call : c # y => b[c] = a[c],
           a[y] # "pending", b[y] # "pending", a[y] # "fulfilled",
           b[y] = "fulfilled" => y \notin Write, x = y \/ a[y] # "called"
    PROVE  Step(s, a, s, b, acc, acc, x)
  <1>1. Books(s, b, acc)
    BY AnswerSound
  <1>2. Moves(s, s, acc)
    BY DEF Moves
  <1>3. Gains(s, a, s, b)
    BY DEF Gains, Call
  <1> QED
    BY <1>1, <1>2, <1>3 DEF Step, Accepting

\* A chunk enters the queue.
EnqueuedAs(e, w, size) ==
    [Settle(e, {w}, "pending") EXCEPT
        !.s.writeRequests = Append(@, w),
        !.s.queue = Append(@, [value |-> w, size |-> size]),
        !.s.totalSize = @ + size]

\* All but the queue and the requests.
Around(s, t) ==
    /\ Same(s, t) /\ t.state = s.state /\ t.inFlightWrite = s.inFlightWrite
    /\ t.pendingAbort = s.pendingAbort /\ t.aborting = s.aborting /\ t.sunk = s.sunk
    /\ t.closed = s.closed /\ t.cleared = s.cleared /\ t.backpressure = s.backpressure

LEMMA EnqueuedIs ==
    ASSUME NEW e \in Effect, NEW w \in Write, NEW size \in Nat
    PROVE  LET g == EnqueuedAs(e, w, size)
           IN  /\ g \in Effect /\ Around(e.s, g.s)
               /\ g.s.ready = e.s.ready /\ g.s.closeRequest = e.s.closeRequest
               /\ g.s.writeRequests = Append(e.s.writeRequests, w)
               /\ g.s.queue = Append(e.s.queue, [value |-> w, size |-> size])
               /\ g.s.totalSize = e.s.totalSize + size
               /\ \A c \in Call : g.a[c] = IF c = w THEN "pending" ELSE e.a[c]
  <1> DEFINE d == Settle(e, {w}, "pending")
             y == [value |-> w, size |-> size]
  <1>1. d \in Effect /\ d.s = e.s /\ \A c \in Call : d.a[c] = IF c = w THEN "pending" ELSE e.a[c]
    BY SettleIs DEF Status
  <1>2. PICK r \in Seq(Write) : r = Append(e.s.writeRequests, w)
    BY AppendSeq DEF Effect, StreamRecord
  <1>3. y \in Item
    BY DEF Item, Takes
  <1>4. PICK q \in Seq(Item) : q = Append(e.s.queue, y)
    <2>1. e.s.queue \in Seq(Item)
      BY DEF Effect, StreamRecord
    <2> HIDE DEF y
    <2> QED
      BY <1>3, <2>1, AppendSeq
  <1>5. PICK n \in Nat : n = e.s.totalSize + size
    BY DEF Effect, StreamRecord
  <1> DEFINE g == [d EXCEPT !.s.writeRequests = r, !.s.queue = q, !.s.totalSize = n]
  <1>6. EnqueuedAs(e, w, size) = g
    <2> HIDE DEF d, y
    <2>1. d.s.writeRequests = e.s.writeRequests
      BY <1>1
    <2>2. PICK d1 : d1 = [d EXCEPT !.s.writeRequests = r]
      OBVIOUS
    <2>3. d1.s.queue = e.s.queue
      BY <1>1, <2>2 DEF Effect, StreamRecord
    <2>4. PICK d2 : d2 = [d1 EXCEPT !.s.queue = q]
      OBVIOUS
    <2>5. d2.s.totalSize = e.s.totalSize
      BY <1>1, <2>2, <2>4 DEF Effect, StreamRecord
    <2>6. d1 = [d EXCEPT !.s.writeRequests = Append(@, w)]
      BY <1>2, <2>1, <2>2
    <2>7. d2 = [d1 EXCEPT !.s.queue = Append(@, y)]
      BY <1>4, <2>3, <2>4
    <2>8. [d2 EXCEPT !.s.totalSize = n] = [d2 EXCEPT !.s.totalSize = @ + size]
      BY <1>5, <2>5
    <2>9. EnqueuedAs(e, w, size) = [d2 EXCEPT !.s.totalSize = @ + size]
      BY <2>6, <2>7 DEF EnqueuedAs, d, y
    <2>10. g = [d2 EXCEPT !.s.totalSize = n]
      BY <2>2, <2>4
    <2> QED
      BY <2>8, <2>9, <2>10
  <1> HIDE DEF d
  <1>7. g \in Effect /\ g.a = d.a
    BY <1>1 DEF Effect, StreamRecord
  <1>8. /\ Around(e.s, g.s) /\ g.s.ready = e.s.ready /\ g.s.closeRequest = e.s.closeRequest
        /\ g.s.writeRequests = r /\ g.s.queue = q /\ g.s.totalSize = n
    BY <1>1 DEF Effect, StreamRecord, Around, Same
  <1> HIDE DEF g
  <1> QED
    BY <1>1, <1>2, <1>4, <1>5, <1>6, <1>7, <1>8

LEMMA DistinctAppend ==
    ASSUME NEW S, NEW q \in Seq(S), NEW x \in S, Distinct(q), x \notin Range(q)
    PROVE  Distinct(Append(q, x))
  <1>1. PICK r \in Seq(S) : r = Append(q, x)
    BY AppendSeq
  <1>2. /\ Len(r) = Len(q) + 1 /\ r[Len(q) + 1] = x /\ Len(q) \in Nat
        /\ \A i \in 1 .. Len(q) : r[i] = q[i] /\ q[i] # x
    <2>1. \A i \in 1 .. Len(q) : q[i] # x
      BY RangeIn
    <2> QED
      BY <1>1, <2>1
  <1>3. \A i, j \in 1 .. Len(r) : r[i] = r[j] => i = j
    BY <1>2 DEF Distinct
  <1> QED
    BY <1>1, <1>3 DEF Distinct

\* The promise of a new request is owed.
LEMMA OwedAppend ==
    ASSUME NEW s \in StreamRecord, NEW t, NEW a, NEW b, NEW w \in Write, Owed(s, a), a[w] # "pending",
           Around(s, t), t.closeRequest = s.closeRequest,
           t.writeRequests = Append(s.writeRequests, w),
           \A c \in Call : b[c] = IF c = w THEN "pending" ELSE a[c]
    PROVE  Owed(t, b)
  <1>1. s.writeRequests \in Seq(Write) /\ w \in Call /\ w # None
    BY StreamAssumption DEF StreamRecord, Call
  <1>2. w \notin Kept(s)
    BY <1>1 DEF Owed
  <1>3. Range(t.writeRequests) = Range(s.writeRequests) \cup {w}
    BY <1>1, RangeAppend
  <1>4. Kept(t) = Kept(s) \cup {w}
    BY <1>3 DEF Kept, Around, Same
  <1>5. w \notin Range(s.writeRequests) /\ w # s.inFlightWrite
    BY <1>1, <1>2 DEF Kept
  <1>6. Distinct(t.writeRequests)
    BY <1>1, <1>5, DistinctAppend DEF Owed
  <1>7. t.inFlightWrite \notin Range(t.writeRequests)
    BY <1>3, <1>5 DEF Owed, Around
  <1>8. \A c \in Call : b[c] = "pending" <=> c \in Kept(t)
    BY <1>4 DEF Owed
  <1> QED
    BY <1>6, <1>7, <1>8 DEF Owed

LEMMA EnqueuedMatch ==
    ASSUME NEW s \in StreamRecord, NEW t, NEW w \in Write, NEW y \in Item, y.value = w,
           Match(s, 0), s.closeRequest = None, t.closeRequest = None,
           t.inFlightWrite = s.inFlightWrite,
           t.writeRequests = Append(s.writeRequests, w), t.queue = Append(s.queue, y)
    PROVE  Match(t, 0)
  <1>1. PICK r \in Seq(Write) : r = s.writeRequests
    BY DEF StreamRecord
  <1>2. PICK q \in Seq(Item) : q = s.queue
    BY DEF StreamRecord
  <1>3. PICK r1 \in Seq(Write) : r1 = Append(r, w)
    BY AppendSeq
  <1>4. PICK q1 \in Seq(Item) : q1 = Append(q, y)
    BY AppendSeq
  <1>5. t.writeRequests = r1 /\ t.queue = q1
    BY <1>1, <1>2, <1>3, <1>4
  <1>6. /\ Len(r1) = Len(r) + 1 /\ r1[Len(r) + 1] = w /\ Len(r) \in Nat
        /\ \A i \in 1 .. Len(r) : r1[i] = r[i]
    BY <1>3
  <1>7. /\ Len(q1) = Len(q) + 1 /\ q1[Len(q) + 1] = y /\ Len(q) \in Nat
        /\ \A i \in 1 .. Len(q) : q1[i] = q[i]
    BY <1>4
  <1>8. PICK b \in {0, 1} : b = Busy(s)
    BY DEF Busy
  <1>9. Busy(t) = b /\ Closing(t) = 0 /\ Closing(s) = 0
    BY <1>8 DEF Busy, Closing
  <1>10. /\ Len(q) = b + Len(r) - 0 + 0
         /\ s.inFlightWrite # None => q[1].value = s.inFlightWrite
         /\ \A i \in 1 .. Len(r) - 0 : q[b + i].value = r[i]
    BY <1>1, <1>2, <1>8, <1>9 DEF Match
  <1>11. Len(q) = b + Len(r)
    BY <1>6, <1>8, <1>10
  <1>12. ASSUME NEW i \in 1 .. Len(r1) PROVE q1[b + i].value = r1[i]
    <2>1. CASE i = Len(r) + 1
      <3>1. b + i = Len(q) + 1
        BY <1>6, <1>8, <1>11, <2>1
      <3> QED
        BY <1>6, <1>7, <2>1, <3>1
    <2>2. CASE i # Len(r) + 1
      <3>1. i \in 1 .. Len(r) /\ b + i \in 1 .. Len(q)
        BY SMTT(30), <1>6, <1>8, <1>11, <2>2
      <3>2. q[b + i].value = r[i]
        BY <1>6, <1>10, <3>1
      <3> QED
        BY <1>6, <1>7, <3>1, <3>2
    <2> QED
      BY <2>1, <2>2
  <1>13. s.inFlightWrite # None => q1[1].value = s.inFlightWrite
    <2>1. ASSUME s.inFlightWrite # None
          PROVE  1 \in 1 .. Len(q)
      BY <1>6, <1>7, <1>8, <1>11, <2>1 DEF Busy
    <2> QED
      BY <1>7, <1>10, <2>1
  <1>14. /\ 0 <= Len(r1) /\ Len(q1) = b + Len(r1) - 0 + 0
         /\ \A i \in 1 .. Len(r1) - 0 : q1[b + i].value = r1[i]
    BY <1>6, <1>7, <1>8, <1>11, <1>12
  <1> QED
    BY <1>5, <1>9, <1>13, <1>14 DEF Match

\* A request whose chunk did not enter the queue.
LEMMA RequestMatch ==
    ASSUME NEW s \in StreamRecord, NEW t, NEW w \in Write, Match(s, 0),
           t.closeRequest = s.closeRequest, t.inFlightWrite = s.inFlightWrite,
           t.writeRequests = Append(s.writeRequests, w), t.queue = s.queue
    PROVE  Match(t, 1)
  <1>1. PICK r \in Seq(Write) : r = s.writeRequests
    BY DEF StreamRecord
  <1>3. PICK r1 \in Seq(Write) : r1 = Append(r, w) /\ t.writeRequests = r1
    BY <1>1, AppendSeq
  <1>6. /\ Len(r1) = Len(r) + 1 /\ Len(r) \in Nat /\ \A i \in 1 .. Len(r) : r1[i] = r[i]
    BY <1>3
  <1>8. Busy(t) = Busy(s) /\ Closing(t) = Closing(s) /\ Busy(s) \in {0, 1} /\ Closing(s) \in {0, 1}
    BY DEF Busy, Closing
  <1>9. Len(r1) - 1 = Len(r) /\ Len(r) - 0 = Len(r) /\ 1 <= Len(r1)
    BY <1>6
  <1>10. /\ Len(s.queue) = Busy(s) + Len(r) - 0 + Closing(s)
         /\ \A i \in 1 .. Len(r) - 0 : s.queue[Busy(s) + i].value = r[i]
    BY <1>1 DEF Match
  <1>11. /\ Len(t.queue) = Busy(t) + Len(r1) - 1 + Closing(t)
         /\ \A i \in 1 .. Len(r1) - 1 : t.queue[Busy(t) + i].value = r1[i]
    BY <1>6, <1>8, <1>9, <1>10
  <1> QED
    BY <1>3, <1>9, <1>11 DEF Match

LEMMA SinkKept ==
    ASSUME NEW s, NEW t, Around(s, t)
    PROVE  Doing(t) = Doing(s) /\ t.sunk = s.sunk
  BY DEF Doing, Around, Same

LEMMA EnqueueSteps ==
    ASSUME NEW e \in Effect, NEW acc \in Seq(Takes), Books(e.s, e.a, acc), Accepts(e.s),
           NEW w \in Write, e.a[w] = "called", NEW size \in Nat
    PROVE  LET f == Enqueue(e, w, size)
           IN  Step(e.s, e.a, f.s, f.a, acc, Append(acc, w), w)
  <1> DEFINE y == [value |-> w, size |-> size]
  <1>1. PICK g \in Effect :
           /\ g = EnqueuedAs(e, w, size) /\ Around(e.s, g.s)
           /\ g.s.ready = e.s.ready /\ g.s.closeRequest = e.s.closeRequest
           /\ g.s.writeRequests = Append(e.s.writeRequests, w)
           /\ g.s.queue = Append(e.s.queue, y)
           /\ g.s.totalSize = e.s.totalSize + size
           /\ \A c \in Call : g.a[c] = IF c = w THEN "pending" ELSE e.a[c]
    BY EnqueuedIs
  <1>2. /\ e.s \in StreamRecord /\ e.s.queue \in Seq(Item) /\ e.s.sunk \in Seq(Asks)
        /\ e.s.inFlightWrite \in Write \cup {None} /\ y \in Item /\ w \in Takes
        /\ y.value = w /\ y.size = size
    BY DEF Effect, StreamRecord, Item, Takes
  <1>3. /\ e.s.state = "writable" /\ e.s.closeRequest = None /\ e.s.inFlightClose = None
    BY DEF Accepts, CloseQueuedOrInFlight
  <1>4. PICK acc2 \in Seq(Takes) : acc2 = Append(acc, w)
    BY <1>2, AppendSeq
  <1> HIDE DEF y
  <1>5. Flight(g.s) /\ Aborts(g.s)
    BY <1>1, <1>3 DEF Books, Around, Same, Flight, Aborts, HasOperationInFlight, IsTerminal
  <1>6. Matched(g.s)
    <2>1. Match(e.s, 0)
      BY <1>3 DEF Books, Matched
    <2>2. Match(g.s, 0)
      <3>1. g.s.inFlightWrite = e.s.inFlightWrite
        BY <1>1 DEF Around
      <3>2. /\ g.s.writeRequests = Append(e.s.writeRequests, w) /\ g.s.closeRequest = None
            /\ g.s.queue = Append(e.s.queue, y)
        BY <1>1, <1>3
      <3>3. PICK s \in StreamRecord : s = e.s
        BY <1>2
      <3>4. PICK t : t = g.s
        OBVIOUS
      <3>5. /\ t.inFlightWrite = s.inFlightWrite /\ t.writeRequests = Append(s.writeRequests, w)
            /\ t.closeRequest = None /\ t.queue = Append(s.queue, y) /\ s.closeRequest = None
            /\ Match(s, 0) /\ y \in Item /\ y.value = w
        BY <1>2, <1>3, <2>1, <3>1, <3>2, <3>3, <3>4
      <3>6. Match(t, 0)
        BY <3>5, EnqueuedMatch
      <3> QED
        BY <3>4, <3>6
    <2>3. g.s.totalSize = Total(g.s.queue)
      BY <1>1, <1>2, TotalAppend DEF Books, Matched
    <2> QED
      BY <1>1, <1>3, <2>2, <2>3 DEF Matched, Around
  <1>7. Lined(g.s, acc2)
    <2>1. /\ Len(e.s.sunk) + Len(e.s.queue) = Len(acc) + Busy(e.s)
          /\ Starts(e.s.sunk, acc) /\ Ends(e.s.queue, acc)
      BY <1>3 DEF Books, Lined, IsTerminal
    <2>2. Starts(g.s.sunk, acc2)
      BY <1>1, <1>2, <1>4, <2>1, AppendStarts DEF Around
    <2>3. Ends(g.s.queue, acc2)
      BY <1>1, <1>2, <1>4, <2>1, AppendEnds
    <2>4. /\ Len(g.s.queue) = Len(e.s.queue) + 1 /\ Len(acc2) = Len(acc) + 1
          /\ Len(e.s.queue) \in Nat /\ Len(acc) \in Nat /\ Len(e.s.sunk) \in Nat
      BY <1>1, <1>2, <1>4
    <2>5. Busy(g.s) = Busy(e.s) /\ Busy(e.s) \in Nat /\ g.s.sunk = e.s.sunk
      BY <1>1 DEF Around, Busy
    <2>7. Len(e.s.sunk) + (Len(e.s.queue) + 1) = (Len(acc) + 1) + Busy(e.s)
      <3>1. PICK i, j, k, b \in Nat :
               i = Len(e.s.sunk) /\ j = Len(e.s.queue) /\ k = Len(acc) /\ b = Busy(e.s)
        BY <2>4, <2>5
      <3>2. i + (j + 1) = (k + 1) + b
        <4>1. i + j = k + b
          BY <2>1, <3>1
        <4> QED
          BY <4>1
      <3> QED
        BY <3>1, <3>2
    <2>8. Len(g.s.sunk) + Len(g.s.queue) = Len(acc2) + Busy(g.s)
      BY <2>4, <2>5, <2>7, Zenon
    <2> QED
      BY <2>2, <2>3, <2>8 DEF Lined
  <1>8. "close" \notin Range(acc) /\ Range(acc2) = Range(acc) \cup {w} /\ w # "close"
    <2>1. "close" \notin Range(acc)
      BY <1>3 DEF Books, Once, CloseQueuedOrInFlight, IsTerminal
    <2>2. Range(acc2) = Range(acc) \cup {w}
      BY <1>2, <1>4, RangeAppend
    <2> QED
      BY <2>1, <2>2, StreamAssumption
  <1>9. Once(g.s, acc2)
    BY <1>1, <1>3, <1>8 DEF Books, Once, Around, Same, IsTerminal
  <1>10. Owed(g.s, g.a)
    <2>0. PICK s \in StreamRecord : s = e.s
      BY <1>2
    <2>1. PICK t, a, b : t = g.s /\ a = e.a /\ b = g.a
      OBVIOUS
    <2>2. /\ Owed(s, a) /\ a[w] # "pending" /\ Around(s, t) /\ t.closeRequest = s.closeRequest
          /\ t.writeRequests = Append(s.writeRequests, w)
          /\ \A c \in Call : b[c] = IF c = w THEN "pending" ELSE a[c]
      BY <1>1, <2>0, <2>1 DEF Books
    <2>3. Owed(t, b)
      BY <2>2, OwedAppend
    <2> QED
      BY <2>1, <2>3
  <1>11. Heard(g.s)
    <2>1. Told(e.s) /\ ~CloseQueuedOrInFlight(e.s) /\ e.s.backpressure \in BOOLEAN
      BY <1>2, <1>3 DEF Books, CloseQueuedOrInFlight, StreamRecord
    <2> QED
      BY <1>1, <1>3, <2>1 DEF Told, ToldReady, ToldClosed, Heard, Around, Same, CloseQueuedOrInFlight
  <1>12. Deaf(g, acc2)
    BY <1>1, <1>3, <1>5, <1>6, <1>7, <1>9, <1>10 DEF Deaf, Around, Same
  <1>13. PICK f : f = AdvanceQueueIfNeeded(UpdateBackpressure(g))
    OBVIOUS
  <1>14. Sound(g, f, acc2)
    BY <1>12, <1>11, <1>13, UpdateAndAdvance
  <1>15. f = Enqueue(e, w, size)
    BY <1>1, <1>13 DEF Enqueue, EnqueuedAs
  <1>16. Accepting(acc, acc2)
    BY <1>2, <1>4, <1>8 DEF Accepting
  <1>17. Answers(e, g, f, w)
    BY <1>1 DEF Answers
  <1>18. Doing(g.s) = Doing(e.s) /\ g.s.sunk = e.s.sunk
    BY <1>1, SinkKept
  <1>19. Step(e.s, e.a, f.s, f.a, acc, acc2, w)
    BY <1>14, <1>16, <1>17, <1>18, MethodSteps
  <1> QED
    BY <1>4, <1>15, <1>19

LEMMA EnqueueThrowsSteps ==
    ASSUME NEW e \in Effect, NEW acc \in Seq(Takes), Books(e.s, e.a, acc), Accepts(e.s),
           NEW w \in Write, e.a[w] = "called"
    PROVE  LET f == EnqueueThrows(e, w)
           IN  Step(e.s, e.a, f.s, f.a, acc, acc, w)
  <1> DEFINE d == Settle(e, {w}, "pending")
  <1>1. d \in Effect /\ d.s = e.s /\ \A c \in Call : d.a[c] = IF c = w THEN "pending" ELSE e.a[c]
    BY SettleIs DEF Status
  <1>2. PICK r \in Seq(Write) : r = Append(e.s.writeRequests, w)
    BY AppendSeq DEF Effect, StreamRecord
  <1> DEFINE g == [d EXCEPT !.s.writeRequests = r]
  <1>3. EnqueueThrows(e, w) = Error(g)
    <2>1. d.s.writeRequests = e.s.writeRequests
      BY <1>1
    <2> HIDE DEF d
    <2>2. EnqueueThrows(e, w) = Error([d EXCEPT !.s.writeRequests = Append(@, w)])
      BY DEF EnqueueThrows, d
    <2>3. [d EXCEPT !.s.writeRequests = Append(@, w)] = g
      BY <1>2, <2>1
    <2> QED
      BY <2>2, <2>3
  <1> HIDE DEF d
  <1>4. g \in Effect /\ g.a = d.a
    BY <1>1 DEF Effect, StreamRecord
  <1>5. /\ Around(e.s, g.s) /\ g.s.ready = e.s.ready /\ g.s.closeRequest = e.s.closeRequest
        /\ g.s.writeRequests = r /\ g.s.queue = e.s.queue /\ g.s.totalSize = e.s.totalSize
    BY <1>1 DEF Effect, StreamRecord, Around, Same
  <1> HIDE DEF g
  <1>6. e.s.state = "writable" /\ e.s.closeRequest = None /\ e.s.inFlightClose = None
    BY DEF Accepts, CloseQueuedOrInFlight
  <1>7. e.s \in StreamRecord
    BY DEF Effect
  <1>8. Failing(e, acc) /\ e.s.pendingAbort = None
    BY <1>6, BooksFail
  <1>9. Flight(g.s)
    BY <1>5, <1>6 DEF Books, Around, Same, Flight, HasOperationInFlight, IsTerminal
  <1>10. Lined(g.s, acc)
    <2>1. Lined(e.s, acc) /\ Busy(g.s) = Busy(e.s)
      BY <1>5 DEF Books, Busy, Around
    <2> QED
      BY <1>5, <2>1 DEF Lined, IsTerminal, Around
  <1>11. g.s.totalSize = Total(g.s.queue) /\ Match(g.s, 1)
    <2>1. Match(e.s, 0) /\ e.s.totalSize = Total(e.s.queue)
      BY <1>6 DEF Books, Matched
    <2>2. PICK s \in StreamRecord : s = e.s
      BY <1>7
    <2>3. PICK t : t = g.s
      OBVIOUS
    <2>4. /\ Match(s, 0) /\ t.closeRequest = s.closeRequest /\ t.inFlightWrite = s.inFlightWrite
          /\ t.writeRequests = Append(s.writeRequests, w) /\ t.queue = s.queue
      BY <1>2, <1>5, <2>1, <2>2, <2>3 DEF Around
    <2>5. Match(t, 1)
      BY <2>4, RequestMatch
    <2> QED
      BY <1>5, <2>1, <2>3, <2>5
  <1>12. Owed(g.s, g.a)
    <2>0. PICK s \in StreamRecord : s = e.s
      BY <1>7
    <2>1. PICK t, a, b : t = g.s /\ a = e.a /\ b = g.a
      OBVIOUS
    <2>2. /\ Owed(s, a) /\ a[w] # "pending" /\ Around(s, t) /\ t.closeRequest = s.closeRequest
          /\ t.writeRequests = Append(s.writeRequests, w)
          /\ \A c \in Call : b[c] = IF c = w THEN "pending" ELSE a[c]
      BY <1>1, <1>2, <1>4, <1>5, <2>0, <2>1 DEF Books
    <2>3. Owed(t, b)
      BY SMTT(30), <2>2, OwedAppend
    <2> QED
      BY <2>1, <2>3
  <1>13. Once(g.s, acc)
    BY <1>5, <1>6 DEF Books, Once, Around, Same, IsTerminal, CloseQueuedOrInFlight
  <1>14. Failing(g, acc) /\ g.s.pendingAbort = None
    BY <1>5, <1>6, <1>8, <1>9, <1>10, <1>11, <1>12, <1>13 DEF Failing, Around, Same
  <1>15. PICK f : f = Error(g)
    OBVIOUS
  <1>16. Sound(g, f, acc)
    BY <1>4, <1>14, <1>15, ErrorSound
  <1>17. Answers(e, g, f, w)
    BY <1>1, <1>4 DEF Answers
  <1>18. Doing(g.s) = Doing(e.s) /\ g.s.sunk = e.s.sunk
    BY <1>5, SinkKept
  <1>19. Accepting(acc, acc)
    BY DEF Accepting
  <1>20. Step(e.s, e.a, f.s, f.a, acc, acc, w)
    BY <1>4, <1>16, <1>17, <1>18, <1>19, MethodSteps
  <1> QED
    BY <1>3, <1>15, <1>20

\* error, of the controller or after a size that throws.
LEMMA ErrorKeeps ==
    ASSUME NEW e \in Effect, NEW acc, Books(e.s, e.a, acc)
    PROVE  Sound(e, Error(e), acc)
  <1>1. CASE e.s.state = "writable"
    BY <1>1, BooksFail, ErrorSound
  <1>2. CASE e.s.state # "writable"
    <2>1. Error(e) = e
      BY <1>2 DEF Error
    <2> QED
      BY <2>1 DEF Sound, Rejects, Moves
  <1> QED
    BY <1>1, <1>2

LEMMA ErrorSteps ==
    ASSUME NEW e \in Effect, NEW acc \in Seq(Takes), Books(e.s, e.a, acc), NEW x
    PROVE  LET f == Error(e) IN Step(e.s, e.a, f.s, f.a, acc, acc, x)
  <1>1. PICK f : f = Error(e)
    OBVIOUS
  <1>2. Sound(e, f, acc)
    BY <1>1, ErrorKeeps
  <1>3. Answers(e, e, f, x) /\ Accepting(acc, acc)
    BY DEF Answers, Accepting
  <1>4. Step(e.s, e.a, f.s, f.a, acc, acc, x)
    BY <1>2, <1>3, MethodSteps
  <1> QED
    BY <1>1, <1>4

LEMMA SizeThrowsSteps ==
    ASSUME NEW e \in Effect, NEW acc \in Seq(Takes), Books(e.s, e.a, acc),
           NEW w \in Write, e.a[w] = "called"
    PROVE  LET f == Reject(Error(e), {w}) IN Step(e.s, e.a, f.s, f.a, acc, acc, w)
  <1>1. PICK g : g = Error(e)
    OBVIOUS
  <1>2. Sound(e, g, acc) /\ g \in Effect /\ g.s \in StreamRecord /\ g.a \in [Call -> Status]
    BY <1>1, ErrorKeeps DEF Sound, Effect
  <1>3. PICK f \in Effect : f = Reject(g, {w}) /\ f.s = g.s
           /\ \A c \in Call : f.a[c] = IF c = w THEN "rejected" ELSE g.a[c]
    BY <1>2, SettleIs DEF Reject, Status
  <1>4. w \in Call /\ f.a \in [Call -> Status]
    BY DEF Call, Effect
  <1>5. \A c \in Call : g.a[c] = e.a[c] \/ (e.a[c] = "pending" /\ g.a[c] = "rejected")
    BY <1>2 DEF Sound, Rejects
  <1>6. Books(f.s, f.a, acc)
    <2>1. PICK s, a, b : s = g.s /\ a = g.a /\ b = f.a
      OBVIOUS
    <2>2. /\ s \in StreamRecord /\ Books(s, a, acc) /\ a[w] # "pending" /\ b[w] # "pending"
          /\ \A c \in Call : c # w => b[c] = a[c]
      BY <1>2, <1>3, <1>4, <1>5, <2>1 DEF Sound
    <2>3. Books(s, b, acc)
      BY <2>2, AnswerSound
    <2> QED
      BY <1>3, <2>1, <2>3
  <1>7. Moves(e.s, f.s, acc)
    BY <1>2, <1>3 DEF Sound
  <1>8. ASSUME NEW c \in Call
        PROVE  /\ c # w /\ e.a[c] = "called" => f.a[c] = "called"
               /\ e.a[c] = "fulfilled" <=> f.a[c] = "fulfilled"
    BY <1>3, <1>5
  <1>9. Gains(e.s, e.a, f.s, f.a)
    BY <1>8 DEF Gains, Call
  <1>10. Step(e.s, e.a, f.s, f.a, acc, acc, w)
    BY <1>2, <1>3, <1>4, <1>6, <1>7, <1>8, <1>9 DEF Step, Accepting
  <1> QED
    BY <1>1, <1>3, <1>10

-----------------------------------------------------------------------------
\* The close is taken.
ClosingAs(e, c) ==
    [Settle(e, {c}, "pending") EXCEPT
        !.s.closeRequest = c,
        !.s.queue = Append(@, CloseSentinel),
        !.s.ready = IF e.s.backpressure /\ e.s.state = "writable" THEN Resolved(@) ELSE @]

LEMMA ClosingIs ==
    ASSUME NEW e \in Effect, NEW c \in Closer
    PROVE  LET g == ClosingAs(e, c)
           IN  /\ g \in Effect /\ Around(e.s, g.s) /\ g.s.closeRequest = c
               /\ g.s.writeRequests = e.s.writeRequests /\ g.s.totalSize = e.s.totalSize
               /\ g.s.queue = Append(e.s.queue, CloseSentinel)
               /\ g.s.ready = IF e.s.backpressure /\ e.s.state = "writable"
                              THEN Resolved(e.s.ready) ELSE e.s.ready
               /\ \A x \in Call : g.a[x] = IF x = c THEN "pending" ELSE e.a[x]
  <1> DEFINE d == Settle(e, {c}, "pending")
  <1>1. d \in Effect /\ d.s = e.s /\ \A x \in Call : d.a[x] = IF x = c THEN "pending" ELSE e.a[x]
    BY SettleIs DEF Status
  <1>2. PICK q \in Seq(Item) : q = Append(e.s.queue, CloseSentinel)
    <2>1. e.s.queue \in Seq(Item) /\ CloseSentinel \in Item
      BY DEF Effect, StreamRecord, CloseSentinel, Item, Takes
    <2> QED
      BY <2>1, AppendSeq
  <1>3. PICK v \in Promise : v = IF e.s.backpressure /\ e.s.state = "writable"
                                 THEN Resolved(e.s.ready) ELSE e.s.ready
    BY DEF Effect, StreamRecord, Promise, Resolved
  <1> DEFINE g == [d EXCEPT !.s.closeRequest = c, !.s.queue = q, !.s.ready = v]
  <1>4. ClosingAs(e, c) = g
    <2> HIDE DEF d
    <2>1. PICK d1 : d1 = [d EXCEPT !.s.closeRequest = c]
      OBVIOUS
    <2>2. d1.s.queue = e.s.queue
      BY <1>1, <2>1 DEF Effect, StreamRecord
    <2>3. PICK d2 : d2 = [d1 EXCEPT !.s.queue = q]
      OBVIOUS
    <2>4. d2.s.ready = e.s.ready
      BY <1>1, <2>1, <2>3 DEF Effect, StreamRecord
    <2>5. d2 = [d1 EXCEPT !.s.queue = Append(@, CloseSentinel)]
      BY <1>2, <2>2, <2>3
    <2>6. ClosingAs(e, c) = [d2 EXCEPT !.s.ready = IF e.s.backpressure /\ e.s.state = "writable"
                                                   THEN Resolved(@) ELSE @]
      BY <2>1, <2>5 DEF ClosingAs, d
    <2>7. ClosingAs(e, c) = [d2 EXCEPT !.s.ready = v]
      BY <1>3, <2>4, <2>6
    <2>8. g = [d2 EXCEPT !.s.ready = v]
      BY <2>1, <2>3
    <2> QED
      BY <2>7, <2>8
  <1> HIDE DEF d
  <1>5. g \in Effect /\ g.a = d.a
    BY <1>1 DEF Effect, StreamRecord
  <1>6. /\ Around(e.s, g.s) /\ g.s.closeRequest = c /\ g.s.writeRequests = e.s.writeRequests
        /\ g.s.totalSize = e.s.totalSize /\ g.s.queue = q /\ g.s.ready = v
    BY <1>1 DEF Effect, StreamRecord, Around, Same
  <1> HIDE DEF g
  <1> QED
    BY <1>1, <1>2, <1>3, <1>4, <1>5, <1>6

LEMMA ClosingMatch ==
    ASSUME NEW s \in StreamRecord, NEW t, NEW k \in {0, 1}, Match(s, k), s.closeRequest = None,
           t.closeRequest # None, t.inFlightWrite = s.inFlightWrite,
           t.writeRequests = s.writeRequests, t.queue = Append(s.queue, CloseSentinel)
    PROVE  Match(t, k)
  <1>1. PICK r \in Seq(Write) : r = s.writeRequests
    BY DEF StreamRecord
  <1>2. PICK q \in Seq(Item) : q = s.queue
    BY DEF StreamRecord
  <1>3. CloseSentinel \in Item
    BY DEF CloseSentinel, Item, Takes
  <1>4. PICK q1 \in Seq(Item) : q1 = Append(q, CloseSentinel)
    BY <1>3, AppendSeq
  <1>5. t.writeRequests = r /\ t.queue = q1
    BY <1>1, <1>2, <1>4
  <1>6. Len(r) \in Nat
    OBVIOUS
  <1>7. /\ Len(q1) = Len(q) + 1 /\ q1[Len(q) + 1] = CloseSentinel /\ Len(q) \in Nat
        /\ \A i \in 1 .. Len(q) : q1[i] = q[i]
    BY <1>3, <1>4
  <1>8. PICK b \in {0, 1} : b = Busy(s)
    BY DEF Busy
  <1>9. Busy(t) = b /\ Closing(t) = 1 /\ Closing(s) = 0
    BY <1>8 DEF Busy, Closing
  <1>10. /\ Len(q) = b + Len(r) - k + 0 /\ k <= Len(r)
         /\ s.inFlightWrite # None => q[1].value = s.inFlightWrite
         /\ \A i \in 1 .. Len(r) - k : q[b + i].value = r[i]
    BY <1>1, <1>2, <1>8, <1>9 DEF Match
  <1>11. Len(q) = b + Len(r) - k /\ Len(q1) = b + Len(r) - k + 1
    BY <1>6, <1>7, <1>8, <1>10
  <1>12. ASSUME NEW i \in 1 .. Len(r) - k PROVE q1[b + i].value = r[i]
    <2>1. b + i \in 1 .. Len(q)
      BY SMTT(30), <1>6, <1>8, <1>11
    <2> QED
      BY <1>7, <1>10, <2>1
  <1>13. s.inFlightWrite # None => q1[1].value = s.inFlightWrite
    <2>1. ASSUME s.inFlightWrite # None
          PROVE  1 \in 1 .. Len(q)
      BY <1>6, <1>7, <1>8, <1>10, <1>11, <2>1 DEF Busy
    <2> QED
      BY <1>7, <1>10, <2>1
  <1>14. q1[Len(q1)] = CloseSentinel
    BY <1>7
  <1> QED
    BY <1>5, <1>9, <1>10, <1>11, <1>12, <1>13, <1>14 DEF Match

LEMMA CloseSteps ==
    ASSUME NEW e \in Effect, NEW acc \in Seq(Takes), Books(e.s, e.a, acc),
           ~IsTerminal(e.s), ~CloseQueuedOrInFlight(e.s), NEW c \in Closer, e.a[c] = "new", NEW x
    PROVE  LET f == AdvanceQueueIfNeeded(ClosingAs(e, c))
           IN  Step(e.s, e.a, f.s, f.a, acc, Append(acc, "close"), x)
  <1>1. PICK g \in Effect :
           /\ g = ClosingAs(e, c) /\ Around(e.s, g.s) /\ g.s.closeRequest = c
           /\ g.s.writeRequests = e.s.writeRequests /\ g.s.totalSize = e.s.totalSize
           /\ g.s.queue = Append(e.s.queue, CloseSentinel)
           /\ g.s.ready = IF e.s.backpressure /\ e.s.state = "writable"
                          THEN Resolved(e.s.ready) ELSE e.s.ready
           /\ \A y \in Call : g.a[y] = IF y = c THEN "pending" ELSE e.a[y]
    BY ClosingIs
  <1>2. /\ e.s \in StreamRecord /\ e.s.queue \in Seq(Item) /\ e.s.sunk \in Seq(Asks)
        /\ CloseSentinel \in Item /\ "close" \in Takes /\ CloseSentinel.value = "close"
        /\ CloseSentinel.size = 0 /\ e.s.writeRequests \in Seq(Write)
    BY DEF Effect, StreamRecord, Item, Takes, CloseSentinel
  <1>3. /\ e.s.state \in {"writable", "erroring"} /\ e.s.closeRequest = None
        /\ e.s.inFlightClose = None /\ c # None /\ c \in Call
    BY <1>2, StreamAssumption DEF CloseQueuedOrInFlight, IsTerminal, StreamRecord, Call
  <1>4. PICK acc2 \in Seq(Takes) : acc2 = Append(acc, "close")
    BY <1>2, AppendSeq
  <1>5. Flight(g.s) /\ Aborts(g.s)
    BY <1>1, <1>3 DEF Books, Around, Same, Flight, Aborts, HasOperationInFlight, IsTerminal
  <1>6. Matched(g.s)
    <2>1. PICK s \in StreamRecord : s = e.s
      BY <1>2
    <2>2. PICK t : t = g.s
      OBVIOUS
    <2>3. /\ s.closeRequest = None /\ t.closeRequest # None /\ t.inFlightWrite = s.inFlightWrite
          /\ t.writeRequests = s.writeRequests /\ t.queue = Append(s.queue, CloseSentinel)
      BY <1>1, <1>3, <2>1, <2>2 DEF Around
    <2>4. \A k \in {0, 1} : Match(s, k) => Match(t, k)
      BY <2>3, ClosingMatch
    <2>5. Total(g.s.queue) = Total(e.s.queue) + 0 /\ Total(e.s.queue) \in Nat
      BY <1>1, <1>2, TotalAppend, TotalNat
    <2>6. g.s.totalSize = Total(g.s.queue)
      BY <1>1, <2>5 DEF Books, Matched
    <2>7. g.s.state = e.s.state
      BY <1>1 DEF Around
    <2> QED
      BY <2>1, <2>2, <2>4, <2>6, <2>7 DEF Books, Matched
  <1>7. Lined(g.s, acc2)
    <2>1. /\ Len(e.s.sunk) + Len(e.s.queue) = Len(acc) + Busy(e.s)
          /\ Starts(e.s.sunk, acc) /\ Ends(e.s.queue, acc)
      BY DEF Books, Lined
    <2>2. Starts(g.s.sunk, acc2)
      BY <1>1, <1>2, <1>4, <2>1, AppendStarts DEF Around
    <2>3. Ends(g.s.queue, acc2)
      BY <1>1, <1>2, <1>4, <2>1, AppendEnds
    <2>4. /\ Len(g.s.queue) = Len(e.s.queue) + 1 /\ Len(acc2) = Len(acc) + 1
          /\ Len(e.s.queue) \in Nat /\ Len(acc) \in Nat /\ Len(e.s.sunk) \in Nat
      BY <1>1, <1>2, <1>4
    <2>5. Busy(g.s) = Busy(e.s) /\ Busy(e.s) \in Nat /\ g.s.sunk = e.s.sunk
      BY <1>1 DEF Around, Busy
    <2>7. Len(e.s.sunk) + (Len(e.s.queue) + 1) = (Len(acc) + 1) + Busy(e.s)
      <3>1. PICK i, j, k, b \in Nat :
               i = Len(e.s.sunk) /\ j = Len(e.s.queue) /\ k = Len(acc) /\ b = Busy(e.s)
        BY <2>4, <2>5
      <3>2. i + (j + 1) = (k + 1) + b
        <4>1. i + j = k + b
          BY <2>1, <3>1
        <4> QED
          BY <4>1
      <3> QED
        BY <3>1, <3>2
    <2>8. Len(g.s.sunk) + Len(g.s.queue) = Len(acc2) + Busy(g.s)
      BY <2>4, <2>5, <2>7, Zenon
    <2> QED
      BY <2>2, <2>3, <2>8 DEF Lined
  <1>8. "close" \notin Range(acc)
    BY DEF Books, Once
  <1>9. Once(g.s, acc2)
    BY <1>1, <1>3 DEF Books, Once, Around, Same, IsTerminal, CloseQueuedOrInFlight
  <1>10. Owed(g.s, g.a)
    <2>1. Kept(g.s) = Kept(e.s) \cup {c}
      BY <1>1, <1>3 DEF Kept, Around, Same
    <2> QED
      BY <1>1, <2>1 DEF Owed, Books, Around
  <1>11. Told(g.s)
    <2>1. CloseQueuedOrInFlight(g.s) /\ e.s.backpressure \in BOOLEAN
      BY <1>1, <1>2, <1>3 DEF CloseQueuedOrInFlight, StreamRecord
    <2>2. Told(e.s)
      BY DEF Books
    <2> QED
      BY <1>1, <1>3, <2>1, <2>2 DEF Told, ToldReady, ToldClosed, Around, Same, Resolved
  <1>12. Idling(g, acc2)
    BY <1>1, <1>3, <1>5, <1>6, <1>7, <1>9, <1>10, <1>11 DEF Idling, Around, Same
  <1>13. PICK f : f = AdvanceQueueIfNeeded(g)
    OBVIOUS
  <1>14. Sound(g, f, acc2)
    BY <1>12, <1>13, AdvanceQueueSound
  <1>16. Accepting(acc, acc2)
    BY <1>2, <1>4, <1>8 DEF Accepting
  <1>17. Answers(e, g, f, x)
    <2>1. c \notin Write
      BY StreamAssumption
    <2> QED
      BY <1>1, <2>1 DEF Answers
  <1>18. Doing(g.s) = Doing(e.s) /\ g.s.sunk = e.s.sunk
    BY <1>1, SinkKept
  <1>19. Step(e.s, e.a, f.s, f.a, acc, acc2, x)
    BY <1>14, <1>16, <1>17, <1>18, MethodSteps
  <1> QED
    BY <1>1, <1>4, <1>13, <1>19

-----------------------------------------------------------------------------
\* The rest of an abort.
LEMMA AbortSteps ==
    ASSUME NEW e \in Effect, NEW acc \in Seq(Takes), Books(e.s, e.a, acc), NEW a \in Aborter,
           e.a[a] \in {"new", "called"}, NEW x, x = a \/ e.a[a] # "called"
    PROVE  LET f == AbortRest(e, a) IN Step(e.s, e.a, f.s, f.a, acc, acc, x)
  <1>1. /\ e.s \in StreamRecord /\ e.a \in [Call -> Status] /\ a \in Call /\ a \notin Write
        /\ e.s.pendingAbort \in AbortRequest \cup {None}
    BY StreamAssumption DEF Effect, StreamRecord, Call
  <1>2. CASE IsTerminal(e.s)
    <2>1. PICK f \in Effect : f = Settle(e, {a}, "fulfilled") /\ f.s = e.s
             /\ \A c \in Call : f.a[c] = IF c = a THEN "fulfilled" ELSE e.a[c]
      BY SettleIs DEF Status
    <2>2. AbortRest(e, a) = f
      BY <1>2, <2>1 DEF AbortRest
    <2>3. PICK s, o, n : s = e.s /\ o = e.a /\ n = f.a
      OBVIOUS
    <2>4. /\ s \in StreamRecord /\ o \in [Call -> Status] /\ n \in [Call -> Status]
          /\ Books(s, o, acc) /\ \A c \in Call : c # a => n[c] = o[c]
          /\ o[a] # "pending" /\ n[a] # "pending" /\ o[a] # "fulfilled"
          /\ x = a \/ o[a] # "called"
      BY <1>1, <2>1, <2>3 DEF Effect
    <2>5. Step(s, o, s, n, acc, acc, x)
      BY <1>1, <2>4, AnswerSteps
    <2> QED
      BY <2>1, <2>2, <2>3, <2>5
  <1>3. CASE ~IsTerminal(e.s)
    <2>1. PICK already \in BOOLEAN : already = (e.s.state = "erroring")
      OBVIOUS
    <2>2. PICK was \in BOOLEAN : was = IF e.s.pendingAbort = None THEN already
                                       ELSE e.s.pendingAbort.wasAlreadyErroring
      BY <1>1 DEF AbortRequest
    <2>3. PICK calls \in SUBSET Aborter : calls = AbortCalls(e.s) \cup {a}
      BY <1>1 DEF AbortCalls, AbortRequest
    <2>4. PICK p \in AbortRequest : p = [calls |-> calls, wasAlreadyErroring |-> was]
      BY DEF AbortRequest
    <2>5. p # None /\ p.calls = calls /\ p.wasAlreadyErroring = was
      BY <2>4, StreamAssumption DEF AbortRequest
    <2> DEFINE d == Settle(e, {a}, "pending")
               g == [d EXCEPT !.s.pendingAbort = p]
    <2>6. d \in Effect /\ d.s = e.s /\ \A c \in Call : d.a[c] = IF c = a THEN "pending" ELSE e.a[c]
      BY SettleIs DEF Status
    <2>7. AbortRest(e, a) = IF e.s.pendingAbort = None /\ ~already THEN StartErroring(g) ELSE g
      <3>1. d.s.pendingAbort = e.s.pendingAbort
        BY <2>6
      <3> HIDE DEF d
      <3>2. AbortRest(e, a) =
              LET h == [d EXCEPT !.s.pendingAbort =
                          [calls |-> AbortCalls(e.s) \cup {a},
                           wasAlreadyErroring |-> IF @ = None THEN already
                                                  ELSE @.wasAlreadyErroring]]
              IN  IF e.s.pendingAbort = None /\ ~already THEN StartErroring(h) ELSE h
        BY <1>3, <2>1 DEF AbortRest, AbortCalls, d
      <3>3. g = [d EXCEPT !.s.pendingAbort =
                          [calls |-> AbortCalls(e.s) \cup {a},
                           wasAlreadyErroring |-> IF @ = None THEN already
                                                  ELSE @.wasAlreadyErroring]]
        BY <2>2, <2>3, <2>4, <3>1
      <3> HIDE DEF g
      <3> QED
        BY <3>2, <3>3
    <2> HIDE DEF d
    <2>8. g \in Effect /\ g.a = d.a
      BY <2>6 DEF Effect, StreamRecord
    <2>9. /\ g.s.pendingAbort = p /\ g.s.state = e.s.state /\ g.s.ready = e.s.ready
          /\ g.s.cleared = e.s.cleared /\ Same(e.s, g.s) /\ g.s.queue = e.s.queue
          /\ g.s.totalSize = e.s.totalSize /\ g.s.writeRequests = e.s.writeRequests
          /\ g.s.closeRequest = e.s.closeRequest /\ g.s.inFlightWrite = e.s.inFlightWrite
          /\ g.s.aborting = e.s.aborting /\ g.s.sunk = e.s.sunk /\ g.s.closed = e.s.closed
          /\ g.s.backpressure = e.s.backpressure
      BY <2>6 DEF Effect, StreamRecord, Same
    <2> HIDE DEF g
    <2>10. Flight(g.s) /\ Told(g.s) /\ Going(g.s)
      <3>1. Flight(g.s)
        BY <2>9 DEF Books, Flight, Same, HasOperationInFlight, IsTerminal
      <3>2. Told(g.s)
        BY <2>9 DEF Books, Told, Same, ToldReady, ToldClosed, CloseQueuedOrInFlight, Full
      <3>3. Going(g.s)
        BY <2>9 DEF Books, Going, Same, HasOperationInFlight
      <3> QED
        BY <3>1, <3>2, <3>3
    <2>11. Matched(g.s)
      <3>1. \A k : Match(e.s, k) => Match(g.s, k)
        BY <2>9 DEF Match, Busy, Closing
      <3> QED
        BY <2>9, <3>1 DEF Books, Matched
    <2>12. Lined(g.s, acc) /\ Once(g.s, acc)
      <3>1. Lined(e.s, acc) /\ Once(e.s, acc) /\ Busy(g.s) = Busy(e.s)
        BY <2>9 DEF Books, Busy
      <3>2. Lined(g.s, acc)
        BY <2>9, <3>1 DEF Lined, IsTerminal
      <3>3. Once(g.s, acc)
        BY <2>9, <3>1 DEF Same, Once, CloseQueuedOrInFlight, IsTerminal
      <3> QED
        BY <3>2, <3>3
    <2>13. Owed(g.s, g.a)
      <3>1. Kept(g.s) = Kept(e.s) \cup {a}
        BY <2>3, <2>5, <2>9 DEF Kept, AbortCalls, Same
      <3> QED
        BY <2>6, <2>8, <2>9, <3>1 DEF Owed, Books
    <2>14. \A f : Answers(e, g, f, x)
      BY <1>1, <2>6, <2>8 DEF Answers
    <2>15. Doing(g.s) = Doing(e.s) /\ g.s.sunk = e.s.sunk
      BY <2>9 DEF Doing, Same
    <2>16. Accepting(acc, acc)
      BY DEF Accepting
    <2>17. CASE e.s.pendingAbort = None /\ ~already
      <3>1. e.s.state = "writable"
        BY <1>1, <1>3, <2>1, <2>17 DEF IsTerminal, StreamRecord
      <3>2. Failing(e, acc)
        BY <3>1, BooksFail
      <3>3. Aborts(e.s) /\ Once(e.s, acc)
        BY DEF Books
      <3>4. /\ p.calls # {}
            /\ ~g.s.cleared \/ g.s.inFlightClose # None
            /\ "close" \in Range(g.s.sunk) => g.s.inFlightClose # None
        BY <2>3, <2>5, <2>9, <3>1, <3>3 DEF Aborts, Once, Same, IsTerminal
      <3>5. Match(g.s, 0) /\ g.s.totalSize = Total(g.s.queue)
        BY <2>9, <2>11, <3>1 DEF Matched
      <3>6. "abort" \notin Range(g.s.sunk)
        BY <2>9, <3>2 DEF Failing
      <3>7. IF g.s.writer = None THEN g.s.ready = "none" /\ g.s.closed = "none"
                                 ELSE g.s.ready # "none" /\ g.s.closed = "pending"
        BY <2>9, <3>2 DEF Failing, Same
      <3>8. Failing(g, acc)
        BY <2>9, <2>10, <2>12, <2>13, <3>1, <3>4, <3>5, <3>6, <3>7 DEF Failing
      <3>9. PICK f : f = StartErroring(g)
        OBVIOUS
      <3>10. Sound(g, f, acc)
        BY <2>8, <3>8, <3>9, StartErroringSound
      <3>11. Step(e.s, e.a, f.s, f.a, acc, acc, x)
        BY <2>8, <2>14, <2>15, <2>16, <3>10, MethodSteps
      <3> QED
        BY <2>7, <2>17, <3>9, <3>11
    <2>18. CASE ~(e.s.pendingAbort = None /\ ~already)
      <3>1. Aborts(e.s)
        BY DEF Books
      <3>2. e.s.state = "erroring"
        BY <2>1, <2>18, <3>1 DEF Aborts
      <3>3. Aborts(g.s)
        <4>1. was \/ ~g.s.cleared \/ g.s.inFlightClose # None
          BY <2>1, <2>2, <2>9, <2>18, <3>1 DEF Aborts, Same
        <4> QED
          BY <2>3, <2>5, <2>9, <3>2, <4>1 DEF Aborts
      <3>4. Books(g.s, g.a, acc)
        BY <2>10, <2>11, <2>12, <2>13, <3>3 DEF Books
      <3>5. Sound(g, g, acc)
        BY <2>8, <3>4 DEF Sound, Rejects, Moves
      <3>6. Step(e.s, e.a, g.s, g.a, acc, acc, x)
        BY <2>8, <2>14, <2>15, <2>16, <3>5, MethodSteps
      <3>7. AbortRest(e, a) = g
        BY <2>7, <2>18
      <3> QED
        BY <3>6, <3>7
    <2> QED
      BY <2>17, <2>18
  <1> QED
    BY <1>2, <1>3

-----------------------------------------------------------------------------
(***************************************************************************)
(* What the sink was asked for ends.                                       *)
(***************************************************************************)
\* All but one field, or two.
Resting(s, t) ==
    /\ t.state = s.state /\ t.ready = s.ready /\ t.closed = s.closed /\ t.writer = s.writer
    /\ t.signalled = s.signalled /\ t.backpressure = s.backpressure
    /\ t.aborting = s.aborting /\ t.sunk = s.sunk /\ t.closeRequest = s.closeRequest
    /\ t.writeRequests = s.writeRequests

StartedAs(e) == [e EXCEPT !.s.started = TRUE]

LEMMA StartSteps ==
    ASSUME NEW e \in Effect, NEW acc \in Seq(Takes), Books(e.s, e.a, acc), ~e.s.started,
           NEW ok \in BOOLEAN, NEW x
    PROVE  LET f == IF ok THEN AdvanceQueueIfNeeded(StartedAs(e))
                          ELSE DealWithRejection(StartedAs(e))
           IN  Step(e.s, e.a, f.s, f.a, acc, acc, x)
  <1>1. PICK g : g = StartedAs(e)
    OBVIOUS
  <1>2. /\ g \in Effect /\ g.a = e.a /\ Resting(e.s, g.s) /\ g.s.started = TRUE
        /\ g.s.queue = e.s.queue /\ g.s.totalSize = e.s.totalSize /\ g.s.cleared = e.s.cleared
        /\ g.s.inFlightWrite = e.s.inFlightWrite /\ g.s.inFlightClose = e.s.inFlightClose
        /\ g.s.pendingAbort = e.s.pendingAbort
    <2> DEFINE h == [e EXCEPT !.s.started = TRUE]
    <2>1. h \in Effect /\ h.a = e.a
      BY DEF Effect, StreamRecord
    <2>2. /\ Resting(e.s, h.s) /\ h.s.started = TRUE
          /\ h.s.queue = e.s.queue /\ h.s.totalSize = e.s.totalSize /\ h.s.cleared = e.s.cleared
          /\ h.s.inFlightWrite = e.s.inFlightWrite /\ h.s.inFlightClose = e.s.inFlightClose
          /\ h.s.pendingAbort = e.s.pendingAbort
      BY DEF Effect, StreamRecord, Resting
    <2>3. g = h
      BY <1>1 DEF StartedAs
    <2> HIDE DEF h
    <2> QED
      BY <2>1, <2>2, <2>3
  <1>3. /\ e.s.inFlightWrite = None /\ e.s.inFlightClose = None /\ ~IsTerminal(e.s)
        /\ e.s.aborting = {} /\ e.s.state \in {"writable", "erroring"}
    BY DEF Books, Flight, HasOperationInFlight, IsTerminal, Effect, StreamRecord
  <1>4. Flight(g.s) /\ Aborts(g.s) /\ Told(g.s)
    <2>1. Flight(g.s)
      BY <1>2, <1>3 DEF Books, Flight, Resting, HasOperationInFlight, IsTerminal
    <2>2. Aborts(g.s)
      BY <1>2 DEF Books, Aborts, Resting
    <2>3. Told(g.s)
      BY <1>2 DEF Books, Told, Resting, ToldReady, ToldClosed, CloseQueuedOrInFlight, Full
    <2> QED
      BY <2>1, <2>2, <2>3
  <1>5. Matched(g.s)
    <2>1. \A k : Match(e.s, k) => Match(g.s, k)
      BY <1>2 DEF Match, Busy, Closing, Resting
    <2> QED
      BY <1>2, <2>1 DEF Books, Matched, Resting
  <1>6. Lined(g.s, acc) /\ Once(g.s, acc)
    <2>1. Lined(e.s, acc) /\ Once(e.s, acc) /\ Busy(g.s) = Busy(e.s)
      BY <1>2 DEF Books, Busy
    <2>2. Lined(g.s, acc)
      BY <1>2, <2>1 DEF Lined, IsTerminal, Resting
    <2>3. Once(g.s, acc)
      BY <1>2, <2>1 DEF Resting, Once, CloseQueuedOrInFlight, IsTerminal
    <2> QED
      BY <2>2, <2>3
  <1>7. Owed(g.s, g.a)
    BY <1>2 DEF Books, Owed, Kept, Resting
  <1>8. Doing(g.s) = {} /\ g.s.sunk = e.s.sunk
    BY <1>2, <1>3 DEF Doing, Resting
  <1>9. \A f : Answers(e, g, f, x)
    BY <1>2 DEF Answers
  <1>10. Accepting(acc, acc)
    BY DEF Accepting
  <1>11. ASSUME NEW f, Sound(g, f, acc)
         PROVE  Step(e.s, e.a, f.s, f.a, acc, acc, x)
    BY <1>2, <1>8, <1>9, <1>10, <1>11, MethodSteps
  <1>12. CASE ok
    <2>1. Idling(g, acc)
      BY <1>2, <1>3, <1>4, <1>5, <1>6, <1>7 DEF Idling
    <2>2. Sound(g, AdvanceQueueIfNeeded(g), acc)
      BY <1>2, <2>1, AdvanceQueueSound
    <2> QED
      BY <1>1, <1>11, <1>12, <2>2
  <1>13. CASE ~ok
    <2>1. "abort" \notin Range(g.s.sunk) /\ "close" \notin Range(g.s.sunk)
      BY <1>2, <1>3, <1>6 DEF Once, Resting, IsTerminal
    <2>2. ~HasOperationInFlight(g.s) /\ g.s.state = e.s.state
      BY <1>2, <1>3 DEF HasOperationInFlight, Resting
    <2>3. CASE e.s.state = "writable"
      <3>1. Failing(e, acc) /\ e.s.pendingAbort = None
        BY <2>3, BooksFail
      <3>2. IF g.s.writer = None THEN g.s.ready = "none" /\ g.s.closed = "none"
                                 ELSE g.s.ready # "none" /\ g.s.closed = "pending"
        BY <1>2, <3>1 DEF Failing, Resting
      <3>3. g.s.totalSize = Total(g.s.queue) /\ Match(g.s, 0)
        BY <1>5, <2>2, <2>3 DEF Matched
      <3>4. Failing(g, acc)
        BY <1>2, <1>4, <1>6, <1>7, <2>1, <2>2, <2>3, <3>1, <3>2, <3>3 DEF Failing
      <3> QED
        BY <1>1, <1>2, <1>11, <1>13, <2>2, <2>3, <3>4, DealWithRejectionSound
    <2>4. CASE e.s.state = "erroring"
      <3>1. Doomed(g)
        BY <1>2, <1>4, <1>7, <2>1, <2>2, <2>4 DEF Doomed
      <3> QED
        BY <1>1, <1>2, <1>11, <1>13, <2>2, <2>4, <3>1, DealWithRejectionSound
    <2> QED
      BY <1>3, <2>3, <2>4
  <1> QED
    BY <1>12, <1>13

\* The write in flight is taken out of the queue.
HandedBackAs(e, v) ==
    [Settle(e, {e.s.inFlightWrite}, v) EXCEPT !.s = [Dequeue(@) EXCEPT !.inFlightWrite = None]]

LEMMA TailMatch ==
    ASSUME NEW s \in StreamRecord, NEW t, NEW k \in {0, 1}, Match(s, k), s.inFlightWrite # None,
           t.inFlightWrite = None, t.closeRequest = s.closeRequest,
           t.writeRequests = s.writeRequests, t.queue = Tail(s.queue), s.queue # << >>
    PROVE  Match(t, k)
  <1>1. PICK r \in Seq(Write) : r = s.writeRequests
    BY DEF StreamRecord
  <1>2. PICK q \in Seq(Item) : q = s.queue
    BY DEF StreamRecord
  <1>3. PICK q1 \in Seq(Item) : q1 = Tail(q)
    BY <1>2, TailSeq
  <1>4. /\ Len(q1) = Len(q) - 1 /\ Len(q) \in Nat \ {0}
        /\ \A i \in 1 .. Len(q) - 1 : q1[i] = q[i + 1]
    BY <1>2, <1>3, TailSeq
  <1>5. t.writeRequests = r /\ t.queue = q1 /\ Len(r) \in Nat
    BY <1>1, <1>2, <1>3
  <1>6. PICK z \in {0, 1} : z = Closing(s)
    BY DEF Closing
  <1>7. Busy(s) = 1 /\ Busy(t) = 0 /\ Closing(t) = z
    BY <1>6 DEF Busy, Closing
  <1>8. /\ Len(q) = 1 + Len(r) - k + z /\ k <= Len(r)
        /\ \A i \in 1 .. Len(r) - k : q[1 + i].value = r[i]
        /\ s.closeRequest # None => q[Len(q)] = CloseSentinel
    BY <1>1, <1>2, <1>6, <1>7 DEF Match
  <1>9. Len(q1) = 0 + Len(r) - k + z
    BY <1>4, <1>5, <1>6, <1>8
  <1>10. ASSUME NEW i \in 1 .. Len(r) - k PROVE q1[0 + i].value = r[i]
    <2>1. 0 + i = i /\ i \in 1 .. Len(q) - 1 /\ 1 + i = i + 1
      BY <1>5, <1>6, <1>8
    <2> QED
      BY <1>4, <1>8, <2>1
  <1>11. ASSUME s.closeRequest # None PROVE q1[Len(q1)] = CloseSentinel
    <2>1. z = 1
      BY <1>6, <1>11 DEF Closing
    <2>2. Len(q1) \in 1 .. Len(q) - 1 /\ Len(q1) + 1 = Len(q)
      BY <1>4, <1>5, <1>8, <2>1
    <2> QED
      BY <1>4, <1>8, <1>11, <2>2
  <1> QED
    BY <1>5, <1>7, <1>8, <1>9, <1>10, <1>11 DEF Match

\* What a write that ends leaves, before a method is run.
HandedBack(e, g, v, acc) ==
    /\ g \in Effect /\ g = HandedBackAs(e, v)
    /\ Flight(g.s) /\ Aborts(g.s) /\ Matched(g.s) /\ Lined(g.s, acc) /\ Once(g.s, acc)
    /\ Owed(g.s, g.a)
    /\ g.s.inFlightWrite = None /\ g.s.inFlightClose = None /\ g.s.started = TRUE
    /\ g.s.sunk = e.s.sunk /\ Doing(g.s) = {} /\ g.s.cleared = e.s.cleared
    /\ g.s.state = e.s.state /\ g.s.ready = e.s.ready /\ g.s.closed = e.s.closed
    /\ g.s.writer = e.s.writer /\ g.s.backpressure = e.s.backpressure
    /\ g.s.closeRequest = e.s.closeRequest /\ g.s.pendingAbort = e.s.pendingAbort
    /\ g.s.writeRequests = e.s.writeRequests
    /\ \A c \in Call : g.a[c] = IF c = e.s.inFlightWrite THEN v ELSE e.a[c]

LEMMA HandedBackIs ==
    ASSUME NEW e \in Effect, NEW acc \in Seq(Takes), Books(e.s, e.a, acc),
           e.s.inFlightWrite # None, NEW v \in {"fulfilled", "rejected"}
    PROVE  HandedBack(e, HandedBackAs(e, v), v, acc)
  <1>1. /\ e.s \in StreamRecord /\ e.s.queue \in Seq(Item) /\ e.s.sunk \in Seq(Asks)
        /\ e.s.writeRequests \in Seq(Write) /\ e.s.started \in BOOLEAN
        /\ e.s.inFlightWrite \in Write /\ e.s.inFlightWrite \in Call
        /\ e.s.state \in {"writable", "erroring", "errored", "closed"}
    BY DEF Effect, StreamRecord, Call
  <1>2. /\ e.s.started /\ e.s.inFlightClose = None /\ e.s.aborting = {}
        /\ e.s.state \in {"writable", "erroring"}
    BY <1>1 DEF Books, Flight, HasOperationInFlight, IsTerminal
  <1>3. e.s.totalSize = Total(e.s.queue) /\ (Match(e.s, 0) \/ Match(e.s, 1))
    BY <1>2 DEF Books, Matched
  <1>4. e.s.queue # << >>
    <2>1. PICK k \in {0, 1} : Match(e.s, k)
      BY <1>3
    <2>2. Busy(e.s) = 1 /\ Closing(e.s) \in {0, 1} /\ Len(e.s.writeRequests) \in Nat
      BY <1>1 DEF Busy, Closing
    <2>3. /\ k <= Len(e.s.writeRequests)
          /\ Len(e.s.queue) = Busy(e.s) + Len(e.s.writeRequests) - k + Closing(e.s)
      BY <2>1 DEF Match
    <2>4. Len(e.s.queue) # 0
      BY <2>2, <2>3
    <2> QED
      BY <2>4
  <1>5. PICK d \in StreamRecord :
           /\ d = Dequeue(e.s) /\ Beside(e.s, d)
           /\ d.queue = Tail(e.s.queue) /\ d.totalSize = Total(d.queue)
           /\ d.inFlightWrite = e.s.inFlightWrite /\ d.inFlightClose = e.s.inFlightClose
           /\ d.writeRequests = e.s.writeRequests /\ d.closeRequest = e.s.closeRequest
           /\ d.cleared = e.s.cleared /\ d.sunk = e.s.sunk
    BY <1>1, <1>3, <1>4, DequeueIs
  <1> DEFINE t == [d EXCEPT !.inFlightWrite = None]
  <1>6. t \in StreamRecord
    BY DEF StreamRecord
  <1>7. /\ Beside(d, t) /\ t.inFlightWrite = None
        /\ t.queue = d.queue /\ t.totalSize = d.totalSize /\ t.inFlightClose = d.inFlightClose
        /\ t.writeRequests = d.writeRequests /\ t.closeRequest = d.closeRequest
        /\ t.cleared = d.cleared /\ t.sunk = d.sunk
    BY DEF StreamRecord, Beside
  <1>8. PICK h \in Effect : h = Settle(e, {e.s.inFlightWrite}, v) /\ h.s = e.s
           /\ \A c \in Call : h.a[c] = IF c = e.s.inFlightWrite THEN v ELSE e.a[c]
    BY SettleIs DEF Status
  <1>9. PICK g \in Effect : g = HandedBackAs(e, v) /\ g.s = t /\ g.a = h.a
    <2>1. HandedBackAs(e, v) = [h EXCEPT !.s = t]
      BY <1>5, <1>8 DEF HandedBackAs
    <2> HIDE DEF t
    <2> QED
      BY <1>6, <1>8, <2>1 DEF Effect
  <1> HIDE DEF t
  <1>10. Beside(e.s, t)
    BY <1>5, <1>7 DEF Beside
  <1>11. /\ t.queue = Tail(e.s.queue) /\ t.totalSize = Total(t.queue) /\ t.inFlightClose = None
         /\ t.writeRequests = e.s.writeRequests /\ t.closeRequest = e.s.closeRequest
         /\ t.cleared = e.s.cleared /\ t.sunk = e.s.sunk /\ t.inFlightWrite = None
    BY <1>2, <1>5, <1>7
  <1>12. Flight(t) /\ Aborts(t)
    BY <1>2, <1>10, <1>11 DEF Books, Flight, Aborts, Beside, HasOperationInFlight, IsTerminal
  <1>13. Matched(t)
    <2>1. PICK s \in StreamRecord : s = e.s
      BY <1>1
    <2>2. /\ s.inFlightWrite # None /\ t.inFlightWrite = None /\ t.closeRequest = s.closeRequest
          /\ t.writeRequests = s.writeRequests /\ t.queue = Tail(s.queue) /\ s.queue # << >>
      BY <1>4, <1>11, <2>1
    <2>3. \A k \in {0, 1} : Match(s, k) => Match(t, k)
      BY <2>2, TailMatch
    <2>4. t.state = e.s.state
      BY <1>10 DEF Beside
    <2> QED
      BY <1>11, <2>1, <2>3, <2>4 DEF Books, Matched
  <1>14. Lined(t, acc)
    <2>1. /\ Len(e.s.sunk) + Len(e.s.queue) = Len(acc) + 1
          /\ Starts(e.s.sunk, acc) /\ Ends(e.s.queue, acc)
      BY <1>2 DEF Books, Lined, IsTerminal, Busy
    <2>2. Ends(t.queue, acc)
      BY <1>1, <1>4, <1>11, <2>1, TailEnds
    <2>3. Busy(t) = 0 /\ Starts(t.sunk, acc)
      BY <1>11, <2>1 DEF Busy
    <2>4. Len(t.queue) = Len(e.s.queue) - 1 /\ Len(e.s.queue) \in Nat \ {0}
      BY <1>1, <1>4, <1>11, TailSeq
    <2>5. Len(e.s.sunk) \in Nat /\ Len(acc) \in Nat
      BY <1>1
    <2>6. Len(t.sunk) + Len(t.queue) = Len(acc) + Busy(t)
      <3>2. PICK i, j, k \in Nat : i = Len(e.s.sunk) /\ j = Len(e.s.queue) /\ k = Len(acc)
        BY <2>4, <2>5
      <3>3. i + (j - 1) = k + 0
        <4>1. i + j = k + 1
          BY <2>1, <3>2
        <4> QED
          BY <4>1
      <3>4. Len(e.s.sunk) + (Len(e.s.queue) - 1) = Len(acc) + 0
        BY <3>2, <3>3
      <3> QED
        BY <1>11, <2>3, <2>4, <3>4, Zenon
    <2> QED
      BY <2>2, <2>3, <2>6 DEF Lined
  <1>15. Once(t, acc)
    <2>1. Once(e.s, acc)
      BY DEF Books
    <2> QED
      BY <1>2, <1>10, <1>11, <2>1 DEF Once, Beside, CloseQueuedOrInFlight, IsTerminal
  <1>16. Owed(t, g.a)
    <2>1. e.s.inFlightWrite \notin Range(e.s.writeRequests)
      BY DEF Books, Owed
    <2>2. /\ e.s.closeRequest # e.s.inFlightWrite
          /\ e.s.pendingAbort # None => e.s.inFlightWrite \notin e.s.pendingAbort.calls
      BY <1>1, StreamAssumption DEF StreamRecord, AbortRequest
    <2>3. Kept(t) = Kept(e.s) \ {e.s.inFlightWrite}
      <3>1. t.pendingAbort = e.s.pendingAbort /\ t.aborting = {}
        BY <1>2, <1>10 DEF Beside
      <3> QED
        BY <1>2, <1>11, <2>1, <2>2, <3>1 DEF Kept
    <2>4. None \notin Range(t.writeRequests)
      BY <1>1, <1>11, RangeIn, StreamAssumption DEF Call
    <2>5. \A c \in Call : g.a[c] = "pending" <=> c \in Kept(t)
      <3>1. \A c \in Call : e.a[c] = "pending" <=> c \in Kept(e.s)
        BY DEF Owed, Books
      <3>2. \A c \in Call : g.a[c] = IF c = e.s.inFlightWrite THEN v ELSE e.a[c]
        BY <1>8, <1>9
      <3>3. v # "pending"
        OBVIOUS
      <3> QED
        BY <2>3, <3>1, <3>2, <3>3
    <2>6. Distinct(t.writeRequests)
      BY <1>11 DEF Owed, Books
    <2> QED
      BY <1>11, <2>4, <2>5, <2>6 DEF Owed
  <1>17. Doing(t) = {}
    BY <1>2, <1>10, <1>11 DEF Doing, Beside
  <1> QED
    BY ZenonT(60), <1>2, <1>8, <1>9, <1>10, <1>11, <1>12, <1>13, <1>14, <1>15, <1>16, <1>17
    DEF HandedBack, Beside

LEMMA FinishWriteSteps ==
    ASSUME NEW e \in Effect, NEW acc \in Seq(Takes), Books(e.s, e.a, acc),
           e.s.inFlightWrite # None, NEW x
    PROVE  LET g == HandedBackAs(e, "fulfilled")
               f == AdvanceQueueIfNeeded(
                      IF e.s.state = "writable" /\ ~CloseQueuedOrInFlight(e.s)
                      THEN UpdateBackpressure(g) ELSE g)
           IN  Step(e.s, e.a, f.s, f.a, acc, acc, x)
  <1>1. PICK g \in Effect : g = HandedBackAs(e, "fulfilled") /\ HandedBack(e, g, "fulfilled", acc)
    BY HandedBackIs DEF HandedBack
  <1>2. PICK f : f = AdvanceQueueIfNeeded(
                       IF e.s.state = "writable" /\ ~CloseQueuedOrInFlight(e.s)
                       THEN UpdateBackpressure(g) ELSE g)
    OBVIOUS
  <1>3. Told(e.s) /\ e.s.backpressure \in BOOLEAN /\ e.s.inFlightClose = None
    BY DEF Books, Flight, Effect, StreamRecord
  <1>4. Deaf(g, acc)
    BY <1>1 DEF HandedBack, Deaf
  <1>5. Sound(g, f, acc)
    <2>1. CASE e.s.state = "writable" /\ ~CloseQueuedOrInFlight(e.s)
      <3>1. Heard(g.s)
        BY <1>1, <1>3, <2>1 DEF HandedBack, Heard, Told, ToldReady, ToldClosed,
                                CloseQueuedOrInFlight
      <3>2. f = AdvanceQueueIfNeeded(UpdateBackpressure(g))
        BY <1>2, <2>1
      <3> QED
        BY <1>4, <3>1, <3>2, UpdateAndAdvance
    <2>2. CASE ~(e.s.state = "writable" /\ ~CloseQueuedOrInFlight(e.s))
      <3>1. e.s.state \in {"writable", "erroring"} /\ e.s.aborting = {}
        BY DEF Books, Flight, HasOperationInFlight, IsTerminal, Effect, StreamRecord
      <3>2. CloseQueuedOrInFlight(g.s) <=> CloseQueuedOrInFlight(e.s)
        BY <1>1, <1>3 DEF HandedBack, CloseQueuedOrInFlight
      <3>3. Told(g.s)
        BY <1>1, <1>3, <2>2, <3>1, <3>2 DEF HandedBack, Told, ToldReady, ToldClosed
      <3>4. Idling(g, acc)
        BY <1>4, <3>3 DEF Deaf, Idling
      <3>5. f = AdvanceQueueIfNeeded(g)
        BY <1>2, <2>2
      <3> QED
        BY <3>4, <3>5, AdvanceQueueSound
    <2> QED
      BY <2>1, <2>2
  <1>6. /\ e.s.inFlightWrite \in Write /\ e.s.inFlightWrite \in Call
        /\ e.s.inFlightWrite \notin Range(e.s.writeRequests)
        /\ e.a[e.s.inFlightWrite] = "pending"
    <2>1. e.s.inFlightWrite \in Write /\ e.s.inFlightWrite \in Call
      BY DEF Effect, StreamRecord, Call
    <2>2. e.s.inFlightWrite \in Kept(e.s)
      BY DEF Kept
    <2> QED
      BY <2>1, <2>2 DEF Books, Owed
  <1>7. e.s.inFlightWrite \in Doing(e.s) \ Doing(f.s)
    <2>1. e.s.inFlightWrite \in Doing(e.s)
      BY DEF Doing
    <2>2. f.s.inFlightWrite = None \/ f.s.inFlightWrite \in Range(e.s.writeRequests)
      BY <1>1, <1>5 DEF Sound, HandedBack
    <2>3. e.s.inFlightWrite # f.s.inFlightWrite
      BY <1>6, <2>2
    <2>4. e.s.inFlightWrite \notin {"start", "close", "abort"}
      BY <1>6, StreamAssumption
    <2> QED
      BY <2>1, <2>3, <2>4 DEF Doing
  <1>8. Answers(e, g, f, x)
    <2>1. \A c \in Call : g.a[c] = IF c = e.s.inFlightWrite THEN "fulfilled" ELSE e.a[c]
      BY <1>1 DEF HandedBack
    <2> QED
      BY <1>6, <1>7, <2>1 DEF Answers
  <1>9. Doing(g.s) = {} /\ g.s.sunk = e.s.sunk /\ Accepting(acc, acc)
    BY <1>1 DEF HandedBack, Accepting
  <1>10. Step(e.s, e.a, f.s, f.a, acc, acc, x)
    BY <1>5, <1>8, <1>9, MethodSteps
  <1> QED
    BY <1>1, <1>2, <1>10

LEMMA FailWriteSteps ==
    ASSUME NEW e \in Effect, NEW acc \in Seq(Takes), Books(e.s, e.a, acc),
           e.s.inFlightWrite # None, NEW x
    PROVE  LET g == HandedBackAs(e, "rejected")
               f == DealWithRejection([g EXCEPT !.s.cleared = @ \/ (e.s.state = "writable")])
           IN  Step(e.s, e.a, f.s, f.a, acc, acc, x)
  <1>1. PICK g \in Effect : g = HandedBackAs(e, "rejected") /\ HandedBack(e, g, "rejected", acc)
    BY HandedBackIs DEF HandedBack
  <1>2. PICK z \in BOOLEAN : z = (e.s.cleared \/ e.s.state = "writable")
    OBVIOUS
  <1>3. PICK h \in Effect :
           /\ h = [g EXCEPT !.s.cleared = z] /\ h.a = g.a /\ Alike(g.s, h.s)
           /\ h.s.state = g.s.state /\ h.s.ready = g.s.ready /\ h.s.cleared = z
    <2> DEFINE i == [g EXCEPT !.s.cleared = z]
    <2>1. /\ i \in Effect /\ i.a = g.a /\ Alike(g.s, i.s)
          /\ i.s.state = g.s.state /\ i.s.ready = g.s.ready /\ i.s.cleared = z
      BY ClearIs
    <2> HIDE DEF i
    <2> QED
      BY <2>1 DEF i
  <1>4. h = [g EXCEPT !.s.cleared = @ \/ (e.s.state = "writable")]
    <2>1. g.s.cleared = e.s.cleared
      BY <1>1 DEF HandedBack
    <2> QED
      BY <1>2, <1>3, <2>1
  <1>5. /\ Told(e.s) /\ e.s.aborting = {} /\ e.s.state \in {"writable", "erroring"}
    BY DEF Books, Flight, HasOperationInFlight, IsTerminal, Effect, StreamRecord
  <1>6. Flight(h.s) /\ Owed(h.s, h.a)
    <2>1. Flight(g.s) /\ Owed(g.s, g.a)
      BY <1>1 DEF HandedBack
    <2> QED
      BY <1>3, <2>1 DEF Alike, Same, Flight, HasOperationInFlight, IsTerminal, Owed, Kept
  <1>7. /\ ~HasOperationInFlight(h.s) /\ h.s.started = TRUE /\ h.s.state = e.s.state
        /\ h.s.sunk = e.s.sunk /\ h.s.pendingAbort = e.s.pendingAbort
        /\ h.s.inFlightClose = None
    BY <1>1, <1>3 DEF HandedBack, Alike, Same, HasOperationInFlight
  <1>8. "abort" \notin Range(h.s.sunk) /\ "close" \notin Range(h.s.sunk)
    <2>1. Once(g.s, acc) /\ g.s.inFlightClose = None /\ g.s.state = e.s.state /\ g.s.sunk = e.s.sunk
      BY <1>1 DEF HandedBack
    <2> QED
      BY <1>5, <1>7, <2>1 DEF Once, IsTerminal
  <1>9. Doing(h.s) = {} /\ Accepting(acc, acc)
    <2>1. Doing(g.s) = {}
      BY <1>1 DEF HandedBack
    <2> QED
      BY <1>3, <2>1 DEF Doing, Alike, Same, Accepting
  <1>10. \A f : Answers(e, h, f, x)
    <2>1. \A c \in Call : h.a[c] = IF c = e.s.inFlightWrite THEN "rejected" ELSE e.a[c]
      BY <1>1, <1>3 DEF HandedBack
    <2>2. \A c \in Call : c = e.s.inFlightWrite => e.a[c] = "pending"
      BY DEF Books, Owed, Kept
    <2> QED
      BY <2>1, <2>2 DEF Answers
  <1>11. CASE e.s.state = "writable"
    <2>1. Failing(e, acc) /\ e.s.pendingAbort = None
      BY <1>11, BooksFail
    <2>2. IF h.s.writer = None THEN h.s.ready = "none" /\ h.s.closed = "none"
                               ELSE h.s.ready # "none" /\ h.s.closed = "pending"
      BY <1>1, <1>3, <2>1 DEF Failing, HandedBack, Alike, Same
    <2>3. h.s.totalSize = Total(h.s.queue) /\ Match(h.s, 0)
      <3>1. g.s.totalSize = Total(g.s.queue) /\ Match(g.s, 0)
        BY <1>1, <1>11 DEF HandedBack, Matched
      <3>2. Match(g.s, 0) => Match(h.s, 0)
        <4>1. Alike(g.s, h.s)
          BY <1>3
        <4>2. PICK s, t : s = g.s /\ t = h.s
          OBVIOUS
        <4>3. Match(s, 0) => Match(t, 0)
          BY ZenonT(60), <4>1, <4>2 DEF Alike, Match, Busy, Closing
        <4> QED
          BY <4>2, <4>3
      <3> QED
        BY <1>3, <3>1, <3>2 DEF Alike
    <2>4. Lined(h.s, acc)
      <3>1. Lined(g.s, acc)
        BY <1>1 DEF HandedBack
      <3> QED
        BY <1>3, <3>1 DEF Alike, Lined, Busy, IsTerminal
    <2>5. Failing(h, acc)
      BY <1>6, <1>7, <1>8, <1>11, <2>1, <2>2, <2>3, <2>4 DEF Failing
    <2>6. Sound(h, DealWithRejection(h), acc)
      BY <1>7, <1>11, <2>5, DealWithRejectionSound
    <2> QED
      BY <1>1, <1>4, <1>7, <1>9, <1>10, <2>6, MethodSteps
  <1>12. CASE e.s.state = "erroring"
    <2>1. Aborts(h.s)
      <3>1. z = e.s.cleared
        BY <1>2, <1>12 DEF Effect, StreamRecord
      <3>2. Aborts(g.s) /\ g.s.cleared = e.s.cleared
        BY <1>1 DEF HandedBack
      <3> QED
        BY <1>3, <3>1, <3>2 DEF Aborts, Alike, Same
    <2>2. Told(h.s)
      <3>1. h.s.state = "erroring" /\ h.s.writer = e.s.writer /\ h.s.ready = e.s.ready
            /\ h.s.closed = e.s.closed
        BY <1>1, <1>3, <1>7, <1>12 DEF HandedBack, Alike, Same
      <3> QED
        BY <1>5, <1>12, <3>1 DEF Told, ToldReady, ToldClosed
    <2>3. Doomed(h)
      BY <1>6, <1>7, <1>8, <1>12, <2>1, <2>2 DEF Doomed
    <2>4. Sound(h, DealWithRejection(h), acc)
      BY <1>7, <1>12, <2>3, DealWithRejectionSound
    <2> QED
      BY <1>1, <1>4, <1>7, <1>9, <1>10, <2>4, MethodSteps
  <1> QED
    BY <1>5, <1>11, <1>12

\* A stream with its close in flight.
LEMMA CloseInFlight ==
    ASSUME NEW e \in Effect, NEW acc, Books(e.s, e.a, acc), e.s.inFlightClose # None
    PROVE  /\ e.s.started /\ e.s.inFlightWrite = None /\ e.s.closeRequest = None
           /\ e.s.queue = << >> /\ e.s.writeRequests = << >> /\ e.s.aborting = {}
           /\ e.s.state \in {"writable", "erroring"} /\ e.s.inFlightClose \in Closer
           /\ AbortCalls(e.s) \in SUBSET Aborter /\ Doing(e.s) = {"close"}
           /\ "abort" \notin Range(e.s.sunk)
           /\ e.s.pendingAbort # None => e.s.state = "erroring"
           /\ Kept(e.s) = {e.s.inFlightClose} \cup AbortCalls(e.s)
           /\ \A c \in Call : e.a[c] = "pending" <=> c \in Kept(e.s)
  <1>1. /\ e.s.started \in BOOLEAN /\ e.s.state \in {"writable", "erroring", "errored", "closed"}
        /\ e.s.inFlightClose \in Closer /\ AbortCalls(e.s) \in SUBSET Aborter
    BY DEF Effect, StreamRecord, AbortCalls, AbortRequest
  <1>2. /\ e.s.started /\ e.s.inFlightWrite = None /\ e.s.closeRequest = None
        /\ e.s.queue = << >> /\ e.s.writeRequests = << >> /\ e.s.aborting = {}
        /\ e.s.state \in {"writable", "erroring"}
    BY <1>1 DEF Books, Flight, HasOperationInFlight, IsTerminal
  <1>3. Doing(e.s) = {"close"}
    BY <1>2 DEF Doing
  <1>4. "abort" \notin Range(e.s.sunk) /\ (e.s.pendingAbort # None => e.s.state = "erroring")
    BY <1>2 DEF Books, Once, Aborts
  <1>5. Kept(e.s) = {e.s.inFlightClose} \cup AbortCalls(e.s)
    BY <1>2, RangeEmpty DEF Kept, AbortCalls
  <1>6. \A c \in Call : e.a[c] = "pending" <=> c \in Kept(e.s)
    BY DEF Books, Owed
  <1> QED
    BY <1>1, <1>2, <1>3, <1>4, <1>5, <1>6

ClosedAs(e) ==
    [Settle(e, {e.s.inFlightClose} \cup AbortCalls(e.s), "fulfilled") EXCEPT
        !.s.inFlightClose = None, !.s.state = "closed",
        !.s.pendingAbort = IF e.s.state = "erroring" THEN None ELSE @,
        !.s.closed = Resolved(@)]

LEMMA FinishCloseSteps ==
    ASSUME NEW e \in Effect, NEW acc \in Seq(Takes), Books(e.s, e.a, acc),
           e.s.inFlightClose # None, NEW x
    PROVE  LET f == ClosedAs(e) IN Step(e.s, e.a, f.s, f.a, acc, acc, x)
  <1>1. PICK cs : cs = {e.s.inFlightClose} \cup AbortCalls(e.s)
    OBVIOUS
  <1>2. /\ e.s.started /\ e.s.inFlightWrite = None /\ e.s.closeRequest = None
        /\ e.s.queue = << >> /\ e.s.writeRequests = << >> /\ e.s.aborting = {}
        /\ e.s.state \in {"writable", "erroring"} /\ e.s.inFlightClose \in Closer
        /\ AbortCalls(e.s) \in SUBSET Aborter /\ Doing(e.s) = {"close"}
        /\ "abort" \notin Range(e.s.sunk)
        /\ e.s.pendingAbort # None => e.s.state = "erroring"
        /\ \A c \in Call : e.a[c] = "pending" <=> c \in cs
    BY <1>1, CloseInFlight
  <1>3. PICK d \in Effect : d = Settle(e, cs, "fulfilled") /\ d.s = e.s
           /\ \A c \in Call : d.a[c] = IF c \in cs THEN "fulfilled" ELSE e.a[c]
    BY SettleIs DEF Status
  <1>4. PICK v \in Promise : v = Resolved(e.s.closed)
    BY DEF Effect, StreamRecord, Promise, Resolved
  <1> DEFINE f == [d EXCEPT !.s.inFlightClose = None, !.s.state = "closed",
                            !.s.pendingAbort = None, !.s.closed = v]
  <1>5. ClosedAs(e) = f
    <2>1. (IF e.s.state = "erroring" THEN None ELSE d.s.pendingAbort) = None
      BY <1>2, <1>3
    <2>2. Resolved(d.s.closed) = v
      BY <1>3, <1>4
    <2>3. ClosedAs(e) =
            [d EXCEPT !.s.inFlightClose = None, !.s.state = "closed",
                      !.s.pendingAbort = IF e.s.state = "erroring" THEN None ELSE d.s.pendingAbort,
                      !.s.closed = Resolved(d.s.closed)]
      BY <1>1, <1>3 DEF ClosedAs
    <2> QED
      BY <2>1, <2>2, <2>3
  <1>6. f \in Effect /\ f.a = d.a
    BY ZenonT(60) DEF Effect, StreamRecord
  <1>7. /\ f.s.inFlightClose = None /\ f.s.state = "closed" /\ f.s.pendingAbort = None
        /\ f.s.closed = v /\ f.s.queue = e.s.queue /\ f.s.totalSize = e.s.totalSize
        /\ f.s.writeRequests = e.s.writeRequests /\ f.s.closeRequest = e.s.closeRequest
        /\ f.s.inFlightWrite = e.s.inFlightWrite /\ f.s.aborting = e.s.aborting
        /\ f.s.sunk = e.s.sunk /\ f.s.started = e.s.started /\ f.s.writer = e.s.writer
        /\ f.s.ready = e.s.ready
    BY <1>3 DEF Effect, StreamRecord
  <1> HIDE DEF f
  <1>8. Flight(f.s) /\ Aborts(f.s) /\ Going(f.s)
    BY <1>2, <1>7 DEF Flight, Aborts, Going, HasOperationInFlight, IsTerminal
  <1>9. Matched(f.s) /\ Lined(f.s, acc)
    <2>1. f.s.totalSize = Total(f.s.queue)
      BY <1>7 DEF Books, Matched
    <2> QED
      BY <1>7, <2>1 DEF Matched, Lined, IsTerminal
  <1>10. Once(f.s, acc)
    BY <1>2, <1>7 DEF Once, IsTerminal
  <1>11. Told(f.s)
    <2>1. Told(e.s)
      BY DEF Books
    <2>2. CloseQueuedOrInFlight(e.s)
      BY DEF CloseQueuedOrInFlight
    <2> QED
      BY <1>2, <1>4, <1>7, <2>1, <2>2 DEF Told, ToldReady, ToldClosed, Resolved
  <1>12. Owed(f.s, f.a)
    <2>1. Kept(f.s) = {} /\ Len(f.s.writeRequests) = 0 /\ Range(f.s.writeRequests) = {}
      BY <1>2, <1>7, RangeEmpty DEF Kept
    <2> QED
      BY <1>2, <1>3, <1>6, <2>1 DEF Owed, Distinct
  <1>13. Sound(f, f, acc)
    BY <1>6, <1>8, <1>9, <1>10, <1>11, <1>12 DEF Sound, Books, Rejects, Moves
  <1>14. Doing(f.s) = {}
    BY <1>2, <1>7 DEF Doing
  <1>15. Answers(e, f, f, x)
    <2>1. \A c \in cs : c \notin Write
      BY <1>1, <1>2, StreamAssumption
    <2> QED
      BY <1>2, <1>3, <1>6, <2>1 DEF Answers
  <1>16. Accepting(acc, acc)
    BY DEF Accepting
  <1>17. Step(e.s, e.a, f.s, f.a, acc, acc, x)
    BY <1>6, <1>7, <1>13, <1>14, <1>15, <1>16, MethodSteps
  <1> QED
    BY <1>5, <1>17

CloseFailedAs(e) ==
    [Reject(e, {e.s.inFlightClose} \cup AbortCalls(e.s)) EXCEPT
        !.s.inFlightClose = None, !.s.pendingAbort = None]

LEMMA FailCloseSteps ==
    ASSUME NEW e \in Effect, NEW acc \in Seq(Takes), Books(e.s, e.a, acc),
           e.s.inFlightClose # None, NEW x
    PROVE  LET f == DealWithRejection(CloseFailedAs(e))
           IN  Step(e.s, e.a, f.s, f.a, acc, acc, x)
  <1>1. PICK cs : cs = {e.s.inFlightClose} \cup AbortCalls(e.s)
    OBVIOUS
  <1>2. /\ e.s.started /\ e.s.inFlightWrite = None /\ e.s.closeRequest = None
        /\ e.s.queue = << >> /\ e.s.writeRequests = << >> /\ e.s.aborting = {}
        /\ e.s.state \in {"writable", "erroring"} /\ e.s.inFlightClose \in Closer
        /\ AbortCalls(e.s) \in SUBSET Aborter /\ Doing(e.s) = {"close"}
        /\ "abort" \notin Range(e.s.sunk)
        /\ e.s.pendingAbort # None => e.s.state = "erroring"
        /\ \A c \in Call : e.a[c] = "pending" <=> c \in cs
    BY <1>1, CloseInFlight
  <1>3. PICK d \in Effect : d = Reject(e, cs) /\ d.s = e.s
           /\ \A c \in Call : d.a[c] = IF c \in cs THEN "rejected" ELSE e.a[c]
    BY SettleIs DEF Status, Reject
  <1> DEFINE g == [d EXCEPT !.s.inFlightClose = None, !.s.pendingAbort = None]
  <1>4. CloseFailedAs(e) = g
    BY <1>1, <1>3 DEF CloseFailedAs
  <1>5. g \in Effect /\ g.a = d.a
    BY DEF Effect, StreamRecord
  <1>6. /\ g.s.inFlightClose = None /\ g.s.pendingAbort = None /\ Resting(e.s, g.s)
        /\ g.s.queue = e.s.queue /\ g.s.totalSize = e.s.totalSize
        /\ g.s.inFlightWrite = e.s.inFlightWrite /\ g.s.started = e.s.started
    BY <1>3 DEF Effect, StreamRecord, Resting
  <1> HIDE DEF g
  <1>7. /\ g.s.state = e.s.state /\ g.s.aborting = {} /\ g.s.queue = << >>
        /\ g.s.writeRequests = << >> /\ g.s.closeRequest = None /\ g.s.inFlightWrite = None
        /\ g.s.sunk = e.s.sunk /\ g.s.started /\ ~HasOperationInFlight(g.s)
    BY <1>2, <1>6 DEF Resting, HasOperationInFlight
  <1>8. Flight(g.s)
    BY <1>2, <1>6, <1>7 DEF Flight, IsTerminal, HasOperationInFlight
  <1>9. Owed(g.s, g.a)
    <2>1. Kept(g.s) = {} /\ Len(g.s.writeRequests) = 0 /\ Range(g.s.writeRequests) = {}
      BY <1>6, <1>7, RangeEmpty DEF Kept
    <2> QED
      BY <1>2, <1>3, <1>5, <2>1 DEF Owed, Distinct
  <1>10. Doing(g.s) = {} /\ Accepting(acc, acc)
    BY <1>6, <1>7 DEF Doing, Accepting
  <1>11. \A f : Answers(e, g, f, x)
    BY <1>2, <1>3, <1>5 DEF Answers
  <1>12. Told(e.s)
    BY DEF Books
  <1>13. CASE e.s.state = "writable"
    <2>1. IF g.s.writer = None THEN g.s.ready = "none" /\ g.s.closed = "none"
                               ELSE g.s.ready # "none" /\ g.s.closed = "pending"
      BY <1>6, <1>12, <1>13 DEF Told, ToldReady, ToldClosed, Resting
    <2>2. g.s.totalSize = Total(g.s.queue)
      BY <1>6 DEF Books, Matched
    <2>3. Match(g.s, 0)
      BY <1>7 DEF Match, Busy, Closing
    <2>4. Lined(g.s, acc)
      <3>1. Lined(e.s, acc)
        BY DEF Books
      <3>2. Busy(g.s) = Busy(e.s)
        BY <1>6 DEF Busy
      <3> QED
        BY <1>6, <1>7, <3>1, <3>2 DEF Lined, IsTerminal
    <2>5. Failing(g, acc)
      BY <1>2, <1>6, <1>7, <1>8, <1>9, <1>13, <2>1, <2>2, <2>3, <2>4 DEF Failing
    <2>6. Sound(g, DealWithRejection(g), acc)
      BY <1>5, <1>7, <1>13, <2>5, DealWithRejectionSound
    <2> QED
      BY <1>4, <1>5, <1>7, <1>10, <1>11, <2>6, MethodSteps
  <1>14. CASE e.s.state = "erroring"
    <2>1. Aborts(g.s) /\ Told(g.s)
      BY <1>6, <1>7, <1>12, <1>14 DEF Aborts, Told, ToldReady, ToldClosed, Resting
    <2>2. Doomed(g)
      BY <1>2, <1>6, <1>7, <1>8, <1>9, <1>14, <2>1 DEF Doomed
    <2>3. Sound(g, DealWithRejection(g), acc)
      BY <1>5, <1>7, <1>14, <2>2, DealWithRejectionSound
    <2> QED
      BY <1>4, <1>5, <1>7, <1>10, <1>11, <2>3, MethodSteps
  <1> QED
    BY <1>2, <1>13, <1>14

AbortSettledAs(e, v) == [Settle(e, e.s.aborting, v) EXCEPT !.s.aborting = {}]

LEMMA SettleAbortSteps ==
    ASSUME NEW e \in Effect, NEW acc \in Seq(Takes), Books(e.s, e.a, acc), e.s.aborting # {},
           NEW v \in {"fulfilled", "rejected"}, NEW x
    PROVE  LET f == RejectCloseAndClosed(AbortSettledAs(e, v))
           IN  Step(e.s, e.a, f.s, f.a, acc, acc, x)
  <1>1. /\ e.s.started /\ e.s.inFlightWrite = None /\ e.s.inFlightClose = None
        /\ e.s.queue = << >> /\ e.s.writeRequests = << >> /\ e.s.pendingAbort = None
        /\ e.s.state = "errored"
    <2>1. e.s.started \in BOOLEAN
      BY DEF Effect, StreamRecord
    <2> QED
      BY <2>1 DEF Books, Flight, Aborts, HasOperationInFlight, IsTerminal
  <1>2. PICK d \in Effect : d = Settle(e, e.s.aborting, v) /\ d.s = e.s
           /\ \A c \in Call : d.a[c] = IF c \in e.s.aborting THEN v ELSE e.a[c]
    BY SettleIs DEF Status
  <1> DEFINE g == [d EXCEPT !.s.aborting = {}]
  <1>3. g \in Effect /\ g.a = d.a
    <2>1. {} \in SUBSET Aborter
      OBVIOUS
    <2> QED
      BY ZenonT(60), <2>1 DEF Effect, StreamRecord
  <1>4. /\ Same(e.s, g.s) /\ g.s.state = e.s.state /\ g.s.queue = e.s.queue
        /\ g.s.totalSize = e.s.totalSize /\ g.s.writeRequests = e.s.writeRequests
        /\ g.s.closeRequest = e.s.closeRequest /\ g.s.inFlightWrite = e.s.inFlightWrite
        /\ g.s.pendingAbort = e.s.pendingAbort /\ g.s.sunk = e.s.sunk
        /\ g.s.closed = e.s.closed /\ g.s.ready = e.s.ready /\ g.s.aborting = {}
    BY <1>2 DEF Effect, StreamRecord, Same
  <1>5. AbortSettledAs(e, v) = g
    BY <1>2 DEF AbortSettledAs
  <1> HIDE DEF g
  <1>6. PICK f \in Effect :
           /\ f = RejectCloseAndClosed(g) /\ Same(g.s, f.s)
           /\ f.s.closeRequest = None /\ f.s.closed = Rejected(g.s.closed)
           /\ f.s.inFlightWrite = g.s.inFlightWrite /\ f.s.ready = g.s.ready
           /\ f.s.state = g.s.state /\ f.s.queue = g.s.queue
           /\ f.s.totalSize = g.s.totalSize /\ f.s.writeRequests = g.s.writeRequests
           /\ f.s.pendingAbort = g.s.pendingAbort /\ f.s.sunk = g.s.sunk
           /\ f.s.aborting = g.s.aborting
           /\ \A c \in Call : f.a[c] = IF c = g.s.closeRequest THEN "rejected" ELSE g.a[c]
    BY <1>3, RejectCloseAndClosedIs
  <1>7. /\ f.s.started /\ f.s.inFlightWrite = None /\ f.s.inFlightClose = None
        /\ f.s.queue = << >> /\ f.s.writeRequests = << >> /\ f.s.pendingAbort = None
        /\ f.s.state = "errored" /\ f.s.aborting = {} /\ f.s.closeRequest = None
        /\ f.s.totalSize = e.s.totalSize /\ f.s.sunk = e.s.sunk /\ f.s.writer = e.s.writer
        /\ f.s.ready = e.s.ready /\ f.s.closed = Rejected(e.s.closed)
    BY <1>1, <1>4, <1>6 DEF Same
  <1>8. \A c \in Call : f.a[c] = IF c = e.s.closeRequest THEN "rejected"
                                 ELSE IF c \in e.s.aborting THEN v ELSE e.a[c]
    BY <1>2, <1>3, <1>4, <1>6
  <1>9. \A c \in Call : e.a[c] = "pending" <=> c = e.s.closeRequest \/ c \in e.s.aborting
    <2>1. Kept(e.s) = ({e.s.closeRequest} \ {None}) \cup e.s.aborting
      BY <1>1, RangeEmpty DEF Kept
    <2>2. \A c \in Call : e.a[c] = "pending" <=> c \in Kept(e.s)
      BY DEF Books, Owed
    <2>3. \A c \in Call : c # None
      BY StreamAssumption
    <2> QED
      BY <2>1, <2>2, <2>3
  <1>10. Flight(f.s) /\ Aborts(f.s) /\ Going(f.s)
    BY <1>7 DEF Flight, Aborts, Going, HasOperationInFlight, IsTerminal
  <1>11. Matched(f.s) /\ Lined(f.s, acc) /\ Once(f.s, acc)
    <2>1. f.s.totalSize = Total(f.s.queue)
      BY <1>1, <1>7 DEF Books, Matched
    <2> QED
      BY <1>7, <2>1 DEF Matched, Lined, Once, IsTerminal
  <1>12. Told(f.s)
    <2>1. Told(e.s)
      BY DEF Books
    <2> QED
      BY <1>1, <1>7, <2>1 DEF Told, ToldReady, ToldClosed, Rejected
  <1>13. Owed(f.s, f.a)
    <2>1. Kept(f.s) = {} /\ Len(f.s.writeRequests) = 0 /\ Range(f.s.writeRequests) = {}
      BY <1>7, RangeEmpty DEF Kept
    <2>2. \A c \in Call : f.a[c] # "pending"
      BY <1>8, <1>9
    <2> QED
      BY <2>1, <2>2 DEF Owed, Distinct
  <1>14. Sound(f, f, acc)
    BY <1>10, <1>11, <1>12, <1>13 DEF Sound, Books, Rejects, Moves
  <1>15. Doing(f.s) = {} /\ Accepting(acc, acc)
    BY <1>7 DEF Doing, Accepting
  <1>16. Answers(e, f, f, x)
    <2>1. \A c \in e.s.aborting : c \notin Write
      BY StreamAssumption DEF Effect, StreamRecord
    <2> QED
      BY <1>8, <1>9, <2>1 DEF Answers
  <1>17. Step(e.s, e.a, f.s, f.a, acc, acc, x)
    BY <1>7, <1>14, <1>15, <1>16, MethodSteps
  <1> QED
    BY <1>5, <1>6, <1>17

-----------------------------------------------------------------------------
(***************************************************************************)
(* The actions.                                                            *)
(***************************************************************************)
Frame == [call : Write \cup Aborter, writer : (1 .. MaxWriters) \cup {None}]

LEMMA NowIs ==
    ASSUME Inv
    PROVE  /\ Now \in Effect /\ Now.s = stream /\ Now.a = answer
           /\ Books(Now.s, Now.a, accepted) /\ accepted \in Seq(Takes)
           /\ stream \in StreamRecord /\ answer \in [Call -> Status]
           /\ Books(stream, answer, accepted)
  BY DEF Inv, TypeOK, Now, Effect

LEMMA FrameCall ==
    ASSUME NEW fs \in Seq(Frame), NEW i \in 1 .. Len(fs)
    PROVE  fs[i].call \in Call
  <1>1. fs[i] \in Frame
    OBVIOUS
  <1> QED
    BY <1>1 DEF Frame, Call

LEMMA AppendIs ==
    ASSUME NEW S, NEW q \in Seq(S), NEW x \in S
    PROVE  /\ Append(q, x) \in Seq(S) /\ Len(Append(q, x)) = Len(q) + 1
           /\ Append(q, x)[Len(q) + 1] = x
           /\ \A i \in 1 .. Len(q) : Append(q, x)[i] = q[i]
  OBVIOUS

LEMMA ToldTyped ==
    ASSUME NEW s, Told(s)
    PROVE  (s.writer = None <=> s.ready = "none") /\ (s.writer = None <=> s.closed = "none")
  BY DEF Told, ToldReady, ToldClosed

LEMMA KeepFrames ==
    ASSUME Inv, frames' = frames, writers' \in 0 .. MaxWriters,
           Step(stream, answer, stream', answer', accepted, accepted', None)
    PROVE  Inv'
  <1>1. frames \in Seq(Frame)
    BY DEF Inv, TypeOK, Frame
  <1>2. TypeOK'
    <2>1. Told(stream')
      BY DEF Step, Books
    <2> QED
      BY <1>1, <2>1, ToldTyped DEF Step, TypeOK, Frame
  <1>3. ASSUME NEW i \in 1 .. Len(frames) PROVE answer'[frames[i].call] = "called"
    <2>1. frames[i].call \in Call
      BY <1>1, FrameCall
    <2> QED
      BY <2>1, StreamAssumption DEF Inv, FrameInv, Step
  <1>4. FrameInv'
    BY <1>3 DEF Inv, FrameInv
  <1> QED
    BY <1>2, <1>4 DEF Inv, Step

LEMMA PopFrames ==
    ASSUME Inv, frames # << >>, frames' = Front(frames), writers' = writers,
           Step(stream, answer, stream', answer', accepted, accepted', Returning.call)
    PROVE  Inv'
  <1>1. frames \in Seq(Frame) /\ Len(frames) \in Nat \ {0} /\ writers \in 0 .. MaxWriters
    BY DEF Inv, TypeOK, Frame
  <1>2. PICK fs \in Seq(Frame) : /\ fs = Front(frames) /\ Len(fs) = Len(frames) - 1
                                 /\ \A i \in 1 .. Len(fs) : fs[i] = frames[i]
    BY <1>1 DEF Front
  <1>3. Returning = frames[Len(frames)]
    BY DEF Returning, Last
  <1>4. TypeOK'
    <2>1. Told(stream')
      BY DEF Step, Books
    <2> QED
      BY <1>1, <1>2, <2>1, ToldTyped DEF Step, TypeOK, Frame
  <1>5. ASSUME NEW i \in 1 .. Len(fs) PROVE answer'[fs[i].call] = "called"
    <2>1. i \in 1 .. Len(frames) /\ i # Len(frames) /\ Len(frames) \in 1 .. Len(frames)
          /\ fs[i] = frames[i]
      BY <1>1, <1>2
    <2>2. frames[i].call \in Call
      BY <1>1, <2>1, FrameCall
    <2>3. frames[i].call # Returning.call /\ answer[frames[i].call] = "called"
      BY <1>3, <2>1 DEF Inv, FrameInv
    <2> QED
      BY <2>1, <2>2, <2>3 DEF Step
  <1>6. ASSUME NEW i \in 1 .. Len(fs), NEW j \in 1 .. Len(fs), fs[i].call = fs[j].call
        PROVE  i = j
    <2>1. i \in 1 .. Len(frames) /\ j \in 1 .. Len(frames) /\ fs[i] = frames[i] /\ fs[j] = frames[j]
      BY <1>1, <1>2
    <2> QED
      BY <1>6, <2>1 DEF Inv, FrameInv
  <1>7. FrameInv'
    BY <1>2, <1>5, <1>6 DEF FrameInv
  <1> QED
    BY <1>4, <1>7 DEF Inv, Step

LEMMA PushFrames ==
    ASSUME Inv, NEW x \in Write \cup Aborter, answer[x] = "new",
           frames' = Append(frames, [call |-> x, writer |-> stream.writer]), writers' = writers,
           answer'[x] = "called",
           Step(stream, answer, stream', answer', accepted, accepted', None)
    PROVE  Inv'
  <1>1. frames \in Seq(Frame) /\ Len(frames) \in Nat /\ writers \in 0 .. MaxWriters
    BY DEF Inv, TypeOK, Frame
  <1>2. PICK y \in Frame : y = [call |-> x, writer |-> stream.writer] /\ y.call = x
    BY DEF Inv, TypeOK, StreamRecord, Frame
  <1>3. PICK fs \in Seq(Frame) : /\ fs = Append(frames, y) /\ Len(fs) = Len(frames) + 1
                                 /\ fs[Len(frames) + 1] = y
                                 /\ \A i \in 1 .. Len(frames) : fs[i] = frames[i]
    <2> DEFINE z == Append(frames, y)
    <2>1. /\ z \in Seq(Frame) /\ Len(z) = Len(frames) + 1 /\ z[Len(frames) + 1] = y
          /\ \A i \in 1 .. Len(frames) : z[i] = frames[i]
      <3>1. PICK q \in Seq(Frame) : q = frames
        BY <1>1
      <3>2. /\ Append(q, y) \in Seq(Frame) /\ Len(Append(q, y)) = Len(q) + 1
            /\ Append(q, y)[Len(q) + 1] = y
            /\ \A i \in 1 .. Len(q) : Append(q, y)[i] = q[i]
        BY AppendIs
      <3> QED
        BY <3>1, <3>2
    <2> HIDE DEF z
    <2> QED
      BY <2>1, Zenon DEF z
  <1>4. TypeOK'
    <2>1. Told(stream')
      BY DEF Step, Books
    <2> QED
      BY <1>1, <1>2, <1>3, <2>1, ToldTyped DEF Step, TypeOK, Frame
  <1>5. ASSUME NEW i \in 1 .. Len(frames)
        PROVE  answer'[frames[i].call] = "called" /\ frames[i].call # x
    <2>1. frames[i].call \in Call
      BY <1>1, FrameCall
    <2>2. answer[frames[i].call] = "called"
      BY DEF Inv, FrameInv
    <2> QED
      BY <2>1, <2>2, StreamAssumption DEF Step
  <1>6. \A i \in 1 .. Len(fs) : i = Len(frames) + 1 \/ i \in 1 .. Len(frames)
    BY <1>1, <1>3
  <1>7. ASSUME NEW i \in 1 .. Len(fs) PROVE answer'[fs[i].call] = "called"
    BY <1>2, <1>3, <1>5, <1>6
  <1>8. ASSUME NEW i \in 1 .. Len(fs), NEW j \in 1 .. Len(fs), fs[i].call = fs[j].call
        PROVE  i = j
    <2>1. ASSUME i \in 1 .. Len(frames), j \in 1 .. Len(frames)
          PROVE  i = j
      BY <1>3, <1>8, <2>1 DEF Inv, FrameInv
    <2> QED
      BY <1>2, <1>3, <1>5, <1>6, <1>8, <2>1
  <1>9. FrameInv'
    BY <1>2, <1>3, <1>7, <1>8 DEF FrameInv
  <1> QED
    BY <1>4, <1>9 DEF Inv, Step

\* A call on top of the stack has its frame and no promise.
LEMMA ReturningIs ==
    ASSUME Inv, frames # << >>
    PROVE  Returning.call \in Call /\ answer[Returning.call] = "called"
  <1>1. frames \in Seq(Frame) /\ Len(frames) \in 1 .. Len(frames)
    BY DEF Inv, TypeOK, Frame
  <1>2. Returning = frames[Len(frames)] /\ Returning \in Frame
    BY <1>1 DEF Returning, Last
  <1> QED
    BY <1>1, <1>2 DEF Inv, FrameInv, Frame, Call

\* What the step of any action is; x is the call whose frame it takes off.
Does(x) == Step(stream, answer, stream', answer', accepted, accepted', x)

LEMMA BecomesStep ==
    ASSUME NEW f, Becomes(f), NEW x, NEW acc2, accepted' = acc2,
           Step(stream, answer, f.s, f.a, accepted, acc2, x)
    PROVE  Does(x)
  BY DEF Becomes, Does

LEMMA WriteSizedDoes ==
    ASSUME Inv, NEW w \in Write, NEW size \in Sizes, WriteSized(w, size)
    PROVE  Does(w) /\ Inv'
  <1>1. /\ Now \in Effect /\ Now.s = stream /\ Now.a = answer /\ accepted \in Seq(Takes)
        /\ Books(Now.s, Now.a, accepted)
    BY NowIs
  <1>2. frames # << >> /\ Returning.call = w /\ frames' = Front(frames) /\ writers' = writers
    BY DEF WriteSized
  <1>3. answer[w] = "called" /\ w \in Call /\ size \in Nat
    BY <1>2, ReturningIs, StreamAssumption
  <1>4. CASE Returning.writer = stream.writer /\ Accepts(stream)
    <2>1. PICK f : f = Enqueue(Now, w, size)
      OBVIOUS
    <2>2. Becomes(f) /\ accepted' = Append(accepted, w)
      BY <1>4, <2>1 DEF WriteSized
    <2>3. Step(Now.s, Now.a, f.s, f.a, accepted, Append(accepted, w), w)
      BY <1>1, <1>3, <1>4, <2>1, EnqueueSteps
    <2> QED
      BY <1>1, <1>2, <2>2, <2>3, BecomesStep, PopFrames DEF Does
  <1>5. CASE ~(Returning.writer = stream.writer /\ Accepts(stream))
    <2>1. PICK f \in Effect : f = Reject(Now, {w}) /\ f.s = stream
             /\ \A c \in Call : f.a[c] = IF c = w THEN "rejected" ELSE answer[c]
      BY <1>1, SettleIs DEF Reject, Status
    <2>2. Becomes(f) /\ accepted' = accepted
      BY <1>5, <2>1 DEF WriteSized
    <2>3. PICK b \in [Call -> Status] : b = f.a
      BY DEF Effect
    <2>4. Step(stream, answer, stream, b, accepted, accepted, w)
      BY <1>3, <2>1, <2>3, NowIs, AnswerSteps
    <2> QED
      BY <1>2, <2>1, <2>2, <2>3, <2>4, BecomesStep, PopFrames DEF Does
  <1> QED
    BY <1>4, <1>5

LEMMA WriteSizeThrowsDoes ==
    ASSUME Inv, NEW w \in Write, WriteSizeThrows(w)
    PROVE  Does(w) /\ Inv'
  <1>1. /\ Now \in Effect /\ Now.s = stream /\ Now.a = answer /\ accepted \in Seq(Takes)
        /\ Books(Now.s, Now.a, accepted)
    BY NowIs
  <1>2. frames # << >> /\ Returning.call = w /\ frames' = Front(frames) /\ writers' = writers
        /\ accepted' = accepted
    BY DEF WriteSizeThrows
  <1>3. answer[w] = "called"
    BY <1>2, ReturningIs
  <1>4. PICK f : f = Reject(Error(Now), {w})
    OBVIOUS
  <1>5. Becomes(f)
    BY <1>4 DEF WriteSizeThrows
  <1>6. Step(Now.s, Now.a, f.s, f.a, accepted, accepted, w)
    BY <1>1, <1>3, <1>4, SizeThrowsSteps
  <1> QED
    BY <1>1, <1>2, <1>5, <1>6, BecomesStep, PopFrames DEF Does

LEMMA WriteSizeInvalidDoes ==
    ASSUME Inv, NEW w \in Write, WriteSizeInvalid(w)
    PROVE  Does(w) /\ Inv'
  <1>1. /\ Now \in Effect /\ Now.s = stream /\ Now.a = answer /\ accepted \in Seq(Takes)
        /\ Books(Now.s, Now.a, accepted)
    BY NowIs
  <1>2. frames # << >> /\ Returning.call = w /\ frames' = Front(frames) /\ writers' = writers
        /\ accepted' = accepted
    BY DEF WriteSizeInvalid
  <1>3. answer[w] = "called" /\ w \in Call
    BY <1>2, ReturningIs
  <1>4. CASE Returning.writer = stream.writer /\ Accepts(stream)
    <2>1. PICK f : f = EnqueueThrows(Now, w)
      OBVIOUS
    <2>2. Becomes(f)
      BY <1>4, <2>1 DEF WriteSizeInvalid
    <2>3. Step(Now.s, Now.a, f.s, f.a, accepted, accepted, w)
      BY <1>1, <1>3, <1>4, <2>1, EnqueueThrowsSteps
    <2> QED
      BY <1>1, <1>2, <2>2, <2>3, BecomesStep, PopFrames DEF Does
  <1>5. CASE ~(Returning.writer = stream.writer /\ Accepts(stream))
    <2>1. PICK f \in Effect : f = Reject(Now, {w}) /\ f.s = stream
             /\ \A c \in Call : f.a[c] = IF c = w THEN "rejected" ELSE answer[c]
      BY <1>1, SettleIs DEF Reject, Status
    <2>2. Becomes(f)
      BY <1>5, <2>1 DEF WriteSizeInvalid
    <2>3. PICK b \in [Call -> Status] : b = f.a
      BY DEF Effect
    <2>4. Step(stream, answer, stream, b, accepted, accepted, w)
      BY <1>3, <2>1, <2>3, NowIs, AnswerSteps
    <2> QED
      BY <1>2, <2>1, <2>2, <2>3, <2>4, BecomesStep, PopFrames DEF Does
  <1> QED
    BY <1>4, <1>5

LEMMA AbortSignalledDoes ==
    ASSUME Inv, NEW a \in Aborter, AbortSignalled(a)
    PROVE  Does(a) /\ Inv'
  <1>1. /\ Now \in Effect /\ Now.s = stream /\ Now.a = answer /\ accepted \in Seq(Takes)
        /\ Books(Now.s, Now.a, accepted)
    BY NowIs
  <1>2. frames # << >> /\ Returning.call = a /\ frames' = Front(frames) /\ writers' = writers
        /\ accepted' = accepted
    BY DEF AbortSignalled
  <1>3. answer[a] = "called"
    BY <1>2, ReturningIs
  <1>4. PICK f : f = AbortRest(Now, a)
    OBVIOUS
  <1>5. Becomes(f)
    BY <1>4 DEF AbortSignalled
  <1>6. Step(Now.s, Now.a, f.s, f.a, accepted, accepted, a)
    BY <1>1, <1>3, <1>4, AbortSteps
  <1> QED
    BY <1>1, <1>2, <1>5, <1>6, BecomesStep, PopFrames DEF Does

LEMMA AbortDoes ==
    ASSUME Inv, NEW a \in Aborter, Abort(a)
    PROVE  Does(None) /\ Inv'
  <1>1. /\ Now \in Effect /\ Now.s = stream /\ Now.a = answer /\ accepted \in Seq(Takes)
        /\ Books(Now.s, Now.a, accepted) /\ writers \in 0 .. MaxWriters
    BY NowIs DEF Inv, TypeOK
  <1>2. frames' = frames /\ writers' = writers /\ accepted' = accepted /\ answer[a] = "new"
    BY DEF Abort
  <1>3. PICK f : f = AbortRest(Now, a)
    OBVIOUS
  <1>4. Becomes(f)
    BY <1>3 DEF Abort
  <1>5. Step(Now.s, Now.a, f.s, f.a, accepted, accepted, None)
    BY <1>1, <1>2, <1>3, AbortSteps
  <1> QED
    BY <1>1, <1>2, <1>4, <1>5, BecomesStep, KeepFrames DEF Does

LEMMA CloseDoes ==
    ASSUME Inv, NEW c \in Closer, Close(c)
    PROVE  Does(None) /\ Inv'
  <1>1. /\ Now \in Effect /\ Now.s = stream /\ Now.a = answer /\ accepted \in Seq(Takes)
        /\ Books(Now.s, Now.a, accepted) /\ writers \in 0 .. MaxWriters
    BY NowIs DEF Inv, TypeOK
  <1>2. frames' = frames /\ writers' = writers /\ answer[c] = "new" /\ c \in Call
    BY DEF Close, Call
  <1>3. CASE ~IsTerminal(stream) /\ ~CloseQueuedOrInFlight(stream)
    <2>1. PICK f : f = AdvanceQueueIfNeeded(ClosingAs(Now, c))
      OBVIOUS
    <2>2. Becomes(f) /\ accepted' = Append(accepted, "close")
      BY <1>1, <1>3, <2>1 DEF Close, ClosingAs
    <2>3. Step(Now.s, Now.a, f.s, f.a, accepted, Append(accepted, "close"), None)
      BY <1>1, <1>2, <1>3, <2>1, CloseSteps
    <2> QED
      BY <1>1, <1>2, <2>2, <2>3, BecomesStep, KeepFrames DEF Does
  <1>4. CASE ~(~IsTerminal(stream) /\ ~CloseQueuedOrInFlight(stream))
    <2>1. PICK f \in Effect : f = Reject(Now, {c}) /\ f.s = stream
             /\ \A y \in Call : f.a[y] = IF y = c THEN "rejected" ELSE answer[y]
      BY <1>1, SettleIs DEF Reject, Status
    <2>2. Becomes(f) /\ accepted' = accepted
      BY <1>4, <2>1 DEF Close
    <2>3. PICK b \in [Call -> Status] : b = f.a
      BY DEF Effect
    <2>4. Step(stream, answer, stream, b, accepted, accepted, None)
      BY <1>2, <2>1, <2>3, NowIs, AnswerSteps
    <2> QED
      BY <1>1, <1>2, <2>1, <2>2, <2>3, <2>4, BecomesStep, KeepFrames DEF Does
  <1> QED
    BY <1>3, <1>4

LEMMA ControllerErrorDoes ==
    ASSUME Inv, ControllerError
    PROVE  Does(None) /\ Inv'
  <1>1. /\ Now \in Effect /\ Now.s = stream /\ Now.a = answer /\ accepted \in Seq(Takes)
        /\ Books(Now.s, Now.a, accepted) /\ writers \in 0 .. MaxWriters
    BY NowIs DEF Inv, TypeOK
  <1>2. frames' = frames /\ writers' = writers /\ accepted' = accepted
    BY DEF ControllerError
  <1>3. PICK f : f = Error(Now)
    OBVIOUS
  <1>4. Becomes(f)
    BY <1>3 DEF ControllerError
  <1>5. Step(Now.s, Now.a, f.s, f.a, accepted, accepted, None)
    BY <1>1, <1>3, ErrorSteps
  <1> QED
    BY <1>1, <1>2, <1>4, <1>5, BecomesStep, KeepFrames DEF Does

LEMMA StartEndsDoes ==
    ASSUME Inv, NEW ok \in BOOLEAN, StartEnds(ok)
    PROVE  Does(None) /\ Inv'
  <1>1. /\ Now \in Effect /\ Now.s = stream /\ Now.a = answer /\ accepted \in Seq(Takes)
        /\ Books(Now.s, Now.a, accepted) /\ writers \in 0 .. MaxWriters
    BY NowIs DEF Inv, TypeOK
  <1>2. frames' = frames /\ writers' = writers /\ accepted' = accepted /\ ~stream.started
    BY DEF StartEnds, Ended
  <1>3. PICK f : f = IF ok THEN AdvanceQueueIfNeeded(StartedAs(Now))
                           ELSE DealWithRejection(StartedAs(Now))
    OBVIOUS
  <1>4. Becomes(f)
    BY <1>3 DEF StartEnds, StartedAs
  <1>5. Step(Now.s, Now.a, f.s, f.a, accepted, accepted, None)
    BY <1>1, <1>2, <1>3, StartSteps
  <1> QED
    BY <1>1, <1>2, <1>4, <1>5, BecomesStep, KeepFrames DEF Does

LEMMA FinishWriteDoes ==
    ASSUME Inv, NEW ok \in BOOLEAN, FinishWrite(ok)
    PROVE  Does(None) /\ Inv'
  <1>1. /\ Now \in Effect /\ Now.s = stream /\ Now.a = answer /\ accepted \in Seq(Takes)
        /\ Books(Now.s, Now.a, accepted) /\ writers \in 0 .. MaxWriters
    BY NowIs DEF Inv, TypeOK
  <1>2. frames' = frames /\ writers' = writers /\ accepted' = accepted
        /\ stream.inFlightWrite # None
    BY DEF FinishWrite, Ended
  <1>3. CASE ok
    <2>1. PICK f : f = AdvanceQueueIfNeeded(
                         IF Now.s.state = "writable" /\ ~CloseQueuedOrInFlight(Now.s)
                         THEN UpdateBackpressure(HandedBackAs(Now, "fulfilled"))
                         ELSE HandedBackAs(Now, "fulfilled"))
      OBVIOUS
    <2>2. Becomes(f)
      BY <1>1, <1>3, <2>1 DEF FinishWrite, HandedBackAs
    <2>3. Step(Now.s, Now.a, f.s, f.a, accepted, accepted, None)
      BY <1>1, <1>2, <2>1, FinishWriteSteps
    <2> QED
      BY <1>1, <1>2, <2>2, <2>3, BecomesStep, KeepFrames DEF Does
  <1>4. CASE ~ok
    <2>1. PICK g : g = HandedBackAs(Now, "rejected")
      OBVIOUS
    <2>2. PICK f : f = DealWithRejection([g EXCEPT !.s.cleared = @ \/ (Now.s.state = "writable")])
      OBVIOUS
    <2>3. Becomes(f)
      BY <1>1, <1>4, <2>1, <2>2 DEF FinishWrite, HandedBackAs
    <2>4. Step(Now.s, Now.a, f.s, f.a, accepted, accepted, None)
      BY <1>1, <1>2, <2>1, <2>2, FailWriteSteps
    <2> QED
      BY <1>1, <1>2, <2>3, <2>4, BecomesStep, KeepFrames DEF Does
  <1> QED
    BY <1>3, <1>4

LEMMA FinishInFlightCloseDoes ==
    ASSUME Inv, FinishInFlightClose
    PROVE  Does(None) /\ Inv'
  <1>1. /\ Now \in Effect /\ Now.s = stream /\ Now.a = answer /\ accepted \in Seq(Takes)
        /\ Books(Now.s, Now.a, accepted) /\ writers \in 0 .. MaxWriters
    BY NowIs DEF Inv, TypeOK
  <1>2. frames' = frames /\ writers' = writers /\ accepted' = accepted
        /\ stream.inFlightClose # None
    BY DEF FinishInFlightClose, Ended
  <1>3. (IF stream.state = "erroring" /\ stream.pendingAbort # None
         THEN stream.pendingAbort.calls ELSE {}) = AbortCalls(stream)
    <2>1. stream.pendingAbort # None => stream.state = "erroring"
      BY <1>1 DEF Books, Aborts
    <2> QED
      BY <2>1 DEF AbortCalls
  <1>4. PICK f : f = ClosedAs(Now)
    OBVIOUS
  <1>5. Becomes(f)
    <2>1. f = [Settle(Now, {stream.inFlightClose} \cup AbortCalls(stream), "fulfilled") EXCEPT
                 !.s.inFlightClose = None, !.s.state = "closed",
                 !.s.pendingAbort = IF stream.state = "erroring" THEN None ELSE @,
                 !.s.closed = Resolved(@)]
      BY <1>1, <1>4 DEF ClosedAs
    <2> QED
      BY <1>3, <2>1 DEF FinishInFlightClose
  <1>6. Step(Now.s, Now.a, f.s, f.a, accepted, accepted, None)
    BY <1>1, <1>2, <1>4, FinishCloseSteps
  <1> QED
    BY <1>1, <1>2, <1>5, <1>6, BecomesStep, KeepFrames DEF Does

LEMMA FinishInFlightCloseWithErrorDoes ==
    ASSUME Inv, FinishInFlightCloseWithError
    PROVE  Does(None) /\ Inv'
  <1>1. /\ Now \in Effect /\ Now.s = stream /\ Now.a = answer /\ accepted \in Seq(Takes)
        /\ Books(Now.s, Now.a, accepted) /\ writers \in 0 .. MaxWriters
    BY NowIs DEF Inv, TypeOK
  <1>2. frames' = frames /\ writers' = writers /\ accepted' = accepted
        /\ stream.inFlightClose # None
    BY DEF FinishInFlightCloseWithError, Ended
  <1>3. PICK f : f = DealWithRejection(CloseFailedAs(Now))
    OBVIOUS
  <1>4. Becomes(f)
    <2>1. CloseFailedAs(Now) =
            [Reject(Now, {stream.inFlightClose} \cup AbortCalls(stream)) EXCEPT
               !.s.inFlightClose = None, !.s.pendingAbort = None]
      BY <1>1 DEF CloseFailedAs
    <2> QED
      BY <1>3, <2>1 DEF FinishInFlightCloseWithError, AbortCalls
  <1>5. Step(Now.s, Now.a, f.s, f.a, accepted, accepted, None)
    BY <1>1, <1>2, <1>3, FailCloseSteps
  <1> QED
    BY <1>1, <1>2, <1>4, <1>5, BecomesStep, KeepFrames DEF Does

LEMMA SettleAbortDoes ==
    ASSUME Inv, NEW ok \in BOOLEAN, SettleAbort(ok)
    PROVE  Does(None) /\ Inv'
  <1>1. /\ Now \in Effect /\ Now.s = stream /\ Now.a = answer /\ accepted \in Seq(Takes)
        /\ Books(Now.s, Now.a, accepted) /\ writers \in 0 .. MaxWriters
    BY NowIs DEF Inv, TypeOK
  <1>2. frames' = frames /\ writers' = writers /\ accepted' = accepted /\ stream.aborting # {}
    BY DEF SettleAbort, Ended
  <1>3. PICK v \in {"fulfilled", "rejected"} : v = IF ok THEN "fulfilled" ELSE "rejected"
    OBVIOUS
  <1>4. PICK f : f = RejectCloseAndClosed(AbortSettledAs(Now, v))
    OBVIOUS
  <1>5. Becomes(f)
    BY <1>1, <1>3, <1>4 DEF SettleAbort, AbortSettledAs
  <1>6. Step(Now.s, Now.a, f.s, f.a, accepted, accepted, None)
    BY <1>1, <1>2, <1>4, SettleAbortSteps
  <1> QED
    BY <1>1, <1>2, <1>5, <1>6, BecomesStep, KeepFrames DEF Does

\* A call that is refused at once.
LEMMA RefusedDoes ==
    ASSUME Inv, NEW c \in Call, answer[c] = "new", answer' = [answer EXCEPT ![c] = "rejected"],
           UNCHANGED <<stream, frames, writers, accepted>>
    PROVE  Does(None) /\ Inv'
  <1>1. answer' \in [Call -> Status] /\ answer'[c] = "rejected" /\ writers' \in 0 .. MaxWriters
        /\ \A y \in Call : y # c => answer'[y] = answer[y]
    BY DEF Inv, TypeOK, Status
  <1>2. PICK b \in [Call -> Status] : b = answer'
    BY <1>1
  <1>3. Step(stream, answer, stream, b, accepted, accepted, None)
    BY <1>1, <1>2, NowIs, AnswerSteps
  <1> QED
    BY <1>1, <1>2, <1>3, KeepFrames DEF Does

LEMMA WriteCallDoes ==
    ASSUME Inv, NEW w \in Write, WriteCall(w)
    PROVE  Does(None) /\ Inv'
  <1>1. /\ answer[w] = "new" /\ answer' = [answer EXCEPT ![w] = "called"]
        /\ frames' = Append(frames, [call |-> w, writer |-> stream.writer])
        /\ UNCHANGED <<stream, writers, accepted>> /\ w \in Call
    BY DEF WriteCall, Call
  <1>2. answer' \in [Call -> Status] /\ answer'[w] = "called"
        /\ \A y \in Call : y # w => answer'[y] = answer[y]
    BY <1>1 DEF Inv, TypeOK, Status
  <1>3. PICK b \in [Call -> Status] : b = answer'
    BY <1>2
  <1>4. Step(stream, answer, stream, b, accepted, accepted, None)
    BY <1>1, <1>2, <1>3, NowIs, AnswerSteps
  <1> QED
    BY <1>1, <1>2, <1>3, <1>4, PushFrames DEF Does

\* A step that changes neither what the stream holds nor what it owes.
Quiet(s, t) ==
    /\ t.started = s.started /\ t.cleared = s.cleared /\ t.state = s.state
    /\ t.backpressure = s.backpressure /\ t.queue = s.queue /\ t.totalSize = s.totalSize
    /\ t.writeRequests = s.writeRequests /\ t.closeRequest = s.closeRequest
    /\ t.inFlightWrite = s.inFlightWrite /\ t.inFlightClose = s.inFlightClose
    /\ t.pendingAbort = s.pendingAbort /\ t.aborting = s.aborting /\ t.sunk = s.sunk

LEMMA QuietBooks ==
    ASSUME NEW s, NEW t, NEW a, NEW acc, Quiet(s, t), Books(s, a, acc), Told(t)
    PROVE  Books(t, a, acc) /\ Doing(t) = Doing(s)
  <1>1. Flight(t) /\ Aborts(t) /\ Going(t)
    BY DEF Books, Quiet, Flight, Aborts, Going, HasOperationInFlight, IsTerminal
  <1>2. Matched(t)
    <2>1. \A k : Match(s, k) => Match(t, k)
      BY DEF Quiet, Match, Busy, Closing
    <2> QED
      BY <2>1 DEF Books, Quiet, Matched
  <1>3. Lined(t, acc) /\ Once(t, acc)
    <2>1. Lined(s, acc) /\ Once(s, acc) /\ Busy(t) = Busy(s)
      BY DEF Books, Quiet, Busy
    <2>2. Lined(t, acc)
      BY <2>1 DEF Quiet, Lined, IsTerminal
    <2>3. Once(t, acc)
      BY <2>1 DEF Quiet, Once, IsTerminal, CloseQueuedOrInFlight
    <2> QED
      BY <2>2, <2>3
  <1>4. Owed(t, a)
    BY DEF Books, Quiet, Owed, Kept
  <1>5. Doing(t) = Doing(s)
    BY DEF Quiet, Doing
  <1> QED
    BY <1>1, <1>2, <1>3, <1>4, <1>5 DEF Books

\* Such a step is one of Sink that changes nothing.
LEMMA QuietDoes ==
    ASSUME Inv, stream' \in StreamRecord, Quiet(stream, stream'), Told(stream'),
           answer' = answer, accepted' = accepted
    PROVE  Does(None)
  <1>1. /\ stream \in StreamRecord /\ answer \in [Call -> Status] /\ accepted \in Seq(Takes)
        /\ Books(stream, answer, accepted)
    BY NowIs
  <1>2. Books(stream', answer, accepted) /\ Doing(stream') = Doing(stream)
    BY <1>1, QuietBooks
  <1>3. Moves(stream, stream', accepted)
    BY <1>2 DEF Moves, Quiet
  <1>4. Gains(stream, answer, stream', answer) /\ Accepting(accepted, accepted)
    BY DEF Gains, Accepting
  <1> QED
    BY <1>1, <1>2, <1>3, <1>4 DEF Does, Step

LEMMA AbortSignalsDoes ==
    ASSUME Inv, NEW a \in Aborter, AbortSignals(a)
    PROVE  Does(None) /\ Inv'
  <1>1. /\ answer[a] = "new" /\ answer' = [answer EXCEPT ![a] = "called"]
        /\ frames' = Append(frames, [call |-> a, writer |-> stream.writer])
        /\ writers' = writers /\ accepted' = accepted /\ a \in Call
        /\ stream' = [stream EXCEPT !.signalled = TRUE]
    BY DEF AbortSignals, Call
  <1>2. /\ stream \in StreamRecord /\ answer \in [Call -> Status] /\ accepted \in Seq(Takes)
        /\ Books(stream, answer, accepted)
    BY NowIs
  <1>3. stream' \in StreamRecord /\ Quiet(stream, stream') /\ stream'.writer = stream.writer
        /\ stream'.ready = stream.ready /\ stream'.closed = stream.closed
    BY <1>1, <1>2 DEF StreamRecord, Quiet
  <1>4. Told(stream')
    <2>1. Told(stream)
      BY <1>2 DEF Books
    <2> QED
      BY <1>3, <2>1 DEF Told, ToldReady, ToldClosed, Quiet, CloseQueuedOrInFlight, Full
  <1>5. Books(stream', answer, accepted) /\ Doing(stream') = Doing(stream)
    BY <1>2, <1>3, <1>4, QuietBooks
  <1>6. answer' \in [Call -> Status] /\ answer'[a] = "called"
        /\ \A y \in Call : y # a => answer'[y] = answer[y]
    BY <1>1, <1>2 DEF Status
  <1>7. PICK t \in StreamRecord, b \in [Call -> Status] : t = stream' /\ b = answer'
    BY <1>3, <1>6
  <1>8. Step(t, answer, t, b, accepted, accepted, None)
    BY <1>1, <1>2, <1>5, <1>6, <1>7, AnswerSteps
  <1>9. stream'.sunk = stream.sunk
    BY <1>3 DEF Quiet
  <1>10. Step(stream, answer, stream', answer', accepted, accepted, None)
    BY <1>5, <1>7, <1>8, <1>9, MovesOn DEF Step, Gains
  <1> QED
    BY <1>1, <1>6, <1>10, PushFrames DEF Does

LEMMA AttachWriterDoes ==
    ASSUME Inv, AttachWriter
    PROVE  Does(None) /\ Inv'
  <1>1. /\ stream \in StreamRecord /\ Told(stream) /\ writers \in 0 .. MaxWriters
        /\ MaxWriters \in Nat
    BY NowIs, StreamAssumption DEF Books, Inv, TypeOK
  <1>2. PICK n \in 1 .. MaxWriters : n = writers + 1
    BY <1>1 DEF AttachWriter
  <1>3. n # None
    BY StreamAssumption
  <1>4. PICK r \in Promise :
           r = CASE stream.state \in {"erroring", "errored"} -> "rejected"
                 [] stream.state = "writable" /\ ~CloseQueuedOrInFlight(stream)
                    /\ stream.backpressure -> "pending"
                 [] OTHER -> "fulfilled"
    BY DEF Promise
  <1>5. PICK c \in Promise : c = CASE stream.state = "errored" -> "rejected"
                                   [] stream.state = "closed" -> "fulfilled"
                                   [] OTHER -> "pending"
    BY DEF Promise
  <1>6. stream' = [stream EXCEPT !.writer = n, !.ready = r, !.closed = c]
    BY <1>2, <1>4, <1>5 DEF AttachWriter
  <1>7. stream' \in StreamRecord /\ Quiet(stream, stream')
        /\ stream'.writer = n /\ stream'.ready = r /\ stream'.closed = c
    BY <1>1, <1>6 DEF StreamRecord, Quiet
  <1>8. Told(stream')
    <2>1. /\ CloseQueuedOrInFlight(stream') <=> CloseQueuedOrInFlight(stream)
          /\ Full(stream') <=> Full(stream)
      BY <1>7 DEF Quiet, CloseQueuedOrInFlight, Full
    <2>2. stream.state \in {"writable", "erroring", "errored", "closed"}
          /\ stream.backpressure \in BOOLEAN
      BY <1>1 DEF StreamRecord
    <2>3. stream'.state = stream.state /\ stream'.aborting = stream.aborting
          /\ stream'.backpressure = stream.backpressure
      BY <1>7 DEF Quiet
    <2>4. r \in ToldReady(stream')
      BY <1>1, <1>4, <2>1, <2>2, <2>3 DEF Told, ToldReady
    <2>5. c \in ToldClosed(stream')
      BY <1>5, <2>2, <2>3 DEF ToldClosed
    <2> QED
      BY <1>1, <1>3, <1>7, <2>1, <2>3, <2>4, <2>5 DEF Told
  <1>9. answer' = answer /\ accepted' = accepted /\ frames' = frames
        /\ writers' \in 0 .. MaxWriters
    BY <1>1, <1>2 DEF AttachWriter
  <1> QED
    BY <1>7, <1>8, <1>9, QuietDoes, KeepFrames DEF Does

LEMMA ReleaseWriterDoes ==
    ASSUME Inv, ReleaseWriter
    PROVE  Does(None) /\ Inv'
  <1>1. /\ stream \in StreamRecord /\ Told(stream) /\ writers \in 0 .. MaxWriters
    BY NowIs DEF Books, Inv, TypeOK
  <1>2. stream' = [stream EXCEPT !.writer = None, !.ready = "none", !.closed = "none"]
    BY DEF ReleaseWriter
  <1>3. stream' \in StreamRecord /\ Quiet(stream, stream')
        /\ stream'.writer = None /\ stream'.ready = "none" /\ stream'.closed = "none"
    BY <1>1, <1>2 DEF StreamRecord, Quiet, Promise
  <1>4. Told(stream')
    BY <1>1, <1>3 DEF Told, Quiet, CloseQueuedOrInFlight, Full
  <1>5. answer' = answer /\ accepted' = accepted /\ frames' = frames
        /\ writers' \in 0 .. MaxWriters
    BY <1>1 DEF ReleaseWriter
  <1> QED
    BY <1>3, <1>4, <1>5, QuietDoes, KeepFrames DEF Does

-----------------------------------------------------------------------------
(***************************************************************************)
(* The invariant.                                                          *)
(***************************************************************************)
LEMMA NextDoes ==
    ASSUME Inv, Next
    PROVE  Inv' /\ \E x : Does(x)
  <1>1. CASE Returns
    <2>1. ASSUME NEW w \in Write, NEW size \in Sizes, WriteSized(w, size)
          PROVE  Inv' /\ \E x : Does(x)
      BY <2>1, WriteSizedDoes
    <2>2. ASSUME NEW w \in Write, WriteSizeThrows(w) \/ WriteSizeInvalid(w)
          PROVE  Inv' /\ \E x : Does(x)
      BY <2>2, WriteSizeThrowsDoes, WriteSizeInvalidDoes
    <2>3. ASSUME NEW a \in Aborter, AbortSignalled(a)
          PROVE  Inv' /\ \E x : Does(x)
      BY <2>3, AbortSignalledDoes
    <2> QED
      BY <1>1, <2>1, <2>2, <2>3 DEF Returns
  <1>2. CASE SinkEnds
    <2>1. ASSUME NEW ok \in BOOLEAN, StartEnds(ok) \/ FinishWrite(ok) \/ SettleAbort(ok)
          PROVE  Inv' /\ \E x : Does(x)
      BY <2>1, StartEndsDoes, FinishWriteDoes, SettleAbortDoes
    <2>2. CASE FinishInFlightClose
      BY <2>2, FinishInFlightCloseDoes
    <2>3. CASE FinishInFlightCloseWithError
      BY <2>3, FinishInFlightCloseWithErrorDoes
    <2> QED
      BY <1>2, <2>1, <2>2, <2>3 DEF SinkEnds
  <1>3. ASSUME NEW w \in Write, WriteCall(w)
        PROVE  Inv' /\ \E x : Does(x)
    BY <1>3, WriteCallDoes
  <1>4. ASSUME NEW w \in Write, WriteCleared(w)
        PROVE  Inv' /\ \E x : Does(x)
    BY <1>4, RefusedDoes DEF WriteCleared, Call
  <1>5. ASSUME NEW c \in Closer, Close(c)
        PROVE  Inv' /\ \E x : Does(x)
    BY <1>5, CloseDoes
  <1>6. ASSUME NEW a \in Aborter, AbortSignals(a) \/ Abort(a)
        PROVE  Inv' /\ \E x : Does(x)
    BY <1>6, AbortSignalsDoes, AbortDoes
  <1>7. ASSUME NEW c \in Call, Refused(c)
        PROVE  Inv' /\ \E x : Does(x)
    BY <1>7, RefusedDoes DEF Refused
  <1>8. CASE ControllerError \/ AttachWriter \/ ReleaseWriter
    BY <1>8, ControllerErrorDoes, AttachWriterDoes, ReleaseWriterDoes
  <1> QED
    BY <1>1, <1>2, <1>3, <1>4, <1>5, <1>6, <1>7, <1>8 DEF Next

LEMMA InitInv == Init => Inv
  <1> SUFFICES ASSUME Init
               PROVE  Inv
    OBVIOUS
  <1>1. /\ << >> \in Seq(Item) /\ << >> \in Seq(Write) /\ << >> \in Seq(Asks)
        /\ << >> \in Seq(Takes) /\ << >> \in Seq(Frame)
    BY EmptySeq, Zenon
  <1>2. {} \in SUBSET Aborter
    OBVIOUS
  <1>3. stream \in StreamRecord
    BY <1>1, <1>2 DEF Init, StreamRecord, Promise
  <1>4. /\ stream.state = "writable" /\ stream.started = FALSE /\ stream.cleared = FALSE
        /\ stream.backpressure = (HighWaterMark = 0) /\ stream.queue = << >>
        /\ stream.totalSize = 0 /\ stream.writeRequests = << >> /\ stream.closeRequest = None
        /\ stream.inFlightWrite = None /\ stream.inFlightClose = None
        /\ stream.pendingAbort = None /\ stream.aborting = {} /\ stream.writer = None
        /\ stream.ready = "none" /\ stream.closed = "none" /\ stream.sunk = << >>
    BY DEF Init
  <1>5. /\ answer = [c \in Call |-> "new"] /\ frames = << >> /\ writers = 0 /\ accepted = << >>
    BY DEF Init
  <1>6. TypeOK
    <2>1. answer \in [Call -> Status]
      BY <1>5 DEF Status
    <2>2. writers \in 0 .. MaxWriters
      BY <1>5, StreamAssumption
    <2> QED
      BY <1>1, <1>3, <1>4, <1>5, <2>1, <2>2 DEF TypeOK, Frame
  <1>7. Flight(stream) /\ Aborts(stream) /\ Going(stream)
    BY <1>4 DEF Flight, Aborts, Going, HasOperationInFlight, IsTerminal
  <1>8. Matched(stream)
    <2>1. Match(stream, 0)
      BY <1>4 DEF Match, Busy, Closing
    <2> QED
      BY <1>4, <2>1, TotalEmpty DEF Matched
  <1>9. Lined(stream, accepted)
    BY <1>4, <1>5 DEF Lined, Busy, Starts, Ends
  <1>10. Once(stream, accepted)
    BY <1>4, <1>5, RangeEmpty DEF Once
  <1>11. Owed(stream, answer)
    <2>1. Kept(stream) = {} /\ Range(stream.writeRequests) = {} /\ Len(stream.writeRequests) = 0
      BY <1>4, RangeEmpty DEF Kept
    <2> QED
      BY <1>5, <2>1 DEF Owed, Distinct
  <1>12. Told(stream)
    <2>1. Full(stream) <=> HighWaterMark = 0
      BY <1>4, StreamAssumption DEF Full
    <2> QED
      BY <1>4, <2>1 DEF Told
  <1>13. FrameInv
    <2>1. Len(frames) = 0
      BY <1>5
    <2> QED
      BY <2>1 DEF FrameInv
  <1> QED
    BY <1>6, <1>7, <1>8, <1>9, <1>10, <1>11, <1>12, <1>13 DEF Inv, Books

LEMMA Invariant == Spec => []Inv
  <1>1. Inv /\ UNCHANGED vars => Inv'
    BY DEF vars, Inv, TypeOK, FrameInv
  <1>2. Inv /\ [Next]_vars => Inv'
    BY <1>1, NextDoes
  <1> QED
    BY <1>2, InitInv, PTL DEF Spec

-----------------------------------------------------------------------------
(***************************************************************************)
(* What follows of the queue and its requests.                             *)
(***************************************************************************)
LEMMA SameSeq ==
    ASSUME NEW S, NEW p \in Seq(S), NEW q \in Seq(S), Len(p) = Len(q),
           \A i \in 1 .. Len(p) : p[i] = q[i]
    PROVE  p = q
  OBVIOUS

Joins(y, p, q, b, m) ==
    /\ y = p \o q /\ Len(y) = b + m
    /\ \A i \in 1 .. b : y[i] = p[i]
    /\ \A i \in 1 .. m : y[b + i] = q[i]

LEMMA ConcatIs ==
    ASSUME NEW S, NEW p \in Seq(S), NEW q \in Seq(S),
           NEW b \in Nat, b = Len(p), NEW m \in Nat, m = Len(q)
    PROVE  \E y \in Seq(S) : Joins(y, p, q, b, m)
  <1> DEFINE y == p \o q
  <1>1. y \in Seq(S) /\ Len(y) = b + m
    OBVIOUS
  <1>2. \A i \in 1 .. b : y[i] = p[i]
    OBVIOUS
  <1>3. \A i \in 1 .. m : y[b + i] = q[i]
    OBVIOUS
  <1>4. Joins(y, p, q, b, m)
    BY <1>1, <1>2, <1>3 DEF Joins
  <1> HIDE DEF y
  <1> QED
    BY <1>1, <1>4, Zenon

Begins(y, p, n) == y = SubSeq(p, 1, n) /\ Len(y) = n /\ \A i \in 1 .. n : y[i] = p[i]

LEMMA FirstIs ==
    ASSUME NEW S, NEW p \in Seq(S), NEW n \in 0 .. Len(p)
    PROVE  \E y \in Seq(S) : Begins(y, p, n)
  <1> DEFINE y == SubSeq(p, 1, n)
  <1>1. y \in Seq(S) /\ Begins(y, p, n)
    BY DEF Begins
  <1> HIDE DEF y
  <1> QED
    BY <1>1, Zenon

\* A sequence by its three parts: l, some of r, then t.
Parts(y, l, r, t, b, m, z, n) ==
    /\ y = SubSeq(l \o r, 1, n) \o t /\ Len(y) = n + z
    /\ \A i \in 1 .. n : i \in 1 .. b => y[i] = l[i]
    /\ \A i \in 1 .. m : b + i \in 1 .. n => y[b + i] = r[i]
    /\ \A i \in 1 .. z : y[n + i] = t[i]

LEMMA PartsAre ==
    ASSUME NEW S, NEW l \in Seq(S), NEW r \in Seq(S), NEW t \in Seq(S),
           NEW b \in Nat, b = Len(l), NEW m \in Nat, m = Len(r), NEW z \in Nat, z = Len(t),
           NEW n \in 0 .. (b + m)
    PROVE  \E y \in Seq(S) : Parts(y, l, r, t, b, m, z, n)
  <1>1. PICK lr \in Seq(S) : Joins(lr, l, r, b, m)
    BY ConcatIs, Zenon
  <1>2. n \in 0 .. Len(lr) /\ n \in Nat
    BY <1>1 DEF Joins
  <1>3. PICK p \in Seq(S) : Begins(p, lr, n)
    BY <1>2, FirstIs, Zenon
  <1>4. n = Len(p)
    BY <1>3 DEF Begins
  <1>5. PICK y \in Seq(S) : Joins(y, p, t, n, z)
    BY <1>2, <1>4, ConcatIs, Zenon
  <1>6. Parts(y, l, r, t, b, m, z, n)
    <2>1. lr = l \o r /\ p = SubSeq(lr, 1, n) /\ y = p \o t /\ Len(y) = n + z
      BY <1>1, <1>3, <1>5 DEF Joins, Begins
    <2>2. /\ \A i \in 1 .. b : lr[i] = l[i]
          /\ \A i \in 1 .. m : lr[b + i] = r[i]
          /\ \A i \in 1 .. n : p[i] = lr[i]
          /\ \A i \in 1 .. n : y[i] = p[i]
          /\ \A i \in 1 .. z : y[n + i] = t[i]
      BY <1>1, <1>3, <1>5, Zenon DEF Joins, Begins
    <2>3. /\ \A i \in 1 .. n : i \in 1 .. b => y[i] = l[i]
          /\ \A i \in 1 .. m : b + i \in 1 .. n => y[b + i] = r[i]
      BY <2>2, Zenon
    <2> QED
      BY <2>1, <2>2, <2>3, Zenon DEF Parts
  <1> QED
    BY <1>6

Fits(v, l, r, t, b, z, n) ==
    /\ Len(v) = n + z
    /\ \A i \in 1 .. b : v[i] = l[i]
    /\ \A i \in 1 .. n - b : v[b + i] = r[i]
    /\ \A i \in 1 .. z : v[n + i] = t[i]

Composed(v, l, r, t, n) == v = SubSeq(l \o r, 1, n) \o t

LEMMA ThreeParts ==
    ASSUME NEW S, NEW l \in Seq(S), NEW r \in Seq(S), NEW t \in Seq(S), NEW v \in Seq(S),
           NEW b \in Nat, b = Len(l), NEW m \in Nat, m = Len(r), NEW z \in Nat, z = Len(t),
           NEW n \in 0 .. (b + m), Fits(v, l, r, t, b, z, n)
    PROVE  Composed(v, l, r, t, n)
  <1> USE DEF Fits
  <1>0. PICK y \in Seq(S) : Parts(y, l, r, t, b, m, z, n)
    BY PartsAre, Zenon
  <1>1. /\ y = SubSeq(l \o r, 1, n) \o t /\ Len(y) = n + z
        /\ \A i \in 1 .. n : i \in 1 .. b => y[i] = l[i]
        /\ \A i \in 1 .. m : b + i \in 1 .. n => y[b + i] = r[i]
        /\ \A i \in 1 .. z : y[n + i] = t[i]
    BY <1>0, Zenon DEF Parts
  <1>2. ASSUME NEW i \in 1 .. Len(v) PROVE v[i] = y[i]
    <2>0. i \in Int /\ 1 <= i /\ i <= n + z /\ n \in Nat /\ n <= b + m
      OBVIOUS
    <2>1. CASE i <= b /\ i <= n
      <3>1. i \in 1 .. b /\ i \in 1 .. n
        BY <2>0, <2>1
      <3> QED
        BY <1>1, <3>1, Zenon
    <2>2. CASE b < i /\ i <= n
      <3>0. i - b \in 1 .. m /\ i - b \in 1 .. n - b /\ i \in 1 .. n /\ i = b + (i - b)
        BY <2>0, <2>2
      <3>1. PICK j : j \in 1 .. m /\ j \in 1 .. n - b /\ i = b + j
        BY <3>0, Zenon
      <3>2. b + j \in 1 .. n
        BY <3>0, <3>1, Zenon
      <3>3. v[b + j] = r[j] /\ y[b + j] = r[j]
        BY <1>1, <3>1, <3>2, Zenon
      <3> QED
        BY <3>1, <3>3, Zenon
    <2>3. CASE n < i
      <3>0. i - n \in 1 .. z /\ i = n + (i - n)
        BY <2>0, <2>3
      <3>1. PICK j : j \in 1 .. z /\ i = n + j
        BY <3>0, Zenon
      <3>2. v[n + j] = t[j] /\ y[n + j] = t[j]
        BY <1>1, <3>1, Zenon
      <3> QED
        BY <3>1, <3>2, Zenon
    <2> QED
      BY <2>0, <2>1, <2>2, <2>3
  <1>3. Len(v) = Len(y)
    BY <1>1, Zenon
  <1>4. v = y
    BY <1>2, <1>3, SameSeq, Zenon
  <1> QED
    BY <1>1, <1>4, Zenon DEF Composed

LEMMA ValuesAre ==
    ASSUME NEW q \in Seq(Item)
    PROVE  /\ Values(q) \in Seq(Takes) /\ Len(Values(q)) = Len(q)
           /\ \A i \in 1 .. Len(q) : Values(q)[i] = q[i].value
  <1>1. \A i \in 1 .. Len(q) : q[i] \in Item
    OBVIOUS
  <1>2. \A i \in 1 .. Len(q) : q[i].value \in Takes
    BY <1>1 DEF Item
  <1>3. PICK c \in Nat : c = Len(q)
    OBVIOUS
  <1>4. Values(q) = [i \in 1 .. c |-> q[i].value]
    BY <1>3 DEF Values
  <1>5. [i \in 1 .. c |-> q[i].value] \in Seq(Takes) /\ Len([i \in 1 .. c |-> q[i].value]) = c
    BY <1>2, <1>3
  <1>6. \A i \in 1 .. c : Values(q)[i] = q[i].value
    BY <1>4, Zenon
  <1> QED
    BY <1>3, <1>4, <1>5, <1>6, Zenon

Closings == IF stream.closeRequest = None THEN << >> ELSE <<"close">>

LEMMA PiecesAre ==
    ASSUME Inv
    PROVE  /\ InFlight \in Seq(Takes) /\ Len(InFlight) = Busy(stream)
           /\ stream.inFlightWrite # None => InFlight[1] = stream.inFlightWrite
           /\ stream.writeRequests \in Seq(Takes)
           /\ Closings \in Seq(Takes) /\ Len(Closings) = Closing(stream)
           /\ stream.closeRequest # None => Closings[1] = "close"
           /\ stream.queue \in Seq(Item)
  <1>1. stream \in StreamRecord
    BY DEF Inv, TypeOK
  <1>2. /\ stream.inFlightWrite \in Write \cup {None} /\ stream.writeRequests \in Seq(Write)
        /\ stream.queue \in Seq(Item)
    BY <1>1 DEF StreamRecord
  <1>3. stream.writeRequests \in Seq(Takes)
    BY <1>2 DEF Takes
  <1>4. << >> \in Seq(Takes) /\ <<"close">> \in Seq(Takes)
    BY DEF Takes
  <1>5. Closings \in Seq(Takes) /\ Len(Closings) = Closing(stream)
        /\ (stream.closeRequest # None => Closings[1] = "close")
    BY <1>4 DEF Closings, Closing
  <1>6. CASE stream.inFlightWrite = None
    BY <1>2, <1>3, <1>4, <1>5, <1>6 DEF InFlight, Busy
  <1>7. CASE stream.inFlightWrite # None
    <2>1. PICK w \in Takes : w = stream.inFlightWrite
      BY <1>2, <1>7 DEF Takes
    <2>2. <<w>> \in Seq(Takes) /\ Len(<<w>>) = 1 /\ <<w>>[1] = w
      OBVIOUS
    <2>3. InFlight = <<w>> /\ Busy(stream) = 1
      BY <1>7, <2>1 DEF InFlight, Busy
    <2>4. InFlight \in Seq(Takes) /\ Len(InFlight) = Busy(stream)
          /\ InFlight[1] = stream.inFlightWrite
      BY <2>1, <2>2, <2>3, Zenon
    <2> QED
      BY <1>2, <1>3, <1>5, <2>4, Zenon
  <1> QED
    BY <1>6, <1>7

\* The chunks of the queue are the requests but the last k, then the close.
LEMMA QueueIs ==
    ASSUME Inv, NEW k \in {0, 1}, Match(stream, k)
    PROVE  \E n \in Nat : /\ n = Len(InFlight \o stream.writeRequests) - k
                          /\ Values(stream.queue)
                               = SubSeq(InFlight \o stream.writeRequests, 1, n) \o Closings
  <1>1. PICK l \in Seq(Takes) : /\ l = InFlight /\ Len(l) = Busy(stream)
                                /\ stream.inFlightWrite # None => l[1] = stream.inFlightWrite
    BY PiecesAre, Zenon
  <1>2. PICK t \in Seq(Takes) : /\ t = Closings /\ Len(t) = Closing(stream)
                                /\ stream.closeRequest # None => t[1] = "close"
    BY PiecesAre, Zenon
  <1>3. PICK r \in Seq(Takes) : r = stream.writeRequests
    BY PiecesAre, Zenon
  <1>4. PICK q \in Seq(Item) : q = stream.queue
    BY PiecesAre, Zenon
  <1>5. PICK v \in Seq(Takes) : /\ v = Values(q) /\ Len(v) = Len(q)
                                /\ \A i \in 1 .. Len(q) : v[i] = q[i].value
    BY ValuesAre, Zenon
  <1>6. PICK m \in Nat : m = Len(r)
    OBVIOUS
  <1>7. PICK b \in Nat : /\ b = Busy(stream) /\ b \in {0, 1}
                         /\ b = 1 <=> stream.inFlightWrite # None
    BY DEF Busy
  <1>8. PICK z \in Nat : /\ z = Closing(stream) /\ z \in {0, 1}
                         /\ z = 1 <=> stream.closeRequest # None
    BY DEF Closing
  <1>9. /\ k <= m /\ Len(q) = b + m - k + z
        /\ stream.inFlightWrite # None => q[1].value = stream.inFlightWrite
        /\ \A i \in 1 .. m - k : q[b + i].value = r[i]
        /\ stream.closeRequest # None => q[Len(q)] = CloseSentinel
    BY <1>3, <1>4, <1>6, <1>7, <1>8 DEF Match
  <1>10. PICK n \in 0 .. (b + m) : n = b + m - k
    <2>1. b + m - k \in 0 .. (b + m)
      BY SMTT(30), <1>9
    <2> QED
      BY <2>1, Zenon
  <1>11. /\ Len(q) = n + z /\ n \in Nat /\ n - b = m - k
         /\ \A i \in 1 .. b : i = 1 /\ 1 \in 1 .. (n + z)
         /\ \A i \in 1 .. m - k : b + i \in 1 .. (n + z)
         /\ \A i \in 1 .. z : i = 1 /\ n + 1 = n + z /\ n + 1 \in 1 .. (n + z)
    <2>1. b \in {0, 1} /\ z \in {0, 1} /\ k <= m /\ Len(q) = b + m - k + z
      BY <1>7, <1>8, <1>9
    <2>2. Len(q) = n + z /\ n \in Nat /\ n - b = m - k
      BY <1>10, <2>1
    <2>3. \A i \in 1 .. b : i = 1 /\ 1 \in 1 .. (n + z)
      BY <1>10, <2>1
    <2>4. \A i \in 1 .. m - k : b + i \in 1 .. (n + z)
      BY <1>10, <2>1
    <2>5. \A i \in 1 .. z : i = 1 /\ n + 1 = n + z /\ n + 1 \in 1 .. (n + z)
      BY <1>10, <2>1
    <2> QED
      BY <2>2, <2>3, <2>4, <2>5, Zenon
  <1>12. \A i \in 1 .. b : v[i] = l[i]
    <2>1. b = 1 => stream.inFlightWrite # None /\ q[1].value = stream.inFlightWrite
                     /\ l[1] = stream.inFlightWrite
      BY <1>1, <1>7, <1>9
    <2>2. \A i \in 1 .. b : b = 1 /\ i = 1
      BY <1>7
    <2> QED
      BY <1>5, <1>11, <2>1, <2>2, Zenon
  <1>13. \A i \in 1 .. n - b : v[b + i] = r[i]
    BY <1>5, <1>9, <1>11, Zenon
  <1>14. \A i \in 1 .. z : v[n + i] = t[i]
    <2>0. CloseSentinel.value = "close"
      BY DEF CloseSentinel
    <2>1. z = 1 => q[n + z].value = "close" /\ t[1] = "close"
      BY <1>2, <1>8, <1>9, <1>11, <2>0, Zenon
    <2>2. \A i \in 1 .. z : z = 1
      BY <1>8
    <2>3. \A i \in 1 .. z : v[n + i] = q[n + z].value
      BY <1>5, <1>11, Zenon
    <2> QED
      BY <1>11, <2>1, <2>2, <2>3, Zenon
  <1>15. v = SubSeq(l \o r, 1, n) \o t
    <2>1. b = Len(l) /\ z = Len(t)
      BY <1>1, <1>2, <1>7, <1>8
    <2>2. Len(v) = n + z
      BY <1>5, <1>11
    <2>3. Fits(v, l, r, t, b, z, n)
      BY <1>12, <1>13, <1>14, <2>2, Zenon DEF Fits
    <2>4. Composed(v, l, r, t, n)
      BY <1>6, <2>1, <2>3, ThreeParts, Zenon
    <2> QED
      BY <2>4 DEF Composed
  <1>16. n = Len(l \o r) - k
    <2>1. Len(l \o r) = Len(l) + Len(r)
      OBVIOUS
    <2> QED
      BY <1>1, <1>6, <1>7, <1>10, <2>1
  <1> QED
    BY <1>1, <1>2, <1>3, <1>4, <1>5, <1>11, <1>15, <1>16, Zenon

LEMMA RequestsSound == Inv => RequestsMatchQueue
  <1> SUFFICES ASSUME Inv
               PROVE  RequestsMatchQueue
    OBVIOUS
  <1>1. Matched(stream)
    BY DEF Inv, Books
  <1>2. PICK rq \in Seq(Takes) : rq = InFlight \o stream.writeRequests
    <2>1. PICK l \in Seq(Takes), r \in Seq(Takes) : l = InFlight /\ r = stream.writeRequests
      BY PiecesAre, Zenon
    <2>2. l \o r \in Seq(Takes)
      OBVIOUS
    <2> QED
      BY <2>1, <2>2, Zenon
  <1>3. PICK c \in Nat : c = Len(rq)
    OBVIOUS
  <1>4. ASSUME NEW k \in {0, 1}, Match(stream, k)
        PROVE  c - k \in Nat /\ Values(stream.queue) = SubSeq(rq, 1, c - k) \o Closings
    <2>1. PICK n \in Nat : n = Len(rq) - k /\ Values(stream.queue) = SubSeq(rq, 1, n) \o Closings
      BY <1>2, <1>4, QueueIs, Zenon
    <2> QED
      BY <1>3, <2>1, Zenon
  <1>5. stream.state = "writable" => Values(stream.queue) = rq \o Closings
    <2> SUFFICES ASSUME stream.state = "writable"
                 PROVE  Values(stream.queue) = rq \o Closings
      OBVIOUS
    <2>1. Match(stream, 0)
      BY <1>1 DEF Matched
    <2>2. Values(stream.queue) = SubSeq(rq, 1, c - 0) \o Closings
      BY <1>4, <2>1
    <2>3. c - 0 = c /\ SubSeq(rq, 1, c) = rq
      BY <1>3
    <2> QED
      BY <2>2, <2>3, Zenon
  <1>6. stream.state = "erroring" =>
          \E n \in {c, c - 1} : n >= 0 /\ Values(stream.queue) = SubSeq(rq, 1, n) \o Closings
    <2> SUFFICES ASSUME stream.state = "erroring"
                 PROVE  \E n \in {c, c - 1} :
                            n >= 0 /\ Values(stream.queue) = SubSeq(rq, 1, n) \o Closings
      OBVIOUS
    <2>1. PICK k \in {0, 1} : Match(stream, k)
      BY <1>1 DEF Matched
    <2>2. c - k \in Nat /\ Values(stream.queue) = SubSeq(rq, 1, c - k) \o Closings
      BY <1>4, <2>1
    <2>3. c - k \in {c, c - 1}
      OBVIOUS
    <2>4. c - k >= 0
      BY <2>2
    <2> QED
      BY <2>2, <2>3, <2>4, Zenon
  <1>7. stream.totalSize = Total(stream.queue)
    BY <1>1 DEF Matched
  <1> QED
    BY <1>2, <1>3, <1>5, <1>6, <1>7, Zenon DEF RequestsMatchQueue, Closings

LEMMA LeftSound == Inv => NothingLeft
  <1> SUFFICES ASSUME Inv
               PROVE  NothingLeft
    OBVIOUS
  <1>1. Flight(stream) /\ Aborts(stream) /\ Owed(stream, answer) /\ Going(stream)
    BY DEF Inv, Books
  <1>2. ASSUME IsTerminal(stream), stream.aborting = {}
        PROVE  \A c \in Call : answer[c] # "pending"
    <2>1. /\ stream.writeRequests = << >> /\ stream.inFlightWrite = None
          /\ stream.inFlightClose = None /\ stream.closeRequest = None
          /\ stream.pendingAbort = None
      BY <1>1, <1>2 DEF Flight, Aborts, HasOperationInFlight, IsTerminal
    <2>2. Kept(stream) = {}
      BY <1>2, <2>1, RangeEmpty DEF Kept
    <2> QED
      BY <1>1, <2>2 DEF Owed
  <1> QED
    BY <1>1, <1>2 DEF NothingLeft, Going

\* The books of the stream stay exact whatever is called and whenever: the
\* write requests are those of the queue's chunks in the same order, so that
\* processWrite and processClose find what they shift; the total size is the
\* queue's; the stream works while it has work; and once it has ended no call
\* of write, close or abort is left waiting.
THEOREM StreamBooksExact == Spec => []StreamSound
  <1>1. Inv => StreamSound
    BY RequestsSound, LeftSound DEF Inv, StreamSound
  <1> QED
    BY <1>1, Invariant, PTL

\* A writer's ready is pending exactly while the queue has no room and the
\* stream still takes chunks, rejected once the stream errors, and its closed
\* tells how the stream ended (updateBackpressure, startErroring,
\* rejectCloseAndClosed, attachWriter).
THEOREM WriterToldRight == Spec => []WriterTold
  <1>1. ASSUME Inv PROVE WriterTold
    <2> SUFFICES ASSUME stream.writer # None
                 PROVE  WriterTold
      BY DEF WriterTold
    <2>1. stream.ready \in ToldReady(stream) /\ stream.closed \in ToldClosed(stream)
      BY <1>1 DEF Inv, Books, Told
    <2>2. stream.state \in {"writable", "erroring", "errored", "closed"}
      BY <1>1 DEF Inv, TypeOK, StreamRecord
    <2>3. stream.aborting = {} \/ {"pending" : a \in stream.aborting} = {"pending"}
      OBVIOUS
    <2>4. CASE stream.state = "writable"
      <3>1. stream.closed = "pending"
        BY <2>1, <2>4 DEF ToldClosed
      <3>2. IF ~CloseQueuedOrInFlight(stream) /\ stream.totalSize >= HighWaterMark
            THEN stream.ready = "pending" ELSE stream.ready = "fulfilled"
        BY <2>1, <2>4 DEF ToldReady, Full
      <3> QED
        BY <2>4, <3>1, <3>2 DEF WriterTold
    <2>5. CASE stream.state = "erroring"
      BY <2>1, <2>5 DEF WriterTold, ToldReady, ToldClosed
    <2>6. CASE stream.state = "closed"
      BY <2>1, <2>6 DEF WriterTold, ToldReady, ToldClosed
    <2>7. CASE stream.state = "errored"
      BY <2>1, <2>3, <2>7 DEF WriterTold, ToldReady, ToldClosed
    <2> QED
      BY <2>2, <2>4, <2>5, <2>6, <2>7
  <1> QED
    BY <1>1, Invariant, PTL

-----------------------------------------------------------------------------
(***************************************************************************)
(* Sink.                                                                   *)
(***************************************************************************)
LEMMA StepRefines ==
    ASSUME NEW x, Does(x)
    PROVE  Contract!SinkNext
  <1>1. /\ Moves(stream, stream', accepted') /\ Gains(stream, answer, stream', answer')
        /\ Accepting(accepted, accepted')
    BY DEF Does, Step
  <1>2. Contract!Accept
    BY <1>1 DEF Accepting, Contract!Accept, Takes, Range, Contract!Range
  <1>3. Contract!Work
    <2>1. CASE stream'.sunk = stream.sunk /\ Doing(stream') \in {Doing(stream), {}}
      BY <2>1 DEF Contract!Work, Doing
    <2>2. ASSUME NEW y \in Asks, Asked(stream, stream', y, accepted')
          PROVE  Contract!Work
      <3>1. Contract!Begin(y)
        BY <2>2 DEF Asked, Contract!Begin, Doing, Range, Contract!Range, IsPrefix,
            Contract!IsPrefix
      <3> QED
        BY <3>1 DEF Contract!Work, Asks, Takes
    <2> QED
      BY <1>1, <2>1, <2>2 DEF Moves
  <1>4. /\ {w \in Write : answer[w] = "fulfilled"} \subseteq {w \in Write : answer'[w] = "fulfilled"}
        /\ {w \in Write : answer'[w] = "fulfilled"} \ {w \in Write : answer[w] = "fulfilled"}
              \subseteq Doing(stream) \ Doing(stream')
    BY <1>1 DEF Gains
  <1> QED
    BY <1>2, <1>3, <1>4 DEF Contract!SinkNext, Doing

\* The stream keeps the promises of Sink: the sink is asked for one thing at a
\* time, for the chunks in the order write accepted them, for the close behind
\* them and for the abort at most once and never after a close; and a write is
\* fulfilled just when the sink ends it (advanceQueueIfNeeded, processWrite,
\* processClose, finishErroring, finishWrite).
THEOREM StreamImplementsSink == Spec => ImplementsSink
  <1>1. Init => Contract!SinkInit
    BY DEF Init, Contract!SinkInit, Call
  <1>2. Inv /\ Next => Contract!SinkNext
    BY NextDoes, StepRefines
  <1>3. UNCHANGED vars => UNCHANGED Contract!sinkVars
    BY DEF vars, Contract!sinkVars
  <1> QED
    BY <1>1, <1>2, <1>3, Invariant, PTL DEF Spec, ImplementsSink, Contract!SinkSpec

=============================================================================
