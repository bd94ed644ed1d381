--------------------------- MODULE PromisesProofs ---------------------------
(***************************************************************************)
(* Proofs about promises, for every program: how many promises there are   *)
(* and how each is settled, how many jobs it makes and how long the        *)
(* arguments of its combinators are.                                       *)
(***************************************************************************)
EXTENDS Promises, FiniteSetTheorems, FunctionTheorems, SequenceTheorems, TLAPS

(***************************************************************************)
(* Queues.  A job waits in the microtask queue q or in one of the reaction *)
(* lists R.                                                                *)
(***************************************************************************)
\* Job a stands before job b in s.
Ahead(s, a, b) == \E i, j \in DOMAIN s : i < j /\ s[i] = a /\ s[j] = b

\* What there is only one of: each hop of an adoption and each thenable job
\* is p's one way to be settled; any other job is itself.
Route(p) == <<"route", p>>
Key(job) == IF job[1] \in {"begin", "settled", "thenable"} THEN Route(job[2]) ELSE job

Waiting(R) == UNION {ToSet(R[p]) : p \in Promise}
Held(q, R) == ToSet(q) \cup Waiting(R)
Keys(q, R) == {Key(job) : job \in Held(q, R)}

\* No key stands in two places.
OneEach(q, R) ==
    /\ \A i, j \in DOMAIN q : Key(q[i]) = Key(q[j]) => i = j
    /\ \A o, p \in Promise : \A i \in DOMAIN R[o], j \in DOMAIN R[p] :
          Key(R[o][i]) = Key(R[p][j]) => o = p /\ i = j
    /\ \A i \in DOMAIN q, p \in Promise : \A j \in DOMAIN R[p] :
          Key(q[i]) # Key(R[p][j])

\* The same within one list.
KeysIn(s) == {Key(job) : job \in ToSet(s)}
Distinct(s) == \A i, j \in DOMAIN s : Key(s[i]) = Key(s[j]) => i = j

LEMMA AppendHolds ==
    ASSUME NEW S, NEW s \in Seq(S), NEW job \in S
    PROVE  /\ Append(s, job) \in Seq(S)
           /\ ToSet(Append(s, job)) = ToSet(s) \cup {job}
           /\ \A a, b : Ahead(s, a, b) => Ahead(Append(s, job), a, b)
           /\ \A a \in ToSet(s) : Ahead(Append(s, job), a, job)
<1>1. /\ Append(s, job) \in Seq(S)
      /\ DOMAIN s = 1 .. Len(s)
      /\ DOMAIN Append(s, job) = 1 .. Len(s) + 1
      /\ Len(s) \in Nat
      /\ \A i \in 1 .. Len(s) : Append(s, job)[i] = s[i]
      /\ Append(s, job)[Len(s) + 1] = job
  OBVIOUS
<1>2. ToSet(Append(s, job)) = ToSet(s) \cup {job}
  <2>1. \A x \in ToSet(Append(s, job)) : x \in ToSet(s) \cup {job}
    BY <1>1 DEF ToSet
  <2>2. \A x \in ToSet(s) \cup {job} : x \in ToSet(Append(s, job))
    BY <1>1 DEF ToSet
  <2> QED BY <2>1, <2>2
<1>3. \A a, b : Ahead(s, a, b) => Ahead(Append(s, job), a, b)
  BY <1>1 DEF Ahead
<1>4. \A a \in ToSet(s) : Ahead(Append(s, job), a, job)
  BY <1>1 DEF Ahead, ToSet
<1> QED BY <1>1, <1>2, <1>3, <1>4

LEMMA PrependHolds ==
    ASSUME NEW S, NEW s \in Seq(S), NEW job \in S
    PROVE  /\ <<job>> \o s \in Seq(S)
           /\ ToSet(<<job>> \o s) = ToSet(s) \cup {job}
           /\ <<job>> \o s # <<>>
           /\ \A a, b : Ahead(s, a, b) => Ahead(<<job>> \o s, a, b)
           /\ \A b \in ToSet(s) : Ahead(<<job>> \o s, job, b)
           /\ DOMAIN (<<job>> \o s) = 1 .. Len(s) + 1
           /\ (<<job>> \o s)[1] = job
           /\ \A i \in 1 .. Len(s) : (<<job>> \o s)[i + 1] = s[i]
<1> DEFINE t == <<job>> \o s
<1>1. /\ t \in Seq(S)
      /\ DOMAIN s = 1 .. Len(s)
      /\ DOMAIN t = 1 .. Len(s) + 1
      /\ Len(s) \in Nat
      /\ t[1] = job
      /\ \A i \in 1 .. Len(s) : t[i + 1] = s[i]
  <2>1. <<job>> \in Seq(S) /\ Len(<<job>>) = 1 /\ <<job>>[1] = job
    OBVIOUS
  <2>2. t \in Seq(S) /\ Len(t) = 1 + Len(s) /\ Len(s) \in Nat
    BY <2>1
  <2>3. \A i \in 1 .. 1 + Len(s) : t[i] = IF i <= 1 THEN <<job>>[i] ELSE s[i - 1]
    BY <2>1
  <2> HIDE DEF t
  <2>4. \A i \in 1 .. Len(s) : t[i + 1] = s[i]
    <3> TAKE i \in 1 .. Len(s)
    <3>1. i + 1 \in 1 .. 1 + Len(s) /\ ~(i + 1 <= 1) /\ (i + 1) - 1 = i
      BY <2>2
    <3> QED BY <2>3, <3>1
  <2> QED BY <2>1, <2>2, <2>3, <2>4
<1> HIDE DEF t
<1>2. ToSet(t) = ToSet(s) \cup {job}
  <2>1. \A x \in ToSet(t) : x \in ToSet(s) \cup {job}
    <3> TAKE x \in ToSet(t)
    <3>1. PICK i \in 1 .. Len(s) + 1 : x = t[i]
      BY <1>1 DEF ToSet
    <3>2. CASE i = 1
      BY <3>1, <3>2, <1>1
    <3>3. CASE i # 1
      <4>1. i - 1 \in 1 .. Len(s) /\ (i - 1) + 1 = i
        BY <3>3, <1>1
      <4> QED BY <4>1, <1>1, <3>1 DEF ToSet
    <3> QED BY <3>2, <3>3
  <2>2. \A x \in ToSet(s) \cup {job} : x \in ToSet(t)
    <3>1. 1 \in DOMAIN t
      BY <1>1
    <3>2. \A i \in 1 .. Len(s) : i + 1 \in DOMAIN t
      BY <1>1
    <3> QED BY <1>1, <3>1, <3>2 DEF ToSet
  <2> QED BY <2>1, <2>2
<1>3. ASSUME NEW a, NEW b, Ahead(s, a, b)
      PROVE  Ahead(t, a, b)
  <2>1. PICK i, j \in 1 .. Len(s) : i < j /\ s[i] = a /\ s[j] = b
    BY <1>1, <1>3 DEF Ahead
  <2>2. i + 1 \in DOMAIN t /\ j + 1 \in DOMAIN t /\ i + 1 < j + 1
    BY <1>1, <2>1
  <2>3. t[i + 1] = a /\ t[j + 1] = b
    BY <1>1, <2>1
  <2> QED BY <2>2, <2>3 DEF Ahead
<1>4. ASSUME NEW b \in ToSet(s)
      PROVE  Ahead(t, job, b)
  <2>1. PICK j \in 1 .. Len(s) : s[j] = b
    BY <1>1 DEF ToSet
  <2>2. 1 \in DOMAIN t /\ j + 1 \in DOMAIN t /\ 1 < j + 1
    BY <1>1, <2>1
  <2>3. t[1] = job /\ t[j + 1] = b
    BY <1>1, <2>1
  <2> QED BY <2>2, <2>3 DEF Ahead
<1>5. t # <<>>
  BY <1>1
<1> QED BY <1>1, <1>2, <1>3, <1>4, <1>5 DEF t

LEMMA FlushHolds ==
    ASSUME NEW S, NEW q \in Seq(S), NEW s \in Seq(S)
    PROVE  /\ q \o Reverse(s) \in Seq(S)
           /\ ToSet(q \o Reverse(s)) = ToSet(q) \cup ToSet(s)
           /\ \A a, b : Ahead(q, a, b) => Ahead(q \o Reverse(s), a, b)
           /\ \A a, b : Ahead(s, b, a) => Ahead(q \o Reverse(s), a, b)
           /\ \A a \in ToSet(q), b \in ToSet(s) : Ahead(q \o Reverse(s), a, b)
           /\ DOMAIN (q \o Reverse(s)) = 1 .. Len(q) + Len(s)
           /\ \A i \in 1 .. Len(q) : (q \o Reverse(s))[i] = q[i]
           /\ \A i \in 1 .. Len(s) : (q \o Reverse(s))[Len(q) + i] = s[Len(s) - i + 1]
<1> DEFINE t == q \o Reverse(s)
           r == Reverse(s)
<1>1. /\ DOMAIN q = 1 .. Len(q) /\ Len(q) \in Nat
      /\ DOMAIN s = 1 .. Len(s) /\ Len(s) \in Nat
  OBVIOUS
<1>2. r \in Seq(S) /\ Len(r) = Len(s) /\ \A i \in 1 .. Len(s) : r[i] = s[Len(s) - i + 1]
  <2>1. r = [i \in 1 .. Len(s) |-> s[(Len(s) - i) + 1]]
    BY DEF Reverse
  <2>2. \A i \in 1 .. Len(s) : (Len(s) - i) + 1 \in 1 .. Len(s)
    BY <1>1
  <2>3. \A i \in 1 .. Len(s) : r[i] = s[(Len(s) - i) + 1] /\ r[i] \in S
    BY <2>1, <2>2, <1>1
  <2>4. r \in [1 .. Len(s) -> S]
    BY <2>1, <2>3
  <2> QED BY <2>3, <2>4, <1>1
<1> HIDE DEF r
<1>3. /\ t \in Seq(S)
      /\ DOMAIN t = 1 .. Len(q) + Len(s)
      /\ \A i \in 1 .. Len(q) : t[i] = q[i]
      /\ \A i \in 1 .. Len(s) : t[Len(q) + i] = s[Len(s) - i + 1]
  <2>1. t = q \o r
    BY DEF r
  <2>2. t \in Seq(S) /\ Len(t) = Len(q) + Len(s)
    BY <2>1, <1>2, <1>1
  <2>3. \A i \in 1 .. Len(q) + Len(s) : t[i] = IF i <= Len(q) THEN q[i] ELSE r[i - Len(q)]
    BY <2>1, <1>2, <1>1
  <2> HIDE DEF t
  <2>4. \A i \in 1 .. Len(s) : t[Len(q) + i] = s[Len(s) - i + 1]
    <3> TAKE i \in 1 .. Len(s)
    <3>1. Len(q) + i \in 1 .. Len(q) + Len(s) /\ ~(Len(q) + i <= Len(q))
            /\ (Len(q) + i) - Len(q) = i
      BY <1>1
    <3>2. t[Len(q) + i] = r[i]
      BY <2>3, <3>1
    <3> QED BY <3>2, <1>2
  <2>5. \A i \in 1 .. Len(q) : t[i] = q[i]
    BY <2>3, <1>1
  <2> QED BY <2>2, <2>4, <2>5, <1>1
<1> HIDE DEF t
<1>4. \A i \in 1 .. Len(s) : /\ Len(s) - i + 1 \in 1 .. Len(s)
                             /\ Len(q) + (Len(s) - i + 1) \in DOMAIN t
                             /\ t[Len(q) + (Len(s) - i + 1)] = s[i]
  <2> TAKE i \in 1 .. Len(s)
  <2>1. /\ Len(s) - i + 1 \in 1 .. Len(s)
        /\ Len(q) + (Len(s) - i + 1) \in 1 .. Len(q) + Len(s)
        /\ Len(s) - (Len(s) - i + 1) + 1 = i
    BY <1>1
  <2> QED BY <2>1, <1>3
<1>5. ToSet(t) = ToSet(q) \cup ToSet(s)
  <2>1. ASSUME NEW x \in ToSet(t) PROVE x \in ToSet(q) \cup ToSet(s)
    <3>1. PICK i \in 1 .. Len(q) + Len(s) : x = t[i]
      BY <1>3, <2>1 DEF ToSet
    <3>2. CASE i <= Len(q)
      BY SMTT(30), <3>1, <3>2, <1>3, <1>1 DEF ToSet
    <3>3. CASE ~(i <= Len(q))
      <4>1. i - Len(q) \in 1 .. Len(s) /\ Len(q) + (i - Len(q)) = i
        BY <3>3, <1>1
      <4>2. x = s[Len(s) - (i - Len(q)) + 1] /\ Len(s) - (i - Len(q)) + 1 \in DOMAIN s
        BY <4>1, <1>3, <1>4, <3>1, <1>1
      <4> QED BY <4>2 DEF ToSet
    <3> QED BY <3>2, <3>3
  <2>2. ASSUME NEW x \in ToSet(q) PROVE x \in ToSet(t)
    BY <1>1, <1>3 DEF ToSet
  <2>3. ASSUME NEW x \in ToSet(s) PROVE x \in ToSet(t)
    BY <1>1, <1>4 DEF ToSet
  <2> QED BY <2>1, <2>2, <2>3
<1>6. \A a, b : Ahead(q, a, b) => Ahead(t, a, b)
  BY <1>1, <1>3 DEF Ahead
<1>7. ASSUME NEW a, NEW b, Ahead(s, b, a) PROVE Ahead(t, a, b)
  <2>1. PICK i, j \in 1 .. Len(s) : i < j /\ s[i] = b /\ s[j] = a
    BY <1>1, <1>7 DEF Ahead
  <2>2. Len(q) + (Len(s) - j + 1) < Len(q) + (Len(s) - i + 1)
    BY <1>1, <2>1
  <2> QED BY <2>1, <2>2, <1>4 DEF Ahead
<1>8. ASSUME NEW a \in ToSet(q), NEW b \in ToSet(s) PROVE Ahead(t, a, b)
  <2>1. PICK i \in 1 .. Len(q) : q[i] = a
    BY <1>1 DEF ToSet
  <2>2. PICK j \in 1 .. Len(s) : s[j] = b
    BY <1>1 DEF ToSet
  <2>3. /\ i \in DOMAIN t /\ t[i] = a
        /\ i < Len(q) + (Len(s) - j + 1)
    BY <1>1, <1>3, <2>1, <2>2
  <2> QED BY <2>2, <2>3, <1>4 DEF Ahead
<1> QED BY <1>3, <1>5, <1>6, <1>7, <1>8 DEF t

LEMMA TailHolds ==
    ASSUME NEW S, NEW q \in Seq(S), q # <<>>
    PROVE  /\ Tail(q) \in Seq(S)
           /\ Head(q) \in S
           /\ Head(q) \in ToSet(q)
           /\ ToSet(q) = ToSet(Tail(q)) \cup {Head(q)}
           /\ \A a, b : Ahead(q, a, b) /\ a # Head(q) => Ahead(Tail(q), a, b)
           /\ DOMAIN q = 1 .. Len(q) /\ Len(q) \in Nat \ {0}
           /\ Head(q) = q[1]
           /\ DOMAIN Tail(q) = 1 .. Len(q) - 1
           /\ \A i \in 1 .. Len(q) - 1 : Tail(q)[i] = q[i + 1]
<1>1. /\ DOMAIN q = 1 .. Len(q) /\ Len(q) \in Nat \ {0}
      /\ Head(q) = q[1] /\ q[1] \in S
  OBVIOUS
<1>2. /\ Tail(q) \in Seq(S)
      /\ DOMAIN Tail(q) = 1 .. Len(q) - 1
      /\ \A i \in 1 .. Len(q) - 1 : Tail(q)[i] = q[i + 1]
  BY HeadTailProperties, <1>1
<1> DEFINE t == Tail(q)
<1> HIDE DEF t
<1>3. \A i \in 1 .. Len(q) : i # 1 => i - 1 \in DOMAIN t /\ t[i - 1] = q[i]
  <2> SUFFICES ASSUME NEW i \in 1 .. Len(q), i # 1
               PROVE  i - 1 \in DOMAIN t /\ t[i - 1] = q[i]
    OBVIOUS
  <2>1. i - 1 \in 1 .. Len(q) - 1 /\ (i - 1) + 1 = i
    BY <1>1
  <2> QED BY <2>1, <1>2 DEF t
<1>4. ToSet(q) = ToSet(t) \cup {Head(q)}
  <2>1. ASSUME NEW x \in ToSet(q) PROVE x \in ToSet(t) \cup {Head(q)}
    BY <1>1, <1>3, <2>1 DEF ToSet
  <2>2. ASSUME NEW x \in ToSet(t) PROVE x \in ToSet(q)
    <3>1. PICK i \in 1 .. Len(q) - 1 : x = q[i + 1]
      BY <1>2, <2>2 DEF ToSet, t
    <3>2. i + 1 \in DOMAIN q
      BY <1>1
    <3> QED BY <3>1, <3>2 DEF ToSet
  <2>3. Head(q) \in ToSet(q)
    BY <1>1 DEF ToSet
  <2> QED BY <2>1, <2>2, <2>3
<1>5. ASSUME NEW a, NEW b, Ahead(q, a, b), a # Head(q) PROVE Ahead(t, a, b)
  <2>1. PICK i, j \in 1 .. Len(q) : i < j /\ q[i] = a /\ q[j] = b
    BY <1>1, <1>5 DEF Ahead
  <2>2. i # 1 /\ j # 1 /\ i - 1 < j - 1
    BY <1>1, <1>5, <2>1
  <2> QED BY <2>1, <2>2, <1>3 DEF Ahead
<1> QED BY <1>1, <1>2, <1>4, <1>5 DEF t

(***************************************************************************)
(* No key stands in two places: what each move of the queues does to that, *)
(* and to the jobs held.                                                   *)
(***************************************************************************)
Queues(q, R) == q \in Seq(Job) /\ R \in [Promise -> Seq(Job)]

LEMMA HeldPlaces ==
    ASSUME NEW q, NEW R, Queues(q, R)
    PROVE  /\ \A i \in DOMAIN q : q[i] \in Held(q, R) /\ q[i] \in Job
           /\ \A p \in Promise : \A i \in DOMAIN R[p] : R[p][i] \in Held(q, R) /\ R[p][i] \in Job
           /\ \A job \in Held(q, R) : /\ job \in Job
                                      /\ \/ \E i \in DOMAIN q : job = q[i]
                                         \/ \E p \in Promise : \E i \in DOMAIN R[p] : job = R[p][i]
<1>1. \A i \in DOMAIN q : q[i] \in Job
  BY DEF Queues
<1>2. \A p \in Promise : \A i \in DOMAIN R[p] : R[p][i] \in Job
  <2> TAKE p \in Promise
  <2>1. R[p] \in Seq(Job)
    BY DEF Queues
  <2> QED BY <2>1
<1> QED BY <1>1, <1>2 DEF Held, Waiting, ToSet

LEMMA AppendOne ==
    ASSUME NEW q, NEW R, Queues(q, R), NEW job \in Job
    PROVE  /\ Queues(Append(q, job), R)
           /\ Held(Append(q, job), R) = Held(q, R) \cup {job}
           /\ OneEach(q, R) /\ Key(job) \notin Keys(q, R) => OneEach(Append(q, job), R)
<1> DEFINE t == Append(q, job)
<1>1. /\ t \in Seq(Job)
      /\ ToSet(t) = ToSet(q) \cup {job}
  BY AppendHolds DEF Queues
<1>2. /\ DOMAIN q = 1 .. Len(q) /\ Len(q) \in Nat
      /\ DOMAIN t = 1 .. Len(q) + 1
      /\ \A i \in 1 .. Len(q) : t[i] = q[i]
      /\ t[Len(q) + 1] = job
  BY DEF Queues
<1> HIDE DEF t
<1>3. Queues(t, R) /\ Held(t, R) = Held(q, R) \cup {job}
  BY <1>1 DEF Queues, Held
<1>4. ASSUME OneEach(q, R), Key(job) \notin Keys(q, R)
      PROVE  OneEach(t, R)
  <2>1. \A i \in DOMAIN q : Key(q[i]) # Key(job)
    BY <1>4, HeldPlaces DEF Keys
  <2>2. \A p \in Promise : \A i \in DOMAIN R[p] : Key(R[p][i]) # Key(job)
    BY <1>4, HeldPlaces DEF Keys
  <2>3. \A i \in DOMAIN t : \/ i \in DOMAIN q /\ t[i] = q[i]
                            \/ i = Len(q) + 1 /\ t[i] = job
    <3> TAKE i \in DOMAIN t
    <3>1. i \in 1 .. Len(q) \/ i = Len(q) + 1
      BY <1>2
    <3>2. CASE i \in 1 .. Len(q)
      BY <3>2, <1>2
    <3>3. CASE i = Len(q) + 1
      BY <3>3, <1>2
    <3> QED BY <3>1, <3>2, <3>3
  <2>4. \A i, j \in DOMAIN t : Key(t[i]) = Key(t[j]) => i = j
    BY <1>4, <2>1, <2>3 DEF OneEach
  <2>5. \A i \in DOMAIN t, p \in Promise : \A j \in DOMAIN R[p] : Key(t[i]) # Key(R[p][j])
    BY <1>4, <2>2, <2>3 DEF OneEach
  <2> QED BY <1>4, <2>4, <2>5 DEF OneEach
<1> QED BY <1>3, <1>4 DEF t

Pushed(job, s) == <<job>> \o s

\* List p of R becomes s.
Moved(R, p, s, T) == T = [R EXCEPT ![p] = s]

LEMMA WaitOne ==
    ASSUME NEW q, NEW R, Queues(q, R), NEW job \in Job, NEW p \in Promise,
           NEW T, Moved(R, p, Pushed(job, R[p]), T)
    PROVE  /\ Queues(q, T)
           /\ ToSet(T[p]) = ToSet(R[p]) \cup {job}
           /\ T[p] # <<>>
           /\ \A o \in Promise \ {p} : T[o] = R[o]
           /\ Held(q, T) = Held(q, R) \cup {job}
           /\ OneEach(q, R) /\ Key(job) \notin Keys(q, R) => OneEach(q, T)
<1> DEFINE s == R[p]
           t == <<job>> \o R[p]
<1>1. s \in Seq(Job)
  BY DEF Queues
<1>2. /\ t \in Seq(Job)
      /\ ToSet(t) = ToSet(s) \cup {job}
      /\ t # <<>>
      /\ DOMAIN s = 1 .. Len(s) /\ Len(s) \in Nat
      /\ DOMAIN t = 1 .. Len(s) + 1
      /\ t[1] = job
      /\ \A i \in 1 .. Len(s) : t[i + 1] = s[i]
  BY <1>1, PrependHolds
<1>0. T = [R EXCEPT ![p] = t]
  BY DEF Moved, Pushed
<1> HIDE DEF t
<1>3. T[p] = t /\ DOMAIN T = Promise /\ \A o \in Promise \ {p} : T[o] = R[o]
  BY <1>0 DEF Queues
<1>4. Queues(q, T)
  <2>1. T = [o \in Promise |-> IF o = p THEN t ELSE R[o]]
    BY <1>0, <1>3 DEF Queues
  <2>2. \A o \in Promise : T[o] \in Seq(Job)
    BY <1>2, <1>3 DEF Queues
  <2> QED BY <2>1, <2>2 DEF Queues
<1>5. Held(q, T) = Held(q, R) \cup {job}
  <2>1. Waiting(T) = Waiting(R) \cup {job}
    <3>1. ToSet(T[p]) = ToSet(R[p]) \cup {job}
      BY <1>2, <1>3
    <3>2. ASSUME NEW x \in Waiting(T) PROVE x \in Waiting(R) \cup {job}
      <4>1. PICK o \in Promise : x \in ToSet(T[o])
        BY <3>2 DEF Waiting
      <4>2. CASE o = p
        BY <4>1, <4>2, <3>1 DEF Waiting
      <4>3. CASE o # p
        <5>1. T[o] = R[o]
          BY <4>3, <1>3
        <5> QED BY <4>1, <5>1 DEF Waiting
      <4> QED BY <4>2, <4>3
    <3>3. ASSUME NEW x \in Waiting(R) PROVE x \in Waiting(T)
      <4>1. PICK o \in Promise : x \in ToSet(R[o])
        BY <3>3 DEF Waiting
      <4>2. x \in ToSet(T[o])
        BY <4>1, <3>1, <1>3
      <4> QED BY <4>2 DEF Waiting
    <3>4. job \in Waiting(T)
      BY <3>1 DEF Waiting
    <3> QED BY <3>2, <3>3, <3>4
  <2> QED BY <2>1 DEF Held
<1>6. ASSUME OneEach(q, R), Key(job) \notin Keys(q, R)
      PROVE  OneEach(q, T)
  <2>1. \A i \in DOMAIN q : Key(q[i]) # Key(job)
    BY <1>6, HeldPlaces DEF Keys
  <2>2. \A o \in Promise : \A i \in DOMAIN R[o] : Key(R[o][i]) # Key(job)
    BY <1>6, HeldPlaces DEF Keys
  <2>3. \A i \in DOMAIN t : \/ i = 1 /\ t[i] = job
                            \/ i # 1 /\ i - 1 \in DOMAIN s /\ t[i] = s[i - 1] /\ i \in Int
    <3> TAKE i \in DOMAIN t
    <3>1. CASE i = 1
      BY <3>1, <1>2
    <3>2. CASE i # 1
      <4>1. i - 1 \in 1 .. Len(s) /\ (i - 1) + 1 = i /\ i \in Int
        BY <3>2, <1>2
      <4> QED BY <4>1, <3>2, <1>2
    <3> QED BY <3>1, <3>2
  <2>4. ASSUME NEW n \in Promise, NEW o \in Promise,
               NEW i \in DOMAIN T[n], NEW j \in DOMAIN T[o],
               Key(T[n][i]) = Key(T[o][j])
        PROVE  n = o /\ i = j
    <3>1. CASE n # p /\ o # p
      BY <3>1, <2>4, <1>3, <1>6 DEF OneEach
    <3>2. CASE n = p /\ o # p
      <4>1. i \in DOMAIN t /\ T[n][i] = t[i] /\ j \in DOMAIN R[o] /\ T[o][j] = R[o][j]
        BY <3>2, <1>3
      <4>2. i = 1 \/ (i - 1 \in DOMAIN R[p] /\ t[i] = R[p][i - 1])
        BY <4>1, <2>3
      <4>3. Key(t[i]) = Key(R[o][j])
        BY <4>1, <2>4
      <4>4. t[1] = job
        BY <1>2
      <4> QED BY <4>1, <4>2, <4>3, <4>4, <3>2, <2>2, <1>6 DEF OneEach
    <3>3. CASE n # p /\ o = p
      <4>1. j \in DOMAIN t /\ T[o][j] = t[j] /\ i \in DOMAIN R[n] /\ T[n][i] = R[n][i]
        BY <3>3, <1>3
      <4>2. j = 1 \/ (j - 1 \in DOMAIN R[p] /\ t[j] = R[p][j - 1])
        BY <4>1, <2>3
      <4>3. Key(t[j]) = Key(R[n][i])
        BY <4>1, <2>4
      <4>4. t[1] = job
        BY <1>2
      <4> QED BY <4>1, <4>2, <4>3, <4>4, <3>3, <2>2, <1>6 DEF OneEach
    <3>4. CASE n = p /\ o = p
      <4>1. i \in DOMAIN t /\ j \in DOMAIN t /\ Key(t[i]) = Key(t[j])
        BY <3>4, <1>3, <2>4
      <4>2. CASE i = 1 /\ j = 1
        BY <4>2, <3>4
      <4>3. CASE i = 1 /\ j # 1
        BY <4>1, <4>3, <2>3, <2>2
      <4>4. CASE i # 1 /\ j = 1
        BY <4>1, <4>4, <2>3, <2>2
      <4>5. CASE i # 1 /\ j # 1
        <5>1. i - 1 \in DOMAIN s /\ j - 1 \in DOMAIN s /\ i \in Int /\ j \in Int
                /\ Key(s[i - 1]) = Key(s[j - 1])
          BY <4>1, <4>5, <2>3
        <5>2. i - 1 = j - 1
          BY <5>1, <1>6 DEF OneEach
        <5> QED BY <5>1, <5>2, <3>4
      <4> QED BY <4>2, <4>3, <4>4, <4>5
    <3> QED BY <3>1, <3>2, <3>3, <3>4
  <2>5. ASSUME NEW i \in DOMAIN q, NEW o \in Promise, NEW j \in DOMAIN T[o]
        PROVE  Key(q[i]) # Key(T[o][j])
    <3>1. CASE o # p
      BY <3>1, <1>3, <1>6 DEF OneEach
    <3>2. CASE o = p
      <4>1. j \in DOMAIN t /\ T[o][j] = t[j]
        BY <3>2, <1>3
      <4>2. CASE j = 1
        BY <4>1, <4>2, <2>3, <2>1
      <4>3. CASE j # 1
        BY <4>1, <4>3, <2>3, <1>6 DEF OneEach
      <4> QED BY <4>2, <4>3
    <3> QED BY <3>1, <3>2
  <2> QED BY <1>6, <2>4, <2>5 DEF OneEach
<1> QED BY <1>2, <1>3, <1>4, <1>5, <1>6

\* The reactions s go to the end of q, oldest first.
Flushed(q, s) == q \o Reverse(s)

LEMMA FlushOne ==
    ASSUME NEW q, NEW R, Queues(q, R), NEW p \in Promise,
           NEW t, t = Flushed(q, R[p]),
           NEW T, Moved(R, p, <<>>, T)
    PROVE  /\ Queues(t, T)
           /\ ToSet(t) = ToSet(q) \cup ToSet(R[p])
           /\ T[p] = <<>>
           /\ \A o \in Promise \ {p} : T[o] = R[o]
           /\ Held(t, T) = Held(q, R)
           /\ OneEach(q, R) => OneEach(t, T)
<1> DEFINE s == R[p]
<1>1. s \in Seq(Job) /\ q \in Seq(Job)
  BY DEF Queues
<1>2. /\ t \in Seq(Job)
      /\ ToSet(t) = ToSet(q) \cup ToSet(s)
      /\ DOMAIN q = 1 .. Len(q) /\ Len(q) \in Nat
      /\ DOMAIN s = 1 .. Len(s) /\ Len(s) \in Nat
      /\ DOMAIN t = 1 .. Len(q) + Len(s)
      /\ \A i \in 1 .. Len(q) : t[i] = q[i]
      /\ \A i \in 1 .. Len(s) : t[Len(q) + i] = s[Len(s) - i + 1]
  <2>1. DOMAIN q = 1 .. Len(q) /\ Len(q) \in Nat /\ DOMAIN s = 1 .. Len(s) /\ Len(s) \in Nat
    BY <1>1
  <2>2. t = q \o Reverse(s)
    BY DEF Flushed
  <2> HIDE DEF s
  <2> QED BY <1>1, <2>1, <2>2, FlushHolds
<1>0. T = [R EXCEPT ![p] = <<>>]
  BY DEF Moved
<1>3. T[p] = <<>> /\ DOMAIN T = Promise /\ \A o \in Promise \ {p} : T[o] = R[o]
  BY <1>0 DEF Queues
<1>4. Queues(t, T)
  <2>1. T = [o \in Promise |-> IF o = p THEN <<>> ELSE R[o]]
    BY <1>0, <1>3 DEF Queues
  <2>2. <<>> \in Seq(Job)
    OBVIOUS
  <2>3. \A o \in Promise : T[o] \in Seq(Job)
    BY <1>3, <2>2 DEF Queues
  <2> QED BY <2>1, <2>3, <1>2 DEF Queues
<1>5. Held(t, T) = Held(q, R)
  <2>1. ToSet(<<>>) = {}
    BY DEF ToSet
  <2>2. \A x \in Held(t, T) : x \in Held(q, R)
    BY <1>2, <1>3, <2>1 DEF Waiting, Held
  <2>3. \A x \in Held(q, R) : x \in Held(t, T)
    BY <1>2, <1>3, <2>1 DEF Waiting, Held
  <2> QED BY <2>2, <2>3
<1>6. ASSUME OneEach(q, R)
      PROVE  OneEach(t, T)
  <2>1. \A i \in DOMAIN t :
           \/ i \in DOMAIN q /\ t[i] = q[i]
           \/ /\ i \notin DOMAIN q
              /\ Len(q) + Len(s) - i + 1 \in DOMAIN s
              /\ t[i] = s[Len(q) + Len(s) - i + 1]
    <3> TAKE i \in DOMAIN t
    <3>1. CASE i <= Len(q)
      BY <3>1, <1>2
    <3>2. CASE ~(i <= Len(q))
      <4>0. PICK m, n \in Nat : m = Len(q) /\ n = Len(s)
        BY <1>2
      <4>1. /\ i - Len(q) \in 1 .. Len(s) /\ Len(q) + (i - Len(q)) = i
            /\ Len(s) - (i - Len(q)) + 1 = Len(q) + Len(s) - i + 1
            /\ Len(q) + Len(s) - i + 1 \in 1 .. Len(s)
            /\ i \notin DOMAIN q
        <5>1. i \in 1 .. m + n /\ ~(i <= m)
          BY <3>2, <4>0, <1>2
        <5>2. /\ i - m \in 1 .. n /\ m + (i - m) = i
              /\ n - (i - m) + 1 = m + n - i + 1
              /\ m + n - i + 1 \in 1 .. n
              /\ i \notin 1 .. m
          <6> HIDE <4>0
          <6>1. i \in Int /\ 1 <= i /\ i <= m + n /\ m < i
            BY <5>1
          <6>2. i - m \in Int /\ 1 <= i - m /\ i - m <= n /\ m + (i - m) = i
            BY <6>1
          <6>3. n - (i - m) + 1 = m + n - i + 1
            BY <6>1
          <6>4. m + n - i + 1 \in Int /\ 1 <= m + n - i + 1 /\ m + n - i + 1 <= n
            BY <6>1
          <6> QED BY <6>1, <6>2, <6>3, <6>4
        <5> QED BY <5>2, <4>0, <1>2
      <4>2. t[Len(q) + (i - Len(q))] = s[Len(s) - (i - Len(q)) + 1]
        BY <4>1, <1>2
      <4> QED BY <4>1, <4>2, <1>2
    <3> QED BY <3>1, <3>2
  <2>2. ASSUME NEW i \in DOMAIN t, NEW j \in DOMAIN t, Key(t[i]) = Key(t[j])
        PROVE  i = j
    <3>1. CASE i \in DOMAIN q /\ j \in DOMAIN q
      BY <3>1, <2>1, <2>2, <1>6 DEF OneEach
    <3>2. CASE i \in DOMAIN q /\ j \notin DOMAIN q
      BY <3>2, <2>1, <2>2, <1>6 DEF OneEach
    <3>3. CASE i \notin DOMAIN q /\ j \in DOMAIN q
      BY <3>3, <2>1, <2>2, <1>6 DEF OneEach
    <3>4. CASE i \notin DOMAIN q /\ j \notin DOMAIN q
      <4> DEFINE k(x) == Len(q) + Len(s) - x + 1
      <4>1. k(i) \in DOMAIN s /\ t[i] = s[k(i)] /\ k(j) \in DOMAIN s /\ t[j] = s[k(j)]
        BY <3>4, <2>1
      <4> HIDE DEF k
      <4>2. k(i) = k(j)
        BY <4>1, <2>2, <1>6 DEF OneEach
      <4>3. PICK m, n \in Nat : m = Len(q) /\ n = Len(s)
        BY <1>2
      <4>4. i \in Int /\ j \in Int /\ m + n - i + 1 = m + n - j + 1
        BY <1>2, <4>2, <4>3 DEF k
      <4> QED BY SMTT(30), <4>3, <4>4
    <3> QED BY <3>1, <3>2, <3>3, <3>4
  <2>3. ASSUME NEW i \in DOMAIN t, NEW o \in Promise, NEW j \in DOMAIN T[o]
        PROVE  Key(t[i]) # Key(T[o][j])
    <3>1. o # p /\ T[o] = R[o]
      BY <1>3, <2>3
    <3>2. CASE i \in DOMAIN q
      BY <3>1, <3>2, <2>1, <1>6 DEF OneEach
    <3>3. CASE i \notin DOMAIN q
      BY <3>1, <3>3, <2>1, <1>6 DEF OneEach
    <3> QED BY <3>2, <3>3
  <2>4. ASSUME NEW n \in Promise, NEW o \in Promise,
               NEW i \in DOMAIN T[n], NEW j \in DOMAIN T[o],
               Key(T[n][i]) = Key(T[o][j])
        PROVE  n = o /\ i = j
    <3>1. n # p /\ T[n] = R[n] /\ o # p /\ T[o] = R[o]
      BY <1>3, <2>4
    <3> QED BY <3>1, <2>4, <1>6 DEF OneEach
  <2> QED BY <2>2, <2>3, <2>4 DEF OneEach
<1> QED BY <1>2, <1>3, <1>4, <1>5, <1>6

LEMMA TailOne ==
    ASSUME NEW q, NEW R, Queues(q, R), q # <<>>, OneEach(q, R)
    PROVE  /\ Queues(Tail(q), R)
           /\ Head(q) \in Job
           /\ Head(q) \in ToSet(q)
           /\ Head(q) \in Held(q, R)
           /\ Held(q, R) = Held(Tail(q), R) \cup {Head(q)}
           /\ Key(Head(q)) \notin Keys(Tail(q), R)
           /\ OneEach(Tail(q), R)
           /\ \A a : ~Ahead(q, a, Head(q))
<1> DEFINE t == Tail(q)
<1>1. /\ t \in Seq(Job) /\ Head(q) \in Job /\ Head(q) \in ToSet(q)
      /\ ToSet(q) = ToSet(t) \cup {Head(q)}
      /\ DOMAIN q = 1 .. Len(q) /\ Len(q) \in Nat \ {0}
      /\ Head(q) = q[1]
      /\ DOMAIN t = 1 .. Len(q) - 1
      /\ \A i \in 1 .. Len(q) - 1 : t[i] = q[i + 1]
  BY TailHolds DEF Queues
<1> HIDE DEF t
<1>2. Queues(t, R) /\ Held(q, R) = Held(t, R) \cup {Head(q)} /\ Head(q) \in Held(q, R)
  BY <1>1 DEF Queues, Held
<1>3. \A i \in DOMAIN t : i \in Int /\ i + 1 \in DOMAIN q /\ t[i] = q[i + 1] /\ i + 1 # 1
  BY <1>1
<1>4. 1 \in DOMAIN q
  BY <1>1
<1>5. Key(Head(q)) \notin Keys(t, R)
  <2> SUFFICES ASSUME NEW job \in Held(t, R), Key(job) = Key(q[1])
               PROVE  FALSE
    BY <1>1 DEF Keys
  <2>1. CASE \E i \in DOMAIN t : job = t[i]
    BY <2>1, <1>3, <1>4 DEF OneEach
  <2>2. CASE \E p \in Promise : \E i \in DOMAIN R[p] : job = R[p][i]
    BY <2>2, <1>4 DEF OneEach
  <2> QED BY <2>1, <2>2, <1>2, HeldPlaces
<1>6. OneEach(t, R)
  <2>1. \A i, j \in DOMAIN t : Key(t[i]) = Key(t[j]) => i + 1 = j + 1
    BY <1>3 DEF OneEach
  <2>2. \A i, j \in DOMAIN t : Key(t[i]) = Key(t[j]) => i = j
    BY <2>1, <1>3
  <2>3. \A i \in DOMAIN t, p \in Promise : \A j \in DOMAIN R[p] : Key(t[i]) # Key(R[p][j])
    BY <1>3 DEF OneEach
  <2> QED BY <2>2, <2>3 DEF OneEach
<1>7. ASSUME NEW a, Ahead(q, a, Head(q)) PROVE FALSE
  BY <1>7, <1>1, <1>4 DEF Ahead, OneEach
<1> QED BY <1>1, <1>2, <1>5, <1>6, <1>7 DEF t

(***************************************************************************)
(* The forms of a job.                                                     *)
(***************************************************************************)
LEMMA JobFields ==
    /\ \A n : UserJob(n)[1] = "user" /\ UserJob(n)[2] = n
    /\ \A p : ThenableJob(p)[1] = "thenable" /\ ThenableJob(p)[2] = p
    /\ \A p, o : /\ AdoptionBegin(p, o)[1] = "begin"
                 /\ AdoptionBegin(p, o)[2] = p
                 /\ AdoptionBegin(p, o)[3] = o
    /\ \A p, o : /\ AdoptionSettled(p, o)[1] = "settled"
                 /\ AdoptionSettled(p, o)[2] = p
                 /\ AdoptionSettled(p, o)[3] = o
    /\ \A p, i : /\ CombinatorSlot(p, i)[1] = "slot"
                 /\ CombinatorSlot(p, i)[2] = p
                 /\ CombinatorSlot(p, i)[3] = i
    /\ \A p : Route(p)[1] = "route" /\ Route(p)[2] = p
BY DEF UserJob, ThenableJob, AdoptionBegin, AdoptionSettled, CombinatorSlot, Route

LEMMA JobForms ==
    ASSUME NEW job \in Job
    PROVE  /\ job[1] \in {"user", "thenable", "begin", "settled", "slot"}
           /\ job[1] = "user" => job = UserJob(job[2]) /\ job[2] \in 1 .. MaxJobs
           /\ job[1] = "thenable" => job = ThenableJob(job[2]) /\ job[2] \in Promise
           /\ job[1] = "begin" => /\ job = AdoptionBegin(job[2], job[3])
                                  /\ job[2] \in Promise /\ job[3] \in Promise
           /\ job[1] = "settled" => /\ job = AdoptionSettled(job[2], job[3])
                                    /\ job[2] \in Promise /\ job[3] \in Promise
           /\ job[1] = "slot" => /\ job = CombinatorSlot(job[2], job[3])
                                 /\ job[2] \in Promise /\ job[3] \in 1 .. MaxElements
<1>1. CASE \E n \in 1 .. MaxJobs : job = UserJob(n)
  BY <1>1, JobFields
<1>2. CASE \E p \in Promise : job = ThenableJob(p)
  BY <1>2, JobFields
<1>3. CASE \E p, o \in Promise : job = AdoptionBegin(p, o)
  BY <1>3, JobFields
<1>4. CASE \E p, o \in Promise : job = AdoptionSettled(p, o)
  BY <1>4, JobFields
<1>5. CASE \E p \in Promise, i \in 1 .. MaxElements : job = CombinatorSlot(p, i)
  BY <1>5, JobFields
<1> QED BY <1>1, <1>2, <1>3, <1>4, <1>5 DEF Job

LEMMA JobMembers ==
    /\ \A n \in 1 .. MaxJobs : UserJob(n) \in Job /\ Key(UserJob(n)) = UserJob(n)
    /\ \A p \in Promise : ThenableJob(p) \in Job /\ Key(ThenableJob(p)) = Route(p)
    /\ \A p, o \in Promise : AdoptionBegin(p, o) \in Job /\ Key(AdoptionBegin(p, o)) = Route(p)
    /\ \A p, o \in Promise : AdoptionSettled(p, o) \in Job
                               /\ Key(AdoptionSettled(p, o)) = Route(p)
    /\ \A p \in Promise, i \in 1 .. MaxElements :
          CombinatorSlot(p, i) \in Job /\ Key(CombinatorSlot(p, i)) = CombinatorSlot(p, i)
    /\ \A job \in Job : job[1] \in {"user", "slot"} => Key(job) = job
    /\ \A job \in Job : job[1] \in {"begin", "settled", "thenable"} => Key(job) = Route(job[2])
<1>1. \A n \in 1 .. MaxJobs : UserJob(n) \in Job
  BY DEF Job
<1>2. \A p \in Promise : ThenableJob(p) \in Job
  BY DEF Job
<1>3. \A p, o \in Promise : AdoptionBegin(p, o) \in Job
  BY DEF Job
<1>4. \A p, o \in Promise : AdoptionSettled(p, o) \in Job
  BY DEF Job
<1>5. \A p \in Promise, i \in 1 .. MaxElements : CombinatorSlot(p, i) \in Job
  BY DEF Job
<1> QED BY <1>1, <1>2, <1>3, <1>4, <1>5, JobFields DEF Key

\* Two jobs with one key are the same job, or two ways to settle one promise.
LEMMA KeyMeans ==
    ASSUME NEW a \in Job, NEW b \in Job, Key(a) = Key(b)
    PROVE  \/ a = b
           \/ /\ a[1] \in {"begin", "settled", "thenable"}
              /\ b[1] \in {"begin", "settled", "thenable"}
              /\ a[2] = b[2]
<1>1. Key(a)[1] \in {"user", "slot", "route"}
  BY JobForms, JobMembers, JobFields
<1>2. CASE a[1] \in {"user", "slot"} /\ b[1] \in {"user", "slot"}
  BY <1>2, JobMembers
<1>3. CASE a[1] \in {"begin", "settled", "thenable"} /\ b[1] \in {"begin", "settled", "thenable"}
  BY <1>3, JobMembers, JobFields
<1>4. CASE a[1] \in {"user", "slot"} /\ b[1] \in {"begin", "settled", "thenable"}
  <2>1. Key(a) = a /\ Key(b) = Route(b[2])
    BY <1>4, JobMembers
  <2>2. Route(b[2])[1] = "route"
    BY JobFields
  <2> QED BY <2>1, <2>2, <1>4
<1>5. CASE a[1] \in {"begin", "settled", "thenable"} /\ b[1] \in {"user", "slot"}
  <2>1. Key(b) = b /\ Key(a) = Route(a[2])
    BY <1>5, JobMembers
  <2>2. Route(a[2])[1] = "route"
    BY JobFields
  <2> QED BY <2>1, <2>2, <1>5
<1> QED BY <1>2, <1>3, <1>4, <1>5, JobForms

(***************************************************************************)
(* The slots of a combinator.                                              *)
(***************************************************************************)
LEMMA SlotsExist ==
    ASSUME NEW p, NEW n \in Nat, NEW I \in SUBSET (1 .. n)
    PROVE  \E slots \in [1 .. Cardinality(I) -> {CombinatorSlot(p, i) : i \in I}] :
              \A j, k \in DOMAIN slots : j < k => slots[j][3] < slots[k][3]
<1> DEFINE up(i) == {j \in I : j <= i}
           rank == [i \in I |-> Cardinality(up(i))]
           m == Cardinality(I)
<1>0. \A i \in I : i \in Int
  OBVIOUS
<1>1. IsFiniteSet(I) /\ m \in Nat
  <2>1. IsFiniteSet(1 .. n)
    BY FS_Interval
  <2>2. IsFiniteSet(I)
    BY <2>1, FS_Subset
  <2> QED BY <2>2, FS_CardinalityType
<1>2. \A i \in I : /\ up(i) \subseteq I
                   /\ IsFiniteSet(up(i))
                   /\ Cardinality(up(i)) \in Nat
                   /\ Cardinality(up(i)) <= m
                   /\ Cardinality(up(i)) # 0
  <2> TAKE i \in I
  <2>1. up(i) \in SUBSET I /\ i \in up(i)
    OBVIOUS
  <2> HIDE DEF up
  <2>2. IsFiniteSet(up(i)) /\ Cardinality(up(i)) <= m
    BY <2>1, <1>1, FS_Subset
  <2>3. Cardinality(up(i)) \in Nat
    BY <2>2, FS_CardinalityType
  <2>4. Cardinality(up(i)) # 0
    BY <2>1, <2>2, FS_EmptySet
  <2> QED BY <2>1, <2>2, <2>3, <2>4
<1>3. ASSUME NEW i \in I, NEW j \in I, i < j
      PROVE  Cardinality(up(i)) < Cardinality(up(j))
  <2>0. i \in Int /\ j \in Int /\ \A k \in I : k <= i => k <= j
    BY <1>0, <1>3
  <2>1. up(i) \in SUBSET up(j) /\ j \in up(j) /\ j \notin up(i)
    <3>1. \A k \in up(i) : k \in up(j)
      BY <2>0
    <3>2. j \in up(j) /\ j \notin up(i)
      BY <1>3, <2>0
    <3> QED BY <3>1, <3>2
  <2>2. IsFiniteSet(up(j)) /\ Cardinality(up(i)) \in Nat /\ Cardinality(up(j)) \in Nat
    BY <1>2
  <2> HIDE DEF up
  <2>3. Cardinality(up(i)) <= Cardinality(up(j)) /\ Cardinality(up(j)) # Cardinality(up(i))
    BY <2>1, <2>2, FS_Subset
  <2> QED BY <2>2, <2>3
<1>4. rank \in Injection(I, 1 .. m)
  <2>1. \A i \in I : rank[i] \in 1 .. m
    BY <1>1, <1>2
  <2>2. \A i, j \in I : rank[i] = rank[j] => i = j
    <3> TAKE i, j \in I
    <3>1. i < j \/ j < i \/ i = j
      BY <1>0
    <3>2. rank[i] = Cardinality(up(i)) /\ rank[j] = Cardinality(up(j))
      OBVIOUS
    <3> HIDE DEF rank, up
    <3>3. Cardinality(up(i)) \in Nat /\ Cardinality(up(j)) \in Nat
      BY <1>2
    <3>4. CASE i < j
      <4>1. Cardinality(up(i)) < Cardinality(up(j))
        BY <3>4, <1>3
      <4> QED BY <3>2, <3>3, <4>1
    <3>5. CASE j < i
      <4>1. Cardinality(up(j)) < Cardinality(up(i))
        BY <3>5, <1>3
      <4> QED BY <3>2, <3>3, <4>1
    <3> QED BY <3>1, <3>4, <3>5
  <2>3. rank \in [I -> 1 .. m]
    BY <2>1
  <2> HIDE DEF rank
  <2> QED BY <2>2, <2>3 DEF Injection, IsInjective
<1>5. rank \in Surjection(I, 1 .. m)
  <2>1. IsFiniteSet(1 .. m) /\ Cardinality(1 .. m) = m
    BY <1>1, FS_Interval
  <2> HIDE DEF rank
  <2> QED BY <1>4, <2>1, FS_Injection
<1>6. \A k \in 1 .. m : \E i \in I : rank[i] = k
  <2> HIDE DEF rank
  <2> QED BY <1>5 DEF Surjection
<1> DEFINE at(k) == CHOOSE i \in I : rank[i] = k
           s == [k \in 1 .. m |-> CombinatorSlot(p, at(k))]
<1>7. \A k \in 1 .. m : at(k) \in I /\ rank[at(k)] = k
  BY <1>6
<1>8. \A i \in I : rank[i] = Cardinality(up(i))
  OBVIOUS
<1> HIDE DEF at, rank, up
<1>9. s \in [1 .. m -> {CombinatorSlot(p, i) : i \in I}]
  BY <1>7
<1>10. ASSUME NEW j \in DOMAIN s, NEW k \in DOMAIN s, j < k
       PROVE  s[j][3] < s[k][3]
  <2>1. j \in 1 .. m /\ k \in 1 .. m
    OBVIOUS
  <2>2. s[j][3] = at(j) /\ s[k][3] = at(k)
    BY <2>1, JobFields
  <2>3. at(j) \in I /\ at(k) \in I /\ at(j) \in Int /\ at(k) \in Int
    BY <2>1, <1>7, <1>0
  <2>4. CASE at(k) < at(j)
    BY <2>1, <2>3, <2>4, <1>3, <1>7, <1>8, <1>10, <1>2
  <2>5. CASE at(k) = at(j)
    BY <2>1, <2>5, <1>7, <1>10
  <2> QED BY <2>2, <2>3, <2>4, <2>5
<1> QED BY <1>9, <1>10

LEMMA SlotsHold ==
    ASSUME NEW p \in Promise, NEW I \in SUBSET (1 .. MaxElements)
    PROVE  /\ SlotsAt(p, I) \in Seq(Job)
           /\ ToSet(SlotsAt(p, I)) = {CombinatorSlot(p, i) : i \in I}
           /\ \A j, k \in DOMAIN SlotsAt(p, I) :
                 Key(SlotsAt(p, I)[j]) = Key(SlotsAt(p, I)[k]) => j = k
<1> DEFINE s == SlotsAt(p, I)
           m == Cardinality(I)
<1>1. /\ s \in [1 .. m -> {CombinatorSlot(p, i) : i \in I}]
      /\ \A j, k \in DOMAIN s : j < k => s[j][3] < s[k][3]
  <2>1. MaxElements \in Nat
    BY PromisesAssumption
  <2>2. \E slots \in [1 .. m -> {CombinatorSlot(p, i) : i \in I}] :
              \A j, k \in DOMAIN slots : j < k => slots[j][3] < slots[k][3]
    BY <2>1, SlotsExist
  <2>3. s = CHOOSE slots \in [1 .. m -> {CombinatorSlot(p, i) : i \in I}] :
              \A j, k \in DOMAIN slots : j < k => slots[j][3] < slots[k][3]
    BY DEF SlotsAt
  <2> HIDE DEF s, m
  <2> QED BY <2>2, <2>3, Zenon
<1>2. IsFiniteSet(I) /\ m \in Nat
  <2>1. IsFiniteSet(1 .. MaxElements)
    BY FS_Interval, PromisesAssumption
  <2>2. IsFiniteSet(I)
    BY <2>1, FS_Subset
  <2> QED BY <2>2, FS_CardinalityType
<1> HIDE DEF s
<1>3. \A j \in 1 .. m : /\ \E i \in I : s[j] = CombinatorSlot(p, i) /\ s[j][3] = i
                        /\ s[j][3] \in I /\ s[j] = CombinatorSlot(p, s[j][3])
                        /\ s[j] \in Job /\ Key(s[j]) = s[j]
  <2> TAKE j \in 1 .. m
  <2>1. PICK i \in I : s[j] = CombinatorSlot(p, i)
    BY <1>1
  <2>2. s[j][3] = i /\ i \in 1 .. MaxElements
    BY <2>1, JobFields
  <2> QED BY <2>1, <2>2, JobMembers
<1>4. s \in Seq(Job)
  <2>1. s \in [1 .. m -> Job]
    BY <1>1, <1>3
  <2> QED BY <2>1, <1>2
<1>5. \A j, k \in DOMAIN s : Key(s[j]) = Key(s[k]) => j = k
  <2> SUFFICES ASSUME NEW j \in 1 .. m, NEW k \in 1 .. m, s[j] = s[k]
               PROVE  j = k
    BY <1>1, <1>3
  <2>1. s[j][3] \in Int /\ s[j][3] = s[k][3]
    BY <1>3
  <2>2. ~(s[j][3] < s[k][3]) /\ ~(s[k][3] < s[j][3])
    BY <2>1
  <2> QED BY <2>2, <1>1
<1>6. ASSUME NEW i \in I PROVE CombinatorSlot(p, i) \in ToSet(s)
  <2> DEFINE f == [j \in 1 .. m |-> s[j][3]]
  <2>1. f \in Injection(1 .. m, I)
    <3>1. f \in [1 .. m -> I]
      BY <1>3
    <3>2. \A j, k \in 1 .. m : f[j] = f[k] => j = k
      <4> TAKE j, k \in 1 .. m
      <4> HAVE f[j] = f[k]
      <4>1. s[j] = s[k]
        BY <1>3
      <4> QED BY <4>1, <1>5, <1>1
    <3> HIDE DEF f
    <3> QED BY <3>1, <3>2 DEF Injection, IsInjective
  <2>2. Cardinality(1 .. m) = m
    BY <1>2, FS_Interval
  <2>3. f \in Surjection(1 .. m, I)
    <3> HIDE DEF f
    <3> QED BY <1>2, <2>1, <2>2, FS_Injection
  <2>4. \E j \in 1 .. m : f[j] = i
    <3> HIDE DEF f
    <3> QED BY <2>3, <1>6 DEF Surjection
  <2>5. \E j \in 1 .. m : s[j][3] = i
    BY <2>4
  <2> QED BY <2>5, <1>3, <1>1 DEF ToSet
<1>7. ToSet(s) = {CombinatorSlot(p, i) : i \in I}
  <2>1. \A x \in ToSet(s) : x \in {CombinatorSlot(p, i) : i \in I}
    BY <1>1 DEF ToSet
  <2> QED BY <2>1, <1>6
<1> QED BY <1>4, <1>5, <1>7 DEF s

LEMMA ConcatHolds ==
    ASSUME NEW S, NEW r \in Seq(S), NEW s \in Seq(S)
    PROVE  /\ r \o s \in Seq(S)
           /\ ToSet(r \o s) = ToSet(r) \cup ToSet(s)
           /\ \A a, b : Ahead(r, a, b) => Ahead(r \o s, a, b)
           /\ \A a, b : Ahead(s, a, b) => Ahead(r \o s, a, b)
           /\ Distinct(r) /\ Distinct(s) /\ KeysIn(r) \cap KeysIn(s) = {} => Distinct(r \o s)
<1> DEFINE t == r \o s
<1>1. /\ DOMAIN r = 1 .. Len(r) /\ Len(r) \in Nat
      /\ DOMAIN s = 1 .. Len(s) /\ Len(s) \in Nat
      /\ t \in Seq(S) /\ DOMAIN t = 1 .. Len(r) + Len(s)
      /\ \A i \in 1 .. Len(r) + Len(s) : t[i] = IF i <= Len(r) THEN r[i] ELSE s[i - Len(r)]
  OBVIOUS
<1> HIDE DEF t
<1>2. PICK m, n \in Nat : m = Len(r) /\ n = Len(s)
  BY <1>1
<1>3. \A i \in DOMAIN t : \/ i \in DOMAIN r /\ t[i] = r[i]
                          \/ /\ i \notin DOMAIN r
                             /\ i - m \in DOMAIN s
                             /\ t[i] = s[i - m]
  <2> TAKE i \in DOMAIN t
  <2>1. i \in 1 .. m + n /\ t[i] = IF i <= m THEN r[i] ELSE s[i - m]
    BY <1>1, <1>2
  <2>2. CASE i <= m
    <3>1. i \in 1 .. m
      BY <2>1, <2>2
    <3> QED BY <2>1, <2>2, <3>1, <1>1, <1>2
  <2>3. CASE ~(i <= m)
    <3>1. i \notin 1 .. m /\ i - m \in 1 .. n
      BY <2>1, <2>3
    <3> QED BY <2>1, <2>3, <3>1, <1>1, <1>2
  <2> QED BY <2>2, <2>3
<1>4. \A i \in DOMAIN r : i \in DOMAIN t /\ t[i] = r[i] /\ i \in Int
  <2> TAKE i \in DOMAIN r
  <2>1. i \in 1 .. m /\ i \in 1 .. m + n /\ i <= m
    BY <1>1, <1>2
  <2> QED BY <2>1, <1>1, <1>2
<1>5. \A i \in DOMAIN s : i + m \in DOMAIN t /\ t[i + m] = s[i] /\ i \in Int
  <2> TAKE i \in DOMAIN s
  <2>1. i \in 1 .. n /\ i + m \in 1 .. m + n /\ ~(i + m <= m) /\ (i + m) - m = i
    BY <1>1, <1>2
  <2> QED BY <2>1, <1>1, <1>2
<1>6. ToSet(t) = ToSet(r) \cup ToSet(s)
  <2>1. \A x \in ToSet(t) : x \in ToSet(r) \cup ToSet(s)
    BY <1>3 DEF ToSet
  <2>2. \A x \in ToSet(r) \cup ToSet(s) : x \in ToSet(t)
    BY <1>4, <1>5 DEF ToSet
  <2> QED BY <2>1, <2>2
<1>7. \A a, b : Ahead(r, a, b) => Ahead(t, a, b)
  BY <1>4 DEF Ahead
<1>8. ASSUME NEW a, NEW b, Ahead(s, a, b) PROVE Ahead(t, a, b)
  <2>1. PICK i, j \in DOMAIN s : i < j /\ s[i] = a /\ s[j] = b
    BY <1>8 DEF Ahead
  <2>2. i + m < j + m
    BY <1>5, <2>1
  <2> QED BY <2>1, <2>2, <1>5 DEF Ahead
<1>9. ASSUME Distinct(r), Distinct(s), KeysIn(r) \cap KeysIn(s) = {},
             NEW i \in DOMAIN t, NEW j \in DOMAIN t, Key(t[i]) = Key(t[j])
      PROVE  i = j
  <2>1. \A x \in DOMAIN r, y \in DOMAIN s : Key(r[x]) # Key(s[y])
    BY <1>9 DEF KeysIn, ToSet
  <2>2. CASE i \in DOMAIN r /\ j \in DOMAIN r
    BY <2>2, <1>9, <1>3 DEF Distinct
  <2>3. CASE i \in DOMAIN r /\ j \notin DOMAIN r
    BY <2>3, <2>1, <1>9, <1>3
  <2>4. CASE i \notin DOMAIN r /\ j \in DOMAIN r
    BY <2>4, <2>1, <1>9, <1>3
  <2>5. CASE i \notin DOMAIN r /\ j \notin DOMAIN r
    <3>1. i - m = j - m
      BY <2>5, <1>9, <1>3 DEF Distinct
    <3>2. i \in Int /\ j \in Int
      BY <1>1
    <3> QED BY <3>1, <3>2
  <2> QED BY <2>2, <2>3, <2>4, <2>5
<1>10. Distinct(r) /\ Distinct(s) /\ KeysIn(r) \cap KeysIn(s) = {} => Distinct(t)
  BY <1>9 DEF Distinct
<1> QED BY <1>1, <1>6, <1>7, <1>8, <1>10 DEF t

LEMMA ReverseHolds ==
    ASSUME NEW S, NEW s \in Seq(S)
    PROVE  /\ Reverse(s) \in Seq(S)
           /\ ToSet(Reverse(s)) = ToSet(s)
           /\ Distinct(s) => Distinct(Reverse(s))
<1>1. DOMAIN s = 1 .. Len(s) /\ Len(s) \in Nat
  OBVIOUS
<1>2. PICK n \in Nat : n = Len(s)
  BY <1>1
<1> DEFINE r == [i \in 1 .. n |-> s[(n - i) + 1]]
<1>3. Reverse(s) = r
  BY <1>2 DEF Reverse
<1>4. \A i \in 1 .. n : (n - i) + 1 \in 1 .. n /\ (n - ((n - i) + 1)) + 1 = i
  OBVIOUS
<1>5. r \in [1 .. n -> S]
  BY <1>4, <1>1, <1>2
<1>6. \A i \in 1 .. n : r[i] = s[(n - i) + 1]
  OBVIOUS
<1>7. DOMAIN r = 1 .. n
  OBVIOUS
<1> HIDE DEF r
<1>8. r \in Seq(S)
  BY <1>5
<1>9. ToSet(r) = ToSet(s)
  <2>1. \A x \in ToSet(r) : x \in ToSet(s)
    BY <1>1, <1>2, <1>4, <1>6, <1>7 DEF ToSet
  <2>2. ASSUME NEW x \in ToSet(s) PROVE x \in ToSet(r)
    <3>1. PICK i \in 1 .. n : x = s[i]
      BY <1>1, <1>2, <2>2 DEF ToSet
    <3>2. r[(n - i) + 1] = s[i] /\ (n - i) + 1 \in DOMAIN r
      BY <1>4, <1>6, <1>7
    <3> QED BY <3>1, <3>2 DEF ToSet
  <2> QED BY <2>1, <2>2
<1>10. ASSUME Distinct(s), NEW i \in DOMAIN r, NEW j \in DOMAIN r, Key(r[i]) = Key(r[j])
       PROVE  i = j
  <2>1. i \in 1 .. n /\ j \in 1 .. n
    BY <1>7
  <2>2. (n - i) + 1 = (n - j) + 1
    BY <1>1, <1>2, <1>4, <1>6, <1>10, <2>1 DEF Distinct
  <2> QED BY <2>1, <2>2
<1>11. Distinct(s) => Distinct(r)
  BY <1>10 DEF Distinct
<1> QED BY <1>3, <1>8, <1>9, <1>11

LEMMA OneEachMeans ==
    ASSUME NEW q, NEW R
    PROVE  OneEach(q, R) <=>
              /\ Distinct(q)
              /\ \A p \in Promise : Distinct(R[p])
              /\ \A o, p \in Promise : o # p => KeysIn(R[o]) \cap KeysIn(R[p]) = {}
              /\ \A p \in Promise : KeysIn(q) \cap KeysIn(R[p]) = {}
<1>1. ASSUME OneEach(q, R)
      PROVE  /\ Distinct(q)
             /\ \A p \in Promise : Distinct(R[p])
             /\ \A o, p \in Promise : o # p => KeysIn(R[o]) \cap KeysIn(R[p]) = {}
             /\ \A p \in Promise : KeysIn(q) \cap KeysIn(R[p]) = {}
  <2>1. Distinct(q)
    BY <1>1 DEF OneEach, Distinct
  <2>2. \A p \in Promise : Distinct(R[p])
    BY <1>1 DEF OneEach, Distinct
  <2>3. ASSUME NEW o \in Promise, NEW p \in Promise, o # p
        PROVE  KeysIn(R[o]) \cap KeysIn(R[p]) = {}
    <3>1. \A k \in KeysIn(R[o]) : \E i \in DOMAIN R[o] : k = Key(R[o][i])
      BY DEF KeysIn, ToSet
    <3>2. \A k \in KeysIn(R[p]) : \E i \in DOMAIN R[p] : k = Key(R[p][i])
      BY DEF KeysIn, ToSet
    <3> QED BY <3>1, <3>2, <2>3, <1>1 DEF OneEach
  <2>4. ASSUME NEW p \in Promise
        PROVE  KeysIn(q) \cap KeysIn(R[p]) = {}
    <3>1. \A k \in KeysIn(q) : \E i \in DOMAIN q : k = Key(q[i])
      BY DEF KeysIn, ToSet
    <3>2. \A k \in KeysIn(R[p]) : \E i \in DOMAIN R[p] : k = Key(R[p][i])
      BY DEF KeysIn, ToSet
    <3> QED BY <3>1, <3>2, <1>1 DEF OneEach
  <2> QED BY <2>1, <2>2, <2>3, <2>4
<1>2. ASSUME Distinct(q),
             \A p \in Promise : Distinct(R[p]),
             \A o, p \in Promise : o # p => KeysIn(R[o]) \cap KeysIn(R[p]) = {},
             \A p \in Promise : KeysIn(q) \cap KeysIn(R[p]) = {}
      PROVE  OneEach(q, R)
  <2>1. \A p \in Promise : \A i \in DOMAIN R[p] : Key(R[p][i]) \in KeysIn(R[p])
    BY DEF KeysIn, ToSet
  <2>2. \A i \in DOMAIN q : Key(q[i]) \in KeysIn(q)
    BY DEF KeysIn, ToSet
  <2>3. ASSUME NEW o \in Promise, NEW p \in Promise,
               NEW i \in DOMAIN R[o], NEW j \in DOMAIN R[p], Key(R[o][i]) = Key(R[p][j])
        PROVE  o = p /\ i = j
    <3>1. o = p
      BY <2>1, <2>3, <1>2
    <3> QED BY <3>1, <2>3, <1>2 DEF Distinct
  <2>4. ASSUME NEW i \in DOMAIN q, NEW p \in Promise, NEW j \in DOMAIN R[p]
        PROVE  Key(q[i]) # Key(R[p][j])
    BY <2>1, <2>2, <1>2
  <2>5. \A i, j \in DOMAIN q : Key(q[i]) = Key(q[j]) => i = j
    BY <1>2 DEF Distinct
  <2> QED BY <2>3, <2>4, <2>5 DEF OneEach
<1> QED BY <1>1, <1>2

\* The slots of a new combinator go to the queue for the elements that have
\* settled, and to the reactions of the others.
Shared(q, R, p, elements, pend, t, T) ==
    /\ t = q \o SlotsAt(p, {i \in DOMAIN elements : elements[i] \notin pend})
    /\ T = [o \in Promise |->
              Reverse(SlotsAt(p, {i \in DOMAIN elements :
                                    elements[i] = o /\ o \in pend})) \o R[o]]

SlotSet(p, I) == {CombinatorSlot(p, i) : i \in I}

\* What they then hold, and in which order.
Dealt(q, R, p, n, elements, pend, t, T) ==
    /\ Queues(t, T)
    /\ ToSet(t) = ToSet(q) \cup SlotSet(p, {j \in 1 .. n : elements[j] \notin pend})
    /\ \A o \in Promise :
          ToSet(T[o]) = ToSet(R[o]) \cup SlotSet(p, {j \in 1 .. n : elements[j] = o /\ o \in pend})
    /\ \A a, b : Ahead(q, a, b) => Ahead(t, a, b)
    /\ \A o \in Promise : \A a, b : Ahead(R[o], a, b) => Ahead(T[o], a, b)
    /\ Held(t, T) = Held(q, R) \cup SlotSet(p, 1 .. n)
    /\ OneEach(q, R) /\ (\A i \in 1 .. n : CombinatorSlot(p, i) \notin Held(q, R))
          => OneEach(t, T)

LEMMA SlotsMany ==
    ASSUME NEW q, NEW R, Queues(q, R), NEW p \in Promise,
           NEW n \in 0 .. MaxElements, NEW elements \in [1 .. n -> Promise],
           NEW pend \in SUBSET Promise, NEW t, NEW T, Shared(q, R, p, elements, pend, t, T)
    PROVE  Dealt(q, R, p, n, elements, pend, t, T)
<1> DEFINE In(o) == {i \in 1 .. n : elements[i] = o /\ o \in pend}
           Out == {i \in 1 .. n : elements[i] \notin pend}
           Slots(I) == {CombinatorSlot(p, i) : i \in I}
           r(o) == Reverse(SlotsAt(p, In(o)))
           u == SlotsAt(p, Out)
<1>1. DOMAIN elements = 1 .. n /\ 1 .. n \subseteq 1 .. MaxElements
  BY PromisesAssumption
<1>2. Out \in SUBSET (1 .. MaxElements) /\ \A o \in Promise : In(o) \in SUBSET (1 .. MaxElements)
  BY <1>1
<1>3. t = q \o u /\ T = [o \in Promise |-> r(o) \o R[o]]
  BY <1>1 DEF Shared
<1>4. u \in Seq(Job) /\ ToSet(u) = Slots(Out) /\ Distinct(u)
  <2> HIDE DEF Out
  <2> QED BY <1>2, SlotsHold DEF Distinct
<1>5. \A o \in Promise : r(o) \in Seq(Job) /\ ToSet(r(o)) = Slots(In(o)) /\ Distinct(r(o))
  <2> TAKE o \in Promise
  <2>1. In(o) \in SUBSET (1 .. MaxElements)
    BY <1>2
  <2> HIDE DEF In
  <2>2. SlotsAt(p, In(o)) \in Seq(Job) /\ ToSet(SlotsAt(p, In(o))) = Slots(In(o))
          /\ Distinct(SlotsAt(p, In(o)))
    BY <2>1, SlotsHold DEF Distinct
  <2> QED BY <2>2, ReverseHolds
<1> HIDE DEF r, u
<1>6. q \in Seq(Job) /\ DOMAIN R = Promise /\ \A o \in Promise : R[o] \in Seq(Job)
  BY DEF Queues
<1>7. /\ t \in Seq(Job)
      /\ ToSet(t) = ToSet(q) \cup Slots(Out)
      /\ \A a, b : Ahead(q, a, b) => Ahead(t, a, b)
      /\ Distinct(q) /\ KeysIn(q) \cap KeysIn(u) = {} => Distinct(t)
  <2>1. /\ q \o u \in Seq(Job)
        /\ ToSet(q \o u) = ToSet(q) \cup ToSet(u)
        /\ \A a, b : Ahead(q, a, b) => Ahead(q \o u, a, b)
        /\ Distinct(q) /\ Distinct(u) /\ KeysIn(q) \cap KeysIn(u) = {} => Distinct(q \o u)
    BY <1>4, <1>6, ConcatHolds
  <2> HIDE DEF Slots, Out
  <2> QED BY <2>1, <1>3, <1>4
<1>8. ASSUME NEW o \in Promise
      PROVE  /\ T[o] \in Seq(Job)
             /\ ToSet(T[o]) = ToSet(R[o]) \cup Slots(In(o))
             /\ \A a, b : Ahead(R[o], a, b) => Ahead(T[o], a, b)
             /\ Distinct(R[o]) /\ KeysIn(r(o)) \cap KeysIn(R[o]) = {} => Distinct(T[o])
  <2>1. T[o] = r(o) \o R[o] /\ r(o) \in Seq(Job) /\ R[o] \in Seq(Job)
          /\ ToSet(r(o)) = Slots(In(o)) /\ Distinct(r(o))
    BY <1>3, <1>5, <1>6
  <2>2. PICK x \in Seq(Job) : x = r(o)
    BY <2>1
  <2>3. PICK y \in Seq(Job) : y = R[o]
    BY <2>1
  <2>4. /\ x \o y \in Seq(Job)
        /\ ToSet(x \o y) = ToSet(x) \cup ToSet(y)
        /\ \A a, b : Ahead(y, a, b) => Ahead(x \o y, a, b)
        /\ Distinct(x) /\ Distinct(y) /\ KeysIn(x) \cap KeysIn(y) = {} => Distinct(x \o y)
    BY ConcatHolds
  <2> HIDE DEF Slots, In
  <2> QED BY <2>1, <2>2, <2>3, <2>4
<1>9. Queues(t, T)
  <2>1. T \in [Promise -> Seq(Job)]
    BY <1>8, <1>3
  <2> QED BY <2>1, <1>7 DEF Queues
<1>10. Held(t, T) = Held(q, R) \cup Slots(1 .. n)
  <2>1. ASSUME NEW x \in Held(t, T) PROVE x \in Held(q, R) \cup Slots(1 .. n)
    <3>1. CASE x \in ToSet(t)
      BY <3>1, <1>7 DEF Held
    <3>2. CASE x \in Waiting(T)
      <4>1. PICK o \in Promise : x \in ToSet(T[o])
        BY <3>2 DEF Waiting
      <4>2. x \in ToSet(R[o]) \/ x \in Slots(In(o))
        BY <4>1, <1>8
      <4> QED BY <4>2 DEF Held, Waiting
    <3> QED BY <3>1, <3>2, <2>1 DEF Held
  <2>2. ASSUME NEW x \in Held(q, R) PROVE x \in Held(t, T)
    <3>1. CASE x \in ToSet(q)
      BY <3>1, <1>7 DEF Held
    <3>2. CASE x \in Waiting(R)
      <4>1. PICK o \in Promise : x \in ToSet(R[o])
        BY <3>2 DEF Waiting
      <4>2. x \in ToSet(T[o])
        BY <4>1, <1>8
      <4> QED BY <4>2 DEF Held, Waiting
    <3> QED BY <3>1, <3>2, <2>2 DEF Held
  <2>3. ASSUME NEW i \in 1 .. n PROVE CombinatorSlot(p, i) \in Held(t, T)
    <3>1. CASE elements[i] \notin pend
      <4>1. CombinatorSlot(p, i) \in ToSet(t)
        BY <3>1, <1>7
      <4> QED BY <4>1 DEF Held
    <3>2. CASE elements[i] \in pend
      <4>1. elements[i] \in Promise /\ i \in In(elements[i])
        BY <3>2
      <4>2. CombinatorSlot(p, i) \in Slots(In(elements[i]))
        BY <4>1
      <4>3. ToSet(T[elements[i]]) = ToSet(R[elements[i]]) \cup Slots(In(elements[i]))
        BY <4>1, <1>8
      <4> QED BY <4>1, <4>2, <4>3 DEF Held, Waiting
    <3> QED BY <3>1, <3>2
  <2> QED BY <2>1, <2>2, <2>3
<1>11. ASSUME OneEach(q, R), \A i \in 1 .. n : CombinatorSlot(p, i) \notin Held(q, R)
       PROVE  OneEach(t, T)
  <2>1. \A i \in 1 .. n : Key(CombinatorSlot(p, i)) = CombinatorSlot(p, i)
                            /\ CombinatorSlot(p, i) \in Job
    BY <1>1, JobMembers
  <2>2. \A I \in SUBSET (1 .. n) : {Key(job) : job \in Slots(I)} = Slots(I)
    BY <2>1
  <2>3. KeysIn(u) = Slots(Out) /\ \A o \in Promise : KeysIn(r(o)) = Slots(In(o))
    BY <1>4, <1>5, <2>2 DEF KeysIn
  <2>4. ASSUME NEW i \in 1 .. n, NEW job \in Held(q, R)
        PROVE  Key(job) # CombinatorSlot(p, i)
    <3>1. job \in Job
      BY HeldPlaces
    <3>2. CASE Key(job) = CombinatorSlot(p, i)
      <4>1. Key(job) = Key(CombinatorSlot(p, i)) /\ CombinatorSlot(p, i)[1] = "slot"
        BY <3>2, <2>1, JobFields
      <4>2. job = CombinatorSlot(p, i)
        BY <4>1, <3>1, <2>1, KeyMeans
      <4> QED BY <4>2, <1>11
    <3> QED BY <3>2
  <2>5. \A I \in SUBSET (1 .. n) :
           /\ KeysIn(q) \cap Slots(I) = {}
           /\ \A o \in Promise : KeysIn(R[o]) \cap Slots(I) = {}
    BY <2>4 DEF KeysIn, Held, Waiting
  <2>6. /\ Distinct(q)
        /\ \A o \in Promise : Distinct(R[o])
        /\ \A o, v \in Promise : o # v => KeysIn(R[o]) \cap KeysIn(R[v]) = {}
        /\ \A o \in Promise : KeysIn(q) \cap KeysIn(R[o]) = {}
    BY <1>11, OneEachMeans
  <2>7. Out \in SUBSET (1 .. n) /\ \A o \in Promise : In(o) \in SUBSET (1 .. n)
    OBVIOUS
  <2>8. KeysIn(t) = KeysIn(q) \cup Slots(Out)
    <3>1. ToSet(t) = ToSet(q) \cup Slots(Out) /\ {Key(job) : job \in Slots(Out)} = Slots(Out)
      BY <1>7, <2>2, <2>7
    <3> HIDE DEF Slots, Out
    <3> QED BY <3>1 DEF KeysIn
  <2>9. \A o \in Promise : KeysIn(T[o]) = KeysIn(R[o]) \cup Slots(In(o))
    <3> TAKE o \in Promise
    <3>1. ToSet(T[o]) = ToSet(R[o]) \cup Slots(In(o)) /\ {Key(job) : job \in Slots(In(o))} = Slots(In(o))
      BY <1>8, <2>2, <2>7
    <3> HIDE DEF Slots, In
    <3> QED BY <3>1 DEF KeysIn
  <2>10. Distinct(t)
    BY <1>7, <2>3, <2>5, <2>6, <2>7
  <2>11. \A o \in Promise : Distinct(T[o])
    BY <1>8, <2>3, <2>5, <2>6, <2>7
  <2>12. \A i, j \in 1 .. n : CombinatorSlot(p, i) = CombinatorSlot(p, j) => i = j
    BY JobFields
  <2>13. \A o, v \in Promise : o # v => Slots(In(o)) \cap Slots(In(v)) = {}
    BY <2>12
  <2>14. \A o \in Promise : Slots(Out) \cap Slots(In(o)) = {}
    BY <2>12
  <2> HIDE DEF Slots, In, Out
  <2>15. \A o, v \in Promise : o # v => KeysIn(T[o]) \cap KeysIn(T[v]) = {}
    BY <2>5, <2>6, <2>7, <2>9, <2>13
  <2>16. \A o \in Promise : KeysIn(t) \cap KeysIn(T[o]) = {}
    BY <2>5, <2>6, <2>7, <2>8, <2>9, <2>14
  <2> QED BY <2>10, <2>11, <2>15, <2>16, OneEachMeans
<1> QED BY <1>7, <1>8, <1>9, <1>10, <1>11 DEF Dealt, SlotSet

(***************************************************************************)
(* The inductive invariant.  q is the microtask queue as the running job   *)
(* sees it: micro, or Tail(micro) once the job has been shifted off.       *)
(***************************************************************************)
\* What a promise that does not exist yet, or is of one kind, cannot have.
ShapeInv ==
    /\ DOMAIN values = Promise
    /\ Len(owner) <= MaxJobs
    /\ owner \in Seq(made \cup {None})
    /\ \A p \in Promise :
          /\ p \notin made => /\ Kind[p] = "combinator" /\ Pending(p) /\ value[p] = None
                              /\ sources[p] = <<>> /\ values[p] = None
          /\ p \in open => Kind[p] = "frame"
          /\ pairs[p] # {} => Kind[p] = "executor"
          /\ IsAll(p) => Kind[p] = "combinator"
          /\ \A pair \in pairs[p] : pair <= resolutions[p]
          /\ p \in adopting \/ after[p] # {} => Kind[p] # "combinator"
          /\ reactions[p] # <<>> => p \in made /\ Pending(p) /\ handled[p]

\* A job that is held is still to be done, for promises that exist; a hop or
\* a thenable job is for a promise that is still pending.
Fit(job) ==
    /\ job[1] = "user" => job[2] \in (1 .. Len(owner)) \ ran
    /\ job[1] \in {"begin", "settled", "thenable"} =>
          job[2] \in made /\ Pending(job[2]) /\ Kind[job[2]] # "combinator"
    /\ job[1] = "thenable" => Kind[job[2]] = "executor"
    /\ job[1] \in {"begin", "settled"} => job[3] \in made
    /\ job[1] = "slot" => /\ job[2] \in made /\ Kind[job[2]] = "combinator"
                          /\ job[3] \in DOMAIN sources[job[2]]

\* A job in the queue waits for nothing any more...
Ripe(job) ==
    /\ job[1] = "user" => owner[job[2]] = None \/ ~Pending(owner[job[2]])
    /\ job[1] = "settled" => ~Pending(job[3])
    /\ job[1] = "slot" => ~Pending(sources[job[2]][job[3]])

\* ...and one in p's reactions for p.
WaitsFor(job, p) ==
    /\ job[1] \notin {"begin", "thenable"}
    /\ job[1] = "user" => owner[job[2]] = p
    /\ job[1] = "settled" => job[3] = p
    /\ job[1] = "slot" => sources[job[2]][job[3]] = p

JobInv(q) ==
    /\ \A job \in Held(q, reactions) : Fit(job)
    /\ \A job \in ToSet(q) : Ripe(job)
    /\ \A p \in Promise : \A job \in ToSet(reactions[p]) : WaitsFor(job, p)

\* Exactly one of the three ways to settle a pending frame or executor promise
\* is left, and none of a settled one.
RouteInv(q) ==
    \A p \in Promise : Kind[p] # "combinator" =>
        /\ Pending(p) <=> p \in open \/ resolutions[p] \in pairs[p]
                            \/ Route(p) \in Keys(q, reactions)
        /\ ~(p \in open /\ resolutions[p] \in pairs[p])
        /\ ~(p \in open /\ Route(p) \in Keys(q, reactions))
        /\ ~(resolutions[p] \in pairs[p] /\ Route(p) \in Keys(q, reactions))

\* A job of the program that has not run is held.
UserInv(q) ==
    \A n \in (1 .. Len(owner)) \ ran : UserJob(n) \in Held(q, reactions)

\* Jobs of one owner stand in the order they were made; a list of reactions
\* is newest first.
OrderInv(q) ==
    /\ \A m, n \in 1 .. Len(owner) :
          m < n /\ owner[m] = owner[n] /\ m \notin ran /\ UserJob(n) \in ToSet(q) =>
              Ahead(q, UserJob(m), UserJob(n))
    /\ \A p \in Promise : \A m, n \in 1 .. Len(owner) :
          m < n /\ UserJob(m) \in ToSet(reactions[p]) /\ UserJob(n) \in ToSet(reactions[p]) =>
              Ahead(reactions[p], UserJob(n), UserJob(m))

\* While code is resolving p with a promise, the first hop is still queued.
AdoptingInv(q) ==
    \A p \in adopting : \E inner \in Promise : AdoptionBegin(p, inner) \in ToSet(q)

\* An adoption by p is under way.
HopHeld(p, q, R) ==
    \E inner \in Promise : \/ AdoptionBegin(p, inner) \in Held(q, R)
                           \/ AdoptionSettled(p, inner) \in Held(q, R)

\* The jobs behind p's adoption stand in the queue before its second hop.
AfterInv(q) ==
    \A p \in Promise : \A n \in after[p] \ ran :
        /\ UserJob(n) \in ToSet(q)
        /\ HopHeld(p, q, reactions)
        /\ \A inner \in Promise : AdoptionSettled(p, inner) \in ToSet(q) =>
              Ahead(q, UserJob(n), AdoptionSettled(p, inner))

\* The element a slot is for has not been stored.
SlotInv(q) ==
    \A p \in Promise : \A i \in 1 .. MaxElements :
        CombinatorSlot(p, i) \in Held(q, reactions) /\ IsAll(p) => values[p][i] = None

\* What AllMeansAll says of one combinator.
AllBody(p) ==
    /\ remaining[p] = Cardinality({i \in DOMAIN values[p] : values[p][i] = None})
    /\ \A i \in DOMAIN values[p] : values[p][i] # None =>
          state[sources[p][i]] = "fulfilled" /\ values[p][i] = value[sources[p][i]]
    /\ state[p] = "fulfilled" <=> remaining[p] = 0
    /\ state[p] = "rejected" =>
          \E i \in DOMAIN sources[p] : /\ state[sources[p][i]] = "rejected"
                                       /\ value[sources[p][i]] = value[p]

\* The two halves of RejectionsKnown: every unhandled rejection is on the list
\* (until a report takes it off), and what is on it is there once and rejected.
Remembered ==
    \A p \in made : state[p] = "rejected" /\ ~handled[p] =>
        \E i \in DOMAIN rejected : rejected[i] = p
Noted ==
    /\ \A p \in made : Observed(p) => handled[p]
    /\ \A i, j \in DOMAIN rejected : rejected[i] = rejected[j] => i = j
    /\ \A i \in DOMAIN rejected : state[rejected[i]] = "rejected"

Inv ==
    /\ TypeOK
    /\ ShapeInv
    /\ JobInv(micro)
    /\ OneEach(micro, reactions)
    /\ RouteInv(micro)
    /\ UserInv(micro)
    /\ OrderInv(micro)
    /\ AdoptingInv(micro)
    /\ AfterInv(micro)
    /\ SlotInv(micro)
    /\ SettlementCarried
    /\ AllMeansAll
    /\ Noted

LEMMA OneKey ==
    ASSUME NEW q, NEW R, Queues(q, R), OneEach(q, R),
           NEW a \in Held(q, R), NEW b \in Held(q, R), Key(a) = Key(b)
    PROVE  a = b
<1>1. CASE (\E i \in DOMAIN q : a = q[i]) /\ (\E i \in DOMAIN q : b = q[i])
  BY <1>1 DEF OneEach
<1>2. CASE /\ \E i \in DOMAIN q : a = q[i]
           /\ \E p \in Promise : \E i \in DOMAIN R[p] : b = R[p][i]
  BY <1>2 DEF OneEach
<1>3. CASE /\ \E p \in Promise : \E i \in DOMAIN R[p] : a = R[p][i]
           /\ \E i \in DOMAIN q : b = q[i]
  BY <1>3 DEF OneEach
<1>4. CASE /\ \E p \in Promise : \E i \in DOMAIN R[p] : a = R[p][i]
           /\ \E p \in Promise : \E i \in DOMAIN R[p] : b = R[p][i]
  BY <1>4 DEF OneEach
<1> QED BY <1>1, <1>2, <1>3, <1>4, HeldPlaces

LEMMA HeldWhere ==
    /\ \A q, R : \A job \in ToSet(q) : job \in Held(q, R)
    /\ \A q, R : \A p \in Promise : \A job \in ToSet(R[p]) : job \in Held(q, R)
    /\ \A q, R : \A job \in Held(q, R) :
          job \in ToSet(q) \/ \E p \in Promise : job \in ToSet(R[p])
    /\ \A q, R : \A job \in Held(q, R) : Key(job) \in Keys(q, R)
BY DEF Held, Waiting, Keys

\* A promise's route is held as a hop or a thenable job.
LEMMA RouteHeld ==
    ASSUME NEW q, NEW R, Queues(q, R), NEW p
    PROVE  Route(p) \in Keys(q, R) <=>
              \E job \in Held(q, R) : job[1] \in {"begin", "settled", "thenable"} /\ job[2] = p
<1>1. \A job \in Held(q, R) : job \in Job
  BY HeldPlaces
<1>2. ASSUME Route(p) \in Keys(q, R)
      PROVE  \E job \in Held(q, R) : job[1] \in {"begin", "settled", "thenable"} /\ job[2] = p
  <2>1. PICK job \in Held(q, R) : Key(job) = Route(p)
    BY <1>2 DEF Keys
  <2>2. Route(p)[1] = "route" /\ Route(p)[2] = p
    BY JobFields
  <2>3. CASE job[1] \in {"user", "slot"}
    BY <2>1, <2>2, <2>3, <1>1, JobMembers
  <2>4. CASE job[1] \in {"begin", "settled", "thenable"}
    <3>1. Route(job[2]) = Route(p) /\ Route(job[2])[2] = job[2]
      BY <2>1, <2>4, <1>1, JobMembers, JobFields
    <3> QED BY <2>4, <3>1, <2>2
  <2> QED BY <2>3, <2>4, <1>1, JobForms
<1>3. ASSUME NEW job \in Held(q, R),
             job[1] \in {"begin", "settled", "thenable"}, job[2] = p
      PROVE  Route(p) \in Keys(q, R)
  BY <1>1, <1>3, JobMembers DEF Keys
<1> QED BY <1>2, <1>3

LEMMA HopsKept ==
    ASSUME NEW q, NEW R, NEW t, NEW T, Held(q, R) \subseteq Held(t, T),
           NEW p, HopHeld(p, q, R)
    PROVE  HopHeld(p, t, T)
BY DEF HopHeld

LEMMA SourcesTyped ==
    ASSUME TypeOK
    PROVE  \A p \in Promise : /\ sources[p] \in Seq(made)
                              /\ Len(sources[p]) \in 0 .. MaxElements
                              /\ DOMAIN sources[p] = 1 .. Len(sources[p])
                              /\ \A i \in DOMAIN sources[p] : /\ sources[p][i] \in made
                                                              /\ sources[p][i] \in Promise
                                                              /\ i \in 1 .. MaxElements
<1> TAKE p \in Promise
<1>1. sources[p] \in Seq(made) /\ Len(sources[p]) <= MaxElements /\ made \subseteq Promise
  BY DEF TypeOK
<1>2. Len(sources[p]) \in Nat /\ DOMAIN sources[p] = 1 .. Len(sources[p])
  BY <1>1
<1>3. \A i \in DOMAIN sources[p] : sources[p][i] \in made
  BY <1>1
<1> QED BY <1>1, <1>2, <1>3, PromisesAssumption

LEMMA InvQueues ==
    ASSUME Inv
    PROVE  /\ Queues(micro, reactions)
           /\ \A job \in Held(micro, reactions) : job \in Job /\ Fit(job)
           /\ \A p \in Promise : reactions[p] \in Seq(Job)
           /\ Len(owner) \in Nat
           /\ owner \in Seq(Promise \cup {None})
<1>1. Queues(micro, reactions)
  BY DEF Inv, TypeOK, Queues
<1>2. \A job \in Held(micro, reactions) : job \in Job
  BY <1>1, HeldPlaces
<1> QED BY <1>1, <1>2 DEF Inv, TypeOK, JobInv

\* A job of the program that is queued or waiting has been made.
LEMMA UserHeld ==
    ASSUME NEW q, \A job \in Held(q, reactions) : Fit(job), NEW n, UserJob(n) \in Held(q, reactions)
    PROVE  n \in (1 .. Len(owner)) \ ran
<1>1. UserJob(n)[1] = "user" /\ UserJob(n)[2] = n
  BY JobFields
<1> QED BY <1>1 DEF Fit

LEMMA FreshUser ==
    ASSUME Inv, NextJob <= MaxJobs
    PROVE  /\ NextJob \in 1 .. MaxJobs
           /\ NextJob \notin ran
           /\ UserJob(NextJob) \in Job
           /\ UserJob(NextJob) \notin Held(micro, reactions)
           /\ Key(UserJob(NextJob)) = UserJob(NextJob)
           /\ Key(UserJob(NextJob)) \notin Keys(micro, reactions)
<1>1. NextJob = Len(owner) + 1 /\ NextJob \in 1 .. MaxJobs /\ NextJob \notin 1 .. Len(owner)
  BY InvQueues, PromisesAssumption DEF NextJob
<1>2. NextJob \notin ran
  BY <1>1 DEF Inv, TypeOK
<1>3. UserJob(NextJob) \in Job /\ Key(UserJob(NextJob)) = UserJob(NextJob)
  BY <1>1, JobMembers
<1>4. UserJob(NextJob) \notin Held(micro, reactions)
  <2> SUFFICES ASSUME UserJob(NextJob) \in Held(micro, reactions) PROVE FALSE
    OBVIOUS
  <2>1. NextJob \in 1 .. Len(owner)
    BY InvQueues, UserHeld
  <2> QED BY <2>1, <1>1
<1>5. ASSUME NEW job \in Held(micro, reactions), Key(job) = Key(UserJob(NextJob))
      PROVE  FALSE
  <2>1. UserJob(NextJob)[1] = "user"
    BY JobFields
  <2>2. job = UserJob(NextJob)
    BY <1>3, <1>5, <2>1, KeyMeans, InvQueues
  <2> QED BY <2>2, <1>4
<1> QED BY <1>1, <1>2, <1>3, <1>4, <1>5 DEF Keys

\* The order two jobs of the program stand in depends only on their places.
LEMMA UserJobsDiffer ==
    /\ \A m, n : UserJob(m) = UserJob(n) => m = n
    /\ \A m, p, o : UserJob(m) # AdoptionBegin(p, o) /\ UserJob(m) # AdoptionSettled(p, o)
    /\ \A m, p : UserJob(m) # ThenableJob(p) /\ UserJob(m) # Route(p)
    /\ \A m, p, i : UserJob(m) # CombinatorSlot(p, i)
    /\ \A p, o, i, r : /\ CombinatorSlot(r, i) # AdoptionBegin(p, o)
                       /\ CombinatorSlot(r, i) # AdoptionSettled(p, o)
                       /\ CombinatorSlot(r, i) # ThenableJob(p)
                       /\ CombinatorSlot(r, i) # Route(p)
    /\ \A p, o, r : AdoptionBegin(p, o) # ThenableJob(r) /\ AdoptionSettled(p, o) # ThenableJob(r)
    /\ \A p, o, r, v : AdoptionBegin(p, o) # AdoptionSettled(r, v)
BY DEF UserJob, ThenableJob, AdoptionBegin, AdoptionSettled, CombinatorSlot, Route

LEMMA InitInv == Init => Inv
<1> SUFFICES ASSUME Init PROVE Inv
  OBVIOUS
<1> USE PromisesAssumption DEF Init
<1>1. ToSet(<<>>) = {} /\ Held(micro, reactions) = {} /\ Keys(micro, reactions) = {}
        /\ \A p \in Promise : reactions[p] = <<>> /\ ToSet(reactions[p]) = {}
  BY DEF ToSet, Held, Waiting, Keys
<1>2. TypeOK
  <2>1. /\ state \in [Promise -> {"pending", "fulfilled", "rejected"}]
        /\ value \in [Promise -> Promise \cup {None}]
        /\ handled \in [Promise -> BOOLEAN]
        /\ reactions \in [Promise -> Seq(Job)]
        /\ resolutions \in [Promise -> 0 .. PairMax]
        /\ sources \in [Promise -> Seq(made)]
    OBVIOUS
  <2>2. pairs \in [Promise -> SUBSET (0 .. PairMax)]
    OBVIOUS
  <2>3. open \subseteq made /\ made \subseteq Promise /\ remaining \in [Promise -> 0 .. MaxElements]
    OBVIOUS
  <2>4. \A p \in Promise : Len(sources[p]) <= MaxElements /\ ~IsAll(p)
    BY DEF IsAll
  <2>5. ran \subseteq 1 .. Len(owner) /\ after \in [Promise -> SUBSET (1 .. MaxJobs)]
    OBVIOUS
  <2>6. /\ micro \in Seq(Job) /\ rejected \in Seq(made) /\ aborted \in BOOLEAN
        /\ owner \in Seq(Promise \cup {None}) /\ adopting \cup adopted \subseteq made
    <3>1. \A S : <<>> \in Seq(S)
      OBVIOUS
    <3> QED BY <3>1, Zenon
  <2> HIDE DEF Init
  <2> QED BY <2>1, <2>2, <2>3, <2>4, <2>5, <2>6 DEF TypeOK
<1>3. ShapeInv
  <2>1. owner \in Seq(made \cup {None})
    <3>1. \A S : <<>> \in Seq(S)
      OBVIOUS
    <3> QED BY <3>1, Zenon
  <2> QED BY <2>1 DEF ShapeInv, Pending, Kinds, IsAll
<1>4. JobInv(micro)
  BY <1>1 DEF JobInv
<1>5. OneEach(micro, reactions)
  BY DEF OneEach
<1>6. RouteInv(micro)
  <2> SUFFICES ASSUME NEW p \in Promise, Kind[p] # "combinator"
               PROVE  /\ Pending(p)
                      /\ Route(p) \notin Keys(micro, reactions)
                      /\ p \in open \/ resolutions[p] \in pairs[p]
                      /\ ~(p \in open /\ resolutions[p] \in pairs[p])
    BY DEF RouteInv
  <2> QED BY <1>1 DEF Pending, Kinds
<1>7. UserInv(micro)
  BY DEF UserInv
<1>8. OrderInv(micro)
  BY DEF OrderInv
<1>9. AdoptingInv(micro) /\ AfterInv(micro)
  BY DEF AdoptingInv, AfterInv
<1>10. SlotInv(micro)
  BY <1>1 DEF SlotInv
<1>11. SettlementCarried
  BY DEF SettlementCarried, Pending
<1>12. AllMeansAll
  BY DEF AllMeansAll, IsAll
<1>13. Noted
  BY DEF Noted, Observed
<1> QED BY <1>2, <1>3, <1>4, <1>5, <1>6, <1>7, <1>8, <1>9, <1>10, <1>11, <1>12, <1>13 DEF Inv

LEMMA AllMeans == AllMeansAll <=> \A p \in made : IsAll(p) => AllBody(p)
BY DEF AllMeansAll, AllBody

\* What is settled stays: what AllMeansAll says of p does too.
LEMMA AllBodyKept ==
    ASSUME TypeOK, NEW p \in Promise, IsAll(p), AllBody(p),
           UNCHANGED <<values[p], remaining[p], sources[p], state[p], value[p]>>,
           \A o \in Promise : state[o] \in {"fulfilled", "rejected"} =>
              state'[o] = state[o] /\ value'[o] = value[o]
    PROVE  AllBody(p)'
<1>0. /\ DOMAIN values[p] = DOMAIN sources[p]
      /\ \A i \in DOMAIN sources[p] : sources[p][i] \in Promise
  <2>1. values[p] \in Seq(Promise \cup {None}) /\ Len(values[p]) = Len(sources[p])
    BY DEF TypeOK
  <2> QED BY <2>1, SourcesTyped
<1>1. {i \in DOMAIN values'[p] : values'[p][i] = None} = {i \in DOMAIN values[p] : values[p][i] = None}
  OBVIOUS
<1>2. remaining'[p] = Cardinality({i \in DOMAIN values'[p] : values'[p][i] = None})
  BY <1>1 DEF AllBody
<1>3. \A i \in DOMAIN values'[p] : values'[p][i] # None =>
         state'[sources'[p][i]] = "fulfilled" /\ values'[p][i] = value'[sources'[p][i]]
  BY <1>0 DEF AllBody
<1>4. state'[p] = "rejected" =>
         \E i \in DOMAIN sources'[p] : /\ state'[sources'[p][i]] = "rejected"
                                       /\ value'[sources'[p][i]] = value'[p]
  BY <1>0 DEF AllBody
<1>5. state'[p] = "fulfilled" <=> remaining'[p] = 0
  BY DEF AllBody
<1> QED BY <1>2, <1>3, <1>4, <1>5 DEF AllBody

LEMMA AllUnchanged ==
    ASSUME AllMeansAll, TypeOK,
           UNCHANGED <<state, value, values, remaining, sources, made>>
    PROVE  AllMeansAll'
<1>1. ASSUME NEW p \in made, IsAll(p)' PROVE AllBody(p)'
  <2>1. p \in Promise /\ IsAll(p) /\ AllBody(p)
    BY <1>1, AllMeans DEF IsAll, TypeOK
  <2> QED BY <2>1, AllBodyKept
<1>2. \A p \in made' : IsAll(p)' => AllBody(p)'
  BY <1>1
<1> QED BY <1>2 DEF AllMeansAll, AllBody

(***************************************************************************)
(* The program makes a job.                                                *)
(***************************************************************************)
LEMMA MadeJob ==
    ASSUME Inv, NEW p \in Promise \cup {None}, NEW queued \in BOOLEAN, MakeJob(p, queued)
    PROVE  /\ owner' \in Seq(Promise \cup {None})
           /\ Len(owner') = NextJob
           /\ 1 .. Len(owner') = (1 .. Len(owner)) \cup {NextJob}
           /\ NextJob \notin 1 .. Len(owner)
           /\ \A m \in 1 .. Len(owner) : owner'[m] = owner[m] /\ m < NextJob
           /\ owner'[NextJob] = p
           /\ ran' = ran /\ ran \subseteq 1 .. Len(owner)
           /\ adopting' = adopting /\ adopted' = adopted
           /\ NextJob \in 1 .. MaxJobs
           /\ after' \in [Promise -> SUBSET (1 .. MaxJobs)]
           /\ \A o \in Promise : /\ after[o] \subseteq 1 .. Len(owner)
                                 /\ after'[o] \subseteq after[o] \cup {NextJob}
                                 /\ NextJob \in after'[o] => queued /\ o \in adopting
<1> USE DEF MakeJob
<1>1. NextJob = Len(owner) + 1 /\ Len(owner) \in Nat /\ owner \in Seq(Promise \cup {None})
  BY InvQueues DEF NextJob
<1>2. NextJob \in 1 .. MaxJobs
  BY FreshUser
<1>3. /\ owner' \in Seq(Promise \cup {None})
      /\ Len(owner') = NextJob
      /\ \A m \in 1 .. Len(owner) : owner'[m] = owner[m] /\ m < NextJob
      /\ owner'[NextJob] = p
  BY <1>1
<1>4. 1 .. Len(owner') = (1 .. Len(owner)) \cup {NextJob} /\ NextJob \notin 1 .. Len(owner)
  BY <1>1, <1>3
<1>5. ran' = ran /\ adopting' = adopting /\ adopted' = adopted /\ ran \subseteq 1 .. Len(owner)
  BY DEF Inv, TypeOK
<1>6. ASSUME NEW o \in Promise PROVE after[o] \subseteq 1 .. Len(owner)
  <2> SUFFICES ASSUME NEW n \in after[o], n \notin ran PROVE n \in 1 .. Len(owner)
    BY <1>5
  <2>1. UserJob(n) \in ToSet(micro)
    BY DEF Inv, AdoptingInv, AfterInv
  <2>2. UserJob(n) \in Held(micro, reactions)
    BY <2>1, HeldWhere
  <2> QED BY <2>2, InvQueues, UserHeld
<1>7. after \in [Promise -> SUBSET (1 .. MaxJobs)]
  BY DEF Inv, TypeOK
<1>8. after' \in [Promise -> SUBSET (1 .. MaxJobs)]
  <2>1. CASE queued
    <3>1. after' = [o \in Promise |->
                      IF o \in adopting THEN after[o] \cup {NextJob} ELSE after[o]]
      BY <2>1
    <3> QED BY <3>1, <1>2, <1>7
  <2>2. CASE ~queued
    BY <2>2, <1>7
  <2> QED BY <2>1, <2>2
<1>9. \A o \in Promise : /\ after'[o] \subseteq after[o] \cup {NextJob}
                         /\ NextJob \in after'[o] => queued /\ o \in adopting
  BY <1>4, <1>6
<1> QED BY <1>2, <1>3, <1>4, <1>5, <1>6, <1>8, <1>9

\* A job that goes straight to the queue.
LEMMA QueuedJob ==
    ASSUME Inv, NEW p \in Promise \cup {None}, MakeJob(p, TRUE),
           p = None \/ ~Pending(p),
           micro' = Append(micro, UserJob(NextJob)),
           UNCHANGED <<reactions, state, made, sources, values, open, pairs, resolutions>>
    PROVE  /\ Queues(micro', reactions')
           /\ JobInv(micro)'
           /\ OneEach(micro, reactions)'
           /\ RouteInv(micro)'
           /\ UserInv(micro)'
           /\ OrderInv(micro)'
           /\ AdoptingInv(micro)' /\ AfterInv(micro)'
           /\ SlotInv(micro)'
<1>1. PICK k \in 1 .. MaxJobs : k = NextJob
  BY MadeJob
<1>2. PICK u \in Job : u = UserJob(k) /\ u[1] = "user" /\ u[2] = k /\ Key(u) = u
  BY <1>1, JobMembers, JobFields
<1>3. u \notin Held(micro, reactions) /\ Key(u) \notin Keys(micro, reactions)
  BY <1>1, <1>2, FreshUser DEF MakeJob
<1>4. micro' = Append(micro, u) /\ reactions' = reactions
  BY <1>1, <1>2
<1>5. Queues(micro, reactions) /\ OneEach(micro, reactions) /\ micro \in Seq(Job)
  BY InvQueues DEF Inv, TypeOK
<1>6. /\ Queues(micro', reactions')
      /\ Held(micro', reactions') = Held(micro, reactions) \cup {u}
      /\ OneEach(micro', reactions')
  BY <1>3, <1>4, <1>5, AppendOne
<1>7. /\ ToSet(micro') = ToSet(micro) \cup {u}
      /\ \A a, b : Ahead(micro, a, b) => Ahead(micro', a, b)
      /\ \A a \in ToSet(micro) : Ahead(micro', a, u)
  BY <1>4, <1>5, AppendHolds
<1>8. /\ Len(owner') = k
      /\ 1 .. Len(owner') = (1 .. Len(owner)) \cup {k}
      /\ k \notin 1 .. Len(owner)
      /\ \A m \in 1 .. Len(owner) : owner'[m] = owner[m] /\ m < k
      /\ owner'[k] = p
      /\ ran' = ran /\ ran \subseteq 1 .. Len(owner)
      /\ adopting' = adopting
      /\ \A o \in Promise : after'[o] \subseteq after[o] \cup {k}
      /\ \A o \in Promise : k \in after'[o] => o \in adopting
  BY <1>1, MadeJob
<1>9. Keys(micro', reactions') = Keys(micro, reactions) \cup {u}
  BY <1>2, <1>6 DEF Keys
<1>10. \A x \in Held(micro, reactions) : x \in Job /\ Fit(x)
  BY InvQueues
<1>11. JobInv(micro)'
  <2>1. \A x \in Held(micro, reactions) : Fit(x)'
    BY <1>10, <1>8 DEF Fit, Pending
  <2>2. Fit(u)'
    BY <1>2, <1>8 DEF Fit
  <2>3. \A x \in Held(micro, reactions) : x[1] = "user" => owner'[x[2]] = owner[x[2]]
    BY <1>10, <1>8 DEF Fit
  <2>4. \A x \in ToSet(micro) : Ripe(x)'
    BY <2>3, HeldWhere DEF Inv, JobInv, Ripe, Pending
  <2>5. Ripe(u)'
    BY <1>2, <1>8 DEF Ripe, Pending
  <2>6. \A o \in Promise : \A x \in ToSet(reactions[o]) : WaitsFor(x, o)'
    BY <2>3, HeldWhere DEF Inv, JobInv, WaitsFor
  <2> QED BY <1>4, <1>6, <1>7, <2>1, <2>2, <2>4, <2>5, <2>6 DEF JobInv
<1>12. RouteInv(micro)'
  <2>1. \A o \in Promise : Route(o) \in Keys(micro', reactions') <=> Route(o) \in Keys(micro, reactions)
    BY <1>2, <1>9, UserJobsDiffer
  <2> QED BY <2>1 DEF Inv, RouteInv, Pending
<1>13. UserInv(micro)'
  BY <1>2, <1>6, <1>8 DEF Inv, UserInv
<1>14. OrderInv(micro)'
  <2>1. ASSUME NEW m \in 1 .. Len(owner'), NEW j \in 1 .. Len(owner'), m < j,
               owner'[m] = owner'[j], m \notin ran', UserJob(j) \in ToSet(micro')
        PROVE  Ahead(micro', UserJob(m), UserJob(j))
    <3>1. CASE j = k
      <4>1. m \in 1 .. Len(owner) /\ m \notin ran /\ owner[m] = p
        BY <2>1, <3>1, <1>8
      <4>2. UserJob(m) \in Held(micro, reactions)
        BY <4>1 DEF Inv, UserInv
      <4>3. ASSUME NEW o \in Promise, UserJob(m) \in ToSet(reactions[o]) PROVE FALSE
        <5>1. owner[m] = o
          BY <4>3, JobFields DEF Inv, JobInv, WaitsFor
        <5>2. reactions[o] # <<>>
          BY <4>3 DEF ToSet
        <5>3. Pending(o)
          BY <5>2 DEF Inv, ShapeInv
        <5> QED BY <4>1, <5>1, <5>3, PromisesAssumption
      <4>4. UserJob(m) \in ToSet(micro)
        BY <4>2, <4>3, HeldWhere
      <4> QED BY <4>4, <3>1, <1>2, <1>7
    <3>2. CASE j # k
      <4>1. j \in 1 .. Len(owner) /\ m # k
        BY <2>1, <3>2, <1>8
      <4>2. m \in 1 .. Len(owner) /\ owner[m] = owner[j] /\ m \notin ran
        BY <4>1, <2>1, <1>8
      <4>3. UserJob(j) \in ToSet(micro)
        BY <2>1, <3>2, <1>2, <1>7, UserJobsDiffer
      <4>4. Ahead(micro, UserJob(m), UserJob(j))
        BY <4>1, <4>2, <4>3, <2>1 DEF Inv, OrderInv
      <4> QED BY <4>4, <1>7
    <3> QED BY <3>1, <3>2
  <2>2. ASSUME NEW o \in Promise, NEW m \in 1 .. Len(owner'), NEW j \in 1 .. Len(owner'), m < j,
               UserJob(m) \in ToSet(reactions'[o]), UserJob(j) \in ToSet(reactions'[o])
        PROVE  Ahead(reactions'[o], UserJob(j), UserJob(m))
    <3>1. UserJob(m) \in Held(micro, reactions) /\ UserJob(j) \in Held(micro, reactions)
      BY <2>2, <1>4, HeldWhere
    <3>2. m \in 1 .. Len(owner) /\ j \in 1 .. Len(owner)
      BY <3>1, <1>10, UserHeld
    <3> QED BY <2>2, <3>2, <1>4 DEF Inv, OrderInv
  <2> QED BY <2>1, <2>2 DEF OrderInv
<1>15. AdoptingInv(micro)' /\ AfterInv(micro)'
  <2>1. ASSUME NEW o \in adopting'
        PROVE  \E inner \in Promise : AdoptionBegin(o, inner) \in ToSet(micro')
    BY <2>1, <1>7, <1>8 DEF Inv, AdoptingInv, AfterInv
  <2>2. ASSUME NEW o \in Promise, NEW m \in after'[o] \ ran'
        PROVE  /\ UserJob(m) \in ToSet(micro')
               /\ HopHeld(o, micro', reactions')
               /\ \A inner \in Promise : AdoptionSettled(o, inner) \in ToSet(micro') =>
                     Ahead(micro', UserJob(m), AdoptionSettled(o, inner))
    <3>1. CASE m = k
      <4>1. o \in adopting
        BY <2>2, <3>1, <1>8
      <4>2. PICK v \in Promise : AdoptionBegin(o, v) \in ToSet(micro)
        BY <4>1 DEF Inv, AdoptingInv, AfterInv
      <4>3. HopHeld(o, micro, reactions)
        BY <4>2, HeldWhere DEF HopHeld
      <4>4. ASSUME NEW inner \in Promise, AdoptionSettled(o, inner) \in ToSet(micro')
            PROVE  FALSE
        <5>1. AdoptionSettled(o, inner) \in ToSet(micro)
          BY <4>4, <1>2, <1>7, UserJobsDiffer
        <5>2. Key(AdoptionSettled(o, inner)) = Key(AdoptionBegin(o, v))
          BY JobMembers
        <5>3. AdoptionSettled(o, inner) = AdoptionBegin(o, v)
          BY <5>1, <5>2, <4>2, <1>5, HeldWhere, OneKey
        <5> QED BY <5>3, UserJobsDiffer
      <4> QED BY <3>1, <4>3, <4>4, <1>2, <1>6, <1>7, HopsKept
    <3>2. CASE m # k
      <4>1. m \in after[o] \ ran
        BY <2>2, <3>2, <1>8
      <4>2. /\ UserJob(m) \in ToSet(micro)
            /\ HopHeld(o, micro, reactions)
            /\ \A inner \in Promise : AdoptionSettled(o, inner) \in ToSet(micro) =>
                     Ahead(micro, UserJob(m), AdoptionSettled(o, inner))
        BY <4>1 DEF Inv, AdoptingInv, AfterInv
      <4>3. \A inner \in Promise : AdoptionSettled(o, inner) \in ToSet(micro') =>
               AdoptionSettled(o, inner) \in ToSet(micro)
        BY <1>2, <1>7, UserJobsDiffer
      <4> QED BY <4>2, <4>3, <1>6, <1>7, HopsKept
    <3> QED BY <3>1, <3>2
  <2> QED BY <2>1, <2>2 DEF AdoptingInv, AfterInv
<1>16. SlotInv(micro)'
  <2>1. \A o \in Promise, i \in 1 .. MaxElements :
           CombinatorSlot(o, i) \in Held(micro', reactions') => CombinatorSlot(o, i) \in Held(micro, reactions)
    BY <1>2, <1>6, UserJobsDiffer
  <2> QED BY <2>1 DEF Inv, SlotInv, IsAll
<1> QED BY <1>6, <1>11, <1>12, <1>13, <1>14, <1>15, <1>16

\* A job that waits for a pending promise.
LEMMA WaitingJob ==
    ASSUME Inv, NEW p \in Promise, MakeJob(p, FALSE), Pending(p),
           Moved(reactions, p, Pushed(UserJob(NextJob), reactions[p]), reactions'),
           UNCHANGED <<micro, state, made, sources, values, open, pairs, resolutions>>
    PROVE  /\ Queues(micro', reactions')
           /\ reactions'[p] # <<>>
           /\ \A o \in Promise \ {p} : reactions'[o] = reactions[o]
           /\ JobInv(micro)'
           /\ OneEach(micro, reactions)'
           /\ RouteInv(micro)'
           /\ UserInv(micro)'
           /\ OrderInv(micro)'
           /\ AdoptingInv(micro)' /\ AfterInv(micro)'
           /\ SlotInv(micro)'
<1>1. PICK k \in 1 .. MaxJobs : k = NextJob
  BY MadeJob
<1>2. PICK u \in Job : u = UserJob(k) /\ u[1] = "user" /\ u[2] = k /\ Key(u) = u
  BY <1>1, JobMembers, JobFields
<1>3. u \notin Held(micro, reactions) /\ Key(u) \notin Keys(micro, reactions)
  BY <1>1, <1>2, FreshUser DEF MakeJob
<1>4. Moved(reactions, p, Pushed(u, reactions[p]), reactions') /\ micro' = micro
  BY <1>1, <1>2
<1>5. Queues(micro, reactions) /\ OneEach(micro, reactions) /\ reactions[p] \in Seq(Job)
  BY InvQueues DEF Inv
<1>6. /\ Queues(micro', reactions')
      /\ ToSet(reactions'[p]) = ToSet(reactions[p]) \cup {u}
      /\ reactions'[p] # <<>>
      /\ \A o \in Promise \ {p} : reactions'[o] = reactions[o]
      /\ Held(micro', reactions') = Held(micro, reactions) \cup {u}
      /\ OneEach(micro', reactions')
  <2>1. PICK T : T = reactions' /\ Moved(reactions, p, Pushed(u, reactions[p]), T)
    BY <1>4
  <2>2. /\ Queues(micro, T)
        /\ ToSet(T[p]) = ToSet(reactions[p]) \cup {u}
        /\ T[p] # <<>>
        /\ \A o \in Promise \ {p} : T[o] = reactions[o]
        /\ Held(micro, T) = Held(micro, reactions) \cup {u}
        /\ OneEach(micro, T)
    BY <1>3, <1>5, <2>1, WaitOne
  <2> QED BY <2>1, <2>2, <1>4
<1>7. reactions'[p] = <<u>> \o reactions[p]
  BY <1>4 DEF Inv, TypeOK, Moved, Pushed
<1>8. /\ \A a, b : Ahead(reactions[p], a, b) => Ahead(reactions'[p], a, b)
      /\ \A b \in ToSet(reactions[p]) : Ahead(reactions'[p], u, b)
  BY <1>5, <1>7, PrependHolds
<1>9. /\ Len(owner') = k
      /\ 1 .. Len(owner') = (1 .. Len(owner)) \cup {k}
      /\ k \notin 1 .. Len(owner)
      /\ \A m \in 1 .. Len(owner) : owner'[m] = owner[m] /\ m < k
      /\ owner'[k] = p
      /\ ran' = ran /\ ran \subseteq 1 .. Len(owner)
      /\ adopting' = adopting
      /\ \A o \in Promise : after'[o] = after[o]
  BY <1>1, MadeJob DEF MakeJob
<1>10. Keys(micro', reactions') = Keys(micro, reactions) \cup {u}
  BY <1>2, <1>6 DEF Keys
<1>11. \A x \in Held(micro, reactions) : x \in Job /\ Fit(x)
  BY InvQueues
<1>12. \A o \in Promise : \A x \in ToSet(reactions'[o]) :
          x \in ToSet(reactions[o]) \/ (o = p /\ x = u)
  BY <1>6
<1>13. JobInv(micro)'
  <2>1. \A x \in Held(micro, reactions) : Fit(x)'
    BY <1>11, <1>9 DEF Fit, Pending
  <2>2. Fit(u)'
    BY <1>2, <1>9 DEF Fit
  <2>3. \A x \in Held(micro, reactions) : x[1] = "user" => owner'[x[2]] = owner[x[2]]
    BY <1>11, <1>9 DEF Fit
  <2>4. \A x \in ToSet(micro) : Ripe(x)'
    BY <2>3, HeldWhere DEF Inv, JobInv, Ripe, Pending
  <2>5. WaitsFor(u, p)'
    BY <1>2, <1>9 DEF WaitsFor
  <2>6. \A o \in Promise : \A x \in ToSet(reactions[o]) : WaitsFor(x, o)'
    BY <2>3, HeldWhere DEF Inv, JobInv, WaitsFor
  <2> QED BY <1>4, <1>6, <1>12, <2>1, <2>2, <2>4, <2>5, <2>6 DEF JobInv
<1>14. RouteInv(micro)'
  <2>1. \A o \in Promise : Route(o) \in Keys(micro', reactions') <=> Route(o) \in Keys(micro, reactions)
    BY <1>2, <1>10, UserJobsDiffer
  <2> QED BY <2>1 DEF Inv, RouteInv, Pending
<1>15. UserInv(micro)'
  BY <1>2, <1>6, <1>9 DEF Inv, UserInv
<1>16. OrderInv(micro)'
  <2>1. ASSUME NEW m \in 1 .. Len(owner'), NEW j \in 1 .. Len(owner'), m < j,
               owner'[m] = owner'[j], m \notin ran', UserJob(j) \in ToSet(micro')
        PROVE  Ahead(micro', UserJob(m), UserJob(j))
    <3>1. UserJob(j) \in ToSet(micro) /\ UserJob(j) \in Held(micro, reactions)
      BY <2>1, <1>4, HeldWhere
    <3>2. j \in 1 .. Len(owner)
      BY <3>1, <1>11, UserHeld
    <3>3. m # k
      BY <3>2, <2>1, <1>9
    <3>4. m \in 1 .. Len(owner) /\ owner[m] = owner[j] /\ m \notin ran
      BY <3>2, <3>3, <2>1, <1>9
    <3> QED BY <3>1, <3>2, <3>4, <2>1, <1>4 DEF Inv, OrderInv
  <2>2. ASSUME NEW o \in Promise, NEW m \in 1 .. Len(owner'), NEW j \in 1 .. Len(owner'), m < j,
               UserJob(m) \in ToSet(reactions'[o]), UserJob(j) \in ToSet(reactions'[o])
        PROVE  Ahead(reactions'[o], UserJob(j), UserJob(m))
    <3>1. m # k
      BY <2>2, <1>9
    <3>2. m \in 1 .. Len(owner) /\ UserJob(m) \in ToSet(reactions[o])
      BY <3>1, <2>2, <1>2, <1>9, <1>12, UserJobsDiffer
    <3>3. CASE j = k
      <4>1. UserJob(j) \notin ToSet(reactions[o])
        BY <3>3, <1>2, <1>3, HeldWhere
      <4>2. o = p
        BY <2>2, <4>1, <1>12
      <4> QED BY <4>2, <3>2, <3>3, <1>2, <1>8
    <3>4. CASE j # k
      <4>1. j \in 1 .. Len(owner) /\ UserJob(j) \in ToSet(reactions[o])
        BY <3>4, <2>2, <1>2, <1>9, <1>12, UserJobsDiffer
      <4>2. Ahead(reactions[o], UserJob(j), UserJob(m))
        BY <4>1, <3>2, <2>2 DEF Inv, OrderInv
      <4> QED BY <4>2, <1>6, <1>8
    <3> QED BY <3>3, <3>4
  <2> QED BY <2>1, <2>2 DEF OrderInv
<1>17. AdoptingInv(micro)' /\ AfterInv(micro)'
  <2>1. ASSUME NEW o \in adopting'
        PROVE  \E inner \in Promise : AdoptionBegin(o, inner) \in ToSet(micro')
    BY <2>1, <1>4, <1>9 DEF Inv, AdoptingInv, AfterInv
  <2>2. ASSUME NEW o \in Promise, NEW m \in after'[o] \ ran'
        PROVE  /\ UserJob(m) \in ToSet(micro')
               /\ HopHeld(o, micro', reactions')
               /\ \A inner \in Promise : AdoptionSettled(o, inner) \in ToSet(micro') =>
                     Ahead(micro', UserJob(m), AdoptionSettled(o, inner))
    <3>1. m \in after[o] \ ran
      BY <2>2, <1>9
    <3>2. /\ UserJob(m) \in ToSet(micro)
          /\ HopHeld(o, micro, reactions)
          /\ \A inner \in Promise : AdoptionSettled(o, inner) \in ToSet(micro) =>
                   Ahead(micro, UserJob(m), AdoptionSettled(o, inner))
      BY <3>1 DEF Inv, AdoptingInv, AfterInv
    <3> QED BY <3>2, <1>4, <1>6, HopsKept
  <2> QED BY <2>1, <2>2 DEF AdoptingInv, AfterInv
<1>18. SlotInv(micro)'
  <2>1. \A o \in Promise, i \in 1 .. MaxElements :
           CombinatorSlot(o, i) \in Held(micro', reactions') => CombinatorSlot(o, i) \in Held(micro, reactions)
    BY <1>2, <1>6, UserJobsDiffer
  <2> QED BY <2>1 DEF Inv, SlotInv, IsAll
<1> QED BY <1>6, <1>13, <1>14, <1>15, <1>16, <1>17, <1>18

LEMMA EnqueueJobKeeps == Inv /\ EnqueueJob => Inv'
<1> SUFFICES ASSUME Inv, EnqueueJob PROVE Inv'
  OBVIOUS
<1> USE DEF EnqueueJob, promiseVars
<1>1. /\ Queues(micro', reactions')
      /\ JobInv(micro)' /\ OneEach(micro, reactions)' /\ RouteInv(micro)' /\ UserInv(micro)'
      /\ OrderInv(micro)' /\ AdoptingInv(micro)' /\ AfterInv(micro)' /\ SlotInv(micro)'
  BY QueuedJob
<1>2. /\ owner' \in Seq(Promise \cup {None})
      /\ Len(owner') = NextJob
      /\ 1 .. Len(owner') = (1 .. Len(owner)) \cup {NextJob}
      /\ \A m \in 1 .. Len(owner) : owner'[m] = owner[m]
      /\ owner'[NextJob] = None
      /\ ran' = ran
      /\ adopting' = adopting /\ adopted' = adopted
      /\ NextJob \in 1 .. MaxJobs
      /\ after' \in [Promise -> SUBSET (1 .. MaxJobs)]
      /\ \A o \in Promise : after'[o] \subseteq after[o] \cup {NextJob}
      /\ \A o \in Promise : NextJob \in after'[o] => o \in adopting
  BY MadeJob
<1>3. TypeOK'
  <2>1. ran' \subseteq 1 .. Len(owner')
    BY <1>2 DEF Inv, TypeOK
  <2> QED BY <1>1, <1>2, <2>1 DEF Inv, TypeOK, Queues, IsAll
<1>4. ShapeInv'
  <2>1. \A o \in Promise : o \in adopting' \/ after'[o] # {} => Kind[o] # "combinator"
    BY <1>2 DEF Inv, ShapeInv
  <2>2. Len(owner') <= MaxJobs
    BY <1>2, PromisesAssumption
  <2>3. owner' \in Seq(made \cup {None})
    BY DEF Inv, ShapeInv, MakeJob
  <2> QED BY <2>1, <2>2, <2>3 DEF Inv, ShapeInv, Pending, IsAll
<1>5. SettlementCarried'
  BY DEF Inv, SettlementCarried, Pending
<1>6. AllMeansAll'
  BY AllUnchanged DEF Inv
<1>7. Noted'
  <2>1. \A o \in made : o # None
    BY PromisesAssumption DEF Inv, TypeOK
  <2>2. ASSUME NEW o \in made, NEW n \in 1 .. Len(owner'), owner'[n] = o PROVE Observed(o)
    <3>1. n \in 1 .. Len(owner) /\ owner[n] = o
      BY <1>2, <2>1, <2>2
    <3> QED BY <3>1 DEF Observed
  <2>3. ASSUME NEW o \in made, Observed(o)' PROVE Observed(o)
    <3>1. CASE \E n \in 1 .. Len(owner') : owner'[n] = o
      BY <2>2, <3>1
    <3>2. CASE ~\E n \in 1 .. Len(owner') : owner'[n] = o
      BY <1>2, <2>3, <3>2 DEF Observed
    <3> QED BY <3>1, <3>2
  <2> QED BY <2>3 DEF Inv, Noted
<1> QED BY <1>1, <1>3, <1>4, <1>5, <1>6, <1>7 DEF Inv

LEMMA AwaitKeeps ==
    ASSUME Inv, NEW p \in Promise, Await(p)
    PROVE  Inv'
<1> USE DEF Await, Subscribe
<1>0. p \in made /\ MakeJob(p, ~Pending(p)) /\ (~Pending(p)) \in BOOLEAN
  BY DEF Pending
<1>1. /\ Queues(micro', reactions')
      /\ JobInv(micro)' /\ OneEach(micro, reactions)' /\ RouteInv(micro)' /\ UserInv(micro)'
      /\ OrderInv(micro)' /\ AdoptingInv(micro)' /\ AfterInv(micro)' /\ SlotInv(micro)'
      /\ \A o \in Promise : reactions'[o] # <<>> =>
            reactions[o] # <<>> \/ (o = p /\ Pending(p))
  <2>1. CASE Pending(p)
    <3>1. MakeJob(p, FALSE)
      BY <2>1, <1>0
    <3>2. Moved(reactions, p, Pushed(UserJob(NextJob), reactions[p]), reactions')
      BY <2>1 DEF Moved, Pushed
    <3>3. UNCHANGED <<micro, state, made, sources, values, open, pairs, resolutions>>
      BY <2>1
    <3> HIDE DEF Await, Subscribe
    <3> QED BY <2>1, <3>1, <3>2, <3>3, WaitingJob
  <2>2. CASE ~Pending(p)
    <3>1. MakeJob(p, TRUE)
      BY <2>2, <1>0
    <3>2. micro' = Append(micro, UserJob(NextJob)) /\ reactions' = reactions
      BY <2>2
    <3>3. UNCHANGED <<reactions, state, made, sources, values, open, pairs, resolutions>>
      BY <2>2
    <3> HIDE DEF Await, Subscribe
    <3> QED BY <2>2, <3>1, <3>2, <3>3, QueuedJob
  <2> QED BY <2>1, <2>2
<1>2. /\ owner' \in Seq(Promise \cup {None})
      /\ Len(owner') = NextJob
      /\ 1 .. Len(owner') = (1 .. Len(owner)) \cup {NextJob}
      /\ \A m \in 1 .. Len(owner) : owner'[m] = owner[m]
      /\ owner'[NextJob] = p
      /\ ran' = ran
      /\ adopting' = adopting /\ adopted' = adopted
      /\ NextJob \in 1 .. MaxJobs
      /\ after' \in [Promise -> SUBSET (1 .. MaxJobs)]
      /\ \A o \in Promise : after'[o] \subseteq after[o] \cup {NextJob}
      /\ \A o \in Promise : NextJob \in after'[o] => o \in adopting
  BY <1>0, MadeJob
<1>3. /\ handled' \in [Promise -> BOOLEAN] /\ handled'[p]
      /\ \A o \in Promise : handled[o] => handled'[o]
      /\ \A o \in Promise \ {p} : handled'[o] = handled[o]
  BY DEF Inv, TypeOK
<1>4. UNCHANGED <<state, value, rejected, resolutions, pairs, open, made, sources, values,
                  remaining, aborted>>
  OBVIOUS
<1> HIDE DEF Await, Subscribe
<1>5. TypeOK'
  <2>1. ran' \subseteq 1 .. Len(owner')
    BY <1>2 DEF Inv, TypeOK
  <2> QED BY <1>1, <1>2, <1>3, <1>4, <2>1 DEF Inv, TypeOK, Queues, IsAll
<1>6. ShapeInv'
  <2>1. \A o \in Promise : o \in adopting' \/ after'[o] # {} => Kind[o] # "combinator"
    BY <1>2 DEF Inv, ShapeInv
  <2>2. Len(owner') <= MaxJobs
    BY <1>2, PromisesAssumption
  <2>3. \A o \in Promise : reactions'[o] # <<>> => o \in made' /\ Pending(o)' /\ handled'[o]
    BY <1>0, <1>1, <1>3, <1>4 DEF Inv, ShapeInv, Pending
  <2>4. owner' \in Seq(made \cup {None})
    BY <1>0 DEF Inv, ShapeInv, MakeJob
  <2> QED BY <1>4, <2>1, <2>2, <2>3, <2>4 DEF Inv, ShapeInv, Pending, IsAll
<1>7. SettlementCarried'
  BY <1>4 DEF Inv, SettlementCarried, Pending
<1>8. AllMeansAll'
  BY <1>4, AllUnchanged DEF Inv
<1>9. Noted'
  <2>1. \A o \in made : Observed(o)' => Observed(o) \/ o = p
    BY <1>2, <1>4 DEF Observed, Inv, TypeOK
  <2>2. \A o \in made : Observed(o)' => handled'[o]
    BY <2>1, <1>3 DEF Inv, Noted, TypeOK
  <2> QED BY <2>2, <1>4 DEF Inv, Noted
<1> QED BY <1>1, <1>5, <1>6, <1>7, <1>8, <1>9 DEF Inv

(***************************************************************************)
(* Settling a pending promise, for a caller that sees the queue q.         *)
(***************************************************************************)
\* p settles on its own, or on what a settled promise carries.
Carries(p, outcome, payload) ==
    /\ outcome \in {"fulfilled", "rejected"}
    /\ payload \in made
    /\ payload = p \/ (state[payload] = outcome /\ value[payload] = payload)

LEMMA SettleMoves ==
    ASSUME TypeOK, NEW q, NEW p \in Promise, Queues(q, reactions), Pending(p),
           NEW outcome, NEW payload, Carries(p, outcome, payload), Settle(q, p, outcome, payload)
    PROVE  /\ state' \in [Promise -> {"pending", "fulfilled", "rejected"}]
           /\ state'[p] = outcome /\ \A o \in Promise \ {p} : state'[o] = state[o]
           /\ ~Pending(p)' /\ \A o \in Promise \ {p} : Pending(o)' <=> Pending(o)
           /\ value' \in [Promise -> Promise \cup {None}]
           /\ value'[p] = payload /\ \A o \in Promise \ {p} : value'[o] = value[o]
           /\ Queues(micro', reactions')
           /\ ToSet(micro') = ToSet(q) \cup ToSet(reactions[p])
           /\ reactions'[p] = <<>>
           /\ \A o \in Promise \ {p} : reactions'[o] = reactions[o]
           /\ Held(micro', reactions') = Held(q, reactions)
           /\ Keys(micro', reactions') = Keys(q, reactions)
           /\ OneEach(q, reactions) => OneEach(micro', reactions')
           /\ \A a, b : Ahead(q, a, b) => Ahead(micro', a, b)
           /\ \A a, b : Ahead(reactions[p], b, a) => Ahead(micro', a, b)
           /\ \A a \in ToSet(q), b \in ToSet(reactions[p]) : Ahead(micro', a, b)
<1>1. /\ state' = [state EXCEPT ![p] = outcome]
      /\ value' = [value EXCEPT ![p] = payload]
      /\ micro' = q \o Reverse(reactions[p])
      /\ Moved(reactions, p, <<>>, reactions')
  BY DEF Settle, Schedule, Moved
<1> HIDE DEF Settle
<1>2. outcome \in {"fulfilled", "rejected"} /\ payload \in Promise
  BY DEF Carries, TypeOK
<1>3. /\ state' \in [Promise -> {"pending", "fulfilled", "rejected"}]
      /\ state'[p] = outcome /\ \A o \in Promise \ {p} : state'[o] = state[o]
  BY <1>1, <1>2 DEF TypeOK
<1>4. ~Pending(p)' /\ \A o \in Promise \ {p} : Pending(o)' <=> Pending(o)
  BY <1>2, <1>3 DEF Pending
<1>5. /\ value' \in [Promise -> Promise \cup {None}]
      /\ value'[p] = payload /\ \A o \in Promise \ {p} : value'[o] = value[o]
  BY <1>1, <1>2 DEF TypeOK
<1>6. PICK t : t = micro' /\ t = Flushed(q, reactions[p])
  BY <1>1 DEF Flushed
<1>7. PICK T : T = reactions' /\ Moved(reactions, p, <<>>, T)
  BY <1>1
<1>8. /\ Queues(t, T)
      /\ ToSet(t) = ToSet(q) \cup ToSet(reactions[p])
      /\ T[p] = <<>>
      /\ \A o \in Promise \ {p} : T[o] = reactions[o]
      /\ Held(t, T) = Held(q, reactions)
      /\ OneEach(q, reactions) => OneEach(t, T)
  BY <1>6, <1>7, FlushOne
<1>9. q \in Seq(Job) /\ reactions[p] \in Seq(Job)
  BY DEF Queues
<1>10. /\ \A a, b : Ahead(q, a, b) => Ahead(t, a, b)
       /\ \A a, b : Ahead(reactions[p], b, a) => Ahead(t, a, b)
       /\ \A a \in ToSet(q), b \in ToSet(reactions[p]) : Ahead(t, a, b)
  BY <1>6, <1>9, FlushHolds DEF Flushed
<1>11. Keys(t, T) = Keys(q, reactions)
  BY <1>8 DEF Keys
<1> QED BY <1>3, <1>4, <1>5, <1>6, <1>7, <1>8, <1>10, <1>11

LEMMA SettleKeeps ==
    ASSUME TypeOK, ShapeInv, NEW q, NEW p \in made, Queues(q, reactions), Pending(p),
           OneEach(q, reactions), JobInv(q), UserInv(q), OrderInv(q), AfterInv(q),
           SettlementCarried, Noted,
           Route(p) \notin Keys(q, reactions),
           NEW outcome, NEW payload, Carries(p, outcome, payload), Settle(q, p, outcome, payload),
           UNCHANGED <<handled, made, sources, owner, ran, after, adopted>>
    PROVE  /\ OneEach(micro, reactions)'
           /\ JobInv(micro)'
           /\ UserInv(micro)'
           /\ OrderInv(micro)'
           /\ AfterInv(micro)'
           /\ SettlementCarried'
           /\ Noted'
           /\ rejected' \in Seq(made')
           /\ \A o \in Promise : reactions'[o] # <<>> =>
                 o \in made' /\ Pending(o)' /\ handled'[o]
           /\ \A o \in Promise : state[o] \in {"fulfilled", "rejected"} =>
                 state'[o] = state[o] /\ value'[o] = value[o]
<1>0. p \in Promise
  BY DEF TypeOK
<1>1. /\ state' \in [Promise -> {"pending", "fulfilled", "rejected"}]
      /\ state'[p] = outcome /\ \A o \in Promise \ {p} : state'[o] = state[o]
      /\ ~Pending(p)' /\ \A o \in Promise \ {p} : Pending(o)' <=> Pending(o)
      /\ value' \in [Promise -> Promise \cup {None}]
      /\ value'[p] = payload /\ \A o \in Promise \ {p} : value'[o] = value[o]
  <2>1. state' \in [Promise -> {"pending", "fulfilled", "rejected"}]
    BY <1>0, SettleMoves
  <2>2. state'[p] = outcome /\ \A o \in Promise \ {p} : state'[o] = state[o]
    BY <1>0, SettleMoves
  <2>3. ~Pending(p)' /\ \A o \in Promise \ {p} : Pending(o)' <=> Pending(o)
    BY <1>0, SettleMoves
  <2>4. value' \in [Promise -> Promise \cup {None}]
    BY <1>0, SettleMoves
  <2>5. value'[p] = payload
    BY <1>0 DEF Settle, TypeOK
  <2>6. \A o \in Promise \ {p} : value'[o] = value[o]
    BY <1>0, SettleMoves
  <2> QED BY <2>1, <2>2, <2>3, <2>4, <2>5, <2>6
<1>2. /\ Queues(micro', reactions')
      /\ ToSet(micro') = ToSet(q) \cup ToSet(reactions[p])
      /\ reactions'[p] = <<>>
      /\ \A o \in Promise \ {p} : reactions'[o] = reactions[o]
      /\ Held(micro', reactions') = Held(q, reactions)
      /\ Keys(micro', reactions') = Keys(q, reactions)
      /\ OneEach(micro', reactions')
  BY <1>0, SettleMoves
<1>3. /\ \A a, b : Ahead(q, a, b) => Ahead(micro', a, b)
      /\ \A a, b : Ahead(reactions[p], b, a) => Ahead(micro', a, b)
      /\ \A a \in ToSet(q), b \in ToSet(reactions[p]) : Ahead(micro', a, b)
  BY <1>0, SettleMoves
<1>4. \A x \in Held(q, reactions) : x \in Job /\ Fit(x)
  BY HeldPlaces DEF JobInv
<1>5. IF outcome = "rejected" /\ ~Listened(p)
      THEN rejected' = Append(rejected, p)
      ELSE rejected' = rejected
  BY DEF Settle, RejectionCandidate
<1> HIDE DEF Settle
<1>6. \A x \in Held(q, reactions) :
         x[1] \in {"begin", "settled", "thenable"} => x[2] # p
  BY RouteHeld
<1>7. ToSet(<<>>) = {}
  BY DEF ToSet
<1>8. JobInv(micro)'
  <2>1. ASSUME NEW x \in Held(q, reactions) PROVE Fit(x)'
    <3>1. Fit(x) /\ (x[1] \in {"begin", "settled", "thenable"} => x[2] # p)
      BY <1>4, <1>6
    <3>2. x[1] \in {"begin", "settled", "thenable"} => x[2] \in Promise /\ Pending(x[2])'
      BY <3>1, <1>1 DEF Fit, TypeOK
    <3> QED BY <3>1, <3>2 DEF Fit
  <2>2. \A o : o \in Promise /\ ~Pending(o) => ~Pending(o)'
    BY <1>1
  <2>3. ASSUME NEW x \in ToSet(q) PROVE Ripe(x)'
    <3>1. Ripe(x) /\ x \in Job /\ Fit(x)
      BY <1>4, HeldWhere DEF JobInv
    <3>2. x[1] = "user" => owner[x[2]] \in Promise \cup {None}
      <4>1. owner \in Seq(Promise \cup {None})
        BY DEF TypeOK
      <4>2. \A i \in 1 .. Len(owner) : owner[i] \in Promise \cup {None}
        BY <4>1
      <4> QED BY <3>1, <4>2 DEF Fit
    <3>3. x[1] = "settled" => x[3] \in Promise
      BY <3>1, JobForms
    <3>4. x[1] = "slot" => sources[x[2]][x[3]] \in Promise
      BY <3>1, SourcesTyped DEF Fit, TypeOK
    <3> QED BY <3>1, <3>2, <3>3, <3>4, <2>2 DEF Ripe
  <2>4. ASSUME NEW x \in ToSet(reactions[p]) PROVE Ripe(x)'
    <3>1. WaitsFor(x, p)
      BY <1>0 DEF JobInv
    <3> QED BY <3>1, <1>1 DEF WaitsFor, Ripe
  <2>5. ASSUME NEW o \in Promise, NEW x \in ToSet(reactions'[o]) PROVE WaitsFor(x, o)'
    <3>1. o # p /\ x \in ToSet(reactions[o])
      BY <1>2, <1>7
    <3> QED BY <3>1 DEF JobInv, WaitsFor
  <2> QED BY <1>2, <2>1, <2>3, <2>4, <2>5 DEF JobInv
<1>9. UserInv(micro)'
  BY <1>2 DEF UserInv
<1>10. OrderInv(micro)'
  <2>1. ASSUME NEW m \in 1 .. Len(owner), NEW n \in 1 .. Len(owner), m < n,
               owner[m] = owner[n], m \notin ran, UserJob(n) \in ToSet(micro')
        PROVE  Ahead(micro', UserJob(m), UserJob(n))
    <3>1. CASE UserJob(n) \in ToSet(q)
      BY <2>1, <3>1, <1>3 DEF OrderInv
    <3>2. CASE UserJob(n) \in ToSet(reactions[p])
      <4>1. owner[n] = p
        BY <3>2, <1>0, JobFields DEF JobInv, WaitsFor
      <4>2. UserJob(m) \in Held(q, reactions)
        BY <2>1 DEF UserInv
      <4>3. CASE UserJob(m) \in ToSet(q)
        BY <4>3, <3>2, <1>3
      <4>4. ASSUME NEW o \in Promise, UserJob(m) \in ToSet(reactions[o])
            PROVE  Ahead(micro', UserJob(m), UserJob(n))
        <5>1. owner[m] = o
          BY <4>4, JobFields DEF JobInv, WaitsFor
        <5>2. o = p
          BY <5>1, <4>1, <2>1
        <5>3. Ahead(reactions[p], UserJob(n), UserJob(m))
          BY <5>2, <4>4, <3>2, <2>1, <1>0 DEF OrderInv
        <5> QED BY <5>3, <1>3
      <4> QED BY <4>2, <4>3, <4>4, HeldWhere
    <3> QED BY <2>1, <3>1, <3>2, <1>2
  <2>2. ASSUME NEW o \in Promise, NEW m \in 1 .. Len(owner), NEW n \in 1 .. Len(owner), m < n,
               UserJob(m) \in ToSet(reactions'[o]), UserJob(n) \in ToSet(reactions'[o])
        PROVE  Ahead(reactions'[o], UserJob(n), UserJob(m))
    <3>1. o # p
      BY <2>2, <1>2, <1>7
    <3> QED BY <3>1, <2>2, <1>2 DEF OrderInv
  <2> QED BY <2>1, <2>2 DEF OrderInv
<1>11. AfterInv(micro)'
  <2> SUFFICES ASSUME NEW o \in Promise, NEW n \in after[o] \ ran
               PROVE  /\ UserJob(n) \in ToSet(micro')
                      /\ HopHeld(o, micro', reactions')
                      /\ \A inner \in Promise : AdoptionSettled(o, inner) \in ToSet(micro') =>
                            Ahead(micro', UserJob(n), AdoptionSettled(o, inner))
    BY DEF AfterInv
  <2>1. /\ UserJob(n) \in ToSet(q)
        /\ HopHeld(o, q, reactions)
        /\ \A inner \in Promise : AdoptionSettled(o, inner) \in ToSet(q) =>
              Ahead(q, UserJob(n), AdoptionSettled(o, inner))
    BY DEF AfterInv
  <2> QED BY <2>1, <1>2, <1>3, HopsKept
<1>12. \A o \in Promise : state[o] \in {"fulfilled", "rejected"} =>
          /\ o # p
          /\ state'[o] = state[o] /\ value'[o] = value[o]
  BY <1>1 DEF Pending
<1>13. SettlementCarried'
  <2>1. outcome # "pending" /\ payload \in made /\ payload \in Promise
    BY DEF Carries, TypeOK
  <2>2. \A o \in made : Pending(o)' <=> value'[o] = None
    BY <1>1, <2>1, PromisesAssumption DEF SettlementCarried, TypeOK
  <2>3. ASSUME NEW o \in made, ~Pending(o)'
        PROVE  state'[value'[o]] = state'[o] /\ value'[value'[o]] = value'[o]
    <3>1. CASE o = p
      <4>1. CASE payload = p
        BY <3>1, <4>1, <1>0, <1>1
      <4>2. CASE payload # p
        <5>1. state[payload] = outcome /\ value[payload] = payload
          BY <4>2 DEF Carries
        <5>2. state'[payload] = outcome /\ value'[payload] = payload
          BY <5>1, <4>2, <1>1, <2>1
        <5> QED BY <3>1, <5>2, <1>1
      <4> QED BY <4>1, <4>2
    <3>2. CASE o # p
      <4>1. o \in Promise /\ ~Pending(o)
        BY <2>3, <3>2, <1>1 DEF TypeOK
      <4>2. state[value[o]] = state[o] /\ value[value[o]] = value[o] /\ value[o] # None
        BY <4>1 DEF SettlementCarried
      <4>3. value[o] \in Promise /\ state[o] \in {"fulfilled", "rejected"}
        BY <4>1, <4>2 DEF TypeOK, Pending
      <4>4. state'[value[o]] = state[o] /\ value'[value[o]] = value[o]
        BY <4>2, <4>3, <1>12
      <4> QED BY <4>4, <4>1, <3>2, <1>1
    <3> QED BY <3>1, <3>2
  <2> QED BY <2>2, <2>3 DEF SettlementCarried
<1>14. rejected \in Seq(made) /\ Len(rejected) \in Nat /\ DOMAIN rejected = 1 .. Len(rejected)
  BY DEF TypeOK
<1>15. \A i \in DOMAIN rejected : rejected[i] # p /\ rejected[i] \in made /\ state[rejected[i]] = "rejected"
  BY <1>14 DEF Noted, Pending
<1>16. rejected' \in Seq(made')
  BY <1>5, <1>14
<1>17. Noted'
  <2>1. \A o \in made : Observed(o)' => handled'[o]
    BY DEF Noted, Observed
  <2>2. CASE outcome = "rejected" /\ ~Listened(p)
    <3>1. /\ rejected' = Append(rejected, p)
          /\ DOMAIN rejected' = 1 .. Len(rejected) + 1
          /\ \A i \in DOMAIN rejected : i \in DOMAIN rejected' /\ rejected'[i] = rejected[i]
          /\ rejected'[Len(rejected) + 1] = p
          /\ Len(rejected) + 1 \in DOMAIN rejected'
          /\ \A i \in DOMAIN rejected' : i \in DOMAIN rejected \/ i = Len(rejected) + 1
      BY <2>2, <1>5, <1>14
    <3>3. \A i, j \in DOMAIN rejected' : rejected'[i] = rejected'[j] => i = j
      BY <3>1, <1>15 DEF Noted
    <3>4. \A i \in DOMAIN rejected' : state'[rejected'[i]] = "rejected"
      <4> TAKE i \in DOMAIN rejected'
      <4>1. CASE i \in DOMAIN rejected
        <5>1. rejected[i] \in Promise /\ rejected[i] # p /\ state[rejected[i]] = "rejected"
          BY <4>1, <1>15 DEF TypeOK
        <5> QED BY <5>1, <4>1, <3>1, <1>1
      <4>2. CASE i = Len(rejected) + 1
        BY <4>2, <3>1, <2>2, <1>1
      <4> QED BY <4>1, <4>2, <3>1
    <3> QED BY <2>1, <3>3, <3>4 DEF Noted
  <2>3. CASE ~(outcome = "rejected" /\ ~Listened(p))
    <3>1. rejected' = rejected
      BY <2>3, <1>5
    <3>3. \A i \in DOMAIN rejected : state'[rejected[i]] = "rejected"
      BY <1>15, <1>1 DEF TypeOK
    <3>4. \A i, j \in DOMAIN rejected : rejected[i] = rejected[j] => i = j
      BY DEF Noted
    <3> QED BY <2>1, <3>1, <3>3, <3>4 DEF Noted
  <2> QED BY <2>2, <2>3
<1>18. \A o \in Promise : reactions'[o] # <<>> => o \in made' /\ Pending(o)' /\ handled'[o]
  BY <1>1, <1>2 DEF ShapeInv
<1> QED BY <1>2, <1>8, <1>9, <1>10, <1>11, <1>12, <1>13, <1>16, <1>17, <1>18

(***************************************************************************)
(* Resolving a promise, by the return of its frame or through its pair.    *)
(***************************************************************************)
\* The route p had, its frame or its live pair, is used up.
Spent(p) ==
    /\ open' = open \ {p}
    /\ pairs' = pairs
    /\ resolutions' \in [Promise -> 0 .. PairMax]
    /\ resolutions'[p] \notin pairs[p]
    /\ \A o \in Promise : resolutions[o] <= resolutions'[o]
    /\ \A o \in Promise \ {p} : resolutions'[o] = resolutions[o]

\* p can be resolved.
Resolvable(p) ==
    /\ p \in made
    /\ Pending(p)
    /\ Kind[p] # "combinator"
    /\ Route(p) \notin Keys(micro, reactions)

LEMMA FrameSpent ==
    ASSUME Inv, NEW p \in Promise, FrameReturn(p)
    PROVE  Spent(p) /\ Resolvable(p)
<1>1. p \in open /\ open' = open \ {p} /\ pairs' = pairs /\ resolutions' = resolutions
  BY DEF FrameReturn
<1>2. Kind[p] = "frame" /\ p \in made
  BY <1>1 DEF Inv, ShapeInv, TypeOK
<1>3. /\ Pending(p) /\ Route(p) \notin Keys(micro, reactions)
      /\ resolutions[p] \notin pairs[p]
  BY <1>1, <1>2 DEF Inv, RouteInv
<1>4. resolutions \in [Promise -> 0 .. PairMax] /\ \A o \in Promise : resolutions[o] <= resolutions[o]
  BY PromisesAssumption DEF Inv, TypeOK
<1> QED BY <1>1, <1>2, <1>3, <1>4 DEF Spent, Resolvable

LEMMA ResolveSpent ==
    ASSUME Inv, NEW p \in Promise, NEW pair \in pairs[p], Resolve(p, pair)
    PROVE  Spent(p) /\ Resolvable(p) /\ Kind[p] = "executor"
<1>1. /\ resolutions[p] = pair /\ pair < PairMax
      /\ resolutions' = [resolutions EXCEPT ![p] = pair + 1]
      /\ open' = open /\ pairs' = pairs
  BY DEF Resolve, Claims, NextPair
<1>2. Kind[p] = "executor" /\ p \in made
  BY DEF Inv, ShapeInv
<1>3. /\ Pending(p) /\ Route(p) \notin Keys(micro, reactions)
      /\ p \notin open
  BY <1>1, <1>2 DEF Inv, RouteInv
<1>4. /\ resolutions \in [Promise -> 0 .. PairMax]
      /\ pairs[p] \subseteq 0 .. PairMax
      /\ \A x \in pairs[p] : x <= resolutions[p]
  BY DEF Inv, TypeOK, ShapeInv
<1>5. pair + 1 \in 0 .. PairMax /\ pair + 1 \notin pairs[p] /\ pair <= pair + 1
  BY <1>1, <1>4, PromisesAssumption
<1>6. resolutions' \in [Promise -> 0 .. PairMax] /\ resolutions'[p] = pair + 1
        /\ \A o \in Promise \ {p} : resolutions'[o] = resolutions[o]
  BY <1>1, <1>4, <1>5
<1>7. \A o \in Promise : resolutions[o] <= resolutions'[o]
  BY <1>1, <1>4, <1>5, <1>6, PromisesAssumption
<1> QED BY <1>1, <1>2, <1>3, <1>5, <1>6, <1>7 DEF Spent, Resolvable

\* The type and the shape of what a resolution leaves.
LEMMA SpentShape ==
    ASSUME Inv, NEW p \in Promise, Spent(p), Queues(micro', reactions'),
           state' \in [Promise -> {"pending", "fulfilled", "rejected"}],
           value' \in [Promise -> Promise \cup {None}],
           rejected' \in Seq(made),
           \A o \in Promise \ {p} : state'[o] = state[o] /\ value'[o] = value[o],
           \A o \in Promise : reactions'[o] # <<>> => o \in made' /\ Pending(o)' /\ handled'[o],
           p \in made, Kind[p] # "combinator",
           adopting' \subseteq adopting \cup {p},
           UNCHANGED <<handled, made, sources, values, remaining, aborted, owner, ran, after, adopted>>
    PROVE  TypeOK' /\ ShapeInv'
<1>1. open' \subseteq made' /\ adopting' \cup adopted' \subseteq made'
  BY DEF Spent, Inv, TypeOK
<1>2. TypeOK'
  BY <1>1 DEF Inv, TypeOK, Queues, Spent, IsAll
<1>3. \A o \in Promise : \A pair \in pairs'[o] : pair <= resolutions'[o]
  <2> SUFFICES ASSUME NEW o \in Promise, NEW pair \in pairs[o] PROVE pair <= resolutions'[o]
    BY DEF Spent
  <2>1. pair \in 0 .. PairMax /\ resolutions[o] \in 0 .. PairMax /\ resolutions'[o] \in 0 .. PairMax
    BY DEF Inv, TypeOK, Spent
  <2>2. pair <= resolutions[o] /\ resolutions[o] <= resolutions'[o]
    BY DEF Inv, ShapeInv, Spent
  <2> QED BY <2>1, <2>2, PromisesAssumption
<1>4. \A o \in Promise : o \notin made => Pending(o)' /\ value'[o] = None
  BY DEF Inv, ShapeInv, Pending
<1>5. ShapeInv'
  BY <1>3, <1>4 DEF Inv, ShapeInv, Spent, IsAll
<1> QED BY <1>2, <1>5

LEMMA SettleNowKeeps ==
    ASSUME Inv, NEW p \in Promise, Spent(p), Resolvable(p),
           NEW outcome \in {"fulfilled", "rejected"}, SettleNow(p, outcome),
           UNCHANGED <<made, sources, values, remaining, aborted>>
    PROVE  Inv'
<1>1. Settle(micro, p, outcome, p) /\ UNCHANGED <<handled, owner, ran, adopting, after, adopted>>
  BY DEF SettleNow, history
<1>2. /\ TypeOK /\ ShapeInv /\ Queues(micro, reactions) /\ Pending(p) /\ p \in made
      /\ OneEach(micro, reactions) /\ JobInv(micro) /\ UserInv(micro) /\ OrderInv(micro)
      /\ AfterInv(micro) /\ SettlementCarried /\ Noted
      /\ Route(p) \notin Keys(micro, reactions)
      /\ Kind[p] # "combinator"
  BY InvQueues DEF Inv, Resolvable
<1>3. Carries(p, outcome, p)
  BY <1>2 DEF Carries
<1>4. /\ state' \in [Promise -> {"pending", "fulfilled", "rejected"}]
      /\ value' \in [Promise -> Promise \cup {None}]
      /\ \A o \in Promise \ {p} : state'[o] = state[o] /\ value'[o] = value[o]
      /\ ~Pending(p)' /\ \A o \in Promise \ {p} : Pending(o)' <=> Pending(o)
      /\ Queues(micro', reactions')
      /\ ToSet(micro') = ToSet(micro) \cup ToSet(reactions[p])
      /\ Held(micro', reactions') = Held(micro, reactions)
      /\ Keys(micro', reactions') = Keys(micro, reactions)
  BY <1>1, <1>2, <1>3, SettleMoves
<1>5. /\ OneEach(micro, reactions)'
      /\ JobInv(micro)'
      /\ UserInv(micro)'
      /\ OrderInv(micro)'
      /\ AfterInv(micro)'
      /\ SettlementCarried'
      /\ Noted'
      /\ rejected' \in Seq(made')
      /\ \A o \in Promise : reactions'[o] # <<>> => o \in made' /\ Pending(o)' /\ handled'[o]
      /\ \A o \in Promise : state[o] \in {"fulfilled", "rejected"} =>
            state'[o] = state[o] /\ value'[o] = value[o]
  BY <1>1, <1>2, <1>3, SettleKeeps
<1>6. TypeOK' /\ ShapeInv'
  BY <1>1, <1>2, <1>4, <1>5, SpentShape
<1>7. RouteInv(micro)'
  <2>1. p \notin open' /\ resolutions'[p] \notin pairs'[p] /\ Route(p) \notin Keys(micro', reactions')
    BY <1>2, <1>4 DEF Spent
  <2>2. \A o \in Promise \ {p} : /\ o \in open' <=> o \in open
                                 /\ resolutions'[o] \in pairs'[o] <=> resolutions[o] \in pairs[o]
    BY DEF Spent
  <2>3. ASSUME NEW o \in Promise \ {p}, Kind[o] # "combinator"
        PROVE  /\ Pending(o)' <=> o \in open' \/ resolutions'[o] \in pairs'[o]
                                    \/ Route(o) \in Keys(micro', reactions')
               /\ ~(o \in open' /\ resolutions'[o] \in pairs'[o])
               /\ ~(o \in open' /\ Route(o) \in Keys(micro', reactions'))
               /\ ~(resolutions'[o] \in pairs'[o] /\ Route(o) \in Keys(micro', reactions'))
    BY <2>2, <2>3, <1>4 DEF Inv, RouteInv
  <2> QED BY <2>1, <2>3, <1>4 DEF RouteInv
<1>8. AdoptingInv(micro)'
  BY <1>1, <1>4 DEF Inv, AdoptingInv
<1>9. SlotInv(micro)'
  BY <1>4 DEF Inv, SlotInv, IsAll
<1>10. AllMeansAll'
  <2>1. ASSUME NEW o \in made, IsAll(o)' PROVE AllBody(o)'
    <3>1. o \in Promise /\ AllBody(o) /\ IsAll(o)
      BY <2>1, AllMeans DEF IsAll, Inv, TypeOK
    <3>2. o # p
      BY <3>1, <1>2 DEF Inv, ShapeInv
    <3> QED BY <3>1, <3>2, <1>2, <1>4, <1>5, AllBodyKept
  <2> QED BY <2>1 DEF AllMeansAll, AllBody
<1> QED BY <1>5, <1>6, <1>7, <1>8, <1>9, <1>10 DEF Inv

\* The resolution goes on as a job: a first hop, or the call of a thenable.
LEMMA RouteQueued ==
    ASSUME Inv, NEW p \in Promise, Spent(p), Resolvable(p),
           NEW job \in Job, job[1] \in {"begin", "thenable"}, job[2] = p, Fit(job),
           micro' = Append(micro, job),
           adopting' \subseteq adopting \cup {p},
           p \in adopting' /\ p \notin adopting => \E inner \in Promise : job = AdoptionBegin(p, inner),
           UNCHANGED <<state, value, handled, reactions, rejected, owner, ran, after, adopted,
                       made, sources, values, remaining, aborted>>
    PROVE  Inv'
<1>1. /\ TypeOK /\ ShapeInv /\ Queues(micro, reactions) /\ Pending(p) /\ p \in made
      /\ OneEach(micro, reactions)
      /\ Route(p) \notin Keys(micro, reactions)
      /\ Kind[p] # "combinator" /\ micro \in Seq(Job)
  BY InvQueues DEF Inv, Resolvable, TypeOK
<1>2. Key(job) = Route(p)
  BY JobMembers
<1>3. /\ Queues(micro', reactions')
      /\ Held(micro', reactions') = Held(micro, reactions) \cup {job}
      /\ OneEach(micro', reactions')
  BY <1>1, <1>2, AppendOne
<1>4. /\ ToSet(micro') = ToSet(micro) \cup {job}
      /\ \A a, b : Ahead(micro, a, b) => Ahead(micro', a, b)
  BY <1>1, AppendHolds
<1>5. Keys(micro', reactions') = Keys(micro, reactions) \cup {Route(p)}
  BY <1>2, <1>3 DEF Keys
<1>6. TypeOK' /\ ShapeInv'
  <2>1. /\ state' \in [Promise -> {"pending", "fulfilled", "rejected"}]
        /\ value' \in [Promise -> Promise \cup {None}]
        /\ rejected' \in Seq(made)
        /\ \A o \in Promise \ {p} : state'[o] = state[o] /\ value'[o] = value[o]
    BY <1>1 DEF TypeOK
  <2>2. \A o \in Promise : reactions'[o] # <<>> => o \in made' /\ Pending(o)' /\ handled'[o]
    BY <1>1 DEF ShapeInv, Pending
  <2> QED BY <2>1, <2>2, <1>1, <1>3, SpentShape
<1>7. JobInv(micro)'
  <2>1. \A x \in Held(micro, reactions) : Fit(x)'
    BY DEF Inv, JobInv, Fit, Pending
  <2>2. Fit(job)'
    BY DEF Fit, Pending
  <2>3. \A x \in ToSet(micro) : Ripe(x)'
    BY DEF Inv, JobInv, Ripe, Pending
  <2>4. Ripe(job)'
    BY DEF Ripe
  <2>5. \A o \in Promise : \A x \in ToSet(reactions[o]) : WaitsFor(x, o)'
    BY DEF Inv, JobInv, WaitsFor
  <2> QED BY <1>3, <1>4, <2>1, <2>2, <2>3, <2>4, <2>5 DEF JobInv
<1>8. RouteInv(micro)'
  <2>1. p \notin open' /\ resolutions'[p] \notin pairs'[p] /\ Route(p) \in Keys(micro', reactions')
          /\ Pending(p)'
    BY <1>1, <1>5 DEF Spent, Pending
  <2>2. \A o \in Promise \ {p} : /\ o \in open' <=> o \in open
                                 /\ resolutions'[o] \in pairs'[o] <=> resolutions[o] \in pairs[o]
                                 /\ Pending(o)' <=> Pending(o)
    BY DEF Spent, Pending
  <2>3. \A o \in Promise \ {p} : Route(o) \in Keys(micro', reactions') <=> Route(o) \in Keys(micro, reactions)
    <3> TAKE o \in Promise \ {p}
    <3>1. Route(o)[2] = o /\ Route(p)[2] = p
      BY JobFields
    <3> QED BY <3>1, <1>5
  <2>4. ASSUME NEW o \in Promise \ {p}, Kind[o] # "combinator"
        PROVE  /\ Pending(o)' <=> o \in open' \/ resolutions'[o] \in pairs'[o]
                                    \/ Route(o) \in Keys(micro', reactions')
               /\ ~(o \in open' /\ resolutions'[o] \in pairs'[o])
               /\ ~(o \in open' /\ Route(o) \in Keys(micro', reactions'))
               /\ ~(resolutions'[o] \in pairs'[o] /\ Route(o) \in Keys(micro', reactions'))
    BY <2>2, <2>3, <2>4 DEF Inv, RouteInv
  <2> QED BY <2>1, <2>4 DEF RouteInv
<1>9. UserInv(micro)'
  BY <1>3 DEF Inv, UserInv
<1>10. \A n : UserJob(n) # job
  BY JobFields
<1>11. OrderInv(micro)'
  BY <1>4, <1>10 DEF Inv, OrderInv
<1>12. AdoptingInv(micro)'
  BY <1>4 DEF Inv, AdoptingInv
<1>13. AfterInv(micro)'
  <2>1. \A o, inner : AdoptionSettled(o, inner) # job
    BY JobFields
  <2> QED BY <2>1, <1>3, <1>4, HopsKept DEF Inv, AfterInv
<1>14. SlotInv(micro)'
  <2>1. \A o, i : CombinatorSlot(o, i) # job
    BY JobFields
  <2> QED BY <2>1, <1>3 DEF Inv, SlotInv, IsAll
<1>15. SettlementCarried'
  BY DEF Inv, SettlementCarried, Pending
<1>16. AllMeansAll'
  BY AllUnchanged DEF Inv
<1>17. Noted'
  <2>1. \A o \in made : Observed(o)' => handled'[o]
    BY DEF Inv, Noted, Observed
  <2> QED BY <2>1 DEF Inv, Noted
<1> QED BY <1>3, <1>6, <1>7, <1>8, <1>9, <1>11, <1>12, <1>13, <1>14, <1>15, <1>16, <1>17 DEF Inv

LEMMA AdoptKeeps ==
    ASSUME Inv, NEW p \in Promise, Spent(p), Resolvable(p), NEW inner \in made, Adopt(p, inner),
           UNCHANGED <<made, sources, values, remaining, aborted>>
    PROVE  Inv'
<1>1. inner \in Promise
  BY DEF Inv, TypeOK
<1>2. PICK job \in Job : job = AdoptionBegin(p, inner)
  BY <1>1, JobMembers
<1>3. job[1] = "begin" /\ job[2] = p /\ job[3] = inner
  BY <1>2, JobFields
<1>4. Fit(job)
  BY <1>3 DEF Fit, Resolvable
<1>5. /\ micro' = Append(micro, job)
      /\ adopting' \subseteq adopting \cup {p}
      /\ UNCHANGED <<state, value, handled, reactions, rejected, owner, ran, after, adopted>>
  BY <1>2 DEF Adopt
<1> QED BY <1>1, <1>2, <1>3, <1>4, <1>5, RouteQueued

LEMMA FrameReturnKeeps ==
    ASSUME Inv, NEW p \in Promise, FrameReturn(p)
    PROVE  Inv'
<1>1. Spent(p) /\ Resolvable(p)
  BY FrameSpent
<1>2. UNCHANGED <<made, sources, values, remaining, aborted>>
  BY DEF FrameReturn
<1>3. \/ \E outcome \in {"fulfilled", "rejected"} : SettleNow(p, outcome)
      \/ \E inner \in made : Adopt(p, inner)
  BY DEF FrameReturn
<1> QED BY <1>1, <1>2, <1>3, SettleNowKeeps, AdoptKeeps

LEMMA ResolveKeeps ==
    ASSUME Inv, NEW p \in Promise, NEW pair \in pairs[p], Resolve(p, pair)
    PROVE  Inv'
<1>1. Spent(p) /\ Resolvable(p) /\ Kind[p] = "executor"
  BY ResolveSpent
<1>2. UNCHANGED <<made, sources, values, remaining, aborted>>
  BY DEF Resolve
<1>3. \/ \E outcome \in {"fulfilled", "rejected"} : SettleNow(p, outcome)
      \/ \E inner \in made : Adopt(p, inner)
      \/ /\ micro' = Append(micro, ThenableJob(p))
         /\ UNCHANGED <<state, value, handled, reactions, rejected, history>>
  BY DEF Resolve
<1>4. CASE /\ micro' = Append(micro, ThenableJob(p))
           /\ UNCHANGED <<state, value, handled, reactions, rejected, history>>
  <2>1. PICK job \in Job : job = ThenableJob(p)
    BY JobMembers
  <2>2. job[1] = "thenable" /\ job[2] = p
    BY <2>1, JobFields
  <2>3. Fit(job)
    BY <2>2, <1>1 DEF Fit, Resolvable
  <2>4. /\ micro' = Append(micro, job)
        /\ adopting' = adopting
        /\ UNCHANGED <<state, value, handled, reactions, rejected, owner, ran, after, adopted>>
    BY <2>1, <1>4 DEF history
  <2> QED BY <2>2, <2>3, <2>4, <1>1, <1>2, RouteQueued
<1> QED BY <1>1, <1>2, <1>3, <1>4, SettleNowKeeps, AdoptKeeps

LEMMA UnchangedKeeps ==
    ASSUME Inv, UNCHANGED <<promiseVars, micro, rejected, history>>, aborted' \in BOOLEAN
    PROVE  Inv'
<1> USE DEF promiseVars, history
<1>1. TypeOK'
  BY DEF Inv, TypeOK, IsAll
<1>2. ShapeInv'
  BY DEF Inv, ShapeInv, Pending, IsAll
<1>3. JobInv(micro)'
  BY DEF Inv, JobInv, Fit, Ripe, WaitsFor, Pending
<1>4. OneEach(micro, reactions)'
  BY DEF Inv
<1>5. RouteInv(micro)'
  BY DEF Inv, RouteInv, Pending
<1>6. UserInv(micro)' /\ OrderInv(micro)'
  BY DEF Inv, UserInv, OrderInv
<1>7. AdoptingInv(micro)' /\ AfterInv(micro)'
  BY DEF Inv, AdoptingInv, AfterInv
<1>8. SlotInv(micro)'
  BY DEF Inv, SlotInv, IsAll
<1>9. SettlementCarried'
  BY DEF Inv, SettlementCarried, Pending
<1>10. AllMeansAll'
  BY AllUnchanged DEF Inv
<1>11. Noted'
  <2>1. \A o \in made : Observed(o)' => handled'[o]
    BY DEF Inv, Noted, Observed
  <2> QED BY <2>1 DEF Inv, Noted
<1> QED BY <1>1, <1>2, <1>3, <1>4, <1>5, <1>6, <1>7, <1>8, <1>9, <1>10, <1>11 DEF Inv

LEMMA ResolveAbortsKeeps ==
    ASSUME Inv, NEW p \in Promise, NEW pair \in pairs[p], ResolveAborts(p, pair)
    PROVE  Inv'
BY UnchangedKeeps DEF ResolveAborts

(***************************************************************************)
(* Making a combinator.                                                    *)
(***************************************************************************)
LEMMA MakeCombinatorKeeps ==
    ASSUME Inv, NEW p \in Promise, NEW elements \in Elements, NEW all \in BOOLEAN,
           MakeCombinator(p, elements, all)
    PROVE  Inv'
<1> DEFINE pend == {o \in Promise : Pending(o)}
           Slots(I) == {CombinatorSlot(p, i) : i \in I}
<1>1. PICK n \in 0 .. MaxElements : elements \in [1 .. n -> made]
  BY DEF Elements
<1>2. /\ made \subseteq Promise
      /\ elements \in [1 .. n -> Promise] /\ elements \in Seq(made)
      /\ Len(elements) = n /\ DOMAIN elements = 1 .. n /\ n \in Nat
      /\ 1 .. n \subseteq 1 .. MaxElements
  <2>1. n \in Nat /\ n <= MaxElements /\ made \subseteq Promise
    BY PromisesAssumption DEF Inv, TypeOK
  <2> QED BY <1>1, <2>1, PromisesAssumption
<1>3. elements = <<>> <=> n = 0
  <2>1. CASE n = 0
    <3>1. Len(elements) = 0 /\ elements \in Seq(made)
      BY <2>1, <1>2
    <3> QED BY <3>1, <2>1
  <2>2. CASE n # 0
    <3>1. elements # <<>>
      BY <2>2, <1>2
    <3> QED BY <3>1, <2>2
  <2> QED BY <2>1, <2>2
<1>4. /\ p \notin made /\ Kind[p] = "combinator" /\ Pending(p) /\ value[p] = None
      /\ sources[p] = <<>> /\ values[p] = None
  BY DEF MakeCombinator, Inv, ShapeInv
<1>5. /\ made' = made \cup {p}
      /\ sources' = [sources EXCEPT ![p] = elements]
      /\ values' = [values EXCEPT ![p] = IF all THEN ResultArray(elements) ELSE None]
      /\ remaining' = [remaining EXCEPT ![p] = n]
      /\ handled' = [q \in Promise |->
                       handled[q] \/ \E i \in 1 .. n : elements[i] = q]
      /\ state' = [state EXCEPT ![p] = IF all /\ n = 0 THEN "fulfilled" ELSE "pending"]
      /\ value' = [value EXCEPT ![p] = IF all /\ n = 0 THEN p ELSE None]
      /\ UNCHANGED <<resolutions, pairs, open, rejected, aborted, owner, ran, adopting, after, adopted>>
  BY <1>2, <1>3 DEF MakeCombinator, history
<1>6. PICK t : t = micro' /\ t = micro \o SlotsAt(p, {i \in DOMAIN elements : elements[i] \notin pend})
  <2>1. {i \in DOMAIN elements : elements[i] \notin pend}
          = {i \in DOMAIN elements : ~Pending(elements[i])}
    BY <1>2
  <2>2. micro' = micro \o SlotsAt(p, {i \in DOMAIN elements : ~Pending(elements[i])})
    BY DEF MakeCombinator
  <2> HIDE DEF pend
  <2> QED BY <2>1, <2>2
<1>7. PICK T : /\ T = reactions'
               /\ T = [o \in Promise |->
                         Reverse(SlotsAt(p, {i \in DOMAIN elements :
                                               elements[i] = o /\ o \in pend})) \o reactions[o]]
  <2>1. \A o \in Promise : {i \in DOMAIN elements : elements[i] = o /\ o \in pend}
                             = {i \in DOMAIN elements : elements[i] = o /\ Pending(o)}
    OBVIOUS
  <2>2. reactions' = [o \in Promise |->
                        Reverse(SlotsAt(p, {i \in DOMAIN elements :
                                               elements[i] = o /\ Pending(o)})) \o reactions[o]]
    BY DEF MakeCombinator
  <2> HIDE DEF pend
  <2> QED BY <2>1, <2>2
<1>8. /\ Queues(micro, reactions) /\ OneEach(micro, reactions)
      /\ \A x \in Held(micro, reactions) : x \in Job /\ Fit(x)
  BY InvQueues DEF Inv
<1>9. \A i : CombinatorSlot(p, i) \notin Held(micro, reactions)
  <2> SUFFICES ASSUME NEW i, CombinatorSlot(p, i) \in Held(micro, reactions) PROVE FALSE
    OBVIOUS
  <2>1. CombinatorSlot(p, i)[1] = "slot" /\ CombinatorSlot(p, i)[2] = p
    BY JobFields
  <2> QED BY <2>1, <1>4, <1>8 DEF Fit
<1>10. pend \in SUBSET Promise
  OBVIOUS
<1>11. /\ Queues(t, T)
       /\ ToSet(t) = ToSet(micro) \cup Slots({j \in 1 .. n : elements[j] \notin pend})
       /\ \A o \in Promise :
             ToSet(T[o]) = ToSet(reactions[o]) \cup Slots({j \in 1 .. n : elements[j] = o /\ o \in pend})
       /\ \A a, b : Ahead(micro, a, b) => Ahead(t, a, b)
       /\ \A o \in Promise : \A a, b : Ahead(reactions[o], a, b) => Ahead(T[o], a, b)
       /\ Held(t, T) = Held(micro, reactions) \cup Slots(1 .. n)
       /\ OneEach(t, T)
  <2>1. Shared(micro, reactions, p, elements, pend, t, T)
    BY <1>6, <1>7 DEF Shared
  <2> HIDE DEF pend
  <2>2. Dealt(micro, reactions, p, n, elements, pend, t, T)
    <3> HIDE DEF Slots
    <3> QED BY <1>2, <1>8, <1>10, <2>1, SlotsMany
  <2>3. OneEach(t, T)
    BY <2>2, <1>8, <1>9 DEF Dealt
  <2> QED BY <2>2, <2>3 DEF Dealt, SlotSet
<1>12. /\ t = micro' /\ T = reactions'
  BY <1>6, <1>7
<1> HIDE DEF MakeCombinator
<1>13. /\ state' \in [Promise -> {"pending", "fulfilled", "rejected"}]
       /\ value' \in [Promise -> Promise \cup {None}]
       /\ \A o \in Promise \ {p} : state'[o] = state[o] /\ value'[o] = value[o]
       /\ \A o \in Promise \ {p} : Pending(o)' <=> Pending(o)
       /\ state'[p] = IF all /\ n = 0 THEN "fulfilled" ELSE "pending"
       /\ value'[p] = IF all /\ n = 0 THEN p ELSE None
  BY <1>5 DEF Inv, TypeOK, Pending
<1>14. /\ handled' \in [Promise -> BOOLEAN]
       /\ \A o \in Promise : handled[o] => handled'[o]
       /\ \A i \in 1 .. n : handled'[elements[i]]
       /\ \A o \in Promise : handled'[o] => handled[o] \/ \E i \in 1 .. n : elements[i] = o
  BY <1>2, <1>5 DEF Inv, TypeOK
<1>15. /\ sources' \in [Promise -> Seq(made')]
       /\ sources'[p] = elements /\ \A o \in Promise \ {p} : sources'[o] = sources[o]
  <2>1. \A S : S \in Seq(made) => S \in Seq(made')
    BY <1>5
  <2>2. sources \in [Promise -> Seq(made)]
    BY DEF Inv, TypeOK
  <2> QED BY <2>1, <2>2, <1>2, <1>5
<1>16. /\ DOMAIN values' = Promise
       /\ values'[p] = IF all THEN ResultArray(elements) ELSE None
       /\ \A o \in Promise \ {p} : values'[o] = values[o]
  BY <1>5 DEF Inv, ShapeInv
<1>17. IsAll(p)' => /\ all /\ values'[p] = [i \in 1 .. n |-> None]
                    /\ values'[p] \in Seq(Promise \cup {None}) /\ Len(values'[p]) = n
                    /\ DOMAIN values'[p] = 1 .. n
                    /\ \A i \in 1 .. n : values'[p][i] = None
  <2> SUFFICES ASSUME IsAll(p)' PROVE /\ all /\ values'[p] = [i \in 1 .. n |-> None]
                    /\ values'[p] \in Seq(Promise \cup {None}) /\ Len(values'[p]) = n
                    /\ DOMAIN values'[p] = 1 .. n
                    /\ \A i \in 1 .. n : values'[p][i] = None
    OBVIOUS
  <2>1. all /\ values'[p] = [i \in 1 .. n |-> None]
    BY <1>2, <1>16 DEF IsAll, ResultArray
  <2>2. [i \in 1 .. n |-> None] \in [1 .. n -> Promise \cup {None}]
    OBVIOUS
  <2> QED BY <2>1, <2>2, <1>2
<1>18. /\ remaining' \in [Promise -> 0 .. MaxElements] /\ remaining'[p] = n
       /\ \A o \in Promise \ {p} : remaining'[o] = remaining[o]
  BY <1>5 DEF Inv, TypeOK
<1>19. \A o \in Promise : IsAll(o)' => o = p \/ IsAll(o)
  BY <1>16 DEF IsAll
<1>20. TypeOK'
  <2>1. open' \subseteq made' /\ made' \subseteq Promise /\ adopting' \cup adopted' \subseteq made'
    BY <1>2, <1>5 DEF Inv, TypeOK
  <2>2. rejected' \in Seq(made')
    BY <1>5 DEF Inv, TypeOK
  <2>3. \A o \in Promise : Len(sources'[o]) <= MaxElements
    <3>1. Len(sources'[p]) <= MaxElements
      BY <1>2, <1>15, PromisesAssumption
    <3>2. \A o \in Promise \ {p} : Len(sources'[o]) <= MaxElements
      BY <1>15 DEF Inv, TypeOK
    <3> QED BY <3>1, <3>2
  <2>4. \A o \in Promise : IsAll(o)' => /\ values'[o] \in Seq(Promise \cup {None})
                                        /\ Len(values'[o]) = Len(sources'[o])
    BY <1>2, <1>15, <1>16, <1>17, <1>19 DEF Inv, TypeOK
  <2>5. micro' \in Seq(Job) /\ reactions' \in [Promise -> Seq(Job)]
    BY <1>11, <1>12 DEF Queues
  <2> QED BY <1>5, <1>13, <1>14, <1>15, <1>18, <2>1, <2>2, <2>3, <2>4, <2>5 DEF Inv, TypeOK
<1>21. ASSUME NEW o \in Promise, reactions'[o] # <<>>
       PROVE  o \in made' /\ Pending(o)' /\ handled'[o]
  <2>1. CASE reactions[o] # <<>>
    <3>1. o \in made /\ Pending(o) /\ handled[o]
      BY <2>1 DEF Inv, ShapeInv
    <3>2. o # p
      BY <3>1, <1>4
    <3> QED BY <3>1, <3>2, <1>5, <1>13, <1>14
  <2>2. CASE reactions[o] = <<>>
    <3>1. T[o] \in Seq(Job) /\ T[o] # <<>>
      BY <1>11, <1>12, <1>21 DEF Queues
    <3>2. 1 \in DOMAIN T[o]
      BY <3>1
    <3>3. T[o][1] \in ToSet(T[o]) /\ ToSet(reactions[o]) = {}
      BY <3>2, <2>2 DEF ToSet
    <3>4. PICK j \in 1 .. n : elements[j] = o /\ o \in pend
      BY <3>3, <1>11
    <3>5. o \in made /\ Pending(o)
      BY <3>4, <1>1
    <3>6. o # p /\ handled'[o]
      BY <3>4, <3>5, <1>4, <1>14
    <3> QED BY <3>5, <3>6, <1>5, <1>13
  <2> QED BY <2>1, <2>2
<1>22. ShapeInv'
  <2>1. Len(owner') <= MaxJobs /\ owner' \in Seq(made' \cup {None})
    BY <1>5 DEF Inv, ShapeInv
  <2>2. ASSUME NEW o \in Promise
        PROVE /\ o \notin made' => /\ Kind[o] = "combinator" /\ Pending(o)' /\ value'[o] = None
                                   /\ sources'[o] = <<>> /\ values'[o] = None
              /\ o \in open' => Kind[o] = "frame"
              /\ pairs'[o] # {} => Kind[o] = "executor"
              /\ IsAll(o)' => Kind[o] = "combinator"
              /\ \A pair \in pairs'[o] : pair <= resolutions'[o]
              /\ o \in adopting' \/ after'[o] # {} => Kind[o] # "combinator"
    <3>1. o \notin made' => o # p /\ o \notin made
      BY <1>5
    <3>2. o \notin made' => /\ Kind[o] = "combinator" /\ Pending(o)' /\ value'[o] = None
                            /\ sources'[o] = <<>> /\ values'[o] = None
      BY <3>1, <1>13, <1>15, <1>16 DEF Inv, ShapeInv
    <3>3. IsAll(o)' => Kind[o] = "combinator"
      BY <1>4, <1>19 DEF Inv, ShapeInv
    <3> QED BY <3>2, <3>3, <1>5 DEF Inv, ShapeInv
  <2> QED BY <2>1, <2>2, <1>16, <1>21 DEF ShapeInv
<1>23. \A i \in 1 .. n : /\ CombinatorSlot(p, i)[1] = "slot" /\ CombinatorSlot(p, i)[2] = p
                         /\ CombinatorSlot(p, i)[3] = i /\ elements[i] \in made
                         /\ elements[i] \in Promise /\ elements[i] # p
  BY <1>1, <1>2, <1>4, JobFields
<1>24. JobInv(micro)'
  <2>1. ASSUME NEW x \in Held(micro, reactions) PROVE Fit(x)'
    <3>1. x \in Job /\ Fit(x)
      BY <1>8
    <3>2. x[1] \in {"begin", "settled", "thenable"} => x[2] \in made' /\ Pending(x[2])'
      BY <3>1, <1>2, <1>4, <1>5, <1>13 DEF Fit
    <3>3. x[1] = "slot" => x[2] \in Promise /\ x[2] # p /\ sources'[x[2]] = sources[x[2]]
      BY <3>1, <1>2, <1>4, <1>15 DEF Fit
    <3> QED BY <3>1, <3>2, <3>3, <1>5 DEF Fit
  <2>2. ASSUME NEW i \in 1 .. n PROVE Fit(CombinatorSlot(p, i))'
    <3>1. i \in DOMAIN sources'[p] /\ p \in made' /\ Kind[p] = "combinator"
      BY <1>2, <1>4, <1>5, <1>15
    <3> QED BY <3>1, <1>23 DEF Fit
  <2>3. \A o \in Promise : ~Pending(o) => ~Pending(o)'
    BY <1>4, <1>13
  <2>4. ASSUME NEW x \in ToSet(micro) PROVE Ripe(x)'
    <3>1. Ripe(x) /\ x \in Job /\ Fit(x)
      BY <1>8, HeldWhere DEF Inv, JobInv
    <3>2. x[1] = "user" => owner[x[2]] \in Promise \cup {None}
      <4>1. \A i \in 1 .. Len(owner) : owner[i] \in Promise \cup {None}
        BY InvQueues
      <4> QED BY <3>1, <4>1 DEF Fit
    <3>3. x[1] = "settled" => x[3] \in Promise
      BY <3>1, JobForms
    <3>4. x[1] = "slot" => x[2] \in Promise \ {p} /\ sources'[x[2]] = sources[x[2]]
                             /\ sources[x[2]][x[3]] \in Promise
      BY <3>1, <1>2, <1>4, <1>15, SourcesTyped DEF Fit, Inv
    <3> QED BY <3>1, <3>2, <3>3, <3>4, <2>3, <1>5 DEF Ripe
  <2>5. ASSUME NEW i \in 1 .. n, elements[i] \notin pend PROVE Ripe(CombinatorSlot(p, i))'
    <3>1. ~Pending(elements[i])'
      BY <2>3, <2>5, <1>23
    <3> QED BY <3>1, <1>15, <1>23 DEF Ripe
  <2>6. ASSUME NEW o \in Promise, NEW x \in ToSet(reactions[o]) PROVE WaitsFor(x, o)'
    <3>1. WaitsFor(x, o) /\ Fit(x) /\ x \in Job
      BY <1>8, HeldWhere DEF Inv, JobInv
    <3>2. x[1] = "slot" => x[2] \in Promise \ {p} /\ sources'[x[2]] = sources[x[2]]
      BY <3>1, <1>2, <1>4, <1>15 DEF Fit
    <3> QED BY <3>1, <3>2, <1>5 DEF WaitsFor
  <2>7. ASSUME NEW i \in 1 .. n PROVE WaitsFor(CombinatorSlot(p, i), elements[i])'
    BY <1>15, <1>23 DEF WaitsFor
  <2>8. \A x \in Held(t, T) : Fit(x)'
    BY <2>1, <2>2, <1>11
  <2>9. \A x \in ToSet(t) : Ripe(x)'
    BY <2>4, <2>5, <1>11
  <2>10. ASSUME NEW o \in Promise, NEW x \in ToSet(T[o]) PROVE WaitsFor(x, o)'
    <3>1. CASE x \in ToSet(reactions[o])
      BY <3>1, <2>6
    <3>2. CASE x \notin ToSet(reactions[o])
      <4>1. PICK i \in 1 .. n : elements[i] = o /\ x = CombinatorSlot(p, i)
        BY <3>2, <2>10, <1>11
      <4> QED BY <4>1, <2>7
    <3> QED BY <3>1, <3>2
  <2> QED BY <2>8, <2>9, <2>10, <1>12 DEF JobInv
<1>25. RouteInv(micro)'
  <2>1. \A o \in Promise : Route(o) \in Keys(t, T) <=> Route(o) \in Keys(micro, reactions)
    <3> TAKE o \in Promise
    <3>1. Route(o) \in Keys(t, T) <=>
             \E x \in Held(t, T) : x[1] \in {"begin", "settled", "thenable"} /\ x[2] = o
      BY <1>11, RouteHeld
    <3>2. Route(o) \in Keys(micro, reactions) <=>
             \E x \in Held(micro, reactions) : x[1] \in {"begin", "settled", "thenable"} /\ x[2] = o
      BY <1>8, RouteHeld
    <3>3. \A x \in Held(t, T) : x \in Held(micro, reactions) \/ x[1] = "slot"
      BY <1>11, <1>23
    <3>4. \A x \in Held(micro, reactions) : x \in Held(t, T)
      BY <1>11
    <3> QED BY <3>1, <3>2, <3>3, <3>4
  <2>2. \A o \in Promise : Kind[o] # "combinator" => (Pending(o)' <=> Pending(o))
    BY <1>4, <1>13
  <2> QED BY <2>1, <2>2, <1>5, <1>12 DEF Inv, RouteInv
<1>26. UserInv(micro)'
  BY <1>5, <1>11, <1>12 DEF Inv, UserInv
<1>27. OrderInv(micro)'
  <2>1. \A m : UserJob(m) \in ToSet(t) => UserJob(m) \in ToSet(micro)
    BY <1>11, UserJobsDiffer
  <2>2. \A o \in Promise : \A m : UserJob(m) \in ToSet(T[o]) => UserJob(m) \in ToSet(reactions[o])
    BY <1>11, UserJobsDiffer
  <2> QED BY <2>1, <2>2, <1>5, <1>11, <1>12 DEF Inv, OrderInv
<1>28. AdoptingInv(micro)'
  BY <1>5, <1>11, <1>12 DEF Inv, AdoptingInv
<1>29. AfterInv(micro)'
  <2>1. \A o : HopHeld(o, micro, reactions) => HopHeld(o, t, T)
    BY <1>11, HopsKept
  <2>2. \A o, inner : AdoptionSettled(o, inner) \in ToSet(t) => AdoptionSettled(o, inner) \in ToSet(micro)
    BY <1>11, UserJobsDiffer
  <2> QED BY <2>1, <2>2, <1>5, <1>11, <1>12 DEF Inv, AfterInv
<1>30. SlotInv(micro)'
  <2> SUFFICES ASSUME NEW o \in Promise, NEW i \in 1 .. MaxElements,
                      CombinatorSlot(o, i) \in Held(t, T), IsAll(o)'
               PROVE  values'[o][i] = None
    BY <1>12 DEF SlotInv
  <2>1. CASE o = p
    <3>1. i \in 1 .. n
      BY <2>1, <1>9, <1>11, JobFields
    <3> QED BY <3>1, <2>1, <1>17
  <2>2. CASE o # p
    <3>1. CombinatorSlot(o, i) \in Held(micro, reactions)
      BY <2>2, <1>11, JobFields
    <3> QED BY <3>1, <2>2, <1>16, <1>19 DEF Inv, SlotInv
  <2> QED BY <2>1, <2>2
<1>31. SettlementCarried'
  <2>1. p \in Promise /\ p # None
    BY PromisesAssumption
  <2>2. Pending(p)' <=> value'[p] = None
    BY <1>13, <2>1 DEF Pending
  <2>3. ~Pending(p)' => state'[value'[p]] = state'[p] /\ value'[value'[p]] = value'[p]
    BY <1>13 DEF Pending
  <2>4. ASSUME NEW o \in made
        PROVE  /\ Pending(o)' <=> value'[o] = None
               /\ ~Pending(o)' => state'[value'[o]] = state'[o] /\ value'[value'[o]] = value'[o]
    <3>1. o \in Promise \ {p}
      BY <1>2, <1>4
    <3>2. Pending(o) <=> value[o] = None
      BY DEF Inv, SettlementCarried
    <3>3. ~Pending(o) => /\ state[value[o]] = state[o] /\ value[value[o]] = value[o]
                         /\ value[o] \in Promise \ {p}
      <4> SUFFICES ASSUME ~Pending(o)
                   PROVE  /\ state[value[o]] = state[o] /\ value[value[o]] = value[o]
                          /\ value[o] \in Promise \ {p}
        OBVIOUS
      <4>1. state[value[o]] = state[o] /\ value[value[o]] = value[o] /\ value[o] # None
        BY DEF Inv, SettlementCarried
      <4>2. value[o] \in Promise
        BY <3>1, <4>1 DEF Inv, TypeOK
      <4>3. value[o] # p
        BY <4>1, <1>4 DEF Pending
      <4> QED BY <4>1, <4>2, <4>3
    <3> QED BY <3>1, <3>2, <3>3, <1>13
  <2> QED BY <2>2, <2>3, <2>4, <1>5 DEF SettlementCarried
<1>32. AllMeansAll'
  <2>1. \A o \in Promise : state[o] \in {"fulfilled", "rejected"} =>
           state'[o] = state[o] /\ value'[o] = value[o]
    BY <1>4, <1>13 DEF Pending
  <2>2. ASSUME NEW o \in made, IsAll(o)' PROVE AllBody(o)'
    <3>1. o \in Promise \ {p} /\ IsAll(o)
      BY <2>2, <1>2, <1>4, <1>19
    <3>2. AllBody(o)
      BY <3>1, <2>2, AllMeans DEF Inv
    <3>3. UNCHANGED <<values[o], remaining[o], sources[o], state[o], value[o]>>
      BY <3>1, <1>13, <1>15, <1>16, <1>18
    <3> QED BY <3>1, <3>2, <3>3, <2>1, AllBodyKept DEF Inv
  <2>3. ASSUME IsAll(p)' PROVE AllBody(p)'
    <3>1. {i \in DOMAIN values'[p] : values'[p][i] = None} = 1 .. n
      BY <2>3, <1>17
    <3>2. Cardinality(1 .. n) = n
      BY <1>2, FS_Interval
    <3>3. remaining'[p] = Cardinality({i \in DOMAIN values'[p] : values'[p][i] = None})
      BY <3>1, <3>2, <1>18
    <3>4. state'[p] = "fulfilled" <=> remaining'[p] = 0
      BY <2>3, <1>13, <1>17, <1>18
    <3>5. state'[p] # "rejected"
      BY <1>13
    <3>6. \A i \in DOMAIN values'[p] : values'[p][i] = None
      BY <2>3, <1>17
    <3> QED BY <3>3, <3>4, <3>5, <3>6 DEF AllBody
  <2>4. \A o \in made' : IsAll(o)' => AllBody(o)'
    BY <2>2, <2>3, <1>5
  <2> QED BY <2>4 DEF AllMeansAll, AllBody
<1>33. Noted'
  <2>1. ASSUME NEW o \in made', Observed(o)' PROVE handled'[o]
    <3>0. o \in Promise
      BY <1>2, <1>5
    <3>1. CASE \E m \in 1 .. Len(owner') : owner'[m] = o
      <4>1. owner \in Seq(made \cup {None}) /\ owner' = owner
        BY <1>5 DEF Inv, ShapeInv
      <4>2. PICK m \in 1 .. Len(owner) : owner[m] = o
        BY <3>1, <4>1
      <4>3. o \in made
        BY <4>1, <4>2, <3>0, PromisesAssumption
      <4>4. Observed(o)
        BY <4>2 DEF Observed
      <4>5. handled[o]
        BY <4>3, <4>4 DEF Inv, Noted
      <4> QED BY <3>0, <4>5, <1>14
    <3>2. ASSUME NEW q \in made', NEW i \in 1 .. MaxElements,
                 i \in DOMAIN sources'[q], sources'[q][i] = o
          PROVE  handled'[o]
      <4>1. CASE q = p
        BY <3>2, <4>1, <1>2, <1>14, <1>15
      <4>2. CASE q # p
        <5>1. q \in made /\ q \in Promise /\ sources'[q] = sources[q]
          BY <4>2, <1>2, <1>5, <1>15
        <5>2. o \in made /\ Observed(o)
          BY <5>1, <3>2, SourcesTyped DEF Inv, Observed
        <5>3. handled[o]
          BY <5>2 DEF Inv, Noted
        <5> QED BY <3>0, <5>3, <1>14
      <4> QED BY <4>1, <4>2
    <3>3. CASE o \in adopted'
      <4>1. o \in made /\ Observed(o)
        BY <3>3, <1>5 DEF Inv, TypeOK, Observed
      <4>2. handled[o]
        BY <4>1 DEF Inv, Noted
      <4> QED BY <3>0, <4>2, <1>14
    <3> QED BY <2>1, <3>1, <3>2, <3>3 DEF Observed
  <2>3. \A i \in DOMAIN rejected : state'[rejected[i]] = "rejected"
    <3> TAKE i \in DOMAIN rejected
    <3>1. rejected[i] \in made /\ state[rejected[i]] = "rejected"
      BY DEF Inv, Noted, TypeOK
    <3> QED BY <3>1, <1>2, <1>4, <1>13
  <2>4. \A i, j \in DOMAIN rejected : rejected[i] = rejected[j] => i = j
    BY DEF Inv, Noted
  <2> QED BY <2>1, <2>3, <2>4, <1>5 DEF Noted
<1>34. OneEach(micro, reactions)'
  BY <1>11, <1>12
<1> QED BY <1>20, <1>22, <1>24, <1>25, <1>26, <1>27, <1>28, <1>29, <1>30, <1>31, <1>32, <1>33,
           <1>34 DEF Inv

(***************************************************************************)
(* Running a job.  job has been shifted off the queue, which leaves q.     *)
(***************************************************************************)
Shift(q, job) ==
    /\ micro # <<>>
    /\ q = Tail(micro)
    /\ job = Head(micro)

LEMMA ShiftHolds ==
    ASSUME Inv, NEW q, NEW job, Shift(q, job)
    PROVE  /\ Queues(q, reactions)
           /\ OneEach(q, reactions)
           /\ job \in Job /\ Fit(job) /\ Ripe(job)
           /\ Held(micro, reactions) = Held(q, reactions) \cup {job}
           /\ ToSet(micro) = ToSet(q) \cup {job}
           /\ Key(job) \notin Keys(q, reactions)
           /\ job \notin Held(q, reactions)
           /\ \A a, b : Ahead(micro, a, b) /\ a # job => Ahead(q, a, b)
           /\ \A a : ~Ahead(micro, a, job)
           /\ Keys(micro, reactions) = Keys(q, reactions) \cup {Key(job)}
<1>1. Queues(micro, reactions) /\ OneEach(micro, reactions) /\ micro \in Seq(Job)
        /\ \A x \in Held(micro, reactions) : x \in Job /\ Fit(x)
  BY InvQueues DEF Inv, TypeOK
<1>2. /\ Queues(q, reactions)
      /\ job \in Job
      /\ job \in ToSet(micro)
      /\ job \in Held(micro, reactions)
      /\ Held(micro, reactions) = Held(q, reactions) \cup {job}
      /\ Key(job) \notin Keys(q, reactions)
      /\ OneEach(q, reactions)
      /\ \A a : ~Ahead(micro, a, job)
  BY <1>1, TailOne DEF Shift
<1>3. /\ ToSet(micro) = ToSet(q) \cup {job}
      /\ \A a, b : Ahead(micro, a, b) /\ a # job => Ahead(q, a, b)
  BY <1>1, TailHolds DEF Shift
<1>4. Fit(job) /\ Ripe(job)
  BY <1>1, <1>2 DEF Inv, JobInv
<1>5. job \notin Held(q, reactions)
  BY <1>2, HeldWhere
<1>6. Keys(micro, reactions) = Keys(q, reactions) \cup {Key(job)}
  BY <1>2 DEF Keys
<1> QED BY <1>2, <1>3, <1>4, <1>5, <1>6

LEMMA ShiftKeeps ==
    ASSUME Inv, NEW q, NEW job, Shift(q, job)
    PROVE  /\ JobInv(q)
           /\ SlotInv(q)
           /\ job[1] = "slot" /\ IsAll(job[2]) => values[job[2]][job[3]] = None
           /\ job[1] # "user" => UserInv(q) /\ OrderInv(q)
           /\ job[1] \in {"thenable", "slot"} => AfterInv(q)
           /\ job[1] = "settled" => AfterInv(q) /\ after[job[2]] \subseteq ran
<1>1. /\ Queues(q, reactions)
      /\ OneEach(q, reactions)
      /\ job \in Job /\ Fit(job) /\ Ripe(job)
      /\ Held(micro, reactions) = Held(q, reactions) \cup {job}
      /\ ToSet(micro) = ToSet(q) \cup {job}
      /\ Key(job) \notin Keys(q, reactions)
      /\ job \notin Held(q, reactions)
      /\ \A a, b : Ahead(micro, a, b) /\ a # job => Ahead(q, a, b)
      /\ \A a : ~Ahead(micro, a, job)
  BY ShiftHolds
<1>2. JobInv(q)
  BY <1>1 DEF Inv, JobInv
<1>3. SlotInv(q)
  BY <1>1 DEF Inv, SlotInv
<1>4. job[1] = "slot" /\ IsAll(job[2]) => values[job[2]][job[3]] = None
  <2> SUFFICES ASSUME job[1] = "slot", IsAll(job[2]) PROVE values[job[2]][job[3]] = None
    OBVIOUS
  <2>1. job = CombinatorSlot(job[2], job[3]) /\ job[2] \in Promise /\ job[3] \in 1 .. MaxElements
    BY <1>1, JobForms
  <2>2. CombinatorSlot(job[2], job[3]) \in Held(micro, reactions)
    BY <2>1, <1>1
  <2> QED BY <2>1, <2>2 DEF Inv, SlotInv
<1>5. job[1] # "user" => UserInv(q) /\ OrderInv(q)
  <2> SUFFICES ASSUME job[1] # "user" PROVE UserInv(q) /\ OrderInv(q)
    OBVIOUS
  <2>1. \A n : UserJob(n) # job
    BY JobFields
  <2>2. UserInv(q)
    BY <2>1, <1>1 DEF Inv, UserInv
  <2>3. OrderInv(q)
    BY <2>1, <1>1 DEF Inv, OrderInv
  <2> QED BY <2>2, <2>3
<1>6. ASSUME NEW o \in Promise, NEW n \in after[o] \ ran, job[1] # "user", job[1] # "begin"
      PROVE  /\ UserJob(n) \in ToSet(q)
             /\ HopHeld(o, q, reactions)
             /\ \A inner \in Promise : AdoptionSettled(o, inner) \in ToSet(q) =>
                   Ahead(q, UserJob(n), AdoptionSettled(o, inner))
             /\ job[1] = "settled" => job[2] # o
  <2>1. UserJob(n) # job
    BY <1>6, JobFields
  <2>2. /\ UserJob(n) \in ToSet(micro)
        /\ HopHeld(o, micro, reactions)
        /\ \A inner \in Promise : AdoptionSettled(o, inner) \in ToSet(micro) =>
              Ahead(micro, UserJob(n), AdoptionSettled(o, inner))
    BY DEF Inv, AfterInv
  <2>3. \A inner \in Promise : AdoptionSettled(o, inner) # job
    <3> SUFFICES ASSUME NEW inner \in Promise, AdoptionSettled(o, inner) = job PROVE FALSE
      OBVIOUS
    <3>1. AdoptionSettled(o, inner) \in ToSet(micro)
      BY <1>1
    <3>2. Ahead(micro, UserJob(n), job)
      BY <2>2, <3>1
    <3> QED BY <3>2, <1>1
  <2>4. \A inner \in Promise : AdoptionBegin(o, inner) # job
    BY <1>6, JobFields
  <2>5. HopHeld(o, q, reactions)
    BY <2>2, <2>3, <2>4, <1>1 DEF HopHeld
  <2>6. job[1] = "settled" => job[2] # o
    <3> SUFFICES ASSUME job[1] = "settled", job[2] = o PROVE FALSE
      OBVIOUS
    <3>1. job = AdoptionSettled(o, job[3]) /\ job[3] \in Promise
      BY <1>1, JobForms
    <3> QED BY <3>1, <2>3
  <2> QED BY <2>1, <2>2, <2>5, <2>6, <1>1
<1>7. job[1] \in {"thenable", "slot", "settled"} => AfterInv(q)
  BY <1>6 DEF AfterInv
<1>8. job[1] = "settled" => after[job[2]] \subseteq ran
  <2> SUFFICES ASSUME job[1] = "settled", NEW n \in after[job[2]], n \notin ran PROVE FALSE
    OBVIOUS
  <2>1. job[2] \in Promise
    BY <1>1, JobForms
  <2> QED BY <2>1, <1>6
<1> QED BY <1>2, <1>3, <1>4, <1>5, <1>7, <1>8

\* The queue without the job, when nothing else moves.
LEMMA StillKeeps ==
    ASSUME TypeOK, ShapeInv, NEW q, Queues(q, reactions), OneEach(q, reactions), JobInv(q),
           UserInv(q), OrderInv(q), AfterInv(q), SettlementCarried, Noted,
           micro' = q,
           UNCHANGED <<state, value, reactions, rejected, handled, made, sources, owner, ran, after, adopted>>
    PROVE  /\ Queues(micro', reactions')
           /\ OneEach(micro, reactions)'
           /\ JobInv(micro)'
           /\ UserInv(micro)'
           /\ OrderInv(micro)'
           /\ AfterInv(micro)'
           /\ SettlementCarried'
           /\ Noted'
           /\ rejected' \in Seq(made')
           /\ \A o \in Promise : reactions'[o] # <<>> =>
                 o \in made' /\ Pending(o)' /\ handled'[o]
<1>1. JobInv(micro)'
  <2>1. \A x \in Held(q, reactions) : Fit(x)'
    BY DEF JobInv, Fit, Pending
  <2>2. \A x \in ToSet(q) : Ripe(x)'
    BY DEF JobInv, Ripe, Pending
  <2>3. \A o \in Promise : \A x \in ToSet(reactions[o]) : WaitsFor(x, o)'
    BY DEF JobInv, WaitsFor
  <2> QED BY <2>1, <2>2, <2>3 DEF JobInv
<1>2. UserInv(micro)' /\ OrderInv(micro)'
  BY DEF UserInv, OrderInv
<1>3. AfterInv(micro)'
  BY DEF AfterInv
<1>4. SettlementCarried'
  BY DEF SettlementCarried, Pending
<1>5. Noted'
  <2>1. \A o \in made : Observed(o)' => handled'[o]
    BY DEF Noted, Observed
  <2> QED BY <2>1 DEF Noted
<1>6. rejected' \in Seq(made')
  BY DEF TypeOK
<1>7. \A o \in Promise : reactions'[o] # <<>> => o \in made' /\ Pending(o)' /\ handled'[o]
  BY DEF ShapeInv, Pending
<1> QED BY <1>1, <1>2, <1>3, <1>4, <1>5, <1>6, <1>7

\* Every job ends what the running code was adopting.
LEMMA UserStepKeeps ==
    ASSUME Inv, NEW q, NEW job, Shift(q, job), job[1] = "user", UserStep(q, job[2]),
           adopting' = {}, UNCHANGED <<owner, after, aborted>>
    PROVE  Inv'
<1> DEFINE n == job[2]
<1>1. /\ Queues(q, reactions)
      /\ OneEach(q, reactions)
      /\ job \in Job /\ Fit(job)
      /\ Held(micro, reactions) = Held(q, reactions) \cup {job}
      /\ ToSet(micro) = ToSet(q) \cup {job}
      /\ job \notin Held(q, reactions)
      /\ \A a, b : Ahead(micro, a, b) /\ a # job => Ahead(q, a, b)
      /\ Keys(micro, reactions) = Keys(q, reactions) \cup {Key(job)}
  BY ShiftHolds
<1>2. job = UserJob(n) /\ n \in (1 .. Len(owner)) \ ran /\ Key(job) = job
  BY <1>1, JobForms, JobMembers DEF Fit
<1>3. JobInv(q) /\ SlotInv(q)
  BY ShiftKeeps
<1>4. /\ ran' = ran \cup {n} /\ micro' = q
      /\ UNCHANGED <<state, value, handled, reactions, resolutions, pairs, open, made, sources,
                     values, remaining, rejected, owner, after, aborted, adopted>>
  BY DEF UserStep, promiseVars
<1> HIDE DEF n
<1>5. TypeOK'
  <2>1. ran' \subseteq 1 .. Len(owner)
    BY <1>2, <1>4 DEF Inv, TypeOK
  <2>2. micro' \in Seq(Job) /\ adopting' \cup adopted' \subseteq made'
    BY <1>1, <1>4 DEF Queues, Inv, TypeOK
  <2> QED BY <2>1, <2>2, <1>4 DEF Inv, TypeOK, IsAll
<1>6. ShapeInv'
  BY <1>4 DEF Inv, ShapeInv, Pending, IsAll
<1>7. \A m : UserJob(m) \in Held(q, reactions) => m # n
  BY <1>1, <1>2
<1>8. JobInv(micro)'
  <2>1. ASSUME NEW x \in Held(q, reactions) PROVE Fit(x)'
    <3>1. Fit(x) /\ x \in Job
      BY <1>1, <1>3, HeldPlaces DEF JobInv
    <3>2. x[1] = "user" => x[2] # n
      BY <3>1, <1>7, JobForms
    <3> QED BY <3>1, <3>2, <1>4 DEF Fit, Pending
  <2>2. \A x \in ToSet(q) : Ripe(x)'
    BY <1>3, <1>4 DEF JobInv, Ripe, Pending
  <2>3. \A o \in Promise : \A x \in ToSet(reactions[o]) : WaitsFor(x, o)'
    BY <1>3, <1>4 DEF JobInv, WaitsFor
  <2> QED BY <2>1, <2>2, <2>3, <1>4 DEF JobInv
<1>9. OneEach(micro, reactions)'
  BY <1>1, <1>4
<1>10. RouteInv(micro)'
  <2>1. \A o \in Promise : Route(o) \in Keys(q, reactions) <=> Route(o) \in Keys(micro, reactions)
    BY <1>1, <1>2, UserJobsDiffer
  <2> QED BY <2>1, <1>4 DEF Inv, RouteInv, Pending
<1>11. \A m : m \notin ran' => UserJob(m) # job
  BY <1>2, <1>4, UserJobsDiffer
<1>12. UserInv(micro)'
  BY <1>1, <1>4, <1>11 DEF Inv, UserInv
<1>13. OrderInv(micro)'
  <2>1. ASSUME NEW m \in 1 .. Len(owner), NEW k \in 1 .. Len(owner), m < k,
               owner[m] = owner[k], m \notin ran', UserJob(k) \in ToSet(q)
        PROVE  Ahead(q, UserJob(m), UserJob(k))
    <3>1. m \notin ran /\ UserJob(k) \in ToSet(micro) /\ UserJob(m) # job
      BY <2>1, <1>1, <1>4, <1>11
    <3>2. Ahead(micro, UserJob(m), UserJob(k))
      BY <2>1, <3>1 DEF Inv, OrderInv
    <3> QED BY <3>1, <3>2, <1>1
  <2> QED BY <2>1, <1>4 DEF Inv, OrderInv
<1>14. AdoptingInv(micro)'
  BY DEF AdoptingInv
<1>15. AfterInv(micro)'
  <2>1. ASSUME NEW o \in Promise, NEW m \in after[o] \ ran'
        PROVE  /\ UserJob(m) \in ToSet(q)
               /\ HopHeld(o, q, reactions)
               /\ \A inner \in Promise : AdoptionSettled(o, inner) \in ToSet(q) =>
                     Ahead(q, UserJob(m), AdoptionSettled(o, inner))
    <3>1. m \in after[o] \ ran /\ UserJob(m) # job
      BY <1>4, <1>11
    <3>2. /\ UserJob(m) \in ToSet(micro)
          /\ HopHeld(o, micro, reactions)
          /\ \A inner \in Promise : AdoptionSettled(o, inner) \in ToSet(micro) =>
                Ahead(micro, UserJob(m), AdoptionSettled(o, inner))
      BY <3>1 DEF Inv, AfterInv
    <3>3. HopHeld(o, q, reactions)
      BY <3>2, <1>1, <1>2, UserJobsDiffer DEF HopHeld
    <3> QED BY <3>1, <3>2, <3>3, <1>1
  <2> QED BY <2>1, <1>4 DEF AfterInv
<1>16. SlotInv(micro)'
  BY <1>3, <1>4 DEF SlotInv, IsAll
<1>17. SettlementCarried'
  BY <1>4 DEF Inv, SettlementCarried, Pending
<1>18. AllMeansAll'
  BY <1>4, AllUnchanged DEF Inv
<1>19. Noted'
  <2>1. \A o \in made : Observed(o)' => handled'[o]
    BY <1>4 DEF Inv, Noted, Observed
  <2> QED BY <2>1, <1>4 DEF Inv, Noted
<1> QED BY <1>5, <1>6, <1>8, <1>9, <1>10, <1>12, <1>13, <1>14, <1>15, <1>16, <1>17, <1>18,
           <1>19 DEF Inv

LEMMA ThenableStepKeeps ==
    ASSUME Inv, NEW q, NEW job, Shift(q, job), job[1] = "thenable", ThenableStep(q, job[2]),
           adopting' = {}, UNCHANGED <<owner, after, aborted>>
    PROVE  Inv'
<1>1. /\ Queues(q, reactions)
      /\ OneEach(q, reactions)
      /\ job \in Job /\ Fit(job)
      /\ Key(job) \notin Keys(q, reactions)
      /\ Keys(micro, reactions) = Keys(q, reactions) \cup {Key(job)}
  BY ShiftHolds
<1>2. PICK p \in Promise : p = job[2]
  BY <1>1, JobForms
<1>3. /\ Key(job) = Route(p) /\ p \in made /\ Pending(p) /\ Kind[p] = "executor"
  BY <1>1, <1>2, JobMembers DEF Fit
<1>4. JobInv(q) /\ SlotInv(q) /\ UserInv(q) /\ OrderInv(q) /\ AfterInv(q)
  BY ShiftKeeps
<1>5. /\ pairs' = [pairs EXCEPT ![p] = @ \cup {resolutions[p]}] /\ micro' = q
      /\ UNCHANGED <<state, value, handled, reactions, resolutions, open, made, sources,
                     values, remaining, rejected, owner, after, ran, aborted, adopted>>
  BY <1>2 DEF ThenableStep
<1>6. /\ pairs' \in [Promise -> SUBSET (0 .. PairMax)]
      /\ pairs'[p] = pairs[p] \cup {resolutions[p]}
      /\ \A o \in Promise \ {p} : pairs'[o] = pairs[o]
  BY <1>5 DEF Inv, TypeOK
<1>7. /\ OneEach(micro, reactions)' /\ JobInv(micro)' /\ UserInv(micro)' /\ OrderInv(micro)'
      /\ AfterInv(micro)' /\ SettlementCarried' /\ Noted'
  BY <1>1, <1>4, <1>5, StillKeeps DEF Inv
<1>8. TypeOK'
  <2>1. micro' \in Seq(Job) /\ adopting' \cup adopted' \subseteq made'
    BY <1>1, <1>5 DEF Queues, Inv, TypeOK
  <2> QED BY <2>1, <1>5, <1>6 DEF Inv, TypeOK, IsAll
<1>9. ShapeInv'
  <2>1. \A o \in Promise : \A pair \in pairs'[o] : pair <= resolutions[o]
    <3>1. resolutions[p] <= resolutions[p]
      BY PromisesAssumption DEF Inv, TypeOK
    <3>2. \A o \in Promise : \A pair \in pairs[o] : pair <= resolutions[o]
      BY DEF Inv, ShapeInv
    <3> QED BY <3>1, <3>2, <1>6
  <2>2. \A o \in Promise : pairs'[o] # {} => Kind[o] = "executor"
    BY <1>3, <1>6 DEF Inv, ShapeInv
  <2> QED BY <2>1, <2>2, <1>5 DEF Inv, ShapeInv, Pending, IsAll
<1>10. RouteInv(micro)'
  <2>1. p \notin open
    BY <1>1, <1>3 DEF Inv, RouteInv
  <2>2. \A o \in Promise \ {p} : Route(o) \in Keys(q, reactions) <=> Route(o) \in Keys(micro, reactions)
    <3> TAKE o \in Promise \ {p}
    <3>1. Route(o)[2] = o /\ Route(p)[2] = p
      BY JobFields
    <3> QED BY <3>1, <1>1, <1>3
  <2>3. ASSUME NEW o \in Promise, Kind[o] # "combinator"
        PROVE  /\ Pending(o) <=> o \in open \/ resolutions[o] \in pairs'[o]
                                    \/ Route(o) \in Keys(q, reactions)
               /\ ~(o \in open /\ resolutions[o] \in pairs'[o])
               /\ ~(o \in open /\ Route(o) \in Keys(q, reactions))
               /\ ~(resolutions[o] \in pairs'[o] /\ Route(o) \in Keys(q, reactions))
    <3>1. CASE o = p
      BY <3>1, <2>1, <1>1, <1>3, <1>6
    <3>2. CASE o # p
      BY <3>2, <2>2, <2>3, <1>6 DEF Inv, RouteInv
    <3> QED BY <3>1, <3>2
  <2> QED BY <2>3, <1>5 DEF RouteInv, Pending
<1>11. AdoptingInv(micro)'
  BY DEF AdoptingInv
<1>12. SlotInv(micro)'
  BY <1>4, <1>5 DEF SlotInv, IsAll
<1>13. AllMeansAll'
  BY <1>5, AllUnchanged DEF Inv
<1> QED BY <1>7, <1>8, <1>9, <1>10, <1>11, <1>12, <1>13 DEF Inv

(***************************************************************************)
(* The hops of an adoption.                                                *)
(***************************************************************************)
\* What the second hop adds to the queues, wherever it goes.
Joined(q, v, next) ==
    /\ Queues(micro', reactions')
    /\ OneEach(micro', reactions')
    /\ Held(micro', reactions') = Held(q, reactions) \cup {next}
    /\ \A a \in ToSet(q) : a \in ToSet(micro')
    /\ \A a \in ToSet(micro') : a \in ToSet(q) \/ (a = next /\ ~Pending(v))
    /\ \A o \in Promise : \A a \in ToSet(reactions'[o]) :
          a \in ToSet(reactions[o]) \/ (a = next /\ o = v)
    /\ \A a, b : Ahead(q, a, b) => Ahead(micro', a, b)
    /\ \A o \in Promise : \A a, b : Ahead(reactions[o], a, b) => Ahead(reactions'[o], a, b)
    /\ next \in ToSet(micro') => \A a \in ToSet(q) : Ahead(micro', a, next)
    /\ \A o \in Promise : reactions'[o] # <<>> => reactions[o] # <<>> \/ (o = v /\ Pending(v))

LEMMA SubscribeJoins ==
    ASSUME NEW q, Queues(q, reactions), OneEach(q, reactions), NEW v \in Promise,
           NEW next \in Job, Key(next) \notin Keys(q, reactions),
           Subscribe(q, v, next)
    PROVE  Joined(q, v, next)
<1>1. q \in Seq(Job) /\ \A o \in Promise : reactions[o] \in Seq(Job)
  BY DEF Queues
<1>2. next \notin ToSet(q)
  BY HeldWhere
<1>3. CASE Pending(v)
  <2>1. micro' = q /\ Moved(reactions, v, Pushed(next, reactions[v]), reactions')
    BY <1>3 DEF Subscribe, Moved, Pushed
  <2>2. PICK T : T = reactions' /\ Moved(reactions, v, Pushed(next, reactions[v]), T)
    BY <2>1
  <2>3. /\ Queues(q, T)
        /\ ToSet(T[v]) = ToSet(reactions[v]) \cup {next}
        /\ T[v] # <<>>
        /\ \A o \in Promise \ {v} : T[o] = reactions[o]
        /\ Held(q, T) = Held(q, reactions) \cup {next}
        /\ OneEach(q, T)
    BY <2>2, WaitOne
  <2>4. T[v] = <<next>> \o reactions[v]
    BY <2>2 DEF Moved, Pushed, Queues
  <2>5. \A a, b : Ahead(reactions[v], a, b) => Ahead(T[v], a, b)
    BY <1>1, <2>4, PrependHolds
  <2>6. \A o \in Promise : \A a, b : Ahead(reactions[o], a, b) => Ahead(T[o], a, b)
    BY <2>3, <2>5
  <2>7. \A o \in Promise : \A a \in ToSet(T[o]) : a \in ToSet(reactions[o]) \/ (a = next /\ o = v)
    BY <2>3
  <2>8. \A o \in Promise : T[o] # <<>> => reactions[o] # <<>> \/ (o = v /\ Pending(v))
    BY <2>3, <1>3
  <2> QED BY <1>2, <2>1, <2>2, <2>3, <2>6, <2>7, <2>8 DEF Joined
<1>4. CASE ~Pending(v)
  <2>1. micro' = Append(q, next) /\ reactions' = reactions
    BY <1>4 DEF Subscribe
  <2>2. PICK t : t = micro' /\ t = Append(q, next)
    BY <2>1
  <2>3. /\ Queues(t, reactions)
        /\ Held(t, reactions) = Held(q, reactions) \cup {next}
        /\ OneEach(t, reactions)
    BY <2>2, AppendOne
  <2>4. /\ ToSet(t) = ToSet(q) \cup {next}
        /\ \A a, b : Ahead(q, a, b) => Ahead(t, a, b)
        /\ \A a \in ToSet(q) : Ahead(t, a, next)
    BY <1>1, <2>2, AppendHolds
  <2> QED BY <1>4, <2>1, <2>2, <2>3, <2>4 DEF Joined
<1> QED BY <1>3, <1>4

LEMMA AdoptionBeginStepKeeps ==
    ASSUME Inv, NEW q, NEW job, Shift(q, job), job[1] = "begin",
           AdoptionBeginStep(q, job[2], job[3]),
           adopting' = {}, UNCHANGED <<owner, after, aborted>>
    PROVE  Inv'
<1>1. /\ Queues(q, reactions)
      /\ OneEach(q, reactions)
      /\ job \in Job /\ Fit(job)
      /\ Held(micro, reactions) = Held(q, reactions) \cup {job}
      /\ ToSet(micro) = ToSet(q) \cup {job}
      /\ Key(job) \notin Keys(q, reactions)
      /\ Keys(micro, reactions) = Keys(q, reactions) \cup {Key(job)}
      /\ \A a, b : Ahead(micro, a, b) /\ a # job => Ahead(q, a, b)
  BY ShiftHolds
<1>2. PICK p \in Promise : p = job[2]
  BY <1>1, JobForms
<1>3. PICK v \in Promise : v = job[3]
  BY <1>1, JobForms
<1>4. /\ job = AdoptionBegin(p, v) /\ Key(job) = Route(p)
      /\ p \in made /\ Pending(p) /\ Kind[p] # "combinator" /\ v \in made
  BY <1>1, <1>2, <1>3, JobForms, JobMembers DEF Fit
<1>5. PICK next \in Job : /\ next = AdoptionSettled(p, v) /\ Key(next) = Route(p)
                          /\ next[1] = "settled" /\ next[2] = p /\ next[3] = v
  BY JobMembers, JobFields
<1>6. JobInv(q) /\ SlotInv(q) /\ UserInv(q) /\ OrderInv(q)
  BY ShiftKeeps
<1>7. /\ Subscribe(q, v, next) /\ adopted' = adopted \cup {v}
      /\ UNCHANGED <<state, value, resolutions, pairs, open, made, sources,
                     values, remaining, rejected, owner, after, ran, aborted>>
  BY <1>2, <1>3, <1>5 DEF AdoptionBeginStep, Subscribe
<1>8. Joined(q, v, next)
  BY <1>1, <1>4, <1>5, <1>7, SubscribeJoins
<1>9. /\ handled' \in [Promise -> BOOLEAN] /\ handled'[v]
      /\ \A o \in Promise : handled[o] => handled'[o]
  BY <1>7 DEF Subscribe, Inv, TypeOK
<1> HIDE DEF AdoptionBeginStep
<1>10. Keys(micro', reactions') = Keys(micro, reactions)
  <2>1. Held(micro', reactions') = Held(q, reactions) \cup {next}
    BY <1>8 DEF Joined
  <2> QED BY <2>1, <1>1, <1>4, <1>5 DEF Keys
<1>11. TypeOK'
  <2>1. /\ micro' \in Seq(Job) /\ reactions' \in [Promise -> Seq(Job)]
        /\ adopting' \cup adopted' \subseteq made'
    BY <1>4, <1>7, <1>8 DEF Joined, Queues, Inv, TypeOK
  <2> QED BY <2>1, <1>7, <1>9 DEF Inv, TypeOK, IsAll
<1>12. ShapeInv'
  <2>1. \A o \in Promise : reactions'[o] # <<>> => o \in made' /\ Pending(o)' /\ handled'[o]
    BY <1>4, <1>7, <1>8, <1>9 DEF Joined, Inv, ShapeInv, Pending
  <2> QED BY <2>1, <1>7 DEF Inv, ShapeInv, Pending, IsAll
<1>13. JobInv(micro)'
  <2>1. \A x \in Held(q, reactions) : Fit(x)'
    BY <1>6, <1>7 DEF JobInv, Fit, Pending
  <2>2. Fit(next)'
    BY <1>4, <1>5, <1>7 DEF Fit, Pending
  <2>3. \A x \in ToSet(q) : Ripe(x)'
    BY <1>6, <1>7 DEF JobInv, Ripe, Pending
  <2>4. ~Pending(v) => Ripe(next)'
    BY <1>5, <1>7 DEF Ripe, Pending
  <2>5. \A o \in Promise : \A x \in ToSet(reactions[o]) : WaitsFor(x, o)'
    BY <1>6, <1>7 DEF JobInv, WaitsFor
  <2>6. WaitsFor(next, v)'
    BY <1>5 DEF WaitsFor
  <2>7. \A x \in Held(micro', reactions') : Fit(x)'
    BY <2>1, <2>2, <1>8 DEF Joined
  <2>8. \A x \in ToSet(micro') : Ripe(x)'
    BY <2>3, <2>4, <1>8 DEF Joined
  <2>9. \A o \in Promise : \A x \in ToSet(reactions'[o]) : WaitsFor(x, o)'
    BY <2>5, <2>6, <1>8 DEF Joined
  <2> QED BY <2>7, <2>8, <2>9 DEF JobInv
<1>14. OneEach(micro, reactions)'
  BY <1>8 DEF Joined
<1>15. RouteInv(micro)'
  BY <1>7, <1>10 DEF Inv, RouteInv, Pending
<1>16. UserInv(micro)'
  BY <1>6, <1>7, <1>8 DEF UserInv, Joined
<1>17. \A n : UserJob(n) # next /\ UserJob(n) # job
  BY <1>4, <1>5, UserJobsDiffer
<1>18. OrderInv(micro)'
  <2>1. ASSUME NEW m \in 1 .. Len(owner), NEW n \in 1 .. Len(owner), m < n,
               owner[m] = owner[n], m \notin ran, UserJob(n) \in ToSet(micro')
        PROVE  Ahead(micro', UserJob(m), UserJob(n))
    <3>1. UserJob(n) \in ToSet(q)
      BY <2>1, <1>8, <1>17 DEF Joined
    <3>2. Ahead(q, UserJob(m), UserJob(n))
      BY <2>1, <3>1, <1>6 DEF OrderInv
    <3> QED BY <3>2, <1>8 DEF Joined
  <2>2. ASSUME NEW o \in Promise, NEW m \in 1 .. Len(owner), NEW n \in 1 .. Len(owner), m < n,
               UserJob(m) \in ToSet(reactions'[o]), UserJob(n) \in ToSet(reactions'[o])
        PROVE  Ahead(reactions'[o], UserJob(n), UserJob(m))
    <3>1. UserJob(m) \in ToSet(reactions[o]) /\ UserJob(n) \in ToSet(reactions[o])
      BY <2>2, <1>8, <1>17 DEF Joined
    <3>2. Ahead(reactions[o], UserJob(n), UserJob(m))
      BY <2>2, <3>1, <1>6 DEF OrderInv
    <3> QED BY <3>2, <1>8 DEF Joined
  <2> QED BY <2>1, <2>2, <1>7 DEF OrderInv
<1>19. AdoptingInv(micro)'
  BY DEF AdoptingInv
<1>20. AfterInv(micro)'
  <2>1. ASSUME NEW o \in Promise, NEW n \in after[o] \ ran
        PROVE  /\ UserJob(n) \in ToSet(micro')
               /\ HopHeld(o, micro', reactions')
               /\ \A inner \in Promise : AdoptionSettled(o, inner) \in ToSet(micro') =>
                     Ahead(micro', UserJob(n), AdoptionSettled(o, inner))
    <3>1. /\ UserJob(n) \in ToSet(micro)
          /\ HopHeld(o, micro, reactions)
          /\ \A inner \in Promise : AdoptionSettled(o, inner) \in ToSet(micro) =>
                Ahead(micro, UserJob(n), AdoptionSettled(o, inner))
      BY DEF Inv, AfterInv
    <3>2. UserJob(n) \in ToSet(q)
      BY <3>1, <1>1, <1>17
    <3>3. HopHeld(o, micro', reactions')
      <4>1. CASE o = p
        BY <4>1, <1>5, <1>8 DEF HopHeld, Joined
      <4>2. CASE o # p
        <5>1. \A inner : AdoptionBegin(o, inner) # job /\ AdoptionSettled(o, inner) # job
          BY <4>2, <1>2, JobFields
        <5>2. HopHeld(o, q, reactions)
          BY <5>1, <3>1, <1>1 DEF HopHeld
        <5>3. Held(q, reactions) \subseteq Held(micro', reactions')
          BY <1>8 DEF Joined
        <5> QED BY <5>2, <5>3, HopsKept
      <4> QED BY <4>1, <4>2
    <3>4. ASSUME NEW inner \in Promise, AdoptionSettled(o, inner) \in ToSet(micro')
          PROVE  Ahead(micro', UserJob(n), AdoptionSettled(o, inner))
      <4>1. CASE AdoptionSettled(o, inner) \in ToSet(q)
        <5>1. Ahead(micro, UserJob(n), AdoptionSettled(o, inner))
          BY <4>1, <3>1, <1>1
        <5>2. Ahead(q, UserJob(n), AdoptionSettled(o, inner))
          BY <5>1, <1>1, <1>17
        <5> QED BY <5>2, <1>8 DEF Joined
      <4>2. CASE AdoptionSettled(o, inner) = next
        BY <4>2, <3>2, <3>4, <1>8 DEF Joined
      <4> QED BY <4>1, <4>2, <3>4, <1>8 DEF Joined
    <3>5. UserJob(n) \in ToSet(micro')
      BY <3>2, <1>8 DEF Joined
    <3> QED BY <3>3, <3>4, <3>5
  <2> QED BY <2>1, <1>7 DEF AfterInv
<1>21. SlotInv(micro)'
  <2>1. \A o, i : CombinatorSlot(o, i) # next
    BY <1>5, JobFields
  <2>2. \A o, i : CombinatorSlot(o, i) \in Held(micro', reactions') => CombinatorSlot(o, i) \in Held(q, reactions)
    BY <2>1, <1>8 DEF Joined
  <2> QED BY <2>2, <1>6, <1>7 DEF SlotInv, IsAll
<1>22. SettlementCarried'
  BY <1>7 DEF Inv, SettlementCarried, Pending
<1>23. AllMeansAll'
  BY <1>7, AllUnchanged DEF Inv
<1>24. Noted'
  <2>1. \A o \in made : Observed(o)' => handled[o] \/ o = v
    BY <1>7 DEF Inv, Noted, Observed
  <2>2. \A o \in made : o \in Promise
    BY DEF Inv, TypeOK
  <2> QED BY <2>1, <2>2, <1>7, <1>9 DEF Inv, Noted
<1> QED BY <1>11, <1>12, <1>13, <1>14, <1>15, <1>16, <1>18, <1>19, <1>20, <1>21, <1>22, <1>23,
           <1>24 DEF Inv

\* What a settled promise carries can be carried on.
LEMMA SettledCarries ==
    ASSUME Inv, NEW p \in Promise, NEW v \in made, ~Pending(v)
    PROVE  /\ state[v] \in {"fulfilled", "rejected"}
           /\ value[v] \in made
           /\ Carries(p, state[v], value[v])
<1>1. v \in Promise /\ value[v] # None /\ state[value[v]] = state[v] /\ value[value[v]] = value[v]
  BY DEF Inv, SettlementCarried, TypeOK
<1>2. state[v] \in {"fulfilled", "rejected"} /\ value[v] \in Promise
  BY <1>1 DEF Inv, TypeOK, Pending
<1>3. value[v] \in made
  BY <1>1, <1>2 DEF Inv, ShapeInv
<1> QED BY <1>1, <1>2, <1>3 DEF Carries

LEMMA AdoptionSettledStepKeeps ==
    ASSUME Inv, NEW q, NEW job, Shift(q, job), job[1] = "settled",
           AdoptionSettledStep(q, job[2], job[3]),
           adopting' = {}, UNCHANGED <<owner, after, aborted>>
    PROVE  Inv'
<1>1. /\ Queues(q, reactions)
      /\ OneEach(q, reactions)
      /\ job \in Job /\ Fit(job) /\ Ripe(job)
      /\ Key(job) \notin Keys(q, reactions)
      /\ Keys(micro, reactions) = Keys(q, reactions) \cup {Key(job)}
  BY ShiftHolds
<1>2. PICK p \in Promise : p = job[2]
  BY <1>1, JobForms
<1>3. PICK v \in Promise : v = job[3]
  BY <1>1, JobForms
<1>4. /\ Key(job) = Route(p) /\ ~Pending(v)
      /\ p \in made /\ Pending(p) /\ Kind[p] # "combinator" /\ v \in made
  BY <1>1, <1>2, <1>3, JobMembers DEF Fit, Ripe
<1>5. JobInv(q) /\ SlotInv(q) /\ UserInv(q) /\ OrderInv(q) /\ AfterInv(q)
  BY ShiftKeeps
<1>6. /\ Settle(q, p, state[v], value[v])
      /\ UNCHANGED <<handled, resolutions, pairs, open, made, sources,
                     values, remaining, owner, after, ran, aborted, adopted>>
  BY <1>2, <1>3 DEF AdoptionSettledStep, Forward
<1>7. Carries(p, state[v], value[v])
  BY <1>4, SettledCarries
<1>8. /\ TypeOK /\ ShapeInv /\ SettlementCarried /\ Noted
      /\ Route(p) \notin Keys(q, reactions)
  BY <1>1, <1>4 DEF Inv
<1>9. /\ state' \in [Promise -> {"pending", "fulfilled", "rejected"}]
      /\ value' \in [Promise -> Promise \cup {None}]
      /\ \A o \in Promise \ {p} : state'[o] = state[o] /\ value'[o] = value[o]
      /\ ~Pending(p)' /\ \A o \in Promise \ {p} : Pending(o)' <=> Pending(o)
      /\ Queues(micro', reactions')
      /\ Held(micro', reactions') = Held(q, reactions)
      /\ Keys(micro', reactions') = Keys(q, reactions)
  BY <1>1, <1>4, <1>6, <1>7, <1>8, SettleMoves
<1>10. /\ OneEach(micro, reactions)'
       /\ JobInv(micro)'
       /\ UserInv(micro)'
       /\ OrderInv(micro)'
       /\ AfterInv(micro)'
       /\ SettlementCarried'
       /\ Noted'
       /\ rejected' \in Seq(made')
       /\ \A o \in Promise : reactions'[o] # <<>> => o \in made' /\ Pending(o)' /\ handled'[o]
       /\ \A o \in Promise : state[o] \in {"fulfilled", "rejected"} =>
             state'[o] = state[o] /\ value'[o] = value[o]
  BY <1>1, <1>4, <1>5, <1>6, <1>7, <1>8, SettleKeeps
<1>11. TypeOK'
  <2>1. adopting' \cup adopted' \subseteq made'
    BY <1>6 DEF Inv, TypeOK
  <2> QED BY <2>1, <1>6, <1>9, <1>10 DEF Inv, TypeOK, Queues, IsAll
<1>12. ShapeInv'
  <2>1. \A o \in Promise : o \notin made => Pending(o)' /\ value'[o] = None
    BY <1>4, <1>9 DEF Inv, ShapeInv
  <2> QED BY <2>1, <1>6, <1>10 DEF Inv, ShapeInv, IsAll
<1>13. RouteInv(micro)'
  <2>1. p \notin open /\ resolutions[p] \notin pairs[p]
    BY <1>1, <1>4 DEF Inv, RouteInv
  <2>2. \A o \in Promise \ {p} : Route(o) \in Keys(q, reactions) <=> Route(o) \in Keys(micro, reactions)
    <3> TAKE o \in Promise \ {p}
    <3>1. Route(o)[2] = o /\ Route(p)[2] = p
      BY JobFields
    <3> QED BY <3>1, <1>1, <1>4
  <2>3. ASSUME NEW o \in Promise, Kind[o] # "combinator"
        PROVE  /\ Pending(o)' <=> o \in open \/ resolutions[o] \in pairs[o]
                                    \/ Route(o) \in Keys(q, reactions)
               /\ ~(o \in open /\ resolutions[o] \in pairs[o])
               /\ ~(o \in open /\ Route(o) \in Keys(q, reactions))
               /\ ~(resolutions[o] \in pairs[o] /\ Route(o) \in Keys(q, reactions))
    <3>1. CASE o = p
      BY <3>1, <2>1, <1>8, <1>9
    <3>2. CASE o # p
      BY <3>2, <2>2, <2>3, <1>9 DEF Inv, RouteInv
    <3> QED BY <3>1, <3>2
  <2> QED BY <2>3, <1>6, <1>9 DEF RouteInv
<1>14. AdoptingInv(micro)'
  BY DEF AdoptingInv
<1>15. SlotInv(micro)'
  BY <1>5, <1>6, <1>9 DEF SlotInv, IsAll
<1>16. AllMeansAll'
  <2>1. ASSUME NEW o \in made, IsAll(o)' PROVE AllBody(o)'
    <3>1. o \in Promise /\ AllBody(o) /\ IsAll(o)
      BY <2>1, <1>6, AllMeans DEF IsAll, Inv, TypeOK
    <3>2. o # p
      BY <3>1, <1>4 DEF Inv, ShapeInv
    <3>3. UNCHANGED <<values[o], remaining[o], sources[o], state[o], value[o]>>
      BY <3>1, <3>2, <1>6, <1>9
    <3> QED BY <3>1, <3>3, <1>8, <1>10, AllBodyKept
  <2>2. \A o \in made' : IsAll(o)' => AllBody(o)'
    BY <2>1, <1>6
  <2> QED BY <2>2 DEF AllMeansAll, AllBody
<1> QED BY <1>10, <1>11, <1>12, <1>13, <1>14, <1>15, <1>16 DEF Inv

(***************************************************************************)
(* One element of a combinator.                                            *)
(***************************************************************************)
\* The result r is settled by the element, or left as it is.
Decides(q, r) ==
    \/ \E outcome, payload : /\ Pending(r) /\ Carries(r, outcome, payload)
                             /\ Settle(q, r, outcome, payload)
    \/ micro' = q /\ UNCHANGED <<state, value, reactions, rejected>>

\* All that does not concern the array of an all.
SlotMoved(q, r) ==
    /\ Queues(micro', reactions')
    /\ OneEach(micro, reactions)'
    /\ Held(micro', reactions') = Held(q, reactions)
    /\ JobInv(micro)'
    /\ UserInv(micro)'
    /\ OrderInv(micro)'
    /\ AfterInv(micro)'
    /\ RouteInv(micro)'
    /\ SettlementCarried'
    /\ Noted'
    /\ rejected' \in Seq(made')
    /\ state' \in [Promise -> {"pending", "fulfilled", "rejected"}]
    /\ value' \in [Promise -> Promise \cup {None}]
    /\ \A o \in Promise : reactions'[o] # <<>> => o \in made' /\ Pending(o)' /\ handled'[o]
    /\ \A o \in Promise \ {r} : state'[o] = state[o] /\ value'[o] = value[o]
    /\ \A o \in Promise : state[o] \in {"fulfilled", "rejected"} =>
          state'[o] = state[o] /\ value'[o] = value[o]

LEMMA SlotMoves ==
    ASSUME Inv, NEW q, NEW job, Shift(q, job), job[1] = "slot", Decides(q, job[2]),
           UNCHANGED <<handled, resolutions, pairs, open, made, sources, owner, ran, after, adopted>>
    PROVE  SlotMoved(q, job[2])
<1>1. /\ Queues(q, reactions)
      /\ OneEach(q, reactions)
      /\ job \in Job /\ Fit(job)
      /\ Keys(micro, reactions) = Keys(q, reactions) \cup {Key(job)}
  BY ShiftHolds
<1>2. PICK r \in Promise : r = job[2]
  BY <1>1, JobForms
<1>3. r \in made /\ Kind[r] = "combinator" /\ Key(job)[1] = "slot"
  BY <1>1, <1>2, JobMembers DEF Fit
<1>4. JobInv(q) /\ SlotInv(q) /\ UserInv(q) /\ OrderInv(q) /\ AfterInv(q)
  BY ShiftKeeps
<1>5. /\ TypeOK /\ ShapeInv /\ SettlementCarried /\ Noted
  BY DEF Inv
<1>6. \A o \in Promise : Route(o) \in Keys(q, reactions) <=> Route(o) \in Keys(micro, reactions)
  BY <1>1, <1>3, JobFields
<1>7. Route(r) \notin Keys(q, reactions)
  <2>1. \A x \in Held(q, reactions) : x[1] \in {"begin", "settled", "thenable"} => x[2] # r
    BY <1>3, <1>4 DEF JobInv, Fit
  <2> QED BY <2>1, <1>1, RouteHeld
<1>8. ASSUME Keys(micro', reactions') = Keys(q, reactions),
             \A o \in Promise \ {r} : Pending(o)' <=> Pending(o)
      PROVE  RouteInv(micro)'
  <2>1. ASSUME NEW o \in Promise, Kind[o] # "combinator"
        PROVE  /\ Pending(o)' <=> Pending(o)
               /\ Route(o) \in Keys(micro', reactions') <=> Route(o) \in Keys(micro, reactions)
    BY <1>3, <1>6, <1>8, <2>1
  <2> QED BY <2>1 DEF Inv, RouteInv
<1>9. CASE \E outcome, payload : /\ Pending(r) /\ Carries(r, outcome, payload)
                                 /\ Settle(q, r, outcome, payload)
  <2>1. PICK outcome, payload : /\ Pending(r) /\ Carries(r, outcome, payload)
                                /\ Settle(q, r, outcome, payload)
    BY <1>9
  <2>2. /\ state' \in [Promise -> {"pending", "fulfilled", "rejected"}]
        /\ value' \in [Promise -> Promise \cup {None}]
        /\ \A o \in Promise \ {r} : state'[o] = state[o] /\ value'[o] = value[o]
        /\ ~Pending(r)' /\ \A o \in Promise \ {r} : Pending(o)' <=> Pending(o)
        /\ Queues(micro', reactions')
        /\ Held(micro', reactions') = Held(q, reactions)
        /\ Keys(micro', reactions') = Keys(q, reactions)
    BY <1>1, <1>5, <2>1, SettleMoves
  <2>3. /\ OneEach(micro, reactions)'
        /\ JobInv(micro)'
        /\ UserInv(micro)'
        /\ OrderInv(micro)'
        /\ AfterInv(micro)'
        /\ SettlementCarried'
        /\ Noted'
        /\ rejected' \in Seq(made')
        /\ \A o \in Promise : reactions'[o] # <<>> => o \in made' /\ Pending(o)' /\ handled'[o]
        /\ \A o \in Promise : state[o] \in {"fulfilled", "rejected"} =>
              state'[o] = state[o] /\ value'[o] = value[o]
    BY <1>1, <1>3, <1>4, <1>5, <1>7, <2>1, SettleKeeps
  <2>4. RouteInv(micro)'
    BY <2>2, <1>8
  <2> QED BY <1>2, <2>2, <2>3, <2>4 DEF SlotMoved
<1>10. CASE micro' = q /\ UNCHANGED <<state, value, reactions, rejected>>
  <2>1. /\ Queues(micro', reactions')
        /\ OneEach(micro, reactions)'
        /\ JobInv(micro)'
        /\ UserInv(micro)'
        /\ OrderInv(micro)'
        /\ AfterInv(micro)'
        /\ SettlementCarried'
        /\ Noted'
        /\ rejected' \in Seq(made')
        /\ \A o \in Promise : reactions'[o] # <<>> => o \in made' /\ Pending(o)' /\ handled'[o]
    BY <1>1, <1>4, <1>5, <1>10, StillKeeps
  <2>2. RouteInv(micro)'
    BY <1>8, <1>10 DEF Pending
  <2>3. /\ state' \in [Promise -> {"pending", "fulfilled", "rejected"}]
        /\ value' \in [Promise -> Promise \cup {None}]
    BY <1>5, <1>10 DEF TypeOK
  <2> QED BY <1>2, <1>10, <2>1, <2>2, <2>3 DEF SlotMoved
<1> QED BY <1>2, <1>9, <1>10 DEF Decides

\* What the element of r at i leaves of the array, and what follows from it.
LEMMA SlotShape ==
    ASSUME Inv, NEW q, NEW job, Shift(q, job), job[1] = "slot", SlotMoved(q, job[2]),
           UNCHANGED <<handled, resolutions, pairs, open, made, sources, owner, ran, after, adopted, aborted>>,
           adopting' = {},
           DOMAIN values' = Promise,
           \A o \in Promise : IsAll(o)' <=> IsAll(o),
           \A o \in Promise : ~IsAll(o) => values'[o] = values[o],
           \A o \in Promise : IsAll(o) => /\ values'[o] \in Seq(Promise \cup {None})
                                          /\ Len(values'[o]) = Len(sources[o]),
           remaining' \in [Promise -> 0 .. MaxElements],
           SlotInv(micro)', AllMeansAll'
    PROVE  Inv'
<1> USE DEF SlotMoved
<1>1. TypeOK'
  <2>1. adopting' \cup adopted' \subseteq made'
    BY DEF Inv, TypeOK
  <2>2. \A o \in Promise : /\ Len(sources'[o]) <= MaxElements
                           /\ IsAll(o)' => /\ values'[o] \in Seq(Promise \cup {None})
                                           /\ Len(values'[o]) = Len(sources'[o])
    BY DEF Inv, TypeOK
  <2> QED BY <2>1, <2>2 DEF Inv, TypeOK, Queues
<1>2. ShapeInv'
  <2>1. job[2] \in made
    BY ShiftHolds DEF Fit
  <2>2. \A o \in Promise : o \notin made => /\ Pending(o)' /\ value'[o] = None
                                            /\ values'[o] = None
    BY SMTT(30), <2>1 DEF Inv, ShapeInv, Pending, IsAll
  <2> QED BY <2>2 DEF Inv, ShapeInv
<1>3. AdoptingInv(micro)'
  BY DEF AdoptingInv
<1> QED BY <1>1, <1>2, <1>3 DEF Inv

\* The element rejected, or the combinator is a race.
LEMMA ForwardSlotKeeps ==
    ASSUME Inv, NEW q, NEW job, Shift(q, job), job[1] = "slot",
           NEW v, v = sources[job[2]][job[3]],
           ~IsAll(job[2]) \/ state[v] = "rejected",
           Forward(q, job[2], v),
           UNCHANGED <<values, remaining>>,
           UNCHANGED <<handled, resolutions, pairs, open, made, sources, owner, ran, after, adopted, aborted>>,
           adopting' = {}
    PROVE  Inv'
<1>1. /\ job \in Job /\ Fit(job) /\ Ripe(job) /\ JobInv(q) /\ SlotInv(q)
  BY ShiftHolds, ShiftKeeps
<1>2. PICK r \in Promise : r = job[2]
  BY <1>1, JobForms
<1>3. r \in made /\ job[3] \in DOMAIN sources[r] /\ v = sources[r][job[3]] /\ ~Pending(v)
  BY <1>1, <1>2 DEF Fit, Ripe
<1>4. v \in made /\ v \in Promise
  BY <1>3, SourcesTyped DEF Inv
<1>5. Carries(r, state[v], value[v])
  BY <1>3, <1>4, SettledCarries
<1>6. Settle(q, r, state[v], value[v])
  BY <1>2 DEF Forward
<1>7. Decides(q, r)
  <2>1. CASE Pending(r)
    BY <2>1, <1>5, <1>6 DEF Decides
  <2>2. CASE ~Pending(r)
    BY <2>2, <1>6 DEF Decides, Settle
  <2> QED BY <2>1, <2>2
<1>8. SlotMoved(q, r)
  BY <1>2, <1>7, SlotMoves
<1>9. SlotInv(micro)'
  BY <1>1, <1>8 DEF SlotInv, SlotMoved, IsAll
<1>10. AllMeansAll'
  <2>1. \A o \in Promise : state[o] \in {"fulfilled", "rejected"} =>
           state'[o] = state[o] /\ value'[o] = value[o]
    BY <1>8 DEF SlotMoved
  <2>2. \A o \in Promise \ {r} : state'[o] = state[o] /\ value'[o] = value[o]
    BY <1>8 DEF SlotMoved
  <2>3. ASSUME NEW o \in made, IsAll(o) PROVE AllBody(o)'
    <3>1. o \in Promise /\ AllBody(o)
      BY <2>3, AllMeans DEF Inv, TypeOK
    <3>2. CASE o # r \/ ~Pending(r)
      <4>1. state'[o] = state[o] /\ value'[o] = value[o]
        BY <3>1, <3>2, <2>1, <2>2 DEF Pending, Inv, TypeOK
      <4>2. UNCHANGED <<values[o], remaining[o], sources[o], state[o], value[o]>>
        BY <4>1
      <4> QED BY <2>1, <2>3, <3>1, <4>2, AllBodyKept DEF Inv
    <3>3. CASE o = r /\ Pending(r)
      <4>1. state[v] = "rejected"
        BY <2>3, <3>3, <1>2
      <4>2. state'[r] = "rejected" /\ value'[r] = value[v]
        BY <3>3, <4>1, <1>6 DEF Settle, Inv, TypeOK
      <4>3. state'[v] = "rejected" /\ value'[v] = value[v]
        BY <4>1, <1>4, <2>1
      <4>4. remaining[r] # 0
        BY <3>1, <3>3 DEF AllBody, Pending
      <4>5. /\ DOMAIN values[r] = DOMAIN sources[r]
            /\ \A i \in DOMAIN sources[r] : sources[r][i] \in Promise
        <5>1. values[r] \in Seq(Promise \cup {None}) /\ Len(values[r]) = Len(sources[r])
          BY <2>3, <3>3 DEF Inv, TypeOK
        <5> QED BY <5>1, SourcesTyped DEF Inv
      <4>6. \A i \in DOMAIN values[r] : values[r][i] # None =>
               state'[sources[r][i]] = "fulfilled" /\ values[r][i] = value'[sources[r][i]]
        BY <3>1, <3>3, <4>5, <2>1 DEF AllBody
      <4>7. remaining[r] = Cardinality({i \in DOMAIN values[r] : values[r][i] = None})
        BY <3>1, <3>3 DEF AllBody
      <4> QED BY <3>3, <4>2, <4>3, <4>4, <4>6, <4>7, <1>3 DEF AllBody
    <3> QED BY <3>2, <3>3
  <2>4. \A o \in made' : IsAll(o)' => AllBody(o)'
    BY <2>3 DEF IsAll
  <2> QED BY <2>4 DEF AllMeansAll, AllBody
<1>11. /\ DOMAIN values' = Promise
       /\ \A o \in Promise : IsAll(o)' <=> IsAll(o)
       /\ \A o \in Promise : IsAll(o) => /\ values'[o] \in Seq(Promise \cup {None})
                                         /\ Len(values'[o]) = Len(sources[o])
       /\ remaining' \in [Promise -> 0 .. MaxElements]
  BY DEF IsAll, Inv, ShapeInv, TypeOK
<1> QED BY <1>2, <1>8, <1>9, <1>10, <1>11, SlotShape

\* The element of an all fulfilled.
LEMMA FillSlotKeeps ==
    ASSUME Inv, NEW q, NEW job, Shift(q, job), job[1] = "slot",
           NEW v, v = sources[job[2]][job[3]],
           IsAll(job[2]), state[v] # "rejected",
           values' = [values EXCEPT ![job[2]][job[3]] = value[v]],
           remaining' = [remaining EXCEPT ![job[2]] = @ - 1],
           IF LastFulfilment(job[2])
           THEN Settle(q, job[2], "fulfilled", job[2])
           ELSE micro' = q /\ UNCHANGED <<state, value, reactions, rejected>>,
           UNCHANGED <<handled, resolutions, pairs, open, made, sources, owner, ran, after, adopted, aborted>>,
           adopting' = {}
    PROVE  Inv'
<1>1. /\ job \in Job /\ Fit(job) /\ Ripe(job) /\ JobInv(q) /\ SlotInv(q)
      /\ job \notin Held(q, reactions)
      /\ values[job[2]][job[3]] = None
  BY ShiftHolds, ShiftKeeps
<1>2. PICK r \in Promise : r = job[2]
  BY <1>1, JobForms
<1>3. PICK k \in 1 .. MaxElements : k = job[3]
  BY <1>1, JobForms
<1>4. /\ job = CombinatorSlot(r, k) /\ IsAll(r) /\ values[r][k] = None
      /\ r \in made /\ k \in DOMAIN sources[r] /\ v = sources[r][k] /\ ~Pending(v)
  BY <1>1, <1>2, <1>3, JobForms DEF Fit, Ripe
<1>5. v \in made /\ v \in Promise
  BY <1>4, SourcesTyped DEF Inv
<1>6. state[v] = "fulfilled" /\ value[v] \in made /\ value[v] \in Promise /\ value[v] # None
  BY <1>4, <1>5, SettledCarries, PromisesAssumption DEF Inv, TypeOK
<1>7. PICK A : A = values[r]
  OBVIOUS
<1>8. PICK B : B = [A EXCEPT ![k] = value[v]]
  OBVIOUS
<1>9. values' = [values EXCEPT ![r] = B] /\ remaining' = [remaining EXCEPT ![r] = remaining[r] - 1]
  BY <1>2, <1>3, <1>7, <1>8
<1>10. /\ A \in Seq(Promise \cup {None}) /\ Len(A) = Len(sources[r])
       /\ DOMAIN A = DOMAIN sources[r] /\ A[k] = None /\ k \in DOMAIN A
  <2>1. A \in Seq(Promise \cup {None}) /\ Len(A) = Len(sources[r])
    BY <1>4, <1>7 DEF Inv, TypeOK
  <2> QED BY <2>1, <1>4, <1>7, SourcesTyped DEF Inv
<1>11. /\ B \in Seq(Promise \cup {None}) /\ Len(B) = Len(sources[r])
       /\ DOMAIN B = DOMAIN A /\ B[k] = value[v]
       /\ \A i \in DOMAIN A \ {k} : B[i] = A[i]
  BY <1>6, <1>8, <1>10
<1>12. /\ DOMAIN values' = Promise /\ values'[r] = B
       /\ \A o \in Promise \ {r} : values'[o] = values[o]
  BY <1>9 DEF Inv, ShapeInv
<1>13. B # None
  <2>1. Len(B) \in 0 .. MaxElements
    BY <1>11, SourcesTyped DEF Inv
  <2>2. B \in [1 .. Len(B) -> Promise \cup {None}]
    BY <1>11
  <2> QED BY <2>1, <2>2, PromisesAssumption
<1>14. \A o \in Promise : IsAll(o)' <=> IsAll(o)
  BY <1>4, <1>12, <1>13 DEF IsAll
<1>15. \A o \in Promise : IsAll(o) => /\ values'[o] \in Seq(Promise \cup {None})
                                      /\ Len(values'[o]) = Len(sources[o])
  <2>1. \A o \in Promise \ {r} : IsAll(o) => /\ values'[o] \in Seq(Promise \cup {None})
                                             /\ Len(values'[o]) = Len(sources[o])
    BY ZenonT(60), <1>12 DEF Inv, TypeOK
  <2> QED BY <2>1, <1>11, <1>12
<1>16. \A o \in Promise : ~IsAll(o) => values'[o] = values[o]
  BY <1>4, <1>12
<1>17. AllBody(r)
  BY <1>4, AllMeans DEF Inv
\* One element fewer is missing.
<1> DEFINE Missing(S) == {i \in DOMAIN S : S[i] = None}
<1>18. /\ Cardinality(Missing(B)) = Cardinality(Missing(A)) - 1
       /\ Cardinality(Missing(A)) \in Nat /\ IsFiniteSet(Missing(A))
  <2>1. IsFiniteSet(DOMAIN A)
    <3>1. DOMAIN A = 1 .. Len(A) /\ Len(A) \in Nat
      BY <1>10
    <3>2. PICK n \in Nat : DOMAIN A = 1 .. n
      BY <3>1
    <3>3. IsFiniteSet(1 .. n)
      BY FS_Interval
    <3> QED BY <3>2, <3>3
  <2>2. IsFiniteSet(Missing(A)) /\ k \in Missing(A)
    BY <2>1, <1>10, FS_Subset
  <2>3. Missing(B) = Missing(A) \ {k}
    BY <1>6, <1>10, <1>11
  <2> HIDE DEF Missing
  <2>4. Cardinality(Missing(A) \ {k}) = Cardinality(Missing(A)) - 1
    BY <2>2, FS_RemoveElement
  <2> QED BY <2>2, <2>3, <2>4, FS_CardinalityType
<1>19. /\ remaining[r] = Cardinality(Missing(A))
       /\ \A i \in DOMAIN A : A[i] # None =>
             state[sources[r][i]] = "fulfilled" /\ A[i] = value[sources[r][i]]
       /\ state[r] = "fulfilled" <=> remaining[r] = 0
       /\ state[r] = "rejected" =>
             \E i \in DOMAIN sources[r] : /\ state[sources[r][i]] = "rejected"
                                          /\ value[sources[r][i]] = value[r]
  BY <1>7, <1>17 DEF AllBody
<1>20. remaining[r] \in 1 .. MaxElements
  <2>1. Missing(A) # {}
    BY <1>10
  <2> HIDE DEF Missing
  <2>2. Cardinality(Missing(A)) # 0
    BY <2>1, <1>18, FS_EmptySet
  <2>3. remaining[r] \in 0 .. MaxElements
    BY DEF Inv, TypeOK
  <2> QED BY <2>2, <2>3, <1>19, PromisesAssumption
<1>21. /\ remaining' \in [Promise -> 0 .. MaxElements]
       /\ remaining'[r] = remaining[r] - 1
       /\ \A o \in Promise \ {r} : remaining'[o] = remaining[o]
  <2>1. remaining[r] - 1 \in 0 .. MaxElements
    BY <1>20, PromisesAssumption
  <2> QED BY <2>1, <1>9 DEF Inv, TypeOK
<1>22. state[r] # "fulfilled"
  BY <1>19, <1>20
\* A rejected all is short of another element too.
<1>23. remaining[r] = 1 => Pending(r)
  <2> SUFFICES ASSUME remaining[r] = 1, ~Pending(r) PROVE FALSE
    OBVIOUS
  <2>1. state[r] = "rejected"
    BY <1>22 DEF Pending, Inv, TypeOK
  <2>2. PICK i \in DOMAIN sources[r] : state[sources[r][i]] = "rejected"
    BY <2>1, <1>19
  <2>3. i \in Missing(A) /\ k \in Missing(A) /\ i # k
    BY <2>2, <1>4, <1>6, <1>10, <1>19
  <2>4. Cardinality(Missing(B)) = 0 /\ i \in Missing(B) /\ IsFiniteSet(Missing(B))
    <3>1. i \in Missing(B) /\ Missing(B) \subseteq Missing(A)
      BY <2>3, <1>6, <1>10, <1>11
    <3> HIDE DEF Missing
    <3> QED BY <3>1, <1>18, <1>19, FS_Subset
  <2> HIDE DEF Missing
  <2> QED BY <2>4, FS_EmptySet
<1>24. Decides(q, r)
  <2>1. CASE LastFulfilment(r)
    <3>1. Pending(r)
      BY <2>1, <1>23 DEF LastFulfilment
    <3>2. Carries(r, "fulfilled", r) /\ Settle(q, r, "fulfilled", r)
      BY <2>1, <1>2, <1>4 DEF Carries
    <3> QED BY <3>1, <3>2 DEF Decides
  <2>2. CASE ~LastFulfilment(r)
    BY <2>2, <1>2 DEF Decides
  <2> QED BY <2>1, <2>2
<1>25. SlotMoved(q, r)
  BY <1>2, <1>24, SlotMoves
<1>26. state'[r] = "fulfilled" <=> remaining'[r] = 0
  <2>1. CASE LastFulfilment(r)
    <3>1. Pending(r) /\ remaining[r] = 1
      BY <2>1, <1>23 DEF LastFulfilment
    <3>2. state'[r] = "fulfilled"
      BY <2>1, <3>1, <1>2 DEF Settle, Inv, TypeOK
    <3> QED BY <3>1, <3>2, <1>21
  <2>2. CASE ~LastFulfilment(r)
    <3>1. state'[r] = state[r] /\ remaining[r] # 1
      BY <2>2, <1>2 DEF LastFulfilment
    <3> QED BY <3>1, <1>20, <1>21, <1>22
  <2> QED BY <2>1, <2>2
<1>27. \A o \in Promise : state[o] \in {"fulfilled", "rejected"} =>
          state'[o] = state[o] /\ value'[o] = value[o]
  BY <1>25 DEF SlotMoved
<1>28. AllBody(r)'
  <2>1. remaining'[r] = Cardinality({i \in DOMAIN values'[r] : values'[r][i] = None})
    BY ZenonT(60), <1>12, <1>18, <1>19, <1>21
  <2>2. \A i \in DOMAIN sources[r] : sources[r][i] \in Promise
    BY SourcesTyped DEF Inv
  <2>3. ASSUME NEW i \in DOMAIN B, B[i] # None
        PROVE  state'[sources[r][i]] = "fulfilled" /\ B[i] = value'[sources[r][i]]
    <3>1. CASE i = k
      BY <3>1, <1>4, <1>5, <1>6, <1>11, <1>27
    <3>2. CASE i # k
      BY <2>2, <2>3, <3>2, <1>10, <1>11, <1>19, <1>27
    <3> QED BY <3>1, <3>2
  <2>4. state'[r] = "rejected" =>
           \E i \in DOMAIN sources[r] : /\ state'[sources[r][i]] = "rejected"
                                        /\ value'[sources[r][i]] = value'[r]
    <3> SUFFICES ASSUME state'[r] = "rejected"
                 PROVE  \E i \in DOMAIN sources[r] : /\ state'[sources[r][i]] = "rejected"
                                                     /\ value'[sources[r][i]] = value'[r]
      OBVIOUS
    <3>1. ~LastFulfilment(r)
      BY <1>2, <1>23 DEF LastFulfilment, Settle, Inv, TypeOK
    <3>2. state'[r] = state[r] /\ value'[r] = value[r]
      BY <3>1, <1>2
    <3>3. PICK i \in DOMAIN sources[r] : /\ state[sources[r][i]] = "rejected"
                                         /\ value[sources[r][i]] = value[r]
      BY <3>2, <1>19
    <3> QED BY <3>2, <3>3, <2>2, <1>27
  <2> QED BY <2>1, <2>3, <2>4, <1>12, <1>26 DEF AllBody
<1>29. AllMeansAll'
  <2>1. ASSUME NEW o \in made, IsAll(o), o # r PROVE AllBody(o)'
    <3>1. o \in Promise /\ AllBody(o)
      BY <2>1, AllMeans DEF Inv, TypeOK
    <3>2. UNCHANGED <<values[o], remaining[o], sources[o], state[o], value[o]>>
      BY <2>1, <3>1, <1>12, <1>21, <1>25 DEF SlotMoved
    <3> QED BY <2>1, <3>1, <3>2, <1>27, AllBodyKept DEF Inv
  <2>2. \A o \in made' : IsAll(o)' => AllBody(o)'
    BY <2>1, <1>14, <1>28 DEF Inv, TypeOK
  <2> QED BY <2>2 DEF AllMeansAll, AllBody
<1>30. SlotInv(micro)'
  <2> SUFFICES ASSUME NEW o \in Promise, NEW i \in 1 .. MaxElements,
                      CombinatorSlot(o, i) \in Held(q, reactions), IsAll(o)
               PROVE  values'[o][i] = None
    BY <1>14, <1>25 DEF SlotInv, SlotMoved
  <2>1. values[o][i] = None
    BY <1>1 DEF SlotInv
  <2>2. CASE o # r
    BY <2>1, <2>2, <1>12
  <2>3. CASE o = r
    <3>1. i # k
      BY <2>3, <1>1, <1>4
    <3>2. i \in DOMAIN sources[r]
      <4>1. Fit(CombinatorSlot(o, i))
        BY <1>1 DEF JobInv
      <4> QED BY <4>1, <2>3, JobFields DEF Fit
    <3> QED BY <2>1, <2>3, <3>1, <3>2, <1>7, <1>10, <1>11, <1>12
  <2> QED BY <2>2, <2>3
<1> QED BY <1>2, <1>12, <1>14, <1>15, <1>16, <1>21, <1>25, <1>29, <1>30, SlotShape

LEMMA SlotStepKeeps ==
    ASSUME Inv, NEW q, NEW job, Shift(q, job), job[1] = "slot",
           SlotStep(q, job[2], job[3]),
           adopting' = {}, UNCHANGED <<owner, after, aborted>>
    PROVE  Inv'
<1>1. PICK v : v = sources[job[2]][job[3]]
  OBVIOUS
<1>2. UNCHANGED <<handled, resolutions, pairs, open, made, sources, owner, ran, after, adopted, aborted>>
  BY DEF SlotStep
<1>3. CASE ~IsAll(job[2]) \/ state[v] = "rejected"
  <2>1. Forward(q, job[2], v) /\ UNCHANGED <<values, remaining>>
    BY <1>1, <1>3 DEF SlotStep, CombinatorSettled
  <2> QED BY <1>1, <1>2, <1>3, <2>1, ForwardSlotKeeps
<1>4. CASE ~(~IsAll(job[2]) \/ state[v] = "rejected")
  <2>1. /\ values' = [values EXCEPT ![job[2]][job[3]] = value[v]]
        /\ remaining' = [remaining EXCEPT ![job[2]] = @ - 1]
        /\ IF LastFulfilment(job[2])
           THEN Settle(q, job[2], "fulfilled", job[2])
           ELSE micro' = q /\ UNCHANGED <<state, value, reactions, rejected>>
    BY <1>1, <1>4 DEF SlotStep, CombinatorSettled
  <2>2. IsAll(job[2]) /\ state[v] # "rejected"
    BY <1>4
  <2> QED BY <1>1, <1>2, <2>1, <2>2, FillSlotKeeps
<1> QED BY <1>3, <1>4

LEMMA RunMicrotaskKeeps ==
    ASSUME Inv, RunMicrotask
    PROVE  Inv'
<1>1. PICK q : q = Tail(micro)
  OBVIOUS
<1>2. PICK job : job = Head(micro)
  OBVIOUS
<1>3. Shift(q, job) /\ RunJob(q, job)
  BY <1>1, <1>2 DEF Shift, RunMicrotask
<1>4. adopting' = {} /\ UNCHANGED <<owner, after, aborted>>
  BY <1>3 DEF RunJob
<1>5. CASE job[1] = "user" /\ UserStep(q, job[2])
  BY <1>3, <1>4, <1>5, UserStepKeeps
<1>6. CASE job[1] = "thenable" /\ ThenableStep(q, job[2])
  BY <1>3, <1>4, <1>6, ThenableStepKeeps
<1>7. CASE job[1] = "begin" /\ AdoptionBeginStep(q, job[2], job[3])
  BY <1>3, <1>4, <1>7, AdoptionBeginStepKeeps
<1>8. CASE job[1] = "settled" /\ AdoptionSettledStep(q, job[2], job[3])
  BY <1>3, <1>4, <1>8, AdoptionSettledStepKeeps
<1>9. CASE job[1] = "slot" /\ SlotStep(q, job[2], job[3])
  BY <1>3, <1>4, <1>9, SlotStepKeeps
<1> QED BY <1>3, <1>5, <1>6, <1>7, <1>8, <1>9 DEF RunJob

LEMMA NextKeeps == Inv /\ [Next]_vars => Inv'
<1> SUFFICES ASSUME Inv, [Next]_vars PROVE Inv'
  OBVIOUS
<1>1. ASSUME NEW p \in Promise, Await(p) PROVE Inv'
  BY <1>1, AwaitKeeps
<1>2. ASSUME NEW p \in Promise, FrameReturn(p) PROVE Inv'
  BY <1>2, FrameReturnKeeps
<1>3. ASSUME NEW p \in Promise, NEW pair \in pairs[p], Resolve(p, pair) PROVE Inv'
  BY <1>3, ResolveKeeps
<1>4. ASSUME NEW p \in Promise, NEW pair \in pairs[p], ResolveAborts(p, pair) PROVE Inv'
  BY <1>4, ResolveAbortsKeeps
<1>5. ASSUME NEW p \in Promise, NEW elements \in Elements, NEW all \in BOOLEAN,
             MakeCombinator(p, elements, all)
      PROVE  Inv'
  BY <1>5, MakeCombinatorKeeps
<1>6. CASE EnqueueJob
  BY <1>6, EnqueueJobKeeps
<1>7. CASE RunMicrotask
  BY <1>7, RunMicrotaskKeeps
<1>8. CASE UNCHANGED vars
  <2>1. UNCHANGED <<promiseVars, micro, rejected, history>> /\ aborted' \in BOOLEAN
    BY <1>8 DEF vars, Inv, TypeOK
  <2> QED BY <2>1, UnchangedKeeps
<1> QED BY <1>1, <1>2, <1>3, <1>4, <1>5, <1>6, <1>7, <1>8 DEF Next, Program

LEMMA InvHolds == Spec => []Inv
BY InitInv, NextKeeps, PTL DEF Spec

(***************************************************************************)
(* Settlements.                                                            *)
(***************************************************************************)
\* Settling leaves a settled promise alone.
LEMMA SettleOnce ==
    ASSUME Inv, NEW q, NEW p \in Promise, NEW outcome, NEW payload, Settle(q, p, outcome, payload)
    PROVE  \A o \in made : ~Pending(o) => state'[o] = state[o] /\ value'[o] = value[o]
<1>1. state \in [Promise -> {"pending", "fulfilled", "rejected"}] /\ DOMAIN value = Promise
        /\ made \subseteq Promise
  BY DEF Inv, TypeOK
<1>2. CASE Pending(p)
  <2>1. state' = [state EXCEPT ![p] = outcome] /\ value' = [value EXCEPT ![p] = payload]
    BY <1>2 DEF Settle
  <2> QED BY <1>1, <1>2, <2>1
<1>3. CASE ~Pending(p)
  BY <1>3 DEF Settle
<1> QED BY <1>2, <1>3

LEMMA StepSettlesOnce ==
    ASSUME Inv, Next
    PROVE  \A o \in made : ~Pending(o) => state'[o] = state[o] /\ value'[o] = value[o]
<1> DEFINE Once == \A o \in made : ~Pending(o) => state'[o] = state[o] /\ value'[o] = value[o]
<1>1. ASSUME UNCHANGED <<state, value>> PROVE Once
  BY <1>1
<1>2. ASSUME NEW p \in Promise, NEW outcome, SettleNow(p, outcome) PROVE Once
  BY <1>2, SettleOnce DEF SettleNow
<1>3. ASSUME NEW p \in Promise, NEW elements, NEW all, MakeCombinator(p, elements, all) PROVE Once
  <2>1. DOMAIN state = Promise /\ DOMAIN value = Promise /\ made \subseteq Promise
    BY DEF Inv, TypeOK
  <2>2. PICK a, b : /\ p \notin made
                    /\ state' = [state EXCEPT ![p] = a]
                    /\ value' = [value EXCEPT ![p] = b]
    BY <1>3 DEF MakeCombinator
  <2> QED BY <2>1, <2>2
<1>4. ASSUME RunMicrotask PROVE Once
  <2>1. PICK q, job : Shift(q, job) /\ RunJob(q, job)
    BY <1>4 DEF Shift, RunMicrotask
  <2>2. job \in Job
    BY <2>1, ShiftHolds
  <2>3. CASE UserStep(q, job[2]) \/ ThenableStep(q, job[2]) \/ AdoptionBeginStep(q, job[2], job[3])
    BY <2>3, <1>1 DEF UserStep, ThenableStep, AdoptionBeginStep, Subscribe, promiseVars
  <2>4. CASE job[1] = "settled" /\ AdoptionSettledStep(q, job[2], job[3])
    <3>1. job[2] \in Promise
      BY <2>2, <2>4, JobForms
    <3> QED BY <2>4, <3>1, SettleOnce DEF AdoptionSettledStep, Forward
  <2>5. CASE job[1] = "slot" /\ SlotStep(q, job[2], job[3])
    <3>1. job[2] \in Promise
      BY <2>2, <2>5, JobForms
    <3>2. CASE UNCHANGED <<state, value>>
      BY <3>2, <1>1
    <3>3. ASSUME NEW outcome, NEW payload, Settle(q, job[2], outcome, payload) PROVE Once
      BY <3>1, <3>3, SettleOnce
    <3> HIDE DEF Once
    <3> QED BY <2>5, <3>2, <3>3 DEF SlotStep, CombinatorSettled, Forward
  <2> HIDE DEF Once
  <2> QED BY <2>1, <2>3, <2>4, <2>5 DEF RunJob
<1>5. ASSUME NEW p \in Promise, Await(p) PROVE Once
  BY <1>1, <1>5 DEF Await, Subscribe
<1>6. ASSUME NEW p \in Promise, NEW inner, Adopt(p, inner) PROVE Once
  BY <1>1, <1>6 DEF Adopt
<1>7. ASSUME NEW p \in Promise, FrameReturn(p) PROVE Once
  <2> HIDE DEF Once
  <2> QED BY <1>2, <1>6, <1>7 DEF FrameReturn
<1>8. ASSUME NEW p \in Promise, NEW pair, Resolve(p, pair) PROVE Once
  <2>1. \/ \E outcome \in {"fulfilled", "rejected"} : SettleNow(p, outcome)
        \/ \E inner \in made : Adopt(p, inner)
        \/ UNCHANGED <<state, value>>
    BY <1>8 DEF Resolve
  <2> HIDE DEF Once
  <2> QED BY <2>1, <1>1, <1>2, <1>6
<1>9. ASSUME NEW p \in Promise, NEW pair, ResolveAborts(p, pair) PROVE Once
  BY <1>1, <1>9 DEF ResolveAborts, promiseVars
<1>10. ASSUME EnqueueJob PROVE Once
  BY <1>1, <1>10 DEF EnqueueJob, promiseVars
<1> HIDE DEF Once
<1>11. Once
  BY <1>3, <1>4, <1>5, <1>7, <1>8, <1>9, <1>10 DEF Next, Program
<1> QED BY <1>11 DEF Once

\* A promise settles once, whatever the program and however many promises it
\* has: nts_promise_settle, its only writer, asks first.
THEOREM SettledForGood == Spec => SettlesOnce
<1>1. Inv /\ [Next]_vars =>
         [\A p \in made : ~Pending(p) => state'[p] = state[p] /\ value'[p] = value[p]]_vars
  BY StepSettlesOnce
<1> QED BY <1>1, InvHolds, PTL DEF Spec, SettlesOnce

\* A key that is held stands in exactly one place.
LEMMA OnePlace ==
    ASSUME Inv, NEW k,
           NEW Q, Q = {i \in DOMAIN micro : Key(micro[i]) = k},
           NEW W, W = UNION {{o} \X {i \in DOMAIN reactions[o] : Key(reactions[o][i]) = k} :
                               o \in Promise}
    PROVE  /\ Cardinality(Q) + Cardinality(W) = IF k \in Keys(micro, reactions) THEN 1 ELSE 0
           /\ IsFiniteSet(Q) /\ IsFiniteSet(W)
<1>1. Queues(micro, reactions) /\ OneEach(micro, reactions)
  BY InvQueues DEF Inv
<1>2. /\ \A i \in DOMAIN micro : micro[i] \in Held(micro, reactions)
      /\ \A o \in Promise : \A i \in DOMAIN reactions[o] : reactions[o][i] \in Held(micro, reactions)
  BY <1>1, HeldPlaces
<1>3. CASE \E i \in DOMAIN micro : Key(micro[i]) = k
  <2>1. PICK i \in DOMAIN micro : Key(micro[i]) = k
    BY <1>3
  <2>2. Q = {i}
    BY <2>1, <1>1 DEF OneEach
  <2>3. W = {}
    BY <2>1, <1>1 DEF OneEach
  <2>4. k \in Keys(micro, reactions)
    BY <2>1, <1>2 DEF Keys
  <2>5. Cardinality(Q) = 1 /\ IsFiniteSet(Q)
    BY <2>2, FS_Singleton
  <2>6. Cardinality(W) = 0 /\ IsFiniteSet(W)
    BY <2>3, FS_EmptySet
  <2> QED BY <2>4, <2>5, <2>6
<1>4. CASE ~(\E i \in DOMAIN micro : Key(micro[i]) = k)
  <2>1. Q = {}
    BY <1>4
  <2>2. CASE \E o \in Promise : \E i \in DOMAIN reactions[o] : Key(reactions[o][i]) = k
    <3>1. PICK o \in Promise : \E i \in DOMAIN reactions[o] : Key(reactions[o][i]) = k
      BY <2>2
    <3>2. PICK i \in DOMAIN reactions[o] : Key(reactions[o][i]) = k
      BY <3>1
    <3>3. \A p \in Promise : \A j \in DOMAIN reactions[p] :
             Key(reactions[p][j]) = k => p = o /\ j = i
      BY <3>2, <1>1 DEF OneEach
    <3>4. W = {<<o, i>>}
      <4>1. \A x \in W : x = <<o, i>>
        BY <3>3
      <4>2. <<o, i>> \in W
        <5>1. <<o, i>> \in {o} \X {j \in DOMAIN reactions[o] : Key(reactions[o][j]) = k}
          BY <3>2
        <5> QED BY <5>1
      <4> QED BY <4>1, <4>2
    <3>5. k \in Keys(micro, reactions)
      BY <3>2, <1>2 DEF Keys
    <3>6. Cardinality(W) = 1 /\ IsFiniteSet(W)
      BY <3>4, FS_Singleton
    <3>7. Cardinality(Q) = 0 /\ IsFiniteSet(Q)
      BY <2>1, FS_EmptySet
    <3> QED BY <3>5, <3>6, <3>7
  <2>3. CASE ~(\E o \in Promise : \E i \in DOMAIN reactions[o] : Key(reactions[o][i]) = k)
    <3>1. W = {}
      BY <2>3
    <3>2. k \notin Keys(micro, reactions)
      <4>1. ASSUME NEW job \in Held(micro, reactions), Key(job) = k PROVE FALSE
        BY <1>1, <1>4, <2>3, <4>1, HeldPlaces
      <4> QED BY <4>1 DEF Keys
    <3> QED BY <2>1, <3>1, <3>2, FS_EmptySet
  <2> QED BY <2>2, <2>3
<1> QED BY <1>3, <1>4

\* The places of the jobs in J, and the jobs that have a key.
QueuedIn(J) == {i \in DOMAIN micro : micro[i] \in J}
WaitingIn(J) ==
    UNION {{o} \X {i \in DOMAIN reactions[o] : reactions[o][i] \in J} : o \in Promise}
WithKey(k) == {job \in Job : Key(job) = k}

LEMMA PlacesMean ==
    ASSUME Inv, NEW k, NEW J, J = WithKey(k)
    PROVE  /\ Cardinality(QueuedIn(J)) + Cardinality(WaitingIn(J))
                 = IF k \in Keys(micro, reactions) THEN 1 ELSE 0
           /\ IsFiniteSet(QueuedIn(J)) /\ IsFiniteSet(WaitingIn(J))
<1>1. /\ \A i \in DOMAIN micro : micro[i] \in Job
      /\ \A o \in Promise : \A i \in DOMAIN reactions[o] : reactions[o][i] \in Job
  BY InvQueues, HeldPlaces
<1>2. QueuedIn(J) = {i \in DOMAIN micro : Key(micro[i]) = k}
  BY <1>1 DEF QueuedIn, WithKey
<1>3. \A o \in Promise : {i \in DOMAIN reactions[o] : reactions[o][i] \in J}
                           = {i \in DOMAIN reactions[o] : Key(reactions[o][i]) = k}
  BY <1>1 DEF WithKey
<1>4. WaitingIn(J)
        = UNION {{o} \X {i \in DOMAIN reactions[o] : Key(reactions[o][i]) = k} : o \in Promise}
  BY <1>3 DEF WaitingIn
<1> QED BY <1>2, <1>4, OnePlace

LEMMA RoutesCount == Inv => OneRoute
<1> SUFFICES ASSUME Inv, NEW p \in made, Kind[p] \in {"frame", "executor"}
             PROVE  Routes(p) = IF Pending(p) THEN 1 ELSE 0
  BY DEF OneRoute
<1>0. p \in Promise /\ Kind[p] # "combinator"
  BY DEF Inv, TypeOK
<1> DEFINE J == {job \in Job : job[1] \in {"begin", "settled", "thenable"} /\ job[2] = p}
           Q == {i \in DOMAIN micro : /\ micro[i][1] \in {"begin", "settled", "thenable"}
                                      /\ micro[i][2] = p}
           W == UNION {{o} \X {i \in DOMAIN reactions[o] :
                                 /\ reactions[o][i][1] \in {"begin", "settled", "thenable"}
                                 /\ reactions[o][i][2] = p} : o \in Promise}
           F == open \cap {p}
           L == {pair \in pairs[p] : pair = resolutions[p]}
<1>1. Routes(p) = Cardinality(F) + Cardinality(L) + Cardinality(Q) + Cardinality(W)
  BY DEF Routes, QueuedAt, WaitingAt
<1>2. /\ \A i \in DOMAIN micro : micro[i] \in Job
      /\ \A o \in Promise : \A i \in DOMAIN reactions[o] : reactions[o][i] \in Job
  BY InvQueues, HeldPlaces
<1>3. J = WithKey(Route(p))
  <2> SUFFICES ASSUME NEW job \in Job
               PROVE  job[1] \in {"begin", "settled", "thenable"} /\ job[2] = p <=> Key(job) = Route(p)
    BY DEF WithKey
  <2>1. /\ Route(p)[1] = "route" /\ Route(p)[2] = p
        /\ Route(job[2])[1] = "route" /\ Route(job[2])[2] = job[2]
    BY JobFields
  <2>2. CASE job[1] \in {"user", "slot"}
    BY <2>1, <2>2, JobMembers
  <2>3. CASE job[1] \in {"begin", "settled", "thenable"}
    BY <2>1, <2>3, JobMembers
  <2> QED BY <2>2, <2>3, JobForms
<1>4. Q = QueuedIn(J)
  BY <1>2 DEF QueuedIn
<1>5. W = WaitingIn(J)
  <2>1. \A o \in Promise : {i \in DOMAIN reactions[o] :
                                 /\ reactions[o][i][1] \in {"begin", "settled", "thenable"}
                                 /\ reactions[o][i][2] = p}
                            = {i \in DOMAIN reactions[o] : reactions[o][i] \in J}
    BY <1>2
  <2> HIDE DEF J
  <2> QED BY <2>1 DEF WaitingIn
<1>6. Cardinality(Q) + Cardinality(W) = IF Route(p) \in Keys(micro, reactions) THEN 1 ELSE 0
  <2> HIDE DEF J, Q, W
  <2> QED BY <1>3, <1>4, <1>5, PlacesMean
<1>7. IsFiniteSet(Q) /\ IsFiniteSet(W)
  <2> HIDE DEF J, Q, W
  <2> QED BY <1>3, <1>4, <1>5, PlacesMean
<1>8. Cardinality(F) = IF p \in open THEN 1 ELSE 0
  <2>1. CASE p \in open
    <3>1. F = {p}
      BY <2>1
    <3> QED BY <2>1, <3>1, FS_Singleton
  <2>2. CASE p \notin open
    <3>1. F = {}
      BY <2>2
    <3> QED BY <2>2, <3>1, FS_EmptySet
  <2> QED BY <2>1, <2>2
<1>9. Cardinality(L) = IF resolutions[p] \in pairs[p] THEN 1 ELSE 0
  <2>1. CASE resolutions[p] \in pairs[p]
    <3>1. L = {resolutions[p]}
      BY <2>1
    <3> QED BY <2>1, <3>1, FS_Singleton
  <2>2. CASE resolutions[p] \notin pairs[p]
    <3>1. L = {}
      BY <2>2
    <3> QED BY <2>2, <3>1, FS_EmptySet
  <2> QED BY <2>1, <2>2
<1> HIDE DEF J, Q, W, F, L
<1>10. Cardinality(Q) \in Nat /\ Cardinality(W) \in Nat
  BY <1>7, FS_CardinalityType
<1>11. Routes(p) = (IF p \in open THEN 1 ELSE 0) + (IF resolutions[p] \in pairs[p] THEN 1 ELSE 0)
                     + (IF Route(p) \in Keys(micro, reactions) THEN 1 ELSE 0)
  BY <1>1, <1>6, <1>8, <1>9, <1>10
<1>12. /\ Pending(p) <=> p \in open \/ resolutions[p] \in pairs[p]
                            \/ Route(p) \in Keys(micro, reactions)
       /\ ~(p \in open /\ resolutions[p] \in pairs[p])
       /\ ~(p \in open /\ Route(p) \in Keys(micro, reactions))
       /\ ~(resolutions[p] \in pairs[p] /\ Route(p) \in Keys(micro, reactions))
  BY <1>0 DEF Inv, RouteInv
<1> QED BY <1>11, <1>12

\* The first resolution decides, and what it carries arrives unchanged, for
\* any number of promises, any chain of adoptions and any combinators
\* (nts_promise_claim, nts_promise_adopt, nts_promise_forward).
THEOREM FirstResolutionDecides == Spec => []ResolutionSound
<1>1. Inv => ResolutionSound
  BY RoutesCount DEF Inv, ResolutionSound
<1> QED BY <1>1, InvHolds, PTL

(***************************************************************************)
(* The program's jobs.                                                     *)
(***************************************************************************)
LEMMA JobsCount == Inv => JobsAccounted
<1> SUFFICES ASSUME Inv PROVE JobsAccounted
  OBVIOUS
<1>1. ASSUME NEW n \in 1 .. Len(owner)
      PROVE  Cardinality(ran \cap {n})
               + Cardinality({i \in DOMAIN micro : micro[i] = UserJob(n)})
               + Cardinality(UNION {{o} \X {i \in DOMAIN reactions[o] : reactions[o][i] = UserJob(n)} :
                                      o \in Promise}) = 1
  <2> DEFINE J == {job \in Job : job = UserJob(n)}
             Q == {i \in DOMAIN micro : micro[i] = UserJob(n)}
             W == UNION {{o} \X {i \in DOMAIN reactions[o] : reactions[o][i] = UserJob(n)} :
                           o \in Promise}
             F == ran \cap {n}
  <2>0. n \in 1 .. MaxJobs /\ UserJob(n) \in Job /\ Key(UserJob(n)) = UserJob(n)
          /\ UserJob(n)[1] = "user"
    <3>1. n \in 1 .. MaxJobs
      BY InvQueues, PromisesAssumption DEF Inv, ShapeInv
    <3> QED BY <3>1, JobMembers, JobFields
  <2>1. J = WithKey(UserJob(n))
    <3>1. ASSUME NEW job \in Job, Key(job) = UserJob(n) PROVE job = UserJob(n)
      BY <2>0, <3>1, KeyMeans
    <3> QED BY <2>0, <3>1 DEF WithKey
  <2>2. /\ \A i \in DOMAIN micro : micro[i] \in Job
        /\ \A o \in Promise : \A i \in DOMAIN reactions[o] : reactions[o][i] \in Job
    BY InvQueues, HeldPlaces
  <2>3. Q = QueuedIn(J)
    BY <2>2 DEF QueuedIn
  <2>4. W = WaitingIn(J)
    <3>1. \A o \in Promise : {i \in DOMAIN reactions[o] : reactions[o][i] = UserJob(n)}
                              = {i \in DOMAIN reactions[o] : reactions[o][i] \in J}
      BY <2>2
    <3> HIDE DEF J
    <3> QED BY <3>1 DEF WaitingIn
  <2>5. /\ Cardinality(Q) + Cardinality(W) = IF UserJob(n) \in Keys(micro, reactions) THEN 1 ELSE 0
        /\ IsFiniteSet(Q) /\ IsFiniteSet(W)
    <3> HIDE DEF J, Q, W
    <3> QED BY <2>1, <2>3, <2>4, PlacesMean
  <2>6. Cardinality(F) = IF n \in ran THEN 1 ELSE 0
    <3>1. CASE n \in ran
      <4>1. F = {n}
        BY <3>1
      <4> QED BY <3>1, <4>1, FS_Singleton
    <3>2. CASE n \notin ran
      <4>1. F = {}
        BY <3>2
      <4> QED BY <3>2, <4>1, FS_EmptySet
    <3> QED BY <3>1, <3>2
  <2>7. UserJob(n) \in Keys(micro, reactions) <=> n \notin ran
    <3>1. CASE n \notin ran
      <4>1. UserJob(n) \in Held(micro, reactions)
        BY <3>1 DEF Inv, UserInv
      <4> QED BY <3>1, <4>1, <2>0 DEF Keys
    <3>2. ASSUME UserJob(n) \in Keys(micro, reactions) PROVE n \notin ran
      <4>1. PICK job \in Held(micro, reactions) : Key(job) = UserJob(n)
        BY <3>2 DEF Keys
      <4>2. job \in Job
        BY InvQueues
      <4>3. job = UserJob(n)
        BY <4>1, <4>2, <2>0, KeyMeans
      <4>4. UserJob(n) \in Held(micro, reactions)
        BY <4>3
      <4> QED BY <4>4, InvQueues, UserHeld
    <3> QED BY <3>1, <3>2
  <2> HIDE DEF J, Q, W, F
  <2>8. Cardinality(Q) \in Nat /\ Cardinality(W) \in Nat
    BY <2>5, FS_CardinalityType
  <2>9. Cardinality(F) + Cardinality(Q) + Cardinality(W) = 1
    BY <2>5, <2>6, <2>7, <2>8
  <2> QED BY <2>9 DEF F, Q, W
<1>2. \A p \in made : ~Pending(p) => reactions[p] = <<>>
  BY DEF Inv, ShapeInv, TypeOK
<1> QED BY <1>1, <1>2 DEF JobsAccounted, QueuedAt, WaitingAt

LEMMA HopsCount == Inv => AdoptionTakesTwoHops
<1> SUFFICES ASSUME Inv, NEW p \in made, ~Pending(p), NEW n \in after[p], n \notin ran PROVE FALSE
  BY DEF AdoptionTakesTwoHops
<1>1. p \in Promise
  BY DEF Inv, TypeOK
<1>2. HopHeld(p, micro, reactions)
  BY <1>1 DEF Inv, AfterInv
<1>3. PICK job \in Held(micro, reactions) : job[1] \in {"begin", "settled"} /\ job[2] = p
  BY <1>2, JobFields DEF HopHeld
<1>4. Fit(job)
  BY InvQueues
<1> QED BY <1>3, <1>4 DEF Fit

\* What a step does to the list of the program's jobs: it adds one, or runs
\* the one at the head of the queue, or neither.
LEMMA JobSteps ==
    ASSUME Inv, Next
    PROVE  \/ UNCHANGED <<owner, ran>>
           \/ ran' = ran /\ \E x \in Promise \cup {None} : owner' = Append(owner, x)
           \/ /\ owner' = owner
              /\ \E q, job : /\ Shift(q, job) /\ job[1] = "user"
                             /\ ran' = ran \cup {job[2]}
<1> DEFINE Goal == \/ UNCHANGED <<owner, ran>>
                   \/ ran' = ran /\ \E x \in Promise \cup {None} : owner' = Append(owner, x)
                   \/ /\ owner' = owner
                      /\ \E q, job : /\ Shift(q, job) /\ job[1] = "user"
                                     /\ ran' = ran \cup {job[2]}
<1>1. ASSUME UNCHANGED <<owner, ran>> PROVE Goal
  BY <1>1
<1>2. ASSUME NEW p \in Promise, Await(p) PROVE Goal
  BY <1>2 DEF Await, MakeJob
<1>3. ASSUME EnqueueJob PROVE Goal
  BY <1>3 DEF EnqueueJob, MakeJob
<1>4. ASSUME NEW p \in Promise, NEW outcome, SettleNow(p, outcome) PROVE Goal
  BY <1>1, <1>4 DEF SettleNow, history
<1>5. ASSUME NEW p \in Promise, NEW inner, Adopt(p, inner) PROVE Goal
  BY <1>1, <1>5 DEF Adopt
<1>6. ASSUME NEW p \in Promise, NEW elements, NEW all, MakeCombinator(p, elements, all) PROVE Goal
  BY <1>1, <1>6 DEF MakeCombinator, history
<1>7. ASSUME NEW p \in Promise, NEW pair, ResolveAborts(p, pair) PROVE Goal
  BY <1>1, <1>7 DEF ResolveAborts, history
<1>8. ASSUME RunMicrotask PROVE Goal
  <2>1. PICK q, job : Shift(q, job) /\ RunJob(q, job)
    BY <1>8 DEF Shift, RunMicrotask
  <2>2. owner' = owner
    BY <2>1 DEF RunJob
  <2>3. \/ job[1] = "user" /\ ran' = ran \cup {job[2]}
        \/ ran' = ran
    BY <2>1 DEF RunJob, UserStep, ThenableStep, AdoptionBeginStep, AdoptionSettledStep, SlotStep
  <2>4. CASE job[1] = "user" /\ ran' = ran \cup {job[2]}
    BY <2>1, <2>2, <2>4
  <2>5. CASE ran' = ran
    BY <2>2, <2>5
  <2> HIDE DEF Goal
  <2> QED BY <2>3, <2>4, <2>5
<1> HIDE DEF Goal
<1>9. ASSUME NEW p \in Promise, FrameReturn(p) PROVE Goal
  BY <1>4, <1>5, <1>9 DEF FrameReturn
<1>10. ASSUME NEW p \in Promise, NEW pair, Resolve(p, pair) PROVE Goal
  <2>1. \/ \E outcome \in {"fulfilled", "rejected"} : SettleNow(p, outcome)
        \/ \E inner \in made : Adopt(p, inner)
        \/ UNCHANGED history
    BY <1>10 DEF Resolve
  <2>2. CASE UNCHANGED history
    BY <1>1, <2>2 DEF history
  <2> QED BY <2>1, <2>2, <1>4, <1>5
<1>11. Goal
  BY <1>2, <1>3, <1>6, <1>7, <1>8, <1>9, <1>10 DEF Next, Program
<1> QED BY <1>11 DEF Goal

LEMMA OrderStep == Inv /\ ReactionOrder /\ [Next]_vars => ReactionOrder'
<1> SUFFICES ASSUME Inv, ReactionOrder, [Next]_vars PROVE ReactionOrder'
  OBVIOUS
<1>1. /\ Len(owner) \in Nat /\ owner \in Seq(Promise \cup {None})
      /\ ran \subseteq 1 .. Len(owner)
  BY InvQueues DEF Inv, TypeOK
<1>2. CASE UNCHANGED <<owner, ran>>
  BY <1>2 DEF ReactionOrder
<1>3. CASE ran' = ran /\ \E x \in Promise \cup {None} : owner' = Append(owner, x)
  <2>1. \A m \in 1 .. Len(owner) : owner'[m] = owner[m]
    BY <1>1, <1>3
  <2> SUFFICES ASSUME NEW n \in ran, NEW m \in 1 .. n - 1, owner'[m] = owner'[n] PROVE m \in ran
    BY <1>3 DEF ReactionOrder
  <2>2. n \in 1 .. Len(owner) /\ m \in 1 .. Len(owner)
    BY <1>1
  <2> QED BY <2>1, <2>2 DEF ReactionOrder
<1>4. CASE /\ owner' = owner
           /\ \E q, job : /\ Shift(q, job) /\ job[1] = "user"
                          /\ ran' = ran \cup {job[2]}
  <2>1. PICK q, job : /\ Shift(q, job) /\ job[1] = "user"
                      /\ ran' = ran \cup {job[2]}
    BY <1>4
  <2>2. PICK n : n = job[2]
    OBVIOUS
  <2>3. /\ job = UserJob(n) /\ n \in 1 .. Len(owner)
        /\ UserJob(n) \in ToSet(micro) /\ \A a : ~Ahead(micro, a, UserJob(n))
    <3>1. job \in Job /\ Fit(job) /\ job \in ToSet(micro) /\ \A a : ~Ahead(micro, a, job)
      BY <2>1, ShiftHolds
    <3>2. job = UserJob(n)
      BY <2>1, <2>2, <3>1, JobForms
    <3> QED BY <2>1, <2>2, <3>1, <3>2 DEF Fit
  <2>4. ASSUME NEW m \in 1 .. n - 1, owner[m] = owner[n] PROVE m \in ran
    <3>1. m \in 1 .. Len(owner) /\ m < n
      BY <2>3, <1>1
    <3> QED BY <2>3, <2>4, <3>1 DEF Inv, OrderInv
  <2>5. \A k \in ran' : k \in ran \/ k = n
    BY <2>1, <2>2
  <2>6. \A k \in ran : k \in ran'
    BY <2>1
  <2> QED BY <2>4, <2>5, <2>6, <1>4 DEF ReactionOrder
<1>5. CASE UNCHANGED vars
  BY <1>2, <1>5 DEF vars, history
<1>6. CASE Next
  BY <1>2, <1>3, <1>4, <1>6, JobSteps
<1> QED BY <1>5, <1>6

\* Each job of the program runs once, in the order its promise was subscribed
\* to, and the second hop of an adoption comes behind those made after it
\* (nts_promise_schedule, nts_promise_subscribe, nts_adoption_begin).
THEOREM JobsRunOnceInOrder == Spec => []JobsSound
<1>1. Init => ReactionOrder
  BY DEF Init, ReactionOrder
<1>2. Inv /\ ReactionOrder => JobsSound
  BY JobsCount, HopsCount DEF JobsSound
<1> QED BY <1>1, <1>2, OrderStep, InvHolds, PTL DEF Spec

(***************************************************************************)
(* Combinators and rejections.                                             *)
(***************************************************************************)
\* Promise.all fulfils exactly when each of its elements has, however many
\* there are and whatever they settle through (nts_combinator_settled).
THEOREM AllWaitsForAll == Spec => []AllMeansAll
<1>1. Inv => AllMeansAll
  BY DEF Inv
<1> QED BY <1>1, InvHolds, PTL

\* A promise rejects with a listener, or it is put on the list.
LEMMA SettleRemembers ==
    ASSUME Inv, Remembered, NEW q, NEW p \in Promise, NEW outcome, NEW payload,
           Settle(q, p, outcome, payload), UNCHANGED <<handled, made>>
    PROVE  Remembered'
<1>1. /\ state \in [Promise -> {"pending", "fulfilled", "rejected"}] /\ made \subseteq Promise
      /\ rejected \in Seq(made) /\ DOMAIN rejected = 1 .. Len(rejected) /\ Len(rejected) \in Nat
  BY DEF Inv, TypeOK
<1>2. CASE ~Pending(p)
  BY <1>2 DEF Settle, Remembered
<1>3. CASE Pending(p)
  <2>1. state' = [state EXCEPT ![p] = outcome]
    BY <1>3 DEF Settle
  <2>2. \A o \in made \ {p} : state'[o] = state[o]
    BY <1>1, <2>1
  <2>3. CASE outcome = "rejected" /\ ~Listened(p)
    <3>1. rejected' = Append(rejected, p)
      BY <1>3, <2>3 DEF Settle, RejectionCandidate
    <3>2. /\ \A i \in DOMAIN rejected : i \in DOMAIN rejected' /\ rejected'[i] = rejected[i]
          /\ \E i \in DOMAIN rejected' : rejected'[i] = p
      BY <1>1, <3>1
    <3> QED BY <2>2, <3>2 DEF Remembered
  <2>4. CASE ~(outcome = "rejected" /\ ~Listened(p))
    <3>1. rejected' = rejected
      BY <1>3, <2>4 DEF Settle
    <3>2. Listened(p) => handled[p]
      BY DEF Listened, Inv, ShapeInv
    <3>3. state'[p] = outcome
      BY <1>1, <2>1
    <3> QED BY <2>2, <2>4, <3>1, <3>2, <3>3 DEF Remembered
  <2> QED BY <2>3, <2>4
<1> QED BY <1>2, <1>3

LEMMA SubscribeRemembers ==
    ASSUME Inv, Remembered, NEW q, NEW p, NEW job, Subscribe(q, p, job), UNCHANGED made
    PROVE  Remembered'
<1>1. \A o \in made : handled[o] => handled'[o]
  BY DEF Subscribe, Inv, TypeOK
<1> QED BY <1>1 DEF Remembered, Subscribe

LEMMA CombinatorRemembers ==
    ASSUME Inv, Remembered, NEW p \in Promise, NEW elements, NEW all,
           MakeCombinator(p, elements, all)
    PROVE  Remembered'
<1>1. /\ made' = made \cup {p} /\ rejected' = rejected /\ p \notin made
      /\ \A o \in Promise : handled[o] => handled'[o]
      /\ \E outcome \in {"fulfilled", "pending"} : state' = [state EXCEPT ![p] = outcome]
  BY DEF MakeCombinator
<1>2. /\ made \subseteq Promise /\ state'[p] # "rejected"
      /\ \A o \in made : state'[o] = state[o]
  BY <1>1 DEF Inv, TypeOK
<1> QED BY <1>1, <1>2 DEF Remembered

LEMMA JobRemembers ==
    ASSUME Inv, Remembered, RunMicrotask
    PROVE  Remembered'
<1>1. PICK q, job : Shift(q, job) /\ RunJob(q, job)
  BY DEF Shift, RunMicrotask
<1>2. job \in Job
  BY <1>1, ShiftHolds
<1>3. ASSUME UNCHANGED <<state, handled, made, rejected>> PROVE Remembered'
  BY <1>3 DEF Remembered
<1>4. CASE job[1] = "user" /\ UserStep(q, job[2])
  BY <1>3, <1>4 DEF UserStep, promiseVars
<1>5. CASE job[1] = "thenable" /\ ThenableStep(q, job[2])
  BY <1>3, <1>5 DEF ThenableStep
<1>6. CASE job[1] = "begin" /\ AdoptionBeginStep(q, job[2], job[3])
  BY <1>6, SubscribeRemembers DEF AdoptionBeginStep
<1>7. CASE job[1] = "settled" /\ AdoptionSettledStep(q, job[2], job[3])
  <2>1. job[2] \in Promise
    BY <1>2, <1>7, JobForms
  <2> QED BY <1>7, <2>1, SettleRemembers DEF AdoptionSettledStep, Forward
<1>8. CASE job[1] = "slot" /\ SlotStep(q, job[2], job[3])
  <2>1. job[2] \in Promise
    BY <1>2, <1>8, JobForms
  <2>2. \/ \E outcome, payload : Settle(q, job[2], outcome, payload)
        \/ UNCHANGED <<state, rejected>>
    BY <1>8 DEF SlotStep, CombinatorSettled, Forward
  <2>3. UNCHANGED <<handled, made>>
    BY <1>8 DEF SlotStep
  <2> QED BY <1>3, <2>1, <2>2, <2>3, SettleRemembers
<1> QED BY <1>1, <1>4, <1>5, <1>6, <1>7, <1>8 DEF RunJob

LEMMA StepRemembers == Inv /\ Remembered /\ [Next]_vars => Remembered'
<1> SUFFICES ASSUME Inv, Remembered, [Next]_vars PROVE Remembered'
  OBVIOUS
<1>1. ASSUME UNCHANGED <<state, handled, made, rejected>> PROVE Remembered'
  BY <1>1 DEF Remembered
<1>2. ASSUME NEW p \in Promise, Await(p) PROVE Remembered'
  BY <1>2, SubscribeRemembers DEF Await
<1>3. ASSUME NEW p \in Promise, NEW outcome, SettleNow(p, outcome), UNCHANGED made
      PROVE  Remembered'
  BY <1>3, SettleRemembers DEF SettleNow
<1>4. ASSUME NEW p, NEW inner, Adopt(p, inner), UNCHANGED made PROVE Remembered'
  BY <1>1, <1>4 DEF Adopt
<1>5. ASSUME NEW p \in Promise, FrameReturn(p) PROVE Remembered'
  BY <1>3, <1>4, <1>5 DEF FrameReturn
<1>6. ASSUME NEW p \in Promise, NEW pair, Resolve(p, pair) PROVE Remembered'
  <2>1. UNCHANGED made
    BY <1>6 DEF Resolve
  <2>2. \/ \E outcome \in {"fulfilled", "rejected"} : SettleNow(p, outcome)
        \/ \E inner \in made : Adopt(p, inner)
        \/ UNCHANGED <<state, handled, rejected>>
    BY <1>6 DEF Resolve
  <2> QED BY <1>1, <1>3, <1>4, <2>1, <2>2
<1>7. ASSUME NEW p \in Promise, NEW pair, ResolveAborts(p, pair) PROVE Remembered'
  BY <1>1, <1>7 DEF ResolveAborts, promiseVars
<1>8. ASSUME NEW p \in Promise, NEW elements, NEW all, MakeCombinator(p, elements, all)
      PROVE  Remembered'
  BY <1>8, CombinatorRemembers
<1>9. CASE EnqueueJob
  BY <1>1, <1>9 DEF EnqueueJob, promiseVars
<1>10. CASE RunMicrotask
  BY <1>10, JobRemembers
<1>11. CASE UNCHANGED vars
  BY <1>1, <1>11 DEF vars, promiseVars
<1> QED BY <1>2, <1>5, <1>6, <1>7, <1>8, <1>9, <1>10, <1>11 DEF Next, Program

\* A checkpoint can tell every rejection that nothing listens to
\* (nts_promise_settle, nts_promise_subscribe, nts_combinator_new).
THEOREM NoRejectionForgotten == Spec => []RejectionsKnown
<1>1. Init => Remembered
  BY DEF Init, Remembered
<1>2. Inv /\ Remembered => RejectionsKnown
  BY DEF Inv, Noted, Remembered, RejectionsKnown
<1> QED BY <1>1, <1>2, StepRemembers, InvHolds, PTL DEF Spec

=============================================================================
