-------------------------- MODULE CheckpointProofs --------------------------
(***************************************************************************)
(* Proofs about the checkpoint, for every program and every nesting of     *)
(* calls: what the environment's counters and flags say of the C stack,    *)
(* where a checkpoint can stand on it, when rejections are reported and    *)
(* what a join answers.                                                    *)
(*                                                                         *)
(* Every step puts at most two frames on what is left of the stack, so the *)
(* stack is taken apart as Cons(top, rest) and everything said of it is    *)
(* carried over one frame at a time.                                       *)
(***************************************************************************)
EXTENDS Checkpoint, PromisesProofs, FiniteSetTheorems, TLAPS

Whys == {"none", "leave", "callback", "explicit", "join"}
StackKinds == ProgramKinds \cup {"loop", "checkpoint", "report", "join"}
FrameSet == [kind : StackKinds, prev : BOOLEAN, why : Whys, at : Nat,
             of : Promise \cup {None}]

(***************************************************************************)
(* Stacks.                                                                 *)
(***************************************************************************)
\* Positions of s whose frame is of one of the kinds, and how many.
PlacesOf(s, kinds) == {i \in DOMAIN s : s[i].kind \in kinds}
Count(s, kinds) == Cardinality(PlacesOf(s, kinds))
One(f, kinds) == IF f.kind \in kinds THEN 1 ELSE 0
Has(s, kind) == \E i \in DOMAIN s : s[i].kind = kind

LEMMA ConsShape ==
    ASSUME NEW F, NEW f \in F, NEW s \in Seq(F)
    PROVE  /\ Cons(f, s) \in Seq(F)
           /\ Cons(f, s) # <<>>
           /\ Head(Cons(f, s)) = f
           /\ Tail(Cons(f, s)) = s
           /\ Len(s) \in Nat
           /\ DOMAIN s = 1 .. Len(s)
           /\ DOMAIN Cons(f, s) = 1 .. (Len(s) + 1)
           /\ Cons(f, s)[1] = f
           /\ \A i \in 1 .. Len(s) : Cons(f, s)[i + 1] = s[i]
           /\ Len(Cons(f, s)) = Len(s) + 1
<1>1. <<f>> \in Seq(F) /\ Len(<<f>>) = 1
  OBVIOUS
<1>2. Cons(f, s) \in Seq(F) /\ Len(Cons(f, s)) = Len(s) + 1 /\ Len(s) \in Nat
  BY <1>1 DEF Cons
<1>3. Cons(f, s)[1] = f
  BY <1>1 DEF Cons
<1>4. \A i \in 1 .. Len(s) : Cons(f, s)[i + 1] = s[i]
  BY <1>1 DEF Cons
<1>5. Cons(f, s) # <<>>
  BY <1>2
<1>6. Head(Cons(f, s)) = f
  BY <1>2, <1>3, <1>5
<1>7. Tail(Cons(f, s)) = s
  <2>1. /\ Tail(Cons(f, s)) \in Seq(F) /\ Len(Tail(Cons(f, s))) = Len(s)
        /\ \A i \in 1 .. Len(s) : Tail(Cons(f, s))[i] = Cons(f, s)[i + 1]
    BY <1>2, <1>5
  <2> QED BY <1>4, <2>1, SeqEqual
<1> QED BY <1>2, <1>3, <1>4, <1>5, <1>6, <1>7

LEMMA Split ==
    ASSUME NEW F, NEW s \in Seq(F), s # <<>>
    PROVE  Head(s) \in F /\ Tail(s) \in Seq(F) /\ s = Cons(Head(s), Tail(s))
<1>1. Head(s) \in F /\ Tail(s) \in Seq(F) /\ Len(Tail(s)) = Len(s) - 1 /\ Len(s) \in Nat \ {0}
  OBVIOUS
<1>2. Cons(Head(s), Tail(s)) \in Seq(F) /\ Len(Cons(Head(s), Tail(s))) = Len(s)
  BY <1>1 DEF Cons
<1>3. \A i \in 1 .. Len(s) : Cons(Head(s), Tail(s))[i] = s[i]
  BY <1>1 DEF Cons
<1> QED BY <1>1, <1>2, <1>3, SeqEqual

\* Two frames put on s at once.
TwoOn(t, f, g, s) == t = <<f, g>> \o s

LEMMA TwoOnTop ==
    ASSUME NEW f \in FrameSet, NEW g \in FrameSet, NEW s \in Seq(FrameSet), NEW t,
           TwoOn(t, f, g, s)
    PROVE  t = Cons(f, Cons(g, s))
<1>1. t \in Seq(FrameSet) /\ Len(t) = Len(s) + 2 /\ Len(s) \in Nat /\ t[1] = f /\ t[2] = g
  BY DEF TwoOn
<1>2. \A i \in 1 .. Len(s) : t[i + 2] = s[i]
  BY DEF TwoOn
<1>3. PICK b : /\ b = Cons(g, s) /\ b \in Seq(FrameSet) /\ Len(b) = Len(s) + 1
               /\ b[1] = g /\ \A i \in 1 .. Len(s) : b[i + 1] = s[i]
  <2>1. /\ Cons(g, s) \in Seq(FrameSet) /\ Len(Cons(g, s)) = Len(s) + 1
        /\ Cons(g, s)[1] = g /\ \A i \in 1 .. Len(s) : Cons(g, s)[i + 1] = s[i]
    BY ConsShape
  <2> QED BY <2>1
<1>4. PICK c : /\ c = Cons(f, b) /\ c \in Seq(FrameSet) /\ Len(c) = Len(b) + 1
               /\ c[1] = f /\ \A i \in 1 .. Len(b) : c[i + 1] = b[i]
  <2>1. b \in Seq(FrameSet)
    BY <1>3
  <2>2. /\ Cons(f, b) \in Seq(FrameSet) /\ Len(Cons(f, b)) = Len(b) + 1
        /\ Cons(f, b)[1] = f /\ \A i \in 1 .. Len(b) : Cons(f, b)[i + 1] = b[i]
    BY <2>1, ConsShape
  <2> QED BY <2>2
<1>5. Len(c) = Len(t)
  BY <1>1, <1>3, <1>4
<1>6. ASSUME NEW i \in 1 .. Len(t) PROVE t[i] = c[i]
  <2>1. CASE i = 1
    BY <1>1, <1>4, <2>1
  <2>2. CASE i = 2
    <3>1. 1 \in 1 .. Len(b) /\ 1 + 1 = 2
      BY <1>1, <1>3
    <3> QED BY <1>1, <1>3, <1>4, <2>2, <3>1
  <2>3. CASE i > 2
    <3>1. PICK k : k = i - 2 /\ k \in 1 .. Len(s) /\ k + 1 \in 1 .. Len(b) /\ k + 2 = i
                   /\ (k + 1) + 1 = i
      BY <1>1, <1>3, <1>6, <2>3
    <3>2. t[k + 2] = s[k] /\ b[k + 1] = s[k] /\ c[(k + 1) + 1] = b[k + 1]
      BY <1>2, <1>3, <1>4, <3>1
    <3> QED BY <3>1, <3>2
  <2> QED BY <1>1, <1>6, <2>1, <2>2, <2>3
<1>7. t = c
  BY <1>1, <1>4, <1>5, <1>6, SeqEqual
<1> QED BY <1>3, <1>4, <1>7

\* One frame more: its kind is counted, the rest is as it was.
LEMMA CountCons ==
    ASSUME NEW f \in FrameSet, NEW s \in Seq(FrameSet), NEW kinds
    PROVE  /\ Count(s, kinds) \in Nat
           /\ Count(Cons(f, s), kinds) = Count(s, kinds) + One(f, kinds)
<1> DEFINE A == PlacesOf(s, kinds)
           B == {i + 1 : i \in A}
           h == [i \in A |-> i + 1]
<1>1. Len(s) \in Nat /\ DOMAIN s = 1 .. Len(s)
  OBVIOUS
<1>2. A \subseteq 1 .. Len(s) /\ A \subseteq Nat
  BY <1>1 DEF PlacesOf
<1>3. IsFiniteSet(A)
  <2>1. IsFiniteSet(1 .. Len(s))
    BY <1>1, FS_Interval
  <2> QED BY <1>2, <2>1, FS_Subset
<1>4. Count(s, kinds) \in Nat
  BY <1>3, FS_CardinalityType DEF Count
<1>5. h \in Bijection(A, B)
  BY <1>2 DEF Bijection, Injection, Surjection, IsInjective
<1>6. IsFiniteSet(B) /\ Cardinality(B) = Count(s, kinds)
  BY <1>3, <1>5, FS_Bijection DEF ExistsBijection, Count
<1>7. 1 \notin B
  BY <1>1, <1>2
<1>8. /\ DOMAIN Cons(f, s) = 1 .. (Len(s) + 1) /\ Cons(f, s)[1] = f
      /\ \A i \in 1 .. Len(s) : Cons(f, s)[i + 1] = s[i]
  BY ConsShape
<1>9. PICK c : /\ c = Cons(f, s) /\ DOMAIN c = 1 .. (Len(s) + 1) /\ c[1] = f
               /\ \A i \in 1 .. Len(s) : c[i + 1] = s[i]
  BY <1>8
<1>10. PlacesOf(c, kinds) \ {1} = B
  <2>1. ASSUME NEW i \in PlacesOf(c, kinds) \ {1} PROVE i \in B
    <3>1. i \in 2 .. (Len(s) + 1) /\ c[i].kind \in kinds
      BY <1>1, <1>9, <2>1 DEF PlacesOf
    <3>2. i - 1 \in 1 .. Len(s) /\ (i - 1) + 1 = i
      BY <1>1, <3>1
    <3>3. c[i] = s[i - 1]
      BY <1>9, <3>2
    <3>4. i - 1 \in A
      BY <1>1, <3>1, <3>2, <3>3 DEF PlacesOf
    <3> QED BY <3>2, <3>4
  <2>2. ASSUME NEW i \in A PROVE i + 1 \in PlacesOf(c, kinds) \ {1}
    <3>1. i \in 1 .. Len(s) /\ s[i].kind \in kinds
      BY <1>1, <2>2 DEF PlacesOf
    <3>2. i + 1 \in 1 .. (Len(s) + 1) /\ i + 1 # 1
      BY <1>1, <3>1
    <3> QED BY <1>9, <3>1, <3>2 DEF PlacesOf
  <2> QED BY <2>1, <2>2
<1>11. 1 \in PlacesOf(c, kinds) <=> f.kind \in kinds
  <2>1. 1 \in DOMAIN c
    BY <1>1, <1>9
  <2> QED BY <1>9, <2>1 DEF PlacesOf
<1>12. CASE f.kind \in kinds
  <2>1. PlacesOf(c, kinds) = B \cup {1}
    BY <1>10, <1>11, <1>12
  <2> QED BY ZenonT(60), <1>4, <1>6, <1>7, <1>9, <1>12, <2>1, FS_AddElement DEF Count, One
<1>13. CASE f.kind \notin kinds
  <2>1. PlacesOf(c, kinds) = B
    BY <1>10, <1>11, <1>13
  <2> QED BY <1>4, <1>6, <1>9, <1>13, <2>1 DEF Count, One
<1> QED BY <1>4, <1>12, <1>13

LEMMA HasCons ==
    ASSUME NEW f \in FrameSet, NEW s \in Seq(FrameSet), NEW kind
    PROVE  Has(Cons(f, s), kind) <=> f.kind = kind \/ Has(s, kind)
<1>1. /\ DOMAIN Cons(f, s) = 1 .. (Len(s) + 1) /\ Cons(f, s)[1] = f
      /\ \A i \in 1 .. Len(s) : Cons(f, s)[i + 1] = s[i]
      /\ DOMAIN s = 1 .. Len(s) /\ Len(s) \in Nat
  BY ConsShape
<1>2. PICK c : /\ c = Cons(f, s) /\ DOMAIN c = 1 .. (Len(s) + 1) /\ c[1] = f
               /\ \A i \in 1 .. Len(s) : c[i + 1] = s[i]
               /\ DOMAIN s = 1 .. Len(s) /\ Len(s) \in Nat
  BY <1>1
<1>3. ASSUME NEW i \in DOMAIN c, c[i].kind = kind PROVE f.kind = kind \/ Has(s, kind)
  <2>1. CASE i = 1
    BY <1>2, <1>3, <2>1
  <2>2. CASE i # 1
    <3>1. i - 1 \in 1 .. Len(s) /\ (i - 1) + 1 = i
      BY <1>2, <2>2
    <3>2. c[i] = s[i - 1]
      BY <1>2, <3>1
    <3> QED BY <1>2, <1>3, <3>1, <3>2 DEF Has
  <2> QED BY <2>1, <2>2
<1>4. ASSUME f.kind = kind PROVE Has(c, kind)
  <2>1. 1 \in DOMAIN c
    BY <1>2
  <2> QED BY <1>2, <1>4, <2>1 DEF Has
<1>5. ASSUME NEW i \in DOMAIN s, s[i].kind = kind PROVE Has(c, kind)
  <2>1. i + 1 \in DOMAIN c /\ c[i + 1] = s[i]
    BY <1>2
  <2> QED BY <1>5, <2>1 DEF Has
<1> QED BY <1>2, <1>3, <1>4, <1>5 DEF Has

\* A kind is counted iff it is there.
LEMMA CountMeans ==
    ASSUME NEW s \in Seq(FrameSet), NEW kinds
    PROVE  /\ Count(s, kinds) \in Nat
           /\ Count(s, kinds) = 0 <=> \A kind \in kinds : ~Has(s, kind)
<1>1. Len(s) \in Nat /\ DOMAIN s = 1 .. Len(s) /\ PlacesOf(s, kinds) \subseteq 1 .. Len(s)
  BY DEF PlacesOf
<1>2. IsFiniteSet(PlacesOf(s, kinds))
  <2>1. IsFiniteSet(1 .. Len(s))
    BY <1>1, FS_Interval
  <2> QED BY <1>1, <2>1, FS_Subset
<1>3. Count(s, kinds) = 0 <=> PlacesOf(s, kinds) = {}
  BY <1>2, FS_EmptySet DEF Count
<1>4. PlacesOf(s, kinds) = {} <=> \A kind \in kinds : ~Has(s, kind)
  BY DEF PlacesOf, Has
<1> QED BY <1>2, <1>3, <1>4, FS_CardinalityType DEF Count

(***************************************************************************)
(* What stands on what.                                                    *)
(***************************************************************************)
\* Frame f never stands above one of this kind: module evaluation is at the
\* bottom, a foreign loop is turned by it alone, a join starts outside tasks,
\* checkpoints and joins, the report follows the outermost checkpoint, and a
\* checkpoint that compiled code did not ask for interrupts no task.
Forbids(f, kind) ==
    \/ f.kind = "module"
    \/ f.kind = "loop" /\ kind # "module"
    \/ f.kind = "join" /\ kind \in {"task", "checkpoint", "join"}
    \/ f.kind = "report" /\ kind = "checkpoint"
    \/ f.kind = "checkpoint" /\ f.why \in {"leave", "callback"} /\ kind = "task"
    \/ f.kind = "checkpoint" /\ ~f.prev /\ kind = "checkpoint"

\* f may be put on s; M is the set of promises that exist.
Fits(f, s, M) ==
    /\ f \in FrameSet
    /\ \A kind \in StackKinds : Forbids(f, kind) => ~Has(s, kind)
    /\ f.kind = "checkpoint" /\ f.prev => Has(s, "checkpoint")
    /\ f.kind = "join" => f.of \in M

Sound(s, M) ==
    /\ s \in Seq(FrameSet)
    /\ \A i \in DOMAIN s :
          /\ \A j \in DOMAIN s : i < j => ~Forbids(s[i], s[j].kind)
          /\ s[i].kind = "checkpoint" /\ s[i].prev =>
                \E j \in DOMAIN s : i < j /\ s[j].kind = "checkpoint"
          /\ s[i].kind = "join" => s[i].of \in M

LEMMA SoundCons ==
    ASSUME NEW f \in FrameSet, NEW s \in Seq(FrameSet), NEW M
    PROVE  Sound(Cons(f, s), M) <=> Fits(f, s, M) /\ Sound(s, M)
<1>1. /\ DOMAIN Cons(f, s) = 1 .. (Len(s) + 1) /\ Cons(f, s)[1] = f
      /\ \A i \in 1 .. Len(s) : Cons(f, s)[i + 1] = s[i]
      /\ DOMAIN s = 1 .. Len(s) /\ Len(s) \in Nat /\ Cons(f, s) \in Seq(FrameSet)
  BY ConsShape
<1>2. PICK c : /\ c = Cons(f, s) /\ DOMAIN c = 1 .. (Len(s) + 1) /\ c[1] = f
               /\ \A i \in 1 .. Len(s) : c[i + 1] = s[i]
               /\ DOMAIN s = 1 .. Len(s) /\ Len(s) \in Nat /\ c \in Seq(FrameSet)
  BY <1>1
<1>3. 1 \in DOMAIN c /\ \A i \in DOMAIN s : i + 1 \in DOMAIN c /\ c[i + 1] = s[i] /\ 1 < i + 1
  BY <1>2
<1>4. \A i \in DOMAIN c : i = 1 \/ (i - 1 \in DOMAIN s /\ c[i] = s[i - 1])
  <2> SUFFICES ASSUME NEW i \in DOMAIN c, i # 1 PROVE i - 1 \in DOMAIN s /\ c[i] = s[i - 1]
    OBVIOUS
  <2>1. i - 1 \in 1 .. Len(s) /\ (i - 1) + 1 = i
    BY <1>2
  <2> QED BY <1>2, <2>1
<1>5. ASSUME Sound(c, M) PROVE Fits(f, s, M) /\ Sound(s, M)
  <2>1. ASSUME NEW i \in DOMAIN s
        PROVE  /\ \A j \in DOMAIN s : i < j => ~Forbids(s[i], s[j].kind)
               /\ s[i].kind = "checkpoint" /\ s[i].prev =>
                    \E j \in DOMAIN s : i < j /\ s[j].kind = "checkpoint"
               /\ s[i].kind = "join" => s[i].of \in M
    <3>1. ASSUME NEW j \in DOMAIN s, i < j PROVE ~Forbids(s[i], s[j].kind)
      <4>1. i + 1 < j + 1
        BY <1>2, <3>1
      <4> QED BY <1>3, <1>5, <4>1 DEF Sound
    <3>2. ASSUME s[i].kind = "checkpoint", s[i].prev
          PROVE  \E j \in DOMAIN s : i < j /\ s[j].kind = "checkpoint"
      <4>1. PICK k \in DOMAIN c : i + 1 < k /\ c[k].kind = "checkpoint"
        BY <1>3, <1>5, <3>2 DEF Sound
      <4>2. k # 1 /\ i < k - 1
        BY <1>2, <4>1
      <4> QED BY <1>4, <4>1, <4>2
    <3>3. s[i].kind = "join" => s[i].of \in M
      BY <1>3, <1>5 DEF Sound
    <3> QED BY <3>1, <3>2, <3>3
  <2>2. ASSUME NEW kind \in StackKinds, Forbids(f, kind), Has(s, kind) PROVE FALSE
    BY <1>2, <1>3, <1>5, <2>2 DEF Sound, Has
  <2>3. ASSUME f.kind = "checkpoint", f.prev PROVE Has(s, "checkpoint")
    <3>1. PICK k \in DOMAIN c : 1 < k /\ c[k].kind = "checkpoint"
      BY <1>2, <1>3, <1>5, <2>3 DEF Sound
    <3> QED BY <1>4, <3>1 DEF Has
  <2>4. f.kind = "join" => f.of \in M
    BY <1>2, <1>3, <1>5 DEF Sound
  <2> QED BY <2>1, <2>2, <2>3, <2>4 DEF Sound, Fits
<1>6. ASSUME Fits(f, s, M), Sound(s, M) PROVE Sound(c, M)
  <2>1. ASSUME NEW i \in DOMAIN c
        PROVE  /\ \A j \in DOMAIN c : i < j => ~Forbids(c[i], c[j].kind)
               /\ c[i].kind = "checkpoint" /\ c[i].prev =>
                    \E j \in DOMAIN c : i < j /\ c[j].kind = "checkpoint"
               /\ c[i].kind = "join" => c[i].of \in M
    <3>1. CASE i = 1
      <4>1. ASSUME NEW j \in DOMAIN c, 1 < j PROVE ~Forbids(f, c[j].kind)
        <5>1. j - 1 \in DOMAIN s /\ c[j] = s[j - 1]
          BY <1>4, <4>1
        <5>2. s[j - 1].kind \in StackKinds /\ Has(s, s[j - 1].kind)
          <6>1. s[j - 1] \in FrameSet
            BY <1>2, <5>1
          <6>2. s[j - 1].kind \in StackKinds
            BY <6>1 DEF FrameSet
          <6> QED BY <5>1, <6>2 DEF Has
        <5> QED BY <1>6, <5>1, <5>2 DEF Fits
      <4>2. ASSUME f.kind = "checkpoint", f.prev
            PROVE  \E j \in DOMAIN c : 1 < j /\ c[j].kind = "checkpoint"
        BY <1>3, <1>6, <4>2 DEF Fits, Has
      <4> QED BY <1>2, <1>6, <3>1, <4>1, <4>2 DEF Fits
    <3>2. CASE i # 1
      <4>1. i - 1 \in DOMAIN s /\ c[i] = s[i - 1]
        BY <1>4, <3>2
      <4>2. ASSUME NEW j \in DOMAIN c, i < j PROVE ~Forbids(c[i], c[j].kind)
        <5>1. j # 1 /\ i - 1 < j - 1
          BY <1>2, <4>2, <3>2
        <5> QED BY <1>4, <1>6, <4>1, <5>1 DEF Sound
      <4>3. ASSUME c[i].kind = "checkpoint", c[i].prev
            PROVE  \E j \in DOMAIN c : i < j /\ c[j].kind = "checkpoint"
        <5>1. PICK k \in DOMAIN s : i - 1 < k /\ s[k].kind = "checkpoint"
          BY <1>6, <4>1, <4>3 DEF Sound
        <5>2. i < k + 1
          BY <1>2, <5>1
        <5> QED BY <1>3, <5>1, <5>2
      <4> QED BY <1>6, <4>1, <4>2, <4>3 DEF Sound
    <3> QED BY <3>1, <3>2
  <2> QED BY <1>2, <2>1 DEF Sound
<1> QED BY <1>2, <1>5, <1>6

(***************************************************************************)
(* What the counters d and c and the flags a and j say of a stack.  A      *)
(* landing jumps past every frame and leaves the depth and the join's flag *)
(* as they were: without one they are exact.                               *)
(***************************************************************************)
Books(s, M, d, c, a, j) ==
    /\ Sound(s, M)
    /\ d \in Nat /\ d >= Count(s, {"task"})
    /\ c = Count(s, {"callback", "release"})
    /\ a \in BOOLEAN /\ (a <=> Has(s, "checkpoint"))
    /\ j \in BOOLEAN /\ (Has(s, "join") => j)
    /\ ~Landing => d = Count(s, {"task"}) /\ (j => Has(s, "join"))

LEMMA PushKeeps ==
    ASSUME NEW s, NEW M, NEW d, NEW c, NEW a, NEW j, Books(s, M, d, c, a, j),
           NEW f, Fits(f, s, M),
           NEW d2, d2 = d + One(f, {"task"}),
           NEW c2, c2 = c + One(f, {"callback", "release"}),
           NEW a2 \in BOOLEAN, a2 <=> a \/ f.kind = "checkpoint",
           NEW j2 \in BOOLEAN, j2 <=> j \/ f.kind = "join"
    PROVE  Books(Cons(f, s), M, d2, c2, a2, j2)
<1>1. f \in FrameSet /\ s \in Seq(FrameSet)
  BY DEF Fits, Books, Sound
<1>2. Sound(Cons(f, s), M)
  BY <1>1, SoundCons DEF Books
<1>3. PICK t, t2 : /\ t \in Nat /\ t = Count(s, {"task"}) /\ t2 = Count(Cons(f, s), {"task"})
                   /\ t2 = t + One(f, {"task"})
  BY <1>1, CountCons
<1>4. One(f, {"task"}) \in Nat
  BY DEF One
<1>5. d2 \in Nat /\ d2 >= t2 /\ (~Landing => d2 = t2)
  BY <1>3, <1>4 DEF Books
<1>6. c2 = Count(Cons(f, s), {"callback", "release"})
  BY <1>1, CountCons DEF Books
<1>7. /\ Has(Cons(f, s), "checkpoint") <=> f.kind = "checkpoint" \/ Has(s, "checkpoint")
      /\ Has(Cons(f, s), "join") <=> f.kind = "join" \/ Has(s, "join")
  BY <1>1, HasCons
<1> QED BY <1>2, <1>3, <1>5, <1>6, <1>7 DEF Books

LEMMA PopKeeps ==
    ASSUME NEW s \in Seq(FrameSet), NEW M, NEW d, NEW c, NEW a, NEW j, NEW f \in FrameSet,
           Books(Cons(f, s), M, d, c, a, j),
           NEW d2, d2 = d - One(f, {"task"}),
           NEW c2, c2 = c - One(f, {"callback", "release"}),
           NEW a2 \in BOOLEAN, a2 <=> (IF f.kind = "checkpoint" THEN f.prev ELSE a),
           NEW j2 \in BOOLEAN, j2 <=> (j /\ f.kind # "join")
    PROVE  Fits(f, s, M) /\ Books(s, M, d2, c2, a2, j2)
<1>1. Fits(f, s, M) /\ Sound(s, M)
  BY SoundCons DEF Books
<1>2. PICK t, t2 : /\ t \in Nat /\ t = Count(s, {"task"}) /\ t2 = Count(Cons(f, s), {"task"})
                   /\ t2 = t + One(f, {"task"})
  BY CountCons
<1>3. One(f, {"task"}) \in Nat
  BY DEF One
<1>4. d2 \in Nat /\ d2 >= t /\ (~Landing => d2 = t)
  BY <1>2, <1>3 DEF Books
<1>5. PICK n, n2 : /\ n \in Nat /\ n = Count(s, {"callback", "release"})
                   /\ n2 = Count(Cons(f, s), {"callback", "release"})
                   /\ n2 = n + One(f, {"callback", "release"})
  BY CountCons
<1>6. One(f, {"callback", "release"}) \in Nat
  BY DEF One
<1>7. c2 = n
  BY <1>5, <1>6 DEF Books
<1>8. /\ Has(Cons(f, s), "checkpoint") <=> f.kind = "checkpoint" \/ Has(s, "checkpoint")
      /\ Has(Cons(f, s), "join") <=> f.kind = "join" \/ Has(s, "join")
  BY HasCons
<1>9. a2 <=> Has(s, "checkpoint")
  <2>1. CASE f.kind = "checkpoint"
    <3>1. Forbids(f, "checkpoint") => ~Has(s, "checkpoint")
      BY <1>1 DEF Fits, StackKinds
    <3>2. f.prev \in BOOLEAN
      BY DEF FrameSet
    <3> QED BY <1>1, <2>1, <3>1, <3>2 DEF Forbids, Fits
  <2>2. CASE f.kind # "checkpoint"
    BY <1>8, <2>2 DEF Books
  <2> QED BY <2>1, <2>2
<1>10. (Has(s, "join") => j2) /\ (~Landing => (j2 => Has(s, "join")))
  <2>1. CASE f.kind = "join"
    <3>1. Forbids(f, "join") => ~Has(s, "join")
      BY <1>1 DEF Fits, StackKinds
    <3> QED BY <2>1, <3>1 DEF Forbids
  <2>2. CASE f.kind # "join"
    BY <1>8, <2>2 DEF Books
  <2> QED BY <2>1, <2>2
<1> QED BY <1>1, <1>2, <1>4, <1>5, <1>7, <1>9, <1>10 DEF Books

\* Promises are never unmade.
LEMMA GrowKeeps ==
    ASSUME NEW s, NEW M, NEW N, M \subseteq N, NEW d, NEW c, NEW a, NEW j,
           Books(s, M, d, c, a, j)
    PROVE  Books(s, N, d, c, a, j)
BY DEF Books, Sound

LEMMA EmptyBooks ==
    ASSUME NEW M, NEW d \in Nat, NEW j \in BOOLEAN, ~Landing => d = 0 /\ ~j
    PROVE  Books(<<>>, M, d, 0, FALSE, j)
<1>1. <<>> \in Seq(FrameSet) /\ \A kind : ~Has(<<>>, kind)
  BY DEF Has
<1>2. Count(<<>>, {"task"}) = 0 /\ Count(<<>>, {"callback", "release"}) = 0
  BY <1>1, CountMeans
<1>3. Sound(<<>>, M)
  BY <1>1 DEF Sound
<1> QED BY <1>1, <1>2, <1>3 DEF Books

(***************************************************************************)
(* The invariant.                                                          *)
(***************************************************************************)
StackInv == Books(stack, made, depth, inCallback, checkpointActive, joinActive)

RestInv ==
    /\ checkpointPosted \in BOOLEAN
    /\ exited \in BOOLEAN
    /\ ticks \in Nat
    /\ tasks \in Seq({"program", "checkpoint"})
    /\ fuel \in [Calls -> Nat]
    /\ joins \subseteq made
    /\ joinResult \in {"none", "reentrant", "pending", "fulfilled", "rejected"}
    /\ reports \in Seq(made)
    /\ released \in [Promise -> Nat]

\* The top frame, and the books of what it stands on.
LEMMA TopSplit ==
    ASSUME StackInv, stack # <<>>
    PROVE  /\ Top \in FrameSet
           /\ Tail(stack) \in Seq(FrameSet)
           /\ stack = Cons(Top, Tail(stack))
           /\ Fits(Top, Tail(stack), made)
<1>1. Sound(stack, made) /\ stack \in Seq(FrameSet)
  BY DEF StackInv, Books, Sound
<1>2. Top \in FrameSet /\ Tail(stack) \in Seq(FrameSet) /\ stack = Cons(Top, Tail(stack))
  BY <1>1, Split DEF Top
<1> QED BY <1>1, <1>2, SoundCons

LEMMA Popped ==
    ASSUME StackInv, stack # <<>>,
           NEW d2, d2 = depth - One(Top, {"task"}),
           NEW c2, c2 = inCallback - One(Top, {"callback", "release"}),
           NEW a2 \in BOOLEAN, a2 <=> (IF Top.kind = "checkpoint" THEN Top.prev ELSE checkpointActive),
           NEW j2 \in BOOLEAN, j2 <=> (joinActive /\ Top.kind # "join")
    PROVE  Books(Tail(stack), made, d2, c2, a2, j2)
<1>1. PICK f, s : f = Top /\ s = Tail(stack)
  OBVIOUS
<1>2. f \in FrameSet /\ s \in Seq(FrameSet) /\ stack = Cons(f, s)
  BY <1>1, TopSplit
<1>3. Books(Cons(f, s), made, depth, inCallback, checkpointActive, joinActive)
  BY <1>2 DEF StackInv
<1>4. /\ d2 = depth - One(f, {"task"})
      /\ c2 = inCallback - One(f, {"callback", "release"})
      /\ a2 <=> (IF f.kind = "checkpoint" THEN f.prev ELSE checkpointActive)
      /\ j2 <=> (joinActive /\ f.kind # "join")
  BY <1>1
<1>5. Books(s, made, d2, c2, a2, j2)
  BY <1>2, <1>3, <1>4, PopKeeps
<1> QED BY <1>1, <1>5

LEMMA PushStep ==
    ASSUME StackInv, UNCHANGED made, NEW f, Fits(f, stack, made), Push(f),
           depth' = depth + One(f, {"task"}),
           inCallback' = inCallback + One(f, {"callback", "release"}),
           checkpointActive' \in BOOLEAN,
           checkpointActive' <=> checkpointActive \/ f.kind = "checkpoint",
           joinActive' \in BOOLEAN, joinActive' <=> joinActive \/ f.kind = "join"
    PROVE  StackInv'
<1>1. stack' = Cons(f, stack)
  BY DEF Push, Cons
<1>2. Books(Cons(f, stack), made, depth', inCallback', checkpointActive', joinActive')
  BY PushKeeps DEF StackInv
<1> QED BY <1>1, <1>2 DEF StackInv

LEMMA PopStep ==
    ASSUME StackInv, UNCHANGED made, stack # <<>>, Pop,
           depth' = depth - One(Top, {"task"}),
           inCallback' = inCallback - One(Top, {"callback", "release"}),
           checkpointActive' \in BOOLEAN,
           checkpointActive' <=> (IF Top.kind = "checkpoint" THEN Top.prev ELSE checkpointActive),
           joinActive' \in BOOLEAN, joinActive' <=> joinActive /\ Top.kind # "join"
    PROVE  StackInv'
<1>1. Books(Tail(stack), made, depth', inCallback', checkpointActive', joinActive')
  BY Popped
<1> QED BY <1>1 DEF StackInv, Pop

\* One frame takes the place of another.
LEMMA ReplaceStep ==
    ASSUME StackInv, UNCHANGED made, stack # <<>>, NEW f, Fits(f, Tail(stack), made), Replace(f),
           depth' = (depth - One(Top, {"task"})) + One(f, {"task"}),
           inCallback' = (inCallback - One(Top, {"callback", "release"}))
                            + One(f, {"callback", "release"}),
           checkpointActive' \in BOOLEAN,
           checkpointActive' <=> (IF Top.kind = "checkpoint" THEN Top.prev ELSE checkpointActive)
                                    \/ f.kind = "checkpoint",
           joinActive' \in BOOLEAN,
           joinActive' <=> (joinActive /\ Top.kind # "join") \/ f.kind = "join"
    PROVE  StackInv'
<1>1. stack' = Cons(f, Tail(stack))
  BY DEF Replace, Cons
<1>2. Top.prev \in BOOLEAN
  BY TopSplit DEF FrameSet
<1>3. PICK a2 \in BOOLEAN : a2 <=> (IF Top.kind = "checkpoint" THEN Top.prev ELSE checkpointActive)
  <2>1. (IF Top.kind = "checkpoint" THEN Top.prev ELSE checkpointActive) \in BOOLEAN
    BY <1>2 DEF StackInv, Books
  <2> QED BY <2>1
<1>4. PICK j2 \in BOOLEAN : j2 <=> (joinActive /\ Top.kind # "join")
  OBVIOUS
<1>5. PICK d2, c2 : /\ d2 = depth - One(Top, {"task"})
                    /\ c2 = inCallback - One(Top, {"callback", "release"})
  OBVIOUS
<1>6. Books(Tail(stack), made, d2, c2, a2, j2)
  BY <1>3, <1>4, <1>5, Popped
<1>7. PICK s : s = Tail(stack)
  OBVIOUS
<1>8. Books(Cons(f, s), made, depth', inCallback', checkpointActive', joinActive')
  BY <1>3, <1>4, <1>5, <1>6, <1>7, PushKeeps
<1> QED BY <1>1, <1>7, <1>8 DEF StackInv

(***************************************************************************)
(* The frames that are pushed.                                             *)
(***************************************************************************)
LEMMA PlainFits ==
    ASSUME NEW kind \in {"call", "task", "callback", "release", "job"}, NEW s, NEW M
    PROVE  Fits(Frame(kind), s, M) /\ Frame(kind).kind = kind
<1>1. Frame(kind) \in FrameSet /\ Frame(kind).kind = kind
  BY DEF Frame, FrameSet, StackKinds, ProgramKinds, Whys
<1> QED BY <1>1 DEF Fits, Forbids

LEMMA CheckpointFits ==
    ASSUME NEW why \in Whys, NEW s, NEW M,
           checkpointActive \in BOOLEAN, checkpointActive <=> Has(s, "checkpoint"),
           why \in {"leave", "callback"} => ~Has(s, "task")
    PROVE  Fits(CheckpointFrame(why), s, M) /\ CheckpointFrame(why).kind = "checkpoint"
<1>1. /\ CheckpointFrame(why) \in FrameSet /\ CheckpointFrame(why).kind = "checkpoint"
      /\ CheckpointFrame(why).prev = checkpointActive /\ CheckpointFrame(why).why = why
  BY DEF CheckpointFrame, Frame, FrameSet, StackKinds, ProgramKinds, Whys
<1> QED BY <1>1 DEF Fits, Forbids

\* A frame that goes on.
LEMMA SameFits ==
    ASSUME NEW f \in FrameSet, NEW n \in Nat, NEW s, NEW M, Fits(f, s, M)
    PROVE  /\ Fits([f EXCEPT !.at = n], s, M)
           /\ [f EXCEPT !.at = n].kind = f.kind
           /\ [f EXCEPT !.at = n].prev = f.prev
<1>1. PICK g : g = [f EXCEPT !.at = n]
  OBVIOUS
<1>2. g \in FrameSet /\ g.kind = f.kind /\ g.prev = f.prev /\ g.why = f.why /\ g.of = f.of
  BY <1>1 DEF FrameSet
<1>3. \A kind : Forbids(g, kind) <=> Forbids(f, kind)
  BY <1>2 DEF Forbids
<1>4. Fits(g, s, M)
  BY <1>2, <1>3 DEF Fits
<1> QED BY <1>1, <1>2, <1>4

(***************************************************************************)
(* The actions and the stack.                                              *)
(***************************************************************************)
LEMMA FlagTypes ==
    ASSUME StackInv
    PROVE  /\ stack \in Seq(FrameSet)
           /\ depth \in Nat /\ inCallback \in Nat
           /\ checkpointActive \in BOOLEAN /\ joinActive \in BOOLEAN
           /\ depth = 0 => ~Has(stack, "task")
           /\ checkpointActive <=> Has(stack, "checkpoint")
           /\ ~joinActive => ~Has(stack, "join")
<1>1. stack \in Seq(FrameSet)
  BY DEF StackInv, Books, Sound
<1>2. PICK t : t \in Nat /\ t = Count(stack, {"task"}) /\ (t = 0 => ~Has(stack, "task"))
  BY <1>1, CountMeans
<1>3. inCallback \in Nat
  BY <1>1, CountMeans DEF StackInv, Books
<1> QED BY <1>1, <1>2, <1>3 DEF StackInv, Books

\* What a frame other than a checkpoint stands on.
LEMMA RestOfStack ==
    ASSUME StackInv, stack # <<>>, Top.kind # "checkpoint"
    PROVE  /\ checkpointActive <=> Has(Tail(stack), "checkpoint")
           /\ depth - One(Top, {"task"}) = 0 => ~Has(Tail(stack), "task")
<1>1. PICK d2, c2 : /\ d2 = depth - One(Top, {"task"})
                    /\ c2 = inCallback - One(Top, {"callback", "release"})
  OBVIOUS
<1>2. PICK j2 \in BOOLEAN : j2 <=> (joinActive /\ Top.kind # "join")
  OBVIOUS
<1>3. checkpointActive \in BOOLEAN
  BY FlagTypes
<1>4. Books(Tail(stack), made, d2, c2, checkpointActive, j2)
  BY <1>1, <1>2, <1>3, Popped
<1>5. PICK s : s = Tail(stack) /\ s \in Seq(FrameSet)
  BY TopSplit
<1>6. PICK t : t \in Nat /\ t = Count(s, {"task"}) /\ (t = 0 => ~Has(s, "task"))
  BY <1>5, CountMeans
<1> QED BY <1>1, <1>4, <1>5, <1>6 DEF Books

LEMMA PlainPushStep ==
    ASSUME StackInv, NEW kind \in {"call", "task", "callback", "release", "job"},
           Push(Frame(kind)), UNCHANGED <<made, checkpointActive, joinActive>>,
           depth' = IF kind = "task" THEN depth + 1 ELSE depth,
           inCallback' = IF kind \in {"callback", "release"} THEN inCallback + 1 ELSE inCallback
    PROVE  StackInv'
<1>1. PICK f : f = Frame(kind) /\ Fits(f, stack, made) /\ f.kind = kind
  BY PlainFits
<1>2. Push(f)
  BY <1>1
<1>3. /\ depth \in Nat /\ inCallback \in Nat
      /\ checkpointActive \in BOOLEAN /\ joinActive \in BOOLEAN
  BY FlagTypes
<1>4. /\ depth' = depth + One(f, {"task"})
      /\ inCallback' = inCallback + One(f, {"callback", "release"})
  BY <1>1, <1>3 DEF One
<1>5. f.kind # "checkpoint" /\ f.kind # "join"
  BY <1>1
<1> QED BY <1>1, <1>2, <1>3, <1>4, <1>5, PushStep

\* A frame that goes on, at another position of its loop.
LEMMA ContinueStep ==
    ASSUME StackInv, stack # <<>>, NEW n \in Nat, Replace([Top EXCEPT !.at = n]),
           UNCHANGED <<made, depth, inCallback, checkpointActive, joinActive>>
    PROVE  StackInv'
<1>1. Top \in FrameSet /\ Fits(Top, Tail(stack), made)
  BY TopSplit
<1>2. PICK f : /\ f = [Top EXCEPT !.at = n] /\ Fits(f, Tail(stack), made)
               /\ f.kind = Top.kind /\ f.prev = Top.prev
  BY <1>1, SameFits
<1>3. Replace(f)
  BY <1>2
<1>4. /\ depth \in Nat /\ inCallback \in Nat
      /\ checkpointActive \in BOOLEAN /\ joinActive \in BOOLEAN
      /\ checkpointActive <=> Has(stack, "checkpoint")
  BY FlagTypes
<1>5. One(f, {"task"}) \in Nat /\ One(f, {"callback", "release"}) \in Nat
  BY DEF One
<1>6. /\ One(Top, {"task"}) = One(f, {"task"})
      /\ One(Top, {"callback", "release"}) = One(f, {"callback", "release"})
  BY <1>2 DEF One
<1>7. /\ depth' = (depth - One(Top, {"task"})) + One(f, {"task"})
      /\ inCallback' = (inCallback - One(Top, {"callback", "release"}))
                          + One(f, {"callback", "release"})
  BY <1>4, <1>5, <1>6
<1>8. PICK s : s = Tail(stack) /\ s \in Seq(FrameSet) /\ stack = Cons(Top, s)
  BY TopSplit
<1>9. Top.kind = "checkpoint" => Has(stack, "checkpoint")
  BY <1>1, <1>8, HasCons
<1>10. checkpointActive <=> (IF Top.kind = "checkpoint" THEN Top.prev ELSE checkpointActive)
                                \/ f.kind = "checkpoint"
  BY <1>2, <1>4, <1>9
<1>11. PICK t : t = Top /\ t \in FrameSet /\ (t.kind = "join" => Has(stack, "join"))
  BY <1>1, <1>8, HasCons
<1>12. joinActive <=> (joinActive /\ Top.kind # "join") \/ f.kind = "join"
  BY <1>2, <1>11 DEF StackInv, Books
<1> QED BY <1>2, <1>3, <1>4, <1>7, <1>10, <1>12, ReplaceStep

\* A checkpoint on top of the stack, or in the place of the frame that returns.
LEMMA CheckpointPushStep ==
    ASSUME StackInv, NEW why \in Whys, why \in {"leave", "callback"} => ~Has(stack, "task"),
           Push(CheckpointFrame(why)), checkpointActive',
           checkpointActive' \in BOOLEAN, UNCHANGED <<made, depth, inCallback, joinActive>>
    PROVE  StackInv'
<1>1. /\ depth \in Nat /\ inCallback \in Nat
      /\ checkpointActive \in BOOLEAN /\ joinActive \in BOOLEAN
      /\ checkpointActive <=> Has(stack, "checkpoint")
  BY FlagTypes
<1>2. PICK f : /\ f = CheckpointFrame(why) /\ Fits(f, stack, made)
               /\ f.kind = "checkpoint"
  BY <1>1, CheckpointFits
<1>3. Push(f)
  BY <1>2
<1>4. One(f, {"task"}) = 0 /\ One(f, {"callback", "release"}) = 0
  BY <1>2 DEF One
<1> QED BY <1>1, <1>2, <1>3, <1>4, PushStep

LEMMA BeginCheckpointStep ==
    ASSUME StackInv, stack # <<>>, Top.kind \in {"module", "task", "callback"},
           NEW why \in {"leave", "callback"}, ~Has(Tail(stack), "task"),
           BeginCheckpoint(why),
           depth' = IF Top.kind = "task" THEN depth - 1 ELSE depth,
           inCallback' = IF Top.kind = "callback" THEN inCallback - 1 ELSE inCallback,
           UNCHANGED <<made, joinActive>>
    PROVE  StackInv'
<1>1. /\ depth \in Nat /\ inCallback \in Nat
      /\ checkpointActive \in BOOLEAN /\ joinActive \in BOOLEAN
  BY FlagTypes
<1>2. checkpointActive <=> Has(Tail(stack), "checkpoint")
  BY RestOfStack
<1>3. PICK f : /\ f = CheckpointFrame(why) /\ Fits(f, Tail(stack), made)
               /\ f.kind = "checkpoint"
  BY <1>1, <1>2, CheckpointFits DEF Whys
<1>4. Replace(f) /\ checkpointActive' = TRUE
  BY <1>3 DEF BeginCheckpoint
<1>5. One(f, {"task"}) = 0 /\ One(f, {"callback", "release"}) = 0
  BY <1>3 DEF One
<1>6. /\ depth' = (depth - One(Top, {"task"})) + One(f, {"task"})
      /\ inCallback' = (inCallback - One(Top, {"callback", "release"}))
                          + One(f, {"callback", "release"})
  BY <1>1, <1>5 DEF One
<1>7. Top.kind # "join" /\ f.kind # "join"
  BY <1>3
<1> QED BY <1>1, <1>3, <1>4, <1>6, <1>7, ReplaceStep

\* A frame that is counted by nothing but its own counter returns.
LEMMA PlainPopStep ==
    ASSUME StackInv, stack # <<>>, Top.kind \notin {"checkpoint", "join"}, Pop,
           depth' = IF Top.kind = "task" THEN depth - 1 ELSE depth,
           inCallback' = IF Top.kind \in {"callback", "release"} THEN inCallback - 1 ELSE inCallback,
           UNCHANGED <<made, checkpointActive, joinActive>>
    PROVE  StackInv'
<1>1. /\ depth \in Nat /\ inCallback \in Nat
      /\ checkpointActive \in BOOLEAN /\ joinActive \in BOOLEAN
  BY FlagTypes
<1>2. /\ depth' = depth - One(Top, {"task"})
      /\ inCallback' = inCallback - One(Top, {"callback", "release"})
  BY <1>1 DEF One
<1> QED BY <1>1, <1>2, PopStep

\* Below module evaluation there is nothing, and below a loop only that.
LEMMA BottomFrames ==
    ASSUME StackInv, stack # <<>>, Top.kind \in {"module", "loop"}
    PROVE  /\ \A kind \in StackKinds \ {"module"} : ~Has(Tail(stack), kind)
           /\ \A kind \in StackKinds \ {"module", "loop"} : ~Has(stack, kind)
           /\ Top.kind = "module" => ~Has(stack, "loop")
<1>1. PICK f, s : /\ f = Top /\ s = Tail(stack) /\ f \in FrameSet /\ s \in Seq(FrameSet)
                  /\ stack = Cons(f, s) /\ Fits(f, s, made)
  BY TopSplit
<1>2. \A kind \in StackKinds \ {"module"} : ~Has(s, kind)
  BY <1>1 DEF Fits, Forbids
<1>3. \A kind \in StackKinds : Has(stack, kind) <=> f.kind = kind \/ Has(s, kind)
  <2>1. \A kind \in StackKinds : Has(Cons(f, s), kind) <=> f.kind = kind \/ Has(s, kind)
    BY <1>1, HasCons
  <2> QED BY <1>1, <2>1
<1>4. "loop" \in StackKinds
  BY DEF StackKinds
<1> QED BY <1>1, <1>2, <1>3, <1>4

LEMMA LeaveKeepsStack ==
    ASSUME StackInv, Leave
    PROVE  StackInv'
<1>1. /\ stack # <<>> /\ Top.kind = "task" /\ depth' = depth - 1 /\ inCallback' = inCallback
      /\ UNCHANGED <<made, joinActive>>
  BY DEF Leave, TopIs, vars, promiseVars
<1>2. CASE depth = 1
  <2>1. BeginCheckpoint("leave")
    BY <1>2 DEF Leave
  <2>2. One(Top, {"task"}) = 1
    BY <1>1 DEF One
  <2>3. ~Has(Tail(stack), "task")
    BY <1>1, <1>2, <2>2, RestOfStack
  <2> QED BY <1>1, <2>1, <2>3, BeginCheckpointStep
<1>3. CASE depth # 1
  <2>1. Pop /\ checkpointActive' = checkpointActive
    BY <1>3 DEF Leave
  <2> QED BY <1>1, <2>1, PlainPopStep
<1> QED BY <1>2, <1>3

LEMMA CallbackLeaveKeepsStack ==
    ASSUME StackInv, CallbackLeave
    PROVE  StackInv'
<1>1. /\ stack # <<>> /\ Top.kind = "callback" /\ depth' = depth /\ inCallback' = inCallback - 1
      /\ UNCHANGED <<made, joinActive>>
  BY DEF CallbackLeave, TopIs, vars, promiseVars
<1>2. CASE EndsTurn /\ ReturnsToLoop
  <2>1. BeginCheckpoint("callback") /\ depth = 0
    BY <1>2 DEF CallbackLeave, EndsTurn
  <2>2. One(Top, {"task"}) = 0
    BY <1>1 DEF One
  <2>3. ~Has(Tail(stack), "task")
    BY <1>1, <2>1, <2>2, RestOfStack
  <2> QED BY <1>1, <2>1, <2>3, BeginCheckpointStep
<1>3. CASE ~(EndsTurn /\ ReturnsToLoop)
  <2>1. Pop /\ checkpointActive' = checkpointActive
    BY <1>3 DEF CallbackLeave
  <2> QED BY <1>1, <2>1, PlainPopStep
<1> QED BY <1>2, <1>3

LEMMA ModuleEndKeepsStack ==
    ASSUME StackInv, ModuleEnd
    PROVE  StackInv'
<1>1. /\ stack # <<>> /\ Top.kind = "module" /\ BeginCheckpoint("leave")
      /\ UNCHANGED <<made, depth, inCallback, joinActive>>
  BY DEF ModuleEnd, TopIs, vars, promiseVars
<1>2. ~Has(Tail(stack), "task")
  BY <1>1, BottomFrames DEF StackKinds, ProgramKinds
<1> QED BY <1>1, <1>2, BeginCheckpointStep

LEMMA ReturnKeepsStack ==
    ASSUME StackInv, Return
    PROVE  StackInv'
<1>1. /\ stack # <<>> /\ Top.kind \in {"job", "call", "loop", "release"} /\ Pop
      /\ inCallback' = IF Top.kind = "release" THEN inCallback - 1 ELSE inCallback
      /\ UNCHANGED <<made, depth, checkpointActive, joinActive>>
  BY DEF Return, TopIs, vars, promiseVars
<1> QED BY <1>1, PlainPopStep

LEMMA TaskRunKeepsStack ==
    ASSUME NEW below, Books(below, made, depth, inCallback, checkpointActive, joinActive),
           ~Has(below, "task"), TaskRun(below), UNCHANGED <<made, inCallback, joinActive>>
    PROVE  StackInv'
<1>1. below \in Seq(FrameSet) /\ depth \in Nat /\ inCallback \in Nat
        /\ checkpointActive \in BOOLEAN /\ joinActive \in BOOLEAN
  BY CountMeans DEF Books, Sound
<1>2. CASE Head(tasks) = "program"
  <2>1. /\ stack' = Cons(Frame("task"), below) /\ depth' = depth + 1
        /\ checkpointActive' = checkpointActive
    BY <1>2 DEF TaskRun, Cons
  <2>2. PICK f : f = Frame("task") /\ Fits(f, below, made) /\ f.kind = "task"
    BY PlainFits
  <2>3. One(f, {"task"}) = 1 /\ One(f, {"callback", "release"}) = 0
    BY <2>2 DEF One
  <2>4. depth' = depth + One(f, {"task"}) /\ inCallback' = inCallback + One(f, {"callback", "release"})
    BY <1>1, <2>1, <2>3
  <2>5. Books(Cons(f, below), made, depth', inCallback', checkpointActive', joinActive')
    BY <1>1, <2>1, <2>2, <2>4, PushKeeps
  <2> QED BY <2>1, <2>2, <2>5 DEF StackInv
<1>3. CASE Head(tasks) # "program"
  <2>1. /\ stack' = Cons(CheckpointFrame("leave"), below) /\ depth' = depth
        /\ checkpointActive' = TRUE
    BY <1>3 DEF TaskRun, Cons
  <2>2. checkpointActive <=> Has(below, "checkpoint")
    BY DEF Books
  <2>3. PICK f : /\ f = CheckpointFrame("leave") /\ Fits(f, below, made)
                 /\ f.kind = "checkpoint"
    BY <1>1, <2>2, CheckpointFits DEF Whys
  <2>4. One(f, {"task"}) = 0 /\ One(f, {"callback", "release"}) = 0
    BY <2>3 DEF One
  <2>5. depth' = depth + One(f, {"task"}) /\ inCallback' = inCallback + One(f, {"callback", "release"})
    BY <1>1, <2>1, <2>4
  <2>6. /\ checkpointActive' \in BOOLEAN
        /\ checkpointActive' <=> checkpointActive \/ f.kind = "checkpoint"
        /\ joinActive' \in BOOLEAN /\ (joinActive' <=> joinActive \/ f.kind = "join")
    BY <1>1, <2>1, <2>3
  <2>7. Books(Cons(f, below), made, depth', inCallback', checkpointActive', joinActive')
    BY <2>3, <2>5, <2>6, PushKeeps
  <2> QED BY <2>1, <2>3, <2>7 DEF StackInv
<1> QED BY <1>2, <1>3

LEMMA RunTaskKeepsStack ==
    ASSUME StackInv, RunTask
    PROVE  StackInv'
<1>1. TaskRun(stack) /\ UNCHANGED <<made, inCallback, joinActive>>
  BY DEF RunTask, vars, promiseVars
<1>2. ~Has(stack, "task")
  <2>1. CASE stack = <<>>
    BY <2>1 DEF Has
  <2>2. CASE stack # <<>>
    <3>1. Top.kind = "loop"
      BY <2>2 DEF RunTask, AtLoop, AtBase, TopIs
    <3> QED BY <2>2, <3>1, BottomFrames DEF StackKinds, ProgramKinds
  <2> QED BY <2>1, <2>2
<1> QED BY <1>1, <1>2, TaskRunKeepsStack DEF StackInv

LEMMA FrameShape ==
    ASSUME NEW kind \in StackKinds
    PROVE  Frame(kind) \in FrameSet /\ Frame(kind).kind = kind
BY DEF Frame, FrameSet, Whys

LEMMA JoinFrameShape ==
    ASSUME NEW p \in Promise
    PROVE  /\ [Frame("join") EXCEPT !.of = p] \in FrameSet
           /\ [Frame("join") EXCEPT !.of = p].kind = "join"
           /\ [Frame("join") EXCEPT !.of = p].of = p
<1>1. Frame("join") \in FrameSet /\ Frame("join").kind = "join"
  BY FrameShape DEF StackKinds
<1> QED BY <1>1 DEF FrameSet

LEMMA TurnLoopKeepsStack ==
    ASSUME StackInv, TurnLoop
    PROVE  StackInv'
<1>1. /\ stack # <<>> /\ Top.kind = "module" /\ Push(Frame("loop"))
      /\ UNCHANGED <<made, depth, inCallback, checkpointActive, joinActive>>
  BY DEF TurnLoop, TopIs, vars, promiseVars
<1>2. \A kind \in StackKinds \ {"module"} : ~Has(stack, kind)
  BY <1>1, BottomFrames
<1>3. PICK f : f = Frame("loop") /\ f \in FrameSet /\ f.kind = "loop"
  BY FrameShape DEF StackKinds
<1>4. Fits(f, stack, made)
  BY <1>2, <1>3 DEF Fits, Forbids
<1>5. One(f, {"task"}) = 0 /\ One(f, {"callback", "release"}) = 0
  BY <1>3 DEF One
<1>6. /\ depth \in Nat /\ inCallback \in Nat
      /\ checkpointActive \in BOOLEAN /\ joinActive \in BOOLEAN
  BY FlagTypes
<1>7. Push(f) /\ f.kind # "checkpoint" /\ f.kind # "join"
  BY <1>1, <1>3
<1> QED BY <1>1, <1>4, <1>5, <1>6, <1>7, PushStep

LEMMA FinishCheckpointKeepsStack ==
    ASSUME StackInv, FinishCheckpoint
    PROVE  StackInv'
<1>1. /\ stack # <<>> /\ Top.kind = "checkpoint" /\ checkpointActive' = Top.prev
      /\ UNCHANGED <<made, depth, inCallback, joinActive>>
  BY DEF FinishCheckpoint, TopIs, vars, promiseVars
<1>2. Top \in FrameSet /\ Fits(Top, Tail(stack), made) /\ Top.prev \in BOOLEAN
  BY <1>1, TopSplit DEF FrameSet
<1>3. One(Top, {"task"}) = 0 /\ One(Top, {"callback", "release"}) = 0
  BY <1>1 DEF One
<1>4. /\ depth \in Nat /\ inCallback \in Nat
      /\ checkpointActive \in BOOLEAN /\ joinActive \in BOOLEAN
  BY FlagTypes
<1>5. CASE Top.prev
  <2>1. Pop
    BY <1>5 DEF FinishCheckpoint
  <2> QED BY <1>1, <1>2, <1>3, <1>4, <2>1, PopStep
<1>6. CASE ~Top.prev
  <2>1. PICK f : f = Frame("report") /\ f \in FrameSet /\ f.kind = "report"
    BY FrameShape DEF StackKinds
  <2>2. ~Has(Tail(stack), "checkpoint")
    BY <1>1, <1>2, <1>6 DEF Fits, Forbids, StackKinds
  <2>3. Fits(f, Tail(stack), made)
    BY <2>1, <2>2 DEF Fits, Forbids
  <2>4. Replace(f)
    BY <1>6, <2>1 DEF FinishCheckpoint
  <2>5. One(f, {"task"}) = 0 /\ One(f, {"callback", "release"}) = 0
    BY <2>1 DEF One
  <2>6. /\ depth' = (depth - One(Top, {"task"})) + One(f, {"task"})
        /\ inCallback' = (inCallback - One(Top, {"callback", "release"}))
                            + One(f, {"callback", "release"})
    BY <1>1, <1>3, <1>4, <2>5
  <2>7. /\ checkpointActive' \in BOOLEAN
        /\ checkpointActive' <=> (IF Top.kind = "checkpoint" THEN Top.prev ELSE checkpointActive)
                                    \/ f.kind = "checkpoint"
        /\ joinActive' \in BOOLEAN
        /\ joinActive' <=> (joinActive /\ Top.kind # "join") \/ f.kind = "join"
    BY <1>1, <1>2, <1>4, <2>1
  <2> QED BY <1>1, <2>3, <2>4, <2>6, <2>7, ReplaceStep
<1> QED BY <1>5, <1>6

\* Nothing below a report is a checkpoint.
LEMMA ReportOutermost ==
    ASSUME StackInv, stack # <<>>, Top.kind = "report"
    PROVE  ~checkpointActive
<1>1. Fits(Top, Tail(stack), made)
  BY TopSplit
<1>2. ~Has(Tail(stack), "checkpoint")
  BY <1>1 DEF Fits, Forbids, StackKinds
<1> QED BY <1>2, RestOfStack

LEMMA ReportCandidateKeepsStack ==
    ASSUME StackInv, ReportCandidate
    PROVE  StackInv'
<1>1. /\ stack # <<>> /\ Top.kind = "report"
      /\ UNCHANGED <<made, depth, inCallback, checkpointActive, joinActive>>
  BY DEF ReportCandidate, TopIs, vars, promiseVars
<1>2. Top \in FrameSet /\ Top.at \in Nat
  BY <1>1, TopSplit DEF FrameSet
<1>3. CASE stack' = stack
  BY <1>1, <1>3 DEF StackInv
<1>4. CASE Landing /\ inCallback = 0 /\ stack' = <<>>
  <2>1. depth \in Nat /\ joinActive \in BOOLEAN /\ checkpointActive \in BOOLEAN
    BY FlagTypes
  <2>2. checkpointActive = FALSE
    BY <1>1, <2>1, ReportOutermost
  <2>3. Books(<<>>, made, depth, 0, FALSE, joinActive)
    BY <1>4, <2>1, EmptyBooks
  <2> QED BY <1>1, <1>4, <2>2, <2>3 DEF StackInv
<1>5. CASE Replace([Top EXCEPT !.at = Top.at + 1])
  <2>1. Top.at + 1 \in Nat
    BY <1>2
  <2> QED BY <1>1, <1>5, <2>1, ContinueStep
<1>6. \/ stack' = stack
      \/ Landing /\ inCallback = 0 /\ stack' = <<>>
      \/ Replace([Top EXCEPT !.at = Top.at + 1])
  BY <1>2 DEF ReportCandidate, Uncaught
<1> QED BY <1>3, <1>4, <1>5, <1>6

LEMMA JoinKeepsStack ==
    ASSUME StackInv, NEW p \in Promise, Join(p)
    PROVE  StackInv'
<1>1. p \in made /\ UNCHANGED <<made, depth, inCallback, checkpointActive>>
  BY DEF Join
<1>2. CASE JoinRefused
  <2>1. UNCHANGED <<stack, joinActive>>
    BY <1>2 DEF Join
  <2> QED BY <1>1, <2>1 DEF StackInv
<1>3. CASE ~JoinRefused
  <2>1. /\ stack \in Seq(FrameSet) /\ depth \in Nat /\ inCallback \in Nat
        /\ checkpointActive \in BOOLEAN /\ joinActive \in BOOLEAN
        /\ depth = 0 => ~Has(stack, "task")
        /\ checkpointActive <=> Has(stack, "checkpoint")
        /\ ~joinActive => ~Has(stack, "join")
    BY FlagTypes
  <2>2. \A kind \in {"task", "checkpoint", "join"} : ~Has(stack, kind)
    BY <1>3, <2>1 DEF JoinRefused
  <2>3. Push([Frame("join") EXCEPT !.of = p]) /\ joinActive' = TRUE
    BY <1>3 DEF Join
  <2>4. PICK f : /\ f = [Frame("join") EXCEPT !.of = p] /\ f \in FrameSet /\ f.kind = "join"
                 /\ f.of = p
    BY JoinFrameShape
  <2>5. Fits(f, stack, made)
    BY <1>1, <2>2, <2>4 DEF Fits, Forbids
  <2>6. One(f, {"task"}) = 0 /\ One(f, {"callback", "release"}) = 0
    BY <2>4 DEF One
  <2>7. Push(f)
    BY <2>3, <2>4
  <2>8. /\ depth' = depth + One(f, {"task"})
        /\ inCallback' = inCallback + One(f, {"callback", "release"})
        /\ checkpointActive' \in BOOLEAN
        /\ checkpointActive' <=> checkpointActive \/ f.kind = "checkpoint"
        /\ joinActive' \in BOOLEAN /\ (joinActive' <=> joinActive \/ f.kind = "join")
    BY <1>1, <2>1, <2>3, <2>4, <2>6
  <2> QED BY <1>1, <2>5, <2>7, <2>8, PushStep
<1> QED BY <1>2, <1>3

\* The stack below what a join calls.
LEMMA JoinBooks ==
    ASSUME StackInv, stack # <<>>, Top.kind = "join", NEW n \in Nat
    PROVE  /\ Books(Cons([Top EXCEPT !.at = n], Tail(stack)), made, depth, inCallback,
                     checkpointActive, joinActive)
           /\ ~Has(Cons([Top EXCEPT !.at = n], Tail(stack)), "task")
<1>1. PICK f, s : /\ f = Top /\ s = Tail(stack) /\ f \in FrameSet /\ s \in Seq(FrameSet)
                  /\ stack = Cons(f, s) /\ Fits(f, s, made)
  BY TopSplit
<1>2. f \in FrameSet /\ f.kind = "join" /\ Fits(f, s, made)
  BY <1>1
<1>3. PICK g : g = [f EXCEPT !.at = n] /\ Fits(g, s, made) /\ g.kind = "join"
  BY ZenonT(60), <1>2, SameFits
<1>4. PICK a2 \in BOOLEAN, j2 \in BOOLEAN : a2 = checkpointActive /\ ~j2
  BY FlagTypes
<1>5. Books(s, made, depth, inCallback, a2, j2)
  <2>1. depth \in Nat /\ inCallback \in Nat
    BY FlagTypes
  <2>2. depth = depth - One(Top, {"task"}) /\ inCallback = inCallback - One(Top, {"callback", "release"})
    BY <2>1 DEF One
  <2>3. Books(Tail(stack), made, depth, inCallback, a2, j2)
    BY <1>4, <2>2, Popped
  <2> QED BY <1>1, <2>3
<1>6. depth = depth + One(g, {"task"}) /\ inCallback = inCallback + One(g, {"callback", "release"})
  BY <1>3, FlagTypes DEF One
<1>7. joinActive \in BOOLEAN /\ joinActive
  <2>1. Has(Cons(f, s), "join")
    BY <1>1, <1>2, HasCons
  <2> QED BY <1>1, <2>1 DEF StackInv, Books
<1>8. checkpointActive \in BOOLEAN
  BY FlagTypes
<1>9. Books(Cons(g, s), made, depth, inCallback, checkpointActive, joinActive)
  <2>1. checkpointActive <=> a2 \/ g.kind = "checkpoint"
    BY <1>3, <1>4, <1>8
  <2>2. joinActive <=> j2 \/ g.kind = "join"
    BY <1>3, <1>7
  <2>3. PICK d2, c2 : /\ d2 = depth /\ d2 = depth + One(g, {"task"})
                      /\ c2 = inCallback /\ c2 = inCallback + One(g, {"callback", "release"})
    BY <1>6
  <2>4. joinActive \in BOOLEAN /\ Fits(g, s, made)
    BY <1>3, <1>7
  <2>5. Books(Cons(g, s), made, d2, c2, checkpointActive, joinActive)
    BY <1>5, <1>8, <2>1, <2>2, <2>3, <2>4, PushKeeps
  <2> QED BY <2>3, <2>5
<1>10. ~Has(Cons(g, s), "task")
  <2>1. ~Has(s, "task")
    BY <1>2 DEF Fits, Forbids, StackKinds, ProgramKinds
  <2>2. g \in FrameSet
    BY <1>3 DEF Fits
  <2> QED BY <1>1, <1>3, <2>1, <2>2, HasCons
<1> QED BY <1>1, <1>3, <1>9, <1>10

LEMMA JoinStepKeepsStack ==
    ASSUME StackInv, JoinStep
    PROVE  StackInv'
<1>1. /\ stack # <<>> /\ Top.kind = "join" /\ UNCHANGED <<made, inCallback>>
  BY DEF JoinStep, TopIs, vars, promiseVars
<1>2. ASSUME NEW n \in Nat, JoinCheckpoint(n) PROVE StackInv'
  <2>1. PICK g : g = [Top EXCEPT !.at = n]
    OBVIOUS
  <2>2. stack' = <<CheckpointFrame("join"), g>> \o Tail(stack) /\ checkpointActive' = TRUE
         /\ UNCHANGED <<joinActive, depth>>
    BY <1>2, <2>1 DEF JoinCheckpoint
  <2>3. PICK b : /\ b = Cons(g, Tail(stack))
                 /\ Books(b, made, depth, inCallback, checkpointActive, joinActive)
    BY <1>1, <2>1, JoinBooks
  <2>4. PICK f : f = CheckpointFrame("join") /\ Fits(f, b, made) /\ f.kind = "checkpoint"
    <3>1. checkpointActive \in BOOLEAN /\ (checkpointActive <=> Has(b, "checkpoint"))
      BY <2>3 DEF Books
    <3> QED BY <3>1, CheckpointFits DEF Whys
  <2>5. stack' = Cons(f, b)
    <3>1. g \in FrameSet /\ f \in FrameSet /\ Tail(stack) \in Seq(FrameSet)
      BY <2>1, <2>4, TopSplit, <1>1 DEF Fits, FrameSet
    <3>2. TwoOn(stack', f, g, Tail(stack))
      BY <2>2, <2>4 DEF TwoOn
    <3>3. stack' = Cons(f, Cons(g, Tail(stack)))
      BY <3>1, <3>2, TwoOnTop
    <3> QED BY <2>3, <3>3
  <2>6. One(f, {"task"}) = 0 /\ One(f, {"callback", "release"}) = 0
    BY <2>4 DEF One
  <2>7. depth' = depth + One(f, {"task"}) /\ inCallback' = inCallback + One(f, {"callback", "release"})
    BY <1>1, <2>2, <2>6, FlagTypes
  <2>8. /\ checkpointActive' \in BOOLEAN
        /\ checkpointActive' <=> checkpointActive \/ f.kind = "checkpoint"
        /\ joinActive' \in BOOLEAN /\ (joinActive' <=> joinActive \/ f.kind = "join")
    BY <2>2, <2>4, FlagTypes
  <2>9. Books(Cons(f, b), made, depth', inCallback', checkpointActive', joinActive')
    BY <2>3, <2>4, <2>7, <2>8, PushKeeps
  <2> QED BY <1>1, <2>5, <2>9 DEF StackInv
<1>3. CASE JoinReturn
  <2>1. Pop /\ joinActive' = FALSE /\ UNCHANGED <<checkpointActive, depth>>
    BY <1>3 DEF JoinReturn
  <2>2. One(Top, {"task"}) = 0 /\ One(Top, {"callback", "release"}) = 0
    BY <1>1 DEF One
  <2>3. depth \in Nat /\ inCallback \in Nat /\ checkpointActive \in BOOLEAN
    BY FlagTypes
  <2>4. /\ depth' = depth - One(Top, {"task"})
        /\ inCallback' = inCallback - One(Top, {"callback", "release"})
    BY <1>1, <2>1, <2>2, <2>3
  <2>5. /\ checkpointActive' \in BOOLEAN
        /\ checkpointActive' <=> (IF Top.kind = "checkpoint" THEN Top.prev ELSE checkpointActive)
    BY <1>1, <2>1, <2>3
  <2>6. joinActive' \in BOOLEAN /\ (joinActive' <=> joinActive /\ Top.kind # "join")
    BY <1>1, <2>1
  <2> QED BY <1>1, <2>1, <2>4, <2>5, <2>6, PopStep
<1>4. CASE JoinPump
  <2>1. PICK b : /\ b = Cons([Top EXCEPT !.at = 0], Tail(stack)) /\ ~Has(b, "task")
                 /\ Books(b, made, depth, inCallback, checkpointActive, joinActive)
    BY <1>1, JoinBooks
  <2>2. TaskRun(b) /\ UNCHANGED joinActive
    BY <1>4, <2>1 DEF JoinPump, Cons
  <2> QED BY <1>1, <2>1, <2>2, TaskRunKeepsStack
<1> QED BY <1>2, <1>3, <1>4 DEF JoinStep

(***************************************************************************)
(* The promises under a checkpoint.                                        *)
(***************************************************************************)
\* A join marks a promise handled and a report empties the list of rejections:
\* nothing else happens to promises outside compiled code and jobs.
LEMMA LooseKeeps ==
    ASSUME Inv, UNCHANGED <<state, value, reactions, resolutions, pairs, open, made, sources,
                            values, remaining, micro, aborted, history>>,
           handled' \in [Promise -> BOOLEAN], \A p \in Promise : handled[p] => handled'[p],
           rejected' = rejected \/ rejected' = <<>>
    PROVE  Inv'
<1> USE DEF history
<1>1. TypeOK'
  <2>1. rejected' \in Seq(made)
    <3>1. rejected \in Seq(made) /\ <<>> \in Seq(made)
      BY DEF Inv, TypeOK
    <3> QED BY <3>1
  <2>2. \A p \in Promise :
          /\ Len(sources[p]) <= MaxElements
          /\ IsAll(p) => /\ values[p] \in Seq(Promise \cup {None})
                         /\ Len(values[p]) = Len(sources[p])
    BY DEF Inv, TypeOK
  <2> QED BY <2>1, <2>2 DEF Inv, TypeOK, IsAll
<1>2. ShapeInv'
  BY DEF Inv, ShapeInv, Pending, IsAll
<1>3. JobInv(micro)'
  BY DEF Inv, JobInv, Fit, Ripe, WaitsFor, Pending
<1>4. OneEach(micro, reactions)'
  BY DEF Inv
<1>5. RouteInv(micro)'
  BY DEF Inv, RouteInv, Pending
<1>6. UserInv(micro)' /\ OrderInv(micro)'
  BY DEF Inv, UserInv, OrderInv
<1>7. AdoptingInv(micro)' /\ AfterInv(micro)'
  BY DEF Inv, AdoptingInv, AfterInv
<1>8. SlotInv(micro)'
  BY DEF Inv, SlotInv, IsAll
<1>9. SettlementCarried'
  BY DEF Inv, SettlementCarried, Pending
<1>10. AllMeansAll'
  BY AllUnchanged DEF Inv
<1>11. Noted'
  <2>1. \A o \in made : Observed(o)' => handled'[o]
    BY DEF Inv, TypeOK, Noted, Observed
  <2> QED BY <2>1 DEF Inv, Noted
<1> QED BY <1>1, <1>2, <1>3, <1>4, <1>5, <1>6, <1>7, <1>8, <1>9, <1>10, <1>11 DEF Inv

LEMMA JobKeepsMade ==
    ASSUME NEW q, NEW job, RunJob(q, job)
    PROVE  UNCHANGED made
BY DEF RunJob, UserStep, ThenableStep, AdoptionBeginStep, AdoptionSettledStep, SlotStep, promiseVars

LEMMA ProgramKeepsMade ==
    ASSUME Program
    PROVE  made \subseteq made'
<1>1. ASSUME NEW p, Await(p) PROVE made \subseteq made'
  BY <1>1 DEF Await
<1>2. ASSUME NEW p, FrameReturn(p) PROVE made \subseteq made'
  BY <1>2 DEF FrameReturn
<1>3. ASSUME NEW p, NEW pair, Resolve(p, pair) PROVE made \subseteq made'
  BY <1>3 DEF Resolve
<1>4. ASSUME NEW p, NEW pair, ResolveAborts(p, pair) PROVE made \subseteq made'
  BY <1>4 DEF ResolveAborts, promiseVars
<1>5. ASSUME NEW p, NEW elements, NEW all, MakeCombinator(p, elements, all)
      PROVE  made \subseteq made'
  <2>1. made' = made \cup {p}
    BY <1>5 DEF MakeCombinator
  <2> QED BY <2>1
<1>6. CASE EnqueueJob
  BY <1>6 DEF EnqueueJob, promiseVars
<1> QED BY <1>1, <1>2, <1>3, <1>4, <1>5, <1>6 DEF Program

\* The other actions of the checkpoint.
Still ==
    \/ EnqueueTick \/ PostTask \/ Call \/ TurnLoop \/ Enter \/ CallbackEnter \/ ModuleEnd
    \/ Leave \/ CallbackLeave \/ Return \/ RunTask \/ ExplicitCheckpoint \/ RunTick
    \/ DrainEnd \/ ForeignRelease \/ FinishCheckpoint \/ ReportCandidate \/ JoinStep

LEMMA StillPromises ==
    ASSUME Still
    PROVE  UNCHANGED vars
BY DEF Still, EnqueueTick, PostTask, Call, TurnLoop, Enter, CallbackEnter, ModuleEnd, Leave,
       CallbackLeave, Return, RunTask, ExplicitCheckpoint, RunTick, DrainEnd, ForeignRelease,
       FinishCheckpoint, ReportCandidate, JoinStep

LEMMA NextCases ==
    ASSUME CheckpointNext
    PROVE  ProgramStep \/ Drain \/ ReportEnd \/ (\E p \in Promise : Join(p)) \/ Still
BY DEF CheckpointNext, Runtime, Still

LEMMA PromisesKept ==
    ASSUME Inv, [CheckpointNext]_checkpointVars
    PROVE  Inv' /\ made \subseteq made'
<1>1. ASSUME UNCHANGED vars PROVE Inv' /\ made \subseteq made'
  <2>1. [Next]_vars
    BY <1>1
  <2> QED BY <1>1, <2>1, NextKeeps DEF vars, promiseVars
<1>2. CASE ProgramStep
  <2>1. Program
    BY <1>2 DEF ProgramStep
  <2> QED BY <2>1, NextKeeps, ProgramKeepsMade DEF Next
<1>3. CASE Drain
  <2>1. RunMicrotask
    BY <1>3 DEF Drain, RunMicrotask, TopIs
  <2> QED BY <2>1, RunMicrotaskKeeps, JobKeepsMade DEF RunMicrotask
<1>4. CASE ReportEnd
  <2>1. /\ UNCHANGED <<promiseVars, micro, aborted, history>> /\ rejected' = <<>>
    BY <1>4 DEF ReportEnd
  <2>2. /\ UNCHANGED <<state, value, reactions, resolutions, pairs, open, made, sources,
                       values, remaining, micro, aborted, history>>
        /\ handled' = handled
    BY <2>1 DEF promiseVars
  <2>3. handled' \in [Promise -> BOOLEAN]
    BY <2>2 DEF Inv, TypeOK
  <2> QED BY <2>1, <2>2, <2>3, LooseKeeps
<1>5. ASSUME NEW p \in Promise, Join(p) PROVE Inv' /\ made \subseteq made'
  <2>1. /\ UNCHANGED <<state, value, reactions, resolutions, pairs, open, made, sources,
                       values, remaining, micro, aborted, history>>
        /\ handled' = [handled EXCEPT ![p] = TRUE] /\ rejected' = rejected
    BY <1>5 DEF Join, JoinMarks
  <2>2. handled' \in [Promise -> BOOLEAN] /\ \A o \in Promise : handled[o] => handled'[o]
    BY <2>1 DEF Inv, TypeOK
  <2> QED BY <2>1, <2>2, LooseKeeps
<1>6. CASE Still
  BY <1>1, <1>6, StillPromises
<1>7. CASE UNCHANGED checkpointVars
  BY <1>1, <1>7 DEF checkpointVars
<1> QED BY <1>2, <1>3, <1>4, <1>5, <1>6, <1>7, NextCases

LEMMA StackKept ==
    ASSUME Inv, StackInv, [CheckpointNext]_checkpointVars
    PROVE  StackInv'
<1> USE DEF vars, promiseVars
<1>1. ASSUME UNCHANGED <<stack, depth, inCallback, checkpointActive, joinActive>> PROVE StackInv'
  <2>1. made \subseteq made'
    BY PromisesKept
  <2> QED BY <1>1, <2>1, GrowKeeps DEF StackInv
<1>2. CASE ProgramStep
  BY <1>1, <1>2 DEF ProgramStep, control
<1>3. CASE EnqueueTick \/ PostTask
  BY <1>1, <1>3 DEF EnqueueTick, PostTask
<1>4. CASE Call
  BY <1>4, PlainPushStep DEF Call
<1>5. CASE TurnLoop
  BY <1>5, TurnLoopKeepsStack
<1>6. CASE Enter
  BY <1>6, PlainPushStep DEF Enter
<1>7. CASE CallbackEnter
  BY <1>7, PlainPushStep DEF CallbackEnter
<1>8. CASE ModuleEnd
  BY <1>8, ModuleEndKeepsStack
<1>9. CASE Leave
  BY <1>9, LeaveKeepsStack
<1>10. CASE CallbackLeave
  BY <1>10, CallbackLeaveKeepsStack
<1>11. CASE Return
  BY <1>11, ReturnKeepsStack
<1>12. CASE RunTask
  BY <1>12, RunTaskKeepsStack
<1>13. CASE ExplicitCheckpoint
  <2>1. /\ Push(CheckpointFrame("explicit")) /\ checkpointActive' = TRUE
        /\ UNCHANGED <<made, depth, inCallback, joinActive>>
    BY <1>13 DEF ExplicitCheckpoint
  <2> QED BY <2>1, CheckpointPushStep DEF Whys
<1>14. CASE RunTick
  <2>1. stack # <<>> /\ UNCHANGED <<made, depth, inCallback, checkpointActive, joinActive>>
    BY <1>14 DEF RunTick, TopIs
  <2>2. Push(Frame("job")) \/ Replace([Top EXCEPT !.at = 1])
    BY <1>14 DEF RunTick
  <2> QED BY <2>1, <2>2, PlainPushStep, ContinueStep
<1>15. CASE Drain
  <2>1. UNCHANGED <<depth, inCallback, checkpointActive, joinActive>>
        /\ (Push(Frame("job")) \/ stack' = stack)
    BY <1>15 DEF Drain
  <2>2. UNCHANGED made
    BY <1>15, JobKeepsMade DEF Drain
  <2> QED BY <1>1, <2>1, <2>2, PlainPushStep
<1>16. CASE DrainEnd
  <2>1. /\ stack # <<>> /\ UNCHANGED <<made, depth, inCallback, checkpointActive, joinActive>>
        /\ Replace([Top EXCEPT !.at = AfterDrain])
    BY <1>16 DEF DrainEnd, TopIs
  <2>2. AfterDrain \in Nat
    BY DEF AfterDrain
  <2> QED BY <2>1, <2>2, ContinueStep
<1>17. CASE ForeignRelease
  BY <1>17, PlainPushStep DEF ForeignRelease
<1>18. CASE FinishCheckpoint
  BY <1>18, FinishCheckpointKeepsStack
<1>19. CASE ReportCandidate
  BY <1>19, ReportCandidateKeepsStack
<1>20. CASE ReportEnd
  BY <1>20, PlainPopStep DEF ReportEnd, TopIs
<1>21. ASSUME NEW p \in Promise, Join(p) PROVE StackInv'
  BY <1>21, JoinKeepsStack
<1>22. CASE JoinStep
  BY <1>22, JoinStepKeepsStack
<1>23. CASE UNCHANGED checkpointVars
  BY <1>1, <1>23 DEF checkpointVars, control
<1> QED BY <1>2, <1>3, <1>4, <1>5, <1>6, <1>7, <1>8, <1>9, <1>10, <1>11, <1>12, <1>13, <1>14,
           <1>15, <1>16, <1>17, <1>18, <1>19, <1>20, <1>21, <1>22, <1>23
        DEF CheckpointNext, Runtime

(***************************************************************************)
(* The other variables.                                                    *)
(***************************************************************************)
LEMMA RestFrom ==
    ASSUME RestInv, made \subseteq made', UNCHANGED log,
           checkpointPosted' \in BOOLEAN, exited' \in BOOLEAN, ticks' \in Nat,
           tasks' \in Seq({"program", "checkpoint"}), fuel' \in [Calls -> Nat]
    PROVE  RestInv'
<1>1. reports' \in Seq(made')
  BY SeqMonotonic DEF RestInv, log
<1> QED BY <1>1 DEF RestInv, log

LEMMA SpendTyped ==
    ASSUME RestInv, NEW call \in Calls, Spend(call)
    PROVE  fuel' \in [Calls -> Nat]
<1>1. fuel[call] \in Nat /\ fuel[call] > 0 /\ fuel' = [fuel EXCEPT ![call] = fuel[call] - 1]
  BY DEF RestInv, Spend
<1>2. fuel[call] - 1 \in Nat
  BY <1>1
<1> QED BY <1>1, <1>2 DEF RestInv

LEMMA TaskRunTyped ==
    ASSUME RestInv, NEW below, TaskRun(below)
    PROVE  tasks' \in Seq({"program", "checkpoint"}) /\ checkpointPosted' \in BOOLEAN
<1>1. tasks' \in Seq({"program", "checkpoint"})
  BY DEF RestInv, TaskRun
<1>2. checkpointPosted' \in BOOLEAN
  BY DEF RestInv, TaskRun
<1> QED BY <1>1, <1>2

LEMMA RestKept ==
    ASSUME Inv, StackInv, RestInv, [CheckpointNext]_checkpointVars
    PROVE  RestInv'
<1>1. made \subseteq made'
  BY PromisesKept
<1>2. /\ checkpointPosted \in BOOLEAN /\ exited \in BOOLEAN /\ ticks \in Nat
      /\ tasks \in Seq({"program", "checkpoint"}) /\ fuel \in [Calls -> Nat]
      /\ ticks + 1 \in Nat /\ (ticks > 0 => ticks - 1 \in Nat)
      /\ \A x \in {"program", "checkpoint"} : Append(tasks, x) \in Seq({"program", "checkpoint"})
  BY DEF RestInv
<1>3. ASSUME UNCHANGED <<checkpointPosted, ticks, tasks, exited, log>>,
             UNCHANGED fuel \/ \E call \in Calls : Spend(call)
      PROVE  RestInv'
  BY <1>1, <1>2, <1>3, RestFrom, SpendTyped
<1>4. CASE ProgramStep \/ UNCHANGED checkpointVars
  BY <1>3, <1>4 DEF ProgramStep, control, checkpointVars
<1>5. CASE EnqueueTick
  <2>1. fuel' \in [Calls -> Nat]
    BY <1>5, SpendTyped DEF EnqueueTick, Calls
  <2> QED BY <1>1, <1>2, <1>5, <2>1, RestFrom DEF EnqueueTick
<1>6. CASE PostTask
  <2>1. fuel' \in [Calls -> Nat]
    BY <1>6, SpendTyped DEF PostTask, Calls
  <2> QED BY <1>1, <1>2, <1>6, <2>1, RestFrom DEF PostTask
<1>7. CASE Call \/ TurnLoop \/ Enter \/ CallbackEnter \/ ExplicitCheckpoint \/ ForeignRelease
  <2>1. /\ UNCHANGED <<checkpointPosted, ticks, tasks, exited, log>>
        /\ \E call \in Calls : Spend(call)
    BY <1>7 DEF Call, TurnLoop, Enter, CallbackEnter, ExplicitCheckpoint, ForeignRelease, Calls
  <2> QED BY <1>3, <2>1
<1>8. CASE ModuleEnd \/ Leave \/ Return \/ DrainEnd \/ FinishCheckpoint \/ Drain \/ ReportEnd
  BY <1>3, <1>8 DEF ModuleEnd, Leave, Return, DrainEnd, FinishCheckpoint, Drain, ReportEnd
<1>9. CASE CallbackLeave
  <2>1. /\ UNCHANGED <<ticks, exited, fuel, log>>
        /\ checkpointPosted' = checkpointPosted \/ checkpointPosted' = TRUE
        /\ tasks' = tasks \/ tasks' = Append(tasks, "checkpoint")
    BY <1>9 DEF CallbackLeave
  <2> QED BY <1>1, <1>2, <2>1, RestFrom
<1>10. CASE RunTask
  <2>1. TaskRun(stack) /\ UNCHANGED <<ticks, exited, fuel, log>>
    BY <1>10 DEF RunTask
  <2> QED BY <1>1, <1>2, <2>1, TaskRunTyped, RestFrom
<1>11. CASE RunTick
  <2>1. /\ UNCHANGED <<checkpointPosted, tasks, exited, fuel, log>>
        /\ (ticks > 0 /\ ticks' = ticks - 1) \/ ticks' = ticks
    BY <1>11 DEF RunTick
  <2> QED BY <1>1, <1>2, <2>1, RestFrom
<1>12. CASE ReportCandidate
  <2>1. PICK p : p = rejected[Top.at + 1]
    OBVIOUS
  <2>2. /\ stack # <<>> /\ Top.at < Len(rejected)
        /\ UNCHANGED <<made, checkpointPosted, ticks, tasks, fuel, joins, joinResult>>
    BY <1>12 DEF ReportCandidate, TopIs, vars, promiseVars
  <2>3. p \in made /\ made \subseteq Promise
    <3>1. Top.at \in Nat
      BY <2>2, TopSplit DEF FrameSet
    <3>2. rejected \in Seq(made) /\ made \subseteq Promise
      BY DEF Inv, TypeOK
    <3> QED BY <2>1, <2>2, <3>1, <3>2
  <2>4. reports' = reports \/ reports' = Append(reports, p)
    BY <1>12, <2>1 DEF ReportCandidate, Uncaught
  <2>5. released' = released \/ released' = [released EXCEPT ![p] = released[p] + 1]
    BY <1>12, <2>1 DEF ReportCandidate, RestInv
  <2>6. exited' \in BOOLEAN
    BY <1>2, <1>12 DEF ReportCandidate, Uncaught
  <2>7. reports' \in Seq(made)
    <3>1. reports \in Seq(made)
      BY DEF RestInv
    <3>2. Append(reports, p) \in Seq(made)
      BY <2>3, <3>1
    <3> QED BY <2>4, <3>1, <3>2
  <2>8. released' \in [Promise -> Nat]
    BY <2>3, <2>5 DEF RestInv
  <2> QED BY <2>2, <2>6, <2>7, <2>8 DEF RestInv
<1>13. ASSUME NEW p \in Promise, Join(p) PROVE RestInv'
  <2>1. /\ UNCHANGED <<made, checkpointPosted, ticks, tasks, exited, reports, released>>
        /\ p \in made /\ joins' = joins \cup {p}
        /\ joinResult' = joinResult \/ joinResult' = "reentrant"
    BY <1>13 DEF Join
  <2>2. fuel' \in [Calls -> Nat]
    BY <1>13, SpendTyped DEF Join, Calls
  <2> QED BY <2>1, <2>2 DEF RestInv
<1>14. CASE JoinStep
  <2>1. /\ stack # <<>> /\ Top.kind = "join"
        /\ UNCHANGED <<made, ticks, exited, fuel, joins, reports, released>>
    BY <1>14 DEF JoinStep, TopIs, vars, promiseVars
  <2>2. \/ joinResult' = joinResult
        \/ joinResult' = state[Top.of]
    BY <1>14 DEF JoinStep, JoinCheckpoint, JoinReturn, JoinPump
  <2>3. Top.of \in made /\ made \subseteq Promise
    BY <2>1, TopSplit DEF Fits, Inv, TypeOK
  <2>4. joinResult' \in {"none", "reentrant", "pending", "fulfilled", "rejected"}
    BY <2>2, <2>3 DEF RestInv, Inv, TypeOK
  <2>5. \/ UNCHANGED <<tasks, checkpointPosted>>
        \/ \E below : TaskRun(below)
    BY <1>14 DEF JoinStep, JoinCheckpoint, JoinReturn, JoinPump
  <2>6. tasks' \in Seq({"program", "checkpoint"}) /\ checkpointPosted' \in BOOLEAN
    BY <1>2, <2>5, TaskRunTyped
  <2> QED BY <2>1, <2>4, <2>6 DEF RestInv
<1> QED BY <1>4, <1>5, <1>6, <1>7, <1>8, <1>9, <1>10, <1>11, <1>12, <1>13, <1>14
        DEF CheckpointNext, Runtime

(***************************************************************************)
(* The stack and the environment.                                          *)
(***************************************************************************)
CheckpointInv == Inv /\ StackInv /\ RestInv

LEMMA CheckpointInitInv == CheckpointInit => CheckpointInv
<1> SUFFICES ASSUME CheckpointInit PROVE CheckpointInv
  OBVIOUS
<1>1. Inv
  BY InitInv DEF CheckpointInit
<1>2. StackInv
  <2>1. PICK f : f = Frame("module") /\ f \in FrameSet /\ f.kind = "module"
    BY FrameShape DEF StackKinds, ProgramKinds
  <2>2. Books(<<>>, made, 0, 0, FALSE, FALSE)
    BY EmptyBooks
  <2>3. Fits(f, <<>>, made)
    BY <2>1 DEF Fits, Forbids, Has
  <2>4. One(f, {"task"}) = 0 /\ One(f, {"callback", "release"}) = 0
    BY <2>1 DEF One
  <2>5. Books(Cons(f, <<>>), made, 0, 0, FALSE, FALSE)
    <3>1. 0 = 0 + One(f, {"task"}) /\ 0 = 0 + One(f, {"callback", "release"})
      BY <2>4
    <3>2. f.kind # "checkpoint" /\ f.kind # "join"
      BY <2>1
    <3>3. PICK a2 \in BOOLEAN : ~a2
      OBVIOUS
    <3>4. a2 = FALSE
      BY <3>3
    <3>5. PICK z : z = 0 /\ z = 0 + One(f, {"task"}) /\ z = 0 + One(f, {"callback", "release"})
      BY <3>1
    <3>6. Books(Cons(f, <<>>), made, z, z, a2, a2)
      BY <2>2, <2>3, <3>2, <3>3, <3>5, PushKeeps
    <3> QED BY <3>4, <3>5, <3>6
  <2>6. stack = Cons(f, <<>>)
    BY <2>1 DEF CheckpointInit, Cons
  <2> QED BY <2>5, <2>6 DEF CheckpointInit, StackInv
<1>3. RestInv
  <2>1. <<>> \in Seq({"program", "checkpoint"}) /\ <<>> \in Seq(made) /\ {} \subseteq made
    OBVIOUS
  <2>2. released \in [Promise -> Nat]
    BY DEF CheckpointInit
  <2> QED BY <2>1, <2>2, CheckpointAssumption DEF CheckpointInit, RestInv
<1> QED BY <1>1, <1>2, <1>3 DEF CheckpointInv

LEMMA CheckpointInvHolds == CheckpointSpec => []CheckpointInv
<1>1. CheckpointInv /\ [CheckpointNext]_checkpointVars => CheckpointInv'
  BY PromisesKept, StackKept, RestKept DEF CheckpointInv
<1> QED BY <1>1, CheckpointInitInv, PTL DEF CheckpointSpec

\* What the environment's counters and flags say of the C stack is exact, as
\* long as no embedder's landing jumps past the frames that would undo them
\* (nts_enter, nts_leave, nts_callback_enter, nts_callback_leave,
\* nts_finish_checkpoint, nts_promise_join).
THEOREM FlagsExact ==
    ASSUME ~Landing
    PROVE  CheckpointSpec => []StackSound
<1>1. CheckpointInv => StackSound
  <2> SUFFICES ASSUME CheckpointInv PROVE StackSound
    OBVIOUS
  <2>1. Inv /\ RestInv /\ StackInv
    BY DEF CheckpointInv
  <2>2. /\ stack \in Seq(FrameSet) /\ depth \in Nat /\ inCallback \in Nat
        /\ checkpointActive \in BOOLEAN /\ joinActive \in BOOLEAN
    BY <2>1, FlagTypes
  <2>3. CheckpointTypeOK
    BY <2>1, <2>2 DEF CheckpointTypeOK, Inv, RestInv, FrameSet, StackKinds, Whys
  <2>4. /\ depth = Count(stack, {"task"}) /\ inCallback = Count(stack, {"callback", "release"})
        /\ checkpointActive <=> Has(stack, "checkpoint")
        /\ joinActive <=> Has(stack, "join")
    BY <2>1 DEF StackInv, Books
  <2>5. FlagsTellStack
    BY <2>4 DEF FlagsTellStack, Frames, Count, PlacesOf, Has
  <2> QED BY <2>3, <2>5 DEF StackSound
<1> QED BY <1>1, CheckpointInvHolds, PTL

\* No checkpoint that compiled code did not ask for stands above a task,
\* landings or not (nts_leave, nts_callback_leave, nts_promise_join).
THEOREM TasksRunToCompletion == CheckpointSpec => []TaskRunsToCompletion
<1>1. CheckpointInv => TaskRunsToCompletion
  BY DEF CheckpointInv, StackInv, Books, Sound, TaskRunsToCompletion, InterruptedBy, Forbids
<1> QED BY <1>1, CheckpointInvHolds, PTL

\* No checkpoint is under way below a report: none that is nested reports
\* (nts_finish_checkpoint).
THEOREM ReportsAreOutermost == CheckpointSpec => []OutermostReports
<1>1. CheckpointInv => OutermostReports
  <2> SUFFICES ASSUME CheckpointInv, NEW i \in Frames({"report"}), NEW j \in Frames({"checkpoint"})
               PROVE  j < i
    BY DEF OutermostReports
  <2>1. /\ i \in DOMAIN stack /\ j \in DOMAIN stack /\ stack \in Seq(FrameSet)
        /\ stack[i].kind = "report" /\ stack[j].kind = "checkpoint"
    BY DEF Frames, CheckpointInv, StackInv, Books, Sound
  <2>2. ~(i < j)
    BY <2>1 DEF CheckpointInv, StackInv, Books, Sound, Forbids
  <2>3. i \in Nat /\ j \in Nat /\ i # j
    BY <2>1
  <2> QED BY <2>2, <2>3
<1> QED BY <1>1, CheckpointInvHolds, PTL

(***************************************************************************)
(* The drain.  Where no foreign release enters compiled code, whoever      *)
(* waits for the drain finds both queues empty, and a join that gives up   *)
(* has no task left to wait for.                                           *)
(***************************************************************************)
Drained == micro = <<>> /\ ticks = 0

\* A frame that has seen the drain, and a join that has seen the host idle.
Waits(f) ==
    \/ f.kind = "report"
    \/ f.kind = "checkpoint" /\ f.at = 2
    \/ f.kind = "join" /\ f.at > 0
Late(f) == f.kind = "join" /\ f.at = 2

\* f can have been called by g.
Over(f, g) == Waits(g) => g.kind = "join" /\ f.kind \in {"checkpoint", "report"}

Adjacent(s) == \A i \in DOMAIN s : i + 1 \in DOMAIN s => Over(s[i], s[i + 1])
NoneLate(s) == \A i \in DOMAIN s : ~Late(s[i])

LEMMA AdjacentCons ==
    ASSUME NEW f \in FrameSet, NEW s \in Seq(FrameSet)
    PROVE  Adjacent(Cons(f, s)) <=> Adjacent(s) /\ (s # <<>> => Over(f, Head(s)))
<1>1. /\ DOMAIN Cons(f, s) = 1 .. (Len(s) + 1) /\ Cons(f, s)[1] = f
      /\ \A i \in 1 .. Len(s) : Cons(f, s)[i + 1] = s[i]
      /\ DOMAIN s = 1 .. Len(s) /\ Len(s) \in Nat
  BY ConsShape
<1>2. PICK c : /\ c = Cons(f, s) /\ DOMAIN c = 1 .. (Len(s) + 1) /\ c[1] = f
               /\ \A i \in 1 .. Len(s) : c[i + 1] = s[i]
               /\ DOMAIN s = 1 .. Len(s) /\ Len(s) \in Nat
  BY <1>1
<1>3. s # <<>> => Len(s) >= 1 /\ Head(s) = s[1]
  OBVIOUS
<1>4. ASSUME Adjacent(c) PROVE Adjacent(s) /\ (s # <<>> => Over(f, Head(s)))
  <2>1. ASSUME NEW i \in DOMAIN s, i + 1 \in DOMAIN s PROVE Over(s[i], s[i + 1])
    <3>1. /\ i + 1 \in DOMAIN c /\ (i + 1) + 1 \in DOMAIN c
          /\ c[i + 1] = s[i] /\ c[(i + 1) + 1] = s[i + 1]
      BY <1>2, <2>1
    <3>2. Over(c[i + 1], c[(i + 1) + 1])
      BY <1>4, <3>1 DEF Adjacent
    <3> QED BY <3>1, <3>2
  <2>2. ASSUME s # <<>> PROVE Over(f, Head(s))
    <3>1. 1 \in DOMAIN c /\ 1 + 1 \in DOMAIN c /\ c[1 + 1] = s[1]
      BY <1>2, <1>3, <2>2
    <3>2. Over(c[1], c[1 + 1])
      BY <1>4, <3>1 DEF Adjacent
    <3> QED BY <1>2, <1>3, <2>2, <3>1, <3>2
  <2> QED BY <2>1, <2>2 DEF Adjacent
<1>5. ASSUME Adjacent(s), s # <<>> => Over(f, Head(s)) PROVE Adjacent(c)
  <2>1. ASSUME NEW i \in DOMAIN c, i + 1 \in DOMAIN c PROVE Over(c[i], c[i + 1])
    <3>1. CASE i = 1
      <4>1. Len(s) # 0 /\ 1 \in 1 .. Len(s)
        BY <1>2, <2>1, <3>1
      <4>2. s # <<>> /\ c[1 + 1] = s[1]
        BY <1>2, <4>1
      <4>3. Over(f, s[1])
        BY <1>3, <1>5, <4>2
      <4> QED BY <1>2, <3>1, <4>2, <4>3
    <3>2. CASE i # 1
      <4>1. PICK k : k = i - 1 /\ k \in 1 .. Len(s) /\ k + 1 \in 1 .. Len(s) /\ k + 1 = i
        BY <1>2, <2>1, <3>2
      <4>2. c[k + 1] = s[k] /\ c[(k + 1) + 1] = s[k + 1]
        BY <1>2, <4>1
      <4>3. Over(s[k], s[k + 1])
        BY <1>2, <1>5, <4>1 DEF Adjacent
      <4> QED BY <4>1, <4>2, <4>3
    <3> QED BY <3>1, <3>2
  <2> QED BY <2>1 DEF Adjacent
<1> QED BY <1>2, <1>4, <1>5

LEMMA NoneLateCons ==
    ASSUME NEW f \in FrameSet, NEW s \in Seq(FrameSet)
    PROVE  NoneLate(Cons(f, s)) <=> ~Late(f) /\ NoneLate(s)
<1>1. /\ DOMAIN Cons(f, s) = 1 .. (Len(s) + 1) /\ Cons(f, s)[1] = f
      /\ \A i \in 1 .. Len(s) : Cons(f, s)[i + 1] = s[i]
      /\ DOMAIN s = 1 .. Len(s) /\ Len(s) \in Nat
  BY ConsShape
<1>2. PICK c : /\ c = Cons(f, s) /\ DOMAIN c = 1 .. (Len(s) + 1) /\ c[1] = f
               /\ \A i \in 1 .. Len(s) : c[i + 1] = s[i]
               /\ DOMAIN s = 1 .. Len(s) /\ Len(s) \in Nat
  BY <1>1
<1>3. ASSUME NoneLate(c) PROVE ~Late(f) /\ NoneLate(s)
  <2>1. 1 \in DOMAIN c /\ \A i \in DOMAIN s : i + 1 \in DOMAIN c /\ c[i + 1] = s[i]
    BY <1>2
  <2>2. \A i \in DOMAIN s : ~Late(s[i])
    BY <1>3, <2>1 DEF NoneLate
  <2>3. ~Late(c[1])
    BY <1>3, <2>1 DEF NoneLate
  <2> QED BY <1>2, <2>2, <2>3 DEF NoneLate
<1>4. ASSUME ~Late(f), NoneLate(s) PROVE NoneLate(c)
  <2>1. ASSUME NEW i \in DOMAIN c PROVE ~Late(c[i])
    <3>1. CASE i = 1
      BY <1>2, <1>4, <3>1
    <3>2. CASE i # 1
      <4>1. PICK k : k \in 1 .. Len(s) /\ k + 1 = i
        <5>1. i - 1 \in 1 .. Len(s) /\ (i - 1) + 1 = i
          BY <1>2, <3>2
        <5> QED BY <5>1
      <4>2. c[k + 1] = s[k] /\ ~Late(s[k])
        BY <1>2, <1>4, <4>1 DEF NoneLate
      <4> QED BY <4>1, <4>2
    <3> QED BY <3>1, <3>2
  <2> QED BY <2>1 DEF NoneLate
<1> QED BY <1>2, <1>3, <1>4

\* What the stack s promises of the queues (dr: they are empty) and the host
\* (idle: it has no task).
Quiet(s, dr, idle) ==
    /\ Adjacent(s)
    /\ s # <<>> =>
          /\ Waits(Head(s)) => dr
          /\ Late(Head(s)) => idle
          /\ Tail(s) # <<>> => /\ (Late(Head(Tail(s))) => dr /\ idle)
                               /\ NoneLate(Tail(Tail(s)))

\* The same of a stack with its top taken off.
LEMMA QuietCons ==
    ASSUME NEW f \in FrameSet, NEW s \in Seq(FrameSet), NEW dr, NEW idle
    PROVE  Quiet(Cons(f, s), dr, idle) <=>
              /\ Adjacent(s)
              /\ Waits(f) => dr
              /\ Late(f) => idle
              /\ s # <<>> => /\ Over(f, Head(s))
                             /\ (Late(Head(s)) => dr /\ idle)
                             /\ NoneLate(Tail(s))
<1>1. Cons(f, s) # <<>> /\ Head(Cons(f, s)) = f /\ Tail(Cons(f, s)) = s
  BY ConsShape
<1> QED BY <1>1, AdjacentCons DEF Quiet

LEMMA QuietReplace ==
    ASSUME NEW f \in FrameSet, NEW g \in FrameSet, NEW s \in Seq(FrameSet), NEW dr, NEW idle,
           NEW dr2, NEW idle2, Quiet(Cons(f, s), dr, idle),
           Waits(g) => dr2, Late(g) => idle2,
           s # <<>> => Over(g, Head(s)) /\ (Late(Head(s)) => dr2 /\ idle2)
    PROVE  Quiet(Cons(g, s), dr2, idle2)
BY QuietCons

LEMMA QuietPop ==
    ASSUME NEW f \in FrameSet, NEW s \in Seq(FrameSet), NEW dr, NEW idle, NEW dr2, NEW idle2,
           Quiet(Cons(f, s), dr, idle),
           s # <<>> => (Waits(Head(s)) => dr2) /\ (Late(Head(s)) => idle2)
    PROVE  Quiet(s, dr2, idle2)
<1>1. Adjacent(s) /\ (s # <<>> => NoneLate(Tail(s)))
  BY QuietCons
<1>2. CASE s = <<>>
  BY <1>1, <1>2 DEF Quiet
<1>3. CASE s # <<>> /\ Tail(s) = <<>>
  BY <1>1, <1>3 DEF Quiet
<1>4. CASE s # <<>> /\ Tail(s) # <<>>
  <2>1. PICK t : t = Tail(s) /\ t \in Seq(FrameSet) /\ t # <<>> /\ NoneLate(t)
    BY <1>1, <1>4, Split
  <2>2. Head(t) \in FrameSet /\ Tail(t) \in Seq(FrameSet) /\ t = Cons(Head(t), Tail(t))
    BY <2>1, Split
  <2>3. ~Late(Head(t)) /\ NoneLate(Tail(t))
    BY <2>1, <2>2, NoneLateCons
  <2> QED BY <1>1, <1>4, <2>1, <2>3 DEF Quiet
<1> QED BY <1>2, <1>3, <1>4

\* A call: the caller waits for nothing, and no join below has seen the host
\* idle.
LEMMA QuietPush ==
    ASSUME NEW f \in FrameSet, NEW s \in Seq(FrameSet), NEW dr, NEW idle, NEW dr2, NEW idle2,
           Quiet(s, dr, idle), ~Waits(f),
           s # <<>> => /\ Over(f, Head(s)) /\ ~Late(Head(s))
                       /\ Tail(s) # <<>> => ~Late(Head(Tail(s)))
    PROVE  Quiet(Cons(f, s), dr2, idle2)
<1>1. ~Late(f)
  BY DEF Late, Waits, FrameSet
<1>2. Adjacent(s)
  BY DEF Quiet
<1>3. ASSUME s # <<>> PROVE NoneLate(Tail(s))
  <2>1. CASE Tail(s) = <<>>
    BY <2>1 DEF NoneLate
  <2>2. CASE Tail(s) # <<>>
    <3>1. PICK t : t = Tail(s) /\ t \in Seq(FrameSet) /\ t # <<>>
      BY <1>3, <2>2, Split
    <3>2. Head(t) \in FrameSet /\ Tail(t) \in Seq(FrameSet) /\ t = Cons(Head(t), Tail(t))
      BY <3>1, Split
    <3>3. ~Late(Head(t)) /\ NoneLate(Tail(t))
      BY <1>3, <3>1 DEF Quiet
    <3> QED BY <3>1, <3>2, <3>3, NoneLateCons
  <2> QED BY <2>1, <2>2
<1> QED BY <1>1, <1>2, <1>3, QuietCons

Idle == tasks = <<>>
QuietInv == fuel["release"] = 0 /\ Quiet(stack, Drained, Idle)

\* Frames of compiled code, and the loop it turns.
Calm == ProgramKinds \cup {"loop"}

LEMMA FreshFrames ==
    /\ \A kind \in StackKinds \ {"report"} : Frame(kind) \in FrameSet /\ ~Waits(Frame(kind))
    /\ \A why \in Whys : checkpointActive \in BOOLEAN =>
          /\ CheckpointFrame(why) \in FrameSet /\ ~Waits(CheckpointFrame(why))
          /\ CheckpointFrame(why).kind = "checkpoint"
    /\ \A p \in Promise : [Frame("join") EXCEPT !.of = p] \in FrameSet
                             /\ ~Waits([Frame("join") EXCEPT !.of = p])
<1>1. ASSUME NEW kind \in StackKinds \ {"report"}
      PROVE  Frame(kind) \in FrameSet /\ ~Waits(Frame(kind))
  <2>1. Frame(kind) \in FrameSet /\ Frame(kind).kind = kind /\ Frame(kind).at = 0
    BY DEF Frame, FrameSet, Whys
  <2> QED BY <2>1 DEF Waits
<1>2. ASSUME NEW why \in Whys, checkpointActive \in BOOLEAN
      PROVE  /\ CheckpointFrame(why) \in FrameSet /\ ~Waits(CheckpointFrame(why))
             /\ CheckpointFrame(why).kind = "checkpoint"
  <2>1. /\ CheckpointFrame(why) \in FrameSet /\ CheckpointFrame(why).kind = "checkpoint"
        /\ CheckpointFrame(why).at = 0
    BY <1>2 DEF CheckpointFrame, Frame, FrameSet, StackKinds, ProgramKinds, Whys
  <2> QED BY <2>1 DEF Waits
<1>3. ASSUME NEW p \in Promise
      PROVE  /\ [Frame("join") EXCEPT !.of = p] \in FrameSet
             /\ ~Waits([Frame("join") EXCEPT !.of = p])
  <2>1. Frame("join") \in FrameSet /\ Frame("join").kind = "join" /\ Frame("join").at = 0
    BY DEF Frame, FrameSet, StackKinds, ProgramKinds, Whys
  <2>2. PICK g : g = [Frame("join") EXCEPT !.of = p]
    OBVIOUS
  <2>3. g \in FrameSet /\ g.kind = "join" /\ g.at = 0
    BY <2>1, <2>2 DEF FrameSet
  <2> QED BY <2>2, <2>3 DEF Waits
<1> QED BY <1>1, <1>2, <1>3

\* The top of a quiet stack.
LEMMA QuietTop ==
    ASSUME StackInv, QuietInv, stack # <<>>
    PROVE  /\ Top \in FrameSet /\ Tail(stack) \in Seq(FrameSet)
           /\ Quiet(Cons(Top, Tail(stack)), Drained, Idle)
           /\ Waits(Top) => Drained
           /\ Late(Top) => Idle
           /\ Tail(stack) # <<>> => /\ Over(Top, Head(Tail(stack)))
                                    /\ (Late(Head(Tail(stack))) => Drained /\ Idle)
<1>1. PICK f, s : /\ f = Top /\ s = Tail(stack) /\ f \in FrameSet /\ s \in Seq(FrameSet)
                  /\ stack = Cons(f, s)
  BY TopSplit
<1>2. Quiet(Cons(f, s), Drained, Idle)
  BY <1>1 DEF QuietInv
<1>3. /\ Waits(f) => Drained
      /\ Late(f) => Idle
      /\ s # <<>> => Over(f, Head(s)) /\ (Late(Head(s)) => Drained /\ Idle)
  <2>1. f \in FrameSet /\ s \in Seq(FrameSet)
    BY <1>1
  <2> QED BY <1>2, <2>1, QuietCons
<1> QED BY <1>1, <1>2, <1>3

LEMMA LateWaits ==
    ASSUME NEW f, Late(f)
    PROVE  Waits(f)
BY DEF Late, Waits

LEMMA CalmTop ==
    ASSUME StackInv, QuietInv, stack # <<>>, Top.kind \in Calm
    PROVE  /\ ~Waits(Top) /\ ~Late(Top)
           /\ Tail(stack) # <<>> => ~Waits(Head(Tail(stack))) /\ ~Late(Head(Tail(stack)))
<1>1. ~Waits(Top)
  BY DEF Waits, Calm, ProgramKinds
<1>2. Top.kind \notin {"checkpoint", "report"}
  BY DEF Calm, ProgramKinds
<1>3. Tail(stack) # <<>> => Over(Top, Head(Tail(stack)))
  BY QuietTop
<1>4. Tail(stack) # <<>> => ~Waits(Head(Tail(stack)))
  BY <1>2, <1>3 DEF Over
<1> QED BY <1>1, <1>4, LateWaits

\* While compiled code is on top the queues and the host may do what they like.
LEMMA CalmSame ==
    ASSUME StackInv, QuietInv, stack = <<>> \/ Top.kind \in Calm, stack' = stack
    PROVE  Quiet(stack', Drained', Idle')
<1>1. CASE stack = <<>>
  BY <1>1 DEF QuietInv, Quiet
<1>2. CASE stack # <<>> /\ Top.kind \in Calm
  <2>1. PICK f, s : /\ f = Top /\ s = Tail(stack) /\ f \in FrameSet /\ s \in Seq(FrameSet)
                    /\ stack = Cons(f, s)
    BY <1>2, TopSplit
  <2>2. /\ ~Waits(f) /\ ~Late(f) /\ Quiet(Cons(f, s), Drained, Idle)
        /\ s # <<>> => Over(f, Head(s)) /\ ~Late(Head(s))
    BY <1>2, <2>1, CalmTop, QuietTop
  <2>3. Quiet(Cons(f, s), Drained', Idle')
    BY <2>1, <2>2, QuietReplace
  <2> QED BY <2>1, <2>3
<1> QED BY <1>1, <1>2

LEMMA CalmPush ==
    ASSUME StackInv, QuietInv, stack = <<>> \/ Top.kind \in Calm,
           NEW f \in FrameSet, ~Waits(f), Push(f)
    PROVE  Quiet(stack', Drained', Idle')
<1>1. stack' = Cons(f, stack) /\ stack \in Seq(FrameSet) /\ Quiet(stack, Drained, Idle)
  BY FlagTypes DEF Push, Cons, QuietInv
<1>2. ASSUME stack # <<>>
      PROVE  /\ Over(f, Head(stack)) /\ ~Late(Head(stack))
             /\ Tail(stack) # <<>> => ~Late(Head(Tail(stack)))
  BY <1>2, CalmTop DEF Over, Top
<1>3. Quiet(Cons(f, stack), Drained', Idle')
  BY <1>1, <1>2, QuietPush
<1> QED BY <1>1, <1>3

LEMMA CalmPop ==
    ASSUME StackInv, QuietInv, stack # <<>>, Top.kind \in Calm, Pop
    PROVE  Quiet(stack', Drained', Idle')
<1>1. PICK f, s : /\ f = Top /\ s = Tail(stack) /\ f \in FrameSet /\ s \in Seq(FrameSet)
                  /\ stack = Cons(f, s)
  BY TopSplit
<1>2. /\ Quiet(Cons(f, s), Drained, Idle)
      /\ s # <<>> => ~Waits(Head(s)) /\ ~Late(Head(s))
  BY <1>1, CalmTop, QuietTop
<1>3. Quiet(s, Drained', Idle')
  BY <1>1, <1>2, QuietPop
<1> QED BY <1>1, <1>3 DEF Pop

LEMMA CalmReplace ==
    ASSUME StackInv, QuietInv, stack # <<>>, Top.kind \in Calm,
           NEW g \in FrameSet, ~Waits(g), Replace(g)
    PROVE  Quiet(stack', Drained', Idle')
<1>1. PICK f, s : /\ f = Top /\ s = Tail(stack) /\ f \in FrameSet /\ s \in Seq(FrameSet)
                  /\ stack = Cons(f, s)
  BY TopSplit
<1>2. /\ Quiet(Cons(f, s), Drained, Idle)
      /\ s # <<>> => ~Waits(Head(s)) /\ ~Late(Head(s))
  BY <1>1, CalmTop, QuietTop
<1>3. ~Late(g) /\ (s # <<>> => Over(g, Head(s)))
  BY <1>2, LateWaits DEF Over
<1>4. Quiet(Cons(g, s), Drained', Idle')
  BY <1>1, <1>2, <1>3, QuietReplace
<1> QED BY <1>1, <1>4 DEF Replace, Cons

\* The runtime's own frames go on or return with the queues as they are.
LEMMA LoopReplace ==
    ASSUME StackInv, QuietInv, stack # <<>>, UNCHANGED <<micro, ticks, tasks>>,
           NEW g \in FrameSet, Top.kind \in {"checkpoint", "report"},
           g.kind \in {"checkpoint", "report"}, Waits(g) => Drained, Replace(g)
    PROVE  Quiet(stack', Drained', Idle')
<1>1. PICK f, s : /\ f = Top /\ s = Tail(stack) /\ f \in FrameSet /\ s \in Seq(FrameSet)
                  /\ stack = Cons(f, s)
  BY TopSplit
<1>2. /\ Quiet(Cons(f, s), Drained, Idle)
      /\ s # <<>> => Over(f, Head(s)) /\ (Late(Head(s)) => Drained /\ Idle)
  BY <1>1, QuietTop
<1>3. (Drained' <=> Drained) /\ (Idle' <=> Idle)
  BY DEF Drained, Idle
<1>4. ~Late(g) /\ (s # <<>> => Over(g, Head(s)))
  BY <1>2 DEF Late, Over
<1>5. Quiet(Cons(g, s), Drained', Idle')
  BY <1>1, <1>2, <1>3, <1>4, QuietReplace
<1> QED BY <1>1, <1>5 DEF Replace, Cons

LEMMA LoopPop ==
    ASSUME StackInv, QuietInv, stack # <<>>, UNCHANGED <<micro, ticks, tasks>>, Waits(Top), Pop
    PROVE  Quiet(stack', Drained', Idle')
<1>1. PICK f, s : /\ f = Top /\ s = Tail(stack) /\ f \in FrameSet /\ s \in Seq(FrameSet)
                  /\ stack = Cons(f, s)
  BY TopSplit
<1>2. /\ Quiet(Cons(f, s), Drained, Idle) /\ Drained
      /\ s # <<>> => (Late(Head(s)) => Drained /\ Idle)
  BY <1>1, QuietTop
<1>3. (Drained' <=> Drained) /\ (Idle' <=> Idle)
  BY DEF Drained, Idle
<1>4. Quiet(s, Drained', Idle')
  BY <1>1, <1>2, <1>3, QuietPop
<1> QED BY <1>1, <1>4 DEF Pop

\* A checkpoint in its loops, with something to run.
LEMMA DrainingStep ==
    ASSUME StackInv, QuietInv, stack # <<>>, ~Waits(Top), ~Drained,
           stack' = stack \/ Push(Frame("job"))
    PROVE  Quiet(stack', Drained', Idle')
<1>1. PICK f, s : /\ f = Top /\ s = Tail(stack) /\ f \in FrameSet /\ s \in Seq(FrameSet)
                  /\ stack = Cons(f, s)
  BY TopSplit
<1>2. /\ Quiet(Cons(f, s), Drained, Idle) /\ ~Waits(f) /\ ~Late(f)
      /\ s # <<>> => Over(f, Head(s)) /\ ~Late(Head(s))
  BY <1>1, QuietTop, LateWaits
<1>3. CASE stack' = stack
  <2>1. Quiet(Cons(f, s), Drained', Idle')
    BY <1>1, <1>2, QuietReplace
  <2> QED BY <1>1, <1>3, <2>1
<1>4. CASE Push(Frame("job"))
  <2>1. PICK g : g = Frame("job") /\ g \in FrameSet /\ ~Waits(g)
    BY FreshFrames DEF StackKinds, ProgramKinds
  <2>2. stack' = Cons(g, stack) /\ stack \in Seq(FrameSet) /\ Quiet(stack, Drained, Idle)
    BY <1>4, <2>1, FlagTypes DEF Push, Cons, QuietInv
  <2>3. /\ Over(g, Head(stack)) /\ ~Late(Head(stack))
        /\ Tail(stack) # <<>> => ~Late(Head(Tail(stack)))
    BY <1>1, <1>2 DEF Over, Top
  <2>4. Quiet(Cons(g, stack), Drained', Idle')
    BY <2>1, <2>2, <2>3, QuietPush
  <2> QED BY <2>2, <2>4
<1> QED BY <1>3, <1>4

\* What a join calls, with the join at n.
LEMMA QuietJoin ==
    ASSUME StackInv, QuietInv, stack # <<>>, Top.kind = "join", NEW n \in Nat,
           NEW f \in FrameSet, ~Waits(f), n > 0 => f.kind = "checkpoint",
           n = 2 => Drained' /\ Idle'
    PROVE  Quiet(Cons(f, Cons([Top EXCEPT !.at = n], Tail(stack))), Drained', Idle')
<1>1. PICK j, s : /\ j = Top /\ s = Tail(stack) /\ j \in FrameSet /\ s \in Seq(FrameSet)
                  /\ stack = Cons(j, s) /\ Fits(j, s, made)
  BY TopSplit
<1>2. /\ Quiet(Cons(j, s), Drained, Idle) /\ j.kind = "join"
      /\ s # <<>> => Over(j, Head(s))
  BY <1>1, QuietTop
<1>3. PICK g : g = [j EXCEPT !.at = n] /\ g \in FrameSet /\ g.kind = "join" /\ g.at = n
  <2>1. [j EXCEPT !.at = n] \in FrameSet /\ [j EXCEPT !.at = n].kind = "join"
          /\ [j EXCEPT !.at = n].at = n
    BY <1>1, <1>2 DEF FrameSet
  <2> QED BY <2>1
<1>4. NoneLate(s)
  <2>1. ~Has(s, "join")
    BY <1>1, <1>2 DEF Fits, Forbids, StackKinds
  <2> QED BY <2>1 DEF Has, NoneLate, Late
<1>5. Adjacent(s) /\ (s # <<>> => Over(g, Head(s)))
  BY <1>1, <1>2, <1>3, QuietCons DEF Over
<1>6. PICK b : b = Cons(g, s) /\ b \in Seq(FrameSet) /\ b # <<>> /\ Head(b) = g /\ Tail(b) = s
  <2>1. g \in FrameSet /\ s \in Seq(FrameSet)
    BY <1>1, <1>3
  <2>2. /\ Cons(g, s) \in Seq(FrameSet) /\ Cons(g, s) # <<>> /\ Head(Cons(g, s)) = g
        /\ Tail(Cons(g, s)) = s
    BY <2>1, ConsShape
  <2> QED BY <2>2
<1>7. Adjacent(b)
  BY <1>1, <1>3, <1>5, <1>6, AdjacentCons
<1>8. Over(f, g) /\ (Late(g) => Drained' /\ Idle') /\ ~Late(f)
  BY <1>3, LateWaits DEF Over, Waits, Late
<1>9. Quiet(Cons(f, b), Drained', Idle')
  BY <1>4, <1>6, <1>7, <1>8, QuietCons
<1> QED BY <1>1, <1>3, <1>6, <1>9

\* The release that is not to happen is not paid for by another call.
LEMMA FuelKept ==
    ASSUME RestInv, fuel["release"] = 0, [CheckpointNext]_checkpointVars
    PROVE  fuel'["release"] = 0
<1>1. ASSUME NEW call \in Calls, Spend(call) PROVE fuel'["release"] = 0
  <2>1. /\ fuel \in [Calls -> Nat] /\ fuel[call] > 0
        /\ fuel' = [fuel EXCEPT ![call] = fuel[call] - 1] /\ "release" \in Calls
    BY <1>1 DEF RestInv, Spend, Calls
  <2>2. call # "release"
    BY <2>1
  <2> QED BY <2>1, <2>2
<1>2. (\E call \in Calls : Spend(call)) \/ UNCHANGED fuel
  <2>1. CASE EnqueueTick \/ PostTask \/ Call \/ TurnLoop \/ Enter \/ CallbackEnter
               \/ ExplicitCheckpoint \/ ForeignRelease \/ (\E p \in Promise : Join(p))
    BY <2>1 DEF EnqueueTick, PostTask, Call, TurnLoop, Enter, CallbackEnter, ExplicitCheckpoint,
                ForeignRelease, Join, Calls
  <2>2. CASE ProgramStep \/ UNCHANGED checkpointVars
    BY <2>2 DEF ProgramStep, control, checkpointVars
  <2>3. CASE Runtime
    BY <2>3 DEF Runtime, ModuleEnd, Leave, CallbackLeave, Return, RunTask, RunTick, Drain, DrainEnd,
                FinishCheckpoint, ReportCandidate, ReportEnd, JoinStep
  <2> QED BY <2>1, <2>2, <2>3 DEF CheckpointNext
<1> QED BY <1>1, <1>2

LEMMA TopContinues ==
    ASSUME StackInv, stack # <<>>, NEW n \in Nat
    PROVE  /\ [Top EXCEPT !.at = n] \in FrameSet
           /\ [Top EXCEPT !.at = n].kind = Top.kind
           /\ [Top EXCEPT !.at = n].at = n
<1>1. Top \in FrameSet
  BY TopSplit
<1> QED BY <1>1 DEF FrameSet

LEMMA QuietCalm ==
    ASSUME StackInv, QuietInv,
           ProgramStep \/ EnqueueTick \/ PostTask \/ Call \/ TurnLoop \/ Enter
              \/ CallbackEnter \/ ModuleEnd \/ Leave \/ CallbackLeave \/ Return
              \/ ExplicitCheckpoint \/ (\E p \in Promise : Join(p))
    PROVE  Quiet(stack', Drained', Idle')
<1>1. stack = <<>> \/ Top.kind \in Calm
  BY DEF ProgramStep, EnqueueTick, PostTask, Call, TurnLoop, Enter, CallbackEnter, ModuleEnd, Leave,
         CallbackLeave, Return, ExplicitCheckpoint, Join, InProgram, AtBase, TopIs, Calm, ProgramKinds
<1>2. checkpointActive \in BOOLEAN
  BY FlagTypes
<1>3. CASE ProgramStep \/ EnqueueTick \/ PostTask
  <2>1. stack' = stack
    BY <1>3 DEF ProgramStep, EnqueueTick, PostTask, control
  <2> QED BY <1>1, <2>1, CalmSame
<1>4. ASSUME NEW kind \in StackKinds \ {"report"}, Push(Frame(kind))
      PROVE  Quiet(stack', Drained', Idle')
  BY <1>1, <1>4, FreshFrames, CalmPush
<1>5. CASE Call \/ TurnLoop \/ Enter \/ CallbackEnter
  BY <1>4, <1>5 DEF Call, TurnLoop, Enter, CallbackEnter, StackKinds, ProgramKinds
<1>6. ASSUME NEW why \in {"leave", "callback"}, stack # <<>>, BeginCheckpoint(why)
      PROVE  Quiet(stack', Drained', Idle')
  <2>1. CheckpointFrame(why) \in FrameSet /\ ~Waits(CheckpointFrame(why))
    BY <1>2, FreshFrames DEF Whys
  <2> QED BY <1>1, <1>6, <2>1, CalmReplace DEF BeginCheckpoint
<1>7. ASSUME stack # <<>>, Pop PROVE Quiet(stack', Drained', Idle')
  BY <1>1, <1>7, CalmPop
<1>8. CASE ModuleEnd \/ Leave \/ CallbackLeave \/ Return
  <2>1. stack # <<>>
    BY <1>8 DEF ModuleEnd, Leave, CallbackLeave, Return, TopIs
  <2>2. Pop \/ BeginCheckpoint("leave") \/ BeginCheckpoint("callback")
    BY <1>8 DEF ModuleEnd, Leave, CallbackLeave, Return
  <2> QED BY <1>6, <1>7, <2>1, <2>2
<1>9. CASE ExplicitCheckpoint
  <2>1. CheckpointFrame("explicit") \in FrameSet /\ ~Waits(CheckpointFrame("explicit"))
    BY <1>2, FreshFrames DEF Whys
  <2> QED BY <1>1, <1>9, <2>1, CalmPush DEF ExplicitCheckpoint
<1>10. ASSUME NEW p \in Promise, Join(p) PROVE Quiet(stack', Drained', Idle')
  <2>1. stack' = stack \/ Push([Frame("join") EXCEPT !.of = p])
    BY <1>10 DEF Join
  <2>2. /\ [Frame("join") EXCEPT !.of = p] \in FrameSet
        /\ ~Waits([Frame("join") EXCEPT !.of = p])
    BY FreshFrames
  <2> QED BY <1>1, <2>1, <2>2, CalmSame, CalmPush
<1> QED BY <1>3, <1>5, <1>8, <1>9, <1>10

LEMMA QuietRunTask ==
    ASSUME StackInv, QuietInv, RunTask
    PROVE  Quiet(stack', Drained', Idle')
<1>1. stack = <<>> \/ Top.kind \in Calm
  BY DEF RunTask, AtLoop, AtBase, TopIs, Calm
<1>2. checkpointActive \in BOOLEAN
  BY FlagTypes
<1>3. Push(Frame("task")) \/ Push(CheckpointFrame("leave"))
  BY DEF RunTask, TaskRun, Push
<1>4. /\ Frame("task") \in FrameSet /\ ~Waits(Frame("task"))
      /\ CheckpointFrame("leave") \in FrameSet /\ ~Waits(CheckpointFrame("leave"))
  BY <1>2, FreshFrames DEF Whys, StackKinds, ProgramKinds
<1> QED BY <1>1, <1>3, <1>4, CalmPush

LEMMA QuietJoinStep ==
    ASSUME StackInv, QuietInv, JoinStep
    PROVE  Quiet(stack', Drained', Idle')
<1>1. /\ stack # <<>> /\ Top.kind = "join" /\ UNCHANGED <<micro, ticks>>
  BY DEF JoinStep, TopIs, vars
<1>2. checkpointActive \in BOOLEAN
  BY FlagTypes
<1>3. /\ Frame("task") \in FrameSet /\ ~Waits(Frame("task"))
      /\ \A why \in {"leave", "join"} :
            /\ CheckpointFrame(why) \in FrameSet /\ ~Waits(CheckpointFrame(why))
            /\ CheckpointFrame(why).kind = "checkpoint"
  BY <1>2, FreshFrames DEF Whys, StackKinds, ProgramKinds
<1>4. ASSUME NEW n \in Nat, JoinCheckpoint(n), n = 2 => Drained' /\ Idle'
      PROVE  Quiet(stack', Drained', Idle')
  <2>1. PICK f, g : f = CheckpointFrame("join") /\ g = [Top EXCEPT !.at = n]
    OBVIOUS
  <2>2. stack' = <<f, g>> \o Tail(stack) /\ f \in FrameSet /\ g \in FrameSet
          /\ Tail(stack) \in Seq(FrameSet)
    BY <1>1, <1>3, <1>4, <2>1, TopContinues, TopSplit DEF JoinCheckpoint
  <2>3. stack' = Cons(f, Cons(g, Tail(stack)))
    <3>1. TwoOn(stack', f, g, Tail(stack))
      BY <2>2 DEF TwoOn
    <3>2. f \in FrameSet /\ g \in FrameSet /\ Tail(stack) \in Seq(FrameSet)
      BY <2>2
    <3> QED BY <3>1, <3>2, TwoOnTop
  <2>4. Quiet(Cons(f, Cons(g, Tail(stack))), Drained', Idle')
    BY <1>1, <1>3, <1>4, <2>1, QuietJoin
  <2> QED BY <2>3, <2>4
<1>5. CASE JoinPump
  <2>1. \/ stack' = Cons(Frame("task"), Cons([Top EXCEPT !.at = 0], Tail(stack)))
        \/ stack' = Cons(CheckpointFrame("leave"), Cons([Top EXCEPT !.at = 0], Tail(stack)))
    BY <1>5 DEF JoinPump, TaskRun, Cons
  <2>2. PICK n \in Nat : n = 0 /\ ~(n > 0) /\ n # 2
    OBVIOUS
  <2>3. Quiet(Cons(Frame("task"), Cons([Top EXCEPT !.at = n], Tail(stack))), Drained', Idle')
    BY <1>1, <1>3, <2>2, QuietJoin
  <2>4. Quiet(Cons(CheckpointFrame("leave"), Cons([Top EXCEPT !.at = n], Tail(stack))), Drained', Idle')
    BY <1>1, <1>3, <2>2, QuietJoin
  <2> QED BY <2>1, <2>2, <2>3, <2>4
<1>6. CASE JoinReturn /\ Top.at > 0
  <2>1. Waits(Top)
    BY <1>1, <1>6 DEF Waits
  <2> QED BY <1>1, <1>6, <2>1, LoopPop DEF JoinReturn
<1>7. CASE Top.at = 0 /\ JoinCheckpoint(1)
  BY <1>4, <1>7
<1>8. CASE Top.at = 1 /\ tasks = <<>> /\ JoinCheckpoint(2)
  <2>1. Waits(Top)
    BY <1>1, <1>8 DEF Waits
  <2>2. Drained
    BY <1>1, <2>1, QuietTop
  <2>3. Drained' /\ Idle'
    BY <1>1, <1>8, <2>2 DEF Drained, Idle, JoinCheckpoint
  <2> QED BY <1>4, <1>8, <2>3
<1> QED BY <1>5, <1>6, <1>7, <1>8 DEF JoinStep

LEMMA QuietKept ==
    ASSUME StackInv, RestInv, QuietInv, [CheckpointNext]_checkpointVars
    PROVE  QuietInv'
<1>1. fuel'["release"] = 0
  BY FuelKept DEF QuietInv
<1>2. ASSUME Quiet(stack', Drained', Idle') PROVE QuietInv'
  BY <1>1, <1>2 DEF QuietInv
<1>3. CASE RunTick
  <2>1. /\ stack # <<>> /\ Top.kind = "checkpoint" /\ Top.at = 0 /\ UNCHANGED <<micro, tasks>>
    BY <1>3 DEF RunTick, TopIs, vars
  <2>2. ~Waits(Top)
    BY <2>1 DEF Waits
  <2>3. CASE ticks > 0
    <3>1. ~Drained /\ Push(Frame("job"))
      BY <1>3, <2>3 DEF RunTick, Drained
    <3> QED BY <1>2, <2>1, <2>2, <3>1, DrainingStep
  <2>4. CASE ~(ticks > 0)
    <3>1. PICK g : g = [Top EXCEPT !.at = 1] /\ g \in FrameSet /\ g.kind = "checkpoint" /\ g.at = 1
      BY <2>1, TopContinues
    <3>2. Replace(g) /\ UNCHANGED ticks
      BY <1>3, <2>4, <3>1 DEF RunTick
    <3>3. ~Waits(g)
      BY <3>1 DEF Waits
    <3> QED BY <1>2, <2>1, <3>1, <3>2, <3>3, LoopReplace
  <2> QED BY <2>3, <2>4
<1>4. CASE Drain
  <2>1. /\ stack # <<>> /\ Top.kind = "checkpoint" /\ Top.at = 1 /\ ~Drained
        /\ stack' = stack \/ Push(Frame("job"))
    BY <1>4 DEF Drain, TopIs, Drained
  <2>2. ~Waits(Top)
    BY <2>1 DEF Waits
  <2> QED BY <1>2, <2>1, <2>2, DrainingStep
<1>5. CASE DrainEnd
  <2>1. /\ stack # <<>> /\ Top.kind = "checkpoint" /\ UNCHANGED <<micro, ticks, tasks>>
        /\ micro = <<>> /\ Replace([Top EXCEPT !.at = AfterDrain]) /\ AfterDrain \in Nat
    BY <1>5 DEF DrainEnd, TopIs, vars, AfterDrain
  <2>2. PICK g : /\ g = [Top EXCEPT !.at = AfterDrain] /\ g \in FrameSet
                 /\ g.kind = "checkpoint" /\ g.at = AfterDrain
    BY <2>1, TopContinues
  <2>3. Waits(g) => Drained
    BY <2>1, <2>2 DEF Waits, AfterDrain, Drained
  <2> QED BY <1>2, <2>1, <2>2, <2>3, LoopReplace
<1>6. CASE FinishCheckpoint
  <2>1. /\ stack # <<>> /\ Top.kind = "checkpoint" /\ Top.at = 2
        /\ UNCHANGED <<micro, ticks, tasks>> /\ (Pop \/ Replace(Frame("report")))
    BY <1>6 DEF FinishCheckpoint, TopIs, vars
  <2>2. Waits(Top)
    BY <2>1 DEF Waits
  <2>3. Drained
    BY <2>1, <2>2, QuietTop
  <2>4. Frame("report") \in FrameSet /\ Frame("report").kind = "report"
    BY FrameShape DEF StackKinds
  <2> QED BY <1>2, <2>1, <2>2, <2>3, <2>4, LoopPop, LoopReplace
<1>7. CASE ReportCandidate
  <2>1. /\ stack # <<>> /\ Top.kind = "report" /\ UNCHANGED <<micro, ticks, tasks>>
    BY <1>7 DEF ReportCandidate, TopIs, vars
  <2>2. Waits(Top) /\ Top \in FrameSet /\ Top.at \in Nat
    BY <2>1, TopSplit DEF Waits, FrameSet
  <2>3. \/ stack' = stack \/ stack' = <<>>
        \/ Replace([Top EXCEPT !.at = Top.at + 1])
    BY <1>7, <2>2 DEF ReportCandidate, Uncaught
  <2>4. Drained
    BY <2>1, <2>2, QuietTop
  <2>5. CASE stack' = stack
    <3>1. (Drained' <=> Drained) /\ (Idle' <=> Idle)
      BY <2>1 DEF Drained, Idle
    <3> QED BY <1>2, <2>5, <3>1 DEF QuietInv, Quiet
  <2>6. CASE stack' = <<>>
    BY <1>2, <2>6 DEF Quiet, Adjacent
  <2>7. CASE Replace([Top EXCEPT !.at = Top.at + 1])
    <3>1. Top.at + 1 \in Nat
      BY <2>2
    <3>2. PICK g : g = [Top EXCEPT !.at = Top.at + 1] /\ g \in FrameSet /\ g.kind = "report"
      BY <2>1, <3>1, TopContinues
    <3> QED BY <1>2, <2>1, <2>4, <2>7, <3>2, LoopReplace
  <2> QED BY <2>3, <2>5, <2>6, <2>7
<1>8. CASE ReportEnd
  <2>1. /\ stack # <<>> /\ Top.kind = "report" /\ UNCHANGED <<micro, ticks, tasks>> /\ Pop
    BY <1>8 DEF ReportEnd, TopIs
  <2>2. Waits(Top)
    BY <2>1 DEF Waits
  <2> QED BY <1>2, <2>1, <2>2, LoopPop
<1>9. CASE ForeignRelease
  BY <1>9 DEF ForeignRelease, Spend, QuietInv, RestInv
<1>10. CASE UNCHANGED checkpointVars
  <2>1. UNCHANGED <<stack, micro, ticks, tasks>>
    BY <1>10 DEF checkpointVars, control, vars
  <2>2. (Drained' <=> Drained) /\ (Idle' <=> Idle)
    BY <2>1 DEF Drained, Idle
  <2> QED BY <1>2, <2>1, <2>2 DEF QuietInv, Quiet
<1> QED BY <1>2, <1>3, <1>4, <1>5, <1>6, <1>7, <1>8, <1>9, <1>10, QuietCalm, QuietRunTask,
           QuietJoinStep DEF CheckpointNext, Runtime

LEMMA QuietHolds ==
    ASSUME Fuel["release"] = 0
    PROVE  CheckpointSpec => [](CheckpointInv /\ QuietInv)
<1>1. CheckpointInit => QuietInv
  <2> SUFFICES ASSUME CheckpointInit PROVE QuietInv
    OBVIOUS
  <2>1. fuel["release"] = 0
    BY DEF CheckpointInit
  <2>2. PICK f : f = Frame("module") /\ f \in FrameSet /\ ~Waits(f)
    BY FreshFrames DEF StackKinds, ProgramKinds
  <2>3. <<>> \in Seq(FrameSet) /\ Quiet(<<>>, Drained, Idle)
    BY DEF Quiet, Adjacent
  <2>4. Quiet(Cons(f, <<>>), Drained, Idle)
    BY <2>2, <2>3, QuietPush
  <2>5. stack = Cons(f, <<>>)
    BY <2>2 DEF CheckpointInit, Cons
  <2> QED BY <2>1, <2>4, <2>5 DEF QuietInv
<1>2. CheckpointInv /\ QuietInv /\ [CheckpointNext]_checkpointVars => QuietInv'
  BY QuietKept DEF CheckpointInv
<1> QED BY <1>1, <1>2, CheckpointInvHolds, PTL DEF CheckpointSpec

\* Only a join's own return ends it.
LEMMA JoinEnds ==
    ASSUME CheckpointNext, TopIs("join"), joinActive, ~joinActive'
    PROVE  JoinStep /\ JoinReturn
<1>1. CASE JoinStep
  BY <1>1 DEF JoinStep, JoinCheckpoint, JoinPump
<1>2. CASE Runtime /\ ~JoinStep
  BY <1>2 DEF Runtime, ModuleEnd, Leave, CallbackLeave, Return, RunTask, RunTick, Drain, DrainEnd,
              FinishCheckpoint, ReportCandidate, ReportEnd
<1>3. CASE ProgramStep
  BY <1>3 DEF ProgramStep, control
<1>4. CASE EnqueueTick \/ PostTask \/ Call \/ TurnLoop \/ Enter \/ CallbackEnter
             \/ ExplicitCheckpoint \/ ForeignRelease \/ (\E p \in Promise : Join(p))
  BY <1>4 DEF EnqueueTick, PostTask, Call, TurnLoop, Enter, CallbackEnter, ExplicitCheckpoint,
              ForeignRelease, Join
<1> QED BY <1>1, <1>2, <1>3, <1>4 DEF CheckpointNext

\* A join answers with the promise's own settlement, or says "pending" with
\* nothing left that could settle it, where no foreign release enters compiled
\* code while the join's last checkpoint collects (nts_promise_join).
THEOREM JoinsAnswerRight ==
    ASSUME Fuel["release"] = 0
    PROVE  CheckpointSpec => JoinAnswers
<1>1. ASSUME CheckpointInv, QuietInv, CheckpointNext, TopIs("join"), joinActive, ~joinActive'
      PROVE  /\ joinResult' = state[Top.of]
             /\ joinResult' = "pending" => tasks = <<>> /\ micro = <<>> /\ ticks = 0
  <2>1. JoinStep /\ JoinReturn
    BY <1>1, JoinEnds
  <2>2. joinResult' = state[Top.of] /\ stack # <<>> /\ Top.kind = "join"
    BY <1>1, <2>1 DEF JoinReturn, TopIs
  <2>3. (Top.at = 1 /\ ~Pending(Top.of)) \/ Top.at = 2
    BY <1>1, <2>1 DEF JoinStep, JoinReturn, JoinCheckpoint, JoinPump
  <2>4. Top.at = 2 => Drained /\ Idle
    BY <1>1, <2>2, QuietTop DEF Waits, Late, CheckpointInv
  <2> QED BY <2>2, <2>3, <2>4 DEF Pending, Drained, Idle
<1>2. CheckpointInv /\ QuietInv /\ [CheckpointNext]_checkpointVars =>
        [Frames({"join"}) # {} /\ TopIs("join") /\ joinActive /\ ~joinActive' =>
            /\ joinResult' = state[Top.of]
            /\ joinResult' = "pending" => tasks = <<>> /\ micro = <<>> /\ ticks = 0
        ]_checkpointVars
  BY <1>1
<1> QED BY <1>2, QuietHolds, PTL DEF CheckpointSpec, JoinAnswers

(***************************************************************************)
(* The report.                                                             *)
(***************************************************************************)
LEMMA ExitedStops ==
    ASSUME CheckpointNext
    PROVE  ~exited
<1>1. CASE Runtime
  BY <1>1 DEF Runtime, ModuleEnd, Leave, CallbackLeave, Return, RunTask, RunTick, Drain, DrainEnd,
              FinishCheckpoint, ReportCandidate, ReportEnd, JoinStep, TopIs, AtLoop, AtBase
<1>2. CASE ~Runtime
  BY <1>2 DEF CheckpointNext, ProgramStep, EnqueueTick, PostTask, Call, TurnLoop, Enter,
              CallbackEnter, ExplicitCheckpoint, ForeignRelease, Join, TopIs, InProgram, AtBase
<1> QED BY <1>1, <1>2

LEMMA ProgramKeepsHandled ==
    ASSUME Inv, Program
    PROVE  \A o \in Promise : handled[o] => handled'[o]
<1>1. DOMAIN handled = Promise
  BY DEF Inv, TypeOK
<1>2. ASSUME NEW p, NEW q, NEW job, Subscribe(q, p, job)
      PROVE  \A o \in Promise : handled[o] => handled'[o]
  <2>1. handled' = [handled EXCEPT ![p] = TRUE]
    BY <1>2 DEF Subscribe
  <2> QED BY <1>1, <2>1
<1>3. ASSUME NEW p, Await(p) PROVE \A o \in Promise : handled[o] => handled'[o]
  <2>1. Subscribe(micro, p, UserJob(NextJob))
    BY <1>3 DEF Await
  <2> QED BY <1>2, <2>1
<1>4. ASSUME NEW p, FrameReturn(p) PROVE UNCHANGED handled
  BY <1>4 DEF FrameReturn, SettleNow, Adopt
<1>5. ASSUME NEW p, NEW pair, Resolve(p, pair) PROVE UNCHANGED handled
  BY <1>5 DEF Resolve, SettleNow, Adopt
<1>6. ASSUME NEW p, NEW pair, ResolveAborts(p, pair) PROVE UNCHANGED handled
  BY <1>6 DEF ResolveAborts, promiseVars
<1>7. ASSUME NEW p, NEW elements, NEW all, MakeCombinator(p, elements, all)
      PROVE  \A o \in Promise : handled[o] => handled'[o]
  <2>1. handled' = [o \in Promise |->
                      handled[o] \/ \E i \in 1 .. Len(elements) : elements[i] = o]
    BY <1>7 DEF MakeCombinator
  <2> QED BY <2>1
<1>8. CASE EnqueueJob
  BY <1>8 DEF EnqueueJob, promiseVars
<1> QED BY <1>3, <1>4, <1>5, <1>6, <1>7, <1>8 DEF Program

LEMMA JobKeepsHandled ==
    ASSUME Inv, NEW q, NEW job, RunJob(q, job)
    PROVE  \A o \in Promise : handled[o] => handled'[o]
<1>1. DOMAIN handled = Promise
  BY DEF Inv, TypeOK
<1>2. \/ UNCHANGED handled
      \/ handled' = [handled EXCEPT ![job[3]] = TRUE]
  BY DEF RunJob, UserStep, ThenableStep, AdoptionBeginStep, AdoptionSettledStep, SlotStep,
         Subscribe, promiseVars
<1> QED BY <1>1, <1>2

LEMMA HandledKept ==
    ASSUME Inv, [CheckpointNext]_checkpointVars
    PROVE  \A o \in Promise : handled[o] => handled'[o]
<1>1. CASE ProgramStep
  BY <1>1, ProgramKeepsHandled DEF ProgramStep
<1>2. CASE Drain
  BY <1>2, JobKeepsHandled DEF Drain
<1>3. CASE ReportEnd
  BY <1>3 DEF ReportEnd, promiseVars
<1>4. ASSUME NEW p \in Promise, Join(p) PROVE \A o \in Promise : handled[o] => handled'[o]
  <2>1. handled' = [handled EXCEPT ![p] = TRUE] /\ DOMAIN handled = Promise
    BY <1>4 DEF Join, JoinMarks, Inv, TypeOK
  <2> QED BY <2>1
<1>5. CASE Still \/ UNCHANGED checkpointVars
  <2>1. UNCHANGED vars
    BY <1>5, StillPromises DEF checkpointVars
  <2> QED BY <2>1 DEF vars, promiseVars
<1> QED BY <1>1, <1>2, <1>3, <1>4, <1>5, NextCases

\* Without a landing the first report is the last thing that happens.
ReportInv ==
    /\ reports # <<>> => exited
    /\ ReportedWereUnobserved
    /\ \A p \in joins : handled[p]

LEMMA ReportKept ==
    ASSUME ~Landing, CheckpointInv, ReportInv, [CheckpointNext]_checkpointVars
    PROVE  ReportInv'
<1>1. Inv /\ StackInv /\ RestInv
  BY DEF CheckpointInv
<1>2. CASE UNCHANGED checkpointVars
  <2>1. UNCHANGED <<reports, exited, joins, handled, owner, made, sources, adopted>>
    BY <1>2 DEF checkpointVars, control, log, vars, promiseVars, history
  <2>2. \A p : Observed(p)' <=> Observed(p)
    BY <2>1 DEF Observed
  <2> QED BY <2>1, <2>2 DEF ReportInv, ReportedWereUnobserved
<1>3. CASE CheckpointNext
  <2>1. ~exited /\ reports = <<>>
    BY <1>3, ExitedStops DEF ReportInv
  <2>2. \A p \in joins' : handled'[p]
    <3>1. joins \subseteq Promise
      BY <1>1 DEF RestInv, Inv, TypeOK
    <3>2. \A p \in joins : handled'[p]
      BY <1>1, <3>1, HandledKept DEF ReportInv
    <3>3. ASSUME NEW p \in Promise, Join(p) PROVE \A o \in joins' : handled'[o]
      <4>1. joins' = joins \cup {p} /\ handled' = [handled EXCEPT ![p] = TRUE]
              /\ DOMAIN handled = Promise
        BY <1>1, <3>3 DEF Join, JoinMarks, Inv, TypeOK
      <4> QED BY <3>2, <4>1
    <3>4. CASE ~(\E p \in Promise : Join(p))
      <4>1. UNCHANGED joins
        <5>1. CASE Runtime
          BY <5>1 DEF Runtime, ModuleEnd, Leave, CallbackLeave, Return, RunTask, RunTick, Drain,
                      DrainEnd, FinishCheckpoint, ReportCandidate, ReportEnd, JoinStep, log
        <5>2. CASE ~Runtime
          BY <1>3, <3>4, <5>2 DEF CheckpointNext, ProgramStep, EnqueueTick, PostTask, Call, TurnLoop,
               Enter, CallbackEnter, ExplicitCheckpoint, ForeignRelease, control, log
        <5> QED BY <5>1, <5>2
      <4> QED BY <3>2, <4>1
    <3> QED BY <3>3, <3>4
  <2>3. CASE reports' = reports
    BY <2>1, <2>2, <2>3 DEF ReportInv, ReportedWereUnobserved
  <2>4. CASE ReportCandidate /\ reports' # reports
    <3>1. PICK p : p = rejected[Top.at + 1]
      OBVIOUS
    <3>2. /\ Unhandled(p) /\ reports' = Append(reports, p) /\ exited' = TRUE
          /\ UNCHANGED <<joins, vars>>
      BY <2>4, <3>1 DEF ReportCandidate, Uncaught
    <3>3. p \in made
      <4>1. stack # <<>> /\ Top.at < Len(rejected)
        BY <2>4 DEF ReportCandidate, TopIs
      <4>2. Top.at \in Nat /\ rejected \in Seq(made)
        BY <1>1, <4>1, TopSplit DEF FrameSet, Inv, TypeOK
      <4> QED BY <3>1, <4>1, <4>2
    <3>4. ~Observed(p) /\ p \notin joins
      BY <1>1, <3>2, <3>3 DEF Inv, Noted, Unhandled, ReportInv
    <3>5. ~Observed(p)'
      BY <3>2, <3>4 DEF Observed, vars, promiseVars, history
    <3>6. \A i \in DOMAIN reports' : reports'[i] = p
      BY <2>1, <3>2
    <3>7. ReportedWereUnobserved'
      BY <3>2, <3>4, <3>5, <3>6 DEF ReportedWereUnobserved
    <3> QED BY <2>2, <3>2, <3>7 DEF ReportInv
  <2>5. reports' = reports \/ ReportCandidate
    <3>1. CASE Runtime
      BY <3>1 DEF Runtime, ModuleEnd, Leave, CallbackLeave, Return, RunTask, RunTick, Drain, DrainEnd,
                  FinishCheckpoint, ReportEnd, JoinStep, log
    <3>2. CASE ~Runtime
      BY <1>3, <3>2 DEF CheckpointNext, ProgramStep, EnqueueTick, PostTask, Call, TurnLoop, Enter,
           CallbackEnter, ExplicitCheckpoint, ForeignRelease, Join, control, log
    <3> QED BY <3>1, <3>2
  <2> QED BY <2>3, <2>4, <2>5
<1> QED BY <1>2, <1>3

\* Rejections are reported after the drain, and only ones that nobody
\* subscribed to or joined, where no landing goes on after a report and no
\* foreign release queues jobs between the drain and the report
\* (nts_process_ticks_and_rejections, nts_report_unhandled_rejections).
THEOREM ReportsAfterDrain ==
    ASSUME ~Landing, Fuel["release"] = 0
    PROVE  CheckpointSpec => []ReportsSound
<1>1. CheckpointInit => ReportInv
  BY DEF CheckpointInit, ReportInv, ReportedWereUnobserved
<1>2. CheckpointInv /\ ReportInv /\ [CheckpointNext]_checkpointVars => ReportInv'
  BY ReportKept
<1>3. CheckpointInv /\ QuietInv => DrainedBeforeReport
  BY QuietTop DEF CheckpointInv, DrainedBeforeReport, TopIs, Waits, Drained
<1>4. CheckpointInv /\ QuietInv /\ ReportInv => ReportsSound
  BY <1>3 DEF ReportInv, ReportsSound
<1> QED BY <1>1, <1>2, <1>4, QuietHolds, PTL DEF CheckpointSpec

(***************************************************************************)
(* The candidates' references.                                             *)
(***************************************************************************)
\* A promise is put on the list as it settles.
NewCandidate ==
    \/ UNCHANGED rejected
    \/ \E p \in Promise : Pending(p) /\ rejected' = Append(rejected, p)

LEMMA SettleCandidate ==
    ASSUME NEW q, NEW p \in Promise, NEW outcome, NEW payload, Settle(q, p, outcome, payload)
    PROVE  NewCandidate
BY DEF Settle, NewCandidate, RejectionCandidate

LEMMA JobCandidate ==
    ASSUME Inv, RunMicrotask
    PROVE  NewCandidate
<1>1. PICK q, job : Shift(q, job) /\ RunJob(q, job)
  BY DEF Shift, RunMicrotask
<1>2. job \in Job
  BY <1>1, ShiftHolds
<1>3. CASE job[1] = "user" /\ UserStep(q, job[2])
  BY <1>3 DEF UserStep, NewCandidate
<1>4. CASE job[1] = "thenable" /\ ThenableStep(q, job[2])
  BY <1>4 DEF ThenableStep, NewCandidate
<1>5. CASE job[1] = "begin" /\ AdoptionBeginStep(q, job[2], job[3])
  BY <1>5 DEF AdoptionBeginStep, Subscribe, NewCandidate
<1>6. CASE job[1] = "settled" /\ AdoptionSettledStep(q, job[2], job[3])
  <2>1. job[2] \in Promise
    BY <1>2, <1>6, JobForms
  <2> QED BY <1>6, <2>1, SettleCandidate DEF AdoptionSettledStep, Forward
<1>7. CASE job[1] = "slot" /\ SlotStep(q, job[2], job[3])
  <2>1. job[2] \in Promise
    BY <1>2, <1>7, JobForms
  <2>2. (\E outcome, payload : Settle(q, job[2], outcome, payload)) \/ UNCHANGED rejected
    BY <1>7 DEF SlotStep, CombinatorSettled, Forward
  <2>3. UNCHANGED rejected => NewCandidate
    BY DEF NewCandidate
  <2> QED BY <2>1, <2>2, <2>3, SettleCandidate
<1> QED BY <1>1, <1>3, <1>4, <1>5, <1>6, <1>7 DEF RunJob

LEMMA ProgramCandidate ==
    ASSUME Program
    PROVE  NewCandidate
<1>1. UNCHANGED rejected => NewCandidate
  BY DEF NewCandidate
<1>2. ASSUME NEW p \in Promise, NEW outcome, SettleNow(p, outcome) PROVE NewCandidate
  BY <1>2, SettleCandidate DEF SettleNow
<1>3. ASSUME NEW p, Await(p) PROVE UNCHANGED rejected
  BY <1>3 DEF Await, Subscribe
<1>4. ASSUME NEW p \in Promise, FrameReturn(p) PROVE NewCandidate
  BY <1>1, <1>2, <1>4 DEF FrameReturn, Adopt
<1>5. ASSUME NEW p \in Promise, NEW pair, Resolve(p, pair) PROVE NewCandidate
  BY <1>1, <1>2, <1>5 DEF Resolve, Adopt
<1>6. ASSUME NEW p, NEW pair, ResolveAborts(p, pair) PROVE UNCHANGED rejected
  BY <1>6 DEF ResolveAborts
<1>7. ASSUME NEW p, NEW elements, NEW all, MakeCombinator(p, elements, all) PROVE UNCHANGED rejected
  BY <1>7 DEF MakeCombinator
<1>8. EnqueueJob => UNCHANGED rejected
  BY DEF EnqueueJob
<1> QED BY <1>1, <1>3, <1>4, <1>5, <1>6, <1>7, <1>8 DEF Program

Reporting == stack # <<>> /\ Top.kind = "report"

\* What the report has given back is settled and, if still on the list, behind
\* the report's position.
ReleaseInv ==
    /\ \A p \in Promise : released[p] <= 1 /\ (released[p] # 0 => p \in made /\ ~Pending(p))
    /\ \A i \in DOMAIN rejected : released[rejected[i]] # 0 => Reporting /\ i <= Top.at

\* Away from the report the list only grows, by promises that settle.
LEMMA ReleaseAway ==
    ASSUME Inv, RestInv, ReleaseInv, ~Reporting, UNCHANGED released, NewCandidate,
           made \subseteq made', \A p \in made : ~Pending(p) => state'[p] = state[p]
    PROVE  ReleaseInv'
<1>1. /\ made \subseteq Promise /\ rejected \in Seq(made) /\ released \in [Promise -> Nat]
  BY DEF Inv, TypeOK, RestInv
<1>2. \A p \in Promise : /\ released'[p] <= 1
                         /\ released'[p] # 0 => p \in made' /\ ~Pending(p)'
  BY DEF ReleaseInv, Pending
<1>3. \A i \in DOMAIN rejected : released[rejected[i]] = 0
  BY DEF ReleaseInv
<1>4. ASSUME NEW i \in DOMAIN rejected' PROVE released[rejected'[i]] = 0
  <2>1. CASE UNCHANGED rejected
    BY <1>3, <2>1
  <2>2. ASSUME NEW p \in Promise, Pending(p), rejected' = Append(rejected, p)
        PROVE  released[rejected'[i]] = 0
    <3>1. released[p] = 0
      BY <2>2 DEF ReleaseInv
    <3>2. rejected'[i] = p \/ (i \in DOMAIN rejected /\ rejected'[i] = rejected[i])
      BY <1>1, <1>4, <2>2
    <3> QED BY <1>3, <3>1, <3>2
  <2> QED BY <2>1, <2>2 DEF NewCandidate
<1> QED BY <1>2, <1>4 DEF ReleaseInv

LEMMA ReleaseKept ==
    ASSUME ~Landing, CheckpointInv, QuietInv, ReleaseInv, [CheckpointNext]_checkpointVars
    PROVE  ReleaseInv'
<1>1. Inv /\ StackInv /\ RestInv /\ fuel["release"] = 0
  BY DEF CheckpointInv, QuietInv
<1>2. /\ made \subseteq Promise /\ rejected \in Seq(made) /\ released \in [Promise -> Nat]
  BY <1>1 DEF Inv, TypeOK, RestInv
<1>3. made \subseteq made'
  BY <1>1, PromisesKept
<1>4. ASSUME UNCHANGED <<released, rejected, state>>, ~Reporting PROVE ReleaseInv'
  BY <1>1, <1>3, <1>4, ReleaseAway DEF NewCandidate
<1>5. CASE ProgramStep
  <2>1. Program /\ UNCHANGED released
    BY <1>5 DEF ProgramStep, control, log
  <2>2. ~Reporting
    BY <1>5 DEF ProgramStep, InProgram, TopIs, ProgramKinds, Reporting
  <2>3. NewCandidate /\ \A p \in made : ~Pending(p) => state'[p] = state[p]
    BY <1>1, <2>1, ProgramCandidate, StepSettlesOnce DEF Next
  <2> QED BY <1>1, <1>3, <2>1, <2>2, <2>3, ReleaseAway
<1>6. CASE Drain
  <2>1. RunMicrotask /\ UNCHANGED released
    BY <1>6 DEF Drain, RunMicrotask, TopIs, log
  <2>2. ~Reporting
    BY <1>6 DEF Drain, TopIs, Reporting
  <2>3. NewCandidate /\ \A p \in made : ~Pending(p) => state'[p] = state[p]
    BY <1>1, <2>1, JobCandidate, StepSettlesOnce DEF Next
  <2> QED BY <1>1, <1>3, <2>1, <2>2, <2>3, ReleaseAway
<1>7. ASSUME NEW p \in Promise, Join(p) PROVE ReleaseInv'
  <2>1. UNCHANGED <<released, rejected, state>> /\ ~Reporting
    BY <1>7 DEF Join, InProgram, AtBase, TopIs, ProgramKinds, Reporting
  <2> QED BY <1>4, <2>1
<1>8. CASE ReportEnd
  <2>1. rejected' = <<>> /\ UNCHANGED <<released, state, made>>
    BY <1>8 DEF ReportEnd, promiseVars, log
  <2> QED BY <2>1 DEF ReleaseInv, Pending
<1>9. CASE ReportCandidate
  <2>1. PICK at : at = Top.at
    OBVIOUS
  <2>2. PICK p : p = rejected[at + 1]
    OBVIOUS
  <2>3. Reporting /\ at < Len(rejected) /\ UNCHANGED <<rejected, state, made>>
    BY <1>9, <2>1 DEF ReportCandidate, TopIs, Reporting, vars, promiseVars
  <2>4. at \in Nat /\ Top \in FrameSet
    BY <1>1, <2>1, <2>3, TopSplit DEF FrameSet, Reporting
  <2>5. at + 1 \in DOMAIN rejected /\ p \in made
    BY <1>2, <2>2, <2>3, <2>4
  <2>6. released[p] = 0
    <3>1. ~(at + 1 <= at)
      BY <2>4
    <3> QED BY <2>1, <2>2, <2>5, <3>1 DEF ReleaseInv
  <2>7. CASE Unhandled(p)
    <3>1. stack' = stack /\ UNCHANGED released
      BY <1>9, <2>1, <2>2, <2>7 DEF ReportCandidate, Uncaught
    <3> QED BY <2>3, <3>1 DEF ReleaseInv, Reporting, Pending, Top
  <2>8. CASE ~Unhandled(p)
    <3>1. PICK g : g = [Top EXCEPT !.at = at + 1] /\ g \in FrameSet /\ g.kind = "report" /\ g.at = at + 1
      <4>1. [Top EXCEPT !.at = at + 1] \in FrameSet /\ [Top EXCEPT !.at = at + 1].kind = "report"
              /\ [Top EXCEPT !.at = at + 1].at = at + 1
        BY <2>3, <2>4 DEF FrameSet, Reporting
      <4> QED BY <4>1
    <3>2. Replace(g) /\ released' = [released EXCEPT ![p] = released[p] + 1]
      BY <1>2, <1>9, <2>1, <2>2, <2>4, <2>8, <3>1 DEF ReportCandidate
    <3>3. stack' = Cons(g, Tail(stack)) /\ Tail(stack) \in Seq(FrameSet)
      BY <1>1, <2>3, <3>2, TopSplit DEF Replace, Cons, Reporting
    <3>4. stack' # <<>> /\ Head(stack') = g
      <4>1. g \in FrameSet
        BY <3>1
      <4>2. Tail(stack) \in Seq(FrameSet)
        BY <3>3
      <4>3. Cons(g, Tail(stack)) # <<>> /\ Head(Cons(g, Tail(stack))) = g
        BY <4>1, <4>2, ConsShape
      <4> QED BY <3>3, <4>3
    <3>5. /\ released'[p] = 1
          /\ \A o \in Promise \ {p} : released'[o] = released[o]
      BY <1>2, <2>5, <2>6, <3>2
    <3>6. ~Pending(p)
      BY <1>1, <2>2, <2>5 DEF Inv, Noted, Pending
    <3>7. \A o \in Promise : /\ released'[o] <= 1
                             /\ released'[o] # 0 => o \in made' /\ ~Pending(o)'
      BY <2>3, <2>5, <3>5, <3>6 DEF ReleaseInv, Pending
    <3>8. ASSUME NEW i \in DOMAIN rejected, released'[rejected[i]] # 0 PROVE i <= g.at
      <4>1. i \in Nat /\ rejected[i] \in Promise
        BY <1>2
      <4>2. CASE rejected[i] = p
        <5>1. i = at + 1
          BY <1>1, <2>2, <2>5, <4>2 DEF Inv, Noted
        <5> QED BY <3>1, <4>1, <5>1
      <4>3. CASE rejected[i] # p
        <5>1. i <= at
          BY <2>1, <3>5, <3>8, <4>1, <4>3 DEF ReleaseInv
        <5> QED BY <2>4, <3>1, <4>1, <5>1
      <4> QED BY <4>2, <4>3
    <3> QED BY <2>3, <3>1, <3>4, <3>7, <3>8 DEF ReleaseInv, Reporting, Top
  <2> QED BY <2>7, <2>8
<1>10. CASE Still /\ ~ReportCandidate
  <2>1. UNCHANGED <<rejected, state>>
    BY <1>10, StillPromises DEF vars, promiseVars
  <2>2. UNCHANGED released
    BY <1>10 DEF Still, EnqueueTick, PostTask, Call, TurnLoop, Enter, CallbackEnter, ModuleEnd, Leave,
         CallbackLeave, Return, RunTask, ExplicitCheckpoint, RunTick, DrainEnd, ForeignRelease,
         FinishCheckpoint, JoinStep, log
  <2>3. ~ForeignRelease
    BY <1>1 DEF ForeignRelease, Spend
  <2>4. ~Reporting
    BY <1>10, <2>3 DEF Still, EnqueueTick, PostTask, Call, TurnLoop, Enter, CallbackEnter, ModuleEnd,
         Leave, CallbackLeave, Return, RunTask, ExplicitCheckpoint, RunTick, DrainEnd,
         FinishCheckpoint, JoinStep, Reporting, TopIs, InProgram, AtBase, AtLoop, ProgramKinds
  <2> QED BY <1>4, <2>1, <2>2, <2>4
<1>11. CASE UNCHANGED checkpointVars
  <2>1. UNCHANGED <<stack, released, rejected, state, made>>
    BY <1>11 DEF checkpointVars, control, log, vars, promiseVars
  <2> QED BY <2>1 DEF ReleaseInv, Reporting, Pending, Top
<1> QED BY <1>5, <1>6, <1>7, <1>8, <1>9, <1>10, <1>11, NextCases

\* The reference on a candidate is given back at most once, where no landing
\* leaves a report in the middle and no foreign release of a report checkpoints
\* itself: such a nested report gives it back a second time, which the run
\* checkpoint_nested_report shows (nts_report_unhandled_rejections).
THEOREM CandidatesReleasedOnce ==
    ASSUME ~Landing, Fuel["release"] = 0
    PROVE  CheckpointSpec => []CandidateReleasedOnce
<1>1. CheckpointInit => ReleaseInv
  BY DEF CheckpointInit, Init, ReleaseInv
<1>2. CheckpointInv /\ QuietInv /\ ReleaseInv /\ [CheckpointNext]_checkpointVars => ReleaseInv'
  BY ReleaseKept
<1>3. ReleaseInv => CandidateReleasedOnce
  BY DEF ReleaseInv, CandidateReleasedOnce
<1> QED BY <1>1, <1>2, <1>3, QuietHolds, PTL DEF CheckpointSpec

=============================================================================
