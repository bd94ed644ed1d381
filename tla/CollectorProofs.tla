--------------------------- MODULE CollectorProofs ---------------------------
(* Proofs about Collector, for every heap and every graph of references. *)
EXTENDS Collector, FiniteSetTheorems, TLAPS

\* The slots of an object are finitely many naturals.
LEMMA SlotFacts ==
    /\ Slots \subseteq Nat
    /\ IsFiniteSet(Slots)
    /\ \A n \in Slots : n + 1 \in Nat
PROOF
  <1>1. NSlots \in Nat
    BY CollectorAssumption
  <1> QED
    BY <1>1, FS_Interval DEF Slots

\* An empty heap is well typed.
LEMMA InitType == Init => TypeOK
  <1> SUFFICES ASSUME Init PROVE TypeOK
    OBVIOUS
  <1>1. /\ field \in [Obj -> [Slots -> Obj \cup {Null}]]
        /\ ext \in [Obj -> Nat]
        /\ rc \in [Obj -> Int]
        /\ rootIndex \in [Obj -> Nat]
    BY DEF Init, RootNone
  <1>2. colour \in [Obj -> Colours]
    BY DEF Init, Colours
  <1>3. freed \in BOOLEAN
    BY DEF Init
  <1>4. roots \in Seq(Obj)
    BY DEF Init
  <1>5. drainPc \in DrainPcs /\ phase \in Phases
    BY DEF Init, DrainPcs, Phases
  <1> QED
    BY <1>1, <1>2, <1>3, <1>4, <1>5 DEF Init, TypeOK

\* nts_possible_root and nts_buffer_root keep the header and the buffer typed.
LEMMA PossibleRootType ==
    ASSUME TypeOK, NEW o \in Obj, PossibleRoot(o)
    PROVE  /\ colour' \in [Obj -> Colours]
           /\ buffered' \subseteq Obj
           /\ rootIndex' \in [Obj -> Nat]
           /\ roots' \in Seq(Obj)
  <1>1. Len(roots) \in Nat
    BY DEF TypeOK
  <1> QED
    BY <1>1 DEF TypeOK, PossibleRoot, Colours

\* nts_release keeps the header, the buffer and the dying list typed.
LEMMA ReleaseRefType ==
    ASSUME TypeOK, NEW o \in Obj, ReleaseRef(o)
    PROVE  /\ rc' \in [Obj -> Int]
           /\ colour' \in [Obj -> Colours]
           /\ buffered' \subseteq Obj
           /\ doomed' \subseteq Obj
           /\ rootIndex' \in [Obj -> Nat]
           /\ roots' \in Seq(Obj)
           /\ dying' \subseteq Obj
  <1>1. CASE o \in doomed
    BY <1>1 DEF ReleaseRef, TypeOK, headerVars
  <1>2. CASE o \notin doomed /\ rc[o] > 1 /\ PossibleRoot(o)
             /\ rc' = [rc EXCEPT ![o] = @ - 1] /\ UNCHANGED <<doomed, dying>>
    <2>1. rc[o] - 1 \in Int
      BY DEF TypeOK
    <2>2. rc' \in [Obj -> Int]
      BY <1>2, <2>1 DEF TypeOK
    <2>3. /\ colour' \in [Obj -> Colours]
          /\ buffered' \subseteq Obj
          /\ rootIndex' \in [Obj -> Nat]
          /\ roots' \in Seq(Obj)
      BY <1>2, PossibleRootType
    <2> QED
      BY <1>2, <2>2, <2>3 DEF TypeOK
  <1>3. CASE /\ o \notin doomed
             /\ rc' = [rc EXCEPT ![o] = 0]
             /\ colour' = [colour EXCEPT ![o] = "black"]
             /\ doomed' = doomed \cup {o}
             /\ dying' = dying \cup {o}
             /\ UNCHANGED <<buffered, rootIndex, roots>>
    BY <1>3 DEF TypeOK, Colours
  <1> QED
    BY <1>1, <1>2, <1>3 DEF ReleaseRef

\* What an object refers to are objects.
LEMMA ChildrenType ==
    ASSUME TypeOK, NEW o \in Obj
    PROVE  Children(o) \subseteq Obj
  BY DEF TypeOK, Children

\* How often one object names another is a natural number.
LEMMA SlotsOfFinite ==
    ASSUME NEW p, NEW c
    PROVE  /\ IsFiniteSet(SlotsOf(p, c))
           /\ Cardinality(SlotsOf(p, c)) \in Nat
  <1>1. SlotsOf(p, c) \in SUBSET Slots
    BY DEF SlotsOf
  <1>2. IsFiniteSet(SlotsOf(p, c))
    BY <1>1, SlotFacts, FS_Subset
  <1> QED
    BY <1>2, FS_CardinalityType

\* nts_free_block keeps the heap typed.
LEMMA FreeBlockType ==
    ASSUME TypeOK, NEW o \in Obj, FreeBlock(o)
    PROVE  /\ alloc' \subseteq Obj
           /\ doomed' \subseteq Obj
           /\ field' \in [Obj -> [Slots -> Obj \cup {Null}]]
  BY DEF TypeOK, FreeBlock

\* nts_unbuffer_root keeps the buffer a sequence, one candidate shorter.
LEMMA UnbufferRootType ==
    ASSUME TypeOK, NEW o \in Obj, UnbufferRoot(o)
    PROVE  /\ buffered' \subseteq Obj
           /\ rootIndex' \in [Obj -> Nat]
           /\ roots' \in Seq(Obj)
  <1> DEFINE last == Len(roots)
             f == [i \in 1 .. last - 1 |-> IF i = rootIndex[o] THEN roots[last] ELSE roots[i]]
  <1>1. last \in Nat /\ roots \in Seq(Obj)
    BY DEF TypeOK
  <1>2. \A i \in 1 .. last - 1 : f[i] \in Obj
    BY <1>1
  <1>3. f \in Seq(Obj)
    <2>1. CASE last = 0
      <3>1. 1 .. last - 1 = 1 .. 0
        BY <2>1
      <3> QED
        BY <1>2, <3>1
    <2>2. CASE last # 0
      <3>1. last - 1 \in Nat
        BY <1>1, <2>2
      <3> QED
        BY <1>2, <3>1
    <2> QED
      BY <2>1, <2>2
  <1>4. roots' = f
    BY DEF UnbufferRoot
  <1> QED
    BY <1>3, <1>4 DEF TypeOK, UnbufferRoot, RootNone

\* Types and the shape of drain and pass are inductive together, action by action.
LEMMA TypeStep == TypeOK /\ Shape /\ [Next]_vars => TypeOK' /\ Shape'
  <1> SUFFICES ASSUME TypeOK, Shape, [Next]_vars
               PROVE  TypeOK' /\ Shape'
    OBVIOUS
  <1> USE CollectorAssumption DEF heapVars, headerVars, drainVars, walkVars, passVars
  <1>1. ASSUME NEW o \in Obj, New(o) PROVE TypeOK' /\ Shape'
    BY <1>1 DEF New, Shape, TypeOK, Colours, DrainPcs, Phases, RootNone
  <1>2. ASSUME NEW o \in Obj, Retain(o) PROVE TypeOK' /\ Shape'
    <2>1. ext[o] + 1 \in Nat /\ rc[o] + 1 \in Int
      BY DEF TypeOK
    <2>2. ext' \in [Obj -> Nat]
      BY <1>2, <2>1 DEF Retain, TypeOK
    <2>3. rc' \in [Obj -> Int] /\ colour' \in [Obj -> Colours]
      <3>1. CASE o \in doomed
        BY <1>2, <3>1 DEF Retain, TypeOK
      <3>2. CASE o \notin doomed
        <4>1. rc' = [rc EXCEPT ![o] = @ + 1] /\ colour' = [colour EXCEPT ![o] = "black"]
          BY <1>2, <3>2 DEF Retain
        <4>2. rc' \in [Obj -> Int]
          BY <2>1, <4>1 DEF TypeOK
        <4>3. colour' \in [Obj -> Colours]
          BY <4>1 DEF TypeOK, Colours
        <4> QED
          BY <4>2, <4>3
      <3> QED
        BY <3>1, <3>2
    <2>4. TypeOK'
      BY <1>2, <2>2, <2>3 DEF Retain, TypeOK
    <2>5. Shape'
      BY <1>2 DEF Retain, Shape
    <2> QED
      BY <2>4, <2>5
  <1>3. ASSUME NEW o \in Obj, Release(o) PROVE TypeOK' /\ Shape'
    <2>1. /\ rc' \in [Obj -> Int]
          /\ colour' \in [Obj -> Colours]
          /\ buffered' \subseteq Obj
          /\ doomed' \subseteq Obj
          /\ rootIndex' \in [Obj -> Nat]
          /\ roots' \in Seq(Obj)
          /\ dying' \subseteq Obj
      BY <1>3, ReleaseRefType DEF Release
    <2>2. ext' \in [Obj -> Nat]
      <3>1. ext[o] - 1 \in Nat
        BY <1>3 DEF Release, TypeOK
      <3> QED
        BY <1>3, <3>1 DEF Release, TypeOK
    <2>3. drainPc' \in DrainPcs /\ drainObj' \in IF drainPc' \in {"off", "pop"} THEN {Null} ELSE Obj
      BY <1>3 DEF Release, TypeOK, DrainPcs, draining
    <2>4. /\ UNCHANGED <<work, restore, dead, zeroed, freeing, freed, collectAt>>
          /\ \/ UNCHANGED <<phase, cursor, kept>>
             \/ drainPc' = "off" /\ phase = "idle" /\ BeginPass
      BY <1>3 DEF Release, MaybeCollect, collecting
    <2>5. phase' \in Phases /\ cursor' \in Nat \ {0} /\ kept' \in Nat
      BY <2>4 DEF BeginPass, TypeOK, Phases
    <2>6. TypeOK'
      BY <1>3, <2>1, <2>2, <2>3, <2>4, <2>5 DEF Release, TypeOK
    <2>7. Len(roots') \in Nat
      BY <2>1
    <2>8. drainPc' = "off" => dying' = {}
      BY <1>3 DEF Release, draining
    <2>9. phase \notin {"mark", "scan", "gather", "free"}
      BY <1>3 DEF Release, Running, Shape
    <2> QED
      BY <2>4, <2>6, <2>7, <2>8, <2>9 DEF BeginPass, Shape
  <1>4. ASSUME NEW p \in Obj, NEW s \in Slots, NEW o \in Obj \cup {Null}, Store(p, s, o)
        PROVE  TypeOK' /\ Shape'
    <2> DEFINE old == field[p][s]
               given == [x \in Obj |-> IF x = o THEN ext[x] - 1 ELSE ext[x]]
    <2>1. given \in [Obj -> Nat]
      <3>1. \A x \in Obj : x = o => ext[x] > 0
        BY <1>4 DEF Store
      <3>2. \A x \in Obj : given[x] \in Nat
        BY <3>1 DEF TypeOK
      <3> QED
        BY <3>2
    <2>2. ext' = [x \in Obj |-> IF x = old THEN given[x] + 1 ELSE given[x]]
      BY <1>4 DEF Store
    <2>3. ext' \in [Obj -> Nat]
      BY <2>1, <2>2
    <2>4. field' \in [Obj -> [Slots -> Obj \cup {Null}]]
      BY <1>4 DEF Store, TypeOK
    <2>5. TypeOK'
      BY <1>4, <2>3, <2>4 DEF Store, TypeOK
    <2>6. Shape'
      BY <1>4 DEF Store, Shape
    <2> QED
      BY <2>5, <2>6
  <1>5. ASSUME CollectAtCheckpoint PROVE TypeOK' /\ Shape'
    BY <1>5 DEF CollectAtCheckpoint, BeginPass, collecting, draining, Shape, TypeOK, Colours, DrainPcs, Phases, RootNone
  <1>6. ASSUME NEW o \in Obj, DrainPop(o) PROVE TypeOK' /\ Shape'
    <2>1. /\ buffered' \subseteq Obj
          /\ rootIndex' \in [Obj -> Nat]
          /\ roots' \in Seq(Obj)
      BY <1>6, UnbufferRootType DEF DrainPop, TypeOK
    <2>2. TypeOK'
      BY <1>6, <2>1 DEF DrainPop, TypeOK, DrainPcs
    <2>3. Shape'
      BY <1>6 DEF DrainPop, Shape
    <2> QED
      BY <2>2, <2>3
  <1>7. ASSUME DrainContents PROVE TypeOK' /\ Shape'
    <2>1. drainObj \in Obj /\ drainSlot \in Slots
      BY <1>7 DEF DrainContents, TypeOK
    <2>2. field[drainObj][drainSlot] \in Obj \cup {Null}
      BY <2>1 DEF TypeOK
    <2>3. /\ rc' \in [Obj -> Int]
          /\ colour' \in [Obj -> Colours]
          /\ buffered' \subseteq Obj
          /\ doomed' \subseteq Obj
          /\ rootIndex' \in [Obj -> Nat]
          /\ roots' \in Seq(Obj)
          /\ dying' \subseteq Obj
      <3>1. CASE field[drainObj][drainSlot] = Null
        BY <1>7, <3>1 DEF DrainContents, TypeOK
      <3>2. CASE field[drainObj][drainSlot] # Null
        BY <1>7, <2>2, <3>2, ReleaseRefType DEF DrainContents
      <3> QED
        BY <3>1, <3>2
    <2>4. field' \in [Obj -> [Slots -> Obj \cup {Null}]]
      BY <1>7, <2>1 DEF DrainContents, TypeOK
    <2>5. drainSlot' \in Nat
      BY <1>7, <2>1, SlotFacts DEF DrainContents
    <2>6. TypeOK'
      BY <1>7, <2>3, <2>4, <2>5 DEF DrainContents, TypeOK
    <2>7. Shape'
      BY <1>7 DEF DrainContents, Shape
    <2> QED
      BY <2>6, <2>7
  <1>8. ASSUME DrainContentsDone PROVE TypeOK' /\ Shape'
    BY <1>8 DEF DrainContentsDone, Shape, TypeOK, Colours, DrainPcs, Phases, RootNone
  <1>9. ASSUME DrainForeign PROVE TypeOK' /\ Shape'
    BY <1>9 DEF DrainForeign, Shape, TypeOK, Colours, DrainPcs, Phases, RootNone
  <1>10. ASSUME DrainCallbackReturns PROVE TypeOK' /\ Shape'
    BY <1>10 DEF DrainCallbackReturns, Shape, TypeOK, Colours, DrainPcs, Phases, RootNone
  <1>11. ASSUME DrainFinish PROVE TypeOK' /\ Shape'
    <2>1. drainObj \in Obj
      BY <1>11 DEF DrainFinish, TypeOK
    <2>2. /\ alloc' \subseteq Obj
          /\ doomed' \subseteq Obj
          /\ field' \in [Obj -> [Slots -> Obj \cup {Null}]]
      <3>1. CASE drainObj \in buffered
        BY <1>11, <3>1 DEF DrainFinish, TypeOK
      <3>2. CASE drainObj \notin buffered
        BY <1>11, <2>1, <3>2, FreeBlockType DEF DrainFinish
      <3> QED
        BY <3>1, <3>2
    <2>3. TypeOK'
      BY <1>11, <2>2 DEF DrainFinish, TypeOK, DrainPcs
    <2>4. Shape'
      BY <1>11 DEF DrainFinish, Shape
    <2> QED
      BY <2>3, <2>4
  <1>12. ASSUME DrainEnd PROVE TypeOK' /\ Shape'
    BY <1>12 DEF DrainEnd, MaybeCollect, BeginPass, collecting, Shape, TypeOK, Colours, DrainPcs, Phases, RootNone
  <1>13. ASSUME MarkRoot PROVE TypeOK' /\ Shape'
    <2> DEFINE root == roots[cursor]
    <2>1. /\ roots \in Seq(Obj) /\ Len(roots) \in Nat
          /\ cursor \in Nat \ {0} /\ kept \in Nat
          /\ cursor <= Len(roots) /\ kept < cursor
      BY <1>13 DEF MarkRoot, Walking, TypeOK, Shape
    <2>2. root \in Obj
      BY <2>1
    <2>3. /\ rootIndex' \in [Obj -> Nat]
          /\ work' \subseteq Obj /\ zeroed' \subseteq Obj /\ buffered' \subseteq Obj
          /\ cursor' = cursor + 1 /\ kept' \in {kept, kept + 1}
      <3>1. CASE colour[root] = "purple" /\ rc[root] > 0
        <4>1. /\ rootIndex' = [rootIndex EXCEPT ![root] = kept + 1]
              /\ work' = {root} /\ kept' = kept + 1 /\ cursor' = cursor + 1
              /\ UNCHANGED <<buffered, zeroed>>
          BY <1>13, <3>1 DEF MarkRoot
        <4>2. kept + 1 \in Nat
          BY <2>1
        <4> QED
          BY <2>2, <4>1, <4>2 DEF TypeOK
      <3>2. CASE ~(colour[root] = "purple" /\ rc[root] > 0)
        <4>1. /\ rootIndex' = [rootIndex EXCEPT ![root] = 0]
              /\ UNCHANGED <<work, kept>> /\ cursor' = cursor + 1
              /\ buffered' = buffered \ {root} /\ zeroed' \subseteq zeroed \cup {root}
          BY <1>13, <3>2 DEF MarkRoot, RootNone
        <4> QED
          BY <2>2, <4>1 DEF TypeOK
      <3> QED
        BY <3>1, <3>2
    <2>4. roots' \in Seq(Obj) /\ Len(roots') = Len(roots)
      <3>1. CASE roots' = roots
        BY <2>1, <3>1
      <3>2. CASE roots' = [roots EXCEPT ![kept + 1] = root]
        <4>1. kept + 1 \in 1 .. Len(roots)
          BY <2>1
        <4> QED
          BY <2>1, <2>2, <3>2, <4>1
      <3> QED
        BY <1>13, <3>1, <3>2 DEF MarkRoot
    <2>5. TypeOK'
      <3>1. cursor' \in Nat \ {0} /\ kept' \in Nat
        BY <2>1, <2>3
      <3>2. /\ UNCHANGED <<heapVars, rc, colour, doomed, drainVars, phase, restore,
                           dead, freeing, freed, collectAt>>
        BY <1>13 DEF MarkRoot
      <3> QED
        BY <2>3, <2>4, <3>1, <3>2 DEF TypeOK
    <2>6. phase' = phase /\ UNCHANGED <<drainPc, dying, restore, dead, freeing>>
      BY <1>13 DEF MarkRoot
    <2>7. phase = "mark"
      BY <1>13 DEF MarkRoot, Walking
    <2> QED
      BY <2>1, <2>3, <2>4, <2>5, <2>6, <2>7 DEF Shape
  <1>14. ASSUME NEW o \in Obj, MarkGray(o) PROVE TypeOK' /\ Shape'
    <2>1. \A c \in Obj : rc[c] - Cardinality(SlotsOf(o, c)) \in Int
      BY SlotsOfFinite DEF TypeOK
    <2>2. rc' \in [Obj -> Int]
      BY <1>14, <2>1 DEF MarkGray, TypeOK
    <2>3. colour' \in [Obj -> Colours] /\ work' \subseteq Obj
      BY <1>14, ChildrenType DEF MarkGray, TypeOK, Colours
    <2>4. TypeOK'
      BY <1>14, <2>2, <2>3 DEF MarkGray, TypeOK
    <2>5. Shape'
      BY <1>14 DEF MarkGray, Walking, Shape
    <2> QED
      BY <2>4, <2>5
  <1>15. ASSUME MarkEnd PROVE TypeOK' /\ Shape'
    BY <1>15 DEF MarkEnd, Walking, Shape, TypeOK, Colours, DrainPcs, Phases, RootNone
  <1>16. ASSUME ScanRoot PROVE TypeOK' /\ Shape'
    BY <1>16 DEF ScanRoot, WalkRoot, Walking, Shape, TypeOK, Colours, DrainPcs, Phases, RootNone
  <1>17. ASSUME NEW o \in Obj, Scan(o) PROVE TypeOK' /\ Shape'
    <2>1. colour' \in [Obj -> Colours] /\ work' \subseteq Obj /\ restore' \subseteq Obj
      BY <1>17, ChildrenType DEF Scan, TypeOK, Colours
    <2>2. TypeOK'
      BY <1>17, <2>1 DEF Scan, TypeOK
    <2>3. Shape'
      BY <1>17 DEF Scan, Walking, Shape
    <2> QED
      BY <2>2, <2>3
  <1>18. ASSUME NEW o \in Obj, ScanBlack(o) PROVE TypeOK' /\ Shape'
    <2>1. \A c \in Obj : rc[c] + Cardinality(SlotsOf(o, c)) \in Int
      BY SlotsOfFinite DEF TypeOK
    <2>2. rc' \in [Obj -> Int]
      BY <1>18, <2>1 DEF ScanBlack
    <2>3. colour' \in [Obj -> Colours] /\ restore' \subseteq Obj
      BY <1>18, ChildrenType DEF ScanBlack, TypeOK, Colours
    <2>4. TypeOK'
      BY <1>18, <2>2, <2>3 DEF ScanBlack, TypeOK
    <2>5. Shape'
      BY <1>18 DEF ScanBlack, Walking, Shape
    <2> QED
      BY <2>4, <2>5
  <1>19. ASSUME ScanEnd PROVE TypeOK' /\ Shape'
    BY <1>19 DEF ScanEnd, Walking, Shape, TypeOK, Colours, DrainPcs, Phases, RootNone
  <1>20. ASSUME GatherRoot PROVE TypeOK' /\ Shape'
    BY <1>20, SMTT(30) DEF GatherRoot, WalkRoot, Walking, Shape, TypeOK, Colours, DrainPcs, Phases, RootNone
  <1>21. ASSUME NEW o \in Obj, GatherWhite(o) PROVE TypeOK' /\ Shape'
    <2>1. colour' \in [Obj -> Colours] /\ work' \subseteq Obj /\ dead' \subseteq Obj
      BY <1>21, ChildrenType DEF GatherWhite, TypeOK, Colours
    <2>2. TypeOK'
      BY <1>21, <2>1 DEF GatherWhite, TypeOK
    <2>3. Shape'
      BY <1>21 DEF GatherWhite, Walking, Shape
    <2> QED
      BY <2>2, <2>3
  <1>22. ASSUME GatherEnd PROVE TypeOK' /\ Shape'
    BY <1>22 DEF GatherEnd, Walking, Shape, TypeOK, Colours, DrainPcs, Phases, RootNone
  <1>23. ASSUME NEW o \in Obj, FreeDead(o) PROVE TypeOK' /\ Shape'
    BY <1>23 DEF FreeDead, Walking, Shape, TypeOK, Colours, DrainPcs, Phases, RootNone
  <1>24. ASSUME FreeCallbackReturns PROVE TypeOK' /\ Shape'
    BY <1>24 DEF FreeCallbackReturns, Walking, Shape, TypeOK, Colours, DrainPcs, Phases, RootNone
  <1>25. ASSUME FreeDeadBlock PROVE TypeOK' /\ Shape'
    BY <1>25 DEF FreeDeadBlock, FreeBlock, Walking, Shape, TypeOK, Colours, DrainPcs, Phases, RootNone
  <1>26. ASSUME FreeEnd PROVE TypeOK' /\ Shape'
    BY <1>26 DEF FreeEnd, Walking, Shape, TypeOK, Colours, DrainPcs, Phases, RootNone
  <1>27. ASSUME NEW o \in Obj, Reclaim(o) PROVE TypeOK' /\ Shape'
    <2>1. /\ alloc' \subseteq Obj
          /\ doomed' \subseteq Obj
          /\ dying' \subseteq Obj
          /\ field' \in [Obj -> [Slots -> Obj \cup {Null}]]
      <3>1. CASE o \in doomed
        BY <1>27, <3>1, FreeBlockType DEF Reclaim, TypeOK
      <3>2. CASE o \notin doomed
        BY <1>27, <3>2 DEF Reclaim, TypeOK
      <3> QED
        BY <3>1, <3>2
    <2>2. TypeOK'
      BY <1>27, <2>1 DEF Reclaim, Walking, TypeOK, DrainPcs
    <2>3. Shape'
      BY <1>27 DEF Reclaim, Walking, Shape
    <2> QED
      BY <2>2, <2>3
  <1>28. ASSUME PassEnd PROVE TypeOK' /\ Shape'
    <2>1. Len(roots) \in Nat
      BY DEF TypeOK
    <2>2. Cardinality(alloc) \in Nat
      BY FS_Subset, FS_CardinalityType DEF TypeOK
    <2>3. TypeOK'
      <3>1. CASE freed /\ roots # <<>>
        BY <1>28, <3>1, SMTT(30) DEF PassEnd, BeginPass, TypeOK, Phases
      <3>2. CASE ~(freed /\ roots # <<>>)
        <4>1. phase' = "idle" /\ collectAt' = Cardinality(alloc) /\ UNCHANGED <<cursor, kept>>
          BY <1>28, <3>2 DEF PassEnd
        <4> QED
          BY <1>28, <2>2, <4>1 DEF PassEnd, TypeOK, Phases
      <3> QED
        BY <3>1, <3>2
    <2>4. Shape'
      BY <1>28, <2>1 DEF PassEnd, BeginPass, Walking, Shape
    <2> QED
      BY <2>3, <2>4
  <1>29. CASE UNCHANGED vars
    BY <1>29 DEF vars, TypeOK, Shape
  <1> QED
    BY <1>1, <1>2, <1>3, <1>4, <1>5, <1>6, <1>7, <1>8, <1>9, <1>10, <1>11, <1>12, <1>13, <1>14,
       <1>15, <1>16, <1>17, <1>18, <1>19, <1>20, <1>21, <1>22, <1>23, <1>24, <1>25, <1>26, <1>27, <1>28, <1>29
       DEF Next, Program, Drain, Collect

\* Every variable of the memory manager keeps its type, and a drain and a pass
\* are only ever where the guards of nts_maybe_collect, nts_destroy and
\* nts_collect_at_checkpoint let them be together.
THEOREM TypeCorrect == Spec => []WellFormed
  <1>1. Init => WellFormed
    BY InitType DEF Init, Shape, WellFormed
  <1>2. WellFormed /\ [Next]_vars => WellFormed'
    BY TypeStep DEF WellFormed
  <1> QED
    BY <1>1, <1>2, PTL DEF Spec

(***************************************************************************)
(* Counted slots.  f is a heap's slots and A the objects whose slots count. *)
(***************************************************************************)
Graph == [Obj -> [Slots -> Obj \cup {Null}]]

\* The slots of A that name o.
Refs(f, A, o) == {e \in A \X Slots : f[e[1]][e[2]] = o}

\* They are finitely many, and none exactly if no slot of A names o.
LEMMA RefsFinite ==
    ASSUME NEW f, NEW A \in SUBSET Obj, NEW o
    PROVE  /\ IsFiniteSet(Refs(f, A, o))
           /\ Cardinality(Refs(f, A, o)) \in Nat
           /\ Cardinality(Refs(f, A, o)) = 0 <=> \A p \in A, s \in Slots : f[p][s] # o
  <1>1. IsFiniteSet(A)
    BY CollectorAssumption, FS_Subset
  <1>2. IsFiniteSet(A \X Slots)
    BY <1>1, SlotFacts, FS_Product
  <1>3. Refs(f, A, o) \in SUBSET (A \X Slots)
    BY DEF Refs
  <1>4. IsFiniteSet(Refs(f, A, o))
    BY <1>2, <1>3, FS_Subset
  <1>5. Refs(f, A, o) = {} <=> \A p \in A, s \in Slots : f[p][s] # o
    <2>1. ASSUME NEW p \in A, NEW s \in Slots, f[p][s] = o PROVE <<p, s>> \in Refs(f, A, o)
      BY <2>1 DEF Refs
    <2>2. ASSUME NEW e \in Refs(f, A, o) PROVE \E p \in A, s \in Slots : f[p][s] = o
      BY <2>2 DEF Refs
    <2> QED
      BY <2>1, <2>2
  <1> QED
    BY <1>4, <1>5, FS_CardinalityType, FS_EmptySet

\* One slot of A is overwritten: the old value loses a reference, the new one
\* gains one.
LEMMA RefsPut ==
    ASSUME NEW f, NEW A \in SUBSET Obj, NEW p \in A, NEW s \in Slots,
           NEW g, NEW n, n # f[p][s], g[p][s] = n,
           \A q \in A, t \in Slots : <<q, t>> # <<p, s>> => g[q][t] = f[q][t]
    PROVE  /\ Cardinality(Refs(f, A, f[p][s])) = Cardinality(Refs(g, A, f[p][s])) + 1
           /\ Cardinality(Refs(g, A, n)) = Cardinality(Refs(f, A, n)) + 1
           /\ \A o : o # n /\ o # f[p][s] => Refs(g, A, o) = Refs(f, A, o)
  <1> DEFINE e == <<p, s>>
             old == f[p][s]
  <1>1. /\ g[p][s] = n
        /\ \A q \in A, t \in Slots : <<q, t>> # e => g[q][t] = f[q][t]
    OBVIOUS
  <1>2. Refs(g, A, old) = Refs(f, A, old) \ {e} /\ e \in Refs(f, A, old)
    BY <1>1 DEF Refs
  <1>3. Refs(f, A, n) = Refs(g, A, n) \ {e} /\ e \in Refs(g, A, n)
    BY <1>1 DEF Refs
  <1>4. \A o : o # n /\ o # old => Refs(g, A, o) = Refs(f, A, o)
    BY <1>1 DEF Refs
  <1>5. /\ IsFiniteSet(Refs(f, A, old)) /\ Cardinality(Refs(f, A, old)) \in Nat
        /\ IsFiniteSet(Refs(g, A, n)) /\ Cardinality(Refs(g, A, n)) \in Nat
    BY RefsFinite
  <1>6. Cardinality(Refs(f, A, old) \ {e}) = Cardinality(Refs(f, A, old)) - 1
    BY <1>2, <1>5, FS_RemoveElement
  <1>7. Cardinality(Refs(g, A, n) \ {e}) = Cardinality(Refs(g, A, n)) - 1
    BY <1>3, <1>5, FS_RemoveElement
  <1>8. Cardinality(Refs(f, A, old)) = Cardinality(Refs(g, A, old)) + 1
    <2>1. Cardinality(Refs(g, A, old)) = Cardinality(Refs(f, A, old)) - 1
      BY <1>2, <1>6, Zenon
    <2>2. Cardinality(Refs(f, A, old)) \in Nat
      BY <1>5
    <2> HIDE DEF old
    <2> QED
      BY <2>1, <2>2
  <1>9. Cardinality(Refs(g, A, n)) = Cardinality(Refs(f, A, n)) + 1
    BY <1>3, <1>5, <1>7
  <1> QED
    BY <1>4, <1>8, <1>9

\* One object's slots stop counting, or start to.
LEMMA RefsWithout ==
    ASSUME NEW f, NEW A \in SUBSET Obj, NEW p \in A, NEW o
    PROVE  Cardinality(Refs(f, A, o))
             = Cardinality(Refs(f, A \ {p}, o)) + Cardinality({s \in Slots : f[p][s] = o})
  <1> DEFINE T == {s \in Slots : f[p][s] = o}
             R == Refs(f, A \ {p}, o)
  <1>1. IsFiniteSet(T) /\ Cardinality(T) \in Nat
    <2>1. T \in SUBSET Slots
      OBVIOUS
    <2> QED
      BY <2>1, SlotFacts, FS_Subset, FS_CardinalityType
  <1>2. IsFiniteSet({p}) /\ Cardinality({p}) = 1
    BY FS_Singleton
  <1>3. IsFiniteSet({p} \X T) /\ Cardinality({p} \X T) = Cardinality({p}) * Cardinality(T)
    BY <1>1, <1>2, FS_Product
  <1>4. Cardinality({p} \X T) = Cardinality(T)
    BY <1>1, <1>2, <1>3
  <1>5. IsFiniteSet(R) /\ Cardinality(R) \in Nat
    <2>1. A \ {p} \in SUBSET Obj
      OBVIOUS
    <2> QED
      BY <2>1, RefsFinite
  <1>6. Refs(f, A, o) = R \cup ({p} \X T)
    BY DEF Refs
  <1>7. R \cap ({p} \X T) = {}
    BY DEF Refs
  <1>8. Cardinality(R \cup ({p} \X T))
          = Cardinality(R) + Cardinality({p} \X T) - Cardinality(R \cap ({p} \X T))
    BY <1>3, <1>5, FS_Union
  <1>9. Cardinality(R \cap ({p} \X T)) = 0
    BY <1>7, FS_EmptySet
  <1> QED
    BY <1>1, <1>4, <1>5, <1>6, <1>8, <1>9

\* Objects with empty slots come and go without being counted.
LEMMA RefsSame ==
    ASSUME NEW f, NEW g, NEW A, NEW B, NEW o, o # Null,
           \A p \in A \cap B : f[p] = g[p],
           \A p \in A \ B, s \in Slots : f[p][s] = Null,
           \A p \in B \ A, s \in Slots : g[p][s] = Null
    PROVE  Refs(g, B, o) = Refs(f, A, o)
  BY DEF Refs

\* The counts r are the references e of the program and the slots of A.
Exact(r, e, f, A) == \A o \in Obj : r[o] = e[o] + Cardinality(Refs(f, A, o))

\* What has count 0 is named by nobody, and what is named has a count.
LEMMA ExactFacts ==
    ASSUME NEW r, NEW e \in [Obj -> Nat], NEW f, NEW A \in SUBSET Obj, Exact(r, e, f, A),
           NEW o \in Obj
    PROVE  /\ r[o] \in Nat
           /\ r[o] = 0 => e[o] = 0 /\ \A p \in A, s \in Slots : f[p][s] # o
           /\ e[o] > 0 => r[o] > 0
           /\ \A p \in A, s \in Slots : f[p][s] = o => r[o] > 0
  <1>1. PICK n : n = Cardinality(Refs(f, A, o))
    OBVIOUS
  <1>2. n \in Nat /\ (n = 0 <=> \A p \in A, s \in Slots : f[p][s] # o)
    BY <1>1, RefsFinite
  <1>3. r[o] = e[o] + n /\ e[o] \in Nat
    BY <1>1 DEF Exact
  <1>4. r[o] \in Nat /\ (r[o] = 0 => e[o] = 0 /\ n = 0) /\ (e[o] > 0 => r[o] > 0)
        /\ (n # 0 => r[o] > 0)
    BY <1>2, <1>3
  <1> QED
    BY <1>2, <1>4

\* A set of counted objects outside of which nothing has a count is closed.
LEMMA ClosedBy ==
    ASSUME NEW r, NEW e \in [Obj -> Nat], NEW f \in Graph, NEW A \in SUBSET Obj, Exact(r, e, f, A),
           NEW L \in SUBSET A, \A o \in Obj \ L : r[o] = 0
    PROVE  \A p \in L, s \in Slots : f[p][s] # Null => f[p][s] \in L
  <1> SUFFICES ASSUME NEW p \in L, NEW s \in Slots, f[p][s] # Null PROVE f[p][s] \in L
    OBVIOUS
  <1>1. PICK c : c = f[p][s]
    OBVIOUS
  <1>2. c \in Obj
    BY <1>1 DEF Graph
  <1>3. r[c] \in Nat /\ r[c] > 0
    BY <1>1, <1>2, ExactFacts
  <1> QED
    BY <1>1, <1>2, <1>3

(***************************************************************************)
(* The invariant.                                                          *)
(***************************************************************************)
Gray   == {o \in Obj : colour[o] = "gray"}
White  == {o \in Obj : colour[o] = "white"}
Purple == {o \in Obj : colour[o] = "purple"}
Empty(o) == \A s \in Slots : field[o][s] = Null

\* Blocks: a free one is empty, only one in use has a colour, a purple one is
\* a candidate, and slots hold what their type allows.
BlockInv ==
    /\ doomed \subseteq alloc
    /\ buffered \subseteq alloc
    /\ \A o \in Obj \ alloc : Empty(o)
    /\ Gray \cup White \cup Purple \subseteq Live
    /\ Purple \subseteq buffered
    /\ \A p \in Obj, s \in Slots : field[p][s] # Null => <<p, field[p][s]>> \in MayHold

\* The drain empties one dying object, slot by slot.
DrainInv ==
    /\ dying \subseteq doomed
    /\ drainSlot > 0
    /\ drainObj # Null => drainObj \in doomed \ dying
    /\ drainPc = "contents" => \A s \in Slots : s < drainSlot => field[drainObj][s] = Null
    /\ drainPc \in {"foreign", "callback", "finish"} => Empty(drainObj)
    /\ drainPc \in {"callback", "finish"} => drainObj \notin foreign
    /\ phase = "idle" => drainObj \notin buffered

\* The doomed that wait for nothing but their memory's release.
Shells == doomed \ (dying \cup {drainObj} \cup dead)

\* A shell is empty and is kept only for a pass to find it.
ShellInv ==
    /\ zeroed \subseteq Shells \ buffered
    /\ \A o \in Shells : Empty(o) /\ o \notin foreign /\ o \in buffered \cup zeroed
    /\ phase = "idle" => Shells = {}

\* What a pass has gathered: no count, no candidate, in no other list.
DeadInv ==
    /\ dead \cap (dying \cup {drainObj} \cup buffered) = {}
    /\ phase = "gather" => dead \subseteq Live
    /\ phase \in {"free", "callback"} => dead \subseteq doomed
    /\ freeing # Null => freeing \in dead /\ freeing \notin foreign
    /\ phase = "callback" => freeing # Null
    /\ \A o \in dead : colour[o] = "black" /\ rc[o] = 0

\* The colours each phase leaves; white means that nothing outside refers to it.
ColourInv ==
    /\ phase \notin {"mark", "scan"} => Gray = {}
    /\ phase \notin {"scan", "gather"} => White = {}
    /\ phase \in {"scan", "gather"} => Purple = {}
    /\ phase = "gather" => buffered = {}
    /\ \A o \in White : rc[o] = 0
    /\ \A o \in restore : o \in Live /\ colour[o] = "black"
    /\ work \subseteq Live

LiveClosed == \A p \in Live, s \in Slots : field[p][s] # Null => field[p][s] \in Live

\* What is in use has a count, unless the marking took it off.
LiveCounted ==
    \A o \in Live \ (Gray \cup White \cup dead) :
        rc[o] > 0 \/ (phase = "mark" /\ \E p \in Gray : o \in Children(p))

CountInv ==
    /\ Exact(rc, ext, field, alloc \ Trial)
    /\ \A o \in Obj \ Live : rc[o] = 0
    /\ LiveClosed
    /\ LiveCounted

\* Buffer b, marks m and indices x agree on the entries E.
Indexed(b, m, x, E) ==
    /\ \A i \in E : b[i] \in m /\ x[b[i]] = i
    /\ \A o \in m : x[o] \in E /\ b[x[o]] = o
    /\ \A o \in Obj \ m : x[o] = RootNone

IndexInv ==
    IF phase = "gather" THEN \A o \in Obj : rootIndex[o] = RootNone
                        ELSE Indexed(roots, buffered, rootIndex, RootEntries)

\* The candidates a pass has kept are in use and marked or about to be, and
\* marking leaves no child of a gray object behind.
RootInv ==
    /\ phase = "mark" => \A i \in 1 .. kept : roots[i] \in Gray \cup work
    /\ phase \in {"scan", "gather"} => \A i \in 1 .. Len(roots) : roots[i] \in Live
    /\ phase = "mark" => \A p \in Gray : Children(p) \subseteq Gray \cup work

\* Where each walk can still get to, said of every set closed under its steps:
\* marking comes only to what the kept candidates reach ...
VisitMark ==
    phase = "mark" => \A S \in SUBSET Obj :
        (/\ \A i \in 1 .. kept : roots[i] \in S
         /\ \A p \in S \cap Gray : Children(p) \subseteq S)
           => Gray \cup work \subseteq S

\* ... scanning still comes to every gray object ...
VisitGray ==
    phase = "scan" => \A S \in SUBSET Obj :
        (/\ \A i \in cursor .. Len(roots) : roots[i] \in S
         /\ work \subseteq S
         /\ \A p \in (S \cap Gray) \cup restore : Children(p) \subseteq S)
           => Gray \subseteq S

\* ... the candidates reach every white one through white ones ...
VisitWhite ==
    phase = "scan" => \A S \in SUBSET Obj :
        (/\ \A i \in 1 .. Len(roots) : roots[i] \in S
         /\ \A p \in (S \cap White) \cup restore : Children(p) \subseteq S)
           => White \cup (work \cap Gray) \subseteq S

\* ... and gathering comes to every white object.
VisitDead ==
    phase = "gather" => \A S \in SUBSET Obj :
        (/\ \A i \in cursor .. Len(roots) : roots[i] \in S
         /\ work \subseteq S
         /\ \A p \in S \cap White : Children(p) \subseteq S)
           => White \subseteq S

VisitInv == VisitMark /\ VisitGray /\ VisitWhite /\ VisitDead

\* Objects in use that only objects of U refer to, among those of A.
Orphans(U, A) ==
    /\ U # {} /\ U \subseteq Live
    /\ \A u \in U : ext[u] = 0 /\ \A p \in A, s \in Slots : field[p][s] = u => p \in U

\* No orphans without a purple one; once marking is over, none among those that
\* are not gray or white.
GarbageInv ==
    IF phase \in {"scan", "gather"}
    THEN \A U \in SUBSET (Obj \ (Gray \cup White \cup dead)) :
            ~Orphans(U, Live \ (Gray \cup White \cup dead))
    ELSE \A U \in SUBSET (Obj \ Gray) : Orphans(U, alloc \ dead) => U \cap Purple # {}

\* A pass that freed nothing ran no program code.
FreedInv ==
    phase \in {"free", "callback", "reclaim"} /\ ~freed =>
        roots = <<>> /\ dead = {} /\ zeroed = {} /\ drainPc = "off"

CollectorInv ==
    /\ WellFormed
    /\ BlockInv /\ DrainInv /\ ShellInv /\ DeadInv
    /\ ColourInv /\ CountInv /\ IndexInv /\ RootInv
    /\ VisitInv /\ GarbageInv /\ FreedInv

LEMMA TrialSplit == Trial = Gray \cup White \cup restore \cup dead
  BY DEF Trial, Gray, White

LEMMA InitInv == Init => CollectorInv
  <1> SUFFICES ASSUME Init PROVE CollectorInv
    OBVIOUS
  <1>1. WellFormed
    BY InitType DEF Init, Shape, WellFormed
  <1>2. Gray = {} /\ White = {} /\ Purple = {} /\ Live = {} /\ Shells = {}
    BY DEF Init, Gray, White, Purple, Live, Shells
  <1>3. BlockInv /\ DrainInv /\ ShellInv /\ DeadInv /\ ColourInv
    BY <1>2 DEF Init, BlockInv, Empty, DrainInv, ShellInv, DeadInv, ColourInv
  <1>4. CountInv
    <2>1. ASSUME NEW o \in Obj PROVE Cardinality(Refs(field, alloc \ Trial, o)) = 0
      <3>1. alloc \ Trial = {}
        BY DEF Init
      <3>2. {} \in SUBSET Obj
        OBVIOUS
      <3> QED
        BY <3>1, <3>2, RefsFinite
    <2>2. Exact(rc, ext, field, alloc \ Trial)
      BY <2>1 DEF Exact, Init
    <2> QED
      BY <1>2, <2>2 DEF CountInv, Init, LiveClosed, LiveCounted
  <1>5. IndexInv
    BY DEF Init, IndexInv, Indexed, RootEntries
  <1>6. RootInv /\ VisitInv /\ FreedInv
    BY DEF Init, RootInv, VisitInv, VisitMark, VisitGray, VisitWhite, VisitDead, FreedInv
  <1>7. GarbageInv
    BY <1>2 DEF Init, GarbageInv, Orphans
  <1> QED
    BY <1>1, <1>3, <1>4, <1>5, <1>6, <1>7 DEF CollectorInv

(***************************************************************************)
(* The program and the drain.  They run outside the walks, where no object *)
(* is gray or white, and may start a pass but do not disturb one.          *)
(***************************************************************************)
Onward ==
    /\ UNCHANGED <<work, restore, dead, zeroed, freeing, freed>>
    /\ \/ UNCHANGED <<phase, cursor, kept>>
       \/ phase = "idle" /\ drainPc' = "off" /\ phase' = "mark" /\ cursor' = 1 /\ kept' = 0

LEMMA MutatorOnward ==
    ASSUME Program \/ Drain
    PROVE  Onward
  <1> USE DEF Onward, heapVars, headerVars, drainVars, walkVars, passVars
  <1>1. ASSUME MaybeCollect PROVE Onward
    BY <1>1 DEF MaybeCollect, BeginPass, collecting
  <1>2. ASSUME NEW o \in Obj, New(o) \/ Retain(o) PROVE Onward
    BY <1>2 DEF New, Retain
  <1>3. ASSUME NEW o \in Obj, Release(o) PROVE Onward
    BY <1>1, <1>3 DEF Release
  <1>4. ASSUME NEW p, NEW s, NEW o, Store(p, s, o) PROVE Onward
    BY <1>4 DEF Store
  <1>5. ASSUME CollectAtCheckpoint PROVE Onward
    BY <1>5 DEF CollectAtCheckpoint, BeginPass, collecting, draining
  <1>6. ASSUME NEW o \in Obj, DrainPop(o) PROVE Onward
    BY <1>6 DEF DrainPop
  <1>7. ASSUME DrainContents \/ DrainContentsDone \/ DrainForeign \/ DrainCallbackReturns \/ DrainFinish
        PROVE  Onward
    BY <1>7 DEF DrainContents, DrainContentsDone, DrainForeign, DrainCallbackReturns, DrainFinish
  <1>8. ASSUME DrainEnd PROVE Onward
    BY <1>1, <1>8 DEF DrainEnd
  <1> QED
    BY <1>2, <1>3, <1>4, <1>5, <1>6, <1>7, <1>8 DEF Program, Drain

LEMMA MutatorCalm ==
    ASSUME CollectorInv, Program \/ Drain
    PROVE  /\ phase \in {"idle", "callback"} \/ (phase = "reclaim" /\ drainPc # "off")
           /\ Gray = {} /\ White = {} /\ restore = {} /\ work = {}
           /\ Trial = dead
           /\ Live \cap dead = {}
           /\ RootEntries = 1 .. Len(roots)
  <1>1. Running \/ drainPc # "off"
    BY DEF Program, Drain, New, Retain, Release, Store, CollectAtCheckpoint, DrainPop, DrainContents,
           DrainContentsDone, DrainForeign, DrainCallbackReturns, DrainFinish, DrainEnd
  <1>2. TypeOK /\ Shape
    BY DEF CollectorInv, WellFormed
  <1>3. phase \in {"idle", "callback"} \/ (phase = "reclaim" /\ drainPc # "off")
    BY <1>1, <1>2 DEF Running, Shape, TypeOK, Phases
  <1>4. Gray = {} /\ White = {}
    BY <1>3 DEF CollectorInv, ColourInv
  <1>5. restore = {} /\ work = {} /\ (phase # "callback" => dead = {})
    BY <1>2, <1>3 DEF Shape
  <1>6. Trial = dead
    BY <1>4, <1>5, TrialSplit
  <1>7. Live \cap dead = {}
    BY <1>3, <1>5 DEF CollectorInv, DeadInv, Live
  <1>8. RootEntries = 1 .. Len(roots)
    BY <1>3 DEF RootEntries
  <1> QED
    BY <1>3, <1>4, <1>5, <1>6, <1>7, <1>8

\* What a step of the program or of the drain has to show; the rest follows.
LEMMA MutatorKeeps ==
    ASSUME CollectorInv, Program \/ Drain,
           \A o \in Obj : colour'[o] \in {"black", "purple"},
           BlockInv', DrainInv', ShellInv', DeadInv',
           Exact(rc', ext', field', alloc' \ dead),
           \A o \in Obj \ Live' : rc'[o] = 0,
           \A o \in Live' : rc'[o] > 0,
           Indexed(roots', buffered', rootIndex', 1 .. Len(roots')),
           \A U \in SUBSET Obj : Orphans(U, alloc \ dead)' => U \cap Purple' # {}
    PROVE  CollectorInv'
  <1>1. WellFormed'
    BY TypeStep DEF CollectorInv, WellFormed, Next
  <1>2. Onward
    BY MutatorOnward
  <1>3. /\ phase \in {"idle", "callback"} \/ (phase = "reclaim" /\ drainPc # "off")
        /\ restore = {} /\ work = {}
    BY MutatorCalm
  <1>4. Gray' = {} /\ White' = {}
    BY DEF Gray, White
  <1>5. dead' = dead /\ restore' = {} /\ work' = {} /\ Trial' = dead
    BY <1>2, <1>3, <1>4 DEF Onward, Trial, Gray, White
  <1>6. phase' \in {"idle", "callback", "reclaim"} \/ (phase' = "mark" /\ cursor' = 1 /\ kept' = 0)
    BY <1>2, <1>3 DEF Onward
  <1>7. ColourInv' /\ RootInv'
    BY <1>4, <1>5, <1>6 DEF ColourInv, RootInv
  <1>8. VisitInv'
    BY <1>4, <1>5, <1>6 DEF VisitInv, VisitMark, VisitGray, VisitWhite, VisitDead
  <1>9. FreedInv'
    <2>1. CASE phase = "callback" /\ ~freed
      BY <2>1 DEF CollectorInv, DeadInv, FreedInv
    <2>2. CASE phase = "reclaim" /\ ~freed
      BY <1>3, <2>2 DEF CollectorInv, FreedInv
    <2>3. CASE phase = "idle" \/ freed
      BY <1>2, <2>3 DEF Onward, FreedInv
    <2> QED
      BY <1>3, <2>1, <2>2, <2>3
  <1>10. IndexInv'
    <2>1. Len(roots') \in Nat
      BY <1>1 DEF WellFormed, TypeOK
    <2>2. RootEntries' = 1 .. Len(roots')
      <3>1. PICK n \in Nat : n = Len(roots')
        BY <2>1
      <3>2. (1 .. 0) \cup (1 .. n) = 1 .. n
        OBVIOUS
      <3>3. CASE phase' = "mark" /\ cursor' = 1 /\ kept' = 0
        BY <3>1, <3>2, <3>3 DEF RootEntries
      <3>4. CASE phase' # "mark"
        BY <3>4 DEF RootEntries
      <3> QED
        BY <1>6, <3>3, <3>4
    <2> QED
      BY <1>6, <2>2 DEF IndexInv
  <1>11. GarbageInv'
    BY <1>4, <1>6 DEF GarbageInv
  <1>12. CountInv'
    <2>1. Live' \subseteq alloc' \ dead
      BY <1>1, <1>5, <1>6 DEF WellFormed, Shape, DeadInv, Live
    <2>2. /\ ext' \in [Obj -> Nat] /\ field' \in Graph /\ alloc' \ dead \in SUBSET Obj
      BY <1>1 DEF WellFormed, TypeOK, Graph
    <2>3. \A p \in Live', s \in Slots : field'[p][s] # Null => field'[p][s] \in Live'
      BY <2>1, <2>2, ClosedBy
    <2>4. LiveCounted'
      BY DEF LiveCounted
    <2> QED
      BY <1>5, <2>3, <2>4 DEF CountInv, LiveClosed
  <1> QED
    BY <1>1, <1>7, <1>8, <1>9, <1>10, <1>11, <1>12 DEF CollectorInv

\* The invariant outside the walks, without what only the walks need.
LEMMA CalmFacts ==
    ASSUME CollectorInv, Program \/ Drain
    PROVE  /\ TypeOK /\ field \in Graph /\ alloc \ dead \in SUBSET Obj /\ ext \in [Obj -> Nat]
           /\ \A o \in Obj : colour[o] \in {"black", "purple"}
           /\ Exact(rc, ext, field, alloc \ dead)
           /\ \A o \in Obj \ Live : rc[o] = 0
           /\ \A o \in Live : rc[o] > 0
           /\ Indexed(roots, buffered, rootIndex, 1 .. Len(roots))
           /\ \A U \in SUBSET Obj : Orphans(U, alloc \ dead) => U \cap Purple # {}
  <1>1. /\ phase \in {"idle", "callback", "reclaim"}
        /\ Gray = {} /\ White = {} /\ Trial = dead /\ Live \cap dead = {}
        /\ RootEntries = 1 .. Len(roots)
    BY MutatorCalm
  <1>2. TypeOK /\ field \in Graph /\ alloc \ dead \in SUBSET Obj /\ ext \in [Obj -> Nat]
    BY DEF CollectorInv, WellFormed, TypeOK, Graph
  <1>3. \A o \in Obj : colour[o] \in {"black", "purple"}
    BY <1>1, <1>2 DEF Gray, White, TypeOK, Colours
  <1>4. /\ Exact(rc, ext, field, alloc \ dead)
        /\ \A o \in Obj \ Live : rc[o] = 0
        /\ \A o \in Live : rc[o] > 0
    BY <1>1 DEF CollectorInv, CountInv, LiveCounted
  <1>5. Indexed(roots, buffered, rootIndex, 1 .. Len(roots))
    BY <1>1 DEF CollectorInv, IndexInv
  <1>6. \A U \in SUBSET Obj : Orphans(U, alloc \ dead) => U \cap Purple # {}
    BY <1>1 DEF CollectorInv, GarbageInv
  <1> QED
    BY <1>2, <1>3, <1>4, <1>5, <1>6

\* A step that leaves the heap, the headers and the lists alone.
LEMMA QuietKeeps ==
    ASSUME CollectorInv, Program \/ Drain,
           UNCHANGED <<alloc, field, ext, headerVars, dying, drainObj>>, foreign' \subseteq foreign,
           DrainInv'
    PROVE  CollectorInv'
  <1>1. Onward
    BY MutatorOnward
  <1>2. BlockInv'
    BY DEF CollectorInv, BlockInv, Empty, Gray, White, Purple, Live, headerVars
  <1>3. Shells' = Shells
    BY <1>1 DEF Onward, Shells, headerVars
  <1>4. ShellInv'
    BY <1>1, <1>3 DEF CollectorInv, ShellInv, Onward, Empty, headerVars
  <1>5. DeadInv'
    BY <1>1 DEF CollectorInv, DeadInv, Onward, Live, headerVars
  <1>6. \A U \in SUBSET Obj : Orphans(U, alloc \ dead)' => U \cap Purple' # {}
    <2>1. ASSUME NEW U \in SUBSET Obj, Orphans(U, alloc \ dead)' PROVE Orphans(U, alloc \ dead)
      BY <1>1, <2>1 DEF Orphans, Live, headerVars, Onward
    <2> QED
      BY <2>1, CalmFacts DEF Purple, headerVars
  <1>7. \A o \in Obj \ Live' : rc'[o] = 0
    BY CalmFacts DEF Live, headerVars
  <1>8. \A o \in Live' : rc'[o] > 0
    BY CalmFacts DEF Live, headerVars
  <1>9. /\ Exact(rc', ext', field', alloc' \ dead)
        /\ Indexed(roots', buffered', rootIndex', 1 .. Len(roots'))
        /\ \A o \in Obj : colour'[o] \in {"black", "purple"}
    BY CalmFacts DEF headerVars
  <1> QED
    BY <1>2, <1>4, <1>5, <1>6, <1>7, <1>8, <1>9, MutatorKeeps

LEMMA QuietSteps ==
    ASSUME CollectorInv,
           CollectAtCheckpoint \/ DrainContentsDone \/ DrainForeign \/ DrainCallbackReturns \/ DrainEnd
    PROVE  CollectorInv'
  <1>1. Program \/ Drain
    BY DEF Program, Drain
  <1>2. UNCHANGED <<alloc, field, ext, headerVars, dying, drainObj>> /\ foreign' \subseteq foreign
    BY DEF CollectAtCheckpoint, DrainContentsDone, DrainForeign, DrainCallbackReturns, DrainEnd,
           heapVars, drainVars
  <1>3. DrainInv /\ TypeOK
    BY DEF CollectorInv, WellFormed
  <1>4. phase' = "idle" => phase = "idle"
    BY <1>1, MutatorOnward DEF Onward
  <1>5. DrainInv'
    <2>1. CASE CollectAtCheckpoint \/ DrainCallbackReturns \/ DrainEnd
      BY <1>2, <1>3, <1>4, <2>1 DEF CollectAtCheckpoint, DrainCallbackReturns, DrainEnd, heapVars,
           drainVars, headerVars, DrainInv, Empty
    <2>2. CASE DrainContentsDone
      <3>1. \A s \in Slots : s < drainSlot
        BY <1>3, <2>2, CollectorAssumption DEF DrainContentsDone, Slots, TypeOK, DrainInv
      <3> QED
        BY <1>2, <1>3, <1>4, <2>2, <3>1 DEF DrainContentsDone, heapVars, headerVars, DrainInv, Empty
    <2>3. CASE DrainForeign
      BY <1>2, <1>3, <1>4, <2>3 DEF DrainForeign, headerVars, DrainInv, Empty
    <2> QED
      BY <2>1, <2>2, <2>3
  <1> QED
    BY <1>1, <1>2, <1>5, QuietKeeps

LEMMA NewKeeps ==
    ASSUME CollectorInv, NEW o \in Obj, New(o)
    PROVE  CollectorInv'
  <1>1. Program \/ Drain
    BY DEF Program
  <1>2. /\ o \notin alloc /\ alloc' = alloc \cup {o} /\ field' = field
        /\ UNCHANGED <<buffered, doomed, roots, dying, drainPc, drainObj, drainSlot>>
        /\ UNCHANGED <<phase, dead, zeroed, freeing>>
        /\ foreign' \subseteq foreign \cup {o}
        /\ ext' = [ext EXCEPT ![o] = 1] /\ rc' = [rc EXCEPT ![o] = 1]
        /\ colour' = [colour EXCEPT ![o] = "black"]
        /\ rootIndex' = [rootIndex EXCEPT ![o] = RootNone]
    BY DEF New, drainVars, passVars, walkVars
  <1>3. TypeOK /\ BlockInv /\ DrainInv /\ ShellInv /\ DeadInv
    BY DEF CollectorInv, WellFormed
  <1>4. o \notin doomed /\ o \notin buffered /\ o \notin Live /\ Empty(o)
    BY <1>2, <1>3 DEF BlockInv, Live
  <1>5. o \notin dead /\ o \notin dying /\ o # drainObj /\ o \notin Shells /\ o # freeing
    <2>1. dead \subseteq doomed
      BY <1>1, <1>3, MutatorCalm DEF CollectorInv, WellFormed, Shape, DeadInv
    <2> QED
      BY <1>3, <1>4, <2>1, CollectorAssumption DEF DrainInv, Shells, DeadInv
  <1>6. rc[o] = 0 /\ ext[o] = 0
    BY <1>1, <1>4, CalmFacts, ExactFacts
  <1>7. Live' = Live \cup {o} /\ Shells' = Shells
    BY <1>2, <1>4 DEF Live, Shells
  <1>8. Purple' = Purple /\ Gray' = Gray /\ White' = White
    <2>1. colour[o] = "black"
      BY <1>1, <1>3, <1>4, CalmFacts DEF BlockInv, Purple
    <2> QED
      BY <1>2, <1>3, <2>1 DEF Purple, Gray, White, TypeOK
  <1>9. BlockInv'
    BY <1>2, <1>3, <1>7, <1>8 DEF BlockInv, Empty
  <1>10. DrainInv' /\ ShellInv' /\ DeadInv'
    <2>1. DrainInv'
      BY <1>2, <1>3, <1>5, CollectorAssumption DEF DrainInv, Empty, TypeOK
    <2>2. ShellInv'
      BY <1>2, <1>3, <1>5, <1>7 DEF ShellInv, Empty
    <2>3. DeadInv'
      BY <1>2, <1>3, <1>5, <1>7 DEF DeadInv, TypeOK
    <2> QED
      BY <2>1, <2>2, <2>3
  <1>11. Exact(rc', ext', field', alloc' \ dead)
    <2>1. ASSUME NEW x \in Obj PROVE Refs(field', alloc' \ dead, x) = Refs(field, alloc \ dead, x)
      BY <1>2, <1>4, CollectorAssumption, RefsSame DEF Empty
    <2>2. ASSUME NEW x \in Obj, x # o PROVE rc'[x] = rc[x] /\ ext'[x] = ext[x]
      BY <1>2, <1>3, <2>2 DEF TypeOK
    <2>3. rc'[o] = 1 /\ ext'[o] = 1
      BY <1>2, <1>3 DEF TypeOK
    <2>4. Cardinality(Refs(field, alloc \ dead, o)) = 0
      <3>1. rc[o] = ext[o] + Cardinality(Refs(field, alloc \ dead, o))
        BY <1>1, CalmFacts DEF Exact
      <3>2. Cardinality(Refs(field, alloc \ dead, o)) \in Nat
        BY <1>1, CalmFacts, RefsFinite
      <3> QED
        BY <1>6, <3>1, <3>2
    <2>5. \A x \in Obj : rc[x] = ext[x] + Cardinality(Refs(field, alloc \ dead, x))
      BY <1>1, CalmFacts DEF Exact
    <2>6. ASSUME NEW x \in Obj PROVE rc'[x] = ext'[x] + Cardinality(Refs(field', alloc' \ dead, x))
      <3>1. CASE x = o
        BY <2>1, <2>3, <2>4, <3>1
      <3>2. CASE x # o
        BY <2>1, <2>2, <2>5, <3>2
      <3> QED
        BY <3>1, <3>2
    <2> QED
      BY <2>6 DEF Exact
  <1>12. (\A x \in Obj \ Live' : rc'[x] = 0) /\ (\A x \in Live' : rc'[x] > 0)
    BY <1>1, <1>2, <1>3, <1>7, CalmFacts DEF TypeOK
  <1>13. Indexed(roots', buffered', rootIndex', 1 .. Len(roots'))
    <2>1. rootIndex' = rootIndex
      BY <1>1, <1>2, <1>3, <1>4, CalmFacts DEF Indexed, TypeOK
    <2> QED
      BY <1>1, <1>2, <2>1, CalmFacts
  <1>14. \A U \in SUBSET Obj : Orphans(U, alloc \ dead)' => U \cap Purple' # {}
    <2>1. ASSUME NEW U \in SUBSET Obj, Orphans(U, alloc \ dead)' PROVE Orphans(U, alloc \ dead)
      <3>1. o \notin U
        BY <1>2, <1>3, <2>1 DEF Orphans, TypeOK
      <3> QED
        BY <1>2, <1>3, <1>7, <2>1, <3>1 DEF Orphans, TypeOK
    <2> QED
      BY <1>1, <1>8, <2>1, CalmFacts
  <1>15. \A x \in Obj : colour'[x] \in {"black", "purple"}
    BY <1>1, <1>2, <1>3, CalmFacts DEF TypeOK
  <1> QED
    BY <1>1, <1>9, <1>10, <1>11, <1>12, <1>13, <1>14, <1>15, MutatorKeeps

\* What the program holds, or reads from what it holds, is in use.
LEMMA HeldLive ==
    ASSUME CollectorInv, Program \/ Drain, NEW o \in Obj
    PROVE  /\ ext[o] > 0 => o \in Live
           /\ \A p \in Live, s \in Slots : field[p][s] = o => o \in Live
           /\ o \in Live => /\ o \in alloc \ dead /\ o \notin doomed /\ o # drainObj
                            /\ o \notin Shells /\ rc[o] \in Nat /\ rc[o] > 0
  <1>1. ext[o] > 0 => o \in Live
    BY CalmFacts, ExactFacts
  <1>2. \A p \in Live, s \in Slots : field[p][s] = o => o \in Live
    BY CollectorAssumption DEF CollectorInv, CountInv, LiveClosed
  <1>3. o \in Live => o \in alloc \ dead /\ o \notin doomed
    BY MutatorCalm DEF Live
  <1>4. o \notin doomed => o # drainObj /\ o \notin Shells
    BY CollectorAssumption DEF CollectorInv, DrainInv, Shells
  <1>5. rc[o] \in Nat /\ (o \in Live => rc[o] > 0)
    BY CalmFacts, ExactFacts
  <1> QED
    BY <1>1, <1>2, <1>3, <1>4, <1>5

LEMMA RetainKeeps ==
    ASSUME CollectorInv, NEW o \in Obj, Retain(o)
    PROVE  CollectorInv'
  <1>1. Program \/ Drain
    BY DEF Program
  <1>2. TypeOK /\ BlockInv /\ DrainInv /\ ShellInv /\ DeadInv
    BY DEF CollectorInv, WellFormed
  <1>3. o \in Live
    <2>1. ASSUME NEW p \in Obj, ext[p] > 0, o \in Children(p) PROVE o \in Live
      <3>1. p \in Live
        BY <1>1, <2>1, HeldLive
      <3>2. PICK s \in Slots : field[p][s] = o
        BY <2>1 DEF Children
      <3> QED
        BY <1>1, <3>1, <3>2, HeldLive
    <2> QED
      BY <1>1, <2>1, HeldLive DEF Retain
  <1>4. /\ o \in alloc \ dead /\ o \notin doomed
        /\ rc[o] \in Nat /\ rc[o] > 0 /\ ext[o] \in Nat
    BY <1>1, <1>2, <1>3, HeldLive DEF TypeOK
  <1>5. /\ rc' = [rc EXCEPT ![o] = @ + 1] /\ ext' = [ext EXCEPT ![o] = @ + 1]
        /\ colour' = [colour EXCEPT ![o] = "black"]
        /\ UNCHANGED <<alloc, field, foreign, buffered, doomed, rootIndex, roots, dying>>
        /\ UNCHANGED <<drainPc, drainObj, drainSlot, phase, dead, zeroed, freeing>>
    BY <1>4 DEF Retain, drainVars, passVars, walkVars
  <1>6. /\ rc'[o] = rc[o] + 1 /\ ext'[o] = ext[o] + 1
        /\ \A x \in Obj : x # o => rc'[x] = rc[x] /\ ext'[x] = ext[x] /\ colour'[x] = colour[x]
        /\ colour'[o] = "black"
    BY <1>2, <1>5 DEF TypeOK
  <1>7. Live' = Live /\ Shells' = Shells
    BY <1>5 DEF Live, Shells
  <1>8. Purple' = Purple \ {o} /\ Gray' = Gray \ {o} /\ White' = White \ {o}
    BY <1>6 DEF Purple, Gray, White
  <1>9. BlockInv' /\ DrainInv' /\ ShellInv' /\ DeadInv'
    <2>1. BlockInv'
      BY <1>2, <1>5, <1>7, <1>8 DEF BlockInv, Empty
    <2>2. DrainInv' /\ ShellInv'
      BY <1>2, <1>5, <1>7 DEF DrainInv, ShellInv, Empty
    <2>3. DeadInv'
      BY <1>2, <1>4, <1>5, <1>6, <1>7 DEF DeadInv, TypeOK
    <2> QED
      BY <2>1, <2>2, <2>3
  <1>10. Exact(rc', ext', field', alloc' \ dead)
    <2>1. ASSUME NEW x \in Obj PROVE rc'[x] = ext'[x] + Cardinality(Refs(field, alloc \ dead, x))
      <3>1. PICK n : n = Cardinality(Refs(field, alloc \ dead, x))
        OBVIOUS
      <3>2. rc[x] = ext[x] + n
        BY <1>1, <3>1, CalmFacts DEF Exact
      <3>3. n \in Nat
        BY <1>1, <3>1, CalmFacts, RefsFinite
      <3> QED
        BY <1>4, <1>6, <3>1, <3>2, <3>3
    <2> QED
      BY <1>5, <2>1 DEF Exact
  <1>11. (\A x \in Obj \ Live' : rc'[x] = 0) /\ (\A x \in Live' : rc'[x] > 0)
    <2>1. rc'[o] > 0
      BY <1>4, <1>6
    <2> QED
      BY <1>1, <1>2, <1>3, <1>6, <1>7, <2>1, CalmFacts DEF Live, TypeOK
  <1>12. Indexed(roots', buffered', rootIndex', 1 .. Len(roots'))
    BY <1>1, <1>5, CalmFacts
  <1>13. \A U \in SUBSET Obj : Orphans(U, alloc \ dead)' => U \cap Purple' # {}
    <2>1. ASSUME NEW U \in SUBSET Obj, Orphans(U, alloc \ dead)'
          PROVE  Orphans(U, alloc \ dead) /\ o \notin U
      <3>1. ext'[o] # 0
        BY <1>4, <1>6
      <3>2. o \notin U
        BY <2>1, <3>1 DEF Orphans
      <3> QED
        BY <1>5, <1>6, <1>7, <2>1, <3>2 DEF Orphans
    <2>2. \A U \in SUBSET Obj : Orphans(U, alloc \ dead) => U \cap Purple # {}
      BY <1>1, CalmFacts
    <2>3. ASSUME NEW U \in SUBSET Obj, Orphans(U, alloc \ dead)'
          PROVE  U \cap Purple' # {}
      <3>1. PICK u \in U : u \in Purple
        BY <2>1, <2>2, <2>3
      <3>2. u \in Purple'
        BY <1>8, <2>1, <2>3, <3>1
      <3> QED
        BY <3>1, <3>2
    <2> QED
      BY <2>3
  <1>14. \A x \in Obj : colour'[x] \in {"black", "purple"}
    BY <1>1, <1>6, CalmFacts
  <1> QED
    BY <1>1, <1>9, <1>10, <1>11, <1>12, <1>13, <1>14, MutatorKeeps

LEMMA StoreKeeps ==
    ASSUME CollectorInv, NEW p \in Obj, NEW s \in Slots, NEW o \in Obj \cup {Null}, Store(p, s, o)
    PROVE  CollectorInv'
  <1>1. Program \/ Drain
    BY DEF Program
  <1>2. TypeOK /\ BlockInv /\ DrainInv /\ ShellInv /\ DeadInv
    BY DEF CollectorInv, WellFormed
  <1>3. PICK old : old = field[p][s]
    OBVIOUS
  <1>4. /\ o # old /\ (o # Null => o \in Obj /\ ext[o] > 0 /\ <<p, o>> \in MayHold)
        /\ (IF p = o THEN ext[p] - 1 ELSE ext[p]) > 0
        /\ field' = [field EXCEPT ![p][s] = o]
        /\ ext' = [x \in Obj |-> IF x = old THEN (IF x = o THEN ext[x] - 1 ELSE ext[x]) + 1
                                 ELSE IF x = o THEN ext[x] - 1 ELSE ext[x]]
        /\ UNCHANGED <<alloc, foreign, headerVars, drainVars, passVars>>
    BY <1>3 DEF Store
  <1>5. ext \in [Obj -> Nat] /\ field \in Graph /\ alloc \ dead \in SUBSET Obj
    BY <1>1, CalmFacts
  <1>6. p \in Live /\ p \in alloc \ dead /\ p # drainObj /\ p \notin Shells
    <2>1. ext[p] > 0
      BY <1>4, <1>5
    <2> QED
      BY <1>1, <2>1, HeldLive
  <1>7. /\ \A x \in Obj : x # o /\ x # old => ext'[x] = ext[x]
        /\ old \in Obj => ext'[old] = ext[old] + 1
        /\ o \in Obj => ext'[o] = ext[o] - 1
        /\ ext'[p] > 0
    BY <1>4, <1>5
  <1>8. /\ field'[p][s] = o
        /\ \A q \in Obj, t \in Slots : <<q, t>> # <<p, s>> => field'[q][t] = field[q][t]
        /\ \A q \in Obj : q # p => field'[q] = field[q]
        /\ field' \in Graph
    BY <1>4, <1>5 DEF Graph
  <1>9. /\ UNCHANGED <<rc, colour, buffered, doomed, rootIndex, roots, dying>>
        /\ UNCHANGED <<drainPc, drainObj, drainSlot, phase, dead, zeroed, freeing>>
    BY <1>4 DEF headerVars, drainVars, passVars
  <1>10. /\ Live' = Live /\ Shells' = Shells
         /\ Purple' = Purple /\ Gray' = Gray /\ White' = White
    BY <1>9, <1>4 DEF Live, Shells, Purple, Gray, White
  <1>11. BlockInv' /\ DrainInv' /\ ShellInv' /\ DeadInv'
    <2>1. BlockInv'
      <3>1. \A q \in Obj, t \in Slots : field'[q][t] # Null => <<q, field'[q][t]>> \in MayHold
        BY <1>2, <1>4, <1>8 DEF BlockInv
      <3>2. \A q \in Obj \ alloc' : Empty(q)'
        BY <1>2, <1>4, <1>6, <1>8 DEF BlockInv, Empty
      <3> QED
        BY <1>2, <1>4, <1>9, <1>10, <3>1, <3>2 DEF BlockInv
    <2>2. DrainInv'
      <3>1. drainObj # Null => drainObj \in Obj /\ field'[drainObj] = field[drainObj]
        BY <1>2, <1>6, <1>8 DEF DrainInv, TypeOK
      <3>2. drainPc \in {"contents", "foreign", "callback", "finish"} => drainObj # Null
        BY <1>2, CollectorAssumption DEF TypeOK
      <3> QED
        BY <1>2, <1>4, <1>9, <3>1, <3>2 DEF DrainInv, Empty
    <2>3. ShellInv'
      <3>1. \A x \in Shells : field'[x] = field[x]
        BY <1>2, <1>6, <1>8 DEF Shells, TypeOK
      <3> QED
        BY <1>2, <1>4, <1>9, <1>10, <3>1 DEF ShellInv, Empty
    <2>4. DeadInv'
      BY <1>2, <1>4, <1>9, <1>10 DEF DeadInv
    <2> QED
      BY <2>1, <2>2, <2>3, <2>4
  <1>12. Exact(rc', ext', field', alloc' \ dead)
    <2> DEFINE A == alloc \ dead
    <2>1. /\ Cardinality(Refs(field, A, old)) = Cardinality(Refs(field', A, old)) + 1
          /\ Cardinality(Refs(field', A, o)) = Cardinality(Refs(field, A, o)) + 1
          /\ \A x : x # o /\ x # old => Refs(field', A, x) = Refs(field, A, x)
      <3>1. A \in SUBSET Obj /\ p \in A /\ o # field[p][s]
        BY <1>3, <1>4, <1>5, <1>6
      <3> HIDE DEF A
      <3>2. /\ Cardinality(Refs(field, A, field[p][s])) = Cardinality(Refs(field', A, field[p][s])) + 1
            /\ Cardinality(Refs(field', A, o)) = Cardinality(Refs(field, A, o)) + 1
            /\ \A x : x # o /\ x # field[p][s] => Refs(field', A, x) = Refs(field, A, x)
        <4>1. field'[p][s] = o /\ \A q \in A, t \in Slots : <<q, t>> # <<p, s>> => field'[q][t] = field[q][t]
          BY <1>8, <3>1
        <4> QED
          BY <3>1, <4>1, RefsPut
      <3> QED
        BY <1>3, <3>2
    <2>2. ASSUME NEW x \in Obj PROVE rc[x] = ext'[x] + Cardinality(Refs(field', A, x))
      <3>1. PICK n : n = Cardinality(Refs(field, A, x))
        OBVIOUS
      <3>2. PICK m : m = Cardinality(Refs(field', A, x))
        OBVIOUS
      <3>3. rc[x] = ext[x] + n /\ n \in Nat /\ m \in Nat /\ ext[x] \in Nat
        BY <1>1, <1>5, <3>1, <3>2, CalmFacts, RefsFinite DEF Exact
      <3>4. CASE x = o
        BY <1>7, <2>1, <3>1, <3>2, <3>3, <3>4
      <3>5. CASE x = old
        BY <1>7, <2>1, <3>1, <3>2, <3>3, <3>5
      <3>6. CASE x # o /\ x # old
        BY <1>7, <2>1, <3>1, <3>2, <3>3, <3>6
      <3> QED
        BY <3>4, <3>5, <3>6
    <2> QED
      BY <1>4, <1>9, <2>2 DEF Exact
  <1>13. (\A x \in Obj \ Live' : rc'[x] = 0) /\ (\A x \in Live' : rc'[x] > 0)
    BY <1>1, <1>9, <1>10, CalmFacts
  <1>14. Indexed(roots', buffered', rootIndex', 1 .. Len(roots'))
    BY <1>1, <1>9, CalmFacts
  <1>15. \A U \in SUBSET Obj : Orphans(U, alloc \ dead)' => U \cap Purple' # {}
    <2>1. ASSUME NEW U \in SUBSET Obj, Orphans(U, alloc \ dead)'
          PROVE  Orphans(U, alloc \ dead)
      <3>1. p \notin U
        BY <1>7, <2>1 DEF Orphans
      <3>2. o \notin U
        BY <1>4, <1>6, <1>8, <1>9, <2>1, <3>1 DEF Orphans
      <3>3. old \notin U
        <4>1. ASSUME old \in U PROVE FALSE
          <5>1. old \in Obj /\ ext'[old] = 0
            BY <4>1, <2>1 DEF Orphans
          <5> QED
            BY <1>5, <1>7, <5>1
        <4> QED
          BY <4>1
      <3>4. ASSUME NEW u \in U, NEW q \in alloc \ dead, NEW t \in Slots, field[q][t] = u
            PROVE  q \in U
        <4>1. <<q, t>> # <<p, s>>
          BY <1>3, <3>3, <3>4
        <4>2. field'[q][t] = u
          BY <1>5, <1>8, <3>4, <4>1
        <4> QED
          BY <1>4, <1>9, <2>1, <4>2 DEF Orphans
      <3>5. \A u \in U : ext[u] = 0
        BY <1>7, <2>1, <3>2, <3>3 DEF Orphans
      <3> QED
        BY <1>10, <2>1, <3>4, <3>5 DEF Orphans
    <2> QED
      BY <1>1, <1>10, <2>1, CalmFacts
  <1>16. \A x \in Obj : colour'[x] \in {"black", "purple"}
    BY <1>1, <1>9, CalmFacts
  <1> QED
    BY <1>1, <1>11, <1>12, <1>13, <1>14, <1>15, <1>16, MutatorKeeps

\* A candidate is appended to a buffer that does not name it.
LEMMA IndexedAppend ==
    ASSUME NEW b \in Seq(Obj), NEW m, NEW x \in [Obj -> Nat], Indexed(b, m, x, 1 .. Len(b)),
           NEW o \in Obj, o \notin m
    PROVE  Indexed(Append(b, o), m \cup {o}, [x EXCEPT ![o] = Len(b) + 1], 1 .. Len(Append(b, o)))
  <1> DEFINE c == Append(b, o)
             y == [x EXCEPT ![o] = Len(b) + 1]
             n == Len(b)
  <1>1. /\ n \in Nat /\ Len(c) = n + 1 /\ c[n + 1] = o
        /\ \A i \in 1 .. n : c[i] = b[i] /\ b[i] \in Obj
    OBVIOUS
  <1>2. y[o] = n + 1 /\ \A z \in Obj : z # o => y[z] = x[z]
    OBVIOUS
  <1>3. 1 .. (n + 1) = (1 .. n) \cup {n + 1}
    BY <1>1
  <1>4. /\ \A i \in 1 .. n : b[i] \in m /\ x[b[i]] = i
        /\ \A z \in m : x[z] \in 1 .. n /\ b[x[z]] = z
        /\ \A z \in Obj \ m : x[z] = RootNone
    BY DEF Indexed
  <1>5. \A i \in 1 .. n : b[i] # o
    BY <1>4
  <1> HIDE DEF c, y, n
  <1>6. \A i \in 1 .. (n + 1) : c[i] \in m \cup {o} /\ y[c[i]] = i
    BY <1>1, <1>2, <1>3, <1>4, <1>5
  <1>7. m \subseteq Obj
    <2>1. ASSUME NEW z \in m PROVE z \in Obj
      BY <1>1, <1>4
    <2> QED
      BY <2>1
  <1>8. \A z \in m \cup {o} : y[z] \in 1 .. (n + 1) /\ c[y[z]] = z
    <2>1. ASSUME NEW z \in m PROVE y[z] = x[z] /\ x[z] \in 1 .. n /\ c[x[z]] = z
      BY <1>1, <1>2, <1>4, <1>7
    <2> QED
      BY <1>1, <1>2, <1>3, <2>1
  <1>9. \A z \in Obj \ (m \cup {o}) : y[z] = RootNone
    BY <1>2, <1>4
  <1>10. Indexed(c, m \cup {o}, y, 1 .. Len(c))
    BY <1>1, <1>6, <1>8, <1>9 DEF Indexed
  <1> QED
    BY <1>10 DEF c, y, n

\* nts_release of an object in use: it becomes a candidate or it is dying.
LEMMA DropHeader ==
    ASSUME CollectorInv, Program \/ Drain, NEW c \in Obj, c \in Live, ReleaseRef(c)
    PROVE  /\ rc' = [rc EXCEPT ![c] = @ - 1]
           /\ buffered \subseteq buffered' /\ buffered' \subseteq buffered \cup {c}
           /\ Indexed(roots', buffered', rootIndex', 1 .. Len(roots'))
           /\ \/ /\ rc[c] > 1
                 /\ UNCHANGED <<doomed, dying>>
                 /\ c \in Cyclic => c \in buffered' /\ colour' = [colour EXCEPT ![c] = "purple"]
                 /\ c \notin Cyclic => colour' = colour
              \/ /\ rc[c] = 1
                 /\ doomed' = doomed \cup {c} /\ dying' = dying \cup {c}
                 /\ colour' = [colour EXCEPT ![c] = "black"]
  <1>1. TypeOK /\ BlockInv
    BY DEF CollectorInv, WellFormed
  <1>2. c \notin doomed /\ rc[c] \in Nat /\ rc[c] > 0
    BY HeldLive
  <1>3. Indexed(roots, buffered, rootIndex, 1 .. Len(roots))
    BY CalmFacts
  <1>4. CASE rc[c] > 1
    <2>1. rc' = [rc EXCEPT ![c] = @ - 1] /\ PossibleRoot(c) /\ UNCHANGED <<doomed, dying>>
      BY <1>2, <1>4 DEF ReleaseRef
    <2>2. CASE c \in Cyclic /\ c \notin buffered
      <3>1. colour[c] # "purple"
        BY <1>1, <2>2 DEF BlockInv, Purple
      <3>2. /\ colour' = [colour EXCEPT ![c] = "purple"]
            /\ buffered' = buffered \cup {c}
            /\ rootIndex' = [rootIndex EXCEPT ![c] = Len(roots) + 1]
            /\ roots' = Append(roots, c)
        BY <2>1, <2>2, <3>1 DEF PossibleRoot
      <3>3. Indexed(Append(roots, c), buffered \cup {c}, [rootIndex EXCEPT ![c] = Len(roots) + 1],
                    1 .. Len(Append(roots, c)))
        BY <1>1, <1>3, <2>2, IndexedAppend DEF TypeOK
      <3>4. Indexed(roots', buffered', rootIndex', 1 .. Len(roots'))
        BY <3>2, <3>3
      <3> QED
        BY <1>4, <2>1, <2>2, <3>2, <3>4
    <2>3. CASE ~(c \in Cyclic /\ c \notin buffered)
      <3>1. /\ colour' = IF c \in Cyclic THEN [colour EXCEPT ![c] = "purple"] ELSE colour
            /\ buffered' = buffered /\ rootIndex' = rootIndex /\ roots' = roots
        BY <2>1, <2>3 DEF PossibleRoot
      <3> QED
        BY <1>3, <1>4, <2>1, <2>3, <3>1
    <2> QED
      BY <2>2, <2>3
  <1>5. CASE rc[c] = 1
    <2>1. /\ rc' = [rc EXCEPT ![c] = 0]
          /\ colour' = [colour EXCEPT ![c] = "black"]
          /\ doomed' = doomed \cup {c} /\ dying' = dying \cup {c}
          /\ UNCHANGED <<buffered, rootIndex, roots>>
      BY <1>2, <1>5 DEF ReleaseRef
    <2>2. rc' = [rc EXCEPT ![c] = @ - 1]
      BY <1>5, <2>1
    <2> QED
      BY <1>3, <1>5, <2>1, <2>2
  <1> QED
    BY <1>2, <1>4, <1>5

\* One reference to c goes, from the program or from an emptied slot.
LEMMA DropKeeps ==
    ASSUME CollectorInv, Program \/ Drain, NEW c \in Obj, c \in Live, ReleaseRef(c),
           alloc' = alloc, foreign' = foreign, drainObj' = drainObj, DrainInv',
           \A p \in Obj, s \in Slots :
              field'[p][s] = field[p][s] \/ (field[p][s] = c /\ field'[p][s] = Null),
           \A o \in Obj : o # c => ext'[o] = ext[o],
           Exact(rc', ext', field', alloc \ dead)
    PROVE  CollectorInv'
  <1>1. TypeOK /\ BlockInv /\ DrainInv /\ ShellInv /\ DeadInv
    BY DEF CollectorInv, WellFormed
  <1>2. c \in alloc \ dead /\ c \notin doomed /\ c # drainObj /\ c \notin Shells
    BY HeldLive
  <1>3. rc[c] \in Nat /\ rc[c] > 0
    BY HeldLive
  <1>4. /\ rc' = [rc EXCEPT ![c] = @ - 1]
        /\ buffered \subseteq buffered' /\ buffered' \subseteq buffered \cup {c}
        /\ Indexed(roots', buffered', rootIndex', 1 .. Len(roots'))
    BY DropHeader
  <1>5. rc'[c] = rc[c] - 1 /\ \A o \in Obj : o # c => rc'[o] = rc[o]
    BY <1>1, <1>4 DEF TypeOK
  <1>6. \/ /\ rc[c] > 1
           /\ UNCHANGED <<doomed, dying>>
           /\ c \in Cyclic => c \in buffered' /\ colour' = [colour EXCEPT ![c] = "purple"]
           /\ c \notin Cyclic => colour' = colour
        \/ /\ rc[c] = 1
           /\ doomed' = doomed \cup {c} /\ dying' = dying \cup {c}
           /\ colour' = [colour EXCEPT ![c] = "black"]
    BY DropHeader
  <1>7. /\ \A o \in Obj : o # c => colour'[o] = colour[o]
        /\ colour'[c] = colour[c] \/ colour'[c] = "black" \/ (colour'[c] = "purple" /\ c \in buffered' /\ c \notin doomed')
    BY <1>1, <1>2, <1>6 DEF TypeOK
  <1>8. \A o \in Obj : colour'[o] \in {"black", "purple"}
    BY <1>7, CalmFacts
  <1>9. Gray' = {} /\ White' = {}
    BY <1>8 DEF Gray, White
  <1>10. /\ (rc[c] > 1 /\ Live' = Live) \/ (rc[c] = 1 /\ Live' = Live \ {c})
         /\ Shells' = Shells
         /\ doomed' \subseteq doomed \cup {c} /\ dying' \subseteq dying \cup {c} /\ doomed \subseteq doomed'
    <2>1. dead' = dead
      BY MutatorOnward DEF Onward
    <2> QED
      BY <1>2, <1>3, <1>6, <2>1 DEF Live, Shells
  <1>11. Purple' \subseteq Live' \cap buffered'
    <2>1. ASSUME NEW o \in Purple' PROVE o \in Live' \cap buffered'
      <3>1. CASE o = c
        <4>1. CASE rc[c] > 1 /\ doomed' = doomed
          BY <1>1, <1>4, <1>6, <1>10, <2>1, <3>1, <4>1 DEF Purple, BlockInv
        <4>2. CASE colour' = [colour EXCEPT ![c] = "black"]
          BY <1>1, <2>1, <3>1, <4>2 DEF Purple, TypeOK
        <4> QED
          BY <1>6, <4>1, <4>2
      <3>2. CASE o # c
        <4>1. o \in Purple
          BY <1>7, <2>1, <3>2 DEF Purple
        <4> QED
          BY <1>1, <1>4, <1>10, <3>2, <4>1 DEF BlockInv
      <3> QED
        BY <3>1, <3>2
    <2> QED
      BY <2>1
  <1>12. \A o \in Obj : Empty(o) => Empty(o)'
    BY DEF Empty
  <1>13. BlockInv'
    <2>1. doomed' \subseteq alloc' /\ buffered' \subseteq alloc'
      BY <1>1, <1>2, <1>4, <1>10 DEF BlockInv
    <2>2. \A o \in Obj \ alloc' : Empty(o)'
      BY <1>1, <1>12 DEF BlockInv
    <2>3. \A p \in Obj, s \in Slots : field'[p][s] # Null => <<p, field'[p][s]>> \in MayHold
      BY <1>1 DEF BlockInv
    <2> QED
      BY <1>9, <1>11, <2>1, <2>2, <2>3 DEF BlockInv
  <1>14. ShellInv' /\ DeadInv'
    <2>1. /\ UNCHANGED <<dead, zeroed, freeing>>
          /\ (phase' = phase \/ (phase = "idle" /\ phase' = "mark"))
      BY MutatorOnward DEF Onward
    <2>2. ShellInv'
      <3>1. \A o \in Shells : o \in Obj
        BY <1>1 DEF Shells, TypeOK
      <3> QED
        BY <1>1, <1>2, <1>4, <1>10, <1>12, <2>1, <3>1 DEF ShellInv
    <2>3. DeadInv'
      <3>1. \A o \in dead : o \in Obj /\ o # c
        BY <1>1, <1>2 DEF TypeOK
      <3>2. dead' \cap (dying' \cup {drainObj'} \cup buffered') = {}
        BY <1>1, <1>2, <1>4, <1>10, <2>1 DEF DeadInv
      <3>3. phase' # "gather" /\ (phase' \in {"free", "callback"} => dead' \subseteq doomed')
        BY <1>1, <1>10, <2>1, MutatorCalm DEF DeadInv
      <3>4. \A o \in dead' : colour'[o] = "black" /\ rc'[o] = 0
        BY <1>1, <1>5, <1>7, <2>1, <3>1 DEF DeadInv
      <3> QED
        BY <1>1, <2>1, <3>2, <3>3, <3>4 DEF DeadInv
    <2> QED
      BY <2>2, <2>3
  <1>15. (\A o \in Obj \ Live' : rc'[o] = 0) /\ (\A o \in Live' : rc'[o] > 0)
    <2>1. c \in Live' => rc'[c] > 0
      BY <1>3, <1>5, <1>10
    <2>2. c \notin Live' => rc'[c] = 0
      BY <1>3, <1>5, <1>10
    <2>3. \A o \in Obj : o # c => rc'[o] = rc[o] /\ (o \in Live' <=> o \in Live)
      BY <1>5, <1>10
    <2>4. Live' \subseteq Obj
      BY <1>1, <1>10 DEF Live, TypeOK
    <2> QED
      BY <2>1, <2>2, <2>3, <2>4, CalmFacts
  <1>16. ASSUME NEW U \in SUBSET Obj, Orphans(U, alloc \ dead)' PROVE U \cap Purple' # {}
    <2>1. /\ U # {} /\ U \subseteq Live'
          /\ \A u \in U : ext'[u] = 0 /\ \A p \in alloc \ dead, s \in Slots : field'[p][s] = u => p \in U
      <3>1. dead' = dead
        BY MutatorOnward DEF Onward
      <3> QED
        BY <1>16, <3>1 DEF Orphans
    <2>2. ASSUME NEW V \in SUBSET U, c \notin V, V # {},
                 \A u \in V, p \in alloc \ dead, s \in Slots : field'[p][s] = u => p \in V
          PROVE  U \cap Purple' # {}
      <3>1. \A u \in V, p \in alloc \ dead, s \in Slots : field[p][s] = u => field'[p][s] = u
        BY <1>1, <2>2 DEF TypeOK
      <3>2. Orphans(V, alloc \ dead)
        BY <1>10, <2>1, <2>2, <3>1 DEF Orphans
      <3>3. PICK u \in V : u \in Purple
        BY <2>2, <3>2, CalmFacts
      <3>4. u \in Purple'
        BY <1>7, <2>2, <3>3 DEF Purple
      <3> QED
        BY <3>3, <3>4
    <2>3. CASE c \notin U
      BY <2>1, <2>2, <2>3
    <2>4. CASE c \in U
      <3>1. rc[c] > 1
        BY <1>2, <1>3, <1>6, <2>1, <2>4 DEF Live
      <3>2. CASE c \in Cyclic
        BY <1>1, <1>6, <2>4, <3>1, <3>2 DEF Purple, TypeOK
      <3>3. CASE c \notin Cyclic
        <4>1. PICK S \in SUBSET (Obj \ {c}) :
                \A p \in S \cup {c}, q \in Obj : <<p, q>> \in MayHold => q \in S
          BY <3>3, AcyclicAssumption
        <4>2. PICK V : V = U \ (S \cup {c})
          OBVIOUS
        <4>3. ASSUME NEW u \in V \cup {c}, NEW p \in alloc \ dead, NEW s \in Slots, field'[p][s] = u
              PROVE  p \in V
          <5>1. u \in U /\ u \notin S /\ u \in Obj /\ u # Null
            BY <2>4, <4>1, <4>2, <4>3, CollectorAssumption
          <5>2. <<p, u>> \in MayHold
            BY <1>1, <1>13, <4>3, <5>1 DEF BlockInv, TypeOK
          <5>3. p \in U
            BY <2>1, <4>3, <5>1
          <5> QED
            BY <4>1, <4>2, <5>1, <5>2, <5>3
        <4>4. PICK p \in alloc \ dead, s \in Slots : field'[p][s] = c
          <5>1. rc'[c] # 0
            BY <1>3, <1>5, <3>1
          <5>2. ext'[c] = 0
            BY <2>1, <2>4
          <5>3. rc'[c] = ext'[c] + Cardinality(Refs(field', alloc \ dead, c))
            BY DEF Exact
          <5>4. alloc \ dead \in SUBSET Obj
            BY CalmFacts
          <5>5. Cardinality(Refs(field', alloc \ dead, c)) \in Nat
            BY <5>4, RefsFinite
          <5>6. Cardinality(Refs(field', alloc \ dead, c)) # 0
            BY <5>1, <5>2, <5>3, <5>5
          <5> QED
            BY <5>4, <5>6, RefsFinite
        <4>5. p \in V
          BY <4>3, <4>4
        <4> QED
          BY <2>2, <4>2, <4>3, <4>5
      <3> QED
        BY <3>2, <3>3
    <2> QED
      BY <2>3, <2>4
  <1>17. Exact(rc', ext', field', alloc' \ dead)
    OBVIOUS
  <1> QED
    BY <1>4, <1>8, <1>13, <1>14, <1>15, <1>16, <1>17, MutatorKeeps

LEMMA ReleaseKeeps ==
    ASSUME CollectorInv, NEW o \in Obj, Release(o)
    PROVE  CollectorInv'
  <1>1. Program \/ Drain
    BY DEF Program
  <1>2. TypeOK /\ DrainInv
    BY DEF CollectorInv, WellFormed
  <1>3. /\ ext[o] > 0 /\ ext' = [ext EXCEPT ![o] = @ - 1] /\ ReleaseRef(o)
        /\ UNCHANGED <<alloc, field, foreign, drainObj, drainSlot>>
        /\ drainPc' = drainPc \/ (drainPc = "off" /\ drainPc' = "pop")
    BY DEF Release, draining
  <1>4. o \in Live /\ o # drainObj /\ o \notin doomed
    BY <1>1, <1>3, HeldLive
  <1>5. /\ rc' = [rc EXCEPT ![o] = @ - 1]
        /\ buffered' \subseteq buffered \cup {o}
        /\ UNCHANGED <<doomed, dying>> \/ (doomed' = doomed \cup {o} /\ dying' = dying \cup {o})
    BY <1>1, <1>3, <1>4, DropHeader
  <1>6. DrainInv'
    <2>1. phase' = "idle" => phase = "idle"
      BY <1>1, MutatorOnward DEF Onward
    <2> QED
      BY <1>2, <1>3, <1>4, <1>5, <2>1 DEF DrainInv, Empty
  <1>7. Exact(rc', ext', field', alloc \ dead)
    <2>1. ASSUME NEW x \in Obj PROVE rc'[x] = ext'[x] + Cardinality(Refs(field, alloc \ dead, x))
      <3>1. PICK n : n = Cardinality(Refs(field, alloc \ dead, x))
        OBVIOUS
      <3>2. rc[x] = ext[x] + n /\ n \in Nat /\ ext[x] \in Nat
        BY <1>1, <3>1, CalmFacts, RefsFinite DEF Exact
      <3>3. /\ x = o => rc'[x] = rc[x] - 1 /\ ext'[x] = ext[x] - 1
            /\ x # o => rc'[x] = rc[x] /\ ext'[x] = ext[x]
        BY <1>2, <1>3, <1>5 DEF TypeOK
      <3> QED
        BY <3>1, <3>2, <3>3
    <2> QED
      BY <1>3, <2>1 DEF Exact
  <1>8. \A x \in Obj : x # o => ext'[x] = ext[x]
    BY <1>2, <1>3 DEF TypeOK
  <1> QED
    BY <1>1, <1>3, <1>4, <1>6, <1>7, <1>8, DropKeeps

LEMMA DrainContentsKeeps ==
    ASSUME CollectorInv, DrainContents
    PROVE  CollectorInv'
  <1>1. Program \/ Drain
    BY DEF Drain
  <1>2. TypeOK /\ BlockInv /\ DrainInv /\ ShellInv /\ DeadInv
    BY DEF CollectorInv, WellFormed
  <1>3. PICK p, s : p = drainObj /\ s = drainSlot
    OBVIOUS
  <1>4. p \in Obj /\ s \in Slots /\ drainPc = "contents" /\ p # Null /\ s \in Nat
    BY <1>2, <1>3, CollectorAssumption DEF DrainContents, TypeOK
  <1>5. PICK c : c = field[p][s]
    OBVIOUS
  <1>6. /\ field' = [field EXCEPT ![p][s] = Null] /\ drainSlot' = s + 1
        /\ UNCHANGED <<alloc, ext, foreign, drainPc, drainObj, passVars>>
        /\ IF c = Null THEN UNCHANGED <<headerVars, dying>> ELSE ReleaseRef(c)
    BY <1>3, <1>5 DEF DrainContents
  <1>7. field \in Graph /\ alloc \ dead \in SUBSET Obj /\ ext \in [Obj -> Nat]
    BY <1>1, CalmFacts
  <1>8. /\ field'[p][s] = Null
        /\ \A q \in Obj, t \in Slots : <<q, t>> # <<p, s>> => field'[q][t] = field[q][t]
    BY <1>4, <1>6, <1>7 DEF Graph
  <1>9. p \in alloc \ dead /\ p \in doomed \ dying
    BY <1>2, <1>3, <1>4 DEF BlockInv, DrainInv, DeadInv
  <1>10. \A t \in Slots : t < s + 1 => field'[p][t] = Null
    <2>1. ASSUME NEW t \in Slots, t < s + 1, t # s PROVE field'[p][t] = Null
      <3>1. t < s
        BY <1>4, <2>1, SlotFacts
      <3>2. field[p][t] = Null
        BY <1>2, <1>3, <1>4, <3>1 DEF DrainInv
      <3> QED
        BY <1>4, <1>8, <2>1, <3>2
    <2> QED
      BY <1>8, <2>1
  <1>11. s + 1 > 0 /\ s + 1 \in Nat
    BY <1>4
  <1>12. CASE c = Null
    <2>1. field' = field
      <3>1. \A q \in Obj, t \in Slots : field'[q][t] = field[q][t]
        BY <1>5, <1>8, <1>12
      <3> QED
        BY <1>4, <1>5, <1>6, <1>7, <1>12 DEF Graph
    <2>2. UNCHANGED <<alloc, field, ext, headerVars, dying, drainObj>> /\ foreign' \subseteq foreign
      BY <1>6, <1>12, <2>1
    <2>3. DrainInv'
      BY <1>2, <1>3, <1>4, <1>6, <1>10, <1>11, <2>2 DEF DrainInv, Empty, headerVars, passVars
    <2> QED
      BY <1>1, <2>2, <2>3, QuietKeeps
  <1>13. CASE c # Null
    <2>1. c \in Obj
      BY <1>4, <1>5, <1>7, <1>13 DEF Graph
    <2>2. c \in Live /\ c # drainObj /\ c \notin doomed
      <3>1. rc[c] \in Nat /\ rc[c] > 0
        BY <1>1, <1>4, <1>5, <1>7, <1>9, <2>1, CalmFacts, ExactFacts
      <3>2. c \in Live
        BY <1>1, <2>1, <3>1, CalmFacts
      <3> QED
        BY <1>1, <2>1, <3>2, HeldLive
    <2>3. ReleaseRef(c)
      BY <1>6, <1>13
    <2>4. /\ rc' = [rc EXCEPT ![c] = @ - 1]
          /\ buffered' \subseteq buffered \cup {c}
          /\ UNCHANGED <<doomed, dying>> \/ (doomed' = doomed \cup {c} /\ dying' = dying \cup {c})
      BY <1>1, <2>1, <2>2, <2>3, DropHeader
    <2>5. DrainInv'
      <3>1. phase' = phase
        BY <1>6 DEF passVars
      <3>2. drainObj' = p /\ drainPc' = "contents" /\ drainSlot' > 0
        BY <1>3, <1>4, <1>6, <1>11
      <3>3. \A t \in Slots : t < drainSlot' => field'[drainObj'][t] = Null
        BY <1>6, <1>10, <3>2
      <3>4. drainObj' \in doomed' \ dying' /\ dying' \subseteq doomed'
        BY <1>2, <1>3, <1>9, <2>2, <2>4, <3>2 DEF DrainInv
      <3>5. phase' = "idle" => drainObj' \notin buffered'
        BY <1>2, <1>3, <2>2, <2>4, <3>1, <3>2 DEF DrainInv
      <3> QED
        BY <3>2, <3>3, <3>4, <3>5 DEF DrainInv
    <2>6. Exact(rc', ext', field', alloc \ dead)
      <3> DEFINE A == alloc \ dead
      <3>1. /\ Cardinality(Refs(field, A, c)) = Cardinality(Refs(field', A, c)) + 1
            /\ \A x : x # Null /\ x # c => Refs(field', A, x) = Refs(field, A, x)
        <4>1. A \in SUBSET Obj /\ p \in A /\ Null # field[p][s] /\ field'[p][s] = Null
          BY <1>5, <1>7, <1>8, <1>9, <1>13
        <4>2. \A q \in A, t \in Slots : <<q, t>> # <<p, s>> => field'[q][t] = field[q][t]
          BY <1>8, <4>1
        <4> HIDE DEF A
        <4>3. /\ Cardinality(Refs(field, A, field[p][s])) = Cardinality(Refs(field', A, field[p][s])) + 1
              /\ Cardinality(Refs(field', A, Null)) = Cardinality(Refs(field, A, Null)) + 1
              /\ \A x : x # Null /\ x # field[p][s] => Refs(field', A, x) = Refs(field, A, x)
          BY <1>4, <4>1, <4>2, RefsPut, SMTT(30)
        <4> QED
          BY <1>5, <4>3
      <3>2. ASSUME NEW x \in Obj PROVE rc'[x] = ext[x] + Cardinality(Refs(field', A, x))
        <4>1. PICK n : n = Cardinality(Refs(field, A, x))
          OBVIOUS
        <4>2. PICK m : m = Cardinality(Refs(field', A, x))
          OBVIOUS
        <4>3. rc[x] = ext[x] + n /\ n \in Nat /\ m \in Nat /\ ext[x] \in Nat
          BY <1>1, <1>7, <4>1, <4>2, CalmFacts, RefsFinite DEF Exact
        <4>4. (x = c => rc'[x] = rc[x] - 1 /\ n = m + 1) /\ (x # c => rc'[x] = rc[x] /\ n = m)
          BY <1>2, <2>1, <2>4, <3>1, <4>1, <4>2, CollectorAssumption DEF TypeOK
        <4> QED
          BY <4>2, <4>3, <4>4
      <3> QED
        BY <1>6, <3>2 DEF Exact
    <2>7. \A q \in Obj, t \in Slots :
             field'[q][t] = field[q][t] \/ (field[q][t] = c /\ field'[q][t] = Null)
      BY <1>5, <1>8
    <2> QED
      BY <1>1, <1>6, <2>1, <2>2, <2>3, <2>5, <2>6, <2>7, DropKeeps
  <1> QED
    BY <1>12, <1>13

\* nts_unbuffer_root: the last of the k candidates of b moves into o's gap.
Unbuffered(b, x, o, k, c, y) ==
    /\ Len(c) = k - 1
    /\ \A i \in 1 .. k - 1 : c[i] = IF i = x[o] THEN b[k] ELSE b[i]
    /\ \A z \in Obj : y[z] = IF z = o THEN RootNone ELSE IF z = b[k] THEN x[o] ELSE x[z]

LEMMA IndexedRemove ==
    ASSUME NEW b \in Seq(Obj), NEW m, NEW x \in [Obj -> Nat], Indexed(b, m, x, 1 .. Len(b)),
           NEW o \in Obj, o \in m, NEW k, k = Len(b), NEW c, NEW y, Unbuffered(b, x, o, k, c, y)
    PROVE  Indexed(c, m \ {o}, y, 1 .. Len(c))
  <1>1. /\ k \in Nat
        /\ \A i \in 1 .. k : b[i] \in Obj
    OBVIOUS
  <1>2. /\ \A i \in 1 .. k : b[i] \in m /\ x[b[i]] = i
        /\ \A z \in m : x[z] \in 1 .. k /\ b[x[z]] = z
        /\ \A z \in Obj \ m : x[z] = RootNone
    BY DEF Indexed
  <1>3. PICK j : j = x[o]
    OBVIOUS
  <1>4. j \in 1 .. k /\ b[j] = o /\ k >= 1 /\ k \in 1 .. k /\ k - 1 \in Nat
    BY <1>1, <1>2, <1>3
  <1>5. PICK e : e = b[k]
    OBVIOUS
  <1>6. e \in m /\ e \in Obj /\ x[e] = k
    BY <1>1, <1>2, <1>4, <1>5
  <1>7. Len(c) = k - 1
    BY DEF Unbuffered
  <1>8. \A i \in 1 .. k - 1 : i \in 1 .. k /\ i # k /\ c[i] = IF i = j THEN e ELSE b[i]
    BY <1>1, <1>3, <1>5 DEF Unbuffered
  <1>9. \A z \in Obj : y[z] = IF z = o THEN RootNone ELSE IF z = e THEN j ELSE x[z]
    BY <1>3, <1>5 DEF Unbuffered
  <1>10. \A i \in 1 .. k : i # k => i \in 1 .. k - 1
    BY <1>1
  <1>11. o = e <=> j = k
    BY <1>3, <1>4, <1>5, <1>6
  <1>12. ASSUME NEW i \in 1 .. k - 1 PROVE c[i] \in m \ {o} /\ y[c[i]] = i
    <2>1. i \in 1 .. k /\ i # k /\ c[i] = IF i = j THEN e ELSE b[i]
      BY <1>8
    <2>2. CASE i = j
      BY <1>6, <1>9, <1>11, <2>1, <2>2
    <2>3. CASE i # j
      <3>1. b[i] \in m /\ x[b[i]] = i /\ b[i] \in Obj
        BY <1>1, <1>2, <2>1
      <3>2. b[i] # o /\ b[i] # e
        BY <1>3, <1>6, <2>1, <2>3, <3>1
      <3> QED
        BY <1>9, <2>1, <2>3, <3>1, <3>2
    <2> QED
      BY <2>2, <2>3
  <1>13. ASSUME NEW z \in m \ {o} PROVE y[z] \in 1 .. k - 1 /\ c[y[z]] = z
    <2>1. x[z] \in 1 .. k /\ b[x[z]] = z
      BY <1>2
    <2>2. z \in Obj
      BY <1>1, <2>1
    <2>3. CASE z = e
      BY <1>4, <1>8, <1>9, <1>10, <1>11, <2>2, <2>3
    <2>4. CASE z # e
      <3>1. y[z] = x[z] /\ x[z] # k
        BY <1>5, <1>9, <2>1, <2>2, <2>4
      <3>2. x[z] # j
        BY <1>4, <2>1
      <3>3. x[z] \in 1 .. k - 1
        BY <1>10, <2>1, <3>1
      <3> QED
        BY <1>8, <2>1, <3>1, <3>2, <3>3
    <2> QED
      BY <2>3, <2>4
  <1>14. \A z \in Obj \ (m \ {o}) : y[z] = RootNone
    BY <1>2, <1>6, <1>9
  <1> QED
    BY <1>7, <1>12, <1>13, <1>14 DEF Indexed

LEMMA DrainPopKeeps ==
    ASSUME CollectorInv, NEW o \in Obj, DrainPop(o)
    PROVE  CollectorInv'
  <1>1. Program \/ Drain
    BY DEF Drain
  <1>2. TypeOK /\ BlockInv /\ DrainInv /\ ShellInv /\ DeadInv
    BY DEF CollectorInv, WellFormed
  <1>3. /\ drainPc = "pop" /\ o \in dying /\ dying' = dying \ {o}
        /\ drainPc' = "contents" /\ drainObj' = o /\ drainSlot' = 1
        /\ UNCHANGED <<alloc, field, ext, foreign, rc, colour, doomed, phase, dead, zeroed, freeing>>
        /\ IF o \in buffered /\ phase = "idle" THEN UnbufferRoot(o)
           ELSE UNCHANGED <<buffered, roots, rootIndex>>
    BY DEF DrainPop, heapVars, passVars, collecting
  <1>4. drainObj = Null /\ o \in doomed /\ o \notin dead /\ o \notin Live /\ o # Null
    BY <1>2, <1>3, CollectorAssumption DEF TypeOK, DrainInv, DeadInv, Live
  <1>5. Null \notin doomed
    BY <1>2, CollectorAssumption DEF TypeOK
  <1>6. /\ Live' = Live /\ Shells' = Shells
        /\ Purple' = Purple /\ Gray' = Gray /\ White' = White
    BY <1>3, <1>4, <1>5 DEF Live, Shells, Purple, Gray, White
  <1>7. /\ buffered' \subseteq buffered /\ buffered \subseteq buffered' \cup {o}
        /\ phase = "idle" => o \notin buffered'
        /\ phase # "idle" => buffered' = buffered
    BY <1>3 DEF UnbufferRoot
  <1>8. BlockInv'
    BY <1>2, <1>3, <1>4, <1>6, <1>7 DEF BlockInv, Empty
  <1>9. DrainInv'
    <2>1. \A s \in Slots : ~(s < 1)
      BY CollectorAssumption DEF Slots
    <2> QED
      BY <1>2, <1>3, <1>4, <1>7, <2>1 DEF DrainInv
  <1>10. ShellInv'
    BY <1>2, <1>3, <1>6, <1>7 DEF ShellInv, Empty
  <1>11. DeadInv'
    BY <1>2, <1>3, <1>4, <1>6, <1>7 DEF DeadInv
  <1>12. Indexed(roots', buffered', rootIndex', 1 .. Len(roots'))
    <2>1. CASE o \in buffered /\ phase = "idle"
      <3>1. UnbufferRoot(o)
        BY <1>3, <2>1
      <3>2. PICK k : k = Len(roots)
        OBVIOUS
      <3>3. /\ buffered' = buffered \ {o}
            /\ roots' = [i \in 1 .. k - 1 |-> IF i = rootIndex[o] THEN roots[k] ELSE roots[i]]
            /\ rootIndex' = [z \in Obj |-> IF z = o THEN RootNone
                                           ELSE IF z = roots[k] THEN rootIndex[o] ELSE rootIndex[z]]
        BY <3>1, <3>2 DEF UnbufferRoot
      <3>4. /\ roots \in Seq(Obj) /\ rootIndex \in [Obj -> Nat]
            /\ Indexed(roots, buffered, rootIndex, 1 .. Len(roots))
        BY <1>1, <1>2, CalmFacts DEF TypeOK
      <3>5. k - 1 \in Nat
        <4>1. rootIndex[o] \in 1 .. k /\ k \in Nat
          BY <2>1, <3>2, <3>4 DEF Indexed
        <4> QED
          BY <4>1
      <3>6. Unbuffered(roots, rootIndex, o, k, roots', rootIndex')
        BY <3>3, <3>5 DEF Unbuffered
      <3>7. Indexed(roots', buffered \ {o}, rootIndex', 1 .. Len(roots'))
        BY <2>1, <3>2, <3>4, <3>6, IndexedRemove
      <3> QED
        BY <3>3, <3>7
    <2>2. CASE ~(o \in buffered /\ phase = "idle")
      <3>1. UNCHANGED <<buffered, roots, rootIndex>>
        BY <1>3, <2>2
      <3> QED
        BY <1>1, <3>1, CalmFacts
    <2> QED
      BY <2>1, <2>2
  <1>13. /\ Exact(rc', ext', field', alloc' \ dead)
         /\ \A x \in Obj \ Live' : rc'[x] = 0
         /\ \A x \in Live' : rc'[x] > 0
         /\ \A x \in Obj : colour'[x] \in {"black", "purple"}
    BY <1>1, <1>3, <1>6, CalmFacts
  <1>14. \A U \in SUBSET Obj : Orphans(U, alloc \ dead)' => U \cap Purple' # {}
    <2>1. ASSUME NEW U \in SUBSET Obj, Orphans(U, alloc \ dead)' PROVE Orphans(U, alloc \ dead)
      BY <1>3, <1>6, <2>1 DEF Orphans
    <2> QED
      BY <1>1, <1>6, <2>1, CalmFacts
  <1> QED
    BY <1>1, <1>8, <1>9, <1>10, <1>11, <1>12, <1>13, <1>14, MutatorKeeps

LEMMA DrainFinishKeeps ==
    ASSUME CollectorInv, DrainFinish
    PROVE  CollectorInv'
  <1>1. Program \/ Drain
    BY DEF Drain
  <1>2. TypeOK /\ BlockInv /\ DrainInv /\ ShellInv /\ DeadInv
    BY DEF CollectorInv, WellFormed
  <1>3. PICK o : o = drainObj
    OBVIOUS
  <1>4. /\ drainPc = "finish" /\ drainPc' = "pop" /\ drainObj' = Null
        /\ IF o \in buffered THEN UNCHANGED <<alloc, field, doomed>> ELSE FreeBlock(o)
        /\ UNCHANGED <<ext, foreign, rc, colour, buffered, rootIndex, roots, dying, drainSlot>>
        /\ UNCHANGED <<phase, dead, zeroed, freeing>>
    BY <1>3 DEF DrainFinish, passVars
  <1>5. o \in Obj /\ o # Null
    BY <1>2, <1>3, <1>4, CollectorAssumption DEF TypeOK
  <1>6. /\ o \in doomed \ dying /\ o \notin dead /\ o \notin foreign /\ Empty(o)
        /\ o \notin Live /\ (phase = "idle" => o \notin buffered)
    BY <1>2, <1>3, <1>4, <1>5 DEF DrainInv, DeadInv, Live
  <1>7. Null \notin doomed /\ Null \notin dead /\ Null \notin buffered
    BY <1>2, CollectorAssumption DEF TypeOK
  <1>8. /\ \A p \in Obj : p # o => field'[p] = field[p]
        /\ Empty(o)'
        /\ alloc' \subseteq alloc /\ alloc \ {o} \subseteq alloc'
        /\ doomed' \subseteq doomed /\ doomed \ {o} \subseteq doomed'
        /\ doomed' \subseteq alloc'
        /\ o \in doomed' => o \in buffered /\ alloc' = alloc
        /\ o \notin doomed' => o \notin buffered /\ o \notin alloc'
    <2>1. CASE o \in buffered
      BY <1>2, <1>4, <1>6, <2>1 DEF Empty, BlockInv
    <2>2. CASE o \notin buffered
      BY <1>2, <1>4, <1>5, <1>6, <2>2 DEF FreeBlock, Empty, TypeOK, BlockInv
    <2> QED
      BY <2>1, <2>2
  <1>9. /\ Live' = Live
        /\ Purple' = Purple /\ Gray' = Gray /\ White' = White
    BY <1>2, <1>4, <1>6, <1>8 DEF Live, Purple, Gray, White, BlockInv
  <1>10. Shells \subseteq Shells' /\ Shells' \subseteq Shells \cup ({o} \cap buffered)
    BY <1>3, <1>4, <1>6, <1>7, <1>8 DEF Shells
  <1>11. \A p \in Obj : Empty(p) => Empty(p)'
    BY <1>8 DEF Empty
  <1>12. BlockInv'
    <2>1. \A p \in Obj \ alloc' : Empty(p)'
      BY <1>2, <1>8, <1>11 DEF BlockInv
    <2>2. \A p \in Obj, s \in Slots : field'[p][s] # Null => <<p, field'[p][s]>> \in MayHold
      BY <1>2, <1>8 DEF BlockInv, Empty
    <2>3. buffered' \subseteq alloc'
      BY <1>2, <1>4, <1>8 DEF BlockInv
    <2> QED
      BY <1>2, <1>4, <1>8, <1>9, <2>1, <2>2, <2>3 DEF BlockInv
  <1>13. DrainInv'
    BY <1>2, <1>4, <1>6, <1>7, <1>8 DEF DrainInv
  <1>14. ShellInv'
    <2>1. \A p \in Shells : p \in Obj
      BY <1>2 DEF Shells, TypeOK
    <2>2. \A p \in Shells' : Empty(p)' /\ p \notin foreign' /\ p \in buffered' \cup zeroed'
      BY <1>2, <1>4, <1>5, <1>6, <1>10, <1>11, <2>1 DEF ShellInv
    <2>3. zeroed' \subseteq Shells' \ buffered' /\ (phase' = "idle" => Shells' = {})
      BY <1>2, <1>4, <1>6, <1>10 DEF ShellInv
    <2> QED
      BY <2>2, <2>3 DEF ShellInv
  <1>15. DeadInv'
    BY <1>2, <1>4, <1>6, <1>7, <1>8, <1>9 DEF DeadInv
  <1>16. Exact(rc', ext', field', alloc' \ dead)
    <2>1. ASSUME NEW x \in Obj PROVE Refs(field', alloc' \ dead, x) = Refs(field, alloc \ dead, x)
      <3>1. x # Null
        BY CollectorAssumption
      <3>2. alloc \ dead \subseteq Obj
        BY <1>1, CalmFacts
      <3>3. \A p \in Obj : field'[p] = field[p] \/ (p = o /\ Empty(o) /\ Empty(o)')
        BY <1>6, <1>8
      <3>4. \A p \in Obj, s \in Slots : field'[p][s] = x <=> field[p][s] = x
        BY <3>1, <3>3 DEF Empty
      <3>5. \A p \in (alloc \ dead) \ (alloc' \ dead) : p = o
        BY <1>8
      <3> QED
        BY <1>6, <1>8, <3>1, <3>2, <3>4, <3>5 DEF Refs, Empty
    <2> QED
      BY <1>1, <1>4, <2>1, CalmFacts DEF Exact
  <1>17. /\ \A x \in Obj \ Live' : rc'[x] = 0
         /\ \A x \in Live' : rc'[x] > 0
         /\ \A x \in Obj : colour'[x] \in {"black", "purple"}
         /\ Indexed(roots', buffered', rootIndex', 1 .. Len(roots'))
    BY <1>1, <1>4, <1>9, CalmFacts
  <1>18. \A U \in SUBSET Obj : Orphans(U, alloc \ dead)' => U \cap Purple' # {}
    <2>1. ASSUME NEW U \in SUBSET Obj, Orphans(U, alloc \ dead)' PROVE Orphans(U, alloc \ dead)
      <3>1. ASSUME NEW u \in U, NEW p \in alloc \ dead, NEW s \in Slots, field[p][s] = u
            PROVE  p \in U
        <4>1. u # Null /\ p \in Obj
          BY <1>2, CollectorAssumption DEF TypeOK
        <4>2. p # o
          BY <1>6, <3>1, <4>1 DEF Empty
        <4> QED
          BY <1>4, <1>8, <2>1, <3>1, <4>1, <4>2 DEF Orphans
      <3> QED
        BY <1>4, <1>9, <2>1, <3>1 DEF Orphans
    <2> QED
      BY <1>1, <1>9, <2>1, CalmFacts
  <1> QED
    BY <1>1, <1>12, <1>13, <1>14, <1>15, <1>16, <1>17, <1>18, MutatorKeeps

(***************************************************************************)
(* The walks of a pass.  No program code runs: the heap, the drain and the *)
(* dying stay as they are, and every doomed block is an empty shell.       *)
(***************************************************************************)
Walks == {"mark", "scan", "gather"}

LEMMA WalkFacts ==
    ASSUME CollectorInv, phase \in Walks
    PROVE  /\ TypeOK /\ field \in Graph /\ ext \in [Obj -> Nat]
           /\ drainPc = "off" /\ dying = {} /\ drainObj = Null /\ freeing = Null
           /\ Shells = doomed /\ zeroed \subseteq doomed \ buffered /\ doomed \subseteq buffered \cup zeroed
           /\ \A o \in doomed : Empty(o) /\ o \notin foreign
           /\ dead \subseteq Live /\ (phase # "gather" => dead = {}) /\ (phase # "scan" => restore = {})
           /\ \A o \in Live : Children(o) \subseteq Live
           /\ Live \subseteq Obj /\ Live \cap doomed = {} /\ alloc = Live \cup doomed
           /\ Exact(rc, ext, field, alloc \ Trial) /\ alloc \ Trial \in SUBSET Obj
           /\ \A o \in Obj : rc[o] \in Nat
           /\ \A o \in Obj \ Live : rc[o] = 0
  <1>1. TypeOK /\ Shape /\ BlockInv /\ ShellInv /\ DeadInv /\ CountInv
    BY DEF CollectorInv, WellFormed
  <1>2. field \in Graph /\ ext \in [Obj -> Nat] /\ alloc \ Trial \in SUBSET Obj /\ Live \subseteq Obj
    BY <1>1 DEF TypeOK, Graph, Live
  <1>3. drainPc = "off" /\ dying = {} /\ drainObj = Null /\ freeing = Null
    BY <1>1 DEF Walks, Shape, TypeOK
  <1>4. (phase # "gather" => dead = {}) /\ (phase # "scan" => restore = {}) /\ dead \subseteq Live
    BY <1>1 DEF Walks, Shape, DeadInv
  <1>5. Live \cap doomed = {} /\ alloc = Live \cup doomed
    BY <1>1 DEF Live, BlockInv
  <1>6. Shells = doomed
    BY <1>1, <1>3, <1>4, <1>5, CollectorAssumption DEF Shells, TypeOK
  <1>7. /\ zeroed \subseteq doomed \ buffered /\ doomed \subseteq buffered \cup zeroed
        /\ \A o \in doomed : Empty(o) /\ o \notin foreign
    BY <1>1, <1>6 DEF ShellInv
  <1>8. \A o \in Live : Children(o) \subseteq Live
    BY <1>1 DEF CountInv, LiveClosed, Children
  <1>9. Exact(rc, ext, field, alloc \ Trial) /\ \A o \in Obj \ Live : rc[o] = 0
    BY <1>1 DEF CountInv
  <1>10. \A o \in Obj : rc[o] \in Nat
    BY <1>2, <1>9, ExactFacts
  <1> QED
    BY <1>1, <1>2, <1>3, <1>4, <1>5, <1>6, <1>7, <1>8, <1>9, <1>10

\* What a step of a walk has to show; the rest follows.
LEMMA WalkKeeps ==
    ASSUME CollectorInv, phase \in Walks, phase' \in Walks, Collect,
           UNCHANGED <<heapVars, drainVars, doomed, freeing>>,
           Gray' \cup White' \cup Purple' \subseteq Live,
           Purple' \subseteq buffered', buffered' \subseteq buffered,
           zeroed' \subseteq doomed \ buffered', doomed \subseteq buffered' \cup zeroed',
           dead' \subseteq Live, dead' \cap buffered' = {},
           \A o \in dead' : colour'[o] = "black" /\ rc'[o] = 0,
           ColourInv', Exact(rc', ext, field, alloc \ Trial'), \A o \in Obj \ Live : rc'[o] = 0,
           LiveCounted', IndexInv', RootInv', VisitInv', GarbageInv'
    PROVE  CollectorInv'
  <1>1. WellFormed'
    BY TypeStep DEF CollectorInv, WellFormed, Next
  <1>2. /\ UNCHANGED <<alloc, field, ext, foreign, dying, drainPc, drainObj, drainSlot, doomed, freeing>>
        /\ Live' = Live
    BY DEF heapVars, drainVars, Live
  <1>3. /\ drainPc = "off" /\ dying = {} /\ drainObj = Null /\ freeing = Null
        /\ Live \subseteq Obj /\ Live \cap doomed = {}
        /\ \A o \in doomed : Empty(o) /\ o \notin foreign
    BY WalkFacts
  <1>4. Null \notin Live /\ Null \notin doomed /\ Null \notin buffered
    BY CollectorAssumption, <1>3 DEF CollectorInv, WellFormed, TypeOK
  <1>5. BlockInv'
    BY <1>2 DEF CollectorInv, BlockInv, Empty
  <1>6. DrainInv'
    BY <1>2, <1>3, <1>4 DEF CollectorInv, DrainInv
  <1>7. Shells' = doomed
    BY <1>2, <1>3, <1>4 DEF Shells
  <1>8. ShellInv'
    <2>1. \A o \in doomed : Empty(o)'
      BY <1>2, <1>3 DEF Empty
    <2> QED
      BY <1>2, <1>3, <1>7, <2>1 DEF ShellInv, Walks
  <1>9. DeadInv'
    <2>1. dead' \cap (dying' \cup {drainObj'} \cup buffered') = {}
      BY <1>2, <1>3, <1>4
    <2> QED
      BY <1>2, <1>3, <2>1 DEF DeadInv, Walks
  <1>10. CountInv'
    BY <1>2 DEF CollectorInv, CountInv, LiveClosed
  <1>11. FreedInv'
    BY DEF FreedInv, Walks
  <1> QED
    BY <1>1, <1>5, <1>6, <1>8, <1>9, <1>10, <1>11 DEF CollectorInv

\* The marking loop compacts the buffer: entry j is kept at k + 1 ...
LEMMA IndexedKeep ==
    ASSUME NEW b \in Seq(Obj), NEW m, NEW x \in [Obj -> Nat], NEW k \in Nat, NEW j \in Nat,
           k < j, j <= Len(b), Indexed(b, m, x, (1 .. k) \cup (j .. Len(b))),
           NEW c, c = [b EXCEPT ![k + 1] = b[j]], NEW y, y = [x EXCEPT ![b[j]] = k + 1]
    PROVE  /\ Len(c) = Len(b) /\ c[k + 1] = b[j] /\ \A i \in 1 .. k : c[i] = b[i]
           /\ Indexed(c, m, y, (1 .. k + 1) \cup (j + 1 .. Len(b)))
  <1>1. PICK n \in Nat : n = Len(b)
    OBVIOUS
  <1>2. PICK r : r = b[j]
    OBVIOUS
  <1>3. PICK E : E = (1 .. k) \cup (j .. n)
    OBVIOUS
  <1>4. PICK F : F = (1 .. k + 1) \cup (j + 1 .. n)
    OBVIOUS
  <1>5. /\ \A i \in E : b[i] \in m /\ x[b[i]] = i
        /\ \A z \in m : x[z] \in E /\ b[x[z]] = z
        /\ \A z \in Obj \ m : x[z] = RootNone
    BY <1>1, <1>3 DEF Indexed
  <1>6. j \in E /\ j \in 1 .. n /\ k + 1 \in 1 .. n
    BY <1>1, <1>3
  <1>7. r \in Obj /\ r \in m /\ x[r] = j
    BY <1>1, <1>2, <1>5, <1>6
  <1>8. Len(c) = n /\ c[k + 1] = r /\ \A i \in 1 .. n : i # k + 1 => c[i] = b[i]
    BY <1>1, <1>2, <1>6
  <1>9. y[r] = k + 1 /\ \A z \in Obj : z # r => y[z] = x[z]
    BY <1>2, <1>7
  <1>10. \A i \in E : i # j => i \in F /\ i # k + 1
    BY <1>3, <1>4
  <1>11. k + 1 \in F /\ (\A i \in F : i # k + 1 => i \in E /\ i # j) /\ (\A i \in E : i \in 1 .. n)
    BY <1>1, <1>3, <1>4
  <1>12. \A i \in 1 .. k : i \in 1 .. n /\ i # k + 1
    BY <1>1
  <1>13. ASSUME NEW i \in F PROVE c[i] \in m /\ y[c[i]] = i
    <2>1. CASE i = k + 1
      BY <1>7, <1>8, <1>9, <2>1
    <2>2. CASE i # k + 1
      <3>1. i \in E /\ i # j /\ i \in 1 .. n
        BY <1>11, <2>2
      <3>2. b[i] \in m /\ x[b[i]] = i /\ b[i] \in Obj
        BY <1>1, <1>5, <3>1
      <3> QED
        BY <1>7, <1>8, <1>9, <2>2, <3>1, <3>2
    <2> QED
      BY <2>1, <2>2
  <1>14. ASSUME NEW z \in m PROVE y[z] \in F /\ c[y[z]] = z
    <2>1. CASE z = r
      BY <1>8, <1>9, <1>11, <2>1
    <2>2. CASE z # r
      <3>1. x[z] \in E /\ b[x[z]] = z
        BY <1>5
      <3>2. x[z] # j
        BY <1>2, <2>2, <3>1
      <3>3. x[z] \in F /\ x[z] # k + 1 /\ x[z] \in 1 .. n
        BY <1>10, <1>11, <3>1, <3>2
      <3>4. z \in Obj
        BY <1>1, <3>1, <3>3
      <3> QED
        BY <1>8, <1>9, <2>2, <3>1, <3>3, <3>4
    <2> QED
      BY <2>1, <2>2
  <1>15. \A z \in Obj \ m : y[z] = RootNone
    BY <1>5, <1>7, <1>9
  <1>16. Indexed(c, m, y, F)
    BY <1>13, <1>14, <1>15 DEF Indexed
  <1> QED
    BY <1>1, <1>2, <1>4, <1>8, <1>12, <1>16

\* ... or dropped.
LEMMA IndexedSkip ==
    ASSUME NEW b \in Seq(Obj), NEW m, NEW x \in [Obj -> Nat], NEW k \in Nat, NEW j \in Nat,
           k < j, j <= Len(b), Indexed(b, m, x, (1 .. k) \cup (j .. Len(b))),
           NEW y, y = [x EXCEPT ![b[j]] = RootNone]
    PROVE  Indexed(b, m \ {b[j]}, y, (1 .. k) \cup (j + 1 .. Len(b)))
  <1>1. PICK n \in Nat : n = Len(b)
    OBVIOUS
  <1>2. PICK r : r = b[j]
    OBVIOUS
  <1>3. PICK E : E = (1 .. k) \cup (j .. n)
    OBVIOUS
  <1>4. PICK F : F = (1 .. k) \cup (j + 1 .. n)
    OBVIOUS
  <1>5. /\ \A i \in E : b[i] \in m /\ x[b[i]] = i
        /\ \A z \in m : x[z] \in E /\ b[x[z]] = z
        /\ \A z \in Obj \ m : x[z] = RootNone
    BY <1>1, <1>3 DEF Indexed
  <1>6. F = E \ {j} /\ j \in E /\ \A i \in E : i \in 1 .. n
    BY <1>1, <1>3, <1>4
  <1>7. r \in Obj /\ r \in m /\ x[r] = j
    BY <1>1, <1>2, <1>5, <1>6
  <1>8. y[r] = RootNone /\ \A z \in Obj : z # r => y[z] = x[z]
    BY <1>2, <1>7
  <1>9. \A i \in E : b[i] \in Obj
    BY <1>1, <1>6
  <1>10. m \subseteq Obj
    BY <1>5, <1>9
  <1>11. \A i \in F : b[i] \in m \ {r} /\ y[b[i]] = i
    BY <1>5, <1>6, <1>7, <1>8, <1>9
  <1>12. \A z \in m \ {r} : y[z] \in F /\ b[y[z]] = z
    BY <1>2, <1>5, <1>6, <1>8, <1>10
  <1>13. \A z \in Obj \ (m \ {r}) : y[z] = RootNone
    BY <1>5, <1>8
  <1>14. Indexed(b, m \ {r}, y, F)
    BY <1>11, <1>12, <1>13 DEF Indexed
  <1> QED
    BY <1>1, <1>2, <1>4, <1>14

LEMMA MarkRootKeeps ==
    ASSUME CollectorInv, MarkRoot
    PROVE  CollectorInv'
  <1>1. PICK r : r = roots[cursor]
    OBVIOUS
  <1>2. /\ phase = "mark" /\ work = {} /\ cursor <= Len(roots) /\ cursor' = cursor + 1
        /\ UNCHANGED <<heapVars, rc, colour, doomed, drainVars, phase, restore, dead, freeing>>
        /\ IF colour[r] = "purple" /\ rc[r] > 0
           THEN /\ work' = {r} /\ kept' = kept + 1
                /\ roots' = [roots EXCEPT ![kept + 1] = r]
                /\ rootIndex' = [rootIndex EXCEPT ![r] = kept + 1]
                /\ UNCHANGED <<buffered, zeroed>>
           ELSE /\ buffered' = buffered \ {r}
                /\ rootIndex' = [rootIndex EXCEPT ![r] = RootNone]
                /\ zeroed' = IF colour[r] = "black" /\ rc[r] = 0 THEN zeroed \cup {r} ELSE zeroed
                /\ UNCHANGED <<work, kept, roots>>
    BY <1>1 DEF MarkRoot, Walking
  <1>3. /\ phase \in Walks /\ phase' \in Walks /\ phase' = "mark" /\ Collect
        /\ UNCHANGED <<heapVars, drainVars, doomed, freeing>>
    BY <1>2 DEF Walks, Collect
  <1>4. /\ roots \in Seq(Obj) /\ rootIndex \in [Obj -> Nat] /\ cursor \in Nat /\ kept \in Nat
        /\ kept < cursor /\ Len(roots) \in Nat
    <2>1. TypeOK /\ Shape
      BY DEF CollectorInv, WellFormed
    <2>2. roots \in Seq(Obj) /\ rootIndex \in [Obj -> Nat] /\ cursor \in Nat /\ kept \in Nat
      BY <2>1 DEF TypeOK
    <2>3. kept < cursor
      BY <1>2, <2>1 DEF Shape
    <2> QED
      BY <2>2, <2>3
  <1>5. /\ BlockInv /\ ColourInv /\ CountInv /\ RootInv /\ VisitMark /\ GarbageInv
        /\ Indexed(roots, buffered, rootIndex, (1 .. kept) \cup (cursor .. Len(roots)))
    BY <1>2 DEF CollectorInv, IndexInv, RootEntries, VisitInv
  <1>6. r \in Obj /\ r \in buffered
    <2>1. cursor \in 1 .. Len(roots) /\ cursor \in cursor .. Len(roots)
      BY <1>2, <1>4
    <2> QED
      BY <1>1, <1>4, <1>5, <2>1 DEF Indexed
  <1>7. /\ dead = {} /\ restore = {} /\ zeroed \subseteq doomed \ buffered
        /\ doomed \subseteq buffered \cup zeroed
        /\ Live \subseteq Obj /\ alloc = Live \cup doomed /\ Live \cap doomed = {}
        /\ \A o \in Obj \ Live : rc[o] = 0
        /\ Exact(rc, ext, field, alloc \ Trial)
    BY <1>2, <1>3, WalkFacts
  <1>8. /\ Gray' = Gray /\ White' = White /\ Purple' = Purple /\ Live' = Live /\ Trial' = Trial
        /\ White = {}
    BY <1>2, <1>5 DEF Gray, White, Purple, Live, Trial, ColourInv, heapVars
  <1>9. r \in Live /\ colour[r] # "gray" => rc[r] > 0
    <2>1. ASSUME r \in Live, colour[r] # "gray" PROVE rc[r] > 0
      <3>1. r \in Live \ (Gray \cup White \cup dead)
        BY <1>7, <1>8, <2>1 DEF Gray
      <3>2. ASSUME NEW p \in Gray, r \in Children(p) PROVE FALSE
        <4>1. Children(p) \subseteq Gray
          BY <1>2, <1>5, <3>2 DEF RootInv
        <4> QED
          BY <2>1, <3>2, <4>1 DEF Gray
      <3> QED
        BY <1>5, <3>1, <3>2 DEF CountInv, LiveCounted
    <2> QED
      BY <2>1
  <1>10. \A p : Children(p)' = Children(p)
    BY <1>2 DEF Children, heapVars
  <1>11. LiveCounted'
    BY <1>2, <1>5, <1>8, <1>10 DEF CountInv, LiveCounted
  <1>12. GarbageInv'
    BY <1>2, <1>5, <1>8 DEF GarbageInv, Orphans, heapVars
  <1>13. VisitGray' /\ VisitWhite' /\ VisitDead'
    BY <1>3 DEF VisitGray, VisitWhite, VisitDead
  <1>14. Gray \cup White \cup Purple \subseteq Live /\ Purple \subseteq buffered
    BY <1>5 DEF BlockInv
  <1>15. CASE colour[r] = "purple" /\ rc[r] > 0
    <2>1. /\ work' = {r} /\ kept' = kept + 1
          /\ roots' = [roots EXCEPT ![kept + 1] = r]
          /\ rootIndex' = [rootIndex EXCEPT ![r] = kept + 1]
          /\ UNCHANGED <<buffered, zeroed>>
      BY <1>2, <1>15
    <2>2. r \in Live
      BY <1>6, <1>14, <1>15 DEF Purple
    <2>3. PICK b, y : b = roots' /\ y = rootIndex'
      OBVIOUS
    <2>4. /\ Len(b) = Len(roots) /\ b[kept + 1] = roots[cursor] /\ \A i \in 1 .. kept : b[i] = roots[i]
          /\ Indexed(b, buffered, y, (1 .. kept + 1) \cup (cursor + 1 .. Len(roots)))
      <3> DEFINE c == [roots EXCEPT ![kept + 1] = roots[cursor]]
                 z == [rootIndex EXCEPT ![roots[cursor]] = kept + 1]
      <3>1. b = c /\ y = z
        BY <1>1, <2>1, <2>3
      <3>2. /\ Len(c) = Len(roots) /\ c[kept + 1] = roots[cursor] /\ \A i \in 1 .. kept : c[i] = roots[i]
            /\ Indexed(c, buffered, z, (1 .. kept + 1) \cup (cursor + 1 .. Len(roots)))
        BY <1>2, <1>4, <1>5, IndexedKeep
      <3> QED
        BY <3>1, <3>2
    <2>5. IndexInv'
      <3>1. RootEntries' = (1 .. kept + 1) \cup (cursor + 1 .. Len(roots))
        BY <1>2, <1>3, <2>1, <2>3, <2>4 DEF RootEntries
      <3> QED
        BY <1>3, <2>1, <2>3, <2>4, <3>1 DEF IndexInv
    <2>6. 1 .. kept + 1 = (1 .. kept) \cup {kept + 1}
      BY <1>4
    <2>7. RootInv'
      BY <1>1, <1>2, <1>3, <1>5, <1>8, <1>10, <2>1, <2>3, <2>4, <2>6 DEF RootInv
    <2>8. VisitMark'
      <3>1. ASSUME NEW S \in SUBSET Obj, \A i \in 1 .. kept' : roots'[i] \in S,
                   \A p \in S \cap Gray' : Children(p)' \subseteq S
            PROVE  Gray' \cup work' \subseteq S
        <4>1. \A i \in 1 .. kept : roots[i] \in S
          BY <2>1, <2>3, <2>4, <2>6, <3>1
        <4>2. r \in S
          BY <1>1, <2>1, <2>3, <2>4, <2>6, <3>1
        <4>3. \A p \in S \cap Gray : Children(p) \subseteq S
          BY <1>8, <1>10, <3>1
        <4>4. Gray \cup work \subseteq S
          BY <1>2, <1>5, <4>1, <4>3 DEF VisitMark
        <4> QED
          BY <1>8, <2>1, <4>2, <4>4
      <3> QED
        BY <3>1 DEF VisitMark
    <2>9. ColourInv'
      BY <1>2, <1>5, <1>8, <2>1, <2>2 DEF ColourInv
    <2> QED
      BY <1>2, <1>3, <1>7, <1>8, <1>11, <1>12, <1>13, <1>14, <2>1, <2>5, <2>7, <2>8, <2>9, WalkKeeps
         DEF VisitInv, heapVars
  <1>16. CASE ~(colour[r] = "purple" /\ rc[r] > 0)
    <2>1. /\ buffered' = buffered \ {r}
          /\ rootIndex' = [rootIndex EXCEPT ![r] = RootNone]
          /\ zeroed' = IF colour[r] = "black" /\ rc[r] = 0 THEN zeroed \cup {r} ELSE zeroed
          /\ UNCHANGED <<work, kept, roots>>
      BY <1>2, <1>16
    <2>2. colour[r] # "purple"
      BY <1>6, <1>9, <1>14, <1>16 DEF Purple
    <2>3. r \in doomed <=> colour[r] = "black" /\ rc[r] = 0
      <3>1. r \in doomed => colour[r] = "black" /\ rc[r] = 0
        <4>1. ASSUME r \in doomed PROVE colour[r] = "black" /\ rc[r] = 0
          <5>1. r \notin Live
            BY <1>7, <4>1
          <5>2. colour[r] \in Colours
            BY <1>6 DEF CollectorInv, WellFormed, TypeOK
          <5> QED
            BY <1>6, <1>7, <1>14, <5>1, <5>2 DEF Gray, White, Purple, Colours
        <4> QED
          BY <4>1
      <3>2. r \in alloc
        BY <1>5, <1>6 DEF BlockInv
      <3> QED
        BY <1>7, <1>9, <3>1, <3>2
    <2>4. zeroed' = zeroed \cup ({r} \cap doomed)
      BY <2>1, <2>3
    <2>5. zeroed' \subseteq doomed \ buffered' /\ doomed \subseteq buffered' \cup zeroed'
      BY <1>7, <2>1, <2>4
    <2>6. Purple' \subseteq buffered' /\ buffered' \subseteq buffered
      BY <1>8, <1>14, <2>1, <2>2 DEF Purple
    <2>7. IndexInv'
      <3>1. Indexed(roots, buffered \ {roots[cursor]}, [rootIndex EXCEPT ![roots[cursor]] = RootNone],
                    (1 .. kept) \cup (cursor + 1 .. Len(roots)))
        BY <1>2, <1>4, <1>5, IndexedSkip
      <3>2. RootEntries' = (1 .. kept) \cup (cursor + 1 .. Len(roots))
        BY <1>2, <1>3, <2>1 DEF RootEntries
      <3> QED
        BY <1>1, <1>3, <2>1, <3>1, <3>2 DEF IndexInv
    <2>8. RootInv' /\ VisitMark'
      BY <1>2, <1>5, <1>8, <1>10, <2>1 DEF RootInv, VisitMark
    <2>9. ColourInv'
      BY <1>2, <1>5, <1>8, <2>1 DEF ColourInv
    <2> QED
      BY <1>2, <1>3, <1>7, <1>8, <1>11, <1>12, <1>13, <1>14, <2>5, <2>6, <2>7, <2>8, <2>9, WalkKeeps
         DEF VisitInv, heapVars
  <1> QED
    BY <1>15, <1>16

\* An object's slots that name another: none exactly if it is no child.
LEMMA SlotsOfFacts ==
    ASSUME TypeOK, NEW o \in Obj, NEW c \in Obj
    PROVE  /\ Cardinality(SlotsOf(o, c)) \in Nat
           /\ c \notin Children(o) => Cardinality(SlotsOf(o, c)) = 0
           /\ c \in Children(o) => Cardinality(SlotsOf(o, c)) > 0
  <1>1. IsFiniteSet(SlotsOf(o, c)) /\ Cardinality(SlotsOf(o, c)) \in Nat
    BY SlotsOfFinite
  <1>2. SlotsOf(o, c) = {} <=> c \notin Children(o)
    BY CollectorAssumption DEF SlotsOf, Children
  <1>3. Cardinality(SlotsOf(o, c)) = 0 <=> SlotsOf(o, c) = {}
    BY <1>1, FS_EmptySet
  <1> QED
    BY <1>1, <1>2, <1>3

LEMMA MarkGrayKeeps ==
    ASSUME CollectorInv, NEW o \in Obj, MarkGray(o)
    PROVE  CollectorInv'
  <1>1. /\ phase = "mark" /\ o \in work
        /\ UNCHANGED <<heapVars, buffered, doomed, rootIndex, roots, drainVars, phase, cursor, kept,
                       restore, dead, zeroed, freeing>>
        /\ IF colour[o] = "gray"
           THEN work' = work \ {o} /\ UNCHANGED <<colour, rc>>
           ELSE /\ colour' = [colour EXCEPT ![o] = "gray"]
                /\ rc' = [c \in Obj |-> rc[c] - Cardinality(SlotsOf(o, c))]
                /\ work' = (work \ {o}) \cup Children(o)
    BY DEF MarkGray, Walking
  <1>2. /\ phase \in Walks /\ phase' \in Walks /\ phase' = "mark" /\ Collect
        /\ UNCHANGED <<heapVars, drainVars, doomed, freeing>>
    BY <1>1 DEF Walks, Collect
  <1>3. BlockInv /\ ColourInv /\ CountInv /\ IndexInv /\ RootInv /\ VisitMark /\ GarbageInv
    BY DEF CollectorInv, VisitInv
  <1>4. /\ TypeOK /\ dead = {} /\ restore = {} /\ zeroed \subseteq doomed \ buffered
        /\ doomed \subseteq buffered \cup zeroed
        /\ Live \subseteq Obj /\ alloc = Live \cup doomed /\ Live \cap doomed = {}
        /\ \A x \in Obj \ Live : rc[x] = 0
        /\ \A x \in Obj : rc[x] \in Nat
        /\ Exact(rc, ext, field, alloc \ Trial) /\ alloc \ Trial \in SUBSET Obj
        /\ \A x \in Live : Children(x) \subseteq Live
    BY <1>1, <1>2, WalkFacts
  <1>5. /\ \A p : Children(p)' = Children(p)
        /\ Live' = Live
    BY <1>1 DEF Children, heapVars, Live
  <1>6. White = {} /\ o \in Live /\ Trial = Gray
    <2>1. White = {} /\ o \in Live
      BY <1>1, <1>3 DEF ColourInv
    <2> QED
      BY <1>4, <2>1, TrialSplit
  <1>7. VisitGray' /\ VisitWhite' /\ VisitDead'
    BY <1>2 DEF VisitGray, VisitWhite, VisitDead
  <1>8. Gray \cup White \cup Purple \subseteq Live /\ Purple \subseteq buffered
    BY <1>3 DEF BlockInv
  <1>9. RootEntries' = RootEntries /\ IndexInv'
    BY <1>1, <1>3 DEF RootEntries, IndexInv
  <1>10. CASE colour[o] = "gray"
    <2>1. work' = work \ {o} /\ UNCHANGED <<colour, rc>>
      BY <1>1, <1>10
    <2>2. /\ Gray' = Gray /\ White' = White /\ Purple' = Purple /\ Trial' = Trial /\ o \in Gray
      BY <1>1, <1>10, <2>1 DEF Gray, White, Purple, Trial
    <2>3. ColourInv' /\ RootInv' /\ VisitMark' /\ LiveCounted'
      BY <1>1, <1>3, <1>5, <2>1, <2>2 DEF ColourInv, RootInv, VisitMark, CountInv, LiveCounted
    <2>4. GarbageInv'
      BY <1>1, <1>3, <1>5, <2>2 DEF GarbageInv, Orphans, heapVars
    <2> QED
      BY <1>1, <1>2, <1>4, <1>7, <1>8, <1>9, <2>1, <2>2, <2>3, <2>4, WalkKeeps DEF VisitInv, heapVars
  <1>11. CASE colour[o] # "gray"
    <2>1. /\ colour' = [colour EXCEPT ![o] = "gray"]
          /\ rc' = [c \in Obj |-> rc[c] - Cardinality(SlotsOf(o, c))]
          /\ work' = (work \ {o}) \cup Children(o)
      BY <1>1, <1>11
    <2>2. Gray' = Gray \cup {o} /\ White' = {} /\ Purple' = Purple \ {o} /\ o \notin Gray
      BY <1>4, <1>6, <1>11, <2>1 DEF Gray, White, Purple, TypeOK
    <2>3. Trial' = Trial \cup {o}
      <3>1. Trial' = Gray' \cup White' \cup restore' \cup dead'
        BY DEF Trial, Gray, White
      <3> QED
        BY <1>1, <1>4, <1>6, <2>2, <3>1
    <2>4. Gray' \cup White' \cup Purple' \subseteq Live /\ Purple' \subseteq buffered'
      BY <1>1, <1>6, <1>8, <2>2
    <2>5. Exact(rc', ext, field, alloc \ Trial')
      <3>1. PICK A : A = alloc \ Trial
        OBVIOUS
      <3>2. A \in SUBSET Obj /\ o \in A /\ alloc \ Trial' = A \ {o}
        BY <1>4, <1>6, <2>2, <2>3, <3>1
      <3>3. ASSUME NEW x \in Obj PROVE rc'[x] = ext[x] + Cardinality(Refs(field, A \ {o}, x))
        <4>1. rc[x] = ext[x] + Cardinality(Refs(field, A, x))
          BY <1>4, <3>1 DEF Exact
        <4>2. Cardinality(Refs(field, A, x))
                = Cardinality(Refs(field, A \ {o}, x)) + Cardinality(SlotsOf(o, x))
          BY <3>2, RefsWithout DEF SlotsOf
        <4>3. rc'[x] = rc[x] - Cardinality(SlotsOf(o, x))
          BY <2>1
        <4>4. PICK n, m, k : /\ n = Cardinality(Refs(field, A, x))
                             /\ m = Cardinality(Refs(field, A \ {o}, x))
                             /\ k = Cardinality(SlotsOf(o, x))
          OBVIOUS
        <4>5. A \ {o} \in SUBSET Obj
          BY <3>2
        <4>6. n \in Nat /\ m \in Nat /\ k \in Nat /\ ext[x] \in Nat
          BY <1>4, <3>2, <4>4, <4>5, RefsFinite, SlotsOfFacts DEF TypeOK
        <4> QED
          BY <4>1, <4>2, <4>3, <4>4, <4>6
      <3> QED
        BY <3>2, <3>3 DEF Exact
    <2>6. ASSUME NEW x \in Obj, x \notin Children(o) PROVE rc'[x] = rc[x]
      <3>1. Cardinality(SlotsOf(o, x)) = 0 /\ rc[x] \in Nat /\ rc'[x] = rc[x] - Cardinality(SlotsOf(o, x))
        BY <1>4, <2>1, <2>6, SlotsOfFacts
      <3> QED
        BY <3>1
    <2>7. \A x \in Obj \ Live : rc'[x] = 0
      BY <1>4, <1>6, <2>6
    <2>8. LiveCounted'
      <3>1. ASSUME NEW x \in Live, x \notin Gray', x \notin White', x \notin dead'
            PROVE  rc'[x] > 0 \/ \E p \in Gray' : x \in Children(p)
        <4>1. CASE x \in Children(o)
          BY <2>2, <4>1
        <4>2. CASE x \notin Children(o)
          <5>1. rc'[x] = rc[x]
            BY <1>4, <2>6, <4>2
          <5>2. rc[x] > 0 \/ \E p \in Gray : x \in Children(p)
            BY <1>1, <1>3, <1>4, <1>6, <2>2, <3>1 DEF CountInv, LiveCounted
          <5> QED
            BY <2>2, <5>1, <5>2
        <4> QED
          BY <4>1, <4>2
      <3> QED
        BY <1>2, <1>5, <3>1 DEF LiveCounted
    <2>9. ColourInv'
      <3>1. Children(o) \subseteq Live
        BY <1>4, <1>6
      <3> QED
        BY <1>1, <1>3, <1>4, <1>5, <2>1, <2>2, <3>1 DEF ColourInv
    <2>10. RootInv'
      <3>1. \A i \in 1 .. kept' : roots'[i] \in Gray' \cup work'
        BY <1>1, <1>3, <2>1, <2>2 DEF RootInv
      <3>2. \A p \in Gray' : Children(p) \subseteq Gray' \cup work'
        BY <1>1, <1>3, <2>1, <2>2 DEF RootInv
      <3> QED
        BY <1>2, <1>5, <3>1, <3>2 DEF RootInv
    <2>11. VisitMark'
      <3>1. ASSUME NEW S \in SUBSET Obj, \A i \in 1 .. kept' : roots'[i] \in S,
                   \A p \in S \cap Gray' : Children(p)' \subseteq S
            PROVE  Gray' \cup work' \subseteq S
        <4>1. Gray \cup work \subseteq S
          BY <1>1, <1>3, <1>5, <2>2, <3>1 DEF VisitMark
        <4>2. Children(o) \subseteq S
          BY <1>1, <1>5, <2>2, <3>1, <4>1
        <4> QED
          BY <1>1, <2>1, <2>2, <4>1, <4>2
      <3> QED
        BY <3>1 DEF VisitMark
    <2>12. GarbageInv'
      <3>1. ASSUME NEW U \in SUBSET (Obj \ Gray'), Orphans(U, alloc \ dead)' PROVE U \cap Purple' # {}
        <4>1. U \in SUBSET (Obj \ Gray) /\ Orphans(U, alloc \ dead)
          BY <1>1, <1>5, <2>2, <3>1 DEF Orphans, heapVars
        <4>2. U \cap Purple # {}
          BY <1>1, <1>3, <4>1 DEF GarbageInv
        <4> QED
          BY <2>2, <3>1, <4>2
      <3> QED
        BY <1>2, <3>1 DEF GarbageInv
    <2> QED
      BY <1>1, <1>2, <1>4, <1>7, <1>9, <2>4, <2>5, <2>7, <2>8, <2>9, <2>10, <2>11, <2>12, WalkKeeps
         DEF VisitInv, heapVars
  <1> QED
    BY <1>10, <1>11

LEMMA MarkEndKeeps ==
    ASSUME CollectorInv, MarkEnd
    PROVE  CollectorInv'
  <1>1. /\ phase = "mark" /\ phase' = "scan" /\ work = {} /\ work' = {} /\ cursor > Len(roots) /\ cursor' = 1
        /\ roots' = SubSeq(roots, 1, kept)
        /\ UNCHANGED <<heapVars, rc, colour, buffered, doomed, rootIndex, drainVars, kept, restore,
                       dead, zeroed, freeing>>
    BY DEF MarkEnd, Walking
  <1>2. /\ phase \in Walks /\ phase' \in Walks /\ Collect
        /\ UNCHANGED <<heapVars, drainVars, doomed, freeing>>
    BY <1>1 DEF Walks, Collect
  <1>3. BlockInv /\ ColourInv /\ CountInv /\ IndexInv /\ RootInv /\ VisitMark /\ GarbageInv
    BY DEF CollectorInv, VisitInv
  <1>4. /\ TypeOK /\ dead = {} /\ restore = {} /\ zeroed \subseteq doomed \ buffered
        /\ doomed \subseteq buffered \cup zeroed
        /\ Live \subseteq Obj /\ alloc = Live \cup doomed /\ Live \cap doomed = {}
        /\ \A x \in Obj \ Live : rc[x] = 0
        /\ Exact(rc, ext, field, alloc \ Trial)
        /\ \A x \in doomed : Empty(x)
    BY <1>1, <1>2, WalkFacts
  <1>5. /\ \A p : Children(p)' = Children(p)
        /\ Live' = Live /\ Gray' = Gray /\ White' = White /\ Purple' = Purple /\ Trial' = Trial
    BY <1>1 DEF Children, heapVars, Live, Gray, White, Purple, Trial
  <1>6. /\ roots \in Seq(Obj) /\ kept \in Nat /\ Len(roots) \in Nat /\ cursor \in Nat
        /\ kept <= Len(roots)
    <2>1. roots \in Seq(Obj) /\ kept \in Nat /\ cursor \in Nat
      BY <1>4 DEF TypeOK
    <2>2. kept < cursor /\ cursor <= Len(roots) + 1
      BY <1>1 DEF CollectorInv, WellFormed, Shape
    <2>3. Len(roots) \in Nat
      BY <2>1
    <2> QED
      BY <2>1, <2>2, <2>3
  <1>7. Len(roots') = kept /\ \A i \in 1 .. kept : roots'[i] = roots[i]
    BY <1>1, <1>6
  <1>8. RootEntries = 1 .. kept
    <2>1. cursor .. Len(roots) = {}
      BY <1>1, <1>6
    <2> QED
      BY <1>1, <2>1 DEF RootEntries
  <1>9. RootEntries' = 1 .. kept
    BY <1>1, <1>7 DEF RootEntries
  <1>10. Indexed(roots, buffered, rootIndex, 1 .. kept)
    BY <1>1, <1>3, <1>8 DEF IndexInv
  <1>11. IndexInv'
    <2>1. Indexed(roots', buffered, rootIndex, 1 .. kept)
      BY <1>7, <1>10 DEF Indexed
    <2> QED
      BY <1>1, <1>9, <2>1 DEF IndexInv
  <1>12. (\A i \in 1 .. kept : roots[i] \in Gray) /\ \A p \in Gray : Children(p) \subseteq Gray
    BY <1>1, <1>3 DEF RootInv
  <1>13. Purple = {} /\ White = {}
    <2>1. Purple \subseteq Gray
      BY <1>3, <1>10, <1>12 DEF BlockInv, Indexed
    <2> QED
      BY <1>1, <1>3, <2>1 DEF Purple, Gray, ColourInv
  <1>14. Gray \subseteq Live
    BY <1>3 DEF BlockInv
  <1>15. ColourInv'
    BY <1>1, <1>4, <1>5, <1>13 DEF ColourInv
  <1>16. RootInv'
    BY <1>1, <1>5, <1>7, <1>12, <1>14 DEF RootInv
  <1>17. LiveCounted'
    BY <1>1, <1>3, <1>5, <1>12 DEF CountInv, LiveCounted
  <1>18. VisitInv'
    <2>1. ASSUME NEW S \in SUBSET Obj, \A i \in cursor' .. Len(roots') : roots'[i] \in S,
                 \A p \in S \cap Gray : Children(p) \subseteq S
          PROVE  Gray \subseteq S
      BY <1>1, <1>3, <1>7, <2>1 DEF VisitMark
    <2>2. VisitGray'
      BY <1>5, <2>1 DEF VisitGray
    <2>3. VisitMark' /\ VisitDead' /\ VisitWhite'
      BY <1>1, <1>5, <1>13 DEF VisitMark, VisitDead, VisitWhite
    <2> QED
      BY <2>2, <2>3 DEF VisitInv
  <1>19. GarbageInv'
    <2>1. ASSUME NEW U \in SUBSET (Obj \ (Gray \cup White \cup dead)),
                 Orphans(U, Live \ (Gray \cup White \cup dead))
          PROVE  FALSE
      <3>1. ASSUME NEW u \in U, NEW p \in alloc \ dead, NEW s \in Slots, field[p][s] = u
            PROVE  p \in U
        <4>1. u # Null /\ u \in Children(p)
          BY <3>1, CollectorAssumption DEF Children
        <4>2. p \notin doomed
          BY <1>4, <3>1, <4>1 DEF Empty
        <4>3. p \notin Gray
          BY <1>12, <4>1
        <4>4. p \in Live \ (Gray \cup White \cup dead)
          BY <1>4, <1>13, <4>2, <4>3
        <4> QED
          BY <2>1, <3>1, <4>4 DEF Orphans
      <3>2. Orphans(U, alloc \ dead)
        BY <2>1, <3>1 DEF Orphans
      <3>3. U \cap Purple # {}
        BY <1>1, <1>3, <3>2 DEF GarbageInv
      <3> QED
        BY <1>13, <3>3
    <2>2. \A U \in SUBSET (Obj \ (Gray' \cup White' \cup dead')) :
             ~Orphans(U, Live \ (Gray \cup White \cup dead))'
      BY <1>1, <1>5, <2>1 DEF Orphans, heapVars
    <2> QED
      BY <1>1, <2>2 DEF GarbageInv
  <1> QED
    BY <1>1, <1>2, <1>4, <1>5, <1>11, <1>13, <1>14, <1>15, <1>16, <1>17, <1>18, <1>19, WalkKeeps DEF heapVars

\* The candidates still to be walked lose their first.
LEMMA NextRoot ==
    ASSUME NEW b \in Seq(Obj), NEW k \in Nat \ {0}, k <= Len(b)
    PROVE  /\ b[k] \in Obj /\ k \in 1 .. Len(b)
           /\ k .. Len(b) = {k} \cup (k + 1 .. Len(b))
  <1>1. PICK n \in Nat : n = Len(b)
    OBVIOUS
  <1>2. k \in 1 .. n /\ k .. n = {k} \cup (k + 1 .. n)
    BY <1>1
  <1> QED
    BY <1>1, <1>2

LEMMA WalkRootKeeps ==
    ASSUME CollectorInv, ScanRoot \/ GatherRoot
    PROVE  CollectorInv'
  <1>1. PICK r : r = roots[cursor]
    OBVIOUS
  <1>2. /\ phase \in {"scan", "gather"} /\ work = {} /\ restore = {} /\ cursor <= Len(roots)
        /\ work' = {r} /\ cursor' = cursor + 1
        /\ UNCHANGED <<heapVars, headerVars, drainVars, phase, kept, restore, dead, zeroed, freeing>>
    BY <1>1 DEF ScanRoot, GatherRoot, WalkRoot, Walking
  <1>3. /\ phase \in Walks /\ phase' \in Walks /\ Collect
        /\ UNCHANGED <<heapVars, drainVars, doomed, freeing>>
        /\ UNCHANGED <<rc, colour, buffered, doomed, rootIndex, roots>>
    BY <1>2 DEF Walks, Collect, headerVars
  <1>4. BlockInv /\ ColourInv /\ CountInv /\ IndexInv /\ RootInv /\ VisitInv /\ GarbageInv /\ DeadInv
    BY DEF CollectorInv
  <1>5. /\ TypeOK /\ zeroed \subseteq doomed \ buffered /\ doomed \subseteq buffered \cup zeroed
        /\ dead \subseteq Live
        /\ \A x \in Obj \ Live : rc[x] = 0
        /\ Exact(rc, ext, field, alloc \ Trial)
    BY <1>3, WalkFacts
  <1>6. /\ \A p : Children(p)' = Children(p)
        /\ Live' = Live /\ Gray' = Gray /\ White' = White /\ Purple' = Purple /\ Trial' = Trial
        /\ RootEntries' = RootEntries
    BY <1>2, <1>3 DEF Children, heapVars, Live, Gray, White, Purple, Trial, RootEntries
  <1>7. /\ r \in Obj /\ cursor \in 1 .. Len(roots)
        /\ cursor .. Len(roots) = {cursor} \cup (cursor + 1 .. Len(roots))
    BY <1>1, <1>2, <1>5, NextRoot DEF TypeOK
  <1>8. r \in Live
    BY <1>1, <1>2, <1>4, <1>7 DEF RootInv
  <1>9. ColourInv' /\ RootInv' /\ LiveCounted' /\ IndexInv'
    <2>1. ColourInv'
      BY <1>2, <1>3, <1>4, <1>6, <1>8 DEF ColourInv
    <2>2. RootInv' /\ IndexInv'
      BY <1>2, <1>3, <1>4, <1>6 DEF RootInv, IndexInv
    <2>3. LiveCounted'
      BY <1>2, <1>3, <1>4, <1>6 DEF CountInv, LiveCounted
    <2> QED
      BY <2>1, <2>2, <2>3
  <1>10. GarbageInv'
    BY <1>2, <1>4, <1>6 DEF GarbageInv, Orphans, heapVars
  <1>11. VisitGray'
    <2>1. ASSUME phase = "scan", NEW S \in SUBSET Obj, \A i \in cursor' .. Len(roots') : roots'[i] \in S,
                 work' \subseteq S, \A p \in (S \cap Gray') \cup restore' : Children(p)' \subseteq S
          PROVE  Gray' \subseteq S
      <3>1. \A i \in cursor .. Len(roots) : roots[i] \in S
        BY <1>1, <1>2, <1>3, <1>7, <2>1
      <3>2. work \subseteq S /\ \A p \in (S \cap Gray) \cup restore : Children(p) \subseteq S
        BY <1>2, <1>6, <2>1
      <3> QED
        BY <1>4, <1>6, <2>1, <3>1, <3>2 DEF VisitInv, VisitGray
    <2> QED
      BY <1>2, <2>1 DEF VisitGray
  <1>12. VisitWhite'
    <2>1. ASSUME phase = "scan", NEW S \in SUBSET Obj, \A i \in 1 .. Len(roots') : roots'[i] \in S,
                 \A p \in (S \cap White') \cup restore' : Children(p)' \subseteq S
          PROVE  White' \cup (work' \cap Gray') \subseteq S
      <3>1. \A i \in 1 .. Len(roots) : roots[i] \in S
        BY <1>3, <2>1
      <3>2. \A p \in (S \cap White) \cup restore : Children(p) \subseteq S
        BY <1>2, <1>6, <2>1
      <3>3. White \subseteq S
        BY <1>4, <2>1, <3>1, <3>2 DEF VisitInv, VisitWhite
      <3> QED
        BY <1>1, <1>2, <1>6, <1>7, <3>1, <3>3
    <2> QED
      BY <1>2, <2>1 DEF VisitWhite
  <1>13. VisitDead'
    <2>1. ASSUME phase = "gather", NEW S \in SUBSET Obj, \A i \in cursor' .. Len(roots') : roots'[i] \in S,
                 work' \subseteq S, \A p \in S \cap White' : Children(p)' \subseteq S
          PROVE  White' \subseteq S
      <3>1. \A i \in cursor .. Len(roots) : roots[i] \in S
        BY <1>1, <1>2, <1>3, <1>7, <2>1
      <3>2. work \subseteq S /\ \A p \in S \cap White : Children(p) \subseteq S
        BY <1>2, <1>6, <2>1
      <3> QED
        BY <1>4, <1>6, <2>1, <3>1, <3>2 DEF VisitInv, VisitDead
    <2> QED
      BY <1>2, <2>1 DEF VisitDead
  <1>14. VisitInv'
    BY <1>2, <1>11, <1>12, <1>13 DEF VisitInv, VisitMark
  <1>15. Gray \cup White \cup Purple \subseteq Live /\ Purple \subseteq buffered
         /\ dead \cap buffered = {} /\ \A x \in dead : colour[x] = "black" /\ rc[x] = 0
    BY <1>4 DEF BlockInv, DeadInv
  <1> QED
    BY <1>2, <1>3, <1>5, <1>6, <1>9, <1>10, <1>14, <1>15, WalkKeeps DEF heapVars

LEMMA ScanKeeps ==
    ASSUME CollectorInv, NEW o \in Obj, Scan(o)
    PROVE  CollectorInv'
  <1>1. /\ phase = "scan" /\ restore = {} /\ o \in work
        /\ UNCHANGED <<heapVars, rc, buffered, doomed, rootIndex, roots, drainVars,
                       phase, cursor, kept, dead, zeroed, freeing>>
    BY DEF Scan, Walking
  <1>2. \/ colour[o] # "gray" /\ work' = work \ {o} /\ UNCHANGED <<colour, restore>>
        \/ /\ colour[o] = "gray" /\ rc[o] > 0 /\ colour' = [colour EXCEPT ![o] = "black"]
           /\ restore' = {o} /\ work' = work \ {o}
        \/ /\ colour[o] = "gray" /\ rc[o] = 0 /\ colour' = [colour EXCEPT ![o] = "white"]
           /\ work' = (work \ {o}) \cup Children(o) /\ UNCHANGED restore
    BY DEF Scan
  <1>3. /\ phase \in Walks /\ phase' \in Walks /\ phase' = "scan" /\ Collect
        /\ UNCHANGED <<heapVars, drainVars, doomed, freeing>>
    BY <1>1 DEF Walks, Collect
  <1>4. BlockInv /\ ColourInv /\ CountInv /\ IndexInv /\ RootInv /\ VisitGray /\ VisitWhite /\ GarbageInv
    BY DEF CollectorInv, VisitInv
  <1>5. /\ TypeOK /\ zeroed \subseteq doomed \ buffered /\ doomed \subseteq buffered \cup zeroed
        /\ dead = {} /\ Live \subseteq Obj /\ alloc = Live \cup doomed
        /\ \A x \in Obj \ Live : rc[x] = 0
        /\ Exact(rc, ext, field, alloc \ Trial)
        /\ \A x \in Live : Children(x) \subseteq Live
        /\ \A x \in doomed : Empty(x)
    BY <1>1, <1>3, WalkFacts
  <1>6. /\ \A p : Children(p)' = Children(p)
        /\ Live' = Live /\ RootEntries' = RootEntries
    BY <1>1 DEF Children, heapVars, Live, RootEntries
  <1>7. IndexInv' /\ RootInv' /\ VisitMark' /\ VisitDead'
    BY <1>1, <1>3, <1>4, <1>6 DEF IndexInv, RootInv, VisitMark, VisitDead
  <1>8. /\ Gray \cup White \cup Purple \subseteq Live /\ Purple = {} /\ o \in Live /\ work \subseteq Live
        /\ \A x \in White : rc[x] = 0
    BY <1>1, <1>4 DEF BlockInv, ColourInv
  <1>9. Trial = Gray \cup White /\ Trial' = Gray' \cup White' \cup restore'
    <2>1. Trial = Gray \cup White \cup restore \cup dead /\ Trial' = Gray' \cup White' \cup restore' \cup dead'
      BY DEF Trial, Gray, White
    <2> QED
      BY <1>1, <1>5, <2>1
  <1>10. CASE colour[o] # "gray"
    <2>1. work' = work \ {o} /\ UNCHANGED <<colour, restore>> /\ o \notin Gray
      BY <1>2, <1>10 DEF Gray
    <2>2. Gray' = Gray /\ White' = White /\ Purple' = Purple /\ Trial' = Trial
      BY <1>1, <2>1 DEF Gray, White, Purple, Trial
    <2>3. ColourInv' /\ LiveCounted'
      BY <1>1, <1>4, <1>6, <2>1, <2>2 DEF ColourInv, CountInv, LiveCounted
    <2>4. GarbageInv'
      BY <1>1, <1>4, <1>6, <2>2 DEF GarbageInv, Orphans, heapVars
    <2>5. VisitWhite'
      BY <1>1, <1>4, <1>6, <2>1, <2>2 DEF VisitWhite
    <2>6. VisitGray'
      <3>1. ASSUME NEW S \in SUBSET Obj, \A i \in cursor .. Len(roots) : roots[i] \in S,
                   work \ {o} \subseteq S, \A p \in (S \cap Gray) \cup restore : Children(p) \subseteq S
            PROVE  Gray \subseteq S
        <4>1. PICK T \in SUBSET Obj : T = S \cup {o}
          OBVIOUS
        <4>2. /\ \A i \in cursor .. Len(roots) : roots[i] \in T
              /\ work \subseteq T /\ \A p \in (T \cap Gray) \cup restore : Children(p) \subseteq T
          BY <2>1, <3>1, <4>1
        <4>3. Gray \subseteq T
          BY <1>1, <1>4, <4>2 DEF VisitGray
        <4> QED
          BY <2>1, <4>1, <4>3
      <3> QED
        BY <1>1, <1>6, <2>1, <2>2, <3>1 DEF VisitGray
    <2> QED
      BY <1>1, <1>3, <1>5, <1>7, <1>8, <2>2, <2>3, <2>4, <2>5, <2>6, WalkKeeps DEF VisitInv, heapVars
  <1>11. CASE colour[o] = "gray" /\ rc[o] > 0
    <2>1. /\ colour' = [colour EXCEPT ![o] = "black"] /\ restore' = {o} /\ work' = work \ {o} /\ o \in Gray
      BY <1>2, <1>11 DEF Gray
    <2>2. Gray' = Gray \ {o} /\ White' = White /\ Purple' = {} /\ o \notin White /\ colour'[o] = "black"
      BY <1>5, <1>8, <1>11, <2>1 DEF Gray, White, Purple, TypeOK
    <2>3. Trial' = Trial
      BY <1>9, <2>1, <2>2
    <2>4. ColourInv'
      BY <1>1, <1>4, <1>6, <1>8, <2>1, <2>2 DEF ColourInv
    <2>5. LiveCounted'
      BY <1>1, <1>3, <1>4, <1>6, <1>11, <2>2 DEF CountInv, LiveCounted
    <2>6. VisitWhite'
      <3>1. ASSUME NEW S \in SUBSET Obj, \A i \in 1 .. Len(roots) : roots[i] \in S,
                   \A p \in (S \cap White) \cup {o} : Children(p) \subseteq S
            PROVE  White \cup (work \cap Gray) \subseteq S
        BY <1>1, <1>4, <3>1 DEF VisitWhite
      <3> QED
        BY <1>1, <1>6, <2>1, <2>2, <3>1 DEF VisitWhite
    <2>7. VisitGray'
      <3>1. ASSUME NEW S \in SUBSET Obj, \A i \in cursor .. Len(roots) : roots[i] \in S,
                   work \ {o} \subseteq S, \A p \in (S \cap (Gray \ {o})) \cup {o} : Children(p) \subseteq S
            PROVE  Gray \ {o} \subseteq S
        <4>1. PICK T \in SUBSET Obj : T = S \cup {o}
          OBVIOUS
        <4>2. /\ \A i \in cursor .. Len(roots) : roots[i] \in T
              /\ work \subseteq T /\ \A p \in (T \cap Gray) \cup restore : Children(p) \subseteq T
          BY <1>1, <3>1, <4>1
        <4>3. Gray \subseteq T
          BY <1>1, <1>4, <4>2 DEF VisitGray
        <4> QED
          BY <4>1, <4>3
      <3> QED
        BY <1>1, <1>6, <2>1, <2>2, <3>1 DEF VisitGray
    <2>8. GarbageInv'
      <3>1. PICK A : A = Live \ (Gray \cup White \cup dead)
        OBVIOUS
      <3>2. Live \ (Gray' \cup White' \cup dead') = A \cup {o} /\ o \notin A
        BY <1>1, <1>5, <1>8, <2>1, <2>2, <3>1
      <3>3. ASSUME NEW U \in SUBSET (Obj \ (Gray' \cup White' \cup dead')), Orphans(U, A \cup {o})
            PROVE  FALSE
        <4>1. PICK V : V = U \ {o}
          OBVIOUS
        <4>2. V \in SUBSET (Obj \ (Gray \cup White \cup dead))
          BY <1>1, <2>2, <4>1
        <4>3. \A v \in V, p \in A, s \in Slots : field[p][s] = v => p \in V
          BY <3>2, <3>3, <4>1 DEF Orphans
        <4>4. V # {}
          <5>1. CASE o \notin U
            BY <3>3, <4>1, <5>1 DEF Orphans
          <5>2. CASE o \in U
            <6>1. ext[o] = 0 /\ rc[o] # 0
              BY <1>11, <3>3, <5>2 DEF Orphans
            <6>2. rc[o] = ext[o] + Cardinality(Refs(field, alloc \ Trial, o))
              BY <1>5 DEF Exact
            <6>3. alloc \ Trial \in SUBSET Obj
              BY <1>5 DEF TypeOK
            <6>4. Cardinality(Refs(field, alloc \ Trial, o)) \in Nat
              BY <6>3, RefsFinite
            <6>5. Cardinality(Refs(field, alloc \ Trial, o)) # 0
              BY <6>1, <6>2, <6>4
            <6>6. PICK p \in alloc \ Trial, s \in Slots : field[p][s] = o
              BY <6>3, <6>5, RefsFinite
            <6>7. p \notin doomed
              BY <1>5, <6>6, CollectorAssumption DEF Empty
            <6>8. p \in A
              BY <1>5, <1>9, <3>1, <6>6, <6>7
            <6>9. p \in U /\ p # o
              BY <3>2, <3>3, <5>2, <6>6, <6>8 DEF Orphans
            <6> QED
              BY <4>1, <6>9
          <5> QED
            BY <5>1, <5>2
        <4>5. Orphans(V, A)
          BY <3>3, <4>1, <4>3, <4>4 DEF Orphans
        <4> QED
          BY <1>1, <1>4, <3>1, <4>2, <4>5 DEF GarbageInv
      <3>4. \A U \in SUBSET (Obj \ (Gray' \cup White' \cup dead')) :
               ~Orphans(U, Live \ (Gray \cup White \cup dead))'
        BY <1>1, <1>6, <3>2, <3>3 DEF Orphans, heapVars
      <3> QED
        BY <1>3, <3>4 DEF GarbageInv
    <2>9. Gray' \cup White' \cup Purple' \subseteq Live /\ Purple' \subseteq buffered'
      BY <1>8, <2>2
    <2> QED
      BY <1>1, <1>3, <1>5, <1>7, <2>3, <2>4, <2>5, <2>6, <2>7, <2>8, <2>9, WalkKeeps DEF VisitInv, heapVars
  <1>12. CASE colour[o] = "gray" /\ rc[o] = 0
    <2>1. /\ colour' = [colour EXCEPT ![o] = "white"] /\ restore' = restore
          /\ work' = (work \ {o}) \cup Children(o) /\ o \in Gray
      BY <1>2, <1>12 DEF Gray
    <2>2. Gray' = Gray \ {o} /\ White' = White \cup {o} /\ Purple' = {}
      BY <1>5, <1>8, <1>12, <2>1 DEF Gray, White, Purple, TypeOK
    <2>3. Trial' = Trial /\ Gray' \cup White' = Gray \cup White
      BY <1>1, <1>9, <2>1, <2>2
    <2>4. ColourInv'
      BY <1>1, <1>4, <1>5, <1>6, <1>8, <1>12, <2>1, <2>2 DEF ColourInv
    <2>5. LiveCounted'
      BY <1>1, <1>3, <1>4, <1>6, <2>3 DEF CountInv, LiveCounted
    <2>6. VisitWhite'
      <3>1. ASSUME NEW S \in SUBSET Obj, \A i \in 1 .. Len(roots) : roots[i] \in S,
                   \A p \in (S \cap (White \cup {o})) \cup restore : Children(p) \subseteq S
            PROVE  White' \cup (work' \cap Gray') \subseteq S
        <4>1. White \cup (work \cap Gray) \subseteq S
          BY <1>1, <1>4, <3>1 DEF VisitWhite
        <4>2. o \in S /\ Children(o) \subseteq S
          BY <1>1, <2>1, <3>1, <4>1
        <4> QED
          BY <2>1, <2>2, <4>1, <4>2
      <3> QED
        BY <1>1, <1>6, <2>1, <2>2, <3>1 DEF VisitWhite
    <2>7. VisitGray'
      <3>1. ASSUME NEW S \in SUBSET Obj, \A i \in cursor .. Len(roots) : roots[i] \in S,
                   (work \ {o}) \cup Children(o) \subseteq S,
                   \A p \in (S \cap (Gray \ {o})) \cup restore : Children(p) \subseteq S
            PROVE  Gray \ {o} \subseteq S
        <4>1. PICK T \in SUBSET Obj : T = S \cup {o}
          OBVIOUS
        <4>2. /\ \A i \in cursor .. Len(roots) : roots[i] \in T
              /\ work \subseteq T /\ \A p \in (T \cap Gray) \cup restore : Children(p) \subseteq T
          BY <1>1, <3>1, <4>1
        <4>3. Gray \subseteq T
          BY <1>1, <1>4, <4>2 DEF VisitGray
        <4> QED
          BY <4>1, <4>3
      <3> QED
        BY <1>1, <1>6, <2>1, <2>2, <3>1 DEF VisitGray
    <2>8. GarbageInv'
      BY <1>1, <1>4, <1>6, <2>3 DEF GarbageInv, Orphans, heapVars
    <2>9. Gray' \cup White' \cup Purple' \subseteq Live /\ Purple' \subseteq buffered'
      BY <1>8, <2>2
    <2> QED
      BY <1>1, <1>3, <1>5, <1>7, <2>3, <2>4, <2>5, <2>6, <2>7, <2>8, <2>9, WalkKeeps DEF VisitInv, heapVars
  <1> QED
    BY <1>2, <1>10, <1>11, <1>12

LEMMA ScanBlackKeeps ==
    ASSUME CollectorInv, NEW o \in Obj, ScanBlack(o)
    PROVE  CollectorInv'
  <1>1. PICK R : R = {c \in Children(o) : colour[c] # "black"}
    OBVIOUS
  <1>2. /\ phase = "scan" /\ o \in restore
        /\ rc' = [c \in Obj |-> rc[c] + Cardinality(SlotsOf(o, c))]
        /\ colour' = [c \in Obj |-> IF c \in R THEN "black" ELSE colour[c]]
        /\ restore' = (restore \ {o}) \cup R
        /\ UNCHANGED <<heapVars, buffered, doomed, rootIndex, roots, drainVars,
                       phase, cursor, kept, work, dead, zeroed, freeing>>
    BY <1>1 DEF ScanBlack, Walking
  <1>3. /\ phase \in Walks /\ phase' \in Walks /\ phase' = "scan" /\ Collect
        /\ UNCHANGED <<heapVars, drainVars, doomed, freeing>>
    BY <1>2 DEF Walks, Collect
  <1>4. BlockInv /\ ColourInv /\ CountInv /\ IndexInv /\ RootInv /\ VisitGray /\ VisitWhite /\ GarbageInv
    BY DEF CollectorInv, VisitInv
  <1>5. /\ TypeOK /\ zeroed \subseteq doomed \ buffered /\ doomed \subseteq buffered \cup zeroed
        /\ dead = {} /\ Live \subseteq Obj /\ alloc = Live \cup doomed
        /\ \A x \in Obj \ Live : rc[x] = 0
        /\ \A x \in Obj : rc[x] \in Nat
        /\ Exact(rc, ext, field, alloc \ Trial)
        /\ \A x \in Live : Children(x) \subseteq Live
    BY <1>2, <1>3, WalkFacts
  <1>6. /\ \A p : Children(p)' = Children(p)
        /\ Live' = Live /\ RootEntries' = RootEntries
    BY <1>2 DEF Children, heapVars, Live, RootEntries
  <1>7. IndexInv' /\ RootInv' /\ VisitMark' /\ VisitDead'
    BY <1>2, <1>3, <1>4, <1>6 DEF IndexInv, RootInv, VisitMark, VisitDead
  <1>8. /\ Gray \cup White \cup Purple \subseteq Live /\ Purple = {} /\ work \subseteq Live
        /\ \A x \in White : rc[x] = 0
        /\ o \in Live /\ colour[o] = "black"
        /\ \A x \in restore : x \in Live /\ colour[x] = "black"
    BY <1>2, <1>4 DEF BlockInv, ColourInv
  <1>9. Children(o) \subseteq Live /\ Children(o) \subseteq Obj /\ R \subseteq Children(o)
    BY <1>1, <1>5, <1>8
  <1>10. R = Children(o) \cap (Gray \cup White) /\ o \notin R /\ o \notin Gray \cup White
    BY <1>1, <1>5, <1>8, <1>9 DEF Gray, White, Purple, TypeOK, Colours
  <1>11. Gray' = Gray \ R /\ White' = White \ R /\ Purple' = {}
    BY <1>2, <1>8 DEF Gray, White, Purple
  <1>12. \A x \in R : colour'[x] = "black"
    BY <1>2, <1>9
  <1>13. \A x \in Obj : colour[x] = "black" => colour'[x] = "black"
    BY <1>2
  <1>14. Trial' = Trial \ {o} /\ o \in Trial
    <2>1. Trial = Gray \cup White \cup restore \cup dead /\ Trial' = Gray' \cup White' \cup restore' \cup dead'
      BY DEF Trial, Gray, White
    <2> QED
      BY <1>2, <1>5, <1>10, <1>11, <2>1
  <1>15. ASSUME NEW x \in Obj
         PROVE  /\ rc'[x] \in Nat /\ rc'[x] >= rc[x]
                /\ x \notin Children(o) => rc'[x] = rc[x]
                /\ x \in Children(o) => rc'[x] > 0
    <2>1. PICK k : k = Cardinality(SlotsOf(o, x))
      OBVIOUS
    <2>2. /\ k \in Nat /\ (x \notin Children(o) => k = 0) /\ (x \in Children(o) => k > 0)
      BY <1>5, <2>1, SlotsOfFacts
    <2>3. rc'[x] = rc[x] + k /\ rc[x] \in Nat
      BY <1>2, <1>5, <2>1
    <2> QED
      BY <2>2, <2>3
  <1>16. Exact(rc', ext, field, alloc \ Trial')
    <2>1. PICK A : A = alloc \ Trial'
      OBVIOUS
    <2>2. A \in SUBSET Obj /\ o \in A /\ alloc \ Trial = A \ {o}
      BY <1>5, <1>8, <1>14, <2>1 DEF TypeOK
    <2>3. ASSUME NEW x \in Obj PROVE rc'[x] = ext[x] + Cardinality(Refs(field, A, x))
      <3>1. rc[x] = ext[x] + Cardinality(Refs(field, A \ {o}, x))
        BY <1>5, <2>2 DEF Exact
      <3>2. Cardinality(Refs(field, A, x))
              = Cardinality(Refs(field, A \ {o}, x)) + Cardinality(SlotsOf(o, x))
        BY <2>2, RefsWithout DEF SlotsOf
      <3>3. rc'[x] = rc[x] + Cardinality(SlotsOf(o, x))
        BY <1>2
      <3>4. PICK n, m, k : /\ n = Cardinality(Refs(field, A, x))
                           /\ m = Cardinality(Refs(field, A \ {o}, x))
                           /\ k = Cardinality(SlotsOf(o, x))
        OBVIOUS
      <3>5. A \ {o} \in SUBSET Obj
        BY <2>2
      <3>6. n \in Nat /\ m \in Nat /\ k \in Nat /\ ext[x] \in Nat
        BY <1>5, <2>2, <3>4, <3>5, RefsFinite, SlotsOfFacts DEF TypeOK
      <3> QED
        BY <3>1, <3>2, <3>3, <3>4, <3>6
    <2> QED
      BY <2>1, <2>3 DEF Exact
  <1>17. \A x \in Obj \ Live : rc'[x] = 0
    BY <1>5, <1>9, <1>15
  <1>18. ColourInv'
    <2>1. \A x \in White' : rc'[x] = 0
      <3>1. ASSUME NEW x \in White' PROVE rc'[x] = 0
        <4>1. x \in White /\ x \notin Children(o) /\ x \in Obj
          BY <1>10, <1>11, <3>1 DEF White
        <4> QED
          BY <1>8, <1>15, <4>1
      <3> QED
        BY <3>1
    <2>2. \A x \in restore' : x \in Live /\ colour'[x] = "black"
      BY <1>2, <1>5, <1>8, <1>9, <1>12, <1>13
    <2> QED
      BY <1>2, <1>3, <1>4, <1>6, <1>8, <1>11, <2>1, <2>2 DEF ColourInv
  <1>19. LiveCounted'
    <2>1. ASSUME NEW x \in Live, x \notin Gray', x \notin White' PROVE rc'[x] > 0
      <3>1. CASE x \in R
        BY <1>5, <1>9, <1>15, <3>1
      <3>2. CASE x \notin R
        <4>1. x \in Live \ (Gray \cup White \cup dead)
          BY <1>5, <1>11, <2>1, <3>2
        <4>2. rc[x] > 0
          BY <1>2, <1>4, <4>1 DEF CountInv, LiveCounted
        <4>3. rc'[x] \in Nat /\ rc[x] \in Nat /\ rc'[x] >= rc[x]
          BY <1>5, <1>15
        <4> QED
          BY <4>2, <4>3
      <3> QED
        BY <3>1, <3>2
    <2> QED
      BY <1>6, <2>1 DEF LiveCounted
  <1>20. VisitGray'
    <2>1. ASSUME NEW S \in SUBSET Obj, \A i \in cursor .. Len(roots) : roots[i] \in S, work \subseteq S,
                 \A p \in (S \cap (Gray \ R)) \cup (restore \ {o}) \cup R : Children(p) \subseteq S
          PROVE  Gray \ R \subseteq S
      <3>1. PICK T \in SUBSET Obj : T = S \cup Children(o)
        BY <1>9
      <3>2. \A p \in (T \cap Gray) \cup restore : Children(p) \subseteq T
        BY <1>10, <2>1, <3>1
      <3>3. (\A i \in cursor .. Len(roots) : roots[i] \in T) /\ work \subseteq T
        BY <2>1, <3>1
      <3>4. Gray \subseteq T
        BY <1>2, <1>4, <3>2, <3>3 DEF VisitGray
      <3> QED
        BY <1>10, <3>1, <3>4
    <2> QED
      BY <1>2, <1>6, <1>11, <2>1 DEF VisitGray
  <1>21. VisitWhite'
    <2>1. ASSUME NEW S \in SUBSET Obj, \A i \in 1 .. Len(roots) : roots[i] \in S,
                 \A p \in (S \cap (White \ R)) \cup (restore \ {o}) \cup R : Children(p) \subseteq S
          PROVE  (White \ R) \cup (work \cap (Gray \ R)) \subseteq S
      <3>1. PICK T \in SUBSET Obj : T = S \cup Children(o)
        BY <1>9
      <3>2. \A p \in (T \cap White) \cup restore : Children(p) \subseteq T
        BY <1>10, <2>1, <3>1
      <3>3. \A i \in 1 .. Len(roots) : roots[i] \in T
        BY <2>1, <3>1
      <3>4. White \cup (work \cap Gray) \subseteq T
        BY <1>2, <1>4, <3>2, <3>3 DEF VisitWhite
      <3> QED
        BY <1>10, <3>1, <3>4
    <2> QED
      BY <1>2, <1>6, <1>11, <2>1 DEF VisitWhite
  <1>22. GarbageInv'
    <2>1. PICK A : A = Live \ (Gray \cup White \cup dead)
      OBVIOUS
    <2>2. Live \ (Gray' \cup White' \cup dead') = A \cup R /\ A \cap R = {} /\ o \in A
      BY <1>2, <1>5, <1>8, <1>9, <1>10, <1>11, <2>1
    <2>3. ASSUME NEW U \in SUBSET (Obj \ (Gray' \cup White' \cup dead')), Orphans(U, A \cup R)
          PROVE  FALSE
      <3>1. PICK V : V = U \ R
        OBVIOUS
      <3>2. V \in SUBSET (Obj \ (Gray \cup White \cup dead))
        BY <1>2, <1>11, <3>1
      <3>3. \A v \in V, p \in A, s \in Slots : field[p][s] = v => p \in V
        BY <2>2, <2>3, <3>1 DEF Orphans
      <3>4. V # {}
        <4>1. CASE U \cap R = {}
          BY <2>3, <3>1, <4>1 DEF Orphans
        <4>2. CASE U \cap R # {}
          <5>1. PICK u \in U : u \in R
            BY <4>2
          <5>2. PICK s \in Slots : field[o][s] = u
            BY <1>9, <5>1 DEF Children
          <5>3. o \in U
            BY <2>2, <2>3, <5>2 DEF Orphans
          <5> QED
            BY <1>10, <3>1, <5>3
        <4> QED
          BY <4>1, <4>2
      <3>5. Orphans(V, A)
        BY <2>3, <3>1, <3>3, <3>4 DEF Orphans
      <3> QED
        BY <1>2, <1>4, <2>1, <3>2, <3>5 DEF GarbageInv
    <2>4. \A U \in SUBSET (Obj \ (Gray' \cup White' \cup dead')) :
             ~Orphans(U, Live \ (Gray \cup White \cup dead))'
      BY <1>2, <1>6, <2>2, <2>3 DEF Orphans, heapVars
    <2> QED
      BY <1>3, <2>4 DEF GarbageInv
  <1>23. Gray' \cup White' \cup Purple' \subseteq Live /\ Purple' \subseteq buffered'
    BY <1>8, <1>11
  <1> QED
    BY <1>2, <1>3, <1>5, <1>7, <1>16, <1>17, <1>18, <1>19, <1>20, <1>21, <1>22, <1>23, WalkKeeps
       DEF VisitInv, heapVars

LEMMA ScanEndKeeps ==
    ASSUME CollectorInv, ScanEnd
    PROVE  CollectorInv'
  <1>1. /\ phase = "scan" /\ phase' = "gather" /\ work = {} /\ restore = {}
        /\ cursor > Len(roots) /\ cursor' = 1
        /\ buffered' = buffered \ {roots[i] : i \in 1 .. Len(roots)}
        /\ rootIndex' = [o \in Obj |-> IF \E i \in 1 .. Len(roots) : roots[i] = o
                                       THEN RootNone ELSE rootIndex[o]]
        /\ UNCHANGED <<heapVars, rc, colour, doomed, roots, drainVars, kept, work, restore,
                       dead, zeroed, freeing>>
    BY DEF ScanEnd, Walking
  <1>2. /\ phase \in Walks /\ phase' \in Walks /\ Collect
        /\ UNCHANGED <<heapVars, drainVars, doomed, freeing>>
    BY <1>1 DEF Walks, Collect
  <1>3. BlockInv /\ ColourInv /\ CountInv /\ RootInv /\ VisitGray /\ VisitWhite /\ GarbageInv
    BY DEF CollectorInv, VisitInv
  <1>4. /\ TypeOK /\ zeroed \subseteq doomed \ buffered /\ doomed \subseteq buffered \cup zeroed
        /\ dead = {} /\ Live \subseteq Obj /\ Live \cap doomed = {}
        /\ \A x \in Obj \ Live : rc[x] = 0
        /\ Exact(rc, ext, field, alloc \ Trial)
    BY <1>1, <1>2, WalkFacts
  <1>5. /\ \A p : Children(p)' = Children(p)
        /\ Live' = Live /\ Gray' = Gray /\ White' = White /\ Purple' = Purple /\ Trial' = Trial
    BY <1>1 DEF Children, heapVars, Live, Gray, White, Purple, Trial
  <1>6. Indexed(roots, buffered, rootIndex, 1 .. Len(roots))
    BY <1>1 DEF CollectorInv, IndexInv, RootEntries
  <1>7. Gray = {}
    <2>1. Len(roots) \in Nat /\ cursor \in Nat
      BY <1>4 DEF TypeOK
    <2>2. cursor .. Len(roots) = {}
      BY <1>1, <2>1
    <2>3. {} \in SUBSET Obj
      OBVIOUS
    <2> QED
      BY <1>1, <1>3, <2>2, <2>3 DEF VisitGray
  <1>8. buffered \subseteq Live
    BY <1>1, <1>3, <1>6 DEF Indexed, RootInv
  <1>9. buffered' = {} /\ doomed \subseteq zeroed
    BY <1>1, <1>4, <1>6, <1>8 DEF Indexed
  <1>10. \A o \in Obj : rootIndex'[o] = RootNone
    BY <1>1, <1>6 DEF Indexed
  <1>11. IndexInv' /\ RootInv'
    BY <1>1, <1>3, <1>5, <1>10 DEF IndexInv, RootInv
  <1>12. Gray \cup White \cup Purple \subseteq Live /\ Purple = {}
    BY <1>1, <1>3 DEF BlockInv, ColourInv
  <1>13. ColourInv' /\ LiveCounted'
    BY <1>1, <1>3, <1>5, <1>7, <1>9 DEF ColourInv, CountInv, LiveCounted
  <1>14. GarbageInv'
    BY <1>1, <1>3, <1>5 DEF GarbageInv, Orphans, heapVars
  <1>15. VisitInv'
    <2>1. ASSUME NEW S \in SUBSET Obj, \A i \in 1 .. Len(roots) : roots[i] \in S,
                 \A p \in S \cap White : Children(p) \subseteq S
          PROVE  White \subseteq S
      BY <1>1, <1>3, <2>1 DEF VisitWhite
    <2>2. VisitDead'
      BY <1>1, <1>5, <2>1 DEF VisitDead
    <2> QED
      BY <1>1, <2>2 DEF VisitInv, VisitMark, VisitGray, VisitWhite
  <1> QED
    BY <1>1, <1>2, <1>4, <1>5, <1>9, <1>11, <1>12, <1>13, <1>14, <1>15, WalkKeeps DEF heapVars

LEMMA GatherWhiteKeeps ==
    ASSUME CollectorInv, NEW o \in Obj, GatherWhite(o)
    PROVE  CollectorInv'
  <1>1. /\ phase = "gather" /\ o \in work
        /\ UNCHANGED <<heapVars, rc, buffered, doomed, rootIndex, roots, drainVars, phase,
                       cursor, kept, restore, zeroed, freeing>>
        /\ IF colour[o] = "white" /\ o \notin buffered
           THEN /\ colour' = [colour EXCEPT ![o] = "black"]
                /\ dead' = dead \cup {o}
                /\ work' = (work \ {o}) \cup Children(o)
           ELSE work' = work \ {o} /\ UNCHANGED <<colour, dead>>
    BY DEF GatherWhite, Walking
  <1>2. /\ phase \in Walks /\ phase' \in Walks /\ phase' = "gather" /\ Collect
        /\ UNCHANGED <<heapVars, drainVars, doomed, freeing>>
    BY <1>1 DEF Walks, Collect
  <1>3. BlockInv /\ ColourInv /\ CountInv /\ IndexInv /\ RootInv /\ VisitDead /\ GarbageInv /\ DeadInv
    BY DEF CollectorInv, VisitInv
  <1>4. /\ TypeOK /\ zeroed \subseteq doomed \ buffered /\ doomed \subseteq buffered \cup zeroed
        /\ restore = {} /\ dead \subseteq Live /\ Live \subseteq Obj
        /\ \A x \in Obj \ Live : rc[x] = 0
        /\ Exact(rc, ext, field, alloc \ Trial)
        /\ \A x \in Live : Children(x) \subseteq Live
    BY <1>1, <1>2, WalkFacts
  <1>5. /\ \A p : Children(p)' = Children(p)
        /\ Live' = Live /\ RootEntries' = RootEntries
    BY <1>1 DEF Children, heapVars, Live, RootEntries
  <1>6. IndexInv' /\ RootInv' /\ VisitMark' /\ VisitGray' /\ VisitWhite'
    BY <1>1, <1>2, <1>3, <1>5 DEF IndexInv, RootInv, VisitMark, VisitGray, VisitWhite
  <1>7. /\ Gray = {} /\ Purple = {} /\ buffered = {} /\ o \in Live /\ White \subseteq Live
        /\ \A x \in White : rc[x] = 0
        /\ \A x \in dead : colour[x] = "black" /\ rc[x] = 0
    BY <1>1, <1>3 DEF ColourInv, BlockInv, DeadInv
  <1>8. CASE colour[o] = "white"
    <2>1. /\ colour' = [colour EXCEPT ![o] = "black"]
          /\ dead' = dead \cup {o}
          /\ work' = (work \ {o}) \cup Children(o) /\ o \in White
      BY <1>1, <1>7, <1>8 DEF White
    <2>2. /\ Gray' = {} /\ White' = White \ {o} /\ Purple' = {} /\ colour'[o] = "black"
          /\ \A x \in Obj : x # o => colour'[x] = colour[x]
      BY <1>4, <1>7, <2>1 DEF Gray, White, Purple, TypeOK
    <2>3. Trial' = Trial /\ Gray' \cup White' \cup dead' = Gray \cup White \cup dead
      <3>1. Trial = Gray \cup White \cup restore \cup dead /\ Trial' = Gray' \cup White' \cup restore' \cup dead'
        BY DEF Trial, Gray, White
      <3> QED
        BY <1>1, <1>4, <1>7, <2>1, <2>2, <3>1
    <2>4. /\ dead' \subseteq Live /\ dead' \cap buffered' = {}
          /\ \A x \in dead' : colour'[x] = "black" /\ rc'[x] = 0
      BY <1>1, <1>4, <1>7, <2>1, <2>2
    <2>5. ColourInv'
      <3>1. Children(o) \subseteq Live
        BY <1>4, <1>7
      <3> QED
        BY <1>1, <1>3, <1>4, <1>5, <1>7, <2>1, <2>2, <3>1 DEF ColourInv
    <2>6. LiveCounted'
      BY <1>1, <1>3, <1>5, <2>3 DEF CountInv, LiveCounted
    <2>7. GarbageInv'
      BY <1>1, <1>3, <1>5, <2>3 DEF GarbageInv, Orphans, heapVars
    <2>8. VisitDead'
      <3>1. ASSUME NEW S \in SUBSET Obj, \A i \in cursor .. Len(roots) : roots[i] \in S,
                   (work \ {o}) \cup Children(o) \subseteq S,
                   \A p \in S \cap (White \ {o}) : Children(p) \subseteq S
            PROVE  White \ {o} \subseteq S
        <4>1. PICK T \in SUBSET Obj : T = S \cup {o}
          OBVIOUS
        <4>2. /\ \A i \in cursor .. Len(roots) : roots[i] \in T
              /\ work \subseteq T /\ \A p \in T \cap White : Children(p) \subseteq T
          BY <1>1, <3>1, <4>1
        <4>3. White \subseteq T
          BY <1>1, <1>3, <4>2 DEF VisitDead
        <4> QED
          BY <4>1, <4>3
      <3> QED
        BY <1>1, <1>5, <2>1, <2>2, <3>1 DEF VisitDead
    <2>9. Gray' \cup White' \cup Purple' \subseteq Live /\ Purple' \subseteq buffered'
      BY <1>7, <2>2
    <2> QED
      BY <1>1, <1>2, <1>4, <1>6, <2>3, <2>4, <2>5, <2>6, <2>7, <2>8, <2>9, WalkKeeps DEF VisitInv, heapVars
  <1>9. CASE colour[o] # "white"
    <2>1. work' = work \ {o} /\ UNCHANGED <<colour, dead>> /\ o \notin White
      BY <1>1, <1>9 DEF White
    <2>2. Gray' = Gray /\ White' = White /\ Purple' = Purple /\ Trial' = Trial
      BY <1>1, <2>1 DEF Gray, White, Purple, Trial
    <2>3. ColourInv' /\ LiveCounted'
      BY <1>1, <1>3, <1>5, <2>1, <2>2 DEF ColourInv, CountInv, LiveCounted
    <2>4. GarbageInv'
      BY <1>1, <1>3, <1>5, <2>1, <2>2 DEF GarbageInv, Orphans, heapVars
    <2>5. VisitDead'
      <3>1. ASSUME NEW S \in SUBSET Obj, \A i \in cursor .. Len(roots) : roots[i] \in S,
                   work \ {o} \subseteq S, \A p \in S \cap White : Children(p) \subseteq S
            PROVE  White \subseteq S
        <4>1. PICK T \in SUBSET Obj : T = S \cup {o}
          OBVIOUS
        <4>2. /\ \A i \in cursor .. Len(roots) : roots[i] \in T
              /\ work \subseteq T /\ \A p \in T \cap White : Children(p) \subseteq T
          BY <2>1, <3>1, <4>1
        <4>3. White \subseteq T
          BY <1>1, <1>3, <4>2 DEF VisitDead
        <4> QED
          BY <2>1, <4>1, <4>3
      <3> QED
        BY <1>1, <1>5, <2>1, <2>2, <3>1 DEF VisitDead
    <2> QED
      BY <1>1, <1>2, <1>4, <1>6, <1>7, <2>1, <2>2, <2>3, <2>4, <2>5, WalkKeeps DEF VisitInv, heapVars
  <1> QED
    BY <1>8, <1>9

(***************************************************************************)
(* The end of a pass: what was gathered is freed, then the shells.         *)
(***************************************************************************)
LEMMA TailKeeps ==
    ASSUME CollectorInv, Collect,
           phase' \in {"free", "callback", "reclaim", "idle"} \/ (phase' = "mark" /\ cursor' = 1 /\ kept' = 0),
           drainPc' = "off", drainSlot' = drainSlot, work' = {}, Gray' = {}, White' = {},
           BlockInv', ShellInv', DeadInv', FreedInv',
           Exact(rc', ext', field', alloc' \ dead'),
           \A o \in Obj \ Live' : rc'[o] = 0,
           \A o \in Live' : rc'[o] > 0,
           Indexed(roots', buffered', rootIndex', 1 .. Len(roots')),
           \A U \in SUBSET Obj : Orphans(U, alloc \ dead)' => U \cap Purple' # {}
    PROVE  CollectorInv'
  <1>1. WellFormed'
    BY TypeStep DEF CollectorInv, WellFormed, Next
  <1>2. dying' = {} /\ drainObj' = Null /\ restore' = {}
    BY <1>1 DEF WellFormed, TypeOK, Shape
  <1>3. Trial' = dead'
    <2>1. Trial' = Gray' \cup White' \cup restore' \cup dead'
      BY DEF Trial, Gray, White
    <2> QED
      BY <1>2, <2>1
  <1>4. Null \notin buffered'
    BY <1>1, CollectorAssumption DEF WellFormed, TypeOK
  <1>5. DrainInv'
    BY <1>2, <1>4 DEF CollectorInv, DrainInv
  <1>6. ColourInv' /\ RootInv'
    BY <1>2 DEF ColourInv, RootInv
  <1>7. VisitInv'
    BY DEF VisitInv, VisitMark, VisitGray, VisitWhite, VisitDead
  <1>8. IndexInv'
    <2>1. Len(roots') \in Nat
      BY <1>1 DEF WellFormed, TypeOK
    <2>2. RootEntries' = 1 .. Len(roots')
      <3>1. PICK n \in Nat : n = Len(roots')
        BY <2>1
      <3>2. (1 .. 0) \cup (1 .. n) = 1 .. n
        OBVIOUS
      <3>3. CASE phase' = "mark" /\ cursor' = 1 /\ kept' = 0
        BY <3>1, <3>2, <3>3 DEF RootEntries
      <3>4. CASE phase' # "mark"
        BY <3>4 DEF RootEntries
      <3> QED
        BY <3>3, <3>4
    <2> QED
      BY <2>2 DEF IndexInv
  <1>9. GarbageInv'
    BY DEF GarbageInv
  <1>10. CountInv'
    <2>1. Live' \subseteq alloc' \ dead'
      BY <1>1 DEF WellFormed, Shape, DeadInv, Live
    <2>2. /\ ext' \in [Obj -> Nat] /\ field' \in Graph /\ alloc' \ dead' \in SUBSET Obj
      BY <1>1 DEF WellFormed, TypeOK, Graph
    <2>3. \A p \in Live', s \in Slots : field'[p][s] # Null => field'[p][s] \in Live'
      BY <2>1, <2>2, ClosedBy
    <2>4. LiveCounted'
      BY DEF LiveCounted
    <2> QED
      BY <1>3, <2>3, <2>4 DEF CountInv, LiveClosed
  <1> QED
    BY <1>1, <1>5, <1>6, <1>7, <1>8, <1>9, <1>10 DEF CollectorInv

LEMMA TailFacts ==
    ASSUME CollectorInv, phase \in {"free", "callback", "reclaim"}, drainPc = "off"
    PROVE  /\ TypeOK /\ BlockInv /\ ShellInv /\ DeadInv /\ FreedInv
           /\ dying = {} /\ drainObj = Null /\ work = {}
           /\ Gray = {} /\ White = {}
           /\ dead \subseteq doomed /\ (phase = "reclaim" => dead = {} /\ freeing = Null)
           /\ Live \subseteq Obj /\ Live = alloc \ doomed
           /\ Exact(rc, ext, field, alloc \ dead)
           /\ \A o \in Obj \ Live : rc[o] = 0
           /\ \A o \in Live : rc[o] > 0
           /\ Indexed(roots, buffered, rootIndex, 1 .. Len(roots))
           /\ \A U \in SUBSET Obj : Orphans(U, alloc \ dead) => U \cap Purple # {}
           /\ Null \notin doomed /\ Null \notin dead /\ Null \notin buffered
  <1>1. TypeOK /\ Shape /\ BlockInv /\ ShellInv /\ DeadInv /\ FreedInv /\ ColourInv /\ CountInv /\ GarbageInv
        /\ IndexInv
    BY DEF CollectorInv, WellFormed
  <1>2. dying = {} /\ drainObj = Null /\ work = {} /\ restore = {}
        /\ (phase = "reclaim" => dead = {} /\ freeing = Null)
    BY <1>1 DEF Shape, TypeOK
  <1>3. Gray = {} /\ White = {}
    BY <1>1 DEF ColourInv
  <1>4. Trial = dead /\ dead \subseteq doomed
    BY <1>1, <1>2, <1>3, TrialSplit DEF DeadInv
  <1>5. Live \subseteq Obj /\ Live = alloc \ doomed
    BY <1>1 DEF Live, TypeOK
  <1>6. /\ Exact(rc, ext, field, alloc \ dead)
        /\ \A o \in Obj \ Live : rc[o] = 0
        /\ \A o \in Live : rc[o] > 0
    BY <1>1, <1>3, <1>4, <1>5 DEF CountInv, LiveCounted
  <1>7. Indexed(roots, buffered, rootIndex, 1 .. Len(roots))
    BY <1>1 DEF IndexInv, RootEntries
  <1>8. \A U \in SUBSET Obj : Orphans(U, alloc \ dead) => U \cap Purple # {}
    BY <1>1, <1>3 DEF GarbageInv
  <1>9. Null \notin doomed /\ Null \notin dead /\ Null \notin buffered
    BY <1>1, CollectorAssumption DEF TypeOK
  <1> QED
    BY <1>1, <1>2, <1>3, <1>4, <1>5, <1>6, <1>7, <1>8, <1>9

\* Steps that only move the pass on.
LEMMA TailQuiet ==
    ASSUME CollectorInv, FreeEnd \/ FreeCallbackReturns \/ PassEnd \/ \E o \in Obj : FreeDead(o)
    PROVE  CollectorInv'
  <1>1. /\ phase \in {"free", "callback", "reclaim"} /\ drainPc = "off" /\ Collect
        /\ UNCHANGED <<alloc, field, ext, headerVars, drainVars, work, dead, zeroed, freed>>
        /\ foreign' \subseteq foreign
    BY DEF FreeEnd, FreeCallbackReturns, PassEnd, FreeDead, Walking, Collect, heapVars, walkVars
  <1>2. UNCHANGED <<rc, colour, buffered, doomed, rootIndex, roots, dying, drainPc, drainObj, drainSlot>>
    BY <1>1 DEF headerVars, drainVars
  <1>3. /\ TypeOK /\ BlockInv /\ ShellInv /\ DeadInv /\ FreedInv
        /\ dying = {} /\ drainObj = Null /\ work = {}
        /\ Gray = {} /\ White = {} /\ dead \subseteq doomed
    BY <1>1, TailFacts
  <1>4. /\ Gray' = Gray /\ White' = White /\ Purple' = Purple /\ Live' = Live /\ Shells' = Shells
        /\ \A o : Empty(o)' = Empty(o)
    BY <1>1, <1>2 DEF Gray, White, Purple, Live, Shells, Empty
  <1>5. BlockInv'
    BY <1>1, <1>2, <1>3, <1>4 DEF BlockInv
  <1>6. /\ phase' \in {"free", "callback", "reclaim", "idle"} \/ (phase' = "mark" /\ cursor' = 1 /\ kept' = 0)
        /\ phase' = "idle" => Shells = {}
        /\ DeadInv' /\ FreedInv'
    <2>1. CASE FreeEnd
      BY <1>1, <1>2, <1>3, <1>4, <2>1 DEF FreeEnd, Walking, DeadInv, FreedInv, headerVars
    <2>2. CASE FreeCallbackReturns
      BY <1>1, <1>2, <1>3, <1>4, <2>2 DEF FreeCallbackReturns, Walking, DeadInv, FreedInv, headerVars
    <2>3. ASSUME NEW o \in Obj, FreeDead(o)
          PROVE  phase' \in {"free", "callback"} /\ DeadInv' /\ FreedInv'
      <3>1. /\ phase = "free" /\ freeing = Null /\ o \in dead /\ freeing' = o /\ foreign' = foreign \ {o}
            /\ phase' \in {"free", "callback"}
        BY <2>3 DEF FreeDead, Walking
      <3>2. o # Null
        BY CollectorAssumption
      <3>3. DeadInv'
        BY <1>1, <1>2, <1>3, <1>4, <3>1, <3>2 DEF DeadInv
      <3>4. FreedInv'
        BY <1>1, <1>2, <1>3, <3>1 DEF FreedInv
      <3> QED
        BY <3>1, <3>3, <3>4
    <2>4. CASE PassEnd
      <3>1. /\ phase = "reclaim" /\ zeroed = {} /\ freeing' = freeing /\ freeing = Null
            /\ (phase' = "mark" /\ cursor' = 1 /\ kept' = 0)
                 \/ (phase' = "idle" /\ ~(freed /\ roots # <<>>))
        <4>1. phase = "reclaim" /\ zeroed = {} /\ freeing' = freeing
          BY <2>4 DEF PassEnd, Walking
        <4>2. freeing = Null
          BY <1>1, <4>1, TailFacts
        <4>3. CASE freed /\ roots # <<>>
          BY <2>4, <4>1, <4>2, <4>3 DEF PassEnd, BeginPass
        <4>4. CASE ~(freed /\ roots # <<>>)
          BY <2>4, <4>1, <4>2, <4>4 DEF PassEnd
        <4> QED
          BY <4>3, <4>4
      <3>2. phase' = "idle" => Shells = {}
        <4>1. ASSUME phase' = "idle" PROVE roots = <<>>
          BY <1>3, <3>1, <4>1 DEF FreedInv
        <4>2. ASSUME roots = <<>> PROVE buffered = {}
          <5>1. Len(roots) = 0 /\ 1 .. 0 = {}
            BY <4>2
          <5> QED
            BY <1>1, <5>1, TailFacts DEF Indexed
        <4> QED
          BY <1>3, <3>1, <4>1, <4>2 DEF ShellInv
      <3>3. dead = {}
        BY <1>1, <3>1, TailFacts
      <3>4. DeadInv' /\ FreedInv'
        BY <1>1, <1>2, <3>1, <3>3 DEF DeadInv, FreedInv
      <3> QED
        BY <3>1, <3>2, <3>4
    <2> QED
      BY <2>1, <2>2, <2>3, <2>4 DEF FreeEnd, FreeCallbackReturns
  <1>7. ShellInv'
    BY <1>1, <1>2, <1>3, <1>4, <1>6 DEF ShellInv
  <1>8. \A U \in SUBSET Obj : Orphans(U, alloc \ dead)' => U \cap Purple' # {}
    <2>1. ASSUME NEW U \in SUBSET Obj, Orphans(U, alloc \ dead)' PROVE Orphans(U, alloc \ dead)
      BY <1>1, <1>4, <2>1 DEF Orphans
    <2> QED
      BY <1>1, <1>4, <2>1, TailFacts
  <1>9. /\ Exact(rc', ext', field', alloc' \ dead')
        /\ \A o \in Obj \ Live' : rc'[o] = 0
        /\ \A o \in Live' : rc'[o] > 0
        /\ Indexed(roots', buffered', rootIndex', 1 .. Len(roots'))
    BY <1>1, <1>2, <1>4, TailFacts
  <1> QED
    BY <1>1, <1>2, <1>3, <1>4, <1>5, <1>6, <1>7, <1>8, <1>9, TailKeeps

LEMMA GatherEndKeeps ==
    ASSUME CollectorInv, GatherEnd
    PROVE  CollectorInv'
  <1>1. /\ phase = "gather" /\ phase' = "free" /\ drainPc = "off" /\ work = {} /\ cursor > Len(roots)
        /\ roots' = <<>> /\ doomed' = doomed \cup dead
        /\ (freed' <=> dead # {} \/ zeroed # {}) /\ Collect
        /\ UNCHANGED <<heapVars, rc, colour, buffered, rootIndex, drainVars, work, restore, dead,
                       zeroed, freeing>>
    BY DEF GatherEnd, Walking, Collect
  <1>2. UNCHANGED <<alloc, field, ext, foreign, dying, drainPc, drainObj, drainSlot>>
    BY <1>1 DEF heapVars, drainVars
  <1>3. BlockInv /\ ColourInv /\ CountInv /\ IndexInv /\ VisitDead /\ GarbageInv /\ DeadInv /\ ShellInv
    BY DEF CollectorInv, VisitInv
  <1>4. /\ TypeOK /\ dying = {} /\ drainObj = Null /\ freeing = Null
        /\ Shells = doomed /\ zeroed \subseteq doomed \ buffered /\ doomed \subseteq buffered \cup zeroed
        /\ \A o \in doomed : Empty(o) /\ o \notin foreign
        /\ dead \subseteq Live /\ restore = {} /\ Live \subseteq Obj /\ Live \cap doomed = {}
        /\ alloc = Live \cup doomed
        /\ Exact(rc, ext, field, alloc \ Trial)
        /\ \A x \in Obj \ Live : rc[x] = 0
    BY <1>1, WalkFacts DEF Walks
  <1>5. White = {} /\ Gray = {} /\ Purple = {} /\ buffered = {}
    <2>1. Len(roots) \in Nat /\ cursor \in Nat
      BY <1>4 DEF TypeOK
    <2>2. cursor .. Len(roots) = {}
      BY <1>1, <2>1
    <2>3. {} \in SUBSET Obj
      OBVIOUS
    <2>4. White = {}
      BY <1>1, <1>3, <2>2, <2>3 DEF VisitDead
    <2> QED
      BY <1>1, <1>3, <2>4 DEF ColourInv
  <1>6. /\ Gray' = {} /\ White' = {} /\ Purple' = {} /\ Live' = Live \ dead
        /\ Trial = dead
    BY <1>1, <1>2, <1>4, <1>5, TrialSplit DEF Gray, White, Purple, Live
  <1>7. Null \notin Live /\ Null \notin doomed
    BY <1>4, CollectorAssumption DEF TypeOK
  <1>8. Shells' = doomed
    BY <1>1, <1>2, <1>4, <1>7 DEF Shells
  <1>9. BlockInv'
    BY <1>1, <1>2, <1>3, <1>4, <1>5, <1>6 DEF BlockInv, Empty
  <1>10. ShellInv'
    BY <1>1, <1>2, <1>4, <1>8 DEF ShellInv, Empty
  <1>11. DeadInv'
    <2>1. dead' \cap (dying' \cup {drainObj'} \cup buffered') = {}
      BY <1>1, <1>2, <1>4, <1>5, <1>7
    <2> QED
      BY <1>1, <1>3, <1>4, <2>1 DEF DeadInv
  <1>12. FreedInv'
    BY <1>1, <1>2 DEF FreedInv
  <1>13. \A x \in Obj \ Live' : rc'[x] = 0
    BY <1>1, <1>3, <1>4, <1>6 DEF DeadInv
  <1>14. \A x \in Live' : rc'[x] > 0
    BY <1>1, <1>3, <1>5, <1>6 DEF CountInv, LiveCounted
  <1>15. Indexed(roots', buffered', rootIndex', 1 .. Len(roots'))
    <2>1. 1 .. Len(roots') = {}
      <3>1. Len(roots') = 0
        BY <1>1
      <3> QED
        BY <3>1
    <2>2. \A x \in Obj : rootIndex'[x] = RootNone
      BY <1>1, <1>3 DEF IndexInv
    <2> QED
      BY <1>1, <1>5, <2>1, <2>2 DEF Indexed
  <1>16. \A U \in SUBSET Obj : ~Orphans(U, alloc \ dead)'
    <2>1. ASSUME NEW U \in SUBSET Obj, Orphans(U, alloc \ dead)' PROVE FALSE
      <3>1. U \in SUBSET (Obj \ (Gray \cup White \cup dead))
        BY <1>5, <1>6, <2>1 DEF Orphans
      <3>2. Orphans(U, Live \ (Gray \cup White \cup dead))
        BY <1>1, <1>2, <1>4, <1>6, <2>1 DEF Orphans
      <3> QED
        BY <1>1, <1>3, <3>1, <3>2 DEF GarbageInv
    <2> QED
      BY <2>1
  <1>17. Exact(rc', ext', field', alloc' \ dead')
    BY <1>1, <1>2, <1>4, <1>6
  <1> QED
    BY <1>1, <1>2, <1>6, <1>9, <1>10, <1>11, <1>12, <1>13, <1>14, <1>15, <1>16, <1>17, TailKeeps

LEMMA FreeDeadBlockKeeps ==
    ASSUME CollectorInv, FreeDeadBlock
    PROVE  CollectorInv'
  <1>1. PICK o : o = freeing
    OBVIOUS
  <1>2. /\ phase = "free" /\ drainPc = "off" /\ Collect /\ o # Null
        /\ alloc' = alloc \ {o} /\ doomed' = doomed \ {o}
        /\ field' = [field EXCEPT ![o] = [s \in Slots |-> Null]]
        /\ dead' = dead \ {o} /\ freeing' = Null
        /\ UNCHANGED <<ext, foreign, rc, colour, buffered, rootIndex, roots, drainVars, phase, work,
                       zeroed, freed>>
    BY <1>1 DEF FreeDeadBlock, FreeBlock, Walking, Collect, walkVars
  <1>3. UNCHANGED <<dying, drainPc, drainObj, drainSlot>>
    BY <1>2 DEF drainVars
  <1>4. /\ TypeOK /\ BlockInv /\ ShellInv /\ DeadInv /\ FreedInv
        /\ dying = {} /\ drainObj = Null /\ work = {}
        /\ Gray = {} /\ White = {} /\ dead \subseteq doomed
        /\ Live \subseteq Obj /\ Live = alloc \ doomed
        /\ Null \notin doomed /\ Null \notin dead /\ Null \notin buffered
    BY <1>2, TailFacts
  <1>5. o \in Obj /\ o \in dead /\ o \in doomed /\ o \notin buffered /\ o \notin Live
    BY <1>1, <1>2, <1>4 DEF DeadInv, TypeOK
  <1>6. /\ Gray' = Gray /\ White' = White /\ Purple' = Purple /\ Live' = Live /\ Shells' = Shells
        /\ alloc' \ dead' = alloc \ dead
    BY <1>2, <1>3, <1>4, <1>5 DEF Gray, White, Purple, Live, Shells, BlockInv
  <1>7. (\A p \in Obj : p # o => field'[p] = field[p]) /\ \A s \in Slots : field'[o][s] = Null
    BY <1>2, <1>4, <1>5 DEF TypeOK
  <1>8. \A p \in Obj : Empty(p) => Empty(p)'
    BY <1>7 DEF Empty
  <1>9. BlockInv'
    <2>1. \A p \in Obj \ alloc' : Empty(p)'
      BY <1>2, <1>4, <1>7, <1>8 DEF BlockInv, Empty
    <2>2. \A p \in Obj, s \in Slots : field'[p][s] # Null => <<p, field'[p][s]>> \in MayHold
      BY <1>4, <1>7 DEF BlockInv
    <2>3. doomed' \subseteq alloc' /\ buffered' \subseteq alloc'
      BY <1>2, <1>4, <1>5 DEF BlockInv
    <2> QED
      BY <1>2, <1>4, <1>6, <2>1, <2>2, <2>3 DEF BlockInv
  <1>10. ShellInv'
    <2>1. \A p \in Shells : p \in Obj
      BY <1>4 DEF Shells, TypeOK
    <2> QED
      BY <1>2, <1>4, <1>6, <1>8, <2>1 DEF ShellInv
  <1>11. DeadInv'
    BY <1>2, <1>3, <1>4 DEF DeadInv
  <1>12. FreedInv'
    BY <1>2, <1>4, <1>5 DEF FreedInv
  <1>13. \A p \in alloc \ dead : field'[p] = field[p]
    BY <1>4, <1>5, <1>7 DEF TypeOK
  <1>14. Exact(rc', ext', field', alloc' \ dead')
    <2>1. \A x \in Obj : Refs(field', alloc \ dead, x) = Refs(field, alloc \ dead, x)
      BY <1>13 DEF Refs
    <2> QED
      BY <1>2, <1>6, <2>1, TailFacts DEF Exact
  <1>15. \A U \in SUBSET Obj : Orphans(U, alloc \ dead)' => U \cap Purple' # {}
    <2>1. ASSUME NEW U \in SUBSET Obj, Orphans(U, alloc \ dead)' PROVE Orphans(U, alloc \ dead)
      BY <1>2, <1>6, <1>13, <2>1 DEF Orphans
    <2> QED
      BY <1>2, <1>6, <2>1, TailFacts
  <1>16. /\ \A x \in Obj \ Live' : rc'[x] = 0
         /\ \A x \in Live' : rc'[x] > 0
         /\ Indexed(roots', buffered', rootIndex', 1 .. Len(roots'))
    BY <1>2, <1>6, TailFacts
  <1> QED
    BY <1>2, <1>3, <1>4, <1>6, <1>9, <1>10, <1>11, <1>12, <1>14, <1>15, <1>16, TailKeeps

\* A candidate found dead is an emptied shell: nts_destroy never has to run.
LEMMA ReclaimKeeps ==
    ASSUME CollectorInv, NEW o \in Obj, Reclaim(o)
    PROVE  CollectorInv'
  <1>1. /\ phase = "reclaim" /\ drainPc = "off" /\ o \in zeroed /\ Collect
    BY DEF Reclaim, Walking, Collect
  <1>2. /\ TypeOK /\ BlockInv /\ ShellInv /\ DeadInv /\ FreedInv
        /\ dying = {} /\ drainObj = Null /\ work = {} /\ dead = {} /\ freeing = Null
        /\ Gray = {} /\ White = {}
        /\ Live \subseteq Obj /\ Live = alloc \ doomed
        /\ Null \notin doomed /\ Null \notin dead /\ Null \notin buffered
    BY <1>1, TailFacts
  <1>3. o \in doomed /\ Empty(o) /\ o \notin buffered /\ o \notin Live /\ o # Null
    BY <1>1, <1>2 DEF ShellInv, Shells
  <1>4. /\ alloc' = alloc \ {o} /\ doomed' = doomed \ {o}
        /\ field' = [field EXCEPT ![o] = [s \in Slots |-> Null]]
        /\ zeroed' = zeroed \ {o}
        /\ UNCHANGED <<ext, foreign, rc, colour, buffered, rootIndex, roots, dying, drainPc, drainObj,
                       drainSlot, phase, work, dead, freeing, freed>>
    BY <1>3 DEF Reclaim, FreeBlock, walkVars
  <1>5. /\ Gray' = Gray /\ White' = White /\ Purple' = Purple /\ Live' = Live /\ Shells' = Shells \ {o}
    BY <1>2, <1>3, <1>4 DEF Gray, White, Purple, Live, Shells, BlockInv
  <1>6. (\A p \in Obj : p # o => field'[p] = field[p]) /\ \A s \in Slots : field'[o][s] = Null
    BY <1>2, <1>4 DEF TypeOK
  <1>7. \A p \in Obj, s \in Slots : field'[p][s] = field[p][s]
    BY <1>3, <1>6 DEF Empty
  <1>8. BlockInv'
    <2>1. \A p \in Obj \ alloc' : Empty(p)'
      BY <1>2, <1>3, <1>4, <1>7 DEF BlockInv, Empty
    <2>2. \A p \in Obj, s \in Slots : field'[p][s] # Null => <<p, field'[p][s]>> \in MayHold
      BY <1>2, <1>7 DEF BlockInv
    <2>3. doomed' \subseteq alloc' /\ buffered' \subseteq alloc'
      BY <1>2, <1>3, <1>4 DEF BlockInv
    <2> QED
      BY <1>2, <1>4, <1>5, <2>1, <2>2, <2>3 DEF BlockInv
  <1>9. ShellInv'
    <2>1. \A p \in Shells : p \in Obj
      BY <1>2 DEF Shells, TypeOK
    <2>2. \A p \in Shells' : Empty(p)' /\ p \notin foreign' /\ p \in buffered' \cup zeroed'
      BY <1>2, <1>4, <1>5, <1>7, <2>1 DEF ShellInv, Empty
    <2> QED
      BY <1>1, <1>2, <1>4, <1>5, <2>2 DEF ShellInv
  <1>10. DeadInv'
    BY <1>1, <1>2, <1>4 DEF DeadInv
  <1>11. FreedInv'
    BY <1>1, <1>2, <1>4 DEF FreedInv
  <1>12. Exact(rc', ext', field', alloc' \ dead')
    <2>1. ASSUME NEW x \in Obj PROVE Refs(field', alloc' \ dead', x) = Refs(field, alloc \ dead, x)
      <3>1. x # Null
        BY CollectorAssumption
      <3>2. alloc \subseteq Obj
        BY <1>2 DEF TypeOK
      <3> QED
        BY <1>3, <1>4, <1>7, <3>1, <3>2 DEF Refs, Empty
    <2> QED
      BY <1>1, <1>4, <2>1, TailFacts DEF Exact
  <1>13. \A U \in SUBSET Obj : Orphans(U, alloc \ dead)' => U \cap Purple' # {}
    <2>1. ASSUME NEW U \in SUBSET Obj, Orphans(U, alloc \ dead)' PROVE Orphans(U, alloc \ dead)
      <3>1. ASSUME NEW u \in U, NEW p \in alloc \ dead, NEW s \in Slots, field[p][s] = u
            PROVE  p \in U
        <4>1. u # Null /\ p \in Obj
          BY <1>2, CollectorAssumption DEF TypeOK
        <4>2. p # o
          BY <1>3, <3>1, <4>1 DEF Empty
        <4> QED
          BY <1>4, <1>7, <2>1, <3>1, <4>1, <4>2 DEF Orphans
      <3> QED
        BY <1>4, <1>5, <2>1, <3>1 DEF Orphans
    <2> QED
      BY <1>1, <1>5, <2>1, TailFacts
  <1>14. /\ \A x \in Obj \ Live' : rc'[x] = 0
         /\ \A x \in Live' : rc'[x] > 0
         /\ Indexed(roots', buffered', rootIndex', 1 .. Len(roots'))
    BY <1>1, <1>4, <1>5, TailFacts
  <1> QED
    BY <1>1, <1>2, <1>4, <1>5, <1>8, <1>9, <1>10, <1>11, <1>12, <1>13, <1>14, TailKeeps

LEMMA InvSame == CollectorInv /\ UNCHANGED vars => CollectorInv'
  <1> SUFFICES ASSUME CollectorInv, UNCHANGED vars PROVE CollectorInv'
    OBVIOUS
  <1>1. /\ UNCHANGED <<alloc, field, ext, foreign, rc, colour, buffered, doomed, rootIndex, roots>>
        /\ UNCHANGED <<dying, drainPc, drainObj, drainSlot, phase, cursor, kept, work, restore, dead>>
        /\ UNCHANGED <<zeroed, freeing, freed>>
    BY DEF vars, heapVars, headerVars, drainVars, passVars, walkVars
  <1>2. WellFormed'
    BY TypeStep DEF CollectorInv, WellFormed
  <1>3. /\ Live' = Live /\ Gray' = Gray /\ White' = White /\ Purple' = Purple /\ Trial' = Trial
        /\ Shells' = Shells /\ RootEntries' = RootEntries
        /\ \A p : Children(p)' = Children(p) /\ (Empty(p)' <=> Empty(p))
    BY <1>1 DEF Live, Gray, White, Purple, Trial, Shells, RootEntries, Children, Empty
  <1>4. BlockInv' /\ DrainInv' /\ ShellInv' /\ DeadInv'
    BY <1>1, <1>3 DEF CollectorInv, BlockInv, DrainInv, ShellInv, DeadInv
  <1>5. ColourInv' /\ CountInv' /\ IndexInv' /\ RootInv' /\ FreedInv'
    BY <1>1, <1>3 DEF CollectorInv, ColourInv, CountInv, LiveClosed, LiveCounted, IndexInv, RootInv, FreedInv
  <1>6. VisitInv'
    BY <1>1, <1>3 DEF CollectorInv, VisitInv, VisitMark, VisitGray, VisitWhite, VisitDead
  <1>7. GarbageInv'
    BY <1>1, <1>3 DEF CollectorInv, GarbageInv, Orphans
  <1> QED
    BY <1>2, <1>4, <1>5, <1>6, <1>7 DEF CollectorInv

LEMMA InvStep == CollectorInv /\ [Next]_vars => CollectorInv'
  BY NewKeeps, RetainKeeps, ReleaseKeeps, StoreKeeps, QuietSteps, DrainPopKeeps, DrainContentsKeeps,
     DrainFinishKeeps, MarkRootKeeps, MarkGrayKeeps, MarkEndKeeps, WalkRootKeeps, ScanKeeps, ScanBlackKeeps,
     ScanEndKeeps, GatherWhiteKeeps, GatherEndKeeps, TailQuiet, FreeDeadBlockKeeps, ReclaimKeeps, InvSame
     DEF Next, Program, Drain, Collect

\* The invariant of counting, draining and collecting holds of every execution.
THEOREM Invariant == Spec => []CollectorInv
  <1>1. CollectorInv /\ [Next]_vars => CollectorInv'
    BY InvStep
  <1> QED
    BY InitInv, <1>1, PTL DEF Spec

(***************************************************************************)
(* What the invariant says.                                                *)
(***************************************************************************)

\* Every count is exact at every step of every drain and pass, whatever the
\* graph, and what the program holds or can reach is never freed or dying.
THEOREM CountsCorrect == Spec => []CountsSound
  <1>1. CollectorInv => CountsSound
    <2> SUFFICES ASSUME CollectorInv PROVE CountsSound
      OBVIOUS
    <2>1. TypeOK /\ CountInv
      BY DEF CollectorInv, WellFormed
    <2>2. ext \in [Obj -> Nat] /\ alloc \ Trial \in SUBSET Obj
      BY <2>1 DEF TypeOK
    <2>3. CountExact
      <3>1. \A o \in Obj : InEdges(o) = Refs(field, alloc \ Trial, o)
        BY DEF InEdges, Refs
      <3> QED
        BY <2>1, <3>1 DEF CountExact, CountInv, Exact
    <2>4. NoDangling
      <3>1. \A o \in Obj : ext[o] > 0 => o \in Live
        BY <2>1, <2>2, ExactFacts DEF CountInv
      <3>2. \A p \in Live \ Trial : Children(p) \subseteq Live
        BY <2>1 DEF CountInv, LiveClosed, Children
      <3> QED
        BY <3>1, <3>2 DEF NoDangling
    <2> QED
      BY <2>3, <2>4 DEF CountsSound
  <1> QED
    BY Invariant, <1>1, PTL

\* The candidate buffer, NTS_BUFFERED and nts_root_index always agree, and the
\* collector's walks never meet a freed block or an emptied shell: the aborts
\* on a stale index and on an emptied object are unreachable.
THEOREM CandidatesCorrect == Spec => []CandidatesSound
  <1>1. CollectorInv => CandidatesSound
    <2> SUFFICES ASSUME CollectorInv PROVE CandidatesSound
      OBVIOUS
    <2>1. CandidatesIndexed
      BY DEF CollectorInv, IndexInv, Indexed, CandidatesIndexed
    <2>2. WalksLive
      BY DEF CollectorInv, ColourInv, WalksLive
    <2> QED
      BY <2>1, <2>2 DEF CandidatesSound
  <1> QED
    BY Invariant, <1>1, PTL

\* What R reaches holds R, is closed, and is in every closed set that holds R.
LEMMA ReachFacts ==
    ASSUME NEW R \in SUBSET Obj
    PROVE  /\ R \subseteq ReachableFrom(R)
           /\ \A p \in ReachableFrom(R), s \in Slots :
                 field[p][s] # Null /\ field[p][s] \in Obj => field[p][s] \in ReachableFrom(R)
           /\ \A S \in SUBSET Obj : R \subseteq S /\ Closed(S) => ReachableFrom(R) \subseteq S
  <1>1. R \subseteq ReachableFrom(R)
    BY DEF ReachableFrom
  <1>2. ASSUME NEW p \in ReachableFrom(R), NEW s \in Slots, field[p][s] # Null, field[p][s] \in Obj
        PROVE  field[p][s] \in ReachableFrom(R)
    <2>1. field[p][s] \in Children(p)
      BY <1>2 DEF Children
    <2>2. ASSUME NEW S \in SUBSET Obj, R \subseteq S, Closed(S) PROVE field[p][s] \in S
      <3>1. p \in S
        BY <1>2, <2>2 DEF ReachableFrom
      <3> QED
        BY <2>1, <2>2, <3>1 DEF Closed
    <2> QED
      BY <1>2, <2>2 DEF ReachableFrom
  <1>3. \A S \in SUBSET Obj : R \subseteq S /\ Closed(S) => ReachableFrom(R) \subseteq S
    BY DEF ReachableFrom
  <1> QED
    BY <1>1, <1>2, <1>3

LEMMA IdleCovered == CollectorInv => GarbageHasCandidate
  <1> SUFFICES ASSUME CollectorInv, phase = "idle", drainPc = "off"
               PROVE  alloc \ Reachable \subseteq ReachableFrom({o \in buffered : colour[o] = "purple"})
    BY DEF GarbageHasCandidate
  <1>1. TypeOK /\ Shape /\ BlockInv /\ ShellInv /\ GarbageInv /\ ColourInv
    BY DEF CollectorInv, WellFormed
  <1>2. Live = alloc /\ dead = {} /\ Gray = {}
    <2>1. dying = {} /\ dead = {} /\ drainObj = Null /\ Shells = {}
      BY <1>1 DEF Shape, TypeOK, ShellInv
    <2>2. doomed = {}
      BY <1>1, <2>1, CollectorAssumption DEF Shells, TypeOK
    <2> QED
      BY <1>1, <2>1, <2>2 DEF Live, ColourInv
  <1>3. PICK P \in SUBSET Obj : P = {o \in buffered : colour[o] = "purple"}
    BY <1>1 DEF TypeOK
  <1>4. PICK K \in SUBSET Obj : K = {o \in Obj : ext[o] > 0}
    OBVIOUS
  <1>5. Reachable = ReachableFrom(K)
    BY <1>4 DEF Reachable
  <1>6. PICK U : U = alloc \ (ReachableFrom(K) \cup ReachableFrom(P))
    OBVIOUS
  <1>7. U \in SUBSET Obj
    BY <1>1, <1>6 DEF TypeOK
  <1>8. ASSUME U # {} PROVE FALSE
    <2>1. \A u \in U : ext[u] = 0
      <3>1. K \subseteq ReachableFrom(K)
        BY ReachFacts
      <3>2. \A u \in U : u \in Obj /\ u \notin K
        BY <1>6, <1>7, <3>1
      <3>3. \A u \in U : u \in Obj /\ ~(ext[u] > 0)
        BY <1>4, <3>2
      <3>4. \A u \in Obj : ext[u] \in Nat
        BY <1>1 DEF TypeOK
      <3> QED
        BY <3>3, <3>4
    <2>2. ASSUME NEW u \in U, NEW p \in alloc \ dead, NEW s \in Slots, field[p][s] = u PROVE p \in U
      <3>1. u \in Obj /\ u # Null /\ u \notin ReachableFrom(K) /\ u \notin ReachableFrom(P)
        BY <1>6, <1>7, CollectorAssumption
      <3>2. p \notin ReachableFrom(K)
        BY <2>2, <3>1, ReachFacts
      <3>3. p \notin ReachableFrom(P)
        BY <2>2, <3>1, ReachFacts
      <3> QED
        BY <1>6, <3>2, <3>3
    <2>3. Orphans(U, alloc \ dead)
      BY <1>2, <1>6, <1>8, <2>1, <2>2 DEF Orphans
    <2>4. PICK u \in U : u \in Purple
      BY <1>1, <1>2, <1>7, <2>3 DEF GarbageInv
    <2>5. u \in P
      BY <1>1, <1>3, <2>4 DEF BlockInv, Purple
    <2>6. u \in ReachableFrom(P)
      BY <2>5, ReachFacts
    <2> QED
      BY <1>6, <2>6
  <1> QED
    BY <1>3, <1>5, <1>6, <1>8

\* Between collections every allocated object that the program cannot reach is
\* reachable from a purple candidate: nts_possible_root lets no garbage escape.
THEOREM GarbageCovered == Spec => []GarbageHasCandidate
  BY Invariant, IdleCovered, PTL

\* An empty buffer between collections: nothing is garbage.
LEMMA IdleClean ==
    CollectorInv /\ phase = "idle" /\ drainPc = "off" /\ roots = <<>> => alloc \subseteq Reachable
  <1> SUFFICES ASSUME CollectorInv, phase = "idle", drainPc = "off", roots = <<>>
               PROVE  alloc \subseteq Reachable
    OBVIOUS
  <1>1. buffered = {}
    <2>1. Indexed(roots, buffered, rootIndex, 1 .. Len(roots))
      BY DEF CollectorInv, IndexInv, RootEntries
    <2>2. Len(roots) = 0 /\ 1 .. 0 = {}
      OBVIOUS
    <2> QED
      BY <2>1, <2>2 DEF Indexed
  <1>2. {o \in buffered : colour[o] = "purple"} = {}
    BY <1>1
  <1>3. ReachableFrom({}) = {}
    <2>1. {} \in SUBSET Obj /\ Closed({})
      BY DEF Closed
    <2> QED
      BY <2>1, ReachFacts
  <1> QED
    BY <1>2, <1>3, IdleCovered DEF GarbageHasCandidate

\* Blocks go in three places only, each time as something empty of claims.
LEMMA FreedOnceStep ==
    ASSUME CollectorInv, [Next]_vars
    PROVE  \A o \in alloc \ alloc' : o \in doomed \ buffered /\ o \notin foreign
  <1> USE DEF heapVars, headerVars, drainVars, passVars, walkVars
  <1>1. TypeOK /\ BlockInv /\ DrainInv /\ ShellInv /\ DeadInv
    BY DEF CollectorInv, WellFormed
  <1>2. CASE DrainFinish
    <2>1. drainPc = "finish" /\ drainObj \in Obj /\ drainObj # Null
      BY <1>1, <1>2, CollectorAssumption DEF DrainFinish, TypeOK
    <2>2. drainObj \in doomed /\ drainObj \notin foreign
      BY <1>1, <2>1 DEF DrainInv
    <2> QED
      BY <1>2, <2>2 DEF DrainFinish, FreeBlock
  <1>3. CASE FreeDeadBlock
    <2>1. phase = "free" /\ freeing # Null
      BY <1>3 DEF FreeDeadBlock, Walking
    <2>2. freeing \in doomed /\ freeing \notin buffered /\ freeing \notin foreign
      BY <1>1, <2>1 DEF DeadInv
    <2> QED
      BY <1>3, <2>2 DEF FreeDeadBlock, FreeBlock
  <1>4. ASSUME NEW o \in Obj, Reclaim(o)
        PROVE  \A x \in alloc \ alloc' : x \in doomed \ buffered /\ x \notin foreign
    <2>1. o \in Shells \ buffered /\ o \in doomed /\ o \notin foreign
      BY <1>1, <1>4 DEF Reclaim, ShellInv, Shells
    <2> QED
      BY <1>4, <2>1 DEF Reclaim, FreeBlock
  <1>5. ASSUME Program PROVE alloc \subseteq alloc'
    BY <1>5 DEF Program, New, Retain, Release, Store, CollectAtCheckpoint
  <1>6. ASSUME Drain, ~DrainFinish PROVE alloc' = alloc
    BY <1>6 DEF Drain, DrainPop, DrainContents, DrainContentsDone, DrainForeign, DrainCallbackReturns,
                DrainEnd
  <1>7. ASSUME Collect, ~FreeDeadBlock, ~\E o \in Obj : Reclaim(o) PROVE alloc' = alloc
    BY <1>7 DEF Collect, MarkRoot, MarkGray, MarkEnd, ScanRoot, Scan, ScanBlack, ScanEnd, GatherRoot,
                WalkRoot, GatherWhite, GatherEnd, FreeDead, FreeCallbackReturns, FreeEnd, PassEnd
  <1>8. CASE UNCHANGED vars
    BY <1>8 DEF vars
  <1> QED
    BY <1>2, <1>3, <1>4, <1>5, <1>6, <1>7, <1>8 DEF Next

\* A collection returns only from nts_collect_cycles' last pass.
LEMMA CollectionEndStep ==
    ASSUME CollectorInv, [Next]_vars, phase # "idle", phase' = "idle"
    PROVE  roots' = <<>> /\ drainPc' = "off"
  <1>1. ~(Program \/ Drain)
    <2>1. Program \/ Drain => Onward
      BY MutatorOnward
    <2> QED
      BY <2>1 DEF Onward
  <1>2. Collect
    <2>1. CASE UNCHANGED vars
      BY <2>1 DEF vars, passVars
    <2> QED
      BY <1>1, <2>1 DEF Next
  <1>3. PassEnd
    BY <1>2 DEF Collect, MarkRoot, MarkGray, MarkEnd, ScanRoot, Scan, ScanBlack, ScanEnd, GatherRoot,
                WalkRoot, GatherWhite, GatherEnd, FreeDead, FreeCallbackReturns, FreeDeadBlock, FreeEnd,
                Reclaim, Walking
  <1>4. phase = "reclaim" /\ drainPc = "off" /\ drainPc' = "off" /\ roots' = roots
    BY <1>3 DEF PassEnd, Walking, headerVars, drainVars
  <1>5. ~(freed /\ roots # <<>>)
    BY <1>3 DEF PassEnd, BeginPass
  <1>6. FreedInv
    BY DEF CollectorInv
  <1> QED
    BY <1>4, <1>5, <1>6 DEF FreedInv

\* Between collections, once no release is in flight and the candidate buffer is
\* empty, everything allocated is reachable.
CleanWhenIdle == phase = "idle" /\ drainPc = "off" /\ roots = <<>> => alloc \subseteq Reachable

\* When nts_collect_cycles returns, the buffer is empty and everything allocated
\* is reachable, and no block is ever freed twice, while it is a candidate or
\* before its foreign handle is released.
THEOREM FreesCorrect == Spec => FreesSound
  <1>1. CollectorInv /\ [Next]_vars => \A o \in alloc \ alloc' : o \in doomed \ buffered /\ o \notin foreign
    BY FreedOnceStep
  <1>2. CollectorInv /\ CleanWhenIdle' /\ [Next]_vars =>
          (phase # "idle" /\ phase' = "idle" => roots' = <<>> /\ (alloc \subseteq Reachable)')
    <2>1. CollectorInv /\ [Next]_vars /\ phase # "idle" /\ phase' = "idle" => roots' = <<>> /\ drainPc' = "off"
      BY CollectionEndStep
    <2> QED
      BY <2>1 DEF CleanWhenIdle
  <1>3. CollectorInv => CleanWhenIdle
    BY IdleClean DEF CleanWhenIdle
  <1>4. Spec => CollectionComplete
    BY Invariant, <1>2, <1>3, PTL DEF Spec, CollectionComplete
  <1>5. Spec => FreedOnce
    BY Invariant, <1>1, PTL DEF Spec, FreedOnce
  <1> QED
    BY <1>4, <1>5 DEF FreesSound

(***************************************************************************)
(* The abstract heap.                                                      *)
(***************************************************************************)

\* What the program can reach is in use.
LEMMA ReachableLive ==
    ASSUME CollectorInv
    PROVE  Reachable \subseteq Live
  <1>1. TypeOK /\ CountInv
    BY DEF CollectorInv, WellFormed
  <1>2. Live \in SUBSET Obj /\ ext \in [Obj -> Nat] /\ alloc \ Trial \in SUBSET Obj
    BY <1>1 DEF TypeOK, Live
  <1>3. PICK K \in SUBSET Obj : K = {o \in Obj : ext[o] > 0}
    OBVIOUS
  <1>4. K \subseteq Live
    BY <1>1, <1>2, <1>3, ExactFacts DEF CountInv
  <1>5. Closed(Live)
    BY <1>1 DEF CountInv, LiveClosed, Closed, Children
  <1> QED
    BY <1>2, <1>3, <1>4, <1>5, ReachFacts DEF Reachable

LEMMA HeapReachable == H!Reachable = Reachable /\ H!Held = {o \in Obj : ext[o] > 0}
  BY DEF H!Reachable, H!Held, H!Closed, H!Children, Reachable, ReachableFrom, Closed, Children

LEMMA HeapReclaim ==
    ASSUME CollectorInv, alloc' \subseteq alloc, Live \subseteq alloc', ext' = ext,
           \A o \in Live : field'[o] = field[o]
    PROVE  H!Reclaim
  BY ReachableLive, HeapReachable DEF H!Reclaim

LEMMA HeapStep ==
    ASSUME CollectorInv, [Next]_vars
    PROVE  [H!Next]_H!vars
  <1> USE DEF heapVars, headerVars, drainVars, passVars, walkVars
  <1>1. TypeOK /\ BlockInv /\ DrainInv /\ ShellInv /\ DeadInv
    BY DEF CollectorInv, WellFormed
  <1>2. ASSUME NEW o \in Obj, New(o) PROVE H!Next
    BY <1>2 DEF New, H!New, H!Next
  <1>3. ASSUME NEW o \in Obj, Retain(o) PROVE H!Next
    <2>1. PICK K \in SUBSET Obj : K = {x \in Obj : ext[x] > 0}
      OBVIOUS
    <2>2. o \in ReachableFrom(K)
      <3>1. CASE ext[o] > 0
        BY <2>1, <3>1, ReachFacts
      <3>2. CASE \E p \in Obj : ext[p] > 0 /\ o \in Children(p)
        <4>1. PICK p \in Obj : ext[p] > 0 /\ o \in Children(p)
          BY <3>2
        <4>2. PICK s \in Slots : field[p][s] = o /\ o # Null
          BY <4>1 DEF Children
        <4>3. p \in ReachableFrom(K)
          BY <2>1, <4>1, ReachFacts
        <4> QED
          BY <4>2, <4>3, ReachFacts
      <3> QED
        BY <1>3, <3>1, <3>2 DEF Retain
    <2>3. o \in H!Reachable
      BY <2>1, <2>2, HeapReachable DEF Reachable
    <2> QED
      BY <1>3, <2>3 DEF Retain, H!Retain, H!Next
  <1>4. ASSUME NEW o \in Obj, Release(o) PROVE H!Next
    BY <1>4 DEF Release, H!Release, H!Next
  <1>5. ASSUME NEW p \in Obj, NEW s \in Slots, NEW o \in Obj \cup {Null}, Store(p, s, o) PROVE H!Next
    <2>1. /\ o # field[p][s] /\ (o # Null => ext[o] > 0 /\ <<p, o>> \in MayHold)
          /\ (IF p = o THEN ext[p] - 1 ELSE ext[p]) > 0
          /\ field' = [field EXCEPT ![p][s] = o]
          /\ ext' = [x \in Obj |-> IF x = field[p][s] THEN (IF x = o THEN ext[x] - 1 ELSE ext[x]) + 1
                                   ELSE IF x = o THEN ext[x] - 1 ELSE ext[x]]
          /\ alloc' = alloc
      BY <1>5 DEF Store
    <2>2. \A x \in Obj : ext[x] \in Nat
      BY <1>1 DEF TypeOK
    <2>3. p \in H!Held
      BY <2>1, <2>2, HeapReachable
    <2>4. \A x \in Obj : ext'[x] = (IF x = o THEN ext[x] - 1 ELSE ext[x])
                                     + (IF x = field[p][s] THEN 1 ELSE 0)
      BY <2>1, <2>2
    <2>5. ext' = [x \in Obj |-> (IF x = o THEN ext[x] - 1 ELSE ext[x])
                                  + (IF x = field[p][s] THEN 1 ELSE 0)]
      BY <2>1, <2>4
    <2>6. H!Store(p, s, o)
      BY <2>1, <2>3, <2>5 DEF H!Store
    <2> QED
      BY <2>6 DEF H!Next
  <1>6. CASE DrainContents
    <2>1. drainPc = "contents" /\ drainObj \in Obj /\ drainObj # Null
      BY <1>1, <1>6, CollectorAssumption DEF DrainContents, TypeOK
    <2>2. drainObj \notin Live
      BY <1>1, <2>1 DEF DrainInv, Live
    <2>3. field' = [field EXCEPT ![drainObj][drainSlot] = Null] /\ alloc' = alloc /\ ext' = ext
      BY <1>6 DEF DrainContents
    <2>4. \A x \in Live : field'[x] = field[x]
      BY <1>1, <2>2, <2>3 DEF TypeOK, Live
    <2>5. Live \subseteq alloc'
      BY <2>3 DEF Live
    <2> QED
      BY <2>3, <2>4, <2>5, HeapReclaim DEF H!Next
  <1>7. ASSUME NEW o \in Obj, o \in doomed, FreeBlock(o), ext' = ext PROVE H!Next
    <2>1. alloc' = alloc \ {o} /\ field' = [field EXCEPT ![o] = [s \in Slots |-> Null]] /\ o \notin Live
      BY <1>7 DEF FreeBlock, Live
    <2>2. \A x \in Live : field'[x] = field[x]
      BY <1>1, <2>1 DEF TypeOK, Live
    <2>3. Live \subseteq alloc' /\ alloc' \subseteq alloc
      BY <2>1 DEF Live
    <2> QED
      BY <1>7, <2>2, <2>3, HeapReclaim DEF H!Next
  <1>8. CASE DrainFinish
    <2>1. drainPc = "finish" /\ drainObj \in Obj /\ drainObj # Null
      BY <1>1, <1>8, CollectorAssumption DEF DrainFinish, TypeOK
    <2>2. drainObj \in doomed
      BY <1>1, <2>1 DEF DrainInv
    <2> QED
      BY <1>7, <1>8, <2>1, <2>2 DEF DrainFinish, H!vars
  <1>9. CASE FreeDeadBlock
    <2>1. phase = "free" /\ freeing # Null
      BY <1>9 DEF FreeDeadBlock, Walking
    <2>2. freeing \in doomed /\ freeing \in Obj
      BY <1>1, <2>1 DEF DeadInv, TypeOK
    <2> QED
      BY <1>7, <1>9, <2>2 DEF FreeDeadBlock
  <1>10. ASSUME NEW o \in Obj, Reclaim(o) PROVE H!Next
    <2>1. o \in doomed
      BY <1>1, <1>10 DEF Reclaim, ShellInv, Shells
    <2> QED
      BY <1>7, <1>10, <2>1 DEF Reclaim
  <1>11. ASSUME CollectAtCheckpoint PROVE UNCHANGED H!vars
    BY <1>11 DEF CollectAtCheckpoint, H!vars
  <1>12. ASSUME Drain, ~DrainFinish, ~DrainContents PROVE UNCHANGED H!vars
    BY <1>12 DEF Drain, DrainPop, DrainContentsDone, DrainForeign, DrainCallbackReturns, DrainEnd, H!vars
  <1>13. ASSUME Collect, ~FreeDeadBlock, ~\E o \in Obj : Reclaim(o) PROVE UNCHANGED H!vars
    BY <1>13 DEF Collect, MarkRoot, MarkGray, MarkEnd, ScanRoot, Scan, ScanBlack, ScanEnd, GatherRoot,
                 WalkRoot, GatherWhite, GatherEnd, FreeDead, FreeCallbackReturns, FreeEnd, PassEnd, H!vars
  <1>14. CASE UNCHANGED vars
    BY <1>14 DEF vars, H!vars
  <1> QED
    BY <1>2, <1>3, <1>4, <1>5, <1>6, <1>8, <1>9, <1>10, <1>11, <1>12, <1>13, <1>14 DEF Next, Program

\* Counting, draining and collecting implement the abstract heap: the manager
\* gives back and empties only what the program cannot reach, and every other
\* change of the heap is the program's own.
THEOREM HeapImplemented == Spec => HeapSpec
  <1>1. Init => H!Init
    BY DEF Init, H!Init
  <1>2. CollectorInv /\ [Next]_vars => [H!Next]_H!vars
    BY HeapStep
  <1> QED
    BY Invariant, <1>1, <1>2, PTL DEF Spec, HeapSpec, H!Spec

=============================================================================
