------------------------------ MODULE Collector ------------------------------
(***************************************************************************)
(* The native runtime's memory manager (runtime/c/nts_runtime.c built with *)
(* NTS_PROVIDER_RC): reference counts, the iterative destruction of what   *)
(* reaches zero, and the trial-deletion cycle collector.                   *)
(*                                                                         *)
(* One thread owns an environment.  Destruction and collection are still   *)
(* re-entrant: giving back a foreign handle runs program code              *)
(* (nts_call_foreign_release) in the middle of a drain or of the           *)
(* collector's free loop, and that code allocates, retains and releases.   *)
(* The steps of a drain and of a pass are therefore actions, and the       *)
(* program's actions are enabled between them exactly where the runtime    *)
(* calls out.                                                              *)
(*                                                                         *)
(* Abstractions.  An immortal object is never counted, traced or freed: a  *)
(* slot that names one is Null.  A string holds nothing, is never a        *)
(* candidate and is freed by its last release: it is not in Obj.  No       *)
(* family registers holders, as in every host without GObject.  The        *)
(* worklists and the lists of the dying and the dead are sets: a walk      *)
(* takes their members in any order, and meeting one twice is a no-op.     *)
(* The candidate buffer stays a sequence: its indices are the point.       *)
(***************************************************************************)
EXTENDS Integers, Sequences, FiniteSets

CONSTANTS
    Obj,          \* the heap's blocks
    Null,         \* an empty slot
    NSlots,       \* reference slots of one object
    Cyclic,       \* blocks whose descriptor says a cycle can pass through them
    MayHold,      \* <<p, o>>: a slot of p's type can name an object of o's type
    HasForeign,   \* blocks whose descriptor has a foreign slot
    Threshold,    \* NTS_COLLECT_THRESHOLD
    MaxExt        \* bound: references to one object the program holds at once

Slots == 1 .. NSlots

\* nts_root_index of a block the buffer does not name (NTS_ROOT_NONE)
RootNone == 0

\* A type that cannot lead back to itself is not cyclic: an acyclic block is
\* outside some set that holds its possible children and theirs in turn.
ASSUME CollectorAssumption ==
    /\ IsFiniteSet(Obj)
    /\ Null \notin Obj
    /\ NSlots \in Nat
    /\ Cyclic \subseteq Obj
    /\ HasForeign \subseteq Obj
    /\ MayHold \subseteq Obj \X Obj
    /\ Threshold \in Nat \ {0}
    /\ MaxExt \in Nat \ {0}

ASSUME AcyclicAssumption ==
    \A o \in Obj \ Cyclic : \E S \in SUBSET (Obj \ {o}) :
        \A p \in S \cup {o}, q \in Obj : <<p, q>> \in MayHold => q \in S

VARIABLES
    \* what the program sees
    alloc,        \* blocks given out by nts_alloc and not yet freed
    field,        \* field[o][s]: the reference in slot s of o
    ext,          \* counted references held by the program and foreign code
    foreign,      \* blocks with a foreign handle still to give back
    \* the header and the heap prefix
    rc,           \* NtsHeader.reserved, the count
    colour,       \* NTS_COLOR_MASK of NtsHeader.flags
    buffered,     \* NTS_BUFFERED
    doomed,       \* NTS_DYING
    rootIndex,    \* nts_root_index, 1-based
    roots,        \* NtsEnvironment.roots, the candidate buffer
    \* nts_destroy
    dying,        \* the list of objects whose contents are still to go
    drainPc,      \* where the loop of nts_destroy is
    drainObj,     \* `dead` in that loop
    drainSlot,    \* the next slot nts_release_contents visits
    \* nts_collect_pass
    phase,        \* where the pass is; "idle" is !collecting
    cursor,       \* `index` of the loop over roots
    kept,         \* `kept`
    work,         \* the worklist
    restore,      \* its tail above nts_scan_black's `floor`
    dead,         \* NtsEnvironment.dead
    zeroed,       \* NtsEnvironment.zeroed
    freeing,      \* the dead object nts_free is in the middle of
    freed,        \* `freed`
    collectAt     \* NtsEnvironment.collect_at

heapVars   == <<alloc, field, ext, foreign>>
headerVars == <<rc, colour, buffered, doomed, rootIndex, roots>>
drainVars  == <<dying, drainPc, drainObj, drainSlot>>
walkVars   == <<cursor, kept, work, restore>>
passVars   == <<phase, walkVars, dead, zeroed, freeing, freed, collectAt>>
vars       == <<heapVars, headerVars, drainVars, passVars>>

Colours  == {"black", "gray", "white", "purple"}
DrainPcs == {"off", "pop", "contents", "foreign", "callback", "finish"}
Phases   == {"idle", "mark", "scan", "gather", "free", "callback", "reclaim"}

draining   == drainPc # "off"
collecting == phase # "idle"

\* Program code runs: at the top, or called out to by a foreign release.
Running == \/ drainPc = "callback"
           \/ drainPc = "off" /\ phase \in {"idle", "callback"}

InCallback == drainPc = "callback" \/ phase = "callback"

\* Blocks in use: neither free nor dying
Live == alloc \ doomed

Children(o) == {field[o][s] : s \in Slots} \ {Null}
SlotsOf(p, o) == {s \in Slots : field[p][s] = o}

-----------------------------------------------------------------------------
(* Headers and the candidate buffer *)

\* Mutant: a candidate already buffered is not painted purple again
PossibleRootKeepsColour(o) ==
    LET buffers == o \in Cyclic /\ colour[o] # "purple" /\ o \notin buffered
    IN  /\ colour' = IF buffers THEN [colour EXCEPT ![o] = "purple"] ELSE colour
        /\ buffered' = IF buffers THEN buffered \cup {o} ELSE buffered
        /\ rootIndex' = IF buffers THEN [rootIndex EXCEPT ![o] = Len(roots) + 1]
                                   ELSE rootIndex
        /\ roots' = IF buffers THEN Append(roots, o) ELSE roots

\* nts_possible_root and nts_buffer_root
PossibleRoot(o) ==
    LET buffers == o \in Cyclic /\ colour[o] # "purple" /\ o \notin buffered
    IN  /\ colour' = IF o \in Cyclic THEN [colour EXCEPT ![o] = "purple"] ELSE colour
        /\ buffered' = IF buffers THEN buffered \cup {o} ELSE buffered
        /\ rootIndex' = IF buffers THEN [rootIndex EXCEPT ![o] = Len(roots) + 1]
                                   ELSE rootIndex
        /\ roots' = IF buffers THEN Append(roots, o) ELSE roots

\* Mutant: the candidate moved into the gap keeps its old index
UnbufferRootStaleIndex(o) ==
    /\ buffered' = buffered \ {o}
    /\ roots' = [i \in 1 .. Len(roots) - 1 |->
                    IF i = rootIndex[o] THEN roots[Len(roots)] ELSE roots[i]]
    /\ rootIndex' = [rootIndex EXCEPT ![o] = RootNone]

\* nts_unbuffer_root: the last candidate takes the removed one's place
UnbufferRoot(o) ==
    LET slot == rootIndex[o]
        last == Len(roots)
        moved == roots[last]
    IN  /\ buffered' = buffered \ {o}
        /\ roots' = [i \in 1 .. last - 1 |-> IF i = slot THEN moved ELSE roots[i]]
        /\ rootIndex' = [x \in Obj |-> IF x = o THEN RootNone
                                       ELSE IF x = moved THEN slot
                                       ELSE rootIndex[x]]

\* nts_release of a reference to o, short of the drain or the collection it
\* may start: ignored by a dying object, a candidate for a cycle when
\* references remain, and onto the dying list when none do
ReleaseRef(o) ==
    IF o \in doomed THEN UNCHANGED <<headerVars, dying>> ELSE
    \/ /\ rc[o] > 1
       /\ rc' = [rc EXCEPT ![o] = @ - 1]
       /\ PossibleRoot(o)
       /\ UNCHANGED <<doomed, dying>>
    \/ /\ rc[o] <= 1
       /\ rc' = [rc EXCEPT ![o] = 0]
       /\ colour' = [colour EXCEPT ![o] = "black"]
       /\ doomed' = doomed \cup {o}
       /\ dying' = dying \cup {o}
       /\ UNCHANGED <<buffered, rootIndex, roots>>

CollectThreshold == IF collectAt > Threshold THEN collectAt ELSE Threshold

\* The entry of nts_collect_pass
BeginPass ==
    /\ phase' = "mark"
    /\ cursor' = 1
    /\ kept' = 0

\* Mutant: a collection may start while objects are still dying
MaybeCollectWhileDraining ==
    /\ IF ~collecting /\ Len(roots') >= CollectThreshold
       THEN BeginPass
       ELSE UNCHANGED <<phase, cursor, kept>>
    /\ UNCHANGED <<work, restore, dead, zeroed, freeing, freed, collectAt>>

\* nts_maybe_collect, after a step that leaves the candidates roots' and the
\* drain at drainPc'
MaybeCollect ==
    /\ IF drainPc' = "off" /\ ~collecting /\ Len(roots') >= CollectThreshold
       THEN BeginPass
       ELSE UNCHANGED <<phase, cursor, kept>>
    /\ UNCHANGED <<work, restore, dead, zeroed, freeing, freed, collectAt>>

\* nts_free_block
FreeBlock(o) ==
    /\ alloc' = alloc \ {o}
    /\ doomed' = doomed \ {o}
    /\ field' = [field EXCEPT ![o] = [s \in Slots |-> Null]]

-----------------------------------------------------------------------------
(* The program *)

\* nts_object_new: one reference, the caller's
New(o) ==
    /\ Running
    /\ o \notin alloc
    /\ alloc' = alloc \cup {o}
    /\ ext' = [ext EXCEPT ![o] = 1]
    /\ foreign' = IF o \in HasForeign THEN foreign \cup {o} ELSE foreign
    /\ rc' = [rc EXCEPT ![o] = 1]
    /\ colour' = [colour EXCEPT ![o] = "black"]
    /\ rootIndex' = [rootIndex EXCEPT ![o] = RootNone]
    /\ UNCHANGED <<field, buffered, doomed, roots, drainVars, passVars>>

\* nts_retain of an object the program holds, or reads from a slot of one
Retain(o) ==
    /\ Running
    /\ \/ ext[o] > 0
       \/ \E p \in Obj : ext[p] > 0 /\ o \in Children(p)
    /\ ext[o] < MaxExt
    /\ ext' = [ext EXCEPT ![o] = @ + 1]
    /\ IF o \in doomed THEN UNCHANGED <<rc, colour>>
                       ELSE /\ rc' = [rc EXCEPT ![o] = @ + 1]
                            /\ colour' = [colour EXCEPT ![o] = "black"]
    /\ UNCHANGED <<alloc, field, foreign, buffered, doomed, rootIndex, roots,
                   drainVars, passVars>>

\* A field store, as the compiler emits it (load-old, retain-new, store,
\* release-old): it moves a reference the program owns into the slot and leaves
\* it owning the one that was there; the retain before a store that does not
\* move, and the release of the old value after it, are the actions beside
\* this one.  The object stored into is held across the store.
Store(p, s, o) ==
    LET old == field[p][s]
        given == [x \in Obj |-> IF x = o THEN ext[x] - 1 ELSE ext[x]]
    IN  /\ Running
        /\ o # old
        /\ o # Null => ext[o] > 0 /\ <<p, o>> \in MayHold
        /\ given[p] > 0
        /\ old # Null => ext[old] < MaxExt
        /\ field' = [field EXCEPT ![p][s] = o]
        /\ ext' = [x \in Obj |-> IF x = old THEN given[x] + 1 ELSE given[x]]
        /\ UNCHANGED <<alloc, foreign, headerVars, drainVars, passVars>>

\* nts_release by the program: with nothing draining, a death starts a drain
\* and a new candidate may start a collection
Release(o) ==
    /\ Running
    /\ ext[o] > 0
    /\ ext' = [ext EXCEPT ![o] = @ - 1]
    /\ ReleaseRef(o)
    /\ drainPc' = IF ~draining /\ dying' # {} THEN "pop" ELSE drainPc
    /\ IF roots' # roots THEN MaybeCollect ELSE UNCHANGED passVars
    /\ UNCHANGED <<alloc, field, foreign, drainObj, drainSlot>>

\* nts_collect_at_checkpoint
CollectAtCheckpoint ==
    /\ Running
    /\ ~collecting /\ ~draining
    /\ roots # <<>>
    /\ BeginPass
    /\ UNCHANGED <<heapVars, headerVars, drainVars, work, restore, dead, zeroed,
                   freeing, freed, collectAt>>

-----------------------------------------------------------------------------
(* nts_destroy: the drain *)

DrainPop(o) ==
    /\ drainPc = "pop"
    /\ o \in dying
    /\ dying' = dying \ {o}
    /\ IF o \in buffered /\ ~collecting THEN UnbufferRoot(o)
       ELSE UNCHANGED <<buffered, roots, rootIndex>>
    /\ drainPc' = "contents"
    /\ drainObj' = o
    /\ drainSlot' = 1
    /\ UNCHANGED <<heapVars, rc, colour, doomed, passVars>>

\* nts_release_contents, one slot.  A slot given up is never read again
\* (nts_each_reference refuses to trace an emptied object): it becomes Null.
DrainContents ==
    /\ drainPc = "contents"
    /\ drainSlot \in Slots
    /\ LET child == field[drainObj][drainSlot]
       IN  IF child = Null THEN UNCHANGED <<headerVars, dying>> ELSE ReleaseRef(child)
    /\ field' = [field EXCEPT ![drainObj][drainSlot] = Null]
    /\ drainSlot' = drainSlot + 1
    /\ UNCHANGED <<alloc, ext, foreign, drainPc, drainObj, passVars>>

DrainContentsDone ==
    /\ drainPc = "contents"
    /\ drainSlot \notin Slots
    /\ drainPc' = "foreign"
    /\ UNCHANGED <<heapVars, headerVars, dying, drainObj, drainSlot, passVars>>

\* nts_release_foreign: the slot is cleared before its release runs
DrainForeign ==
    /\ drainPc = "foreign"
    /\ foreign' = foreign \ {drainObj}
    /\ drainPc' = IF drainObj \in foreign THEN "callback" ELSE "finish"
    /\ UNCHANGED <<alloc, field, ext, headerVars, dying, drainObj, drainSlot, passVars>>

DrainCallbackReturns ==
    /\ drainPc = "callback"
    /\ drainPc' = "finish"
    /\ UNCHANGED <<heapVars, headerVars, dying, drainObj, drainSlot, passVars>>

\* A candidate keeps its memory, an emptied shell; anything else is freed.
DrainFinish ==
    /\ drainPc = "finish"
    /\ drainPc' = "pop"
    /\ IF drainObj \in buffered
       THEN UNCHANGED <<alloc, field, doomed>>
       ELSE FreeBlock(drainObj)
    /\ drainObj' = Null
    /\ UNCHANGED <<ext, foreign, rc, colour, buffered, rootIndex, roots, dying,
                   drainSlot, passVars>>

DrainEnd ==
    /\ drainPc = "pop"
    /\ dying = {}
    /\ drainPc' = "off"
    /\ UNCHANGED <<heapVars, headerVars, dying, drainObj, drainSlot>>
    /\ MaybeCollect

-----------------------------------------------------------------------------
(* nts_collect_pass *)

\* The collector runs: it is not waiting for a callback or for a drain.
Walking(p) == phase = p /\ drainPc = "off"

\* Mark, the next candidate.  One still purple with a count is kept and
\* traced; any other leaves the buffer, and one emptied while buffered is set
\* aside.
MarkRoot ==
    LET root == roots[cursor]
        traced == colour[root] = "purple" /\ rc[root] > 0
    IN  /\ Walking("mark")
        /\ work = {}
        /\ cursor <= Len(roots)
        /\ cursor' = cursor + 1
        /\ IF traced
           THEN /\ work' = {root}
                /\ kept' = kept + 1
                /\ roots' = [roots EXCEPT ![kept + 1] = root]
                /\ rootIndex' = [rootIndex EXCEPT ![root] = kept + 1]
                /\ UNCHANGED <<buffered, zeroed>>
           ELSE /\ buffered' = buffered \ {root}
                /\ rootIndex' = [rootIndex EXCEPT ![root] = RootNone]
                /\ zeroed' = IF colour[root] = "black" /\ rc[root] = 0
                             THEN zeroed \cup {root} ELSE zeroed
                /\ UNCHANGED <<work, kept, roots>>
        /\ UNCHANGED <<heapVars, rc, colour, doomed, drainVars, phase, restore,
                       dead, freeing, freed, collectAt>>

\* nts_mark_gray: remove the references that come from inside
MarkGray(o) ==
    /\ Walking("mark")
    /\ o \in work
    /\ IF colour[o] = "gray"
       THEN /\ work' = work \ {o}
            /\ UNCHANGED <<colour, rc>>
       ELSE /\ colour' = [colour EXCEPT ![o] = "gray"]
            /\ rc' = [c \in Obj |-> rc[c] - Cardinality(SlotsOf(o, c))]
            /\ work' = (work \ {o}) \cup Children(o)
    /\ UNCHANGED <<heapVars, buffered, doomed, rootIndex, roots, drainVars, phase,
                   cursor, kept, restore, dead, zeroed, freeing, freed, collectAt>>

MarkEnd ==
    /\ Walking("mark")
    /\ work = {}
    /\ cursor > Len(roots)
    /\ roots' = SubSeq(roots, 1, kept)
    /\ phase' = "scan"
    /\ cursor' = 1
    /\ UNCHANGED <<heapVars, rc, colour, buffered, doomed, rootIndex, drainVars,
                   kept, work, restore, dead, zeroed, freeing, freed, collectAt>>

\* Mutant: the loop over the candidates does not advance
WalkRootStuck(p) ==
    /\ Walking(p)
    /\ work = {} /\ restore = {}
    /\ cursor <= Len(roots)
    /\ work' = {roots[cursor]}
    /\ UNCHANGED <<heapVars, headerVars, drainVars, phase, cursor, kept, restore, dead,
                   zeroed, freeing, freed, collectAt>>

\* The next candidate handed to nts_scan or to nts_gather_white
WalkRoot(p) ==
    /\ Walking(p)
    /\ work = {} /\ restore = {}
    /\ cursor <= Len(roots)
    /\ work' = {roots[cursor]}
    /\ cursor' = cursor + 1
    /\ UNCHANGED <<heapVars, headerVars, drainVars, phase, kept, restore, dead,
                   zeroed, freeing, freed, collectAt>>

ScanRoot == WalkRoot("scan")

\* nts_scan: white what nothing outside refers to
Scan(o) ==
    /\ Walking("scan")
    /\ restore = {}
    /\ o \in work
    /\ \/ /\ colour[o] # "gray"
          /\ work' = work \ {o}
          /\ UNCHANGED <<colour, restore>>
       \/ /\ colour[o] = "gray"
          /\ rc[o] > 0
          /\ colour' = [colour EXCEPT ![o] = "black"]
          /\ restore' = {o}
          /\ work' = work \ {o}
       \/ /\ colour[o] = "gray"
          /\ rc[o] = 0
          /\ colour' = [colour EXCEPT ![o] = "white"]
          /\ work' = (work \ {o}) \cup Children(o)
          /\ UNCHANGED restore
    /\ UNCHANGED <<heapVars, rc, buffered, doomed, rootIndex, roots, drainVars,
                   phase, cursor, kept, dead, zeroed, freeing, freed, collectAt>>

\* Mutant: counts are put back one level deep only
ScanBlackShallow(o) ==
    /\ Walking("scan")
    /\ o \in restore
    /\ rc' = [c \in Obj |-> rc[c] + Cardinality(SlotsOf(o, c))]
    /\ restore' = restore \ {o}
    /\ UNCHANGED <<heapVars, colour, buffered, doomed, rootIndex, roots, drainVars,
                   phase, cursor, kept, work, dead, zeroed, freeing, freed, collectAt>>

\* Mutant: a child already black is not counted again
ScanBlackSkipsBlack(o) ==
    LET reached == {c \in Children(o) : colour[c] # "black"}
    IN  /\ Walking("scan")
        /\ o \in restore
        /\ rc' = [c \in Obj |-> IF c \in reached
                                THEN rc[c] + Cardinality(SlotsOf(o, c)) ELSE rc[c]]
        /\ colour' = [c \in Obj |-> IF c \in reached THEN "black" ELSE colour[c]]
        /\ restore' = (restore \ {o}) \cup reached
        /\ UNCHANGED <<heapVars, buffered, doomed, rootIndex, roots, drainVars,
                       phase, cursor, kept, work, dead, zeroed, freeing, freed, collectAt>>

\* nts_scan_black: put the counts back below what is referenced from outside
ScanBlack(o) ==
    LET reached == {c \in Children(o) : colour[c] # "black"}
    IN  /\ Walking("scan")
        /\ o \in restore
        /\ rc' = [c \in Obj |-> rc[c] + Cardinality(SlotsOf(o, c))]
        /\ colour' = [c \in Obj |-> IF c \in reached THEN "black" ELSE colour[c]]
        /\ restore' = (restore \ {o}) \cup reached
        /\ UNCHANGED <<heapVars, buffered, doomed, rootIndex, roots, drainVars,
                       phase, cursor, kept, work, dead, zeroed, freeing, freed, collectAt>>

\* Every candidate leaves the buffer before anything is gathered.
ScanEnd ==
    /\ Walking("scan")
    /\ work = {} /\ restore = {}
    /\ cursor > Len(roots)
    /\ phase' = "gather"
    /\ cursor' = 1
    /\ buffered' = buffered \ {roots[i] : i \in 1 .. Len(roots)}
    /\ rootIndex' = [o \in Obj |-> IF \E i \in 1 .. Len(roots) : roots[i] = o
                                   THEN RootNone ELSE rootIndex[o]]
    /\ UNCHANGED <<heapVars, rc, colour, doomed, roots, drainVars, kept, work,
                   restore, dead, zeroed, freeing, freed, collectAt>>

GatherRoot == WalkRoot("gather")

\* nts_gather_white
GatherWhite(o) ==
    /\ Walking("gather")
    /\ o \in work
    /\ IF colour[o] = "white" /\ o \notin buffered
       THEN /\ colour' = [colour EXCEPT ![o] = "black"]
            /\ dead' = dead \cup {o}
            /\ work' = (work \ {o}) \cup Children(o)
       ELSE /\ work' = work \ {o}
            /\ UNCHANGED <<colour, dead>>
    /\ UNCHANGED <<heapVars, rc, buffered, doomed, rootIndex, roots, drainVars, phase,
                   cursor, kept, restore, zeroed, freeing, freed, collectAt>>

\* Every dead object is marked before the first is freed.
GatherEnd ==
    /\ Walking("gather")
    /\ work = {}
    /\ cursor > Len(roots)
    /\ phase' = "free"
    /\ cursor' = 1
    /\ kept' = 0
    /\ roots' = <<>>
    /\ doomed' = doomed \cup dead
    /\ freed' = (dead # {} \/ zeroed # {})
    /\ UNCHANGED <<heapVars, rc, colour, buffered, rootIndex, drainVars, work,
                   restore, dead, zeroed, freeing, collectAt>>

\* nts_free of the next dead object begins: a foreign handle's slot is cleared,
\* then its release runs program code
FreeDead(o) ==
    /\ Walking("free")
    /\ freeing = Null
    /\ o \in dead
    /\ freeing' = o
    /\ foreign' = foreign \ {o}
    /\ phase' = IF o \in foreign THEN "callback" ELSE phase
    /\ UNCHANGED <<alloc, field, ext, headerVars, drainVars, walkVars, dead, zeroed,
                   freed, collectAt>>

FreeCallbackReturns ==
    /\ Walking("callback")
    /\ phase' = "free"
    /\ UNCHANGED <<heapVars, headerVars, drainVars, walkVars, dead, zeroed, freeing,
                   freed, collectAt>>

\* ... and ends: the block goes
FreeDeadBlock ==
    /\ Walking("free")
    /\ freeing # Null
    /\ FreeBlock(freeing)
    /\ dead' = dead \ {freeing}
    /\ freeing' = Null
    /\ UNCHANGED <<ext, foreign, rc, colour, buffered, rootIndex, roots, drainVars,
                   phase, walkVars, zeroed, freed, collectAt>>

FreeEnd ==
    /\ Walking("free")
    /\ freeing = Null
    /\ dead = {}
    /\ phase' = "reclaim"
    /\ UNCHANGED <<heapVars, headerVars, drainVars, walkVars, dead, zeroed, freeing,
                   freed, collectAt>>

\* The candidates found dead at the start: an emptied shell has only its
\* memory left, anything else is destroyed
Reclaim(o) ==
    /\ Walking("reclaim")
    /\ o \in zeroed
    /\ zeroed' = zeroed \ {o}
    /\ IF o \in doomed
       THEN /\ FreeBlock(o)
            /\ UNCHANGED <<drainPc, dying>>
       ELSE /\ doomed' = doomed \cup {o}
            /\ dying' = dying \cup {o}
            /\ drainPc' = "pop"
            /\ UNCHANGED <<alloc, field>>
    /\ UNCHANGED <<ext, foreign, rc, colour, buffered, rootIndex, roots, drainObj,
                   drainSlot, phase, walkVars, dead, freeing, freed, collectAt>>

\* Mutant: one pass only
PassEndOnce ==
    /\ Walking("reclaim")
    /\ zeroed = {}
    /\ phase' = "idle"
    /\ collectAt' = Cardinality(alloc)
    /\ UNCHANGED <<heapVars, headerVars, drainVars, walkVars, dead, zeroed, freeing,
                   freed>>

\* nts_collect_cycles: another pass while one freed something and left
\* candidates behind
PassEnd ==
    /\ Walking("reclaim")
    /\ zeroed = {}
    /\ IF freed /\ roots # <<>>
       THEN BeginPass /\ UNCHANGED collectAt
       ELSE /\ phase' = "idle"
            /\ collectAt' = Cardinality(alloc)
            /\ UNCHANGED <<cursor, kept>>
    /\ UNCHANGED <<heapVars, headerVars, drainVars, work, restore, dead, zeroed,
                   freeing, freed>>

-----------------------------------------------------------------------------

Init ==
    /\ alloc = {}
    /\ field = [o \in Obj |-> [s \in Slots |-> Null]]
    /\ ext = [o \in Obj |-> 0]
    /\ foreign = {}
    /\ rc = [o \in Obj |-> 0]
    /\ colour = [o \in Obj |-> "black"]
    /\ buffered = {}
    /\ doomed = {}
    /\ rootIndex = [o \in Obj |-> RootNone]
    /\ roots = <<>>
    /\ dying = {}
    /\ drainPc = "off"
    /\ drainObj = Null
    /\ drainSlot = 1
    /\ phase = "idle"
    /\ cursor = 1
    /\ kept = 0
    /\ work = {}
    /\ restore = {}
    /\ dead = {}
    /\ zeroed = {}
    /\ freeing = Null
    /\ freed = FALSE
    /\ collectAt = 0

Program ==
    \/ \E o \in Obj : New(o) \/ Retain(o) \/ Release(o)
    \/ \E p \in Obj, s \in Slots, o \in Obj \cup {Null} : Store(p, s, o)
    \/ CollectAtCheckpoint

Drain ==
    \/ \E o \in Obj : DrainPop(o)
    \/ DrainContents
    \/ DrainContentsDone
    \/ DrainForeign
    \/ DrainCallbackReturns
    \/ DrainFinish
    \/ DrainEnd

Collect ==
    \/ MarkRoot
    \/ \E o \in Obj : MarkGray(o)
    \/ MarkEnd
    \/ ScanRoot
    \/ \E o \in Obj : Scan(o) \/ ScanBlack(o)
    \/ ScanEnd
    \/ GatherRoot
    \/ \E o \in Obj : GatherWhite(o)
    \/ GatherEnd
    \/ \E o \in Obj : FreeDead(o)
    \/ FreeCallbackReturns
    \/ FreeDeadBlock
    \/ FreeEnd
    \/ \E o \in Obj : Reclaim(o)
    \/ PassEnd

Next == Program \/ Drain \/ Collect

Spec == Init /\ [][Next]_vars

\* The thread keeps going: a drain and a pass are loops of the runtime, and a
\* foreign release is a call that returns.
FairSpec ==
    /\ Spec
    /\ WF_vars(Drain)
    /\ WF_vars(Collect)
    /\ SF_vars(FreeCallbackReturns)

-----------------------------------------------------------------------------
(* Properties *)

\* The type invariant: every word of a header, every list and every position
\* of nts_destroy and nts_collect_pass keeps its type.
TypeOK ==
    /\ alloc \subseteq Obj
    /\ field \in [Obj -> [Slots -> Obj \cup {Null}]]
    /\ ext \in [Obj -> Nat]
    /\ foreign \subseteq Obj
    /\ rc \in [Obj -> Int]
    /\ colour \in [Obj -> Colours]
    /\ buffered \subseteq Obj
    /\ doomed \subseteq Obj
    /\ rootIndex \in [Obj -> Nat]
    /\ roots \in Seq(Obj)
    /\ dying \subseteq Obj
    /\ drainPc \in DrainPcs
    /\ drainObj \in IF drainPc \in {"off", "pop"} THEN {Null} ELSE Obj
    /\ drainSlot \in Nat
    /\ phase \in Phases
    /\ cursor \in Nat \ {0}
    /\ kept \in Nat
    /\ work \subseteq Obj
    /\ restore \subseteq Obj
    /\ dead \subseteq Obj
    /\ zeroed \subseteq Obj
    /\ freeing \in Obj \cup {Null}
    /\ freed \in BOOLEAN
    /\ collectAt \in Nat

\* Where the loops may be together: a pass starts with nothing draining, its
\* walks never call out, each list is empty outside the steps that use it, and
\* marking compacts the buffer behind its cursor.
Shape ==
    /\ phase \in {"mark", "scan", "gather", "free"} => drainPc = "off"
    /\ drainPc = "off" => dying = {}
    /\ phase = "mark" => kept < cursor /\ cursor <= Len(roots) + 1
    /\ phase \notin {"mark", "scan", "gather"} => work = {}
    /\ phase # "scan" => restore = {}
    /\ phase \notin {"gather", "free", "callback"} => dead = {}
    /\ phase \notin {"free", "callback"} => freeing = Null

\* The type invariant with the shape it needs to be inductive.
WellFormed == TypeOK /\ Shape

\* Objects whose references trial deletion has taken off their children's
\* counts and not put back
Trial == {o \in Obj : colour[o] \in {"gray", "white"}} \cup restore \cup dead

\* The counted references to o from objects of the heap
InEdges(o) == {e \in (alloc \ Trial) \X Slots : field[e[1]][e[2]] = o}

\* Every count is exact at every step: it is the references the program and
\* foreign code hold (nts_retain) plus the slots that name the object, minus
\* those a trial deletion has removed (nts_mark_gray) and not restored
\* (nts_scan_black).  A freed or dying block is referred to by nothing.
CountExact ==
    \A o \in Obj : /\ rc[o] = ext[o] + Cardinality(InEdges(o))
                   /\ o \notin Live => rc[o] = 0

\* No reference the program holds, and no slot of an object it could reach,
\* names a freed or a dying block (nts_free, nts_destroy).
NoDangling ==
    /\ \A o \in Obj : ext[o] > 0 => o \in Live
    /\ \A p \in Live \ Trial : Children(p) \subseteq Live

\* The counts are right and what they keep is there.
CountsSound == CountExact /\ NoDangling

\* The entries of roots a pass has yet to drop: while marking, the kept prefix
\* and what the loop has not reached
RootEntries ==
    IF phase = "mark" THEN (1 .. kept) \cup (cursor .. Len(roots)) ELSE 1 .. Len(roots)

\* The buffer, NTS_BUFFERED and nts_root_index agree through appends, swap
\* removals by dying candidates and the compaction of a pass (the aborts on "a
\* stale roots index" never fire).  Gathering is the exception: it reads roots
\* after every flag is cleared.
CandidatesIndexed ==
    phase # "gather" =>
        /\ \A i \in RootEntries : roots[i] \in buffered /\ rootIndex[roots[i]] = i
        /\ \A o \in buffered : rootIndex[o] \in RootEntries /\ roots[rootIndex[o]] = o
        /\ \A o \in Obj \ buffered : rootIndex[o] = RootNone

\* The collector's walks meet neither a freed block nor an emptied shell
\* (nts_each_reference: "the cycle collector walked into an emptied object").
WalksLive ==
    phase \in {"mark", "scan", "gather"} => work \cup restore \subseteq Live

\* The candidates and the walks that start from them.
CandidatesSound == CandidatesIndexed /\ WalksLive

\* A set of blocks closed under reference
Closed(S) == \A p \in S : Children(p) \subseteq S

\* What the program can reach, and what the candidates can
ReachableFrom(R) == {o \in Obj : \A S \in SUBSET Obj : R \subseteq S /\ Closed(S) => o \in S}
Reachable == ReachableFrom({o \in Obj : ext[o] > 0})

\* No garbage escapes the collector: between collections, whatever is allocated
\* and unreachable is reachable from a purple candidate (nts_possible_root), so
\* the next pass will trace it.
GarbageHasCandidate ==
    (phase = "idle" /\ drainPc = "off") =>
        alloc \ Reachable \subseteq
            ReachableFrom({o \in buffered : colour[o] = "purple"})

\* "A collection leaves nothing it could collect" (nts_collect_cycles): when it
\* returns, the buffer is empty and everything allocated is reachable, however
\* much the callbacks of its frees allocated and dropped.
CollectionComplete ==
    [][phase # "idle" /\ phase' = "idle" => roots' = <<>> /\ (alloc \subseteq Reachable)']_vars

\* Nothing is given back twice and nothing foreign outlives its object: a block
\* is freed only once its foreign handle is released, and only when dying.
FreedOnce ==
    [][\A o \in alloc \ alloc' : o \in doomed \ buffered /\ o \notin foreign]_vars

\* A collection frees all it could, and each block once.
FreesSound == CollectionComplete /\ FreedOnce

\* A collection ends, as nts_collect_cycles says of its repeated passes: the
\* claim without the exception that CollectionEndsUnlessFed makes.
CollectionEnds == collecting ~> ~collecting

\* A collection ends unless the objects it frees keep allocating: only a
\* foreign release that makes a new object, over and over, can make
\* nts_collect_cycles repeat its passes for ever.
CollectionEndsUnlessFed ==
    \/ []<>~collecting
    \/ []<><<\E o \in Obj : InCallback /\ New(o)>>_vars

\* Counting, draining and collecting implement a heap whose manager gives back
\* only what the program cannot reach and never touches the slots of the rest.
H == INSTANCE Heap
HeapSpec == H!Spec

=============================================================================
