-------------------------------- MODULE Heap --------------------------------
(***************************************************************************)
(* What the memory manager promises the program: objects, the references   *)
(* between them and the references the program holds.  The program alone   *)
(* changes references; the manager alone gives blocks back, and only those *)
(* the program can no longer reach.  What an unreachable object's slots    *)
(* hold is the manager's business.                                         *)
(***************************************************************************)
EXTENDS Naturals

CONSTANTS Obj, Null, Slots, MayHold

VARIABLES alloc, field, ext

vars == <<alloc, field, ext>>

Children(o) == {field[o][s] : s \in Slots} \ {Null}
Closed(S) == \A p \in S : Children(p) \subseteq S
Held == {o \in Obj : ext[o] > 0}
Reachable == {o \in Obj : \A S \in SUBSET Obj : Held \subseteq S /\ Closed(S) => o \in S}

Init ==
    /\ alloc = {}
    /\ field = [o \in Obj |-> [s \in Slots |-> Null]]
    /\ ext = [o \in Obj |-> 0]

\* A fresh object has no references and is held once.
New(o) ==
    /\ o \notin alloc
    /\ alloc' = alloc \cup {o}
    /\ ext' = [ext EXCEPT ![o] = 1]
    /\ UNCHANGED field

\* The program takes another reference to something it can reach.
Retain(o) ==
    /\ o \in Reachable
    /\ ext' = [ext EXCEPT ![o] = @ + 1]
    /\ UNCHANGED <<alloc, field>>

Release(o) ==
    /\ ext[o] > 0
    /\ ext' = [ext EXCEPT ![o] = @ - 1]
    /\ UNCHANGED <<alloc, field>>

\* A reference the program holds and one in a slot change places.
Store(p, s, o) ==
    /\ p \in Held
    /\ o # Null => ext[o] > 0 /\ <<p, o>> \in MayHold
    /\ field' = [field EXCEPT ![p][s] = o]
    /\ ext' = [x \in Obj |-> (IF x = o THEN ext[x] - 1 ELSE ext[x])
                             + (IF x = field[p][s] THEN 1 ELSE 0)]
    /\ UNCHANGED alloc

\* The manager: blocks out of reach are emptied and given back.
Reclaim ==
    /\ alloc' \subseteq alloc
    /\ Reachable \subseteq alloc'
    /\ \A o \in Reachable : field'[o] = field[o]
    /\ UNCHANGED ext

Next ==
    \/ \E o \in Obj : New(o) \/ Retain(o) \/ Release(o)
    \/ \E p \in Obj, s \in Slots, o \in Obj \cup {Null} : Store(p, s, o)
    \/ Reclaim

Spec == Init /\ [][Next]_vars

=============================================================================
