--------------------------- MODULE ContextSnapshots ---------------------------
(***************************************************************************)
(* What src/context promises: a backtrackable store.  Conceptually every   *)
(* push() takes a complete snapshot of every context-dependent object and  *)
(* every pop() goes back to it.  The implementation (ContextScopes,        *)
(* ContextHeap) saves objects lazily and one at a time; this module is     *)
(* what it must look like from outside.                                    *)
(***************************************************************************)
EXTENDS Integers

CONSTANTS
  Obj,        \* context-dependent objects (ContextObj instances)
  Val,        \* the values an object can hold
  Default,    \* the value T() of a default-constructed object
  Absent,     \* "the object does not exist at this level"
  MaxLevel    \* bound on the number of nested push() calls

VARIABLES
  level,      \* the number of pushes not yet popped
  snap        \* snap[i][o]: the value o has, or will have again, at level i

snapVars == <<level, snap>>

Level == 0 .. MaxLevel

TypeOK ==
  /\ level \in Level
  /\ snap \in [Level -> [Obj -> Val \cup {Absent}]]

Init ==
  /\ level = 0
  /\ snap = [i \in Level |-> [o \in Obj |-> Absent]]

Exists(o) == snap[level][o] # Absent

(* Replace what object o is at each level i by f(i).                       *)
SetObj(o, f(_)) ==
  snap' = [i \in Level |-> [p \in Obj |-> IF p = o THEN f(i) ELSE snap[i][p]]]

(* An object on the heap belongs to every level below the current one: it  *)
(* has the default value there.                                            *)
Create(o, v) ==
  /\ ~ Exists(o)
  /\ SetObj(o, LAMBDA i : IF i = level THEN v
                          ELSE IF i < level THEN Default ELSE Absent)
  /\ UNCHANGED level

(* An object in context memory exists from the current level on only.      *)
CreateInCMM(o, v) ==
  /\ ~ Exists(o)
  /\ SetObj(o, LAMBDA i : IF i = level THEN v ELSE snap[i][o])
  /\ UNCHANGED level

Write(o, v) ==
  /\ Exists(o)
  /\ SetObj(o, LAMBDA i : IF i = level THEN v ELSE snap[i][o])
  /\ UNCHANGED level

Destroy(o) ==
  /\ Exists(o)
  /\ SetObj(o, LAMBDA i : Absent)
  /\ UNCHANGED level

Push ==
  /\ level < MaxLevel
  /\ level' = level + 1
  /\ snap' = [i \in Level |-> IF i = level + 1 THEN snap[level] ELSE snap[i]]

Pop ==
  /\ level > 0
  /\ level' = level - 1
  /\ snap' = [i \in Level |->
                IF i = level THEN [o \in Obj |-> Absent] ELSE snap[i]]

Next ==
  \/ \E o \in Obj, v \in Val :
       Create(o, v) \/ CreateInCMM(o, v) \/ Write(o, v)
  \/ \E o \in Obj : Destroy(o)
  \/ Push
  \/ Pop

Spec == Init /\ [][Next]_snapVars
===============================================================================
