---------------------------- MODULE ContextScopes -----------------------------
(***************************************************************************)
(* Context, Scope and ContextObj (src/context/context.{h,cpp}, cdo.h): a   *)
(* push is O(1); an object is saved the first time it is written in a      *)
(* scope, and the pop of that scope restores exactly the objects of its    *)
(* chain.  Here a chain is the set of objects linked in it, with the       *)
(* version (live object or saved copy) of each; ContextHeap models the     *)
(* links themselves.                                                       *)
(***************************************************************************)
EXTENDS Integers

CONSTANTS Obj, Val, Default, Absent, MaxLevel

ASSUME DefaultAssumption == Default \in Val
ASSUME AbsentAssumption == Absent \notin Val
ASSUME MaxLevelAssumption == MaxLevel \in Nat

VARIABLES
  level,    \* Context::getLevel(), d_scopeList.size() - 1
  version,  \* version[s][o]: data of the version of o in the chain of scope s
  scope,    \* d_pScope of the live object, or NoScope
  restore   \* restore[s][o]: the scope of the version that
            \* d_pContextObjRestore of the version in s points to, or NoScope

vars == <<level, version, scope, restore>>

Level == 0 .. MaxLevel
NoScope == -1

TypeOK ==
  /\ level \in Level
  /\ version \in [Level -> [Obj -> Val \cup {Absent}]]
  /\ scope \in [Obj -> Level \cup {NoScope}]
  /\ restore \in [Level -> [Obj -> Level \cup {NoScope}]]

Init ==
  /\ level = 0
  /\ version = [s \in Level |-> [o \in Obj |-> Absent]]
  /\ scope = [o \in Obj |-> NoScope]
  /\ restore = [s \in Level |-> [o \in Obj |-> NoScope]]

Alive(o) == scope[o] # NoScope

-------------------------------------------------------------------------------
(* Two ways Set could go wrong: assigning without makeCurrent(), and       *)
(* linking into the new chain without setting the restore pointer.         *)
SetInPlace(o, v) ==
  /\ Alive(o)
  /\ version' = [version EXCEPT ![scope[o]][o] = v]
  /\ UNCHANGED <<level, scope, restore>>

SetNoRestorePointer(o, v) ==
  /\ Alive(o)
  /\ version' = [version EXCEPT ![level][o] = v]
  /\ scope' = [scope EXCEPT ![o] = level]
  /\ UNCHANGED <<level, restore>>

(* ContextObj::makeCurrent() then the assignment of a subclass: in a scope *)
(* where the object is not current, update() leaves a saved copy in the    *)
(* old scope, links the object into the top scope's chain and makes the    *)
(* copy its restore pointer.                                               *)
Set(o, v) ==
  /\ Alive(o)
  /\ version' = [version EXCEPT ![level][o] = v]
  /\ IF scope[o] = level
       THEN UNCHANGED <<scope, restore>>
       ELSE /\ restore' = [restore EXCEPT ![level][o] = scope[o]]
            /\ scope' = [scope EXCEPT ![o] = level]
  /\ UNCHANGED level

(* CDO(context): linked into the bottom scope whatever the level is.       *)
NewDefault(o) ==
  /\ ~ Alive(o)
  /\ version' = [version EXCEPT ![0][o] = Default]
  /\ scope' = [scope EXCEPT ![o] = 0]
  /\ UNCHANGED <<level, restore>>

(* CDO(context, data): the same constructor, then makeCurrent() and the    *)
(* assignment, so that below the current level the value is T().           *)
New(o, v) ==
  /\ ~ Alive(o)
  /\ scope' = [scope EXCEPT ![o] = level]
  /\ version' = [s \in Level |->
                   [p \in Obj |-> IF p # o THEN version[s][p]
                                  ELSE IF s = level THEN v
                                  ELSE IF s = 0 THEN Default ELSE Absent]]
  /\ restore' = IF level = 0 THEN restore
                ELSE [restore EXCEPT ![level][o] = 0]
  /\ UNCHANGED level

(* CDO(true, context, data): linked into the top scope only.               *)
NewInCMM(o, v) ==
  /\ ~ Alive(o)
  /\ version' = [version EXCEPT ![level][o] = v]
  /\ scope' = [scope EXCEPT ![o] = level]
  /\ UNCHANGED <<level, restore>>

(* ContextObj::destroy(): take every version of the object out of its      *)
(* chain.                                                                  *)
Destroy(o) ==
  /\ Alive(o)
  /\ version' = [s \in Level |-> [version[s] EXCEPT ![o] = Absent]]
  /\ restore' = [s \in Level |-> [restore[s] EXCEPT ![o] = NoScope]]
  /\ scope' = [scope EXCEPT ![o] = NoScope]
  /\ UNCHANGED level

(* Context::push(): a new Scope with an empty chain.                       *)
Push ==
  /\ level < MaxLevel
  /\ level' = level + 1
  /\ UNCHANGED <<version, scope, restore>>

(* The objects ~Scope() calls restoreAndContinue() on.                     *)
ChainOf(s) == {o \in Obj : version[s][o] # Absent}

(* Two ways Pop could go wrong: popping the bottom scope, and restoring    *)
(* the data of an object but not its scope pointer.                        *)
PopBottom ==
  /\ level' = level - 1
  /\ UNCHANGED <<version, scope, restore>>

PopKeepsScope ==
  /\ level > 0
  /\ level' = level - 1
  /\ version' = [version EXCEPT ![level] = [o \in Obj |-> Absent]]
  /\ restore' = [restore EXCEPT ![level] = [o \in Obj |-> NoScope]]
  /\ UNCHANGED scope

(* Context::pop(): every object of the top chain takes back its saved      *)
(* copy's data and scope; one that has none ceases to exist.               *)
Pop ==
  /\ level > 0
  /\ level' = level - 1
  /\ scope' = [o \in Obj |-> IF o \in ChainOf(level)
                             THEN restore[level][o] ELSE scope[o]]
  /\ version' = [version EXCEPT ![level] = [o \in Obj |-> Absent]]
  /\ restore' = [restore EXCEPT ![level] = [o \in Obj |-> NoScope]]

Next ==
  \/ \E o \in Obj, v \in Val : Set(o, v) \/ New(o, v) \/ NewInCMM(o, v)
  \/ \E o \in Obj : NewDefault(o) \/ Destroy(o)
  \/ Push
  \/ Pop

Spec == Init /\ [][Next]_vars

-------------------------------------------------------------------------------
(* s is the scope whose chain holds the version of o that level i sees.    *)
IsVisible(ver, o, i, s) ==
  /\ s \in 0 .. i
  /\ ver[s][o] # Absent
  /\ \A t \in Level : s < t /\ t <= i => ver[t][o] = Absent

Latest(ver, o, i) ==
  IF \E s \in Level : IsVisible(ver, o, i, s)
    THEN ver[CHOOSE s \in Level : IsVisible(ver, o, i, s)][o]
    ELSE Absent

ValueAt(o, i) == IF i <= level THEN Latest(version, o, i) ELSE Absent

Snapshot == [i \in Level |-> [o \in Obj |-> ValueAt(o, i)]]

Abs == INSTANCE ContextSnapshots WITH snap <- Snapshot

-------------------------------------------------------------------------------
(* The restore pointers of an object lead through all of its versions,     *)
(* newest first, down to one that has none: what restoreAndContinue()      *)
(* relies on (context.cpp:189) and makeCurrent() must keep up.             *)
RestoreAt(o, s) ==
  IF version[s][o] = Absent THEN restore[s][o] = NoScope
  ELSE /\ restore[s][o] < s
       /\ restore[s][o] # NoScope => version[restore[s][o]][o] # Absent
       /\ \A t \in Level : restore[s][o] < t /\ t < s => version[t][o] = Absent

RestoreChain == \A o \in Obj, s \in Level : RestoreAt(o, s)

(* The live object is the newest version, and no version outlives its      *)
(* scope: "if this assertion is failing, you may have created an object at *)
(* a non-zero level and let it outlive the destruction of that level"      *)
(* (context.cpp:235).                                                      *)
LiveIsNewest ==
  /\ \A o \in Obj :
       /\ Alive(o) => scope[o] <= level /\ version[scope[o]][o] # Absent
       /\ \A t \in Level : scope[o] < t => version[t][o] = Absent

(* Level i sees no version of o, or a newest one.                          *)
Sees(o, i) ==
  \/ \A s \in Level : s <= i => version[s][o] = Absent
  \/ \E s \in Level : IsVisible(version, o, i, s)

Visibility == \A o \in Obj, i \in Level : Sees(o, i)

IInv == TypeOK /\ RestoreChain /\ LiveIsNewest /\ Visibility

(* The lazily saved versions implement full snapshots: after any sequence  *)
(* of creations, writes, pushes, pops and destructions in any order, every *)
(* object has the value it had when the level was pushed.                  *)
ImplementsSnapshots == Abs!Spec
===============================================================================
