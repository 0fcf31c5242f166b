----------------------------- MODULE ContextHeap ------------------------------
(***************************************************************************)
(* The data structure behind ContextScopes (src/context/context.{h,cpp}).  *)
(* Each scope heads a doubly linked list of the object versions that       *)
(* belong to it: live objects, and saved copies that live in the memory of *)
(* ContextMemoryManager and vanish all at once when their region is        *)
(* popped.  The back link of a version is the address of the pointer that  *)
(* points to it, d_ppContextObjPrev.                                       *)
(*                                                                         *)
(* An address is a scope's head pointer (0 .. MaxLevel), an object or a    *)
(* saved copy (the numbers above MaxLevel, handed out in order): link[a]   *)
(* is the pointer stored at a, d_pContextObjList or d_pContextObjNext.     *)
(***************************************************************************)
EXTENDS Integers, Sequences, FiniteSets

CONSTANTS
  Obj, Val, Default, Absent,  \* as in ContextScopes
  Null,                       \* the null pointer
  MaxLevel,                   \* bound on nested pushes
  MaxCells                    \* bound on the saved copies in memory

VARIABLES
  level,      \* d_scopeList.size() - 1
  popping,    \* ~Scope() of scope level + 1 is running
  mem,        \* every field of every version
  free,       \* ContextMemoryManager: the next free address
  freeStack   \* ContextMemoryManager: free at each push

vars == <<level, popping, mem, free, freeStack>>

Level == 0 .. MaxLevel
NoScope == -1
Cell == MaxLevel + 1 .. MaxLevel + MaxCells
Node == Obj \cup Cell
Addr == Level \cup Node

Memory ==
  [link : [Addr -> Node \cup {Null}],             \* the pointer at an address
   prev : [Node -> Addr \cup {Null}],             \* d_ppContextObjPrev
   restore : [Node -> Node \cup {Null}],          \* d_pContextObjRestore
   scope : [Node -> Level \cup {NoScope}],        \* d_pScope, NoScope if dead
   data : [Node -> Val \cup {Absent}]]            \* the data of the subclass

TypeOK ==
  /\ level \in Level
  /\ popping \in BOOLEAN
  /\ mem \in Memory
  /\ free \in MaxLevel + 1 .. MaxLevel + MaxCells + 1
  /\ freeStack \in Seq(MaxLevel + 1 .. free)

NoMemory == [link |-> [a \in Addr |-> Null],
             prev |-> [n \in Node |-> Null],
             restore |-> [n \in Node |-> Null],
             scope |-> [n \in Node |-> NoScope],
             data |-> [n \in Node |-> Absent]]

Init ==
  /\ level = 0
  /\ popping = FALSE
  /\ mem = NoMemory
  /\ free = MaxLevel + 1
  /\ freeStack = <<>>

-------------------------------------------------------------------------------
(* The pointer operations, as functions from memory to memory.             *)

(* The nodes reached from a through field f, up to the null pointer.       *)
Reach(f, a) ==
  LET step[k \in 0 .. Cardinality(Node)] ==
        IF k = 0 THEN {a}
        ELSE step[k - 1] \cup {f[n] : n \in step[k - 1] \ {Null}}
  IN step[Cardinality(Node)] \ {Null}

(* The versions in N are gone: a pointer to one of them leads nowhere.     *)
Wipe(m, N) ==
  [f \in DOMAIN m |-> [a \in DOMAIN m[f] |-> IF a \in N THEN NoMemory[f][a] ELSE m[f][a]]]

(* Store pointer p at address a, and the address back at p if p is not     *)
(* null.                                                                   *)
LinkNoPrev(m, a, p) == [m EXCEPT !.link[a] = p]

Link(m, a, p) ==
  IF p = Null THEN [m EXCEPT !.link[a] = p]
  ELSE [m EXCEPT !.link[a] = p, !.prev[p] = a]

(* Scope::addToChain()                                                     *)
AddToChain(m, n, s) == Link(Link(m, n, m.link[s]), s, n)

(* ContextObj::update() with the saved copy allocated at c: c takes o's    *)
(* place in the chain of o's scope, o goes to the front of the top chain.  *)
Update(m, o, c, top) ==
  LET saved == [link |-> [m.link EXCEPT ![c] = m.link[o]],
                prev |-> [m.prev EXCEPT ![c] = m.prev[o]],
                restore |-> [m.restore EXCEPT ![c] = m.restore[o]],
                scope |-> [m.scope EXCEPT ![c] = m.scope[o]],
                data |-> [m.data EXCEPT ![c] = m.data[o]]]
      linked == Link(Link(saved, c, m.link[o]), m.prev[o], c)
  IN AddToChain([linked EXCEPT !.scope[o] = top, !.restore[o] = c], o, top)

(* ContextObj::restoreAndContinue(), and a way it could go wrong: keeping  *)
(* the restore pointer of the popped version.                              *)
RestoreKeepsPointer(m, o) ==
  LET c == m.restore[o]
      base == [m EXCEPT !.data[o] = m.data[c], !.scope[o] = m.scope[c],
                        !.prev[o] = m.prev[c], !.link[o] = m.link[c]]
  IN IF c = Null THEN [m EXCEPT !.scope[o] = NoScope]
     ELSE Link(Link(base, o, base.link[o]), base.prev[o], o)

RestoreAndContinue(m, o) ==
  LET c == m.restore[o]
      base == [m EXCEPT !.data[o] = m.data[c], !.scope[o] = m.scope[c],
                        !.prev[o] = m.prev[c], !.link[o] = m.link[c],
                        !.restore[o] = m.restore[c]]
  IN IF c = Null THEN [m EXCEPT !.scope[o] = NoScope]
     ELSE Link(Link(base, o, base.link[o]), base.prev[o], o)

(* One round of ContextObj::destroy().                                     *)
Unlink(m, o) == LET n == m.link[o]
                    m1 == IF n = Null THEN m ELSE [m EXCEPT !.prev[n] = m.prev[o]]
                IN [m1 EXCEPT !.link[m.prev[o]] = n]

(* ContextObj::destroy(): unlink, go back to the previous version, repeat. *)
DestroyAll(m, o) ==
  LET round[k \in 0 .. MaxLevel] ==
        IF k = 0 THEN Unlink(m, o)
        ELSE IF round[k - 1].restore[o] = Null THEN round[k - 1]
        ELSE Unlink(RestoreAndContinue(round[k - 1], o), o)
  IN Wipe(round[MaxLevel], Reach(m.restore, o))

-------------------------------------------------------------------------------
Alive(o) == mem.scope[o] # NoScope

(* ContextObj::makeCurrent() on memory m, then the assignment; at most one *)
(* saved copy is allocated.                                                *)
WriteTo(m, o, v) ==
  IF m.scope[o] = level
    THEN /\ mem' = [m EXCEPT !.data[o] = v]
         /\ UNCHANGED free
    ELSE /\ free \in Cell
         /\ mem' = [Update(m, o, free, level) EXCEPT !.data[o] = v]
         /\ free' = free + 1

Set(o, v) ==
  /\ ~ popping /\ Alive(o)
  /\ WriteTo(mem, o, v)
  /\ UNCHANGED <<level, popping, freeStack>>

(* The memory after the constructor ContextObj(allocatedInCMM, context)    *)
(* has put o into scope s, and that of the subclass has stored v.          *)
Construct(o, s, v) ==
  AddToChain([mem EXCEPT !.scope[o] = s, !.restore[o] = Null, !.data[o] = v], o, s)

NewDefault(o) ==
  /\ ~ popping /\ ~ Alive(o)
  /\ mem' = Construct(o, 0, Default)
  /\ UNCHANGED <<level, popping, free, freeStack>>

New(o, v) ==
  /\ ~ popping /\ ~ Alive(o)
  /\ WriteTo(Construct(o, 0, Default), o, v)
  /\ UNCHANGED <<level, popping, freeStack>>

NewInCMM(o, v) ==
  /\ ~ popping /\ ~ Alive(o)
  /\ mem' = Construct(o, level, v)
  /\ UNCHANGED <<level, popping, free, freeStack>>

Destroy(o) ==
  /\ ~ popping /\ Alive(o)
  /\ mem' = DestroyAll(mem, o)
  /\ UNCHANGED <<level, popping, free, freeStack>>

(* Context::push(): a new region of memory, and a scope with an empty      *)
(* chain.                                                                  *)
Push ==
  /\ ~ popping /\ level < MaxLevel
  /\ level' = level + 1
  /\ mem' = [mem EXCEPT !.link[level + 1] = Null]
  /\ freeStack' = Append(freeStack, free)
  /\ UNCHANGED <<popping, free>>

(* Context::pop(), up to the destruction of the top scope.                 *)
PopScope ==
  /\ ~ popping /\ level > 0
  /\ popping' = TRUE
  /\ level' = level - 1
  /\ UNCHANGED <<mem, free, freeStack>>

(* One iteration of ~Scope(): the rest of the chain is what was linked     *)
(* after the first object before it was restored.  In RestoreStays the     *)
(* loop does not advance.                                                  *)
RestoreStays ==
  LET o == mem.link[level + 1]
  IN /\ popping /\ o # Null
     /\ mem' = RestoreAndContinue(mem, o)
     /\ UNCHANGED <<level, popping, free, freeStack>>

RestoreNext ==
  LET top == level + 1
      o == mem.link[top]
  IN /\ popping /\ o # Null
     /\ mem' = [RestoreAndContinue(mem, o) EXCEPT !.link[top] = mem.link[o]]
     /\ UNCHANGED <<level, popping, free, freeStack>>

(* Context::pop(): the memory of the scope is released last.  Released     *)
(* first, it would take the saved copies with it.                          *)
ReleaseFirst ==
  /\ popping /\ Len(freeStack) > level
  /\ free' = freeStack[Len(freeStack)]
  /\ freeStack' = SubSeq(freeStack, 1, Len(freeStack) - 1)
  /\ popping' = (mem.link[level + 1] # Null)
  /\ UNCHANGED <<level, mem>>

ReleaseMemory ==
  /\ popping /\ mem.link[level + 1] = Null
  /\ free' = freeStack[Len(freeStack)]
  /\ freeStack' = SubSeq(freeStack, 1, Len(freeStack) - 1)
  /\ popping' = FALSE
  /\ mem' = Wipe(mem, {n \in Cell : n >= free'} \cup {o \in Obj : mem.scope[o] = NoScope})
  /\ UNCHANGED level

Next ==
  \/ \E o \in Obj, v \in Val : Set(o, v) \/ New(o, v) \/ NewInCMM(o, v)
  \/ \E o \in Obj : NewDefault(o) \/ Destroy(o)
  \/ Push
  \/ PopScope
  \/ RestoreNext
  \/ ReleaseMemory

(* pop() is one function: it keeps running until it returns.               *)
Fairness == WF_vars(RestoreNext) /\ WF_vars(ReleaseMemory)

Spec == Init /\ [][Next]_vars /\ Fairness

-------------------------------------------------------------------------------
(* The version an object has once the running pop is over, and all its     *)
(* versions.                                                               *)
Live(o) == IF popping /\ mem.scope[o] = level + 1 THEN mem.restore[o] ELSE o
Versions(o) ==
  IF Alive(o) THEN Reach(mem.restore, Live(o)) ELSE {}
AllVersions == UNION {Versions(o) : o \in Obj}

(* Each scope's list, walked from its head, is exactly the versions that   *)
(* belong to the scope, and every back link leads to the pointer that      *)
(* points at the version: the assertions of operator<<(Scope)              *)
(* (context.cpp:348-360), also while a pop is under way.                   *)
ChainsWellFormed ==
  LET versions == AllVersions IN
  \A s \in 0 .. level :
    LET chain == Reach(mem.link, s) \ {s} IN
    /\ chain = {n \in versions : mem.scope[n] = s}
    /\ \A n \in chain : /\ mem.prev[n] \in chain \cup {s}
                        /\ mem.link[mem.prev[n]] = n

(* No version and no scope in use points into released memory, and none    *)
(* that will outlive the running pop points into the memory about to be    *)
(* released except to reach its saved copy.                                *)
NoDanglingPointer ==
  \A n \in AllVersions \cup {o \in Obj : Alive(o)} :
    {n, mem.link[n], mem.restore[n], mem.prev[n]} \cap (free .. MaxLevel + MaxCells) = {}

(* Once a version belongs to a scope, its saved copy is in memory that     *)
(* lives exactly as long: released by the pop that restores it, and not    *)
(* before.                                                                 *)
SavedInTopRegion ==
  \A n \in AllVersions :
    LET c == mem.restore[n] s == mem.scope[n] IN
      c # Null => /\ s > 0
                  /\ c >= freeStack[s]
                  /\ s < Len(freeStack) => c < freeStack[s + 1]

(* pop() comes to an end: no chain it walks leads back to itself.          *)
PopTerminates == popping ~> ~ popping

-------------------------------------------------------------------------------
(* The linked lists implement the sets of versions of ContextScopes; the   *)
(* iterations of a pop all belong to its first step.                       *)
Version(s, o) == {n \in Versions(o) : mem.scope[n] = s}
DataAt(s, o) == IF Version(s, o) = {} THEN Absent
                ELSE mem.data[CHOOSE n \in Version(s, o) : TRUE]
ScopeOf(n) == IF n = Null THEN NoScope ELSE mem.scope[n]
RestoreAt(s, o) == IF Version(s, o) = {} THEN NoScope
                   ELSE ScopeOf(mem.restore[CHOOSE n \in Version(s, o) : TRUE])

Abs == INSTANCE ContextScopes WITH
         version <- [s \in Level |-> [o \in Obj |-> DataAt(s, o)]],
         scope <- [o \in Obj |-> ScopeOf(Live(o))],
         restore <- [s \in Level |-> [o \in Obj |-> RestoreAt(s, o)]]

ImplementsScopes == Abs!Spec
===============================================================================
