------------------------- MODULE ContextScopesProofs --------------------------
(***************************************************************************)
(* ContextScopes implements ContextSnapshots, for every set of objects and *)
(* values and every bound on the levels.                                   *)
(***************************************************************************)
EXTENDS ContextScopes, TLAPS

USE DefaultAssumption, AbsentAssumption, MaxLevelAssumption

(* Updating one entry of a two-level table keeps its type.                 *)
LEMMA UpdateType ==
  ASSUME NEW S, NEW T, NEW U, NEW f \in [S -> [T -> U]],
         NEW s \in S, NEW t \in T, NEW u \in U
  PROVE  [f EXCEPT ![s][t] = u] \in [S -> [T -> U]]
OBVIOUS

(* Every reachable state of ContextScopes is of the right type.            *)
THEOREM TypeCorrect == Spec => []TypeOK
<1>1. Init => TypeOK
  BY DEF Init, TypeOK, Level, NoScope
<1>2. TypeOK /\ [Next]_vars => TypeOK'
  <2> SUFFICES ASSUME TypeOK, [Next]_vars PROVE TypeOK'
    OBVIOUS
  <2> USE DEF TypeOK, Level, NoScope
  <2>1. ASSUME NEW o \in Obj, NEW v \in Val, Set(o, v) PROVE TypeOK'
    <3>1. version' \in [Level -> [Obj -> Val \cup {Absent}]]
      BY <2>1 DEF Set
    <3>2. CASE scope[o] = level
      BY <2>1, <3>1, <3>2 DEF Set
    <3>3. CASE scope[o] # level
      <4>1. restore' = [restore EXCEPT ![level][o] = scope[o]]
        BY <2>1, <3>3 DEF Set
      <4>2. scope[o] \in Level \cup {NoScope}
        OBVIOUS
      <4>3. restore' \in [Level -> [Obj -> Level \cup {NoScope}]]
        BY <4>1, <4>2, UpdateType
      <4>4. QED
        BY <2>1, <3>1, <3>3, <4>3 DEF Set
    <3>4. QED
      BY <3>2, <3>3
  <2>2. ASSUME NEW o \in Obj, NEW v \in Val, New(o, v) PROVE TypeOK'
    BY <2>2 DEF New
  <2>3. ASSUME NEW o \in Obj, NEW v \in Val, NewInCMM(o, v) PROVE TypeOK'
    BY <2>3 DEF NewInCMM
  <2>4. ASSUME NEW o \in Obj, NewDefault(o) PROVE TypeOK'
    BY <2>4 DEF NewDefault
  <2>5. ASSUME NEW o \in Obj, Destroy(o) PROVE TypeOK'
    BY <2>5 DEF Destroy
  <2>6. CASE Push
    BY <2>6 DEF Push
  <2>7. CASE Pop
    BY <2>7 DEF Pop, ChainOf
  <2>8. CASE UNCHANGED vars
    BY <2>8 DEF vars
  <2>9. QED
    BY <2>1, <2>2, <2>3, <2>4, <2>5, <2>6, <2>7, <2>8 DEF Next
<1>3. QED
  BY <1>1, <1>2, PTL DEF Spec

-------------------------------------------------------------------------------
(* What level i sees of an object does not change when the versions at or  *)
(* below i do not, or when the live object is at or below i.               *)
LEMMA SeesStep ==
  ASSUME NEW o \in Obj, NEW i \in Level, TypeOK', LiveIsNewest', Sees(o, i),
         i < scope'[o] => \A s \in Level : s <= i => version'[s][o] = version[s][o]
  PROVE  Sees(o, i)'
<1>1. CASE i < scope'[o]
  BY <1>1 DEF Sees, IsVisible, Level
<1>2. CASE scope'[o] <= i /\ Alive(o)'
  <2>1. IsVisible(version, o, i, scope[o])' /\ scope'[o] \in Level
    BY <1>2 DEF IsVisible, LiveIsNewest, Alive, TypeOK, Level, NoScope
  <2>2. QED
    BY <2>1 DEF Sees, Level
<1>3. CASE ~ Alive(o)'
  BY <1>3 DEF Sees, LiveIsNewest, Alive, TypeOK, Level, NoScope
<1>4. QED
  BY <1>1, <1>2, <1>3 DEF TypeOK, Level, NoScope

(* An object that does not exist has neither versions nor pointers.          *)
LEMMA Fresh ==
  ASSUME IInv, NEW o \in Obj, ~ Alive(o)
  PROVE  \A s \in Level : version[s][o] = Absent /\ restore[s][o] = NoScope
BY DEF IInv, LiveIsNewest, RestoreChain, RestoreAt, Alive, TypeOK, Level, NoScope

(* Each operation keeps the invariant; first a write.                        *)
LEMMA SetKeeps ==
  ASSUME IInv, TypeOK', NEW o \in Obj, NEW v \in Val, Set(o, v)
  PROVE  IInv'
<1> SUFFICES RestoreChain' /\ LiveIsNewest' /\ Visibility'
  BY DEF IInv
<1> USE DEF IInv
<1>1. \A s \in Level, p \in Obj :
        version'[s][p] = IF s = level /\ p = o THEN v ELSE version[s][p]
  BY DEF Set, TypeOK
<1>2. /\ level' = level
      /\ \A p \in Obj : scope'[p] = IF p = o THEN level ELSE scope[p]
  BY DEF Set, TypeOK
<1>3. /\ scope[o] \in Level
      /\ scope[o] <= level
      /\ version[scope[o]][o] # Absent
      /\ \A t \in Level : scope[o] < t => version[t][o] = Absent
  BY DEF Set, LiveIsNewest, Alive, TypeOK
<1>4. LiveIsNewest'
  BY <1>1, <1>2, <1>3 DEF LiveIsNewest, Alive, TypeOK, Level, NoScope
<1>5. Visibility'
  <2>1. \A p \in Obj, i \in Level : i < scope'[p] =>
          \A s \in Level : s <= i => version'[s][p] = version[s][p]
    BY <1>1, <1>2 DEF TypeOK, Level
  <2>2. QED
    BY <1>4, <2>1, SeesStep DEF Visibility, Level
<1>6. RestoreChain'
  <2>1. CASE scope[o] = level
    <3>1. restore' = restore
      BY <2>1 DEF Set
    <3>2. QED
      <4> SUFFICES ASSUME NEW p \in Obj, NEW s \in Level PROVE RestoreAt(p, s)'
        BY DEF RestoreChain, Level
      <4>1. \A t \in Level : version'[t][p] = Absent <=> version[t][p] = Absent
        BY <1>1, <1>3, <2>1
      <4>2. RestoreAt(p, s) /\ restore[s][p] \in Level \cup {NoScope}
        BY DEF RestoreChain, TypeOK
      <4>3. QED
        BY <3>1, <4>1, <4>2 DEF RestoreAt, Level, NoScope
  <2>2. CASE scope[o] # level
    <3>1. \A s \in Level, p \in Obj :
            restore'[s][p] = IF s = level /\ p = o THEN scope[o]
                             ELSE restore[s][p]
      BY <2>2 DEF Set, TypeOK
    <3>2. scope[o] < level
      BY <1>3, <2>2 DEF TypeOK, Level
    <3>3. v # Absent /\ level \in Level
      BY DEF TypeOK
    <3> SUFFICES ASSUME NEW p \in Obj, NEW s \in Level
        PROVE  RestoreAt(p, s)'
      BY DEF RestoreChain, Level
    <3>4. CASE s = level /\ p = o
      BY <1>1, <1>3, <3>1, <3>2, <3>3, <3>4 DEF RestoreAt, TypeOK, Level, NoScope
    <3>5. CASE ~ (s = level /\ p = o)
      <4>1. RestoreAt(p, s) /\ version'[s][p] = version[s][p]
            /\ restore'[s][p] = restore[s][p]
        BY <1>1, <3>1, <3>5 DEF RestoreChain
      <4>2. CASE version[s][p] = Absent
        BY <4>1, <4>2 DEF RestoreAt
      <4>3. CASE version[s][p] # Absent
        <5>1. p = o => s < level
          BY <1>3, <3>2, <3>5, <4>3 DEF TypeOK, Level
        <5>2. \A t \in Level : t < s => version'[t][p] = version[t][p]
          BY <1>1, <5>1 DEF TypeOK, Level
        <5>3. QED
          BY <4>1, <4>3, <5>2 DEF RestoreAt, TypeOK, Level, NoScope
      <4>4. QED BY <4>2, <4>3
    <3>6. QED BY <3>4, <3>5
  <2>3. QED BY <2>1, <2>2
<1>7. QED BY <1>4, <1>5, <1>6

(* A new object, written at the current level.                               *)
LEMMA NewKeeps ==
  ASSUME IInv, TypeOK', NEW o \in Obj, NEW v \in Val, New(o, v)
  PROVE  IInv'
<1> SUFFICES RestoreChain' /\ LiveIsNewest' /\ Visibility'
  BY DEF IInv
<1> USE DEF IInv
<1>1. /\ level' = level
      /\ \A p \in Obj : scope'[p] = IF p = o THEN level ELSE scope[p]
      /\ \A s \in Level, p \in Obj :
           version'[s][p] = IF p # o THEN version[s][p]
                            ELSE IF s = level THEN v
                            ELSE IF s = 0 THEN Default ELSE Absent
  BY DEF New, TypeOK
<1>2. \A s \in Level, p \in Obj :
        restore'[s][p] = IF p = o /\ s = level /\ s # 0 THEN 0
                         ELSE restore[s][p]
  BY DEF New, TypeOK, Level
<1>3. \A s \in Level : version[s][o] = Absent /\ restore[s][o] = NoScope
  BY Fresh DEF New
<1>4. LiveIsNewest'
  BY <1>1, SMTT(30) DEF LiveIsNewest, Alive, TypeOK, Level, NoScope
<1>5. RestoreChain'
  <2> SUFFICES ASSUME NEW p \in Obj, NEW s \in Level PROVE RestoreAt(p, s)'
    BY DEF RestoreChain, Level
  <2>1. CASE p # o
    <3>1. /\ RestoreAt(p, s) /\ restore'[s][p] = restore[s][p]
          /\ \A t \in Level : version'[t][p] = version[t][p]
      BY <1>1, <1>2, <2>1 DEF RestoreChain
    <3>2. QED
      BY <3>1 DEF RestoreAt, TypeOK, Level, NoScope
  <2>2. CASE p = o /\ s = level
    BY <1>1, <1>2, <1>3, <2>2 DEF RestoreAt, TypeOK, Level, NoScope
  <2>3. CASE p = o /\ s # level
    BY <1>1, <1>2, <1>3, <2>3 DEF RestoreAt, TypeOK, Level, NoScope
  <2>4. QED BY <2>1, <2>2, <2>3
<1>6. Visibility'
  <2>1. \A p \in Obj \ {o}, i \in Level : Sees(p, i)'
    <3> TAKE p \in Obj \ {o}, i \in Level
    <3>1. Sees(p, i) /\ \A s \in Level : version'[s][p] = version[s][p]
      BY <1>1 DEF Visibility
    <3>2. QED
      BY <3>1, <1>4, SeesStep
  <2>2. ASSUME NEW i \in Level, level <= i PROVE Sees(o, i)'
    <3>1. ~ (i < scope'[o])
      BY <1>1, <2>2 DEF TypeOK, Level
    <3>2. Sees(o, i) /\ i \in Level
      BY DEF Visibility
    <3>3. QED
      BY <1>4, <3>1, <3>2, SeesStep
  <2>3. ASSUME NEW i \in Level, i < level PROVE Sees(o, i)'
    <3>1. IsVisible(version, o, i, 0)' /\ 0 \in Level
      BY <1>1, <2>3 DEF IsVisible, TypeOK, Level
    <3>2. QED
      BY <3>1 DEF Sees, Level
  <2>4. ASSUME NEW i \in Level PROVE Sees(o, i)'
    BY <2>2, <2>3 DEF TypeOK, Level
  <2>5. ASSUME NEW p \in Obj, NEW i \in Level PROVE Sees(p, i)'
    BY <2>1, <2>4
  <2>6. QED
    BY <2>5 DEF Visibility, Level
<1>7. QED BY <1>4, <1>5, <1>6

(* A new object with one version, in any open scope.                         *)
LEMMA PlaceKeeps ==
  ASSUME IInv, TypeOK', NEW o \in Obj, NEW s0 \in 0 .. level, NEW v \in Val, ~ Alive(o),
         version' = [version EXCEPT ![s0][o] = v],
         scope' = [scope EXCEPT ![o] = s0],
         UNCHANGED <<level, restore>>
  PROVE  IInv'
<1> SUFFICES RestoreChain' /\ LiveIsNewest' /\ Visibility'
  BY DEF IInv
<1> USE DEF IInv
<1>1. /\ \A p \in Obj : scope'[p] = IF p = o THEN s0 ELSE scope[p]
      /\ \A s \in Level, p \in Obj :
           version'[s][p] = IF s = s0 /\ p = o THEN v ELSE version[s][p]
      /\ s0 \in Level
  BY DEF TypeOK, Level
<1>2. \A s \in Level : version[s][o] = Absent /\ restore[s][o] = NoScope
  BY Fresh
<1>3. LiveIsNewest'
  BY <1>1, <1>2 DEF LiveIsNewest, Alive, TypeOK, Level, NoScope
<1>4. RestoreChain'
  BY <1>1, <1>2 DEF RestoreChain, RestoreAt, TypeOK, Level, NoScope
<1>5. \A p \in Obj, i \in Level : i < scope'[p] =>
        \A s \in Level : s <= i => version'[s][p] = version[s][p]
  BY <1>1 DEF TypeOK, Level
<1>6. Visibility'
  BY <1>3, <1>5, SeesStep DEF Visibility, Level
<1>7. QED BY <1>3, <1>4, <1>6

(* An object is taken out of all chains.                                     *)
LEMMA DestroyKeeps ==
  ASSUME IInv, TypeOK', NEW o \in Obj, Destroy(o)
  PROVE  IInv'
<1> SUFFICES RestoreChain' /\ LiveIsNewest' /\ Visibility'
  BY DEF IInv
<1> USE DEF IInv
<1>1. /\ level' = level
      /\ \A p \in Obj : scope'[p] = IF p = o THEN NoScope ELSE scope[p]
      /\ \A s \in Level, p \in Obj :
           version'[s][p] = IF p = o THEN Absent ELSE version[s][p]
      /\ \A s \in Level, p \in Obj :
           restore'[s][p] = IF p = o THEN NoScope ELSE restore[s][p]
  BY DEF Destroy, TypeOK
<1>2. LiveIsNewest'
  BY <1>1 DEF LiveIsNewest, Alive, TypeOK, Level, NoScope
<1>3. RestoreChain'
  BY <1>1 DEF RestoreChain, RestoreAt, TypeOK, Level, NoScope
<1>4. \A p \in Obj, i \in Level : i < scope'[p] =>
        \A s \in Level : s <= i => version'[s][p] = version[s][p]
  BY <1>1 DEF TypeOK, Level, NoScope
<1>5. Visibility'
  BY <1>2, <1>4, SeesStep DEF Visibility, Level
<1>6. QED BY <1>2, <1>3, <1>5

(* A scope with an empty chain.                                              *)
LEMMA PushKeeps ==
  ASSUME IInv, TypeOK', Push
  PROVE  IInv'
<1> SUFFICES RestoreChain' /\ LiveIsNewest' /\ Visibility'
  BY DEF IInv
<1> USE DEF IInv
<1>1. level' = level + 1 /\ UNCHANGED <<version, scope, restore>>
  BY DEF Push
<1>2. LiveIsNewest'
  BY <1>1 DEF LiveIsNewest, Alive, TypeOK, Level, NoScope
<1>3. RestoreChain'
  BY <1>1 DEF RestoreChain, RestoreAt, Level
<1>4. Visibility'
  BY <1>1 DEF Visibility, Sees, IsVisible, Level
<1>5. QED BY <1>2, <1>3, <1>4

(* The chain of a scope is restored.                                         *)
LEMMA PopKeeps ==
  ASSUME IInv, TypeOK', Pop
  PROVE  IInv'
<1> SUFFICES RestoreChain' /\ LiveIsNewest' /\ Visibility'
  BY DEF IInv
<1> USE DEF IInv
<1>1. /\ level > 0 /\ level' = level - 1
      /\ \A p \in Obj : scope'[p] = IF version[level][p] # Absent
                                   THEN restore[level][p] ELSE scope[p]
      /\ \A s \in Level, p \in Obj :
           version'[s][p] = IF s = level THEN Absent ELSE version[s][p]
      /\ \A s \in Level, p \in Obj :
           restore'[s][p] = IF s = level THEN NoScope ELSE restore[s][p]
  BY DEF Pop, ChainOf, TypeOK
<1>2. ASSUME NEW p \in Obj
      PROVE  /\ version[level][p] # Absent <=> scope[p] = level
             /\ scope'[p] < level
  <2>1. scope[p] <= level /\ level \in Level
    BY DEF LiveIsNewest, Alive, TypeOK, Level, NoScope
  <2>2. CASE version[level][p] # Absent
    <3>1. scope[p] = level
      BY <2>1, <2>2 DEF LiveIsNewest, TypeOK, Level, NoScope
    <3>2. restore[level][p] < level
      BY <2>1, <2>2 DEF RestoreChain, RestoreAt
    <3>3. scope'[p] = restore[level][p]
      BY <1>1, <2>2
    <3>4. QED BY <2>2, <3>1, <3>2, <3>3
  <2>3. CASE version[level][p] = Absent
    <3>1. scope[p] # level
      BY <2>1, <2>3 DEF LiveIsNewest, Alive, Level, NoScope
    <3>2. scope'[p] = scope[p]
      BY <1>1, <2>3
    <3>3. scope[p] < level
      BY <2>1, <3>1 DEF TypeOK, Level, NoScope
    <3>4. QED BY <2>3, <3>1, <3>2, <3>3
  <2>4. QED BY <2>2, <2>3
<1>3. LiveIsNewest'
  <2> SUFFICES ASSUME NEW p \in Obj
               PROVE  /\ scope'[p] # NoScope => scope'[p] <= level' /\ version'[scope'[p]][p] # Absent
                      /\ \A t \in Level : scope'[p] < t => version'[t][p] = Absent
    BY DEF LiveIsNewest, Alive, Level
  <2>1. CASE version[level][p] # Absent
    BY <1>1, <1>2, <2>1 DEF LiveIsNewest, RestoreChain, RestoreAt, TypeOK, Level, NoScope
  <2>2. CASE version[level][p] = Absent
    BY <1>1, <1>2, <2>2 DEF LiveIsNewest, Alive, TypeOK, Level, NoScope
  <2>3. QED BY <2>1, <2>2
<1>4. RestoreChain'
  <2> SUFFICES ASSUME NEW p \in Obj, NEW s \in Level PROVE RestoreAt(p, s)'
    BY DEF RestoreChain, Level
  <2>1. CASE s = level \/ version[s][p] = Absent
    BY <1>1, <2>1 DEF RestoreChain, RestoreAt, Level
  <2>2. CASE s # level /\ version[s][p] # Absent
    <3>1. s < level
      BY <2>2 DEF LiveIsNewest, Alive, TypeOK, Level, NoScope
    <3>2. RestoreAt(p, s)
      BY DEF RestoreChain
    <3>3. \A t \in Level : t <= s =>
            version'[t][p] = version[t][p] /\ restore'[t][p] = restore[t][p]
      BY <1>1, <3>1 DEF TypeOK, Level
    <3>4. QED
      BY <2>2, <3>2, <3>3 DEF RestoreAt, TypeOK, Level, NoScope
  <2>3. QED BY <2>1, <2>2
<1>5. \A p \in Obj, i \in Level : i < scope'[p] =>
        \A s \in Level : s <= i => version'[s][p] = version[s][p]
  <2> SUFFICES ASSUME NEW p \in Obj, NEW i \in Level, i < scope'[p],
                      NEW s \in Level, s <= i
               PROVE  version'[s][p] = version[s][p]
    OBVIOUS
  <2>1. scope'[p] < level
    BY <1>2
  <2>2. /\ scope'[p] \in Int /\ level \in Int
        /\ s \in Int /\ i \in Int
    BY DEF TypeOK, Level, NoScope
  <2>3. s # level
    BY <2>1, <2>2
  <2>4. QED BY <1>1, <2>3
<1>6. Visibility'
  BY <1>3, <1>5, SeesStep DEF Visibility, Level
<1>7. QED BY <1>3, <1>4, <1>6

(* The inductive invariant.  Visibility is what keeps "the newest version  *)
(* at or below level i" well defined without an induction over levels;     *)
(* RestoreChain is what makes the restore pointer that version.            *)
THEOREM InvariantCorrect == Spec => []IInv
<1>1. Init => IInv
  BY DEF Init, IInv, TypeOK, RestoreChain, RestoreAt, LiveIsNewest, Visibility,
         Alive, Sees, IsVisible, Level, NoScope
<1>2. IInv /\ TypeOK' /\ [Next]_vars => IInv'
  <2> SUFFICES ASSUME IInv, TypeOK', [Next]_vars PROVE IInv'
    OBVIOUS
  <2>1. ASSUME NEW o \in Obj, NEW v \in Val, Set(o, v) PROVE IInv'
    BY <2>1, SetKeeps
  <2>2. ASSUME NEW o \in Obj, NEW v \in Val, New(o, v) PROVE IInv'
    BY <2>2, NewKeeps
  <2>3. ASSUME NEW o \in Obj, NEW v \in Val, NewInCMM(o, v) PROVE IInv'
    <3>1. level \in 0 .. level
      BY DEF IInv, TypeOK, Level
    <3>2. QED
      BY <2>3, <3>1, PlaceKeeps DEF NewInCMM
  <2>4. ASSUME NEW o \in Obj, NewDefault(o) PROVE IInv'
    <3>1. 0 \in 0 .. level /\ Default \in Val
      BY DefaultAssumption DEF IInv, TypeOK, Level
    <3>2. QED
      BY <2>4, <3>1, PlaceKeeps DEF NewDefault
  <2>5. ASSUME NEW o \in Obj, Destroy(o) PROVE IInv'
    BY <2>5, DestroyKeeps
  <2>6. CASE UNCHANGED vars
    BY <2>6 DEF vars, IInv, TypeOK, RestoreChain, RestoreAt, LiveIsNewest, Alive, Visibility,
                Sees, IsVisible, Level
  <2>7. QED
    BY <2>1, <2>2, <2>3, <2>4, <2>5, <2>6, PushKeeps, PopKeeps DEF Next
<1>3. QED
  BY <1>1, <1>2, TypeCorrect, PTL DEF Spec

(* Following the restore pointers always leads from the live object        *)
(* through exactly its versions: restoreAndContinue() never meets a        *)
(* dangling or a missing saved copy.                                       *)
THEOREM RestoreChainCorrect == Spec => []RestoreChain
BY InvariantCorrect, PTL DEF IInv

(* No object is ever linked above the current level (context.cpp:232).     *)
THEOREM LiveIsNewestCorrect == Spec => []LiveIsNewest
BY InvariantCorrect, PTL DEF IInv

-------------------------------------------------------------------------------
(* The latest version at level i, given which one it is; none; unchanged.  *)
LEMMA LatestIs ==
  ASSUME NEW ver, NEW o, NEW i \in Level, NEW s \in Level, IsVisible(ver, o, i, s)
  PROVE  Latest(ver, o, i) = ver[s][o]
<1>1. \A t \in Level : IsVisible(ver, o, i, t) => t = s
  BY DEF IsVisible, Level
<1>2. (CHOOSE t \in Level : IsVisible(ver, o, i, t)) = s
  BY <1>1
<1>3. QED
  BY <1>2 DEF Latest

LEMMA LatestNone ==
  ASSUME NEW ver, NEW o, NEW i \in Level, \A s \in Level : s <= i => ver[s][o] = Absent
  PROVE  Latest(ver, o, i) = Absent
BY DEF Latest, IsVisible, Level

LEMMA LatestNewest ==
  ASSUME NEW ver, NEW o, NEW i \in Level, NEW s \in Level, s <= i,
         ver[s][o] # Absent, \A t \in Level : s < t => ver[t][o] = Absent
  PROVE  Latest(ver, o, i) = ver[s][o]
<1>1. IsVisible(ver, o, i, s)
  BY DEF IsVisible, Level
<1>2. QED
  BY <1>1, LatestIs

LEMMA LatestSame ==
  ASSUME NEW o \in Obj, NEW i \in Level, Sees(o, i),
         \A s \in Level : s <= i => version'[s][o] = version[s][o]
  PROVE  Latest(version', o, i) = Latest(version, o, i)
<1>1. CASE \A s \in Level : s <= i => version[s][o] = Absent
  BY <1>1, LatestNone
<1>2. ASSUME NEW s \in Level, IsVisible(version, o, i, s)
      PROVE  Latest(version', o, i) = Latest(version, o, i)
  <2>1. IsVisible(version', o, i, s) /\ version'[s][o] = version[s][o]
    BY <1>2 DEF IsVisible, Level
  <2>2. QED
    BY <1>2, <2>1, LatestIs
<1>3. QED
  BY <1>1, <1>2 DEF Sees

(* What the current level sees is the live object.                         *)
LEMMA CurrentIsLive ==
  ASSUME TypeOK, LiveIsNewest, NEW o \in Obj, NEW i \in Level, level <= i
  PROVE  Latest(version, o, i) = IF Alive(o) THEN version[scope[o]][o] ELSE Absent
<1>1. CASE Alive(o)
  <2>1. /\ scope[o] \in Level /\ scope[o] <= i
        /\ version[scope[o]][o] # Absent
        /\ \A t \in Level : scope[o] < t => version[t][o] = Absent
    BY <1>1 DEF Alive, LiveIsNewest, TypeOK, Level, NoScope
  <2>2. QED
    BY <1>1, <2>1, LatestNewest
<1>2. CASE ~ Alive(o)
  <2>1. \A t \in Level : version[t][o] = Absent
    BY <1>2 DEF Alive, LiveIsNewest, TypeOK, Level, NoScope
  <2>2. QED
    BY <1>2, <2>1, LatestNone
<1>3. QED BY <1>1, <1>2

(* Lazily saved versions implement full snapshots: each step of the code   *)
(* is the step of the abstract store of the same name.                     *)
THEOREM Implements == Spec => ImplementsSnapshots
<1>1. Init => Abs!Init
  <2> SUFFICES ASSUME Init PROVE Abs!Init
    OBVIOUS
  <2>1. \A o \in Obj, i \in Level : ValueAt(o, i) = Absent
    BY LatestNone DEF Init, ValueAt
  <2>2. QED
    BY <2>1 DEF Abs!Init, Init, Snapshot, Abs!Level, Level
<1>2. IInv /\ IInv' /\ [Next]_vars => [Abs!Next]_(Abs!snapVars)
  <2> SUFFICES ASSUME IInv, IInv', [Next]_vars
               PROVE  Abs!Next \/ UNCHANGED <<level, Snapshot>>
    BY DEF Abs!snapVars
  <2>A. level \in Level /\ level \in Int
    BY DEF IInv, TypeOK, Level
  <2>B. ASSUME NEW o \in Obj
        PROVE  /\ Snapshot[level][o] # Absent <=> Alive(o)
               /\ Abs!Exists(o) <=> Alive(o)
    BY <2>A, CurrentIsLive DEF Snapshot, ValueAt, Abs!Exists, IInv, LiveIsNewest
  <2>1. ASSUME NEW o \in Obj, NEW v \in Val, Set(o, v)
        PROVE  Abs!Write(o, v)
    <3>1. /\ level' = level /\ Alive(o) /\ scope[o] <= level
          /\ \A s \in Level, p \in Obj :
               version'[s][p] = IF s = level /\ p = o THEN v ELSE version[s][p]
          /\ scope'[o] = level
      BY <2>1 DEF Set, IInv, TypeOK, LiveIsNewest
    <3>2. ASSUME NEW p \in Obj, NEW i \in Level
          PROVE  ValueAt(p, i)' = IF p = o /\ i = level THEN v ELSE ValueAt(p, i)
      <4>1. CASE p = o /\ i = level
        <5>1. /\ version'[level][o] = v /\ v # Absent
              /\ \A t \in Level : level < t => version'[t][o] = Absent
          BY <3>1, <2>A DEF IInv, LiveIsNewest, TypeOK, Level, NoScope
        <5>2. Latest(version', o, level) = v
          BY <2>A, <5>1, LatestNewest
        <5>3. QED
          BY <2>A, <3>1, <4>1, <5>2 DEF ValueAt
      <4>2. CASE ~ (p = o /\ i = level) /\ i <= level
        <5>1. \A s \in Level : s <= i => version'[s][p] = version[s][p]
          BY <3>1, <4>2, <2>A DEF Level
        <5>2. QED
          BY <3>1, <4>2, <5>1, LatestSame DEF ValueAt, IInv, Visibility
      <4>3. CASE ~ (i <= level)
        BY <3>1, <4>3, <2>A DEF ValueAt
      <4>4. QED BY <4>1, <4>2, <4>3
    <3>3. QED
      <4>1. ASSUME NEW p \in Obj, NEW i \in Level
            PROVE  ValueAt(p, i)' = IF p = o THEN IF i = level THEN v ELSE Snapshot[i][o]
                                    ELSE Snapshot[i][p]
        BY <3>2, <2>A DEF Snapshot
      <4>2. QED
        BY <2>A, <2>B, <3>1, <4>1 DEF Abs!Write, Abs!SetObj, Snapshot, Abs!Level, Level
  <2>2. ASSUME NEW o \in Obj, NEW s0 \in Level, s0 <= level, NEW v \in Val,
               ~ Alive(o), level' = level, scope'[o] = s0,
               \A s \in Level, p \in Obj :
                 version'[s][p] = IF p # o THEN version[s][p]
                                  ELSE IF s = s0 THEN v ELSE version'[s][o]
        PROVE  /\ \A p \in Obj, i \in Level : p # o => ValueAt(p, i)' = ValueAt(p, i)
               /\ ValueAt(o, level)' = v
               /\ \A i \in Level : ~ (i <= level) => ValueAt(o, i)' = Absent
    <3>1. ASSUME NEW p \in Obj, NEW i \in Level, p # o
          PROVE  ValueAt(p, i)' = ValueAt(p, i)
      <4>1. Sees(p, i) /\ \A s \in Level : s <= i => version'[s][p] = version[s][p]
        BY <2>2, <3>1 DEF IInv, Visibility
      <4>2. QED
        BY <2>2, <4>1, LatestSame DEF ValueAt
    <3>2. ValueAt(o, level)' = v
      <4>1. /\ version'[s0][o] = v /\ v # Absent
            /\ \A t \in Level : s0 < t => version'[t][o] = Absent
        BY <2>2 DEF IInv, LiveIsNewest
      <4>2. Latest(version', o, level) = v
        BY <2>2, <2>A, <4>1, LatestNewest
      <4>3. QED
        BY <2>2, <2>A, <4>2 DEF ValueAt
    <3>3. \A i \in Level : ~ (i <= level) => ValueAt(o, i)' = Absent
      BY <2>2 DEF ValueAt
    <3>4. QED BY <3>1, <3>2, <3>3
  <2>3. ASSUME NEW o \in Obj, ~ Alive(o)
        PROVE  \A s \in Level : version[s][o] = Absent
    BY <2>3 DEF IInv, LiveIsNewest, Alive, TypeOK, Level, NoScope
  <2>4. ASSUME NEW o \in Obj, NEW v \in Val, New(o, v)
        PROVE  Abs!Create(o, v)
    <3>1. /\ ~ Alive(o) /\ level' = level /\ scope'[o] = level
          /\ \A s \in Level, p \in Obj :
               version'[s][p] = IF p # o THEN version[s][p]
                                ELSE IF s = level THEN v
                                ELSE IF s = 0 THEN Default ELSE Absent
      BY <2>4 DEF New, IInv, TypeOK
    <3>2. /\ \A p \in Obj, i \in Level : p # o => ValueAt(p, i)' = ValueAt(p, i)
          /\ ValueAt(o, level)' = v
          /\ \A i \in Level : ~ (i <= level) => ValueAt(o, i)' = Absent
      <4>1. \A s \in Level, p \in Obj :
              version'[s][p] = IF p # o THEN version[s][p]
                               ELSE IF s = level THEN v ELSE version'[s][o]
        BY <3>1
      <4>2. QED
        BY <2>2, <2>A, <3>1, <4>1
    <3>3. ASSUME NEW i \in Level, i < level
          PROVE  ValueAt(o, i)' = Default
      <4>1. /\ IsVisible(version', o, i, 0) /\ version'[0][o] = Default
            /\ 0 \in Level
        BY <3>1, <3>3, <2>A DEF IsVisible, Level
      <4>2. i <= level'
        BY <3>1, <3>3, <2>A DEF Level
      <4>3. QED
        BY <4>1, <4>2, LatestIs DEF ValueAt
    <3>4. \A i \in Level : i = level \/ i < level \/ ~ (i <= level)
      BY <2>A DEF Level
    <3>5. \A i \in Level : i < level => i # level /\ i <= level
      BY <2>A DEF Level
    <3>6. QED
      BY <2>A, <2>B, <3>1, <3>2, <3>3, <3>4, <3>5
         DEF Abs!Create, Abs!SetObj, Snapshot, Abs!Level, Level
  <2>5. ASSUME NEW o \in Obj, NEW v \in Val, NewInCMM(o, v)
        PROVE  Abs!CreateInCMM(o, v)
    <3>1. /\ ~ Alive(o) /\ level' = level /\ scope'[o] = level
          /\ \A s \in Level, p \in Obj :
               version'[s][p] = IF s = level /\ p = o THEN v ELSE version[s][p]
      BY <2>5 DEF NewInCMM, IInv, TypeOK
    <3>2. /\ \A p \in Obj, i \in Level : p # o => ValueAt(p, i)' = ValueAt(p, i)
          /\ ValueAt(o, level)' = v
          /\ \A i \in Level : ~ (i <= level) => ValueAt(o, i)' = Absent
      <4>1. \A s \in Level, p \in Obj :
              version'[s][p] = IF p # o THEN version[s][p]
                               ELSE IF s = level THEN v ELSE version'[s][o]
        BY <3>1
      <4>2. QED
        BY <2>2, <2>A, <3>1, <4>1
    <3>3. ASSUME NEW i \in Level, i < level
          PROVE  ValueAt(o, i)' = ValueAt(o, i)
      <4>1. \A s \in Level : s <= i => version'[s][o] = version[s][o]
        BY <3>1, <3>3, <2>A DEF Level
      <4>2. Sees(o, i) /\ i <= level /\ i <= level'
        BY <3>1, <3>3, <2>A DEF IInv, Visibility, Level
      <4>3. QED
        BY <4>1, <4>2, LatestSame DEF ValueAt
    <3>4. ASSUME NEW i \in Level, ~ (i <= level)
          PROVE  ValueAt(o, i)' = ValueAt(o, i)
      BY <3>2, <3>4 DEF ValueAt
    <3>5. \A i \in Level : i = level \/ i < level \/ ~ (i <= level)
      BY <2>A DEF Level
    <3>6. QED
      BY <2>A, <2>B, <3>1, <3>2, <3>3, <3>4, <3>5
         DEF Abs!CreateInCMM, Abs!SetObj, Snapshot, Abs!Level, Level
  <2>6. ASSUME NEW o \in Obj, NewDefault(o)
        PROVE  Abs!Create(o, Default)
    <3>1. /\ ~ Alive(o) /\ level' = level /\ scope'[o] = 0 /\ 0 \in Level
          /\ \A s \in Level, p \in Obj :
               version'[s][p] = IF s = 0 /\ p = o THEN Default ELSE version[s][p]
      BY <2>6 DEF NewDefault, IInv, TypeOK, Level
    <3>2. /\ \A p \in Obj, i \in Level : p # o => ValueAt(p, i)' = ValueAt(p, i)
          /\ ValueAt(o, level)' = Default
          /\ \A i \in Level : ~ (i <= level) => ValueAt(o, i)' = Absent
      <4>1. \A s \in Level, p \in Obj :
              version'[s][p] = IF p # o THEN version[s][p]
                               ELSE IF s = 0 THEN Default ELSE version'[s][o]
        BY <3>1
      <4>2. 0 <= level
        BY <2>A DEF Level
      <4>3. QED
        BY <2>2, <3>1, <4>1, <4>2
    <3>3. ASSUME NEW i \in Level, i < level
          PROVE  ValueAt(o, i)' = Default
      <4>1. \A s \in Level : version[s][o] = Absent
        BY <2>3, <3>1
      <4>2. IsVisible(version', o, i, 0) /\ version'[0][o] = Default
        BY <3>1, <4>1 DEF IsVisible, Level
      <4>3. i <= level'
        BY <3>1, <3>3, <2>A DEF Level
      <4>4. QED
        BY <3>1, <4>2, <4>3, LatestIs DEF ValueAt
    <3>4. \A i \in Level : i = level \/ i < level \/ ~ (i <= level)
      BY <2>A DEF Level
    <3>5. \A i \in Level : i < level => i # level /\ i <= level
      BY <2>A DEF Level
    <3>6. QED
      BY <2>A, <2>B, <3>1, <3>2, <3>3, <3>4, <3>5
         DEF Abs!Create, Abs!SetObj, Snapshot, Abs!Level, Level
  <2>7. ASSUME NEW o \in Obj, Destroy(o)
        PROVE  Abs!Destroy(o)
    <3>1. /\ Alive(o) /\ level' = level
          /\ \A s \in Level, p \in Obj :
               version'[s][p] = IF p = o THEN Absent ELSE version[s][p]
      BY <2>7 DEF Destroy, IInv, TypeOK
    <3>2. ASSUME NEW p \in Obj, NEW i \in Level
          PROVE  ValueAt(p, i)' = IF p = o THEN Absent ELSE ValueAt(p, i)
      <4>1. CASE p = o
        BY <3>1, <4>1, LatestNone DEF ValueAt
      <4>2. CASE p # o
        <5>1. Sees(p, i) /\ \A s \in Level : s <= i => version'[s][p] = version[s][p]
          BY <3>1, <4>2 DEF IInv, Visibility
        <5>2. QED
          BY <3>1, <4>2, <5>1, LatestSame DEF ValueAt
      <4>3. QED BY <4>1, <4>2
    <3>3. QED
      BY <2>B, <3>1, <3>2 DEF Abs!Destroy, Abs!SetObj, Snapshot, Abs!Level, Level
  <2>8. CASE Push
    <3>1. /\ level < MaxLevel /\ level' = level + 1
          /\ version' = version /\ level + 1 \in Level
      BY <2>8, <2>A DEF Push, Level
    <3>2. ASSUME NEW p \in Obj, NEW i \in Level
          PROVE  ValueAt(p, i)' = IF i = level + 1 THEN ValueAt(p, level)
                                  ELSE ValueAt(p, i)
      <4>1. CASE i = level + 1
        <5>1. level <= level /\ level <= i /\ i <= level'
          BY <2>A, <3>1, <4>1
        <5>2. Latest(version, p, i) = Latest(version, p, level)
          BY <2>A, <5>1, CurrentIsLive DEF IInv
        <5>3. QED
          BY <3>1, <4>1, <5>1, <5>2 DEF ValueAt
      <4>2. CASE i # level + 1
        <5>1. i <= level' <=> i <= level
          BY <2>A, <3>1, <4>2 DEF Level
        <5>2. QED
          BY <3>1, <4>2, <5>1 DEF ValueAt
      <4>3. QED BY <4>1, <4>2
    <3>3. Abs!Push
      BY <2>A, <3>1, <3>2 DEF Abs!Push, Snapshot, Abs!Level, Level
    <3>4. QED BY <3>3 DEF Abs!Next
  <2>9. CASE Pop
    <3>1. /\ level > 0 /\ level' = level - 1
          /\ \A s \in Level, p \in Obj :
               version'[s][p] = IF s = level THEN Absent ELSE version[s][p]
      BY <2>9 DEF Pop, IInv, TypeOK
    <3>2. ASSUME NEW p \in Obj, NEW i \in Level
          PROVE  ValueAt(p, i)' = IF i = level THEN Absent ELSE ValueAt(p, i)
      <4>1. CASE i < level
        <5>1. /\ i # level /\ i <= level /\ i <= level'
              /\ \A s \in Level : s <= i => s # level
          BY <2>A, <3>1, <4>1 DEF Level
        <5>2. Sees(p, i) /\ \A s \in Level : s <= i => version'[s][p] = version[s][p]
          BY <3>1, <5>1 DEF IInv, Visibility
        <5>3. QED
          BY <5>1, <5>2, LatestSame DEF ValueAt
      <4>2. CASE ~ (i < level)
        <5>1. ~ (i <= level') /\ (i # level => ~ (i <= level))
          BY <2>A, <3>1, <4>2 DEF Level
        <5>2. QED
          BY <5>1 DEF ValueAt
      <4>3. QED BY <4>1, <4>2
    <3>3. Abs!Pop
      BY <2>A, <3>1, <3>2 DEF Abs!Pop, Snapshot, Abs!Level, Level
    <3>4. QED BY <3>3 DEF Abs!Next
  <2>10. CASE UNCHANGED vars
    BY <2>10 DEF vars, Snapshot, ValueAt, Latest, IsVisible
  <2>11. QED
    BY <2>1, <2>4, <2>5, <2>6, <2>7, <2>8, <2>9, <2>10, DefaultAssumption
       DEF Next, Abs!Next
<1>3. QED
  BY <1>1, <1>2, InvariantCorrect, PTL DEF Spec, ImplementsSnapshots, Abs!Spec
===============================================================================
