--------------------------- MODULE BacktrackableMap ---------------------------
(***************************************************************************)
(* What the context-dependent maps of src/context promise: push() takes a  *)
(* copy of the map, pop() goes back to it; an entry inserted "at context   *)
(* level zero" belongs to every copy taken so far.                         *)
(***************************************************************************)
EXTENDS Integers

CONSTANTS Key, Data, MaxLevel

VARIABLES
  level,  \* the number of pushes not yet popped
  snap    \* snap[i]: the entries <<key, data>> of the map at level i

mapVars == <<level, snap>>

Level == 0 .. MaxLevel

Init == level = 0 /\ snap = [i \in Level |-> {}]

Contains(k) == \E d \in Data : <<k, d>> \in snap[level]

(* Insert k, or give it new data, at the current level.                    *)
Insert(k, d) ==
  /\ snap' = [snap EXCEPT ![level] = {e \in @ : e[1] # k} \cup {<<k, d>>}]
  /\ UNCHANGED level

InsertAtContextLevelZero(k, d) ==
  /\ ~ Contains(k)
  /\ snap' = [i \in Level |-> IF i <= level THEN snap[i] \cup {<<k, d>>} ELSE {}]
  /\ UNCHANGED level

Clear == snap' = [i \in Level |-> {}] /\ UNCHANGED level

Push ==
  /\ level < MaxLevel
  /\ level' = level + 1
  /\ snap' = [snap EXCEPT ![level + 1] = snap[level]]

Pop ==
  /\ level > 0
  /\ level' = level - 1
  /\ snap' = [snap EXCEPT ![level] = {}]

Next ==
  \/ \E k \in Key, d \in Data : Insert(k, d) \/ InsertAtContextLevelZero(k, d)
  \/ Clear
  \/ Push
  \/ Pop

Spec == Init /\ [][Next]_mapVars
===============================================================================
