--------------------------- MODULE CDInsertHashMap ----------------------------
(***************************************************************************)
(* CDInsertHashMap (src/context/cdinsert_hashmap.h): an insert-only map    *)
(* that saves two numbers instead of a copy.  Keys are kept in a deque:    *)
(* ordinary insertions go to the back and are popped from it; insertions   *)
(* "at context level zero" go to the front, out of reach of every pop,     *)
(* and restore() has to count them to know how far to pop.                 *)
(***************************************************************************)
EXTENDS Integers, Sequences, SequencesExt

CONSTANTS Key, Data, MaxLevel

VARIABLES
  level,       \* Context::getLevel()
  scope,       \* the level of d_pScope
  keys,        \* d_keys, with the data of d_hashMap
  size,        \* d_size
  pushFronts,  \* d_pushFronts
  saved        \* the saved copies along d_pContextObjRestore, oldest first

vars == <<level, scope, keys, size, pushFronts, saved>>

Level == 0 .. MaxLevel

TypeOK ==
  /\ level \in Level /\ scope \in 0 .. level
  /\ keys \in Seq(Key \X Data)
  /\ size \in Nat /\ pushFronts \in Nat
  /\ saved \in Seq([scope : Level, size : Nat, pushFronts : Nat])

Init ==
  /\ level = 0 /\ scope = 0
  /\ keys = <<>> /\ size = 0 /\ pushFronts = 0
  /\ saved = <<>>

Mapped(k) == \E i \in DOMAIN keys : keys[i][1] = k

(* makeCurrent(): save() copies d_size and d_pushFronts.                   *)
MakeCurrent ==
  /\ scope' = level
  /\ saved' = IF scope = level THEN saved
              ELSE Append(saved, [scope |-> scope, size |-> size,
                                  pushFronts |-> pushFronts])

(* insert(), whose callers know that k is not in the map (push_back()      *)
(* asserts it), and insert_safe().                                         *)
Insert(k, d) ==
  /\ ~ Mapped(k)
  /\ MakeCurrent
  /\ size' = size + 1
  /\ keys' = Append(keys, <<k, d>>)
  /\ UNCHANGED <<level, pushFronts>>

(* insertAtContextLevelZero(): the key goes to the front of the list.      *)
InsertAtContextLevelZero(k, d) ==
  /\ ~ Mapped(k)
  /\ MakeCurrent
  /\ size' = size + 1
  /\ pushFronts' = pushFronts + 1
  /\ keys' = <<<<k, d>>>> \o keys
  /\ UNCHANGED level

Push ==
  /\ level < MaxLevel
  /\ level' = level + 1
  /\ UNCHANGED <<scope, keys, size, pushFronts, saved>>

(* What is left of the map when the copy e is restored: its keys, and  *)
(* those inserted at level zero since.                                     *)
RestoreSize(e) == e.size + (pushFronts - e.pushFronts)

(* Context::pop(); if the map was changed in the popped scope, restore():  *)
(* d_pushFronts keeps its value.                                           *)
Pop ==
  /\ level > 0
  /\ level' = level - 1
  /\ IF scope < level
       THEN UNCHANGED <<scope, keys, size, pushFronts, saved>>
       ELSE LET e == Last(saved) IN
            /\ keys' = SubSeq(keys, 1, RestoreSize(e))
            /\ size' = RestoreSize(e)
            /\ scope' = e.scope
            /\ saved' = Front(saved)
            /\ UNCHANGED pushFronts

Next ==
  \/ \E k \in Key, d \in Data : Insert(k, d) \/ InsertAtContextLevelZero(k, d)
  \/ Push
  \/ Pop

Spec == Init /\ [][Next]_vars

-------------------------------------------------------------------------------
(* The assertions of restore(): the counters only grow from one saved copy *)
(* to the next and to the map, which always has d_size keys; so that no    *)
(* restore asks for more keys than there are.                              *)
CountersAgree ==
  /\ Len(keys) = size
  /\ pushFronts <= size
  /\ \A i \in DOMAIN saved :
       LET next == IF i = Len(saved)
                     THEN [scope |-> scope, size |-> size, pushFronts |-> pushFronts]
                     ELSE saved[i + 1]
       IN /\ saved[i].scope < next.scope
          /\ saved[i].pushFronts <= next.pushFronts
          /\ saved[i].size - saved[i].pushFronts <= next.size - next.pushFronts

(* The map at level i: the current one down to the scope of the object, or *)
(* what the first pop below it will restore.                               *)
SizeAt(i) ==
  IF scope <= i THEN size
  ELSE RestoreSize(saved[SelectLastInSeq(saved, LAMBDA e : e.scope <= i)])

EntriesAt(i) == IF i > level THEN {} ELSE {keys[j] : j \in 1 .. SizeAt(i)}

Abs == INSTANCE BacktrackableMap WITH snap <- [i \in Level |-> EntriesAt(i)]

(* The map behaves as if it were copied at each push.                      *)
ImplementsMap == Abs!Spec

(* An insertion counts for the current level and the ones above it, an     *)
(* insertion at level zero for all.                                        *)
InsertionsCorrespond ==
  [][\A k \in Key, d \in Data :
       /\ Insert(k, d) => Abs!Insert(k, d)
       /\ InsertAtContextLevelZero(k, d) => Abs!InsertAtContextLevelZero(k, d)]_vars
===============================================================================
