------------------------------ MODULE CDHashMap -------------------------------
(***************************************************************************)
(* CDHashMap (src/context/cdhashmap.h).  Every entry is a ContextObj of    *)
(* its own, the CDOhash_map: an entry is saved and restored like any other *)
(* object (ContextScopes), and it is the entry's restore() that takes it   *)
(* out of the map when its context goes back to before the insertion.      *)
(* Entries are threaded on a ring in the order of insertion, and are       *)
(* deleted from a trash list once the scope has been popped.               *)
(***************************************************************************)
EXTENDS Integers, Sequences, FiniteSets, SequencesExt

CONSTANTS Key, Data, NoData, Null, Absent, MaxLevel

VARIABLES
  level, version, scope, restore,  \* the entries as ContextObjs
  table,      \* the keys in d_map
  ring,       \* d_first, and d_next and d_prev of each entry
  garbage,    \* d_garbage of the popped scope: entries to delete
  before      \* history: <<j, k>> when j and k are in d_map and j was inserted
              \* before k

vars == <<level, version, scope, restore, table, ring, garbage, before>>
contextVars == <<level, version, scope, restore>>

(* What an entry saves and restores: its data, and whether its d_map       *)
(* points to the map.                                                      *)
Entry == [data : Data \cup {NoData}, map : BOOLEAN]
In(d) == [data |-> d, map |-> TRUE]
NotIn == [data |-> NoData, map |-> FALSE]

C == INSTANCE ContextScopes WITH Obj <- Key, Val <- Entry, Default <- NotIn

Ring == [first : Key \cup {Null}, next : [Key -> Key \cup {Null}],
         prev : [Key -> Key \cup {Null}]]

TypeOK ==
  /\ C!TypeOK
  /\ table \subseteq Key
  /\ ring \in Ring
  /\ garbage \subseteq Key
  /\ before \subseteq table \X table

EmptyRing == [first |-> Null, next |-> [k \in Key |-> Null],
              prev |-> [k \in Key |-> Null]]

Init ==
  /\ C!Init
  /\ table = {}
  /\ ring = EmptyRing
  /\ garbage = {}
  /\ before = {}

-------------------------------------------------------------------------------
(* The constructor puts the entry at the end of the ring.                  *)
Linked(r, k) ==
  IF r.first = Null
    THEN [first |-> k, next |-> [r.next EXCEPT ![k] = k],
          prev |-> [r.prev EXCEPT ![k] = k]]
    ELSE LET last == r.prev[r.first] IN
         [first |-> r.first,
          next |-> [r.next EXCEPT ![k] = r.first, ![last] = k],
          prev |-> [r.prev EXCEPT ![k] = last, ![r.first] = k]]

(* restore() takes it out again; UnlinkedNotFirst does not move d_first.   *)
UnlinkedNotFirst(r, k) ==
  [first |-> r.first,
   next |-> [r.next EXCEPT ![r.prev[k]] = r.next[k], ![k] = Null],
   prev |-> [r.prev EXCEPT ![r.next[k]] = r.prev[k], ![k] = Null]]

Unlinked(r, k) ==
  [first |-> IF r.first # k THEN r.first
             ELSE IF r.next[k] = k THEN Null ELSE r.next[k],
   next |-> [r.next EXCEPT ![r.prev[k]] = r.next[k], ![k] = Null],
   prev |-> [r.prev EXCEPT ![r.next[k]] = r.prev[k], ![k] = Null]]

(* The restores of a pop, one after the other.                             *)
UnlinkedAll(r, order) ==
  LET after[i \in 0 .. Len(order)] ==
        IF i = 0 THEN r ELSE Unlinked(after[i - 1], order[i])
  IN after[Len(order)]

Idle == garbage = {}

(* insert(), operator[] and the constructor of an entry: makeCurrent()     *)
(* saves it while d_map is still null, then d_map is set.  InsertMapFirst  *)
(* sets it before ("Order is important", cdhashmap.h:205).                 *)
InsertMapFirst(k, d) ==
  /\ Idle /\ k \notin table
  /\ version' = [version EXCEPT ![0][k] = In(d), ![level][k] = In(d)]
  /\ scope' = [scope EXCEPT ![k] = level]
  /\ restore' = IF level = 0 THEN restore ELSE [restore EXCEPT ![level][k] = 0]
  /\ level' = level
  /\ table' = table \cup {k}
  /\ ring' = Linked(ring, k)
  /\ before' = before \cup (table \X {k})
  /\ UNCHANGED garbage

InsertNew(k, d) ==
  /\ Idle /\ k \notin table
  /\ C!New(k, In(d))
  /\ table' = table \cup {k}
  /\ ring' = Linked(ring, k)
  /\ before' = before \cup (table \X {k})
  /\ UNCHANGED garbage

(* insert() of a key in the map, and Element::set().                       *)
Overwrite(k, d) ==
  /\ Idle /\ k \in table
  /\ C!Set(k, In(d))
  /\ UNCHANGED <<table, ring, garbage, before>>

(* insertAtContextLevelZero(): the entry stays in the bottom scope, where  *)
(* it is written without makeCurrent().                                    *)
InsertAtContextLevelZero(k, d) ==
  /\ Idle /\ k \notin table
  /\ version' = [version EXCEPT ![0][k] = In(d)]
  /\ scope' = [scope EXCEPT ![k] = 0]
  /\ table' = table \cup {k}
  /\ ring' = Linked(ring, k)
  /\ before' = before \cup (table \X {k})
  /\ UNCHANGED <<level, restore, garbage>>

(* clear(): with d_map reset first, deleting an entry undoes its versions  *)
(* without touching the map.                                               *)
Clear ==
  /\ Idle
  /\ version' = [s \in C!Level |-> [k \in Key |-> Absent]]
  /\ restore' = [s \in C!Level |-> [k \in Key |-> C!NoScope]]
  /\ scope' = [k \in Key |-> C!NoScope]
  /\ table' = {} /\ ring' = EmptyRing /\ before' = {}
  /\ UNCHANGED <<level, garbage>>

Push == Idle /\ C!Push /\ UNCHANGED <<table, ring, garbage, before>>

(* The entries whose saved copy has a null d_map: CDOhash_map::restore()   *)
(* erases them.                                                            *)
Removed ==
  {k \in C!ChainOf(level) :
     /\ restore[level][k] # C!NoScope
     /\ ~ version[restore[level][k]][k].map}

(* Context::pop() up to the end of ~Scope()'s first loop.  The order is    *)
(* that of the scope's chain.  (PopTooFar pops the bottom scope.)          *)
PopTooFar ==
  /\ Idle /\ level' = level - 1
  /\ UNCHANGED <<version, scope, restore, table, ring, garbage, before>>

PopScope ==
  /\ Idle
  /\ C!Pop
  /\ \E order \in SetToSeqs(Removed) : ring' = UnlinkedAll(ring, order)
  /\ table' = table \ Removed
  /\ before' = before \cap (table' \X table')
  /\ garbage' = Removed

(* deleteSelf() on one entry of the trash list: its destructor calls       *)
(* destroy().                                                              *)
Collect(k) ==
  /\ k \in garbage
  /\ C!Destroy(k)
  /\ garbage' = garbage \ {k}
  /\ UNCHANGED <<table, ring, before>>

Next ==
  \/ \E k \in Key, d \in Data :
       InsertNew(k, d) \/ Overwrite(k, d) \/ InsertAtContextLevelZero(k, d)
  \/ Clear
  \/ Push
  \/ PopScope
  \/ \E k \in Key : Collect(k)

Spec == Init /\ [][Next]_vars

-------------------------------------------------------------------------------
(* Iteration visits the entries of the map, each once, in the order they   *)
(* were inserted, whatever was popped in between.                          *)
RingIsInsertionOrder ==
  /\ IF table = {} THEN ring.first = Null
     ELSE ring.first \in table /\ \A k \in table \ {ring.first} : <<ring.first, k>> \in before
  /\ \A k \in table :
       LET n == ring.next[k] IN
       /\ n \in table /\ ring.prev[n] = k
       /\ IF n = ring.first THEN \A j \in table \ {k} : <<j, k>> \in before
          ELSE /\ <<k, n>> \in before
               /\ \A j \in table : <<k, j>> \in before => <<j, n>> \notin before

(* An entry is alive exactly as long as it is in the map or in the trash;  *)
(* an entry in the trash is back at its construction, so that its          *)
(* destructor does not restore it, and erase it, a second time             *)
(* (cdhashmap.h:145).                                                      *)
NoEntryIsLost ==
  /\ {k \in Key : C!Alive(k)} = table \cup garbage
  /\ table \cap garbage = {}
  /\ \A k \in garbage : scope[k] = 0 /\ restore[0][k] = C!NoScope

(* The entries at level i: those whose version there is in the map.        *)
EntriesAt(i) ==
  {<<k, C!ValueAt(k, i).data>> :
     k \in {p \in Key : C!ValueAt(p, i) # Absent /\ C!ValueAt(p, i).map}}

Abs == INSTANCE BacktrackableMap WITH snap <- [i \in C!Level |-> EntriesAt(i)]

(* The map behaves as if it were copied at each push: whatever is          *)
(* inserted, overwritten, inserted at level zero, cleared and popped, each *)
(* level finds its own entries again.                                      *)
ImplementsMap == Abs!Spec

(* An insertion counts for the current level and the ones above it, an     *)
(* insertion at level zero for all: the one is undone by a pop, the other  *)
(* is not.                                                                 *)
InsertionsCorrespond ==
  [][\A k \in Key, d \in Data :
       /\ InsertNew(k, d) => Abs!Insert(k, d)
       /\ Overwrite(k, d) => Abs!Insert(k, d)
       /\ InsertAtContextLevelZero(k, d) => Abs!InsertAtContextLevelZero(k, d)]_vars

(* The hash table itself has the entries of the current level, even while  *)
(* the trash is being collected: a lookup never meets an entry whose       *)
(* insertion was popped.                                                   *)
TableIsCurrent == {e[1] : e \in EntriesAt(level)} = table
===============================================================================
