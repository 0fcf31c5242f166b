----------------------------- MODULE MCContainers ------------------------------
(* Model checking of the containers of src/context, of its region memory, and *)
(* of the trie of instantiations, whose flags are objects of src/context.     *)
(* They never share state, so one behaviour exercises one of them: the first  *)
(* state picks it, and the others stay as constructed.  The queue is the      *)
(* module extended, the others are instances.  Memory comes in chunks of      *)
(* three units, for requests of up to three, and at most one unused chunk is  *)
(* kept.  The tuples of the trie have Arity values, two in the .cfg.           *)
EXTENDS CDQueue, TLC

CONSTANTS Key, NoData, Null, Absent, MaxMapLevel,
          Chunk, ChunkSize, MaxFreeChunks, MaxDepth, MaxData, Arity

VARIABLES
  container,
  mapLevel, version, mapScope, restore, table, ring, garbage, before,
  insertLevel, insertScope, keys, size, pushFronts, sizes,
  chunkList, freeChunks, nextFree, indexChunkList, positions, data,
  trieLevel, validFrom

Map == INSTANCE CDHashMap WITH
  Data <- Val, level <- mapLevel, scope <- mapScope, MaxLevel <- MaxMapLevel
InsertMap == INSTANCE CDInsertHashMap WITH
  Data <- Val, level <- insertLevel, scope <- insertScope, saved <- sizes
Memory == INSTANCE ContextMemory WITH saved <- positions
Trie == INSTANCE CDInstMatchTrie WITH
  Term <- Val, level <- trieLevel, MaxLevel <- MaxMapLevel

ASSUME ContainersAssumption ==
  /\ ChunkSize \in Nat \ {0}
  /\ {MaxMapLevel, MaxFreeChunks, MaxDepth, MaxData, Arity} \subseteq Nat
  /\ Null \notin Key /\ Absent \notin Map!Entry

mapVars == <<mapLevel, version, mapScope, restore, table, ring, garbage, before>>
insertVars == <<insertLevel, insertScope, keys, size, pushFronts, sizes>>
memoryVars == <<chunkList, freeChunks, nextFree, indexChunkList, positions, data>>
trieVars == <<trieLevel, validFrom>>

MCInit ==
  /\ container \in {"CDHashMap", "CDInsertHashMap", "CDQueue", "ContextMemoryManager",
                   "CDInstMatchTrie"}
  /\ Map!Init
  /\ InsertMap!Init
  /\ Memory!Init
  /\ Trie!Init
  /\ Init

MCNext ==
  /\ UNCHANGED container
  /\ \/ /\ container = "CDHashMap" /\ Map!Next
        /\ UNCHANGED <<insertVars, vars, memoryVars, trieVars>>
     \/ /\ container = "CDInsertHashMap" /\ InsertMap!Next
        /\ UNCHANGED <<mapVars, vars, memoryVars, trieVars>>
     \/ /\ container = "CDQueue" /\ Next
        /\ UNCHANGED <<mapVars, insertVars, memoryVars, trieVars>>
     \/ /\ container = "ContextMemoryManager" /\ Memory!Next
        /\ UNCHANGED <<mapVars, insertVars, vars, trieVars>>
     \/ /\ container = "CDInstMatchTrie" /\ Trie!Next
        /\ UNCHANGED <<mapVars, insertVars, vars, memoryVars>>

MCSpec ==
  MCInit /\ [][MCNext]_<<container, mapVars, insertVars, vars, memoryVars, trieVars>>

Symmetry == Permutations(Key) \cup Permutations(Val) \cup Permutations(Chunk)

-------------------------------------------------------------------------------
(* The properties, each stated and explained in the module of its container.  *)

\* The variables of every container keep their types.
TypesOK == TypeOK /\ Map!TypeOK /\ InsertMap!TypeOK /\ Memory!TypeOK /\ Trie!TypeOK

\* CDHashMap: its ring is the order of insertion, an entry is alive as long as
\* it is in the map or in the trash, and the table holds the entries of the
\* current level, also while a pop leaves trash behind.  CDInsertHashMap: its two
\* counters, saved at different moments, agree with its keys at every level.
\* CDInstMatchTrie: no tuple outlives a node on its path.
MapHoldsItsEntries ==
  /\ Map!RingIsInsertionOrder /\ Map!NoEntryIsLost /\ Map!TableIsCurrent
  /\ InsertMap!CountersAgree
  /\ Trie!ParentsOutlive

\* ContextMemoryManager: live blocks lie apart in chunks that are in use, a
\* chunk is in one list, and no saved position lets a block be handed out again.
BlocksStayApart ==
  Memory!BlocksAreDisjoint /\ Memory!ChunksAreDistinct /\ Memory!PositionsAreOrdered

\* Each map, and the trie as a set of tuples, is the abstract one, taken back to
\* its earlier content by a pop; and an insertion into it is an insertion into the
\* abstract map.
ImplementsMap ==
  /\ Map!ImplementsMap /\ InsertMap!ImplementsMap /\ Trie!ImplementsMap
  /\ Map!InsertionsCorrespond /\ InsertMap!InsertionsCorrespond
  /\ Trie!AdditionsCorrespond
===============================================================================
