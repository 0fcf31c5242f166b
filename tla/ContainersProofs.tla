--------------------------- MODULE ContainersProofs ---------------------------
(***************************************************************************)
(* The containers of src/context, its region memory and the trie of        *)
(* instantiations keep what their model promises, for every set of keys,   *)
(* values and chunks, every size of a chunk and every bound on levels and  *)
(* lengths.  The proofs of CDInsertHashMap are in a module of their own,   *)
(* as are those about the objects of the context, which the entries of a   *)
(* CDHashMap are.                                                          *)
(***************************************************************************)
EXTENDS MCContainers, SequenceTheorems, FiniteSetTheorems, WellFoundedInduction, TLAPS

LEMMA BoundsOfContainers ==
  ChunkSize \in Nat \ {0} /\ MaxFreeChunks \in Nat /\ MaxDepth \in Nat
BY ContainersAssumption
-----------------------------------------------------------------------------
(* ContextMemoryManager.                                                     *)

Position == [next : Memory!Pointer, index : Nat]
(* Where the next block goes.                                                *)
Here == [next |-> nextFree, index |-> indexChunkList]

(* Block b lies before position e, in the chunks cl.                         *)
Behind(b, e, cl) ==
  \/ \E i \in 1 .. e.index : cl[i] = b.chunk
  \/ b.chunk = e.next[1] /\ b.first + b.size <= e.next[2]

(* Position e is in its chunk, and the blocks of the levels below k lie      *)
(* before it.                                                                *)
Bounds(e, k, cl, d) ==
  /\ e.next[1] = cl[e.index + 1]
  /\ \A b \in d : b.level < k => Behind(b, e, cl)

(* Block b lies within its chunk.                                            *)
Fits(b) == b.first + b.size <= ChunkSize

(* No chunk is twice in the chunks cl, in the free chunks fl, or in both.    *)
Distinct(cl, fl) ==
  /\ \A i, j \in 1 .. Len(cl) : cl[i] = cl[j] => i = j
  /\ \A i, j \in 1 .. Len(fl) : fl[i] = fl[j] => i = j
  /\ \A i \in 1 .. Len(cl), j \in 1 .. Len(fl) : cl[i] # fl[j]

(* The invariant of the region memory.                                       *)
MemoryInv ==
  /\ chunkList \in Seq(Chunk) /\ freeChunks \in Seq(Chunk)
  /\ Len(chunkList) >= 1 /\ indexChunkList = Len(chunkList) - 1
  /\ nextFree \in Memory!Pointer
  /\ positions \in Seq(Position) /\ Len(positions) <= MaxDepth
  /\ \A i \in 1 .. Len(positions) :
       /\ positions[i].index <= indexChunkList
       /\ \A j \in 1 .. i : positions[j].index <= positions[i].index
       /\ Bounds(positions[i], i, chunkList, data)
  /\ Bounds(Here, Len(positions) + 1, chunkList, data)
  /\ data \subseteq Memory!Block /\ \A b \in data : b.level <= Len(positions) /\ Fits(b)
  /\ \A b, c \in data : b # c => Memory!Bytes(b) \cap Memory!Bytes(c) = {}
  /\ Distinct(chunkList, freeChunks)

LEMMA BlockFacts ==
  ASSUME NEW b \in Memory!Block
  PROVE /\ b.chunk \in Chunk /\ b.first \in Nat /\ b.size \in Nat /\ b.level \in Nat
        /\ b.size >= 1 /\ b.first < ChunkSize /\ b.level <= MaxDepth
BY BoundsOfContainers DEF Memory!Block

LEMMA PointerFacts ==
  ASSUME NEW p \in Memory!Pointer
  PROVE p[1] \in Chunk /\ p[2] \in Nat /\ p[2] <= ChunkSize
BY BoundsOfContainers DEF Memory!Pointer

LEMMA PositionFacts ==
  ASSUME NEW e \in Position
  PROVE /\ e.next \in Memory!Pointer /\ e.index \in Nat
        /\ e.next[1] \in Chunk /\ e.next[2] \in Nat /\ e.next[2] <= ChunkSize
BY PointerFacts DEF Position

(* Two blocks in different chunks, or one behind the other, do not meet.     *)
LEMMA BytesApart ==
  ASSUME NEW b \in Memory!Block, NEW c \in Memory!Block,
         b.chunk # c.chunk \/ b.first + b.size <= c.first
  PROVE Memory!Bytes(b) \cap Memory!Bytes(c) = {} /\ Memory!Bytes(c) \cap Memory!Bytes(b) = {}
<1>1. /\ b.first \in Nat /\ b.size \in Nat /\ c.first \in Nat /\ c.size \in Nat
  BY BlockFacts
<1>2. ASSUME NEW x, x \in Memory!Bytes(b), x \in Memory!Bytes(c) PROVE FALSE
  <2>1. PICK i \in b.first .. b.first + b.size - 1 : x = <<b.chunk, i>>
    BY <1>2 DEF Memory!Bytes
  <2>2. PICK j \in c.first .. c.first + c.size - 1 : x = <<c.chunk, j>>
    BY <1>2 DEF Memory!Bytes
  <2>3. b.chunk = c.chunk /\ i = j
    BY <2>1, <2>2
  <2> QED BY <1>1, <2>3
<1> QED BY <1>2

LEMMA MemoryStarts ==
  ASSUME Memory!Init
  PROVE MemoryInv
<1>1. PICK c \in Chunk : chunkList = <<c>> /\ nextFree = <<c, 0>>
  BY DEF Memory!Init
<1>2. /\ freeChunks = <<>> /\ indexChunkList = 0 /\ positions = <<>> /\ data = {}
  BY DEF Memory!Init
<1>3. Distinct(chunkList, freeChunks)
  BY <1>1, <1>2 DEF Distinct
<1>4. nextFree \in Memory!Pointer
  BY <1>1, BoundsOfContainers DEF Memory!Pointer
<1>5. Bounds(Here, Len(positions) + 1, chunkList, data)
  BY <1>1, <1>2 DEF Bounds, Here
<1> QED BY <1>1, <1>2, <1>3, <1>4, <1>5, BoundsOfContainers DEF MemoryInv

(* What the invariant says of the position and its chunk.                    *)
LEMMA HereFacts ==
  ASSUME MemoryInv
  PROVE /\ Here \in Position /\ Len(chunkList) \in Nat /\ indexChunkList \in Nat
        /\ Len(positions) \in Nat
        /\ nextFree[1] \in Chunk /\ nextFree[2] \in Nat /\ nextFree[2] <= ChunkSize
        /\ nextFree[1] = chunkList[Len(chunkList)]
        /\ \A b \in data : b.level < Len(positions) + 1
        /\ \A i \in 1 .. Len(positions) : positions[i] \in Position
        /\ \A b \in data : Behind(b, Here, chunkList)
<1>1. /\ Len(chunkList) \in Nat /\ indexChunkList \in Nat /\ Len(positions) \in Nat
      /\ indexChunkList + 1 = Len(chunkList)
  BY DEF MemoryInv
<1>2. Here \in Position
  BY <1>1 DEF MemoryInv, Here, Position
<1>3. nextFree[1] = chunkList[Len(chunkList)]
  BY <1>1 DEF MemoryInv, Bounds, Here
<1>4. \A b \in data : b.level < Len(positions) + 1
  BY <1>1, BlockFacts DEF MemoryInv
<1>5. \A b \in data : Behind(b, Here, chunkList)
  BY <1>4 DEF MemoryInv, Bounds
<1> QED BY <1>1, <1>2, <1>3, <1>4, <1>5, PointerFacts DEF MemoryInv

(* A block in a chunk that is behind it stays so when a chunk is added.      *)
LEMMA BehindMore ==
  ASSUME NEW b, NEW e \in Position, NEW cl \in Seq(Chunk), NEW c \in Chunk,
         e.index <= Len(cl), Behind(b, e, cl)
  PROVE Behind(b, e, Append(cl, c))
<1>1. \A i \in 1 .. e.index : Append(cl, c)[i] = cl[i]
  BY PositionFacts
<1> QED BY <1>1 DEF Behind

(* newData adds a block of the current level at a free place.                *)
LEMMA AllocHereKeeps ==
  ASSUME MemoryInv, NEW n \in 1 .. ChunkSize, Memory!AllocHere(n)
  PROVE MemoryInv'
<1> DEFINE b == Memory!NewBlock(nextFree, n)
<1>1. /\ nextFree[2] + n <= ChunkSize /\ data' = data \cup {b}
      /\ nextFree' = <<nextFree[1], nextFree[2] + n>>
      /\ UNCHANGED <<chunkList, freeChunks, indexChunkList, positions>>
  BY DEF Memory!AllocHere
<1>2. /\ ChunkSize \in Nat /\ n \in Nat /\ n >= 1
  BY BoundsOfContainers
<1>3. /\ b \in Memory!Block /\ b.level = Len(positions)
      /\ b.chunk = nextFree[1] /\ b.first = nextFree[2] /\ b.size = n
  BY <1>1, <1>2, HereFacts, BoundsOfContainers DEF Memory!NewBlock, Memory!Block, MemoryInv
<1> HIDE DEF b
<1>4. nextFree' \in Memory!Pointer
  BY <1>1, <1>2, HereFacts DEF Memory!Pointer
<1>5. ASSUME NEW i \in 1 .. Len(positions) PROVE Bounds(positions[i], i, chunkList, data')
  <2>1. ~(b.level < i)
    BY <1>3, HereFacts
  <2> QED BY <1>1, <2>1 DEF MemoryInv, Bounds
<1>6. Bounds(Here', Len(positions) + 1, chunkList, data')
  <2>1. Here'.next = nextFree' /\ Here'.index = indexChunkList
    BY <1>1 DEF Here
  <2>2. ASSUME NEW x \in data' PROVE Behind(x, Here', chunkList)
    <3>1. CASE x = b
      BY <1>1, <1>2, <1>3, <2>1, <3>1, HereFacts DEF Behind
    <3>2. CASE x \in data
      <4>1. Behind(x, Here, chunkList) /\ x \in Memory!Block
        BY <3>2, HereFacts DEF MemoryInv
      <4>2. Here.next = nextFree /\ Here.index = indexChunkList
        BY DEF Here
      <4> QED BY <1>1, <1>2, <2>1, <4>1, <4>2, HereFacts, BlockFacts DEF Behind
    <3> QED BY <1>1, <2>2, <3>1, <3>2
  <2>3. nextFree'[1] = chunkList[indexChunkList + 1]
    BY <1>1, HereFacts DEF MemoryInv
  <2> QED BY <2>1, <2>2, <2>3 DEF Bounds
<1>7. ASSUME NEW x \in data
      PROVE Memory!Bytes(x) \cap Memory!Bytes(b) = {} /\ Memory!Bytes(b) \cap Memory!Bytes(x) = {}
  <2>1. Behind(x, Here, chunkList) /\ x \in Memory!Block
    BY HereFacts DEF MemoryInv
  <2>2. CASE \E i \in 1 .. indexChunkList : chunkList[i] = x.chunk
    <3>1. PICK i \in 1 .. indexChunkList : chunkList[i] = x.chunk
      BY <2>2
    <3>2. i \in 1 .. Len(chunkList) /\ Len(chunkList) \in 1 .. Len(chunkList) /\ i # Len(chunkList)
      BY HereFacts DEF MemoryInv
    <3>3. x.chunk # b.chunk
      BY <1>3, <3>1, <3>2, HereFacts DEF MemoryInv, Distinct
    <3> QED BY <1>3, <2>1, <3>3, BytesApart
  <2>3. CASE x.first + x.size <= nextFree[2]
    BY <1>3, <2>1, <2>3, BytesApart
  <2> QED BY <2>1, <2>2, <2>3 DEF Behind, Here
<1>8. \A x, y \in data' : x # y => Memory!Bytes(x) \cap Memory!Bytes(y) = {}
  BY <1>1, <1>7 DEF MemoryInv
<1>9. data' \subseteq Memory!Block /\ \A x \in data' : x.level <= Len(positions) /\ Fits(x)
  BY <1>1, <1>3, HereFacts DEF MemoryInv, Fits
<1>10. Distinct(chunkList', freeChunks')
  BY <1>1 DEF MemoryInv
<1> QED BY <1>1, <1>4, <1>5, <1>6, <1>8, <1>9, <1>10 DEF MemoryInv

(* The chunk newChunk() takes is in no list, and the free ones lose only it. *)
LEMMA TakeChunkFacts ==
  ASSUME MemoryInv, NEW c \in Chunk, Memory!TakeChunk(c)
  PROVE /\ freeChunks' \in Seq(Chunk)
        /\ Distinct(Append(chunkList, c), freeChunks')
        /\ \A i \in 1 .. Len(chunkList) : chunkList[i] # c
<1> DEFINE n == Len(chunkList)
           m == Len(freeChunks)
<1>1. /\ chunkList \in Seq(Chunk) /\ freeChunks \in Seq(Chunk) /\ n \in Nat /\ m \in Nat
      /\ Distinct(chunkList, freeChunks)
  BY DEF MemoryInv
<1>2. /\ Len(Append(chunkList, c)) = n + 1 /\ Append(chunkList, c)[n + 1] = c
      /\ \A i \in 1 .. n : Append(chunkList, c)[i] = chunkList[i]
  BY <1>1
<1>3. CASE freeChunks = <<>>
  <2>1. c \notin Memory!Owned /\ freeChunks' = <<>>
    BY <1>3 DEF Memory!TakeChunk
  <2>2. \A i \in 1 .. n : chunkList[i] # c
    BY <1>1, <2>1 DEF Memory!Owned, Memory!Range
  <2> HIDE DEF n, m
  <2>3. \A i, j \in 1 .. n + 1 : Append(chunkList, c)[i] = Append(chunkList, c)[j] => i = j
    <3> SUFFICES ASSUME NEW i \in 1 .. n + 1, NEW j \in 1 .. n + 1,
                        Append(chunkList, c)[i] = Append(chunkList, c)[j]
                 PROVE i = j
      OBVIOUS
    <3>1. CASE i \in 1 .. n /\ j \in 1 .. n
      BY <1>1, <1>2, <3>1 DEF Distinct, n
    <3>2. CASE i = n + 1 \/ j = n + 1
      BY <1>1, <1>2, <2>2, <3>2
    <3> QED BY <1>1, <3>1, <3>2
  <2> QED BY <1>1, <1>2, <1>3, <2>1, <2>2, <2>3 DEF Distinct, n
<1>4. CASE freeChunks # <<>>
  <2>1. c = freeChunks[m] /\ freeChunks' = SubSeq(freeChunks, 1, m - 1) /\ m >= 1
    BY <1>1, <1>4 DEF Memory!TakeChunk, Memory!Last, Memory!Front
  <2>2. /\ freeChunks' \in Seq(Chunk) /\ Len(freeChunks') = m - 1
        /\ \A i \in 1 .. m - 1 : freeChunks'[i] = freeChunks[i]
    <3>1. \A i \in 1 .. m - 1 : freeChunks[i] \in Chunk
      BY <1>1
    <3> HIDE DEF m
    <3>2. 1 \in Int /\ m - 1 \in Int
      BY <1>1
    <3>3. /\ SubSeq(freeChunks, 1, m - 1) \in Seq(Chunk)
          /\ Len(SubSeq(freeChunks, 1, m - 1)) = IF 1 <= m - 1 THEN m - 1 - 1 + 1 ELSE 0
          /\ \A i \in 1 .. m - 1 - 1 + 1 : SubSeq(freeChunks, 1, m - 1)[i] = freeChunks[1 + i - 1]
      BY <3>1, <3>2, SubSeqProperties
    <3> QED BY <1>1, <2>1, <3>3
  <2>3. \A i \in 1 .. n : chunkList[i] # c
    BY <1>1, <2>1 DEF Distinct
  <2>4. \A j \in 1 .. m - 1 : freeChunks[j] # c
    BY <1>1, <2>1 DEF Distinct
  <2>5. \A i, j \in 1 .. m : freeChunks[i] = freeChunks[j] => i = j
    BY <1>1 DEF Distinct
  <2>6. /\ \A i, j \in 1 .. n : chunkList[i] = chunkList[j] => i = j
        /\ \A i \in 1 .. n, j \in 1 .. m : chunkList[i] # freeChunks[j]
    BY <1>1 DEF Distinct
  <2> HIDE DEF n, m
  <2>7. \A i, j \in 1 .. n + 1 : Append(chunkList, c)[i] = Append(chunkList, c)[j] => i = j
    <3> SUFFICES ASSUME NEW i \in 1 .. n + 1, NEW j \in 1 .. n + 1,
                        Append(chunkList, c)[i] = Append(chunkList, c)[j]
                 PROVE i = j
      OBVIOUS
    <3>1. CASE i \in 1 .. n /\ j \in 1 .. n
      BY <1>1, <1>2, <2>6, <3>1
    <3>2. CASE i = n + 1 \/ j = n + 1
      BY <1>1, <1>2, <2>3, <3>2
    <3> QED BY <1>1, <3>1, <3>2
  <2>8. ASSUME NEW i \in 1 .. n + 1, NEW j \in 1 .. m - 1
        PROVE Append(chunkList, c)[i] # freeChunks[j]
    <3>1. CASE i \in 1 .. n
      <4>1. j \in 1 .. m
        BY <1>1
      <4>2. Append(chunkList, c)[i] = chunkList[i]
        BY <1>2, <3>1 DEF n
      <4>3. chunkList[i] # freeChunks[j]
        BY <2>6, <3>1, <4>1
      <4> QED BY <4>2, <4>3
    <3>2. CASE i = n + 1
      <4>1. Append(chunkList, c)[i] = c
        BY <1>2, <3>2 DEF n
      <4>2. freeChunks[j] # c
        BY <2>4
      <4> QED BY <4>1, <4>2
    <3>3. i \in 1 .. n \/ i = n + 1
      <4>1. n \in Nat
        BY <1>1
      <4> QED BY <4>1
    <3> QED BY <3>1, <3>2, <3>3
  <2>9. \A i, j \in 1 .. m - 1 : freeChunks'[i] = freeChunks'[j] => i = j
    BY <1>1, <2>2, <2>5
  <2>10. \A i \in 1 .. n + 1, j \in 1 .. m - 1 : Append(chunkList, c)[i] # freeChunks'[j]
    BY <2>2, <2>8
  <2> QED BY <1>2, <2>2, <2>3, <2>7, <2>9, <2>10 DEF Distinct, n
<1> QED BY <1>3, <1>4

(* newData adds a block at the start of a chunk nothing else uses.           *)
LEMMA AllocInNewChunkKeeps ==
  ASSUME MemoryInv, NEW n \in 1 .. ChunkSize, Memory!AllocInNewChunk(n)
  PROVE MemoryInv'
<1>1. PICK c \in Chunk :
        /\ Memory!TakeChunk(c)
        /\ chunkList' = Append(chunkList, c)
        /\ nextFree' = <<c, n>>
        /\ data' = data \cup {Memory!NewBlock(<<c, 0>>, n)}
  BY DEF Memory!AllocInNewChunk
<1> DEFINE b == Memory!NewBlock(<<c, 0>>, n)
           e == Len(chunkList)
           k == Len(positions)
<1>2. /\ indexChunkList' = indexChunkList + 1 /\ UNCHANGED positions
      /\ data' = data \cup {b}
  BY <1>1 DEF Memory!AllocInNewChunk
<1>3. /\ ChunkSize \in Nat /\ n \in Nat /\ n >= 1 /\ ChunkSize >= n
  BY BoundsOfContainers
<1>4. /\ b \in Memory!Block /\ b.level = k /\ b.chunk = c /\ b.first = 0 /\ b.size = n
  BY <1>3, BoundsOfContainers DEF Memory!NewBlock, Memory!Block, MemoryInv
<1>5. /\ freeChunks' \in Seq(Chunk) /\ Distinct(Append(chunkList, c), freeChunks')
      /\ \A i \in 1 .. e : chunkList[i] # c
  BY <1>1, TakeChunkFacts
<1>6. /\ chunkList \in Seq(Chunk) /\ e \in Nat /\ e >= 1 /\ indexChunkList = e - 1
      /\ k \in Nat
  BY DEF MemoryInv
<1>7. /\ chunkList' \in Seq(Chunk) /\ Len(chunkList') = e + 1 /\ chunkList'[e + 1] = c
      /\ \A i \in 1 .. e : chunkList'[i] = chunkList[i]
  BY <1>1, <1>6
<1>8. nextFree' \in Memory!Pointer
  BY <1>1, <1>3 DEF Memory!Pointer
<1> HIDE DEF b
<1>9. ASSUME NEW i \in 1 .. k PROVE Bounds(positions[i], i, chunkList', data')
  <2>1. /\ positions[i] \in Position /\ positions[i].index <= indexChunkList
        /\ Bounds(positions[i], i, chunkList, data)
    BY HereFacts DEF MemoryInv
  <2>2. positions[i].index \in Nat
    BY <2>1, PositionFacts
  <2>3. positions[i].next[1] = chunkList'[positions[i].index + 1]
    BY <1>6, <1>7, <2>1, <2>2 DEF Bounds
  <2>4. ASSUME NEW x \in data', x.level < i PROVE Behind(x, positions[i], chunkList')
    <3>1. x # b
      BY <1>4, <1>6, <2>4
    <3>2. x \in data
      BY <1>2, <2>4, <3>1
    <3>3. Behind(x, positions[i], chunkList)
      BY <2>1, <2>4, <3>2 DEF Bounds
    <3>4. positions[i].index <= Len(chunkList)
      BY <1>6, <2>1, <2>2
    <3> QED BY <1>1, <1>6, <2>1, <3>3, <3>4, BehindMore
  <2> QED BY <2>3, <2>4 DEF Bounds
<1>10. Bounds(Here', k + 1, chunkList', data')
  <2>1. Here'.next = <<c, n>> /\ Here'.index = e
    BY <1>1, <1>2, <1>6 DEF Here
  <2>2. ASSUME NEW x \in data' PROVE Behind(x, Here', chunkList')
    <3>1. CASE x = b
      BY <1>3, <1>4, <2>1, <3>1 DEF Behind
    <3>2. CASE x \in data
      <4>1. Behind(x, Here, chunkList)
        BY <3>2, HereFacts
      <4>2. \E i \in 1 .. e : chunkList[i] = x.chunk
        <5>1. CASE \E i \in 1 .. indexChunkList : chunkList[i] = x.chunk
          BY <1>6, <5>1
        <5>2. CASE x.chunk = nextFree[1]
          BY <1>6, <5>2, HereFacts
        <5> QED BY <4>1, <5>1, <5>2 DEF Behind, Here
      <4> QED BY <1>7, <2>1, <4>2 DEF Behind
    <3> QED BY <1>2, <2>2, <3>1, <3>2
  <2>3. Here'.next[1] = chunkList'[Here'.index + 1]
    BY <1>7, <2>1
  <2> QED BY <2>2, <2>3 DEF Bounds
<1>11. ASSUME NEW x \in data
       PROVE Memory!Bytes(x) \cap Memory!Bytes(b) = {} /\ Memory!Bytes(b) \cap Memory!Bytes(x) = {}
  <2>1. Behind(x, Here, chunkList) /\ x \in Memory!Block
    BY HereFacts DEF MemoryInv
  <2>2. x.chunk # c
    <3>1. CASE \E i \in 1 .. indexChunkList : chunkList[i] = x.chunk
      BY <1>5, <1>6, <3>1
    <3>2. CASE x.chunk = nextFree[1]
      BY <1>5, <1>6, <3>2, HereFacts
    <3> QED BY <2>1, <3>1, <3>2 DEF Behind, Here
  <2> QED BY <1>4, <2>1, <2>2, BytesApart
<1>12. \A x, y \in data' : x # y => Memory!Bytes(x) \cap Memory!Bytes(y) = {}
  <2> SUFFICES ASSUME NEW x \in data', NEW y \in data', x # y
               PROVE Memory!Bytes(x) \cap Memory!Bytes(y) = {}
    OBVIOUS
  <2>1. CASE x \in data /\ y \in data
    BY <2>1 DEF MemoryInv
  <2>2. CASE x = b \/ y = b
    BY <1>2, <1>11, <2>2
  <2> QED BY <1>2, <2>1, <2>2
<1>13. data' \subseteq Memory!Block /\ \A x \in data' : x.level <= k /\ Fits(x)
  BY <1>2, <1>3, <1>4, <1>6 DEF MemoryInv, Fits
<1>14. \A i \in 1 .. k :
         /\ positions[i].index <= indexChunkList'
         /\ \A j \in 1 .. i : positions[j].index <= positions[i].index
  <2> SUFFICES ASSUME NEW i \in 1 .. k
               PROVE /\ positions[i].index <= indexChunkList'
                     /\ \A j \in 1 .. i : positions[j].index <= positions[i].index
    OBVIOUS
  <2>1. positions[i].index \in Nat
    BY HereFacts, PositionFacts
  <2>2. positions[i].index <= indexChunkList
    BY DEF MemoryInv
  <2>3. \A j \in 1 .. i : positions[j].index <= positions[i].index
    BY DEF MemoryInv
  <2> QED BY <1>2, <1>6, <2>1, <2>2, <2>3
<1>15. /\ Len(chunkList') >= 1 /\ indexChunkList' = Len(chunkList') - 1
       /\ positions' \in Seq(Position) /\ Len(positions') <= MaxDepth
       /\ Distinct(chunkList', freeChunks')
  BY <1>1, <1>2, <1>5, <1>6, <1>7 DEF MemoryInv
<1> QED BY <1>2, <1>5, <1>7, <1>8, <1>9, <1>10, <1>12, <1>13, <1>14, <1>15 DEF MemoryInv

(* push saves the position, with every block behind it.                      *)
LEMMA MemoryPushKeeps ==
  ASSUME MemoryInv, Memory!Push
  PROVE MemoryInv'
<1> DEFINE k == Len(positions)
<1>1. /\ k < MaxDepth /\ positions' = Append(positions, Here)
      /\ UNCHANGED <<chunkList, freeChunks, nextFree, indexChunkList, data>>
  BY DEF Memory!Push, Here
<1>2. /\ positions \in Seq(Position) /\ k \in Nat /\ Here \in Position /\ MaxDepth \in Nat
  BY HereFacts, BoundsOfContainers DEF MemoryInv
<1>3. /\ positions' \in Seq(Position) /\ Len(positions') = k + 1 /\ positions'[k + 1] = Here
      /\ \A i \in 1 .. k : positions'[i] = positions[i]
  BY <1>1, <1>2
<1>4. Here' = Here
  BY <1>1 DEF Here
<1>5. \A x \in data : x.level < k + 1 /\ Behind(x, Here, chunkList) /\ x.level \in Nat
  BY HereFacts, BlockFacts DEF MemoryInv
<1>6. Bounds(Here, k + 1, chunkList, data) /\ Bounds(Here, k + 2, chunkList, data)
  BY <1>5 DEF MemoryInv, Bounds
<1>7. Here.index = indexChunkList /\ indexChunkList \in Nat
  BY HereFacts DEF Here
<1>8. ASSUME NEW i \in 1 .. k + 1
      PROVE /\ positions'[i].index <= indexChunkList
            /\ \A j \in 1 .. i : positions'[j].index <= positions'[i].index
            /\ Bounds(positions'[i], i, chunkList, data)
  <2>1. CASE i \in 1 .. k
    <3>1. \A j \in 1 .. i : j \in 1 .. k
      BY <1>2, <2>1
    <3> HIDE DEF k
    <3>2. \A j \in 1 .. i : positions'[j] = positions[j]
      BY <1>3, <3>1
    <3> QED BY <1>3, <2>1, <3>2 DEF MemoryInv, k
  <2>2. CASE i = k + 1
    <3>1. ASSUME NEW j \in 1 .. k + 1 PROVE positions'[j].index <= indexChunkList
      <4>1. CASE j \in 1 .. k
        BY <1>3, <4>1 DEF MemoryInv
      <4>2. CASE j = k + 1
        BY <1>3, <1>7, <4>2
      <4> QED BY <1>2, <4>1, <4>2
    <3> QED BY <1>3, <1>6, <1>7, <2>2, <3>1
  <2> QED BY <1>2, <2>1, <2>2
<1>9. \A x \in data : x.level <= k + 1 /\ Fits(x)
  BY <1>2, <1>5 DEF MemoryInv
<1> QED BY <1>1, <1>2, <1>3, <1>4, <1>6, <1>8, <1>9 DEF MemoryInv

(* The free list pop() leaves: part of the one it had, followed by the       *)
(* chunks past position n, newest first.                                     *)
LEMMA FreedChunks ==
  ASSUME NEW cl \in Seq(Chunk), NEW fl \in Seq(Chunk), NEW n \in 1 .. Len(cl),
         Distinct(cl, fl)
  PROVE LET gone == SubSeq(cl, n + 1, Len(cl))
            free == Memory!KeepMax(fl \o Memory!Reverse(gone)) IN
        free \in Seq(Chunk) /\ Distinct(SubSeq(cl, 1, n), free)
<1> DEFINE c == Len(cl)
           m == Len(fl)
           gone == SubSeq(cl, n + 1, c)
           back == Memory!Reverse(gone)
           both == fl \o back
           s == Memory!Max({1, Len(both) - MaxFreeChunks + 1})
           free == Memory!KeepMax(both)
           kept == SubSeq(cl, 1, n)
<1>1. c \in Nat /\ m \in Nat /\ n \in Nat /\ n >= 1 /\ n <= c
  OBVIOUS
<1>2. \A i \in 1 .. c : cl[i] \in Chunk
  OBVIOUS
<1>3. \A i \in 1 .. m : fl[i] \in Chunk
  OBVIOUS
<1> HIDE DEF c, m
<1>4. /\ gone \in Seq(Chunk) /\ Len(gone) = c - n
      /\ \A i \in 1 .. c - n : gone[i] = cl[n + i]
  <2>1. \A i \in n + 1 .. c : cl[i] \in Chunk
    BY <1>1, <1>2
  <2>2. n + 1 \in Int /\ c \in Int
    BY <1>1
  <2>3. /\ gone \in Seq(Chunk)
        /\ Len(gone) = IF n + 1 <= c THEN c - (n + 1) + 1 ELSE 0
        /\ \A i \in 1 .. c - (n + 1) + 1 : gone[i] = cl[n + 1 + i - 1]
    BY <2>1, <2>2, SubSeqProperties
  <2> QED BY <1>1, <2>3
<1>5. /\ kept \in Seq(Chunk) /\ Len(kept) = n /\ \A i \in 1 .. n : kept[i] = cl[i]
  <2>1. \A i \in 1 .. n : cl[i] \in Chunk
    BY <1>1, <1>2
  <2>2. 1 \in Int /\ n \in Int
    BY <1>1
  <2>3. /\ kept \in Seq(Chunk)
        /\ Len(kept) = IF 1 <= n THEN n - 1 + 1 ELSE 0
        /\ \A i \in 1 .. n - 1 + 1 : kept[i] = cl[1 + i - 1]
    BY <2>1, <2>2, SubSeqProperties
  <2> QED BY <1>1, <2>3
<1>6. back = [i \in 1 .. Len(gone) |-> gone[(Len(gone) - i) + 1]]
  BY DEF Memory!Reverse
<1> HIDE DEF gone, back, kept
<1>7. /\ back \in Seq(Chunk) /\ Len(back) = c - n
      /\ \A i \in 1 .. c - n : back[i] = cl[c - i + 1]
  <2>1. c - n \in Nat
    BY <1>1
  <2>2. back = [i \in 1 .. c - n |-> gone[(c - n - i) + 1]]
    BY <1>4, <1>6
  <2>3. ASSUME NEW i \in 1 .. c - n PROVE gone[(c - n - i) + 1] = cl[c - i + 1] /\ c - i + 1 \in 1 .. c
    <3>1. (c - n - i) + 1 \in 1 .. c - n
      BY <1>1, <2>1
    <3>2. gone[(c - n - i) + 1] = cl[n + ((c - n - i) + 1)]
      BY <1>4, <3>1
    <3>3. n + ((c - n - i) + 1) = c - i + 1 /\ c - i + 1 \in 1 .. c
      BY <1>1, <2>1
    <3> QED BY <3>2, <3>3
  <2>4. \A i \in 1 .. c - n : gone[(c - n - i) + 1] \in Chunk
    BY <1>2, <2>3
  <2> QED BY <2>1, <2>2, <2>3, <2>4
<1>8. /\ both \in Seq(Chunk) /\ Len(both) = m + (c - n)
      /\ \A i \in 1 .. m : both[i] = fl[i]
      /\ \A i \in m + 1 .. m + (c - n) : both[i] = cl[c - (i - m) + 1]
  <2>1. /\ both \in Seq(Chunk) /\ Len(both) = Len(fl) + Len(back)
        /\ \A i \in 1 .. Len(fl) + Len(back) :
             both[i] = IF i <= Len(fl) THEN fl[i] ELSE back[i - Len(fl)]
    BY <1>7, ConcatProperties
  <2>2. Len(fl) = m
    BY DEF m
  <2>3. ASSUME NEW i \in 1 .. m PROVE both[i] = fl[i]
    BY <1>1, <1>7, <2>1, <2>2
  <2>4. ASSUME NEW i \in m + 1 .. m + (c - n) PROVE both[i] = cl[c - (i - m) + 1]
    <3>1. i - m \in 1 .. c - n /\ i \in 1 .. m + (c - n) /\ ~(i <= m)
      BY <1>1
    <3>2. both[i] = back[i - m]
      BY <1>7, <2>1, <2>2, <3>1
    <3> QED BY <1>7, <3>1, <3>2
  <2> QED BY <1>7, <2>1, <2>2, <2>3, <2>4
<1>9. \A i, j \in 1 .. Len(both) : both[i] = both[j] => i = j
  <2> SUFFICES ASSUME NEW i \in 1 .. m + (c - n), NEW j \in 1 .. m + (c - n), both[i] = both[j]
               PROVE i = j
    BY <1>8
  <2> DEFINE p == c - (i - m) + 1
             q == c - (j - m) + 1
  <2>1. /\ i \in 1 .. m \/ (i \in m + 1 .. m + (c - n) /\ p \in 1 .. c)
        /\ j \in 1 .. m \/ (j \in m + 1 .. m + (c - n) /\ q \in 1 .. c)
    BY <1>1
  <2>2. CASE i \in 1 .. m /\ j \in 1 .. m
    BY <1>8, <2>2 DEF Distinct, m
  <2>3. CASE i \in 1 .. m /\ j \in m + 1 .. m + (c - n) /\ q \in 1 .. c
    <3>1. fl[i] = cl[q]
      BY <1>8, <2>3
    <3> QED BY <2>3, <3>1 DEF Distinct, m, c
  <2>4. CASE j \in 1 .. m /\ i \in m + 1 .. m + (c - n) /\ p \in 1 .. c
    <3>1. fl[j] = cl[p]
      BY <1>8, <2>4
    <3> QED BY <2>4, <3>1 DEF Distinct, m, c
  <2>5. CASE /\ j \in m + 1 .. m + (c - n) /\ q \in 1 .. c
             /\ i \in m + 1 .. m + (c - n) /\ p \in 1 .. c
    <3>1. cl[p] = cl[q]
      BY <1>8, <2>5
    <3>2. p = q
      BY <2>5, <3>1 DEF Distinct, c
    <3> QED BY <1>1, <3>2
  <2> QED BY <2>1, <2>2, <2>3, <2>4, <2>5
<1>10. \A i \in 1 .. n, j \in 1 .. Len(both) : cl[i] # both[j]
  <2> SUFFICES ASSUME NEW i \in 1 .. n, NEW j \in 1 .. m + (c - n)
               PROVE cl[i] # both[j]
    BY <1>8
  <2> DEFINE q == c - (j - m) + 1
  <2>1. i \in 1 .. c
    BY <1>1
  <2>2. CASE j \in 1 .. m
    BY <1>8, <2>1, <2>2 DEF Distinct, m, c
  <2>3. CASE j \in m + 1 .. m + (c - n)
    <3>1. q \in 1 .. c /\ q # i
      BY <1>1, <2>3
    <3>2. both[j] = cl[q]
      BY <1>8, <2>3
    <3> QED BY <2>1, <3>1, <3>2 DEF Distinct, c
  <2>4. j \in 1 .. m \/ j \in m + 1 .. m + (c - n)
    BY <1>1
  <2> QED BY <2>2, <2>3, <2>4
<1>11. s \in Int /\ s >= 1
  <2>1. Len(both) - MaxFreeChunks + 1 \in Int
    BY <1>1, <1>8, BoundsOfContainers
  <2>2. \E x \in {1, Len(both) - MaxFreeChunks + 1} :
          \A y \in {1, Len(both) - MaxFreeChunks + 1} : x >= y
    BY <2>1
  <2>3. s \in {1, Len(both) - MaxFreeChunks + 1} /\ \A y \in {1, Len(both) - MaxFreeChunks + 1} : s >= y
    BY <2>2 DEF Memory!Max
  <2> QED BY <2>1, <2>3
<1>12. free = SubSeq(both, s, Len(both))
  BY DEF Memory!KeepMax
<1> HIDE DEF both, s, free
<1>13. /\ free \in Seq(Chunk)
       /\ \A i \in 1 .. Len(free) : s + i - 1 \in 1 .. Len(both) /\ free[i] = both[s + i - 1]
  <2>1. Len(both) \in Int /\ Len(both) >= 0
    BY <1>8
  <2>2. \A i \in s .. Len(both) : both[i] \in Chunk
    BY <1>8, <1>11
  <2>3. /\ free \in Seq(Chunk)
        /\ Len(free) = IF s <= Len(both) THEN Len(both) - s + 1 ELSE 0
        /\ \A i \in 1 .. Len(both) - s + 1 : free[i] = both[s + i - 1]
    BY <1>11, <1>12, <2>1, <2>2, SubSeqProperties
  <2> QED BY <1>11, <2>1, <2>3
<1>14. \A i, j \in 1 .. Len(free) : free[i] = free[j] => i = j
  <2> SUFFICES ASSUME NEW i \in 1 .. Len(free), NEW j \in 1 .. Len(free), free[i] = free[j]
               PROVE i = j
    OBVIOUS
  <2>1. s + i - 1 = s + j - 1
    BY <1>9, <1>13
  <2>2. Len(free) \in Nat
    BY <1>13
  <2> QED BY <1>11, <2>1, <2>2
<1>15. ASSUME NEW i \in 1 .. n, NEW j \in 1 .. Len(free) PROVE kept[i] # free[j]
  <2>1. free[j] = both[s + j - 1] /\ s + j - 1 \in 1 .. Len(both)
    BY <1>13
  <2>2. kept[i] = cl[i]
    BY <1>5
  <2> QED BY <1>10, <2>1, <2>2
<1>16. \A i, j \in 1 .. n : kept[i] = kept[j] => i = j
  <2>1. \A i \in 1 .. n : i \in 1 .. c
    BY <1>1
  <2> QED BY <1>5, <2>1 DEF Distinct, c
<1>17. free \in Seq(Chunk) /\ Distinct(kept, free)
  BY <1>5, <1>13, <1>14, <1>15, <1>16 DEF Distinct
<1> QED BY <1>17 DEF free, both, back, gone, kept, c

(* pop goes back to the saved position, behind which all that is left lies.  *)
LEMMA MemoryPopKeeps ==
  ASSUME MemoryInv, Memory!Pop
  PROVE MemoryInv'
<1> DEFINE k == Len(positions)
           e == positions[k]
           n == e.index + 1
<1>1. /\ k >= 1 /\ k \in Nat /\ positions' = SubSeq(positions, 1, k - 1)
      /\ nextFree' = e.next /\ indexChunkList' = e.index
      /\ data' = {b \in data : b.level < k}
      /\ e \in Position /\ k \in 1 .. k
  BY HereFacts DEF Memory!Pop, Memory!Last, Memory!Front, MemoryInv
<1>2. /\ chunkList' = SubSeq(chunkList, 1, e.index + 1)
      /\ freeChunks' = Memory!KeepMax(freeChunks \o
            Memory!Reverse(SubSeq(chunkList, e.index + 2, Len(chunkList))))
  BY DEF Memory!Pop, Memory!Last
<1>3. e.index \in Nat /\ e.index <= indexChunkList /\ n \in 1 .. Len(chunkList) /\ e.index + 2 = n + 1
  BY <1>1, HereFacts, PositionFacts DEF MemoryInv
<1> HIDE DEF e
<1>4. freeChunks' \in Seq(Chunk) /\ Distinct(chunkList', freeChunks')
  <2>1. chunkList \in Seq(Chunk) /\ freeChunks \in Seq(Chunk) /\ Distinct(chunkList, freeChunks)
    BY DEF MemoryInv
  <2>2. /\ chunkList' = SubSeq(chunkList, 1, n)
        /\ freeChunks' = Memory!KeepMax(freeChunks \o
            Memory!Reverse(SubSeq(chunkList, n + 1, Len(chunkList))))
    BY <1>2, <1>3
  <2> HIDE DEF n
  <2> QED BY <1>3, <2>1, <2>2, FreedChunks
<1>5. /\ chunkList' \in Seq(Chunk) /\ Len(chunkList') = n
      /\ \A i \in 1 .. n : chunkList'[i] = chunkList[i]
  <2>1. \A i \in 1 .. n : chunkList[i] \in Chunk
    BY <1>3 DEF MemoryInv
  <2>2. 1 \in Int /\ n \in Int /\ n >= 1
    BY <1>3
  <2> HIDE DEF n
  <2>3. /\ SubSeq(chunkList, 1, n) \in Seq(Chunk)
        /\ Len(SubSeq(chunkList, 1, n)) = IF 1 <= n THEN n - 1 + 1 ELSE 0
        /\ \A i \in 1 .. n - 1 + 1 : SubSeq(chunkList, 1, n)[i] = chunkList[1 + i - 1]
    BY <2>1, <2>2, SubSeqProperties
  <2>4. chunkList' = SubSeq(chunkList, 1, n)
    BY <1>2 DEF n
  <2> QED BY <2>2, <2>3, <2>4
<1>6. /\ positions' \in Seq(Position) /\ Len(positions') = k - 1
      /\ \A i \in 1 .. k - 1 : positions'[i] = positions[i]
  <2>1. \A i \in 1 .. k - 1 : positions[i] \in Position
    BY <1>1, HereFacts
  <2>2. 1 \in Int /\ k - 1 \in Int
    BY <1>1
  <2> HIDE DEF k
  <2>3. /\ SubSeq(positions, 1, k - 1) \in Seq(Position)
        /\ Len(SubSeq(positions, 1, k - 1)) = IF 1 <= k - 1 THEN k - 1 - 1 + 1 ELSE 0
        /\ \A i \in 1 .. k - 1 - 1 + 1 : SubSeq(positions, 1, k - 1)[i] = positions[1 + i - 1]
    BY <2>1, <2>2, SubSeqProperties
  <2> QED BY <1>1, <2>2, <2>3
<1>7. nextFree' \in Memory!Pointer
  BY <1>1, PositionFacts
<1>8. Here'.next = e.next /\ Here'.index = e.index
  BY <1>1 DEF Here
<1> HIDE DEF k, n
<1>9. ASSUME NEW p \in Position, NEW i \in 1 .. k, p.index <= e.index, Bounds(p, i, chunkList, data)
      PROVE Bounds(p, i, chunkList', data')
  <2>1. p.index \in Nat /\ p.index + 1 \in 1 .. n
    BY <1>3, <1>9, PositionFacts DEF n
  <2>2. p.next[1] = chunkList'[p.index + 1]
    BY <1>5, <1>9, <2>1 DEF Bounds
  <2>3. ASSUME NEW b \in data', b.level < i PROVE Behind(b, p, chunkList')
    <3>1. Behind(b, p, chunkList)
      BY <1>1, <1>9, <2>3 DEF Bounds
    <3>2. \A j \in 1 .. p.index : j \in 1 .. n
      BY <1>3, <2>1 DEF n
    <3>3. \A j \in 1 .. p.index : chunkList'[j] = chunkList[j]
      BY <1>5, <3>2
    <3> QED BY <3>1, <3>3 DEF Behind
  <2> QED BY <2>2, <2>3 DEF Bounds
<1>10. \A i \in 1 .. k : /\ positions[i] \in Position /\ positions[i].index <= e.index
                         /\ \A j \in 1 .. i : positions[j].index <= positions[i].index
                         /\ Bounds(positions[i], i, chunkList, data)
  <2>1. k \in 1 .. Len(positions)
    BY <1>1 DEF k
  <2>2. \A j \in 1 .. k : positions[j].index <= e.index
    BY <2>1 DEF MemoryInv, e
  <2> QED BY <2>2, HereFacts DEF MemoryInv, k
<1>11. \A i \in 1 .. Len(positions') :
         /\ positions'[i].index <= indexChunkList'
         /\ \A j \in 1 .. i : positions'[j].index <= positions'[i].index
         /\ Bounds(positions'[i], i, chunkList', data')
  <2> SUFFICES ASSUME NEW i \in 1 .. k - 1
               PROVE /\ positions'[i].index <= indexChunkList'
                     /\ \A j \in 1 .. i : positions'[j].index <= positions'[i].index
                     /\ Bounds(positions'[i], i, chunkList', data')
    BY <1>6
  <2>1. i \in 1 .. k /\ \A j \in 1 .. i : j \in 1 .. k - 1
    BY <1>1 DEF k
  <2>2. positions'[i] = positions[i] /\ \A j \in 1 .. i : positions'[j] = positions[j]
    BY <1>6, <2>1
  <2>3. Bounds(positions[i], i, chunkList', data')
    BY <1>9, <1>10, <2>1
  <2> QED BY <1>1, <1>10, <2>1, <2>2, <2>3
<1>12. Bounds(Here', Len(positions') + 1, chunkList', data')
  <2>1. k \in 1 .. k /\ Len(positions') + 1 = k
    BY <1>1, <1>6 DEF k
  <2>2. Bounds(e, k, chunkList', data')
    BY <1>1, <1>9, <1>10, <2>1 DEF e
  <2> QED BY <1>8, <2>1, <2>2 DEF Bounds, Behind
<1>13. data' \subseteq Memory!Block /\ \A b \in data' : b.level <= Len(positions') /\ Fits(b)
  <2>1. ASSUME NEW b \in data' PROVE b \in Memory!Block /\ b.level <= k - 1 /\ Fits(b)
    <3>1. b \in Memory!Block /\ b.level < k /\ Fits(b)
      BY <1>1 DEF MemoryInv
    <3>2. b.level \in Nat /\ k \in Nat
      BY <1>1, <3>1, BlockFacts DEF k
    <3> QED BY <3>1, <3>2
  <2> QED BY <1>6, <2>1
<1>14. \A b, c \in data' : b # c => Memory!Bytes(b) \cap Memory!Bytes(c) = {}
  BY <1>1 DEF MemoryInv
<1>15. /\ Len(chunkList') >= 1 /\ indexChunkList' = Len(chunkList') - 1
       /\ Len(positions') <= MaxDepth
  <2>1. Len(chunkList') = e.index + 1 /\ k <= MaxDepth /\ k \in Nat /\ MaxDepth \in Nat
    BY <1>1, <1>5, BoundsOfContainers DEF n, k, MemoryInv
  <2>2. e.index \in Nat /\ indexChunkList' = e.index /\ Len(positions') = k - 1
    BY <1>1, <1>3, <1>6
  <2> QED BY <2>1, <2>2
<1> QED BY <1>4, <1>5, <1>6, <1>7, <1>11, <1>12, <1>13, <1>14, <1>15 DEF MemoryInv

(* The invariant makes the properties of the memory true.                    *)
LEMMA MemoryIsSafe ==
  ASSUME MemoryInv
  PROVE BlocksStayApart /\ Memory!TypeOK
<1> DEFINE n == Len(chunkList)
           k == Len(positions)
           all == Append(positions, [next |-> nextFree, index |-> indexChunkList])
<1>1. /\ n \in Nat /\ n >= 1 /\ indexChunkList = n - 1 /\ k \in Nat
      /\ chunkList \in Seq(Chunk) /\ freeChunks \in Seq(Chunk) /\ positions \in Seq(Position)
  BY DEF MemoryInv
<1>2. Memory!ChunksAreDistinct
  <2>1. DOMAIN chunkList = 1 .. Len(chunkList) /\ DOMAIN freeChunks = 1 .. Len(freeChunks)
    BY <1>1
  <2>2. Distinct(chunkList, freeChunks)
    BY DEF MemoryInv
  <2>3. Memory!IsInjective(chunkList) /\ Memory!IsInjective(freeChunks)
    BY <2>1, <2>2 DEF Distinct, Memory!IsInjective
  <2>4. Memory!Range(chunkList) \cap Memory!Range(freeChunks) = {}
    BY <2>1, <2>2 DEF Distinct, Memory!Range
  <2> QED BY <2>3, <2>4 DEF Memory!ChunksAreDistinct
<1>3. ASSUME NEW b \in data
      PROVE /\ b.first + b.size <= ChunkSize
            /\ b.chunk \in Memory!Range(chunkList)
            /\ \A c \in data \ {b} : Memory!Bytes(b) \cap Memory!Bytes(c) = {}
  <2>1. Fits(b)
    BY DEF MemoryInv
  <2>2. \E i \in 1 .. n : chunkList[i] = b.chunk
    <3>1. Behind(b, Here, chunkList)
      BY HereFacts
    <3>2. CASE \E i \in 1 .. indexChunkList : chunkList[i] = b.chunk
      BY <1>1, <3>2
    <3>3. CASE b.chunk = nextFree[1]
      BY <1>1, <3>3, HereFacts
    <3> QED BY <3>1, <3>2, <3>3 DEF Behind, Here
  <2>3. PICK i \in 1 .. n : chunkList[i] = b.chunk
    BY <2>2
  <2>4. i \in DOMAIN chunkList
    BY <1>1, <2>3
  <2>5. b.chunk \in Memory!Range(chunkList)
    BY <2>3, <2>4 DEF Memory!Range
  <2> QED BY <2>1, <2>5 DEF MemoryInv, Fits
<1>4. Memory!BlocksAreDisjoint
  BY <1>3 DEF Memory!BlocksAreDisjoint
<1>5. all = Append(positions, Here) /\ Here \in Position
  BY HereFacts DEF Here
<1>6. /\ Len(all) = k + 1 /\ all[k + 1] = Here
      /\ \A i \in 1 .. k : all[i] = positions[i]
  BY <1>1, <1>5
<1> HIDE DEF all
<1>7. ASSUME NEW i \in 1 .. Len(all) PROVE Bounds(all[i], i, chunkList, data)
  <2>1. CASE i \in 1 .. k
    BY <1>6, <2>1 DEF MemoryInv
  <2>2. CASE i = k + 1
    BY <1>6, <2>2 DEF MemoryInv
  <2> QED BY <1>1, <1>6, <2>1, <2>2
<1>8. Memory!PositionsAreOrdered
  BY <1>7 DEF Memory!PositionsAreOrdered, Bounds, Behind, all
<1>9. positions \in Seq([next : Memory!Pointer, index : 0 .. indexChunkList])
  <2>1. ASSUME NEW i \in 1 .. k
        PROVE positions[i] \in [next : Memory!Pointer, index : 0 .. indexChunkList]
    <3>0. indexChunkList \in Int
      BY <1>1
    <3>1. positions[i] \in Position /\ positions[i].index <= indexChunkList
      BY HereFacts DEF MemoryInv
    <3>2. positions[i].index \in 0 .. indexChunkList
      BY <3>0, <3>1 DEF Position
    <3> HIDE DEF k
    <3> QED BY <3>1, <3>2 DEF Position
  <2> DEFINE T == [next : Memory!Pointer, index : 0 .. indexChunkList]
  <2>2. positions = [i \in 1 .. k |-> positions[i]]
    BY <1>1
  <2>3. \A i \in 1 .. k : positions[i] \in T
    BY <2>1
  <2> HIDE DEF T
  <2>4. positions \in [1 .. k -> T]
    BY <2>2, <2>3
  <2>5. positions \in Seq(T)
    BY <1>1, <2>4
  <2> QED BY <2>5 DEF T
<1>10. Memory!TypeOK
  BY <1>1, <1>9 DEF Memory!TypeOK, MemoryInv
<1> QED BY <1>2, <1>4, <1>8, <1>10 DEF BlocksStayApart

(* Every step of the memory keeps its invariant.                             *)
LEMMA MemoryStepKeeps ==
  ASSUME MemoryInv, Memory!Next
  PROVE MemoryInv'
<1>1. ASSUME NEW n \in 1 .. ChunkSize, Memory!AllocHere(n) PROVE MemoryInv'
  BY <1>1, AllocHereKeeps
<1>2. ASSUME NEW n \in 1 .. ChunkSize, Memory!AllocInNewChunk(n) PROVE MemoryInv'
  BY <1>2, AllocInNewChunkKeeps
<1> QED BY <1>1, <1>2, MemoryPushKeeps, MemoryPopKeeps DEF Memory!Next

-----------------------------------------------------------------------------
(* CDHashMap: the ring of its entries.                                       *)

(* Relation b is a strict total order on T.                                  *)
Orders(b, T) ==
  /\ b \subseteq T \X T
  /\ \A k \in T : <<k, k>> \notin b
  /\ \A i, j, k \in T : <<i, j>> \in b /\ <<j, k>> \in b => <<i, k>> \in b
  /\ \A j, k \in T : j # k => <<j, k>> \in b \/ <<k, j>> \in b

(* Ring r has the keys of T, in the order b.                                 *)
FirstIn(r, T, b) ==
  IF T = {} THEN r.first = Null
  ELSE r.first \in T /\ \A k \in T \ {r.first} : <<r.first, k>> \in b

NextIn(r, T, b, k) ==
  IF r.next[k] = r.first THEN \A j \in T \ {k} : <<j, k>> \in b
  ELSE /\ <<k, r.next[k]>> \in b
       /\ \A j \in T : <<k, j>> \in b => <<j, r.next[k]>> \notin b

Chained(r, T, b) ==
  /\ r \in Map!Ring /\ T \subseteq Key /\ Orders(b, T)
  /\ FirstIn(r, T, b)
  /\ \A k \in T : /\ r.next[k] \in T /\ r.prev[k] \in T
                  /\ r.prev[r.next[k]] = k /\ r.next[r.prev[k]] = k
                  /\ NextIn(r, T, b, k)

LEMMA RingFacts ==
  ASSUME NEW r \in Map!Ring
  PROVE /\ r.first \in Key \cup {Null}
        /\ r.next \in [Key -> Key \cup {Null}] /\ r.prev \in [Key -> Key \cup {Null}]
BY DEF Map!Ring

(* The constructor of an entry puts it behind the last one.                  *)
LEMMA LinkedKeeps ==
  ASSUME NEW r, NEW T, NEW b, Chained(r, T, b), NEW k \in Key \ T
  PROVE Chained(Map!Linked(r, k), T \cup {k}, b \cup (T \X {k}))
<1> DEFINE q == Map!Linked(r, k)
           U == T \cup {k}
           c == b \cup (T \X {k})
<1>1. r \in Map!Ring /\ T \subseteq Key /\ Orders(b, T) /\ FirstIn(r, T, b) /\ Null \notin Key
  BY ContainersAssumption DEF Chained
<1>2. Orders(c, U)
  <2>1. c \subseteq U \X U
    BY <1>1 DEF Orders
  <2>2. \A i \in T : <<i, k>> \in c /\ <<k, i>> \notin c
    BY <1>1 DEF Orders
  <2>3. <<k, k>> \notin c
    BY <1>1 DEF Orders
  <2>4. \A i, j \in T : <<i, j>> \in c <=> <<i, j>> \in b
    OBVIOUS
  <2> HIDE DEF c
  <2>5. \A i \in U : <<i, i>> \notin c
    BY <1>1, <2>3, <2>4 DEF Orders
  <2>6. ASSUME NEW i \in U, NEW j \in U, NEW m \in U, <<i, j>> \in c, <<j, m>> \in c
        PROVE <<i, m>> \in c
    <3>1. j \in T
      BY <2>2, <2>3, <2>6
    <3>2. i \in T
      BY <2>2, <2>6, <3>1
    <3>3. CASE m = k
      BY <2>2, <3>2, <3>3
    <3>4. CASE m \in T
      <4>1. <<i, j>> \in b /\ <<j, m>> \in b
        BY <2>4, <2>6, <3>1, <3>2, <3>4
      <4>2. <<i, m>> \in b
        BY <1>1, <3>1, <3>2, <3>4, <4>1 DEF Orders
      <4> QED BY <2>4, <3>2, <3>4, <4>2
    <3> QED BY <3>3, <3>4
  <2>7. ASSUME NEW i \in U, NEW j \in U, i # j
        PROVE <<i, j>> \in c \/ <<j, i>> \in c
    <3>1. CASE i \in T /\ j \in T
      BY <1>1, <2>4, <2>7, <3>1 DEF Orders
    <3>2. CASE i = k
      BY <2>2, <2>7, <3>2
    <3>3. CASE j = k
      BY <2>2, <2>7, <3>3
    <3> QED BY <3>1, <3>2, <3>3
  <2> QED BY <2>1, <2>5, <2>6, <2>7 DEF Orders
<1>3. CASE T = {}
  <2>1. r.first = Null
    BY <1>1, <1>3 DEF FirstIn
  <2>2. q = [first |-> k, next |-> [r.next EXCEPT ![k] = k], prev |-> [r.prev EXCEPT ![k] = k]]
    BY <2>1 DEF Map!Linked
  <2>3. q \in Map!Ring /\ q.first = k /\ q.next[k] = k /\ q.prev[k] = k
    BY <1>1, <2>2, RingFacts DEF Map!Ring
  <2>4. U = {k}
    BY <1>3
  <2> HIDE DEF q, U, c
  <2>5. FirstIn(q, U, c) /\ NextIn(q, U, c, k)
    BY <2>3, <2>4 DEF FirstIn, NextIn
  <2> QED BY <1>2, <2>3, <2>4, <2>5 DEF Chained, q, U, c
<1>4. CASE T # {}
  <2> DEFINE f == r.first
             l == r.prev[f]
  <2>1. f \in T /\ \A j \in T \ {f} : <<f, j>> \in b
    BY <1>1, <1>4 DEF FirstIn
  <2>2. f # Null /\ f \in Key
    BY <1>1, <2>1
  <2>3. l \in T /\ r.next[l] = f
    BY <2>1 DEF Chained
  <2>4. q = [first |-> f, next |-> [r.next EXCEPT ![k] = f, ![l] = k],
             prev |-> [r.prev EXCEPT ![k] = l, ![f] = k]]
    BY <2>2 DEF Map!Linked
  <2>5. \A j \in T \ {l} : <<j, l>> \in b
    BY <2>3 DEF Chained, NextIn
  <2>6. \A j \in T : r.next[j] \in T /\ r.prev[j] \in T /\ r.prev[r.next[j]] = j
                     /\ r.next[r.prev[j]] = j /\ NextIn(r, T, b, j)
    BY DEF Chained
  <2> HIDE DEF q, f, l
  <2>7. k # f /\ k # l /\ k \in Key /\ l \in Key
    BY <1>1, <2>1, <2>3
  <2>8. /\ q \in Map!Ring /\ q.first = f
        /\ q.next[k] = f /\ q.next[l] = k /\ \A j \in T \ {l} : q.next[j] = r.next[j]
        /\ q.prev[k] = l /\ q.prev[f] = k /\ \A j \in T \ {f} : q.prev[j] = r.prev[j]
    <3>1. /\ r.next \in [Key -> Key \cup {Null}] /\ r.prev \in [Key -> Key \cup {Null}]
      BY <1>1, RingFacts
    <3>2. q \in Map!Ring
      BY <2>2, <2>4, <2>7, <3>1 DEF Map!Ring
    <3>3. q.first = f /\ q.next = [r.next EXCEPT ![k] = f, ![l] = k]
          /\ q.prev = [r.prev EXCEPT ![k] = l, ![f] = k]
      BY <2>4
    <3> QED BY <1>1, <2>2, <2>7, <3>1, <3>2, <3>3
  <2>9. \A i, j \in T : <<i, j>> \in c <=> <<i, j>> \in b
    OBVIOUS
  <2>10. \A j \in T : <<j, k>> \in c /\ <<k, j>> \notin c
    BY <1>1 DEF Orders
  <2> HIDE DEF c
  <2>11. FirstIn(q, U, c)
    BY <2>1, <2>8, <2>9, <2>10 DEF FirstIn
  <2>12. ASSUME NEW j \in U
         PROVE /\ q.next[j] \in U /\ q.prev[j] \in U
               /\ q.prev[q.next[j]] = j /\ q.next[q.prev[j]] = j
               /\ NextIn(q, U, c, j)
    <3>1. CASE j = k
      <4>1. NextIn(q, U, c, k)
        BY <2>8, <2>10 DEF NextIn
      <4> QED BY <2>1, <2>3, <2>8, <3>1, <4>1
    <3>2. CASE j = l
      <4>1. k # f
        BY <2>7
      <4>2. NextIn(q, U, c, l)
        <5>1. <<l, k>> \in c
          BY <2>3, <2>10
        <5>2. ASSUME NEW i \in U, <<l, i>> \in c PROVE <<i, k>> \notin c
          <6>1. CASE i = k
            BY <1>2, <6>1 DEF Orders
          <6>2. CASE i \in T
            <7>1. <<l, i>> \in b
              BY <2>3, <2>9, <5>2, <6>2
            <7>2. i # l
              BY <1>1, <2>3, <7>1 DEF Orders
            <7>3. <<i, l>> \in b
              BY <2>5, <6>2, <7>2
            <7> QED BY <1>1, <2>3, <6>2, <7>1, <7>3 DEF Orders
          <6> QED BY <6>1, <6>2
        <5> QED BY <2>8, <4>1, <5>1, <5>2 DEF NextIn
      <4>3. q.prev[l] \in U /\ q.next[q.prev[l]] = l
        <5>1. CASE l = f
          BY <2>8, <3>2, <5>1
        <5>2. CASE l # f
          <6>1. q.prev[l] = r.prev[l] /\ r.prev[l] \in T /\ r.next[r.prev[l]] = l
            BY <2>3, <2>6, <2>8, <5>2
          <6>2. r.prev[l] # l
            BY <2>3, <5>2, <6>1
          <6> QED BY <2>8, <6>1, <6>2
        <5> QED BY <5>1, <5>2
      <4> QED BY <2>8, <3>2, <4>2, <4>3
    <3>3. CASE j \in T \ {l}
      <4>1. q.next[j] = r.next[j] /\ r.next[j] \in T /\ r.prev[r.next[j]] = j
        BY <2>6, <2>8, <3>3
      <4>2. r.next[j] # f
        BY <2>3, <3>3, <4>1 DEF l
      <4>3. q.prev[q.next[j]] = j
        BY <2>8, <4>1, <4>2
      <4>4. NextIn(q, U, c, j)
        <5>1. /\ <<j, r.next[j]>> \in b
              /\ \A i \in T : <<j, i>> \in b => <<i, r.next[j]>> \notin b
          BY <2>6, <3>3, <4>2 DEF NextIn, f
        <5>2. <<j, q.next[j]>> \in c
          BY <2>9, <3>3, <4>1, <5>1
        <5>3. ASSUME NEW i \in U, <<j, i>> \in c PROVE <<i, q.next[j]>> \notin c
          <6>1. CASE i = k
            BY <2>10, <4>1, <6>1
          <6>2. CASE i \in T
            BY <2>9, <3>3, <4>1, <5>1, <5>3, <6>2
          <6> QED BY <6>1, <6>2
        <5> QED BY <2>8, <4>1, <4>2, <5>2, <5>3 DEF NextIn
      <4>5. q.prev[j] \in U /\ q.next[q.prev[j]] = j
        <5>1. CASE j = f
          BY <2>8, <5>1
        <5>2. CASE j # f
          <6>1. q.prev[j] = r.prev[j] /\ r.prev[j] \in T /\ r.next[r.prev[j]] = j
            BY <2>6, <2>8, <3>3, <5>2
          <6>2. r.prev[j] # l
            BY <2>3, <5>2, <6>1
          <6> QED BY <2>8, <6>1, <6>2
        <5> QED BY <5>1, <5>2
      <4> QED BY <4>1, <4>3, <4>4, <4>5
    <3> QED BY <3>1, <3>2, <3>3
  <2>13. U \subseteq Key
    BY <1>1
  <2> HIDE DEF U
  <2>14. Chained(q, U, c)
    BY <1>2, <2>8, <2>11, <2>12, <2>13 DEF Chained
  <2> QED BY <2>14 DEF q, U, c
<1> QED BY <1>3, <1>4

(* restore() takes a key out and leaves the order of the others.             *)
LEMMA UnlinkedKeeps ==
  ASSUME NEW r, NEW T, NEW b, Chained(r, T, b), NEW x \in T
  PROVE LET U == T \ {x} IN Chained(Map!Unlinked(r, x), U, b \cap (U \X U))
<1> DEFINE q == Map!Unlinked(r, x)
           U == T \ {x}
           c == b \cap (U \X U)
           f == r.first
           y == r.next[x]
           z == r.prev[x]
<1>1. /\ r \in Map!Ring /\ T \subseteq Key /\ FirstIn(r, T, b) /\ Null \notin Key
      /\ x \in Key
  BY ContainersAssumption DEF Chained
<1>2. \A j \in T : r.next[j] \in T /\ r.prev[j] \in T /\ r.prev[r.next[j]] = j
                   /\ r.next[r.prev[j]] = j /\ NextIn(r, T, b, j)
  BY DEF Chained
<1>3. /\ \A j \in T : <<j, j>> \notin b
      /\ \A i, j, m \in T : <<i, j>> \in b /\ <<j, m>> \in b => <<i, m>> \in b
      /\ \A i, j \in T : i # j => <<i, j>> \in b \/ <<j, i>> \in b
  BY DEF Chained, Orders
<1>4. f \in T /\ \A j \in T \ {f} : <<f, j>> \in b
  BY <1>1 DEF FirstIn
<1>5. y \in T /\ z \in T /\ r.prev[y] = x /\ r.next[z] = x
  BY <1>2
<1>6. q = [first |-> IF f # x THEN f ELSE IF y = x THEN Null ELSE y,
           next |-> [r.next EXCEPT ![z] = y, ![x] = Null],
           prev |-> [r.prev EXCEPT ![y] = z, ![x] = Null]]
  BY DEF Map!Unlinked
<1> HIDE DEF q, f, y, z
<1>7. q \in Map!Ring
  <2>1. r.next \in [Key -> Key \cup {Null}] /\ r.prev \in [Key -> Key \cup {Null}]
    BY <1>1, RingFacts
  <2>2. f \in Key /\ y \in Key /\ z \in Key
    BY <1>1, <1>4, <1>5
  <2> QED BY <1>6, <2>1, <2>2 DEF Map!Ring
<1>8. Orders(c, U)
  <2>1. \A i, j \in U : <<i, j>> \in c <=> <<i, j>> \in b
    OBVIOUS
  <2>2. c \subseteq U \X U
    OBVIOUS
  <2> HIDE DEF c
  <2>3. \A i \in U : i \in T
    OBVIOUS
  <2> HIDE DEF U
  <2> QED BY <1>3, <2>1, <2>2, <2>3 DEF Orders
<1>9. \A i, j \in U : <<i, j>> \in c <=> <<i, j>> \in b
  OBVIOUS
<1> HIDE DEF c
<1>10. CASE y = x
  <2>1. f = x
    <3>1. CASE y = f
      BY <1>10, <3>1
    <3>2. CASE y # f
      <4>1. <<x, y>> \in b
        BY <1>2, <3>2 DEF NextIn, y, f
      <4> QED BY <1>3, <1>10, <4>1
    <3> QED BY <3>1, <3>2
  <2>2. ASSUME NEW j \in T, j # x PROVE FALSE
    <3>1. <<x, j>> \in b
      BY <1>4, <2>1, <2>2
    <3>2. <<j, x>> \in b
      BY <1>2, <1>10, <2>1, <2>2 DEF NextIn, y, f
    <3> QED BY <1>3, <3>1, <3>2
  <2>3. U = {}
    BY <2>2
  <2>4. q.first = Null
    BY <1>6, <1>10, <2>1
  <2> HIDE DEF U
  <2>5. Chained(q, U, c)
    BY <1>7, <1>8, <2>3, <2>4 DEF Chained, FirstIn
  <2> QED BY <2>5 DEF q, U, c
<1>11. CASE y # x
  <2>1. z # x
    BY <1>5, <1>11 DEF y
  <2>2. y \in U /\ z \in U
    BY <1>5, <1>11, <2>1
  <2>3. /\ q.first = IF f # x THEN f ELSE y
        /\ q.next[z] = y /\ \A j \in U \ {z} : q.next[j] = r.next[j]
        /\ q.prev[y] = z /\ \A j \in U \ {y} : q.prev[j] = r.prev[j]
    <3>1. r.next \in [Key -> Key \cup {Null}] /\ r.prev \in [Key -> Key \cup {Null}]
      BY <1>1, RingFacts
    <3>2. y \in Key /\ z \in Key /\ U \subseteq Key /\ x \notin U
      BY <1>1, <2>2
    <3> HIDE DEF U
    <3>3. q.first = IF f # x THEN f ELSE IF y = x THEN Null ELSE y
      BY <1>6
    <3>4. q.next = [r.next EXCEPT ![z] = y, ![x] = Null] /\ q.prev = [r.prev EXCEPT ![y] = z, ![x] = Null]
      BY <1>6
    <3> QED BY <1>1, <1>11, <2>1, <3>1, <3>2, <3>3, <3>4
  \* Between x and the next, or before the first, there is nothing.
  <2>4. f = x => \A j \in U \ {y} : <<y, j>> \in b
    <3> SUFFICES ASSUME f = x, NEW j \in U, j # y, <<j, y>> \in b PROVE FALSE
      BY <1>3, <2>2
    <3>1. <<x, j>> \in b
      BY <1>4
    <3>2. \A i \in T : <<x, i>> \in b => <<i, y>> \notin b
      BY <1>2, <1>11 DEF NextIn, y, f
    <3> QED BY <3>1, <3>2
  <2>5. FirstIn(q, U, c)
    <3>1. CASE f = x
      <4>1. q.first = y /\ y \in U
        BY <2>2, <2>3, <3>1
      <4> QED BY <1>9, <2>4, <3>1, <4>1 DEF FirstIn
    <3>2. CASE f # x
      <4>1. q.first = f /\ f \in U
        BY <1>4, <2>3, <3>2
      <4> QED BY <1>4, <1>9, <4>1 DEF FirstIn
    <3> QED BY <3>1, <3>2
  <2>6. NextIn(q, U, c, z)
    <3>1. CASE f = x
      <4>1. \A j \in T \ {z} : <<j, z>> \in b
        BY <1>2, <1>5, <3>1 DEF NextIn, f
      <4> QED BY <1>9, <2>2, <2>3, <3>1, <4>1 DEF NextIn
    <3>2. CASE f # x
      <4>1. <<z, x>> \in b /\ \A j \in T : <<z, j>> \in b => <<j, x>> \notin b
        BY <1>2, <1>5, <3>2 DEF NextIn, f
      <4>2. CASE y = f
        <5>1. \A j \in T \ {x} : <<j, x>> \in b
          BY <1>2, <4>2 DEF NextIn, f, y
        <5>2. \A j \in U \ {z} : <<j, z>> \in b
          BY <1>3, <2>2, <4>1, <5>1
        <5>3. \A j \in U \ {z} : <<j, z>> \in c
          BY <1>9, <2>2, <5>2
        <5>4. q.next[z] = q.first
          BY <2>3, <3>2, <4>2
        <5> QED BY <5>3, <5>4 DEF NextIn
      <4>3. CASE y # f
        <5>1. <<x, y>> \in b /\ \A j \in T : <<x, j>> \in b => <<j, y>> \notin b
          BY <1>2, <4>3 DEF NextIn, f, y
        <5>2. <<z, y>> \in b
          BY <1>3, <1>5, <4>1, <5>1
        <5>3. ASSUME NEW j \in U, <<z, j>> \in b PROVE <<j, y>> \notin b
          <6>1. <<j, x>> \notin b
            BY <4>1, <5>3
          <6>2. <<x, j>> \in b
            BY <1>3, <6>1
          <6> QED BY <5>1, <6>2
        <5>4. /\ <<z, y>> \in c
              /\ \A j \in U : <<z, j>> \in c => <<j, y>> \notin c
          BY <1>9, <2>2, <5>2, <5>3
        <5>5. q.next[z] = y /\ q.first # y
          BY <2>3, <3>2, <4>3
        <5> QED BY <5>4, <5>5 DEF NextIn
      <4> QED BY <4>2, <4>3
    <3> QED BY <3>1, <3>2
  <2>7. ASSUME NEW j \in U
        PROVE /\ q.next[j] \in U /\ q.prev[j] \in U
              /\ q.prev[q.next[j]] = j /\ q.next[q.prev[j]] = j
              /\ NextIn(q, U, c, j)
    <3>1. q.next[j] \in U /\ q.prev[q.next[j]] = j /\ NextIn(q, U, c, j)
      <4>1. CASE j = z
        BY <2>2, <2>3, <2>6, <4>1
      <4>2. CASE j # z
        <5> DEFINE n == r.next[j]
        <5>1. q.next[j] = n /\ n \in T /\ r.prev[n] = j /\ NextIn(r, T, b, j)
          BY <1>2, <2>3, <4>2
        <5>2. n # x /\ n # y
          BY <1>5, <4>2, <5>1 DEF z
        <5>3. q.prev[n] = j
          BY <2>3, <5>1, <5>2
        <5>4. NextIn(q, U, c, j)
          <6>1. CASE n = f
            <7>1. \A i \in T \ {j} : <<i, j>> \in b
              BY <5>1, <6>1 DEF NextIn, f
            <7>2. q.first = n
              BY <2>3, <5>2, <6>1
            <7> QED BY <1>9, <5>1, <7>1, <7>2 DEF NextIn
          <6>2. CASE n # f
            <7>1. <<j, n>> \in b /\ \A i \in T : <<j, i>> \in b => <<i, n>> \notin b
              BY <5>1, <6>2 DEF NextIn, f
            <7>2. q.first # n /\ n \in U
              BY <2>3, <5>1, <5>2, <6>2
            <7> HIDE DEF n
            <7>3. <<j, n>> \in c /\ \A i \in U : <<j, i>> \in c => <<i, n>> \notin c
              BY <1>9, <7>1, <7>2
            <7> QED BY <5>1, <7>2, <7>3 DEF NextIn
          <6> QED BY <6>1, <6>2
        <5> QED BY <5>1, <5>2, <5>3, <5>4
      <4> QED BY <4>1, <4>2
    <3>2. q.prev[j] \in U /\ q.next[q.prev[j]] = j
      <4>1. CASE j = y
        BY <2>2, <2>3, <4>1
      <4>2. CASE j # y
        <5> DEFINE n == r.prev[j]
        <5>1. q.prev[j] = n /\ n \in T /\ r.next[n] = j
          BY <1>2, <2>3, <4>2
        <5>2. n # x /\ n # z
          BY <1>5, <4>2, <5>1 DEF y
        <5> QED BY <2>3, <5>1, <5>2
      <4> QED BY <4>1, <4>2
    <3> QED BY <3>1, <3>2
  <2>8. U \subseteq Key
    BY <1>1
  <2>9. U # {}
    BY <2>2
  <2> HIDE DEF U
  <2>10. Chained(q, U, c)
    BY <1>7, <1>8, <2>5, <2>7, <2>8 DEF Chained
  <2> QED BY <2>10 DEF q, U, c
<1> QED BY <1>10, <1>11

(* A set of natural numbers has a least one: induction, as the provers can   *)
(* use it.                                                                   *)
LEMMA Least ==
  ASSUME NEW T, T \subseteq Nat, T # {}
  PROVE \E m \in T : \A n \in T : m <= n
<1> DEFINE B == {1 .. n : n \in T}
           R == StrictSubsetOrdering(Nat)
<1>1. IsWellFoundedOn(R, FiniteSubsetsOf(Nat))
  BY FS_StrictSubsetOrderingWellFounded
<1>2. B \subseteq FiniteSubsetsOf(Nat)
  BY FS_Interval DEF FiniteSubsetsOf
<1>3. B # {}
  OBVIOUS
<1> HIDE DEF R
<1>4. PICK x \in B : \A y \in B : ~ (<<y, x>> \in R)
  BY <1>1, <1>2, <1>3, WFMin
<1>5. PICK m \in T : x = 1 .. m
  OBVIOUS
<1>6. ASSUME NEW n \in T, ~ (m <= n) PROVE FALSE
  <2>1. 1 .. n \in B
    OBVIOUS
  <2>2. <<1 .. n, x>> \in R
    BY <1>5, <1>6 DEF R, StrictSubsetOrdering
  <2> QED BY <1>4, <2>1, <2>2
<1> QED BY <1>6

(* The loop over the restores, one iteration at a time.                      *)
UnlinkLoop(r, s, n, f) ==
  f = [i \in 0 .. n |-> IF i = 0 THEN r ELSE Map!Unlinked(f[i - 1], s[i])]

LEMMA UnlinkedAllUnfold ==
  ASSUME NEW r, NEW s, Len(s) \in Nat
  PROVE \E f : UnlinkLoop(r, s, Len(s), f) /\ Map!UnlinkedAll(r, s) = f[Len(s)]
<1> DEFINE T == {n \in Nat : ~ \E f : UnlinkLoop(r, s, n, f)}
           N == Len(s)
<1>1. T = {}
  <2> SUFFICES ASSUME T # {} PROVE FALSE
    OBVIOUS
  <2>1. PICK m \in T : \A n \in T : m <= n
    BY Least
  <2>2. CASE m = 0
    <3> DEFINE f == [k \in 0 .. 0 |-> r]
    <3>1. UnlinkLoop(r, s, 0, f)
      BY DEF UnlinkLoop
    <3> QED BY <2>2, <3>1
  <2>3. CASE m # 0
    <3>1. m - 1 \in Nat /\ m - 1 \notin T
      BY <2>1, <2>3
    <3>2. PICK f : UnlinkLoop(r, s, m - 1, f)
      BY <3>1
    <3> DEFINE g == [k \in 0 .. m |-> IF k < m THEN f[k] ELSE Map!Unlinked(f[m - 1], s[m])]
    <3>3. \A k \in 0 .. m : g[k] = IF k = 0 THEN r ELSE Map!Unlinked(g[k - 1], s[k])
      <4>1. \A k \in 0 .. m - 1 : f[k] = IF k = 0 THEN r ELSE Map!Unlinked(f[k - 1], s[k])
        BY <3>2 DEF UnlinkLoop
      <4> QED BY <2>3, <4>1
    <3>4. UnlinkLoop(r, s, m, g)
      BY <3>3 DEF UnlinkLoop
    <3> QED BY <2>1, <3>4
  <2> QED BY <2>2, <2>3
<1>2. PICK f : UnlinkLoop(r, s, N, f)
  BY <1>1
<1>3. Map!UnlinkedAll(r, s) = (CHOOSE p : UnlinkLoop(r, s, N, p))[N]
  BY DEF Map!UnlinkedAll, UnlinkLoop
<1>4. UnlinkLoop(r, s, N, CHOOSE p : UnlinkLoop(r, s, N, p))
  BY <1>2
<1> QED BY <1>3, <1>4

(* The operator of the module FiniteSets, as the instance sees it.           *)
LEMMA SameCardinality ==
  ASSUME NEW S
  PROVE Map!Cardinality(S) = Cardinality(S)
BY DEF Map!Cardinality, Cardinality

(* An order of a finite set has each element of it once.                     *)
LEMMA OrderFacts ==
  ASSUME NEW R, IsFiniteSet(R), NEW s \in Map!SetToSeqs(R)
  PROVE LET n == Cardinality(R) IN
        /\ n \in Nat /\ Len(s) = n /\ s \in [1 .. n -> R]
        /\ \A i, j \in 1 .. n : i # j => s[i] # s[j]
        /\ \A x \in R : \E i \in 1 .. n : s[i] = x
<1> DEFINE n == Cardinality(R)
<1>1. n \in Nat
  BY FS_CardinalityType
<1>2. s \in [1 .. n -> R] /\ \A i, j \in 1 .. n : i # j => s[i] # s[j]
  BY SameCardinality DEF Map!SetToSeqs
<1>3. Len(s) = n
  <2> HIDE DEF n
  <2>1. s \in Seq(R)
    BY <1>1, <1>2
  <2> QED BY <1>1, <1>2, <2>1
<1>4. ASSUME NEW x \in R, ~ \E i \in 1 .. n : s[i] = x PROVE FALSE
  <2>1. IsFiniteSet(R \ {x}) /\ Cardinality(R \ {x}) = n - 1
    BY FS_RemoveElement
  <2>2. IsFiniteSet(1 .. n) /\ Cardinality(1 .. n) = n
    BY <1>1, FS_Interval
  <2>3. s \in [1 .. n -> R \ {x}]
    BY <1>2, <1>4
  <2> HIDE DEF n
  <2>4. Cardinality(R \ {x}) < Cardinality(1 .. n)
    BY <1>1, <2>1, <2>2
  <2>5. \E i, j \in 1 .. n : i # j /\ s[i] = s[j]
    BY <2>1, <2>2, <2>3, <2>4, FS_PigeonHole
  <2> QED BY <1>2, <2>5
<1> QED BY <1>1, <1>2, <1>3, <1>4

(* Whatever the order in which a pop restores the entries, those that stay   *)
(* are left in the order they had.                                           *)
LEMMA UnlinkedAllKeeps ==
  ASSUME NEW r, NEW T, NEW b, Chained(r, T, b), NEW R, R \subseteq T, IsFiniteSet(R),
         NEW s \in Map!SetToSeqs(R)
  PROVE LET U == T \ R IN Chained(Map!UnlinkedAll(r, s), U, b \cap (U \X U))
<1> DEFINE n == Cardinality(R)
           Rest(k) == T \ {s[i] : i \in 1 .. k}
           Part(k) == b \cap (Rest(k) \X Rest(k))
<1>1. /\ n \in Nat /\ Len(s) = n /\ s \in [1 .. n -> R]
      /\ \A i, j \in 1 .. n : i # j => s[i] # s[j]
      /\ \A x \in R : \E i \in 1 .. n : s[i] = x
  BY OrderFacts
<1>2. PICK f : UnlinkLoop(r, s, n, f) /\ Map!UnlinkedAll(r, s) = f[n]
  BY <1>1, UnlinkedAllUnfold
<1> HIDE DEF n
<1>3. \A k \in 0 .. n : f[k] = IF k = 0 THEN r ELSE Map!Unlinked(f[k - 1], s[k])
  BY <1>2 DEF UnlinkLoop
<1> DEFINE I(k) == Chained(f[k], Rest(k), Part(k))
           W == {k \in 0 .. n : ~ I(k)}
<1>4. I(0)
  <2>1. Rest(0) = T
    OBVIOUS
  <2>2. Part(0) = b
    BY <2>1 DEF Chained, Orders
  <2>3. f[0] = r
    BY <1>1, <1>3
  <2> QED BY <2>1, <2>2, <2>3
<1>5. ASSUME NEW k \in 0 .. n, k # 0, I(k - 1) PROVE I(k)
  <2>1. k \in 1 .. n /\ k - 1 \in 0 .. n
    BY <1>1, <1>5
  <2>2. s[k] \in Rest(k - 1)
    <3>1. s[k] \in T
      BY <1>1, <2>1
    <3>2. \A i \in 1 .. k - 1 : i \in 1 .. n /\ i # k
      BY <1>1, <2>1
    <3>3. \A i \in 1 .. k - 1 : s[i] # s[k]
      BY <1>1, <2>1, <3>2
    <3> QED BY <3>1, <3>3
  <2>3. Rest(k) = Rest(k - 1) \ {s[k]}
    <3>1. 1 .. k = (1 .. k - 1) \cup {k}
      BY <1>1, <2>1
    <3> QED BY <3>1
  <2>4. Part(k) = Part(k - 1) \cap (Rest(k) \X Rest(k))
    BY <2>3
  <2>5. f[k] = Map!Unlinked(f[k - 1], s[k])
    BY <1>3, <1>5
  <2> DEFINE A == Rest(k - 1)
             B == Rest(k)
             C == Part(k - 1)
             D == Part(k)
  <2>6. Chained(f[k - 1], A, C)
    BY <1>5
  <2>7. s[k] \in A /\ B = A \ {s[k]} /\ D = C \cap (B \X B)
    BY <2>2, <2>3, <2>4
  <2> HIDE DEF A, B, C, D
  <2>8. Chained(f[k], B, D)
    BY <2>5, <2>6, <2>7, UnlinkedKeeps
  <2> QED BY <2>8 DEF B, D
<1>6. W = {}
  <2> SUFFICES ASSUME W # {} PROVE FALSE
    OBVIOUS
  <2> HIDE DEF I
  <2>1. W \subseteq Nat
    OBVIOUS
  <2>2. PICK m \in W : \A k \in W : m <= k
    BY <2>1, Least
  <2>3. m # 0
    BY <1>4, <2>2
  <2>4. m \in 0 .. n /\ m - 1 \in 0 .. n
    BY <1>1, <2>2, <2>3
  <2>5. m - 1 \notin W
    BY <2>2, <2>4
  <2>6. I(m - 1)
    BY <2>4, <2>5
  <2> QED BY <1>5, <2>2, <2>3, <2>4, <2>6
<1>7. I(n)
  <2> HIDE DEF I
  <2> QED BY <1>1, <1>6
<1>8. Rest(n) = T \ R
  BY <1>1
<1> QED BY <1>2, <1>7, <1>8
-----------------------------------------------------------------------------
(* CDHashMap: its entries are objects of the context, so that the proofs of  *)
(* ContextScopes apply to them.                                              *)
Scopes == INSTANCE ContextScopesProofs WITH
  Obj <- Key, Val <- Map!Entry, Default <- Map!NotIn, MaxLevel <- MaxMapLevel,
  level <- mapLevel, scope <- mapScope

(* What the entry of key k is like: an object on the heap, in the bottom     *)
(* scope if anywhere, and put into the map by whoever wrote it elsewhere.    *)
EntryShape(k) ==
  /\ Scopes!Alive(k) => version[0][k] # Absent
  /\ \A s \in Scopes!Level \ {0} : version[s][k] # Absent => version[s][k].map

(* The d_map of the live entry is set, or null.                              *)
Listed(k) == Scopes!Alive(k) /\ version[mapScope[k]][k].map
Dropped(k) == Scopes!Alive(k) /\ ~ version[mapScope[k]][k].map

(* The invariant of the map.                                                 *)
EntriesInv ==
  /\ Scopes!IInv
  /\ \A k \in Key : EntryShape(k)
  /\ table = {k \in Key : Listed(k)} /\ garbage = {k \in Key : Dropped(k)}

MapInv == EntriesInv /\ IsFiniteSet(table) /\ Chained(ring, table, before)

LEMMA ScopesAssumptions ==
  /\ Map!NotIn \in Map!Entry /\ Absent \notin Map!Entry /\ MaxMapLevel \in Nat
  /\ \A d \in Val : Map!In(d) \in Map!Entry /\ Map!In(d).map
  /\ ~ Map!NotIn.map
BY ContainersAssumption DEF Map!NotIn, Map!Entry, Map!In

LEMMA ScopesFacts ==
  ASSUME EntriesInv
  PROVE /\ mapLevel \in Nat /\ mapLevel \in Scopes!Level /\ 0 \in Scopes!Level
        /\ version \in [Scopes!Level -> [Key -> Map!Entry \cup {Absent}]]
        /\ mapScope \in [Key -> Scopes!Level \cup {Scopes!NoScope}]
        /\ restore \in [Scopes!Level -> [Key -> Scopes!Level \cup {Scopes!NoScope}]]
        /\ Scopes!NoScope = -1 /\ Scopes!Level = 0 .. MaxMapLevel
BY ScopesAssumptions DEF EntriesInv, Scopes!IInv, Scopes!TypeOK, Scopes!Level, Scopes!NoScope

(* When nothing is in the trash, a key that is not in the table has no entry. *)
LEMMA NoEntry ==
  ASSUME EntriesInv, Map!Idle, NEW k \in Key, k \notin table
  PROVE ~ Scopes!Alive(k) /\ \A s \in Scopes!Level : version[s][k] = Absent
<1>1. ~ Scopes!Alive(k)
  BY DEF EntriesInv, Map!Idle, Listed, Dropped
<1> QED BY <1>1, ScopesAssumptions, Scopes!Fresh DEF EntriesInv

(* The table follows an insertion or an overwriting of the entry of key k,   *)
(* which leaves the other entries alone.                                     *)
LEMMA EntriesWritten ==
  ASSUME EntriesInv, Map!Idle, Scopes!IInv', NEW k \in Key,
         mapScope'[k] \in Scopes!Level, version'[mapScope'[k]][k].map,
         version'[0][k] # Absent,
         \A s \in Scopes!Level \ {0} :
           version'[s][k] # Absent => version'[s][k].map,
         \A j \in Key \ {k} : /\ mapScope'[j] = mapScope[j]
                              /\ \A s \in Scopes!Level : version'[s][j] = version[s][j],
         table' = table \cup {k}, UNCHANGED garbage
  PROVE EntriesInv'
<1>1. \A j \in Key \ {k} : EntryShape(j)'
  <2> SUFFICES ASSUME NEW j \in Key \ {k} PROVE EntryShape(j)'
    OBVIOUS
  <2>1. EntryShape(j)
    BY DEF EntriesInv
  <2> QED BY <2>1, ScopesFacts DEF EntryShape, Scopes!Alive
<1>2. EntryShape(k)'
  BY DEF EntryShape
<1>3. Listed(k)' /\ ~ Dropped(k)'
  BY ScopesFacts DEF Listed, Dropped, Scopes!Alive
<1>4. \A j \in Key \ {k} : (Listed(j)' <=> Listed(j)) /\ (Dropped(j)' <=> Dropped(j))
  BY ScopesFacts DEF Listed, Dropped, Scopes!Alive
<1>5. table' = {j \in Key : Listed(j)'}
  BY <1>3, <1>4 DEF EntriesInv
<1>6. k \notin garbage
  BY DEF Map!Idle
<1>7. garbage' = {j \in Key : Dropped(j)'}
  BY <1>3, <1>4, <1>6 DEF EntriesInv
<1> QED BY <1>1, <1>2, <1>5, <1>7 DEF EntriesInv

LEMMA InsertNewKeeps ==
  ASSUME EntriesInv, NEW k \in Key, NEW d \in Val, Map!InsertNew(k, d)
  PROVE EntriesInv'
<1> DEFINE v == Map!In(d)
<1>1. /\ Map!Idle /\ k \notin table /\ table' = table \cup {k} /\ UNCHANGED garbage
      /\ Map!C!New(k, v)
  BY DEF Map!InsertNew
<1>2. Scopes!New(k, v)
  BY <1>1 DEF Map!C!New, Scopes!New, Map!C!Alive, Scopes!Alive, Map!C!NoScope, Scopes!NoScope,
              Map!C!Level, Scopes!Level
<1>3. v \in Map!Entry /\ v.map
  BY ScopesAssumptions
<1> HIDE DEF v
<1>4. /\ mapLevel' = mapLevel /\ \A p \in Key : mapScope'[p] = IF p = k THEN mapLevel ELSE mapScope[p]
      /\ version' = [s \in Scopes!Level |->
                       [p \in Key |-> IF p # k THEN version[s][p]
                                      ELSE IF s = mapLevel THEN v
                                      ELSE IF s = 0 THEN Map!NotIn ELSE Absent]]
  BY <1>2, ScopesFacts DEF Scopes!New
<1>5. \A s \in Scopes!Level, p \in Key :
        version'[s][p] = IF p # k THEN version[s][p]
                         ELSE IF s = mapLevel THEN v
                         ELSE IF s = 0 THEN Map!NotIn ELSE Absent
  BY <1>4
<1>6. Scopes!TypeOK'
  <2>1. version' \in [Scopes!Level -> [Key -> Map!Entry \cup {Absent}]]
    <3>1. \A s \in Scopes!Level, p \in Key : version[s][p] \in Map!Entry \cup {Absent}
      BY ScopesFacts
    <3> QED BY <1>3, <1>4, <3>1, ScopesAssumptions
  <2>2. mapScope' \in [Key -> Scopes!Level \cup {Scopes!NoScope}]
    BY <1>2, ScopesFacts DEF Scopes!New
  <2>3. restore' \in [Scopes!Level -> [Key -> Scopes!Level \cup {Scopes!NoScope}]]
    BY <1>2, ScopesFacts DEF Scopes!New
  <2>4. mapLevel' \in Scopes!Level
    BY <1>4, ScopesFacts
  <2> QED BY <2>1, <2>2, <2>3, <2>4 DEF Scopes!TypeOK, Scopes!Level
<1>7. Scopes!IInv'
  BY <1>2, <1>3, <1>6, ScopesAssumptions, Scopes!NewKeeps DEF EntriesInv
<1> QED BY <1>1, <1>3, <1>4, <1>5, <1>7, ScopesAssumptions, ScopesFacts, EntriesWritten

LEMMA OverwriteKeeps ==
  ASSUME EntriesInv, NEW k \in Key, NEW d \in Val, Map!Overwrite(k, d)
  PROVE EntriesInv'
<1> DEFINE v == Map!In(d)
<1>1. Map!Idle /\ k \in table /\ UNCHANGED <<table, garbage>> /\ Map!C!Set(k, v)
  BY DEF Map!Overwrite
<1>2. Scopes!Set(k, v)
  BY <1>1 DEF Map!C!Set, Scopes!Set, Map!C!Alive, Scopes!Alive, Map!C!NoScope, Scopes!NoScope
<1>3. v \in Map!Entry /\ v.map
  BY ScopesAssumptions
<1> HIDE DEF v
<1>4. /\ mapLevel' = mapLevel /\ Scopes!Alive(k)
      /\ version' = [version EXCEPT ![mapLevel][k] = v]
      /\ IF mapScope[k] = mapLevel THEN mapScope' = mapScope /\ restore' = restore
         ELSE /\ restore' = [restore EXCEPT ![mapLevel][k] = mapScope[k]]
              /\ mapScope' = [mapScope EXCEPT ![k] = mapLevel]
  BY <1>2 DEF Scopes!Set
<1>5. \A s \in Scopes!Level, p \in Key :
        version'[s][p] = IF p = k /\ s = mapLevel THEN v ELSE version[s][p]
  BY <1>4, ScopesFacts
<1>6. \A p \in Key : mapScope'[p] = IF p = k THEN mapLevel ELSE mapScope[p]
  BY <1>4, ScopesFacts
<1>7. Scopes!TypeOK'
  <2>1. version' \in [Scopes!Level -> [Key -> Map!Entry \cup {Absent}]]
    BY <1>3, <1>4, ScopesFacts
  <2>2. mapScope' \in [Key -> Scopes!Level \cup {Scopes!NoScope}]
    BY <1>4, ScopesFacts
  <2>3. restore' \in [Scopes!Level -> [Key -> Scopes!Level \cup {Scopes!NoScope}]]
    BY <1>4, ScopesFacts
  <2>4. mapLevel' \in Scopes!Level
    BY <1>4, ScopesFacts
  <2> QED BY <2>1, <2>2, <2>3, <2>4 DEF Scopes!TypeOK, Scopes!Level
<1>8. Scopes!IInv'
  BY <1>2, <1>3, <1>7, ScopesAssumptions, Scopes!SetKeeps DEF EntriesInv
<1>9. EntryShape(k)
  BY DEF EntriesInv
<1>10. version'[0][k] # Absent
  BY <1>3, <1>4, <1>5, <1>9, ScopesAssumptions, ScopesFacts DEF EntryShape
<1>11. \A s \in Scopes!Level \ {0} : version'[s][k] # Absent => version'[s][k].map
  BY <1>3, <1>5, <1>9 DEF EntryShape
<1>12. table' = table \cup {k}
  BY <1>1
<1> QED BY <1>1, <1>3, <1>5, <1>6, <1>8, <1>10, <1>11, <1>12, ScopesFacts, EntriesWritten

LEMMA InsertAtContextLevelZeroKeeps ==
  ASSUME EntriesInv, NEW k \in Key, NEW d \in Val, Map!InsertAtContextLevelZero(k, d)
  PROVE EntriesInv'
<1> DEFINE v == Map!In(d)
<1>1. /\ Map!Idle /\ k \notin table /\ table' = table \cup {k}
      /\ version' = [version EXCEPT ![0][k] = v] /\ mapScope' = [mapScope EXCEPT ![k] = 0]
      /\ mapLevel' = mapLevel /\ restore' = restore /\ UNCHANGED garbage
  BY DEF Map!InsertAtContextLevelZero
<1>2. v \in Map!Entry /\ v.map
  BY ScopesAssumptions
<1> HIDE DEF v
<1>3. ~ Scopes!Alive(k) /\ \A s \in Scopes!Level : version[s][k] = Absent
  BY <1>1, NoEntry
<1>4. /\ \A s \in Scopes!Level, p \in Key :
           version'[s][p] = IF p = k /\ s = 0 THEN v ELSE version[s][p]
      /\ \A p \in Key : mapScope'[p] = IF p = k THEN 0 ELSE mapScope[p]
  BY <1>1, ScopesFacts
<1>5. Scopes!TypeOK'
  <2>1. version' \in [Scopes!Level -> [Key -> Map!Entry \cup {Absent}]]
    BY <1>1, <1>2, ScopesFacts
  <2>2. mapScope' \in [Key -> Scopes!Level \cup {Scopes!NoScope}]
    BY <1>1, ScopesFacts
  <2> QED BY <1>1, <2>1, <2>2, ScopesFacts DEF Scopes!TypeOK, Scopes!Level
<1>6. 0 \in 0 .. mapLevel
  BY ScopesFacts
<1>7. Scopes!IInv'
  BY <1>1, <1>2, <1>3, <1>5, <1>6, ScopesAssumptions, Scopes!PlaceKeeps DEF EntriesInv
<1>8. \A s \in Scopes!Level \ {0} : version'[s][k] # Absent => version'[s][k].map
  BY <1>3, <1>4
<1> QED BY <1>1, <1>2, <1>4, <1>7, <1>8, ScopesAssumptions, ScopesFacts, EntriesWritten

(* Nothing has an entry: at the start, and when the map is cleared.          *)
LEMMA NoEntries ==
  ASSUME mapLevel \in Scopes!Level,
         version = [s \in Scopes!Level |-> [k \in Key |-> Absent]],
         restore = [s \in Scopes!Level |-> [k \in Key |-> Scopes!NoScope]],
         mapScope = [k \in Key |-> Scopes!NoScope],
         table = {}, garbage = {}
  PROVE EntriesInv
<1>1. /\ \A s \in Scopes!Level, k \in Key : version[s][k] = Absent /\ restore[s][k] = Scopes!NoScope
      /\ \A k \in Key : mapScope[k] = Scopes!NoScope
      /\ Scopes!NoScope = -1 /\ Scopes!Level = 0 .. MaxMapLevel
  BY DEF Scopes!NoScope, Scopes!Level
<1>2. Scopes!TypeOK
  BY DEF Scopes!TypeOK, Scopes!NoScope, Scopes!Level
<1>3. Scopes!RestoreChain
  BY <1>1 DEF Scopes!RestoreChain, Scopes!RestoreAt, Scopes!NoScope, Scopes!Level
<1>4. Scopes!LiveIsNewest
  BY <1>1 DEF Scopes!LiveIsNewest, Scopes!Alive, Scopes!NoScope, Scopes!Level
<1>5. Scopes!Visibility
  BY <1>1 DEF Scopes!Visibility, Scopes!Sees, Scopes!NoScope, Scopes!Level
<1>6. \A k \in Key : EntryShape(k) /\ ~ Listed(k) /\ ~ Dropped(k)
  BY <1>1 DEF EntryShape, Listed, Dropped, Scopes!Alive
<1> QED BY <1>2, <1>3, <1>4, <1>5, <1>6 DEF EntriesInv, Scopes!IInv

LEMMA EntriesStart ==
  ASSUME Map!Init
  PROVE EntriesInv
<1>1. mapLevel \in Scopes!Level
  BY ScopesAssumptions DEF Map!Init, Map!C!Init, Scopes!Level
<1> QED BY <1>1, NoEntries DEF Map!Init, Map!C!Init, Map!C!Level, Map!C!NoScope,
                               Scopes!Level, Scopes!NoScope

LEMMA ClearKeeps ==
  ASSUME EntriesInv, Map!Clear
  PROVE EntriesInv'
<1>1. /\ mapLevel' = mapLevel /\ table' = {} /\ garbage' = {}
      /\ version' = [s \in Scopes!Level |-> [k \in Key |-> Absent]]
      /\ restore' = [s \in Scopes!Level |-> [k \in Key |-> Scopes!NoScope]]
      /\ mapScope' = [k \in Key |-> Scopes!NoScope]
  BY DEF Map!Clear, Map!Idle, Map!C!Level, Map!C!NoScope, Scopes!Level, Scopes!NoScope
<1>2. (mapLevel \in Scopes!Level)'
  BY <1>1, ScopesFacts DEF Scopes!Level
<1>3. /\ (version = [s \in Scopes!Level |-> [k \in Key |-> Absent]])'
      /\ (restore = [s \in Scopes!Level |-> [k \in Key |-> Scopes!NoScope]])'
      /\ (mapScope = [k \in Key |-> Scopes!NoScope])'
      /\ (table = {})' /\ (garbage = {})'
  BY <1>1 DEF Scopes!Level, Scopes!NoScope
<1>4. (/\ mapLevel \in Scopes!Level
       /\ version = [s \in Scopes!Level |-> [k \in Key |-> Absent]]
       /\ restore = [s \in Scopes!Level |-> [k \in Key |-> Scopes!NoScope]]
       /\ mapScope = [k \in Key |-> Scopes!NoScope]
       /\ table = {} /\ garbage = {}
       => EntriesInv)'
  BY NoEntries, PTL
<1> QED BY <1>2, <1>3, <1>4

LEMMA MapPushKeeps ==
  ASSUME EntriesInv, Map!Push
  PROVE EntriesInv'
<1>1. /\ mapLevel < MaxMapLevel /\ mapLevel' = mapLevel + 1
      /\ UNCHANGED <<version, mapScope, restore, table, garbage>> /\ Scopes!Push
  BY DEF Map!Push, Map!C!Push, Scopes!Push
<1>2. Scopes!TypeOK'
  <2>1. mapLevel \in 0 .. MaxMapLevel /\ MaxMapLevel \in Nat
    BY ScopesFacts, ScopesAssumptions
  <2>2. mapLevel' \in 0 .. MaxMapLevel
    BY <1>1, <2>1
  <2>3. Scopes!TypeOK
    BY DEF EntriesInv, Scopes!IInv
  <2> QED BY <1>1, <2>2, <2>3 DEF Scopes!TypeOK, Scopes!Level, Scopes!NoScope
<1>3. Scopes!IInv'
  BY <1>1, <1>2, ScopesAssumptions, Scopes!PushKeeps DEF EntriesInv
<1>4. \A k \in Key : (EntryShape(k)' <=> EntryShape(k)) /\ (Listed(k)' <=> Listed(k))
                     /\ (Dropped(k)' <=> Dropped(k))
  BY <1>1 DEF EntryShape, Listed, Dropped, Scopes!Alive, Scopes!Level, Scopes!NoScope
<1> QED BY <1>1, <1>3, <1>4 DEF EntriesInv

(* restore() drops the entries whose insertion is undone, and no other.      *)
LEMMA PopScopeKeeps ==
  ASSUME EntriesInv, Map!PopScope
  PROVE EntriesInv' /\ Map!Removed \subseteq table
<1>1. /\ garbage = {} /\ table' = table \ Map!Removed /\ garbage' = Map!Removed
      /\ Scopes!Pop
  BY DEF Map!PopScope, Map!Idle, Map!C!Pop, Scopes!Pop, Map!C!ChainOf, Scopes!ChainOf,
         Map!C!NoScope, Scopes!NoScope
<1>2. /\ mapLevel > 0 /\ mapLevel' = mapLevel - 1
      /\ mapScope' = [k \in Key |-> IF k \in Scopes!ChainOf(mapLevel)
                                    THEN restore[mapLevel][k] ELSE mapScope[k]]
      /\ version' = [version EXCEPT ![mapLevel] = [k \in Key |-> Absent]]
      /\ restore' = [restore EXCEPT ![mapLevel] = [k \in Key |-> Scopes!NoScope]]
  BY <1>1 DEF Scopes!Pop
<1>3. /\ \A k \in Key : mapScope'[k] = IF version[mapLevel][k] # Absent
                                       THEN restore[mapLevel][k] ELSE mapScope[k]
      /\ \A s \in Scopes!Level, k \in Key :
           version'[s][k] = IF s = mapLevel THEN Absent ELSE version[s][k]
  BY <1>2, ScopesFacts DEF Scopes!ChainOf
<1>4. Scopes!TypeOK'
  <2>1. version' \in [Scopes!Level -> [Key -> Map!Entry \cup {Absent}]]
    BY <1>2, ScopesFacts
  <2>2. mapScope' \in [Key -> Scopes!Level \cup {Scopes!NoScope}]
    BY <1>2, ScopesFacts
  <2>3. restore' \in [Scopes!Level -> [Key -> Scopes!Level \cup {Scopes!NoScope}]]
    BY <1>2, ScopesFacts
  <2>4. mapLevel' \in Scopes!Level
    <3>1. mapLevel \in 0 .. MaxMapLevel /\ MaxMapLevel \in Nat
      BY ScopesFacts, ScopesAssumptions
    <3> QED BY <1>2, <3>1, ScopesFacts
  <2> QED BY <2>1, <2>2, <2>3, <2>4 DEF Scopes!TypeOK, Scopes!Level, Scopes!NoScope
<1>5. Scopes!IInv'
  BY <1>1, <1>4, ScopesAssumptions, Scopes!PopKeeps DEF EntriesInv
<1>6. \A k \in Key :
        /\ Scopes!RestoreAt(k, mapLevel)
        /\ Scopes!Alive(k) => mapScope[k] <= mapLevel /\ version[mapScope[k]][k] # Absent
        /\ \A t \in Scopes!Level : mapScope[k] < t => version[t][k] = Absent
        /\ EntryShape(k)
  BY ScopesFacts DEF EntriesInv, Scopes!IInv, Scopes!RestoreChain, Scopes!LiveIsNewest
\* An entry that was not written in the scope stays as it is.
<1>7. ASSUME NEW k \in Key, version[mapLevel][k] = Absent
      PROVE /\ k \notin Map!Removed
            /\ Listed(k)' <=> Listed(k)
            /\ Dropped(k)' <=> Dropped(k)
            /\ EntryShape(k)'
  <2>1. mapScope'[k] = mapScope[k]
    BY <1>3, <1>7
  <2>2. Scopes!Alive(k) => mapScope[k] \in Scopes!Level /\ mapScope[k] # mapLevel
    BY <1>6, <1>7, ScopesFacts DEF Scopes!Alive
  <2>3. Scopes!Alive(k) => version'[mapScope[k]][k] = version[mapScope[k]][k]
    BY <1>3, <2>2
  <2>4. k \notin Map!Removed
    BY <1>7 DEF Map!Removed, Map!C!ChainOf
  <2>5. EntryShape(k)'
    BY <1>2, <1>3, <1>6, <2>1, ScopesFacts DEF EntryShape, Scopes!Alive
  <2> QED BY <2>1, <2>3, <2>4, <2>5 DEF Listed, Dropped, Scopes!Alive
\* An entry that was written there goes back to its saved copy, which says
\* whether it was in the map then.
<1>8. ASSUME NEW k \in Key, version[mapLevel][k] # Absent
      PROVE /\ Listed(k)
            /\ k \in Map!Removed => Dropped(k)' /\ ~ Listed(k)'
            /\ k \notin Map!Removed => Listed(k)' /\ ~ Dropped(k)'
            /\ EntryShape(k)'
  <2> DEFINE p == restore[mapLevel][k]
  <2>1. Scopes!Alive(k) /\ mapScope[k] = mapLevel
    BY <1>6, <1>8, ScopesFacts DEF Scopes!Alive
  <2>2. Listed(k)
    BY <1>2, <1>6, <1>8, <2>1, ScopesFacts DEF Listed, EntryShape
  <2>3. version[0][k] # Absent
    BY <1>6, <2>1 DEF EntryShape
  <2>4. /\ p < mapLevel /\ p \in Scopes!Level \cup {Scopes!NoScope}
        /\ p # Scopes!NoScope => version[p][k] # Absent
        /\ \A t \in Scopes!Level : p < t /\ t < mapLevel => version[t][k] = Absent
    BY <1>6, <1>8, ScopesFacts DEF Scopes!RestoreAt
  <2>5. p # Scopes!NoScope
    BY <1>2, <2>3, <2>4, ScopesFacts
  <2>6. /\ mapScope'[k] = p /\ p \in Scopes!Level /\ p # mapLevel
        /\ version'[p][k] = version[p][k] /\ version'[0][k] = version[0][k]
    BY <1>2, <1>3, <1>8, <2>4, <2>5, ScopesFacts
  <2>7. Scopes!Alive(k)'
    BY <2>5, <2>6 DEF Scopes!Alive, Scopes!NoScope
  <2>8. k \in Map!Removed <=> ~ version[p][k].map
    BY <1>8, <2>5 DEF Map!Removed, Map!C!ChainOf, Map!C!NoScope, Scopes!NoScope
  <2>9. EntryShape(k)'
    BY <1>3, <1>6, <2>3, <2>6 DEF EntryShape, Scopes!Level
  <2> QED BY <2>2, <2>6, <2>7, <2>8, <2>9 DEF Listed, Dropped
<1>9. Map!Removed \subseteq Key
  BY DEF Map!Removed, Map!C!ChainOf
<1>10. Map!Removed \subseteq table
  BY <1>7, <1>8, <1>9 DEF EntriesInv
<1>11. \A k \in Key : EntryShape(k)'
  BY <1>7, <1>8
<1>12. table' = {k \in Key : Listed(k)'}
  <2>1. \A k \in Key : Listed(k)' <=> Listed(k) /\ k \notin Map!Removed
    BY <1>7, <1>8
  <2> QED BY <1>1, <2>1 DEF EntriesInv
<1>13. garbage' = {k \in Key : Dropped(k)'}
  <2>1. \A k \in Key : ~ Dropped(k)
    BY <1>1 DEF EntriesInv
  <2>2. \A k \in Key : Dropped(k)' <=> k \in Map!Removed
    BY <1>7, <1>8, <2>1
  <2> QED BY <1>1, <1>9, <2>2
<1> QED BY <1>5, <1>10, <1>11, <1>12, <1>13 DEF EntriesInv

LEMMA CollectKeeps ==
  ASSUME EntriesInv, NEW k \in Key, Map!Collect(k)
  PROVE EntriesInv'
<1>1. /\ k \in garbage /\ garbage' = garbage \ {k} /\ table' = table /\ Scopes!Destroy(k)
  BY DEF Map!Collect, Map!C!Destroy, Scopes!Destroy, Map!C!Alive, Scopes!Alive,
         Map!C!NoScope, Scopes!NoScope, Map!C!Level, Scopes!Level
<1>2. /\ mapLevel' = mapLevel /\ mapScope' = [mapScope EXCEPT ![k] = Scopes!NoScope]
      /\ version' = [s \in Scopes!Level |-> [version[s] EXCEPT ![k] = Absent]]
      /\ restore' = [s \in Scopes!Level |-> [restore[s] EXCEPT ![k] = Scopes!NoScope]]
  BY <1>1 DEF Scopes!Destroy
<1>3. /\ \A p \in Key : mapScope'[p] = IF p = k THEN Scopes!NoScope ELSE mapScope[p]
      /\ \A s \in Scopes!Level, p \in Key :
           version'[s][p] = IF p = k THEN Absent ELSE version[s][p]
  BY <1>2, ScopesFacts
<1>4. Scopes!TypeOK'
  <2>1. version' \in [Scopes!Level -> [Key -> Map!Entry \cup {Absent}]]
    <3>1. \A s \in Scopes!Level : version[s] \in [Key -> Map!Entry \cup {Absent}]
      BY ScopesFacts
    <3> QED BY <1>2, <3>1
  <2>2. mapScope' \in [Key -> Scopes!Level \cup {Scopes!NoScope}]
    BY <1>2, ScopesFacts
  <2>3. restore' \in [Scopes!Level -> [Key -> Scopes!Level \cup {Scopes!NoScope}]]
    <3>1. \A s \in Scopes!Level : restore[s] \in [Key -> Scopes!Level \cup {Scopes!NoScope}]
      BY ScopesFacts
    <3> QED BY <1>2, <3>1
  <2>4. mapLevel' \in Scopes!Level
    BY <1>2, ScopesFacts
  <2> QED BY <2>1, <2>2, <2>3, <2>4 DEF Scopes!TypeOK, Scopes!Level, Scopes!NoScope
<1>5. Scopes!IInv'
  BY <1>1, <1>4, ScopesAssumptions, Scopes!DestroyKeeps DEF EntriesInv
<1>6. ~ Listed(k)' /\ ~ Dropped(k)' /\ EntryShape(k)'
  BY <1>3 DEF Listed, Dropped, EntryShape, Scopes!Alive, Scopes!Level, Scopes!NoScope
<1>7. ASSUME NEW p \in Key, p # k
      PROVE (Listed(p)' <=> Listed(p)) /\ (Dropped(p)' <=> Dropped(p)) /\ EntryShape(p)'
  <2>1. mapScope'[p] = mapScope[p] /\ \A s \in Scopes!Level : version'[s][p] = version[s][p]
    BY <1>3, <1>7
  <2>2. mapScope[p] \in Scopes!Level \cup {Scopes!NoScope}
    BY ScopesFacts
  <2>3. EntryShape(p)
    BY DEF EntriesInv
  <2> QED BY <2>1, <2>2, <2>3, ScopesFacts DEF Listed, Dropped, EntryShape, Scopes!Alive
<1>8. k \notin table
  BY <1>1 DEF EntriesInv, Listed, Dropped
<1>9. \A p \in Key : EntryShape(p)'
  BY <1>6, <1>7
<1>10. table' = {p \in Key : Listed(p)'} /\ garbage' = {p \in Key : Dropped(p)'}
  BY <1>1, <1>6, <1>7, <1>8 DEF EntriesInv
<1> QED BY <1>5, <1>9, <1>10 DEF EntriesInv

LEMMA MapStarts ==
  ASSUME Map!Init
  PROVE MapInv
<1>1. table = {} /\ ring = Map!EmptyRing /\ before = {}
  BY DEF Map!Init
<1>2. Chained(Map!EmptyRing, {}, {})
  BY DEF Chained, Orders, FirstIn, Map!EmptyRing, Map!Ring
<1> QED BY <1>1, <1>2, EntriesStart, FS_EmptySet DEF MapInv

(* An entry that is new to the map goes to the end of the ring.              *)
LEMMA LinkKeeps ==
  ASSUME MapInv, EntriesInv', NEW k \in Key, k \notin table,
         table' = table \cup {k}, ring' = Map!Linked(ring, k),
         before' = before \cup (table \X {k})
  PROVE MapInv'
<1>1. Chained(ring', table', before')
  BY LinkedKeeps DEF MapInv
<1>2. IsFiniteSet(table')
  BY FS_AddElement DEF MapInv
<1> QED BY <1>1, <1>2 DEF MapInv

LEMMA MapStepKeeps ==
  ASSUME MapInv, Map!Next
  PROVE MapInv'
<1>0. EntriesInv
  BY DEF MapInv
<1>1. ASSUME NEW k \in Key, NEW d \in Val, Map!InsertNew(k, d)
      PROVE MapInv'
  <2>1. EntriesInv'
    BY <1>0, <1>1, InsertNewKeeps
  <2> QED BY <1>1, <2>1, LinkKeeps DEF Map!InsertNew
<1>2. ASSUME NEW k \in Key, NEW d \in Val, Map!Overwrite(k, d)
      PROVE MapInv'
  <2>1. EntriesInv'
    BY <1>0, <1>2, OverwriteKeeps
  <2> QED BY <1>2, <2>1 DEF Map!Overwrite, MapInv
<1>3. ASSUME NEW k \in Key, NEW d \in Val, Map!InsertAtContextLevelZero(k, d)
      PROVE MapInv'
  <2>1. EntriesInv'
    BY <1>0, <1>3, InsertAtContextLevelZeroKeeps
  <2> QED BY <1>3, <2>1, LinkKeeps DEF Map!InsertAtContextLevelZero
<1>4. ASSUME Map!Clear
      PROVE MapInv'
  <2>1. EntriesInv'
    BY <1>0, <1>4, ClearKeeps
  <2>2. table' = {} /\ ring' = Map!EmptyRing /\ before' = {}
    BY <1>4 DEF Map!Clear
  <2>3. Chained(Map!EmptyRing, {}, {})
    BY DEF Chained, Orders, FirstIn, Map!EmptyRing, Map!Ring
  <2> QED BY <2>1, <2>2, <2>3, FS_EmptySet DEF MapInv
<1>5. ASSUME Map!Push
      PROVE MapInv'
  <2>1. EntriesInv'
    BY <1>0, <1>5, MapPushKeeps
  <2> QED BY <1>5, <2>1 DEF Map!Push, MapInv
<1>6. ASSUME Map!PopScope
      PROVE MapInv'
  <2>1. EntriesInv' /\ Map!Removed \subseteq table
    BY <1>0, <1>6, PopScopeKeeps
  <2> DEFINE R == Map!Removed
             U == table \ R
  <2>2. PICK order \in Map!SetToSeqs(R) : ring' = Map!UnlinkedAll(ring, order)
    BY <1>6 DEF Map!PopScope
  <2>3. table' = U /\ before' = before \cap (U \X U)
    BY <1>6 DEF Map!PopScope
  <2>4. IsFiniteSet(R) /\ IsFiniteSet(U)
    <3>1. IsFiniteSet(table) /\ U \subseteq table
      BY DEF MapInv
    <3> QED BY <2>1, <3>1, FS_Subset
  <2>5. R \subseteq table /\ Chained(ring, table, before)
    BY <2>1 DEF MapInv
  <2> HIDE DEF R
  <2>6. Chained(Map!UnlinkedAll(ring, order), U, before \cap (U \X U))
    BY <2>4, <2>5, UnlinkedAllKeeps
  <2> QED BY <2>1, <2>2, <2>3, <2>4, <2>6 DEF MapInv
<1>7. ASSUME NEW k \in Key, Map!Collect(k)
      PROVE MapInv'
  <2>1. EntriesInv'
    BY <1>0, <1>7, CollectKeeps
  <2> QED BY <1>7, <2>1 DEF Map!Collect, MapInv
<1> QED BY <1>1, <1>2, <1>3, <1>4, <1>5, <1>6, <1>7 DEF Map!Next

(* What the invariant of the map says of iteration, of the trash and of      *)
(* lookups.                                                                  *)
LEMMA MapIsSafe ==
  ASSUME MapInv
  PROVE /\ Map!TypeOK /\ Map!RingIsInsertionOrder
        /\ Map!NoEntryIsLost /\ Map!TableIsCurrent
<1>0. EntriesInv /\ Chained(ring, table, before)
  BY DEF MapInv
<1>1. Map!TypeOK
  <2>1. Map!C!TypeOK
    BY <1>0 DEF EntriesInv, Scopes!IInv, Scopes!TypeOK, Map!C!TypeOK, Scopes!Level,
                Map!C!Level, Scopes!NoScope, Map!C!NoScope
  <2>2. table \subseteq Key /\ garbage \subseteq Key
    BY <1>0 DEF EntriesInv
  <2> QED BY <1>0, <2>1, <2>2 DEF Map!TypeOK, Chained, Orders
<1>2. Map!RingIsInsertionOrder
  BY <1>0 DEF Map!RingIsInsertionOrder, Chained, FirstIn, NextIn
<1>3. Map!NoEntryIsLost
  <2>1. {k \in Key : Map!C!Alive(k)} = table \cup garbage /\ table \cap garbage = {}
    BY <1>0 DEF EntriesInv, Listed, Dropped, Scopes!Alive, Map!C!Alive, Scopes!NoScope,
                Map!C!NoScope
  <2>2. ASSUME NEW k \in garbage
        PROVE mapScope[k] = 0 /\ restore[0][k] = Map!C!NoScope
    <3>1. k \in Key /\ Scopes!Alive(k) /\ ~ version[mapScope[k]][k].map
      BY <1>0, <2>2 DEF EntriesInv, Dropped
    <3>2. /\ EntryShape(k) /\ Scopes!RestoreAt(k, 0)
          /\ version[mapScope[k]][k] # Absent /\ mapScope[k] \in Scopes!Level
      BY <1>0, <3>1, ScopesFacts
         DEF EntriesInv, Scopes!IInv, Scopes!RestoreChain, Scopes!LiveIsNewest, Scopes!Alive
    <3>3. mapScope[k] = 0
      BY <3>1, <3>2 DEF EntryShape
    <3>4. restore[0][k] < 0 /\ restore[0][k] \in Scopes!Level \cup {Scopes!NoScope}
      BY <1>0, <3>1, <3>2, <3>3, ScopesFacts DEF Scopes!RestoreAt
    <3>5. restore[0][k] = Scopes!NoScope
      BY <1>0, <3>4, ScopesFacts
    <3> QED BY <3>3, <3>5 DEF Scopes!NoScope, Map!C!NoScope
  <2> QED BY <2>1, <2>2 DEF Map!NoEntryIsLost
<1>4. Map!TableIsCurrent
  <2>1. \A k \in Key : Map!C!ValueAt(k, mapLevel) =
          IF Scopes!Alive(k) THEN version[mapScope[k]][k] ELSE Absent
    <3> SUFFICES ASSUME NEW k \in Key
                 PROVE Map!C!ValueAt(k, mapLevel) =
                         IF Scopes!Alive(k) THEN version[mapScope[k]][k] ELSE Absent
      OBVIOUS
    <3>1. mapLevel \in Scopes!Level /\ mapLevel <= mapLevel
      BY <1>0, ScopesFacts
    <3>2. Scopes!TypeOK /\ Scopes!LiveIsNewest
      BY <1>0 DEF EntriesInv, Scopes!IInv
    <3>3. Scopes!Latest(version, k, mapLevel) =
            IF Scopes!Alive(k) THEN version[mapScope[k]][k] ELSE Absent
      BY <3>1, <3>2, ScopesAssumptions, Scopes!CurrentIsLive
    <3>4. Map!C!Latest(version, k, mapLevel) = Scopes!Latest(version, k, mapLevel)
      BY DEF Map!C!Latest, Scopes!Latest, Map!C!IsVisible, Scopes!IsVisible,
             Map!C!Level, Scopes!Level
    <3> QED BY <3>1, <3>3, <3>4 DEF Map!C!ValueAt
  <2>2. \A k \in Key : Listed(k) <=> Map!C!ValueAt(k, mapLevel) # Absent
                                     /\ Map!C!ValueAt(k, mapLevel).map
    <3>1. \A k \in Key : Scopes!Alive(k) => version[mapScope[k]][k] # Absent
      BY <1>0 DEF EntriesInv, Scopes!IInv, Scopes!LiveIsNewest
    <3> QED BY <2>1, <3>1 DEF Listed
  <2>3. table = {k \in Key : Map!C!ValueAt(k, mapLevel) # Absent
                             /\ Map!C!ValueAt(k, mapLevel).map}
    BY <1>0, <2>2 DEF EntriesInv
  <2>4. Map!EntriesAt(mapLevel) = {<<k, Map!C!ValueAt(k, mapLevel).data>> : k \in table}
    BY <2>3 DEF Map!EntriesAt
  <2> DEFINE E == Map!EntriesAt(mapLevel)
  <2>5. \A k \in table : <<k, Map!C!ValueAt(k, mapLevel).data>> \in E
    BY <2>4
  <2>6. \A e \in E : e[1] \in table
    BY <2>4
  <2> HIDE DEF E
  <2>7. \A k \in table : \E e \in E : e[1] = k
    BY <2>5
  <2>8. {e[1] : e \in E} = table
    BY <2>6, <2>7
  <2> QED BY <2>8 DEF Map!TableIsCurrent, E
<1> QED BY <1>1, <1>2, <1>3, <1>4

-------------------------------------------------------------------------------
(* CDQueue never destroys an element that a pop of the context could bring   *)
(* back.                                                                     *)
USE BoundsAssumption

Copy == [scope : Level, size : Size, iter : Size, lastsave : Size]

(* Appending to and shortening a sequence.                                 *)
LEMMA AppendFacts ==
  ASSUME NEW S, NEW s \in Seq(S), NEW e \in S
  PROVE  /\ Append(s, e) \in Seq(S)
         /\ Append(s, e) # <<>>
         /\ Len(Append(s, e)) = Len(s) + 1
         /\ DOMAIN Append(s, e) = 1 .. Len(s) + 1
         /\ Last(Append(s, e)) = e
         /\ Append(s, e)[Len(s) + 1] = e
         /\ \A i \in 1 .. Len(s) : Append(s, e)[i] = s[i]
BY DEF Last

LEMMA PrefixFacts ==
  ASSUME NEW S, NEW s \in Seq(S), NEW n \in 0 .. Len(s)
  PROVE  /\ SubSeq(s, 1, n) \in Seq(S)
         /\ Len(SubSeq(s, 1, n)) = n
         /\ DOMAIN SubSeq(s, 1, n) = 1 .. n
         /\ SubSeq(s, 1, n) = <<>> <=> n = 0
         /\ \A i \in 1 .. n : SubSeq(s, 1, n)[i] = s[i]
OBVIOUS

LEMMA BoundsAreNatural == MaxLevel \in Nat /\ MaxSize \in Nat
OBVIOUS

LEMMA CopyFields ==
  ASSUME NEW c \in Copy
  PROVE  /\ c.scope \in Nat /\ c.scope \in Level
         /\ c.size \in Nat /\ c.size \in Size
         /\ c.iter \in Nat /\ c.lastsave \in Nat
BY BoundsAreNatural DEF Copy, Level, Size

LEMMA CopyOfNow ==
  ASSUME TypeOK
  PROVE  [scope |-> scope, size |-> Len(list), iter |-> iter, lastsave |-> lastsave] \in Copy
<1>1. scope \in Level /\ Len(list) \in Size
  BY BoundsAreNatural DEF TypeOK, Level
<1>2. iter \in Size /\ lastsave \in Size
  BY <1>1, BoundsAreNatural DEF TypeOK, Size
<1>3. QED
  BY <1>1, <1>2 DEF Copy

(* What the types say of the saved copies.                                 *)
LEMMA SavedFields ==
  ASSUME TypeOK
  PROVE  /\ saved \in Seq(Copy) /\ Len(saved) \in Nat
         /\ DOMAIN saved = 1 .. Len(saved)
         /\ saved = <<>> <=> Len(saved) = 0
         /\ \A i \in 1 .. Len(saved) :
              /\ saved[i] \in Copy
              /\ saved[i].scope \in Nat /\ saved[i].size \in Nat
              /\ saved[i].iter \in Nat /\ saved[i].lastsave \in Nat
<1>1. saved \in Seq(Copy)
  BY DEF TypeOK, Copy
<1>2. \A i \in 1 .. Len(saved) : saved[i] \in Copy
  BY <1>1
<1>3. QED
  BY <1>1, <1>2, CopyFields

(* makeCurrent() adds to the chain a copy of the indices as they were, and *)
(* the mark that save() leaves is the size of that copy: both parts of the *)
(* invariant that concern the chain hold of the new one.                   *)
LEMMA MakeCurrentKeeps ==
  ASSUME IInv, MakeCurrent, lastsave' = MarkAfterSave, level' = level
  PROVE  /\ SavedElementsKept'
         /\ scope' \in 0 .. level
         /\ saved' \in Seq(Copy)
         /\ lastsave' \in 0 .. Len(list)
<1> TypeOK /\ SavedElementsKept
  BY DEF IInv
<1>1. CASE scope = level
  <2>1. UNCHANGED <<scope, saved, lastsave>>
    BY <1>1 DEF MakeCurrent, MarkAfterSave
  <2>2. QED
    BY <2>1, SavedFields DEF SavedElementsKept, Last, TypeOK
<1>2. CASE scope # level
  <2> DEFINE copy == [scope |-> scope, size |-> Len(list),
                      iter |-> iter, lastsave |-> lastsave]
             n == Len(saved)
  <2>1. saved' = Append(saved, copy) /\ scope' = level /\ lastsave' = Len(list)
    BY <1>2 DEF MakeCurrent, MarkAfterSave
  <2>2. copy \in Copy
    BY CopyOfNow
  <2>3. copy.size = Len(list) /\ copy.iter = iter /\ copy.scope = scope
        /\ copy.lastsave = lastsave
    OBVIOUS
  <2> HIDE DEF copy
  <2>4. /\ saved' \in Seq(Copy) /\ saved' # <<>>
        /\ DOMAIN saved' = 1 .. n + 1
        /\ Last(saved') = copy /\ saved'[n + 1] = copy
        /\ \A i \in 1 .. n : saved'[i] = saved[i]
    BY <2>1, <2>2, SavedFields, AppendFacts
  <2>5. n \in Nat /\ (saved = <<>> <=> n = 0) /\ DOMAIN saved = 1 .. n
    BY SavedFields
  <2>6. /\ scope \in Nat /\ level \in Nat /\ scope < level
        /\ Len(list) \in Nat /\ lastsave \in Nat /\ lastsave <= Len(list)
        /\ iter \in Nat /\ iter <= Len(list)
    BY <1>2, BoundsAreNatural DEF TypeOK, Level
  <2> HIDE DEF n
  <2>7. ASSUME NEW i \in 1 .. n
        PROVE  /\ saved[i].iter <= saved[i].size
               /\ saved[i].size <= lastsave
               /\ saved[i].lastsave = IF i = 1 THEN 0 ELSE saved[i - 1].size
               /\ saved[i].scope < scope
               /\ saved[i].scope = 0 <=> i = 1
               /\ \A j \in 1 .. i - 1 : /\ saved[j].scope < saved[i].scope
                                        /\ saved[j].size <= saved[i].size
               /\ saved[i].scope \in Nat /\ saved[i].size \in Nat
    BY <2>5, SavedFields DEF SavedElementsKept, n
  <2>8. lastsave = IF n = 0 THEN 0 ELSE saved[n].size
    BY <2>5 DEF SavedElementsKept, Last, n
  <2>9. scope = 0 <=> n = 0
    BY <2>5 DEF SavedElementsKept
  <2>10. ASSUME NEW i \in 1 .. n + 1
         PROVE  /\ saved'[i].iter <= saved'[i].size
                /\ saved'[i].size <= lastsave'
                /\ saved'[i].lastsave = IF i = 1 THEN 0 ELSE saved'[i - 1].size
                /\ saved'[i].scope < scope'
                /\ saved'[i].scope = 0 <=> i = 1
                /\ \A j \in 1 .. i - 1 : /\ saved'[j].scope < saved'[i].scope
                                         /\ saved'[j].size <= saved'[i].size
    <3>1. CASE i = n + 1
      <4>1. /\ saved'[i].iter <= saved'[i].size
            /\ saved'[i].size <= lastsave'
            /\ saved'[i].scope < scope'
            /\ saved'[i].scope = 0 <=> i = 1
        BY <3>1, <2>1, <2>3, <2>4, <2>5, <2>6, <2>9
      <4>2. saved'[i].lastsave = IF i = 1 THEN 0 ELSE saved'[i - 1].size
        <5>1. CASE n = 0
          BY <5>1, <3>1, <2>3, <2>4, <2>8
        <5>2. CASE n # 0
          <6>1. n \in 1 .. n /\ i - 1 = n /\ i # 1
            BY <5>2, <3>1, <2>5
          <6>2. QED
            BY <6>1, <5>2, <3>1, <2>3, <2>4, <2>8
        <5>3. QED
          BY <5>1, <5>2
      <4>3. ASSUME NEW j \in 1 .. i - 1
            PROVE  saved'[j].scope < saved'[i].scope /\ saved'[j].size <= saved'[i].size
        <5>1. j \in 1 .. n
          BY <3>1, <2>5
        <5>2. saved[j].scope < scope /\ saved[j].size <= lastsave /\ saved[j].size \in Nat
          BY <5>1, <2>7
        <5>3. saved'[j] = saved[j] /\ saved'[i].scope = scope /\ saved'[i].size = Len(list)
          BY <5>1, <3>1, <2>3, <2>4
        <5>4. QED
          BY <5>2, <5>3, <2>6
      <4>4. QED
        BY <4>1, <4>2, <4>3
    <3>2. CASE i # n + 1
      <4>1. i \in 1 .. n
        BY <3>2, <2>5
      <4>2. \A j \in 1 .. i - 1 : j \in 1 .. n
        BY <4>1, <2>5
      <4>3. i # 1 => i - 1 \in 1 .. n
        BY <4>1, <2>5
      <4>4. saved[i].size <= Len(list) /\ saved[i].scope < level
        BY <4>1, <2>6, <2>7
      <4>5. QED
        BY <4>1, <4>2, <4>3, <4>4, <2>1, <2>4, <2>7
    <3>3. QED
      BY <3>1, <3>2
  <2>11. SavedElementsKept'
    <3>1. scope' # 0 /\ saved' # <<>> /\ lastsave' = Last(saved').size
      BY <2>1, <2>3, <2>4, <2>6
    <3>2. QED
      BY <3>1, <2>4, <2>10 DEF SavedElementsKept
  <2>12. QED
    BY <2>1, <2>4, <2>6, <2>11
<1>3. QED
  BY <1>1, <1>2

(* The chain is left as it is by a step that touches neither it nor the    *)
(* mark.                                                                   *)
LEMMA ChainUntouched ==
  ASSUME IInv, UNCHANGED <<scope, lastsave, saved>>
  PROVE  SavedElementsKept'
BY DEF IInv, SavedElementsKept, Last

(* restore() goes back to the newest copy: its size is within the array,   *)
(* its mark is the size of the copy before it, and its scope is below the  *)
(* one that is popped.                                                     *)
LEMMA PopKeeps ==
  ASSUME IInv, Pop
  PROVE  IInv'
<1> TypeOK /\ SavedElementsKept
  BY DEF IInv
<1>1. /\ level' = level - 1 /\ level > 0 /\ level \in Nat /\ scope \in 0 .. level
      /\ level' \in Level
  BY BoundsAreNatural DEF Pop, TypeOK, Level
<1>2. CASE scope < level
  <2>1. UNCHANGED <<scope, list, iter, lastsave, saved>>
    BY <1>2 DEF Pop
  <2>2. SavedElementsKept'
    BY <2>1, ChainUntouched
  <2>3. scope \in 0 .. level'
    BY <1>1, <1>2
  <2>4. QED
    BY <1>1, <2>1, <2>2, <2>3 DEF IInv, TypeOK, Level, Size
<1>3. CASE ~ (scope < level)
  <2> DEFINE e == Last(saved)
             n == Len(saved)
  <2>1. /\ scope' = e.scope
        /\ list' = TruncateList(e.size)
        /\ iter' = e.iter
        /\ lastsave' = e.lastsave
        /\ saved' = Front(saved)
    BY <1>3 DEF Pop
  <2>2. scope = level /\ saved # <<>>
    BY <1>1, <1>3 DEF SavedElementsKept
  <2>3. /\ saved \in Seq(Copy) /\ n \in Nat /\ n # 0
        /\ DOMAIN saved = 1 .. n /\ e = saved[n]
    BY <2>2, SavedFields DEF Last
  <2>4. Front(saved) = SubSeq(saved, 1, n - 1)
    BY DEF Front
  <2> HIDE DEF e, n
  <2>5. ASSUME NEW i \in 1 .. n
        PROVE  /\ saved[i].iter <= saved[i].size
               /\ saved[i].size <= lastsave
               /\ saved[i].lastsave = IF i = 1 THEN 0 ELSE saved[i - 1].size
               /\ saved[i].scope < scope
               /\ saved[i].scope = 0 <=> i = 1
               /\ \A j \in 1 .. i - 1 : /\ saved[j].scope < saved[i].scope
                                        /\ saved[j].size <= saved[i].size
               /\ saved[i].scope \in Nat /\ saved[i].size \in Nat
               /\ saved[i].iter \in Nat /\ saved[i].lastsave \in Nat
    BY <2>3, SavedFields DEF SavedElementsKept, n
  <2>6. n \in 1 .. n /\ e \in Copy
    BY <2>3, SavedFields DEF n
  <2>7. /\ e.iter <= e.size /\ e.size <= lastsave
        /\ e.lastsave = IF n = 1 THEN 0 ELSE saved[n - 1].size
        /\ e.scope < level
        /\ e.scope = 0 <=> n = 1
        /\ \A j \in 1 .. n - 1 : /\ saved[j].scope < e.scope
                                 /\ saved[j].size <= e.size
        /\ e.scope \in Nat /\ e.size \in Nat /\ e.iter \in Nat /\ e.lastsave \in Nat
    BY <2>2, <2>3, <2>5, <2>6
  <2>8. n - 1 \in 0 .. Len(saved)
    BY <2>3 DEF n
  <2>9. /\ saved' \in Seq(Copy)
        /\ DOMAIN saved' = 1 .. n - 1 /\ Len(saved') = n - 1
        /\ saved' = <<>> <=> n - 1 = 0
        /\ \A i \in 1 .. n - 1 : saved'[i] = saved[i]
    <3>1. saved' = SubSeq(saved, 1, n - 1)
      BY <2>1, <2>4
    <3>2. /\ SubSeq(saved, 1, n - 1) \in Seq(Copy)
          /\ Len(SubSeq(saved, 1, n - 1)) = n - 1
          /\ DOMAIN SubSeq(saved, 1, n - 1) = 1 .. n - 1
          /\ SubSeq(saved, 1, n - 1) = <<>> <=> n - 1 = 0
          /\ \A i \in 1 .. n - 1 : SubSeq(saved, 1, n - 1)[i] = saved[i]
      BY <2>3, <2>8, PrefixFacts
    <3>3. QED
      BY <3>1, <3>2
  <2>10. lastsave' = IF saved' = <<>> THEN 0 ELSE Last(saved').size
    <3>1. CASE n = 1
      BY <3>1, <2>1, <2>7, <2>9
    <3>2. CASE n # 1
      <4>1. n - 1 \in 1 .. n - 1 /\ n - 1 # 0
        BY <3>2, <2>3
      <4>2. Last(saved') = saved[n - 1]
        BY <4>1, <2>9 DEF Last
      <4>3. QED
        BY <3>2, <4>1, <4>2, <2>1, <2>7, <2>9
    <3>3. QED
      BY <3>1, <3>2
  <2>11. TypeOK'
    <3>1. e.size \in 0 .. Len(list) /\ list \in Seq(Val)
      BY <2>7 DEF TypeOK
    <3>2. list' \in Seq(Val) /\ Len(list') = e.size
      BY <3>1, <2>1, PrefixFacts DEF TruncateList
    <3>3. e.size \in Size
      BY <2>6, CopyFields
    <3>4. e.lastsave <= e.size
      <4>1. CASE n = 1
        BY <4>1, <2>7
      <4>2. CASE n # 1
        <5>1. n - 1 \in 1 .. n - 1
          BY <4>2, <2>3
        <5>2. QED
          BY <4>2, <5>1, <2>7
      <4>3. QED
        BY <4>1, <4>2
    <3>5. e.iter \in 0 .. e.size /\ e.lastsave \in 0 .. e.size
      BY <3>4, <2>7
    <3>6. e.scope \in 0 .. level'
      BY <1>1, <2>7
    <3>7. QED
      BY <1>1, <2>1, <2>9, <3>2, <3>3, <3>5, <3>6 DEF TypeOK, Copy
  <2>12. ASSUME NEW i \in 1 .. n - 1
         PROVE  /\ saved'[i].iter <= saved'[i].size
                /\ saved'[i].size <= lastsave'
                /\ saved'[i].lastsave = IF i = 1 THEN 0 ELSE saved'[i - 1].size
                /\ saved'[i].scope < scope'
                /\ saved'[i].scope = 0 <=> i = 1
                /\ \A j \in 1 .. i - 1 : /\ saved'[j].scope < saved'[i].scope
                                         /\ saved'[j].size <= saved'[i].size
    <3>1. i \in 1 .. n /\ n - 1 \in 1 .. n /\ n - 1 \in 1 .. n - 1 /\ n # 1
      BY <2>3
    <3>2. saved[i].size <= saved[n - 1].size
      <4>1. CASE i = n - 1
        BY <4>1, <3>1, <2>5
      <4>2. CASE i # n - 1
        <5>1. i \in 1 .. (n - 1) - 1
          BY <4>2, <2>3
        <5>2. QED
          BY <5>1, <3>1, <2>5
      <4>3. QED
        BY <4>1, <4>2
    <3>3. saved'[i].size <= lastsave'
      BY <3>1, <3>2, <2>1, <2>7, <2>9
    <3>4. saved'[i].scope < scope'
      BY <2>1, <2>7, <2>9
    <3>5. i # 1 => i - 1 \in 1 .. n - 1
      BY <2>3
    <3>6. \A j \in 1 .. i - 1 : j \in 1 .. n - 1
      BY <2>3
    <3>7. saved'[i] = saved[i] /\ (i # 1 => saved'[i - 1] = saved[i - 1])
      BY <3>5, <2>9
    <3>8. \A j \in 1 .. i - 1 : saved'[j] = saved[j]
      BY <3>6, <2>9
    <3>9. QED
      BY <3>1, <3>3, <3>4, <3>7, <3>8, <2>5
  <2>13. SavedElementsKept'
    <3>1. scope' = 0 <=> saved' = <<>>
      BY <2>1, <2>3, <2>7, <2>9
    <3>2. QED
      BY <3>1, <2>9, <2>10, <2>12 DEF SavedElementsKept
  <2>14. QED
    BY <2>11, <2>13 DEF IInv
<1>4. QED
  BY <1>2, <1>3

(* Every operation keeps the invariant.                                    *)
LEMMA NextKeeps ==
  ASSUME IInv, [Next]_vars
  PROVE  IInv'
<1>1. ASSUME NEW v \in Val, Enqueue(v) PROVE IInv'
  <2>1. /\ SavedElementsKept' /\ scope' \in 0 .. level
        /\ saved' \in Seq(Copy) /\ lastsave' \in 0 .. Len(list)
    BY <1>1, MakeCurrentKeeps DEF Enqueue
  <2>2. list' \in Seq(Val) /\ Len(list') = Len(list) + 1
    BY <1>1 DEF Enqueue, IInv, TypeOK
  <2>3. QED
    BY <1>1, <2>1, <2>2 DEF Enqueue, IInv, TypeOK, Level, Size, Copy
<1>2. CASE Dequeue
  <2>1. /\ SavedElementsKept' /\ scope' \in 0 .. level
        /\ saved' \in Seq(Copy) /\ lastsave' \in 0 .. Len(list)
    BY <1>2, MakeCurrentKeeps DEF Dequeue
  <2>2. CASE iter + 1 = Len(list) /\ lastsave' # Len(list)
    <3>1. list' = TruncateList(lastsave') /\ iter' = lastsave' /\ level' = level
      BY <1>2, <2>2 DEF Dequeue
    <3>2. list' \in Seq(Val) /\ Len(list') = lastsave'
      BY <2>1, <3>1, PrefixFacts DEF TruncateList, IInv, TypeOK
    <3>3. QED
      BY <2>1, <3>1, <3>2 DEF IInv, TypeOK, Level, Size, Copy
  <2>3. CASE ~ (iter + 1 = Len(list) /\ lastsave' # Len(list))
    BY <1>2, <2>1, <2>3 DEF Dequeue, IInv, TypeOK, Level, Size, Copy
  <2>4. QED
    BY <2>2, <2>3
<1>3. CASE Push
  <2>1. SavedElementsKept'
    BY <1>3, ChainUntouched DEF Push
  <2>2. QED
    BY <1>3, <2>1 DEF Push, IInv, TypeOK, Level
<1>4. CASE Pop
  BY <1>4, PopKeeps
<1>5. CASE UNCHANGED vars
  <2>1. SavedElementsKept'
    BY <1>5, ChainUntouched DEF vars
  <2>2. QED
    BY <1>5, <2>1 DEF vars, IInv, TypeOK
<1>6. QED
  BY <1>1, <1>2, <1>3, <1>4, <1>5 DEF Next

(* The inductive invariant: in every reachable state the indices are in    *)
(* range and the saved copies form a chain whose elements are all there.   *)
THEOREM QueueInvCorrect == Spec => []IInv
<1>1. Init => IInv
  BY DEF Init, IInv, TypeOK, SavedElementsKept, Level, Size
<1>2. IInv /\ [Next]_vars => IInv'
  BY NextKeeps
<1>3. QED
  BY <1>1, <1>2, PTL DEF Spec

(* The early destruction in pop() and the truncation in restore() leave    *)
(* alone whatever a saved copy still refers to.                            *)
THEOREM SavedElementsCorrect == Spec => []SavedElementsKept
<1>1. IInv => SavedElementsKept
  BY DEF IInv
<1>2. QED
  BY <1>1, QueueInvCorrect, PTL

-------------------------------------------------------------------------------
(* The refinement.  A copy to restore for a level exists: kept as an       *)
(* invariant, it needs no induction over the chain.                        *)
Restorable ==
  \A i \in Level : i < scope => \E k \in DOMAIN saved : Restores(saved, k, i)

RInv == IInv /\ Restorable

(* Only one copy restores a level, as the scopes grow along the chain.     *)
LEMMA ChosenCopy ==
  ASSUME NEW copies \in Seq(Copy), NEW i \in Nat, NEW k \in DOMAIN copies,
         \A m \in DOMAIN copies : \A j \in 1 .. m - 1 : copies[j].scope < copies[m].scope,
         Restores(copies, k, i)
  PROVE  (CHOOSE m \in DOMAIN copies : Restores(copies, m, i)) = k
<1> DEFINE n == Len(copies)
<1>1. n \in Nat /\ DOMAIN copies = 1 .. n
  OBVIOUS
<1>2. \A m \in 1 .. n : copies[m].scope \in Nat
  BY CopyFields
<1> HIDE DEF n
<1>3. ASSUME NEW m \in 1 .. n, NEW l \in 1 .. n, m < l,
             Restores(copies, m, i), Restores(copies, l, i)
      PROVE  FALSE
  <2>1. m < n /\ m + 1 \in 1 .. n
    BY <1>1, <1>3
  <2>2. copies[m + 1].scope > i /\ copies[l].scope <= i
    BY <1>3, <2>1 DEF Restores, n
  <2>3. CASE m + 1 = l
    BY <2>1, <2>2, <2>3, <1>2
  <2>4. CASE m + 1 # l
    <3>1. m + 1 \in 1 .. l - 1
      BY <2>4, <1>1, <1>3
    <3>2. copies[m + 1].scope < copies[l].scope
      BY <3>1, <1>1
    <3>3. QED
      BY <2>1, <2>2, <3>2, <1>2
  <2>5. QED
    BY <2>3, <2>4
<1>4. ASSUME NEW m \in DOMAIN copies, Restores(copies, m, i)
      PROVE  m = k
  <2>1. m \in 1 .. n /\ k \in 1 .. n
    BY <1>1
  <2>2. ~ (m < k) /\ ~ (k < m)
    BY <2>1, <1>3, <1>4
  <2>3. QED
    BY <2>1, <2>2, <1>1
<1>5. QED
  BY <1>4

(* Slices, of sequences that agree, one longer and one shorter.            *)
LEMMA SameSlice ==
  ASSUME NEW s \in Seq(Val), NEW t \in Seq(Val), NEW a \in Nat, NEW b \in Nat,
         b <= Len(s), b <= Len(t), \A j \in 1 .. b : s[j] = t[j]
  PROVE  SubSeq(s, a + 1, b) = SubSeq(t, a + 1, b)
OBVIOUS

LEMMA AppendSlice ==
  ASSUME NEW s \in Seq(Val), NEW v \in Val, NEW a \in 0 .. Len(s)
  PROVE  SubSeq(Append(s, v), a + 1, Len(Append(s, v)))
           = Append(SubSeq(s, a + 1, Len(s)), v)
<1> DEFINE t == Append(s, v)
           left == SubSeq(t, a + 1, Len(t))
           slice == SubSeq(s, a + 1, Len(s))
           right == Append(slice, v)
<1>1. /\ t \in Seq(Val) /\ Len(t) = Len(s) + 1 /\ Len(s) \in Nat
      /\ t[Len(s) + 1] = v /\ \A j \in 1 .. Len(s) : t[j] = s[j]
  BY AppendFacts
<1> HIDE DEF t
<1>2. /\ left \in Seq(Val) /\ Len(left) = Len(s) + 1 - a
      /\ \A j \in 1 .. Len(s) + 1 - a : left[j] = t[a + j]
  BY <1>1
<1>3. /\ slice \in Seq(Val) /\ Len(slice) = Len(s) - a
      /\ \A j \in 1 .. Len(s) - a : slice[j] = s[a + j]
  BY <1>1
<1> HIDE DEF left, slice
<1>4. /\ right \in Seq(Val) /\ Len(right) = Len(s) - a + 1
      /\ right[Len(s) - a + 1] = v
      /\ \A j \in 1 .. Len(s) - a : right[j] = slice[j]
  BY <1>3, AppendFacts
<1> HIDE DEF right
<1>5. ASSUME NEW j \in 1 .. Len(s) + 1 - a PROVE left[j] = right[j]
  <2>1. CASE j = Len(s) + 1 - a
    BY <2>1, <1>1, <1>2, <1>4
  <2>2. CASE j # Len(s) + 1 - a
    <3>1. j \in 1 .. Len(s) - a /\ a + j \in 1 .. Len(s)
      BY <2>2, <1>1
    <3>2. QED
      BY <3>1, <1>1, <1>2, <1>3, <1>4
  <2>3. QED
    BY <2>1, <2>2
<1>6. Len(left) = Len(right)
  BY <1>1, <1>2, <1>4
<1>7. left = right
  BY <1>2, <1>4, <1>5, <1>6, SeqEqual
<1>8. QED
  BY <1>7 DEF left, right, slice, t

LEMMA TailSlice ==
  ASSUME NEW s \in Seq(Val), NEW a \in Nat, a < Len(s)
  PROVE  /\ SubSeq(s, a + 1, Len(s)) # <<>>
         /\ SubSeq(s, a + 2, Len(s)) = Tail(SubSeq(s, a + 1, Len(s)))
         /\ a + 1 = Len(s) => Tail(SubSeq(s, a + 1, Len(s))) = <<>>
<1> DEFINE slice == SubSeq(s, a + 1, Len(s))
           rest == SubSeq(s, a + 2, Len(s))
<1>1. Len(s) \in Nat
  OBVIOUS
<1>2. /\ slice \in Seq(Val) /\ Len(slice) = Len(s) - a
      /\ \A j \in 1 .. Len(s) - a : slice[j] = s[a + j]
  BY <1>1
<1>3. /\ rest \in Seq(Val) /\ Len(rest) = Len(s) - a - 1
      /\ \A j \in 1 .. Len(s) - a - 1 : rest[j] = s[a + 1 + j]
  BY <1>1
<1> HIDE DEF slice, rest
<1>4. slice # <<>>
  BY <1>1, <1>2
<1>5. /\ Tail(slice) \in Seq(Val) /\ Len(Tail(slice)) = Len(s) - a - 1
      /\ \A j \in 1 .. Len(s) - a - 1 : Tail(slice)[j] = slice[j + 1]
  BY <1>1, <1>2, <1>4
<1>6. ASSUME NEW j \in 1 .. Len(s) - a - 1 PROVE rest[j] = Tail(slice)[j]
  <2>1. j + 1 \in 1 .. Len(s) - a
    BY <1>1
  <2>2. QED
    BY <2>1, <1>1, <1>2, <1>3, <1>5
<1>7. rest = Tail(slice)
  BY <1>3, <1>5, <1>6, SeqEqual
<1>8. a + 1 = Len(s) => Tail(slice) = <<>>
  BY <1>1, <1>5
<1>9. QED
  BY <1>4, <1>7, <1>8 DEF slice, rest

(* What a level sees through the copy that restores it.                    *)
LEMMA ViewOfCopy ==
  ASSUME IInv, NEW i \in Nat, i < scope, NEW k \in DOMAIN saved,
         Restores(saved, k, i)
  PROVE  ViewAt(i) = [size |-> saved[k].size, iter |-> saved[k].iter]
<1>1. saved \in Seq(Copy) /\ scope \in Nat
  BY SavedFields DEF IInv, TypeOK, Level
<1>2. \A m \in DOMAIN saved : \A j \in 1 .. m - 1 : saved[j].scope < saved[m].scope
  BY DEF IInv, SavedElementsKept
<1>3. (CHOOSE m \in DOMAIN saved : Restores(saved, m, i)) = k
  BY <1>1, <1>2, ChosenCopy
<1>4. ~ (scope <= i)
  BY <1>1
<1>5. QED
  BY <1>3, <1>4 DEF ViewAt

LEMMA ViewOfCopyNext ==
  ASSUME IInv', NEW i \in Nat, i < scope', NEW k \in DOMAIN saved',
         Restores(saved', k, i)
  PROVE  ViewAt(i)' = [size |-> saved'[k].size, iter |-> saved'[k].iter]
<1>1. saved' \in Seq(Copy) /\ scope' \in Nat
  BY DEF IInv, TypeOK, Copy, Level
<1>2. \A m \in DOMAIN saved' : \A j \in 1 .. m - 1 : saved'[j].scope < saved'[m].scope
  BY DEF IInv, SavedElementsKept
<1>3. (CHOOSE m \in DOMAIN saved' : Restores(saved', m, i)) = k
  BY <1>1, <1>2, ChosenCopy
<1>4. ~ (scope' <= i)
  BY <1>1
<1>5. QED
  BY <1>3, <1>4 DEF ViewAt

(* An operation makes the object current, and no level below sees it: what *)
(* such a level will get back is below the mark.                           *)
LEMMA LevelsBelow ==
  ASSUME RInv, IInv', MakeCurrent, lastsave' = MarkAfterSave, level' = level,
         NEW i \in Level, i < level
  PROVE  /\ ViewAt(i)' = ViewAt(i)
         /\ ViewAt(i).size \in Nat /\ ViewAt(i).iter \in Nat
         /\ ViewAt(i).size <= lastsave'
         /\ \E k \in DOMAIN saved' : Restores(saved', k, i)
<1> IInv /\ TypeOK /\ SavedElementsKept
  BY DEF RInv, IInv
<1>1. /\ i \in Nat /\ level \in Nat /\ scope \in 0 .. level /\ scope' = level
      /\ i < scope' /\ lastsave \in Nat /\ Len(list) \in Nat /\ iter \in Nat
      /\ lastsave <= Len(list)
  BY BoundsAreNatural DEF TypeOK, Level, MakeCurrent
<1>2. CASE i < scope
  <2>1. PICK k \in DOMAIN saved : Restores(saved, k, i)
    BY <1>2 DEF RInv, Restorable
  <2>2. ViewAt(i) = [size |-> saved[k].size, iter |-> saved[k].iter]
    BY <1>1, <1>2, <2>1, ViewOfCopy
  <2>3. saved[k].size \in Nat /\ saved[k].iter \in Nat /\ saved[k].size <= lastsave
    BY <2>1, SavedFields DEF SavedElementsKept
  <2>4. lastsave <= lastsave'
    <3>1. lastsave' = lastsave \/ lastsave' = Len(list)
      BY DEF MarkAfterSave
    <3> QED BY <1>1, <3>1
  <2>5. k \in DOMAIN saved' /\ Restores(saved', k, i) /\ saved'[k] = saved[k]
    <3>1. CASE scope = level
      BY <3>1, <2>1 DEF MakeCurrent
    <3>2. CASE scope # level
      <4> DEFINE copy == [scope |-> scope, size |-> Len(list),
                          iter |-> iter, lastsave |-> lastsave]
                 n == Len(saved)
      <4>1. saved' = Append(saved, copy) /\ copy.scope = scope
        BY <3>2 DEF MakeCurrent
      <4>2. copy \in Copy
        BY CopyOfNow
      <4> HIDE DEF copy
      <4>3. /\ DOMAIN saved' = 1 .. n + 1 /\ Len(saved') = n + 1
            /\ saved'[n + 1] = copy /\ \A m \in 1 .. n : saved'[m] = saved[m]
        BY <4>1, <4>2, SavedFields, AppendFacts
      <4>4. n \in Nat /\ k \in 1 .. n
        BY <2>1, SavedFields
      <4>5. k < n => saved[k + 1].scope > i
        BY <2>1 DEF Restores
      <4> HIDE DEF n
      <4>6. CASE k = n
        BY <4>1, <4>3, <4>4, <4>6, <1>1, <1>2, <2>1 DEF Restores
      <4>7. CASE k # n
        <5>1. k + 1 \in 1 .. n /\ k < n
          BY <4>4, <4>7
        <5>2. QED
          BY <5>1, <4>3, <4>4, <4>5, <2>1 DEF Restores
      <4>8. QED
        BY <4>6, <4>7
    <3>3. QED
      BY <3>1, <3>2
  <2>6. ViewAt(i)' = [size |-> saved[k].size, iter |-> saved[k].iter]
    BY <1>1, <2>5, ViewOfCopyNext
  <2>7. lastsave' \in Nat /\ saved[k].size <= lastsave'
    BY <1>1, <2>3, <2>4 DEF MarkAfterSave
  <2>8. QED
    BY <2>2, <2>3, <2>5, <2>6, <2>7
<1>3. CASE ~ (i < scope)
  <2> DEFINE copy == [scope |-> scope, size |-> Len(list),
                      iter |-> iter, lastsave |-> lastsave]
             n == Len(saved)
  <2>1. scope # level /\ scope <= i
    BY <1>1, <1>3
  <2>2. saved' = Append(saved, copy) /\ lastsave' = Len(list)
    BY <2>1 DEF MakeCurrent, MarkAfterSave
  <2>3. copy \in Copy
    BY CopyOfNow
  <2>4. copy.scope = scope /\ copy.size = Len(list) /\ copy.iter = iter
    OBVIOUS
  <2> HIDE DEF copy
  <2>5. /\ DOMAIN saved' = 1 .. n + 1 /\ Len(saved') = n + 1 /\ n \in Nat
        /\ saved'[n + 1] = copy
    BY <2>2, <2>3, SavedFields, AppendFacts
  <2> HIDE DEF n
  <2>6. n + 1 \in DOMAIN saved' /\ Restores(saved', n + 1, i)
    BY <2>1, <2>4, <2>5 DEF Restores
  <2>7. ViewAt(i)' = [size |-> Len(list), iter |-> iter]
    BY <1>1, <2>4, <2>5, <2>6, ViewOfCopyNext
  <2>8. ViewAt(i) = [size |-> Len(list), iter |-> iter]
    BY <2>1 DEF ViewAt
  <2>9. QED
    BY <1>1, <2>2, <2>6, <2>7, <2>8
<1>4. QED
  BY <1>2, <1>3

(* The elements that a level sees stay in the array when it shrinks to no  *)
(* less than they need.                                                    *)
LEMMA SliceKept ==
  ASSUME NEW i \in Level, ~ (i > level), ~ (i > level'),
         ViewAt(i)' = ViewAt(i), ViewAt(i).size \in Nat, ViewAt(i).iter \in Nat,
         list \in Seq(Val), list' \in Seq(Val),
         ViewAt(i).size <= Len(list), ViewAt(i).size <= Len(list'),
         \A j \in 1 .. ViewAt(i).size : list'[j] = list[j]
  PROVE  QueueAt(i)' = QueueAt(i)
<1> DEFINE a == ViewAt(i).iter
           b == ViewAt(i).size
<1>1. SubSeq(list', a + 1, b) = SubSeq(list, a + 1, b)
  BY SameSlice
<1>2. QueueAt(i) = SubSeq(list, a + 1, b)
  BY DEF QueueAt
<1>3. QueueAt(i)' = SubSeq(list', ViewAt(i)'.iter + 1, ViewAt(i)'.size)
  BY DEF QueueAt
<1>4. ViewAt(i)'.iter = a /\ ViewAt(i)'.size = b
  OBVIOUS
<1>5. QED
  BY <1>1, <1>2, <1>3, <1>4

(* A level from the scope of the object on sees the live indices.          *)
LEMMA LiveSlice ==
  ASSUME NEW i \in Level, scope <= i, ~ (i > level)
  PROVE  QueueAt(i) = SubSeq(list, iter + 1, Len(list))
<1>1. ViewAt(i) = [size |-> Len(list), iter |-> iter]
  BY DEF ViewAt
<1>2. QueueAt(i) = SubSeq(list, ViewAt(i).iter + 1, ViewAt(i).size)
  BY DEF QueueAt
<1>3. ViewAt(i).iter = iter /\ ViewAt(i).size = Len(list)
  BY <1>1
<1>4. QED
  BY <1>2, <1>3

LEMMA LiveSliceNext ==
  ASSUME NEW i \in Level, scope' <= i, ~ (i > level')
  PROVE  QueueAt(i)' = SubSeq(list', iter' + 1, Len(list'))
<1>1. ViewAt(i)' = [size |-> Len(list'), iter |-> iter']
  BY DEF ViewAt
<1>2. QueueAt(i)' = SubSeq(list', ViewAt(i)'.iter + 1, ViewAt(i)'.size)
  BY DEF QueueAt
<1>3. ViewAt(i)'.iter = iter' /\ ViewAt(i)'.size = Len(list')
  BY <1>1
<1>4. QED
  BY <1>2, <1>3

LEMMA EnqueueImplements ==
  ASSUME RInv, IInv', NEW v \in Val, Enqueue(v)
  PROVE  Restorable' /\ Abs!Enqueue(v)
<1> IInv /\ TypeOK
  BY DEF RInv, IInv
<1>1. /\ level' = level /\ list' = Append(list, v) /\ iter' = iter
      /\ MakeCurrent /\ lastsave' = MarkAfterSave
  BY DEF Enqueue
<1>2. /\ level \in Nat /\ scope <= level /\ scope' = level /\ level \in Level
      /\ list \in Seq(Val) /\ Len(list) \in Nat /\ iter \in 0 .. Len(list)
      /\ lastsave' \in Nat /\ lastsave' <= Len(list)
  BY <1>1, BoundsAreNatural DEF TypeOK, Level, MakeCurrent, MarkAfterSave
<1>3. list' \in Seq(Val) /\ Len(list') = Len(list) + 1
      /\ \A j \in 1 .. Len(list) : list'[j] = list[j]
  BY <1>1, <1>2, AppendFacts
<1>4. Restorable'
  BY <1>1, <1>2, LevelsBelow DEF Restorable, Level
<1>5. ASSUME NEW i \in Level, i < level PROVE QueueAt(i)' = QueueAt(i)
  <2>1. /\ ViewAt(i)' = ViewAt(i) /\ ViewAt(i).size \in Nat /\ ViewAt(i).iter \in Nat
        /\ ViewAt(i).size <= lastsave'
    BY <1>1, <1>5, LevelsBelow
  <2>2. ~ (i > level) /\ ~ (i > level')
    BY <1>1, <1>2, <1>5 DEF Level
  <2>3. ViewAt(i).size <= Len(list) /\ ViewAt(i).size <= Len(list')
    BY <2>1, <1>2, <1>3
  <2>4. \A j \in 1 .. ViewAt(i).size : list'[j] = list[j]
    BY <2>1, <2>3, <1>2, <1>3
  <2>5. QED
    BY <2>1, <2>2, <2>3, <2>4, <1>2, <1>3, SliceKept
<1>6. ASSUME NEW i \in Level, i = level
      PROVE  QueueAt(i)' = Append(QueueAt(i), v)
  <2>1. QueueAt(i) = SubSeq(list, iter + 1, Len(list))
    BY <1>2, <1>6, LiveSlice
  <2>2. QueueAt(i)' = SubSeq(list', iter + 1, Len(list'))
    BY <1>1, <1>2, <1>6, LiveSliceNext
  <2>3. QED
    BY <2>1, <2>2, <1>1, <1>2, AppendSlice
<1>7. ASSUME NEW i \in Level, level < i PROVE QueueAt(i)' = QueueAt(i)
  BY <1>1, <1>2, <1>7 DEF QueueAt, Level
<1>8. [i \in Level |-> QueueAt(i)]'
        = [[i \in Level |-> QueueAt(i)] EXCEPT ![level] = Append(@, v)]
  <2>1. \A i \in Level : i < level \/ i = level \/ level < i
    BY <1>2 DEF Level
  <2>2. QED
    BY <2>1, <1>1, <1>2, <1>5, <1>6, <1>7
<1>9. QED
  BY <1>1, <1>4, <1>8 DEF Abs!Enqueue

LEMMA DequeueImplements ==
  ASSUME RInv, IInv', Dequeue
  PROVE  Restorable' /\ Abs!Dequeue
<1> IInv /\ TypeOK
  BY DEF RInv, IInv
<1>1. level' = level /\ iter < Len(list) /\ MakeCurrent /\ lastsave' = MarkAfterSave
  BY DEF Dequeue
<1>2. /\ level \in Nat /\ scope <= level /\ scope' = level /\ level \in Level
      /\ list \in Seq(Val) /\ Len(list) \in Nat /\ iter \in Nat
      /\ lastsave' \in 0 .. Len(list)
  BY <1>1, BoundsAreNatural DEF TypeOK, Level, MakeCurrent, MarkAfterSave
<1>3. /\ list' \in Seq(Val) /\ lastsave' <= Len(list')
      /\ \A j \in 1 .. lastsave' : list'[j] = list[j]
  <2>1. CASE iter + 1 = Len(list) /\ lastsave' # Len(list)
    <3> DEFINE mark == lastsave'
    <3>1. list' = SubSeq(list, 1, mark)
      BY <2>1 DEF Dequeue, TruncateList
    <3>2. mark \in 0 .. Len(list) /\ mark <= mark
      BY <1>2
    <3> HIDE DEF mark
    <3>3. /\ SubSeq(list, 1, mark) \in Seq(Val)
          /\ Len(SubSeq(list, 1, mark)) = mark
          /\ \A j \in 1 .. mark : SubSeq(list, 1, mark)[j] = list[j]
      BY <1>2, <3>2, PrefixFacts
    <3>4. list' \in Seq(Val) /\ mark <= Len(list') /\ \A j \in 1 .. mark : list'[j] = list[j]
      BY <3>1, <3>2, <3>3
    <3>5. QED
      BY <3>4 DEF mark
  <2>2. CASE ~ (iter + 1 = Len(list) /\ lastsave' # Len(list))
    BY <2>2, <1>2 DEF Dequeue
  <2>3. QED
    BY <2>1, <2>2
<1>4. Restorable'
  BY <1>1, <1>2, LevelsBelow DEF Restorable, Level
<1>5. ASSUME NEW i \in Level, i < level PROVE QueueAt(i)' = QueueAt(i)
  <2>1. /\ ViewAt(i)' = ViewAt(i) /\ ViewAt(i).size \in Nat /\ ViewAt(i).iter \in Nat
        /\ ViewAt(i).size <= lastsave'
    BY <1>1, <1>5, LevelsBelow
  <2>2. ~ (i > level) /\ ~ (i > level')
    BY <1>1, <1>2, <1>5 DEF Level
  <2>3. ViewAt(i).size <= Len(list) /\ ViewAt(i).size <= Len(list')
    BY <2>1, <1>2, <1>3
  <2>4. \A j \in 1 .. ViewAt(i).size : list'[j] = list[j]
    BY <2>1, <1>2, <1>3
  <2>5. QED
    BY <2>1, <2>2, <2>3, <2>4, <1>2, <1>3, SliceKept
<1>6. ASSUME NEW i \in Level, i = level
      PROVE  QueueAt(i) # <<>> /\ QueueAt(i)' = Tail(QueueAt(i))
  <2>1. QueueAt(i) = SubSeq(list, iter + 1, Len(list))
    BY <1>2, <1>6, LiveSlice
  <2>2. QueueAt(i)' = SubSeq(list', iter' + 1, Len(list'))
    BY <1>1, <1>2, <1>6, LiveSliceNext
  <2>3. CASE iter + 1 = Len(list) /\ lastsave' # Len(list)
    <3>1. list' = SubSeq(list, 1, lastsave') /\ iter' = lastsave'
      BY <2>3 DEF Dequeue, TruncateList
    <3>2. Len(list') = lastsave'
      BY <3>1, <1>2, PrefixFacts
    <3>3. QueueAt(i)' = SubSeq(list', lastsave' + 1, lastsave')
      BY <3>1, <3>2, <2>2
    <3> DEFINE mark == lastsave'
    <3>4. mark \in Nat
      BY <1>2
    <3> HIDE DEF mark
    <3>5. mark + 1 \in Int /\ mark \in Int /\ mark < mark + 1
      BY <3>4
    <3>6. SubSeq(list', mark + 1, mark) = <<>>
      BY <3>5, SubSeqEmpty
    <3>7. QueueAt(i)' = <<>>
      BY <3>3, <3>6 DEF mark
    <3>8. QED
      BY <3>7, <2>1, <2>3, <1>1, <1>2, TailSlice
  <2>4. CASE ~ (iter + 1 = Len(list) /\ lastsave' # Len(list))
    <3>1. list' = list /\ iter' + 1 = iter + 2
      BY <2>4, <1>2 DEF Dequeue
    <3>2. QueueAt(i)' = SubSeq(list, iter + 2, Len(list))
      BY <3>1, <2>2
    <3>3. QED
      BY <3>2, <2>1, <1>1, <1>2, TailSlice
  <2>5. QED
    BY <2>3, <2>4
<1>7. ASSUME NEW i \in Level, level < i PROVE QueueAt(i)' = QueueAt(i)
  BY <1>1, <1>2, <1>7 DEF QueueAt, Level
<1>8. [i \in Level |-> QueueAt(i)]'
        = [[i \in Level |-> QueueAt(i)] EXCEPT ![level] = Tail(@)]
  <2>1. \A i \in Level : i < level \/ i = level \/ level < i
    BY <1>2 DEF Level
  <2>2. QED
    BY <2>1, <1>1, <1>2, <1>5, <1>6, <1>7
<1>9. [i \in Level |-> QueueAt(i)][level] # <<>>
  BY <1>2, <1>6
<1>10. QED
  BY <1>1, <1>4, <1>8, <1>9 DEF Abs!Dequeue

LEMMA PushImplements ==
  ASSUME RInv, Push
  PROVE  Restorable' /\ Abs!Push
<1> IInv /\ TypeOK
  BY DEF RInv, IInv
<1>1. /\ level' = level + 1 /\ level < MaxLevel
      /\ UNCHANGED <<scope, list, iter, lastsave, saved>>
  BY DEF Push
<1>2. level \in Nat /\ scope <= level /\ level \in Level /\ level + 1 \in Level
  BY <1>1, BoundsAreNatural DEF TypeOK, Level
<1>3. Restorable'
  BY <1>1 DEF RInv, Restorable, Restores
<1>4. ASSUME NEW i \in Level PROVE ViewAt(i)' = ViewAt(i)
  BY <1>1 DEF ViewAt, Restores
<1>5. ASSUME NEW i \in Level, i # level + 1 PROVE QueueAt(i)' = QueueAt(i)
  <2>1. (i > level + 1) <=> (i > level)
    BY <1>2, <1>5 DEF Level
  <2>2. QED
    BY <2>1, <1>1, <1>4 DEF QueueAt
<1>6. ASSUME NEW i \in Level, i = level + 1
      PROVE  QueueAt(i)' = QueueAt(level)
  <2>1. QueueAt(level) = SubSeq(list, iter + 1, Len(list))
    BY <1>2, LiveSlice
  <2>2. scope' <= i /\ ~ (i > level')
    BY <1>1, <1>2, <1>6, BoundsAreNatural DEF TypeOK, Level
  <2>3. QueueAt(i)' = SubSeq(list', iter' + 1, Len(list'))
    BY <2>2, LiveSliceNext
  <2>4. QED
    BY <2>1, <2>3, <1>1
<1>7. [i \in Level |-> QueueAt(i)]'
        = [[i \in Level |-> QueueAt(i)]
             EXCEPT ![level + 1] = [i \in Level |-> QueueAt(i)][level]]
  BY <1>1, <1>2, <1>5, <1>6
<1>8. QED
  BY <1>1, <1>3, <1>7 DEF Abs!Push

(* A pop gives each level below the one popped what it saw before: through *)
(* the indices that come back, or through the copy that it saw already.    *)
LEMMA PopImplements ==
  ASSUME RInv, IInv', Pop
  PROVE  Restorable' /\ Abs!Pop
<1> IInv /\ TypeOK /\ SavedElementsKept
  BY DEF RInv, IInv
<1>1. /\ level > 0 /\ level' = level - 1 /\ level \in Nat /\ level \in Level
      /\ scope \in 0 .. level /\ list \in Seq(Val) /\ Len(list) \in Nat
      /\ iter \in Nat /\ lastsave \in Nat /\ lastsave <= Len(list)
  BY BoundsAreNatural DEF Pop, TypeOK, Level
<1>2. \A i \in Level : i \in Nat
  BY BoundsAreNatural DEF Level
<1>3. ASSUME NEW i \in Level, i > level PROVE QueueAt(i)' = QueueAt(i)
  BY <1>1, <1>2, <1>3 DEF QueueAt
<1>4. ASSUME NEW i \in Level, i = level PROVE QueueAt(i)' = <<>>
  BY <1>1, <1>4 DEF QueueAt
<1>5. Restorable' /\ \A i \in Level : i < level => QueueAt(i)' = QueueAt(i)
  <2>1. CASE scope < level
    <3>1. UNCHANGED <<scope, list, iter, lastsave, saved>>
      BY <2>1 DEF Pop
    <3>2. Restorable'
      BY <3>1 DEF RInv, Restorable, Restores
    <3>3. ASSUME NEW i \in Level, i < level PROVE QueueAt(i)' = QueueAt(i)
      <4>1. ViewAt(i)' = ViewAt(i)
        BY <3>1 DEF ViewAt, Restores
      <4>2. ~ (i > level) /\ ~ (i > level')
        BY <1>1, <1>2, <3>3
      <4>3. QED
        BY <3>1, <4>1, <4>2 DEF QueueAt
    <3>4. QED
      BY <3>2, <3>3
  <2>2. CASE ~ (scope < level)
    <3> DEFINE e == Last(saved)
               n == Len(saved)
    <3>1. /\ scope' = e.scope /\ list' = SubSeq(list, 1, e.size)
          /\ iter' = e.iter /\ saved' = Front(saved)
      BY <2>2 DEF Pop, TruncateList
    <3>2. scope = level /\ saved # <<>>
      BY <1>1, <2>2 DEF SavedElementsKept
    <3>3. /\ saved \in Seq(Copy) /\ n \in Nat /\ n # 0 /\ n \in 1 .. n
          /\ DOMAIN saved = 1 .. n /\ e = saved[n] /\ Front(saved) = SubSeq(saved, 1, n - 1)
      BY <3>2, SavedFields DEF Last, Front
    <3>4. /\ e.scope \in Nat /\ e.size \in Nat /\ e.iter \in Nat
          /\ e.size <= lastsave /\ e.scope < scope
          /\ \A m \in 1 .. n - 1 : saved[m].scope \in Nat /\ saved[m].scope < e.scope
                                   /\ saved[m].size <= e.size
                                   /\ saved[m].size \in Nat /\ saved[m].iter \in Nat
      <4>1. \A m \in 1 .. n :
              /\ saved[m].size <= lastsave /\ saved[m].scope < scope
              /\ \A j \in 1 .. m - 1 : saved[j].scope < saved[m].scope
                                       /\ saved[j].size <= saved[m].size
        BY <3>3 DEF SavedElementsKept
      <4>2. \A m \in 1 .. n : saved[m].scope \in Nat /\ saved[m].size \in Nat
                              /\ saved[m].iter \in Nat
        BY SavedFields
      <4>3. n \in 1 .. n /\ \A m \in 1 .. n - 1 : m \in 1 .. n
        BY <3>3
      <4> HIDE DEF n
      <4>4. QED
        BY <3>3, <4>1, <4>2, <4>3
    <3>5. /\ Len(saved') = n - 1 /\ DOMAIN saved' = 1 .. n - 1
          /\ \A m \in 1 .. n - 1 : saved'[m] = saved[m]
      <4>1. n - 1 \in 0 .. Len(saved)
        BY <3>3
      <4>2. saved' = SubSeq(saved, 1, n - 1)
        BY <3>1, <3>3
      <4>3. QED
        BY <3>3, <4>1, <4>2, PrefixFacts
    <3> HIDE DEF e, n
    <3>6. /\ list' \in Seq(Val) /\ Len(list') = e.size /\ e.size <= Len(list)
          /\ \A j \in 1 .. e.size : list'[j] = list[j]
      <4>1. e.size \in 0 .. Len(list)
        BY <1>1, <3>4
      <4>2. QED
        BY <1>1, <3>1, <4>1, PrefixFacts
    <3>7. ASSUME NEW i \in Level, i < level, e.scope <= i
          PROVE  QueueAt(i)' = QueueAt(i)
      <4>1. Restores(saved, n, i)
        BY <3>3, <3>7 DEF Restores, n
      <4>2. ViewAt(i) = [size |-> e.size, iter |-> e.iter]
        BY <1>2, <3>2, <3>3, <3>7, <4>1, ViewOfCopy
      <4>3. ViewAt(i)' = [size |-> Len(list'), iter |-> iter']
        BY <3>1, <3>7 DEF ViewAt
      <4>4. ViewAt(i)' = ViewAt(i)
        BY <3>1, <3>6, <4>2, <4>3
      <4>5. ViewAt(i).size = e.size /\ ViewAt(i).iter = e.iter
        BY <4>2
      <4>6. ~ (i > level) /\ ~ (i > level')
        BY <1>1, <1>2, <3>7
      <4>7. /\ ViewAt(i).size \in Nat /\ ViewAt(i).iter \in Nat
            /\ ViewAt(i).size <= Len(list) /\ ViewAt(i).size <= Len(list')
            /\ \A j \in 1 .. ViewAt(i).size : list'[j] = list[j]
        BY <3>4, <3>6, <4>5
      <4>8. QED
        BY <1>1, <3>6, <4>4, <4>6, <4>7, SliceKept
    <3>8. ASSUME NEW i \in Level, i < level, ~ (e.scope <= i)
          PROVE  /\ \E k \in DOMAIN saved' : Restores(saved', k, i)
                 /\ QueueAt(i)' = QueueAt(i)
      <4>1. PICK k \in 1 .. n : Restores(saved, k, i)
        BY <3>2, <3>3, <3>8 DEF RInv, Restorable
      <4>2. k \in 1 .. n - 1 /\ (k # n - 1 => k + 1 \in 1 .. n - 1)
        <5>1. k # n
          BY <3>3, <3>8, <4>1 DEF Restores
        <5>2. QED
          BY <3>3, <5>1
      <4>3. Restores(saved', k, i)
        <5>1. saved'[k].scope <= i
          BY <3>5, <4>1, <4>2 DEF Restores
        <5>2. k < n => saved[k + 1].scope > i
          BY <4>1 DEF Restores, n
        <5>3. k < n - 1 => k < n /\ saved'[k + 1] = saved[k + 1]
          BY <3>3, <3>5, <4>2
        <5>4. QED
          BY <3>5, <5>1, <5>2, <5>3 DEF Restores
      <4>4. ViewAt(i) = [size |-> saved[k].size, iter |-> saved[k].iter]
        BY <1>2, <3>2, <3>3, <3>8, <4>1, ViewOfCopy
      <4>5. i < scope'
        BY <1>2, <3>1, <3>4, <3>8
      <4>6. ViewAt(i)' = [size |-> saved[k].size, iter |-> saved[k].iter]
        BY <1>2, <3>5, <4>2, <4>3, <4>5, ViewOfCopyNext
      <4>7. ViewAt(i).size = saved[k].size /\ ViewAt(i).iter = saved[k].iter
        BY <4>4
      <4>8. ~ (i > level) /\ ~ (i > level')
        BY <1>1, <1>2, <3>8
      <4>9. saved[k].size \in Nat /\ saved[k].iter \in Nat /\ saved[k].size <= e.size
        BY <3>4, <4>2
      <4>10. /\ ViewAt(i).size \in Nat /\ ViewAt(i).iter \in Nat
             /\ ViewAt(i).size <= Len(list) /\ ViewAt(i).size <= Len(list')
             /\ \A j \in 1 .. ViewAt(i).size : list'[j] = list[j]
        <5>1. ViewAt(i).size \in Nat /\ ViewAt(i).iter \in Nat /\ ViewAt(i).size <= e.size
          BY <4>7, <4>9
        <5>2. e.size \in Nat /\ e.size <= Len(list) /\ e.size <= Len(list')
          BY <1>1, <3>4, <3>6
        <5>3. ViewAt(i).size <= Len(list) /\ ViewAt(i).size <= Len(list')
          BY <1>1, <3>6, <5>1, <5>2
        <5>4. ASSUME NEW j \in 1 .. ViewAt(i).size PROVE list'[j] = list[j]
          <6>1. j \in 1 .. e.size
            BY <5>1, <5>2
          <6> QED BY <3>6, <6>1
        <5> QED BY <5>1, <5>3, <5>4
      <4>11. QueueAt(i)' = QueueAt(i)
        BY <1>1, <3>6, <4>4, <4>6, <4>8, <4>10, SliceKept
      <4>12. QED
        BY <3>5, <4>2, <4>3, <4>11
    <3>9. Restorable'
      <4>1. ASSUME NEW i \in Level, i < scope'
            PROVE  \E k \in DOMAIN saved' : Restores(saved', k, i)
        <5>1. i < level /\ ~ (e.scope <= i)
          BY <1>1, <1>2, <3>1, <3>2, <3>4, <4>1
        <5>2. QED
          BY <5>1, <3>8
      <4>2. QED
        BY <4>1 DEF Restorable
    <3>10. QED
      BY <3>7, <3>8, <3>9
  <2>3. QED
    BY <2>1, <2>2
<1>6. [i \in Level |-> QueueAt(i)]'
        = [[i \in Level |-> QueueAt(i)] EXCEPT ![level] = <<>>]
  <2>1. \A i \in Level : i < level \/ i = level \/ i > level
    BY <1>1, <1>2
  <2>2. QED
    BY <2>1, <1>1, <1>3, <1>4, <1>5
<1>7. QED
  BY <1>1, <1>5, <1>6 DEF Abs!Pop

(* Every step keeps the invariant, and is a step or a stutter of the queue *)
(* that is copied at each push.                                            *)
LEMMA NextImplements ==
  ASSUME RInv, [Next]_vars
  PROVE  RInv' /\ [Abs!Next]_(Abs!queueVars)
<1>1. IInv'
  BY NextKeeps DEF RInv
<1>2. ASSUME NEW v \in Val, Enqueue(v) PROVE Restorable' /\ Abs!Next
  BY <1>1, <1>2, EnqueueImplements DEF Abs!Next
<1>3. CASE Dequeue
  BY <1>1, <1>3, DequeueImplements DEF RInv, Abs!Next
<1>4. CASE Push
  BY <1>1, <1>4, PushImplements DEF RInv, Abs!Next
<1>5. CASE Pop
  BY <1>1, <1>5, PopImplements DEF RInv, Abs!Next
<1>6. CASE UNCHANGED vars
  <2>1. Restorable'
    BY <1>6 DEF vars, RInv, Restorable, Restores
  <2>2. ASSUME NEW i \in Level PROVE QueueAt(i)' = QueueAt(i)
    BY <1>6 DEF vars, QueueAt, ViewAt, Restores
  <2>3. UNCHANGED Abs!queueVars
    BY <1>6, <2>2 DEF vars, Abs!queueVars
  <2>4. QED
    BY <1>1, <2>1, <2>3 DEF RInv
<1>7. QED
  BY <1>1, <1>2, <1>3, <1>4, <1>5, <1>6 DEF Next, RInv

(* The array shared by all levels and its saved indices implement a queue  *)
(* that is copied at each push of the context and put back at each pop.    *)
THEOREM ImplementsQueueCorrect == Spec => ImplementsQueue
<1>1. Init => RInv /\ Abs!Init
  <2> SUFFICES ASSUME Init PROVE RInv /\ Abs!Init
    OBVIOUS
  <2>1. IInv
    BY DEF Init, IInv, TypeOK, SavedElementsKept, Level, Size
  <2>2. Restorable
    BY BoundsAreNatural DEF Init, Restorable, Level
  <2>3. ASSUME NEW i \in Level PROVE QueueAt(i) = <<>>
    <3>1. CASE i > level
      BY <3>1 DEF QueueAt
    <3>2. CASE ~ (i > level)
      <4>1. scope <= i
        BY <3>2, BoundsAreNatural DEF Init, Level
      <4>2. QueueAt(i) = SubSeq(list, iter + 1, Len(list))
        BY <3>2, <4>1, LiveSlice
      <4>3. QED
        BY <4>2 DEF Init
    <3>3. QED
      BY <3>1, <3>2
  <2>4. Abs!Init
    BY <2>3 DEF Init, Abs!Init, Level, Abs!Level
  <2>5. QED
    BY <2>1, <2>2, <2>4 DEF RInv
<1>2. RInv /\ [Next]_vars => RInv' /\ [Abs!Next]_(Abs!queueVars)
  BY NextImplements
<1>3. QED
  BY <1>1, <1>2, PTL DEF Spec, ImplementsQueue, Abs!Spec

-----------------------------------------------------------------------------
(* The trie of instantiations.                                               *)

LEMMA TrieBounds == Arity \in Nat /\ MaxMapLevel \in Nat
BY ContainersAssumption

USE TrieBounds

(* The path to a tuple: it begins at the root and ends in the tuple, and   *)
(* no other tuple lies on it.                                              *)
LEMMA TriePathFacts ==
  ASSUME NEW m \in Trie!Tuple
  PROVE  /\ m \in Trie!Path(m) /\ m \in Trie!Node
         /\ Trie!Path(m) \subseteq Trie!Node
         /\ Trie!Prefix(m, Arity) = m
         /\ \A k \in Trie!Tuple : k \in Trie!Path(m) => k = m
<1>1. \A i \in 0 .. Arity : Trie!Prefix(m, i) \in [1 .. i -> Val]
  BY DEF Trie!Tuple, Trie!Prefix
<1>2. Trie!Prefix(m, Arity) = m
  BY DEF Trie!Tuple, Trie!Prefix
<1>3. Arity \in 0 .. Arity
  OBVIOUS
<1>4. Trie!Path(m) \subseteq Trie!Node
  BY <1>1 DEF Trie!Path, Trie!Node
<1>5. m \in Trie!Path(m)
  BY <1>2, <1>3 DEF Trie!Path
<1>6. ASSUME NEW k \in Trie!Tuple, k \in Trie!Path(m) PROVE k = m
  <2>1. PICK i \in 0 .. Arity : k = Trie!Prefix(m, i)
    BY <1>6 DEF Trie!Path
  <2>2. DOMAIN k = 1 .. Arity /\ DOMAIN k = 1 .. i
    BY <2>1 DEF Trie!Tuple, Trie!Prefix
  <2>3. i = Arity
    <3>1. i < Arity => Arity \in 1 .. Arity /\ ~ (Arity \in 1 .. i)
      OBVIOUS
    <3>2. QED
      BY <2>2, <3>1
  <2>4. QED
    BY <1>2, <2>1, <2>3
<1>7. QED
  BY <1>2, <1>4, <1>5, <1>6

(* What a change of validFrom at one node is, action by action.            *)
LEMMA TrieAddFacts ==
  ASSUME Trie!TypeOK, NEW m \in Trie!Tuple, Trie!AddInstMatch(m)
  PROVE  /\ trieLevel' = trieLevel
         /\ validFrom' \in [Trie!Node -> 0 .. Trie!Never]
         /\ \A n \in Trie!Node :
              validFrom'[n] = IF n \in Trie!Path(m) /\ ~ (validFrom[n] <= trieLevel)
                                THEN trieLevel ELSE validFrom[n]
<1>1. trieLevel \in 0 .. Trie!Never
  BY DEF Trie!TypeOK, Trie!Level, Trie!Never
<1>2. QED
  BY <1>1 DEF Trie!AddInstMatch, Trie!SetValid, Trie!Valid, Trie!TypeOK

LEMMA TriePopFacts ==
  ASSUME Trie!TypeOK, Trie!Pop
  PROVE  /\ trieLevel \in Nat /\ trieLevel' = trieLevel - 1 /\ trieLevel' \in Trie!Level
         /\ validFrom' \in [Trie!Node -> 0 .. Trie!Never]
         /\ \A n \in Trie!Node :
              validFrom'[n] = IF validFrom[n] < trieLevel THEN validFrom[n] ELSE Trie!Never
<1>1. Trie!Never \in 0 .. Trie!Never
  BY DEF Trie!Never
<1>2. QED
  BY <1>1 DEF Trie!Pop, Trie!Restored, Trie!TypeOK, Trie!Level

LEMMA TrieTypeFacts ==
  ASSUME Trie!TypeOK
  PROVE  /\ trieLevel \in Nat /\ trieLevel < Trie!Never /\ Trie!Never \in Nat /\ Trie!Never = MaxMapLevel + 1
         /\ \A n \in Trie!Node : validFrom[n] \in Nat
BY DEF Trie!TypeOK, Trie!Level, Trie!Never


(* The tuples and the nodes above them.  A flag set in a scope that was    *)
(* popped is never taken for one set again at that depth: it is Never or   *)
(* at most the level.                                                      *)
FlagsAreOpen == \A n \in Trie!Node : validFrom[n] <= trieLevel \/ validFrom[n] = Trie!Never

TrieInv == Trie!TypeOK /\ FlagsAreOpen /\ Trie!ParentsOutlive

LEMMA TrieStarts == Trie!Init => TrieInv
<1> SUFFICES ASSUME Trie!Init PROVE TrieInv
  OBVIOUS
<1>1. Trie!TypeOK /\ FlagsAreOpen
  BY DEF Trie!Init, Trie!TypeOK, Trie!Level, Trie!Never, FlagsAreOpen
<1>2. Trie!ParentsOutlive
  <2> SUFFICES ASSUME NEW m \in Trie!Tuple, NEW n \in Trie!Path(m)
               PROVE  validFrom[n] <= validFrom[m]
    BY DEF Trie!ParentsOutlive
  <2>1. n \in Trie!Node /\ m \in Trie!Node
    BY TriePathFacts
  <2>2. QED
    BY <2>1 DEF Trie!Init, Trie!Never
<1>3. QED
  BY <1>1, <1>2 DEF TrieInv

LEMMA TrieAddKeeps ==
  ASSUME TrieInv, NEW m \in Trie!Tuple, Trie!AddInstMatch(m)
  PROVE  TrieInv'
<1> USE DEF TrieInv
<1>1. Trie!TypeOK'
  BY TrieAddFacts DEF Trie!TypeOK
<1>2. FlagsAreOpen'
  <2> SUFFICES ASSUME NEW n \in Trie!Node
               PROVE  validFrom'[n] <= trieLevel' \/ validFrom'[n] = Trie!Never
    BY DEF FlagsAreOpen, Trie!Never
  <2>1. QED
    BY TrieAddFacts, TrieTypeFacts DEF FlagsAreOpen
<1>3. Trie!ParentsOutlive'
  <2> SUFFICES ASSUME NEW k \in Trie!Tuple, NEW n \in Trie!Path(k)
               PROVE  validFrom'[n] <= validFrom'[k]
    BY DEF Trie!ParentsOutlive, Trie!Path, Trie!Prefix
  <2>1. n \in Trie!Node /\ k \in Trie!Node /\ validFrom[n] <= validFrom[k]
    BY TriePathFacts DEF Trie!ParentsOutlive
  <2>2. validFrom[n] \in Nat /\ validFrom[k] \in Nat /\ trieLevel \in Nat
    BY <2>1, TrieTypeFacts
  <2>3. k = m => n \in Trie!Path(m)
    OBVIOUS
  <2>4. k \in Trie!Path(m) => k = m
    BY TriePathFacts
  <2>5. QED
    BY <2>1, <2>2, <2>3, <2>4, TrieAddFacts
<1>4. QED
  BY <1>1, <1>2, <1>3

LEMMA TrieStepKeeps == TrieInv /\ [Trie!Next]_(Trie!trieVars) => TrieInv'
<1> SUFFICES ASSUME TrieInv, [Trie!Next]_(Trie!trieVars) PROVE TrieInv'
  OBVIOUS
<1> USE DEF TrieInv
<1>1. ASSUME NEW m \in Trie!Tuple, Trie!AddInstMatch(m) PROVE TrieInv'
  BY <1>1, TrieAddKeeps
<1>2. CASE Trie!Push
  <2>1. trieLevel' \in Trie!Level /\ trieLevel' = trieLevel + 1 /\ validFrom' = validFrom
    BY <1>2 DEF Trie!Push, Trie!TypeOK, Trie!Level
  <2>2. Trie!TypeOK'
    BY <2>1 DEF Trie!TypeOK
  <2>3. FlagsAreOpen'
    <3> SUFFICES ASSUME NEW n \in Trie!Node
                 PROVE  validFrom'[n] <= trieLevel' \/ validFrom'[n] = Trie!Never
      BY DEF FlagsAreOpen, Trie!Never
    <3>1. QED
      BY <2>1, TrieTypeFacts DEF FlagsAreOpen
  <2>4. Trie!ParentsOutlive'
    BY <2>1 DEF Trie!ParentsOutlive, Trie!Path, Trie!Prefix
  <2>5. QED
    BY <2>2, <2>3, <2>4
<1>3. CASE Trie!Pop
  <2>1. Trie!TypeOK'
    BY <1>3, TriePopFacts DEF Trie!TypeOK
  <2>2. FlagsAreOpen'
    <3> SUFFICES ASSUME NEW n \in Trie!Node
                 PROVE  validFrom'[n] <= trieLevel' \/ validFrom'[n] = Trie!Never
      BY DEF FlagsAreOpen, Trie!Never
    <3>1. validFrom[n] \in Nat
      BY TrieTypeFacts
    <3>2. QED
      BY <1>3, <3>1, TriePopFacts
  <2>3. Trie!ParentsOutlive'
    <3> SUFFICES ASSUME NEW k \in Trie!Tuple, NEW n \in Trie!Path(k)
                 PROVE  validFrom'[n] <= validFrom'[k]
      BY DEF Trie!ParentsOutlive, Trie!Path, Trie!Prefix
    <3>1. n \in Trie!Node /\ k \in Trie!Node /\ validFrom[n] <= validFrom[k]
      BY TriePathFacts DEF Trie!ParentsOutlive
    <3>2. validFrom[n] \in Nat /\ validFrom[k] \in Nat /\ validFrom[n] <= Trie!Never
      BY <3>1, TrieTypeFacts DEF Trie!TypeOK
    <3>3. trieLevel \in Nat /\ Trie!Never \in Nat /\ trieLevel < Trie!Never
      BY TrieTypeFacts
    <3>4. QED
      BY <1>3, <3>1, <3>2, <3>3, TriePopFacts
  <2>4. QED
    BY <2>1, <2>2, <2>3
<1>4. CASE UNCHANGED Trie!trieVars
  BY <1>4 DEF Trie!trieVars, Trie!TypeOK, FlagsAreOpen, Trie!ParentsOutlive, Trie!Path,
              Trie!Prefix, Trie!Node, Trie!Tuple, Trie!Never, Trie!Level
<1>5. QED
  BY <1>1, <1>2, <1>3, <1>4 DEF Trie!Next
(* The types, the flags and the parents, in every reachable state.         *)
THEOREM TrieInvariantCorrect == Trie!Spec => []TrieInv
BY TrieStarts, TrieStepKeeps, PTL DEF Trie!Spec


(* Whether a tuple is in the trie at a level is told by its last node.     *)
LEMMA MatchOfLeaf ==
  ASSUME TrieInv, NEW m \in Trie!Tuple, NEW i \in Trie!Level
  PROVE  (\A n \in Trie!Path(m) : validFrom[n] <= i) <=> validFrom[m] <= i
<1>1. \A n \in Trie!Path(m) :
        /\ validFrom[n] <= validFrom[m]
        /\ validFrom[n] \in Nat /\ validFrom[m] \in Nat
  BY TriePathFacts, TrieTypeFacts DEF TrieInv, Trie!ParentsOutlive
<1>2. i \in Nat
  BY DEF Trie!Level
<1>3. QED
  BY <1>1, <1>2, TriePathFacts

Leaves(i) ==
  IF i > trieLevel THEN {} ELSE {<<m, "valid">> : m \in {m \in Trie!Tuple : validFrom[m] <= i}}

LEMMA MatchesOfLeaves ==
  ASSUME TrieInv, NEW i \in Trie!Level
  PROVE  Trie!MatchesAt(i) = Leaves(i)
<1>1. {m \in Trie!Tuple : \A n \in Trie!Path(m) : validFrom[n] <= i}
        = {m \in Trie!Tuple : validFrom[m] <= i}
  BY MatchOfLeaf
<1>2. QED
  BY <1>1 DEF Trie!MatchesAt, Leaves

TrieSnap == [i \in Trie!Level |-> Trie!MatchesAt(i)]

(* The view of the trie by leaves, in the two states of a step.            *)
LEMMA SnapOfLeaves ==
  ASSUME TrieInv
  PROVE  TrieSnap = [i \in Trie!Level |-> Leaves(i)]
BY MatchesOfLeaves DEF TrieSnap

(* addInstMatch() adds one tuple at the current level, and no other comes  *)
(* or goes at any level.                                                   *)
LEMMA TrieAddImplements ==
  ASSUME TrieInv, TrieInv', NEW m \in Trie!Tuple, Trie!AddInstMatch(m)
  PROVE  Trie!Abs!Insert(m, "valid")
<1> Trie!TypeOK
  BY DEF TrieInv
<1>1. TrieSnap = [i \in Trie!Level |-> Leaves(i)] /\ TrieSnap' = [i \in Trie!Level |-> Leaves(i)']
  <2>1. ASSUME NEW i \in Trie!Level PROVE Trie!MatchesAt(i)' = Leaves(i)'
    <3>1. \A k \in Trie!Tuple :
            (\A n \in Trie!Path(k) : validFrom'[n] <= i) <=> validFrom'[k] <= i
      <4> SUFFICES ASSUME NEW k \in Trie!Tuple
                   PROVE  (\A n \in Trie!Path(k) : validFrom'[n] <= i) <=> validFrom'[k] <= i
        OBVIOUS
      <4>1. \A n \in Trie!Path(k) : n \in Trie!Node /\ k \in Trie!Node
        BY TriePathFacts
      <4>2. \A n \in Trie!Path(k) : validFrom'[n] <= validFrom'[k]
        BY DEF TrieInv, Trie!ParentsOutlive, Trie!Path, Trie!Prefix
      <4>3. \A n \in Trie!Node : validFrom'[n] \in Nat
        BY TrieAddFacts, TrieTypeFacts
      <4>4. QED
        BY <4>1, <4>2, <4>3, TriePathFacts DEF Trie!Level
    <3>2. {k \in Trie!Tuple : \A n \in Trie!Path(k) : validFrom'[n] <= i}
            = {k \in Trie!Tuple : validFrom'[k] <= i}
      BY <3>1
    <3>3. QED
      BY <3>2 DEF Trie!MatchesAt, Leaves, Trie!Path, Trie!Prefix
  <2>2. QED
    BY <2>1, SnapOfLeaves DEF TrieSnap
<1>2. \A k \in Trie!Tuple : validFrom'[k] = IF k = m /\ ~ (validFrom[k] <= trieLevel)
                                         THEN trieLevel ELSE validFrom[k]
  BY TrieAddFacts, TriePathFacts
<1>3. trieLevel \in Trie!Level /\ trieLevel \in Nat /\ trieLevel' = trieLevel
  BY TrieTypeFacts, TrieAddFacts DEF Trie!TypeOK
<1>4. \A k \in Trie!Tuple : validFrom[k] \in Nat
  BY TrieTypeFacts, TriePathFacts
<1>5. ASSUME NEW i \in Trie!Level, i # trieLevel PROVE Leaves(i)' = Leaves(i)
  <2>1. CASE i > trieLevel
    BY <1>3, <2>1 DEF Leaves
  <2>2. CASE ~ (i > trieLevel)
    <3>1. i < trieLevel
      BY <1>3, <1>5, <2>2 DEF Trie!Level
    <3>2. \A k \in Trie!Tuple : validFrom'[k] <= i <=> validFrom[k] <= i
      BY <1>2, <1>3, <1>4, <3>1 DEF Trie!Level
    <3>3. {k \in Trie!Tuple : validFrom'[k] <= i} = {k \in Trie!Tuple : validFrom[k] <= i}
      BY <3>2
    <3>4. QED
      BY <1>3, <2>2, <3>3 DEF Leaves
  <2>3. QED
    BY <2>1, <2>2
<1>6. Leaves(trieLevel)' = {e \in Leaves(trieLevel) : e[1] # m} \cup {<<m, "valid">>}
  <2>1. Leaves(trieLevel) = {<<k, "valid">> : k \in {k \in Trie!Tuple : validFrom[k] <= trieLevel}}
    BY <1>3 DEF Leaves
  <2>2. Leaves(trieLevel)' = {<<k, "valid">> : k \in {k \in Trie!Tuple : validFrom'[k] <= trieLevel}}
    BY <1>3 DEF Leaves
  <2>3. \A k \in Trie!Tuple : validFrom'[k] <= trieLevel <=> k = m \/ validFrom[k] <= trieLevel
    BY <1>2, <1>3, <1>4
  <2>4. {k \in Trie!Tuple : validFrom'[k] <= trieLevel}
          = {k \in Trie!Tuple : validFrom[k] <= trieLevel} \cup {m}
    BY <2>3
  <2>5. QED
    BY <2>1, <2>2, <2>4
<1>7. TrieSnap' = [TrieSnap EXCEPT ![trieLevel] = {e \in @ : e[1] # m} \cup {<<m, "valid">>}]
  BY <1>1, <1>3, <1>5, <1>6
<1>8. QED
  BY <1>3, <1>7 DEF Trie!Abs!Insert, TrieSnap
(* A push takes a copy, since no flag is set at the level it opens.        *)
LEMMA TriePushImplements ==
  ASSUME TrieInv, Trie!Push
  PROVE  Trie!Abs!Push
<1> Trie!TypeOK /\ FlagsAreOpen
  BY DEF TrieInv
<1>1. /\ trieLevel \in Nat /\ trieLevel + 1 \in Trie!Level /\ trieLevel < MaxMapLevel
      /\ trieLevel' = trieLevel + 1 /\ validFrom' = validFrom
  BY TrieTypeFacts DEF Trie!Push, Trie!Level
<1>2. ASSUME NEW i \in Trie!Level, i # trieLevel + 1 PROVE Trie!MatchesAt(i)' = Trie!MatchesAt(i)
  <2>1. i > trieLevel' <=> i > trieLevel
    BY <1>1, <1>2 DEF Trie!Level
  <2>2. QED
    BY <1>1, <2>1 DEF Trie!MatchesAt, Trie!Path, Trie!Prefix
<1>3. ASSUME NEW i \in Trie!Level, i = trieLevel + 1 PROVE Trie!MatchesAt(i)' = Trie!MatchesAt(trieLevel)
  <2>1. \A n \in Trie!Node : validFrom[n] <= trieLevel + 1 <=> validFrom[n] <= trieLevel
    BY <1>1, TrieTypeFacts DEF FlagsAreOpen
  <2>2. ASSUME NEW m \in Trie!Tuple
        PROVE  (\A n \in Trie!Path(m) : validFrom'[n] <= i)
                 <=> (\A n \in Trie!Path(m) : validFrom[n] <= trieLevel)
    BY <1>1, <1>3, <2>1, TriePathFacts
  <2>3. {m \in Trie!Tuple : \A n \in Trie!Path(m) : validFrom'[n] <= i}
          = {m \in Trie!Tuple : \A n \in Trie!Path(m) : validFrom[n] <= trieLevel}
    BY <2>2
  <2>4. ~ (i > trieLevel') /\ ~ (trieLevel > trieLevel)
    BY <1>1, <1>3
  <2>5. QED
    BY <1>1, <2>3, <2>4 DEF Trie!MatchesAt, Trie!Path, Trie!Prefix
<1>4. TrieSnap' = [TrieSnap EXCEPT ![trieLevel + 1] = TrieSnap[trieLevel]]
  <2>1. trieLevel \in Trie!Level
    BY DEF Trie!TypeOK
  <2>2. QED
    BY <1>1, <1>2, <1>3, <2>1 DEF TrieSnap
<1>5. QED
  BY <1>1, <1>4 DEF Trie!Abs!Push, TrieSnap

(* A pop clears the flags that were set in the popped scope, which is what *)
(* the levels below it see already.                                        *)
LEMMA TriePopImplements ==
  ASSUME TrieInv, Trie!Pop
  PROVE  Trie!Abs!Pop
<1> Trie!TypeOK
  BY DEF TrieInv
<1>1. /\ trieLevel \in Nat /\ trieLevel \in Trie!Level /\ trieLevel > 0
      /\ trieLevel' = trieLevel - 1
  BY TrieTypeFacts DEF Trie!Pop, Trie!TypeOK
<1>2. ASSUME NEW i \in Trie!Level, i # trieLevel PROVE Trie!MatchesAt(i)' = Trie!MatchesAt(i)
  <2>1. i > trieLevel' <=> i > trieLevel
    BY <1>1, <1>2 DEF Trie!Level
  <2>2. CASE i > trieLevel
    BY <2>1, <2>2 DEF Trie!MatchesAt
  <2>3. CASE ~ (i > trieLevel)
    <3>1. i < trieLevel /\ trieLevel < Trie!Never /\ i \in Nat /\ Trie!Never \in Nat
      BY <1>1, <1>2, <2>3, TrieTypeFacts DEF Trie!Level
    <3>2. \A n \in Trie!Node : validFrom'[n] <= i <=> validFrom[n] <= i
      BY <1>1, <3>1, TrieTypeFacts, TriePopFacts
    <3>3. ASSUME NEW m \in Trie!Tuple
          PROVE  (\A n \in Trie!Path(m) : validFrom'[n] <= i)
                   <=> (\A n \in Trie!Path(m) : validFrom[n] <= i)
      BY <3>2, TriePathFacts
    <3>4. {m \in Trie!Tuple : \A n \in Trie!Path(m) : validFrom'[n] <= i}
            = {m \in Trie!Tuple : \A n \in Trie!Path(m) : validFrom[n] <= i}
      BY <3>3
    <3>5. QED
      BY <2>1, <2>3, <3>4 DEF Trie!MatchesAt, Trie!Path, Trie!Prefix
  <2>4. QED
    BY <2>2, <2>3
<1>3. ASSUME NEW i \in Trie!Level, i = trieLevel PROVE Trie!MatchesAt(i)' = {}
  BY <1>1, <1>3 DEF Trie!MatchesAt
<1>4. TrieSnap' = [TrieSnap EXCEPT ![trieLevel] = {}]
  BY <1>1, <1>2, <1>3 DEF TrieSnap
<1>5. QED
  BY <1>1, <1>4 DEF Trie!Abs!Pop, TrieSnap

LEMMA TrieNextImplements ==
  TrieInv /\ TrieInv' /\ [Trie!Next]_(Trie!trieVars) => [Trie!Abs!Next]_(Trie!Abs!mapVars)
<1> SUFFICES ASSUME TrieInv, TrieInv', [Trie!Next]_(Trie!trieVars)
             PROVE  [Trie!Abs!Next]_(Trie!Abs!mapVars)
  OBVIOUS
<1>1. ASSUME NEW m \in Trie!Tuple, Trie!AddInstMatch(m) PROVE Trie!Abs!Next
  BY <1>1, TrieAddImplements DEF Trie!Abs!Next
<1>2. CASE Trie!Push
  BY <1>2, TriePushImplements DEF Trie!Abs!Next
<1>3. CASE Trie!Pop
  BY <1>3, TriePopImplements DEF Trie!Abs!Next
<1>4. CASE UNCHANGED Trie!trieVars
  <2>1. \A i \in Trie!Level : Trie!MatchesAt(i)' = Trie!MatchesAt(i)
    BY <1>4 DEF Trie!trieVars, Trie!MatchesAt, Trie!Path, Trie!Prefix
  <2>2. QED
    BY <1>4, <2>1 DEF Trie!trieVars, Trie!Abs!mapVars
<1>5. QED
  BY <1>1, <1>2, <1>3, <1>4 DEF Trie!Next

(* Flags that are cleared one by one in a trie that is never cut back      *)
(* implement a set of tuples that is copied at each push.                  *)
THEOREM TrieImplements == Trie!Spec => Trie!ImplementsMap
<1>1. Trie!Init => Trie!Abs!Init
  <2> SUFFICES ASSUME Trie!Init PROVE Trie!Abs!Init
    OBVIOUS
  <2>1. ASSUME NEW i \in Trie!Level PROVE Trie!MatchesAt(i) = {}
    <3>1. \A m \in Trie!Tuple : m \in Trie!Path(m) /\ ~ (validFrom[m] <= i)
      BY TriePathFacts DEF Trie!Init, Trie!Never, Trie!Level
    <3>2. QED
      BY <3>1 DEF Trie!MatchesAt
  <2>2. QED
    BY <2>1 DEF Trie!Init, Trie!Abs!Init, Trie!Level, Trie!Abs!Level
<1>2. QED
  BY <1>1, TrieInvariantCorrect, TrieNextImplements, PTL DEF Trie!Spec, Trie!ImplementsMap, Trie!Abs!Spec

(* What addInstMatch() is told to add is in the set, at the current level. *)
THEOREM TrieAdditionsCorrect == Trie!Spec => Trie!AdditionsCorrespond
<1>1. TrieInv /\ TrieInv' => \A m \in Trie!Tuple : Trie!AddInstMatch(m) => Trie!Abs!Insert(m, "valid")
  BY TrieAddImplements
<1>2. QED
  BY <1>1, TrieInvariantCorrect, TrieStepKeeps, PTL DEF Trie!Spec, Trie!AdditionsCorrespond

HIDE TrieBounds

-------------------------------------------------------------------------------
(* All containers together: a step of one leaves the variables of the others *)
(* alone, and each keeps an invariant of its own.                            *)
InsertMapProofs == INSTANCE CDInsertHashMapProofs WITH
  Data <- Val, level <- insertLevel, scope <- insertScope, saved <- sizes

ContainersInv ==
  MapInv /\ MemoryInv /\ IInv /\ InsertMapProofs!IInv /\ TrieInv

allVars == <<container, mapVars, insertVars, vars, memoryVars, trieVars>>

LEMMA ContainersStart == MCInit => ContainersInv
<1> SUFFICES ASSUME MCInit PROVE ContainersInv
  OBVIOUS
<1>1. Map!Init /\ InsertMap!Init /\ Memory!Init /\ Trie!Init /\ Init
  BY DEF MCInit
<1>2. IInv
  BY <1>1 DEF Init, IInv, TypeOK, SavedElementsKept, Level, Size
<1>3. InsertMapProofs!IInv
  <2>1. InsertMapProofs!Init
    BY <1>1 DEF InsertMap!Init, InsertMapProofs!Init
  <2>2. MaxLevel \in Nat
    BY BoundsAreNatural
  <2> QED BY <2>1, <2>2, InsertMapProofs!InitIInv
<1>4. TrieInv
  BY <1>1, TrieStarts
<1>5. MapInv
  BY <1>1, MapStarts
<1>6. MemoryInv
  BY <1>1, MemoryStarts
<1> QED BY <1>2, <1>3, <1>4, <1>5, <1>6 DEF ContainersInv

LEMMA MapStutters ==
  ASSUME MapInv, UNCHANGED mapVars
  PROVE MapInv'
<1>1. \A k \in Key : (EntryShape(k)' <=> EntryShape(k)) /\ (Listed(k)' <=> Listed(k))
                     /\ (Dropped(k)' <=> Dropped(k))
  BY DEF mapVars, EntryShape, Listed, Dropped, Scopes!Alive
<1>2. Scopes!IInv'
  BY DEF mapVars, MapInv, EntriesInv, Scopes!IInv, Scopes!TypeOK, Scopes!RestoreChain,
         Scopes!RestoreAt, Scopes!LiveIsNewest, Scopes!Visibility, Scopes!Sees,
         Scopes!IsVisible, Scopes!Alive
<1> QED BY <1>1, <1>2 DEF mapVars, MapInv, EntriesInv

LEMMA MemoryStutters ==
  ASSUME MemoryInv, UNCHANGED memoryVars
  PROVE MemoryInv'
<1>1. /\ chunkList' = chunkList /\ freeChunks' = freeChunks /\ positions' = positions
      /\ indexChunkList' = indexChunkList /\ nextFree' = nextFree /\ data' = data
  BY DEF memoryVars
<1>2. Here' = Here
  BY <1>1 DEF Here
<1>3. \A b : Fits(b)' <=> Fits(b)
  BY DEF Fits
<1>4. \A e, k : Bounds(e, k, chunkList', data') <=> Bounds(e, k, chunkList, data)
  BY <1>1
<1>5. Distinct(chunkList', freeChunks') <=> Distinct(chunkList, freeChunks)
  BY <1>1
<1> QED BY <1>1, <1>2, <1>3, <1>4, <1>5 DEF MemoryInv

LEMMA InsertMapKeeps ==
  ASSUME InsertMapProofs!IInv, InsertMap!Next \/ UNCHANGED insertVars
  PROVE InsertMapProofs!IInv'
<1>1. [InsertMapProofs!Next]_(InsertMapProofs!vars)
  <2>1. CASE UNCHANGED insertVars
    BY <2>1 DEF insertVars, InsertMapProofs!vars
  <2>2. CASE InsertMap!Next
    BY <2>2 DEF InsertMap!Next, InsertMapProofs!Next, InsertMap!Insert,
       InsertMapProofs!Insert, InsertMap!InsertAtContextLevelZero,
       InsertMapProofs!InsertAtContextLevelZero, InsertMap!Push, InsertMapProofs!Push,
       InsertMap!Pop, InsertMapProofs!Pop, InsertMap!Mapped, InsertMapProofs!Mapped,
       InsertMap!MakeCurrent, InsertMapProofs!MakeCurrent, InsertMap!RestoreSize,
       InsertMapProofs!RestoreSize, InsertMap!Last, InsertMapProofs!Last,
       InsertMap!Front, InsertMapProofs!Front
  <2> QED BY <2>1, <2>2
<1>2. MaxLevel \in Nat
  BY BoundsAreNatural
<1> QED BY <1>1, <1>2, InsertMapProofs!NextKeeps

LEMMA TrieKeeps ==
  ASSUME TrieInv, Trie!Next \/ UNCHANGED trieVars
  PROVE TrieInv'
<1>1. [Trie!Next]_(Trie!trieVars)
  BY DEF trieVars, Trie!trieVars
<1> QED BY <1>1, TrieStepKeeps

LEMMA ContainersKeep ==
  ASSUME ContainersInv, [MCNext]_allVars
  PROVE ContainersInv'
<1>1. /\ Map!Next \/ UNCHANGED mapVars
      /\ InsertMap!Next \/ UNCHANGED insertVars
      /\ [Next]_vars
      /\ Memory!Next \/ UNCHANGED memoryVars
      /\ Trie!Next \/ UNCHANGED trieVars
  BY DEF MCNext, allVars
<1>2. MapInv'
  BY <1>1, MapStepKeeps, MapStutters DEF ContainersInv
<1>3. MemoryInv'
  BY <1>1, MemoryStepKeeps, MemoryStutters DEF ContainersInv
<1>4. IInv'
  BY <1>1, NextKeeps DEF ContainersInv
<1>5. InsertMapProofs!IInv'
  BY <1>1, InsertMapKeeps DEF ContainersInv
<1>6. TrieInv'
  BY <1>1, TrieKeeps DEF ContainersInv
<1> QED BY <1>2, <1>3, <1>4, <1>5, <1>6 DEF ContainersInv

(* The inductive invariant of all containers, in every reachable state.      *)
THEOREM ContainersInvCorrect == MCSpec => []ContainersInv
<1>1. ContainersInv /\ [MCNext]_allVars => ContainersInv'
  BY ContainersKeep
<1> QED BY <1>1, ContainersStart, PTL DEF MCSpec, allVars

(* ContextMemoryManager: whatever is allocated, pushed and popped, live      *)
(* blocks lie apart in chunks that are in use, a chunk is in one list, and   *)
(* no saved position lets a block be handed out again.                       *)
THEOREM BlocksStayApartCorrect == MCSpec => []BlocksStayApart
<1>1. ContainersInv => BlocksStayApart
  BY MemoryIsSafe DEF ContainersInv
<1> QED BY <1>1, ContainersInvCorrect, PTL

(* CDHashMap: its ring is the order of insertion, an entry is alive as long  *)
(* as it is in the map or in the trash, and the table is the current level's *)
(* map.  CDInsertHashMap: its counters agree with its keys.                  *)
(* CDInstMatchTrie: no tuple outlives a node on its path.                    *)
THEOREM MapHoldsItsEntriesCorrect == MCSpec => []MapHoldsItsEntries
<1>1. ContainersInv => MapHoldsItsEntries
  <2> SUFFICES ASSUME ContainersInv PROVE MapHoldsItsEntries
    OBVIOUS
  <2>1. Map!RingIsInsertionOrder /\ Map!NoEntryIsLost /\ Map!TableIsCurrent
    BY MapIsSafe DEF ContainersInv
  <2>2. InsertMap!CountersAgree
    BY DEF ContainersInv, InsertMapProofs!IInv, InsertMapProofs!CountersAgree,
           InsertMap!CountersAgree
  <2>3. Trie!ParentsOutlive
    BY DEF ContainersInv, TrieInv
  <2> QED BY <2>1, <2>2, <2>3 DEF MapHoldsItsEntries
<1> QED BY <1>1, ContainersInvCorrect, PTL

(* The variables of every container keep their types; in particular a pop of *)
(* the context never asks a map for more keys than it has, nor the memory    *)
(* for a chunk it does not have.                                             *)
THEOREM TypesCorrect == MCSpec => []TypesOK
<1>1. ContainersInv => TypesOK
  <2> SUFFICES ASSUME ContainersInv PROVE TypesOK
    OBVIOUS
  <2>1. TypeOK
    BY DEF ContainersInv, IInv
  <2>2. Map!TypeOK
    BY MapIsSafe DEF ContainersInv
  <2>3. InsertMap!TypeOK
    BY DEF ContainersInv, InsertMapProofs!IInv, InsertMapProofs!TypeOK, InsertMap!TypeOK,
           InsertMapProofs!Level, InsertMap!Level
  <2>4. Memory!TypeOK
    BY MemoryIsSafe DEF ContainersInv
  <2>5. Trie!TypeOK
    BY DEF ContainersInv, TrieInv
  <2> QED BY <2>1, <2>2, <2>3, <2>4, <2>5 DEF TypesOK
<1> QED BY <1>1, ContainersInvCorrect, PTL

-------------------------------------------------------------------------------
(* CDHashMap behaves as if it were copied at each push.  What level i sees   *)
(* of the entry of each key, and the entries that this makes.                *)
Seen(i) == [k \in Key |-> Scopes!ValueAt(k, i)]

Held(v) == v # Absent /\ v.map

EntriesOf(f) == {<<k, f[k].data>> : k \in {p \in Key : Held(f[p])}}

MapSnap == [i \in Scopes!Level |-> EntriesOf(Seen(i))]

LEMMA SnapIsMapSnap ==
  /\ [i \in Map!C!Level |-> Map!EntriesAt(i)] = MapSnap
  /\ [i \in Map!C!Level |-> Map!EntriesAt(i)]' = MapSnap'
<1>1. ASSUME NEW k \in Key, NEW i \in Scopes!Level
      PROVE Map!C!ValueAt(k, i) = Seen(i)[k] /\ Map!C!ValueAt(k, i)' = Seen(i)'[k]
  BY DEF Seen, Map!C!ValueAt, Scopes!ValueAt, Map!C!Latest, Scopes!Latest,
         Map!C!IsVisible, Scopes!IsVisible, Map!C!Level, Scopes!Level
<1>2. ASSUME NEW i \in Scopes!Level
      PROVE Map!EntriesAt(i) = EntriesOf(Seen(i)) /\ Map!EntriesAt(i)' = EntriesOf(Seen(i)')
  <2>1. {p \in Key : Map!C!ValueAt(p, i) # Absent /\ Map!C!ValueAt(p, i).map}
          = {p \in Key : Held(Seen(i)[p])}
    BY <1>1 DEF Held
  <2>2. {p \in Key : Map!C!ValueAt(p, i)' # Absent /\ (Map!C!ValueAt(p, i)').map}
          = {p \in Key : Held(Seen(i)'[p])}
    BY <1>1 DEF Held
  <2>3. Map!EntriesAt(i) = {<<k, Map!C!ValueAt(k, i).data>> : k \in {p \in Key : Held(Seen(i)[p])}}
    BY <2>1 DEF Map!EntriesAt
  <2>4. Map!EntriesAt(i)' = {<<k, (Map!C!ValueAt(k, i)').data>> : k \in {p \in Key : Held(Seen(i)'[p])}}
    BY <2>2 DEF Map!EntriesAt
  <2> QED BY <1>1, <2>3, <2>4 DEF EntriesOf
<1>3. Map!C!Level = Scopes!Level
  BY DEF Map!C!Level, Scopes!Level
<1>4. \A i \in Scopes!Level : EntriesOf(Seen(i))' = EntriesOf(Seen(i)')
  BY DEF EntriesOf, Seen, Held
<1> QED BY <1>2, <1>3, <1>4 DEF MapSnap

(* One key is given new data, or has none before and after.                  *)
LEMMA EntriesWith ==
  ASSUME NEW f, NEW g, NEW k \in Key, NEW d, g[k] = Map!In(d), Map!In(d) # Absent,
         \A p \in Key \ {k} : g[p] = f[p]
  PROVE EntriesOf(g) = {e \in EntriesOf(f) : e[1] # k} \cup {<<k, d>>}
<1>1. Held(g[k]) /\ g[k].data = d
  BY DEF Held, Map!In
<1>2. \A e \in EntriesOf(g) : e \in {x \in EntriesOf(f) : x[1] # k} \cup {<<k, d>>}
  <2> SUFFICES ASSUME NEW p \in Key, Held(g[p]), p # k
               PROVE <<p, g[p].data>> \in EntriesOf(f)
    BY <1>1 DEF EntriesOf
  <2> QED BY DEF EntriesOf
<1>3. \A e \in EntriesOf(f) : e[1] # k => e \in EntriesOf(g)
  <2> SUFFICES ASSUME NEW p \in Key, Held(f[p]), p # k
               PROVE <<p, f[p].data>> \in EntriesOf(g)
    BY DEF EntriesOf
  <2> QED BY DEF EntriesOf
<1>4. <<k, d>> \in EntriesOf(g)
  BY <1>1 DEF EntriesOf
<1> QED BY <1>2, <1>3, <1>4

LEMMA EntriesWithout ==
  ASSUME NEW f, NEW g, NEW k \in Key, ~ Held(f[k]), ~ Held(g[k]),
         \A p \in Key \ {k} : g[p] = f[p]
  PROVE EntriesOf(g) = EntriesOf(f)
<1>1. {p \in Key : Held(g[p])} = {p \in Key : Held(f[p])}
  OBVIOUS
<1>2. \A p \in Key : Held(f[p]) => g[p] = f[p]
  OBVIOUS
<1> QED BY <1>1, <1>2 DEF EntriesOf

LEMMA EntriesSame ==
  ASSUME NEW f, NEW g, \A p \in Key : g[p] = f[p]
  PROVE EntriesOf(g) = EntriesOf(f)
BY DEF EntriesOf

LEMMA NoneHeld ==
  ASSUME NEW f, NEW k \in Key, ~ Held(f[k])
  PROVE \A e \in EntriesOf(f) : e[1] # k
BY DEF EntriesOf

LEMMA NothingHeld ==
  ASSUME NEW f, \A p \in Key : f[p] = Absent
  PROVE EntriesOf(f) = {}
BY DEF EntriesOf, Held

(* A level sees of an entry what it saw if no version at or below changes.   *)
LEMMA SeenSame ==
  ASSUME EntriesInv, NEW i \in Scopes!Level, NEW k \in Key,
         i > mapLevel' <=> i > mapLevel, mapLevel' \in Nat,
         \A s \in Scopes!Level : s <= i => version'[s][k] = version[s][k]
  PROVE Seen(i)'[k] = Seen(i)[k]
<1>1. Scopes!Sees(k, i)
  BY DEF EntriesInv, Scopes!IInv, Scopes!Visibility
<1>2. Scopes!Latest(version', k, i) = Scopes!Latest(version, k, i)
  BY <1>1, ScopesAssumptions, Scopes!LatestSame
<1>3. i <= mapLevel' <=> i <= mapLevel
  BY ScopesFacts
<1> QED BY <1>2, <1>3 DEF Seen, Scopes!ValueAt, Scopes!Latest, Scopes!IsVisible

LEMMA SeenIs ==
  ASSUME mapLevel \in Nat, NEW i \in Scopes!Level, NEW k \in Key
  PROVE /\ i <= mapLevel => Seen(i)[k] = Scopes!Latest(version, k, i)
        /\ ~ (i <= mapLevel) => Seen(i)[k] = Absent
BY DEF Seen, Scopes!ValueAt

LEMMA SeenIsNext ==
  ASSUME NEW i \in Scopes!Level, NEW k \in Key
  PROVE /\ i <= mapLevel' => Seen(i)'[k] = Scopes!Latest(version', k, i)
        /\ ~ (i <= mapLevel') => Seen(i)'[k] = Absent
BY DEF Seen, Scopes!ValueAt, Scopes!Latest, Scopes!IsVisible

(* The entry of key k is written at level n, or is made there: every level   *)
(* sees what it saw, but n, which sees the new data.                         *)
LEMMA InsertedAtLevel ==
  ASSUME EntriesInv, mapLevel' = mapLevel, NEW k \in Key, NEW d \in Val,
         \A i \in Scopes!Level, p \in Key : p # k => Seen(i)'[p] = Seen(i)[p],
         Seen(mapLevel)'[k] = Map!In(d),
         \A i \in Scopes!Level : i # mapLevel =>
           Seen(i)'[k] = Seen(i)[k] \/ (~ Held(Seen(i)'[k]) /\ ~ Held(Seen(i)[k]))
  PROVE Map!Abs!Insert(k, d)
<1>1. ASSUME NEW i \in Scopes!Level
      PROVE EntriesOf(Seen(i)') = IF i = mapLevel
              THEN {e \in EntriesOf(Seen(i)) : e[1] # k} \cup {<<k, d>>}
              ELSE EntriesOf(Seen(i))
  <2>1. \A p \in Key \ {k} : Seen(i)'[p] = Seen(i)[p]
    OBVIOUS
  <2>2. CASE i = mapLevel
    <3>1. Map!In(d) # Absent /\ Seen(i)'[k] = Map!In(d)
      BY <2>2, ScopesAssumptions
    <3>2. EntriesOf(Seen(i)') = {e \in EntriesOf(Seen(i)) : e[1] # k} \cup {<<k, d>>}
      BY <2>1, <3>1, EntriesWith
    <3> QED BY <2>2, <3>2
  <2>3. CASE i # mapLevel /\ Seen(i)'[k] = Seen(i)[k]
    <3>1. \A p \in Key : Seen(i)'[p] = Seen(i)[p]
      BY <2>1, <2>3
    <3>2. EntriesOf(Seen(i)') = EntriesOf(Seen(i))
      BY <3>1, EntriesSame
    <3> QED BY <2>3, <3>2
  <2>4. CASE i # mapLevel /\ ~ Held(Seen(i)'[k]) /\ ~ Held(Seen(i)[k])
    <3>1. EntriesOf(Seen(i)') = EntriesOf(Seen(i))
      BY <2>1, <2>4, EntriesWithout
    <3> QED BY <2>4, <3>1
  <2> QED BY <2>2, <2>3, <2>4
<1>2. mapLevel \in Scopes!Level
  BY ScopesFacts
<1>3. \A i \in Scopes!Level : EntriesOf(Seen(i))' = EntriesOf(Seen(i)')
  BY DEF EntriesOf, Seen, Held
<1>4. MapSnap' = [MapSnap EXCEPT ![mapLevel] =
                    {e \in MapSnap[mapLevel] : e[1] # k} \cup {<<k, d>>}]
  BY <1>1, <1>2, <1>3 DEF MapSnap
<1> QED BY <1>4, SnapIsMapSnap DEF Map!Abs!Insert

LEMMA InsertNewImplements ==
  ASSUME EntriesInv, EntriesInv', NEW k \in Key, NEW d \in Val, Map!InsertNew(k, d)
  PROVE Map!Abs!Insert(k, d)
<1> DEFINE v == Map!In(d)
<1>1. Map!Idle /\ k \notin table /\ Map!C!New(k, v)
  BY DEF Map!InsertNew
<1>2. Scopes!New(k, v)
  BY <1>1 DEF Map!C!New, Scopes!New, Map!C!Alive, Scopes!Alive, Map!C!NoScope, Scopes!NoScope,
              Map!C!Level, Scopes!Level
<1>3. v \in Map!Entry /\ v # Absent /\ Map!NotIn # Absent /\ ~ Held(Map!NotIn)
      /\ ~ Held(Absent)
  BY ScopesAssumptions DEF Held
<1>4. \A s \in Scopes!Level : version[s][k] = Absent
  BY <1>1, NoEntry
<1> HIDE DEF v
<1>5. /\ mapLevel' = mapLevel /\ mapScope'[k] = mapLevel
      /\ \A s \in Scopes!Level, p \in Key :
           version'[s][p] = IF p # k THEN version[s][p]
                            ELSE IF s = mapLevel THEN v
                            ELSE IF s = 0 THEN Map!NotIn ELSE Absent
  BY <1>2, ScopesFacts DEF Scopes!New
<1>6. mapLevel \in Nat /\ mapLevel \in Scopes!Level /\ 0 \in Scopes!Level
      /\ Scopes!Level = 0 .. MaxMapLevel
  BY ScopesFacts
<1>7. \A i \in Scopes!Level, p \in Key : p # k => Seen(i)'[p] = Seen(i)[p]
  BY <1>5, <1>6, SeenSame
<1>8. Seen(mapLevel)'[k] = v
  <2>1. \A t \in Scopes!Level : mapLevel < t => version'[t][k] = Absent
    BY <1>5, <1>6
  <2>2. version'[mapLevel][k] = v /\ mapLevel <= mapLevel
    BY <1>5, <1>6
  <2>3. Scopes!Latest(version', k, mapLevel) = v
    BY <1>3, <1>6, <2>1, <2>2, ScopesAssumptions, Scopes!LatestNewest
  <2> QED BY <1>5, <1>6, <2>3, SeenIsNext DEF Seen
<1>9. ASSUME NEW i \in Scopes!Level, i # mapLevel
      PROVE ~ Held(Seen(i)'[k]) /\ ~ Held(Seen(i)[k])
  <2>1. Seen(i)[k] = Absent
    BY <1>4, <1>6, SeenIs, ScopesAssumptions, Scopes!LatestNone
  <2>2. CASE i < mapLevel
    <3>1. Scopes!IsVisible(version', k, i, 0) /\ version'[0][k] = Map!NotIn
      BY <1>3, <1>5, <1>6, <2>2 DEF Scopes!IsVisible
    <3>2. Scopes!Latest(version', k, i) = Map!NotIn
      BY <1>6, <3>1, ScopesAssumptions, Scopes!LatestIs
    <3>3. i <= mapLevel'
      BY <1>5, <1>6, <2>2
    <3> QED BY <1>3, <2>1, <3>2, <3>3, SeenIsNext
  <2>3. CASE ~ (i < mapLevel)
    <3>1. ~ (i <= mapLevel')
      BY <1>5, <1>6, <1>9, <2>3
    <3> QED BY <1>3, <2>1, <3>1, SeenIsNext
  <2> QED BY <2>2, <2>3
<1>10. Seen(mapLevel)'[k] = Map!In(d)
  BY <1>8 DEF v
<1> QED BY <1>5, <1>7, <1>9, <1>10, InsertedAtLevel

LEMMA OverwriteImplements ==
  ASSUME EntriesInv, EntriesInv', NEW k \in Key, NEW d \in Val, Map!Overwrite(k, d)
  PROVE Map!Abs!Insert(k, d)
<1> DEFINE v == Map!In(d)
<1>1. Scopes!Set(k, v)
  BY DEF Map!Overwrite, Map!C!Set, Scopes!Set, Map!C!Alive, Scopes!Alive, Map!C!NoScope,
         Scopes!NoScope
<1>2. v \in Map!Entry /\ v # Absent
  BY ScopesAssumptions
<1> HIDE DEF v
<1>3. mapLevel \in Nat /\ mapLevel \in Scopes!Level /\ 0 \in Scopes!Level
      /\ Scopes!Level = 0 .. MaxMapLevel
  BY ScopesFacts
<1>4. /\ mapLevel' = mapLevel
      /\ \A s \in Scopes!Level, p \in Key :
           version'[s][p] = IF p = k /\ s = mapLevel THEN v ELSE version[s][p]
  BY <1>1, ScopesFacts DEF Scopes!Set
<1>5. \A t \in Scopes!Level : mapLevel < t => version[t][k] = Absent
  <2>1. /\ Scopes!Alive(k) => mapScope[k] <= mapLevel
        /\ \A t \in Scopes!Level : mapScope[k] < t => version[t][k] = Absent
    BY DEF EntriesInv, Scopes!IInv, Scopes!LiveIsNewest
  <2>2. mapScope[k] \in Int /\ (mapScope[k] = -1 \/ mapScope[k] <= mapLevel)
    BY <1>3, <2>1, ScopesFacts DEF Scopes!Alive
  <2> QED BY <1>3, <2>1, <2>2
<1>6. \A i \in Scopes!Level, p \in Key : p # k => Seen(i)'[p] = Seen(i)[p]
  BY <1>3, <1>4, SeenSame
<1>7. Seen(mapLevel)'[k] = v
  <2>1. \A t \in Scopes!Level : mapLevel < t => version'[t][k] = Absent
    BY <1>3, <1>4, <1>5
  <2>2. version'[mapLevel][k] = v /\ mapLevel <= mapLevel
    BY <1>3, <1>4
  <2>3. Scopes!Latest(version', k, mapLevel) = v
    BY <1>2, <1>3, <2>1, <2>2, ScopesAssumptions, Scopes!LatestNewest
  <2> QED BY <1>3, <1>4, <2>3, SeenIsNext DEF Seen
<1>8. ASSUME NEW i \in Scopes!Level, i # mapLevel
      PROVE Seen(i)'[k] = Seen(i)[k]
  <2>1. CASE i < mapLevel
    <3>1. \A s \in Scopes!Level : s <= i => version'[s][k] = version[s][k]
      BY <1>3, <1>4, <2>1
    <3> QED BY <1>3, <1>4, <3>1, SeenSame
  <2>2. CASE ~ (i < mapLevel)
    <3>1. ~ (i <= mapLevel) /\ ~ (i <= mapLevel')
      BY <1>3, <1>4, <1>8, <2>2
    <3> QED BY <1>3, <3>1, SeenIs, SeenIsNext
  <2> QED BY <2>1, <2>2
<1>9. Seen(mapLevel)'[k] = Map!In(d)
  BY <1>7 DEF v
<1> QED BY <1>4, <1>6, <1>8, <1>9, InsertedAtLevel

LEMMA LevelZeroImplements ==
  ASSUME EntriesInv, EntriesInv', NEW k \in Key, NEW d \in Val,
         Map!InsertAtContextLevelZero(k, d)
  PROVE Map!Abs!InsertAtContextLevelZero(k, d)
<1> DEFINE v == Map!In(d)
<1>1. /\ Map!Idle /\ k \notin table /\ mapLevel' = mapLevel
      /\ version' = [version EXCEPT ![0][k] = v]
  BY DEF Map!InsertAtContextLevelZero
<1>2. v \in Map!Entry /\ v # Absent /\ ~ Held(Absent)
  BY ScopesAssumptions DEF Held
<1>3. mapLevel \in Nat /\ mapLevel \in Scopes!Level /\ 0 \in Scopes!Level
      /\ Scopes!Level = 0 .. MaxMapLevel
  BY ScopesFacts
<1>4. \A s \in Scopes!Level : version[s][k] = Absent
  BY <1>1, NoEntry
<1> HIDE DEF v
<1>5. \A s \in Scopes!Level, p \in Key :
        version'[s][p] = IF p = k /\ s = 0 THEN v ELSE version[s][p]
  BY <1>1, ScopesFacts
<1>6. \A i \in Scopes!Level : Seen(i)[k] = Absent
  BY <1>3, <1>4, SeenIs, ScopesAssumptions, Scopes!LatestNone
<1>7. ASSUME NEW i \in Scopes!Level, i <= mapLevel PROVE Seen(i)'[k] = v
  <2>1. version'[0][k] = v /\ 0 <= i /\ \A t \in Scopes!Level : 0 < t => version'[t][k] = Absent
    BY <1>3, <1>4, <1>5
  <2>2. Scopes!Latest(version', k, i) = v
    BY <1>2, <1>3, <2>1, ScopesAssumptions, Scopes!LatestNewest
  <2> QED BY <1>1, <1>7, <2>2, SeenIsNext
<1>8. \A i \in Scopes!Level, p \in Key : p # k => Seen(i)'[p] = Seen(i)[p]
  BY <1>1, <1>3, <1>5, SeenSame
<1>9. ASSUME NEW i \in Scopes!Level
      PROVE EntriesOf(Seen(i)') = IF i <= mapLevel THEN EntriesOf(Seen(i)) \cup {<<k, d>>} ELSE {}
  <2>1. CASE i <= mapLevel
    <3>1. Seen(i)'[k] = Map!In(d) /\ Map!In(d) # Absent
      BY <1>2, <1>7, <2>1 DEF v
    <3>2. \A p \in Key \ {k} : Seen(i)'[p] = Seen(i)[p]
      BY <1>8
    <3>3. EntriesOf(Seen(i)') = {e \in EntriesOf(Seen(i)) : e[1] # k} \cup {<<k, d>>}
      BY <3>1, <3>2, EntriesWith
    <3>4. \A e \in EntriesOf(Seen(i)) : e[1] # k
      BY <1>2, <1>6, NoneHeld
    <3> QED BY <2>1, <3>3, <3>4
  <2>2. CASE ~ (i <= mapLevel)
    <3>1. \A p \in Key : Seen(i)'[p] = Absent
      BY <1>1, <2>2, SeenIsNext
    <3>2. EntriesOf(Seen(i)') = {}
      BY <3>1, NothingHeld
    <3> QED BY <2>2, <3>2
  <2> QED BY <2>1, <2>2
<1>10. \A i \in Scopes!Level : EntriesOf(Seen(i))' = EntriesOf(Seen(i)')
  BY DEF EntriesOf, Seen, Held
<1>11. MapSnap' = [i \in Scopes!Level |-> IF i <= mapLevel THEN MapSnap[i] \cup {<<k, d>>} ELSE {}]
  BY <1>9, <1>10 DEF MapSnap
<1>12. \A e \in MapSnap[mapLevel] : e[1] # k
  BY <1>2, <1>3, <1>6, NoneHeld DEF MapSnap
<1>13. ~ Map!Abs!Contains(k)
  <2>1. \A x \in Val : <<k, x>> \notin MapSnap[mapLevel]
    BY <1>12
  <2> QED BY <2>1, SnapIsMapSnap DEF Map!Abs!Contains
<1>14. Map!Abs!Level = Scopes!Level
  BY DEF Map!Abs!Level, Scopes!Level
<1> QED BY <1>1, <1>11, <1>13, <1>14, SnapIsMapSnap DEF Map!Abs!InsertAtContextLevelZero

LEMMA ClearImplements ==
  ASSUME EntriesInv, Map!Clear
  PROVE Map!Abs!Clear
<1>1. mapLevel' = mapLevel /\ \A s \in Scopes!Level, k \in Key : version'[s][k] = Absent
  BY DEF Map!Clear, Map!C!Level, Scopes!Level
<1>2. ASSUME NEW i \in Scopes!Level PROVE EntriesOf(Seen(i)') = {}
  <2>1. \A k \in Key : Scopes!Latest(version', k, i) = Absent
    BY <1>1, ScopesAssumptions, Scopes!LatestNone
  <2>2. \A k \in Key : Seen(i)'[k] = Absent
    BY <2>1, SeenIsNext
  <2> QED BY <2>2, NothingHeld
<1>3. \A i \in Scopes!Level : EntriesOf(Seen(i))' = EntriesOf(Seen(i)')
  BY DEF EntriesOf, Seen, Held
<1>4. MapSnap' = [i \in Scopes!Level |-> {}]
  BY <1>2, <1>3 DEF MapSnap
<1>5. Map!Abs!Level = Scopes!Level
  BY DEF Map!Abs!Level, Scopes!Level
<1> QED BY <1>1, <1>4, <1>5, SnapIsMapSnap DEF Map!Abs!Clear

LEMMA MapPushImplements ==
  ASSUME EntriesInv, Map!Push
  PROVE Map!Abs!Push
<1>1. /\ mapLevel < MaxMapLevel /\ mapLevel' = mapLevel + 1 /\ version' = version
  BY DEF Map!Push, Map!C!Push
<1>2. mapLevel \in Nat /\ mapLevel \in Scopes!Level /\ Scopes!Level = 0 .. MaxMapLevel
      /\ MaxMapLevel \in Nat
  BY ScopesFacts, ScopesAssumptions
<1>3. mapLevel + 1 \in Scopes!Level
  BY <1>1, <1>2
<1>4. ASSUME NEW i \in Scopes!Level
      PROVE EntriesOf(Seen(i)') = EntriesOf(Seen(IF i = mapLevel + 1 THEN mapLevel ELSE i))
  <2>1. CASE i = mapLevel + 1
    <3>1. mapLevel <= i /\ mapLevel <= mapLevel /\ i <= mapLevel'
      BY <1>1, <1>2, <2>1
    <3>2. Scopes!TypeOK /\ Scopes!LiveIsNewest
      BY DEF EntriesInv, Scopes!IInv
    <3>3. \A k \in Key : Scopes!Latest(version, k, i) = Scopes!Latest(version, k, mapLevel)
      BY <1>2, <3>1, <3>2, ScopesAssumptions, Scopes!CurrentIsLive
    <3>4. \A k \in Key : Scopes!Latest(version', k, i) = Scopes!Latest(version, k, i)
      BY <1>1
    <3>5. \A k \in Key : Seen(i)'[k] = Seen(mapLevel)[k]
      BY <1>2, <3>1, <3>3, <3>4, SeenIs, SeenIsNext
    <3>6. EntriesOf(Seen(i)') = EntriesOf(Seen(mapLevel))
      BY <3>5, EntriesSame
    <3> QED BY <2>1, <3>6
  <2>2. CASE i # mapLevel + 1
    <3>1. mapLevel' \in Nat /\ (i > mapLevel' <=> i > mapLevel)
      BY <1>1, <1>2, <2>2
    <3>2. \A k \in Key : Seen(i)'[k] = Seen(i)[k]
      BY <1>1, <3>1, SeenSame
    <3>3. EntriesOf(Seen(i)') = EntriesOf(Seen(i))
      BY <3>2, EntriesSame
    <3> QED BY <2>2, <3>3
  <2> QED BY <2>1, <2>2
<1>5. \A i \in Scopes!Level : EntriesOf(Seen(i))' = EntriesOf(Seen(i)')
  BY DEF EntriesOf, Seen, Held
<1>6. MapSnap' = [MapSnap EXCEPT ![mapLevel + 1] = MapSnap[mapLevel]]
  BY <1>2, <1>3, <1>4, <1>5 DEF MapSnap
<1> QED BY <1>1, <1>6, SnapIsMapSnap DEF Map!Abs!Push

LEMMA PopScopeImplements ==
  ASSUME EntriesInv, Map!PopScope
  PROVE Map!Abs!Pop
<1>1. /\ mapLevel > 0 /\ mapLevel' = mapLevel - 1
      /\ version' = [version EXCEPT ![mapLevel] = [k \in Key |-> Absent]]
  BY DEF Map!PopScope, Map!C!Pop
<1>2. mapLevel \in Nat /\ mapLevel \in Scopes!Level /\ Scopes!Level = 0 .. MaxMapLevel
  BY ScopesFacts
<1>3. \A s \in Scopes!Level : s # mapLevel => version'[s] = version[s]
  BY <1>1, ScopesFacts
<1>4. ASSUME NEW i \in Scopes!Level
      PROVE EntriesOf(Seen(i)') = IF i = mapLevel THEN {} ELSE EntriesOf(Seen(i))
  <2>1. CASE i = mapLevel
    <3>1. ~ (i <= mapLevel')
      BY <1>1, <1>2, <2>1
    <3>2. \A k \in Key : Seen(i)'[k] = Absent
      BY <3>1, SeenIsNext
    <3>3. EntriesOf(Seen(i)') = {}
      BY <3>2, NothingHeld
    <3> QED BY <2>1, <3>3
  <2>2. CASE i < mapLevel
    <3>1. mapLevel' \in Nat /\ (i > mapLevel' <=> i > mapLevel)
          /\ \A s \in Scopes!Level : s <= i => s # mapLevel
      BY <1>1, <1>2, <2>2
    <3>2. \A k \in Key : Seen(i)'[k] = Seen(i)[k]
      BY <1>3, <3>1, SeenSame
    <3>3. EntriesOf(Seen(i)') = EntriesOf(Seen(i))
      BY <3>2, EntriesSame
    <3> QED BY <1>2, <2>2, <3>3
  <2>3. CASE i > mapLevel
    <3>1. ~ (i <= mapLevel') /\ ~ (i <= mapLevel)
      BY <1>1, <1>2, <2>3
    <3>2. \A k \in Key : Seen(i)'[k] = Seen(i)[k]
      BY <1>2, <3>1, SeenIs, SeenIsNext
    <3>3. EntriesOf(Seen(i)') = EntriesOf(Seen(i))
      BY <3>2, EntriesSame
    <3> QED BY <1>2, <2>3, <3>3
  <2> QED BY <1>2, <2>1, <2>2, <2>3
<1>5. \A i \in Scopes!Level : EntriesOf(Seen(i))' = EntriesOf(Seen(i)')
  BY DEF EntriesOf, Seen, Held
<1>6. MapSnap' = [MapSnap EXCEPT ![mapLevel] = {}]
  BY <1>2, <1>4, <1>5 DEF MapSnap
<1> QED BY <1>1, <1>6, SnapIsMapSnap DEF Map!Abs!Pop

(* What is in the trash is in no level's map, so that deleting it changes    *)
(* none.                                                                     *)
LEMMA CollectStutters ==
  ASSUME EntriesInv, NEW k \in Key, Map!Collect(k)
  PROVE UNCHANGED <<mapLevel, MapSnap>>
<1>1. /\ k \in garbage /\ mapLevel' = mapLevel
      /\ \A s \in Scopes!Level : version'[s] = [version[s] EXCEPT ![k] = Absent]
  BY DEF Map!Collect, Map!C!Destroy, Map!C!Level, Scopes!Level
<1>2. mapLevel \in Nat /\ mapLevel \in Scopes!Level /\ 0 \in Scopes!Level
      /\ Scopes!Level = 0 .. MaxMapLevel /\ ~ Held(Absent)
  <2>1. ~ Held(Absent)
    BY DEF Held
  <2> QED BY <2>1, ScopesFacts
<1>3. ASSUME NEW s \in Scopes!Level, NEW p \in Key
      PROVE  version'[s][p] = IF p = k THEN Absent ELSE version[s][p]
  <2>1. version'[s] = [version[s] EXCEPT ![k] = Absent]
    BY <1>1
  <2>2. DOMAIN version[s] = Key
    BY ScopesFacts
  <2> QED BY <2>1, <2>2
<1>4. Scopes!Alive(k) /\ ~ version[mapScope[k]][k].map /\ EntryShape(k)
  BY <1>1 DEF EntriesInv, Dropped
<1>5. /\ mapScope[k] \in Scopes!Level /\ version[mapScope[k]][k] # Absent
      /\ \A t \in Scopes!Level : mapScope[k] < t => version[t][k] = Absent
  BY <1>4, ScopesFacts DEF EntriesInv, Scopes!IInv, Scopes!LiveIsNewest, Scopes!Alive
<1>6. mapScope[k] = 0
  BY <1>4, <1>5 DEF EntryShape
<1>7. ASSUME NEW i \in Scopes!Level PROVE ~ Held(Seen(i)[k])
  <2>1. 0 <= i
    BY <1>2
  <2>2. Scopes!Latest(version, k, i) = version[0][k]
    BY <1>2, <1>5, <1>6, <2>1, ScopesAssumptions, Scopes!LatestNewest
  <2>3. ~ Held(version[0][k])
    BY <1>4, <1>6 DEF Held
  <2> QED BY <1>2, <2>2, <2>3, SeenIs
<1>8. ASSUME NEW i \in Scopes!Level PROVE ~ Held(Seen(i)'[k])
  <2>1. Scopes!Latest(version', k, i) = Absent
    BY <1>3, ScopesAssumptions, Scopes!LatestNone
  <2> QED BY <1>2, <2>1, SeenIsNext
<1>9. \A i \in Scopes!Level, p \in Key : p # k => Seen(i)'[p] = Seen(i)[p]
  BY <1>1, <1>2, <1>3, SeenSame
<1>10. ASSUME NEW i \in Scopes!Level PROVE EntriesOf(Seen(i)') = EntriesOf(Seen(i))
  <2>1. \A p \in Key \ {k} : Seen(i)'[p] = Seen(i)[p]
    BY <1>9
  <2> QED BY <1>7, <1>8, <2>1, EntriesWithout
<1>11. \A i \in Scopes!Level : EntriesOf(Seen(i))' = EntriesOf(Seen(i)')
  BY DEF EntriesOf, Seen, Held
<1> QED BY <1>1, <1>10, <1>11 DEF MapSnap

LEMMA MapImplements ==
  ASSUME MapInv, MapInv', Map!Next \/ UNCHANGED mapVars
  PROVE /\ [Map!Abs!Next]_(Map!Abs!mapVars)
        /\ \A k \in Key, d \in Val :
             /\ Map!InsertNew(k, d) => Map!Abs!Insert(k, d)
             /\ Map!Overwrite(k, d) => Map!Abs!Insert(k, d)
             /\ Map!InsertAtContextLevelZero(k, d) => Map!Abs!InsertAtContextLevelZero(k, d)
<1>0. EntriesInv /\ EntriesInv'
  BY DEF MapInv
<1>1. \A k \in Key, d \in Val :
        /\ Map!InsertNew(k, d) => Map!Abs!Insert(k, d)
        /\ Map!Overwrite(k, d) => Map!Abs!Insert(k, d)
        /\ Map!InsertAtContextLevelZero(k, d) => Map!Abs!InsertAtContextLevelZero(k, d)
  BY <1>0, InsertNewImplements, OverwriteImplements, LevelZeroImplements
<1>2. CASE \E k \in Key, d \in Val :
             Map!InsertNew(k, d) \/ Map!Overwrite(k, d) \/ Map!InsertAtContextLevelZero(k, d)
  BY <1>1, <1>2 DEF Map!Abs!Next
<1>3. CASE Map!Clear
  BY <1>0, <1>1, <1>3, ClearImplements DEF Map!Abs!Next
<1>4. CASE Map!Push
  BY <1>0, <1>1, <1>4, MapPushImplements DEF Map!Abs!Next
<1>5. CASE Map!PopScope
  BY <1>0, <1>1, <1>5, PopScopeImplements DEF Map!Abs!Next
<1>6. CASE \E k \in Key : Map!Collect(k)
  <2>1. UNCHANGED <<mapLevel, MapSnap>>
    BY <1>0, <1>6, CollectStutters
  <2> QED BY <1>1, <2>1, SnapIsMapSnap DEF Map!Abs!mapVars
<1>7. CASE UNCHANGED mapVars
  <2>1. \A i \in Scopes!Level : Seen(i)' = Seen(i)
    BY <1>7 DEF mapVars, Seen, Scopes!ValueAt, Scopes!Latest, Scopes!IsVisible
  <2>2. MapSnap' = MapSnap
    BY <2>1 DEF MapSnap, EntriesOf, Held
  <2> QED BY <1>1, <1>7, <2>2, SnapIsMapSnap DEF mapVars, Map!Abs!mapVars
<1> QED BY <1>1, <1>2, <1>3, <1>4, <1>5, <1>6, <1>7 DEF Map!Next

LEMMA MapStartsEmpty ==
  ASSUME Map!Init
  PROVE Map!Abs!Init
<1>1. mapLevel = 0 /\ \A s \in Scopes!Level, k \in Key : version[s][k] = Absent
  BY DEF Map!Init, Map!C!Init, Map!C!Level, Scopes!Level
<1>2. ASSUME NEW i \in Scopes!Level PROVE EntriesOf(Seen(i)) = {}
  <2>1. \A k \in Key : Scopes!Latest(version, k, i) = Absent
    BY <1>1, ScopesAssumptions, Scopes!LatestNone
  <2>2. \A k \in Key : Seen(i)[k] = Absent
    BY <1>1, <2>1, SeenIs
  <2> QED BY <2>2, NothingHeld
<1>3. MapSnap = [i \in Scopes!Level |-> {}]
  BY <1>2 DEF MapSnap
<1>4. Map!Abs!Level = Scopes!Level
  BY DEF Map!Abs!Level, Scopes!Level
<1> QED BY <1>1, <1>3, <1>4, SnapIsMapSnap DEF Map!Abs!Init

(* The steps of the insert-only map and of the trie, as their proofs name    *)
(* them.                                                                     *)
LEMMA InsertMapSteps ==
  /\ InsertMap!Init <=> InsertMapProofs!Init
  /\ (InsertMap!Next \/ UNCHANGED insertVars) <=> [InsertMapProofs!Next]_(InsertMapProofs!vars)
  /\ \A k \in Key, d \in Val :
       /\ InsertMap!Insert(k, d) <=> InsertMapProofs!Insert(k, d)
       /\ InsertMap!InsertAtContextLevelZero(k, d)
            <=> InsertMapProofs!InsertAtContextLevelZero(k, d)
<1>1. InsertMap!Init <=> InsertMapProofs!Init
  BY DEF InsertMap!Init, InsertMapProofs!Init
<1>2. \A k \in Key, d \in Val :
        /\ InsertMap!Insert(k, d) <=> InsertMapProofs!Insert(k, d)
        /\ InsertMap!InsertAtContextLevelZero(k, d)
             <=> InsertMapProofs!InsertAtContextLevelZero(k, d)
  BY DEF InsertMap!Insert, InsertMapProofs!Insert, InsertMap!InsertAtContextLevelZero,
     InsertMapProofs!InsertAtContextLevelZero, InsertMap!Mapped, InsertMapProofs!Mapped,
     InsertMap!MakeCurrent, InsertMapProofs!MakeCurrent
<1>3. (InsertMap!Push <=> InsertMapProofs!Push) /\ (InsertMap!Pop <=> InsertMapProofs!Pop)
  BY DEF InsertMap!Push, InsertMapProofs!Push,
     InsertMap!Pop, InsertMapProofs!Pop, InsertMap!RestoreSize,
     InsertMapProofs!RestoreSize, InsertMap!Last, InsertMapProofs!Last,
     InsertMap!Front, InsertMapProofs!Front
<1>4. InsertMap!Next <=> InsertMapProofs!Next
  BY <1>2, <1>3 DEF InsertMap!Next, InsertMapProofs!Next
<1>5. UNCHANGED insertVars <=> UNCHANGED InsertMapProofs!vars
  BY DEF insertVars, InsertMapProofs!vars
<1> QED BY <1>1, <1>2, <1>4, <1>5

LEMMA InsertMapViews ==
  /\ [i \in InsertMap!Level |-> InsertMap!EntriesAt(i)]
       = [i \in InsertMapProofs!Level |-> InsertMapProofs!EntriesAt(i)]
  /\ [i \in InsertMap!Level |-> InsertMap!EntriesAt(i)]'
       = [i \in InsertMapProofs!Level |-> InsertMapProofs!EntriesAt(i)]'
BY DEF InsertMap!Level, InsertMapProofs!Level, InsertMap!EntriesAt, InsertMapProofs!EntriesAt,
   InsertMap!SizeAt, InsertMapProofs!SizeAt, InsertMap!RestoreSize,
   InsertMapProofs!RestoreSize, InsertMap!SelectLastInSeq, InsertMapProofs!SelectLastInSeq,
   InsertMap!Max, InsertMapProofs!Max

LEMMA InsertMapPromises ==
  /\ InsertMap!Abs!Init <=> InsertMapProofs!Abs!Init
  /\ [InsertMap!Abs!Next]_(InsertMap!Abs!mapVars)
       <=> [InsertMapProofs!Abs!Next]_(InsertMapProofs!Abs!mapVars)
  /\ \A k \in Key, d \in Val :
       /\ InsertMap!Abs!Insert(k, d) <=> InsertMapProofs!Abs!Insert(k, d)
       /\ InsertMap!Abs!InsertAtContextLevelZero(k, d)
            <=> InsertMapProofs!Abs!InsertAtContextLevelZero(k, d)
<1> DEFINE S == [i \in InsertMapProofs!Level |-> InsertMapProofs!EntriesAt(i)]
<1>1. InsertMap!Abs!Level = InsertMapProofs!Abs!Level
  BY DEF InsertMap!Abs!Level, InsertMapProofs!Abs!Level
<1>2. InsertMap!Abs!Init <=> InsertMapProofs!Abs!Init
  BY <1>1, InsertMapViews DEF InsertMap!Abs!Init, InsertMapProofs!Abs!Init
<1>3. \A k \in Key, d \in Val :
        InsertMap!Abs!Insert(k, d) <=> InsertMapProofs!Abs!Insert(k, d)
  BY InsertMapViews DEF InsertMap!Abs!Insert, InsertMapProofs!Abs!Insert
<1>4. \A k \in Key, d \in Val :
        InsertMap!Abs!InsertAtContextLevelZero(k, d)
          <=> InsertMapProofs!Abs!InsertAtContextLevelZero(k, d)
  BY <1>1, InsertMapViews
     DEF InsertMap!Abs!InsertAtContextLevelZero, InsertMapProofs!Abs!InsertAtContextLevelZero,
         InsertMap!Abs!Contains, InsertMapProofs!Abs!Contains
<1>5. /\ InsertMap!Abs!Clear <=> InsertMapProofs!Abs!Clear
      /\ InsertMap!Abs!Push <=> InsertMapProofs!Abs!Push
      /\ InsertMap!Abs!Pop <=> InsertMapProofs!Abs!Pop
      /\ UNCHANGED InsertMap!Abs!mapVars <=> UNCHANGED InsertMapProofs!Abs!mapVars
  BY <1>1, InsertMapViews
     DEF InsertMap!Abs!Clear, InsertMapProofs!Abs!Clear, InsertMap!Abs!Push,
         InsertMapProofs!Abs!Push, InsertMap!Abs!Pop, InsertMapProofs!Abs!Pop,
         InsertMap!Abs!mapVars, InsertMapProofs!Abs!mapVars
<1>6. InsertMap!Abs!Next <=> InsertMapProofs!Abs!Next
  BY <1>3, <1>4, <1>5 DEF InsertMap!Abs!Next, InsertMapProofs!Abs!Next
<1> QED BY <1>2, <1>3, <1>4, <1>5, <1>6

LEMMA BehavesAsInsertMap == MCSpec => InsertMapProofs!Spec
<1>1. MCInit => InsertMapProofs!Init
  BY InsertMapSteps DEF MCInit
<1>2. [MCNext]_allVars => [InsertMapProofs!Next]_(InsertMapProofs!vars)
  <2> SUFFICES ASSUME [MCNext]_allVars PROVE InsertMap!Next \/ UNCHANGED insertVars
    BY InsertMapSteps
  <2> QED BY DEF MCNext, allVars
<1> QED BY <1>1, <1>2, PTL DEF MCSpec, allVars, InsertMapProofs!Spec

LEMMA BehavesAsTrie == MCSpec => Trie!Spec
<1>1. MCInit => Trie!Init
  BY DEF MCInit
<1>2. [MCNext]_allVars => [Trie!Next]_(Trie!trieVars)
  BY DEF MCNext, allVars, trieVars, Trie!trieVars
<1> QED BY <1>1, <1>2, PTL DEF MCSpec, allVars, Trie!Spec

(* CDHashMap, CDInsertHashMap and CDInstMatchTrie, which save an entry, two  *)
(* counters, and a flag for each node: whatever is inserted, overwritten,    *)
(* inserted at level zero, cleared, pushed and popped, each behaves as a map *)
(* that is copied at each push and put back at each pop; and an insertion is *)
(* one into that map, at the current level or at all of them.                *)
THEOREM ImplementsMapCorrect == MCSpec => ImplementsMap
<1>1. MCSpec => Map!ImplementsMap /\ Map!InsertionsCorrespond
  <2>1. MCInit => Map!Abs!Init
    BY MapStartsEmpty DEF MCInit
  <2>2. ContainersInv /\ ContainersInv' /\ [MCNext]_allVars
          => /\ [Map!Abs!Next]_(Map!Abs!mapVars)
             /\ \A k \in Key, d \in Val :
                  /\ Map!InsertNew(k, d) => Map!Abs!Insert(k, d)
                  /\ Map!Overwrite(k, d) => Map!Abs!Insert(k, d)
                  /\ Map!InsertAtContextLevelZero(k, d)
                       => Map!Abs!InsertAtContextLevelZero(k, d)
    <3> SUFFICES ASSUME ContainersInv, ContainersInv', [MCNext]_allVars
                 PROVE MapInv /\ MapInv' /\ (Map!Next \/ UNCHANGED mapVars)
      BY MapImplements
    <3> QED BY DEF ContainersInv, MCNext, allVars
  <2> QED BY <2>1, <2>2, ContainersInvCorrect, ContainersKeep, PTL
          DEF MCSpec, allVars, Map!ImplementsMap, Map!Abs!Spec, Map!InsertionsCorrespond
<1>2. MCSpec => InsertMap!ImplementsMap /\ InsertMap!InsertionsCorrespond
  <2>1. InsertMapProofs!Spec => InsertMapProofs!ImplementsMap
    BY BoundsAreNatural, InsertMapProofs!Implements
  <2>2. InsertMapProofs!Spec => InsertMapProofs!InsertionsCorrespond
    BY BoundsAreNatural, InsertMapProofs!InsertionsCorrect
  <2>3. InsertMapProofs!ImplementsMap => InsertMap!ImplementsMap
    BY InsertMapPromises, PTL DEF InsertMapProofs!ImplementsMap, InsertMap!ImplementsMap,
       InsertMapProofs!Abs!Spec, InsertMap!Abs!Spec
  <2>4. (\A k \in Key, d \in Val :
          /\ InsertMapProofs!Insert(k, d) => InsertMapProofs!Abs!Insert(k, d)
          /\ InsertMapProofs!InsertAtContextLevelZero(k, d)
               => InsertMapProofs!Abs!InsertAtContextLevelZero(k, d))
        => (\A k \in Key, d \in Val :
             /\ InsertMap!Insert(k, d) => InsertMap!Abs!Insert(k, d)
             /\ InsertMap!InsertAtContextLevelZero(k, d)
                  => InsertMap!Abs!InsertAtContextLevelZero(k, d))
    BY InsertMapSteps, InsertMapPromises
  <2>5. UNCHANGED InsertMapProofs!vars <=> UNCHANGED InsertMap!vars
    BY DEF InsertMapProofs!vars, InsertMap!vars
  <2>6. InsertMapProofs!InsertionsCorrespond => InsertMap!InsertionsCorrespond
    BY <2>4, <2>5, PTL DEF InsertMapProofs!InsertionsCorrespond, InsertMap!InsertionsCorrespond
  <2> QED BY <2>1, <2>2, <2>3, <2>6, BehavesAsInsertMap, PTL
<1>3. MCSpec => Trie!ImplementsMap /\ Trie!AdditionsCorrespond
  BY BehavesAsTrie, TrieImplements, TrieAdditionsCorrect, PTL
<1> QED BY <1>1, <1>2, <1>3 DEF ImplementsMap
===============================================================================
