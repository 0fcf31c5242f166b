---------------------------- MODULE ContextMemory -----------------------------
(***************************************************************************)
(* ContextMemoryManager (src/context/context_mm.{h,cpp}): a stack of       *)
(* regions.  Allocations are carved off chunks; a pop releases everything  *)
(* allocated since the push by resetting the position in the chunk that    *)
(* was current then, and keeps the chunks it no longer needs for reuse.    *)
(***************************************************************************)
EXTENDS Integers, Sequences, FiniteSets, SequencesExt

CONSTANTS
  Chunk,          \* the addresses malloc() can return
  ChunkSize,      \* chunkSizeBytes
  MaxFreeChunks,  \* maxFreeChunks
  MaxDepth,       \* bound on nested pushes
  MaxData         \* bound on the live allocations

VARIABLES
  chunkList,      \* d_chunkList
  freeChunks,     \* d_freeChunks
  nextFree,       \* d_nextFree: <<chunk, offset>>
  indexChunkList, \* d_indexChunkList
  saved,          \* d_nextFreeStack, d_indexChunkListStack (d_endChunkStack
                  \* is the end of the chunk of d_nextFree)
  data            \* the blocks newData() returned and no pop released yet

vars == <<chunkList, freeChunks, nextFree, indexChunkList, saved, data>>

Pointer == Chunk \X (0 .. ChunkSize)
Block == [chunk : Chunk, first : 0 .. ChunkSize - 1, size : 1 .. ChunkSize,
          level : 0 .. MaxDepth]

TypeOK ==
  /\ chunkList \in Seq(Chunk)
  /\ freeChunks \in Seq(Chunk)
  /\ nextFree \in Pointer
  /\ indexChunkList = Len(chunkList) - 1
  /\ saved \in Seq([next : Pointer, index : 0 .. indexChunkList])
  /\ data \subseteq Block

Init ==
  /\ \E c \in Chunk : chunkList = <<c>> /\ nextFree = <<c, 0>>
  /\ freeChunks = <<>>
  /\ indexChunkList = 0
  /\ saved = <<>>
  /\ data = {}

Owned == Range(chunkList) \cup Range(freeChunks)

NewBlock(p, n) ==
  [chunk |-> p[1], first |-> p[2], size |-> n, level |-> Len(saved)]

(* newData(), when the request fits in the current chunk; AllocOverEnd     *)
(* tests the position before it adds the size.                             *)
AllocOverEnd(n) ==
  /\ nextFree[2] < ChunkSize
  /\ data' = data \cup {NewBlock(nextFree, n)}
  /\ nextFree' = <<nextFree[1], nextFree[2] + n>>
  /\ UNCHANGED <<chunkList, freeChunks, indexChunkList, saved>>

AllocHere(n) ==
  /\ nextFree[2] + n <= ChunkSize
  /\ data' = data \cup {NewBlock(nextFree, n)}
  /\ nextFree' = <<nextFree[1], nextFree[2] + n>>
  /\ UNCHANGED <<chunkList, freeChunks, indexChunkList, saved>>

(* newChunk(): the last free chunk, or else a new one.                     *)
TakeChunk(c) ==
  IF freeChunks = <<>>
    THEN c \notin Owned /\ UNCHANGED freeChunks
    ELSE c = Last(freeChunks) /\ freeChunks' = Front(freeChunks)

(* newData(), when the request does not fit.                               *)
AllocInNewChunk(n) ==
  /\ nextFree[2] + n > ChunkSize
  /\ \E c \in Chunk :
       /\ TakeChunk(c)
       /\ chunkList' = Append(chunkList, c)
       /\ nextFree' = <<c, n>>
       /\ data' = data \cup {NewBlock(<<c, 0>>, n)}
  /\ indexChunkList' = indexChunkList + 1
  /\ UNCHANGED saved

Push ==
  /\ Len(saved) < MaxDepth
  /\ saved' = Append(saved, [next |-> nextFree, index |-> indexChunkList])
  /\ UNCHANGED <<chunkList, freeChunks, nextFree, indexChunkList, data>>

(* The free list keeps the newest chunks; the others go back to malloc().  *)
KeepMax(chunks) ==
  SubSeq(chunks, Max({1, Len(chunks) - MaxFreeChunks + 1}), Len(chunks))

(* pop(): back to the position and the chunk of the matching push, the     *)
(* newer chunks, newest first, to the free list.                           *)
Pop ==
  /\ saved # <<>>
  /\ saved' = Front(saved)
  /\ nextFree' = Last(saved).next
  /\ indexChunkList' = Last(saved).index
  /\ chunkList' = SubSeq(chunkList, 1, Last(saved).index + 1)
  /\ freeChunks' = KeepMax(freeChunks \o
                    Reverse(SubSeq(chunkList, Last(saved).index + 2, Len(chunkList))))
  /\ data' = {b \in data : b.level < Len(saved)}

Next ==
  \/ /\ Cardinality(data) < MaxData
     /\ \E n \in 1 .. ChunkSize : AllocHere(n) \/ AllocInNewChunk(n)
  \/ Push
  \/ Pop

Spec == Init /\ [][Next]_vars

-------------------------------------------------------------------------------
Bytes(b) == {<<b.chunk, i>> : i \in b.first .. b.first + b.size - 1}

(* A block stays the caller's own until the pop of the level it was        *)
(* allocated at, whatever is allocated and popped in between: no other     *)
(* block overlaps it, it lies within a chunk, and the chunk is in use,     *)
(* neither free nor given back.                                            *)
BlocksAreDisjoint ==
  \A b \in data :
    /\ b.first + b.size <= ChunkSize
    /\ b.chunk \in Range(chunkList)
    /\ \A c \in data \ {b} : Bytes(b) \cap Bytes(c) = {}

(* A chunk is in one place only: a chunk that is current and also free     *)
(* would be handed out twice.                                              *)
ChunksAreDistinct ==
  /\ IsInjective(chunkList) /\ IsInjective(freeChunks)
  /\ Range(chunkList) \cap Range(freeChunks) = {}

(* The allocation position, and each saved one, is in the chunk its index  *)
(* says, with every block of the levels below behind it and no block of    *)
(* its own level beyond.                                                   *)
PositionsAreOrdered ==
  LET all == Append(saved, [next |-> nextFree, index |-> indexChunkList]) IN
  \A k \in 1 .. Len(all) :
    /\ all[k].next[1] = chunkList[all[k].index + 1]
    /\ \A b \in data : b.level < k =>
         \/ \E i \in 1 .. all[k].index : chunkList[i] = b.chunk
         \/ b.chunk = all[k].next[1] /\ b.first + b.size <= all[k].next[2]
===============================================================================
