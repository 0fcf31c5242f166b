------------------------------- MODULE CDQueue --------------------------------
(***************************************************************************)
(* CDQueue (src/context/cdqueue.h) on top of CDList (cdlist.h).  The       *)
(* elements are in one array shared by all levels; a saved copy holds only *)
(* the indices.  Elements enqueued and dequeued within one scope are       *)
(* destroyed early, but never one that a pop could bring back.             *)
(***************************************************************************)
EXTENDS Integers, Sequences, SequencesExt

CONSTANTS Val, MaxLevel,
          MaxSize  \* bound on the elements in the array

ASSUME BoundsAssumption == {MaxLevel, MaxSize} \subseteq Nat

VARIABLES
  level,     \* Context::getLevel()
  scope,     \* the level of d_pScope
  list,      \* d_list[0 .. d_size - 1]
  iter,      \* d_iter
  lastsave,  \* d_lastsave
  saved      \* the saved copies along d_pContextObjRestore, oldest first

vars == <<level, scope, list, iter, lastsave, saved>>

Level == 0 .. MaxLevel
Size == 0 .. MaxSize

TypeOK ==
  /\ level \in Level /\ scope \in 0 .. level
  /\ list \in Seq(Val) /\ Len(list) \in Size
  /\ iter \in 0 .. Len(list)
  /\ lastsave \in 0 .. Len(list)
  /\ saved \in Seq([scope : Level, size : Size, iter : Size, lastsave : Size])

Init ==
  /\ level = 0 /\ scope = 0
  /\ list = <<>> /\ iter = 0 /\ lastsave = 0
  /\ saved = <<>>

(* makeCurrent(): the copy is taken before save() moves d_lastsave to the  *)
(* current size, which is what the operation then sees.                    *)
MakeCurrent ==
  /\ scope' = level
  /\ saved' = IF scope = level THEN saved
              ELSE Append(saved, [scope |-> scope, size |-> Len(list),
                                  iter |-> iter, lastsave |-> lastsave])

SaveKeepsMark == lastsave
MarkAfterSave == IF scope = level THEN lastsave ELSE Len(list)

(* push(): CDList::push_back().                                            *)
Enqueue(v) ==
  /\ Len(list) < MaxSize
  /\ MakeCurrent
  /\ lastsave' = MarkAfterSave
  /\ list' = Append(list, v)
  /\ UNCHANGED <<level, iter>>

(* CDList::truncateList(): the elements from the given index on are        *)
(* destroyed.                                                              *)
TruncateList(size) == SubSeq(list, 1, size)

(* pop(): when the queue becomes empty, truncate the array to what the     *)
(* saved copies need.  DequeueUnsaved forgets makeCurrent().               *)
DequeueUnsaved ==
  /\ iter < Len(list)
  /\ iter' = iter + 1
  /\ UNCHANGED <<level, scope, list, lastsave, saved>>

Dequeue ==
  /\ iter < Len(list)
  /\ MakeCurrent
  /\ lastsave' = MarkAfterSave
  /\ IF iter + 1 = Len(list) /\ lastsave' # Len(list)
       THEN list' = TruncateList(lastsave') /\ iter' = lastsave'
       ELSE iter' = iter + 1 /\ UNCHANGED list
  /\ UNCHANGED level

Push ==
  /\ level < MaxLevel
  /\ level' = level + 1
  /\ UNCHANGED <<scope, list, iter, lastsave, saved>>

(* Context::pop(); restore() takes back the three indices, and truncates   *)
(* the array.                                                              *)
Pop ==
  /\ level > 0
  /\ level' = level - 1
  /\ IF scope < level
       THEN UNCHANGED <<scope, list, iter, lastsave, saved>>
       ELSE LET e == Last(saved) IN
            /\ scope' = e.scope
            /\ list' = TruncateList(e.size)
            /\ iter' = e.iter
            /\ lastsave' = e.lastsave
            /\ saved' = Front(saved)

Next == (\E v \in Val : Enqueue(v)) \/ Dequeue \/ Push \/ Pop

Spec == Init /\ [][Next]_vars

-------------------------------------------------------------------------------
(* No element that a saved copy still refers to has been destroyed: the    *)
(* array is at least as long as every saved size (the assertion of         *)
(* truncateList(), cdlist.h:220), and d_lastsave is the last of them.  The *)
(* copies form a chain of ever deeper scopes and longer arrays, each with  *)
(* the mark of the one before, from the first, of level zero.              *)
SavedElementsKept ==
  /\ scope = 0 <=> saved = <<>>
  /\ lastsave = IF saved = <<>> THEN 0 ELSE Last(saved).size
  /\ \A i \in DOMAIN saved :
       /\ saved[i].iter <= saved[i].size
       /\ saved[i].size <= lastsave
       /\ saved[i].lastsave = IF i = 1 THEN 0 ELSE saved[i - 1].size
       /\ saved[i].scope < scope
       /\ saved[i].scope = 0 <=> i = 1
       /\ \A j \in 1 .. i - 1 : /\ saved[j].scope < saved[i].scope
                                /\ saved[j].size <= saved[i].size

IInv == TypeOK /\ SavedElementsKept

(* Copy k is the one that a pop to level i will restore.                   *)
Restores(copies, k, i) ==
  copies[k].scope <= i /\ (k < Len(copies) => copies[k + 1].scope > i)

(* The queue at level i: the slice of the array that the live indices, or  *)
(* the copy to be restored for that level, describe.                       *)
ViewAt(i) ==
  IF scope <= i THEN [size |-> Len(list), iter |-> iter]
  ELSE LET e == saved[CHOOSE k \in DOMAIN saved : Restores(saved, k, i)]
       IN [size |-> e.size, iter |-> e.iter]

QueueAt(i) ==
  IF i > level THEN <<>> ELSE SubSeq(list, ViewAt(i).iter + 1, ViewAt(i).size)

Abs == INSTANCE BacktrackableQueue WITH queue <- [i \in Level |-> QueueAt(i)]

(* The queue behaves as if it were copied at each push of the context.     *)
ImplementsQueue == Abs!Spec
===============================================================================
