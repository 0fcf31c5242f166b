-------------------------- MODULE BacktrackableQueue --------------------------
(***************************************************************************)
(* What CDQueue (src/context/cdqueue.h) promises: a first-in first-out     *)
(* queue of which every push of the context takes a copy, and to which the *)
(* pop of the context goes back, dequeued elements included.               *)
(***************************************************************************)
EXTENDS Integers, Sequences

CONSTANTS Val, MaxLevel

VARIABLES
  level,  \* the number of context pushes not yet popped
  queue   \* queue[i]: the elements of the queue at level i

queueVars == <<level, queue>>

Level == 0 .. MaxLevel

Init == level = 0 /\ queue = [i \in Level |-> <<>>]

Enqueue(v) == queue' = [queue EXCEPT ![level] = Append(@, v)] /\ UNCHANGED level

Dequeue ==
  /\ queue[level] # <<>>
  /\ queue' = [queue EXCEPT ![level] = Tail(@)]
  /\ UNCHANGED level

Push ==
  /\ level < MaxLevel
  /\ level' = level + 1
  /\ queue' = [queue EXCEPT ![level + 1] = queue[level]]

Pop ==
  /\ level > 0
  /\ level' = level - 1
  /\ queue' = [queue EXCEPT ![level] = <<>>]

Next == (\E v \in Val : Enqueue(v)) \/ Dequeue \/ Push \/ Pop

Spec == Init /\ [][Next]_queueVars
===============================================================================
