-------------------------- MODULE AStarTupleEnumerator --------------------------
(* AStarTupleEnumerator: a search of the tuples from the one of the best terms, *)
(* always going on from the open tuple with the highest score.                 *)
EXTENDS TermTupleEnumerator

VARIABLES
  open,       \* d_open, the tuples in the heap
  visited     \* d_visited

\* The product of what is predicted for the terms, which MLProducer has sorted;
\* a variable without terms does not count.  The predictions are in env.
Score(tuple) ==
  FoldFunctionOnSet(LAMBDA x, y : x * y, 1,
    [v \in Variables |-> env.predictions[v][tuple[v] + 1]],
    {v \in Variables : tuple[v] < Size(v)})

Neighbours(tuple) ==
  {[tuple EXCEPT ![v] = @ + 1] : v \in {u \in Variables : tuple[u] + 1 < Size(u)}}

InitAStar ==
  /\ open = IF env.strategy = "astar" /\ ~ GivesUp THEN {Zeros} ELSE {}
  /\ visited = open

\* Any of the tuples with the highest score may be at the top of the heap.
Top == {t \in open : \A u \in open : Score(u) <= Score(t)}

\* A mutant that opens tuples again.
PushVisited(tuple) ==
  /\ open' = (open \ {tuple}) \cup Neighbours(tuple)
  /\ visited' = visited \cup Neighbours(tuple)

Push(tuple) ==
  /\ open' = (open \ {tuple}) \cup (Neighbours(tuple) \ visited)
  /\ visited' = visited \cup Neighbours(tuple)
================================================================================
