--------------------------- MODULE MCInstStrategyEnum ---------------------------
EXTENDS InstStrategyEnum, IndexTrieNodes

StagedEnv(sizes, full, increase, client) ==
  [termsSizes |-> sizes, fullEffort |-> full, strategy |-> increase,
   predictions |-> <<>>, client |-> client]

\* Two and three variables; digits that are always zero, beside longer ones; full
\* effort or not where a variable has no terms; a pool for one variable.
StagedEnvs ==
  {StagedEnv(sizes, TRUE, increase, "enum") :
     sizes \in {<<2, 2, 2>>, <<3, 3>>, <<1, 2, 3>>, <<0, 3>>}, increase \in {"max", "sum"}}
  \cup {StagedEnv(sizes, FALSE, "max", "enum") : sizes \in {<<0, 3>>, <<2, 2>>, <<>>}}
  \cup {StagedEnv(<<4>>, TRUE, increase, "pool") : increase \in {"max", "sum"}}

SortedPredictions(n) ==
  {p \in [1 .. n -> 0 .. 2] : \A i \in 1 .. n - 1 : p[i] >= p[i + 1]}

\* Every order of the scores of two variables, with ties and zeros.
AStarEnvs ==
  UNION {{[termsSizes |-> <<m, n>>, fullEffort |-> TRUE, strategy |-> "astar",
           predictions |-> <<p, q>>, client |-> "enum"] :
            p \in SortedPredictions(m), q \in SortedPredictions(n)} :
         m \in {2}, n \in {0, 3}}

MCEnvs == StagedEnvs \cup AStarEnvs
PoolEnvs == {StagedEnv(<<2, 2>>, TRUE, "max", "pool")}

\* The trie with the combinations that are disabled.
Tree ==
  FoldSet(LAMBDA r, root :
            AddToTree(root, DOMAIN r, [v \in Variables |-> IF v \in DOMAIN r THEN r[v] ELSE 0]),
          NewNode, reported)

\* The tree of IndexTrie, with the masks added in another order, finds
\* what the patterns match, and the very prefix to change.
TreeFindsTheDisabled ==
  \A t \in Tuples :
    FindInTree(Tree, t) = [found |-> Find(disabled, t), length |-> NonBlankLength(disabled, t)]
================================================================================
