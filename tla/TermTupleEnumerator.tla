-------------------------- MODULE TermTupleEnumerator --------------------------
(* What the enumerators of term tuples have in common, TermTupleEnumeratorBase: *)
(* tuples of term indices, one per quantified variable, the combinations that  *)
(* were reported useless, and how far the next tuple must differ.              *)
EXTENDS IndexTrie

VARIABLES
  env,            \* TermTupleEnumeratorEnv, and d_termsSizes as init() finds them
  termIndex,      \* d_termIndex
  changePrefix,   \* d_changePrefix
  disabled,       \* the patterns in d_disabledCombinations
  stepped,        \* whether d_stepCounter is positive
  hasNext         \* d_hasNext

(* The fields of env:                                                          *)
(*   termsSizes   the number of terms that the producer has for each variable  *)
(*   fullEffort   d_fullEffort                                                 *)
(*   strategy     "max" or "sum" by d_increaseSum, "astar" for the enumerator  *)
(*                of term_tuple_enumerator_ml.cpp                              *)
Variables == DOMAIN env.termsSizes
VariableCount == Len(env.termsSizes)
Size(digit) == env.termsSizes[digit]

\* With full effort a variable without terms takes a term made for its type.
MaxDigit(digit) == IF Size(digit) = 0 THEN 0 ELSE Size(digit) - 1

\* Without full effort init() gives up on an empty domain.
GivesUp == VariableCount = 0 \/ (~ env.fullEffort /\ \E v \in Variables : Size(v) = 0)

Zeros == [v \in Variables |-> 0]

\* The tuples there are to enumerate.
Tuples ==
  IF GivesUp THEN {}
  ELSE {t \in [Variables -> 0 .. Max({MaxDigit(v) : v \in Variables})] :
          \A v \in Variables : t[v] <= MaxDigit(v)}

InitEnumerator ==
  /\ termIndex = IF GivesUp THEN <<>> ELSE Zeros
  /\ changePrefix = VariableCount
  /\ disabled = {}
  /\ stepped = FALSE
  /\ hasNext = ~ GivesUp

\* The failure recorded, the next tuple must differ in the prefix that ends in
\* the last position of the mask.
FailureReasonKeepsPrefix(mask) ==
  /\ disabled' = Add(disabled, mask, termIndex)
  /\ UNCHANGED changePrefix

FailureReason(mask) ==
  /\ disabled' = Add(disabled, mask, termIndex)
  /\ changePrefix' = LastOf(mask)

\* One round of the loop in nextCombination(): an attempt that led to the tuple
\* found, and whether that is disabled.
Vet(tuple) ==
  /\ termIndex' = tuple
  /\ changePrefix' = NonBlankLength(disabled, tuple)
================================================================================
