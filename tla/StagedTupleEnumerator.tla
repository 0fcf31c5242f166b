------------------------ MODULE StagedTupleEnumerator -------------------------
(* StagedTupleEnumerator: tuples in stages, a stage holding those with the     *)
(* same maximum of digits or with the same sum, and in lexicographic order     *)
(* within a stage.  An attempt is a record of what it leaves behind: whether   *)
(* it found a tuple, the tuple and the stage.                                  *)
EXTENDS TermTupleEnumerator, Integers

VARIABLE currentStage     \* d_currentStage

StageCount == Max({1} \cup {Size(v) : v \in Variables})

Clip(n, low, high) == IF n < low THEN low ELSE IF n > high THEN high ELSE n

\* A sum distributed over the least significant digits first.
Distributed(sum, digit) ==
  LET capacity == SumFunctionOnSet([v \in Variables |-> MaxDigit(v)], digit + 1 .. VariableCount)
  IN Clip(sum - capacity, 0, MaxDigit(digit))

Found(tuple, stage) == [found |-> TRUE, tuple |-> tuple, stage |-> stage]
NotFound(tuple, stage) == [found |-> FALSE, tuple |-> tuple, stage |-> stage]

\* Everything after the digit is sent to zero.
RaisedTo(tuple, digit, value) ==
  [v \in Variables |->
     IF v < digit THEN tuple[v] ELSE IF v = digit THEN value ELSE 0]

-------------------------------------------------------------------------------
(* The strategy by maximum.                                                    *)

\* A mutant that stays in the stage it goes to.
IncreaseStageMaxForgotten(stage) ==
  LET reaching == {v \in Variables : Size(v) > stage + 1}
  IN IF stage + 1 >= StageCount THEN NotFound(termIndex, stage + 1)
     ELSE Found(RaisedTo(Zeros, Max(reaching), stage + 1), stage)

IncreaseStageMax(stage) ==
  LET reaching == {v \in Variables : Size(v) > stage + 1}
  IN IF stage + 1 >= StageCount THEN NotFound(termIndex, stage + 1)
     ELSE Found(RaisedTo(Zeros, Max(reaching), stage + 1), stage + 1)

\* A mutant that goes one past the terms of a variable, and one that leaves the
\* stage.
NextCombinationMaxPastEnd(prefix) ==
  LET increasable == {v \in Variables : /\ v <= prefix
                                        /\ termIndex[v] + 1 <= Size(v)
                                        /\ termIndex[v] + 1 <= currentStage}
  IN IF increasable = {} THEN NotFound(termIndex, currentStage)
     ELSE Found(RaisedTo(termIndex, Max(increasable), termIndex[Max(increasable)] + 1),
                currentStage)

NextCombinationMaxNoStage(prefix) ==
  LET increasable == {v \in Variables : /\ v <= prefix
                                        /\ termIndex[v] + 1 < Size(v)
                                        /\ termIndex[v] + 1 <= currentStage}
  IN IF increasable = {} THEN NotFound(termIndex, currentStage)
     ELSE Found(RaisedTo(termIndex, Max(increasable), termIndex[Max(increasable)] + 1),
                currentStage)

\* The least significant digit of the change prefix that can be increased is;
\* should no digit be in the stage then, the last one that can be is set to it.
NextCombinationMax(prefix) ==
  LET increasable == {v \in Variables : /\ v <= prefix
                                        /\ termIndex[v] + 1 < Size(v)
                                        /\ termIndex[v] + 1 <= currentStage}
      digit == Max(increasable)
      raised == RaisedTo(termIndex, digit, termIndex[digit] + 1)
      inStage == currentStage <= 1 \/ \E v \in 1 .. digit : raised[v] >= currentStage
      reaching == {v \in Variables : Size(v) > currentStage}
  IN CASE increasable = {} -> NotFound(termIndex, currentStage)
       [] increasable # {} /\ inStage -> Found(raised, currentStage)
       [] increasable # {} /\ ~ inStage /\ reaching = {} -> NotFound(raised, currentStage)
       [] OTHER -> Found(RaisedTo(raised, Max(reaching), currentStage), currentStage)

-------------------------------------------------------------------------------
(* The strategy by sum.                                                        *)

\* All digits are zero, as the attempt in the stage before left them.
IncreaseStageSum(stage) ==
  LET total == stage + 1
      reached == Clip(total, 0, SumFunctionOnSet([v \in Variables |-> MaxDigit(v)], Variables))
      filled == [v \in Variables |-> Distributed(total, v)]
  IN IF reached >= total THEN Found(filled, reached) ELSE NotFound(filled, reached)

\* A digit of the change prefix goes up by one, the rest of what its suffix
\* summed up to is distributed anew.
NextCombinationSum(prefix) ==
  LET suffix(v) == SumFunctionOnSet(termIndex, v + 1 .. VariableCount)
      increasable == {v \in Variables : /\ v <= prefix
                                        /\ suffix(v) > 0
                                        /\ termIndex[v] + 1 < Size(v)}
      digit == Max(increasable)
      next == [v \in Variables |->
                 CASE v < digit -> termIndex[v]
                   [] v = digit -> termIndex[v] + 1
                   [] OTHER -> Distributed(suffix(digit) - 1, v)]
  IN IF increasable = {} THEN NotFound(Zeros, currentStage)
     ELSE Found(next, currentStage)

-------------------------------------------------------------------------------

InitStaged == currentStage = 0

IncreaseStage ==
  IF env.strategy = "sum" THEN IncreaseStageSum(currentStage)
  ELSE IncreaseStageMax(currentStage)

NextCombinationInternal ==
  IF env.strategy = "sum" THEN NextCombinationSum(changePrefix)
  ELSE NextCombinationMax(changePrefix)

StagedAttempt ==
  LET attempt == NextCombinationInternal
  IN IF attempt.found THEN attempt ELSE IncreaseStage

\* The order the interface promises, by stages and lexicographic within one.
StageOf(t) == IF env.strategy = "sum" THEN SumFunctionOnSet(t, Variables)
              ELSE Max({t[v] : v \in Variables})

Lexicographically(s, t) ==
  \E v \in Variables : s[v] < t[v] /\ \A u \in 1 .. v - 1 : s[u] = t[u]

Precedes(s, t) ==
  \/ StageOf(s) < StageOf(t)
  \/ StageOf(s) = StageOf(t) /\ Lexicographically(s, t)
================================================================================
