---------------------------- MODULE InstStrategyEnum ----------------------------
(* InstStrategyEnum::process: one quantified formula is instantiated with the  *)
(* tuples of an enumerator, each that fails being reported back with the       *)
(* positions that make it fail.  InstStrategyPool::process is the same client  *)
(* but for going on after an instantiation that succeeds; env.client is "enum" *)
(* or "pool".                                                                  *)
EXTENDS StagedTupleEnumerator, AStarTupleEnumerator

CONSTANT Envs       \* the environments of the enumerators to consider

VARIABLES
  phase,      \* where process() is
  offered,    \* the tuples that hasNext() made available so far
  last,       \* the latest of them
  reported    \* the masked tuples that failureReason() was called with

enumeratorVars == <<termIndex, changePrefix, disabled, stepped, hasNext>>
strategyVars == <<currentStage, open, visited>>
vars == <<env, enumeratorVars, strategyVars, phase, offered, last, reported>>

\* Inside hasNext(); a tuple at hand; the loop left after the last tuple, and left
\* by a return.
Phases == {"asking", "instantiating", "exhausted", "returned"}

Init ==
  /\ env \in Envs
  /\ InitEnumerator
  /\ InitStaged
  /\ InitAStar
  /\ phase = "asking"
  /\ offered = {}
  /\ last = <<>>
  /\ reported = {}

Offer(t) ==
  /\ phase' = "instantiating"
  /\ offered' = offered \cup {t}
  /\ last' = t

-------------------------------------------------------------------------------
(* hasNext(): the first tuple is there from the start, every other one is      *)
(* searched for, round by round of the loop in nextCombination().              *)

NoNext ==
  /\ phase = "asking" /\ ~ hasNext
  /\ phase' = "exhausted"
  /\ UNCHANGED <<env, enumeratorVars, strategyVars, offered, last, reported>>

First ==
  /\ phase = "asking" /\ hasNext /\ ~ stepped
  /\ stepped' = TRUE
  /\ Offer(termIndex)
  /\ UNCHANGED <<env, termIndex, changePrefix, disabled, hasNext, strategyVars, reported>>

OutOfCombinations ==
  /\ hasNext' = FALSE
  /\ UNCHANGED <<phase, offered, last>>

\* The tuple is offered unless the disabled combinations match it.
VetOrSkip(tuple) ==
  /\ Vet(tuple)
  /\ IF Find(disabled, tuple) THEN UNCHANGED <<phase, offered, last>> ELSE Offer(tuple)
  /\ UNCHANGED hasNext

StagedRound ==
  /\ phase = "asking" /\ hasNext /\ stepped /\ env.strategy # "astar"
  /\ currentStage' = StagedAttempt.stage
  /\ IF StagedAttempt.found
       THEN VetOrSkip(StagedAttempt.tuple)
       ELSE OutOfCombinations /\ termIndex' = StagedAttempt.tuple
                              /\ changePrefix' = VariableCount
  /\ UNCHANGED <<env, disabled, stepped, open, visited, reported>>

AStarRound ==
  /\ phase = "asking" /\ hasNext /\ stepped /\ env.strategy = "astar"
  /\ \/ open = {} /\ OutOfCombinations
        /\ UNCHANGED <<termIndex, changePrefix, open, visited>>
     \/ \E t \in Top : Push(t) /\ VetOrSkip(t)
  /\ UNCHANGED <<env, disabled, stepped, currentStage, reported>>

-------------------------------------------------------------------------------
(* The body of the loop.                                                       *)

\* A conflict, or an instantiation that ends the round for this formula.
Return ==
  /\ phase = "instantiating"
  /\ phase' = "returned"
  /\ UNCHANGED <<env, enumeratorVars, strategyVars, offered, last, reported>>

Succeed ==
  /\ phase = "instantiating" /\ env.client = "pool"
  /\ phase' = "asking"
  /\ UNCHANGED <<env, enumeratorVars, strategyVars, offered, last, reported>>

\* addInstantiationExpFail takes away from the mask the positions whose terms do
\* not matter, and always leaves one.
FailMasks == SUBSET Variables \ {{}}

Fail ==
  /\ phase = "instantiating"
  /\ \E mask \in FailMasks :
       /\ FailureReason(mask)
       /\ reported' = reported \cup {[v \in mask |-> termIndex[v]]}
  /\ phase' = "asking"
  /\ UNCHANGED <<env, termIndex, stepped, hasNext, strategyVars, offered, last>>

Next == NoNext \/ First \/ StagedRound \/ AStarRound \/ Return \/ Succeed \/ Fail

\* process() is sequential and runs to its return.
Spec == Init /\ [][Next]_vars /\ WF_vars(Next)

-------------------------------------------------------------------------------
(* Properties.                                                                 *)

\* The indices stay within the terms of their variables, the stage within the
\* stages, and the change prefix within the tuple but for what a find that gave
\* up may leave there.
TypeOK ==
  /\ termIndex \in Tuples \cup {<<>>}
  /\ changePrefix \in 0 .. VariableCount
  /\ disabled \subseteq {Masked(m, t) : m \in SUBSET Variables, t \in Tuples}
  /\ {stepped, hasNext} \subseteq BOOLEAN
  /\ currentStage \in Nat
  /\ open \subseteq visited /\ visited \subseteq Tuples
  /\ phase \in Phases
  /\ offered \subseteq Tuples
  /\ last \in offered \cup {<<>>}

Offering == phase # "instantiating" /\ phase' = "instantiating"

\* term_tuple_enumerator.h: the staged enumerators offer tuples in stages, and in
\* lexicographic order within a stage, so that none comes twice; what is skipped
\* over on the way never makes them step back.
InStageOrder ==
  [][Offering /\ env.strategy # "astar" /\ last # <<>> => Precedes(last, last')]_vars

Matched(t) == \E r \in reported : \A v \in DOMAIN r : t[v] = r[v]

\* The enumerator by learned scores offers, of the tuples that it has not offered
\* and that match nothing reported, one with the highest score; only the very
\* first may come a second time, as the search begins by expanding it.
BestFirst ==
  [][Offering /\ env.strategy = "astar" =>
       \/ offered \subseteq {Zeros} /\ last' = Zeros
       \/ /\ last' \notin offered
          /\ \A t \in Tuples \ offered : ~ Matched(t) => Score(t) <= Score(last')]_vars

Enumeration == INSTANCE TupleSearch WITH
  tuples <- Tuples, useless <- reported, over <- phase = "exhausted"

\* Skipping by failure masks, by change prefixes and by stages loses no tuple: one
\* that is never offered matches a mask that was reported, and one that matches a
\* mask is not offered.
ImplementsSearch == Enumeration!Spec

\* The loops end, also the one in hasNext() that looks for a tuple which is not
\* disabled.
Terminates == <>(phase \in {"exhausted", "returned"})

\* term_tuple_enumerator.h: failureReason is called optionally.  So a client that
\* does not report a tuple is still offered all the others.
ReportingIsOptional ==
  phase = "exhausted" => \A t \in Tuples \ offered : Matched(t)
================================================================================
