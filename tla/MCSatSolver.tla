----------------------------- MODULE MCSatSolver -----------------------------
(***************************************************************************)
(* SatSolver on four atoms, with one theory lemma over three of them.  The *)
(* first state picks one of the setups, each made for some hazards:        *)
(*   Explained  a theory propagation that runs into a conflict;            *)
(*   Levels   units at the outer level, an implication at the inner one;   *)
(*   Twice    two solves and a restart, a theory lemma found false below a   *)
(*            decision, with unsat cores too;                              *)
(*   Square   the four clauses over two atoms, so that analysis learns a   *)
(*            unit and then refutes, once and again after pop;             *)
(*   Lemmas   a lemma that arrives at any moment of a search;              *)
(*   GivenUp  a lemma that a restart registers, or that a solve leaves in   *)
(*            the queue when it gives up, with a pop and a clause after it; *)
(*   Refuted  a lemma that is false without a decision, and a pop after it. *)
(***************************************************************************)
EXTENDS SatSolver, TLC

MCTheory == {{-3, -4, 5}}

Setup(unsat_cores, user0, user1, ins, sols, lems, rests) ==
  [cores |-> unsat_cores, user |-> 0 :> user0 @@ 1 :> user1 @@ 2 :> {},
   inputs |-> ins, solves |-> sols, lemmas |-> lems, restarts |-> rests]

Explained(c) == Setup(c, {{-5, 2}, {-2, -3, -4, -5}}, {{3}}, 2, 1, 0, 0)
Levels(c) == Setup(c, {{-2, -3, -4, -5}}, {{-2, 3}, {2}}, 3, 1, 0, 0)
Twice(c) == Setup(c, {{2, 5}}, {{3}, {4}}, 3, 2, 0, 1)
Square(c) == Setup(c, {{2, 3}, {2, -3}, {-2, 3}, {-2, -3}}, {}, 4, 2, 0, 0)
Lemmas(c) == Setup(c, {{-4, -5}}, {{3}}, 2, 1, 1, 0)
GivenUp(c) == Setup(c, {{4}}, {{3, 5}}, 2, 1, 1, 1)
Refuted(c) == Setup(c, {}, {{3}, {4}, {-5}}, 3, 2, 0, 0)

MCSetups == {Explained(FALSE), Levels(FALSE), Twice(FALSE), Twice(TRUE), Square(FALSE),
             Lemmas(FALSE), GivenUp(FALSE), Refuted(FALSE)}
MCSquare == {Square(FALSE)}

\* What the proof of ImplementsOracle asks of the theory holds of this one.
ASSUME TheoryAssumption == Oracle!TheoryIsComplete
=============================================================================
