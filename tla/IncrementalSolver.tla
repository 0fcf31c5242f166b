------------------------- MODULE IncrementalSolver -------------------------
(***************************************************************************)
(* What a client of an incremental SAT-modulo-theories solver is promised: *)
(* a stack of clause sets, and an answer that is about the clauses on the  *)
(* stack when it is given.  A literal is a non-zero integer, its negation  *)
(* is its opposite; a clause is a set of literals.  The theory is the set  *)
(* of the clauses that it makes valid.                                     *)
(***************************************************************************)
EXTENDS Integers, FiniteSets, Sequences

CONSTANTS Atoms,        \* the positive literals
          Theory        \* the clauses that hold in every model of the theory

VARIABLES stack,        \* a sequence of sets of clauses, one per user level
          answer,       \* "none" | "sat" | "unsat" | "unknown"
          model         \* the literals that are true in the model of a "sat"

vars == <<stack, answer, model>>

Literals == Atoms \cup {-a : a \in Atoms}
Clauses == SUBSET Literals

\* The literals of a total assignment that makes exactly the atoms of A true.
Total(A) == A \cup {-a : a \in Atoms \ A}

Satisfies(m, C) == \A c \in C : c \cap m # {}

Satisfiable(C) ==
  \E A \in SUBSET Atoms : Satisfies(Total(A), C \cup Theory)

\* Every total assignment that the theory allows and that satisfies C makes
\* a literal of c true.
Entails(C, c) ==
  \A A \in SUBSET Atoms :
     Satisfies(Total(A), C \cup Theory) => c \cap Total(A) # {}

\* What the clauses of the theory can tell is all there is to tell: a consistent
\* set of literals that falsifies none of them has a model.
TheoryIsComplete ==
  \A M \in SUBSET Literals :
    (\A l \in M : -l \notin M) /\ (\A L \in Theory : \E l \in L : -l \notin M) =>
      \E A \in SUBSET Atoms : M \subseteq Total(A) /\ Satisfies(Total(A), Theory)

\* The clauses asserted at the user levels 0..l of a stack.
UpTo(s, l) == UNION {s[i] : i \in 1..(IF l + 1 < Len(s) THEN l + 1 ELSE Len(s))}
Current == UpTo(stack, Len(stack))

Init ==
  /\ stack = << {} >>
  /\ answer = "none"
  /\ model = {}

Forget == answer' = "none" /\ model' = {}

Push == Forget /\ stack' = Append(stack, {})

Pop ==
  /\ Len(stack) > 1
  /\ Forget
  /\ stack' = SubSeq(stack, 1, Len(stack) - 1)

Assert(c) ==
  /\ Forget
  /\ stack' = [stack EXCEPT ![Len(stack)] = @ \cup {c}]

\* The verdicts: "unsat" when no assignment will do, "sat" with one that does,
\* "unknown" at any time.
Solve ==
  /\ UNCHANGED stack
  /\ \/ answer' = "unsat" /\ ~Satisfiable(Current) /\ model' = {}
     \/ \E A \in SUBSET Atoms :
          /\ Satisfies(Total(A), Current \cup Theory)
          /\ answer' = "sat" /\ model' \subseteq Total(A)
          /\ Satisfies(model', Current)
     \/ answer' = "unknown" /\ model' = {}

Next == Push \/ Pop \/ (\E c \in Clauses : Assert(c)) \/ Solve \/ (UNCHANGED stack /\ Forget)

Spec == Init /\ [][Next]_vars
=============================================================================
