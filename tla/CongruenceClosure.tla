-------------------------- MODULE CongruenceClosure ---------------------------
(* What the equality engine promises: the least congruence that contains the  *)
(* facts, on the terms it holds.  An equation over one class is true and one  *)
(* over two constants is false.  Nothing here is incremental: the classes are *)
(* computed from the facts.                                                   *)
EXTENDS Naturals, Sequences, FiniteSets

CONSTANTS
  Kids,        \* term -> the operator and the arguments of an application, the
               \* two sides of an equation, <<>> otherwise
  Equation,    \* the terms that are equations
  Constant,    \* the terms that are constants, True and False among them
  True, False

\* The class of t in the partition P, and P with the classes of t and u merged.
ClassOf(P, t) == CHOOSE B \in P : t \in B
Same(P, t, u) == \E B \in P : {t, u} \subseteq B
Joined(P, t, u) == (P \ {ClassOf(P, t), ClassOf(P, u)}) \cup {ClassOf(P, t) \cup ClassOf(P, u)}

ConstantsWith(P, t) == ClassOf(P, t) \cap Constant

\* Pairs of applications that must be in one class when P is a congruence.
Congruent(P, t, u) ==
  /\ Len(Kids[t]) = Len(Kids[u]) /\ (t \in Equation <=> u \in Equation)
  /\ \A i \in DOMAIN Kids[t] : Same(P, Kids[t][i], Kids[u][i])
Applications(T) == {t \in T : Kids[t] # <<>>}
Forced(P, T) ==
  {<<t, u>> \in Applications(T) \X Applications(T) : Congruent(P, t, u)}
  \cup {<<e, True>> : e \in {f \in T \cap Equation : Same(P, Kids[f][1], Kids[f][2])}}
  \cup {<<e, False>> : e \in {f \in T \cap Equation :
                                \E c \in ConstantsWith(P, Kids[f][1]), d \in ConstantsWith(P, Kids[f][2]) : c # d}}

Apart(P, F) == {p \in F : ~Same(P, p[1], p[2])}

RECURSIVE Grow(_, _, _)
Grow(P, T, F) ==
  LET apart == IF Apart(P, F) # {} THEN Apart(P, F) ELSE Apart(P, Forced(P, T))
  IN  IF apart = {} THEN P
      ELSE LET p == CHOOSE q \in apart : TRUE IN Grow(Joined(P, p[1], p[2]), T, F)

\* The classes of the terms T, which hold the arguments of their members, under
\* the facts F, pairs of terms of T.
Closure(T, F) == Grow({{t} : t \in T}, T, F)

Inconsistent(P) == \E B \in P : Cardinality(B \cap Constant) > 1
===============================================================================
