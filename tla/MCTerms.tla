------------------------------- MODULE MCTerms --------------------------------
(* Model checking of the terms: the node manager that counts the references   *)
(* to them, and the equality engine that merges their classes.  The engine    *)
(* holds its terms by counted Nodes and the manager knows nothing of classes, *)
(* so one behaviour exercises one of the two: the first state picks it.       *)
(* Terms are strings here, named for what they are.                           *)
EXTENDS EqualityEngine, TLC

CONSTANTS Handle, MaxRC, ZombieLimit, MaxId, MaxCalls

VARIABLES
  component,
  values, pool, zombies, maxedOut, attributes, reclaiming, nextId, handles, steps,
  state, calls

Nodes == INSTANCE NodeManager WITH todo <- steps
nodeVars == <<values, pool, zombies, maxedOut, attributes, reclaiming, nextId, handles,
              steps, state, calls>>

\* Two constants, three variables, a unary and a binary function, a predicate,
\* and equations over these.
MCKids ==
  [t \in {"true", "false", "c", "d", "x", "y", "z", "f", "g", "p"} |-> <<>>]
  @@ "fx" :> <<"f", "x">> @@ "fy" :> <<"f", "y">>
  @@ "px" :> <<"p", "x">> @@ "py" :> <<"p", "y">>
  @@ "gxy" :> <<"g", "x", "y">> @@ "gyx" :> <<"g", "y", "x">>
  @@ "x=y" :> <<"x", "y">> @@ "x=z" :> <<"x", "z">> @@ "y=z" :> <<"y", "z">>
  @@ "x=c" :> <<"x", "c">> @@ "y=d" :> <<"y", "d">>
  @@ "fx=c" :> <<"fx", "c">> @@ "fy=d" :> <<"fy", "d">>
  @@ "gxy=c" :> <<"gxy", "c">>
MCEquation == {"x=y", "x=z", "y=z", "x=c", "y=d", "fx=c", "fy=d", "gxy=c"}
MCConstant == {"true", "false", "c", "d"}

Setup(atoms, watched, terms, bound) ==
  [atoms |-> atoms, watched |-> watched, terms |-> terms, calls |-> bound]
MCSetups == {
  Setup({"x=y", "fx=c", "fy=d"}, {}, {}, 5),        \* congruence and two constants
  Setup({"x=y", "px", "py"}, {"py"}, {}, 5),        \* predicates
  Setup({"x=y", "gxy=c"}, {}, {"gyx"}, 6),          \* curried applications
  Setup({"x=y", "x=c", "y=d"}, {"x=y"}, {}, 5),     \* disequal by constants
  Setup({"x=y", "x=z"}, {"y=z"}, {"x=y"}, 5)}       \* disequal by a false equation

MCInit ==
  /\ component \in {"NodeManager", "EqualityEngine"}
  /\ Init /\ (component = "NodeManager" => left = CHOOSE s \in Setups : TRUE)
  /\ Nodes!Init

MCNext ==
  /\ UNCHANGED component
  /\ \/ component = "EqualityEngine" /\ Next /\ UNCHANGED nodeVars
     \/ component = "NodeManager" /\ Nodes!Next /\ UNCHANGED vars

MCSpec == MCInit /\ [][MCNext]_<<component, vars, nodeVars>>

Symmetry == Permutations(Handle)

-------------------------------------------------------------------------------
(* The properties of the engine are those of its module; the manager's, each  *)
(* stated and explained in its module:                                        *)

\* No pointer is to a freed term, also in the middle of an assignment.
ReferencesAreAlive == Nodes!ReferencesAreAlive

\* The counts are those of the references, what has none waits to be freed, equal
\* terms are one, and nothing outlives the manager.
CountsAreReferences == Nodes!CountsAreReferences
===============================================================================
