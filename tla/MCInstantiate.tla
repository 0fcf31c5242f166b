----------------------------- MODULE MCInstantiate -----------------------------
(* Model checking of Instantiate: a formula with two variables and terms that *)
(* is one formula, in which y does not occur any more, when x is a, and true  *)
(* when x and y are b; c is a term of too high a level.                       *)
EXTENDS Instantiate, TLC

CONSTANTS a, b, c, la, lba

MCTerms == {a, b, c}
MCLemmas == {la, lba, TrueLemma}

MCBodyOf ==
  [p \in Substitution |->
     CASE DOMAIN p \in {{}, {2}} -> Open
       [] p[1] = a -> la
       [] DOMAIN p = {1} -> Open
       [] p[2] = a -> lba
       [] OTHER -> TrueLemma]

\* Nothing, one instance, or all with b for one of the variables are entailed.
MCEntailments == {{}, {<<a, a>>}, {(2 :> b)}, {(1 :> b)}}
================================================================================
