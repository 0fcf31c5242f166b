---------------------------- MODULE CDInstMatchTrie ----------------------------
(***************************************************************************)
(* CDInstMatchTrie (src/theory/quantifiers/inst_match_trie.cpp): the       *)
(* tuples of terms that a quantified formula was instantiated with, in a   *)
(* trie that is never cut back.  A node is in the trie as long as its flag *)
(* d_valid, a CDO of the user context, is set; a pop clears the flags that *)
(* were set since the push and leaves the nodes where they are.            *)
(*                                                                         *)
(* A node is named by the terms on the path to it.  A flag that is set     *)
(* stays so until it is popped, so the model keeps the level at which it   *)
(* was set.  A node that does not exist and one that is not valid behave   *)
(* alike and are not told apart.  All callers pass modEq = false.          *)
(***************************************************************************)
EXTENDS Integers

CONSTANTS
  Term,
  Arity,     \* the number of variables of the formula
  MaxLevel   \* bound on the user levels

ASSUME TrieAssumption == Arity \in Nat /\ MaxLevel \in Nat

VARIABLES
  level,     \* the level of the user context
  validFrom  \* validFrom[n]: the level at which d_valid of node n was set

trieVars == <<level, validFrom>>

Level == 0 .. MaxLevel
Never == MaxLevel + 1

Tuple == [1 .. Arity -> Term]
Node == UNION {[1 .. i -> Term] : i \in 0 .. Arity}

\* The node at depth i of the path to the tuple m, and the whole path.
Prefix(m, i) == [j \in 1 .. i |-> m[j]]
Path(m) == {Prefix(m, i) : i \in 0 .. Arity}

TypeOK == level \in Level /\ validFrom \in [Node -> 0 .. Never]

Init == level = 0 /\ validFrom = [n \in Node |-> Never]

Valid(n) == validFrom[n] <= level

(* existsInstMatch(): a walk that stops at a node that is not valid.       *)
ExistsInstMatch(m) == \A n \in Path(m) : Valid(n)

(* What addInstMatch() leaves: a walk that makes each node valid.  (The    *)
(* first forgets the nodes on the way that are there already, with flags   *)
(* cleared by a pop.)                                                      *)
SetValidAtEnd(m) ==
  [n \in Node |-> IF n = Prefix(m, Arity) /\ ~ Valid(n) THEN level ELSE validFrom[n]]

SetValid(m) ==
  [n \in Node |-> IF n \in Path(m) /\ ~ Valid(n) THEN level ELSE validFrom[n]]

(* addInstMatch(); it answers whether m was not there, which is            *)
(* ~ ExistsInstMatch(m) before the step.                                   *)
AddInstMatch(m) == validFrom' = SetValid(m) /\ UNCHANGED level

(* The user context.  Context::pop() restores the flags.                   *)
Push == level < MaxLevel /\ level' = level + 1 /\ UNCHANGED validFrom

Restored == [n \in Node |-> IF validFrom[n] < level THEN validFrom[n] ELSE Never]

Pop == level > 0 /\ level' = level - 1 /\ validFrom' = Restored

Next == Push \/ Pop \/ \E m \in Tuple : AddInstMatch(m)

Spec == Init /\ [][Next]_trieVars

-------------------------------------------------------------------------------
(* A tuple never outlives the nodes above it, although each has a flag of  *)
(* its own: or else to make such a node valid again would bring the tuple  *)
(* back.                                                                   *)
ParentsOutlive == \A m \in Tuple : \A n \in Path(m) : validFrom[n] <= validFrom[m]

(* The tuples in the trie at level i.                                      *)
MatchesAt(i) ==
  IF i > level THEN {}
  ELSE {<<m, "valid">> : m \in {m \in Tuple : \A n \in Path(m) : validFrom[n] <= i}}

Abs == INSTANCE BacktrackableMap WITH
         Key <- Tuple, Data <- {"valid"}, snap <- [i \in Level |-> MatchesAt(i)]

(* The trie behaves as a set of tuples that is copied at each push, and    *)
(* what is added to it is in the set.                                      *)
ImplementsMap == Abs!Spec

AdditionsCorrespond ==
  [][\A m \in Tuple : AddInstMatch(m) => Abs!Insert(m, "valid")]_trieVars
===============================================================================
