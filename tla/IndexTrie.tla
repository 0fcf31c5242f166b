------------------------------ MODULE IndexTrie -------------------------------
(* The combinations of terms that IndexTrie holds, as a set of patterns.  A    *)
(* pattern is a sequence of term indices and blanks that ends in an index; it  *)
(* matches the tuples that agree with it where it is not blank.  No pattern in *)
(* the set is a prefix of another, as a path of a trie ends where it begins to *)
(* match everything.  IndexTrieNodes has the tree itself.                      *)
EXTENDS Naturals, Sequences, FiniteSets, FiniteSetsExt, SequencesExt

CONSTANT Blank      \* the position of a pattern that matches every index

\* A mask is the set of its true positions; the last of them, or zero.
LastOf(mask) == IF mask = {} THEN 0 ELSE Max(mask)

Masked(mask, values) ==
  [i \in 1 .. LastOf(mask) |-> IF i \in mask THEN values[i] ELSE Blank]

Matches(pattern, members) ==
  \A i \in DOMAIN pattern : pattern[i] \in {Blank, members[i]}

\* The trie is asked not to record tuples without a blank.  A pattern ends the
\* paths it is a prefix of, and is not added where such a path has ended.
Add(patterns, mask, values) ==
  LET new == Masked(mask, values)
  IN CASE mask = DOMAIN values -> patterns
       [] mask # DOMAIN values /\ \E p \in patterns : IsPrefix(p, new) -> patterns
       [] OTHER -> {p \in patterns : ~ IsPrefix(new, p)} \cup {new}

Find(patterns, members) == \E p \in patterns : Matches(p, members)

\* Of the patterns that match, the search ends in the one reached through blanks
\* first.
BlankFirst(p, q) ==
  \E i \in DOMAIN p \cap DOMAIN q :
    p[i] = Blank /\ q[i] # Blank /\ \A j \in 1 .. i - 1 : p[j] = q[j]

FoundPattern(patterns, members) ==
  LET matching == {p \in patterns : Matches(p, members)}
  IN CHOOSE p \in matching : \A q \in matching \ {p} : BlankFirst(p, q)

\* The longest prefix that the members share, without blanks, with a pattern.
SharedLength(patterns, members) ==
  Max({0} \cup {k \in DOMAIN members :
                  \E p \in patterns :
                    k < Len(p) /\ \A i \in 1 .. k : p[i] = members[i]})

\* What find leaves in nonBlankLength: the length of the pattern it found, and
\* otherwise the depth at which it gave up.
NonBlankLength(patterns, members) ==
  IF Find(patterns, members) THEN Len(FoundPattern(patterns, members))
  ELSE SharedLength(patterns, members) + 1
===============================================================================
