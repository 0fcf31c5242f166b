---------------------------- MODULE IndexTrieNodes ----------------------------
(* The tree of IndexTrie: a node has at most one child per term index and one  *)
(* for the blank; Everything is the null pointer, the subtree that matches     *)
(* whatever is left of a tuple.                                                *)
EXTENDS Naturals, Sequences, FiniteSets

CONSTANTS
  Everything,   \* the null pointer where a subtree is expected
  NoBlank       \* the null pointer in d_blank, no blank child

NewNode == [blank |-> NoBlank, children |-> <<>>]

\* The children by term index, a function whose domain are the values on edges.
Child(node, value) == node.children[value]
HasChild(node, value) == value \in DOMAIN node.children

\* A mutant of addRec that keeps the paths below the end of the added pattern.
RECURSIVE AddRecKeepsLonger(_, _, _, _)
AddRecKeepsLonger(node, index, mask, values) ==
  LET left == {i \in mask : i >= index}
      below(start) == AddRecKeepsLonger(start, index + 1, mask, values)
      value == values[index]
  IN CASE node = Everything -> Everything
       [] node # Everything /\ left = {} ->
            IF node = NewNode THEN Everything ELSE node
       [] node # Everything /\ left # {} /\ index \notin mask ->
            [node EXCEPT !.blank =
               below(IF node.blank = NoBlank THEN NewNode ELSE node.blank)]
       [] OTHER ->
            [node EXCEPT !.children =
               [v \in DOMAIN node.children \cup {value} |->
                  IF v = value
                    THEN below(IF HasChild(node, v) THEN Child(node, v) ELSE NewNode)
                    ELSE Child(node, v)]]

RECURSIVE AddRec(_, _, _, _)
AddRec(node, index, mask, values) ==
  LET left == {i \in mask : i >= index}
      below(start) == AddRec(start, index + 1, mask, values)
      value == values[index]
  IN CASE node = Everything \/ left = {} -> Everything
       [] node # Everything /\ left # {} /\ index \notin mask ->
            [node EXCEPT !.blank =
               below(IF node.blank = NoBlank THEN NewNode ELSE node.blank)]
       [] OTHER ->
            [node EXCEPT !.children =
               [v \in DOMAIN node.children \cup {value} |->
                  IF v = value
                    THEN below(IF HasChild(node, v) THEN Child(node, v) ELSE NewNode)
                    ELSE Child(node, v)]]

AddToTree(root, mask, values) ==
  IF mask = DOMAIN values THEN root ELSE AddRec(root, 1, mask, values)

\* findRec, with the nonBlankLength that it was called with and returns.
RECURSIVE FindRec(_, _, _, _)
FindRec(node, index, members, length) ==
  IF node = Everything \/ index > Len(members)
    THEN [found |-> TRUE, length |-> length]
    ELSE
      LET inBlank == IF node.blank = NoBlank THEN [found |-> FALSE, length |-> length]
                     ELSE FindRec(node.blank, index + 1, members, length)
      IN CASE inBlank.found -> inBlank
           [] ~ inBlank.found /\ HasChild(node, members[index]) ->
                FindRec(Child(node, members[index]), index + 1, members, index)
           [] OTHER -> [found |-> FALSE, length |-> index]

FindInTree(root, members) == FindRec(root, 1, members, 0)
===============================================================================
