--------------------------- MODULE AssertionStack ---------------------------
(* What an SmtEngine promises its user: a stack of frames of assertions, and   *)
(* checks answered for exactly the formulas on the stack, the global           *)
(* definitions and the assumptions of that check.  The answer "unknown" is     *)
(* always allowed.  An engine for a single query has one frame and one check,  *)
(* whose assumptions stay asserted.                                            *)
EXTENDS Naturals, Sequences

CONSTANTS
  Formulas,     \* the formulas a user asserts or assumes
  RecDefs,      \* the formulas of the global recursive definitions
  Conflicts     \* the minimal inconsistent sets of formulas

VARIABLES
  single,       \* whether the engine is one for a single query
  frames,       \* a nonempty sequence of sets of formulas, the top frame last
  globals,      \* the global definitions, which no pop removes
  query,        \* the assumptions of the last check
  answer        \* of the last check

vars == <<single, frames, globals, query, answer>>

Consistent(S) == \A c \in Conflicts : ~ c \subseteq S

OnStack == (UNION {frames[k] : k \in DOMAIN frames}) \cup globals

Init ==
  /\ single \in BOOLEAN
  /\ frames = <<{}>>
  /\ globals = {}
  /\ query = {}
  /\ answer = "none"

AssertFormula(f) ==
  /\ frames' = [frames EXCEPT ![Len(frames)] = @ \cup {f}]
  /\ UNCHANGED <<globals, query, answer>>

DefineRec(d) ==
  /\ globals' = globals \cup {d}
  /\ UNCHANGED <<frames, query, answer>>

Push ==
  /\ ~ single
  /\ frames' = Append(frames, {})
  /\ UNCHANGED <<globals, query, answer>>

Pop ==
  /\ Len(frames) > 1
  /\ frames' = SubSeq(frames, 1, Len(frames) - 1)
  /\ UNCHANGED <<globals, query, answer>>

ResetAssertions ==
  /\ frames' = <<{}>>
  /\ UNCHANGED <<globals, query, answer>>

CheckSat(assumptions) ==
  /\ single => answer = "none"
  /\ query' = assumptions
  /\ answer' \in {"unknown",
                  IF Consistent(OnStack \cup assumptions) THEN "sat" ELSE "unsat"}
  /\ frames' = IF single THEN [frames EXCEPT ![Len(frames)] = @ \cup assumptions]
                          ELSE frames
  /\ UNCHANGED globals

Actions ==
  \/ \E f \in Formulas : AssertFormula(f)
  \/ \E d \in RecDefs : DefineRec(d)
  \/ Push
  \/ Pop
  \/ ResetAssertions
  \/ \E assumptions \in SUBSET Formulas : CheckSat(assumptions)

Next == Actions /\ UNCHANGED single

Spec == Init /\ [][Next]_vars
=============================================================================
