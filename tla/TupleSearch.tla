------------------------------ MODULE TupleSearch ------------------------------
(* What an enumerator of term tuples promises: it offers tuples of a given set *)
(* that match nothing reported useless, and says that there are no more only   *)
(* when every tuple was offered or matches something reported.                 *)
CONSTANT Blank

VARIABLES
  tuples,     \* the tuples there are to enumerate
  offered,    \* those offered so far
  useless,    \* the patterns reported: functions from positions to indices
  over        \* whether the enumerator said that there are no more

vars == <<tuples, offered, useless, over>>

IsUseless(t) == \E pattern \in useless : \A v \in DOMAIN pattern : t[v] = pattern[v]

Init ==
  /\ offered = {}
  /\ useless = {}
  /\ over = FALSE

Offer ==
  /\ ~ over
  /\ \E t \in tuples :
       /\ ~ IsUseless(t)
       /\ offered' = offered \cup {t}
  /\ UNCHANGED <<tuples, useless, over>>

\* The part of a tuple that was offered that makes it useless.
Report ==
  /\ \E t \in offered : \E positions \in SUBSET DOMAIN t :
       useless' = useless \cup {[v \in positions |-> t[v]]}
  /\ UNCHANGED <<tuples, offered, over>>

Finish ==
  /\ \A t \in tuples \ offered : IsUseless(t)
  /\ over' = TRUE
  /\ UNCHANGED <<tuples, offered, useless>>

Next == Offer \/ Report \/ Finish

Spec == Init /\ [][Next]_vars
================================================================================
