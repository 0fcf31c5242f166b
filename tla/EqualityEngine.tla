---------------------------- MODULE EqualityEngine ----------------------------
(* theory/uf/equality_engine.cpp: congruence closure by merging of circular   *)
(* classes, with explanations from a forest of the merges that happened,      *)
(* triggers that are told once, and the undoing of all of it when the context *)
(* is popped.                                                                 *)
(*                                                                            *)
(* A call runs as a list of small steps, todo, since addTermInternal calls    *)
(* itself and propagate empties its queue candidate by candidate.  A node is  *)
(* an EqualityNode with its FunctionApplicationPair, flags and triggers; 0 is *)
(* the null id.  Applications are curried: f(x, y) has the nodes f, (f x) and *)
(* ((f x) y), the last two of the same term.                                  *)
EXTENDS Naturals, Sequences, FiniteSets, SequencesExt

CONSTANTS
  Kids, Equation, Constant, True, False,  \* see CongruenceClosure
  MaxLevel,   \* bound on the levels of the context
  Setups      \* atoms that may be asserted, atoms that the theory is to be told
              \* about, terms that it adds, and a bound on the calls of a behaviour

VARIABLES
  nodes,       \* d_equalityNodes, d_nodes, d_applications and the flags, by id
  lookups,     \* d_applicationLookups, with the ids of d_applicationLookup
  asserted,    \* d_assertedEqualities
  edges,       \* d_equalityEdges, the pairs of directed edges as one
  triggers,    \* d_equalityTriggers and d_equalityTriggersOriginal
  proofs,      \* d_deducedDisequalities and their reasons
  propagated,  \* d_propagatedDisequalities, as sets of two ids
  done,        \* d_done
  saved,       \* what the context keeps of all these, per level
  queue,       \* d_propagationQueue
  todo,        \* the rest of the running call, empty between calls
  facts,       \* the facts asserted at each level, not when done (history)
  told,        \* what the theory was told, or has asked, at each level (history)
  refused,     \* the theory has refused a notification at some level (history)
  left         \* what is left of the behaviour's setup

vars == <<nodes, lookups, asserted, edges, triggers, proofs, propagated, done, saved,
          queue, todo, facts, told, refused, left>>

Terms == DOMAIN Kids
C == INSTANCE CongruenceClosure

-------------------------------------------------------------------------------
(* Nodes and classes.                                                         *)

HasTerm(t) == \E n \in DOMAIN nodes : nodes[n].term = t
\* d_nodeIds: the last node of a term, the curried ones come before it.
NodeId(t) == CHOOSE n \in DOMAIN nodes :
               nodes[n].term = t /\ \A m \in DOMAIN nodes : nodes[m].term = t => m <= n

\* newNode: a class of its own.
NewNode(n, t, flags, orig, norm) ==
  [term |-> t, internal |-> "internal" \in flags, constant |-> "constant" \in flags,
   equality |-> "equality" \in flags, orig |-> orig, norm |-> norm,
   find |-> n, next |-> n, size |-> 1, uses |-> <<>>, trig |-> 0]
NoApplication == <<>>
Leaf(n, t, operator) ==
  NewNode(n, t, IF operator THEN {"internal"} ELSE IF t \in Constant THEN {"constant"} ELSE {},
          NoApplication, NoApplication)

\* The nodes of a class in the order of its circular list, from its node n on.
ClassFrom(ns, n) ==
  LET nth[i \in Nat] == IF i = 0 THEN n ELSE ns[nth[i - 1]].next
      last == CHOOSE i \in 0..Len(ns) : nth[i + 1] = n /\ \A j \in 1..i : nth[j] # n
  IN  [i \in 1..(last + 1) |-> nth[i - 1]]

\* EqualityNode::merge: two circular lists become one, or one becomes two.
Spliced(ns, n, m, size) ==
  [ns EXCEPT ![n].next = ns[m].next, ![m].next = ns[n].next, ![n].size = size]

\* The triggers in the list of a node.
RECURSIVE TriggerList(_, _)
TriggerList(ts, i) == IF i = 0 THEN <<>> ELSE <<i>> \o TriggerList(ts, ts[i].next)
Partner(i) == IF i % 2 = 1 THEN i + 1 ELSE i - 1

Candidate(n, m, type, reason) == [t1 |-> n, t2 |-> m, type |-> type, reason |-> reason]
NoReason == <<>>

Find(ls, key) == {l \in Range(ls) : l.key = key}

\* storeApplicationLookup, on the queue q: equations of one class are true, those
\* of two constants false.
Store(ns, st, key, fun) ==
  [lookups |-> Append(st.lookups, [key |-> key, fun |-> fun]),
   queue |-> IF key[1] # "equality" THEN st.queue
             ELSE IF key[2] = key[3]
               THEN Append(st.queue, Candidate(fun, NodeId(True), "reflexivity", NoReason))
             ELSE IF ns[key[2]].constant /\ ns[key[3]].constant
               THEN Append(st.queue, Candidate(fun, NodeId(False), "constants", NoReason))
             ELSE st.queue]

-------------------------------------------------------------------------------
Item(what) == [do |-> what]
Add(t) == [do |-> "term", term |-> t, operator |-> FALSE]
AddOperator(t) == [do |-> "term", term |-> t, operator |-> TRUE]
Apply(t, i) == [do |-> "apply", term |-> t, arg |-> i]
Propagate == Item("propagate")
MergeFact(f) == [do |-> "merge", fact |-> f]

Idle == todo = <<>>
At(what) == todo # <<>> /\ Head(todo).do = what
Then(items) == todo' = items \o Tail(todo)

Fixed == <<saved, facts, left>>
Graph == <<asserted, edges, done>>
Told == <<triggers, proofs, propagated, told, refused>>

\* addTermInternal: the arguments first, each with its own propagate.
AddTerm ==
  /\ At("term")
  /\ UNCHANGED <<lookups, queue, Graph, Told, Fixed>>
  /\ LET t == Head(todo).term
         args == [i \in 1..(2 * Len(Kids[t]) - 2) |->
                    IF i % 2 = 1 THEN Add(Kids[t][(i + 3) \div 2]) ELSE Apply(t, (i + 2) \div 2)]
     IN  IF HasTerm(t) \/ done THEN Then(<<>>) /\ UNCHANGED nodes
         ELSE IF Kids[t] = <<>>
           THEN Then(<<Propagate>>) /\ nodes' = Append(nodes, Leaf(Len(nodes) + 1, t, Head(todo).operator))
         ELSE IF t \in Equation
           THEN Then(<<Add(Kids[t][1]), Add(Kids[t][2]), Apply(t, 2), Propagate>>) /\ UNCHANGED nodes
         ELSE Then(<<AddOperator(Kids[t][1])>> \o args \o <<Propagate>>) /\ UNCHANGED nodes

\* newApplicationNode for the i-th argument of t, applied to what came before it.
\* getNodeId asserts that the argument is there.
NewApplication ==
  /\ At("apply")
  /\ HasTerm(Kids[Head(todo).term][Head(todo).arg])
  /\ LET t == Head(todo).term
         i == Head(todo).arg
         a == IF i = 2 THEN NodeId(Kids[t][1]) ELSE NodeId(t)
         b == NodeId(Kids[t][i])
         type == IF t \in Equation THEN "equality" ELSE "uninterpreted"
         key == <<type, nodes[a].find, nodes[b].find>>
         fun == Len(nodes) + 1
         last == i = Len(Kids[t])
         flags == IF ~last THEN {"internal"} ELSE IF t \in Equation THEN {"equality"}
                  ELSE IF t \in Constant THEN {"constant"} ELSE {}
         node == NewNode(fun, t, flags, <<type, a, b>>, key)
         found == Find(lookups, key)
         st == IF found = {} THEN Store(nodes, [lookups |-> lookups, queue |-> queue], key, fun)
               ELSE [lookups |-> lookups,
                     queue |-> Append(queue, Candidate(fun, (CHOOSE l \in found : TRUE).fun,
                                                       "congruence", NoReason))]
         used(n) == (IF n = b THEN <<fun>> ELSE <<>>) \o (IF n = a THEN <<fun>> ELSE <<>>)
     IN  /\ nodes' = Append([n \in DOMAIN nodes |-> [nodes[n] EXCEPT !.uses = used(n) \o @]], node)
         /\ lookups' = st.lookups /\ queue' = st.queue
  /\ Then(<<>>)
  /\ UNCHANGED <<Graph, Told, Fixed>>

\* The end of assertEqualityInternal.
EnqueueFact ==
  /\ At("merge")
  /\ LET f == Head(todo).fact
     IN  queue' = Append(queue, Candidate(NodeId(f[1]), NodeId(f[2]), "fact", f))
  /\ Then(<<>>)
  /\ UNCHANGED <<nodes, lookups, Graph, Told, Fixed>>

-------------------------------------------------------------------------------
(* propagate.                                                                 *)

EmptyQueue ==
  /\ At("propagate") /\ (queue = <<>> \/ done)
  /\ queue' = <<>>
  /\ Then(<<>>)
  /\ UNCHANGED <<nodes, lookups, Graph, Told, Fixed>>

SkipCandidate ==
  /\ At("propagate") /\ queue # <<>> /\ ~done
  /\ nodes[Head(queue).t1].find = nodes[Head(queue).t2].find
  /\ queue' = Tail(queue)
  /\ UNCHANGED <<nodes, lookups, todo, Graph, Told, Fixed>>

Represent(c) == <<nodes[c.t1].find, nodes[c.t2].find>>

\* Two constants: the edge explains the clash, and an empty entry keeps the
\* edges and the merges of equal number.
MergeConstants ==
  /\ At("propagate") /\ queue # <<>> /\ ~done
  /\ LET r == Represent(Head(queue))
     IN  r[1] # r[2] /\ nodes[r[1]].constant /\ nodes[r[2]].constant
  /\ edges' = Append(edges, Head(queue))
  /\ asserted' = Append(asserted, [lhs |-> 0, rhs |-> 0])
  /\ done' = TRUE
  /\ queue' = Tail(queue)
  /\ UNCHANGED <<nodes, lookups, todo, Told, Fixed>>

\* Mutant: the bigger class takes the other, constant or not.
MergeIntoBySize(i, j) ==
  IF nodes[i].internal # nodes[j].internal THEN (IF nodes[i].internal THEN j ELSE i)
  ELSE IF nodes[j].size > nodes[i].size THEN j ELSE i

\* Which class takes the other: one of a real term, one of a constant, the bigger.
MergeInto(i, j) ==
  IF nodes[i].internal # nodes[j].internal THEN (IF nodes[i].internal THEN j ELSE i)
  ELSE IF nodes[i].constant # nodes[j].constant THEN (IF nodes[j].constant THEN j ELSE i)
  ELSE IF nodes[j].size > nodes[i].size THEN j ELSE i

\* merge: triggers of class2 move to class1, and fire when their partner is there.
MoveTriggers(class1, class2) ==
  LET Visit(st, i) ==
        IF st.triggers[Partner(i)].class = st.triggers[i].class THEN st
        ELSE [triggers |-> [st.triggers EXCEPT ![i].class = class1],
              fired |-> IF st.triggers[Partner(i)].class = class1
                          THEN Append(st.fired, i) ELSE st.fired]
      members == ClassFrom(nodes, class2)
      lists == [n \in DOMAIN members |-> TriggerList(triggers, nodes[members[n]].trig)]
  IN  FoldLeft(Visit, [triggers |-> triggers, fired |-> <<>>], FlattenSeq(lists))

\* merge: the applications of class2 under their new arguments.
MoveUses(ns, class2) ==
  LET Visit(st, fun) ==
        LET key == <<ns[fun].norm[1], ns[ns[fun].norm[2]].find, ns[ns[fun].norm[3]].find>>
            found == Find(st.lookups, key)
            other == (CHOOSE l \in found : TRUE).fun
        IN  IF found = {} THEN Store(ns, st, key, fun)
            ELSE IF ns[fun].find = ns[other].find THEN st
            ELSE [st EXCEPT !.queue = Append(@, Candidate(fun, other, "congruence", NoReason))]
      members == ClassFrom(nodes, class2)
      uses == FlattenSeq([n \in DOMAIN members |-> nodes[members[n]].uses])
      st0 == [lookups |-> lookups, queue |-> Tail(queue)]
  IN  IF nodes[class2].equality THEN st0 ELSE FoldLeft(Visit, st0, uses)

\* The two ids that a trigger is about when it is for a disequality, and what it
\* tells: of an equation that is false, that its two sides are disequal.
Disequality(i) ==
  IF triggers[i].term \in Equation /\ ~triggers[i].polarity
    THEN {NodeId(Kids[triggers[i].term][1]), NodeId(Kids[triggers[i].term][2])} ELSE {}
Proof(ids, why) == [pair |-> ids, why |-> why]
Notice(i) ==
  IF Disequality(i) # {} THEN <<Range(Kids[triggers[i].term]), FALSE>>
  ELSE <<{triggers[i].term}, triggers[i].polarity>>

\* The triggers in the sequence that are passed on: a disequality only once.
Passed(fired) ==
  LET Visit(st, i) ==
        IF Disequality(i) # {} /\ Disequality(i) \in propagated \cup {Disequality(j) : j \in Range(st)}
          THEN st ELSE Append(st, i)
  IN  FoldLeft(Visit, <<>>, fired)

\* Notify the theory, which may refuse one (it has found a conflict): no more
\* are passed on then.
Notify(fired) ==
  LET passed == Passed(fired)
  IN  \E r \in 0..Len(passed) :
        LET heard == IF r = 0 THEN passed ELSE SubSeq(passed, 1, r)
            diseqs == SelectSeq(heard, LAMBDA i : Disequality(i) # {})
        IN  /\ told' = told \cup {Notice(i) : i \in Range(heard)}
            /\ propagated' = propagated \cup {Disequality(i) : i \in Range(diseqs)}
            /\ proofs' = proofs \o [k \in DOMAIN diseqs |->
                 Proof(Disequality(diseqs[k]),
                       {<<NodeId(triggers[diseqs[k]].term), NodeId(False)>>})]
            /\ done' = (r > 0)
            /\ refused' = (refused \/ r > 0)

Merge ==
  /\ At("propagate") /\ queue # <<>> /\ ~done
  /\ LET r == Represent(Head(queue))
         class1 == MergeInto(r[1], r[2])
         class2 == IF class1 = r[1] THEN r[2] ELSE r[1]
         found == [n \in DOMAIN nodes |->
                     IF n \in Range(ClassFrom(nodes, class2))
                       THEN [nodes[n] EXCEPT !.find = class1] ELSE nodes[n]]
         moved == MoveTriggers(class1, class2)
         st == MoveUses(found, class2)
     IN  /\ r[1] # r[2] /\ ~(nodes[r[1]].constant /\ nodes[r[2]].constant)
         /\ asserted' = Append(asserted, [lhs |-> class1, rhs |-> class2])
         /\ nodes' = Spliced(found, class1, class2, found[class1].size + found[class2].size)
         /\ triggers' = moved.triggers
         /\ lookups' = st.lookups /\ queue' = st.queue
         /\ Notify(moved.fired)
  /\ edges' = Append(edges, Head(queue))
  /\ UNCHANGED <<todo, Fixed>>

-------------------------------------------------------------------------------
(* The calls.                                                                 *)

Known(t) == HasTerm(t)
AreEqual(t, u) == nodes[NodeId(t)].find = nodes[NodeId(u)].find

\* Mutant: the symmetric case gives the reasons of the first one.
DisequalityProofsUnswapped(t, u) ==
  LET a == NodeId(t)
      b == NodeId(u)
      ca == nodes[a].find
      cb == nodes[b].find
      false(l) == nodes[l.fun].find = nodes[NodeId(False)].find
      lookup(x, y) == {l \in Find(lookups, <<"equality", nodes[x].find, nodes[y].find>>) : false(l)}
      why(l) == LET o == nodes[l.fun].orig
                IN  Proof({a, b}, {<<a, o[2]>>, <<l.fun, NodeId(False)>>, <<b, o[3]>>})
  IN  IF {a, b} \in propagated THEN {Proof({}, {})}
      ELSE IF nodes[ca].constant /\ nodes[cb].constant /\ ca # cb
        THEN {Proof({a, b}, {<<a, ca>>, <<b, cb>>})}
      ELSE {why(l) : l \in lookup(a, b) \cup lookup(b, a)}

\* areDisequal: propagated before, two constants, or an equation over the two
\* classes that is false.  The proofs it may store are empty in the first case.
DisequalityProofs(t, u) ==
  LET a == NodeId(t)
      b == NodeId(u)
      ca == nodes[a].find
      cb == nodes[b].find
      false(l) == nodes[l.fun].find = nodes[NodeId(False)].find
      lookup(x, y) == {l \in Find(lookups, <<"equality", nodes[x].find, nodes[y].find>>) : false(l)}
      why(x, y) == {LET o == nodes[l.fun].orig
                    IN  Proof({a, b}, {<<x, o[2]>>, <<l.fun, NodeId(False)>>, <<y, o[3]>>})
                    : l \in lookup(x, y)}
  IN  IF {a, b} \in propagated THEN {Proof({}, {})}
      ELSE IF nodes[ca].constant /\ nodes[cb].constant /\ ca # cb
        THEN {Proof({a, b}, {<<a, ca>>, <<b, cb>>})}
      ELSE IF why(a, b) # {} THEN why(a, b) ELSE why(b, a)
AreDisequal(t, u) == DisequalityProofs(t, u) # {}

StoreDisequality(proof) ==
  IF proof.pair = {} THEN UNCHANGED <<proofs, propagated>>
  ELSE proofs' = Append(proofs, proof) /\ propagated' = propagated \cup {proof.pair}

Call == Idle /\ left.calls > 0 /\ left' = [left EXCEPT !.calls = @ - 1]
AddFact(f) == facts' = IF done THEN facts ELSE [facts EXCEPT ![Len(facts)] = @ \cup {f}]
Unchanged == <<nodes, lookups, queue, Graph>>

\* assertEquality.
AssertEquation(e) ==
  LET s == Kids[e][1]
      t == Kids[e][2]
  IN  /\ Call /\ e \in Equation
      /\ UNCHANGED <<saved, Unchanged, Told>>
      /\ \/ /\ AddFact(<<s, t>>)
            /\ todo' = IF done \/ (Known(s) /\ Known(t) /\ AreEqual(s, t)) THEN <<>>
                       ELSE <<Add(s), Add(t), MergeFact(<<s, t>>), Propagate>>
         \/ /\ AddFact(<<e, False>>)
            /\ todo' = IF done \/ (Known(s) /\ Known(t) /\ AreDisequal(s, t)) THEN <<>>
                       ELSE <<Add(e), MergeFact(<<e, False>>), Propagate>>

AssertPredicate(p, b) ==
  /\ Call /\ p \notin Equation /\ b \in {True, False}
  /\ AddFact(<<p, b>>)
  /\ todo' = IF done \/ (Known(p) /\ AreEqual(p, b)) THEN <<>>
             ELSE <<Add(p), MergeFact(<<p, b>>), Propagate>>
  /\ UNCHANGED <<saved, Unchanged, Told>>

AddTermCall(t) ==
  /\ Call
  /\ todo' = <<Add(t)>>
  /\ UNCHANGED <<saved, facts, Unchanged, Told>>

\* addTriggerEquality and addTriggerPredicate.
AddTrigger(p) ==
  /\ Call
  /\ todo' = IF done THEN <<>>
             ELSE (IF p \in Equation THEN <<Add(Kids[p][1]), Add(Kids[p][2])>> ELSE <<Add(p)>>)
                  \o <<[do |-> "trigger", term |-> p]>>
  /\ UNCHANGED <<saved, facts, Unchanged, Told>>

\* What a trigger for p with this polarity waits for.
Sides(p, polarity) ==
  IF p \in Equation /\ polarity THEN <<Kids[p][1], Kids[p][2]>>
  ELSE <<p, IF polarity THEN True ELSE False>>

\* Known already: told at once, and no trigger is needed.
CheckTrigger ==
  /\ At("trigger")
  /\ LET p == Head(todo).term
         s == Sides(p, TRUE)
         t == Sides(p, FALSE)
         proven == IF p \in Equation THEN DisequalityProofs(s[1], s[2]) ELSE {}
         equal == AreEqual(s[1], s[2])
         disequal == proven # {} \/ (p \notin Equation /\ AreEqual(t[1], t[2]))
     IN  /\ IF proven = {} THEN UNCHANGED <<proofs, propagated>>
            ELSE \E proof \in proven : StoreDisequality(proof)
         /\ told' = told \cup (IF equal THEN {<<{p}, TRUE>>} ELSE {})
                         \cup (IF ~disequal THEN {}
                               ELSE {<<IF p \in Equation THEN {s[1], s[2]} ELSE {p}, FALSE>>})
         /\ Then(IF equal \/ disequal THEN <<>> ELSE <<Add(p), [do |-> "attach", term |-> p]>>)
  /\ UNCHANGED <<Unchanged, triggers, refused, Fixed>>

\* addTriggerEqualityInternal, for both polarities: the pair of triggers goes to
\* the representatives, where its undoing finds it.
Attached(st, p, polarity) ==
  LET s == Sides(p, polarity)
      a == nodes[NodeId(s[1])].find
      b == nodes[NodeId(s[2])].find
      i == Len(st.triggers) + 1
      New(c) == [class |-> c, next |-> st.nodes[c].trig, term |-> p, polarity |-> polarity]
  IN  [triggers |-> st.triggers \o <<New(a), New(b)>>,
       nodes |-> [st.nodes EXCEPT ![a].trig = i, ![b].trig = i + 1]]

AttachTriggers ==
  /\ At("attach")
  /\ LET p == Head(todo).term
         st == Attached(Attached([triggers |-> triggers, nodes |-> nodes], p, TRUE), p, FALSE)
     IN  IF done THEN UNCHANGED <<triggers, nodes>>
         ELSE triggers' = st.triggers /\ nodes' = st.nodes
  /\ Then(<<>>)
  /\ UNCHANGED <<lookups, queue, Graph, proofs, propagated, told, refused, Fixed>>

\* areDisequal called by the theory, with a proof.
AskDisequal(e) ==
  LET s == Kids[e][1]
      t == Kids[e][2]
  IN  /\ Call /\ e \in Equation /\ Known(s) /\ Known(t) /\ ~AreEqual(s, t)
      /\ \E proof \in DisequalityProofs(s, t) : StoreDisequality(proof)
      /\ told' = told \cup {<<{s, t}, FALSE>>}
      /\ UNCHANGED <<Unchanged, saved, facts, todo, triggers, refused>>

-------------------------------------------------------------------------------
(* The context.                                                               *)

Push ==
  /\ Call /\ Len(saved) < MaxLevel
  /\ saved' = Append(saved, [nodes |-> Len(nodes), lookups |-> Len(lookups),
                             asserted |-> Len(asserted), triggers |-> Len(triggers),
                             proofs |-> Len(proofs), propagated |-> propagated,
                             done |-> done, told |-> told, refused |-> refused])
  /\ facts' = Append(facts, {})
  /\ UNCHANGED <<Unchanged, Told, todo>>

\* Mutant: the triggers of class2 stay where the merge brought them.
UndoMergeOfNodes(st, eq) ==
  LET parted == Spliced(st.nodes, eq.lhs, eq.rhs, st.nodes[eq.lhs].size - st.nodes[eq.rhs].size)
      members == Range(ClassFrom(parted, eq.rhs))
  IN  IF eq.lhs = 0 THEN st
      ELSE [st EXCEPT !.nodes = [n \in DOMAIN parted |-> IF n \in members THEN [parted[n] EXCEPT !.find = eq.rhs]
                                                         ELSE parted[n]]]

\* undoMerge: the lists part, and class2 is itself again, its triggers too.
UndoMerge(st, eq) ==
  LET parted == Spliced(st.nodes, eq.lhs, eq.rhs, st.nodes[eq.lhs].size - st.nodes[eq.rhs].size)
      members == Range(ClassFrom(parted, eq.rhs))
      back == UNION {Range(TriggerList(st.triggers, parted[n].trig)) : n \in members}
  IN  IF eq.lhs = 0 THEN st
      ELSE [nodes |-> [n \in DOMAIN parted |-> IF n \in members THEN [parted[n] EXCEPT !.find = eq.rhs]
                                               ELSE parted[n]],
            triggers |-> [i \in DOMAIN st.triggers |->
                            IF i \in back THEN [st.triggers[i] EXCEPT !.class = eq.rhs]
                            ELSE st.triggers[i]]]

\* The other parts of backtrack: triggers leave their lists, the latest first,
\* and nodes the use lists of their arguments.
Unlinked(ns, trigger) == [ns EXCEPT ![trigger.class].trig = trigger.next]
Unused(ns, node) ==
  IF node.orig = NoApplication THEN ns
  ELSE LET one == [ns EXCEPT ![node.orig[3]].uses = Tail(@)]
       IN  [one EXCEPT ![node.orig[2]].uses = Tail(@)]
After(s, n) == Reverse(SubSeq(s, n + 1, Len(s)))

Pop ==
  /\ Call /\ saved # <<>>
  /\ LET s == Last(saved)
         st == FoldLeft(UndoMerge, [nodes |-> nodes, triggers |-> triggers],
                        After(asserted, s.asserted))
         unlinked == FoldLeft(Unlinked, st.nodes, After(st.triggers, s.triggers))
         unused == FoldLeft(Unused, unlinked, After(nodes, s.nodes))
     IN  /\ nodes' = SubSeq(unused, 1, s.nodes)
         /\ triggers' = SubSeq(st.triggers, 1, s.triggers)
         /\ lookups' = SubSeq(lookups, 1, s.lookups)
         /\ asserted' = SubSeq(asserted, 1, s.asserted)
         /\ edges' = SubSeq(edges, 1, s.asserted)
         /\ proofs' = SubSeq(proofs, 1, s.proofs)
         /\ propagated' = s.propagated /\ done' = s.done
         /\ told' = s.told /\ refused' = s.refused
  /\ saved' = Front(saved) /\ facts' = Front(facts)
  /\ UNCHANGED <<queue, todo>>

-------------------------------------------------------------------------------
Init ==
  /\ nodes = <<Leaf(1, True, FALSE), Leaf(2, False, FALSE)>>
  /\ lookups = <<>> /\ asserted = <<>> /\ edges = <<>> /\ triggers = <<>>
  /\ proofs = <<>> /\ propagated = {} /\ done = FALSE /\ saved = <<>>
  /\ queue = <<>> /\ todo = <<>>
  /\ facts = << {} >> /\ told = {} /\ refused = FALSE
  /\ left \in Setups

Next ==
  \/ \E e \in left.atoms : AssertEquation(e)
  \/ \E e \in left.atoms : AskDisequal(e)
  \/ \E p \in left.atoms, b \in {True, False} : AssertPredicate(p, b)
  \/ \E p \in left.watched : AddTrigger(p)
  \/ \E t \in left.terms : AddTermCall(t)
  \/ AddTerm \/ NewApplication \/ EnqueueFact
  \/ EmptyQueue \/ SkipCandidate \/ MergeConstants \/ Merge
  \/ CheckTrigger \/ AttachTriggers
  \/ Push \/ Pop

Spec == Init /\ [][Next]_vars

-------------------------------------------------------------------------------
(* getExplanation.  The edges 1..k form a forest, so one walk leads from a    *)
(* node to another, if any does.                                              *)

Ends(e) == {edges[e].t1, edges[e].t2}

\* The walks W, nodes with the edges that lead there, continued along E.
RECURSIVE Walks(_, _)
Walks(W, E) ==
  LET next == UNION {{[to |-> p, by |-> w.by \cup {e}] : p \in Ends(e) \ {w.to}} :
                       <<w, e>> \in {x \in W \X E : x[1].to \in Ends(x[2]) /\ x[2] \notin x[1].by}}
  IN  IF next \subseteq W THEN W ELSE Walks(W \cup next, E)
WalksTo(n, m, E) == {w \in Walks({[to |-> n, by |-> {}]}, E) : w.to = m}

NoPath == {<<"no path">>}

\* The facts that explain why n and m were merged by the edges 1..k, the edges
\* of congruence and evaluation explained by earlier ones.
RECURSIVE Explain(_, _, _)
Explain(n, m, k) ==
  LET Why(e) ==
        LET c == edges[e]
            eq == IF nodes[c.t1].orig = NoApplication THEN c.t2 ELSE c.t1
            a == nodes[eq].orig[2]
            b == nodes[eq].orig[3]
        IN  CASE c.type = "fact" -> {c.reason}
              [] c.type = "congruence" ->
                   Explain(nodes[c.t1].orig[2], nodes[c.t2].orig[2], e - 1)
                   \cup Explain(nodes[c.t1].orig[3], nodes[c.t2].orig[3], e - 1)
              [] c.type = "reflexivity" -> Explain(a, b, e - 1)
              [] c.type = "constants" -> Explain(a, nodes[a].find, e - 1)
                                         \cup Explain(b, nodes[b].find, e - 1)
      walks == WalksTo(n, m, 1..k)
  IN  IF walks = {} THEN NoPath ELSE UNION {Why(e) : e \in UNION {w.by : w \in walks}}

\* explainEquality.
ExplainEqual(n, m) == Explain(n, m, Len(edges))
ExplainDisequal(proof) == UNION {ExplainEqual(w[1], w[2]) : w \in proof.why}

-------------------------------------------------------------------------------
(* Properties.                                                                *)

\* The terms of the engine and the equations over them that were not needed
\* since they were known, and the facts about these.
Present == {nodes[n].term : n \in DOMAIN nodes}
Spoken == Present \cup {e \in Equation : Range(Kids[e]) \subseteq Present}
Facts == {f \in UNION Range(facts) : {f[1], f[2]} \subseteq Spoken}
Follows(P, notice) ==
  LET t == CHOOSE u \in notice[1] : TRUE
      s == Sides(t, notice[2])
  IN  IF Cardinality(notice[1]) = 1 THEN C!Same(P, s[1], s[2])
      ELSE \E u \in notice[1] \ {t} : C!Inconsistent(C!Closure(Spoken, Facts \cup {<<t, u>>}))

\* Between calls the classes are those of the least congruence that contains the
\* facts, whatever was merged and undone before; the engine is done only when
\* the facts are inconsistent or the theory has said so.
EqualIsCongruence ==
  Idle =>
    LET P == C!Closure(Spoken, Facts)
    IN  /\ done => refused \/ C!Inconsistent(P)
        /\ ~done => Facts = UNION Range(facts) /\ ~C!Inconsistent(P)
        /\ \A t, u \in Present : IF done THEN AreEqual(t, u) => C!Same(P, t, u)
                                         ELSE AreEqual(t, u) <=> C!Same(P, t, u)

\* What the theory was told follows from the facts of the open levels, and a
\* trigger whose sides came together was passed on, to the theory or before that
\* as an answer; its two ends are in one class exactly then.
TriggersAreTold ==
  Idle =>
    LET P == C!Closure(Spoken, Facts)
    IN  /\ \A notice \in told : Follows(P, notice)
        /\ ~done => \A i \in {j \in DOMAIN triggers : j % 2 = 1} :
             LET s == Sides(triggers[i].term, triggers[i].polarity)
             IN  /\ AreEqual(s[1], s[2]) <=> triggers[i].class = triggers[i + 1].class
                 /\ AreEqual(s[1], s[2]) => Notice(i) \in told

\* Whatever is equal, and whatever clash made the engine done, is explained by
\* facts that were asserted and that force it; so is every disequality that is
\* kept with its reasons, however late it is asked for.
ExplanationsSuffice ==
  Idle =>
    /\ \A n, m \in DOMAIN nodes :
         LET why == ExplainEqual(n, m)
         IN  n < m /\ nodes[n].find = nodes[m].find =>
               /\ why \subseteq Facts
               /\ ~nodes[n].internal /\ ~nodes[m].internal =>
                    C!Same(C!Closure(Spoken, why), nodes[n].term, nodes[m].term)
    /\ \A k \in DOMAIN asserted :
         LET why == ExplainEqual(nodes[edges[k].t1].find, nodes[edges[k].t2].find)
         IN  asserted[k].lhs = 0 => /\ why \subseteq Facts
                                   /\ C!Inconsistent(C!Closure(Spoken, why))
    /\ {proofs[k].pair : k \in DOMAIN proofs} = propagated
    /\ \A k \in DOMAIN proofs :
         LET why == ExplainDisequal(proofs[k])
             p == {nodes[n].term : n \in proofs[k].pair}
         IN  /\ why \subseteq Facts
             /\ \A t, u \in p : t # u =>
                  C!Inconsistent(C!Closure(Spoken, why \cup {<<t, u>>}))
===============================================================================
