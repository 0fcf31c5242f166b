----------------------------- MODULE NodeManager ------------------------------
(* expr/node_manager.cpp, expr/node_value.h: hash-consed terms under reference *)
(* counts that stick at their maximum, and the zombies: a term whose count    *)
(* falls to 0 waits, and is freed or found again in the pool.                 *)
(*                                                                            *)
(* What a user does with its handles runs as a list of small steps, todo,     *)
(* since any decrement may start a reclamation.  A term is a NodeValue known  *)
(* by its id; 0 is the null one, whose count is never touched.                *)
EXTENDS Naturals, Sequences, FiniteSets, SequencesExt

CONSTANTS
  Handle,       \* the Nodes that the users hold
  MaxRC,        \* MAX_RC, 2^20 - 1 in the code
  ZombieLimit,  \* so many zombies wait for a reclamation, 5000 in the code;
                \* at least 1
  MaxId,        \* bound on the ids given out
  MaxCalls      \* bound on the calls, without those that let a handle go

VARIABLES
  values,      \* the allocated NodeValues: id -> kind, children and count
  pool,        \* d_nodeValuePool
  zombies,     \* d_zombies
  maxedOut,    \* d_maxedOut
  attributes,  \* an attribute whose values are Nodes: id -> id
  reclaiming,  \* d_inReclaimZombies, or the attribute manager's inGarbageCollection
  nextId,      \* next_id
  handles,     \* the term of each handle
  todo,        \* the rest of the running call, empty between calls
  state,       \* "open", or "closed" from the destructor on
  calls        \* the calls made

vars == <<values, pool, zombies, maxedOut, attributes, reclaiming, nextId, handles,
          todo, state, calls>>

Ids == DOMAIN values
Null == 0
Children(n) == values[n].kids

-------------------------------------------------------------------------------
(* The steps that a call is made of.                                          *)

Inc(n) == IF n = Null THEN <<>> ELSE <<[do |-> "inc", node |-> n]>>
Dec(n) == IF n = Null THEN <<>> ELSE <<[do |-> "dec", node |-> n]>>
SetHandle(h, n) == [do |-> "handle", handle |-> h, node |-> n]
SetAttribute(m, n) == [do |-> "attribute", of |-> m, node |-> n]
Each(Step(_), s) == FlattenSeq([i \in DOMAIN s |-> Step(s[i])])

At(what) == todo # <<>> /\ Head(todo).do = what
Then(items) == todo' = items \o Tail(todo)

\* Node::operator=: the old term goes before the new one is counted.
Assign(old, n, set) == IF old = n THEN <<>> ELSE Dec(old) \o <<set>> \o Inc(n)
AssignHandle(h, n) == Assign(handles[h], n, SetHandle(h, n))
\* A temporary Node is made of n and assigned to h.
Return(h, n) == Inc(n) \o AssignHandle(h, n) \o Dec(n)

\* Mutant: a reclamation may start within another.
SafeToReclaimAlways == TRUE

SafeToReclaimZombies == ~reclaiming

\* markForDeletion.
MarkForDeletion(n) ==
  /\ zombies' = zombies \cup {n}
  /\ Then(IF SafeToReclaimZombies /\ Cardinality(zombies') > ZombieLimit
          THEN <<[do |-> "reclaim"]>> ELSE <<>>)

\* NodeValue::inc and markRefCountMaxedOut.
Increment ==
  /\ At("inc")
  /\ LET n == Head(todo).node
     IN  /\ values' = IF values[n].rc < MaxRC THEN [values EXCEPT ![n].rc = @ + 1] ELSE values
         /\ maxedOut' = IF values[n].rc = MaxRC - 1 THEN Append(maxedOut, n) ELSE maxedOut
  /\ Then(<<>>)
  /\ UNCHANGED <<pool, zombies, attributes, reclaiming, nextId, handles, state, calls>>

\* NodeValue::dec.
Decrement ==
  /\ At("dec")
  /\ LET n == Head(todo).node
     IN  /\ values' = IF values[n].rc < MaxRC THEN [values EXCEPT ![n].rc = @ - 1] ELSE values
         /\ IF values'[n].rc = 0 THEN MarkForDeletion(n) ELSE Then(<<>>) /\ UNCHANGED zombies
  /\ UNCHANGED <<pool, maxedOut, attributes, reclaiming, nextId, handles, state, calls>>

Set ==
  /\ At("handle") \/ At("attribute")
  /\ LET s == Head(todo)
     IN  IF s.do = "handle" THEN handles' = [handles EXCEPT ![s.handle] = s.node] /\ UNCHANGED attributes
         ELSE /\ attributes' = [n \in DOMAIN attributes \cup {s.of} |->
                                  IF n = s.of THEN s.node ELSE attributes[n]]
              /\ UNCHANGED handles
  /\ Then(<<>>)
  /\ UNCHANGED <<values, pool, zombies, maxedOut, reclaiming, nextId, state, calls>>

\* NodeBuilder::constructNV and mkConst: the term of the pool, for which the
\* builder gives up the counts of the children, or a new one, which takes them.
Found(h, n, kids) == Each(Dec, kids) \o Return(h, n)
PoolLookup(kind, kids) == {n \in pool : values[n].kind = kind /\ Children(n) = kids}
Construct ==
  /\ At("construct")
  /\ LET s == Head(todo)
         same == PoolLookup(s.kind, s.kids)
         n == nextId
     IN  IF same # {}
           THEN /\ Then(Found(s.handle, CHOOSE m \in same : TRUE, s.kids))
                /\ UNCHANGED <<values, pool, nextId>>
           ELSE /\ values' = [m \in Ids \cup {n} |->
                                IF m = n THEN [kind |-> s.kind, kids |-> s.kids, rc |-> 0] ELSE values[m]]
                /\ pool' = IF s.kind = "variable" THEN pool ELSE pool \cup {n}
                /\ nextId' = n + 1
                /\ Then(Return(s.handle, n))
  /\ UNCHANGED <<zombies, maxedOut, attributes, reclaiming, handles, state, calls>>

-------------------------------------------------------------------------------
(* reclaimZombies.                                                            *)

\* The zombies that are dead are copied away, in the order of a hash table.
ReclaimZombies ==
  /\ At("reclaim")
  /\ \E order \in SetToSeqs({n \in zombies : values[n].rc = 0}) :
       Then([i \in DOMAIN order |-> [do |-> "collect", node |-> order[i]]] \o <<[do |-> "reclaimed"]>>)
  /\ reclaiming' = TRUE
  /\ zombies' = {}
  /\ UNCHANGED <<values, pool, maxedOut, attributes, nextId, handles, state, calls>>

\* Mutant: the value of an attribute keeps its count.
GivenUpChildren(n) == Each(Dec, Children(n))

GivenUp(n) ==
  (IF n \in DOMAIN attributes THEN Dec(attributes[n]) ELSE <<>>) \o Each(Dec, Children(n))

\* One of them, if it is still dead: out of the pool, its attributes and its
\* children given up, then freed.
Collect ==
  /\ At("collect")
  /\ LET n == Head(todo).node
     IN  IF values[n].rc = 0
           THEN /\ pool' = pool \ {n}
                /\ attributes' = [m \in DOMAIN attributes \ {n} |-> attributes[m]]
                /\ Then(GivenUp(n) \o <<[do |-> "free", node |-> n]>>)
           ELSE Then(<<>>) /\ UNCHANGED <<pool, attributes>>
  /\ UNCHANGED <<values, zombies, maxedOut, reclaiming, nextId, handles, state, calls>>

Free ==
  /\ At("free")
  /\ values' = [n \in Ids \ {Head(todo).node} |-> values[n]]
  /\ Then(<<>>)
  /\ UNCHANGED <<pool, zombies, maxedOut, attributes, reclaiming, nextId, handles, state, calls>>

Reclaimed ==
  /\ At("reclaimed")
  /\ reclaiming' = FALSE
  /\ Then(<<>>)
  /\ UNCHANGED <<values, pool, zombies, maxedOut, attributes, nextId, handles, state, calls>>

\* The loops of reclaimAllZombies and of the destructor: when no zombie is left,
\* the destructor makes one of the last of the terms that stick, in order.
Drain ==
  /\ At("drain")
  /\ LET order == Head(todo).order
         n == Last(order)
         rest == [Head(todo) EXCEPT !.order = Front(@)]
     IN  IF zombies # {}
           THEN todo' = <<[do |-> "reclaim"]>> \o todo /\ UNCHANGED <<values, zombies>>
         ELSE IF order = <<>> THEN Then(<<>>) /\ UNCHANGED <<values, zombies>>
         ELSE /\ values' = [values EXCEPT ![n].rc = 0]
              /\ zombies' = {n}
              /\ Then(<<rest>>)
  /\ UNCHANGED <<pool, maxedOut, attributes, reclaiming, nextId, handles, state, calls>>

-------------------------------------------------------------------------------
(* The calls.                                                                 *)

Idle == state = "open" /\ todo = <<>>
Call == Idle /\ calls < MaxCalls /\ calls' = calls + 1
Held == <<values, pool, zombies, maxedOut, attributes, nextId, handles>>

MakeNode(h, kind, kids) ==
  /\ Call /\ (nextId <= MaxId \/ PoolLookup(kind, kids) # {})
  /\ todo' = Each(Inc, kids) \o <<[do |-> "construct", handle |-> h, kind |-> kind, kids |-> kids]>>
  /\ UNCHANGED <<Held, reclaiming, state>>

\* h = g, of Nodes, and h = n of a TNode n for a child of g's term: the first is
\* counted by g, the second by its parent only.
CopyNode(h, g) ==
  /\ Call
  /\ todo' = AssignHandle(h, handles[g])
  /\ UNCHANGED <<Held, reclaiming, state>>

AssignChild(h, g) ==
  /\ Call /\ handles[g] # Null
  /\ \E n \in Range(Children(handles[g])) : todo' = AssignHandle(h, n)
  /\ UNCHANGED <<Held, reclaiming, state>>

DropNode(h) ==
  /\ Idle /\ handles[h] # Null
  /\ todo' = AssignHandle(h, Null)
  /\ UNCHANGED <<Held, reclaiming, state, calls>>

SetNodeAttribute(h, g) ==
  /\ Call /\ handles[h] # Null /\ handles[g] # Null
  /\ LET m == handles[h]
         old == IF m \in DOMAIN attributes THEN attributes[m] ELSE Null
         n == handles[g]
     IN  todo' = Inc(n) \o Assign(old, n, SetAttribute(m, n)) \o Dec(n)
  /\ UNCHANGED <<Held, reclaiming, state>>

ReclaimAllZombies ==
  /\ Call
  /\ todo' = <<[do |-> "drain", order |-> <<>>]>>
  /\ UNCHANGED <<Held, reclaiming, state>>

\* TopologicalSort: the children before their parents.
RECURSIVE Below(_)
Below(n) == {n} \cup UNION {Below(m) : m \in Range(Children(n))}
TopologicalSorts(roots) ==
  {s \in SetToSeqs(Range(roots)) : \A i, j \in DOMAIN s : s[i] \in Below(s[j]) => i <= j}

\* The destructor, when no user holds a Node: first all attributes go, with no
\* reclamation meanwhile.
Destroy ==
  /\ Idle /\ \A h \in Handle : handles[h] = Null
  /\ state' = "closed"
  /\ \E order \in TopologicalSorts(maxedOut) :
       todo' = FlattenSeq([i \in 1..Cardinality(DOMAIN attributes) |->
                             Dec(attributes[SetToSeq(DOMAIN attributes)[i]])])
               \o <<[do |-> "reclaimed"], [do |-> "drain", order |-> order]>>
  /\ attributes' = <<>>
  /\ maxedOut' = <<>>
  /\ reclaiming' = TRUE
  /\ UNCHANGED <<values, pool, zombies, nextId, handles, calls>>

-------------------------------------------------------------------------------
Init ==
  /\ values = <<>> /\ pool = {} /\ zombies = {} /\ maxedOut = <<>>
  /\ attributes = <<>> /\ reclaiming = FALSE /\ nextId = 1
  /\ handles = [h \in Handle |-> Null]
  /\ todo = <<>> /\ state = "open" /\ calls = 0

User ==
  \/ \E h \in Handle, kind \in {"variable", "constant"} : MakeNode(h, kind, <<>>)
  \/ \E h, g \in Handle : handles[g] # Null /\ MakeNode(h, "unary", <<handles[g]>>)
  \/ \E h, g, k \in Handle : /\ handles[g] # Null /\ handles[k] # Null
                             /\ MakeNode(h, "binary", <<handles[g], handles[k]>>)
  \/ \E h, g \in Handle : CopyNode(h, g)
  \/ \E h, g \in Handle : AssignChild(h, g)
  \/ \E h \in Handle : DropNode(h)
  \/ \E h, g \in Handle : SetNodeAttribute(h, g)
  \/ ReclaimAllZombies
  \/ Destroy

Next ==
  \/ User
  \/ Increment \/ Decrement \/ Set \/ Construct
  \/ ReclaimZombies \/ Collect \/ Free \/ Reclaimed \/ Drain

Spec == Init /\ [][Next]_vars

-------------------------------------------------------------------------------
(* Properties.                                                                *)

Mentioned(item) ==
  (IF "node" \in DOMAIN item THEN {item.node} ELSE {})
  \cup (IF "of" \in DOMAIN item THEN {item.of} ELSE {})
  \cup (IF "kids" \in DOMAIN item THEN Range(item.kids) ELSE {})
  \cup (IF "order" \in DOMAIN item THEN Range(item.order) ELSE {})

Written == {todo[i] : i \in {j \in DOMAIN todo : todo[j].do \in {"handle", "attribute"}}}

\* No pointer is to freed memory, at any moment: not from a handle or an
\* attribute, but for the one that is being overwritten, a child, the pool or
\* the zombies, nor in what is left of the running call.  (The child of a term
\* whose last Node is overwritten stays, although it is not counted by then.)
ReferencesAreAlive ==
  /\ \A h \in Handle : handles[h] \in Ids \cup {Null} \/ \E w \in Written : w.do = "handle" /\ w.handle = h
  /\ \A n \in DOMAIN attributes :
       attributes[n] \in Ids \/ \E w \in Written : w.do = "attribute" /\ w.of = n
  /\ DOMAIN attributes \cup pool \cup zombies \cup Range(maxedOut) \subseteq Ids
  /\ \A n \in Ids : (At("free") /\ n = Head(todo).node) \/ Range(Children(n)) \subseteq Ids
  /\ UNION {Mentioned(todo[i]) : i \in DOMAIN todo} \subseteq Ids \cup {Null}

\* The references that are counted.
References(n) ==
  Cardinality({h \in Handle : handles[h] = n})
  + Cardinality({m \in DOMAIN attributes : attributes[m] = n})
  + Cardinality({<<m, i>> \in Ids \X {1, 2} : i \in DOMAIN Children(m) /\ Children(m)[i] = n})

\* Between calls the count of a term is that of its references, unless it has
\* stuck; a term with none waits among the zombies, and no two terms are equal.
\* After the destructor nothing is left, terms that stuck or that held one
\* another by attributes included.
CountsAreReferences ==
  todo = <<>> =>
    /\ \A n \in Ids : IF values[n].rc = MaxRC THEN n \in Range(maxedOut)
                      ELSE values[n].rc = References(n)
    /\ \A n \in Ids : values[n].rc = 0 => n \in zombies
    /\ \A n, m \in Ids : values[n].kind = values[m].kind /\ values[n].kind # "variable"
                           /\ Children(n) = Children(m) => n = m
    /\ state = "closed" => Ids = {} /\ zombies = {}
===============================================================================
