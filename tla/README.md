# A TLA+ development for CVC5 with learned instantiation

This directory holds a formal model of parts of the solver in `src/CVC5`, a CVC5
whose quantifier instantiation can be guided by a learned predictor, and which the
scripts of `src/loop` run and train in turn. The modules are translated from the C++
sources; `PROJECT.json` maps each definition to the lines that it models. TLC checks
the properties on small instances, and TLAPS proves some of them for all instances.

1. The system and its parts
2. What is modelled, module by module
3. The runs: bounds, fairness, and what they show
4. What is proved
5. Where the code and what is said of it differ
6. What is only model-checked, and what is not modelled
7. Plan


## 1. The system and its parts

The solver is one process and, for what is modelled here, one thread. What makes it
hard is not parallelism but *time travel*: almost every component keeps state that
a backtrack has to undo, each in its own representation, and the components pop at
different moments. The second difficulty is partial work: a search may be cut short
by a resource limit, an enumeration by a conflict, and what they leave behind is
what the next call starts from.

| part | state | operations | what makes it correct |
|---|---|---|---|
| scopes and backtrackable objects, `context/context.*`, `cdo.h` | the stack of scopes, each with a linked list of object versions | push, pop, construct, write, destroy | after a pop every object has the value it had at the push; no pointer into released memory survives |
| region memory, `context/context_mm.*` | chunks in use, free chunks, the position of the next block, positions saved by pushes | newData, push, pop | blocks never overlap and live until the pop of their region |
| backtrackable containers, `cdhashmap.h`, `cdinsert_hashmap.h`, `cdqueue.h`, `cdlist.h` | a table and a ring of elements; a deque with two counters; an array with three indices | insert, set, insertAtContextLevelZero, clear, push, pop | each behaves as if it were copied at every push |
| the engine's protocol, `smt/smt_engine*`, `assertions.*`, `smt_solver.*` | mode, user levels, pending pops, buffered assertions, global definitions | assert, define, push, pop, reset, check with assumptions, get-abduct, ... | a check is answered for exactly what the user has on the stack |
| resource limits, `util/resource_manager.*` | counters per call and in total | beginCall, endCall, spend, out | a limit stops a check, and nothing else |
| SAT solver, `prop/` | trail, clauses by assertion level, watches, activity, pending lemmas | solve, push, pop, addClause, propagate, analyze, theory calls | no answer unsat without a refutation; learnt clauses leave with the level they depend on |
| theory engine, `theory/` | facts, shared terms, conflicts, lemmas, the sat mode | check, propagate, explain, postsolve | every lemma is sent once, no fact is lost between effort levels |
| equality engine, `theory/uf/equality_engine.*` | union-find with undo, disequalities, triggers, a proof graph | assertEquality, merge, propagate, backtrack | congruence-closed after each merge, exactly undone by a pop |
| instances, `theory/quantifiers/instantiate.*`, `inst_match_trie.*`, and the buffers of `theory/*inference_manager*` | a trie of tuples, a buffer of lemmas, the lemmas that were sent | check rounds, record, flush, clear | a tuple that is recorded has its lemma, and the explanation of a failure condemns nothing useful |
| enumeration, `theory/quantifiers/term_tuple_enumerator*` | the next digits, disabled combinations, predictions | hasNext, next, failureReason | no tuple is lost and none is offered twice |
| node manager, `expr/` | a pool of shared nodes with saturating reference counts | create, inc, dec, reclaim zombies | a node that is referenced is never reclaimed |
| front end, preprocessing, rewriting, proofs, theories | terms | functions on terms | mathematical rather than behavioural |
| learning loop, `src/loop/scripts/loop.py` | files of proofs, training data and models by iteration | solve all, train, repeat | a model is trained on what the earlier iterations logged |

How they interact. `SmtEngine` owns two `Context`s: the *user* context, whose levels
are the user's frames and the levels of assumptions, and the *SAT* context above
it, on which the decisions of the SAT solver also push. `SmtEngineState` pushes the
user context and, through `PropEngine::push`, the SAT solver's assertion levels;
pops are put off (`d_pendingPops`) until the next call of the user so that a model
stays available. `Assertions` keeps a backtrackable list by user level and a buffer
that `SmtSolver::processAssertions` empties into the SAT solver. The theories keep
all of their state in the objects of `context/`, so that nobody has to tell them of
a backtrack. Inside a check of the theories, `QuantifiersEngine` asks its strategies
for instances; `InstStrategyEnum::process` drives a term tuple enumerator through
`hasNext`, `next` and `failureReason`, and `Instantiate` decides whether an instance
is new: the instance becomes a lemma that waits in the buffer of the
inference manager until the end of the round and goes to the SAT solver from there.
The SAT solver calls the theories from inside of its propagation and gets conflicts,
propagated literals, whose reasons it asks for later, and lemmas, at any moment of a
search. The theories keep equalities in an `EqualityEngine` each, and all of them
hold terms through counted `Node`s. The producers of the enumerators take the terms of a variable either in the
order of the term database or as sorted by a predictor (LightGBM).

The hazards, each at its line, are listed in `PROJECT.json` with the properties
that would catch them. The themes:

* *A write that was not preceded by a save* (`cdo.h`, `context.cpp`), a version that
  is skipped by a chain of saved copies, an object that is destroyed while it has
  versions in several scopes: all are invisible until some pop much later.
* *Pop is not atomic*: it removes the scope from the list, restores objects one by
  one, deletes garbage, and only then releases the memory of the saved copies.
* *Counters restored next to data that is not*: `CDInsertHashMap` and `CDQueue` save
  two or three numbers, and infer from them what the content was.
* *Three stacks with three owners*, pushed and popped at different moments, with
  assertions in a buffer between them (`smt_engine_state.cpp`).
* *A refused or interrupted check* that returns between a push and its pop.
* *Caches with different owners*: a tuple is recorded in the user context at once,
  its lemma waits in a vector that no context restores.
* *Answers asked for late*: the reason of a propagated literal, the explanation of an
  equality or of a disequality, given when the state has moved on.
* *Freed while in use*: reclaiming one term makes zombies of others, in the middle
  of an assignment.
* *Skipping*: an enumerator skips blocks of tuples on account of failures, of
  stages and of digits with different ranges, all three in one loop.


## 2. What is modelled, module by module

### The context layer

`ContextSnapshots` is what it promises: a stack of complete snapshots of all
objects, of which a push duplicates the top one and a pop drops it. A constructor
without a level gives the object a default value in all levels below, one of
`CDO(true, ...)` makes it exist from the current level only.

`ContextScopes` has one action for each operation, over *versions*:
`version[s][o]` is the data of the object's version in the chain of scope `s`,
`scope[o]` the scope of the live one (`d_pScope`), and `restore[s][o]` the scope of
the version that `d_pContextObjRestore` leads to. `Set` is `makeCurrent()` followed
by the assignment in `CDO::set`; it saves only if the object is not current. `Pop`
is atomic here. `ImplementsSnapshots` maps the versions to snapshots: what level
`i` sees of an object is its newest version at or below `i`.

`ContextHeap` is the data structure: a memory of links (`d_pContextObjNext`, and
`d_pContextObjList` of a scope), back links (`d_ppContextObjPrev`, the *address* of
the pointer that points here), restore pointers, scopes and data, for objects and
for saved copies; saved copies are allocated at increasing addresses and released
all at once. `Context::pop` is taken in steps, `PopScope`, one `RestoreNext` for
each object in the list, and `ReleaseMemory`; no user operation runs in between,
because pop is one call. `ImplementsScopes` maps it to `ContextScopes`: all of a pop
happens at its first step, since the mapping looks through the objects yet to be
restored at their saved copies.

`ContextMemory` is the allocator under it: chunks with an offset as the position,
the saved positions of the pushes, and the free list that keeps `MaxFreeChunks`
chunks and returns the others to `malloc`. A block that does not fit starts a new
chunk. What the model adds to the code's state is `data`, the blocks handed out.

### The containers

`BacktrackableMap` and `BacktrackableQueue` are what they promise, snapshots of a
map or of a queue for each level.

`CDHashMap` has the table, the ring of elements in order of insertion (`d_first`,
`d_prev`, `d_next`), the saved copies of each element, and the trash heap of the
scope that is being popped: an element that restore finds to have been inserted in
the popped scope leaves ring and table at once and is deleted after the list of the
scope has been walked. The order in which a scope's objects are restored is any
order, which includes the one of the lists. `CDInsertHashMap` is a deque of keys with
`d_size` and `d_pushFronts` and the saved values of both. `CDQueue` is a queue over
`CDList`: one array for all levels, and `d_iter`, `d_size`, `d_lastsave` saved;
`Dequeue` truncates the array early when it becomes empty, down to what the last
saved copy refers to. `MCContainers` extends `CDQueue` and instantiates the maps next to
it, one container at work in each behaviour.

### The SAT solver

`IncrementalSolver` is the promise: a stack of clause sets, and a solve that answers
what the clauses of all open levels together with the theory entail, or does not
know.

`SatSolver` is `prop/minisat/core/Solver.cc` under it, in incremental mode, a step for
each point at which something else could happen: `AddClause` with its cases (a
clause that is kept, ignored, false, or queued as a lemma while a search runs),
`Push` and `Pop` of user levels, the two rounds of `propagate` with the walk along the
watch lists one watcher at a time, the theory's turn, `updateLemmas` (sort, attach
one by one, backtrack in between), `analyze` from the latest literal down with each
reason fetched when it is needed, minimisation, learning, restarts, `simplify`,
`reduceDB`, decisions, and the two points where a budget may end the search. A
literal is an integer; a clause is its two watched literals and the set of the rest, with
the level of the user it belongs to. The watch lists follow from the clauses; the order
of a list is any. What the theory propagates, when it sends a lemma and what the
heuristics decide is a free choice among what is allowed: the theory is a set of
valid clauses. A blocker may be any literal of the clause; minimisation
does not look through literals that are not explained yet, but any literal
mentioned may have been explained before. A removable clause that is satisfied may
be removed.

Each `cancelUntil` that takes a decision away may tell the theory of variables again
(`Solver.cc:810`), and the theory may answer with a lemma (`Registration`): when a
clause has been learnt, between the lemmas of `updateLemmas`, and at a restart. There
the solver is busy and the lemma is queued; what `resetTrail` causes is added at once, as
any clause of the theory between calls (`AddTheoryClause`). A restart at which the budget
is spent (`Solver.cc:1795`) leaves its lemma in the queue, over the end of the solve and
over pushes and pops, since `pop` does not clear the queue. A lemma of which a pop has
removed a variable is marked `dangling`, which is history and not in the code. `updateLemmas`
would read that variable next; the model stops there (`ReadRemovedVariable`, control
point `undefined`) and says nothing of what follows. `spent` is history too: a solve
has run out of its budget. `Resumable` says whether the user may solve again after that;
clauses, pushes and pops may come in any case.

### Terms

`NodeManager` has the node values with their counts, the pool, the zombies, one
attribute whose values are nodes, and handles of a user. A call is a list of small
steps, because any decrement may start a reclamation: `Increment`, `Decrement`, the
assignment `operator=` from a node and from a child of the old one, the construction
of a term that may find an equal one in the pool, zombies that are found again, and
the destructor, which first drops attributes and then frees the values whose counts
stuck, parents first. Ids are unique and are what the model calls a term. The
order of zombies in a hash set is any order.

`CongruenceClosure` says what follows from a set of equalities: the smallest
congruence, by closing a graph of terms. `EqualityEngine` is the data structure with
an array of nodes for terms and for curried applications (`f`, then `f(x)`), classes as
circular lists, use lists, lookups of applications, equality and predicate triggers,
the queue of merge candidates, the edges of the proof forest, and the reasons of
propagated disequalities; a push saves sizes and a pop undoes merges, triggers,
lookups and nodes from the end of each list. `ExplainEqual` and `ExplainDisequal`
follow the path in the proof forest.


### The engine

`AssertionStack` is what the user is promised: frames of assertions, global
definitions, checks that are answered for the stack, or `unknown`. An engine for a
single query answers one check, and its assumptions stay asserted.

`SmtEngine` models the calls of the user as actions, and the functions that they
call in turn (`doPendingPops`, `internalPush`, `processAssertions`,
`notifyCheckSat`, ...) as operators from an engine to an engine, so that the order of
their effects is the order in the code. The state `engine` is a record of the
fields of `SmtEngineState`, `Assertions`, the resource counters and what matters of
`PropEngine`: the clauses by assertion level with `ok`, whether the trail has
decisions, the level of the SAT context, and the sat mode of the theories. The
search is an oracle: the formulas are opaque, `Conflicts` lists the minimal sets of
them that are inconsistent, and `Verdicts` allows the right answer, `unknown`, or
only `unknown` once the resources are spent. `addClause` may notice a conflict
early or not (`noticed`), a search leaves decisions or not (`trail`). An `Assert` of
the code is `AssertThat`: it records its site in `failed` and the process stops. An
exception that is thrown to the user is a step that keeps the effects it had until
then.

### Instances

`CDInstMatchTrie` is the trie of tuples: a node is there as long as its `d_valid` flag,
an object of the user context, is set. The model keeps the level at which the flag was
set; a pop clears those of the level it leaves. An absent node and one that is not
valid are the same to all callers. It implements `BacktrackableMap`, as a set of tuples.

`Instantiate` extends it with what an instance passes on its way: `AddInstantiation`
refuses a tuple that is entailed or has a term that is not eligible, records it,
refuses it if it was there, and puts its lemma in the buffer unless that was sent
before; if it failed, `FailMask` reverts the variables from the last on as long as
entailment or rewriting still explains the failure. Around it are the rounds of
`QuantifiersEngine`: a check starts with `presolve`, which clears the buffer; a round
starts with a flush and ends with one; the assertion of another quantified formula
flushes, too; and a limit may end a round at any `addInstantiation`, by an exception
that leaves the buffer as it is (`Interrupt`). What a body rewrites to under a
substitution is the constant `BodyOf`; what is entailed is chosen for each round.
The variable `left` is not in the code: it remembers the lemmas that an interruption
left behind.

### Term tuple enumeration

`TupleSearch` is the promise: tuples of a given set are offered that match nothing
reported useless, and the end is announced only when every tuple was offered or
matches something that was reported.

`TermTupleEnumerator` has the state of the base class: the digits, the prefix
that the next tuple must change, the disabled combinations, and whether the first
step was taken. `StagedTupleEnumerator` adds the two strategies by stages, the
maximum digit (`nextCombinationMax`, `increaseStageMax`) and the sum of digits
(`nextCombinationSum`, `increaseStageSum`), as functions from the current tuple
to the next attempt; `AStarTupleEnumerator` adds the search by the product of the
predicted scores, with its heap and its set of visited tuples. `InstStrategyEnum` is
the client, `process()`: the rounds inside of `hasNext()` are actions of their own,
`Return` stands for a conflict or a successful instance, `Fail` for a failed one with
any failure mask. `InstStrategyPool` is the same client except that it goes on after a
success (`Succeed`).

`IndexTrie` describes the trie of disabled combinations as a set of patterns, and
`find` and `nonBlankLength` by what they return. `IndexTrieNodes` is the tree with
its recursive `addRec` and `findRec`; the property `TreeFindsTheDisabled` compares
the two in every state that the client reaches. So the enumerators use the former,
which can be reasoned about, and the latter shows that it is what the code does.

### Conventions

An operator next to an action that does nearly the same, named for the difference
and declared just before it (`SetInPlace`, `PopKeepsScope`, `LinkNoPrev`, ...), is a
plausible mistake in that code. It is not part of the specification; it takes the
place of the right one when the question is whether a property would notice. Every
property of every run has at least one such mistake that violates it
(`PROJECT.json`, "mutants").


## 3. The runs: bounds, fairness, and what they show

Run a configuration with `tlc -config <cfg> <module>`.

| run | module, cfg | distinct states | shows |
|---|---|---|---|
| context_scopes | `MCContextScopes` | 24 461 | restore chains are exact, the live version is the newest, versions implement snapshots; in the heap no pointer dangles, also in the middle of a pop, lists hold exactly their versions with exact back links, a pop ends, and the lists implement `ContextScopes` |
| containers | `MCContainers` | 54 183 | the two maps, the queue and the trie of tuples implement their copied-at-push abstractions; ring, trash, counters, marks and flags stay exact; blocks of memory are disjoint, chunks in one place |
| terms | `MCTerms` | 1 040 026 | equal is congruent, the theory is told what holds and explanations suffice, whatever was undone in between; references are alive and counts exact |
| sat_solver | `MCSatSolver` | 655 746 | every clause is entailed at its level, variables outlive their uses but for a lemma that a solve left when it gave up, no conflict is missed, reasons are acyclic, answers are right, and a solve ends |
| sat_solver_time_limit | `MCSatSolver`, `MCSatSolverTimeLimit.cfg` | (violation) | section 5 |
| smt_engine | `MCSmtEngine` | 90 731 | no assertion fails, the levels of three stacks agree, the SAT solver holds the stack, the model is of the stack, and the engine implements `AssertionStack` |
| instantiate | `MCInstantiate` | 358 667 | a recorded tuple has its lemma unless a round was interrupted; failure masks are sound |
| instantiate_time_limit | `MCInstantiate`, `MCInstantiateTimeLimit.cfg` | (violation) | section 5 |
| inst_strategy_enum | `MCInstStrategyEnum` | 546 271 | tuples come in the promised order, none is lost, none comes back, and the loops end |
| inst_strategy_pool | `MCInstStrategyEnum`, `MCInstStrategyPool.cfg` | (violation) | section 5 |
| smt_engine_unsat_mode | `MCSmtEngine`, `MCSmtEngineUnsat.cfg` | (violation) | section 5 |
| smt_engine_refused_reset | `MCSmtEngine`, `MCSmtEngineReset.cfg` | (violation) | section 5 |

### Bounds, and why they are enough

*Context.* The first state of `MCContextScopes` picks the level of detail. Versions: two
objects, two values and levels 0 to 3. With three levels above the bottom an object can
have been saved at the first, skipped at the second and written at the third, which is
what the newest-older-version property needs. Heap: two objects with two values and
levels up to 2, or three objects with one value and levels up to 1, since a list needs
three for one in the middle and its links do not depend on the data; three saved copies.
`MaxLevel`, `MaxHeapLevel` and `MaxCells` are guards of `Push` and of the allocation;
the code has no such limit.

*Containers.* Three keys (for the ring) and two data, two levels for the maps and the
trie, three for the queue; an array of four for the queue; pairs of two values as the
tuples of the trie (`Arity` is 2). Memory has chunks of three units, blocks of one to three, five
addresses for chunks, a free list of at most one: blocks that fill a chunk exactly, that
do not fit, and a pop that frees more chunks than the free list keeps all occur. `MaxDepth`
bounds the pushes, `MaxData` the live blocks.

*Terms.* `MCSetups` has five small sets of terms for the equality engine, each for
one thing: congruence with two constants, predicates, curried applications, and the
two ways in which a disequality is found; with up to six calls, among them up to two
pushes. The manager has two handles, counts that stick at 4 (2^20 - 1 in the code), a
reclamation for more than one zombie (5000), up to four ids and five calls; dropping a
handle and the destructor are not counted. So a count can stick, a zombie be found
again, and a reclamation be caused inside of another. Deadlock is not checked,
since the calls run out.

*SAT solver.* Eight setups over four variables and up to three user levels (`MaxLevel` is
2), each for one thing (`MCSatSolver` lists them), with up to two solves and one restart;
the theory is one clause of three literals. Two variables and their four clauses suffice
for a learnt unit and a refutation; three for a reason that is asked for late. `GivenUp` has
one lemma that the registration at a restart may queue, the solve that gives up with it, a
pop that removes its variables and a clause that makes the solver look at it. The second
level above the bottom is what it takes to be refuted at the top, pop, and go on at a
level that is not the bottom: the lemma that refuted the top is then still there, false at
decision level zero, and propagation does not look at it again. The theory does, which is
why `NoConflictIsMissed` excepts a clause only if a clause of the theory is false without
any decision.

*Instances.* Two variables, three terms, of which one is not eligible, and bodies that
rewrite to the same lemma for several tuples, to one in which a variable does not
occur, and to true; levels 0 to 2. A recorded tuple may be popped and recorded again
at another level, and up to two lemmas are left by interruptions.

*Engine.* Two formulas that contradict each other and one recursive definition that
contradicts one of them. `MaxFrames` bounds the nested pushes and the global
definitions together: two frames, or one and a definition. With the level of the
assumptions on top and the bottom one there are up to four levels. `MaxLevels` bounds
the levels that refused checks leave behind. The run of section 5 has a budget of three in
total, of which a check may spend one or two. Formulas are sets, so that a formula
asserted twice in a frame counts once.

*Enumeration.* Up to three variables and four terms; all digits alike, different
ranges, a variable with one term and with none, with and without full effort; every
mask at every failure; for the search by scores every order of predictions 0 to 2
with ties. Deadlock is not checked here, since `process()` returns, nor where a run
stops at a failed assertion or with its levels used up.

### Fairness

`ContextHeap` assumes weak fairness of `RestoreNext` and `ReleaseMemory` only: the
pop is a function that runs to its end, while the user of a context may never call
again. `InstStrategyEnum` assumes weak fairness of its whole next-state relation:
`process()` is a sequential loop, and the environment (which instances fail, and
with which mask) is a choice inside of its steps. Nothing is assumed to succeed.
`SatSolver` assumes weak fairness of `Step`, the steps of a running call, and not of
the user's calls: the budget never has to run out, and restarts are bounded by the
setup, since the code lengthens the interval between them. `SolveEnds` is about every
solve, and every `addClause_` but one that meets a lemma of removed variables. The other specifications
state safety only.


## 4. What is proved

### The context layer

`ContextScopesProofs` proves, for any sets of objects and values and any bound on the
level:

* `TypeCorrect`, `RestoreChainCorrect`, `LiveIsNewestCorrect`:
  `Spec => []TypeOK`, `[]RestoreChain`, `[]LiveIsNewest`;
* `InvariantCorrect`: the inductive invariant `IInv` under them;
* `Implements`: `Spec => ImplementsSnapshots`, the refinement.

The assumptions are those of `ContextScopes`: the default is a value
(`DefaultAssumption`), the mark of absence is none (`AbsentAssumption`), and the
bound is a natural number (`MaxLevelAssumption`). TLC evaluates them in every run of
the module.

The argument. `RestoreChain` says that the version of an object in scope `s` points
to the next older scope that has one, and that there is none in between. A pop of
scope `s` makes that scope the live one, so `LiveIsNewest` is preserved because of
`RestoreChain`; a write in a scope where the object is not current adds a version on
top with the old live scope as its restore scope, so `RestoreChain` is preserved
because of `LiveIsNewest`. Neither is inductive alone, which is why the invariant is
their conjunction with the types. The fourth conjunct, `Visibility`, says that the
newest version at or below a level, where there is one, exists as a maximum; over an
unbounded range of levels that would need an induction, and stating it as an
invariant turns it into a case distinction for each action.

For the refinement, the lemmas `Latest...` say how the value that a level sees follows
from the versions: it depends on the versions up to that level only, it is the data of
the unique version that is visible, and it is absent if there is none. With
them `Set` changes what the current level sees and no level below, because the old
version stays, as a saved copy, in the scope it was in; `Pop` leaves what each level
below sees as it was. Each action implies the action of `ContextSnapshots` with the
same name, or leaves the snapshots unchanged.

### The heap of the context layer

`ContextHeapProofs` proves, of the specification `MCSpec` that the run `context_scopes`
checks, for any finite set of objects, any values and any bounds on the scopes and the
saved copies:

* `HeapInvCorrect`: `MCSpec => []HeapInv`, and from it `NoDanglingPointerCorrect` and
  `ListsWellFormedCorrect`;
* `ImplementsScopesCorrect`: `MCSpec => ImplementsScopes`, the refinement of `ContextScopes`;
* `AnyHeapCorrect`: all of that for `Spec` of `ContextHeap`, without what `MCSpec`
  leaves out to keep the run small (three objects with two values on two scopes).

`HeapBounds` is what it assumes beyond `ContextScopes`: the bounds are natural numbers, the
objects are finitely many, and objects, the null pointer, and the numbers that stand for
scopes and saved copies have nothing in common. In the code these are addresses of
distinct memory: a saved copy comes from the region, a scope from the region too but in a
block of its own, an object from its owner, and none of them is at address zero.

The invariant. What the code never stores is whose version a saved copy is, and how far a
node is from the end of its list; both are existentially quantified in `HeapInv`. `own`
gives each node its owner or none; `rk` a rank, at most `B`, that goes down along a list.
`Owned` says that an object owns itself, has at most one version in a scope, and is newer
than its copies. `Saved` says that restore pointers lead to older versions of the same
owner, in the region of the scope that saved them (between its entry in `freeStack` and the
next one), and that every copy is led to. `Lists` says that the versions of a scope are one
list without cycles: each link stays in the scope and goes down in rank, each back
link is the inverse of a link, and one node only is headed by the scope (`Chain`). While a
pop runs, the list of the scope that goes has lost its head, so that the back link of its
first node is left over from an object that has moved or died; it is then any address of a
scope or object (`Unlinked`), and the two counters `heapLevel` and `Top` differ by one.

None of the run's properties is inductive: that no pointer dangles needs the regions, since
it is `ReleaseMemory` that frees them; the regions need that restore pointers go to older
scopes; and that an iteration of the pop restores the right object needs that the copy is in
a list, with a back link that can be followed, and is not in the list being taken down.

The steps. A lemma for each pointer operation (`LinkFields`, `UpdateFields`,
`RestoreFields`, `UnlinkFields`) says what it does to each field, and lemmas on `Chain`
what taking out, adding, replacing and cutting a node does to a list, so that
each action is a combination: a write is `UpdateStep`, the copy in the place of the object
and the object in front of the list of the top scope; an iteration of the pop is
`UnwindToCopy` if the object has a copy, whose place it takes back, and `UnwindToNone` if it
has none. `DestroyStep` is an induction over the rounds of `destroy()`, each
of which takes the object down by at least one scope, so that the bound on the rounds in the
model is enough. `ReleaseStep` shows that at the end of a pop no version lies in the
memory released, as the list of its scope is empty and the region is that scope's alone.

The refinement. `VersionTable`, `ScopeTable` and `RestoreTable` are what the mapping
of `ContextHeap` substitutes, and `Represents` says that a table holds, for each scope and
object, the data and the restore scope of the version owned there. A table is
determined by that (`ViewsAreUnique`), so each operation is proved once on the owners and
once on the tables. The first step of a pop is the `Pop` of `ContextScopes`, as the versions
of the scope that goes stop to count when `heapLevel` drops; the iterations and the release
change no version at a level that is left, and are stutters.

### The containers together, the memory and the hash map

`ContainersProofs` also proves, of the specification `MCSpec` that the run `containers`
checks, for any keys, values and chunks, any size of a chunk and any bounds:

* `ContainersInvCorrect`: `MCSpec => []ContainersInv`, and from it
  `BlocksStayApartCorrect`, `MapHoldsItsEntriesCorrect` and `TypesCorrect`;
* `ImplementsMapCorrect`: `MCSpec => ImplementsMap`, that each of the two maps and the trie
  is a map that is copied at each push, and that an insertion is one into that map.

`ContainersAssumption` is what it assumes beyond `BoundsAssumption`: the bounds are natural
numbers, a chunk is not empty, null is not a key, and the mark of absence is not an entry.
`ContainersInv` has a part for each container, and a step of one of them leaves the others
alone; for the insert-only map the part is the invariant of `CDInsertHashMapProofs`, for
the trie it is `TrieInv`, below.

The memory. That live blocks do not overlap needs to know where the next block goes, and
that is what a pop takes back to a saved position. `MemoryInv` says of each saved position
that the blocks of the levels below it lie before it, in the chunks before its own or in its
own below its offset (`Bounds`, `Behind`), and that saved positions do not go back. So
the blocks that a pop leaves are all before the position that it restores. A chunk is
in one place (`Distinct`), which a pop keeps because it moves a tail of the list of
chunks in use to the free list and drops the oldest of those (`FreedChunks`).

The hash map. An entry is an object of the context, so `EntriesInv` contains the invariant
of `ContextScopesProofs` for the entries, whose steps are lemmas there (`SetKeeps`,
`NewKeeps`, `PopKeeps`, ...). On top of it `EntryShape` says that a version
above the bottom scope is always of an entry in the map, since the constructor is the only
one that writes a null `d_map`, and in the bottom scope. From this it follows which
entries a pop drops: those whose saved copy is that of the constructor, all of which
were in the table and none of which has an older version left to restore; and that an entry
in the trash is in the bottom scope, so that its destructor restores nothing.

The ring. `Chained` says that the order of insertion, a history variable, is a strict total
order of the keys of the table (`Orders`), that `d_first` is its least element and that
`d_next` leads to the next in that order or from the last to the first, with `d_prev` its
inverse. `LinkedKeeps` and `UnlinkedKeeps` show this of one insertion and one removal. A pop
removes a set of entries in any order: that each prefix of it leaves a ring of the rest is
an induction over the position in the order (`UnlinkedAllKeeps`), again from `Least`.

The refinement. `Seen(i)` is what level i sees of each entry: the newest version at or below
it, in the sense of `ContextScopes`, whose lemmas (`LatestNewest`, `LatestSame`, ...) say
which one that is after each step. `EntriesOf` keeps those whose `d_map` is set. An
insertion writes the current level; the levels below see the constructor's version, which
is not in the map, and saw nothing before (`InsertNewImplements`). An insertion at level zero
writes the only version, which all levels see, and they had none since the key was not
in the table (`LevelZeroImplements`). A pop leaves alone what the levels below see
(`PopScopeImplements`), and the collection of the trash is a stutter, since an entry in it
has one version, which no level counts (`CollectStutters`). The insert-only map is an
instance of its module here and in the module of its proofs, so that the theorem carries
the results over name by name (`InsertMapPromises`).

### The queue

`ContainersProofs` proves, for any set of elements and any bounds on the levels and the
length of the array:

* `QueueInvCorrect`: `Spec => []IInv`, the types together with `SavedElementsKept`;
* `SavedElementsCorrect`: `Spec => []SavedElementsKept`, no element that a saved copy
  refers to has been destroyed;
* `ImplementsQueueCorrect`: `Spec => ImplementsQueue`, the refinement.

The assumption is `BoundsAssumption`: both bounds are natural numbers.

The argument. That every saved size is at most `d_lastsave` is not inductive: a pop
takes the mark back to the one that was saved, of which nothing is known yet. The
invariant therefore describes the copies as a chain: scopes grow and sizes do not
shrink along it, each copy has as its mark the size of the one before, and the live
mark is the size of the last. `makeCurrent` followed by `save` adds a link
(`MakeCurrentKeeps`), a pop takes one off (`PopKeeps`), and the early truncation stops
at the mark, so at or above every saved size.

For the refinement, the queue at a level is a slice of the shared array, described by
the live indices or by the copy that a pop to that level will restore. That there is
such a copy is kept as an invariant of its own (`Restorable`), which spares an
induction along the chain; that there is only one follows from the growing scopes
(`ChosenCopy`). `LevelsBelow` shows that an operation leaves the indices of all levels
below the current one as they were, and that those end at or below the new mark; so
neither an appended element nor a truncation touches their slices (`SliceKept`).
`PopImplements` shows that each level that remains finds in the indices that come
back what it saw in the copy before.

### The counters of the insert-only map

`CDInsertHashMapProofs` proves, for any keys and data and any natural bound on the
levels (an assumption of the theorems, not of the module): `CountersCorrect`
(`Spec => []CountersAgree`), from `InvariantCorrect`; `Implements` (`Spec => ImplementsMap`) and
`InsertionsCorrect` (`Spec => InsertionsCorrespond`). These are conjuncts of
`MapHoldsItsEntries` and `ImplementsMap` in the run `containers`, and `ContainersProofs` takes
them from here.

The argument. The saved copies and the map after them are a chain in which the scope, the
insertions at level zero and the other insertions all grow (`Grows`, `After`). An
insertion at either end makes only the last link longer, or adds one
(`InsertionKeeps`). A restore takes the last copy and adds the insertions at level zero
since; that this is no more than the keys there are is the last link, and that it is
no less than the keys at the front is `CopiesCount`, which the chain does not say. That
a pop of the map's scope finds a copy at all is `CopiesCount` too: only the oldest copy
is of the bottom scope.

The refinement needs what a level below the map's scope will get back: the number of keys
in the last copy of a scope at or below it, and the insertions at level zero since.
`Restorable` says that each such level has a copy whose scope it includes while the scope
after it is above the level, and `Ordered` that `Grows` holds of any two copies, not only of
neighbours, so that it is one copy and what is read from it is within the keys
(`ChosenCopy`, `SizesAreInRange`).
An insertion at the back is then beyond what the levels below see, and one at the front
shifts the keys by as much as it adds to their number (`EntriesOfKeys`).

### The trie of tuples

`ContainersProofs` proves of the trie, for any terms, any number of variables (`Arity`, two
in the run) and any bound on the levels: `TrieInvariantCorrect` (`Spec => []TrieInv` of the
module `CDInstMatchTrie`), `TrieImplements` (`Spec => ImplementsMap`) and
`TrieAdditionsCorrect` (`Spec => AdditionsCorrespond`). It assumes that arity and bound are
natural numbers.

The argument. Whether a tuple is in the trie depends on all flags along its path, and
one call sets several of them. `ParentsOutlive` reduces the path to the last flag: no
tuple outlives a node above it. It needs `FlagsAreOpen`, that no flag is set at a level
above the current one, only for the push; and it is inductive because a call that
makes a node valid again at level `l` found it invalid, so that the tuples below it, whose
flags are no older, are invalid too and stay so. With it (`MatchOfLeaf`) an
addition changes the view of the current level by one tuple and of the levels below
by none (`AddImplements`).

### The caches of instances

`InstantiateProofs` proves `InstSpec => []LostOnlyByInterruption` and
`InstSpec => []MasksAreSound`, for any formula, terms, rewriting, entailments and
levels. It assumes `TrieAssumption`, `BodyAssumption` (every tuple has a lemma) and, for
the masks, `RewritingAssumption`: where the body rewrites to something without
variables under a part of a substitution, it rewrites to the same under the whole. The
code relies on it when it takes the equality of two rewritten bodies for the reason of a
failure.

The argument. That a recorded tuple's lemma was sent is not inductive: a pop may take
the lemma and leave the tuple. The invariant says *when*: the lemma was sent at a
level no deeper than the one at which the tuple was recorded, or the tuple was
recorded at this level in this round and the lemma still waits (`Kept`). Between
rounds the buffer holds nothing but what an interruption left
(`BufferIsOfTheRound`), and pushes and pops happen between rounds. This is where the
interruption enters: without it the disjunct with `left` would never be needed.

The mask of a failure is computed by a loop, here a recursive function over the
positions. The module proves that the recursion has a solution and that its result
explains the failure (`MaskExplains`: all positions are critical, or the critical ones
are enough for the same body or for entailment). That the tuple itself brings nothing
is where the caches come in: a tuple that is refused as a duplicate is recorded, so
its lemma is where `LostOnlyByInterruption` says.

### The engine

`SmtEngineProofs` proves, for any formulas, inconsistent sets, settings and bounds
(`SmtEngineAssumption` is all it assumes):

* `Invariant`: `Spec => []IInv`, and from it `TypeCorrect`, `LevelsAgreeCorrect`,
  `SatHoldsTheStackCorrect`, `ModelIsOfTheStackCorrect`: with resource limits and
  without;
* `OnlyTheResetFails`: the only `Assert` that can ever fail is the one at the end of
  `notifyResetAssertions` (that it does is the finding `smt_engine_refused_reset`);
* `NoAssertFailsCorrect` and `ImplementsStackCorrect`: with no resource limit
  (`NoLimits`) no `Assert` fails, and the engine implements `AssertionStack`. With a
  limit both are false, as section 5 shows: a refused check leaves a level behind.

The argument. An engine is either not used yet (`Fresh`) or `Good`. `Levels` says
that the assertion list and the levels of the SAT solver are as many, the context is
higher by the decisions, one pop at most is pending, and the frames start at
increasing levels below it. `Holds` relates the list with the SAT solver level by
level: a level lacks only what waits in the buffer, and a level that is shut is
inconsistent with the ones below, so that all above it are shut too. The last part is
what makes a pop sound: the levels that it leaves do not depend on what it removes. For
each function of the source a lemma says which fields it changes, and one that it
keeps `Good`; the calls compose them, as the code does.

What the user sees needs one invariant more: that a frame is exactly one level
(`Even`), which holds until a check is refused. From there the refinement is
`Moves`: each call does to `FramesOf` what the call of the same name does to the stack
of `AssertionStack`.

`UserPops` is a loop in the code and a recursive function here; its unfolding and the
induction on its counter are lemmas of the module (`Least` is the least-number
principle, from the well-foundedness of finite subsets).

### The SAT solver

`SatSolverProofs` proves, for any atoms, theory, setups and number of levels
(`SatSolverAssumption`: a finite set of positive integers for atoms, a constant
that is none of them, clauses over their literals):

* `InvariantHolds`: `Spec => []IInv`, and from it `TypeCorrect`,
  `EntailedAtItsLevelCorrect`, `VariablesOutliveCorrect` and
  `ReasonsAreAcyclicCorrect`;
* `RefutationsAreSoundCorrect`: "unsat" is answered, and `ok` is cleared, only when
  nothing satisfies the theory and the clauses of all open levels. This is one half of
  `ImplementsOracle`.

The argument. `Ent(s, n, c)` says that `c` follows from the theory and the first
`n + 1` levels of the stack `s`; it can only become easier as `n` grows, and a pop
of a level above `n` does not change it. That a clause is entailed at the level it
carries is not inductive by itself, since clauses are made from the trail while
others come and go. So the invariant has a part for each place a clause can come
from:

* `Db` and `Queue`: a clause of the arena is entailed at its level and its variables
  exist there; a lemma in the queue is valid in the theory, and its variables exist
  unless it dangles.
* `LeftByGivingUp`, which is proved from the rest: a lemma is in the queue between calls,
  or dangles, only after a solve that gave up. With `Queue` and `Protocol` (nothing but the
  start of a propagation meets a lemma that dangles) this is what
  `VariablesOutliveCorrect` says of lemmas.
* `Shape`, `Known`, `Valued`: the trail has each variable once, with decision levels
  and user levels that grow together; what is above decision level zero has the
  current user level, and what is at level zero is entailed at its user level. The
  last is what `Level` relies on when analysis drops a literal of level zero and
  raises the level of the resolvent in its stead.
* `Reasons`: the reason of a literal has it in front and its other literals false
  *before* it on the trail. Resolving and minimising end for this reason: the literals of
  the resolvent are explained in the order of the trail.
* `ReadyQueue`: `updateLemmas` sorts its lemmas first, then backtracks, and attaches
  them one by one while those attached before may assign literals. `Ready` says
  what the sort has to have achieved when a lemma's turn comes: if its second literal
  was false at the end of the backtracking (`bound`), then the rest is false below it,
  and the first literal, if false, is at the current decision level. Without `bound`
  this is not inductive, and it is why the code compares positions with it.
* `Conflict`, `Resolvent`: a conflict is false, with a literal at the current
  decision level; what is left of it while it is resolved is false above the bottom
  and entailed at `maxlevel`.
* `Protocol`, `Pending`: where a call may stand, and that everything not propagated
  yet is at the current decision level, so that a clause found false has a literal
  there.
* `Verdicts`: `ok`, the saved `trailOk` of each level, and an answer "unsat" are
  refutations of the levels that they are kept for.

Each action has a lemma that says that it keeps `IInv`. Minimisation needs the most:
`Implied` is a function defined by recursion along the reasons. That the recursion has
a solution is proved by induction over the trail, and that the literals it drops are
implied by the ones it keeps by taking the first on the trail that would not be.

`SatSolverAnswerProofs` is about the other direction, that nothing is missed, and about
both together:

* `PropagationIsComplete`: `Spec => []CInv`, and from it `NoConflictIsMissedCorrect`:
  when propagation has returned without a conflict, a clause of the arena is false only
  if a clause of the theory is false at decision level zero;
* `AnswersAreCovered`: `Spec => [](AInv /\ Quiet)`, no clause of the user is lost on a
  level that is not refuted;
* `ImplementsOracleCorrect`: `Spec => ImplementsOracle`, the refinement: "unsat" is
  answered only if nothing satisfies the theory and the clauses, "sat" only with
  something that does; and `SatIsConsistentCorrect`, the model satisfies every clause.

All assume `~Resumable`, an engine that searches no more once its budget has run
out. Clauses, pushes and pops may still come, and `addClause_` then propagates over what it
finds in the queue: from then on `CInv` asks less of the pointer and the queue
(`SpentAnswers`). Without the assumption they do not hold: a search that is interrupted in a conflict at the top
forgets it, and the run `sat_solver_time_limit` shows the wrong answer that this may
lead to (section 5). The refinement assumes too that the theory is complete by its
clauses (`TheoryIsComplete` of `IncrementalSolver`): a consistent set of literals that
falsifies none of them has a model. It is what the solver takes the theory's silence at a
full check to mean. `MCSatSolver` has it as an `ASSUME`, which TLC evaluates.

The argument is the invariant of the two watches. `Visited` is the set of positions of
the trail that a clause has been propagated for: those before `qhead`, without the one at
work as long as the clause is in `todo`, and without the top of the trail once a conflict
there has been found, because the rest of that level is then never walked. `Watched` says
that if both watches of a clause are false at positions visited, then a literal of the
clause is true at a decision level and a user level that are not above those of one of the
two (`Saved`). So a backjump, or a pop, that takes the true literal away takes one of the
two watches with it (`Keeps`, `SeenCut`); a literal that is merely true somewhere, which is
all that a blocker has to be, would not do. Three things break this in the code
as it is, and each has its clause in the invariant:

* A lemma may be attached when both of its watches are false and visited. Then either
  it is the conflict, on the level that is about to go (`AttachedFalse`), or all is at
  decision level zero, and the solver becomes inconsistent and later, after a pop,
  consistent again with the lemma still false. Such a lemma is what is left of a clause
  of the theory (`Rooted`, `FromTheory`) and false in its watches last (`Down`).
* Once `ok` is false nothing is propagated, and `qhead` may lie anywhere. What a pop
  relies on is `Restorable`: every clause that it keeps has been propagated for everything
  on the trail that it keeps. That it holds when `ok` becomes false rests on `Pointer`:
  what was not propagated by then is of the current user level.
* `addClause` puts in front a literal that is not false, if there is one
  (`FrontNotFalse`), so that a clause whose watches are both false is false.

That a clause of the user is not lost is `Cover`: it is a tautology over variables that
are there, or has a literal that is true without a decision on a user level up to its
own, or contains a clause of the arena that is not removable and has its level.
`addClause` drops literals that are false at level zero, `Simplify` deletes clauses that
are true there, and a pop takes variables, units and clauses away: each of them keeps
the three alternatives for the levels that remain (the lemmas `...Covers`). When a full
check has nothing to check again (`Checked`), no clause of the theory is false, so by
`CInv` no clause of the arena is (`FalseByTheory`), and the trail, where all is
assigned, satisfies the clauses of the user.

What stays with TLC of the SAT solver is `SolveEnds`, which is liveness.


## 5. Where the code and what is said of it differ

Each of these is a run whose property is what the source says of itself and whose
counterexample is what the code does.

* *An interrupted round loses instances.* `addInstantiation` records a tuple in the
  user context at once and buffers its lemma until the end of the round. A limit ends a
  round by an exception at the next safe point (`instantiate.cpp:104`), the check answers
  unknown, and the buffer stays. `quantifiers_engine.cpp:226` means to "flush previous
  lemmas (for instance, if was interrupted)", but the next check-sat has cleared them in
  `presolve` (`:116`). Its tuples are still recorded, so they are refused as duplicates
  for as long as the user level lasts. If a quantified formula is asserted first,
  the lemmas are flushed, perhaps at a deeper level whose pop takes them away again.
  Run `instantiate_time_limit`, which needs five steps.
* *A budget that runs out as the search ends in unsat.* `solve_` asks the budget once
  more after the search (`Solver.cc:1941`); if it is spent then the answer is unknown
  and `ok` stays true, although the conflict was taken off the propagation queue. The
  next solve of the same clauses answers sat. Run `sat_solver_time_limit`.
* *A refused check-sat-assuming leaks its level.* `SmtSolver::checkSatisfiability`
  initialises the assertions, which pushes a level for the assumptions, then asks
  whether the resources are spent and, if so, returns (`smt_solver.cpp:156-162`)
  without `notifyCheckSatResult`, which would pop it. The next `reset-assertions`
  pops the user's frames only and fails its assertion that one level is left
  (`smt_engine_state.cpp:57`). Run `smt_engine_refused_reset`.
* *Mode UNSAT survives reset-assertions.* `smt_mode.h:40` has UNSAT as the mode
  "immediately after a check-sat returning unsat". `resetAssertions` leaves it, so that
  a `get-unsat-core` is let through to a new, empty `PropEngine`. Run
  `smt_engine_unsat_mode`.
* *failureReason is not optional.* The interface says that it is. But `find` leaves in
  `d_changePrefix` the depth at which it gave up, and a client that goes on without a
  report skips tuples. Run `inst_strategy_pool`. (The enumerator for pools that such
  a client would ask for, `mkTermTupleEnumeratorPool`, is called but defined
  nowhere in the tree, and none of the code that is there depends on it.)

Smaller observations, which no property is about:

* the limit of resources per call counts what is spent between checks as well, since
  `checkSatisfiability` asks `d_rm->out()` before `beginCall()` sets the counter back;
  so a refusal is final even without a cumulative limit;
* the search by scores offers its first tuple twice, as `BestFirst` says, and without
  a predictor for terms it has no producer of terms (`term_tuple_enumerator_ml.cpp:290`);
  `d_stepCounter` has 32 bits and takes the step after its overflow for the first
  (`term_tuple_enumerator.cpp:278`);
* a failure mask says that "all instantiations including { x -> 4 } will also lead to
  this method returning false" (`instantiate.h:177`). That is not so if the tuple failed
  for a term that is not eligible and the formula rewrites to one in which the
  position of that term does not occur: the mask blames another position.
  `MasksAreSound` excludes such terms. Also, a tuple that shares the lemma of one in
  the buffer is added once more, which is harmless;
* duplicates modulo equality: `inst_match_trie.cpp:77` and `:249` ask a nested call in
  the mode "only exists" and take its true for found, while in that mode it means not
  found. No caller asks for it. `removeInstantiationInternal` has no caller either;
* a lemma that `cancelUntil` causes at the restart of a solve that gives up
  (`Solver.cc:1795`) stays in the queue. `pop` (`Solver.cc:2131`) removes variables and
  does not clear the queue, and `updateLemmas` in a later `addClause_` then reads the
  values of variables that are gone. No comment or assertion says that it cannot be, so
  this is no run of its own; `VariablesOutliveTheirUses` says exactly when it can be;
* `Solver.cc:401` compares the level of `var(x) == 0` where it means the level of the
  variable, without a consequence that the model shows;
* `operator=` of a counted node from a child of the old term asserts that the child's
  count is positive (`node.h:1125`), which a reclamation caused by the line before may
  make false. The child is not freed, since it is a zombie of a later round;
* in the equality engine, to add the left side of an equation may find two constants
  equal and end all work; to add the right side then returns at once, and
  `getNodeId` (`equality_engine.cpp:430`) does not find it. This needs a constant with
  arguments, which the runs do not have;
* a callback of `pop` that writes another backtrackable object (`context.cpp:78`), and
  an iterator kept over a pop that deletes its element (`cdhashmap.h:398`), are left to
  the callers by the context layer and are not modelled.


## 6. What is only model-checked, and what is not modelled

Model-checked only: that a pop of the heap ends, that a solve of the SAT solver ends, the
equality engine, the node manager and the enumerators.

Liveness under fairness is out of the prover's reach. Induction over the natural
numbers is not: the proofs get it from `Least`, and unfold recursive functions with
it (`UserPops`, `Implied`, `UnlinkedAll`). Induction over data is, where a tree or a proof of
unbounded shape is the argument: that `FindRec` on the tree finds what `Find` on the
patterns does, or that an explanation of the equality engine suffices.
`IndexTrieNodes` uses recursive operators and is for TLC alone.

Not modelled, beyond what section 7 plans:

* in the context layer, the debug allocator and the lists of notify objects (called
  by `pop`; the code behind them belongs to their owners), iterators of the maps,
  `cdtrail_queue.h`;
* in the engine, options, `define-fun` (a substitution, not an assertion), SyGuS,
  quantifier elimination, `block-model`, exceptions inside a check, and dumping;
* in the SAT solver, the mode for a single query and its preprocessor, solving under
  assumptions of the SAT solver, `sat_refine_conflicts`, activities (any order of
  decisions), the decision engine, proofs;
* in the equality engine, trigger terms with their tags, interpreted functions,
  constants with arguments, the master engine, proofs, callbacks that call back: the
  theory may refuse a notification and is told nothing more, as in the code;
* in the node manager, attributes of other types and their deletion, listeners, types
  and skolems;
* of the quantifiers, the lists of instances for the user, proofs, representatives, the
  trie of a single query, the order of modules and effort levels, models, and the
  strategies other than enumeration and pools;
* in enumeration, how the terms of a variable come about, the randomisation of their
  order, the option `tcp` that limits them, predictors for whole tuples, logging;
* the clock (an expired time limit acts like a spent budget), parsing, printing, the API,
  process set-up, rewriting, preprocessing and proofs, which are functions on terms or
  input and output; decision procedures of the theories and SyGuS, whose correctness
  is a matter of mathematics rather than of protocol.


## 7. Plan

In this order, each with its abstract specification first where one is worth
stating:

1. done: the context layer, the allocator, the containers, the protocol of the engine,
   the enumerators, the SAT solver, the equality engine, the node manager, the caches
   of instances; the proofs of section 4.
2. `TheoryEngine`: effort levels, the loop over the theories until nothing is asserted,
   conflicts, shared terms and the sat mode; `needCheck` and what an interruption leaves.
3. The order of modules and effort levels in `QuantifiersEngine::check`, the phases of
   `QuantifierLogger`, the rounds of `loop.py`.
4. The justification heuristic, the symbol table with its own context, the signal
   handlers of `main/`.

Compositions: `SmtEngine` over `SatSolver` by refinement (both have the clauses by level
and `ok`; the oracle of the former is the `IncrementalSolver` of the latter),
`InstStrategyEnum` with the masks of `Instantiate` in the place of arbitrary ones.

Theorems worth proving next: that the counts of the node manager are its references, and
that what the equality engine holds equal is a congruence.
