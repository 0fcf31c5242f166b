------------------------------ MODULE SatSolver ------------------------------
(***************************************************************************)
(* The CDCL(T) solver of prop/minisat/core/Solver.cc with its user levels: *)
(* clauses and lemmas of a level, the trail, watched literals, propagation *)
(* and lazily explained theory literals, conflict analysis, search, push   *)
(* and pop.  Theory engine, decision heuristics and resource manager are   *)
(* the environment: they choose.                                           *)
(*                                                                         *)
(* A literal is a non-zero integer and ~l is -l.  A clause keeps its two   *)
(* watched literals in order (ca[cr][0], ca[cr][1]) and the others as a    *)
(* set, so watches[p] is the set of clauses that watch -p.                 *)
(***************************************************************************)
EXTENDS Integers, FiniteSets, Sequences

CONSTANTS
  Atoms,              \* the variables that clauses are about
  VarTrue,            \* the variable of the constant true
  Theory,             \* valid clauses of the theory: its lemmas and explanations
  Resumable,          \* whether solve may be called again after a budget ran out
  MaxLevel,           \* bound on the user levels
  Setups              \* an option, the clauses that the user may assert at each
                      \* level, and the bounds on the calls of a behaviour

ASSUME SatSolverAssumption ==
  LET Clauses == SUBSET (Atoms \cup {-a : a \in Atoms})
  IN  /\ IsFiniteSet(Atoms) /\ Atoms \subseteq Nat \ {0}
      /\ VarTrue \in (Nat \ {0}) \ Atoms
      /\ Theory \subseteq Clauses
      /\ Resumable \in BOOLEAN /\ MaxLevel \in Nat
      /\ Setups \subseteq [cores : BOOLEAN, user : [0..MaxLevel -> SUBSET Clauses],
                           inputs : Nat, solves : Nat, lemmas : Nat, restarts : Nat]

VARIABLES
  clauses,        \* the arena: CRef -> clause, over the allocated references
  trail,          \* assigned literals with the VarData of their variables
  qhead,          \* number of trail entries already propagated
  intro,          \* d_intro_level of a variable, -1 while it does not exist
  assertionLevel, \* number of user pushes
  ok, trailOk,    \* ok and trail_ok
  lemmas,         \* the lemmas queued while the solver is busy
  pc,             \* where the running call stands, "idle" between calls
  at,             \* locals of the running call, see Locals
  answer, model,  \* what the last solve returned, until the next call
  inputs,         \* the user's clauses per user level (history)
  cores,          \* assertionLevelOnly(): an option, proofs or unsat cores are on
  left,           \* what is left of the behaviour's bounds
  spent           \* a solve has run out of its budget (history)

vars == <<cores, clauses, trail, qhead, intro, assertionLevel, ok, trailOk, lemmas,
          pc, at, answer, model, inputs, left, spent>>

Undef == 0        \* CRef_Undef: no reason, no conflict
Lazy == -1        \* CRef_Lazy: explained by the theory on demand

Literals == Atoms \cup {-a : a \in Atoms} \cup {VarTrue, -VarTrue}
Var(l) == IF l < 0 THEN -l ELSE l
MaxOf(S) == CHOOSE x \in S : \A y \in S : y <= x
MinOf(S) == CHOOSE x \in S : \A y \in S : x <= y

-----------------------------------------------------------------------------
(* The trail: values, decision levels, user levels.                        *)

\* The position of the variable of l on the trail t (trail_index), 0 if unassigned.
At(t, l) ==
  IF \E i \in DOMAIN t : Var(t[i].lit) = Var(l)
    THEN CHOOSE i \in DOMAIN t : Var(t[i].lit) = Var(l) ELSE 0
IsUndef(t, l) == At(t, l) = 0
IsTrue(t, l) == \E i \in DOMAIN t : t[i].lit = l
IsFalse(t, l) == IsTrue(t, -l)
LevelOf(t, l) == t[At(t, l)].level
UserLevelOf(t, l) == t[At(t, l)].ulevel
DecisionLevel(t) == t[Len(t)].level

\* uncheckedEnqueue(l, from), at decision level d.
Enqueue(t, l, from, d) ==
  Append(t, [lit |-> l, reason |-> from, level |-> d, ulevel |-> assertionLevel])

\* cancelUntil(d): the trail that is left.
CancelUntil(t, d) ==
  SubSeq(t, 1, CHOOSE n \in DOMAIN t : /\ t[n].level <= d
                                       /\ n < Len(t) => t[n + 1].level > d)

-----------------------------------------------------------------------------
(* Clauses.                                                                *)

Lits(c) == {c.w[1], c.w[2]} \cup c.rest

\* lemma_lt: unassigned first, then true, then false, the latest first.
Precedes(t, x, y) ==
  LET kind(l) == IF IsUndef(t, l) THEN 0 ELSE IF IsTrue(t, l) THEN 1 ELSE 2
  IN  \/ kind(x) < kind(y)
      \/ kind(x) = kind(y) /\ kind(x) = 0 /\ x < y
      \/ kind(x) = kind(y) /\ kind(x) > 0 /\ At(t, x) > At(t, y)
FirstOf(t, S) == CHOOSE x \in S : \A y \in S \ {x} : Precedes(t, x, y)

\* The literals of S with the first two of the order lemma_lt up front.
Sorted(t, S) ==
  IF Cardinality(S) <= 1 THEN [w |-> IF S = {} THEN <<>> ELSE <<FirstOf(t, S)>>, rest |-> {}]
  ELSE LET a == FirstOf(t, S)
           b == FirstOf(t, S \ {a})
       IN  [w |-> <<a, b>>, rest |-> S \ {a, b}]

Clause(s, level, removable) ==
  [w |-> s.w, rest |-> s.rest, level |-> level, removable |-> removable]

FreshRef(db) == MinOf({n \in 1..(Cardinality(DOMAIN db) + 1) : n \notin DOMAIN db})
Attach(db, c) == [r \in DOMAIN db \cup {FreshRef(db)} |->
                    IF r \in DOMAIN db THEN db[r] ELSE c]
Detach(db, R) == [r \in DOMAIN db \ R |-> db[r]]

\* locked(c): the clause is the reason of its first literal.
Locked(t, db, r) == \E i \in DOMAIN t : t[i].lit = db[r].w[1] /\ t[i].reason = r

\* A mutant of Unlock that leaves the reasons.
UnlockNothing(t, R) == t

\* removeClause: no assignment keeps a pointer to a freed clause.
Unlock(t, R) == [i \in DOMAIN t |->
                   IF t[i].reason \in R THEN [t[i] EXCEPT !.reason = Undef] ELSE t[i]]

Satisfied(t, c) == \E l \in Lits(c) : IsTrue(t, l)
Falsified(t, S) == \A l \in S : IsFalse(t, l)

-----------------------------------------------------------------------------
(* newVar, and what addClause_ does to the literals it is given.           *)

Created(S) == [x \in Atoms |-> IF intro[x] = -1 /\ (x \in S \/ -x \in S)
                                 THEN assertionLevel ELSE intro[x]]
IntroLevels(int, S) == {0} \cup {int[Var(l)] : l \in S \ {VarTrue, -VarTrue}}

\* A mutant of ClauseLevel that forgets the variables of the clause.
ClauseLevelOfItself(int, S, removable) ==
  IF cores \/ ~removable THEN assertionLevel ELSE 0

\* The user level of a clause that leaves with its variables, or with the
\* current level.
ClauseLevel(int, S, removable) ==
  IF cores THEN assertionLevel
  ELSE MaxOf(IntroLevels(int, S) \cup (IF removable THEN {} ELSE {assertionLevel}))

AtBottom(t, l) == LevelOf(t, l) = 0 /\ UserLevelOf(t, l) = 0
Ignored(t, S) ==
  \/ \E l \in S : -l \in S
  \/ \E l \in S : IsTrue(t, l) /\ AtBottom(t, l)
Kept(t, S) ==
  {l \in S : ~IsFalse(t, l) \/ ~AtBottom(t, l) \/ cores}

\* A lemma that addClause_ queues because the solver is busy.  It dangles once
\* a pop has removed a variable of it.
QueueLemma(q, t, S, removable) ==
  IF Ignored(t, S) THEN q
  ELSE Append(q, [w |-> <<>>, rest |-> Kept(t, S), sorted |-> FALSE,
                  removable |-> removable, dangling |-> FALSE])
LemmaLits(L) == L.rest \cup {L.w[i] : i \in DOMAIN L.w}
Dangling == \E i \in DOMAIN lemmas : lemmas[i].dangling

-----------------------------------------------------------------------------
(* Locals of a running call: the caller of propagate, the check type, the  *)
(* watchers of trail[qhead] left to visit, the conflict, recheck, who      *)
(* called updateLemmas and its backtrack_index, and the resolvent of       *)
(* analyze with the level of the clauses it is resolved from.              *)

Start(caller) ==
  [caller |-> caller, check |-> "theory", todo |-> {}, conflict |-> Undef,
   recheck |-> FALSE, from |-> "entry", bound |-> 0, res |-> {}, maxlevel |-> 0]

Forget == answer' = "none" /\ model' = {}
Use(k) == left[k] > 0 /\ left' = [left EXCEPT ![k] = @ - 1]

Init ==
  /\ clauses = [r \in {} |-> Undef]
  /\ trail = <<[lit |-> VarTrue, reason |-> Undef, level |-> 0, ulevel |-> 0]>>
  /\ qhead = 0
  /\ intro = [x \in Atoms |-> -1]
  /\ assertionLevel = 0
  /\ ok = TRUE /\ trailOk = <<>>
  /\ lemmas = <<>>
  /\ pc = "idle" /\ at = Start("search")
  /\ answer = "none" /\ model = {}
  /\ inputs = << {} >>
  /\ left \in Setups /\ cores = left.cores /\ spent = FALSE

-----------------------------------------------------------------------------
(* addClause_ between two solves.                                          *)

AddClause(S, removable) ==
  LET int == Created(S)
      K == Kept(trail, S)
      F == {l \in K : IsFalse(trail, l)}
      s == Sorted(trail, K)
      long == Cardinality(K) > 1
      ref == IF long THEN FreshRef(clauses) ELSE Undef
      db == IF long THEN Attach(clauses, Clause(s, ClauseLevel(int, S, removable), FALSE))
                    ELSE clauses
  IN  /\ intro' = int
      /\ UNCHANGED <<assertionLevel, trailOk, lemmas, qhead, cores, spent>>
      /\ IF ~ok \/ Ignored(trail, S) THEN UNCHANGED <<clauses, trail, ok, pc, at>>
         ELSE IF F = K THEN
           /\ ok' = FALSE
           /\ clauses' = IF cores THEN db ELSE clauses
           /\ UNCHANGED <<trail, pc, at>>
         ELSE
           /\ clauses' = db
           /\ UNCHANGED ok
           /\ IF Cardinality(K) = Cardinality(F) + 1 /\ IsUndef(trail, s.w[1])
                THEN /\ trail' = Enqueue(trail, s.w[1], ref, 0)
                     /\ pc' = "propagate" /\ at' = Start("addClause")
                ELSE UNCHANGED <<trail, pc, at>>

\* PropEngine::assertInputFormulas, one clause of it.
AddInput(S) ==
  /\ pc = "idle" /\ Use("inputs") /\ S \notin inputs[assertionLevel + 1]
  /\ Forget
  /\ inputs' = [inputs EXCEPT ![assertionLevel + 1] = @ \cup {S}]
  /\ AddClause(S, FALSE)

\* A lemma that the theory sends while its atoms are preregistered, by newVar
\* or by the cancelUntil of resetTrail.
AddTheoryClause(S) ==
  /\ pc = "idle" /\ Use("lemmas")
  /\ Forget
  /\ UNCHANGED inputs
  /\ \E removable \in BOOLEAN : AddClause(S, removable)

Push ==
  /\ pc = "idle" /\ assertionLevel < MaxLevel
  /\ Forget
  /\ assertionLevel' = assertionLevel + 1
  /\ trailOk' = Append(trailOk, ok)
  /\ inputs' = Append(inputs, {})
  /\ UNCHANGED <<clauses, trail, qhead, intro, ok, lemmas, pc, at, cores, left, spent>>

\* Two mutants: of Above, with the level before the pop, and of PopTrail, with
\* the assignments of the level kept.
AboveOld(db, level) == {r \in DOMAIN db : db[r].level > level + 1}
PopTrailNothing(t, level) == SubSeq(t, 1, Len(t))

\* The clauses that leave with the user level, and the trail without the
\* assignments made at it.
Above(db, level) == {r \in DOMAIN db : db[r].level > level}
PopTrail(t, level) ==
  SubSeq(t, 1, MaxOf({i \in DOMAIN t : t[i].ulevel <= level}))

\* The queue stays; an index that a lemma names is newVar's to use again.
Pop ==
  /\ pc = "idle" /\ assertionLevel > 0
  /\ Forget
  /\ LET level == assertionLevel - 1
         gone == Above(clauses, level)
     IN  /\ assertionLevel' = level
         /\ trail' = Unlock(PopTrail(trail, level), gone)
         /\ qhead' = Len(PopTrail(trail, level))
         /\ clauses' = Detach(clauses, gone)
         /\ intro' = [x \in Atoms |-> IF intro[x] > level THEN -1 ELSE intro[x]]
         /\ lemmas' = [i \in DOMAIN lemmas |-> [lemmas[i] EXCEPT !.dangling =
                         @ \/ \E l \in LemmaLits(lemmas[i]) : intro[Var(l)] > level]]
         /\ ok' = trailOk[level + 1]
         /\ trailOk' = SubSeq(trailOk, 1, level)
         /\ inputs' = SubSeq(inputs, 1, level + 1)
  /\ UNCHANGED <<pc, at, cores, left, spent>>

Solve ==
  /\ pc = "idle" /\ (spent => Resumable) /\ Use("solves")
  /\ IF ok THEN Forget /\ pc' = "propagate" /\ at' = Start("search")
           ELSE answer' = "unsat" /\ model' = {} /\ UNCHANGED <<pc, at>>
  /\ UNCHANGED <<clauses, trail, qhead, intro, assertionLevel, ok, trailOk,
                 lemmas, inputs, cores, spent>>

\* SmtEngine's postsolve: resetTrail.
ResetTrail ==
  /\ pc = "solved"
  /\ pc' = "idle" /\ at' = Start("search")
  /\ trail' = CancelUntil(trail, 0)
  /\ qhead' = IF DecisionLevel(trail) > 0 THEN Len(CancelUntil(trail, 0)) ELSE qhead
  /\ UNCHANGED <<clauses, intro, assertionLevel, ok, trailOk, lemmas, answer,
                 model, inputs, cores, left, spent>>

-----------------------------------------------------------------------------
(* propagate: lemmas left behind, then Boolean propagation and the theory  *)
(* in turns until the queue is empty or there is a conflict.               *)

FinalCheck(a) == a.caller = "search" /\ a.check = "final"
Fixed == <<assertionLevel, trailOk, inputs, cores>>
Inside == <<Fixed, intro, ok, answer, model, left, spent>>

\* A mutant of BeginPropagate that does not reset recheck.
BeginPropagateRecheck ==
  /\ pc = "propagate" /\ ~Dangling
  /\ pc' = IF lemmas # <<>> THEN "lemmas" ELSE IF FinalCheck(at) THEN "theory" ELSE "bool"
  /\ at' = [at EXCEPT !.from = "entry", !.conflict = Undef]
  /\ UNCHANGED <<clauses, trail, qhead, lemmas, Inside>>

BeginPropagate ==
  /\ pc = "propagate" /\ ~Dangling
  /\ pc' = IF lemmas # <<>> THEN "lemmas" ELSE IF FinalCheck(at) THEN "theory" ELSE "bool"
  /\ at' = [at EXCEPT !.recheck = FALSE, !.from = "entry", !.conflict = Undef]
  /\ UNCHANGED <<clauses, trail, qhead, lemmas, Inside>>

\* updateLemmas reads the values of variables that are no more, beyond the end
\* of their arrays, or those of new variables with the same indices.  The model
\* does not say what follows.
ReadRemovedVariable ==
  /\ pc = "propagate" /\ Dangling
  /\ pc' = "undefined"
  /\ UNCHANGED <<clauses, trail, qhead, lemmas, at, Inside>>

SecondWatchers(p) == {r \in DOMAIN clauses : -p = clauses[r].w[2]}   \* a mutant
Watchers(p) == {r \in DOMAIN clauses : -p \in {clauses[r].w[1], clauses[r].w[2]}}

TakeLiteral ==
  /\ pc = "bool" /\ at.todo = {} /\ qhead < Len(trail)
  /\ qhead' = qhead + 1
  /\ at' = [at EXCEPT !.todo = Watchers(trail[qhead + 1].lit)]
  /\ UNCHANGED <<clauses, trail, lemmas, pc, Inside>>

\* The loop over watches[p]: a true blocker or first literal, a new watch, or
\* a clause that is unit or false.
VisitWatcher(r) ==
  LET c == clauses[r]
      false_lit == -trail[qhead].lit
      first == IF c.w[1] = false_lit THEN c.w[2] ELSE c.w[1]
      rest == [at EXCEPT !.todo = @ \ {r}]
  IN  /\ pc = "bool" /\ r \in at.todo
      /\ UNCHANGED <<lemmas, Inside>>
      /\ \/ /\ Satisfied(trail, c)
            /\ at' = rest
            /\ UNCHANGED <<clauses, trail, qhead, pc>>
         \/ \E k \in c.rest :
              /\ ~IsTrue(trail, first) /\ ~IsFalse(trail, k)
              /\ clauses' = [clauses EXCEPT ![r].w = <<first, k>>,
                                            ![r].rest = (@ \ {k}) \cup {false_lit}]
              /\ at' = rest
              /\ UNCHANGED <<trail, qhead, pc>>
         \/ /\ Falsified(trail, c.rest) /\ ~IsTrue(trail, first)
            /\ clauses' = [clauses EXCEPT ![r].w = <<first, false_lit>>]
            /\ IF IsFalse(trail, first)
                 THEN /\ qhead' = Len(trail)
                      /\ pc' = "return"
                      /\ at' = [at EXCEPT !.todo = {}, !.conflict = r]
                      /\ UNCHANGED trail
                 ELSE /\ trail' = Enqueue(trail, first, r, DecisionLevel(trail))
                      /\ at' = rest
                      /\ UNCHANGED <<qhead, pc>>

EndOfQueue ==
  /\ pc = "bool" /\ at.todo = {} /\ qhead = Len(trail)
  /\ pc' = IF at.caller = "search" THEN "theory" ELSE "return"
  /\ UNCHANGED <<clauses, trail, qhead, lemmas, at, Inside>>

\* After the lemmas or the propagations of the theory: another round, or back.
Round(t) == IF ~FinalCheck(at) /\ qhead < Len(t) THEN "bool" ELSE "return"
Exists(L) == \A l \in L : intro[Var(l)] >= 0

\* theoryCheck and propagateTheory.  At full effort the theory answers a
\* clause of its own that is false.  (A propagation of a false literal adds
\* its explanation, which is such a clause.)
TheoryCheck ==
  /\ pc = "theory"
  /\ UNCHANGED <<clauses, qhead, ok, answer, model, spent, Fixed>>
  /\ LET false == {L \in Theory : Falsified(trail, L)}
         Send(L, removable) ==
           /\ lemmas' = QueueLemma(lemmas, trail, L, removable)
           /\ intro' = Created(L)
           /\ pc' = IF lemmas' # <<>> THEN "lemmas" ELSE Round(trail)
           /\ at' = [at EXCEPT !.recheck = FinalCheck(at), !.from = "theory"]
           /\ UNCHANGED trail
     IN  \/ /\ FinalCheck(at) => false = {}
            /\ pc' = Round(trail)
            /\ UNCHANGED <<trail, lemmas, at, intro, left>>
         \/ \E L \in false : Send(L, TRUE) /\ UNCHANGED left
         \/ \E L \in Theory, removable \in BOOLEAN : Send(L, removable) /\ Use("lemmas")
         \/ \E L \in Theory : \E l \in L :
              /\ Exists(L) /\ IsUndef(trail, l) /\ Falsified(trail, L \ {l})
              /\ trail' = Enqueue(trail, l, Lazy, DecisionLevel(trail))
              /\ pc' = Round(trail')
              /\ at' = [at EXCEPT !.recheck = FinalCheck(at)]
              /\ UNCHANGED <<lemmas, intro, left>>

\* cancelUntil may preregister variables with the theory, which may answer
\* with a lemma at once; bounds is what is left of the bounds by then.
Registration(q, t, bounds) ==
  \/ lemmas' = q /\ left' = bounds /\ UNCHANGED intro
  \/ /\ bounds.lemmas > 0 /\ left' = [bounds EXCEPT !.lemmas = @ - 1]
     /\ \E L \in Theory : lemmas' = QueueLemma(q, t, L, FALSE) /\ intro' = Created(L)

\* updateLemmas, first half: sort the lemmas and backtrack far enough for the
\* propagating ones.
BacktrackLevel(w) ==
  LET d == IF Len(w) = 1 THEN 0 ELSE LevelOf(trail, w[2])
  IN  IF w = <<>> THEN 0
      ELSE IF Len(w) > 1 /\ ~IsFalse(trail, w[2]) THEN DecisionLevel(trail)
      ELSE IF IsTrue(trail, w[1]) /\ LevelOf(trail, w[1]) <= d THEN DecisionLevel(trail)
      ELSE d

SortLemmas ==
  /\ pc = "lemmas"
  /\ LET Sort(L) == LET s == Sorted(trail, L.rest)
                    IN  [L EXCEPT !.w = s.w, !.rest = s.rest, !.sorted = TRUE]
         new == {i \in DOMAIN lemmas : ~lemmas[i].sorted}
         q == [i \in DOMAIN lemmas |-> IF i \in new THEN Sort(lemmas[i]) ELSE lemmas[i]]
         levels == {DecisionLevel(trail)} \cup {BacktrackLevel(w) : w \in {q[i].w : i \in new}}
     IN  IF new = {}
           THEN /\ pc' = "attach"
                /\ at' = [at EXCEPT !.bound = Len(trail)]
                /\ UNCHANGED <<trail, qhead, lemmas, intro, left>>
           ELSE \E d \in levels :
                  /\ \A k \in levels : d <= k
                  /\ trail' = CancelUntil(trail, d)
                  /\ qhead' = IF Len(trail') < Len(trail) THEN Len(trail') ELSE qhead
                  /\ IF Len(trail') < Len(trail)
                       THEN Registration(q, trail', left)
                       ELSE lemmas' = q /\ UNCHANGED <<intro, left>>
                  /\ at' = IF \E i \in new : q[i].w = <<>>
                             THEN [at EXCEPT !.conflict = Lazy] ELSE at
                  /\ UNCHANGED pc
  /\ UNCHANGED <<clauses, ok, answer, model, spent, Fixed>>

\* updateLemmas, second half: attach a lemma, and enqueue it or find it false.
AttachLemma ==
  /\ pc = "attach" /\ lemmas # <<>>
  /\ lemmas' = Tail(lemmas)
  /\ UNCHANGED <<qhead, pc, Inside>>
  /\ LET L == Head(lemmas)
         long == Len(L.w) > 1
         ref == IF long THEN FreshRef(clauses) ELSE Undef
     IN  /\ clauses' = IF ~long THEN clauses
                       ELSE Attach(clauses, Clause(L, ClauseLevel(intro, LemmaLits(L), L.removable),
                                                   L.removable))
         /\ IF \/ at.conflict # Undef
               \/ IsTrue(trail, L.w[1])
               \/ long /\ ~(IsFalse(trail, L.w[2]) /\ At(trail, L.w[2]) <= at.bound)
              THEN UNCHANGED <<trail, at>>
            ELSE IF IsFalse(trail, L.w[1])
              THEN at' = [at EXCEPT !.conflict = IF long THEN ref ELSE Lazy] /\ UNCHANGED trail
            ELSE trail' = Enqueue(trail, L.w[1], ref, DecisionLevel(trail)) /\ UNCHANGED at

LemmasUpdated ==
  /\ pc = "attach" /\ lemmas = <<>>
  /\ pc' = IF at.conflict # Undef THEN "return"
           ELSE IF at.from = "theory" THEN Round(trail)
           ELSE IF FinalCheck(at) THEN "theory" ELSE "bool"
  /\ at' = [at EXCEPT !.bound = 0]
  /\ UNCHANGED <<clauses, trail, qhead, lemmas, Inside>>

EndAddClause ==
  /\ pc = "return" /\ at.caller = "addClause"
  /\ ok' = (at.conflict = Undef)
  /\ pc' = "idle" /\ at' = Start("search")
  /\ UNCHANGED <<clauses, trail, qhead, intro, assertionLevel, trailOk, lemmas,
                 answer, model, inputs, cores, left, spent>>

-----------------------------------------------------------------------------
(* search: conflicts.                                                      *)

Searching == pc = "return" /\ at.caller = "search"
\* The end of solve_: the verdict counts only if the budget is not spent now.
EndSolve(verdict, m) ==
  \/ /\ answer' = verdict /\ model' = m
     /\ ok' = (verdict # "unsat")
     /\ UNCHANGED spent
  \/ /\ answer' = "unknown" /\ model' = {}
     /\ UNCHANGED ok
     /\ spent' = TRUE

ConflictAtTopLevel ==
  /\ Searching /\ at.conflict # Undef /\ DecisionLevel(trail) = 0
  /\ EndSolve("unsat", {})
  /\ pc' = "solved" /\ at' = Start("search")
  /\ UNCHANGED <<clauses, trail, qhead, intro, lemmas, left, Fixed>>

\* What resolving with the literals S of clause r adds: the literals of the
\* decisions, and the levels of the clause and of the others.
Resolved(S) == {l \in S : LevelOf(trail, l) > 0}
LevelOfClause(r, S) == clauses[r].level   \* a mutant of Level: the clause alone
Level(r, S) ==
  MaxOf({clauses[r].level} \cup {UserLevelOf(trail, l) : l \in S \ Resolved(S)})

BeginAnalyze ==
  /\ Searching /\ at.conflict # Undef /\ DecisionLevel(trail) > 0
  /\ LET S == Lits(clauses[at.conflict])
     IN  at' = [at EXCEPT !.res = Resolved(S), !.maxlevel = Level(at.conflict, S),
                          !.conflict = Undef]
  /\ pc' = "analyze"
  /\ UNCHANGED <<clauses, trail, qhead, lemmas, Inside>>

\* The literal of S assigned last, and the literals of S at the top level.
Latest(S) == CHOOSE l \in S : \A k \in S : At(trail, k) <= At(trail, l)
OnTop(S) == {l \in S : LevelOf(trail, l) = DecisionLevel(trail)}
ReasonOf(l) == trail[At(trail, l)].reason
Others(l) == Lits(clauses[ReasonOf(l)]) \ {-l}

\* reason(): the theory explains a literal that it has propagated.
Explanations(l) ==
  {L \in Theory : /\ l \in L
                  /\ \A k \in L \ {l} : IsFalse(trail, k) /\ At(trail, k) < At(trail, l)}
ExplainWith(i, L) ==
  LET E == IF L = {trail[i].lit} THEN L \cup {-VarTrue} ELSE L
  IN  /\ clauses' = Attach(clauses, Clause(Sorted(trail, E), ClauseLevel(intro, E, TRUE), TRUE))
      /\ trail' = [trail EXCEPT ![i].reason = FreshRef(clauses)]

\* While resolving it is the latest literal; while the learnt clause is made
\* smaller, any literal that the clause or a reason mentions.
Explain ==
  /\ pc = "analyze"
  /\ \E i \in DOMAIN trail :
       /\ trail[i].reason = Lazy
       /\ LET l == -trail[i].lit
          IN  \/ l = Latest(at.res)
              \/ /\ Cardinality(OnTop(at.res)) = 1
                 /\ \/ l \in at.res
                    \/ \E j \in DOMAIN trail : /\ trail[j].reason > 0
                                               /\ l \in Lits(clauses[trail[j].reason])
       /\ \E L \in Explanations(trail[i].lit) : ExplainWith(i, L)
  /\ UNCHANGED <<qhead, lemmas, pc, at, Inside>>

Resolve ==
  /\ pc = "analyze" /\ Cardinality(OnTop(at.res)) > 1
  /\ LET p == Latest(at.res)
         S == Others(p) \ {p}
     IN  /\ ReasonOf(p) > 0
         /\ at' = [at EXCEPT !.res = (@ \ {p}) \cup Resolved(S),
                             !.maxlevel = MaxOf({@, Level(ReasonOf(p), S)})]
  /\ UNCHANGED <<clauses, trail, qhead, lemmas, pc, Inside>>

\* litRedundant: a literal whose reasons lead only to literals of the clause
\* and to decisions of none.
Implied(S) ==
  LET levels == {LevelOf(trail, k) : k \in S \ {Latest(S)}}
      implied[i \in DOMAIN trail] ==
        \/ trail[i].level = 0
        \/ -trail[i].lit \in S
        \/ /\ trail[i].reason > 0 /\ trail[i].level \in levels
           /\ \A k \in Lits(clauses[trail[i].reason]) \ {trail[i].lit} : implied[At(trail, k)]
  IN  implied
Redundant(S, l) ==
  /\ l # Latest(S) /\ ReasonOf(l) > 0
  /\ \A k \in Others(l) \ {l} : Implied(S)[At(trail, k)]

\* The rest of a conflict: minimise, backjump, learn, assert the literal.
Learn ==
  /\ pc = "analyze" /\ Cardinality(OnTop(at.res)) = 1
  /\ ReasonOf(Latest(at.res)) # Lazy
  /\ LET uip == Latest(at.res)
         gone == {l \in at.res : Redundant(at.res, l)}
         others == (at.res \ gone) \ {uip}
         level == IF cores THEN assertionLevel
                  ELSE MaxOf({at.maxlevel} \cup {UserLevelOf(trail, l) : l \in gone})
         back == MaxOf({0} \cup {LevelOf(trail, l) : l \in others})
         t == CancelUntil(trail, back)
     IN  /\ qhead' = Len(t)
         /\ IF others = {}
              THEN trail' = Enqueue(t, uip, Undef, back) /\ UNCHANGED clauses
              ELSE \E k \in others :
                     /\ LevelOf(trail, k) = back
                     /\ clauses' = Attach(clauses, [w |-> <<uip, k>>, rest |-> others \ {k},
                                                    level |-> level, removable |-> TRUE])
                     /\ trail' = Enqueue(t, uip, FreshRef(clauses), back)
         /\ Registration(lemmas, t, left)
  /\ pc' = "propagate" /\ at' = Start("search")
  /\ UNCHANGED <<ok, answer, model, spent, Fixed>>

-----------------------------------------------------------------------------
(* search: no conflict.                                                    *)

FreeLiterals == {l \in Literals \ {VarTrue, -VarTrue} :
                   intro[Var(l)] >= 0 /\ IsUndef(trail, l)}

\* A full check without conflict: satisfiable, unless there is more to do.
AfterFinalCheck ==
  /\ Searching /\ at.conflict = Undef /\ at.check = "final"
  /\ UNCHANGED <<clauses, trail, qhead, intro, lemmas, left, Fixed>>
  /\ IF FreeLiterals # {} \/ qhead < Len(trail)
       THEN pc' = "propagate" /\ at' = Start("search") /\ UNCHANGED <<ok, answer, model, spent>>
     ELSE IF at.recheck
       THEN pc' = "propagate" /\ UNCHANGED <<at, ok, answer, model, spent>>
     ELSE /\ EndSolve("sat", {trail[i].lit : i \in DOMAIN trail} \ {VarTrue})
          /\ pc' = "solved" /\ at' = Start("search")

WithinBudget ==
  /\ Searching /\ at.conflict = Undef /\ at.check = "theory"
  /\ pc' = "decide"
  /\ UNCHANGED <<clauses, trail, qhead, lemmas, at, Inside>>

\* The conflicts of this search are used up: solve_ searches again.  Or the
\* budget is spent: solve_ gives up, and leaves what cancelUntil has queued.
Restart ==
  /\ Searching /\ at.conflict = Undef /\ at.check = "theory"
  /\ trail' = CancelUntil(trail, 0)
  /\ qhead' = Len(trail')
  /\ at' = Start("search")
  /\ LET Backtracked(bounds) ==
           IF DecisionLevel(trail) > 0 THEN Registration(lemmas, trail', bounds)
           ELSE left' = bounds /\ UNCHANGED <<lemmas, intro>>
     IN  \/ /\ pc' = "propagate" /\ left.restarts > 0 /\ UNCHANGED <<answer, spent>>
            /\ Backtracked([left EXCEPT !.restarts = @ - 1])
         \/ /\ pc' = "solved" /\ answer' = "unknown" /\ spent' = TRUE
            /\ Backtracked(left)
  /\ UNCHANGED <<clauses, ok, model, Fixed>>

\* simplify, with propagation done: the satisfied removable clauses go (an
\* incremental solver keeps the persistent ones).
Simplify ==
  /\ pc = "decide" /\ DecisionLevel(trail) = 0
  /\ LET R == {r \in DOMAIN clauses : clauses[r].removable /\ Satisfied(trail, clauses[r])}
     IN  /\ R # {}
         /\ clauses' = Detach(clauses, R)
         /\ trail' = Unlock(trail, R)
  /\ UNCHANGED <<qhead, lemmas, pc, at, Inside>>

\* reduceDB: long removable clauses that are not a reason.
ReduceDB ==
  /\ pc = "decide"
  /\ \E R \in SUBSET {r \in DOMAIN clauses : /\ clauses[r].removable
                                             /\ Cardinality(Lits(clauses[r])) > 2
                                             /\ ~Locked(trail, clauses, r)} :
       R # {} /\ clauses' = Detach(clauses, R)
  /\ UNCHANGED <<trail, qhead, lemmas, pc, at, Inside>>

\* A decision of the theory, of the decision engine or of the heuristic; with
\* everything assigned, the full check.
Decide ==
  /\ pc = "decide"
  /\ pc' = "propagate"
  /\ UNCHANGED <<clauses, qhead, lemmas, Inside>>
  /\ \/ \E l \in FreeLiterals :
          trail' = Enqueue(trail, l, Undef, DecisionLevel(trail) + 1) /\ UNCHANGED at
     \/ FreeLiterals = {} /\ at' = [at EXCEPT !.check = "final"] /\ UNCHANGED trail

-----------------------------------------------------------------------------
Call ==
  \/ \E S \in left.user[assertionLevel] : AddInput(S)
  \/ \E S \in Theory : AddTheoryClause(S)
  \/ Push \/ Pop \/ Solve

Step ==
  \/ ResetTrail \/ BeginPropagate \/ ReadRemovedVariable \/ TakeLiteral
  \/ \E r \in DOMAIN clauses : VisitWatcher(r)
  \/ EndOfQueue \/ TheoryCheck \/ SortLemmas \/ AttachLemma \/ LemmasUpdated
  \/ EndAddClause \/ ConflictAtTopLevel \/ BeginAnalyze \/ Explain \/ Resolve
  \/ Learn \/ AfterFinalCheck \/ WithinBudget \/ Restart \/ Simplify \/ ReduceDB
  \/ Decide

Next == Call \/ Step

\* A running call does not stop by itself.
Fairness == WF_vars(Step)
Spec == Init /\ [][Next]_vars /\ Fairness

-----------------------------------------------------------------------------
(* Properties.                                                             *)

Oracle == INSTANCE IncrementalSolver WITH stack <- inputs

\* Every variable in its range.
TypeOK ==
  /\ assertionLevel \in 0..MaxLevel
  /\ Len(trailOk) = assertionLevel /\ Len(inputs) = assertionLevel + 1
  /\ qhead \in 0..Len(trail)
  /\ \A i \in DOMAIN trail :
       /\ trail[i].lit \in Literals /\ trail[i].ulevel \in 0..assertionLevel
       /\ trail[i].reason \in {Undef, Lazy} \cup DOMAIN clauses
  /\ \A r \in DOMAIN clauses : /\ Lits(clauses[r]) \subseteq Literals
                               /\ clauses[r].level \in 0..assertionLevel
  /\ pc \in {"idle", "propagate", "bool", "theory", "lemmas", "attach", "return",
             "analyze", "decide", "solved", "undefined"}

\* A clause, and a literal assigned without a decision, follows from the
\* theory and the user's clauses of the levels up to its own, so what pop
\* leaves never rests on what it takes away.
EntailedAtItsLevel ==
  /\ \A r \in DOMAIN clauses :
       Oracle!Entails(Oracle!UpTo(inputs, clauses[r].level), Lits(clauses[r]) \ {-VarTrue})
  /\ \A i \in 2..Len(trail) : trail[i].level = 0 =>
       Oracle!Entails(Oracle!UpTo(inputs, trail[i].ulevel), {trail[i].lit})

\* No clause or assignment mentions a variable that a pop has removed or will
\* remove before it; nor does a queued lemma, unless a solve gave up with it in
\* the queue, and then nothing but the start of propagate looks at it.
VariablesOutliveTheirUses ==
  /\ \A r \in DOMAIN clauses : \A l \in Lits(clauses[r]) \ {-VarTrue} :
       intro[Var(l)] \in 0..clauses[r].level
  /\ \A i \in 2..Len(trail) : intro[Var(trail[i].lit)] \in 0..trail[i].ulevel
  /\ \A i \in DOMAIN lemmas :
       IF lemmas[i].dangling THEN spent /\ pc \in {"idle", "propagate", "undefined"}
       ELSE \A l \in LemmaLits(lemmas[i]) : intro[Var(l)] \in 0..assertionLevel

\* Between two calls and before a decision, a clause is false only if the
\* theory refutes what is assigned without a decision: propagation has missed
\* no other conflict.  (A lemma that is false when it is attached at the bottom
\* makes ok false; a pop makes ok true again and leaves the lemma, which
\* propagation does not look at again.)
NoConflictIsMissed ==
  pc = "decide" \/ (pc = "idle" /\ ok /\ ~spent) =>
    \A r \in DOMAIN clauses : Falsified(trail, Lits(clauses[r])) =>
      \E L \in Theory : \A l \in L : IsFalse(trail, l) /\ LevelOf(trail, l) = 0

\* The reason of an assignment is a clause with that literal in front and the
\* others false before it, and a conflict to analyze has a literal of the
\* current decision level.
ReasonsAreAcyclic ==
  /\ \A i \in DOMAIN trail : trail[i].reason > 0 =>
       LET c == clauses[trail[i].reason]
       IN  /\ trail[i].reason \in DOMAIN clauses
           /\ c.w[1] = trail[i].lit
           /\ \A l \in Lits(c) \ {c.w[1]} : IsFalse(trail, l) /\ At(trail, l) < i
  /\ pc = "analyze" => OnTop(at.res) # {}

\* The answers are those of the abstract solver.
ImplementsOracle == Oracle!Spec

\* "a partial assigment that is consistent with respect to the clauseset".
SatIsConsistent ==
  answer = "sat" => Oracle!Satisfies(model, Oracle!Current)

\* A solve that is not interrupted by its budget ends, and so does addClause_,
\* but for one that meets a lemma of removed variables.
SolveEnds == pc = "propagate" /\ ~Dangling ~> pc = "idle"
=============================================================================
