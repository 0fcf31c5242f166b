----------------------------- MODULE SmtEngine -----------------------------
(* The user-level protocol of an SmtEngine: SmtEngine with its SmtEngineState, *)
(* Assertions, SmtSolver and ResourceManager, over the assertion levels of the *)
(* SAT solver.  The calls of one engine are sequential, so a call is one       *)
(* action; inside it the functions called in turn are operators that take the  *)
(* engine to its next state.                                                   *)
EXTENDS Naturals, Sequences, FiniteSets, SequencesExt

CONSTANTS
  Formulas,         \* the formulas a user asserts or assumes
  RecDefs,          \* the formulas of global define-fun-rec commands
  Conflicts,        \* the minimal inconsistent sets of formulas
  Options,          \* the settings a user may start the engine with
  MaxFrames,        \* bound: the nested pushes and the global definitions, together
  MaxLevels         \* bound: the levels that refused checks may leave behind

ASSUME SmtEngineAssumption ==
  /\ Formulas \cap RecDefs = {}
  /\ Conflicts \subseteq SUBSET (Formulas \cup RecDefs)
  /\ Options \subseteq [incrementalSolving : BOOLEAN,
                       perCallResourceLimit : Nat, cumulativeResourceLimit : Nat]
  /\ {MaxFrames, MaxLevels} \subseteq Nat

VARIABLES
  options,  \* the settings, which stay as they are once the engine is in use
  engine,   \* the state of the SmtEngine and of what it owns
  answer    \* what the last check returned

vars == <<options, engine, answer>>

Incremental == options.incrementalSolving
PerCallLimit == options.perCallResourceLimit          \* 0 for none
CumulativeLimit == options.cumulativeResourceLimit    \* 0 for none

Modes == {"START", "ASSERT", "SAT", "SAT_UNKNOWN", "UNSAT", "ABDUCT", "INTERPOL"}

(* The fields of the engine:                                                   *)
(*   inited, pendingPops, queryMade, needPostsolve, mode, userLevels           *)
(*                   as in SmtEngineState                                      *)
(*   assertionList   Assertions::d_assertionList, by user-context level        *)
(*   buffer          the assertion pipeline, formulas the SAT solver lacks     *)
(*   globals         Assertions::d_globalDefineFunRecLemmas                    *)
(*   assumptions     Assertions::d_assumptions, of the last check              *)
(*   sat             per assertion level, its clauses and Solver::ok           *)
(*   decisions       whether the SAT solver's trail has decisions              *)
(*   contextLevel    the level of the SAT context                              *)
(*   inSatMode       TheoryEngine::d_inSatMode, that the theories hold a model *)
(*   modelOf         while they do, the formulas that the check was solved for *)
(*   callUsed, cumulativeUsed   the resource counters, up to their limits      *)
(*   failed          the Assert that failed and ended the process, or "none"   *)
Constructed ==
  [inited |-> FALSE, pendingPops |-> 0, queryMade |-> FALSE,
   needPostsolve |-> FALSE, mode |-> "START", userLevels |-> <<>>,
   assertionList |-> <<>>, buffer |-> {}, globals |-> {},
   assumptions |-> {},
   sat |-> <<[clauses |-> {}, ok |-> TRUE]>>, decisions |-> 0,
   contextLevel |-> 0, inSatMode |-> FALSE, modelOf |-> {},
   callUsed |-> 0, cumulativeUsed |-> 0, failed |-> "none"]

UserLevel(e) == Len(e.assertionList)
AssertionLevel(e) == Len(e.sat) - 1
SatClauses(e) == UNION {e.sat[l].clauses : l \in DOMAIN e.sat}
Consistent(S) == \A c \in Conflicts : ~ c \subseteq S

AssertThat(condition, site, e) ==
  IF condition \/ e.failed # "none" THEN e ELSE [e EXCEPT !.failed = site]

-----------------------------------------------------------------------------
(* ResourceManager: the counters stop at their limits, where only "at least    *)
(* the limit" is ever asked of them.                                           *)

UpTo(n, limit) == IF n < limit THEN n ELSE limit

SpendResource(amount, e) ==
  [e EXCEPT !.callUsed = UpTo(@ + amount, PerCallLimit),
            !.cumulativeUsed = UpTo(@ + amount, CumulativeLimit)]

OutOfResources(e) ==
  \/ PerCallLimit > 0 /\ e.callUsed >= PerCallLimit
  \/ CumulativeLimit > 0 /\ e.cumulativeUsed >= CumulativeLimit

\* The time the counter of this call starts afresh, and the time it stops.
BeginCall(e) == [e EXCEPT !.callUsed = 0]
EndCall(e) == [e EXCEPT !.callUsed = 0]

-----------------------------------------------------------------------------
(* The SAT solver under PropEngine.                                            *)

ResetTrail(e) ==
  [e EXCEPT !.contextLevel = @ - e.decisions, !.decisions = 0]

PropPush(e) ==
  LET pushed == [e EXCEPT !.sat = Append(@, [clauses |-> {}, ok |-> Last(@).ok]),
                          !.contextLevel = @ + 1]
  IN AssertThat(e.decisions = 0, "Solver::push", pushed)

PropPops(n, e) ==
  LET popped == [e EXCEPT !.sat = SubSeq(@, 1, Len(@) - n),
                          !.contextLevel = @ - n]
  IN AssertThat(n = 0 \/ e.decisions = 0, "Solver::pop", popped)

\* Solver::addClause_ drops what it is given once the level is unsatisfiable.
\* A conflict with the clauses already there may be noticed at once.
AssertInputFormulas(S, noticed, e) ==
  LET here == Len(e.sat)
      added == [e EXCEPT !.sat[here].clauses = @ \cup S]
  IN CASE ~ e.sat[here].ok -> e
       [] e.sat[here].ok /\ noticed /\ ~ Consistent(SatClauses(added)) ->
            [added EXCEPT !.sat[here].ok = FALSE]
       [] OTHER -> added

\* What the search may answer, the oracle this model takes the solver to be:
\* unknown when it is interrupted, as it is once the resources are spent.
Verdicts(spent, e) ==
  IF ~ Last(e.sat).ok THEN {"unsat"}
  ELSE {"unknown"} \cup
       IF OutOfResources(SpendResource(spent, e)) THEN {}
       ELSE {IF Consistent(SatClauses(e)) THEN "sat" ELSE "unsat"}

\* A search leaves its decisions on the trail, unless it answers unsat.  The last
\* check of the theories, should it be reached, puts them in sat mode.
Solve(verdict, trail, reached, e) ==
  LET here == Len(e.sat)
      left == IF verdict = "unsat" THEN 0 ELSE trail
      satMode == reached \/ verdict = "sat"
      done == [e EXCEPT !.sat[here].ok = @ /\ verdict # "unsat",
                        !.decisions = left, !.contextLevel = @ + left,
                        !.inSatMode = @ \/ satMode,
                        !.modelOf = IF satMode THEN SatClauses(e) ELSE @]
  IN AssertThat(e.decisions = 0, "Solver::solve_", done)

-----------------------------------------------------------------------------
(* Assertions and SmtSolver::processAssertions.                                *)

AddFormulas(S, e) ==
  [e EXCEPT !.buffer = @ \cup S,
            !.assertionList[UserLevel(e)] = @ \cup S]

ProcessAssertions(noticed, e) ==
  LET spent == SpendResource(1, e)
      asserted == [AssertInputFormulas(e.buffer, noticed, spent) EXCEPT !.buffer = {}]
  IN AssertThat(e.inited /\ e.pendingPops = 0, "processAssertions",
                IF e.buffer = {} THEN spent ELSE asserted)

-----------------------------------------------------------------------------
(* SmtEngineState.                                                             *)

PopUserLevels(n, e) ==
  [PropPops(n, e) EXCEPT !.assertionList = SubSeq(@, 1, Len(@) - n)]

DoPendingPopsNoReset(e) ==
  [PopUserLevels(e.pendingPops, e) EXCEPT !.pendingPops = 0, !.needPostsolve = FALSE]

\* A postsolve that does not end the sat mode of the theories.
DoPendingPopsKeepsSatMode(e) ==
  LET reset == IF e.needPostsolve THEN ResetTrail(e) ELSE e
  IN [PopUserLevels(e.pendingPops, reset) EXCEPT !.pendingPops = 0,
                                                 !.needPostsolve = FALSE]

DoPendingPops(e) ==
  LET reset == IF e.needPostsolve
                 THEN [ResetTrail(e) EXCEPT !.inSatMode = FALSE, !.modelOf = {}]
                 ELSE e
  IN [PopUserLevels(e.pendingPops, reset) EXCEPT !.pendingPops = 0,
                                                 !.needPostsolve = FALSE]

\* The push that leaves the buffered assertions to the new level.
InternalPushUnprocessed(noticed, e) ==
  LET ready == DoPendingPops(e)
      pushed == [ready EXCEPT !.assertionList = Append(@, {})]
  IN IF Incremental THEN PropPush(pushed) ELSE ready

InternalPush(noticed, e) ==
  LET ready == ProcessAssertions(noticed, DoPendingPops(e))
      pushed == [ready EXCEPT !.assertionList = Append(@, {})]
  IN IF Incremental THEN PropPush(pushed) ELSE DoPendingPops(e)

InternalPopTwice(e) ==
  IF Incremental THEN [e EXCEPT !.pendingPops = @ + 2] ELSE e

InternalPop(e) ==
  IF Incremental THEN [e EXCEPT !.pendingPops = @ + 1] ELSE e

\* userPop: one internalPop(true), which also does the pops already pending,
\* and more of them until the level of the matching push is reached.
UserPop(e) ==
  LET target == Last(e.userLevels)
      first == e.pendingPops + 1
      excess == UserLevel(e) - target
      pops == IF excess > first THEN excess ELSE first
      popped == DoPendingPops([e EXCEPT !.pendingPops = pops, !.mode = "ASSERT"])
  IN AssertThat(excess > 0, "userPop", [popped EXCEPT !.userLevels = Front(@)])

UserPush(noticed, e) ==
  InternalPush(noticed, [e EXCEPT !.mode = "ASSERT",
                                  !.userLevels = Append(@, UserLevel(e))])

Setup(e) ==
  [e EXCEPT !.assertionList = Append(@, {}), !.contextLevel = @ + 1]

\* notifyResetAssertions, setup and the new PropEngine of SmtSolver.
NewPropEngine(e) ==
  [e EXCEPT !.sat = <<[clauses |-> {}, ok |-> TRUE]>>, !.decisions = 0]

PopUserToZero(e) == [e EXCEPT !.assertionList = <<>>]

PopToZero(e) == [e EXCEPT !.assertionList = <<>>, !.contextLevel = 0]

\* The engine after each userPop of the loop of notifyResetAssertions.
UserPops(e) ==
  LET pops[k \in 0 .. Len(e.userLevels)] ==
        IF k = 0 THEN DoPendingPops(e) ELSE UserPop(pops[k - 1])
  IN pops

PopAllUserLevels(e) ==
  LET popped == UserPops(e)[Len(e.userLevels)]
  IN AssertThat(UserLevel(popped) = 1, "notifyResetAssertions", popped)

\* finishInit, at the first call that needs the engine ready.
FinishInit(e) == IF e.inited THEN e ELSE [Setup(e) EXCEPT !.inited = TRUE]

Ready(e) == DoPendingPops(FinishInit(e))

NotifyCheckSat(assumptions, noticed, e) ==
  LET asked == [e EXCEPT !.queryMade = TRUE, !.mode = "ASSERT"]
  IN IF assumptions # {} THEN InternalPush(noticed, asked) ELSE asked

ModeOf(verdict) ==
  CASE verdict = "sat" -> "SAT"
    [] verdict = "unsat" -> "UNSAT"
    [] OTHER -> "SAT_UNKNOWN"

NotifyCheckSatResult(assumptions, verdict, e) ==
  LET over == [e EXCEPT !.needPostsolve = TRUE, !.mode = ModeOf(verdict)]
  IN IF assumptions # {} THEN InternalPop(over) ELSE over

-----------------------------------------------------------------------------
(* The calls of the user.                                                      *)

Init ==
  /\ options \in Options
  /\ engine = Constructed
  /\ answer = "none"

AssertFormula(f) ==
  /\ engine' = AddFormulas({f}, Ready(engine))
  /\ UNCHANGED answer

\* The lemma of a global definition waits for the next check, in every level.
DefineFunctionsRec(d) ==
  /\ Len(engine.userLevels) + Cardinality(engine.globals \cup {d}) <= MaxFrames
  /\ LET e == Ready(engine)
     IN engine' = [e EXCEPT !.globals = @ \cup {d},
                            !.assertionList[UserLevel(e)] = @ \cup {d}]
  /\ UNCHANGED answer

\* simplify, which processes the assertions; expandDefinitions only spends.
Simplify(noticed) ==
  /\ engine' = ProcessAssertions(noticed, Ready(engine))
  /\ UNCHANGED answer

ExpandDefinitions ==
  /\ engine' = Ready(SpendResource(1, engine))
  /\ UNCHANGED answer

\* Without incremental solving the push throws, its assertions processed.
Push(noticed) ==
  /\ Len(engine.userLevels) + Cardinality(engine.globals) < MaxFrames
  /\ LET e == ProcessAssertions(noticed, Ready(engine))
     IN engine' = IF Incremental THEN UserPush(noticed, e) ELSE e
  /\ UNCHANGED answer

PopKeepsBuffer ==
  /\ LET e == FinishInit(engine)
     IN engine' = IF Incremental /\ e.userLevels # <<>> THEN UserPop(e) ELSE e
  /\ UNCHANGED answer

\* A pop beyond the first frame throws, once the engine is initialised.
Pop ==
  /\ LET e == FinishInit(engine)
     IN engine' = IF Incremental /\ e.userLevels # <<>>
                    THEN [UserPop(e) EXCEPT !.buffer = {}]
                    ELSE e
  /\ UNCHANGED answer

ResetAssertions ==
  /\ engine.inited
  /\ LET popped == PopAllUserLevels([engine EXCEPT !.buffer = {}])
     IN engine' = NewPropEngine(Setup(PopToZero(popped)))
  /\ UNCHANGED answer

\* getAssertions, and the calls that read the assertions through it.
GetAssertions ==
  /\ engine' = Ready(engine)
  /\ UNCHANGED answer

\* getAbduct and getInterpol: what a subsolver finds decides the mode.
Derive(mode, success) ==
  /\ engine' = [Ready(SpendResource(1, Ready(engine)))
                   EXCEPT !.mode = IF success THEN mode ELSE "ASSERT"]
  /\ UNCHANGED answer

\* A second query of an engine that is not incremental throws.
CheckSatThrows ==
  /\ engine.queryMade /\ ~ Incremental
  /\ engine' = Ready(engine)
  /\ UNCHANGED answer

\* The engine as the assertions of a check stand in it, before the limits are
\* looked at.
Initialized(assumptions, noticed) ==
  LET notified == NotifyCheckSat(assumptions, noticed, Ready(engine))
  IN AddFormulas(assumptions \cup notified.globals,
                 [notified EXCEPT !.assumptions = assumptions])

\* checkSatisfiability when the resources are spent: it returns at once.
CheckSatRefused(assumptions, noticed) ==
  /\ ~ engine.queryMade \/ Incremental
  /\ LET e == Initialized(assumptions, noticed)
     IN /\ OutOfResources(e)
        /\ UserLevel(e) <= MaxLevels
        /\ engine' = e
  /\ answer' = "refused"

\* What a search may spend; without a limit no matter.
Spending == IF PerCallLimit = 0 /\ CumulativeLimit = 0 THEN {0} ELSE 0 .. 1

CheckSat(assumptions, noticed, trail, reached, spent) ==
  /\ ~ engine.queryMade \/ Incremental
  /\ LET e == Initialized(assumptions, noticed)
         ready == ProcessAssertions(noticed, BeginCall(e))
     IN /\ ~ OutOfResources(e)
        /\ \E verdict \in Verdicts(spent, ready) :
             LET solved == EndCall(SpendResource(spent,
                             Solve(verdict, trail, reached, ready)))
             IN /\ engine' = NotifyCheckSatResult(assumptions, verdict, solved)
                /\ answer' = verdict

Next ==
  /\ engine.failed = "none"
  /\ UNCHANGED options
  /\ \/ \E f \in Formulas : AssertFormula(f)
     \/ \E d \in RecDefs : DefineFunctionsRec(d)
     \/ \E noticed \in BOOLEAN : Simplify(noticed) \/ Push(noticed)
     \/ ExpandDefinitions
     \/ Pop
     \/ ResetAssertions
     \/ GetAssertions
     \/ \E mode \in {"ABDUCT", "INTERPOL"}, success \in BOOLEAN : Derive(mode, success)
     \/ CheckSatThrows
     \/ \E assumptions \in SUBSET Formulas, noticed \in BOOLEAN :
          \/ CheckSatRefused(assumptions, noticed)
          \/ \E trail \in 0 .. 1, reached \in BOOLEAN, spent \in Spending :
               CheckSat(assumptions, noticed, trail, reached, spent)

Spec == Init /\ [][Next]_vars

-----------------------------------------------------------------------------
(* Properties.                                                                 *)

\* Every field keeps its range: the modes, levels, flags and sets of
\* SmtEngineState, Assertions, ResourceManager and the SAT solver.
TypeOK ==
  /\ options \in Options
  /\ engine.mode \in Modes
  /\ {engine.inited, engine.queryMade, engine.needPostsolve, engine.inSatMode}
       \subseteq BOOLEAN
  /\ engine.pendingPops \in 0 .. 1
  /\ engine.userLevels \in Seq(Nat \ {0})
  /\ engine.assertionList \in Seq(SUBSET (Formulas \cup RecDefs))
  /\ engine.buffer \subseteq Formulas \cup RecDefs
  /\ engine.globals \subseteq RecDefs
  /\ engine.assumptions \subseteq Formulas
  /\ engine.sat \in Seq([clauses : SUBSET (Formulas \cup RecDefs), ok : BOOLEAN])
  /\ engine.decisions \in 0 .. 1
  /\ engine.contextLevel \in Nat
  /\ engine.modelOf \subseteq Formulas \cup RecDefs
  /\ engine.callUsed \in 0 .. PerCallLimit
  /\ engine.cumulativeUsed \in 0 .. CumulativeLimit
  /\ answer \in {"none", "sat", "unsat", "unknown", "refused"}

\* No Assert of the calls fails: the trail has no decisions when the SAT solver
\* pushes, pops or solves, assertions are processed with no pop pending, a user
\* pop has a level to pop, and a reset ends at the first user level.
NoAssertFails == engine.failed = "none"

\* The three stacks that three owners push and pop move together: the user
\* context, the assertion levels of the SAT solver, and the SAT context with the
\* decisions a search left; and the user's frames start at increasing levels,
\* none of them among the levels that wait to be popped.
LevelsAgree ==
  LET frame == engine.userLevels
      kept == UserLevel(engine) - engine.pendingPops
  IN engine.inited =>
       /\ engine.contextLevel = UserLevel(engine) + engine.decisions
       /\ UserLevel(engine) = AssertionLevel(engine) + 1
       /\ \A k \in DOMAIN frame :
            frame[k] < IF k < Len(frame) THEN frame[k + 1] ELSE kept

\* A formula is at the SAT solver at the very user level it was asserted at, or
\* waits in the buffer for the top level; only a level known to be
\* unsatisfiable may lack some of its formulas.
SatHoldsTheStack ==
  \A l \in 1 .. UserLevel(engine) :
    LET here == engine.sat[l]
        waiting == IF l = UserLevel(engine) THEN engine.buffer ELSE {}
    IN /\ here.clauses \cup waiting \subseteq engine.assertionList[l] \cup RecDefs
       /\ here.ok => engine.assertionList[l] \ RecDefs \subseteq here.clauses \cup waiting

\* The frames of the user, read off the assertion list: the levels of a frame are
\* those above its push, but for the levels whose pops are pending.
FrameLevels(k) ==
  LET levels == engine.userLevels
      from == IF k = 1 THEN 1 ELSE levels[k - 1] + 1
      to == IF k <= Len(levels) THEN levels[k]
            ELSE UserLevel(engine) - engine.pendingPops
  IN from .. to

StackFrames ==
  [k \in 1 .. Len(engine.userLevels) + 1 |->
     UNION {engine.assertionList[l] \cap Formulas : l \in FrameLevels(k)}]

Stack == INSTANCE AssertionStack WITH
  single <- ~ Incremental,
  frames <- StackFrames,
  globals <- engine.globals,
  query <- engine.assumptions,
  answer <- IF answer = "refused" THEN "unknown" ELSE answer

\* Every check is answered for the formulas of the user's stack, the global
\* definitions and its own assumptions, whatever was buffered, pushed early or
\* popped late; and a call changes only the frames it is documented to change.
ImplementsStack == Stack!Spec

OnStack == (UNION Range(StackFrames)) \cup engine.globals \cup engine.assumptions

\* A model that getAvailableModel would hand out, by the mode of the engine and
\* the sat mode of the theories, is one of the very assertions, definitions and
\* assumptions that are now on the stack: each call that changes the stack first
\* ends the sat mode, and the mode alone does not tell.
ModelIsOfTheStack ==
  engine.mode \in {"SAT", "SAT_UNKNOWN"} /\ engine.inSatMode =>
    OnStack = engine.modelOf

\* smt_mode.h: the mode is UNSAT "immediately after a check-sat returning unsat",
\* the mode in which an unsat core may be asked for.  So the assertions on the
\* stack are then inconsistent.
UnsatIsOfTheStack == engine.mode = "UNSAT" => ~ Consistent(OnStack)
=============================================================================
