-------------------------- MODULE SmtEngineProofs --------------------------
(* The stack of an SmtEngine is sound, for all formulas, conflicts, settings   *)
(* and bounds.  The invariant Good relates the assertion list, the levels of   *)
(* the SAT solver, the buffer, the frames of the user and the model.  Each     *)
(* operator of SmtEngine has a lemma that says which fields it changes, each   *)
(* call one that says it keeps the invariant, and one (named ...Kept) that     *)
(* says what it does to the frames of the user.                                *)
EXTENDS SmtEngine, FiniteSetTheorems, SequenceTheorems, TLAPS

(* The formulas that are ever asserted.                                      *)
All == Formulas \cup RecDefs

(* An assertion level of the SAT solver.                                     *)
Level == [clauses : SUBSET All, ok : BOOLEAN]

(* The engines of the right type; only the Assert of a reset may have        *)
(* failed.                                                                   *)
Engines ==
  [inited : BOOLEAN, pendingPops : Nat, queryMade : BOOLEAN,
   needPostsolve : BOOLEAN, mode : Modes, userLevels : Seq(Nat \ {0}),
   assertionList : Seq(SUBSET All), buffer : SUBSET All, globals : SUBSET RecDefs,
   assumptions : SUBSET Formulas, sat : Seq(Level), decisions : {0, 1},
   contextLevel : Int, inSatMode : BOOLEAN, modelOf : SUBSET All,
   callUsed : Nat, cumulativeUsed : Nat,
   failed : {"none", "notifyResetAssertions"}]

(* What one operator leaves alone, in the groups the code changes together.  *)
SameCounts(d, e) == d.callUsed = e.callUsed /\ d.cumulativeUsed = e.cumulativeUsed

SameStacks(d, e) ==
  /\ d.assertionList = e.assertionList
  /\ d.sat = e.sat
  /\ d.contextLevel = e.contextLevel

SameFormulas(d, e) ==
  d.buffer = e.buffer /\ d.globals = e.globals /\ d.assumptions = e.assumptions

SameProtocol(d, e) ==
  /\ d.inited = e.inited /\ d.queryMade = e.queryMade /\ d.mode = e.mode
  /\ d.userLevels = e.userLevels /\ d.failed = e.failed

SamePostsolve(d, e) ==
  /\ d.pendingPops = e.pendingPops /\ d.needPostsolve = e.needPostsolve
  /\ d.decisions = e.decisions /\ d.inSatMode = e.inSatMode /\ d.modelOf = e.modelOf

(* Nothing waits: no pop is pending, no postsolve is needed and the trail    *)
(* has no decisions (the state that doPendingPops leaves).                   *)
Quiet(e) ==
  /\ e.pendingPops = 0 /\ e.needPostsolve = FALSE
  /\ e.decisions = 0 /\ e.inSatMode = FALSE

(* Decisions and a sat mode are there only while a postsolve will end them.  *)
Settled(e) == e.needPostsolve \/ (e.decisions = 0 /\ e.inSatMode = FALSE)

(* PropEngine::pop cuts the assertion levels and their contexts, nothing     *)
(* else, and its Assert holds when the trail has no decisions.               *)
LEMMA PropPopsFields ==
  ASSUME NEW e \in Engines, NEW n \in Nat, n <= Len(e.sat), n = 0 \/ e.decisions = 0
  PROVE LET d == PropPops(n, e) IN
        /\ d \in Engines
        /\ SameCounts(d, e) /\ SameFormulas(d, e) /\ SameProtocol(d, e)
        /\ SamePostsolve(d, e)
        /\ d.assertionList = e.assertionList
        /\ d.sat = SubSeq(e.sat, 1, Len(e.sat) - n)
        /\ d.contextLevel = e.contextLevel - n
<1>1. e.contextLevel - n \in Int BY DEF Engines
<1>2. SubSeq(e.sat, 1, Len(e.sat) - n) \in Seq(Level) BY DEF Engines
<1>3. QED BY <1>1, <1>2 DEF Engines, PropPops, AssertThat, SameCounts, SameFormulas, SameProtocol,
  SamePostsolve

(* doPendingPops cuts every stack by the pending pops and leaves the engine  *)
(* quiet.                                                                    *)
LEMMA DoPendingPopsFields ==
  ASSUME NEW e \in Engines, e.pendingPops <= Len(e.sat),
         e.pendingPops <= Len(e.assertionList),
         Settled(e)
  PROVE LET d == DoPendingPops(e) IN
        /\ d \in Engines
        /\ Quiet(d)
        /\ SameCounts(d, e) /\ SameFormulas(d, e) /\ SameProtocol(d, e)
        /\ d.assertionList = SubSeq(e.assertionList, 1, Len(e.assertionList) - e.pendingPops)
        /\ d.sat = SubSeq(e.sat, 1, Len(e.sat) - e.pendingPops)
        /\ d.contextLevel = e.contextLevel - e.decisions - e.pendingPops
<1> DEFINE r == IF e.needPostsolve
                 THEN [ResetTrail(e) EXCEPT !.inSatMode = FALSE, !.modelOf = {}]
                 ELSE e
           p == PropPops(e.pendingPops, r)
<1>1. /\ r \in Engines
      /\ SameCounts(r, e) /\ SameFormulas(r, e) /\ SameProtocol(r, e)
      /\ r.pendingPops = e.pendingPops /\ r.assertionList = e.assertionList
      /\ r.sat = e.sat
      /\ r.decisions = 0 /\ r.inSatMode = FALSE
      /\ r.contextLevel = e.contextLevel - e.decisions
  <2>1. e.contextLevel - e.decisions \in Int BY DEF Engines
  <2>2. CASE e.needPostsolve
    BY <2>1, <2>2 DEF Engines, ResetTrail, SameCounts, SameFormulas, SameProtocol
  <2>3. CASE ~ e.needPostsolve
    BY <2>1, <2>3 DEF Engines, SameCounts, SameFormulas, SameProtocol, Settled
  <2>4. QED BY <2>2, <2>3
<1> HIDE DEF r
<1>2. /\ p \in Engines
      /\ SameCounts(p, e) /\ SameFormulas(p, e) /\ SameProtocol(p, e)
      /\ p.assertionList = e.assertionList
      /\ p.sat = SubSeq(e.sat, 1, Len(e.sat) - e.pendingPops)
      /\ p.decisions = 0 /\ p.inSatMode = FALSE
      /\ p.contextLevel = e.contextLevel - e.decisions - e.pendingPops
  <2>1. e.pendingPops \in Nat BY DEF Engines
  <2>2. /\ p \in Engines
        /\ SameCounts(p, r) /\ SameFormulas(p, r) /\ SameProtocol(p, r)
        /\ SamePostsolve(p, r)
        /\ p.assertionList = r.assertionList
        /\ p.sat = SubSeq(r.sat, 1, Len(r.sat) - e.pendingPops)
        /\ p.contextLevel = r.contextLevel - e.pendingPops
    BY <1>1, <2>1, PropPopsFields
  <2>3. QED
    BY <1>1, <2>2
      DEF SameCounts, SameFormulas, SameProtocol, SamePostsolve
<1> DEFINE L == SubSeq(e.assertionList, 1, Len(e.assertionList) - e.pendingPops)
           q == [p EXCEPT !.assertionList = L]
<1>3. L \in Seq(SUBSET All)
  BY DEF Engines
<1>4. DoPendingPops(e) = [q EXCEPT !.pendingPops = 0, !.needPostsolve = FALSE]
  <2>1. p.assertionList = e.assertionList BY <1>2
  <2>2. QED BY <2>1 DEF DoPendingPops, PopUserLevels, r
<1> HIDE DEF p, L
<1>5. /\ q \in Engines
      /\ SameCounts(q, p) /\ SameFormulas(q, p) /\ SameProtocol(q, p)
      /\ SamePostsolve(q, p)
      /\ q.assertionList = L
      /\ q.sat = p.sat /\ q.contextLevel = p.contextLevel
  BY <1>2, <1>3
    DEF Engines, SameCounts, SameFormulas, SameProtocol, SamePostsolve
<1> HIDE DEF q
<1> DEFINE d == [q EXCEPT !.pendingPops = 0, !.needPostsolve = FALSE]
<1>6. /\ d \in Engines
      /\ SameCounts(d, q) /\ SameFormulas(d, q) /\ SameProtocol(d, q)
      /\ d.pendingPops = 0 /\ d.needPostsolve = FALSE
      /\ d.decisions = q.decisions /\ d.inSatMode = q.inSatMode
      /\ SameStacks(d, q)
  BY <1>5 DEF Engines, SameCounts, SameFormulas, SameProtocol, SameStacks
<1> HIDE DEF d
<1>7. QED
  BY <1>2, <1>4, <1>5, <1>6
    DEF d, L, Quiet, SameCounts, SameFormulas, SameProtocol, SamePostsolve, SameStacks

(* The clauses of the first l levels.                                        *)
ClausesTo(sat, l) == UNION {sat[m].clauses : m \in 1 .. l}

(* The SAT solver holds the assertion list: level by level, what a level     *)
(* lacks is only what waits for the top level, a level that is shut is       *)
(* inconsistent with those below it, and above a shut level all are shut.    *)
Holds(list, sat, waiting, globals) ==
  \A l \in 1 .. Len(list) :
    LET clauses == sat[l].clauses \cup IF l = Len(list) THEN waiting ELSE {}
    IN /\ clauses \subseteq (list[l] \cap Formulas) \cup globals
       /\ sat[l].ok => list[l] \cap Formulas \subseteq clauses
       /\ ~ sat[l].ok => ~ Consistent(ClausesTo(sat, l))
       /\ sat[l].ok => \A m \in 1 .. l : sat[m].ok

(* The levels after some formulas were added at the top, at once known to be *)
(* inconsistent or not.                                                      *)
Asserted(later, sat, S) ==
  LET n == Len(sat) IN
  /\ later \in Seq(Level) /\ Len(later) = n
  /\ \A l \in 1 .. n - 1 : later[l] = sat[l]
  /\ \/ ~ sat[n].ok /\ later[n] = sat[n]
     \/ /\ sat[n].ok
        /\ later[n].clauses = sat[n].clauses \cup S
        /\ ~ later[n].ok => ~ Consistent(ClausesTo(later, n))

(* A subset of a consistent set is consistent.                               *)
LEMMA ConsistentSubset ==
  ASSUME NEW S, NEW T, S \subseteq T, Consistent(T)
  PROVE Consistent(S)
BY DEF Consistent

(* More clauses, or more levels, hold at least the same clauses.             *)
LEMMA ClausesToMonotone ==
  ASSUME NEW s \in Seq(Level), NEW t \in Seq(Level), NEW l \in Nat, NEW m \in Nat, l <= m,
         m <= Len(s), m <= Len(t),
         \A k \in 1 .. l : s[k].clauses \subseteq t[k].clauses
  PROVE ClausesTo(s, l) \subseteq ClausesTo(t, m)
BY DEF ClausesTo

(* Cutting the list and the levels together keeps what they hold.            *)
LEMMA HoldsCut ==
  ASSUME NEW list \in Seq(SUBSET All), NEW sat \in Seq(Level), Len(sat) = Len(list),
         NEW waiting, NEW globals, Holds(list, sat, waiting, globals),
         NEW n \in 0 .. Len(list), n < Len(list) \/ waiting = {}
  PROVE Holds(SubSeq(list, 1, n), SubSeq(sat, 1, n), {}, globals)
<1> DEFINE list2 == SubSeq(list, 1, n)
           sat2 == SubSeq(sat, 1, n)
<1>1. /\ list2 \in Seq(SUBSET All) /\ Len(list2) = n
      /\ sat2 \in Seq(Level) /\ Len(sat2) = n
      /\ \A k \in 1 .. n : list2[k] = list[k] /\ sat2[k] = sat[k]
  OBVIOUS
<1> HIDE DEF list2, sat2
<1>2. ASSUME NEW l \in 1 .. n PROVE ClausesTo(sat2, l) = ClausesTo(sat, l)
  BY <1>1, SMTT(30) DEF ClausesTo
<1>3. ASSUME NEW l \in 1 .. n
      PROVE /\ l \in 1 .. Len(list)
            /\ (IF l = Len(list) THEN waiting ELSE {}) = {}
  OBVIOUS
<1>4. ASSUME NEW l \in 1 .. n
      PROVE /\ sat2[l].clauses \subseteq (list2[l] \cap Formulas) \cup globals
            /\ sat2[l].ok => list2[l] \cap Formulas \subseteq sat2[l].clauses
            /\ ~ sat2[l].ok => ~ Consistent(ClausesTo(sat2, l))
            /\ sat2[l].ok => \A m \in 1 .. l : sat2[m].ok
  <2>1. /\ sat[l].clauses \subseteq (list[l] \cap Formulas) \cup globals
        /\ sat[l].ok => list[l] \cap Formulas \subseteq sat[l].clauses
        /\ ~ sat[l].ok => ~ Consistent(ClausesTo(sat, l))
        /\ sat[l].ok => \A m \in 1 .. l : sat[m].ok
    BY <1>3 DEF Holds
  <2>2. \A m \in 1 .. l : sat2[m] = sat[m]
    BY <1>1
  <2>3. QED BY <1>1, <1>2, <2>1, <2>2
<1>5. Holds(list2, sat2, {}, globals)
  BY <1>1, <1>4 DEF Holds
<1>6. QED BY <1>5 DEF list2, sat2

(* So does pushing an empty level.                                           *)
LEMMA HoldsPush ==
  ASSUME NEW list \in Seq(SUBSET All), NEW sat \in Seq(Level), Len(sat) = Len(list),
         Len(list) > 0, NEW globals, Holds(list, sat, {}, globals)
  PROVE Holds(Append(list, {}), Append(sat, [clauses |-> {}, ok |-> Last(sat).ok]),
              {}, globals)
<1> DEFINE n == Len(list)
           top == [clauses |-> {}, ok |-> Last(sat).ok]
           list2 == Append(list, {})
           sat2 == Append(sat, top)
<1>1. Last(sat) = sat[n] /\ sat[n] \in Level BY DEF Last
<1>2. top \in Level /\ top.clauses = {} /\ top.ok = sat[n].ok BY <1>1 DEF Level
<1> HIDE DEF top
<1>3. /\ list2 \in Seq(SUBSET All) /\ Len(list2) = n + 1
      /\ sat2 \in Seq(Level) /\ Len(sat2) = n + 1
      /\ \A k \in 1 .. n : list2[k] = list[k] /\ sat2[k] = sat[k]
      /\ list2[n + 1] = {} /\ sat2[n + 1] = top
  BY <1>2
<1> HIDE DEF list2, sat2
<1>4. ASSUME NEW l \in 1 .. n PROVE ClausesTo(sat2, l) = ClausesTo(sat, l)
  BY <1>3, SMTT(30) DEF ClausesTo
<1>5. ClausesTo(sat2, n + 1) = ClausesTo(sat, n)
  BY <1>2, <1>3 DEF ClausesTo
<1>6. n \in 1 .. n OBVIOUS
<1>7. ASSUME NEW l \in 1 .. n
      PROVE /\ sat2[l].clauses \subseteq (list2[l] \cap Formulas) \cup globals
            /\ sat2[l].ok => list2[l] \cap Formulas \subseteq sat2[l].clauses
            /\ ~ sat2[l].ok => ~ Consistent(ClausesTo(sat2, l))
            /\ sat2[l].ok => \A m \in 1 .. l : sat2[m].ok
  BY <1>3, <1>4 DEF Holds
<1>8. /\ ~ sat2[n + 1].ok => ~ Consistent(ClausesTo(sat2, n + 1))
      /\ sat2[n + 1].ok => \A m \in 1 .. n + 1 : sat2[m].ok
  BY <1>2, <1>3, <1>4, <1>5, <1>6, <1>7
<1>9. Holds(list2, sat2, {}, globals)
  BY <1>2, <1>3, <1>7, <1>8 DEF Holds
<1>10. QED BY <1>9 DEF list2, sat2, top

(* So does adding formulas to the top of the list that wait in the buffer.   *)
LEMMA HoldsAdd ==
  ASSUME NEW list \in Seq(SUBSET All), NEW sat \in Seq(Level), Len(sat) = Len(list),
         Len(list) > 0, NEW waiting, NEW globals, Holds(list, sat, waiting, globals),
         NEW S \in SUBSET All, NEW W \in SUBSET S, S \cap Formulas \subseteq W,
         NEW globals2, globals \subseteq globals2, W \ Formulas \subseteq globals2
  PROVE Holds([list EXCEPT ![Len(list)] = @ \cup S], sat, waiting \cup W, globals2)
<1> DEFINE n == Len(list)
           list2 == [list EXCEPT ![n] = @ \cup S]
<1>1. /\ list2 \in Seq(SUBSET All) /\ Len(list2) = n
      /\ \A k \in 1 .. n - 1 : list2[k] = list[k]
      /\ list2[n] = list[n] \cup S
  OBVIOUS
<1> HIDE DEF list2
<1>2. QED BY <1>1 DEF Holds, list2

(* So does handing the waiting formulas to the SAT solver.                   *)
LEMMA HoldsAsserted ==
  ASSUME NEW list \in Seq(SUBSET All), NEW sat \in Seq(Level), Len(sat) = Len(list),
         Len(list) > 0, NEW waiting, NEW globals, Holds(list, sat, waiting, globals),
         NEW later, Asserted(later, sat, waiting)
  PROVE Holds(list, later, {}, globals)
<1> DEFINE n == Len(list)
<1>1. ASSUME NEW l \in 1 .. n PROVE ClausesTo(sat, l) \subseteq ClausesTo(later, l)
  BY DEF Asserted, ClausesTo
<1>2. ASSUME NEW l \in 1 .. n, Consistent(ClausesTo(later, l)) PROVE Consistent(ClausesTo(sat, l))
  BY <1>1, <1>2, ConsistentSubset
<1>3. ASSUME NEW l \in 1 .. n - 1
      PROVE /\ later[l].clauses \subseteq (list[l] \cap Formulas) \cup globals
            /\ later[l].ok => list[l] \cap Formulas \subseteq later[l].clauses
            /\ ~ later[l].ok => ~ Consistent(ClausesTo(later, l))
            /\ later[l].ok => \A m \in 1 .. l : later[m].ok
  BY <1>2 DEF Holds, Asserted
<1>4. /\ later[n].clauses \subseteq (list[n] \cap Formulas) \cup globals
      /\ later[n].ok => list[n] \cap Formulas \subseteq later[n].clauses
  BY DEF Holds, Asserted
<1>5. ~ later[n].ok => ~ Consistent(ClausesTo(later, n))
  <2>1. n \in 1 .. n OBVIOUS
  <2>2. QED BY <1>2, <2>1 DEF Holds, Asserted
<1>6. later[n].ok => \A m \in 1 .. n : later[m].ok
  BY DEF Holds, Asserted
<1>7. QED BY <1>3, <1>4, <1>5, <1>6 DEF Holds

-----------------------------------------------------------------------------
(* The resource counters stay within their limits.                           *)
Counted(o, e) ==
  /\ e.callUsed \in 0 .. o.perCallResourceLimit
  /\ e.cumulativeUsed \in 0 .. o.cumulativeResourceLimit

(* The levels of an engine in use: the three stacks agree in length, the     *)
(* pending pops leave the first level, and the frames of the user start at   *)
(* increasing levels below the pending ones.                                 *)
Levels(o, e) ==
  LET n == Len(e.assertionList)
      frame == e.userLevels
  IN /\ e.inited = TRUE
     /\ Len(e.sat) = n
     /\ e.contextLevel = n + e.decisions
     /\ e.pendingPops < n
     /\ Settled(e)
     /\ \A k \in 1 .. Len(frame) : frame[k] < n - e.pendingPops
     /\ \A j, k \in 1 .. Len(frame) : j < k => frame[j] < frame[k]
     /\ ~ o.incrementalSolving => n = 1 /\ frame = <<>>

(* The settings are typed as SmtEngineAssumption says.                       *)
LEMMA OptionsTyped ==
  ASSUME NEW o \in Options
  PROVE /\ o.incrementalSolving \in BOOLEAN
        /\ o.perCallResourceLimit \in Nat
        /\ o.cumulativeResourceLimit \in Nat
BY SmtEngineAssumption

(* Spending a resource changes the counters only, within their limits.       *)
LEMMA SpendFields ==
  ASSUME options \in Options, NEW e \in Engines, Counted(options, e), NEW k \in 0 .. 1
  PROVE LET d == SpendResource(k, e) IN
        /\ d \in Engines
        /\ Counted(options, d)
        /\ SameFormulas(d, e) /\ SameProtocol(d, e) /\ SamePostsolve(d, e)
        /\ SameStacks(d, e)
<1> DEFINE call == UpTo(e.callUsed + k, PerCallLimit)
           cumulative == UpTo(e.cumulativeUsed + k, CumulativeLimit)
<1>1. /\ call \in 0 .. PerCallLimit /\ call \in Nat
      /\ cumulative \in 0 .. CumulativeLimit /\ cumulative \in Nat
  BY OptionsTyped DEF UpTo, Counted, PerCallLimit, CumulativeLimit
<1>2. SpendResource(k, e) = [e EXCEPT !.callUsed = call, !.cumulativeUsed = cumulative]
  BY DEF SpendResource
<1> HIDE DEF call, cumulative
<1>3. QED
  BY <1>1, <1>2
    DEF Engines, Counted, PerCallLimit, CumulativeLimit, SameFormulas, SameProtocol,
        SamePostsolve, SameStacks

(* Asserting formulas changes the top level of the SAT solver only.          *)
LEMMA AssertInputFormulasFields ==
  ASSUME NEW e \in Engines, Len(e.sat) > 0, NEW S \in SUBSET All, NEW noticed \in BOOLEAN
  PROVE LET d == AssertInputFormulas(S, noticed, e) IN
        /\ d \in Engines
        /\ SameCounts(d, e) /\ SameFormulas(d, e) /\ SameProtocol(d, e)
        /\ SamePostsolve(d, e)
        /\ d.assertionList = e.assertionList /\ d.contextLevel = e.contextLevel
        /\ Asserted(d.sat, e.sat, S)
<1> DEFINE n == Len(e.sat)
           more == [e.sat[n] EXCEPT !.clauses = @ \cup S]
           grown == [e.sat EXCEPT ![n] = more]
           shut == [more EXCEPT !.ok = FALSE]
           closed == [e.sat EXCEPT ![n] = shut]
           added == [e EXCEPT !.sat = grown]
           d == AssertInputFormulas(S, noticed, e)
<1>1. e.sat \in Seq(Level) /\ n \in 1 .. n /\ e.sat[n] \in Level BY DEF Engines
<1>2. /\ more \in Level /\ more.clauses = e.sat[n].clauses \cup S /\ more.ok = e.sat[n].ok
      /\ shut \in Level /\ shut.clauses = e.sat[n].clauses \cup S /\ shut.ok = FALSE
  BY <1>1 DEF Level
<1>3. /\ grown \in Seq(Level) /\ Len(grown) = n /\ grown[n] = more
      /\ closed \in Seq(Level) /\ Len(closed) = n /\ closed[n] = shut
      /\ \A l \in 1 .. n - 1 : grown[l] = e.sat[l] /\ closed[l] = e.sat[l]
  <2> HIDE DEF more, shut
  <2>1. QED BY <1>1, <1>2
<1>4. added \in Engines /\ added.sat = grown
  BY <1>3 DEF Engines
<1>5. \/ ~ e.sat[n].ok /\ d = e
      \/ e.sat[n].ok /\ d = added
      \/ e.sat[n].ok /\ d = [added EXCEPT !.sat = closed] /\ ~ Consistent(SatClauses(added))
  <2>1. [e EXCEPT !.sat[n].clauses = @ \cup S] = added OBVIOUS
  <2>2. [added EXCEPT !.sat[n].ok = FALSE] = [added EXCEPT !.sat = closed]
    <3>1. [grown EXCEPT ![n] = shut] = closed
      <4> HIDE DEF more, shut
      <4>1. QED BY <1>1, <1>2, <1>3
    <3>2. [added EXCEPT !.sat[n].ok = FALSE] = [added EXCEPT !.sat = [grown EXCEPT ![n] = shut]]
      <4> HIDE DEF grown, closed, more, added
      <4>1. QED BY <1>3, <1>4
    <3>3. QED BY <3>1, <3>2
  <2>3. QED BY <2>1, <2>2 DEF AssertInputFormulas
<1> HIDE DEF more, shut, grown, closed
<1> DEFINE Goal(x) ==
             /\ x \in Engines
             /\ SameCounts(x, e) /\ SameFormulas(x, e) /\ SameProtocol(x, e)
             /\ SamePostsolve(x, e)
             /\ x.assertionList = e.assertionList /\ x.contextLevel = e.contextLevel
             /\ Asserted(x.sat, e.sat, S)
<1>6. ASSUME ~ e.sat[n].ok PROVE Goal(e)
  BY <1>1, <1>6 DEF SameCounts, SameFormulas, SameProtocol, SamePostsolve, Asserted
<1>7. ASSUME e.sat[n].ok PROVE Goal(added)
  <2>1. Asserted(grown, e.sat, S)
    BY <1>1, <1>2, <1>3, <1>7 DEF Asserted
  <2>2. QED
    BY <1>4, <2>1
      DEF Engines, SameCounts, SameFormulas, SameProtocol, SamePostsolve
<1>8. ASSUME e.sat[n].ok, ~ Consistent(SatClauses(added))
      PROVE Goal([added EXCEPT !.sat = closed])
  <2>1. SatClauses(added) = ClausesTo(closed, n)
    <3> HIDE DEF added
    <3>1. DOMAIN grown = 1 .. n BY <1>3
    <3>2. \A l \in 1 .. n : grown[l].clauses = closed[l].clauses
      <4>1. \A l \in 1 .. n : l \in 1 .. n - 1 \/ l = n BY <1>1
      <4>2. grown[n].clauses = closed[n].clauses BY <1>2, <1>3
      <4> HIDE DEF n
      <4>3. QED BY <1>3, <4>1, <4>2
    <3>3. SatClauses(added) = UNION {grown[l].clauses : l \in 1 .. n}
      <4> HIDE DEF n
      <4>1. QED BY <1>4, <3>1 DEF SatClauses
    <3>4. {grown[l].clauses : l \in 1 .. n} = {closed[l].clauses : l \in 1 .. n}
      <4> HIDE DEF n
      <4>1. QED BY <3>2
    <3>5. QED BY <3>3, <3>4 DEF ClausesTo
  <2>2. Asserted(closed, e.sat, S)
    BY <1>1, <1>2, <1>3, <1>8, <2>1 DEF Asserted
  <2>3. QED
    BY <1>3, <2>2
      DEF Engines, SameCounts, SameFormulas, SameProtocol, SamePostsolve
<1>9. Goal(d) BY <1>5, <1>6, <1>7, <1>8
<1>10. QED BY <1>9

(* Adding nothing is a case of adding.                                       *)
LEMMA AssertedNothing ==
  ASSUME NEW sat \in Seq(Level), Len(sat) > 0
  PROVE Asserted(sat, sat, {})
BY DEF Asserted, Level

(* processAssertions empties the buffer into the SAT solver; its Assert      *)
(* holds when the engine is initialised and no pop is pending.               *)
LEMMA ProcessAssertionsFields ==
  ASSUME options \in Options, NEW e \in Engines, Counted(options, e), e.inited = TRUE,
         e.pendingPops = 0, Len(e.sat) > 0, NEW noticed \in BOOLEAN
  PROVE LET d == ProcessAssertions(noticed, e) IN
        /\ d \in Engines
        /\ Counted(options, d)
        /\ SameProtocol(d, e) /\ SamePostsolve(d, e)
        /\ d.buffer = {} /\ d.globals = e.globals /\ d.assumptions = e.assumptions
        /\ d.assertionList = e.assertionList /\ d.contextLevel = e.contextLevel
        /\ Asserted(d.sat, e.sat, e.buffer)
<1> DEFINE spent == SpendResource(1, e)
           told == AssertInputFormulas(e.buffer, noticed, spent)
           asserted == [told EXCEPT !.buffer = {}]
           d == ProcessAssertions(noticed, e)
<1>1. /\ spent \in Engines
      /\ Counted(options, spent)
      /\ SameFormulas(spent, e) /\ SameProtocol(spent, e) /\ SamePostsolve(spent, e)
      /\ SameStacks(spent, e)
  BY SpendFields
<1>2. d = IF e.buffer = {} THEN spent ELSE asserted
  BY DEF ProcessAssertions, AssertThat
<1> HIDE DEF d, spent
<1>3. CASE e.buffer = {}
  <2>1. Asserted(e.sat, e.sat, {}) BY AssertedNothing DEF Engines
  <2>2. QED BY <1>1, <1>2, <1>3, <2>1 DEF SameFormulas, SameStacks, d
<1>4. CASE e.buffer # {}
  <2>1. e.buffer \in SUBSET All BY DEF Engines
  <2>2. /\ told \in Engines
        /\ SameCounts(told, spent) /\ SameFormulas(told, spent)
        /\ SameProtocol(told, spent) /\ SamePostsolve(told, spent)
        /\ told.assertionList = spent.assertionList
        /\ told.contextLevel = spent.contextLevel
        /\ Asserted(told.sat, spent.sat, e.buffer)
    BY <1>1, <2>1, AssertInputFormulasFields DEF SameStacks
  <2> HIDE DEF told
  <2>3. /\ asserted \in Engines
        /\ SameCounts(asserted, told) /\ SameProtocol(asserted, told)
        /\ SamePostsolve(asserted, told) /\ SameStacks(asserted, told)
        /\ asserted.buffer = {} /\ asserted.globals = told.globals
        /\ asserted.assumptions = told.assumptions
    BY <2>2 DEF Engines, SameCounts, SameProtocol, SamePostsolve, SameStacks
  <2> HIDE DEF asserted
  <2>4. d = asserted BY <1>2, <1>4
  <2>5. Asserted(asserted.sat, e.sat, e.buffer)
    BY <1>1, <2>2, <2>3 DEF SameStacks
  <2>6. /\ Counted(options, asserted)
        /\ asserted.assertionList = e.assertionList
        /\ asserted.contextLevel = e.contextLevel
        /\ asserted.globals = e.globals /\ asserted.assumptions = e.assumptions
    BY <1>1, <2>2, <2>3 DEF SameCounts, SameFormulas, SameStacks, Counted
  <2>7. SameProtocol(asserted, e) /\ SamePostsolve(asserted, e)
    BY <1>1, <2>2, <2>3 DEF SameProtocol, SamePostsolve
  <2>8. QED BY <2>3, <2>4, <2>5, <2>6, <2>7 DEF d
<1>5. QED BY <1>3, <1>4

(* The sizes of the stacks of an engine in use.                              *)
LEMMA LevelsSizes ==
  ASSUME NEW o, NEW e \in Engines, Levels(o, e)
  PROVE /\ Len(e.assertionList) \in Nat \ {0} /\ Len(e.sat) = Len(e.assertionList)
        /\ e.pendingPops \in Nat /\ e.pendingPops < Len(e.assertionList)
        /\ e.decisions \in {0, 1}
BY DEF Levels, Engines

(* Adding formulas changes the buffer and the top of the assertion list      *)
(* only.                                                                     *)
LEMMA AddFormulasFields ==
  ASSUME NEW e \in Engines, Len(e.assertionList) > 0, NEW S \in SUBSET All
  PROVE LET d == AddFormulas(S, e) IN
        /\ d \in Engines
        /\ SameCounts(d, e) /\ SameProtocol(d, e) /\ SamePostsolve(d, e)
        /\ d.sat = e.sat /\ d.contextLevel = e.contextLevel
        /\ d.globals = e.globals /\ d.assumptions = e.assumptions
        /\ d.buffer = e.buffer \cup S
        /\ d.assertionList = [e.assertionList EXCEPT ![Len(e.assertionList)] = @ \cup S]
        /\ Len(d.assertionList) = Len(e.assertionList)
<1> DEFINE n == Len(e.assertionList)
           grown == [e.assertionList EXCEPT ![n] = @ \cup S]
           more == e.buffer \cup S
<1>1. grown \in Seq(SUBSET All) /\ Len(grown) = n
  BY DEF Engines
<1>2. more \in SUBSET All BY DEF Engines
<1>3. AddFormulas(S, e) = [e EXCEPT !.buffer = more, !.assertionList = grown]
  BY DEF AddFormulas, UserLevel, Engines
<1> HIDE DEF grown, more
<1>4. QED
  BY <1>1, <1>2, <1>3
    DEF grown, more, Engines, SameCounts, SameProtocol, SamePostsolve

(* internalPush processes what is buffered below the level it pushes.        *)
LEMMA InternalPushFields ==
  ASSUME options \in Options, options.incrementalSolving = TRUE,
         NEW e \in Engines, Counted(options, e), e.inited = TRUE,
         Len(e.sat) = Len(e.assertionList), e.pendingPops < Len(e.assertionList),
         Settled(e), NEW noticed \in BOOLEAN
  PROVE LET d == InternalPush(noticed, e)
            p == ProcessAssertions(noticed, DoPendingPops(e))
        IN
        /\ d \in Engines
        /\ Counted(options, d)
        /\ Quiet(d)
        /\ SameProtocol(d, e)
        /\ d.buffer = {} /\ d.globals = e.globals /\ d.assumptions = e.assumptions
        /\ d.assertionList = Append(p.assertionList, {})
        /\ d.sat = Append(p.sat, [clauses |-> {}, ok |-> Last(p.sat).ok])
        /\ d.contextLevel = p.contextLevel + 1
<1> DEFINE r == DoPendingPops(e)
           p == ProcessAssertions(noticed, r)
           list == Append(p.assertionList, {})
           top == [clauses |-> {}, ok |-> Last(p.sat).ok]
           sat == Append(p.sat, top)
           q == [p EXCEPT !.assertionList = list]
<1>1. /\ r \in Engines
      /\ Quiet(r)
      /\ SameCounts(r, e) /\ SameFormulas(r, e) /\ SameProtocol(r, e)
      /\ r.sat = SubSeq(e.sat, 1, Len(e.sat) - e.pendingPops)
  <2>1. e.pendingPops <= Len(e.sat) /\ e.pendingPops <= Len(e.assertionList)
    BY DEF Engines
  <2>2. QED BY <2>1, DoPendingPopsFields
<1>2. Len(r.sat) > 0
  <2>1. e.sat \in Seq(Level) /\ e.pendingPops \in Nat BY DEF Engines
  <2>2. QED BY <1>1, <2>1
<1>3. Counted(options, r) /\ r.inited = TRUE /\ r.pendingPops = 0
  BY <1>1 DEF Counted, SameCounts, SameProtocol, Quiet
<1> HIDE DEF r
<1>4. /\ p \in Engines
      /\ Counted(options, p)
      /\ SameProtocol(p, r) /\ SamePostsolve(p, r)
      /\ p.buffer = {} /\ p.globals = r.globals /\ p.assumptions = r.assumptions
      /\ Asserted(p.sat, r.sat, r.buffer)
  BY <1>1, <1>2, <1>3, ProcessAssertionsFields
<1> HIDE DEF p
<1>5. list \in Seq(SUBSET All) BY <1>4 DEF Engines
<1>6. top \in Level /\ sat \in Seq(Level)
  <2>1. p.sat \in Seq(Level) /\ Len(p.sat) > 0 BY <1>2, <1>4 DEF Asserted
  <2>2. Last(p.sat) \in Level BY <2>1 DEF Last
  <2>3. top \in Level BY <2>2 DEF Level
  <2> HIDE DEF top
  <2>4. QED BY <2>1, <2>3
<1> HIDE DEF list, top
<1>7. /\ q \in Engines
      /\ SameCounts(q, p) /\ SameFormulas(q, p) /\ SameProtocol(q, p)
      /\ SamePostsolve(q, p)
      /\ q.assertionList = list /\ q.sat = p.sat /\ q.contextLevel = p.contextLevel
  BY <1>4, <1>5 DEF Engines, SameCounts, SameFormulas, SameProtocol, SamePostsolve
<1>8. q.decisions = 0 BY <1>1, <1>4, <1>7 DEF Quiet, SamePostsolve
<1>9. InternalPush(noticed, e) = PropPush(q)
  BY DEF InternalPush, Incremental, p, r, list
<1> HIDE DEF q
<1> DEFINE next == q.contextLevel + 1
           d == [q EXCEPT !.sat = sat, !.contextLevel = next]
<1>10. PropPush(q) = d
  BY <1>7, <1>8 DEF PropPush, AssertThat, top
<1>11. next \in Int BY <1>7 DEF Engines
<1> HIDE DEF next, sat
<1>12. /\ d \in Engines
       /\ SameCounts(d, q) /\ SameFormulas(d, q) /\ SameProtocol(d, q)
       /\ SamePostsolve(d, q)
       /\ d.assertionList = q.assertionList /\ d.sat = sat /\ d.contextLevel = next
  BY <1>6, <1>7, <1>11 DEF Engines, SameCounts, SameFormulas, SameProtocol, SamePostsolve
<1> HIDE DEF d
<1>13. /\ Counted(options, d)
       /\ SameProtocol(d, e)
       /\ d.buffer = {} /\ d.globals = e.globals /\ d.assumptions = e.assumptions
  BY <1>1, <1>4, <1>7, <1>12 DEF Counted, SameCounts, SameFormulas, SameProtocol
<1>14. Quiet(d)
  BY <1>1, <1>4, <1>7, <1>12 DEF Quiet, SamePostsolve
<1>15. /\ d.assertionList = Append(p.assertionList, {})
       /\ d.sat = Append(p.sat, [clauses |-> {}, ok |-> Last(p.sat).ok])
       /\ d.contextLevel = p.contextLevel + 1
  BY <1>7, <1>12 DEF list, sat, top, next
<1>16. QED BY <1>9, <1>10, <1>12, <1>13, <1>14, <1>15 DEF p, r

(* userPop cuts every stack to the level of the matching push; its Assert    *)
(* holds, as the matching push is below the pending levels.                  *)
LEMMA UserPopFields ==
  ASSUME options \in Options, NEW e \in Engines, Levels(options, e), e.userLevels # <<>>
  PROVE LET d == UserPop(e)
            t == Last(e.userLevels)
        IN
        /\ d \in Engines
        /\ Quiet(d)
        /\ SameCounts(d, e) /\ SameFormulas(d, e)
        /\ d.inited = e.inited /\ d.queryMade = e.queryMade /\ d.mode = "ASSERT"
        /\ d.failed = e.failed
        /\ d.userLevels = Front(e.userLevels)
        /\ t \in 1 .. Len(e.assertionList) - 1 - e.pendingPops
        /\ d.assertionList = SubSeq(e.assertionList, 1, t)
        /\ d.sat = SubSeq(e.sat, 1, t)
        /\ d.contextLevel = t
<1> DEFINE frame == e.userLevels
           t == Last(frame)
           n == Len(e.assertionList)
           excess == n - t
           x == [e EXCEPT !.pendingPops = excess, !.mode = "ASSERT"]
           p == DoPendingPops(x)
           d == [p EXCEPT !.userLevels = Front(frame)]
<1>1. /\ n \in Nat \ {0} /\ Len(e.sat) = n
      /\ e.pendingPops \in Nat /\ e.pendingPops < n
  BY LevelsSizes
<1>2. /\ t \in Nat \ {0} /\ t < n - e.pendingPops
      /\ Front(frame) \in Seq(Nat \ {0})
  <2>1. frame \in Seq(Nat \ {0}) /\ frame # <<>> BY DEF Engines
  <2>2. Len(frame) \in 1 .. Len(frame) BY <2>1
  <2>3. QED BY <2>1, <2>2 DEF Levels, Last, Front
<1>3. /\ excess \in Nat /\ excess > 0 /\ excess >= e.pendingPops + 1
      /\ excess <= n
  BY <1>1, <1>2
<1>4. (IF excess > e.pendingPops + 1 THEN excess ELSE e.pendingPops + 1) = excess
  BY <1>1, <1>3
<1>5. UserPop(e) = [p EXCEPT !.userLevels = Front(p.userLevels)]
  BY <1>1, <1>3, <1>4 DEF UserPop, UserLevel, AssertThat
<1> HIDE DEF excess
<1>6. /\ x \in Engines
      /\ SameCounts(x, e) /\ SameFormulas(x, e) /\ SameStacks(x, e)
      /\ x.inited = e.inited /\ x.queryMade = e.queryMade /\ x.mode = "ASSERT"
      /\ x.failed = e.failed /\ x.userLevels = e.userLevels
      /\ x.pendingPops = excess /\ x.decisions = e.decisions
      /\ Settled(x)
  <2>1. Settled(e) BY DEF Levels
  <2>2. QED
    BY <1>3, <2>1 DEF Engines, Modes, Settled, SameCounts, SameFormulas, SameStacks
<1> HIDE DEF x
<1>7. /\ p \in Engines
      /\ Quiet(p)
      /\ SameCounts(p, x) /\ SameFormulas(p, x) /\ SameProtocol(p, x)
      /\ p.assertionList = SubSeq(x.assertionList, 1, Len(x.assertionList) - x.pendingPops)
      /\ p.sat = SubSeq(x.sat, 1, Len(x.sat) - x.pendingPops)
      /\ p.contextLevel = x.contextLevel - x.decisions - x.pendingPops
  BY <1>1, <1>3, <1>6, DoPendingPopsFields DEF SameStacks
<1> HIDE DEF p
<1>8. /\ d \in Engines
      /\ SameCounts(d, p) /\ SameFormulas(d, p) /\ SamePostsolve(d, p) /\ SameStacks(d, p)
      /\ d.needPostsolve = p.needPostsolve
      /\ d.inited = p.inited /\ d.queryMade = p.queryMade /\ d.mode = p.mode
      /\ d.failed = p.failed /\ d.userLevels = Front(frame)
  BY <1>2, <1>7 DEF Engines, SameCounts, SameFormulas, SamePostsolve, SameStacks
<1> HIDE DEF d
<1>9. n - excess = t /\ e.contextLevel - e.decisions - excess = t
  BY <1>1, <1>2 DEF excess, Levels, Engines
<1>10. /\ d.assertionList = SubSeq(e.assertionList, 1, t)
       /\ d.sat = SubSeq(e.sat, 1, t)
       /\ d.contextLevel = t
  BY <1>1, <1>6, <1>7, <1>8, <1>9 DEF SameStacks
<1>11. Quiet(d) BY <1>7, <1>8 DEF Quiet, SamePostsolve
<1>12. /\ SameCounts(d, e) /\ SameFormulas(d, e)
       /\ d.inited = e.inited /\ d.queryMade = e.queryMade /\ d.mode = "ASSERT"
       /\ d.failed = e.failed
  BY <1>6, <1>7, <1>8 DEF SameCounts, SameFormulas, SameProtocol
<1>13. UserPop(e) = d
  BY <1>5, <1>6, <1>7 DEF SameProtocol, d
<1>14. t \in 1 .. n - 1 - e.pendingPops BY <1>1, <1>2
<1>15. QED BY <1>8, <1>10, <1>11, <1>12, <1>13, <1>14

-----------------------------------------------------------------------------
(* The user's formulas below the levels that wait to be popped.              *)
StackOf(e) ==
  Formulas \cap UNION {e.assertionList[l] : l \in 1 .. Len(e.assertionList) - e.pendingPops}

(* A model that the engine would hand out is one of the stack.               *)
Model(e) ==
  e.mode \in {"SAT", "SAT_UNKNOWN"} /\ e.inSatMode =>
    StackOf(e) \cup e.globals \cup e.assumptions = e.modelOf

(* The inductive invariant of an engine in use.                              *)
Good(o, e) ==
  /\ e \in Engines
  /\ Counted(o, e)
  /\ Levels(o, e)
  /\ Holds(e.assertionList, e.sat, e.buffer, e.globals)
  /\ Model(e)
  /\ e.pendingPops <= 1
  /\ e.pendingPops > 0 => e.buffer = {}

(* An engine that was constructed and not yet used, but for its counters.    *)
Fresh(o, e) ==
  /\ e \in Engines
  /\ Counted(o, e)
  /\ SameStacks(e, Constructed) /\ SameFormulas(e, Constructed)
  /\ SameProtocol(e, Constructed) /\ SamePostsolve(e, Constructed)

(* A quiet engine hands out no model.                                        *)
LEMMA QuietModel ==
  ASSUME NEW e, Quiet(e)
  PROVE Model(e) /\ Settled(e)
BY DEF Quiet, Model, Settled

(* doPendingPops keeps the levels in agreement.                              *)
LEMMA DoPendingPopsLevels ==
  ASSUME NEW o \in Options, NEW e \in Engines, Levels(o, e)
  PROVE LET d == DoPendingPops(e)
            n == Len(e.assertionList) - e.pendingPops
        IN
        /\ Levels(o, d) /\ d \in Engines /\ Quiet(d)
        /\ SameCounts(d, e) /\ SameFormulas(d, e) /\ SameProtocol(d, e)
        /\ d.assertionList = SubSeq(e.assertionList, 1, n)
        /\ d.sat = SubSeq(e.sat, 1, n)
        /\ Len(d.assertionList) = n
<1> DEFINE d == DoPendingPops(e)
           n == Len(e.assertionList) - e.pendingPops
<1>1. Settled(e) BY DEF Levels
<1>2. /\ Len(e.assertionList) \in Nat \ {0} /\ Len(e.sat) = Len(e.assertionList)
      /\ e.pendingPops \in Nat /\ e.pendingPops < Len(e.assertionList)
      /\ e.decisions \in {0, 1}
  BY LevelsSizes
<1>3. /\ e.assertionList \in Seq(SUBSET All) /\ e.sat \in Seq(Level)
      /\ e.userLevels \in Seq(Nat \ {0}) /\ e.contextLevel \in Int
  BY DEF Engines
<1>4. /\ d \in Engines
      /\ Quiet(d)
      /\ SameCounts(d, e) /\ SameFormulas(d, e) /\ SameProtocol(d, e)
      /\ d.assertionList = SubSeq(e.assertionList, 1, n)
      /\ d.sat = SubSeq(e.sat, 1, n)
      /\ d.contextLevel = e.contextLevel - e.decisions - e.pendingPops
  BY <1>1, <1>2, DoPendingPopsFields
<1> HIDE DEF d
<1>5. Len(d.assertionList) = n /\ Len(d.sat) = n
  BY <1>2, <1>3, <1>4
<1>6. Levels(o, d)
  <2>1. d.userLevels = e.userLevels /\ d.inited = e.inited
    BY <1>4 DEF SameProtocol
  <2>2. d.pendingPops = 0 /\ d.decisions = 0 /\ Settled(d)
    BY <1>4 DEF Quiet, Settled
  <2>3. d.contextLevel = n
    BY <1>2, <1>3, <1>4 DEF Levels
  <2>4. /\ \A k \in 1 .. Len(e.userLevels) : e.userLevels[k] < n
        /\ \A j, k \in 1 .. Len(e.userLevels) : j < k => e.userLevels[j] < e.userLevels[k]
        /\ ~ o.incrementalSolving => Len(e.assertionList) = 1 /\ e.userLevels = <<>>
        /\ e.inited = TRUE
    BY DEF Levels
  <2>5. n > 0 BY <1>2
  <2>6. ASSUME ~ o.incrementalSolving PROVE n = 1 /\ e.userLevels = <<>>
    <3>1. Len(e.assertionList) = 1 /\ e.userLevels = <<>> BY <2>4, <2>6
    <3>2. QED BY <1>2, <3>1
  <2> HIDE DEF n
  <2>7. QED BY <1>5, <2>1, <2>2, <2>3, <2>4, <2>5, <2>6 DEF Levels
<1>7. QED BY <1>4, <1>5, <1>6 DEF d

(* doPendingPops keeps the invariant.                                        *)
LEMMA DoPendingPopsGood ==
  ASSUME NEW o \in Options, NEW e, Good(o, e)
  PROVE LET d == DoPendingPops(e)
            n == Len(e.assertionList) - e.pendingPops
        IN
        /\ Good(o, d) /\ Quiet(d)
        /\ SameCounts(d, e) /\ SameFormulas(d, e) /\ SameProtocol(d, e)
        /\ d.assertionList = SubSeq(e.assertionList, 1, n)
        /\ Len(d.assertionList) = n
<1> DEFINE d == DoPendingPops(e)
           n == Len(e.assertionList) - e.pendingPops
<1>1. /\ e \in Engines /\ Levels(o, e) /\ Counted(o, e)
      /\ Holds(e.assertionList, e.sat, e.buffer, e.globals)
      /\ e.pendingPops <= 1 /\ (e.pendingPops > 0 => e.buffer = {})
  BY DEF Good
<1>2. /\ Len(e.assertionList) \in Nat \ {0} /\ Len(e.sat) = Len(e.assertionList)
      /\ e.pendingPops \in Nat /\ e.pendingPops < Len(e.assertionList)
  BY <1>1, LevelsSizes
<1>3. e.assertionList \in Seq(SUBSET All) /\ e.sat \in Seq(Level)
  BY <1>1 DEF Engines
<1>4. /\ Levels(o, d) /\ d \in Engines /\ Quiet(d)
      /\ SameCounts(d, e) /\ SameFormulas(d, e) /\ SameProtocol(d, e)
      /\ d.assertionList = SubSeq(e.assertionList, 1, n)
      /\ d.sat = SubSeq(e.sat, 1, n)
      /\ Len(d.assertionList) = n
  BY <1>1, DoPendingPopsLevels
<1> HIDE DEF d
<1>5. Holds(d.assertionList, d.sat, d.buffer, d.globals)
  <2>1. d.buffer = e.buffer /\ d.globals = e.globals BY <1>4 DEF SameFormulas
  <2>2. CASE e.pendingPops = 0
    <3>1. d.assertionList = e.assertionList /\ d.sat = e.sat
      BY <1>2, <1>3, <1>4, <2>2
    <3>2. QED BY <1>1, <2>1, <3>1
  <2>3. CASE e.pendingPops > 0
    <3>1. n \in 0 .. Len(e.assertionList) /\ n < Len(e.assertionList)
      BY <1>2, <2>3
    <3>2. Holds(SubSeq(e.assertionList, 1, n), SubSeq(e.sat, 1, n), {}, e.globals)
      BY <1>1, <1>2, <1>3, <3>1, HoldsCut
    <3>3. QED BY <1>1, <1>4, <2>1, <2>3, <3>2
  <2>4. QED BY <1>2, <2>2, <2>3
<1>6. Counted(o, d) BY <1>1, <1>4 DEF Counted, SameCounts
<1>7. Model(d) /\ d.pendingPops = 0 BY <1>4, QuietModel DEF Quiet
<1>8. Good(o, d) BY <1>4, <1>5, <1>6, <1>7 DEF Good
<1>9. QED BY <1>4, <1>8 DEF d

(* An engine with one empty level everywhere satisfies the invariant.        *)
LEMMA NewStacksGood ==
  ASSUME NEW o \in Options, NEW e \in Engines, Counted(o, e), Quiet(e), e.inited = TRUE,
         e.userLevels = <<>>, e.assertionList = <<{}>>, e.contextLevel = 1,
         e.sat = <<[clauses |-> {}, ok |-> TRUE]>>, e.buffer = {}
  PROVE Good(o, e)
<1>1. /\ Len(e.assertionList) = 1 /\ e.assertionList[1] = {} /\ Len(e.sat) = 1
      /\ e.sat[1].clauses = {} /\ e.sat[1].ok = TRUE /\ Len(e.userLevels) = 0
  OBVIOUS
<1>2. Holds(e.assertionList, e.sat, e.buffer, e.globals)
  BY <1>1 DEF Holds
<1>3. Levels(o, e)
  <2>1. \A k \in 1 .. Len(e.userLevels) : FALSE BY <1>1
  <2>2. e.decisions = 0 /\ e.pendingPops = 0 /\ Settled(e) BY QuietModel DEF Quiet
  <2>3. QED BY <1>1, <2>1, <2>2 DEF Levels
<1>4. Model(e) /\ e.pendingPops = 0 BY QuietModel DEF Quiet
<1>5. QED BY <1>2, <1>3, <1>4 DEF Good

(* finishInit establishes the invariant.                                     *)
LEMMA FinishInitFields ==
  ASSUME NEW o \in Options, NEW e, Fresh(o, e)
  PROVE LET d == FinishInit(e) IN
        /\ Good(o, d) /\ Quiet(d)
        /\ SameCounts(d, e) /\ SameFormulas(d, e)
        /\ d.queryMade = e.queryMade /\ d.mode = e.mode
        /\ d.userLevels = e.userLevels /\ d.failed = e.failed
        /\ d.assertionList = <<{}>>
<1> DEFINE one == <<{}>>
           up == 1
           d == [e EXCEPT !.assertionList = one, !.contextLevel = up, !.inited = TRUE]
<1>1. /\ e \in Engines /\ Counted(o, e)
      /\ e.assertionList = <<>> /\ e.sat = <<[clauses |-> {}, ok |-> TRUE]>>
      /\ e.contextLevel = 0 /\ e.buffer = {} /\ e.inited = FALSE
      /\ e.userLevels = <<>> /\ e.pendingPops = 0 /\ e.needPostsolve = FALSE
      /\ e.decisions = 0 /\ e.inSatMode = FALSE
  BY DEF Fresh, SameStacks, SameFormulas, SameProtocol, SamePostsolve, Constructed
<1>2. FinishInit(e) = d
  <2>1. Append(e.assertionList, {}) = <<{}>> BY <1>1
  <2>2. QED BY <1>1, <2>1 DEF FinishInit, Setup, Engines
<1>3. one \in Seq(SUBSET All) /\ up \in Int OBVIOUS
<1> HIDE DEF one, up
<1>4. /\ d \in Engines /\ d.assertionList = one /\ d.contextLevel = up
      /\ SameCounts(d, e) /\ SameFormulas(d, e) /\ SamePostsolve(d, e)
      /\ d.queryMade = e.queryMade /\ d.mode = e.mode /\ d.inited = TRUE
      /\ d.userLevels = e.userLevels /\ d.failed = e.failed /\ d.sat = e.sat
  <2>1. e \in Engines BY <1>1
  <2>2. d \in Engines BY <2>1, <1>3 DEF Engines
  <2>3. d.assertionList = one /\ d.contextLevel = up /\ d.inited = TRUE /\ d.sat = e.sat
    BY <2>1 DEF Engines
  <2>4. /\ SameCounts(d, e) /\ SameFormulas(d, e) /\ SamePostsolve(d, e)
        /\ d.queryMade = e.queryMade /\ d.mode = e.mode
        /\ d.userLevels = e.userLevels /\ d.failed = e.failed
    BY <2>1 DEF Engines, SameCounts, SameFormulas, SamePostsolve
  <2>5. QED BY <2>2, <2>3, <2>4
<1> HIDE DEF d
<1>5. Quiet(d) /\ Counted(o, d) /\ d.buffer = {}
  BY <1>1, <1>4 DEF Quiet, Counted, SameCounts, SamePostsolve, SameFormulas
<1>6. Good(o, d) BY <1>1, <1>4, <1>5, NewStacksGood DEF one, up
<1>7. QED BY <1>2, <1>4, <1>5, <1>6 DEF one

(* An engine made ready for a call is good and quiet, with the pending       *)
(* levels gone and all else as it was.                                       *)
LEMMA ReadyGood ==
  ASSUME NEW o \in Options, NEW e, Fresh(o, e) \/ Good(o, e)
  PROVE LET d == Ready(e) IN
        /\ Good(o, d) /\ Quiet(d)
        /\ SameCounts(d, e) /\ SameFormulas(d, e)
        /\ d.queryMade = e.queryMade /\ d.mode = e.mode
        /\ d.userLevels = e.userLevels /\ d.failed = e.failed
        /\ d.assertionList = IF e.inited
             THEN SubSeq(e.assertionList, 1, Len(e.assertionList) - e.pendingPops)
             ELSE <<{}>>
        /\ Len(d.assertionList) = IF e.inited THEN Len(e.assertionList) - e.pendingPops ELSE 1
<1>1. CASE Good(o, e)
  <2>1. e.inited = TRUE /\ Ready(e) = DoPendingPops(e)
    BY <1>1 DEF Good, Levels, Ready, FinishInit
  <2>2. QED BY <1>1, <2>1, DoPendingPopsGood DEF SameProtocol
<1>2. CASE Fresh(o, e)
  <2> DEFINE i == FinishInit(e)
  <2>1. e.inited = FALSE BY <1>2 DEF Fresh, SameProtocol, Constructed
  <2>2. /\ Good(o, i) /\ Quiet(i)
        /\ SameCounts(i, e) /\ SameFormulas(i, e)
        /\ i.queryMade = e.queryMade /\ i.mode = e.mode
        /\ i.userLevels = e.userLevels /\ i.failed = e.failed
        /\ i.assertionList = <<{}>>
    BY <1>2, FinishInitFields
  <2> HIDE DEF i
  <2> DEFINE d == DoPendingPops(i)
  <2>3. /\ Good(o, d) /\ Quiet(d)
        /\ SameCounts(d, i) /\ SameFormulas(d, i) /\ SameProtocol(d, i)
        /\ d.assertionList = SubSeq(i.assertionList, 1, Len(i.assertionList) - i.pendingPops)
    BY <2>2, DoPendingPopsGood
  <2> HIDE DEF d
  <2>4. d.assertionList = <<{}>>
    <3>1. i.assertionList \in Seq(SUBSET All) /\ i.pendingPops = 0
      BY <2>2 DEF Quiet, Good, Engines
    <3>2. d.assertionList = i.assertionList BY <2>3, <3>1
    <3>3. QED BY <2>2, <3>2
  <2>5. SameCounts(d, e) /\ SameFormulas(d, e)
    BY <2>2, <2>3 DEF SameCounts, SameFormulas
  <2>6. /\ d.queryMade = e.queryMade /\ d.mode = e.mode
        /\ d.userLevels = e.userLevels /\ d.failed = e.failed
    BY <2>2, <2>3 DEF SameProtocol
  <2>7. Len(d.assertionList) = 1 BY <2>4
  <2>8. QED BY <2>1, <2>3, <2>4, <2>5, <2>6, <2>7 DEF Ready, d, i
<1>3. QED BY <1>1, <1>2

(* The levels agree still when no stack changed its size.                    *)
LEMMA SameLevels ==
  ASSUME NEW o, NEW e, NEW d, Levels(o, e), Quiet(e), Quiet(d),
         d.inited = e.inited, d.userLevels = e.userLevels,
         Len(d.assertionList) = Len(e.assertionList), Len(d.sat) = Len(e.sat),
         d.contextLevel = e.contextLevel
  PROVE Levels(o, d)
<1>1. Settled(d) BY QuietModel
<1>2. d.pendingPops = e.pendingPops /\ d.decisions = e.decisions BY DEF Quiet
<1>3. QED BY <1>1, <1>2 DEF Levels

(* The types and sizes of a good engine.                                     *)
LEMMA GoodSizes ==
  ASSUME NEW o, NEW e, Good(o, e)
  PROVE /\ e \in Engines
        /\ Len(e.assertionList) \in Nat \ {0} /\ Len(e.sat) = Len(e.assertionList)
        /\ e.pendingPops \in Nat /\ e.pendingPops < Len(e.assertionList)
        /\ e.assertionList \in Seq(SUBSET All) /\ e.sat \in Seq(Level)
        /\ e.userLevels \in Seq(Nat \ {0}) /\ e.buffer \in SUBSET All
        /\ e.globals \in SUBSET RecDefs
BY LevelsSizes DEF Good, Engines

(* Asserting keeps the invariant, if the definitions among the formulas are  *)
(* known.                                                                    *)
LEMMA AddFormulasGood ==
  ASSUME NEW o, NEW e, Good(o, e), Quiet(e), NEW S \in SUBSET All,
         S \cap RecDefs \subseteq e.globals
  PROVE LET d == AddFormulas(S, e) IN
        /\ Good(o, d) /\ Quiet(d)
        /\ SameCounts(d, e) /\ SameProtocol(d, e)
        /\ d.globals = e.globals /\ d.assumptions = e.assumptions
        /\ d.buffer = e.buffer \cup S
        /\ d.assertionList = [e.assertionList EXCEPT ![Len(e.assertionList)] = @ \cup S]
        /\ Len(d.assertionList) = Len(e.assertionList)
<1> DEFINE d == AddFormulas(S, e)
<1>1. /\ Levels(o, e) /\ Counted(o, e)
      /\ Holds(e.assertionList, e.sat, e.buffer, e.globals)
  BY DEF Good
<1>2. /\ d \in Engines
      /\ SameCounts(d, e) /\ SameProtocol(d, e) /\ SamePostsolve(d, e)
      /\ d.sat = e.sat /\ d.contextLevel = e.contextLevel
      /\ d.globals = e.globals /\ d.assumptions = e.assumptions
      /\ d.buffer = e.buffer \cup S
      /\ d.assertionList = [e.assertionList EXCEPT ![Len(e.assertionList)] = @ \cup S]
      /\ Len(d.assertionList) = Len(e.assertionList)
  BY GoodSizes, AddFormulasFields
<1> HIDE DEF d
<1>3. Quiet(d) BY <1>2 DEF Quiet, SamePostsolve
<1>4. Levels(o, d) BY <1>1, <1>2, <1>3, SameLevels DEF SameProtocol
<1>5. Holds(d.assertionList, d.sat, d.buffer, d.globals)
  <2>1. /\ S \ Formulas \subseteq e.globals
        /\ S \in SUBSET S /\ S \cap Formulas \subseteq S
        /\ e.globals \subseteq e.globals
    BY DEF All
  <2>2. /\ e.assertionList \in Seq(SUBSET All) /\ e.sat \in Seq(Level)
        /\ Len(e.assertionList) > 0 /\ Len(e.sat) = Len(e.assertionList)
    BY GoodSizes
  <2> HIDE DEF All
  <2>3. Holds([e.assertionList EXCEPT ![Len(e.assertionList)] = @ \cup S], e.sat,
              e.buffer \cup S, e.globals)
    BY <1>1, <2>1, <2>2, HoldsAdd
  <2>4. QED BY <1>2, <2>3
<1>6. Counted(o, d) BY <1>1, <1>2 DEF Counted, SameCounts
<1>7. Model(d) /\ d.pendingPops = 0 BY <1>3, QuietModel DEF Quiet
<1>8. Good(o, d) BY <1>2, <1>4, <1>5, <1>6, <1>7 DEF Good
<1>9. QED BY <1>2, <1>3, <1>8 DEF d

(* Processing the assertions keeps the invariant.                            *)
LEMMA ProcessAssertionsGood ==
  ASSUME options \in Options, NEW e, Good(options, e), Quiet(e), NEW noticed \in BOOLEAN
  PROVE LET d == ProcessAssertions(noticed, e) IN
        /\ Good(options, d) /\ Quiet(d)
        /\ SameProtocol(d, e)
        /\ d.buffer = {} /\ d.globals = e.globals /\ d.assumptions = e.assumptions
        /\ d.assertionList = e.assertionList /\ d.contextLevel = e.contextLevel
        /\ Asserted(d.sat, e.sat, e.buffer)
<1> DEFINE d == ProcessAssertions(noticed, e)
<1>1. /\ Levels(options, e) /\ Counted(options, e)
      /\ Holds(e.assertionList, e.sat, e.buffer, e.globals)
      /\ e.inited = TRUE /\ e.pendingPops = 0
  BY DEF Good, Levels, Quiet
<1>2. /\ d \in Engines
      /\ Counted(options, d)
      /\ SameProtocol(d, e) /\ SamePostsolve(d, e)
      /\ d.buffer = {} /\ d.globals = e.globals /\ d.assumptions = e.assumptions
      /\ d.assertionList = e.assertionList /\ d.contextLevel = e.contextLevel
      /\ Asserted(d.sat, e.sat, e.buffer)
  <2>1. e \in Engines /\ Len(e.sat) > 0 BY GoodSizes
  <2>2. QED BY <1>1, <2>1, ProcessAssertionsFields
<1> HIDE DEF d
<1>3. Quiet(d) BY <1>2 DEF Quiet, SamePostsolve
<1>4. Len(d.sat) = Len(e.sat) BY <1>2 DEF Asserted
<1>5. Levels(options, d)
  BY <1>1, <1>2, <1>3, <1>4, SameLevels DEF SameProtocol
<1>6. Holds(d.assertionList, d.sat, d.buffer, d.globals)
  BY <1>1, <1>2, GoodSizes, HoldsAsserted
<1>7. Model(d) /\ d.pendingPops = 0 BY <1>3, QuietModel DEF Quiet
<1>8. Good(options, d) BY <1>2, <1>5, <1>6, <1>7 DEF Good
<1>9. QED BY <1>2, <1>3, <1>8 DEF d

(* Changing counters, the mode, the query and the assumptions keeps the      *)
(* invariant.                                                                *)
LEMMA NotedGood ==
  ASSUME NEW o, NEW e, Good(o, e), Quiet(e), NEW d \in Engines, Quiet(d),
         SameStacks(d, e), Counted(o, d),
         d.buffer = e.buffer, e.globals = d.globals,
         d.inited = e.inited, d.userLevels = e.userLevels
  PROVE Good(o, d)
<1>1. Levels(o, d)
  BY SameLevels DEF Good, SameStacks
<1>2. Model(d) /\ d.pendingPops = 0 BY QuietModel DEF Quiet
<1>3. QED BY <1>1, <1>2 DEF Good, SameStacks

(* The engine after a global definition.                                     *)
Defined(f, e) ==
  [e EXCEPT !.globals = @ \cup {f}, !.assertionList[UserLevel(e)] = @ \cup {f}]

(* A global definition keeps the invariant, as its lemma is allowed in every *)
(* level.                                                                    *)
LEMMA DefineGood ==
  ASSUME NEW o, NEW e, Good(o, e), Quiet(e), NEW f \in RecDefs
  PROVE LET d == Defined(f, e) IN
        /\ Good(o, d)
        /\ SameCounts(d, e) /\ SameProtocol(d, e) /\ SamePostsolve(d, e)
        /\ d.globals = e.globals \cup {f} /\ d.buffer = e.buffer
        /\ d.assumptions = e.assumptions
        /\ d.assertionList = [e.assertionList EXCEPT ![Len(e.assertionList)] = @ \cup {f}]
        /\ Len(d.assertionList) = Len(e.assertionList)
<1> DEFINE n == Len(e.assertionList)
           grown == [e.assertionList EXCEPT ![n] = @ \cup {f}]
           more == e.globals \cup {f}
           d == [e EXCEPT !.globals = more, !.assertionList = grown]
<1>1. /\ e \in Engines /\ e.assertionList \in Seq(SUBSET All) /\ n \in Nat \ {0}
      /\ e.globals \in SUBSET RecDefs /\ Len(e.sat) = n /\ e.sat \in Seq(Level)
  BY GoodSizes
<1>2. /\ grown \in Seq(SUBSET All) /\ Len(grown) = n /\ more \in SUBSET RecDefs
  BY <1>1 DEF All
<1>3. Defined(f, e) = d BY <1>1 DEF Defined, UserLevel, Engines
<1>4. Holds(grown, e.sat, e.buffer, more)
  <2>1. Holds(e.assertionList, e.sat, e.buffer, e.globals) BY DEF Good
  <2> DEFINE S == {f}
             W == S \cap Formulas
  <2>2. /\ S \in SUBSET All /\ S \cap Formulas \subseteq W /\ W = {}
        /\ W \in SUBSET S /\ W \ Formulas \subseteq more /\ e.globals \subseteq more
    BY SmtEngineAssumption DEF All
  <2>3. Holds(grown, e.sat, e.buffer \cup W, more)
    <3> HIDE DEF more, W, S
    <3>1. [e.assertionList EXCEPT ![Len(e.assertionList)] = @ \cup S] = grown BY DEF S
    <3>2. Len(e.assertionList) > 0 BY <1>1
    <3> HIDE DEF grown
    <3>3. QED BY <1>1, <2>1, <2>2, <3>1, <3>2, HoldsAdd
  <2>4. e.buffer \cup W = e.buffer BY <2>2
  <2>5. QED BY <2>3, <2>4
<1> HIDE DEF grown, more
<1>5. /\ d \in Engines /\ d.globals = more /\ d.assertionList = grown
      /\ SameCounts(d, e) /\ SameProtocol(d, e) /\ SamePostsolve(d, e)
      /\ d.buffer = e.buffer /\ d.assumptions = e.assumptions
      /\ d.sat = e.sat /\ d.contextLevel = e.contextLevel
  BY <1>1, <1>2 DEF Engines, SameCounts, SameProtocol, SamePostsolve
<1> HIDE DEF d
<1>6. Quiet(d) BY <1>5 DEF Quiet, SamePostsolve
<1>7. Levels(o, d)
  BY <1>2, <1>5, <1>6, SameLevels DEF Good, SameProtocol
<1>8. Counted(o, d) BY <1>5 DEF Good, Counted, SameCounts
<1>9. Model(d) /\ d.pendingPops = 0 BY <1>6, QuietModel DEF Quiet
<1>10. Good(o, d) BY <1>4, <1>5, <1>7, <1>8, <1>9 DEF Good
<1>11. QED BY <1>2, <1>3, <1>5, <1>10 DEF grown, more

(* Setting the mode of a quiet engine keeps the invariant.                   *)
LEMMA ModeGood ==
  ASSUME NEW o, NEW e, Good(o, e), Quiet(e), NEW m \in Modes
  PROVE LET d == [e EXCEPT !.mode = m] IN
        /\ Good(o, d) /\ Quiet(d)
        /\ SameCounts(d, e) /\ SameStacks(d, e) /\ SameFormulas(d, e)
        /\ d.queryMade = e.queryMade /\ d.userLevels = e.userLevels
        /\ d.failed = e.failed /\ d.mode = m
<1> DEFINE d == [e EXCEPT !.mode = m]
<1>1. e \in Engines /\ Counted(o, e) BY DEF Good
<1>2. /\ d \in Engines
      /\ SameCounts(d, e) /\ SameStacks(d, e) /\ SameFormulas(d, e) /\ SamePostsolve(d, e)
      /\ d.queryMade = e.queryMade /\ d.userLevels = e.userLevels
      /\ d.failed = e.failed /\ d.mode = m /\ d.inited = e.inited
  BY <1>1 DEF Engines, SameCounts, SameStacks, SameFormulas, SamePostsolve
<1> HIDE DEF d
<1>3. Quiet(d) /\ Counted(o, d)
  BY <1>1, <1>2 DEF Quiet, SamePostsolve, Counted, SameCounts
<1>4. Good(o, d) BY <1>2, <1>3, NotedGood DEF SameFormulas
<1>5. QED BY <1>2, <1>3, <1>4 DEF d

(* Spending keeps the invariant.                                             *)
LEMMA SpendGood ==
  ASSUME options \in Options, NEW e, Good(options, e), Quiet(e), NEW k \in 0 .. 1
  PROVE LET d == SpendResource(k, e) IN
        /\ Good(options, d) /\ Quiet(d)
        /\ SameStacks(d, e) /\ SameFormulas(d, e) /\ SameProtocol(d, e)
<1> DEFINE d == SpendResource(k, e)
<1>1. /\ d \in Engines
      /\ Counted(options, d)
      /\ SameFormulas(d, e) /\ SameProtocol(d, e) /\ SamePostsolve(d, e)
      /\ SameStacks(d, e)
  BY SpendFields DEF Good
<1> HIDE DEF d
<1>2. Quiet(d) BY <1>1 DEF Quiet, SamePostsolve
<1>3. Good(options, d) BY <1>1, <1>2, NotedGood DEF SameFormulas, SameProtocol
<1>4. QED BY <1>1, <1>2, <1>3 DEF d

(* What a push leaves of e, with the protocol of x.                          *)
Pushed(o, d, e, x) ==
  /\ d \in Engines /\ Counted(o, d) /\ Quiet(d) /\ SameProtocol(d, x)
  /\ d.buffer = {} /\ d.globals = e.globals /\ d.assumptions = x.assumptions
  /\ d.assertionList = Append(e.assertionList, {})
  /\ Len(d.assertionList) = Len(e.assertionList) + 1
  /\ Len(d.sat) = Len(e.assertionList) + 1
  /\ d.contextLevel = Len(e.assertionList) + 1
  /\ Holds(d.assertionList, d.sat, d.buffer, d.globals)

(* internalPush leaves a new empty level and the rest as it was.             *)
LEMMA PushStacks ==
  ASSUME options \in Options, options.incrementalSolving = TRUE,
         NEW e, Good(options, e), Quiet(e),
         NEW x \in Engines, Counted(options, x), Quiet(x), SameStacks(x, e),
         x.buffer = e.buffer, x.globals = e.globals, x.inited = e.inited,
         NEW noticed \in BOOLEAN
  PROVE Pushed(options, InternalPush(noticed, x), e, x)
<1> DEFINE d == InternalPush(noticed, x)
           r == DoPendingPops(x)
           p == ProcessAssertions(noticed, r)
           n == Len(e.assertionList)
<1>1. /\ e.assertionList \in Seq(SUBSET All) /\ e.sat \in Seq(Level)
      /\ n \in Nat \ {0} /\ Len(e.sat) = n
  BY GoodSizes
<1>2. /\ x.assertionList = e.assertionList /\ x.sat = e.sat /\ x.contextLevel = e.contextLevel
      /\ x.pendingPops = 0 /\ x.decisions = 0 /\ x.inited = TRUE /\ Settled(x)
      /\ e.contextLevel = n
  <2>1. /\ x.assertionList = e.assertionList /\ x.sat = e.sat
        /\ x.contextLevel = e.contextLevel /\ x.pendingPops = 0 /\ x.decisions = 0
        /\ e.decisions = 0
    BY DEF SameStacks, Quiet
  <2>2. x.inited = TRUE /\ e.contextLevel = n + e.decisions BY DEF Good, Levels
  <2>3. Settled(x) BY QuietModel
  <2>4. QED BY <1>1, <2>1, <2>2, <2>3
<1>3. /\ d \in Engines /\ Counted(options, d) /\ Quiet(d) /\ SameProtocol(d, x)
      /\ d.buffer = {} /\ d.globals = x.globals /\ d.assumptions = x.assumptions
      /\ d.assertionList = Append(p.assertionList, {})
      /\ d.sat = Append(p.sat, [clauses |-> {}, ok |-> Last(p.sat).ok])
      /\ d.contextLevel = p.contextLevel + 1
  <2>1. /\ Len(x.sat) = Len(x.assertionList) /\ x.pendingPops < Len(x.assertionList)
        /\ x.inited = TRUE /\ Settled(x)
    BY <1>1, <1>2
  <2>2. QED BY <2>1, InternalPushFields
<1> HIDE DEF d
<1>4. /\ r \in Engines /\ Quiet(r) /\ SameCounts(r, x) /\ SameFormulas(r, x)
      /\ SameProtocol(r, x)
      /\ r.assertionList = e.assertionList /\ r.sat = e.sat /\ r.contextLevel = n
  <2>1. /\ r \in Engines /\ Quiet(r)
        /\ SameCounts(r, x) /\ SameFormulas(r, x) /\ SameProtocol(r, x)
        /\ r.assertionList = SubSeq(x.assertionList, 1, Len(x.assertionList) - x.pendingPops)
        /\ r.sat = SubSeq(x.sat, 1, Len(x.sat) - x.pendingPops)
        /\ r.contextLevel = x.contextLevel - x.decisions - x.pendingPops
    BY <1>1, <1>2, DoPendingPopsFields
  <2> HIDE DEF r
  <2>2. r.contextLevel = n BY <1>1, <1>2, <2>1
  <2>3. r.assertionList = e.assertionList /\ r.sat = e.sat BY <1>1, <1>2, <2>1
  <2>4. QED BY <2>1, <2>2, <2>3
<1> HIDE DEF r
<1>5. Counted(options, r) /\ r.inited = TRUE /\ r.pendingPops = 0
      /\ r.buffer = e.buffer /\ r.globals = e.globals
  BY <1>2, <1>4 DEF Counted, SameCounts, SameProtocol, SameFormulas, Quiet
<1>6. /\ p \in Engines /\ p.assertionList = e.assertionList /\ p.contextLevel = n
      /\ Asserted(p.sat, e.sat, e.buffer)
  <2>1. Len(r.sat) > 0 BY <1>1, <1>4
  <2> HIDE DEF n
  <2>2. QED BY <1>4, <1>5, <2>1, ProcessAssertionsFields
<1> HIDE DEF p
<1>7. Holds(e.assertionList, e.sat, e.buffer, e.globals) BY DEF Good
<1>8. Holds(e.assertionList, p.sat, {}, e.globals)
  BY <1>1, <1>6, <1>7, HoldsAsserted
<1>9. p.sat \in Seq(Level) /\ Len(p.sat) = n BY <1>1, <1>6 DEF Asserted
<1>10. Holds(Append(e.assertionList, {}),
             Append(p.sat, [clauses |-> {}, ok |-> Last(p.sat).ok]), {}, e.globals)
  BY <1>1, <1>8, <1>9, HoldsPush
<1>11. Holds(d.assertionList, d.sat, d.buffer, d.globals)
  BY <1>3, <1>6, <1>10
<1>12. Len(d.sat) = n + 1 /\ Len(d.assertionList) = n + 1
  BY <1>1, <1>3, <1>6, <1>9
<1>13. QED BY <1>3, <1>6, <1>11, <1>12 DEF d, Pushed

(* A user push keeps the invariant and records the level it left.            *)
LEMMA UserPushGood ==
  ASSUME options \in Options, options.incrementalSolving = TRUE,
         NEW e, Good(options, e), Quiet(e), NEW noticed \in BOOLEAN
  PROVE LET d == UserPush(noticed, e) IN
        /\ Good(options, d) /\ Quiet(d)
        /\ d.globals = e.globals /\ d.assumptions = e.assumptions
        /\ d.queryMade = e.queryMade /\ d.failed = e.failed
        /\ d.userLevels = Append(e.userLevels, Len(e.assertionList))
        /\ d.assertionList = Append(e.assertionList, {})
        /\ Len(d.assertionList) = Len(e.assertionList) + 1
<1> DEFINE n == Len(e.assertionList)
           frame == Append(e.userLevels, n)
           m == "ASSERT"
           x == [e EXCEPT !.mode = m, !.userLevels = frame]
           d == InternalPush(noticed, x)
<1>1. /\ e \in Engines /\ n \in Nat \ {0} /\ e.userLevels \in Seq(Nat \ {0})
      /\ Counted(options, e)
  BY GoodSizes DEF Good
<1>2. frame \in Seq(Nat \ {0}) /\ m \in Modes BY <1>1 DEF Modes
<1>3. UserPush(noticed, e) = d BY DEF UserPush, UserLevel
<1> HIDE DEF frame, m
<1>4. /\ x \in Engines /\ SameCounts(x, e) /\ SameStacks(x, e) /\ SameFormulas(x, e)
      /\ SamePostsolve(x, e) /\ x.inited = e.inited /\ x.queryMade = e.queryMade
      /\ x.failed = e.failed /\ x.userLevels = frame
  BY <1>1, <1>2 DEF Engines, SameCounts, SameStacks, SameFormulas, SamePostsolve
<1> HIDE DEF x
<1>5. /\ Quiet(x) /\ Counted(options, x) /\ x.buffer = e.buffer /\ x.globals = e.globals
      /\ x.assumptions = e.assumptions
  BY <1>1, <1>4 DEF Quiet, SamePostsolve, Counted, SameCounts, SameFormulas
<1>6. /\ d \in Engines /\ Counted(options, d) /\ Quiet(d) /\ SameProtocol(d, x)
      /\ d.buffer = {} /\ d.globals = e.globals /\ d.assumptions = x.assumptions
      /\ d.assertionList = Append(e.assertionList, {})
      /\ Len(d.assertionList) = n + 1
      /\ Len(d.sat) = n + 1
      /\ d.contextLevel = n + 1
      /\ Holds(d.assertionList, d.sat, d.buffer, d.globals)
  <2>1. Pushed(options, d, e, x) BY <1>4, <1>5, PushStacks
  <2>2. QED BY <2>1 DEF Pushed
<1> HIDE DEF d
<1>7. /\ d.inited = TRUE /\ d.userLevels = frame /\ d.queryMade = e.queryMade
      /\ d.failed = e.failed
  BY <1>4, <1>6 DEF SameProtocol, Good, Levels
<1>8. Levels(options, d)
  <2>1. d.decisions = 0 /\ d.pendingPops = 0 /\ Settled(d)
    BY <1>6, QuietModel DEF Quiet
  <2>2. /\ \A k \in 1 .. Len(e.userLevels) : e.userLevels[k] < n
        /\ \A j, k \in 1 .. Len(e.userLevels) : j < k => e.userLevels[j] < e.userLevels[k]
    <3>1. e.pendingPops = 0 /\ Levels(options, e) BY DEF Quiet, Good
    <3>2. n - e.pendingPops = n BY <1>1, <3>1
    <3>3. QED BY <3>1, <3>2 DEF Levels
  <2>3. /\ Len(frame) = Len(e.userLevels) + 1
        /\ \A k \in 1 .. Len(e.userLevels) : frame[k] = e.userLevels[k]
        /\ frame[Len(e.userLevels) + 1] = n
    BY <1>1 DEF frame
  <2>4. \A k \in 1 .. Len(frame) : k \in 1 .. Len(e.userLevels) \/ k = Len(e.userLevels) + 1
    BY <1>1, <2>3
  <2>5. \A k \in 1 .. Len(e.userLevels) : e.userLevels[k] \in Nat BY <1>1
  <2>6. \A k \in 1 .. Len(frame) : frame[k] < n + 1
    <3> HIDE DEF n
    <3>1. QED BY <1>1, <2>2, <2>3, <2>4, <2>5
  <2>7. \A j, k \in 1 .. Len(frame) : j < k => frame[j] < frame[k]
    <3> HIDE DEF n
    <3>1. QED BY <1>1, <2>2, <2>3, <2>4, <2>5, SMTT(30)
  <2>8. n + 1 - 0 = n + 1 /\ n + 1 + 0 = n + 1 /\ 0 < n + 1 BY <1>1
  <2> HIDE DEF n
  <2>9. QED BY <1>6, <1>7, <2>1, <2>6, <2>7, <2>8 DEF Levels
<1>9. Model(d) /\ d.pendingPops = 0 BY <1>6, QuietModel DEF Quiet
<1>10. Good(options, d) BY <1>6, <1>8, <1>9 DEF Good
<1>11. QED BY <1>3, <1>5, <1>6, <1>7, <1>10 DEF frame

(* A user pop keeps the levels in agreement.                                 *)
LEMMA UserPopLevels ==
  ASSUME options \in Options, NEW e \in Engines, Levels(options, e), e.userLevels # <<>>
  PROVE Levels(options, UserPop(e))
<1> DEFINE d == UserPop(e)
           frame == e.userLevels
           front == Front(frame)
           t == Last(frame)
           n == Len(e.assertionList)
<1>1. /\ d \in Engines
      /\ Quiet(d)
      /\ d.inited = e.inited /\ d.userLevels = front
      /\ t \in 1 .. n - 1 - e.pendingPops
      /\ d.assertionList = SubSeq(e.assertionList, 1, t)
      /\ d.sat = SubSeq(e.sat, 1, t)
      /\ d.contextLevel = t
  BY UserPopFields
<1> HIDE DEF d
<1>2. /\ n \in Nat \ {0} /\ Len(e.sat) = n /\ e.pendingPops \in Nat
      /\ e.assertionList \in Seq(SUBSET All) /\ e.sat \in Seq(Level)
      /\ frame \in Seq(Nat \ {0}) /\ Len(frame) \in Nat \ {0}
  <2>1. frame \in Seq(Nat \ {0}) BY DEF Engines
  <2>2. QED BY <2>1, LevelsSizes, SMTT(30) DEF Engines
<1>3. Len(d.assertionList) = t /\ Len(d.sat) = t
  BY <1>1, <1>2
<1>4. /\ Len(front) = Len(frame) - 1
      /\ \A k \in 1 .. Len(front) : front[k] = frame[k]
      /\ t = frame[Len(frame)]
  BY <1>2 DEF Front, Last
<1>5. /\ \A j, k \in 1 .. Len(frame) : j < k => frame[j] < frame[k]
      /\ e.inited = TRUE
      /\ options.incrementalSolving \/ frame = <<>>
  BY DEF Levels
<1>6. /\ \A k \in 1 .. Len(front) : front[k] < t
      /\ \A j, k \in 1 .. Len(front) : j < k => front[j] < front[k]
  <2>1. \A k \in 1 .. Len(front) : k \in 1 .. Len(frame) /\ k < Len(frame)
    BY <1>2, <1>4
  <2>2. Len(frame) \in 1 .. Len(frame) BY <1>2
  <2> HIDE DEF front, frame, t
  <2>3. QED BY <1>4, <1>5, <2>1, <2>2
<1>7. d.decisions = 0 /\ d.pendingPops = 0 /\ Settled(d)
  BY <1>1, QuietModel DEF Quiet
<1>8. 0 < t /\ t - 0 = t /\ t + 0 = t BY <1>1
<1> HIDE DEF front, t, n
<1>9. Levels(options, d) BY <1>1, <1>3, <1>5, <1>6, <1>7, <1>8 DEF Levels
<1>10. QED BY <1>9 DEF d

(* pop keeps the invariant: the buffer of the levels popped is dropped with  *)
(* them.                                                                     *)
LEMMA PopGood ==
  ASSUME options \in Options, NEW e, Good(options, e), e.userLevels # <<>>
  PROVE LET d == [UserPop(e) EXCEPT !.buffer = {}]
            t == Last(e.userLevels)
        IN
        /\ Good(options, d) /\ Quiet(d)
        /\ d.globals = e.globals /\ d.assumptions = e.assumptions
        /\ d.queryMade = e.queryMade /\ d.failed = e.failed /\ d.mode = "ASSERT"
        /\ d.userLevels = Front(e.userLevels)
        /\ d.assertionList = SubSeq(e.assertionList, 1, t)
        /\ Len(d.assertionList) = t
        /\ t \in 1 .. Len(e.assertionList) - 1 - e.pendingPops
<1> DEFINE p == UserPop(e)
           d == [p EXCEPT !.buffer = {}]
           t == Last(e.userLevels)
           n == Len(e.assertionList)
<1>1. /\ e \in Engines /\ n \in Nat \ {0} /\ Len(e.sat) = n /\ e.pendingPops \in Nat
      /\ e.assertionList \in Seq(SUBSET All) /\ e.sat \in Seq(Level)
      /\ Counted(options, e) /\ Levels(options, e)
      /\ Holds(e.assertionList, e.sat, e.buffer, e.globals)
  BY GoodSizes DEF Good
<1>2. /\ p \in Engines
      /\ Quiet(p)
      /\ SameCounts(p, e) /\ SameFormulas(p, e)
      /\ p.inited = e.inited /\ p.queryMade = e.queryMade /\ p.mode = "ASSERT"
      /\ p.failed = e.failed
      /\ p.userLevels = Front(e.userLevels)
      /\ t \in 1 .. n - 1 - e.pendingPops
      /\ p.assertionList = SubSeq(e.assertionList, 1, t)
      /\ p.sat = SubSeq(e.sat, 1, t)
      /\ p.contextLevel = t
  BY <1>1, UserPopFields
<1>3. Levels(options, p) BY <1>1, UserPopLevels
<1> HIDE DEF p
<1>4. /\ d \in Engines /\ SameCounts(d, p) /\ SameStacks(d, p) /\ SamePostsolve(d, p)
      /\ SameProtocol(d, p) /\ d.buffer = {} /\ d.globals = p.globals
      /\ d.assumptions = p.assumptions
  BY <1>2 DEF Engines, SameCounts, SameStacks, SamePostsolve, SameProtocol
<1> HIDE DEF d
<1>5. Quiet(d) /\ Counted(options, d)
  BY <1>1, <1>2, <1>4 DEF Quiet, SamePostsolve, Counted, SameCounts
<1>6. Levels(options, d)
  BY <1>2, <1>3, <1>4, <1>5, SameLevels DEF SameStacks, SameProtocol
<1>7. Holds(d.assertionList, d.sat, d.buffer, d.globals)
  <2>1. t \in 0 .. n /\ t < n BY <1>1, <1>2
  <2>2. Holds(SubSeq(e.assertionList, 1, t), SubSeq(e.sat, 1, t), {}, e.globals)
    BY <1>1, <2>1, HoldsCut
  <2>3. QED BY <1>2, <1>4, <2>2 DEF SameStacks, SameFormulas
<1>8. Model(d) /\ d.pendingPops = 0 BY <1>5, QuietModel DEF Quiet
<1>9. Good(options, d) BY <1>4, <1>5, <1>6, <1>7, <1>8 DEF Good
<1>10. /\ d.globals = e.globals /\ d.assumptions = e.assumptions
       /\ d.queryMade = e.queryMade /\ d.failed = e.failed /\ d.mode = "ASSERT"
       /\ d.userLevels = Front(e.userLevels)
       /\ d.assertionList = SubSeq(e.assertionList, 1, t)
  BY <1>2, <1>4 DEF SameFormulas, SameProtocol, SameStacks
<1>11. Len(d.assertionList) = t BY <1>1, <1>2, <1>10
<1>12. QED BY <1>2, <1>5, <1>9, <1>10, <1>11 DEF d, p

-----------------------------------------------------------------------------
(* A nonempty set of naturals has a least member; so what holds at a number  *)
(* when it holds below it, holds at every number.                            *)
LEMMA Least ==
  ASSUME NEW T, T \subseteq Nat, T # {}
  PROVE \E m \in T : \A n \in T : m <= n
<1> DEFINE B == {1 .. n : n \in T}
           R == StrictSubsetOrdering(Nat)
<1>1. IsWellFoundedOn(R, FiniteSubsetsOf(Nat)) BY FS_StrictSubsetOrderingWellFounded
<1>2. B \subseteq FiniteSubsetsOf(Nat) BY FS_Interval DEF FiniteSubsetsOf
<1>3. B # {} OBVIOUS
<1> HIDE DEF R
<1>4. PICK x \in B : \A y \in B : ~ (<<y, x>> \in R) BY <1>1, <1>2, <1>3, WFMin
<1>5. PICK m \in T : x = 1 .. m OBVIOUS
<1>6. ASSUME NEW n \in T, ~ (m <= n) PROVE FALSE
  <2>1. 1 .. n \in B OBVIOUS
  <2>2. <<1 .. n, x>> \in R BY <1>5, <1>6 DEF R, StrictSubsetOrdering
  <2>3. QED BY <1>4, <2>1, <2>2
<1>7. QED BY <1>6

(* The loop of notifyResetAssertions, one iteration at a time.               *)
LEMMA UserPopsUnfold ==
  ASSUME NEW e, Len(e.userLevels) \in Nat
  PROVE UserPops(e) = [k \in 0 .. Len(e.userLevels) |->
                         IF k = 0 THEN DoPendingPops(e) ELSE UserPop(UserPops(e)[k - 1])]
<1> DEFINE Loop(n, f) == f = [k \in 0 .. n |->
                                IF k = 0 THEN DoPendingPops(e) ELSE UserPop(f[k - 1])]
           T == {n \in Nat : ~ \E f : Loop(n, f)}
           N == Len(e.userLevels)
<1>1. T = {}
  <2>1. SUFFICES ASSUME T # {} PROVE FALSE OBVIOUS
  <2>2. PICK m \in T : \A n \in T : m <= n BY <2>1, Least
  <2>3. CASE m = 0
    <3> DEFINE f == [k \in 0 .. 0 |-> DoPendingPops(e)]
    <3>1. Loop(0, f) OBVIOUS
    <3>2. QED BY <2>3, <3>1
  <2>4. CASE m # 0
    <3>1. m - 1 \in Nat /\ m - 1 \notin T BY <2>2, <2>4
    <3>2. PICK f : Loop(m - 1, f) BY <3>1
    <3> DEFINE g == [k \in 0 .. m |-> IF k < m THEN f[k] ELSE UserPop(f[m - 1])]
    <3>3. \A k \in 0 .. m : g[k] = IF k = 0 THEN DoPendingPops(e) ELSE UserPop(g[k - 1])
      <4>1. \A k \in 0 .. m - 1 :
              f[k] = IF k = 0 THEN DoPendingPops(e) ELSE UserPop(f[k - 1])
        BY <3>2
      <4>2. QED BY <2>4, <4>1
    <3>4. Loop(m, g) BY <3>3
    <3>5. QED BY <2>2, <3>4
  <2>5. QED BY <2>3, <2>4
<1>2. PICK f : Loop(N, f) BY <1>1
<1>3. UserPops(e) = CHOOSE p : Loop(N, p) BY DEF UserPops
<1>4. Loop(N, CHOOSE p : Loop(N, p)) BY <1>2
<1>5. QED BY <1>3, <1>4

(* One level per frame, and each frame starts right above the one below: so  *)
(* it is until a refused check leaves a level of its own behind.             *)
Even(e) ==
  /\ Len(e.assertionList) - e.pendingPops = Len(e.userLevels) + 1
  /\ \A k \in 1 .. Len(e.userLevels) : e.userLevels[k] = k

(* A user pop keeps that.                                                    *)
LEMMA UserPopEven ==
  ASSUME options \in Options, NEW e \in Engines, Levels(options, e), e.userLevels # <<>>,
         Even(e)
  PROVE Even(UserPop(e))
<1> DEFINE d == UserPop(e)
           frame == e.userLevels
           front == Front(frame)
           t == Last(frame)
<1>1. /\ d \in Engines /\ Quiet(d) /\ d.userLevels = front
      /\ t \in 1 .. Len(e.assertionList) - 1 - e.pendingPops
      /\ d.assertionList = SubSeq(e.assertionList, 1, t)
  BY UserPopFields
<1> HIDE DEF d
<1>2. /\ frame \in Seq(Nat \ {0}) /\ Len(frame) \in Nat \ {0}
      /\ e.assertionList \in Seq(SUBSET All) /\ e.pendingPops \in Nat
      /\ Len(e.assertionList) \in Nat
  <2>1. frame \in Seq(Nat \ {0}) BY DEF Engines
  <2>2. QED BY <2>1 DEF Engines
<1>3. /\ Len(front) = Len(frame) - 1
      /\ \A k \in 1 .. Len(front) : front[k] = frame[k]
      /\ t = frame[Len(frame)]
  BY <1>2 DEF Front, Last
<1>4. \A k \in 1 .. Len(frame) : frame[k] = k BY DEF Even
<1>5. t = Len(frame) BY <1>2, <1>3, <1>4
<1>6. Len(d.assertionList) = t BY <1>1, <1>2
<1>7. \A k \in 1 .. Len(front) : front[k] = k BY <1>2, <1>3, <1>4
<1>8. Len(front) + 1 = t /\ t - 0 = t BY <1>2, <1>3, <1>5
<1> HIDE DEF front, t
<1>9. Even(d) BY <1>1, <1>6, <1>7, <1>8 DEF Even, Quiet
<1>10. QED BY <1>9 DEF d

(* After k iterations of the loop k frames are gone and the levels agree, by *)
(* induction over k.                                                         *)
LEMMA UserPopsLevels ==
  ASSUME options \in Options, NEW e \in Engines, Levels(options, e)
  PROVE \A k \in 0 .. Len(e.userLevels) :
          LET p == UserPops(e)[k] IN
          /\ p \in Engines /\ Levels(options, p) /\ Quiet(p)
          /\ SameCounts(p, e) /\ SameFormulas(p, e)
          /\ p.queryMade = e.queryMade /\ p.failed = e.failed
          /\ Len(p.userLevels) = Len(e.userLevels) - k
          /\ Even(e) => Even(p)
<1> DEFINE N == Len(e.userLevels)
           pops == UserPops(e)
           I(k) == /\ pops[k] \in Engines /\ Levels(options, pops[k]) /\ Quiet(pops[k])
                   /\ SameCounts(pops[k], e) /\ SameFormulas(pops[k], e)
                   /\ pops[k].queryMade = e.queryMade /\ pops[k].failed = e.failed
                   /\ Len(pops[k].userLevels) = N - k
                   /\ Even(e) => Even(pops[k])
           T == {k \in 0 .. N : ~ I(k)}
<1>1. N \in Nat /\ e.assertionList \in Seq(SUBSET All) /\ e.pendingPops \in Nat
      /\ e.pendingPops < Len(e.assertionList)
  <2>1. e.userLevels \in Seq(Nat \ {0}) /\ e.assertionList \in Seq(SUBSET All)
    BY DEF Engines
  <2>2. QED BY <2>1, LevelsSizes
<1>2. \A k \in 0 .. N : pops[k] = IF k = 0 THEN DoPendingPops(e) ELSE UserPop(pops[k - 1])
  BY <1>1, UserPopsUnfold
<1> HIDE DEF pops
<1>3. I(0)
  <2> DEFINE d == DoPendingPops(e)
             n == Len(e.assertionList) - e.pendingPops
  <2>1. /\ Levels(options, d) /\ d \in Engines /\ Quiet(d)
        /\ SameCounts(d, e) /\ SameFormulas(d, e) /\ SameProtocol(d, e)
        /\ Len(d.assertionList) = n
    BY DoPendingPopsLevels
  <2> HIDE DEF d
  <2>2. pops[0] = d BY <1>1, <1>2 DEF d
  <2>3. /\ d.queryMade = e.queryMade /\ d.failed = e.failed /\ d.userLevels = e.userLevels
    BY <2>1 DEF SameProtocol
  <2>4. n - 0 = n /\ N - 0 = N BY <1>1
  <2>5. Even(e) => Even(d)
    <3> HIDE DEF n
    <3>1. n = Len(e.assertionList) - e.pendingPops BY DEF n
    <3>2. QED BY <2>1, <2>3, <2>4, <3>1 DEF Even, Quiet
  <2>6. QED BY <2>1, <2>2, <2>3, <2>4, <2>5
<1>4. ASSUME NEW k \in 0 .. N, k # 0, I(k - 1) PROVE I(k)
  <2> DEFINE p == pops[k - 1]
             d == UserPop(p)
  <2>1. pops[k] = d BY <1>2, <1>4
  <2>2. p \in Engines /\ Levels(options, p) /\ p.userLevels # <<>>
    <3>1. p \in Engines /\ Levels(options, p) /\ Len(p.userLevels) = N - (k - 1) BY <1>4
    <3>2. Len(p.userLevels) > 0 BY <1>1, <1>4, <3>1
    <3>3. p.userLevels # <<>> BY <3>2
    <3>4. QED BY <3>1, <3>3
  <2>3. /\ d \in Engines /\ Quiet(d) /\ SameCounts(d, p) /\ SameFormulas(d, p)
        /\ d.queryMade = p.queryMade /\ d.failed = p.failed
        /\ d.userLevels = Front(p.userLevels)
    BY <2>2, UserPopFields
  <2>4. Levels(options, d) BY <2>2, UserPopLevels
  <2>5. Even(p) => Even(d) BY <2>2, UserPopEven
  <2>6. Len(d.userLevels) = N - k
    <3>1. p.userLevels \in Seq(Nat \ {0}) /\ p.userLevels # <<>> BY <2>2 DEF Engines
    <3>2. Len(Front(p.userLevels)) = Len(p.userLevels) - 1 BY <3>1 DEF Front
    <3>3. Len(p.userLevels) = N - (k - 1) BY <1>4
    <3>4. QED BY <1>1, <2>3, <3>2, <3>3
  <2> HIDE DEF d
  <2>7. SameCounts(d, e) /\ SameFormulas(d, e)
        /\ d.queryMade = e.queryMade /\ d.failed = e.failed
    BY <1>4, <2>3 DEF SameCounts, SameFormulas
  <2>8. Even(e) => Even(d) BY <1>4, <2>5
  <2>9. QED BY <2>1, <2>3, <2>4, <2>6, <2>7, <2>8
<1>5. T = {}
  <2>1. SUFFICES ASSUME T # {} PROVE FALSE OBVIOUS
  <2>2. T \subseteq Nat OBVIOUS
  <2>3. PICK m \in T : \A k \in T : m <= k
    <3> HIDE DEF T
    <3>1. QED BY <2>1, <2>2, Least
  <2>4. m # 0 BY <1>3, <2>3
  <2>5. m - 1 \in 0 .. N /\ m - 1 \notin T BY <1>1, <2>3, <2>4
  <2>6. I(m - 1) BY <2>5
  <2>7. I(m) BY <1>4, <2>3, <2>4, <2>6
  <2>8. QED BY <2>3, <2>7
<1>6. \A k \in 0 .. N : I(k) BY <1>5
<1>7. QED BY <1>6 DEF pops

(* resetAssertions establishes the invariant again, and with one level per   *)
(* frame its Assert holds.                                                   *)
LEMMA ResetGood ==
  ASSUME options \in Options, NEW e, Good(options, e)
  PROVE LET d == NewPropEngine(Setup(PopToZero(PopAllUserLevels([e EXCEPT !.buffer = {}])))) IN
        /\ Good(options, d) /\ Quiet(d)
        /\ d.globals = e.globals /\ d.assumptions = e.assumptions
        /\ d.queryMade = e.queryMade
        /\ d.userLevels = <<>> /\ d.assertionList = <<{}>>
        /\ Even(e) => Even(d) /\ d.failed = e.failed
<1> DEFINE x == [e EXCEPT !.buffer = {}]
           N == Len(x.userLevels)
           p == UserPops(x)[N]
           q == PopAllUserLevels(x)
           one == <<{}>>
           new == <<[clauses |-> {}, ok |-> TRUE]>>
           up == 1
           none == 0
           d == [q EXCEPT !.assertionList = one, !.contextLevel = up, !.sat = new,
                          !.decisions = none]
<1>1. e \in Engines /\ Levels(options, e) /\ Counted(options, e) BY DEF Good
<1>2. /\ x \in Engines /\ SameCounts(x, e) /\ SameStacks(x, e) /\ SamePostsolve(x, e)
      /\ SameProtocol(x, e) /\ x.buffer = {} /\ x.globals = e.globals
      /\ x.assumptions = e.assumptions
  BY <1>1 DEF Engines, SameCounts, SameStacks, SamePostsolve, SameProtocol
<1> HIDE DEF x
<1>3. Levels(options, x)
  BY <1>1, <1>2 DEF Levels, Settled, SameStacks, SamePostsolve, SameProtocol
<1>4. Even(e) => Even(x)
  BY <1>2 DEF Even, SameStacks, SamePostsolve, SameProtocol
<1>5. x.userLevels \in Seq(Nat \ {0}) /\ N \in Nat /\ N \in 0 .. N BY <1>2 DEF Engines
<1>6. /\ p \in Engines /\ Levels(options, p) /\ Quiet(p)
      /\ SameCounts(p, x) /\ SameFormulas(p, x)
      /\ p.queryMade = x.queryMade /\ p.failed = x.failed
      /\ Len(p.userLevels) = N - N
      /\ Even(x) => Even(p)
  BY <1>2, <1>3, <1>5, UserPopsLevels
<1> HIDE DEF p, N
<1>7. p.userLevels = <<>>
  <2>1. Len(p.userLevels) = 0 /\ p.userLevels \in Seq(Nat \ {0}) BY <1>5, <1>6 DEF Engines
  <2>2. QED BY <2>1
<1>8. /\ q \in Engines /\ SameCounts(q, p) /\ SameFormulas(q, p) /\ SamePostsolve(q, p)
      /\ q.queryMade = p.queryMade /\ q.userLevels = p.userLevels /\ q.inited = p.inited
      /\ q.assertionList = p.assertionList /\ q.contextLevel = p.contextLevel
      /\ q.sat = p.sat
      /\ Even(p) => q.failed = p.failed
  <2>1. q = AssertThat(Len(p.assertionList) = 1, "notifyResetAssertions", p)
    BY DEF PopAllUserLevels, UserLevel, p, N
  <2>2. Even(p) => Len(p.assertionList) = 1
    <3>1. Len(p.assertionList) \in Nat BY <1>6 DEF Engines
    <3>2. p.pendingPops = 0 BY <1>6 DEF Quiet
    <3>3. QED BY <1>7, <3>1, <3>2 DEF Even
  <2> HIDE DEF q
  <2>3. CASE q = p
    BY <1>6, <2>3 DEF SameCounts, SameFormulas, SamePostsolve
  <2>4. CASE q = [p EXCEPT !.failed = "notifyResetAssertions"] /\ ~ Len(p.assertionList) = 1
    BY <1>6, <2>2, <2>4 DEF Engines, SameCounts, SameFormulas, SamePostsolve
  <2>5. QED BY <2>1, <2>3, <2>4 DEF AssertThat
<1>9. NewPropEngine(Setup(PopToZero(q))) = d
  <2>1. Append(<<>>, {}) = one /\ 0 + 1 = up OBVIOUS
  <2> HIDE DEF q
  <2>2. q \in Engines BY <1>8
  <2> HIDE DEF one
  <2>3. QED BY <2>1, <2>2 DEF NewPropEngine, Setup, PopToZero, Engines
<1>10. one \in Seq(SUBSET All) /\ new \in Seq(Level) /\ up \in Int /\ none \in {0, 1}
  <2>1. [clauses |-> {}, ok |-> TRUE] \in Level BY DEF Level
  <2>2. QED BY <2>1
<1> HIDE DEF q, one, new, up, none
<1>11. d \in Engines BY <1>8, <1>10 DEF Engines
<1>12. /\ SameCounts(d, q) /\ SameFormulas(d, q)
       /\ d.queryMade = q.queryMade /\ d.userLevels = q.userLevels /\ d.inited = q.inited
       /\ d.failed = q.failed
       /\ d.assertionList = one /\ d.sat = new /\ d.contextLevel = up
  BY <1>8 DEF Engines, SameCounts, SameFormulas
<1>13. /\ d.decisions = none /\ d.pendingPops = q.pendingPops
       /\ d.needPostsolve = q.needPostsolve /\ d.inSatMode = q.inSatMode
  BY <1>8 DEF Engines
<1> HIDE DEF d
<1>14. Quiet(d)
  BY <1>6, <1>8, <1>13 DEF Quiet, SamePostsolve, none
<1>15. Counted(options, d)
  BY <1>1, <1>2, <1>6, <1>8, <1>12 DEF Counted, SameCounts
<1>16. d.buffer = {} /\ d.globals = e.globals /\ d.assumptions = e.assumptions
  BY <1>2, <1>6, <1>8, <1>12 DEF SameFormulas
<1>17. d.inited = TRUE /\ d.queryMade = e.queryMade /\ d.userLevels = <<>>
  BY <1>2, <1>6, <1>7, <1>8, <1>12 DEF SameProtocol, Levels
<1>18. Good(options, d)
  BY <1>11, <1>12, <1>14, <1>15, <1>16, <1>17, NewStacksGood DEF one, new, up
<1>19. ASSUME Even(e) PROVE Even(d) /\ d.failed = e.failed
  <2>1. d.failed = e.failed
    BY <1>2, <1>4, <1>6, <1>8, <1>12, <1>19 DEF SameProtocol
  <2>2. Len(d.assertionList) = 1 BY <1>12 DEF one
  <2>3. Even(d) BY <1>14, <1>17, <2>2 DEF Even, Quiet
  <2>4. QED BY <2>1, <2>3
<1>20. QED BY <1>9, <1>12, <1>14, <1>16, <1>17, <1>18, <1>19 DEF d, q, x, one

-----------------------------------------------------------------------------
(* The start and the end of a call's counter.                                *)
LEMMA CallGood ==
  ASSUME NEW o \in Options, NEW e \in Engines, Counted(o, e)
  PROVE LET d == [e EXCEPT !.callUsed = 0] IN
        /\ d \in Engines /\ Counted(o, d)
        /\ SameFormulas(d, e) /\ SameProtocol(d, e) /\ SamePostsolve(d, e)
        /\ SameStacks(d, e)
<1> DEFINE none == 0
           d == [e EXCEPT !.callUsed = none]
<1>1. none \in Nat /\ none \in 0 .. o.perCallResourceLimit BY OptionsTyped
<1>2. [e EXCEPT !.callUsed = 0] = d OBVIOUS
<1> HIDE DEF none
<1>3. QED
  BY <1>1, <1>2
    DEF Engines, Counted, SameFormulas, SameProtocol, SamePostsolve, SameStacks

(* notifyCheckSat keeps the invariant.                                       *)
LEMMA NotifyCheckSatGood ==
  ASSUME options \in Options, NEW e, Good(options, e), Quiet(e),
         NEW noticed \in BOOLEAN, NEW assumptions \in SUBSET Formulas
  PROVE LET d == NotifyCheckSat(assumptions, noticed, e)
            pushes == assumptions # {} /\ options.incrementalSolving
        IN
        /\ Good(options, d) /\ Quiet(d)
        /\ d.globals = e.globals /\ d.userLevels = e.userLevels /\ d.failed = e.failed
        /\ d.queryMade = TRUE
        /\ d.assertionList = IF pushes THEN Append(e.assertionList, {}) ELSE e.assertionList
        /\ Len(d.assertionList) = Len(e.assertionList) + IF pushes THEN 1 ELSE 0
<1> DEFINE m == "ASSERT"
           asked == [e EXCEPT !.queryMade = TRUE, !.mode = m]
           d == NotifyCheckSat(assumptions, noticed, e)
           n == Len(e.assertionList)
           push == InternalPush(noticed, asked)
<1>1. /\ e \in Engines /\ Counted(options, e) /\ Levels(options, e)
      /\ n \in Nat \ {0} /\ e.assertionList \in Seq(SUBSET All)
  BY GoodSizes DEF Good
<1>2. m \in Modes BY DEF Modes
<1>3. d = IF assumptions # {} THEN push ELSE asked
  BY DEF NotifyCheckSat
<1>4. push = IF options.incrementalSolving THEN InternalPush(noticed, asked)
             ELSE DoPendingPops(asked)
  BY DEF InternalPush, Incremental
<1> HIDE DEF m
<1>5. /\ asked \in Engines /\ SameCounts(asked, e) /\ SameStacks(asked, e)
      /\ SameFormulas(asked, e) /\ SamePostsolve(asked, e)
      /\ asked.inited = e.inited /\ asked.userLevels = e.userLevels
      /\ asked.failed = e.failed /\ asked.queryMade = TRUE
  BY <1>1, <1>2 DEF Engines, SameCounts, SameStacks, SameFormulas, SamePostsolve
<1> HIDE DEF asked, d
<1>6. Quiet(asked) /\ Counted(options, asked)
  BY <1>1, <1>5 DEF Quiet, SamePostsolve, Counted, SameCounts
<1>7. Good(options, asked) BY <1>5, <1>6, NotedGood DEF SameFormulas
<1>8. options.incrementalSolving \in BOOLEAN BY OptionsTyped
<1>9. CASE assumptions = {}
  BY <1>1, <1>3, <1>5, <1>6, <1>7, <1>9 DEF SameStacks, SameFormulas, d
<1>10. CASE assumptions # {} /\ ~ options.incrementalSolving
  <2>1. d = DoPendingPops(asked) BY <1>3, <1>4, <1>10
  <2>2. /\ Good(options, d) /\ Quiet(d)
        /\ SameFormulas(d, asked) /\ SameProtocol(d, asked)
        /\ d.assertionList =
             SubSeq(asked.assertionList, 1, Len(asked.assertionList) - asked.pendingPops)
    BY <1>7, <2>1, DoPendingPopsGood
  <2>3. d.assertionList = e.assertionList
    <3>1. asked.pendingPops = 0 /\ asked.assertionList = e.assertionList
      BY <1>5, <1>6 DEF Quiet, SameStacks
    <3>2. QED BY <1>1, <2>2, <3>1
  <2>4. /\ d.globals = e.globals /\ d.userLevels = e.userLevels /\ d.failed = e.failed
        /\ d.queryMade = TRUE
    BY <1>5, <2>2 DEF SameFormulas, SameProtocol
  <2>5. Len(d.assertionList) = n + 0 BY <1>1, <2>3
  <2>6. QED BY <1>10, <2>2, <2>3, <2>4, <2>5 DEF d
<1>11. CASE assumptions # {} /\ options.incrementalSolving
  <2>1. d = InternalPush(noticed, asked) BY <1>3, <1>4, <1>11
  <2>2. options.incrementalSolving = TRUE /\ asked.buffer = e.buffer
        /\ asked.globals = e.globals
    BY <1>5, <1>8, <1>11 DEF SameFormulas
  <2>3. /\ d \in Engines /\ Counted(options, d) /\ Quiet(d) /\ SameProtocol(d, asked)
        /\ d.buffer = {} /\ d.globals = e.globals /\ d.assumptions = asked.assumptions
        /\ d.assertionList = Append(e.assertionList, {})
        /\ Len(d.assertionList) = n + 1
        /\ Len(d.sat) = n + 1
        /\ d.contextLevel = n + 1
        /\ Holds(d.assertionList, d.sat, d.buffer, d.globals)
    <3>1. asked.inited = e.inited /\ SameStacks(asked, e) /\ asked \in Engines BY <1>5
    <3>2. Pushed(options, InternalPush(noticed, asked), e, asked)
      BY <1>6, <2>2, <3>1, PushStacks
    <3>3. QED BY <2>1, <3>2 DEF Pushed
  <2>4. Levels(options, d)
    <3>1. d.decisions = 0 /\ d.pendingPops = 0 /\ Settled(d)
      BY <2>3, QuietModel DEF Quiet
    <3>2. d.inited = TRUE /\ d.userLevels = e.userLevels
      BY <1>1, <1>5, <2>3 DEF SameProtocol, Levels
    <3>3. e.pendingPops = 0 BY DEF Quiet
    <3>4. /\ \A k \in 1 .. Len(e.userLevels) : e.userLevels[k] < n - 0
          /\ \A j, k \in 1 .. Len(e.userLevels) : j < k => e.userLevels[j] < e.userLevels[k]
      BY <1>1, <3>3 DEF Levels
    <3>5. \A k \in 1 .. Len(e.userLevels) : e.userLevels[k] < n + 1 - 0
      <4>1. e.userLevels \in Seq(Nat \ {0}) BY <1>1 DEF Engines
      <4> HIDE DEF n
      <4>2. QED BY <1>1, <3>4, <4>1
    <3>6. 0 < n + 1 /\ n + 1 + 0 = n + 1 BY <1>1
    <3> HIDE DEF n
    <3>7. QED BY <2>2, <2>3, <3>1, <3>2, <3>4, <3>5, <3>6 DEF Levels
  <2>5. Model(d) /\ d.pendingPops = 0 BY <2>3, QuietModel DEF Quiet
  <2>6. Good(options, d) BY <2>3, <2>4, <2>5 DEF Good
  <2>7. /\ d.userLevels = e.userLevels /\ d.failed = e.failed /\ d.queryMade = TRUE
    BY <1>5, <2>3 DEF SameProtocol
  <2>8. QED BY <1>11, <2>3, <2>6, <2>7 DEF d
<1>12. QED BY <1>8, <1>9, <1>10, <1>11

(* An engine with the assertions of a check in it, as in Initialized.        *)
Asked(assumptions, noticed, e) ==
  LET notified == NotifyCheckSat(assumptions, noticed, e)
  IN AddFormulas(assumptions \cup notified.globals,
                 [notified EXCEPT !.assumptions = assumptions])

(* What the formulas of that check do to an engine e.                        *)
AskedOf(o, d, e, assumptions) ==
  LET pushes == assumptions # {} /\ o.incrementalSolving
      n == Len(d.assertionList)
  IN /\ Good(o, d) /\ Quiet(d)
     /\ d.globals = e.globals /\ d.userLevels = e.userLevels /\ d.failed = e.failed
     /\ d.queryMade = TRUE /\ d.assumptions = assumptions
     /\ d.globals \subseteq d.buffer
     /\ n = Len(e.assertionList) + IF pushes THEN 1 ELSE 0
     /\ \A l \in 1 .. Len(e.assertionList) :
          d.assertionList[l] \cap Formulas =
            (e.assertionList[l] \cap Formulas) \cup IF l = n THEN assumptions ELSE {}
     /\ pushes => d.assertionList[n] \cap Formulas = assumptions

(* Adding the assumptions and the global definitions keeps the invariant;    *)
(* the assumptions are alone in the level pushed for them.                   *)
LEMMA AskedGood ==
  ASSUME options \in Options, NEW e, Good(options, e), Quiet(e),
         NEW noticed \in BOOLEAN, NEW assumptions \in SUBSET Formulas
  PROVE AskedOf(options, Asked(assumptions, noticed, e), e, assumptions)
<1> DEFINE notified == NotifyCheckSat(assumptions, noticed, e)
           x == [notified EXCEPT !.assumptions = assumptions]
           S == assumptions \cup x.globals
           d == Asked(assumptions, noticed, e)
           pushes == assumptions # {} /\ options.incrementalSolving
           n == Len(d.assertionList)
           more == IF pushes THEN 1 ELSE 0
<1>1. /\ Good(options, notified) /\ Quiet(notified)
      /\ notified.globals = e.globals /\ notified.userLevels = e.userLevels
      /\ notified.failed = e.failed /\ notified.queryMade = TRUE
      /\ notified.assertionList = IF pushes THEN Append(e.assertionList, {})
                                  ELSE e.assertionList
      /\ Len(notified.assertionList) = Len(e.assertionList) + more
  BY NotifyCheckSatGood
<1>2. d = AddFormulas(assumptions \cup notified.globals, x) BY DEF Asked
<1> HIDE DEF notified
<1>3. notified \in Engines /\ Counted(options, notified) BY <1>1 DEF Good
<1>4. /\ x \in Engines /\ SameCounts(x, notified) /\ SameStacks(x, notified)
      /\ SamePostsolve(x, notified) /\ SameProtocol(x, notified)
      /\ x.buffer = notified.buffer /\ x.globals = notified.globals
      /\ x.assumptions = assumptions
  BY <1>3 DEF Engines, SameCounts, SameStacks, SamePostsolve, SameProtocol
<1> HIDE DEF x
<1>5. Quiet(x) /\ Counted(options, x)
  BY <1>1, <1>3, <1>4 DEF Quiet, SamePostsolve, Counted, SameCounts
<1>6. Good(options, x) BY <1>1, <1>4, <1>5, NotedGood DEF SameProtocol
<1>7. S \in SUBSET All /\ S \cap RecDefs \subseteq x.globals
  <2>1. x.globals \in SUBSET RecDefs BY <1>4 DEF Engines
  <2>2. QED BY <2>1, SmtEngineAssumption DEF All
<1>8. d = AddFormulas(S, x) BY <1>2, <1>4
<1>9. /\ Good(options, d) /\ Quiet(d)
      /\ SameCounts(d, x) /\ SameProtocol(d, x)
      /\ d.globals = x.globals /\ d.assumptions = x.assumptions
      /\ d.buffer = x.buffer \cup S
      /\ d.assertionList = [x.assertionList EXCEPT ![Len(x.assertionList)] = @ \cup S]
      /\ Len(d.assertionList) = Len(x.assertionList)
  <2> HIDE DEF S
  <2>1. QED BY <1>5, <1>6, <1>7, <1>8, AddFormulasGood
<1> HIDE DEF d
<1>10. /\ d.globals = e.globals /\ d.userLevels = e.userLevels /\ d.failed = e.failed
       /\ d.queryMade = TRUE /\ d.assumptions = assumptions
       /\ d.globals \subseteq d.buffer
  BY <1>1, <1>4, <1>9 DEF SameProtocol
<1>11. /\ x.assertionList = notified.assertionList
       /\ n = Len(e.assertionList) + more /\ n = Len(x.assertionList)
  BY <1>1, <1>4, <1>9 DEF SameStacks
<1>12. /\ e.assertionList \in Seq(SUBSET All) /\ Len(e.assertionList) \in Nat \ {0}
       /\ x.assertionList \in Seq(SUBSET All)
  BY <1>6, GoodSizes
<1>13. S \cap Formulas = assumptions
  <2>1. x.globals \in SUBSET RecDefs BY <1>4 DEF Engines
  <2>2. QED BY <2>1, SmtEngineAssumption
<1> HIDE DEF S
<1>14. n \in Nat \ {0} /\ (\A l \in 1 .. Len(e.assertionList) : l \in 1 .. n)
  <2>1. more \in {0, 1} OBVIOUS
  <2> HIDE DEF n, more
  <2>2. QED BY <1>11, <1>12, <2>1
<1>15. /\ d.assertionList[n] = x.assertionList[n] \cup S
       /\ \A l \in 1 .. n : l # n => d.assertionList[l] = x.assertionList[l]
  <2>1. d.assertionList = [x.assertionList EXCEPT ![n] = @ \cup S] BY <1>9, <1>11
  <2>2. n = Len(x.assertionList) BY <1>11
  <2> HIDE DEF n
  <2>3. QED BY <1>12, <1>14, <2>1, <2>2
<1>16. /\ \A l \in 1 .. Len(e.assertionList) : x.assertionList[l] = e.assertionList[l]
       /\ pushes => x.assertionList[n] = {}
  <2>1. CASE pushes
    <3>1. x.assertionList = Append(e.assertionList, {}) /\ n = Len(e.assertionList) + 1
      BY <1>1, <1>11, <2>1
    <3> HIDE DEF n
    <3>2. QED BY <1>12, <3>1
  <2>2. CASE ~ pushes
    BY <1>1, <1>11, <2>2
  <2>3. QED BY <2>1, <2>2
<1>17. \A l \in 1 .. Len(e.assertionList) :
         d.assertionList[l] \cap Formulas =
           (e.assertionList[l] \cap Formulas) \cup IF l = n THEN assumptions ELSE {}
  <2> HIDE DEF n
  <2>1. TAKE l \in 1 .. Len(e.assertionList)
  <2>2. CASE l = n
    <3>1. d.assertionList[l] = e.assertionList[l] \cup S BY <1>15, <1>16, <2>2
    <3>2. QED BY <1>13, <2>2, <3>1
  <2>3. CASE l # n
    <3>1. d.assertionList[l] = e.assertionList[l] BY <1>14, <1>15, <1>16, <2>3
    <3>2. QED BY <2>3, <3>1
  <2>4. QED BY <2>2, <2>3
<1>18. pushes => d.assertionList[n] \cap Formulas = assumptions
  <2> HIDE DEF n
  <2>1. QED BY <1>13, <1>15, <1>16
<1>19. AskedOf(options, d, e, assumptions)
  BY <1>9, <1>10, <1>11, <1>17, <1>18 DEF AskedOf
<1>20. QED BY <1>19 DEF d

(* The formulas a check is asked about.                                      *)
Asserting(e) ==
  (Formulas \cap UNION {e.assertionList[l] : l \in 1 .. Len(e.assertionList)}) \cup e.globals

(* Membership in them.                                                       *)
LEMMA InAsserting ==
  ASSUME NEW e
  PROVE \A x : x \in Asserting(e) <=>
          \/ \E l \in 1 .. Len(e.assertionList) : x \in e.assertionList[l] \cap Formulas
          \/ x \in e.globals
BY DEF Asserting

(* The clauses of all levels.                                                *)
LEMMA SatClausesAre ==
  ASSUME NEW e \in Engines
  PROVE SatClauses(e) = ClausesTo(e.sat, Len(e.sat))
<1>1. DOMAIN e.sat = 1 .. Len(e.sat) BY DEF Engines
<1>2. QED BY <1>1 DEF SatClauses, ClausesTo

(* Once the buffer is processed, the SAT solver has exactly the formulas of  *)
(* the check, or is shut with a subset of them that is inconsistent.         *)
LEMMA ClausesAreAsserted ==
  ASSUME NEW o, NEW i, Good(o, i), i.globals \subseteq i.buffer,
         NEW e, Good(o, e), e.buffer = {}, e.globals = i.globals,
         e.assertionList = i.assertionList, Asserted(e.sat, i.sat, i.buffer)
  PROVE LET n == Len(e.sat) IN
        /\ SatClauses(e) \subseteq Asserting(e)
        /\ e.sat[n].ok => SatClauses(e) = Asserting(e)
        /\ ~ e.sat[n].ok => ~ Consistent(SatClauses(e))
<1> DEFINE n == Len(e.sat)
           list == e.assertionList
<1>1. /\ e \in Engines /\ n \in Nat \ {0} /\ Len(list) = n
      /\ Len(i.sat) = n
  BY GoodSizes
<1>2. Holds(list, e.sat, {}, e.globals) BY DEF Good
<1>3. SatClauses(e) = UNION {e.sat[m].clauses : m \in 1 .. n}
  BY <1>1, SatClausesAre DEF ClausesTo
<1>4. \A l \in 1 .. n :
        /\ e.sat[l].clauses \subseteq (list[l] \cap Formulas) \cup e.globals
        /\ e.sat[l].ok => list[l] \cap Formulas \subseteq e.sat[l].clauses
        /\ ~ e.sat[l].ok => ~ Consistent(ClausesTo(e.sat, l))
        /\ e.sat[l].ok => \A m \in 1 .. l : e.sat[m].ok
  BY <1>1, <1>2 DEF Holds
<1>5. \A x : x \in Asserting(e) <=> \/ \E l \in 1 .. n : x \in list[l] \cap Formulas
                                    \/ x \in e.globals
  BY <1>1, InAsserting
<1>6. n \in 1 .. n BY <1>1
<1> HIDE DEF n, list
<1>7. ASSUME NEW x \in SatClauses(e) PROVE x \in Asserting(e)
  <2>1. PICK m \in 1 .. n : x \in e.sat[m].clauses BY <1>3, <1>7
  <2>2. x \in list[m] \cap Formulas \/ x \in e.globals BY <1>4, <2>1
  <2>3. QED BY <1>5, <2>1, <2>2
<1>8. ASSUME e.sat[n].ok PROVE Asserting(e) \subseteq SatClauses(e)
  <2>1. \A m \in 1 .. n : e.sat[m].ok BY <1>4, <1>6, <1>8
  <2>2. \A m \in 1 .. n : list[m] \cap Formulas \subseteq e.sat[m].clauses BY <1>4, <2>1
  <2>3. e.globals \subseteq e.sat[n].clauses
    <3>1. e.sat[n].clauses = i.sat[n].clauses \cup i.buffer
      BY <1>1, <1>8 DEF Asserted
    <3>2. QED BY <3>1
  <2>4. ASSUME NEW x \in Asserting(e) PROVE x \in SatClauses(e)
    <3>1. CASE x \in e.globals BY <1>3, <1>6, <2>3, <3>1
    <3>2. CASE x \notin e.globals
      <4>1. PICK m \in 1 .. n : x \in list[m] \cap Formulas BY <1>5, <2>4, <3>2
      <4>2. x \in e.sat[m].clauses BY <2>2, <4>1
      <4>3. QED BY <1>3, <4>1, <4>2
    <3>3. QED BY <3>1, <3>2
  <2>5. QED BY <2>4
<1>9. ~ e.sat[n].ok => ~ Consistent(SatClauses(e))
  <2>1. ClausesTo(e.sat, n) = SatClauses(e) BY <1>3 DEF ClausesTo
  <2>2. QED BY <1>4, <1>6, <2>1
<1>10. QED BY <1>7, <1>8, <1>9 DEF n

(* So the answers sat and unsat are about the formulas of the check,         *)
(* whatever was buffered, dropped or noticed early.                          *)
LEMMA VerdictsAreSound ==
  ASSUME NEW i, Good(options, i), i.globals \subseteq i.buffer,
         NEW e, Good(options, e), e.buffer = {}, e.globals = i.globals,
         e.assertionList = i.assertionList, Asserted(e.sat, i.sat, i.buffer),
         NEW spent, NEW verdict \in Verdicts(spent, e)
  PROVE /\ verdict \in {"sat", "unsat", "unknown"}
        /\ verdict # "unsat" => e.sat[Len(e.sat)].ok
        /\ verdict = "sat" => Consistent(Asserting(e))
        /\ verdict = "unsat" => ~ Consistent(SatClauses(e)) /\ ~ Consistent(Asserting(e))
<1> DEFINE n == Len(e.sat)
<1>1. /\ SatClauses(e) \subseteq Asserting(e)
      /\ e.sat[n].ok => SatClauses(e) = Asserting(e)
      /\ ~ e.sat[n].ok => ~ Consistent(SatClauses(e))
  BY ClausesAreAsserted
<1>2. Last(e.sat) = e.sat[n] BY DEF Last
<1>3. \/ ~ e.sat[n].ok /\ verdict = "unsat"
      \/ e.sat[n].ok /\ verdict = "unknown"
      \/ e.sat[n].ok /\ Consistent(SatClauses(e)) /\ verdict = "sat"
      \/ e.sat[n].ok /\ ~ Consistent(SatClauses(e)) /\ verdict = "unsat"
  BY <1>2 DEF Verdicts
<1> HIDE DEF n
<1>4. ~ Consistent(SatClauses(e)) => ~ Consistent(Asserting(e))
  BY <1>1, ConsistentSubset
<1>5. QED BY <1>1, <1>3, <1>4 DEF n

(* solve leaves its decisions on the trail and the theories maybe in sat     *)
(* mode.                                                                     *)
LEMMA SolveFields ==
  ASSUME NEW e \in Engines, Quiet(e), Len(e.sat) > 0,
         NEW verdict \in {"sat", "unsat", "unknown"}, NEW trail \in 0 .. 1,
         NEW reached \in BOOLEAN,
         verdict = "unsat" => ~ Consistent(SatClauses(e)),
         verdict # "unsat" => e.sat[Len(e.sat)].ok
  PROVE LET d == Solve(verdict, trail, reached, e) IN
        /\ d \in Engines
        /\ SameCounts(d, e) /\ SameFormulas(d, e) /\ SameProtocol(d, e)
        /\ d.pendingPops = e.pendingPops
        /\ d.assertionList = e.assertionList
        /\ Asserted(d.sat, e.sat, {})
        /\ d.contextLevel = e.contextLevel + d.decisions
        /\ d.inSatMode => d.modelOf = SatClauses(e)
<1> DEFINE n == Len(e.sat)
           top == [e.sat[n] EXCEPT !.ok = @ /\ verdict # "unsat"]
           sat == [e.sat EXCEPT ![n] = top]
           left == IF verdict = "unsat" THEN 0 ELSE trail
           satMode == reached \/ verdict = "sat"
           next == e.contextLevel + left
           mode == e.inSatMode \/ satMode
           of == IF satMode THEN SatClauses(e) ELSE e.modelOf
           d == [e EXCEPT !.sat = sat, !.decisions = left, !.contextLevel = next,
                          !.inSatMode = mode, !.modelOf = of]
<1>1. e.sat \in Seq(Level) /\ n \in 1 .. n /\ e.sat[n] \in Level /\ n \in Nat
      /\ e.contextLevel \in Int
  BY DEF Engines
<1>2. top \in Level /\ top.clauses = e.sat[n].clauses
      /\ top.ok = (e.sat[n].ok /\ verdict # "unsat")
  BY <1>1 DEF Level
<1> HIDE DEF top
<1>3. sat \in Seq(Level) /\ Len(sat) = n /\ sat[n] = top
      /\ \A l \in 1 .. n - 1 : sat[l] = e.sat[l]
  BY <1>1, <1>2
<1>4. Solve(verdict, trail, reached, e) = d
  <2>1. e.decisions = 0 BY DEF Quiet
  <2>2. QED BY <2>1 DEF Solve, AssertThat, top
<1>5. left \in {0, 1} /\ next \in Int /\ mode \in BOOLEAN
  <2>1. left \in {0, 1} OBVIOUS
  <2> HIDE DEF left
  <2>2. next \in Int BY <1>1, <2>1
  <2>3. mode \in BOOLEAN
    <3>1. e.inSatMode = FALSE BY DEF Quiet
    <3>2. QED BY <3>1
  <2>4. QED BY <2>1, <2>2, <2>3
<1>6. of \in SUBSET All
  <2>1. \A l \in 1 .. n : e.sat[l].clauses \subseteq All
    <3>1. \A l \in 1 .. n : e.sat[l] \in Level BY <1>1
    <3>2. QED BY <3>1 DEF Level
  <2>2. SatClauses(e) = UNION {e.sat[m].clauses : m \in 1 .. n}
    BY SatClausesAre DEF ClausesTo
  <2>3. e.modelOf \in SUBSET All BY DEF Engines
  <2> HIDE DEF n
  <2>4. QED BY <2>1, <2>2, <2>3
<1>7. mode => of = SatClauses(e) BY DEF Quiet
<1>8. Asserted(sat, e.sat, {})
  <2>1. ClausesTo(sat, n) = SatClauses(e)
    <3>1. \A l \in 1 .. n : l \in 1 .. n - 1 \/ l = n BY <1>1
    <3> HIDE DEF n, sat
    <3>2. \A l \in 1 .. n : sat[l].clauses = e.sat[l].clauses BY <1>2, <1>3, <3>1
    <3>3. ClausesTo(sat, n) = ClausesTo(e.sat, n) BY <3>2 DEF ClausesTo
    <3>4. QED BY <3>3, SatClausesAre DEF n
  <2>2. CASE e.sat[n].ok
    <3>1. ~ top.ok => verdict = "unsat" BY <1>2, <2>2
    <3> HIDE DEF sat
    <3>2. QED BY <1>2, <1>3, <2>1, <2>2, <3>1 DEF Asserted
  <2>3. CASE ~ e.sat[n].ok
    <3>1. top = e.sat[n]
      <4>1. top.ok = FALSE /\ e.sat[n].ok = FALSE BY <1>1, <1>2, <2>3 DEF Level
      <4>2. QED BY <1>1, <1>2, <4>1 DEF Level
    <3> HIDE DEF sat
    <3>2. QED BY <1>3, <2>3, <3>1 DEF Asserted
  <2>4. QED BY <2>2, <2>3
<1> HIDE DEF sat, mode, of, next, left
<1>9. d \in Engines BY <1>3, <1>5, <1>6 DEF Engines
<1>10. /\ SameCounts(d, e) /\ SameFormulas(d, e) /\ SameProtocol(d, e)
       /\ d.pendingPops = e.pendingPops
       /\ d.assertionList = e.assertionList
       /\ d.sat = sat /\ d.decisions = left /\ d.contextLevel = next
  BY DEF Engines, SameCounts, SameFormulas, SameProtocol
<1>11. d.inSatMode = mode /\ d.modelOf = of BY DEF Engines
<1> HIDE DEF d
<1>12. d.contextLevel = e.contextLevel + d.decisions BY <1>10 DEF next
<1>13. d.inSatMode => d.modelOf = SatClauses(e) BY <1>7, <1>11
<1>14. QED BY <1>4, <1>8, <1>9, <1>10, <1>12, <1>13

(* What a check leaves, and what its answer says.                            *)
CheckDone(o, d, e, assumptions, noticed, verdict) ==
  LET i == Asked(assumptions, noticed, e)
      pushes == assumptions # {} /\ o.incrementalSolving
  IN /\ Good(o, d)
     /\ d.globals = e.globals /\ d.userLevels = e.userLevels /\ d.failed = e.failed
     /\ d.queryMade = TRUE /\ d.assumptions = assumptions
     /\ d.assertionList = i.assertionList
     /\ d.pendingPops = IF pushes THEN 1 ELSE 0
     /\ verdict \in {"sat", "unsat", "unknown"}
     /\ verdict = "sat" => Consistent(Asserting(i))
     /\ verdict = "unsat" => ~ Consistent(Asserting(i))

(* A check keeps the invariant and answers for the formulas of that check.   *)
LEMMA CheckGood ==
  ASSUME options \in Options, NEW e, Good(options, e), Quiet(e),
         NEW noticed \in BOOLEAN, NEW assumptions \in SUBSET Formulas,
         NEW trail \in 0 .. 1, NEW reached \in BOOLEAN, NEW spent \in 0 .. 1,
         NEW verdict \in Verdicts(spent, ProcessAssertions(noticed,
                                           BeginCall(Asked(assumptions, noticed, e))))
  PROVE LET ready == ProcessAssertions(noticed, BeginCall(Asked(assumptions, noticed, e)))
            solved == EndCall(SpendResource(spent, Solve(verdict, trail, reached, ready)))
        IN CheckDone(options, NotifyCheckSatResult(assumptions, verdict, solved),
                     e, assumptions, noticed, verdict)
<1> DEFINE i == Asked(assumptions, noticed, e)
           b == BeginCall(i)
           ready == ProcessAssertions(noticed, b)
           s == Solve(verdict, trail, reached, ready)
           paid == SpendResource(spent, s)
           solved == EndCall(paid)
           pushes == assumptions # {} /\ options.incrementalSolving
           n == Len(i.assertionList)
           pops == IF pushes THEN 1 ELSE 0
<1>1. /\ Good(options, i) /\ Quiet(i)
      /\ i.globals = e.globals /\ i.userLevels = e.userLevels /\ i.failed = e.failed
      /\ i.queryMade = TRUE /\ i.assumptions = assumptions
      /\ i.globals \subseteq i.buffer
      /\ n = Len(e.assertionList) + pops
      /\ \A l \in 1 .. Len(e.assertionList) :
           i.assertionList[l] \cap Formulas =
             (e.assertionList[l] \cap Formulas) \cup IF l = n THEN assumptions ELSE {}
      /\ pushes => i.assertionList[n] \cap Formulas = assumptions
  <2>1. AskedOf(options, i, e, assumptions) BY AskedGood
  <2> HIDE DEF i
  <2>2. QED BY <2>1 DEF AskedOf
<1>2. verdict \in Verdicts(spent, ready) OBVIOUS
<1> HIDE DEF i
<1>3. /\ Good(options, b) /\ Quiet(b) /\ SameFormulas(b, i) /\ SameStacks(b, i)
      /\ SameProtocol(b, i)
  <2>1. /\ b \in Engines /\ Counted(options, b)
        /\ SameFormulas(b, i) /\ SameProtocol(b, i) /\ SamePostsolve(b, i)
        /\ SameStacks(b, i)
    BY <1>1, CallGood DEF Good, BeginCall
  <2> HIDE DEF b
  <2>2. Quiet(b) BY <1>1, <2>1 DEF Quiet, SamePostsolve
  <2>3. Good(options, b)
    BY <1>1, <2>1, <2>2, NotedGood DEF SameFormulas, SameProtocol
  <2>4. QED BY <2>1, <2>2, <2>3
<1> HIDE DEF b
<1>4. /\ Good(options, ready) /\ Quiet(ready)
      /\ SameProtocol(ready, b)
      /\ ready.buffer = {} /\ ready.globals = b.globals
      /\ ready.assumptions = b.assumptions
      /\ ready.assertionList = b.assertionList
      /\ Asserted(ready.sat, b.sat, b.buffer)
  BY <1>3, ProcessAssertionsGood
<1> HIDE DEF ready
<1>5. /\ i.sat = b.sat /\ i.buffer = b.buffer /\ ready.globals = i.globals
      /\ ready.assumptions = assumptions
      /\ ready.assertionList = i.assertionList /\ SameProtocol(ready, i)
  BY <1>1, <1>3, <1>4 DEF SameFormulas, SameStacks, SameProtocol
<1>6. /\ verdict \in {"sat", "unsat", "unknown"}
      /\ verdict # "unsat" => ready.sat[Len(ready.sat)].ok
      /\ verdict = "sat" => Consistent(Asserting(ready))
      /\ verdict = "unsat" => ~ Consistent(SatClauses(ready)) /\ ~ Consistent(Asserting(ready))
  BY <1>1, <1>2, <1>4, <1>5, VerdictsAreSound
<1>7. /\ SatClauses(ready) \subseteq Asserting(ready)
      /\ ready.sat[Len(ready.sat)].ok => SatClauses(ready) = Asserting(ready)
  BY <1>1, <1>4, <1>5, ClausesAreAsserted
<1>8. /\ ready \in Engines /\ Len(ready.sat) = n /\ n \in Nat \ {0}
      /\ ready.contextLevel = n /\ ready.pendingPops = 0
  <2>1. ready \in Engines /\ Len(ready.sat) = n /\ n \in Nat \ {0} BY <1>4, <1>5, GoodSizes
  <2>2. ready.pendingPops = 0 /\ ready.decisions = 0 BY <1>4 DEF Quiet
  <2>3. ready.contextLevel = Len(ready.assertionList) + ready.decisions
    BY <1>4 DEF Good, Levels
  <2> HIDE DEF n
  <2>4. ready.contextLevel = n + 0 BY <1>5, <2>2, <2>3 DEF n
  <2>5. QED BY <2>1, <2>2, <2>4
<1>9. /\ s \in Engines
      /\ SameCounts(s, ready) /\ SameFormulas(s, ready) /\ SameProtocol(s, ready)
      /\ s.pendingPops = ready.pendingPops
      /\ s.assertionList = ready.assertionList
      /\ Asserted(s.sat, ready.sat, {})
      /\ s.contextLevel = ready.contextLevel + s.decisions
      /\ s.inSatMode => s.modelOf = SatClauses(ready)
  <2>1. Len(ready.sat) > 0 BY <1>8
  <2>2. QED BY <1>4, <1>6, <1>8, <2>1, SolveFields
<1> HIDE DEF s
<1>10. Counted(options, s) BY <1>4, <1>9 DEF Good, Counted, SameCounts
<1>11. /\ paid \in Engines /\ Counted(options, paid)
       /\ SameFormulas(paid, s) /\ SameProtocol(paid, s) /\ SamePostsolve(paid, s)
       /\ SameStacks(paid, s)
  BY <1>9, <1>10, SpendFields
<1> HIDE DEF paid
<1>12. /\ solved \in Engines /\ Counted(options, solved)
       /\ SameFormulas(solved, paid) /\ SameProtocol(solved, paid)
       /\ SamePostsolve(solved, paid) /\ SameStacks(solved, paid)
  BY <1>11, CallGood DEF EndCall
<1> HIDE DEF solved
<1> DEFINE x == NotifyCheckSatResult(assumptions, verdict, solved)
           m == ModeOf(verdict)
           d == [solved EXCEPT !.needPostsolve = TRUE, !.mode = m, !.pendingPops = pops]
<1>13. m \in Modes /\ (m \in {"SAT", "SAT_UNKNOWN"} => verdict # "unsat")
  BY <1>6 DEF ModeOf, Modes
<1>14. pops \in {0, 1} /\ pops \in Nat OBVIOUS
<1>15. solved.pendingPops = 0
  BY <1>8, <1>9, <1>11, <1>12 DEF SamePostsolve
<1> HIDE DEF m, pops
<1>16. /\ d \in Engines /\ SameCounts(d, solved) /\ SameFormulas(d, solved)
       /\ SameStacks(d, solved) /\ d.inited = solved.inited
       /\ d.queryMade = solved.queryMade /\ d.userLevels = solved.userLevels
       /\ d.failed = solved.failed /\ d.decisions = solved.decisions
       /\ d.inSatMode = solved.inSatMode /\ d.modelOf = solved.modelOf
       /\ d.needPostsolve = TRUE /\ d.mode = m /\ d.pendingPops = pops
  BY <1>12, <1>13, <1>14 DEF Engines, SameCounts, SameFormulas, SameStacks
<1>17. x = d
  <2> DEFINE over == [solved EXCEPT !.needPostsolve = TRUE, !.mode = m]
  <2>1. over.pendingPops = 0 BY <1>12, <1>15 DEF Engines
  <2>2. x = IF assumptions # {} /\ Incremental
              THEN [over EXCEPT !.pendingPops = over.pendingPops + 1] ELSE over
    BY DEF NotifyCheckSatResult, InternalPop, m
  <2>3. [over EXCEPT !.pendingPops = 0] = over BY <1>12, <1>15 DEF Engines
  <2>4. pops = IF assumptions # {} /\ Incremental THEN 1 ELSE 0
    BY DEF pops, Incremental
  <2>5. over.pendingPops + 1 = 1 BY <2>1
  <2>6. [over EXCEPT !.pendingPops = pops] = d OBVIOUS
  <2> HIDE DEF over, d, x
  <2>7. QED BY <2>2, <2>3, <2>4, <2>5, <2>6
<1> HIDE DEF d, x
<1>18. /\ d.assertionList = i.assertionList /\ d.buffer = {} /\ d.globals = i.globals
       /\ d.assumptions = assumptions
       /\ d.queryMade = TRUE /\ d.userLevels = i.userLevels /\ d.failed = i.failed
       /\ d.inited = i.inited
       /\ d.sat = s.sat /\ d.contextLevel = n + d.decisions /\ d.decisions \in {0, 1}
       /\ d.inSatMode => d.modelOf = SatClauses(ready)
  <2>1. /\ d.assertionList = i.assertionList /\ d.sat = s.sat
        /\ d.contextLevel = s.contextLevel
    BY <1>5, <1>9, <1>11, <1>12, <1>16 DEF SameStacks
  <2>2. d.buffer = {} /\ d.globals = i.globals /\ d.assumptions = assumptions
    BY <1>4, <1>5, <1>9, <1>11, <1>12, <1>16 DEF SameFormulas
  <2>3. /\ d.queryMade = TRUE /\ d.userLevels = i.userLevels /\ d.failed = i.failed
        /\ d.inited = i.inited
    BY <1>1, <1>5, <1>9, <1>11, <1>12, <1>16 DEF SameProtocol
  <2>4. d.decisions = s.decisions /\ d.decisions \in {0, 1}
        /\ (d.inSatMode => d.modelOf = SatClauses(ready))
    BY <1>9, <1>11, <1>12, <1>16 DEF SamePostsolve, Engines
  <2> HIDE DEF n
  <2>5. QED BY <1>8, <1>9, <2>1, <2>2, <2>3, <2>4
<1>19. Holds(d.assertionList, d.sat, d.buffer, d.globals)
  <2>1. Holds(ready.assertionList, ready.sat, {}, ready.globals)
    BY <1>4 DEF Good
  <2>2. /\ ready.assertionList \in Seq(SUBSET All) /\ ready.sat \in Seq(Level)
        /\ Len(ready.sat) = Len(ready.assertionList) /\ Len(ready.assertionList) > 0
    BY <1>4, GoodSizes
  <2>3. Holds(ready.assertionList, s.sat, {}, ready.globals)
    BY <1>9, <2>1, <2>2, HoldsAsserted
  <2>4. QED BY <1>5, <1>18, <2>3
<1>20. Len(d.sat) = n BY <1>8, <1>9, <1>18 DEF Asserted
<1>21. Levels(options, d)
  <2>1. /\ i.inited = TRUE
        /\ ~ options.incrementalSolving => n = 1 /\ i.userLevels = <<>>
    BY <1>1 DEF Good, Levels
  <2>2. /\ \A k \in 1 .. Len(e.userLevels) : e.userLevels[k] < Len(e.assertionList)
        /\ \A j, k \in 1 .. Len(e.userLevels) : j < k => e.userLevels[j] < e.userLevels[k]
    <3>1. e.pendingPops = 0 BY DEF Quiet
    <3>2. Len(e.assertionList) - 0 = Len(e.assertionList) BY GoodSizes
    <3>3. QED BY <3>1, <3>2 DEF Good, Levels
  <2>3. Len(e.assertionList) \in Nat \ {0} BY GoodSizes
  <2>4. n - pops = Len(e.assertionList) /\ pops < n
    <3> HIDE DEF n
    <3>1. QED BY <1>1, <1>14, <2>3
  <2>5. Settled(d) BY <1>16 DEF Settled
  <2>6. d.userLevels = e.userLevels BY <1>1, <1>18
  <2>7. Len(d.assertionList) = n BY <1>18
  <2> HIDE DEF n
  <2>8. QED BY <1>16, <1>18, <1>20, <2>1, <2>2, <2>4, <2>5, <2>6, <2>7 DEF Levels
<1>22. Model(d)
  <2>1. SUFFICES ASSUME d.mode \in {"SAT", "SAT_UNKNOWN"}, d.inSatMode
                 PROVE StackOf(d) \cup d.globals \cup d.assumptions = d.modelOf
    BY DEF Model
  <2>2. d.modelOf = Asserting(ready) BY <1>6, <1>7, <1>13, <1>16, <1>18, <2>1
  <2>3. \A y : y \in Asserting(ready) <=>
          \/ \E l \in 1 .. n : y \in i.assertionList[l] \cap Formulas
          \/ y \in d.globals
    BY <1>5, <1>18, InAsserting
  <2>4. \A y : y \in StackOf(d) <=>
          \E l \in 1 .. n - pops : y \in i.assertionList[l] \cap Formulas
    BY <1>16, <1>18 DEF StackOf
  <2>5. n \in 1 .. n BY <1>8
  <2>6. CASE pushes
    <3>1. pops = 1 /\ i.assertionList[n] \cap Formulas = assumptions
      BY <1>1, <2>6 DEF pops
    <3>2. \A l \in 1 .. n : l \in 1 .. n - pops \/ l = n
      <4> HIDE DEF n
      <4>1. QED BY <1>8, <3>1
    <3>3. \A l \in 1 .. n - pops : l \in 1 .. n
      <4> HIDE DEF n
      <4>1. QED BY <1>8, <3>1
    <3> HIDE DEF n, pushes
    <3>4. \A y : y \in Asserting(ready) <=>
            y \in StackOf(d) \/ y \in d.globals \/ y \in d.assumptions
      BY <1>18, <2>3, <2>4, <2>5, <3>1, <3>2, <3>3
    <3>5. QED BY <2>2, <3>4
  <2>7. CASE ~ pushes
    <3>1. pops = 0 /\ n - pops = n
      <4>1. pops = 0 BY <2>7 DEF pops
      <4> HIDE DEF n
      <4>2. QED BY <1>8, <4>1
    <3>2. n = Len(e.assertionList)
      <4>1. Len(e.assertionList) \in Nat BY GoodSizes
      <4> HIDE DEF n
      <4>2. QED BY <1>1, <3>1, <4>1
    <3>3. assumptions \subseteq i.assertionList[n] \cap Formulas
      <4>1. n \in 1 .. Len(e.assertionList) BY <2>5, <3>2
      <4> HIDE DEF n
      <4>2. i.assertionList[n] \cap Formulas = (e.assertionList[n] \cap Formulas) \cup assumptions
        BY <1>1, <4>1
      <4>3. QED BY <4>2
    <3> HIDE DEF n, pushes
    <3>4. \A y : y \in Asserting(ready) <=>
            y \in StackOf(d) \/ y \in d.globals \/ y \in d.assumptions
      BY <1>18, <2>3, <2>4, <2>5, <3>1, <3>3
    <3>5. QED BY <2>2, <3>4
  <2>8. QED BY <2>6, <2>7
<1>23. Good(options, d)
  <2>1. Counted(options, d) BY <1>12, <1>16 DEF Counted, SameCounts
  <2>2. d.pendingPops <= 1 BY <1>14, <1>16
  <2>3. QED BY <1>16, <1>18, <1>19, <1>21, <1>22, <2>1, <2>2 DEF Good
<1>24. Asserting(ready) = Asserting(i) BY <1>5 DEF Asserting
<1>25. CheckDone(options, d, e, assumptions, noticed, verdict)
  BY <1>1, <1>6, <1>16, <1>18, <1>23, <1>24 DEF CheckDone, i, pops
<1>26. QED BY <1>17, <1>25 DEF x, solved, paid, s, ready, b, i

-----------------------------------------------------------------------------
(* The invariant of an engine, used or not.                                  *)
Sound(o, e) == Fresh(o, e) \/ Good(o, e)

(* One level per frame, once there are levels.                               *)
Framed(e) == e.inited => Even(e)

(* The frames of the user, then.                                             *)
FramesOf(e) ==
  IF e.inited THEN [k \in 1 .. Len(e.userLevels) + 1 |-> e.assertionList[k] \cap Formulas]
              ELSE <<{}>>

(* What a call leaves: the invariant and, while there is one level per       *)
(* frame, the frames, definitions and assumptions it is documented to leave. *)
Kept(o, e, d, frames, globals, query) ==
  /\ Sound(o, d)
  /\ e.queryMade => d.queryMade
  /\ d.globals = globals /\ d.assumptions = query
  /\ Framed(e) => Framed(d) /\ d.failed = e.failed /\ FramesOf(d) = frames

(* The fields of an engine not yet used.                                     *)
LEMMA FreshFields ==
  ASSUME NEW o, NEW e, Fresh(o, e)
  PROVE /\ e.inited = FALSE /\ e.queryMade = FALSE /\ e.failed = "none"
        /\ e.pendingPops = 0 /\ e.decisions = 0 /\ e.contextLevel = 0
        /\ e.mode = "START" /\ e.userLevels = <<>> /\ e.assertionList = <<>>
        /\ e.buffer = {} /\ e.globals = {} /\ e.assumptions = {}
        /\ e.sat = <<[clauses |-> {}, ok |-> TRUE]>>
        /\ Framed(e) /\ FramesOf(e) = <<{}>>
BY DEF Fresh, SameStacks, SameFormulas, SameProtocol, SamePostsolve, Constructed, Framed,
       FramesOf

(* Making the engine ready changes nothing that the user sees.               *)
LEMMA ReadyKept ==
  ASSUME NEW o \in Options, NEW e, Sound(o, e)
  PROVE LET d == Ready(e) IN
        /\ Good(o, d) /\ Quiet(d) /\ d.inited = TRUE
        /\ d.queryMade = e.queryMade /\ d.userLevels = e.userLevels
        /\ Framed(e) => Even(d)
        /\ Kept(o, e, d, FramesOf(e), e.globals, e.assumptions)
<1> DEFINE d == Ready(e)
<1>1. /\ Good(o, d) /\ Quiet(d)
      /\ SameCounts(d, e) /\ SameFormulas(d, e)
      /\ d.queryMade = e.queryMade /\ d.mode = e.mode
      /\ d.userLevels = e.userLevels /\ d.failed = e.failed
      /\ d.assertionList = IF e.inited
           THEN SubSeq(e.assertionList, 1, Len(e.assertionList) - e.pendingPops)
           ELSE <<{}>>
      /\ Len(d.assertionList) = IF e.inited THEN Len(e.assertionList) - e.pendingPops ELSE 1
  BY ReadyGood DEF Sound
<1>2. d.inited = TRUE /\ d.pendingPops = 0 BY <1>1 DEF Good, Levels, Quiet
<1> HIDE DEF d
<1>3. ASSUME Framed(e)
      PROVE Even(d) /\ FramesOf(d) = FramesOf(e)
  <2>1. CASE Fresh(o, e)
    <3>1. e.inited = FALSE /\ e.userLevels = <<>> /\ FramesOf(e) = <<{}>>
      BY <2>1, FreshFields
    <3>2. d.assertionList = <<{}>> /\ d.userLevels = <<>> BY <1>1, <3>1
    <3>3. Even(d) BY <1>2, <3>2 DEF Even
    <3>4. FramesOf(d) = <<{}>>
      BY <1>2, <3>2 DEF FramesOf
    <3>5. QED BY <3>1, <3>3, <3>4
  <2>2. CASE Good(o, e)
    <3>1. /\ e.inited = TRUE
          /\ Len(e.assertionList) \in Nat \ {0} /\ e.assertionList \in Seq(SUBSET All)
          /\ e.pendingPops \in Nat /\ e.pendingPops < Len(e.assertionList)
          /\ e.userLevels \in Seq(Nat \ {0})
      BY <2>2, GoodSizes DEF Good, Levels
    <3>2. Even(e) BY <1>3, <3>1 DEF Framed
    <3> DEFINE n == Len(e.assertionList) - e.pendingPops
    <3>3. /\ n = Len(e.userLevels) + 1 /\ n \in Nat
          /\ \A k \in 1 .. n : SubSeq(e.assertionList, 1, n)[k] = e.assertionList[k]
      BY <3>1, <3>2 DEF Even
    <3>4. d.assertionList = SubSeq(e.assertionList, 1, n) /\ Len(d.assertionList) = n
      BY <1>1, <3>1
    <3> HIDE DEF n
    <3>5. Len(d.assertionList) - 0 = n BY <3>3, <3>4
    <3>6. Even(d) BY <1>1, <1>2, <3>2, <3>3, <3>5 DEF Even
    <3>7. FramesOf(d) = FramesOf(e) BY <1>1, <1>2, <3>1, <3>3, <3>4 DEF FramesOf
    <3>8. QED BY <3>6, <3>7
  <2>3. QED BY <2>1, <2>2 DEF Sound
<1>4. QED BY <1>1, <1>2, <1>3 DEF Kept, Sound, SameFormulas, Framed, d

(* The frames of a quiet engine are the levels of its assertion list.        *)
LEMMA QuietEven ==
  ASSUME NEW o, NEW e, Good(o, e), Quiet(e), Even(e)
  PROVE /\ Len(e.assertionList) = Len(e.userLevels) + 1
        /\ FramesOf(e) = [k \in 1 .. Len(e.assertionList) |-> e.assertionList[k] \cap Formulas]
        /\ FramesOf(e) \in Seq(SUBSET Formulas)
        /\ Len(FramesOf(e)) = Len(e.assertionList)
<1>1. /\ Len(e.assertionList) \in Nat \ {0} /\ e.assertionList \in Seq(SUBSET All)
      /\ e.userLevels \in Seq(Nat \ {0})
  BY GoodSizes
<1>2. e.pendingPops = 0 /\ e.inited = TRUE BY DEF Quiet, Good, Levels
<1>3. Len(e.assertionList) - 0 = Len(e.assertionList) BY <1>1
<1>4. Len(e.assertionList) = Len(e.userLevels) + 1 BY <1>2, <1>3 DEF Even
<1>5. FramesOf(e) = [k \in 1 .. Len(e.assertionList) |-> e.assertionList[k] \cap Formulas]
  BY <1>2, <1>4 DEF FramesOf
<1> DEFINE n == Len(e.assertionList)
<1>6. ASSUME NEW k \in 1 .. n PROVE e.assertionList[k] \cap Formulas \in SUBSET Formulas
  OBVIOUS
<1>7. n \in Nat BY <1>1
<1> HIDE DEF n
<1>8. FramesOf(e) \in [1 .. n -> SUBSET Formulas]
  <2>1. FramesOf(e) = [k \in 1 .. n |-> e.assertionList[k] \cap Formulas] BY <1>5 DEF n
  <2>2. QED BY <2>1
<1>9. FramesOf(e) \in Seq(SUBSET Formulas) /\ Len(FramesOf(e)) = n
  BY <1>7, <1>8
<1>10. QED BY <1>4, <1>5, <1>9 DEF n

(* Nor does any change that keeps the user's formulas of every level.        *)
LEMMA SameKept ==
  ASSUME NEW o, NEW e, Good(o, e), Quiet(e),
         NEW d, Good(o, d), d.pendingPops = 0,
         d.userLevels = e.userLevels, d.failed = e.failed,
         Len(d.assertionList) = Len(e.assertionList),
         \A k \in 1 .. Len(e.assertionList) :
           d.assertionList[k] \cap Formulas = e.assertionList[k] \cap Formulas,
         e.queryMade => d.queryMade
  PROVE Kept(o, e, d, FramesOf(e), d.globals, d.assumptions)
<1>1. e.pendingPops = 0 /\ e.inited = TRUE /\ d.inited = TRUE BY DEF Quiet, Good, Levels
<1>2. Len(d.assertionList) - d.pendingPops = Len(e.assertionList) - e.pendingPops
  BY <1>1
<1>3. Even(e) => Even(d) BY <1>2 DEF Even
<1>4. ASSUME Even(e) PROVE FramesOf(d) = FramesOf(e)
  <2>1. Len(e.assertionList) = Len(e.userLevels) + 1 BY <1>4, QuietEven
  <2>2. QED BY <1>1, <2>1 DEF FramesOf
<1>5. QED BY <1>1, <1>3, <1>4 DEF Kept, Sound, Framed

(* Two such changes make one.                                                *)
LEMMA KeptAfter ==
  ASSUME NEW o, NEW e, NEW r, NEW d, NEW frames,
         Kept(o, e, r, FramesOf(e), e.globals, e.assumptions),
         Kept(o, r, d, FramesOf(r), r.globals, r.assumptions)
  PROVE Kept(o, e, d, FramesOf(e), e.globals, e.assumptions)
BY DEF Kept

(* assertFormula adds the formula to the top frame.                          *)
LEMMA AssertKept ==
  ASSUME options \in Options, NEW e, Sound(options, e), NEW f \in Formulas
  PROVE Kept(options, e, AddFormulas({f}, Ready(e)),
             [FramesOf(e) EXCEPT ![Len(FramesOf(e))] = @ \cup {f}],
             e.globals, e.assumptions)
<1> DEFINE r == Ready(e)
           d == AddFormulas({f}, r)
           n == Len(r.assertionList)
<1>1. /\ Good(options, r) /\ Quiet(r) /\ r.inited = TRUE
      /\ r.queryMade = e.queryMade /\ r.userLevels = e.userLevels
      /\ Framed(e) => Even(r)
      /\ Kept(options, e, r, FramesOf(e), e.globals, e.assumptions)
  BY ReadyKept
<1> HIDE DEF r
<1>2. {f} \in SUBSET All /\ {f} \cap RecDefs = {} BY SmtEngineAssumption DEF All
<1>3. /\ Good(options, d) /\ Quiet(d)
      /\ SameCounts(d, r) /\ SameProtocol(d, r)
      /\ d.globals = r.globals /\ d.assumptions = r.assumptions
      /\ d.assertionList = [r.assertionList EXCEPT ![n] = @ \cup {f}]
      /\ Len(d.assertionList) = n
  BY <1>1, <1>2, AddFormulasGood
<1> HIDE DEF d
<1>4. r.assertionList \in Seq(SUBSET All) /\ n \in Nat \ {0} BY <1>1, GoodSizes
<1>5. d.pendingPops = 0 /\ r.pendingPops = 0 BY <1>1, <1>3 DEF Quiet
<1>6. ASSUME Framed(e)
      PROVE /\ Even(d)
            /\ FramesOf(d) = [FramesOf(e) EXCEPT ![Len(FramesOf(e))] = @ \cup {f}]
  <2>1. Even(r) /\ FramesOf(r) = FramesOf(e) BY <1>1, <1>6 DEF Kept
  <2>2. Even(d) BY <1>3, <1>5, <2>1 DEF Even, SameProtocol
  <2>3. /\ FramesOf(r) = [k \in 1 .. n |-> r.assertionList[k] \cap Formulas]
        /\ FramesOf(r) \in Seq(SUBSET Formulas)
        /\ Len(FramesOf(r)) = n
    BY <1>1, <2>1, QuietEven
  <2>4. FramesOf(d) = [k \in 1 .. n |-> d.assertionList[k] \cap Formulas]
    BY <1>3, <2>2, QuietEven
  <2>5. \A k \in 1 .. n : d.assertionList[k] \cap Formulas =
          IF k = n THEN (r.assertionList[k] \cap Formulas) \cup {f}
                   ELSE r.assertionList[k] \cap Formulas
    BY <1>3, <1>4
  <2> HIDE DEF n
  <2> DEFINE F == FramesOf(r)
  <2>6. FramesOf(d) = [F EXCEPT ![n] = @ \cup {f}]
    <3>1. \A k \in 1 .. n : F[k] = r.assertionList[k] \cap Formulas BY <2>3
    <3>2. F \in [1 .. n -> SUBSET Formulas] BY <1>4, <2>3
    <3> HIDE DEF F
    <3>3. \A k \in 1 .. n : d.assertionList[k] \cap Formulas =
                              IF k = n THEN F[k] \cup {f} ELSE F[k]
      BY <2>5, <3>1
    <3>4. FramesOf(d) = [k \in 1 .. n |-> IF k = n THEN F[k] \cup {f} ELSE F[k]]
      BY <2>4, <3>3
    <3>5. [F EXCEPT ![n] = @ \cup {f}] = [k \in 1 .. n |-> IF k = n THEN F[k] \cup {f} ELSE F[k]]
      BY <3>2
    <3>6. QED BY <3>4, <3>5
  <2>7. QED BY <2>1, <2>2, <2>3, <2>6
<1>7. d.inited = TRUE /\ d.queryMade = e.queryMade /\ d.failed = r.failed
  BY <1>1, <1>3 DEF SameProtocol
<1>8. QED BY <1>1, <1>3, <1>6, <1>7 DEF Kept, Sound, Framed, d, r

(* defineFunctionsRec adds to the global definitions, and to no frame.       *)
LEMMA DefineKept ==
  ASSUME options \in Options, NEW e, Sound(options, e), NEW f \in RecDefs
  PROVE Kept(options, e, Defined(f, Ready(e)), FramesOf(e), e.globals \cup {f}, e.assumptions)
<1> DEFINE r == Ready(e)
           d == Defined(f, r)
           n == Len(r.assertionList)
<1>1. /\ Good(options, r) /\ Quiet(r) /\ r.inited = TRUE
      /\ Framed(e) => Even(r)
      /\ Kept(options, e, r, FramesOf(e), e.globals, e.assumptions)
  BY ReadyKept
<1> HIDE DEF r
<1>2. /\ Good(options, d)
      /\ SameCounts(d, r) /\ SameProtocol(d, r) /\ SamePostsolve(d, r)
      /\ d.globals = r.globals \cup {f}
      /\ d.assumptions = r.assumptions
      /\ d.assertionList = [r.assertionList EXCEPT ![n] = @ \cup {f}]
      /\ Len(d.assertionList) = n
  BY <1>1, DefineGood
<1> HIDE DEF d
<1>3. r.assertionList \in Seq(SUBSET All) /\ n \in Nat \ {0} BY <1>1, GoodSizes
<1>4. \A k \in 1 .. n :
        d.assertionList[k] \cap Formulas = r.assertionList[k] \cap Formulas
  BY <1>2, <1>3, SmtEngineAssumption
<1>5. d.pendingPops = 0 BY <1>1, <1>2 DEF Quiet, SamePostsolve
<1>6. d.userLevels = r.userLevels /\ d.failed = r.failed /\ d.queryMade = r.queryMade
  BY <1>2 DEF SameProtocol
<1>7. Kept(options, r, d, FramesOf(r), d.globals, d.assumptions)
  BY <1>1, <1>2, <1>4, <1>5, <1>6, SameKept
<1>8. QED BY <1>1, <1>2, <1>7 DEF Kept, Framed, d, r

(* simplify changes no frame.                                                *)
LEMMA SimplifyKept ==
  ASSUME options \in Options, NEW e, Sound(options, e), NEW noticed \in BOOLEAN
  PROVE LET r == Ready(e)
            d == ProcessAssertions(noticed, r)
        IN /\ Kept(options, e, d, FramesOf(e), e.globals, e.assumptions)
           /\ Good(options, d) /\ Quiet(d) /\ d.inited = TRUE
<1> DEFINE r == Ready(e)
           d == ProcessAssertions(noticed, r)
<1>1. /\ Good(options, r) /\ Quiet(r) /\ r.inited = TRUE
      /\ Framed(e) => Even(r)
      /\ Kept(options, e, r, FramesOf(e), e.globals, e.assumptions)
  BY ReadyKept
<1> HIDE DEF r
<1>2. /\ Good(options, d) /\ Quiet(d)
      /\ SameProtocol(d, r)
      /\ d.globals = r.globals /\ d.assumptions = r.assumptions
      /\ d.assertionList = r.assertionList
  BY <1>1, ProcessAssertionsGood
<1> HIDE DEF d
<1>3. d.pendingPops = 0 BY <1>2 DEF Quiet
<1>4. d.userLevels = r.userLevels /\ d.failed = r.failed /\ d.queryMade = r.queryMade
      /\ d.inited = r.inited
  BY <1>2 DEF SameProtocol
<1>5. Kept(options, r, d, FramesOf(r), d.globals, d.assumptions)
  BY <1>1, <1>2, <1>3, <1>4, SameKept
<1>6. Kept(options, e, d, FramesOf(e), e.globals, e.assumptions)
  BY <1>1, <1>2, <1>5 DEF Kept, Framed
<1>7. QED BY <1>1, <1>2, <1>4, <1>6 DEF d, r

(* Nor does spending.                                                        *)
LEMMA SpendKept ==
  ASSUME options \in Options, NEW e, Sound(options, e), NEW k \in 0 .. 1
  PROVE Kept(options, e, SpendResource(k, e), FramesOf(e), e.globals, e.assumptions)
<1> DEFINE d == SpendResource(k, e)
<1>1. e \in Engines /\ Counted(options, e) BY DEF Sound, Fresh, Good
<1>2. /\ d \in Engines /\ Counted(options, d)
      /\ SameFormulas(d, e) /\ SameProtocol(d, e) /\ SamePostsolve(d, e)
      /\ SameStacks(d, e)
  BY <1>1, SpendFields
<1> HIDE DEF d
<1>3. Fresh(options, e) => Fresh(options, d)
  BY <1>2 DEF Fresh, SameFormulas, SameProtocol, SamePostsolve, SameStacks
<1>4. ASSUME Good(options, e) PROVE Good(options, d)
  <2>1. Levels(options, d)
    BY <1>2, <1>4
      DEF Good, Levels, Settled, SameProtocol, SamePostsolve, SameStacks
  <2>2. Holds(d.assertionList, d.sat, d.buffer, d.globals)
    BY <1>2, <1>4 DEF Good, SameStacks, SameFormulas
  <2>3. StackOf(d) = StackOf(e) BY <1>2 DEF StackOf, SameStacks, SamePostsolve
  <2>4. Model(d)
    BY <1>2, <1>4, <2>3 DEF Good, Model, SameFormulas, SameProtocol, SamePostsolve
  <2>5. QED
    BY <1>2, <1>4, <2>1, <2>2, <2>4 DEF Good, SameFormulas, SamePostsolve
<1>5. Framed(e) => Framed(d)
  BY <1>2 DEF Framed, Even, SameProtocol, SamePostsolve, SameStacks
<1>6. FramesOf(d) = FramesOf(e) BY <1>2 DEF FramesOf, SameProtocol, SameStacks
<1>7. QED
  BY <1>2, <1>3, <1>4, <1>5, <1>6 DEF Kept, Sound, SameFormulas, SameProtocol, d

(* Nor does expandDefinitions.                                               *)
LEMMA ExpandKept ==
  ASSUME options \in Options, NEW e, Sound(options, e)
  PROVE Kept(options, e, Ready(SpendResource(1, e)), FramesOf(e), e.globals, e.assumptions)
<1> DEFINE s == SpendResource(1, e)
<1>1. Kept(options, e, s, FramesOf(e), e.globals, e.assumptions) BY SpendKept
<1> HIDE DEF s
<1>2. Kept(options, s, Ready(s), FramesOf(s), s.globals, s.assumptions)
  BY <1>1, ReadyKept DEF Kept
<1>3. QED BY <1>1, <1>2, KeptAfter DEF s

(* Nor do getAbduct and getInterpol.                                         *)
LEMMA DeriveKept ==
  ASSUME options \in Options, NEW e, Sound(options, e), NEW m \in Modes
  PROVE Kept(options, e, [Ready(SpendResource(1, Ready(e))) EXCEPT !.mode = m],
             FramesOf(e), e.globals, e.assumptions)
<1> DEFINE r == Ready(e)
           x == Ready(SpendResource(1, r))
           d == [x EXCEPT !.mode = m]
<1>1. Kept(options, e, r, FramesOf(e), e.globals, e.assumptions) BY ReadyKept
<1> HIDE DEF r
<1>2. Kept(options, r, x, FramesOf(r), r.globals, r.assumptions)
  BY <1>1, ExpandKept DEF Kept
<1>3. Good(options, x) /\ Quiet(x)
  <2> DEFINE s == SpendResource(1, r)
  <2>1. Sound(options, s) BY <1>1, SpendKept DEF Kept
  <2> HIDE DEF s
  <2>2. Good(options, Ready(s)) /\ Quiet(Ready(s)) BY <2>1, ReadyKept
  <2>3. QED BY <2>2 DEF s
<1> HIDE DEF x
<1>4. /\ Good(options, d) /\ Quiet(d)
      /\ SameCounts(d, x) /\ SameStacks(d, x) /\ SameFormulas(d, x)
      /\ d.queryMade = x.queryMade /\ d.userLevels = x.userLevels
      /\ d.failed = x.failed
  BY <1>3, ModeGood
<1> HIDE DEF d
<1>5. d.pendingPops = 0 BY <1>4 DEF Quiet
<1>6. Kept(options, x, d, FramesOf(x), d.globals, d.assumptions)
  BY <1>3, <1>4, <1>5, SameKept DEF SameStacks
<1>7. Kept(options, x, d, FramesOf(x), x.globals, x.assumptions)
  BY <1>4, <1>6 DEF SameFormulas
<1>8. Kept(options, e, x, FramesOf(e), e.globals, e.assumptions)
  BY <1>1, <1>2, KeptAfter
<1>9. QED BY <1>7, <1>8, KeptAfter DEF d, x, r

(* push adds an empty frame.                                                 *)
LEMMA PushKept ==
  ASSUME options \in Options, options.incrementalSolving = TRUE,
         NEW e, Sound(options, e), NEW noticed \in BOOLEAN
  PROVE Kept(options, e, UserPush(noticed, ProcessAssertions(noticed, Ready(e))),
             Append(FramesOf(e), {}), e.globals, e.assumptions)
<1> DEFINE r == ProcessAssertions(noticed, Ready(e))
           d == UserPush(noticed, r)
           n == Len(r.assertionList)
<1>1. /\ Kept(options, e, r, FramesOf(e), e.globals, e.assumptions)
      /\ Good(options, r) /\ Quiet(r) /\ r.inited = TRUE
  BY SimplifyKept
<1> HIDE DEF r
<1>2. /\ Good(options, d) /\ Quiet(d)
      /\ d.globals = r.globals /\ d.assumptions = r.assumptions
      /\ d.queryMade = r.queryMade /\ d.failed = r.failed
      /\ d.userLevels = Append(r.userLevels, n)
      /\ d.assertionList = Append(r.assertionList, {})
      /\ Len(d.assertionList) = n + 1
  BY <1>1, UserPushGood
<1> HIDE DEF d
<1>3. /\ r.assertionList \in Seq(SUBSET All) /\ n \in Nat \ {0}
      /\ r.userLevels \in Seq(Nat \ {0})
  BY <1>1, GoodSizes
<1>4. ASSUME Framed(e)
      PROVE Even(d) /\ FramesOf(d) = Append(FramesOf(e), {})
  <2>1. Even(r) /\ FramesOf(r) = FramesOf(e) BY <1>1, <1>4 DEF Kept, Framed
  <2>2. /\ n = Len(r.userLevels) + 1
        /\ FramesOf(r) = [k \in 1 .. n |-> r.assertionList[k] \cap Formulas]
        /\ FramesOf(r) \in Seq(SUBSET Formulas)
        /\ Len(FramesOf(r)) = n
    BY <1>1, <2>1, QuietEven
  <2>3. /\ Len(d.userLevels) = n
        /\ \A k \in 1 .. n : d.userLevels[k] = k
    BY <1>2, <1>3, <2>1, <2>2 DEF Even
  <2>4. Even(d)
    <3>1. d.pendingPops = 0 BY <1>2 DEF Quiet
    <3>2. Len(d.assertionList) - 0 = n + 1 BY <1>2, <1>3
    <3>3. QED BY <2>3, <3>1, <3>2 DEF Even
  <2>5. FramesOf(d) = [k \in 1 .. n + 1 |-> d.assertionList[k] \cap Formulas]
    BY <1>2, <2>4, QuietEven
  <2>6. /\ \A k \in 1 .. n : d.assertionList[k] = r.assertionList[k]
        /\ d.assertionList[n + 1] = {}
    BY <1>2, <1>3
  <2> DEFINE F == FramesOf(r)
             A == Append(F, {})
  <2>7. F \in Seq(SUBSET Formulas) /\ Len(F) = n
        /\ \A k \in 1 .. n : F[k] = d.assertionList[k] \cap Formulas
    BY <2>2, <2>6
  <2> HIDE DEF F, n
  <2>8. A = [k \in 1 .. n + 1 |-> d.assertionList[k] \cap Formulas]
    <3>1. A \in Seq(SUBSET Formulas) /\ Len(A) = n + 1
          /\ A[n + 1] = {} /\ \A k \in 1 .. n : A[k] = F[k]
      BY <2>7
    <3> HIDE DEF A
    <3>2. A = [k \in 1 .. n + 1 |-> A[k]] BY <3>1
    <3>3. ASSUME NEW k \in 1 .. n + 1
          PROVE A[k] = d.assertionList[k] \cap Formulas
      <4>1. k \in 1 .. n \/ k = n + 1 BY <1>3
      <4>2. QED BY <2>6, <2>7, <3>1, <4>1
    <3>4. QED BY <3>2, <3>3
  <2>9. QED BY <2>1, <2>4, <2>5, <2>8 DEF F
<1>5. QED BY <1>1, <1>2, <1>4 DEF Kept, Sound, Framed, d, r

(* finishInit changes nothing that the user sees.                            *)
LEMMA FinishInitKept ==
  ASSUME NEW o \in Options, NEW e, Sound(o, e)
  PROVE /\ Good(o, FinishInit(e))
        /\ Kept(o, e, FinishInit(e), FramesOf(e), e.globals, e.assumptions)
        /\ FinishInit(e).userLevels = e.userLevels
        /\ FinishInit(e).inited = TRUE
<1>1. CASE Good(o, e)
  <2>1. e.inited = TRUE BY <1>1 DEF Good, Levels
  <2>2. FinishInit(e) = e BY <2>1 DEF FinishInit
  <2>3. QED BY <1>1, <2>1, <2>2 DEF Kept, Sound
<1>2. CASE Fresh(o, e)
  <2> DEFINE d == FinishInit(e)
  <2>1. /\ Good(o, d) /\ Quiet(d)
        /\ SameCounts(d, e) /\ SameFormulas(d, e)
        /\ d.queryMade = e.queryMade /\ d.mode = e.mode
        /\ d.userLevels = e.userLevels /\ d.failed = e.failed
        /\ d.assertionList = <<{}>>
    BY <1>2, FinishInitFields
  <2> HIDE DEF d
  <2>2. e.userLevels = <<>> /\ FramesOf(e) = <<{}>> BY <1>2, FreshFields
  <2>3. d.inited = TRUE /\ d.pendingPops = 0 BY <2>1 DEF Quiet, Good, Levels
  <2>4. Even(d) BY <2>1, <2>2, <2>3 DEF Even
  <2>5. FramesOf(d) = <<{}>> BY <2>1, <2>2, <2>3 DEF FramesOf
  <2>6. QED BY <2>1, <2>2, <2>3, <2>4, <2>5 DEF Kept, Sound, Framed, SameFormulas, d
<1>3. QED BY <1>1, <1>2 DEF Sound

(* pop removes the top frame, and there is one below it.                     *)
LEMMA PopKept ==
  ASSUME options \in Options, NEW e, Good(options, e), e.userLevels # <<>>
  PROVE LET d == [UserPop(e) EXCEPT !.buffer = {}]
            F == FramesOf(e)
        IN /\ Kept(options, e, d, SubSeq(F, 1, Len(F) - 1), e.globals, e.assumptions)
           /\ Framed(e) => Len(F) > 1
<1> DEFINE d == [UserPop(e) EXCEPT !.buffer = {}]
           t == Last(e.userLevels)
           u == Len(e.userLevels)
           F == FramesOf(e)
<1>1. /\ Good(options, d) /\ Quiet(d)
      /\ d.globals = e.globals /\ d.assumptions = e.assumptions
      /\ d.queryMade = e.queryMade /\ d.failed = e.failed
      /\ d.userLevels = Front(e.userLevels)
      /\ d.assertionList = SubSeq(e.assertionList, 1, t)
      /\ Len(d.assertionList) = t
      /\ t \in 1 .. Len(e.assertionList) - 1 - e.pendingPops
  BY PopGood
<1> HIDE DEF d
<1>2. /\ e.userLevels \in Seq(Nat \ {0}) /\ e.assertionList \in Seq(SUBSET All)
      /\ e.pendingPops \in Nat /\ Len(e.assertionList) \in Nat
      /\ e.inited = TRUE
  BY GoodSizes DEF Good, Levels
<1>3. /\ u \in Nat \ {0} /\ t = e.userLevels[u]
      /\ Front(e.userLevels) \in Seq(Nat \ {0}) /\ Len(Front(e.userLevels)) = u - 1
      /\ \A k \in 1 .. u - 1 : Front(e.userLevels)[k] = e.userLevels[k]
  BY <1>2 DEF Last, Front
<1> HIDE DEF t
<1>4. ASSUME Framed(e)
      PROVE /\ Even(d) /\ FramesOf(d) = SubSeq(F, 1, Len(F) - 1)
            /\ Len(F) > 1
  <2>1. Even(e) BY <1>2, <1>4 DEF Framed
  <2>2. t = u BY <1>3, <2>1 DEF Even
  <2>3. d.pendingPops = 0 /\ d.inited = TRUE BY <1>1 DEF Quiet, Good, Levels
  <2>4. Len(d.assertionList) - 0 = u BY <1>1, <1>3, <2>2
  <2>5. Even(d)
    <3>1. Len(d.userLevels) = u - 1 /\ u = (u - 1) + 1 BY <1>1, <1>3
    <3>2. \A k \in 1 .. u - 1 : d.userLevels[k] = k
      <4>1. \A k \in 1 .. u - 1 : k \in 1 .. u BY <1>3
      <4>2. QED BY <1>1, <1>3, <2>1, <4>1 DEF Even
    <3>3. QED BY <2>3, <2>4, <3>1, <3>2 DEF Even
  <2>6. F = [k \in 1 .. u + 1 |-> e.assertionList[k] \cap Formulas]
    BY <1>2 DEF FramesOf
  <2>7. Len(F) = u + 1 /\ \A k \in 1 .. u : F[k] = e.assertionList[k] \cap Formulas
    BY <1>3, <2>6
  <2>8. FramesOf(d) = [k \in 1 .. u |-> d.assertionList[k] \cap Formulas]
    BY <1>1, <2>2, <2>5, QuietEven
  <2>9. \A k \in 1 .. u : d.assertionList[k] = e.assertionList[k]
    BY <1>1, <1>2, <2>2
  <2>12. F \in Seq(SUBSET Formulas)
    <3>1. u + 1 \in Nat BY <1>3
    <3> HIDE DEF u
    <3>2. F \in [1 .. u + 1 -> SUBSET Formulas] BY <2>6
    <3> HIDE DEF F
    <3>3. QED BY <3>1, <3>2
  <2> HIDE DEF F, u
  <2>10. SubSeq(F, 1, Len(F) - 1) = [k \in 1 .. u |-> F[k]]
    <3> DEFINE G == SubSeq(F, 1, Len(F) - 1)
    <3>1. Len(F) - 1 = u BY <1>3, <2>7
    <3>2. G \in Seq(SUBSET Formulas) /\ Len(G) = u /\ \A k \in 1 .. u : G[k] = F[k]
      BY <1>3, <2>7, <2>12, <3>1
    <3> HIDE DEF G
    <3>3. G = [k \in 1 .. u |-> G[k]] BY <3>2
    <3>4. QED BY <3>2, <3>3 DEF G
  <2>11. FramesOf(d) = [k \in 1 .. u |-> F[k]]
    BY <2>7, <2>8, <2>9
  <2>13. Len(F) > 1 BY <1>3, <2>7
  <2>14. QED BY <2>5, <2>10, <2>11, <2>13
<1>5. QED BY <1>1, <1>4 DEF Kept, Sound, Framed, d

(* resetAssertions leaves one empty frame, and the global definitions.       *)
LEMMA ResetKept ==
  ASSUME options \in Options, NEW e, Good(options, e)
  PROVE Kept(options, e,
             NewPropEngine(Setup(PopToZero(PopAllUserLevels([e EXCEPT !.buffer = {}])))),
             <<{}>>, e.globals, e.assumptions)
<1> DEFINE d == NewPropEngine(Setup(PopToZero(PopAllUserLevels([e EXCEPT !.buffer = {}]))))
<1>1. /\ Good(options, d) /\ Quiet(d)
      /\ d.globals = e.globals /\ d.assumptions = e.assumptions
      /\ d.queryMade = e.queryMade
      /\ d.userLevels = <<>> /\ d.assertionList = <<{}>>
      /\ Even(e) => Even(d) /\ d.failed = e.failed
  BY ResetGood
<1> HIDE DEF d
<1>2. e.inited = TRUE /\ d.inited = TRUE BY <1>1 DEF Good, Levels
<1>3. FramesOf(d) = <<{}>> BY <1>1, <1>2 DEF FramesOf
<1>4. QED BY <1>1, <1>2, <1>3 DEF Kept, Sound, Framed, d

(* A check that is refused keeps the invariant.                              *)
LEMMA RefusedSound ==
  ASSUME options \in Options, NEW e, Sound(options, e),
         NEW noticed \in BOOLEAN, NEW assumptions \in SUBSET Formulas
  PROVE LET d == Asked(assumptions, noticed, Ready(e)) IN
        Sound(options, d) /\ d.queryMade = TRUE
<1> DEFINE r == Ready(e)
           d == Asked(assumptions, noticed, r)
<1>1. Good(options, r) /\ Quiet(r) BY ReadyKept
<1> HIDE DEF r
<1>2. AskedOf(options, d, r, assumptions) BY <1>1, AskedGood
<1> HIDE DEF d
<1>3. Good(options, d) /\ d.queryMade = TRUE BY <1>2 DEF AskedOf
<1>4. QED BY <1>3 DEF Sound, d, r

\* The formulas of an engine that stands ready for a check.
OnFrames(F, globals, query) == (UNION {F[k] : k \in DOMAIN F}) \cup globals \cup query

(* Membership in the formulas of a check.                                    *)
LEMMA InOnFrames ==
  ASSUME NEW F, NEW globals, NEW query
  PROVE \A y : y \in OnFrames(F, globals, query) <=>
          \/ \E k \in DOMAIN F : y \in F[k]
          \/ y \in globals
          \/ y \in query
BY DEF OnFrames

(* A check leaves the frames as they were, but for an engine of a single     *)
(* query, whose assumptions stay; and its answer is that of the frames, the  *)
(* definitions and the assumptions.                                          *)
LEMMA CheckKept ==
  ASSUME options \in Options, NEW e, Sound(options, e),
         NEW noticed \in BOOLEAN, NEW assumptions \in SUBSET Formulas,
         NEW trail \in 0 .. 1, NEW reached \in BOOLEAN, NEW spent \in 0 .. 1,
         NEW verdict \in Verdicts(spent, ProcessAssertions(noticed,
                                   BeginCall(Asked(assumptions, noticed, Ready(e)))))
  PROVE LET ready == ProcessAssertions(noticed, BeginCall(Asked(assumptions, noticed, Ready(e))))
            solved == EndCall(SpendResource(spent, Solve(verdict, trail, reached, ready)))
            d == NotifyCheckSatResult(assumptions, verdict, solved)
            F == FramesOf(e)
        IN /\ Kept(options, e, d,
                   IF options.incrementalSolving THEN F
                     ELSE [F EXCEPT ![Len(F)] = @ \cup assumptions],
                   e.globals, assumptions)
           /\ d.queryMade = TRUE
           /\ verdict \in {"sat", "unsat", "unknown"}
           /\ Framed(e) =>
                verdict \in {"unknown", IF Consistent(OnFrames(F, e.globals, assumptions))
                                          THEN "sat" ELSE "unsat"}
<1> DEFINE r == Ready(e)
           i == Asked(assumptions, noticed, r)
           ready == ProcessAssertions(noticed, BeginCall(i))
           solved == EndCall(SpendResource(spent, Solve(verdict, trail, reached, ready)))
           d == NotifyCheckSatResult(assumptions, verdict, solved)
           pushes == assumptions # {} /\ options.incrementalSolving
           m == Len(r.assertionList)
           n == Len(i.assertionList)
           pops == IF pushes THEN 1 ELSE 0
           F == FramesOf(e)
<1>1. /\ Good(options, r) /\ Quiet(r) /\ r.inited = TRUE
      /\ r.queryMade = e.queryMade /\ r.userLevels = e.userLevels
      /\ Framed(e) => Even(r)
      /\ Kept(options, e, r, F, e.globals, e.assumptions)
  BY ReadyKept
<1>2. verdict \in Verdicts(spent, ready) OBVIOUS
<1> HIDE DEF r
<1>3. CheckDone(options, d, r, assumptions, noticed, verdict)
  BY <1>1, <1>2, CheckGood
<1>4. AskedOf(options, i, r, assumptions) BY <1>1, AskedGood
<1> HIDE DEF d
<1>5. /\ Good(options, d)
      /\ d.globals = r.globals /\ d.userLevels = r.userLevels /\ d.failed = r.failed
      /\ d.queryMade = TRUE /\ d.assumptions = assumptions
      /\ d.assertionList = i.assertionList
      /\ d.pendingPops = pops
      /\ verdict \in {"sat", "unsat", "unknown"}
      /\ verdict = "sat" => Consistent(Asserting(i))
      /\ verdict = "unsat" => ~ Consistent(Asserting(i))
  BY <1>3 DEF CheckDone
<1> HIDE DEF i
<1>6. /\ i.globals = r.globals
      /\ n = m + pops
      /\ \A l \in 1 .. m :
           i.assertionList[l] \cap Formulas =
             (r.assertionList[l] \cap Formulas) \cup IF l = n THEN assumptions ELSE {}
      /\ pushes => i.assertionList[n] \cap Formulas = assumptions
  BY <1>4 DEF AskedOf
<1>7. r.globals = e.globals BY <1>1 DEF Kept
<1>8. m \in Nat \ {0} BY <1>1, GoodSizes
<1>9. pops \in {0, 1} /\ n - pops = m /\ m \in 1 .. m /\ n \in 1 .. n /\ 1 .. m \subseteq 1 .. n
  <2>1. pops \in {0, 1} OBVIOUS
  <2> HIDE DEF m, n, pops
  <2>2. QED BY <1>6, <1>8, <2>1
<1>10. ASSUME Framed(e)
       PROVE /\ Even(d)
             /\ FramesOf(d) = IF options.incrementalSolving THEN F
                                ELSE [F EXCEPT ![Len(F)] = @ \cup assumptions]
             /\ Asserting(i) = OnFrames(F, e.globals, assumptions)
  <2>1. Even(r) /\ FramesOf(r) = F BY <1>1, <1>10 DEF Kept
  <2>2. /\ m = Len(r.userLevels) + 1
        /\ F = [k \in 1 .. m |-> r.assertionList[k] \cap Formulas]
        /\ F \in Seq(SUBSET Formulas) /\ Len(F) = m
    BY <1>1, <2>1, QuietEven
  <2>3. Even(d)
    <3>1. Len(d.assertionList) - d.pendingPops = m BY <1>5, <1>9
    <3>2. QED BY <1>5, <2>1, <2>2, <3>1 DEF Even
  <2>4. FramesOf(d) = [k \in 1 .. m |-> i.assertionList[k] \cap Formulas]
    <3>1. d.inited = TRUE BY <1>5 DEF Good, Levels
    <3>2. QED BY <1>5, <2>2, <3>1 DEF FramesOf
  <2>5. F \in [1 .. m -> SUBSET Formulas] /\ DOMAIN F = 1 .. m
        /\ \A l \in 1 .. m : F[l] = r.assertionList[l] \cap Formulas
    BY <2>2
  <2> HIDE DEF F
  <2>9. \A y : y \in OnFrames(F, e.globals, assumptions) <=>
          \/ \E l \in 1 .. m : y \in F[l]
          \/ y \in e.globals
          \/ y \in assumptions
    <3> HIDE DEF m
    <3>1. DOMAIN F = 1 .. m BY <2>5
    <3>2. QED BY <3>1, InOnFrames
  <2>10. \A y : y \in Asserting(i) <=>
           \/ \E l \in 1 .. n : y \in i.assertionList[l] \cap Formulas
           \/ y \in e.globals
    BY <1>6, <1>7, InAsserting
  <2>6. CASE pushes
    <3>1. n = m + 1 /\ \A l \in 1 .. m : l # n
      <4>1. pops = 1 BY <2>6
      <4> HIDE DEF m, n, pops
      <4>2. QED BY <1>6, <1>8, <4>1
    <3>2. \A l \in 1 .. m : i.assertionList[l] \cap Formulas = F[l]
      BY <1>6, <2>5, <3>1
    <3>3. FramesOf(d) = F BY <2>4, <2>5, <3>2
    <3>4. i.assertionList[n] \cap Formulas = assumptions BY <1>6, <2>6
    <3>5. \A l \in 1 .. n : l \in 1 .. m \/ l = n
      <4> HIDE DEF m, n
      <4>1. QED BY <1>8, <3>1
    <3>6. \A y : y \in Asserting(i) <=> y \in OnFrames(F, e.globals, assumptions)
      <4> HIDE DEF m, n, pushes
      <4>1. QED BY <1>9, <2>9, <2>10, <3>2, <3>4, <3>5
    <3>7. QED BY <2>3, <2>6, <3>3, <3>6
  <2>7. CASE ~ pushes
    <3>1. n = m
      <4>1. pops = 0 BY <2>7
      <4> HIDE DEF m, n, pops
      <4>2. QED BY <1>6, <1>8, <4>1
    <3>2. \A l \in 1 .. m :
            i.assertionList[l] \cap Formulas = F[l] \cup IF l = m THEN assumptions ELSE {}
      BY <1>6, <2>5, <3>1
    <3>3. \A y : y \in Asserting(i) <=> y \in OnFrames(F, e.globals, assumptions)
      <4> HIDE DEF m, n, pushes
      <4>1. QED BY <1>9, <2>9, <2>10, <3>1, <3>2
    <3> DEFINE G == [F EXCEPT ![m] = @ \cup assumptions]
    <3>4. G = [k \in 1 .. m |-> F[k] \cup IF k = m THEN assumptions ELSE {}]
      <4> HIDE DEF m
      <4>1. QED BY <2>5
    <3>5. FramesOf(d) = G BY <2>4, <3>2, <3>4
    <3>6. options.incrementalSolving => G = F
      <4>1. options.incrementalSolving => assumptions = {} BY <2>7
      <4> HIDE DEF m
      <4>2. QED BY <2>5, <4>1
    <3>7. QED BY <2>2, <2>3, <3>3, <3>5, <3>6
  <2>8. QED BY <2>6, <2>7
<1>11. ASSUME Framed(e)
       PROVE verdict \in {"unknown", IF Consistent(OnFrames(F, e.globals, assumptions))
                                       THEN "sat" ELSE "unsat"}
  BY <1>5, <1>10, <1>11
<1>12. d.failed = e.failed \/ ~ Framed(e) BY <1>1, <1>5 DEF Kept
<1>13. Kept(options, e, d,
            IF options.incrementalSolving THEN F
              ELSE [F EXCEPT ![Len(F)] = @ \cup assumptions],
            e.globals, assumptions)
  BY <1>5, <1>7, <1>10, <1>12 DEF Kept, Sound, Framed
<1>14. QED BY <1>5, <1>11, <1>13 DEF d, i, r

-----------------------------------------------------------------------------
(* The inductive invariant of the specification.                             *)
IInv ==
  /\ options \in Options
  /\ Sound(options, engine)
  /\ answer \in {"none", "sat", "unsat", "unknown", "refused"}
  /\ answer # "none" => engine.queryMade

(* StackFrames, of an engine e.                                              *)
StackFramesOf(e) ==
  [k \in 1 .. Len(e.userLevels) + 1 |->
     UNION {e.assertionList[l] \cap Formulas :
              l \in (IF k = 1 THEN 1 ELSE e.userLevels[k - 1] + 1) ..
                    (IF k <= Len(e.userLevels) THEN e.userLevels[k]
                     ELSE Len(e.assertionList) - e.pendingPops)}]

(* With one level per frame they are the frames above.                       *)
LEMMA StackFramesAre ==
  ASSUME NEW o, NEW e, Sound(o, e), Framed(e)
  PROVE StackFramesOf(e) = FramesOf(e)
<1>1. CASE Fresh(o, e)
  <2>1. /\ e.userLevels = <<>> /\ e.assertionList = <<>> /\ e.pendingPops = 0
        /\ FramesOf(e) = <<{}>>
    BY <1>1, FreshFields
  <2>2. StackFramesOf(e) = [k \in 1 .. 1 |-> {}]
    <3> DEFINE F(k) == UNION {e.assertionList[l] \cap Formulas :
              l \in (IF k = 1 THEN 1 ELSE e.userLevels[k - 1] + 1) ..
                    (IF k <= Len(e.userLevels) THEN e.userLevels[k]
                     ELSE Len(e.assertionList) - e.pendingPops)}
    <3>1. Len(e.userLevels) + 1 = 1 /\ Len(e.assertionList) - e.pendingPops = 0
      BY <2>1
    <3>2. (IF 1 = 1 THEN 1 ELSE e.userLevels[1 - 1] + 1) ..
          (IF 1 <= Len(e.userLevels) THEN e.userLevels[1]
           ELSE Len(e.assertionList) - e.pendingPops) = {}
      BY <3>1
    <3>3. F(1) = {} BY <3>2
    <3>4. StackFramesOf(e) = [k \in 1 .. 1 |-> F(k)] BY <3>1 DEF StackFramesOf
    <3> HIDE DEF F
    <3>5. \A k \in 1 .. 1 : F(k) = {} BY <3>3
    <3>6. QED BY <3>4, <3>5
  <2>3. QED BY <2>1, <2>2
<1>2. CASE Good(o, e)
  <2>1. e.inited = TRUE /\ Even(e) BY <1>2 DEF Good, Levels, Framed
  <2>2. e.userLevels \in Seq(Nat \ {0}) BY <1>2, GoodSizes
  <2> DEFINE u == Len(e.userLevels)
             From(k) == IF k = 1 THEN 1 ELSE e.userLevels[k - 1] + 1
             To(k) == IF k <= u THEN e.userLevels[k] ELSE Len(e.assertionList) - e.pendingPops
  <2>3. u \in Nat BY <2>2
  <2>4. ASSUME NEW k \in 1 .. u + 1
        PROVE From(k) = k /\ To(k) = k
    <3>1. k = 1 \/ (k - 1) \in 1 .. u BY <2>3
    <3>2. k \in 1 .. u \/ (k = u + 1 /\ ~ k <= u) BY <2>3
    <3> HIDE DEF u
    <3>3. Len(e.assertionList) - e.pendingPops = u + 1 BY <2>1 DEF Even, u
    <3>4. \A j \in 1 .. u : e.userLevels[j] = j BY <2>1 DEF Even, u
    <3>5. From(k) = k BY <2>3, <3>1, <3>4
    <3>6. To(k) = k BY <2>3, <3>2, <3>3, <3>4
    <3>7. QED BY <3>5, <3>6
  <2> DEFINE F(k) == UNION {e.assertionList[l] \cap Formulas : l \in From(k) .. To(k)}
  <2>5. StackFramesOf(e) = [k \in 1 .. u + 1 |-> F(k)] BY DEF StackFramesOf
  <2>6. FramesOf(e) = [k \in 1 .. u + 1 |-> e.assertionList[k] \cap Formulas]
    BY <2>1 DEF FramesOf
  <2>7. ASSUME NEW k \in 1 .. u + 1 PROVE F(k) = e.assertionList[k] \cap Formulas
    <3>1. From(k) = k /\ To(k) = k BY <2>4
    <3> HIDE DEF From, To
    <3>2. From(k) .. To(k) = {k}
      <4>1. k \in Nat BY <2>3
      <4>2. k .. k = {k} BY <4>1
      <4>3. QED BY <3>1, <4>2
    <3>3. QED BY <3>2
  <2> HIDE DEF F, u
  <2>8. QED BY <2>5, <2>6, <2>7
<1>3. QED BY <1>1, <1>2 DEF Sound

(* The invariant holds at first.                                             *)
LEMMA InitIInv ==
  ASSUME Init
  PROVE IInv /\ Framed(engine) /\ engine.failed = "none"
<1>1. options \in Options /\ engine = Constructed /\ answer = "none" BY DEF Init
<1>2. Constructed \in Engines
  <2> DEFINE top == [clauses |-> {}, ok |-> TRUE]
             sat == <<top>>
             none == "none"
             start == "START"
             zero == 0
  <2>1. top \in Level BY DEF Level
  <2> HIDE DEF top
  <2>2. sat \in Seq(Level) BY <2>1
  <2>3. none \in {"none", "notifyResetAssertions"} /\ start \in Modes BY DEF Modes
  <2>4. zero \in Nat /\ zero \in Int /\ zero \in {0, 1} OBVIOUS
  <2>5. Constructed =
          [inited |-> FALSE, pendingPops |-> zero, queryMade |-> FALSE,
           needPostsolve |-> FALSE, mode |-> start, userLevels |-> <<>>,
           assertionList |-> <<>>, buffer |-> {}, globals |-> {},
           assumptions |-> {}, sat |-> sat, decisions |-> zero,
           contextLevel |-> zero, inSatMode |-> FALSE, modelOf |-> {},
           callUsed |-> zero, cumulativeUsed |-> zero, failed |-> none]
    BY DEF Constructed, top
  <2>6. <<>> \in Seq(Nat \ {0}) /\ <<>> \in Seq(SUBSET All) OBVIOUS
  <2> HIDE DEF sat, none, start, zero
  <2>7. QED BY <2>2, <2>3, <2>4, <2>5, <2>6 DEF Engines
<1>3. Counted(options, Constructed)
  BY <1>1, OptionsTyped DEF Counted, Constructed
<1>4. Fresh(options, engine)
  BY <1>1, <1>2, <1>3
    DEF Fresh, SameStacks, SameFormulas, SameProtocol, SamePostsolve
<1>5. QED BY <1>1, <1>4, FreshFields DEF IInv, Sound

(* No setting limits the resources: then no check is refused.                *)
NoLimits == \A o \in Options : o.perCallResourceLimit = 0 /\ o.cumulativeResourceLimit = 0

\* The calls, each as the change it makes to the user's stack.
Moves(F, globals, query, a, F2, globals2, query2, a2) ==
  \/ F2 = F /\ globals2 = globals /\ query2 = query /\ a2 = a
  \/ \E f \in Formulas :
       /\ F2 = [F EXCEPT ![Len(F)] = @ \cup {f}]
       /\ globals2 = globals /\ query2 = query /\ a2 = a
  \/ \E f \in RecDefs :
       F2 = F /\ globals2 = globals \cup {f} /\ query2 = query /\ a2 = a
  \/ /\ options.incrementalSolving
     /\ F2 = Append(F, {}) /\ globals2 = globals /\ query2 = query /\ a2 = a
  \/ /\ Len(F) > 1
     /\ F2 = SubSeq(F, 1, Len(F) - 1) /\ globals2 = globals /\ query2 = query /\ a2 = a
  \/ F2 = <<{}>> /\ globals2 = globals /\ query2 = query /\ a2 = a
  \/ \E assumptions \in SUBSET Formulas :
       /\ ~ options.incrementalSolving => a = "none"
       /\ a2 \in {"unknown", IF Consistent(OnFrames(F, globals, assumptions))
                               THEN "sat" ELSE "unsat"}
       /\ F2 = IF options.incrementalSolving THEN F
               ELSE [F EXCEPT ![Len(F)] = @ \cup assumptions]
       /\ globals2 = globals /\ query2 = assumptions

(* What every step of the specification does.                                *)
Step ==
  /\ Sound(options, engine')
  /\ engine.queryMade => engine'.queryMade
  /\ answer' = answer \/ engine'.queryMade
  /\ answer' \in {"none", "sat", "unsat", "unknown", "refused"}
  /\ Framed(engine) /\ answer # "refused" =>
       \/ answer' = "refused" /\ ~ NoLimits
       \/ /\ Framed(engine') /\ engine'.failed = engine.failed
          /\ Moves(FramesOf(engine), engine.globals, engine.assumptions, answer,
                   FramesOf(engine'), engine'.globals, engine'.assumptions, answer')
          /\ answer' # "refused"

(* A call that is no check, as a step.                                       *)
LEMMA KeptStep ==
  ASSUME IInv, UNCHANGED answer, NEW frames, NEW globals,
         Kept(options, engine, engine', frames, globals, engine.assumptions),
         Framed(engine) =>
           Moves(FramesOf(engine), engine.globals, engine.assumptions, answer,
                 frames, globals, engine.assumptions, answer)
  PROVE Step
BY DEF Step, Kept, IInv

(* Every call is such a step; there is one case per call.                    *)
LEMMA NextStep ==
  ASSUME IInv, Next
  PROVE Step
<1>0. options \in Options /\ Sound(options, engine) /\ engine.failed = "none"
  BY DEF IInv, Next
<1> DEFINE F == FramesOf(engine)
<1> HIDE DEF F
<1>1. ASSUME UNCHANGED answer, Kept(options, engine, engine', FramesOf(engine),
                                    engine.globals, engine.assumptions)
      PROVE Step
  BY <1>1, KeptStep DEF Moves
<1>2. ASSUME NEW f \in Formulas, AssertFormula(f) PROVE Step
  <2>1. engine' = AddFormulas({f}, Ready(engine)) /\ UNCHANGED answer
    BY <1>2 DEF AssertFormula
  <2>2. Kept(options, engine, engine',
             [FramesOf(engine) EXCEPT ![Len(FramesOf(engine))] = @ \cup {f}],
             engine.globals, engine.assumptions)
    BY <1>0, <2>1, AssertKept
  <2>3. QED BY <2>1, <2>2, KeptStep DEF Moves
<1>3. ASSUME NEW f \in RecDefs, DefineFunctionsRec(f) PROVE Step
  <2>1. engine' = Defined(f, Ready(engine)) /\ UNCHANGED answer
    BY <1>3 DEF DefineFunctionsRec, Defined
  <2>2. Kept(options, engine, engine', FramesOf(engine), engine.globals \cup {f}, engine.assumptions)
    BY <1>0, <2>1, DefineKept
  <2>3. QED BY <2>1, <2>2, KeptStep DEF Moves
<1>4. ASSUME NEW noticed \in BOOLEAN, Simplify(noticed) PROVE Step
  BY <1>0, <1>1, <1>4, SimplifyKept DEF Simplify
<1>5. ASSUME NEW noticed \in BOOLEAN, Push(noticed) PROVE Step
  <2>1. UNCHANGED answer BY <1>5 DEF Push
  <2>2. CASE ~ options.incrementalSolving
    <3>1. engine' = ProcessAssertions(noticed, Ready(engine))
      BY <1>5, <2>2 DEF Push, Incremental
    <3>2. QED BY <1>0, <1>1, <2>1, <3>1, SimplifyKept
  <2>3. CASE options.incrementalSolving
    <3>1. options.incrementalSolving = TRUE BY <1>0, <2>3, OptionsTyped
    <3>2. engine' = UserPush(noticed, ProcessAssertions(noticed, Ready(engine)))
      BY <1>5, <2>3 DEF Push, Incremental
    <3>3. Kept(options, engine, engine', Append(FramesOf(engine), {}),
               engine.globals, engine.assumptions)
      BY <1>0, <3>1, <3>2, PushKept
    <3>4. QED BY <2>1, <2>3, <3>3, KeptStep DEF Moves
  <2>4. QED BY <2>2, <2>3
<1>6. CASE ExpandDefinitions
  BY <1>0, <1>1, <1>6, ExpandKept DEF ExpandDefinitions
<1>7. CASE Pop
  <2> DEFINE e == FinishInit(engine)
  <2>1. UNCHANGED answer BY <1>7 DEF Pop
  <2>2. /\ Good(options, e)
        /\ Kept(options, engine, e, FramesOf(engine), engine.globals, engine.assumptions)
        /\ e.inited = TRUE
    BY <1>0, FinishInitKept
  <2> HIDE DEF e
  <2>3. CASE ~ (options.incrementalSolving /\ e.userLevels # <<>>)
    <3>1. engine' = e BY <1>7, <2>3 DEF Pop, Incremental, e
    <3>2. QED BY <1>1, <2>1, <2>2, <3>1
  <2>4. CASE options.incrementalSolving /\ e.userLevels # <<>>
    <3> DEFINE E == FramesOf(e)
               cut == SubSeq(E, 1, Len(E) - 1)
    <3>1. engine' = [UserPop(e) EXCEPT !.buffer = {}] BY <1>7, <2>4 DEF Pop, Incremental, e
    <3>2. /\ Kept(options, e, engine', cut, e.globals, e.assumptions)
          /\ Framed(e) => Len(E) > 1
      BY <1>0, <2>2, <2>4, <3>1, PopGood, PopKept
    <3>3. Framed(engine) => Framed(e) /\ E = FramesOf(engine) /\ e.failed = engine.failed
      BY <2>2 DEF Kept
    <3>4. e.globals = engine.globals /\ e.assumptions = engine.assumptions
          /\ (engine.queryMade => e.queryMade)
      BY <2>2 DEF Kept
    <3> HIDE DEF cut
    <3>5. Kept(options, engine, engine', cut, engine.globals, engine.assumptions)
      BY <3>2, <3>3, <3>4 DEF Kept
    <3>6. Framed(engine) => Len(FramesOf(engine)) > 1
                            /\ cut = SubSeq(FramesOf(engine), 1, Len(FramesOf(engine)) - 1)
      BY <3>2, <3>3 DEF cut
    <3>7. QED BY <2>1, <3>5, <3>6, KeptStep DEF Moves
  <2>5. QED BY <2>3, <2>4
<1>8. CASE ResetAssertions
  <2>1. /\ engine' = NewPropEngine(Setup(PopToZero(PopAllUserLevels([engine EXCEPT !.buffer = {}]))))
        /\ UNCHANGED answer /\ engine.inited
    BY <1>8 DEF ResetAssertions
  <2>2. Good(options, engine) BY <1>0, <2>1, FreshFields DEF Sound
  <2>3. Kept(options, engine, engine', <<{}>>, engine.globals, engine.assumptions)
    BY <1>0, <2>1, <2>2, ResetKept
  <2>4. QED BY <2>1, <2>3, KeptStep DEF Moves
<1>9. CASE GetAssertions
  BY <1>0, <1>1, <1>9, ReadyKept DEF GetAssertions
<1>10. ASSUME NEW mode \in {"ABDUCT", "INTERPOL"}, NEW success \in BOOLEAN,
              Derive(mode, success)
       PROVE Step
  <2> DEFINE m == IF success THEN mode ELSE "ASSERT"
  <2>1. m \in Modes BY DEF Modes
  <2>2. /\ engine' = [Ready(SpendResource(1, Ready(engine))) EXCEPT !.mode = m]
        /\ UNCHANGED answer
    BY <1>10 DEF Derive
  <2> HIDE DEF m
  <2>3. QED BY <1>0, <1>1, <2>1, <2>2, DeriveKept
<1>11. CASE CheckSatThrows
  BY <1>0, <1>1, <1>11, ReadyKept DEF CheckSatThrows
<1>12. ASSUME NEW assumptions \in SUBSET Formulas, NEW noticed \in BOOLEAN,
              CheckSatRefused(assumptions, noticed)
       PROVE Step
  <2>1. Initialized(assumptions, noticed) = Asked(assumptions, noticed, Ready(engine))
    BY DEF Initialized, Asked
  <2>2. /\ engine' = Asked(assumptions, noticed, Ready(engine))
        /\ OutOfResources(engine') /\ answer' = "refused"
    BY <1>12, <2>1 DEF CheckSatRefused
  <2>3. Sound(options, engine') /\ engine'.queryMade = TRUE BY <1>0, <2>2, RefusedSound
  <2>4. ~ NoLimits
    BY <1>0, <2>2, OptionsTyped
      DEF NoLimits, OutOfResources, PerCallLimit, CumulativeLimit
  <2>5. QED BY <2>2, <2>3, <2>4 DEF Step
<1>13. ASSUME NEW assumptions \in SUBSET Formulas, NEW noticed \in BOOLEAN,
              NEW trail \in 0 .. 1, NEW reached \in BOOLEAN, NEW spent \in Spending,
              CheckSat(assumptions, noticed, trail, reached, spent)
       PROVE Step
  <2> DEFINE i == Asked(assumptions, noticed, Ready(engine))
             ready == ProcessAssertions(noticed, BeginCall(i))
  <2>1. Initialized(assumptions, noticed) = i
    BY DEF Initialized, Asked
  <2>2. PICK verdict \in Verdicts(spent, ready) :
          /\ engine' = NotifyCheckSatResult(assumptions, verdict,
                         EndCall(SpendResource(spent, Solve(verdict, trail, reached, ready))))
          /\ answer' = verdict
    BY <1>13, <2>1 DEF CheckSat
  <2>3. ~ engine.queryMade \/ Incremental BY <1>13 DEF CheckSat
  <2>4. spent \in 0 .. 1 BY DEF Spending
  <2> DEFINE E == FramesOf(engine)
             next == IF options.incrementalSolving THEN E
                     ELSE [E EXCEPT ![Len(E)] = @ \cup assumptions]
             consistent == Consistent(OnFrames(E, engine.globals, assumptions))
  <2>5. /\ Kept(options, engine, engine', next, engine.globals, assumptions)
        /\ engine'.queryMade = TRUE
        /\ answer' \in {"sat", "unsat", "unknown"}
        /\ Framed(engine) => answer' \in {"unknown", IF consistent THEN "sat" ELSE "unsat"}
    BY <1>0, <2>2, <2>4, CheckKept
  <2>6. ~ options.incrementalSolving => answer = "none"
    BY <2>3 DEF Incremental, IInv
  <2>7. Framed(engine) =>
          Moves(FramesOf(engine), engine.globals, engine.assumptions, answer,
                FramesOf(engine'), engine'.globals, engine'.assumptions, answer')
    BY <2>5, <2>6 DEF Kept, Moves
  <2> HIDE DEF next, consistent, E
  <2>8. QED BY <2>5, <2>7 DEF Kept, Step
<1>14. QED
  BY <1>2, <1>3, <1>4, <1>5, <1>6, <1>7, <1>8, <1>9, <1>10, <1>11, <1>12, <1>13 DEF Next

(* So every step keeps the invariant.                                        *)
LEMMA NextIInv == IInv /\ [Next]_vars => IInv'
<1>1. ASSUME IInv, Next PROVE IInv'
  <2>1. Step BY <1>1, NextStep
  <2>2. options' = options BY <1>1 DEF Next
  <2>3. answer # "none" => engine.queryMade BY <1>1 DEF IInv
  <2>4. options \in Options BY <1>1 DEF IInv
  <2>5. Sound(options', engine') BY <2>1, <2>2 DEF Step
  <2>6. answer' # "none" => engine'.queryMade BY <2>1, <2>3 DEF Step
  <2>7. QED BY <2>1, <2>2, <2>4, <2>5, <2>6 DEF Step, IInv
<1>2. ASSUME IInv, UNCHANGED vars PROVE IInv'
  BY <1>2 DEF vars, IInv
<1>3. QED BY <1>1, <1>2

(* The inductive invariant holds in every reachable state, for every set of  *)
(* options, with resource limits or without.                                 *)
THEOREM Invariant == Spec => []IInv
<1>1. Init => IInv BY InitIInv
<1>2. QED BY <1>1, NextIInv, PTL DEF Spec

(* The invariant implies the types.                                          *)
LEMMA IInvTyped == IInv => TypeOK
<1> SUFFICES ASSUME IInv PROVE TypeOK OBVIOUS
<1>1. engine \in Engines /\ Counted(options, engine) BY DEF IInv, Sound, Fresh, Good
<1>2. engine.pendingPops \in 0 .. 1 /\ engine.contextLevel \in Nat
  <2>1. CASE Fresh(options, engine)
    <3>1. engine.pendingPops = 0 /\ engine.contextLevel = 0 BY <2>1, FreshFields
    <3>2. QED BY <3>1
  <2>2. CASE Good(options, engine)
    <3>1. engine.pendingPops <= 1 /\ engine.pendingPops \in Nat BY <1>1, <2>2 DEF Good, Engines
    <3>2. Len(engine.assertionList) \in Nat BY <2>2, GoodSizes
    <3>3. engine.contextLevel = Len(engine.assertionList) + engine.decisions
          /\ engine.decisions \in {0, 1}
      BY <1>1, <2>2 DEF Good, Levels, Engines
    <3>4. QED BY <3>1, <3>2, <3>3
  <2>3. QED BY <2>1, <2>2 DEF IInv, Sound
<1>3. /\ engine.mode \in Modes
      /\ {engine.inited, engine.queryMade, engine.needPostsolve, engine.inSatMode}
           \subseteq BOOLEAN
      /\ engine.userLevels \in Seq(Nat \ {0})
      /\ engine.assertionList \in Seq(SUBSET All)
      /\ engine.buffer \subseteq All
      /\ engine.globals \subseteq RecDefs
      /\ engine.assumptions \subseteq Formulas
      /\ engine.sat \in Seq([clauses : SUBSET All, ok : BOOLEAN])
      /\ engine.modelOf \subseteq All
  BY <1>1 DEF Engines, Level
<1>4. engine.decisions \in 0 .. 1 BY <1>1 DEF Engines
<1>5. /\ engine.callUsed \in 0 .. PerCallLimit
      /\ engine.cumulativeUsed \in 0 .. CumulativeLimit
  BY <1>1 DEF Counted, PerCallLimit, CumulativeLimit
<1>6. options \in Options /\ answer \in {"none", "sat", "unsat", "unknown", "refused"}
  BY DEF IInv
<1>7. QED BY <1>2, <1>3, <1>4, <1>5, <1>6 DEF TypeOK, All

(* Every field keeps its range, whatever the formulas, conflicts, settings   *)
(* and bounds are.                                                           *)
THEOREM TypeCorrect == Spec => []TypeOK
BY Invariant, IInvTyped, PTL

(* The invariant implies that the levels agree.                              *)
LEMMA IInvLevels == IInv => LevelsAgree
<1> SUFFICES ASSUME IInv, engine.inited PROVE
        /\ engine.contextLevel = UserLevel(engine) + engine.decisions
        /\ UserLevel(engine) = AssertionLevel(engine) + 1
        /\ \A k \in DOMAIN engine.userLevels :
             engine.userLevels[k] <
               IF k < Len(engine.userLevels) THEN engine.userLevels[k + 1]
               ELSE UserLevel(engine) - engine.pendingPops
  BY DEF LevelsAgree
<1>1. Good(options, engine) BY FreshFields DEF IInv, Sound
<1>2. /\ Len(engine.assertionList) \in Nat \ {0}
      /\ Len(engine.sat) = Len(engine.assertionList)
      /\ engine.userLevels \in Seq(Nat \ {0})
  BY <1>1, GoodSizes
<1>3. engine.contextLevel = UserLevel(engine) + engine.decisions
  BY <1>1 DEF Good, Levels, UserLevel
<1>4. UserLevel(engine) = AssertionLevel(engine) + 1
  BY <1>2 DEF UserLevel, AssertionLevel
<1>5. ASSUME NEW k \in 1 .. Len(engine.userLevels), k < Len(engine.userLevels)
      PROVE engine.userLevels[k] < engine.userLevels[k + 1]
  <2>1. k + 1 \in 1 .. Len(engine.userLevels) /\ k < k + 1 BY <1>2, <1>5
  <2>2. QED BY <1>1, <2>1 DEF Good, Levels
<1>6. \A k \in 1 .. Len(engine.userLevels) :
        engine.userLevels[k] < UserLevel(engine) - engine.pendingPops
  BY <1>1 DEF Good, Levels, UserLevel
<1>7. DOMAIN engine.userLevels = 1 .. Len(engine.userLevels) BY <1>2
<1>8. QED BY <1>3, <1>4, <1>5, <1>6, <1>7

(* The user context, the assertion levels and the SAT context move together, *)
(* and frames start at increasing levels, also when refused checks leave     *)
(* levels of their own behind.                                               *)
THEOREM LevelsAgreeCorrect == Spec => []LevelsAgree
BY Invariant, IInvLevels, PTL

(* The invariant implies that the SAT solver holds the stack.                *)
LEMMA IInvSat == IInv => SatHoldsTheStack
<1> SUFFICES ASSUME IInv, NEW l \in 1 .. UserLevel(engine)
             PROVE LET here == engine.sat[l]
                       waiting == IF l = UserLevel(engine) THEN engine.buffer ELSE {}
                   IN /\ here.clauses \cup waiting \subseteq engine.assertionList[l] \cup RecDefs
                      /\ here.ok => engine.assertionList[l] \ RecDefs \subseteq
                                      here.clauses \cup waiting
  BY DEF SatHoldsTheStack
<1>1. Good(options, engine)
  <2>1. ASSUME Fresh(options, engine) PROVE FALSE
    <3>1. engine.assertionList = <<>> BY <2>1, FreshFields
    <3>2. UserLevel(engine) = 0 BY <3>1 DEF UserLevel
    <3>3. QED BY <3>2
  <2>2. QED BY <2>1 DEF IInv, Sound
<1>2. /\ l \in 1 .. Len(engine.assertionList)
      /\ engine.assertionList \in Seq(SUBSET All)
      /\ engine.globals \in SUBSET RecDefs
  BY <1>1, GoodSizes DEF UserLevel
<1>3. engine.assertionList[l] \subseteq All BY <1>2
<1>4. engine.assertionList[l] \ RecDefs \subseteq engine.assertionList[l] \cap Formulas
  BY <1>3 DEF All
<1>5. QED BY <1>1, <1>2, <1>4 DEF Good, Holds, UserLevel

(* A formula is at the SAT solver at the level it was asserted at or waits   *)
(* for the top level, and only a level known to be unsatisfiable lacks any.  *)
THEOREM SatHoldsTheStackCorrect == Spec => []SatHoldsTheStack
BY Invariant, IInvSat, PTL

(* The invariant allows one Assert to fail.                                  *)
LEMMA OnlyOneFails == IInv => engine.failed \in {"none", "notifyResetAssertions"}
BY DEF IInv, Sound, Fresh, Good, Engines

(* With any settings, the Assert that ends notifyResetAssertions is the only *)
(* one that can fail: those of push, pop, solve, processAssertions and       *)
(* userPop never do.                                                         *)
THEOREM OnlyTheResetFails ==
  Spec => [](engine.failed \in {"none", "notifyResetAssertions"})
BY Invariant, OnlyOneFails, PTL

-----------------------------------------------------------------------------
(* The levels of the frames are together the levels that are not pending:    *)
(* each is in the first frame that ends at it or above it.                   *)
LEMMA LevelsOfFrames ==
  ASSUME NEW o, NEW e, Good(o, e)
  PROVE LET u == Len(e.userLevels)
            kept == Len(e.assertionList) - e.pendingPops
            From(k) == IF k = 1 THEN 1 ELSE e.userLevels[k - 1] + 1
            To(k) == IF k <= u THEN e.userLevels[k] ELSE kept
        IN \A l \in Nat : l \in 1 .. kept <=> \E k \in 1 .. u + 1 : l \in From(k) .. To(k)
<1> DEFINE u == Len(e.userLevels)
           kept == Len(e.assertionList) - e.pendingPops
           From(k) == IF k = 1 THEN 1 ELSE e.userLevels[k - 1] + 1
           To(k) == IF k <= u THEN e.userLevels[k] ELSE kept
<1>1. /\ u \in Nat /\ e.userLevels \in Seq(Nat \ {0})
      /\ kept \in Nat \ {0}
  BY GoodSizes
<1>2. \A k \in 1 .. u : e.userLevels[k] \in Nat \ {0} /\ e.userLevels[k] < kept
  BY <1>1 DEF Good, Levels
<1> HIDE DEF u, kept
<1>3. ASSUME NEW k \in 1 .. u + 1
      PROVE /\ From(k) \in Nat \ {0} /\ To(k) \in Nat /\ To(k) <= kept
            /\ k # 1 => k - 1 \in 1 .. u + 1 /\ From(k) = To(k - 1) + 1
  <2>1. k = 1 \/ k - 1 \in 1 .. u BY <1>1
  <2>2. k \in 1 .. u \/ (k = u + 1 /\ ~ k <= u) BY <1>1
  <2>3. From(k) \in Nat \ {0} BY <1>2, <2>1
  <2>4. To(k) \in Nat /\ To(k) <= kept BY <1>1, <1>2, <2>2
  <2>5. ASSUME k # 1 PROVE k - 1 \in 1 .. u + 1 /\ From(k) = To(k - 1) + 1
    BY <1>1, <2>1, <2>5
  <2>6. QED BY <2>3, <2>4, <2>5
<1>4. u + 1 \in 1 .. u + 1 /\ To(u + 1) = kept BY <1>1
<1>5. From(1) = 1 OBVIOUS
<1> HIDE DEF From, To
<1>6. ASSUME NEW l \in Nat, NEW k \in 1 .. u + 1, l \in From(k) .. To(k)
      PROVE l \in 1 .. kept
  BY <1>1, <1>3, <1>6
<1>7. ASSUME NEW l \in 1 .. kept
      PROVE \E k \in 1 .. u + 1 : l \in From(k) .. To(k)
  <2> DEFINE T == {k \in 1 .. u + 1 : l <= To(k)}
  <2>1. T \subseteq Nat /\ T # {} BY <1>1, <1>4
  <2>2. PICK m \in T : \A n \in T : m <= n BY <2>1, Least
  <2>3. m \in 1 .. u + 1 /\ l <= To(m) BY <2>2
  <2>4. From(m) <= l
    <3>1. CASE m = 1 BY <1>5, <3>1
    <3>2. CASE m # 1
      <4>1. m - 1 \in 1 .. u + 1 /\ From(m) = To(m - 1) + 1 BY <1>3, <2>3, <3>2
      <4>2. m - 1 \notin T BY <2>2, <2>3
      <4>3. ~ l <= To(m - 1) BY <4>1, <4>2
      <4>4. To(m - 1) \in Nat BY <1>3, <4>1
      <4>5. QED BY <4>1, <4>3, <4>4
    <3>3. QED BY <3>1, <3>2
  <2>5. l \in From(m) .. To(m) BY <1>1, <1>3, <2>3, <2>4
  <2>6. QED BY <2>3, <2>5
<1>8. \A l \in Nat : l \in 1 .. kept <=> \E k \in 1 .. u + 1 : l \in From(k) .. To(k)
  BY <1>1, <1>6, <1>7
<1>9. QED BY <1>8 DEF From, To, u, kept

(* So the frames have together the formulas of the stack.                    *)
LEMMA StackFramesUnion ==
  ASSUME NEW o, NEW e, Good(o, e)
  PROVE UNION Range(StackFramesOf(e)) = StackOf(e)
<1> DEFINE u == Len(e.userLevels)
           kept == Len(e.assertionList) - e.pendingPops
           From(k) == IF k = 1 THEN 1 ELSE e.userLevels[k - 1] + 1
           To(k) == IF k <= u THEN e.userLevels[k] ELSE kept
           A(l) == e.assertionList[l] \cap Formulas
           F(k) == UNION {A(l) : l \in From(k) .. To(k)}
           S == StackFramesOf(e)
<1>1. \A l \in Nat : l \in 1 .. kept <=> \E k \in 1 .. u + 1 : l \in From(k) .. To(k)
  BY LevelsOfFrames
<1>2. S = [k \in 1 .. u + 1 |-> F(k)] BY DEF StackFramesOf
<1>3. \A y : y \in StackOf(e) <=> \E l \in 1 .. kept : y \in A(l)
  BY DEF StackOf
<1>4. ASSUME NEW k \in 1 .. u + 1 PROVE From(k) .. To(k) \subseteq Nat
  <2>1. /\ u \in Nat /\ e.userLevels \in Seq(Nat \ {0}) BY GoodSizes
  <2>2. k = 1 \/ k - 1 \in 1 .. u BY <2>1
  <2>3. From(k) \in Nat
    <3> HIDE DEF u
    <3>1. \A j \in 1 .. u : e.userLevels[j] \in Nat BY <2>1 DEF u
    <3>2. QED BY <2>2, <3>1
  <2> HIDE DEF From, To
  <2>4. QED BY <2>3
<1> HIDE DEF u, kept, From, To, A, S
<1>5. \A y, k : y \in F(k) <=> \E l \in From(k) .. To(k) : y \in A(l)
  OBVIOUS
<1> HIDE DEF F
<1>6. DOMAIN S = 1 .. u + 1 /\ \A k \in 1 .. u + 1 : S[k] = F(k) BY <1>2
<1>7. \A y : y \in UNION Range(S) <=> \E k \in 1 .. u + 1 : y \in F(k)
  <2>1. Range(S) = {F(k) : k \in 1 .. u + 1} BY <1>6 DEF Range
  <2>2. QED BY <2>1
<1>8. \A y : y \in UNION Range(S) <=> y \in StackOf(e)
  <2>1. 1 .. kept \subseteq Nat OBVIOUS
  <2>2. QED BY <1>1, <1>3, <1>4, <1>5, <1>7, <2>1
<1>9. QED BY <1>8 DEF S

(* StackFrames are those of the engine.                                      *)
LEMMA StackFramesEq == StackFrames = StackFramesOf(engine)
BY DEF StackFrames, StackFramesOf, FrameLevels, UserLevel

(* The invariant implies that a model is one of the stack.                   *)
LEMMA IInvModel == IInv => ModelIsOfTheStack
<1> SUFFICES ASSUME IInv, engine.mode \in {"SAT", "SAT_UNKNOWN"}, engine.inSatMode
             PROVE OnStack = engine.modelOf
  BY DEF ModelIsOfTheStack
<1>1. Good(options, engine) BY FreshFields DEF IInv, Sound
<1>2. StackOf(engine) \cup engine.globals \cup engine.assumptions = engine.modelOf
  BY <1>1 DEF Good, Model
<1>3. UNION Range(StackFrames) = StackOf(engine)
  BY <1>1, StackFramesEq, StackFramesUnion
<1>4. QED BY <1>2, <1>3 DEF OnStack

(* A model that the mode and the theories' sat mode would let the user have  *)
(* is one of exactly the formulas that are on the stack now, with any        *)
(* settings.                                                                 *)
THEOREM ModelIsOfTheStackCorrect == Spec => []ModelIsOfTheStack
BY Invariant, IInvModel, PTL

-----------------------------------------------------------------------------
(* The invariant of an engine without limits, that has one level per frame.  *)
FInv == /\ IInv
        /\ Framed(engine)
        /\ engine.failed = "none"
        /\ answer # "refused"

(* Every step keeps it.                                                      *)
LEMMA NextFInv ==
  ASSUME NoLimits
  PROVE FInv /\ [Next]_vars => FInv'
<1>1. ASSUME FInv, Next PROVE FInv'
  <2>1. IInv' BY <1>1, NextIInv DEF FInv
  <2>2. Step BY <1>1, NextStep DEF FInv
  <2>3. /\ Framed(engine') /\ engine'.failed = engine.failed /\ answer' # "refused"
    BY <1>1, <2>2, NoLimits DEF Step, FInv
  <2>4. QED BY <1>1, <2>1, <2>3 DEF FInv
<1>2. ASSUME FInv, UNCHANGED vars PROVE FInv'
  <2>1. IInv' BY <1>2, NextIInv DEF FInv
  <2>2. QED BY <1>2, <2>1 DEF vars, FInv
<1>3. QED BY <1>1, <1>2

(* Without resource limits there is one level per frame, and no Assert has   *)
(* failed.                                                                   *)
THEOREM FramesInvariant ==
  ASSUME NoLimits
  PROVE Spec => []FInv
<1>1. Init => FInv BY InitIInv DEF Init, FInv
<1>2. FInv /\ [Next]_vars => FInv' BY NextFInv
<1>3. QED BY <1>1, <1>2, PTL DEF Spec

(* Without resource limits no Assert fails; with them the reset's may, as a  *)
(* run shows.                                                                *)
THEOREM NoAssertFailsCorrect ==
  ASSUME NoLimits
  PROVE Spec => []NoAssertFails
<1>1. Spec => []FInv BY FramesInvariant
<1>2. FInv => NoAssertFails BY DEF FInv, NoAssertFails
<1>3. QED BY <1>1, <1>2, PTL

(* What a step does to the user's stack is a call of the abstract            *)
(* specification, or nothing.                                                *)
LEMMA MovesAreCalls ==
  ASSUME NEW F, NEW F2, StackFrames = F, StackFrames' = F2,
         options' = options, answer # "refused", answer' # "refused",
         Moves(F, engine.globals, engine.assumptions, answer,
               F2, engine'.globals, engine'.assumptions, answer')
  PROVE [Stack!Next]_(Stack!vars)
<1> DEFINE g == engine.globals
           g2 == engine'.globals
           q == engine.assumptions
           q2 == engine'.assumptions
<1>1. /\ (IF answer = "refused" THEN "unknown" ELSE answer) = answer
      /\ (IF answer' = "refused" THEN "unknown" ELSE answer') = answer'
      /\ (~ Incremental)' = ~ Incremental
  BY DEF Incremental
<1>2. CASE F2 = F /\ g2 = g /\ q2 = q /\ answer' = answer
  BY <1>1, <1>2 DEF Stack!vars
<1>3. ASSUME NEW f \in Formulas,
             F2 = [F EXCEPT ![Len(F)] = @ \cup {f}], g2 = g, q2 = q, answer' = answer
      PROVE Stack!Next
  <2>1. Stack!AssertFormula(f) BY <1>1, <1>3 DEF Stack!AssertFormula
  <2>2. QED BY <1>1, <2>1 DEF Stack!Next, Stack!Actions
<1>4. ASSUME NEW f \in RecDefs, F2 = F, g2 = g \cup {f}, q2 = q, answer' = answer
      PROVE Stack!Next
  <2>1. Stack!DefineRec(f) BY <1>1, <1>4 DEF Stack!DefineRec
  <2>2. QED BY <1>1, <2>1 DEF Stack!Next, Stack!Actions
<1>5. ASSUME options.incrementalSolving, F2 = Append(F, {}), g2 = g, q2 = q, answer' = answer
      PROVE Stack!Next
  <2>1. Stack!Push BY <1>1, <1>5 DEF Stack!Push, Incremental
  <2>2. QED BY <1>1, <2>1 DEF Stack!Next, Stack!Actions
<1>6. ASSUME Len(F) > 1, F2 = SubSeq(F, 1, Len(F) - 1), g2 = g, q2 = q, answer' = answer
      PROVE Stack!Next
  <2>1. Stack!Pop BY <1>1, <1>6 DEF Stack!Pop
  <2>2. QED BY <1>1, <2>1 DEF Stack!Next, Stack!Actions
<1>7. ASSUME F2 = <<{}>>, g2 = g, q2 = q, answer' = answer
      PROVE Stack!Next
  <2>1. Stack!ResetAssertions BY <1>1, <1>7 DEF Stack!ResetAssertions
  <2>2. QED BY <1>1, <2>1 DEF Stack!Next, Stack!Actions
<1>8. ASSUME NEW assumptions \in SUBSET Formulas,
             ~ options.incrementalSolving => answer = "none",
             answer' \in {"unknown", IF Consistent(OnFrames(F, g, assumptions))
                                       THEN "sat" ELSE "unsat"},
             F2 = IF options.incrementalSolving THEN F
                  ELSE [F EXCEPT ![Len(F)] = @ \cup assumptions],
             g2 = g, q2 = assumptions
      PROVE Stack!Next
  <2>1. Stack!Consistent(Stack!OnStack \cup assumptions) = Consistent(OnFrames(F, g, assumptions))
    BY DEF Stack!Consistent, Stack!OnStack, Consistent, OnFrames
  <2>2. Stack!CheckSat(assumptions)
    BY <1>1, <1>8, <2>1 DEF Stack!CheckSat, Incremental
  <2>3. QED BY <1>1, <2>2 DEF Stack!Next, Stack!Actions
<1>9. QED BY <1>2, <1>3, <1>4, <1>5, <1>6, <1>7, <1>8 DEF Moves

(* StackFrames in the next state.                                            *)
LEMMA StackFramesNext ==
  StackFrames' = StackFramesOf(engine')
BY DEF StackFrames, StackFramesOf, FrameLevels, UserLevel

(* Without resource limits the engine implements the assertion stack: every  *)
(* check is answered for the formulas on the user's frames, the definitions  *)
(* and its assumptions, and every call changes the frames it is documented   *)
(* to change.                                                                *)
THEOREM ImplementsStackCorrect ==
  ASSUME NoLimits
  PROVE Spec => ImplementsStack
<1>1. Init => Stack!Init
  <2> SUFFICES ASSUME Init PROVE Stack!Init OBVIOUS
  <2>1. IInv /\ Framed(engine) BY InitIInv
  <2>2. /\ options \in Options /\ engine = Constructed /\ answer = "none" BY DEF Init
  <2>3. engine.globals = {} /\ engine.assumptions = {} /\ engine.inited = FALSE
    BY <2>2 DEF Constructed
  <2>4. FramesOf(engine) = <<{}>> BY <2>3 DEF FramesOf
  <2>5. StackFrames = <<{}>>
    <3>1. Sound(options, engine) /\ Framed(engine) BY <2>1 DEF IInv
    <3>2. StackFramesOf(engine) = FramesOf(engine) BY <3>1, StackFramesAre
    <3>3. QED BY <2>4, <3>2, StackFramesEq
  <2>6. (~ Incremental) \in BOOLEAN OBVIOUS
  <2>7. QED BY <2>2, <2>3, <2>5, <2>6 DEF Stack!Init
<1>2. FInv /\ FInv' /\ [Next]_vars => [Stack!Next]_(Stack!vars)
  <2>1. ASSUME FInv, FInv', Next PROVE [Stack!Next]_(Stack!vars)
    <3>1. Step BY <2>1, NextStep DEF FInv
    <3>2. /\ Framed(engine) /\ answer # "refused" /\ answer' # "refused"
          /\ options' = options
      BY <2>1 DEF FInv, Next
    <3>3. /\ Framed(engine') /\ Sound(options, engine')
          /\ Moves(FramesOf(engine), engine.globals, engine.assumptions, answer,
                   FramesOf(engine'), engine'.globals, engine'.assumptions, answer')
      BY <3>1, <3>2 DEF Step
    <3>4. StackFrames = FramesOf(engine)
      BY <2>1, StackFramesEq, StackFramesAre DEF FInv, IInv
    <3>5. StackFrames' = FramesOf(engine')
      BY <3>3, StackFramesNext, StackFramesAre
    <3>6. QED BY <3>2, <3>3, <3>4, <3>5, MovesAreCalls
  <2>2. ASSUME UNCHANGED vars PROVE [Stack!Next]_(Stack!vars)
    <3>1. StackFrames' = StackFrames
      BY <2>2, StackFramesNext, StackFramesEq DEF vars
    <3>2. QED BY <2>2, <3>1 DEF vars, Stack!vars, Incremental
  <2>3. QED BY <2>1, <2>2
<1>3. Spec => []FInv BY FramesInvariant
<1>4. QED BY <1>1, <1>2, <1>3, PTL DEF Spec, ImplementsStack, Stack!Spec
=============================================================================
