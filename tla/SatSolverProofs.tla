--------------------------- MODULE SatSolverProofs ---------------------------
(* The SAT solver with user levels is sound, for every set of atoms, theory,   *)
(* setup and number of levels.  The invariant IInv says of every clause,       *)
(* lemma, resolvent and literal of decision level zero that it follows from    *)
(* the theory and the user's levels up to the one it is kept for, and of the   *)
(* trail all that conflict analysis, backjumping and the attaching of lemmas   *)
(* rely on.  Ent is the entailment of the abstract solver, put so that the     *)
(* provers can use it.  Each action has a lemma (named ...Step) that says it   *)
(* keeps IInv; the lemmas before it are about the operators it is built from.  *)
EXTENDS SatSolver, FiniteSetTheorems, SequenceTheorems, TLAPS

-----------------------------------------------------------------------------
(* The literals over the atoms, and the total assignments.                   *)
AtomLits == Atoms \cup {-a : a \in Atoms}
(* The literals of a clause of the arena, which may have the constant false. *)
ClauseLits == AtomLits \cup {-VarTrue}
(* The total assignments, as sets of true literals.                          *)
Assignments == {Oracle!Total(A) : A \in SUBSET Atoms}

(* M satisfies the theory and the first n + 1 levels of the stack s; every   *)
(* such assignment satisfies c.                                              *)
Allowed(M, s, n) ==
  /\ \A c \in Theory : c \cap M # {}
  /\ \A m \in 1 .. n + 1 : \A c \in s[m] : c \cap M # {}
(* Every assignment that satisfies the theory and the levels up to n         *)
(* satisfies c.                                                              *)
Ent(s, n, c) == \A M \in Assignments : Allowed(M, s, n) => c \cap M # {}

-----------------------------------------------------------------------------
(* The inductive invariant.                                                  *)
Entry == [lit : Literals, reason : Int, level : Nat, ulevel : Nat]

(* The trail: the constant first, each variable once, its levels growing.    *)
Shape(t, al) ==
  /\ t \in Seq(Entry) /\ Len(t) >= 1
  /\ t[1].lit = VarTrue /\ t[1].reason = Undef /\ t[1].level = 0 /\ t[1].ulevel = 0
  /\ \A i \in 1 .. Len(t) :
       /\ i > 1 => t[i].lit \in AtomLits
       /\ t[i].reason >= Lazy
       /\ t[i].ulevel <= al /\ (t[i].level > 0 => t[i].ulevel = al)
  /\ \A i, j \in 1 .. Len(t) :
       i < j => /\ Var(t[i].lit) # Var(t[j].lit)
                /\ t[i].level <= t[j].level /\ t[i].ulevel <= t[j].ulevel

(* Its variables exist at its user levels.                                   *)
Known(t, int) == \A i \in 2 .. Len(t) : int[Var(t[i].lit)] \in 0 .. t[i].ulevel

(* What is assigned without a decision is entailed.                          *)
Valued(t, s) == \A i \in 2 .. Len(t) : t[i].level = 0 => Ent(s, t[i].ulevel, {t[i].lit})

(* l is false on the trail before the position i.                            *)
Before(t, l, i) == \E j \in 1 .. Len(t) : j < i /\ t[j].lit = -l

(* A reason has its literal in front, and the others are false before it.    *)
Reasons(t, db) ==
  \A i \in 1 .. Len(t) : t[i].reason > 0 =>
    /\ t[i].reason \in DOMAIN db
    /\ db[t[i].reason].w[1] = t[i].lit
    /\ \A l \in Lits(db[t[i].reason]) \ {t[i].lit} : Before(t, l, i)

(* A clause of the arena.                                                    *)
ClauseType == [w : Seq(ClauseLits), rest : SUBSET ClauseLits, level : Nat, removable : BOOLEAN]

(* A clause of the right form, whose variables exist, and which is entailed. *)
Sound(c, s, int, al) ==
  /\ c \in ClauseType /\ Len(c.w) = 2 /\ c.level <= al
  /\ \A l \in Lits(c) \ {-VarTrue} : int[Var(l)] \in 0 .. c.level
  /\ Ent(s, c.level, Lits(c))
(* The arena.                                                                *)
Db(db, s, int, al) ==
  /\ IsFiniteSet(DOMAIN db) /\ DOMAIN db \subseteq Nat \ {0}
  /\ \A r \in DOMAIN db : Sound(db[r], s, int, al)

(* A lemma in the queue, and its literals.                                   *)
LemmaType == [w : Seq(AtomLits), rest : SUBSET AtomLits, sorted : BOOLEAN,
              removable : BOOLEAN, dangling : BOOLEAN]

(* The queue of lemmas: their variables exist, unless a pop has removed one, *)
(* and they are valid.                                                       *)
Queue(q, s, int, al) ==
  /\ q \in Seq(LemmaType)
  /\ \A k \in 1 .. Len(q) :
       /\ ~q[k].dangling => \A l \in LemmaLits(q[k]) : int[Var(l)] \in 0 .. al
       /\ Ent(s, 0, LemmaLits(q[k]))
       /\ ~q[k].sorted => q[k].w = <<>>

(* A sorted lemma, after the backtracking: if all but its first literal were *)
(* false when it was sorted, then they still are, in order, and the first    *)
(* one is not false, or is at the current decision level.                    *)
Ready(L, t, bound) ==
  /\ Len(L.w) <= 2
  /\ Len(L.w) < 2 => L.rest = {}
  /\ Len(L.w) = 1 => \/ DecisionLevel(t) = 0
                     \/ IsTrue(t, L.w[1]) /\ LevelOf(t, L.w[1]) = 0
  /\ Len(L.w) = 2 /\ IsFalse(t, L.w[2]) /\ At(t, L.w[2]) <= bound =>
       /\ \A l \in L.rest : Before(t, l, At(t, L.w[2]))
       /\ IsFalse(t, L.w[1]) => LevelOf(t, L.w[1]) = DecisionLevel(t)
(* The sorted lemmas of the queue; an empty one has been noted as the        *)
(* conflict.                                                                 *)
ReadyQueue(q, t, bound, conflict) ==
  \A k \in 1 .. Len(q) : q[k].sorted => /\ Ready(q[k], t, bound)
                                        /\ q[k].w = <<>> => conflict # Undef
(* No lemma of the queue names a removed variable; none is sorted.           *)
Live(q) == \A k \in 1 .. Len(q) : ~q[k].dangling
Fresh(q) == \A k \in 1 .. Len(q) : ~q[k].sorted

(* The locals, and where the running call stands.                            *)
Locals == [caller : {"search", "addClause"}, check : {"theory", "final"}, todo : SUBSET Nat,
           conflict : Int, recheck : BOOLEAN, from : {"entry", "theory"}, bound : Nat,
           res : SUBSET AtomLits, maxlevel : Nat]
(* The places where a call may stand: lemmas are in the queue only while     *)
(* propagate runs, all sorted when they are attached, or after a solve that  *)
(* has given up, not looked at yet; only the start of propagate meets one of *)
(* removed variables; between calls, and for a call of addClause_, there is  *)
(* no decision; a decision is made, or a round of the theory ends, with      *)
(* everything propagated.                                                    *)
Protocol(p, a, t, h, q) ==
  /\ p \in {"idle", "propagate", "bool", "theory", "lemmas", "attach", "return",
            "analyze", "decide", "solved", "undefined"}
  /\ a \in Locals
  /\ q # <<>> => /\ p \in {"propagate", "lemmas", "attach", "idle", "solved", "undefined"}
                 /\ p \in {"idle", "solved"} => Fresh(q)
                 /\ p \in {"lemmas", "attach", "solved"} => Live(q)
  /\ p = "attach" => a.bound <= Len(t) /\ \A k \in 1 .. Len(q) : q[k].sorted
  /\ p = "idle" \/ a.caller = "addClause" => DecisionLevel(t) = 0
  /\ p = "decide" => a.caller = "search" /\ h = Len(t)
  /\ p = "return" /\ a.conflict = Undef /\ a.check = "theory" /\ a.caller = "search" =>
       h = Len(t)

(* What propagation has left to do is at the current decision level.         *)
Pending(p, a, t, h, db) ==
  /\ h \in 0 .. Len(t)
  /\ a.todo # {} => p = "bool" /\ h > 0
  /\ \A r \in a.todo : r \in DOMAIN db /\ -t[h].lit \in {db[r].w[1], db[r].w[2]}
  /\ \A i \in 1 .. Len(t) : i > h \/ (i = h /\ a.todo # {}) => t[i].level = DecisionLevel(t)

(* A conflict is a clause that is false, and at the current decision level,  *)
(* or the solver is at the bottom and nothing is allowed.                    *)
Conflict(p, a, t, db, s, al) ==
  /\ a.conflict # Undef => p \in {"return", "lemmas", "attach"}
  /\ a.conflict >= Lazy /\ (p = "lemmas" => a.conflict \in {Undef, Lazy})
  /\ a.conflict = Lazy => DecisionLevel(t) = 0 /\ Ent(s, al, {})
  /\ a.conflict > 0 => /\ a.conflict \in DOMAIN db
                       /\ \A l \in Lits(db[a.conflict]) : IsFalse(t, l)
                       /\ \E l \in Lits(db[a.conflict]) : LevelOf(t, l) = DecisionLevel(t)

(* What is resolved is a clause over false literals above the bottom, some   *)
(* of the current decision level, and entailed at the level kept for it.     *)
Resolvent(p, a, t, s, int, al) ==
  p = "analyze" =>
    /\ a.maxlevel <= al
    /\ \A l \in a.res : /\ IsFalse(t, l) /\ LevelOf(t, l) > 0
                        /\ int[Var(l)] \in 0 .. a.maxlevel
    /\ \E l \in a.res : LevelOf(t, l) = DecisionLevel(t)
    /\ Ent(s, a.maxlevel, a.res)

(* ok and "unsat" mean what they say.                                        *)
Verdicts(okay, oks, ans, s, al) ==
  /\ okay \in BOOLEAN /\ oks \in Seq(BOOLEAN) /\ Len(oks) = al
  /\ ~okay => Ent(s, al, {})
  /\ \A k \in 1 .. al : ~oks[k] => Ent(s, k - 1, {})
  /\ ans = "unsat" => Ent(s, al, {})

(* The user's clauses, one set for each user level.                          *)
Stack(s, al) ==
  /\ al \in 0 .. MaxLevel
  /\ s \in Seq(SUBSET SUBSET AtomLits) /\ Len(s) = al + 1

(* The index up to which a lemma's second watch counts as false: that of the *)
(* sort while the lemmas are attached, the whole trail otherwise.            *)
Bound == IF pc = "attach" THEN at.bound ELSE Len(trail)

(* The stack, the variables that exist, and the settings.                    *)
Vars(int, al) == int \in [Atoms -> Int] /\ \A x \in Atoms : -1 <= int[x] /\ int[x] <= al
(* A setup.                                                                  *)
Setting == [cores : BOOLEAN, user : [0 .. MaxLevel -> SUBSET SUBSET AtomLits],
            inputs : Nat, solves : Nat, lemmas : Nat, restarts : Nat]
(* What only calls of the user change.                                       *)
Base(s, int, al, l, c, sp) ==
  /\ Stack(s, al) /\ Vars(int, al)
  /\ l \in Setting /\ c \in BOOLEAN /\ sp \in BOOLEAN

(* All that is said of the trail and the reasons on it.                      *)
Assigned(t, db, s, int, al) ==
  Shape(t, al) /\ Known(t, int) /\ Valued(t, s) /\ Reasons(t, db)

(* The inductive invariant.                                                  *)
IInv ==
  /\ Base(inputs, intro, assertionLevel, left, cores, spent)
  /\ Assigned(trail, clauses, inputs, intro, assertionLevel)
  /\ Db(clauses, inputs, intro, assertionLevel)
  /\ Queue(lemmas, inputs, intro, assertionLevel)
  /\ ReadyQueue(lemmas, trail, Bound, at.conflict)
  /\ Protocol(pc, at, trail, qhead, lemmas)
  /\ Pending(pc, at, trail, qhead, clauses)
  /\ Conflict(pc, at, trail, clauses, inputs, assertionLevel)
  /\ Resolvent(pc, at, trail, inputs, intro, assertionLevel)
  /\ Verdicts(ok, trailOk, answer, inputs, assertionLevel)

-----------------------------------------------------------------------------
(* What is assumed of the constants.                                         *)
LEMMA Constants ==
  /\ IsFiniteSet(Atoms) /\ \A a \in Atoms : a \in Nat /\ a # 0
  /\ VarTrue \in Nat /\ VarTrue # 0 /\ VarTrue \notin Atoms
  /\ \A c \in Theory : c \subseteq AtomLits
  /\ MaxLevel \in Nat
  /\ Setups \subseteq Setting
BY SatSolverAssumption DEF AtomLits, Setting

(* A literal over an atom.                                                   *)
LEMMA AtomLitFacts ==
  ASSUME NEW l \in AtomLits
  PROVE /\ l \in Int /\ l # 0 /\ l \in Literals /\ -l \in AtomLits /\ Var(l) \in Atoms
        /\ l # VarTrue /\ l # -VarTrue /\ l \in ClauseLits
BY Constants DEF AtomLits, Literals, Var, ClauseLits

(* All literals.                                                             *)
LEMMA LiteralsAre == /\ Literals = AtomLits \cup {VarTrue, -VarTrue}
                     /\ ClauseLits \subseteq Literals
BY DEF AtomLits, Literals, ClauseLits

(* A literal, its opposite and its variable.                                 *)
LEMMA LitFacts ==
  ASSUME NEW l \in Literals
  PROVE /\ l \in Int /\ l # 0 /\ -l \in Literals /\ -(-l) = l /\ -l # l
        /\ Var(l) \in Nat /\ Var(l) > 0 /\ Var(-l) = Var(l)
        /\ \A k \in Literals : Var(k) = Var(l) <=> k = l \/ k = -l
BY Constants DEF Literals, Var

(* An assignment has one of each two opposite literals.                      *)
LEMMA AssignmentFacts ==
  ASSUME NEW M \in Assignments
  PROVE M \subseteq AtomLits /\ \A l \in AtomLits : l \in M <=> -l \notin M
<1>1. PICK A \in SUBSET Atoms : M = A \cup {-a : a \in Atoms \ A}
  BY DEF Assignments, Oracle!Total
<1>2. M \subseteq AtomLits BY <1>1 DEF AtomLits
<1>3. ASSUME NEW l \in AtomLits PROVE l \in M <=> -l \notin M
  BY <1>1, Constants DEF AtomLits
<1>4. QED BY <1>2, <1>3

(* What satisfies more levels satisfies fewer.                               *)
LEMMA AllowedMono ==
  ASSUME NEW M, NEW s, NEW n \in Int, NEW m \in Int, m <= n, Allowed(M, s, n)
  PROVE Allowed(M, s, m)
BY DEF Allowed

(* What is entailed stays so at a higher level, and with more literals.      *)
LEMMA EntMono ==
  ASSUME NEW s, NEW n \in Int, NEW m \in Int, n <= m, NEW c, NEW d, c \subseteq d, Ent(s, n, c)
  PROVE Ent(s, m, d)
<1>1. ASSUME NEW M \in Assignments, Allowed(M, s, m) PROVE d \cap M # {}
  <2>1. Allowed(M, s, n) BY <1>1, AllowedMono
  <2>2. QED BY <2>1 DEF Ent
<1>2. QED BY <1>1 DEF Ent

(* What is entailed stays so when clauses are added.                         *)
LEMMA EntMore ==
  ASSUME NEW s, NEW s2, NEW n \in Int, NEW c, Ent(s, n, c),
         \A k \in 1 .. n + 1 : s[k] \subseteq s2[k]
  PROVE Ent(s2, n, c)
<1>1. ASSUME NEW M \in Assignments, Allowed(M, s2, n) PROVE c \cap M # {}
  <2>1. Allowed(M, s, n) BY <1>1 DEF Allowed
  <2>2. QED BY <2>1 DEF Ent
<1>2. QED BY <1>1 DEF Ent

(* The clauses of the theory are entailed at every level.                    *)
LEMMA TheoryEnt ==
  ASSUME NEW s, NEW n, NEW c \in Theory
  PROVE Ent(s, n, c)
BY DEF Ent, Allowed

(* Entailment is that of the abstract solver.                                *)
LEMMA EntIsEntails ==
  ASSUME NEW s, NEW al, Stack(s, al), NEW n \in 0 .. al, NEW c
  PROVE Ent(s, n, c) <=> Oracle!Entails(Oracle!UpTo(s, n), c)
<1>1. /\ Len(s) = al + 1 /\ al \in Nat /\ Len(s) \in Nat
  BY Constants DEF Stack
<1>2. (IF n + 1 < Len(s) THEN n + 1 ELSE Len(s)) = n + 1 BY <1>1
<1>3. Oracle!UpTo(s, n) = UNION {s[i] : i \in 1 .. n + 1}
  BY <1>2 DEF Oracle!UpTo
<1>4. ASSUME NEW M
      PROVE Oracle!Satisfies(M, Oracle!UpTo(s, n) \cup Theory) <=> Allowed(M, s, n)
  BY <1>3 DEF Oracle!Satisfies, Allowed
<1>5. QED BY <1>4 DEF Ent, Oracle!Entails, Assignments

-----------------------------------------------------------------------------
(* An entry of the trail.                                                    *)
LEMMA EntryFacts ==
  ASSUME NEW t, NEW al, Shape(t, al), NEW i \in 1 .. Len(t)
  PROVE /\ t[i].lit \in Literals /\ t[i].reason \in Int /\ t[i].reason >= -1
        /\ t[i].level \in Nat /\ t[i].ulevel \in Nat /\ t[i].ulevel <= al
        /\ t[i].level > 0 => t[i].ulevel = al
        /\ i > 1 => t[i].lit \in AtomLits
        /\ i = 1 => /\ t[i].lit = VarTrue /\ t[i].level = 0 /\ t[i].ulevel = 0
                    /\ t[i].reason = 0
        /\ t[i].level <= DecisionLevel(t)
        /\ DOMAIN t = 1 .. Len(t) /\ Len(t) \in Nat /\ DecisionLevel(t) \in Nat
        /\ t[i] \in Entry
<1>1. t[i] \in Entry /\ t[Len(t)] \in Entry BY DEF Shape
<1>2. /\ t[i].lit \in Literals /\ t[i].reason \in Int /\ t[i].level \in Nat
      /\ t[i].ulevel \in Nat /\ t[Len(t)].level \in Nat
  BY <1>1 DEF Entry
<1>3. Len(t) \in Nat /\ Len(t) \in 1 .. Len(t) /\ DOMAIN t = 1 .. Len(t) BY DEF Shape
<1>4. t[i].level <= t[Len(t)].level
  <2>1. CASE i = Len(t) BY <1>2, <2>1
  <2>2. CASE i < Len(t) BY <1>3, <2>2 DEF Shape
  <2>3. i = Len(t) \/ i < Len(t)
    <3>1. Len(t) \in Nat BY <1>3
    <3>2. QED BY <3>1
  <2>4. QED BY <2>1, <2>2, <2>3
<1>5. QED BY <1>1, <1>2, <1>3, <1>4 DEF Shape, DecisionLevel, Lazy, Undef

(* At finds the entry of a variable.                                         *)
LEMMA AtIs ==
  ASSUME NEW t, NEW al, Shape(t, al), NEW i \in 1 .. Len(t), NEW l, Var(t[i].lit) = Var(l)
  PROVE At(t, l) = i
<1>1. DOMAIN t = 1 .. Len(t) BY EntryFacts
<1>2. \A j \in 1 .. Len(t) : Var(t[j].lit) = Var(l) => j = i
  <2>1. ASSUME NEW j \in 1 .. Len(t), Var(t[j].lit) = Var(l), j # i PROVE FALSE
    <3>1. j < i \/ i < j BY <2>1
    <3>2. QED BY <2>1, <3>1 DEF Shape
  <2>2. QED BY <2>1
<1>3. QED BY <1>1, <1>2 DEF At

(* A literal is true when it is on the trail.                                *)
LEMMA Trues ==
  ASSUME NEW t, NEW al, Shape(t, al), NEW l
  PROVE IsTrue(t, l) <=> \E i \in 1 .. Len(t) : t[i].lit = l
BY DEF Shape, IsTrue

(* A literal is false when its opposite is on the trail.                     *)
LEMMA Falses ==
  ASSUME NEW t, NEW al, Shape(t, al), NEW l
  PROVE IsFalse(t, l) <=> \E i \in 1 .. Len(t) : t[i].lit = -l
BY Trues DEF IsFalse

(* The entry of a true literal.                                              *)
LEMMA AtTrue ==
  ASSUME NEW t, NEW al, Shape(t, al), NEW l, IsTrue(t, l)
  PROVE At(t, l) \in 1 .. Len(t) /\ t[At(t, l)].lit = l
<1>1. PICK i \in 1 .. Len(t) : t[i].lit = l BY Trues
<1>2. At(t, l) = i BY <1>1, AtIs
<1>3. QED BY <1>1, <1>2

(* The entry of a false literal.                                             *)
LEMMA AtFalse ==
  ASSUME NEW t, NEW al, Shape(t, al), NEW l \in Literals, IsFalse(t, l)
  PROVE At(t, l) \in 1 .. Len(t) /\ t[At(t, l)].lit = -l
<1>1. PICK i \in 1 .. Len(t) : t[i].lit = -l BY Falses
<1>2. Var(-l) = Var(l) BY LitFacts
<1>3. At(t, l) = i BY <1>1, <1>2, AtIs
<1>4. QED BY <1>1, <1>3

(* A literal has one value at most, and none when its variable is not on the *)
(* trail.                                                                    *)
LEMMA Undefined ==
  ASSUME NEW t, NEW al, Shape(t, al), NEW l \in Literals
  PROVE /\ IsUndef(t, l) <=> ~IsTrue(t, l) /\ ~IsFalse(t, l)
        /\ ~(IsTrue(t, l) /\ IsFalse(t, l))
        /\ IsUndef(t, l) <=> \A i \in 1 .. Len(t) : Var(t[i].lit) # Var(l)
        /\ At(t, l) \in 0 .. Len(t)
<1>1. DOMAIN t = 1 .. Len(t) /\ Len(t) \in Nat BY DEF Shape
<1>2. ASSUME \A i \in 1 .. Len(t) : Var(t[i].lit) # Var(l) PROVE At(t, l) = 0
  BY <1>1, <1>2 DEF At
<1>3. \A i \in 1 .. Len(t) : Var(t[i].lit) = Var(l) <=> t[i].lit = l \/ t[i].lit = -l
  BY LitFacts, EntryFacts
<1>4. ASSUME NEW i \in 1 .. Len(t), Var(t[i].lit) = Var(l) PROVE At(t, l) = i
  BY <1>4, AtIs
<1>5. IsUndef(t, l) <=> \A i \in 1 .. Len(t) : Var(t[i].lit) # Var(l)
  BY <1>2, <1>4 DEF IsUndef
<1>6. IsUndef(t, l) <=> ~IsTrue(t, l) /\ ~IsFalse(t, l)
  BY <1>3, <1>5, Trues, Falses
<1>7. ASSUME IsTrue(t, l), IsFalse(t, l) PROVE FALSE
  BY <1>7, AtTrue, AtFalse, LitFacts
<1>8. At(t, l) \in 0 .. Len(t) BY <1>1, <1>2, <1>4
<1>9. QED BY <1>5, <1>6, <1>7, <1>8

(* False before a position.                                                  *)
LEMMA BeforeIs ==
  ASSUME NEW t, NEW al, Shape(t, al), NEW l \in Literals, NEW i \in Int
  PROVE Before(t, l, i) <=> IsFalse(t, l) /\ At(t, l) < i
<1>1. ASSUME NEW j \in 1 .. Len(t), t[j].lit = -l PROVE At(t, l) = j
  BY <1>1, AtIs, LitFacts
<1>2. QED BY <1>1, Falses DEF Before

-----------------------------------------------------------------------------
(* A set of numbers that is not empty has a least one.                       *)
LEMMA Least ==
  ASSUME NEW T, T \subseteq Nat, T # {}
  PROVE \E m \in T : \A n \in T : m <= n
<1> DEFINE B == {1 .. n : n \in T}
           R == StrictSubsetOrdering(Nat)
<1>1. IsWellFoundedOn(R, FiniteSubsetsOf(Nat)) BY FS_StrictSubsetOrderingWellFounded
<1>2. B \subseteq FiniteSubsetsOf(Nat) BY FS_Interval DEF FiniteSubsetsOf
<1>3. B # {} OBVIOUS
<1> HIDE DEF R
<1>4. PICK x \in B : \A y \in B : ~ (<<y, x>> \in R) BY <1>1, <1>2, <1>3, WFMin
<1>5. PICK m \in T : x = 1 .. m OBVIOUS
<1>6. ASSUME NEW n \in T, ~ (m <= n) PROVE FALSE
  <2>1. 1 .. n \in B OBVIOUS
  <2>2. <<1 .. n, x>> \in R BY <1>5, <1>6 DEF R, StrictSubsetOrdering
  <2>3. QED BY <1>4, <2>1, <2>2
<1>7. QED BY <1>6

(* MinOf finds it.                                                           *)
LEMMA MinIs ==
  ASSUME NEW S, S \subseteq Nat, S # {}
  PROVE MinOf(S) \in S /\ \A y \in S : MinOf(S) <= y
<1>1. \E m \in S : \A n \in S : m <= n BY Least
<1>2. QED BY <1>1 DEF MinOf

(* MaxOf finds the greatest number of a bounded set.                         *)
LEMMA MaxIs ==
  ASSUME NEW N \in Nat, NEW S, S \subseteq 0 .. N, S # {}
  PROVE MaxOf(S) \in S /\ \A y \in S : y <= MaxOf(S)
<1> DEFINE T == {N - x : x \in S}
<1>1. T \subseteq Nat /\ T # {}
  <2>1. \A x \in S : x \in Nat /\ x <= N /\ N - x \in Nat OBVIOUS
  <2>2. QED BY <2>1
<1>2. PICK m \in T : \A n \in T : m <= n BY <1>1, Least
<1>3. PICK x \in S : m = N - x OBVIOUS
<1>4. \A y \in S : y <= x
  <2>1. TAKE y \in S
  <2>2. N - y \in T OBVIOUS
  <2>3. m <= N - y BY <1>2, <2>2
  <2>4. QED BY <1>3, <2>3
<1>5. QED BY <1>4 DEF MaxOf

-----------------------------------------------------------------------------
(* The trail u begins with the assignments of t.                             *)
Begins(t, u) ==
  /\ Len(t) <= Len(u)
  /\ \A i \in 1 .. Len(t) : /\ u[i].lit = t[i].lit
                            /\ u[i].level = t[i].level /\ u[i].ulevel = t[i].ulevel

(* A trail and one that begins with it give a literal of the first the same  *)
(* value, position and levels.                                               *)
LEMMA BeginsValues ==
  ASSUME NEW t, NEW u, NEW al, NEW bl, Shape(t, al), Shape(u, bl), Begins(t, u),
         NEW l \in Literals
  PROVE /\ IsTrue(t, l) => /\ IsTrue(u, l) /\ At(u, l) = At(t, l)
                           /\ LevelOf(u, l) = LevelOf(t, l)
                           /\ UserLevelOf(u, l) = UserLevelOf(t, l)
        /\ IsFalse(t, l) => /\ IsFalse(u, l) /\ At(u, l) = At(t, l)
                            /\ LevelOf(u, l) = LevelOf(t, l)
                            /\ UserLevelOf(u, l) = UserLevelOf(t, l)
        /\ \A i \in Int : Before(t, l, i) => Before(u, l, i)
        /\ \A i \in Int : i <= Len(t) + 1 /\ Before(u, l, i) => Before(t, l, i)
        /\ IsTrue(u, l) /\ At(u, l) <= Len(t) => IsTrue(t, l)
        /\ IsFalse(u, l) /\ At(u, l) <= Len(t) => IsFalse(t, l)
<1>1. Len(t) \in Nat /\ Len(u) \in Nat /\ Len(t) <= Len(u) BY DEF Shape, Begins
<1>2. ASSUME IsTrue(t, l)
      PROVE /\ IsTrue(u, l) /\ At(u, l) = At(t, l)
            /\ LevelOf(u, l) = LevelOf(t, l) /\ UserLevelOf(u, l) = UserLevelOf(t, l)
  <2>1. At(t, l) \in 1 .. Len(t) /\ t[At(t, l)].lit = l BY <1>2, AtTrue
  <2>2. At(t, l) \in 1 .. Len(u) /\ u[At(t, l)].lit = l BY <1>1, <2>1 DEF Begins
  <2>3. At(u, l) = At(t, l) BY <2>2, AtIs
  <2>4. QED BY <2>1, <2>2, <2>3, Trues DEF Begins, LevelOf, UserLevelOf
<1>3. ASSUME IsFalse(t, l)
      PROVE /\ IsFalse(u, l) /\ At(u, l) = At(t, l)
            /\ LevelOf(u, l) = LevelOf(t, l) /\ UserLevelOf(u, l) = UserLevelOf(t, l)
  <2>1. At(t, l) \in 1 .. Len(t) /\ t[At(t, l)].lit = -l BY <1>3, AtFalse
  <2>2. At(t, l) \in 1 .. Len(u) /\ u[At(t, l)].lit = -l BY <1>1, <2>1 DEF Begins
  <2>3. At(u, l) = At(t, l) BY <2>2, AtIs, LitFacts
  <2>4. QED BY <2>1, <2>2, <2>3, Falses DEF Begins, LevelOf, UserLevelOf
<1>4. ASSUME NEW i \in Int, Before(t, l, i) PROVE Before(u, l, i)
  BY <1>1, <1>4 DEF Before, Begins
<1>5. ASSUME NEW i \in Int, i <= Len(t) + 1, Before(u, l, i) PROVE Before(t, l, i)
  BY <1>1, <1>5 DEF Before, Begins
<1>6. ASSUME IsTrue(u, l), At(u, l) <= Len(t) PROVE IsTrue(t, l)
  <2>1. At(u, l) \in 1 .. Len(t) /\ u[At(u, l)].lit = l BY <1>1, <1>6, AtTrue
  <2>2. QED BY <2>1, Trues DEF Begins
<1>7. ASSUME IsFalse(u, l), At(u, l) <= Len(t) PROVE IsFalse(t, l)
  <2>1. At(u, l) \in 1 .. Len(t) /\ u[At(u, l)].lit = -l BY <1>1, <1>7, AtFalse
  <2>2. QED BY <2>1, Falses DEF Begins
<1>8. QED BY <1>2, <1>3, <1>4, <1>5, <1>6, <1>7

(* A trail that is cut.                                                      *)
LEMMA CutTrail ==
  ASSUME NEW t, NEW al, Shape(t, al), NEW n \in 1 .. Len(t)
  PROVE LET u == SubSeq(t, 1, n)
        IN  /\ Len(u) = n /\ \A i \in 1 .. n : u[i] = t[i]
            /\ DecisionLevel(u) = t[n].level
            /\ Shape(u, al) /\ Begins(u, t)
<1> DEFINE u == SubSeq(t, 1, n)
<1>1. t \in Seq(Entry) /\ Len(t) \in Nat BY DEF Shape
<1>2. u \in Seq(Entry) /\ Len(u) = n /\ \A i \in 1 .. n : u[i] = t[i] BY <1>1
<1> HIDE DEF u
<1>3. Shape(u, al) BY <1>1, <1>2 DEF Shape
<1>4. QED BY <1>1, <1>2, <1>3 DEF u, Begins, DecisionLevel

(* cancelUntil cuts the trail before the first entry above the level.        *)
LEMMA CutIs ==
  ASSUME NEW t, NEW al, Shape(t, al), NEW d \in Nat
  PROVE \E n \in 1 .. Len(t) : /\ CancelUntil(t, d) = SubSeq(t, 1, n)
                               /\ t[n].level <= d
                               /\ \A i \in 1 .. Len(t) : t[i].level <= d <=> i <= n
<1> DEFINE S == {i \in 1 .. Len(t) : t[i].level <= d}
           Last(n) == t[n].level <= d /\ (n < Len(t) => t[n + 1].level > d)
           m == CHOOSE n \in DOMAIN t : Last(n)
<1>1. Len(t) \in Nat /\ Len(t) >= 1 /\ DOMAIN t = 1 .. Len(t) BY DEF Shape
<1>2. 1 \in S BY <1>1, EntryFacts
<1>3. S \subseteq 0 .. Len(t) OBVIOUS
<1>4. MaxOf(S) \in S /\ \A y \in S : y <= MaxOf(S) BY <1>1, <1>2, <1>3, MaxIs
<1>5. MaxOf(S) \in DOMAIN t /\ Last(MaxOf(S))
  <2>1. ASSUME MaxOf(S) < Len(t), ~(t[MaxOf(S) + 1].level > d) PROVE FALSE
    <3>1. MaxOf(S) + 1 \in 1 .. Len(t) BY <1>1, <1>4, <2>1
    <3>2. MaxOf(S) + 1 \in S BY <2>1, <3>1, EntryFacts
    <3>3. QED BY <1>4, <3>2
  <2>2. QED BY <1>1, <1>4, <2>1
<1>6. m \in DOMAIN t /\ Last(m) BY <1>5
<1>7. CancelUntil(t, d) = SubSeq(t, 1, m) BY DEF CancelUntil
<1> HIDE DEF m
<1>8. ASSUME NEW i \in 1 .. Len(t) PROVE t[i].level <= d <=> i <= m
  <2>1. CASE i <= m
    <3>1. t[i].level <= t[m].level BY <1>1, <1>6, <2>1, EntryFacts DEF Shape
    <3>2. QED BY <1>1, <1>6, <2>1, <3>1, EntryFacts
  <2>2. CASE ~(i <= m)
    <3>1. m + 1 \in 1 .. Len(t) /\ t[m + 1].level > d BY <1>1, <1>6, <2>2
    <3>2. t[m + 1].level <= t[i].level
      <4>1. i = m + 1 \/ m + 1 < i BY <1>1, <1>6, <2>2
      <4>2. QED BY <3>1, <4>1, EntryFacts DEF Shape
    <3>3. QED BY <2>2, <3>1, <3>2, EntryFacts
  <2>3. QED BY <2>1, <2>2
<1>9. QED BY <1>1, <1>6, <1>7, <1>8

(* The trail that cancelUntil leaves.                                        *)
LEMMA CancelFacts ==
  ASSUME NEW t, NEW al, Shape(t, al), NEW d \in Nat
  PROVE LET u == CancelUntil(t, d)
        IN  /\ Shape(u, al) /\ Begins(u, t) /\ DecisionLevel(u) <= d
            /\ Len(u) \in 1 .. Len(t)
            /\ \A i \in 1 .. Len(u) : u[i] = t[i]
            /\ \A i \in 1 .. Len(t) : t[i].level <= d <=> i <= Len(u)
            /\ DecisionLevel(t) <= d => u = t
            /\ Len(u) = Len(t) => u = t
            /\ (\E i \in 1 .. Len(t) : t[i].level = d) => DecisionLevel(u) = d
<1> DEFINE u == CancelUntil(t, d)
<1>1. PICK n \in 1 .. Len(t) : /\ CancelUntil(t, d) = SubSeq(t, 1, n)
                               /\ t[n].level <= d
                               /\ \A i \in 1 .. Len(t) : t[i].level <= d <=> i <= n
  BY CutIs
<1>2. u = SubSeq(t, 1, n) BY <1>1
<1> HIDE DEF u
<1>3. /\ Len(u) = n /\ \A i \in 1 .. n : u[i] = t[i]
      /\ DecisionLevel(u) = t[n].level /\ Shape(u, al) /\ Begins(u, t)
  BY <1>2, CutTrail
<1>4. Len(t) \in Nat /\ t \in Seq(Entry) BY DEF Shape
<1>5. n = Len(t) => u = t BY <1>2, <1>4
<1>6. ASSUME DecisionLevel(t) <= d PROVE n = Len(t)
  <2>1. Len(t) \in 1 .. Len(t) /\ t[Len(t)].level <= d BY <1>4, <1>6 DEF DecisionLevel, Shape
  <2>2. QED BY <1>1, <2>1
<1>7. ASSUME NEW i \in 1 .. Len(t), t[i].level = d PROVE t[n].level = d
  <2>1. i <= n /\ (i = n \/ i < n) BY <1>1, <1>4, <1>7
  <2>2. t[i].level <= t[n].level BY <2>1, EntryFacts DEF Shape
  <2>3. QED BY <1>1, <1>7, <2>2, EntryFacts
<1>8. QED BY <1>1, <1>3, <1>4, <1>5, <1>6, <1>7 DEF u

(* What an enqueued literal does to the trail.                               *)
LEMMA EnqueueFacts ==
  ASSUME NEW t, NEW al, al = assertionLevel, Shape(t, al), al \in Nat,
         NEW l \in AtomLits, IsUndef(t, l), NEW from \in Int, from >= -1,
         NEW d \in Nat, DecisionLevel(t) <= d
  PROVE LET u == Enqueue(t, l, from, d)
        IN  /\ Shape(u, al) /\ Begins(t, u) /\ DecisionLevel(u) = d
            /\ Len(u) = Len(t) + 1 /\ \A i \in 1 .. Len(t) : u[i] = t[i]
            /\ u[Len(t) + 1].lit = l /\ u[Len(t) + 1].reason = from
            /\ u[Len(t) + 1].level = d /\ u[Len(t) + 1].ulevel = al
<1> DEFINE e == [lit |-> l, reason |-> from, level |-> d, ulevel |-> al]
           u == Append(t, e)
<1>1. t \in Seq(Entry) /\ Len(t) \in Nat /\ Len(t) >= 1 BY DEF Shape
<1>2. l \in Literals BY AtomLitFacts
<1>3. e \in Entry BY <1>2 DEF Entry
<1>4. e.lit = l /\ e.reason = from /\ e.level = d /\ e.ulevel = al OBVIOUS
<1>5. Enqueue(t, l, from, d) = u BY DEF Enqueue
<1> HIDE DEF e
<1>6. /\ u \in Seq(Entry) /\ Len(u) = Len(t) + 1 /\ \A i \in 1 .. Len(t) : u[i] = t[i]
      /\ u[Len(t) + 1] = e
  BY <1>1, <1>3
<1> HIDE DEF u
<1>7. \A i \in 1 .. Len(t) : /\ Var(t[i].lit) # Var(l) /\ t[i].level <= d /\ t[i].ulevel <= al
  <2>1. TAKE i \in 1 .. Len(t)
  <2>2. t[i].level \in Nat /\ t[i].level <= DecisionLevel(t) /\ DecisionLevel(t) \in Nat
        /\ t[i].ulevel <= al
    BY EntryFacts
  <2>3. QED BY <1>2, <2>2, Undefined
<1>8. ASSUME NEW i \in 1 .. Len(u)
      PROVE /\ i > 1 => u[i].lit \in AtomLits
            /\ u[i].reason >= Lazy
            /\ u[i].ulevel <= al /\ (u[i].level > 0 => u[i].ulevel = al)
  <2>1. i \in 1 .. Len(t) \/ i = Len(t) + 1 BY <1>1, <1>6
  <2>2. CASE i \in 1 .. Len(t) BY <1>6, <2>2 DEF Shape
  <2>3. CASE i = Len(t) + 1 BY <1>4, <1>6, <2>3 DEF Lazy
  <2>4. QED BY <2>1, <2>2, <2>3
<1>9. ASSUME NEW i \in 1 .. Len(u), NEW j \in 1 .. Len(u), i < j
      PROVE /\ Var(u[i].lit) # Var(u[j].lit)
            /\ u[i].level <= u[j].level /\ u[i].ulevel <= u[j].ulevel
  <2>1. i \in 1 .. Len(t) /\ (j \in 1 .. Len(t) \/ j = Len(t) + 1) BY <1>1, <1>6, <1>9
  <2>2. CASE j \in 1 .. Len(t) BY <1>6, <1>9, <2>1, <2>2 DEF Shape
  <2>3. CASE j = Len(t) + 1 BY <1>4, <1>6, <1>7, <2>1, <2>3
  <2>4. QED BY <2>1, <2>2, <2>3
<1>10. Shape(u, al)
  <2>1. u[1] = t[1] /\ Len(u) >= 1 BY <1>1, <1>6
  <2>2. QED BY <1>6, <1>8, <1>9, <2>1 DEF Shape
<1>11. Begins(t, u) BY <1>1, <1>6 DEF Begins
<1>12. DecisionLevel(u) = d BY <1>4, <1>6 DEF DecisionLevel
<1>13. QED BY <1>4, <1>5, <1>6, <1>10, <1>11, <1>12

(* The same assignments with other reasons.                                  *)
Same(t, u) ==
  /\ u \in Seq(Entry) /\ Len(u) = Len(t)
  /\ \A i \in 1 .. Len(t) : /\ u[i].lit = t[i].lit
                            /\ u[i].level = t[i].level /\ u[i].ulevel = t[i].ulevel

(* Other reasons change no value.                                            *)
LEMMA SameFacts ==
  ASSUME NEW t, NEW al, Shape(t, al), NEW u, Same(t, u),
         \A i \in 1 .. Len(t) : u[i].reason >= -1 /\ (i = 1 => u[i].reason = 0)
  PROVE /\ Shape(u, al) /\ Begins(t, u) /\ Begins(u, t)
        /\ DecisionLevel(u) = DecisionLevel(t)
<1>1. Len(t) \in Nat /\ Len(t) >= 1 BY DEF Shape
<1>2. Shape(u, al) BY <1>1 DEF Shape, Same, Undef, Lazy
<1>3. QED BY <1>1, <1>2 DEF Same, Begins, DecisionLevel

(* An entry with another reason.                                             *)
LEMMA EntryReason ==
  ASSUME NEW x \in Entry, NEW r \in Int
  PROVE LET y == [x EXCEPT !.reason = r]
        IN  /\ y \in Entry /\ y.lit = x.lit /\ y.level = x.level /\ y.ulevel = x.ulevel
            /\ y.reason = r
BY DEF Entry

(* The trail when the reasons of R are gone.                                 *)
LEMMA UnlockFacts ==
  ASSUME NEW t, NEW al, Shape(t, al), NEW R
  PROVE LET u == Unlock(t, R)
        IN  /\ Shape(u, al) /\ Begins(t, u) /\ Begins(u, t)
            /\ DecisionLevel(u) = DecisionLevel(t) /\ Len(u) = Len(t)
            /\ \A i \in 1 .. Len(t) : /\ u[i].lit = t[i].lit /\ u[i].level = t[i].level
                                      /\ u[i].ulevel = t[i].ulevel
                                      /\ u[i].reason = IF t[i].reason \in R THEN Undef
                                                                            ELSE t[i].reason
<1> DEFINE u == Unlock(t, R)
           e(i) == IF t[i].reason \in R THEN [t[i] EXCEPT !.reason = Undef] ELSE t[i]
<1>1. t \in Seq(Entry) /\ Len(t) \in Nat /\ DOMAIN t = 1 .. Len(t) /\ Len(t) >= 1
  BY DEF Shape
<1>2. \A i \in 1 .. Len(t) : /\ e(i) \in Entry
                             /\ e(i).lit = t[i].lit /\ e(i).level = t[i].level
                             /\ e(i).ulevel = t[i].ulevel
                             /\ e(i).reason = IF t[i].reason \in R THEN Undef ELSE t[i].reason
  <2>1. TAKE i \in 1 .. Len(t)
  <2>2. t[i] \in Entry /\ Undef \in Int BY <1>1 DEF Undef
  <2>3. QED BY <2>2, EntryReason
<1>3. u = [i \in 1 .. Len(t) |-> e(i)] BY <1>1 DEF Unlock
<1> HIDE DEF u, e
<1>4. u \in Seq(Entry) /\ Len(u) = Len(t) /\ \A i \in 1 .. Len(t) : u[i] = e(i)
  <2>1. u \in [1 .. Len(t) -> Entry] BY <1>2, <1>3
  <2>2. u \in Seq(Entry) /\ Len(u) = Len(t) BY <1>1, <2>1
  <2>3. QED BY <1>3, <2>2
<1>5. Same(t, u) BY <1>2, <1>4 DEF Same
<1>6. \A i \in 1 .. Len(t) : u[i].reason >= -1 /\ (i = 1 => u[i].reason = 0)
  <2>1. TAKE i \in 1 .. Len(t)
  <2>2. t[i].reason >= -1 /\ (i = 1 => t[i].reason = 0) BY EntryFacts
  <2>3. QED BY <1>2, <1>4, <2>2 DEF Undef
<1>7. QED BY <1>2, <1>4, <1>5, <1>6, SameFacts DEF u

(* The trail when one entry gets a reason.                                   *)
LEMMA NewReasonFacts ==
  ASSUME NEW t, NEW al, Shape(t, al), NEW k \in 2 .. Len(t), NEW r \in Nat
  PROVE LET u == [t EXCEPT ![k].reason = r]
        IN  /\ Shape(u, al) /\ Begins(t, u) /\ Begins(u, t)
            /\ DecisionLevel(u) = DecisionLevel(t) /\ Len(u) = Len(t)
            /\ \A i \in 1 .. Len(t) : /\ u[i].lit = t[i].lit /\ u[i].level = t[i].level
                                      /\ u[i].ulevel = t[i].ulevel
                                      /\ u[i].reason = IF i = k THEN r ELSE t[i].reason
<1> DEFINE e == [t[k] EXCEPT !.reason = r]
           u == [t EXCEPT ![k] = e]
<1>1. t \in Seq(Entry) /\ Len(t) \in Nat /\ DOMAIN t = 1 .. Len(t) /\ Len(t) >= 1
  BY DEF Shape
<1>2. /\ e \in Entry /\ e.lit = t[k].lit /\ e.level = t[k].level /\ e.ulevel = t[k].ulevel
      /\ e.reason = r
  <2>1. t[k] \in Entry /\ r \in Int BY <1>1
  <2>2. QED BY <2>1, EntryReason
<1>3. [t EXCEPT ![k].reason = r] = u OBVIOUS
<1> HIDE DEF e
<1>4. /\ u \in Seq(Entry) /\ Len(u) = Len(t)
      /\ \A i \in 1 .. Len(t) : u[i] = IF i = k THEN e ELSE t[i]
  BY <1>1, <1>2
<1> HIDE DEF u
<1>5. \A i \in 1 .. Len(t) : /\ u[i].lit = t[i].lit /\ u[i].level = t[i].level
                              /\ u[i].ulevel = t[i].ulevel
                              /\ u[i].reason = IF i = k THEN r ELSE t[i].reason
  BY <1>2, <1>4
<1>6. Same(t, u) BY <1>4, <1>5 DEF Same
<1>7. \A i \in 1 .. Len(t) : u[i].reason >= -1 /\ (i = 1 => u[i].reason = 0)
  <2>1. TAKE i \in 1 .. Len(t)
  <2>2. t[i].reason >= -1 /\ (i = 1 => t[i].reason = 0) BY EntryFacts
  <2>3. QED BY <1>5, <2>2
<1>8. QED BY <1>3, <1>4, <1>5, <1>6, <1>7, SameFacts

-----------------------------------------------------------------------------
(* More variables exist.                                                     *)
Grown(int, int2) ==
  \A x \in Atoms : int[x] >= 0 => int2[x] = int[x]

(* The variables of a trail that is cut exist.                               *)
LEMMA KnownCut ==
  ASSUME NEW t, NEW u, NEW al, Shape(t, al), NEW bl, Shape(u, bl), Begins(u, t),
         NEW int, Known(t, int)
  PROVE Known(u, int)
BY DEF Known, Begins, Shape

(* They do when others are created.                                          *)
LEMMA KnownGrown ==
  ASSUME NEW t, NEW al, Shape(t, al), NEW int, NEW int2, Grown(int, int2), Known(t, int)
  PROVE Known(t, int2)
<1>1. ASSUME NEW i \in 2 .. Len(t) PROVE int2[Var(t[i].lit)] \in 0 .. t[i].ulevel
  <2>1. i \in 1 .. Len(t) /\ i > 1 BY DEF Shape
  <2>2. Var(t[i].lit) \in Atoms BY <2>1, EntryFacts, AtomLitFacts
  <2>3. int[Var(t[i].lit)] \in 0 .. t[i].ulevel BY DEF Known
  <2>4. QED BY <2>2, <2>3 DEF Grown
<1>2. QED BY <1>1 DEF Known

(* They do when a literal is enqueued whose variable exists.                 *)
LEMMA KnownEnqueued ==
  ASSUME NEW t, NEW u, NEW al \in Nat, Shape(t, al), NEW int, Known(t, int),
         Len(u) = Len(t) + 1, \A i \in 1 .. Len(t) : u[i] = t[i],
         u[Len(t) + 1].ulevel = al, int[Var(u[Len(t) + 1].lit)] \in 0 .. al
  PROVE Known(u, int)
<1>1. Len(t) \in Nat BY DEF Shape
<1>2. ASSUME NEW i \in 2 .. Len(u) PROVE int[Var(u[i].lit)] \in 0 .. u[i].ulevel
  <2>1. i \in 2 .. Len(t) \/ i = Len(t) + 1 BY <1>1
  <2>2. QED BY <1>1, <2>1 DEF Known
<1>3. QED BY <1>2 DEF Known

(* What is assigned at the bottom stays entailed when the trail is cut,      *)
LEMMA ValuedCut ==
  ASSUME NEW t, NEW u, NEW al, Shape(t, al), NEW bl, Shape(u, bl), Begins(u, t),
         NEW s, Valued(t, s)
  PROVE Valued(u, s)
<1>1. Len(t) \in Nat /\ Len(u) \in Nat /\ Len(u) <= Len(t) BY DEF Shape, Begins
<1>2. ASSUME NEW i \in 2 .. Len(u), u[i].level = 0 PROVE Ent(s, u[i].ulevel, {u[i].lit})
  <2>1. /\ i \in 2 .. Len(t) /\ u[i].level = t[i].level /\ u[i].ulevel = t[i].ulevel
        /\ u[i].lit = t[i].lit
    BY <1>1 DEF Begins
  <2>2. QED BY <1>2, <2>1 DEF Valued
<1>3. QED BY <1>2 DEF Valued

(* when clauses are asserted,                                                *)
LEMMA ValuedMore ==
  ASSUME NEW t, NEW al, Shape(t, al), NEW s, NEW s2, Valued(t, s),
         \A k \in 1 .. al + 1 : s[k] \subseteq s2[k], al \in Nat
  PROVE Valued(t, s2)
<1>1. ASSUME NEW i \in 2 .. Len(t), t[i].level = 0 PROVE Ent(s2, t[i].ulevel, {t[i].lit})
  <2>1. i \in 1 .. Len(t) BY DEF Shape
  <2>2. t[i].ulevel \in Nat /\ t[i].ulevel <= al BY <2>1, EntryFacts
  <2>3. Ent(s, t[i].ulevel, {t[i].lit}) BY <1>1 DEF Valued
  <2>4. \A k \in 1 .. t[i].ulevel + 1 : s[k] \subseteq s2[k] BY <2>2
  <2>5. QED BY <2>2, <2>3, <2>4, EntMore
<1>2. QED BY <1>1 DEF Valued

(* and when an entailed literal is enqueued.                                 *)
LEMMA ValuedEnqueued ==
  ASSUME NEW t, NEW u, NEW al \in Nat, Shape(t, al), NEW s, Valued(t, s),
         Len(u) = Len(t) + 1, \A i \in 1 .. Len(t) : u[i] = t[i],
         u[Len(t) + 1].ulevel = al,
         u[Len(t) + 1].level = 0 => Ent(s, al, {u[Len(t) + 1].lit})
  PROVE Valued(u, s)
<1>1. Len(t) \in Nat BY DEF Shape
<1>2. ASSUME NEW i \in 2 .. Len(u), u[i].level = 0 PROVE Ent(s, u[i].ulevel, {u[i].lit})
  <2>1. i \in 2 .. Len(t) \/ i = Len(t) + 1 BY <1>1
  <2>2. CASE i \in 2 .. Len(t)
    <3>1. u[i] = t[i] BY <2>2
    <3>2. QED BY <1>2, <2>2, <3>1 DEF Valued
  <2>3. CASE i = Len(t) + 1 BY <1>2, <2>3
  <2>4. QED BY <2>1, <2>2, <2>3
<1>3. QED BY <1>2 DEF Valued

(* The reasons hold on when the trail is cut and their clauses are kept.     *)
LEMMA ReasonsKept ==
  ASSUME NEW t, NEW u, NEW al, Shape(t, al), NEW bl, Shape(u, bl), Begins(u, t),
         NEW db, NEW e, Reasons(t, db),
         \A i \in 1 .. Len(u) : u[i].reason > 0 =>
            /\ u[i].reason = t[i].reason
            /\ u[i].reason \in DOMAIN e /\ e[u[i].reason] = db[u[i].reason]
  PROVE Reasons(u, e)
<1>1. Len(t) \in Nat /\ Len(u) \in Nat /\ Len(u) <= Len(t) BY DEF Shape, Begins
<1>2. ASSUME NEW i \in 1 .. Len(u), u[i].reason > 0
      PROVE /\ u[i].reason \in DOMAIN e
            /\ e[u[i].reason].w[1] = u[i].lit
            /\ \A l \in Lits(e[u[i].reason]) \ {u[i].lit} : Before(u, l, i)
  <2>1. i \in 1 .. Len(t) /\ u[i].lit = t[i].lit BY <1>1 DEF Begins
  <2>2. /\ u[i].reason = t[i].reason /\ u[i].reason \in DOMAIN e
        /\ e[u[i].reason] = db[t[i].reason]
    BY <1>2
  <2>3. /\ db[t[i].reason].w[1] = t[i].lit
        /\ \A l \in Lits(db[t[i].reason]) \ {t[i].lit} : Before(t, l, i)
    BY <1>2, <2>1, <2>2 DEF Reasons
  <2>4. ASSUME NEW l, Before(t, l, i) PROVE Before(u, l, i)
    <3>1. PICK j \in 1 .. Len(t) : j < i /\ t[j].lit = -l BY <2>4 DEF Before
    <3>2. j \in 1 .. Len(u) /\ u[j].lit = -l BY <1>1, <3>1 DEF Begins
    <3>3. QED BY <3>1, <3>2 DEF Before
  <2>5. QED BY <2>1, <2>2, <2>3, <2>4
<1>3. QED BY <1>2 DEF Reasons

(* The reasons on the trail t are the same clauses in e.                     *)
KeepsReasons(t, db, e) ==
  \A i \in 1 .. Len(t) : t[i].reason > 0 =>
     t[i].reason \in DOMAIN e /\ e[t[i].reason] = db[t[i].reason]

(* A clause from which l can be enqueued.                                    *)
Implies(t, e, from, l) ==
  from > 0 => /\ from \in DOMAIN e /\ e[from].w[1] = l
              /\ \A k \in Lits(e[from]) \ {l} : IsFalse(t, k)

(* They do when a literal is enqueued with a clause that implies it.         *)
LEMMA ReasonsEnqueued ==
  ASSUME NEW t, NEW u, NEW al, Shape(t, al), NEW db, NEW e, Reasons(t, db),
         Len(u) = Len(t) + 1, \A i \in 1 .. Len(t) : u[i] = t[i],
         KeepsReasons(t, db, e), Implies(t, e, u[Len(t) + 1].reason, u[Len(t) + 1].lit)
  PROVE Reasons(u, e)
<1>1. Len(t) \in Nat BY DEF Shape
<1>2. ASSUME NEW i \in 1 .. Len(u), u[i].reason > 0
      PROVE /\ u[i].reason \in DOMAIN e
            /\ e[u[i].reason].w[1] = u[i].lit
            /\ \A l \in Lits(e[u[i].reason]) \ {u[i].lit} : Before(u, l, i)
  <2>1. i \in 1 .. Len(t) \/ i = Len(t) + 1 BY <1>1
  <2>2. CASE i \in 1 .. Len(t)
    <3>1. u[i] = t[i] BY <2>2
    <3>2. e[t[i].reason] = db[t[i].reason] /\ t[i].reason \in DOMAIN e
      BY <1>2, <2>2, <3>1 DEF KeepsReasons
    <3>3. /\ db[t[i].reason].w[1] = t[i].lit
          /\ \A l \in Lits(db[t[i].reason]) \ {t[i].lit} : Before(t, l, i)
      BY <1>2, <2>2, <3>1 DEF Reasons
    <3>4. ASSUME NEW l, Before(t, l, i) PROVE Before(u, l, i)
      BY <1>1, <3>4 DEF Before
    <3>5. QED BY <3>1, <3>2, <3>3, <3>4
  <2>3. CASE i = Len(t) + 1
    <3>1. ASSUME NEW l, IsFalse(t, l) PROVE Before(u, l, i)
      <4>1. PICK j \in 1 .. Len(t) : t[j].lit = -l BY <3>1, Falses
      <4>2. QED BY <1>1, <2>3, <4>1 DEF Before
    <3>2. QED BY <1>2, <2>3, <3>1 DEF Implies
  <2>4. QED BY <2>1, <2>2, <2>3
<1>3. QED BY <1>2 DEF Reasons

-----------------------------------------------------------------------------
(* A sound clause.                                                           *)
LEMMA SoundFacts ==
  ASSUME NEW c, NEW s, NEW int, NEW al \in Nat, Sound(c, s, int, al)
  PROVE /\ c.w[1] \in ClauseLits /\ c.w[2] \in ClauseLits /\ c.rest \subseteq ClauseLits
        /\ Lits(c) \subseteq ClauseLits /\ Lits(c) \subseteq Literals
        /\ c.w[1] \in Lits(c) /\ c.w[2] \in Lits(c) /\ c.rest \subseteq Lits(c)
        /\ c.level \in Nat /\ c.level <= al /\ c.removable \in BOOLEAN
<1>1. /\ c.w \in Seq(ClauseLits) /\ c.rest \subseteq ClauseLits /\ c.level \in Nat
      /\ Len(c.w) = 2 /\ c.level <= al /\ c.removable \in BOOLEAN
  BY DEF Sound, ClauseType
<1>2. c.w[1] \in ClauseLits /\ c.w[2] \in ClauseLits BY <1>1
<1>3. QED BY <1>1, <1>2, LiteralsAre DEF Lits

(* It stays sound at other levels, if they keep what it rests on.            *)
LEMMA SoundMore ==
  ASSUME NEW c, NEW s, NEW int, NEW al \in Nat, Sound(c, s, int, al),
         NEW s2, NEW int2, NEW al2 \in Nat, c.level <= al2,
         \A k \in 1 .. c.level + 1 : s[k] \subseteq s2[k],
         \A x \in Atoms : int[x] \in 0 .. c.level => int2[x] = int[x]
  PROVE Sound(c, s2, int2, al2)
<1>1. c.level \in Nat /\ Lits(c) \subseteq ClauseLits BY SoundFacts
<1>2. Ent(s2, c.level, Lits(c))
  <2>1. Ent(s, c.level, Lits(c)) BY DEF Sound
  <2>2. QED BY <1>1, <2>1, EntMore
<1>3. ASSUME NEW l \in Lits(c) \ {-VarTrue} PROVE int2[Var(l)] \in 0 .. c.level
  <2>1. l \in AtomLits BY <1>1 DEF ClauseLits
  <2>2. Var(l) \in Atoms BY <2>1, AtomLitFacts
  <2>3. QED BY <2>2 DEF Sound
<1>4. QED BY <1>2, <1>3 DEF Sound

(* So does the arena, when clauses are asserted and variables created.       *)
LEMMA DbMore ==
  ASSUME NEW db, NEW s, NEW int, NEW al \in Nat, Db(db, s, int, al),
         NEW s2, NEW int2,
         \A k \in 1 .. al + 1 : s[k] \subseteq s2[k], Grown(int, int2)
  PROVE Db(db, s2, int2, al)
<1>1. ASSUME NEW r \in DOMAIN db PROVE Sound(db[r], s2, int2, al)
  <2>1. Sound(db[r], s, int, al) BY DEF Db
  <2>2. db[r].level \in Nat /\ db[r].level <= al BY <2>1, SoundFacts
  <2>3. \A k \in 1 .. db[r].level + 1 : s[k] \subseteq s2[k] BY <2>2
  <2>4. \A x \in Atoms : int[x] \in 0 .. db[r].level => int2[x] = int[x] BY DEF Grown
  <2>5. QED BY <2>1, <2>2, <2>3, <2>4, SoundMore
<1>2. QED BY <1>1 DEF Db

(* A new reference is new.                                                   *)
LEMMA FreshIs ==
  ASSUME NEW db, IsFiniteSet(DOMAIN db)
  PROVE FreshRef(db) \in Nat /\ FreshRef(db) > 0 /\ FreshRef(db) \notin DOMAIN db
<1> DEFINE N == Cardinality(DOMAIN db)
           S == {n \in 1 .. N + 1 : n \notin DOMAIN db}
<1>1. N \in Nat BY FS_CardinalityType
<1>2. S # {}
  <2>1. ASSUME S = {} PROVE FALSE
    <3>1. 1 .. N + 1 \subseteq DOMAIN db BY <2>1
    <3>2. Cardinality(1 .. N + 1) <= N BY <3>1, FS_Subset
    <3>3. Cardinality(1 .. N + 1) = N + 1 BY <1>1, FS_Interval
    <3>4. QED BY <1>1, <3>2, <3>3
  <2>2. QED BY <2>1
<1>3. S \subseteq Nat BY <1>1
<1>4. MinOf(S) \in S BY <1>2, <1>3, MinIs
<1>5. QED BY <1>1, <1>4 DEF FreshRef

(* The arena with one clause more.                                           *)
LEMMA AttachFacts ==
  ASSUME NEW db, IsFiniteSet(DOMAIN db), NEW c
  PROVE LET e == Attach(db, c)
            f == FreshRef(db)
        IN  /\ DOMAIN e = DOMAIN db \cup {f} /\ e[f] = c /\ f \notin DOMAIN db
            /\ f \in Nat /\ f > 0
            /\ \A r \in DOMAIN db : r \in DOMAIN e /\ e[r] = db[r]
BY FreshIs DEF Attach

(* A sound clause can be attached,                                           *)
LEMMA DbAttach ==
  ASSUME NEW db, NEW s, NEW int, NEW al, Db(db, s, int, al), NEW c, Sound(c, s, int, al)
  PROVE Db(Attach(db, c), s, int, al)
<1> DEFINE e == Attach(db, c)
           f == FreshRef(db)
<1>1. IsFiniteSet(DOMAIN db) /\ DOMAIN db \subseteq Nat \ {0} BY DEF Db
<1>2. /\ DOMAIN e = DOMAIN db \cup {f} /\ e[f] = c /\ f \in Nat /\ f > 0
      /\ \A r \in DOMAIN db : e[r] = db[r]
  BY <1>1, AttachFacts
<1> HIDE DEF e, f
<1>3. IsFiniteSet(DOMAIN e) BY <1>1, <1>2, FS_AddElement
<1>4. DOMAIN e \subseteq Nat \ {0} BY <1>1, <1>2
<1>5. \A r \in DOMAIN e : Sound(e[r], s, int, al) BY <1>2 DEF Db
<1>6. QED BY <1>3, <1>4, <1>5 DEF Db, e

(* and any can be removed.                                                   *)
LEMMA DbDetach ==
  ASSUME NEW db, NEW s, NEW int, NEW al, Db(db, s, int, al), NEW R
  PROVE Db(Detach(db, R), s, int, al)
<1>1. DOMAIN Detach(db, R) = DOMAIN db \ R BY DEF Detach
<1>2. IsFiniteSet(DOMAIN Detach(db, R)) BY <1>1, FS_Subset DEF Db
<1>3. \A r \in DOMAIN Detach(db, R) : Detach(db, R)[r] = db[r] BY DEF Detach
<1>4. QED BY <1>1, <1>2, <1>3 DEF Db

-----------------------------------------------------------------------------
(* A queued lemma.                                                           *)
LEMMA QueueFacts ==
  ASSUME NEW L \in LemmaType
  PROVE /\ L.w \in Seq(AtomLits) /\ L.rest \subseteq AtomLits /\ L.sorted \in BOOLEAN
        /\ L.removable \in BOOLEAN /\ L.dangling \in BOOLEAN /\ LemmaLits(L) \subseteq AtomLits
        /\ Len(L.w) \in Nat /\ DOMAIN L.w = 1 .. Len(L.w)
        /\ L.w = <<>> => LemmaLits(L) = L.rest
<1>1. /\ L.w \in Seq(AtomLits) /\ L.rest \subseteq AtomLits /\ L.sorted \in BOOLEAN
      /\ L.removable \in BOOLEAN /\ L.dangling \in BOOLEAN
  BY DEF LemmaType
<1>2. QED BY <1>1 DEF LemmaLits

(* The queue is as good when variables are created.                          *)
LEMMA QueueGrown ==
  ASSUME NEW q, NEW s, NEW int, NEW al \in Nat, Queue(q, s, int, al), NEW int2,
         Grown(int, int2)
  PROVE Queue(q, s, int2, al)
<1>1. ASSUME NEW k \in 1 .. Len(q), ~q[k].dangling, NEW l \in LemmaLits(q[k])
      PROVE int2[Var(l)] \in 0 .. al
  <2>1. q[k] \in LemmaType BY DEF Queue
  <2>2. l \in AtomLits BY <2>1, QueueFacts
  <2>3. Var(l) \in Atoms BY <2>2, AtomLitFacts
  <2>4. int[Var(l)] \in 0 .. al BY <1>1 DEF Queue
  <2>5. QED BY <2>3, <2>4 DEF Grown
<1>2. QED BY <1>1 DEF Queue

(* It is as good when clauses are asserted and when a level is pushed.       *)
LEMMA QueueRicher ==
  ASSUME NEW q, NEW s, NEW int, NEW al \in Nat, Queue(q, s, int, al), NEW s2,
         s[1] \subseteq s2[1], NEW al2 \in Nat, al <= al2
  PROVE Queue(q, s2, int, al2)
<1>1. ASSUME NEW k \in 1 .. Len(q), ~q[k].dangling, NEW l \in LemmaLits(q[k])
      PROVE int[Var(l)] \in 0 .. al2
  <2>1. int[Var(l)] \in 0 .. al BY <1>1 DEF Queue
  <2>2. QED BY <2>1
<1>2. ASSUME NEW k \in 1 .. Len(q) PROVE Ent(s2, 0, LemmaLits(q[k]))
  <2>1. PICK z \in Int : z = 0 OBVIOUS
  <2>2. \A i \in 1 .. z + 1 : s[i] \subseteq s2[i] BY <2>1
  <2>3. Ent(s, z, LemmaLits(q[k])) BY <2>1 DEF Queue
  <2>4. Ent(s2, z, LemmaLits(q[k])) BY <2>2, <2>3, EntMore
  <2>5. QED BY <2>1, <2>4
<1>3. QED BY <1>1, <1>2 DEF Queue

(* The queue after a pop that leaves the user level n.                       *)
Marked(q, n) ==
  [i \in DOMAIN q |-> [q[i] EXCEPT !.dangling =
                          @ \/ \E l \in LemmaLits(q[i]) : intro[Var(l)] > n]]

(* It has the same lemmas; those that do not dangle name no removed variable.*)
LEMMA MarkedFacts ==
  ASSUME NEW q \in Seq(LemmaType), NEW n
  PROVE LET p == Marked(q, n)
        IN  /\ p \in Seq(LemmaType) /\ Len(p) = Len(q)
            /\ \A k \in 1 .. Len(q) :
                 /\ p[k].w = q[k].w /\ p[k].rest = q[k].rest /\ p[k].sorted = q[k].sorted
                 /\ LemmaLits(p[k]) = LemmaLits(q[k])
                 /\ ~p[k].dangling => /\ ~q[k].dangling
                                      /\ \A l \in LemmaLits(q[k]) : ~(intro[Var(l)] > n)
<1> DEFINE p == Marked(q, n)
           mark(k) == q[k].dangling \/ \E l \in LemmaLits(q[k]) : intro[Var(l)] > n
<1>1. DOMAIN q = 1 .. Len(q) /\ Len(q) \in Nat OBVIOUS
<1>2. \A k \in 1 .. Len(q) : p[k] = [q[k] EXCEPT !.dangling = mark(k)]
  BY <1>1 DEF Marked
<1>3. DOMAIN p = 1 .. Len(q) BY <1>1 DEF Marked
<1>4. p = [k \in 1 .. Len(q) |-> p[k]] BY <1>1, <1>3 DEF Marked
<1> HIDE DEF p
<1>5. ASSUME NEW k \in 1 .. Len(q)
      PROVE /\ p[k] \in LemmaType
            /\ p[k].w = q[k].w /\ p[k].rest = q[k].rest /\ p[k].sorted = q[k].sorted
            /\ ~p[k].dangling => ~mark(k)
  <2>1. q[k] \in LemmaType OBVIOUS
  <2>2. PICK m : m = mark(k) OBVIOUS
  <2>3. mark(k) \in BOOLEAN
    <3>1. q[k].dangling \in BOOLEAN BY <2>1, QueueFacts
    <3>2. QED BY <3>1
  <2> HIDE DEF mark
  <2>4. p[k] = [q[k] EXCEPT !.dangling = m] /\ m \in BOOLEAN BY <1>2, <2>2, <2>3
  <2>5. /\ p[k] \in LemmaType /\ p[k].dangling = m
        /\ p[k].w = q[k].w /\ p[k].rest = q[k].rest /\ p[k].sorted = q[k].sorted
    BY <2>1, <2>4 DEF LemmaType
  <2>6. QED BY <2>2, <2>5
<1>6. p \in [1 .. Len(q) -> LemmaType] BY <1>4, <1>5
<1>7. p \in Seq(LemmaType) /\ Len(p) = Len(q) BY <1>1, <1>6
<1>8. \A k \in 1 .. Len(q) : LemmaLits(p[k]) = LemmaLits(q[k]) BY <1>5 DEF LemmaLits
<1>9. QED BY <1>5, <1>7, <1>8 DEF p

(* What was not sorted yet needs nothing of the trail.                       *)
LEMMA FreshIsReady ==
  ASSUME NEW q, Fresh(q), NEW t, NEW b, NEW c
  PROVE ReadyQueue(q, t, b, c)
BY DEF Fresh, ReadyQueue

-----------------------------------------------------------------------------
(* The order lemma_lt.                                                       *)
Kind(t, l) == IF IsUndef(t, l) THEN 0 ELSE IF IsTrue(t, l) THEN 1 ELSE 2

(* The order, by the kind of the literals.                                   *)
LEMMA PrecedesIs ==
  ASSUME NEW t, NEW x, NEW y
  PROVE Precedes(t, x, y) <=>
          \/ Kind(t, x) < Kind(t, y)
          \/ Kind(t, x) = Kind(t, y) /\ Kind(t, x) = 0 /\ x < y
          \/ Kind(t, x) = Kind(t, y) /\ Kind(t, x) > 0 /\ At(t, x) > At(t, y)
BY DEF Precedes, Kind

(* The kinds are the values.                                                 *)
LEMMA KindFacts ==
  ASSUME NEW t, NEW al, Shape(t, al), NEW l \in Literals
  PROVE /\ Kind(t, l) \in 0 .. 2 /\ At(t, l) \in Nat
        /\ Kind(t, l) = 2 <=> IsFalse(t, l)
        /\ Kind(t, l) = 1 <=> IsTrue(t, l)
        /\ Kind(t, l) = 0 <=> IsUndef(t, l)
BY Undefined DEF Kind

(* Of two literals one comes first.                                          *)
LEMMA PrecedesTotal ==
  ASSUME NEW t, NEW al, Shape(t, al), NEW x \in Literals, NEW y \in Literals, x # y
  PROVE Precedes(t, x, y) \/ Precedes(t, y, x)
<1>1. Kind(t, x) \in 0 .. 2 /\ Kind(t, y) \in 0 .. 2 /\ At(t, x) \in Nat /\ At(t, y) \in Nat
      /\ x \in Int /\ y \in Int
  BY KindFacts, LitFacts
<1>2. ASSUME Kind(t, x) = Kind(t, y), Kind(t, x) > 0, At(t, x) = At(t, y) PROVE FALSE
  <2>1. CASE Kind(t, x) = 1
    <3>3. IsTrue(t, x) /\ IsTrue(t, y) BY <1>2, <2>1, KindFacts
    <3>1. t[At(t, x)].lit = x /\ t[At(t, y)].lit = y BY <3>3, AtTrue
    <3>2. QED BY <1>2, <3>1
  <2>2. CASE Kind(t, x) = 2
    <3>3. IsFalse(t, x) /\ IsFalse(t, y) BY <1>2, <2>2, KindFacts
    <3>1. t[At(t, x)].lit = -x /\ t[At(t, y)].lit = -y BY <3>3, AtFalse
    <3>2. QED BY <1>1, <1>2, <3>1
  <2>3. QED BY <1>1, <1>2, <2>1, <2>2
<1>3. QED BY <1>1, <1>2, PrecedesIs

(* The order is transitive.                                                  *)
LEMMA PrecedesTransitive ==
  ASSUME NEW t, NEW al, Shape(t, al), NEW x \in Literals, NEW y \in Literals,
         NEW z \in Literals, Precedes(t, x, y), Precedes(t, y, z)
  PROVE Precedes(t, x, z)
<1>1. /\ Kind(t, x) \in 0 .. 2 /\ Kind(t, y) \in 0 .. 2 /\ Kind(t, z) \in 0 .. 2
      /\ At(t, x) \in Nat /\ At(t, y) \in Nat /\ At(t, z) \in Nat
      /\ x \in Int /\ y \in Int /\ z \in Int
  BY KindFacts, LitFacts
<1>2. QED BY <1>1, PrecedesIs

(* What comes after a false literal is false, and earlier on the trail.      *)
LEMMA PrecedesFalse ==
  ASSUME NEW t, NEW al, Shape(t, al), NEW x \in Literals, NEW y \in Literals,
         Precedes(t, x, y), IsFalse(t, x)
  PROVE IsFalse(t, y) /\ At(t, y) < At(t, x)
<1>1. /\ Kind(t, x) \in 0 .. 2 /\ Kind(t, y) \in 0 .. 2 /\ Kind(t, x) = 2
      /\ At(t, x) \in Nat /\ At(t, y) \in Nat
  BY KindFacts
<1>2. Kind(t, y) = 2 /\ At(t, y) < At(t, x) BY <1>1, PrecedesIs
<1>3. QED BY <1>2, KindFacts

(* FirstOf finds the first literal.                                          *)
LEMMA FirstIs ==
  ASSUME NEW t, NEW al, Shape(t, al), NEW S, S \subseteq Literals, IsFiniteSet(S), S # {}
  PROVE /\ FirstOf(t, S) \in S
        /\ \A y \in S \ {FirstOf(t, S)} : Precedes(t, FirstOf(t, S), y)
<1> DEFINE Has(T) == \E x \in T : \A y \in T \ {x} : Precedes(t, x, y)
           B == {T \in SUBSET S : T # {} /\ ~Has(T)}
           R == StrictSubsetOrdering(S)
<1>1. Has(S)
  <2>1. SUFFICES ASSUME ~Has(S) PROVE FALSE OBVIOUS
  <2>2. IsWellFoundedOn(R, FiniteSubsetsOf(S)) BY FS_StrictSubsetOrderingWellFounded
  <2>3. B \subseteq FiniteSubsetsOf(S) BY FS_Subset DEF FiniteSubsetsOf
  <2>4. B # {} BY <2>1
  <2> HIDE DEF R
  <2>5. PICK T \in B : \A U \in B : ~ (<<U, T>> \in R) BY <2>2, <2>3, <2>4, WFMin
  <2>6. PICK e \in T : TRUE OBVIOUS
  <2> DEFINE U == T \ {e}
  <2>7. <<U, T>> \in R BY <2>6 DEF R, StrictSubsetOrdering
  <2>8. U = {} \/ Has(U) BY <2>5, <2>7
  <2>9. CASE U = {}
    <3>1. \A y \in T \ {e} : Precedes(t, e, y) BY <2>9
    <3>2. QED BY <2>6, <3>1
  <2>10. CASE Has(U)
    <3>1. PICK x \in U : \A y \in U \ {x} : Precedes(t, x, y) BY <2>10
    <3>2. x \in Literals /\ e \in Literals /\ x # e /\ x \in T /\ T \subseteq Literals
      BY <2>6, <3>1
    <3>3. CASE Precedes(t, x, e)
      <4>1. \A y \in T \ {x} : Precedes(t, x, y) BY <3>1, <3>3
      <4>2. QED BY <3>2, <4>1
    <3>4. CASE Precedes(t, e, x)
      <4>1. ASSUME NEW y \in T \ {e} PROVE Precedes(t, e, y)
        <5>1. y = x \/ Precedes(t, x, y) BY <3>1
        <5>2. y \in Literals BY <3>2
        <5>3. QED BY <3>2, <3>4, <5>1, <5>2, PrecedesTransitive
      <4>2. QED BY <2>6, <4>1
    <3>5. QED BY <3>2, <3>3, <3>4, PrecedesTotal
  <2>11. QED BY <2>8, <2>9, <2>10
<1>2. QED BY <1>1 DEF FirstOf

(* The literals of S in order, as much as matters.                           *)
InOrder(t, S, s) ==
  \/ S = {} /\ s.w = <<>> /\ s.rest = {}
  \/ \E x \in S : S = {x} /\ s.w = <<x>> /\ s.rest = {}
  \/ \E a, b \in S : /\ a # b /\ s.w = <<a, b>> /\ s.rest = S \ {a, b}
                     /\ \A y \in S \ {a} : Precedes(t, a, y)
                     /\ \A y \in S \ {a, b} : Precedes(t, b, y)

(* Sorted puts the first two literals in front.                              *)
LEMMA SortedIs ==
  ASSUME NEW t, NEW al, Shape(t, al), NEW S, S \subseteq Literals, IsFiniteSet(S)
  PROVE /\ InOrder(t, S, Sorted(t, S))
        /\ Cardinality(S) > 1 <=> \E a, b \in S : a # b
<1>1. Cardinality(S) \in Nat BY FS_CardinalityType
<1>2. CASE S = {}
  <2>1. Cardinality(S) = 0 BY <1>2, FS_EmptySet
  <2>2. Sorted(t, S) = [w |-> <<>>, rest |-> {}] BY <1>2, <2>1 DEF Sorted
  <2>3. QED BY <1>2, <2>1, <2>2 DEF InOrder
<1>3. CASE \E x : S = {x}
  <2>1. PICK x : S = {x} BY <1>3
  <2>2. Cardinality(S) = 1 BY <2>1, FS_Singleton
  <2>3. S # {} BY <2>1
  <2>4. FirstOf(t, S) \in S BY <2>3, FirstIs
  <2>6. FirstOf(t, S) = x BY <2>1, <2>4
  <2>7. Cardinality(S) <= 1 BY <2>2
  <2>8. Sorted(t, S) = [w |-> <<x>>, rest |-> {}] BY <2>3, <2>6, <2>7 DEF Sorted
  <2>9. Sorted(t, S).w = <<x>> /\ Sorted(t, S).rest = {} BY <2>8
  <2>10. InOrder(t, S, Sorted(t, S)) BY <2>1, <2>9 DEF InOrder
  <2>11. ~ \E a, b \in S : a # b BY <2>1
  <2>5. QED BY <2>2, <2>10, <2>11
<1>4. CASE S # {} /\ ~ \E x : S = {x}
  <2> DEFINE a == FirstOf(t, S)
             b == FirstOf(t, S \ {a})
  <2>1. ~(Cardinality(S) <= 1)
    <3>1. Cardinality(S) # 0 BY <1>4, FS_EmptySet
    <3>2. Cardinality(S) # 1 BY <1>4, FS_Singleton
    <3>3. QED BY <1>1, <3>1, <3>2
  <2>2. a \in S /\ \A y \in S \ {a} : Precedes(t, a, y) BY <1>4, FirstIs
  <2>3. S \ {a} # {} BY <1>4, <2>2
  <2>4. IsFiniteSet(S \ {a}) /\ S \ {a} \subseteq Literals BY FS_Subset
  <2>5. b \in S \ {a} /\ \A y \in (S \ {a}) \ {b} : Precedes(t, b, y)
    BY <2>3, <2>4, FirstIs
  <2>6. Sorted(t, S) = [w |-> <<a, b>>, rest |-> S \ {a, b}] BY <2>1 DEF Sorted
  <2> HIDE DEF a, b
  <2>7. \A y \in S \ {a, b} : Precedes(t, b, y) BY <2>5
  <2>8. a \in S /\ b \in S /\ a # b BY <2>2, <2>5
  <2>9. Sorted(t, S).w = <<a, b>> /\ Sorted(t, S).rest = S \ {a, b} BY <2>6
  <2>10. InOrder(t, S, Sorted(t, S)) BY <2>2, <2>7, <2>8, <2>9 DEF InOrder
  <2>11. QED BY <1>1, <2>1, <2>8, <2>10
<1>5. QED BY <1>2, <1>3, <1>4

-----------------------------------------------------------------------------
(* A literal that is false at decision level zero is false in every allowed  *)
(* assignment.                                                               *)
LEMMA FalseAtBottom ==
  ASSUME NEW t, NEW al \in Nat, Shape(t, al), NEW s, Valued(t, s), NEW l \in ClauseLits,
         IsFalse(t, l), LevelOf(t, l) = 0, NEW n \in Int, UserLevelOf(t, l) <= n,
         NEW M \in Assignments, Allowed(M, s, n)
  PROVE l \notin M
<1> DEFINE i == At(t, l)
<1>1. l \in Literals BY LiteralsAre
<1>2. i \in 1 .. Len(t) /\ t[i].lit = -l BY <1>1, AtFalse
<1>3. t[i].level = 0 /\ t[i].ulevel <= n BY DEF LevelOf, UserLevelOf
<1> HIDE DEF i
<1>4. -(-l) = l BY <1>1, LitFacts
<1>5. CASE i = 1
  <2>1. l = -VarTrue BY <1>2, <1>4, <1>5, EntryFacts
  <2>2. QED BY <2>1, AssignmentFacts, AtomLitFacts
<1>6. CASE i # 1
  <2>1. i > 1 /\ i \in 2 .. Len(t) BY <1>2, <1>6 DEF Shape
  <2>2. -l \in AtomLits BY <1>2, <2>1, EntryFacts
  <2>3. l \in AtomLits BY <1>4, <2>2, AtomLitFacts
  <2>4. Ent(s, t[i].ulevel, {-l}) BY <1>2, <1>3, <2>1 DEF Valued
  <2>5. t[i].ulevel \in Nat BY <1>2, EntryFacts
  <2>6. Ent(s, n, {-l}) BY <1>3, <2>4, <2>5, EntMono
  <2>7. -l \in M BY <2>6 DEF Ent
  <2>8. QED BY <2>3, <2>7, AssignmentFacts
<1>7. QED BY <1>5, <1>6

(* What is false at the bottom can be dropped from what is entailed.         *)
LEMMA DropFalse ==
  ASSUME NEW t, NEW al \in Nat, Shape(t, al), NEW s, Valued(t, s), NEW n \in Int,
         NEW S, S \subseteq ClauseLits, Ent(s, n, S), NEW D,
         \A l \in S \ D : IsFalse(t, l) /\ LevelOf(t, l) = 0 /\ UserLevelOf(t, l) <= n
  PROVE Ent(s, n, D)
<1>1. ASSUME NEW M \in Assignments, Allowed(M, s, n) PROVE D \cap M # {}
  <2>1. PICK l \in S : l \in M BY <1>1 DEF Ent
  <2>2. l \in D BY <1>1, <2>1, FalseAtBottom
  <2>3. QED BY <2>1, <2>2
<1>2. QED BY <1>1 DEF Ent

(* The levels of an assigned literal.                                        *)
LEMMA LevelFacts ==
  ASSUME NEW t, NEW al \in Nat, Shape(t, al), NEW l \in Literals, IsTrue(t, l) \/ IsFalse(t, l)
  PROVE /\ LevelOf(t, l) \in Nat /\ LevelOf(t, l) <= DecisionLevel(t)
        /\ UserLevelOf(t, l) \in Nat /\ UserLevelOf(t, l) <= al
        /\ LevelOf(t, l) > 0 => UserLevelOf(t, l) = al
        /\ DecisionLevel(t) \in Nat /\ At(t, l) \in 1 .. Len(t)
<1>1. At(t, l) \in 1 .. Len(t) BY AtTrue, AtFalse
<1>2. QED BY <1>1, EntryFacts DEF LevelOf, UserLevelOf

(* At decision level zero all that is false is so for good.                  *)
LEMMA DropAtBottom ==
  ASSUME NEW t, NEW al \in Nat, Shape(t, al), NEW s, Valued(t, s), NEW n \in Int, n <= al,
         NEW S, S \subseteq ClauseLits, Ent(s, n, S), NEW D, \A l \in S \ D : IsFalse(t, l),
         DecisionLevel(t) = 0
  PROVE Ent(s, al, D)
<1>1. Ent(s, al, S) BY EntMono
<1>2. ASSUME NEW l \in S \ D
      PROVE IsFalse(t, l) /\ LevelOf(t, l) = 0 /\ UserLevelOf(t, l) <= al
  <2>1. l \in Literals BY LiteralsAre
  <2>2. QED BY <2>1, LevelFacts
<1>3. QED BY <1>1, <1>2, DropFalse

-----------------------------------------------------------------------------
(* newVar creates variables at the current level and changes no other.       *)
LEMMA CreatedFacts ==
  ASSUME Vars(intro, assertionLevel), assertionLevel \in Nat, NEW S
  PROVE /\ Vars(Created(S), assertionLevel) /\ Grown(intro, Created(S))
        /\ \A l \in S \cap AtomLits : Created(S)[Var(l)] \in 0 .. assertionLevel
<1> DEFINE al == assertionLevel
           int == Created(S)
<1>1. /\ DOMAIN int = Atoms /\ int = [x \in Atoms |-> int[x]]
      /\ \A x \in Atoms : int[x] = IF intro[x] = -1 /\ (x \in S \/ -x \in S) THEN al ELSE intro[x]
  BY DEF Created
<1> HIDE DEF int
<1>2. \A x \in Atoms : intro[x] \in Int /\ -1 <= intro[x] /\ intro[x] <= al BY DEF Vars
<1>3. \A x \in Atoms : int[x] \in Int /\ -1 <= int[x] /\ int[x] <= al BY <1>1, <1>2
<1>4. int \in [Atoms -> Int] BY <1>1, <1>3
<1>5. \A x \in Atoms : intro[x] >= 0 => int[x] = intro[x] BY <1>1, <1>2
<1>6. ASSUME NEW l \in S \cap AtomLits PROVE int[Var(l)] \in 0 .. al
  <2>1. Var(l) \in Atoms /\ (Var(l) \in S \/ -Var(l) \in S)
    BY AtomLitFacts, Constants DEF AtomLits, Var
  <2>2. QED BY <1>1, <1>2, <2>1
<1>7. QED BY <1>3, <1>4, <1>5, <1>6 DEF Vars, Grown, int

(* What addClause_ keeps of an entailed clause is entailed.                  *)
LEMMA KeptFacts ==
  ASSUME NEW t, NEW al \in Nat, Shape(t, al), NEW s, Valued(t, s), NEW n \in Nat,
         NEW S, S \subseteq AtomLits, Ent(s, n, S)
  PROVE Kept(t, S) \subseteq S /\ Ent(s, n, Kept(t, S))
<1>1. Kept(t, S) \subseteq S /\ S \subseteq ClauseLits BY DEF Kept, ClauseLits
<1>2. ASSUME NEW l \in S \ Kept(t, S)
      PROVE IsFalse(t, l) /\ LevelOf(t, l) = 0 /\ UserLevelOf(t, l) <= n
  BY <1>2 DEF Kept, AtBottom
<1>3. QED BY <1>1, <1>2, DropFalse

(* The level of a clause is at least that of its variables.                  *)
LEMMA ClauseLevelFacts ==
  ASSUME cores \in BOOLEAN, assertionLevel \in Nat, NEW int, NEW S, S \subseteq ClauseLits,
         \A l \in S \ {-VarTrue} : int[Var(l)] \in 0 .. assertionLevel,
         NEW removable \in BOOLEAN
  PROVE LET n == ClauseLevel(int, S, removable)
        IN  /\ n \in 0 .. assertionLevel
            /\ \A l \in S \ {-VarTrue} : int[Var(l)] \in 0 .. n
            /\ ~removable => n = assertionLevel
<1> DEFINE al == assertionLevel
           n == ClauseLevel(int, S, removable)
           X == IntroLevels(int, S) \cup (IF removable THEN {} ELSE {al})
<1>1. X \subseteq 0 .. al BY DEF IntroLevels
<1>2. X # {} BY DEF IntroLevels
<1>3. MaxOf(X) \in X /\ \A y \in X : y <= MaxOf(X) BY <1>1, <1>2, MaxIs
<1>4. ASSUME NEW l \in S \ {-VarTrue} PROVE int[Var(l)] \in X
  <2>1. l # VarTrue BY AtomLitFacts, <1>4 DEF ClauseLits
  <2>2. QED BY <2>1 DEF IntroLevels
<1>5. CASE cores
  <2>1. n = al BY <1>5 DEF ClauseLevel
  <2>2. QED BY <2>1
<1>6. CASE ~cores
  <2>1. n = MaxOf(X) BY <1>6 DEF ClauseLevel
  <2>2. n \in 0 .. al /\ n \in Nat BY <1>1, <1>3, <2>1
  <2>3. ASSUME NEW l \in S \ {-VarTrue} PROVE int[Var(l)] \in 0 .. n
    BY <1>3, <1>4, <2>1, <2>2
  <2>4. ASSUME ~removable PROVE n = al
    <3>1. al \in X BY <2>4
    <3>2. al <= n BY <1>3, <2>1, <3>1
    <3>3. QED BY <2>2, <3>2
  <2> HIDE DEF n
  <2>5. QED BY <2>2, <2>3, <2>4 DEF n
<1>7. QED BY <1>5, <1>6

(* The variables of S exist, and S is entailed where a clause over it lives. *)
Existing(int, S) == \A l \in S \ {-VarTrue} : int[Var(l)] \in 0 .. assertionLevel
(* A clause is entailed where it will live: everywhere, or with the current  *)
(* level.                                                                    *)
Backed(s, S, removable) ==
  Ent(s, 0, S) \/ (~removable /\ Ent(s, assertionLevel, S))

(* Literals with two that can be watched.                                    *)
Long(c) == c.w \in Seq(ClauseLits) /\ Len(c.w) = 2 /\ c.rest \subseteq ClauseLits

(* A clause that is attached, over some of the literals that it was given.   *)
Within(K, S) == K \subseteq S /\ S \subseteq ClauseLits

(* The clause that is attached for it is sound.                              *)
LEMMA NewClauseWithin ==
  ASSUME cores \in BOOLEAN, assertionLevel \in Nat, NEW int, NEW s, NEW removable \in BOOLEAN,
         NEW rem \in BOOLEAN, NEW c, Long(c), NEW K, Lits(c) = K, NEW S, Within(K, S),
         Existing(int, S), Backed(s, K, removable)
  PROVE LET d == Clause(c, ClauseLevel(int, S, removable), rem)
        IN  /\ Sound(d, s, int, assertionLevel)
            /\ d.w = c.w /\ d.rest = c.rest /\ Lits(d) = K
<1> DEFINE n == ClauseLevel(int, S, removable)
           d == Clause(c, n, rem)
<1>1. S \subseteq ClauseLits /\ K \subseteq S BY DEF Within
<1>2. /\ n \in 0 .. assertionLevel /\ \A l \in S \ {-VarTrue} : int[Var(l)] \in 0 .. n
      /\ ~removable => n = assertionLevel
  BY <1>1, ClauseLevelFacts DEF Existing
<1> HIDE DEF n
<1>3. d.w = c.w /\ d.rest = c.rest /\ d.level = n /\ d.removable = rem /\ Lits(d) = K
  BY DEF Clause, Lits
<1>4. d \in ClauseType BY <1>2 DEF Clause, ClauseType, Long
<1>5. Ent(s, n, K)
  <2>1. CASE Ent(s, 0, K) BY <1>2, <2>1, EntMono
  <2>2. CASE ~removable /\ Ent(s, assertionLevel, K) BY <1>2, <2>2
  <2>3. QED BY <2>1, <2>2 DEF Backed
<1> HIDE DEF d
<1>6. Sound(d, s, int, assertionLevel) BY <1>1, <1>2, <1>3, <1>4, <1>5 DEF Sound, Long
<1>7. QED BY <1>3, <1>6 DEF d, n

(* A clause over all of them.                                                *)
LEMMA NewClause ==
  ASSUME cores \in BOOLEAN, assertionLevel \in Nat, NEW int, NEW s, NEW removable \in BOOLEAN,
         NEW rem \in BOOLEAN, NEW c, Long(c), NEW S, Lits(c) = S,
         Existing(int, S), Backed(s, S, removable)
  PROVE LET d == Clause(c, ClauseLevel(int, S, removable), rem)
        IN  /\ Sound(d, s, int, assertionLevel)
            /\ d.w = c.w /\ d.rest = c.rest /\ Lits(d) = S
<1>1. S \subseteq ClauseLits
  <2>1. c.w[1] \in ClauseLits /\ c.w[2] \in ClauseLits BY DEF Long
  <2>2. QED BY <2>1 DEF Lits, Long
<1>2. Within(S, S) BY <1>1 DEF Within
<1>3. QED BY <1>2, NewClauseWithin

(* A theory lemma that is queued.                                            *)
LEMMA QueueLemmaFacts ==
  ASSUME Vars(intro, assertionLevel), assertionLevel \in Nat, NEW t, Shape(t, assertionLevel),
         NEW s, Valued(t, s), NEW q, Queue(q, s, intro, assertionLevel), NEW L \in Theory,
         NEW removable \in BOOLEAN, NEW u, NEW b, NEW c, ReadyQueue(q, u, b, c)
  PROVE LET p == QueueLemma(q, t, L, removable)
        IN  /\ Queue(p, s, Created(L), assertionLevel) /\ ReadyQueue(p, u, b, c)
            /\ Len(q) <= Len(p)
            /\ (Live(q) => Live(p)) /\ (Fresh(q) => Fresh(p))
<1> DEFINE al == assertionLevel
           p == QueueLemma(q, t, L, removable)
           e == [w |-> <<>>, rest |-> Kept(t, L), sorted |-> FALSE, removable |-> removable,
                 dangling |-> FALSE]
<1>1. Queue(q, s, Created(L), al) BY CreatedFacts, QueueGrown
<1>2. q \in Seq(LemmaType) /\ Len(q) \in Nat BY DEF Queue
<1>3. CASE Ignored(t, L)
  <2>1. p = q BY <1>3 DEF QueueLemma
  <2>2. QED BY <1>1, <1>2, <2>1
<1>4. CASE ~Ignored(t, L)
  <2>1. L \subseteq AtomLits BY Constants
  <2>2. Ent(s, 0, L) BY TheoryEnt
  <2>3. Kept(t, L) \subseteq L /\ Ent(s, 0, Kept(t, L)) BY <2>1, <2>2, KeptFacts
  <2>4. e.w = <<>> /\ e.rest = Kept(t, L) /\ e.sorted = FALSE /\ e.dangling = FALSE OBVIOUS
  <2>5. e \in LemmaType
    <3> DEFINE E == <<>>
    <3>1. E \in Seq(AtomLits) OBVIOUS
    <3> HIDE DEF E
    <3>2. [w |-> E, rest |-> Kept(t, L), sorted |-> FALSE, removable |-> removable,
           dangling |-> FALSE] \in LemmaType
      BY <2>1, <2>3, <3>1 DEF LemmaType
    <3>3. QED BY <3>2 DEF E
  <2>6. LemmaLits(e) = Kept(t, L) BY <2>4, <2>5, QueueFacts
  <2>7. p = Append(q, e) BY <1>4 DEF QueueLemma
  <2> HIDE DEF e, p
  <2>8. /\ p \in Seq(LemmaType) /\ Len(p) = Len(q) + 1 /\ p[Len(q) + 1] = e
        /\ \A k \in 1 .. Len(q) : p[k] = q[k]
    BY <1>2, <2>5, <2>7
  <2>9. ASSUME NEW k \in 1 .. Len(p)
        PROVE /\ ~p[k].dangling => \A l \in LemmaLits(p[k]) : Created(L)[Var(l)] \in 0 .. al
              /\ Ent(s, 0, LemmaLits(p[k]))
              /\ ~p[k].sorted => p[k].w = <<>>
    <3>1. k \in 1 .. Len(q) \/ k = Len(q) + 1 BY <1>2, <2>8
    <3>2. CASE k \in 1 .. Len(q) BY <1>1, <2>8, <3>2 DEF Queue
    <3>3. CASE k = Len(q) + 1
      <4>1. p[k] = e BY <2>8, <3>3
      <4>2. \A l \in Kept(t, L) : Created(L)[Var(l)] \in 0 .. al BY <2>1, <2>3, CreatedFacts
      <4>3. QED BY <2>3, <2>4, <2>6, <4>1, <4>2
    <3>4. QED BY <3>1, <3>2, <3>3
  <2>10. Queue(p, s, Created(L), al) BY <2>8, <2>9 DEF Queue
  <2>11. ASSUME NEW k \in 1 .. Len(p), p[k].sorted
         PROVE Ready(p[k], u, b) /\ (p[k].w = <<>> => c # Undef)
    <3>1. k \in 1 .. Len(q) /\ p[k] = q[k] BY <1>2, <2>4, <2>8, <2>11
    <3>2. QED BY <2>11, <3>1 DEF ReadyQueue
  <2>12. ReadyQueue(p, u, b, c) BY <2>11 DEF ReadyQueue
  <2>13. \A k \in 1 .. Len(p) : (k \in 1 .. Len(q) /\ p[k] = q[k])
                                  \/ (~p[k].dangling /\ ~p[k].sorted)
    <3>1. \A k \in 1 .. Len(p) : k \in 1 .. Len(q) \/ k = Len(q) + 1 BY <1>2, <2>8
    <3>2. QED BY <2>4, <2>8, <3>1
  <2>14. (Live(q) => Live(p)) /\ (Fresh(q) => Fresh(p)) BY <2>13 DEF Live, Fresh
  <2>15. QED BY <1>2, <2>8, <2>10, <2>12, <2>14 DEF p
<1>5. QED BY <1>3, <1>4

-----------------------------------------------------------------------------
(* The locals after each kind of assignment.                                 *)
LEMMA LocalsFacts ==
  ASSUME NEW a \in Locals
  PROVE /\ a.caller \in {"search", "addClause"}
        /\ a.check \in {"theory", "final"}
        /\ a.todo \in SUBSET Nat
        /\ a.conflict \in Int
        /\ a.recheck \in BOOLEAN
        /\ a.from \in {"entry", "theory"}
        /\ a.bound \in Nat
        /\ a.res \in SUBSET AtomLits
        /\ a.maxlevel \in Nat
BY DEF Locals

(* The locals at the start of a call.                                        *)
LEMMA StartFacts ==
  ASSUME NEW c \in {"search", "addClause"}
  PROVE /\ Start(c) \in Locals /\ Start(c).caller = c /\ Start(c).check = "theory"
        /\ Start(c).todo = {} /\ Start(c).conflict = Undef /\ Start(c).recheck = FALSE
        /\ Start(c).from = "entry" /\ Start(c).bound = 0 /\ Start(c).res = {}
<1> DEFINE z == Undef
           b == 0
<1>1. z \in Int /\ b \in Nat /\ z = Undef /\ b = 0 BY DEF Undef
<1> HIDE DEF z, b
<1>2. Start(c) = [caller |-> c, check |-> "theory", todo |-> {}, conflict |-> z,
                  recheck |-> FALSE, from |-> "entry", bound |-> b, res |-> {}, maxlevel |-> b]
  BY <1>1 DEF Start
<1>3. QED BY <1>1, <1>2 DEF Locals

(* propagate resets recheck, from and conflict.                              *)
LEMMA Begun ==
  ASSUME NEW a \in Locals
  PROVE LET b == [a EXCEPT !.recheck = FALSE, !.from = "entry", !.conflict = Undef]
        IN  /\ b \in Locals
            /\ b.caller = a.caller /\ b.check = a.check /\ b.todo = a.todo
            /\ b.conflict = Undef /\ b.bound = a.bound /\ b.res = a.res
<1> DEFINE z == Undef
<1>1. z \in Int BY DEF Undef
<1> HIDE DEF z
<1>2. LET b == [a EXCEPT !.recheck = FALSE, !.from = "entry", !.conflict = z]
      IN  /\ b \in Locals
          /\ b.caller = a.caller /\ b.check = a.check /\ b.todo = a.todo
          /\ b.conflict = z /\ b.bound = a.bound /\ b.res = a.res
  BY <1>1 DEF Locals
<1>3. QED BY <1>2 DEF z

(* Other watchers to visit.                                                  *)
LEMMA NewTodo ==
  ASSUME NEW a \in Locals, NEW v1 \in SUBSET Nat
  PROVE LET b == [a EXCEPT !.todo = v1]
        IN  /\ b \in Locals
            /\ b.caller = a.caller /\ b.check = a.check /\ b.todo = v1
            /\ b.conflict = a.conflict /\ b.recheck = a.recheck /\ b.from = a.from
            /\ b.bound = a.bound /\ b.res = a.res /\ b.maxlevel = a.maxlevel
BY DEF Locals

(* Another recheck.                                                          *)
LEMMA Rechecked ==
  ASSUME NEW a \in Locals, NEW v1 \in BOOLEAN
  PROVE LET b == [a EXCEPT !.recheck = v1]
        IN  /\ b \in Locals
            /\ b.caller = a.caller /\ b.check = a.check /\ b.todo = a.todo
            /\ b.conflict = a.conflict /\ b.recheck = v1 /\ b.from = a.from
            /\ b.bound = a.bound /\ b.res = a.res /\ b.maxlevel = a.maxlevel
BY DEF Locals

(* Another bound.                                                            *)
LEMMA NewBound ==
  ASSUME NEW a \in Locals, NEW v1 \in Nat
  PROVE LET b == [a EXCEPT !.bound = v1]
        IN  /\ b \in Locals
            /\ b.caller = a.caller /\ b.check = a.check /\ b.todo = a.todo
            /\ b.conflict = a.conflict /\ b.recheck = a.recheck /\ b.from = a.from
            /\ b.bound = v1 /\ b.res = a.res /\ b.maxlevel = a.maxlevel
BY DEF Locals

(* Another effort.                                                           *)
LEMMA NewCheck ==
  ASSUME NEW a \in Locals, NEW v1 \in {"theory", "final"}
  PROVE LET b == [a EXCEPT !.check = v1]
        IN  /\ b \in Locals
            /\ b.caller = a.caller /\ b.check = v1 /\ b.todo = a.todo
            /\ b.conflict = a.conflict /\ b.recheck = a.recheck /\ b.from = a.from
            /\ b.bound = a.bound /\ b.res = a.res /\ b.maxlevel = a.maxlevel
BY DEF Locals

-----------------------------------------------------------------------------
(* The parts of the invariant where they say nothing.                        *)

(* Without a conflict,                                                       *)
LEMMA NoConflict ==
  ASSUME NEW p, NEW a, a.conflict = Undef, NEW t, NEW db, NEW s, NEW al
  PROVE Conflict(p, a, t, db, s, al)
BY DEF Conflict, Undef, Lazy

(* outside analyze,                                                          *)
LEMMA NoResolvent ==
  ASSUME NEW p, p # "analyze", NEW a, NEW t, NEW s, NEW int, NEW al
  PROVE Resolvent(p, a, t, s, int, al)
BY DEF Resolvent

(* and with no watchers left to visit.                                       *)
LEMMA NoTodo ==
  ASSUME NEW p, NEW a, a.todo = {}, NEW t, NEW h \in 0 .. Len(t), NEW db,
         \A i \in 1 .. Len(t) : i > h => t[i].level = DecisionLevel(t)
  PROVE Pending(p, a, t, h, db)
BY DEF Pending

(* What the steps need most of the invariant.                                *)
LEMMA Facts ==
  ASSUME IInv
  PROVE /\ assertionLevel \in Nat /\ at \in Locals /\ Len(trail) \in Nat
        /\ Shape(trail, assertionLevel)
        /\ qhead \in 0 .. Len(trail)
        /\ \A i \in 1 .. Len(trail) : i > qhead => trail[i].level = DecisionLevel(trail)
        /\ pc # "bool" => at.todo = {}
        /\ pc \notin {"return", "lemmas", "attach"} => at.conflict = Undef
        /\ pc \notin {"propagate", "lemmas", "attach", "idle", "solved", "undefined"} =>
             lemmas = <<>>
        /\ Queue(lemmas, inputs, intro, assertionLevel)
        /\ pc \in {"idle", "solved"} => Fresh(lemmas)
        /\ pc \in {"lemmas", "attach", "solved"} => Live(lemmas)
        /\ DecisionLevel(trail) \in Nat
        /\ cores \in BOOLEAN
        /\ IsFiniteSet(DOMAIN clauses) /\ DOMAIN clauses \subseteq Nat \ {0}
        /\ \A r \in DOMAIN clauses : Sound(clauses[r], inputs, intro, assertionLevel)
<1>1. assertionLevel \in Nat BY Constants DEF IInv, Base, Stack
<1>2. Shape(trail, assertionLevel) BY DEF IInv, Assigned
<1>3. /\ qhead \in 0 .. Len(trail)
      /\ pc # "bool" => at.todo = {}
      /\ \A i \in 1 .. Len(trail) : i > qhead => trail[i].level = DecisionLevel(trail)
  BY DEF IInv, Pending
<1>4. Len(trail) \in Nat /\ 1 \in 1 .. Len(trail) BY <1>2 DEF Shape
<1>5. DecisionLevel(trail) \in Nat BY <1>2, <1>4, EntryFacts
<1>6. /\ at \in Locals /\ cores \in BOOLEAN
      /\ pc \notin {"return", "lemmas", "attach"} => at.conflict = Undef
      /\ pc \notin {"propagate", "lemmas", "attach", "idle", "solved", "undefined"} =>
           lemmas = <<>>
  BY DEF IInv, Protocol, Conflict, Base
<1>7. /\ IsFiniteSet(DOMAIN clauses) /\ DOMAIN clauses \subseteq Nat \ {0}
      /\ \A r \in DOMAIN clauses : Sound(clauses[r], inputs, intro, assertionLevel)
  BY DEF IInv, Db
<1>8. Queue(lemmas, inputs, intro, assertionLevel) BY DEF IInv
<1>9. /\ pc \in {"idle", "solved"} => Fresh(lemmas)
      /\ pc \in {"lemmas", "attach", "solved"} => Live(lemmas)
  <2>1. CASE lemmas = <<>> BY <2>1 DEF Fresh, Live
  <2>2. CASE lemmas # <<>> BY <2>2 DEF IInv, Protocol
  <2>3. QED BY <2>1, <2>2
<1>10. QED BY <1>1, <1>2, <1>3, <1>4, <1>5, <1>6, <1>7, <1>8, <1>9

(* Nothing but the running call changes.                                     *)
LEMMA SameBase ==
  ASSUME Base(inputs, intro, assertionLevel, left, cores, spent),
         UNCHANGED <<inputs, intro, assertionLevel, left, cores, spent>>
  PROVE Base(inputs, intro, assertionLevel, left, cores, spent)'
BY DEF Base, Stack, Vars

(* propagate begins.                                                         *)
LEMMA BeginPropagateStep ==
  ASSUME IInv, BeginPropagate
  PROVE IInv'
<1>1. UNCHANGED <<clauses, trail, qhead, lemmas, assertionLevel, trailOk, inputs, cores,
                  intro, ok, answer, model, left, spent>>
  BY DEF BeginPropagate, Inside, Fixed
<1>2. pc = "propagate" /\ pc' \in {"lemmas", "theory", "bool"}
      /\ (lemmas # <<>> => pc' = "lemmas") /\ ~Dangling
      /\ at' = [at EXCEPT !.recheck = FALSE, !.from = "entry", !.conflict = Undef]
  BY DEF BeginPropagate
<1>3. at.todo = {} /\ at.conflict = Undef /\ at \in Locals /\ Undef \in Int
  BY <1>2, Facts DEF Undef
<1>4. /\ at' \in Locals /\ at'.caller = at.caller /\ at'.todo = {} /\ at'.conflict = Undef
  <2>1. at' = [at EXCEPT !.recheck = FALSE, !.from = "entry", !.conflict = Undef] BY <1>2
  <2>2. QED BY <1>3, <2>1, Begun
<1>5. Base(inputs, intro, assertionLevel, left, cores, spent)' BY <1>1, SameBase DEF IInv
<1>6. /\ Assigned(trail, clauses, inputs, intro, assertionLevel)'
      /\ Db(clauses, inputs, intro, assertionLevel)'
      /\ Queue(lemmas, inputs, intro, assertionLevel)'
      /\ Verdicts(ok, trailOk, answer, inputs, assertionLevel)'
  BY <1>1 DEF IInv
<1>7. ReadyQueue(lemmas, trail, Bound, at.conflict)'
  <2>1. Bound' = Bound BY <1>1, <1>2 DEF Bound
  <2>2. QED BY <1>1, <1>3, <1>4, <2>1 DEF IInv
<1>8. Protocol(pc, at, trail, qhead, lemmas)'
  <2>1. lemmas \in Seq(LemmaType) BY DEF IInv, Queue
  <2>2. DOMAIN lemmas = 1 .. Len(lemmas) BY <2>1
  <2>3. Live(lemmas) BY <1>2, <2>2 DEF Dangling, Live
  <2>4. QED BY <1>1, <1>2, <1>4, <2>3 DEF IInv, Protocol
<1>9. Pending(pc, at, trail, qhead, clauses)' BY <1>1, <1>4, Facts, NoTodo
<1>10. Conflict(pc, at, trail, clauses, inputs, assertionLevel)' BY <1>4, NoConflict
<1>11. Resolvent(pc, at, trail, inputs, intro, assertionLevel)' BY <1>2, NoResolvent
<1>12. QED BY <1>5, <1>6, <1>7, <1>8, <1>9, <1>10, <1>11 DEF IInv

(* The next literal of the trail is propagated.                              *)
LEMMA TakeLiteralStep ==
  ASSUME IInv, TakeLiteral
  PROVE IInv'
<1> DEFINE W == Watchers(trail[qhead + 1].lit)
<1>1. UNCHANGED <<clauses, trail, lemmas, pc, assertionLevel, trailOk, inputs, cores,
                  intro, ok, answer, model, left, spent>>
  BY DEF TakeLiteral, Inside, Fixed
<1>2. /\ pc = "bool" /\ at.todo = {} /\ qhead < Len(trail) /\ qhead' = qhead + 1
      /\ at' = [at EXCEPT !.todo = W]
  BY DEF TakeLiteral
<1>3. /\ W \subseteq DOMAIN clauses
      /\ \A r \in W : -trail[qhead + 1].lit \in {clauses[r].w[1], clauses[r].w[2]}
  BY DEF Watchers
<1> HIDE DEF W
<1>4. W \in SUBSET Nat BY <1>3, Facts
<1>5. /\ at' \in Locals /\ at'.caller = at.caller /\ at'.todo = W
      /\ at'.conflict = at.conflict /\ at'.check = at.check
  BY <1>2, <1>4, Facts, NewTodo
<1>6. Base(inputs, intro, assertionLevel, left, cores, spent)' BY <1>1, SameBase DEF IInv
<1>7. /\ Assigned(trail, clauses, inputs, intro, assertionLevel)'
      /\ Db(clauses, inputs, intro, assertionLevel)'
      /\ Queue(lemmas, inputs, intro, assertionLevel)'
      /\ Verdicts(ok, trailOk, answer, inputs, assertionLevel)'
  BY <1>1 DEF IInv
<1>8. ReadyQueue(lemmas, trail, Bound, at.conflict)'
  <2>1. Bound' = Bound BY <1>1, <1>2 DEF Bound
  <2>2. QED BY <1>1, <1>5, <2>1 DEF IInv
<1>9. Protocol(pc, at, trail, qhead, lemmas)' BY <1>1, <1>2, <1>5 DEF IInv, Protocol
<1>10. Pending(pc, at, trail, qhead, clauses)'
  <2>1. qhead \in 0 .. Len(trail) /\ Len(trail) \in Nat BY Facts
  <2>2. qhead + 1 \in 0 .. Len(trail) /\ qhead + 1 > 0 BY <1>2, <2>1
  <2>3. \A i \in 1 .. Len(trail) : i >= qhead + 1 => trail[i].level = DecisionLevel(trail)
    BY <2>1, Facts
  <2>4. QED BY <1>1, <1>2, <1>3, <1>5, <2>1, <2>2, <2>3 DEF Pending
<1>11. Conflict(pc, at, trail, clauses, inputs, assertionLevel)'
  BY <1>2, <1>1, <1>5, Facts, NoConflict
<1>12. Resolvent(pc, at, trail, inputs, intro, assertionLevel)' BY <1>1, <1>2, NoResolvent
<1>13. QED BY <1>6, <1>7, <1>8, <1>9, <1>10, <1>11, <1>12 DEF IInv

(* A step that changes nothing but the place, and perhaps the locals,        *)
LEMMA ControlQueued ==
  ASSUME IInv, UNCHANGED <<clauses, trail, qhead, lemmas, intro, inputs, assertionLevel>>,
         Base(inputs, intro, assertionLevel, left, cores, spent)',
         Verdicts(ok, trailOk, answer, inputs, assertionLevel)',
         ReadyQueue(lemmas, trail, Bound, at.conflict)',
         at' \in Locals, at'.todo = {}, pc' # "analyze",
         Protocol(pc, at, trail, qhead, lemmas)',
         Conflict(pc, at, trail, clauses, inputs, assertionLevel)'
  PROVE IInv'
<1>1. /\ Assigned(trail, clauses, inputs, intro, assertionLevel)'
      /\ Db(clauses, inputs, intro, assertionLevel)'
      /\ Queue(lemmas, inputs, intro, assertionLevel)'
  BY DEF IInv
<1>2. Pending(pc, at, trail, qhead, clauses)' BY Facts, NoTodo
<1>3. Resolvent(pc, at, trail, inputs, intro, assertionLevel)' BY NoResolvent
<1>4. QED BY <1>1, <1>2, <1>3 DEF IInv

(* and, mostly, with no lemma queued.                                        *)
LEMMA Control ==
  ASSUME IInv, UNCHANGED <<clauses, trail, qhead, lemmas, intro, inputs, assertionLevel>>,
         Base(inputs, intro, assertionLevel, left, cores, spent)',
         Verdicts(ok, trailOk, answer, inputs, assertionLevel)',
         lemmas = <<>>, at' \in Locals, at'.todo = {}, pc' # "analyze",
         Protocol(pc, at, trail, qhead, lemmas)',
         Conflict(pc, at, trail, clauses, inputs, assertionLevel)'
  PROVE IInv'
<1>1. ReadyQueue(lemmas, trail, Bound, at.conflict)' BY DEF ReadyQueue
<1>2. QED BY <1>1, ControlQueued

(* A lemma of removed variables is met.                                      *)
LEMMA ReadRemovedVariableStep ==
  ASSUME IInv, ReadRemovedVariable
  PROVE IInv'
<1>1. UNCHANGED <<clauses, trail, qhead, lemmas, at, assertionLevel, trailOk, inputs, cores,
                  intro, ok, answer, model, left, spent>>
  BY DEF ReadRemovedVariable, Inside, Fixed
<1>2. pc = "propagate" /\ pc' = "undefined" BY DEF ReadRemovedVariable
<1>3. at \in Locals /\ at.todo = {} /\ at.conflict = Undef BY <1>2, Facts
<1>4. Bound' = Bound BY <1>1, <1>2 DEF Bound
<1>5. ReadyQueue(lemmas, trail, Bound, at.conflict)' BY <1>1, <1>4 DEF IInv
<1>6. Protocol(pc, at, trail, qhead, lemmas)' BY <1>1, <1>2 DEF IInv, Protocol
<1>7. Conflict(pc, at, trail, clauses, inputs, assertionLevel)' BY <1>1, <1>3, NoConflict
<1>8. /\ Base(inputs, intro, assertionLevel, left, cores, spent)'
      /\ Verdicts(ok, trailOk, answer, inputs, assertionLevel)'
  BY <1>1, SameBase DEF IInv
<1>9. QED BY <1>1, <1>2, <1>3, <1>5, <1>6, <1>7, <1>8, ControlQueued

(* All literals are propagated.                                              *)
LEMMA EndOfQueueStep ==
  ASSUME IInv, EndOfQueue
  PROVE IInv'
<1>1. UNCHANGED <<clauses, trail, qhead, lemmas, at, assertionLevel, trailOk, inputs, cores,
                  intro, ok, answer, model, left, spent>>
  BY DEF EndOfQueue, Inside, Fixed
<1>2. /\ pc = "bool" /\ at.todo = {} /\ qhead = Len(trail)
      /\ pc' = IF at.caller = "search" THEN "theory" ELSE "return"
  BY DEF EndOfQueue
<1>3. lemmas = <<>> /\ at.conflict = Undef BY <1>2, Facts
<1>4. Protocol(pc, at, trail, qhead, lemmas)' BY <1>1, <1>2, <1>3 DEF IInv, Protocol
<1>5. Conflict(pc, at, trail, clauses, inputs, assertionLevel)' BY <1>1, <1>3, NoConflict
<1>6. /\ Base(inputs, intro, assertionLevel, left, cores, spent)'
      /\ Verdicts(ok, trailOk, answer, inputs, assertionLevel)'
  BY <1>1, SameBase DEF IInv
<1>7. QED BY <1>1, <1>2, <1>3, <1>4, <1>5, <1>6, Facts, Control

(* updateLemmas ends.                                                        *)
LEMMA LemmasUpdatedStep ==
  ASSUME IInv, LemmasUpdated
  PROVE IInv'
<1>1. UNCHANGED <<clauses, trail, qhead, lemmas, assertionLevel, trailOk, inputs, cores,
                  intro, ok, answer, model, left, spent>>
  BY DEF LemmasUpdated, Inside, Fixed
<1>2. /\ pc = "attach" /\ lemmas = <<>> /\ at' = [at EXCEPT !.bound = 0]
      /\ pc' = IF at.conflict # Undef THEN "return"
               ELSE IF at.from = "theory" THEN Round(trail)
               ELSE IF FinalCheck(at) THEN "theory" ELSE "bool"
  BY DEF LemmasUpdated
<1>3. /\ at' \in Locals /\ at'.caller = at.caller /\ at'.todo = at.todo
      /\ at'.conflict = at.conflict /\ at'.check = at.check
  <2> DEFINE n == 0
  <2>1. n \in Nat OBVIOUS
  <2>2. at' = [at EXCEPT !.bound = n] BY <1>2
  <2> HIDE DEF n
  <2>3. QED BY <2>1, <2>2, Facts, NewBound
<1>4. at.todo = {} BY <1>2, Facts
<1>5. \/ Round(trail) = "bool"
      \/ Round(trail) = "return" /\ (at.check = "theory" => qhead = Len(trail))
  <2>1. qhead \in 0 .. Len(trail) /\ Len(trail) \in Nat BY Facts
  <2>2. QED BY <2>1 DEF Round, FinalCheck
<1>6. Protocol(pc, at, trail, qhead, lemmas)' BY <1>1, <1>2, <1>3, <1>5 DEF IInv, Protocol
<1>7. Conflict(pc, at, trail, clauses, inputs, assertionLevel)'
  BY <1>1, <1>2, <1>3 DEF IInv, Conflict
<1>8. /\ Base(inputs, intro, assertionLevel, left, cores, spent)'
      /\ Verdicts(ok, trailOk, answer, inputs, assertionLevel)'
  BY <1>1, SameBase DEF IInv
<1>9. pc' # "analyze" BY <1>2, <1>5
<1>10. QED BY <1>1, <1>2, <1>3, <1>4, <1>6, <1>7, <1>8, <1>9, Control

(* A conflict at the bottom is a refutation.                                 *)
LEMMA Refutation ==
  ASSUME IInv, at.conflict # Undef, DecisionLevel(trail) = 0
  PROVE Ent(inputs, assertionLevel, {})
<1>1. CASE at.conflict = Lazy BY <1>1 DEF IInv, Conflict
<1>2. CASE at.conflict # Lazy
  <2> DEFINE c == clauses[at.conflict]
  <2>1. at.conflict \in Int /\ at.conflict >= Lazy BY Facts, LocalsFacts DEF IInv, Conflict
  <2>2. at.conflict > 0 BY <1>2, <2>1 DEF Undef, Lazy
  <2>3. at.conflict \in DOMAIN clauses /\ \A l \in Lits(c) : IsFalse(trail, l)
    BY <2>2 DEF IInv, Conflict
  <2>4. Sound(c, inputs, intro, assertionLevel) BY <2>3, Facts
  <2>5. /\ Lits(c) \subseteq ClauseLits /\ c.level \in Nat /\ c.level <= assertionLevel
        /\ Ent(inputs, c.level, Lits(c))
    BY <2>4, Facts, SoundFacts DEF Sound
  <2>6. Valued(trail, inputs) BY DEF IInv, Assigned
  <2>7. c.level \in Int /\ \A l \in Lits(c) \ {} : IsFalse(trail, l) BY <2>3, <2>5
  <2> HIDE DEF c
  <2>8. QED BY <2>5, <2>6, <2>7, Facts, DropAtBottom
<1>3. QED BY <1>1, <1>2

(* addClause_ ends.                                                          *)
LEMMA EndAddClauseStep ==
  ASSUME IInv, EndAddClause
  PROVE IInv'
<1>1. UNCHANGED <<clauses, trail, qhead, intro, assertionLevel, trailOk, lemmas,
                 answer, model, inputs, cores, left, spent>>
  BY DEF EndAddClause
<1>2. /\ pc = "return" /\ at.caller = "addClause" /\ ok' = (at.conflict = Undef)
      /\ pc' = "idle" /\ at' = Start("search")
  BY DEF EndAddClause
<1>3. /\ at' \in Locals /\ at'.caller = "search" /\ at'.todo = {} /\ at'.conflict = Undef
  BY <1>2, StartFacts
<1>4. DecisionLevel(trail) = 0 BY <1>2 DEF IInv, Protocol
<1>5. ~ok' => Ent(inputs, assertionLevel, {}) BY <1>2, <1>4, Refutation
<1>6. Verdicts(ok, trailOk, answer, inputs, assertionLevel)'
  BY <1>1, <1>2, <1>5 DEF IInv, Verdicts
<1>7. lemmas = <<>> BY <1>2, Facts
<1>8. Protocol(pc, at, trail, qhead, lemmas)' BY <1>1, <1>2, <1>3, <1>4, <1>7 DEF Protocol
<1>9. Conflict(pc, at, trail, clauses, inputs, assertionLevel)' BY <1>3, NoConflict
<1>10. Base(inputs, intro, assertionLevel, left, cores, spent)' BY <1>1, SameBase DEF IInv
<1>11. QED BY <1>1, <1>2, <1>3, <1>6, <1>7, <1>8, <1>9, <1>10, Control

(* search goes on.                                                           *)
LEMMA WithinBudgetStep ==
  ASSUME IInv, WithinBudget
  PROVE IInv'
<1>1. UNCHANGED <<clauses, trail, qhead, lemmas, at, assertionLevel, trailOk, inputs, cores,
                  intro, ok, answer, model, left, spent>>
  BY DEF WithinBudget, Inside, Fixed
<1>2. /\ pc = "return" /\ at.caller = "search" /\ at.conflict = Undef /\ at.check = "theory"
      /\ pc' = "decide"
  BY DEF WithinBudget, Searching
<1>3. lemmas = <<>> /\ at.todo = {} /\ at \in Locals BY <1>2, Facts
<1>4. Protocol(pc, at, trail, qhead, lemmas)' BY <1>1, <1>2, <1>3 DEF IInv, Protocol
<1>5. Conflict(pc, at, trail, clauses, inputs, assertionLevel)' BY <1>1, <1>2, NoConflict
<1>6. /\ Base(inputs, intro, assertionLevel, left, cores, spent)'
      /\ Verdicts(ok, trailOk, answer, inputs, assertionLevel)'
  BY <1>1, SameBase DEF IInv
<1>7. QED BY <1>1, <1>2, <1>3, <1>4, <1>5, <1>6, Control

(* A bound of the behaviour is used up a little.                             *)
LEMMA UseFacts ==
  ASSUME left \in Setting, NEW k \in {"inputs", "solves", "lemmas", "restarts"}, Use(k)
  PROVE left' \in Setting
BY DEF Setting, Use

(* Variables are created and bounds used, or the budget is spent.            *)
LEMMA NewBase ==
  ASSUME Base(inputs, intro, assertionLevel, left, cores, spent),
         UNCHANGED <<inputs, assertionLevel, cores>>,
         Vars(intro', assertionLevel), left' \in Setting, spent' \in BOOLEAN
  PROVE Base(inputs, intro, assertionLevel, left, cores, spent)'
BY DEF Base, Stack, Vars

(* solve begins, or answers at once.                                         *)
LEMMA SolveStep ==
  ASSUME IInv, Solve
  PROVE IInv'
<1>1. UNCHANGED <<clauses, trail, qhead, intro, assertionLevel, ok, trailOk,
                 lemmas, inputs, cores, spent>>
  BY DEF Solve
<1>2. /\ pc = "idle" /\ Use("solves")
      /\ \/ answer' = "none" /\ pc' = "propagate" /\ at' = Start("search")
         \/ ~ok /\ answer' = "unsat" /\ pc' = pc /\ at' = at
  BY DEF Solve, Forget
<1>3. /\ Fresh(lemmas) /\ DecisionLevel(trail) = 0 /\ at.todo = {} /\ at.conflict = Undef
      /\ at \in Locals
  BY <1>2, Facts DEF IInv, Protocol
<1>4. at' \in Locals /\ at'.todo = {} /\ at'.conflict = Undef
  BY <1>2, <1>3, StartFacts
<1>5. Verdicts(ok, trailOk, answer, inputs, assertionLevel)'
  BY <1>1, <1>2 DEF IInv, Verdicts
<1>6. Protocol(pc, at, trail, qhead, lemmas)' BY <1>1, <1>2, <1>3, <1>4 DEF Protocol
<1>7. Conflict(pc, at, trail, clauses, inputs, assertionLevel)' BY <1>4, NoConflict
<1>8. left' \in Setting BY <1>2, UseFacts DEF IInv, Base
<1>9. Base(inputs, intro, assertionLevel, left, cores, spent)'
  BY <1>1, <1>8, NewBase DEF IInv, Base
<1>10. pc' # "analyze" BY <1>2
<1>11. ReadyQueue(lemmas, trail, Bound, at.conflict)' BY <1>1, <1>3, FreshIsReady
<1>12. QED BY <1>1, <1>4, <1>5, <1>6, <1>7, <1>9, <1>10, <1>11, ControlQueued

(* A conflict without decisions: unsatisfiable.                              *)
LEMMA ConflictAtTopLevelStep ==
  ASSUME IInv, ConflictAtTopLevel
  PROVE IInv'
<1>1. UNCHANGED <<clauses, trail, qhead, intro, lemmas, left, assertionLevel, trailOk, inputs,
                  cores>>
  BY DEF ConflictAtTopLevel, Fixed
<1>2. /\ pc = "return" /\ at.conflict # Undef /\ DecisionLevel(trail) = 0
      /\ pc' = "solved" /\ at' = Start("search")
      /\ \/ answer' = "unsat" /\ ok' = FALSE /\ UNCHANGED spent
         \/ answer' = "unknown" /\ ok' = ok /\ spent' = TRUE
  BY DEF ConflictAtTopLevel, Searching, EndSolve
<1>3. /\ at' \in Locals /\ at'.caller = "search" /\ at'.todo = {} /\ at'.conflict = Undef
  BY <1>2, StartFacts
<1>4. Ent(inputs, assertionLevel, {}) BY <1>2, Refutation
<1>5. Verdicts(ok, trailOk, answer, inputs, assertionLevel)'
  BY <1>1, <1>2, <1>4 DEF IInv, Verdicts
<1>6. lemmas = <<>> BY <1>2, Facts
<1>7. Protocol(pc, at, trail, qhead, lemmas)' BY <1>1, <1>2, <1>3, <1>6 DEF Protocol
<1>8. Conflict(pc, at, trail, clauses, inputs, assertionLevel)' BY <1>3, NoConflict
<1>9. spent' \in BOOLEAN BY <1>2, SatSolverAssumption DEF IInv, Base
<1>10. Base(inputs, intro, assertionLevel, left, cores, spent)'
  BY <1>1, <1>9, NewBase DEF IInv, Base
<1>11. QED BY <1>1, <1>2, <1>3, <1>5, <1>6, <1>7, <1>8, <1>10, Control

(* A full check without conflict.                                            *)
LEMMA AfterFinalCheckStep ==
  ASSUME IInv, AfterFinalCheck
  PROVE IInv'
<1>1. UNCHANGED <<clauses, trail, qhead, intro, lemmas, left, assertionLevel, trailOk, inputs,
                  cores>>
  BY DEF AfterFinalCheck, Fixed
<1>2. /\ pc = "return" /\ at.conflict = Undef /\ at.caller = "search"
      /\ at' = at \/ at' = Start("search")
      /\ pc' \in {"propagate", "solved"}
      /\ pc' = "solved" => at' = Start("search")
      /\ \/ UNCHANGED <<ok, answer, spent>>
         \/ answer' = "sat" /\ ok' = TRUE /\ UNCHANGED spent
         \/ answer' = "unknown" /\ ok' = ok /\ spent' = TRUE
  BY DEF AfterFinalCheck, Searching, EndSolve
<1>3. at \in Locals /\ at.todo = {} /\ lemmas = <<>> BY <1>2, Facts
<1>4. /\ at' \in Locals /\ at'.caller = "search" /\ at'.todo = {} /\ at'.conflict = Undef
  <2>1. CASE at' = at BY <1>2, <1>3, <2>1
  <2>2. CASE at' = Start("search") BY <2>2, StartFacts
  <2>3. QED BY <1>2, <2>1, <2>2
<1>5. Verdicts(ok, trailOk, answer, inputs, assertionLevel)'
  <2>1. Verdicts(ok, trailOk, answer, inputs, assertionLevel) BY DEF IInv
  <2>2. CASE ok' = ok /\ answer' = answer BY <1>1, <2>1, <2>2
  <2>3. CASE ok' = TRUE /\ answer' # "unsat" BY <1>1, <2>1, <2>3 DEF Verdicts
  <2>4. CASE ok' = ok /\ answer' # "unsat" BY <1>1, <2>1, <2>4 DEF Verdicts
  <2>5. QED BY <1>2, <2>2, <2>3, <2>4
<1>6. Protocol(pc, at, trail, qhead, lemmas)' BY <1>1, <1>2, <1>3, <1>4 DEF Protocol
<1>7. Conflict(pc, at, trail, clauses, inputs, assertionLevel)' BY <1>4, NoConflict
<1>8. spent' \in BOOLEAN BY <1>2, SatSolverAssumption DEF IInv, Base
<1>9. Base(inputs, intro, assertionLevel, left, cores, spent)'
  BY <1>1, <1>8, NewBase DEF IInv, Base
<1>10. QED BY <1>1, <1>2, <1>3, <1>4, <1>5, <1>6, <1>7, <1>9, Control


-----------------------------------------------------------------------------
(* The first trail.                                                          *)
LEMMA InitTrail ==
  ASSUME Init
  PROVE Shape(trail, 0) /\ Len(trail) = 1 /\ DecisionLevel(trail) = 0 /\ trail[1].reason = Undef
<1> DEFINE z == Undef
           o == 0
           e == [lit |-> VarTrue, reason |-> z, level |-> o, ulevel |-> o]
<1>1. z \in Int /\ o \in Nat /\ o = 0 /\ z = Undef /\ VarTrue \in Literals
  BY DEF Undef, Literals
<1>2. trail = <<e>> BY DEF Init
<1> HIDE DEF z, o
<1>3. e \in Entry /\ e.lit = VarTrue /\ e.reason = z /\ e.level = o /\ e.ulevel = o
  BY <1>1 DEF Entry
<1> HIDE DEF e
<1>4. trail \in Seq(Entry) /\ Len(trail) = 1 /\ trail[1] = e BY <1>2, <1>3
<1>5. \A i \in 1 .. Len(trail) : i = 1 BY <1>4
<1>6. Shape(trail, 0) BY <1>1, <1>3, <1>4, <1>5 DEF Shape, Lazy, Undef
<1>7. QED BY <1>1, <1>3, <1>4, <1>6 DEF DecisionLevel

(* The invariant holds at first.                                             *)
LEMMA InitInvariant ==
  ASSUME Init
  PROVE IInv
<1>1. /\ clauses = [r \in {} |-> Undef] /\ qhead = 0 /\ intro = [x \in Atoms |-> -1]
      /\ assertionLevel = 0 /\ ok = TRUE /\ trailOk = <<>> /\ lemmas = <<>>
      /\ pc = "idle" /\ at = Start("search") /\ answer = "none"
      /\ inputs = << {} >> /\ left \in Setups /\ cores = left.cores /\ spent = FALSE
  BY DEF Init
<1>2. Shape(trail, 0) /\ Len(trail) = 1 /\ DecisionLevel(trail) = 0 /\ trail[1].reason = Undef
  BY InitTrail
<1>3. at \in Locals /\ at.caller = "search" /\ at.todo = {} /\ at.conflict = Undef
  BY <1>1, StartFacts
<1>4. Base(inputs, intro, assertionLevel, left, cores, spent)
  <2>1. Stack(inputs, assertionLevel)
    <3> DEFINE E == {}
    <3>1. E \in SUBSET SUBSET AtomLits OBVIOUS
    <3>2. inputs = <<E>> BY <1>1
    <3> HIDE DEF E
    <3>3. inputs \in Seq(SUBSET SUBSET AtomLits) /\ Len(inputs) = 1 BY <3>1, <3>2
    <3>4. QED BY <1>1, <3>3, Constants DEF Stack
  <2>2. Vars(intro, assertionLevel) BY <1>1 DEF Vars
  <2>3. left \in Setting /\ cores \in BOOLEAN /\ spent \in BOOLEAN
    <3>1. left \in Setting BY <1>1, Constants
    <3>2. left.cores \in BOOLEAN BY <3>1 DEF Setting
    <3>3. QED BY <1>1, <3>1, <3>2
  <2>4. QED BY <2>1, <2>2, <2>3 DEF Base
<1>5. Assigned(trail, clauses, inputs, intro, assertionLevel)
  <2>1. Known(trail, intro) /\ Valued(trail, inputs) BY <1>2 DEF Known, Valued
  <2>2. Reasons(trail, clauses)
    <3>1. \A i \in 1 .. Len(trail) : i = 1 BY <1>2
    <3>2. QED BY <1>2, <3>1 DEF Reasons, Undef
  <2>3. QED BY <1>1, <1>2, <2>1, <2>2 DEF Assigned
<1>6. Db(clauses, inputs, intro, assertionLevel)
  <2>1. DOMAIN clauses = {} BY <1>1
  <2>2. QED BY <2>1, FS_EmptySet DEF Db
<1>7. Queue(lemmas, inputs, intro, assertionLevel)
  <2>1. lemmas \in Seq(LemmaType) /\ Len(lemmas) = 0 BY <1>1
  <2>2. QED BY <2>1 DEF Queue
<1>8. ReadyQueue(lemmas, trail, Bound, at.conflict)
  <2>1. Len(lemmas) = 0 BY <1>1
  <2>2. QED BY <2>1 DEF ReadyQueue
<1>9. Protocol(pc, at, trail, qhead, lemmas) BY <1>1, <1>2, <1>3 DEF Protocol
<1>10. Pending(pc, at, trail, qhead, clauses)
  <2>1. \A i \in 1 .. Len(trail) : trail[i].level = DecisionLevel(trail)
    <3>1. \A i \in 1 .. Len(trail) : i = 1 BY <1>2
    <3>2. QED BY <1>2, <3>1 DEF DecisionLevel
  <2>2. qhead \in 0 .. Len(trail) BY <1>1, <1>2
  <2>3. QED BY <1>3, <2>1, <2>2, NoTodo
<1>11. Conflict(pc, at, trail, clauses, inputs, assertionLevel) BY <1>3, NoConflict
<1>12. Resolvent(pc, at, trail, inputs, intro, assertionLevel) BY <1>1, NoResolvent
<1>13. Verdicts(ok, trailOk, answer, inputs, assertionLevel)
  <2>1. trailOk \in Seq(BOOLEAN) /\ Len(trailOk) = 0 BY <1>1
  <2>2. ok \in BOOLEAN /\ ok /\ answer # "unsat" BY <1>1
  <2>3. QED BY <1>1, <2>1, <2>2 DEF Verdicts
<1>14. QED BY <1>4, <1>5, <1>6, <1>7, <1>8, <1>9, <1>10, <1>11, <1>12, <1>13 DEF IInv

-----------------------------------------------------------------------------
(* A user level is pushed.                                                   *)
LEMMA PushStep ==
  ASSUME IInv, Push
  PROVE IInv'
<1> DEFINE al == assertionLevel
           al2 == assertionLevel + 1
           s == inputs
           s2 == inputs'
<1>1. UNCHANGED <<clauses, trail, qhead, intro, ok, lemmas, pc, at, cores, left, spent>>
  BY DEF Push
<1>2. /\ pc = "idle" /\ al < MaxLevel /\ assertionLevel' = al2
      /\ trailOk' = Append(trailOk, ok) /\ answer' = "none"
  BY DEF Push, Forget
<1>3. inputs' = Append(inputs, {}) BY DEF Push
<1>4. /\ Fresh(lemmas) /\ DecisionLevel(trail) = 0 /\ at.todo = {} /\ at.conflict = Undef
      /\ at \in Locals /\ al \in Nat /\ Shape(trail, al)
  BY <1>2, Facts DEF IInv, Protocol
<1>5. /\ s2 \in Seq(SUBSET SUBSET AtomLits) /\ Len(s2) = al2 + 1
      /\ \A k \in 1 .. al + 1 : s2[k] = s[k]
  <2> DEFINE E == {}
  <2>1. E \in SUBSET SUBSET AtomLits OBVIOUS
  <2>2. s2 = Append(s, E) BY <1>3
  <2> HIDE DEF E, s2
  <2>3. s \in Seq(SUBSET SUBSET AtomLits) /\ Len(s) = al + 1 BY DEF IInv, Base, Stack
  <2>4. QED BY <1>4, <2>1, <2>2, <2>3
<1> HIDE DEF s2
<1>6. Base(inputs, intro, assertionLevel, left, cores, spent)'
  <2>1. Stack(s2, al2) BY <1>2, <1>4, <1>5, Constants DEF Stack
  <2>2. Vars(intro, al2) BY <1>4 DEF IInv, Base, Vars
  <2>3. QED BY <1>1, <1>2, <2>1, <2>2 DEF IInv, Base, s2
<1>7. \A i \in 1 .. Len(trail) : trail[i].level = 0 /\ trail[i].ulevel <= al
                                  /\ trail[i].ulevel \in Nat
  <2>1. TAKE i \in 1 .. Len(trail)
  <2>2. trail[i].level \in Nat /\ trail[i].level <= 0 /\ trail[i].ulevel <= al
        /\ trail[i].ulevel \in Nat
    BY <1>4, EntryFacts
  <2>3. QED BY <2>2
<1>8. Assigned(trail, clauses, s2, intro, al2)
  <2>1. Shape(trail, al2) BY <1>4, <1>7 DEF Shape
  <2>2. Known(trail, intro) /\ Reasons(trail, clauses) /\ Valued(trail, s)
    BY DEF IInv, Assigned
  <2>3. \A k \in 1 .. al + 1 : s[k] \subseteq s2[k] BY <1>5
  <2>4. Valued(trail, s2) BY <1>4, <2>2, <2>3, ValuedMore
  <2>5. QED BY <2>1, <2>2, <2>4 DEF Assigned
<1>9. Db(clauses, s2, intro, al2)
  <2>1. ASSUME NEW r \in DOMAIN clauses PROVE Sound(clauses[r], s2, intro, al2)
    <3>1. Sound(clauses[r], s, intro, al) BY Facts
    <3>2. clauses[r].level \in Nat /\ clauses[r].level <= al BY <1>4, <3>1, SoundFacts
    <3>3. \A k \in 1 .. clauses[r].level + 1 : s[k] \subseteq s2[k] BY <1>4, <1>5, <3>2
    <3>4. al2 \in Nat /\ clauses[r].level <= al2 BY <1>4, <3>2
    <3>5. QED BY <1>4, <3>1, <3>3, <3>4, SoundMore
  <2>2. QED BY <2>1, Facts DEF Db
<1>10. /\ Queue(lemmas, s2, intro, al2)
       /\ ReadyQueue(lemmas, trail, Bound', at.conflict)
  <2>1. s[1] \subseteq s2[1]
    <3>1. 1 \in 1 .. al + 1 BY <1>4
    <3>2. QED BY <1>5, <3>1
  <2>2. al2 \in Nat /\ al <= al2 BY <1>4
  <2>3. Queue(lemmas, s, intro, al) BY Facts
  <2>4. Queue(lemmas, s2, intro, al2) BY <1>4, <2>1, <2>2, <2>3, QueueRicher
  <2>5. QED BY <1>4, <2>4, FreshIsReady
<1>11. Protocol(pc, at, trail, qhead, lemmas)' BY <1>1 DEF IInv
<1>12. Pending(pc, at, trail, qhead, clauses)' BY <1>1 DEF IInv
<1>13. Conflict(pc, at, trail, clauses, inputs, assertionLevel)' BY <1>1, <1>4, NoConflict
<1>14. Resolvent(pc, at, trail, inputs, intro, assertionLevel)' BY <1>1, <1>2, NoResolvent
<1>15. Verdicts(ok, trailOk', "none", s2, al2)
  <2>1. /\ ok \in BOOLEAN /\ trailOk \in Seq(BOOLEAN) /\ Len(trailOk) = al
        /\ ~ok => Ent(s, al, {})
        /\ \A k \in 1 .. al : ~trailOk[k] => Ent(s, k - 1, {})
    BY DEF IInv, Verdicts
  <2> DEFINE o == trailOk'
  <2>2. o = Append(trailOk, ok) BY <1>2
  <2> HIDE DEF o
  <2>3. /\ o \in Seq(BOOLEAN) /\ Len(o) = al2 /\ o[al2] = ok
        /\ \A k \in 1 .. al : o[k] = trailOk[k]
    BY <1>4, <2>1, <2>2
  <2>4. ASSUME NEW k \in Nat, k <= al, Ent(s, k, {}) PROVE Ent(s2, k, {})
    <3>1. \A i \in 1 .. k + 1 : s[i] \subseteq s2[i] BY <1>4, <1>5, <2>4
    <3>2. QED BY <2>4, <3>1, EntMore
  <2>5. ASSUME ~ok PROVE Ent(s2, al2, {})
    <3>1. Ent(s2, al, {}) BY <1>4, <2>1, <2>4, <2>5
    <3>2. QED BY <1>4, <3>1, EntMono
  <2>6. ASSUME NEW k \in 1 .. al2, ~o[k] PROVE Ent(s2, k - 1, {})
    <3>1. k \in 1 .. al \/ k = al2 BY <1>4
    <3>2. CASE k \in 1 .. al
      <4>1. Ent(s, k - 1, {}) BY <2>1, <2>3, <2>6, <3>2
      <4>2. k - 1 \in Nat /\ k - 1 <= al BY <1>4, <3>2
      <4>3. QED BY <2>4, <4>1, <4>2
    <3>3. CASE k = al2
      <4>1. Ent(s, al, {}) BY <2>1, <2>3, <2>6, <3>3
      <4>2. k - 1 = al BY <1>4, <3>3
      <4>3. Ent(s2, al, {}) BY <1>4, <2>4, <4>1
      <4>4. QED BY <4>2, <4>3
    <3>4. QED BY <3>1, <3>2, <3>3
  <2>7. Verdicts(ok, o, "none", s2, al2) BY <2>1, <2>3, <2>5, <2>6 DEF Verdicts
  <2>8. QED BY <2>7 DEF o
<1>16. /\ Assigned(trail, clauses, inputs, intro, assertionLevel)'
       /\ Db(clauses, inputs, intro, assertionLevel)'
       /\ Queue(lemmas, inputs, intro, assertionLevel)'
       /\ ReadyQueue(lemmas, trail, Bound, at.conflict)'
       /\ Verdicts(ok, trailOk, answer, inputs, assertionLevel)'
  BY <1>1, <1>2, <1>8, <1>9, <1>10, <1>15 DEF s2
<1>17. QED BY <1>6, <1>11, <1>12, <1>13, <1>14, <1>16 DEF IInv

(* The trail without the assignments of the user levels above n.             *)
LEMMA PopTrailFacts ==
  ASSUME NEW t, NEW al, Shape(t, al), NEW n \in Nat
  PROVE LET u == PopTrail(t, n)
        IN  /\ Shape(u, al) /\ Begins(u, t) /\ Len(u) \in 1 .. Len(t)
            /\ \A i \in 1 .. Len(u) : u[i] = t[i] /\ u[i].ulevel <= n
<1> DEFINE S == {i \in DOMAIN t : t[i].ulevel <= n}
           m == MaxOf(S)
<1>1. DOMAIN t = 1 .. Len(t) /\ Len(t) \in Nat /\ Len(t) >= 1 BY DEF Shape
<1>2. 1 \in S BY <1>1, EntryFacts
<1>3. S \subseteq 0 .. Len(t) BY <1>1
<1>4. m \in S BY <1>1, <1>2, <1>3, MaxIs
<1>5. m \in 1 .. Len(t) /\ t[m].ulevel <= n BY <1>1, <1>4
<1>6. PopTrail(t, n) = SubSeq(t, 1, m) BY DEF PopTrail
<1> HIDE DEF m
<1>7. LET u == SubSeq(t, 1, m)
      IN  /\ Len(u) = m /\ \A i \in 1 .. m : u[i] = t[i]
          /\ Shape(u, al) /\ Begins(u, t)
  BY <1>5, CutTrail
<1>8. ASSUME NEW i \in 1 .. m PROVE t[i].ulevel <= n
  <2>1. i = m \/ (i < m /\ i \in 1 .. Len(t)) BY <1>1, <1>5
  <2>2. CASE i = m BY <1>5, <2>2
  <2>3. CASE i < m /\ i \in 1 .. Len(t)
    <3>1. t[i].ulevel <= t[m].ulevel BY <1>5, <2>3 DEF Shape
    <3>2. t[i].ulevel \in Nat /\ t[m].ulevel \in Nat BY <1>5, <2>3, EntryFacts
    <3>3. QED BY <1>5, <3>1, <3>2
  <2>4. QED BY <2>1, <2>2, <2>3
<1>9. QED BY <1>5, <1>6, <1>7, <1>8

(* A user level is popped: what stays was entailed by what stays.            *)
LEMMA PopStep ==
  ASSUME IInv, Pop
  PROVE IInv'
<1> DEFINE al == assertionLevel
           bl == assertionLevel - 1
           t == trail
           u == PopTrail(trail, bl)
           t2 == trail'
           gone == Above(clauses, bl)
           db2 == clauses'
           s == inputs
           s2 == inputs'
           int2 == intro'
           q2 == lemmas'
<1>1. UNCHANGED <<pc, at, cores, left, spent>> BY DEF Pop
<1>2. /\ pc = "idle" /\ al > 0 /\ answer' = "none" /\ assertionLevel' = bl
      /\ t2 = Unlock(u, gone) /\ qhead' = Len(u) /\ db2 = Detach(clauses, gone)
      /\ int2 = [x \in Atoms |-> IF intro[x] > bl THEN -1 ELSE intro[x]]
      /\ ok' = trailOk[bl + 1] /\ trailOk' = SubSeq(trailOk, 1, bl)
      /\ s2 = SubSeq(s, 1, bl + 1) /\ q2 = Marked(lemmas, bl)
  BY DEF Pop, Forget, Marked
<1>3. /\ Fresh(lemmas) /\ DecisionLevel(t) = 0 /\ at.todo = {} /\ at.conflict = Undef
      /\ at \in Locals /\ al \in Nat /\ Shape(t, al)
  BY <1>2, Facts DEF IInv, Protocol
<1>4. bl \in Nat /\ bl < al /\ al = bl + 1 BY <1>2, <1>3
<1>5. /\ Shape(u, al) /\ Begins(u, t) /\ Len(u) \in 1 .. Len(t)
      /\ \A i \in 1 .. Len(u) : u[i] = t[i] /\ u[i].ulevel <= bl
  BY <1>3, <1>4, PopTrailFacts
<1> HIDE DEF u, gone, s2, t2, db2, int2, q2
<1>6. /\ Shape(t2, al) /\ Begins(t2, u) /\ Len(t2) = Len(u)
      /\ \A i \in 1 .. Len(u) : /\ t2[i].lit = u[i].lit /\ t2[i].level = u[i].level
                                /\ t2[i].ulevel = u[i].ulevel
                                /\ t2[i].reason = IF u[i].reason \in gone THEN Undef ELSE u[i].reason
  BY <1>2, <1>5, UnlockFacts
<1>7. \A i \in 1 .. Len(t) : t[i].level = 0
  <2>1. TAKE i \in 1 .. Len(t)
  <2>2. t[i].level \in Nat /\ t[i].level <= 0 BY <1>3, EntryFacts
  <2>3. QED BY <2>2
<1>8. \A i \in 1 .. Len(t2) : /\ t2[i].level = 0 /\ t2[i].ulevel <= bl
                               /\ t2[i].ulevel = t[i].ulevel /\ t2[i].lit = t[i].lit
                               /\ i \in 1 .. Len(t)
  BY <1>5, <1>6, <1>7
<1>9. Shape(t2, bl) BY <1>6, <1>8 DEF Shape
<1>10. Begins(t2, t) BY <1>5, <1>6, <1>7, <1>8 DEF Begins
<1>11. /\ s2 \in Seq(SUBSET SUBSET AtomLits) /\ Len(s2) = bl + 1
       /\ \A k \in 1 .. bl + 1 : s2[k] = s[k]
  <2>1. s \in Seq(SUBSET SUBSET AtomLits) /\ Len(s) = al + 1 BY DEF IInv, Base, Stack
  <2>2. QED BY <1>2, <1>4, <2>1
<1>12. ASSUME NEW k \in Nat, k <= bl, NEW c, Ent(s, k, c) PROVE Ent(s2, k, c)
  <2>1. \A i \in 1 .. k + 1 : s[i] \subseteq s2[i] BY <1>4, <1>11, <1>12
  <2>2. QED BY <1>12, <2>1, EntMore
<1>13. /\ \A x \in Atoms : int2[x] = IF intro[x] > bl THEN -1 ELSE intro[x]
       /\ Vars(int2, bl)
  <2>1. \A x \in Atoms : intro[x] \in Int /\ -1 <= intro[x] BY DEF IInv, Base, Vars
  <2>2. DOMAIN int2 = Atoms /\ \A x \in Atoms : int2[x] = IF intro[x] > bl THEN -1 ELSE intro[x]
    BY <1>2
  <2>3. \A x \in Atoms : int2[x] \in Int /\ -1 <= int2[x] /\ int2[x] <= bl BY <1>4, <2>1, <2>2
  <2>4. int2 \in [Atoms -> Int] BY <1>2, <2>3
  <2>5. QED BY <2>2, <2>3, <2>4 DEF Vars
<1>14. Base(inputs, intro, assertionLevel, left, cores, spent)'
  <2>1. bl \in 0 .. MaxLevel BY <1>4, Constants DEF IInv, Base, Stack
  <2>2. Stack(s2, bl) BY <1>11, <2>1 DEF Stack
  <2>3. Base(s2, int2, bl, left, cores, spent) BY <1>13, <2>2 DEF IInv, Base
  <2>4. QED BY <1>1, <1>2, <2>3 DEF s2, int2
<1>15. Known(t2, int2)
  <2>1. ASSUME NEW i \in 2 .. Len(t2) PROVE int2[Var(t2[i].lit)] \in 0 .. t2[i].ulevel
    <3>1. i \in 1 .. Len(t2) /\ i > 1 BY <1>9 DEF Shape
    <3>2. t2[i].lit = t[i].lit /\ t2[i].ulevel = t[i].ulevel /\ i \in 1 .. Len(t)
          /\ t2[i].ulevel <= bl
      BY <1>8, <3>1
    <3>3. Var(t[i].lit) \in Atoms /\ t[i].ulevel \in Nat
      BY <1>3, <3>1, <3>2, EntryFacts, AtomLitFacts
    <3>4. i \in 2 .. Len(t) BY <3>1, <3>2
    <3>5. intro[Var(t[i].lit)] \in 0 .. t[i].ulevel BY <3>4 DEF IInv, Assigned, Known
    <3>6. QED BY <1>4, <1>13, <3>2, <3>3, <3>5
  <2>2. QED BY <2>1 DEF Known
<1>16. Valued(t2, s2)
  <2>1. ASSUME NEW i \in 2 .. Len(t2) PROVE Ent(s2, t2[i].ulevel, {t2[i].lit})
    <3>1. i \in 1 .. Len(t2) /\ i > 1 BY <1>9 DEF Shape
    <3>2. t2[i].lit = t[i].lit /\ t2[i].ulevel = t[i].ulevel /\ i \in 1 .. Len(t)
          /\ t2[i].ulevel <= bl
      BY <1>8, <3>1
    <3>3. t[i].ulevel \in Nat /\ t[i].level = 0 /\ i \in 2 .. Len(t)
      BY <1>3, <1>7, <3>1, <3>2, EntryFacts
    <3>4. Ent(s, t[i].ulevel, {t[i].lit}) BY <3>3 DEF IInv, Assigned, Valued
    <3>5. QED BY <1>12, <3>2, <3>3, <3>4
  <2>2. QED BY <2>1 DEF Valued
<1>17. DOMAIN db2 = DOMAIN clauses \ gone /\ \A r \in DOMAIN db2 : db2[r] = clauses[r]
  BY <1>2 DEF Detach
<1>18. Reasons(t2, db2)
  <2>1. Reasons(t, clauses) BY DEF IInv, Assigned
  <2>2. ASSUME NEW i \in 1 .. Len(t2), t2[i].reason > 0
        PROVE /\ t2[i].reason = t[i].reason
              /\ t2[i].reason \in DOMAIN db2 /\ db2[t2[i].reason] = clauses[t2[i].reason]
    <3>1. i \in 1 .. Len(u) /\ u[i] = t[i] /\ i \in 1 .. Len(t) BY <1>5, <1>6, <1>8
    <3>2. t[i].reason \notin gone /\ t2[i].reason = t[i].reason BY <1>6, <2>2, <3>1 DEF Undef
    <3>3. t[i].reason \in DOMAIN clauses BY <2>1, <2>2, <3>1, <3>2 DEF Reasons
    <3>4. QED BY <1>17, <3>2, <3>3
  <2>3. QED BY <1>3, <1>9, <1>10, <2>1, <2>2, ReasonsKept
<1>19. Db(db2, s2, int2, bl)
  <2>1. IsFiniteSet(DOMAIN db2) /\ DOMAIN db2 \subseteq Nat \ {0} BY <1>17, Facts, FS_Subset
  <2>2. ASSUME NEW r \in DOMAIN db2 PROVE Sound(db2[r], s2, int2, bl)
    <3> DEFINE c == clauses[r]
    <3>1. db2[r] = c /\ r \in DOMAIN clauses /\ r \notin gone BY <1>17
    <3>2. Sound(c, s, intro, al) BY <3>1, Facts
    <3>3. c.level \in Nat BY <1>3, <3>2, SoundFacts
    <3>4. c.level <= bl
      <4>1. ~(c.level > bl) BY <3>1 DEF gone, Above
      <4>2. QED BY <1>4, <3>3, <4>1
    <3>5. \A k \in 1 .. c.level + 1 : s[k] \subseteq s2[k] BY <1>4, <1>11, <3>3, <3>4
    <3>6. \A x \in Atoms : intro[x] \in 0 .. c.level => int2[x] = intro[x]
      BY <1>4, <1>13, <3>3, <3>4
    <3> HIDE DEF c
    <3>7. Sound(c, s2, int2, bl) BY <1>3, <1>4, <3>2, <3>4, <3>5, <3>6, SoundMore
    <3>8. QED BY <3>1, <3>7
  <2>3. QED BY <2>1, <2>2 DEF Db
<1>20. /\ Queue(q2, s2, int2, bl) /\ ReadyQueue(q2, t2, Bound', at.conflict)
       /\ Fresh(q2) /\ (q2 # <<>> => lemmas # <<>>)
  <2>1. Queue(lemmas, s, intro, al) BY Facts
  <2>2. lemmas \in Seq(LemmaType) BY <2>1 DEF Queue
  <2>3. /\ q2 \in Seq(LemmaType) /\ Len(q2) = Len(lemmas)
        /\ \A k \in 1 .. Len(lemmas) :
             /\ q2[k].w = lemmas[k].w /\ q2[k].rest = lemmas[k].rest
             /\ q2[k].sorted = lemmas[k].sorted
             /\ LemmaLits(q2[k]) = LemmaLits(lemmas[k])
             /\ ~q2[k].dangling => /\ ~lemmas[k].dangling
                                   /\ \A l \in LemmaLits(lemmas[k]) : ~(intro[Var(l)] > bl)
    BY <1>2, <2>2, MarkedFacts
  <2>4. ASSUME NEW k \in 1 .. Len(q2), ~q2[k].dangling, NEW l \in LemmaLits(q2[k])
        PROVE int2[Var(l)] \in 0 .. bl
    <3>1. /\ k \in 1 .. Len(lemmas) /\ ~lemmas[k].dangling /\ l \in LemmaLits(lemmas[k])
          /\ ~(intro[Var(l)] > bl)
      BY <2>3, <2>4
    <3>2. intro[Var(l)] \in 0 .. al BY <2>1, <3>1 DEF Queue
    <3>3. lemmas[k] \in LemmaType BY <2>2, <3>1
    <3>4. LemmaLits(lemmas[k]) \subseteq AtomLits BY <3>3, QueueFacts
    <3>5. Var(l) \in Atoms BY <3>1, <3>4, AtomLitFacts
    <3>6. int2[Var(l)] = intro[Var(l)] BY <1>13, <3>1, <3>5
    <3>7. QED BY <1>4, <3>1, <3>2, <3>6
  <2>5. ASSUME NEW k \in 1 .. Len(q2)
        PROVE Ent(s2, 0, LemmaLits(q2[k])) /\ (~q2[k].sorted => q2[k].w = <<>>)
    <3>1. PICK z \in Nat : z = 0 OBVIOUS
    <3>2. k \in 1 .. Len(lemmas) BY <2>3
    <3>3. Ent(s, z, LemmaLits(lemmas[k])) BY <2>1, <3>1, <3>2 DEF Queue
    <3>4. Ent(s2, z, LemmaLits(lemmas[k])) BY <1>4, <1>12, <3>1, <3>3
    <3>5. ~lemmas[k].sorted => lemmas[k].w = <<>> BY <2>1, <3>2 DEF Queue
    <3>6. QED BY <2>3, <3>1, <3>2, <3>4, <3>5
  <2>6. Queue(q2, s2, int2, bl) BY <2>3, <2>4, <2>5 DEF Queue
  <2>7. Fresh(q2) BY <1>3, <2>3 DEF Fresh
  <2>8. q2 # <<>> => lemmas # <<>> BY <2>3
  <2>9. QED BY <2>6, <2>7, <2>8, FreshIsReady
<1>21. Len(t2) \in 1 .. Len(t2) /\ DecisionLevel(t2) = 0
  <2>1. Len(t2) \in 1 .. Len(t2) BY <1>9 DEF Shape
  <2>2. QED BY <1>8, <2>1 DEF DecisionLevel
<1>22. Protocol(pc, at, t2, qhead', q2) BY <1>2, <1>3, <1>20, <1>21 DEF Protocol
<1>23. Pending(pc, at, t2, qhead', db2)
  <2>1. qhead' \in 0 .. Len(t2) /\ \A i \in 1 .. Len(t2) : i <= qhead' BY <1>2, <1>5, <1>6
  <2>2. \A i \in 1 .. Len(t2) : i > qhead' => t2[i].level = DecisionLevel(t2)
    BY <1>8, <1>21
  <2>3. QED BY <1>3, <2>1, <2>2, NoTodo
<1>24. Conflict(pc, at, t2, db2, s2, bl) BY <1>3, NoConflict
<1>25. Resolvent(pc, at, t2, s2, int2, bl) BY <1>2, NoResolvent
<1>26. Verdicts(ok', trailOk', "none", s2, bl)
  <2> DEFINE o == trailOk'
  <2>1. /\ trailOk \in Seq(BOOLEAN) /\ Len(trailOk) = al
        /\ \A k \in 1 .. al : ~trailOk[k] => Ent(s, k - 1, {})
    BY DEF IInv, Verdicts
  <2>2. /\ o \in Seq(BOOLEAN) /\ Len(o) = bl /\ \A k \in 1 .. bl : o[k] = trailOk[k]
    BY <1>2, <1>4, <2>1
  <2> HIDE DEF o
  <2>3. ok' = trailOk[al] /\ al \in 1 .. al BY <1>2, <1>4
  <2>4. ok' \in BOOLEAN BY <2>1, <2>3
  <2>5. ASSUME ~ok' PROVE Ent(s2, bl, {})
    <3>1. Ent(s, al - 1, {}) BY <2>1, <2>3, <2>5
    <3>2. QED BY <1>4, <1>12, <3>1
  <2>6. ASSUME NEW k \in 1 .. bl, ~o[k] PROVE Ent(s2, k - 1, {})
    <3>1. Ent(s, k - 1, {}) BY <1>4, <2>1, <2>2, <2>6
    <3>2. k - 1 \in Nat /\ k - 1 <= bl BY <1>4
    <3>3. QED BY <1>12, <3>1, <3>2
  <2>7. QED BY <2>2, <2>4, <2>5, <2>6 DEF Verdicts, o
<1>27. Assigned(t2, db2, s2, int2, bl) BY <1>9, <1>15, <1>16, <1>18 DEF Assigned
<1>28. /\ Assigned(trail, clauses, inputs, intro, assertionLevel)'
       /\ Db(clauses, inputs, intro, assertionLevel)'
       /\ Queue(lemmas, inputs, intro, assertionLevel)'
       /\ ReadyQueue(lemmas, trail, Bound, at.conflict)'
       /\ Protocol(pc, at, trail, qhead, lemmas)'
  BY <1>1, <1>2, <1>19, <1>20, <1>22, <1>27 DEF s2, t2, db2, int2, q2
<1>29. /\ Pending(pc, at, trail, qhead, clauses)'
       /\ Conflict(pc, at, trail, clauses, inputs, assertionLevel)'
       /\ Resolvent(pc, at, trail, inputs, intro, assertionLevel)'
       /\ Verdicts(ok, trailOk, answer, inputs, assertionLevel)'
  BY <1>1, <1>2, <1>23, <1>24, <1>25, <1>26 DEF s2, t2, db2, int2
<1>30. QED BY <1>14, <1>28, <1>29 DEF IInv

-----------------------------------------------------------------------------
(* An empty queue.                                                           *)
LEMMA NoLemmas ==
  ASSUME NEW q, q = <<>>, NEW s, NEW int, NEW al, NEW t, NEW b, NEW c
  PROVE Queue(q, s, int, al) /\ ReadyQueue(q, t, b, c) /\ Live(q) /\ Fresh(q)
<1>1. q \in Seq(LemmaType) /\ Len(q) = 0 OBVIOUS
<1>2. QED BY <1>1 DEF Queue, ReadyQueue, Live, Fresh

(* No variable is created.                                                   *)
LEMMA GrownSame ==
  ASSUME NEW int
  PROVE Grown(int, int)
BY DEF Grown

(* A lemma that answers a preregistration.                                   *)
LEMMA RegistrationFacts ==
  ASSUME IInv, NEW q, Queue(q, inputs, intro, assertionLevel), NEW t,
         Shape(t, assertionLevel), Valued(t, inputs), NEW bounds \in Setting,
         Registration(q, t, bounds), NEW u, NEW b, NEW c, ReadyQueue(q, u, b, c)
  PROVE /\ Queue(lemmas', inputs, intro', assertionLevel) /\ ReadyQueue(lemmas', u, b, c)
        /\ Vars(intro', assertionLevel) /\ Grown(intro, intro') /\ left' \in Setting
        /\ (Live(q) => Live(lemmas')) /\ (Fresh(q) => Fresh(lemmas'))
<1>1. assertionLevel \in Nat /\ Vars(intro, assertionLevel) BY Facts DEF IInv, Base
<1>2. CASE lemmas' = q /\ left' = bounds /\ intro' = intro BY <1>1, <1>2, GrownSame
<1>3. CASE /\ bounds.lemmas > 0 /\ left' = [bounds EXCEPT !.lemmas = @ - 1]
           /\ \E L \in Theory : lemmas' = QueueLemma(q, t, L, FALSE) /\ intro' = Created(L)
  <2>1. PICK L \in Theory : lemmas' = QueueLemma(q, t, L, FALSE) /\ intro' = Created(L)
    BY <1>3
  <2>2. PICK f \in BOOLEAN : f = FALSE OBVIOUS
  <2>3. LET p == QueueLemma(q, t, L, f)
        IN  /\ Queue(p, inputs, Created(L), assertionLevel) /\ ReadyQueue(p, u, b, c)
            /\ Len(q) <= Len(p)
            /\ (Live(q) => Live(p)) /\ (Fresh(q) => Fresh(p))
    BY <1>1, QueueLemmaFacts
  <2>4. lemmas' = QueueLemma(q, t, L, f) /\ intro' = Created(L) BY <2>1, <2>2
  <2>5. Vars(intro', assertionLevel) /\ Grown(intro, intro') BY <1>1, <2>4, CreatedFacts
  <2>6. left' \in Setting BY <1>3 DEF Setting
  <2>7. QED BY <2>3, <2>4, <2>5, <2>6
<1>4. QED BY <1>2, <1>3 DEF Registration

(* A trail is cut while variables are created.                               *)
LEMMA AssignedCut ==
  ASSUME NEW t, NEW u, NEW al, NEW db, NEW s, NEW int, NEW int2, Assigned(t, db, s, int, al),
         Shape(u, al), Begins(u, t), \A i \in 1 .. Len(u) : u[i] = t[i], Grown(int, int2)
  PROVE Assigned(u, db, s, int2, al)
<1>1. Shape(t, al) /\ Known(t, int) /\ Valued(t, s) /\ Reasons(t, db) BY DEF Assigned
<1>2. Known(u, int) BY <1>1, KnownCut
<1>3. Known(u, int2) BY <1>2, KnownGrown
<1>4. Valued(u, s) BY <1>1, ValuedCut
<1>5. ASSUME NEW i \in 1 .. Len(u), u[i].reason > 0
      PROVE /\ u[i].reason = t[i].reason
            /\ u[i].reason \in DOMAIN db /\ db[u[i].reason] = db[u[i].reason]
  <2>1. i \in 1 .. Len(t) /\ u[i] = t[i] BY <1>1 DEF Begins, Shape
  <2>2. QED BY <1>1, <1>5, <2>1 DEF Reasons
<1>6. Reasons(u, db) BY <1>1, <1>5, ReasonsKept
<1>7. QED BY <1>3, <1>4, <1>6 DEF Assigned

(* What is enqueued at the bottom must be entailed.                          *)
Justified(d, s, l) == d = 0 => Ent(s, assertionLevel, {l})

(* An arena with all that there was keeps the reasons.                       *)
LEMMA KeepsReasonsMore ==
  ASSUME NEW t, NEW db, Reasons(t, db), NEW e, \A r \in DOMAIN db : r \in DOMAIN e /\ e[r] = db[r]
  PROVE KeepsReasons(t, db, e)
BY DEF Reasons, KeepsReasons

(* A literal is enqueued.                                                    *)
LEMMA AssignedEnqueued ==
  ASSUME assertionLevel \in Nat, NEW t, NEW db, NEW s, NEW int,
         Assigned(t, db, s, int, assertionLevel),
         NEW l \in AtomLits, IsUndef(t, l), NEW from \in Int, from >= -1,
         NEW d \in Nat, DecisionLevel(t) <= d, int[Var(l)] \in 0 .. assertionLevel,
         Justified(d, s, l), NEW e,
         KeepsReasons(t, db, e), Implies(t, e, from, l)
  PROVE LET u == Enqueue(t, l, from, d)
        IN  /\ Assigned(u, e, s, int, assertionLevel) /\ Begins(t, u) /\ DecisionLevel(u) = d
            /\ Len(u) = Len(t) + 1 /\ \A i \in 1 .. Len(t) : u[i] = t[i]
            /\ u[Len(t) + 1].level = d /\ u[Len(t) + 1].lit = l
            /\ Shape(u, assertionLevel)
<1> DEFINE u == Enqueue(t, l, from, d)
           al == assertionLevel
<1>1. Shape(t, al) /\ Known(t, int) /\ Valued(t, s) /\ Reasons(t, db) BY DEF Assigned
<1>2. /\ Shape(u, al) /\ Begins(t, u) /\ DecisionLevel(u) = d
      /\ Len(u) = Len(t) + 1 /\ \A i \in 1 .. Len(t) : u[i] = t[i]
      /\ u[Len(t) + 1].lit = l /\ u[Len(t) + 1].reason = from
      /\ u[Len(t) + 1].level = d /\ u[Len(t) + 1].ulevel = al
  BY <1>1, EnqueueFacts
<1> HIDE DEF u
<1>3. Known(u, int) BY <1>1, <1>2, KnownEnqueued
<1>4. Valued(u, s)
  <2>1. u[Len(t) + 1].level = 0 => Ent(s, al, {u[Len(t) + 1].lit}) BY <1>2 DEF Justified
  <2>2. QED BY <1>1, <1>2, <2>1, ValuedEnqueued
<1>5. Reasons(u, e)
  <2>1. Implies(t, e, u[Len(t) + 1].reason, u[Len(t) + 1].lit) BY <1>2
  <2>2. QED BY <1>1, <1>2, <2>1, ReasonsEnqueued
<1>6. Assigned(u, e, s, int, al) BY <1>2, <1>3, <1>4, <1>5 DEF Assigned
<1>7. QED BY <1>2, <1>6 DEF u

(* After cancelUntil(0), with nothing sorted in the queue.                   *)
LEMMA ToTheBottom ==
  ASSUME IInv, trail' = CancelUntil(trail, 0), at' = Start("search"),
         pc' \in {"idle", "propagate", "solved"}, qhead' \in 0 .. Len(trail'),
         Queue(lemmas', inputs, intro', assertionLevel), Fresh(lemmas'),
         pc' = "solved" => Live(lemmas'),
         Vars(intro', assertionLevel), Grown(intro, intro'),
         UNCHANGED <<clauses, ok, trailOk, inputs, assertionLevel, cores>>,
         answer' = "unknown" \/ answer' = answer, left' \in Setting, spent' \in BOOLEAN
  PROVE IInv'
<1> DEFINE t == trail
           t2 == CancelUntil(trail, 0)
           al == assertionLevel
<1>1. Shape(t, al) /\ al \in Nat BY Facts
<1>2. /\ Shape(t2, al) /\ Begins(t2, t) /\ DecisionLevel(t2) <= 0
      /\ Len(t2) \in 1 .. Len(t)
      /\ \A i \in 1 .. Len(t2) : t2[i] = t[i]
      /\ \A i \in 1 .. Len(t) : t[i].level <= 0 <=> i <= Len(t2)
  BY <1>1, CancelFacts
<1>3. trail' = t2 OBVIOUS
<1> HIDE DEF t2
<1>4. Assigned(t2, clauses, inputs, intro', al)
  BY <1>2, AssignedCut DEF IInv
<1>5. /\ at' \in Locals /\ at'.caller = "search" /\ at'.todo = {} /\ at'.conflict = Undef
  BY StartFacts
<1>6. Base(inputs, intro, assertionLevel, left, cores, spent)' BY NewBase DEF IInv, Base
<1>7. /\ Assigned(trail, clauses, inputs, intro, assertionLevel)'
      /\ Db(clauses, inputs, intro, assertionLevel)'
  <2>1. Db(clauses, inputs, intro, al) BY DEF IInv
  <2>2. \A k \in 1 .. al + 1 : inputs[k] \subseteq inputs[k] OBVIOUS
  <2>3. Db(clauses, inputs, intro', al) BY <1>1, <2>1, <2>2, DbMore
  <2>4. QED BY <1>3, <1>4, <2>3
<1>8. /\ Queue(lemmas, inputs, intro, assertionLevel)'
      /\ ReadyQueue(lemmas, trail, Bound, at.conflict)'
  BY FreshIsReady
<1>9. \A i \in 1 .. Len(t2) : t2[i].level = 0
  <2>1. TAKE i \in 1 .. Len(t2)
  <2>2. t2[i].level \in Nat /\ t2[i].level <= DecisionLevel(t2) /\ DecisionLevel(t2) \in Nat
    BY <1>2, EntryFacts
  <2>3. QED BY <1>2, <2>2
<1>10. DecisionLevel(t2) = 0
  <2>1. Len(t2) \in 1 .. Len(t2) BY <1>2 DEF Shape
  <2>2. QED BY <1>9, <2>1 DEF DecisionLevel
<1>11. Protocol(pc, at, trail, qhead, lemmas)' BY <1>3, <1>5, <1>10 DEF Protocol
<1>12. Pending(pc, at, trail, qhead, clauses)' BY <1>3, <1>5, <1>9, <1>10, NoTodo
<1>13. Conflict(pc, at, trail, clauses, inputs, assertionLevel)' BY <1>5, NoConflict
<1>14. Resolvent(pc, at, trail, inputs, intro, assertionLevel)' BY NoResolvent
<1>15. Verdicts(ok, trailOk, answer, inputs, assertionLevel)' BY DEF IInv, Verdicts
<1>16. QED BY <1>6, <1>7, <1>8, <1>11, <1>12, <1>13, <1>14, <1>15 DEF IInv

(* resetTrail undoes all decisions.                                          *)
LEMMA ResetTrailStep ==
  ASSUME IInv, ResetTrail
  PROVE IInv'
<1> DEFINE t2 == CancelUntil(trail, 0)
<1>1. UNCHANGED <<clauses, intro, assertionLevel, ok, trailOk, lemmas, answer,
                 model, inputs, cores, left, spent>>
  BY DEF ResetTrail
<1>2. /\ pc = "solved" /\ pc' = "idle" /\ at' = Start("search") /\ trail' = t2
      /\ qhead' = IF DecisionLevel(trail) > 0 THEN Len(t2) ELSE qhead
  BY DEF ResetTrail
<1>3. /\ Queue(lemmas', inputs, intro', assertionLevel) /\ Fresh(lemmas')
      /\ Vars(intro', assertionLevel) /\ Grown(intro, intro')
  BY <1>1, <1>2, Facts, GrownSame DEF IInv, Base
<1>4. /\ Len(t2) \in 1 .. Len(trail) /\ (DecisionLevel(trail) <= 0 => t2 = trail)
  BY Facts, CancelFacts
<1>5. qhead \in 0 .. Len(trail) /\ Len(trail) \in Nat /\ DecisionLevel(trail) \in Nat BY Facts
<1>6. trail' = CancelUntil(trail, 0) BY <1>2
<1> HIDE DEF t2
<1>7. qhead' \in 0 .. Len(trail') BY <1>2, <1>4, <1>5
<1>8. left' \in Setting /\ spent' \in BOOLEAN BY <1>1 DEF IInv, Base
<1>9. pc' # "solved" BY <1>2
<1>10. QED BY <1>1, <1>2, <1>3, <1>6, <1>7, <1>8, <1>9, ToTheBottom

(* search starts again.                                                      *)
LEMMA RestartStep ==
  ASSUME IInv, Restart
  PROVE IInv'
<1> DEFINE al == assertionLevel
           t2 == CancelUntil(trail, 0)
           Backtracked(bounds) == IF DecisionLevel(trail) > 0
                                    THEN Registration(lemmas, trail', bounds)
                                    ELSE left' = bounds /\ UNCHANGED <<lemmas, intro>>
<1>1. UNCHANGED <<clauses, ok, model, assertionLevel, trailOk, inputs, cores>>
  BY DEF Restart, Fixed
<1>2. pc = "return" /\ at' = Start("search") /\ trail' = t2 /\ qhead' = Len(trail')
  BY DEF Restart, Searching
<1>3. \/ /\ pc' = "propagate" /\ left.restarts > 0 /\ UNCHANGED <<answer, spent>>
         /\ Backtracked([left EXCEPT !.restarts = @ - 1])
      \/ /\ pc' = "solved" /\ answer' = "unknown" /\ spent' = TRUE
         /\ Backtracked(left)
  BY DEF Restart
<1>4. left \in Setting /\ spent \in BOOLEAN /\ Vars(intro, al) BY DEF IInv, Base
<1>5. PICK bounds \in Setting : Backtracked(bounds)
  <2> HIDE DEF Backtracked
  <2>1. left.restarts > 0 => [left EXCEPT !.restarts = @ - 1] \in Setting
    BY <1>4 DEF Setting
  <2>2. QED BY <1>3, <1>4, <2>1
<1>6. lemmas = <<>> BY <1>2, Facts
<1>7. /\ Len(t2) \in 1 .. Len(trail) /\ Shape(t2, al) /\ Begins(t2, trail)
      /\ \A i \in 1 .. Len(t2) : t2[i] = trail[i]
  BY Facts, CancelFacts
<1> HIDE DEF t2
<1>8. PICK u : u = trail OBVIOUS
<1>9. /\ Queue(lemmas, inputs, intro, al) /\ ReadyQueue(lemmas, u, 0, 0)
      /\ Live(lemmas) /\ Fresh(lemmas)
  BY <1>6, NoLemmas
<1>10. /\ Queue(lemmas', inputs, intro', al) /\ Live(lemmas') /\ Fresh(lemmas')
       /\ Vars(intro', al) /\ Grown(intro, intro') /\ left' \in Setting
  <2>1. CASE DecisionLevel(trail) > 0
    <3>1. Registration(lemmas, t2, bounds) BY <1>2, <1>5, <2>1
    <3>2. Valued(trail, inputs) BY DEF IInv, Assigned
    <3>3. Valued(t2, inputs) BY <1>7, <3>2, Facts, ValuedCut
    <3>4. QED BY <1>7, <1>9, <3>1, <3>3, RegistrationFacts
  <2>2. CASE ~(DecisionLevel(trail) > 0)
    <3>1. left' = bounds /\ UNCHANGED <<lemmas, intro>> BY <1>5, <2>2
    <3>2. QED BY <1>4, <1>9, <3>1, GrownSame
  <2>3. QED BY <2>1, <2>2
<1>11. qhead' \in 0 .. Len(trail') BY <1>2, <1>7
<1>12. spent' \in BOOLEAN /\ (answer' = "unknown" \/ answer' = answer) BY <1>3, <1>4
<1>13. trail' = CancelUntil(trail, 0) /\ pc' \in {"idle", "propagate", "solved"}
  BY <1>2, <1>3 DEF t2
<1>14. QED BY <1>1, <1>2, <1>10, <1>11, <1>12, <1>13, ToTheBottom

-----------------------------------------------------------------------------
(* Clauses that are no reason can go.                                        *)

(* reduceDB removes clauses that are no reason.                              *)
LEMMA ReduceDBStep ==
  ASSUME IInv, ReduceDB
  PROVE IInv'
<1>1. UNCHANGED <<trail, qhead, lemmas, pc, at, assertionLevel, trailOk, inputs, cores,
                  intro, ok, answer, model, left, spent>>
  BY DEF ReduceDB, Inside, Fixed
<1>2. PICK R : /\ pc = "decide" /\ clauses' = Detach(clauses, R)
               /\ \A r \in R : ~Locked(trail, clauses, r)
  BY DEF ReduceDB
<1>3. /\ lemmas = <<>> /\ at.todo = {} /\ at.conflict = Undef /\ Shape(trail, assertionLevel)
  BY <1>2, Facts
<1>4. /\ DOMAIN clauses' = DOMAIN clauses \ R /\ \A r \in DOMAIN clauses' : clauses'[r] = clauses[r]
  BY <1>2 DEF Detach
<1>5. Assigned(trail, clauses', inputs, intro, assertionLevel)
  <2>1. Reasons(trail, clauses) BY DEF IInv, Assigned
  <2>2. ASSUME NEW i \in 1 .. Len(trail), trail[i].reason > 0
        PROVE /\ trail[i].reason = trail[i].reason
              /\ trail[i].reason \in DOMAIN clauses'
              /\ clauses'[trail[i].reason] = clauses[trail[i].reason]
    <3>1. trail[i].reason \in DOMAIN clauses /\ clauses[trail[i].reason].w[1] = trail[i].lit
      BY <2>1, <2>2 DEF Reasons
    <3>2. i \in DOMAIN trail BY <1>3, EntryFacts
    <3>3. Locked(trail, clauses, trail[i].reason) BY <3>1, <3>2 DEF Locked
    <3>4. QED BY <1>2, <1>4, <3>1, <3>3
  <2>3. Begins(trail, trail) BY Facts DEF Begins
  <2>4. Reasons(trail, clauses') BY <1>3, <2>1, <2>2, <2>3, ReasonsKept
  <2>5. QED BY <2>4 DEF IInv, Assigned
<1>6. Db(clauses', inputs, intro, assertionLevel) BY <1>2, DbDetach DEF IInv
<1>7. Base(inputs, intro, assertionLevel, left, cores, spent)' BY <1>1, SameBase DEF IInv
<1>8. /\ Queue(lemmas, inputs, intro, assertionLevel)'
      /\ ReadyQueue(lemmas, trail, Bound, at.conflict)'
  BY <1>1, <1>3, NoLemmas
<1>9. Protocol(pc, at, trail, qhead, lemmas)' BY <1>1 DEF IInv
<1>10. Pending(pc, at, trail, qhead, clauses)' BY <1>1, <1>3, Facts, NoTodo
<1>11. Conflict(pc, at, trail, clauses, inputs, assertionLevel)' BY <1>1, <1>3, NoConflict
<1>12. Resolvent(pc, at, trail, inputs, intro, assertionLevel)' BY <1>1, <1>2, NoResolvent
<1>13. Verdicts(ok, trailOk, answer, inputs, assertionLevel)' BY <1>1 DEF IInv
<1>14. /\ Assigned(trail, clauses, inputs, intro, assertionLevel)'
       /\ Db(clauses, inputs, intro, assertionLevel)'
  BY <1>1, <1>5, <1>6
<1>15. QED BY <1>7, <1>8, <1>9, <1>10, <1>11, <1>12, <1>13, <1>14 DEF IInv

(* simplify removes satisfied clauses.                                       *)
LEMMA SimplifyStep ==
  ASSUME IInv, Simplify
  PROVE IInv'
<1> DEFINE t2 == trail'
<1>1. UNCHANGED <<qhead, lemmas, pc, at, assertionLevel, trailOk, inputs, cores,
                  intro, ok, answer, model, left, spent>>
  BY DEF Simplify, Inside, Fixed
<1>2. PICK R : /\ pc = "decide" /\ DecisionLevel(trail) = 0
               /\ clauses' = Detach(clauses, R) /\ t2 = Unlock(trail, R)
  BY DEF Simplify
<1>3. /\ lemmas = <<>> /\ at.todo = {} /\ at.conflict = Undef /\ Shape(trail, assertionLevel)
      /\ at.caller = "search" /\ qhead = Len(trail) /\ at \in Locals
  BY <1>2, Facts DEF IInv, Protocol
<1>4. /\ DOMAIN clauses' = DOMAIN clauses \ R /\ \A r \in DOMAIN clauses' : clauses'[r] = clauses[r]
  BY <1>2 DEF Detach
<1> HIDE DEF t2
<1>5. /\ Shape(t2, assertionLevel) /\ Begins(trail, t2) /\ Begins(t2, trail)
      /\ DecisionLevel(t2) = 0 /\ Len(t2) = Len(trail)
      /\ \A i \in 1 .. Len(trail) :
           t2[i].reason = IF trail[i].reason \in R THEN Undef ELSE trail[i].reason
  BY <1>2, <1>3, UnlockFacts
<1>6. Assigned(t2, clauses', inputs, intro, assertionLevel)
  <2>1. Reasons(trail, clauses) /\ Known(trail, intro) /\ Valued(trail, inputs)
    BY DEF IInv, Assigned
  <2>2. ASSUME NEW i \in 1 .. Len(t2), t2[i].reason > 0
        PROVE /\ t2[i].reason = trail[i].reason
              /\ t2[i].reason \in DOMAIN clauses'
              /\ clauses'[t2[i].reason] = clauses[t2[i].reason]
    <3>1. i \in 1 .. Len(trail) /\ trail[i].reason \notin R /\ t2[i].reason = trail[i].reason
      BY <1>5, <2>2 DEF Undef
    <3>2. trail[i].reason \in DOMAIN clauses BY <2>1, <2>2, <3>1 DEF Reasons
    <3>3. QED BY <1>4, <3>1, <3>2
  <2>3. Reasons(t2, clauses') BY <1>3, <1>5, <2>1, <2>2, ReasonsKept
  <2>4. Known(t2, intro) BY <1>3, <1>5, <2>1, KnownCut
  <2>5. Valued(t2, inputs) BY <1>3, <1>5, <2>1, ValuedCut
  <2>6. QED BY <1>5, <2>3, <2>4, <2>5 DEF Assigned
<1>7. Db(clauses', inputs, intro, assertionLevel) BY <1>2, DbDetach DEF IInv
<1>8. Base(inputs, intro, assertionLevel, left, cores, spent)' BY <1>1, SameBase DEF IInv
<1>9. /\ Queue(lemmas, inputs, intro, assertionLevel)'
      /\ ReadyQueue(lemmas, trail, Bound, at.conflict)'
  BY <1>1, <1>3, NoLemmas
<1>10. Protocol(pc, at, t2, qhead, lemmas) BY <1>2, <1>3, <1>5 DEF Protocol
<1>11. Pending(pc, at, t2, qhead, clauses')
  <2>1. \A i \in 1 .. Len(t2) : i <= qhead /\ qhead \in 0 .. Len(t2) BY <1>3, <1>5, Facts
  <2>2. qhead \in 0 .. Len(t2) BY <1>3, <1>5, Facts
  <2>3. \A i \in 1 .. Len(t2) : i > qhead => t2[i].level = DecisionLevel(t2) BY <2>1, <2>2
  <2>4. QED BY <1>3, <2>2, <2>3, NoTodo
<1>12. Conflict(pc, at, trail, clauses, inputs, assertionLevel)' BY <1>1, <1>3, NoConflict
<1>13. Resolvent(pc, at, trail, inputs, intro, assertionLevel)' BY <1>1, <1>2, NoResolvent
<1>14. Verdicts(ok, trailOk, answer, inputs, assertionLevel)' BY <1>1 DEF IInv
<1>15. /\ Assigned(trail, clauses, inputs, intro, assertionLevel)'
       /\ Db(clauses, inputs, intro, assertionLevel)'
       /\ Protocol(pc, at, trail, qhead, lemmas)'
       /\ Pending(pc, at, trail, qhead, clauses)'
  BY <1>1, <1>6, <1>7, <1>10, <1>11 DEF t2
<1>16. QED BY <1>8, <1>9, <1>12, <1>13, <1>14, <1>15 DEF IInv

(* A decision, or the full check.                                            *)
LEMMA DecideStep ==
  ASSUME IInv, Decide
  PROVE IInv'
<1> DEFINE d == DecisionLevel(trail) + 1
           al == assertionLevel
<1>1. UNCHANGED <<clauses, qhead, lemmas, assertionLevel, trailOk, inputs, cores,
                  intro, ok, answer, model, left, spent>>
  BY DEF Decide, Inside, Fixed
<1>2. pc = "decide" /\ pc' = "propagate" BY DEF Decide
<1>3. /\ lemmas = <<>> /\ at.todo = {} /\ at.conflict = Undef /\ Shape(trail, al)
      /\ at.caller = "search" /\ qhead = Len(trail) /\ at \in Locals /\ al \in Nat
      /\ Len(trail) \in Nat
  BY <1>2, Facts DEF IInv, Protocol
<1>4. Base(inputs, intro, assertionLevel, left, cores, spent)' BY <1>1, SameBase DEF IInv
<1>5. Verdicts(ok, trailOk, answer, inputs, assertionLevel)' BY <1>1 DEF IInv
<1>6. CASE \E l \in FreeLiterals : trail' = Enqueue(trail, l, Undef, d) /\ at' = at
  <2>1. PICK l \in FreeLiterals : trail' = Enqueue(trail, l, Undef, d) /\ at' = at BY <1>6
  <2>2. /\ l \in AtomLits /\ intro[Var(l)] >= 0 /\ IsUndef(trail, l)
    BY <2>1, LiteralsAre DEF FreeLiterals
  <2>3. Var(l) \in Atoms BY <2>2, AtomLitFacts
  <2>4. intro[Var(l)] \in 0 .. al BY <1>3, <2>2, <2>3 DEF IInv, Base, Vars
  <2>5. d \in Nat /\ DecisionLevel(trail) <= d /\ d > 0 /\ d # 0 BY Facts
  <2>6. Undef \in Int /\ Undef >= -1 /\ ~(Undef > 0) BY DEF Undef
  <2>7. Assigned(trail, clauses, inputs, intro, al) BY DEF IInv
  <2>8. KeepsReasons(trail, clauses, clauses)
    BY <2>7, KeepsReasonsMore DEF Assigned
  <2>18. Justified(d, inputs, l) BY <2>5 DEF Justified
  <2>19. Implies(trail, clauses, Undef, l) BY <2>6 DEF Implies
  <2> HIDE DEF d
  <2> DEFINE u == Enqueue(trail, l, Undef, d)
  <2>9. /\ Assigned(u, clauses, inputs, intro, al) /\ DecisionLevel(u) = d
        /\ Len(u) = Len(trail) + 1 /\ u[Len(trail) + 1].level = d
    BY <1>3, <2>2, <2>4, <2>5, <2>6, <2>7, <2>8, <2>18, <2>19, AssignedEnqueued
  <2>10. trail' = u BY <2>1
  <2> HIDE DEF u
  <2>11. /\ Assigned(trail, clauses, inputs, intro, assertionLevel)'
         /\ Db(clauses, inputs, intro, assertionLevel)'
    BY <1>1, <2>9, <2>10 DEF IInv
  <2>12. /\ Queue(lemmas, inputs, intro, assertionLevel)'
         /\ ReadyQueue(lemmas, trail, Bound, at.conflict)'
    BY <1>1, <1>3, NoLemmas
  <2>13. Protocol(pc, at, trail, qhead, lemmas)' BY <1>1, <1>2, <1>3, <2>1 DEF Protocol
  <2>14. Pending(pc, at, trail, qhead, clauses)'
    <3>1. qhead' \in 0 .. Len(u) BY <1>1, <1>3, <2>9
    <3>2. \A i \in 1 .. Len(u) : i > qhead' => i = Len(trail) + 1 BY <1>1, <1>3, <2>9
    <3>3. \A i \in 1 .. Len(u) : i > qhead' => u[i].level = DecisionLevel(u) BY <2>9, <3>2
    <3>4. QED BY <1>3, <2>1, <2>10, <3>1, <3>3, NoTodo
  <2>15. Conflict(pc, at, trail, clauses, inputs, assertionLevel)' BY <1>3, <2>1, NoConflict
  <2>16. Resolvent(pc, at, trail, inputs, intro, assertionLevel)' BY <1>2, NoResolvent
  <2>17. QED BY <1>4, <1>5, <2>11, <2>12, <2>13, <2>14, <2>15, <2>16 DEF IInv
<1>7. CASE at' = [at EXCEPT !.check = "final"] /\ trail' = trail
  <2>1. /\ at' \in Locals /\ at'.caller = "search" /\ at'.todo = {} /\ at'.conflict = Undef
    BY <1>3, <1>7, NewCheck
  <2>2. Protocol(pc, at, trail, qhead, lemmas)' BY <1>1, <1>2, <1>3, <2>1 DEF Protocol
  <2>3. Conflict(pc, at, trail, clauses, inputs, assertionLevel)' BY <2>1, NoConflict
  <2>4. pc' # "analyze" BY <1>2
  <2>5. QED BY <1>1, <1>3, <1>4, <1>5, <1>7, <2>1, <2>2, <2>3, <2>4, Control
<1>8. QED BY <1>6, <1>7 DEF Decide

-----------------------------------------------------------------------------
(* The literals are finitely many.                                           *)
LEMMA AtomLitsFinite == IsFiniteSet(AtomLits)
<1> DEFINE N == {-a : a \in Atoms}
<1>1. IsFiniteSet(N)
  <2> DEFINE f == [a \in Atoms |-> -a]
  <2>1. f \in Surjection(Atoms, N) BY DEF Surjection
  <2>2. QED BY <2>1, Constants, FS_Surjection
<1>2. IsFiniteSet(Atoms \cup N) BY <1>1, Constants, FS_Union
<1>3. QED BY <1>2 DEF AtomLits

(* Latest finds the literal assigned last.                                   *)
LEMMA LatestIs ==
  ASSUME NEW al, Shape(trail, al), NEW S, S \subseteq Literals, S # {}
  PROVE Latest(S) \in S /\ \A k \in S : At(trail, k) <= At(trail, Latest(S))
<1> DEFINE T == {At(trail, k) : k \in S}
<1>1. Len(trail) \in Nat /\ \A k \in S : At(trail, k) \in 0 .. Len(trail)
  <2>1. Len(trail) \in Nat BY DEF Shape
  <2>2. ASSUME NEW k \in S PROVE At(trail, k) \in 0 .. Len(trail)
    <3>1. k \in Literals OBVIOUS
    <3>2. QED BY <3>1, Undefined
  <2>3. QED BY <2>1, <2>2
<1>2. T \subseteq 0 .. Len(trail) /\ T # {} BY <1>1
<1>3. MaxOf(T) \in T /\ \A y \in T : y <= MaxOf(T) BY <1>1, <1>2, MaxIs
<1>4. PICK l \in S : At(trail, l) = MaxOf(T) BY <1>3
<1>5. \A k \in S : At(trail, k) <= At(trail, l) BY <1>3, <1>4
<1>6. QED BY <1>5 DEF Latest

(* What is assigned exists.                                                  *)
LEMMA AssignedExists ==
  ASSUME IInv, NEW l \in AtomLits, IsTrue(trail, l) \/ IsFalse(trail, l)
  PROVE /\ intro[Var(l)] \in 0 .. UserLevelOf(trail, l)
        /\ UserLevelOf(trail, l) \in Nat /\ UserLevelOf(trail, l) <= assertionLevel
        /\ intro[Var(l)] \in 0 .. assertionLevel
        /\ At(trail, l) \in 2 .. Len(trail)
<1> DEFINE i == At(trail, l)
<1>1. Shape(trail, assertionLevel) /\ Len(trail) \in Nat /\ assertionLevel \in Nat BY Facts
<1>2. l \in Literals /\ l # VarTrue /\ l # -VarTrue /\ l \in Int BY AtomLitFacts
<1>3. i \in 1 .. Len(trail) /\ (trail[i].lit = l \/ trail[i].lit = -l)
  BY <1>1, <1>2, AtTrue, AtFalse
<1> HIDE DEF i
<1>4. i # 1
  <2>1. ASSUME i = 1 PROVE FALSE
    <3>1. trail[i].lit = VarTrue BY <1>1, <1>3, <2>1, EntryFacts
    <3>2. VarTrue \in Int BY Constants
    <3>3. QED BY <1>2, <1>3, <3>1, <3>2
  <2>2. QED BY <2>1
<1>5. i \in 2 .. Len(trail) BY <1>1, <1>3, <1>4
<1>6. intro[Var(trail[i].lit)] \in 0 .. trail[i].ulevel BY <1>5 DEF IInv, Assigned, Known
<1>7. Var(trail[i].lit) = Var(l) BY <1>2, <1>3, LitFacts
<1>8. trail[i].ulevel \in Nat /\ trail[i].ulevel <= assertionLevel BY <1>1, <1>3, EntryFacts
<1>9. UserLevelOf(trail, l) = trail[i].ulevel BY DEF UserLevelOf, i
<1>10. intro[Var(l)] \in 0 .. assertionLevel BY <1>1, <1>6, <1>7, <1>8
<1>11. QED BY <1>5, <1>6, <1>7, <1>8, <1>9, <1>10 DEF i

(* The literals of a clause that are resolved on, and the level kept for the *)
(* others.                                                                   *)
LEMMA ResolvedFacts ==
  ASSUME IInv, NEW r \in DOMAIN clauses, NEW S, S \subseteq Lits(clauses[r]),
         \A l \in S : IsFalse(trail, l)
  PROVE /\ Level(r, S) \in 0 .. assertionLevel /\ clauses[r].level <= Level(r, S)
        /\ clauses[r].level \in Nat
        /\ Resolved(S) \subseteq AtomLits /\ Resolved(S) \subseteq S
        /\ \A l \in Resolved(S) : /\ IsFalse(trail, l) /\ LevelOf(trail, l) > 0
                                  /\ intro[Var(l)] \in 0 .. Level(r, S)
        /\ \A l \in S \ Resolved(S) : /\ LevelOf(trail, l) = 0
                                      /\ UserLevelOf(trail, l) <= Level(r, S)
<1> DEFINE c == clauses[r]
           al == assertionLevel
           X == {c.level} \cup {UserLevelOf(trail, l) : l \in S \ Resolved(S)}
           n == Level(r, S)
<1>1. Shape(trail, al) /\ al \in Nat /\ Sound(c, inputs, intro, al) BY Facts
<1>2. Lits(c) \subseteq ClauseLits /\ c.level \in Nat /\ c.level <= al
      /\ Lits(c) \subseteq Literals
  BY <1>1, SoundFacts
<1>3. \A l \in S : /\ LevelOf(trail, l) \in Nat /\ UserLevelOf(trail, l) \in Nat
                   /\ UserLevelOf(trail, l) <= al
  <2>1. TAKE l \in S
  <2>2. l \in Literals /\ IsFalse(trail, l) BY <1>2
  <2>3. QED BY <1>1, <2>2, LevelFacts
<1>4. X \subseteq 0 .. al /\ X # {} BY <1>1, <1>2, <1>3
<1>5. MaxOf(X) \in X /\ \A y \in X : y <= MaxOf(X) BY <1>1, <1>4, MaxIs
<1>6. n = MaxOf(X) BY DEF Level
<1>7. n \in 0 .. al /\ c.level <= n /\ \A l \in S \ Resolved(S) : UserLevelOf(trail, l) <= n
  BY <1>4, <1>5, <1>6
<1> HIDE DEF n, X
<1>8. Resolved(S) \subseteq S /\ \A l \in Resolved(S) : LevelOf(trail, l) > 0 BY DEF Resolved
<1>9. \A l \in S \ Resolved(S) : LevelOf(trail, l) = 0
  <2>1. TAKE l \in S \ Resolved(S)
  <2>2. ~(LevelOf(trail, l) > 0) BY DEF Resolved
  <2>3. QED BY <1>3, <2>2
<1>10. ASSUME NEW l \in Resolved(S) PROVE l \in AtomLits /\ intro[Var(l)] \in 0 .. n
  <2>1. l \in ClauseLits /\ l \in Lits(c) BY <1>2, <1>8
  <2>2. l # -VarTrue
    <3>1. ASSUME l = -VarTrue PROVE FALSE
      <4>1. Var(trail[1].lit) = Var(l)
        <5>1. VarTrue \in Literals /\ trail[1].lit = VarTrue BY <1>1, LiteralsAre DEF Shape
        <5>2. QED BY <3>1, <5>1, LitFacts
      <4>2. 1 \in 1 .. Len(trail) BY <1>1 DEF Shape
      <4>3. At(trail, l) = 1 BY <1>1, <4>1, <4>2, AtIs
      <4>4. trail[1].level = 0 BY <1>1 DEF Shape
      <4>5. LevelOf(trail, l) = 0 BY <4>3, <4>4 DEF LevelOf
      <4>6. QED BY <1>8, <4>5
    <3>2. QED BY <3>1
  <2>3. l \in AtomLits BY <2>1, <2>2 DEF ClauseLits
  <2>4. intro[Var(l)] \in 0 .. c.level BY <1>1, <2>1, <2>2 DEF Sound
  <2>5. QED BY <1>2, <1>7, <2>3, <2>4
<1>11. QED BY <1>2, <1>7, <1>8, <1>9, <1>10 DEF n

(* analyze begins with the false clause.                                     *)
LEMMA BeginAnalyzeStep ==
  ASSUME IInv, BeginAnalyze
  PROVE IInv'
<1> DEFINE r == at.conflict
           S == Lits(clauses[r])
           R == Resolved(S)
           n == Level(r, S)
           al == assertionLevel
<1>1. UNCHANGED <<clauses, trail, qhead, lemmas, assertionLevel, trailOk, inputs, cores,
                  intro, ok, answer, model, left, spent>>
  BY DEF BeginAnalyze, Inside, Fixed
<1>2. /\ pc = "return" /\ r # Undef /\ DecisionLevel(trail) > 0 /\ pc' = "analyze"
      /\ at' = [at EXCEPT !.res = R, !.maxlevel = n, !.conflict = Undef]
  BY DEF BeginAnalyze, Searching
<1>3. lemmas = <<>> /\ at.todo = {} /\ at \in Locals /\ al \in Nat /\ Shape(trail, al)
      /\ at.caller = "search"
  BY <1>2, Facts DEF BeginAnalyze, Searching
<1>4. /\ r \in DOMAIN clauses /\ \A l \in S : IsFalse(trail, l)
      /\ \E l \in S : LevelOf(trail, l) = DecisionLevel(trail)
  <2>1. r \in Int /\ r >= Lazy /\ r # Lazy
    BY <1>2, <1>3, LocalsFacts DEF IInv, Conflict
  <2>2. r > 0 BY <1>2, <2>1 DEF Undef, Lazy
  <2>3. QED BY <2>2 DEF IInv, Conflict
<1>5. /\ n \in 0 .. al /\ clauses[r].level <= n /\ clauses[r].level \in Nat
      /\ R \subseteq AtomLits /\ R \subseteq S
      /\ \A l \in R : /\ IsFalse(trail, l) /\ LevelOf(trail, l) > 0
                      /\ intro[Var(l)] \in 0 .. n
      /\ \A l \in S \ R : LevelOf(trail, l) = 0 /\ UserLevelOf(trail, l) <= n
  BY <1>4, ResolvedFacts
<1>6. \E l \in R : LevelOf(trail, l) = DecisionLevel(trail)
  BY <1>2, <1>4 DEF Resolved
<1>7. Ent(inputs, n, R)
  <2>1. Sound(clauses[r], inputs, intro, al) BY <1>4, Facts
  <2>2. S \subseteq ClauseLits /\ Ent(inputs, clauses[r].level, S)
    BY <1>3, <2>1, SoundFacts DEF Sound
  <2>3. n \in Int BY <1>5
  <2>4. Ent(inputs, n, S) BY <1>5, <2>2, <2>3, EntMono
  <2>5. Valued(trail, inputs) BY DEF IInv, Assigned
  <2>6. \A l \in S \ R : IsFalse(trail, l) /\ LevelOf(trail, l) = 0 /\ UserLevelOf(trail, l) <= n
    BY <1>4, <1>5
  <2> HIDE DEF S, R, n
  <2>7. QED BY <1>3, <2>2, <2>3, <2>4, <2>5, <2>6, DropFalse
<1>8. /\ at' \in Locals /\ at'.caller = "search" /\ at'.todo = {} /\ at'.conflict = Undef
      /\ at'.res = R /\ at'.maxlevel = n
  <2>1. R \in SUBSET AtomLits /\ n \in Nat /\ Undef \in Int BY <1>5 DEF Undef
  <2>2. PICK z \in Int : z = Undef BY <2>1
  <2>3. at' = [at EXCEPT !.res = R, !.maxlevel = n, !.conflict = z] BY <1>2, <2>2
  <2> HIDE DEF R, n
  <2>4. /\ at' \in Locals /\ at'.caller = at.caller /\ at'.todo = at.todo
        /\ at'.conflict = z /\ at'.res = R /\ at'.maxlevel = n
    BY <1>3, <2>1, <2>3 DEF Locals
  <2>5. QED BY <1>3, <2>2, <2>4
<1> HIDE DEF R, n
<1>9. Base(inputs, intro, assertionLevel, left, cores, spent)' BY <1>1, SameBase DEF IInv
<1>10. /\ Assigned(trail, clauses, inputs, intro, assertionLevel)'
       /\ Db(clauses, inputs, intro, assertionLevel)'
       /\ Verdicts(ok, trailOk, answer, inputs, assertionLevel)'
  BY <1>1 DEF IInv
<1>11. /\ Queue(lemmas, inputs, intro, assertionLevel)'
       /\ ReadyQueue(lemmas, trail, Bound, at.conflict)'
  BY <1>1, <1>3, NoLemmas
<1>12. Protocol(pc, at, trail, qhead, lemmas)' BY <1>1, <1>2, <1>3, <1>8 DEF Protocol
<1>13. Pending(pc, at, trail, qhead, clauses)' BY <1>1, <1>8, Facts, NoTodo
<1>14. Conflict(pc, at, trail, clauses, inputs, assertionLevel)' BY <1>8, NoConflict
<1>15. Resolvent(pc', at', trail, inputs, intro, al)
  <2>1. n <= al BY <1>5
  <2>2. QED BY <1>5, <1>6, <1>7, <1>8, <2>1 DEF Resolvent
<1>16. Resolvent(pc, at, trail, inputs, intro, assertionLevel)' BY <1>1, <1>15
<1>17. QED BY <1>9, <1>10, <1>11, <1>12, <1>13, <1>14, <1>16 DEF IInv

-----------------------------------------------------------------------------
(* The first two literals of S in order are in front.                        *)
Several(S) == S \subseteq Literals /\ IsFiniteSet(S) /\ \E a, b \in S : a # b
(* Two literals of S are in front, the first before all others.              *)
InFront(t, S, s) ==
  \E a, b \in S : /\ a # b /\ s.w = <<a, b>> /\ s.rest = S \ {a, b}
                 /\ \A y \in S \ {a} : Precedes(t, a, y)
                 /\ \A z \in S \ {a, b} : Precedes(t, b, z)

(* Sorted does that.                                                         *)
LEMMA LongSorted ==
  ASSUME NEW t, NEW al, Shape(t, al), NEW S, Several(S)
  PROVE InFront(t, S, Sorted(t, S))
<1>1. S \subseteq Literals /\ IsFiniteSet(S) /\ \E a, b \in S : a # b BY DEF Several
<1>2. InOrder(t, S, Sorted(t, S)) BY <1>1, SortedIs
<1>3. QED BY <1>1, <1>2 DEF InOrder, InFront

(* The explanation of a literal is a reason for it.                          *)
Explaining(l, L, E) == E = IF L = {l} THEN L \cup {-VarTrue} ELSE L

(* The explanation of a literal that the theory propagated is a reason for   *)
(* it.                                                                       *)
LEMMA ExplainedClause ==
  ASSUME IInv, NEW i \in 1 .. Len(trail), trail[i].reason = Lazy,
         NEW L \in Explanations(trail[i].lit), NEW E,
         Explaining(trail[i].lit, L, E)
  PROVE LET d == Clause(Sorted(trail, E), ClauseLevel(intro, E, TRUE), TRUE)
        IN  /\ Sound(d, inputs, intro, assertionLevel)
            /\ d.w[1] = trail[i].lit /\ i > 1
            /\ \A l \in Lits(d) \ {trail[i].lit} : Before(trail, l, i)
<1> DEFINE l == trail[i].lit
           al == assertionLevel
           s == Sorted(trail, E)
           d == Clause(s, ClauseLevel(intro, E, TRUE), TRUE)
<1>1. Shape(trail, al) /\ al \in Nat /\ cores \in BOOLEAN /\ Len(trail) \in Nat BY Facts
<1>2. i > 1 /\ l \in AtomLits
  <2>1. i # 1 BY <1>1, EntryFacts DEF Lazy
  <2>2. QED BY <1>1, <2>1, EntryFacts
<1>3. /\ L \in Theory /\ l \in L /\ L \subseteq AtomLits
      /\ \A k \in L \ {l} : IsFalse(trail, k) /\ At(trail, k) < At(trail, l)
  BY Constants DEF Explanations
<1>4. l \in Literals /\ IsTrue(trail, l) /\ At(trail, l) = i
  BY <1>1, <1>2, AtomLitFacts, Trues, AtIs
<1>5. E \subseteq ClauseLits /\ E \subseteq L \cup {-VarTrue} /\ L \subseteq E
  BY <1>3 DEF ClauseLits, Explaining
<1>6. IsFiniteSet(E)
  <2>1. IsFiniteSet(AtomLits \cup {-VarTrue}) BY AtomLitsFinite, FS_AddElement
  <2>2. QED BY <1>5, <2>1, FS_Subset DEF ClauseLits
<1>7. \E a, b \in E : a # b
  <2>1. CASE L = {l}
    <3>1. -VarTrue \in E /\ l \in E /\ l # -VarTrue BY <1>2, <2>1, AtomLitFacts DEF Explaining
    <3>2. QED BY <3>1
  <2>2. CASE L # {l} BY <1>3, <1>5, <2>2
  <2>3. QED BY <2>1, <2>2
<1>8. ASSUME NEW k \in E \ {l} PROVE Before(trail, k, i) /\ IsFalse(trail, k)
  <2>1. k \in Literals BY <1>5, LiteralsAre
  <2>2. CASE k \in L
    <3>1. IsFalse(trail, k) /\ At(trail, k) < i BY <1>3, <1>4, <2>2
    <3>2. QED BY <1>1, <2>1, <3>1, BeforeIs
  <2>3. CASE k = -VarTrue
    <3>1. trail[1].lit = VarTrue /\ 1 \in 1 .. Len(trail) BY <1>1 DEF Shape
    <3>2. -k = VarTrue BY <2>3, Constants
    <3>3. Before(trail, k, i) BY <1>2, <3>1, <3>2 DEF Before
    <3>4. QED BY <1>1, <2>1, <3>3, BeforeIs
  <2>4. QED BY <1>5, <2>2, <2>3
<1>9. E \subseteq Literals BY <1>5, LiteralsAre
<1>16. InFront(trail, E, s)
  <2>1. Several(E) BY <1>6, <1>7, <1>9 DEF Several
  <2>2. QED BY <1>1, <2>1, LongSorted
<1> HIDE DEF s
<1>17. PICK a \in E, b \in E : /\ a # b /\ s.w = <<a, b>> /\ s.rest = E \ {a, b}
                             /\ \A y \in E \ {a} : Precedes(trail, a, y)
  BY <1>16 DEF InFront
<1>10. Long(s) /\ s.w[1] = a /\ Lits(s) = E
  <2>1. a \in ClauseLits /\ b \in ClauseLits /\ s.rest \subseteq ClauseLits BY <1>5, <1>17
  <2>2. s.w \in Seq(ClauseLits) /\ Len(s.w) = 2 /\ s.w[1] = a /\ s.w[2] = b BY <1>17, <2>1
  <2>3. QED BY <1>17, <2>1, <2>2 DEF Long, Lits
<1>11. s.w[1] = l
  <2>1. ASSUME a # l PROVE FALSE
    <3>1. IsFalse(trail, a) /\ a \in Literals BY <1>8, <1>9, <1>17, <2>1
    <3>2. Precedes(trail, a, l) BY <1>3, <1>5, <1>17, <2>1
    <3>3. IsFalse(trail, l) BY <1>1, <1>4, <3>1, <3>2, PrecedesFalse
    <3>4. QED BY <1>1, <1>4, <3>3, Undefined
  <2>2. QED BY <1>10, <2>1
<1>12. \A k \in E \ {-VarTrue} : intro[Var(k)] \in 0 .. al
  <2>1. TAKE k \in E \ {-VarTrue}
  <2>2. k \in AtomLits /\ (IsTrue(trail, k) \/ IsFalse(trail, k)) BY <1>4, <1>5, <1>8 DEF ClauseLits
  <2>3. QED BY <2>2, AssignedExists
<1>13. Ent(inputs, 0, E)
  <2>1. Ent(inputs, 0, L) BY <1>3, TheoryEnt
  <2>2. QED BY <1>5, <2>1, EntMono
<1>14. /\ Sound(d, inputs, intro, al) /\ d.w = s.w /\ d.rest = s.rest /\ Lits(d) = E
  <2>1. Existing(intro, E) BY <1>12 DEF Existing
  <2>2. PICK r \in BOOLEAN : r = TRUE OBVIOUS
  <2>3. Backed(inputs, E, r) BY <1>13 DEF Backed
  <2>4. d = Clause(s, ClauseLevel(intro, E, r), r) BY <2>2
  <2> HIDE DEF d
  <2>5. LET e == Clause(s, ClauseLevel(intro, E, r), r)
        IN  Sound(e, inputs, intro, al) /\ e.w = s.w /\ e.rest = s.rest /\ Lits(e) = E
    BY <1>1, <1>10, <2>1, <2>3, NewClause
  <2>6. QED BY <2>4, <2>5
<1>15. QED BY <1>2, <1>8, <1>11, <1>14 DEF s

(* The theory explains a literal.                                            *)
LEMMA ExplainStep ==
  ASSUME IInv, Explain
  PROVE IInv'
<1> DEFINE al == assertionLevel
           f == FreshRef(clauses)
           u == trail'
           db2 == clauses'
<1>1. UNCHANGED <<qhead, lemmas, pc, at, assertionLevel, trailOk, inputs, cores,
                  intro, ok, answer, model, left, spent>>
  BY DEF Explain, Inside, Fixed
<1>2. pc = "analyze" BY DEF Explain
<1>3. /\ lemmas = <<>> /\ at.todo = {} /\ at.conflict = Undef /\ Shape(trail, al)
      /\ at \in Locals /\ al \in Nat /\ IsFiniteSet(DOMAIN clauses) /\ Len(trail) \in Nat
  BY <1>2, Facts
<1>4. PICK i \in 1 .. Len(trail) : /\ trail[i].reason = Lazy
                                   /\ \E L \in Explanations(trail[i].lit) : ExplainWith(i, L)
  <2>1. DOMAIN trail = 1 .. Len(trail) BY <1>3 DEF Shape
  <2>2. QED BY <2>1 DEF Explain
<1>5. PICK L \in Explanations(trail[i].lit) : ExplainWith(i, L) BY <1>4
<1>6. PICK E : Explaining(trail[i].lit, L, E) BY DEF Explaining
<1> DEFINE d == Clause(Sorted(trail, E), ClauseLevel(intro, E, TRUE), TRUE)
<1>7. db2 = Attach(clauses, d) /\ u = [trail EXCEPT ![i].reason = f]
  BY <1>5, <1>6 DEF ExplainWith, Explaining
<1>8. /\ Sound(d, inputs, intro, al) /\ d.w[1] = trail[i].lit /\ i > 1
      /\ \A l \in Lits(d) \ {trail[i].lit} : Before(trail, l, i)
  BY <1>4, <1>5, <1>6, ExplainedClause
<1> HIDE DEF d, f, u, db2
<1>9. /\ DOMAIN db2 = DOMAIN clauses \cup {f} /\ db2[f] = d /\ f \notin DOMAIN clauses
      /\ f \in Nat /\ f > 0 /\ \A r \in DOMAIN clauses : r \in DOMAIN db2 /\ db2[r] = clauses[r]
  <2>1. LET e == Attach(clauses, d)
            g == FreshRef(clauses)
        IN  /\ DOMAIN e = DOMAIN clauses \cup {g} /\ e[g] = d /\ g \notin DOMAIN clauses
            /\ g \in Nat /\ g > 0
            /\ \A r \in DOMAIN clauses : r \in DOMAIN e /\ e[r] = clauses[r]
    BY <1>3, AttachFacts
  <2>2. QED BY <1>7, <2>1 DEF f
<1>10. /\ Shape(u, al) /\ Begins(trail, u) /\ Begins(u, trail)
       /\ DecisionLevel(u) = DecisionLevel(trail) /\ Len(u) = Len(trail)
       /\ \A k \in 1 .. Len(trail) : /\ u[k].lit = trail[k].lit /\ u[k].level = trail[k].level
                                     /\ u[k].reason = IF k = i THEN f ELSE trail[k].reason
  <2>1. i \in 2 .. Len(trail) BY <1>3, <1>8
  <2>2. LET v == [trail EXCEPT ![i].reason = f]
        IN  /\ Shape(v, al) /\ Begins(trail, v) /\ Begins(v, trail)
            /\ DecisionLevel(v) = DecisionLevel(trail) /\ Len(v) = Len(trail)
            /\ \A k \in 1 .. Len(trail) :
                 /\ v[k].lit = trail[k].lit /\ v[k].level = trail[k].level
                 /\ v[k].ulevel = trail[k].ulevel
                 /\ v[k].reason = IF k = i THEN f ELSE trail[k].reason
    BY <1>3, <1>9, <2>1, NewReasonFacts
  <2>3. QED BY <1>7, <2>2
<1>11. Db(db2, inputs, intro, al)
  <2>1. Db(clauses, inputs, intro, al) BY DEF IInv
  <2>2. QED BY <1>7, <1>8, <2>1, DbAttach
<1>12. Reasons(u, db2)
  <2>1. Reasons(trail, clauses) BY DEF IInv, Assigned
  <2>2. ASSUME NEW k \in 1 .. Len(u), u[k].reason > 0
        PROVE /\ u[k].reason \in DOMAIN db2
              /\ db2[u[k].reason].w[1] = u[k].lit
              /\ \A l \in Lits(db2[u[k].reason]) \ {u[k].lit} : Before(u, l, k)
    <3>1. ASSUME NEW l, Before(trail, l, k) PROVE Before(u, l, k)
      BY <1>10, <3>1 DEF Before
    <3>2. CASE k = i BY <1>8, <1>9, <1>10, <3>1, <3>2
    <3>3. CASE k # i
      <4>1. u[k].reason = trail[k].reason /\ k \in 1 .. Len(trail) /\ u[k].lit = trail[k].lit
        BY <1>10, <3>3
      <4>2. /\ trail[k].reason \in DOMAIN clauses /\ clauses[trail[k].reason].w[1] = trail[k].lit
            /\ \A l \in Lits(clauses[trail[k].reason]) \ {trail[k].lit} : Before(trail, l, k)
        BY <2>1, <2>2, <4>1 DEF Reasons
      <4>3. db2[trail[k].reason] = clauses[trail[k].reason] /\ trail[k].reason \in DOMAIN db2
        BY <1>9, <4>2
      <4>4. QED BY <3>1, <4>1, <4>2, <4>3
    <3>4. QED BY <3>2, <3>3
  <2>3. QED BY <2>2 DEF Reasons
<1>13. Assigned(u, db2, inputs, intro, al)
  <2>1. Known(trail, intro) /\ Valued(trail, inputs) BY DEF IInv, Assigned
  <2>2. Known(u, intro) BY <1>3, <1>10, <2>1, KnownCut
  <2>3. Valued(u, inputs) BY <1>3, <1>10, <2>1, ValuedCut
  <2>4. QED BY <1>10, <1>12, <2>2, <2>3 DEF Assigned
<1>14. Base(inputs, intro, assertionLevel, left, cores, spent)' BY <1>1, SameBase DEF IInv
<1>15. /\ Queue(lemmas, inputs, intro, assertionLevel)'
       /\ ReadyQueue(lemmas, trail, Bound, at.conflict)'
  BY <1>1, <1>3, NoLemmas
<1>16. Protocol(pc, at, u, qhead, lemmas)
  <2>1. Protocol(pc, at, trail, qhead, lemmas) BY DEF IInv
  <2>2. QED BY <1>2, <1>10, <2>1 DEF Protocol
<1>17. Pending(pc, at, u, qhead, db2)
  <2>1. qhead \in 0 .. Len(u) /\ \A k \in 1 .. Len(u) : k > qhead => u[k].level = DecisionLevel(u)
    BY <1>10, Facts
  <2>2. QED BY <1>3, <2>1, NoTodo
<1>18. Conflict(pc, at, trail, clauses, inputs, assertionLevel)' BY <1>1, <1>3, NoConflict
<1>19. Resolvent(pc, at, u, inputs, intro, al)
  <2>1. Resolvent(pc, at, trail, inputs, intro, al) BY DEF IInv
  <2>2. at.res \subseteq Literals BY <1>3, LocalsFacts, AtomLitFacts
  <2>3. ASSUME NEW l \in Literals, IsFalse(trail, l)
        PROVE IsFalse(u, l) /\ LevelOf(u, l) = LevelOf(trail, l)
    BY <1>3, <1>10, <2>3, BeginsValues
  <2>4. QED BY <1>10, <2>1, <2>2, <2>3 DEF Resolvent
<1>20. Verdicts(ok, trailOk, answer, inputs, assertionLevel)' BY <1>1 DEF IInv
<1>21. /\ Assigned(trail, clauses, inputs, intro, assertionLevel)'
       /\ Db(clauses, inputs, intro, assertionLevel)'
       /\ Protocol(pc, at, trail, qhead, lemmas)'
       /\ Pending(pc, at, trail, qhead, clauses)'
       /\ Resolvent(pc, at, trail, inputs, intro, assertionLevel)'
  BY <1>1, <1>11, <1>13, <1>16, <1>17, <1>19 DEF u, db2
<1>22. QED BY <1>14, <1>15, <1>18, <1>20, <1>21 DEF IInv

-----------------------------------------------------------------------------
(* The reason of a false literal p, as a clause: the others are false        *)
(* earlier, and it is entailed.                                              *)
LEMMA ReasonFacts ==
  ASSUME IInv, NEW p \in Literals, IsFalse(trail, p), ReasonOf(p) > 0
  PROVE /\ ReasonOf(p) \in DOMAIN clauses
        /\ Sound(clauses[ReasonOf(p)], inputs, intro, assertionLevel)
        /\ Others(p) = Lits(clauses[ReasonOf(p)]) \ {-p} /\ Others(p) \subseteq Literals
        /\ Others(p) \subseteq ClauseLits
        /\ \A k \in Others(p) : IsFalse(trail, k) /\ At(trail, k) < At(trail, p) /\ k # p
<1> DEFINE i == At(trail, p)
           r == ReasonOf(p)
           c == clauses[r]
<1>1. Shape(trail, assertionLevel) /\ assertionLevel \in Nat BY Facts
<1>2. i \in 1 .. Len(trail) /\ trail[i].lit = -p BY <1>1, AtFalse
<1>3. trail[i].reason = r BY DEF ReasonOf
<1>4. /\ r \in DOMAIN clauses
      /\ \A l \in Lits(c) \ {trail[i].lit} : Before(trail, l, i)
  BY <1>2, <1>3 DEF IInv, Assigned, Reasons
<1>5. Sound(c, inputs, intro, assertionLevel) BY <1>4, Facts
<1>6. Lits(c) \subseteq Literals /\ Lits(c) \subseteq ClauseLits BY <1>1, <1>5, SoundFacts
<1>7. Others(p) = Lits(c) \ {-p} BY DEF Others
<1>8. ASSUME NEW k \in Others(p) PROVE IsFalse(trail, k) /\ At(trail, k) < i /\ k # p
  <2>1. k \in Literals /\ Before(trail, k, i) BY <1>2, <1>4, <1>6, <1>7
  <2>2. i \in Int BY <1>2
  <2>3. IsFalse(trail, k) /\ At(trail, k) < i BY <1>1, <2>1, <2>2, BeforeIs
  <2>4. QED BY <2>2, <2>3
<1>9. QED BY <1>4, <1>5, <1>6, <1>7, <1>8

(* A reason is resolved with.                                                *)
LEMMA ResolveStep ==
  ASSUME IInv, Resolve
  PROVE IInv'
<1> DEFINE al == assertionLevel
           p == Latest(at.res)
           S == Others(p) \ {p}
           r == ReasonOf(p)
           R == Resolved(S)
           res2 == (at.res \ {p}) \cup R
           n == MaxOf({at.maxlevel, Level(r, S)})
<1>1. UNCHANGED <<clauses, trail, qhead, lemmas, pc, assertionLevel, trailOk, inputs, cores,
                  intro, ok, answer, model, left, spent>>
  BY DEF Resolve, Inside, Fixed
<1>2. /\ pc = "analyze" /\ r > 0 /\ Cardinality(OnTop(at.res)) > 1
      /\ at' = [at EXCEPT !.res = res2, !.maxlevel = n]
  BY DEF Resolve
<1>3. /\ lemmas = <<>> /\ at.todo = {} /\ at.conflict = Undef /\ Shape(trail, al)
      /\ at \in Locals /\ al \in Nat
  BY <1>2, Facts
<1>4. at.res \subseteq AtomLits /\ at.res \subseteq Literals /\ at.maxlevel \in Nat
  BY <1>3, LocalsFacts, LiteralsAre
<1>5. /\ at.maxlevel <= al
      /\ \A l \in at.res : /\ IsFalse(trail, l) /\ LevelOf(trail, l) > 0
                           /\ intro[Var(l)] \in 0 .. at.maxlevel
      /\ \E l \in at.res : LevelOf(trail, l) = DecisionLevel(trail)
      /\ Ent(inputs, at.maxlevel, at.res)
  BY <1>2 DEF IInv, Resolvent
<1>6. p \in at.res
  <2>1. at.res # {} BY <1>5
  <2>2. QED BY <1>3, <1>4, <2>1, LatestIs
<1>7. p \in AtomLits /\ p \in Literals /\ IsFalse(trail, p) BY <1>4, <1>5, <1>6
<1> HIDE DEF p
<1>8. /\ r \in DOMAIN clauses /\ Sound(clauses[r], inputs, intro, al)
      /\ Others(p) = Lits(clauses[r]) \ {-p} /\ Others(p) \subseteq Literals
      /\ Others(p) \subseteq ClauseLits
      /\ \A k \in Others(p) : IsFalse(trail, k) /\ k # p
  BY <1>2, <1>7, ReasonFacts
<1>9. S = Others(p) /\ S \subseteq Lits(clauses[r]) BY <1>8
<1>10. /\ Level(r, S) \in 0 .. al /\ clauses[r].level <= Level(r, S)
       /\ clauses[r].level \in Nat
       /\ R \subseteq AtomLits /\ R \subseteq S
       /\ \A l \in R : /\ IsFalse(trail, l) /\ LevelOf(trail, l) > 0
                       /\ intro[Var(l)] \in 0 .. Level(r, S)
       /\ \A l \in S \ R : LevelOf(trail, l) = 0 /\ UserLevelOf(trail, l) <= Level(r, S)
  <2>1. \A l \in S : IsFalse(trail, l) BY <1>8, <1>9
  <2> HIDE DEF S
  <2>2. QED BY <1>8, <1>9, <2>1, ResolvedFacts
<1> HIDE DEF S, R, r
<1>11. n \in 0 .. al /\ at.maxlevel <= n /\ Level(r, S) <= n
  <2> DEFINE X == {at.maxlevel, Level(r, S)}
  <2>1. X \subseteq 0 .. al /\ X # {} BY <1>3, <1>4, <1>5, <1>10
  <2>2. MaxOf(X) \in X /\ \A y \in X : y <= MaxOf(X) BY <1>3, <2>1, MaxIs
  <2>3. QED BY <2>1, <2>2
<1> HIDE DEF n
<1>12. \A l \in res2 : /\ IsFalse(trail, l) /\ LevelOf(trail, l) > 0
                       /\ intro[Var(l)] \in 0 .. n
  <2>1. TAKE l \in res2
  <2>2. CASE l \in at.res
    <3>1. IsFalse(trail, l) /\ LevelOf(trail, l) > 0 /\ intro[Var(l)] \in 0 .. at.maxlevel
      BY <1>5, <2>2
    <3>2. QED BY <1>4, <1>11, <3>1
  <2>3. CASE l \in R
    <3>1. IsFalse(trail, l) /\ LevelOf(trail, l) > 0 /\ intro[Var(l)] \in 0 .. Level(r, S)
      BY <1>10, <2>3
    <3>2. QED BY <1>10, <1>11, <3>1
  <2>4. QED BY <2>2, <2>3
<1>13. \E l \in res2 : LevelOf(trail, l) = DecisionLevel(trail)
  <2>1. \E l \in OnTop(at.res) : l # p
    <3>1. ASSUME OnTop(at.res) \subseteq {p} PROVE FALSE
      <4>1. IsFiniteSet({p}) /\ Cardinality({p}) = 1 BY FS_Singleton
      <4>2. Cardinality(OnTop(at.res)) <= 1 BY <3>1, <4>1, FS_Subset
      <4>3. IsFiniteSet(OnTop(at.res)) BY <3>1, <4>1, FS_Subset
      <4>4. Cardinality(OnTop(at.res)) \in Nat BY <4>3, FS_CardinalityType
      <4>5. QED BY <1>2, <4>2, <4>4
    <3>2. QED BY <3>1
  <2>2. QED BY <2>1 DEF OnTop
<1>14. Ent(inputs, n, res2)
  <2>1. ASSUME NEW M \in Assignments, Allowed(M, inputs, n) PROVE res2 \cap M # {}
    <3>1. n \in Int /\ at.maxlevel \in Int /\ clauses[r].level \in Int
          /\ at.maxlevel <= n /\ clauses[r].level <= n
      BY <1>4, <1>10, <1>11
    <3>2. Allowed(M, inputs, at.maxlevel) /\ Allowed(M, inputs, clauses[r].level)
      BY <2>1, <3>1, AllowedMono
    <3>3. PICK l \in at.res : l \in M BY <1>5, <3>2 DEF Ent
    <3>4. PICK k \in Lits(clauses[r]) : k \in M
      <4>1. Ent(inputs, clauses[r].level, Lits(clauses[r])) BY <1>8 DEF Sound
      <4>2. QED BY <3>2, <4>1 DEF Ent
    <3>5. CASE l # p BY <3>3, <3>5
    <3>6. CASE l = p
      <4>1. k # -p BY <1>7, <3>3, <3>4, <3>6, AssignmentFacts
      <4>2. k \in S BY <1>8, <1>9, <3>4, <4>1
      <4>3. CASE k \in R BY <3>4, <4>3
      <4>4. CASE k \in S \ R
        <5>1. LevelOf(trail, k) = 0 /\ UserLevelOf(trail, k) <= n
          <6>1. k \in Literals /\ IsFalse(trail, k) BY <1>8, <1>9, <4>2
          <6>2. UserLevelOf(trail, k) \in Nat BY <1>3, <6>1, LevelFacts
          <6>3. LevelOf(trail, k) = 0 /\ UserLevelOf(trail, k) <= Level(r, S) BY <1>10, <4>4
          <6>4. QED BY <1>10, <1>11, <6>2, <6>3
        <5>2. Valued(trail, inputs) BY DEF IInv, Assigned
        <5>3. k \in ClauseLits /\ IsFalse(trail, k) BY <1>8, <1>9, <4>2
        <5>4. k \notin M BY <1>3, <2>1, <3>1, <5>1, <5>2, <5>3, FalseAtBottom
        <5>5. QED BY <3>4, <5>4
      <4>5. QED BY <4>2, <4>3, <4>4
    <3>7. QED BY <3>5, <3>6
  <2>2. QED BY <2>1 DEF Ent
<1>15. res2 \subseteq AtomLits BY <1>4, <1>10
<1> HIDE DEF res2
<1>16. /\ at' \in Locals /\ at'.caller = at.caller /\ at'.todo = {} /\ at'.conflict = Undef
       /\ at'.res = res2 /\ at'.maxlevel = n
  <2>1. res2 \in SUBSET AtomLits /\ n \in Nat BY <1>11, <1>15
  <2>2. at' = [at EXCEPT !.res = res2, !.maxlevel = n] BY <1>2 DEF res2, R, S, r, p, n
  <2>3. QED BY <1>3, <2>1, <2>2 DEF Locals
<1>17. Base(inputs, intro, assertionLevel, left, cores, spent)' BY <1>1, SameBase DEF IInv
<1>18. /\ Assigned(trail, clauses, inputs, intro, assertionLevel)'
       /\ Db(clauses, inputs, intro, assertionLevel)'
       /\ Verdicts(ok, trailOk, answer, inputs, assertionLevel)'
  BY <1>1 DEF IInv
<1>19. /\ Queue(lemmas, inputs, intro, assertionLevel)'
       /\ ReadyQueue(lemmas, trail, Bound, at.conflict)'
  BY <1>1, <1>3, NoLemmas
<1>20. Protocol(pc, at, trail, qhead, lemmas)' BY <1>1, <1>2, <1>3, <1>16 DEF IInv, Protocol
<1>21. Pending(pc, at, trail, qhead, clauses)' BY <1>1, <1>16, Facts, NoTodo
<1>22. Conflict(pc, at, trail, clauses, inputs, assertionLevel)' BY <1>16, NoConflict
<1>23. Resolvent(pc', at', trail, inputs, intro, al)
  <2>1. n <= al BY <1>11
  <2>2. QED BY <1>12, <1>13, <1>14, <1>16, <2>1 DEF Resolvent
<1>24. Resolvent(pc, at, trail, inputs, intro, assertionLevel)' BY <1>1, <1>23
<1>25. QED BY <1>17, <1>18, <1>19, <1>20, <1>21, <1>22, <1>24 DEF IInv

-----------------------------------------------------------------------------
(* What litRedundant calls implied.                                          *)
ImpliedBody(S, f, i) ==
  \/ trail[i].level = 0
  \/ -trail[i].lit \in S
  \/ /\ trail[i].reason > 0
     /\ trail[i].level \in {LevelOf(trail, k) : k \in S \ {Latest(S)}}
     /\ \A k \in Lits(clauses[trail[i].reason]) \ {trail[i].lit} : f[At(trail, k)]

(* f and g agree on the positions below i.                                   *)
AgreeBelow(f, g, i) == \A j \in 1 .. Len(trail) : j < i => f[j] = g[j]

(* Whether a position is implied depends on earlier positions only.          *)
LEMMA BodyDependsBelow ==
  ASSUME IInv, NEW S, NEW i \in 1 .. Len(trail), NEW f, NEW g, AgreeBelow(f, g, i)
  PROVE ImpliedBody(S, f, i) <=> ImpliedBody(S, g, i)
<1> DEFINE c == clauses[trail[i].reason]
<1>1. CASE trail[i].reason > 0
  <2>1. Shape(trail, assertionLevel) /\ assertionLevel \in Nat BY Facts
  <2>2. /\ trail[i].reason \in DOMAIN clauses
        /\ \A l \in Lits(c) \ {trail[i].lit} : Before(trail, l, i)
    BY <1>1 DEF IInv, Assigned, Reasons
  <2>3. Sound(c, inputs, intro, assertionLevel) BY <2>2, Facts
  <2>4. Lits(c) \subseteq Literals BY <2>1, <2>3, SoundFacts
  <2>5. ASSUME NEW k \in Lits(c) \ {trail[i].lit} PROVE f[At(trail, k)] = g[At(trail, k)]
    <3>1. k \in Literals /\ i \in Int /\ Before(trail, k, i) BY <2>2, <2>4
    <3>2. IsFalse(trail, k) /\ At(trail, k) < i BY <2>1, <3>1, BeforeIs
    <3>3. At(trail, k) \in 1 .. Len(trail) BY <2>1, <3>1, <3>2, AtFalse
    <3>4. QED BY <3>2, <3>3 DEF AgreeBelow
  <2>6. (\A k \in Lits(c) \ {trail[i].lit} : f[At(trail, k)])
        <=> (\A k \in Lits(c) \ {trail[i].lit} : g[At(trail, k)])
    BY <2>5, Zenon
  <2>7. QED BY <2>6, Zenon DEF ImpliedBody
<1>2. CASE ~(trail[i].reason > 0) BY <1>2, Zenon DEF ImpliedBody
<1>3. QED BY <1>1, <1>2

(* f is what the recursion gives on the first n positions.                   *)
Recursion(S, f, n) == f = [i \in 1 .. n |-> ImpliedBody(S, f, i)]

(* The recursion can be carried one position further,                        *)
LEMMA ImpliedGrows ==
  ASSUME IInv, NEW S, NEW m \in 1 .. Len(trail), NEW f, Recursion(S, f, m - 1)
  PROVE \E g : Recursion(S, g, m)
<1>1. Len(trail) \in Nat BY Facts
<1>2. PICK g : g = [i \in 1 .. m |-> ImpliedBody(S, f, i)] OBVIOUS
<1>3. ASSUME NEW j \in 1 .. Len(trail), j < m PROVE f[j] = g[j]
  <2>1. j \in 1 .. m - 1 /\ j \in 1 .. m BY <1>1, <1>3
  <2>2. f[j] = ImpliedBody(S, f, j) BY <2>1, Zenon DEF Recursion
  <2>3. g[j] = ImpliedBody(S, f, j) BY <1>2, <2>1, Zenon
  <2>4. QED BY <2>2, <2>3, Zenon
<1>4. ASSUME NEW i \in 1 .. m PROVE ImpliedBody(S, f, i) <=> ImpliedBody(S, g, i)
  <2>1. i \in 1 .. Len(trail) /\ i <= m BY <1>1
  <2>2. ASSUME NEW j \in 1 .. Len(trail), j < i PROVE f[j] = g[j]
    <3>1. j < m BY <1>1, <2>1, <2>2
    <3>2. QED BY <1>3, <3>1
  <2>3. AgreeBelow(f, g, i) BY <2>2, Zenon DEF AgreeBelow
  <2>4. QED BY <2>1, <2>3, BodyDependsBelow, Zenon
<1>5. ASSUME NEW i \in 1 .. m PROVE ImpliedBody(S, f, i) = ImpliedBody(S, g, i)
  <2>1. ImpliedBody(S, f, i) \in BOOLEAN /\ ImpliedBody(S, g, i) \in BOOLEAN
    BY Zenon DEF ImpliedBody
  <2>2. ImpliedBody(S, f, i) <=> ImpliedBody(S, g, i) BY <1>4
  <2>3. CASE ImpliedBody(S, f, i) = TRUE BY <2>1, <2>2, <2>3, Zenon
  <2>4. CASE ImpliedBody(S, f, i) = FALSE BY <2>1, <2>2, <2>4, Zenon
  <2>5. QED BY <2>1, <2>3, <2>4, Zenon
<1>6. [i \in 1 .. m |-> ImpliedBody(S, f, i)] = [i \in 1 .. m |-> ImpliedBody(S, g, i)]
  BY <1>5, Zenon
<1>7. QED BY <1>2, <1>6, Zenon DEF Recursion

(* and so to every position.                                                 *)
LEMMA ImpliedExists ==
  ASSUME IInv, NEW S, NEW n \in 0 .. Len(trail)
  PROVE \E f : Recursion(S, f, n)
<1> DEFINE T == {m \in 0 .. Len(trail) : ~ \E f : Recursion(S, f, m)}
<1>1. Len(trail) \in Nat BY Facts
<1>2. SUFFICES ASSUME T # {} PROVE FALSE BY Zenon
<1>3. T \subseteq Nat OBVIOUS
<1>4. PICK m \in T : \A k \in T : m <= k BY <1>2, <1>3, Least
<1>5. m \in 0 .. Len(trail) /\ ~ \E f : Recursion(S, f, m) OBVIOUS
<1>6. m # 0
  <2>1. ASSUME m = 0 PROVE FALSE
    <3>1. PICK f : f = [i \in 1 .. 0 |-> TRUE] OBVIOUS
    <3>2. [i \in 1 .. 0 |-> TRUE] = [i \in 1 .. 0 |-> ImpliedBody(S, f, i)]
      <4>1. \A i \in 1 .. 0 : FALSE OBVIOUS
      <4>2. QED BY <4>1
    <3>3. Recursion(S, f, 0) BY <3>1, <3>2, Zenon DEF Recursion
    <3>4. QED BY <1>5, <2>1, <3>3
  <2>2. QED BY <2>1
<1>7. m - 1 \in 0 .. Len(trail) /\ m - 1 \notin T /\ m \in 1 .. Len(trail)
  BY <1>1, <1>4, <1>5, <1>6
<1>8. PICK f : Recursion(S, f, m - 1) BY <1>7
<1>9. \E g : Recursion(S, g, m) BY <1>7, <1>8, ImpliedGrows
<1>10. QED BY <1>5, <1>9, Zenon

(* So the recursive function is what its body says.                          *)
LEMMA ImpliedIs ==
  ASSUME IInv, NEW S, NEW i \in 1 .. Len(trail), Implied(S)[i]
  PROVE ImpliedBody(S, Implied(S), i)
<1>1. DOMAIN trail = 1 .. Len(trail) BY Facts DEF Shape
<1>2. Len(trail) \in 0 .. Len(trail) BY Facts
<1>3. PICK f : f = [j \in 1 .. Len(trail) |-> ImpliedBody(S, f, j)]
  <2>1. PICK f : Recursion(S, f, Len(trail)) BY <1>2, ImpliedExists
  <2>2. QED BY <2>1, Zenon DEF Recursion
<1>4. Implied(S) = CHOOSE h : h = [j \in DOMAIN trail |-> ImpliedBody(S, h, j)]
  BY DEF Implied, ImpliedBody
<1>5. Implied(S) = [j \in DOMAIN trail |-> ImpliedBody(S, Implied(S), j)]
  BY <1>1, <1>3, <1>4, Zenon
<1>6. Implied(S)[i] = ImpliedBody(S, Implied(S), i) BY <1>1, <1>5, Zenon
<1>7. QED BY <1>6, Zenon

-----------------------------------------------------------------------------
(* A set of literals of the trail that leads, by reasons, back into itself   *)
(* and to literals that hold, holds: the first of them that does not would   *)
(* have a reason whose other literals hold.                                  *)
LEMMA ReasonHolds ==
  ASSUME IInv, NEW M \in Assignments, Allowed(M, inputs, assertionLevel),
         NEW m \in 2 .. Len(trail), trail[m].lit \notin M, trail[m].reason > 0
  PROVE \E k \in Lits(clauses[trail[m].reason]) \ {trail[m].lit} :
          /\ k \in M /\ At(trail, k) \in 2 .. Len(trail) /\ At(trail, k) < m
          /\ trail[At(trail, k)].lit \notin M /\ trail[At(trail, k)].lit = -k
<1> DEFINE al == assertionLevel
           c == clauses[trail[m].reason]
<1>1. Shape(trail, al) /\ al \in Nat /\ Len(trail) \in Nat /\ m \in 1 .. Len(trail) BY Facts
<1>2. /\ trail[m].reason \in DOMAIN clauses
      /\ \A l \in Lits(c) \ {trail[m].lit} : Before(trail, l, m)
  BY <1>1 DEF IInv, Assigned, Reasons
<1>3. Sound(c, inputs, intro, al) BY <1>2, Facts
<1> HIDE DEF c
<1>4. Lits(c) \subseteq ClauseLits /\ c.level \in Nat /\ c.level <= al BY <1>1, <1>3, SoundFacts
<1>5. Allowed(M, inputs, c.level) BY <1>1, <1>4, AllowedMono
<1>6. PICK k \in Lits(c) : k \in M BY <1>3, <1>5 DEF Sound, Ent
<1>7. k # trail[m].lit /\ Before(trail, k, m) BY <1>2, <1>6
<1>8. k \in AtomLits /\ k \in Literals /\ -k \notin M
  BY <1>4, <1>6, AssignmentFacts, LiteralsAre
<1>9. IsFalse(trail, k) /\ At(trail, k) < m BY <1>1, <1>7, <1>8, BeforeIs
<1>10. At(trail, k) \in 1 .. Len(trail) /\ trail[At(trail, k)].lit = -k
  BY <1>1, <1>8, <1>9, AtFalse
<1>11. At(trail, k) # 1
  <2>1. trail[1].lit = VarTrue /\ -k # VarTrue BY <1>1, <1>8, AtomLitFacts DEF Shape
  <2>2. QED BY <1>10, <2>1
<1>12. QED BY <1>6, <1>7, <1>8, <1>9, <1>10, <1>11 DEF c

(* Where litRedundant leads to: it is assigned, and either it is implied or  *)
(* it is one of the literals that go.                                        *)
Gone(S) == {l \in S : Redundant(S, l)}
(* The entries that do not hold in M, though litRedundant reaches them.      *)
Doubtful(S, M) == {j \in 2 .. Len(trail) : /\ trail[j].lit \notin M
                                           /\ Implied(S)[j] \/ -trail[j].lit \in Gone(S)}

(* Before each of them there is another one,                                 *)
LEMMA DoubtfulEarlier ==
  ASSUME IInv, NEW M \in Assignments, Allowed(M, inputs, assertionLevel),
         NEW S, S \subseteq AtomLits, (S \ Gone(S)) \cap M = {}, NEW m \in Doubtful(S, M)
  PROVE \E j \in Doubtful(S, M) : j < m
<1> DEFINE al == assertionLevel
           l == trail[m].lit
<1>1. /\ m \in 2 .. Len(trail) /\ m \in 1 .. Len(trail) /\ l \notin M
      /\ Implied(S)[m] \/ -l \in Gone(S)
  BY Facts DEF Doubtful
<1>2. Shape(trail, al) /\ al \in Nat /\ Len(trail) \in Nat BY Facts
<1>3. /\ l \in AtomLits /\ l \in Literals /\ -l \in M /\ -l \in AtomLits /\ -l \in Literals
      /\ -(-l) = l
  <2>1. l \in AtomLits BY <1>1, <1>2, EntryFacts
  <2>2. -l \in AtomLits /\ l \in Literals BY <2>1, AtomLitFacts
  <2>3. QED BY <1>1, <2>1, <2>2, AssignmentFacts, AtomLitFacts, LitFacts
<1>4. ASSUME trail[m].reason > 0,
             \A k \in Lits(clauses[trail[m].reason]) \ {l} : k # -l => Implied(S)[At(trail, k)]
      PROVE \E j \in Doubtful(S, M) : j < m
  <2>1. PICK k \in Lits(clauses[trail[m].reason]) \ {l} :
          /\ k \in M /\ At(trail, k) \in 2 .. Len(trail) /\ At(trail, k) < m
          /\ trail[At(trail, k)].lit \notin M /\ trail[At(trail, k)].lit = -k
    BY <1>1, <1>4, ReasonHolds
  <2>2. k # -l
    <3>1. ASSUME k = -l PROVE FALSE
      <4>1. trail[At(trail, k)].lit = l BY <1>3, <2>1, <3>1
      <4>2. At(trail, k) \in 1 .. Len(trail) /\ m \in 1 .. Len(trail) BY <1>1, <1>2, <2>1
      <4>3. QED BY <1>2, <2>1, <4>1, <4>2 DEF Shape
    <3>2. QED BY <3>1
  <2>3. Implied(S)[At(trail, k)] BY <1>4, <2>1, <2>2
  <2>4. At(trail, k) \in Doubtful(S, M) BY <2>1, <2>3 DEF Doubtful
  <2>5. QED BY <2>1, <2>4
<1>5. CASE -l \in Gone(S)
  <2>1. Redundant(S, -l) BY <1>5 DEF Gone
  <2>2. At(trail, -l) = m
    <3>1. Var(l) = Var(-l) BY <1>3, LitFacts
    <3>2. QED BY <1>1, <1>2, <3>1, AtIs
  <2>3. ReasonOf(-l) = trail[m].reason BY <2>2 DEF ReasonOf
  <2>4. Others(-l) = Lits(clauses[trail[m].reason]) \ {l} BY <1>3, <2>3 DEF Others
  <2>5. trail[m].reason > 0 BY <2>1, <2>3 DEF Redundant
  <2>6. ASSUME NEW k \in Lits(clauses[trail[m].reason]) \ {l}, k # -l
        PROVE Implied(S)[At(trail, k)]
    BY <2>1, <2>4, <2>6 DEF Redundant
  <2>7. QED BY <1>4, <2>5, <2>6
<1>6. CASE -l \notin Gone(S)
  <2>1. Implied(S)[m] BY <1>1, <1>6
  <2>2. ImpliedBody(S, Implied(S), m) BY <1>1, <2>1, ImpliedIs
  <2>3. trail[m].level # 0
    <3>1. ASSUME trail[m].level = 0 PROVE FALSE
      <4>1. Ent(inputs, trail[m].ulevel, {l}) BY <1>1, <3>1 DEF IInv, Assigned, Valued
      <4>2. trail[m].ulevel \in Nat /\ trail[m].ulevel <= al BY <1>1, <1>2, EntryFacts
      <4>3. Allowed(M, inputs, trail[m].ulevel) BY <1>2, <4>2, AllowedMono
      <4>4. {l} \cap M # {} BY <4>1, <4>3 DEF Ent
      <4>5. QED BY <1>1, <4>4
    <3>2. QED BY <3>1
  <2>4. -l \notin S BY <1>3, <1>6
  <2>5. /\ trail[m].reason > 0
        /\ \A k \in Lits(clauses[trail[m].reason]) \ {l} : Implied(S)[At(trail, k)]
    BY <2>2, <2>3, <2>4, Zenon DEF ImpliedBody
  <2>6. QED BY <1>4, <2>5
<1>7. QED BY <1>5, <1>6

(* so there are none.                                                        *)
LEMMA NoneDoubtful ==
  ASSUME IInv, NEW M \in Assignments, Allowed(M, inputs, assertionLevel),
         NEW S, S \subseteq AtomLits, (S \ Gone(S)) \cap M = {}
  PROVE Doubtful(S, M) = {}
<1>1. SUFFICES ASSUME Doubtful(S, M) # {} PROVE FALSE OBVIOUS
<1>2. Doubtful(S, M) \subseteq Nat BY DEF Doubtful
<1>3. PICK m \in Doubtful(S, M) : \A n \in Doubtful(S, M) : m <= n BY <1>1, <1>2, Least
<1>4. PICK j \in Doubtful(S, M) : j < m BY DoubtfulEarlier
<1>5. m \in Nat /\ j \in Nat /\ m <= j BY <1>2, <1>3, <1>4
<1>6. QED BY <1>4, <1>5

(* What is left when the redundant literals are gone is still entailed.      *)
LEMMA MinimisedIsEntailed ==
  ASSUME IInv, NEW S, S \subseteq AtomLits, NEW n \in Nat, n <= assertionLevel,
         Ent(inputs, n, S), \A l \in S : IsFalse(trail, l)
  PROVE Ent(inputs, assertionLevel, S \ Gone(S))
<1> DEFINE al == assertionLevel
<1>1. Shape(trail, al) /\ al \in Nat /\ Len(trail) \in Nat BY Facts
<1>2. ASSUME NEW M \in Assignments, Allowed(M, inputs, al), (S \ Gone(S)) \cap M = {}
      PROVE FALSE
  <2>1. Allowed(M, inputs, n) BY <1>1, <1>2, AllowedMono
  <2>2. PICK l \in S : l \in M BY <2>1 DEF Ent
  <2>3. l \in Gone(S) BY <1>2, <2>2
  <2>4. l \in AtomLits /\ l \in Literals /\ -l \notin M /\ IsFalse(trail, l)
    BY <1>2, <2>2, AtomLitFacts, AssignmentFacts
  <2>5. At(trail, l) \in 1 .. Len(trail) /\ trail[At(trail, l)].lit = -l
    BY <1>1, <2>4, AtFalse
  <2>6. At(trail, l) # 1
    <3>1. trail[1].lit = VarTrue /\ -l # VarTrue BY <1>1, <2>4, AtomLitFacts DEF Shape
    <3>2. QED BY <2>5, <3>1
  <2>7. -(-l) = l BY <2>4, LitFacts
  <2>8. At(trail, l) \in Doubtful(S, M) BY <2>3, <2>4, <2>5, <2>6, <2>7 DEF Doubtful
  <2>9. QED BY <1>2, <2>8, NoneDoubtful
<1>3. QED BY <1>2 DEF Ent

-----------------------------------------------------------------------------
(* The last literal that is left of the current decision level.              *)
LEMMA UipFacts ==
  ASSUME IInv, pc = "analyze", Cardinality(OnTop(at.res)) = 1
  PROVE /\ Latest(at.res) \in at.res
        /\ LevelOf(trail, Latest(at.res)) = DecisionLevel(trail)
        /\ \A l \in at.res : l # Latest(at.res) => LevelOf(trail, l) < DecisionLevel(trail)
<1> DEFINE al == assertionLevel
           uip == Latest(at.res)
<1>1. Shape(trail, al) /\ al \in Nat /\ at \in Locals BY Facts
<1>2. at.res \subseteq AtomLits /\ at.res \subseteq Literals BY <1>1, LocalsFacts, LiteralsAre
<1>3. /\ \A l \in at.res : IsFalse(trail, l)
      /\ \E l \in at.res : LevelOf(trail, l) = DecisionLevel(trail)
  BY DEF IInv, Resolvent
<1>4. PICK z : OnTop(at.res) = {z}
  <2>1. OnTop(at.res) \subseteq AtomLits BY <1>2 DEF OnTop
  <2>2. IsFiniteSet(OnTop(at.res)) BY <2>1, AtomLitsFinite, FS_Subset
  <2>3. QED BY <2>2, FS_Singleton
<1>5. uip \in at.res /\ \A k \in at.res : At(trail, k) <= At(trail, uip)
  <2>1. at.res # {} BY <1>3
  <2>2. QED BY <1>1, <1>2, <2>1, LatestIs
<1> HIDE DEF uip
<1>6. z \in at.res /\ LevelOf(trail, z) = DecisionLevel(trail) BY <1>4 DEF OnTop
<1>7. LevelOf(trail, uip) = DecisionLevel(trail)
  <2>1. At(trail, z) \in 1 .. Len(trail) /\ At(trail, uip) \in 1 .. Len(trail)
    BY <1>1, <1>2, <1>3, <1>5, <1>6, AtFalse
  <2>2. At(trail, z) <= At(trail, uip) BY <1>5, <1>6
  <2>3. /\ LevelOf(trail, uip) \in Nat /\ LevelOf(trail, uip) <= DecisionLevel(trail)
        /\ DecisionLevel(trail) \in Nat
    BY <1>1, <1>2, <1>3, <1>5, LevelFacts
  <2>4. CASE At(trail, z) = At(trail, uip) BY <1>6, <2>4 DEF LevelOf
  <2>5. CASE At(trail, z) < At(trail, uip)
    <3>1. trail[At(trail, z)].level <= trail[At(trail, uip)].level BY <1>1, <2>1, <2>5 DEF Shape
    <3>2. QED BY <1>6, <2>3, <3>1 DEF LevelOf
  <2>6. At(trail, z) < At(trail, uip) \/ At(trail, z) = At(trail, uip)
    BY <1>1, <2>1, <2>2 DEF Shape
  <2>7. QED BY <2>4, <2>5, <2>6
<1>8. uip = z BY <1>4, <1>5, <1>7 DEF OnTop
<1>9. ASSUME NEW l \in at.res, l # uip PROVE LevelOf(trail, l) < DecisionLevel(trail)
  <2>1. LevelOf(trail, l) # DecisionLevel(trail) BY <1>4, <1>8, <1>9 DEF OnTop
  <2>2. /\ LevelOf(trail, l) \in Nat /\ LevelOf(trail, l) <= DecisionLevel(trail)
        /\ DecisionLevel(trail) \in Nat
    BY <1>1, <1>2, <1>3, <1>9, LevelFacts
  <2>3. QED BY <2>1, <2>2
<1>10. QED BY <1>5, <1>7, <1>9 DEF uip

(* The level of the learnt clause.                                           *)
LearntLevel ==
  IF cores THEN assertionLevel
  ELSE MaxOf({at.maxlevel} \cup {UserLevelOf(trail, l) : l \in Gone(at.res)})
(* The level to jump back to.                                                *)
BackLevel(S) == MaxOf({0} \cup {LevelOf(trail, l) : l \in S})

(* The learnt clause is entailed at the level that it is given.              *)
LEMMA LearntFacts ==
  ASSUME IInv, pc = "analyze"
  PROVE /\ LearntLevel \in 0 .. assertionLevel /\ at.maxlevel <= LearntLevel
        /\ Ent(inputs, LearntLevel, at.res \ Gone(at.res))
<1> DEFINE al == assertionLevel
           R == at.res
           X == {at.maxlevel} \cup {UserLevelOf(trail, l) : l \in Gone(R)}
<1>1. Shape(trail, al) /\ al \in Nat /\ at \in Locals /\ cores \in BOOLEAN BY Facts
<1>2. R \subseteq AtomLits /\ R \subseteq Literals /\ at.maxlevel \in Nat
  BY <1>1, LocalsFacts, LiteralsAre
<1>3. /\ at.maxlevel <= al
      /\ \A l \in R : IsFalse(trail, l) /\ LevelOf(trail, l) > 0
      /\ Ent(inputs, at.maxlevel, R)
  BY DEF IInv, Resolvent
<1>4. Gone(R) \subseteq R BY DEF Gone
<1>5. ASSUME NEW l \in Gone(R) PROVE UserLevelOf(trail, l) = al
  <2>1. l \in Literals /\ IsFalse(trail, l) /\ LevelOf(trail, l) > 0 BY <1>2, <1>3, <1>4
  <2>2. QED BY <1>1, <2>1, LevelFacts
<1>6. Ent(inputs, al, R \ Gone(R)) BY <1>2, <1>3, MinimisedIsEntailed
<1>7. CASE cores
  <2>1. LearntLevel = al BY <1>7 DEF LearntLevel
  <2>2. QED BY <1>1, <1>3, <1>6, <2>1
<1>8. CASE ~cores
  <2>1. LearntLevel = MaxOf(X) BY <1>8 DEF LearntLevel
  <2>2. X \subseteq 0 .. al /\ X # {} /\ at.maxlevel \in X BY <1>1, <1>2, <1>3, <1>5
  <2>3. MaxOf(X) \in X /\ \A y \in X : y <= MaxOf(X) BY <1>1, <2>2, MaxIs
  <2>4. CASE Gone(R) = {}
    <3>1. X = {at.maxlevel} /\ R \ Gone(R) = R BY <2>4
    <3>2. LearntLevel = at.maxlevel BY <2>1, <2>3, <3>1
    <3>3. QED BY <1>2, <1>3, <3>1, <3>2
  <2>5. CASE Gone(R) # {}
    <3>1. al \in X BY <1>5, <2>5
    <3>2. MaxOf(X) \in 0 .. al /\ al <= MaxOf(X) BY <2>2, <2>3, <3>1
    <3>3. LearntLevel = al BY <1>1, <2>1, <3>2
    <3>4. QED BY <1>1, <1>3, <1>6, <3>3
  <2>6. QED BY <2>4, <2>5
<1>9. QED BY <1>1, <1>7, <1>8

(* The end of a conflict: the asserted literal is enqueued.                  *)
LEMMA LearnEnd ==
  ASSUME IInv, pc = "analyze", NEW t, NEW d \in Nat, DecisionLevel(t) = d,
         Assigned(t, clauses, inputs, intro, assertionLevel),
         NEW l \in AtomLits, IsUndef(t, l), intro[Var(l)] \in 0 .. assertionLevel,
         Justified(d, inputs, l), NEW from \in Int, from >= -1,
         KeepsReasons(t, clauses, clauses'), Implies(t, clauses', from, l),
         Db(clauses', inputs, intro, assertionLevel), Registration(lemmas, t, left),
         qhead' = Len(t), trail' = Enqueue(t, l, from, d),
         pc' = "propagate", at' = Start("search"),
         UNCHANGED <<ok, answer, model, spent, Fixed>>
  PROVE IInv'
<1> DEFINE al == assertionLevel
           u == Enqueue(t, l, from, d)
<1>1. /\ lemmas = <<>> /\ al \in Nat /\ at' \in Locals /\ at'.caller = "search"
      /\ at'.todo = {} /\ at'.conflict = Undef /\ at'.check = "theory"
  BY Facts, StartFacts
<1>2. Shape(t, al) /\ Valued(t, inputs) BY DEF Assigned
<1>3. /\ Queue(lemmas', inputs, intro', al) /\ ReadyQueue(lemmas', u, Len(u), at'.conflict)
      /\ Vars(intro', al) /\ Grown(intro, intro') /\ left' \in Setting
  <2>1. Queue(lemmas, inputs, intro, al) /\ ReadyQueue(lemmas, u, Len(u), at'.conflict)
    BY <1>1, NoLemmas
  <2>2. left \in Setting BY DEF IInv, Base
  <2>3. QED BY <1>2, <2>1, <2>2, RegistrationFacts
<1>4. Assigned(t, clauses, inputs, intro', al)
  <2>1. Begins(t, t) /\ \A i \in 1 .. Len(t) : t[i] = t[i] BY <1>2 DEF Begins, Shape
  <2>2. QED BY <1>2, <1>3, <2>1, AssignedCut
<1>5. intro'[Var(l)] \in 0 .. al
  <2>1. Var(l) \in Atoms BY AtomLitFacts
  <2>2. intro'[Var(l)] = intro[Var(l)] BY <1>1, <1>3, <2>1 DEF Grown
  <2>3. QED BY <2>2
<1>6. /\ Assigned(u, clauses', inputs, intro', al) /\ DecisionLevel(u) = d
      /\ Len(u) = Len(t) + 1 /\ u[Len(t) + 1].level = d
  <2>1. DecisionLevel(t) <= d OBVIOUS
  <2> HIDE DEF u
  <2>2. LET v == Enqueue(t, l, from, d)
        IN  /\ Assigned(v, clauses', inputs, intro', al) /\ Begins(t, v) /\ DecisionLevel(v) = d
            /\ Len(v) = Len(t) + 1 /\ \A i \in 1 .. Len(t) : v[i] = t[i]
            /\ v[Len(t) + 1].level = d /\ v[Len(t) + 1].lit = l
            /\ Shape(v, al)
    BY <1>1, <1>4, <1>5, <2>1, AssignedEnqueued
  <2>3. QED BY <2>2 DEF u
<1>7. trail' = u OBVIOUS
<1> HIDE DEF u
<1>8. UNCHANGED <<ok, trailOk, answer, inputs, assertionLevel, cores, spent>> BY DEF Fixed
<1>9. Db(clauses', inputs, intro', al)
  <2>1. \A k \in 1 .. al + 1 : inputs[k] \subseteq inputs[k] OBVIOUS
  <2>2. QED BY <1>1, <1>3, <2>1, DbMore
<1>10. Base(inputs, intro, assertionLevel, left, cores, spent)'
  <2>1. spent' \in BOOLEAN BY <1>8 DEF IInv, Base
  <2>2. Base(inputs, intro, assertionLevel, left, cores, spent) BY DEF IInv
  <2>3. QED BY <1>3, <1>8, <2>1, <2>2, NewBase
<1>11. Bound' = Len(trail') BY DEF Bound
<1>12. Protocol(pc, at, trail, qhead, lemmas)' BY <1>1 DEF Protocol
<1>13. Pending(pc, at, trail, qhead, clauses)'
  <2>1. Len(t) \in Nat BY <1>2 DEF Shape
  <2>2. qhead' \in 0 .. Len(u) BY <1>6, <2>1
  <2>3. \A i \in 1 .. Len(u) : i > qhead' => i = Len(t) + 1 BY <1>6, <2>1
  <2>4. \A i \in 1 .. Len(u) : i > qhead' => u[i].level = DecisionLevel(u) BY <1>6, <2>3
  <2>5. QED BY <1>1, <1>7, <2>2, <2>4, NoTodo
<1>14. Conflict(pc, at, trail, clauses, inputs, assertionLevel)' BY <1>1, NoConflict
<1>15. pc' # "analyze" OBVIOUS
<1>16. Resolvent(pc, at, trail, inputs, intro, assertionLevel)' BY <1>15, NoResolvent
<1>17. Verdicts(ok, trailOk, answer, inputs, assertionLevel)' BY <1>8 DEF IInv
<1>18. /\ Assigned(trail, clauses, inputs, intro, assertionLevel)'
       /\ Db(clauses, inputs, intro, assertionLevel)'
       /\ Queue(lemmas, inputs, intro, assertionLevel)'
       /\ ReadyQueue(lemmas, trail, Bound, at.conflict)'
  BY <1>3, <1>6, <1>7, <1>8, <1>9, <1>11
<1>19. QED BY <1>10, <1>12, <1>13, <1>14, <1>16, <1>17, <1>18 DEF IInv

(* The backjump: all that is learnt but the asserted literal stays false,    *)
(* and that literal is free again.                                           *)
Learnt == (at.res \ Gone(at.res)) \ {Latest(at.res)}

(* The backjump: all that is learnt but the asserted literal stays false,    *)
(* and that literal is free again.                                           *)
LEMMA BackjumpFacts ==
  ASSUME IInv, pc = "analyze", Cardinality(OnTop(at.res)) = 1
  PROVE LET back == BackLevel(Learnt)
            t == CancelUntil(trail, back)
        IN  /\ back \in Nat /\ DecisionLevel(t) = back
            /\ Assigned(t, clauses, inputs, intro, assertionLevel)
            /\ IsUndef(t, Latest(at.res))
            /\ \A k \in Learnt : IsFalse(t, k)
            /\ Learnt # {} => back # 0
<1> DEFINE al == assertionLevel
           uip == Latest(at.res)
           X == {0} \cup {LevelOf(trail, l) : l \in Learnt}
           back == BackLevel(Learnt)
           t == CancelUntil(trail, back)
<1>1. Shape(trail, al) /\ al \in Nat /\ at \in Locals /\ DecisionLevel(trail) \in Nat BY Facts
<1>2. at.res \subseteq AtomLits /\ at.res \subseteq Literals BY <1>1, LocalsFacts, LiteralsAre
<1>3. \A l \in at.res : IsFalse(trail, l) /\ LevelOf(trail, l) > 0
  BY DEF IInv, Resolvent
<1>4. /\ uip \in at.res /\ LevelOf(trail, uip) = DecisionLevel(trail)
      /\ \A l \in at.res : l # uip => LevelOf(trail, l) < DecisionLevel(trail)
  BY UipFacts
<1> HIDE DEF uip
<1>5. ASSUME NEW l \in Learnt
      PROVE /\ l \in Literals /\ IsFalse(trail, l)
            /\ LevelOf(trail, l) \in Nat /\ LevelOf(trail, l) > 0
            /\ LevelOf(trail, l) < DecisionLevel(trail)
  <2>1. l \in at.res /\ l # uip BY DEF Learnt, uip
  <2>2. l \in Literals /\ IsFalse(trail, l) BY <1>2, <1>3, <2>1
  <2>3. LevelOf(trail, l) \in Nat BY <1>1, <2>2, LevelFacts
  <2>4. QED BY <1>3, <1>4, <2>1, <2>2, <2>3
<1>6. back \in X /\ back \in Nat /\ \A y \in X : y <= back
  <2>1. X \subseteq 0 .. DecisionLevel(trail) /\ X # {} BY <1>1, <1>5
  <2>2. MaxOf(X) \in X /\ \A y \in X : y <= MaxOf(X) BY <1>1, <2>1, MaxIs
  <2>3. back = MaxOf(X) BY DEF BackLevel
  <2> HIDE DEF X, back
  <2>4. back \in Nat
    <3>1. back \in 0 .. DecisionLevel(trail) BY <2>1, <2>2, <2>3, Zenon
    <3>2. QED BY <1>1, <3>1
  <2>5. QED BY <2>2, <2>3, <2>4
<1>7. back < DecisionLevel(trail)
  <2>1. DecisionLevel(trail) > 0 BY <1>3, <1>4
  <2>2. CASE back = 0 BY <2>1, <2>2
  <2>3. CASE back # 0 BY <1>5, <1>6, <2>3
  <2>4. QED BY <2>2, <2>3
<1>8. \A l \in Learnt : LevelOf(trail, l) <= back BY <1>6
<1>9. Learnt # {} => back # 0
  <2>1. ASSUME NEW l \in Learnt PROVE back # 0 BY <1>5, <1>6, <1>8
  <2>2. QED BY <2>1
<1>10. back # 0 => \E l \in Learnt : LevelOf(trail, l) = back BY <1>6
<1> HIDE DEF back
<1>11. /\ Shape(t, al) /\ Begins(t, trail) /\ DecisionLevel(t) <= back
       /\ Len(t) \in 1 .. Len(trail)
       /\ \A i \in 1 .. Len(t) : t[i] = trail[i]
       /\ \A i \in 1 .. Len(trail) : trail[i].level <= back <=> i <= Len(t)
       /\ (\E i \in 1 .. Len(trail) : trail[i].level = back) => DecisionLevel(t) = back
  <2>1. LET u == CancelUntil(trail, back)
        IN  /\ Shape(u, al) /\ Begins(u, trail) /\ DecisionLevel(u) <= back
            /\ Len(u) \in 1 .. Len(trail)
            /\ \A i \in 1 .. Len(u) : u[i] = trail[i]
            /\ \A i \in 1 .. Len(trail) : trail[i].level <= back <=> i <= Len(u)
            /\ DecisionLevel(trail) <= back => u = trail
            /\ Len(u) = Len(trail) => u = trail
            /\ (\E i \in 1 .. Len(trail) : trail[i].level = back) => DecisionLevel(u) = back
    BY <1>1, <1>6, CancelFacts
  <2>2. QED BY <2>1
<1> HIDE DEF t
<1>12. DecisionLevel(t) = back
  <2>1. 1 \in 1 .. Len(trail) /\ trail[1].level = 0 BY <1>1 DEF Shape
  <2>2. CASE back = 0 BY <1>11, <2>1, <2>2
  <2>3. CASE back # 0
    <3>1. PICK l \in Learnt : LevelOf(trail, l) = back BY <1>10, <2>3
    <3>2. At(trail, l) \in 1 .. Len(trail) BY <1>1, <1>5, AtFalse
    <3>3. trail[At(trail, l)].level = back BY <3>1 DEF LevelOf
    <3>4. QED BY <1>11, <3>2, <3>3
  <2>4. QED BY <2>2, <2>3
<1>13. Assigned(t, clauses, inputs, intro, al)
  <2>1. Assigned(trail, clauses, inputs, intro, al) BY DEF IInv
  <2>2. QED BY <1>11, <2>1, AssignedCut, GrownSame
<1>14. IsUndef(t, uip)
  <2>1. uip \in Literals /\ IsFalse(trail, uip) BY <1>2, <1>3, <1>4
  <2>2. ASSUME NEW i \in 1 .. Len(t), Var(t[i].lit) = Var(uip) PROVE FALSE
    <3>1. i \in 1 .. Len(trail) /\ t[i] = trail[i] /\ i <= Len(t)
      BY <1>1, <1>11 DEF Shape
    <3>2. At(trail, uip) = i BY <1>1, <2>2, <3>1, AtIs
    <3>3. trail[i].level = DecisionLevel(trail) BY <1>4, <3>2 DEF LevelOf
    <3>4. trail[i].level <= back BY <1>11, <3>1
    <3>5. QED BY <1>1, <1>6, <1>7, <3>3, <3>4
  <2>3. QED BY <1>11, <2>1, <2>2, Undefined
<1>15. ASSUME NEW k \in Learnt PROVE IsFalse(t, k)
  <2>1. At(trail, k) \in 1 .. Len(trail) /\ trail[At(trail, k)].lit = -k
    BY <1>1, <1>5, AtFalse
  <2>2. trail[At(trail, k)].level <= back BY <1>8 DEF LevelOf
  <2>3. At(trail, k) \in 1 .. Len(t) /\ t[At(trail, k)].lit = -k BY <1>11, <2>1, <2>2
  <2>4. QED BY <1>11, <2>3, Falses
<1>16. QED BY <1>6, <1>9, <1>12, <1>13, <1>14, <1>15 DEF t, back, uip

(* The learnt clause is sound and implies the asserted literal.              *)
LEMMA LearntClause ==
  ASSUME IInv, pc = "analyze", Cardinality(OnTop(at.res)) = 1, NEW k \in Learnt,
         NEW n, n = LearntLevel, NEW b \in BOOLEAN
  PROVE LET c == [w |-> <<Latest(at.res), k>>, rest |-> Learnt \ {k}, level |-> n,
                  removable |-> b]
        IN  /\ Sound(c, inputs, intro, assertionLevel)
            /\ c.w[1] = Latest(at.res) /\ Lits(c) \ {Latest(at.res)} \subseteq Learnt
<1> DEFINE al == assertionLevel
           uip == Latest(at.res)
           R == at.res \ Gone(at.res)
           W == <<uip, k>>
           c == [w |-> W, rest |-> Learnt \ {k}, level |-> n, removable |-> b]
<1>1. al \in Nat /\ at \in Locals BY Facts
<1>2. at.res \subseteq AtomLits /\ at.maxlevel \in Nat BY <1>1, LocalsFacts
<1>3. uip \in R
  <2>1. uip \in at.res BY UipFacts
  <2>2. uip \notin Gone(at.res) BY DEF Gone, Redundant
  <2>3. QED BY <2>1, <2>2
<1>4. Learnt = R \ {uip} BY DEF Learnt
<1> HIDE DEF uip, R
<1>5. R \subseteq AtomLits /\ R \subseteq at.res BY <1>2 DEF R
<1>6. AtomLits \subseteq ClauseLits BY AtomLitFacts
<1>7. uip \in ClauseLits /\ k \in ClauseLits /\ Learnt \ {k} \subseteq ClauseLits
  BY <1>3, <1>4, <1>5, <1>6
<1>8. W \in Seq(ClauseLits) /\ Len(W) = 2 /\ W[1] = uip /\ W[2] = k BY <1>7
<1>9. n \in 0 .. al /\ at.maxlevel <= n /\ Ent(inputs, n, R) BY LearntFacts DEF R
<1> HIDE DEF W
<1>10. c.w = W /\ c.rest = Learnt \ {k} /\ c.level = n OBVIOUS
<1>11. c \in ClauseType BY <1>7, <1>8, <1>9 DEF ClauseType
<1> HIDE DEF c
<1>12. Lits(c) = R BY <1>3, <1>4, <1>8, <1>10 DEF Lits
<1>13. \A l \in R : intro[Var(l)] \in 0 .. n
  <2>1. TAKE l \in R
  <2>2. intro[Var(l)] \in 0 .. at.maxlevel BY <1>5 DEF IInv, Resolvent
  <2>3. QED BY <1>2, <1>9, <2>2
<1>14. Sound(c, inputs, intro, al) BY <1>1, <1>8, <1>9, <1>10, <1>11, <1>12, <1>13 DEF Sound
<1>15. c.w[1] = uip /\ Lits(c) \ {uip} \subseteq Learnt BY <1>4, <1>8, <1>10, <1>12
<1>16. QED BY <1>14, <1>15 DEF c, W, uip

(* A conflict ends with a learnt clause.                                     *)
LEMMA LearnStep ==
  ASSUME IInv, Learn
  PROVE IInv'
<1> DEFINE al == assertionLevel
           uip == Latest(at.res)
           gone == {l \in at.res : Redundant(at.res, l)}
           others == (at.res \ gone) \ {uip}
           level == IF cores THEN al
                    ELSE MaxOf({at.maxlevel} \cup {UserLevelOf(trail, l) : l \in gone})
           back == MaxOf({0} \cup {LevelOf(trail, l) : l \in others})
           t == CancelUntil(trail, back)
           New(k) == [w |-> <<uip, k>>, rest |-> others \ {k}, level |-> level,
                      removable |-> TRUE]
<1>1. /\ pc = "analyze" /\ Cardinality(OnTop(at.res)) = 1
      /\ pc' = "propagate" /\ at' = Start("search")
      /\ UNCHANGED <<ok, answer, model, spent, Fixed>>
  BY DEF Learn
<1>2. /\ qhead' = Len(t) /\ Registration(lemmas, t, left)
      /\ \/ others = {} /\ trail' = Enqueue(t, uip, Undef, back) /\ clauses' = clauses
         \/ \E k \in others : /\ clauses' = Attach(clauses, New(k))
                              /\ trail' = Enqueue(t, uip, FreshRef(clauses), back)
  BY DEF Learn
<1>3. others = Learnt /\ back = BackLevel(Learnt) /\ level = LearntLevel
  BY DEF Learnt, Gone, BackLevel, LearntLevel
<1>4. al \in Nat /\ at \in Locals /\ IsFiniteSet(DOMAIN clauses) BY Facts
<1>5. uip \in at.res /\ at.res \subseteq AtomLits /\ uip \in AtomLits
  <2>1. uip \in at.res BY <1>1, UipFacts
  <2>2. at.res \subseteq AtomLits BY <1>4, LocalsFacts
  <2>3. QED BY <2>1, <2>2
<1>6. /\ back \in Nat /\ DecisionLevel(t) = back
      /\ Assigned(t, clauses, inputs, intro, al)
      /\ IsUndef(t, uip) /\ \A k \in others : IsFalse(t, k)
      /\ others # {} => back # 0
  <2>1. LET b == BackLevel(Learnt)
            v == CancelUntil(trail, b)
        IN  /\ b \in Nat /\ DecisionLevel(v) = b
            /\ Assigned(v, clauses, inputs, intro, al)
            /\ IsUndef(v, uip) /\ \A k \in Learnt : IsFalse(v, k)
            /\ Learnt # {} => b # 0
    BY <1>1, BackjumpFacts
  <2>2. QED BY <1>3, <2>1
<1>7. intro[Var(uip)] \in 0 .. al
  <2>1. uip \in Literals /\ IsFalse(trail, uip)
    BY <1>1, <1>5, AtomLitFacts DEF IInv, Resolvent
  <2>2. QED BY <1>5, <2>1, AssignedExists
<1>8. Reasons(t, clauses) BY <1>6 DEF Assigned
<1>9. Db(clauses, inputs, intro, al) BY DEF IInv
<1>10. CASE others = {} /\ trail' = Enqueue(t, uip, Undef, back) /\ clauses' = clauses
  <2>1. Justified(back, inputs, uip)
    <3>1. /\ LearntLevel \in 0 .. al /\ Ent(inputs, LearntLevel, at.res \ Gone(at.res))
      BY <1>1, LearntFacts
    <3>2. at.res \ Gone(at.res) \subseteq {uip} BY <1>3, <1>10 DEF Learnt
    <3>3. Ent(inputs, al, {uip}) BY <1>4, <3>1, <3>2, EntMono
    <3>4. QED BY <3>3 DEF Justified
  <2>2. PICK z \in Int : z = Undef BY DEF Undef
  <2>3. z >= -1 /\ ~(z > 0) BY <2>2 DEF Undef
  <2>4. KeepsReasons(t, clauses, clauses') /\ Db(clauses', inputs, intro, al)
    <3>1. \A r \in DOMAIN clauses : r \in DOMAIN clauses /\ clauses[r] = clauses[r] OBVIOUS
    <3>2. KeepsReasons(t, clauses, clauses) BY <1>8, <3>1, KeepsReasonsMore
    <3>3. QED BY <1>9, <1>10, <3>2
  <2>5. Implies(t, clauses', z, uip) BY <2>3 DEF Implies
  <2>6. trail' = Enqueue(t, uip, z, back) BY <1>10, <2>2
  <2> HIDE DEF t, uip, back
  <2>7. QED BY <1>1, <1>2, <1>5, <1>6, <1>7, <2>1, <2>3, <2>4, <2>5, <2>6, LearnEnd
<1>11. CASE \E k \in others : /\ clauses' = Attach(clauses, New(k))
                              /\ trail' = Enqueue(t, uip, FreshRef(clauses), back)
  <2>1. PICK k \in others : /\ clauses' = Attach(clauses, New(k))
                            /\ trail' = Enqueue(t, uip, FreshRef(clauses), back)
    BY <1>11
  <2> DEFINE c == New(k)
             f == FreshRef(clauses)
  <2>2. /\ Sound(c, inputs, intro, al) /\ c.w[1] = uip /\ Lits(c) \ {uip} \subseteq others
    <3>1. PICK b \in BOOLEAN : b = TRUE OBVIOUS
    <3>2. k \in Learnt BY <1>3
    <3>3. PICK n : n = LearntLevel OBVIOUS
    <3>4. LET d == [w |-> <<uip, k>>, rest |-> Learnt \ {k}, level |-> n, removable |-> b]
          IN  Sound(d, inputs, intro, al) /\ d.w[1] = uip /\ Lits(d) \ {uip} \subseteq Learnt
      BY <1>1, <3>2, <3>3, LearntClause
    <3>5. c = [w |-> <<uip, k>>, rest |-> Learnt \ {k}, level |-> n, removable |-> b]
      BY <1>3, <3>1, <3>3
    <3> HIDE DEF c, uip, others
    <3>6. QED BY <1>3, <3>4, <3>5
  <2>3. clauses' = Attach(clauses, c) BY <2>1
  <2> HIDE DEF c, uip, back, t, others
  <2>4. /\ DOMAIN clauses' = DOMAIN clauses \cup {f} /\ clauses'[f] = c
        /\ f \in Nat /\ f > 0
        /\ \A r \in DOMAIN clauses : r \in DOMAIN clauses' /\ clauses'[r] = clauses[r]
    <3>1. LET e == Attach(clauses, c)
              g == FreshRef(clauses)
          IN  /\ DOMAIN e = DOMAIN clauses \cup {g} /\ e[g] = c /\ g \notin DOMAIN clauses
              /\ g \in Nat /\ g > 0
              /\ \A r \in DOMAIN clauses : r \in DOMAIN e /\ e[r] = clauses[r]
      BY <1>4, AttachFacts
    <3>2. QED BY <2>3, <3>1
  <2>5. trail' = Enqueue(t, uip, f, back) BY <2>1
  <2> HIDE DEF f
  <2>6. Db(clauses', inputs, intro, al) BY <1>9, <2>2, <2>3, DbAttach
  <2>7. KeepsReasons(t, clauses, clauses') BY <1>8, <2>4, KeepsReasonsMore
  <2>8. Implies(t, clauses', f, uip) BY <1>6, <2>2, <2>4 DEF Implies
  <2>9. Justified(back, inputs, uip) BY <1>6, <2>1 DEF Justified
  <2>10. f \in Int /\ f >= -1 BY <2>4
  <2>11. QED BY <1>1, <1>2, <1>5, <1>6, <1>7, <2>5, <2>6, <2>7, <2>8, <2>9, <2>10, LearnEnd
<1>12. QED BY <1>2, <1>10, <1>11

-----------------------------------------------------------------------------
(* A clause that is visited: the watched literals are exchanged, within the  *)
(* same literals.                                                            *)
Rewatched(c, d) ==
  /\ d \in ClauseType /\ Len(d.w) = 2 /\ Lits(d) = Lits(c)
  /\ d.level = c.level

(* The two watches of a clause.                                              *)
LEMMA WatchedFacts ==
  ASSUME IInv, NEW r \in DOMAIN clauses, NEW l \in {clauses[r].w[1], clauses[r].w[2]},
         NEW first, first = IF clauses[r].w[1] = l THEN clauses[r].w[2] ELSE clauses[r].w[1]
  PROVE /\ {first, l} = {clauses[r].w[1], clauses[r].w[2]}
        /\ first \in ClauseLits /\ l \in ClauseLits /\ clauses[r].rest \subseteq ClauseLits
        /\ Lits(clauses[r]) = {first, l} \cup clauses[r].rest
        /\ clauses[r] \in ClauseType
<1>1. Sound(clauses[r], inputs, intro, assertionLevel) /\ assertionLevel \in Nat BY Facts
<1>2. /\ clauses[r].w[1] \in ClauseLits /\ clauses[r].w[2] \in ClauseLits
      /\ clauses[r].rest \subseteq ClauseLits
  BY <1>1, SoundFacts
<1>3. {first, l} = {clauses[r].w[1], clauses[r].w[2]} OBVIOUS
<1>4. QED BY <1>1, <1>2, <1>3 DEF Lits, Sound

(* The arena, with the literals of one clause in another order.              *)
LEMMA RewatchedDb ==
  ASSUME IInv, NEW r \in DOMAIN clauses, NEW d, Rewatched(clauses[r], d),
         DOMAIN clauses' = DOMAIN clauses, clauses'[r] = d,
         \A q \in DOMAIN clauses : q # r => clauses'[q] = clauses[q]
  PROVE Db(clauses', inputs, intro, assertionLevel)
<1>1. Db(clauses, inputs, intro, assertionLevel) BY DEF IInv
<1>2. Sound(d, inputs, intro, assertionLevel)
  <2>1. Sound(clauses[r], inputs, intro, assertionLevel) BY <1>1 DEF Db
  <2>2. QED BY <2>1 DEF Sound, Rewatched
<1>3. ASSUME NEW q \in DOMAIN clauses' PROVE Sound(clauses'[q], inputs, intro, assertionLevel)
  <2>1. CASE q = r BY <1>2, <2>1
  <2>2. CASE q # r
    <3>1. clauses'[q] = clauses[q] /\ q \in DOMAIN clauses BY <2>2
    <3>2. QED BY <1>1, <3>1 DEF Db
  <2>3. QED BY <2>1, <2>2
<1>4. QED BY <1>1, <1>3 DEF Db

(* Nothing but r changes, which is no reason.                                *)
Only(r) == /\ DOMAIN clauses' = DOMAIN clauses
           /\ \A q \in DOMAIN clauses : q # r => clauses'[q] = clauses[q]

(* Such a clause can change if it is no reason.                              *)
LEMMA OnlyKeeps ==
  ASSUME IInv, NEW r \in DOMAIN clauses, Only(r), ~IsTrue(trail, clauses[r].w[1])
  PROVE KeepsReasons(trail, clauses, clauses')
<1>1. Reasons(trail, clauses) /\ Shape(trail, assertionLevel) BY Facts DEF IInv, Assigned
<1>2. ASSUME NEW i \in 1 .. Len(trail), trail[i].reason > 0
      PROVE trail[i].reason \in DOMAIN clauses' /\ clauses'[trail[i].reason] = clauses[trail[i].reason]
  <2>1. trail[i].reason \in DOMAIN clauses /\ clauses[trail[i].reason].w[1] = trail[i].lit
    BY <1>1, <1>2 DEF Reasons
  <2>2. trail[i].reason # r
    <3>1. ASSUME trail[i].reason = r PROVE FALSE
      <4>1. trail[i].lit = clauses[r].w[1] BY <2>1, <3>1
      <4>2. QED BY <1>1, <4>1, Trues
    <3>2. QED BY <3>1
  <2>3. QED BY <2>1, <2>2 DEF Only
<1>3. QED BY <1>2 DEF KeepsReasons

(* The literal whose watchers are visited, and one of them.                  *)
LEMMA VisitFacts ==
  ASSUME IInv, NEW r \in at.todo
  PROVE /\ pc = "bool" /\ r \in DOMAIN clauses /\ qhead \in 1 .. Len(trail)
        /\ r \in Int /\ r > 0
        /\ -trail[qhead].lit \in {clauses[r].w[1], clauses[r].w[2]}
        /\ IsFalse(trail, -trail[qhead].lit) /\ -trail[qhead].lit \in Literals
        /\ LevelOf(trail, -trail[qhead].lit) = DecisionLevel(trail)
        /\ \A i \in 1 .. Len(trail) : i >= qhead => trail[i].level = DecisionLevel(trail)
        /\ lemmas = <<>> /\ at.conflict = Undef /\ at \in Locals
<1> DEFINE l == -trail[qhead].lit
<1>1. Pending(pc, at, trail, qhead, clauses) BY DEF IInv
<1>2. /\ pc = "bool" /\ r \in DOMAIN clauses /\ qhead \in 1 .. Len(trail)
      /\ l \in {clauses[r].w[1], clauses[r].w[2]}
      /\ \A i \in 1 .. Len(trail) : i >= qhead => trail[i].level = DecisionLevel(trail)
  <2>1. at.todo # {} OBVIOUS
  <2>2. pc = "bool" /\ qhead > 0 /\ qhead \in 0 .. Len(trail) /\ Len(trail) \in Nat
    BY <1>1, <2>1, Facts DEF Pending
  <2>3. QED BY <1>1, <2>1, <2>2 DEF Pending
<1>3. Shape(trail, assertionLevel) BY Facts
<1>4. trail[qhead].lit \in Literals BY <1>2, <1>3, EntryFacts
<1>5. l \in Literals /\ -l = trail[qhead].lit /\ Var(l) = Var(trail[qhead].lit) BY <1>4, LitFacts
<1>6. IsFalse(trail, l) /\ At(trail, l) = qhead BY <1>2, <1>3, <1>5, Falses, AtIs
<1>7. LevelOf(trail, l) = DecisionLevel(trail)
  <2>1. trail[qhead].level = DecisionLevel(trail) BY <1>2
  <2>2. QED BY <1>6, <2>1 DEF LevelOf
<1>8. r \in Int /\ r > 0 BY <1>2, Facts
<1>9. QED BY <1>2, <1>5, <1>6, <1>7, <1>8, Facts

(* The trail u is t, or t and more of its decision level.                    *)
Extends(t, u) ==
  /\ Len(u) \in Nat /\ Len(t) <= Len(u) /\ DecisionLevel(u) = DecisionLevel(t)
  /\ \A i \in 1 .. Len(u) : IF i <= Len(t) THEN u[i] = t[i] ELSE u[i].level = DecisionLevel(t)

(* The visit of a watcher that finds no conflict.                            *)
LEMMA VisitEnd ==
  ASSUME IInv, NEW r \in at.todo, Only(r), Db(clauses', inputs, intro, assertionLevel),
         Assigned(trail', clauses', inputs, intro, assertionLevel), Extends(trail, trail'),
         \A q \in at.todo : q # r => clauses'[q] = clauses[q],
         at' = [at EXCEPT !.todo = @ \ {r}], UNCHANGED <<qhead, pc, lemmas, Inside>>
  PROVE IInv'
<1> DEFINE al == assertionLevel
           rest == at.todo \ {r}
<1>1. UNCHANGED <<qhead, pc, lemmas, assertionLevel, trailOk, inputs, cores,
                  intro, ok, answer, model, left, spent>>
  BY DEF Inside, Fixed
<1>2. /\ pc = "bool" /\ r \in DOMAIN clauses /\ qhead \in 1 .. Len(trail)
      /\ \A i \in 1 .. Len(trail) : i >= qhead => trail[i].level = DecisionLevel(trail)
      /\ lemmas = <<>> /\ at.conflict = Undef /\ at \in Locals
  BY VisitFacts
<1>3. al \in Nat /\ Len(trail) \in Nat /\ Shape(trail, al) BY Facts
<1>4. /\ at' \in Locals /\ at'.caller = at.caller /\ at'.check = at.check /\ at'.todo = rest
      /\ at'.conflict = Undef
  <2>1. rest \in SUBSET Nat BY <1>2, LocalsFacts
  <2>2. at' = [at EXCEPT !.todo = rest] OBVIOUS
  <2> HIDE DEF rest
  <2>3. LET b == [at EXCEPT !.todo = rest]
        IN  /\ b \in Locals
            /\ b.caller = at.caller /\ b.check = at.check /\ b.todo = rest
            /\ b.conflict = at.conflict /\ b.recheck = at.recheck /\ b.from = at.from
            /\ b.bound = at.bound /\ b.res = at.res /\ b.maxlevel = at.maxlevel
    BY <1>2, <2>1, NewTodo
  <2>4. QED BY <1>2, <2>2, <2>3
<1>5. Base(inputs, intro, assertionLevel, left, cores, spent)' BY <1>1, SameBase DEF IInv
<1>6. /\ Assigned(trail, clauses, inputs, intro, assertionLevel)'
      /\ Db(clauses, inputs, intro, assertionLevel)'
      /\ Verdicts(ok, trailOk, answer, inputs, assertionLevel)'
  BY <1>1 DEF IInv
<1>7. /\ Queue(lemmas, inputs, intro, assertionLevel)'
      /\ ReadyQueue(lemmas, trail, Bound, at.conflict)'
  BY <1>1, <1>2, NoLemmas
<1>8. Protocol(pc, at, trail, qhead, lemmas)'
  <2>1. DecisionLevel(trail') = DecisionLevel(trail) BY DEF Extends
  <2>2. Protocol(pc, at, trail, qhead, lemmas) BY DEF IInv
  <2>3. QED BY <1>1, <1>2, <1>4, <2>1, <2>2 DEF Protocol
<1>9. Pending(pc, at, trail, qhead, clauses)'
  <2>1. qhead' \in 0 .. Len(trail') /\ pc' = "bool" /\ qhead' > 0 /\ qhead' = qhead
    BY <1>1, <1>2, <1>3 DEF Extends
  <2>2. ASSUME NEW q \in rest
        PROVE q \in DOMAIN clauses' /\ -trail'[qhead].lit \in {clauses'[q].w[1], clauses'[q].w[2]}
    <3>1. q \in at.todo /\ q # r OBVIOUS
    <3>2. q \in DOMAIN clauses /\ -trail[qhead].lit \in {clauses[q].w[1], clauses[q].w[2]}
      BY <3>1, VisitFacts
    <3>3. clauses'[q] = clauses[q] /\ q \in DOMAIN clauses' BY <3>1, <3>2 DEF Only
    <3>4. trail'[qhead] = trail[qhead] BY <1>2, <1>3 DEF Extends
    <3>5. QED BY <3>2, <3>3, <3>4
  <2>3. ASSUME NEW i \in 1 .. Len(trail'), i >= qhead
        PROVE trail'[i].level = DecisionLevel(trail')
    <3>1. CASE i <= Len(trail)
      <4>1. trail'[i] = trail[i] /\ i \in 1 .. Len(trail) BY <1>3, <3>1 DEF Extends
      <4>2. QED BY <1>2, <2>3, <4>1 DEF Extends
    <3>2. CASE ~(i <= Len(trail)) BY <3>2 DEF Extends
    <3>3. QED BY <3>1, <3>2
  <2>4. \A i \in 1 .. Len(trail') : i > qhead' \/ (i = qhead' /\ at'.todo # {}) =>
           trail'[i].level = DecisionLevel(trail')
    <3>1. \A i \in 1 .. Len(trail') : i > qhead' \/ i = qhead' => i >= qhead
      BY <1>2, <1>3, <2>1 DEF Extends
    <3>2. QED BY <2>3, <3>1
  <2>5. QED BY <1>4, <2>1, <2>2, <2>4 DEF Pending
<1>10. Conflict(pc, at, trail, clauses, inputs, assertionLevel)' BY <1>4, NoConflict
<1>11. pc' # "analyze" BY <1>1, <1>2
<1>12. Resolvent(pc, at, trail, inputs, intro, assertionLevel)' BY <1>11, NoResolvent
<1>13. QED BY <1>5, <1>6, <1>7, <1>8, <1>9, <1>10, <1>12 DEF IInv

(* A trail extends itself.                                                   *)
LEMMA ExtendsItself ==
  ASSUME NEW t, NEW al, Shape(t, al)
  PROVE Extends(t, t)
BY DEF Extends, Shape

(* The trail stays, the clauses change at r.                                 *)
LEMMA AssignedRewatched ==
  ASSUME IInv, KeepsReasons(trail, clauses, clauses')
  PROVE Assigned(trail, clauses', inputs, intro, assertionLevel)
<1>1. Assigned(trail, clauses, inputs, intro, assertionLevel) BY DEF IInv
<1>2. Reasons(trail, clauses') BY <1>1 DEF Assigned, Reasons, KeepsReasons
<1>3. QED BY <1>1, <1>2 DEF Assigned

(* The false clause found by a visit.                                        *)
LEMMA VisitConflict ==
  ASSUME IInv, NEW r \in at.todo, Only(r), Db(clauses', inputs, intro, assertionLevel),
         KeepsReasons(trail, clauses, clauses'),
         Lits(clauses'[r]) = Lits(clauses[r]), \A l \in Lits(clauses[r]) : IsFalse(trail, l),
         at' = [at EXCEPT !.todo = {}, !.conflict = r], trail' = trail,
         qhead' = Len(trail), pc' = "return", UNCHANGED <<lemmas, Inside>>
  PROVE IInv'
<1> DEFINE al == assertionLevel
<1>1. UNCHANGED <<lemmas, assertionLevel, trailOk, inputs, cores,
                  intro, ok, answer, model, left, spent>>
  BY DEF Inside, Fixed
<1>2. /\ pc = "bool" /\ r \in DOMAIN clauses /\ qhead \in 1 .. Len(trail)
      /\ r \in Int /\ r > 0
      /\ -trail[qhead].lit \in {clauses[r].w[1], clauses[r].w[2]}
      /\ LevelOf(trail, -trail[qhead].lit) = DecisionLevel(trail)
      /\ lemmas = <<>> /\ at \in Locals
  BY VisitFacts
<1>3. al \in Nat /\ Len(trail) \in Nat /\ Shape(trail, al) BY Facts
<1>4. /\ at' \in Locals /\ at'.caller = at.caller /\ at'.todo = {} /\ at'.conflict = r
  <2> DEFINE e == {}
  <2>1. e \in SUBSET Nat OBVIOUS
  <2>2. at' = [at EXCEPT !.todo = e, !.conflict = r] OBVIOUS
  <2>3. e = {} OBVIOUS
  <2> HIDE DEF e
  <2>4. r \in Int /\ at \in Locals BY <1>2
  <2>5. QED BY <2>1, <2>2, <2>3, <2>4 DEF Locals
<1>5. Base(inputs, intro, assertionLevel, left, cores, spent)' BY <1>1, SameBase DEF IInv
<1>6. Assigned(trail, clauses', inputs, intro, al) BY AssignedRewatched
<1>7. /\ Assigned(trail, clauses, inputs, intro, assertionLevel)'
      /\ Db(clauses, inputs, intro, assertionLevel)'
      /\ Verdicts(ok, trailOk, answer, inputs, assertionLevel)'
  BY <1>1, <1>6 DEF IInv
<1>8. /\ Queue(lemmas, inputs, intro, assertionLevel)'
      /\ ReadyQueue(lemmas, trail, Bound, at.conflict)'
  BY <1>1, <1>2, NoLemmas
<1>9. Protocol(pc, at, trail, qhead, lemmas)'
  <2>1. at'.conflict # Undef BY <1>2, <1>4 DEF Undef
  <2>2. Protocol(pc, at, trail, qhead, lemmas) BY DEF IInv
  <2>3. QED BY <1>1, <1>2, <1>4, <2>1, <2>2 DEF Protocol
<1>10. Pending(pc, at, trail, qhead, clauses)'
  <2>1. qhead' \in 0 .. Len(trail') BY <1>3
  <2>2. \A i \in 1 .. Len(trail') : i > qhead' => trail'[i].level = DecisionLevel(trail')
    BY <1>3
  <2>3. QED BY <1>4, <2>1, <2>2, NoTodo
<1>11. Conflict(pc', at', trail, clauses', inputs, al)
  <2>1. r \in DOMAIN clauses' BY <1>2 DEF Only
  <2>2. -trail[qhead].lit \in Lits(clauses'[r]) BY <1>2 DEF Lits
  <2>3. \E l \in Lits(clauses'[r]) : LevelOf(trail, l) = DecisionLevel(trail) BY <1>2, <2>2
  <2>4. \A l \in Lits(clauses'[r]) : IsFalse(trail, l) OBVIOUS
  <2>5. r >= Lazy /\ r # Lazy BY <1>2 DEF Lazy
  <2>6. QED BY <1>4, <2>1, <2>3, <2>4, <2>5 DEF Conflict
<1>12. Conflict(pc, at, trail, clauses, inputs, assertionLevel)' BY <1>1, <1>11
<1>13. pc' # "analyze" OBVIOUS
<1>14. Resolvent(pc, at, trail, inputs, intro, assertionLevel)' BY <1>13, NoResolvent
<1>15. QED BY <1>5, <1>7, <1>8, <1>9, <1>10, <1>12, <1>14 DEF IInv

(* A watcher is visited.                                                     *)
LEMMA VisitWatcherStep ==
  ASSUME IInv, NEW r \in DOMAIN clauses, VisitWatcher(r)
  PROVE IInv'
<1> DEFINE al == assertionLevel
           c == clauses[r]
           l == -trail[qhead].lit
           first == IF c.w[1] = l THEN c.w[2] ELSE c.w[1]
           rest == [at EXCEPT !.todo = @ \ {r}]
<1>1. r \in at.todo /\ UNCHANGED <<lemmas, Inside>> BY DEF VisitWatcher
<1>2. /\ pc = "bool" /\ qhead \in 1 .. Len(trail) /\ r \in Int /\ r > 0
      /\ l \in {c.w[1], c.w[2]}
      /\ IsFalse(trail, l) /\ l \in Literals /\ LevelOf(trail, l) = DecisionLevel(trail)
  BY <1>1, VisitFacts
<1>3. al \in Nat /\ Len(trail) \in Nat /\ Shape(trail, al) /\ DecisionLevel(trail) \in Nat
  BY Facts
<1>4. \/ Satisfied(trail, c) /\ at' = rest /\ UNCHANGED <<clauses, trail, qhead, pc>>
      \/ \E k \in c.rest :
            /\ ~IsTrue(trail, first)
            /\ clauses' = [clauses EXCEPT ![r].w = <<first, k>>,
                                          ![r].rest = (@ \ {k}) \cup {l}]
            /\ at' = rest /\ UNCHANGED <<trail, qhead, pc>>
      \/ /\ Falsified(trail, c.rest) /\ ~IsTrue(trail, first)
         /\ clauses' = [clauses EXCEPT ![r].w = <<first, l>>]
         /\ IF IsFalse(trail, first)
              THEN /\ qhead' = Len(trail) /\ pc' = "return"
                   /\ at' = [at EXCEPT !.todo = {}, !.conflict = r]
                   /\ UNCHANGED trail
              ELSE /\ trail' = Enqueue(trail, first, r, DecisionLevel(trail))
                   /\ at' = rest /\ UNCHANGED <<qhead, pc>>
  BY DEF VisitWatcher
<1> HIDE DEF l
<1>5. /\ {first, l} = {c.w[1], c.w[2]}
      /\ first \in ClauseLits /\ l \in ClauseLits /\ c.rest \subseteq ClauseLits
      /\ Lits(c) = {first, l} \cup c.rest /\ c \in ClauseType
  <2>1. PICK f : f = first OBVIOUS
  <2>2. l \in {clauses[r].w[1], clauses[r].w[2]} BY <1>2
  <2>3. /\ {f, l} = {clauses[r].w[1], clauses[r].w[2]}
        /\ f \in ClauseLits /\ l \in ClauseLits /\ clauses[r].rest \subseteq ClauseLits
        /\ Lits(clauses[r]) = {f, l} \cup clauses[r].rest
        /\ clauses[r] \in ClauseType
    BY <2>1, <2>2, WatchedFacts
  <2>4. QED BY <2>1, <2>3
<1>6. Sound(c, inputs, intro, al) /\ c.level \in Nat /\ c.level <= al
  <2>1. Sound(clauses[r], inputs, intro, al) BY Facts
  <2>2. QED BY <1>3, <2>1, SoundFacts
<1>7. ASSUME ~IsTrue(trail, first) PROVE ~IsTrue(trail, c.w[1])
  <2>1. c.w[1] = first \/ c.w[1] = l BY <1>5
  <2>2. QED BY <1>2, <1>3, <1>7, <2>1, Undefined
<1>8. CASE Satisfied(trail, c) /\ at' = rest /\ UNCHANGED <<clauses, trail, qhead, pc>>
  <2>1. Only(r) /\ \A q \in at.todo : q # r => clauses'[q] = clauses[q] BY <1>8 DEF Only
  <2>2. /\ Db(clauses', inputs, intro, al) /\ Assigned(trail', clauses', inputs, intro, al)
    BY <1>8 DEF IInv
  <2>3. Extends(trail, trail') BY <1>3, <1>8, ExtendsItself
  <2>4. QED BY <1>1, <1>8, <2>1, <2>2, <2>3, VisitEnd
<1>9. CASE \E k \in c.rest :
            /\ ~IsTrue(trail, first)
            /\ clauses' = [clauses EXCEPT ![r].w = <<first, k>>,
                                          ![r].rest = (@ \ {k}) \cup {l}]
            /\ at' = rest /\ UNCHANGED <<trail, qhead, pc>>
  <2>1. PICK k \in c.rest :
            /\ ~IsTrue(trail, first)
            /\ clauses' = [clauses EXCEPT ![r].w = <<first, k>>,
                                          ![r].rest = (@ \ {k}) \cup {l}]
            /\ at' = rest /\ UNCHANGED <<trail, qhead, pc>>
    BY <1>9
  <2> DEFINE W == <<first, k>>
             Z == (c.rest \ {k}) \cup {l}
             d == [w |-> W, rest |-> Z, level |-> c.level, removable |-> c.removable]
  <2> HIDE DEF first
  <2>2. W \in Seq(ClauseLits) /\ Len(W) = 2 /\ W[1] = first /\ W[2] = k BY <1>5, <2>1
  <2>3. Z \subseteq ClauseLits BY <1>5
  <2>4. {first, k} \cup Z = {first, l} \cup c.rest BY <2>1
  <2> HIDE DEF W, Z
  <2>5. d \in ClauseType /\ d.w = W /\ d.rest = Z /\ d.level = c.level
    BY <1>5, <2>2, <2>3 DEF ClauseType
  <2>6. /\ DOMAIN clauses' = DOMAIN clauses /\ clauses'[r] = d
        /\ \A q \in DOMAIN clauses : q # r => clauses'[q] = clauses[q]
    <3>1. clauses' = [clauses EXCEPT ![r].w = W, ![r].rest = (@ \ {k}) \cup {l}]
      BY <2>1 DEF W
    <3>2. /\ DOMAIN clauses' = DOMAIN clauses
          /\ \A q \in DOMAIN clauses : q # r => clauses'[q] = clauses[q]
      BY <3>1
    <3>3. clauses'[r] = [[c EXCEPT !.w = W] EXCEPT !.rest = (@ \ {k}) \cup {l}] BY <3>1
    <3>4. clauses'[r] = d BY <1>5, <3>3 DEF ClauseType, Z
    <3>5. QED BY <3>2, <3>4
  <2> HIDE DEF d
  <2>7. Lits(d) = Lits(c) BY <1>5, <2>2, <2>4, <2>5 DEF Lits
  <2>8. Rewatched(clauses[r], d) BY <2>2, <2>5, <2>7 DEF Rewatched
  <2>9. Db(clauses', inputs, intro, al) BY <2>6, <2>8, RewatchedDb
  <2>10. Only(r) BY <2>6 DEF Only
  <2>11. KeepsReasons(trail, clauses, clauses') BY <1>7, <2>1, <2>10, OnlyKeeps
  <2>12. Assigned(trail', clauses', inputs, intro, al) BY <2>1, <2>11, AssignedRewatched
  <2>13. Extends(trail, trail') BY <1>3, <2>1, ExtendsItself
  <2>14. \A q \in at.todo : q # r => clauses'[q] = clauses[q] BY <2>6, VisitFacts
  <2>15. QED BY <1>1, <2>1, <2>9, <2>10, <2>12, <2>13, <2>14, VisitEnd
<1>10. CASE /\ Falsified(trail, c.rest) /\ ~IsTrue(trail, first)
            /\ clauses' = [clauses EXCEPT ![r].w = <<first, l>>]
            /\ IF IsFalse(trail, first)
                 THEN /\ qhead' = Len(trail) /\ pc' = "return"
                      /\ at' = [at EXCEPT !.todo = {}, !.conflict = r]
                      /\ UNCHANGED trail
                 ELSE /\ trail' = Enqueue(trail, first, r, DecisionLevel(trail))
                      /\ at' = rest /\ UNCHANGED <<qhead, pc>>
  <2> DEFINE W == <<first, l>>
             d == [w |-> W, rest |-> c.rest, level |-> c.level, removable |-> c.removable]
  <2> HIDE DEF first
  <2>1. W \in Seq(ClauseLits) /\ Len(W) = 2 /\ W[1] = first /\ W[2] = l BY <1>5
  <2> HIDE DEF W
  <2>2. d \in ClauseType /\ d.w = W /\ d.rest = c.rest /\ d.level = c.level
    BY <1>5, <2>1 DEF ClauseType
  <2>3. /\ DOMAIN clauses' = DOMAIN clauses /\ clauses'[r] = d
        /\ \A q \in DOMAIN clauses : q # r => clauses'[q] = clauses[q]
    <3>1. clauses' = [clauses EXCEPT ![r].w = W] BY <1>10 DEF W
    <3>2. /\ DOMAIN clauses' = DOMAIN clauses
          /\ \A q \in DOMAIN clauses : q # r => clauses'[q] = clauses[q]
      BY <3>1
    <3>3. clauses'[r] = [c EXCEPT !.w = W] BY <3>1
    <3>4. clauses'[r] = d BY <1>5, <3>3 DEF ClauseType
    <3>5. QED BY <3>2, <3>4
  <2> HIDE DEF d
  <2>4. Lits(d) = Lits(c) BY <1>5, <2>1, <2>2 DEF Lits
  <2>5. Rewatched(clauses[r], d) BY <2>1, <2>2, <2>4 DEF Rewatched
  <2>6. Db(clauses', inputs, intro, al) BY <2>3, <2>5, RewatchedDb
  <2>7. Only(r) BY <2>3 DEF Only
  <2>8. KeepsReasons(trail, clauses, clauses') BY <1>7, <1>10, <2>7, OnlyKeeps
  <2>9. \A q \in at.todo : q # r => clauses'[q] = clauses[q] BY <2>3, VisitFacts
  <2>10. \A k \in Lits(c) : k # first => IsFalse(trail, k)
    BY <1>2, <1>5, <1>10 DEF Falsified
  <2>11. CASE IsFalse(trail, first)
    <3>1. /\ qhead' = Len(trail) /\ pc' = "return"
          /\ at' = [at EXCEPT !.todo = {}, !.conflict = r] /\ trail' = trail
      BY <1>10, <2>11
    <3>2. \A k \in Lits(clauses[r]) : IsFalse(trail, k) BY <2>10, <2>11
    <3>3. Lits(clauses'[r]) = Lits(clauses[r]) BY <2>3, <2>4
    <3>4. QED BY <1>1, <2>6, <2>7, <2>8, <3>1, <3>2, <3>3, VisitConflict
  <2>12. CASE ~IsFalse(trail, first)
    <3> DEFINE dl == DecisionLevel(trail)
               u == Enqueue(trail, first, r, dl)
    <3>1. /\ trail' = u /\ at' = rest /\ UNCHANGED <<qhead, pc>> BY <1>10, <2>12
    <3>2. first \in Literals BY <1>5, LiteralsAre
    <3>3. IsUndef(trail, first) BY <1>3, <1>10, <2>12, <3>2, Undefined
    <3>4. first \in AtomLits
      <4>1. ASSUME first = -VarTrue PROVE FALSE
        <5>1. trail[1].lit = VarTrue /\ 1 \in 1 .. Len(trail) BY <1>3 DEF Shape
        <5>2. -first = VarTrue BY <4>1, Constants
        <5>3. IsFalse(trail, first) BY <1>3, <5>1, <5>2, Falses
        <5>4. QED BY <2>12, <5>3
      <4>2. QED BY <1>5, <4>1 DEF ClauseLits
    <3>5. intro[Var(first)] \in 0 .. al
      <4>1. first \in Lits(c) \ {-VarTrue} BY <1>5, <3>4, AtomLitFacts
      <4>2. intro[Var(first)] \in 0 .. c.level BY <1>6, <4>1 DEF Sound
      <4>3. QED BY <1>3, <1>6, <4>2
    <3>6. Justified(dl, inputs, first)
      <4>1. ASSUME dl = 0 PROVE Ent(inputs, al, {first})
        <5>1. /\ c.level \in Int /\ c.level <= al /\ Ent(inputs, c.level, Lits(c))
              /\ Lits(c) \subseteq ClauseLits
          BY <1>5, <1>6 DEF Sound
        <5>2. \A k \in Lits(c) \ {first} : IsFalse(trail, k) BY <2>10
        <5>3. Valued(trail, inputs) BY DEF IInv, Assigned
        <5>4. QED BY <1>3, <4>1, <5>1, <5>2, <5>3, DropAtBottom
      <4>2. QED BY <4>1 DEF Justified
    <3>7. Implies(trail, clauses', r, first)
      <4>1. r \in DOMAIN clauses' /\ clauses'[r].w[1] = first BY <2>1, <2>2, <2>3
      <4>2. Lits(clauses'[r]) = Lits(c) BY <2>3, <2>4
      <4>3. \A k \in Lits(clauses'[r]) \ {first} : IsFalse(trail, k) BY <2>10, <4>2
      <4>4. QED BY <4>1, <4>3 DEF Implies
    <3>8. Assigned(trail, clauses, inputs, intro, al) BY DEF IInv
    <3>9. r >= -1 /\ dl \in Nat /\ DecisionLevel(trail) <= dl BY <1>2, <1>3
    <3> HIDE DEF dl, u
    <3>10. /\ Assigned(u, clauses', inputs, intro, al) /\ DecisionLevel(u) = dl
           /\ Len(u) = Len(trail) + 1 /\ \A i \in 1 .. Len(trail) : u[i] = trail[i]
           /\ u[Len(trail) + 1].level = dl
      <4>1. LET v == Enqueue(trail, first, r, dl)
            IN  /\ Assigned(v, clauses', inputs, intro, al) /\ Begins(trail, v)
                /\ DecisionLevel(v) = dl
                /\ Len(v) = Len(trail) + 1 /\ \A i \in 1 .. Len(trail) : v[i] = trail[i]
                /\ v[Len(trail) + 1].level = dl /\ v[Len(trail) + 1].lit = first
                /\ Shape(v, al)
        BY <1>2, <1>3, <2>8, <3>3, <3>4, <3>5, <3>6, <3>7, <3>8, <3>9, AssignedEnqueued
      <4>2. QED BY <4>1 DEF u
    <3>11. Extends(trail, u)
      <4>1. ASSUME NEW i \in 1 .. Len(u)
            PROVE IF i <= Len(trail) THEN u[i] = trail[i] ELSE u[i].level = dl
        <5>1. CASE i <= Len(trail) BY <1>3, <3>10, <5>1
        <5>2. CASE ~(i <= Len(trail))
          <6>1. i = Len(trail) + 1 BY <1>3, <3>10, <5>2
          <6>2. QED BY <3>10, <5>2, <6>1
        <5>3. QED BY <5>1, <5>2
      <4>2. QED BY <1>3, <3>10, <4>1 DEF Extends, dl
    <3>12. Assigned(trail', clauses', inputs, intro, al) /\ Extends(trail, trail')
      BY <3>1, <3>10, <3>11
    <3>13. QED BY <1>1, <2>6, <2>7, <2>9, <3>1, <3>12, VisitEnd
  <2>13. QED BY <2>11, <2>12
<1>11. QED BY <1>4, <1>8, <1>9, <1>10

-----------------------------------------------------------------------------
(* Where a theory check goes on.                                             *)
LEMMA RoundIs ==
  ASSUME NEW t, Round(t) = "bool" \/ Round(t) = "return", NEW a, NEW q, q = <<>>,
         NEW u, Len(t) = Len(u), NEW h, h \in 0 .. Len(u), Len(u) \in Nat, h = qhead,
         a \in Locals, a.caller = at.caller, a.check = at.check,
         a.caller = "addClause" => DecisionLevel(u) = 0
  PROVE Protocol(Round(t), a, u, h, q)
<1>1. Round(t) = "return" /\ a.check = "theory" => h = Len(u) BY DEF Round, FinalCheck
<1>2. QED BY <1>1 DEF Protocol

(* Where it may go on.                                                       *)
LEMMA RoundCases == \A t : Round(t) = "bool" \/ Round(t) = "return"
BY DEF Round

(* What holds when the theory is asked.                                      *)
LEMMA TheoryFacts ==
  ASSUME IInv, pc = "theory"
  PROVE /\ lemmas = <<>> /\ at.todo = {} /\ at.conflict = Undef /\ at \in Locals
        /\ qhead \in 0 .. Len(trail) /\ Len(trail) \in Nat /\ Shape(trail, assertionLevel)
        /\ assertionLevel \in Nat /\ DecisionLevel(trail) \in Nat
        /\ at.caller = "addClause" => DecisionLevel(trail) = 0
        /\ FinalCheck(at) \in BOOLEAN
<1>1. at.caller = "addClause" => DecisionLevel(trail) = 0 BY DEF IInv, Protocol
<1>2. FinalCheck(at) \in BOOLEAN BY Zenon DEF FinalCheck
<1>3. QED BY <1>1, <1>2, Facts

(* The theory sends a lemma.                                                 *)
LEMMA TheorySends ==
  ASSUME IInv, pc = "theory", NEW L \in Theory, NEW removable \in BOOLEAN,
         lemmas' = QueueLemma(lemmas, trail, L, removable), intro' = Created(L),
         pc' = IF lemmas' # <<>> THEN "lemmas" ELSE Round(trail),
         at' = [at EXCEPT !.recheck = FinalCheck(at), !.from = "theory"],
         left' \in Setting, UNCHANGED <<trail, clauses, qhead, ok, answer, model, spent, Fixed>>
  PROVE IInv'
<1> DEFINE al == assertionLevel
<1>1. UNCHANGED <<trail, clauses, qhead, ok, answer, spent, assertionLevel, trailOk, inputs, cores>>
  BY DEF Fixed
<1>2. /\ lemmas = <<>> /\ at.todo = {} /\ at.conflict = Undef /\ at \in Locals
      /\ qhead \in 0 .. Len(trail) /\ Len(trail) \in Nat /\ Shape(trail, al) /\ al \in Nat
      /\ at.caller = "addClause" => DecisionLevel(trail) = 0
      /\ FinalCheck(at) \in BOOLEAN
  BY TheoryFacts
<1>3. /\ at' \in Locals /\ at'.caller = at.caller /\ at'.check = at.check /\ at'.todo = {}
      /\ at'.conflict = Undef
  <2>1. PICK v \in BOOLEAN : v = FinalCheck(at) BY <1>2
  <2>2. PICK w \in {"entry", "theory"} : w = "theory" OBVIOUS
  <2>3. at' = [at EXCEPT !.recheck = v, !.from = w] BY <2>1, <2>2
  <2>4. at \in Locals /\ at.todo = {} /\ at.conflict = Undef BY <1>2
  <2>5. QED BY <2>3, <2>4 DEF Locals
<1>4. Vars(intro, al) BY DEF IInv, Base
<1>5. Vars(intro', al) /\ Grown(intro, intro') BY <1>2, <1>4, CreatedFacts
<1>6. /\ Queue(lemmas', inputs, intro', al)
      /\ ReadyQueue(lemmas', trail, Len(trail), at'.conflict)
      /\ Live(lemmas')
  <2>1. /\ Live(lemmas) /\ Queue(lemmas, inputs, intro, al)
        /\ ReadyQueue(lemmas, trail, Len(trail), at'.conflict)
    BY <1>2, NoLemmas
  <2>2. Valued(trail, inputs) BY DEF IInv, Assigned
  <2>3. LET p == QueueLemma(lemmas, trail, L, removable)
        IN  /\ Queue(p, inputs, Created(L), al)
            /\ ReadyQueue(p, trail, Len(trail), at'.conflict)
            /\ Len(lemmas) <= Len(p) /\ (Live(lemmas) => Live(p)) /\ (Fresh(lemmas) => Fresh(p))
    BY <1>2, <1>4, <2>1, <2>2, QueueLemmaFacts
  <2>4. QED BY <2>1, <2>3
<1>7. Base(inputs, intro, assertionLevel, left, cores, spent)'
  <2>1. Base(inputs, intro, assertionLevel, left, cores, spent) BY DEF IInv
  <2>2. spent' \in BOOLEAN BY <1>1, <2>1 DEF Base
  <2>3. QED BY <1>1, <1>5, <2>1, <2>2, NewBase
<1>8. Assigned(trail, clauses, inputs, intro', al)
  <2>1. Assigned(trail, clauses, inputs, intro, al) BY DEF IInv
  <2>2. Begins(trail, trail) BY <1>2 DEF Begins
  <2>3. QED BY <1>2, <1>5, <2>1, <2>2, AssignedCut
<1>9. Db(clauses, inputs, intro', al)
  <2>1. Db(clauses, inputs, intro, al) BY DEF IInv
  <2>2. \A k \in 1 .. al + 1 : inputs[k] \subseteq inputs[k] OBVIOUS
  <2>3. QED BY <1>2, <1>5, <2>1, <2>2, DbMore
<1>10. pc' \in {"lemmas", "bool", "return"} BY RoundCases
<1>11. Bound' = Len(trail') BY <1>10 DEF Bound
<1>12. /\ Assigned(trail, clauses, inputs, intro, assertionLevel)'
       /\ Db(clauses, inputs, intro, assertionLevel)'
       /\ Queue(lemmas, inputs, intro, assertionLevel)'
       /\ ReadyQueue(lemmas, trail, Bound, at.conflict)'
       /\ Verdicts(ok, trailOk, answer, inputs, assertionLevel)'
  BY <1>1, <1>6, <1>8, <1>9, <1>11 DEF IInv
<1>13. Protocol(pc, at, trail, qhead, lemmas)'
  <2>1. CASE lemmas' # <<>>
    <3>1. pc' = "lemmas" BY <2>1
    <3>2. QED BY <1>1, <1>2, <1>3, <1>6, <3>1 DEF Protocol
  <2>2. CASE lemmas' = <<>>
    <3>1. pc' = Round(trail) BY <2>2
    <3>2. Protocol(Round(trail), at', trail, qhead, lemmas')
      BY <1>2, <1>3, <2>2, RoundCases, RoundIs
    <3>3. QED BY <1>1, <3>1, <3>2
  <2>3. QED BY <2>1, <2>2
<1>14. Pending(pc, at, trail, qhead, clauses)' BY <1>1, <1>3, Facts, NoTodo
<1>15. Conflict(pc, at, trail, clauses, inputs, assertionLevel)' BY <1>3, NoConflict
<1>16. pc' # "analyze" BY <1>10
<1>17. Resolvent(pc, at, trail, inputs, intro, assertionLevel)' BY <1>16, NoResolvent
<1>18. QED BY <1>7, <1>12, <1>13, <1>14, <1>15, <1>17 DEF IInv

(* The theory propagates a literal, to be explained when asked.              *)
LEMMA TheoryPropagates ==
  ASSUME IInv, pc = "theory", NEW L \in Theory, NEW l \in L,
         Exists(L), IsUndef(trail, l), Falsified(trail, L \ {l}),
         trail' = Enqueue(trail, l, Lazy, DecisionLevel(trail)), pc' = Round(trail'),
         at' = [at EXCEPT !.recheck = FinalCheck(at)],
         UNCHANGED <<lemmas, intro, left, clauses, qhead, ok, answer, model, spent, Fixed>>
  PROVE IInv'
<1> DEFINE al == assertionLevel
           d == DecisionLevel(trail)
           u == Enqueue(trail, l, Lazy, d)
<1>1. UNCHANGED <<lemmas, intro, left, clauses, qhead, ok, answer, spent, assertionLevel,
                  trailOk, inputs, cores>>
  BY DEF Fixed
<1>2. /\ lemmas = <<>> /\ at.todo = {} /\ at.conflict = Undef /\ at \in Locals
      /\ qhead \in 0 .. Len(trail) /\ Len(trail) \in Nat /\ Shape(trail, al) /\ al \in Nat
      /\ at.caller = "addClause" => DecisionLevel(trail) = 0
      /\ FinalCheck(at) \in BOOLEAN /\ d \in Nat
  BY TheoryFacts
<1>3. /\ at' \in Locals /\ at'.caller = at.caller /\ at'.check = at.check /\ at'.todo = {}
      /\ at'.conflict = Undef
  <2>1. PICK v \in BOOLEAN : v = FinalCheck(at) BY <1>2
  <2>2. at' = [at EXCEPT !.recheck = v] BY <2>1
  <2>3. QED BY <1>2, <2>2, Rechecked
<1>4. L \subseteq AtomLits /\ l \in AtomLits BY Constants
<1>5. intro[Var(l)] \in 0 .. al
  <2>1. Var(l) \in Atoms /\ intro[Var(l)] >= 0 BY <1>4, AtomLitFacts DEF Exists
  <2>2. Vars(intro, al) BY DEF IInv, Base
  <2>3. QED BY <1>2, <2>1, <2>2 DEF Vars
<1>6. Justified(d, inputs, l)
  <2>1. ASSUME d = 0 PROVE Ent(inputs, al, {l})
    <3>1. 0 \in Int /\ Ent(inputs, 0, L) BY TheoryEnt
    <3>2. \A k \in L \ {l} : IsFalse(trail, k) BY DEF Falsified
    <3>3. Valued(trail, inputs) BY DEF IInv, Assigned
    <3>4. L \subseteq ClauseLits BY <1>4, AtomLitFacts
    <3>5. PICK z \in Int : z = 0 OBVIOUS
    <3>6. z <= al /\ Ent(inputs, z, L) BY <1>2, <3>1, <3>5
    <3>7. QED BY <1>2, <2>1, <3>2, <3>3, <3>4, <3>6, DropAtBottom
  <2>2. QED BY <2>1 DEF Justified
<1>7. PICK z \in Int : z = Lazy BY DEF Lazy
<1>8. z >= -1 /\ ~(z > 0) BY <1>7 DEF Lazy
<1>9. Assigned(trail, clauses, inputs, intro, al) BY DEF IInv
<1>10. KeepsReasons(trail, clauses, clauses)
  <2>1. Reasons(trail, clauses) BY <1>9 DEF Assigned
  <2>2. \A r \in DOMAIN clauses : r \in DOMAIN clauses /\ clauses[r] = clauses[r] OBVIOUS
  <2>3. QED BY <2>1, <2>2, KeepsReasonsMore
<1>11. Implies(trail, clauses, z, l) BY <1>8 DEF Implies
<1>12. d <= d BY <1>2
<1>13. u = Enqueue(trail, l, z, d) BY <1>7
<1> HIDE DEF u, d
<1>14. /\ Assigned(u, clauses, inputs, intro, al) /\ DecisionLevel(u) = d
       /\ Len(u) = Len(trail) + 1 /\ u[Len(trail) + 1].level = d
       /\ \A i \in 1 .. Len(trail) : u[i] = trail[i]
  <2>1. DecisionLevel(trail) <= d BY <1>12 DEF d
  <2>2. LET v == Enqueue(trail, l, z, d)
        IN  /\ Assigned(v, clauses, inputs, intro, al) /\ Begins(trail, v)
            /\ DecisionLevel(v) = d
            /\ Len(v) = Len(trail) + 1 /\ \A i \in 1 .. Len(trail) : v[i] = trail[i]
            /\ v[Len(trail) + 1].level = d /\ v[Len(trail) + 1].lit = l
            /\ Shape(v, al)
    BY <1>2, <1>4, <1>5, <1>6, <1>8, <1>9, <1>10, <1>11, <2>1, AssignedEnqueued
  <2>3. QED BY <1>13, <2>2
<1>15. trail' = u BY DEF u, d
<1>16. Base(inputs, intro, assertionLevel, left, cores, spent)' BY <1>1, SameBase DEF IInv
<1>17. /\ Assigned(trail, clauses, inputs, intro, assertionLevel)'
       /\ Db(clauses, inputs, intro, assertionLevel)'
       /\ Verdicts(ok, trailOk, answer, inputs, assertionLevel)'
  BY <1>1, <1>14, <1>15 DEF IInv
<1>18. /\ Queue(lemmas, inputs, intro, assertionLevel)'
       /\ ReadyQueue(lemmas, trail, Bound, at.conflict)'
  BY <1>1, <1>2, NoLemmas
<1>19. Protocol(pc, at, trail, qhead, lemmas)'
  <2>1. /\ qhead \in 0 .. Len(u) /\ Len(u) \in Nat
        /\ at'.caller = "addClause" => DecisionLevel(u) = 0
    BY <1>2, <1>3, <1>14 DEF d
  <2>2. PICK p : p = Round(u) OBVIOUS
  <2>3. Protocol(Round(u), at', u, qhead, lemmas) BY <1>2, <1>3, <2>1, RoundCases, RoundIs
  <2>4. QED BY <1>1, <1>15, <2>3
<1>20. Pending(pc, at, trail, qhead, clauses)'
  <2>1. qhead' \in 0 .. Len(u) BY <1>1, <1>2, <1>14
  <2>2. ASSUME NEW i \in 1 .. Len(u), i > qhead' PROVE u[i].level = DecisionLevel(u)
    <3>1. CASE i = Len(trail) + 1 BY <1>14, <3>1
    <3>2. CASE i # Len(trail) + 1
      <4>1. i \in 1 .. Len(trail) /\ i > qhead BY <1>1, <1>2, <1>14, <2>2, <3>2
      <4>2. trail[i].level = DecisionLevel(trail) BY <4>1, Facts
      <4>3. QED BY <1>14, <4>1, <4>2 DEF d
    <3>3. QED BY <3>1, <3>2
  <2>3. QED BY <1>3, <1>15, <2>1, <2>2, NoTodo
<1>21. Conflict(pc, at, trail, clauses, inputs, assertionLevel)' BY <1>3, NoConflict
<1>22. pc' # "analyze" BY RoundCases
<1>23. Resolvent(pc, at, trail, inputs, intro, assertionLevel)' BY <1>22, NoResolvent
<1>24. QED BY <1>16, <1>17, <1>18, <1>19, <1>20, <1>21, <1>23 DEF IInv

(* The theory is asked.                                                      *)
LEMMA TheoryCheckStep ==
  ASSUME IInv, TheoryCheck
  PROVE IInv'
<1> DEFINE false == {L \in Theory : Falsified(trail, L)}
           Sends(L, removable) ==
             /\ lemmas' = QueueLemma(lemmas, trail, L, removable)
             /\ intro' = Created(L)
             /\ pc' = IF lemmas' # <<>> THEN "lemmas" ELSE Round(trail)
             /\ at' = [at EXCEPT !.recheck = FinalCheck(at), !.from = "theory"]
             /\ UNCHANGED trail
<1>1. pc = "theory" /\ UNCHANGED <<clauses, qhead, ok, answer, model, spent, Fixed>>
  BY DEF TheoryCheck
<1>2. \/ pc' = Round(trail) /\ UNCHANGED <<trail, lemmas, at, intro, left>>
      \/ \E L \in false : Sends(L, TRUE) /\ UNCHANGED left
      \/ \E L \in Theory, removable \in BOOLEAN : Sends(L, removable) /\ Use("lemmas")
      \/ \E L \in Theory : \E l \in L :
           /\ Exists(L) /\ IsUndef(trail, l) /\ Falsified(trail, L \ {l})
           /\ trail' = Enqueue(trail, l, Lazy, DecisionLevel(trail))
           /\ pc' = Round(trail')
           /\ at' = [at EXCEPT !.recheck = FinalCheck(at)]
           /\ UNCHANGED <<lemmas, intro, left>>
  BY DEF TheoryCheck
<1>3. left \in Setting BY DEF IInv, Base
<1>4. CASE pc' = Round(trail) /\ UNCHANGED <<trail, lemmas, at, intro, left>>
  <2>1. /\ lemmas = <<>> /\ at.todo = {} /\ at.conflict = Undef /\ at \in Locals
        /\ qhead \in 0 .. Len(trail) /\ Len(trail) \in Nat
        /\ at.caller = "addClause" => DecisionLevel(trail) = 0
    BY <1>1, TheoryFacts
  <2>2. UNCHANGED <<clauses, trail, qhead, lemmas, intro, inputs, assertionLevel, cores,
                    left, spent, ok, trailOk, answer, at>>
    BY <1>1, <1>4 DEF Fixed
  <2>3. Protocol(Round(trail), at, trail, qhead, lemmas) BY <2>1, RoundCases, RoundIs
  <2>4. Protocol(pc, at, trail, qhead, lemmas)' BY <1>4, <2>2, <2>3
  <2>5. Conflict(pc, at, trail, clauses, inputs, assertionLevel)' BY <2>1, <2>2, NoConflict
  <2>6. pc' # "analyze" BY <1>4, RoundCases
  <2>7. /\ Base(inputs, intro, assertionLevel, left, cores, spent)'
        /\ Verdicts(ok, trailOk, answer, inputs, assertionLevel)'
    BY <2>2, SameBase DEF IInv
  <2>8. at' \in Locals /\ at'.todo = {} BY <2>1, <2>2
  <2>9. QED BY <2>1, <2>2, <2>4, <2>5, <2>6, <2>7, <2>8, Control
<1>5. CASE \E L \in false : Sends(L, TRUE) /\ UNCHANGED left
  <2>1. PICK L \in Theory : Sends(L, TRUE) /\ UNCHANGED left BY <1>5
  <2>2. PICK b \in BOOLEAN : b = TRUE OBVIOUS
  <2>3. Sends(L, b) /\ left' \in Setting BY <1>3, <2>1, <2>2
  <2>4. QED BY <1>1, <2>3, TheorySends
<1>6. CASE \E L \in Theory, removable \in BOOLEAN : Sends(L, removable) /\ Use("lemmas")
  <2>1. PICK L \in Theory, removable \in BOOLEAN : Sends(L, removable) /\ Use("lemmas")
    BY <1>6
  <2>2. "lemmas" \in {"inputs", "solves", "lemmas", "restarts"} OBVIOUS
  <2>3. left' \in Setting BY <1>3, <2>1, <2>2, UseFacts
  <2>4. QED BY <1>1, <2>1, <2>3, TheorySends
<1>7. CASE \E L \in Theory : \E l \in L :
           /\ Exists(L) /\ IsUndef(trail, l) /\ Falsified(trail, L \ {l})
           /\ trail' = Enqueue(trail, l, Lazy, DecisionLevel(trail))
           /\ pc' = Round(trail')
           /\ at' = [at EXCEPT !.recheck = FinalCheck(at)]
           /\ UNCHANGED <<lemmas, intro, left>>
  BY <1>1, <1>7, TheoryPropagates
<1>8. QED BY <1>2, <1>4, <1>5, <1>6, <1>7

-----------------------------------------------------------------------------
(* The stack s2 has the clauses of s, and perhaps more.                      *)
Richer(s, s2) == \A k \in 1 .. assertionLevel + 1 : s[k] \subseteq s2[k]

(* The invariant, when clauses are asserted and variables created.           *)
LEMMA RicherState ==
  ASSUME IInv, NEW s2, Richer(inputs, s2), NEW S
  PROVE /\ Db(clauses, s2, Created(S), assertionLevel)
        /\ Assigned(trail, clauses, s2, Created(S), assertionLevel)
        /\ Verdicts(ok, trailOk, "none", s2, assertionLevel)
        /\ Vars(Created(S), assertionLevel)
        /\ Queue(lemmas, s2, Created(S), assertionLevel)
<1> DEFINE al == assertionLevel
           int == Created(S)
<1>1. al \in Nat /\ Shape(trail, al) BY Facts
<1>2. Vars(intro, al) BY DEF IInv, Base
<1>3. Vars(int, al) /\ Grown(intro, int) BY <1>1, <1>2, CreatedFacts
<1>4. \A k \in 1 .. al + 1 : inputs[k] \subseteq s2[k] BY DEF Richer
<1> HIDE DEF int
<1>5. Db(clauses, s2, int, al)
  <2>1. Db(clauses, inputs, intro, al) BY DEF IInv
  <2>2. QED BY <1>1, <1>3, <1>4, <2>1, DbMore
<1>6. Assigned(trail, clauses, s2, int, al)
  <2>1. Known(trail, intro) /\ Valued(trail, inputs) /\ Reasons(trail, clauses)
    BY DEF IInv, Assigned
  <2>2. Known(trail, int) BY <1>1, <1>3, <2>1, KnownGrown
  <2>3. Valued(trail, s2) BY <1>1, <1>4, <2>1, ValuedMore
  <2>4. QED BY <1>1, <2>1, <2>2, <2>3 DEF Assigned
<1>7. Verdicts(ok, trailOk, "none", s2, al)
  <2>1. Verdicts(ok, trailOk, answer, inputs, al) BY DEF IInv
  <2>2. ASSUME NEW n \in Int, n <= al, Ent(inputs, n, {}) PROVE Ent(s2, n, {})
    <3>1. \A k \in 1 .. n + 1 : inputs[k] \subseteq s2[k] BY <1>1, <1>4, <2>2
    <3>2. QED BY <2>2, <3>1, EntMore
  <2>3. ~ok => Ent(s2, al, {}) BY <1>1, <2>1, <2>2 DEF Verdicts
  <2>4. ASSUME NEW k \in 1 .. al, ~trailOk[k] PROVE Ent(s2, k - 1, {})
    <3>1. Ent(inputs, k - 1, {}) BY <2>1, <2>4 DEF Verdicts
    <3>2. k - 1 \in Int /\ k - 1 <= al BY <1>1
    <3>3. QED BY <2>2, <3>1, <3>2
  <2>5. QED BY <2>1, <2>3, <2>4 DEF Verdicts
<1>8. Queue(lemmas, s2, int, al)
  <2>1. Queue(lemmas, inputs, intro, al) BY Facts
  <2>2. Queue(lemmas, inputs, int, al) BY <1>1, <1>3, <2>1, QueueGrown
  <2>3. inputs[1] \subseteq s2[1]
    <3>1. 1 \in 1 .. al + 1 BY <1>1
    <3>2. QED BY <1>4, <3>1
  <2>4. QED BY <1>1, <2>2, <2>3, QueueRicher
<1>9. QED BY <1>3, <1>5, <1>6, <1>7, <1>8 DEF int

(* A call that ends, or goes on to propagate, at the bottom.                 *)
LEMMA AddEnd ==
  ASSUME IInv, pc = "idle", Base(inputs, intro, assertionLevel, left, cores, spent)',
         Assigned(trail, clauses, inputs, intro, assertionLevel)',
         Db(clauses, inputs, intro, assertionLevel)',
         Verdicts(ok, trailOk, answer, inputs, assertionLevel)',
         Queue(lemmas, inputs, intro, assertionLevel)', UNCHANGED <<lemmas, qhead>>, pc' \in {"idle", "propagate"},
         at' \in Locals, at'.todo = {}, at'.conflict = Undef,
         DecisionLevel(trail') = 0, Len(trail) <= Len(trail')
  PROVE IInv'
<1>1. Fresh(lemmas') BY Facts
<1>2. Shape(trail', assertionLevel') BY DEF Assigned
<1>3. Len(trail') \in Nat /\ qhead' \in 0 .. Len(trail')
  <2>1. Len(trail') \in Nat BY <1>2 DEF Shape
  <2>2. qhead \in 0 .. Len(trail) /\ Len(trail) \in Nat BY Facts
  <2>3. QED BY <2>1, <2>2
<1>4. /\ Queue(lemmas, inputs, intro, assertionLevel)'
      /\ ReadyQueue(lemmas, trail, Bound, at.conflict)'
  BY <1>1, FreshIsReady
<1>5. Protocol(pc, at, trail, qhead, lemmas)' BY <1>1 DEF Protocol
<1>6. Pending(pc, at, trail, qhead, clauses)'
  <2>1. ASSUME NEW i \in 1 .. Len(trail') PROVE trail'[i].level = DecisionLevel(trail')
    <3>1. trail'[i].level \in Nat /\ trail'[i].level <= DecisionLevel(trail')
      BY <1>2, EntryFacts
    <3>2. QED BY <3>1
  <2>2. QED BY <1>3, <2>1, NoTodo
<1>7. Conflict(pc, at, trail, clauses, inputs, assertionLevel)' BY NoConflict
<1>8. pc' # "analyze" OBVIOUS
<1>9. Resolvent(pc, at, trail, inputs, intro, assertionLevel)' BY <1>8, NoResolvent
<1>10. QED BY <1>4, <1>5, <1>6, <1>7, <1>9 DEF IInv

(* The clause that an input or a lemma becomes.                              *)
LEMMA AddedClause ==
  ASSUME IInv, NEW S, S \subseteq AtomLits, NEW K, K \subseteq S, Several(K),
         NEW removable \in BOOLEAN, NEW rem \in BOOLEAN, NEW s2, Backed(s2, K, removable)
  PROVE LET s == Sorted(trail, K)
            c == Clause(s, ClauseLevel(Created(S), S, removable), rem)
        IN  /\ Sound(c, s2, Created(S), assertionLevel)
            /\ Lits(c) = K /\ c.w[1] = s.w[1]
<1> DEFINE al == assertionLevel
           s == Sorted(trail, K)
           int == Created(S)
           c == Clause(s, ClauseLevel(int, S, removable), rem)
<1>1. al \in Nat /\ Shape(trail, al) /\ cores \in BOOLEAN BY Facts
<1>2. Existing(int, S)
  <2>1. Vars(intro, al) BY DEF IInv, Base
  <2>2. \A l \in S \cap AtomLits : int[Var(l)] \in 0 .. al BY <1>1, <2>1, CreatedFacts
  <2> HIDE DEF int
  <2>3. QED BY <2>2 DEF Existing
<1>3. Within(K, S)
  <2>1. S \subseteq ClauseLits BY AtomLitFacts
  <2>2. QED BY <2>1 DEF Within
<1>4. InFront(trail, K, s) BY <1>1, LongSorted
<1> HIDE DEF s, int
<1>5. PICK a \in K, b \in K : a # b /\ s.w = <<a, b>> /\ s.rest = K \ {a, b}
  BY <1>4 DEF InFront
<1>6. Long(s) /\ Lits(s) = K
  <2>1. a \in ClauseLits /\ b \in ClauseLits /\ s.rest \subseteq ClauseLits
    BY <1>3, <1>5 DEF Within
  <2>2. s.w \in Seq(ClauseLits) /\ Len(s.w) = 2 /\ s.w[1] = a /\ s.w[2] = b BY <1>5, <2>1
  <2>3. QED BY <1>5, <2>1, <2>2 DEF Long, Lits
<1>7. LET d == Clause(s, ClauseLevel(int, S, removable), rem)
      IN  /\ Sound(d, s2, int, al) /\ d.w = s.w /\ d.rest = s.rest /\ Lits(d) = K
  BY <1>1, <1>2, <1>3, <1>6, NewClauseWithin
<1>8. Sound(c, s2, int, al) /\ c.w = s.w /\ Lits(c) = K BY <1>7
<1>9. QED BY <1>8 DEF s, int

(* All of K but one literal are false, and the first of K is not assigned:   *)
(* then it is the one.                                                       *)
FalseOf(K) == {l \in K : IsFalse(trail, l)}

(* If all of K but one literal are false, and the first of K is not          *)
(* assigned, then that is the one.                                           *)
LEMMA LoneLiteral ==
  ASSUME NEW al, Shape(trail, al), NEW K, K \subseteq Literals, IsFiniteSet(K),
         Cardinality(K) = Cardinality(FalseOf(K)) + 1,
         IsUndef(trail, Sorted(trail, K).w[1])
  PROVE /\ Sorted(trail, K).w[1] \in K
        /\ \A k \in K : k # Sorted(trail, K).w[1] => IsFalse(trail, k)
<1> DEFINE s == Sorted(trail, K)
           F == FalseOf(K)
           l == s.w[1]
<1>1. InOrder(trail, K, s) BY SortedIs
<1>2. F \subseteq K /\ \A k \in K : k \in F <=> IsFalse(trail, k) BY DEF FalseOf
<1>14. Cardinality(K) = Cardinality(F) + 1 OBVIOUS
<1> HIDE DEF s, F
<1>3. IsFiniteSet(F) /\ K \cap F = F /\ Cardinality(F) \in Nat /\ Cardinality(K) \in Nat
  BY <1>2, FS_Subset, FS_CardinalityType
<1>4. IsFiniteSet(K \ F) /\ Cardinality(K \ F) = Cardinality(K) - Cardinality(K \cap F)
  BY FS_Difference
<1>5. Cardinality(K \ F) = 1
  <2>1. Cardinality(K \ F) = Cardinality(K) - Cardinality(F) BY <1>3, <1>4
  <2> HIDE DEF l
  <2>2. QED BY <1>3, <1>14, <2>1
<1>6. PICK z : K \ F = {z} BY <1>4, <1>5, FS_Singleton
<1>7. K # {} BY <1>6
<1>8. l \in K
  <2>1. CASE \E x \in K : K = {x} /\ s.w = <<x>> /\ s.rest = {}
    <3>1. PICK x \in K : s.w = <<x>> BY <2>1
    <3>2. s.w[1] = x BY <3>1
    <3>3. QED BY <3>2
  <2>2. CASE \E a, b \in K : a # b /\ s.w = <<a, b>>
    <3>1. PICK a \in K, b \in K : s.w = <<a, b>> BY <2>2
    <3>2. s.w[1] = a BY <3>1
    <3>3. QED BY <3>2
  <2>3. QED BY <1>1, <1>7, <2>1, <2>2 DEF InOrder
<1>9. IsUndef(trail, l) BY DEF s
<1> HIDE DEF l
<1>10. ~IsFalse(trail, l) BY <1>8, <1>9, Undefined
<1>11. l = z BY <1>2, <1>6, <1>8, <1>10
<1>12. \A k \in K : k # l => IsFalse(trail, k) BY <1>2, <1>6, <1>11
<1>13. QED BY <1>8, <1>12 DEF l, s

(* What addClause_ is given, and the stack with it.                          *)
Given(S, removable) ==
  /\ Richer(inputs, inputs') /\ Stack(inputs', assertionLevel)
  /\ Ent(inputs', 0, S) \/ (~removable /\ Ent(inputs', assertionLevel, S))

(* addClause_ between two solves.                                            *)
LEMMA AddClauseKeeps ==
  ASSUME IInv, pc = "idle", NEW S, S \subseteq AtomLits, NEW removable \in BOOLEAN,
         Given(S, removable), left' \in Setting, answer' = "none", AddClause(S, removable)
  PROVE IInv'
<1> DEFINE al == assertionLevel
           int == Created(S)
           K == Kept(trail, S)
           F == {l \in K : IsFalse(trail, l)}
           s == Sorted(trail, K)
           long == Cardinality(K) > 1
           ref == IF long THEN FreshRef(clauses) ELSE Undef
           c == Clause(s, ClauseLevel(int, S, removable), FALSE)
           db == IF long THEN Attach(clauses, c) ELSE clauses
<1>1. /\ intro' = int
      /\ UNCHANGED <<assertionLevel, trailOk, lemmas, qhead, cores, spent>>
      /\ IF ~ok \/ Ignored(trail, S) THEN UNCHANGED <<clauses, trail, ok, pc, at>>
         ELSE IF F = K THEN
           /\ ok' = FALSE
           /\ clauses' = IF cores THEN db ELSE clauses
           /\ UNCHANGED <<trail, pc, at>>
         ELSE
           /\ clauses' = db
           /\ UNCHANGED ok
           /\ IF Cardinality(K) = Cardinality(F) + 1 /\ IsUndef(trail, s.w[1])
                THEN /\ trail' = Enqueue(trail, s.w[1], ref, 0)
                     /\ pc' = "propagate" /\ at' = Start("addClause")
                ELSE UNCHANGED <<trail, pc, at>>
  BY DEF AddClause
<1>2. /\ al \in Nat /\ Shape(trail, al) /\ Len(trail) \in Nat /\ at \in Locals
      /\ at.todo = {} /\ at.conflict = Undef /\ IsFiniteSet(DOMAIN clauses)
      /\ DecisionLevel(trail) = 0
  <2>1. DecisionLevel(trail) = 0 BY DEF IInv, Protocol
  <2>2. QED BY <2>1, Facts
<1>3. /\ Db(clauses, inputs', int, al) /\ Assigned(trail, clauses, inputs', int, al)
      /\ Verdicts(ok, trailOk, "none", inputs', al) /\ Vars(int, al)
      /\ Queue(lemmas, inputs', int, al)
  <2>1. Richer(inputs, inputs') BY DEF Given
  <2>2. QED BY <2>1, RicherState
<1>4. Base(inputs, intro, assertionLevel, left, cores, spent)'
  <2>1. Stack(inputs', al) BY DEF Given
  <2>2. cores \in BOOLEAN /\ spent \in BOOLEAN BY DEF IInv, Base
  <2>3. QED BY <1>1, <1>3, <2>1, <2>2 DEF Base
<1>5. K \subseteq S /\ Backed(inputs', K, removable)
  <2>1. Valued(trail, inputs') BY <1>3 DEF Assigned
  <2>2. CASE Ent(inputs', 0, S)
    <3>1. PICK n \in Nat : n = 0 OBVIOUS
    <3>2. Ent(inputs', n, S) BY <2>2, <3>1
    <3>3. K \subseteq S /\ Ent(inputs', n, K) BY <1>2, <2>1, <3>2, KeptFacts
    <3>4. QED BY <3>1, <3>3 DEF Backed
  <2>3. CASE ~removable /\ Ent(inputs', al, S)
    <3>1. K \subseteq S /\ Ent(inputs', al, K) BY <1>2, <2>1, <2>3, KeptFacts
    <3>2. QED BY <2>3, <3>1 DEF Backed
  <2>4. QED BY <2>2, <2>3 DEF Given
<1> HIDE DEF int, K
<1>6. K \subseteq Literals /\ K \subseteq ClauseLits /\ K \subseteq AtomLits /\ IsFiniteSet(K)
  <2>1. K \subseteq AtomLits BY <1>5
  <2>2. QED BY <2>1, AtomLitFacts, AtomLitsFinite, FS_Subset
<1>7. Ent(inputs', al, K)
  <2>1. CASE Ent(inputs', 0, K) BY <1>2, <2>1, EntMono
  <2>2. QED BY <1>5, <2>1 DEF Backed
<1>8. /\ Db(db, inputs', int, al)
      /\ KeepsReasons(trail, clauses, db)
      /\ long => /\ FreshRef(clauses) \in DOMAIN db /\ db[FreshRef(clauses)].w[1] = s.w[1]
                 /\ Lits(db[FreshRef(clauses)]) = K
                 /\ FreshRef(clauses) \in Nat
  <2>1. Reasons(trail, clauses) BY <1>3 DEF Assigned
  <2>2. CASE long
    <3>1. Several(K)
      <4>1. \E a, b \in K : a # b BY <1>2, <1>6, <2>2, SortedIs
      <4>2. QED BY <1>6, <4>1 DEF Several
    <3>2. Sound(c, inputs', int, al) /\ Lits(c) = K /\ c.w[1] = s.w[1]
      <4>1. PICK b \in BOOLEAN : b = FALSE OBVIOUS
      <4>2. LET x == Sorted(trail, K)
                y == Clause(x, ClauseLevel(Created(S), S, removable), b)
            IN  /\ Sound(y, inputs', Created(S), al) /\ Lits(y) = K /\ y.w[1] = x.w[1]
        BY <1>5, <3>1, AddedClause
      <4>3. QED BY <4>1, <4>2 DEF int
    <3> HIDE DEF c, s
    <3>3. db = Attach(clauses, c) BY <2>2
    <3> HIDE DEF db
    <3>4. /\ FreshRef(clauses) \in DOMAIN db /\ db[FreshRef(clauses)] = c
          /\ FreshRef(clauses) \in Nat
          /\ \A r \in DOMAIN clauses : r \in DOMAIN db /\ db[r] = clauses[r]
      <4>1. LET e == Attach(clauses, c)
                f == FreshRef(clauses)
            IN  /\ DOMAIN e = DOMAIN clauses \cup {f} /\ e[f] = c /\ f \notin DOMAIN clauses
                /\ f \in Nat /\ f > 0
                /\ \A r \in DOMAIN clauses : r \in DOMAIN e /\ e[r] = clauses[r]
        BY <1>2, AttachFacts
      <4>2. QED BY <3>3, <4>1
    <3>5. Db(db, inputs', int, al) BY <1>3, <3>2, <3>3, DbAttach
    <3>6. KeepsReasons(trail, clauses, db) BY <2>1, <3>4, KeepsReasonsMore
    <3>7. QED BY <3>2, <3>4, <3>5, <3>6
  <2>3. CASE ~long
    <3>1. db = clauses BY <2>3
    <3> HIDE DEF db
    <3>2. \A r \in DOMAIN clauses : r \in DOMAIN clauses /\ clauses[r] = clauses[r] OBVIOUS
    <3>3. KeepsReasons(trail, clauses, clauses) BY <2>1, <3>2, KeepsReasonsMore
    <3>4. QED BY <1>3, <2>3, <3>1, <3>3
  <2>4. QED BY <2>2, <2>3
<1>9. Assigned(trail, db, inputs', int, al)
  <2>1. Reasons(trail, db) BY <1>3, <1>8 DEF Assigned, Reasons, KeepsReasons
  <2>2. QED BY <1>3, <2>1 DEF Assigned
<1>10. /\ pc \in {"idle", "propagate"} /\ Len(trail) <= Len(trail)
       /\ Queue(lemmas, inputs, intro, assertionLevel)'
  BY <1>1, <1>2, <1>3
<1> HIDE DEF db, s, c, long, F
<1>11. CASE ~ok \/ Ignored(trail, S)
  <2>1. UNCHANGED <<clauses, trail, ok, pc, at>> BY <1>1, <1>11
  <2>2. /\ Assigned(trail, clauses, inputs, intro, assertionLevel)'
        /\ Db(clauses, inputs, intro, assertionLevel)'
        /\ Verdicts(ok, trailOk, answer, inputs, assertionLevel)'
    BY <1>1, <1>3, <2>1
  <2>3. QED BY <1>1, <1>2, <1>4, <1>10, <2>1, <2>2, AddEnd
<1>12. CASE ~(~ok \/ Ignored(trail, S)) /\ F = K
  <2>1. /\ ok' = FALSE /\ UNCHANGED <<trail, pc, at>>
        /\ clauses' = IF cores THEN db ELSE clauses
    BY <1>1, <1>12
  <2>2. /\ Assigned(trail, clauses, inputs, intro, assertionLevel)'
        /\ Db(clauses, inputs, intro, assertionLevel)'
    BY <1>1, <1>3, <1>8, <1>9, <2>1
  <2>3. Ent(inputs', al, {})
    <3>1. \A l \in K \ {} : IsFalse(trail, l) BY <1>12 DEF F
    <3>2. Valued(trail, inputs') BY <1>3 DEF Assigned
    <3>3. al \in Int /\ al <= al BY <1>2
    <3>4. QED BY <1>2, <1>6, <1>7, <3>1, <3>2, <3>3, DropAtBottom
  <2>4. Verdicts(ok, trailOk, answer, inputs, assertionLevel)'
    <3>1. ok' \in BOOLEAN /\ answer' # "unsat" BY <2>1
    <3>2. trailOk' = trailOk /\ assertionLevel' = al BY <1>1
    <3>3. /\ trailOk \in Seq(BOOLEAN) /\ Len(trailOk) = al
          /\ \A k \in 1 .. al : ~trailOk[k] => Ent(inputs', k - 1, {})
      BY <1>3 DEF Verdicts
    <3>4. QED BY <2>3, <3>1, <3>2, <3>3 DEF Verdicts
  <2>5. QED BY <1>1, <1>2, <1>4, <1>10, <2>1, <2>2, <2>4, AddEnd
<1>13. CASE ~(~ok \/ Ignored(trail, S)) /\ F # K
  <2>1. clauses' = db /\ ok' = ok
    BY <1>1, <1>13
  <2>2. Db(clauses, inputs, intro, assertionLevel)' BY <1>1, <1>8, <2>1
  <2>3. Verdicts(ok, trailOk, answer, inputs, assertionLevel)' BY <1>1, <1>3, <2>1
  <2>4. CASE ~(Cardinality(K) = Cardinality(F) + 1 /\ IsUndef(trail, s.w[1]))
    <3>1. UNCHANGED <<trail, pc, at>> BY <1>1, <1>13, <2>4
    <3>2. Assigned(trail, clauses, inputs, intro, assertionLevel)' BY <1>1, <1>9, <2>1, <3>1
    <3>3. QED BY <1>1, <1>2, <1>4, <1>10, <2>2, <2>3, <3>1, <3>2, AddEnd
  <2>5. CASE Cardinality(K) = Cardinality(F) + 1 /\ IsUndef(trail, s.w[1])
    <3>1. /\ trail' = Enqueue(trail, s.w[1], ref, 0)
          /\ pc' = "propagate" /\ at' = Start("addClause")
      BY <1>1, <1>13, <2>5
    <3> DEFINE l == s.w[1]
    <3>2. l \in K /\ \A k \in K : k # l => IsFalse(trail, k)
      <4>1. Cardinality(K) = Cardinality(FalseOf(K)) + 1 BY <2>5 DEF F, FalseOf
      <4>2. IsUndef(trail, Sorted(trail, K).w[1]) BY <2>5 DEF s
      <4>3. /\ Sorted(trail, K).w[1] \in K
            /\ \A k \in K : k # Sorted(trail, K).w[1] => IsFalse(trail, k)
        BY <1>2, <1>6, <4>1, <4>2, LoneLiteral
      <4>4. QED BY <4>3 DEF s
    <3>3. IsUndef(trail, l) BY <2>5
    <3>4. Implies(trail, db, ref, l) /\ ref \in Int /\ ref >= -1
      <4>1. CASE long
        <5>1. ref = FreshRef(clauses) BY <4>1
        <5>2. ref \in DOMAIN db /\ db[ref].w[1] = l /\ Lits(db[ref]) = K /\ ref \in Nat
          BY <1>8, <4>1, <5>1
        <5>3. QED BY <3>2, <5>2 DEF Implies
      <4>2. CASE ~long
        <5>1. ref = 0 BY <4>2 DEF Undef
        <5>2. QED BY <5>1 DEF Implies
      <4>3. QED BY <4>1, <4>2
    <3> HIDE DEF l, ref
    <3>5. l \in AtomLits BY <1>6, <3>2
    <3>6. int[Var(l)] \in 0 .. al
      <4>1. Vars(intro, al) BY DEF IInv, Base
      <4>2. \A k \in S \cap AtomLits : Created(S)[Var(k)] \in 0 .. al BY <1>2, <4>1, CreatedFacts
      <4>3. l \in S \cap AtomLits BY <1>5, <3>2, <3>5
      <4>4. QED BY <4>2, <4>3 DEF int
    <3>7. PICK z \in Nat : z = 0 OBVIOUS
    <3>8. DecisionLevel(trail) <= z BY <1>2, <3>7
    <3>9. Justified(z, inputs', l)
      <4>1. \A k \in K \ {l} : IsFalse(trail, k) BY <3>2
      <4>2. Valued(trail, inputs') BY <1>3 DEF Assigned
      <4>3. al \in Int /\ al <= al BY <1>2
      <4>4. Ent(inputs', al, {l}) BY <1>2, <1>6, <1>7, <4>1, <4>2, <4>3, DropAtBottom
      <4>5. QED BY <4>4 DEF Justified
    <3>10. LET u == Enqueue(trail, l, ref, z)
           IN  /\ Assigned(u, db, inputs', int, al) /\ Begins(trail, u)
               /\ DecisionLevel(u) = z
               /\ Len(u) = Len(trail) + 1 /\ \A i \in 1 .. Len(trail) : u[i] = trail[i]
               /\ u[Len(trail) + 1].level = z /\ u[Len(trail) + 1].lit = l
               /\ Shape(u, al)
      BY <1>2, <1>3, <1>8, <3>3, <3>4, <3>5, <3>6, <3>8, <3>9, AssignedEnqueued
    <3>11. trail' = Enqueue(trail, l, ref, z) BY <3>1, <3>7 DEF l
    <3>12. /\ Assigned(trail', db, inputs', int, al) /\ DecisionLevel(trail') = 0
           /\ Len(trail) <= Len(trail')
      BY <1>2, <3>7, <3>10, <3>11
    <3>13. Assigned(trail, clauses, inputs, intro, assertionLevel)' BY <1>1, <2>1, <3>12
    <3>14. at' \in Locals /\ at'.todo = {} /\ at'.conflict = Undef BY <3>1, StartFacts
    <3>15. QED BY <1>1, <1>4, <1>10, <2>2, <2>3, <3>1, <3>12, <3>13, <3>14, AddEnd
  <2>6. QED BY <2>4, <2>5
<1>14. QED BY <1>11, <1>12, <1>13

(* The user asserts a clause.                                                *)
LEMMA AddInputStep ==
  ASSUME IInv, NEW S \in left.user[assertionLevel], AddInput(S)
  PROVE IInv'
<1> DEFINE al == assertionLevel
<1>1. /\ pc = "idle" /\ Use("inputs") /\ answer' = "none"
      /\ inputs' = [inputs EXCEPT ![al + 1] = @ \cup {S}]
      /\ AddClause(S, FALSE)
  BY DEF AddInput, Forget
<1>2. left \in Setting /\ Stack(inputs, al) BY DEF IInv, Base
<1>3. left' \in Setting
  <2>1. "inputs" \in {"inputs", "solves", "lemmas", "restarts"} OBVIOUS
  <2>2. QED BY <1>1, <1>2, <2>1, UseFacts
<1>4. al \in Nat /\ al \in 0 .. MaxLevel BY <1>2, Facts DEF Stack
<1>5. S \subseteq AtomLits
  <2>1. left.user \in [0 .. MaxLevel -> SUBSET SUBSET AtomLits] BY <1>2 DEF Setting
  <2>2. left.user[al] \subseteq SUBSET AtomLits BY <1>4, <2>1
  <2>3. QED BY <2>2
<1>6. /\ inputs' \in Seq(SUBSET SUBSET AtomLits) /\ Len(inputs') = al + 1
      /\ inputs'[al + 1] = inputs[al + 1] \cup {S}
      /\ \A k \in 1 .. al + 1 : k # al + 1 => inputs'[k] = inputs[k]
  <2>1. /\ inputs \in Seq(SUBSET SUBSET AtomLits) /\ Len(inputs) = al + 1
        /\ al + 1 \in 1 .. Len(inputs)
    BY <1>2, <1>4 DEF Stack
  <2> DEFINE X == inputs[al + 1] \cup {S}
             Y == SUBSET SUBSET AtomLits
  <2>2. X \in Y BY <1>5, <2>1
  <2>3. inputs' = [inputs EXCEPT ![al + 1] = X] /\ inputs \in Seq(Y) BY <1>1, <2>1
  <2> HIDE DEF X, Y
  <2>4. inputs' \in Seq(Y) /\ Len(inputs') = Len(inputs) BY <1>4, <2>1, <2>2, <2>3
  <2>5. inputs'[al + 1] = X /\ \A k \in 1 .. al + 1 : k # al + 1 => inputs'[k] = inputs[k]
    BY <1>4, <2>1, <2>3
  <2>6. QED BY <2>1, <2>4, <2>5 DEF X, Y
<1>7. Given(S, FALSE)
  <2>1. Stack(inputs', al) BY <1>4, <1>6 DEF Stack
  <2>2. Richer(inputs, inputs')
    <3>1. ASSUME NEW k \in 1 .. al + 1 PROVE inputs[k] \subseteq inputs'[k]
      <4>1. CASE k = al + 1 BY <1>6, <4>1
      <4>2. CASE k # al + 1 BY <1>6, <4>2
      <4>3. QED BY <4>1, <4>2
    <3>2. QED BY <3>1 DEF Richer
  <2>3. Ent(inputs', al, S)
    <3>1. S \in inputs'[al + 1] /\ al + 1 \in 1 .. al + 1 BY <1>4, <1>6
    <3>2. QED BY <3>1 DEF Ent, Allowed
  <2>4. QED BY <2>1, <2>2, <2>3 DEF Given
<1>8. PICK b \in BOOLEAN : b = FALSE OBVIOUS
<1>9. Given(S, b) /\ AddClause(S, b) BY <1>1, <1>7, <1>8
<1>10. QED BY <1>1, <1>3, <1>5, <1>9, AddClauseKeeps

(* The theory sends a clause between two solves.                             *)
LEMMA AddTheoryClauseStep ==
  ASSUME IInv, NEW S \in Theory, AddTheoryClause(S)
  PROVE IInv'
<1> DEFINE al == assertionLevel
<1>1. /\ pc = "idle" /\ Use("lemmas") /\ answer' = "none" /\ inputs' = inputs
      /\ \E removable \in BOOLEAN : AddClause(S, removable)
  BY DEF AddTheoryClause, Forget
<1>2. PICK removable \in BOOLEAN : AddClause(S, removable) BY <1>1
<1>3. left \in Setting /\ Stack(inputs, al) BY DEF IInv, Base
<1>4. left' \in Setting
  <2>1. "lemmas" \in {"inputs", "solves", "lemmas", "restarts"} OBVIOUS
  <2>2. QED BY <1>1, <1>3, <2>1, UseFacts
<1>5. S \subseteq AtomLits BY Constants
<1>6. Given(S, removable)
  <2>1. Ent(inputs', 0, S) BY TheoryEnt
  <2>2. Richer(inputs, inputs') /\ Stack(inputs', al) BY <1>1, <1>3 DEF Richer
  <2>3. QED BY <2>1, <2>2 DEF Given
<1>7. QED BY <1>1, <1>2, <1>4, <1>5, <1>6, AddClauseKeeps

-----------------------------------------------------------------------------
(* The trail t is what cancelUntil(d) leaves.                                *)
Cut(t, d) ==
  /\ d \in Nat /\ Shape(t, assertionLevel) /\ Begins(t, trail) /\ Len(t) \in 1 .. Len(trail)
  /\ DecisionLevel(t) \in Nat /\ DecisionLevel(t) <= d
  /\ \A i \in 1 .. Len(t) : t[i] = trail[i]
  /\ \A i \in 1 .. Len(trail) : trail[i].level <= d <=> i <= Len(t)
  /\ DecisionLevel(trail) <= d => t = trail
  /\ Len(t) = Len(trail) => t = trail
  /\ (\E i \in 1 .. Len(trail) : trail[i].level = d) => DecisionLevel(t) = d

(* cancelUntil does that.                                                    *)
LEMMA CancelIsCut ==
  ASSUME IInv, NEW d \in Nat
  PROVE Cut(CancelUntil(trail, d), d)
<1> DEFINE al == assertionLevel
<1>1. Shape(trail, al) BY Facts
<1>2. LET u == CancelUntil(trail, d)
      IN  /\ Shape(u, al) /\ Begins(u, trail) /\ DecisionLevel(u) <= d
          /\ Len(u) \in 1 .. Len(trail)
          /\ \A i \in 1 .. Len(u) : u[i] = trail[i]
          /\ \A i \in 1 .. Len(trail) : trail[i].level <= d <=> i <= Len(u)
          /\ DecisionLevel(trail) <= d => u = trail
          /\ Len(u) = Len(trail) => u = trail
          /\ (\E i \in 1 .. Len(trail) : trail[i].level = d) => DecisionLevel(u) = d
  BY <1>1, CancelFacts
<1> DEFINE t == CancelUntil(trail, d)
<1>3. DecisionLevel(t) \in Nat
  <2>1. Shape(t, al) BY <1>2
  <2> HIDE DEF t
  <2>2. 1 \in 1 .. Len(t) BY <2>1 DEF Shape
  <2>3. QED BY <2>1, <2>2, EntryFacts
<1>4. QED BY <1>2, <1>3 DEF Cut

(* The values that are left.                                                 *)
LEMMA CutValues ==
  ASSUME IInv, NEW t, NEW d, Cut(t, d), NEW l \in Literals
  PROVE /\ IsTrue(t, l) => /\ IsTrue(trail, l) /\ At(trail, l) = At(t, l)
                           /\ LevelOf(trail, l) = LevelOf(t, l)
        /\ IsFalse(t, l) => /\ IsFalse(trail, l) /\ At(trail, l) = At(t, l)
                            /\ LevelOf(trail, l) = LevelOf(t, l)
        /\ IsTrue(t, l) \/ IsFalse(t, l) =>
             /\ LevelOf(t, l) \in Nat /\ LevelOf(t, l) <= DecisionLevel(t)
             /\ At(t, l) \in 1 .. Len(t)
        /\ \A i \in Int : i <= Len(t) + 1 /\ Before(trail, l, i) => Before(t, l, i)
        /\ IsTrue(trail, l) /\ LevelOf(trail, l) <= d => IsTrue(t, l)
        /\ IsFalse(trail, l) /\ LevelOf(trail, l) <= d => IsFalse(t, l)
<1> DEFINE al == assertionLevel
<1>1. Shape(trail, al) /\ al \in Nat /\ Shape(t, al) /\ Begins(t, trail) BY Facts DEF Cut
<1>2. /\ IsTrue(t, l) => /\ IsTrue(trail, l) /\ At(trail, l) = At(t, l)
                         /\ LevelOf(trail, l) = LevelOf(t, l)
      /\ IsFalse(t, l) => /\ IsFalse(trail, l) /\ At(trail, l) = At(t, l)
                          /\ LevelOf(trail, l) = LevelOf(t, l)
      /\ \A i \in Int : i <= Len(t) + 1 /\ Before(trail, l, i) => Before(t, l, i)
      /\ IsTrue(trail, l) /\ At(trail, l) <= Len(t) => IsTrue(t, l)
      /\ IsFalse(trail, l) /\ At(trail, l) <= Len(t) => IsFalse(t, l)
  BY <1>1, BeginsValues
<1>3. ASSUME IsTrue(t, l) \/ IsFalse(t, l)
      PROVE /\ LevelOf(t, l) \in Nat /\ LevelOf(t, l) <= DecisionLevel(t)
            /\ At(t, l) \in 1 .. Len(t)
  BY <1>1, <1>3, LevelFacts
<1>4. ASSUME IsTrue(trail, l) \/ IsFalse(trail, l), LevelOf(trail, l) <= d
      PROVE At(trail, l) <= Len(t)
  <2>1. At(trail, l) \in 1 .. Len(trail) BY <1>1, <1>4, LevelFacts
  <2>2. trail[At(trail, l)].level <= d BY <1>4 DEF LevelOf
  <2>3. QED BY <2>1, <2>2 DEF Cut
<1>5. QED BY <1>2, <1>3, <1>4

(* A lemma that is sorted.                                                   *)
SortOf(L) == LET s == Sorted(trail, L.rest)
             IN  [L EXCEPT !.w = s.w, !.rest = s.rest, !.sorted = TRUE]

(* It has the same literals, the first two in front.                         *)
LEMMA SortOfFacts ==
  ASSUME IInv, NEW L \in LemmaType, L.w = <<>>
  PROVE /\ SortOf(L) \in LemmaType /\ SortOf(L).sorted = TRUE
        /\ InOrder(trail, L.rest, SortOf(L))
        /\ LemmaLits(SortOf(L)) = L.rest /\ LemmaLits(L) = L.rest
        /\ SortOf(L).removable = L.removable /\ SortOf(L).dangling = L.dangling
<1> DEFINE S == L.rest
           s == Sorted(trail, S)
           d == SortOf(L)
<1>1. S \subseteq AtomLits /\ LemmaLits(L) = S BY QueueFacts
<1>2. S \subseteq Literals /\ IsFiniteSet(S)
  BY <1>1, AtomLitFacts, AtomLitsFinite, FS_Subset
<1>3. InOrder(trail, S, s) BY <1>2, Facts, SortedIs
<1>4. d = [L EXCEPT !.w = s.w, !.rest = s.rest, !.sorted = TRUE] BY DEF SortOf
<1> HIDE DEF s
<1>5. s.w \in Seq(AtomLits) /\ s.rest \subseteq AtomLits
      /\ S = s.rest \cup {s.w[i] : i \in DOMAIN s.w}
  <2>1. CASE S = {} /\ s.w = <<>> /\ s.rest = {}
    <3>1. DOMAIN s.w = {} BY <2>1
    <3>2. s.w \in Seq(AtomLits) BY <2>1
    <3>3. QED BY <2>1, <3>1, <3>2
  <2>2. CASE \E x \in S : S = {x} /\ s.w = <<x>> /\ s.rest = {}
    <3>1. PICK x \in S : S = {x} /\ s.w = <<x>> /\ s.rest = {} BY <2>2
    <3>2. s.w \in Seq(AtomLits) /\ DOMAIN s.w = {1} /\ s.w[1] = x BY <1>1, <3>1
    <3>3. QED BY <3>1, <3>2
  <2>3. CASE \E a, b \in S : a # b /\ s.w = <<a, b>> /\ s.rest = S \ {a, b}
    <3>1. PICK a \in S, b \in S : a # b /\ s.w = <<a, b>> /\ s.rest = S \ {a, b} BY <2>3
    <3>2. s.w \in Seq(AtomLits) /\ DOMAIN s.w = {1, 2} /\ s.w[1] = a /\ s.w[2] = b
      BY <1>1, <3>1
    <3>3. {s.w[i] : i \in DOMAIN s.w} = {a, b} BY <3>2
    <3>4. QED BY <1>1, <3>1, <3>2, <3>3
  <2>4. QED BY <1>3, <2>1, <2>2, <2>3 DEF InOrder
<1>6. /\ d.w = s.w /\ d.rest = s.rest /\ d.sorted = TRUE /\ d.removable = L.removable
      /\ d \in LemmaType /\ d.dangling = L.dangling
  <2>1. PICK b \in BOOLEAN : b = TRUE OBVIOUS
  <2>2. d = [L EXCEPT !.w = s.w, !.rest = s.rest, !.sorted = b] BY <1>4, <2>1
  <2> HIDE DEF d
  <2>3. PICK w \in Seq(AtomLits), rest \in SUBSET AtomLits : w = s.w /\ rest = s.rest BY <1>5
  <2>4. d = [L EXCEPT !.w = w, !.rest = rest, !.sorted = b] BY <2>2, <2>3
  <2>5. /\ d.w = w /\ d.rest = rest /\ d.sorted = b /\ d.removable = L.removable
        /\ d \in LemmaType /\ d.dangling = L.dangling
    BY <2>4 DEF LemmaType
  <2>6. QED BY <2>1, <2>3, <2>5
<1> HIDE DEF d
<1>8. InOrder(trail, S, d) BY <1>3, <1>6 DEF InOrder
<1>9. LemmaLits(d) = S BY <1>5, <1>6 DEF LemmaLits
<1>10. QED BY <1>1, <1>6, <1>8, <1>9 DEF d

-----------------------------------------------------------------------------
(* The first half of updateLemmas.                                           *)

(* The level that a sorted lemma needs: one at which it can be propagated.   *)
LEMMA BacktrackFacts ==
  ASSUME IInv, NEW S, S \subseteq Literals, NEW x, InOrder(trail, S, x)
  PROVE /\ BacktrackLevel(x.w) \in Nat
        /\ x.w = <<>> => BacktrackLevel(x.w) = 0
        /\ Len(x.w) = 1 => \/ BacktrackLevel(x.w) = 0
                           \/ IsTrue(trail, x.w[1]) /\ LevelOf(trail, x.w[1]) = 0
        /\ Len(x.w) = 2 /\ IsFalse(trail, x.w[2]) /\ IsFalse(trail, x.w[1]) =>
             BacktrackLevel(x.w) = LevelOf(trail, x.w[2])
<1> DEFINE al == assertionLevel
           b == BacktrackLevel(x.w)
<1>1. Shape(trail, al) /\ al \in Nat /\ DecisionLevel(trail) \in Nat BY Facts
<1>2. CASE x.w = <<>>
  <2>1. b = 0 BY <1>2 DEF BacktrackLevel
  <2>2. Len(x.w) = 0 BY <1>2
  <2>3. QED BY <2>1, <2>2
<1>3. CASE \E y \in S : S = {y} /\ x.w = <<y>> /\ x.rest = {}
  <2>1. PICK y \in S : x.w = <<y>> BY <1>3
  <2>2. Len(x.w) = 1 /\ x.w[1] = y /\ x.w # <<>> /\ y \in Literals BY <2>1
  <2>3. b = IF IsTrue(trail, y) /\ LevelOf(trail, y) <= 0 THEN DecisionLevel(trail) ELSE 0
    BY <2>2 DEF BacktrackLevel
  <2>4. IsTrue(trail, y) => LevelOf(trail, y) \in Nat BY <1>1, <2>2, LevelFacts
  <2>5. QED BY <1>1, <2>2, <2>3, <2>4
<1>4. CASE \E y, z \in S : x.w = <<y, z>>
  <2>1. PICK y \in S, z \in S : x.w = <<y, z>> BY <1>4
  <2>2. Len(x.w) = 2 /\ x.w[1] = y /\ x.w[2] = z /\ x.w # <<>>
        /\ y \in Literals /\ z \in Literals
    BY <2>1
  <2>3. b = IF ~IsFalse(trail, z) THEN DecisionLevel(trail)
            ELSE IF IsTrue(trail, y) /\ LevelOf(trail, y) <= LevelOf(trail, z)
                   THEN DecisionLevel(trail) ELSE LevelOf(trail, z)
    BY <2>2 DEF BacktrackLevel
  <2>4. IsFalse(trail, z) => LevelOf(trail, z) \in Nat BY <1>1, <2>2, LevelFacts
  <2>5. ~(IsTrue(trail, y) /\ IsFalse(trail, y)) BY <1>1, <2>2, Undefined
  <2>6. QED BY <1>1, <2>2, <2>3, <2>4, <2>5
<1>5. QED BY <1>2, <1>3, <1>4 DEF InOrder

(* At that level, or below, it is ready to be attached.                      *)
LEMMA SortedReady ==
  ASSUME IInv, NEW S, S \subseteq Literals, NEW x, InOrder(trail, S, x), NEW d \in Nat,
         d <= BacktrackLevel(x.w), NEW t, Cut(t, d), NEW bound
  PROVE Ready(x, t, bound)
<1> DEFINE al == assertionLevel
<1>1. Shape(trail, al) /\ al \in Nat /\ DecisionLevel(t) \in Nat /\ DecisionLevel(t) <= d
  BY Facts DEF Cut
<1>2. CASE x.w = <<>> /\ x.rest = {}
  <2>1. Len(x.w) = 0 BY <1>2
  <2>2. QED BY <1>2, <2>1 DEF Ready
<1>3. CASE \E y \in S : S = {y} /\ x.w = <<y>> /\ x.rest = {}
  <2>1. PICK y \in S : x.w = <<y>> /\ x.rest = {} BY <1>3
  <2>2. Len(x.w) = 1 /\ x.w[1] = y /\ y \in Literals BY <2>1
  <2>3. DecisionLevel(t) = 0 \/ (IsTrue(t, y) /\ LevelOf(t, y) = 0)
    <3>1. BacktrackLevel(x.w) = 0 \/ (IsTrue(trail, y) /\ LevelOf(trail, y) = 0)
      BY <2>2, BacktrackFacts
    <3>2. CASE BacktrackLevel(x.w) = 0 BY <1>1, <3>2
    <3>3. CASE IsTrue(trail, y) /\ LevelOf(trail, y) = 0 BY <2>2, <3>3, CutValues
    <3>4. QED BY <3>1, <3>2, <3>3
  <2>4. QED BY <2>1, <2>2, <2>3 DEF Ready
<1>4. CASE \E y, z \in S : /\ y # z /\ x.w = <<y, z>> /\ x.rest = S \ {y, z}
                           /\ \A v \in S \ {y} : Precedes(trail, y, v)
                           /\ \A v \in S \ {y, z} : Precedes(trail, z, v)
  <2>1. PICK y \in S, z \in S : /\ y # z /\ x.w = <<y, z>> /\ x.rest = S \ {y, z}
                                /\ \A v \in S \ {y} : Precedes(trail, y, v)
                                /\ \A v \in S \ {y, z} : Precedes(trail, z, v)
    BY <1>4
  <2>2. Len(x.w) = 2 /\ x.w[1] = y /\ x.w[2] = z /\ y \in Literals /\ z \in Literals BY <2>1
  <2>3. ASSUME IsFalse(t, z)
        PROVE /\ \A l \in x.rest : Before(t, l, At(t, z))
              /\ IsFalse(t, y) => LevelOf(t, y) = DecisionLevel(t)
    <3>1. IsFalse(trail, z) /\ At(trail, z) = At(t, z) /\ LevelOf(trail, z) = LevelOf(t, z)
          /\ At(t, z) \in 1 .. Len(t)
      BY <2>2, <2>3, CutValues
    <3>2. Len(t) \in Nat BY Facts DEF Cut
    <3>3. ASSUME NEW l \in x.rest PROVE Before(t, l, At(t, z))
      <4>1. l \in Literals /\ Precedes(trail, z, l) BY <2>1
      <4>2. IsFalse(trail, l) /\ At(trail, l) < At(trail, z)
        BY <1>1, <2>2, <3>1, <4>1, PrecedesFalse
      <4>3. At(trail, z) \in Int BY <3>1
      <4>4. Before(trail, l, At(trail, z)) BY <1>1, <4>1, <4>2, <4>3, BeforeIs
      <4>5. At(t, z) \in Int /\ At(t, z) <= Len(t) + 1 BY <3>1, <3>2
      <4>6. Before(trail, l, At(t, z)) BY <3>1, <4>4
      <4>7. QED BY <4>1, <4>5, <4>6, CutValues
    <3>4. ASSUME IsFalse(t, y) PROVE LevelOf(t, y) = DecisionLevel(t)
      <4>1. IsFalse(trail, y) /\ LevelOf(trail, y) = LevelOf(t, y)
            /\ LevelOf(t, y) \in Nat /\ LevelOf(t, y) <= DecisionLevel(t)
        BY <2>2, <3>4, CutValues
      <4>2. BacktrackLevel(x.w) = LevelOf(trail, z) BY <2>2, <3>1, <4>1, BacktrackFacts
      <4>3. Precedes(trail, y, z) BY <2>1
      <4>4. At(trail, z) < At(trail, y) BY <1>1, <2>2, <4>1, <4>3, PrecedesFalse
      <4>5. At(trail, z) \in 1 .. Len(trail) /\ At(trail, y) \in 1 .. Len(trail)
        BY <1>1, <2>2, <3>1, <4>1, LevelFacts
      <4>6. trail[At(trail, z)].level <= trail[At(trail, y)].level
        BY <1>1, <4>4, <4>5 DEF Shape
      <4>7. LevelOf(trail, z) <= LevelOf(trail, y) BY <4>6 DEF LevelOf
      <4>8. LevelOf(trail, z) \in Nat BY <1>1, <2>2, <3>1, LevelFacts
      <4>9. QED BY <1>1, <4>1, <4>2, <4>7, <4>8
    <3>5. QED BY <3>3, <3>4
  <2>4. QED BY <2>2, <2>3 DEF Ready
<1>5. QED BY <1>2, <1>3, <1>4 DEF InOrder

(* A cut leaves no more decisions.                                           *)
LEMMA LowerCut ==
  ASSUME IInv, NEW d, NEW t, Cut(t, d)
  PROVE DecisionLevel(t) <= DecisionLevel(trail)
<1>1. Len(t) \in 1 .. Len(trail) /\ t[Len(t)] = trail[Len(t)] BY Facts DEF Cut
<1>2. trail[Len(t)].level <= DecisionLevel(trail) BY <1>1, Facts, EntryFacts
<1>3. QED BY <1>1, <1>2 DEF DecisionLevel

(* A lemma that was sorted before stays ready.                               *)
LEMMA ReadyCut ==
  ASSUME IInv, NEW x, x.w \in Seq(AtomLits), x.rest \subseteq AtomLits,
         Ready(x, trail, Len(trail)), NEW d, NEW t, Cut(t, d)
  PROVE Ready(x, t, Len(t))
<1> DEFINE al == assertionLevel
<1>1. /\ Shape(trail, al) /\ al \in Nat /\ DecisionLevel(t) \in Nat /\ d \in Nat
      /\ DecisionLevel(trail) \in Nat /\ DecisionLevel(t) <= DecisionLevel(trail)
      /\ Len(t) \in Nat
  BY Facts, LowerCut DEF Cut
<1>2. Len(x.w) <= 2 /\ (Len(x.w) < 2 => x.rest = {}) BY DEF Ready
<1>3. ASSUME Len(x.w) = 1
      PROVE DecisionLevel(t) = 0 \/ (IsTrue(t, x.w[1]) /\ LevelOf(t, x.w[1]) = 0)
  <2>1. DecisionLevel(trail) = 0 \/ (IsTrue(trail, x.w[1]) /\ LevelOf(trail, x.w[1]) = 0)
    BY <1>3 DEF Ready
  <2>2. CASE DecisionLevel(trail) = 0 BY <1>1, <2>2
  <2>3. CASE IsTrue(trail, x.w[1]) /\ LevelOf(trail, x.w[1]) = 0
    <3>1. x.w[1] \in Literals BY <1>3, LiteralsAre
    <3>2. LevelOf(trail, x.w[1]) <= d BY <1>1, <2>3
    <3>3. IsTrue(t, x.w[1]) BY <2>3, <3>1, <3>2, CutValues
    <3>4. LevelOf(t, x.w[1]) = 0 BY <2>3, <3>1, <3>3, CutValues
    <3>5. QED BY <3>3, <3>4
  <2>4. QED BY <2>1, <2>2, <2>3
<1>4. ASSUME Len(x.w) = 2, IsFalse(t, x.w[2])
      PROVE /\ \A l \in x.rest : Before(t, l, At(t, x.w[2]))
            /\ IsFalse(t, x.w[1]) => LevelOf(t, x.w[1]) = DecisionLevel(t)
  <2>1. x.w[1] \in Literals /\ x.w[2] \in Literals BY <1>4, LiteralsAre
  <2>2. IsFalse(trail, x.w[2]) /\ At(trail, x.w[2]) = At(t, x.w[2])
        /\ At(t, x.w[2]) \in 1 .. Len(t)
    BY <1>4, <2>1, CutValues
  <2>3. At(trail, x.w[2]) <= Len(trail) BY <1>1, <2>1, <2>2, LevelFacts
  <2>4. /\ \A l \in x.rest : Before(trail, l, At(trail, x.w[2]))
        /\ IsFalse(trail, x.w[1]) => LevelOf(trail, x.w[1]) = DecisionLevel(trail)
    BY <1>4, <2>2, <2>3 DEF Ready
  <2>5. ASSUME NEW l \in x.rest PROVE Before(t, l, At(t, x.w[2]))
    <3>1. l \in Literals BY LiteralsAre
    <3>2. At(t, x.w[2]) \in Int /\ At(t, x.w[2]) <= Len(t) + 1 BY <1>1, <2>2
    <3>3. Before(trail, l, At(t, x.w[2])) BY <2>2, <2>4
    <3>4. QED BY <3>1, <3>2, <3>3, CutValues
  <2>6. ASSUME IsFalse(t, x.w[1]) PROVE LevelOf(t, x.w[1]) = DecisionLevel(t)
    <3>1. IsFalse(trail, x.w[1]) /\ LevelOf(trail, x.w[1]) = LevelOf(t, x.w[1])
          /\ LevelOf(t, x.w[1]) \in Nat /\ LevelOf(t, x.w[1]) <= DecisionLevel(t)
      BY <2>1, <2>6, CutValues
    <3>2. LevelOf(trail, x.w[1]) = DecisionLevel(trail) BY <2>4, <3>1
    <3>3. QED BY <1>1, <3>1, <3>2
  <2>7. QED BY <2>5, <2>6
<1>5. QED BY <1>2, <1>3, <1>4 DEF Ready

(* The lemmas to sort, the queue with them sorted, and the levels they need. *)
NewLemmas == {i \in DOMAIN lemmas : ~lemmas[i].sorted}
SortedQueue ==
  [i \in DOMAIN lemmas |-> IF i \in NewLemmas THEN SortOf(lemmas[i]) ELSE lemmas[i]]
Levels == {DecisionLevel(trail)} \cup
          {BacktrackLevel(w) : w \in {SortedQueue[i].w : i \in NewLemmas}}

(* The queue with all lemmas sorted.                                         *)
LEMMA SortedQueueFacts ==
  ASSUME IInv, pc = "lemmas"
  PROVE /\ Queue(SortedQueue, inputs, intro, assertionLevel)
        /\ Len(SortedQueue) = Len(lemmas)
        /\ \A k \in 1 .. Len(lemmas) :
             /\ SortedQueue[k] \in LemmaType /\ SortedQueue[k].sorted = TRUE
             /\ k \in NewLemmas => /\ InOrder(trail, lemmas[k].rest, SortedQueue[k])
                                   /\ lemmas[k].rest \subseteq Literals
             /\ k \notin NewLemmas => SortedQueue[k] = lemmas[k] /\ lemmas[k].sorted
        /\ NewLemmas \subseteq 1 .. Len(lemmas) /\ Live(SortedQueue)
<1> DEFINE al == assertionLevel
           q == SortedQueue
<1>1. /\ lemmas \in Seq(LemmaType)
      /\ \A k \in 1 .. Len(lemmas) :
           /\ ~lemmas[k].dangling
           /\ \A l \in LemmaLits(lemmas[k]) : intro[Var(l)] \in 0 .. al
           /\ Ent(inputs, 0, LemmaLits(lemmas[k]))
           /\ ~lemmas[k].sorted => lemmas[k].w = <<>>
  BY Facts DEF Queue, Live
<1>2. DOMAIN lemmas = 1 .. Len(lemmas) /\ Len(lemmas) \in Nat BY <1>1
<1>3. \A k \in 1 .. Len(lemmas) :
        q[k] = IF k \in NewLemmas THEN SortOf(lemmas[k]) ELSE lemmas[k]
  BY <1>2 DEF SortedQueue
<1>4. ASSUME NEW k \in 1 .. Len(lemmas)
      PROVE /\ q[k] \in LemmaType /\ q[k].sorted = TRUE
            /\ k \in NewLemmas => /\ InOrder(trail, lemmas[k].rest, q[k])
                                  /\ lemmas[k].rest \subseteq Literals
            /\ k \notin NewLemmas => q[k] = lemmas[k] /\ lemmas[k].sorted
            /\ LemmaLits(q[k]) = LemmaLits(lemmas[k]) /\ ~q[k].dangling
  <2>1. lemmas[k] \in LemmaType BY <1>1
  <2>2. CASE k \in NewLemmas
    <3>1. ~lemmas[k].sorted BY <2>2 DEF NewLemmas
    <3>2. lemmas[k].w = <<>> BY <1>1, <3>1
    <3>3. lemmas[k].rest \subseteq AtomLits BY <2>1, QueueFacts
    <3>4. lemmas[k].rest \subseteq Literals BY <3>3, LiteralsAre
    <3>5. q[k] = SortOf(lemmas[k]) BY <1>3, <2>2
    <3>6. /\ SortOf(lemmas[k]) \in LemmaType /\ SortOf(lemmas[k]).sorted = TRUE
          /\ InOrder(trail, lemmas[k].rest, SortOf(lemmas[k]))
          /\ LemmaLits(SortOf(lemmas[k])) = lemmas[k].rest
          /\ LemmaLits(lemmas[k]) = lemmas[k].rest
          /\ SortOf(lemmas[k]).dangling = lemmas[k].dangling
      BY <2>1, <3>2, SortOfFacts
    <3>7. QED BY <1>1, <2>2, <3>4, <3>5, <3>6
  <2>3. CASE k \notin NewLemmas
    <3>1. q[k] = lemmas[k] BY <1>3, <2>3
    <3>2. lemmas[k].sorted BY <1>2, <2>3 DEF NewLemmas
    <3>3. lemmas[k].sorted \in BOOLEAN BY <2>1, QueueFacts
    <3>4. lemmas[k].sorted = TRUE BY <3>2, <3>3
    <3>5. QED BY <1>1, <2>1, <2>3, <3>1, <3>4
  <2>4. QED BY <2>2, <2>3
<1>5. q \in [1 .. Len(lemmas) -> LemmaType] BY <1>2, <1>4 DEF SortedQueue
<1>6. q \in Seq(LemmaType) /\ Len(q) = Len(lemmas) BY <1>2, <1>5
<1>7. Queue(q, inputs, intro, al)
  <2> HIDE DEF q
  <2>1. ASSUME NEW k \in 1 .. Len(q)
        PROVE /\ \A l \in LemmaLits(q[k]) : intro[Var(l)] \in 0 .. al
              /\ Ent(inputs, 0, LemmaLits(q[k]))
              /\ ~q[k].sorted => q[k].w = <<>>
    BY <1>1, <1>4, <1>6
  <2>2. QED BY <1>6, <2>1 DEF Queue
<1>8. NewLemmas \subseteq 1 .. Len(lemmas) BY <1>2 DEF NewLemmas
<1>9. Live(q)
  <2> HIDE DEF q
  <2>1. QED BY <1>4, <1>6 DEF Live
<1>10. QED BY <1>4, <1>6, <1>7, <1>8, <1>9

(* An empty lemma refutes what is asserted, and everything is undone.        *)
LEMMA EmptyLemma ==
  ASSUME IInv, pc = "lemmas", NEW i \in NewLemmas, SortedQueue[i].w = <<>>
  PROVE Ent(inputs, assertionLevel, {}) /\ 0 \in Levels
<1>1. i \in 1 .. Len(lemmas) BY SortedQueueFacts
<1>2. /\ SortedQueue[i] \in LemmaType /\ InOrder(trail, lemmas[i].rest, SortedQueue[i])
      /\ lemmas[i].rest \subseteq Literals
  BY <1>1, SortedQueueFacts
<1>3. BacktrackLevel(SortedQueue[i].w) = 0 BY <1>2, BacktrackFacts
<1>4. SortedQueue[i].rest = {}
  <2>1. \A y, z : <<>> # <<y>> /\ <<>> # <<y, z>> OBVIOUS
  <2>2. QED BY <1>2, <2>1 DEF InOrder
<1>5. LemmaLits(SortedQueue[i]) = {} BY <1>2, <1>4, QueueFacts
<1>6. Ent(inputs, 0, {})
  <2>1. Queue(SortedQueue, inputs, intro, assertionLevel) /\ i \in 1 .. Len(SortedQueue)
    BY <1>1, SortedQueueFacts
  <2>2. Ent(inputs, 0, LemmaLits(SortedQueue[i])) BY <2>1 DEF Queue
  <2>3. QED BY <1>5, <2>2
<1>7. Ent(inputs, assertionLevel, {})
  <2>1. PICK z \in Int : z = 0 OBVIOUS
  <2>2. z <= assertionLevel /\ assertionLevel \in Int BY <2>1, Facts
  <2>3. PICK e : e = {} OBVIOUS
  <2>4. e \subseteq e /\ Ent(inputs, z, e) BY <1>6, <2>1, <2>3
  <2>5. Ent(inputs, assertionLevel, e) BY <2>2, <2>4, EntMono
  <2>6. QED BY <2>3, <2>5
<1>8. QED BY <1>3, <1>7 DEF Levels

(* Each is ready on the trail that is cut low enough.                        *)
LEMMA SortedQueueReady ==
  ASSUME IInv, pc = "lemmas", NEW d \in Nat, \A k \in Levels : d <= k, NEW t, Cut(t, d),
         NEW c, at.conflict # Undef => c # Undef,
         \A i \in NewLemmas : SortedQueue[i].w = <<>> => c # Undef
  PROVE ReadyQueue(SortedQueue, t, Len(t), c)
<1> DEFINE q == SortedQueue
<1>1. ASSUME NEW k \in 1 .. Len(q)
      PROVE Ready(q[k], t, Len(t)) /\ (q[k].w = <<>> => c # Undef)
  <2>1. k \in 1 .. Len(lemmas) BY SortedQueueFacts
  <2>2. CASE k \in NewLemmas
    <3>1. InOrder(trail, lemmas[k].rest, q[k]) /\ lemmas[k].rest \subseteq Literals
      BY <2>1, <2>2, SortedQueueFacts
    <3>2. BacktrackLevel(q[k].w) \in Levels BY <2>2 DEF Levels
    <3>3. d <= BacktrackLevel(q[k].w) BY <3>2
    <3>4. Ready(q[k], t, Len(t)) BY <3>1, <3>3, SortedReady
    <3>5. QED BY <2>2, <3>4
  <2>3. CASE k \notin NewLemmas
    <3>1. q[k] = lemmas[k] /\ lemmas[k].sorted /\ lemmas[k] \in LemmaType
      BY <2>1, <2>3, SortedQueueFacts
    <3>2. ReadyQueue(lemmas, trail, Len(trail), at.conflict)
      <4>1. Bound = Len(trail) BY DEF Bound
      <4>2. QED BY <4>1 DEF IInv
    <3>3. Ready(lemmas[k], trail, Len(trail)) /\ (lemmas[k].w = <<>> => at.conflict # Undef)
      BY <2>1, <3>1, <3>2 DEF ReadyQueue
    <3>4. lemmas[k].w \in Seq(AtomLits) /\ lemmas[k].rest \subseteq AtomLits
      BY <3>1, QueueFacts
    <3>5. Ready(lemmas[k], t, Len(t)) BY <3>3, <3>4, ReadyCut
    <3>6. QED BY <3>1, <3>3, <3>5
  <2>4. QED BY <2>2, <2>3
<1>2. QED BY <1>1 DEF ReadyQueue

(* There is nothing left to sort.                                            *)
LEMMA AllSorted ==
  ASSUME IInv, pc = "lemmas", NewLemmas = {}, pc' = "attach",
         at' = [at EXCEPT !.bound = Len(trail)],
         UNCHANGED <<trail, qhead, lemmas, intro, left, clauses, ok, answer, model, spent, Fixed>>
  PROVE IInv'
<1>1. UNCHANGED <<trail, qhead, lemmas, intro, left, clauses, ok, answer, spent,
                  assertionLevel, trailOk, inputs, cores>>
  BY DEF Fixed
<1>2. /\ at \in Locals /\ at.todo = {} /\ Len(trail) \in Nat /\ qhead \in 0 .. Len(trail)
      /\ \A i \in 1 .. Len(trail) : i > qhead => trail[i].level = DecisionLevel(trail)
  BY Facts
<1>3. /\ at' \in Locals /\ at'.caller = at.caller /\ at'.todo = {} /\ at'.bound = Len(trail)
      /\ at'.conflict = at.conflict
  <2>1. PICK n \in Nat : n = Len(trail) BY <1>2
  <2>2. at' = [at EXCEPT !.bound = n] BY <2>1
  <2>3. QED BY <1>2, <2>1, <2>2, NewBound
<1>4. Bound' = Len(trail) /\ Bound = Len(trail) BY <1>3 DEF Bound
<1>5. ReadyQueue(lemmas, trail, Bound, at.conflict)' BY <1>1, <1>3, <1>4 DEF IInv
<1>6. Base(inputs, intro, assertionLevel, left, cores, spent)' BY <1>1, SameBase DEF IInv
<1>7. /\ Assigned(trail, clauses, inputs, intro, assertionLevel)'
      /\ Db(clauses, inputs, intro, assertionLevel)'
      /\ Queue(lemmas, inputs, intro, assertionLevel)'
      /\ Verdicts(ok, trailOk, answer, inputs, assertionLevel)'
  BY <1>1 DEF IInv
<1>8. Protocol(pc, at, trail, qhead, lemmas)'
  <2>1. \A k \in 1 .. Len(lemmas) : lemmas[k].sorted BY <1>4, SortedQueueFacts
  <2>2. at'.bound <= Len(trail) BY <1>2, <1>3
  <2>3. at'.caller = "addClause" => DecisionLevel(trail) = 0 BY <1>3 DEF IInv, Protocol
  <2>4. Live(lemmas) BY Facts
  <2>5. QED BY <1>1, <1>3, <2>1, <2>2, <2>3, <2>4 DEF Protocol
<1>9. Pending(pc, at, trail, qhead, clauses)' BY <1>1, <1>2, <1>3, NoTodo
<1>10. Conflict(pc, at, trail, clauses, inputs, assertionLevel)'
  <2>1. Conflict(pc, at, trail, clauses, inputs, assertionLevel) BY DEF IInv
  <2>2. QED BY <1>1, <1>3, <2>1 DEF Conflict
<1>11. Resolvent(pc, at, trail, inputs, intro, assertionLevel)' BY NoResolvent
<1>12. QED BY <1>5, <1>6, <1>7, <1>8, <1>9, <1>10, <1>11 DEF IInv

(* The lemmas are sorted and the trail is cut.                               *)
LEMMA SortedAndCut ==
  ASSUME IInv, pc = "lemmas", NEW d \in Nat, \A k \in Levels : d <= k,
         trail' = CancelUntil(trail, d),
         qhead' = IF Len(trail') < Len(trail) THEN Len(trail') ELSE qhead,
         IF Len(trail') < Len(trail) THEN Registration(SortedQueue, trail', left)
                                     ELSE lemmas' = SortedQueue /\ UNCHANGED <<intro, left>>,
         at' = IF \E i \in NewLemmas : SortedQueue[i].w = <<>>
                 THEN [at EXCEPT !.conflict = Lazy] ELSE at,
         UNCHANGED <<pc, clauses, ok, answer, model, spent, Fixed>>
  PROVE IInv'
<1> DEFINE al == assertionLevel
           q == SortedQueue
           t == CancelUntil(trail, d)
           empty == \E i \in NewLemmas : q[i].w = <<>>
<1>1. UNCHANGED <<pc, clauses, ok, answer, spent, assertionLevel, trailOk, inputs, cores>>
  BY DEF Fixed
<1>2. Cut(t, d) BY CancelIsCut
<1>3. trail' = t OBVIOUS
<1>4. /\ al \in Nat /\ at \in Locals /\ at.todo = {} /\ Shape(trail, al)
      /\ qhead \in 0 .. Len(trail) /\ Len(trail) \in Nat
      /\ \A i \in 1 .. Len(trail) : i > qhead => trail[i].level = DecisionLevel(trail)
  BY Facts
<1>5. at' = IF empty THEN [at EXCEPT !.conflict = Lazy] ELSE at OBVIOUS
<1> HIDE DEF t
<1>6. /\ Shape(t, al) /\ Begins(t, trail) /\ Len(t) \in 1 .. Len(trail)
      /\ DecisionLevel(t) \in Nat /\ DecisionLevel(t) <= d
      /\ \A i \in 1 .. Len(t) : t[i] = trail[i]
      /\ Len(t) = Len(trail) => t = trail
  BY <1>2 DEF Cut
<1>7. /\ at' \in Locals /\ at'.caller = at.caller /\ at'.todo = {}
      /\ at'.conflict = IF empty THEN Lazy ELSE at.conflict
  <2>1. CASE empty
    <3>1. PICK z \in Int : z = Lazy BY DEF Lazy
    <3>2. at' = [at EXCEPT !.conflict = z] BY <1>5, <2>1, <3>1
    <3>3. at' \in Locals /\ at'.caller = at.caller /\ at'.todo = at.todo /\ at'.conflict = z
      <4>1. at \in Locals BY <1>4
      <4>2. QED BY <3>2, <4>1 DEF Locals
    <3>4. QED BY <1>4, <2>1, <3>1, <3>3
  <2>2. CASE ~empty
    <3>1. at' = at BY <1>5, <2>2
    <3>2. QED BY <1>4, <2>2, <3>1
  <2>3. QED BY <2>1, <2>2
<1>8. Conflict(pc, at, trail, clauses, inputs, al) BY DEF IInv
<1>9. at.conflict \in {Undef, Lazy} BY <1>8 DEF Conflict
<1>10. Lazy # Undef BY DEF Lazy, Undef
<1>11. Queue(q, inputs, intro, al) /\ Live(q) BY SortedQueueFacts
<1>12. ReadyQueue(q, t, Len(t), at'.conflict)
  <2>1. at.conflict # Undef => at'.conflict # Undef BY <1>7, <1>9, <1>10
  <2>2. \A i \in NewLemmas : SortedQueue[i].w = <<>> => at'.conflict # Undef BY <1>7, <1>10
  <2>3. PICK c : c = at'.conflict OBVIOUS
  <2>4. ReadyQueue(q, t, Len(t), c) BY <1>2, <2>1, <2>2, <2>3, SortedQueueReady
  <2>5. QED BY <2>3, <2>4
<1>13. Vars(intro, al) /\ left \in Setting BY DEF IInv, Base
<1>14. Assigned(trail, clauses, inputs, intro, al) BY DEF IInv
<1>15. /\ Queue(lemmas', inputs, intro', al)
       /\ ReadyQueue(lemmas', t, Len(t), at'.conflict)
       /\ Vars(intro', al) /\ Grown(intro, intro') /\ left' \in Setting /\ Live(lemmas')
  <2>1. CASE Len(t) < Len(trail)
    <3>1. Registration(SortedQueue, t, left) BY <1>3, <2>1
    <3>2. Valued(trail, inputs) BY <1>14 DEF Assigned
    <3>3. Valued(t, inputs) BY <1>4, <1>6, <3>2, ValuedCut
    <3>4. PICK c : c = at'.conflict OBVIOUS
    <3>5. ReadyQueue(SortedQueue, t, Len(t), c) BY <1>12, <3>4
    <3>6. PICK n : n = Len(t) OBVIOUS
    <3>7. ReadyQueue(SortedQueue, t, n, c) BY <3>5, <3>6
    <3>8. /\ Queue(lemmas', inputs, intro', assertionLevel) /\ ReadyQueue(lemmas', t, n, c)
          /\ Vars(intro', assertionLevel) /\ Grown(intro, intro') /\ left' \in Setting
          /\ Live(lemmas')
      BY <1>6, <1>11, <1>13, <3>1, <3>3, <3>7, RegistrationFacts
    <3>9. QED BY <3>4, <3>6, <3>8
  <2>2. CASE ~(Len(t) < Len(trail))
    <3>1. lemmas' = SortedQueue /\ UNCHANGED <<intro, left>> BY <1>3, <2>2
    <3>2. QED BY <1>11, <1>12, <1>13, <3>1, GrownSame
  <2>3. QED BY <2>1, <2>2
<1>16. Base(inputs, intro, assertionLevel, left, cores, spent)'
  <2>1. Base(inputs, intro, assertionLevel, left, cores, spent) BY DEF IInv
  <2>2. spent' \in BOOLEAN BY <1>1, <2>1 DEF Base
  <2>3. QED BY <1>1, <1>15, <2>1, <2>2, NewBase
<1>17. Assigned(t, clauses, inputs, intro', al) BY <1>6, <1>14, <1>15, AssignedCut
<1>18. Db(clauses, inputs, intro', al)
  <2>1. Db(clauses, inputs, intro, al) BY DEF IInv
  <2>2. \A k \in 1 .. al + 1 : inputs[k] \subseteq inputs[k] OBVIOUS
  <2>3. QED BY <1>4, <1>15, <2>1, <2>2, DbMore
<1>19. Bound' = Len(t) BY <1>1, <1>3 DEF Bound
<1>20. /\ Assigned(trail, clauses, inputs, intro, assertionLevel)'
       /\ Db(clauses, inputs, intro, assertionLevel)'
       /\ Queue(lemmas, inputs, intro, assertionLevel)'
       /\ ReadyQueue(lemmas, trail, Bound, at.conflict)'
       /\ Verdicts(ok, trailOk, answer, inputs, assertionLevel)'
  BY <1>1, <1>3, <1>15, <1>17, <1>18, <1>19 DEF IInv
<1>21. Protocol(pc, at, trail, qhead, lemmas)'
  <2>1. at.caller = "addClause" => DecisionLevel(trail) = 0 BY DEF IInv, Protocol
  <2>2. DecisionLevel(t) <= DecisionLevel(trail) BY <1>2, LowerCut
  <2>3. DecisionLevel(trail) \in Nat BY Facts
  <2>4. at.caller = "addClause" => DecisionLevel(t) = 0 BY <1>6, <2>1, <2>2, <2>3
  <2>5. QED BY <1>1, <1>3, <1>7, <1>15, <2>4 DEF Protocol
<1>22. Pending(pc, at, trail, qhead, clauses)'
  <2>1. qhead' \in 0 .. Len(t) /\ (Len(t) < Len(trail) => qhead' = Len(t))
        /\ (~(Len(t) < Len(trail)) => qhead' = qhead /\ t = trail)
    BY <1>3, <1>4, <1>6
  <2>2. \A i \in 1 .. Len(t) : i > qhead' => t[i].level = DecisionLevel(t)
    <3>1. CASE Len(t) < Len(trail) BY <1>6, <2>1, <3>1
    <3>2. CASE ~(Len(t) < Len(trail)) BY <1>4, <2>1, <3>2
    <3>3. QED BY <3>1, <3>2
  <2>3. QED BY <1>3, <1>7, <2>1, <2>2, NoTodo
<1>23. Conflict(pc, at, trail, clauses, inputs, assertionLevel)'
  <2>1. CASE at'.conflict = Undef BY <2>1, NoConflict
  <2>2. CASE at'.conflict = Lazy
    <3>1. DecisionLevel(t) = 0 /\ Ent(inputs, al, {})
      <4>1. CASE empty
        <5>1. Ent(inputs, al, {}) /\ 0 \in Levels BY <4>1, EmptyLemma
        <5>2. d <= 0 BY <5>1
        <5>3. QED BY <1>6, <5>1, <5>2
      <4>2. CASE ~empty
        <5>1. at.conflict = Lazy BY <1>7, <2>2, <4>2
        <5>2. DecisionLevel(trail) = 0 /\ Ent(inputs, al, {}) BY <1>8, <5>1 DEF Conflict
        <5>3. DecisionLevel(t) <= DecisionLevel(trail) BY <1>2, LowerCut
        <5>4. QED BY <1>6, <5>2, <5>3
      <4>3. QED BY <4>1, <4>2
    <3>2. QED BY <1>1, <1>3, <2>2, <3>1 DEF Conflict, Lazy, Undef
  <2>3. QED BY <1>7, <1>9, <2>1, <2>2
<1>24. pc' # "analyze" BY <1>1
<1>25. Resolvent(pc, at, trail, inputs, intro, assertionLevel)' BY <1>24, NoResolvent
<1>26. QED BY <1>16, <1>20, <1>21, <1>22, <1>23, <1>25 DEF IInv

(* The first half of updateLemmas.                                           *)
LEMMA SortLemmasStep ==
  ASSUME IInv, SortLemmas
  PROVE IInv'
<1>1. pc = "lemmas" /\ UNCHANGED <<clauses, ok, answer, model, spent, Fixed>> BY DEF SortLemmas
<1>2. \/ /\ NewLemmas = {} /\ pc' = "attach" /\ at' = [at EXCEPT !.bound = Len(trail)]
         /\ UNCHANGED <<trail, qhead, lemmas, intro, left>>
      \/ \E d \in Levels :
           /\ \A k \in Levels : d <= k
           /\ trail' = CancelUntil(trail, d)
           /\ qhead' = IF Len(trail') < Len(trail) THEN Len(trail') ELSE qhead
           /\ IF Len(trail') < Len(trail)
                THEN Registration(SortedQueue, trail', left)
                ELSE lemmas' = SortedQueue /\ UNCHANGED <<intro, left>>
           /\ at' = IF \E i \in NewLemmas : SortedQueue[i].w = <<>>
                      THEN [at EXCEPT !.conflict = Lazy] ELSE at
           /\ UNCHANGED pc
  BY DEF SortLemmas, NewLemmas, SortedQueue, Levels, SortOf
<1>3. CASE /\ NewLemmas = {} /\ pc' = "attach" /\ at' = [at EXCEPT !.bound = Len(trail)]
           /\ UNCHANGED <<trail, qhead, lemmas, intro, left>>
  BY <1>1, <1>3, AllSorted
<1>4. ASSUME NEW d \in Levels, \A k \in Levels : d <= k,
             trail' = CancelUntil(trail, d),
             qhead' = IF Len(trail') < Len(trail) THEN Len(trail') ELSE qhead,
             IF Len(trail') < Len(trail) THEN Registration(SortedQueue, trail', left)
                                         ELSE lemmas' = SortedQueue /\ UNCHANGED <<intro, left>>,
             at' = IF \E i \in NewLemmas : SortedQueue[i].w = <<>>
                     THEN [at EXCEPT !.conflict = Lazy] ELSE at,
             UNCHANGED pc
      PROVE IInv'
  <2>1. d \in Nat
    <3>1. CASE d = DecisionLevel(trail) BY <3>1, Facts
    <3>2. CASE d # DecisionLevel(trail)
      <4>1. PICK i \in NewLemmas : d = BacktrackLevel(SortedQueue[i].w) BY <3>2 DEF Levels
      <4>2. i \in 1 .. Len(lemmas) BY <1>1, SortedQueueFacts
      <4>3. InOrder(trail, lemmas[i].rest, SortedQueue[i]) /\ lemmas[i].rest \subseteq Literals
        BY <1>1, <4>2, SortedQueueFacts
      <4>4. QED BY <4>1, <4>3, BacktrackFacts
    <3>3. QED BY <3>1, <3>2
  <2>2. QED BY <1>1, <1>4, <2>1, SortedAndCut
<1>5. QED BY <1>2, <1>3, <1>4

-----------------------------------------------------------------------------
(* The second half of updateLemmas.                                          *)

(* A lemma that is ready stays so when its neighbours are enqueued, as what  *)
(* they make false is beyond the bound.                                      *)
LEMMA ReadyExtends ==
  ASSUME NEW t, NEW u, NEW al \in Nat, Shape(t, al), Shape(u, al), Extends(t, u), NEW x,
         x.w \in Seq(AtomLits), x.rest \subseteq AtomLits, NEW b \in Nat, b <= Len(t),
         Ready(x, t, b)
  PROVE Ready(x, u, b)
<1>1. Begins(t, u) /\ DecisionLevel(u) = DecisionLevel(t) /\ Len(t) \in Nat /\ Len(u) \in Nat
  BY DEF Extends, Begins, Shape
<1>2. Len(x.w) <= 2 /\ (Len(x.w) < 2 => x.rest = {}) BY DEF Ready
<1>3. ASSUME Len(x.w) = 1
      PROVE DecisionLevel(u) = 0 \/ (IsTrue(u, x.w[1]) /\ LevelOf(u, x.w[1]) = 0)
  <2>1. DecisionLevel(t) = 0 \/ (IsTrue(t, x.w[1]) /\ LevelOf(t, x.w[1]) = 0)
    BY <1>3 DEF Ready
  <2>2. x.w[1] \in Literals BY <1>3, LiteralsAre
  <2>3. CASE DecisionLevel(t) = 0 BY <1>1, <2>3
  <2>4. CASE IsTrue(t, x.w[1]) /\ LevelOf(t, x.w[1]) = 0 BY <1>1, <2>2, <2>4, BeginsValues
  <2>5. QED BY <2>1, <2>3, <2>4
<1>4. ASSUME Len(x.w) = 2, IsFalse(u, x.w[2]), At(u, x.w[2]) <= b
      PROVE /\ \A l \in x.rest : Before(u, l, At(u, x.w[2]))
            /\ IsFalse(u, x.w[1]) => LevelOf(u, x.w[1]) = DecisionLevel(u)
  <2>1. x.w[1] \in Literals /\ x.w[2] \in Literals BY <1>4, LiteralsAre
  <2>2. At(u, x.w[2]) \in 1 .. Len(u) BY <1>4, <2>1, AtFalse
  <2>3. IsFalse(t, x.w[2]) BY <1>1, <1>4, <2>1, <2>2, BeginsValues
  <2>4. At(t, x.w[2]) = At(u, x.w[2]) BY <1>1, <2>1, <2>3, BeginsValues
  <2>5. /\ \A l \in x.rest : Before(t, l, At(t, x.w[2]))
        /\ IsFalse(t, x.w[1]) => LevelOf(t, x.w[1]) = DecisionLevel(t)
    BY <1>4, <2>3, <2>4 DEF Ready
  <2>6. ASSUME NEW l \in x.rest PROVE Before(u, l, At(u, x.w[2]))
    <3>1. l \in Literals /\ At(u, x.w[2]) \in Int BY <2>2, LiteralsAre
    <3>2. Before(t, l, At(u, x.w[2])) BY <2>4, <2>5
    <3>3. QED BY <1>1, <3>1, <3>2, BeginsValues
  <2>7. ASSUME IsFalse(u, x.w[1]) PROVE LevelOf(u, x.w[1]) = DecisionLevel(u)
    <3>1. At(u, x.w[1]) \in 1 .. Len(u) BY <2>1, <2>7, AtFalse
    <3>2. CASE At(u, x.w[1]) <= Len(t)
      <4>1. IsFalse(t, x.w[1]) BY <1>1, <2>1, <2>7, <3>2, BeginsValues
      <4>2. LevelOf(u, x.w[1]) = LevelOf(t, x.w[1]) BY <1>1, <2>1, <4>1, BeginsValues
      <4>3. QED BY <1>1, <2>5, <4>1, <4>2
    <3>3. CASE ~(At(u, x.w[1]) <= Len(t)) BY <1>1, <3>1, <3>3 DEF Extends, LevelOf
    <3>4. QED BY <3>2, <3>3
  <2>8. QED BY <2>6, <2>7
<1>5. QED BY <1>2, <1>3, <1>4 DEF Ready

(* The next lemma to attach.                                                 *)
LEMMA HeadFacts ==
  ASSUME IInv, pc = "attach", lemmas # <<>>
  PROVE LET L == Head(lemmas)
        IN  /\ L \in LemmaType /\ Ready(L, trail, at.bound) /\ L.removable \in BOOLEAN
            /\ L.w = <<>> => at.conflict # Undef
            /\ \A l \in LemmaLits(L) : intro[Var(l)] \in 0 .. assertionLevel
            /\ Ent(inputs, 0, LemmaLits(L))
<1>1. Queue(lemmas, inputs, intro, assertionLevel) BY DEF IInv
<1>2. lemmas \in Seq(LemmaType) BY <1>1 DEF Queue
<1>3. Head(lemmas) = lemmas[1] /\ 1 \in 1 .. Len(lemmas) BY <1>2
<1>4. lemmas[1].sorted BY <1>3 DEF IInv, Protocol
<1>5. Bound = at.bound BY DEF Bound
<1>6. ReadyQueue(lemmas, trail, at.bound, at.conflict) BY <1>5 DEF IInv
<1>7. Ready(lemmas[1], trail, at.bound) /\ (lemmas[1].w = <<>> => at.conflict # Undef)
  BY <1>3, <1>4, <1>6 DEF ReadyQueue
<1>8. lemmas[1] \in LemmaType BY <1>2, <1>3
<1>9. lemmas[1].removable \in BOOLEAN BY <1>8, QueueFacts
<1>10. /\ \A l \in LemmaLits(lemmas[1]) : intro[Var(l)] \in 0 .. assertionLevel
       /\ Ent(inputs, 0, LemmaLits(lemmas[1]))
  BY <1>1, <1>3, Facts DEF Queue, Live
<1>11. QED BY <1>3, <1>7, <1>8, <1>9, <1>10

(* Those after it.                                                           *)
LEMMA TailFacts ==
  ASSUME IInv, pc = "attach", lemmas # <<>>, NEW u, Shape(u, assertionLevel),
         Extends(trail, u), NEW c, at.conflict # Undef => c # Undef
  PROVE LET q == Tail(lemmas)
        IN  /\ Queue(q, inputs, intro, assertionLevel) /\ ReadyQueue(q, u, at.bound, c)
            /\ \A k \in 1 .. Len(q) : q[k].sorted
            /\ Live(q)
<1> DEFINE q == Tail(lemmas)
           al == assertionLevel
<1>1. Queue(lemmas, inputs, intro, al) BY DEF IInv
<1>2. lemmas \in Seq(LemmaType) BY <1>1 DEF Queue
<1>3. /\ q \in Seq(LemmaType) /\ Len(q) \in Nat
      /\ \A k \in 1 .. Len(q) : q[k] = lemmas[k + 1] /\ k + 1 \in 1 .. Len(lemmas)
  BY <1>2
<1> HIDE DEF q
<1>4. \A k \in 1 .. Len(lemmas) : lemmas[k].sorted BY DEF IInv, Protocol
<1>5. at.bound \in Nat /\ at.bound <= Len(trail)
  <2>1. at.bound <= Len(trail) BY DEF IInv, Protocol
  <2>2. QED BY <2>1, Facts, LocalsFacts
<1>6. Bound = at.bound BY DEF Bound
<1>7. ReadyQueue(lemmas, trail, at.bound, at.conflict) BY <1>6 DEF IInv
<1>8. Shape(trail, al) /\ al \in Nat BY Facts
<1>9. ASSUME NEW k \in 1 .. Len(q)
      PROVE Ready(q[k], u, at.bound) /\ (q[k].w = <<>> => c # Undef)
  <2>1. q[k].sorted /\ q[k] \in LemmaType BY <1>3, <1>4
  <2>2. Ready(q[k], trail, at.bound) /\ (q[k].w = <<>> => at.conflict # Undef)
    BY <1>3, <1>7, <2>1 DEF ReadyQueue
  <2>3. q[k].w \in Seq(AtomLits) /\ q[k].rest \subseteq AtomLits BY <2>1, QueueFacts
  <2>4. Ready(q[k], u, at.bound) BY <1>5, <1>8, <2>2, <2>3, ReadyExtends
  <2>5. QED BY <2>2, <2>4
<1>10. ReadyQueue(q, u, at.bound, c) BY <1>9 DEF ReadyQueue
<1>11. Queue(q, inputs, intro, al) BY <1>1, <1>3 DEF Queue
<1>12. \A k \in 1 .. Len(q) : q[k].sorted BY <1>3, <1>4
<1>13. Live(q) BY <1>3, Facts DEF Live
<1>14. QED BY <1>10, <1>11, <1>12, <1>13 DEF q

(* A lemma is attached, and perhaps enqueued, or found false.                *)
LEMMA AttachEnd ==
  ASSUME IInv, pc = "attach", lemmas # <<>>, lemmas' = Tail(lemmas),
         UNCHANGED <<qhead, pc, Inside>>,
         Db(clauses', inputs, intro, assertionLevel),
         Assigned(trail', clauses', inputs, intro, assertionLevel), Extends(trail, trail'),
         at' \in Locals, at'.caller = at.caller, at'.todo = {}, at'.bound = at.bound,
         at.conflict # Undef => at'.conflict # Undef,
         Conflict(pc, at', trail', clauses', inputs, assertionLevel)
  PROVE IInv'
<1> DEFINE al == assertionLevel
<1>1. UNCHANGED <<qhead, pc, assertionLevel, trailOk, inputs, cores, intro, ok, answer,
                  model, left, spent>>
  BY DEF Inside, Fixed
<1>2. /\ Shape(trail', al) /\ Len(trail) \in Nat /\ qhead \in 0 .. Len(trail)
      /\ \A i \in 1 .. Len(trail) : i > qhead => trail[i].level = DecisionLevel(trail)
  BY Facts DEF Assigned
<1>3. /\ Len(trail') \in Nat /\ Len(trail) <= Len(trail')
      /\ DecisionLevel(trail') = DecisionLevel(trail)
      /\ \A i \in 1 .. Len(trail') : IF i <= Len(trail) THEN trail'[i] = trail[i]
                                     ELSE trail'[i].level = DecisionLevel(trail)
  BY DEF Extends
<1>4. PICK c : c = at'.conflict OBVIOUS
<1>5. PICK u : u = trail' OBVIOUS
<1>6. LET q == Tail(lemmas)
      IN  /\ Queue(q, inputs, intro, assertionLevel) /\ ReadyQueue(q, u, at.bound, c)
          /\ \A k \in 1 .. Len(q) : q[k].sorted
          /\ Live(q)
  <2>1. Shape(u, al) /\ Extends(trail, u) /\ (at.conflict # Undef => c # Undef)
    BY <1>2, <1>4, <1>5
  <2>2. QED BY <2>1, TailFacts
<1>7. Bound' = at.bound BY <1>1 DEF Bound
<1>8. /\ Queue(lemmas, inputs, intro, assertionLevel)'
      /\ ReadyQueue(lemmas, trail, Bound, at.conflict)'
  BY <1>1, <1>4, <1>5, <1>6, <1>7
<1>9. Base(inputs, intro, assertionLevel, left, cores, spent)' BY <1>1, SameBase DEF IInv
<1>10. /\ Assigned(trail, clauses, inputs, intro, assertionLevel)'
       /\ Db(clauses, inputs, intro, assertionLevel)'
       /\ Verdicts(ok, trailOk, answer, inputs, assertionLevel)'
       /\ Conflict(pc, at, trail, clauses, inputs, assertionLevel)'
  BY <1>1 DEF IInv
<1>11. Protocol(pc, at, trail, qhead, lemmas)'
  <2>1. at.caller = "addClause" => DecisionLevel(trail) = 0 BY DEF IInv, Protocol
  <2>2. at.bound <= Len(trail) BY DEF IInv, Protocol
  <2>3. at.bound \in Nat BY Facts, LocalsFacts
  <2>4. at'.bound <= Len(trail') BY <1>2, <1>3, <2>2, <2>3
  <2>5. \A k \in 1 .. Len(lemmas') : lemmas'[k].sorted BY <1>6
  <2>6. QED BY <1>1, <1>3, <1>6, <2>1, <2>4, <2>5 DEF Protocol
<1>12. Pending(pc, at, trail, qhead, clauses)'
  <2>1. qhead' \in 0 .. Len(trail') BY <1>1, <1>2, <1>3
  <2>2. ASSUME NEW i \in 1 .. Len(trail'), i > qhead'
        PROVE trail'[i].level = DecisionLevel(trail')
    <3>1. CASE i <= Len(trail)
      <4>1. i \in 1 .. Len(trail) /\ i > qhead BY <1>1, <2>2, <3>1
      <4>2. trail[i].level = DecisionLevel(trail) BY <1>2, <4>1
      <4>3. QED BY <1>3, <3>1, <4>2
    <3>2. CASE ~(i <= Len(trail)) BY <1>3, <3>2
    <3>3. QED BY <3>1, <3>2
  <2>3. QED BY <2>1, <2>2, NoTodo
<1>13. pc' # "analyze" BY <1>1
<1>14. Resolvent(pc, at, trail, inputs, intro, assertionLevel)' BY <1>13, NoResolvent
<1>15. QED BY <1>8, <1>9, <1>10, <1>11, <1>12, <1>14 DEF IInv

(* The clause that a lemma with two watches becomes.                         *)
LEMMA LemmaClause ==
  ASSUME IInv, pc = "attach", lemmas # <<>>, NEW L, L = Head(lemmas), Len(L.w) = 2
  PROVE LET d == Clause(L, ClauseLevel(intro, LemmaLits(L), L.removable), L.removable)
        IN  /\ Sound(d, inputs, intro, assertionLevel)
            /\ d.w = L.w /\ Lits(d) = LemmaLits(L)
<1> DEFINE al == assertionLevel
           S == LemmaLits(L)
<1>1. /\ L \in LemmaType /\ L.removable \in BOOLEAN
      /\ \A l \in S : intro[Var(l)] \in 0 .. al
      /\ Ent(inputs, 0, S)
  BY HeadFacts
<1>2. L.w \in Seq(AtomLits) /\ L.rest \subseteq AtomLits BY <1>1, QueueFacts
<1>3. AtomLits \subseteq ClauseLits BY DEF ClauseLits
<1>4. Long(L)
  <2>1. L.w \in Seq(ClauseLits) BY <1>2, <1>3
  <2>2. L.rest \subseteq ClauseLits BY <1>2, <1>3
  <2>3. QED BY <2>1, <2>2 DEF Long
<1>5. Lits(L) = S
  <2>1. DOMAIN L.w = {1, 2} BY <1>2
  <2>2. {L.w[i] : i \in DOMAIN L.w} = {L.w[1], L.w[2]} BY <2>1
  <2>3. QED BY <2>2 DEF Lits, LemmaLits
<1> HIDE DEF S
<1>6. Existing(intro, S) BY <1>1 DEF Existing
<1>7. \A removable \in BOOLEAN : Backed(inputs, S, removable) BY <1>1 DEF Backed
<1>8. cores \in BOOLEAN /\ al \in Nat BY Facts
<1>9. LET d == Clause(L, ClauseLevel(intro, S, L.removable), L.removable)
      IN  /\ Sound(d, inputs, intro, assertionLevel)
          /\ d.w = L.w /\ d.rest = L.rest /\ Lits(d) = S
  <2>1. PICK b \in BOOLEAN : b = L.removable BY <1>1
  <2>2. Backed(inputs, S, b) BY <1>7
  <2>3. LET d == Clause(L, ClauseLevel(intro, S, b), b)
        IN  /\ Sound(d, inputs, intro, assertionLevel)
            /\ d.w = L.w /\ d.rest = L.rest /\ Lits(d) = S
    BY <1>4, <1>5, <1>6, <1>8, <2>2, NewClause
  <2>4. QED BY <2>1, <2>3
<1>10. QED BY <1>9 DEF S

(* The arena has what it had.                                                *)
More == \A r \in DOMAIN clauses : r \in DOMAIN clauses' /\ clauses'[r] = clauses[r]

(* What attaching a lemma does to the arena.                                 *)
Attached(L, ref) ==
  /\ ref >= 0
  /\ ref > 0 => /\ ref \in DOMAIN clauses' /\ clauses'[ref].w[1] = L.w[1]
                /\ Lits(clauses'[ref]) = LemmaLits(L)

(* A lemma with two watches becomes a clause, another one does not.          *)
LEMMA LemmaAttached ==
  ASSUME IInv, pc = "attach", lemmas # <<>>, NEW L, L = Head(lemmas),
         clauses' = IF Len(L.w) > 1
                      THEN Attach(clauses, Clause(L, ClauseLevel(intro, LemmaLits(L),
                                                                 L.removable), L.removable))
                      ELSE clauses,
         NEW ref, ref = IF Len(L.w) > 1 THEN FreshRef(clauses) ELSE Undef
  PROVE /\ Db(clauses', inputs, intro, assertionLevel) /\ More
        /\ Attached(L, ref) /\ ref \in Int /\ (ref > 0 <=> Len(L.w) = 2)
<1> DEFINE c == Clause(L, ClauseLevel(intro, LemmaLits(L), L.removable), L.removable)
<1>1. L \in LemmaType /\ Ready(L, trail, at.bound) BY HeadFacts
<1>2. Len(L.w) \in Nat /\ Len(L.w) <= 2 BY <1>1, QueueFacts DEF Ready
<1>3. Db(clauses, inputs, intro, assertionLevel) BY DEF IInv
<1>4. CASE Len(L.w) > 1
  <2>1. Len(L.w) = 2
    <3>1. PICK n \in Nat : n = Len(L.w) BY <1>2
    <3>2. n <= 2 /\ n > 1 BY <1>2, <1>4, <3>1
    <3>3. n = 2 BY <3>2
    <3>4. QED BY <3>1, <3>3
  <2>2. Sound(c, inputs, intro, assertionLevel) /\ c.w = L.w /\ Lits(c) = LemmaLits(L)
    BY <2>1, LemmaClause
  <2>3. clauses' = Attach(clauses, c) /\ ref = FreshRef(clauses) BY <1>4
  <2> HIDE DEF c
  <2>4. Db(Attach(clauses, c), inputs, intro, assertionLevel) BY <1>3, <2>2, DbAttach
  <2>5. LET e == Attach(clauses, c)
            f == FreshRef(clauses)
        IN  /\ DOMAIN e = DOMAIN clauses \cup {f} /\ e[f] = c /\ f \notin DOMAIN clauses
            /\ f \in Nat /\ f > 0
            /\ \A r \in DOMAIN clauses : r \in DOMAIN e /\ e[r] = clauses[r]
    BY Facts, AttachFacts
  <2>6. More BY <2>3, <2>5 DEF More
  <2>7. ref \in DOMAIN clauses' /\ clauses'[ref] = c /\ ref \in Nat /\ ref > 0
    BY <2>3, <2>5
  <2>8. Attached(L, ref) BY <2>2, <2>7 DEF Attached
  <2>9. Db(clauses', inputs, intro, assertionLevel) BY <2>3, <2>4
  <2>10. QED BY <2>1, <2>6, <2>7, <2>8, <2>9
<1>5. CASE ~(Len(L.w) > 1)
  <2>1. clauses' = clauses /\ ref = 0 BY <1>5 DEF Undef
  <2>2. More /\ Attached(L, ref) BY <2>1 DEF More, Attached
  <2>3. QED BY <1>2, <1>3, <1>5, <2>1, <2>2
<1>6. QED BY <1>4, <1>5

(* The trail is as good with more clauses.                                   *)
LEMMA MoreKeeps ==
  ASSUME IInv, More
  PROVE /\ KeepsReasons(trail, clauses, clauses')
        /\ Assigned(trail, clauses', inputs, intro, assertionLevel)
<1>1. Reasons(trail, clauses) BY DEF IInv, Assigned
<1>2. KeepsReasons(trail, clauses, clauses') BY <1>1, KeepsReasonsMore DEF More
<1>3. QED BY <1>2, AssignedRewatched

(* When nothing stands against it, the first literal of a lemma is the only  *)
(* one that may hold, and it holds at the bottom if it is alone.             *)
Propagating(L) ==
  Len(L.w) = 2 => IsFalse(trail, L.w[2]) /\ At(trail, L.w[2]) <= at.bound

(* Then it may be enqueued if it is free, and is a conflict of the current   *)
(* decision level if it is false.                                            *)
LEMMA PropagatingFacts ==
  ASSUME IInv, pc = "attach", lemmas # <<>>, NEW L, L = Head(lemmas),
         at.conflict = Undef, ~IsTrue(trail, L.w[1]), Propagating(L)
  PROVE /\ L.w[1] \in AtomLits /\ intro[Var(L.w[1])] \in 0 .. assertionLevel
        /\ L.w[1] \in LemmaLits(L)
        /\ \A k \in LemmaLits(L) \ {L.w[1]} : IsFalse(trail, k)
        /\ Justified(DecisionLevel(trail), inputs, L.w[1])
        /\ Len(L.w) # 2 => DecisionLevel(trail) = 0
        /\ Len(L.w) = 2 /\ IsFalse(trail, L.w[1]) =>
             LevelOf(trail, L.w[1]) = DecisionLevel(trail)
        /\ DecisionLevel(trail) = 0 /\ IsFalse(trail, L.w[1]) => Ent(inputs, assertionLevel, {})
<1> DEFINE al == assertionLevel
           S == LemmaLits(L)
<1>1. /\ L \in LemmaType /\ Ready(L, trail, at.bound) /\ L.w # <<>>
      /\ \A l \in S : intro[Var(l)] \in 0 .. al
      /\ Ent(inputs, 0, S)
  BY HeadFacts
<1>2. /\ L.w \in Seq(AtomLits) /\ L.rest \subseteq AtomLits /\ S \subseteq AtomLits
      /\ Len(L.w) \in Nat /\ DOMAIN L.w = 1 .. Len(L.w)
  BY <1>1, QueueFacts
<1>3. Len(L.w) \in {1, 2}
  <2>1. Len(L.w) <= 2 BY <1>1 DEF Ready
  <2>2. Len(L.w) # 0
    <3>1. PICK w \in Seq(AtomLits) : w = L.w BY <1>2
    <3>2. w # <<>> BY <1>1, <3>1
    <3>3. Len(w) # 0 BY <3>2
    <3>4. QED BY <3>1, <3>3
  <2>3. PICK n \in Nat : n = Len(L.w) BY <1>2
  <2>4. n <= 2 /\ n # 0 BY <2>1, <2>2, <2>3
  <2>5. n = 1 \/ n = 2 BY <2>4
  <2>6. QED BY <2>3, <2>5
<1>4. L.w[1] \in AtomLits /\ L.w[1] \in S BY <1>2, <1>3 DEF LemmaLits
<1>5. Shape(trail, al) /\ al \in Nat /\ DecisionLevel(trail) \in Nat BY Facts
<1>6. ASSUME NEW k \in S \ {L.w[1]} PROVE IsFalse(trail, k)
  <2>1. CASE Len(L.w) = 2
    <3>1. IsFalse(trail, L.w[2]) /\ At(trail, L.w[2]) <= at.bound BY <2>1 DEF Propagating
    <3>2. \A l \in L.rest : Before(trail, l, At(trail, L.w[2])) BY <1>1, <2>1, <3>1 DEF Ready
    <3>3. k \in L.rest \/ k = L.w[2] BY <1>2, <2>1 DEF LemmaLits
    <3>4. CASE k \in L.rest
      <4>1. k \in Literals /\ L.w[2] \in Literals BY <1>2, <2>1, <3>4, LiteralsAre
      <4>2. At(trail, L.w[2]) \in Int BY <1>5, <3>1, <4>1, AtFalse
      <4>3. QED BY <1>5, <3>2, <3>4, <4>1, <4>2, BeforeIs
    <3>5. QED BY <3>1, <3>3, <3>4
  <2>2. CASE Len(L.w) = 1
    <3>1. L.rest = {} BY <1>1, <2>2 DEF Ready
    <3>2. k = L.w[1] BY <1>2, <2>2, <3>1 DEF LemmaLits
    <3>3. QED BY <3>2
  <2>3. QED BY <1>3, <2>1, <2>2
<1>7. Len(L.w) # 2 => DecisionLevel(trail) = 0 BY <1>1, <1>3 DEF Ready
<1>8. Len(L.w) = 2 /\ IsFalse(trail, L.w[1]) => LevelOf(trail, L.w[1]) = DecisionLevel(trail)
  BY <1>1 DEF Ready, Propagating
<1>9. ASSUME NEW D, \A k \in S \ D : IsFalse(trail, k), DecisionLevel(trail) = 0
      PROVE Ent(inputs, al, D)
  <2>1. PICK z \in Int : z = 0 OBVIOUS
  <2>2. z <= al /\ Ent(inputs, z, S) BY <1>1, <1>5, <2>1
  <2>3. S \subseteq ClauseLits BY <1>2 DEF ClauseLits
  <2>4. Valued(trail, inputs) BY DEF IInv, Assigned
  <2> HIDE DEF S
  <2>5. QED BY <1>5, <1>9, <2>2, <2>3, <2>4, DropAtBottom
<1>10. Justified(DecisionLevel(trail), inputs, L.w[1])
  <2>1. DecisionLevel(trail) = 0 => Ent(inputs, al, {L.w[1]}) BY <1>6, <1>9
  <2>2. QED BY <2>1 DEF Justified
<1>11. ASSUME DecisionLevel(trail) = 0, IsFalse(trail, L.w[1]) PROVE Ent(inputs, al, {})
  <2>1. \A k \in S \ {} : IsFalse(trail, k) BY <1>6, <1>11
  <2>2. QED BY <1>9, <1>11, <2>1
<1>12. intro[Var(L.w[1])] \in 0 .. al BY <1>1, <1>4
<1> HIDE DEF S
<1>13. QED BY <1>4, <1>6, <1>7, <1>8, <1>10, <1>11, <1>12 DEF S

(* The second half of updateLemmas.                                          *)
LEMMA AttachLemmaStep ==
  ASSUME IInv, AttachLemma
  PROVE IInv'
<1> DEFINE al == assertionLevel
           dl == DecisionLevel(trail)
<1>1. /\ pc = "attach" /\ lemmas # <<>> /\ lemmas' = Tail(lemmas)
      /\ UNCHANGED <<qhead, pc, Inside>>
  BY DEF AttachLemma
<1>2. PICK L : L = Head(lemmas) OBVIOUS
<1>3. PICK ref : ref = IF Len(L.w) > 1 THEN FreshRef(clauses) ELSE Undef OBVIOUS
<1>4. clauses' = IF Len(L.w) > 1
                   THEN Attach(clauses, Clause(L, ClauseLevel(intro, LemmaLits(L),
                                                              L.removable), L.removable))
                   ELSE clauses
  BY <1>2 DEF AttachLemma, LemmaLits
<1>5. /\ Db(clauses', inputs, intro, assertionLevel) /\ More
      /\ Attached(L, ref) /\ ref \in Int /\ (ref > 0 <=> Len(L.w) = 2)
  BY <1>1, <1>2, <1>3, <1>4, LemmaAttached
<1>6. Len(L.w) > 1 <=> Len(L.w) = 2
  <2>1. L \in LemmaType /\ Ready(L, trail, at.bound) BY <1>1, <1>2, HeadFacts
  <2>2. Len(L.w) \in Nat /\ Len(L.w) <= 2 BY <2>1, QueueFacts DEF Ready
  <2>3. PICK n \in Nat : n = Len(L.w) BY <2>2
  <2>4. n <= 2 BY <2>2, <2>3
  <2>5. n > 1 <=> n = 2 BY <2>4
  <2>6. QED BY <2>3, <2>5
<1>7. \/ /\ at.conflict # Undef \/ IsTrue(trail, L.w[1]) \/ ~Propagating(L)
         /\ UNCHANGED <<trail, at>>
      \/ /\ at.conflict = Undef /\ ~IsTrue(trail, L.w[1]) /\ Propagating(L)
         /\ IsFalse(trail, L.w[1])
         /\ at' = [at EXCEPT !.conflict = IF Len(L.w) = 2 THEN ref ELSE Lazy]
         /\ UNCHANGED trail
      \/ /\ at.conflict = Undef /\ ~IsTrue(trail, L.w[1]) /\ Propagating(L)
         /\ ~IsFalse(trail, L.w[1])
         /\ trail' = Enqueue(trail, L.w[1], ref, dl) /\ UNCHANGED at
  BY <1>2, <1>3, <1>6 DEF AttachLemma, Propagating
<1>8. /\ KeepsReasons(trail, clauses, clauses')
      /\ Assigned(trail, clauses', inputs, intro, al)
  BY <1>5, MoreKeeps
<1>9. /\ at \in Locals /\ at.todo = {} /\ Shape(trail, al) /\ al \in Nat /\ dl \in Nat
      /\ Len(trail) \in Nat
  BY <1>1, Facts
<1>10. Extends(trail, trail) BY <1>9, ExtendsItself
<1>11. Conflict(pc, at, trail, clauses, inputs, al) BY DEF IInv
<1>12. CASE UNCHANGED <<trail, at>>
  <2>1. Conflict(pc, at, trail, clauses', inputs, al)
    <3>1. ASSUME at.conflict > 0
          PROVE /\ at.conflict \in DOMAIN clauses'
                /\ \A l \in Lits(clauses'[at.conflict]) : IsFalse(trail, l)
                /\ \E l \in Lits(clauses'[at.conflict]) : LevelOf(trail, l) = dl
      <4>1. /\ at.conflict \in DOMAIN clauses
            /\ \A l \in Lits(clauses[at.conflict]) : IsFalse(trail, l)
            /\ \E l \in Lits(clauses[at.conflict]) : LevelOf(trail, l) = dl
        BY <1>11, <3>1 DEF Conflict
      <4>2. at.conflict \in DOMAIN clauses' /\ clauses'[at.conflict] = clauses[at.conflict]
        BY <1>5, <4>1 DEF More
      <4>3. QED BY <4>1, <4>2
    <3>2. QED BY <1>11, <3>1 DEF Conflict
  <2>2. /\ Assigned(trail', clauses', inputs, intro, al) /\ Extends(trail, trail')
        /\ Conflict(pc, at', trail', clauses', inputs, al)
    BY <1>8, <1>10, <1>12, <2>1
  <2>3. /\ at' \in Locals /\ at'.caller = at.caller /\ at'.todo = {} /\ at'.bound = at.bound
        /\ at.conflict # Undef => at'.conflict # Undef
    BY <1>9, <1>12
  <2>4. QED BY <1>1, <1>5, <2>2, <2>3, AttachEnd
<1>13. CASE /\ at.conflict = Undef /\ ~IsTrue(trail, L.w[1]) /\ Propagating(L)
            /\ IsFalse(trail, L.w[1])
            /\ at' = [at EXCEPT !.conflict = IF Len(L.w) = 2 THEN ref ELSE Lazy]
            /\ UNCHANGED trail
  <2>1. /\ L.w[1] \in LemmaLits(L)
        /\ \A k \in LemmaLits(L) \ {L.w[1]} : IsFalse(trail, k)
        /\ Len(L.w) # 2 => dl = 0
        /\ Len(L.w) = 2 /\ IsFalse(trail, L.w[1]) => LevelOf(trail, L.w[1]) = dl
        /\ dl = 0 /\ IsFalse(trail, L.w[1]) => Ent(inputs, al, {})
    BY <1>1, <1>2, <1>13, PropagatingFacts
  <2>2. PICK z \in Int : z = IF Len(L.w) = 2 THEN ref ELSE Lazy BY <1>5 DEF Lazy
  <2>3. at' = [at EXCEPT !.conflict = z] BY <1>13, <2>2
  <2>4. /\ at' \in Locals /\ at'.caller = at.caller /\ at'.todo = at.todo /\ at'.conflict = z
        /\ at'.bound = at.bound
    <3>1. at \in Locals BY <1>9
    <3>2. QED BY <2>3, <3>1 DEF Locals
  <2>5. \A k \in LemmaLits(L) : IsFalse(trail, k) BY <1>13, <2>1
  <2>6. Conflict(pc, at', trail, clauses', inputs, al) /\ (at.conflict # Undef => z # Undef)
    <3>1. CASE Len(L.w) = 2
      <4>1. z = ref /\ z > 0 BY <1>5, <2>2, <3>1
      <4>2. z \in DOMAIN clauses' /\ Lits(clauses'[z]) = LemmaLits(L)
        BY <1>5, <4>1 DEF Attached
      <4>3. /\ \A l \in Lits(clauses'[z]) : IsFalse(trail, l)
            /\ \E l \in Lits(clauses'[z]) : LevelOf(trail, l) = dl
        BY <1>13, <2>1, <2>5, <3>1, <4>2
      <4>4. z # Lazy /\ z >= Lazy /\ z # Undef BY <4>1 DEF Lazy, Undef
      <4>5. QED BY <1>1, <2>4, <4>2, <4>3, <4>4 DEF Conflict
    <3>2. CASE Len(L.w) # 2
      <4>1. z = Lazy BY <2>2, <3>2
      <4>2. dl = 0 /\ Ent(inputs, al, {}) BY <1>13, <2>1, <3>2
      <4>3. z # Undef /\ ~(z > 0) /\ z >= Lazy BY <4>1 DEF Lazy, Undef
      <4>4. QED BY <1>1, <2>4, <4>1, <4>2, <4>3 DEF Conflict
    <3>3. QED BY <3>1, <3>2
  <2>7. /\ Assigned(trail', clauses', inputs, intro, al) /\ Extends(trail, trail')
        /\ Conflict(pc, at', trail', clauses', inputs, al)
    BY <1>8, <1>10, <1>13, <2>6
  <2>8. /\ at' \in Locals /\ at'.caller = at.caller /\ at'.todo = {} /\ at'.bound = at.bound
        /\ at.conflict # Undef => at'.conflict # Undef
    BY <1>9, <2>4, <2>6
  <2>9. QED BY <1>1, <1>5, <2>7, <2>8, AttachEnd
<1>14. CASE /\ at.conflict = Undef /\ ~IsTrue(trail, L.w[1]) /\ Propagating(L)
            /\ ~IsFalse(trail, L.w[1])
            /\ trail' = Enqueue(trail, L.w[1], ref, dl) /\ UNCHANGED at
  <2> DEFINE u == Enqueue(trail, L.w[1], ref, dl)
             l == L.w[1]
  <2>1. /\ l \in AtomLits /\ intro[Var(l)] \in 0 .. al
        /\ l \in LemmaLits(L)
        /\ \A k \in LemmaLits(L) \ {l} : IsFalse(trail, k)
        /\ Justified(dl, inputs, l)
    BY <1>1, <1>2, <1>14, PropagatingFacts
  <2>2. IsUndef(trail, l)
    <3>1. l \in Literals BY <2>1, AtomLitFacts
    <3>2. QED BY <1>9, <1>14, <3>1, Undefined
  <2>3. Implies(trail, clauses', ref, l)
    <3>1. ref > 0 => /\ ref \in DOMAIN clauses' /\ clauses'[ref].w[1] = l
                     /\ Lits(clauses'[ref]) = LemmaLits(L)
      BY <1>5 DEF Attached
    <3>2. QED BY <2>1, <3>1 DEF Implies
  <2>4. Assigned(trail, clauses, inputs, intro, al) BY DEF IInv
  <2>5. ref \in Int /\ ref >= -1
    <3>1. ref >= 0 BY <1>5 DEF Attached
    <3>2. QED BY <1>5, <3>1
  <2>6. trail' = u BY <1>14
  <2>7. DecisionLevel(trail) <= dl BY <1>9
  <2>8. DecisionLevel(trail) = dl OBVIOUS
  <2> HIDE DEF dl, l
  <2>9. LET v == Enqueue(trail, l, ref, dl)
        IN  /\ Assigned(v, clauses', inputs, intro, al) /\ Begins(trail, v)
            /\ DecisionLevel(v) = dl
            /\ Len(v) = Len(trail) + 1 /\ \A i \in 1 .. Len(trail) : v[i] = trail[i]
            /\ v[Len(trail) + 1].level = dl /\ v[Len(trail) + 1].lit = l
            /\ Shape(v, al)
    BY <1>8, <1>9, <2>1, <2>2, <2>3, <2>4, <2>5, <2>7, AssignedEnqueued
  <2>10. u = Enqueue(trail, l, ref, dl) BY DEF dl, l
  <2> HIDE DEF u
  <2>11. /\ Assigned(u, clauses', inputs, intro, al) /\ DecisionLevel(u) = dl
         /\ Len(u) = Len(trail) + 1 /\ \A i \in 1 .. Len(trail) : u[i] = trail[i]
         /\ u[Len(trail) + 1].level = dl
    BY <2>9, <2>10
  <2>12. Extends(trail, u)
    <3>1. ASSUME NEW i \in 1 .. Len(u)
          PROVE IF i <= Len(trail) THEN u[i] = trail[i] ELSE u[i].level = dl
      <4>1. CASE i <= Len(trail) BY <1>9, <2>11, <4>1
      <4>2. CASE ~(i <= Len(trail))
        <5>1. i = Len(trail) + 1 BY <1>9, <2>11, <4>2
        <5>2. QED BY <2>11, <4>2, <5>1
      <4>3. QED BY <4>1, <4>2
    <3>2. QED BY <1>9, <2>8, <2>11, <3>1 DEF Extends
  <2>13. Conflict(pc, at', trail', clauses', inputs, al) BY <1>14, NoConflict
  <2>14. Assigned(trail', clauses', inputs, intro, al) /\ Extends(trail, trail')
    BY <2>6, <2>11, <2>12
  <2>15. /\ at' \in Locals /\ at'.caller = at.caller /\ at'.todo = {} /\ at'.bound = at.bound
         /\ at.conflict # Undef => at'.conflict # Undef
    BY <1>9, <1>14
  <2>16. QED BY <1>1, <1>5, <2>13, <2>14, <2>15, AttachEnd
<1>15. QED BY <1>7, <1>12, <1>13, <1>14

-----------------------------------------------------------------------------
(* Every step keeps the invariant.                                           *)

(* Every call keeps the invariant.                                           *)
LEMMA CallStep ==
  ASSUME IInv, Call
  PROVE IInv'
<1>1. CASE \E S \in left.user[assertionLevel] : AddInput(S) BY <1>1, AddInputStep
<1>2. CASE \E S \in Theory : AddTheoryClause(S) BY <1>2, AddTheoryClauseStep
<1>3. CASE Push BY <1>3, PushStep
<1>4. CASE Pop BY <1>4, PopStep
<1>5. CASE Solve BY <1>5, SolveStep
<1>6. QED BY <1>1, <1>2, <1>3, <1>4, <1>5 DEF Call

(* Every step of a running call keeps it.                                    *)
LEMMA StepStep ==
  ASSUME IInv, Step
  PROVE IInv'
<1>1. CASE ResetTrail BY <1>1, ResetTrailStep
<1>2. CASE BeginPropagate BY <1>2, BeginPropagateStep
<1>3. CASE TakeLiteral BY <1>3, TakeLiteralStep
<1>4. CASE \E r \in DOMAIN clauses : VisitWatcher(r) BY <1>4, VisitWatcherStep
<1>5. CASE EndOfQueue BY <1>5, EndOfQueueStep
<1>6. CASE TheoryCheck BY <1>6, TheoryCheckStep
<1>7. CASE SortLemmas BY <1>7, SortLemmasStep
<1>8. CASE AttachLemma BY <1>8, AttachLemmaStep
<1>9. CASE LemmasUpdated BY <1>9, LemmasUpdatedStep
<1>10. CASE EndAddClause BY <1>10, EndAddClauseStep
<1>11. CASE ConflictAtTopLevel BY <1>11, ConflictAtTopLevelStep
<1>12. CASE BeginAnalyze BY <1>12, BeginAnalyzeStep
<1>13. CASE Explain BY <1>13, ExplainStep
<1>14. CASE Resolve BY <1>14, ResolveStep
<1>15. CASE Learn BY <1>15, LearnStep
<1>16. CASE AfterFinalCheck BY <1>16, AfterFinalCheckStep
<1>17. CASE WithinBudget BY <1>17, WithinBudgetStep
<1>18. CASE Restart BY <1>18, RestartStep
<1>19. CASE Simplify BY <1>19, SimplifyStep
<1>20. CASE ReduceDB BY <1>20, ReduceDBStep
<1>21. CASE Decide BY <1>21, DecideStep
<1>22. CASE ReadRemovedVariable BY <1>22, ReadRemovedVariableStep
<1>23. QED BY <1>1, <1>2, <1>3, <1>4, <1>5, <1>6, <1>7, <1>8, <1>9, <1>10, <1>11, <1>12,
              <1>13, <1>14, <1>15, <1>16, <1>17, <1>18, <1>19, <1>20, <1>21, <1>22 DEF Step

(* It is about nothing else.                                                 *)
LEMMA StutterStep ==
  ASSUME IInv, UNCHANGED vars
  PROVE IInv'
<1>1. UNCHANGED <<cores, clauses, trail, qhead, intro, assertionLevel, ok, trailOk, lemmas,
                  pc, at, answer, inputs, left, spent>>
  BY DEF vars
<1>2. Bound' = Bound BY <1>1 DEF Bound
<1>3. Base(inputs, intro, assertionLevel, left, cores, spent)' BY <1>1, SameBase DEF IInv
<1>4. QED BY <1>1, <1>2, <1>3 DEF IInv

(* The invariant always holds.                                               *)
THEOREM InvariantHolds == Spec => []IInv
<1>1. Init => IInv BY InitInvariant
<1>2. IInv /\ [Next]_vars => IInv'
  <2>1. ASSUME IInv, Next PROVE IInv' BY <2>1, CallStep, StepStep DEF Next
  <2>2. ASSUME IInv, UNCHANGED vars PROVE IInv' BY <2>2, StutterStep
  <2>3. QED BY <2>1, <2>2
<1>3. QED BY <1>1, <1>2, PTL DEF Spec

-----------------------------------------------------------------------------
(* What the invariant implies.                                               *)

(* The invariant implies that the variables are in their ranges.             *)
LEMMA TypesHold ==
  ASSUME IInv
  PROVE TypeOK
<1> DEFINE al == assertionLevel
<1>1. al \in 0 .. MaxLevel /\ Len(inputs) = al + 1 BY DEF IInv, Base, Stack
<1>2. Len(trailOk) = al BY DEF IInv, Verdicts
<1>3. qhead \in 0 .. Len(trail) /\ Shape(trail, al) /\ al \in Nat BY Facts
<1>4. ASSUME NEW i \in DOMAIN trail
      PROVE /\ trail[i].lit \in Literals /\ trail[i].ulevel \in 0 .. al
            /\ trail[i].reason \in {Undef, Lazy} \cup DOMAIN clauses
  <2>1. i \in 1 .. Len(trail) BY <1>3 DEF Shape
  <2>2. /\ trail[i].lit \in Literals /\ trail[i].reason \in Int /\ trail[i].reason >= -1
        /\ trail[i].ulevel \in Nat /\ trail[i].ulevel <= al
    BY <1>3, <2>1, EntryFacts
  <2>3. trail[i].reason > 0 => trail[i].reason \in DOMAIN clauses
    BY <2>1 DEF IInv, Assigned, Reasons
  <2>4. trail[i].reason \in {Undef, Lazy} \cup DOMAIN clauses
    BY <2>2, <2>3 DEF Undef, Lazy
  <2>5. QED BY <1>3, <2>2, <2>4
<1>5. ASSUME NEW r \in DOMAIN clauses
      PROVE Lits(clauses[r]) \subseteq Literals /\ clauses[r].level \in 0 .. al
  <2>1. Sound(clauses[r], inputs, intro, al) BY Facts
  <2>2. /\ Lits(clauses[r]) \subseteq Literals
        /\ clauses[r].level \in Nat /\ clauses[r].level <= al
    BY <1>3, <2>1, SoundFacts
  <2>3. QED BY <1>3, <2>2
<1>6. pc \in {"idle", "propagate", "bool", "theory", "lemmas", "attach", "return",
              "analyze", "decide", "solved", "undefined"}
  BY DEF IInv, Protocol
<1>7. QED BY <1>1, <1>2, <1>3, <1>4, <1>5, <1>6 DEF TypeOK

(* Every variable stays in its range; a reason is a clause of the arena.     *)
THEOREM TypeCorrect == Spec => []TypeOK
BY InvariantHolds, TypesHold, PTL

(* It implies that a clause is entailed at its level.                        *)
LEMMA EntailmentHolds ==
  ASSUME IInv
  PROVE EntailedAtItsLevel
<1> DEFINE al == assertionLevel
<1>1. Stack(inputs, al) /\ al \in Nat BY Facts DEF IInv, Base
<1>2. ASSUME NEW r \in DOMAIN clauses
      PROVE Oracle!Entails(Oracle!UpTo(inputs, clauses[r].level),
                           Lits(clauses[r]) \ {-VarTrue})
  <2>1. Sound(clauses[r], inputs, intro, al) BY Facts
  <2>2. clauses[r].level \in 0 .. al
    <3>1. clauses[r].level \in Nat /\ clauses[r].level <= al BY <1>1, <2>1, SoundFacts
    <3>2. QED BY <1>1, <3>1
  <2>3. Ent(inputs, clauses[r].level, Lits(clauses[r])) BY <2>1 DEF Sound
  <2>4. Ent(inputs, clauses[r].level, Lits(clauses[r]) \ {-VarTrue})
    <3>1. SUFFICES ASSUME NEW M \in Assignments, Allowed(M, inputs, clauses[r].level)
                   PROVE (Lits(clauses[r]) \ {-VarTrue}) \cap M # {}
      BY DEF Ent
    <3>2. PICK l \in Lits(clauses[r]) : l \in M BY <2>3, <3>1 DEF Ent
    <3>3. l \in AtomLits BY <3>2, AssignmentFacts
    <3>4. l # -VarTrue BY <3>3, AtomLitFacts
    <3>5. QED BY <3>2, <3>4
  <2>5. QED BY <1>1, <2>2, <2>4, EntIsEntails
<1>3. ASSUME NEW i \in 2 .. Len(trail), trail[i].level = 0
      PROVE Oracle!Entails(Oracle!UpTo(inputs, trail[i].ulevel), {trail[i].lit})
  <2>1. Ent(inputs, trail[i].ulevel, {trail[i].lit}) BY <1>3 DEF IInv, Assigned, Valued
  <2>2. Shape(trail, al) /\ Len(trail) \in Nat BY Facts
  <2>3. i \in 1 .. Len(trail) BY <2>2
  <2>4. trail[i].ulevel \in Nat /\ trail[i].ulevel <= al BY <2>2, <2>3, EntryFacts
  <2>5. trail[i].ulevel \in 0 .. al BY <1>1, <2>4
  <2>6. QED BY <1>1, <2>1, <2>5, EntIsEntails
<1>4. QED BY <1>2, <1>3 DEF EntailedAtItsLevel

(* Every clause of the arena (input, lemma, explanation or learnt clause)    *)
(* and every literal assigned without a decision follows from the theory and *)
(* the user's clauses of the levels up to its own: what a pop leaves never   *)
(* rests on what it takes away.                                              *)
THEOREM EntailedAtItsLevelCorrect == Spec => []EntailedAtItsLevel
BY InvariantHolds, EntailmentHolds, PTL

(* Lemmas that are in the queue between two calls, or whose variables a pop  *)
(* has removed, were left there by a solve that gave up.                     *)
LeftByGivingUp ==
  (lemmas # <<>> /\ pc \in {"idle", "solved"}) \/ ~Live(lemmas) => spent

(* A step that leaves the queue.                                             *)
LEMMA QueueLeft ==
  ASSUME LeftByGivingUp, lemmas' = lemmas, spent => spent',
         pc' \in {"idle", "solved"} => pc \in {"idle", "solved"} \/ lemmas = <<>> \/ spent'
  PROVE LeftByGivingUp'
BY DEF LeftByGivingUp, Live

(* A step into, or inside, what comes after the start of propagate.          *)
LEMMA QueueLive ==
  ASSUME IInv', pc' \notin {"idle", "propagate", "solved", "undefined"}
  PROVE LeftByGivingUp'
<1>1. lemmas' = <<>> \/ Live(lemmas') BY DEF IInv, Protocol
<1>2. Live(lemmas') BY <1>1, NoLemmas
<1>3. QED BY <1>2 DEF LeftByGivingUp, Live

(* A lemma that is queued has its variables.                                 *)
LEMMA RegisteredLive ==
  ASSUME NEW q \in Seq(LemmaType), Live(q), NEW t, NEW bounds, Registration(q, t, bounds)
  PROVE Live(lemmas')
<1>1. CASE lemmas' = q BY <1>1
<1>2. CASE \E L \in Theory : lemmas' = QueueLemma(q, t, L, FALSE)
  <2>1. PICK L \in Theory : lemmas' = QueueLemma(q, t, L, FALSE) BY <1>2
  <2>2. CASE Ignored(t, L) BY <2>1, <2>2 DEF QueueLemma
  <2>3. CASE ~Ignored(t, L)
    <3> DEFINE e == [w |-> <<>>, rest |-> Kept(t, L), sorted |-> FALSE, removable |-> FALSE,
                     dangling |-> FALSE]
    <3>1. lemmas' = Append(q, e) BY <2>1, <2>3 DEF QueueLemma
    <3>2. ~e.dangling OBVIOUS
    <3> HIDE DEF e
    <3>3. \A k \in 1 .. Len(lemmas') : (k \in 1 .. Len(q) /\ lemmas'[k] = q[k]) \/ lemmas'[k] = e
      BY <3>1
    <3>4. QED BY <3>2, <3>3 DEF Live
  <2>4. QED BY <2>2, <2>3
<1>3. QED BY <1>1, <1>2 DEF Registration

(* After a conflict, or a restart, only what is registered is in the queue.  *)
LEMMA QueueRegistered ==
  ASSUME IInv, pc \in {"analyze", "return"}, NEW t, NEW bounds,
         Registration(lemmas, t, bounds) \/ lemmas' = lemmas,
         pc' \in {"idle", "solved"} => spent'
  PROVE LeftByGivingUp'
<1>1. lemmas = <<>> BY Facts
<1>2. lemmas \in Seq(LemmaType) BY Facts DEF Queue
<1>3. Live(lemmas) BY <1>1, NoLemmas
<1>4. Live(lemmas') BY <1>2, <1>3, RegisteredLive
<1>5. QED BY <1>4 DEF LeftByGivingUp, Live

(* Every call keeps it.                                                      *)
LEMMA CallLeaves ==
  ASSUME IInv, LeftByGivingUp, Call
  PROVE LeftByGivingUp'
<1>1. CASE \E S \in left.user[assertionLevel] : AddInput(S)
  <2>1. pc = "idle" /\ lemmas' = lemmas /\ spent' = spent BY <1>1 DEF AddInput, AddClause
  <2>2. QED BY <2>1, QueueLeft
<1>2. CASE \E S \in Theory : AddTheoryClause(S)
  <2>1. pc = "idle" /\ lemmas' = lemmas /\ spent' = spent
    BY <1>2 DEF AddTheoryClause, AddClause
  <2>2. QED BY <2>1, QueueLeft
<1>3. CASE Push
  <2>1. pc = "idle" /\ lemmas' = lemmas /\ spent' = spent BY <1>3 DEF Push
  <2>2. QED BY <2>1, QueueLeft
<1>4. CASE Pop
  <2>1. pc = "idle" /\ spent' = spent /\ lemmas' = Marked(lemmas, assertionLevel - 1)
    BY <1>4 DEF Pop, Marked
  <2>2. CASE lemmas = <<>>
    <3>1. lemmas \in Seq(LemmaType) BY Facts DEF Queue
    <3>2. PICK n : n = assertionLevel - 1 OBVIOUS
    <3>3. lemmas' = Marked(lemmas, n) BY <2>1, <3>2
    <3>4. lemmas' \in Seq(LemmaType) /\ Len(lemmas') = Len(lemmas) BY <3>1, <3>3, MarkedFacts
    <3>5. lemmas' = <<>> BY <2>2, <3>4
    <3>6. Live(lemmas') BY <3>5, NoLemmas
    <3>7. QED BY <3>5, <3>6 DEF LeftByGivingUp, Live
  <2>3. CASE lemmas # <<>> BY <2>1, <2>3 DEF LeftByGivingUp
  <2>4. QED BY <2>2, <2>3
<1>5. CASE Solve
  <2>1. pc = "idle" /\ lemmas' = lemmas /\ spent' = spent BY <1>5 DEF Solve
  <2>2. QED BY <2>1, QueueLeft
<1>6. QED BY <1>1, <1>2, <1>3, <1>4, <1>5 DEF Call

(* Every step of a running call keeps it.                                    *)
LEMMA StepLeaves ==
  ASSUME IInv, IInv', LeftByGivingUp, Step
  PROVE LeftByGivingUp'
<1>1. CASE ResetTrail
  <2>1. pc = "solved" /\ lemmas' = lemmas /\ spent' = spent BY <1>1 DEF ResetTrail
  <2>2. QED BY <2>1, QueueLeft
<1>2. CASE ReadRemovedVariable
  <2>1. pc' = "undefined" /\ lemmas' = lemmas /\ spent' = spent
    BY <1>2 DEF ReadRemovedVariable, Inside
  <2>2. QED BY <2>1, QueueLeft
<1>3. CASE EndAddClause \/ ConflictAtTopLevel \/ AfterFinalCheck
  <2>1. pc = "return" /\ lemmas' = lemmas /\ (spent => spent')
    BY <1>3 DEF EndAddClause, ConflictAtTopLevel, AfterFinalCheck, Searching, EndSolve
  <2>2. lemmas = <<>> BY <2>1, Facts
  <2>3. QED BY <2>1, <2>2, QueueLeft
<1>4. CASE Learn
  <2>1. pc = "analyze" /\ pc' = "propagate" BY <1>4 DEF Learn
  <2>2. PICK t : Registration(lemmas, t, left) BY <1>4 DEF Learn
  <2>3. QED BY <2>1, <2>2, QueueRegistered
<1>5. CASE Restart
  <2>1. pc = "return" /\ (pc' \in {"idle", "solved"} => spent')
    BY <1>5 DEF Restart, Searching
  <2>2. \E bounds : Registration(lemmas, trail', bounds) \/ lemmas' = lemmas
    BY <1>5 DEF Restart
  <2>3. QED BY <2>1, <2>2, QueueRegistered
<1>6. CASE Decide
  <2>1. pc = "decide" /\ pc' = "propagate" /\ lemmas' = lemmas /\ spent' = spent
    BY <1>6 DEF Decide, Inside
  <2>2. QED BY <2>1, QueueLeft
<1>7. CASE \/ BeginPropagate \/ TakeLiteral \/ EndOfQueue \/ BeginAnalyze \/ Explain
           \/ Resolve \/ WithinBudget \/ Simplify \/ ReduceDB \/ AttachLemma
  <2>1. pc' \notin {"idle", "propagate", "solved", "undefined"}
    BY <1>7 DEF BeginPropagate, TakeLiteral, EndOfQueue, BeginAnalyze, Explain, Resolve,
                WithinBudget, Simplify, ReduceDB, AttachLemma
  <2>2. QED BY <2>1, QueueLive
<1>8. CASE SortLemmas
  <2>1. pc' \notin {"idle", "propagate", "solved", "undefined"} BY <1>8 DEF SortLemmas
  <2>2. QED BY <2>1, QueueLive
<1>9. CASE TheoryCheck \/ LemmasUpdated
  <2>1. pc' \notin {"idle", "propagate", "solved", "undefined"}
    BY <1>9, RoundCases DEF TheoryCheck, LemmasUpdated
  <2>2. QED BY <2>1, QueueLive
<1>10. CASE \E r \in DOMAIN clauses : VisitWatcher(r)
  <2>1. PICK r \in DOMAIN clauses : VisitWatcher(r) BY <1>10
  <2>2. pc = "bool" /\ (pc' = pc \/ pc' = "return") BY <2>1 DEF VisitWatcher
  <2>3. QED BY <2>2, QueueLive
<1>11. QED BY <1>1, <1>2, <1>3, <1>4, <1>5, <1>6, <1>7, <1>8, <1>9, <1>10 DEF Step

(* So it always holds.                                                       *)
LEMMA LeftByGivingUpHolds == Spec => []LeftByGivingUp
<1>1. Init => LeftByGivingUp
  <2>1. ASSUME Init PROVE lemmas = <<>> BY <2>1 DEF Init
  <2>2. ASSUME lemmas = <<>> PROVE LeftByGivingUp
    <3>1. Live(lemmas) BY <2>2, NoLemmas
    <3>2. QED BY <2>2, <3>1 DEF LeftByGivingUp
  <2>3. QED BY <2>1, <2>2
<1>2. IInv /\ IInv' /\ LeftByGivingUp /\ [Next]_vars => LeftByGivingUp'
  <2>1. ASSUME IInv, IInv', LeftByGivingUp, Next PROVE LeftByGivingUp'
    BY <2>1, CallLeaves, StepLeaves DEF Next
  <2>2. ASSUME LeftByGivingUp, UNCHANGED vars PROVE LeftByGivingUp'
    BY <2>2 DEF vars, LeftByGivingUp, Live
  <2>3. QED BY <2>1, <2>2
<1>3. QED BY <1>1, <1>2, InvariantHolds, PTL DEF Spec

(* They imply that variables exist as long as they are used.                 *)
LEMMA VariablesOutlive ==
  ASSUME IInv, LeftByGivingUp
  PROVE VariablesOutliveTheirUses
<1>1. \A r \in DOMAIN clauses : \A l \in Lits(clauses[r]) \ {-VarTrue} :
        intro[Var(l)] \in 0 .. clauses[r].level
  BY Facts DEF Sound
<1>2. \A i \in 2 .. Len(trail) : intro[Var(trail[i].lit)] \in 0 .. trail[i].ulevel
  BY DEF IInv, Assigned, Known
<1>3. ASSUME NEW i \in DOMAIN lemmas
      PROVE IF lemmas[i].dangling THEN spent /\ pc \in {"idle", "propagate", "undefined"}
            ELSE \A l \in LemmaLits(lemmas[i]) : intro[Var(l)] \in 0 .. assertionLevel
  <2>1. Queue(lemmas, inputs, intro, assertionLevel) BY Facts
  <2>2. lemmas \in Seq(LemmaType) BY <2>1 DEF Queue
  <2>3. i \in 1 .. Len(lemmas) /\ lemmas # <<>> BY <2>2
  <2>4. CASE lemmas[i].dangling
    <3>1. ~Live(lemmas) BY <2>3, <2>4 DEF Live
    <3>2. spent BY <3>1 DEF LeftByGivingUp
    <3>3. pc \in {"propagate", "idle", "undefined"} BY <2>3, <3>1 DEF IInv, Protocol
    <3>4. QED BY <2>4, <3>2, <3>3
  <2>5. CASE ~lemmas[i].dangling BY <2>1, <2>3, <2>5 DEF Queue
  <2>6. QED BY <2>4, <2>5
<1>4. QED BY <1>1, <1>2, <1>3 DEF VariablesOutliveTheirUses

(* No clause and no assignment mentions a variable that a pop has removed or *)
(* will remove before it.  A lemma in the queue whose variables a pop has    *)
(* removed was left there by a solve that gave up, and no more is done with  *)
(* it than the start of the next propagate, where its variables are read.    *)
THEOREM VariablesOutliveCorrect == Spec => []VariablesOutliveTheirUses
BY InvariantHolds, LeftByGivingUpHolds, VariablesOutlive, PTL

(* It implies that reasons lead backwards on the trail.                      *)
LEMMA AcyclicReasons ==
  ASSUME IInv
  PROVE ReasonsAreAcyclic
<1>1. Shape(trail, assertionLevel) /\ assertionLevel \in Nat BY Facts
<1>2. ASSUME NEW i \in DOMAIN trail, trail[i].reason > 0
      PROVE LET c == clauses[trail[i].reason]
            IN  /\ trail[i].reason \in DOMAIN clauses
                /\ c.w[1] = trail[i].lit
                /\ \A l \in Lits(c) \ {c.w[1]} : IsFalse(trail, l) /\ At(trail, l) < i
  <2>1. i \in 1 .. Len(trail) /\ i \in Int BY <1>1 DEF Shape
  <2>2. PICK r : r = trail[i].reason OBVIOUS
  <2>3. /\ r \in DOMAIN clauses /\ clauses[r].w[1] = trail[i].lit
        /\ \A l \in Lits(clauses[r]) \ {trail[i].lit} : Before(trail, l, i)
    BY <1>2, <2>1, <2>2 DEF IInv, Assigned, Reasons
  <2>4. Sound(clauses[r], inputs, intro, assertionLevel) BY <2>3, Facts
  <2>5. Lits(clauses[r]) \subseteq Literals BY <1>1, <2>4, SoundFacts
  <2>6. \A l \in Lits(clauses[r]) \ {clauses[r].w[1]} : IsFalse(trail, l) /\ At(trail, l) < i
    BY <1>1, <2>1, <2>3, <2>5, BeforeIs
  <2>7. QED BY <2>2, <2>3, <2>6
<1>3. ASSUME pc = "analyze" PROVE OnTop(at.res) # {}
  BY <1>3 DEF IInv, Resolvent, OnTop
<1>4. QED BY <1>2, <1>3 DEF ReasonsAreAcyclic

(* The reason of an assignment is a clause with that literal in front whose  *)
(* others are false before it, so conflict analysis ends; and it finds a     *)
(* literal of the current decision level.                                    *)
THEOREM ReasonsAreAcyclicCorrect == Spec => []ReasonsAreAcyclic
BY InvariantHolds, AcyclicReasons, PTL

(* "unsat", and the flag ok that makes every later call answer it, are right *)
(* about the clauses that the user has asserted.                             *)
RefutationsAreSound ==
  answer = "unsat" \/ ~ok => ~Oracle!Satisfiable(Oracle!Current)

(* The invariant implies that a refutation is right.                         *)
LEMMA RefutationHolds ==
  ASSUME IInv
  PROVE RefutationsAreSound
<1> DEFINE al == assertionLevel
<1>1. Stack(inputs, al) /\ al \in Nat BY Facts DEF IInv, Base
<1>2. SUFFICES ASSUME answer = "unsat" \/ ~ok
               PROVE ~Oracle!Satisfiable(Oracle!Current)
  BY DEF RefutationsAreSound
<1>3. Ent(inputs, al, {}) BY <1>2 DEF IInv, Verdicts
<1>4. Oracle!Entails(Oracle!UpTo(inputs, al), {})
  <2>1. al \in 0 .. al BY <1>1
  <2>2. QED BY <1>1, <1>3, <2>1, EntIsEntails
<1>5. Oracle!Current = Oracle!UpTo(inputs, al)
  BY <1>1 DEF Stack, Oracle!Current, Oracle!UpTo
<1>6. QED BY <1>4, <1>5 DEF Oracle!Entails, Oracle!Satisfiable

(* "unsat" is answered only when no assignment satisfies the theory and the  *)
(* clauses on the stack, whatever lemmas, conflicts, restarts, pushes and    *)
(* pops came before.                                                         *)
THEOREM RefutationsAreSoundCorrect == Spec => []RefutationsAreSound
BY InvariantHolds, RefutationHolds, PTL
=============================================================================
