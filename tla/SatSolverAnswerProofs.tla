------------------------ MODULE SatSolverAnswerProofs ------------------------
(* The answers of the SAT solver are right, for every set of atoms, theory,  *)
(* setup and number of levels, in an engine that searches no more once its   *)
(* budget ran out. SatSolverProofs says that what the solver derives is      *)
(* sound; this module says that what it derives is complete, in two parts.   *)
(* First, propagation misses no conflict: when it ends without one, no       *)
(* clause of the arena is false, but for the theory's own clauses that the   *)
(* theory reports again. The invariant CInv is about the two watched         *)
(* literals. A clause whose two watches are both false at positions that     *)
(* propagation has been through is saved by a true literal that no backjump  *)
(* or pop takes away before one of those two positions; or it is a clause of *)
(* the theory, false at the bottom (Seen). Each action has a lemma (named    *)
(* ...Answers) that says it keeps CInv.                                      *)
(* Second, no clause of the user is lost: the invariant AInv says of each    *)
(* one that it is a tautology, true without a decision, or contained in a    *)
(* clause that stays as long as its level does (lemmas named ...Covers).     *)
(* Together they give the refinement: the search implements the abstract     *)
(* IncrementalSolver. The lemmas before those of the actions are about the   *)
(* operators the actions are built from.                                     *)
EXTENDS SatSolverProofs

(* A conflict is known to propagation, or is being analysed: the highest     *)
(* decision level is about to be left.                                       *)
Dirty(p, a) == a.conflict # Undef \/ p = "analyze"

(* Position i is of the highest decision level and of the highest user       *)
(* level.                                                                    *)
OnTopOf(t, al, i) == t[i].level = DecisionLevel(t) /\ t[i].ulevel = al

(* The positions of the trail whose literal has been propagated over clause  *)
(* r: those before qhead, but the one being propagated only once it has left *)
(* todo, and none of the highest level once a conflict on that level has     *)
(* stopped the propagation.                                                  *)
Visited(p, a, t, h, al, r) ==
  {i \in 1 .. Len(t) : i = 1 \/ /\ i <= h
                                /\ ~(i = h /\ r \in a.todo)
                                /\ Dirty(p, a) => ~OnTopOf(t, al, i)}

(* Clause c has a true literal that stays as long as position i does, or as  *)
(* long as position j does.                                                  *)
Saved(t, c, i, j) ==
  \E k \in {i, j}, m \in 1 .. Len(t) :
     t[m].lit \in Lits(c) /\ t[m].level <= t[k].level /\ t[m].ulevel <= t[k].ulevel

(* If both watches of c are false at positions of N, c is saved.             *)
Watched(t, c, N) ==
  \A i, j \in N : t[i].lit = -c.w[1] /\ t[j].lit = -c.w[2] => Saved(t, c, i, j)

(* Literal l is false at decision level zero and user level zero.            *)
FalseAtRoot(t, l) ==
  \E i \in 1 .. Len(t) : t[i].lit = -l /\ t[i].level = 0 /\ t[i].ulevel = 0

(* Some clause of the theory has no literal outside S but those false for    *)
(* good.                                                                     *)
Rooted(t, S) == \E L \in Theory : \A l \in L \ S : FalseAtRoot(t, l)

(* The two watches of c are false at decision level zero, and all its other  *)
(* literals became false before one of them.                                 *)
Down(t, c) ==
  \E i, j \in 1 .. Len(t) :
     /\ t[i].lit = -c.w[1] /\ t[j].lit = -c.w[2] /\ t[i].level = 0 /\ t[j].level = 0
     /\ \A l \in c.rest : Before(t, l, i) \/ Before(t, l, j)

(* What propagation over the positions N has achieved of clause c: the       *)
(* clause is saved, or it is what is left of a clause of the theory that is  *)
(* false at the bottom and that the theory reports again.                    *)
Seen(t, c, N) == Watched(t, c, N) \/ (Rooted(t, Lits(c)) /\ Down(t, c))

(* Every clause has been seen up to where propagation stands.                *)
Propagated(p, a, t, h, db, al) ==
  \A r \in DOMAIN db : Seen(t, db[r], Visited(p, a, t, h, al, r))

(* The positions a pop to user level k keeps.                                *)
OfLevel(t, k) == {i \in 1 .. Len(t) : t[i].ulevel <= k}

(* While the solver is known to be inconsistent it propagates nothing. What  *)
(* it must keep is, for every lower user level that was consistent, that its *)
(* clauses have been seen on all that a pop to this level leaves of the      *)
(* trail.                                                                    *)
Restorable(oks, t, db, al) ==
  \A k \in 0 .. al - 1 : oks[k + 1] =>
    \A r \in DOMAIN db : db[r].level <= k => Seen(t, db[r], OfLevel(t, k))

(* What lies beyond qhead was assigned on the present user level, so that a  *)
(* pop takes it away; the attaching of lemmas starts with nothing visited    *)
(* beyond the literals it found.                                             *)
Pointer(p, a, t, h, al, okay, sp) ==
  /\ okay /\ ~sp =>
       \A i \in 2 .. Len(t) : i > h \/ (i = h /\ a.todo # {}) => t[i].ulevel = al
  /\ ~sp /\ p = "attach" => h <= a.bound

(* Which flags go with which point of the program: inside a call the solver  *)
(* is consistent, a spent budget shows only in the calls and in addClause,   *)
(* and addClause propagates without theory. As long as the budget lasts the  *)
(* queue of lemmas is empty between two calls, so that addClause propagates  *)
(* without lemmas too, and between two calls all has been propagated.        *)
Cycle(p, a, t, h, q, okay, sp) ==
  /\ p \notin {"idle", "solved"} => okay
  /\ sp => p \in {"idle", "solved"} \/ a.caller = "addClause"
  /\ a.caller = "addClause" =>
       /\ p \in {"propagate", "undefined", "lemmas", "attach", "bool", "return"}
       /\ a.check = "theory"
  /\ ~sp =>
       /\ a.caller = "addClause" => p \in {"propagate", "bool", "return"} /\ q = <<>>
       /\ p \in {"idle", "solved"} => q = <<>>
       /\ p \in {"idle", "solved"} /\ okay => h = Len(t) \/ Len(t) = 1
       /\ p = "return" /\ a.conflict = Undef /\ a.caller = "addClause" => h = Len(t)

(* Each queued lemma is what is left of a clause of the theory once literals *)
(* that are false at the bottom have been dropped.                           *)
FromTheory(q, t) == \A k \in 1 .. Len(q) : Rooted(t, LemmaLits(q[k]))

(* As long as the budget lasts: propagation is complete as far as it got or, *)
(* with the solver inconsistent, at every level a pop can restore.           *)
Complete(p, a, t, h, db, okay, oks, sp, al) ==
  ~sp => IF okay THEN Propagated(p, a, t, h, db, al) ELSE Restorable(oks, t, db, al)

(* The inductive invariant, on top of IInv. Little is asked of it once the   *)
(* budget is spent: no search follows.                                       *)
CInv ==
  /\ Cycle(pc, at, trail, qhead, lemmas, ok, spent)
  /\ Pointer(pc, at, trail, qhead, assertionLevel, ok, spent)
  /\ ~spent => FromTheory(lemmas, trail)
  /\ Complete(pc, at, trail, qhead, clauses, ok, trailOk, spent, assertionLevel)

-----------------------------------------------------------------------------

(* Both watches of c are literals.                                           *)
Watching(c) == c.w[1] \in Literals /\ c.w[2] \in Literals

(* A clause is watched on fewer positions, and on positions that falsify     *)
(* neither of its watches.                                                   *)
LEMMA WatchedFewer ==
  ASSUME NEW t, NEW c, NEW M, Watched(t, c, M), NEW N, NEW X,
         N \subseteq M \cup X, \A x \in X : t[x].lit # -c.w[1] /\ t[x].lit # -c.w[2]
  PROVE Watched(t, c, N)
BY DEF Watched

(* A clause that has been seen has been seen on fewer positions.             *)
LEMMA SeenFewer ==
  ASSUME NEW t, NEW c, NEW M, Seen(t, c, M), NEW N, N \subseteq M
  PROVE Seen(t, c, N)
BY DEF Seen, Watched

(* What saves a clause stays when the trail grows.                           *)
LEMMA SavedBegins ==
  ASSUME NEW t, NEW u, NEW al, Shape(t, al), Begins(t, u), Len(u) \in Nat, NEW c,
         NEW i \in 1 .. Len(t), NEW j \in 1 .. Len(t), Saved(t, c, i, j)
  PROVE Saved(u, c, i, j)
<1>1. PICK k \in {i, j}, m \in 1 .. Len(t) :
        t[m].lit \in Lits(c) /\ t[m].level <= t[k].level /\ t[m].ulevel <= t[k].ulevel
  BY DEF Saved
<1>2. Len(t) \in Nat
  BY EntryFacts
<1>3. m \in 1 .. Len(u) /\ k \in 1 .. Len(t)
  BY <1>2 DEF Begins
<1>4. /\ u[m].lit = t[m].lit /\ u[m].level = t[m].level /\ u[m].ulevel = t[m].ulevel
      /\ u[k].level = t[k].level /\ u[k].ulevel = t[k].ulevel
  BY <1>3 DEF Begins
<1> QED BY <1>1, <1>3, <1>4 DEF Saved

(* What is false at the bottom stays so when the trail grows.                *)
LEMMA RootedBegins ==
  ASSUME NEW t, NEW u, NEW al, Shape(t, al), Begins(t, u), Len(u) \in Nat, NEW S, Rooted(t, S)
  PROVE Rooted(u, S)
<1>1. PICK L \in Theory : \A l \in L \ S : FalseAtRoot(t, l)
  BY DEF Rooted
<1>2. ASSUME NEW l \in L \ S
      PROVE FalseAtRoot(u, l)
  <2>1. PICK i \in 1 .. Len(t) : t[i].lit = -l /\ t[i].level = 0 /\ t[i].ulevel = 0
    BY <1>1 DEF FalseAtRoot
  <2>2. Len(t) \in Nat
    BY EntryFacts
  <2>3. i \in 1 .. Len(u) /\ u[i].lit = -l /\ u[i].level = 0 /\ u[i].ulevel = 0
    BY <2>1, <2>2 DEF Begins
  <2> QED BY <2>3 DEF FalseAtRoot
<1> QED BY <1>2 DEF Rooted

(* A clause that is false at the bottom stays so when the trail grows.       *)
LEMMA DownBegins ==
  ASSUME NEW t, NEW u, NEW al, Shape(t, al), Begins(t, u), Len(u) \in Nat, NEW c, Down(t, c)
  PROVE Down(u, c)
<1>1. PICK i \in 1 .. Len(t), j \in 1 .. Len(t) :
        /\ t[i].lit = -c.w[1] /\ t[j].lit = -c.w[2] /\ t[i].level = 0 /\ t[j].level = 0
        /\ \A l \in c.rest : Before(t, l, i) \/ Before(t, l, j)
  BY DEF Down
<1>2. Len(t) \in Nat /\ Len(t) <= Len(u)
  BY EntryFacts DEF Begins
<1>3. /\ i \in 1 .. Len(u) /\ j \in 1 .. Len(u)
      /\ u[i].lit = -c.w[1] /\ u[j].lit = -c.w[2] /\ u[i].level = 0 /\ u[j].level = 0
  BY <1>1, <1>2 DEF Begins
<1>4. ASSUME NEW l, NEW n, Before(t, l, n)
      PROVE Before(u, l, n)
  <2>1. PICK m \in 1 .. Len(t) : m < n /\ t[m].lit = -l
    BY <1>4 DEF Before
  <2>2. m \in 1 .. Len(u) /\ u[m].lit = -l
    BY <2>1, <1>2 DEF Begins
  <2> QED BY <2>1, <2>2 DEF Before
<1>5. \A l \in c.rest : Before(u, l, i) \/ Before(u, l, j)
  BY <1>1, <1>4
<1> QED BY <1>3, <1>5 DEF Down

(* A clause stays seen when the trail grows.                                 *)
LEMMA SeenBegins ==
  ASSUME NEW t, NEW u, NEW al, Shape(t, al), Begins(t, u), Len(u) \in Nat, NEW c,
         NEW N, N \subseteq 1 .. Len(t), Seen(t, c, N)
  PROVE Seen(u, c, N)
<1>1. CASE Watched(t, c, N)
  <2>1. ASSUME NEW i \in N, NEW j \in N, u[i].lit = -c.w[1], u[j].lit = -c.w[2]
        PROVE Saved(u, c, i, j)
    <3>1. i \in 1 .. Len(t) /\ j \in 1 .. Len(t)
      OBVIOUS
    <3>2. t[i].lit = -c.w[1] /\ t[j].lit = -c.w[2]
      BY <2>1, <3>1 DEF Begins
    <3>3. Saved(t, c, i, j)
      BY <1>1, <3>2 DEF Watched
    <3> QED BY <3>1, <3>3, SavedBegins
  <2> QED BY <2>1 DEF Seen, Watched
<1>2. CASE Rooted(t, Lits(c)) /\ Down(t, c)
  BY <1>2, RootedBegins, DownBegins DEF Seen
<1> QED BY <1>1, <1>2 DEF Seen

(* u is t cut back so that nothing remains above what was removed: the cuts  *)
(* of cancelUntil and of pop.                                                *)
Keeps(t, u) ==
  /\ Begins(u, t) /\ Len(u) \in 1 .. Len(t)
  /\ \A i \in 1 .. Len(u), m \in 1 .. Len(t) :
       t[m].level <= t[i].level /\ t[m].ulevel <= t[i].ulevel => m <= Len(u)

(* Such a cut leaves what is false at the bottom.                            *)
LEMMA RootedCut ==
  ASSUME NEW t, NEW u, NEW al, Shape(t, al), Keeps(t, u), NEW S, Rooted(t, S)
  PROVE Rooted(u, S)
<1>1. PICK L \in Theory : \A l \in L \ S : FalseAtRoot(t, l)
  BY DEF Rooted
<1>2. ASSUME NEW l \in L \ S
      PROVE FalseAtRoot(u, l)
  <2>1. PICK i \in 1 .. Len(t) : t[i].lit = -l /\ t[i].level = 0 /\ t[i].ulevel = 0
    BY <1>1 DEF FalseAtRoot
  <2>2. Len(t) \in Nat /\ 1 \in 1 .. Len(u) /\ 1 \in 1 .. Len(t)
    BY EntryFacts DEF Keeps
  <2>3. t[1].level = 0 /\ t[1].ulevel = 0
    BY <2>2, EntryFacts
  <2>4. i <= Len(u) /\ Len(u) \in Nat
    BY <2>1, <2>2, <2>3 DEF Keeps
  <2>5. i \in 1 .. Len(u) /\ u[i].lit = -l /\ u[i].level = 0 /\ u[i].ulevel = 0
    BY <2>1, <2>4 DEF Begins, Keeps
  <2> QED BY <2>5 DEF FalseAtRoot
<1> QED BY <1>2 DEF Rooted

(* Such a cut leaves what saves a clause, together with what it is saved     *)
(* from.                                                                     *)
LEMMA SavedCut ==
  ASSUME NEW t, NEW u, NEW al, Shape(t, al), Keeps(t, u), NEW c,
         NEW i \in 1 .. Len(u), NEW j \in 1 .. Len(u), Saved(t, c, i, j)
  PROVE Saved(u, c, i, j)
<1>1. PICK k \in {i, j}, m \in 1 .. Len(t) :
        t[m].lit \in Lits(c) /\ t[m].level <= t[k].level /\ t[m].ulevel <= t[k].ulevel
  BY DEF Saved
<1>2. k \in 1 .. Len(u)
  OBVIOUS
<1>3. m <= Len(u) /\ Len(u) \in Nat
  BY <1>1, <1>2 DEF Keeps
<1>4. m \in 1 .. Len(u)
  BY <1>3
<1>5. /\ u[m].lit = t[m].lit /\ u[m].level = t[m].level /\ u[m].ulevel = t[m].ulevel
      /\ u[k].level = t[k].level /\ u[k].ulevel = t[k].ulevel
  BY <1>2, <1>4 DEF Begins, Keeps
<1> QED BY <1>1, <1>4, <1>5 DEF Saved

(* A clause stays seen when the trail is cut back: if a watch of a clause    *)
(* false at the bottom is cut, the clause is no longer false in its watches. *)
LEMMA SeenCut ==
  ASSUME NEW t, NEW u, NEW al, Shape(t, al), Keeps(t, u), NEW c, Watching(c),
         NEW N, N \subseteq 1 .. Len(u), Seen(t, c, N)
  PROVE Seen(u, c, N)
<1>0. /\ Len(t) \in Nat /\ Len(u) \in Nat /\ Len(u) <= Len(t)
      /\ \A i \in 1 .. Len(u) : i \in 1 .. Len(t) /\ u[i].lit = t[i].lit /\ u[i].level = t[i].level
  BY EntryFacts DEF Keeps, Begins
<1>1. CASE Watched(t, c, N)
  <2>1. ASSUME NEW i \in N, NEW j \in N, u[i].lit = -c.w[1], u[j].lit = -c.w[2]
        PROVE Saved(u, c, i, j)
    <3>1. i \in 1 .. Len(u) /\ j \in 1 .. Len(u)
      OBVIOUS
    <3>2. t[i].lit = -c.w[1] /\ t[j].lit = -c.w[2]
      BY <2>1, <3>1, <1>0
    <3>3. Saved(t, c, i, j)
      BY <1>1, <3>2 DEF Watched
    <3> QED BY <3>1, <3>3, SavedCut
  <2> QED BY <2>1 DEF Seen, Watched
<1>2. CASE Rooted(t, Lits(c)) /\ Down(t, c)
  <2>1. PICK i \in 1 .. Len(t), j \in 1 .. Len(t) :
          /\ t[i].lit = -c.w[1] /\ t[j].lit = -c.w[2] /\ t[i].level = 0 /\ t[j].level = 0
          /\ \A l \in c.rest : Before(t, l, i) \/ Before(t, l, j)
    BY <1>2 DEF Down
  <2>2. CASE i \in 1 .. Len(u) /\ j \in 1 .. Len(u)
    <3>1. ASSUME NEW l, NEW n \in 1 .. Len(u), Before(t, l, n)
          PROVE Before(u, l, n)
      <4>1. PICK m \in 1 .. Len(t) : m < n /\ t[m].lit = -l
        BY <3>1 DEF Before
      <4>2. m \in 1 .. Len(u) /\ u[m].lit = -l
        BY <4>1, <1>0
      <4> QED BY <4>1, <4>2 DEF Before
    <3>2. \A l \in c.rest : Before(u, l, i) \/ Before(u, l, j)
      BY <2>1, <2>2, <3>1
    <3>3. /\ u[i].lit = -c.w[1] /\ u[j].lit = -c.w[2] /\ u[i].level = 0 /\ u[j].level = 0
      BY <2>1, <2>2, <1>0
    <3>4. Down(u, c)
      BY <2>2, <3>2, <3>3 DEF Down
    <3> QED BY <3>4, <1>2, RootedCut DEF Seen
  <2>3. CASE ~(i \in 1 .. Len(u) /\ j \in 1 .. Len(u))
    <3>1. ASSUME NEW x \in N, NEW y \in N, u[x].lit = -c.w[1], u[y].lit = -c.w[2]
          PROVE FALSE
      <4>1. x \in 1 .. Len(u) /\ y \in 1 .. Len(u)
        OBVIOUS
      <4>2. t[x].lit = t[i].lit /\ t[y].lit = t[j].lit
        BY <2>1, <3>1, <4>1, <1>0
      <4>3. x = i /\ y = j
        <5>1. x \in 1 .. Len(t) /\ y \in 1 .. Len(t)
          BY <4>1, <1>0
        <5> QED BY <4>2, <5>1, <1>0 DEF Shape
      <4> QED BY <4>1, <4>3, <2>3
    <3>2. Watched(u, c, N)
      BY <3>1 DEF Watched
    <3> QED BY <3>2 DEF Seen
  <2> QED BY <2>2, <2>3
<1> QED BY <1>1, <1>2 DEF Seen

(* A clause with a watch that is not false has been seen on all positions.   *)
LEMMA SeenNotFalse ==
  ASSUME NEW t, NEW al, Shape(t, al), NEW c, NEW N, N \subseteq 1 .. Len(t),
         ~IsFalse(t, c.w[1]) \/ ~IsFalse(t, c.w[2])
  PROVE Seen(t, c, N)
BY Falses DEF Seen, Watched

(* The order of its two watches plays no part in whether a clause has been   *)
(* seen.                                                                     *)
LEMMA SeenSwapped ==
  ASSUME NEW t, NEW c, NEW d, d.rest = c.rest,
         \/ d.w[1] = c.w[1] /\ d.w[2] = c.w[2]
         \/ d.w[1] = c.w[2] /\ d.w[2] = c.w[1],
         NEW N, Seen(t, c, N)
  PROVE Seen(t, d, N)
<1>1. Lits(d) = Lits(c)
  BY DEF Lits
<1>2. \A i, j : Saved(t, c, i, j) => Saved(t, d, i, j) /\ Saved(t, d, j, i)
  BY <1>1 DEF Saved
<1>3. Watched(t, c, N) => Watched(t, d, N)
  BY <1>2 DEF Watched
<1>4. Down(t, c) => Down(t, d)
  <2>1. CASE d.w[1] = c.w[1] /\ d.w[2] = c.w[2]
    BY <2>1 DEF Down
  <2>2. CASE d.w[1] = c.w[2] /\ d.w[2] = c.w[1]
    <3>1. ASSUME Down(t, c) PROVE Down(t, d)
      <4>1. PICK i \in 1 .. Len(t), j \in 1 .. Len(t) :
              /\ t[i].lit = -c.w[1] /\ t[j].lit = -c.w[2] /\ t[i].level = 0 /\ t[j].level = 0
              /\ \A l \in c.rest : Before(t, l, i) \/ Before(t, l, j)
        BY <3>1 DEF Down
      <4>2. /\ t[j].lit = -d.w[1] /\ t[i].lit = -d.w[2]
            /\ \A l \in d.rest : Before(t, l, j) \/ Before(t, l, i)
        BY <4>1, <2>2
      <4> QED BY <4>1, <4>2 DEF Down
    <3> QED BY <3>1
  <2> QED BY <2>1, <2>2
<1> QED BY <1>1, <1>3, <1>4 DEF Seen

(* A trail begins with itself and is a cut of itself.                        *)
LEMMA BeginsItself ==
  ASSUME NEW t, NEW al, Shape(t, al)
  PROVE Begins(t, t) /\ Keeps(t, t)
<1>1. Len(t) \in Nat /\ Len(t) >= 1
  BY DEF Shape
<1> QED BY <1>1 DEF Begins, Keeps

(* cancelUntil cuts the trail above a decision level, hence keeps all that   *)
(* saves.                                                                    *)
LEMMA CancelKeeps ==
  ASSUME NEW t, NEW al, Shape(t, al), NEW d \in Nat
  PROVE Keeps(t, CancelUntil(t, d))
<1> DEFINE u == CancelUntil(t, d)
<1>1. /\ Begins(u, t) /\ Len(u) \in 1 .. Len(t)
      /\ \A i \in 1 .. Len(t) : t[i].level <= d <=> i <= Len(u)
  BY CancelFacts
<1>2. \A i \in 1 .. Len(t) : t[i].level \in Nat
  BY EntryFacts
<1>3. Len(t) \in Nat
  BY DEF Shape
<1> HIDE DEF u
<1>4. ASSUME NEW i \in 1 .. Len(u), NEW m \in 1 .. Len(t), t[m].level <= t[i].level
      PROVE m <= Len(u)
  <2>1. i \in 1 .. Len(t) /\ i <= Len(u)
    BY <1>1, <1>3
  <2>2. t[i].level <= d
    BY <2>1, <1>1
  <2> QED BY <2>1, <2>2, <1>1, <1>2, <1>4
<1>5. Keeps(t, u)
  BY <1>1, <1>4 DEF Keeps
<1> QED BY <1>5 DEF u

-----------------------------------------------------------------------------
(* This step does not touch clause r and propagates no position of t over it *)
(* that had not been.                                                        *)
Old(t, r) ==
  /\ r \in DOMAIN clauses /\ clauses'[r] = clauses[r]
  /\ Visited(pc', at', trail', qhead', assertionLevel', r)
       \subseteq Visited(pc, at, trail, qhead, assertionLevel, r) \cap (1 .. Len(t))

(* After this step clause r has been seen.                                   *)
Now(r) ==
  Seen(trail', clauses'[r], Visited(pc', at', trail', qhead', assertionLevel', r))

(* This step propagates no position of t that had not been, for any clause.  *)
Fewer(t) ==
  \A r : Visited(pc', at', trail', qhead', assertionLevel', r)
           \subseteq Visited(pc, at, trail, qhead, assertionLevel, r) \cap (1 .. Len(t))

(* What this module uses of IInv most often.                                 *)
LEMMA Shapes ==
  ASSUME IInv
  PROVE /\ Shape(trail, assertionLevel) /\ assertionLevel \in Nat /\ Len(trail) \in Nat
        /\ \A r \in DOMAIN clauses : Watching(clauses[r])
BY Facts, SoundFacts DEF Watching

(* The same after the step.                                                  *)
LEMMA ShapesNext ==
  ASSUME IInv'
  PROVE /\ Shape(trail', assertionLevel') /\ assertionLevel' \in Nat /\ Len(trail') \in Nat
        /\ qhead' \in 0 .. Len(trail')
<1>1. Shape(trail', assertionLevel') /\ assertionLevel' \in Nat
  BY DEF IInv, Assigned, Base, Stack
<1>2. qhead' \in 0 .. Len(trail')
  BY DEF IInv, Pending
<1> QED BY <1>1, <1>2 DEF Shape

(* A step that cuts the trail and then lets it grow keeps the propagation    *)
(* complete, if each clause is untouched or has just been seen.              *)
LEMMA Carried ==
  ASSUME IInv, IInv', Propagated(pc, at, trail, qhead, clauses, assertionLevel),
         NEW t, Shape(t, assertionLevel), Keeps(trail, t), Begins(t, trail'),
         \A r \in DOMAIN clauses' : Old(t, r) \/ Now(r)
  PROVE Propagated(pc', at', trail', qhead', clauses', assertionLevel')
<1>1. ASSUME NEW r \in DOMAIN clauses', Old(t, r)
      PROVE Now(r)
  <2> DEFINE N == Visited(pc', at', trail', qhead', assertionLevel', r)
             M == Visited(pc, at, trail, qhead, assertionLevel, r)
  <2>1. /\ r \in DOMAIN clauses /\ clauses'[r] = clauses[r]
        /\ N \subseteq M /\ N \subseteq 1 .. Len(t)
    BY <1>1 DEF Old
  <2>2. Seen(trail, clauses[r], M)
    BY <2>1 DEF Propagated
  <2> HIDE DEF N, M
  <2>3. Seen(trail, clauses[r], N)
    BY <2>1, <2>2, SeenFewer
  <2>4. Seen(t, clauses[r], N)
    BY <2>1, <2>3, Shapes, SeenCut
  <2>5. Seen(trail', clauses[r], N)
    BY <2>1, <2>4, ShapesNext, SeenBegins
  <2> QED BY <2>1, <2>5 DEF Now, N
<1> QED BY <1>1 DEF Propagated, Now

(* A step that leaves qhead and the watches to visit where they are visits   *)
(* nothing new.                                                              *)
LEMMA Unmoved ==
  ASSUME IInv, Begins(trail, trail'), qhead' = qhead, at'.todo = at.todo,
         assertionLevel' = assertionLevel,
         Dirty(pc, at) => Dirty(pc', at') /\ DecisionLevel(trail') = DecisionLevel(trail)
  PROVE Fewer(trail)
<1>1. /\ Len(trail) \in Nat /\ qhead \in 0 .. Len(trail) /\ 1 \in 1 .. Len(trail)
      /\ Shape(trail, assertionLevel)
  BY Facts DEF Shape
<1>2. ASSUME NEW r, NEW i \in Visited(pc', at', trail', qhead', assertionLevel', r)
      PROVE i \in Visited(pc, at, trail, qhead, assertionLevel, r) /\ i \in 1 .. Len(trail)
  <2>1. /\ i \in 1 .. Len(trail')
        /\ i = 1 \/ /\ i <= qhead /\ ~(i = qhead /\ r \in at.todo)
                    /\ Dirty(pc', at') => ~OnTopOf(trail', assertionLevel, i)
    BY <1>2 DEF Visited
  <2>2. i \in 1 .. Len(trail)
    BY <2>1, <1>1
  <2>3. trail'[i].level = trail[i].level /\ trail'[i].ulevel = trail[i].ulevel
    BY <2>2 DEF Begins
  <2>4. Dirty(pc, at) => (OnTopOf(trail', assertionLevel, i) <=> OnTopOf(trail, assertionLevel, i))
    BY <2>3 DEF OnTopOf
  <2> QED BY <2>1, <2>2, <2>4 DEF Visited
<1> QED BY <1>2 DEF Fewer

(* A step that cuts the trail back to what had been visited, below the       *)
(* highest level if a conflict stopped the propagation, visits nothing new.  *)
LEMMA Shortened ==
  ASSUME IInv, NEW t, Keeps(trail, t), at.todo = {},
         \A i \in 1 .. Len(t) : i <= qhead \/ i = 1,
         Dirty(pc, at) => \A i \in 2 .. Len(t) : ~OnTopOf(trail, assertionLevel, i),
         \A i \in 2 .. Len(trail') : i <= qhead' => i <= Len(t)
  PROVE Fewer(t)
<1>1. /\ Len(trail) \in Nat /\ Len(t) \in 1 .. Len(trail)
  BY Facts DEF Keeps
<1>2. ASSUME NEW r, NEW i \in Visited(pc', at', trail', qhead', assertionLevel', r)
      PROVE i \in Visited(pc, at, trail, qhead, assertionLevel, r) /\ i \in 1 .. Len(t)
  <2>1. i \in 1 .. Len(trail') /\ (i = 1 \/ i <= qhead')
    BY <1>2 DEF Visited
  <2>2. i \in 1 .. Len(t)
    BY <2>1, <1>1
  <2>3. i \in 1 .. Len(trail) /\ (i <= qhead \/ i = 1) /\ r \notin at.todo
    BY <2>2, <1>1
  <2>4. i # 1 => (Dirty(pc, at) => ~OnTopOf(trail, assertionLevel, i))
    BY <2>2, <1>1
  <2> QED BY <2>2, <2>3, <2>4 DEF Visited
<1> QED BY <1>2 DEF Fewer

(* Inside a call of the solver it is consistent, and complete as far as it   *)
(* got while the budget lasts.                                               *)
LEMMA Running ==
  ASSUME IInv, CInv, pc \notin {"idle", "solved"}
  PROVE /\ ok = TRUE /\ (at.caller # "addClause" => ~spent)
        /\ ~spent => Propagated(pc, at, trail, qhead, clauses, assertionLevel)
<1>1. ok \in BOOLEAN
  BY DEF IInv, Verdicts
<1>2. ok /\ (at.caller # "addClause" => ~spent)
  BY DEF CInv, Cycle
<1> QED BY <1>1, <1>2 DEF CInv, Complete

(* The conclusion of Carried for a step inside a call.                       *)
LEMMA StillComplete ==
  ASSUME IInv, IInv', CInv, pc \notin {"idle", "solved"}, ok', ~spent' => ~spent,
         NEW t, Shape(t, assertionLevel), Keeps(trail, t), Begins(t, trail'),
         \A r \in DOMAIN clauses' : Old(t, r) \/ Now(r)
  PROVE Complete(pc, at, trail, qhead, clauses, ok, trailOk, spent, assertionLevel)'
BY Running, Carried DEF Complete

(* A step inside a call that changes no clause, only grows the trail and     *)
(* visits nothing new keeps propagation complete.                            *)
LEMMA SameClauses ==
  ASSUME IInv, IInv', CInv, pc \notin {"idle", "solved"}, ok', ~spent' => ~spent,
         clauses' = clauses, Begins(trail, trail'), Fewer(trail)
  PROVE Complete(pc, at, trail, qhead, clauses, ok, trailOk, spent, assertionLevel)'
<1>1. \A r \in DOMAIN clauses' : Old(trail, r)
  BY DEF Fewer, Old
<1>2. Shape(trail, assertionLevel) /\ Keeps(trail, trail)
  BY Shapes, BeginsItself
<1> QED BY <1>1, <1>2, StillComplete

(* propagateBool takes the next literal: the position becomes visited for    *)
(* each clause that does not watch it.                                       *)
LEMMA BeginPropagateAnswers ==
  ASSUME IInv, IInv', CInv, ~spent, BeginPropagate
  PROVE CInv'
<1>1. /\ pc = "propagate" /\ UNCHANGED <<clauses, trail, qhead, lemmas, Inside>>
      /\ pc' = IF lemmas # <<>> THEN "lemmas" ELSE IF FinalCheck(at) THEN "theory" ELSE "bool"
      /\ at' = [at EXCEPT !.recheck = FALSE, !.from = "entry", !.conflict = Undef]
  BY DEF BeginPropagate
<1>2. /\ at \in Locals /\ at.conflict = Undef /\ Shape(trail, assertionLevel) /\ at.todo = {}
  BY <1>1, Facts
<1>3. at'.caller = at.caller /\ at'.check = at.check /\ at'.todo = {} /\ at'.conflict = Undef
  BY <1>1, <1>2, Begun
<1>4. UNCHANGED <<assertionLevel, ok, spent, trailOk>>
  BY <1>1 DEF Inside, Fixed
<1>5. Cycle(pc, at, trail, qhead, lemmas, ok, spent)'
  BY <1>1, <1>3, <1>4 DEF CInv, Cycle, FinalCheck
<1>6. Pointer(pc, at, trail, qhead, assertionLevel, ok, spent)'
  BY <1>1, <1>2, <1>3, <1>4 DEF CInv, Pointer
<1>7. FromTheory(lemmas, trail)'
  BY <1>1 DEF CInv
<1>8. Begins(trail, trail')
  BY <1>1, <1>2, BeginsItself
<1>9. Fewer(trail)
  BY <1>1, <1>2, <1>3, <1>4, <1>8, Unmoved DEF Dirty
<1> QED BY <1>1, <1>4, <1>5, <1>6, <1>7, <1>8, <1>9, Running, SameClauses DEF CInv

(* A step inside a call that moves nothing but the program counter and       *)
(* forgets no conflict keeps CInv.                                           *)
LEMMA Resting ==
  ASSUME IInv, IInv', CInv, ~spent, UNCHANGED <<clauses, trail, qhead, assertionLevel, ok, spent>>,
         pc \notin {"idle", "solved"}, at'.todo = at.todo, Dirty(pc, at) => Dirty(pc', at'),
         lemmas = <<>> \/ lemmas' = lemmas, lemmas' = lemmas, pc' # "attach",
         Cycle(pc, at, trail, qhead, lemmas, ok, spent)'
  PROVE CInv'
<1>1. Pointer(pc, at, trail, qhead, assertionLevel, ok, spent)'
  BY DEF CInv, Pointer
<1>2. FromTheory(lemmas, trail)'
  BY DEF CInv
<1>3. Begins(trail, trail')
  BY Shapes, BeginsItself
<1>4. Fewer(trail)
  BY <1>3, Unmoved
<1> QED BY <1>1, <1>2, <1>3, <1>4, Running, SameClauses DEF CInv

(* propagateBool ends: all is propagated.                                    *)
LEMMA EndOfQueueAnswers ==
  ASSUME IInv, IInv', CInv, ~spent, EndOfQueue
  PROVE CInv'
<1>1. /\ pc = "bool" /\ at.todo = {} /\ qhead = Len(trail)
      /\ pc' = IF at.caller = "search" THEN "theory" ELSE "return"
      /\ UNCHANGED <<clauses, trail, qhead, lemmas, at, Inside>>
  BY DEF EndOfQueue
<1>2. UNCHANGED <<assertionLevel, ok, spent, trailOk>>
  BY <1>1 DEF Inside, Fixed
<1>3. at.caller \in {"search", "addClause"} /\ at.conflict = Undef
  BY <1>1, Facts, LocalsFacts
<1>4. Cycle(pc, at, trail, qhead, lemmas, ok, spent)'
  BY <1>1, <1>2, <1>3 DEF CInv, Cycle
<1> QED BY <1>1, <1>2, <1>3, <1>4, Resting DEF Dirty

(* A lemma of removed variables stops the model: nothing moves.              *)
LEMMA ReadRemovedVariableAnswers ==
  ASSUME IInv, IInv', CInv, ~spent, ReadRemovedVariable
  PROVE CInv'
<1>1. /\ pc = "propagate" /\ lemmas # <<>> /\ pc' = "undefined"
      /\ UNCHANGED <<clauses, trail, qhead, lemmas, at, Inside>>
  BY DEF ReadRemovedVariable, Dangling
<1>2. UNCHANGED <<assertionLevel, ok, spent, trailOk>>
  BY <1>1 DEF Inside, Fixed
<1>3. at.conflict = Undef
  BY <1>1, Facts
<1>4. Cycle(pc, at, trail, qhead, lemmas, ok, spent)'
  BY <1>1, <1>2 DEF CInv, Cycle
<1> QED BY <1>1, <1>2, <1>3, <1>4, Resting DEF Dirty

(* The budget suffices: nothing moves.                                       *)
LEMMA WithinBudgetAnswers ==
  ASSUME IInv, IInv', CInv, ~spent, WithinBudget
  PROVE CInv'
<1>1. /\ pc = "return" /\ at.caller = "search" /\ at.conflict = Undef /\ pc' = "decide"
      /\ UNCHANGED <<clauses, trail, qhead, lemmas, at, Inside>>
  BY DEF WithinBudget, Searching
<1>2. UNCHANGED <<assertionLevel, ok, spent, trailOk>>
  BY <1>1 DEF Inside, Fixed
<1>3. Cycle(pc, at, trail, qhead, lemmas, ok, spent)'
  BY <1>1, <1>2 DEF CInv, Cycle
<1> QED BY <1>1, <1>2, <1>3, Resting DEF Dirty

(* updateLemmas ends: no lemma remains.                                      *)
LEMMA LemmasUpdatedAnswers ==
  ASSUME IInv, IInv', CInv, ~spent, LemmasUpdated
  PROVE CInv'
<1>1. /\ pc = "attach" /\ lemmas = <<>>
      /\ pc' = IF at.conflict # Undef THEN "return"
               ELSE IF at.from = "theory" THEN Round(trail)
               ELSE IF FinalCheck(at) THEN "theory" ELSE "bool"
      /\ at' = [at EXCEPT !.bound = 0]
      /\ UNCHANGED <<clauses, trail, qhead, lemmas, Inside>>
  BY DEF LemmasUpdated
<1>2. UNCHANGED <<assertionLevel, ok, spent, trailOk>>
  BY <1>1 DEF Inside, Fixed
<1>3. at \in Locals /\ 0 \in Nat
  BY Facts
<1>4. /\ at'.caller = at.caller /\ at'.check = at.check /\ at'.todo = at.todo
      /\ at'.conflict = at.conflict
  BY <1>1, <1>3, NewBound
<1>5. pc' \in {"return", "bool", "theory"}
  BY <1>1 DEF Round
<1>6. at.caller # "addClause"
  BY <1>1 DEF CInv, Cycle
<1>7. Cycle(pc, at, trail, qhead, lemmas, ok, spent)'
  BY <1>1, <1>2, <1>4, <1>5, <1>6 DEF CInv, Cycle
<1>8. Dirty(pc, at) => Dirty(pc', at')
  BY <1>1, <1>4 DEF Dirty
<1> QED BY <1>1, <1>2, <1>4, <1>5, <1>7, <1>8, Resting

(* Analysis starts from the conflict that propagation returned.              *)
LEMMA BeginAnalyzeAnswers ==
  ASSUME IInv, IInv', CInv, ~spent, BeginAnalyze
  PROVE CInv'
<1>1. /\ pc = "return" /\ at.caller = "search" /\ pc' = "analyze"
      /\ UNCHANGED <<clauses, trail, qhead, lemmas, Inside>>
  BY DEF BeginAnalyze, Searching
<1>2. PICK S, n : at' = [at EXCEPT !.res = S, !.maxlevel = n, !.conflict = Undef]
  BY DEF BeginAnalyze
<1>3. at \in Locals /\ at.todo = {}
  BY <1>1, Facts
<1>4. at'.caller = at.caller /\ at'.todo = at.todo
  BY <1>2, <1>3 DEF Locals
<1>5. UNCHANGED <<assertionLevel, ok, spent, trailOk>>
  BY <1>1 DEF Inside, Fixed
<1>6. Cycle(pc, at, trail, qhead, lemmas, ok, spent)'
  BY <1>1, <1>4, <1>5 DEF CInv, Cycle
<1>7. Dirty(pc', at')
  BY <1>1 DEF Dirty
<1> QED BY <1>1, <1>4, <1>5, <1>6, <1>7, Resting

(* A step of resolution only changes the resolvent.                          *)
LEMMA ResolveAnswers ==
  ASSUME IInv, IInv', CInv, ~spent, Resolve
  PROVE CInv'
<1>1. /\ pc = "analyze" /\ UNCHANGED <<clauses, trail, qhead, lemmas, pc, Inside>>
  BY DEF Resolve
<1>2. PICK S, n : at' = [at EXCEPT !.res = S, !.maxlevel = n]
  BY DEF Resolve
<1>3. at \in Locals
  BY Facts
<1>4. at'.caller = at.caller /\ at'.todo = at.todo
  BY <1>2, <1>3 DEF Locals
<1>5. UNCHANGED <<assertionLevel, ok, spent, trailOk, pc>>
  BY <1>1 DEF Inside, Fixed
<1>6. Cycle(pc, at, trail, qhead, lemmas, ok, spent)'
  BY <1>1, <1>4, <1>5 DEF CInv, Cycle
<1>7. Dirty(pc', at')
  BY <1>1 DEF Dirty
<1> QED BY <1>1, <1>4, <1>5, <1>6, <1>7, Resting

(* A literal of the theory is put on the trail: it has not been visited.     *)
LEMMA TakeLiteralAnswers ==
  ASSUME IInv, IInv', CInv, ~spent, TakeLiteral
  PROVE CInv'
<1>1. /\ pc = "bool" /\ at.todo = {} /\ qhead < Len(trail) /\ qhead' = qhead + 1
      /\ at' = [at EXCEPT !.todo = Watchers(trail[qhead + 1].lit)]
      /\ UNCHANGED <<clauses, trail, lemmas, pc, Inside>>
  BY DEF TakeLiteral
<1>2. UNCHANGED <<assertionLevel, ok, spent, trailOk>>
  BY <1>1 DEF Inside, Fixed
<1>3. /\ at \in Locals /\ at.conflict = Undef /\ Shape(trail, assertionLevel)
      /\ qhead \in 0 .. Len(trail) /\ Len(trail) \in Nat /\ DOMAIN clauses \subseteq Nat \ {0}
  BY <1>1, Facts
<1>4. Watchers(trail[qhead + 1].lit) \in SUBSET Nat
  BY <1>3 DEF Watchers
<1>5. /\ at'.caller = at.caller /\ at'.check = at.check /\ at'.conflict = Undef
      /\ at'.todo = Watchers(trail[qhead + 1].lit)
  BY <1>1, <1>3, <1>4, NewTodo
<1>6. Cycle(pc, at, trail, qhead, lemmas, ok, spent)'
  BY <1>1, <1>2, <1>5 DEF CInv, Cycle
<1>7. Pointer(pc, at, trail, qhead, assertionLevel, ok, spent)'
  BY <1>1, <1>2, <1>3 DEF CInv, Pointer
<1>8. FromTheory(lemmas, trail)'
  BY <1>1 DEF CInv
<1>9. ASSUME NEW r \in DOMAIN clauses,
             Propagated(pc, at, trail, qhead, clauses, assertionLevel)
      PROVE Seen(trail, clauses[r], Visited(pc, at', trail, qhead', assertionLevel, r))
  <2> DEFINE N == Visited(pc, at', trail, qhead', assertionLevel, r)
             M == Visited(pc, at, trail, qhead, assertionLevel, r)
             c == clauses[r]
             p == trail[qhead + 1].lit
  <2>1. Seen(trail, c, M)
    BY <1>9 DEF Propagated
  <2>2. N \subseteq M \cup {qhead + 1}
    <3>1. ~Dirty(pc, at)
      BY <1>1, <1>3 DEF Dirty
    <3> QED BY <3>1, <1>1, <1>3 DEF Visited
  <2>3. CASE qhead + 1 \in N /\ qhead # 0
    <3>1. r \notin Watchers(p)
      BY <2>3, <1>1, <1>3, <1>5 DEF Visited
    <3>2. -p # c.w[1] /\ -p # c.w[2]
      BY <3>1 DEF Watchers
    <3>3. p \in Literals /\ c.w[1] \in Literals /\ c.w[2] \in Literals
      BY <1>1, <1>3, EntryFacts, Shapes DEF Watching
    <3>4. p # -c.w[1] /\ p # -c.w[2]
      BY <3>2, <3>3, LitFacts
    <3>5. Watched(trail, c, M) => Watched(trail, c, N)
      <4> HIDE DEF N, M, c
      <4>1. \A x \in {qhead + 1} : trail[x].lit # -c.w[1] /\ trail[x].lit # -c.w[2]
        BY <3>4
      <4> QED BY <2>2, <4>1, WatchedFewer
    <3> QED BY <2>1, <3>5 DEF Seen
  <2>4. CASE ~(qhead + 1 \in N /\ qhead # 0)
    <3>1. N \subseteq M
      <4>1. 1 \in M
        BY <1>3 DEF Visited, Shape
      <4> HIDE DEF M, N
      <4> QED BY <2>2, <2>4, <4>1, <1>3
    <3> QED BY <2>1, <3>1, SeenFewer
  <2> QED BY <2>3, <2>4
<1>10. Complete(pc, at, trail, qhead, clauses, ok, trailOk, spent, assertionLevel)'
  <2>1. ~spent => Propagated(pc, at', trail, qhead', clauses, assertionLevel)
    BY <1>1, <1>9, Running DEF Propagated
  <2> QED BY <2>1, <1>1, <1>2, Running DEF Complete
<1> QED BY <1>6, <1>7, <1>8, <1>10 DEF CInv

(* What a pop can restore stays when the trail is cut back.                  *)
LEMMA RestorableCut ==
  ASSUME NEW t, NEW u, NEW al, Shape(t, al), Keeps(t, u), NEW db,
         \A r \in DOMAIN db : Watching(db[r]), NEW oks, Restorable(oks, t, db, al)
  PROVE Restorable(oks, u, db, al)
<1>1. ASSUME NEW k \in 0 .. al - 1, oks[k + 1], NEW r \in DOMAIN db, db[r].level <= k
      PROVE Seen(u, db[r], OfLevel(u, k))
  <2>1. Seen(t, db[r], OfLevel(t, k))
    BY <1>1 DEF Restorable
  <2>2. OfLevel(u, k) \subseteq OfLevel(t, k) /\ OfLevel(u, k) \subseteq 1 .. Len(u)
    <3>1. Len(t) \in Nat
      BY DEF Shape
    <3> QED BY <3>1 DEF OfLevel, Keeps, Begins
  <2> HIDE DEF OfLevel
  <2> QED BY <2>1, <2>2, SeenFewer, SeenCut
<1> QED BY <1>1 DEF Restorable

(* The solver becomes inconsistent: what has been propagated so far suffices *)
(* for every lower level, since all that has not been is of the present user *)
(* level.                                                                    *)
LEMMA ShutDown ==
  ASSUME IInv, Pointer(pc, at, trail, qhead, assertionLevel, ok, spent),
         Propagated(pc, at, trail, qhead, clauses, assertionLevel), ok, ~spent
  PROVE Restorable(trailOk, trail, clauses, assertionLevel)
<1>0. Len(trail) \in Nat /\ qhead \in 0 .. Len(trail) /\ assertionLevel \in Nat
  BY Facts
<1>1. ASSUME NEW k \in 0 .. assertionLevel - 1, NEW r \in DOMAIN clauses
      PROVE Seen(trail, clauses[r], OfLevel(trail, k))
  <2>1. Seen(trail, clauses[r], Visited(pc, at, trail, qhead, assertionLevel, r))
    BY DEF Propagated
  <2>2. ASSUME NEW i \in OfLevel(trail, k)
        PROVE i \in Visited(pc, at, trail, qhead, assertionLevel, r)
    <3>1. i \in 1 .. Len(trail) /\ trail[i].ulevel <= k
      BY DEF OfLevel
    <3>2. trail[i].ulevel # assertionLevel
      BY <3>1, <1>0
    <3>3. ~OnTopOf(trail, assertionLevel, i)
      BY <3>2 DEF OnTopOf
    <3>4. i # 1 => ~(i > qhead) /\ ~(i = qhead /\ at.todo # {})
      BY <3>1, <3>2 DEF Pointer
    <3> QED BY <3>1, <3>3, <3>4, <1>0 DEF Visited
  <2> QED BY <2>1, <2>2, SeenFewer
<1> QED BY <1>1 DEF Restorable

(* After a call, resetTrail goes back to decision level zero.                *)
LEMMA ResetTrailAnswers ==
  ASSUME IInv, IInv', CInv, ~spent, ResetTrail
  PROVE CInv'
<1> DEFINE t == CancelUntil(trail, 0)
<1>1. /\ pc = "solved" /\ pc' = "idle" /\ at' = Start("search") /\ trail' = t
      /\ qhead' = IF DecisionLevel(trail) > 0 THEN Len(t) ELSE qhead
      /\ UNCHANGED <<clauses, assertionLevel, ok, trailOk, lemmas, spent>>
  BY DEF ResetTrail
<1>2. /\ at.todo = {} /\ at.conflict = Undef /\ Shape(trail, assertionLevel)
      /\ Len(trail) \in Nat /\ DecisionLevel(trail) \in Nat /\ qhead \in 0 .. Len(trail)
  BY <1>1, Facts
<1>0. lemmas = <<>>
  BY <1>1 DEF CInv, Cycle
<1>3. /\ at'.caller = "search" /\ at'.check = "theory" /\ at'.todo = {} /\ at'.conflict = Undef
  BY <1>1, StartFacts
<1>4. /\ Keeps(trail, t) /\ (DecisionLevel(trail) <= 0 => t = trail)
      /\ Shape(t, assertionLevel) /\ Len(t) \in 1 .. Len(trail)
  BY <1>2, CancelKeeps, CancelFacts
<1> HIDE DEF t
<1>5. DecisionLevel(trail) = 0 => trail' = trail /\ qhead' = qhead
  BY <1>1, <1>4
<1>6. DecisionLevel(trail) > 0 => qhead' = Len(trail')
  BY <1>1
<1>7. Cycle(pc, at, trail, qhead, lemmas, ok, spent)'
  BY <1>0, <1>1, <1>2, <1>3, <1>5, <1>6 DEF CInv, Cycle
<1>8. Pointer(pc, at, trail, qhead, assertionLevel, ok, spent)'
  <2>1. CASE DecisionLevel(trail) = 0
    BY <2>1, <1>1, <1>2, <1>3, <1>5 DEF CInv, Pointer
  <2>2. CASE DecisionLevel(trail) > 0
    <3>1. \A i \in 2 .. Len(trail') : ~(i > qhead')
      BY <2>2, <1>6, <1>4, <1>1
    <3> QED BY <3>1, <1>1, <1>3 DEF Pointer
  <2> QED BY <2>1, <2>2, <1>2
<1>9. FromTheory(lemmas, trail)'
  BY <1>0, <1>1 DEF FromTheory
<1>10. Complete(pc, at, trail, qhead, clauses, ok, trailOk, spent, assertionLevel)'
  <2>1. CASE ok /\ ~spent
    <3>1. Propagated(pc, at, trail, qhead, clauses, assertionLevel)
      BY <2>1 DEF CInv, Complete
    <3>2. qhead = Len(trail) \/ Len(trail) = 1
      BY <2>1, <1>1 DEF CInv, Cycle
    <3>3. \A i \in 1 .. Len(t) : i <= qhead \/ i = 1
      <4>1. \A i \in 1 .. Len(t) : i <= Len(trail)
        BY <1>2, <1>4
      <4>2. CASE qhead = Len(trail)
        BY <4>1, <4>2
      <4>3. CASE Len(trail) = 1
        BY <4>1, <4>3
      <4> QED BY <3>2, <4>2, <4>3
    <3>4. ~Dirty(pc, at)
      BY <1>1, <1>2 DEF Dirty
    <3>5. \A i \in 2 .. Len(trail') : i <= qhead' => i <= Len(t)
      BY <1>1, <1>4
    <3>6. Fewer(t)
      BY <1>2, <1>4, <3>3, <3>4, <3>5, Shortened
    <3>7. Begins(t, trail')
      BY <1>1, <1>4, BeginsItself
    <3>8. \A r \in DOMAIN clauses' : Old(t, r)
      BY <3>6, <1>1 DEF Fewer, Old
    <3>9. Propagated(pc', at', trail', qhead', clauses', assertionLevel')
      BY <1>4, <3>1, <3>7, <3>8, Carried
    <3> QED BY <3>9, <2>1, <1>1 DEF Complete
  <2>2. CASE ~ok /\ ~spent
    <3>1. Restorable(trailOk, trail, clauses, assertionLevel)
      BY <2>2 DEF CInv, Complete
    <3>2. Restorable(trailOk, t, clauses, assertionLevel)
      BY <3>1, <1>2, <1>4, Shapes, RestorableCut
    <3> QED BY <3>2, <2>2, <1>1 DEF Complete
  <2> QED BY <2>1, <2>2, <1>1 DEF Complete
<1> QED BY <1>7, <1>8, <1>9, <1>10 DEF CInv

(* A backjump inside a call keeps propagation complete if it goes below the  *)
(* level of the conflict.                                                    *)
LEMMA CutComplete ==
  ASSUME IInv, IInv', CInv, pc \notin {"idle", "solved"}, ok', ~spent' => ~spent,
         NEW d \in Nat, trail' = CancelUntil(trail, d), clauses' = clauses, at.todo = {},
         \A i \in 1 .. Len(trail') : i <= qhead \/ i = 1,
         Dirty(pc, at) => \A i \in 2 .. Len(trail') : ~OnTopOf(trail, assertionLevel, i)
  PROVE Complete(pc, at, trail, qhead, clauses, ok, trailOk, spent, assertionLevel)'
<1>1. Keeps(trail, trail') /\ Shape(trail', assertionLevel) /\ Len(trail') \in Nat
  <2>1. Shape(trail, assertionLevel)
    BY Shapes
  <2>2. Keeps(trail, CancelUntil(trail, d)) /\ Shape(CancelUntil(trail, d), assertionLevel)
    BY <2>1, CancelKeeps, CancelFacts
  <2> QED BY <2>2 DEF Shape
<1>2. Begins(trail', trail')
  BY <1>1, BeginsItself
<1>3. \A i \in 2 .. Len(trail') : i <= qhead' => i <= Len(trail')
  BY <1>1
<1>4. Fewer(trail')
  BY <1>1, <1>3, Shortened
<1>5. \A r \in DOMAIN clauses' : Old(trail', r)
  BY <1>4 DEF Fewer, Old
<1> QED BY <1>1, <1>2, <1>5, StillComplete

(* A literal false on decision and user level zero is false at the bottom.   *)
LEMMA RootLiteral ==
  ASSUME NEW t, NEW al, Shape(t, al), NEW l \in Literals, IsFalse(t, l),
         LevelOf(t, l) = 0, UserLevelOf(t, l) = 0
  PROVE FalseAtRoot(t, l)
<1>1. At(t, l) \in 1 .. Len(t) /\ t[At(t, l)].lit = -l
  BY AtFalse
<1> QED BY <1>1 DEF FalseAtRoot, LevelOf, UserLevelOf

(* A clause of the theory that is queued loses literals that are false at    *)
(* the bottom, and no others.                                                *)
LEMMA QueuedFromTheory ==
  ASSUME NEW t, NEW al, Shape(t, al), NEW q, q \in Seq(LemmaType), FromTheory(q, t),
         NEW L \in Theory, NEW removable \in BOOLEAN
  PROVE /\ FromTheory(QueueLemma(q, t, L, removable), t)
        /\ QueueLemma(q, t, L, removable) \in Seq(LemmaType)
<1> DEFINE p == QueueLemma(q, t, L, removable)
           e == [w |-> <<>>, rest |-> Kept(t, L), sorted |-> FALSE, removable |-> removable,
                 dangling |-> FALSE]
<1>1. CASE Ignored(t, L)
  <2>1. p = q
    BY <1>1 DEF QueueLemma
  <2> QED BY <2>1
<1>2. CASE ~Ignored(t, L)
  <2>1. L \subseteq AtomLits
    BY Constants
  <2>2. e \in LemmaType
    <3> DEFINE E == <<>>
    <3>1. E \in Seq(AtomLits)
      OBVIOUS
    <3>2. Kept(t, L) \subseteq L
      BY DEF Kept
    <3> HIDE DEF E
    <3>3. [w |-> E, rest |-> Kept(t, L), sorted |-> FALSE, removable |-> removable,
           dangling |-> FALSE] \in LemmaType
      BY <2>1, <3>1, <3>2 DEF LemmaType
    <3> QED BY <3>3 DEF E
  <2>3. LemmaLits(e) = Kept(t, L)
    <3>1. e.w = <<>> /\ e.rest = Kept(t, L)
      OBVIOUS
    <3> QED BY <2>2, <3>1, QueueFacts
  <2>4. p = Append(q, e)
    BY <1>2 DEF QueueLemma
  <2>5. Rooted(t, Kept(t, L))
    <3>1. ASSUME NEW l \in L \ Kept(t, L)
          PROVE FalseAtRoot(t, l)
      <4>1. IsFalse(t, l) /\ LevelOf(t, l) = 0 /\ UserLevelOf(t, l) = 0
        BY <3>1 DEF Kept, AtBottom
      <4> QED BY <4>1, <2>1, AtomLitFacts, RootLiteral
    <3> QED BY <3>1 DEF Rooted
  <2> HIDE DEF e, p
  <2>6. /\ p \in Seq(LemmaType) /\ Len(p) = Len(q) + 1 /\ p[Len(q) + 1] = e
        /\ Len(q) \in Nat /\ \A k \in 1 .. Len(q) : p[k] = q[k]
    BY <2>2, <2>4
  <2>7. \A k \in 1 .. Len(p) : k \in 1 .. Len(q) \/ k = Len(q) + 1
    BY <2>6
  <2>8. FromTheory(p, t)
    BY <2>3, <2>5, <2>6, <2>7 DEF FromTheory
  <2> QED BY <2>6, <2>8 DEF p
<1> QED BY <1>1, <1>2

(* The lemma that the preregistration of a variable may add is a clause of   *)
(* the theory.                                                               *)
LEMMA RegisteredFromTheory ==
  ASSUME NEW t, NEW al, Shape(t, al), NEW q, q \in Seq(LemmaType), FromTheory(q, t),
         NEW bounds, Registration(q, t, bounds)
  PROVE FromTheory(lemmas', t)
<1>1. CASE lemmas' = q
  BY <1>1
<1>2. ASSUME NEW L \in Theory, lemmas' = QueueLemma(q, t, L, FALSE)
      PROVE FromTheory(lemmas', t)
  <2>1. PICK b \in BOOLEAN : b = FALSE
    OBVIOUS
  <2>2. FromTheory(QueueLemma(q, t, L, b), t)
    BY QueuedFromTheory
  <2> QED BY <1>2, <2>1, <2>2
<1> QED BY <1>1, <1>2 DEF Registration

(* The queue stays the theory's when the trail grows.                        *)
LEMMA FromTheoryBegins ==
  ASSUME NEW t, NEW u, NEW al, Shape(t, al), Begins(t, u), Len(u) \in Nat, NEW q,
         FromTheory(q, t)
  PROVE FromTheory(q, u)
BY RootedBegins DEF FromTheory

(* The queue stays the theory's when the trail is cut back.                  *)
LEMMA FromTheoryCut ==
  ASSUME NEW t, NEW u, NEW al, Shape(t, al), Keeps(t, u), NEW q, FromTheory(q, t)
  PROVE FromTheory(q, u)
BY RootedCut DEF FromTheory

(* A restart goes back to decision level zero. An engine that could be       *)
(* called again would here forget the conflict it was interrupted in.        *)
LEMMA RestartAnswers ==
  ASSUME IInv, IInv', CInv, ~spent, Restart
  PROVE CInv'
<1>1. /\ pc = "return" /\ at.caller = "search" /\ at.conflict = Undef /\ at.check = "theory"
      /\ trail' = CancelUntil(trail, 0) /\ qhead' = Len(trail') /\ at' = Start("search")
      /\ UNCHANGED <<clauses, ok, trailOk, assertionLevel>>
      /\ \/ pc' = "propagate" /\ spent' = spent
         \/ pc' = "solved" /\ spent' = TRUE
  BY DEF Restart, Searching, Fixed
<1>2. /\ lemmas = <<>> /\ at.todo = {} /\ Shape(trail, assertionLevel)
      /\ Len(trail) \in Nat /\ 0 \in Nat
  BY <1>1, Facts
<1>3. /\ at'.caller = "search" /\ at'.check = "theory" /\ at'.todo = {} /\ at'.conflict = Undef
  BY <1>1, StartFacts
<1>4. ok
  BY <1>1, Running
<1>5. qhead = Len(trail)
  BY <1>1 DEF IInv, Protocol
<1>6. /\ Len(CancelUntil(trail, 0)) \in 1 .. Len(trail)
      /\ Shape(CancelUntil(trail, 0), assertionLevel)
  BY <1>2, CancelFacts
<1>7. Len(trail') \in 1 .. Len(trail) /\ Shape(trail', assertionLevel)
  BY <1>1, <1>6
<1>8. Cycle(pc, at, trail, qhead, lemmas, ok, spent)'
  BY <1>1, <1>3, <1>4 DEF Cycle
<1>9. Pointer(pc, at, trail, qhead, assertionLevel, ok, spent)'
  <2>1. \A i \in 2 .. Len(trail') : ~(i > qhead')
    BY <1>1, <1>7
  <2> QED BY <2>1, <1>1, <1>3 DEF Pointer
<1>10. FromTheory(lemmas, trail)'
  <2>1. CASE lemmas' = lemmas
    BY <1>2, <2>1 DEF FromTheory
  <2>2. ASSUME NEW bounds, Registration(lemmas, trail', bounds) PROVE <1>10
    <3>1. PICK u : u = trail'
      OBVIOUS
    <3>2. /\ Registration(lemmas, u, bounds) /\ Shape(u, assertionLevel)
          /\ lemmas \in Seq(LemmaType) /\ FromTheory(lemmas, u)
      BY <1>2, <1>7, <2>2, <3>1 DEF FromTheory
    <3>3. FromTheory(lemmas', u)
      BY <3>2, RegisteredFromTheory
    <3> QED BY <3>1, <3>3
  <2> QED BY <2>1, <2>2 DEF Restart
<1>11. Complete(pc, at, trail, qhead, clauses, ok, trailOk, spent, assertionLevel)'
  <2>1. \A i \in 1 .. Len(trail') : i <= qhead
    BY <1>2, <1>5, <1>7
  <2>2. ~Dirty(pc, at)
    BY <1>1 DEF Dirty
  <2> QED BY <2>1, <2>2, <1>1, <1>2, <1>4, CutComplete
<1> QED BY <1>8, <1>9, <1>10, <1>11 DEF CInv

(* addClause ends: with a conflict the solver is inconsistent from then on.  *)
LEMMA EndAddClauseAnswers ==
  ASSUME IInv, IInv', CInv, ~spent, EndAddClause
  PROVE CInv'
<1>1. /\ pc = "return" /\ at.caller = "addClause" /\ ok' = (at.conflict = Undef)
      /\ pc' = "idle" /\ at' = Start("search")
      /\ UNCHANGED <<clauses, trail, qhead, assertionLevel, trailOk, lemmas, spent>>
  BY DEF EndAddClause
<1>2. /\ lemmas = <<>> /\ at.todo = {} /\ Shape(trail, assertionLevel) /\ Len(trail) \in Nat
  BY <1>1, Facts
<1>3. /\ at'.caller = "search" /\ at'.check = "theory" /\ at'.todo = {} /\ at'.conflict = Undef
  BY <1>1, StartFacts
<1>4. at.conflict = Undef => qhead = Len(trail)
  BY <1>1 DEF CInv, Cycle
<1>5. Cycle(pc, at, trail, qhead, lemmas, ok, spent)'
  BY <1>1, <1>2, <1>3, <1>4 DEF Cycle
<1>6. Pointer(pc, at, trail, qhead, assertionLevel, ok, spent)'
  <2>1. ok
    BY <1>1 DEF CInv, Cycle
  <2> QED BY <1>1, <1>2, <1>3, <2>1 DEF CInv, Pointer
<1>7. FromTheory(lemmas, trail)'
  BY <1>1, <1>2 DEF FromTheory
<1>8. Complete(pc, at, trail, qhead, clauses, ok, trailOk, spent, assertionLevel)'
  <2>1. CASE at.conflict = Undef
    <3>1. Begins(trail, trail')
      BY <1>1, <1>2, BeginsItself
    <3>2. ~Dirty(pc, at)
      BY <1>1, <2>1 DEF Dirty
    <3>3. Fewer(trail)
      BY <1>1, <1>2, <1>3, <3>1, <3>2, Unmoved
    <3> QED BY <3>1, <3>3, <2>1, <1>1, SameClauses
  <2>2. CASE at.conflict # Undef
    <3>1. ~spent => Restorable(trailOk, trail, clauses, assertionLevel)
      BY <1>1, Running, ShutDown DEF CInv
    <3> QED BY <3>1, <2>2, <1>1 DEF Complete
  <2> QED BY <2>1, <2>2
<1> QED BY <1>5, <1>6, <1>7, <1>8 DEF CInv

(* A conflict on decision level zero: the solver is inconsistent from then   *)
(* on.                                                                       *)
LEMMA ConflictAtTopLevelAnswers ==
  ASSUME IInv, IInv', CInv, ~spent, ConflictAtTopLevel
  PROVE CInv'
<1>1. /\ pc = "return" /\ at.caller = "search" /\ pc' = "solved" /\ at' = Start("search")
      /\ UNCHANGED <<clauses, trail, qhead, lemmas, assertionLevel, trailOk>>
      /\ \/ ok' = FALSE /\ spent' = spent
         \/ ok' = ok /\ spent' = TRUE
  BY DEF ConflictAtTopLevel, Searching, EndSolve, Fixed
<1>2. /\ lemmas = <<>> /\ at.todo = {} /\ Shape(trail, assertionLevel) /\ Len(trail) \in Nat
  BY <1>1, Facts
<1>3. /\ at'.caller = "search" /\ at'.check = "theory" /\ at'.todo = {} /\ at'.conflict = Undef
  BY <1>1, StartFacts
<1>4. Cycle(pc, at, trail, qhead, lemmas, ok, spent)'
  BY <1>1, <1>2, <1>3 DEF Cycle
<1>5. Pointer(pc, at, trail, qhead, assertionLevel, ok, spent)'
  BY <1>1, <1>2, <1>3 DEF CInv, Pointer
<1>6. FromTheory(lemmas, trail)'
  BY <1>1, <1>2 DEF FromTheory
<1>7. Restorable(trailOk, trail, clauses, assertionLevel)
  BY <1>1, Running, ShutDown DEF CInv
<1>8. Complete(pc, at, trail, qhead, clauses, ok, trailOk, spent, assertionLevel)'
  BY <1>1, <1>7 DEF Complete
<1> QED BY <1>4, <1>5, <1>6, <1>8 DEF CInv

(* The theory's final check was clean, or its lemmas need another round of   *)
(* propagation.                                                              *)
LEMMA AfterFinalCheckAnswers ==
  ASSUME IInv, IInv', CInv, ~spent, AfterFinalCheck
  PROVE CInv'
<1>1. /\ pc = "return" /\ at.caller = "search" /\ at.conflict = Undef
      /\ UNCHANGED <<clauses, trail, qhead, lemmas, assertionLevel, trailOk>>
      /\ \/ pc' = "propagate" /\ UNCHANGED <<ok, spent>> /\ (at' = at \/ at' = Start("search"))
         \/ /\ ~(qhead < Len(trail)) /\ pc' = "solved" /\ at' = Start("search")
            /\ \/ ok' = TRUE /\ spent' = spent
               \/ ok' = ok /\ spent' = TRUE
  BY DEF AfterFinalCheck, Searching, EndSolve, Fixed
<1>2. /\ lemmas = <<>> /\ at.todo = {} /\ Shape(trail, assertionLevel) /\ Len(trail) \in Nat
      /\ qhead \in 0 .. Len(trail)
  BY <1>1, Facts
<1>3. /\ at'.caller = "search" /\ at'.todo = {} /\ at'.conflict = Undef
  BY <1>1, <1>2, StartFacts
<1>4. ok /\ ~spent
  BY <1>1, Running
<1>5. Cycle(pc, at, trail, qhead, lemmas, ok, spent)'
  <2>1. CASE pc' = "propagate"
    BY <2>1, <1>1, <1>3, <1>4 DEF Cycle
  <2>2. CASE pc' = "solved"
    <3>1. qhead = Len(trail)
      BY <2>2, <1>1, <1>2
    <3> QED BY <3>1, <2>2, <1>1, <1>2, <1>3 DEF Cycle
  <2> QED BY <2>1, <2>2, <1>1
<1>6. Pointer(pc, at, trail, qhead, assertionLevel, ok, spent)'
  BY <1>1, <1>2, <1>3 DEF CInv, Pointer
<1>7. FromTheory(lemmas, trail)'
  BY <1>1, <1>2 DEF FromTheory
<1>8. Begins(trail, trail')
  BY <1>1, <1>2, BeginsItself
<1>9. Fewer(trail)
  <2>1. ~Dirty(pc, at)
    BY <1>1 DEF Dirty
  <2> QED BY <1>1, <1>2, <1>3, <1>8, <2>1, Unmoved
<1>10. Complete(pc, at, trail, qhead, clauses, ok, trailOk, spent, assertionLevel)'
  <2>1. ok'
    BY <1>1, <1>4
  <2> QED BY <1>1, <1>4, <1>8, <1>9, <2>1, SameClauses
<1> QED BY <1>5, <1>6, <1>7, <1>10 DEF CInv

(* Clauses that are gone need not be propagated.                             *)
LEMMA Removed ==
  ASSUME IInv, IInv', CInv, ~spent, pc = "decide", UNCHANGED <<qhead, lemmas, pc, at, Inside>>,
         NEW R, clauses' = Detach(clauses, R), Begins(trail, trail'), Len(trail') = Len(trail)
  PROVE CInv'
<1>1. UNCHANGED <<assertionLevel, ok, spent, trailOk>>
  BY DEF Inside, Fixed
<1>2. /\ lemmas = <<>> /\ at.todo = {} /\ at.conflict = Undef /\ Len(trail) \in Nat
      /\ Shape(trail, assertionLevel)
  BY Facts
<1>3. Cycle(pc, at, trail, qhead, lemmas, ok, spent)'
  BY <1>1 DEF CInv, Cycle
<1>4. Pointer(pc, at, trail, qhead, assertionLevel, ok, spent)'
  <2>1. \A i \in 2 .. Len(trail') : trail'[i].ulevel = trail[i].ulevel
    BY <1>2 DEF Begins
  <2> QED BY <1>1, <1>2, <2>1 DEF CInv, Pointer
<1>5. FromTheory(lemmas, trail)'
  BY <1>2 DEF FromTheory
<1>6. Fewer(trail)
  BY <1>1, <1>2, Unmoved DEF Dirty
<1>7. /\ DOMAIN clauses' = DOMAIN clauses \ R
      /\ \A r \in DOMAIN clauses' : clauses'[r] = clauses[r]
  BY DEF Detach
<1>8. \A r \in DOMAIN clauses' : Old(trail, r)
  BY <1>6, <1>7 DEF Fewer, Old
<1>9. Complete(pc, at, trail, qhead, clauses, ok, trailOk, spent, assertionLevel)'
  <2>1. Keeps(trail, trail)
    BY <1>2, BeginsItself
  <2> QED BY <2>1, <1>1, <1>2, <1>8, Running, StillComplete
<1> QED BY <1>3, <1>4, <1>5, <1>9 DEF CInv

(* simplify removes satisfied clauses.                                       *)
LEMMA SimplifyAnswers ==
  ASSUME IInv, IInv', CInv, ~spent, Simplify
  PROVE CInv'
<1>1. PICK R : /\ pc = "decide" /\ clauses' = Detach(clauses, R) /\ trail' = Unlock(trail, R)
               /\ UNCHANGED <<qhead, lemmas, pc, at, Inside>>
  BY DEF Simplify
<1>2. Shape(trail, assertionLevel)
  BY Shapes
<1>3. Begins(trail, trail') /\ Len(trail') = Len(trail)
  BY <1>1, <1>2, UnlockFacts
<1> QED BY <1>1, <1>3, Removed

(* reduceDB removes learned clauses that are not reasons.                    *)
LEMMA ReduceDBAnswers ==
  ASSUME IInv, IInv', CInv, ~spent, ReduceDB
  PROVE CInv'
<1>1. PICK R : /\ pc = "decide" /\ clauses' = Detach(clauses, R) /\ trail' = trail
               /\ UNCHANGED <<qhead, lemmas, pc, at, Inside>>
  BY DEF ReduceDB
<1>2. Shape(trail, assertionLevel)
  BY Shapes
<1>3. Begins(trail, trail') /\ Len(trail') = Len(trail)
  BY <1>1, <1>2, BeginsItself
<1> QED BY <1>1, <1>3, Removed

(* A decision puts a literal on the trail that has not been visited, on a    *)
(* level of its own.                                                         *)
LEMMA DecideAnswers ==
  ASSUME IInv, IInv', CInv, ~spent, Decide
  PROVE CInv'
<1>1. /\ pc = "decide" /\ pc' = "propagate" /\ UNCHANGED <<clauses, qhead, lemmas, Inside>>
      /\ \/ \E l \in FreeLiterals :
              trail' = Enqueue(trail, l, Undef, DecisionLevel(trail) + 1) /\ UNCHANGED at
         \/ at' = [at EXCEPT !.check = "final"] /\ UNCHANGED trail
  BY DEF Decide
<1>2. UNCHANGED <<assertionLevel, ok, spent, trailOk>>
  BY <1>1 DEF Inside, Fixed
<1>3. /\ lemmas = <<>> /\ at.todo = {} /\ at.conflict = Undef /\ Len(trail) \in Nat
      /\ Shape(trail, assertionLevel) /\ at \in Locals /\ "final" \in {"theory", "final"}
      /\ DecisionLevel(trail) \in Nat /\ assertionLevel \in Nat
  BY <1>1, Facts
<1>4. at'.caller = at.caller /\ at'.todo = {} /\ at'.conflict = Undef
  BY <1>1, <1>3, NewCheck
<1>5. at.caller = "search"
  BY <1>1 DEF IInv, Protocol
<1>6. Cycle(pc, at, trail, qhead, lemmas, ok, spent)'
  <2>1. ok /\ ~spent
    BY <1>1, <1>5, Running
  <2> QED BY <2>1, <1>1, <1>2, <1>4, <1>5 DEF Cycle
<1>7. /\ Begins(trail, trail')
      /\ \A i \in 2 .. Len(trail') : i <= Len(trail) \/ trail'[i].ulevel = assertionLevel
  <2>1. CASE UNCHANGED trail
    BY <2>1, <1>3, BeginsItself
  <2>2. ASSUME NEW l \in FreeLiterals,
               trail' = Enqueue(trail, l, Undef, DecisionLevel(trail) + 1)
        PROVE <1>7
    <3>1. l \in AtomLits /\ IsUndef(trail, l)
      BY <2>2 DEF FreeLiterals, Literals, AtomLits
    <3>2. Undef \in Int /\ Undef >= -1
      BY DEF Undef
    <3>3. DecisionLevel(trail) + 1 \in Nat /\ DecisionLevel(trail) <= DecisionLevel(trail) + 1
      BY <1>3
    <3>4. /\ Begins(trail, trail') /\ Len(trail') = Len(trail) + 1
          /\ trail'[Len(trail) + 1].ulevel = assertionLevel
      BY <2>2, <1>3, <3>1, <3>2, <3>3, EnqueueFacts
    <3>5. \A i \in 2 .. Len(trail') : i <= Len(trail) \/ i = Len(trail) + 1
      BY <1>3, <3>4
    <3> QED BY <3>4, <3>5
  <2> QED BY <1>1, <2>1, <2>2
<1>8. Pointer(pc, at, trail, qhead, assertionLevel, ok, spent)'
  <2>1. qhead' = Len(trail)
    BY <1>1 DEF IInv, Protocol
  <2> QED BY <1>1, <1>2, <1>3, <1>4, <1>7, <2>1 DEF Pointer
<1>9. FromTheory(lemmas, trail)'
  BY <1>1, <1>3 DEF FromTheory
<1>10. Fewer(trail)
  <2>1. ~Dirty(pc, at)
    BY <1>1, <1>3 DEF Dirty
  <2> QED BY <1>1, <1>2, <1>3, <1>4, <1>7, <2>1, Unmoved
<1> QED BY <1>1, <1>2, <1>6, <1>7, <1>8, <1>9, <1>10, Running, SameClauses DEF CInv

(* The clause that explains a literal of the theory has its one true literal *)
(* in front.                                                                 *)
LEMMA ExplainAnswers ==
  ASSUME IInv, IInv', CInv, ~spent, Explain
  PROVE CInv'
<1>1. /\ pc = "analyze" /\ UNCHANGED <<qhead, lemmas, pc, at, Inside>>
      /\ \E i \in DOMAIN trail :
           /\ trail[i].reason = Lazy
           /\ \E L \in Explanations(trail[i].lit) : ExplainWith(i, L)
  BY DEF Explain
<1>2. /\ lemmas = <<>> /\ at.todo = {} /\ Len(trail) \in Nat /\ Shape(trail, assertionLevel)
      /\ IsFiniteSet(DOMAIN clauses)
  BY <1>1, Facts
<1>3. UNCHANGED <<assertionLevel, ok, spent, trailOk>>
  BY <1>1 DEF Inside, Fixed
<1>4. PICK i \in 1 .. Len(trail) : /\ trail[i].reason = Lazy
                                   /\ \E L \in Explanations(trail[i].lit) : ExplainWith(i, L)
  BY <1>1, <1>2, EntryFacts
<1>5. PICK L \in Explanations(trail[i].lit) : ExplainWith(i, L)
  BY <1>4
<1>6. PICK E : E = IF L = {trail[i].lit} THEN L \cup {-VarTrue} ELSE L
  OBVIOUS
<1>7. PICK d : d = Clause(Sorted(trail, E), ClauseLevel(intro, E, TRUE), TRUE)
  OBVIOUS
<1>8. /\ clauses' = Attach(clauses, d) /\ trail' = [trail EXCEPT ![i].reason = FreshRef(clauses)]
  BY <1>5, <1>6, <1>7 DEF ExplainWith
<1>9. d.w[1] = trail[i].lit /\ i > 1
  BY <1>4, <1>5, <1>6, <1>7, ExplainedClause DEF Explaining
<1>10. /\ DOMAIN clauses' = DOMAIN clauses \cup {FreshRef(clauses)}
       /\ clauses'[FreshRef(clauses)] = d /\ FreshRef(clauses) \in Nat
       /\ \A r \in DOMAIN clauses : clauses'[r] = clauses[r]
  <2>1. LET e == Attach(clauses, d)
            f == FreshRef(clauses)
        IN  /\ DOMAIN e = DOMAIN clauses \cup {f} /\ e[f] = d /\ f \in Nat
            /\ \A r \in DOMAIN clauses : e[r] = clauses[r]
    <3>1. LET e == Attach(clauses, d)
              f == FreshRef(clauses)
          IN  /\ DOMAIN e = DOMAIN clauses \cup {f} /\ e[f] = d /\ f \notin DOMAIN clauses
              /\ f \in Nat /\ f > 0
              /\ \A r \in DOMAIN clauses : r \in DOMAIN e /\ e[r] = clauses[r]
      BY <1>2, AttachFacts
    <3> QED BY <3>1
  <2> QED BY <2>1, <1>8
<1>11. /\ Begins(trail, trail') /\ Len(trail') = Len(trail)
       /\ DecisionLevel(trail') = DecisionLevel(trail) /\ Shape(trail', assertionLevel)
  <2>1. i \in 2 .. Len(trail)
    BY <1>9, <1>2
  <2>2. PICK f \in Nat : f = FreshRef(clauses)
    BY <1>10
  <2>3. LET u == [trail EXCEPT ![i].reason = f]
        IN  /\ Begins(trail, u) /\ Len(u) = Len(trail)
            /\ DecisionLevel(u) = DecisionLevel(trail) /\ Shape(u, assertionLevel)
    BY <2>1, <1>2, NewReasonFacts
  <2> QED BY <2>2, <2>3, <1>8
<1>12. Cycle(pc, at, trail, qhead, lemmas, ok, spent)'
  BY <1>1, <1>3 DEF CInv, Cycle
<1>13. Pointer(pc, at, trail, qhead, assertionLevel, ok, spent)'
  <2>1. \A j \in 2 .. Len(trail') : trail'[j].ulevel = trail[j].ulevel
    BY <1>2, <1>11 DEF Begins
  <2> QED BY <1>1, <1>2, <1>3, <1>11, <2>1 DEF CInv, Pointer
<1>14. FromTheory(lemmas, trail)'
  BY <1>1, <1>2 DEF FromTheory
<1>15. Fewer(trail)
  BY <1>1, <1>2, <1>3, <1>11, Unmoved DEF Dirty
<1>16. Now(FreshRef(clauses))
  <2>1. trail'[i].lit = d.w[1] /\ i \in 1 .. Len(trail')
    BY <1>9, <1>11 DEF Begins
  <2>2. d.w[1] \in Literals
    BY <1>9, <1>2, EntryFacts
  <2>3. ~IsFalse(trail', d.w[1])
    BY <2>1, <2>2, <1>11, Trues, Undefined
  <2> DEFINE N == Visited(pc', at', trail', qhead', assertionLevel', FreshRef(clauses))
  <2>4. N \subseteq 1 .. Len(trail')
    BY DEF Visited
  <2> HIDE DEF N
  <2>5. Seen(trail', d, N)
    BY <2>3, <2>4, <1>11, SeenNotFalse
  <2> QED BY <2>5, <1>10 DEF Now, N
<1>17. \A r \in DOMAIN clauses' : Old(trail, r) \/ Now(r)
  BY <1>10, <1>15, <1>16 DEF Fewer, Old
<1>18. Complete(pc, at, trail, qhead, clauses, ok, trailOk, spent, assertionLevel)'
  <2>1. Keeps(trail, trail)
    BY <1>2, BeginsItself
  <2> QED BY <2>1, <1>1, <1>2, <1>3, <1>11, <1>17, Running, StillComplete
<1> QED BY <1>12, <1>13, <1>14, <1>18 DEF CInv

(* Attach adds one clause under a new reference.                             *)
LEMMA Attaching ==
  ASSUME IInv, NEW c, clauses' = Attach(clauses, c)
  PROVE \E f \in DOMAIN clauses' :
          /\ f = FreshRef(clauses) /\ clauses'[f] = c /\ f \in Nat /\ f > 0
          /\ \A r \in DOMAIN clauses' : r # f => r \in DOMAIN clauses /\ clauses'[r] = clauses[r]
<1>1. IsFiniteSet(DOMAIN clauses)
  BY Facts
<1>2. LET e == Attach(clauses, c)
          f == FreshRef(clauses)
      IN  /\ DOMAIN e = DOMAIN clauses \cup {f} /\ e[f] = c /\ f \notin DOMAIN clauses
          /\ f \in Nat /\ f > 0
          /\ \A r \in DOMAIN clauses : r \in DOMAIN e /\ e[r] = clauses[r]
  BY <1>1, AttachFacts
<1> QED BY <1>2

(* An undefined literal is put at the end of the trail.                      *)
LEMMA EnqueueInt ==
  ASSUME NEW t, Shape(t, assertionLevel), assertionLevel \in Nat,
         NEW l \in AtomLits, IsUndef(t, l), NEW from \in Int, from >= -1,
         NEW d \in Nat, DecisionLevel(t) <= d, NEW u, u = Enqueue(t, l, from, d)
  PROVE /\ Begins(t, u) /\ Len(u) = Len(t) + 1 /\ Shape(u, assertionLevel)
        /\ u[Len(t) + 1].lit = l /\ u[Len(t) + 1].level = d
        /\ u[Len(t) + 1].ulevel = assertionLevel /\ Len(t) \in Nat
        /\ l \in Literals /\ ~IsFalse(u, l) /\ IsTrue(u, l)
<1>1. LET v == Enqueue(t, l, from, d)
      IN  /\ Begins(t, v) /\ Len(v) = Len(t) + 1 /\ Shape(v, assertionLevel)
          /\ v[Len(t) + 1].lit = l /\ v[Len(t) + 1].level = d
          /\ v[Len(t) + 1].ulevel = assertionLevel
  BY EnqueueFacts
<1>2. Len(t) \in Nat /\ l \in Literals
  BY AtomLitFacts DEF Shape
<1>3. Len(t) + 1 \in 1 .. Len(u)
  BY <1>1, <1>2
<1>4. IsTrue(u, l)
  BY <1>1, <1>3, Trues
<1> QED BY <1>1, <1>2, <1>4, Undefined

(* The learned clause is attached after the backjump, with its asserted      *)
(* literal in front and true.                                                *)
LEMMA LearnAnswers ==
  ASSUME IInv, IInv', CInv, ~spent, Learn
  PROVE CInv'
<1> DEFINE al == assertionLevel
           uip == Latest(at.res)
           gone == {l \in at.res : Redundant(at.res, l)}
           others == (at.res \ gone) \ {uip}
           level == IF cores THEN al
                    ELSE MaxOf({at.maxlevel} \cup {UserLevelOf(trail, l) : l \in gone})
           back == MaxOf({0} \cup {LevelOf(trail, l) : l \in others})
           t == CancelUntil(trail, back)
           New(k) == [w |-> <<uip, k>>, rest |-> others \ {k}, level |-> level,
                      removable |-> TRUE]
<1>1. /\ pc = "analyze" /\ Cardinality(OnTop(at.res)) = 1
      /\ pc' = "propagate" /\ at' = Start("search") /\ ok' = ok /\ spent' = spent
      /\ assertionLevel' = assertionLevel /\ trailOk' = trailOk
  BY DEF Learn, Fixed
<1>2. /\ qhead' = Len(t) /\ Registration(lemmas, t, left)
      /\ \/ trail' = Enqueue(t, uip, Undef, back) /\ clauses' = clauses
         \/ \E k \in others : /\ clauses' = Attach(clauses, New(k))
                              /\ trail' = Enqueue(t, uip, FreshRef(clauses), back)
  BY DEF Learn
<1>3. others = Learnt /\ back = BackLevel(Learnt)
  BY DEF Learnt, Gone, BackLevel
<1>4. /\ al \in Nat /\ at \in Locals /\ Shape(trail, al) /\ lemmas = <<>> /\ at.todo = {}
      /\ Len(trail) \in Nat /\ DecisionLevel(trail) \in Nat
      /\ \A i \in 1 .. Len(trail) : i > qhead => trail[i].level = DecisionLevel(trail)
      /\ qhead \in 0 .. Len(trail)
  BY <1>1, Facts
<1>5. uip \in AtomLits /\ uip \in Literals /\ IsFalse(trail, uip)
  <2>1. uip \in at.res
    BY <1>1, UipFacts
  <2>2. at.res \subseteq AtomLits
    BY <1>4, LocalsFacts
  <2>3. IsFalse(trail, uip)
    BY <1>1, <2>1 DEF IInv, Resolvent
  <2> QED BY <2>1, <2>2, <2>3, AtomLitFacts
<1>6. /\ back \in Nat /\ DecisionLevel(t) = back /\ IsUndef(t, uip)
  <2>1. LET b == BackLevel(Learnt)
            v == CancelUntil(trail, b)
        IN  /\ b \in Nat /\ DecisionLevel(v) = b
            /\ Assigned(v, clauses, inputs, intro, al)
            /\ IsUndef(v, uip) /\ \A k \in Learnt : IsFalse(v, k)
            /\ Learnt # {} => b # 0
    BY <1>1, BackjumpFacts
  <2> QED BY <1>3, <2>1
<1>7. /\ Shape(t, al) /\ Len(t) \in 1 .. Len(trail) /\ Keeps(trail, t)
      /\ \A i \in 1 .. Len(trail) : trail[i].level <= back <=> i <= Len(t)
      /\ DecisionLevel(trail) <= back => t = trail
  <2>1. PICK n \in Nat : n = back
    BY <1>6
  <2>2. /\ Shape(CancelUntil(trail, n), al) /\ Len(CancelUntil(trail, n)) \in 1 .. Len(trail)
        /\ Keeps(trail, CancelUntil(trail, n))
        /\ \A i \in 1 .. Len(trail) :
             trail[i].level <= n <=> i <= Len(CancelUntil(trail, n))
        /\ DecisionLevel(trail) <= n => CancelUntil(trail, n) = trail
    BY <1>4, CancelFacts, CancelKeeps
  <2> QED BY <2>1, <2>2
<1>8. PICK x \in AtomLits : x = uip
  BY <1>5
<1>9. PICK d \in Nat : d = back
  BY <1>6
<1>10. d < DecisionLevel(trail)
  <2>1. t # trail
    BY <1>5, <1>6, <1>4, Undefined
  <2> QED BY <2>1, <1>4, <1>7, <1>9
<1>11. \/ trail' = Enqueue(t, x, Undef, d) /\ clauses' = clauses
       \/ \E k \in others : /\ clauses' = Attach(clauses, New(k))
                            /\ trail' = Enqueue(t, x, FreshRef(clauses), d)
  BY <1>2, <1>8, <1>9
<1>12. \A k \in others : New(k).w[1] = x
  BY <1>8
<1> HIDE DEF New, t, back, uip, others, level, gone
<1>13. \E y \in Int : y >= -1 /\ trail' = Enqueue(t, x, y, d)
  <2>1. CASE trail' = Enqueue(t, x, Undef, d)
    BY <2>1 DEF Undef
  <2>2. ASSUME NEW k \in others, clauses' = Attach(clauses, New(k)),
               trail' = Enqueue(t, x, FreshRef(clauses), d)
        PROVE <1>13
    <3>1. FreshRef(clauses) \in Nat
      BY <2>2, Attaching
    <3> QED BY <3>1, <2>2
  <2> QED BY <1>11, <2>1, <2>2
<1>14. PICK y \in Int : y >= -1 /\ trail' = Enqueue(t, x, y, d)
  BY <1>13
<1>15. /\ Begins(t, trail') /\ Len(trail') = Len(t) + 1 /\ Shape(trail', al)
       /\ trail'[Len(t) + 1].ulevel = al /\ Len(t) \in Nat /\ ~IsFalse(trail', x)
  BY <1>4, <1>6, <1>7, <1>8, <1>9, <1>14, EnqueueInt
<1>16. /\ at'.caller = "search" /\ at'.check = "theory" /\ at'.todo = {} /\ at'.conflict = Undef
  BY <1>1, StartFacts
<1>17. ok /\ ~spent
  <2>1. at.caller # "addClause"
    BY <1>1 DEF CInv, Cycle
  <2> QED BY <2>1, <1>1, Running
<1>18. Cycle(pc, at, trail, qhead, lemmas, ok, spent)'
  BY <1>1, <1>16, <1>17 DEF Cycle
<1>19. Pointer(pc, at, trail, qhead, assertionLevel, ok, spent)'
  <2>1. \A i \in 2 .. Len(trail') : i > qhead' => i = Len(t) + 1
    BY <1>2, <1>15
  <2> QED BY <1>1, <1>15, <1>16, <2>1 DEF Pointer
<1>20. FromTheory(lemmas, trail)'
  <2>1. lemmas \in Seq(LemmaType) /\ FromTheory(lemmas, t)
    BY <1>4 DEF FromTheory
  <2>2. FromTheory(lemmas', t)
    BY <2>1, <1>2, <1>7, RegisteredFromTheory
  <2>3. Len(trail') \in Nat
    BY <1>15
  <2> QED BY <2>2, <2>3, <1>7, <1>15, FromTheoryBegins
<1>21. Fewer(t)
  <2>1. ASSUME NEW i \in 1 .. Len(t)
        PROVE (i <= qhead \/ i = 1) /\ ~OnTopOf(trail, assertionLevel, i)
    <3>1. i \in 1 .. Len(trail) /\ trail[i].level \in Nat
      BY <1>4, <1>7, EntryFacts
    <3>2. trail[i].level <= d
      BY <3>1, <1>7, <1>9
    <3>3. trail[i].level # DecisionLevel(trail)
      BY <3>1, <3>2, <1>4, <1>10
    <3> QED BY <3>1, <3>3, <1>4 DEF OnTopOf
  <2>2. \A i \in 2 .. Len(trail') : i <= qhead' => i <= Len(t)
    BY <1>2
  <2>3. \A i \in 2 .. Len(t) : i \in 1 .. Len(t)
    OBVIOUS
  <2> QED BY <2>1, <2>2, <2>3, <1>4, <1>7, Shortened
<1>22. \A r \in DOMAIN clauses' : Old(t, r) \/ Now(r)
  <2>1. CASE clauses' = clauses
    BY <2>1, <1>21 DEF Fewer, Old
  <2>2. ASSUME NEW k \in others, clauses' = Attach(clauses, New(k))
        PROVE <1>22
    <3>1. PICK c : c = New(k)
      OBVIOUS
    <3>2. c.w[1] = x
      BY <3>1, <1>12
    <3>3. PICK f \in DOMAIN clauses' :
            /\ clauses'[f] = c
            /\ \A r \in DOMAIN clauses' : r # f => r \in DOMAIN clauses /\ clauses'[r] = clauses[r]
      BY <2>2, <3>1, Attaching
    <3> DEFINE N == Visited(pc', at', trail', qhead', assertionLevel', f)
    <3>4. N \subseteq 1 .. Len(trail')
      BY DEF Visited
    <3> HIDE DEF N
    <3>5. Seen(trail', c, N)
      BY <3>2, <3>4, <1>15, SeenNotFalse
    <3>6. Now(f)
      BY <3>3, <3>5 DEF Now, N
    <3> QED BY <3>3, <3>6, <1>21 DEF Fewer, Old
  <2> QED BY <1>11, <2>1, <2>2
<1>23. Complete(pc, at, trail, qhead, clauses, ok, trailOk, spent, assertionLevel)'
  BY <1>1, <1>7, <1>15, <1>17, <1>22, StillComplete
<1> QED BY <1>18, <1>19, <1>20, <1>23 DEF CInv

(* A true literal saves its clause from a false literal of the highest       *)
(* level.                                                                    *)
LEMMA SavedOnTop ==
  ASSUME NEW t, NEW al, Shape(t, al), NEW c, Satisfied(t, c),
         NEW i \in 1 .. Len(t), NEW j \in 1 .. Len(t),
         OnTopOf(t, al, i) \/ OnTopOf(t, al, j)
  PROVE Saved(t, c, i, j)
<1>1. PICK l \in Lits(c) : IsTrue(t, l)
  BY DEF Satisfied
<1>2. PICK m \in 1 .. Len(t) : t[m].lit = l
  BY <1>1, Trues
<1>3. t[m].level <= DecisionLevel(t) /\ t[m].ulevel <= al
  BY EntryFacts
<1>4. PICK k \in {i, j} : OnTopOf(t, al, k)
  OBVIOUS
<1>5. t[m].level <= t[k].level /\ t[m].ulevel <= t[k].ulevel
  BY <1>3, <1>4 DEF OnTopOf
<1> QED BY <1>2, <1>5 DEF Saved

(* What the trail grew by is of the present user level.                      *)
Current(t, u) == \A i \in 1 .. Len(u) : i <= Len(t) \/ u[i].ulevel = assertionLevel

(* If propagation was complete, visiting clause r leaves it seen.            *)
Finished(r) ==
  ok /\ ~spent /\ Propagated(pc, at, trail, qhead, clauses, assertionLevel) => Now(r)

(* propagateBool visits clause r and goes on.                                *)
LEMMA Visiting ==
  ASSUME IInv, IInv', CInv, ~spent, NEW r \in at.todo, Only(r), Finished(r),
         Begins(trail, trail'), Current(trail, trail'),
         at' = [at EXCEPT !.todo = @ \ {r}], UNCHANGED <<qhead, pc, lemmas, Inside>>
  PROVE CInv'
<1>1. UNCHANGED <<assertionLevel, ok, spent, trailOk>>
  BY DEF Inside, Fixed
<1>2. /\ pc = "bool" /\ at \in Locals /\ at.conflict = Undef /\ lemmas = <<>>
      /\ qhead \in 1 .. Len(trail)
  BY VisitFacts
<1>3. /\ Shape(trail, assertionLevel) /\ Len(trail) \in Nat /\ Len(trail') \in Nat
      /\ Shape(trail', assertionLevel) /\ DecisionLevel(trail) \in Nat
  BY <1>1, Facts, ShapesNext
<1>4. /\ at'.todo = at.todo \ {r} /\ at'.caller = at.caller /\ at'.check = at.check
      /\ at'.conflict = Undef
  BY <1>2 DEF Locals
<1>6. Cycle(pc, at, trail, qhead, lemmas, ok, spent)'
  BY <1>1, <1>2, <1>4 DEF CInv, Cycle
<1>7. Pointer(pc, at, trail, qhead, assertionLevel, ok, spent)'
  <2>1. ASSUME ok, ~spent, NEW i \in 2 .. Len(trail'), i > qhead \/ (i = qhead /\ at'.todo # {})
        PROVE trail'[i].ulevel = assertionLevel
    <3>1. CASE i <= Len(trail)
      <4>1. i \in 2 .. Len(trail) /\ (i > qhead \/ (i = qhead /\ at.todo # {}))
        BY <2>1, <3>1, <1>3, <1>4
      <4>2. trail[i].ulevel = assertionLevel
        BY <2>1, <4>1 DEF CInv, Pointer
      <4>3. i \in 1 .. Len(trail)
        BY <4>1
      <4> QED BY <4>2, <4>3 DEF Begins
    <3>2. CASE ~(i <= Len(trail))
      <4>1. i \in 1 .. Len(trail')
        OBVIOUS
      <4> QED BY <3>2, <4>1 DEF Current
    <3> QED BY <3>1, <3>2
  <2> QED BY <1>1, <1>2, <2>1 DEF Pointer
<1>8. FromTheory(lemmas, trail)'
  BY <1>2 DEF FromTheory
<1>9. ASSUME NEW q \in DOMAIN clauses', q # r
      PROVE Old(trail, q)
  <2>1. q \in DOMAIN clauses /\ clauses'[q] = clauses[q]
    BY <1>9 DEF Only
  <2>2. ASSUME NEW i \in Visited(pc', at', trail', qhead', assertionLevel', q)
        PROVE i \in Visited(pc, at, trail, qhead, assertionLevel, q) /\ i \in 1 .. Len(trail)
    <3>1. i \in 1 .. Len(trail') /\ (i = 1 \/ (i <= qhead /\ ~(i = qhead /\ q \in at'.todo)))
      BY <2>2 DEF Visited
    <3>2. i \in 1 .. Len(trail) /\ (i = 1 \/ (i <= qhead /\ ~(i = qhead /\ q \in at.todo)))
      BY <3>1, <1>2, <1>3, <1>4, <1>9
    <3>3. ~Dirty(pc, at)
      BY <1>2 DEF Dirty
    <3> QED BY <3>2, <3>3 DEF Visited
  <2> QED BY <2>1, <2>2 DEF Old
<1>10. Complete(pc, at, trail, qhead, clauses, ok, trailOk, spent, assertionLevel)'
  <2>1. CASE spent
    BY <2>1, <1>1 DEF Complete
  <2>2. CASE ~spent
    <3>1. ok /\ Propagated(pc, at, trail, qhead, clauses, assertionLevel)
      BY <2>2, <1>2, Running
    <3>2. Now(r)
      BY <2>2, <3>1 DEF Finished
    <3>3. \A q \in DOMAIN clauses' : Old(trail, q) \/ Now(q)
      BY <1>9, <3>2
    <3>4. Keeps(trail, trail)
      BY <1>3, BeginsItself
    <3> QED BY <3>1, <3>3, <3>4, <1>1, <1>2, <1>3, StillComplete
  <2> QED BY <2>1, <2>2
<1> QED BY <1>6, <1>7, <1>8, <1>10 DEF CInv

(* propagateBool visits clause r, finds it false and stops: the clause's     *)
(* falsified watch is of the highest level.                                  *)
LEMMA FoundFalse ==
  ASSUME IInv, IInv', CInv, ~spent, NEW r \in at.todo, Only(r), clauses'[r].rest = clauses[r].rest,
         \/ clauses'[r].w[1] = clauses[r].w[1] /\ clauses'[r].w[2] = clauses[r].w[2]
         \/ clauses'[r].w[1] = clauses[r].w[2] /\ clauses'[r].w[2] = clauses[r].w[1],
         at' = [at EXCEPT !.todo = {}, !.conflict = r], trail' = trail,
         qhead' = Len(trail), pc' = "return", UNCHANGED <<lemmas, Inside>>
  PROVE CInv'
<1>1. UNCHANGED <<assertionLevel, ok, spent, trailOk>>
  BY DEF Inside, Fixed
<1>2. /\ pc = "bool" /\ at \in Locals /\ at.conflict = Undef /\ lemmas = <<>>
      /\ qhead \in 1 .. Len(trail) /\ r \in DOMAIN clauses /\ r \in Int /\ r > 0
      /\ \A i \in 1 .. Len(trail) : i >= qhead => trail[i].level = DecisionLevel(trail)
  BY VisitFacts
<1>3. Shape(trail, assertionLevel) /\ Len(trail) \in Nat
  BY Facts
<1>4. /\ at'.todo = {} /\ at'.caller = at.caller /\ at'.check = at.check
      /\ at'.conflict = r /\ at'.conflict # Undef
  BY <1>2 DEF Locals, Undef
<1>5. Cycle(pc, at, trail, qhead, lemmas, ok, spent)'
  BY <1>1, <1>2, <1>4 DEF CInv, Cycle
<1>6. Pointer(pc, at, trail, qhead, assertionLevel, ok, spent)'
  BY <1>3, <1>4 DEF Pointer
<1>7. FromTheory(lemmas, trail)'
  BY <1>2 DEF FromTheory
<1>8. ASSUME ok, ~spent, NEW q
      PROVE Visited(pc', at', trail', qhead', assertionLevel', q)
              \subseteq Visited(pc, at, trail, qhead, assertionLevel, q)
  <2>1. ASSUME NEW i \in Visited(pc', at', trail', qhead', assertionLevel', q), i # 1
        PROVE i <= qhead /\ ~(i = qhead /\ q \in at.todo)
    <3>1. i \in 2 .. Len(trail) /\ ~OnTopOf(trail, assertionLevel, i)
      BY <2>1, <1>1, <1>3, <1>4 DEF Visited, Dirty
    <3>2. i >= qhead => trail[i].ulevel # assertionLevel
      BY <3>1, <1>2 DEF OnTopOf
    <3>3. i > qhead \/ (i = qhead /\ at.todo # {}) => trail[i].ulevel = assertionLevel
      BY <1>8, <3>1 DEF CInv, Pointer
    <3> QED BY <3>1, <3>2, <3>3, <1>2
  <2>2. ~Dirty(pc, at)
    BY <1>2 DEF Dirty
  <2> QED BY <2>1, <2>2 DEF Visited
<1>9. ASSUME ok, ~spent, NEW q \in DOMAIN clauses', q # r
      PROVE Old(trail, q)
  <2>1. q \in DOMAIN clauses /\ clauses'[q] = clauses[q]
    BY <1>9 DEF Only
  <2>2. Visited(pc, at, trail, qhead, assertionLevel, q) \subseteq 1 .. Len(trail)
    BY DEF Visited
  <2> QED BY <2>1, <2>2, <1>8, <1>9 DEF Old
<1>10. Finished(r)
  <2> DEFINE N == Visited(pc', at', trail', qhead', assertionLevel', r)
             M == Visited(pc, at, trail, qhead, assertionLevel, r)
  <2>1. ok /\ ~spent => N \subseteq M
    BY <1>8
  <2>2. Propagated(pc, at, trail, qhead, clauses, assertionLevel) => Seen(trail, clauses[r], M)
    BY <1>2 DEF Propagated
  <2> HIDE DEF N, M
  <2>3. ok /\ ~spent /\ Seen(trail, clauses[r], M) => Seen(trail, clauses[r], N)
    BY <2>1, SeenFewer
  <2>4. Seen(trail, clauses[r], N) => Seen(trail, clauses'[r], N)
    BY SeenSwapped
  <2> QED BY <2>2, <2>3, <2>4 DEF Finished, Now, N
<1>11. Complete(pc, at, trail, qhead, clauses, ok, trailOk, spent, assertionLevel)'
  <2>1. CASE spent
    BY <2>1, <1>1 DEF Complete
  <2>2. CASE ~spent
    <3>1. ok /\ Propagated(pc, at, trail, qhead, clauses, assertionLevel)
      BY <2>2, <1>2, Running
    <3>2. Now(r)
      BY <2>2, <3>1, <1>10 DEF Finished
    <3>3. \A q \in DOMAIN clauses' : Old(trail, q) \/ Now(q)
      BY <1>9, <2>2, <3>1, <3>2
    <3>4. Keeps(trail, trail) /\ Begins(trail, trail')
      BY <1>3, BeginsItself
    <3> QED BY <3>1, <3>3, <3>4, <1>1, <1>2, <1>3, StillComplete
  <2> QED BY <2>1, <2>2
<1> QED BY <1>5, <1>6, <1>7, <1>11 DEF CInv

(* propagateBool visits clause r: its other watch is true, or a new watch is *)
(* found, or it becomes a unit, or it is false.                              *)
LEMMA VisitWatcherAnswers ==
  ASSUME IInv, IInv', CInv, ~spent, NEW r \in DOMAIN clauses, VisitWatcher(r)
  PROVE CInv'
<1> DEFINE al == assertionLevel
           c == clauses[r]
           l == -trail[qhead].lit
           first == IF c.w[1] = l THEN c.w[2] ELSE c.w[1]
           rest == [at EXCEPT !.todo = @ \ {r}]
           N == Visited(pc', at', trail', qhead', assertionLevel', r)
           M == Visited(pc, at, trail, qhead, assertionLevel, r)
<1>1. r \in at.todo /\ UNCHANGED <<lemmas, Inside>>
  BY DEF VisitWatcher
<1>2. /\ pc = "bool" /\ qhead \in 1 .. Len(trail) /\ r \in Int /\ r > 0
      /\ l \in {c.w[1], c.w[2]} /\ at.conflict = Undef /\ at \in Locals
      /\ IsFalse(trail, l) /\ l \in Literals /\ LevelOf(trail, l) = DecisionLevel(trail)
      /\ \A i \in 1 .. Len(trail) : i >= qhead => trail[i].level = DecisionLevel(trail)
  BY <1>1, VisitFacts
<1>3. al \in Nat /\ Len(trail) \in Nat /\ Shape(trail, al) /\ DecisionLevel(trail) \in Nat
  BY Facts
<1>4. \/ Satisfied(trail, c) /\ at' = rest /\ UNCHANGED <<clauses, trail, qhead, pc>>
      \/ \E k \in c.rest :
            /\ ~IsFalse(trail, k)
            /\ clauses' = [clauses EXCEPT ![r].w = <<first, k>>,
                                          ![r].rest = (@ \ {k}) \cup {l}]
            /\ at' = rest /\ UNCHANGED <<trail, qhead, pc>>
      \/ /\ ~IsTrue(trail, first)
         /\ clauses' = [clauses EXCEPT ![r].w = <<first, l>>]
         /\ IF IsFalse(trail, first)
              THEN /\ qhead' = Len(trail) /\ pc' = "return"
                   /\ at' = [at EXCEPT !.todo = {}, !.conflict = r]
                   /\ UNCHANGED trail
              ELSE /\ trail' = Enqueue(trail, first, r, DecisionLevel(trail))
                   /\ at' = rest /\ UNCHANGED <<qhead, pc>>
  BY DEF VisitWatcher
<1>5. /\ c \in ClauseType /\ first \in ClauseLits
      /\ \/ first = c.w[1] /\ l = c.w[2]
         \/ first = c.w[2] /\ l = c.w[1]
  <2>1. PICK f : f = first
    OBVIOUS
  <2>2. l \in {clauses[r].w[1], clauses[r].w[2]}
    BY <1>2
  <2>3. f \in ClauseLits /\ clauses[r] \in ClauseType
    BY <2>1, <2>2, WatchedFacts
  <2> QED BY <2>1, <2>2, <2>3
<1>6. N \subseteq 1 .. Len(trail') /\ al' = al
  BY <1>1 DEF Visited, Inside, Fixed
<1>7. Begins(trail, trail) /\ Current(trail, trail)
  BY <1>3, BeginsItself DEF Current
<1> HIDE DEF l, N, M
<1>8. CASE Satisfied(trail, c) /\ at' = rest /\ UNCHANGED <<clauses, trail, qhead, pc>>
  <2>1. Only(r)
    BY <1>8 DEF Only
  <2>2. ASSUME ok, ~spent, Propagated(pc, at, trail, qhead, clauses, assertionLevel)
        PROVE Seen(trail, c, N)
    <3>1. Seen(trail, c, M)
      BY <2>2 DEF Propagated, M
    <3>2. ASSUME Watched(trail, c, M)
          PROVE Watched(trail, c, N)
      <4>1. ASSUME NEW i \in N, NEW j \in N, trail[i].lit = -c.w[1], trail[j].lit = -c.w[2]
            PROVE Saved(trail, c, i, j)
        <5>0. /\ i \in 1 .. Len(trail) /\ j \in 1 .. Len(trail)
          BY <1>6, <1>8
        <5>1. CASE i \in M /\ j \in M
          BY <3>2, <4>1, <5>1 DEF Watched
        <5>2. CASE ~(i \in M /\ j \in M)
          <6>1. ASSUME NEW k \in N, k \notin M
                PROVE OnTopOf(trail, al, k)
            <7>1. k \in 1 .. Len(trail) /\ k # 1 /\ k = qhead
              <8>1. k \in 1 .. Len(trail) /\ (k = 1 \/ k <= qhead)
                BY <6>1, <1>8 DEF N, Visited
              <8>2. ~Dirty(pc, at)
                BY <1>2 DEF Dirty
              <8>3. k # 1 /\ ~(k <= qhead /\ ~(k = qhead /\ r \in at.todo))
                BY <6>1, <8>1, <8>2 DEF M, Visited
              <8> QED BY <8>1, <8>3, <1>2
            <7>2. trail[k].ulevel = al
              <8>1. k \in 2 .. Len(trail) /\ at.todo # {}
                BY <7>1, <1>1
              <8> QED BY <2>2, <8>1, <7>1 DEF CInv, Pointer
            <7>3. trail[k].level = DecisionLevel(trail)
              BY <7>1, <1>2
            <7> QED BY <7>2, <7>3 DEF OnTopOf
          <6>2. OnTopOf(trail, al, i) \/ OnTopOf(trail, al, j)
            BY <5>2, <6>1
          <6> QED BY <5>0, <6>2, <1>3, <1>8, SavedOnTop
        <5> QED BY <5>1, <5>2
      <4> QED BY <4>1 DEF Watched
    <3> QED BY <3>1, <3>2 DEF Seen
  <2>3. Finished(r)
    BY <2>2, <1>8 DEF Finished, Now, N
  <2> QED BY <2>1, <2>3, <1>1, <1>7, <1>8, Visiting
<1>9. ASSUME NEW k \in c.rest, ~IsFalse(trail, k),
             clauses' = [clauses EXCEPT ![r].w = <<first, k>>,
                                        ![r].rest = (@ \ {k}) \cup {l}],
             at' = rest, UNCHANGED <<trail, qhead, pc>>
      PROVE CInv'
  <2> HIDE DEF first
  <2> DEFINE W == <<first, k>>
  <2>1. W[2] = k
    OBVIOUS
  <2> HIDE DEF W
  <2>2. clauses' = [clauses EXCEPT ![r].w = W, ![r].rest = (@ \ {k}) \cup {l}]
    BY <1>9 DEF W
  <2>3. Only(r)
    BY <2>2 DEF Only
  <2>4. clauses'[r] = [[c EXCEPT !.w = W] EXCEPT !.rest = (@ \ {k}) \cup {l}]
    BY <2>2
  <2>5. clauses'[r].w = W
    BY <2>4, <1>5 DEF ClauseType
  <2>6. PICK d : d = clauses'[r]
    OBVIOUS
  <2>7. ~IsFalse(trail, d.w[2])
    BY <1>9, <2>1, <2>5, <2>6
  <2>8. N \subseteq 1 .. Len(trail)
    BY <1>6, <1>9
  <2>9. Seen(trail, d, N)
    BY <2>7, <2>8, <1>3, SeenNotFalse
  <2>10. Finished(r)
    BY <2>6, <2>9, <1>9 DEF Finished, Now, N
  <2> QED BY <2>3, <2>10, <1>1, <1>7, <1>9, Visiting
<1>10. ASSUME ~IsTrue(trail, first), clauses' = [clauses EXCEPT ![r].w = <<first, l>>],
              IF IsFalse(trail, first)
                THEN /\ qhead' = Len(trail) /\ pc' = "return"
                     /\ at' = [at EXCEPT !.todo = {}, !.conflict = r]
                     /\ UNCHANGED trail
                ELSE /\ trail' = Enqueue(trail, first, r, DecisionLevel(trail))
                     /\ at' = rest /\ UNCHANGED <<qhead, pc>>
       PROVE CInv'
  <2> HIDE DEF first
  <2> DEFINE W == <<first, l>>
  <2>1. W[1] = first /\ W[2] = l
    OBVIOUS
  <2> HIDE DEF W
  <2>2. clauses' = [clauses EXCEPT ![r].w = W]
    BY <1>10 DEF W
  <2>3. Only(r)
    BY <2>2 DEF Only
  <2>4. clauses'[r] = [c EXCEPT !.w = W]
    BY <2>2
  <2>5. clauses'[r].w = W /\ clauses'[r].rest = c.rest
    BY <2>4, <1>5 DEF ClauseType
  <2>6. CASE IsFalse(trail, first)
    <3>1. /\ qhead' = Len(trail) /\ pc' = "return" /\ trail' = trail
          /\ at' = [at EXCEPT !.todo = {}, !.conflict = r]
      BY <1>10, <2>6
    <3>2. \/ clauses'[r].w[1] = c.w[1] /\ clauses'[r].w[2] = c.w[2]
          \/ clauses'[r].w[1] = c.w[2] /\ clauses'[r].w[2] = c.w[1]
      BY <1>5, <2>1, <2>5
    <3> QED BY <1>1, <2>3, <2>5, <3>1, <3>2, FoundFalse
  <2>7. CASE ~IsFalse(trail, first)
    <3>1. /\ trail' = Enqueue(trail, first, r, DecisionLevel(trail)) /\ at' = rest
          /\ UNCHANGED <<qhead, pc>>
      BY <1>10, <2>7
    <3>2. PICK x \in AtomLits : x = first
      <4>1. first \in Literals
        BY <1>5, LiteralsAre
      <4>2. 1 \in 1 .. Len(trail) /\ trail[1].lit = VarTrue
        BY <1>3 DEF Shape
      <4>3. first # -VarTrue
        <5>1. VarTrue \in Literals
          BY LiteralsAre
        <5>2. -(-VarTrue) = VarTrue
          BY <5>1, LitFacts
        <5> QED BY <4>2, <5>2, <2>7, <1>3, Falses
      <4> QED BY <1>5, <4>3 DEF ClauseLits
    <3>3. IsUndef(trail, x)
      BY <3>2, <1>3, <1>10, <2>7, AtomLitFacts, Undefined
    <3>4. /\ Begins(trail, trail') /\ Len(trail') = Len(trail) + 1 /\ Shape(trail', al)
          /\ trail'[Len(trail) + 1].ulevel = al /\ ~IsFalse(trail', x)
      <4>1. trail' = Enqueue(trail, x, r, DecisionLevel(trail)) /\ r >= -1
        BY <3>1, <3>2, <1>2
      <4> QED BY <4>1, <3>3, <1>2, <1>3, EnqueueInt
    <3>5. Current(trail, trail')
      <4>1. \A i \in 1 .. Len(trail') : i <= Len(trail) \/ i = Len(trail) + 1
        BY <3>4, <1>3
      <4> QED BY <4>1, <3>4 DEF Current
    <3>6. PICK d : d = clauses'[r]
      OBVIOUS
    <3>7. ~IsFalse(trail', d.w[1])
      BY <3>2, <3>4, <3>6, <2>1, <2>5
    <3>8. Seen(trail', d, N)
      BY <3>4, <3>7, <1>6, SeenNotFalse
    <3>9. Finished(r)
      BY <3>6, <3>8 DEF Finished, Now, N
    <3> QED BY <3>1, <3>4, <3>5, <3>9, <2>3, <1>1, Visiting
  <2> QED BY <2>6, <2>7
<1> QED BY <1>4, <1>8, <1>9, <1>10

(* Literals added on the present user level leave qhead right.               *)
LEMMA PointerGrows ==
  ASSUME IInv, CInv, pc' = "attach" => qhead <= at'.bound,
         Begins(trail, trail'), Len(trail') \in Nat,
         Current(trail, trail'), UNCHANGED <<qhead, assertionLevel, ok, spent>>,
         at'.todo \subseteq at.todo
  PROVE Pointer(pc, at, trail, qhead, assertionLevel, ok, spent)'
<1>1. Len(trail) \in Nat /\ qhead \in 0 .. Len(trail)
  BY Facts
<1>2. ASSUME ok, ~spent, NEW i \in 2 .. Len(trail'), i > qhead \/ (i = qhead /\ at'.todo # {})
      PROVE trail'[i].ulevel = assertionLevel
  <2>1. CASE i <= Len(trail)
    <3>1. i \in 2 .. Len(trail) /\ (i > qhead \/ (i = qhead /\ at.todo # {}))
      BY <1>1, <1>2, <2>1
    <3>2. trail[i].ulevel = assertionLevel
      BY <1>2, <3>1 DEF CInv, Pointer
    <3>3. i \in 1 .. Len(trail)
      BY <3>1
    <3> QED BY <3>2, <3>3 DEF Begins
  <2>2. CASE ~(i <= Len(trail))
    <3>1. i \in 1 .. Len(trail')
      OBVIOUS
    <3> QED BY <2>2, <3>1 DEF Current
  <2> QED BY <2>1, <2>2
<1> QED BY <1>2 DEF Pointer

(* A step of theoryCheck that adds literals and lemmas of the theory.        *)
LEMMA TheoryAnswers ==
  ASSUME IInv, IInv', CInv, ~spent, pc = "theory", UNCHANGED <<clauses, qhead, ok, spent, Fixed>>,
         pc' \in {"lemmas", "bool", "return"}, at'.caller = at.caller, at'.todo = {},
         Begins(trail, trail'), Current(trail, trail'), FromTheory(lemmas', trail')
  PROVE CInv'
<1>1. UNCHANGED <<assertionLevel, trailOk>>
  BY DEF Fixed
<1>2. /\ at.todo = {} /\ at.conflict = Undef /\ at.caller # "addClause"
      /\ Len(trail') \in Nat /\ Len(trail) \in Nat
  BY TheoryFacts, ShapesNext DEF CInv, Cycle
<1>3. Cycle(pc, at, trail, qhead, lemmas, ok, spent)'
  BY <1>1, <1>2 DEF CInv, Cycle
<1>4. Pointer(pc, at, trail, qhead, assertionLevel, ok, spent)'
  BY <1>1, <1>2, PointerGrows
<1>5. Fewer(trail)
  <2>1. ~Dirty(pc, at)
    BY <1>2 DEF Dirty
  <2> QED BY <2>1, <1>1, <1>2, Unmoved
<1> QED BY <1>3, <1>4, <1>5, Running, SameClauses DEF CInv

(* The theory propagates, reports a conflict or adds lemmas.                 *)
LEMMA TheoryCheckAnswers ==
  ASSUME IInv, IInv', CInv, ~spent, TheoryCheck
  PROVE CInv'
<1>1. pc = "theory" /\ UNCHANGED <<clauses, qhead, ok, spent, Fixed>>
  BY DEF TheoryCheck
<1>2. /\ lemmas = <<>> /\ at.todo = {} /\ at.conflict = Undef /\ at \in Locals
      /\ Shape(trail, assertionLevel) /\ Len(trail) \in Nat /\ assertionLevel \in Nat
      /\ DecisionLevel(trail) \in Nat
  BY <1>1, TheoryFacts
<1>3. Begins(trail, trail) /\ Current(trail, trail) /\ FromTheory(<<>>, trail)
  BY <1>2, BeginsItself DEF Current, FromTheory
<1>4. \A t : Round(t) \in {"lemmas", "bool", "return"}
  BY RoundCases
<1>5. CASE pc' = Round(trail) /\ UNCHANGED <<trail, lemmas, at>>
  BY <1>1, <1>2, <1>3, <1>4, <1>5, TheoryAnswers
<1>6. ASSUME NEW L \in Theory, NEW removable \in BOOLEAN,
             lemmas' = QueueLemma(lemmas, trail, L, removable),
             pc' = IF lemmas' # <<>> THEN "lemmas" ELSE Round(trail),
             at' = [at EXCEPT !.recheck = FinalCheck(at), !.from = "theory"], trail' = trail
      PROVE CInv'
  <2>1. lemmas \in Seq(LemmaType) /\ FromTheory(lemmas, trail)
    BY <1>2, <1>3
  <2>2. FromTheory(QueueLemma(lemmas, trail, L, removable), trail)
    BY <2>1, <1>2, QueuedFromTheory
  <2>3. pc' \in {"lemmas", "bool", "return"}
    BY <1>4, <1>6
  <2>4. at'.caller = at.caller /\ at'.todo = {}
    BY <1>2, <1>6 DEF Locals
  <2>5. FromTheory(lemmas', trail') /\ Begins(trail, trail') /\ Current(trail, trail')
    BY <2>2, <1>3, <1>6
  <2> QED BY <1>1, <2>3, <2>4, <2>5, TheoryAnswers
<1>7. ASSUME NEW L \in Theory, NEW l \in L, IsUndef(trail, l),
             trail' = Enqueue(trail, l, Lazy, DecisionLevel(trail)), pc' = Round(trail'),
             at' = [at EXCEPT !.recheck = FinalCheck(at)], lemmas' = lemmas
      PROVE CInv'
  <2>1. l \in AtomLits
    BY Constants
  <2>2. PICK y \in Int : y >= -1 /\ y = Lazy
    BY DEF Lazy
  <2>3. trail' = Enqueue(trail, l, y, DecisionLevel(trail))
    BY <2>2, <1>7
  <2>4. /\ Begins(trail, trail') /\ Len(trail') = Len(trail) + 1
        /\ trail'[Len(trail) + 1].ulevel = assertionLevel
    BY <1>2, <1>7, <2>1, <2>2, <2>3, EnqueueInt
  <2>5. Current(trail, trail')
    <3>1. \A i \in 1 .. Len(trail') : i <= Len(trail) \/ i = Len(trail) + 1
      BY <2>4, <1>2
    <3> QED BY <3>1, <2>4 DEF Current
  <2>6. at'.caller = at.caller /\ at'.todo = {}
    BY <1>2, <1>7 DEF Locals
  <2>7. FromTheory(lemmas', trail')
    BY <1>2, <1>7 DEF FromTheory
  <2> QED BY <1>1, <1>4, <1>7, <2>4, <2>5, <2>6, <2>7, TheoryAnswers
<1>8. \/ pc' = Round(trail) /\ UNCHANGED <<trail, lemmas, at>>
      \/ \E L \in Theory, removable \in BOOLEAN :
           /\ lemmas' = QueueLemma(lemmas, trail, L, removable)
           /\ pc' = IF lemmas' # <<>> THEN "lemmas" ELSE Round(trail)
           /\ at' = [at EXCEPT !.recheck = FinalCheck(at), !.from = "theory"]
           /\ trail' = trail
      \/ \E L \in Theory : \E l \in L :
           /\ IsUndef(trail, l)
           /\ trail' = Enqueue(trail, l, Lazy, DecisionLevel(trail)) /\ pc' = Round(trail')
           /\ at' = [at EXCEPT !.recheck = FinalCheck(at)] /\ lemmas' = lemmas
  BY DEF TheoryCheck
<1> QED BY <1>5, <1>6, <1>7, <1>8

(* Sorting the literals of the queued lemmas leaves them the theory's.       *)
LEMMA SortedFromTheory ==
  ASSUME IInv, pc = "lemmas", FromTheory(lemmas, trail)
  PROVE FromTheory(SortedQueue, trail) /\ SortedQueue \in Seq(LemmaType)
<1>1. /\ Queue(SortedQueue, inputs, intro, assertionLevel) /\ Len(SortedQueue) = Len(lemmas)
      /\ NewLemmas \subseteq 1 .. Len(lemmas)
      /\ \A k \in 1 .. Len(lemmas) : k \notin NewLemmas => SortedQueue[k] = lemmas[k]
  BY SortedQueueFacts
<1>2. lemmas \in Seq(LemmaType) /\ \A k \in 1 .. Len(lemmas) : ~lemmas[k].sorted => lemmas[k].w = <<>>
  BY DEF IInv, Queue
<1>3. ASSUME NEW k \in 1 .. Len(lemmas)
      PROVE LemmaLits(SortedQueue[k]) = LemmaLits(lemmas[k])
  <2>1. CASE k \in NewLemmas
    <3>1. k \in DOMAIN lemmas /\ ~lemmas[k].sorted
      BY <2>1 DEF NewLemmas
    <3>2. SortedQueue[k] = SortOf(lemmas[k])
      BY <2>1, <3>1 DEF SortedQueue
    <3>3. lemmas[k] \in LemmaType /\ lemmas[k].w = <<>>
      BY <1>2, <3>1
    <3>4. PICK L \in LemmaType : L = lemmas[k] /\ L.w = <<>>
      BY <3>3
    <3>5. LemmaLits(SortOf(L)) = L.rest /\ LemmaLits(L) = L.rest
      BY <3>4, SortOfFacts
    <3> QED BY <3>2, <3>4, <3>5
  <2>2. CASE k \notin NewLemmas
    BY <1>1, <2>2
  <2> QED BY <2>1, <2>2
<1>4. SortedQueue \in Seq(LemmaType)
  BY <1>1 DEF Queue
<1>5. \A k \in 1 .. Len(SortedQueue) : Rooted(trail, LemmaLits(SortedQueue[k]))
  BY <1>1, <1>3 DEF FromTheory
<1> QED BY <1>4, <1>5 DEF FromTheory

(* updateLemmas backtracks to the level the lemmas ask for, and              *)
(* preregistration may add a lemma.                                          *)
LEMMA CutAnswers ==
  ASSUME IInv, IInv', CInv, ~spent, pc = "lemmas", NEW d \in Nat, trail' = CancelUntil(trail, d),
         qhead' = IF Len(trail') < Len(trail) THEN Len(trail') ELSE qhead,
         IF Len(trail') < Len(trail) THEN Registration(SortedQueue, trail', left)
                                     ELSE lemmas' = SortedQueue,
         at' = [at EXCEPT !.conflict = Lazy] \/ at' = at,
         UNCHANGED <<pc, clauses, ok, spent, Fixed>>
  PROVE CInv'
<1>1. UNCHANGED <<assertionLevel, trailOk>>
  BY DEF Fixed
<1>2. /\ at \in Locals /\ at.todo = {} /\ Shape(trail, assertionLevel) /\ Len(trail) \in Nat
      /\ qhead \in 0 .. Len(trail) /\ DecisionLevel(trail) \in Nat
      /\ \A i \in 1 .. Len(trail) : i > qhead => trail[i].level = DecisionLevel(trail)
  BY Facts
<1>3. at'.caller = at.caller /\ at'.todo = {} /\ (at.conflict # Undef => at'.conflict # Undef)
  <2>1. CASE at' = at
    BY <1>2, <2>1
  <2>2. CASE at' = [at EXCEPT !.conflict = Lazy]
    BY <1>2, <2>2 DEF Locals, Undef, Lazy
  <2> QED BY <2>1, <2>2
<1>4. /\ Keeps(trail, trail') /\ Shape(trail', assertionLevel) /\ Len(trail') \in 1 .. Len(trail)
      /\ \A i \in 1 .. Len(trail) : trail[i].level <= d <=> i <= Len(trail')
      /\ DecisionLevel(trail) <= d => trail' = trail
      /\ Len(trail') = Len(trail) => trail' = trail
  <2>1. LET u == CancelUntil(trail, d)
        IN  /\ Shape(u, assertionLevel) /\ Len(u) \in 1 .. Len(trail)
            /\ \A i \in 1 .. Len(trail) : trail[i].level <= d <=> i <= Len(u)
            /\ DecisionLevel(trail) <= d => u = trail
            /\ Len(u) = Len(trail) => u = trail
    BY <1>2, CancelFacts
  <2>2. Keeps(trail, CancelUntil(trail, d))
    BY <1>2, CancelKeeps
  <2> QED BY <2>1, <2>2
<1>5. at.caller # "addClause" /\ pc' = "lemmas"
  BY DEF CInv, Cycle
<1>6. Cycle(pc, at, trail, qhead, lemmas, ok, spent)'
  BY <1>1, <1>3, <1>5 DEF CInv, Cycle
<1>7. Begins(trail', trail')
  BY <1>4, BeginsItself
<1>8. FromTheory(lemmas, trail)'
  <2>1. FromTheory(SortedQueue, trail) /\ SortedQueue \in Seq(LemmaType)
    BY SortedFromTheory DEF CInv
  <2>2. PICK q : q = SortedQueue
    OBVIOUS
  <2>3. FromTheory(q, trail')
    BY <2>1, <2>2, <1>2, <1>4, FromTheoryCut
  <2>4. CASE Len(trail') < Len(trail)
    <3>1. PICK u : u = trail'
      OBVIOUS
    <3>2. /\ Registration(q, u, left) /\ FromTheory(q, u)
          /\ Shape(u, assertionLevel) /\ q \in Seq(LemmaType)
      BY <2>1, <2>2, <2>3, <2>4, <3>1, <1>4
    <3>3. FromTheory(lemmas', u)
      BY <3>2, RegisteredFromTheory
    <3> QED BY <3>1, <3>3
  <2>5. CASE ~(Len(trail') < Len(trail))
    BY <2>2, <2>3, <2>5
  <2> QED BY <2>4, <2>5
<1>9. CASE Len(trail') < Len(trail)
  <2>1. qhead' = Len(trail') /\ d < DecisionLevel(trail) /\ Len(trail') \in Nat
    BY <1>2, <1>4, <1>9
  <2>2. Pointer(pc, at, trail, qhead, assertionLevel, ok, spent)'
    BY <2>1, <1>3, <1>5 DEF Pointer
  <2>3. ~Dirty(pc, at)
    <3>1. at.conflict = Lazy => DecisionLevel(trail) = 0
      BY DEF IInv, Conflict
    <3>2. at.conflict \in {Undef, Lazy}
      BY DEF IInv, Conflict
    <3> QED BY <3>1, <3>2, <2>1 DEF Dirty
  <2>4. \A i \in 1 .. Len(trail') : i <= qhead \/ i = 1
    <3>1. ASSUME NEW i \in 1 .. Len(trail')
          PROVE i <= qhead
      <4>1. i \in 1 .. Len(trail) /\ i <= Len(trail')
        BY <1>2, <1>4
      <4>2. trail[i].level <= d /\ trail[i].level \in Nat
        BY <4>1, <1>2, <1>4, EntryFacts
      <4> QED BY <4>1, <4>2, <2>1, <1>2
    <3> QED BY <3>1
  <2>5. Complete(pc, at, trail, qhead, clauses, ok, trailOk, spent, assertionLevel)'
    BY <2>3, <2>4, <1>2, Running, CutComplete
  <2> QED BY <2>2, <2>5, <1>6, <1>8 DEF CInv
<1>10. CASE ~(Len(trail') < Len(trail))
  <2>1. trail' = trail /\ qhead' = qhead
    <3>1. Len(trail') = Len(trail)
      BY <1>2, <1>4, <1>10
    <3> QED BY <3>1, <1>4, <1>10
  <2>2. Pointer(pc, at, trail, qhead, assertionLevel, ok, spent)'
    BY <2>1, <1>1, <1>2, <1>3, <1>5 DEF CInv, Pointer
  <2>3. Begins(trail, trail')
    BY <2>1, <1>7
  <2>4. Fewer(trail)
    <3>1. Dirty(pc, at) => Dirty(pc', at') /\ DecisionLevel(trail') = DecisionLevel(trail)
      BY <2>1, <1>3, <1>5 DEF Dirty
    <3>2. at'.todo = at.todo
      BY <1>2, <1>3
    <3> QED BY <3>1, <3>2, <2>1, <2>3, <1>1, Unmoved
  <2>5. Complete(pc, at, trail, qhead, clauses, ok, trailOk, spent, assertionLevel)'
    BY <2>3, <2>4, Running, SameClauses
  <2> QED BY <2>2, <2>5, <1>6, <1>8 DEF CInv
<1> QED BY <1>9, <1>10

(* updateLemmas sorts the lemmas, backtracks, and may find one of them       *)
(* empty.                                                                    *)
LEMMA SortLemmasAnswers ==
  ASSUME IInv, IInv', CInv, ~spent, SortLemmas
  PROVE CInv'
<1>1. pc = "lemmas" /\ UNCHANGED <<clauses, ok, answer, model, spent, Fixed>>
  BY DEF SortLemmas
<1>2. \/ /\ pc' = "attach" /\ at' = [at EXCEPT !.bound = Len(trail)]
         /\ UNCHANGED <<trail, qhead, lemmas, intro, left>>
      \/ \E d \in Levels :
           /\ trail' = CancelUntil(trail, d)
           /\ qhead' = IF Len(trail') < Len(trail) THEN Len(trail') ELSE qhead
           /\ IF Len(trail') < Len(trail)
                THEN Registration(SortedQueue, trail', left)
                ELSE lemmas' = SortedQueue /\ UNCHANGED <<intro, left>>
           /\ at' = IF \E i \in NewLemmas : SortedQueue[i].w = <<>>
                      THEN [at EXCEPT !.conflict = Lazy] ELSE at
           /\ UNCHANGED pc
  BY DEF SortLemmas, NewLemmas, SortedQueue, Levels, SortOf
<1>3. CASE /\ pc' = "attach" /\ at' = [at EXCEPT !.bound = Len(trail)]
           /\ UNCHANGED <<trail, qhead, lemmas, intro, left>>
  <2>1. /\ at \in Locals /\ at.todo = {} /\ Len(trail) \in Nat /\ qhead \in 0 .. Len(trail)
        /\ Shape(trail, assertionLevel)
    BY <1>1, Facts
  <2>2. /\ at'.caller = at.caller /\ at'.todo = {} /\ at'.conflict = at.conflict
        /\ at'.bound = Len(trail) /\ at'.check = at.check
    <3>1. PICK n \in Nat : n = Len(trail)
      BY <2>1
    <3>2. at' = [at EXCEPT !.bound = n]
      BY <1>3, <3>1
    <3> QED BY <2>1, <3>1, <3>2, NewBound
  <2>3. UNCHANGED <<assertionLevel, trailOk>> /\ at.caller # "addClause"
    BY <1>1 DEF Fixed, CInv, Cycle
  <2>4. Cycle(pc, at, trail, qhead, lemmas, ok, spent)'
    BY <1>1, <1>3, <2>2, <2>3 DEF CInv, Cycle
  <2>5. Pointer(pc, at, trail, qhead, assertionLevel, ok, spent)'
    BY <1>1, <1>3, <2>1, <2>2, <2>3 DEF CInv, Pointer
  <2>6. FromTheory(lemmas, trail)'
    BY <1>3 DEF CInv
  <2>7. Begins(trail, trail')
    BY <1>3, <2>1, BeginsItself
  <2>8. Fewer(trail)
    BY <1>1, <1>3, <2>1, <2>2, <2>3, <2>7, Unmoved DEF Dirty
  <2> QED BY <1>1, <2>4, <2>5, <2>6, <2>7, <2>8, Running, SameClauses DEF CInv
<1>4. ASSUME NEW d \in Levels, trail' = CancelUntil(trail, d),
             qhead' = IF Len(trail') < Len(trail) THEN Len(trail') ELSE qhead,
             IF Len(trail') < Len(trail) THEN Registration(SortedQueue, trail', left)
                                         ELSE lemmas' = SortedQueue /\ UNCHANGED <<intro, left>>,
             at' = IF \E i \in NewLemmas : SortedQueue[i].w = <<>>
                     THEN [at EXCEPT !.conflict = Lazy] ELSE at,
             UNCHANGED pc
      PROVE CInv'
  <2>1. d \in Nat
    <3>1. CASE d = DecisionLevel(trail)
      BY <3>1, Facts
    <3>2. CASE d # DecisionLevel(trail)
      <4>1. PICK i \in NewLemmas : d = BacktrackLevel(SortedQueue[i].w)
        BY <3>2 DEF Levels
      <4>2. i \in 1 .. Len(lemmas)
        BY <1>1, SortedQueueFacts
      <4>3. InOrder(trail, lemmas[i].rest, SortedQueue[i]) /\ lemmas[i].rest \subseteq Literals
        BY <1>1, <4>2, SortedQueueFacts
      <4> QED BY <4>1, <4>3, BacktrackFacts
    <3> QED BY <3>1, <3>2
  <2>2. IF Len(trail') < Len(trail) THEN Registration(SortedQueue, trail', left)
                                    ELSE lemmas' = SortedQueue
    BY <1>4
  <2>3. at' = [at EXCEPT !.conflict = Lazy] \/ at' = at
    BY <1>4
  <2> QED BY <1>1, <1>4, <2>1, <2>2, <2>3, CutAnswers
<1> QED BY <1>2, <1>3, <1>4

(* A lemma attached with both watches false is false on the highest level,   *)
(* where a conflict is now known, or on decision level zero: there it is a   *)
(* clause of the theory.                                                     *)
LEMMA AttachedFalse ==
  ASSUME IInv, CInv, ~spent, pc = "attach", lemmas # <<>>, NEW L, L = Head(lemmas),
         Len(L.w) = 2, IsFalse(trail, L.w[1]), IsFalse(trail, L.w[2]),
         NEW b, Propagating(L) => Dirty(pc, b), NEW r, NEW d, d.w = L.w, d.rest = L.rest
  PROVE Seen(trail, d, Visited(pc, b, trail, qhead, assertionLevel, r))
<1> DEFINE N == Visited(pc, b, trail, qhead, assertionLevel, r)
           dl == DecisionLevel(trail)
<1>1. /\ Shape(trail, assertionLevel) /\ assertionLevel \in Nat /\ Len(trail) \in Nat
      /\ dl \in Nat /\ qhead \in 0 .. Len(trail) /\ at \in Locals
  BY Facts
<1>2. L \in LemmaType /\ Ready(L, trail, at.bound)
  BY HeadFacts
<1>3. PICK x \in AtomLits, y \in AtomLits : x = L.w[1] /\ y = L.w[2]
  <2>1. L.w \in Seq(AtomLits)
    BY <1>2, QueueFacts
  <2> QED BY <2>1
<1>4. x \in Literals /\ y \in Literals
  BY <1>3, AtomLitFacts
<1>5. PICK i \in 1 .. Len(trail), j \in 1 .. Len(trail) :
        /\ trail[i].lit = -x /\ trail[j].lit = -y /\ At(trail, x) = i /\ At(trail, y) = j
  <2>1. /\ At(trail, x) \in 1 .. Len(trail) /\ trail[At(trail, x)].lit = -x
        /\ At(trail, y) \in 1 .. Len(trail) /\ trail[At(trail, y)].lit = -y
    BY <1>1, <1>3, <1>4, AtFalse
  <2> QED BY <2>1
<1>6. i # 1 /\ j # 1
  <2>1. -x \in AtomLits /\ -y \in AtomLits
    BY <1>3, AtomLitFacts
  <2>2. -x # VarTrue /\ -y # VarTrue
    BY <2>1, AtomLitFacts
  <2> QED BY <2>2, <1>1, <1>5 DEF Shape
<1>7. \A m \in 1 .. Len(trail) : /\ trail[m].lit = -x => m = i
                                 /\ trail[m].lit = -y => m = j
  <2>1. ASSUME NEW m \in 1 .. Len(trail), NEW n \in 1 .. Len(trail), trail[m].lit = trail[n].lit
        PROVE m = n
    BY <2>1, <1>1 DEF Shape
  <2> QED BY <2>1, <1>5
<1>8. N \subseteq 1 .. Len(trail)
  BY DEF Visited
<1>9. ASSUME i \notin N \/ j \notin N
      PROVE Seen(trail, d, N)
  <2> HIDE DEF N
  <2>1. \A m, n \in N : ~(trail[m].lit = -d.w[1] /\ trail[n].lit = -d.w[2])
    BY <1>3, <1>7, <1>8, <1>9
  <2> QED BY <2>1 DEF Seen, Watched
<1>10. CASE ~Propagating(L)
  <2>1. ~(j <= at.bound)
    BY <1>3, <1>5, <1>10 DEF Propagating
  <2>2. qhead <= at.bound
    BY DEF CInv, Pointer
  <2>3. ~(j <= qhead)
    BY <2>1, <2>2, <1>1, LocalsFacts
  <2>4. j \notin N
    BY <2>3, <1>6 DEF Visited
  <2> QED BY <2>4, <1>9
<1>11. CASE Propagating(L)
  <2>1. Dirty(pc, b)
    BY <1>11
  <2>2. /\ \A l \in L.rest : Before(trail, l, j)
        /\ LevelOf(trail, x) = dl
    BY <1>2, <1>3, <1>5, <1>11 DEF Ready, Propagating
  <2>3. trail[i].level = dl
    BY <2>2, <1>5 DEF LevelOf
  <2>4. CASE dl > 0
    <3>1. trail[i].ulevel = assertionLevel
      BY <2>3, <2>4, <1>1, EntryFacts
    <3>2. OnTopOf(trail, assertionLevel, i)
      BY <2>3, <3>1 DEF OnTopOf
    <3>3. i \notin N
      BY <2>1, <3>2, <1>6 DEF Visited
    <3> QED BY <3>3, <1>9
  <2>5. CASE dl = 0
    <3>1. trail[i].level = 0 /\ trail[j].level = 0
      BY <2>5, <1>1, EntryFacts
    <3>2. \A l \in d.rest : Before(trail, l, i) \/ Before(trail, l, j)
      BY <2>2
    <3>3. Down(trail, d)
      BY <3>1, <3>2, <1>3, <1>5 DEF Down
    <3>4. Rooted(trail, LemmaLits(L))
      <4>1. lemmas \in Seq(LemmaType) /\ FromTheory(lemmas, trail)
        BY DEF IInv, Queue, CInv
      <4>2. 1 \in 1 .. Len(lemmas) /\ L = lemmas[1]
        BY <4>1
      <4> QED BY <4>1, <4>2 DEF FromTheory
    <3>5. LemmaLits(L) = Lits(d)
      <4>1. DOMAIN L.w = 1 .. 2
        BY <1>2, QueueFacts
      <4>2. {L.w[m] : m \in DOMAIN L.w} = {x, y}
        BY <4>1, <1>3
      <4>3. d.w[1] = x /\ d.w[2] = y
        BY <1>3
      <4> QED BY <4>2, <4>3 DEF LemmaLits, Lits
    <3> QED BY <3>3, <3>4, <3>5 DEF Seen
  <2> QED BY <2>4, <2>5, <1>1
<1> QED BY <1>10, <1>11

(* A step of updateLemmas that attaches one lemma, if its clause is seen.    *)
LEMMA AttachAnswers ==
  ASSUME IInv, IInv', CInv, ~spent, pc = "attach", lemmas # <<>>, lemmas' = Tail(lemmas),
         UNCHANGED <<qhead, pc, Inside>>, Begins(trail, trail'), Current(trail, trail'),
         DecisionLevel(trail') = DecisionLevel(trail),
         at'.caller = at.caller, at'.todo = {}, at'.bound = at.bound,
         at.conflict # Undef => at'.conflict # Undef,
         \A r \in DOMAIN clauses' : Now(r) \/ (r \in DOMAIN clauses /\ clauses'[r] = clauses[r])
  PROVE CInv'
<1>1. UNCHANGED <<assertionLevel, ok, spent, trailOk>>
  BY DEF Inside, Fixed
<1>2. /\ at.todo = {} /\ Shape(trail, assertionLevel) /\ Len(trail) \in Nat
      /\ Len(trail') \in Nat
  BY Facts, ShapesNext
<1>3. at.caller # "addClause"
  BY DEF CInv, Cycle
<1>4. Cycle(pc, at, trail, qhead, lemmas, ok, spent)'
  BY <1>1, <1>3 DEF CInv, Cycle
<1>5. Pointer(pc, at, trail, qhead, assertionLevel, ok, spent)'
  <2>1. qhead <= at'.bound
    BY DEF CInv, Pointer
  <2> QED BY <2>1, <1>1, <1>2, PointerGrows
<1>6. FromTheory(lemmas, trail)'
  <2>1. lemmas \in Seq(LemmaType) /\ FromTheory(lemmas, trail)
    BY DEF IInv, Queue, CInv
  <2>2. FromTheory(lemmas, trail')
    BY <2>1, <1>2, FromTheoryBegins
  <2>3. \A k \in 1 .. Len(lemmas') : k + 1 \in 1 .. Len(lemmas) /\ lemmas'[k] = lemmas[k + 1]
    BY <2>1
  <2> QED BY <2>2, <2>3 DEF FromTheory
<1>7. Fewer(trail)
  BY <1>1, <1>2, Unmoved DEF Dirty
<1>8. \A r \in DOMAIN clauses' : Old(trail, r) \/ Now(r)
  BY <1>7 DEF Fewer, Old
<1>9. Keeps(trail, trail)
  BY <1>2, BeginsItself
<1>10. Complete(pc, at, trail, qhead, clauses, ok, trailOk, spent, assertionLevel)'
  BY <1>1, <1>2, <1>8, <1>9, Running, StillComplete
<1> QED BY <1>4, <1>5, <1>6, <1>10 DEF CInv

(* updateLemmas attaches a lemma: as a clause, as a unit, or as the          *)
(* conflict.                                                                 *)
LEMMA AttachLemmaAnswers ==
  ASSUME IInv, IInv', CInv, ~spent, AttachLemma
  PROVE CInv'
<1> DEFINE al == assertionLevel
           dl == DecisionLevel(trail)
<1>1. /\ pc = "attach" /\ lemmas # <<>> /\ lemmas' = Tail(lemmas)
      /\ UNCHANGED <<qhead, pc, Inside>>
  BY DEF AttachLemma
<1>2. PICK L : L = Head(lemmas)
  OBVIOUS
<1>3. PICK ref : ref = IF Len(L.w) > 1 THEN FreshRef(clauses) ELSE Undef
  OBVIOUS
<1>4. clauses' = IF Len(L.w) > 1
                   THEN Attach(clauses, Clause(L, ClauseLevel(intro, LemmaLits(L),
                                                              L.removable), L.removable))
                   ELSE clauses
  BY <1>2 DEF AttachLemma, LemmaLits
<1>5. /\ ref \in Int /\ (ref > 0 <=> Len(L.w) = 2) /\ ref >= 0
  BY <1>1, <1>2, <1>3, <1>4, LemmaAttached DEF Attached
<1>6. /\ Len(L.w) > 1 <=> Len(L.w) = 2
      /\ L \in LemmaType /\ Ready(L, trail, at.bound) /\ L.w \in Seq(AtomLits)
  <2>1. L \in LemmaType /\ Ready(L, trail, at.bound)
    BY <1>1, <1>2, HeadFacts
  <2>2. Len(L.w) \in Nat /\ Len(L.w) <= 2 /\ L.w \in Seq(AtomLits)
    BY <2>1, QueueFacts DEF Ready
  <2>3. PICK n \in Nat : n = Len(L.w)
    BY <2>2
  <2>4. n <= 2
    BY <2>2, <2>3
  <2>5. n > 1 <=> n = 2
    BY <2>4
  <2> QED BY <2>1, <2>2, <2>3, <2>5
<1>7. \/ /\ at.conflict # Undef \/ IsTrue(trail, L.w[1]) \/ ~Propagating(L)
         /\ UNCHANGED <<trail, at>>
      \/ /\ at.conflict = Undef /\ ~IsTrue(trail, L.w[1]) /\ Propagating(L)
         /\ IsFalse(trail, L.w[1])
         /\ at' = [at EXCEPT !.conflict = IF Len(L.w) = 2 THEN ref ELSE Lazy]
         /\ UNCHANGED trail
      \/ /\ at.conflict = Undef /\ ~IsTrue(trail, L.w[1]) /\ Propagating(L)
         /\ ~IsFalse(trail, L.w[1])
         /\ trail' = Enqueue(trail, L.w[1], ref, dl) /\ UNCHANGED at
  BY <1>2, <1>3, <1>6 DEF AttachLemma, Propagating
<1>8. /\ at \in Locals /\ at.todo = {} /\ Shape(trail, al) /\ al \in Nat /\ dl \in Nat
      /\ Len(trail) \in Nat /\ Len(trail') \in Nat /\ Shape(trail', al)
  <2>1. assertionLevel' = al
    BY <1>1 DEF Inside, Fixed
  <2> QED BY <2>1, <1>1, Facts, ShapesNext
\* The new clause, if there is one.
<1>9. ASSUME NEW r \in DOMAIN clauses', ~(r \in DOMAIN clauses /\ clauses'[r] = clauses[r])
      PROVE /\ Len(L.w) = 2 /\ clauses'[r].w = L.w /\ clauses'[r].rest = L.rest
  <2>1. Len(L.w) = 2
    BY <1>4, <1>6, <1>9
  <2>2. PICK c : c = Clause(L, ClauseLevel(intro, LemmaLits(L), L.removable), L.removable)
    OBVIOUS
  <2>3. clauses' = Attach(clauses, c)
    BY <1>4, <1>6, <2>1, <2>2
  <2>4. clauses'[r] = c
    BY <1>9, <2>3, Attaching
  <2>5. c.w = L.w /\ c.rest = L.rest
    BY <2>2 DEF Clause
  <2> QED BY <2>1, <2>4, <2>5
<1>10. CASE UNCHANGED trail /\ ~(/\ at.conflict = Undef /\ ~IsTrue(trail, L.w[1])
                                 /\ Propagating(L) /\ ~IsFalse(trail, L.w[1]))
  <2>1. /\ at'.caller = at.caller /\ at'.todo = {} /\ at'.bound = at.bound
        /\ at.conflict # Undef => at'.conflict # Undef
        /\ Propagating(L) /\ IsFalse(trail, L.w[1]) => at'.conflict # Undef
    <3>1. CASE at' = at /\ (at.conflict # Undef \/ IsTrue(trail, L.w[1]) \/ ~Propagating(L))
      <4>1. IsFalse(trail, L.w[1]) /\ Propagating(L) => at.conflict # Undef
        <5>1. ASSUME IsFalse(trail, L.w[1]), Propagating(L), IsTrue(trail, L.w[1])
              PROVE at.conflict # Undef
          <6>1. CASE L.w = <<>>
            BY <6>1, <1>1, <1>2, HeadFacts
          <6>2. CASE L.w # <<>>
            <7>1. L.w[1] \in AtomLits
              BY <6>2, <1>6
            <7> QED BY <7>1, <5>1, <1>8, AtomLitFacts, Undefined
          <6> QED BY <6>1, <6>2
        <5> QED BY <5>1, <3>1
      <4> QED BY <4>1, <3>1, <1>8
    <3>2. CASE at.conflict = Undef /\ at' = [at EXCEPT !.conflict = IF Len(L.w) = 2 THEN ref ELSE Lazy]
      <4>1. PICK z \in Int : z = IF Len(L.w) = 2 THEN ref ELSE Lazy
        BY <1>5 DEF Lazy
      <4>2. z # Undef
        BY <1>5, <4>1 DEF Lazy, Undef
      <4>3. at' = [at EXCEPT !.conflict = z]
        BY <3>2, <4>1
      <4>4. /\ at'.caller = at.caller /\ at'.todo = at.todo /\ at'.conflict = z
            /\ at'.bound = at.bound
        BY <4>3, <1>8 DEF Locals
      <4> QED BY <4>2, <4>4, <1>8
    <3> QED BY <3>1, <3>2, <1>7, <1>10
  <2>2. Begins(trail, trail') /\ Current(trail, trail')
    BY <1>8, <1>10, BeginsItself DEF Current
  <2>3. ASSUME NEW r \in DOMAIN clauses', ~(r \in DOMAIN clauses /\ clauses'[r] = clauses[r])
        PROVE Now(r)
    <3>1. PICK d : d = clauses'[r]
      OBVIOUS
    <3>2. Len(L.w) = 2 /\ d.w = L.w /\ d.rest = L.rest
      BY <2>3, <3>1, <1>9
    <3>3. PICK b : b = at'
      OBVIOUS
    <3>4. Seen(trail, d, Visited(pc, b, trail, qhead, al, r))
      <4>1. CASE IsFalse(trail, L.w[1]) /\ IsFalse(trail, L.w[2])
        <5>1. Propagating(L) => Dirty(pc, b)
          BY <2>1, <3>3, <4>1 DEF Dirty
        <5> QED BY <1>1, <1>2, <3>2, <4>1, <5>1, AttachedFalse
      <4>2. CASE ~IsFalse(trail, d.w[1]) \/ ~IsFalse(trail, d.w[2])
        <5>1. Visited(pc, b, trail, qhead, al, r) \subseteq 1 .. Len(trail)
          BY DEF Visited
        <5> QED BY <4>2, <5>1, <1>8, SeenNotFalse
      <4> QED BY <3>2, <4>1, <4>2
    <3>5. UNCHANGED <<pc, qhead, assertionLevel>>
      BY <1>1 DEF Inside, Fixed
    <3> QED BY <3>1, <3>3, <3>4, <3>5, <1>10 DEF Now
  <2> QED BY <1>1, <1>10, <2>1, <2>2, <2>3, AttachAnswers
<1>11. CASE /\ at.conflict = Undef /\ ~IsTrue(trail, L.w[1]) /\ Propagating(L)
            /\ ~IsFalse(trail, L.w[1])
            /\ trail' = Enqueue(trail, L.w[1], ref, dl) /\ UNCHANGED at
  <2>1. PICK l \in AtomLits : l = L.w[1]
    BY <1>1, <1>2, <1>11, PropagatingFacts
  <2>2. IsUndef(trail, l) /\ dl <= dl /\ ref >= -1
    BY <2>1, <1>5, <1>8, <1>11, AtomLitFacts, Undefined
  <2>3. trail' = Enqueue(trail, l, ref, dl)
    BY <1>11, <2>1
  <2>4. /\ Begins(trail, trail') /\ Len(trail') = Len(trail) + 1
        /\ trail'[Len(trail) + 1].ulevel = al /\ ~IsFalse(trail', l)
        /\ trail'[Len(trail) + 1].level = dl
    BY <1>5, <1>8, <2>2, <2>3, EnqueueInt
  <2>5. Current(trail, trail')
    <3>1. \A i \in 1 .. Len(trail') : i <= Len(trail) \/ i = Len(trail) + 1
      BY <2>4, <1>8
    <3> QED BY <3>1, <2>4 DEF Current
  <2>6. DecisionLevel(trail') = DecisionLevel(trail)
    BY <2>4 DEF DecisionLevel
  <2>7. ASSUME NEW r \in DOMAIN clauses', ~(r \in DOMAIN clauses /\ clauses'[r] = clauses[r])
        PROVE Now(r)
    <3>1. PICK d : d = clauses'[r]
      OBVIOUS
    <3>2. ~IsFalse(trail', d.w[1])
      BY <2>1, <2>4, <2>7, <3>1, <1>9
    <3>3. Visited(pc', at', trail', qhead', assertionLevel', r) \subseteq 1 .. Len(trail')
      BY DEF Visited
    <3>4. PICK N : N = Visited(pc', at', trail', qhead', assertionLevel', r)
      OBVIOUS
    <3>5. Seen(trail', d, N)
      BY <3>2, <3>3, <3>4, <1>8, SeenNotFalse
    <3> QED BY <3>1, <3>4, <3>5 DEF Now
  <2>8. /\ at'.caller = at.caller /\ at'.todo = {} /\ at'.bound = at.bound
        /\ at.conflict # Undef => at'.conflict # Undef
    BY <1>8, <1>11
  <2> QED BY <1>1, <2>4, <2>5, <2>6, <2>7, <2>8, AttachAnswers
<1> QED BY <1>7, <1>10, <1>11

(* addClause sorts a literal that is not false to the front, if there is     *)
(* one.                                                                      *)
LEMMA FrontNotFalse ==
  ASSUME NEW t, NEW al, Shape(t, al), NEW S, NEW s, S \subseteq Literals, InFront(t, S, s),
         NEW n \in S, ~IsFalse(t, n)
  PROVE ~IsFalse(t, s.w[1])
<1>1. PICK a \in S, b \in S : /\ a # b /\ s.w = <<a, b>>
                              /\ \A y \in S \ {a} : Precedes(t, a, y)
  BY DEF InFront
<1>2. s.w[1] = a
  BY <1>1
<1>3. CASE n = a
  BY <1>2, <1>3
<1>4. CASE n # a
  <2>1. Precedes(t, a, n)
    BY <1>1, <1>4
  <2>2. IsUndef(t, n) \/ IsTrue(t, n)
    BY Undefined
  <2>3. ASSUME IsFalse(t, a)
        PROVE ~IsUndef(t, a) /\ ~IsTrue(t, a)
    BY <2>3, Undefined
  <2> QED BY <1>2, <2>1, <2>2, <2>3 DEF Precedes
<1> QED BY <1>3, <1>4

(* addClause simplifies the clause, attaches it and propagates, or finds it  *)
(* false.                                                                    *)
LEMMA AddClauseAnswers ==
  ASSUME IInv, IInv', CInv, ~spent, pc = "idle", NEW S, S \subseteq AtomLits,
         NEW removable \in BOOLEAN, AddClause(S, removable)
  PROVE CInv'
<1> DEFINE al == assertionLevel
           int == Created(S)
           K == Kept(trail, S)
           F == {l \in K : IsFalse(trail, l)}
           s == Sorted(trail, K)
           long == Cardinality(K) > 1
           ref == IF long THEN FreshRef(clauses) ELSE Undef
           c == Clause(s, ClauseLevel(int, S, removable), FALSE)
           db == IF long THEN Attach(clauses, c) ELSE clauses
<1>1. /\ UNCHANGED <<assertionLevel, trailOk, lemmas, qhead, cores, spent>>
      /\ IF ~ok \/ Ignored(trail, S) THEN UNCHANGED <<clauses, trail, ok, pc, at>>
         ELSE IF F = K THEN
           /\ ok' = FALSE
           /\ clauses' = IF cores THEN db ELSE clauses
           /\ UNCHANGED <<trail, pc, at>>
         ELSE
           /\ clauses' = db
           /\ UNCHANGED ok
           /\ IF Cardinality(K) = Cardinality(F) + 1 /\ IsUndef(trail, s.w[1])
                THEN /\ trail' = Enqueue(trail, s.w[1], ref, 0)
                     /\ pc' = "propagate" /\ at' = Start("addClause")
                ELSE UNCHANGED <<trail, pc, at>>
  BY DEF AddClause
<1>2. /\ al \in Nat /\ Shape(trail, al) /\ Len(trail) \in Nat /\ lemmas = <<>>
      /\ at.todo = {} /\ at.conflict = Undef /\ IsFiniteSet(DOMAIN clauses)
      /\ DecisionLevel(trail) = 0 /\ qhead \in 0 .. Len(trail)
  <2>1. DecisionLevel(trail) = 0
    BY DEF IInv, Protocol
  <2>2. lemmas = <<>>
    BY DEF CInv, Cycle
  <2> QED BY <2>1, <2>2, Facts
<1>3. CASE UNCHANGED <<clauses, trail, ok, pc, at>>
  BY <1>1, <1>3 DEF CInv
<1>4. /\ K \subseteq Literals /\ K \subseteq AtomLits /\ IsFiniteSet(K)
      /\ long => InFront(trail, K, s)
  <2>1. K \subseteq AtomLits
    BY DEF Kept
  <2>2. K \subseteq Literals /\ IsFiniteSet(K)
    BY <2>1, AtomLitFacts, AtomLitsFinite, FS_Subset
  <2> HIDE DEF K
  <2>3. ASSUME long PROVE InFront(trail, K, s)
    <3>1. \E a, b \in K : a # b
      BY <1>2, <2>2, <2>3, SortedIs
    <3>2. Several(K)
      BY <2>2, <3>1 DEF Several
    <3> QED BY <1>2, <3>2, LongSorted
  <2> QED BY <2>1, <2>2, <2>3
<1>5. c.w = s.w /\ c.rest = s.rest /\ c.level = ClauseLevel(int, S, removable)
  BY DEF Clause
<1>6. cores => c.level = al
  BY <1>5 DEF ClauseLevel
<1> HIDE DEF c
<1>7. ref \in Int /\ ref >= -1 /\ (long => ref > 0)
  <2>1. LET e == Attach(clauses, c)
            f == FreshRef(clauses)
        IN  /\ DOMAIN e = DOMAIN clauses \cup {f} /\ e[f] = c /\ f \notin DOMAIN clauses
            /\ f \in Nat /\ f > 0
            /\ \A r \in DOMAIN clauses : r \in DOMAIN e /\ e[r] = clauses[r]
    BY <1>2, AttachFacts
  <2>2. long => ref \in Nat /\ ref > 0
    BY <2>1
  <2>3. ~long => ref = 0
    BY DEF Undef
  <2> HIDE DEF long, ref
  <2> QED BY <2>2, <2>3
<1>8. ASSUME clauses' = db, NEW r \in DOMAIN clauses',
             ~(r \in DOMAIN clauses /\ clauses'[r] = clauses[r])
      PROVE long /\ clauses'[r] = c
  <2>1. long
    BY <1>8
  <2>2. clauses' = Attach(clauses, c)
    BY <1>8, <2>1
  <2> QED BY <1>8, <2>1, <2>2, Attaching
<1> HIDE DEF K, F, s, long, ref, db
<1>9. CASE ok /\ F = K /\ ok' = FALSE /\ clauses' = (IF cores THEN db ELSE clauses)
           /\ UNCHANGED <<trail, pc, at>>
  <2>1. Cycle(pc, at, trail, qhead, lemmas, ok, spent)'
    BY <1>1, <1>9 DEF CInv, Cycle
  <2>2. Pointer(pc, at, trail, qhead, assertionLevel, ok, spent)' /\ FromTheory(lemmas, trail)'
    BY <1>1, <1>2, <1>9 DEF CInv, Pointer
  <2>3. ASSUME ~spent PROVE Restorable(trailOk, trail, clauses', al)
    <3>1. Restorable(trailOk, trail, clauses, al)
      BY <1>9, <2>3, ShutDown DEF CInv, Complete
    <3>2. ASSUME NEW r \in DOMAIN clauses', clauses'[r].level < al
          PROVE r \in DOMAIN clauses /\ clauses'[r] = clauses[r]
      <4>1. CASE clauses' = clauses
        BY <4>1
      <4>2. CASE cores /\ clauses' = db
        <5>1. c.level = al
          BY <1>6, <4>2
        <5>2. clauses'[r] # c
          BY <1>2, <3>2, <5>1
        <5> QED BY <1>8, <4>2, <5>2
      <4> QED BY <4>1, <4>2, <1>9
    <3>3. ASSUME NEW k \in 0 .. al - 1, trailOk[k + 1],
                 NEW r \in DOMAIN clauses', clauses'[r].level <= k
          PROVE Seen(trail, clauses'[r], OfLevel(trail, k))
      <4>1. clauses'[r].level \in Nat
        <5>1. Sound(clauses'[r], inputs', intro', al)
          BY <1>1 DEF IInv, Db
        <5> QED BY <1>2, <5>1, SoundFacts
      <4>2. clauses'[r].level < al
        BY <1>2, <3>3, <4>1
      <4>3. r \in DOMAIN clauses /\ clauses'[r] = clauses[r]
        BY <3>2, <4>2
      <4> QED BY <3>1, <3>3, <4>3 DEF Restorable
    <3> QED BY <3>3 DEF Restorable
  <2>4. Complete(pc, at, trail, qhead, clauses, ok, trailOk, spent, assertionLevel)'
    BY <1>1, <1>9, <2>3 DEF Complete
  <2> QED BY <2>1, <2>2, <2>4 DEF CInv
<1>10. ASSUME ok, ok' = ok, clauses' = db, qhead' = qhead, assertionLevel' = al,
              Begins(trail, trail'), at'.todo = {},
              long => ~IsFalse(trail', c.w[1])
       PROVE Complete(pc, at, trail, qhead, clauses, ok, trailOk, spent, assertionLevel)'
  <2>1. Fewer(trail)
    BY <1>2, <1>10, Unmoved DEF Dirty
  <2>2. Shape(trail', al) /\ Len(trail') \in Nat
    BY <1>10, ShapesNext
  <2>3. ASSUME NEW r \in DOMAIN clauses', ~(r \in DOMAIN clauses /\ clauses'[r] = clauses[r])
        PROVE Now(r)
    <3>1. PICK d : d = clauses'[r]
      OBVIOUS
    <3>2. ~IsFalse(trail', d.w[1])
      BY <1>8, <1>10, <2>3, <3>1
    <3>3. PICK N : N = Visited(pc', at', trail', qhead', assertionLevel', r)
      OBVIOUS
    <3>4. N \subseteq 1 .. Len(trail')
      BY <3>3 DEF Visited
    <3>5. Seen(trail', d, N)
      BY <2>2, <3>2, <3>4, SeenNotFalse
    <3> QED BY <3>1, <3>3, <3>5 DEF Now
  <2>4. \A r \in DOMAIN clauses' : Old(trail, r) \/ Now(r)
    BY <2>1, <2>3 DEF Fewer, Old
  <2>5. Keeps(trail, trail)
    BY <1>2, BeginsItself
  <2>6. ~spent => Propagated(pc, at, trail, qhead, clauses, assertionLevel)
    BY <1>10 DEF CInv, Complete
  <2> QED BY <1>1, <1>2, <1>10, <2>4, <2>5, <2>6, Carried DEF Complete
<1>11. CASE ok /\ F # K /\ clauses' = db /\ ok' = ok /\ UNCHANGED <<trail, pc, at>>
  <2>1. PICK n \in K : ~IsFalse(trail, n)
    BY <1>11 DEF F
  <2>2. long => ~IsFalse(trail, c.w[1])
    BY <1>2, <1>4, <1>5, <2>1, FrontNotFalse
  <2>3. Begins(trail, trail') /\ at'.todo = {}
    BY <1>2, <1>11, BeginsItself
  <2>4. Complete(pc, at, trail, qhead, clauses, ok, trailOk, spent, assertionLevel)'
    BY <1>1, <1>10, <1>11, <2>2, <2>3
  <2>5. /\ Cycle(pc, at, trail, qhead, lemmas, ok, spent)'
        /\ Pointer(pc, at, trail, qhead, assertionLevel, ok, spent)' /\ FromTheory(lemmas, trail)'
    BY <1>1, <1>11 DEF CInv
  <2> QED BY <2>4, <2>5 DEF CInv
<1>12. CASE /\ ok /\ F # K /\ clauses' = db /\ ok' = ok
            /\ Cardinality(K) = Cardinality(F) + 1 /\ IsUndef(trail, s.w[1])
            /\ trail' = Enqueue(trail, s.w[1], ref, 0)
            /\ pc' = "propagate" /\ at' = Start("addClause")
  <2>1. s.w[1] \in K
    <3>1. Cardinality(K) = Cardinality(FalseOf(K)) + 1
      BY <1>12 DEF F, FalseOf
    <3>2. IsUndef(trail, Sorted(trail, K).w[1])
      BY <1>12 DEF s
    <3>3. Sorted(trail, K).w[1] \in K
      BY <1>2, <1>4, <3>1, <3>2, LoneLiteral
    <3> QED BY <3>3 DEF s
  <2>2. PICK l \in AtomLits : l = s.w[1]
    BY <1>4, <2>1
  <2>3. PICK z \in Nat : z = 0
    OBVIOUS
  <2>4. trail' = Enqueue(trail, l, ref, z) /\ DecisionLevel(trail) <= z /\ IsUndef(trail, l)
    BY <1>2, <1>12, <2>2, <2>3
  <2>5. /\ Begins(trail, trail') /\ Len(trail') = Len(trail) + 1
        /\ trail'[Len(trail) + 1].ulevel = al /\ ~IsFalse(trail', l)
    BY <1>2, <1>7, <2>4, EnqueueInt
  <2>6. /\ at'.caller = "addClause" /\ at'.check = "theory" /\ at'.todo = {}
        /\ at'.conflict = Undef
    <3>1. PICK k \in {"search", "addClause"} : k = "addClause"
      OBVIOUS
    <3> QED BY <1>12, <3>1, StartFacts
  <2>7. Current(trail, trail')
    <3>1. \A i \in 1 .. Len(trail') : i <= Len(trail) \/ i = Len(trail) + 1
      BY <2>5, <1>2
    <3> QED BY <3>1, <2>5 DEF Current
  <2>8. Cycle(pc, at, trail, qhead, lemmas, ok, spent)'
    BY <1>1, <1>2, <1>12, <2>6 DEF Cycle
  <2>9. Pointer(pc, at, trail, qhead, assertionLevel, ok, spent)'
    <3>1. Len(trail') \in Nat /\ at'.todo \subseteq at.todo
      BY <2>6, ShapesNext
    <3> QED BY <1>1, <1>12, <2>5, <2>7, <3>1, PointerGrows
  <2>10. FromTheory(lemmas, trail)'
    BY <1>1, <1>2 DEF FromTheory
  <2>11. ~IsFalse(trail', c.w[1])
    BY <1>5, <2>2, <2>5
  <2>12. Complete(pc, at, trail, qhead, clauses, ok, trailOk, spent, assertionLevel)'
    BY <1>1, <1>10, <1>12, <2>5, <2>6, <2>11
  <2> QED BY <2>8, <2>9, <2>10, <2>12 DEF CInv
<1> QED BY <1>1, <1>3, <1>9, <1>11, <1>12

(* The user asserts a clause.                                                *)
LEMMA AddInputAnswers ==
  ASSUME IInv, IInv', CInv, ~spent, NEW S \in left.user[assertionLevel], AddInput(S)
  PROVE CInv'
<1>1. pc = "idle" /\ AddClause(S, FALSE)
  BY DEF AddInput
<1>2. S \subseteq AtomLits
  <2>1. left \in Setting /\ assertionLevel \in 0 .. MaxLevel
    BY DEF IInv, Base, Stack
  <2>2. left.user \in [0 .. MaxLevel -> SUBSET SUBSET AtomLits]
    BY <2>1 DEF Setting
  <2>3. left.user[assertionLevel] \subseteq SUBSET AtomLits
    BY <2>1, <2>2
  <2> QED BY <2>3
<1>3. PICK b \in BOOLEAN : b = FALSE
  OBVIOUS
<1>4. AddClause(S, b)
  BY <1>1, <1>3
<1> QED BY <1>1, <1>2, <1>4, AddClauseAnswers

(* The theory adds a clause between two calls.                               *)
LEMMA AddTheoryClauseAnswers ==
  ASSUME IInv, IInv', CInv, ~spent, NEW S \in Theory, AddTheoryClause(S)
  PROVE CInv'
<1>1. pc = "idle"
  BY DEF AddTheoryClause
<1>2. PICK removable \in BOOLEAN : AddClause(S, removable)
  BY DEF AddTheoryClause
<1>3. S \subseteq AtomLits
  BY Constants
<1> QED BY <1>1, <1>2, <1>3, AddClauseAnswers

(* A user level is opened: all that was propagated stays below it.           *)
LEMMA PushAnswers ==
  ASSUME IInv, IInv', CInv, ~spent, Push
  PROVE CInv'
<1> DEFINE al == assertionLevel
<1>1. /\ pc = "idle" /\ assertionLevel' = al + 1 /\ trailOk' = Append(trailOk, ok)
      /\ UNCHANGED <<clauses, trail, qhead, ok, lemmas, pc, at, spent>>
  BY DEF Push
<1>2. /\ al \in Nat /\ Len(trail) \in Nat /\ at.todo = {}
      /\ at.conflict = Undef /\ qhead \in 0 .. Len(trail)
  BY <1>1, Facts
<1>3. /\ trailOk \in Seq(BOOLEAN) /\ Len(trailOk) = al /\ ok \in BOOLEAN
  BY DEF IInv, Verdicts
<1>4. Cycle(pc, at, trail, qhead, lemmas, ok, spent)'
  BY <1>1 DEF CInv
<1>5. Pointer(pc, at, trail, qhead, assertionLevel, ok, spent)'
  <2>1. ok /\ ~spent => qhead = Len(trail) \/ Len(trail) = 1
    BY <1>1 DEF CInv, Cycle
  <2>2. ASSUME ok, ~spent, NEW i \in 2 .. Len(trail)
        PROVE ~(i > qhead)
    <3>1. CASE qhead = Len(trail)
      BY <1>2, <3>1
    <3>2. CASE Len(trail) = 1
      BY <3>2
    <3> QED BY <2>1, <2>2, <3>1, <3>2
  <2> QED BY <2>2, <1>1, <1>2 DEF Pointer
<1>6. FromTheory(lemmas, trail)'
  BY <1>1 DEF CInv
<1>7. Complete(pc, at, trail, qhead, clauses, ok, trailOk, spent, assertionLevel)'
  <2>1. CASE ok /\ ~spent
    <3>1. \A r : Visited(pc, at, trail, qhead, al + 1, r) = Visited(pc, at, trail, qhead, al, r)
      BY <1>1, <1>2 DEF Visited, Dirty
    <3>2. Propagated(pc, at, trail, qhead, clauses, al + 1)
      BY <2>1, <3>1 DEF CInv, Complete, Propagated
    <3> QED BY <2>1, <3>2, <1>1 DEF Complete
  <2>2. CASE ~ok /\ ~spent
    <3>1. Restorable(trailOk, trail, clauses, al)
      BY <2>2 DEF CInv, Complete
    <3>2. /\ trailOk'[al + 1] = FALSE
          /\ \A k \in 1 .. al : trailOk'[k] = trailOk[k]
      BY <2>2, <1>1, <1>2, <1>3
    <3>3. ASSUME NEW k \in 0 .. (al + 1) - 1, trailOk'[k + 1]
          PROVE k \in 0 .. al - 1 /\ trailOk[k + 1]
      <4>1. k # al
        BY <3>2, <3>3
      <4>2. k \in 0 .. al - 1 /\ k + 1 \in 1 .. al
        BY <4>1, <3>3, <1>2
      <4> QED BY <4>2, <3>2, <3>3
    <3>4. Restorable(trailOk', trail, clauses, al + 1)
      BY <3>1, <3>3 DEF Restorable
    <3> QED BY <2>2, <3>4, <1>1 DEF Complete
  <2> QED BY <2>1, <2>2, <1>1 DEF Complete
<1> QED BY <1>4, <1>5, <1>6, <1>7 DEF CInv

(* A pop cuts the trail to what is of the level it returns to.               *)
LEMMA PopKeeps ==
  ASSUME NEW t, NEW al, Shape(t, al), NEW n \in Nat, NEW R
  PROVE LET u == Unlock(PopTrail(t, n), R)
        IN  /\ Keeps(t, u) /\ Len(u) = Len(PopTrail(t, n))
            /\ 1 .. Len(u) \subseteq OfLevel(t, n)
<1> DEFINE p == PopTrail(t, n)
           u == Unlock(p, R)
           S == {i \in DOMAIN t : t[i].ulevel <= n}
<1>1. Shape(p, al) /\ Begins(p, t) /\ Len(p) \in 1 .. Len(t)
      /\ \A i \in 1 .. Len(p) : p[i] = t[i] /\ p[i].ulevel <= n
  BY PopTrailFacts
<1>2. DOMAIN t = 1 .. Len(t) /\ Len(t) \in Nat
  BY DEF Shape
<1>3. \A m \in 1 .. Len(t) : t[m].ulevel <= n => m <= Len(p)
  <2>1. 1 \in S
    BY <1>2, EntryFacts DEF Shape
  <2>2. S \subseteq 0 .. Len(t)
    BY <1>2
  <2>3. MaxOf(S) \in S /\ \A m \in S : m <= MaxOf(S)
    BY <1>2, <2>1, <2>2, MaxIs
  <2>4. MaxOf(S) \in 1 .. Len(t)
    BY <1>2, <2>3
  <2>5. p = SubSeq(t, 1, MaxOf(S))
    BY DEF PopTrail
  <2>6. PICK z : z = MaxOf(S)
    OBVIOUS
  <2>7. z \in 1 .. Len(t) /\ p = SubSeq(t, 1, z)
    BY <2>4, <2>5, <2>6
  <2>8. Len(SubSeq(t, 1, z)) = z
    BY <2>7, CutTrail
  <2>9. Len(p) = z
    BY <2>7, <2>8
  <2> HIDE DEF p
  <2> QED BY <1>2, <2>3, <2>6, <2>9
<1> HIDE DEF p
<1>4. /\ Begins(p, u) /\ Begins(u, p) /\ Len(u) = Len(p)
      /\ \A i \in 1 .. Len(p) : /\ u[i].lit = p[i].lit /\ u[i].level = p[i].level
                                /\ u[i].ulevel = p[i].ulevel
  BY <1>1, UnlockFacts
<1> HIDE DEF u
<1>5. \A i \in 1 .. Len(u) : /\ i \in 1 .. Len(t) /\ u[i].lit = t[i].lit
                             /\ u[i].level = t[i].level
                             /\ u[i].ulevel = t[i].ulevel /\ t[i].ulevel <= n
  BY <1>1, <1>2, <1>4
<1>6. Begins(u, t)
  BY <1>1, <1>2, <1>4, <1>5 DEF Begins
<1>7. ASSUME NEW i \in 1 .. Len(u), NEW m \in 1 .. Len(t), t[m].ulevel <= t[i].ulevel
      PROVE m <= Len(u)
  <2>1. t[i].ulevel \in Nat /\ t[m].ulevel \in Nat /\ t[i].ulevel <= n
    BY <1>5, EntryFacts
  <2>2. t[m].ulevel <= n
    BY <1>7, <2>1
  <2> QED BY <2>2, <1>3, <1>4
<1>8. Keeps(t, u)
  BY <1>1, <1>4, <1>6, <1>7 DEF Keeps
<1>9. 1 .. Len(u) \subseteq OfLevel(t, n)
  BY <1>5 DEF OfLevel
<1> QED BY <1>4, <1>8, <1>9 DEF u, p

(* A pop leaves an empty queue empty.                                        *)
LEMMA PoppedEmpty ==
  ASSUME Pop, lemmas = <<>>
  PROVE lemmas' = <<>>
BY DEF Pop

(* A user level is closed. If the lower level was consistent, its clauses    *)
(* have been seen on all that is left of the trail, and qhead goes back no   *)
(* further than that.                                                        *)
LEMMA PopAnswers ==
  ASSUME IInv, IInv', CInv, ~spent, Pop
  PROVE CInv'
<1> DEFINE al == assertionLevel
           bl == assertionLevel - 1
           gone == Above(clauses, bl)
<1>1. /\ pc = "idle" /\ al > 0 /\ assertionLevel' = bl
      /\ trail' = Unlock(PopTrail(trail, bl), gone) /\ qhead' = Len(PopTrail(trail, bl))
      /\ clauses' = Detach(clauses, gone)
      /\ ok' = trailOk[bl + 1] /\ trailOk' = SubSeq(trailOk, 1, bl)
      /\ UNCHANGED <<pc, at, spent>>
  BY DEF Pop
<1>0. lemmas = <<>> /\ lemmas' = <<>>
  <2>1. lemmas = <<>>
    BY <1>1 DEF CInv, Cycle
  <2> QED BY <2>1, PoppedEmpty
<1>2. /\ al \in Nat /\ Len(trail) \in Nat /\ at.todo = {}
      /\ at.conflict = Undef /\ Shape(trail, al) /\ qhead \in 0 .. Len(trail)
      /\ \A r \in DOMAIN clauses : Watching(clauses[r])
  BY <1>1, Facts, Shapes
<1>3. bl \in Nat /\ bl < al /\ al = bl + 1 /\ bl \in 0 .. al - 1
  BY <1>1, <1>2
<1>4. /\ trailOk \in Seq(BOOLEAN) /\ Len(trailOk) = al /\ ok \in BOOLEAN
  BY DEF IInv, Verdicts
<1>5. /\ Keeps(trail, trail') /\ Len(trail') = qhead' /\ 1 .. Len(trail') \subseteq OfLevel(trail, bl)
      /\ Len(trail') \in Nat
  BY <1>1, <1>2, <1>3, PopKeeps, ShapesNext
<1>6. \A r \in DOMAIN clauses' : /\ r \in DOMAIN clauses /\ clauses'[r] = clauses[r]
                                 /\ clauses[r].level <= bl
  <2>1. \A r \in DOMAIN clauses : clauses[r].level \in Nat
    BY <1>2, Facts, SoundFacts
  <2> QED BY <1>1, <1>3, <2>1 DEF Detach, Above
<1> HIDE DEF gone
<1>7. Cycle(pc, at, trail, qhead, lemmas, ok, spent)'
  BY <1>0, <1>1, <1>2, <1>5 DEF CInv, Cycle
<1>8. Pointer(pc, at, trail, qhead, assertionLevel, ok, spent)'
  <2>1. \A i \in 2 .. Len(trail') : ~(i > qhead')
    BY <1>5
  <2> QED BY <2>1, <1>1, <1>2 DEF Pointer
<1>9. FromTheory(lemmas, trail)'
  BY <1>0 DEF FromTheory
<1>10. ASSUME NEW r \in DOMAIN clauses', NEW M, Seen(trail, clauses[r], M),
              NEW N, N \subseteq M, N \subseteq 1 .. Len(trail')
       PROVE Seen(trail', clauses'[r], N)
  <2>1. Seen(trail, clauses[r], N) /\ Watching(clauses[r])
    BY <1>2, <1>6, <1>10, SeenFewer
  <2>2. Seen(trail', clauses[r], N)
    BY <1>2, <1>5, <1>10, <2>1, SeenCut
  <2> QED BY <2>2, <1>6
\* What is left has been propagated: all of it, or what the restored verdict needs.
<1>11. CASE ok /\ ~spent
  <2>1. \A r \in DOMAIN clauses : Seen(trail, clauses[r], 1 .. Len(trail))
    <3>1. qhead = Len(trail) \/ Len(trail) = 1
      BY <1>1, <1>11 DEF CInv, Cycle
    <3>2. ASSUME NEW r \in DOMAIN clauses PROVE Seen(trail, clauses[r], 1 .. Len(trail))
      <4>1. Seen(trail, clauses[r], Visited(pc, at, trail, qhead, al, r))
        BY <1>11 DEF CInv, Complete, Propagated
      <4>2. ASSUME NEW i \in 1 .. Len(trail)
            PROVE i \in Visited(pc, at, trail, qhead, al, r)
        <5>1. i = 1 \/ i <= qhead
          <6>1. CASE qhead = Len(trail)
            BY <1>2, <6>1
          <6>2. CASE Len(trail) = 1
            BY <6>2
          <6> QED BY <3>1, <6>1, <6>2
        <5>2. r \notin at.todo /\ ~Dirty(pc, at)
          BY <1>1, <1>2 DEF Dirty
        <5> QED BY <5>1, <5>2 DEF Visited
      <4> QED BY <4>1, <4>2, SeenFewer
    <3> QED BY <3>2
  <2>2. ASSUME NEW r \in DOMAIN clauses', NEW N, N \subseteq 1 .. Len(trail')
        PROVE Seen(trail', clauses'[r], N)
    <3>1. N \subseteq 1 .. Len(trail)
      BY <1>2, <1>5, <2>2 DEF Keeps
    <3> QED BY <1>6, <1>10, <2>1, <2>2, <3>1
  <2>3. Propagated(pc', at', trail', qhead', clauses', assertionLevel')
    BY <2>2 DEF Propagated, Visited
  <2>4. Restorable(trailOk', trail', clauses', assertionLevel')
    BY <2>2 DEF Restorable, OfLevel
  <2>5. Complete(pc, at, trail, qhead, clauses, ok, trailOk, spent, assertionLevel)'
    BY <2>3, <2>4 DEF Complete
  <2> QED BY <2>5, <1>7, <1>8, <1>9 DEF CInv
<1>12. CASE ~ok /\ ~spent
  <2>1. Restorable(trailOk, trail, clauses, al)
    BY <1>12 DEF CInv, Complete
  <2>2. CASE ok'
    <3>1. trailOk[bl + 1]
      BY <1>1, <2>2
    <3>2. ASSUME NEW r \in DOMAIN clauses', NEW N, N \subseteq 1 .. Len(trail')
          PROVE Seen(trail', clauses'[r], N)
      <4>1. Seen(trail, clauses[r], OfLevel(trail, bl))
        BY <1>3, <1>6, <2>1, <3>1 DEF Restorable
      <4>2. N \subseteq OfLevel(trail, bl)
        BY <1>5, <3>2
      <4> QED BY <1>10, <3>2, <4>1, <4>2
    <3>3. Propagated(pc', at', trail', qhead', clauses', assertionLevel')
      BY <3>2 DEF Propagated, Visited
    <3>4. Complete(pc, at, trail, qhead, clauses, ok, trailOk, spent, assertionLevel)'
      BY <2>2, <3>3 DEF Complete
    <3> QED BY <3>4, <1>7, <1>8, <1>9 DEF CInv
  <2>3. CASE ~ok'
    <3>1. ASSUME NEW k \in 0 .. bl - 1, trailOk'[k + 1],
                 NEW r \in DOMAIN clauses', clauses'[r].level <= k
          PROVE Seen(trail', clauses'[r], OfLevel(trail', k))
      <4>1. k \in 0 .. al - 1 /\ k + 1 \in 1 .. bl
        BY <1>3, <3>1
      <4>2. trailOk[k + 1]
        BY <1>1, <1>3, <1>4, <3>1, <4>1
      <4>3. Seen(trail, clauses[r], OfLevel(trail, k))
        BY <1>6, <2>1, <3>1, <4>1, <4>2 DEF Restorable
      <4>4. OfLevel(trail', k) \subseteq OfLevel(trail, k) /\ OfLevel(trail', k) \subseteq 1 .. Len(trail')
        BY <1>2, <1>5 DEF OfLevel, Keeps, Begins
      <4> QED BY <1>10, <4>3, <4>4
    <3>2. Restorable(trailOk', trail', clauses', assertionLevel')
      BY <1>1, <3>1 DEF Restorable
    <3>3. Complete(pc, at, trail, qhead, clauses, ok, trailOk, spent, assertionLevel)'
      BY <2>3, <3>2 DEF Complete
    <3> QED BY <3>3, <1>7, <1>8, <1>9 DEF CInv
  <2> QED BY <2>2, <2>3
<1>13. CASE spent
  BY <1>1, <1>7, <1>8, <1>9, <1>13 DEF CInv, Complete
<1> QED BY <1>4, <1>11, <1>12, <1>13

(* A call of solve.                                                          *)
LEMMA SolveAnswers ==
  ASSUME IInv, IInv', CInv, ~spent, Solve
  PROVE CInv'
<1>1. /\ pc = "idle"
      /\ UNCHANGED <<clauses, trail, qhead, assertionLevel, ok, trailOk, lemmas, spent>>
      /\ \/ ok /\ pc' = "propagate" /\ at' = Start("search")
         \/ ~ok /\ UNCHANGED <<pc, at>>
  BY DEF Solve
<1>2. CASE ~ok /\ UNCHANGED <<pc, at>>
  BY <1>1, <1>2 DEF CInv
<1>3. CASE ok /\ pc' = "propagate" /\ at' = Start("search")
  <2>1. /\ Shape(trail, assertionLevel) /\ Len(trail) \in Nat /\ at.todo = {}
        /\ at.conflict = Undef
    BY <1>1, Facts
  <2>2. /\ at'.caller = "search" /\ at'.check = "theory" /\ at'.todo = {}
        /\ at'.conflict = Undef
    BY <1>3, StartFacts
  <2>3. Cycle(pc, at, trail, qhead, lemmas, ok, spent)'
    BY <1>1, <1>3, <2>2 DEF Cycle
  <2>4. Pointer(pc, at, trail, qhead, assertionLevel, ok, spent)'
    BY <1>1, <1>3, <2>1, <2>2 DEF CInv, Pointer
  <2>5. FromTheory(lemmas, trail)'
    BY <1>1 DEF CInv
  <2>6. Begins(trail, trail') /\ Keeps(trail, trail)
    BY <1>1, <2>1, BeginsItself
  <2>7. Fewer(trail)
    BY <1>1, <2>1, <2>2, <2>6, Unmoved DEF Dirty
  <2>8. \A r \in DOMAIN clauses' : Old(trail, r)
    BY <1>1, <2>7 DEF Fewer, Old
  <2>9. Propagated(pc, at, trail, qhead, clauses, assertionLevel)
    BY <1>1, <1>3 DEF CInv, Complete
  <2>10. Complete(pc, at, trail, qhead, clauses, ok, trailOk, spent, assertionLevel)'
    BY <1>1, <1>3, <2>1, <2>6, <2>8, <2>9, Carried DEF Complete
  <2> QED BY <2>3, <2>4, <2>5, <2>10 DEF CInv
<1> QED BY <1>1, <1>2, <1>3

(* The solver starts with the constant on the trail and no clause.           *)
LEMMA InitAnswers ==
  ASSUME Init
  PROVE CInv
<1>1. /\ DOMAIN clauses = {} /\ pc = "idle" /\ at = Start("search") /\ ok = TRUE
      /\ lemmas = <<>>
  BY DEF Init
<1>2. Len(trail) = 1
  <2>1. PICK e : e = [lit |-> VarTrue, reason |-> Undef, level |-> 0, ulevel |-> 0]
    OBVIOUS
  <2>2. trail = <<e>>
    BY <2>1 DEF Init
  <2> QED BY <2>2
<1>3. at.caller = "search" /\ at.todo = {}
  BY <1>1, StartFacts
<1>4. Cycle(pc, at, trail, qhead, lemmas, ok, spent)
  BY <1>1, <1>2, <1>3 DEF Cycle
<1>5. Pointer(pc, at, trail, qhead, assertionLevel, ok, spent)
  BY <1>1, <1>2 DEF Pointer
<1>6. FromTheory(lemmas, trail)
  BY <1>1 DEF FromTheory
<1>7. Complete(pc, at, trail, qhead, clauses, ok, trailOk, spent, assertionLevel)
  BY <1>1 DEF Complete, Propagated
<1> QED BY <1>4, <1>5, <1>6, <1>7 DEF CInv

(* Each call of the engine keeps CInv.                                       *)
LEMMA CallAnswers ==
  ASSUME IInv, IInv', CInv, ~spent, Call
  PROVE CInv'
<1>1. CASE \E S \in left.user[assertionLevel] : AddInput(S)
  BY <1>1, AddInputAnswers
<1>2. CASE \E S \in Theory : AddTheoryClause(S)
  BY <1>2, AddTheoryClauseAnswers
<1>3. CASE Push
  BY <1>3, PushAnswers
<1>4. CASE Pop
  BY <1>4, PopAnswers
<1>5. CASE Solve
  BY <1>5, SolveAnswers
<1> QED BY <1>1, <1>2, <1>3, <1>4, <1>5 DEF Call

(* Once the budget is spent only addClause still propagates, without theory, *)
(* over what it finds in the queue.                                          *)
LEMMA SpentAnswers ==
  ASSUME ~Resumable, IInv, CInv, spent, Next
  PROVE CInv'
<1> DEFINE Adding == {"propagate", "undefined", "lemmas", "attach", "bool", "return"}
<1>1. /\ at \in Locals /\ ok \in BOOLEAN
      /\ pc \notin {"idle", "solved"} => ok /\ at.caller = "addClause"
      /\ at.caller = "addClause" => pc \in Adding /\ at.check = "theory"
  BY Facts DEF CInv, Cycle, IInv, Verdicts
<1>2. Start("search").caller = "search"
  BY StartFacts
<1>3. Start("addClause").caller = "addClause" /\ Start("addClause").check = "theory"
  BY StartFacts
<1>4. ASSUME spent', pc' \notin {"idle", "solved"} => ok' /\ at'.caller = "addClause",
             at'.caller = "addClause" => pc' \in Adding /\ at'.check = "theory"
      PROVE CInv'
  BY <1>4 DEF CInv, Cycle, Pointer, Complete
\* A call of addClause_ begins; the other calls leave pc and at alone.
<1>5. ASSUME NEW S, NEW removable, pc = "idle", AddClause(S, removable) PROVE CInv'
  <2>1. /\ UNCHANGED spent
        /\ \/ UNCHANGED <<pc, at>>
           \/ ok /\ ok' = ok /\ pc' = "propagate" /\ at' = Start("addClause")
    BY <1>5 DEF AddClause
  <2>2. CASE UNCHANGED <<pc, at>>
    BY <1>1, <1>4, <1>5, <2>1, <2>2
  <2>3. CASE ok /\ ok' = ok /\ pc' = "propagate" /\ at' = Start("addClause")
    BY <1>1, <1>3, <1>4, <2>1, <2>3
  <2> QED BY <2>1, <2>2, <2>3
<1>6. CASE Call
  <2>1. CASE Push \/ Pop
    <3>1. pc = "idle" /\ UNCHANGED <<pc, at, spent>>
      BY <2>1 DEF Push, Pop
    <3> QED BY <3>1, <1>1, <1>4
  <2> QED BY <2>1, <1>5, <1>6 DEF Call, AddInput, AddTheoryClause, Solve
\* A step of addClause_.
<1>7. CASE Step /\ pc \in {"idle", "solved"}
  <2>1. ResetTrail
    BY <1>7 DEF Step, BeginPropagate, ReadRemovedVariable, TakeLiteral, VisitWatcher, EndOfQueue,
                TheoryCheck, SortLemmas, AttachLemma, LemmasUpdated, EndAddClause, Searching,
                ConflictAtTopLevel, BeginAnalyze, Explain, Resolve, Learn, AfterFinalCheck,
                WithinBudget, Restart, Simplify, ReduceDB, Decide
  <2>2. pc' = "idle" /\ at' = Start("search") /\ spent' = spent
    BY <2>1 DEF ResetTrail
  <2> QED BY <2>2, <1>2, <1>4
<1>8. CASE Step /\ pc \notin {"idle", "solved"}
  <2>1. /\ ok /\ at.caller = "addClause" /\ at.check = "theory" /\ pc \in Adding
        /\ FinalCheck(at) = FALSE
    BY <1>1, <1>8 DEF FinalCheck
  <2>2. ASSUME UNCHANGED <<ok, spent>>, pc' \in Adding, at'.caller = at.caller, at'.check = at.check
        PROVE CInv'
    BY <2>1, <2>2, <1>4
  <2>3. CASE BeginPropagate
    <3>1. pc' \in {"lemmas", "bool"} /\ UNCHANGED <<ok, spent>>
          /\ at' = [at EXCEPT !.recheck = FALSE, !.from = "entry", !.conflict = Undef]
      BY <2>1, <2>3 DEF BeginPropagate, Inside
    <3> QED BY <3>1, <2>2, <1>1, Begun
  <2>4. CASE ReadRemovedVariable
    BY <2>2, <2>4 DEF ReadRemovedVariable, Inside
  <2>5. CASE TakeLiteral
    BY <2>1, <2>2, <2>5, <1>1 DEF TakeLiteral, Inside, Locals
  <2>6. CASE \E r \in DOMAIN clauses : VisitWatcher(r)
    <3>1. UNCHANGED <<ok, spent>> /\ (pc' = pc \/ pc' = "return")
      BY <2>6 DEF VisitWatcher, Inside
    <3>2. at'.caller = at.caller /\ at'.check = at.check
      BY <2>6, <1>1 DEF VisitWatcher, Locals
    <3> QED BY <3>1, <3>2, <2>1, <2>2
  <2>7. CASE EndOfQueue
    BY <2>1, <2>2, <2>7 DEF EndOfQueue, Inside
  <2>8. CASE SortLemmas
    <3>1. UNCHANGED <<ok, spent>> /\ (pc' = pc \/ pc' = "attach")
      BY <2>8 DEF SortLemmas
    <3>2. at'.caller = at.caller /\ at'.check = at.check
      BY <2>8, <1>1 DEF SortLemmas, Locals
    <3> QED BY <3>1, <3>2, <2>1, <2>2
  <2>9. CASE AttachLemma
    <3>1. UNCHANGED <<ok, spent, pc>>
      BY <2>9 DEF AttachLemma, Inside
    <3>2. at'.caller = at.caller /\ at'.check = at.check
      BY <2>9, <1>1 DEF AttachLemma, Locals
    <3> QED BY <3>1, <3>2, <2>1, <2>2
  <2>10. CASE LemmasUpdated
    <3>1. pc' \in {"return", "bool"} /\ UNCHANGED <<ok, spent>>
      BY <2>1, <2>10 DEF LemmasUpdated, Round, Inside
    <3>2. at'.caller = at.caller /\ at'.check = at.check
      BY <2>10, <1>1 DEF LemmasUpdated, Locals
    <3> QED BY <3>1, <3>2, <2>2
  <2>11. CASE EndAddClause
    <3>1. pc' = "idle" /\ at' = Start("search") /\ spent' = spent
      BY <2>11 DEF EndAddClause
    <3> QED BY <3>1, <1>2, <1>4
  <2> QED BY <1>8, <2>1, <2>3, <2>4, <2>5, <2>6, <2>7, <2>8, <2>9, <2>10, <2>11
          DEF Step, ResetTrail, TheoryCheck, Searching, ConflictAtTopLevel, BeginAnalyze, Explain,
              Resolve, Learn, AfterFinalCheck, WithinBudget, Restart, Simplify, ReduceDB, Decide
<1> QED BY <1>6, <1>7, <1>8 DEF Next

(* Each step keeps CInv.                                                     *)
LEMMA StepAnswers ==
  ASSUME IInv, IInv', CInv, ~spent, Step
  PROVE CInv'
<1>1. CASE ResetTrail BY <1>1, ResetTrailAnswers
<1>2. CASE BeginPropagate BY <1>2, BeginPropagateAnswers
<1>3. CASE TakeLiteral BY <1>3, TakeLiteralAnswers
<1>4. CASE \E r \in DOMAIN clauses : VisitWatcher(r) BY <1>4, VisitWatcherAnswers
<1>5. CASE EndOfQueue BY <1>5, EndOfQueueAnswers
<1>6. CASE TheoryCheck BY <1>6, TheoryCheckAnswers
<1>7. CASE SortLemmas BY <1>7, SortLemmasAnswers
<1>8. CASE AttachLemma BY <1>8, AttachLemmaAnswers
<1>9. CASE LemmasUpdated BY <1>9, LemmasUpdatedAnswers
<1>10. CASE EndAddClause BY <1>10, EndAddClauseAnswers
<1>11. CASE ConflictAtTopLevel BY <1>11, ConflictAtTopLevelAnswers
<1>12. CASE BeginAnalyze BY <1>12, BeginAnalyzeAnswers
<1>13. CASE Explain BY <1>13, ExplainAnswers
<1>14. CASE Resolve BY <1>14, ResolveAnswers
<1>15. CASE Learn BY <1>15, LearnAnswers
<1>16. CASE AfterFinalCheck BY <1>16, AfterFinalCheckAnswers
<1>17. CASE WithinBudget BY <1>17, WithinBudgetAnswers
<1>18. CASE Restart BY <1>18, RestartAnswers
<1>19. CASE Simplify BY <1>19, SimplifyAnswers
<1>20. CASE ReduceDB BY <1>20, ReduceDBAnswers
<1>21. CASE Decide BY <1>21, DecideAnswers
<1>22. CASE ReadRemovedVariable BY <1>22, ReadRemovedVariableAnswers
<1> QED BY <1>1, <1>2, <1>3, <1>4, <1>5, <1>6, <1>7, <1>8, <1>9, <1>10, <1>11, <1>12,
           <1>13, <1>14, <1>15, <1>16, <1>17, <1>18, <1>19, <1>20, <1>21, <1>22 DEF Step

(* The two watched literals do their work: whatever the order of decisions,  *)
(* propagations, lemmas, backjumps, restarts, pushes and pops, every clause  *)
(* of the arena has been propagated as far as qhead says (Solver.cc,         *)
(* propagateBool, updateLemmas, cancelUntil, pop).                           *)
THEOREM PropagationIsComplete ==
  ASSUME ~Resumable
  PROVE Spec => []CInv
<1>1. Init => CInv
  BY InitAnswers
<1>2. IInv /\ IInv' /\ CInv /\ [Next]_vars => CInv'
  <2>1. ASSUME IInv, IInv', CInv, Next PROVE CInv'
    BY <2>1, SpentAnswers, CallAnswers, StepAnswers DEF Next
  <2>2. ASSUME CInv, UNCHANGED vars PROVE CInv'
    BY <2>2 DEF vars, CInv
  <2> QED BY <2>1, <2>2
<1> QED BY <1>1, <1>2, InvariantHolds, PTL DEF Spec

(* A clause that propagation has seen on the whole trail is false only with  *)
(* a clause of the theory that is false at decision level zero.              *)
LEMMA FalseByTheory ==
  ASSUME IInv, NEW r \in DOMAIN clauses, Falsified(trail, Lits(clauses[r])),
         at.todo = {}, ~Dirty(pc, at), qhead = Len(trail) \/ Len(trail) = 1,
         Propagated(pc, at, trail, qhead, clauses, assertionLevel)
  PROVE \E L \in Theory : \A l \in L : IsFalse(trail, l) /\ LevelOf(trail, l) = 0
<1> DEFINE al == assertionLevel
<1>1. /\ Shape(trail, al) /\ Len(trail) \in Nat
      /\ Watching(clauses[r]) /\ qhead \in 0 .. Len(trail) /\ al \in Nat
  BY Facts, Shapes
<1>2. Seen(trail, clauses[r], 1 .. Len(trail))
  <2>1. Seen(trail, clauses[r], Visited(pc, at, trail, qhead, al, r))
    BY DEF Propagated
  <2>2. ASSUME NEW i \in 1 .. Len(trail)
        PROVE i \in Visited(pc, at, trail, qhead, al, r)
    <3>1. i = 1 \/ i <= qhead
      <4>1. CASE qhead = Len(trail)
        BY <1>1, <4>1
      <4>2. CASE Len(trail) = 1
        BY <4>2
      <4> QED BY <4>1, <4>2
    <3>2. r \notin at.todo /\ ~Dirty(pc, at)
      OBVIOUS
    <3> QED BY <3>1, <3>2 DEF Visited
  <2> QED BY <2>1, <2>2, SeenFewer
<1>3. PICK c : c = clauses[r]
  OBVIOUS
<1>4. /\ c.w[1] \in Literals /\ c.w[2] \in Literals /\ c.w[1] \in Lits(c) /\ c.w[2] \in Lits(c)
      /\ \A l \in Lits(c) : IsFalse(trail, l) /\ l \in Literals
  <2>1. Lits(clauses[r]) \subseteq Literals
    BY <1>1, Facts, SoundFacts
  <2> QED BY <1>1, <1>3, <2>1 DEF Falsified, Watching, Lits
<1>5. CASE Watched(trail, c, 1 .. Len(trail))
  <2>1. PICK i \in 1 .. Len(trail), j \in 1 .. Len(trail) :
          trail[i].lit = -c.w[1] /\ trail[j].lit = -c.w[2]
    BY <1>1, <1>4, Falses
  <2>2. PICK m \in 1 .. Len(trail) : trail[m].lit \in Lits(c)
    BY <1>5, <2>1 DEF Watched, Saved
  <2>3. IsTrue(trail, trail[m].lit)
    BY <1>1, Trues
  <2> QED BY <1>1, <1>4, <2>2, <2>3, Undefined
<1>6. CASE Rooted(trail, Lits(c)) /\ Down(trail, c)
  <2>1. PICK L \in Theory : \A l \in L \ Lits(c) : FalseAtRoot(trail, l)
    BY <1>6 DEF Rooted
  <2>2. L \subseteq AtomLits
    BY Constants
  <2>3. ASSUME NEW l \in Literals, NEW i \in 1 .. Len(trail), trail[i].lit = -l,
               trail[i].level = 0
        PROVE IsFalse(trail, l) /\ LevelOf(trail, l) = 0
    <3>1. IsFalse(trail, l)
      BY <1>1, <2>3, Falses
    <3>2. At(trail, l) \in 1 .. Len(trail) /\ trail[At(trail, l)].lit = -l
      BY <1>1, <3>1, AtFalse
    <3>3. At(trail, l) = i
      BY <1>1, <2>3, <3>2 DEF Shape
    <3> QED BY <2>3, <3>1, <3>3 DEF LevelOf
  <2>4. PICK i \in 1 .. Len(trail), j \in 1 .. Len(trail) :
          /\ trail[i].lit = -c.w[1] /\ trail[j].lit = -c.w[2]
          /\ trail[i].level = 0 /\ trail[j].level = 0
          /\ \A l \in c.rest : Before(trail, l, i) \/ Before(trail, l, j)
    BY <1>6 DEF Down
  <2>5. ASSUME NEW l, NEW n \in {i, j}, Before(trail, l, n)
        PROVE \E m \in 1 .. Len(trail) : trail[m].lit = -l /\ trail[m].level = 0
    <3>1. PICK m \in 1 .. Len(trail) : m < n /\ trail[m].lit = -l
      BY <2>5 DEF Before
    <3>2. trail[m].level <= trail[n].level /\ trail[m].level \in Nat
      BY <1>1, <3>1, EntryFacts DEF Shape
    <3>3. trail[m].level = 0
      BY <2>4, <3>2
    <3> QED BY <3>1, <3>3
  <2>6. ASSUME NEW l \in L
        PROVE IsFalse(trail, l) /\ LevelOf(trail, l) = 0
    <3>1. l \in Literals
      BY <2>2, AtomLitFacts
    <3>2. \E m \in 1 .. Len(trail) : trail[m].lit = -l /\ trail[m].level = 0
      <4>1. CASE l \notin Lits(c)
        BY <2>1, <4>1 DEF FalseAtRoot
      <4>2. CASE l = c.w[1] \/ l = c.w[2]
        BY <2>4, <4>2
      <4>3. CASE l \in c.rest
        BY <2>4, <2>5, <4>3
      <4> QED BY <4>1, <4>2, <4>3 DEF Lits
    <3> QED BY <2>3, <3>1, <3>2
  <2> QED BY <2>6
<1> QED BY <1>2, <1>3, <1>5, <1>6 DEF Seen

(* When propagation is over, CInv says of a false clause that it is a clause *)
(* of the theory.                                                            *)
LEMMA NoneIsMissed ==
  ASSUME IInv, CInv
  PROVE NoConflictIsMissed
<1> DEFINE al == assertionLevel
<1>1. SUFFICES ASSUME pc = "decide" \/ (pc = "idle" /\ ok /\ ~spent),
                      NEW r \in DOMAIN clauses, Falsified(trail, Lits(clauses[r]))
               PROVE \E L \in Theory : \A l \in L : IsFalse(trail, l) /\ LevelOf(trail, l) = 0
  BY DEF NoConflictIsMissed
<1>2. /\ Shape(trail, al) /\ Len(trail) \in Nat /\ at.todo = {} /\ at.conflict = Undef
      /\ Watching(clauses[r]) /\ qhead \in 0 .. Len(trail) /\ al \in Nat
  BY <1>1, Facts, Shapes
<1>3. /\ qhead = Len(trail) \/ Len(trail) = 1
      /\ Propagated(pc, at, trail, qhead, clauses, al)
  <2>1. CASE pc = "decide"
    <3>1. qhead = Len(trail)
      BY <2>1 DEF IInv, Protocol
    <3>2. at.caller # "addClause"
      BY <2>1 DEF CInv, Cycle
    <3> QED BY <2>1, <3>1, <3>2, Running
  <2>2. CASE pc = "idle" /\ ok /\ ~spent
    BY <2>2 DEF CInv, Cycle, Complete
  <2> QED BY <1>1, <2>1, <2>2
<1> QED BY <1>1, <1>2, <1>3, FalseByTheory DEF Dirty

(* The property NoConflictIsMissed that the runs check: whenever propagation *)
(* returned without a conflict, no clause of the arena is false but for one  *)
(* of the theory's that is false at decision level zero, which the theory    *)
(* reports again.                                                            *)
THEOREM NoConflictIsMissedCorrect ==
  ASSUME ~Resumable
  PROVE Spec => []NoConflictIsMissed
<1>1. Spec => []CInv
  BY PropagationIsComplete
<1>2. IInv /\ CInv => NoConflictIsMissed
  BY NoneIsMissed
<1> QED BY <1>1, <1>2, InvariantHolds, PTL

-----------------------------------------------------------------------------
(* The other half: the clauses of the user are not lost, and so the answers  *)
(* are right.                                                                *)

(* The flag ok of the user level k: of the present one, or as it was saved.  *)
Verdict(okay, oks, al, k) == IF k = al THEN okay ELSE oks[k + 1]

(* A level that is consistent lies on consistent ones.                       *)
Downward(okay, oks, al) ==
  /\ okay => \A k \in 1 .. al : oks[k]
  /\ \A k, m \in 1 .. al : k <= m /\ oks[m] => oks[k]

(* Literal l is true without a decision, on a user level up to k.            *)
Unit(t, l, k) == \E i \in 1 .. Len(t) : t[i].lit = l /\ t[i].level = 0 /\ t[i].ulevel <= k

(* What has become of the user's clause S of level k: it is a tautology, it  *)
(* is true without a decision, or a clause that stays as long as the level   *)
(* does is contained in it.                                                  *)
Covered(S, k, db, t, int) ==
  \/ \E l \in S : -l \in S /\ int[Var(l)] \in 0 .. k
  \/ \E l \in S : Unit(t, l, k)
  \/ \E r \in DOMAIN db : ~db[r].removable /\ db[r].level = k /\ Lits(db[r]) \subseteq S

(* None of the user's clauses is lost, on the levels that are consistent.    *)
Cover(s, okay, oks, al, db, t, int) ==
  \A k \in 0 .. al : Verdict(okay, oks, al, k) =>
    \A S \in s[k + 1] : Covered(S, k, db, t, int)

(* A full check that ends with nothing to check again has shown the theory   *)
(* the trail as it is.                                                       *)
Checked(p, a, t) ==
  /\ p = "return" /\ FinalCheck(a) /\ a.conflict = Undef /\ ~a.recheck =>
       \A L \in Theory : ~Falsified(t, L)
  /\ p \in {"lemmas", "attach"} /\ a.from = "theory" /\ FinalCheck(a) => a.recheck

(* The invariant of the answers.                                             *)
AInv ==
  /\ Downward(ok, trailOk, assertionLevel)
  /\ Cover(inputs, ok, trailOk, assertionLevel, clauses, trail, intro)
  /\ Checked(pc, at, trail)

-----------------------------------------------------------------------------
(* This step keeps what is true without a decision.                          *)
UnitsStay == \A l, k : Unit(trail, l, k) => Unit(trail', l, k)
(* This step keeps the clauses of the user, though it may watch others of    *)
(* their literals.                                                           *)
ClausesStay ==
  \A r \in DOMAIN clauses : ~clauses[r].removable =>
    /\ r \in DOMAIN clauses' /\ ~clauses'[r].removable
    /\ clauses'[r].level = clauses[r].level /\ Lits(clauses'[r]) \subseteq Lits(clauses[r])

(* A clause of the user stays covered when units, clauses and variables stay. *)
LEMMA CoveredStays ==
  ASSUME NEW S, S \subseteq AtomLits, NEW k, Covered(S, k, clauses, trail, intro),
         k \in Nat, intro \in [Atoms -> Int],
         UnitsStay, ClausesStay, Grown(intro, intro')
  PROVE Covered(S, k, clauses', trail', intro')
<1>1. CASE \E l \in S : -l \in S /\ intro[Var(l)] \in 0 .. k
  <2>1. PICK l \in S : -l \in S /\ intro[Var(l)] \in 0 .. k
    BY <1>1
  <2>2. Var(l) \in Atoms
    BY AtomLitFacts
  <2>3. intro'[Var(l)] = intro[Var(l)]
    BY <2>1, <2>2 DEF Grown
  <2> QED BY <2>1, <2>3 DEF Covered
<1>2. CASE \E l \in S : Unit(trail, l, k)
  BY <1>2 DEF UnitsStay, Covered
<1>3. CASE \E r \in DOMAIN clauses : /\ ~clauses[r].removable /\ clauses[r].level = k
                                     /\ Lits(clauses[r]) \subseteq S
  <2>1. PICK r \in DOMAIN clauses : /\ ~clauses[r].removable /\ clauses[r].level = k
                                    /\ Lits(clauses[r]) \subseteq S
    BY <1>3
  <2>2. /\ r \in DOMAIN clauses' /\ ~clauses'[r].removable
        /\ clauses'[r].level = k /\ Lits(clauses'[r]) \subseteq S
    BY <2>1 DEF ClausesStay
  <2> QED BY <2>2 DEF Covered
<1> QED BY <1>1, <1>2, <1>3 DEF Covered

(* The clauses of a level are over the atoms.                                *)
LEMMA InputFacts ==
  ASSUME IInv
  PROVE /\ assertionLevel \in Nat /\ intro \in [Atoms -> Int]
        /\ Len(inputs) = assertionLevel + 1 /\ Len(trailOk) = assertionLevel
        /\ inputs \in Seq(SUBSET SUBSET AtomLits) /\ trailOk \in Seq(BOOLEAN) /\ ok \in BOOLEAN
        /\ \A k \in 0 .. assertionLevel : \A S \in inputs[k + 1] : S \subseteq AtomLits
<1>1. /\ Stack(inputs, assertionLevel) /\ Vars(intro, assertionLevel)
      /\ Verdicts(ok, trailOk, answer, inputs, assertionLevel)
  BY DEF IInv, Base
<1>2. assertionLevel \in Nat
  BY Facts
<1>3. inputs \in Seq(SUBSET SUBSET AtomLits) /\ Len(inputs) = assertionLevel + 1
  BY <1>1 DEF Stack
<1>4. ASSUME NEW k \in 0 .. assertionLevel
      PROVE inputs[k + 1] \subseteq SUBSET AtomLits
  <2>1. k + 1 \in 1 .. Len(inputs)
    BY <1>2, <1>3
  <2> QED BY <2>1, <1>3
<1>5. ASSUME NEW k \in 0 .. assertionLevel, NEW S \in inputs[k + 1]
      PROVE S \subseteq AtomLits
  BY <1>4
<1> QED BY <1>1, <1>2, <1>3, <1>5 DEF Vars, Verdicts

(* A step that keeps the levels, and ok or clears it, keeps the first two    *)
(* parts of the invariant if it keeps the units, the clauses and variables.  *)
LEMMA CoverStays ==
  ASSUME IInv, AInv, UNCHANGED <<assertionLevel, trailOk, inputs>>, ok' => ok,
         UnitsStay, ClausesStay, Grown(intro, intro')
  PROVE /\ Downward(ok, trailOk, assertionLevel)'
        /\ Cover(inputs, ok, trailOk, assertionLevel, clauses, trail, intro)'
<1>1. Downward(ok, trailOk, assertionLevel)'
  BY DEF AInv, Downward
<1>2. ASSUME NEW k \in 0 .. assertionLevel, Verdict(ok', trailOk, assertionLevel, k),
             NEW S \in inputs[k + 1]
      PROVE Covered(S, k, clauses', trail', intro')
  <2>1. Verdict(ok, trailOk, assertionLevel, k)
    BY <1>2 DEF Verdict
  <2>2. Covered(S, k, clauses, trail, intro)
    BY <1>2, <2>1 DEF AInv, Cover
  <2>3. S \subseteq AtomLits /\ k \in Nat /\ intro \in [Atoms -> Int]
    BY InputFacts
  <2> QED BY <2>2, <2>3, CoveredStays
<1> QED BY <1>1, <1>2 DEF Cover

(* Units stay when the trail grows.                                          *)
LEMMA UnitsBegin ==
  ASSUME IInv, Begins(trail, trail'), Len(trail') \in Nat
  PROVE UnitsStay
<1>1. Len(trail) \in Nat
  BY Facts
<1> QED BY <1>1 DEF UnitsStay, Unit, Begins

(* Units stay when the trail is cut back to a decision level and grows.      *)
LEMMA UnitsCut ==
  ASSUME IInv, NEW d \in Nat, Begins(CancelUntil(trail, d), trail'), Len(trail') \in Nat
  PROVE UnitsStay
<1>1. PICK t : t = CancelUntil(trail, d)
  OBVIOUS
<1>2. Len(trail) \in Nat /\ Shape(trail, assertionLevel)
  BY Facts
<1>3. /\ Begins(t, trail) /\ Len(t) \in 1 .. Len(trail)
      /\ \A i \in 1 .. Len(trail) : trail[i].level <= d <=> i <= Len(t)
  <2>1. LET u == CancelUntil(trail, d)
        IN  /\ Begins(u, trail) /\ Len(u) \in 1 .. Len(trail)
            /\ \A i \in 1 .. Len(trail) : trail[i].level <= d <=> i <= Len(u)
    BY <1>2, CancelFacts
  <2> QED BY <2>1, <1>1
<1>4. ASSUME NEW l, NEW k, Unit(trail, l, k)
      PROVE Unit(trail', l, k)
  <2>1. PICK i \in 1 .. Len(trail) :
          trail[i].lit = l /\ trail[i].level = 0 /\ trail[i].ulevel <= k
    BY <1>4 DEF Unit
  <2>2. i <= Len(t)
    BY <1>3, <2>1
  <2>3. i \in 1 .. Len(t) /\ Begins(t, trail')
    BY <1>1, <1>2, <1>3, <2>2
  <2>4. /\ i \in 1 .. Len(trail') /\ trail'[i].lit = trail[i].lit
        /\ trail'[i].level = trail[i].level /\ trail'[i].ulevel = trail[i].ulevel
    BY <1>2, <1>3, <2>3 DEF Begins
  <2> QED BY <2>1, <2>4 DEF Unit
<1> QED BY <1>4 DEF UnitsStay

(* Clauses stay when nothing, or one more, happens to the arena.             *)
LEMMA ClausesSame ==
  ASSUME clauses' = clauses
  PROVE ClausesStay
BY DEF ClausesStay
LEMMA ClausesAttached ==
  ASSUME IInv, NEW c, clauses' = Attach(clauses, c)
  PROVE ClausesStay
<1>1. IsFiniteSet(DOMAIN clauses)
  BY Facts
<1>2. LET e == Attach(clauses, c)
          f == FreshRef(clauses)
      IN  /\ DOMAIN e = DOMAIN clauses \cup {f} /\ e[f] = c /\ f \notin DOMAIN clauses
          /\ f \in Nat /\ f > 0
          /\ \A r \in DOMAIN clauses : r \in DOMAIN e /\ e[r] = clauses[r]
  BY <1>1, AttachFacts
<1>3. \A r \in DOMAIN clauses : r \in DOMAIN clauses' /\ clauses'[r] = clauses[r]
  BY <1>2
<1> QED BY <1>3 DEF ClausesStay

(* Clauses stay when removable ones are removed.                             *)
LEMMA ClausesDetached ==
  ASSUME NEW R, clauses' = Detach(clauses, R), \A r \in R : clauses[r].removable
  PROVE ClausesStay
BY DEF ClausesStay, Detach

(* Variables stay when variables are added.                                  *)
LEMMA VariablesStay ==
  ASSUME IInv
  PROVE /\ Grown(intro, intro)
        /\ \A S : Grown(intro, Created(S))
        /\ \A q, t, bounds : Registration(q, t, bounds) => Grown(intro, intro')
<1>1. Vars(intro, assertionLevel) /\ assertionLevel \in Nat
  BY Facts DEF IInv, Base
<1>2. \A S : Grown(intro, Created(S))
  BY <1>1, CreatedFacts
<1>3. Grown(intro, intro)
  BY DEF Grown
<1> QED BY <1>2, <1>3 DEF Registration

(* A step inside a call.                                                     *)
LEMMA Covers ==
  ASSUME IInv, AInv, UNCHANGED Fixed, ok' => ok, UnitsStay, ClausesStay,
         Grown(intro, intro'), Checked(pc, at, trail)'
  PROVE AInv'
BY CoverStays DEF Fixed, AInv

(* A step inside a call that touches neither trail nor clauses.              *)
LEMMA SameCovers ==
  ASSUME IInv, AInv, UNCHANGED <<clauses, trail, intro, Fixed>>, ok' => ok,
         Checked(pc, at, trail)'
  PROVE AInv'
<1>1. UnitsStay /\ ClausesStay /\ Grown(intro, intro')
  BY ClausesSame, VariablesStay DEF UnitsStay
<1> QED BY <1>1, Covers

(* Steps that only move on.                                                  *)
LEMMA BeginPropagateCovers ==
  ASSUME IInv, AInv, BeginPropagate
  PROVE AInv'
<1>1. /\ pc' # "return" /\ at'.from = "entry"
      /\ UNCHANGED <<clauses, trail, intro, Fixed, ok>>
  <2>1. at \in Locals
    BY Facts
  <2> QED BY <2>1 DEF BeginPropagate, Inside, Locals
<1>2. Checked(pc, at, trail)'
  BY <1>1 DEF Checked
<1> QED BY <1>1, <1>2, SameCovers

LEMMA ReadRemovedVariableCovers ==
  ASSUME IInv, AInv, ReadRemovedVariable
  PROVE AInv'
<1>1. pc' = "undefined" /\ UNCHANGED <<clauses, trail, intro, Fixed, ok>>
  BY DEF ReadRemovedVariable, Inside, Fixed
<1>2. Checked(pc, at, trail)'
  BY <1>1 DEF Checked
<1> QED BY <1>1, <1>2, SameCovers

LEMMA TakeLiteralCovers ==
  ASSUME IInv, AInv, TakeLiteral
  PROVE AInv'
<1>1. pc' = "bool" /\ UNCHANGED <<clauses, trail, intro, Fixed, ok>>
  BY DEF TakeLiteral, Inside
<1>2. Checked(pc, at, trail)'
  BY <1>1 DEF Checked
<1> QED BY <1>1, <1>2, SameCovers

LEMMA EndOfQueueCovers ==
  ASSUME IInv, AInv, EndOfQueue
  PROVE AInv'
<1>1. /\ UNCHANGED <<clauses, trail, intro, Fixed, ok, at>>
      /\ pc' = IF at.caller = "search" THEN "theory" ELSE "return"
  BY DEF EndOfQueue, Inside
<1>2. Checked(pc, at, trail)'
  BY <1>1 DEF Checked, FinalCheck
<1> QED BY <1>1, <1>2, SameCovers

LEMMA LemmasUpdatedCovers ==
  ASSUME IInv, AInv, LemmasUpdated
  PROVE AInv'
<1>1. /\ UNCHANGED <<clauses, trail, intro, Fixed, ok>> /\ pc = "attach"
      /\ pc' = IF at.conflict # Undef THEN "return"
               ELSE IF at.from = "theory" THEN Round(trail)
               ELSE IF FinalCheck(at) THEN "theory" ELSE "bool"
      /\ at' = [at EXCEPT !.bound = 0]
  BY DEF LemmasUpdated, Inside
<1>2. /\ at'.conflict = at.conflict /\ at'.recheck = at.recheck /\ at'.from = at.from
      /\ FinalCheck(at') = FinalCheck(at)
  <2>1. at \in Locals
    BY Facts
  <2> QED BY <2>1, <1>1 DEF Locals, FinalCheck
<1>3. pc' = "return" \/ pc' = "theory" \/ pc' = "bool"
  BY <1>1, RoundCases
<1>4. ASSUME pc' = "return", FinalCheck(at'), at'.conflict = Undef PROVE at'.recheck
  BY <1>1, <1>2, <1>4 DEF AInv, Checked
<1>5. Checked(pc, at, trail)'
  BY <1>3, <1>4 DEF Checked
<1> QED BY <1>1, <1>5, SameCovers

LEMMA EndAddClauseCovers ==
  ASSUME IInv, CInv, AInv, EndAddClause
  PROVE AInv'
<1>1. pc = "return" /\ pc' = "idle" /\ UNCHANGED <<clauses, trail, intro, Fixed>>
  BY DEF EndAddClause, Fixed
<1>2. ok
  BY <1>1, Running
<1>3. Checked(pc, at, trail)'
  BY <1>1 DEF Checked
<1> QED BY <1>1, <1>2, <1>3, SameCovers

LEMMA ConflictAtTopLevelCovers ==
  ASSUME IInv, CInv, AInv, ConflictAtTopLevel
  PROVE AInv'
<1>1. pc = "return" /\ pc' = "solved" /\ UNCHANGED <<clauses, trail, intro, Fixed>>
  BY DEF ConflictAtTopLevel, Searching
<1>2. ok
  BY <1>1, Running
<1>3. Checked(pc, at, trail)'
  BY <1>1 DEF Checked
<1> QED BY <1>1, <1>2, <1>3, SameCovers

LEMMA AfterFinalCheckCovers ==
  ASSUME IInv, CInv, AInv, AfterFinalCheck
  PROVE AInv'
<1>1. pc = "return" /\ pc' \in {"propagate", "solved"} /\ UNCHANGED <<clauses, trail, intro, Fixed>>
  BY DEF AfterFinalCheck, Searching
<1>2. ok
  BY <1>1, Running
<1>3. Checked(pc, at, trail)'
  BY <1>1 DEF Checked
<1> QED BY <1>1, <1>2, <1>3, SameCovers

LEMMA BeginAnalyzeCovers ==
  ASSUME IInv, AInv, BeginAnalyze
  PROVE AInv'
<1>1. pc' = "analyze" /\ UNCHANGED <<clauses, trail, intro, Fixed, ok>>
  BY DEF BeginAnalyze, Inside
<1>2. Checked(pc, at, trail)'
  BY <1>1 DEF Checked
<1> QED BY <1>1, <1>2, SameCovers

LEMMA ResolveCovers ==
  ASSUME IInv, AInv, Resolve
  PROVE AInv'
<1>1. pc' = "analyze" /\ UNCHANGED <<clauses, trail, intro, Fixed, ok>>
  BY DEF Resolve, Inside
<1>2. Checked(pc, at, trail)'
  BY <1>1 DEF Checked
<1> QED BY <1>1, <1>2, SameCovers

LEMMA WithinBudgetCovers ==
  ASSUME IInv, AInv, WithinBudget
  PROVE AInv'
<1>1. pc' = "decide" /\ UNCHANGED <<clauses, trail, intro, Fixed, ok>>
  BY DEF WithinBudget, Inside
<1>2. Checked(pc, at, trail)'
  BY <1>1 DEF Checked
<1> QED BY <1>1, <1>2, SameCovers

(* Steps that cut the trail back to decision level zero.                     *)
LEMMA BottomCovers ==
  ASSUME IInv, IInv', AInv, trail' = CancelUntil(trail, 0), ok' = ok,
         UNCHANGED <<clauses, Fixed>>,
         (\E q, t, bounds : Registration(q, t, bounds)) \/ intro' = intro,
         pc' \in {"idle", "propagate", "solved"}
  PROVE AInv'
<1>1. Len(trail') \in Nat /\ Begins(trail', trail')
  BY ShapesNext, BeginsItself
<1>2. PICK z \in Nat : z = 0
  OBVIOUS
<1>3. UnitsStay
  BY <1>1, <1>2, UnitsCut
<1>4. Checked(pc, at, trail)'
  BY DEF Checked
<1> QED BY <1>3, <1>4, ClausesSame, VariablesStay, Covers

LEMMA ResetTrailCovers ==
  ASSUME IInv, IInv', AInv, ResetTrail
  PROVE AInv'
BY BottomCovers DEF ResetTrail, Fixed

LEMMA RestartCovers ==
  ASSUME IInv, IInv', AInv, Restart
  PROVE AInv'
<1>1. (\E q, t, bounds : Registration(q, t, bounds)) \/ intro' = intro
  BY DEF Restart
<1> QED BY <1>1, BottomCovers DEF Restart

(* A trail with one more entry.                                              *)
LEMMA EnqueueBegins ==
  ASSUME NEW t, NEW al, Shape(t, al), NEW l, NEW from, NEW d
  PROVE Begins(t, Enqueue(t, l, from, d)) /\ Len(Enqueue(t, l, from, d)) \in Nat
<1> DEFINE e == [lit |-> l, reason |-> from, level |-> d, ulevel |-> assertionLevel]
<1>1. PICK x : x = e
  OBVIOUS
<1>2. t \in Seq(Entry \cup {x}) /\ x \in Entry \cup {x} /\ Len(t) \in Nat
  <2>1. t \in Seq(Entry) /\ Entry \subseteq Entry \cup {x}
    BY DEF Shape
  <2> HIDE DEF e
  <2> QED BY <2>1
<1> HIDE DEF e
<1>3. /\ Len(Append(t, x)) = Len(t) + 1
      /\ \A i \in 1 .. Len(t) : Append(t, x)[i] = t[i]
  BY <1>2
<1>4. Enqueue(t, l, from, d) = Append(t, x)
  BY <1>1 DEF Enqueue, e
<1> QED BY <1>2, <1>3, <1>4 DEF Begins

(* The removal of clauses.                                                   *)
LEMMA SimplifyCovers ==
  ASSUME IInv, IInv', AInv, Simplify
  PROVE AInv'
<1>1. PICK R : /\ pc = "decide" /\ clauses' = Detach(clauses, R) /\ trail' = Unlock(trail, R)
               /\ \A r \in R : clauses[r].removable
               /\ UNCHANGED <<qhead, lemmas, pc, at, Inside>>
  BY DEF Simplify
<1>2. Begins(trail, trail') /\ Len(trail') \in Nat
  BY <1>1, Facts, ShapesNext, UnlockFacts
<1>3. UnitsStay /\ ClausesStay
  BY <1>1, <1>2, UnitsBegin, ClausesDetached
<1>4. Checked(pc, at, trail)'
  BY <1>1 DEF Checked
<1> QED BY <1>1, <1>3, <1>4, VariablesStay, Covers DEF Inside

LEMMA ReduceDBCovers ==
  ASSUME IInv, AInv, ReduceDB
  PROVE AInv'
<1>1. PICK R : /\ pc = "decide" /\ clauses' = Detach(clauses, R) /\ trail' = trail
               /\ \A r \in R : clauses[r].removable
               /\ UNCHANGED <<qhead, lemmas, pc, at, Inside>>
  BY DEF ReduceDB
<1>2. UnitsStay /\ ClausesStay
  BY <1>1, ClausesDetached DEF UnitsStay
<1>3. Checked(pc, at, trail)'
  BY <1>1 DEF Checked
<1> QED BY <1>1, <1>2, <1>3, VariablesStay, Covers DEF Inside

LEMMA DecideCovers ==
  ASSUME IInv, AInv, Decide
  PROVE AInv'
<1>1. /\ pc' = "propagate" /\ UNCHANGED <<clauses, intro, Fixed, ok>>
      /\ \/ \E l \in FreeLiterals : trail' = Enqueue(trail, l, Undef, DecisionLevel(trail) + 1)
         \/ trail' = trail
  BY DEF Decide, Inside
<1>2. UnitsStay
  <2>1. CASE trail' = trail
    BY <2>1 DEF UnitsStay
  <2>2. ASSUME NEW l \in FreeLiterals, NEW d, trail' = Enqueue(trail, l, Undef, d)
        PROVE UnitsStay
    BY <2>2, Facts, EnqueueBegins, UnitsBegin
  <2> QED BY <1>1, <2>1, <2>2
<1>3. Checked(pc, at, trail)'
  BY <1>1 DEF Checked
<1> QED BY <1>1, <1>2, <1>3, ClausesSame, VariablesStay, Covers

LEMMA VisitWatcherCovers ==
  ASSUME IInv, AInv, NEW r \in DOMAIN clauses, VisitWatcher(r)
  PROVE AInv'
<1> DEFINE c == clauses[r]
           l == -trail[qhead].lit
           first == IF c.w[1] = l THEN c.w[2] ELSE c.w[1]
<1>1. /\ pc = "bool" /\ r \in at.todo /\ UNCHANGED <<intro, Fixed, ok>>
      /\ \/ UNCHANGED <<clauses, trail, pc>>
         \/ \E k \in c.rest :
              /\ clauses' = [clauses EXCEPT ![r].w = <<first, k>>,
                                            ![r].rest = (@ \ {k}) \cup {l}]
              /\ UNCHANGED <<trail, pc>>
         \/ /\ clauses' = [clauses EXCEPT ![r].w = <<first, l>>]
            /\ \/ trail' = trail /\ at' = [at EXCEPT !.todo = {}, !.conflict = r]
               \/ trail' = Enqueue(trail, first, r, DecisionLevel(trail)) /\ pc' = pc
  BY DEF VisitWatcher, Inside
<1>2. /\ r > 0 /\ r \in Int /\ at \in Locals /\ l \in {c.w[1], c.w[2]}
  BY <1>1, VisitFacts
<1>3. c \in ClauseType /\ Lits(c) = {first, l} \cup c.rest
  <2>1. PICK f : f = first
    OBVIOUS
  <2>2. Lits(clauses[r]) = {f, l} \cup clauses[r].rest /\ clauses[r] \in ClauseType
    BY <1>2, <2>1, WatchedFacts
  <2> QED BY <2>1, <2>2
<1> HIDE DEF l, first
<1>4. UnitsStay
  <2>1. CASE trail' = trail
    BY <2>1 DEF UnitsStay
  <2>2. CASE trail' = Enqueue(trail, first, r, DecisionLevel(trail))
    BY <2>2, Facts, EnqueueBegins, UnitsBegin
  <2> QED BY <1>1, <2>1, <2>2
<1>5. ClausesStay
  <2>1. CASE clauses' = clauses
    BY <2>1, ClausesSame
  <2>2. ASSUME NEW W, NEW rest, W[1] \in Lits(c), W[2] \in Lits(c), rest \subseteq Lits(c),
               clauses' = [clauses EXCEPT ![r].w = W, ![r].rest = rest]
        PROVE ClausesStay
    <3>1. clauses'[r] = [c EXCEPT !.w = W, !.rest = rest]
      BY <2>2
    <3>2. clauses'[r].w = W /\ clauses'[r].rest = rest /\ clauses'[r].level = c.level
          /\ clauses'[r].removable = c.removable
      BY <1>3, <3>1 DEF ClauseType
    <3>3. Lits(clauses'[r]) \subseteq Lits(c)
      BY <2>2, <3>2 DEF Lits
    <3>4. ASSUME NEW q \in DOMAIN clauses
          PROVE q \in DOMAIN clauses' /\ (q # r => clauses'[q] = clauses[q])
      BY <2>2
    <3> QED BY <3>2, <3>3, <3>4 DEF ClausesStay
  <2>3. ASSUME NEW k \in c.rest,
               clauses' = [clauses EXCEPT ![r].w = <<first, k>>, ![r].rest = (@ \ {k}) \cup {l}]
        PROVE ClausesStay
    <3> DEFINE W == <<first, k>>
    <3>0. W[1] = first /\ W[2] = k
      OBVIOUS
    <3>1. W = <<first, k>>
      OBVIOUS
    <3> HIDE DEF W
    <3>2. PICK rest : rest = (c.rest \ {k}) \cup {l}
      OBVIOUS
    <3>3. clauses' = [clauses EXCEPT ![r].w = W, ![r].rest = rest]
      BY <2>3, <3>1, <3>2
    <3>4. W[1] \in Lits(c) /\ W[2] \in Lits(c) /\ rest \subseteq Lits(c)
      BY <1>3, <3>0, <3>2
    <3> QED BY <2>2, <3>3, <3>4
  <2>4. CASE clauses' = [clauses EXCEPT ![r].w = <<first, l>>]
    <3> DEFINE W == <<first, l>>
    <3>0. W[1] = first /\ W[2] = l
      OBVIOUS
    <3>1. W = <<first, l>>
      OBVIOUS
    <3> HIDE DEF W
    <3>2. PICK rest : rest = c.rest
      OBVIOUS
    <3>3. clauses' = [clauses EXCEPT ![r].w = W, ![r].rest = rest]
      <4>1. clauses' = [clauses EXCEPT ![r].w = W]
        BY <2>4, <3>1
      <4>2. [c EXCEPT !.w = W] = [c EXCEPT !.w = W, !.rest = rest]
        BY <1>3, <3>2 DEF ClauseType
      <4> QED BY <4>1, <4>2
    <3>4. W[1] \in Lits(c) /\ W[2] \in Lits(c) /\ rest \subseteq Lits(c)
      BY <1>3, <3>0, <3>2
    <3> QED BY <2>2, <3>3, <3>4
  <2> QED BY <1>1, <2>1, <2>3, <2>4
<1>6. Checked(pc, at, trail)'
  <2>1. CASE pc' = pc
    BY <1>1, <2>1 DEF Checked
  <2>2. CASE at' = [at EXCEPT !.todo = {}, !.conflict = r]
    <3>1. at'.conflict # Undef
      BY <1>2, <2>2 DEF Locals, Undef
    <3>2. pc' \in {"bool", "return"}
      BY DEF VisitWatcher
    <3> QED BY <3>1, <3>2 DEF Checked
  <2> QED BY <1>1, <2>1, <2>2
<1> QED BY <1>1, <1>4, <1>5, <1>6, VariablesStay, Covers

(* A level updateLemmas may backtrack to.                                    *)
LEMMA LevelsFacts ==
  ASSUME IInv, pc = "lemmas", NEW d \in Levels
  PROVE d \in Nat
<1>1. CASE d = DecisionLevel(trail)
  BY <1>1, Facts
<1>2. CASE d # DecisionLevel(trail)
  <2>1. PICK i \in NewLemmas : d = BacktrackLevel(SortedQueue[i].w)
    BY <1>2 DEF Levels
  <2>2. i \in 1 .. Len(lemmas)
    BY SortedQueueFacts
  <2>3. InOrder(trail, lemmas[i].rest, SortedQueue[i]) /\ lemmas[i].rest \subseteq Literals
    BY <2>2, SortedQueueFacts
  <2> QED BY <2>1, <2>3, BacktrackFacts
<1> QED BY <1>1, <1>2

(* The theory's turn: with nothing more to say at a full check it has seen   *)
(* no clause of its own false; after anything else it is asked again.        *)
LEMMA TheoryCheckCovers ==
  ASSUME IInv, AInv, TheoryCheck
  PROVE AInv'
<1>1. /\ UNCHANGED <<clauses, ok, Fixed>> /\ pc = "theory"
      /\ \/ /\ FinalCheck(at) => \A L \in Theory : ~Falsified(trail, L)
            /\ pc' = Round(trail) /\ UNCHANGED <<trail, at, intro>>
         \/ /\ \E L \in Theory : intro' = Created(L)
            /\ at' = [at EXCEPT !.recheck = FinalCheck(at), !.from = "theory"]
            /\ trail' = trail
         \/ /\ \E l : trail' = Enqueue(trail, l, Lazy, DecisionLevel(trail))
            /\ at' = [at EXCEPT !.recheck = FinalCheck(at)]
            /\ intro' = intro /\ pc' = Round(trail')
  BY DEF TheoryCheck
<1>2. at \in Locals /\ Shape(trail, assertionLevel)
  BY Facts
<1>3. Grown(intro, intro')
  BY <1>1, VariablesStay
<1>4. UnitsStay
  <2>1. CASE trail' = trail
    BY <2>1 DEF UnitsStay
  <2>2. ASSUME NEW l, trail' = Enqueue(trail, l, Lazy, DecisionLevel(trail))
        PROVE UnitsStay
    BY <2>2, <1>2, EnqueueBegins, UnitsBegin
  <2> QED BY <1>1, <2>1, <2>2
<1>5. Checked(pc, at, trail)'
  <2>1. CASE /\ FinalCheck(at) => \A L \in Theory : ~Falsified(trail, L)
             /\ pc' = Round(trail) /\ UNCHANGED <<trail, at, intro>>
    <3>1. pc' \notin {"lemmas", "attach"}
      BY <2>1, RoundCases
    <3> QED BY <2>1, <3>1 DEF Checked
  <2>2. ASSUME at'.recheck = FinalCheck(at), FinalCheck(at') = FinalCheck(at)
        PROVE Checked(pc, at, trail)'
    BY <2>2 DEF Checked
  <2>3. ASSUME at' = [at EXCEPT !.recheck = FinalCheck(at)]
        PROVE at'.recheck = FinalCheck(at) /\ FinalCheck(at') = FinalCheck(at)
    BY <1>2, <2>3 DEF Locals, FinalCheck
  <2>4. ASSUME at' = [at EXCEPT !.recheck = FinalCheck(at), !.from = "theory"]
        PROVE at'.recheck = FinalCheck(at) /\ FinalCheck(at') = FinalCheck(at)
    BY <1>2, <2>4 DEF Locals, FinalCheck
  <2> QED BY <1>1, <2>1, <2>2, <2>3, <2>4
<1> QED BY <1>1, <1>3, <1>4, <1>5, ClausesSame, Covers

(* Lemmas are sorted, and the trail is cut back for them.                    *)
LEMMA SortLemmasCovers ==
  ASSUME IInv, IInv', AInv, SortLemmas
  PROVE AInv'
<1>1. pc = "lemmas" /\ UNCHANGED <<clauses, ok, Fixed>>
  BY DEF SortLemmas
<1>2. \/ /\ pc' = "attach" /\ at' = [at EXCEPT !.bound = Len(trail)]
         /\ UNCHANGED <<trail, intro>>
      \/ \E d \in Levels :
           /\ trail' = CancelUntil(trail, d)
           /\ (\E q, t, bounds : Registration(q, t, bounds)) \/ intro' = intro
           /\ at' = [at EXCEPT !.conflict = Lazy] \/ at' = at
           /\ UNCHANGED pc
  <2>1. \/ /\ pc' = "attach" /\ at' = [at EXCEPT !.bound = Len(trail)]
           /\ UNCHANGED <<trail, intro>>
        \/ \E d \in Levels :
             /\ trail' = CancelUntil(trail, d)
             /\ IF Len(trail') < Len(trail)
                  THEN Registration(SortedQueue, trail', left)
                  ELSE lemmas' = SortedQueue /\ UNCHANGED <<intro, left>>
             /\ at' = IF \E i \in NewLemmas : SortedQueue[i].w = <<>>
                        THEN [at EXCEPT !.conflict = Lazy] ELSE at
             /\ UNCHANGED pc
    BY DEF SortLemmas, NewLemmas, SortedQueue, Levels, SortOf
  <2> QED BY <2>1
<1>3. at \in Locals /\ Len(trail) \in Nat
  BY Facts
<1>4. at'.recheck = at.recheck /\ at'.from = at.from /\ FinalCheck(at') = FinalCheck(at)
  <2>1. CASE at' = [at EXCEPT !.bound = Len(trail)]
    BY <1>3, <2>1 DEF Locals, FinalCheck
  <2>2. CASE at' = [at EXCEPT !.conflict = Lazy]
    BY <1>3, <2>2 DEF Locals, FinalCheck
  <2> QED BY <1>2, <2>1, <2>2
<1>5. pc' \in {"lemmas", "attach"}
  BY <1>1, <1>2
<1>6. Checked(pc, at, trail)'
  BY <1>1, <1>4, <1>5 DEF AInv, Checked
<1>7. Grown(intro, intro')
  BY <1>2, VariablesStay
<1>8. UnitsStay
  <2>1. CASE trail' = trail
    BY <2>1 DEF UnitsStay
  <2>2. ASSUME NEW d \in Levels, trail' = CancelUntil(trail, d)
        PROVE UnitsStay
    <3>1. d \in Nat
      BY <1>1, LevelsFacts
    <3>2. Len(trail') \in Nat /\ Begins(trail', trail')
      BY ShapesNext, BeginsItself
    <3> QED BY <2>2, <3>1, <3>2, UnitsCut
  <2> QED BY <1>2, <2>1, <2>2
<1> QED BY <1>1, <1>6, <1>7, <1>8, ClausesSame, Covers

(* A lemma is attached.                                                      *)
LEMMA AttachLemmaCovers ==
  ASSUME IInv, AInv, AttachLemma
  PROVE AInv'
<1>1. /\ pc = "attach" /\ pc' = pc /\ UNCHANGED <<intro, Fixed, ok>>
      /\ (\E c : clauses' = Attach(clauses, c)) \/ clauses' = clauses
      /\ (\E l, from : trail' = Enqueue(trail, l, from, DecisionLevel(trail))) \/ trail' = trail
      /\ (\E c : at' = [at EXCEPT !.conflict = c]) \/ at' = at
  BY DEF AttachLemma, Inside
<1>2. at \in Locals /\ Shape(trail, assertionLevel)
  BY Facts
<1>3. at'.recheck = at.recheck /\ at'.from = at.from /\ FinalCheck(at') = FinalCheck(at)
  <2>1. ASSUME NEW c, at' = [at EXCEPT !.conflict = c]
        PROVE at'.recheck = at.recheck /\ at'.from = at.from /\ FinalCheck(at') = FinalCheck(at)
    BY <1>2, <2>1 DEF Locals, FinalCheck
  <2> QED BY <1>1, <2>1
<1>4. Checked(pc, at, trail)'
  BY <1>1, <1>3 DEF AInv, Checked
<1>5. UnitsStay
  <2>1. CASE trail' = trail
    BY <2>1 DEF UnitsStay
  <2>2. ASSUME NEW l, NEW from, trail' = Enqueue(trail, l, from, DecisionLevel(trail))
        PROVE UnitsStay
    BY <2>2, <1>2, EnqueueBegins, UnitsBegin
  <2> QED BY <1>1, <2>1, <2>2
<1>6. ClausesStay
  BY <1>1, ClausesSame, ClausesAttached
<1> QED BY <1>1, <1>4, <1>5, <1>6, VariablesStay, Covers

(* An explanation is attached, and is the reason from now on.                *)
LEMMA ExplainCovers ==
  ASSUME IInv, IInv', AInv, Explain
  PROVE AInv'
<1>1. /\ pc = "analyze" /\ UNCHANGED <<pc, intro, Fixed, ok>>
      /\ \E c : clauses' = Attach(clauses, c)
      /\ \E i, f : trail' = [trail EXCEPT ![i].reason = f]
  BY DEF Explain, ExplainWith, Inside
<1>2. UnitsStay
  <2>1. PICK i, f : trail' = [trail EXCEPT ![i].reason = f]
    BY <1>1
  <2>2. Len(trail) \in Nat /\ trail \in Seq(Entry)
    BY Facts DEF Shape
  <2>3. Len(trail') = Len(trail)
    BY <2>1, <2>2
  <2>4. ASSUME NEW j \in 1 .. Len(trail)
        PROVE /\ trail'[j].lit = trail[j].lit /\ trail'[j].level = trail[j].level
              /\ trail'[j].ulevel = trail[j].ulevel
    <3>1. trail[j] \in Entry
      BY <2>2
    <3>2. trail'[j] = IF i = j THEN [trail[j] EXCEPT !.reason = f] ELSE trail[j]
      BY <2>1, <2>2
    <3> QED BY <3>1, <3>2 DEF Entry
  <2>5. Begins(trail, trail') /\ Len(trail') \in Nat
    BY <2>2, <2>3, <2>4 DEF Begins
  <2> QED BY <2>5, UnitsBegin
<1>3. ClausesStay
  BY <1>1, ClausesAttached
<1>4. Checked(pc, at, trail)'
  BY <1>1 DEF Checked
<1> QED BY <1>1, <1>2, <1>3, <1>4, VariablesStay, Covers

(* A conflict ends with a backjump and a learnt clause, which is removable.  *)
LEMMA LearnCovers ==
  ASSUME IInv, IInv', AInv, Learn
  PROVE AInv'
<1> DEFINE back == MaxOf({0} \cup {LevelOf(trail, l) : l \in Learnt})
           t == CancelUntil(trail, back)
<1>1. /\ pc = "analyze" /\ Cardinality(OnTop(at.res)) = 1 /\ pc' = "propagate"
      /\ UNCHANGED <<Fixed, ok>>
      /\ \E q, u : Registration(q, u, left)
      /\ (\E c : clauses' = Attach(clauses, c)) \/ clauses' = clauses
      /\ \E l, from : trail' = Enqueue(t, l, from, back)
  BY DEF Learn, Learnt, Gone
<1>2. PICK d \in Nat : d = back
  <2>1. LET b == BackLevel(Learnt)
            v == CancelUntil(trail, b)
        IN  /\ b \in Nat /\ DecisionLevel(v) = b
            /\ Assigned(v, clauses, inputs, intro, assertionLevel)
            /\ IsUndef(v, Latest(at.res)) /\ \A k \in Learnt : IsFalse(v, k)
            /\ Learnt # {} => b # 0
    BY <1>1, BackjumpFacts
  <2>2. back = BackLevel(Learnt)
    BY DEF BackLevel
  <2> HIDE DEF back
  <2> QED BY <2>1, <2>2
<1> HIDE DEF back
<1>3. Shape(CancelUntil(trail, d), assertionLevel)
  BY Facts, CancelFacts
<1>4. Begins(CancelUntil(trail, d), trail') /\ Len(trail') \in Nat
  BY <1>1, <1>2, <1>3, EnqueueBegins
<1>5. UnitsStay
  BY <1>4, UnitsCut
<1>6. ClausesStay
  BY <1>1, ClausesSame, ClausesAttached
<1>7. Grown(intro, intro')
  BY <1>1, VariablesStay
<1>8. Checked(pc, at, trail)'
  BY <1>1 DEF Checked
<1> QED BY <1>1, <1>5, <1>6, <1>7, <1>8, Covers

-----------------------------------------------------------------------------
(* What addClause_ leaves alone, and what it adds to.                        *)
LEMMA AddClauseStays ==
  ASSUME IInv, NEW S, NEW removable, AddClause(S, removable)
  PROVE /\ UNCHANGED <<assertionLevel, trailOk>> /\ (ok' => ok) /\ intro' = Created(S)
        /\ UnitsStay /\ ClausesStay /\ Grown(intro, intro')
<1>1. /\ UNCHANGED <<assertionLevel, trailOk>> /\ intro' = Created(S)
      /\ ok' = ok \/ ok' = FALSE
      /\ (\E c : clauses' = Attach(clauses, c)) \/ clauses' = clauses
      /\ (\E l, from : trail' = Enqueue(trail, l, from, 0)) \/ trail' = trail
  BY DEF AddClause
<1>2. Shape(trail, assertionLevel)
  BY Facts
<1>3. UnitsStay
  <2>1. CASE trail' = trail
    BY <2>1 DEF UnitsStay
  <2>2. ASSUME NEW l, NEW from, NEW d, trail' = Enqueue(trail, l, from, d)
        PROVE UnitsStay
    BY <2>2, <1>2, EnqueueBegins, UnitsBegin
  <2> QED BY <1>1, <2>1, <2>2
<1>4. ClausesStay
  BY <1>1, ClausesSame, ClausesAttached
<1> QED BY <1>1, <1>3, <1>4, VariablesStay

(* A literal that is true without a decision is true there on a level up to  *)
(* the present one.                                                          *)
LEMMA TrueIsUnit ==
  ASSUME IInv, NEW l, IsTrue(trail, l), LevelOf(trail, l) = 0
  PROVE Unit(trail, l, assertionLevel)
<1>1. Shape(trail, assertionLevel)
  BY Facts
<1>2. At(trail, l) \in 1 .. Len(trail) /\ trail[At(trail, l)].lit = l
  BY <1>1, AtTrue
<1>3. trail[At(trail, l)].ulevel <= assertionLevel
  BY <1>1, <1>2, EntryFacts
<1> QED BY <1>2, <1>3 DEF Unit, LevelOf

(* The literal that addClause_ enqueues.                                     *)
LEMMA EnqueuedUnit ==
  ASSUME IInv, NEW l, NEW from, NEW z, z = 0, trail' = Enqueue(trail, l, from, z)
  PROVE Unit(trail', l, assertionLevel)
<1> DEFINE e == [lit |-> l, reason |-> from, level |-> z, ulevel |-> assertionLevel]
<1>1. e.lit = l /\ e.level = 0 /\ e.ulevel = assertionLevel
  OBVIOUS
<1>2. trail' = Append(trail, e)
  BY DEF Enqueue
<1> HIDE DEF e
<1>3. trail \in Seq(Entry) /\ Entry \subseteq Entry \cup {e} /\ assertionLevel \in Nat
  BY Facts DEF Shape
<1>4. trail \in Seq(Entry \cup {e}) /\ e \in Entry \cup {e}
  BY <1>3
<1>5. /\ Len(trail) \in Nat /\ Len(Append(trail, e)) = Len(trail) + 1
      /\ Append(trail, e)[Len(trail) + 1] = e
  BY <1>4
<1>6. Len(trail) + 1 \in 1 .. Len(trail') /\ trail'[Len(trail) + 1] = e
  BY <1>2, <1>5
<1> QED BY <1>1, <1>3, <1>6 DEF Unit

(* The new clause of the user is covered, unless it makes the level          *)
(* inconsistent: what addClause_ leaves out of it is false at the bottom.    *)
LEMMA NewCovered ==
  ASSUME IInv, pc = "idle", NEW S, S \subseteq AtomLits,
         NEW removable \in BOOLEAN, ~removable, AddClause(S, removable), ok'
  PROVE Covered(S, assertionLevel, clauses', trail', intro')
<1> DEFINE al == assertionLevel
           int == Created(S)
           K == Kept(trail, S)
           F == {l \in K : IsFalse(trail, l)}
           s == Sorted(trail, K)
           long == Cardinality(K) > 1
           ref == IF long THEN FreshRef(clauses) ELSE Undef
           c == Clause(s, ClauseLevel(int, S, removable), FALSE)
           db == IF long THEN Attach(clauses, c) ELSE clauses
<1>1. /\ intro' = int
      /\ IF ~ok \/ Ignored(trail, S) THEN UNCHANGED <<clauses, trail, ok, pc, at>>
         ELSE IF F = K THEN
           /\ ok' = FALSE
           /\ clauses' = IF cores THEN db ELSE clauses
           /\ UNCHANGED <<trail, pc, at>>
         ELSE
           /\ clauses' = db
           /\ UNCHANGED ok
           /\ IF Cardinality(K) = Cardinality(F) + 1 /\ IsUndef(trail, s.w[1])
                THEN /\ trail' = Enqueue(trail, s.w[1], ref, 0)
                     /\ pc' = "propagate" /\ at' = Start("addClause")
                ELSE UNCHANGED <<trail, pc, at>>
  BY DEF AddClause
<1>2. /\ al \in Nat /\ Shape(trail, al) /\ Len(trail) \in Nat /\ cores \in BOOLEAN
      /\ IsFiniteSet(DOMAIN clauses) /\ DecisionLevel(trail) = 0
      /\ Vars(intro, al)
  <2>1. DecisionLevel(trail) = 0 /\ Vars(intro, al)
    BY DEF IInv, Protocol, Base
  <2> QED BY <2>1, Facts
<1>3. /\ K \subseteq S /\ K \subseteq AtomLits /\ K \subseteq Literals /\ IsFiniteSet(K)
      /\ long => InFront(trail, K, s)
  <2>1. K \subseteq S /\ K \subseteq AtomLits
    BY DEF Kept
  <2>2. K \subseteq Literals /\ IsFiniteSet(K)
    BY <2>1, AtomLitFacts, AtomLitsFinite, FS_Subset
  <2> HIDE DEF K
  <2>3. ASSUME long PROVE InFront(trail, K, s)
    <3>1. \E a, b \in K : a # b
      BY <1>2, <2>2, <2>3, SortedIs
    <3>2. Several(K)
      BY <2>2, <3>1 DEF Several
    <3> QED BY <1>2, <3>2, LongSorted
  <2> QED BY <2>1, <2>2, <2>3
<1>4. \A l \in S : int[Var(l)] \in 0 .. al
  BY <1>2, CreatedFacts
<1>5. c.w = s.w /\ c.rest = s.rest /\ c.level = al /\ c.removable = FALSE
  <2>1. S \subseteq ClauseLits
    BY AtomLitFacts
  <2>2. \A l \in S \ {-VarTrue} : int[Var(l)] \in 0 .. assertionLevel
    BY <1>4
  <2> HIDE DEF int
  <2>3. LET n == ClauseLevel(int, S, removable)
        IN  /\ n \in 0 .. assertionLevel
            /\ \A l \in S \ {-VarTrue} : int[Var(l)] \in 0 .. n
            /\ ~removable => n = assertionLevel
    BY <1>2, <2>1, <2>2, ClauseLevelFacts
  <2>4. ClauseLevel(int, S, removable) = al
    BY <2>3
  <2> QED BY <2>4 DEF Clause
<1> HIDE DEF c, int
<1>6. UnitsStay
  BY AddClauseStays
<1>7. CASE Ignored(trail, S)
  <2>1. CASE \E l \in S : -l \in S
    BY <1>1, <1>4, <2>1 DEF Covered
  <2>2. CASE \E l \in S : IsTrue(trail, l) /\ AtBottom(trail, l)
    BY <1>6, <2>2, TrueIsUnit DEF Covered, UnitsStay, AtBottom
  <2> QED BY <1>7, <2>1, <2>2 DEF Ignored
<1>8. CASE ~Ignored(trail, S)
  <2>1. ok /\ F # K /\ clauses' = db
    <3>1. ok
      BY AddClauseStays
    <3> QED BY <1>1, <1>8, <3>1
  <2>2. CASE long
    <3>1. clauses' = Attach(clauses, c)
      BY <2>1, <2>2
    <3>2. LET e == Attach(clauses, c)
              f == FreshRef(clauses)
          IN  /\ DOMAIN e = DOMAIN clauses \cup {f} /\ e[f] = c /\ f \notin DOMAIN clauses
              /\ f \in Nat /\ f > 0
              /\ \A r \in DOMAIN clauses : r \in DOMAIN e /\ e[r] = clauses[r]
      BY <1>2, AttachFacts
    <3>3. FreshRef(clauses) \in DOMAIN clauses' /\ clauses'[FreshRef(clauses)] = c
      BY <3>1, <3>2
    <3>4. PICK a \in K, b \in K : s.w = <<a, b>> /\ s.rest = K \ {a, b}
      BY <1>3, <2>2 DEF InFront
    <3>5. Lits(c) \subseteq S
      BY <1>3, <1>5, <3>4 DEF Lits
    <3> QED BY <1>5, <3>3, <3>5 DEF Covered
  <2>3. CASE ~long
    <3>1. PICK x \in K : x \notin F
      BY <2>1
    <3> HIDE DEF K
    <3>2. InOrder(trail, K, s) /\ (long <=> \E a, b \in K : a # b)
      BY <1>2, <1>3, SortedIs
    <3>3. K = {x} /\ s.w = <<x>>
      <4> HIDE DEF long, s
      <4> QED BY <2>3, <3>1, <3>2 DEF InOrder
    <3>4. x \in S /\ x \in Literals /\ ~IsFalse(trail, x)
      BY <1>3, <3>1
    <3>5. CASE IsTrue(trail, x)
      <4>1. LevelOf(trail, x) = 0
        BY <1>2, <3>4, <3>5, LevelFacts
      <4> QED BY <1>6, <3>4, <3>5, <4>1, TrueIsUnit DEF Covered, UnitsStay
    <3>6. CASE ~IsTrue(trail, x)
      <4>1. IsUndef(trail, x)
        BY <1>2, <3>4, <3>6, Undefined
      <4>2. F = {}
        BY <3>1, <3>3
      <4>3. Cardinality(F) = 0
        BY <4>2, FS_EmptySet
      <4>4. Cardinality(K) = 1
        BY <3>3, FS_Singleton
      <4>5. s.w[1] = x
        BY <3>3
      <4> HIDE DEF F, s, ref
      <4>6. Cardinality(K) = Cardinality(F) + 1
        BY <4>3, <4>4
      <4>7. trail' = Enqueue(trail, x, ref, 0)
        BY <1>1, <1>8, <2>1, <4>1, <4>5, <4>6
      <4>8. Unit(trail', x, al)
        BY <4>7, EnqueuedUnit
      <4> QED BY <3>4, <4>8 DEF Covered
    <3> QED BY <3>5, <3>6
  <2> QED BY <2>2, <2>3
<1> QED BY <1>7, <1>8

(* The user asserts a clause.                                                *)
LEMMA AddInputCovers ==
  ASSUME IInv, IInv', AInv, NEW S \in left.user[assertionLevel], AddInput(S)
  PROVE AInv'
<1> DEFINE al == assertionLevel
<1>1. /\ pc = "idle" /\ AddClause(S, FALSE)
      /\ inputs' = [inputs EXCEPT ![al + 1] = @ \cup {S}]
  BY DEF AddInput
<1>2. S \subseteq AtomLits
  <2>1. left \in Setting /\ assertionLevel \in 0 .. MaxLevel
    BY DEF IInv, Base, Stack
  <2>2. left.user \in [0 .. MaxLevel -> SUBSET SUBSET AtomLits]
    BY <2>1 DEF Setting
  <2>3. left.user[assertionLevel] \subseteq SUBSET AtomLits
    BY <2>1, <2>2
  <2> QED BY <2>3
<1>3. PICK b \in BOOLEAN : b = FALSE
  OBVIOUS
<1>4. AddClause(S, b)
  BY <1>1, <1>3
<1>5. /\ UNCHANGED <<assertionLevel, trailOk>> /\ (ok' => ok)
      /\ UnitsStay /\ ClausesStay /\ Grown(intro, intro')
  BY <1>4, AddClauseStays
<1>6. /\ al \in Nat /\ intro \in [Atoms -> Int] /\ Len(inputs) = al + 1
      /\ inputs \in Seq(SUBSET SUBSET AtomLits)
      /\ \A k \in 0 .. al : \A T \in inputs[k + 1] : T \subseteq AtomLits
  BY InputFacts
<1>7. Downward(ok, trailOk, assertionLevel)'
  BY <1>5 DEF AInv, Downward
<1>8. ASSUME NEW k \in 0 .. al, Verdict(ok', trailOk, al, k), NEW T \in inputs'[k + 1]
      PROVE Covered(T, k, clauses', trail', intro')
  <2>1. CASE T \in inputs[k + 1]
    <3>1. Verdict(ok, trailOk, al, k)
      BY <1>5, <1>8 DEF Verdict
    <3>2. Covered(T, k, clauses, trail, intro)
      BY <2>1, <3>1 DEF AInv, Cover
    <3>3. T \subseteq AtomLits /\ k \in Nat
      BY <1>6, <2>1
    <3> QED BY <1>5, <1>6, <3>2, <3>3, CoveredStays
  <2>2. CASE T \notin inputs[k + 1]
    <3>1. k = al /\ T = S
      BY <1>1, <1>6, <1>8, <2>2
    <3>2. ok'
      BY <1>8, <3>1 DEF Verdict
    <3>3. Covered(S, al, clauses', trail', intro')
      BY <1>1, <1>2, <1>3, <1>4, <3>2, NewCovered
    <3> QED BY <3>1, <3>3
  <2> QED BY <2>1, <2>2
<1>9. Cover(inputs, ok, trailOk, assertionLevel, clauses, trail, intro)'
  BY <1>5, <1>8 DEF Cover
<1>10. Checked(pc, at, trail)'
  <2>1. pc' \in {"idle", "propagate"}
    BY <1>1 DEF AddClause
  <2> QED BY <2>1 DEF Checked
<1> QED BY <1>7, <1>9, <1>10 DEF AInv

(* The theory adds a clause between two calls.                               *)
LEMMA AddTheoryClauseCovers ==
  ASSUME IInv, AInv, NEW S \in Theory, AddTheoryClause(S)
  PROVE AInv'
<1>1. PICK b \in BOOLEAN : AddClause(S, b)
  BY DEF AddTheoryClause
<1>2. /\ UNCHANGED <<assertionLevel, trailOk, inputs>> /\ (ok' => ok)
      /\ UnitsStay /\ ClausesStay /\ Grown(intro, intro')
  BY <1>1, AddClauseStays DEF AddTheoryClause
<1>3. /\ Downward(ok, trailOk, assertionLevel)'
      /\ Cover(inputs, ok, trailOk, assertionLevel, clauses, trail, intro)'
  BY <1>2, CoverStays
<1>4. Checked(pc, at, trail)'
  <2>1. pc' \in {"idle", "propagate"}
    BY <1>1 DEF AddTheoryClause, AddClause
  <2> QED BY <2>1 DEF Checked
<1> QED BY <1>3, <1>4 DEF AInv

(* A user level is opened: it has no clause yet.                             *)
LEMMA PushCovers ==
  ASSUME IInv, AInv, Push
  PROVE AInv'
<1> DEFINE al == assertionLevel
<1>1. /\ pc = "idle" /\ assertionLevel' = al + 1 /\ trailOk' = Append(trailOk, ok)
      /\ inputs' = Append(inputs, {}) /\ UNCHANGED <<clauses, trail, intro, ok, pc, at>>
  BY DEF Push
<1>2. /\ al \in Nat /\ Len(inputs) = al + 1 /\ Len(trailOk) = al
      /\ inputs \in Seq(SUBSET SUBSET AtomLits) /\ trailOk \in Seq(BOOLEAN) /\ ok \in BOOLEAN
  BY InputFacts
<1>3. /\ trailOk'[al + 1] = ok /\ \A k \in 1 .. al : trailOk'[k] = trailOk[k]
  BY <1>1, <1>2
<1>4. /\ inputs'[al + 2] = {} /\ \A k \in 1 .. al + 1 : inputs'[k] = inputs[k]
  BY <1>1, <1>2
<1>5. Downward(ok, trailOk, al)
  BY DEF AInv
<1>6. Downward(ok, trailOk', al + 1)
  <2>1. ASSUME ok, NEW k \in 1 .. al + 1 PROVE trailOk'[k]
    <3>1. CASE k = al + 1
      BY <1>3, <2>1, <3>1
    <3>2. CASE k # al + 1
      <4>1. k \in 1 .. al
        BY <1>2, <3>2
      <4> QED BY <1>3, <1>5, <2>1, <4>1 DEF Downward
    <3> QED BY <3>1, <3>2
  <2>2. ASSUME NEW k \in 1 .. al + 1, NEW m \in 1 .. al + 1, k <= m, trailOk'[m]
        PROVE trailOk'[k]
    <3>1. CASE m = al + 1
      BY <1>3, <2>1, <2>2, <3>1
    <3>2. CASE m # al + 1
      <4>1. k \in 1 .. al /\ m \in 1 .. al
        BY <1>2, <2>2, <3>2
      <4> QED BY <1>3, <1>5, <2>2, <4>1 DEF Downward
    <3> QED BY <3>1, <3>2
  <2> QED BY <2>1, <2>2 DEF Downward
<1>7. ASSUME NEW k \in 0 .. al + 1, Verdict(ok, trailOk', al + 1, k), NEW T \in inputs'[k + 1]
      PROVE Covered(T, k, clauses, trail, intro)
  <2>1. k # al + 1
    BY <1>2, <1>4, <1>7
  <2>2. k \in 0 .. al /\ k + 1 \in 1 .. al + 1
    BY <1>2, <2>1
  <2>3. trailOk'[k + 1]
    BY <1>7, <2>1 DEF Verdict
  <2>4. Verdict(ok, trailOk, al, k)
    <3>1. CASE k = al
      BY <1>3, <2>3, <3>1 DEF Verdict
    <3>2. CASE k # al
      <4>1. k + 1 \in 1 .. al
        BY <1>2, <2>2, <3>2
      <4> QED BY <1>3, <2>3, <3>2, <4>1 DEF Verdict
    <3> QED BY <3>1, <3>2
  <2>5. T \in inputs[k + 1]
    BY <1>4, <1>7, <2>2
  <2> QED BY <2>2, <2>4, <2>5 DEF AInv, Cover
<1>8. Cover(inputs, ok, trailOk, assertionLevel, clauses, trail, intro)'
  BY <1>1, <1>7 DEF Cover
<1>9. Downward(ok, trailOk, assertionLevel)' /\ Checked(pc, at, trail)'
  BY <1>1, <1>6 DEF Checked
<1> QED BY <1>8, <1>9 DEF AInv

(* A pop keeps every assignment of the levels that stay.                     *)
LEMMA PopStays ==
  ASSUME NEW t, NEW al, Shape(t, al), NEW n \in Nat, NEW R
  PROVE LET u == Unlock(PopTrail(t, n), R)
        IN  OfLevel(t, n) \subseteq 1 .. Len(u) /\ Begins(u, t)
<1> DEFINE p == PopTrail(t, n)
           u == Unlock(p, R)
           S == {i \in DOMAIN t : t[i].ulevel <= n}
<1>1. Keeps(t, u) /\ Len(u) = Len(p) /\ Len(p) \in 1 .. Len(t)
  BY PopKeeps, PopTrailFacts
<1>2. DOMAIN t = 1 .. Len(t) /\ Len(t) \in Nat
  BY DEF Shape
<1>3. 1 \in S
  BY <1>2, EntryFacts DEF Shape
<1>4. S \subseteq 0 .. Len(t)
  BY <1>2
<1>5. MaxOf(S) \in S /\ \A m \in S : m <= MaxOf(S)
  BY <1>2, <1>3, <1>4, MaxIs
<1>6. MaxOf(S) \in 1 .. Len(t) /\ p = SubSeq(t, 1, MaxOf(S))
  BY <1>2, <1>5 DEF PopTrail
<1>7. PICK z : z = MaxOf(S)
  OBVIOUS
<1>8. z \in 1 .. Len(t) /\ p = SubSeq(t, 1, z)
  BY <1>6, <1>7
<1>9. Len(SubSeq(t, 1, z)) = z
  BY <1>8, CutTrail
<1>10. Len(p) = z
  BY <1>8, <1>9
<1> HIDE DEF p, u
<1>11. Len(u) = z /\ Begins(u, t)
  BY <1>1, <1>10 DEF Keeps
<1>12. OfLevel(t, n) \subseteq 1 .. Len(u)
  BY <1>2, <1>5, <1>7, <1>11 DEF OfLevel
<1> QED BY <1>11, <1>12 DEF u, p

(* A user level is closed: what covers the clauses of the levels below it    *)
(* stays.                                                                    *)
LEMMA PopCovers ==
  ASSUME IInv, AInv, Pop
  PROVE AInv'
<1> DEFINE al == assertionLevel
           bl == assertionLevel - 1
           gone == Above(clauses, bl)
<1>1. /\ pc = "idle" /\ al > 0 /\ assertionLevel' = bl
      /\ trail' = Unlock(PopTrail(trail, bl), gone)
      /\ clauses' = Detach(clauses, gone)
      /\ intro' = [x \in Atoms |-> IF intro[x] > bl THEN -1 ELSE intro[x]]
      /\ ok' = trailOk[bl + 1] /\ trailOk' = SubSeq(trailOk, 1, bl)
      /\ inputs' = SubSeq(inputs, 1, bl + 1)
      /\ UNCHANGED <<pc, at>>
  BY DEF Pop
<1>2. /\ al \in Nat /\ Len(inputs) = al + 1 /\ Len(trailOk) = al
      /\ inputs \in Seq(SUBSET SUBSET AtomLits) /\ trailOk \in Seq(BOOLEAN) /\ ok \in BOOLEAN
      /\ intro \in [Atoms -> Int]
      /\ \A k \in 0 .. assertionLevel : \A S \in inputs[k + 1] : S \subseteq AtomLits
  BY InputFacts
<1>3. /\ bl \in Nat /\ bl < al /\ al = bl + 1 /\ Shape(trail, al)
      /\ \A r \in DOMAIN clauses : clauses[r].level \in Nat
  BY <1>1, <1>2, Facts, SoundFacts
<1>4. /\ \A k \in 1 .. bl : trailOk'[k] = trailOk[k]
      /\ \A k \in 1 .. bl + 1 : inputs'[k] = inputs[k]
  BY <1>1, <1>2, <1>3
<1>5. Downward(ok, trailOk, al)
  BY DEF AInv
<1>6. Downward(ok, trailOk, assertionLevel)'
  <2>1. ASSUME trailOk[bl + 1], NEW k \in 1 .. bl PROVE trailOk'[k]
    <3>1. k \in 1 .. al /\ bl + 1 \in 1 .. al /\ k <= bl + 1
      BY <1>3
    <3> QED BY <1>4, <1>5, <2>1, <3>1 DEF Downward
  <2>2. ASSUME NEW k \in 1 .. bl, NEW m \in 1 .. bl, k <= m, trailOk'[m]
        PROVE trailOk'[k]
    <3>1. k \in 1 .. al /\ m \in 1 .. al
      BY <1>3
    <3> QED BY <1>4, <1>5, <2>2, <3>1 DEF Downward
  <2> QED BY <1>1, <2>1, <2>2 DEF Downward
\* What is of a level that stays.
<1>7. ASSUME NEW l, NEW k \in 0 .. bl, Unit(trail, l, k)
      PROVE Unit(trail', l, k)
  <2>1. PICK i \in 1 .. Len(trail) :
          trail[i].lit = l /\ trail[i].level = 0 /\ trail[i].ulevel <= k
    BY <1>7 DEF Unit
  <2>2. trail[i].ulevel \in Nat
    BY <1>3, EntryFacts
  <2>3. i \in OfLevel(trail, bl)
    BY <1>3, <1>7, <2>1, <2>2 DEF OfLevel
  <2>4. OfLevel(trail, bl) \subseteq 1 .. Len(trail') /\ Begins(trail', trail)
    BY <1>1, <1>3, PopStays
  <2>5. /\ i \in 1 .. Len(trail') /\ trail'[i].lit = trail[i].lit
        /\ trail'[i].level = trail[i].level /\ trail'[i].ulevel = trail[i].ulevel
    BY <2>3, <2>4 DEF Begins
  <2> QED BY <2>1, <2>5 DEF Unit
<1>8. ASSUME NEW r \in DOMAIN clauses, clauses[r].level <= bl
      PROVE r \in DOMAIN clauses' /\ clauses'[r] = clauses[r]
  <2>1. r \notin gone
    BY <1>3, <1>8 DEF Above
  <2> HIDE DEF gone
  <2> QED BY <1>1, <2>1 DEF Detach
<1> HIDE DEF gone
<1>9. ASSUME NEW k \in 0 .. bl, NEW T, T \subseteq AtomLits, Covered(T, k, clauses, trail, intro)
      PROVE Covered(T, k, clauses', trail', intro')
  <2>1. CASE \E l \in T : -l \in T /\ intro[Var(l)] \in 0 .. k
    <3>1. PICK l \in T : -l \in T /\ intro[Var(l)] \in 0 .. k
      BY <2>1
    <3>2. Var(l) \in Atoms
      BY <1>9, AtomLitFacts
    <3>3. intro'[Var(l)] = intro[Var(l)]
      <4>1. ~(intro[Var(l)] > bl)
        BY <1>3, <3>1
      <4> QED BY <1>1, <3>2, <4>1
    <3> QED BY <3>1, <3>3 DEF Covered
  <2>2. CASE \E l \in T : Unit(trail, l, k)
    BY <1>7, <2>2 DEF Covered
  <2>3. CASE \E r \in DOMAIN clauses : /\ ~clauses[r].removable /\ clauses[r].level = k
                                       /\ Lits(clauses[r]) \subseteq T
    <3>1. PICK r \in DOMAIN clauses : /\ ~clauses[r].removable /\ clauses[r].level = k
                                      /\ Lits(clauses[r]) \subseteq T
      BY <2>3
    <3>2. r \in DOMAIN clauses' /\ clauses'[r] = clauses[r]
      BY <1>8, <3>1
    <3> QED BY <3>1, <3>2 DEF Covered
  <2> QED BY <1>9, <2>1, <2>2, <2>3 DEF Covered
<1>10. ASSUME NEW k \in 0 .. bl, Verdict(ok', trailOk', bl, k), NEW T \in inputs'[k + 1]
       PROVE Covered(T, k, clauses', trail', intro')
  <2>1. k \in 0 .. al /\ k # al /\ k + 1 \in 1 .. bl + 1
    BY <1>3
  <2>2. Verdict(ok, trailOk, al, k)
    <3>1. CASE k = bl
      BY <1>1, <1>10, <2>1, <3>1 DEF Verdict
    <3>2. CASE k # bl
      <4>1. k + 1 \in 1 .. bl
        BY <1>3, <3>2
      <4> QED BY <1>4, <1>10, <2>1, <3>2, <4>1 DEF Verdict
    <3> QED BY <3>1, <3>2
  <2>3. T \in inputs[k + 1]
    BY <1>4, <1>10, <2>1
  <2>4. Covered(T, k, clauses, trail, intro) /\ T \subseteq AtomLits
    BY <1>2, <2>1, <2>2, <2>3 DEF AInv, Cover
  <2> QED BY <1>9, <2>4
<1>11. Cover(inputs, ok, trailOk, assertionLevel, clauses, trail, intro)'
  BY <1>1, <1>10 DEF Cover
<1>12. Checked(pc, at, trail)'
  BY <1>1 DEF Checked
<1> QED BY <1>6, <1>11, <1>12 DEF AInv

(* A call of solve.                                                          *)
LEMMA SolveCovers ==
  ASSUME IInv, AInv, Solve
  PROVE AInv'
<1>1. /\ UNCHANGED <<clauses, trail, intro, Fixed, ok>> /\ pc = "idle"
      /\ pc' = "propagate" \/ pc' = pc
  BY DEF Solve, Fixed
<1>2. Checked(pc, at, trail)'
  BY <1>1 DEF Checked
<1> QED BY <1>1, <1>2, SameCovers

(* The solver starts with nothing to cover.                                  *)
LEMMA InitCovers ==
  ASSUME Init
  PROVE AInv
<1>1. /\ pc = "idle" /\ assertionLevel = 0 /\ trailOk = <<>> /\ inputs[1] = {}
  BY DEF Init
<1>2. Downward(ok, trailOk, assertionLevel) /\ Checked(pc, at, trail)
  BY <1>1 DEF Downward, Checked
<1>3. ASSUME NEW k \in 0 .. assertionLevel PROVE inputs[k + 1] = {}
  <2>1. k = 0
    BY <1>1
  <2> QED BY <1>1, <2>1
<1> QED BY <1>2, <1>3 DEF AInv, Cover

(* Each call of the user keeps AInv.                                         *)
LEMMA CallCovers ==
  ASSUME IInv, IInv', AInv, Call
  PROVE AInv'
<1>1. CASE \E S \in left.user[assertionLevel] : AddInput(S)
  BY <1>1, AddInputCovers
<1>2. CASE \E S \in Theory : AddTheoryClause(S)
  BY <1>2, AddTheoryClauseCovers
<1>3. CASE Push
  BY <1>3, PushCovers
<1>4. CASE Pop
  BY <1>4, PopCovers
<1>5. CASE Solve
  BY <1>5, SolveCovers
<1> QED BY <1>1, <1>2, <1>3, <1>4, <1>5 DEF Call

(* Each step keeps AInv.                                                     *)
LEMMA StepCovers ==
  ASSUME IInv, IInv', CInv, AInv, Step
  PROVE AInv'
<1>1. CASE ResetTrail BY <1>1, ResetTrailCovers
<1>2. CASE BeginPropagate BY <1>2, BeginPropagateCovers
<1>3. CASE TakeLiteral BY <1>3, TakeLiteralCovers
<1>4. CASE \E r \in DOMAIN clauses : VisitWatcher(r) BY <1>4, VisitWatcherCovers
<1>5. CASE EndOfQueue BY <1>5, EndOfQueueCovers
<1>6. CASE TheoryCheck BY <1>6, TheoryCheckCovers
<1>7. CASE SortLemmas BY <1>7, SortLemmasCovers
<1>8. CASE AttachLemma BY <1>8, AttachLemmaCovers
<1>9. CASE LemmasUpdated BY <1>9, LemmasUpdatedCovers
<1>10. CASE EndAddClause BY <1>10, EndAddClauseCovers
<1>11. CASE ConflictAtTopLevel BY <1>11, ConflictAtTopLevelCovers
<1>12. CASE BeginAnalyze BY <1>12, BeginAnalyzeCovers
<1>13. CASE Explain BY <1>13, ExplainCovers
<1>14. CASE Resolve BY <1>14, ResolveCovers
<1>15. CASE Learn BY <1>15, LearnCovers
<1>16. CASE AfterFinalCheck BY <1>16, AfterFinalCheckCovers
<1>17. CASE WithinBudget BY <1>17, WithinBudgetCovers
<1>18. CASE Restart BY <1>18, RestartCovers
<1>19. CASE Simplify BY <1>19, SimplifyCovers
<1>20. CASE ReduceDB BY <1>20, ReduceDBCovers
<1>21. CASE Decide BY <1>21, DecideCovers
<1>22. CASE ReadRemovedVariable BY <1>22, ReadRemovedVariableCovers
<1> QED BY <1>1, <1>2, <1>3, <1>4, <1>5, <1>6, <1>7, <1>8, <1>9, <1>10, <1>11, <1>12,
           <1>13, <1>14, <1>15, <1>16, <1>17, <1>18, <1>19, <1>20, <1>21, <1>22 DEF Step

(* While a call runs there is no answer.                                     *)
Quiet == pc \notin {"idle", "solved"} => answer = "none" /\ model = {}

LEMMA QuietStays ==
  ASSUME Quiet, Next
  PROVE Quiet'
<1>1. CASE Call
  <2>1. CASE \E S \in left.user[assertionLevel] : AddInput(S)
    BY <2>1 DEF AddInput, Forget, Quiet
  <2>2. CASE \E S \in Theory : AddTheoryClause(S)
    BY <2>2 DEF AddTheoryClause, Forget, Quiet
  <2>3. CASE Push \/ Pop
    BY <2>3 DEF Push, Pop, Forget, Quiet
  <2>4. CASE Solve
    BY <2>4 DEF Solve, Forget, Quiet
  <2> QED BY <1>1, <2>1, <2>2, <2>3, <2>4 DEF Call
<1>2. CASE Step
  <2>1. CASE ResetTrail \/ EndAddClause
    BY <2>1 DEF ResetTrail, EndAddClause, Quiet
  <2>2. CASE ConflictAtTopLevel \/ AfterFinalCheck
    BY <2>2 DEF ConflictAtTopLevel, AfterFinalCheck, Searching, Quiet
  <2>3. CASE Restart
    BY <2>3 DEF Restart, Searching, Quiet
  <2>4. ASSUME UNCHANGED <<answer, model>>, pc \notin {"idle", "solved"}
        PROVE Quiet'
    BY <2>4 DEF Quiet
  <2>5. CASE \/ BeginPropagate \/ TakeLiteral \/ (\E r \in DOMAIN clauses : VisitWatcher(r))
             \/ EndOfQueue \/ LemmasUpdated \/ ReadRemovedVariable
    BY <2>4, <2>5 DEF BeginPropagate, TakeLiteral, VisitWatcher, EndOfQueue, LemmasUpdated,
                      ReadRemovedVariable, Inside
  <2>6. CASE TheoryCheck
    BY <2>4, <2>6 DEF TheoryCheck
  <2>7. CASE SortLemmas \/ AttachLemma
    BY <2>4, <2>7 DEF SortLemmas, AttachLemma, Inside
  <2>8. CASE BeginAnalyze \/ Explain \/ Resolve \/ Learn
    BY <2>4, <2>8 DEF BeginAnalyze, Explain, Resolve, Learn, Inside, Searching
  <2>9. CASE WithinBudget \/ Simplify \/ ReduceDB \/ Decide
    BY <2>4, <2>9 DEF WithinBudget, Simplify, ReduceDB, Decide, Inside, Searching
  <2> QED BY <1>2, <2>1, <2>2, <2>3, <2>5, <2>6, <2>7, <2>8, <2>9 DEF Step
<1> QED BY <1>1, <1>2 DEF Next

(* No clause of the user is lost: on every level that is consistent each of  *)
(* its clauses is a tautology, is true without a decision, or is contained   *)
(* in a clause that stays as long as the level does; whatever simplify and   *)
(* reduceDB remove, and whatever push and pop do (addClause_, removeClause,  *)
(* pop); and a full effort check that asks for no other has shown the theory *)
(* the trail as it is.                                                       *)
THEOREM AnswersAreCovered ==
  ASSUME ~Resumable
  PROVE Spec => [](AInv /\ Quiet)
<1>1. Init => AInv /\ Quiet
  <2>1. ASSUME Init PROVE Quiet
    BY <2>1 DEF Init, Quiet
  <2> QED BY <2>1, InitCovers
<1>2. IInv /\ IInv' /\ CInv /\ AInv /\ Quiet /\ [Next]_vars => AInv' /\ Quiet'
  <2>1. ASSUME IInv, IInv', CInv, AInv, Quiet, Next PROVE AInv' /\ Quiet'
    BY <2>1, CallCovers, StepCovers, QuietStays DEF Next
  <2>2. ASSUME AInv, Quiet, UNCHANGED vars PROVE AInv' /\ Quiet'
    <3>1. AInv'
      BY <2>2 DEF vars, AInv, Downward, Cover, Verdict, Covered, Unit, Checked, FinalCheck
    <3>2. Quiet'
      BY <2>2 DEF vars, Quiet
    <3> QED BY <3>1, <3>2
  <2> QED BY <2>1, <2>2
<1> QED BY <1>1, <1>2, InvariantHolds, PropagationIsComplete, PTL DEF Spec

(* A solver that has nothing left to assign, to propagate or to check.       *)
Concluded ==
  /\ Searching /\ at.conflict = Undef /\ at.check = "final"
  /\ FreeLiterals = {} /\ ~(qhead < Len(trail)) /\ ~at.recheck
(* What solve answers as the model.                                          *)
Answered == {trail[i].lit : i \in DOMAIN trail} \ {VarTrue}

(* A variable of the solver is assigned.                                     *)
LEMMA AllAssigned ==
  ASSUME IInv, Concluded, NEW l \in AtomLits, intro[Var(l)] >= 0
  PROVE IsTrue(trail, l) \/ IsFalse(trail, l)
<1>1. l \in Literals /\ l # VarTrue /\ l # -VarTrue /\ Shape(trail, assertionLevel)
  BY AtomLitFacts, Facts
<1>2. ~IsUndef(trail, l)
  BY <1>1 DEF Concluded, FreeLiterals
<1> QED BY <1>1, <1>2, Undefined

(* The model has what is true, but for the constant.                         *)
LEMMA AnsweredIs ==
  ASSUME IInv, NEW l \in AtomLits
  PROVE l \in Answered <=> IsTrue(trail, l)
<1>1. l # VarTrue
  BY AtomLitFacts
<1> QED BY <1>1 DEF Answered, IsTrue

(* It is a consistent set of literals that falsifies no clause of the        *)
(* theory: theoryCheck has seen it.                                          *)
LEMMA AnsweredIsConsistent ==
  ASSUME IInv, AInv, Concluded
  PROVE /\ Answered \subseteq AtomLits
        /\ \A l \in Answered : -l \notin Answered
        /\ \A L \in Theory : \E l \in L : -l \notin Answered
<1>1. Shape(trail, assertionLevel) /\ Len(trail) \in Nat
  BY Facts
<1>2. DOMAIN trail = 1 .. Len(trail)
  BY <1>1, EntryFacts DEF Shape
<1>3. Answered \subseteq AtomLits
  BY <1>1, <1>2, EntryFacts DEF Answered
<1>4. ASSUME NEW l \in Answered PROVE -l \notin Answered
  <2>1. l \in AtomLits /\ -l \in AtomLits /\ l \in Literals
    BY <1>3, AtomLitFacts
  <2>2. ~(IsTrue(trail, l) /\ IsFalse(trail, l))
    BY <1>1, <2>1, Undefined
  <2> QED BY <2>1, <2>2, AnsweredIs DEF IsFalse
<1>5. ASSUME NEW L \in Theory PROVE \E l \in L : -l \notin Answered
  <2>1. ~Falsified(trail, L)
    BY DEF AInv, Checked, Concluded, Searching, FinalCheck
  <2>2. PICK l \in L : ~IsFalse(trail, l)
    BY <2>1 DEF Falsified
  <2>3. -l \in AtomLits
    BY Constants, AtomLitFacts
  <2> QED BY <2>2, <2>3, AnsweredIs DEF IsFalse
<1> QED BY <1>3, <1>4, <1>5

(* When the search is finished, a clause that is covered is satisfied.       *)
LEMMA CoveredIsTrue ==
  ASSUME IInv, CInv, AInv, Concluded, NEW k \in 0 .. assertionLevel,
         NEW S, S \subseteq AtomLits, Covered(S, k, clauses, trail, intro)
  PROVE S \cap Answered # {}
<1>1. /\ Shape(trail, assertionLevel) /\ Len(trail) \in Nat
      /\ qhead \in 0 .. Len(trail) /\ at.todo = {}
      /\ assertionLevel \in Nat
      /\ \A r \in DOMAIN clauses : Sound(clauses[r], inputs, intro, assertionLevel)
  BY Facts DEF Concluded, Searching
<1>2. SUFFICES \E l \in S : IsTrue(trail, l)
  BY AnsweredIs
<1>3. CASE \E l \in S : -l \in S /\ intro[Var(l)] \in 0 .. k
  <2>1. PICK l \in S : -l \in S /\ intro[Var(l)] \in 0 .. k
    BY <1>3
  <2>2. IsTrue(trail, l) \/ IsFalse(trail, l)
    BY <2>1, AllAssigned
  <2> QED BY <2>1, <2>2 DEF IsFalse
<1>4. CASE \E l \in S : Unit(trail, l, k)
  <2>1. PICK l \in S : Unit(trail, l, k)
    BY <1>4
  <2>2. IsTrue(trail, l)
    BY <1>1, <2>1, Trues DEF Unit
  <2> QED BY <2>2
<1>5. CASE \E r \in DOMAIN clauses : /\ ~clauses[r].removable /\ clauses[r].level = k
                                     /\ Lits(clauses[r]) \subseteq S
  <2>1. PICK r \in DOMAIN clauses : /\ clauses[r].level = k /\ Lits(clauses[r]) \subseteq S
    BY <1>5
  <2>2. ~Falsified(trail, Lits(clauses[r]))
    <3>1. qhead = Len(trail) /\ ~Dirty(pc, at)
      BY <1>1 DEF Concluded, Searching, Dirty
    <3>2. Propagated(pc, at, trail, qhead, clauses, assertionLevel)
      <4>1. at.caller # "addClause" /\ pc \notin {"idle", "solved"}
        BY DEF Concluded, Searching
      <4> QED BY <4>1, Running
    <3>3. ASSUME NEW L \in Theory PROVE \E l \in L : ~IsFalse(trail, l)
      BY <3>3 DEF AInv, Checked, Concluded, Searching, FinalCheck, Falsified
    <3> QED BY <1>1, <3>1, <3>2, <3>3, FalseByTheory
  <2>3. PICK l \in Lits(clauses[r]) : ~IsFalse(trail, l)
    BY <2>2 DEF Falsified
  <2>4. l \in S /\ l \in AtomLits /\ l # -VarTrue
    BY <2>1, <2>3, AtomLitFacts
  <2>5. intro[Var(l)] >= 0
    BY <1>1, <2>1, <2>3, <2>4 DEF Sound
  <2> QED BY <2>3, <2>4, <2>5, AllAssigned
<1> QED BY <1>3, <1>4, <1>5 DEF Covered

(* The clauses on the stack are those of the levels.                         *)
LEMMA CurrentIs ==
  ASSUME IInv, NEW S \in Oracle!Current
  PROVE S \subseteq AtomLits /\ \E k \in 0 .. assertionLevel : S \in inputs[k + 1]
<1>1. /\ assertionLevel \in Nat /\ Len(inputs) = assertionLevel + 1
      /\ \A k \in 0 .. assertionLevel : \A T \in inputs[k + 1] : T \subseteq AtomLits
  BY InputFacts
<1>2. PICK i \in 1 .. Len(inputs) : S \in inputs[i]
  BY <1>1 DEF Oracle!Current, Oracle!UpTo
<1>3. PICK k \in 0 .. assertionLevel : i = k + 1
  <2>1. i - 1 \in 0 .. assertionLevel
    BY <1>1
  <2> QED BY <2>1
<1> QED BY <1>1, <1>2, <1>3

(* A search that is finished has found a model of all that is asserted.      *)
LEMMA AnsweredSatisfies ==
  ASSUME IInv, CInv, AInv, Concluded
  PROVE Oracle!Satisfies(Answered, Oracle!Current)
<1>1. SUFFICES ASSUME NEW S \in Oracle!Current PROVE S \cap Answered # {}
  BY DEF Oracle!Satisfies
<1>2. PICK k \in 0 .. assertionLevel : S \in inputs[k + 1]
  BY CurrentIs
<1>3. S \subseteq AtomLits
  BY CurrentIs
<1>4. Verdict(ok, trailOk, assertionLevel, k)
  <2>1. ok
    BY DEF CInv, Cycle, Concluded, Searching
  <2>2. assertionLevel \in Nat
    BY Facts
  <2>3. k # assertionLevel => k + 1 \in 1 .. assertionLevel
    BY <2>2
  <2> QED BY <2>1, <2>3 DEF AInv, Downward, Verdict
<1>5. Covered(S, k, clauses, trail, intro)
  BY <1>2, <1>4 DEF AInv, Cover
<1> QED BY <1>3, <1>5, CoveredIsTrue

-----------------------------------------------------------------------------
(* The refinement: the answers are those of the abstract solver.             *)

(* Steps inside a call are not seen by the client.                           *)
Hidden == UNCHANGED <<inputs, answer, model>>

(* The calls of the user are those of the abstract solver.                   *)
LEMMA CallIs ==
  ASSUME IInv, IInv', Call
  PROVE Oracle!Next \/ Hidden
<1>1. /\ assertionLevel \in Nat /\ Len(inputs) = assertionLevel + 1
      /\ left.user[assertionLevel] \subseteq SUBSET AtomLits
  <2>1. left \in Setting /\ assertionLevel \in 0 .. MaxLevel
    BY DEF IInv, Base, Stack
  <2>2. left.user \in [0 .. MaxLevel -> SUBSET SUBSET AtomLits]
    BY <2>1 DEF Setting
  <2> QED BY <2>1, <2>2, InputFacts
<1>2. ASSUME NEW S \in left.user[assertionLevel], AddInput(S) PROVE Oracle!Next
  <2>1. S \in Oracle!Clauses
    BY <1>1 DEF Oracle!Clauses, Oracle!Literals, AtomLits
  <2>2. Oracle!Assert(S)
    BY <1>1, <1>2 DEF AddInput, Forget, Oracle!Assert, Oracle!Forget
  <2> QED BY <2>1, <2>2 DEF Oracle!Next
<1>3. ASSUME NEW S \in Theory, AddTheoryClause(S) PROVE Oracle!Next
  <2>1. UNCHANGED inputs /\ Oracle!Forget
    BY <1>3 DEF AddTheoryClause, Forget, Oracle!Forget
  <2> QED BY <2>1 DEF Oracle!Next
<1>4. CASE Push
  <2>1. Oracle!Push
    BY <1>4 DEF Push, Forget, Oracle!Push, Oracle!Forget
  <2> QED BY <2>1 DEF Oracle!Next
<1>5. CASE Pop
  <2>1. assertionLevel > 0 /\ inputs' = SubSeq(inputs, 1, assertionLevel - 1 + 1) /\ Forget
    BY <1>5 DEF Pop
  <2>2. Len(inputs) > 1 /\ assertionLevel - 1 + 1 = Len(inputs) - 1
    BY <1>1, <2>1
  <2>3. Oracle!Pop
    BY <2>1, <2>2 DEF Forget, Oracle!Pop, Oracle!Forget
  <2> QED BY <2>3 DEF Oracle!Next
<1>6. CASE Solve
  <2>1. UNCHANGED inputs
    BY <1>6 DEF Solve
  <2>2. CASE ok
    <3>1. Oracle!Forget
      BY <1>6, <2>2 DEF Solve, Forget, Oracle!Forget
    <3> QED BY <2>1, <3>1 DEF Oracle!Next
  <2>3. CASE ~ok
    <3>1. answer' = "unsat" /\ model' = {}
      BY <1>6, <2>3 DEF Solve
    <3>2. ~Oracle!Satisfiable(Oracle!Current)
      BY <2>3, RefutationHolds DEF RefutationsAreSound
    <3>3. Oracle!Solve
      BY <2>1, <3>1, <3>2 DEF Oracle!Solve
    <3> QED BY <3>3 DEF Oracle!Next
  <2> QED BY <2>2, <2>3
<1> QED BY <1>2, <1>3, <1>4, <1>5, <1>6 DEF Call

(* A search that ends with a conflict at decision level zero.                *)
LEMMA UnsatIs ==
  ASSUME IInv, IInv', ConflictAtTopLevel
  PROVE Oracle!Solve
<1>1. UNCHANGED inputs /\ EndSolve("unsat", {})
  BY DEF ConflictAtTopLevel, Fixed
<1>2. CASE answer' = "unsat" /\ model' = {}
  <2>1. Oracle!Current' = Oracle!Current
    BY <1>1 DEF Oracle!Current, Oracle!UpTo
  <2>2. RefutationsAreSound'
    BY RefutationHolds, PTL
  <2>3. ~Oracle!Satisfiable(Oracle!Current)'
    BY <1>2, <2>2 DEF RefutationsAreSound
  <2>4. ~Oracle!Satisfiable(Oracle!Current)
    BY <2>1, <2>3 DEF Oracle!Satisfiable
  <2> QED BY <1>1, <1>2, <2>4 DEF Oracle!Solve
<1>3. CASE answer' = "unknown" /\ model' = {}
  BY <1>1, <1>3 DEF Oracle!Solve
<1> QED BY <1>1, <1>2, <1>3 DEF EndSolve

(* A search that ends with everything assigned.                              *)
LEMMA SatIs ==
  ASSUME IInv, CInv, AInv, Quiet, AfterFinalCheck, Oracle!TheoryIsComplete
  PROVE Oracle!Next \/ Hidden
<1>1. UNCHANGED inputs
  BY DEF AfterFinalCheck, Fixed
<1>2. CASE FreeLiterals # {} \/ qhead < Len(trail) \/ at.recheck
  BY <1>1, <1>2 DEF AfterFinalCheck, Hidden
<1>3. CASE ~(FreeLiterals # {} \/ qhead < Len(trail) \/ at.recheck)
  <2>1. Concluded
    BY <1>3 DEF Concluded, AfterFinalCheck
  <2>2. EndSolve("sat", Answered)
    BY <1>3 DEF AfterFinalCheck, Answered
  <2>3. Oracle!Satisfies(Answered, Oracle!Current)
    BY <2>1, AnsweredSatisfies
  <2>4. PICK A \in SUBSET Atoms :
          Answered \subseteq Oracle!Total(A) /\ Oracle!Satisfies(Oracle!Total(A), Theory)
    BY <2>1, AnsweredIsConsistent DEF Oracle!TheoryIsComplete, Oracle!Literals, AtomLits
  <2>5. Oracle!Satisfies(Oracle!Total(A), Oracle!Current \cup Theory)
    BY <2>3, <2>4 DEF Oracle!Satisfies
  <2>6. CASE answer' = "sat" /\ model' = Answered
    <3>1. Oracle!Solve
      BY <1>1, <2>3, <2>4, <2>5, <2>6 DEF Oracle!Solve
    <3> QED BY <3>1 DEF Oracle!Next
  <2>7. CASE answer' = "unknown" /\ model' = {}
    <3>1. Oracle!Solve
      BY <1>1, <2>7 DEF Oracle!Solve
    <3> QED BY <3>1 DEF Oracle!Next
  <2> QED BY <2>2, <2>6, <2>7 DEF EndSolve
<1> QED BY <1>2, <1>3

(* A search that gives up.                                                   *)
LEMMA UnknownIs ==
  ASSUME Quiet, Restart
  PROVE Oracle!Next \/ Hidden
<1>1. UNCHANGED <<inputs, model>> /\ model = {}
  BY DEF Restart, Fixed, Searching, Quiet
<1>2. CASE UNCHANGED answer
  BY <1>1, <1>2 DEF Hidden
<1>3. CASE answer' = "unknown"
  <2>1. Oracle!Solve
    BY <1>1, <1>3 DEF Oracle!Solve
  <2> QED BY <2>1 DEF Oracle!Next
<1> QED BY <1>2, <1>3 DEF Restart

(* Every other step is inside the call.                                      *)
LEMMA StepIs ==
  ASSUME IInv, IInv', CInv, AInv, Quiet, Step, Oracle!TheoryIsComplete
  PROVE Oracle!Next \/ Hidden
<1>1. CASE ResetTrail \/ EndAddClause
  BY <1>1 DEF ResetTrail, EndAddClause, Hidden
<1>2. CASE ConflictAtTopLevel
  BY <1>2, UnsatIs DEF Oracle!Next
<1>3. CASE AfterFinalCheck
  BY <1>3, SatIs
<1>4. CASE Restart
  BY <1>4, UnknownIs
<1>5. CASE \/ BeginPropagate \/ TakeLiteral \/ (\E r \in DOMAIN clauses : VisitWatcher(r))
           \/ EndOfQueue \/ LemmasUpdated \/ ReadRemovedVariable
  BY <1>5 DEF BeginPropagate, TakeLiteral, VisitWatcher, EndOfQueue, LemmasUpdated,
              ReadRemovedVariable, Inside, Fixed, Hidden
<1>6. CASE TheoryCheck
  BY <1>6 DEF TheoryCheck, Fixed, Hidden
<1>7. CASE SortLemmas \/ AttachLemma
  BY <1>7 DEF SortLemmas, AttachLemma, Inside, Fixed, Hidden
<1>8. CASE BeginAnalyze \/ Explain \/ Resolve \/ Learn
  BY <1>8 DEF BeginAnalyze, Explain, Resolve, Learn, Inside, Fixed, Hidden
<1>9. CASE WithinBudget \/ Simplify \/ ReduceDB \/ Decide
  BY <1>9 DEF WithinBudget, Simplify, ReduceDB, Decide, Inside, Fixed, Hidden
<1> QED BY <1>1, <1>2, <1>3, <1>4, <1>5, <1>6, <1>7, <1>8, <1>9 DEF Step

(* The property ImplementsOracle that the runs check: seen through the       *)
(* clauses on the stack, the answer and the model, the search of Solver.cc   *)
(* is the abstract incremental solver.  "unsat" is answered only when no     *)
(* assignment satisfies the theory and what is asserted, "sat" only with a   *)
(* model that satisfies every clause asserted on every level and extends to  *)
(* a model of the theory, whatever calls, lemmas, restarts, pushes and pops  *)
(* came before.  The theory must be able to tell an inconsistent assignment  *)
(* by one of its clauses, and no solve follows one whose budget ran out.     *)
THEOREM ImplementsOracleCorrect ==
  ASSUME ~Resumable, Oracle!TheoryIsComplete
  PROVE Spec => ImplementsOracle
<1>1. Init => Oracle!Init
  BY DEF Init, Oracle!Init
<1>2. IInv /\ IInv' /\ CInv /\ AInv /\ Quiet /\ [Next]_vars => [Oracle!Next]_(Oracle!vars)
  <2>1. ASSUME IInv, IInv', CInv, AInv, Quiet, Next PROVE Oracle!Next \/ Hidden
    BY <2>1, CallIs, StepIs DEF Next
  <2>2. ASSUME UNCHANGED vars PROVE Hidden
    BY <2>2 DEF vars, Hidden
  <2> QED BY <2>1, <2>2 DEF Hidden, Oracle!vars
<1> QED BY <1>1, <1>2, InvariantHolds, PropagationIsComplete, AnswersAreCovered, PTL
        DEF Spec, ImplementsOracle, Oracle!Spec

(* What Solver.h says of a model, "a partial assigment that is consistent    *)
(* with respect to the clauseset", holds of every answer "sat" as long as    *)
(* no solve follows one whose budget ran out (the run of MCSatSolverTimeLimit *)
(* shows that it does not hold otherwise).                                   *)
THEOREM SatIsConsistentCorrect ==
  ASSUME ~Resumable, Oracle!TheoryIsComplete
  PROVE Spec => []SatIsConsistent
<1>1. Oracle!Init => SatIsConsistent
  BY DEF Oracle!Init, SatIsConsistent
<1>2. SatIsConsistent /\ [Oracle!Next]_(Oracle!vars) => SatIsConsistent'
  <2>1. ASSUME Oracle!Solve PROVE SatIsConsistent'
    <3>1. inputs' = inputs
      BY <2>1 DEF Oracle!Solve
    <3>2. answer' = "sat" => Oracle!Satisfies(model', Oracle!Current)
      BY <2>1 DEF Oracle!Solve
    <3> QED BY <3>1, <3>2 DEF SatIsConsistent, Oracle!Satisfies, Oracle!Current, Oracle!UpTo
  <2>2. ASSUME Oracle!Forget PROVE SatIsConsistent'
    BY <2>2 DEF Oracle!Forget, SatIsConsistent
  <2>3. ASSUME SatIsConsistent, UNCHANGED <<inputs, answer, model>> PROVE SatIsConsistent'
    BY <2>3 DEF SatIsConsistent, Oracle!Satisfies, Oracle!Current, Oracle!UpTo
  <2>4. ASSUME Oracle!Next PROVE SatIsConsistent'
    BY <2>1, <2>2, <2>4 DEF Oracle!Next, Oracle!Push, Oracle!Pop, Oracle!Assert
  <2> QED BY <2>3, <2>4 DEF Oracle!vars
<1>3. Spec => ImplementsOracle
  BY ImplementsOracleCorrect
<1> QED BY <1>1, <1>2, <1>3, PTL DEF ImplementsOracle, Oracle!Spec
==============================================================================
