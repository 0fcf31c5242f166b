--------------------------- MODULE InstantiateProofs ---------------------------
(***************************************************************************)
(* A tuple that the trie of instantiations holds was sent as a lemma that  *)
(* lasts as long as the tuple does, is about to be, or was left behind by  *)
(* an interruption; and a tuple that the mask of a failure condemns would  *)
(* have brought nothing: for every formula, every terms and rewriting of   *)
(* its instances and every bound on the levels.                            *)
(***************************************************************************)
EXTENDS Instantiate, FiniteSetTheorems, TLAPS

USE TrieAssumption, BodyAssumption

LEMMA LevelFacts ==
  ASSUME level \in Level
  PROVE  level \in Nat /\ Never \in Nat /\ level < Never /\ level \in 0 .. Never
BY DEF Level, Never

(* The last node on the path to a tuple is the tuple.                      *)
LEMMA LeafFacts ==
  ASSUME NEW m \in Tuple
  PROVE  m \in Path(m) /\ m \in Node
<1>1. Prefix(m, Arity) = m /\ Arity \in 0 .. Arity
  BY DEF Tuple, Prefix
<1>2. m \in Node
  BY <1>1 DEF Node, Tuple
<1>3. QED
  BY <1>1, <1>2 DEF Path

(* No other tuple lies on the path.                                        *)
LEMMA TupleOnPath ==
  ASSUME NEW m \in Tuple, NEW k \in Tuple, k \in Path(m)
  PROVE  k = m
<1>1. PICK i \in 0 .. Arity : k = Prefix(m, i)
  BY DEF Path
<1>2. DOMAIN k = 1 .. Arity /\ DOMAIN k = 1 .. i
  BY <1>1 DEF Tuple, Prefix
<1>3. i < Arity => Arity \in 1 .. Arity /\ ~ (Arity \in 1 .. i)
  OBVIOUS
<1>4. i = Arity
  BY <1>2, <1>3
<1>5. QED
  BY <1>1, <1>4 DEF Tuple, Prefix

-------------------------------------------------------------------------------
(* The types that the argument needs; flags and lemmas of popped levels    *)
(* are gone; and the buffer is empty between two rounds, but for lemmas    *)
(* that an interruption left there.                                        *)
Types ==
  /\ level \in Level
  /\ validFrom \in [Node -> 0 .. Never]
  /\ sentFrom \in [Lemma -> 0 .. Never]
  /\ pending \in SUBSET Lemma
  /\ phase \in {"idle", "searching", "round"}

FlagsAreOpen == \A n \in Node : validFrom[n] <= level \/ validFrom[n] = Never

BufferIsOfTheRound == phase # "round" => pending \subseteq left

(* A tuple is kept by its lemma: it was sent at no deeper level than the   *)
(* one at which the tuple was recorded; or the tuple was recorded at this  *)
(* level and in this round, and the lemma waits.                           *)
Kept(m) ==
  \/ sentFrom[BodyOf[m]] <= validFrom[m]
  \/ BodyOf[m] \in left
  \/ phase = "round" /\ BodyOf[m] \in pending /\ validFrom[m] = level

TuplesAreKept == \A m \in Tuple : validFrom[m] <= level => Kept(m)

IInv == Types /\ FlagsAreOpen /\ BufferIsOfTheRound /\ TuplesAreKept

LEMMA KeptImplies == IInv => LostOnlyByInterruption
<1> SUFFICES ASSUME IInv, NEW m \in Tuple, ExistsInstMatch(m)
             PROVE  \/ Sent(BodyOf[m]) \/ BodyOf[m] \in pending
                    \/ BodyOf[m] \in left
  BY DEF LostOnlyByInterruption
<1>1. validFrom[m] <= level
  BY LeafFacts DEF ExistsInstMatch, Valid
<1>2. Kept(m)
  BY <1>1 DEF IInv, TuplesAreKept
<1>3. /\ level \in Nat /\ validFrom[m] \in Nat /\ sentFrom[BodyOf[m]] \in Nat
  BY LeafFacts, LevelFacts DEF IInv, Types
<1>4. QED
  BY <1>1, <1>2, <1>3 DEF Kept, Sent

LEMMA InitIInv == InstInit => IInv
<1> SUFFICES ASSUME InstInit PROVE IInv
  OBVIOUS
<1>1. level \in Level /\ level < Never /\ Never \in Nat /\ 0 \in 0 .. Never
      /\ Never \in 0 .. Never
  BY DEF InstInit, Init, Level, Never
<1>2. Types
  BY <1>1 DEF InstInit, Init, Types
<1>3. FlagsAreOpen /\ BufferIsOfTheRound
  BY DEF InstInit, Init, FlagsAreOpen, BufferIsOfTheRound
<1>4. TuplesAreKept
  BY <1>1, LeafFacts DEF InstInit, Init, TuplesAreKept
<1>5. QED
  BY <1>2, <1>3, <1>4 DEF IInv

-------------------------------------------------------------------------------
(* What doPendingLemmas() does to the cache of sent lemmas: what waits is  *)
(* sent now, and nothing is ever sent later than before.                   *)
LEMMA DoPendingFacts ==
  ASSUME Types, DoPending
  PROVE  /\ sentFrom' \in [Lemma -> 0 .. Never]
         /\ pending' = {}
         /\ \A l \in Lemma : sentFrom'[l] <= sentFrom[l]
         /\ \A l \in pending : sentFrom'[l] <= level
<1>1. /\ level \in Nat /\ level \in 0 .. Never
      /\ \A l \in Lemma : sentFrom[l] \in Nat
  BY LevelFacts DEF Types
<1>2. \A l \in Lemma :
        sentFrom'[l] = IF l \in pending /\ ~ (sentFrom[l] <= level)
                         THEN level ELSE sentFrom[l]
  BY DEF DoPending, Sent
<1>3. sentFrom' \in [Lemma -> 0 .. Never]
  BY <1>1 DEF DoPending, Types
<1>4. QED
  BY <1>1, <1>2, <1>3 DEF DoPending, Types

(* A step that empties the buffer and leaves the trie alone keeps every    *)
(* tuple.                                                                  *)
LEMMA FlushKeeps ==
  ASSUME IInv, DoPending, UNCHANGED <<trieVars, left>>,
         phase' \in {"idle", "searching", "round"}
  PROVE  IInv'
<1> USE DEF IInv, trieVars
<1>1. Types'
  BY DoPendingFacts DEF Types
<1>2. FlagsAreOpen' /\ BufferIsOfTheRound'
  BY DoPendingFacts DEF FlagsAreOpen, BufferIsOfTheRound, Never
<1>3. TuplesAreKept'
  <2> SUFFICES ASSUME NEW m \in Tuple, validFrom'[m] <= level'
               PROVE  Kept(m)'
    BY DEF TuplesAreKept, Kept
  <2>1. Kept(m) /\ BodyOf[m] \in Lemma
    BY DEF TuplesAreKept
  <2>2. /\ validFrom[m] \in Nat /\ level \in Nat
        /\ sentFrom[BodyOf[m]] \in Nat /\ sentFrom'[BodyOf[m]] \in Nat
    BY <1>1, <2>1, LeafFacts, LevelFacts DEF Types
  <2>3. sentFrom'[BodyOf[m]] <= sentFrom[BodyOf[m]]
    BY <2>1, DoPendingFacts
  <2>4. BodyOf[m] \in pending => sentFrom'[BodyOf[m]] <= level
    BY DoPendingFacts
  <2>5. QED
    BY <2>1, <2>2, <2>3, <2>4 DEF Kept
<1>4. QED
  BY <1>1, <1>2, <1>3

(* A pop takes away the tuples recorded in its scope; the lemma of any     *)
(* other was sent no deeper and stays.                                     *)
LEMMA PopKeeps ==
  ASSUME IInv, InstPop
  PROVE  IInv'
<1> USE DEF IInv
<1>1. /\ phase = "idle" /\ phase' = phase /\ pending' = pending /\ left' = left
      /\ level' = level - 1 /\ level > 0 /\ level' \in Level
      /\ level \in Nat /\ Never \in Nat /\ level < Never
  BY LevelFacts DEF InstPop, Pop, Types, Level
<1>2. \A n \in Node : /\ validFrom[n] \in Nat
                      /\ validFrom'[n] = IF validFrom[n] < level THEN validFrom[n]
                                         ELSE Never
  BY DEF InstPop, Pop, Restored, Types
<1>3. \A l \in Lemma : /\ sentFrom[l] \in Nat
                       /\ sentFrom'[l] = IF sentFrom[l] < level THEN sentFrom[l]
                                         ELSE Never
  BY DEF InstPop, Types
<1>4. Types'
  <2>1. validFrom' \in [Node -> 0 .. Never]
    BY <1>1 DEF InstPop, Pop, Restored, Types
  <2>2. sentFrom' \in [Lemma -> 0 .. Never]
    BY <1>1 DEF InstPop, Types
  <2>3. QED
    BY <1>1, <2>1, <2>2 DEF Types
<1>5. FlagsAreOpen'
  <2> SUFFICES ASSUME NEW n \in Node
               PROVE  validFrom'[n] <= level' \/ validFrom'[n] = Never
    BY DEF FlagsAreOpen, Never
  <2>1. QED
    BY <1>1, <1>2
<1>6. BufferIsOfTheRound'
  BY <1>1 DEF BufferIsOfTheRound
<1>7. TuplesAreKept'
  <2> SUFFICES ASSUME NEW m \in Tuple, validFrom'[m] <= level'
               PROVE  Kept(m)'
    BY DEF TuplesAreKept, Kept
  <2>1. m \in Node /\ BodyOf[m] \in Lemma
    BY LeafFacts
  <2>2. validFrom[m] < level /\ validFrom'[m] = validFrom[m]
    BY <1>1, <1>2, <2>1
  <2>3. Kept(m) /\ phase # "round"
    BY <1>1, <1>2, <2>1, <2>2 DEF TuplesAreKept
  <2>4. CASE BodyOf[m] \in left
    BY <1>1, <2>4 DEF Kept
  <2>5. CASE sentFrom[BodyOf[m]] <= validFrom[m]
    <3>1. sentFrom'[BodyOf[m]] <= validFrom'[m]
      BY <1>1, <1>2, <1>3, <2>1, <2>2, <2>5
    <3>2. QED
      BY <3>1 DEF Kept
  <2>6. QED
    BY <2>3, <2>4, <2>5 DEF Kept
<1>8. QED
  BY <1>4, <1>5, <1>6, <1>7

LEMMA PushKeeps ==
  ASSUME IInv, InstPush
  PROVE  IInv'
<1> USE DEF IInv
<1>1. /\ UNCHANGED <<phase, pending, sentFrom, left, validFrom>>
      /\ phase = "idle"
      /\ level' = level + 1 /\ level' \in Level
      /\ level \in Nat /\ Never \in Nat /\ level < MaxLevel /\ Never = MaxLevel + 1
  BY LevelFacts DEF InstPush, Push, Types, Level, Never, roundVars
<1>2. Types' /\ BufferIsOfTheRound'
  BY <1>1 DEF Types, BufferIsOfTheRound
<1>3. \A n \in Node : validFrom[n] \in Nat
  BY DEF Types
<1>4. FlagsAreOpen'
  <2> SUFFICES ASSUME NEW n \in Node
               PROVE  validFrom'[n] <= level' \/ validFrom'[n] = Never
    BY DEF FlagsAreOpen, Never
  <2>1. QED
    BY <1>1, <1>3 DEF FlagsAreOpen
<1>5. TuplesAreKept'
  <2> SUFFICES ASSUME NEW m \in Tuple, validFrom'[m] <= level'
               PROVE  Kept(m)'
    BY DEF TuplesAreKept, Kept
  <2>1. validFrom[m] <= level
    BY <1>1, <1>3, LeafFacts DEF FlagsAreOpen
  <2>2. Kept(m)
    BY <2>1 DEF TuplesAreKept
  <2>3. QED
    BY <1>1, <2>2 DEF Kept
<1>6. QED
  BY <1>2, <1>4, <1>5

(* A tuple is recorded either with its lemma in the buffer or after it was *)
(* sent; the tuples already there are not recorded again.                  *)
LEMMA AddKeeps ==
  ASSUME IInv, NEW m \in Tuple, AddInstantiation(m)
  PROVE  IInv'
<1> USE DEF IInv
<1>1. /\ phase = "round" /\ phase' = "round"
      /\ sentFrom' = sentFrom /\ left' = left /\ level' = level
      /\ level \in Nat /\ level \in 0 .. Never
      /\ \A l \in Lemma : sentFrom[l] \in Nat
  BY LevelFacts DEF AddInstantiation, AddInstMatch, trieVars, Types
<1>2. \A n \in Node : validFrom[n] \in Nat
  BY DEF Types
<1>3. /\ validFrom' \in [Node -> 0 .. Never]
      /\ \A n \in Node : \/ validFrom'[n] = validFrom[n]
                         \/ /\ n \in Path(m) /\ ~ Valid(n) /\ ~ Refused(m)
                            /\ validFrom'[n] = level
  BY <1>1 DEF AddInstantiation, AddInstMatch, SetValid, trieVars, Types
<1>4. pending \subseteq pending' /\ pending' \subseteq Lemma
  BY DEF AddInstantiation, Types
<1>5. Types'
  BY <1>1, <1>3, <1>4 DEF Types
<1>6. FlagsAreOpen' /\ BufferIsOfTheRound'
  BY <1>1, <1>2, <1>3 DEF FlagsAreOpen, BufferIsOfTheRound, Never
<1>7. TuplesAreKept'
  <2> SUFFICES ASSUME NEW k \in Tuple, validFrom'[k] <= level'
               PROVE  Kept(k)'
    BY DEF TuplesAreKept, Kept
  <2>1. k \in Node /\ k \in Path(k) /\ BodyOf[k] \in Lemma
    BY LeafFacts
  <2>2. CASE validFrom'[k] = validFrom[k]
    <3>1. Kept(k)
      BY <1>1, <2>2 DEF TuplesAreKept
    <3>2. QED
      BY <1>1, <1>4, <2>2, <3>1 DEF Kept
  <2>3. CASE /\ k \in Path(m) /\ ~ Valid(k) /\ ~ Refused(m)
             /\ validFrom'[k] = level
    <3>1. k = m
      BY <2>3, TupleOnPath
    <3>2. ~ ExistsInstMatch(m) /\ ~ Refused(m)
      BY <2>1, <2>3, <3>1 DEF ExistsInstMatch
    <3>3. sentFrom[BodyOf[m]] <= level \/ BodyOf[m] \in pending'
      BY <3>2 DEF AddInstantiation, AddSucceeds, Sent
    <3>4. QED
      BY <1>1, <2>3, <3>1, <3>3 DEF Kept
  <2>4. QED
    BY <1>3, <2>1, <2>2, <2>3
<1>8. QED
  BY <1>5, <1>6, <1>7

LEMMA InterruptKeeps ==
  ASSUME IInv, Interrupt
  PROVE  IInv'
<1> USE DEF IInv
<1>1. /\ UNCHANGED <<level, validFrom, pending, sentFrom>>
      /\ left' = left \cup pending
      /\ phase' \in {"idle", "searching", "round"}
  BY DEF Interrupt, trieVars
<1>2. Types' /\ FlagsAreOpen' /\ BufferIsOfTheRound'
  BY <1>1 DEF Types, FlagsAreOpen, BufferIsOfTheRound, Never
<1>3. TuplesAreKept'
  BY <1>1 DEF TuplesAreKept, Kept
<1>4. QED
  BY <1>2, <1>3

LEMMA NextKeeps == IInv /\ [InstNext]_instVars => IInv'
<1> SUFFICES ASSUME IInv, [InstNext]_instVars PROVE IInv'
  OBVIOUS
<1>1. CASE InstPush
  BY <1>1, PushKeeps
<1>2. CASE InstPop
  BY <1>2, PopKeeps
<1>3. CASE CheckSat
  <2>1. /\ UNCHANGED <<level, validFrom, sentFrom, left>>
        /\ pending' = {} /\ phase = "idle" /\ phase' = "searching"
    BY <1>3 DEF CheckSat, trieVars
  <2>2. Types' /\ FlagsAreOpen' /\ BufferIsOfTheRound'
    BY <2>1 DEF IInv, Types, FlagsAreOpen, BufferIsOfTheRound, Never
  <2>3. TuplesAreKept'
    BY <2>1 DEF IInv, TuplesAreKept, Kept
  <2>4. QED
    BY <2>2, <2>3 DEF IInv
<1>4. CASE EndSearch
  <2>1. /\ UNCHANGED <<level, validFrom, pending, sentFrom, left>>
        /\ phase = "searching" /\ phase' = "idle"
    BY <1>4 DEF EndSearch, trieVars
  <2>2. Types' /\ FlagsAreOpen' /\ BufferIsOfTheRound'
    BY <2>1 DEF IInv, Types, FlagsAreOpen, BufferIsOfTheRound, Never
  <2>3. TuplesAreKept'
    BY <2>1 DEF IInv, TuplesAreKept, Kept
  <2>4. QED
    BY <2>2, <2>3 DEF IInv
<1>5. CASE PreRegisterQuantifier \/ FlushPrevious
  BY <1>5, FlushKeeps DEF PreRegisterQuantifier, FlushPrevious, IInv, Types
<1>6. CASE StartRound
  BY <1>6, FlushKeeps DEF StartRound
<1>7. CASE EndRound
  BY <1>7, FlushKeeps DEF EndRound
<1>8. CASE Interrupt
  BY <1>8, InterruptKeeps
<1>9. ASSUME NEW m \in Tuple, AddInstantiation(m) PROVE IInv'
  BY <1>9, AddKeeps
<1>10. CASE UNCHANGED instVars
  BY <1>10 DEF instVars, IInv, Types, FlagsAreOpen, BufferIsOfTheRound,
               TuplesAreKept, Kept, Never
<1>11. QED
  BY <1>1, <1>2, <1>3, <1>4, <1>5, <1>6, <1>7, <1>8, <1>9, <1>10 DEF InstNext

(* In every reachable state each recorded tuple is kept by its lemma.      *)
THEOREM InvariantCorrect == InstSpec => []IInv
BY InitIInv, NextKeeps, PTL DEF InstSpec

(* The lemma of a recorded tuple was sent, waits, or was left behind by an *)
(* interruption.                                                           *)
THEOREM LostOnlyByInterruptionCorrect == InstSpec => []LostOnlyByInterruption
BY InvariantCorrect, KeptImplies, PTL

-------------------------------------------------------------------------------
(* The masks of a failure.  The loop of addInstantiationExpFail is a       *)
(* recursive function; that there is one, and what it keeps to, are        *)
(* inductions, by the least number that fails.                             *)

(* A set of natural numbers has a least element: finite sets are well      *)
(* founded.                                                                *)
LEMMA Least ==
  ASSUME NEW T, T \subseteq Nat, T # {}
  PROVE  \E m \in T : \A n \in T : m <= n
<1> DEFINE B == {1 .. n : n \in T}
           R == StrictSubsetOrdering(Nat)
<1>1. IsWellFoundedOn(R, FiniteSubsetsOf(Nat))
  BY FS_StrictSubsetOrderingWellFounded
<1>2. B \subseteq FiniteSubsetsOf(Nat)
  BY FS_Interval DEF FiniteSubsetsOf
<1>3. B # {}
  OBVIOUS
<1> HIDE DEF R
<1>4. PICK x \in B : \A y \in B : ~ (<<y, x>> \in R)
  BY <1>1, <1>2, <1>3, WFMin
<1>5. PICK m \in T : x = 1 .. m
  OBVIOUS
<1>6. ASSUME NEW n \in T, ~ (m <= n) PROVE FALSE
  <2>1. 1 .. n \in B
    OBVIOUS
  <2>2. <<1 .. n, x>> \in R
    BY <1>5, <1>6 DEF R, StrictSubsetOrdering
  <2>3. QED
    BY <1>4, <2>1, <2>2
<1>7. QED
  BY <1>6

(* One round of the loop, from the positions that are kept so far.         *)
Reverted(m, n, s) ==
  LET rest == s \ {Arity + 1 - n}
  IN IF rest # {} /\ StillFails(m, rest) THEN rest ELSE s

Round(m, f, n) == IF n = 0 THEN Position ELSE Reverted(m, n, f[n - 1])
Rounds(m, f, k) == f = [n \in 0 .. k |-> Round(m, f, n)]

(* A function for some rounds extends to one round more,                   *)
LEMMA RoundsExtend ==
  ASSUME NEW m, NEW k \in Nat, k # 0, NEW f, Rounds(m, f, k - 1)
  PROVE  \E g : Rounds(m, g, k)
<1>1. PICK g : g = [n \in 0 .. k |-> IF n = k THEN Round(m, f, k) ELSE f[n]]
  OBVIOUS
<1>2. ASSUME NEW n \in 0 .. k PROVE g[n] = Round(m, g, n)
  <2>1. n # 0 => n - 1 \in 0 .. k /\ n - 1 # k
    OBVIOUS
  <2>2. n # 0 => g[n - 1] = f[n - 1]
    BY <1>1, <2>1
  <2>3. Round(m, g, n) = Round(m, f, n)
    BY <2>2 DEF Round
  <2>4. CASE n = k
    BY <1>1, <2>3, <2>4
  <2>5. CASE n # k
    <3>1. n \in 0 .. k - 1
      BY <2>5
    <3>2. f[n] = Round(m, f, n)
      <4>1. PICK h : h = [i \in 0 .. k - 1 |-> Round(m, f, i)]
        OBVIOUS
      <4>2. h[n] = Round(m, f, n)
        BY <3>1, <4>1, Zenon
      <4>3. f = h
        BY <4>1, Zenon DEF Rounds
      <4>4. QED
        BY <4>2, <4>3, Zenon
    <3>3. QED
      BY <1>1, <2>3, <2>5, <3>2
  <2>6. QED
    BY <2>4, <2>5
<1>3. [n \in 0 .. k |-> g[n]] = [n \in 0 .. k |-> Round(m, g, n)]
  BY <1>2, Zenon
<1>4. g = [n \in 0 .. k |-> g[n]]
  BY <1>1
<1>5. g = [n \in 0 .. k |-> Round(m, g, n)]
  BY <1>3, <1>4, Zenon
<1>6. QED
  BY <1>5, Zenon DEF Rounds

(* so there is one for any number of rounds.                               *)
LEMMA RoundsExist ==
  ASSUME NEW m, NEW k \in Nat
  PROVE  \E f : Rounds(m, f, k)
<1> DEFINE T == {n \in Nat : ~ \E f : Rounds(m, f, n)}
<1>1. SUFFICES ASSUME T # {} PROVE FALSE
  BY Zenon
<1>2. T \subseteq Nat
  OBVIOUS
<1>3. PICK n \in T : \A i \in T : n <= i
  BY <1>1, <1>2, Least
<1>4. n \in Nat /\ ~ \E f : Rounds(m, f, n)
  OBVIOUS
<1>5. n # 0
  <2>1. SUFFICES ASSUME n = 0 PROVE FALSE
    OBVIOUS
  <2>2. PICK f : f = [i \in 0 .. 0 |-> Position]
    OBVIOUS
  <2>3. [i \in 0 .. 0 |-> Position] = [i \in 0 .. 0 |-> Round(m, f, i)]
    BY DEF Round
  <2>4. Rounds(m, f, 0)
    BY <2>2, <2>3, Zenon DEF Rounds
  <2>5. QED
    BY <1>4, <2>1, <2>4
<1>6. n - 1 \in Nat /\ ~ (n <= n - 1)
  BY <1>4, <1>5
<1>7. n - 1 \notin T
  BY <1>3, <1>6
<1>8. PICK f : Rounds(m, f, n - 1)
  BY <1>6, <1>7
<1>9. QED
  BY <1>4, <1>5, <1>8, RoundsExtend

(* All positions are critical, or the critical ones explain the failure.   *)
Explained(m, s) == s = Position \/ (s \subseteq Position /\ StillFails(m, s))

(* What the loop leaves explains the failure.                              *)
LEMMA MaskExplains ==
  ASSUME NEW m
  PROVE  Explained(m, FailMask(m))
<1> DEFINE kept == CHOOSE f : f = [n \in 0 .. Arity |-> Round(m, f, n)]
<1>1. FailMask(m) = kept[Arity]
  BY DEF FailMask, Round, Reverted
<1>2. PICK f : f = [n \in 0 .. Arity |-> Round(m, f, n)]
  <2>1. PICK f : Rounds(m, f, Arity)
    BY RoundsExist
  <2>2. QED
    BY <2>1, Zenon DEF Rounds
<1>3. kept = [n \in 0 .. Arity |-> Round(m, kept, n)]
  BY <1>2, Zenon
<1> HIDE DEF kept
<1>4. ASSUME NEW n \in 0 .. Arity PROVE kept[n] = Round(m, kept, n)
  BY <1>3, Zenon
<1> DEFINE T == {n \in 0 .. Arity : ~ Explained(m, kept[n])}
<1>5. SUFFICES ASSUME T # {} PROVE FALSE
  <2>1. Arity \in 0 .. Arity
    OBVIOUS
  <2>2. QED
    BY <1>1, <2>1, Zenon
<1>6. T \subseteq Nat
  OBVIOUS
<1>7. PICK n \in T : \A i \in T : n <= i
  BY <1>5, <1>6, Least
<1>8. n \in 0 .. Arity /\ ~ Explained(m, kept[n])
  OBVIOUS
<1>9. n # 0
  <2>1. SUFFICES ASSUME n = 0 PROVE FALSE
    OBVIOUS
  <2>2. kept[n] = Position
    BY <1>4, <1>8, <2>1 DEF Round
  <2>3. QED
    BY <1>8, <2>2 DEF Explained
<1>10. n - 1 \in 0 .. Arity /\ ~ (n <= n - 1)
  BY <1>8, <1>9
<1>11. Explained(m, kept[n - 1])
  BY <1>7, <1>10
<1>12. kept[n] = Reverted(m, n, kept[n - 1])
  BY <1>4, <1>8, <1>9 DEF Round
<1>13. Explained(m, Reverted(m, n, kept[n - 1]))
  BY <1>11 DEF Explained, Reverted
<1>14. QED
  BY <1>8, <1>12, <1>13

-------------------------------------------------------------------------------
(* An explanation of a failure carries over to the tuples that agree with  *)
(* it at the critical positions.                                           *)
LEMMA ExplanationCarriesOver ==
  ASSUME NEW m \in Tuple, NEW k \in Tuple, NEW s, Explained(m, s),
         \A i \in s : k[i] = m[i],
         BringsNothing(m)
  PROVE  BringsNothing(k)
<1>1. CASE s = Position
  <2>1. k = m
    BY <1>1 DEF Tuple, Position
  <2>2. QED
    BY <2>1
<1>2. CASE s \subseteq Position /\ StillFails(m, s)
  <2>1. /\ Restricted(m, s) \in Substitution
        /\ Extends(k, Restricted(m, s))
    BY <1>2 DEF Restricted, Extends, Substitution, Position, Tuple
  <2>2. CASE IsEntailed(Restricted(m, s))
    <3>1. PICK q \in entailed : Extends(Restricted(m, s), q)
      BY <2>2 DEF IsEntailed
    <3>2. Extends(k, q)
      BY <2>1, <3>1 DEF Extends, Restricted
    <3>3. QED
      BY <3>2 DEF IsEntailed, BringsNothing
  <2>3. CASE BodyOf[Restricted(m, s)] = BodyOf[m]
    <3>1. BodyOf[k] = BodyOf[m]
      BY <2>1, <2>3, RewritingAssumption
    <3>2. QED
      BY <3>1 DEF BringsNothing
  <2>4. QED
    BY <1>2, <2>2, <2>3 DEF StillFails
<1>3. QED
  BY <1>1, <1>2 DEF Explained

(* A failure is one of the round that runs, and its mask explains it.      *)
FailuresAreExplained ==
  /\ phase # "round" => failure = {}
  /\ \A f \in failure :
       /\ f[1] \in Tuple /\ Explained(f[1], f[2])
       /\ (\A i \in Position : f[1][i] \notin Ineligible) => BringsNothing(f[1])

(* Then the masks are sound.                                               *)
LEMMA FailuresImply == FailuresAreExplained => MasksAreSound
<1> SUFFICES ASSUME FailuresAreExplained, NEW f \in failure, NEW m \in Tuple,
                    \A i \in Position : f[1][i] \notin Ineligible
                                        /\ (i \in f[2] => m[i] = f[1][i])
             PROVE  BringsNothing(m)
  BY DEF MasksAreSound
<1>1. /\ f[1] \in Tuple /\ Explained(f[1], f[2]) /\ BringsNothing(f[1])
  BY DEF FailuresAreExplained
<1>2. f[2] \subseteq Position
  BY <1>1 DEF Explained
<1>3. QED
  BY <1>1, <1>2, ExplanationCarriesOver

(* A tuple whose addition fails brings nothing, unless one of its terms is *)
(* not eligible; here the caches have to agree.                            *)
LEMMA FailureBringsNothing ==
  ASSUME IInv, NEW m \in Tuple, ~ AddSucceeds(m),
         \A i \in Position : m[i] \notin Ineligible
  PROVE  BringsNothing(m)
<1>1. LostOnlyByInterruption
  BY KeptImplies
<1>2. IsEntailed(m) \/ ExistsInstMatch(m) \/ Sent(BodyOf[m])
  BY DEF AddSucceeds, Refused
<1>3. QED
  BY <1>1, <1>2 DEF LostOnlyByInterruption, BringsNothing

(* A failed addition leaves such a failure.                                *)
LEMMA AddExplains ==
  ASSUME IInv, FailuresAreExplained, NEW m \in Tuple, AddInstantiation(m)
  PROVE  FailuresAreExplained'
<1>1. /\ phase = "round" /\ phase' = "round"
      /\ UNCHANGED <<level, entailed, sentFrom, left>>
  BY DEF AddInstantiation, AddInstMatch, trieVars
<1>2. CASE AddSucceeds(m)
  BY <1>1, <1>2 DEF AddInstantiation, FailuresAreExplained
<1>3. CASE ~ AddSucceeds(m)
  <2>1. failure' = {<<m, FailMask(m)>>} /\ pending' = pending
    BY <1>3 DEF AddInstantiation
  <2>2. BringsNothing(m)' <=> BringsNothing(m)
    BY <1>1, <2>1 DEF BringsNothing, Sent, IsEntailed
  <2>3. PICK s : s = FailMask(m)
    OBVIOUS
  <2>4. Explained(m, s)
    BY <2>3, MaskExplains
  <2>5. Explained(m, s)'
    BY <1>1, <2>4 DEF Explained, StillFails, IsEntailed
  <2>6. (\A i \in Position : m[i] \notin Ineligible) => BringsNothing(m)'
    BY <1>3, <2>2, FailureBringsNothing
  <2>7. failure' = {<<m, s>>}
    BY <2>1, <2>3
  <2>8. QED
    BY <1>1, <2>5, <2>6, <2>7 DEF FailuresAreExplained
<1>4. QED
  BY <1>2, <1>3

(* No other step makes a failure, and what one says lasts for the round.   *)
LEMMA NextExplains ==
  IInv /\ FailuresAreExplained /\ [InstNext]_instVars => FailuresAreExplained'
<1> SUFFICES ASSUME IInv, FailuresAreExplained, [InstNext]_instVars
             PROVE  FailuresAreExplained'
  OBVIOUS
<1>1. ASSUME failure' = {} PROVE FailuresAreExplained'
  BY <1>1 DEF FailuresAreExplained
<1>2. ASSUME phase # "round", failure' = failure PROVE FailuresAreExplained'
  BY <1>1, <1>2 DEF FailuresAreExplained
<1>3. CASE InstPush \/ InstPop
  BY <1>2, <1>3 DEF InstPush, InstPop, roundVars
<1>4. CASE CheckSat \/ EndSearch \/ PreRegisterQuantifier \/ FlushPrevious
  BY <1>2, <1>4 DEF CheckSat, EndSearch, PreRegisterQuantifier, FlushPrevious
<1>5. CASE StartRound \/ EndRound \/ Interrupt
  BY <1>1, <1>5 DEF StartRound, EndRound, Interrupt
<1>6. ASSUME NEW m \in Tuple, AddInstantiation(m) PROVE FailuresAreExplained'
  BY <1>6, AddExplains
<1>7. CASE UNCHANGED instVars
  BY <1>7 DEF instVars, FailuresAreExplained, Explained, StillFails, IsEntailed,
              BringsNothing, Sent
<1>8. QED
  BY <1>3, <1>4, <1>5, <1>6, <1>7 DEF InstNext

(* A mask condemns no tuple that could bring something: whatever agrees    *)
(* with a failed tuple where its mask is set has its instance sent,        *)
(* waiting, left behind by an interruption, or entailed.                   *)
THEOREM MasksAreSoundCorrect == InstSpec => []MasksAreSound
<1>1. InstInit => FailuresAreExplained
  BY DEF InstInit, FailuresAreExplained
<1>2. QED
  BY <1>1, NextExplains, FailuresImply, InvariantCorrect, PTL DEF InstSpec
===============================================================================
