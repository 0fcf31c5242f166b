-------------------------- MODULE ContextHeapProofs ---------------------------
(***************************************************************************)
(* The linked lists of src/context never lead into released memory, are    *)
(* well formed at every moment, also while a pop runs, and implement the   *)
(* versions of ContextScopes: for every set of objects and values and      *)
(* every bound on the levels and on the saved copies.                      *)
(***************************************************************************)
EXTENDS MCContextScopes, Sequences, FiniteSetTheorems, TLAPS

HeapObj == Obj \cup {Third}

USE DEF HeapObj

LEMMA HeapAssumption ==
  /\ MaxHeapLevel \in Nat /\ MaxCells \in Nat
  /\ IsFiniteSet(HeapObj) /\ HeapObj \cap (0 .. MaxHeapLevel + MaxCells) = {}
  /\ Null \notin HeapObj /\ Null \notin 0 .. MaxHeapLevel + MaxCells
  /\ Default \in Val /\ Absent \notin Val
BY HeapBounds, DefaultAssumption, AbsentAssumption

(* A set of natural numbers has a least one: induction, as the provers can   *)
(* use it.                                                                   *)
LEMMA Least ==
  ASSUME NEW T, T \subseteq Nat, T # {}
  PROVE \E m \in T : \A n \in T : m <= n
<1> DEFINE B == {1 .. n : n \in T}
           R == StrictSubsetOrdering(Nat)
<1>1. IsWellFoundedOn(R, FiniteSubsetsOf(Nat))
  BY FS_StrictSubsetOrderingWellFounded
<1>2. B \subseteq FiniteSubsetsOf(Nat)
  BY FS_Interval DEF FiniteSubsetsOf
<1>3. B # {}
  OBVIOUS
<1> HIDE DEF R
<1>4. PICK x \in B : \A y \in B : ~ (<<y, x>> \in R)
  BY <1>1, <1>2, <1>3, WFMin
<1>5. PICK m \in T : x = 1 .. m
  OBVIOUS
<1>6. ASSUME NEW n \in T, ~ (m <= n) PROVE FALSE
  <2>1. 1 .. n \in B
    OBVIOUS
  <2>2. <<1 .. n, x>> \in R
    BY <1>5, <1>6 DEF R, StrictSubsetOrdering
  <2> QED BY <1>4, <2>1, <2>2
<1> QED BY <1>6

(* The kinds of addresses are apart.                                         *)
LEMMA Spaces ==
  /\ Heap!Level \cap Heap!Node = {} /\ Heap!Cell \cap HeapObj = {}
  /\ Heap!Level \subseteq Heap!Addr /\ Heap!Node \subseteq Heap!Addr
  /\ HeapObj \subseteq Heap!Node /\ Heap!Cell \subseteq Heap!Node /\ Heap!Cell \subseteq Nat
  /\ Heap!Level \subseteq Nat
  /\ Null \notin Heap!Addr /\ Null \notin Heap!Node /\ Heap!NoScope \notin Heap!Level
  /\ Heap!NoScope = -1
  /\ Heap!Level = 0 .. MaxHeapLevel /\ MaxHeapLevel \in Nat
BY HeapAssumption DEF Heap!Level, Heap!Node, Heap!Cell, Heap!Addr, Heap!NoScope

LEMMA NodeFinite ==
  /\ IsFiniteSet(Heap!Node) /\ Cardinality(Heap!Node) \in Nat
  /\ Heap!Cardinality(Heap!Node) = Cardinality(Heap!Node)
<1>1. IsFiniteSet(Heap!Cell)
  BY HeapAssumption, FS_Interval DEF Heap!Cell
<1>2. IsFiniteSet(Heap!Node)
  BY <1>1, HeapAssumption, FS_Union DEF Heap!Node
<1>3. Heap!Cardinality(Heap!Node) = Cardinality(Heap!Node)
  BY DEF Heap!Cardinality, Cardinality
<1> QED BY <1>2, <1>3, FS_CardinalityType

-----------------------------------------------------------------------------
(* What a walk along a field reaches.                                        *)

(* The walk, one step at a time.                                             *)
Farther(f, S) == S \cup {f[x] : x \in S \ {Null}}
Walk(f, a, n, step) ==
  step = [k \in 0 .. n |-> IF k = 0 THEN {a} ELSE Farther(f, step[k - 1])]

LEMMA ReachUnfold ==
  ASSUME NEW f, NEW a
  PROVE LET K == Heap!Cardinality(Heap!Node) IN
        \E step : Walk(f, a, K, step) /\ Heap!Reach(f, a) = step[K] \ {Null}
<1> DEFINE T == {n \in Nat : ~ \E step : Walk(f, a, n, step)}
           K == Heap!Cardinality(Heap!Node)
<1>1. T = {}
  <2> SUFFICES ASSUME T # {} PROVE FALSE
    OBVIOUS
  <2>1. PICK m \in T : \A n \in T : m <= n
    BY Least
  <2>2. CASE m = 0
    <3> DEFINE s == [k \in 0 .. 0 |-> {a}]
    <3>1. Walk(f, a, 0, s)
      BY DEF Walk
    <3> QED BY <2>2, <3>1
  <2>3. CASE m # 0
    <3>1. m - 1 \in Nat /\ m - 1 \notin T
      BY <2>1, <2>3
    <3>2. PICK s : Walk(f, a, m - 1, s)
      BY <3>1
    <3> DEFINE g == [k \in 0 .. m |-> IF k < m THEN s[k] ELSE Farther(f, s[m - 1])]
    <3>3. \A k \in 0 .. m : g[k] = IF k = 0 THEN {a} ELSE Farther(f, g[k - 1])
      <4>1. \A k \in 0 .. m - 1 : s[k] = IF k = 0 THEN {a} ELSE Farther(f, s[k - 1])
        BY <3>2 DEF Walk
      <4>2. m \in Nat \ {0}
        BY <2>1, <2>3
      <4>3. ASSUME NEW k \in 0 .. m, k < m
            PROVE  g[k] = IF k = 0 THEN {a} ELSE Farther(f, g[k - 1])
        <5>1. k \in 0 .. m - 1 /\ g[k] = s[k]
          BY <4>2, <4>3
        <5>2. k # 0 => k - 1 \in 0 .. m /\ g[k - 1] = s[k - 1]
          BY <4>2, <4>3
        <5> QED BY <4>1, <5>1, <5>2
      <4>4. g[m] = Farther(f, g[m - 1])
        <5>1. m \in 0 .. m /\ m - 1 \in 0 .. m /\ m - 1 < m /\ ~ (m < m)
          BY <4>2
        <5> QED BY <5>1
      <4>5. \A k \in 0 .. m : k < m \/ k = m
        BY <4>2
      <4> HIDE DEF g
      <4> QED BY <4>2, <4>3, <4>4, <4>5
    <3>4. Walk(f, a, m, g)
      BY <3>3 DEF Walk
    <3> QED BY <2>1, <3>4
  <2> QED BY <2>2, <2>3
<1>2. PICK step : Walk(f, a, K, step)
  BY <1>1, NodeFinite
<1>3. Heap!Reach(f, a) = (CHOOSE p : Walk(f, a, K, p))[K] \ {Null}
  BY DEF Heap!Reach, Walk, Farther
<1>4. Walk(f, a, K, CHOOSE p : Walk(f, a, K, p))
  BY <1>2
<1> QED BY <1>3, <1>4

(* It stays in what holds the start and is closed under the field.           *)
LEMMA ReachLeast ==
  ASSUME NEW f, NEW a, NEW S, a \in S,
         \A n \in S : n # Null => f[n] = Null \/ f[n] \in S
  PROVE  Heap!Reach(f, a) \subseteq S
<1> DEFINE K == Heap!Cardinality(Heap!Node)
<1>1. PICK step : Walk(f, a, K, step) /\ Heap!Reach(f, a) = step[K] \ {Null}
  BY ReachUnfold
<1>2. K \in Nat
  BY NodeFinite
<1> HIDE DEF K
<1>3. \A k \in 0 .. K : step[k] = IF k = 0 THEN {a} ELSE Farther(f, step[k - 1])
  BY <1>1 DEF Walk
<1> DEFINE T == {k \in 0 .. K : ~ (step[k] \subseteq S \cup {Null})}
<1>4. T = {}
  <2> SUFFICES ASSUME T # {} PROVE FALSE
    OBVIOUS
  <2> HIDE DEF T
  <2>1. PICK m \in T : \A n \in T : m <= n
    <3>1. T \subseteq Nat
      BY <1>2 DEF T
    <3> QED BY <3>1, Least
  <2> USE DEF T
  <2>2. CASE m = 0
    BY <1>2, <1>3, <2>1, <2>2
  <2>3. CASE m # 0
    <3>1. m - 1 \in 0 .. K /\ step[m - 1] \subseteq S \cup {Null}
      BY <1>2, <2>1, <2>3
    <3>2. step[m] = step[m - 1] \cup {f[x] : x \in step[m - 1] \ {Null}}
      BY <1>3, <2>1, <2>3 DEF Farther
    <3>3. step[m] \subseteq S \cup {Null}
      BY <3>1, <3>2
    <3> QED BY <2>1, <3>3
  <2> QED BY <2>2, <2>3
<1> QED BY <1>1, <1>2, <1>4

(* It is itself closed: it goes on for as many steps as there are nodes.     *)
LEMMA ReachClosed ==
  ASSUME NEW D, Heap!Node \subseteq D, NEW f \in [D -> Heap!Node \cup {Null}],
         NEW a \in D, a # Null
  PROVE  /\ a \in Heap!Reach(f, a)
         /\ Heap!Reach(f, a) \subseteq Heap!Node \cup {a}
         /\ \A n \in Heap!Reach(f, a) : f[n] = Null \/ f[n] \in Heap!Reach(f, a)
<1> DEFINE K == Heap!Cardinality(Heap!Node)
           A == Heap!Node \cup {a}
<1>1. PICK step : Walk(f, a, K, step) /\ Heap!Reach(f, a) = step[K] \ {Null}
  BY ReachUnfold
<1>2. K \in Nat
  BY NodeFinite
<1>3. IsFiniteSet(A) /\ Cardinality(A) <= K + 1
  <2>1. Cardinality(Heap!Node) = K
    BY NodeFinite
  <2>2. /\ IsFiniteSet(A)
        /\ Cardinality(A) = Cardinality(Heap!Node) \/ Cardinality(A) = Cardinality(Heap!Node) + 1
    BY NodeFinite, FS_AddElement
  <2> HIDE DEF A, K
  <2> QED BY <1>2, <2>1, <2>2
<1> HIDE DEF K
<1>4. \A k \in 0 .. K : step[k] = IF k = 0 THEN {a} ELSE Farther(f, step[k - 1])
  BY <1>1 DEF Walk
<1> DEFINE S(k) == step[k] \ {Null}
           Closed(k) == \A n \in S(k) : f[n] = Null \/ f[n] \in S(k)
           I(k) == /\ a \in S(k) /\ S(k) \subseteq A
                   /\ Closed(k) \/ Cardinality(S(k)) >= k + 1
           T == {k \in 0 .. K : ~ I(k)}
<1>5. I(0)
  <2>1. step[0] = {a}
    <3>1. 0 \in 0 .. K
      BY <1>2
    <3> QED BY <1>4, <3>1
  <2>2. S(0) = {a}
    BY <2>1
  <2>3. Cardinality(S(0)) = 1
    BY <2>2, FS_Singleton
  <2> QED BY <2>2, <2>3
<1>6. ASSUME NEW k \in 0 .. K, k # 0, I(k - 1) PROVE I(k)
  <2>1. step[k] = step[k - 1] \cup {f[x] : x \in step[k - 1] \ {Null}}
    BY <1>4, <1>6 DEF Farther
  <2>2. S(k) = S(k - 1) \cup ({f[x] : x \in S(k - 1)} \ {Null})
    BY <2>1
  <2>3. S(k - 1) \subseteq D
    BY <1>6
  <2>4. \A x \in S(k - 1) : f[x] \in Heap!Node \cup {Null}
    BY <2>3
  <2>5. a \in S(k) /\ S(k) \subseteq A
    BY <1>6, <2>2, <2>4
  <2>6. CASE Closed(k - 1)
    <3>1. S(k) = S(k - 1)
      BY <2>2, <2>6
    <3> QED BY <2>5, <2>6, <3>1
  <2>7. CASE ~ Closed(k - 1)
    <3>1. PICK n \in S(k - 1) : f[n] # Null /\ f[n] \notin S(k - 1)
      BY <2>7
    <3>2. S(k - 1) \cup {f[n]} \subseteq S(k)
      BY <2>2, <3>1
    <3>3. IsFiniteSet(S(k - 1)) /\ IsFiniteSet(S(k))
      BY <1>3, <1>6, <2>5, FS_Subset
    <3> DEFINE x == f[n]
               Old == S(k - 1)
    <3>9. x \notin Old /\ IsFiniteSet(Old)
      BY <3>1, <3>3
    <3> HIDE DEF x, S, Old
    <3>10. Cardinality(Old \cup {x}) = Cardinality(Old) + 1
      BY <3>9, FS_AddElement
    <3>4. Cardinality(S(k - 1) \cup {x}) = Cardinality(S(k - 1)) + 1
      BY <3>10 DEF Old
    <3>5. Cardinality(S(k - 1) \cup {x}) <= Cardinality(S(k))
      BY <3>2, <3>3, FS_Subset DEF x
    <3>6. Cardinality(S(k - 1)) >= k
      BY <1>6, <2>7 DEF S
    <3>7. Cardinality(S(k - 1)) \in Nat /\ Cardinality(S(k)) \in Nat
      BY <3>3, FS_CardinalityType
    <3>8. Cardinality(S(k)) >= k + 1
      BY <3>4, <3>5, <3>6, <3>7
    <3> USE DEF S
    <3> QED BY <2>5, <3>8
  <2> QED BY <2>6, <2>7
<1> HIDE DEF I
<1>7. T = {}
  <2> SUFFICES ASSUME T # {} PROVE FALSE
    OBVIOUS
  <2> HIDE DEF T
  <2>1. PICK m \in T : \A n \in T : m <= n
    <3>1. T \subseteq Nat
      BY <1>2 DEF T
    <3> QED BY <3>1, Least
  <2> USE DEF T
  <2>2. m # 0
    BY <1>5, <2>1
  <2>3. m - 1 \in 0 .. K /\ I(m - 1)
    BY <1>2, <2>1, <2>2
  <2> QED BY <1>6, <2>1, <2>2, <2>3
<1>8. I(K)
  BY <1>2, <1>7
<1>9. Closed(K)
  <2>1. SUFFICES ASSUME Cardinality(S(K)) >= K + 1 PROVE Closed(K)
    BY <1>8 DEF I
  <2>2. S(K) \in SUBSET A
    BY <1>8 DEF I
  <2>3. Cardinality(S(K)) <= Cardinality(A) /\ (Cardinality(S(K)) = Cardinality(A) => A = S(K))
    BY <1>3, <2>2, FS_Subset
  <2>4. Cardinality(S(K)) \in Nat /\ Cardinality(A) \in Nat
    BY <1>3, <2>2, FS_Subset, FS_CardinalityType
  <2> HIDE DEF S
  <2>5. A = S(K)
    BY <1>2, <1>3, <2>1, <2>3, <2>4
  <2> QED BY <2>5
<1> QED BY <1>1, <1>8, <1>9 DEF I

-----------------------------------------------------------------------------
(* What each operation does to the fields of the memory.                     *)
LEMMA Fields ==
  ASSUME NEW m \in Heap!Memory
  PROVE  /\ m.link \in [Heap!Addr -> Heap!Node \cup {Null}]
         /\ m.prev \in [Heap!Node -> Heap!Addr \cup {Null}]
         /\ m.restore \in [Heap!Node -> Heap!Node \cup {Null}]
         /\ m.scope \in [Heap!Node -> Heap!Level \cup {Heap!NoScope}]
         /\ m.data \in [Heap!Node -> Val \cup {Absent}]
BY DEF Heap!Memory

LEMMA LinkFields ==
  ASSUME NEW m \in Heap!Memory, NEW a \in Heap!Addr, NEW p \in Heap!Node \cup {Null}
  PROVE /\ Heap!Link(m, a, p) \in Heap!Memory
        /\ \A b \in Heap!Addr : Heap!Link(m, a, p).link[b] = IF b = a THEN p ELSE m.link[b]
        /\ \A n \in Heap!Node : Heap!Link(m, a, p).prev[n] = IF n = p THEN a ELSE m.prev[n]
        /\ Heap!Link(m, a, p).restore = m.restore
        /\ Heap!Link(m, a, p).scope = m.scope
        /\ Heap!Link(m, a, p).data = m.data
BY Spaces DEF Heap!Link, Heap!Memory

LEMMA WipeFields ==
  ASSUME NEW m \in Heap!Memory, NEW N \in SUBSET Heap!Node
  PROVE /\ Heap!Wipe(m, N) \in Heap!Memory
        /\ \A a \in Heap!Addr : Heap!Wipe(m, N).link[a] = IF a \in N THEN Null ELSE m.link[a]
        /\ \A a \in Heap!Node :
             /\ Heap!Wipe(m, N).prev[a] = IF a \in N THEN Null ELSE m.prev[a]
             /\ Heap!Wipe(m, N).restore[a] = IF a \in N THEN Null ELSE m.restore[a]
             /\ Heap!Wipe(m, N).scope[a] = IF a \in N THEN Heap!NoScope ELSE m.scope[a]
             /\ Heap!Wipe(m, N).data[a] = IF a \in N THEN Absent ELSE m.data[a]
<1>1. DOMAIN m = {"link", "prev", "restore", "scope", "data"}
  BY DEF Heap!Memory
<1>2. /\ DOMAIN m.link = Heap!Addr /\ DOMAIN m.prev = Heap!Node /\ DOMAIN m.restore = Heap!Node
      /\ DOMAIN m.scope = Heap!Node /\ DOMAIN m.data = Heap!Node
  BY DEF Heap!Memory
<1>3. Heap!Wipe(m, N) = [f \in {"link", "prev", "restore", "scope", "data"} |->
                      [a \in DOMAIN m[f] |-> IF a \in N THEN Heap!NoMemory[f][a] ELSE m[f][a]]]
  BY <1>1 DEF Heap!Wipe
<1> HIDE DEF Heap!Wipe
<1>4. Heap!Wipe(m, N).link = [a \in Heap!Addr |-> IF a \in N THEN Null ELSE m.link[a]]
  <2>1. Heap!NoMemory.link = [a \in Heap!Addr |-> Null]
    BY DEF Heap!NoMemory
  <2>2. \A a \in Heap!Addr : a \in N => Heap!NoMemory.link[a] = Null
    BY <2>1
  <2> QED BY <1>2, <1>3, <2>2
<1>5. Heap!Wipe(m, N).prev = [a \in Heap!Node |-> IF a \in N THEN Null ELSE m.prev[a]]
  <2>1. Heap!NoMemory.prev = [a \in Heap!Node |-> Null]
    BY DEF Heap!NoMemory
  <2>2. \A a \in Heap!Node : a \in N => Heap!NoMemory.prev[a] = Null
    BY <2>1
  <2> QED BY <1>2, <1>3, <2>2
<1>6. Heap!Wipe(m, N).restore = [a \in Heap!Node |-> IF a \in N THEN Null ELSE m.restore[a]]
  <2>1. Heap!NoMemory.restore = [a \in Heap!Node |-> Null]
    BY DEF Heap!NoMemory
  <2>2. \A a \in Heap!Node : a \in N => Heap!NoMemory.restore[a] = Null
    BY <2>1
  <2> QED BY <1>2, <1>3, <2>2
<1>7. Heap!Wipe(m, N).scope = [a \in Heap!Node |-> IF a \in N THEN Heap!NoScope ELSE m.scope[a]]
  <2>1. Heap!NoMemory.scope = [a \in Heap!Node |-> Heap!NoScope]
    BY DEF Heap!NoMemory
  <2>2. \A a \in Heap!Node : a \in N => Heap!NoMemory.scope[a] = Heap!NoScope
    BY <2>1
  <2> QED BY <1>2, <1>3, <2>2
<1>8. Heap!Wipe(m, N).data = [a \in Heap!Node |-> IF a \in N THEN Absent ELSE m.data[a]]
  <2>1. Heap!NoMemory.data = [a \in Heap!Node |-> Absent]
    BY DEF Heap!NoMemory
  <2>2. \A a \in Heap!Node : a \in N => Heap!NoMemory.data[a] = Absent
    BY <2>1
  <2> QED BY <1>2, <1>3, <2>2
<1> DEFINE w == Heap!Wipe(m, N)
<1>9. w = [link |-> w.link, prev |-> w.prev, restore |-> w.restore,
           scope |-> w.scope, data |-> w.data]
  BY <1>3
<1>10. w \in Heap!Memory
  <2>1. /\ w.link \in [Heap!Addr -> Heap!Node \cup {Null}]
        /\ w.prev \in [Heap!Node -> Heap!Addr \cup {Null}]
        /\ w.restore \in [Heap!Node -> Heap!Node \cup {Null}]
        /\ w.scope \in [Heap!Node -> Heap!Level \cup {Heap!NoScope}]
        /\ w.data \in [Heap!Node -> Val \cup {Absent}]
    BY <1>4, <1>5, <1>6, <1>7, <1>8, Fields
  <2> HIDE DEF w
  <2> QED BY <1>9, <2>1 DEF Heap!Memory
<1> QED BY <1>4, <1>5, <1>6, <1>7, <1>8, <1>10

LEMMA AddToChainFields ==
  ASSUME NEW m \in Heap!Memory, NEW n \in Heap!Node, NEW s \in Heap!Level
  PROVE /\ Heap!AddToChain(m, n, s) \in Heap!Memory
        /\ \A a \in Heap!Addr : Heap!AddToChain(m, n, s).link[a] =
             IF a = s THEN n ELSE IF a = n THEN m.link[s] ELSE m.link[a]
        /\ \A k \in Heap!Node : Heap!AddToChain(m, n, s).prev[k] =
             IF k = n THEN s ELSE IF k = m.link[s] THEN n ELSE m.prev[k]
        /\ Heap!AddToChain(m, n, s).restore = m.restore
        /\ Heap!AddToChain(m, n, s).scope = m.scope
        /\ Heap!AddToChain(m, n, s).data = m.data
<1> DEFINE h == m.link[s]
           k == Heap!Link(m, n, h)
           r == Heap!Link(k, s, n)
<1>1. n \in Heap!Addr /\ s \in Heap!Addr /\ h \in Heap!Node \cup {Null} /\ n # s
  BY Fields, Spaces
<1>5. h = m.link[s]
  OBVIOUS
<1>2. r = Heap!AddToChain(m, n, s)
  BY DEF Heap!AddToChain
<1> HIDE DEF h, k, r
<1>3. /\ k \in Heap!Memory
      /\ \A b \in Heap!Addr : k.link[b] = IF b = n THEN h ELSE m.link[b]
      /\ \A x \in Heap!Node : k.prev[x] = IF x = h THEN n ELSE m.prev[x]
      /\ k.restore = m.restore /\ k.scope = m.scope /\ k.data = m.data
  BY <1>1, LinkFields DEF k
<1>4. /\ r \in Heap!Memory
      /\ \A b \in Heap!Addr : r.link[b] = IF b = s THEN n ELSE k.link[b]
      /\ \A x \in Heap!Node : r.prev[x] = IF x = n THEN s ELSE k.prev[x]
      /\ r.restore = k.restore /\ r.scope = k.scope /\ r.data = k.data
  BY <1>1, <1>3, LinkFields DEF r
<1> QED BY <1>1, <1>2, <1>3, <1>4, <1>5

(* A new object at the front of the chain of s.                              *)
Built(m, o, s, v) ==
  Heap!AddToChain([m EXCEPT !.scope[o] = s, !.restore[o] = Null, !.data[o] = v], o, s)

LEMMA BuiltFields ==
  ASSUME NEW m \in Heap!Memory, NEW o \in HeapObj, NEW s \in Heap!Level, NEW v \in Val
  PROVE /\ Built(m, o, s, v) \in Heap!Memory
        /\ \A a \in Heap!Addr : Built(m, o, s, v).link[a] =
             IF a = s THEN o ELSE IF a = o THEN m.link[s] ELSE m.link[a]
        /\ \A n \in Heap!Node :
             /\ Built(m, o, s, v).prev[n] =
                  IF n = o THEN s ELSE IF n = m.link[s] THEN o ELSE m.prev[n]
             /\ Built(m, o, s, v).restore[n] = IF n = o THEN Null ELSE m.restore[n]
             /\ Built(m, o, s, v).scope[n] = IF n = o THEN s ELSE m.scope[n]
             /\ Built(m, o, s, v).data[n] = IF n = o THEN v ELSE m.data[n]
<1> DEFINE k == [m EXCEPT !.scope[o] = s, !.restore[o] = Null, !.data[o] = v]
<1>1. o \in Heap!Node /\ o # s /\ o \in Heap!Addr /\ s \in Heap!Addr
  BY Spaces
<1>2. /\ k \in Heap!Memory
      /\ k.link = m.link /\ k.prev = m.prev
      /\ \A n \in Heap!Node :
           /\ k.restore[n] = IF n = o THEN Null ELSE m.restore[n]
           /\ k.scope[n] = IF n = o THEN s ELSE m.scope[n]
           /\ k.data[n] = IF n = o THEN v ELSE m.data[n]
  BY <1>1 DEF Heap!Memory
<1>3. Built(m, o, s, v) = Heap!AddToChain(k, o, s)
  BY DEF Built
<1> HIDE DEF k
<1> DEFINE r == Heap!AddToChain(k, o, s)
<1>4. /\ r \in Heap!Memory
      /\ \A a \in Heap!Addr : r.link[a] =
           IF a = s THEN o ELSE IF a = o THEN k.link[s] ELSE k.link[a]
      /\ \A n \in Heap!Node : r.prev[n] =
           IF n = o THEN s ELSE IF n = k.link[s] THEN o ELSE k.prev[n]
      /\ r.restore = k.restore /\ r.scope = k.scope /\ r.data = k.data
  BY <1>1, <1>2, AddToChainFields
<1> HIDE DEF r
<1>5. r = Built(m, o, s, v)
  BY <1>3 DEF r
<1> QED BY <1>2, <1>4, <1>5

(* A saved copy at c takes the place of o, and o goes to the front of the    *)
(* chain of top.                                                             *)
LEMMA UpdateFields ==
  ASSUME NEW m \in Heap!Memory, NEW o \in HeapObj, NEW c \in Heap!Cell, NEW top \in Heap!Level,
         m.prev[o] \in Heap!Addr, m.prev[o] \notin {o, c, top}, m.link[o] \notin {o, c},
         m.link[top] \notin {o, c}, m.link[o] = Null \/ m.link[o] # m.link[top]
  PROVE /\ Heap!Update(m, o, c, top) \in Heap!Memory
        /\ \A a \in Heap!Addr : Heap!Update(m, o, c, top).link[a] =
             IF a = c THEN m.link[o] ELSE IF a = m.prev[o] THEN c
             ELSE IF a = o THEN m.link[top] ELSE IF a = top THEN o ELSE m.link[a]
        /\ \A n \in Heap!Node :
             /\ Heap!Update(m, o, c, top).prev[n] =
                  IF n = c THEN m.prev[o] ELSE IF n = m.link[o] THEN c
                  ELSE IF n = m.link[top] THEN o ELSE IF n = o THEN top ELSE m.prev[n]
             /\ Heap!Update(m, o, c, top).restore[n] =
                  IF n = c THEN m.restore[o] ELSE IF n = o THEN c ELSE m.restore[n]
             /\ Heap!Update(m, o, c, top).scope[n] =
                  IF n = c THEN m.scope[o] ELSE IF n = o THEN top ELSE m.scope[n]
             /\ Heap!Update(m, o, c, top).data[n] = IF n = c THEN m.data[o] ELSE m.data[n]
<1> DEFINE saved == [link |-> [m.link EXCEPT ![c] = m.link[o]],
                     prev |-> [m.prev EXCEPT ![c] = m.prev[o]],
                     restore |-> [m.restore EXCEPT ![c] = m.restore[o]],
                     scope |-> [m.scope EXCEPT ![c] = m.scope[o]],
                     data |-> [m.data EXCEPT ![c] = m.data[o]]]
           N == m.link[o]
           P == m.prev[o]
           h == m.link[top]
           k1 == Heap!Link(saved, c, N)
           k2 == Heap!Link(k1, P, c)
           k3 == [k2 EXCEPT !.scope[o] = top, !.restore[o] = c]
           r == Heap!AddToChain(k3, o, top)
<1>1. Heap!Update(m, o, c, top) = r
  BY DEF Heap!Update
<1>2. /\ o \in Heap!Node /\ c \in Heap!Node /\ o \in Heap!Addr /\ c \in Heap!Addr
      /\ top \in Heap!Addr
      /\ o # c /\ c # top /\ o # top /\ c # Null /\ o # Null
  BY Spaces
<1>3. /\ N \in Heap!Node \cup {Null} /\ h \in Heap!Node \cup {Null} /\ P \in Heap!Addr
      /\ P \notin {o, c, top} /\ N \notin {o, c} /\ h \notin {o, c} /\ (N = Null \/ N # h)
  BY <1>2, Fields
<1>14. N = m.link[o] /\ P = m.prev[o] /\ h = m.link[top]
  OBVIOUS
<1>4. /\ saved \in Heap!Memory
      /\ \A a \in Heap!Addr : saved.link[a] = IF a = c THEN N ELSE m.link[a]
      /\ \A n \in Heap!Node :
           /\ saved.prev[n] = IF n = c THEN P ELSE m.prev[n]
           /\ saved.restore[n] = IF n = c THEN m.restore[o] ELSE m.restore[n]
           /\ saved.scope[n] = IF n = c THEN m.scope[o] ELSE m.scope[n]
           /\ saved.data[n] = IF n = c THEN m.data[o] ELSE m.data[n]
  BY <1>2, Fields DEF Heap!Memory
<1> HIDE DEF saved, N, P, h, k1, k2, k3, r
<1>5. /\ k1 \in Heap!Memory
      /\ \A a \in Heap!Addr : k1.link[a] = IF a = c THEN N ELSE saved.link[a]
      /\ \A n \in Heap!Node : k1.prev[n] = IF n = N THEN c ELSE saved.prev[n]
      /\ k1.restore = saved.restore /\ k1.scope = saved.scope /\ k1.data = saved.data
  <2>1. saved \in Heap!Memory /\ c \in Heap!Addr /\ N \in Heap!Node \cup {Null}
    BY <1>2, <1>3, <1>4
  <2> QED BY <2>1, LinkFields DEF k1
<1>6. /\ k2 \in Heap!Memory
      /\ \A a \in Heap!Addr : k2.link[a] = IF a = P THEN c ELSE k1.link[a]
      /\ \A n \in Heap!Node : k2.prev[n] = IF n = c THEN P ELSE k1.prev[n]
      /\ k2.restore = k1.restore /\ k2.scope = k1.scope /\ k2.data = k1.data
  <2>1. k1 \in Heap!Memory /\ P \in Heap!Addr /\ c \in Heap!Node \cup {Null}
    BY <1>2, <1>3, <1>5
  <2> QED BY <2>1, LinkFields DEF k2
<1>7. /\ k3 \in Heap!Memory
      /\ k3.link = k2.link /\ k3.prev = k2.prev /\ k3.data = k2.data
      /\ \A n \in Heap!Node :
           /\ k3.restore[n] = IF n = o THEN c ELSE k2.restore[n]
           /\ k3.scope[n] = IF n = o THEN top ELSE k2.scope[n]
  BY <1>2, <1>6 DEF Heap!Memory, k3
<1>8. k3.link[top] = h
  BY <1>2, <1>3, <1>4, <1>5, <1>6, <1>7, <1>14
<1>9. /\ r \in Heap!Memory
      /\ \A a \in Heap!Addr : r.link[a] = IF a = top THEN o ELSE IF a = o THEN h ELSE k3.link[a]
      /\ \A n \in Heap!Node : r.prev[n] = IF n = o THEN top ELSE IF n = h THEN o ELSE k3.prev[n]
      /\ r.restore = k3.restore /\ r.scope = k3.scope /\ r.data = k3.data
  <2>1. k3 \in Heap!Memory /\ o \in Heap!Node /\ top \in Heap!Level
    BY <1>2, <1>7
  <2>2. /\ r \in Heap!Memory
        /\ \A a \in Heap!Addr : r.link[a] =
             IF a = top THEN o ELSE IF a = o THEN k3.link[top] ELSE k3.link[a]
        /\ \A k \in Heap!Node : r.prev[k] =
             IF k = o THEN top ELSE IF k = k3.link[top] THEN o ELSE k3.prev[k]
        /\ r.restore = k3.restore /\ r.scope = k3.scope /\ r.data = k3.data
    BY <2>1, AddToChainFields DEF r
  <2> QED BY <1>8, <2>2
<1>10. \A a \in Heap!Addr : r.link[a] = IF a = c THEN N ELSE IF a = P THEN c
                                   ELSE IF a = o THEN h ELSE IF a = top THEN o ELSE m.link[a]
  BY <1>2, <1>3, <1>4, <1>5, <1>6, <1>7, <1>9
<1>11. \A n \in Heap!Node : r.prev[n] = IF n = c THEN P ELSE IF n = N THEN c
                                   ELSE IF n = h THEN o ELSE IF n = o THEN top ELSE m.prev[n]
  BY <1>2, <1>3, <1>4, <1>5, <1>6, <1>7, <1>9, Spaces
<1>12. \A n \in Heap!Node :
         /\ r.restore[n] = IF n = c THEN m.restore[o] ELSE IF n = o THEN c ELSE m.restore[n]
         /\ r.scope[n] = IF n = c THEN m.scope[o] ELSE IF n = o THEN top ELSE m.scope[n]
         /\ r.data[n] = IF n = c THEN m.data[o] ELSE m.data[n]
  BY <1>2, <1>4, <1>5, <1>6, <1>7, <1>9
<1> QED BY <1>1, <1>9, <1>10, <1>11, <1>12, <1>14

(* o takes the place of its saved copy c.                                    *)
LEMMA RestoreFields ==
  ASSUME NEW m \in Heap!Memory, NEW o \in HeapObj, NEW c \in Heap!Cell, m.restore[o] = c,
         m.prev[c] \in Heap!Addr, m.prev[c] # o, m.link[c] # o
  PROVE /\ Heap!RestoreAndContinue(m, o) \in Heap!Memory
        /\ \A a \in Heap!Addr : Heap!RestoreAndContinue(m, o).link[a] =
             IF a = o THEN m.link[c] ELSE IF a = m.prev[c] THEN o ELSE m.link[a]
        /\ \A n \in Heap!Node :
             /\ Heap!RestoreAndContinue(m, o).prev[n] =
                  IF n = o THEN m.prev[c] ELSE IF n = m.link[c] THEN o ELSE m.prev[n]
             /\ Heap!RestoreAndContinue(m, o).restore[n] =
                  IF n = o THEN m.restore[c] ELSE m.restore[n]
             /\ Heap!RestoreAndContinue(m, o).scope[n] = IF n = o THEN m.scope[c] ELSE m.scope[n]
             /\ Heap!RestoreAndContinue(m, o).data[n] = IF n = o THEN m.data[c] ELSE m.data[n]
<1> DEFINE N == m.link[c]
           P == m.prev[c]
           base == [m EXCEPT !.data[o] = m.data[c], !.scope[o] = m.scope[c],
                             !.prev[o] = m.prev[c], !.link[o] = m.link[c],
                             !.restore[o] = m.restore[c]]
           k1 == Heap!Link(base, o, N)
           r == Heap!Link(k1, P, o)
<1>1. o \in Heap!Node /\ c \in Heap!Node /\ o \in Heap!Addr /\ c \in Heap!Addr /\ o # c /\ c # Null /\ o # Null
  BY Spaces
<1>2. N \in Heap!Node \cup {Null} /\ P \in Heap!Addr /\ P # o /\ N # o
  BY <1>1, Fields
<1>10. N = m.link[c] /\ P = m.prev[c]
  OBVIOUS
<1>3. /\ base \in Heap!Memory
      /\ \A a \in Heap!Addr : base.link[a] = IF a = o THEN N ELSE m.link[a]
      /\ \A n \in Heap!Node :
           /\ base.prev[n] = IF n = o THEN P ELSE m.prev[n]
           /\ base.restore[n] = IF n = o THEN m.restore[c] ELSE m.restore[n]
           /\ base.scope[n] = IF n = o THEN m.scope[c] ELSE m.scope[n]
           /\ base.data[n] = IF n = o THEN m.data[c] ELSE m.data[n]
  BY <1>1, ZenonT(60) DEF Heap!Memory
<1>4. base.link[o] = N /\ base.prev[o] = P
  BY <1>1, <1>3
<1>5. Heap!RestoreAndContinue(m, o) = r
  BY <1>1, <1>4 DEF Heap!RestoreAndContinue
<1> HIDE DEF base, N, P, k1, r
<1>6. /\ k1 \in Heap!Memory
      /\ \A a \in Heap!Addr : k1.link[a] = IF a = o THEN N ELSE base.link[a]
      /\ \A n \in Heap!Node : k1.prev[n] = IF n = N THEN o ELSE base.prev[n]
      /\ k1.restore = base.restore /\ k1.scope = base.scope /\ k1.data = base.data
  <2>1. base \in Heap!Memory /\ o \in Heap!Addr /\ N \in Heap!Node \cup {Null}
    BY <1>1, <1>2, <1>3
  <2> QED BY <2>1, LinkFields DEF k1
<1>7. /\ r \in Heap!Memory
      /\ \A a \in Heap!Addr : r.link[a] = IF a = P THEN o ELSE k1.link[a]
      /\ \A n \in Heap!Node : r.prev[n] = IF n = o THEN P ELSE k1.prev[n]
      /\ r.restore = k1.restore /\ r.scope = k1.scope /\ r.data = k1.data
  <2>1. k1 \in Heap!Memory /\ P \in Heap!Addr /\ o \in Heap!Node \cup {Null}
    BY <1>1, <1>2, <1>6
  <2> QED BY <2>1, LinkFields DEF r
<1>8. \A a \in Heap!Addr : r.link[a] = IF a = o THEN N ELSE IF a = P THEN o ELSE m.link[a]
  BY <1>1, <1>2, <1>3, <1>6, <1>7
<1>9. \A n \in Heap!Node : r.prev[n] = IF n = o THEN P ELSE IF n = N THEN o ELSE m.prev[n]
  BY <1>1, <1>2, <1>3, <1>6, <1>7
<1> QED BY <1>3, <1>5, <1>6, <1>7, <1>8, <1>9, <1>10

(* o leaves its chain.                                                       *)
LEMMA UnlinkFields ==
  ASSUME NEW m \in Heap!Memory, NEW o \in HeapObj, m.prev[o] \in Heap!Addr
  PROVE /\ Heap!Unlink(m, o) \in Heap!Memory
        /\ \A a \in Heap!Addr : Heap!Unlink(m, o).link[a] = IF a = m.prev[o] THEN m.link[o] ELSE m.link[a]
        /\ \A n \in Heap!Node : Heap!Unlink(m, o).prev[n] = IF n = m.link[o] THEN m.prev[o] ELSE m.prev[n]
        /\ Heap!Unlink(m, o).restore = m.restore
        /\ Heap!Unlink(m, o).scope = m.scope
        /\ Heap!Unlink(m, o).data = m.data
<1> DEFINE N == m.link[o]
           P == m.prev[o]
           k == IF N = Null THEN m ELSE [m EXCEPT !.prev[N] = P]
           r == [k EXCEPT !.link[P] = N]
<1>1. /\ o \in Heap!Node /\ o \in Heap!Addr /\ N \in Heap!Node \cup {Null} /\ P \in Heap!Addr
      /\ N = m.link[o] /\ P = m.prev[o]
  <2>1. o \in Heap!Node /\ o \in Heap!Addr
    BY Spaces
  <2>2. m.link \in [Heap!Addr -> Heap!Node \cup {Null}]
    BY Fields
  <2> QED BY <2>1, <2>2
<1>2. /\ k \in Heap!Memory /\ k.link = m.link
      /\ \A n \in Heap!Node : k.prev[n] = IF n = N THEN P ELSE m.prev[n]
      /\ k.restore = m.restore /\ k.scope = m.scope /\ k.data = m.data
  BY <1>1, Spaces DEF Heap!Memory
<1>3. Heap!Unlink(m, o) = r
  BY DEF Heap!Unlink
<1> HIDE DEF k, N, P
<1>4. /\ r \in Heap!Memory /\ r.prev = k.prev
      /\ \A a \in Heap!Addr : r.link[a] = IF a = P THEN N ELSE k.link[a]
      /\ r.restore = k.restore /\ r.scope = k.scope /\ r.data = k.data
  BY <1>1, <1>2 DEF Heap!Memory
<1> HIDE DEF r
<1> QED BY <1>1, <1>2, <1>3, <1>4

-----------------------------------------------------------------------------
(* One list: the links l from the head s lead through the nodes of S and     *)
(* lower their rank, the back links p lead to where the links come from, and *)
(* that of the first node to H.                                              *)
Chain(l, p, S, s, rk, H) ==
  /\ l[s] = Null \/ (l[s] \in S /\ p[l[s]] \notin S)
  /\ \A n \in S :
       /\ l[n] = Null \/ (l[n] \in S /\ p[l[n]] = n /\ rk[l[n]] < rk[n])
       /\ \/ p[n] \in S /\ l[p[n]] = n
          \/ l[s] = n /\ p[n] \in H

(* The list of a scope that is being popped loses the back link of its head. *)
Unlinked == Heap!Level \cup HeapObj

LEMMA ChainSame ==
  ASSUME NEW l, NEW p, NEW S, NEW s, NEW rk, NEW H, Chain(l, p, S, s, rk, H),
         NEW l2, NEW p2, NEW rk2,
         \A a \in S \cup {s} : l2[a] = l[a],
         \A n \in S : p2[n] = p[n] /\ rk2[n] = rk[n]
  PROVE  Chain(l2, p2, S, s, rk2, H)
<1>1. l2[s] = Null \/ (l2[s] \in S /\ p2[l2[s]] \notin S)
  BY DEF Chain
<1>2. ASSUME NEW n \in S
      PROVE  l2[n] = Null \/ (l2[n] \in S /\ p2[l2[n]] = n /\ rk2[l2[n]] < rk2[n])
  BY DEF Chain
<1>3. ASSUME NEW n \in S
      PROVE  \/ p2[n] \in S /\ l2[p2[n]] = n
             \/ l2[s] = n /\ p2[n] \in H
  BY DEF Chain
<1> QED BY <1>1, <1>2, <1>3 DEF Chain

(* No other list is needed while one is being popped.                        *)
LEMMA ChainPopped ==
  ASSUME NEW l, NEW p, NEW S, NEW s \in Heap!Level, NEW rk, Chain(l, p, S, s, rk, {s})
  PROVE  Chain(l, p, S, s, rk, Unlinked)
BY DEF Chain, Unlinked

LEMMA RankIsNat ==
  ASSUME NEW B \in Nat, NEW rk \in [Heap!Node -> 0 .. B], NEW n \in Heap!Node
  PROVE  rk[n] \in Nat /\ rk[n] <= B
<1>1. rk[n] \in 0 .. B
  OBVIOUS
<1> QED BY <1>1

(* A node is taken out.                                                      *)
LEMMA ChainRemove ==
  ASSUME NEW l, NEW p, NEW S, S \subseteq Heap!Node, NEW s \in Heap!Level, NEW B \in Nat,
         NEW rk \in [Heap!Node -> 0 .. B], Chain(l, p, S, s, rk, {s}), NEW o \in S,
         NEW l2, NEW p2,
         \A a \in S \cup {s} : l2[a] = IF a = p[o] THEN l[o] ELSE l[a],
         \A n \in S : p2[n] = IF n = l[o] THEN p[o] ELSE p[n]
  PROVE  Chain(l2, p2, S \ {o}, s, rk, {s})
<1>0. \A n \in S : rk[n] \in Nat
  BY RankIsNat
<1>1. s \notin S /\ Null \notin S /\ \A n \in S : rk[n] \in Nat
  <2>1. s \notin S /\ Null \notin S
    BY Spaces
  <2> QED BY <1>0, <2>1
<1>2. \/ p[o] \in S /\ l[p[o]] = o
      \/ l[s] = o /\ p[o] = s
  BY DEF Chain
<1>3. l[o] = Null \/ (l[o] \in S /\ p[l[o]] = o /\ rk[l[o]] < rk[o] /\ l[o] # o)
  BY <1>1 DEF Chain
<1>4. p[o] # o
  <2>1. p[o] \in S => rk[o] < rk[p[o]]
    BY <1>1, <1>2 DEF Chain
  <2> QED BY <1>1, <1>2, <2>1
<1>5. l[s] = o => p[o] = s
  BY <1>1, <1>2 DEF Chain
<1>6. l2[s] = Null \/ (l2[s] \in S \ {o} /\ p2[l2[s]] \notin S \ {o})
  <2>1. CASE p[o] = s
    <3>1. l2[s] = l[o]
      BY <2>1
    <3> QED BY <1>1, <1>3, <2>1, <3>1
  <2>2. CASE p[o] # s
    <3>1. l2[s] = l[s] /\ l[s] # o /\ p[o] \in S
      BY <1>2, <1>5, <2>2
    <3>2. CASE l[s] # Null
      <4>1. l[s] \in S /\ p[l[s]] \notin S
        BY <3>2 DEF Chain
      <4>2. l[s] # l[o]
        BY <1>3, <3>2, <4>1
      <4> QED BY <3>1, <4>1, <4>2
    <3> QED BY <3>1, <3>2
  <2> QED BY <2>1, <2>2
<1>7. ASSUME NEW n \in S \ {o}
      PROVE  l2[n] = Null \/ (l2[n] \in S \ {o} /\ p2[l2[n]] = n /\ rk[l2[n]] < rk[n])
  <2>1. CASE n = p[o]
    <3>1. l[n] = o /\ rk[o] < rk[n] /\ l2[n] = l[o]
      BY <1>1, <1>2, <1>7, <2>1 DEF Chain
    <3> QED BY <1>1, <1>3, <2>1, <3>1
  <2>2. CASE n # p[o]
    <3>1. l2[n] = l[n]
      BY <1>7, <2>2
    <3>2. CASE l[n] # Null
      <4>1. l[n] \in S /\ p[l[n]] = n /\ rk[l[n]] < rk[n]
        BY <1>7, <3>2 DEF Chain
      <4>2. l[n] # o
        BY <2>2, <4>1
      <4>3. l[n] # l[o]
        BY <1>3, <1>7, <3>2, <4>1
      <4> QED BY <3>1, <4>1, <4>2, <4>3
    <3> QED BY <3>1, <3>2
  <2> QED BY <2>1, <2>2
<1>8. ASSUME NEW n \in S \ {o}
      PROVE  \/ p2[n] \in S \ {o} /\ l2[p2[n]] = n
             \/ l2[s] = n /\ p2[n] \in {s}
  <2>1. CASE n = l[o]
    <3>1. p2[n] = p[o]
      BY <1>8, <2>1
    <3>2. CASE p[o] = s
      BY <2>1, <3>1, <3>2
    <3>3. CASE p[o] # s
      BY <1>2, <1>4, <2>1, <3>1, <3>3
    <3> QED BY <3>2, <3>3
  <2>2. CASE n # l[o]
    <3>1. p2[n] = p[n]
      BY <1>8, <2>2
    <3>2. CASE p[n] \in S /\ l[p[n]] = n
      <4>1. p[n] # o /\ p[n] # p[o]
        BY <1>1, <1>2, <1>8, <2>2, <3>2
      <4> QED BY <3>1, <3>2, <4>1
    <3>3. CASE l[s] = n /\ p[n] = s
      <4>1. p[o] # s
        BY <1>1, <1>2, <1>8, <3>3
      <4> QED BY <3>1, <3>3, <4>1
    <3> QED BY <1>8, <3>2, <3>3 DEF Chain
  <2> QED BY <2>1, <2>2
<1> QED
  <2>1. \A n \in S \ {o} :
          /\ l2[n] = Null \/ (l2[n] \in S \ {o} /\ p2[l2[n]] = n /\ rk[l2[n]] < rk[n])
          /\ \/ p2[n] \in S \ {o} /\ l2[p2[n]] = n
             \/ l2[s] = n /\ p2[n] \in {s}
    BY <1>7, <1>8
  <2> QED BY <1>6, <2>1 DEF Chain

(* The head of the list of a scope that is being popped leaves.              *)
LEMMA ChainBehead ==
  ASSUME NEW l, NEW p, NEW S, S \subseteq Heap!Node, NEW s \in Heap!Level, NEW B \in Nat,
         NEW rk \in [Heap!Node -> 0 .. B], NEW rk2, Chain(l, p, S, s, rk, Unlinked),
         NEW o \in S \cap HeapObj, l[s] = o,
         NEW l2, NEW p2, l2[s] = l[o],
         \A n \in S \ {o} : l2[n] = l[n] /\ p2[n] = p[n] /\ rk2[n] = rk[n]
  PROVE  Chain(l2, p2, S \ {o}, s, rk2, Unlinked)
<1>0. \A n \in S : rk[n] \in Nat
  BY RankIsNat
<1>1. s \notin S /\ Null \notin S /\ \A n \in S : rk[n] \in Nat
  <2>1. s \notin S /\ Null \notin S
    BY Spaces
  <2> QED BY <1>0, <2>1
<1>2. p[o] \notin S
  BY <1>1 DEF Chain
<1>3. l[o] = Null \/ (l[o] \in S /\ p[l[o]] = o /\ rk[l[o]] < rk[o] /\ l[o] # o)
  BY <1>1 DEF Chain
<1>4. l2[s] = Null \/ (l2[s] \in S \ {o} /\ p2[l2[s]] \notin S \ {o})
  BY <1>3
<1>5. ASSUME NEW n \in S \ {o}
      PROVE  l2[n] = Null \/ (l2[n] \in S \ {o} /\ p2[l2[n]] = n /\ rk2[l2[n]] < rk2[n])
  <2>1. l[n] = Null \/ (l[n] \in S /\ p[l[n]] = n /\ rk[l[n]] < rk[n])
    BY <1>5 DEF Chain
  <2>2. l[n] # o
    BY <1>1, <1>2, <1>5, <2>1
  <2> QED BY <1>5, <2>1, <2>2
<1>6. ASSUME NEW n \in S \ {o}
      PROVE  \/ p2[n] \in S \ {o} /\ l2[p2[n]] = n
             \/ l2[s] = n /\ p2[n] \in Heap!Level \cup HeapObj
  <2>1. p[n] \in S /\ l[p[n]] = n
    BY <1>6 DEF Chain
  <2>2. CASE p[n] = o
    BY <1>6, <2>1, <2>2 DEF Unlinked
  <2>3. CASE p[n] # o
    BY <1>6, <2>1, <2>3
  <2> QED BY <2>2, <2>3
<1> QED BY <1>4, <1>5, <1>6 DEF Chain, Unlinked

(* A node takes the place of another.                                        *)
LEMMA ChainReplace ==
  ASSUME NEW l, NEW p, NEW S, S \subseteq Heap!Node, NEW s \in Heap!Level, NEW B \in Nat,
         NEW rk \in [Heap!Node -> 0 .. B], Chain(l, p, S, s, rk, {s}),
         NEW c \in S, NEW o \in Heap!Node, o \notin S,
         NEW l2, NEW p2, NEW rk2, NEW T, T = (S \ {c}) \cup {o},
         \A a \in T \cup {s} : l2[a] = IF a = o THEN l[c] ELSE IF a = p[c] THEN o ELSE l[a],
         \A n \in T : p2[n] = IF n = o THEN p[c] ELSE IF n = l[c] THEN o ELSE p[n],
         \A n \in T : rk2[n] = IF n = o THEN rk[c] ELSE rk[n]
  PROVE  Chain(l2, p2, T, s, rk2, {s})
<1>0. \A n \in S : rk[n] \in Nat
  BY RankIsNat
<1>1. s \notin S /\ Null \notin S /\ s # o /\ s # c /\ \A n \in S : rk[n] \in Nat
  <2>1. s \notin S /\ Null \notin S /\ s # o /\ s # c
    BY Spaces
  <2> QED BY <1>0, <2>1
<1>2. \/ p[c] \in S /\ l[p[c]] = c /\ rk[c] < rk[p[c]]
      \/ l[s] = c /\ p[c] = s
  BY <1>1 DEF Chain
<1>3. l[c] = Null \/ (l[c] \in S /\ p[l[c]] = c /\ rk[l[c]] < rk[c] /\ l[c] # c /\ l[c] # o)
  BY <1>1 DEF Chain
<1>4. p[c] # c /\ p[c] # o
  BY <1>1, <1>2
<1>5. l2[s] = Null \/ (l2[s] \in T /\ p2[l2[s]] \notin T)
  <2>1. CASE p[c] = s
    <3>1. l2[s] = o /\ p2[o] = s
      BY <1>1, <2>1
    <3> QED BY <1>1, <3>1
  <2>2. CASE p[c] # s
    <3>1. l2[s] = l[s] /\ p[c] \in S
      BY <1>1, <1>2, <2>2
    <3>2. CASE l[s] # Null
      <4>1. l[s] \in S /\ p[l[s]] \notin S
        BY <3>2 DEF Chain
      <4>2. l[s] # c /\ l[s] # l[c]
        BY <1>3, <3>1, <3>2, <4>1
      <4>3. l[s] \in T /\ p2[l[s]] = p[l[s]]
        BY <4>1, <4>2
      <4>4. p[l[s]] # o
        <5>1. p[l[s]] = s
          BY <4>1 DEF Chain
        <5> QED BY <1>1, <5>1
      <4> QED BY <3>1, <4>1, <4>3, <4>4
    <3> QED BY <3>1, <3>2
  <2> QED BY <2>1, <2>2
<1>6. ASSUME NEW n \in T
      PROVE  l2[n] = Null \/ (l2[n] \in T /\ p2[l2[n]] = n /\ rk2[l2[n]] < rk2[n])
  <2>1. CASE n = o
    <3>1. l2[n] = l[c] /\ rk2[n] = rk[c]
      BY <2>1
    <3>2. CASE l[c] # Null
      <4>1. l[c] \in T /\ p2[l[c]] = o /\ rk2[l[c]] = rk[l[c]]
        BY <1>3, <3>2
      <4> QED BY <1>3, <2>1, <3>1, <3>2, <4>1
    <3> QED BY <3>1, <3>2
  <2>2. CASE n # o /\ n = p[c]
    <3>1. l2[n] = o /\ p2[o] = n /\ rk2[o] = rk[c] /\ rk2[n] = rk[n] /\ n \in S
      BY <1>6, <2>2
    <3>2. rk[c] < rk[n]
      BY <1>1, <1>2, <2>2, <3>1
    <3> QED BY <3>1, <3>2
  <2>3. CASE n # o /\ n # p[c]
    <3>1. l2[n] = l[n] /\ n \in S /\ rk2[n] = rk[n] /\ n # c
      BY <1>6, <2>3
    <3>2. CASE l[n] # Null
      <4>1. l[n] \in S /\ p[l[n]] = n /\ rk[l[n]] < rk[n]
        BY <3>1, <3>2 DEF Chain
      <4>2. l[n] # c /\ l[n] # l[c]
        BY <1>3, <2>3, <3>1, <3>2, <4>1
      <4>3. l[n] \in T /\ p2[l[n]] = n /\ rk2[l[n]] = rk[l[n]]
        BY <4>1, <4>2
      <4> QED BY <3>1, <4>1, <4>3
    <3> QED BY <3>1, <3>2
  <2> QED BY <2>1, <2>2, <2>3
<1>7. ASSUME NEW n \in T
      PROVE  \/ p2[n] \in T /\ l2[p2[n]] = n
             \/ l2[s] = n /\ p2[n] \in {s}
  <2>1. CASE n = o
    <3>1. p2[n] = p[c]
      BY <2>1
    <3>2. CASE p[c] = s
      BY <1>1, <2>1, <3>1, <3>2
    <3>3. CASE p[c] # s
      BY <1>2, <1>4, <2>1, <3>1, <3>3
    <3> QED BY <3>2, <3>3
  <2>2. CASE n # o /\ n = l[c]
    <3>1. p2[n] = o /\ l2[o] = n
      BY <1>7, <2>2
    <3> QED BY <3>1
  <2>3. CASE n # o /\ n # l[c]
    <3>1. p2[n] = p[n] /\ n \in S /\ n # c
      BY <1>7, <2>3
    <3>2. CASE p[n] \in S /\ l[p[n]] = n
      <4>1. p[n] # c /\ p[n] # p[c] /\ p[n] # o
        BY <1>1, <1>2, <2>3, <3>1, <3>2
      <4> QED BY <3>1, <3>2, <4>1
    <3>3. CASE l[s] = n /\ p[n] = s
      <4>1. p[c] # s
        BY <1>1, <1>2, <3>1, <3>3
      <4> QED BY <1>1, <3>1, <3>3, <4>1
    <3> QED BY <3>1, <3>2, <3>3 DEF Chain
  <2> QED BY <2>1, <2>2, <2>3
<1> QED BY <1>5, <1>6, <1>7 DEF Chain

(* A node comes to the front.                                                *)
LEMMA ChainPush ==
  ASSUME NEW l, NEW p, NEW S, S \subseteq Heap!Node, NEW s \in Heap!Level, NEW B \in Nat,
         NEW rk \in [Heap!Node -> 0 .. B], Chain(l, p, S, s, rk, {s}),
         NEW o \in Heap!Node, o \notin S,
         NEW l2, NEW p2, NEW rk2,
         \A a \in S \cup {o, s} : l2[a] = IF a = s THEN o ELSE IF a = o THEN l[s] ELSE l[a],
         \A n \in S \cup {o} : p2[n] = IF n = o THEN s ELSE IF n = l[s] THEN o ELSE p[n],
         rk2[o] = B + 1, \A n \in S : rk2[n] = rk[n]
  PROVE  Chain(l2, p2, S \cup {o}, s, rk2, {s})
<1>0. \A n \in S : rk[n] \in Nat /\ rk[n] <= B
  BY RankIsNat
<1>1. s \notin S /\ Null \notin S /\ s # o /\ \A n \in S : rk[n] \in Nat /\ rk[n] <= B
  <2>1. s \notin S /\ Null \notin S /\ s # o
    BY Spaces
  <2> QED BY <1>0, <2>1
<1>2. l2[s] \in S \cup {o} /\ p2[l2[s]] \notin S \cup {o}
  BY <1>1
<1>3. ASSUME NEW n \in S \cup {o}
      PROVE  l2[n] = Null \/ (l2[n] \in S \cup {o} /\ p2[l2[n]] = n /\ rk2[l2[n]] < rk2[n])
  <2>1. CASE n = o
    <3>1. l2[n] = l[s] /\ rk2[n] = B + 1
      BY <1>1, <2>1
    <3>2. CASE l[s] # Null
      <4>1. l[s] \in S
        BY <3>2 DEF Chain
      <4> QED BY <1>1, <2>1, <3>1, <4>1
    <3> QED BY <3>1, <3>2
  <2>2. CASE n # o
    <3>1. n \in S /\ l2[n] = l[n]
      BY <1>1, <1>3, <2>2
    <3>2. CASE l[n] # Null
      <4>1. l[n] \in S /\ p[l[n]] = n /\ rk[l[n]] < rk[n]
        BY <3>1, <3>2 DEF Chain
      <4>2. l[n] # l[s]
        <5>1. l[s] = Null \/ p[l[s]] \notin S
          BY DEF Chain
        <5> QED BY <3>1, <3>2, <4>1, <5>1
      <4> QED BY <3>1, <4>1, <4>2
    <3> QED BY <3>1, <3>2
  <2> QED BY <2>1, <2>2
<1>4. ASSUME NEW n \in S \cup {o}
      PROVE  \/ p2[n] \in S \cup {o} /\ l2[p2[n]] = n
             \/ l2[s] = n /\ p2[n] \in {s}
  <2>1. CASE n = o
    BY <2>1
  <2>2. CASE n # o /\ n = l[s]
    <3>1. p2[n] = o /\ l2[o] = n
      BY <1>1, <1>4, <2>2
    <3> QED BY <3>1
  <2>3. CASE n # o /\ n # l[s]
    <3>1. n \in S /\ p2[n] = p[n] /\ p[n] \in S /\ l[p[n]] = n
      BY <1>4, <2>3 DEF Chain
    <3> QED BY <1>1, <3>1
  <2> QED BY <2>1, <2>2, <2>3
<1> QED BY <1>2, <1>3, <1>4 DEF Chain

(* A walk along the list finds its nodes.                                    *)
LEMMA ChainIsReached ==
  ASSUME NEW l \in [Heap!Addr -> Heap!Node \cup {Null}], NEW p, NEW S, S \subseteq Heap!Node,
         NEW s \in Heap!Level, NEW B \in Nat, NEW rk \in [Heap!Node -> 0 .. B], NEW H,
         Chain(l, p, S, s, rk, H)
  PROVE  Heap!Reach(l, s) \ {s} = S
<1> DEFINE R == Heap!Reach(l, s)
<1>1. s \notin S /\ Null \notin S /\ s \in Heap!Addr /\ Heap!Node \subseteq Heap!Addr /\ s # Null
  BY Spaces
<1>2. R \subseteq S \cup {s}
  <2>1. \A n \in S \cup {s} : n # Null => l[n] = Null \/ l[n] \in S \cup {s}
    BY DEF Chain
  <2> QED BY <2>1, ReachLeast
<1>3. s \in R /\ \A n \in R : l[n] = Null \/ l[n] \in R
  BY <1>1, ReachClosed
<1> HIDE DEF R
<1> DEFINE T == {k \in Nat : \E n \in S \ R : k = B - rk[n]}
<1>4. S \subseteq R
  <2> SUFFICES ASSUME NEW n0 \in S, n0 \notin R PROVE FALSE
    OBVIOUS
  <2>1. \A n \in S : rk[n] \in 0 .. B
    OBVIOUS
  <2>2. B - rk[n0] \in T
    BY <2>1
  <2>3. PICK k \in T : \A j \in T : k <= j
    BY <2>2, Least
  <2>4. PICK n \in S \ R : k = B - rk[n]
    BY <2>3
  <2>5. \A j \in S \ R : ~ (rk[n] < rk[j])
    <3> SUFFICES ASSUME NEW j \in S \ R, rk[n] < rk[j] PROVE FALSE
      OBVIOUS
    <3>1. B - rk[j] \in T
      BY <2>1
    <3>2. k <= B - rk[j]
      BY <2>3, <3>1
    <3> QED BY <2>1, <2>4, <3>2
  <2>6. CASE p[n] \in S /\ l[p[n]] = n
    <3>1. rk[n] < rk[p[n]]
      BY <1>1, <2>6 DEF Chain
    <3>2. p[n] \in R
      BY <2>5, <2>6, <3>1
    <3> QED BY <1>1, <1>3, <2>4, <2>6, <3>2
  <2>7. CASE l[s] = n
    BY <1>1, <1>3, <2>4, <2>7
  <2> QED BY <2>4, <2>6, <2>7 DEF Chain
<1> QED BY <1>1, <1>2, <1>4 DEF R

LEMMA ChainIsEmpty ==
  ASSUME NEW l \in [Heap!Addr -> Heap!Node \cup {Null}], NEW p, NEW S, S \subseteq Heap!Node,
         NEW s \in Heap!Level, NEW B \in Nat, NEW rk \in [Heap!Node -> 0 .. B], NEW H,
         Chain(l, p, S, s, rk, H), l[s] = Null
  PROVE  S = {}
<1>1. Heap!Reach(l, s) \subseteq {s}
  BY ReachLeast
<1> QED BY <1>1, ChainIsReached

-----------------------------------------------------------------------------
(* The invariant of the memory: each version in use is owned by an object.    *)

RegionEnd(fs, fr, s) == IF s < Len(fs) THEN fs[s + 1] ELSE fr

(* The versions of an object are in distinct scopes, its own is the newest.   *)
Owned(m, own, top) ==
  /\ own \in [Heap!Node -> HeapObj \cup {Null}]
  /\ \A p \in HeapObj : own[p] = IF m.scope[p] # Heap!NoScope THEN p ELSE Null
  /\ \A n \in Heap!Node : own[n] # Null => m.scope[n] \in 0 .. top /\ m.data[n] \in Val
  /\ \A n \in Heap!Cell : own[n] # Null => m.scope[n] < m.scope[own[n]]
  /\ \A n, k \in Heap!Node : own[n] # Null /\ own[n] = own[k] /\ m.scope[n] = m.scope[k] => n = k

(* Restore pointers lead to older versions, in the region of their scope.     *)
Saved(m, own, fs, fr) ==
  /\ \A n \in Heap!Node :
       own[n] # Null /\ m.restore[n] # Null =>
         /\ m.restore[n] \in Heap!Cell
         /\ own[m.restore[n]] = own[n]
         /\ m.scope[m.restore[n]] < m.scope[n]
         /\ fs[m.scope[n]] <= m.restore[n]
         /\ m.restore[n] < RegionEnd(fs, fr, m.scope[n])
  /\ \A c \in Heap!Cell : own[c] # Null => \E n \in Heap!Node : own[n] # Null /\ m.restore[n] = c

(* The versions in the list of scope s; d is an object outside all lists.     *)
Members(m, own, d, s) == {n \in Heap!Node : own[n] # Null /\ n # d /\ m.scope[n] = s}

Lists(m, own, rk, B, d, lv, top) ==
  /\ B \in Nat /\ rk \in [Heap!Node -> 0 .. B]
  /\ \A s \in 0 .. lv : Chain(m.link, m.prev, Members(m, own, d, s), s, rk, {s})
  /\ \A s \in lv + 1 .. top : Chain(m.link, m.prev, Members(m, own, d, s), s, rk, Unlinked)

LEMMA SeqElement ==
  ASSUME NEW X, NEW q \in Seq(X), NEW i \in 1 .. Len(q)
  PROVE  q[i] \in X
OBVIOUS

(* A saved copy is reached from its owner, so it lies below the free memory.  *)
LEMMA CopyIsSaved ==
  ASSUME NEW m \in Heap!Memory, NEW own, NEW top \in Heap!Level, NEW fr \in Nat,
         NEW fs \in Seq(MaxHeapLevel + 1 .. fr), Len(fs) = top,
         Owned(m, own, top), Saved(m, own, fs, fr), NEW c \in Heap!Cell, own[c] # Null
  PROVE  /\ \E n \in Heap!Node : /\ own[n] = own[c] /\ m.restore[n] = c
                            /\ m.scope[c] < m.scope[n] /\ m.scope[n] \in 0 .. top
                            /\ c < RegionEnd(fs, fr, m.scope[n])
         /\ c < fr
<1>1. PICK n \in Heap!Node : own[n] # Null /\ m.restore[n] = c
  BY DEF Saved
<1>2. c # Null
  BY Spaces
<1>3. own[n] = own[c] /\ m.scope[c] < m.scope[n] /\ c < RegionEnd(fs, fr, m.scope[n])
  BY <1>1, <1>2 DEF Saved
<1>4. m.scope[n] \in 0 .. top
  BY <1>1 DEF Owned
<1>5. c < fr
  <2>1. CASE m.scope[n] < Len(fs)
    <3>1. fs[m.scope[n] + 1] \in MaxHeapLevel + 1 .. fr
      <4>1. top \in Nat
        BY Spaces
      <4>2. m.scope[n] + 1 \in 1 .. Len(fs)
        BY <1>4, <2>1, <4>1
      <4> QED BY <4>2, SeqElement
    <3>2. c \in Nat /\ MaxHeapLevel \in Nat
      BY Spaces
    <3> QED BY <1>3, <2>1, <3>1, <3>2 DEF RegionEnd
  <2>2. CASE ~ (m.scope[n] < Len(fs))
    BY <1>3, <2>2 DEF RegionEnd
  <2> QED BY <2>1, <2>2
<1> QED BY <1>1, <1>3, <1>4, <1>5

(* The newest copy is the one that the object itself points to.               *)
LEMMA NewestCopy ==
  ASSUME NEW m \in Heap!Memory, NEW own, NEW top \in Heap!Level, NEW fs, NEW fr,
         Owned(m, own, top), Saved(m, own, fs, fr),
         NEW o \in HeapObj, NEW n0 \in Heap!Cell, own[n0] = o
  PROVE  /\ m.restore[o] \in Heap!Cell /\ own[m.restore[o]] = o /\ own[o] = o
         /\ n0 = m.restore[o] \/ m.scope[n0] < m.scope[m.restore[o]]
<1> DEFINE S == {n \in Heap!Cell : own[n] = o}
           T == {k \in Nat : \E n \in S : k = top - m.scope[n]}
<1>1. o # Null /\ Null \notin Heap!Cell /\ S \subseteq Heap!Node /\ top \in Nat
  BY Spaces, HeapAssumption
<1>2. \A n \in S : m.scope[n] \in 0 .. top /\ n \in Heap!Node /\ own[n] # Null
  BY <1>1 DEF Owned
<1>3. \A n \in S : top - m.scope[n] \in T
  BY <1>1, <1>2
<1>4. n0 \in S
  OBVIOUS
<1>5. PICK k \in T : \A j \in T : k <= j
  BY <1>3, <1>4, Least
<1>6. PICK x \in S : k = top - m.scope[x]
  BY <1>5
<1>7. \A n \in S : m.scope[n] <= m.scope[x]
  BY <1>1, <1>2, <1>3, <1>5, <1>6
<1>8. PICK y \in Heap!Node : own[y] # Null /\ m.restore[y] = x
  BY <1>2, <1>6 DEF Saved
<1>9. own[y] = o /\ m.scope[x] < m.scope[y]
  BY <1>1, <1>6, <1>8 DEF Saved
<1>10. m.scope[y] \in 0 .. top
  BY <1>8 DEF Owned
<1>11. y = o
  <2>1. y \notin S
    BY <1>2, <1>6, <1>7, <1>9, <1>10
  <2>2. y \in HeapObj
    BY <1>9, <2>1 DEF Heap!Node
  <2> QED BY <1>8, <1>9, <2>2 DEF Owned
<1>12. m.restore[o] = x
  BY <1>8, <1>11
<1>13. n0 = x \/ m.scope[n0] # m.scope[x]
  BY <1>1, <1>2, <1>6 DEF Owned
<1> QED BY <1>2, <1>4, <1>6, <1>7, <1>9, <1>11, <1>12, <1>13

(* What is linked to a version in a list.                                     *)
NextTo(l, p, S, s, n) ==
  /\ p[n] \in (S \cup {s}) \ {n} /\ l[p[n]] = n
  /\ l[n] \in (S \cup {Null}) \ {n}
  /\ l[s] \in S \cup {Null}

LEMMA Neighbours ==
  ASSUME NEW l, NEW p, NEW S, S \subseteq Heap!Node, NEW s \in Heap!Level, NEW B \in Nat,
         NEW rk \in [Heap!Node -> 0 .. B], Chain(l, p, S, s, rk, {s}), NEW n \in S
  PROVE  NextTo(l, p, S, s, n)
<1>1. rk[n] \in Nat /\ n # Null
  <2>1. rk[n] \in Nat
    BY RankIsNat
  <2> QED BY <2>1, Spaces
<1>2. l[n] = Null \/ (l[n] \in S /\ rk[l[n]] < rk[n])
  BY DEF Chain
<1>3. \/ p[n] \in S /\ l[p[n]] = n
      \/ l[s] = n /\ p[n] = s
  BY DEF Chain
<1>4. p[n] \in S => rk[n] < rk[p[n]]
  BY <1>1, <1>3, Spaces DEF Chain
<1>5. p[n] # n
  BY <1>1, <1>3, <1>4, Spaces
<1> QED BY <1>1, <1>2, <1>3, <1>5 DEF Chain, NextTo

-----------------------------------------------------------------------------
(* The operations on the memory keep the invariant.                           *)

(* A new object in the list of scope s.                                       *)
Builds(m, own, fs, fr, top, o, m2) ==
  \E own2, rk2, B2 :
    /\ \A n \in Heap!Node : own2[n] = IF n = o THEN o ELSE own[n]
    /\ Owned(m2, own2, top) /\ Saved(m2, own2, fs, fr)
    /\ Lists(m2, own2, rk2, B2, Null, top, top)

LEMMA BuildStep ==
  ASSUME NEW m \in Heap!Memory, NEW own, NEW rk, NEW B, NEW top \in Heap!Level, NEW fs, NEW fr,
         Owned(m, own, top), Saved(m, own, fs, fr), Lists(m, own, rk, B, Null, top, top),
         NEW o \in HeapObj, m.scope[o] = Heap!NoScope, NEW s \in 0 .. top, NEW v \in Val,
         NEW m2, m2 = Built(m, o, s, v)
  PROVE  Builds(m, own, fs, fr, top, o, m2)
<1> DEFINE own2 == [n \in Heap!Node |-> IF n = o THEN o ELSE own[n]]
           rk2 == [n \in Heap!Node |-> IF n = o THEN B + 1 ELSE rk[n]]
           S(t) == Members(m, own, Null, t)
           S2(t) == Members(m2, own2, Null, t)
<1>0. /\ o \in Heap!Node /\ o # Null /\ HeapObj \cap Heap!Cell = {} /\ Null \notin Heap!Node
      /\ top \in Nat
      /\ s \in Heap!Level /\ 0 .. top \subseteq Heap!Level /\ Heap!Level \cap Heap!Node = {}
      /\ Heap!NoScope = -1
      /\ Heap!Level \subseteq Heap!Addr /\ Heap!Node \subseteq Heap!Addr
  BY Spaces
<1>1. /\ \A a \in Heap!Addr : m2.link[a] = IF a = s THEN o ELSE IF a = o THEN m.link[s] ELSE m.link[a]
      /\ \A n \in Heap!Node :
           /\ m2.prev[n] = IF n = o THEN s ELSE IF n = m.link[s] THEN o ELSE m.prev[n]
           /\ m2.restore[n] = IF n = o THEN Null ELSE m.restore[n]
           /\ m2.scope[n] = IF n = o THEN s ELSE m.scope[n]
           /\ m2.data[n] = IF n = o THEN v ELSE m.data[n]
  BY <1>0, BuiltFields
<1>2. own[o] = Null /\ \A n \in Heap!Node : own[n] # o
  <2>1. own[o] = Null
    BY DEF Owned
  <2>2. ASSUME NEW n \in Heap!Node, own[n] = o PROVE FALSE
    <3>1. CASE n \in Heap!Cell
      <4>1. m.scope[n] \in 0 .. top /\ m.scope[n] < m.scope[o]
        BY <1>0, <2>2, <3>1 DEF Owned
      <4> QED BY <1>0, <4>1
    <3>2. CASE n \in HeapObj
      BY <1>0, <2>1, <2>2, <3>2 DEF Owned
    <3> QED BY <3>1, <3>2 DEF Heap!Node
  <2> QED BY <2>1, <2>2
<1>3. Owned(m2, own2, top)
  <2>1. own2 \in [Heap!Node -> HeapObj \cup {Null}]
    BY DEF Owned
  <2>2. \A p \in HeapObj : own2[p] = IF m2.scope[p] # Heap!NoScope THEN p ELSE Null
    BY <1>0, <1>1 DEF Owned, Heap!Node
  <2>3. \A n \in Heap!Node : own2[n] # Null => m2.scope[n] \in 0 .. top /\ m2.data[n] \in Val
    BY <1>0, <1>1 DEF Owned
  <2>4. \A n \in Heap!Cell : own2[n] # Null => m2.scope[n] < m2.scope[own2[n]]
    BY <1>0, <1>1, <1>2 DEF Owned, Heap!Node
  <2>5. \A n, k \in Heap!Node :
          own2[n] # Null /\ own2[n] = own2[k] /\ m2.scope[n] = m2.scope[k] => n = k
    BY <1>0, <1>1, <1>2 DEF Owned
  <2> HIDE DEF own2
  <2> QED BY <2>1, <2>2, <2>3, <2>4, <2>5 DEF Owned
<1>4. Saved(m2, own2, fs, fr)
  <2>1. ASSUME NEW n \in Heap!Node, own2[n] # Null, m2.restore[n] # Null
        PROVE  /\ m2.restore[n] \in Heap!Cell
               /\ own2[m2.restore[n]] = own2[n]
               /\ m2.scope[m2.restore[n]] < m2.scope[n]
               /\ fs[m2.scope[n]] <= m2.restore[n]
               /\ m2.restore[n] < RegionEnd(fs, fr, m2.scope[n])
    <3>1. n # o /\ own[n] # Null /\ m2.restore[n] = m.restore[n] /\ m2.scope[n] = m.scope[n]
      BY <1>1, <2>1
    <3>2. m.restore[n] \in Heap!Cell /\ m.restore[n] \in Heap!Node /\ m.restore[n] # o
      BY <1>0, <2>1, <3>1 DEF Saved, Heap!Node
    <3>3. own2[m.restore[n]] = own[m.restore[n]] /\ m2.scope[m.restore[n]] = m.scope[m.restore[n]]
      BY <1>1, <3>2
    <3> QED BY <2>1, <3>1, <3>2, <3>3 DEF Saved
  <2>2. ASSUME NEW c \in Heap!Cell, own2[c] # Null
        PROVE  \E n \in Heap!Node : own2[n] # Null /\ m2.restore[n] = c
    <3>1. c # o /\ c \in Heap!Node /\ own[c] # Null
      BY <1>0, <2>2 DEF Heap!Node
    <3>2. PICK n \in Heap!Node : own[n] # Null /\ m.restore[n] = c
      BY <3>1 DEF Saved
    <3>3. n # o
      BY <1>2, <3>2
    <3> QED BY <1>1, <3>2, <3>3
  <2> HIDE DEF own2
  <2> QED BY <2>1, <2>2 DEF Saved
<1>5. Lists(m2, own2, rk2, B + 1, Null, top, top)
  <2>1. B \in Nat /\ B + 1 \in Nat /\ rk \in [Heap!Node -> 0 .. B] /\ rk2 \in [Heap!Node -> 0 .. B + 1]
    <3>1. B \in Nat /\ rk \in [Heap!Node -> 0 .. B]
      BY DEF Lists
    <3>2. ASSUME NEW n \in Heap!Node PROVE rk2[n] \in 0 .. B + 1
      <4>1. rk[n] \in Nat /\ rk[n] <= B
        BY <3>1, RankIsNat
      <4> QED BY <3>1, <4>1
    <3> QED BY <3>1, <3>2
  <2>2. ASSUME NEW t \in 0 .. top
        PROVE  /\ S(t) \subseteq Heap!Node /\ o \notin S(t) /\ t \in Heap!Level /\ t # o
               /\ Chain(m.link, m.prev, S(t), t, rk, {t})
               /\ m.link[t] \in S(t) \cup {Null}
               /\ S2(t) = IF t = s THEN S(t) \cup {o} ELSE S(t)
    <3>1. S(t) \subseteq Heap!Node /\ o \notin S(t) /\ t \in Heap!Level /\ t # o
      BY <1>0, <1>2 DEF Members
    <3>2. Chain(m.link, m.prev, S(t), t, rk, {t})
      BY DEF Lists
    <3>3. m.link[t] \in S(t) \cup {Null}
      BY <3>2 DEF Chain
    <3>4. S2(t) = IF t = s THEN S(t) \cup {o} ELSE S(t)
      <4>1. own2[o] = o /\ m2.scope[o] = s
        BY <1>0, <1>1
      <4>2. \A n \in Heap!Node : n # o => own2[n] = own[n] /\ m2.scope[n] = m.scope[n]
        BY <1>1
      <4> HIDE DEF own2
      <4>3. \A n \in Heap!Node \ {o} : n \in S2(t) <=> n \in S(t)
        BY <4>2 DEF Members
      <4>4. o \in S2(t) <=> t = s
        BY <1>0, <4>1 DEF Members
      <4>5. S2(t) \subseteq Heap!Node
        BY DEF Members
      <4> HIDE DEF S, S2
      <4>6. CASE t = s
        <5>1. \A n \in Heap!Node : n \in S2(t) <=> n \in S(t) \cup {o}
          BY <4>3, <4>4, <4>6
        <5> QED BY <1>0, <3>1, <4>5, <4>6, <5>1
      <4>7. CASE t # s
        <5>1. \A n \in Heap!Node : n \in S2(t) <=> n \in S(t)
          BY <3>1, <4>3, <4>4, <4>7
        <5> QED BY <1>0, <3>1, <4>5, <4>7, <5>1
      <4> QED BY <4>6, <4>7
    <3> QED BY <3>1, <3>2, <3>3, <3>4
  <2>3. Chain(m2.link, m2.prev, S2(s), s, rk2, {s})
    <3>1. S(s) \subseteq Heap!Node /\ o \notin S(s) /\ s # o /\ S2(s) = S(s) \cup {o}
          /\ Chain(m.link, m.prev, S(s), s, rk, {s})
      BY <2>2
    <3> HIDE DEF S, S2
    <3>2. \A a \in S(s) \cup {o, s} :
            m2.link[a] = IF a = s THEN o ELSE IF a = o THEN m.link[s] ELSE m.link[a]
      BY <1>0, <1>1, <3>1
    <3>3. \A n \in S(s) \cup {o} :
            m2.prev[n] = IF n = o THEN s ELSE IF n = m.link[s] THEN o ELSE m.prev[n]
      BY <1>0, <1>1, <3>1
    <3>4. rk2[o] = B + 1 /\ \A n \in S(s) : rk2[n] = rk[n]
      BY <1>0, <3>1
    <3> HIDE DEF rk2
    <3>5. Chain(m2.link, m2.prev, S(s) \cup {o}, s, rk2, {s})
      BY <1>0, <2>1, <3>1, <3>2, <3>3, <3>4, ChainPush
    <3> QED BY <3>1, <3>5
  <2>4. ASSUME NEW t \in 0 .. top, t # s
        PROVE  Chain(m2.link, m2.prev, S2(t), t, rk2, {t})
    <3>1. S(t) \subseteq Heap!Node /\ o \notin S(t) /\ t # o /\ S2(t) = S(t)
          /\ Chain(m.link, m.prev, S(t), t, rk, {t}) /\ t \in Heap!Level
      BY <2>2, <2>4
    <3>2. m.link[s] \notin S(t)
      <4>1. m.link[s] \in S(s) \cup {Null}
        BY <2>2
      <4> QED BY <1>0, <2>4, <4>1 DEF Members
    <3> HIDE DEF S, S2
    <3>3. \A a \in S(t) \cup {t} : m2.link[a] = m.link[a]
      <4>1. \A a \in S(t) \cup {t} : a \in Heap!Addr /\ a # s /\ a # o
        BY <1>0, <2>4, <3>1
      <4> QED BY <1>1, <4>1
    <3>4. \A n \in S(t) : m2.prev[n] = m.prev[n] /\ rk2[n] = rk[n]
      BY <1>1, <3>1, <3>2
    <3> HIDE DEF rk2
    <3>5. Chain(m2.link, m2.prev, S(t), t, rk2, {t})
      BY <3>1, <3>3, <3>4, ChainSame
    <3> QED BY <3>1, <3>5
  <2>5. top + 1 .. top = {}
    BY <1>0
  <2> HIDE DEF own2, rk2
  <2> QED BY <2>1, <2>3, <2>4, <2>5 DEF Lists
<1>6. \A n \in Heap!Node : own2[n] = IF n = o THEN o ELSE own[n]
  OBVIOUS
<1> HIDE DEF own2, rk2
<1> QED BY <1>3, <1>4, <1>5, <1>6 DEF Builds

(* Where an object that a write will save is linked.                          *)
Updatable(m, own, rk, B, top, o, c) ==
  LET s == m.scope[o]
      S(t) == Members(m, own, Null, t)
  IN
  /\ own[o] = o /\ s \in 0 .. top /\ s < top /\ s \in Heap!Level
  /\ own[c] = Null
  /\ B \in Nat /\ B + 1 \in Nat /\ rk \in [Heap!Node -> 0 .. B] /\ rk[o] \in Nat /\ rk[o] <= B
  /\ \A t \in 0 .. top : Chain(m.link, m.prev, S(t), t, rk, {t})
  /\ \A t \in 0 .. top :
        /\ S(t) \subseteq Heap!Node /\ c \notin S(t) /\ (o \in S(t) <=> t = s)
        /\ t \in Heap!Level /\ t # o /\ t # c
        /\ m.link[t] \in S(t) \cup {Null}
        /\ \A r \in 0 .. top : r # t => S(r) \cap S(t) = {}
  /\ m.prev[o] \in S(s) \cup {s} /\ m.prev[o] # o
  /\ m.link[o] \in S(s) \cup {Null} /\ m.link[o] # o
  /\ m.prev[o] \in Heap!Addr /\ m.prev[o] \notin {o, c, top}
  /\ m.link[o] \notin {o, c, top} /\ m.link[top] \notin {o, c}
  /\ (m.link[o] = Null \/ m.link[o] # m.link[top])

LEMMA IsUpdatable ==
  ASSUME NEW m \in Heap!Memory, NEW own, NEW rk, NEW B, NEW top \in Heap!Level,
         NEW c \in Heap!Cell, NEW fs \in Seq(MaxHeapLevel + 1 .. c), Len(fs) = top,
         Owned(m, own, top), Saved(m, own, fs, c), Lists(m, own, rk, B, Null, top, top),
         NEW o \in HeapObj, m.scope[o] # Heap!NoScope, m.scope[o] # top
  PROVE  Updatable(m, own, rk, B, top, o, c)
<1> DEFINE S(t) == Members(m, own, Null, t)
           s == m.scope[o]
<1>0. /\ o \in Heap!Node /\ c \in Heap!Node /\ o # Null /\ c # Null /\ HeapObj \cap Heap!Cell = {}
      /\ o # c /\ c \in Nat /\ Null \notin Heap!Node /\ top \in Nat
      /\ 0 .. top \subseteq Heap!Level /\ Heap!Level \cap Heap!Node = {} /\ Heap!NoScope = -1
      /\ Heap!Level \subseteq Heap!Addr /\ Heap!Node \subseteq Heap!Addr /\ Null \notin Heap!Addr
  BY Spaces
<1>1. own[o] = o /\ s \in 0 .. top /\ s < top /\ s \in Heap!Level
  <2>1. own[o] = o
    BY DEF Owned
  <2>2. s \in 0 .. top
    BY <1>0, <2>1 DEF Owned
  <2> QED BY <1>0, <2>1, <2>2
<1>2. own[c] = Null
  <2>1. own[c] # Null => c < c
    BY <1>0, CopyIsSaved
  <2> QED BY <1>0, <2>1
<1>3. /\ B \in Nat /\ B + 1 \in Nat /\ rk \in [Heap!Node -> 0 .. B] /\ rk[o] \in Nat /\ rk[o] <= B
      /\ \A t \in 0 .. top : Chain(m.link, m.prev, S(t), t, rk, {t})
  <2>1. B \in Nat /\ rk \in [Heap!Node -> 0 .. B]
    BY DEF Lists
  <2>2. \A t \in 0 .. top : Chain(m.link, m.prev, S(t), t, rk, {t})
    BY DEF Lists
  <2> QED BY <1>0, <2>1, <2>2, RankIsNat
<1>4. \A t \in 0 .. top :
        /\ S(t) \subseteq Heap!Node /\ c \notin S(t) /\ (o \in S(t) <=> t = s)
        /\ t \in Heap!Level /\ t # o /\ t # c
        /\ m.link[t] \in S(t) \cup {Null}
        /\ \A r \in 0 .. top : r # t => S(r) \cap S(t) = {}
  <2> TAKE t \in 0 .. top
  <2>1. m.link[t] \in S(t) \cup {Null}
    BY <1>3 DEF Chain
  <2>2. t \in Heap!Level /\ t # o /\ t # c
    BY <1>0
  <2>3. S(t) \subseteq Heap!Node /\ c \notin S(t) /\ (o \in S(t) <=> t = s)
    BY <1>0, <1>1, <1>2 DEF Members
  <2>4. \A r \in 0 .. top : r # t => S(r) \cap S(t) = {}
    BY DEF Members
  <2> QED BY <2>1, <2>2, <2>3, <2>4
<1>5. /\ m.prev[o] \in S(s) \cup {s} /\ m.prev[o] # o
      /\ m.link[o] \in S(s) \cup {Null} /\ m.link[o] # o
  <2>1. S(s) \subseteq Heap!Node /\ o \in S(s) /\ Chain(m.link, m.prev, S(s), s, rk, {s})
    BY <1>1, <1>3, <1>4
  <2>2. s \in Heap!Level /\ B \in Nat /\ rk \in [Heap!Node -> 0 .. B]
    BY <1>1, <1>3
  <2> HIDE DEF S, s
  <2>3. NextTo(m.link, m.prev, S(s), s, o)
    BY <2>1, <2>2, Neighbours
  <2> QED BY <2>3 DEF NextTo
<1>6. /\ m.prev[o] \in Heap!Addr /\ m.prev[o] \notin {o, c, top}
      /\ m.link[o] \notin {o, c, top} /\ m.link[top] \notin {o, c}
      /\ (m.link[o] = Null \/ m.link[o] # m.link[top])
  <2>1. top \in 0 .. top /\ s # top
    BY <1>0, <1>1
  <2>2. S(s) \subseteq Heap!Node /\ S(top) \subseteq Heap!Node /\ c \notin S(s) /\ c \notin S(top)
        /\ o \notin S(top) /\ S(s) \cap S(top) = {} /\ m.link[top] \in S(top) \cup {Null}
    BY <1>1, <1>4, <2>1
  <2> HIDE DEF S, s
  <2> QED BY <1>0, <1>1, <1>5, <2>1, <2>2
<1> QED BY <1>1, <1>2, <1>3, <1>4, <1>5, <1>6 DEF Updatable

LEMMA UpdateIsMemory ==
  ASSUME NEW m \in Heap!Memory, NEW own, NEW rk, NEW B, NEW top \in Heap!Level,
         NEW c \in Heap!Cell, NEW fs \in Seq(MaxHeapLevel + 1 .. c), Len(fs) = top,
         Owned(m, own, top), Saved(m, own, fs, c), Lists(m, own, rk, B, Null, top, top),
         NEW o \in HeapObj, m.scope[o] # Heap!NoScope, m.scope[o] # top
  PROVE  Heap!Update(m, o, c, top) \in Heap!Memory
<1>1. Updatable(m, own, rk, B, top, o, c)
  BY IsUpdatable
<1>2. /\ m.prev[o] \in Heap!Addr /\ m.prev[o] \notin {o, c, top}
      /\ m.link[o] \notin {o, c} /\ m.link[top] \notin {o, c}
      /\ (m.link[o] = Null \/ m.link[o] # m.link[top])
  BY <1>1 DEF Updatable
<1> QED BY <1>2, UpdateFields

(* The memory u after an assignment to the data of o.                         *)
Assigned(u, o, v, m2) ==
  /\ m2 \in Heap!Memory
  /\ m2.link = u.link /\ m2.prev = u.prev /\ m2.restore = u.restore /\ m2.scope = u.scope
  /\ m2.data[o] = v
  /\ \A n \in Heap!Node : n # o => m2.data[n] = u.data[n]

LEMMA AssignedFields ==
  ASSUME NEW u \in Heap!Memory, NEW o \in HeapObj, NEW v \in Val
  PROVE  Assigned(u, o, v, [u EXCEPT !.data[o] = v])
BY Fields, Spaces DEF Heap!Memory, Assigned

Saves(m, own, fs, top, o, c, m2) ==
  /\ \A n \in Heap!Node : m2.restore[n] = IF n = c THEN m.restore[o]
                                     ELSE IF n = o THEN c ELSE m.restore[n]
  /\ \A n \in Heap!Node : m2.scope[n] = IF n = c THEN m.scope[o]
                                   ELSE IF n = o THEN top ELSE m.scope[n]
  /\ \A n \in Heap!Node : n # o => m2.data[n] = IF n = c THEN m.data[o] ELSE m.data[n]
  /\ own[c] = Null
  /\ \E own2, rk2, B2 :
       /\ \A n \in Heap!Node : own2[n] = IF n = c THEN o ELSE own[n]
       /\ Owned(m2, own2, top) /\ Saved(m2, own2, fs, c + 1)
       /\ Lists(m2, own2, rk2, B2, Null, top, top)

(* A copy is saved at the free cell c, and o goes to the list of the top      *)
(* scope; the data of o is then assigned.                                     *)
LEMMA UpdateStep ==
  ASSUME NEW m \in Heap!Memory, NEW own, NEW rk, NEW B, NEW top \in Heap!Level,
         NEW c \in Heap!Cell, NEW fs \in Seq(MaxHeapLevel + 1 .. c), Len(fs) = top,
         Owned(m, own, top), Saved(m, own, fs, c), Lists(m, own, rk, B, Null, top, top),
         NEW o \in HeapObj, m.scope[o] # Heap!NoScope, m.scope[o] # top,
         NEW v \in Val, NEW m2, Assigned(Heap!Update(m, o, c, top), o, v, m2)
  PROVE  Saves(m, own, fs, top, o, c, m2)
<1> DEFINE own2 == [n \in Heap!Node |-> IF n = c THEN o ELSE own[n]]
           rk2 == [n \in Heap!Node |-> IF n = c THEN rk[o] ELSE IF n = o THEN B + 1 ELSE rk[n]]
           S(t) == Members(m, own, Null, t)
           S2(t) == Members(m2, own2, Null, t)
           s == m.scope[o]
<1>0. /\ o \in Heap!Node /\ c \in Heap!Node /\ o # Null /\ c # Null /\ HeapObj \cap Heap!Cell = {}
      /\ o # c /\ c \in Nat /\ Null \notin Heap!Node /\ top \in Nat
      /\ 0 .. top \subseteq Heap!Level /\ Heap!Level \cap Heap!Node = {} /\ Heap!NoScope = -1
      /\ Heap!Level \subseteq Heap!Addr /\ Heap!Node \subseteq Heap!Addr /\ Null \notin Heap!Addr
  BY Spaces
<1>9a. Updatable(m, own, rk, B, top, o, c)
  BY IsUpdatable
<1>1. own[o] = o /\ s \in 0 .. top /\ s < top /\ s \in Heap!Level
  BY <1>9a DEF Updatable
<1>2. own[c] = Null
  BY <1>9a DEF Updatable
<1>3. /\ B \in Nat /\ B + 1 \in Nat /\ rk \in [Heap!Node -> 0 .. B] /\ rk[o] \in Nat /\ rk[o] <= B
      /\ \A t \in 0 .. top : Chain(m.link, m.prev, S(t), t, rk, {t})
  BY <1>9a DEF Updatable
<1>4. \A t \in 0 .. top :
        /\ S(t) \subseteq Heap!Node /\ c \notin S(t) /\ (o \in S(t) <=> t = s)
        /\ t \in Heap!Level /\ t # o /\ t # c
        /\ m.link[t] \in S(t) \cup {Null}
        /\ \A r \in 0 .. top : r # t => S(r) \cap S(t) = {}
  BY <1>9a DEF Updatable
<1>5. /\ m.prev[o] \in S(s) \cup {s} /\ m.prev[o] # o
      /\ m.link[o] \in S(s) \cup {Null} /\ m.link[o] # o
  BY <1>9a DEF Updatable
<1>6. /\ m.prev[o] \in Heap!Addr /\ m.prev[o] \notin {o, c, top}
      /\ m.link[o] \notin {o, c, top} /\ m.link[top] \notin {o, c}
      /\ (m.link[o] = Null \/ m.link[o] # m.link[top])
  BY <1>9a DEF Updatable
<1>7. /\ m2.data[o] \in Val
      /\ \A a \in Heap!Addr : m2.link[a] =
             IF a = c THEN m.link[o] ELSE IF a = m.prev[o] THEN c
             ELSE IF a = o THEN m.link[top] ELSE IF a = top THEN o ELSE m.link[a]
      /\ \A n \in Heap!Node :
             /\ m2.prev[n] =
                  IF n = c THEN m.prev[o] ELSE IF n = m.link[o] THEN c
                  ELSE IF n = m.link[top] THEN o ELSE IF n = o THEN top ELSE m.prev[n]
             /\ m2.restore[n] =
                  IF n = c THEN m.restore[o] ELSE IF n = o THEN c ELSE m.restore[n]
             /\ m2.scope[n] =
                  IF n = c THEN m.scope[o] ELSE IF n = o THEN top ELSE m.scope[n]
             /\ n # o => m2.data[n] = IF n = c THEN m.data[o] ELSE m.data[n]
  BY <1>6, UpdateFields DEF Assigned
<1>8. \A n \in Heap!Node : own[n] = o => m.scope[n] <= s /\ m.scope[n] \in 0 .. top
  <2> SUFFICES ASSUME NEW n \in Heap!Node, own[n] = o
               PROVE  m.scope[n] <= s /\ m.scope[n] \in 0 .. top
    OBVIOUS
  <2>1. m.scope[n] \in 0 .. top
    BY <1>0 DEF Owned
  <2>2. CASE n \in Heap!Cell
    BY <1>0, <1>1, <2>1, <2>2 DEF Owned
  <2>3. CASE n \in HeapObj
    <3>1. n = o
      BY <1>0, <2>3 DEF Owned
    <3> QED BY <1>1, <2>1, <3>1
  <2> QED BY <2>1, <2>2, <2>3 DEF Heap!Node
<1>9. Owned(m2, own2, top)
  <2>1. own2 \in [Heap!Node -> HeapObj \cup {Null}]
    BY DEF Owned
  <2>2. \A p \in HeapObj : own2[p] = IF m2.scope[p] # Heap!NoScope THEN p ELSE Null
    BY <1>0, <1>1, <1>7 DEF Owned, Heap!Node
  <2>3. ASSUME NEW n \in Heap!Node, own2[n] # Null
        PROVE  m2.scope[n] \in 0 .. top /\ m2.data[n] \in Val
    <3>1. m.data[o] \in Val /\ m.scope[o] \in 0 .. top /\ top \in 0 .. top
      BY <1>0, <1>1 DEF Owned
    <3>2. CASE n = c \/ n = o
      BY <1>0, <1>1, <1>7, <3>1, <3>2
    <3>3. CASE n # c /\ n # o
      <4>1. own[n] # Null
        BY <2>3, <3>3
      <4>2. m.scope[n] \in 0 .. top /\ m.data[n] \in Val
        BY <4>1 DEF Owned
      <4> QED BY <1>7, <3>3, <4>2
    <3> QED BY <3>2, <3>3
  <2>4. \A n \in Heap!Cell : own2[n] # Null => m2.scope[n] < m2.scope[own2[n]]
    <3> SUFFICES ASSUME NEW n \in Heap!Cell, own2[n] # Null
                 PROVE  m2.scope[n] < m2.scope[own2[n]]
      OBVIOUS
    <3>1. n \in Heap!Node /\ n # o
      BY <1>0, Spaces
    <3>2. CASE n = c
      BY <1>0, <1>1, <1>7, <3>2
    <3>3. CASE n # c /\ own[n] = o
      <4>1. own2[n] = o /\ m2.scope[n] = m.scope[n] /\ m2.scope[o] = top
        BY <1>0, <1>7, <3>1, <3>3
      <4>2. m.scope[n] <= s /\ m.scope[n] \in 0 .. top
        BY <1>8, <3>1, <3>3
      <4> HIDE DEF own2
      <4> QED BY <1>0, <1>1, <4>1, <4>2
    <3>4. CASE n # c /\ own[n] # o
      <4>1. own2[n] = own[n] /\ own[n] # Null /\ m2.scope[n] = m.scope[n]
        BY <1>7, <3>1, <3>4
      <4>2. own[n] \in HeapObj /\ m.scope[n] < m.scope[own[n]]
        BY <3>1, <4>1 DEF Owned
      <4>3. own[n] \in Heap!Node /\ own[n] # c
        BY <1>0, <4>2, Spaces
      <4> QED BY <1>7, <3>4, <4>1, <4>2, <4>3
    <3> QED BY <3>2, <3>3, <3>4
  <2>5. ASSUME NEW n \in Heap!Node, NEW k \in Heap!Node, own2[n] # Null, own2[n] = own2[k],
               m2.scope[n] = m2.scope[k], n # k
        PROVE  FALSE
    <3>1. own2[n] = o => m2.scope[n] = IF n = o THEN top ELSE IF n = c THEN s ELSE m.scope[n]
      BY <1>0, <1>7
    <3>2. own2[k] = o => m2.scope[k] = IF k = o THEN top ELSE IF k = c THEN s ELSE m.scope[k]
      BY <1>0, <1>7
    <3>3. \A x \in Heap!Node \ {o, c} : own[x] = o => m.scope[x] < s
      <4> SUFFICES ASSUME NEW x \in Heap!Node \ {o, c}, own[x] = o PROVE m.scope[x] < s
        OBVIOUS
      <4>1. m.scope[x] # s
        BY <1>0, <1>1 DEF Owned
      <4> QED BY <1>1, <1>8, <4>1
    <3>4. CASE own2[n] = o
      BY <1>0, <1>1, <1>8, <2>5, <3>1, <3>2, <3>3, <3>4 DEF Owned
    <3>5. CASE own2[n] # o
      BY <1>0, <1>1, <1>7, <2>5, <3>5 DEF Owned
    <3> QED BY <3>4, <3>5
  <2> HIDE DEF own2
  <2> QED BY <2>1, <2>2, <2>3, <2>4, <2>5 DEF Owned
<1>10. Saved(m2, own2, fs, c + 1)
  <2>1. ASSUME NEW n \in Heap!Node, own2[n] # Null, m2.restore[n] # Null
        PROVE  /\ m2.restore[n] \in Heap!Cell
               /\ own2[m2.restore[n]] = own2[n]
               /\ m2.scope[m2.restore[n]] < m2.scope[n]
               /\ fs[m2.scope[n]] <= m2.restore[n]
               /\ m2.restore[n] < RegionEnd(fs, c + 1, m2.scope[n])
    <3>1. CASE n = o
      <4>1. m2.restore[n] = c /\ own2[c] = o /\ own2[n] = o /\ m2.scope[n] = top /\ m2.scope[c] = s
        BY <1>0, <1>1, <1>7, <3>1
      <4>2. fs[top] \in MaxHeapLevel + 1 .. c
        <5>1. top \in 1 .. Len(fs)
          BY <1>0, <1>1
        <5> QED BY <5>1, SeqElement
      <4>3. RegionEnd(fs, c + 1, top) = c + 1
        BY <1>0 DEF RegionEnd
      <4> QED BY <1>0, <1>1, <4>1, <4>2, <4>3, Spaces
    <3>2. CASE n # o
      <4> DEFINE k == IF n = c THEN o ELSE n
      <4>1. /\ k \in Heap!Node /\ own[k] # Null /\ own2[n] = own[k]
            /\ m2.restore[n] = m.restore[k] /\ m2.scope[n] = m.scope[k]
        BY <1>0, <1>1, <1>7, <2>1, <3>2
      <4> HIDE DEF k
      <4>2. /\ m.restore[k] \in Heap!Cell /\ own[m.restore[k]] = own[k]
            /\ m.scope[m.restore[k]] < m.scope[k]
            /\ fs[m.scope[k]] <= m.restore[k]
            /\ m.restore[k] < RegionEnd(fs, c, m.scope[k])
        BY <2>1, <4>1 DEF Saved
      <4>3. m.restore[k] # c /\ m.restore[k] # o /\ m.restore[k] \in Heap!Node
        BY <1>0, <1>2, <4>1, <4>2, Spaces
      <4>4. own2[m.restore[k]] = own[m.restore[k]] /\ m2.scope[m.restore[k]] = m.scope[m.restore[k]]
        BY <1>7, <4>3
      <4>5. m.restore[k] < RegionEnd(fs, c + 1, m.scope[k])
        <5>1. m.restore[k] \in Nat
          BY <4>2, Spaces
        <5> QED BY <1>0, <4>2, <5>1 DEF RegionEnd
      <4> QED BY <4>1, <4>2, <4>4, <4>5
    <3> QED BY <3>1, <3>2
  <2>2. ASSUME NEW e \in Heap!Cell, own2[e] # Null
        PROVE  \E n \in Heap!Node : own2[n] # Null /\ m2.restore[n] = e
    <3>1. CASE e = c
      <4>1. own2[o] # Null /\ m2.restore[o] = c
        BY <1>0, <1>1, <1>7
      <4> QED BY <1>0, <3>1, <4>1
    <3>2. CASE e # c
      <4>1. own[e] # Null
        BY <2>2, <3>2, Spaces
      <4>2. PICK n \in Heap!Node : own[n] # Null /\ m.restore[n] = e
        BY <4>1 DEF Saved
      <4>3. n # c
        BY <1>2, <4>2
      <4>4. CASE n = o
        <5>1. own2[c] # Null /\ m2.restore[c] = e
          BY <1>0, <1>7, <4>2, <4>4
        <5> QED BY <1>0, <5>1
      <4>5. CASE n # o
        <5>1. own2[n] # Null /\ m2.restore[n] = e
          BY <1>7, <4>2, <4>3, <4>5
        <5> QED BY <5>1
      <4> QED BY <4>4, <4>5
    <3> QED BY <3>1, <3>2
  <2> HIDE DEF own2
  <2> QED BY <2>1, <2>2 DEF Saved
<1>11. Lists(m2, own2, rk2, B + 1, Null, top, top)
  <2>1. rk2 \in [Heap!Node -> 0 .. B + 1]
    <3>2. ASSUME NEW n \in Heap!Node PROVE rk2[n] \in 0 .. B + 1
      <4>1. rk[n] \in Nat /\ rk[n] <= B
        BY <1>3, RankIsNat
      <4> QED BY <1>3, <4>1
    <3> QED BY <1>3, <3>2
  <2>2. \A t \in 0 .. top :
          /\ t = s => S2(t) = (S(t) \ {o}) \cup {c}
          /\ t = top => S2(t) = S(t) \cup {o}
          /\ t # s /\ t # top => S2(t) = S(t)
    <3> TAKE t \in 0 .. top
    <3>1. own2[o] = o /\ own2[c] = o /\ m2.scope[o] = top /\ m2.scope[c] = s
      BY <1>0, <1>1, <1>7
    <3>2. \A n \in Heap!Node : n # o /\ n # c => own2[n] = own[n] /\ m2.scope[n] = m.scope[n]
      BY <1>7
    <3> HIDE DEF own2, s
    <3>3. \A n \in Heap!Node \ {o, c} : n \in S2(t) <=> n \in S(t)
      BY <1>0, <3>2 DEF Members
    <3>4. /\ c \notin S(t) /\ (c \in S2(t) <=> t = s)
          /\ (o \in S2(t) <=> t = top) /\ (o \in S(t) <=> t = s)
      BY <1>0, <1>1, <1>2, <3>1 DEF Members, s
    <3>5. S(t) \subseteq Heap!Node /\ S2(t) \subseteq Heap!Node
      BY DEF Members
    <3> HIDE DEF S, S2
    <3>6. CASE t = s
      <4>1. ASSUME NEW n \in Heap!Node PROVE n \in S2(t) <=> n \in (S(t) \ {o}) \cup {c}
        <5>1. s # top
          BY <1>0, <1>1
        <5>2. CASE n = o
          BY <1>0, <3>4, <3>6, <5>1, <5>2
        <5>3. CASE n = c
          BY <3>4, <3>6, <5>3
        <5>4. CASE n # o /\ n # c
          BY <3>3, <5>4
        <5> QED BY <5>2, <5>3, <5>4
      <4>2. o \in Heap!Node /\ c \in Heap!Node /\ t # top
        BY <1>0, <1>1, <3>6
      <4> QED BY <3>5, <3>6, <4>1, <4>2
    <3>7. CASE t = top
      <4>1. ASSUME NEW n \in Heap!Node PROVE n \in S2(t) <=> n \in S(t) \cup {o}
        <5>1. s # top
          BY <1>0, <1>1
        <5>2. CASE n = o
          BY <3>4, <3>7, <5>2
        <5>3. CASE n = c
          BY <1>0, <3>4, <3>7, <5>1, <5>3
        <5>4. CASE n # o /\ n # c
          BY <3>3, <5>4
        <5> QED BY <5>2, <5>3, <5>4
      <4>2. o \in Heap!Node /\ c \in Heap!Node /\ t # s
        BY <1>0, <1>1, <3>7
      <4> QED BY <3>5, <3>7, <4>1, <4>2
    <3>8. CASE t # s /\ t # top
      <4>1. \A n \in Heap!Node : n \in S2(t) <=> n \in S(t)
        BY <3>3, <3>4, <3>8
      <4> QED BY <3>5, <3>8, <4>1
    <3> QED BY <3>6, <3>7, <3>8
  <2>3. S2(s) = (S(s) \ {o}) \cup {c} /\ S2(top) = S(top) \cup {o} /\ top \in 0 .. top /\ top # s
    <3>1. s \in 0 .. top /\ top \in 0 .. top /\ top # s
      BY <1>0, <1>1
    <3> HIDE DEF S, S2, s
    <3> QED BY <2>2, <3>1
  <2>4. /\ S(s) \subseteq Heap!Node /\ S(top) \subseteq Heap!Node /\ c \notin S(s)
        /\ c \notin S(top)
        /\ o \in S(s) /\ o \notin S(top) /\ S(s) \cap S(top) = {}
        /\ m.link[top] \in S(top) \cup {Null} /\ s # o /\ s # c
        /\ Chain(m.link, m.prev, S(s), s, rk, {s})
        /\ Chain(m.link, m.prev, S(top), top, rk, {top})
    BY <1>1, <1>3, <1>4, <2>3
  <2>5. Chain(m2.link, m2.prev, S2(s), s, rk2, {s})
    <3> HIDE DEF S, S2, s
    <3>1. \A a \in S2(s) \cup {s} :
            m2.link[a] = IF a = c THEN m.link[o] ELSE IF a = m.prev[o] THEN c ELSE m.link[a]
      <4>1. \A a \in S2(s) \cup {s} : a \in Heap!Addr /\ a # o /\ a # top
        BY <1>0, <1>1, <2>3, <2>4
      <4> QED BY <1>7, <4>1
    <3>2. \A n \in S2(s) :
            m2.prev[n] = IF n = c THEN m.prev[o] ELSE IF n = m.link[o] THEN c ELSE m.prev[n]
      <4>1. \A n \in S2(s) : n \in Heap!Node /\ (n # c => n # m.link[top] /\ n # o)
        BY <1>0, <2>3, <2>4
      <4> QED BY <1>7, <4>1
    <3>3. \A n \in S2(s) : rk2[n] = IF n = c THEN rk[o] ELSE rk[n]
      BY <1>0, <2>3, <2>4
    <3> HIDE DEF rk2
    <3>4. /\ S(s) \subseteq Heap!Node /\ s \in Heap!Level /\ B \in Nat
          /\ rk \in [Heap!Node -> 0 .. B]
          /\ Chain(m.link, m.prev, S(s), s, rk, {s}) /\ o \in S(s) /\ c \in Heap!Node
          /\ c \notin S(s)
          /\ S2(s) = (S(s) \ {o}) \cup {c}
      BY <1>0, <1>1, <1>3, <2>3, <2>4
    <3> QED BY <3>1, <3>2, <3>3, <3>4, ChainReplace
  <2>6. Chain(m2.link, m2.prev, S2(top), top, rk2, {top})
    <3> HIDE DEF S, S2, s
    <3>1. \A a \in S(top) \cup {o, top} :
            m2.link[a] = IF a = top THEN o ELSE IF a = o THEN m.link[top] ELSE m.link[a]
      <4>1. \A a \in S(top) \cup {o, top} : a \in Heap!Addr /\ a # c /\ a # m.prev[o]
        <5>1. \A a \in S(top) : a # s
          BY <1>0, <1>1, <2>4
        <5>2. \A a \in S(top) : a # m.prev[o]
          BY <1>5, <2>4, <5>1
        <5>3. \A a \in S(top) : a # c /\ a \in Heap!Addr
          BY <1>0, <2>4
        <5> QED BY <1>0, <1>6, <5>2, <5>3
      <4>2. TAKE a \in S(top) \cup {o, top}
      <4>3. a \in Heap!Addr /\ a # c /\ a # m.prev[o]
        BY <4>1
      <4> QED BY <1>0, <1>7, <4>3
    <3>2. \A n \in S(top) \cup {o} :
            m2.prev[n] = IF n = o THEN top ELSE IF n = m.link[top] THEN o ELSE m.prev[n]
      <4>1. \A n \in S(top) \cup {o} : n \in Heap!Node /\ n # c /\ n # m.link[o]
        BY <1>0, <1>5, <2>4
      <4> QED BY <1>0, <1>6, <1>7, <4>1
    <3>3. rk2[o] = B + 1 /\ \A n \in S(top) : rk2[n] = rk[n]
      BY <1>0, <2>4
    <3> HIDE DEF rk2
    <3>4. Chain(m2.link, m2.prev, S(top) \cup {o}, top, rk2, {top})
      <4>1. /\ S(top) \subseteq Heap!Node /\ top \in Heap!Level /\ B \in Nat
            /\ rk \in [Heap!Node -> 0 .. B]
            /\ Chain(m.link, m.prev, S(top), top, rk, {top}) /\ o \in Heap!Node /\ o \notin S(top)
        BY <1>0, <1>3, <2>4
      <4> QED BY <3>1, <3>2, <3>3, <4>1, ChainPush
    <3> QED BY <2>3, <3>4
  <2>7. ASSUME NEW t \in 0 .. top, t # s, t # top
        PROVE  Chain(m2.link, m2.prev, S2(t), t, rk2, {t})
    <3>1. /\ S(t) \subseteq Heap!Node /\ o \notin S(t) /\ c \notin S(t) /\ S2(t) = S(t)
          /\ t # o /\ t # c /\ t \in Heap!Level
          /\ S(t) \cap S(s) = {} /\ S(t) \cap S(top) = {}
          /\ Chain(m.link, m.prev, S(t), t, rk, {t})
      <4>1. S(t) \cap S(s) = {} /\ S(t) \cap S(top) = {}
        BY <1>1, <1>4, <2>3, <2>7
      <4>2. S2(t) = S(t)
        BY <2>2, <2>7
      <4> QED BY <1>3, <1>4, <2>7, <4>1, <4>2
    <3> HIDE DEF S, S2, s
    <3>2. \A a \in S(t) \cup {t} : m2.link[a] = m.link[a]
      <4>1. \A a \in S(t) \cup {t} : a \in Heap!Addr /\ a # c /\ a # o /\ a # m.prev[o] /\ a # top
        BY <1>0, <1>1, <1>5, <2>7, <3>1, <2>4
      <4> QED BY <1>7, <4>1
    <3>3. \A n \in S(t) : m2.prev[n] = m.prev[n] /\ rk2[n] = rk[n]
      <4>1. \A n \in S(t) : n \in Heap!Node /\ n # c /\ n # o /\ n # m.link[o] /\ n # m.link[top]
        BY <1>0, <1>5, <2>4, <3>1
      <4> QED BY <1>7, <4>1
    <3> HIDE DEF rk2
    <3>4. Chain(m2.link, m2.prev, S(t), t, rk2, {t})
      BY <3>1, <3>2, <3>3, ChainSame
    <3> QED BY <3>1, <3>4
  <2>8. top + 1 .. top = {}
    BY <1>0
  <2> HIDE DEF own2, rk2, S2, s
  <2>9. \A t \in 0 .. top : Chain(m2.link, m2.prev, S2(t), t, rk2, {t})
    BY <1>1, <2>3, <2>5, <2>6, <2>7
  <2> QED BY <1>3, <2>1, <2>8, <2>9 DEF Lists, S2
<1>12. \A n \in Heap!Node : own2[n] = IF n = c THEN o ELSE own[n]
  OBVIOUS
<1> HIDE DEF own2, rk2
<1>14. \E own3, rk3, B3 :
              /\ \A n \in Heap!Node : own3[n] = IF n = c THEN o ELSE own[n]
              /\ Owned(m2, own3, top) /\ Saved(m2, own3, fs, c + 1)
              /\ Lists(m2, own3, rk3, B3, Null, top, top)
  BY <1>9, <1>10, <1>11, <1>12
<1> QED BY <1>2, <1>7, <1>14 DEF Saves

(* An object leaves its list.                                                 *)
LEMMA UnlinkStep ==
  ASSUME NEW m \in Heap!Memory, NEW own, NEW rk, NEW B, NEW top \in Heap!Level, NEW fs, NEW fr,
         Owned(m, own, top), Saved(m, own, fs, fr), Lists(m, own, rk, B, Null, top, top),
         NEW o \in HeapObj, own[o] = o, NEW m2, m2 = Heap!Unlink(m, o)
  PROVE  /\ m2 \in Heap!Memory
         /\ m2.restore = m.restore /\ m2.scope = m.scope /\ m2.data = m.data
         /\ Owned(m2, own, top) /\ Saved(m2, own, fs, fr)
         /\ Lists(m2, own, rk, B, o, top, top)
<1> DEFINE S(t) == Members(m, own, Null, t)
           S2(t) == Members(m2, own, o, t)
           s == m.scope[o]
<1>0. /\ o \in Heap!Node /\ o # Null /\ Null \notin Heap!Node /\ top \in Nat
      /\ 0 .. top \subseteq Heap!Level /\ Heap!Level \cap Heap!Node = {}
      /\ Heap!Level \subseteq Heap!Addr /\ Heap!Node \subseteq Heap!Addr /\ Null \notin Heap!Addr
  BY Spaces
<1>1. s \in 0 .. top /\ s \in Heap!Level
  BY <1>0 DEF Owned
<1>2. /\ B \in Nat /\ rk \in [Heap!Node -> 0 .. B]
      /\ \A t \in 0 .. top : Chain(m.link, m.prev, S(t), t, rk, {t})
  BY DEF Lists
<1>3. \A t \in 0 .. top : S(t) \subseteq Heap!Node /\ (o \in S(t) <=> t = s) /\ t \in Heap!Level
                          /\ (t # s => S(t) \cap S(s) = {})
  BY <1>0 DEF Members
<1>4. /\ m.prev[o] \in S(s) \cup {s} /\ m.link[o] \in S(s) \cup {Null}
  <2>1. S(s) \subseteq Heap!Node /\ o \in S(s) /\ Chain(m.link, m.prev, S(s), s, rk, {s})
    BY <1>1, <1>2, <1>3
  <2>2. s \in Heap!Level /\ B \in Nat /\ rk \in [Heap!Node -> 0 .. B]
    BY <1>1, <1>2
  <2> HIDE DEF S, s
  <2>3. NextTo(m.link, m.prev, S(s), s, o)
    BY <2>1, <2>2, Neighbours
  <2> QED BY <2>3 DEF NextTo
<1>5. m.prev[o] \in Heap!Addr
  BY <1>0, <1>1, <1>3, <1>4
<1>6. /\ m2 \in Heap!Memory /\ m2.restore = m.restore /\ m2.scope = m.scope /\ m2.data = m.data
      /\ \A a \in Heap!Addr : m2.link[a] = IF a = m.prev[o] THEN m.link[o] ELSE m.link[a]
      /\ \A n \in Heap!Node : m2.prev[n] = IF n = m.link[o] THEN m.prev[o] ELSE m.prev[n]
  BY <1>5, UnlinkFields
<1>7. Owned(m2, own, top) /\ Saved(m2, own, fs, fr)
  BY <1>6 DEF Owned, Saved
<1>8. \A t \in 0 .. top : S2(t) = S(t) \ {o}
  BY <1>0, <1>6 DEF Members
<1> HIDE DEF S, S2
<1>9. ASSUME NEW t \in 0 .. top PROVE Chain(m2.link, m2.prev, S2(t), t, rk, {t})
  <2>1. CASE t = s
    <3>1. S(t) \subseteq Heap!Node /\ t \in Heap!Level /\ o \in S(t) /\ S2(t) = S(t) \ {o}
          /\ Chain(m.link, m.prev, S(t), t, rk, {t})
      BY <1>2, <1>3, <1>8, <2>1
    <3>2. \A a \in S(t) \cup {t} : m2.link[a] = IF a = m.prev[o] THEN m.link[o] ELSE m.link[a]
      BY <1>0, <1>6, <3>1
    <3>3. \A n \in S(t) : m2.prev[n] = IF n = m.link[o] THEN m.prev[o] ELSE m.prev[n]
      BY <1>6, <3>1
    <3> QED BY <1>2, <3>1, <3>2, <3>3, ChainRemove
  <2>2. CASE t # s
    <3>1. S(t) \subseteq Heap!Node /\ t \in Heap!Level /\ o \notin S(t) /\ S2(t) = S(t)
          /\ S(t) \cap S(s) = {} /\ Chain(m.link, m.prev, S(t), t, rk, {t})
      BY <1>2, <1>3, <1>8, <2>2
    <3>2. \A a \in S(t) \cup {t} : m2.link[a] = m.link[a]
      <4>1. \A a \in S(t) \cup {t} : a \in Heap!Addr /\ a # m.prev[o]
        BY <1>0, <1>1, <1>3, <1>4, <2>2, <3>1
      <4> QED BY <1>6, <4>1
    <3>3. \A n \in S(t) : m2.prev[n] = m.prev[n] /\ rk[n] = rk[n]
      <4>1. \A n \in S(t) : n \in Heap!Node /\ n # m.link[o]
        BY <1>0, <1>4, <3>1
      <4> QED BY <1>6, <4>1
    <3>4. Chain(m2.link, m2.prev, S(t), t, rk, {t})
      BY <3>1, <3>2, <3>3, ChainSame
    <3> QED BY <3>1, <3>4
  <2> QED BY <2>1, <2>2
<1>10. top + 1 .. top = {}
  BY <1>0
<1>11. Lists(m2, own, rk, B, o, top, top)
  BY <1>2, <1>9, <1>10 DEF Lists, S2
<1> QED BY <1>6, <1>7, <1>11

(* A detached object o becomes its saved copy c again.                        *)
Restored(m, o, c, m2) ==
  /\ \A a \in Heap!Addr : m2.link[a] =
       IF a = o THEN m.link[c] ELSE IF a = m.prev[c] THEN o ELSE m.link[a]
  /\ \A n \in Heap!Node :
       /\ m2.prev[n] = IF n = o THEN m.prev[c] ELSE IF n = m.link[c] THEN o ELSE m.prev[n]
       /\ m2.restore[n] = IF n = o THEN m.restore[c] ELSE m.restore[n]
       /\ m2.scope[n] = IF n = o THEN m.scope[c] ELSE m.scope[n]
       /\ m2.data[n] = IF n = o THEN m.data[c] ELSE m.data[n]

(* The copy is in a list of its own.                                          *)
Listed(m, own, rk, d, lv, o) ==
  LET c == m.restore[o] s == m.scope[c] IN
  /\ c \in Heap!Cell /\ own[c] = o /\ s \in 0 .. lv /\ s \in Heap!Level /\ s < m.scope[o]
  /\ m.prev[c] \in Members(m, own, d, s) \cup {s} /\ m.prev[c] # o /\ m.prev[c] # c
  /\ m.link[c] \in Members(m, own, d, s) \cup {Null} /\ m.link[c] # o /\ m.link[c] # c
  /\ c \in Members(m, own, d, s) /\ Members(m, own, d, s) \subseteq Heap!Node \ {o}
  /\ Chain(m.link, m.prev, Members(m, own, d, s), s, rk, {s})

LEMMA CopyIsListed ==
  ASSUME NEW m \in Heap!Memory, NEW own, NEW rk, NEW B, NEW lv \in Heap!Level,
         NEW top \in Heap!Level,
         NEW fs, NEW fr, NEW d, top <= lv + 1,
         Owned(m, own, top), Saved(m, own, fs, fr), Lists(m, own, rk, B, d, lv, top),
         NEW o \in HeapObj, own[o] = o, d = o \/ d = Null, m.restore[o] # Null
  PROVE  Listed(m, own, rk, d, lv, o)
<1> DEFINE c == m.restore[o]
           s == m.scope[c]
           S == Members(m, own, d, s)
<1>0. /\ o \in Heap!Node /\ o # Null /\ Null \notin Heap!Node /\ top \in Nat /\ lv \in Nat
      /\ 0 .. top \subseteq Heap!Level /\ 0 .. lv \subseteq Heap!Level
      /\ Heap!Level \cap Heap!Node = {} /\ Heap!Cell \subseteq Heap!Node
      /\ HeapObj \cap Heap!Cell = {}
  BY Spaces
<1>1. c \in Heap!Cell /\ own[c] = o /\ s < m.scope[o]
  BY <1>0 DEF Saved
<1>2. s \in 0 .. top /\ m.scope[o] \in 0 .. top
  BY <1>0, <1>1 DEF Owned
<1>3. s \in 0 .. lv /\ s \in Heap!Level
  BY <1>0, <1>1, <1>2
<1>4. Chain(m.link, m.prev, S, s, rk, {s}) /\ B \in Nat /\ rk \in [Heap!Node -> 0 .. B]
  BY <1>3 DEF Lists
<1>5. c \in S
  BY <1>0, <1>1 DEF Members
<1>6. S \subseteq Heap!Node \ {o}
  BY <1>1, <1>2 DEF Members
<1> HIDE DEF S, s, c
<1>7. m.prev[c] \in (S \cup {s}) \ {c} /\ m.link[c] \in (S \cup {Null}) \ {c}
  <2>1. S \subseteq Heap!Node /\ s \in Heap!Level
    BY <1>3, <1>6
  <2>2. NextTo(m.link, m.prev, S, s, c)
    BY <1>4, <1>5, <2>1, Neighbours
  <2> QED BY <2>2 DEF NextTo
<1>8. m.prev[c] # o /\ m.link[c] # o
  BY <1>0, <1>3, <1>6, <1>7
<1> QED BY <1>1, <1>3, <1>4, <1>5, <1>6, <1>7, <1>8 DEF Listed, S, s, c

LEMMA RestoreStep ==
  ASSUME NEW m \in Heap!Memory, NEW own, NEW rk, NEW B, NEW lv \in Heap!Level,
         NEW top \in Heap!Level,
         NEW fs, NEW fr, lv <= top, top <= lv + 1, NEW o \in HeapObj,
         Owned(m, own, top), Saved(m, own, fs, fr), Lists(m, own, rk, B, o, lv, top),
         own[o] = o, m.restore[o] # Null,
         NEW m2 \in Heap!Memory, Restored(m, o, m.restore[o], m2)
  PROVE  \E own2, rk2 :
           /\ \A n \in Heap!Node : own2[n] = IF n = m.restore[o] THEN Null ELSE own[n]
           /\ Owned(m2, own2, top) /\ Saved(m2, own2, fs, fr)
           /\ Lists(m2, own2, rk2, B, Null, lv, top)
<1> DEFINE c == m.restore[o]
           s == m.scope[c]
           own2 == [n \in Heap!Node |-> IF n = c THEN Null ELSE own[n]]
           rk2 == [n \in Heap!Node |-> IF n = o THEN rk[c] ELSE rk[n]]
           S(t) == Members(m, own, o, t)
           S2(t) == Members(m2, own2, Null, t)
<1>0. /\ o \in Heap!Node /\ o # Null /\ Null \notin Heap!Node /\ top \in Nat /\ lv \in Nat
      /\ 0 .. top \subseteq Heap!Level /\ 0 .. lv \subseteq Heap!Level
      /\ Heap!Level \cap Heap!Node = {}
      /\ Heap!Cell \subseteq Heap!Node /\ HeapObj \subseteq Heap!Node
      /\ HeapObj \cap Heap!Cell = {} /\ Heap!NoScope = -1
      /\ Heap!Level \subseteq Heap!Addr /\ Heap!Node \subseteq Heap!Addr /\ Null \notin Heap!Addr
  BY Spaces
<1>1. /\ c \in Heap!Cell /\ c \in Heap!Node /\ c # o /\ own[c] = o /\ s \in 0 .. lv
      /\ s \in Heap!Level /\ s < m.scope[o]
      /\ m.prev[c] \in S(s) \cup {s} /\ m.prev[c] # o /\ m.prev[c] # c
      /\ m.link[c] \in S(s) \cup {Null} /\ m.link[c] # o /\ m.link[c] # c
      /\ c \in S(s) /\ S(s) \subseteq Heap!Node \ {o}
      /\ Chain(m.link, m.prev, S(s), s, rk, {s})
  <2>1. Listed(m, own, rk, o, lv, o)
    BY <1>0, CopyIsListed
  <2> QED BY <1>0, <2>1 DEF Listed
<1>2. /\ \A a \in Heap!Addr : m2.link[a] =
           IF a = o THEN m.link[c] ELSE IF a = m.prev[c] THEN o ELSE m.link[a]
      /\ \A n \in Heap!Node :
           /\ m2.prev[n] = IF n = o THEN m.prev[c] ELSE IF n = m.link[c] THEN o ELSE m.prev[n]
           /\ m2.restore[n] = IF n = o THEN m.restore[c] ELSE m.restore[n]
           /\ m2.scope[n] = IF n = o THEN s ELSE m.scope[n]
           /\ m2.data[n] = IF n = o THEN m.data[c] ELSE m.data[n]
  BY DEF Restored
<1>3. s \in 0 .. top /\ m.scope[o] \in 0 .. top
  BY <1>0, <1>1 DEF Owned
<1>4. \A n \in Heap!Cell : own[n] = o => n = c \/ m.scope[n] < s
  BY NewestCopy
<1> HIDE DEF c, s
<1>5. Owned(m2, own2, top)
  <2>1. own2 \in [Heap!Node -> HeapObj \cup {Null}]
    BY DEF Owned
  <2>2. \A p \in HeapObj : own2[p] = IF m2.scope[p] # Heap!NoScope THEN p ELSE Null
    <3> TAKE p \in HeapObj
    <3>1. p \in Heap!Node /\ p # c /\ own[p] = IF m.scope[p] # Heap!NoScope THEN p ELSE Null
      BY <1>0, <1>1 DEF Owned
    <3>2. CASE p = o
      BY <1>0, <1>1, <1>2, <3>1, <3>2
    <3>3. CASE p # o
      BY <1>2, <3>1, <3>3
    <3> QED BY <3>2, <3>3
  <2>3. \A n \in Heap!Node : own2[n] # Null => m2.scope[n] \in 0 .. top /\ m2.data[n] \in Val
    <3>1. m.data[c] \in Val
      BY <1>0, <1>1 DEF Owned
    <3> QED BY <1>0, <1>2, <1>3, <3>1 DEF Owned
  <2>4. \A n \in Heap!Cell : own2[n] # Null => m2.scope[n] < m2.scope[own2[n]]
    <3> SUFFICES ASSUME NEW n \in Heap!Cell, own2[n] # Null
                 PROVE  m2.scope[n] < m2.scope[own2[n]]
      OBVIOUS
    <3>1. n \in Heap!Node /\ n # o /\ n # c /\ own2[n] = own[n] /\ own[n] # Null
      BY <1>0
    <3>2. own[n] \in Heap!Node /\ m.scope[n] < m.scope[own[n]] /\ m2.scope[n] = m.scope[n]
      BY <1>0, <1>2, <3>1 DEF Owned
    <3>3. CASE own[n] = o
      <4>1. m2.scope[o] = s
        BY <1>0, <1>2
      <4> QED BY <1>4, <3>1, <3>2, <3>3, <4>1
    <3>4. CASE own[n] # o
      <4>1. m2.scope[own[n]] = m.scope[own[n]]
        BY <1>2, <3>2, <3>4
      <4> QED BY <3>1, <3>2, <4>1
    <3> QED BY <3>3, <3>4
  <2>5. ASSUME NEW n \in Heap!Node, NEW k \in Heap!Node, own2[n] # Null, own2[n] = own2[k],
               m2.scope[n] = m2.scope[k]
        PROVE  n = k
    <3>1. n # c /\ k # c /\ own[n] = own[k] /\ own[n] # Null
      BY <1>0, <2>5
    <3>2. \A x \in Heap!Node : own[x] = o => x = c \/ x = o \/ m.scope[x] < s
      <4> SUFFICES ASSUME NEW x \in Heap!Node, own[x] = o PROVE x = c \/ x = o \/ m.scope[x] < s
        OBVIOUS
      <4>1. CASE x \in HeapObj
        BY <1>0, <4>1 DEF Owned
      <4>2. CASE x \in Heap!Cell
        BY <1>4, <4>2
      <4> QED BY <4>1, <4>2 DEF Heap!Node
    <3>3. \A x \in Heap!Node : own[x] = o => m.scope[x] \in 0 .. top
      BY <1>0 DEF Owned
    <3>4. CASE n = o
      <4>1. k = o \/ (m.scope[k] < s /\ m2.scope[k] = m.scope[k] /\ m2.scope[n] = s)
        BY <1>0, <1>2, <3>1, <3>2, <3>4
      <4> QED BY <1>0, <1>3, <2>5, <3>1, <3>3, <3>4, <4>1
    <3>5. CASE k = o
      <4>1. n = o \/ (m.scope[n] < s /\ m2.scope[n] = m.scope[n] /\ m2.scope[k] = s)
        BY <1>0, <1>2, <3>1, <3>2, <3>5
      <4> QED BY <1>0, <1>3, <2>5, <3>1, <3>3, <3>5, <4>1
    <3>6. CASE n # o /\ k # o
      <4>1. m.scope[n] = m.scope[k]
        BY <1>2, <2>5, <3>6
      <4> QED BY <3>1, <4>1 DEF Owned
    <3> QED BY <3>4, <3>5, <3>6
  <2> HIDE DEF own2
  <2> QED BY <2>1, <2>2, <2>3, <2>4, <2>5 DEF Owned
<1>6. Saved(m2, own2, fs, fr)
  <2>1. ASSUME NEW n \in Heap!Node, own2[n] # Null, m2.restore[n] # Null
        PROVE  /\ m2.restore[n] \in Heap!Cell
               /\ own2[m2.restore[n]] = own2[n]
               /\ m2.scope[m2.restore[n]] < m2.scope[n]
               /\ fs[m2.scope[n]] <= m2.restore[n]
               /\ m2.restore[n] < RegionEnd(fs, fr, m2.scope[n])
    <3> DEFINE k == IF n = o THEN c ELSE n
    <3>1. /\ k \in Heap!Node /\ own[k] # Null /\ own2[n] = own[k] /\ n # c
          /\ m2.restore[n] = m.restore[k] /\ m2.scope[n] = m.scope[k]
      BY <1>0, <1>1, <1>2, <2>1 DEF s
    <3>2. k # o
      BY <1>1
    <3> HIDE DEF k
    <3>3. /\ m.restore[k] \in Heap!Cell /\ own[m.restore[k]] = own[k]
          /\ m.scope[m.restore[k]] < m.scope[k]
          /\ fs[m.scope[k]] <= m.restore[k]
          /\ m.restore[k] < RegionEnd(fs, fr, m.scope[k])
      BY <2>1, <3>1 DEF Saved
    <3>4. m.restore[k] # c
      <4> SUFFICES ASSUME m.restore[k] = c PROVE FALSE
        OBVIOUS
      <4>1. own[k] = o /\ s < m.scope[k] /\ k # c
        <5>1. own[k] = o /\ s < m.scope[k]
          BY <1>1, <3>3 DEF s
        <5> QED BY <1>3, <5>1 DEF s
      <4>2. k \in Heap!Cell
        BY <1>0, <3>1, <3>2, <4>1 DEF Owned, Heap!Node
      <4>3. m.scope[k] \in 0 .. top
        BY <3>1 DEF Owned
      <4> QED BY <1>3, <1>4, <4>1, <4>2, <4>3
    <3>5. m.restore[k] \in Heap!Node /\ m.restore[k] # o
      BY <1>0, <3>3
    <3>6. own2[m.restore[k]] = own[m.restore[k]] /\ m2.scope[m.restore[k]] = m.scope[m.restore[k]]
      BY <1>2, <3>4, <3>5
    <3> QED BY <3>1, <3>3, <3>6
  <2>2. ASSUME NEW e \in Heap!Cell, own2[e] # Null
        PROVE  \E n \in Heap!Node : own2[n] # Null /\ m2.restore[n] = e
    <3>1. own[e] # Null /\ e # c
      BY <1>0, <2>2
    <3>2. PICK n \in Heap!Node : own[n] # Null /\ m.restore[n] = e
      BY <3>1 DEF Saved
    <3>3. n # o
      BY <3>1, <3>2 DEF c
    <3>4. CASE n = c
      <4>1. own2[o] # Null /\ m2.restore[o] = e
        BY <1>0, <1>1, <1>2, <3>2, <3>4
      <4> QED BY <1>0, <4>1
    <3>5. CASE n # c
      <4>1. own2[n] # Null /\ m2.restore[n] = e
        BY <1>2, <3>2, <3>3, <3>5
      <4> QED BY <4>1
    <3> QED BY <3>4, <3>5
  <2> HIDE DEF own2
  <2> QED BY <2>1, <2>2 DEF Saved
<1>7. Lists(m2, own2, rk2, B, Null, lv, top)
  <2>1. B \in Nat /\ rk \in [Heap!Node -> 0 .. B] /\ rk2 \in [Heap!Node -> 0 .. B]
    <3>1. B \in Nat /\ rk \in [Heap!Node -> 0 .. B]
      BY DEF Lists
    <3> QED BY <1>1, <3>1
  <2>2. ASSUME NEW t \in 0 .. top
        PROVE  S2(t) = IF t = s THEN (S(t) \ {c}) \cup {o} ELSE S(t)
    <3>1. own2[o] = o /\ own2[c] = Null /\ m2.scope[o] = s
      BY <1>0, <1>1, <1>2
    <3>2. \A n \in Heap!Node : n # o /\ n # c => own2[n] = own[n] /\ m2.scope[n] = m.scope[n]
      BY <1>2
    <3> HIDE DEF own2
    <3>3. \A n \in Heap!Node \ {o, c} : n \in S2(t) <=> n \in S(t)
      BY <1>0, <3>2 DEF Members
    <3>4. c \notin S2(t) /\ (o \in S2(t) <=> t = s) /\ o \notin S(t) /\ (c \in S(t) <=> t = s)
      BY <1>0, <1>1, <3>1 DEF Members, s
    <3>5. S(t) \subseteq Heap!Node /\ S2(t) \subseteq Heap!Node
      BY DEF Members
    <3> HIDE DEF S, S2
    <3>6. CASE t = s
      <4>1. ASSUME NEW n \in Heap!Node PROVE n \in S2(t) <=> n \in (S(t) \ {c}) \cup {o}
        <5>2. CASE n = o
          BY <3>4, <3>6, <5>2
        <5>3. CASE n = c
          BY <1>1, <3>4, <5>3
        <5>4. CASE n # o /\ n # c
          BY <3>3, <5>4
        <5> QED BY <5>2, <5>3, <5>4
      <4> QED BY <1>0, <3>5, <3>6, <4>1
    <3>7. CASE t # s
      <4>1. ASSUME NEW n \in Heap!Node PROVE n \in S2(t) <=> n \in S(t)
        <5>2. CASE n = o
          BY <3>4, <3>7, <5>2
        <5>3. CASE n = c
          BY <3>4, <3>7, <5>3
        <5>4. CASE n # o /\ n # c
          BY <3>3, <5>4
        <5> QED BY <5>2, <5>3, <5>4
      <4> QED BY <3>5, <3>7, <4>1
    <3> QED BY <3>6, <3>7
  <2>3. ASSUME NEW t \in 0 .. top, t # s
        PROVE  /\ S2(t) = S(t) /\ S(t) \subseteq Heap!Node /\ t \in Heap!Level
               /\ \A a \in S(t) \cup {t} : m2.link[a] = m.link[a]
               /\ \A n \in S(t) : m2.prev[n] = m.prev[n] /\ rk2[n] = rk[n]
    <3>1. S2(t) = S(t) /\ S(t) \subseteq Heap!Node /\ t \in Heap!Level
      BY <1>0, <2>2, <2>3 DEF Members
    <3>2. o \notin S(t) /\ S(t) \cap S(s) = {}
      BY <2>3 DEF Members
    <3> HIDE DEF S, S2
    <3>3. \A a \in S(t) \cup {t} : a \in Heap!Addr /\ a # o /\ a # m.prev[c]
      BY <1>0, <1>1, <2>3, <3>1, <3>2
    <3>4. \A n \in S(t) : n \in Heap!Node /\ n # o /\ n # m.link[c]
      BY <1>0, <1>1, <3>1, <3>2
    <3> QED BY <1>2, <3>1, <3>3, <3>4
  <2>4. Chain(m2.link, m2.prev, S2(s), s, rk2, {s})
    <3>1. S2(s) = (S(s) \ {c}) \cup {o}
      BY <1>3, <2>2
    <3> HIDE DEF S, S2
    <3>2. \A a \in S2(s) \cup {s} :
            m2.link[a] = IF a = o THEN m.link[c] ELSE IF a = m.prev[c] THEN o ELSE m.link[a]
      <4>1. \A a \in S2(s) \cup {s} : a \in Heap!Addr
        BY <1>0, <1>1, <3>1
      <4> QED BY <1>2, <4>1
    <3>3. \A n \in S2(s) :
            m2.prev[n] = IF n = o THEN m.prev[c] ELSE IF n = m.link[c] THEN o ELSE m.prev[n]
      <4>1. \A n \in S2(s) : n \in Heap!Node
        BY <1>0, <1>1, <3>1
      <4> QED BY <1>2, <4>1
    <3>4. \A n \in S2(s) : rk2[n] = IF n = o THEN rk[c] ELSE rk[n]
      BY <1>0, <1>1, <3>1
    <3>5. S(s) \subseteq Heap!Node /\ o \notin S(s) /\ c \in S(s)
          /\ Chain(m.link, m.prev, S(s), s, rk, {s})
      BY <1>1
    <3> HIDE DEF rk2
    <3> QED BY <1>0, <1>1, <2>1, <3>1, <3>2, <3>3, <3>4, <3>5, ChainReplace
  <2>5. ASSUME NEW t \in 0 .. lv
        PROVE  Chain(m2.link, m2.prev, S2(t), t, rk2, {t})
    <3>0. t \in 0 .. top
      BY <1>0
    <3> SUFFICES ASSUME t # s
                 PROVE  Chain(m2.link, m2.prev, S2(t), t, rk2, {t})
      BY <2>4
    <3>1. Chain(m.link, m.prev, S(t), t, rk, {t})
      BY DEF Lists
    <3>2. /\ S2(t) = S(t) /\ S(t) \subseteq Heap!Node /\ t \in Heap!Level
          /\ \A a \in S(t) \cup {t} : m2.link[a] = m.link[a]
          /\ \A n \in S(t) : m2.prev[n] = m.prev[n] /\ rk2[n] = rk[n]
      BY <2>3, <3>0
    <3> HIDE DEF rk2, S, S2
    <3>3. Chain(m2.link, m2.prev, S(t), t, rk2, {t})
      BY <3>1, <3>2, ChainSame
    <3> QED BY <3>2, <3>3
  <2>6. ASSUME NEW t \in lv + 1 .. top
        PROVE  Chain(m2.link, m2.prev, S2(t), t, rk2, Unlinked)
    <3>0. t \in 0 .. top /\ t # s
      BY <1>0, <1>1
    <3>1. Chain(m.link, m.prev, S(t), t, rk, Unlinked)
      BY DEF Lists
    <3>2. /\ S2(t) = S(t) /\ S(t) \subseteq Heap!Node /\ t \in Heap!Level
          /\ \A a \in S(t) \cup {t} : m2.link[a] = m.link[a]
          /\ \A n \in S(t) : m2.prev[n] = m.prev[n] /\ rk2[n] = rk[n]
      BY <2>3, <3>0
    <3> HIDE DEF rk2, S, S2
    <3>3. Chain(m2.link, m2.prev, S(t), t, rk2, Unlinked)
      BY <3>1, <3>2, ChainSame
    <3> QED BY <3>2, <3>3
  <2> HIDE DEF own2, rk2, S2
  <2> QED BY <2>1, <2>5, <2>6 DEF Lists, S2
<1>8. \A n \in Heap!Node : own2[n] = IF n = c THEN Null ELSE own[n]
  OBVIOUS
<1> HIDE DEF own2, rk2
<1> QED BY <1>5, <1>6, <1>7, <1>8 DEF c

(* The object itself is the newest of its versions.                           *)
LEMMA OwnerIsNewest ==
  ASSUME NEW m \in Heap!Memory, NEW own, NEW top, Owned(m, own, top),
         NEW o \in HeapObj, NEW n \in Heap!Node, own[n] = o
  PROVE  /\ own[o] = o /\ m.scope[o] \in 0 .. top /\ m.scope[n] \in 0 .. top
         /\ n = o \/ (n \in Heap!Cell /\ m.scope[n] < m.scope[o])
<1>0. o # Null /\ o \in Heap!Node
  BY Spaces
<1>1. m.scope[n] \in 0 .. top
  BY <1>0 DEF Owned
<1>2. CASE n \in HeapObj
  <2>1. n = o
    BY <1>0, <1>2 DEF Owned
  <2> QED BY <1>1, <2>1
<1>3. CASE n \in Heap!Cell
  <2>1. m.scope[n] < m.scope[o]
    BY <1>0, <1>3 DEF Owned
  <2>2. m.scope[o] # Heap!NoScope
    <3>1. Heap!NoScope = -1 /\ m.scope[n] >= 0 /\ m.scope[n] \in Int
      BY <1>1, Spaces
    <3> QED BY <2>1, <3>1
  <2>3. own[o] = o
    BY <2>2 DEF Owned
  <2>4. m.scope[o] \in 0 .. top
    BY <1>0, <2>3 DEF Owned
  <2> QED BY <1>1, <1>3, <2>1, <2>3, <2>4
<1> QED BY <1>2, <1>3 DEF Heap!Node

LEMMA OwnerIsAlive ==
  ASSUME NEW m \in Heap!Memory, NEW own, NEW top, Owned(m, own, top),
         NEW n \in Heap!Node, own[n] # Null
  PROVE  own[n] \in HeapObj /\ own[own[n]] # Null
<1>1. own[n] \in HeapObj /\ Heap!NoScope = -1
  BY Spaces DEF Owned
<1>2. CASE n \in HeapObj
  <2>1. own[n] = n
    BY <1>2 DEF Owned
  <2> QED BY <1>1, <2>1
<1>3. CASE n \in Heap!Cell
  <2>1. m.scope[n] < m.scope[own[n]] /\ m.scope[n] \in 0 .. top
    BY <1>3 DEF Owned
  <2>2. m.scope[own[n]] # Heap!NoScope
    <3>1. m.scope[n] >= 0 /\ m.scope[n] \in Int
      BY <2>1
    <3> QED BY <1>1, <2>1, <3>1
  <2>3. \A p \in HeapObj : m.scope[p] # Heap!NoScope => own[p] # Null
    BY Spaces DEF Owned
  <2> QED BY <1>1, <2>2, <2>3
<1> QED BY <1>2, <1>3, <1>1 DEF Heap!Node

(* What is reached from an object, or from its newest copy, are its versions. *)
LEMMA VersionsAreReached ==
  ASSUME NEW m \in Heap!Memory, NEW own, NEW top \in Heap!Level, NEW fs, NEW fr,
         Owned(m, own, top), Saved(m, own, fs, fr),
         NEW o \in HeapObj, own[o] = o, NEW a \in Heap!Node, a = o \/ a = m.restore[o]
  PROVE  Heap!Reach(m.restore, a) = {n \in Heap!Node : own[n] = o /\ m.scope[n] <= m.scope[a]}
<1> DEFINE V == {n \in Heap!Node : own[n] = o /\ m.scope[n] <= m.scope[a]}
           R == Heap!Reach(m.restore, a)
<1>0. o # Null /\ o \in Heap!Node /\ Null \notin Heap!Node /\ a # Null /\ top \in Nat /\ Heap!Cell \subseteq Heap!Node
  BY Spaces
<1>1. m.restore \in [Heap!Node -> Heap!Node \cup {Null}]
  BY Fields
<1>2. own[a] = o
  <2>1. CASE a = o
    BY <2>1
  <2>2. CASE a = m.restore[o]
    BY <1>0, <2>2 DEF Saved
  <2> QED BY <2>1, <2>2
<1>3. \A n \in Heap!Node : own[n] = o => m.scope[n] \in 0 .. top /\ (n = o \/ n \in Heap!Cell)
  BY OwnerIsNewest
<1>4. \A n \in Heap!Node : own[n] = o /\ m.restore[n] # Null =>
        m.restore[n] \in Heap!Node /\ own[m.restore[n]] = o /\ m.scope[m.restore[n]] < m.scope[n]
  BY <1>0 DEF Saved
<1>5. a \in V
  BY <1>2, <1>3
<1>6. R \subseteq V
  <2>1. ASSUME NEW n \in V, m.restore[n] # Null PROVE m.restore[n] \in V
    <3>1. m.restore[n] \in Heap!Node /\ own[m.restore[n]] = o /\ m.scope[m.restore[n]] < m.scope[n]
      BY <1>4, <2>1
    <3>2. m.scope[m.restore[n]] \in 0 .. top /\ m.scope[n] \in 0 .. top /\ m.scope[a] \in 0 .. top
      BY <1>2, <1>3, <3>1
    <3> QED BY <1>0, <3>1, <3>2
  <2> HIDE DEF V
  <2> QED BY <1>5, <2>1, ReachLeast
<1>7. a \in R /\ \A n \in R : m.restore[n] = Null \/ m.restore[n] \in R
  BY <1>0, <1>1, ReachClosed
<1> HIDE DEF R
<1> DEFINE T == {k \in Nat : \E n \in V \ R : k = top - m.scope[n]}
<1>8. V \subseteq R
  <2> SUFFICES ASSUME NEW n0 \in V, n0 \notin R PROVE FALSE
    OBVIOUS
  <2>1. \A n \in V \ R : top - m.scope[n] \in T
    BY <1>0, <1>3
  <2> HIDE DEF T
  <2>2. PICK k \in T : \A j \in T : k <= j
    <3>1. T \subseteq Nat /\ T # {}
      BY <2>1 DEF T
    <3> QED BY <3>1, Least
  <2>3. PICK n \in V \ R : k = top - m.scope[n]
    BY <2>2 DEF T
  <2>4. \A j \in V \ R : m.scope[j] <= m.scope[n]
    BY <1>0, <1>3, <2>1, <2>2, <2>3
  <2>5. n # a /\ own[n] = o /\ m.scope[n] < m.scope[a]
    <3>1. n # a
      BY <1>7
    <3>2. m.scope[n] # m.scope[a]
      BY <1>0, <1>2, <3>1 DEF Owned
    <3> QED BY <1>2, <1>3, <3>1, <3>2
  <2>6. m.scope[a] <= m.scope[o]
    <3>1. a = o \/ m.scope[a] < m.scope[o]
      BY <1>2, OwnerIsNewest
    <3>2. m.scope[a] \in Int /\ m.scope[o] \in Int
      BY <1>0, <1>2, <1>3
    <3> QED BY <3>1, <3>2
  <2>7. n \in Heap!Cell
    BY <1>2, <1>3, <2>5, <2>6
  <2>8. PICK y \in Heap!Node : own[y] # Null /\ m.restore[y] = n
    BY <1>0, <2>5, <2>7 DEF Saved
  <2>9. own[y] = o /\ m.scope[n] < m.scope[y]
    BY <1>0, <2>5, <2>7, <2>8 DEF Saved
  <2>10. y \notin V
    <3>1. y \in R => n \in R
      BY <1>0, <1>7, <2>3, <2>8
    <3>2. m.scope[n] \in Int /\ m.scope[y] \in Int
      BY <1>3, <2>5, <2>9
    <3>3. y \in V \ R => m.scope[y] <= m.scope[n]
      BY <2>4
    <3> HIDE DEF V
    <3> QED BY <2>3, <2>9, <3>1, <3>2, <3>3
  <2>11. m.scope[a] < m.scope[y]
    BY <1>2, <1>3, <2>9, <2>10
  <2>12. CASE y = o
    BY <2>5, <2>8, <2>11, <2>12, <1>2, <1>3
  <2>13. CASE y # o
    <3>1. y \in Heap!Cell /\ m.scope[y] < m.scope[o]
      BY <2>9, <2>13, OwnerIsNewest
    <3>2. y = m.restore[o] \/ m.scope[y] < m.scope[m.restore[o]]
      BY <2>9, <3>1, NewestCopy
    <3>3. a = m.restore[o]
      BY <1>2, <1>3, <2>9, <2>11, <3>1
    <3> QED BY <1>2, <1>3, <2>9, <2>11, <3>2, <3>3
  <2> QED BY <2>12, <2>13
<1> QED BY <1>6, <1>8 DEF R

(* Dead and released memory is wiped.                                         *)
Wiped(m, own, rk, B, top, fs, fr, N, m2) ==
  /\ m2 \in Heap!Memory
  /\ \A n \in N : m2.scope[n] = Heap!NoScope
  /\ \A n \in Heap!Node \ N : /\ m2.restore[n] = m.restore[n]
                         /\ m2.scope[n] = m.scope[n] /\ m2.data[n] = m.data[n]
  /\ Owned(m2, own, top) /\ Saved(m2, own, fs, fr)
  /\ Lists(m2, own, rk, B, Null, top, top)

LEMMA WipeStep ==
  ASSUME NEW m \in Heap!Memory, NEW own, NEW rk, NEW B, NEW top \in Heap!Level, NEW fs, NEW fr,
         NEW d,
         Owned(m, own, top), Saved(m, own, fs, fr), Lists(m, own, rk, B, d, top, top),
         NEW N \in SUBSET Heap!Node, \A n \in N : own[n] = Null \/ n = d,
         d = Null \/ (d \in HeapObj /\ d \in N /\ \A n \in Heap!Cell : own[n] # d),
         NEW own2 \in [Heap!Node -> HeapObj \cup {Null}],
         \A n \in Heap!Node : own2[n] = IF n \in N THEN Null ELSE own[n],
         NEW m2, m2 = Heap!Wipe(m, N)
  PROVE  Wiped(m, own2, rk, B, top, fs, fr, N, m2)
<1> DEFINE S(t) == Members(m, own, d, t)
           S2(t) == Members(m2, own2, Null, t)
<1>0. /\ Null \notin Heap!Node /\ top \in Nat /\ Heap!Cell \subseteq Heap!Node
      /\ HeapObj \subseteq Heap!Node
      /\ 0 .. top \subseteq Heap!Level /\ Heap!Level \cap Heap!Node = {}
      /\ Heap!Level \subseteq Heap!Addr /\ Heap!Node \subseteq Heap!Addr /\ Null \notin Heap!Addr
  BY Spaces
<1>1. /\ m2 \in Heap!Memory
      /\ \A a \in Heap!Addr : m2.link[a] = IF a \in N THEN Null ELSE m.link[a]
      /\ \A a \in Heap!Node :
             /\ m2.prev[a] = IF a \in N THEN Null ELSE m.prev[a]
             /\ m2.restore[a] = IF a \in N THEN Null ELSE m.restore[a]
             /\ m2.scope[a] = IF a \in N THEN Heap!NoScope ELSE m.scope[a]
             /\ m2.data[a] = IF a \in N THEN Absent ELSE m.data[a]
  BY WipeFields
<1>2. ASSUME NEW n \in Heap!Node, own2[n] # Null
      PROVE  /\ n \notin N /\ own[n] = own2[n] /\ n # d /\ own[n] # d
             /\ own2[n] \in Heap!Node /\ own2[n] \notin N
             /\ m.restore[n] \notin N
  <2>1. n \notin N /\ own[n] = own2[n] /\ own[n] \in HeapObj /\ own[n] # Null
    BY <1>2 DEF Owned
  <2>2. n # d
    BY <1>0, <2>1
  <2>3. own[n] # d
    <3>1. n \in HeapObj => own[n] = n
      BY <1>2, <2>1 DEF Owned
    <3> QED BY <2>1, <2>2, <3>1, <1>0 DEF Heap!Node
  <2>4. own[own[n]] # Null
    BY <2>1, OwnerIsAlive
  <2>5. own2[n] \notin N
    BY <2>1, <2>3, <2>4
  <2>6. m.restore[n] \notin N
    <3> SUFFICES ASSUME m.restore[n] \in N PROVE FALSE
      OBVIOUS
    <3>0. m.restore[n] # Null
      BY <1>0
    <3>1. m.restore[n] \in Heap!Cell /\ own[m.restore[n]] = own[n]
      BY <2>1, <3>0 DEF Saved
    <3>2. m.restore[n] \notin HeapObj /\ m.restore[n] # Null
      BY <3>0, <3>1, Spaces
    <3>3. m.restore[n] # d
      BY <3>2
    <3> QED BY <1>2, <2>1, <3>1, <3>3
  <2> QED BY <1>0, <2>1, <2>2, <2>3, <2>5, <2>6
<1>3. Owned(m2, own2, top)
  <2>1. \A p \in HeapObj : own2[p] = IF m2.scope[p] # Heap!NoScope THEN p ELSE Null
    <3> TAKE p \in HeapObj
    <3>1. p \in Heap!Node /\ own[p] = IF m.scope[p] # Heap!NoScope THEN p ELSE Null
      BY <1>0 DEF Owned
    <3> QED BY <1>0, <1>1, <3>1
  <2>2. \A n \in Heap!Node : own2[n] # Null => m2.scope[n] \in 0 .. top /\ m2.data[n] \in Val
    BY <1>0, <1>1, <1>2 DEF Owned
  <2>3. ASSUME NEW n \in Heap!Cell, own2[n] # Null PROVE m2.scope[n] < m2.scope[own2[n]]
    <3>1. n \in Heap!Node /\ n \notin N /\ own[n] = own2[n]
          /\ own2[n] \in Heap!Node /\ own2[n] \notin N
      BY <1>0, <1>2, <2>3
    <3>2. m2.scope[n] = m.scope[n] /\ m2.scope[own2[n]] = m.scope[own2[n]]
      BY <1>1, <3>1
    <3>3. m.scope[n] < m.scope[own[n]]
      BY <2>3, <3>1 DEF Owned
    <3> QED BY <3>1, <3>2, <3>3
  <2>4. ASSUME NEW n \in Heap!Node, NEW k \in Heap!Node, own2[n] # Null, own2[n] = own2[k],
               m2.scope[n] = m2.scope[k]
        PROVE  n = k
    <3>1. n \notin N /\ k \notin N /\ own[n] = own2[n] /\ own[k] = own2[k]
      BY <1>2, <2>4
    <3>2. m.scope[n] = m.scope[k]
      BY <1>1, <2>4, <3>1
    <3> QED BY <2>4, <3>1, <3>2 DEF Owned
  <2>5. own2 \in [Heap!Node -> HeapObj \cup {Null}]
    BY DEF Owned
  <2> QED BY <2>1, <2>2, <2>3, <2>4, <2>5 DEF Owned
<1>4. Saved(m2, own2, fs, fr)
  <2>1. ASSUME NEW n \in Heap!Node, own2[n] # Null, m2.restore[n] # Null
        PROVE  /\ m2.restore[n] \in Heap!Cell
               /\ own2[m2.restore[n]] = own2[n]
               /\ m2.scope[m2.restore[n]] < m2.scope[n]
               /\ fs[m2.scope[n]] <= m2.restore[n]
               /\ m2.restore[n] < RegionEnd(fs, fr, m2.scope[n])
    <3>1. /\ n \notin N /\ own[n] # Null /\ own2[n] = own[n] /\ m2.restore[n] = m.restore[n]
          /\ m2.scope[n] = m.scope[n] /\ m.restore[n] \notin N
      BY <1>1, <1>2, <2>1
    <3>2. /\ m.restore[n] \in Heap!Cell
          /\ own[m.restore[n]] = own[n]
          /\ m.scope[m.restore[n]] < m.scope[n]
          /\ fs[m.scope[n]] <= m.restore[n]
          /\ m.restore[n] < RegionEnd(fs, fr, m.scope[n])
      BY <2>1, <3>1 DEF Saved
    <3>3. own2[m.restore[n]] = own[m.restore[n]] /\ m2.scope[m.restore[n]] = m.scope[m.restore[n]]
      BY <1>0, <1>1, <3>1, <3>2
    <3> QED BY <3>1, <3>2, <3>3
  <2>2. ASSUME NEW e \in Heap!Cell, own2[e] # Null
        PROVE  \E n \in Heap!Node : own2[n] # Null /\ m2.restore[n] = e
    <3>1. own[e] = own2[e] /\ e \notin N /\ own2[e] \notin N /\ e # Null
      BY <1>0, <1>2, <2>2
    <3>2. PICK n \in Heap!Node : own[n] # Null /\ m.restore[n] = e
      BY <2>2, <3>1 DEF Saved
    <3>3. own[n] = own2[e]
      BY <3>1, <3>2 DEF Saved
    <3>4. n \notin N
      <4> SUFFICES ASSUME n = d PROVE FALSE
        BY <3>2
      <4>1. own[d] = d
        BY <1>0, <3>2 DEF Owned
      <4> QED BY <1>0, <1>2, <2>2, <3>1, <3>3, <4>1
    <3>5. own2[n] # Null /\ m2.restore[n] = e
      BY <1>1, <3>2, <3>4
    <3> QED BY <3>5
  <2> QED BY <2>1, <2>2 DEF Saved
<1>5. Lists(m2, own2, rk, B, Null, top, top)
  <2>1. \A t \in 0 .. top : S2(t) = S(t) /\ S(t) \subseteq Heap!Node /\ S(t) \cap N = {} /\ t \in Heap!Level
    <3> TAKE t \in 0 .. top
    <3>1. \A n \in Heap!Node : n \in S2(t) <=> n \in S(t)
      BY <1>0, <1>1, <1>2 DEF Members
    <3>2. S(t) \subseteq Heap!Node /\ S2(t) \subseteq Heap!Node
      BY DEF Members
    <3>3. S(t) \cap N = {}
      BY DEF Members
    <3> HIDE DEF S, S2
    <3> QED BY <1>0, <3>1, <3>2, <3>3
  <2>2. /\ B \in Nat /\ rk \in [Heap!Node -> 0 .. B]
        /\ \A t \in 0 .. top : Chain(m.link, m.prev, S(t), t, rk, {t})
    BY DEF Lists
  <2> HIDE DEF S, S2
  <2>3. ASSUME NEW t \in 0 .. top PROVE Chain(m2.link, m2.prev, S2(t), t, rk, {t})
    <3>1. S2(t) = S(t) /\ S(t) \subseteq Heap!Node /\ S(t) \cap N = {} /\ t \in Heap!Level
      BY <2>1
    <3>2. \A a \in S(t) \cup {t} : m2.link[a] = m.link[a]
      BY <1>0, <1>1, <3>1
    <3>3. \A n \in S(t) : m2.prev[n] = m.prev[n] /\ rk[n] = rk[n]
      BY <1>1, <3>1
    <3>4. Chain(m.link, m.prev, S(t), t, rk, {t})
      BY <2>2
    <3>5. Chain(m2.link, m2.prev, S(t), t, rk, {t})
      BY <3>2, <3>3, <3>4, ChainSame
    <3> QED BY <3>1, <3>5
  <2>4. top + 1 .. top = {}
    BY <1>0
  <2> QED BY <2>2, <2>3, <2>4 DEF Lists, S2
<1>6. /\ \A n \in N : m2.scope[n] = Heap!NoScope
      /\ \A n \in Heap!Node \ N : /\ m2.restore[n] = m.restore[n]
                             /\ m2.scope[n] = m.scope[n] /\ m2.data[n] = m.data[n]
  BY <1>1
<1> QED BY <1>1, <1>3, <1>4, <1>5, <1>6 DEF Wiped

-----------------------------------------------------------------------------
(* ContextObj::destroy() takes back one version after the other.              *)
DestroyRound(m, o) ==
  IF m.restore[o] = Null THEN m ELSE Heap!Unlink(Heap!RestoreAndContinue(m, o), o)
Rounds(m, o, n, r) ==
  r = [k \in 0 .. n |-> IF k = 0 THEN Heap!Unlink(m, o) ELSE DestroyRound(r[k - 1], o)]

LEMMA DestroyUnfold ==
  ASSUME NEW m, NEW o
  PROVE  \E r : Rounds(m, o, MaxHeapLevel, r) /\ Heap!DestroyAll(m, o) = Heap!Wipe(r[MaxHeapLevel], Heap!Reach(m.restore, o))
<1> DEFINE T == {n \in Nat : ~ \E r : Rounds(m, o, n, r)}
           K == MaxHeapLevel
<1>1. T = {}
  <2> SUFFICES ASSUME T # {} PROVE FALSE
    OBVIOUS
  <2>1. PICK n \in T : \A j \in T : n <= j
    BY Least
  <2>2. CASE n = 0
    <3> DEFINE s == [k \in 0 .. 0 |-> Heap!Unlink(m, o)]
    <3>1. Rounds(m, o, 0, s)
      BY DEF Rounds
    <3> QED BY <2>1, <2>2, <3>1
  <2>3. CASE n # 0
    <3>1. n - 1 \in Nat /\ n - 1 \notin T
      BY <2>1, <2>3
    <3>2. PICK s : Rounds(m, o, n - 1, s)
      BY <3>1
    <3> DEFINE g == [k \in 0 .. n |-> IF k < n THEN s[k] ELSE DestroyRound(s[n - 1], o)]
    <3>3. \A k \in 0 .. n : g[k] = IF k = 0 THEN Heap!Unlink(m, o) ELSE DestroyRound(g[k - 1], o)
      <4>1. \A k \in 0 .. n - 1 : s[k] = IF k = 0 THEN Heap!Unlink(m, o) ELSE DestroyRound(s[k - 1], o)
        BY <3>2 DEF Rounds
      <4>2. n \in Nat \ {0}
        BY <2>1, <2>3
      <4>3. ASSUME NEW k \in 0 .. n, k < n
            PROVE  g[k] = IF k = 0 THEN Heap!Unlink(m, o) ELSE DestroyRound(g[k - 1], o)
        <5>1. k \in 0 .. n - 1 /\ g[k] = s[k]
          BY <4>2, <4>3
        <5>2. k # 0 => k - 1 \in 0 .. n /\ g[k - 1] = s[k - 1]
          BY <4>2, <4>3
        <5> QED BY <4>1, <5>1, <5>2
      <4>4. g[n] = DestroyRound(g[n - 1], o)
        <5>1. n \in 0 .. n /\ n - 1 \in 0 .. n /\ n - 1 < n /\ ~ (n < n)
          BY <4>2
        <5> QED BY <5>1
      <4>5. \A k \in 0 .. n : k < n \/ k = n
        BY <4>2
      <4> HIDE DEF g
      <4> QED BY <4>2, <4>3, <4>4, <4>5
    <3>4. Rounds(m, o, n, g)
      BY <3>3 DEF Rounds
    <3> QED BY <2>1, <3>4
  <2> QED BY <2>2, <2>3
<1>2. PICK r : Rounds(m, o, K, r)
  BY <1>1, HeapAssumption
<1>3. Heap!DestroyAll(m, o) = Heap!Wipe((CHOOSE r1 : Rounds(m, o, K, r1))[K], Heap!Reach(m.restore, o))
  BY DEF Heap!DestroyAll, Rounds, DestroyRound
<1>4. Rounds(m, o, K, CHOOSE r1 : Rounds(m, o, K, r1))
  BY <1>2
<1> QED BY <1>3, <1>4

(* After k rounds the object is detached from scope top - k or below; what    *)
(* other objects own is as it was.                                            *)
Detached(m, own, o, top, fs, fr, k, mk) ==
  /\ mk \in Heap!Memory
  /\ \E ownk, rk, B :
       /\ Owned(mk, ownk, top) /\ Saved(mk, ownk, fs, fr) /\ Lists(mk, ownk, rk, B, o, top, top)
       /\ ownk[o] = o
       /\ mk.restore[o] = Null \/ mk.scope[o] <= top - k
       /\ \A n \in Heap!Node :
            IF own[n] = o THEN ownk[n] \in {o, Null}
            ELSE /\ ownk[n] = own[n] /\ mk.restore[n] = m.restore[n]
                 /\ mk.scope[n] = m.scope[n] /\ mk.data[n] = m.data[n]

LEMMA RoundStep ==
  ASSUME NEW m \in Heap!Memory, NEW own, NEW o \in HeapObj, NEW top \in Heap!Level, NEW fs,
         NEW fr,
         own[o] = o, NEW k \in Nat, NEW mk, Detached(m, own, o, top, fs, fr, k, mk)
  PROVE  Detached(m, own, o, top, fs, fr, k + 1, DestroyRound(mk, o))
<1>0. o \in Heap!Node /\ Null \notin Heap!Node /\ o # Null /\ top \in Nat /\ Heap!Level \subseteq Heap!Addr
      /\ Heap!Node \subseteq Heap!Addr /\ Heap!Cell \subseteq Heap!Node
  BY Spaces
<1>1. mk \in Heap!Memory
  BY DEF Detached
<1>2. PICK ownk, rk, B :
       /\ Owned(mk, ownk, top) /\ Saved(mk, ownk, fs, fr) /\ Lists(mk, ownk, rk, B, o, top, top)
       /\ ownk[o] = o
       /\ mk.restore[o] = Null \/ mk.scope[o] <= top - k
       /\ \A n \in Heap!Node :
            IF own[n] = o THEN ownk[n] \in {o, Null}
            ELSE /\ ownk[n] = own[n] /\ mk.restore[n] = m.restore[n]
                 /\ mk.scope[n] = m.scope[n] /\ mk.data[n] = m.data[n]
  BY DEF Detached
<1>3. CASE mk.restore[o] = Null
  BY <1>1, <1>2, <1>3 DEF Detached, DestroyRound
<1>4. CASE mk.restore[o] # Null
  <2> DEFINE c == mk.restore[o]
             ma == Heap!RestoreAndContinue(mk, o)
             mb == Heap!Unlink(ma, o)
  <2>1. Listed(mk, ownk, rk, o, top, o)
    BY <1>0, <1>1, <1>2, <1>4, CopyIsListed
  <2>2. /\ c \in Heap!Cell /\ ownk[c] = o /\ mk.scope[c] \in Heap!Level
        /\ mk.scope[c] < mk.scope[o]
        /\ mk.prev[c] \in Heap!Addr /\ mk.prev[c] # o /\ mk.link[c] # o
    BY <1>0, <2>1 DEF Listed
  <2>3. ma \in Heap!Memory /\ Restored(mk, o, c, ma)
    <3>1. mk.restore[o] = c
      OBVIOUS
    <3> HIDE DEF c
    <3> QED BY <1>1, <2>2, <3>1, RestoreFields DEF Restored
  <2>4. PICK owna, rka :
          /\ \A n \in Heap!Node : owna[n] = IF n = c THEN Null ELSE ownk[n]
          /\ Owned(ma, owna, top) /\ Saved(ma, owna, fs, fr)
          /\ Lists(ma, owna, rka, B, Null, top, top)
    <3>1. top <= top /\ top <= top + 1
      BY <1>0
    <3> HIDE DEF ma
    <3> QED BY <1>1, <1>2, <1>4, <2>3, <3>1, RestoreStep
  <2>5. owna[o] = o
    BY <1>0, <1>2, <2>2, <2>4, Spaces
  <2> HIDE DEF ma
  <2>6. /\ mb \in Heap!Memory
        /\ mb.restore = ma.restore /\ mb.scope = ma.scope /\ mb.data = ma.data
        /\ Owned(mb, owna, top) /\ Saved(mb, owna, fs, fr)
        /\ Lists(mb, owna, rka, B, o, top, top)
    BY <2>3, <2>4, <2>5, UnlinkStep
  <2> HIDE DEF mb
  <2>7. mb.scope[o] <= top - (k + 1)
    <3>1. mb.scope[o] = mk.scope[c]
      BY <1>0, <2>3, <2>6 DEF Restored
    <3>2. mk.scope[o] <= top - k
      BY <1>2, <1>4
    <3>3. mk.scope[c] \in Nat
      BY <2>2, Spaces
    <3>4. mk.scope[o] \in Int
      BY <1>0, <1>2 DEF Owned
    <3> QED BY <1>0, <2>2, <3>1, <3>2, <3>3, <3>4
  <2>8. ASSUME NEW n \in Heap!Node
        PROVE  IF own[n] = o THEN owna[n] \in {o, Null}
               ELSE /\ owna[n] = own[n] /\ mb.restore[n] = m.restore[n]
                    /\ mb.scope[n] = m.scope[n] /\ mb.data[n] = m.data[n]
    <3>1. owna[n] = IF n = c THEN Null ELSE ownk[n]
      BY <2>4
    <3>2. CASE own[n] = o
      BY <1>2, <3>1, <3>2
    <3>3. CASE own[n] # o
      <4>1. n # o
        BY <3>3
      <4>2. /\ ownk[n] = own[n] /\ mk.restore[n] = m.restore[n]
            /\ mk.scope[n] = m.scope[n] /\ mk.data[n] = m.data[n]
        BY <1>2, <3>3
      <4>3. n # c
        BY <2>2, <3>3, <4>2
      <4>4. mb.restore[n] = mk.restore[n] /\ mb.scope[n] = mk.scope[n] /\ mb.data[n] = mk.data[n]
        BY <2>3, <2>6, <4>1 DEF Restored
      <4> HIDE DEF c
      <4> QED BY <3>1, <3>3, <4>2, <4>3, <4>4
    <3> QED BY <3>2, <3>3
  <2>9. DestroyRound(mk, o) = mb
    BY <1>4 DEF DestroyRound, ma, mb
  <2>10. Detached(m, own, o, top, fs, fr, k + 1, mb)
    BY <2>4, <2>5, <2>6, <2>7, <2>8 DEF Detached
  <2> QED BY <2>9, <2>10
<1> QED BY <1>3, <1>4

Destroys(m, own, fs, fr, top, o, m2) ==
  /\ m2 \in Heap!Memory
  /\ \A n \in Heap!Node :
       IF own[n] = o THEN m2.scope[n] = Heap!NoScope
       ELSE m2.restore[n] = m.restore[n] /\ m2.scope[n] = m.scope[n] /\ m2.data[n] = m.data[n]
  /\ \E own2, rk2, B2 :
       /\ \A n \in Heap!Node : own2[n] = IF own[n] = o THEN Null ELSE own[n]
       /\ Owned(m2, own2, top) /\ Saved(m2, own2, fs, fr)
       /\ Lists(m2, own2, rk2, B2, Null, top, top)

LEMMA DestroyStep ==
  ASSUME NEW m \in Heap!Memory, NEW own, NEW rk, NEW B, NEW top \in Heap!Level, NEW fs, NEW fr,
         Owned(m, own, top), Saved(m, own, fs, fr), Lists(m, own, rk, B, Null, top, top),
         NEW o \in HeapObj, own[o] = o, NEW m2, m2 = Heap!DestroyAll(m, o)
  PROVE  Destroys(m, own, fs, fr, top, o, m2)
<1> DEFINE K == MaxHeapLevel
           N == Heap!Reach(m.restore, o)
<1>0. o \in Heap!Node /\ Null \notin Heap!Node /\ o # Null /\ top \in Nat /\ K \in Nat /\ top <= K
      /\ Heap!Cell \subseteq Heap!Node /\ HeapObj \subseteq Heap!Node
  BY Spaces
<1>1. PICK r : Rounds(m, o, K, r) /\ m2 = Heap!Wipe(r[K], N)
  BY DestroyUnfold
<1>2. N = {n \in Heap!Node : own[n] = o}
  <2>1. N = {n \in Heap!Node : own[n] = o /\ m.scope[n] <= m.scope[o]}
    BY <1>0, VersionsAreReached
  <2>2. \A n \in Heap!Node : own[n] = o => m.scope[n] <= m.scope[o]
    <3> TAKE n \in Heap!Node
    <3> HAVE own[n] = o
    <3>1. m.scope[o] \in 0 .. top /\ (n = o \/ m.scope[n] < m.scope[o]) /\ m.scope[n] \in 0 .. top
      BY OwnerIsNewest
    <3> QED BY <3>1
  <2> HIDE DEF N
  <2> QED BY <2>1, <2>2
<1> HIDE DEF K, N
<1>3. \A k \in 0 .. K : r[k] = IF k = 0 THEN Heap!Unlink(m, o) ELSE DestroyRound(r[k - 1], o)
  BY <1>1 DEF Rounds
<1> DEFINE D(k) == Detached(m, own, o, top, fs, fr, k, r[k])
           T == {k \in 0 .. K : ~ D(k)}
<1>4. T = {}
  <2> SUFFICES ASSUME T # {} PROVE FALSE
    OBVIOUS
  <2> HIDE DEF T
  <2>1. PICK k \in T : \A j \in T : k <= j
    <3>1. T \subseteq Nat
      BY <1>0 DEF T
    <3> QED BY <3>1, Least
  <2>2. k \in 0 .. K /\ ~ D(k)
    BY <2>1 DEF T
  <2>3. CASE k = 0
    <3> DEFINE m1 == Heap!Unlink(m, o)
    <3>1. r[0] = m1
      BY <1>0, <1>3
    <3>2. /\ m1 \in Heap!Memory
          /\ m1.restore = m.restore /\ m1.scope = m.scope /\ m1.data = m.data
          /\ Owned(m1, own, top) /\ Saved(m1, own, fs, fr)
          /\ Lists(m1, own, rk, B, o, top, top)
      BY UnlinkStep
    <3> HIDE DEF m1
    <3>3. m1.scope[o] <= top - 0
      <4>1. m1.scope[o] \in 0 .. top
        BY <1>0, <3>2 DEF Owned
      <4> QED BY <1>0, <4>1
    <3>4. Detached(m, own, o, top, fs, fr, 0, m1)
      BY <3>2, <3>3 DEF Detached
    <3> QED BY <2>2, <2>3, <3>1, <3>4
  <2>4. CASE k # 0
    <3>1. k - 1 \in 0 .. K /\ k - 1 \in Nat /\ k - 1 \notin T /\ (k - 1) + 1 = k
      BY <1>0, <2>1, <2>2, <2>4
    <3>2. D(k - 1)
      BY <3>1 DEF T
    <3>3. Detached(m, own, o, top, fs, fr, (k - 1) + 1, DestroyRound(r[k - 1], o))
      BY <3>1, <3>2, RoundStep
    <3>4. r[k] = DestroyRound(r[k - 1], o)
      BY <1>3, <2>2, <2>4
    <3> QED BY <2>2, <3>1, <3>3, <3>4
  <2> QED BY <2>3, <2>4
<1>5. Detached(m, own, o, top, fs, fr, K, r[K])
  BY <1>0, <1>4
<1> DEFINE mk == r[K]
<1>6. mk \in Heap!Memory
  BY <1>5 DEF Detached
<1>7. PICK ownk, rkk, Bk :
       /\ Owned(mk, ownk, top) /\ Saved(mk, ownk, fs, fr) /\ Lists(mk, ownk, rkk, Bk, o, top, top)
       /\ ownk[o] = o
       /\ mk.restore[o] = Null \/ mk.scope[o] <= top - K
       /\ \A n \in Heap!Node :
            IF own[n] = o THEN ownk[n] \in {o, Null}
            ELSE /\ ownk[n] = own[n] /\ mk.restore[n] = m.restore[n]
                 /\ mk.scope[n] = m.scope[n] /\ mk.data[n] = m.data[n]
  BY <1>5 DEF Detached
<1>8. m2 = Heap!Wipe(mk, N)
  BY <1>1
<1> HIDE DEF mk
<1>9. mk.restore[o] = Null
  <2> SUFFICES ASSUME mk.restore[o] # Null PROVE FALSE
    OBVIOUS
  <2>1. mk.scope[o] <= 0 /\ mk.scope[o] \in 0 .. top
    <3>1. mk.scope[o] \in 0 .. top
      BY <1>0, <1>7 DEF Owned
    <3> QED BY <1>0, <1>7, <3>1
  <2>2. mk.restore[o] \in Heap!Node /\ ownk[mk.restore[o]] = o /\ mk.scope[mk.restore[o]] < mk.scope[o]
    BY <1>0, <1>7 DEF Saved
  <2>3. mk.scope[mk.restore[o]] \in 0 .. top
    BY <1>0, <1>7, <2>2 DEF Owned
  <2> QED BY <2>1, <2>2, <2>3
<1>10. \A n \in Heap!Cell : ownk[n] # o
  <2> SUFFICES ASSUME NEW n \in Heap!Cell, ownk[n] = o PROVE FALSE
    OBVIOUS
  <2>1. mk.restore[o] \in Heap!Cell
    BY <1>6, <1>7, NewestCopy
  <2> QED BY <1>0, <1>9, <2>1
<1>11. \A n \in N : ownk[n] = Null \/ n = o
  <2> SUFFICES ASSUME NEW n \in N, ownk[n] = o PROVE n = o
    BY <1>2, <1>7
  <2>1. n \in Heap!Node /\ n \notin Heap!Cell
    BY <1>2, <1>10
  <2>2. n \in HeapObj
    BY <2>1 DEF Heap!Node
  <2> QED BY <1>0, <1>7, <2>2 DEF Owned
<1> DEFINE own2 == [n \in Heap!Node |-> IF n \in N THEN Null ELSE ownk[n]]
<1>12. /\ m2 \in Heap!Memory
       /\ \A n \in N : m2.scope[n] = Heap!NoScope
       /\ \A n \in Heap!Node \ N : /\ m2.restore[n] = mk.restore[n]
                              /\ m2.scope[n] = mk.scope[n] /\ m2.data[n] = mk.data[n]
       /\ Owned(m2, own2, top) /\ Saved(m2, own2, fs, fr)
       /\ Lists(m2, own2, rkk, Bk, Null, top, top)
  <2>1. N \in SUBSET Heap!Node /\ o \in N
    BY <1>0, <1>2
  <2> HIDE DEF own2
  <2>2. own2 \in [Heap!Node -> HeapObj \cup {Null}]
    BY <1>7 DEF own2, Owned
  <2>3. \A n \in Heap!Node : own2[n] = IF n \in N THEN Null ELSE ownk[n]
    BY DEF own2
  <2>4. o \in HeapObj /\ Owned(mk, ownk, top) /\ Saved(mk, ownk, fs, fr)
        /\ Lists(mk, ownk, rkk, Bk, o, top, top)
    BY <1>7
  <2>5. Wiped(mk, own2, rkk, Bk, top, fs, fr, N, m2)
    BY <1>6, <1>8, <1>10, <1>11, <2>1, <2>2, <2>3, <2>4, WipeStep
  <2> QED BY <2>5 DEF Wiped
<1>13. \A n \in Heap!Node : own2[n] = IF own[n] = o THEN Null ELSE own[n]
  BY <1>2, <1>7
<1>14. \A n \in Heap!Node :
              IF own[n] = o THEN m2.scope[n] = Heap!NoScope
              ELSE m2.restore[n] = m.restore[n] /\ m2.scope[n] = m.scope[n] /\ m2.data[n] = m.data[n]
  BY <1>2, <1>7, <1>12
<1> HIDE DEF own2
<1> QED BY <1>12, <1>13, <1>14 DEF Destroys

-----------------------------------------------------------------------------
(* The inductive invariant of the heap.                                       *)

(* The scopes there are, the one that a running pop takes down included.      *)
Top == IF popping THEN heapLevel + 1 ELSE heapLevel

Regions(fs, fr, top) ==
  /\ fs \in Seq(MaxHeapLevel + 1 .. fr) /\ Len(fs) = top
  /\ fr \in MaxHeapLevel + 1 .. MaxHeapLevel + MaxCells + 1
  /\ \A i, j \in 1 .. top : i <= j => fs[i] <= fs[j]

Sound(m, own, rk, B, lv, top, fs, fr) ==
  Owned(m, own, top) /\ Saved(m, own, fs, fr) /\ Lists(m, own, rk, B, Null, lv, top)

HeapInv ==
  /\ heapLevel \in Heap!Level /\ Top \in Heap!Level /\ popping \in BOOLEAN /\ mem \in Heap!Memory
  /\ Regions(freeStack, free, Top)
  /\ \E own, rk, B : Sound(mem, own, rk, B, heapLevel, Top, freeStack, free)

(* The data of an object changes.                                             *)
LEMMA DataStep ==
  ASSUME NEW m \in Heap!Memory, NEW own, NEW rk, NEW B, NEW lv, NEW top, NEW fs, NEW fr,
         Sound(m, own, rk, B, lv, top, fs, fr),
         NEW o \in HeapObj, NEW v \in Val, NEW m2, Assigned(m, o, v, m2)
  PROVE  Sound(m2, own, rk, B, lv, top, fs, fr)
<1>1. /\ m2 \in Heap!Memory /\ m2.link = m.link /\ m2.prev = m.prev
      /\ m2.restore = m.restore /\ m2.scope = m.scope
      /\ \A n \in Heap!Node : m2.data[n] = IF n = o THEN v ELSE m.data[n]
  BY DEF Assigned
<1>2. Owned(m2, own, top)
  <2>1. \A n \in Heap!Node : own[n] # Null => m2.scope[n] \in 0 .. top /\ m2.data[n] \in Val
    BY <1>1 DEF Owned, Sound
  <2> QED BY <1>1, <2>1 DEF Owned, Sound
<1>3. Saved(m2, own, fs, fr)
  BY <1>1 DEF Saved, Sound
<1>4. Lists(m2, own, rk, B, Null, lv, top)
  BY <1>1 DEF Lists, Members, Sound
<1> QED BY <1>2, <1>3, <1>4 DEF Sound

(* The memory and the next free address after a write.                        *)
Wrote(m, o, v, top, fr, m2, fr2) ==
  IF m.scope[o] = top
    THEN m2 = [m EXCEPT !.data[o] = v] /\ fr2 = fr
    ELSE fr \in Heap!Cell /\ m2 = [Heap!Update(m, o, fr, top) EXCEPT !.data[o] = v] /\ fr2 = fr + 1

(* Either the data of o changes, or a copy is saved first.                    *)
LEMMA WroteFields ==
  ASSUME NEW m \in Heap!Memory, NEW own, NEW rk, NEW B, NEW top \in Heap!Level, NEW fs, NEW fr,
         Sound(m, own, rk, B, top, top, fs, fr), Regions(fs, fr, top),
         NEW o \in HeapObj, m.scope[o] # Heap!NoScope, NEW v \in Val,
         NEW m2, NEW fr2, Wrote(m, o, v, top, fr, m2, fr2)
  PROVE  \/ m.scope[o] = top /\ Assigned(m, o, v, m2) /\ fr2 = fr
         \/ /\ m.scope[o] # top /\ fr \in Heap!Cell /\ fr2 = fr + 1
            /\ Assigned(Heap!Update(m, o, fr, top), o, v, m2) /\ Saves(m, own, fs, top, o, fr, m2)
<1>1. CASE m.scope[o] = top
  BY <1>1, AssignedFields DEF Wrote
<1>2. CASE m.scope[o] # top
  <2>1. fr \in Heap!Cell /\ m2 = [Heap!Update(m, o, fr, top) EXCEPT !.data[o] = v] /\ fr2 = fr + 1
    BY <1>2 DEF Wrote
  <2>2. /\ fs \in Seq(MaxHeapLevel + 1 .. fr) /\ Len(fs) = top
        /\ Owned(m, own, top) /\ Saved(m, own, fs, fr) /\ Lists(m, own, rk, B, Null, top, top)
    BY DEF Regions, Sound
  <2>3. Heap!Update(m, o, fr, top) \in Heap!Memory
    BY <1>2, <2>1, <2>2, UpdateIsMemory
  <2>4. Assigned(Heap!Update(m, o, fr, top), o, v, m2)
    BY <2>1, <2>3, AssignedFields
  <2>5. Saves(m, own, fs, top, o, fr, m2)
    BY <1>2, <2>1, <2>2, <2>4, UpdateStep
  <2> QED BY <1>2, <2>1, <2>4, <2>5
<1> QED BY <1>1, <1>2

LEMMA SeqWider ==
  ASSUME NEW X, NEW Y, X \subseteq Y, NEW q \in Seq(X)
  PROVE  q \in Seq(Y)
OBVIOUS

LEMMA RegionsGrow ==
  ASSUME NEW fr \in Heap!Cell, NEW top \in Heap!Level, NEW fs, Regions(fs, fr, top)
  PROVE  Regions(fs, fr + 1, top)
<1>1. fr \in MaxHeapLevel + 1 .. MaxHeapLevel + MaxCells /\ MaxHeapLevel \in Nat /\ MaxCells \in Nat
  BY HeapAssumption DEF Heap!Cell
<1>2. fs \in Seq(MaxHeapLevel + 1 .. fr + 1)
  <2>1. MaxHeapLevel + 1 .. fr \subseteq MaxHeapLevel + 1 .. fr + 1
    BY <1>1
  <2>2. fs \in Seq(MaxHeapLevel + 1 .. fr)
    BY DEF Regions
  <2> QED BY <2>1, <2>2, SeqWider
<1> QED BY <1>1, <1>2 DEF Regions

LEMMA WriteStep ==
  ASSUME NEW m \in Heap!Memory, NEW own, NEW rk, NEW B, NEW top \in Heap!Level, NEW fs, NEW fr,
         Sound(m, own, rk, B, top, top, fs, fr), Regions(fs, fr, top),
         NEW o \in HeapObj, m.scope[o] # Heap!NoScope, NEW v \in Val,
         NEW m2, NEW fr2, Wrote(m, o, v, top, fr, m2, fr2)
  PROVE  /\ m2 \in Heap!Memory /\ Regions(fs, fr2, top)
         /\ \E own2, rk2, B2 : Sound(m2, own2, rk2, B2, top, top, fs, fr2)
<1>1. CASE m.scope[o] = top /\ Assigned(m, o, v, m2) /\ fr2 = fr
  <2>1. Sound(m2, own, rk, B, top, top, fs, fr)
    BY <1>1, DataStep
  <2>2. m2 \in Heap!Memory
    BY <1>1 DEF Assigned
  <2> QED BY <1>1, <2>1, <2>2
<1>2. CASE /\ m.scope[o] # top /\ fr \in Heap!Cell /\ fr2 = fr + 1
           /\ Assigned(Heap!Update(m, o, fr, top), o, v, m2) /\ Saves(m, own, fs, top, o, fr, m2)
  <2>1. \E own2, rk2, B2 : /\ Owned(m2, own2, top) /\ Saved(m2, own2, fs, fr + 1)
                           /\ Lists(m2, own2, rk2, B2, Null, top, top)
    BY <1>2 DEF Saves
  <2>2. m2 \in Heap!Memory
    BY <1>2 DEF Assigned
  <2>3. Regions(fs, fr + 1, top)
    BY <1>2, RegionsGrow
  <2> QED BY <1>2, <2>1, <2>2, <2>3 DEF Sound
<1> QED BY <1>1, <1>2, WroteFields

(* A pointer outside the list is stored.                                     *)
LEMMA ChainElsewhere ==
  ASSUME NEW l, NEW p, NEW S, NEW s, NEW rk, NEW H, Chain(l, p, S, s, rk, H),
         NEW l2, \A a \in S \cup {s} : l2[a] = l[a]
  PROVE  Chain(l2, p, S, s, rk, H)
<1>1. l2[s] = Null \/ (l2[s] \in S /\ p[l2[s]] \notin S)
  BY DEF Chain
<1>2. ASSUME NEW n \in S
      PROVE  l2[n] = Null \/ (l2[n] \in S /\ p[l2[n]] = n /\ rk[l2[n]] < rk[n])
  BY DEF Chain
<1>3. ASSUME NEW n \in S
      PROVE  \/ p[n] \in S /\ l2[p[n]] = n
             \/ l2[s] = n /\ p[n] \in H
  BY DEF Chain
<1> QED BY <1>1, <1>2, <1>3 DEF Chain

(* Context::push(): an empty list on top, and a new region.                   *)
LEMMA PushStep ==
  ASSUME NEW m \in Heap!Memory, NEW own, NEW rk, NEW B, NEW top \in Heap!Level, NEW fs, NEW fr,
         Sound(m, own, rk, B, top, top, fs, fr), Regions(fs, fr, top),
         top + 1 \in Heap!Level, NEW m2, m2 = [m EXCEPT !.link[top + 1] = Null]
  PROVE  /\ m2 \in Heap!Memory /\ Regions(Append(fs, fr), fr, top + 1)
         /\ Sound(m2, own, rk, B, top + 1, top + 1, Append(fs, fr), fr)
<1> DEFINE fs2 == Append(fs, fr)
           S(t) == Members(m, own, Null, t)
           S2(t) == Members(m2, own, Null, t)
<1>0. /\ top \in Nat /\ 0 .. top \subseteq Heap!Level /\ Heap!Level \cap Heap!Node = {}
      /\ Null \notin Heap!Addr
      /\ 0 .. top + 1 \subseteq Heap!Level /\ Heap!Level \subseteq Heap!Addr
      /\ Heap!Node \subseteq Heap!Addr /\ Null \notin Heap!Node
  BY Spaces
<1>1. /\ m2 \in Heap!Memory
      /\ \A a \in Heap!Addr : m2.link[a] = IF a = top + 1 THEN Null ELSE m.link[a]
      /\ m2.prev = m.prev /\ m2.restore = m.restore /\ m2.scope = m.scope /\ m2.data = m.data
  BY <1>0, Fields DEF Heap!Memory
<1>2. /\ fs \in Seq(MaxHeapLevel + 1 .. fr) /\ Len(fs) = top /\ fr \in Nat
      /\ fr >= MaxHeapLevel + 1
      /\ fr \in MaxHeapLevel + 1 .. fr
      /\ \A i, j \in 1 .. top : i <= j => fs[i] <= fs[j]
  <2>1. fr \in MaxHeapLevel + 1 .. MaxHeapLevel + MaxCells + 1 /\ MaxHeapLevel \in Nat /\ MaxCells \in Nat
    BY HeapAssumption DEF Regions
  <2>2. fr \in Nat /\ fr >= MaxHeapLevel + 1 /\ fr \in MaxHeapLevel + 1 .. fr
    BY <2>1
  <2> QED BY <2>2 DEF Regions
<1>3. /\ fs2 \in Seq(MaxHeapLevel + 1 .. fr) /\ Len(fs2) = top + 1 /\ fs2[top + 1] = fr
      /\ \A i \in 1 .. top : fs2[i] = fs[i]
  <2> HIDE DEF Heap!Level
  <2>1. fs2 \in Seq(MaxHeapLevel + 1 .. fr) /\ Len(fs2) = top + 1
    BY <1>2
  <2>2. fs2[top + 1] = fr /\ \A i \in 1 .. top : fs2[i] = fs[i]
    BY <1>0, <1>2
  <2> QED BY <2>1, <2>2
<1> HIDE DEF fs2
<1>4. Regions(fs2, fr, top + 1)
  <2>1. ASSUME NEW i \in 1 .. top + 1, NEW j \in 1 .. top + 1, i <= j PROVE fs2[i] <= fs2[j]
    <3>1. CASE j = top + 1
      <4>1. fs2[i] \in MaxHeapLevel + 1 .. fr
        BY <1>3, SeqElement
      <4> QED BY <1>2, <1>3, <3>1, <4>1, Spaces
    <3>2. CASE j # top + 1
      <4>1. i \in 1 .. top /\ j \in 1 .. top
        BY <1>0, <2>1, <3>2
      <4> QED BY <1>2, <1>3, <2>1, <4>1
    <3> QED BY <3>1, <3>2
  <2> QED BY <1>3, <2>1 DEF Regions
<1>5. \A s \in 0 .. top : RegionEnd(fs2, fr, s) = RegionEnd(fs, fr, s)
  <2> TAKE s \in 0 .. top
  <2>1. CASE s < top
    <3>1. s + 1 \in 1 .. top /\ s < top + 1
      BY <1>0, <2>1
    <3> QED BY <1>2, <1>3, <2>1, <3>1 DEF RegionEnd
  <2>2. CASE s = top
    BY <1>0, <1>2, <1>3, <2>2 DEF RegionEnd
  <2> QED BY <1>0, <2>1, <2>2
<1>6. Owned(m2, own, top + 1)
  <2>1. \A n \in Heap!Node : own[n] # Null => m2.scope[n] \in 0 .. top + 1 /\ m2.data[n] \in Val
    BY <1>0, <1>1 DEF Sound, Owned
  <2> QED BY <1>1, <2>1 DEF Sound, Owned
<1>7. Saved(m2, own, fs2, fr)
  <2>1. ASSUME NEW n \in Heap!Node, own[n] # Null, m2.restore[n] # Null
        PROVE  /\ m2.restore[n] \in Heap!Cell
               /\ own[m2.restore[n]] = own[n]
               /\ m2.scope[m2.restore[n]] < m2.scope[n]
               /\ fs2[m2.scope[n]] <= m2.restore[n]
               /\ m2.restore[n] < RegionEnd(fs2, fr, m2.scope[n])
    <3>1. /\ m.restore[n] \in Heap!Cell
          /\ own[m.restore[n]] = own[n]
          /\ m.scope[m.restore[n]] < m.scope[n]
          /\ fs[m.scope[n]] <= m.restore[n]
          /\ m.restore[n] < RegionEnd(fs, fr, m.scope[n])
      BY <1>1, <2>1 DEF Sound, Saved
    <3>2. m.scope[n] \in 0 .. top /\ m.scope[m.restore[n]] \in 0 .. top
      BY <2>1, <3>1, Spaces DEF Sound, Owned
    <3>3. m.scope[n] \in 1 .. top
      BY <1>0, <3>1, <3>2
    <3> QED BY <1>1, <1>3, <1>5, <3>1, <3>2, <3>3
  <2>2. \A c \in Heap!Cell : own[c] # Null => \E n \in Heap!Node : own[n] # Null /\ m2.restore[n] = c
    BY <1>1 DEF Sound, Saved
  <2> QED BY <2>1, <2>2 DEF Saved
<1>8. Lists(m2, own, rk, B, Null, top + 1, top + 1)
  <2>1. B \in Nat /\ rk \in [Heap!Node -> 0 .. B] /\ \A t \in 0 .. top : Chain(m.link, m.prev, S(t), t, rk, {t})
    BY DEF Sound, Lists
  <2>2. \A t : S2(t) = S(t)
    BY <1>1 DEF Members
  <2>3. S(top + 1) = {}
    <3>1. \A n \in Heap!Node : own[n] # Null => m.scope[n] \in 0 .. top
      BY DEF Sound, Owned
    <3>2. top + 1 \notin 0 .. top
      BY <1>0
    <3> QED BY <3>1, <3>2 DEF Members
  <2> HIDE DEF S, S2
  <2>4. ASSUME NEW t \in 0 .. top + 1 PROVE Chain(m2.link, m2.prev, S2(t), t, rk, {t})
    <3>1. CASE t = top + 1
      <4>1. m2.link[t] = Null
        BY <1>0, <1>1, <3>1
      <4> QED BY <2>2, <2>3, <3>1, <4>1 DEF Chain
    <3>2. CASE t # top + 1
      <4>1. t \in 0 .. top
        BY <1>0, <3>2
      <4>2. S(t) \subseteq Heap!Node
        BY DEF S, Members
      <4>3. \A a \in S(t) \cup {t} : m2.link[a] = m.link[a]
        <5>1. \A a \in S(t) \cup {t} : a \in Heap!Addr /\ a # top + 1
          BY <1>0, <3>2, <4>1, <4>2
        <5> QED BY <1>1, <5>1
      <4>4. Chain(m.link, m.prev, S(t), t, rk, {t})
        BY <2>1, <4>1
      <4>5. Chain(m2.link, m.prev, S(t), t, rk, {t})
        BY <4>3, <4>4, ChainElsewhere
      <4>6. Chain(m2.link, m2.prev, S(t), t, rk, {t})
        BY <1>1, <4>5
      <4> QED BY <2>2, <4>6
    <3> QED BY <3>1, <3>2
  <2>5. (top + 1) + 1 .. top + 1 = {}
    BY <1>0
  <2> QED BY <2>1, <2>4, <2>5 DEF Lists, S2
<1> QED BY <1>1, <1>4, <1>6, <1>7, <1>8 DEF Sound, fs2

(* The scope that Context::pop() takes down.                                  *)
LEMMA PopStep ==
  ASSUME NEW m, NEW own, NEW rk, NEW B, NEW top \in Heap!Level, NEW fs, NEW fr, top > 0,
         Sound(m, own, rk, B, top, top, fs, fr)
  PROVE  Sound(m, own, rk, B, top - 1, top, fs, fr)
<1>1. top \in Nat
  BY Spaces
<1>2. /\ B \in Nat /\ rk \in [Heap!Node -> 0 .. B]
      /\ \A t \in 0 .. top : Chain(m.link, m.prev, Members(m, own, Null, t), t, rk, {t})
  BY DEF Sound, Lists
<1>3. \A t \in 0 .. top - 1 : t \in 0 .. top
  BY <1>1
<1>4. \A t \in (top - 1) + 1 .. top : Chain(m.link, m.prev, Members(m, own, Null, t), t, rk, Unlinked)
  <2>1. \A t \in (top - 1) + 1 .. top : t \in 0 .. top /\ t \in Heap!Level
    BY <1>1, Spaces
  <2> QED BY <1>2, <2>1, ChainPopped
<1>5. Lists(m, own, rk, B, Null, top - 1, top)
  BY <1>2, <1>3, <1>4 DEF Lists
<1> QED BY <1>5 DEF Sound

-----------------------------------------------------------------------------
(* One iteration of ~Scope().                                                 *)

Beheads(l, s, S, o, l2) ==
  l[s] = o /\ l2[s] = l[o] /\ \A n \in S \ {o} : l2[n] = l[n]

LEMMA ChainBeheaded ==
  ASSUME NEW l, NEW p, NEW S, S \subseteq Heap!Node, NEW s \in Heap!Level, NEW B \in Nat,
         NEW rk \in [Heap!Node -> 0 .. B], Chain(l, p, S, s, rk, Unlinked),
         NEW o \in S \cap HeapObj, NEW l2, Beheads(l, s, S, o, l2)
  PROVE  Chain(l2, p, S \ {o}, s, rk, Unlinked)
<1>1. l[s] = o /\ l2[s] = l[o]
  BY DEF Beheads
<1>2. \A n \in S \ {o} : l2[n] = l[n] /\ p[n] = p[n] /\ rk[n] = rk[n]
  BY DEF Beheads
<1> QED BY <1>1, <1>2, ChainBehead

(* Pointer x is stored at address a.                                          *)
Linked(m, a, x, m2) ==
  /\ m2 \in Heap!Memory
  /\ \A b \in Heap!Addr : m2.link[b] = IF b = a THEN x ELSE m.link[b]
  /\ m2.prev = m.prev /\ m2.restore = m.restore /\ m2.scope = m.scope /\ m2.data = m.data

LEMMA LinkNoPrevFields ==
  ASSUME NEW m \in Heap!Memory, NEW a \in Heap!Addr, NEW x \in Heap!Node \cup {Null},
         NEW m2, m2 = Heap!LinkNoPrev(m, a, x)
  PROVE  Linked(m, a, x, m2)
<1>1. /\ m2.link = [m.link EXCEPT ![a] = x]
      /\ m2.prev = m.prev /\ m2.restore = m.restore /\ m2.scope = m.scope /\ m2.data = m.data
      /\ m2 \in Heap!Memory
  BY DEF Heap!LinkNoPrev, Heap!Memory
<1>2. m.link \in [Heap!Addr -> Heap!Node \cup {Null}]
  BY Fields
<1> QED BY <1>1, <1>2 DEF Linked

LEMMA RestoredElsewhere ==
  ASSUME NEW m \in Heap!Memory, NEW o \in HeapObj, NEW c \in Heap!Cell,
         NEW r, Restored(m, o, c, r),
         NEW t \in Heap!Addr, t # o, t # c, t # m.prev[c], NEW x,
         NEW m1, Linked(m, t, x, m1), NEW m2, Linked(r, t, x, m2)
  PROVE  Restored(m1, o, c, m2)
<1>1. o \in Heap!Addr /\ c \in Heap!Addr /\ o \in Heap!Node /\ c \in Heap!Node
  BY Spaces
<1>2. m1.link[c] = m.link[c]
  BY <1>1 DEF Linked
<1>3. m1.prev = m.prev /\ m1.restore = m.restore /\ m1.scope = m.scope /\ m1.data = m.data
  BY DEF Linked
<1>4. m2.prev = r.prev /\ m2.restore = r.restore /\ m2.scope = r.scope /\ m2.data = r.data
  BY DEF Linked
<1>5. \A a \in Heap!Addr : m2.link[a] =
        IF a = o THEN m1.link[c] ELSE IF a = m1.prev[c] THEN o ELSE m1.link[a]
  <2> TAKE a \in Heap!Addr
  <2>1. CASE a = t
    <3>1. m2.link[a] = x /\ m1.link[a] = x
      BY <2>1 DEF Linked
    <3> QED BY <1>3, <2>1, <3>1
  <2>2. CASE a # t
    <3>1. m2.link[a] = r.link[a] /\ m1.link[a] = m.link[a]
      BY <2>2 DEF Linked
    <3> QED BY <1>2, <1>3, <3>1 DEF Restored
  <2> QED BY <2>1, <2>2
<1>6. \A n \in Heap!Node :
       /\ r.prev[n] = IF n = o THEN m.prev[c] ELSE IF n = m.link[c] THEN o ELSE m.prev[n]
       /\ r.restore[n] = IF n = o THEN m.restore[c] ELSE m.restore[n]
       /\ r.scope[n] = IF n = o THEN m.scope[c] ELSE m.scope[n]
       /\ r.data[n] = IF n = o THEN m.data[c] ELSE m.data[n]
  BY DEF Restored
<1> QED BY <1>2, <1>3, <1>4, <1>5, <1>6 DEF Restored

(* The first object of the list leaves it; nothing else happens in m1.        *)
Beheaded(m, own, rk, B, lv, top, fs, fr, o, m1) ==
  /\ o \in HeapObj /\ own[o] = o /\ m.scope[o] = top
  /\ m1 \in Heap!Memory
  /\ \A a \in Heap!Addr : m1.link[a] = IF a = top THEN m.link[o] ELSE m.link[a]
  /\ m1.prev = m.prev /\ m1.restore = m.restore /\ m1.scope = m.scope /\ m1.data = m.data
  /\ Owned(m1, own, top) /\ Saved(m1, own, fs, fr) /\ Lists(m1, own, rk, B, o, lv, top)

LEMMA BeheadStep ==
  ASSUME NEW m \in Heap!Memory, NEW own, NEW rk, NEW B,
         NEW lv \in Heap!Level, lv + 1 \in Heap!Level,
         NEW fs, NEW fr, Sound(m, own, rk, B, lv, lv + 1, fs, fr),
         NEW o, o = m.link[lv + 1], o # Null,
         NEW m1, m1 = [m EXCEPT !.link[lv + 1] = m.link[o]]
  PROVE  Beheaded(m, own, rk, B, lv, lv + 1, fs, fr, o, m1)
<1> DEFINE top == lv + 1
           S(t) == Members(m, own, Null, t)
<1>0. /\ lv \in Nat /\ top \in Heap!Level /\ 0 .. top \subseteq Heap!Level
      /\ Heap!Level \cap Heap!Node = {}
      /\ Heap!Level \subseteq Heap!Addr /\ Heap!Node \subseteq Heap!Addr /\ Null \notin Heap!Node
      /\ HeapObj \subseteq Heap!Node
      /\ top \notin 0 .. lv /\ top \in lv + 1 .. top
  BY Spaces
<1>1. /\ B \in Nat /\ rk \in [Heap!Node -> 0 .. B]
      /\ \A t \in 0 .. lv : Chain(m.link, m.prev, S(t), t, rk, {t})
      /\ Chain(m.link, m.prev, S(top), top, rk, Unlinked)
  BY <1>0 DEF Sound, Lists
<1>2. o \in S(top)
  BY <1>1 DEF Chain
<1>3. o \in Heap!Node /\ own[o] # Null /\ m.scope[o] = top
  BY <1>2 DEF Members
<1>4. Owned(m, own, top) /\ Saved(m, own, fs, fr)
  BY DEF Sound
<1>5. o \in HeapObj /\ own[o] = o
  <2>1. ASSUME o \in Heap!Cell PROVE FALSE
    <3>1. own[o] \in HeapObj /\ own[own[o]] # Null
      BY <1>3, <1>4, OwnerIsAlive
    <3>2. m.scope[own[o]] \in 0 .. top /\ m.scope[o] < m.scope[own[o]]
      BY <1>0, <1>3, <1>4, <2>1, <3>1 DEF Owned
    <3> QED BY <1>0, <1>3, <3>2
  <2>2. o \in HeapObj
    BY <1>3, <2>1 DEF Heap!Node
  <2> QED BY <1>3, <1>4, <2>2 DEF Owned
<1>6. /\ m1 \in Heap!Memory
      /\ \A a \in Heap!Addr : m1.link[a] = IF a = top THEN m.link[o] ELSE m.link[a]
      /\ m1.prev = m.prev /\ m1.restore = m.restore /\ m1.scope = m.scope /\ m1.data = m.data
  <2>1. m.link[o] \in Heap!Node \cup {Null}
    BY <1>0, <1>3, Fields
  <2> QED BY <1>0, <2>1, Fields DEF Heap!Memory
<1>7. Owned(m1, own, top) /\ Saved(m1, own, fs, fr)
  BY <1>4, <1>6 DEF Owned, Saved
<1>8. \A t : S(t) \subseteq Heap!Node
  BY DEF Members
<1> HIDE DEF S
<1>9. \A t \in 0 .. lv : Chain(m1.link, m1.prev, Members(m1, own, o, t), t, rk, {t})
  <2> TAKE t \in 0 .. lv
  <2>1. Members(m1, own, o, t) = S(t)
    BY <1>0, <1>3, <1>6 DEF Members, S
  <2>2. \A a \in S(t) \cup {t} : m1.link[a] = m.link[a]
    <3>1. \A a \in S(t) \cup {t} : a \in Heap!Addr /\ a # top
      BY <1>0, <1>8
    <3> QED BY <1>6, <3>1
  <2>3. Chain(m1.link, m.prev, S(t), t, rk, {t})
    BY <1>1, <2>2, ChainElsewhere
  <2> QED BY <1>6, <2>1, <2>3
<1>10. Chain(m1.link, m1.prev, Members(m1, own, o, top), top, rk, Unlinked)
  <2>1. Members(m1, own, o, top) = S(top) \ {o}
    BY <1>0, <1>3, <1>6 DEF Members, S
  <2>2. m1.link[top] = m.link[o]
    BY <1>0, <1>6
  <2>3. Beheads(m.link, top, S(top), o, m1.link)
    <3>1. \A n \in S(top) : n \in Heap!Addr /\ n # top
      BY <1>0, <1>8
    <3> QED BY <1>6, <2>2, <3>1 DEF Beheads
  <2>4. Chain(m1.link, m.prev, S(top) \ {o}, top, rk, Unlinked)
    <3>1. S(top) \subseteq Heap!Node /\ o \in S(top) \cap HeapObj
      BY <1>2, <1>5, <1>8
    <3>2. top \in Heap!Level /\ Chain(m.link, m.prev, S(top), top, rk, Unlinked)
      BY <1>0, <1>1
    <3>3. B \in Nat /\ rk \in [Heap!Node -> 0 .. B]
      BY <1>1
    <3> HIDE DEF top
    <3> QED BY <2>3, <3>1, <3>2, <3>3, ChainBeheaded
  <2> QED BY <1>6, <2>1, <2>4
<1>11. \A t \in lv + 1 .. top : t = top
  BY <1>0
<1>12. Lists(m1, own, rk, B, o, lv, top)
  BY <1>1, <1>9, <1>10, <1>11 DEF Lists
<1> QED BY <1>3, <1>5, <1>6, <1>7, <1>12 DEF Beheaded

Brought(m1, own, B, lv, top, fs, fr, o, m2) ==
  \E own2, rk2 :
    /\ \A n \in Heap!Node : own2[n] = IF n = m1.restore[o] THEN Null ELSE own[n]
    /\ Sound(m2, own2, rk2, B, lv, top, fs, fr)

LEMMA BeheadedRestored ==
  ASSUME NEW m, NEW own, NEW rk, NEW B, NEW lv \in Heap!Level, NEW top \in Heap!Level,
         lv <= top, top <= lv + 1, NEW fs, NEW fr, NEW o,
         NEW m1, Beheaded(m, own, rk, B, lv, top, fs, fr, o, m1), m1.restore[o] # Null,
         NEW m2 \in Heap!Memory, Restored(m1, o, m1.restore[o], m2)
  PROVE  Brought(m1, own, B, lv, top, fs, fr, o, m2)
<1>1. /\ o \in HeapObj /\ own[o] = o /\ m1 \in Heap!Memory
      /\ Owned(m1, own, top) /\ Saved(m1, own, fs, fr) /\ Lists(m1, own, rk, B, o, lv, top)
  BY DEF Beheaded
<1>2. \E own2, rk2 :
        /\ \A n \in Heap!Node : own2[n] = IF n = m1.restore[o] THEN Null ELSE own[n]
        /\ Owned(m2, own2, top) /\ Saved(m2, own2, fs, fr)
        /\ Lists(m2, own2, rk2, B, Null, lv, top)
  BY <1>1, RestoreStep
<1> QED BY <1>2 DEF Sound, Brought

(* The version before the first one comes back.                               *)
Resumed(m, own, lv, top, fs, fr, o, m2) ==
  /\ o \in HeapObj /\ own[o] = o /\ m.scope[o] = top
  /\ \A n \in Heap!Node :
       /\ m2.restore[n] = IF n = o THEN m.restore[m.restore[o]] ELSE m.restore[n]
       /\ m2.scope[n] = IF n = o THEN m.scope[m.restore[o]] ELSE m.scope[n]
       /\ m2.data[n] = IF n = o THEN m.data[m.restore[o]] ELSE m.data[n]
  /\ \E own2, rk2, B2 :
       /\ \A n \in Heap!Node : own2[n] = IF n = m.restore[o] THEN Null ELSE own[n]
       /\ Sound(m2, own2, rk2, B2, lv, top, fs, fr)

LEMMA UnwindToCopy ==
  ASSUME NEW m \in Heap!Memory, NEW own, NEW rk, NEW B,
         NEW lv \in Heap!Level, lv + 1 \in Heap!Level,
         NEW fs, NEW fr, Sound(m, own, rk, B, lv, lv + 1, fs, fr),
         NEW o, o = m.link[lv + 1], o # Null, m.restore[o] # Null,
         NEW m2, m2 = [Heap!RestoreAndContinue(m, o) EXCEPT !.link[lv + 1] = m.link[o]]
  PROVE  m2 \in Heap!Memory /\ Resumed(m, own, lv, lv + 1, fs, fr, o, m2)
<1> DEFINE top == lv + 1
           m1 == [m EXCEPT !.link[top] = m.link[o]]
           r == Heap!RestoreAndContinue(m, o)
           c == m.restore[o]
<1>0. /\ lv \in Nat /\ top \in Heap!Level /\ 0 .. top \subseteq Heap!Level
      /\ Heap!Level \cap Heap!Node = {}
      /\ Heap!Level \subseteq Heap!Addr /\ Heap!Node \subseteq Heap!Addr /\ Null \notin Heap!Node
      /\ HeapObj \subseteq Heap!Node
      /\ top \notin 0 .. lv /\ Heap!Cell \subseteq Heap!Node /\ lv <= top
  BY Spaces
<1>1. Beheaded(m, own, rk, B, lv, top, fs, fr, o, m1)
  BY BeheadStep
<1> HIDE DEF m1
<1>2. /\ o \in HeapObj /\ own[o] = o /\ m.scope[o] = top
      /\ m1 \in Heap!Memory
      /\ \A a \in Heap!Addr : m1.link[a] = IF a = top THEN m.link[o] ELSE m.link[a]
      /\ m1.prev = m.prev /\ m1.restore = m.restore /\ m1.scope = m.scope /\ m1.data = m.data
      /\ Owned(m1, own, top) /\ Saved(m1, own, fs, fr) /\ Lists(m1, own, rk, B, o, lv, top)
  BY <1>1 DEF Beheaded
<1>3. Listed(m, own, rk, Null, lv, o)
  <2>1. Owned(m, own, top) /\ Saved(m, own, fs, fr) /\ Lists(m, own, rk, B, Null, lv, top)
    BY DEF Sound
  <2>2. top <= lv + 1
    BY <1>0
  <2> HIDE DEF top
  <2> QED BY <1>0, <1>2, <2>1, <2>2, CopyIsListed
<1>4. /\ c \in Heap!Cell /\ m.prev[c] \in Heap!Addr /\ m.prev[c] # o /\ m.link[c] # o
      /\ m.prev[c] # top /\ c # top /\ o # top
  <2>1. /\ c \in Heap!Cell /\ m.scope[c] \in 0 .. lv
        /\ m.prev[c] \in Members(m, own, Null, m.scope[c]) \cup {m.scope[c]}
        /\ m.prev[c] # o /\ m.link[c] # o
    BY <1>3 DEF Listed
  <2>2. Members(m, own, Null, m.scope[c]) \subseteq Heap!Node
    BY DEF Members
  <2>3. m.prev[c] \in Heap!Addr /\ m.prev[c] # top
    <3>1. CASE m.prev[c] \in Members(m, own, Null, m.scope[c])
      <4>1. m.prev[c] \in Heap!Node
        BY <2>2, <3>1
      <4> HIDE DEF top
      <4> QED BY <1>0, <4>1
    <3>2. CASE m.prev[c] = m.scope[c]
      <4>1. m.prev[c] \in 0 .. lv
        BY <2>1, <3>2
      <4> HIDE DEF top
      <4>2. m.prev[c] # top
        BY <1>0, <4>1
      <4>3. 0 .. lv \subseteq Heap!Addr
        BY Spaces
      <4> QED BY <4>1, <4>2, <4>3
    <3> QED BY <2>1, <3>1, <3>2
  <2>4. c # top /\ o # top
    BY <1>0, <1>2, <2>1
  <2> QED BY <2>1, <2>3, <2>4
<1>5. r \in Heap!Memory /\ Restored(m, o, c, r)
  <2>1. m.restore[o] = c
    OBVIOUS
  <2> HIDE DEF c
  <2> QED BY <1>2, <1>4, <2>1, RestoreFields DEF Restored
<1>6. Linked(m, top, m.link[o], m1) /\ Linked(r, top, m.link[o], m2)
  <2>1. m.link[o] \in Heap!Node \cup {Null} /\ top \in Heap!Addr
    BY <1>0, <1>2, Fields
  <2>2. m2 = Heap!LinkNoPrev(r, top, m.link[o]) /\ m1 = Heap!LinkNoPrev(m, top, m.link[o])
    BY DEF Heap!LinkNoPrev, m1
  <2> HIDE DEF r, top
  <2> QED BY <1>5, <2>1, <2>2, LinkNoPrevFields
<1>7. Restored(m1, o, m1.restore[o], m2) /\ m2 \in Heap!Memory
  <2>1. m1.restore[o] = c
    BY <1>2
  <2>2. top \in Heap!Addr
    BY <1>0
  <2>3. Restored(m1, o, c, m2)
    <3> HIDE DEF r, top, c
    <3> QED BY <1>2, <1>4, <1>5, <1>6, <2>2, RestoredElsewhere
  <2> QED BY <1>6, <2>1, <2>3 DEF Linked
<1>8. \E own2, rk2 :
        /\ \A n \in Heap!Node : own2[n] = IF n = m1.restore[o] THEN Null ELSE own[n]
        /\ Sound(m2, own2, rk2, B, lv, top, fs, fr)
  <2>1. m1.restore[o] # Null /\ top <= lv + 1
    BY <1>0, <1>2
  <2>2. lv <= top /\ top \in Heap!Level
    BY <1>0
  <2>3. Brought(m1, own, B, lv, top, fs, fr, o, m2)
    <3> HIDE DEF top, r, c
    <3> QED BY <1>1, <1>7, <2>1, <2>2, BeheadedRestored
  <2> QED BY <2>3 DEF Brought
<1>9. \E own2, rk2, B2 :
        /\ \A n \in Heap!Node : own2[n] = IF n = m.restore[o] THEN Null ELSE own[n]
        /\ Sound(m2, own2, rk2, B2, lv, top, fs, fr)
  BY <1>2, <1>8
<1>10. \A n \in Heap!Node :
        /\ m2.restore[n] = IF n = o THEN m.restore[c] ELSE m.restore[n]
        /\ m2.scope[n] = IF n = o THEN m.scope[c] ELSE m.scope[n]
        /\ m2.data[n] = IF n = o THEN m.data[c] ELSE m.data[n]
  <2>1. m1.restore = m.restore /\ m1.scope = m.scope /\ m1.data = m.data
    BY <1>2
  <2> QED BY <1>7, <2>1 DEF Restored
<1> QED BY <1>2, <1>7, <1>9, <1>10 DEF Resumed

(* The object did not exist before the scope.                                 *)
Vanished(m, own, lv, top, fs, fr, o, m2) ==
  /\ o \in HeapObj /\ own[o] = o /\ m.scope[o] = top
  /\ \A n \in Heap!Cell : own[n] # o
  /\ m2.restore = m.restore /\ m2.data = m.data
  /\ \A n \in Heap!Node : m2.scope[n] = IF n = o THEN Heap!NoScope ELSE m.scope[n]
  /\ \E own2, rk2, B2 :
       /\ \A n \in Heap!Node : own2[n] = IF n = o THEN Null ELSE own[n]
       /\ Sound(m2, own2, rk2, B2, lv, top, fs, fr)

LEMMA UnwindToNone ==
  ASSUME NEW m \in Heap!Memory, NEW own, NEW rk, NEW B,
         NEW lv \in Heap!Level, lv + 1 \in Heap!Level,
         NEW fs, NEW fr, Sound(m, own, rk, B, lv, lv + 1, fs, fr),
         NEW o, o = m.link[lv + 1], o # Null, m.restore[o] = Null,
         NEW m2, m2 = [Heap!RestoreAndContinue(m, o) EXCEPT !.link[lv + 1] = m.link[o]]
  PROVE  m2 \in Heap!Memory /\ Vanished(m, own, lv, lv + 1, fs, fr, o, m2)
<1> DEFINE top == lv + 1
           m1 == [m EXCEPT !.link[top] = m.link[o]]
           own2 == [n \in Heap!Node |-> IF n = o THEN Null ELSE own[n]]
<1>0. /\ Null \notin Heap!Node /\ Null \notin HeapObj /\ HeapObj \subseteq Heap!Node
      /\ Heap!Cell \subseteq Heap!Node
      /\ Heap!Cell \cap HeapObj = {} /\ Heap!NoScope \notin Heap!Level
  BY Spaces
<1>1. Beheaded(m, own, rk, B, lv, top, fs, fr, o, m1)
  BY BeheadStep
<1> HIDE DEF m1
<1>2. /\ o \in HeapObj /\ own[o] = o /\ m.scope[o] = top
      /\ m1 \in Heap!Memory
      /\ m1.restore = m.restore /\ m1.scope = m.scope /\ m1.data = m.data
      /\ Owned(m1, own, top) /\ Saved(m1, own, fs, fr) /\ Lists(m1, own, rk, B, o, lv, top)
  BY <1>1 DEF Beheaded
<1>3. m2 = [m1 EXCEPT !.scope[o] = Heap!NoScope]
  BY Fields DEF Heap!RestoreAndContinue, m1, Heap!Memory
<1>4. /\ m2 \in Heap!Memory
      /\ \A n \in Heap!Node : m2.scope[n] = IF n = o THEN Heap!NoScope ELSE m1.scope[n]
      /\ m2.link = m1.link /\ m2.prev = m1.prev /\ m2.restore = m1.restore /\ m2.data = m1.data
  BY <1>0, <1>2, <1>3, Fields DEF Heap!Memory
<1>5. \A n \in Heap!Cell : own[n] # o
  <2> SUFFICES ASSUME NEW n \in Heap!Cell, own[n] = o PROVE FALSE
    OBVIOUS
  <2>1. m1.restore[o] \in Heap!Cell
    <3> HIDE DEF top
    <3>1. top \in Heap!Level
      BY DEF top
    <3> QED BY <1>2, <3>1, NewestCopy
  <2> QED BY <1>0, <1>2, <2>1
<1>6. /\ own2 \in [Heap!Node -> HeapObj \cup {Null}]
      /\ \A n \in Heap!Node : own2[n] = IF n = o THEN Null ELSE own[n]
  BY <1>2 DEF Owned
<1> HIDE DEF own2
<1>7. Owned(m2, own2, top)
  <2>1. \A p \in HeapObj : own2[p] = IF m2.scope[p] # Heap!NoScope THEN p ELSE Null
    BY <1>0, <1>2, <1>4, <1>6 DEF Owned
  <2>2. \A n \in Heap!Node : own2[n] # Null => m2.scope[n] \in 0 .. top /\ m2.data[n] \in Val
    BY <1>2, <1>4, <1>6 DEF Owned
  <2>3. \A n \in Heap!Cell : own2[n] # Null => m2.scope[n] < m2.scope[own2[n]]
    <3> SUFFICES ASSUME NEW n \in Heap!Cell, own2[n] # Null PROVE m2.scope[n] < m2.scope[own2[n]]
      OBVIOUS
    <3>1. n \in Heap!Node /\ n # o /\ own2[n] = own[n] /\ own[n] # o /\ own[n] \in HeapObj
      BY <1>0, <1>2, <1>5, <1>6
    <3> QED BY <1>0, <1>2, <1>4, <3>1 DEF Owned
  <2>4. \A n, k \in Heap!Node : own2[n] # Null /\ own2[n] = own2[k] /\ m2.scope[n] = m2.scope[k] => n = k
    BY <1>2, <1>4, <1>6 DEF Owned
  <2> QED BY <1>6, <2>1, <2>2, <2>3, <2>4 DEF Owned
<1>8. Saved(m2, own2, fs, fr)
  <2>1. ASSUME NEW n \in Heap!Node, own2[n] # Null, m2.restore[n] # Null
        PROVE  /\ m2.restore[n] \in Heap!Cell
               /\ own2[m2.restore[n]] = own2[n]
               /\ m2.scope[m2.restore[n]] < m2.scope[n]
               /\ fs[m2.scope[n]] <= m2.restore[n]
               /\ m2.restore[n] < RegionEnd(fs, fr, m2.scope[n])
    <3>1. n # o /\ own2[n] = own[n] /\ m2.restore[n] = m1.restore[n] /\ m2.scope[n] = m1.scope[n]
      BY <1>4, <1>6, <2>1
    <3>2. /\ m1.restore[n] \in Heap!Cell
          /\ own[m1.restore[n]] = own[n]
          /\ m1.scope[m1.restore[n]] < m1.scope[n]
          /\ fs[m1.scope[n]] <= m1.restore[n]
          /\ m1.restore[n] < RegionEnd(fs, fr, m1.scope[n])
      BY <1>2, <2>1, <3>1 DEF Saved
    <3>3. m1.restore[n] # o /\ m1.restore[n] \in Heap!Node
      BY <1>0, <1>2, <3>2
    <3>4. own2[m1.restore[n]] = own[n] /\ m2.scope[m1.restore[n]] = m1.scope[m1.restore[n]]
      BY <1>4, <1>6, <3>2, <3>3
    <3> QED BY <3>1, <3>2, <3>4
  <2>2. \A x \in Heap!Cell : own2[x] # Null => \E n \in Heap!Node : own2[n] # Null /\ m2.restore[n] = x
    <3> SUFFICES ASSUME NEW x \in Heap!Cell, own2[x] # Null
                 PROVE  \E n \in Heap!Node : own2[n] # Null /\ m2.restore[n] = x
      OBVIOUS
    <3>1. own[x] # Null /\ x # Null
      BY <1>0, <1>6
    <3>2. PICK n \in Heap!Node : own[n] # Null /\ m1.restore[n] = x
      BY <1>2, <3>1 DEF Saved
    <3>3. n # o
      BY <1>2, <3>1, <3>2
    <3> QED BY <1>4, <1>6, <3>2, <3>3
  <2> QED BY <2>1, <2>2 DEF Saved
<1>9. Lists(m2, own2, rk, B, Null, lv, top)
  <2>1. \A t : Members(m2, own2, Null, t) = Members(m1, own, o, t)
    BY <1>0, <1>4, <1>6 DEF Members
  <2> QED BY <1>2, <1>4, <2>1 DEF Lists
<1>10. Sound(m2, own2, rk, B, lv, top, fs, fr)
  BY <1>7, <1>8, <1>9 DEF Sound
<1>11. m2.restore = m.restore /\ m2.data = m.data
  BY <1>2, <1>4
<1>12. \A n \in Heap!Node : m2.scope[n] = IF n = o THEN Heap!NoScope ELSE m.scope[n]
  BY <1>2, <1>4
<1> QED BY <1>2, <1>4, <1>5, <1>6, <1>10, <1>11, <1>12 DEF Vanished

-----------------------------------------------------------------------------
(* The end of Context::pop(): the region of the scope is released.            *)

LEMMA SeqPrefix ==
  ASSUME NEW X, NEW Y, NEW q \in Seq(X), NEW n \in Nat, n <= Len(q),
         \A i \in 1 .. n : q[i] \in Y
  PROVE  /\ SubSeq(q, 1, n) \in Seq(Y) /\ Len(SubSeq(q, 1, n)) = n
         /\ \A i \in 1 .. n : SubSeq(q, 1, n)[i] = q[i]
<1>1. /\ SubSeq(q, 1, n) \in Seq(X) /\ Len(SubSeq(q, 1, n)) = n
      /\ \A i \in 1 .. n : SubSeq(q, 1, n)[i] = q[i]
  OBVIOUS
<1>2. SubSeq(q, 1, n) = [i \in 1 .. n |-> q[i]]
  OBVIOUS
<1>3. [i \in 1 .. n |-> q[i]] \in Seq(Y)
  OBVIOUS
<1> QED BY <1>1, <1>2, <1>3

LEMMA RegionsShrink ==
  ASSUME NEW lv \in Heap!Level, NEW fs, NEW fr, Regions(fs, fr, lv + 1)
  PROVE  /\ Regions(SubSeq(fs, 1, lv), fs[lv + 1], lv)
         /\ \A s \in 1 .. lv : SubSeq(fs, 1, lv)[s] = fs[s]
         /\ \A s \in 0 .. lv : RegionEnd(SubSeq(fs, 1, lv), fs[lv + 1], s) = fs[s + 1]
         /\ \A s \in 0 .. lv : RegionEnd(fs, fr, s) = fs[s + 1]
<1> DEFINE end == fs[lv + 1]
           fs2 == SubSeq(fs, 1, lv)
<1>1. /\ fs \in Seq(MaxHeapLevel + 1 .. fr) /\ Len(fs) = lv + 1
      /\ fr \in MaxHeapLevel + 1 .. MaxHeapLevel + MaxCells + 1
      /\ \A i, j \in 1 .. lv + 1 : i <= j => fs[i] <= fs[j]
  BY DEF Regions
<1>2. lv \in Nat /\ MaxHeapLevel \in Nat /\ MaxCells \in Nat
  BY Spaces, HeapAssumption
<1>3. \A i \in 1 .. lv + 1 : fs[i] \in MaxHeapLevel + 1 .. fr
  BY <1>1, SeqElement
<1>4. \A i \in 1 .. lv + 1 : fs[i] \in MaxHeapLevel + 1 .. end /\ fs[i] \in Nat
  <2> TAKE i \in 1 .. lv + 1
  <2>1. lv + 1 \in 1 .. lv + 1 /\ i <= lv + 1
    BY <1>2
  <2>2. fs[i] <= fs[lv + 1] /\ fs[i] \in MaxHeapLevel + 1 .. fr /\ fs[lv + 1] \in MaxHeapLevel + 1 .. fr
    BY <1>1, <1>3, <2>1
  <2> QED BY <1>1, <1>2, <2>2
<1>5. end \in MaxHeapLevel + 1 .. MaxHeapLevel + MaxCells + 1
  <2>1. lv + 1 \in 1 .. lv + 1
    BY <1>2
  <2>2. end \in MaxHeapLevel + 1 .. fr
    BY <1>3, <2>1
  <2> HIDE DEF end
  <2> QED BY <1>1, <1>2, <2>2
<1>6. fs2 \in Seq(MaxHeapLevel + 1 .. end) /\ Len(fs2) = lv /\ \A i \in 1 .. lv : fs2[i] = fs[i]
  <2>1. lv <= Len(fs) /\ \A i \in 1 .. lv : fs[i] \in MaxHeapLevel + 1 .. end
    BY <1>1, <1>2, <1>4
  <2> HIDE DEF end
  <2> QED BY <1>1, <1>2, <2>1, SeqPrefix
<1> HIDE DEF fs2
<1>7. \A i, j \in 1 .. lv : i <= j => fs2[i] <= fs2[j]
  BY <1>1, <1>2, <1>6
<1>8. \A s \in 0 .. lv : RegionEnd(fs2, end, s) = fs[s + 1]
  <2> TAKE s \in 0 .. lv
  <2>1. CASE s < lv
    <3>1. s + 1 \in 1 .. lv
      BY <1>2, <2>1
    <3> QED BY <1>6, <2>1, <3>1 DEF RegionEnd
  <2>2. CASE s = lv
    BY <1>2, <1>6, <2>2 DEF RegionEnd
  <2> QED BY <1>2, <2>1, <2>2
<1>9. \A s \in 0 .. lv : RegionEnd(fs, fr, s) = fs[s + 1]
  BY <1>1, <1>2 DEF RegionEnd
<1>10. Regions(fs2, end, lv)
  BY <1>5, <1>6, <1>7 DEF Regions
<1> QED BY <1>6, <1>8, <1>9, <1>10 DEF fs2

(* No version is in the scope any more, so none is in its region.             *)
LEMMA LastIsGone ==
  ASSUME NEW m \in Heap!Memory, NEW own, NEW rk, NEW B,
         NEW lv \in Heap!Level, lv + 1 \in Heap!Level,
         NEW fs, NEW fr, Sound(m, own, rk, B, lv, lv + 1, fs, fr), Regions(fs, fr, lv + 1),
         m.link[lv + 1] = Null
  PROVE  Sound(m, own, rk, B, lv, lv, SubSeq(fs, 1, lv), fs[lv + 1])
<1> DEFINE top == lv + 1
           fs2 == SubSeq(fs, 1, lv)
           end == fs[lv + 1]
<1>0. lv \in Nat /\ top \in Heap!Level /\ top \in lv + 1 .. top
  BY Spaces
<1>1. B \in Nat /\ rk \in [Heap!Node -> 0 .. B]
  BY DEF Sound, Lists
<1>2. Members(m, own, Null, top) = {}
  <2>1. Chain(m.link, m.prev, Members(m, own, Null, top), top, rk, Unlinked)
    BY <1>0 DEF Sound, Lists
  <2>2. m.link \in [Heap!Addr -> Heap!Node \cup {Null}]
    BY Fields
  <2>3. Members(m, own, Null, top) \subseteq Heap!Node
    BY DEF Members
  <2> QED BY <1>0, <1>1, <2>1, <2>2, <2>3, ChainIsEmpty
<1>3. \A n \in Heap!Node : own[n] # Null => m.scope[n] \in 0 .. lv
  <2> SUFFICES ASSUME NEW n \in Heap!Node, own[n] # Null PROVE m.scope[n] \in 0 .. lv
    OBVIOUS
  <2>1. m.scope[n] \in 0 .. top
    BY DEF Sound, Owned
  <2>2. n # Null
    BY Spaces
  <2>3. m.scope[n] # top
    BY <1>2, <2>2 DEF Members
  <2> QED BY <1>0, <2>1, <2>3
<1>4. \A s \in 1 .. lv : fs2[s] = fs[s]
  BY RegionsShrink
<1>8. \A s \in 0 .. lv : RegionEnd(fs2, end, s) = fs[s + 1]
  BY RegionsShrink
<1>9. \A s \in 0 .. lv : RegionEnd(fs, fr, s) = fs[s + 1]
  BY RegionsShrink
<1> HIDE DEF fs2, end, top
<1>5. Owned(m, own, lv)
  BY <1>3 DEF Sound, Owned
<1>6. Saved(m, own, fs2, end)
  <2>1. ASSUME NEW n \in Heap!Node, own[n] # Null, m.restore[n] # Null
        PROVE  /\ m.restore[n] \in Heap!Cell
               /\ own[m.restore[n]] = own[n]
               /\ m.scope[m.restore[n]] < m.scope[n]
               /\ fs2[m.scope[n]] <= m.restore[n]
               /\ m.restore[n] < RegionEnd(fs2, end, m.scope[n])
    <3>1. /\ m.restore[n] \in Heap!Cell
          /\ own[m.restore[n]] = own[n]
          /\ m.scope[m.restore[n]] < m.scope[n]
          /\ fs[m.scope[n]] <= m.restore[n]
          /\ m.restore[n] < RegionEnd(fs, fr, m.scope[n])
      BY <2>1 DEF Sound, Saved
    <3>2. m.restore[n] \in Heap!Node /\ own[m.restore[n]] # Null
      BY <2>1, <3>1, Spaces
    <3>3. m.scope[n] \in 0 .. lv /\ m.scope[m.restore[n]] \in 0 .. lv
      BY <1>3, <2>1, <3>2
    <3>4. m.scope[n] \in 1 .. lv
      BY <1>0, <3>1, <3>3
    <3> QED BY <1>4, <1>8, <1>9, <3>1, <3>3, <3>4
  <2> QED BY <2>1 DEF Sound, Saved
<1>7. Lists(m, own, rk, B, Null, lv, lv)
  <2>1. lv + 1 .. lv = {}
    BY <1>0
  <2> QED BY <1>1, <2>1 DEF Sound, Lists
<1> QED BY <1>5, <1>6, <1>7 DEF Sound, fs2, end

Released(m, own, rk, B, lv, fs, fr, m2) ==
  /\ m2 \in Heap!Memory /\ Regions(fs, fr, lv) /\ Sound(m2, own, rk, B, lv, lv, fs, fr)
  /\ \A n \in Heap!Node : own[n] # Null =>
       m2.restore[n] = m.restore[n] /\ m2.scope[n] = m.scope[n] /\ m2.data[n] = m.data[n]

LEMMA ReleaseStep ==
  ASSUME NEW m \in Heap!Memory, NEW own, NEW rk, NEW B,
         NEW lv \in Heap!Level, lv + 1 \in Heap!Level,
         NEW fs, NEW fr, Sound(m, own, rk, B, lv, lv + 1, fs, fr), Regions(fs, fr, lv + 1),
         m.link[lv + 1] = Null, NEW N,
         N = {n \in Heap!Cell : n >= fs[lv + 1]} \cup {o \in HeapObj : m.scope[o] = Heap!NoScope},
         NEW m2, m2 = Heap!Wipe(m, N)
  PROVE  Released(m, own, rk, B, lv, SubSeq(fs, 1, lv), fs[lv + 1], m2)
<1> DEFINE fs2 == SubSeq(fs, 1, lv)
           end == fs[lv + 1]
<1>1. Sound(m, own, rk, B, lv, lv, fs2, end)
  BY LastIsGone
<1>2. Regions(fs2, end, lv)
  BY RegionsShrink
<1> HIDE DEF fs2, end
<1>3. Owned(m, own, lv) /\ Saved(m, own, fs2, end) /\ Lists(m, own, rk, B, Null, lv, lv)
  BY <1>1 DEF Sound
<1>4. fs2 \in Seq(MaxHeapLevel + 1 .. end) /\ Len(fs2) = lv /\ end \in Nat
  <2>1. end \in MaxHeapLevel + 1 .. MaxHeapLevel + MaxCells + 1 /\ MaxHeapLevel \in Nat /\ MaxCells \in Nat
    BY <1>2, HeapAssumption DEF Regions
  <2>2. end \in Nat
    BY <2>1
  <2> QED BY <1>2, <2>2 DEF Regions
<1>5. N \in SUBSET Heap!Node
  BY Spaces
<1>6. \A n \in N : own[n] = Null
  <2> SUFFICES ASSUME NEW n \in N, own[n] # Null PROVE FALSE
    OBVIOUS
  <2>1. CASE n \in HeapObj
    <3>1. m.scope[n] = Heap!NoScope
      BY <2>1, Spaces
    <3> QED BY <1>3, <2>1, <3>1 DEF Owned
  <2>2. CASE n \in Heap!Cell /\ n >= end
    <3>1. n < end
      BY <1>3, <1>4, <2>2, CopyIsSaved
    <3> QED BY <1>4, <2>2, <3>1, Spaces
  <2> QED BY <2>1, <2>2 DEF end
<1>7. own \in [Heap!Node -> HeapObj \cup {Null}] /\ \A n \in Heap!Node : own[n] = IF n \in N THEN Null ELSE own[n]
  BY <1>3, <1>6 DEF Owned
<1>8. Wiped(m, own, rk, B, lv, fs2, end, N, m2)
  BY <1>3, <1>5, <1>6, <1>7, WipeStep
<1>9. \A n \in Heap!Node : own[n] # Null =>
        m2.restore[n] = m.restore[n] /\ m2.scope[n] = m.scope[n] /\ m2.data[n] = m.data[n]
  BY <1>6, <1>8 DEF Wiped
<1> QED BY <1>2, <1>8, <1>9 DEF Released, Wiped, Sound, fs2, end

-----------------------------------------------------------------------------
(* The inductive invariant holds in the first state, and each action keeps it. *)

LEMMA HeapInit == Heap!Init => HeapInv
<1> SUFFICES ASSUME Heap!Init PROVE HeapInv
  OBVIOUS
<1> DEFINE own == [n \in Heap!Node |-> Null]
           rk == [n \in Heap!Node |-> 0]
<1>0. /\ 0 \in Heap!Level /\ MaxHeapLevel \in Nat /\ MaxCells \in Nat
      /\ Heap!Level \subseteq Heap!Addr
      /\ HeapObj \subseteq Heap!Node /\ Heap!Cell \subseteq Heap!Node
      /\ Heap!NoScope \notin Heap!Level
  BY Spaces, HeapAssumption
<1>1. heapLevel = 0 /\ popping = FALSE /\ mem = Heap!NoMemory /\ free = MaxHeapLevel + 1 /\ freeStack = <<>>
  BY DEF Heap!Init
<1>2. mem \in Heap!Memory
  BY <1>1 DEF Heap!NoMemory, Heap!Memory
<1>3. Top = 0
  BY <1>1 DEF Top
<1>4. Regions(freeStack, free, 0)
  BY <1>0, <1>1 DEF Regions
<1>5. /\ \A n \in Heap!Node : mem.scope[n] = Heap!NoScope /\ mem.restore[n] = Null /\ mem.link[n] = Null
      /\ mem.link[0] = Null
  BY <1>0, <1>1, Spaces DEF Heap!NoMemory
<1>6. own \in [Heap!Node -> HeapObj \cup {Null}] /\ \A n \in Heap!Node : own[n] = Null
  OBVIOUS
<1>7. rk \in [Heap!Node -> 0 .. 0]
  OBVIOUS
<1> HIDE DEF own, rk
<1>8. Owned(mem, own, 0)
  BY <1>0, <1>5, <1>6 DEF Owned
<1>9. Saved(mem, own, freeStack, free)
  BY <1>0, <1>6 DEF Saved
<1>10. Lists(mem, own, rk, 0, Null, 0, 0)
  <2>1. \A t : Members(mem, own, Null, t) = {}
    BY <1>6 DEF Members
  <2>2. Chain(mem.link, mem.prev, {}, 0, rk, {0})
    BY <1>5 DEF Chain
  <2>3. \A t \in 0 .. 0 : t = 0
    OBVIOUS
  <2>4. 0 + 1 .. 0 = {}
    OBVIOUS
  <2> QED BY <1>7, <2>1, <2>2, <2>3, <2>4 DEF Lists
<1>11. Sound(mem, own, rk, 0, heapLevel, Top, freeStack, free)
  BY <1>1, <1>3, <1>8, <1>9, <1>10 DEF Sound
<1> QED BY <1>0, <1>1, <1>2, <1>3, <1>4, <1>11 DEF HeapInv

(* What the invariant says between two operations, and during a pop.          *)
LEMMA IdleInv ==
  ASSUME HeapInv, ~ popping
  PROVE  /\ heapLevel \in Heap!Level /\ mem \in Heap!Memory /\ Regions(freeStack, free, heapLevel)
         /\ \E own, rk, B : Sound(mem, own, rk, B, heapLevel, heapLevel, freeStack, free)
BY DEF HeapInv, Top

LEMMA PoppingInv ==
  ASSUME HeapInv, popping
  PROVE  /\ heapLevel \in Heap!Level /\ heapLevel + 1 \in Heap!Level /\ mem \in Heap!Memory
         /\ Regions(freeStack, free, heapLevel + 1)
         /\ \E own, rk, B : Sound(mem, own, rk, B, heapLevel, heapLevel + 1, freeStack, free)
BY DEF HeapInv, Top

LEMMA IdleAgain ==
  ASSUME heapLevel' \in Heap!Level, popping' = FALSE, mem' \in Heap!Memory,
         Regions(freeStack', free', heapLevel'),
         \E own, rk, B : Sound(mem', own, rk, B, heapLevel', heapLevel', freeStack', free')
  PROVE  HeapInv'
<1>1. Top' = heapLevel'
  BY DEF Top
<1> QED BY <1>1 DEF HeapInv

LEMMA PoppingStill ==
  ASSUME heapLevel' \in Heap!Level, heapLevel' + 1 \in Heap!Level, popping' = TRUE, mem' \in Heap!Memory,
         Regions(freeStack', free', heapLevel' + 1),
         \E own, rk, B : Sound(mem', own, rk, B, heapLevel', heapLevel' + 1, freeStack', free')
  PROVE  HeapInv'
<1>1. Top' = heapLevel' + 1
  BY DEF Top
<1> QED BY <1>1 DEF HeapInv

LEMMA WriteToWrote ==
  ASSUME NEW m, NEW o, NEW v, Heap!WriteTo(m, o, v)
  PROVE  Wrote(m, o, v, heapLevel, free, mem', free')
BY DEF Heap!WriteTo, Wrote

LEMMA SetKeeps ==
  ASSUME HeapInv, NEW o \in HeapObj, NEW v \in Val, Heap!Set(o, v)
  PROVE  HeapInv'
<1>1. ~ popping /\ mem.scope[o] # Heap!NoScope /\ Heap!WriteTo(mem, o, v)
      /\ UNCHANGED <<heapLevel, popping, freeStack>>
  BY DEF Heap!Set, Heap!Alive
<1>2. PICK own, rk, B : Sound(mem, own, rk, B, heapLevel, heapLevel, freeStack, free)
  BY <1>1, IdleInv
<1>3. heapLevel \in Heap!Level /\ mem \in Heap!Memory /\ Regions(freeStack, free, heapLevel)
  BY <1>1, IdleInv
<1>4. Wrote(mem, o, v, heapLevel, free, mem', free')
  BY <1>1, WriteToWrote
<1>5. /\ mem' \in Heap!Memory /\ Regions(freeStack, free', heapLevel)
      /\ \E own2, rk2, B2 : Sound(mem', own2, rk2, B2, heapLevel, heapLevel, freeStack, free')
  BY <1>1, <1>2, <1>3, <1>4, WriteStep
<1>6. popping' = FALSE /\ heapLevel' = heapLevel /\ freeStack' = freeStack
  BY <1>1 DEF HeapInv
<1> QED BY <1>3, <1>5, <1>6, IdleAgain

(* The constructor of ContextObj.                                             *)
LEMMA BuildKeeps ==
  ASSUME HeapInv, ~ popping, NEW o \in HeapObj, mem.scope[o] = Heap!NoScope,
         NEW s \in 0 .. heapLevel, NEW v \in Val
  PROVE  /\ Heap!Construct(o, s, v) \in Heap!Memory
         /\ Heap!Construct(o, s, v).scope[o] = s /\ s \in Heap!Level
         /\ \E own, rk, B : Sound(Heap!Construct(o, s, v), own, rk, B, heapLevel, heapLevel, freeStack, free)
<1> DEFINE b == Built(mem, o, s, v)
<1>1. PICK own, rk, B : Sound(mem, own, rk, B, heapLevel, heapLevel, freeStack, free)
  BY IdleInv
<1>2. heapLevel \in Heap!Level /\ mem \in Heap!Memory /\ Regions(freeStack, free, heapLevel)
  BY IdleInv
<1>3. s \in Heap!Level /\ o \in Heap!Node
  BY <1>2, Spaces
<1>4. b \in Heap!Memory /\ b.scope[o] = s
  BY <1>2, <1>3, BuiltFields
<1>5. Builds(mem, own, freeStack, free, heapLevel, o, b)
  BY <1>1, <1>2, BuildStep DEF Sound
<1>6. \E own2, rk2, B2 : Sound(b, own2, rk2, B2, heapLevel, heapLevel, freeStack, free)
  BY <1>5 DEF Builds, Sound
<1>7. b = Heap!Construct(o, s, v)
  BY DEF Built, Heap!Construct
<1> QED BY <1>3, <1>4, <1>6, <1>7

LEMMA NewInCMMKeeps ==
  ASSUME HeapInv, NEW o \in HeapObj, NEW v \in Val, Heap!NewInCMM(o, v)
  PROVE  HeapInv'
<1>1. /\ ~ popping /\ mem.scope[o] = Heap!NoScope /\ mem' = Heap!Construct(o, heapLevel, v)
      /\ UNCHANGED <<heapLevel, popping, free, freeStack>>
  BY DEF Heap!NewInCMM, Heap!Alive
<1>2. heapLevel \in Heap!Level /\ Regions(freeStack, free, heapLevel)
  BY <1>1, IdleInv
<1>3. heapLevel \in 0 .. heapLevel
  BY <1>2, Spaces
<1>4. /\ mem' \in Heap!Memory
      /\ \E own, rk, B : Sound(mem', own, rk, B, heapLevel, heapLevel, freeStack, free)
  BY <1>1, <1>3, BuildKeeps
<1>5. popping' = FALSE /\ heapLevel' = heapLevel /\ freeStack' = freeStack /\ free' = free
  BY <1>1 DEF HeapInv
<1> QED BY <1>2, <1>4, <1>5, IdleAgain

LEMMA NewDefaultKeeps ==
  ASSUME HeapInv, NEW o \in HeapObj, Heap!NewDefault(o)
  PROVE  HeapInv'
<1>1. /\ ~ popping /\ mem.scope[o] = Heap!NoScope /\ mem' = Heap!Construct(o, 0, Default)
      /\ UNCHANGED <<heapLevel, popping, free, freeStack>>
  BY DEF Heap!NewDefault, Heap!Alive
<1>2. heapLevel \in Heap!Level /\ Regions(freeStack, free, heapLevel)
  BY <1>1, IdleInv
<1>3. 0 \in 0 .. heapLevel /\ Default \in Val
  BY <1>2, Spaces, HeapAssumption
<1>4. /\ mem' \in Heap!Memory
      /\ \E own, rk, B : Sound(mem', own, rk, B, heapLevel, heapLevel, freeStack, free)
  BY <1>1, <1>3, BuildKeeps
<1>5. popping' = FALSE /\ heapLevel' = heapLevel /\ freeStack' = freeStack /\ free' = free
  BY <1>1 DEF HeapInv
<1> QED BY <1>2, <1>4, <1>5, IdleAgain

LEMMA NewKeeps ==
  ASSUME HeapInv, NEW o \in HeapObj, NEW v \in Val, Heap!New(o, v)
  PROVE  HeapInv'
<1> DEFINE b == Heap!Construct(o, 0, Default)
<1>1. /\ ~ popping /\ mem.scope[o] = Heap!NoScope /\ Heap!WriteTo(b, o, v)
      /\ UNCHANGED <<heapLevel, popping, freeStack>>
  BY DEF Heap!New, Heap!Alive
<1>2. heapLevel \in Heap!Level /\ Regions(freeStack, free, heapLevel)
  BY <1>1, IdleInv
<1>3. 0 \in 0 .. heapLevel /\ Default \in Val /\ 0 # Heap!NoScope
  BY <1>2, Spaces, HeapAssumption
<1>4. /\ b \in Heap!Memory /\ b.scope[o] # Heap!NoScope
      /\ \E own, rk, B : Sound(b, own, rk, B, heapLevel, heapLevel, freeStack, free)
  BY <1>1, <1>3, BuildKeeps
<1> HIDE DEF b
<1>5. PICK own, rk, B : Sound(b, own, rk, B, heapLevel, heapLevel, freeStack, free)
  BY <1>4
<1>6. Wrote(b, o, v, heapLevel, free, mem', free')
  BY <1>1, WriteToWrote
<1>7. /\ mem' \in Heap!Memory /\ Regions(freeStack, free', heapLevel)
      /\ \E own2, rk2, B2 : Sound(mem', own2, rk2, B2, heapLevel, heapLevel, freeStack, free')
  BY <1>2, <1>4, <1>5, <1>6, WriteStep
<1>8. popping' = FALSE /\ heapLevel' = heapLevel /\ freeStack' = freeStack
  BY <1>1 DEF HeapInv
<1> QED BY <1>2, <1>7, <1>8, IdleAgain

LEMMA DestroyKeeps ==
  ASSUME HeapInv, NEW o \in HeapObj, Heap!Destroy(o)
  PROVE  HeapInv'
<1>1. /\ ~ popping /\ mem.scope[o] # Heap!NoScope /\ mem' = Heap!DestroyAll(mem, o)
      /\ UNCHANGED <<heapLevel, popping, free, freeStack>>
  BY DEF Heap!Destroy, Heap!Alive
<1>2. PICK own, rk, B : Sound(mem, own, rk, B, heapLevel, heapLevel, freeStack, free)
  BY <1>1, IdleInv
<1>3. heapLevel \in Heap!Level /\ mem \in Heap!Memory /\ Regions(freeStack, free, heapLevel)
  BY <1>1, IdleInv
<1>4. own[o] = o
  BY <1>1, <1>2 DEF Sound, Owned
<1>5. Destroys(mem, own, freeStack, free, heapLevel, o, mem')
  BY <1>1, <1>2, <1>3, <1>4, DestroyStep DEF Sound
<1>6. /\ mem' \in Heap!Memory
      /\ \E own2, rk2, B2 : Sound(mem', own2, rk2, B2, heapLevel, heapLevel, freeStack, free)
  BY <1>5 DEF Destroys, Sound
<1>7. popping' = FALSE /\ heapLevel' = heapLevel /\ freeStack' = freeStack /\ free' = free
  BY <1>1 DEF HeapInv
<1> QED BY <1>3, <1>6, <1>7, IdleAgain

LEMMA PushKeeps ==
  ASSUME HeapInv, Heap!Push
  PROVE  HeapInv'
<1>1. /\ ~ popping /\ heapLevel < MaxHeapLevel /\ heapLevel' = heapLevel + 1
      /\ mem' = [mem EXCEPT !.link[heapLevel + 1] = Null]
      /\ freeStack' = Append(freeStack, free) /\ popping' = popping /\ free' = free
  BY DEF Heap!Push
<1>2. PICK own, rk, B : Sound(mem, own, rk, B, heapLevel, heapLevel, freeStack, free)
  BY <1>1, IdleInv
<1>3. heapLevel \in Heap!Level /\ mem \in Heap!Memory /\ Regions(freeStack, free, heapLevel)
  BY <1>1, IdleInv
<1>4. heapLevel + 1 \in Heap!Level
  BY <1>1, <1>3, HeapAssumption DEF Heap!Level
<1>5. /\ mem' \in Heap!Memory /\ Regions(freeStack', free, heapLevel + 1)
      /\ Sound(mem', own, rk, B, heapLevel + 1, heapLevel + 1, freeStack', free)
  BY <1>1, <1>2, <1>3, <1>4, PushStep
<1>6. popping' = FALSE
  BY <1>1 DEF HeapInv
<1> QED BY <1>1, <1>4, <1>5, <1>6, IdleAgain

LEMMA PopScopeKeeps ==
  ASSUME HeapInv, Heap!PopScope
  PROVE  HeapInv'
<1>1. /\ ~ popping /\ heapLevel > 0 /\ popping' = TRUE /\ heapLevel' = heapLevel - 1
      /\ mem' = mem /\ free' = free /\ freeStack' = freeStack
  BY DEF Heap!PopScope
<1>2. PICK own, rk, B : Sound(mem, own, rk, B, heapLevel, heapLevel, freeStack, free)
  BY <1>1, IdleInv
<1>3. heapLevel \in Heap!Level /\ mem \in Heap!Memory /\ Regions(freeStack, free, heapLevel)
  BY <1>1, IdleInv
<1>4. Sound(mem, own, rk, B, heapLevel - 1, heapLevel, freeStack, free)
  BY <1>1, <1>2, <1>3, PopStep
<1>5. heapLevel - 1 \in Heap!Level /\ (heapLevel - 1) + 1 = heapLevel
  BY <1>1, <1>3, HeapAssumption DEF Heap!Level
<1> QED BY <1>1, <1>3, <1>4, <1>5, PoppingStill

LEMMA RestoreNextKeeps ==
  ASSUME HeapInv, Heap!RestoreNext
  PROVE  HeapInv'
<1> DEFINE o == mem.link[heapLevel + 1]
<1>1. /\ popping /\ o # Null
      /\ mem' = [Heap!RestoreAndContinue(mem, o) EXCEPT !.link[heapLevel + 1] = mem.link[o]]
      /\ heapLevel' = heapLevel /\ popping' = popping /\ free' = free /\ freeStack' = freeStack
  BY DEF Heap!RestoreNext
<1>2. PICK own, rk, B : Sound(mem, own, rk, B, heapLevel, heapLevel + 1, freeStack, free)
  BY <1>1, PoppingInv
<1>3. heapLevel \in Heap!Level /\ heapLevel + 1 \in Heap!Level /\ mem \in Heap!Memory /\ Regions(freeStack, free, heapLevel + 1)
  BY <1>1, PoppingInv
<1>4. /\ mem' \in Heap!Memory
      /\ \E own2, rk2, B2 : Sound(mem', own2, rk2, B2, heapLevel, heapLevel + 1, freeStack, free)
  <2>1. CASE mem.restore[o] = Null
    <3>1. mem' \in Heap!Memory /\ Vanished(mem, own, heapLevel, heapLevel + 1, freeStack, free, o, mem')
      BY <1>1, <1>2, <1>3, <2>1, UnwindToNone
    <3> QED BY <3>1 DEF Vanished
  <2>2. CASE mem.restore[o] # Null
    <3>1. mem' \in Heap!Memory /\ Resumed(mem, own, heapLevel, heapLevel + 1, freeStack, free, o, mem')
      BY <1>1, <1>2, <1>3, <2>2, UnwindToCopy
    <3> QED BY <3>1 DEF Resumed
  <2> QED BY <2>1, <2>2
<1>5. popping' = TRUE
  BY <1>1 DEF HeapInv
<1> QED BY <1>1, <1>3, <1>4, <1>5, PoppingStill

LEMMA ReleaseMemoryKeeps ==
  ASSUME HeapInv, Heap!ReleaseMemory
  PROVE  HeapInv'
<1> DEFINE N == {n \in Heap!Cell : n >= freeStack[heapLevel + 1]} \cup {o \in HeapObj : mem.scope[o] = Heap!NoScope}
<1>0. /\ popping /\ mem.link[heapLevel + 1] = Null /\ popping' = FALSE
      /\ free' = freeStack[Len(freeStack)] /\ heapLevel' = heapLevel
      /\ freeStack' = SubSeq(freeStack, 1, Len(freeStack) - 1)
      /\ mem' = Heap!Wipe(mem, {n \in Heap!Cell : n >= free'} \cup {o \in HeapObj : mem.scope[o] = Heap!NoScope})
  BY DEF Heap!ReleaseMemory
<1>1. PICK own, rk, B : Sound(mem, own, rk, B, heapLevel, heapLevel + 1, freeStack, free)
  BY <1>0, PoppingInv
<1>2. heapLevel \in Heap!Level /\ heapLevel + 1 \in Heap!Level /\ mem \in Heap!Memory /\ Regions(freeStack, free, heapLevel + 1)
  BY <1>0, PoppingInv
<1>3. Len(freeStack) = heapLevel + 1 /\ (heapLevel + 1) - 1 = heapLevel
  BY <1>2, Spaces DEF Regions
<1>4. /\ free' = freeStack[heapLevel + 1] /\ freeStack' = SubSeq(freeStack, 1, heapLevel)
      /\ mem' = Heap!Wipe(mem, N)
  BY <1>0, <1>3
<1>5. /\ mem' \in Heap!Memory
      /\ Regions(SubSeq(freeStack, 1, heapLevel), freeStack[heapLevel + 1], heapLevel)
      /\ Sound(mem', own, rk, B, heapLevel, heapLevel, SubSeq(freeStack, 1, heapLevel), freeStack[heapLevel + 1])
  <2>1. Released(mem, own, rk, B, heapLevel, SubSeq(freeStack, 1, heapLevel), freeStack[heapLevel + 1], mem')
    BY <1>0, <1>1, <1>2, <1>4, ReleaseStep
  <2> QED BY <2>1 DEF Released
<1> QED BY <1>0, <1>2, <1>4, <1>5, IdleAgain

LEMMA HeapKeeps == HeapInv /\ [Heap!Next]_(Heap!vars) => HeapInv'
<1> SUFFICES ASSUME HeapInv, [Heap!Next]_(Heap!vars) PROVE HeapInv'
  OBVIOUS
<1>1. ASSUME NEW o \in HeapObj, NEW v \in Val, Heap!Set(o, v) \/ Heap!New(o, v) \/ Heap!NewInCMM(o, v)
      PROVE  HeapInv'
  BY <1>1, SetKeeps, NewKeeps, NewInCMMKeeps
<1>2. ASSUME NEW o \in HeapObj, Heap!NewDefault(o) \/ Heap!Destroy(o)
      PROVE  HeapInv'
  BY <1>2, NewDefaultKeeps, DestroyKeeps
<1>3. CASE Heap!Push \/ Heap!PopScope \/ Heap!RestoreNext \/ Heap!ReleaseMemory
  BY <1>3, PushKeeps, PopScopeKeeps, RestoreNextKeeps, ReleaseMemoryKeeps
<1>4. CASE UNCHANGED Heap!vars
  BY <1>4 DEF Heap!vars, HeapInv, Top
<1> QED BY <1>1, <1>2, <1>3, <1>4 DEF Heap!Next

-----------------------------------------------------------------------------
(* What follows from the invariant.                                           *)

(* The version of o that is the newest when the running pop is over, and the  *)
(* versions of o that there are then.                                         *)
Newest(m, lv, o) == IF m.scope[o] = lv + 1 THEN m.restore[o] ELSE o
Kept(m, own, lv, o) == {n \in Heap!Node : own[n] = o /\ m.scope[n] <= lv}

LEMMA NewestIsReached ==
  ASSUME NEW m \in Heap!Memory, NEW own, NEW rk, NEW B, NEW lv \in Heap!Level,
         NEW top \in Heap!Level,
         top <= lv + 1, NEW fs, NEW fr, Sound(m, own, rk, B, lv, top, fs, fr),
         NEW o \in HeapObj, m.scope[o] # Heap!NoScope
  PROVE  Heap!Reach(m.restore, Newest(m, lv, o)) = Kept(m, own, lv, o)
<1>0. lv \in Nat /\ top \in Nat /\ HeapObj \subseteq Heap!Node /\ Heap!Cell \subseteq Heap!Node /\ Null \notin Heap!Node
      /\ Null \notin Heap!Cell
  BY Spaces
<1>1. Owned(m, own, top) /\ Saved(m, own, fs, fr)
  BY DEF Sound
<1>2. own[o] = o /\ own[o] # Null
  BY <1>0, <1>1 DEF Owned
<1>3. m.scope[o] \in 0 .. top
  BY <1>0, <1>1, <1>2 DEF Owned
<1>4. \A n \in Heap!Node : own[n] = o => m.scope[n] \in 0 .. top /\ (n = o \/ (n \in Heap!Cell /\ m.scope[n] < m.scope[o]))
  BY <1>1, OwnerIsNewest
<1>5. CASE m.scope[o] # lv + 1
  <2>1. Newest(m, lv, o) = o /\ m.scope[o] <= lv
    BY <1>0, <1>3, <1>5 DEF Newest
  <2>2. Heap!Reach(m.restore, o) = {n \in Heap!Node : own[n] = o /\ m.scope[n] <= m.scope[o]}
    BY <1>0, <1>1, <1>2, VersionsAreReached
  <2>3. \A n \in Heap!Node : own[n] = o => m.scope[n] <= m.scope[o] /\ m.scope[n] <= lv
    BY <1>0, <1>3, <1>4, <2>1
  <2> QED BY <2>1, <2>2, <2>3 DEF Kept
<1>6. CASE m.scope[o] = lv + 1 /\ m.restore[o] # Null
  <2> DEFINE c == m.restore[o]
  <2>1. Newest(m, lv, o) = c
    BY <1>6 DEF Newest
  <2>2. c \in Heap!Cell /\ own[c] = o /\ m.scope[c] < m.scope[o]
    BY <1>0, <1>1, <1>2, <1>6 DEF Saved
  <2>3. c \in Heap!Node /\ m.scope[c] \in 0 .. top
    BY <1>0, <1>4, <2>2
  <2>4. m.scope[c] <= lv
    BY <1>0, <1>6, <2>2, <2>3
  <2>5. Heap!Reach(m.restore, c) = {n \in Heap!Node : own[n] = o /\ m.scope[n] <= m.scope[c]}
    BY <1>1, <1>2, <2>3, VersionsAreReached
  <2>6. ASSUME NEW n \in Heap!Node, own[n] = o PROVE m.scope[n] <= m.scope[c] <=> m.scope[n] <= lv
    <3>1. m.scope[n] \in 0 .. top
      BY <1>4, <2>6
    <3>2. CASE n = o
      BY <1>0, <1>6, <2>3, <2>4, <3>2
    <3>3. CASE n \in Heap!Cell
      <4>1. n = c \/ m.scope[n] < m.scope[c]
        BY <1>1, <2>6, <3>3, NewestCopy
      <4> QED BY <1>0, <2>3, <2>4, <3>1, <4>1
    <3> QED BY <1>4, <2>6, <3>2, <3>3
  <2> QED BY <2>1, <2>5, <2>6 DEF Kept
<1>7. CASE m.scope[o] = lv + 1 /\ m.restore[o] = Null
  <2>1. Newest(m, lv, o) = Null
    BY <1>7 DEF Newest
  <2>2. Heap!Reach(m.restore, Null) = {}
    <3>1. Heap!Reach(m.restore, Null) \subseteq {Null}
      BY ReachLeast
    <3>2. Null \notin Heap!Reach(m.restore, Null)
      BY DEF Heap!Reach
    <3> QED BY <3>1, <3>2
  <2>3. ASSUME NEW n \in Heap!Node, own[n] = o PROVE ~ (m.scope[n] <= lv)
    <3>1. CASE n = o
      BY <1>0, <1>7, <3>1
    <3>2. CASE n \in Heap!Cell
      <4>1. m.restore[o] \in Heap!Cell
        BY <1>1, <2>3, <3>2, NewestCopy
      <4> QED BY <1>0, <1>7, <4>1
    <3> QED BY <1>4, <2>3, <3>1, <3>2
  <2> QED BY <2>1, <2>2, <2>3 DEF Kept
<1> QED BY <1>5, <1>6, <1>7

LEMMA InvFacts ==
  ASSUME HeapInv
  PROVE  /\ heapLevel \in Heap!Level /\ Top \in Heap!Level /\ heapLevel <= Top /\ Top <= heapLevel + 1
         /\ Top = IF popping THEN heapLevel + 1 ELSE heapLevel
         /\ mem \in Heap!Memory
         /\ \E own, rk, B : Sound(mem, own, rk, B, heapLevel, Top, freeStack, free)
<1>1. heapLevel \in Heap!Level /\ Top \in Heap!Level
  BY DEF HeapInv
<1>2. heapLevel \in Nat
  BY <1>1, Spaces
<1> QED BY <1>1, <1>2 DEF HeapInv, Top

LEMMA NewestIsLive ==
  ASSUME HeapInv, NEW own, NEW rk, NEW B,
         Sound(mem, own, rk, B, heapLevel, Top, freeStack, free), NEW o \in HeapObj, Heap!Alive(o)
  PROVE  Heap!Live(o) = Newest(mem, heapLevel, o)
<1>1. heapLevel \in Nat /\ heapLevel \in Heap!Level
  BY InvFacts, Spaces
<1>2. mem.scope[o] \in 0 .. Top
  <2>1. own[o] # Null /\ o \in Heap!Node
    BY Spaces DEF Sound, Owned, Heap!Alive
  <2> QED BY <2>1 DEF Sound, Owned
<1> QED BY <1>1, <1>2, InvFacts DEF Heap!Live, Newest

LEMMA VersionsAreKept ==
  ASSUME HeapInv, NEW own, NEW rk, NEW B,
         Sound(mem, own, rk, B, heapLevel, Top, freeStack, free), NEW o \in HeapObj
  PROVE  Heap!Versions(o) = Kept(mem, own, heapLevel, o)
<1>1. heapLevel \in Heap!Level /\ Top \in Heap!Level /\ Top <= heapLevel + 1 /\ mem \in Heap!Memory
  BY InvFacts
<1>2. CASE Heap!Alive(o)
  <2>1. Heap!Reach(mem.restore, Newest(mem, heapLevel, o)) = Kept(mem, own, heapLevel, o)
    BY <1>1, <1>2, NewestIsReached DEF Heap!Alive
  <2> QED BY <1>2, <2>1, NewestIsLive DEF Heap!Versions
<1>3. CASE ~ Heap!Alive(o)
  <2>1. own[o] # o
    BY <1>3, Spaces DEF Heap!Alive, Sound, Owned
  <2>2. \A n \in Heap!Node : own[n] # o
    <3>1. mem \in Heap!Memory /\ Owned(mem, own, Top)
      BY <1>1 DEF Sound
    <3> QED BY <2>1, <3>1, OwnerIsNewest
  <2> QED BY <1>3, <2>2 DEF Heap!Versions, Kept
<1> QED BY <1>2, <1>3

LEMMA AllVersionsAreKept ==
  ASSUME HeapInv, NEW own, NEW rk, NEW B,
         Sound(mem, own, rk, B, heapLevel, Top, freeStack, free)
  PROVE  Heap!AllVersions = {n \in Heap!Node : own[n] # Null /\ mem.scope[n] <= heapLevel}
<1>1. \A o \in HeapObj : Heap!Versions(o) = Kept(mem, own, heapLevel, o)
  BY VersionsAreKept
<1>2. \A n \in Heap!Node : own[n] # Null => own[n] \in HeapObj
  BY DEF Sound, Owned
<1>3. Null \notin HeapObj
  BY HeapAssumption
<1>4. ASSUME NEW n PROVE n \in Heap!AllVersions <=> n \in Heap!Node /\ own[n] # Null /\ mem.scope[n] <= heapLevel
  <2>1. n \in Heap!AllVersions <=> \E o \in HeapObj : n \in Heap!Versions(o)
    BY DEF Heap!AllVersions
  <2>2. n \in Heap!AllVersions <=> \E o \in HeapObj : n \in Kept(mem, own, heapLevel, o)
    BY <1>1, <2>1
  <2> QED BY <1>2, <1>3, <2>2 DEF Kept
<1> QED BY <1>4

LEMMA TypeOKHolds == HeapInv => Heap!TypeOK
<1> SUFFICES ASSUME HeapInv PROVE Heap!TypeOK
  OBVIOUS
<1>1. Regions(freeStack, free, Top)
  BY DEF HeapInv
<1> QED BY <1>1 DEF HeapInv, Heap!TypeOK, Regions

(* An address that is null, a head, an object or a version in use is not free. *)
LEMMA NotFree ==
  ASSUME HeapInv, NEW own, NEW rk, NEW B,
         Sound(mem, own, rk, B, heapLevel, Top, freeStack, free),
         NEW x, x = Null \/ x \in Heap!Level \/ x \in HeapObj \/ (x \in Heap!Node /\ own[x] # Null)
  PROVE  x \notin free .. MaxHeapLevel + MaxCells
<1>1. /\ free \in MaxHeapLevel + 1 .. MaxHeapLevel + MaxCells + 1 /\ MaxHeapLevel \in Nat
      /\ MaxCells \in Nat
      /\ freeStack \in Seq(MaxHeapLevel + 1 .. free) /\ Len(freeStack) = Top
  BY HeapAssumption DEF HeapInv, Regions
<1>2. free \in Nat /\ MaxHeapLevel < free /\ free .. MaxHeapLevel + MaxCells \subseteq 0 .. MaxHeapLevel + MaxCells
  BY <1>1
<1>3. CASE x = Null
  BY <1>2, <1>3, HeapAssumption
<1>4. CASE x \in Heap!Level
  BY <1>1, <1>2, <1>4 DEF Heap!Level
<1>5. CASE x \in HeapObj
  BY <1>2, <1>5, HeapAssumption
<1>6. CASE x \in Heap!Cell /\ own[x] # Null
  <2>1. Top \in Heap!Level /\ mem \in Heap!Memory /\ Owned(mem, own, Top) /\ Saved(mem, own, freeStack, free)
    BY InvFacts DEF Sound
  <2>2. x < free
    BY <1>1, <1>2, <1>6, <2>1, CopyIsSaved
  <2>3. x \in Nat
    BY <1>6, Spaces
  <2> QED BY <1>2, <2>2, <2>3
<1> QED BY <1>3, <1>4, <1>5, <1>6 DEF Heap!Node

(* The list that a version is in, and its neighbours there.                   *)
LEMMA InList ==
  ASSUME HeapInv, NEW own, NEW rk, NEW B,
         Sound(mem, own, rk, B, heapLevel, Top, freeStack, free),
         NEW n \in Heap!Node, own[n] # Null
  PROVE  /\ mem.link[n] = Null \/ (mem.link[n] \in Heap!Node /\ own[mem.link[n]] # Null)
         /\ mem.prev[n] \in Heap!Level \cup HeapObj \/ (mem.prev[n] \in Heap!Node /\ own[mem.prev[n]] # Null)
<1> DEFINE s == mem.scope[n]
           S == Members(mem, own, Null, s)
<1>1. heapLevel \in Nat /\ Top \in Nat /\ heapLevel \in Heap!Level /\ 0 .. Top \subseteq Heap!Level /\ n # Null
  BY InvFacts, Spaces
<1>2. s \in 0 .. Top
  BY DEF Sound, Owned
<1>3. n \in S
  BY <1>1 DEF Members
<1>4. \E H \in {{s}, Unlinked} : Chain(mem.link, mem.prev, S, s, rk, H)
  <2>1. s \in 0 .. heapLevel \/ s \in heapLevel + 1 .. Top
    BY <1>1, <1>2
  <2> HIDE DEF s, S
  <2>2. CASE s \in 0 .. heapLevel
    BY <2>2 DEF Sound, Lists, S
  <2>3. CASE s \in heapLevel + 1 .. Top
    BY <2>3 DEF Sound, Lists, S
  <2> QED BY <2>1, <2>2, <2>3
<1>5. PICK H \in {{s}, Unlinked} : Chain(mem.link, mem.prev, S, s, rk, H)
  BY <1>4
<1>6. H \subseteq Heap!Level \cup HeapObj
  BY <1>1, <1>2, <1>5 DEF Unlinked
<1>7. \A k \in S : k \in Heap!Node /\ own[k] # Null
  BY DEF Members
<1> HIDE DEF s, S
<1>8. mem.link[n] = Null \/ mem.link[n] \in S
  BY <1>3, <1>5 DEF Chain
<1>9. mem.prev[n] \in S \/ mem.prev[n] \in H
  BY <1>3, <1>5 DEF Chain
<1> QED BY <1>6, <1>7, <1>8, <1>9

LEMMA NoDanglingPointerHolds == HeapInv => Heap!NoDanglingPointer
<1> SUFFICES ASSUME HeapInv, NEW n \in Heap!AllVersions \cup {o \in HeapObj : Heap!Alive(o)}
             PROVE  {n, mem.link[n], mem.restore[n], mem.prev[n]}
                      \cap (free .. MaxHeapLevel + MaxCells) = {}
  BY DEF Heap!NoDanglingPointer
<1>1. PICK own, rk, B : Sound(mem, own, rk, B, heapLevel, Top, freeStack, free)
  BY InvFacts
<1>2. n \in Heap!Node /\ own[n] # Null
  <2>1. CASE n \in Heap!AllVersions
    BY <1>1, <2>1, AllVersionsAreKept
  <2>2. CASE n \in HeapObj /\ Heap!Alive(n)
    BY <1>1, <2>2, Spaces DEF Sound, Owned, Heap!Alive
  <2> QED BY <2>1, <2>2
<1>3. /\ mem.link[n] = Null \/ (mem.link[n] \in Heap!Node /\ own[mem.link[n]] # Null)
      /\ mem.prev[n] \in Heap!Level \cup HeapObj \/ (mem.prev[n] \in Heap!Node /\ own[mem.prev[n]] # Null)
  BY <1>1, <1>2, InList
<1>4. mem.restore[n] = Null \/ (mem.restore[n] \in Heap!Node /\ own[mem.restore[n]] # Null)
  BY <1>1, <1>2, Spaces DEF Sound, Saved
<1>5. n \notin free .. MaxHeapLevel + MaxCells
  BY <1>1, <1>2, NotFree
<1>6. mem.link[n] \notin free .. MaxHeapLevel + MaxCells
  BY <1>1, <1>3, NotFree
<1>7. mem.restore[n] \notin free .. MaxHeapLevel + MaxCells
  BY <1>1, <1>4, NotFree
<1>8. mem.prev[n] \notin free .. MaxHeapLevel + MaxCells
  BY <1>1, <1>3, NotFree
<1> QED BY <1>5, <1>6, <1>7, <1>8

LEMMA ChainsWellFormedHolds == HeapInv => Heap!ChainsWellFormed
<1> SUFFICES ASSUME HeapInv, NEW s \in 0 .. heapLevel
             PROVE  LET chain == Heap!Reach(mem.link, s) \ {s} IN
                    /\ chain = {n \in Heap!AllVersions : mem.scope[n] = s}
                    /\ \A n \in chain : /\ mem.prev[n] \in chain \cup {s}
                                        /\ mem.link[mem.prev[n]] = n
  BY DEF Heap!ChainsWellFormed
<1>1. PICK own, rk, B : Sound(mem, own, rk, B, heapLevel, Top, freeStack, free)
  BY InvFacts
<1> DEFINE S == Members(mem, own, Null, s)
<1>2. heapLevel \in Nat /\ s \in Heap!Level /\ s <= heapLevel /\ Null \notin Heap!Node
  BY InvFacts, Spaces
<1>3. Chain(mem.link, mem.prev, S, s, rk, {s}) /\ B \in Nat /\ rk \in [Heap!Node -> 0 .. B]
  BY <1>1 DEF Sound, Lists
<1>4. S \subseteq Heap!Node
  BY DEF Members
<1>5. Heap!Reach(mem.link, s) \ {s} = S
  <2>1. mem.link \in [Heap!Addr -> Heap!Node \cup {Null}]
    BY InvFacts, Fields
  <2> QED BY <1>2, <1>3, <1>4, <2>1, ChainIsReached
<1>6. S = {n \in Heap!AllVersions : mem.scope[n] = s}
  <2>1. Heap!AllVersions = {n \in Heap!Node : own[n] # Null /\ mem.scope[n] <= heapLevel}
    BY <1>1, AllVersionsAreKept
  <2> QED BY <1>2, <2>1 DEF Members
<1> HIDE DEF S
<1>7. \A n \in S : mem.prev[n] \in S \cup {s} /\ mem.link[mem.prev[n]] = n
  BY <1>3 DEF Chain
<1> QED BY <1>5, <1>6, <1>7

LEMMA SavedInTopRegionHolds == HeapInv => Heap!SavedInTopRegion
<1> SUFFICES ASSUME HeapInv, NEW n \in Heap!AllVersions, mem.restore[n] # Null
             PROVE  /\ mem.scope[n] > 0 /\ mem.restore[n] >= freeStack[mem.scope[n]]
                    /\ mem.scope[n] < Len(freeStack) => mem.restore[n] < freeStack[mem.scope[n] + 1]
  BY DEF Heap!SavedInTopRegion
<1>1. PICK own, rk, B : Sound(mem, own, rk, B, heapLevel, Top, freeStack, free)
  BY InvFacts
<1>2. n \in Heap!Node /\ own[n] # Null
  BY <1>1, AllVersionsAreKept
<1>3. /\ mem.restore[n] \in Heap!Cell /\ own[mem.restore[n]] = own[n]
      /\ mem.scope[mem.restore[n]] < mem.scope[n]
      /\ freeStack[mem.scope[n]] <= mem.restore[n]
      /\ mem.restore[n] < RegionEnd(freeStack, free, mem.scope[n])
  BY <1>1, <1>2 DEF Sound, Saved
<1>4. mem.restore[n] \in Heap!Node /\ Top \in Nat
  BY <1>3, InvFacts, Spaces
<1>5. mem.scope[n] \in 0 .. Top /\ mem.scope[mem.restore[n]] \in 0 .. Top
  BY <1>1, <1>2, <1>3, <1>4 DEF Sound, Owned
<1>6. mem.scope[n] > 0
  BY <1>3, <1>4, <1>5
<1>7. mem.restore[n] >= freeStack[mem.scope[n]]
  <2>1. /\ Len(freeStack) = Top /\ freeStack \in Seq(MaxHeapLevel + 1 .. free)
    BY DEF HeapInv, Regions
  <2>2. mem.scope[n] \in 1 .. Len(freeStack)
    BY <1>4, <1>5, <1>6, <2>1
  <2>3. freeStack[mem.scope[n]] \in MaxHeapLevel + 1 .. free /\ MaxHeapLevel \in Nat
    BY <2>1, <2>2, SeqElement, HeapAssumption
  <2>4. free \in MaxHeapLevel + 1 .. MaxHeapLevel + MaxCells + 1 /\ MaxCells \in Nat
    BY HeapAssumption DEF HeapInv, Regions
  <2>5. free \in Nat
    BY <2>3, <2>4
  <2>6. freeStack[mem.scope[n]] \in Nat
    BY <2>3, <2>5
  <2>7. mem.restore[n] \in Nat
    BY <1>3, Spaces
  <2> QED BY <1>3, <2>6, <2>7
<1>8. mem.scope[n] < Len(freeStack) => mem.restore[n] < freeStack[mem.scope[n] + 1]
  BY <1>3 DEF RegionEnd
<1> QED BY <1>6, <1>7, <1>8

-----------------------------------------------------------------------------
(* The lists implement the tables of ContextScopes.                           *)

ScopeIn(m, n) == IF n = Null THEN Heap!NoScope ELSE m.scope[n]

(* n is the version of o in scope s, once a running pop is over.              *)
Holds(m, own, lv, s, o, n) == n \in Heap!Node /\ own[n] = o /\ m.scope[n] = s /\ s <= lv

(* The entries of the tables for scope s and object o.                        *)
Entry(m, own, lv, V, R, s, o) ==
  /\ \A n \in Heap!Node : Holds(m, own, lv, s, o, n) =>
       V[s][o] = m.data[n] /\ R[s][o] = ScopeIn(m, m.restore[n])
  /\ (\A n \in Heap!Node : ~ Holds(m, own, lv, s, o, n)) => V[s][o] = Absent /\ R[s][o] = Heap!NoScope

ScopeEntry(m, own, lv, o) ==
  IF own[o] = Null THEN Heap!NoScope ELSE ScopeIn(m, Newest(m, lv, o))

TablesOK(V, sc, R) ==
  /\ V \in [Heap!Level -> [HeapObj -> Val \cup {Absent}]]
  /\ sc \in [HeapObj -> Heap!Level \cup {Heap!NoScope}]
  /\ R \in [Heap!Level -> [HeapObj -> Heap!Level \cup {Heap!NoScope}]]

Views(m, own, lv, V, sc, R) ==
  /\ TablesOK(V, sc, R)
  /\ \A s \in Heap!Level, o \in HeapObj : Entry(m, own, lv, V, R, s, o)
  /\ \A o \in HeapObj : sc[o] = ScopeEntry(m, own, lv, o)

Represents(m, lv, top, fs, fr, V, sc, R) ==
  \E own, rk, B : Sound(m, own, rk, B, lv, top, fs, fr) /\ Views(m, own, lv, V, sc, R)

LEMMA SameTable ==
  ASSUME NEW S, NEW T, NEW U, NEW f \in [S -> [T -> U]], NEW g \in [S -> [T -> U]],
         \A s \in S, t \in T : f[s][t] = g[s][t]
  PROVE  f = g
OBVIOUS

LEMMA ViewsAreUnique ==
  ASSUME NEW m, NEW own, NEW lv, NEW V, NEW sc, NEW R, Views(m, own, lv, V, sc, R),
         NEW V2, NEW sc2, NEW R2, Views(m, own, lv, V2, sc2, R2)
  PROVE  V = V2 /\ sc = sc2 /\ R = R2
<1>1. TablesOK(V, sc, R) /\ TablesOK(V2, sc2, R2)
  BY DEF Views
<1>2. ASSUME NEW s \in Heap!Level, NEW o \in HeapObj PROVE V[s][o] = V2[s][o] /\ R[s][o] = R2[s][o]
  <2>1. Entry(m, own, lv, V, R, s, o) /\ Entry(m, own, lv, V2, R2, s, o)
    BY DEF Views
  <2> QED BY <2>1 DEF Entry
<1>3. V = V2
  BY <1>1, <1>2, SameTable DEF TablesOK
<1>4. R = R2
  BY <1>1, <1>2, SameTable DEF TablesOK
<1>5. sc = sc2
  <2>1. \A o \in HeapObj : sc[o] = sc2[o]
    BY DEF Views
  <2> QED BY <1>1, <2>1 DEF TablesOK
<1> QED BY <1>3, <1>4, <1>5

(* The same kept versions give the same tables.                               *)
LEMMA KeptIsUnique ==
  ASSUME NEW m, NEW own, NEW top, Owned(m, own, top), NEW lv, NEW s, NEW o \in HeapObj,
         NEW n, NEW k, Holds(m, own, lv, s, o, n), Holds(m, own, lv, s, o, k)
  PROVE  n = k
BY HeapAssumption DEF Holds, Owned

VersionTable == [s \in Heap!Level |-> [o \in HeapObj |-> Heap!DataAt(s, o)]]
ScopeTable == [o \in HeapObj |-> Heap!ScopeOf(Heap!Live(o))]
RestoreTable == [s \in Heap!Level |-> [o \in HeapObj |-> Heap!RestoreAt(s, o)]]

LEMMA VersionIsHeld ==
  ASSUME HeapInv, NEW own, NEW rk, NEW B,
         Sound(mem, own, rk, B, heapLevel, Top, freeStack, free), NEW o \in HeapObj, NEW s \in Heap!Level
  PROVE  Heap!Version(s, o) = {n \in Heap!Node : Holds(mem, own, heapLevel, s, o, n)}
<1>1. Heap!Versions(o) = Kept(mem, own, heapLevel, o)
  BY VersionsAreKept
<1>2. \A n \in Heap!Node : n \in Heap!Version(s, o) <=> Holds(mem, own, heapLevel, s, o, n)
  BY <1>1 DEF Heap!Version, Kept, Holds
<1>3. Heap!Version(s, o) \subseteq Heap!Node
  BY <1>1 DEF Heap!Version, Kept
<1> QED BY <1>2, <1>3

LEMMA TablesView ==
  ASSUME HeapInv, NEW own, NEW rk, NEW B,
         Sound(mem, own, rk, B, heapLevel, Top, freeStack, free)
  PROVE  Views(mem, own, heapLevel, VersionTable, ScopeTable, RestoreTable)
<1>1. Owned(mem, own, Top)
  BY DEF Sound
<1>2. mem \in Heap!Memory
  BY InvFacts
<1>3. ASSUME NEW s \in Heap!Level, NEW o \in HeapObj, NEW n \in Heap!Node, Holds(mem, own, heapLevel, s, o, n)
      PROVE  /\ Heap!DataAt(s, o) = mem.data[n] /\ Heap!RestoreAt(s, o) = ScopeIn(mem, mem.restore[n])
             /\ mem.data[n] \in Val
             /\ ScopeIn(mem, mem.restore[n]) \in Heap!Level \cup {Heap!NoScope}
  <2>1. Heap!Version(s, o) = {n}
    <3>1. \A k \in Heap!Node : Holds(mem, own, heapLevel, s, o, k) <=> k = n
      BY <1>1, <1>3, KeptIsUnique
    <3> QED BY <3>1, VersionIsHeld
  <2>2. (CHOOSE k \in Heap!Version(s, o) : TRUE) = n /\ Heap!Version(s, o) # {}
    BY <2>1
  <2>3. Heap!DataAt(s, o) = mem.data[n] /\ Heap!RestoreAt(s, o) = ScopeIn(mem, mem.restore[n])
    BY <2>2 DEF Heap!DataAt, Heap!RestoreAt, Heap!ScopeOf, ScopeIn
  <2>4. own[n] # Null
    BY <1>3, HeapAssumption DEF Holds
  <2>5. mem.data[n] \in Val
    BY <1>1, <2>4 DEF Owned
  <2>6. ScopeIn(mem, mem.restore[n]) \in Heap!Level \cup {Heap!NoScope}
    BY <1>2, Fields DEF ScopeIn
  <2> QED BY <2>3, <2>5, <2>6
<1>4. ASSUME NEW s \in Heap!Level, NEW o \in HeapObj, \A n \in Heap!Node : ~ Holds(mem, own, heapLevel, s, o, n)
      PROVE  Heap!DataAt(s, o) = Absent /\ Heap!RestoreAt(s, o) = Heap!NoScope
  <2>1. Heap!Version(s, o) = {}
    BY <1>4, VersionIsHeld
  <2> QED BY <2>1 DEF Heap!DataAt, Heap!RestoreAt
<1>5. ASSUME NEW s \in Heap!Level, NEW o \in HeapObj
      PROVE  /\ Entry(mem, own, heapLevel, VersionTable, RestoreTable, s, o)
             /\ Heap!DataAt(s, o) \in Val \cup {Absent}
             /\ Heap!RestoreAt(s, o) \in Heap!Level \cup {Heap!NoScope}
  <2>1. VersionTable[s][o] = Heap!DataAt(s, o) /\ RestoreTable[s][o] = Heap!RestoreAt(s, o)
    BY DEF VersionTable, RestoreTable
  <2>2. Entry(mem, own, heapLevel, VersionTable, RestoreTable, s, o)
    BY <1>3, <1>4, <2>1 DEF Entry
  <2>3. Heap!DataAt(s, o) \in Val \cup {Absent} /\ Heap!RestoreAt(s, o) \in Heap!Level \cup {Heap!NoScope}
    <3>1. CASE \E n \in Heap!Node : Holds(mem, own, heapLevel, s, o, n)
      <4>1. PICK n \in Heap!Node : Holds(mem, own, heapLevel, s, o, n)
        BY <3>1
      <4>2. /\ Heap!DataAt(s, o) = mem.data[n]
            /\ Heap!RestoreAt(s, o) = ScopeIn(mem, mem.restore[n])
            /\ mem.data[n] \in Val
            /\ ScopeIn(mem, mem.restore[n]) \in Heap!Level \cup {Heap!NoScope}
        BY <1>3, <4>1
      <4> QED BY <4>2
    <3>2. CASE \A n \in Heap!Node : ~ Holds(mem, own, heapLevel, s, o, n)
      BY <1>4, <3>2
    <3> QED BY <3>1, <3>2
  <2> QED BY <2>2, <2>3
<1>6. ASSUME NEW o \in HeapObj
      PROVE  /\ Heap!ScopeOf(Heap!Live(o)) = ScopeEntry(mem, own, heapLevel, o)
             /\ Heap!ScopeOf(Heap!Live(o)) \in Heap!Level \cup {Heap!NoScope}
  <2>1. o \in Heap!Node /\ o # Null
    BY Spaces
  <2>2. CASE Heap!Alive(o)
    <3>1. own[o] # Null
      BY <1>1, <2>1, <2>2 DEF Owned, Heap!Alive
    <3>2. Heap!Live(o) = Newest(mem, heapLevel, o)
      BY <2>2, NewestIsLive
    <3>3. Heap!ScopeOf(Heap!Live(o)) = ScopeEntry(mem, own, heapLevel, o)
      BY <3>1, <3>2 DEF Heap!ScopeOf, ScopeEntry, ScopeIn
    <3>4. Heap!Live(o) \in Heap!Node \cup {Null}
      BY <1>2, <2>1, <3>2, Fields DEF Newest
    <3> QED BY <1>2, <3>3, <3>4, Fields DEF Heap!ScopeOf
  <2>3. CASE ~ Heap!Alive(o)
    <3>1. own[o] = Null /\ mem.scope[o] = Heap!NoScope
      BY <1>1, <2>1, <2>3 DEF Owned, Heap!Alive
    <3>2. heapLevel + 1 # Heap!NoScope
      <4>1. heapLevel \in Nat
        BY InvFacts, Spaces
      <4> QED BY <4>1, Spaces
    <3>3. Heap!Live(o) = o
      <4>1. mem.scope[o] # heapLevel + 1
        BY <3>1, <3>2
      <4> QED BY <4>1 DEF Heap!Live
    <3> QED BY <2>1, <3>1, <3>3 DEF Heap!ScopeOf, ScopeEntry
  <2> QED BY <2>2, <2>3
<1>7. TablesOK(VersionTable, ScopeTable, RestoreTable)
  BY <1>5, <1>6 DEF TablesOK, VersionTable, ScopeTable, RestoreTable
<1> QED BY <1>5, <1>6, <1>7 DEF Views, ScopeTable

LEMMA TablesRepresent ==
  HeapInv => Represents(mem, heapLevel, Top, freeStack, free, VersionTable, ScopeTable, RestoreTable)
BY InvFacts, TablesView DEF Represents

LEMMA RepresentedTables ==
  HeapInv => \A V, sc, R : Represents(mem, heapLevel, Top, freeStack, free, V, sc, R)
               => VersionTable = V /\ ScopeTable = sc /\ RestoreTable = R
BY TablesView, ViewsAreUnique DEF Represents

LEMMA RepresentedTablesNext ==
  (HeapInv => \A V, sc, R : Represents(mem, heapLevel, Top, freeStack, free, V, sc, R)
               => VersionTable = V /\ ScopeTable = sc /\ RestoreTable = R)'
BY RepresentedTables, PTL

-----------------------------------------------------------------------------
(* What each step does to the tables.                                         *)

(* An entry stays, is that of one version, or is empty.                       *)
LEMMA EntrySame ==
  ASSUME NEW m, NEW own, NEW lv, NEW V, NEW R, NEW s, NEW o, Entry(m, own, lv, V, R, s, o),
         NEW m2, NEW own2, NEW lv2, NEW V2, NEW R2, V2[s][o] = V[s][o], R2[s][o] = R[s][o],
         \A n \in Heap!Node : Holds(m2, own2, lv2, s, o, n) <=> Holds(m, own, lv, s, o, n),
         \A n \in Heap!Node : Holds(m, own, lv, s, o, n) =>
           m2.data[n] = m.data[n] /\ ScopeIn(m2, m2.restore[n]) = ScopeIn(m, m.restore[n])
  PROVE  Entry(m2, own2, lv2, V2, R2, s, o)
BY DEF Entry

LEMMA EntryOfOne ==
  ASSUME NEW m, NEW own, NEW top, Owned(m, own, top), NEW lv, NEW V, NEW R, NEW s,
         NEW o \in HeapObj, NEW n \in Heap!Node, Holds(m, own, lv, s, o, n),
         V[s][o] = m.data[n], R[s][o] = ScopeIn(m, m.restore[n])
  PROVE  Entry(m, own, lv, V, R, s, o)
<1>1. \A k \in Heap!Node : Holds(m, own, lv, s, o, k) => k = n
  BY KeptIsUnique
<1> QED BY <1>1 DEF Entry

LEMMA EntryOfNone ==
  ASSUME NEW m, NEW own, NEW lv, NEW V, NEW R, NEW s, NEW o,
         \A n \in Heap!Node : ~ Holds(m, own, lv, s, o, n), V[s][o] = Absent, R[s][o] = Heap!NoScope
  PROVE  Entry(m, own, lv, V, R, s, o)
BY DEF Entry

(* A restore pointer leads to a version of the same object, of an older scope. *)
LEMMA RestoreIsOwned ==
  ASSUME NEW m, NEW own, NEW fs, NEW fr, Saved(m, own, fs, fr), NEW n \in Heap!Node, own[n] # Null
  PROVE  m.restore[n] = Null \/ (m.restore[n] \in Heap!Cell /\ m.restore[n] \in Heap!Node
                                 /\ own[m.restore[n]] = own[n]
                                 /\ m.scope[m.restore[n]] < m.scope[n])
BY Spaces DEF Saved

(* Idle: the live scope of an object is its own.                              *)
LEMMA IdleScope ==
  ASSUME NEW m, NEW own, NEW top \in Heap!Level, Owned(m, own, top), NEW o \in HeapObj
  PROVE  /\ ScopeEntry(m, own, top, o) = m.scope[o]
         /\ own[o] = Null <=> m.scope[o] = Heap!NoScope
<1>1. top \in Nat /\ o \in Heap!Node /\ o # Null /\ Heap!NoScope = -1
  BY Spaces
<1>2. own[o] = Null <=> m.scope[o] = Heap!NoScope
  BY <1>1 DEF Owned
<1>3. own[o] # Null => m.scope[o] \in 0 .. top
  BY <1>1 DEF Owned
<1>4. own[o] # Null => m.scope[o] # top + 1
  BY <1>1, <1>3
<1> QED BY <1>1, <1>2, <1>4 DEF ScopeEntry, Newest, ScopeIn

(* An object whose version is in the top scope gets a value.                  *)
LEMMA AssignViews ==
  ASSUME NEW m \in Heap!Memory, NEW own, NEW top \in Heap!Level, Owned(m, own, top),
         NEW V, NEW sc, NEW R, Views(m, own, top, V, sc, R),
         NEW o \in HeapObj, m.scope[o] = top, NEW v \in Val, NEW m2, Assigned(m, o, v, m2)
  PROVE  Views(m2, own, top, [V EXCEPT ![top][o] = v], sc, R)
<1> DEFINE V2 == [V EXCEPT ![top][o] = v]
<1>0. top \in Nat /\ Heap!NoScope = -1 /\ o \in Heap!Node /\ o # Null
  BY Spaces
<1>1. TablesOK(V, sc, R)
  BY DEF Views
<1>2. /\ m2.restore = m.restore /\ m2.scope = m.scope /\ m2.data[o] = v
      /\ \A n \in Heap!Node : n # o => m2.data[n] = m.data[n]
  BY DEF Assigned
<1>3. own[o] = o
  BY <1>0 DEF Owned
<1>4. TablesOK(V2, sc, R)
  BY <1>1 DEF TablesOK
<1>5. \A s \in Heap!Level, p \in HeapObj : V2[s][p] = IF s = top /\ p = o THEN v ELSE V[s][p]
  BY <1>1 DEF TablesOK
<1> HIDE DEF V2
<1>6. ASSUME NEW s \in Heap!Level, NEW p \in HeapObj PROVE Entry(m2, own, top, V2, R, s, p)
  <2>1. Entry(m, own, top, V, R, s, p)
    BY DEF Views
  <2>2. \A n \in Heap!Node : Holds(m2, own, top, s, p, n) <=> Holds(m, own, top, s, p, n)
    BY <1>2 DEF Holds
  <2>3. \A n : ScopeIn(m2, m2.restore[n]) = ScopeIn(m, m.restore[n])
    BY <1>2 DEF ScopeIn
  <2>4. CASE s = top /\ p = o
    <3>1. Holds(m, own, top, s, p, o)
      BY <1>0, <1>3, <2>4 DEF Holds
    <3>2. \A n \in Heap!Node : Holds(m, own, top, s, p, n) => n = o
      BY <3>1, KeptIsUnique
    <3>3. R[s][p] = ScopeIn(m, m.restore[o])
      BY <1>0, <2>1, <3>1 DEF Entry
    <3>4. V2[s][p] = m2.data[o] /\ R[s][p] = ScopeIn(m2, m2.restore[o])
      BY <1>2, <1>5, <2>3, <2>4, <3>3
    <3>5. Holds(m2, own, top, s, p, o) /\ \A n \in Heap!Node : Holds(m2, own, top, s, p, n) => n = o
      BY <1>0, <2>2, <3>1, <3>2
    <3> QED BY <1>0, <3>4, <3>5 DEF Entry
  <2>5. CASE ~ (s = top /\ p = o)
    <3>1. ~ Holds(m, own, top, s, p, o)
      BY <1>3, <2>5 DEF Holds
    <3>2. \A n \in Heap!Node : Holds(m, own, top, s, p, n) => m2.data[n] = m.data[n]
      BY <1>2, <3>1
    <3>3. V2[s][p] = V[s][p]
      BY <1>5, <2>5
    <3> QED BY <2>1, <2>2, <2>3, <3>2, <3>3 DEF Entry
  <2> QED BY <2>4, <2>5
<1>7. \A p \in HeapObj : sc[p] = ScopeEntry(m2, own, top, p)
  <2>1. \A p \in HeapObj : ScopeEntry(m2, own, top, p) = ScopeEntry(m, own, top, p)
    BY <1>2 DEF ScopeEntry, Newest, ScopeIn
  <2> QED BY <2>1 DEF Views
<1> QED BY <1>4, <1>6, <1>7 DEF Views, V2

(* A copy takes the place of the version of o, and o goes to the top scope.   *)
LEMMA SaveViews ==
  ASSUME NEW m \in Heap!Memory, NEW own, NEW rk, NEW B, NEW top \in Heap!Level, NEW fs, NEW fr,
         Sound(m, own, rk, B, top, top, fs, fr),
         NEW V, NEW sc, NEW R, Views(m, own, top, V, sc, R),
         NEW o \in HeapObj, m.scope[o] # Heap!NoScope, m.scope[o] # top, NEW v \in Val,
         NEW c \in Heap!Cell, NEW m2, m2.data[o] = v, Saves(m, own, fs, top, o, c, m2)
  PROVE  Represents(m2, top, top, fs, c + 1,
                    [V EXCEPT ![top][o] = v], [sc EXCEPT ![o] = top], [R EXCEPT ![top][o] = sc[o]])
<1> DEFINE V2 == [V EXCEPT ![top][o] = v]
           sc2 == [sc EXCEPT ![o] = top]
           R2 == [R EXCEPT ![top][o] = sc[o]]
<1>0. /\ top \in Nat /\ Heap!NoScope = -1 /\ o \in Heap!Node /\ o # Null /\ c \in Heap!Node
      /\ c # o /\ c # Null
      /\ Null \notin HeapObj
  BY Spaces
<1>1. TablesOK(V, sc, R)
  BY DEF Views
<1>2. /\ \A n \in Heap!Node : m2.restore[n] = IF n = c THEN m.restore[o]
                                         ELSE IF n = o THEN c ELSE m.restore[n]
      /\ \A n \in Heap!Node : m2.scope[n] = IF n = c THEN m.scope[o]
                                       ELSE IF n = o THEN top ELSE m.scope[n]
      /\ \A n \in Heap!Node : n # o => m2.data[n] = IF n = c THEN m.data[o] ELSE m.data[n]
      /\ own[c] = Null
  BY DEF Saves
<1>3. PICK own2, rk2, B2 :
       /\ \A n \in Heap!Node : own2[n] = IF n = c THEN o ELSE own[n]
       /\ Owned(m2, own2, top) /\ Saved(m2, own2, fs, c + 1)
       /\ Lists(m2, own2, rk2, B2, Null, top, top)
  BY DEF Saves
<1>4. Owned(m, own, top) /\ Saved(m, own, fs, fr)
  BY DEF Sound
<1>5. own[o] = o /\ own2[o] = o /\ own2[c] = o
  BY <1>0, <1>3, <1>4 DEF Owned
<1>6. m.scope[o] \in 0 .. top /\ m.scope[o] < top
  <2>1. m.scope[o] \in 0 .. top
    BY <1>0, <1>4, <1>5 DEF Owned
  <2> QED BY <1>0, <2>1
<1>7. sc[o] = m.scope[o] /\ \A p \in HeapObj : sc[p] = m.scope[p]
  BY <1>4, IdleScope DEF Views
<1>8. TablesOK(V2, sc2, R2)
  BY <1>1 DEF TablesOK
<1>9. \A s \in Heap!Level, p \in HeapObj :
        /\ V2[s][p] = IF s = top /\ p = o THEN v ELSE V[s][p]
        /\ R2[s][p] = IF s = top /\ p = o THEN sc[o] ELSE R[s][p]
  BY <1>1 DEF TablesOK
<1>10. \A p \in HeapObj : sc2[p] = IF p = o THEN top ELSE sc[p]
  BY <1>1 DEF TablesOK
<1> HIDE DEF V2, sc2, R2
<1>11. ASSUME NEW n \in Heap!Node, own[n] # Null
       PROVE  ScopeIn(m2, m.restore[n]) = ScopeIn(m, m.restore[n])
  <2>0. m.restore[n] = Null \/ (m.restore[n] \in Heap!Cell /\ m.restore[n] \in Heap!Node
                                 /\ own[m.restore[n]] = own[n])
    BY <1>4, <1>11, RestoreIsOwned
  <2>1. m.restore[n] # c
    BY <1>0, <1>2, <1>11, <2>0
  <2>2. m.restore[n] # o
    BY <1>0, <2>0, Spaces
  <2>3. m.restore[n] = Null \/ m.restore[n] \in Heap!Node
    BY <2>0
  <2> QED BY <1>2, <2>1, <2>2, <2>3 DEF ScopeIn
<1>12. ASSUME NEW s \in Heap!Level, NEW p \in HeapObj PROVE Entry(m2, own2, top, V2, R2, s, p)
  <2>1. Entry(m, own, top, V, R, s, p)
    BY DEF Views
  <2>2. CASE s = top /\ p = o
    <3>1. Holds(m2, own2, top, s, p, o)
      BY <1>0, <1>2, <1>5, <2>2 DEF Holds
    <3>2. R2[s][p] = ScopeIn(m2, m2.restore[o])
      BY <1>0, <1>2, <1>7, <1>9, <2>2 DEF ScopeIn
    <3>3. V2[s][p] = m2.data[o]
      BY <1>9, <2>2
    <3> QED BY <1>0, <1>3, <3>1, <3>2, <3>3, EntryOfOne
  <2>3. CASE s = m.scope[o] /\ p = o
    <3>1. Holds(m, own, top, s, p, o) /\ s # top
      BY <1>0, <1>5, <1>6, <2>3 DEF Holds
    <3>2. V[s][p] = m.data[o] /\ R[s][p] = ScopeIn(m, m.restore[o])
      BY <1>0, <2>1, <3>1 DEF Entry
    <3>3. Holds(m2, own2, top, s, p, c)
      BY <1>0, <1>2, <1>5, <1>6, <2>3 DEF Holds
    <3>4. V2[s][p] = m2.data[c]
      BY <1>0, <1>2, <1>9, <3>1, <3>2
    <3>5. R2[s][p] = ScopeIn(m2, m2.restore[c])
      BY <1>0, <1>2, <1>5, <1>9, <1>11, <3>1, <3>2
    <3> QED BY <1>0, <1>3, <3>3, <3>4, <3>5, EntryOfOne
  <2>4. CASE ~ (s = top /\ p = o) /\ ~ (s = m.scope[o] /\ p = o)
    <3>1. \A n \in Heap!Node : Holds(m2, own2, top, s, p, n) <=> Holds(m, own, top, s, p, n)
      BY <1>0, <1>2, <1>3, <1>5, <2>4 DEF Holds
    <3>2. ASSUME NEW n \in Heap!Node, Holds(m, own, top, s, p, n)
          PROVE  m2.data[n] = m.data[n] /\ ScopeIn(m2, m2.restore[n]) = ScopeIn(m, m.restore[n])
      <4>1. n # o /\ n # c /\ own[n] # Null
        BY <1>0, <1>2, <1>5, <2>4, <3>2 DEF Holds
      <4> QED BY <1>2, <1>11, <4>1
    <3>3. V2[s][p] = V[s][p] /\ R2[s][p] = R[s][p]
      BY <1>9, <2>4
    <3> QED BY <2>1, <3>1, <3>2, <3>3, EntrySame
  <2> QED BY <2>2, <2>3, <2>4
<1>13. \A p \in HeapObj : sc2[p] = ScopeEntry(m2, own2, top, p)
  <2> TAKE p \in HeapObj
  <2>1. ScopeEntry(m2, own2, top, p) = m2.scope[p]
    BY <1>3, IdleScope
  <2>2. p \in Heap!Node /\ p # c
    BY Spaces
  <2> QED BY <1>2, <1>7, <1>10, <2>1, <2>2
<1>14. Views(m2, own2, top, V2, sc2, R2)
  BY <1>8, <1>12, <1>13 DEF Views
<1> QED BY <1>3, <1>14 DEF Represents, Sound, V2, sc2, R2

(* An object enters scope t.                                                  *)
Constructed(m2, top, fs, fr, V, sc, R, o, t, v) ==
  /\ Represents(m2, top, top, fs, fr, [V EXCEPT ![t][o] = v], [sc EXCEPT ![o] = t], R)
  /\ sc[o] = Heap!NoScope
  /\ \A s \in Heap!Level : V[s][o] = Absent /\ R[s][o] = Heap!NoScope

LEMMA BuildViews ==
  ASSUME NEW m \in Heap!Memory, NEW own, NEW rk, NEW B, NEW top \in Heap!Level, NEW fs, NEW fr,
         Sound(m, own, rk, B, top, top, fs, fr),
         NEW V, NEW sc, NEW R, Views(m, own, top, V, sc, R),
         NEW o \in HeapObj, m.scope[o] = Heap!NoScope, NEW t \in 0 .. top, NEW v \in Val,
         NEW m2, m2 = Built(m, o, t, v)
  PROVE  Constructed(m2, top, fs, fr, V, sc, R, o, t, v)
<1> DEFINE V2 == [V EXCEPT ![t][o] = v]
           sc2 == [sc EXCEPT ![o] = t]
<1>0. /\ top \in Nat /\ Heap!NoScope = -1 /\ o \in Heap!Node /\ o # Null /\ t \in Heap!Level
      /\ Null \notin HeapObj
      /\ t <= top
  <2>1. top \in Nat /\ Heap!NoScope = -1 /\ o \in Heap!Node /\ o # Null /\ Null \notin HeapObj
    BY Spaces
  <2>2. MaxHeapLevel \in Nat /\ top \in 0 .. MaxHeapLevel
    BY HeapAssumption DEF Heap!Level
  <2>3. t \in Heap!Level /\ t <= top
    BY <2>1, <2>2 DEF Heap!Level
  <2> QED BY <2>1, <2>3
<1>1. TablesOK(V, sc, R)
  BY DEF Views
<1>2. Owned(m, own, top) /\ Saved(m, own, fs, fr) /\ Lists(m, own, rk, B, Null, top, top)
  BY DEF Sound
<1>3. \A n \in Heap!Node :
        /\ m2.restore[n] = IF n = o THEN Null ELSE m.restore[n]
        /\ m2.scope[n] = IF n = o THEN t ELSE m.scope[n]
        /\ m2.data[n] = IF n = o THEN v ELSE m.data[n]
  BY <1>0, BuiltFields
<1>4. PICK own2, rk2, B2 :
        /\ \A n \in Heap!Node : own2[n] = IF n = o THEN o ELSE own[n]
        /\ Owned(m2, own2, top) /\ Saved(m2, own2, fs, fr)
        /\ Lists(m2, own2, rk2, B2, Null, top, top)
  <2>1. Builds(m, own, fs, fr, top, o, m2)
    BY <1>2, BuildStep
  <2> QED BY <2>1 DEF Builds
<1>5. own[o] = Null /\ \A n \in Heap!Node : own[n] # o
  <2>1. own[o] = Null
    BY <1>2 DEF Owned
  <2> QED BY <1>0, <1>2, <2>1, OwnerIsNewest
<1>6. sc[o] = Heap!NoScope /\ \A p \in HeapObj : sc[p] = m.scope[p]
  BY <1>2, IdleScope DEF Views
<1>7. \A s \in Heap!Level : V[s][o] = Absent /\ R[s][o] = Heap!NoScope
  <2> TAKE s \in Heap!Level
  <2>1. Entry(m, own, top, V, R, s, o)
    BY DEF Views
  <2>2. \A n \in Heap!Node : ~ Holds(m, own, top, s, o, n)
    BY <1>5 DEF Holds
  <2> QED BY <2>1, <2>2 DEF Entry
<1>8. TablesOK(V2, sc2, R)
  BY <1>0, <1>1 DEF TablesOK
<1>9. \A s \in Heap!Level, p \in HeapObj : V2[s][p] = IF s = t /\ p = o THEN v ELSE V[s][p]
  BY <1>0, <1>1 DEF TablesOK
<1>10. \A p \in HeapObj : sc2[p] = IF p = o THEN t ELSE sc[p]
  BY <1>1 DEF TablesOK
<1> HIDE DEF V2, sc2
<1>11. ASSUME NEW s \in Heap!Level, NEW p \in HeapObj PROVE Entry(m2, own2, top, V2, R, s, p)
  <2>1. Entry(m, own, top, V, R, s, p)
    BY DEF Views
  <2>2. CASE s = t /\ p = o
    <3>1. Holds(m2, own2, top, s, p, o)
      BY <1>0, <1>3, <1>4, <2>2 DEF Holds
    <3>2. R[s][p] = ScopeIn(m2, m2.restore[o])
      BY <1>0, <1>3, <1>7, <2>2 DEF ScopeIn
    <3>3. V2[s][p] = m2.data[o]
      BY <1>0, <1>3, <1>9, <2>2
    <3> QED BY <1>0, <1>4, <3>1, <3>2, <3>3, EntryOfOne
  <2>3. CASE ~ (s = t /\ p = o)
    <3>1. \A n \in Heap!Node : Holds(m2, own2, top, s, p, n) <=> Holds(m, own, top, s, p, n)
      BY <1>0, <1>3, <1>4, <1>5, <2>3 DEF Holds
    <3>2. ASSUME NEW n \in Heap!Node, Holds(m, own, top, s, p, n)
          PROVE  m2.data[n] = m.data[n] /\ ScopeIn(m2, m2.restore[n]) = ScopeIn(m, m.restore[n])
      <4>1. n # o /\ own[n] # Null
        BY <1>0, <1>5, <3>2 DEF Holds
      <4>2. m.restore[n] = Null \/ (m.restore[n] \in Heap!Node /\ m.restore[n] # o)
        BY <1>2, <4>1, RestoreIsOwned, Spaces
      <4> QED BY <1>3, <4>1, <4>2 DEF ScopeIn
    <3>3. V2[s][p] = V[s][p]
      BY <1>9, <2>3
    <3> QED BY <2>1, <3>1, <3>2, <3>3, EntrySame
  <2> QED BY <2>2, <2>3
<1>12. \A p \in HeapObj : sc2[p] = ScopeEntry(m2, own2, top, p)
  <2> TAKE p \in HeapObj
  <2>1. ScopeEntry(m2, own2, top, p) = m2.scope[p]
    BY <1>4, IdleScope
  <2> QED BY <1>3, <1>6, <1>10, <2>1, Spaces
<1>13. Views(m2, own2, top, V2, sc2, R)
  BY <1>8, <1>11, <1>12 DEF Views
<1> QED BY <1>4, <1>6, <1>7, <1>13 DEF Represents, Sound, V2, sc2, Constructed

(* Every version of o leaves the lists.                                       *)
LEMMA DestroyViews ==
  ASSUME NEW m \in Heap!Memory, NEW own, NEW rk, NEW B, NEW top \in Heap!Level, NEW fs, NEW fr,
         Sound(m, own, rk, B, top, top, fs, fr),
         NEW V, NEW sc, NEW R, Views(m, own, top, V, sc, R),
         NEW o \in HeapObj, NEW m2, Destroys(m, own, fs, fr, top, o, m2)
  PROVE  Represents(m2, top, top, fs, fr, [s \in Heap!Level |-> [V[s] EXCEPT ![o] = Absent]],
                    [sc EXCEPT ![o] = Heap!NoScope], [s \in Heap!Level |-> [R[s] EXCEPT ![o] = Heap!NoScope]])
<1> DEFINE V2 == [s \in Heap!Level |-> [V[s] EXCEPT ![o] = Absent]]
           sc2 == [sc EXCEPT ![o] = Heap!NoScope]
           R2 == [s \in Heap!Level |-> [R[s] EXCEPT ![o] = Heap!NoScope]]
<1>0. top \in Nat /\ o \in Heap!Node /\ o # Null /\ Null \notin HeapObj /\ HeapObj \subseteq Heap!Node
  BY Spaces
<1>1. TablesOK(V, sc, R)
  BY DEF Views
<1>2. Owned(m, own, top) /\ Saved(m, own, fs, fr)
  BY DEF Sound
<1>3. \A n \in Heap!Node :
        IF own[n] = o THEN m2.scope[n] = Heap!NoScope
        ELSE m2.restore[n] = m.restore[n] /\ m2.scope[n] = m.scope[n] /\ m2.data[n] = m.data[n]
  BY DEF Destroys
<1>4. PICK own2, rk2, B2 :
        /\ \A n \in Heap!Node : own2[n] = IF own[n] = o THEN Null ELSE own[n]
        /\ Owned(m2, own2, top) /\ Saved(m2, own2, fs, fr)
        /\ Lists(m2, own2, rk2, B2, Null, top, top)
  BY DEF Destroys
<1>5. \A p \in HeapObj : sc[p] = m.scope[p]
  BY <1>2, IdleScope DEF Views
<1>6. TablesOK(V2, sc2, R2)
  BY <1>1 DEF TablesOK
<1>7. \A s \in Heap!Level, p \in HeapObj :
        /\ V2[s][p] = IF p = o THEN Absent ELSE V[s][p]
        /\ R2[s][p] = IF p = o THEN Heap!NoScope ELSE R[s][p]
  BY <1>1 DEF TablesOK
<1>8. \A p \in HeapObj : sc2[p] = IF p = o THEN Heap!NoScope ELSE sc[p]
  BY <1>1 DEF TablesOK
<1> HIDE DEF V2, sc2, R2
<1>9. ASSUME NEW s \in Heap!Level, NEW p \in HeapObj PROVE Entry(m2, own2, top, V2, R2, s, p)
  <2>1. Entry(m, own, top, V, R, s, p)
    BY DEF Views
  <2>2. CASE p = o
    <3>1. \A n \in Heap!Node : ~ Holds(m2, own2, top, s, p, n)
      BY <1>0, <1>4, <2>2 DEF Holds
    <3> QED BY <1>7, <2>2, <3>1, EntryOfNone
  <2>3. CASE p # o
    <3>1. \A n \in Heap!Node : Holds(m2, own2, top, s, p, n) <=> Holds(m, own, top, s, p, n)
      BY <1>0, <1>3, <1>4, <2>3 DEF Holds
    <3>2. ASSUME NEW n \in Heap!Node, Holds(m, own, top, s, p, n)
          PROVE  m2.data[n] = m.data[n] /\ ScopeIn(m2, m2.restore[n]) = ScopeIn(m, m.restore[n])
      <4>1. own[n] = p /\ own[n] # o /\ own[n] # Null
        BY <1>0, <2>3, <3>2 DEF Holds
      <4>2. m.restore[n] = Null \/ (m.restore[n] \in Heap!Node /\ own[m.restore[n]] = own[n])
        BY <1>2, <4>1, RestoreIsOwned
      <4> QED BY <1>3, <4>1, <4>2 DEF ScopeIn
    <3>3. V2[s][p] = V[s][p] /\ R2[s][p] = R[s][p]
      BY <1>7, <2>3
    <3> QED BY <2>1, <3>1, <3>2, <3>3, EntrySame
  <2> QED BY <2>2, <2>3
<1>10. \A p \in HeapObj : sc2[p] = ScopeEntry(m2, own2, top, p)
  <2> TAKE p \in HeapObj
  <2>1. ScopeEntry(m2, own2, top, p) = m2.scope[p] /\ p \in Heap!Node
    BY <1>0, <1>4, IdleScope
  <2>2. CASE p = o
    <3>1. own2[p] = Null
      <4>1. own[o] = o \/ own[o] = Null
        BY <1>2 DEF Owned
      <4> QED BY <1>0, <1>4, <2>2, <4>1
    <3> QED BY <1>8, <2>2, <3>1 DEF ScopeEntry
  <2>3. CASE p # o
    <3>1. own[p] # o
      BY <1>0, <1>2, <2>3 DEF Owned
    <3> QED BY <1>3, <1>5, <1>8, <2>1, <2>3, <3>1
  <2> QED BY <2>2, <2>3
<1>11. Views(m2, own2, top, V2, sc2, R2)
  BY <1>6, <1>9, <1>10 DEF Views
<1> QED BY <1>4, <1>11 DEF Represents, Sound, V2, sc2, R2

(* A new scope has no version.                                                *)
LEMMA PushViews ==
  ASSUME NEW m \in Heap!Memory, NEW own, NEW top \in Heap!Level, Owned(m, own, top),
         NEW V, NEW sc, NEW R, Views(m, own, top, V, sc, R),
         NEW m2, m2 = [m EXCEPT !.link[top + 1] = Null]
  PROVE  Views(m2, own, top + 1, V, sc, R)
<1>0. top \in Nat /\ Heap!NoScope = -1 /\ Null \notin HeapObj /\ HeapObj \subseteq Heap!Node
  BY Spaces
<1>1. m2.restore = m.restore /\ m2.scope = m.scope /\ m2.data = m.data
  BY DEF Heap!Memory
<1>2. \A n \in Heap!Node : own[n] # Null => m.scope[n] \in 0 .. top
  BY DEF Owned
<1>3. ASSUME NEW s \in Heap!Level, NEW p \in HeapObj PROVE Entry(m2, own, top + 1, V, R, s, p)
  <2>1. Entry(m, own, top, V, R, s, p)
    BY DEF Views
  <2>2. \A n \in Heap!Node : Holds(m2, own, top + 1, s, p, n) <=> Holds(m, own, top, s, p, n)
    BY <1>0, <1>1, <1>2 DEF Holds
  <2>3. \A n : ScopeIn(m2, m2.restore[n]) = ScopeIn(m, m.restore[n])
    BY <1>1 DEF ScopeIn
  <2> QED BY <1>1, <2>1, <2>2, <2>3 DEF Entry
<1>4. \A p \in HeapObj : sc[p] = ScopeEntry(m2, own, top + 1, p)
  <2> TAKE p \in HeapObj
  <2>1. sc[p] = ScopeEntry(m, own, top, p)
    BY DEF Views
  <2>2. own[p] # Null => m.scope[p] # top + 1 /\ m.scope[p] # (top + 1) + 1
    BY <1>0, <1>2
  <2> QED BY <1>1, <2>1, <2>2 DEF ScopeEntry, Newest, ScopeIn
<1> QED BY <1>3, <1>4 DEF Views

(* Once a pop has begun, the versions in its scope do not count.              *)
Popped(V, sc, R, top, V2, sc2, R2) ==
  /\ V2 = [V EXCEPT ![top] = [o \in HeapObj |-> Absent]]
  /\ sc2 = [o \in HeapObj |-> IF o \in {p \in HeapObj : V[top][p] # Absent} THEN R[top][o] ELSE sc[o]]
  /\ R2 = [R EXCEPT ![top] = [o \in HeapObj |-> Heap!NoScope]]

LEMMA PopViews ==
  ASSUME NEW m \in Heap!Memory, NEW own, NEW top \in Heap!Level, top > 0, NEW fs, NEW fr,
         Owned(m, own, top), Saved(m, own, fs, fr),
         NEW V, NEW sc, NEW R, Views(m, own, top, V, sc, R),
         NEW V2, NEW sc2, NEW R2, Popped(V, sc, R, top, V2, sc2, R2)
  PROVE  Views(m, own, top - 1, V2, sc2, R2)
<1>0. top \in Nat /\ Heap!NoScope = -1 /\ Null \notin HeapObj /\ HeapObj \subseteq Heap!Node
  BY Spaces
<1>1. TablesOK(V, sc, R)
  BY DEF Views
<1>2. \A n \in Heap!Node : own[n] # Null => m.scope[n] \in 0 .. top /\ m.data[n] \in Val
  BY DEF Owned
<1>3. TablesOK(V2, sc2, R2)
  <2>1. V2 = [V EXCEPT ![top] = [p \in HeapObj |-> Absent]]
    BY DEF Popped
  <2>2. R2 = [R EXCEPT ![top] = [p \in HeapObj |-> Heap!NoScope]]
    BY DEF Popped
  <2>3. sc2 = [p \in HeapObj |->
                 IF p \in {q \in HeapObj : V[top][q] # Absent} THEN R[top][p] ELSE sc[p]]
    BY DEF Popped
  <2>4. V2 \in [Heap!Level -> [HeapObj -> Val \cup {Absent}]]
    BY <1>1, <2>1 DEF TablesOK
  <2>5. R2 \in [Heap!Level -> [HeapObj -> Heap!Level \cup {Heap!NoScope}]]
    BY <1>1, <2>2 DEF TablesOK
  <2>6. sc2 \in [HeapObj -> Heap!Level \cup {Heap!NoScope}]
    BY <1>1, <2>3 DEF TablesOK
  <2> QED BY <2>4, <2>5, <2>6 DEF TablesOK
<1>4. \A s \in Heap!Level, p \in HeapObj :
        /\ V2[s][p] = IF s = top THEN Absent ELSE V[s][p]
        /\ R2[s][p] = IF s = top THEN Heap!NoScope ELSE R[s][p]
  BY <1>1 DEF TablesOK, Popped
<1>5. \A p \in HeapObj : sc2[p] = IF V[top][p] # Absent THEN R[top][p] ELSE sc[p]
  BY DEF Popped
<1>6. ASSUME NEW s \in Heap!Level, NEW p \in HeapObj PROVE Entry(m, own, top - 1, V2, R2, s, p)
  <2>1. Entry(m, own, top, V, R, s, p) /\ s \in Nat
    BY Spaces DEF Views
  <2>2. CASE s = top
    <3>1. \A n \in Heap!Node : ~ Holds(m, own, top - 1, s, p, n)
      BY <1>0, <2>2 DEF Holds
    <3> QED BY <1>4, <2>2, <3>1, EntryOfNone
  <2>3. CASE s # top
    <3>1. \A n \in Heap!Node : Holds(m, own, top - 1, s, p, n) <=> Holds(m, own, top, s, p, n)
      BY <1>0, <2>1, <2>3 DEF Holds
    <3>2. V2[s][p] = V[s][p] /\ R2[s][p] = R[s][p]
      BY <1>4, <2>3
    <3> QED BY <2>1, <3>1, <3>2 DEF Entry
  <2> QED BY <2>2, <2>3
<1>7. \A p \in HeapObj : sc2[p] = ScopeEntry(m, own, top - 1, p)
  <2> TAKE p \in HeapObj
  <2>1. sc[p] = m.scope[p] /\ (own[p] = Null <=> m.scope[p] = Heap!NoScope) /\ p \in Heap!Node
    BY <1>0, IdleScope DEF Views
  <2>2. Entry(m, own, top, V, R, top, p)
    BY DEF Views
  <2>3. (top - 1) + 1 = top
    BY <1>0
  <2>4. CASE m.scope[p] = top
    <3>1. own[p] = p
      BY <1>0, <2>1, <2>4 DEF Owned
    <3>2. Holds(m, own, top, top, p, p)
      BY <1>0, <2>1, <2>4, <3>1 DEF Holds
    <3>3. V[top][p] = m.data[p] /\ R[top][p] = ScopeIn(m, m.restore[p])
      BY <2>1, <2>2, <3>2 DEF Entry
    <3>4. V[top][p] # Absent
      BY <1>0, <1>2, <2>1, <3>1, <3>3, HeapAssumption
    <3> QED BY <1>0, <1>5, <2>3, <2>4, <3>1, <3>3, <3>4 DEF ScopeEntry, Newest
  <2>5. CASE m.scope[p] # top
    <3>1. ASSUME NEW n \in Heap!Node, Holds(m, own, top, top, p, n) PROVE FALSE
      <4>1. own[n] = p /\ m.scope[n] = top
        BY <3>1 DEF Holds
      <4>2. own[p] = p /\ m.scope[p] \in 0 .. top /\ (n = p \/ m.scope[n] < m.scope[p])
        BY <4>1, OwnerIsNewest
      <4> QED BY <1>0, <2>5, <4>1, <4>2
    <3>2. V[top][p] = Absent
      BY <2>2, <3>1 DEF Entry
    <3> QED BY <1>0, <1>5, <2>1, <2>3, <2>5, <3>2 DEF ScopeEntry, Newest, ScopeIn
  <2> QED BY <2>4, <2>5
<1> QED BY <1>3, <1>6, <1>7 DEF Views

(* The object of the saved copy takes its place.                              *)
LEMMA ResumedViews ==
  ASSUME NEW m \in Heap!Memory, NEW own, NEW rk, NEW B,
         NEW lv \in Heap!Level, lv + 1 \in Heap!Level,
         NEW fs, NEW fr, Sound(m, own, rk, B, lv, lv + 1, fs, fr),
         NEW V, NEW sc, NEW R, Views(m, own, lv, V, sc, R),
         NEW o, m.restore[o] # Null, NEW m2, Resumed(m, own, lv, lv + 1, fs, fr, o, m2)
  PROVE  Represents(m2, lv, lv + 1, fs, fr, V, sc, R)
<1> DEFINE top == lv + 1
           c == m.restore[o]
<1>0. /\ lv \in Nat /\ Null \notin HeapObj /\ HeapObj \subseteq Heap!Node /\ Null \notin Heap!Node
      /\ Heap!Cell \subseteq Heap!Node /\ Heap!Cell \cap HeapObj = {}
  BY Spaces
<1>1. Owned(m, own, top) /\ Saved(m, own, fs, fr)
  BY DEF Sound
<1>2. /\ o \in HeapObj /\ own[o] = o /\ m.scope[o] = top
      /\ \A n \in Heap!Node :
           /\ m2.restore[n] = IF n = o THEN m.restore[c] ELSE m.restore[n]
           /\ m2.scope[n] = IF n = o THEN m.scope[c] ELSE m.scope[n]
           /\ m2.data[n] = IF n = o THEN m.data[c] ELSE m.data[n]
  BY DEF Resumed
<1>3. PICK own2, rk2, B2 :
        /\ \A n \in Heap!Node : own2[n] = IF n = c THEN Null ELSE own[n]
        /\ Sound(m2, own2, rk2, B2, lv, top, fs, fr)
  BY DEF Resumed
<1>4. Owned(m2, own2, top)
  BY <1>3 DEF Sound
<1>5. c \in Heap!Cell /\ c \in Heap!Node /\ own[c] = o /\ m.scope[c] < m.scope[o]
  BY <1>0, <1>1, <1>2, RestoreIsOwned
<1>6. m.scope[c] \in 0 .. lv
  <2>1. m.scope[c] \in 0 .. top
    BY <1>0, <1>1, <1>2, <1>5 DEF Owned
  <2> QED BY <1>0, <1>2, <1>5, <2>1
<1>7. own2[o] = o /\ own2[c] = Null
  BY <1>0, <1>2, <1>3, <1>5
<1>8. ASSUME NEW n \in Heap!Node, own[n] # Null
      PROVE  ScopeIn(m2, m.restore[n]) = ScopeIn(m, m.restore[n])
  <2>1. m.restore[n] = Null \/ (m.restore[n] \in Heap!Cell /\ m.restore[n] \in Heap!Node)
    BY <1>1, <1>8, RestoreIsOwned
  <2>2. m.restore[n] = Null \/ (m.restore[n] \in Heap!Node /\ m.restore[n] # o)
    BY <1>0, <1>2, <2>1
  <2> QED BY <1>2, <2>2 DEF ScopeIn
<1> HIDE DEF c
<1>9. ASSUME NEW s \in Heap!Level, NEW p \in HeapObj PROVE Entry(m2, own2, lv, V, R, s, p)
  <2>1. Entry(m, own, lv, V, R, s, p)
    BY DEF Views
  <2>2. CASE s = m.scope[c] /\ p = o
    <3>1. Holds(m, own, lv, s, p, c)
      BY <1>0, <1>5, <1>6, <2>2 DEF Holds
    <3>2. V[s][p] = m.data[c] /\ R[s][p] = ScopeIn(m, m.restore[c])
      BY <1>5, <2>1, <3>1 DEF Entry
    <3>3. Holds(m2, own2, lv, s, p, o)
      BY <1>0, <1>2, <1>6, <1>7, <2>2 DEF Holds
    <3>4. V[s][p] = m2.data[o]
      BY <1>0, <1>2, <3>2
    <3>5. R[s][p] = ScopeIn(m2, m2.restore[o])
      BY <1>0, <1>2, <1>5, <1>8, <3>2
    <3> QED BY <1>0, <1>2, <1>4, <3>3, <3>4, <3>5, EntryOfOne
  <2>3. CASE ~ (s = m.scope[c] /\ p = o)
    <3>1. ~ Holds(m, own, lv, s, p, o) /\ ~ Holds(m2, own2, lv, s, p, o)
      BY <1>0, <1>2, <1>7, <2>3 DEF Holds
    <3>2. ~ Holds(m, own, lv, s, p, c) /\ ~ Holds(m2, own2, lv, s, p, c)
      BY <1>0, <1>5, <1>7, <2>3 DEF Holds
    <3>3. \A n \in Heap!Node : Holds(m2, own2, lv, s, p, n) <=> Holds(m, own, lv, s, p, n)
      <4> TAKE n \in Heap!Node
      <4>1. CASE n = o
        BY <3>1, <4>1
      <4>2. CASE n = c
        BY <3>2, <4>2
      <4>3. CASE n # o /\ n # c
        BY <1>2, <1>3, <4>3 DEF Holds
      <4> QED BY <4>1, <4>2, <4>3
    <3>4. ASSUME NEW n \in Heap!Node, Holds(m, own, lv, s, p, n)
          PROVE  m2.data[n] = m.data[n] /\ ScopeIn(m2, m2.restore[n]) = ScopeIn(m, m.restore[n])
      <4>1. n # o /\ own[n] # Null
        BY <1>0, <3>1, <3>4 DEF Holds
      <4> QED BY <1>2, <1>8, <4>1
    <3> QED BY <2>1, <3>3, <3>4, EntrySame
  <2> QED BY <2>2, <2>3
<1>10. \A p \in HeapObj : sc[p] = ScopeEntry(m2, own2, lv, p)
  <2> TAKE p \in HeapObj
  <2>1. sc[p] = ScopeEntry(m, own, lv, p)
    BY DEF Views
  <2>2. CASE p = o
    <3>1. sc[p] = m.scope[c]
      <4>1. c # Null /\ c = m.restore[o] /\ own[o] # Null
        BY <1>0, <1>2, <1>5 DEF c
      <4>2. Newest(m, lv, p) = c
        BY <1>2, <2>2, <4>1 DEF Newest
      <4> QED BY <2>1, <2>2, <4>1, <4>2 DEF ScopeEntry, ScopeIn
    <3>2. m2.scope[o] = m.scope[c] /\ m.scope[c] # lv + 1
      BY <1>0, <1>2, <1>6
    <3>3. ScopeEntry(m2, own2, lv, p) = m2.scope[o]
      BY <1>0, <1>2, <1>7, <2>2, <3>2 DEF ScopeEntry, Newest, ScopeIn
    <3> QED BY <3>1, <3>2, <3>3
  <2>3. CASE p # o
    <3>1. p \in Heap!Node /\ p # c /\ p # Null
      BY <1>0, <1>5
    <3>2. own2[p] = own[p] /\ m2.scope[p] = m.scope[p] /\ m2.restore[p] = m.restore[p]
      BY <1>2, <1>3, <2>3, <3>1
    <3>3. CASE own[p] = Null
      BY <2>1, <3>2, <3>3 DEF ScopeEntry
    <3>4. CASE own[p] # Null
      <4>1. ScopeIn(m2, m.restore[p]) = ScopeIn(m, m.restore[p])
        BY <1>8, <3>1, <3>4
      <4>2. ScopeIn(m2, p) = ScopeIn(m, p)
        BY <3>2 DEF ScopeIn
      <4> QED BY <2>1, <3>2, <3>4, <4>1, <4>2 DEF ScopeEntry, Newest
    <3> QED BY <3>3, <3>4
  <2> QED BY <2>2, <2>3
<1>11. Views(m2, own2, lv, V, sc, R)
  BY <1>9, <1>10 DEF Views
<1> QED BY <1>3, <1>11 DEF Represents

(* The object that goes had no kept version.                                  *)
LEMMA VanishedViews ==
  ASSUME NEW m \in Heap!Memory, NEW own, NEW rk, NEW B,
         NEW lv \in Heap!Level, lv + 1 \in Heap!Level,
         NEW fs, NEW fr, Sound(m, own, rk, B, lv, lv + 1, fs, fr),
         NEW V, NEW sc, NEW R, Views(m, own, lv, V, sc, R),
         NEW o, m.restore[o] = Null, NEW m2, Vanished(m, own, lv, lv + 1, fs, fr, o, m2)
  PROVE  Represents(m2, lv, lv + 1, fs, fr, V, sc, R)
<1> DEFINE top == lv + 1
<1>0. /\ lv \in Nat /\ Null \notin HeapObj /\ HeapObj \subseteq Heap!Node /\ Null \notin Heap!Node
      /\ Heap!Cell \subseteq Heap!Node /\ Heap!Cell \cap HeapObj = {}
  BY Spaces
<1>1. Owned(m, own, top) /\ Saved(m, own, fs, fr)
  BY DEF Sound
<1>2. /\ o \in HeapObj /\ own[o] = o /\ m.scope[o] = top
      /\ m2.restore = m.restore /\ m2.data = m.data
      /\ \A n \in Heap!Node : m2.scope[n] = IF n = o THEN Heap!NoScope ELSE m.scope[n]
  BY DEF Vanished
<1>3. PICK own2, rk2, B2 :
        /\ \A n \in Heap!Node : own2[n] = IF n = o THEN Null ELSE own[n]
        /\ Sound(m2, own2, rk2, B2, lv, top, fs, fr)
  BY DEF Vanished
<1>4. own2[o] = Null
  BY <1>0, <1>2, <1>3
<1>5. ASSUME NEW n \in Heap!Node, own[n] # Null
      PROVE  ScopeIn(m2, m2.restore[n]) = ScopeIn(m, m.restore[n])
  <2>1. m.restore[n] = Null \/ (m.restore[n] \in Heap!Cell /\ m.restore[n] \in Heap!Node)
    BY <1>1, <1>5, RestoreIsOwned
  <2>2. m.restore[n] = Null \/ (m.restore[n] \in Heap!Node /\ m.restore[n] # o)
    BY <1>0, <1>2, <2>1
  <2> QED BY <1>2, <2>2 DEF ScopeIn
<1>6. ASSUME NEW s \in Heap!Level, NEW p \in HeapObj PROVE Entry(m2, own2, lv, V, R, s, p)
  <2>1. Entry(m, own, lv, V, R, s, p)
    BY DEF Views
  <2>2. ~ Holds(m, own, lv, s, p, o) /\ ~ Holds(m2, own2, lv, s, p, o)
    BY <1>0, <1>2, <1>4 DEF Holds
  <2>3. \A n \in Heap!Node : Holds(m2, own2, lv, s, p, n) <=> Holds(m, own, lv, s, p, n)
    <3> TAKE n \in Heap!Node
    <3>1. CASE n = o
      BY <2>2, <3>1
    <3>2. CASE n # o
      BY <1>2, <1>3, <3>2 DEF Holds
    <3> QED BY <3>1, <3>2
  <2>4. ASSUME NEW n \in Heap!Node, Holds(m, own, lv, s, p, n)
        PROVE  m2.data[n] = m.data[n] /\ ScopeIn(m2, m2.restore[n]) = ScopeIn(m, m.restore[n])
    <3>1. own[n] # Null
      BY <1>0, <2>4 DEF Holds
    <3> QED BY <1>2, <1>5, <3>1
  <2> QED BY <2>1, <2>3, <2>4, EntrySame
<1>7. \A p \in HeapObj : sc[p] = ScopeEntry(m2, own2, lv, p)
  <2> TAKE p \in HeapObj
  <2>1. sc[p] = ScopeEntry(m, own, lv, p)
    BY DEF Views
  <2>2. CASE p = o
    <3>1. Newest(m, lv, p) = Null
      BY <1>2, <2>2 DEF Newest
    <3>2. sc[p] = Heap!NoScope
      BY <1>0, <1>2, <2>1, <2>2, <3>1 DEF ScopeEntry, ScopeIn
    <3> QED BY <1>4, <2>2, <3>2 DEF ScopeEntry
  <2>3. CASE p # o
    <3>1. p \in Heap!Node /\ p # Null
      BY <1>0
    <3>2. own2[p] = own[p] /\ m2.scope[p] = m.scope[p] /\ m2.restore[p] = m.restore[p]
      BY <1>2, <1>3, <2>3, <3>1
    <3>3. CASE own[p] = Null
      BY <2>1, <3>2, <3>3 DEF ScopeEntry
    <3>4. CASE own[p] # Null
      <4>1. ScopeIn(m2, m2.restore[p]) = ScopeIn(m, m.restore[p])
        BY <1>5, <3>1, <3>4
      <4>2. ScopeIn(m2, p) = ScopeIn(m, p)
        BY <3>2 DEF ScopeIn
      <4> QED BY <2>1, <3>2, <3>4, <4>1, <4>2 DEF ScopeEntry, Newest
    <3> QED BY <3>3, <3>4
  <2> QED BY <2>2, <2>3
<1>8. Views(m2, own2, lv, V, sc, R)
  BY <1>6, <1>7 DEF Views
<1> QED BY <1>3, <1>8 DEF Represents

(* What a release takes belongs to no object.                                 *)
LEMMA ReleaseViews ==
  ASSUME NEW m \in Heap!Memory, NEW own, NEW top, NEW fs, NEW fr, NEW lv \in Heap!Level,
         Owned(m, own, top), Saved(m, own, fs, fr),
         NEW V, NEW sc, NEW R, Views(m, own, lv, V, sc, R), NEW m2,
         \A n \in Heap!Node : own[n] # Null =>
           m2.restore[n] = m.restore[n] /\ m2.scope[n] = m.scope[n] /\ m2.data[n] = m.data[n]
  PROVE  Views(m2, own, lv, V, sc, R)
<1>0. Null \notin HeapObj /\ HeapObj \subseteq Heap!Node /\ Null \notin Heap!Node
  BY Spaces
<1>1. ASSUME NEW n \in Heap!Node, own[n] # Null
      PROVE  ScopeIn(m2, m2.restore[n]) = ScopeIn(m, m.restore[n])
  <2>1. m.restore[n] = Null \/ (m.restore[n] \in Heap!Node /\ own[m.restore[n]] # Null)
    BY <1>1, RestoreIsOwned
  <2> QED BY <1>1, <2>1 DEF ScopeIn
<1>2. ASSUME NEW s \in Heap!Level, NEW p \in HeapObj PROVE Entry(m2, own, lv, V, R, s, p)
  <2>1. Entry(m, own, lv, V, R, s, p)
    BY DEF Views
  <2>2. \A n \in Heap!Node : Holds(m2, own, lv, s, p, n) <=> Holds(m, own, lv, s, p, n)
    BY <1>0 DEF Holds
  <2>3. ASSUME NEW n \in Heap!Node, Holds(m, own, lv, s, p, n)
        PROVE  m2.data[n] = m.data[n] /\ ScopeIn(m2, m2.restore[n]) = ScopeIn(m, m.restore[n])
    <3>1. own[n] # Null
      BY <1>0, <2>3 DEF Holds
    <3> QED BY <1>1, <3>1
  <2> QED BY <2>1, <2>2, <2>3, EntrySame
<1>3. \A p \in HeapObj : sc[p] = ScopeEntry(m2, own, lv, p)
  <2> TAKE p \in HeapObj
  <2>1. sc[p] = ScopeEntry(m, own, lv, p) /\ p \in Heap!Node
    BY <1>0 DEF Views
  <2>2. CASE own[p] = Null
    BY <2>1, <2>2 DEF ScopeEntry
  <2>3. CASE own[p] # Null
    <3>1. ScopeIn(m2, m2.restore[p]) = ScopeIn(m, m.restore[p])
      BY <1>1, <2>1, <2>3
    <3>2. m2.scope[p] = m.scope[p] /\ ScopeIn(m2, p) = ScopeIn(m, p)
      BY <2>1, <2>3 DEF ScopeIn
    <3> QED BY <2>1, <2>3, <3>1, <3>2 DEF ScopeEntry, Newest
  <2> QED BY <2>2, <2>3
<1> QED BY <1>2, <1>3 DEF Views

-----------------------------------------------------------------------------
(* The refinement, action by action.                                          *)

(* A write in one step: as in ContextScopes!Set.                              *)
WrittenTables(m2, top, fs, fr, V, sc, R, o, v) ==
  IF sc[o] = top
    THEN Represents(m2, top, top, fs, fr, [V EXCEPT ![top][o] = v], sc, R)
    ELSE Represents(m2, top, top, fs, fr, [V EXCEPT ![top][o] = v],
                    [sc EXCEPT ![o] = top], [R EXCEPT ![top][o] = sc[o]])

LEMMA WriteViews ==
  ASSUME NEW m \in Heap!Memory, NEW own, NEW rk, NEW B, NEW top \in Heap!Level, NEW fs, NEW fr,
         Sound(m, own, rk, B, top, top, fs, fr), Regions(fs, fr, top),
         NEW V, NEW sc, NEW R, Views(m, own, top, V, sc, R),
         NEW o \in HeapObj, m.scope[o] # Heap!NoScope, NEW v \in Val,
         NEW m2, NEW fr2, Wrote(m, o, v, top, fr, m2, fr2)
  PROVE  WrittenTables(m2, top, fs, fr2, V, sc, R, o, v) /\ sc[o] # Heap!NoScope
<1>1. sc[o] = m.scope[o]
  BY IdleScope DEF Sound, Views
<1>2. CASE m.scope[o] = top /\ Assigned(m, o, v, m2) /\ fr2 = fr
  <2>1. Sound(m2, own, rk, B, top, top, fs, fr)
    BY <1>2, DataStep
  <2>2. Views(m2, own, top, [V EXCEPT ![top][o] = v], sc, R)
    BY <1>2, AssignViews DEF Sound
  <2>3. Represents(m2, top, top, fs, fr, [V EXCEPT ![top][o] = v], sc, R)
    BY <2>1, <2>2 DEF Represents
  <2> QED BY <1>1, <1>2, <2>3 DEF WrittenTables
<1>3. CASE /\ m.scope[o] # top /\ fr \in Heap!Cell /\ fr2 = fr + 1
           /\ Assigned(Heap!Update(m, o, fr, top), o, v, m2) /\ Saves(m, own, fs, top, o, fr, m2)
  <2>1. m2.data[o] = v
    BY <1>3 DEF Assigned
  <2>2. Represents(m2, top, top, fs, fr + 1,
                   [V EXCEPT ![top][o] = v], [sc EXCEPT ![o] = top], [R EXCEPT ![top][o] = sc[o]])
    BY <1>3, <2>1, SaveViews
  <2> QED BY <1>1, <1>3, <2>2 DEF WrittenTables
<1>4. \/ m.scope[o] = top /\ Assigned(m, o, v, m2) /\ fr2 = fr
      \/ /\ m.scope[o] # top /\ fr \in Heap!Cell /\ fr2 = fr + 1
         /\ Assigned(Heap!Update(m, o, fr, top), o, v, m2) /\ Saves(m, own, fs, top, o, fr, m2)
  BY WroteFields
<1> QED BY <1>1, <1>2, <1>3, <1>4

(* The next tables, once an action is known to represent them.                *)
LEMMA NextTables ==
  ASSUME HeapInv', NEW V, NEW sc, NEW R,
         Represents(mem', heapLevel', Top', freeStack', free', V, sc, R)
  PROVE  VersionTable' = V /\ ScopeTable' = sc /\ RestoreTable' = R
BY RepresentedTablesNext

LEMMA IdleTables ==
  ASSUME HeapInv, ~ popping
  PROVE  \E own, rk, B : /\ Sound(mem, own, rk, B, heapLevel, heapLevel, freeStack, free)
                         /\ Views(mem, own, heapLevel, VersionTable, ScopeTable, RestoreTable)
BY TablesRepresent DEF Represents, Top

LEMMA PoppingTables ==
  ASSUME HeapInv, popping
  PROVE  \E own, rk, B : /\ Sound(mem, own, rk, B, heapLevel, heapLevel + 1, freeStack, free)
                         /\ Views(mem, own, heapLevel, VersionTable, ScopeTable, RestoreTable)
BY TablesRepresent DEF Represents, Top

(* Set.                                                                       *)
LEMMA SetTables ==
  ASSUME HeapInv, HeapInv', NEW o \in HeapObj, NEW v \in Val, Heap!Set(o, v)
  PROVE  /\ ScopeTable[o] # Heap!NoScope /\ heapLevel' = heapLevel
         /\ VersionTable' = [VersionTable EXCEPT ![heapLevel][o] = v]
         /\ IF ScopeTable[o] = heapLevel
              THEN ScopeTable' = ScopeTable /\ RestoreTable' = RestoreTable
              ELSE /\ RestoreTable' = [RestoreTable EXCEPT ![heapLevel][o] = ScopeTable[o]]
                   /\ ScopeTable' = [ScopeTable EXCEPT ![o] = heapLevel]
<1>1. /\ ~ popping /\ mem.scope[o] # Heap!NoScope /\ Heap!WriteTo(mem, o, v)
      /\ heapLevel' = heapLevel /\ popping' = popping /\ freeStack' = freeStack
  BY DEF Heap!Set, Heap!Alive
<1>2. PICK own, rk, B : /\ Sound(mem, own, rk, B, heapLevel, heapLevel, freeStack, free)
                        /\ Views(mem, own, heapLevel, VersionTable, ScopeTable, RestoreTable)
  BY <1>1, IdleTables
<1>3. heapLevel \in Heap!Level /\ mem \in Heap!Memory /\ Regions(freeStack, free, heapLevel)
  BY <1>1, IdleInv
<1>4. Wrote(mem, o, v, heapLevel, free, mem', free')
  BY <1>1, WriteToWrote
<1>5. /\ WrittenTables(mem', heapLevel, freeStack, free', VersionTable, ScopeTable, RestoreTable, o, v)
      /\ ScopeTable[o] # Heap!NoScope
  BY <1>1, <1>2, <1>3, <1>4, WriteViews
<1>6. Top' = heapLevel /\ heapLevel' = heapLevel /\ freeStack' = freeStack
  BY <1>1 DEF Top
<1>7. CASE ScopeTable[o] = heapLevel
  <2>1. Represents(mem', heapLevel', Top', freeStack', free',
                   [VersionTable EXCEPT ![heapLevel][o] = v], ScopeTable, RestoreTable)
    BY <1>5, <1>6, <1>7 DEF WrittenTables
  <2> QED BY <1>5, <1>6, <1>7, <2>1, NextTables
<1>8. CASE ScopeTable[o] # heapLevel
  <2>1. Represents(mem', heapLevel', Top', freeStack', free',
                   [VersionTable EXCEPT ![heapLevel][o] = v], [ScopeTable EXCEPT ![o] = heapLevel],
                   [RestoreTable EXCEPT ![heapLevel][o] = ScopeTable[o]])
    BY <1>5, <1>6, <1>8 DEF WrittenTables
  <2> QED BY <1>5, <1>6, <1>8, <2>1, NextTables
<1> QED BY <1>7, <1>8

(* NewInCMM and NewDefault.                                                   *)
LEMMA ConstructTables ==
  ASSUME HeapInv, ~ popping, NEW o \in HeapObj, mem.scope[o] = Heap!NoScope,
         NEW t \in 0 .. heapLevel, NEW v \in Val, NEW b, b = Heap!Construct(o, t, v)
  PROVE  Constructed(b, heapLevel, freeStack, free, VersionTable, ScopeTable, RestoreTable, o, t, v)
<1>1. PICK own, rk, B : /\ Sound(mem, own, rk, B, heapLevel, heapLevel, freeStack, free)
                        /\ Views(mem, own, heapLevel, VersionTable, ScopeTable, RestoreTable)
  BY IdleTables
<1>2. heapLevel \in Heap!Level /\ mem \in Heap!Memory
  BY IdleInv
<1>3. b = Built(mem, o, t, v)
  BY DEF Built, Heap!Construct
<1> QED BY <1>1, <1>2, <1>3, BuildViews

LEMMA BuiltTables ==
  ASSUME HeapInv, HeapInv', ~ popping, NEW o \in HeapObj, mem.scope[o] = Heap!NoScope,
         NEW t \in 0 .. heapLevel, NEW v \in Val, mem' = Heap!Construct(o, t, v),
         UNCHANGED <<heapLevel, popping, free, freeStack>>
  PROVE  /\ ScopeTable[o] = Heap!NoScope /\ heapLevel' = heapLevel
         /\ VersionTable' = [VersionTable EXCEPT ![t][o] = v]
         /\ ScopeTable' = [ScopeTable EXCEPT ![o] = t]
         /\ RestoreTable' = RestoreTable
<1>1. Represents(mem', heapLevel, heapLevel, freeStack, free,
                 [VersionTable EXCEPT ![t][o] = v], [ScopeTable EXCEPT ![o] = t], RestoreTable)
      /\ ScopeTable[o] = Heap!NoScope
  <2>1. Constructed(mem', heapLevel, freeStack, free, VersionTable, ScopeTable, RestoreTable, o, t, v)
    BY ConstructTables
  <2> QED BY <2>1 DEF Constructed
<1>2. Top' = heapLevel /\ heapLevel' = heapLevel /\ freeStack' = freeStack /\ free' = free
  BY DEF Top
<1>3. Represents(mem', heapLevel', Top', freeStack', free',
                 [VersionTable EXCEPT ![t][o] = v], [ScopeTable EXCEPT ![o] = t], RestoreTable)
  BY <1>1, <1>2
<1> QED BY <1>1, <1>2, <1>3, NextTables

(* New: the object is built at the bottom, then written.                      *)
NewVersion(V, o, v, top) ==
  [s \in Heap!Level |-> [p \in HeapObj |-> IF p # o THEN V[s][p]
                                  ELSE IF s = top THEN v ELSE IF s = 0 THEN Default ELSE Absent]]

NewAgrees(V, sc, V1, sc1, o, v, top) ==
  /\ [V1 EXCEPT ![top][o] = v] = NewVersion(V, o, v, top)
  /\ [sc1 EXCEPT ![o] = top] = [sc EXCEPT ![o] = top]
  /\ sc1[o] = 0

LEMMA NewTablesAgree ==
  ASSUME NEW V, NEW sc, NEW R, TablesOK(V, sc, R), NEW o \in HeapObj, NEW v \in Val,
         NEW top \in Heap!Level,
         \A s \in Heap!Level : V[s][o] = Absent /\ R[s][o] = Heap!NoScope,
         NEW V1, V1 = [V EXCEPT ![0][o] = Default], NEW sc1, sc1 = [sc EXCEPT ![o] = 0]
  PROVE  NewAgrees(V, sc, V1, sc1, o, v, top)
<1>0. 0 \in Heap!Level /\ Default \in Val
  BY Spaces, HeapAssumption DEF Heap!Level
<1>1. V1 \in [Heap!Level -> [HeapObj -> Val \cup {Absent}]]
  BY <1>0 DEF TablesOK
<1>2. \A s \in Heap!Level, p \in HeapObj : V1[s][p] = IF s = 0 /\ p = o THEN Default ELSE V[s][p]
  BY <1>0 DEF TablesOK
<1>3. sc1 \in [HeapObj -> Heap!Level \cup {Heap!NoScope}] /\ sc1[o] = 0 /\ \A p \in HeapObj : p # o => sc1[p] = sc[p]
  BY <1>0 DEF TablesOK
<1>4. [sc1 EXCEPT ![o] = top] = [sc EXCEPT ![o] = top]
  BY <1>3 DEF TablesOK
<1> DEFINE V2 == [V1 EXCEPT ![top][o] = v]
           V3 == NewVersion(V, o, v, top)
<1>5. V2 \in [Heap!Level -> [HeapObj -> Val \cup {Absent}]]
  BY <1>1
<1>6. V3 \in [Heap!Level -> [HeapObj -> Val \cup {Absent}]]
  BY <1>0 DEF TablesOK, NewVersion
<1>7. ASSUME NEW s \in Heap!Level, NEW p \in HeapObj PROVE V2[s][p] = V3[s][p]
  <2>1. V2[s][p] = IF s = top /\ p = o THEN v ELSE V1[s][p]
    BY <1>1
  <2>2. V3[s][p] = IF p # o THEN V[s][p]
                   ELSE IF s = top THEN v ELSE IF s = 0 THEN Default ELSE Absent
    BY DEF NewVersion
  <2> QED BY <1>2, <2>1, <2>2
<1>8. V2 = V3
  <2> HIDE DEF V2, V3
  <2> QED BY ONLY <1>5, <1>6, <1>7, SameTable
<1> QED BY <1>3, <1>4, <1>8 DEF NewAgrees

LEMMA NewTables ==
  ASSUME HeapInv, HeapInv', NEW o \in HeapObj, NEW v \in Val, Heap!New(o, v)
  PROVE  /\ ScopeTable[o] = Heap!NoScope /\ heapLevel' = heapLevel
         /\ ScopeTable' = [ScopeTable EXCEPT ![o] = heapLevel]
         /\ VersionTable' = NewVersion(VersionTable, o, v, heapLevel)
         /\ RestoreTable' = IF heapLevel = 0 THEN RestoreTable
                            ELSE [RestoreTable EXCEPT ![heapLevel][o] = 0]
<1>0. PICK b, V1, sc1 : /\ b = Heap!Construct(o, 0, Default)
                        /\ V1 = [VersionTable EXCEPT ![0][o] = Default]
                        /\ sc1 = [ScopeTable EXCEPT ![o] = 0]
  OBVIOUS
<1>1. /\ ~ popping /\ mem.scope[o] = Heap!NoScope /\ Heap!WriteTo(b, o, v)
      /\ heapLevel' = heapLevel /\ popping' = popping /\ freeStack' = freeStack
  BY <1>0 DEF Heap!New, Heap!Alive
<1>2. heapLevel \in Heap!Level /\ Regions(freeStack, free, heapLevel)
  BY <1>1, IdleInv
<1>3. 0 \in 0 .. heapLevel /\ Default \in Val /\ 0 # Heap!NoScope /\ 0 \in Heap!Level
  BY <1>2, Spaces, HeapAssumption
<1>4. b \in Heap!Memory /\ b.scope[o] # Heap!NoScope
  BY <1>0, <1>1, <1>3, BuildKeeps
<1>5. /\ Represents(b, heapLevel, heapLevel, freeStack, free, V1, sc1, RestoreTable)
      /\ ScopeTable[o] = Heap!NoScope
      /\ \A s \in Heap!Level : VersionTable[s][o] = Absent /\ RestoreTable[s][o] = Heap!NoScope
  <2>1. Constructed(b, heapLevel, freeStack, free, VersionTable, ScopeTable, RestoreTable, o, 0, Default)
    BY <1>0, <1>1, <1>3, ConstructTables
  <2> QED BY <1>0, <2>1 DEF Constructed
<1>6. TablesOK(VersionTable, ScopeTable, RestoreTable)
  BY TablesRepresent DEF Represents, Views
<1>7. NewAgrees(VersionTable, ScopeTable, V1, sc1, o, v, heapLevel)
  BY <1>0, <1>2, <1>5, <1>6, NewTablesAgree
<1>8. PICK own, rk, B : /\ Sound(b, own, rk, B, heapLevel, heapLevel, freeStack, free)
                        /\ Views(b, own, heapLevel, V1, sc1, RestoreTable)
  BY <1>5 DEF Represents
<1>9. Wrote(b, o, v, heapLevel, free, mem', free')
  BY <1>1, WriteToWrote
<1>10. WrittenTables(mem', heapLevel, freeStack, free', V1, sc1, RestoreTable, o, v)
  BY <1>2, <1>4, <1>8, <1>9, WriteViews
<1>11. Top' = heapLevel /\ heapLevel' = heapLevel /\ freeStack' = freeStack
  BY <1>1 DEF Top
<1>12. CASE heapLevel = 0
  <2>1. Represents(mem', heapLevel', Top', freeStack', free', [V1 EXCEPT ![heapLevel][o] = v], sc1, RestoreTable)
    BY <1>7, <1>10, <1>11, <1>12 DEF WrittenTables, NewAgrees
  <2>2. sc1 = [ScopeTable EXCEPT ![o] = heapLevel]
    BY <1>0, <1>12
  <2>3. /\ VersionTable' = [V1 EXCEPT ![heapLevel][o] = v] /\ ScopeTable' = sc1
        /\ RestoreTable' = RestoreTable
    BY <2>1, NextTables
  <2> QED BY <1>5, <1>7, <1>11, <1>12, <2>2, <2>3 DEF NewAgrees
<1>13. CASE heapLevel # 0
  <2>1. Represents(mem', heapLevel', Top', freeStack', free', [V1 EXCEPT ![heapLevel][o] = v],
                   [sc1 EXCEPT ![o] = heapLevel], [RestoreTable EXCEPT ![heapLevel][o] = sc1[o]])
    BY <1>7, <1>10, <1>11, <1>13 DEF WrittenTables, NewAgrees
  <2>2. /\ VersionTable' = [V1 EXCEPT ![heapLevel][o] = v]
        /\ ScopeTable' = [sc1 EXCEPT ![o] = heapLevel]
        /\ RestoreTable' = [RestoreTable EXCEPT ![heapLevel][o] = sc1[o]]
    BY <2>1, NextTables
  <2> QED BY <1>5, <1>7, <1>11, <1>13, <2>2 DEF NewAgrees
<1> QED BY <1>12, <1>13

(* Destroy.                                                                   *)
LEMMA DestroyTables ==
  ASSUME HeapInv, HeapInv', NEW o \in HeapObj, Heap!Destroy(o)
  PROVE  /\ ScopeTable[o] # Heap!NoScope /\ heapLevel' = heapLevel
         /\ VersionTable' = [s \in Heap!Level |-> [VersionTable[s] EXCEPT ![o] = Absent]]
         /\ RestoreTable' = [s \in Heap!Level |-> [RestoreTable[s] EXCEPT ![o] = Heap!NoScope]]
         /\ ScopeTable' = [ScopeTable EXCEPT ![o] = Heap!NoScope]
<1>1. /\ ~ popping /\ mem.scope[o] # Heap!NoScope /\ mem' = Heap!DestroyAll(mem, o)
      /\ heapLevel' = heapLevel /\ popping' = popping /\ free' = free /\ freeStack' = freeStack
  BY DEF Heap!Destroy, Heap!Alive
<1>2. PICK own, rk, B : /\ Sound(mem, own, rk, B, heapLevel, heapLevel, freeStack, free)
                        /\ Views(mem, own, heapLevel, VersionTable, ScopeTable, RestoreTable)
  BY <1>1, IdleTables
<1>3. heapLevel \in Heap!Level /\ mem \in Heap!Memory
  BY <1>1, IdleInv
<1>4. own[o] = o
  BY <1>1, <1>2 DEF Sound, Owned
<1>5. Destroys(mem, own, freeStack, free, heapLevel, o, mem')
  BY <1>1, <1>2, <1>3, <1>4, DestroyStep DEF Sound
<1>6. Top' = heapLevel /\ heapLevel' = heapLevel /\ freeStack' = freeStack /\ free' = free
  BY <1>1 DEF Top
<1>7. Represents(mem', heapLevel', Top', freeStack', free',
                 [s \in Heap!Level |-> [VersionTable[s] EXCEPT ![o] = Absent]],
                 [ScopeTable EXCEPT ![o] = Heap!NoScope],
                 [s \in Heap!Level |-> [RestoreTable[s] EXCEPT ![o] = Heap!NoScope]])
  BY <1>2, <1>3, <1>5, <1>6, DestroyViews
<1>8. ScopeTable[o] # Heap!NoScope
  <2>1. ScopeTable[o] = ScopeEntry(mem, own, heapLevel, o)
    BY <1>2 DEF Views
  <2> QED BY <1>1, <1>2, <1>3, <2>1, IdleScope DEF Sound
<1> QED BY <1>1, <1>7, <1>8, NextTables

-----------------------------------------------------------------------------
(* The refinement: push, pop and the iterations of pop.                       *)
LEMMA PushTables ==
  ASSUME HeapInv, HeapInv', Heap!Push
  PROVE  /\ heapLevel < MaxHeapLevel /\ heapLevel' = heapLevel + 1
         /\ VersionTable' = VersionTable /\ ScopeTable' = ScopeTable
         /\ RestoreTable' = RestoreTable
<1>1. /\ ~ popping /\ heapLevel < MaxHeapLevel /\ heapLevel' = heapLevel + 1
      /\ mem' = [mem EXCEPT !.link[heapLevel + 1] = Null]
      /\ freeStack' = Append(freeStack, free) /\ popping' = popping /\ free' = free
  BY DEF Heap!Push
<1>2. PICK own, rk, B : /\ Sound(mem, own, rk, B, heapLevel, heapLevel, freeStack, free)
                        /\ Views(mem, own, heapLevel, VersionTable, ScopeTable, RestoreTable)
  BY <1>1, IdleTables
<1>3. heapLevel \in Heap!Level /\ mem \in Heap!Memory /\ Regions(freeStack, free, heapLevel)
  BY <1>1, IdleInv
<1>4. heapLevel + 1 \in Heap!Level
  BY <1>1, <1>3, HeapAssumption DEF Heap!Level
<1>5. Sound(mem', own, rk, B, heapLevel + 1, heapLevel + 1, freeStack', free)
  BY <1>1, <1>2, <1>3, <1>4, PushStep
<1>6. Owned(mem, own, heapLevel)
  BY <1>2 DEF Sound
<1>7. Views(mem', own, heapLevel + 1, VersionTable, ScopeTable, RestoreTable)
  BY <1>1, <1>2, <1>3, <1>6, PushViews
<1>8. Top' = heapLevel + 1
  BY <1>1 DEF Top
<1>9. Represents(mem', heapLevel', Top', freeStack', free', VersionTable, ScopeTable, RestoreTable)
  BY <1>1, <1>5, <1>7, <1>8 DEF Represents
<1> QED BY <1>1, <1>9, NextTables

(* The first step of a pop takes all of its effect.                           *)
LEMMA PopTables ==
  ASSUME HeapInv, HeapInv', Heap!PopScope
  PROVE  /\ heapLevel > 0 /\ heapLevel' = heapLevel - 1
         /\ VersionTable' = [VersionTable EXCEPT ![heapLevel] = [o \in HeapObj |-> Absent]]
         /\ ScopeTable' = [o \in HeapObj |-> IF o \in {p \in HeapObj : VersionTable[heapLevel][p] # Absent}
                                         THEN RestoreTable[heapLevel][o] ELSE ScopeTable[o]]
         /\ RestoreTable' = [RestoreTable EXCEPT ![heapLevel] = [o \in HeapObj |-> Heap!NoScope]]
<1>1. /\ ~ popping /\ heapLevel > 0 /\ popping' = TRUE /\ heapLevel' = heapLevel - 1
      /\ mem' = mem /\ free' = free /\ freeStack' = freeStack
  BY DEF Heap!PopScope
<1>2. PICK own, rk, B : /\ Sound(mem, own, rk, B, heapLevel, heapLevel, freeStack, free)
                        /\ Views(mem, own, heapLevel, VersionTable, ScopeTable, RestoreTable)
  BY <1>1, IdleTables
<1>3. heapLevel \in Heap!Level /\ mem \in Heap!Memory /\ (heapLevel - 1) + 1 = heapLevel
  <2>1. heapLevel \in Heap!Level /\ mem \in Heap!Memory
    BY <1>1, IdleInv
  <2> QED BY <2>1, HeapAssumption DEF Heap!Level
<1>4. Sound(mem, own, rk, B, heapLevel - 1, heapLevel, freeStack, free)
  BY <1>1, <1>2, <1>3, PopStep
<1>5. PICK V2, sc2, R2 : Popped(VersionTable, ScopeTable, RestoreTable, heapLevel, V2, sc2, R2)
  BY DEF Popped
<1>6. Views(mem, own, heapLevel - 1, V2, sc2, R2)
  <2>1. Owned(mem, own, heapLevel) /\ Saved(mem, own, freeStack, free)
    BY <1>2 DEF Sound
  <2> QED BY <1>1, <1>2, <1>3, <1>5, <2>1, PopViews
<1>7. Top' = heapLevel
  BY <1>1, <1>3 DEF Top
<1>8. Represents(mem', heapLevel', Top', freeStack', free', V2, sc2, R2)
  <2>1. Represents(mem, heapLevel - 1, heapLevel, freeStack, free, V2, sc2, R2)
    BY ONLY <1>4, <1>6 DEF Represents
  <2> QED BY ONLY <1>1, <1>7, <2>1
<1>9. VersionTable' = V2 /\ ScopeTable' = sc2 /\ RestoreTable' = R2
  BY ONLY <1>8, HeapInv', NextTables
<1> QED BY <1>1, <1>5, <1>9 DEF Popped

(* What is left of it changes nothing that can be seen.                       *)
LEMMA RestoreTables ==
  ASSUME HeapInv, HeapInv', Heap!RestoreNext
  PROVE  /\ heapLevel' = heapLevel
         /\ VersionTable' = VersionTable /\ ScopeTable' = ScopeTable
         /\ RestoreTable' = RestoreTable
<1>0. PICK o : o = mem.link[heapLevel + 1]
  OBVIOUS
<1>1. /\ popping /\ o # Null
      /\ mem' = [Heap!RestoreAndContinue(mem, o) EXCEPT !.link[heapLevel + 1] = mem.link[o]]
      /\ heapLevel' = heapLevel /\ popping' = popping /\ free' = free /\ freeStack' = freeStack
  BY <1>0 DEF Heap!RestoreNext
<1>2. PICK own, rk, B : /\ Sound(mem, own, rk, B, heapLevel, heapLevel + 1, freeStack, free)
                        /\ Views(mem, own, heapLevel, VersionTable, ScopeTable, RestoreTable)
  BY <1>1, PoppingTables
<1>3. heapLevel \in Heap!Level /\ heapLevel + 1 \in Heap!Level /\ mem \in Heap!Memory
  BY <1>1, PoppingInv
<1>4. Represents(mem', heapLevel, heapLevel + 1, freeStack, free, VersionTable, ScopeTable, RestoreTable)
  <2>1. CASE mem.restore[o] = Null
    <3>1. Vanished(mem, own, heapLevel, heapLevel + 1, freeStack, free, o, mem')
      BY <1>0, <1>1, <1>2, <1>3, <2>1, UnwindToNone
    <3> QED BY <1>2, <1>3, <2>1, <3>1, VanishedViews
  <2>2. CASE mem.restore[o] # Null
    <3>1. Resumed(mem, own, heapLevel, heapLevel + 1, freeStack, free, o, mem')
      BY <1>0, <1>1, <1>2, <1>3, <2>2, UnwindToCopy
    <3> QED BY <1>2, <1>3, <2>2, <3>1, ResumedViews
  <2> QED BY <2>1, <2>2
<1>5. Top' = heapLevel + 1
  BY <1>1 DEF Top
<1>6. Represents(mem', heapLevel', Top', freeStack', free', VersionTable, ScopeTable, RestoreTable)
  BY <1>1, <1>4, <1>5
<1> QED BY <1>1, <1>6, NextTables

LEMMA ReleaseTables ==
  ASSUME HeapInv, HeapInv', Heap!ReleaseMemory
  PROVE  /\ heapLevel' = heapLevel
         /\ VersionTable' = VersionTable /\ ScopeTable' = ScopeTable
         /\ RestoreTable' = RestoreTable
<1>0. /\ popping /\ mem.link[heapLevel + 1] = Null /\ popping' = FALSE
      /\ free' = freeStack[Len(freeStack)] /\ heapLevel' = heapLevel
      /\ freeStack' = SubSeq(freeStack, 1, Len(freeStack) - 1)
      /\ mem' = Heap!Wipe(mem, {n \in Heap!Cell : n >= free'} \cup {o \in HeapObj : mem.scope[o] = Heap!NoScope})
  BY DEF Heap!ReleaseMemory
<1>1. PICK own, rk, B : /\ Sound(mem, own, rk, B, heapLevel, heapLevel + 1, freeStack, free)
                        /\ Views(mem, own, heapLevel, VersionTable, ScopeTable, RestoreTable)
  BY <1>0, PoppingTables
<1>2. heapLevel \in Heap!Level /\ heapLevel + 1 \in Heap!Level /\ mem \in Heap!Memory /\ Regions(freeStack, free, heapLevel + 1)
  BY <1>0, PoppingInv
<1>3. Len(freeStack) = heapLevel + 1 /\ (heapLevel + 1) - 1 = heapLevel
  BY <1>2, Spaces DEF Regions
<1>4. PICK N : N = {n \in Heap!Cell : n >= freeStack[heapLevel + 1]} \cup {o \in HeapObj : mem.scope[o] = Heap!NoScope}
  OBVIOUS
<1>5. /\ free' = freeStack[heapLevel + 1] /\ freeStack' = SubSeq(freeStack, 1, heapLevel)
      /\ mem' = Heap!Wipe(mem, N)
  BY <1>0, <1>3, <1>4
<1>6. Released(mem, own, rk, B, heapLevel, SubSeq(freeStack, 1, heapLevel), freeStack[heapLevel + 1], mem')
  BY <1>0, <1>1, <1>2, <1>4, <1>5, ReleaseStep
<1>7. Views(mem', own, heapLevel, VersionTable, ScopeTable, RestoreTable)
  <2>1. Owned(mem, own, heapLevel + 1) /\ Saved(mem, own, freeStack, free)
    BY <1>1 DEF Sound
  <2>2. \A n \in Heap!Node : own[n] # Null =>
          /\ mem'.restore[n] = mem.restore[n] /\ mem'.scope[n] = mem.scope[n]
          /\ mem'.data[n] = mem.data[n]
    BY <1>6 DEF Released
  <2> QED BY <1>1, <1>2, <2>1, <2>2, ReleaseViews
<1>8. Sound(mem', own, rk, B, heapLevel, heapLevel, freeStack', free')
  BY <1>5, <1>6 DEF Released
<1>9. Top' = heapLevel
  BY <1>0 DEF Top
<1>10. Represents(mem', heapLevel', Top', freeStack', free', VersionTable, ScopeTable, RestoreTable)
  BY <1>0, <1>7, <1>8, <1>9 DEF Represents
<1> QED BY <1>0, <1>10, NextTables

(* NewDefault and NewInCMM.                                                   *)
LEMMA NewDefaultTables ==
  ASSUME HeapInv, HeapInv', NEW o \in HeapObj, Heap!NewDefault(o)
  PROVE  /\ ScopeTable[o] = Heap!NoScope /\ heapLevel' = heapLevel
         /\ VersionTable' = [VersionTable EXCEPT ![0][o] = Default]
         /\ ScopeTable' = [ScopeTable EXCEPT ![o] = 0]
         /\ RestoreTable' = RestoreTable
<1>1. /\ ~ popping /\ mem.scope[o] = Heap!NoScope /\ mem' = Heap!Construct(o, 0, Default)
      /\ UNCHANGED <<heapLevel, popping, free, freeStack>>
  BY DEF Heap!NewDefault, Heap!Alive
<1>2. 0 \in 0 .. heapLevel /\ Default \in Val
  <2>1. heapLevel \in Heap!Level
    BY <1>1, IdleInv
  <2> QED BY <2>1, Spaces, HeapAssumption
<1> QED BY <1>1, <1>2, BuiltTables

LEMMA NewInCMMTables ==
  ASSUME HeapInv, HeapInv', NEW o \in HeapObj, NEW v \in Val, Heap!NewInCMM(o, v)
  PROVE  /\ ScopeTable[o] = Heap!NoScope /\ heapLevel' = heapLevel
         /\ VersionTable' = [VersionTable EXCEPT ![heapLevel][o] = v]
         /\ ScopeTable' = [ScopeTable EXCEPT ![o] = heapLevel]
         /\ RestoreTable' = RestoreTable
<1>1. /\ ~ popping /\ mem.scope[o] = Heap!NoScope /\ mem' = Heap!Construct(o, heapLevel, v)
      /\ UNCHANGED <<heapLevel, popping, free, freeStack>>
  BY DEF Heap!NewInCMM, Heap!Alive
<1>2. heapLevel \in 0 .. heapLevel
  <2>1. heapLevel \in Heap!Level
    BY <1>1, IdleInv
  <2> QED BY <2>1, Spaces
<1> QED BY <1>1, <1>2, BuiltTables

(* At the start every table is empty.                                         *)
LEMMA InitTables ==
  ASSUME Heap!Init
  PROVE  /\ heapLevel = 0
         /\ VersionTable = [s \in Heap!Level |-> [o \in HeapObj |-> Absent]]
         /\ ScopeTable = [o \in HeapObj |-> Heap!NoScope]
         /\ RestoreTable = [s \in Heap!Level |-> [o \in HeapObj |-> Heap!NoScope]]
<1>1. ASSUME NEW o \in HeapObj PROVE ~ Heap!Alive(o) /\ Heap!Live(o) = o /\ mem.scope[o] = Heap!NoScope /\ o # Null
  <2>1. o \in Heap!Node /\ o # Null
    BY Spaces
  <2> QED BY <2>1 DEF Heap!Init, Heap!NoMemory, Heap!Alive, Heap!Live
<1>2. ASSUME NEW o \in HeapObj, NEW s \in Heap!Level PROVE Heap!Version(s, o) = {}
  BY <1>1 DEF Heap!Version, Heap!Versions
<1>3. ASSUME NEW o \in HeapObj, NEW s \in Heap!Level
      PROVE  Heap!DataAt(s, o) = Absent /\ Heap!RestoreAt(s, o) = Heap!NoScope
  BY <1>2 DEF Heap!DataAt, Heap!RestoreAt
<1>4. ASSUME NEW o \in HeapObj PROVE Heap!ScopeOf(Heap!Live(o)) = Heap!NoScope
  BY <1>1 DEF Heap!ScopeOf
<1>5. heapLevel = 0
  BY DEF Heap!Init
<1> QED BY <1>3, <1>4, <1>5 DEF VersionTable, ScopeTable, RestoreTable

-----------------------------------------------------------------------------
(* Every step is a step of ContextScopes or none at all.                      *)
LEMMA InitImplements == Heap!Init => Heap!Abs!Init
BY InitTables
   DEF Heap!Abs!Init, VersionTable, ScopeTable, RestoreTable, Heap!Level, Heap!Abs!Level,
       Heap!NoScope, Heap!Abs!NoScope

LEMMA SetImplements ==
  ASSUME HeapInv, HeapInv', NEW o \in HeapObj, NEW v \in Val, Heap!Set(o, v)
  PROVE  Heap!Abs!Set(o, v)
BY SetTables
   DEF Heap!Abs!Set, Heap!Abs!Alive, VersionTable, ScopeTable, RestoreTable, Heap!NoScope,
       Heap!Abs!NoScope

LEMMA NewImplements ==
  ASSUME HeapInv, HeapInv', NEW o \in HeapObj, NEW v \in Val, Heap!New(o, v)
  PROVE  Heap!Abs!New(o, v)
BY NewTables DEF Heap!Abs!New, Heap!Abs!Alive, VersionTable, ScopeTable, RestoreTable, NewVersion,
                 Heap!NoScope, Heap!Abs!NoScope, Heap!Level, Heap!Abs!Level

LEMMA NewInCMMImplements ==
  ASSUME HeapInv, HeapInv', NEW o \in HeapObj, NEW v \in Val, Heap!NewInCMM(o, v)
  PROVE  Heap!Abs!NewInCMM(o, v)
BY NewInCMMTables DEF Heap!Abs!NewInCMM, Heap!Abs!Alive, VersionTable, ScopeTable, RestoreTable,
                      Heap!NoScope, Heap!Abs!NoScope

LEMMA NewDefaultImplements ==
  ASSUME HeapInv, HeapInv', NEW o \in HeapObj, Heap!NewDefault(o)
  PROVE  Heap!Abs!NewDefault(o)
BY NewDefaultTables
   DEF Heap!Abs!NewDefault, Heap!Abs!Alive, VersionTable, ScopeTable, RestoreTable,
                        Heap!NoScope, Heap!Abs!NoScope

LEMMA DestroyImplements ==
  ASSUME HeapInv, HeapInv', NEW o \in HeapObj, Heap!Destroy(o)
  PROVE  Heap!Abs!Destroy(o)
BY DestroyTables DEF Heap!Abs!Destroy, Heap!Abs!Alive, VersionTable, ScopeTable, RestoreTable,
                     Heap!NoScope, Heap!Abs!NoScope, Heap!Level, Heap!Abs!Level

LEMMA PushImplements ==
  ASSUME HeapInv, HeapInv', Heap!Push
  PROVE  Heap!Abs!Push
BY PushTables DEF Heap!Abs!Push, VersionTable, ScopeTable, RestoreTable

LEMMA PopImplements ==
  ASSUME HeapInv, HeapInv', Heap!PopScope
  PROVE  Heap!Abs!Pop
BY PopTables
   DEF Heap!Abs!Pop, Heap!Abs!ChainOf, VersionTable, ScopeTable, RestoreTable, Heap!NoScope,
       Heap!Abs!NoScope

LEMMA RestoreImplements ==
  ASSUME HeapInv, HeapInv', Heap!RestoreNext \/ Heap!ReleaseMemory
  PROVE  UNCHANGED Heap!Abs!vars
BY RestoreTables, ReleaseTables DEF Heap!Abs!vars, VersionTable, ScopeTable, RestoreTable

LEMMA StutterImplements == UNCHANGED Heap!vars => UNCHANGED Heap!Abs!vars
<1> SUFFICES ASSUME UNCHANGED Heap!vars PROVE UNCHANGED Heap!Abs!vars
  OBVIOUS
<1>1. /\ heapLevel' = heapLevel /\ popping' = popping /\ mem' = mem
  BY DEF Heap!vars
<1>2. \A o : Heap!Alive(o)' <=> Heap!Alive(o)
  BY <1>1 DEF Heap!Alive
<1>3. \A o : Heap!Live(o)' = Heap!Live(o)
  BY <1>1 DEF Heap!Live
<1>4. \A o : Heap!Versions(o)' = Heap!Versions(o)
  BY <1>1, <1>2, <1>3 DEF Heap!Versions
<1>5. \A s, o : Heap!Version(s, o)' = Heap!Version(s, o)
  BY <1>1, <1>4 DEF Heap!Version
<1>6. ASSUME NEW s, NEW o
      PROVE  Heap!DataAt(s, o)' = Heap!DataAt(s, o) /\ Heap!RestoreAt(s, o)' = Heap!RestoreAt(s, o)
  <2>1. Heap!Version(s, o)' = Heap!Version(s, o)
    BY <1>5
  <2>2. Heap!DataAt(s, o)' = Heap!DataAt(s, o)
    BY <1>1, <2>1 DEF Heap!DataAt
  <2>3. Heap!RestoreAt(s, o)' = Heap!RestoreAt(s, o)
    BY <1>1, <2>1 DEF Heap!RestoreAt, Heap!ScopeOf
  <2> QED BY <2>2, <2>3
<1>7. \A o : Heap!ScopeOf(Heap!Live(o))' = Heap!ScopeOf(Heap!Live(o))
  BY <1>1, <1>3 DEF Heap!ScopeOf
<1> QED BY <1>1, <1>6, <1>7 DEF Heap!Abs!vars

LEMMA StepImplements == HeapInv /\ HeapInv' /\ [Heap!Next]_(Heap!vars) => [Heap!Abs!Next]_(Heap!Abs!vars)
<1> SUFFICES ASSUME HeapInv, HeapInv', [Heap!Next]_(Heap!vars) PROVE [Heap!Abs!Next]_(Heap!Abs!vars)
  OBVIOUS
<1>1. ASSUME NEW o \in HeapObj, NEW v \in Val, Heap!Set(o, v) \/ Heap!New(o, v) \/ Heap!NewInCMM(o, v)
      PROVE  Heap!Abs!Next
  BY <1>1, SetImplements, NewImplements, NewInCMMImplements DEF Heap!Abs!Next
<1>2. ASSUME NEW o \in HeapObj, Heap!NewDefault(o) \/ Heap!Destroy(o) PROVE Heap!Abs!Next
  BY <1>2, NewDefaultImplements, DestroyImplements DEF Heap!Abs!Next
<1>3. CASE Heap!Push \/ Heap!PopScope
  BY <1>3, PushImplements, PopImplements DEF Heap!Abs!Next
<1>4. CASE Heap!RestoreNext \/ Heap!ReleaseMemory
  BY <1>4, RestoreImplements
<1>5. CASE UNCHANGED Heap!vars
  BY <1>5, StutterImplements
<1> QED BY <1>1, <1>2, <1>3, <1>4, <1>5 DEF Heap!Next

-----------------------------------------------------------------------------
(* The heap next to ContextScopes, as the run checks them.                    *)

HeapStep == [Heap!Next]_(Heap!vars)

LEMMA MCStepIsHeapStep ==
  ASSUME [MCNext]_<<model, vars, heapVars>>
  PROVE  HeapStep
<1>1. heapVars' = heapVars <=> Heap!vars' = Heap!vars
  BY DEF heapVars, Heap!vars
<1>2. CASE MCNext
  BY <1>1, <1>2 DEF MCNext, HeapNext, HeapStep
<1>3. CASE UNCHANGED <<model, vars, heapVars>>
  BY <1>1, <1>3 DEF HeapStep
<1> QED BY <1>2, <1>3

(* The inductive invariant: who owns which version, in which order, and where. *)
THEOREM HeapInvCorrect == MCSpec => []HeapInv
<1>1. MCInit => HeapInv
  BY HeapInit DEF MCInit
<1>2. HeapInv /\ [MCNext]_<<model, vars, heapVars>> => HeapInv'
  BY MCStepIsHeapStep, HeapKeeps DEF HeapStep
<1> QED BY <1>1, <1>2, PTL DEF MCSpec

(* No version in use, and no live object, holds a pointer into released       *)
(* memory, at any moment of a pop either.                                     *)
THEOREM NoDanglingPointerCorrect == MCSpec => []NoDanglingPointer
<1>1. HeapInv => NoDanglingPointer
  BY NoDanglingPointerHolds DEF NoDanglingPointer
<1> QED BY <1>1, HeapInvCorrect, PTL

(* The list of every scope holds exactly the versions that belong to it, each *)
(* with a back link to the pointer that points at it, and a saved copy lies   *)
(* in the memory that the pop of its scope releases.                          *)
THEOREM ListsWellFormedCorrect == MCSpec => []ListsWellFormed
<1>1. HeapInv => ListsWellFormed
  BY TypeOKHolds, ChainsWellFormedHolds, SavedInTopRegionHolds DEF ListsWellFormed
<1> QED BY <1>1, HeapInvCorrect, PTL

(* Every write, construction, destruction, push and pop of the linked lists   *)
(* is that of ContextScopes; the loop of a pop and the release of its memory  *)
(* change no value, scope or restore pointer that anyone will see.            *)
THEOREM ImplementsScopesCorrect == MCSpec => ImplementsScopes
<1>1. MCInit => Heap!Abs!Init
  BY InitImplements DEF MCInit
<1>2. HeapInv /\ HeapInv' /\ [MCNext]_<<model, vars, heapVars>> => [Heap!Abs!Next]_(Heap!Abs!vars)
  BY MCStepIsHeapStep, StepImplements DEF HeapStep
<1> QED BY <1>1, <1>2, HeapInvCorrect, PTL DEF MCSpec, ImplementsScopes, Heap!ImplementsScopes, Heap!Abs!Spec

(* The same without the bounds that MCSpec puts on the heaps it explores: any *)
(* objects, each with any values, on any scopes, in one heap.                 *)
THEOREM AnyHeapCorrect ==
  Heap!Spec => [](NoDanglingPointer /\ ListsWellFormed) /\ Heap!ImplementsScopes
<1>1. Heap!Init => HeapInv
  BY HeapInit
<1>2. HeapInv => NoDanglingPointer /\ ListsWellFormed
  BY NoDanglingPointerHolds, TypeOKHolds, ChainsWellFormedHolds, SavedInTopRegionHolds
     DEF NoDanglingPointer, ListsWellFormed
<1>3. Heap!Init => Heap!Abs!Init
  BY InitImplements
<1> QED BY <1>1, <1>2, <1>3, HeapKeeps, StepImplements, PTL
        DEF Heap!Spec, Heap!ImplementsScopes, Heap!Abs!Spec
===============================================================================
