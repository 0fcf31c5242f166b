------------------------- MODULE CDInsertHashMapProofs -------------------------
(***************************************************************************)
(* The two counters of CDInsertHashMap are enough to undo its insertions,  *)
(* for any keys and data and any bound on the levels: no restore() asks    *)
(* for more keys than there are, or cuts a key inserted at level zero, and *)
(* the map behaves as if it were copied at each push.                      *)
(***************************************************************************)
EXTENDS CDInsertHashMap, TLAPS

Copy == [scope : Level, size : Nat, pushFronts : Nat]
Live == [scope |-> scope, size |-> size, pushFronts |-> pushFronts]

LEMMA AppendFacts ==
  ASSUME NEW S, NEW s \in Seq(S), NEW e \in S
  PROVE  /\ Append(s, e) \in Seq(S)
         /\ Append(s, e) # <<>>
         /\ Len(Append(s, e)) = Len(s) + 1
         /\ DOMAIN Append(s, e) = 1 .. Len(s) + 1
         /\ Append(s, e)[Len(s) + 1] = e
         /\ \A i \in 1 .. Len(s) : Append(s, e)[i] = s[i]
OBVIOUS

LEMMA PrefixFacts ==
  ASSUME NEW S, NEW s \in Seq(S), NEW n \in 0 .. Len(s)
  PROVE  /\ SubSeq(s, 1, n) \in Seq(S)
         /\ Len(SubSeq(s, 1, n)) = n
         /\ DOMAIN SubSeq(s, 1, n) = 1 .. n
         /\ SubSeq(s, 1, n) = <<>> <=> n = 0
         /\ \A i \in 1 .. n : SubSeq(s, 1, n)[i] = s[i]
OBVIOUS

LEMMA FrontFacts ==
  ASSUME NEW S, NEW s \in Seq(S), s # <<>>
  PROVE  /\ Len(s) \in Nat /\ Len(s) > 0
         /\ Front(s) \in Seq(S)
         /\ Len(Front(s)) = Len(s) - 1
         /\ DOMAIN Front(s) = 1 .. Len(s) - 1
         /\ \A i \in 1 .. Len(s) - 1 : Front(s)[i] = s[i]
         /\ Last(s) = s[Len(s)] /\ Last(s) \in S
         /\ Front(s) = <<>> <=> Len(s) = 1
<1>1. Len(s) \in Nat /\ Len(s) > 0 /\ Last(s) = s[Len(s)] /\ Last(s) \in S
  BY DEF Last
<1>2. Front(s) = SubSeq(s, 1, Len(s) - 1)
  BY DEF Front
<1>3. Len(s) - 1 \in 0 .. Len(s)
  BY <1>1
<1>4. /\ Front(s) \in Seq(S) /\ Len(Front(s)) = Len(s) - 1
      /\ DOMAIN Front(s) = 1 .. Len(s) - 1
      /\ \A i \in 1 .. Len(s) - 1 : Front(s)[i] = s[i]
      /\ Front(s) = <<>> <=> Len(s) - 1 = 0
  <2> DEFINE n == Len(s) - 1
  <2>1. n \in 0 .. Len(s) /\ Front(s) = SubSeq(s, 1, n)
    BY <1>2, <1>3
  <2> HIDE DEF n
  <2>2. /\ Front(s) \in Seq(S) /\ Len(Front(s)) = n /\ DOMAIN Front(s) = 1 .. n
        /\ \A i \in 1 .. n : Front(s)[i] = s[i]
        /\ Front(s) = <<>> <=> n = 0
    BY <2>1, PrefixFacts
  <2>3. QED
    BY <2>2 DEF n
<1>5. Front(s) = <<>> <=> Len(s) = 1
  BY <1>1, <1>4
<1>6. QED
  BY <1>1, <1>4, <1>5

LEMMA SavedFields ==
  ASSUME TypeOK
  PROVE  /\ saved \in Seq(Copy) /\ Len(saved) \in Nat
         /\ DOMAIN saved = 1 .. Len(saved)
         /\ saved = <<>> <=> Len(saved) = 0
         /\ \A i \in 1 .. Len(saved) :
              /\ saved[i] \in Copy
              /\ saved[i].scope \in Nat /\ saved[i].scope \in Level
              /\ saved[i].size \in Nat /\ saved[i].pushFronts \in Nat
<1>1. saved \in Seq(Copy)
  BY DEF TypeOK, Copy
<1>2. \A i \in 1 .. Len(saved) : saved[i] \in Copy
  BY <1>1
<1>3. QED
  BY <1>1, <1>2 DEF Copy, Level

-------------------------------------------------------------------------------
(* What follows the i-th copy, in the chain that ends in the map itself,   *)
(* and how the two are related.                                            *)
After(i) == IF i = Len(saved) THEN Live ELSE saved[i + 1]
Grows(c, d) ==
  /\ c.scope < d.scope
  /\ c.pushFronts <= d.pushFronts
  /\ c.size - c.pushFronts <= d.size - d.pushFronts

(* A copy counted its insertions at level zero among its keys, and the     *)
(* oldest copy is of the bottom scope: in any other scope there is a copy  *)
(* to go back to.                                                          *)
CopiesCount ==
  /\ \A i \in DOMAIN saved : saved[i].pushFronts <= saved[i].size
  /\ \A i \in DOMAIN saved : saved[i].scope = 0 <=> i = 1
  /\ scope = 0 <=> saved = <<>>

IInv == TypeOK /\ CountersAgree /\ CopiesCount

LEMMA CountersOfChain ==
  CountersAgree <=> /\ Len(keys) = size /\ pushFronts <= size
                    /\ \A i \in DOMAIN saved : Grows(saved[i], After(i))
BY DEF CountersAgree, Grows, After, Live

LEMMA InitIInv == ASSUME MaxLevel \in Nat, Init PROVE IInv
BY DEF Init, IInv, TypeOK, Level, CountersAgree, CopiesCount

(* An insertion, at either end, adds a key to the map and perhaps a copy   *)
(* to the chain; the copy is what the map was.                             *)
LEMMA InsertionKeeps ==
  ASSUME MaxLevel \in Nat, IInv, MakeCurrent,
         level' = level, size' = size + 1,
         keys' \in Seq(Key \X Data), Len(keys') = Len(keys) + 1,
         pushFronts' \in {pushFronts, pushFronts + 1}
  PROVE  IInv'
<1> TypeOK /\ CountersAgree /\ CopiesCount
  BY DEF IInv
<1>1. /\ level \in Nat /\ scope \in Nat /\ scope <= level /\ level \in Level
      /\ size \in Nat /\ pushFronts \in Nat /\ pushFronts <= size
      /\ Len(keys) = size
  BY DEF TypeOK, Level, CountersAgree
<1>2. Len(keys') = size' /\ pushFronts' <= size' /\ size' \in Nat /\ pushFronts' \in Nat
  BY <1>1
<1>3. CASE scope = level
  <2>1. UNCHANGED <<scope, saved>>
    BY <1>3 DEF MakeCurrent
  <2>2. TypeOK'
    BY <1>1, <1>2, <2>1 DEF TypeOK
  <2>3. CopiesCount'
    BY <2>1 DEF CopiesCount
  <2>4. CountersAgree'
    <3> SUFFICES ASSUME NEW i \in DOMAIN saved PROVE Grows(saved[i], After(i))'
      BY <1>2, <2>1, CountersOfChain DEF CountersAgree, Grows, After, Live
    <3>1. Grows(saved[i], After(i))
      BY CountersOfChain
    <3>2. saved[i].size \in Nat /\ saved[i].pushFronts \in Nat
      BY SavedFields
    <3>3. CASE i = Len(saved)
      BY <1>1, <2>1, <3>1, <3>2, <3>3 DEF Grows, After, Live
    <3>4. CASE i # Len(saved)
      BY <2>1, <3>1, <3>4 DEF Grows, After
    <3>5. QED
      BY <3>3, <3>4
  <2>5. QED
    BY <2>2, <2>3, <2>4 DEF IInv
<1>4. CASE scope # level
  <2> DEFINE n == Len(saved)
  <2>1. scope' = level /\ saved' = Append(saved, Live) /\ scope < level
    BY <1>1, <1>4 DEF MakeCurrent, Live
  <2>2. Live \in Copy
    BY <1>1 DEF Live, Copy, Level, TypeOK
  <2>3. /\ saved' \in Seq(Copy) /\ saved' # <<>> /\ Len(saved') = n + 1
        /\ DOMAIN saved' = 1 .. n + 1 /\ saved'[n + 1] = Live
        /\ \A i \in 1 .. n : saved'[i] = saved[i]
    BY <2>1, <2>2, SavedFields, AppendFacts
  <2>4. n \in Nat /\ DOMAIN saved = 1 .. n /\ (saved = <<>> <=> n = 0)
    BY SavedFields
  <2>5. TypeOK'
    BY <1>1, <1>2, <2>1, <2>3 DEF TypeOK, Copy
  <2> HIDE DEF n
  <2>6. CopiesCount'
    <3>1. Live.pushFronts <= Live.size /\ (Live.scope = 0 <=> n + 1 = 1)
      BY <1>1, <2>4 DEF Live, CopiesCount
    <3>2. scope' # 0
      BY <1>1, <2>1
    <3>3. ASSUME NEW i \in 1 .. n + 1
          PROVE  saved'[i].pushFronts <= saved'[i].size /\ (saved'[i].scope = 0 <=> i = 1)
      <4>1. CASE i = n + 1
        BY <2>3, <3>1, <4>1
      <4>2. CASE i \in 1 .. n
        BY <2>3, <2>4, <4>2 DEF CopiesCount
      <4>3. QED
        BY <2>4, <4>1, <4>2
    <3>4. QED
      BY <2>3, <3>2, <3>3 DEF CopiesCount
  <2>7. CountersAgree'
    <3>1. ASSUME NEW i \in 1 .. n + 1 PROVE Grows(saved[i], After(i))'
      <4>1. CASE i = n + 1
        <5>1. After(i)' = Live' /\ saved'[i] = Live
          BY <2>3, <4>1 DEF After
        <5>2. Grows(Live, Live')
          <6>1. /\ Live.scope = scope /\ Live'.scope = scope'
                /\ Live.size = size /\ Live'.size = size'
                /\ Live.pushFronts = pushFronts /\ Live'.pushFronts = pushFronts'
            BY DEF Live
          <6>2. scope < scope'
            BY <2>1
          <6>3. pushFronts <= pushFronts' /\ size - pushFronts <= size' - pushFronts'
            <7>1. pushFronts' = pushFronts \/ pushFronts' = pushFronts + 1
              OBVIOUS
            <7>2. size' = size + 1
              OBVIOUS
            <7>3. size \in Nat /\ pushFronts \in Nat
              BY <1>1
            <7>4. CASE pushFronts' = pushFronts
              BY <7>2, <7>3, <7>4
            <7>5. CASE pushFronts' = pushFronts + 1
              BY <7>2, <7>3, <7>5
            <7>6. QED
              BY <7>1, <7>4, <7>5
          <6>4. QED
            BY <6>1, <6>2, <6>3 DEF Grows
        <5>3. QED
          BY <5>1, <5>2 DEF Grows
      <4>2. CASE i \in 1 .. n
        <5>1. Grows(saved[i], After(i))
          BY <2>4, <4>2, CountersOfChain
        <5>2. After(i)' = After(i)
          <6>1. After(i)' = saved'[i + 1]
            BY <2>3, <2>4, <4>2 DEF After
          <6>2. CASE i = n
            BY <2>3, <6>1, <6>2 DEF After, n
          <6>3. CASE i # n
            <7>1. i + 1 \in 1 .. n
              BY <2>4, <4>2, <6>3
            <7>2. After(i) = saved[i + 1]
              BY <6>3 DEF After, n
            <7>3. QED
              BY <2>3, <6>1, <7>1, <7>2
          <6>4. QED
            BY <6>2, <6>3
        <5>3. QED
          BY <2>3, <4>2, <5>1, <5>2 DEF Grows
      <4>3. QED
        BY <2>4, <4>1, <4>2
    <3>2. QED
      BY <1>2, <2>3, <3>1, CountersOfChain DEF CountersAgree, Grows, After, Live
  <2>8. QED
    BY <2>5, <2>6, <2>7 DEF IInv
<1>5. QED
  BY <1>3, <1>4

(* restore() goes back to the keys of the last copy and those inserted at  *)
(* level zero since, which are as many as there are or fewer.              *)
LEMMA PopKeeps ==
  ASSUME MaxLevel \in Nat, IInv, Pop
  PROVE  IInv'
<1> TypeOK /\ CountersAgree /\ CopiesCount
  BY DEF IInv
<1>1. /\ level \in Nat /\ level > 0 /\ level' = level - 1 /\ level' \in Level
      /\ scope \in Nat /\ scope <= level
      /\ size \in Nat /\ pushFronts \in Nat /\ pushFronts <= size
      /\ Len(keys) = size /\ keys \in Seq(Key \X Data)
      /\ pushFronts' = pushFronts
  BY DEF Pop, TypeOK, Level, CountersAgree
<1>2. CASE scope < level
  <2>1. UNCHANGED <<scope, keys, size, pushFronts, saved>>
    BY <1>2 DEF Pop
  <2>2. TypeOK'
    BY <1>1, <1>2, <2>1 DEF TypeOK
  <2>3. QED
    BY <2>1, <2>2 DEF IInv, CountersAgree, CopiesCount
<1>3. CASE ~ (scope < level)
  <2> DEFINE e == Last(saved)
             n == Len(saved)
             kept == RestoreSize(e)
  <2>1. saved # <<>>
    BY <1>1, <1>3 DEF CopiesCount
  <2>2. /\ keys' = SubSeq(keys, 1, kept) /\ size' = kept
        /\ scope' = e.scope /\ saved' = Front(saved)
    BY <1>3 DEF Pop
  <2>3. /\ n \in Nat /\ n > 0 /\ DOMAIN saved = 1 .. n /\ n \in 1 .. n
        /\ saved' \in Seq(Copy) /\ Len(saved') = n - 1 /\ DOMAIN saved' = 1 .. n - 1
        /\ \A i \in 1 .. n - 1 : saved'[i] = saved[i]
        /\ saved' = <<>> <=> n = 1
        /\ e = saved[n]
    <3>1. saved \in Seq(Copy) /\ DOMAIN saved = 1 .. n
      BY SavedFields
    <3>2. /\ n \in Nat /\ n > 0
          /\ Front(saved) \in Seq(Copy) /\ Len(Front(saved)) = n - 1
          /\ DOMAIN Front(saved) = 1 .. n - 1
          /\ \A i \in 1 .. n - 1 : Front(saved)[i] = saved[i]
          /\ Last(saved) = saved[n]
          /\ Front(saved) = <<>> <=> n = 1
      BY <2>1, <3>1, FrontFacts
    <3>3. n \in 1 .. n
      BY <3>2
    <3>4. QED
      BY <2>2, <3>1, <3>2, <3>3
  <2>4. /\ e.scope \in Nat /\ e.scope \in Level /\ e.size \in Nat /\ e.pushFronts \in Nat
    BY <2>3, SavedFields
  <2>5. Grows(e, Live) /\ e.pushFronts <= e.size /\ (e.scope = 0 <=> n = 1)
    BY <2>3, CountersOfChain DEF CopiesCount, After
  <2>6. /\ kept = e.size + (pushFronts - e.pushFronts)
    BY DEF RestoreSize
  <2> HIDE DEF e, n, kept
  <2>7. e.scope < scope /\ e.pushFronts <= pushFronts
        /\ kept \in 0 .. size /\ pushFronts <= kept
        /\ kept - pushFronts = e.size - e.pushFronts
    <3>1. /\ e.scope < scope /\ e.pushFronts <= pushFronts
          /\ e.size - e.pushFronts <= size - pushFronts
      BY <2>5 DEF Grows, Live
    <3>2. size \in Nat /\ pushFronts \in Nat
      BY <1>1
    <3>3. \A a, b, c, d \in Nat : b <= c /\ b <= a /\ a - b <= d - c =>
            /\ a + (c - b) \in 0 .. d /\ c <= a + (c - b)
            /\ (a + (c - b)) - c = a - b
      OBVIOUS
    <3>4. QED
      BY <2>4, <2>5, <2>6, <3>1, <3>2, <3>3
  <2>8. keys' \in Seq(Key \X Data) /\ Len(keys') = kept
    BY <1>1, <2>2, <2>7
  <2>9. TypeOK'
    <3>1. scope' \in 0 .. level'
      BY <1>1, <2>2, <2>4, <2>7
    <3>2. size' \in Nat /\ pushFronts' \in Nat
      BY <1>1, <2>2, <2>7
    <3>3. QED
      BY <1>1, <2>3, <2>8, <3>1, <3>2 DEF TypeOK, Copy
  <2>10. CopiesCount'
    BY <2>2, <2>3, <2>5 DEF CopiesCount
  <2>11. ASSUME NEW i \in 1 .. n - 1 PROVE Grows(saved[i], After(i))'
    <3>1. i \in 1 .. n /\ i # n /\ i + 1 \in 1 .. n
      BY <2>3
    <3>2. Grows(saved[i], saved[i + 1])
      BY <2>3, <3>1, CountersOfChain DEF After, n
    <3>3. saved[i].scope \in Nat /\ saved[i].size \in Nat /\ saved[i].pushFronts \in Nat
      BY <3>1, SavedFields DEF n
    <3>4. CASE i = n - 1
      <4>1. Grows(saved[i], e)
        BY <2>3, <3>2, <3>4
      <4>2. Grows(saved[i], Live')
        BY <1>1, <2>2, <2>4, <2>7, <3>3, <4>1 DEF Grows, Live
      <4>3. After(i)' = Live' /\ saved'[i] = saved[i]
        BY <2>3, <3>4 DEF After
      <4>4. QED
        BY <4>2, <4>3 DEF Grows
    <3>5. CASE i # n - 1
      <4>1. After(i)' = saved[i + 1] /\ saved'[i] = saved[i]
        BY <2>3, <3>5 DEF After
      <4>2. QED
        BY <3>2, <4>1 DEF Grows
    <3>6. QED
      BY <3>4, <3>5
  <2>12. CountersAgree'
    <3>1. Len(keys') = size' /\ pushFronts' <= size'
      BY <1>1, <2>2, <2>7, <2>8
    <3>2. QED
      BY <2>3, <2>11, <3>1 DEF CountersAgree, Grows, After, Live
  <2>13. QED
    BY <2>9, <2>10, <2>12 DEF IInv
<1>4. QED
  BY <1>2, <1>3

LEMMA NextKeeps == ASSUME MaxLevel \in Nat, IInv, [Next]_vars PROVE IInv'
<1>1. keys \in Seq(Key \X Data)
  BY DEF IInv, TypeOK
<1>2. ASSUME NEW k \in Key, NEW d \in Data, Insert(k, d) PROVE IInv'
  <2>1. <<k, d>> \in Key \X Data
    OBVIOUS
  <2>2. keys' \in Seq(Key \X Data) /\ Len(keys') = Len(keys) + 1
    BY <1>1, <1>2, <2>1, AppendFacts DEF Insert
  <2>3. QED
    BY <1>2, <2>2, InsertionKeeps DEF Insert
<1>3. ASSUME NEW k \in Key, NEW d \in Data, InsertAtContextLevelZero(k, d) PROVE IInv'
  <2>1. <<<<k, d>>>> \in Seq(Key \X Data) /\ Len(<<<<k, d>>>>) = 1
    OBVIOUS
  <2>2. keys' = <<<<k, d>>>> \o keys
    BY <1>3 DEF InsertAtContextLevelZero
  <2>3. keys' \in Seq(Key \X Data) /\ Len(keys') = Len(keys) + 1
    BY <1>1, <2>1, <2>2
  <2>4. QED
    BY <1>3, <2>3, InsertionKeeps DEF InsertAtContextLevelZero
<1>4. CASE Push
  <2>1. UNCHANGED <<scope, keys, size, pushFronts, saved>>
        /\ level' = level + 1 /\ level < MaxLevel
    BY <1>4 DEF Push
  <2>2. TypeOK'
    BY <2>1 DEF IInv, TypeOK, Level
  <2>3. QED
    BY <2>1, <2>2 DEF IInv, CountersAgree, CopiesCount
<1>5. CASE Pop
  BY <1>5, PopKeeps
<1>6. CASE UNCHANGED vars
  BY <1>6 DEF vars, IInv, TypeOK, CountersAgree, CopiesCount
<1>7. QED
  BY <1>2, <1>3, <1>4, <1>5, <1>6 DEF Next

(* The types, the chain of counters and its bottom, in every reachable     *)
(* state.                                                                  *)
THEOREM InvariantCorrect == ASSUME MaxLevel \in Nat PROVE Spec => []IInv
<1>1. Init => IInv
  BY InitIInv
<1>2. IInv /\ [Next]_vars => IInv'
  BY NextKeeps
<1>3. QED
  BY <1>1, <1>2, PTL DEF Spec

(* The assertions of restore() on its two counters never fail.             *)
THEOREM CountersCorrect == ASSUME MaxLevel \in Nat PROVE Spec => []CountersAgree
<1>1. IInv => CountersAgree
  BY DEF IInv
<1>2. QED
  BY <1>1, InvariantCorrect, PTL

-------------------------------------------------------------------------------
(* The refinement.  Every two links of the chain are ordered, and every    *)
(* level below that of the map finds the copy that a pop to it restores.   *)
Restores(k, i) == saved[k].scope <= i /\ i < After(k).scope

Ordered ==
  \A k \in DOMAIN saved :
    Grows(saved[k], Live) /\ \A j \in 1 .. k - 1 : Grows(saved[j], saved[k])

Restorable == \A i \in Level : i < scope => \E k \in DOMAIN saved : Restores(k, i)

RInv == IInv /\ Ordered /\ Restorable

LEMMA Basics ==
  ASSUME IInv
  PROVE  /\ level \in Nat /\ level \in Level /\ scope \in Nat /\ scope <= level
         /\ size \in Nat /\ pushFronts \in Nat /\ pushFronts <= size
         /\ Len(keys) = size /\ DOMAIN keys = 1 .. size /\ keys \in Seq(Key \X Data)
         /\ \A j \in 1 .. size : keys[j] \in Key \X Data
         /\ Live.scope = scope /\ Live.size = size /\ Live.pushFronts = pushFronts
<1>1. level \in Level /\ scope \in 0 .. level /\ keys \in Seq(Key \X Data)
      /\ size \in Nat /\ pushFronts \in Nat /\ Len(keys) = size /\ pushFronts <= size
  BY DEF IInv, TypeOK, CountersAgree
<1>2. DOMAIN keys = 1 .. size /\ \A j \in 1 .. size : keys[j] \in Key \X Data
  BY <1>1
<1>3. Live.scope = scope /\ Live.size = size /\ Live.pushFronts = pushFronts
  BY DEF Live
<1>4. level \in Nat /\ scope \in Nat /\ scope <= level
  BY <1>1 DEF Level
<1>5. QED
  BY <1>1, <1>2, <1>3, <1>4

(* The map of a level below the scope of the object is that of its copy.   *)
LEMMA ChosenCopy ==
  ASSUME IInv, Ordered
  PROVE  \A i \in Level : \A k \in DOMAIN saved :
           i < scope /\ Restores(k, i)
             => /\ SizeAt(i) = RestoreSize(saved[k])
                /\ SizeAt(i) \in Nat /\ SizeAt(i) <= size
<1> SUFFICES ASSUME NEW i \in Level, NEW k \in DOMAIN saved, i < scope, Restores(k, i)
             PROVE  /\ SizeAt(i) = RestoreSize(saved[k])
                    /\ SizeAt(i) \in Nat /\ SizeAt(i) <= size
  OBVIOUS
<1> DEFINE n == Len(saved)
           I == {j \in 1 .. n : saved[j].scope <= i}
<1>1. /\ n \in Nat /\ DOMAIN saved = 1 .. n /\ k \in 1 .. n
      /\ \A j \in 1 .. n : saved[j].scope \in Nat /\ saved[j].size \in Nat
                           /\ saved[j].pushFronts \in Nat
  BY SavedFields DEF IInv
<1>2. i \in Nat /\ scope \in Nat /\ size \in Nat /\ pushFronts \in Nat
  BY Basics DEF Level
<1>3. \A j \in 1 .. n : saved[j].scope <= i => j <= k
  <2> SUFFICES ASSUME NEW j \in 1 .. n, j > k PROVE i < saved[j].scope
    BY <1>1, <1>2
  <2>1. k # n /\ k + 1 \in 1 .. n
    BY <1>1
  <2>2. i < saved[k + 1].scope
    BY <2>1 DEF Restores, After
  <2>3. CASE j = k + 1
    BY <2>2, <2>3
  <2>4. CASE j # k + 1
    <3>1. k + 1 \in 1 .. j - 1
      BY <1>1, <2>4
    <3>2. saved[k + 1].scope < saved[j].scope
      BY <1>1, <3>1 DEF Ordered, Grows
    <3>3. QED
      BY <1>1, <1>2, <2>1, <2>2, <3>2
  <2>5. QED
    BY <2>3, <2>4
<1>4. k \in I /\ \A j \in I : k >= j
  BY <1>1, <1>3 DEF Restores
<1>5. Max(I) = k
  <2>1. \A x \in I : (\A y \in I : x >= y) => x = k
    BY <1>1, <1>4
  <2> HIDE DEF I
  <2>2. QED
    BY <1>4, <2>1 DEF Max
<1>6. SizeAt(i) = RestoreSize(saved[k])
  <2>1. ~ (scope <= i)
    BY <1>2
  <2>2. I # {}
    BY <1>4
  <2>3. QED
    BY <1>5, <2>1, <2>2 DEF SizeAt, SelectLastInSeq
<1>7. Grows(saved[k], Live) /\ saved[k].pushFronts <= saved[k].size
  BY DEF Ordered, IInv, CopiesCount
<1>8. /\ saved[k].pushFronts <= pushFronts
      /\ saved[k].size - saved[k].pushFronts <= size - pushFronts
  BY <1>7 DEF Grows, Live
<1>9. saved[k].size \in Nat /\ saved[k].pushFronts \in Nat
  BY <1>1
<1>10. RestoreSize(saved[k]) \in Nat /\ RestoreSize(saved[k]) <= size
  <2>1. RestoreSize(saved[k]) = saved[k].size + (pushFronts - saved[k].pushFronts)
    BY DEF RestoreSize
  <2>2. QED
    BY <1>2, <1>7, <1>8, <1>9, <2>1
<1>11. QED
  BY <1>6, <1>10

LEMMA SizesAreInRange ==
  ASSUME RInv
  PROVE  \A i \in Level : SizeAt(i) \in Nat /\ SizeAt(i) <= size /\ (scope <= i => SizeAt(i) = size)
<1> SUFFICES ASSUME NEW i \in Level
             PROVE SizeAt(i) \in Nat /\ SizeAt(i) <= size /\ (scope <= i => SizeAt(i) = size)
  OBVIOUS
<1>1. scope \in Nat /\ size \in Nat /\ i \in Nat
  BY Basics DEF RInv, Level
<1>2. CASE scope <= i
  BY <1>1, <1>2 DEF SizeAt
<1>3. CASE i < scope
  <2>1. PICK k \in DOMAIN saved : Restores(k, i)
    BY <1>3 DEF RInv, Restorable
  <2>2. QED
    BY <1>1, <1>3, <2>1, ChosenCopy DEF RInv
<1>4. QED
  BY <1>1, <1>2, <1>3

(* An insertion, at either end, makes the map of each level below longer   *)
(* by the insertions at level zero, and the one of the level by one key.   *)
LEMMA InsertionSizes ==
  ASSUME MaxLevel \in Nat, RInv, MakeCurrent,
         level' = level, size' = size + 1,
         keys' \in Seq(Key \X Data), Len(keys') = Len(keys) + 1,
         pushFronts' \in {pushFronts, pushFronts + 1}
  PROVE  /\ RInv'
         /\ \A i \in Level :
              SizeAt(i)' = IF i < level THEN SizeAt(i) + (pushFronts' - pushFronts)
                           ELSE size + 1
<1> DEFINE n == Len(saved)
<1>0. IInv /\ Ordered /\ Restorable
  BY DEF RInv
<1>1. IInv'
  BY <1>0, InsertionKeeps
<1>2. /\ n \in Nat /\ DOMAIN saved = 1 .. n
      /\ \A j \in 1 .. n : saved[j].scope \in Nat /\ saved[j].size \in Nat
                           /\ saved[j].pushFronts \in Nat
  BY <1>0, SavedFields DEF IInv
<1>3. /\ level \in Nat /\ scope \in Nat /\ scope <= level /\ size \in Nat
      /\ pushFronts \in Nat
      /\ Live.scope = scope /\ Live.size = size /\ Live.pushFronts = pushFronts
  BY <1>0, Basics
<1>4. /\ scope' = level
      /\ Live'.scope = scope' /\ Live'.size = size' /\ Live'.pushFronts = pushFronts'
  BY DEF MakeCurrent, Live
<1>5. /\ pushFronts <= pushFronts' /\ size - pushFronts <= size' - pushFronts'
      /\ pushFronts' \in Nat /\ size' \in Nat
  <2>1. CASE pushFronts' = pushFronts
    BY <1>3, <2>1
  <2>2. CASE pushFronts' = pushFronts + 1
    BY <1>3, <2>2
  <2>3. QED
    BY <2>1, <2>2
\* The copies there are now: those there were, and perhaps the map itself.
<1>6. \/ scope = level /\ saved' = saved
      \/ /\ scope < level /\ Len(saved') = n + 1 /\ DOMAIN saved' = 1 .. n + 1
         /\ saved'[n + 1] = Live /\ \A j \in 1 .. n : saved'[j] = saved[j]
  <2>1. CASE scope = level
    BY <2>1 DEF MakeCurrent
  <2>2. CASE scope # level
    <3>1. saved' = Append(saved, Live) /\ scope < level
      BY <1>3, <2>2 DEF MakeCurrent, Live
    <3>2. Live \in Copy /\ saved \in Seq(Copy)
      BY <1>0, <1>3, SavedFields DEF Live, Copy, Level, IInv, TypeOK
    <3>3. QED
      BY <3>1, <3>2, AppendFacts
  <2>3. QED
    BY <2>1, <2>2
<1>7. \A j \in 1 .. n : saved'[j] = saved[j] /\ j \in DOMAIN saved'
                        /\ Grows(saved[j], Live) /\ Grows(saved[j], Live')
  <2> SUFFICES ASSUME NEW j \in 1 .. n
               PROVE  saved'[j] = saved[j] /\ j \in DOMAIN saved'
                      /\ Grows(saved[j], Live) /\ Grows(saved[j], Live')
    OBVIOUS
  <2>1. Grows(saved[j], Live)
    BY <1>0, <1>2 DEF Ordered
  <2>2. saved[j].scope \in Nat /\ saved[j].size \in Nat /\ saved[j].pushFronts \in Nat
    BY <1>2
  <2>3. Grows(saved[j], Live')
    <3>1. /\ saved[j].scope < scope /\ saved[j].pushFronts <= pushFronts
          /\ saved[j].size - saved[j].pushFronts <= size - pushFronts
      BY <1>3, <2>1 DEF Grows
    <3>2. scope' \in Nat /\ scope <= scope'
      BY <1>3, <1>4
    <3>3. saved[j].scope < scope' /\ saved[j].pushFronts <= pushFronts'
      BY <1>3, <1>5, <2>2, <3>1, <3>2
    <3>4. saved[j].size - saved[j].pushFronts <= size' - pushFronts'
      <4>1. \A a, b, c, d, e, f \in Nat : a - b <= c - d /\ c - d <= e - f => a - b <= e - f
        OBVIOUS
      <4>2. size - pushFronts <= size' - pushFronts' /\ size' \in Nat /\ pushFronts' \in Nat
        BY <1>5
      <4>3. /\ size \in Nat /\ pushFronts \in Nat
            /\ saved[j].size - saved[j].pushFronts <= size - pushFronts
        BY <1>3, <3>1
      <4> DEFINE a == saved[j].size
                 b == saved[j].pushFronts
                 e == size'
                 f == pushFronts'
      <4>4. /\ a \in Nat /\ b \in Nat /\ e \in Nat /\ f \in Nat
            /\ a - b <= size - pushFronts /\ size - pushFronts <= e - f
        BY <2>2, <4>2, <4>3
      <4> HIDE DEF a, b, e, f
      <4>5. a - b <= e - f
        BY <4>1, <4>3, <4>4
      <4>6. QED
        BY <4>5 DEF a, b, e, f
    <3>5. QED
      BY <1>4, <3>3, <3>4 DEF Grows
  <2>4. saved'[j] = saved[j] /\ j \in DOMAIN saved'
    BY <1>2, <1>6
  <2>5. QED
    BY <2>1, <2>3, <2>4
<1>8. Ordered'
  <2>1. CASE scope = level /\ saved' = saved
    BY <1>0, <1>2, <1>7, <2>1 DEF Ordered
  <2>2. CASE /\ scope < level /\ Len(saved') = n + 1 /\ DOMAIN saved' = 1 .. n + 1
             /\ saved'[n + 1] = Live
    <3>1. Grows(Live, Live')
      BY <1>3, <1>4, <1>5, <2>2 DEF Grows
    <3> SUFFICES ASSUME NEW k \in 1 .. n + 1
                 PROVE  /\ Grows(saved'[k], Live')
                        /\ \A j \in 1 .. k - 1 : Grows(saved'[j], saved'[k])
      BY <2>2 DEF Ordered, Grows
    <3>2. CASE k = n + 1
      <4>1. \A j \in 1 .. k - 1 : Grows(saved'[j], saved'[k])
        BY <1>2, <1>7, <2>2, <3>2
      <4>2. QED
        BY <2>2, <3>1, <3>2, <4>1
    <3>3. CASE k \in 1 .. n
      <4>1. \A j \in 1 .. k - 1 : j \in 1 .. n
        BY <1>2, <3>3
      <4>2. \A j \in 1 .. k - 1 : Grows(saved[j], saved[k])
        BY <1>0, <1>2, <3>3 DEF Ordered
      <4>3. QED
        BY <1>7, <3>3, <4>1, <4>2
    <3>4. QED
      BY <1>2, <3>2, <3>3
  <2>3. QED
    BY <1>6, <2>1, <2>2
\* The copy of a level below: the one it had, or the one just made.
<1>9. ASSUME NEW i \in Level, i < level
      PROVE  \E k \in DOMAIN saved' :
               Restores(k, i)' /\ RestoreSize(saved[k])' = SizeAt(i) + (pushFronts' - pushFronts)
  <2>0. i \in Nat
    BY DEF Level
  <2>1. CASE i < scope
    <3>1. PICK k \in DOMAIN saved : Restores(k, i)
      BY <1>0, <2>1 DEF Restorable
    <3>2. k \in 1 .. n /\ saved[k].scope <= i /\ i < After(k).scope
      BY <1>2, <3>1 DEF Restores
    <3>3. saved'[k] = saved[k] /\ k \in DOMAIN saved'
      BY <1>7, <3>2
    <3>4. After(k)'.scope = After(k).scope \/ (After(k)' = Live' /\ i < Live'.scope)
      <4>1. CASE scope = level /\ saved' = saved
        BY <1>3, <1>4, <2>1, <4>1 DEF After
      <4>2. CASE /\ scope < level /\ Len(saved') = n + 1 /\ DOMAIN saved' = 1 .. n + 1
                 /\ saved'[n + 1] = Live
        <5>1. After(k)' = saved'[k + 1]
          BY <1>2, <3>2, <4>2 DEF After
        <5>2. CASE k = n
          BY <4>2, <5>1, <5>2 DEF After
        <5>3. CASE k # n
          <6>1. k + 1 \in 1 .. n
            BY <1>2, <3>2, <5>3
          <6>2. QED
            BY <1>7, <5>1, <5>3, <6>1 DEF After
        <5>4. QED
          BY <5>2, <5>3
      <4>3. QED
        BY <1>6, <4>1, <4>2
    <3>5. Restores(k, i)'
      BY <3>2, <3>3, <3>4 DEF Restores
    <3>6. SizeAt(i) = RestoreSize(saved[k])
      BY <1>0, <2>1, <3>1, ChosenCopy
    <3>7. saved[k].size \in Nat /\ saved[k].pushFronts \in Nat
      BY <1>2, <3>2
    <3>8. RestoreSize(saved[k])' = SizeAt(i) + (pushFronts' - pushFronts)
      BY <1>3, <1>5, <3>3, <3>6, <3>7 DEF RestoreSize
    <3>9. QED
      BY <3>3, <3>5, <3>8
  <2>2. CASE scope <= i
    <3>1. /\ Len(saved') = n + 1 /\ DOMAIN saved' = 1 .. n + 1 /\ saved'[n + 1] = Live
      BY <1>3, <1>6, <1>9, <2>0, <2>2
    <3>2. PICK m \in Nat : m = n + 1
      BY <1>2
    <3>3. m \in DOMAIN saved' /\ saved'[m] = Live /\ m = Len(saved')
      BY <1>2, <3>1, <3>2
    <3>4. Restores(m, i)'
      <4>1. After(m)' = Live'
        BY <3>3 DEF After
      <4>2. QED
        BY <1>3, <1>4, <1>9, <2>2, <3>3, <4>1 DEF Restores
    <3>5. SizeAt(i) = size
      BY <2>2 DEF SizeAt
    <3>6. RestoreSize(saved[m])' = SizeAt(i) + (pushFronts' - pushFronts)
      <4>1. RestoreSize(saved[m])' = size + (pushFronts' - pushFronts)
        BY <1>3, <3>3 DEF RestoreSize
      <4>2. QED
        BY <3>5, <4>1
    <3>7. QED
      BY <3>3, <3>4, <3>6
  <2>3. QED
    BY <1>3, <2>0, <2>1, <2>2
<1>10. Restorable'
  BY <1>4, <1>9 DEF Restorable
<1>11. (IInv /\ Ordered
          => \A i \in Level : \A k \in DOMAIN saved :
               i < scope /\ Restores(k, i)
                 => /\ SizeAt(i) = RestoreSize(saved[k])
                    /\ SizeAt(i) \in Nat /\ SizeAt(i) <= size)'
  BY ChosenCopy, PTL
<1>12. \A i \in Level : i < level => SizeAt(i)' = SizeAt(i) + (pushFronts' - pushFronts)
  BY <1>1, <1>4, <1>8, <1>9, <1>11
<1>13. \A i \in Level : ~ (i < level) => SizeAt(i)' = size + 1
  <2> SUFFICES ASSUME NEW i \in Level, ~ (i < level) PROVE SizeAt(i)' = size + 1
    OBVIOUS
  <2>1. level <= i
    BY <1>3 DEF Level
  <2>2. QED
    BY <1>4, <2>1 DEF SizeAt
<1>14. QED
  BY <1>1, <1>8, <1>10, <1>12, <1>13 DEF RInv

(* The entries of a level are the first keys of the list, as many as it    *)
(* counts.                                                                 *)
LEMMA EntriesOfKeys ==
  ASSUME RInv
  PROVE  \A i \in Level : i <= level => /\ EntriesAt(i) = {keys[j] : j \in 1 .. SizeAt(i)}
                                        /\ \A j \in 1 .. SizeAt(i) : j \in 1 .. size
<1> SUFFICES ASSUME NEW i \in Level, i <= level
             PROVE  /\ EntriesAt(i) = {keys[j] : j \in 1 .. SizeAt(i)}
                    /\ \A j \in 1 .. SizeAt(i) : j \in 1 .. size
  OBVIOUS
<1>1. level \in Nat /\ i \in Nat /\ size \in Nat
  BY Basics DEF RInv, Level
<1>2. SizeAt(i) \in Nat /\ SizeAt(i) <= size
  BY SizesAreInRange
<1>3. QED
  BY <1>1, <1>2 DEF EntriesAt

(* A new key goes to the back, which only the current level sees.          *)
LEMMA InsertImplements ==
  ASSUME MaxLevel \in Nat, RInv, NEW k \in Key, NEW d \in Data, Insert(k, d)
  PROVE  RInv' /\ Abs!Insert(k, d)
<1>0. IInv
  BY DEF RInv
<1>1. /\ level \in Nat /\ level \in Level /\ scope <= level /\ size \in Nat
      /\ keys \in Seq(Key \X Data) /\ Len(keys) = size /\ DOMAIN keys = 1 .. size
  BY <1>0, Basics
<1>2. /\ ~ Mapped(k) /\ level' = level /\ size' = size + 1 /\ pushFronts' = pushFronts
      /\ MakeCurrent /\ keys' = Append(keys, <<k, d>>)
  BY DEF Insert
<1>3. <<k, d>> \in Key \X Data
  OBVIOUS
<1>4. /\ keys' \in Seq(Key \X Data) /\ Len(keys') = Len(keys) + 1
      /\ keys'[size + 1] = <<k, d>> /\ \A j \in 1 .. size : keys'[j] = keys[j]
  BY <1>1, <1>2, <1>3, AppendFacts
<1>5. /\ RInv'
      /\ \A i \in Level : SizeAt(i)' = IF i < level THEN SizeAt(i) + (pushFronts' - pushFronts)
                                       ELSE size + 1
  BY <1>2, <1>4, InsertionSizes
<1>6. pushFronts \in Nat
  BY <1>0, Basics
<1>7. \A i \in Level : SizeAt(i) \in Nat /\ (scope <= i => SizeAt(i) = size)
  BY SizesAreInRange
<1>8. \A i \in Level : SizeAt(i)' = IF i < level THEN SizeAt(i) ELSE size + 1
  BY <1>2, <1>5, <1>6, <1>7
<1>9. ASSUME NEW i \in Level, i < level
      PROVE  EntriesAt(i)' = EntriesAt(i)
  <2>1. i <= level /\ i \in Nat
    BY <1>1, <1>9 DEF Level
  <2>2. /\ EntriesAt(i) = {keys[j] : j \in 1 .. SizeAt(i)}
        /\ \A j \in 1 .. SizeAt(i) : j \in 1 .. size
    BY <2>1, EntriesOfKeys
  <2>3. EntriesAt(i)' = {keys'[j] : j \in 1 .. SizeAt(i)}
    <3>1. ~ (i > level') /\ SizeAt(i)' = SizeAt(i)
      BY <1>1, <1>2, <1>8, <1>9, <2>1
    <3>2. EntriesAt(i)' = {keys'[j] : j \in 1 .. SizeAt(i)'}
      BY <3>1 DEF EntriesAt
    <3>3. QED
      BY <3>1, <3>2
  <2>4. QED
    BY <1>4, <2>2, <2>3
<1>10. EntriesAt(level) = {keys[j] : j \in 1 .. size}
  BY <1>1, <1>7, EntriesOfKeys
<1>11. ASSUME NEW i \in Level, i = level
       PROVE  EntriesAt(i)' = {keys'[j] : j \in 1 .. size + 1}
  <2>1. ~ (i > level') /\ SizeAt(i)' = size + 1
    BY <1>1, <1>2, <1>8, <1>11
  <2>2. EntriesAt(i)' = {keys'[j] : j \in 1 .. SizeAt(i)'}
    BY <2>1 DEF EntriesAt
  <2>3. QED
    BY <2>1, <2>2
<1>12. \A e \in EntriesAt(level) : e[1] # k
  BY <1>1, <1>2, <1>10 DEF Mapped
<1>13. ASSUME NEW i \in Level, i = level
       PROVE  EntriesAt(i)' = {e \in EntriesAt(level) : e[1] # k} \cup {<<k, d>>}
  <2>1. \A j : j \in 1 .. size + 1 <=> j \in 1 .. size \/ j = size + 1
    BY <1>1
  <2>2. {keys'[j] : j \in 1 .. size + 1} = {keys[j] : j \in 1 .. size} \cup {<<k, d>>}
    BY <1>4, <2>1
  <2>3. EntriesAt(i)' = EntriesAt(level) \cup {<<k, d>>}
    BY <1>10, <1>11, <1>13, <2>2
  <2>4. {e \in EntriesAt(level) : e[1] # k} = EntriesAt(level)
    BY <1>12
  <2>5. QED
    BY <2>3, <2>4
<1>14. ASSUME NEW i \in Level, ~ (i <= level)
       PROVE  EntriesAt(i)' = EntriesAt(i)
  <2>1. i > level /\ i > level'
    BY <1>1, <1>2, <1>14 DEF Level
  <2>2. QED
    BY <2>1 DEF EntriesAt
<1>15. ASSUME NEW i \in Level
       PROVE  EntriesAt(i)' = IF i = level
                              THEN {e \in EntriesAt(level) : e[1] # k} \cup {<<k, d>>}
                              ELSE EntriesAt(i)
  <2>1. CASE i = level
    BY <1>13, <2>1
  <2>2. CASE i < level
    BY <1>1, <1>9, <2>2
  <2>3. CASE ~ (i <= level)
    BY <1>1, <1>14, <2>3
  <2>4. QED
    BY <1>1, <2>1, <2>2, <2>3 DEF Level
<1>16. [i \in Level |-> EntriesAt(i)]' =
       [[i \in Level |-> EntriesAt(i)] EXCEPT
          ![level] = {e \in @ : e[1] # k} \cup {<<k, d>>}]
  BY <1>1, <1>15
<1>17. QED
  BY <1>2, <1>5, <1>16 DEF Abs!Insert

(* A key that goes to the front moves all others by one, and every level   *)
(* counts one more.                                                        *)
LEMMA InsertAtContextLevelZeroImplements ==
  ASSUME MaxLevel \in Nat, RInv, NEW k \in Key, NEW d \in Data,
         InsertAtContextLevelZero(k, d)
  PROVE  RInv' /\ Abs!InsertAtContextLevelZero(k, d)
<1>0. IInv
  BY DEF RInv
<1>1. /\ level \in Nat /\ level \in Level /\ scope <= level /\ size \in Nat
      /\ keys \in Seq(Key \X Data) /\ Len(keys) = size /\ DOMAIN keys = 1 .. size
      /\ pushFronts \in Nat
  BY <1>0, Basics
<1>2. /\ ~ Mapped(k) /\ level' = level /\ size' = size + 1 /\ pushFronts' = pushFronts + 1
      /\ MakeCurrent /\ keys' = <<<<k, d>>>> \o keys
  BY DEF InsertAtContextLevelZero
<1>3. <<<<k, d>>>> \in Seq(Key \X Data) /\ Len(<<<<k, d>>>>) = 1
  OBVIOUS
<1>4. /\ keys' \in Seq(Key \X Data) /\ Len(keys') = Len(keys) + 1
      /\ keys'[1] = <<k, d>> /\ \A j \in 1 .. size : keys'[j + 1] = keys[j]
  BY <1>1, <1>2, <1>3
<1>5. /\ RInv'
      /\ \A i \in Level : SizeAt(i)' = IF i < level THEN SizeAt(i) + (pushFronts' - pushFronts)
                                       ELSE size + 1
  BY <1>2, <1>4, InsertionSizes
<1>7. \A i \in Level : SizeAt(i) \in Nat /\ (scope <= i => SizeAt(i) = size)
  BY SizesAreInRange
<1>8. \A i \in Level : i <= level => SizeAt(i)' = SizeAt(i) + 1
  BY <1>1, <1>2, <1>5, <1>7 DEF Level
<1>9. ASSUME NEW i \in Level, i <= level
      PROVE  EntriesAt(i)' = EntriesAt(i) \cup {<<k, d>>}
  <2>1. i \in Nat
    BY DEF Level
  <2> DEFINE m == SizeAt(i)
  <2>2. /\ m \in Nat /\ EntriesAt(i) = {keys[j] : j \in 1 .. m}
        /\ \A j \in 1 .. m : j \in 1 .. size
    BY <1>7, <1>9, EntriesOfKeys
  <2>3. EntriesAt(i)' = {keys'[j] : j \in 1 .. m + 1}
    <3>1. ~ (i > level') /\ SizeAt(i)' = m + 1
      BY <1>1, <1>2, <1>8, <1>9, <2>1
    <3>2. EntriesAt(i)' = {keys'[j] : j \in 1 .. SizeAt(i)'}
      BY <3>1 DEF EntriesAt
    <3>3. QED
      BY <3>1, <3>2
  <2> HIDE DEF m
  <2>4. \A j \in 1 .. m + 1 : keys'[j] = <<k, d>> \/ (j - 1 \in 1 .. m /\ keys'[j] = keys[j - 1])
    <3> SUFFICES ASSUME NEW j \in 1 .. m + 1, j # 1
                 PROVE  j - 1 \in 1 .. m /\ keys'[j] = keys[j - 1]
      BY <1>4
    <3>1. j - 1 \in 1 .. m /\ (j - 1) + 1 = j
      BY <2>2
    <3>2. QED
      BY <1>4, <2>2, <3>1
  <2>5. 1 \in 1 .. m + 1 /\ \A j \in 1 .. m : j + 1 \in 1 .. m + 1 /\ keys'[j + 1] = keys[j]
    BY <1>4, <2>2
  <2>6. {keys'[j] : j \in 1 .. m + 1} = {keys[j] : j \in 1 .. m} \cup {<<k, d>>}
    <3>1. \A x \in {keys'[j] : j \in 1 .. m + 1} : x \in {keys[j] : j \in 1 .. m} \cup {<<k, d>>}
      BY <2>4
    <3>2. \A x \in {keys[j] : j \in 1 .. m} : x \in {keys'[j] : j \in 1 .. m + 1}
      BY <2>5
    <3>3. <<k, d>> \in {keys'[j] : j \in 1 .. m + 1}
      BY <1>4, <2>5
    <3>4. QED
      BY <3>1, <3>2, <3>3
  <2>7. QED
    BY <2>2, <2>3, <2>6
<1>10. EntriesAt(level) = {keys[j] : j \in 1 .. size}
  BY <1>1, <1>7, EntriesOfKeys
<1>11. \A e \in EntriesAt(level) : e[1] # k
  BY <1>1, <1>2, <1>10 DEF Mapped
<1>12. ~ Abs!Contains(k)
  <2> SUFFICES ASSUME NEW x \in Data, <<k, x>> \in EntriesAt(level) PROVE FALSE
    BY <1>1 DEF Abs!Contains
  <2>1. <<k, x>>[1] # k
    BY <1>11
  <2>2. QED
    BY <2>1
<1>13. ASSUME NEW i \in Level
       PROVE  EntriesAt(i)' = IF i <= level THEN EntriesAt(i) \cup {<<k, d>>} ELSE {}
  <2>1. CASE i <= level
    BY <1>9, <2>1
  <2>2. CASE ~ (i <= level)
    <3>1. i > level'
      BY <1>1, <1>2, <2>2 DEF Level
    <3>2. QED
      BY <2>2, <3>1 DEF EntriesAt
  <2>3. QED
    BY <2>1, <2>2
<1>14. [i \in Level |-> EntriesAt(i)]' =
       [i \in Level |-> IF i <= level THEN EntriesAt(i) \cup {<<k, d>>} ELSE {}]
  BY <1>13
<1>15. QED
  BY <1>2, <1>5, <1>12, <1>14 DEF Abs!InsertAtContextLevelZero, Abs!Level, Level

LEMMA SizesStutter ==
  ASSUME UNCHANGED <<scope, size, pushFronts, saved>>
  PROVE  \A i \in Level : SizeAt(i)' = SizeAt(i)
BY DEF SizeAt, RestoreSize, SelectLastInSeq

LEMMA PushImplements ==
  ASSUME MaxLevel \in Nat, RInv, Push
  PROVE  RInv' /\ Abs!Push
<1>0. IInv
  BY DEF RInv
<1>1. /\ level \in Nat /\ level \in Level /\ scope \in Nat /\ scope <= level
      /\ level < MaxLevel /\ level' = level + 1
      /\ UNCHANGED <<scope, keys, size, pushFronts, saved>>
  BY <1>0, Basics DEF Push
<1>2. [Next]_vars
  BY DEF Next
<1>3. RInv'
  BY <1>0, <1>1, <1>2, NextKeeps DEF RInv, Ordered, Restorable, Restores, After, Live
<1>4. level + 1 \in Level
  BY <1>1 DEF Level
<1>5. \A i \in Level : SizeAt(i)' = SizeAt(i)
  BY <1>1, SizesStutter
<1>6. ASSUME NEW i \in Level, i # level + 1
      PROVE  EntriesAt(i)' = EntriesAt(i)
  <2>1. i > level' <=> i > level
    BY <1>1, <1>6 DEF Level
  <2>2. EntriesAt(i)' = IF i > level' THEN {} ELSE {keys[j] : j \in 1 .. SizeAt(i)'}
    BY <1>1 DEF EntriesAt
  <2>3. QED
    BY <1>5, <2>1, <2>2 DEF EntriesAt
<1>7. ASSUME NEW i \in Level, i = level + 1
      PROVE  EntriesAt(i)' = EntriesAt(level)
  <2>1. ~ (i > level') /\ scope <= i
    BY <1>1, <1>7
  <2>2. SizeAt(i) = size /\ SizeAt(level) = size
    BY <1>1, <1>7, <2>1 DEF SizeAt
  <2>3. EntriesAt(i)' = {keys[j] : j \in 1 .. SizeAt(i)'}
    BY <1>1, <2>1 DEF EntriesAt
  <2>4. EntriesAt(level) = {keys[j] : j \in 1 .. SizeAt(level)}
    BY <1>1 DEF EntriesAt
  <2>5. QED
    BY <1>5, <2>2, <2>3, <2>4
<1>8. [i \in Level |-> EntriesAt(i)]' =
        [[i \in Level |-> EntriesAt(i)] EXCEPT ![level + 1] = [i \in Level |-> EntriesAt(i)][level]]
  BY <1>1, <1>4, <1>6, <1>7
<1>9. QED
  BY <1>1, <1>3, <1>8 DEF Abs!Push

(* A pop cuts the list at the keys of the level it goes back to, and what  *)
(* the levels below count is no more than that.                            *)
LEMMA PopImplements ==
  ASSUME MaxLevel \in Nat, RInv, Pop
  PROVE  RInv' /\ Abs!Pop
<1> DEFINE n == Len(saved)
<1>0. IInv /\ Ordered /\ Restorable
  BY DEF RInv
<1>1. /\ level \in Nat /\ level \in Level /\ scope \in Nat /\ scope <= level
      /\ size \in Nat /\ pushFronts \in Nat /\ keys \in Seq(Key \X Data) /\ Len(keys) = size
      /\ Live.scope = scope
  BY <1>0, Basics
<1>2. level > 0 /\ level' = level - 1 /\ pushFronts' = pushFronts
  BY DEF Pop
<1>3. IInv'
  BY <1>0, PopKeeps
\* The maps of the levels that remain.
<1>4. /\ Ordered' /\ Restorable'
      /\ \A i \in Level : i < level =>
           SizeAt(i)' = SizeAt(i) /\ \A j \in 1 .. SizeAt(i) : keys'[j] = keys[j]
  <2>1. CASE scope < level
    <3>1. UNCHANGED <<scope, keys, size, pushFronts, saved>>
      BY <2>1 DEF Pop
    <3>2. QED
      BY <1>0, <3>1, SizesStutter DEF Ordered, Restorable, Restores, After, Live, Grows
  <2>2. CASE ~ (scope < level)
    <3>0. scope = level /\ saved # <<>>
      BY <1>0, <1>1, <1>2, <2>2 DEF IInv, CopiesCount
    <3>1. /\ n \in Nat /\ n > 0 /\ DOMAIN saved = 1 .. n /\ saved \in Seq(Copy)
          /\ \A j \in 1 .. n : saved[j].scope \in Nat /\ saved[j].size \in Nat
                               /\ saved[j].pushFronts \in Nat
      BY <1>0, <3>0, SavedFields DEF IInv
    <3>2. PICK m \in 1 .. n : m = n
      <4>1. n \in 1 .. n
        BY <3>1
      <4>2. QED
        BY <4>1
    <3>3. /\ Last(saved) = saved[m] /\ saved' = Front(saved)
          /\ size' = RestoreSize(saved[m]) /\ scope' = saved[m].scope
          /\ keys' = SubSeq(keys, 1, RestoreSize(saved[m]))
      BY <2>2, <3>0, <3>1, <3>2, FrontFacts DEF Pop
    <3>4. /\ Len(saved') = m - 1 /\ DOMAIN saved' = 1 .. m - 1
          /\ \A j \in 1 .. m - 1 : saved'[j] = saved[j]
      BY <3>0, <3>1, <3>2, <3>3, FrontFacts
    <3>5. /\ Live'.scope = saved[m].scope /\ Live'.pushFronts = pushFronts
          /\ Live'.size = saved[m].size + (pushFronts - saved[m].pushFronts)
      BY <1>2, <3>3 DEF Live, RestoreSize
    <3> HIDE DEF n
    <3>6. /\ Grows(saved[m], Live) /\ \A j \in 1 .. m - 1 : Grows(saved[j], saved[m])
          /\ \A k \in 1 .. m : \A j \in 1 .. k - 1 : Grows(saved[j], saved[k])
      BY <1>0, <3>1, <3>2 DEF Ordered
    <3>7. saved[m].pushFronts <= pushFronts
      BY <3>6 DEF Grows, Live
    <3>8. \A j \in 1 .. m - 1 : Grows(saved[j], Live')
      <4> SUFFICES ASSUME NEW j \in 1 .. m - 1 PROVE Grows(saved[j], Live')
        OBVIOUS
      <4>1. j \in 1 .. n /\ Grows(saved[j], saved[m])
        BY <3>1, <3>2, <3>6
      <4>2. /\ saved[j].scope \in Nat /\ saved[j].size \in Nat /\ saved[j].pushFronts \in Nat
            /\ saved[m].scope \in Nat /\ saved[m].size \in Nat /\ saved[m].pushFronts \in Nat
        BY <3>1, <4>1
      <4>3. /\ saved[j].scope < saved[m].scope /\ saved[j].pushFronts <= saved[m].pushFronts
            /\ saved[j].size - saved[j].pushFronts <= saved[m].size - saved[m].pushFronts
        BY <4>1 DEF Grows
      <4>4. /\ saved[j].scope < Live'.scope /\ saved[j].pushFronts <= Live'.pushFronts
        BY <1>1, <3>5, <3>7, <4>2, <4>3
      <4>5. saved[j].size - saved[j].pushFronts <= Live'.size - Live'.pushFronts
        <5>1. \A a, b, c, d, e \in Nat : a - b <= c - d => a - b <= (c + (e - d)) - e
          OBVIOUS
        <5>2. QED
          BY <1>1, <3>5, <4>2, <4>3, <5>1
      <4>6. QED
        BY <4>4, <4>5 DEF Grows
    <3>9. Ordered'
      <4> SUFFICES ASSUME NEW k \in 1 .. m - 1
                   PROVE  /\ Grows(saved'[k], Live')
                          /\ \A j \in 1 .. k - 1 : Grows(saved'[j], saved'[k])
        BY <3>4 DEF Ordered, Grows
      <4>1. k \in 1 .. m /\ \A j \in 1 .. k - 1 : j \in 1 .. m - 1
        BY <3>1, <3>2
      <4>2. QED
        BY <3>4, <3>6, <3>8, <4>1
    \* A level below finds its copy again, or finds the map.
    <3>10. ASSUME NEW i \in Level, i < saved[m].scope
           PROVE  \E k \in DOMAIN saved' :
                    Restores(k, i)' /\ RestoreSize(saved[k])' = SizeAt(i)
      <4>1. i \in Nat /\ saved[m].scope \in Nat /\ saved[m].scope < scope
        BY <1>1, <3>1, <3>6 DEF Level, Grows
      <4>2. i < scope
        BY <1>1, <3>10, <4>1
      <4>3. PICK k \in DOMAIN saved : Restores(k, i)
        BY <1>0, <4>2 DEF Restorable
      <4>4. k \in 1 .. n /\ saved[k].scope <= i /\ i < After(k).scope
        BY <3>1, <4>3 DEF Restores
      <4>5. k # m
        BY <3>1, <3>10, <4>1, <4>4
      <4>6. k \in 1 .. m - 1
        BY <3>1, <3>2, <4>4, <4>5
      <4>7. After(k) = saved[k + 1]
        BY <3>2, <4>5 DEF After, n
      <4>8. After(k)'.scope = saved[k + 1].scope
        <5>1. CASE k = m - 1
          <6>1. After(k)' = Live' /\ k + 1 = m
            BY <3>1, <3>2, <3>4, <5>1 DEF After
          <6>2. QED
            BY <3>5, <6>1
        <5>2. CASE k # m - 1
          <6>0. m \in Nat
            BY <3>1, <3>2
          <6>1. k + 1 \in 1 .. m - 1
            BY <4>6, <5>2, <6>0
          <6>2. After(k)' = saved'[k + 1]
            BY <3>4, <5>2 DEF After
          <6>3. QED
            BY <3>4, <6>1, <6>2
        <5>3. QED
          BY <5>1, <5>2
      <4>9. k \in DOMAIN saved' /\ saved'[k] = saved[k]
        BY <3>4, <4>6
      <4>10. Restores(k, i)'
        BY <4>4, <4>7, <4>8, <4>9 DEF Restores
      <4>11. SizeAt(i) = RestoreSize(saved[k])
        BY <1>0, <4>2, <4>3, ChosenCopy
      <4>12. RestoreSize(saved[k])' = RestoreSize(saved[k])
        BY <1>2, <4>9 DEF RestoreSize
      <4>13. QED
        BY <4>9, <4>10, <4>11, <4>12
    <3>11. Restorable'
      BY <3>3, <3>10 DEF Restorable
    <3>12. (IInv /\ Ordered
              => \A i \in Level : \A k \in DOMAIN saved :
                   i < scope /\ Restores(k, i)
                     => /\ SizeAt(i) = RestoreSize(saved[k])
                        /\ SizeAt(i) \in Nat /\ SizeAt(i) <= size)'
      BY ChosenCopy, PTL
    <3>13. ASSUME NEW i \in Level, i < level
           PROVE  SizeAt(i)' = SizeAt(i)
      <4>1. i \in Nat /\ saved[m].scope \in Nat
        BY <3>1 DEF Level
      <4>2. CASE i < saved[m].scope
        BY <1>3, <3>3, <3>9, <3>10, <3>12, <4>2
      <4>3. CASE saved[m].scope <= i
        <5>1. After(m) = Live
          BY <3>2 DEF After, n
        <5>2. m \in DOMAIN saved /\ Restores(m, i) /\ i < scope
          BY <1>1, <3>0, <3>1, <3>13, <4>3, <5>1 DEF Restores
        <5>3. SizeAt(i) = RestoreSize(saved[m])
          BY <1>0, <5>2, ChosenCopy
        <5>4. SizeAt(i)' = size'
          BY <3>3, <4>3 DEF SizeAt
        <5>5. QED
          BY <3>3, <5>3, <5>4
      <4>4. QED
        BY <4>1, <4>2, <4>3
    <3>14. (RInv => \A i \in Level : SizeAt(i) \in Nat /\ SizeAt(i) <= size
                                     /\ (scope <= i => SizeAt(i) = size))'
      BY SizesAreInRange, PTL
    <3>15. RInv'
      BY <1>3, <3>9, <3>11 DEF RInv
    <3>16. ASSUME NEW i \in Level, i < level, NEW j \in 1 .. SizeAt(i)
           PROVE  keys'[j] = keys[j]
      <4>1. SizeAt(i) \in Nat /\ SizeAt(i) <= size'
        BY <3>13, <3>14, <3>15, <3>16
      <4>2. size' \in 0 .. size
        <5>1. \A a, b, c, d \in Nat : b <= c /\ a - b <= d - c => a + (c - b) <= d
          OBVIOUS
        <5>2. saved[m].size \in Nat /\ saved[m].pushFronts \in Nat
          BY <3>1
        <5>3. saved[m].size - saved[m].pushFronts <= size - pushFronts
          BY <3>6 DEF Grows, Live
        <5>4. size' <= size
          BY <1>1, <3>3, <3>7, <5>1, <5>2, <5>3 DEF RestoreSize
        <5>5. size' \in Nat
          BY <1>3 DEF IInv, TypeOK
        <5>6. QED
          BY <1>1, <5>4, <5>5
      <4>3. keys' = SubSeq(keys, 1, size')
        BY <3>3
      <4>4. \A x \in 1 .. size' : keys'[x] = keys[x]
        <5>1. PICK z \in 0 .. Len(keys) : z = size'
          BY <1>1, <4>2
        <5>2. QED
          BY <1>1, <4>3, <5>1, PrefixFacts
      <4>5. j \in 1 .. size'
        BY <4>1, <4>2
      <4>6. QED
        BY <4>4, <4>5
    <3>17. QED
      BY <3>9, <3>11, <3>13, <3>16
  <2>3. QED
    BY <2>1, <2>2
<1>5. ASSUME NEW i \in Level
      PROVE  EntriesAt(i)' = IF i = level THEN {} ELSE EntriesAt(i)
  <2>0. i \in Nat
    BY DEF Level
  <2>1. CASE i < level
    <3>1. ~ (i > level') /\ ~ (i > level) /\ i # level
      BY <1>1, <1>2, <2>0, <2>1
    <3>2. EntriesAt(i)' = {keys'[j] : j \in 1 .. SizeAt(i)'}
      BY <3>1 DEF EntriesAt
    <3>3. EntriesAt(i) = {keys[j] : j \in 1 .. SizeAt(i)}
      BY <3>1 DEF EntriesAt
    <3>4. SizeAt(i)' = SizeAt(i) /\ \A j \in 1 .. SizeAt(i) : keys'[j] = keys[j]
      BY <1>4, <2>1
    <3>5. QED
      BY <3>1, <3>2, <3>3, <3>4
  <2>2. CASE ~ (i < level)
    <3>1. i > level' /\ (i > level \/ i = level)
      BY <1>1, <1>2, <2>0, <2>2
    <3>2. QED
      BY <3>1 DEF EntriesAt
  <2>3. QED
    BY <2>1, <2>2
<1>6. [i \in Level |-> EntriesAt(i)]' = [[i \in Level |-> EntriesAt(i)] EXCEPT ![level] = {}]
  BY <1>1, <1>5
<1>7. QED
  BY <1>2, <1>3, <1>4, <1>6 DEF RInv, Abs!Pop

(* Every step keeps the invariant, and is a step or a stutter of the map   *)
(* that is copied at each push.                                            *)
LEMMA NextImplements ==
  ASSUME MaxLevel \in Nat, RInv, [Next]_vars
  PROVE  RInv' /\ [Abs!Next]_(Abs!mapVars)
<1>1. ASSUME NEW k \in Key, NEW d \in Data, Insert(k, d) PROVE RInv' /\ Abs!Next
  BY <1>1, InsertImplements DEF Abs!Next
<1>2. ASSUME NEW k \in Key, NEW d \in Data, InsertAtContextLevelZero(k, d)
      PROVE  RInv' /\ Abs!Next
  BY <1>2, InsertAtContextLevelZeroImplements DEF Abs!Next
<1>3. CASE Push
  BY <1>3, PushImplements DEF Abs!Next
<1>4. CASE Pop
  BY <1>4, PopImplements DEF Abs!Next
<1>5. CASE UNCHANGED vars
  <2>1. IInv'
    BY NextKeeps DEF RInv
  <2>2. RInv'
    BY <1>5, <2>1 DEF vars, RInv, Ordered, Restorable, Restores, After, Live, Grows
  <2>3. \A i \in Level : SizeAt(i)' = SizeAt(i)
    BY <1>5, SizesStutter DEF vars
  <2>4. \A i \in Level : EntriesAt(i)' = EntriesAt(i)
    BY <1>5, <2>3 DEF vars, EntriesAt
  <2>5. UNCHANGED Abs!mapVars
    BY <1>5, <2>4 DEF vars, Abs!mapVars
  <2>6. QED
    BY <2>2, <2>5
<1>6. QED
  BY <1>1, <1>2, <1>3, <1>4, <1>5 DEF Next

LEMMA InitImplements == ASSUME MaxLevel \in Nat, Init PROVE RInv /\ Abs!Init
<1>1. RInv
  BY InitIInv DEF Init, RInv, Ordered, Restorable, Level
<1>2. ASSUME NEW i \in Level PROVE EntriesAt(i) = {}
  BY DEF Init, EntriesAt, SizeAt, Level
<1>3. QED
  BY <1>1, <1>2 DEF Init, Abs!Init, Level, Abs!Level

(* The map that saves two counters implements a map that is copied at each *)
(* push of the context and put back at each pop.                           *)
THEOREM Implements == ASSUME MaxLevel \in Nat PROVE Spec => ImplementsMap
<1>1. Init => RInv /\ Abs!Init
  BY InitImplements
<1>2. RInv /\ [Next]_vars => RInv' /\ [Abs!Next]_(Abs!mapVars)
  BY NextImplements
<1>3. QED
  BY <1>1, <1>2, PTL DEF Spec, ImplementsMap, Abs!Spec

(* An insertion is seen by the current level and those above it, one at    *)
(* level zero by all.                                                      *)
THEOREM InsertionsCorrect == ASSUME MaxLevel \in Nat PROVE Spec => InsertionsCorrespond
<1>1. Init => RInv
  BY InitImplements
<1>2. RInv /\ [Next]_vars => RInv'
  BY NextImplements
<1>3. RInv => \A k \in Key, d \in Data :
                /\ Insert(k, d) => Abs!Insert(k, d)
                /\ InsertAtContextLevelZero(k, d) => Abs!InsertAtContextLevelZero(k, d)
  BY InsertImplements, InsertAtContextLevelZeroImplements
<1>4. QED
  BY <1>1, <1>2, <1>3, PTL DEF Spec, InsertionsCorrespond
===============================================================================
