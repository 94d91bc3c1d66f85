------------------------ MODULE DescriptorPoolsProofs ------------------------
(***************************************************************************)
(* Proofs about DescriptorPoolsHistory for every finite set of handles.    *)
(* WalkInv says what the walk of freeDescriptorSets knows of the sets it   *)
(* has passed; with it, that pools die without sets, and then that every   *)
(* set finds its entry, are inductive.                                     *)
(***************************************************************************)
EXTENDS DescriptorPoolsHistory, FiniteSetTheorems, SequenceTheorems, TLAPS

USE HandleAssumption, UuidAssumption

\* The sets a walk has passed since it last started over are not of its pool.
Passed == Len(walk.map) - Len(walk.rest)

Unrepeated(s) == \A i, j \in 1 .. Len(s) : i # j => s[i] # s[j]

WalkTypeOK ==
    walk \in [pool : Pool \cup {"none"}, map : Seq(Set), rest : Seq(Set), destroys : BOOLEAN]

WalkInv ==
    ~ LockFree =>
        /\ walk.pool \in pools /\ Passed \in Nat
        /\ \A i \in 1 .. Len(walk.rest) : walk.rest[i] = walk.map[i + Passed]
        /\ \A i \in 1 .. Passed : sets[walk.map[i]].pool # walk.pool
        /\ Unrepeated(walk.map)
        /\ \A d \in LiveSets : \E i \in 1 .. Len(walk.map) : walk.map[i] = d
        /\ \A i \in 1 .. Len(walk.map) : walk.map[i] \in LiveSets

HeldTypeOK == held \in [Pool -> [Uuid -> Int]]

PoolsInv ==
    /\ PoolsTypeOK /\ HeldTypeOK
    /\ EntriesForLiveSets /\ FreedCountIsShortfall /\ WalkTypeOK /\ WalkInv

-----------------------------------------------------------------------------
(* Sequences and sets.                                                       *)

\* An order of a set's elements has each of them once.
LEMMA OrderIsComplete ==
    ASSUME NEW S, IsFiniteSet(S), NEW order \in SetToSeqs(S)
    PROVE  /\ order \in Seq(S)
           /\ \A d \in S : \E i \in 1 .. Len(order) : order[i] = d
           /\ \A i, j \in 1 .. Len(order) : i # j => order[i] # order[j]
<1> DEFINE D == 1 .. Cardinality(S)
<1>1. Cardinality(S) \in Nat
  BY FS_CardinalityType
<1>2. order \in [D -> S] /\ \A i, j \in D : i # j => order[i] # order[j]
  BY DEF SetToSeqs
<1>3. order \in Injection(D, S)
  BY <1>2 DEF Injection, IsInjective
<1>4. IsFiniteSet(D) /\ Cardinality(D) = Cardinality(S)
  BY <1>1, FS_Interval
<1>5. order \in Surjection(D, S)
  BY <1>3, <1>4, FS_Injection
<1>6. \A d \in S : \E i \in D : order[i] = d
  BY <1>5 DEF Surjection
<1>7. order \in Seq(S) /\ Len(order) = Cardinality(S)
  BY <1>1, <1>2
<1> QED BY <1>2, <1>6, <1>7

\* What RemoveAt leaves.
LEMMA RemovedAt ==
    ASSUME NEW S, NEW s \in Seq(S), NEW i \in 1 .. Len(s)
    PROVE  /\ RemoveAt(s, i) \in Seq(S) /\ Len(RemoveAt(s, i)) = Len(s) - 1
           /\ \A j \in 1 .. Len(s) - 1 :
                  RemoveAt(s, i)[j] = IF j < i THEN s[j] ELSE s[j + 1]
<1> DEFINE a == SubSeq(s, 1, i - 1)
           b == SubSeq(s, i + 1, Len(s))
<1>1. a \in Seq(S) /\ Len(a) = i - 1 /\ \A j \in 1 .. i - 1 : a[j] = s[j]
  OBVIOUS
<1>2. b \in Seq(S) /\ Len(b) = Len(s) - i /\ \A j \in 1 .. Len(s) - i : b[j] = s[i + j]
  OBVIOUS
<1>3. RemoveAt(s, i) = a \o b
  BY DEF RemoveAt
<1> HIDE DEF a, b
<1>4. /\ a \o b \in Seq(S) /\ Len(a \o b) = Len(a) + Len(b)
      /\ \A j \in 1 .. Len(a) + Len(b) :
             (a \o b)[j] = IF j <= Len(a) THEN a[j] ELSE b[j - Len(a)]
  BY <1>1, <1>2, ConcatProperties
<1>5. Len(s) \in Nat
  OBVIOUS
<1>6. Len(a) + Len(b) = Len(s) - 1
  BY <1>1, <1>2, <1>5
<1>7. \A j \in 1 .. Len(s) - 1 : (a \o b)[j] = IF j < i THEN s[j] ELSE s[j + 1]
  <2> SUFFICES ASSUME NEW j \in 1 .. Len(s) - 1
               PROVE  (a \o b)[j] = IF j < i THEN s[j] ELSE s[j + 1]
    OBVIOUS
  <2>1. CASE j < i
    <3>1. (a \o b)[j] = a[j] /\ a[j] = s[j]
      BY <1>1, <1>4, <1>5, <1>6, <2>1
    <3> QED BY <2>1, <3>1
  <2>2. CASE ~(j < i)
    <3>1. (a \o b)[j] = b[j - (i - 1)] /\ j - (i - 1) \in 1 .. Len(s) - i
      BY <1>1, <1>4, <1>5, <1>6, <2>2
    <3>2. b[j - (i - 1)] = s[j + 1]
      BY <1>2, <1>5, <3>1
    <3> QED BY <2>2, <3>1, <3>2
  <2> QED BY <2>1, <2>2
<1> QED BY <1>3, <1>4, <1>6, <1>7

\* left has the other elements of s, and before k they stay where they are.
WithoutElement(s, k, left) ==
    /\ Len(left) = Len(s) - 1 /\ Unrepeated(left)
    /\ \A i \in 1 .. k - 1 : left[i] = s[i]
    /\ \A i \in 1 .. Len(left) : \E j \in 1 .. Len(s) : left[i] = s[j] /\ s[j] # s[k]
    /\ \A j \in 1 .. Len(s) : s[j] # s[k] => \E i \in 1 .. Len(left) : left[i] = s[j]

\* What RemoveAt leaves of a sequence without repetitions.
LEMMA RemovedElements ==
    ASSUME NEW S, NEW s \in Seq(S), NEW k \in 1 .. Len(s), Unrepeated(s)
    PROVE  RemoveAt(s, k) \in Seq(S) /\ WithoutElement(s, k, RemoveAt(s, k))
<1> DEFINE left == RemoveAt(s, k)
<1>1. PICK n \in Nat : n = Len(s)
  OBVIOUS
<1>2. /\ left \in Seq(S) /\ Len(left) = n - 1 /\ k \in 1 .. n
      /\ \A j \in 1 .. n - 1 : left[j] = IF j < k THEN s[j] ELSE s[j + 1]
      /\ \A i, j \in 1 .. n : i # j => s[i] # s[j]
  BY <1>1, RemovedAt DEF Unrepeated
<1> HIDE DEF left
<1>3. ASSUME NEW i \in 1 .. n - 1
      PROVE  \E j \in 1 .. n : j # k /\ left[i] = s[j] /\ j = IF i < k THEN i ELSE i + 1
  <2>1. CASE i < k
    BY <1>2, <2>1
  <2>2. CASE ~(i < k)
    <3>1. i + 1 \in 1 .. n /\ i + 1 # k
      BY <1>2, <2>2
    <3> QED BY <1>2, <2>2, <3>1
  <2> QED BY <2>1, <2>2
<1>4. \A i \in 1 .. n - 1 : \E j \in 1 .. n : left[i] = s[j] /\ s[j] # s[k]
  BY <1>2, <1>3
<1>5. ASSUME NEW j \in 1 .. n, s[j] # s[k] PROVE \E i \in 1 .. n - 1 : left[i] = s[j]
  <2>1. CASE j < k
    <3>1. j \in 1 .. n - 1
      BY <1>2, <2>1
    <3> QED BY <1>2, <2>1, <3>1
  <2>2. CASE j > k
    <3>1. j - 1 \in 1 .. n - 1 /\ ~(j - 1 < k) /\ (j - 1) + 1 = j
      BY <1>2, <2>2
    <3>2. left[j - 1] = s[j]
      BY <1>2, <3>1
    <3> QED BY <3>1, <3>2
  <2>3. j # k
    BY <1>5
  <2> QED BY <1>2, <2>1, <2>2, <2>3
<1>6. ASSUME NEW i \in 1 .. n - 1, NEW j \in 1 .. n - 1, i # j PROVE left[i] # left[j]
  <2>1. PICK a \in 1 .. n : left[i] = s[a] /\ a = IF i < k THEN i ELSE i + 1
    BY <1>3
  <2>2. PICK b \in 1 .. n : left[j] = s[b] /\ b = IF j < k THEN j ELSE j + 1
    BY <1>3
  <2>3. a # b
    BY <1>2, <1>6, <2>1, <2>2
  <2> QED BY <1>2, <2>1, <2>2, <2>3
<1>7. \A i \in 1 .. k - 1 : left[i] = s[i]
  <2> SUFFICES ASSUME NEW i \in 1 .. k - 1 PROVE left[i] = s[i]
    OBVIOUS
  <2>1. i \in 1 .. n - 1 /\ i < k
    BY <1>2
  <2> QED BY <1>2, <2>1
<1>8. Len(left) = Len(s) - 1
  BY <1>1, <1>2
<1>9. /\ \A i \in 1 .. Len(left) : \E j \in 1 .. Len(s) : left[i] = s[j] /\ s[j] # s[k]
      /\ \A j \in 1 .. Len(s) : s[j] # s[k] => \E i \in 1 .. Len(left) : left[i] = s[j]
      /\ \A i, j \in 1 .. Len(left) : i # j => left[i] # left[j]
  BY <1>1, <1>2, <1>4, <1>5, <1>6
<1> QED BY <1>2, <1>7, <1>8, <1>9 DEF left, Unrepeated, WithoutElement

\* The sets of a layout in a pool are finitely many.
LEMMA HeldFinite ==
    \A p, u : IsFiniteSet(HeldBy(p, u)) /\ Cardinality(HeldBy(p, u)) \in Nat
<1> SUFFICES ASSUME NEW p, NEW u
             PROVE  IsFiniteSet(HeldBy(p, u)) /\ Cardinality(HeldBy(p, u)) \in Nat
  OBVIOUS
<1>1. HeldBy(p, u) \in SUBSET Set
  BY DEF HeldBy, LiveSets
<1> QED BY <1>1, FS_Subset, FS_CardinalityType

-----------------------------------------------------------------------------

\* There are no sets, and no walk, at first.
LEMMA PoolsInvInitially == HistoryInit => PoolsInv
<1> SUFFICES ASSUME HistoryInit PROVE PoolsInv
  OBVIOUS
<1>1. PoolsTypeOK /\ HeldTypeOK
  BY DEF HistoryInit, PoolsInit, PoolsTypeOK, HeldTypeOK, NoInfo
<1>2. LiveSets = {}
  BY DEF HistoryInit, PoolsInit, LiveSets
<1>3. EntriesForLiveSets /\ FreedCountIsShortfall /\ WalkTypeOK /\ WalkInv
  BY <1>2 DEF HistoryInit, PoolsInit, EntriesForLiveSets, FreedCountIsShortfall, WalkTypeOK,
             WalkInv, LockFree, NoWalk
<1> QED BY <1>1, <1>3 DEF PoolsInv

\* Calls that change neither sets nor entries, nor a pool or a walk.
LEMMA PoolsKept ==
    ASSUME PoolsInv, PoolsTypeOK', UNCHANGED <<pools, sets, layoutInfos, held, walk>>
    PROVE  PoolsInv'
<1>1. LiveSets' = LiveSets /\ \A p, u : HeldBy(p, u)' = HeldBy(p, u)
  BY DEF LiveSets, HeldBy
<1>2. HeldTypeOK' /\ EntriesForLiveSets' /\ FreedCountIsShortfall'
  BY <1>1 DEF PoolsInv, HeldTypeOK, EntriesForLiveSets, FreedCountIsShortfall
<1>3. WalkTypeOK' /\ WalkInv'
  BY <1>1 DEF PoolsInv, WalkTypeOK, WalkInv, LockFree, Passed
<1> QED BY <1>2, <1>3 DEF PoolsInv

\* Layouts come and go beside their sets, and a set is used.
LEMMA PoolsLayouts ==
    ASSUME PoolsInv, UNCHANGED held,
           \/ \E l \in Layout : CreateDescriptorSetLayout(l) \/ DestroyDescriptorSetLayout(l)
           \/ \E d \in Set : SignalUsage(d)
    PROVE  PoolsInv'
<1>1. UNCHANGED <<pools, sets, layoutInfos, walk>>
  BY DEF CreateDescriptorSetLayout, DestroyDescriptorSetLayout, SignalUsage, objectVars
<1>2. PoolsTypeOK'
  BY <1>1 DEF PoolsInv, PoolsTypeOK, CreateDescriptorSetLayout, DestroyDescriptorSetLayout,
             SignalUsage, objectVars
<1> QED BY <1>1, <1>2, PoolsKept

\* A new pool: it has no sets, for its handle was not in use.
LEMMA PoolsCreatePool ==
    ASSUME PoolsInv, NEW p \in Pool, CreateDescriptorPool(p),
           held' = [held EXCEPT ![p] = [u \in Uuid |-> 0]]
    PROVE  PoolsInv'
<1>1. /\ LockFree /\ p \notin pools /\ pools' = pools \cup {p}
      /\ layoutInfos' = [layoutInfos EXCEPT ![p] = [u \in Uuid |-> NoInfo]]
      /\ UNCHANGED <<layouts, nextUuid, sets, walk>>
  BY DEF CreateDescriptorPool
<1>2. LiveSets' = LiveSets /\ \A q, u : HeldBy(q, u)' = HeldBy(q, u)
  BY <1>1 DEF LiveSets, HeldBy
<1>3. PoolsTypeOK' /\ HeldTypeOK'
  BY <1>1 DEF PoolsInv, PoolsTypeOK, HeldTypeOK
<1>4. EntriesForLiveSets'
  BY <1>1, <1>2 DEF PoolsInv, EntriesForLiveSets, PoolsTypeOK
<1>5. FreedCountIsShortfall'
  BY <1>1, <1>2 DEF PoolsInv, FreedCountIsShortfall, PoolsTypeOK, HeldTypeOK
<1>6. WalkTypeOK' /\ WalkInv'
  BY <1>1 DEF PoolsInv, WalkTypeOK, WalkInv, LockFree
<1> QED BY <1>3, <1>4, <1>5, <1>6 DEF PoolsInv

\* An allocation: the pool's shortfall of the layout starts over.
LEMMA PoolsAllocate ==
    ASSUME PoolsInv, NEW p \in Pool, NEW l \in Layout, NEW d \in Set,
           AllocateDescriptorSet(p, l, d),
           held' = [held EXCEPT ![p][layouts[l]] = Cardinality(HeldBy(p, layouts[l])) + 1]
    PROVE  PoolsInv'
<1>0. PICK u \in Uuid : u = layouts[l]
  BY DEF AllocateDescriptorSet, PoolsInv, PoolsTypeOK, Uuid
<1> DEFINE new == [pool |-> p, uuid |-> u]
<1>1. /\ LockFree /\ p \in pools /\ sets[d] = NoSet
      /\ sets' = [sets EXCEPT ![d] = new]
      /\ layoutInfos' = [layoutInfos EXCEPT ![p][u] = 0]
      /\ held' = [held EXCEPT ![p][u] = Cardinality(HeldBy(p, u)) + 1]
      /\ UNCHANGED <<pools, layouts, nextUuid, walk>>
  BY <1>0 DEF AllocateDescriptorSet, Entry
<1>2. new # NoSet
  BY <1>1 DEF NoSet, Uuid
<1>3. LiveSets' = LiveSets \cup {d} /\ d \notin LiveSets
  BY <1>1, <1>2 DEF LiveSets, PoolsInv, PoolsTypeOK
<1>4. /\ HeldBy(p, u)' = HeldBy(p, u) \cup {d} /\ d \notin HeldBy(p, u)
      /\ \A q, v : q # p \/ v # u => HeldBy(q, v)' = HeldBy(q, v)
  BY <1>1, <1>3 DEF HeldBy, PoolsInv, PoolsTypeOK, LiveSets
<1>5. Cardinality(HeldBy(p, u)') = Cardinality(HeldBy(p, u)) + 1
  BY <1>4, HeldFinite, FS_AddElement
<1>6. PoolsTypeOK' /\ HeldTypeOK'
  <2>1. new \in [pool : Pool, uuid : Uuid]
    BY <1>0
  <2> HIDE DEF new
  <2>2. sets' \in [Set -> [pool : Pool, uuid : Uuid] \cup {NoSet}]
    BY <1>1, <2>1 DEF PoolsInv, PoolsTypeOK
  <2>3. layoutInfos' \in [Pool -> [Uuid -> Nat \cup {NoInfo}]]
    BY <1>1 DEF PoolsInv, PoolsTypeOK
  <2>4. PoolsTypeOK'
    BY <1>1, <2>2, <2>3 DEF PoolsInv, PoolsTypeOK
  <2>5. PICK c \in Int : c = Cardinality(HeldBy(p, u)) + 1
    BY HeldFinite
  <2>6. held' = [held EXCEPT ![p][u] = c]
    BY <1>1, <2>5
  <2>7. HeldTypeOK'
    BY <1>0, <2>5, <2>6 DEF PoolsInv, HeldTypeOK
  <2> QED BY <2>4, <2>7
<1>7. \A q \in Pool, v \in Uuid :
          /\ layoutInfos'[q][v] = IF q = p /\ v = u THEN 0 ELSE layoutInfos[q][v]
          /\ held'[q][v] = IF q = p /\ v = u THEN Cardinality(HeldBy(p, u)) + 1 ELSE held[q][v]
  BY <1>1 DEF PoolsInv, PoolsTypeOK, HeldTypeOK
<1>8. EntriesForLiveSets'
  BY <1>1, <1>3, <1>7 DEF PoolsInv, EntriesForLiveSets, PoolsTypeOK, LiveSets, NoInfo
<1>9. FreedCountIsShortfall'
  <2> SUFFICES ASSUME NEW q \in pools, NEW v \in Uuid, layoutInfos'[q][v] # NoInfo
               PROVE  layoutInfos'[q][v] = held'[q][v] - Cardinality(HeldBy(q, v)')
    BY <1>1 DEF FreedCountIsShortfall
  <2>1. q \in Pool
    BY DEF PoolsInv, PoolsTypeOK
  <2>2. CASE q = p /\ v = u
    BY <1>5, <1>7, <2>1, <2>2, HeldFinite
  <2>3. CASE ~(q = p /\ v = u)
    <3>1. HeldBy(q, v)' = HeldBy(q, v)
      BY <1>4, <2>3
    <3>2. layoutInfos'[q][v] = layoutInfos[q][v] /\ held'[q][v] = held[q][v]
      BY <1>7, <2>1, <2>3
    <3>3. layoutInfos[q][v] = held[q][v] - Cardinality(HeldBy(q, v))
      BY <3>2 DEF PoolsInv, FreedCountIsShortfall
    <3> QED BY <3>1, <3>2, <3>3
  <2> QED BY <2>2, <2>3
<1>10. WalkTypeOK' /\ WalkInv'
  BY <1>1 DEF PoolsInv, WalkTypeOK, WalkInv, LockFree
<1> QED BY <1>6, <1>8, <1>9, <1>10 DEF PoolsInv

\* ~DescriptorSet: the set's entry is there, and counts one more.
LEMMA PoolsErase ==
    ASSUME PoolsInv, NEW d \in LiveSets, Erase(d), UNCHANGED <<pools, layouts, nextUuid, held>>
    PROVE  /\ PoolsTypeOK' /\ HeldTypeOK' /\ EntriesForLiveSets' /\ FreedCountIsShortfall'
           /\ LiveSets' = LiveSets \ {d}
           /\ \A e \in LiveSets' : sets'[e] = sets[e]
<1> DEFINE p == sets[d].pool
           u == sets[d].uuid
<1>1. /\ d \in Set /\ p \in Pool /\ u \in Uuid /\ p \in pools
      /\ layoutInfos[p][u] \in Nat
  BY DEF PoolsInv, PoolsTypeOK, LiveSets, EntriesForLiveSets, NoSet, NoInfo
<1>2. /\ sets' = [sets EXCEPT ![d] = NoSet]
      /\ layoutInfos' = [layoutInfos EXCEPT ![p][u] = @ + 1]
  BY DEF Erase, Freed
<1> HIDE DEF p, u
<1>3. PoolsTypeOK' /\ HeldTypeOK'
  BY <1>1, <1>2 DEF PoolsInv, PoolsTypeOK, HeldTypeOK
<1>4. /\ LiveSets' = LiveSets \ {d}
      /\ \A e \in LiveSets' : sets'[e] = sets[e]
  BY <1>1, <1>2 DEF LiveSets, PoolsInv, PoolsTypeOK
<1>5. \A q \in Pool, v \in Uuid :
          layoutInfos'[q][v] = IF q = p /\ v = u THEN layoutInfos[q][v] + 1
                               ELSE layoutInfos[q][v]
  BY <1>1, <1>2 DEF PoolsInv, PoolsTypeOK
<1>6. EntriesForLiveSets'
  <2> SUFFICES ASSUME NEW e \in LiveSets'
               PROVE  /\ sets'[e].pool \in pools
                      /\ layoutInfos'[sets'[e].pool][sets'[e].uuid] # NoInfo
    BY DEF EntriesForLiveSets
  <2>1. /\ e \in LiveSets /\ sets'[e] = sets[e]
        /\ sets[e].pool \in Pool /\ sets[e].uuid \in Uuid
    BY <1>4 DEF PoolsInv, PoolsTypeOK, LiveSets
  <2>2. /\ sets[e].pool \in pools
        /\ layoutInfos[sets[e].pool][sets[e].uuid] # NoInfo
    BY <2>1 DEF PoolsInv, EntriesForLiveSets
  <2> QED BY <1>1, <1>5, <2>1, <2>2 DEF NoInfo
<1>7. FreedCountIsShortfall'
  <2> SUFFICES ASSUME NEW q \in pools, NEW v \in Uuid, layoutInfos'[q][v] # NoInfo
               PROVE  layoutInfos'[q][v] = held'[q][v] - Cardinality(HeldBy(q, v)')
    BY DEF FreedCountIsShortfall
  <2>1. q \in Pool /\ held[q][v] \in Int
    BY DEF PoolsInv, PoolsTypeOK, HeldTypeOK
  <2>2. CASE q = p /\ v = u
    <3>1. HeldBy(q, v)' = HeldBy(q, v) \ {d} /\ d \in HeldBy(q, v)
      BY <1>1, <1>4, <2>2 DEF HeldBy, p, u, PoolsInv, PoolsTypeOK, LiveSets
    <3>2. /\ Cardinality(HeldBy(q, v)') = Cardinality(HeldBy(q, v)) - 1
          /\ Cardinality(HeldBy(q, v)) \in Nat
      BY <3>1, HeldFinite, FS_RemoveElement
    <3>3. layoutInfos[q][v] = held[q][v] - Cardinality(HeldBy(q, v))
      BY <1>1, <2>2 DEF PoolsInv, FreedCountIsShortfall, NoInfo
    <3> QED BY <1>5, <2>1, <2>2, <3>2, <3>3
  <2>3. CASE ~(q = p /\ v = u)
    <3>1. HeldBy(q, v)' = HeldBy(q, v)
      BY <1>4, <2>3 DEF HeldBy, p, u
    <3>2. layoutInfos'[q][v] = layoutInfos[q][v]
      BY <1>5, <2>1, <2>3
    <3>3. layoutInfos[q][v] = held[q][v] - Cardinality(HeldBy(q, v))
      BY <3>2 DEF PoolsInv, FreedCountIsShortfall
    <3> QED BY <3>1, <3>2, <3>3
  <2> QED BY <2>2, <2>3
<1> QED BY <1>3, <1>4, <1>6, <1>7

\* One set is freed.
LEMMA PoolsFree ==
    ASSUME PoolsInv, NEW d \in Set, FreeDescriptorSet(d), UNCHANGED held
    PROVE  PoolsInv'
<1>1. d \in LiveSets /\ Erase(d) /\ UNCHANGED <<pools, layouts, nextUuid, walk>> /\ LockFree
  BY DEF FreeDescriptorSet
<1>2. WalkTypeOK' /\ WalkInv'
  BY <1>1 DEF PoolsInv, WalkTypeOK, WalkInv, LockFree
<1> QED BY <1>1, <1>2, PoolsErase DEF PoolsInv

-----------------------------------------------------------------------------
(* The walk.                                                                 *)

\* It begins before the first set of the map.
LEMMA WalkBegins ==
    ASSUME PoolsInv, NEW p \in Pool, NEW destroys \in BOOLEAN, FreeAll(p, destroys),
           UNCHANGED held
    PROVE  PoolsInv'
<1>1. p \in pools /\ UNCHANGED <<pools, layouts, nextUuid, sets, layoutInfos>>
  BY DEF FreeAll
<1>2. PICK order \in SetToSeqs(LiveSets) :
         walk' = [pool |-> p, map |-> order, rest |-> order, destroys |-> destroys]
  BY DEF FreeAll
<1>3. IsFiniteSet(LiveSets) /\ LiveSets \subseteq Set
  BY FS_Subset DEF LiveSets
<1>4. LiveSets' = LiveSets /\ \A q, u : HeldBy(q, u)' = HeldBy(q, u)
  BY <1>1 DEF LiveSets, HeldBy
<1>5. PoolsTypeOK' /\ HeldTypeOK' /\ EntriesForLiveSets' /\ FreedCountIsShortfall'
  BY <1>1, <1>4 DEF PoolsInv, PoolsTypeOK, HeldTypeOK, EntriesForLiveSets, FreedCountIsShortfall
<1>6. WalkTypeOK' /\ WalkInv'
  <2>1. /\ order \in Seq(LiveSets)
        /\ \A d \in LiveSets : \E i \in 1 .. Len(order) : order[i] = d
        /\ \A i, j \in 1 .. Len(order) : i # j => order[i] # order[j]
    BY <1>2, <1>3, OrderIsComplete
  <2>2. Passed' = 0
    BY <1>2, <2>1 DEF Passed
  <2>3. order \in Seq(Set) /\ Unrepeated(order)
    BY <1>3, <2>1 DEF Unrepeated
  <2> QED BY <1>1, <1>2, <1>3, <1>4, <2>1, <2>2, <2>3 DEF WalkTypeOK, WalkInv
<1> QED BY <1>5, <1>6 DEF PoolsInv

\* What the iterator points to.
LEMMA WalkHead ==
    ASSUME PoolsInv, walk.rest # <<>>
    PROVE  /\ ~ LockFree
           /\ Head(walk.rest) = walk.map[Passed + 1] /\ Passed + 1 \in 1 .. Len(walk.map)
           /\ Tail(walk.rest) \in Seq(Set) /\ Len(Tail(walk.rest)) = Len(walk.rest) - 1
           /\ \A i \in 1 .. Len(walk.rest) - 1 : Tail(walk.rest)[i] = walk.rest[i + 1]
           /\ walk.map \in Seq(Set) /\ walk.rest \in Seq(Set)
           /\ Passed \in Nat /\ Len(walk.rest) \in Nat \ {0} /\ Len(walk.map) \in Nat
           /\ Len(walk.map) = Passed + Len(walk.rest)
<1>1. ~ LockFree /\ walk.map \in Seq(Set) /\ walk.rest \in Seq(Set)
  BY DEF LockFree, NoWalk, PoolsInv, WalkTypeOK
<1>2. /\ Tail(walk.rest) \in Seq(Set) /\ Len(Tail(walk.rest)) = Len(walk.rest) - 1
      /\ \A i \in 1 .. Len(Tail(walk.rest)) : Tail(walk.rest)[i] = walk.rest[i + 1]
  BY <1>1, HeadTailProperties
<1>3. Head(walk.rest) = walk.rest[1] /\ Len(walk.rest) \in Nat \ {0} /\ Len(walk.map) \in Nat
  BY <1>1
<1>4. /\ Passed \in Nat
      /\ \A i \in 1 .. Len(walk.rest) : walk.rest[i] = walk.map[i + Passed]
  BY <1>1 DEF PoolsInv, WalkInv
<1>5. Len(walk.map) = Passed + Len(walk.rest)
  BY <1>3 DEF Passed
<1>6. Passed + 1 \in 1 .. Len(walk.map) /\ walk.rest[1] = walk.map[1 + Passed]
  BY <1>3, <1>4, <1>5
<1>7. 1 + Passed = Passed + 1
  BY <1>4
<1> QED BY <1>1, <1>2, <1>3, <1>4, <1>5, <1>6, <1>7

\* A set of another pool is passed.
LEMMA WalkSkips ==
    ASSUME PoolsInv, SkipSet, UNCHANGED held
    PROVE  PoolsInv'
<1>1. /\ walk.rest # <<>> /\ sets[Head(walk.rest)].pool # walk.pool
      /\ walk' = [walk EXCEPT !.rest = Tail(@)]
      /\ UNCHANGED <<pools, layouts, nextUuid, sets, layoutInfos>>
  BY DEF SkipSet
<1>2. LiveSets' = LiveSets /\ \A q, u : HeldBy(q, u)' = HeldBy(q, u)
  BY <1>1 DEF LiveSets, HeldBy
<1>3. PoolsTypeOK' /\ HeldTypeOK' /\ EntriesForLiveSets' /\ FreedCountIsShortfall'
  BY <1>1, <1>2 DEF PoolsInv, PoolsTypeOK, HeldTypeOK, EntriesForLiveSets, FreedCountIsShortfall
<1>4. /\ WalkTypeOK'
      /\ walk'.pool = walk.pool /\ walk'.map = walk.map /\ walk'.rest = Tail(walk.rest)
  BY <1>1, WalkHead DEF PoolsInv, WalkTypeOK
<1>5. Passed' = Passed + 1 /\ Passed \in Nat
  <2>1. PICK m \in Nat, n \in Nat : m = Len(walk.map) /\ n = Len(walk.rest)
    BY <1>1, WalkHead
  <2>2. Passed = m - n /\ Passed \in Nat /\ Len(Tail(walk.rest)) = n - 1
    BY <1>1, <2>1, WalkHead DEF Passed
  <2>3. Passed' = m - (n - 1)
    BY <1>4, <2>1, <2>2 DEF Passed
  <2>4. m - (n - 1) = (m - n) + 1
    OBVIOUS
  <2> QED BY <2>2, <2>3, <2>4
<1>6. \A i \in 1 .. Len(walk'.rest) : walk'.rest[i] = walk'.map[i + Passed']
  <2> SUFFICES ASSUME NEW i \in 1 .. Len(Tail(walk.rest))
               PROVE  Tail(walk.rest)[i] = walk.map[i + (Passed + 1)]
    BY <1>4, <1>5
  <2>1. Len(Tail(walk.rest)) = Len(walk.rest) - 1 /\ Len(walk.rest) \in Nat
    BY <1>1, WalkHead
  <2>2. i + 1 \in 1 .. Len(walk.rest) /\ Tail(walk.rest)[i] = walk.rest[i + 1]
    BY <1>1, <2>1, WalkHead, SMTT(30)
  <2>3. walk.rest[i + 1] = walk.map[(i + 1) + Passed]
    BY <1>1, <2>2, WalkHead DEF PoolsInv, WalkInv
  <2>4. (i + 1) + Passed = i + (Passed + 1)
    BY <1>5
  <2> QED BY <2>2, <2>3, <2>4
<1>7. \A i \in 1 .. Passed' : sets'[walk'.map[i]].pool # walk'.pool
  <2> SUFFICES ASSUME NEW i \in 1 .. Passed + 1 PROVE sets[walk.map[i]].pool # walk.pool
    BY <1>1, <1>4, <1>5
  <2>1. CASE i = Passed + 1
    BY <1>1, <2>1, WalkHead
  <2>2. CASE i # Passed + 1
    <3>1. i \in 1 .. Passed
      BY <1>5, <2>2
    <3> QED BY <1>1, <3>1, WalkHead DEF PoolsInv, WalkInv
  <2> QED BY <2>1, <2>2
<1>8. WalkInv'
  BY <1>1, <1>2, <1>4, <1>5, <1>6, <1>7, WalkHead DEF PoolsInv, WalkInv
<1> QED BY <1>3, <1>4, <1>8 DEF PoolsInv

\* A set of the pool is erased, and the walk starts over, unless it was the last of the
\* map: then all those before it have been passed.
LEMMA WalkErases ==
    ASSUME PoolsInv, EraseSet, UNCHANGED held
    PROVE  PoolsInv'
<1> DEFINE d == Head(walk.rest)
           itr == Passed + 1
           left == RemoveAt(walk.map, itr)
<1>1. /\ walk.rest # <<>> /\ sets[d].pool = walk.pool /\ Erase(d)
      /\ walk' = [walk EXCEPT !.map = left, !.rest = Restarted(Tail(walk.rest), left)]
      /\ UNCHANGED <<pools, layouts, nextUuid>>
  BY DEF EraseSet, Passed
<1>2. /\ ~ LockFree /\ d = walk.map[itr] /\ itr \in 1 .. Len(walk.map) /\ d \in LiveSets
      /\ walk.pool \in pools /\ Passed \in Nat
      /\ \A i \in 1 .. Passed : sets[walk.map[i]].pool # walk.pool
      /\ Unrepeated(walk.map)
      /\ \A e \in LiveSets : \E i \in 1 .. Len(walk.map) : walk.map[i] = e
      /\ \A i \in 1 .. Len(walk.map) : walk.map[i] \in LiveSets
  BY <1>1, WalkHead DEF PoolsInv, WalkInv
<1>3. /\ PoolsTypeOK' /\ HeldTypeOK' /\ EntriesForLiveSets' /\ FreedCountIsShortfall'
      /\ LiveSets' = LiveSets \ {d}
      /\ \A e \in LiveSets' : sets'[e] = sets[e]
  BY <1>1, <1>2, PoolsErase
<1>4. left \in Seq(Set) /\ WithoutElement(walk.map, itr, left)
  <2>1. walk.map \in Seq(Set)
    BY <1>1, WalkHead
  <2> HIDE DEF itr
  <2> QED BY <1>2, <2>1, RemovedElements
<1>5. /\ Len(left) = Len(walk.map) - 1 /\ Unrepeated(left)
      /\ \A i \in 1 .. itr - 1 : left[i] = walk.map[i]
      /\ \A i \in 1 .. Len(left) :
             \E j \in 1 .. Len(walk.map) : left[i] = walk.map[j] /\ walk.map[j] # d
      /\ \A j \in 1 .. Len(walk.map) :
             walk.map[j] # d => \E i \in 1 .. Len(left) : left[i] = walk.map[j]
  <2>1. d = walk.map[itr]
    BY <1>2
  <2> HIDE DEF itr, d, left
  <2> QED BY <1>4, <2>1 DEF WithoutElement
<1> DEFINE next == IF Tail(walk.rest) = <<>> THEN <<>> ELSE left
<1>6. /\ WalkTypeOK'
      /\ walk'.pool = walk.pool /\ walk'.map = left /\ walk'.rest = next
  <2>1. walk' = [walk EXCEPT !.map = left, !.rest = next]
    BY <1>1 DEF Restarted
  <2>2. next \in Seq(Set) /\ left \in Seq(Set)
    BY <1>4
  <2> HIDE DEF left, next
  <2> QED BY <2>1, <2>2 DEF PoolsInv, WalkTypeOK
<1> HIDE DEF left, d
<1>7. PICK m \in Nat, n \in Nat \ {0} :
          /\ m = Len(walk.map) /\ n = Len(walk.rest) /\ Passed = m - n
          /\ Len(left) = m - 1 /\ Len(Tail(walk.rest)) = n - 1
  BY <1>1, <1>5, WalkHead DEF Passed
<1>8. Passed' = Len(left) - Len(next)
  <2>1. Passed' = Len(walk'.map) - Len(walk'.rest)
    BY DEF Passed
  <2> HIDE DEF next
  <2> QED BY <1>6, <2>1
<1>9. \A i \in 1 .. Len(left) : left[i] \in LiveSets'
  <2> SUFFICES ASSUME NEW i \in 1 .. Len(left) PROVE left[i] \in LiveSets'
    OBVIOUS
  <2>1. PICK j \in 1 .. Len(walk.map) : left[i] = walk.map[j] /\ walk.map[j] # d
    BY <1>5
  <2>2. walk.map[j] \in LiveSets
    BY <1>2
  <2> QED BY <1>3, <2>1, <2>2
<1>10. \A e \in LiveSets' : \E i \in 1 .. Len(left) : left[i] = e
  <2> SUFFICES ASSUME NEW e \in LiveSets' PROVE \E i \in 1 .. Len(left) : left[i] = e
    OBVIOUS
  <2>1. e \in LiveSets /\ e # d
    BY <1>3
  <2>2. PICK j \in 1 .. Len(walk.map) : walk.map[j] = e
    BY <1>2, <2>1
  <2> QED BY <1>5, <2>1, <2>2
<1>11. /\ Passed' \in Nat
       /\ \A i \in 1 .. Len(next) : next[i] = left[i + Passed']
       /\ \A i \in 1 .. Passed' : sets'[left[i]].pool # walk.pool
  <2>1. CASE Tail(walk.rest) = <<>>
    <3>1. next = <<>> /\ n - 1 = 0
      BY <1>7, <2>1
    <3>2. Passed = m - 1 /\ Passed' = m - 1
      <4>1. Len(next) = 0
        BY <3>1
      <4>2. n = 1
        BY <3>1
      <4> HIDE DEF next
      <4> QED BY <1>7, <1>8, <4>1, <4>2
    <3>3. ASSUME NEW i \in 1 .. m - 1 PROVE sets'[left[i]].pool # walk.pool
      <4>1. itr - 1 = m - 1 /\ Passed = m - 1 /\ Len(left) = m - 1
        <5>1. itr - 1 = Passed
          BY <1>2
        <5> QED BY <1>7, <3>2, <5>1
      <4>2. left[i] = walk.map[i] /\ sets[walk.map[i]].pool # walk.pool
        BY <1>2, <1>5, <4>1
      <4>3. left[i] \in LiveSets'
        BY <1>9, <4>1
      <4> QED BY <1>3, <4>2, <4>3
    <3> QED BY <1>7, <3>1, <3>2, <3>3, SMTT(30)
  <2>2. CASE Tail(walk.rest) # <<>>
    <3>1. next = left
      BY <2>2
    <3>2. Passed' = 0
      BY <1>7, <1>8, <3>1
    <3>3. \A i \in 1 .. m - 1 : i + 0 = i
      OBVIOUS
    <3> QED BY <1>7, <3>1, <3>2, <3>3
  <2> QED BY <2>1, <2>2
<1> HIDE DEF next
<1>12. WalkInv'
  <2>1. walk'.pool \in pools' /\ Passed' \in Nat
    BY <1>1, <1>2, <1>6, <1>11
  <2>2. \A i \in 1 .. Len(walk'.rest) : walk'.rest[i] = walk'.map[i + Passed']
    BY <1>6, <1>11
  <2>3. \A i \in 1 .. Passed' : sets'[walk'.map[i]].pool # walk'.pool
    BY <1>6, <1>11
  <2>4. Unrepeated(walk'.map)
    BY <1>5, <1>6
  <2>5. \A e \in LiveSets' : \E i \in 1 .. Len(walk'.map) : walk'.map[i] = e
    BY <1>6, <1>10
  <2>6. \A i \in 1 .. Len(walk'.map) : walk'.map[i] \in LiveSets'
    BY <1>6, <1>9
  <2> QED BY <2>1, <2>2, <2>3, <2>4, <2>5, <2>6 DEF WalkInv
<1> QED BY <1>3, <1>6, <1>12 DEF PoolsInv

\* At its end no set of the pool is left.
LEMMA WalkFrees == PoolsInv => WalkFreesAll
<1> SUFFICES ASSUME PoolsInv, ~ LockFree, walk.rest = <<>>, NEW d \in LiveSets
             PROVE  sets[d].pool # walk.pool
  BY DEF WalkFreesAll
<1>1. Passed = Len(walk.map) /\ Len(walk.map) \in Nat
  BY DEF Passed, PoolsInv, WalkTypeOK
<1>2. PICK i \in 1 .. Len(walk.map) : walk.map[i] = d
  BY DEF PoolsInv, WalkInv
<1> QED BY <1>1, <1>2 DEF PoolsInv, WalkInv

\* So the pool may go.
LEMMA WalkReturns ==
    ASSUME PoolsInv, WalkDone, UNCHANGED held
    PROVE  PoolsInv'
<1>1. /\ ~ LockFree /\ walk.rest = <<>> /\ walk' = NoWalk
      /\ pools' = IF walk.destroys THEN pools \ {walk.pool} ELSE pools
      /\ UNCHANGED <<layouts, nextUuid, sets, layoutInfos>>
  BY DEF WalkDone
<1>2. LiveSets' = LiveSets /\ \A q, u : HeldBy(q, u)' = HeldBy(q, u)
  BY <1>1 DEF LiveSets, HeldBy
<1>3. \A d \in LiveSets : sets[d].pool # walk.pool
  BY <1>1, WalkFrees DEF WalkFreesAll
<1>4. PoolsTypeOK' /\ HeldTypeOK' /\ FreedCountIsShortfall'
  BY <1>1, <1>2 DEF PoolsInv, PoolsTypeOK, HeldTypeOK, FreedCountIsShortfall
<1>5. EntriesForLiveSets'
  BY <1>1, <1>2, <1>3 DEF PoolsInv, EntriesForLiveSets
<1>6. WalkTypeOK' /\ WalkInv'
  BY <1>1 DEF WalkTypeOK, WalkInv, LockFree, NoWalk
<1> QED BY <1>4, <1>5, <1>6 DEF PoolsInv

-----------------------------------------------------------------------------

\* Every step keeps the invariant.
LEMMA PoolsInvNext ==
    ASSUME PoolsInv, [HistoryNext]_allVars
    PROVE  PoolsInv'
<1>1. CASE UNCHANGED allVars
  <2>1. UNCHANGED <<pools, layouts, nextUuid, sets, layoutInfos, held, walk>>
    BY <1>1 DEF allVars, poolVars, objectVars
  <2>2. PoolsTypeOK'
    BY <2>1 DEF PoolsInv, PoolsTypeOK
  <2> QED BY <2>1, <2>2, PoolsKept
<1>2. ASSUME NEW p \in Pool, NEW destroys \in BOOLEAN, FreeAll(p, destroys), UNCHANGED held
      PROVE  PoolsInv'
  BY <1>2, WalkBegins
<1>3. CASE FreeDescriptorSets /\ UNCHANGED held
  BY <1>3, WalkSkips, WalkErases, WalkReturns DEF FreeDescriptorSets
<1> QED BY <1>1, <1>2, <1>3, PoolsLayouts, PoolsCreatePool, PoolsAllocate, PoolsFree
        DEF HistoryNext

\* All three at once, for every finite set of handles and every bound on layouts.
LEMMA PoolsInvAlways == HistorySpec => []PoolsInv
<1>1. HistoryInit => PoolsInv
  BY PoolsInvInitially
<1>2. PoolsInv /\ [HistoryNext]_allVars => PoolsInv'
  BY PoolsInvNext
<1> QED BY <1>1, <1>2, PTL DEF HistorySpec

\* A set that is destroyed always finds its pool and its entry (descriptorSetDeleted).
THEOREM EntriesCorrect == HistorySpec => []EntriesForLiveSets
<1>1. PoolsInv => EntriesForLiveSets
  BY DEF PoolsInv
<1> QED BY <1>1, PoolsInvAlways, PTL

\* The freed count is exactly the sets given back since the last allocation.
THEOREM FreedCountCorrect == HistorySpec => []FreedCountIsShortfall
<1>1. PoolsInv => FreedCountIsShortfall
  BY DEF PoolsInv
<1> QED BY <1>1, PoolsInvAlways, PTL

\* In whatever order the map is walked, freeDescriptorSets ends with the pool empty.
THEOREM WalkCorrect == HistorySpec => []WalkFreesAll
<1>1. PoolsInv => WalkFreesAll
  BY WalkFrees
<1> QED BY <1>1, PoolsInvAlways, PTL
=============================================================================
