------------------------ MODULE DescriptorUsageProofs -----------------------
(***************************************************************************)
(* Proofs about DescriptorUsage for every image, all descriptor sets,      *)
(* views, layouts and render passes.                                       *)
(***************************************************************************)
EXTENDS DescriptorUsageHistory, SequenceTheorems, WellFoundedInduction, TLAPS

-----------------------------------------------------------------------------
(* Subresource ranges.                                                       *)

\* signalUsage reaches what a range names, and nothing outside the image.
LEMMA RangesCover ==
    ASSUME NEW range \in SubresourceRange
    PROVE  Covers(range) \subseteq OfRange(range) /\ OfRange(range) \subseteq Subresource
<1> USE ImageAssumption
<1>1. /\ range.baseArrayLayer \in 0 .. arrayLayers - 1 /\ range.layerCount \in Nat \ {0}
      /\ range.baseMipLevel \in 0 .. mipLevels - 1 /\ range.levelCount \in Nat \ {0}
  BY DEF SubresourceRange
<1>2. ASSUME NEW l \in 0 .. arrayLayers - 1
      PROVE  l \in Layers(range) <=> /\ l >= range.baseArrayLayer
                                     /\ l < range.baseArrayLayer + range.layerCount
  BY <1>1 DEF Layers, Smaller
<1>3. Layers(range) \subseteq 0 .. arrayLayers - 1
  BY <1>1 DEF Layers, Smaller
<1>4. Smaller(mipLevels, mipLevels - range.baseMipLevel) = mipLevels - range.baseMipLevel
  BY <1>1 DEF Smaller
<1>5. OfRange(range) = Layers(range) \X (range.baseMipLevel .. mipLevels - 1)
  BY <1>1, <1>4 DEF OfRange
<1>6. ASSUME NEW s \in Covers(range) PROVE s \in OfRange(range)
  <2>1. /\ s \in (0 .. arrayLayers - 1) \X (0 .. mipLevels - 1)
        /\ s[1] >= range.baseArrayLayer /\ s[1] < range.baseArrayLayer + range.layerCount
        /\ s[2] >= range.baseMipLevel
    BY DEF Covers, InLayers, Subresource
  <2>2. s[1] \in Layers(range) /\ s[2] \in range.baseMipLevel .. mipLevels - 1 /\ s = <<s[1], s[2]>>
    BY <1>1, <1>2, <2>1
  <2> QED BY <1>5, <2>2
<1>7. ASSUME NEW s \in OfRange(range) PROVE s \in Subresource
  <2>1. s[1] \in Layers(range) /\ s[2] \in range.baseMipLevel .. mipLevels - 1 /\ s = <<s[1], s[2]>>
    BY <1>5
  <2>2. s[1] \in 0 .. arrayLayers - 1 /\ s[2] \in 0 .. mipLevels - 1
    BY <1>1, <1>3, <2>1
  <2> QED BY <2>1, <2>2 DEF Subresource
<1> QED BY <1>6, <1>7

\* signalUsage does not look at levelCount: it is exact for the ranges that do not end
\* before the last level.
ReachesLastLevel(range) == range.baseMipLevel + range.levelCount >= mipLevels

\* A range that reaches the last level names exactly what signalUsage walks over.
LEMMA RangesExact ==
    ASSUME NEW range \in SubresourceRange, ReachesLastLevel(range)
    PROVE  Covers(range) = OfRange(range)
<1> USE ImageAssumption
<1>1. /\ range.baseArrayLayer \in 0 .. arrayLayers - 1 /\ range.layerCount \in Nat \ {0}
      /\ range.baseMipLevel \in 0 .. mipLevels - 1 /\ range.levelCount \in Nat \ {0}
  BY DEF SubresourceRange
<1>2. ASSUME NEW s \in OfRange(range) PROVE s \in Covers(range)
  <2>1. OfRange(range) = Layers(range) \X (range.baseMipLevel .. mipLevels - 1)
    BY <1>1 DEF OfRange, Smaller
  <2>2. s[1] \in Layers(range) /\ s[2] \in range.baseMipLevel .. mipLevels - 1
    BY <2>1
  <2>3. s[1] >= range.baseArrayLayer /\ s[1] < range.baseArrayLayer + range.layerCount
    BY <1>1, <2>2 DEF Layers, Smaller
  <2>4. s[2] >= range.baseMipLevel /\ s[2] < range.baseMipLevel + range.levelCount
    BY <1>1, <2>2 DEF ReachesLastLevel
  <2>5. s \in Subresource
    BY RangesCover
  <2> QED BY <2>3, <2>4, <2>5 DEF Covers, InLayers
<1> QED BY <1>2, RangesCover

\* One level is named as such.
LEMMA LayersExact ==
    ASSUME NEW range \in SubresourceLayers
    PROVE  OfLayers(range) = CoversLayers(range) /\ OfLayers(range) \subseteq Subresource
<1> USE ImageAssumption
<1>1. /\ range.baseArrayLayer \in 0 .. arrayLayers - 1 /\ range.layerCount \in Nat \ {0}
      /\ range.mipLevel \in 0 .. mipLevels - 1
  BY DEF SubresourceLayers
<1>2. ASSUME NEW l
      PROVE  l \in Layers(range) <=> /\ l \in 0 .. arrayLayers - 1
                                     /\ l >= range.baseArrayLayer
                                     /\ l < range.baseArrayLayer + range.layerCount
  BY <1>1 DEF Layers, Smaller
<1>3. ASSUME NEW s \in OfLayers(range) PROVE s \in CoversLayers(range)
  <2>1. s[1] \in Layers(range) /\ s[2] = range.mipLevel /\ s = <<s[1], s[2]>>
    BY DEF OfLayers
  <2>2. s \in Subresource
    BY <1>1, <1>2, <2>1 DEF Subresource
  <2> QED BY <1>2, <2>1, <2>2 DEF CoversLayers, InLayers
<1>4. ASSUME NEW s \in CoversLayers(range) PROVE s \in OfLayers(range)
  <2>1. /\ s[1] \in 0 .. arrayLayers - 1 /\ s = <<s[1], s[2]>> /\ s[2] = range.mipLevel
        /\ s[1] >= range.baseArrayLayer /\ s[1] < range.baseArrayLayer + range.layerCount
    BY DEF CoversLayers, InLayers, Subresource
  <2> QED BY <1>2, <2>1 DEF OfLayers
<1> QED BY <1>3, <1>4 DEF CoversLayers

-----------------------------------------------------------------------------
(* What a queue of functions will have told an image.  T[j] are the          *)
(* subresources the j-th function touches, L[j][s] is the usage it leaves,   *)
(* and last is the last usage before any of them is called.                  *)

Accessed == {"ResourceRead", "ResourceWrite"}

\* The layer takes the sets of a draw one after the other, so one may read what
\* another writes: no warning tells these usages apart.
Alike(u, v) == u = v \/ (u \in Accessed /\ v \in Accessed)

\* Once the functions before n are called, the last usage of s is like usage.
Says(T, L, last, s, n, usage) ==
    /\ (\A j \in 1 .. n - 1 : s \notin T[j]) => Alike(last[s], usage)
    /\ \A j \in 1 .. n - 1 :
           s \in T[j] /\ (\A k \in j + 1 .. n - 1 : s \notin T[k]) => Alike(L[j][s], usage)

Told(T, L, last, n, usages, unseen) ==
    \A s \in Subresource \ unseen : Says(T, L, last, s, n, usages[s])

\* Only the functions before n matter.
LEMMA ToldSame ==
    ASSUME NEW n \in Nat, NEW T, NEW L, NEW T2, NEW L2, NEW last, NEW usages, NEW unseen,
           \A j \in 1 .. n - 1 : T2[j] = T[j] /\ L2[j] = L[j],
           Told(T, L, last, n, usages, unseen)
    PROVE  Told(T2, L2, last, n, usages, unseen)
  BY DEF Told, Says

\* The function at n puts all it touches to one use.
LEMMA ToldUse ==
    ASSUME NEW n \in Nat \ {0}, NEW T, NEW L, NEW last, NEW usages, NEW unseen,
           NEW use, T[n] = use.subresources, \A s \in Subresource : L[n][s] = use.usage,
           Told(T, L, last, n, usages, unseen)
    PROVE  Told(T, L, last, n + 1, After(usages, use), unseen \ use.subresources)
<1> SUFFICES ASSUME NEW s \in Subresource, s \in unseen => s \in T[n]
             PROVE  Says(T, L, last, s, n + 1, After(usages, use)[s])
  BY DEF Told
<1>1. (n + 1) - 1 = n /\ n \in 1 .. n
  OBVIOUS
<1>2. CASE s \in T[n]
  <2>1. After(usages, use)[s] = use.usage
    BY <1>2 DEF After
  <2>2. ASSUME NEW j \in 1 .. n, \A k \in j + 1 .. n : s \notin T[k] PROVE L[j][s] = use.usage
    <3>1. j = n
      BY <1>2, <2>2
    <3> QED BY <3>1
  <2> QED BY <1>1, <1>2, <2>1, <2>2 DEF Says, Alike
<1>3. CASE s \notin T[n]
  <2>1. After(usages, use)[s] = usages[s]
    BY <1>3 DEF After
  <2>2. Says(T, L, last, s, n, usages[s])
    BY <1>3 DEF Told
  <2>3. ASSUME \A j \in 1 .. n : s \notin T[j] PROVE Alike(last[s], usages[s])
    BY <2>2, <2>3 DEF Says
  <2>4. ASSUME NEW j \in 1 .. n, s \in T[j], \A k \in j + 1 .. n : s \notin T[k]
        PROVE  Alike(L[j][s], usages[s])
    <3>1. j \in 1 .. n - 1 /\ \A k \in j + 1 .. n - 1 : s \notin T[k]
      BY <1>3, <2>4
    <3> QED BY <2>2, <2>4, <3>1 DEF Says
  <2> QED BY <1>1, <2>1, <2>3, <2>4 DEF Says
<1> QED BY <1>2, <1>3

\* The functions from n to m signal sets: those of the sets in use that are dirty.
LEMMA ToldSets ==
    ASSUME NEW n \in Nat \ {0}, NEW m \in Nat, n <= m,
           NEW T, NEW L, NEW last, NEW usages, NEW unseen,
           NEW usages2, NEW accessed, NEW told,
           \A k \in n .. m - 1 : T[k] \subseteq told /\ \A s \in T[k] : L[k][s] \in Accessed,
           \A s \in told : \E k \in n .. m - 1 : s \in T[k],
           told \subseteq accessed,
           \A s \in Subresource : IF s \in accessed THEN usages2[s] \in Accessed
                                 ELSE usages2[s] = usages[s],
           Told(T, L, last, n, usages, unseen)
    PROVE  Told(T, L, last, m, usages2, (unseen \cup accessed) \ told)
<1> SUFFICES ASSUME NEW s \in Subresource, s \in unseen \cup accessed => s \in told
             PROVE  Says(T, L, last, s, m, usages2[s])
  BY DEF Told
<1>1. CASE s \in told
  <2>1. PICK k \in n .. m - 1 : s \in T[k]
    BY <1>1
  <2>2. usages2[s] \in Accessed
    BY <1>1
  <2>3. ~ \A j \in 1 .. m - 1 : s \notin T[j]
    BY <2>1
  <2>4. ASSUME NEW j \in 1 .. m - 1, s \in T[j], \A i \in j + 1 .. m - 1 : s \notin T[i]
        PROVE  L[j][s] \in Accessed
    <3>1. j \in n .. m - 1
      BY <2>1, <2>4
    <3> QED BY <2>4, <3>1
  <2> QED BY <2>2, <2>3, <2>4 DEF Says, Alike
<1>2. CASE s \notin told
  <2>1. s \notin accessed /\ s \notin unseen /\ usages2[s] = usages[s]
    BY <1>2
  <2>2. Says(T, L, last, s, n, usages[s])
    BY <2>1 DEF Told
  <2>3. \A k \in n .. m - 1 : s \notin T[k]
    BY <1>2
  <2>4. ASSUME \A j \in 1 .. m - 1 : s \notin T[j] PROVE Alike(last[s], usages[s])
    BY <2>2, <2>4 DEF Says
  <2>5. ASSUME NEW j \in 1 .. m - 1, s \in T[j], \A k \in j + 1 .. m - 1 : s \notin T[k]
        PROVE  Alike(L[j][s], usages[s])
    <3>1. j \in 1 .. n - 1
      BY <2>3, <2>5
    <3>2. \A k \in j + 1 .. n - 1 : s \notin T[k]
      BY <2>5, <3>1
    <3> QED BY <2>2, <2>5, <3>1, <3>2 DEF Says
  <2> QED BY <2>1, <2>4, <2>5 DEF Says
<1> QED BY <1>1, <1>2

\* The first n functions have become the first n - 1, and the images show what the first left.
FirstCalled(n, T, L, last, T2, L2, last2) ==
    /\ n \in Nat \ {0}
    /\ \A j \in 1 .. n - 1 : T2[j] = T[j + 1] /\ L2[j] = L[j + 1]
    /\ \A s \in Subresource : last2[s] = IF s \in T[1] THEN L[1][s] ELSE last[s]

\* The first function is called.
LEMMA ToldCall ==
    ASSUME NEW n, NEW T, NEW L, NEW last, NEW usages, NEW unseen,
           NEW T2, NEW L2, NEW last2,
           FirstCalled(n, T, L, last, T2, L2, last2),
           Told(T, L, last, n + 1, usages, unseen)
    PROVE  Told(T2, L2, last2, n, usages, unseen)
<1>0. /\ n \in Nat \ {0}
      /\ \A j \in 1 .. n - 1 : T2[j] = T[j + 1] /\ L2[j] = L[j + 1]
      /\ \A s \in Subresource : last2[s] = IF s \in T[1] THEN L[1][s] ELSE last[s]
  BY DEF FirstCalled
<1> SUFFICES ASSUME NEW s \in Subresource, s \notin unseen
             PROVE  Says(T2, L2, last2, s, n, usages[s])
  BY DEF Told
<1>1. Says(T, L, last, s, n + 1, usages[s]) /\ (n + 1) - 1 = n
  BY <1>0 DEF Told
<1>2. ASSUME \A j \in 1 .. n - 1 : s \notin T2[j] PROVE Alike(last2[s], usages[s])
  <2>1. \A j \in 2 .. n : s \notin T[j]
    <3> SUFFICES ASSUME NEW j \in 2 .. n PROVE s \notin T[j]
      OBVIOUS
    <3>1. j - 1 \in 1 .. n - 1 /\ (j - 1) + 1 = j
      BY <1>0
    <3> QED BY <1>0, <1>2, <3>1
  <2>2. CASE s \in T[1]
    <3>1. 1 \in 1 .. n /\ \A k \in 1 + 1 .. n : s \notin T[k]
      BY <1>0, <2>1
    <3>2. Alike(L[1][s], usages[s])
      BY <1>1, <2>2, <3>1 DEF Says
    <3> QED BY <1>0, <2>2, <3>2
  <2>3. CASE s \notin T[1]
    <3>1. \A j \in 1 .. n : s \notin T[j]
      BY <1>0, <2>1, <2>3
    <3>2. Alike(last[s], usages[s])
      BY <1>1, <3>1 DEF Says
    <3> QED BY <1>0, <2>3, <3>2
  <2> QED BY <2>2, <2>3
<1>3. ASSUME NEW j \in 1 .. n - 1, s \in T2[j], \A k \in j + 1 .. n - 1 : s \notin T2[k]
      PROVE  Alike(L2[j][s], usages[s])
  <2>1. j + 1 \in 1 .. n /\ s \in T[j + 1] /\ L2[j] = L[j + 1]
    BY <1>0, <1>3
  <2>2. ASSUME NEW k \in (j + 1) + 1 .. n PROVE s \notin T[k]
    <3>1. k - 1 \in j + 1 .. n - 1 /\ k - 1 \in 1 .. n - 1 /\ (k - 1) + 1 = k
      BY <1>0
    <3> QED BY <1>0, <1>3, <3>1
  <2> QED BY <1>1, <2>1, <2>2 DEF Says
<1> QED BY <1>2, <1>3 DEF Says

-----------------------------------------------------------------------------
(* Types.                                                                    *)

\* The functions: some signal a set, the others a use.
SetFunction(sets) == [set : sets]
UseFunction == [subresources : SUBSET Subresource, usage : Usages]
Functions == SetFunction(Sets) \cup UseFunction

BeforeType ==
    [covers : SUBSET Subresource, actual : [Subresource -> Usages], stale : SUBSET Subresource]

Described == UNION {[1 .. n -> Views \cup {NoView}] : n \in Nat}

ViewsTypeOK ==
    /\ views \in [Sets -> [Bindings -> Described]]
    /\ \A d \in Sets, b \in Bindings : DOMAIN views[d][b] = 1 .. arraySize[b]

BoundTypeOK ==
    /\ bound \in [BindPoint -> [Slot -> [set : Sets \cup {NoSet}, dirty : BOOLEAN]]]
    /\ layout \in [BindPoint -> Int]
    /\ signalled \in [BindPoint -> SUBSET Slot]

QueueTypeOK ==
    /\ deferred \in Seq(Functions)
    /\ before \in Seq(BeforeType)
    /\ Len(before) = Len(deferred)

UsageTypeOK ==
    /\ lastUsage \in [Subresource -> Usages] /\ DOMAIN usageFlags = Subresource
    /\ actual \in [Subresource -> Usages] /\ stale \subseteq Subresource

TypeInv ==
    /\ ViewsTypeOK
    /\ BoundTypeOK
    /\ pass \subseteq Attachments
    /\ QueueTypeOK
    /\ UsageTypeOK

\* What IsSet tells apart.
LEMMA KindsOfFunctions ==
    /\ \A f \in SetFunction(Sets) : IsSet(f)
    /\ \A f \in UseFunction : ~ IsSet(f)
    /\ \A f \in Functions : IF IsSet(f) THEN f \in SetFunction(Sets) /\ f.set \in Sets
                             ELSE f \in UseFunction
<1>1. ASSUME NEW f \in SetFunction(Sets) PROVE IsSet(f) /\ f.set \in Sets
  BY DEF SetFunction, IsSet
<1>2. ASSUME NEW f \in UseFunction PROVE ~ IsSet(f)
  <2>1. DOMAIN f = {"subresources", "usage"}
    BY DEF UseFunction
  <2> QED BY <2>1 DEF IsSet
<1> QED BY <1>1, <1>2 DEF Functions

\* Concatenation.
LEMMA Concatenated ==
    ASSUME NEW S, NEW a \in Seq(S), NEW b \in Seq(S)
    PROVE  /\ a \o b \in Seq(S) /\ Len(a \o b) = Len(a) + Len(b)
           /\ Len(a) \in Nat /\ Len(b) \in Nat
           /\ \A i \in 1 .. Len(a) : (a \o b)[i] = a[i]
           /\ \A i \in 1 .. Len(b) : (a \o b)[Len(a) + i] = b[i]
  OBVIOUS

\* What sets access is of the image.
LEMMA AccessesInImage ==
    /\ \A d, type : Accesses(d, type) \subseteq Subresource
    /\ \A sets : AccessedBy(sets) \subseteq Subresource
    /\ \A range : Covers(range) \subseteq Subresource /\ CoversLayers(range) \subseteq Subresource
<1>1. \A range : Covers(range) \subseteq Subresource /\ CoversLayers(range) \subseteq Subresource
  BY DEF Covers, CoversLayers
<1>2. \A some : CoversViews(some) \subseteq Subresource
  BY <1>1 DEF CoversViews
<1>3. \A d, type : Accesses(d, type) \subseteq Subresource
  BY <1>2 DEF Accesses
<1> QED BY <1>1, <1>3 DEF AccessedBy

\* The usages of an attachment.
LEMMA UsagesOfAttachments ==
    \A att : LoadUsage(att) \in Usages /\ StoreUsage(att) \in {"RenderPassStored", "RenderPassDiscarded"}
  BY DEF LoadUsage, StoreUsage, Usages

-----------------------------------------------------------------------------
(* The functions enqueued for dirty sets.                                    *)

\* Induction up to a bound, for a set in place of a predicate.
LEMMA InductionUpTo ==
    ASSUME NEW N \in Nat, NEW G, 0 \in G, \A n \in 0 .. N - 1 : n \in G => n + 1 \in G
    PROVE  \A n \in 0 .. N : n \in G
<1> DEFINE Missing == {n \in 0 .. N : n \notin G}
<1> SUFFICES ASSUME Missing # {} PROVE FALSE
  OBVIOUS
<1>1. Missing \subseteq Nat
  OBVIOUS
<1>2. PICK n \in Missing : \A k \in Missing : ~ (<<k, n>> \in OpToRel(<, Nat))
  BY <1>1, NatLessThanWellFounded, WFMin
<1>3. n # 0 /\ n - 1 \in 0 .. N - 1 /\ n - 1 \in Missing
  <2>1. n \in 1 .. N
    OBVIOUS
  <2>2. n - 1 \notin G
    BY <2>1
  <2> QED BY <2>1, <2>2
<1>4. <<n - 1, n>> \in Nat \X Nat /\ <<n - 1, n>>[1] < <<n - 1, n>>[2]
  BY <1>1, <1>3
<1>5. <<n - 1, n>> \in OpToRel(<, Nat)
  BY <1>4, Zenon DEF OpToRel
<1> QED BY <1>2, <1>3, <1>5

\* upTo[n] concatenates the first n of N parts.
UpTo(part, n, upTo) == [i \in 0 .. n |-> IF i = 0 THEN <<>> ELSE upTo[i - 1] \o part[i]]

\* There are running concatenations of N sequences.
LEMMA UpToExists ==
    ASSUME NEW S, NEW N \in Nat, NEW part \in [1 .. N -> Seq(S)]
    PROVE  \E upTo : upTo = UpTo(part, N, upTo)
<1> DEFINE G == {n \in 0 .. N : \E u \in [0 .. n -> Seq(S)] : u = UpTo(part, n, u)}
<1>1. 0 \in G
  <2>1. PICK u : u = [i \in 0 .. 0 |-> <<>>]
    OBVIOUS
  <2>2. u \in [0 .. 0 -> Seq(S)] /\ u = UpTo(part, 0, u)
    BY <2>1 DEF UpTo
  <2> QED BY <2>2
<1>2. ASSUME NEW n \in 0 .. N - 1, n \in G PROVE n + 1 \in G
  <2>1. PICK u \in [0 .. n -> Seq(S)] : u = UpTo(part, n, u)
    BY <1>2
  <2>2. n \in 0 .. n /\ n + 1 \in 1 .. N /\ (n + 1) - 1 = n /\ n + 1 \in 0 .. N
    OBVIOUS
  <2>3. PICK more : more = u[n] \o part[n + 1]
    OBVIOUS
  <2>4. more \in Seq(S)
    <3>1. u[n] \in Seq(S) /\ part[n + 1] \in Seq(S)
      BY <2>2
    <3> QED BY <2>3, <3>1
  <2>5. PICK w : w = [i \in 0 .. n + 1 |-> IF i = n + 1 THEN more ELSE u[i]]
    OBVIOUS
  <2>6. w \in [0 .. n + 1 -> Seq(S)]
    BY <2>4, <2>5
  <2>7. ASSUME NEW i \in 0 .. n + 1 PROVE w[i] = IF i = 0 THEN <<>> ELSE w[i - 1] \o part[i]
    <3>1. CASE i = n + 1
      <4>1. w[i] = more /\ i # 0 /\ i - 1 = n /\ w[i - 1] = u[n]
        BY <2>5, <3>1
      <4> QED BY <2>3, <3>1, <4>1
    <3>2. CASE i # n + 1
      <4>1. i \in 0 .. n /\ w[i] = u[i] /\ (i # 0 => i - 1 \in 0 .. n /\ w[i - 1] = u[i - 1])
        BY <2>5, <3>2
      <4>2. u[i] = IF i = 0 THEN <<>> ELSE u[i - 1] \o part[i]
        BY <2>1, <4>1 DEF UpTo
      <4> QED BY <4>1, <4>2
    <3> QED BY <3>1, <3>2
  <2>8. w = UpTo(part, n + 1, w)
    BY <2>6, <2>7 DEF UpTo
  <2> QED BY <2>2, <2>6, <2>8
<1> HIDE DEF G
<1>3. \A n \in 0 .. N : n \in G
  BY <1>1, <1>2, InductionUpTo
<1>4. N \in G
  BY <1>3
<1> QED BY <1>4 DEF G

\* The last running concatenation of N sequences over S is a sequence over S.
LEMMA UpToIsSequence ==
    ASSUME NEW S, NEW N \in Nat, NEW part \in [1 .. N -> Seq(S)],
           NEW upTo, upTo = UpTo(part, N, upTo)
    PROVE  upTo[N] \in Seq(S)
<1> DEFINE G == {n \in 0 .. N : upTo[n] \in Seq(S)}
<1>1. \A i \in 0 .. N : upTo[i] = IF i = 0 THEN <<>> ELSE upTo[i - 1] \o part[i]
  BY DEF UpTo
<1>2. 0 \in G
  <2>1. upTo[0] = <<>> /\ 0 \in 0 .. N
    BY <1>1
  <2>2. <<>> \in Seq(S)
    OBVIOUS
  <2> QED BY <2>1, <2>2
<1>3. ASSUME NEW n \in 0 .. N - 1, n \in G PROVE n + 1 \in G
  <2>1. n + 1 \in 0 .. N /\ n + 1 \in 1 .. N /\ n + 1 # 0 /\ (n + 1) - 1 = n
    OBVIOUS
  <2>2. upTo[n + 1] = upTo[n] \o part[n + 1]
    BY <1>1, <2>1
  <2>3. upTo[n] \in Seq(S) /\ part[n + 1] \in Seq(S)
    BY <1>3, <2>1
  <2>4. upTo[n + 1] \in Seq(S)
    BY <2>2, <2>3
  <2> QED BY <2>1, <2>4
<1> HIDE DEF G
<1>4. \A n \in 0 .. N : n \in G
  BY <1>2, <1>3, InductionUpTo
<1>5. N \in G
  BY <1>4
<1> QED BY <1>5 DEF G

\* It holds the first element of each of them.
HoldsParts(all, N, part) ==
    \A k \in 1 .. N : part[k] # <<>> => \E j \in 1 .. Len(all) : all[j] = part[k][1]

LEMMA UpToHoldsParts ==
    ASSUME NEW S, NEW N \in Nat, NEW part \in [1 .. N -> Seq(S)],
           NEW upTo, upTo = UpTo(part, N, upTo)
    PROVE  HoldsParts(upTo[N], N, part)
<1> SUFFICES ASSUME NEW k \in 1 .. N, part[k] # <<>>
             PROVE  \E j \in 1 .. Len(upTo[N]) : upTo[N][j] = part[k][1]
  BY DEF HoldsParts
<1>0. PICK e : e = part[k][1]
  OBVIOUS
<1> DEFINE G == {n \in 0 .. N : /\ upTo[n] \in Seq(S)
                                /\ n >= k => \E j \in 1 .. Len(upTo[n]) : upTo[n][j] = e}
<1>1. \A i \in 0 .. N : upTo[i] = IF i = 0 THEN <<>> ELSE upTo[i - 1] \o part[i]
  BY DEF UpTo
<1>2. 0 \in G
  <2>1. 0 \in 0 .. N
    OBVIOUS
  <2>2. upTo[0] = <<>>
    BY <1>1, <2>1, Zenon
  <2>3. <<>> \in Seq(S) /\ ~ (0 >= k)
    OBVIOUS
  <2> QED BY <2>1, <2>2, <2>3
<1>3. ASSUME NEW n \in 0 .. N - 1, n \in G PROVE n + 1 \in G
  <2>1. n + 1 \in 0 .. N /\ n + 1 \in 1 .. N /\ n + 1 # 0 /\ (n + 1) - 1 = n
    OBVIOUS
  <2>2. upTo[n + 1] = upTo[n] \o part[n + 1]
    BY <1>1, <2>1
  <2>3. PICK a, b : a = upTo[n] /\ b = part[n + 1]
    OBVIOUS
  <2>4. a \in Seq(S) /\ b \in Seq(S) /\ (n >= k => \E j \in 1 .. Len(a) : a[j] = e)
    BY <1>3, <2>1, <2>3
  <2>5. PICK c : c = a \o b
    OBVIOUS
  <2>6. /\ c \in Seq(S) /\ Len(c) = Len(a) + Len(b) /\ Len(a) \in Nat /\ Len(b) \in Nat
        /\ \A i \in 1 .. Len(a) : c[i] = a[i]
        /\ \A i \in 1 .. Len(b) : c[Len(a) + i] = b[i]
    BY <2>4, <2>5, Concatenated
  <2>7. ASSUME n + 1 >= k PROVE \E j \in 1 .. Len(c) : c[j] = e
    <3>1. CASE n >= k
      <4>1. PICK j \in 1 .. Len(a) : a[j] = e
        BY <2>4, <3>1
      <4>2. j \in 1 .. Len(c) /\ c[j] = e
        BY <2>6, <4>1
      <4> QED BY <4>2
    <3>2. CASE n + 1 = k
      <4>1. b # <<>> /\ b[1] = e
        BY <1>0, <2>3, <3>2
      <4>2. 1 \in 1 .. Len(b) /\ b[1] = e
        BY <2>4, <4>1
      <4>3. Len(a) + 1 \in 1 .. Len(c) /\ c[Len(a) + 1] = e
        BY <2>6, <4>2
      <4> QED BY <4>3
    <3> QED BY <2>7, <3>1, <3>2
  <2>8. upTo[n + 1] = c
    BY <2>2, <2>3, <2>5
  <2> QED BY <2>1, <2>6, <2>7, <2>8
<1> HIDE DEF G
<1>4. \A n \in 0 .. N : n \in G
  BY <1>2, <1>3, InductionUpTo
<1>5. N \in G
  BY <1>4
<1> QED BY <1>0, <1>5 DEF G

\* What is enqueued signals sets the command uses.
LEMMA DirtySetsInUse ==
    ASSUME BoundTypeOK, NEW point \in BindPoint
    PROVE  SetsInUse(point) \subseteq Sets /\ DirtySets(point) \in Seq(SetFunction(SetsInUse(point)))
<1> USE SlotAssumption
<1>1. SetsInUse(point) \subseteq Sets
  BY DEF SetsInUse, SlotsInUse, BoundTypeOK
<1> DEFINE dirty == {i \in Signalled(point) : bound[point][i].dirty /\ bound[point][i].set # NoSet}
           Part(n) == IF n - 1 \in dirty THEN <<[set |-> bound[point][n - 1].set]>> ELSE <<>>
           Step(f) == [n \in 0 .. slots |-> IF n = 0 THEN <<>> ELSE f[n - 1] \o Part(n)]
<1>2. PICK part : part = [n \in 1 .. slots |-> Part(n)]
  OBVIOUS
<1>3. part \in [1 .. slots -> Seq(SetFunction(SetsInUse(point)))]
  <2>1. ASSUME NEW n \in 1 .. slots PROVE Part(n) \in Seq(SetFunction(SetsInUse(point)))
    <3>1. CASE n - 1 \in dirty
      <4>1. n - 1 \in Slot /\ n - 1 < layout[point] /\ bound[point][n - 1].set # NoSet
        BY <3>1 DEF Signalled
      <4>2. bound[point][n - 1].set \in SetsInUse(point)
        BY <4>1 DEF SetsInUse, SlotsInUse
      <4>3. Part(n) = <<[set |-> bound[point][n - 1].set]>>
        BY <3>1
      <4> HIDE DEF Part
      <4> QED BY <4>2, <4>3 DEF SetFunction
    <3>2. CASE n - 1 \notin dirty
      BY <3>2
    <3> QED BY <3>1, <3>2
  <2> HIDE DEF Part
  <2> QED BY <1>2, <2>1
<1>4. ASSUME NEW f PROVE Step(f) = UpTo(part, slots, f)
  BY <1>2 DEF UpTo
<1>5. PICK f : f = (CHOOSE g : g = Step(g)) /\ f = Step(f)
  <2> HIDE DEF Step
  <2>1. \E g : g = Step(g)
    BY <1>3, <1>4, UpToExists
  <2> QED BY <2>1
<1>6. f[slots] \in Seq(SetFunction(SetsInUse(point)))
  <2> HIDE DEF Step
  <2>1. f = UpTo(part, slots, f)
    BY <1>4, <1>5
  <2> QED BY <1>3, <2>1, UpToIsSequence
<1>7. DirtySets(point) = f[slots]
  BY <1>5 DEF DirtySets
<1> QED BY <1>1, <1>6, <1>7

\* Of every dirty slot of the layout that holds a set, the set is among them.
LEMMA DirtySetsComplete ==
    ASSUME BoundTypeOK, NEW point \in BindPoint, NEW slot \in SlotsInUse(point),
           bound[point][slot].dirty
    PROVE  \E j \in 1 .. Len(DirtySets(point)) :
               DirtySets(point)[j] = [set |-> bound[point][slot].set]
<1> USE SlotAssumption
<1> DEFINE dirty == {i \in Signalled(point) : bound[point][i].dirty /\ bound[point][i].set # NoSet}
           Part(n) == IF n - 1 \in dirty THEN <<[set |-> bound[point][n - 1].set]>> ELSE <<>>
           Step(f) == [n \in 0 .. slots |-> IF n = 0 THEN <<>> ELSE f[n - 1] \o Part(n)]
<1>1. PICK part : part = [n \in 1 .. slots |-> Part(n)]
  OBVIOUS
<1>2. part \in [1 .. slots -> Seq(SetFunction(Sets))]
  <2>1. ASSUME NEW n \in 1 .. slots PROVE Part(n) \in Seq(SetFunction(Sets))
    <3>1. CASE n - 1 \in dirty
      <4>1. n - 1 \in Slot /\ bound[point][n - 1].set # NoSet
        BY <3>1 DEF Signalled
      <4>2. bound[point][n - 1].set \in Sets
        BY <4>1 DEF BoundTypeOK
      <4>3. Part(n) = <<[set |-> bound[point][n - 1].set]>>
        BY <3>1
      <4> HIDE DEF Part
      <4> QED BY <4>2, <4>3 DEF SetFunction
    <3>2. CASE n - 1 \notin dirty
      BY <3>2
    <3> QED BY <3>1, <3>2
  <2> HIDE DEF Part
  <2> QED BY <1>1, <2>1
<1>3. ASSUME NEW f PROVE Step(f) = UpTo(part, slots, f)
  BY <1>1 DEF UpTo
<1>4. PICK f : f = (CHOOSE g : g = Step(g)) /\ f = Step(f)
  <2> HIDE DEF Step
  <2>1. \E g : g = Step(g)
    BY <1>2, <1>3, UpToExists
  <2> QED BY <2>1
<1>5. slot + 1 \in 1 .. slots /\ part[slot + 1] = <<[set |-> bound[point][slot].set]>>
  <2>1. slot \in Slot /\ slot < layout[point] /\ bound[point][slot].set # NoSet
    BY DEF SlotsInUse
  <2>2. slot \in Int /\ slot + 1 \in 1 .. slots /\ (slot + 1) - 1 = slot
    BY <2>1 DEF Slot
  <2>3. slot \in dirty
    BY <2>1 DEF Signalled
  <2>4. Part(slot + 1) = <<[set |-> bound[point][slot].set]>>
    BY <2>2, <2>3
  <2> HIDE DEF Part
  <2> QED BY <1>1, <2>2, <2>4
<1>6. PICK all : all = f[slots]
  OBVIOUS
<1>7. \E j \in 1 .. Len(all) : all[j] = [set |-> bound[point][slot].set]
  <2> HIDE DEF Step
  <2>1. f = UpTo(part, slots, f)
    BY <1>3, <1>4
  <2>2. PICK k \in 1 .. slots : part[k] # <<>> /\ part[k][1] = [set |-> bound[point][slot].set]
    BY <1>5
  <2>3. HoldsParts(f[slots], slots, part)
    BY <1>2, <2>1, UpToHoldsParts
  <2>4. \E j \in 1 .. Len(f[slots]) : f[slots][j] = part[k][1]
    BY <2>2, <2>3 DEF HoldsParts
  <2> QED BY <1>6, <2>2, <2>4
<1>8. DirtySets(point) = all
  BY <1>4, <1>6 DEF DirtySets
<1> QED BY <1>7, <1>8

-----------------------------------------------------------------------------
(* The kinds of steps, by what they do to the functions and the history.     *)

\* All ranges named reach the last mip level.
AllLevels ==
    /\ \A v \in Views : ReachesLastLevel(ViewRange[v])
    /\ \A range \in ClearRanges : ReachesLastLevel(range)
    /\ \A att \in Attachments : ReachesLastLevel(att.range)

\* A use, and the subresources signalled for it.
Signalling(use, sub) ==
    /\ use \in UseFunction /\ sub \in SUBSET Subresource
    /\ use.subresources \subseteq sub
    /\ AllLevels => use.subresources = sub

\* Nothing is recorded or called, and the sets the functions signal are not updated.
Quiet ==
    /\ \A n \in DOMAIN deferred :
           IsSet(deferred[n]) => views'[deferred[n].set] = views[deferred[n].set]
    /\ UNCHANGED <<imageVars, deferred, actual, stale, before, lastCall, rendered>>

\* One use is recorded, or two.
RecordsUse(use, sub) ==
    /\ deferred' = deferred \o <<Signal(sub, use.usage)>>
    /\ before' = before \o <<Before(use.subresources, actual, stale)>>
    /\ actual' = After(actual, use)
    /\ stale' = stale \ use.subresources
    /\ UNCHANGED <<imageVars, views, lastCall, rendered>>

RecordsUses(first, second, sub) ==
    /\ deferred' = deferred \o <<Signal(sub, first.usage), Signal(sub, second.usage)>>
    /\ before' = before \o
           <<Before(first.subresources, actual, stale),
             Before(second.subresources, After(actual, first), stale \ first.subresources)>>
    /\ actual' = After(After(actual, first), second)
    /\ stale' = stale \ (first.subresources \cup second.subresources)
    /\ UNCHANGED <<imageVars, views, lastCall, rendered>>

\* A draw or dispatch.
RecordsSets(point) == enqueueDescriptorSetUsage(point) /\ UsesSets(point)

\* A function is called.
Calls ==
    /\ CallFunction
    /\ lastCall' = [usage |-> UsageOf(Head(deferred)), before |-> Head(before)]
    /\ before' = Tail(before)
    /\ rendered' = rendered \cup
           (IF UsageOf(Head(deferred)) \in {"RenderPassStored", "RenderPassDiscarded"}
            THEN Head(before).covers ELSE {})
    /\ UNCHANGED <<actual, stale, signalled, missed>>

\* A use of an attachment signals the range its view names.
LEMMA AttachmentUse ==
    ASSUME NEW att \in Attachments, NEW usage \in Usages
    PROVE  Signalling(Use(Covers(att.range), usage), OfRange(att.range))
<1>1. att.range \in SubresourceRange
  BY RangeAssumption
<1>2. AllLevels => Covers(att.range) = OfRange(att.range)
  BY <1>1, RangesExact DEF AllLevels
<1> QED BY <1>1, <1>2, RangesCover DEF Signalling, Use, UseFunction

\* The kinds of steps that the proofs below tell apart.
LEMMA StepKinds ==
    ASSUME TypeInv, HistoryNext
    PROVE  \/ Quiet
           \/ \E use, sub : Signalling(use, sub) /\ RecordsUse(use, sub)
           \/ \E first, second, sub : /\ Signalling(first, sub) /\ Signalling(second, sub)
                                     /\ RecordsUses(first, second, sub)
           \/ \E point \in BindPoint : RecordsSets(point)
           \/ Calls
<1>1. ASSUME NEW point \in BindPoint, NEW slot \in Slot, NEW set \in Sets,
             bindDescriptorSets(point, slot, set), UNCHANGED <<actual, stale, before, lastCall, rendered>>
      PROVE  Quiet
  BY <1>1 DEF bindDescriptorSets, Quiet
<1>2. ASSUME NEW point \in BindPoint, NEW numSets, bindPipeline(point, numSets), UNCHANGED history
      PROVE  Quiet
  BY <1>2 DEF bindPipeline, history, Quiet
<1>3. ASSUME NEW att \in Attachments, CmdBeginRenderPass(att), att.on = "unused", UNCHANGED history
      PROVE  Quiet
  <2>1. deferred' = deferred \o <<>> /\ UNCHANGED <<imageVars, views>>
    BY <1>3 DEF CmdBeginRenderPass, Enqueue, PassSignals
  <2>2. deferred' = deferred
    BY <2>1 DEF TypeInv, QueueTypeOK
  <2> QED BY <1>3, <2>1, <2>2 DEF history, Quiet
<1>4. ASSUME NEW att \in Attachments, CmdBeginRenderPass(att), att.on = "inputOnly",
             Uses(Use(Covers(att.range), "ResourceRead"))
      PROVE  \E use, sub : Signalling(use, sub) /\ RecordsUse(use, sub)
  <2>1. LoadUsage(att) = "ResourceRead"
    BY <1>4 DEF LoadUsage
  <2>2. PICK use : use = Use(Covers(att.range), "ResourceRead")
    OBVIOUS
  <2>3. PICK sub : sub = OfRange(att.range)
    OBVIOUS
  <2>4. Signalling(use, sub)
    BY <2>2, <2>3, AttachmentUse DEF Usages
  <2>5. RecordsUse(use, sub)
    <3>1. use.usage = "ResourceRead"
      BY <2>2 DEF Use
    <3>2. deferred' = deferred \o <<Signal(sub, use.usage)>> /\ UNCHANGED <<imageVars, views>>
      BY <1>4, <2>1, <2>3, <3>1 DEF CmdBeginRenderPass, Enqueue, PassSignals
    <3>3. before' = before \o <<Before(use.subresources, actual, stale)>>
      BY <1>4, <2>2 DEF Uses, TypeInv, QueueTypeOK
    <3> QED BY <1>4, <2>2, <3>2, <3>3 DEF Uses, RecordsUse
  <2> QED BY <2>4, <2>5
<1>5. ASSUME NEW att \in Attachments, CmdBeginRenderPass(att), att.on = "tile",
             UsesTwice(Use(Covers(att.range), LoadUsage(att)), Use(Covers(att.range), StoreUsage(att)))
      PROVE  \E first, second, sub : /\ Signalling(first, sub) /\ Signalling(second, sub)
                                    /\ RecordsUses(first, second, sub)
  <2>1. PICK first : first = Use(Covers(att.range), LoadUsage(att))
    OBVIOUS
  <2>2. PICK second : second = Use(Covers(att.range), StoreUsage(att))
    OBVIOUS
  <2>3. PICK sub : sub = OfRange(att.range)
    OBVIOUS
  <2>4. Signalling(first, sub) /\ Signalling(second, sub)
    <3>1. LoadUsage(att) \in Usages /\ StoreUsage(att) \in Usages
      BY UsagesOfAttachments DEF Usages
    <3> QED BY <2>1, <2>2, <2>3, <3>1, AttachmentUse
  <2>5. RecordsUses(first, second, sub)
    <3>1. first.usage = LoadUsage(att) /\ second.usage = StoreUsage(att)
      BY <2>1, <2>2 DEF Use
    <3>2. /\ deferred' = deferred \o <<Signal(sub, first.usage), Signal(sub, second.usage)>>
          /\ UNCHANGED <<imageVars, views>>
      BY <1>5, <2>3, <3>1 DEF CmdBeginRenderPass, Enqueue, PassSignals
    <3>3. UsesTwice(first, second)
      BY <1>5, <2>1, <2>2
    <3> QED BY <3>2, <3>3 DEF UsesTwice, RecordsUses
  <2> QED BY <2>4, <2>5
<1>6. ASSUME NEW range \in CopyRanges, NEW usage \in {"ResourceRead", "ResourceWrite"},
             CmdCopy(range, usage), Uses(Use(CoversLayers(range), usage))
      PROVE  \E use, sub : Signalling(use, sub) /\ RecordsUse(use, sub)
  <2>1. PICK use : use = Use(CoversLayers(range), usage)
    OBVIOUS
  <2>2. PICK sub : sub = OfLayers(range)
    OBVIOUS
  <2>3. Signalling(use, sub)
    <3>1. range \in SubresourceLayers
      BY RangeAssumption
    <3> QED BY <2>1, <2>2, <3>1, LayersExact DEF Signalling, Use, UseFunction, Usages
  <2>4. RecordsUse(use, sub)
    <3>1. use.usage = usage
      BY <2>1 DEF Use
    <3>2. deferred' = deferred \o <<Signal(sub, use.usage)>> /\ UNCHANGED <<imageVars, views>>
      BY <1>6, <2>2, <3>1 DEF CmdCopy, Enqueue
    <3>3. before' = before \o <<Before(use.subresources, actual, stale)>>
      BY <1>6, <2>1 DEF Uses, TypeInv, QueueTypeOK
    <3> QED BY <1>6, <2>1, <3>2, <3>3 DEF Uses, RecordsUse
  <2> QED BY <2>3, <2>4
<1>7. ASSUME NEW range \in ClearRanges, CmdClearImage(range), Uses(Use(Covers(range), "Cleared"))
      PROVE  \E use, sub : Signalling(use, sub) /\ RecordsUse(use, sub)
  <2>1. PICK use : use = Use(Covers(range), "Cleared")
    OBVIOUS
  <2>2. PICK sub : sub = OfRange(range)
    OBVIOUS
  <2>3. Signalling(use, sub)
    <3>1. range \in SubresourceRange
      BY RangeAssumption
    <3>2. AllLevels => Covers(range) = OfRange(range)
      BY <3>1, RangesExact DEF AllLevels
    <3> QED BY <2>1, <2>2, <3>1, <3>2, RangesCover DEF Signalling, Use, UseFunction, Usages
  <2>4. RecordsUse(use, sub)
    <3>1. use.usage = "Cleared"
      BY <2>1 DEF Use
    <3>2. deferred' = deferred \o <<Signal(sub, use.usage)>> /\ UNCHANGED <<imageVars, views>>
      BY <1>7, <2>2, <3>1 DEF CmdClearImage, Enqueue
    <3>3. before' = before \o <<Before(use.subresources, actual, stale)>>
      BY <1>7, <2>1 DEF Uses, TypeInv, QueueTypeOK
    <3> QED BY <1>7, <2>1, <3>2, <3>3 DEF Uses, RecordsUse
  <2> QED BY <2>3, <2>4
<1>8. ASSUME UpdateDescriptorSets, UNCHANGED history PROVE Quiet
  <2>1. PICK d \in Sets : /\ Updatable(d) /\ UNCHANGED <<imageVars, deferred>>
                          /\ \A e \in Sets : e # d => views'[e] = views[e]
    <3>1. CASE \E d \in Sets, b \in Bindings : \E element \in 1 .. arraySize[b] :
                   \E infos \in UNION {[1 .. n -> Views] : n \in 1 .. arraySize[b]} :
                       WriteDescriptors(d, b, element, infos)
      <4>1. PICK d \in Sets, b \in Bindings : \E element, infos : WriteDescriptors(d, b, element, infos)
        BY <3>1
      <4>2. PICK element, infos : WriteDescriptors(d, b, element, infos)
        BY <4>1
      <4> QED BY <4>2 DEF WriteDescriptors, TypeInv, ViewsTypeOK
    <3>2. CASE \E src \in Sets, dst \in Sets, b \in Bindings, c \in Bindings :
                   \E from \in 1 .. arraySize[b], to \in 1 .. arraySize[c], count \in 1 .. arraySize[c] :
                       CopyDescriptors(src, b, from, dst, c, to, count)
      <4>1. PICK src \in Sets, dst \in Sets, b \in Bindings, c \in Bindings :
                \E from, to, count : CopyDescriptors(src, b, from, dst, c, to, count)
        BY <3>2
      <4>2. PICK from, to, count : CopyDescriptors(src, b, from, dst, c, to, count)
        BY <4>1
      <4> QED BY <4>2 DEF CopyDescriptors, TypeInv, ViewsTypeOK
    <3> QED BY <1>8, <3>1, <3>2 DEF UpdateDescriptorSets
  <2>2. ASSUME NEW n \in DOMAIN deferred, IsSet(deferred[n])
        PROVE  views'[deferred[n].set] = views[deferred[n].set]
    <3>1. deferred[n] \in Functions
      BY DEF TypeInv, QueueTypeOK
    <3>2. deferred[n] \in SetFunction(Sets) /\ deferred[n].set \in Sets
      BY <2>2, <3>1, KindsOfFunctions
    <3>3. deferred[n] = [set |-> deferred[n].set]
      BY <3>2 DEF SetFunction
    <3>4. deferred[n].set # d
      BY <2>1, <3>3 DEF Updatable
    <3> QED BY <2>1, <3>2, <3>4
  <2> QED BY <1>8, <2>1, <2>2 DEF history, Quiet
<1>9. ASSUME CmdEndRenderPass, UNCHANGED history PROVE Quiet
  BY <1>9 DEF CmdEndRenderPass, history, Quiet
<1>10. ASSUME QueueSubmit, UNCHANGED history PROVE Quiet
  BY <1>10 DEF QueueSubmit, history, Quiet
<1>11. ASSUME BeginCommandBuffer, UNCHANGED <<actual, stale, before, lastCall, rendered>> PROVE Quiet
  BY <1>11 DEF BeginCommandBuffer, Quiet
<1>12. ASSUME NEW point \in BindPoint, enqueueDescriptorSetUsage(point), UsesSets(point)
       PROVE  \E p \in BindPoint : RecordsSets(p)
  BY <1>12 DEF RecordsSets
<1>13. CASE CmdDraw /\ UsesSets("graphics")
  BY <1>12, <1>13 DEF CmdDraw, BindPoint
<1>14. CASE CmdDispatch /\ UsesSets("compute")
  BY <1>12, <1>14 DEF CmdDispatch, BindPoint
<1> QED
  BY <1>1, <1>2, <1>3, <1>4, <1>5, <1>6, <1>7, <1>8, <1>9, <1>10, <1>11, <1>13, <1>14
  DEF HistoryNext, Calls

\* What a draw or dispatch records: functions for some of the sets in use.
LEMMA SetsRecorded ==
    ASSUME TypeInv, NEW point \in BindPoint, RecordsSets(point)
    PROVE  \E fs \in Seq(SetFunction(SetsInUse(point))) :
               LET told == AccessedBy({fs[i].set : i \in 1 .. Len(fs)})
                   accessed == AccessedBy(SetsInUse(point))
               IN  /\ deferred' = deferred \o fs
                   /\ before' = before \o [i \in 1 .. Len(fs) |-> Before(told, actual, stale)]
                   /\ actual' \in [Subresource -> Usages]
                   /\ \A s \in Subresource : IF s \in accessed THEN actual'[s] \in Accessed
                                             ELSE actual'[s] = actual[s]
                   /\ stale' = (stale \cup accessed) \ told
                   /\ told \subseteq accessed
                   /\ UNCHANGED <<imageVars, views, lastCall, rendered>>
<1>1. SetsInUse(point) \subseteq Sets /\ DirtySets(point) \in Seq(SetFunction(SetsInUse(point)))
  BY DirtySetsInUse DEF TypeInv
<1>2. PICK fs : fs = DirtySets(point)
  OBVIOUS
<1>3. fs \in Seq(SetFunction(SetsInUse(point)))
  BY <1>1, <1>2
<1>4. deferred' = deferred \o fs /\ UNCHANGED <<imageVars, views, lastCall, rendered>>
  BY <1>2 DEF RecordsSets, enqueueDescriptorSetUsage, Enqueue, UsesSets
<1>5. fs \in Seq(Functions)
  <2>1. SetFunction(SetsInUse(point)) \subseteq Functions
    BY <1>1 DEF SetFunction, Functions
  <2> QED BY <1>3, <2>1
<1>6. /\ Len(deferred) \in Nat /\ Len(fs) \in Nat /\ Len(deferred') = Len(deferred) + Len(fs)
      /\ \A i \in 1 .. Len(fs) : deferred'[Len(deferred) + i] = fs[i]
  BY <1>4, <1>5, Concatenated DEF TypeInv, QueueTypeOK
<1>7. Enqueued = {fs[i].set : i \in 1 .. Len(fs)}
  <2>1. ASSUME NEW i \in Len(deferred) + 1 .. Len(deferred')
        PROVE  i - Len(deferred) \in 1 .. Len(fs) /\ deferred'[i] = fs[i - Len(deferred)]
    <3>1. i - Len(deferred) \in 1 .. Len(fs) /\ Len(deferred) + (i - Len(deferred)) = i
      BY <1>6
    <3> QED BY <1>6, <3>1
  <2>2. ASSUME NEW i \in 1 .. Len(fs)
        PROVE  Len(deferred) + i \in Len(deferred) + 1 .. Len(deferred')
    BY <1>6
  <2>3. \A d \in Enqueued : d \in {fs[i].set : i \in 1 .. Len(fs)}
    BY <2>1 DEF Enqueued
  <2>4. \A d \in {fs[i].set : i \in 1 .. Len(fs)} : d \in Enqueued
    BY <1>6, <2>2 DEF Enqueued
  <2> QED BY <2>3, <2>4
<1>8. PICK told : told = AccessedBy({fs[i].set : i \in 1 .. Len(fs)})
  OBVIOUS
<1>9. PICK accessed : accessed = AccessedBy(SetsInUse(point))
  OBVIOUS
<1>10. told \subseteq accessed
  <2>1. ASSUME NEW i \in 1 .. Len(fs) PROVE fs[i].set \in SetsInUse(point)
    <3>1. fs[i] \in SetFunction(SetsInUse(point))
      BY <1>3
    <3> QED BY <3>1 DEF SetFunction
  <2>2. {fs[i].set : i \in 1 .. Len(fs)} \subseteq SetsInUse(point)
    BY <2>1
  <2> QED BY <1>8, <1>9, <2>2 DEF AccessedBy
<1>11. /\ before' = before \o [i \in 1 .. Len(fs) |-> Before(told, actual, stale)]
       /\ stale' = (stale \cup accessed) \ told
  <2>1. Len(deferred') - Len(deferred) = Len(fs)
    BY <1>6
  <2> QED BY <1>7, <1>8, <1>9, <2>1 DEF RecordsSets, UsesSets
<1>12. PICK written : written = UNION {Accesses(d, "storage") : d \in SetsInUse(point)}
  OBVIOUS
<1>13. written \subseteq accessed
  BY <1>9, <1>12 DEF AccessedBy
<1>14. actual' = [s \in Subresource |-> IF s \in written THEN "ResourceWrite"
                                      ELSE IF s \in accessed THEN "ResourceRead" ELSE actual[s]]
  BY <1>9, <1>12 DEF RecordsSets, UsesSets
<1>15. /\ actual' \in [Subresource -> Usages]
       /\ \A s \in Subresource : IF s \in accessed THEN actual'[s] \in Accessed
                                 ELSE actual'[s] = actual[s]
  BY <1>13, <1>14 DEF TypeInv, UsageTypeOK, Usages, Accessed
<1> QED BY <1>3, <1>4, <1>8, <1>9, <1>10, <1>11, <1>15

-----------------------------------------------------------------------------
(* Types are kept.                                                           *)

\* Nothing is bound, recorded or signalled at first.
LEMMA TypeInitially == HistoryInit => TypeInv
<1> SUFFICES ASSUME HistoryInit PROVE TypeInv
  OBVIOUS
<1> USE DEF HistoryInit, UsageInit
<1>1. ViewsTypeOK
  <2>1. ASSUME NEW d \in Sets, NEW b \in Bindings
        PROVE  [i \in 1 .. arraySize[b] |-> NoView] \in Described
    BY SetAssumption DEF Described
  <2> QED BY <2>1 DEF ViewsTypeOK
<1>2. BoundTypeOK
  BY DEF BoundTypeOK
<1>3. QueueTypeOK
  BY DEF QueueTypeOK
<1>4. UsageTypeOK
  BY DEF UsageTypeOK, ImageInit, Usages
<1> QED BY <1>1, <1>2, <1>3, <1>4 DEF TypeInv

\* Updates write views to descriptors.
LEMMA ViewsTyped ==
    ASSUME ViewsTypeOK, HistoryNext
    PROVE  ViewsTypeOK'
<1>1. ASSUME NEW d \in Sets, NEW b \in Bindings, NEW new \in [1 .. arraySize[b] -> Views \cup {NoView}],
             views' = [views EXCEPT ![d][b] = new]
      PROVE  ViewsTypeOK'
  <2>1. new \in Described
    BY SetAssumption DEF Described
  <2>2. views' \in [Sets -> [Bindings -> Described]]
    BY <1>1, <2>1 DEF ViewsTypeOK
  <2>3. ASSUME NEW e \in Sets, NEW c \in Bindings PROVE DOMAIN views'[e][c] = 1 .. arraySize[c]
    BY <1>1 DEF ViewsTypeOK
  <2> QED BY <2>2, <2>3 DEF ViewsTypeOK
<1>2. ASSUME NEW d \in Sets, NEW b \in Bindings, NEW i \in 1 .. arraySize[b]
      PROVE  views[d][b][i] \in Views \cup {NoView}
  <2>1. views[d][b] \in Described /\ DOMAIN views[d][b] = 1 .. arraySize[b]
    BY DEF ViewsTypeOK
  <2>2. PICK n \in Nat : views[d][b] \in [1 .. n -> Views \cup {NoView}]
    BY <2>1 DEF Described
  <2>3. i \in 1 .. n
    BY <2>1, <2>2
  <2> QED BY <2>2, <2>3
<1>3. ASSUME NEW d \in Sets, NEW b \in Bindings, NEW element \in 1 .. arraySize[b],
             NEW infos \in UNION {[1 .. n -> Views] : n \in 1 .. arraySize[b]},
             WriteDescriptors(d, b, element, infos)
      PROVE  ViewsTypeOK'
  <2>1. PICK n \in 1 .. arraySize[b] : infos \in [1 .. n -> Views]
    OBVIOUS
  <2>2. arraySize[b] \in Nat /\ n \in Nat /\ element \in Nat
    BY SetAssumption
  <2>3. Len(infos) = n
    BY <2>1, <2>2
  <2>4. PICK new : new = [i \in 1 .. arraySize[b] |->
             IF i \in element .. element + Len(infos) - 1
             THEN IF bindingType[b] = "other" THEN NoView ELSE infos[i - element + 1]
             ELSE views[d][b][i]]
    OBVIOUS
  <2>5. views' = [views EXCEPT ![d][b] = new]
    BY <1>3, <2>4 DEF WriteDescriptors, ViewsTypeOK
  <2>6. ASSUME NEW i \in 1 .. arraySize[b] PROVE new[i] \in Views \cup {NoView}
    <3>1. CASE i \in element .. element + Len(infos) - 1
      <4>1. i - element + 1 \in 1 .. n
        BY <2>2, <2>3, <3>1
      <4>2. infos[i - element + 1] \in Views
        BY <2>1, <4>1
      <4> QED BY <2>4, <3>1, <4>2
    <3>2. CASE i \notin element .. element + Len(infos) - 1
      BY <1>2, <2>4, <3>2
    <3> QED BY <3>1, <3>2
  <2>7. new \in [1 .. arraySize[b] -> Views \cup {NoView}]
    BY <2>4, <2>6
  <2> QED BY <1>1, <2>5, <2>7
<1>4. ASSUME NEW src \in Sets, NEW dst \in Sets, NEW b \in Bindings, NEW c \in Bindings,
             NEW from \in 1 .. arraySize[b], NEW to \in 1 .. arraySize[c],
             NEW count \in 1 .. arraySize[c], CopyDescriptors(src, b, from, dst, c, to, count)
      PROVE  ViewsTypeOK'
  <2>1. arraySize[b] \in Nat /\ arraySize[c] \in Nat /\ from \in Nat /\ to \in Nat /\ count \in Nat
    BY SetAssumption
  <2>2. PICK new : new = [i \in 1 .. arraySize[c] |->
             IF i \in to .. to + count - 1 THEN views[src][b][i - to + from] ELSE views[dst][c][i]]
    OBVIOUS
  <2>3. views' = [views EXCEPT ![dst][c] = new]
    BY <1>4, <2>2 DEF CopyDescriptors, ViewsTypeOK
  <2>4. ASSUME NEW i \in 1 .. arraySize[c] PROVE new[i] \in Views \cup {NoView}
    <3>1. CASE i \in to .. to + count - 1
      <4>1. from + count - 1 <= arraySize[b]
        BY <1>4 DEF CopyDescriptors
      <4>2. i - to + from \in 1 .. arraySize[b]
        BY <2>1, <3>1, <4>1
      <4>3. views[src][b][i - to + from] \in Views \cup {NoView}
        BY <1>2, <4>2
      <4> QED BY <2>2, <3>1, <4>3
    <3>2. CASE i \notin to .. to + count - 1
      BY <1>2, <2>2, <3>2
    <3> QED BY <3>1, <3>2
  <2>5. new \in [1 .. arraySize[c] -> Views \cup {NoView}]
    BY <2>2, <2>4
  <2> QED BY <1>1, <2>3, <2>5
<1>5. CASE UpdateDescriptorSets
  BY <1>3, <1>4, <1>5 DEF UpdateDescriptorSets
<1>6. CASE UNCHANGED views
  BY <1>6 DEF ViewsTypeOK
<1> QED
  BY <1>5, <1>6
  DEF HistoryNext, bindDescriptorSets, bindPipeline, CmdDraw, CmdDispatch, enqueueDescriptorSetUsage,
      CmdBeginRenderPass, CmdEndRenderPass, CmdCopy, CmdClearImage, QueueSubmit, CallFunction,
      BeginCommandBuffer

\* And bindings, layouts and passes.
LEMMA BoundTyped ==
    ASSUME BoundTypeOK, pass \subseteq Attachments, HistoryNext
    PROVE  BoundTypeOK' /\ pass' \subseteq Attachments
<1>1. ASSUME NEW point \in BindPoint, NEW slot \in Slot, NEW set \in Sets,
             bindDescriptorSets(point, slot, set),
             signalled' = [signalled EXCEPT ![point] = @ \ {slot}]
      PROVE  BoundTypeOK' /\ pass' = pass
  BY <1>1 DEF bindDescriptorSets, Bound, BoundTypeOK
<1>2. ASSUME NEW point \in BindPoint, NEW numSets \in LayoutSizes[point],
             bindPipeline(point, numSets), UNCHANGED history
      PROVE  BoundTypeOK' /\ pass' = pass
  <2>1. numSets \in Int
    BY SlotAssumption
  <2> QED BY <1>2, <2>1 DEF bindPipeline, history, BoundTypeOK
<1>3. ASSUME NEW point \in BindPoint, enqueueDescriptorSetUsage(point), UsesSets(point)
      PROVE  BoundTypeOK' /\ pass' = pass
  <2>1. ASSUME NEW i \in Slot
        PROVE  [bound[point][i] EXCEPT !.dirty = FALSE] \in [set : Sets \cup {NoSet}, dirty : BOOLEAN]
    <3>1. bound[point][i] \in [set : Sets \cup {NoSet}, dirty : BOOLEAN]
      BY DEF BoundTypeOK
    <3> QED BY <3>1
  <2>2. bound' \in [BindPoint -> [Slot -> [set : Sets \cup {NoSet}, dirty : BOOLEAN]]]
    BY <1>3, <2>1 DEF enqueueDescriptorSetUsage, BoundTypeOK
  <2>3. signalled' \in [BindPoint -> SUBSET Slot]
    BY <1>3 DEF UsesSets, BoundTypeOK
  <2> QED BY <1>3, <2>2, <2>3 DEF enqueueDescriptorSetUsage, BoundTypeOK
<1>4. ASSUME BeginCommandBuffer, signalled' = [p \in BindPoint |-> {}]
      PROVE  BoundTypeOK' /\ pass' = pass
  BY <1>4 DEF BeginCommandBuffer, Reset, BoundTypeOK
<1>5. CASE UNCHANGED <<bound, layout, signalled>> /\ pass' \subseteq Attachments
  BY <1>5 DEF BoundTypeOK
<1>6. ASSUME UpdateDescriptorSets PROVE UNCHANGED <<bound, layout, pass>>
  BY <1>6 DEF UpdateDescriptorSets, WriteDescriptors, CopyDescriptors
<1>7. CASE CmdDraw /\ UsesSets("graphics")
  BY <1>3, <1>7 DEF CmdDraw, BindPoint
<1>8. CASE CmdDispatch /\ UsesSets("compute")
  BY <1>3, <1>8 DEF CmdDispatch, BindPoint
<1> QED
  BY <1>1, <1>2, <1>4, <1>5, <1>6, <1>7, <1>8
  DEF HistoryNext, CmdBeginRenderPass, CmdEndRenderPass, CmdCopy, CmdClearImage, QueueSubmit,
      CallFunction, Uses, UsesTwice, history

\* What is known of the functions, and of the one that is called.
LEMMA FunctionCalled ==
    ASSUME QueueTypeOK, Calls
    PROVE  /\ deferred[1] \in Functions /\ before[1] \in BeforeType
           /\ 1 \in DOMAIN deferred /\ Head(deferred) = deferred[1] /\ Head(before) = before[1]
           /\ QueueTypeOK'
           /\ Len(deferred') = Len(deferred) - 1 /\ Len(deferred) \in Nat \ {0}
           /\ \A j \in 1 .. Len(deferred) - 1 :
                  deferred'[j] = deferred[j + 1] /\ before'[j] = before[j + 1]
           /\ UNCHANGED <<views, actual, stale>>
<1>1. /\ deferred \in Seq(Functions) /\ deferred # <<>> /\ deferred' = Tail(deferred)
      /\ before \in Seq(BeforeType) /\ before' = Tail(before) /\ UNCHANGED <<views, actual, stale>>
      /\ Len(before) = Len(deferred)
  BY DEF Calls, CallFunction, QueueTypeOK
<1>2. Len(deferred) \in Nat \ {0} /\ before # <<>>
  BY <1>1
<1>3. /\ deferred[1] \in Functions /\ Head(deferred) = deferred[1] /\ Tail(deferred) \in Seq(Functions)
      /\ Len(Tail(deferred)) = Len(deferred) - 1
      /\ \A j \in 1 .. Len(deferred) - 1 : Tail(deferred)[j] = deferred[j + 1]
  BY <1>1, <1>2
<1>4. /\ before[1] \in BeforeType /\ Head(before) = before[1] /\ Tail(before) \in Seq(BeforeType)
      /\ Len(Tail(before)) = Len(before) - 1
      /\ \A j \in 1 .. Len(before) - 1 : Tail(before)[j] = before[j + 1]
  BY <1>1, <1>2
<1> QED BY <1>1, <1>2, <1>3, <1>4 DEF QueueTypeOK

\* After a use.
LEMMA AfterTyped ==
    ASSUME NEW usages \in [Subresource -> Usages], NEW use \in UseFunction
    PROVE  After(usages, use) \in [Subresource -> Usages]
<1>1. use.usage \in Usages
  BY DEF UseFunction
<1> QED BY <1>1 DEF After

\* Functions and entries are recorded together.
LEMMA RecordedTyped ==
    ASSUME QueueTypeOK, NEW fs \in Seq(Functions), NEW bs \in Seq(BeforeType), Len(fs) = Len(bs),
           deferred' = deferred \o fs, before' = before \o bs
    PROVE  QueueTypeOK'
<1>1. deferred' \in Seq(Functions) /\ Len(deferred') = Len(deferred) + Len(fs)
  BY Concatenated DEF QueueTypeOK
<1>2. before' \in Seq(BeforeType) /\ Len(before') = Len(before) + Len(bs)
  BY Concatenated DEF QueueTypeOK
<1> QED BY <1>1, <1>2 DEF QueueTypeOK

\* Which are where, afterwards.
LEMMA RecordedFunctions ==
    ASSUME QueueTypeOK, NEW fs \in Seq(Functions), NEW bs \in Seq(BeforeType), Len(fs) = Len(bs),
           deferred' = deferred \o fs, before' = before \o bs
    PROVE  /\ Len(deferred) \in Nat /\ Len(fs) \in Nat /\ DOMAIN deferred = 1 .. Len(deferred)
           /\ DOMAIN deferred' = 1 .. Len(deferred) + Len(fs)
           /\ Len(deferred') = Len(deferred) + Len(fs)
           /\ \A i \in 1 .. Len(deferred) : deferred'[i] = deferred[i] /\ before'[i] = before[i]
           /\ \A i \in 1 .. Len(fs) : /\ deferred'[Len(deferred) + i] = fs[i]
                                     /\ before'[Len(deferred) + i] = bs[i]
<1>1. deferred \in Seq(Functions) /\ before \in Seq(BeforeType) /\ Len(before) = Len(deferred)
  BY DEF QueueTypeOK
<1>2. /\ deferred' \in Seq(Functions) /\ Len(deferred') = Len(deferred) + Len(fs)
      /\ Len(deferred) \in Nat /\ Len(fs) \in Nat
      /\ \A i \in 1 .. Len(deferred) : deferred'[i] = deferred[i]
      /\ \A i \in 1 .. Len(fs) : deferred'[Len(deferred) + i] = fs[i]
  <2>1. PICK a : a = deferred
    OBVIOUS
  <2>2. a \in Seq(Functions) /\ deferred' = a \o fs
    BY <1>1, <2>1
  <2>3. PICK c : c = a \o fs
    OBVIOUS
  <2>4. /\ c \in Seq(Functions) /\ Len(c) = Len(a) + Len(fs) /\ Len(a) \in Nat /\ Len(fs) \in Nat
        /\ \A i \in 1 .. Len(a) : c[i] = a[i]
        /\ \A i \in 1 .. Len(fs) : c[Len(a) + i] = fs[i]
    <3>1. c \in Seq(Functions)
      BY <2>2, <2>3, Concatenated
    <3>2. Len(c) = Len(a) + Len(fs) /\ Len(a) \in Nat /\ Len(fs) \in Nat
      BY <2>2, <2>3, Concatenated
    <3>3. \A i \in 1 .. Len(a) : c[i] = a[i]
      BY <2>2, <2>3, Concatenated
    <3>4. \A i \in 1 .. Len(fs) : c[Len(a) + i] = fs[i]
      BY <2>2, <2>3, Concatenated
    <3> QED BY <3>1, <3>2, <3>3, <3>4
  <2> QED BY <2>1, <2>2, <2>3, <2>4, Zenon
<1>3. /\ \A i \in 1 .. Len(before) : before'[i] = before[i]
      /\ \A i \in 1 .. Len(bs) : before'[Len(before) + i] = bs[i]
  <2>1. PICK a : a = before
    OBVIOUS
  <2>2. a \in Seq(BeforeType) /\ before' = a \o bs
    BY <1>1, <2>1
  <2>3. PICK c : c = a \o bs
    OBVIOUS
  <2>4. /\ \A i \in 1 .. Len(a) : c[i] = a[i]
        /\ \A i \in 1 .. Len(bs) : c[Len(a) + i] = bs[i]
    BY <2>2, <2>3, Concatenated
  <2> QED BY <2>1, <2>2, <2>3, <2>4, Zenon
<1>4. DOMAIN deferred = 1 .. Len(deferred) /\ DOMAIN deferred' = 1 .. Len(deferred')
  BY <1>1, <1>2
<1> QED BY <1>1, <1>2, <1>3, <1>4

\* Every step keeps the types.
LEMMA TypeStep ==
    ASSUME TypeInv, [HistoryNext]_allVars
    PROVE  TypeInv'
<1> SUFFICES ASSUME HistoryNext PROVE TypeInv'
  BY DEF TypeInv, ViewsTypeOK, BoundTypeOK, QueueTypeOK, UsageTypeOK, allVars, usageVars, imageVars,
         commandVars, history
<1>1. ViewsTypeOK' /\ BoundTypeOK' /\ pass' \subseteq Attachments
  BY ViewsTyped, BoundTyped DEF TypeInv
<1>2. ASSUME Quiet PROVE QueueTypeOK' /\ UsageTypeOK'
  BY <1>2 DEF Quiet, imageVars, TypeInv, QueueTypeOK, UsageTypeOK
<1>3. ASSUME NEW use, NEW sub, Signalling(use, sub), RecordsUse(use, sub)
      PROVE  QueueTypeOK' /\ UsageTypeOK'
  <2>1. use \in UseFunction /\ Signal(sub, use.usage) \in Functions
    BY <1>3 DEF Signalling, Signal, UseFunction, Functions
  <2>2. Before(use.subresources, actual, stale) \in BeforeType
    BY <2>1 DEF Before, BeforeType, UseFunction, TypeInv, UsageTypeOK
  <2>3. QueueTypeOK'
    <3>1. PICK fs : fs = <<Signal(sub, use.usage)>>
      OBVIOUS
    <3>2. PICK bs : bs = <<Before(use.subresources, actual, stale)>>
      OBVIOUS
    <3>3. fs \in Seq(Functions) /\ bs \in Seq(BeforeType) /\ Len(fs) = Len(bs)
      BY <2>1, <2>2, <3>1, <3>2
    <3> QED BY <1>3, <3>1, <3>2, <3>3, RecordedTyped DEF RecordsUse, TypeInv
  <2>4. UsageTypeOK'
    BY <1>3, <2>1, AfterTyped DEF RecordsUse, imageVars, TypeInv, UsageTypeOK
  <2> QED BY <2>3, <2>4
<1>4. ASSUME NEW first, NEW second, NEW sub, Signalling(first, sub), Signalling(second, sub),
             RecordsUses(first, second, sub)
      PROVE  QueueTypeOK' /\ UsageTypeOK'
  <2>1. /\ first \in UseFunction /\ Signal(sub, first.usage) \in Functions
        /\ second \in UseFunction /\ Signal(sub, second.usage) \in Functions
    BY <1>4 DEF Signalling, Signal, UseFunction, Functions
  <2>2. After(actual, first) \in [Subresource -> Usages]
    BY <2>1, AfterTyped DEF TypeInv, UsageTypeOK
  <2>3. /\ Before(first.subresources, actual, stale) \in BeforeType
        /\ Before(second.subresources, After(actual, first), stale \ first.subresources) \in BeforeType
    BY <2>1, <2>2 DEF Before, BeforeType, UseFunction, TypeInv, UsageTypeOK
  <2>4. QueueTypeOK'
    <3>1. PICK fs : fs = <<Signal(sub, first.usage), Signal(sub, second.usage)>>
      OBVIOUS
    <3>2. PICK bs : bs =
              <<Before(first.subresources, actual, stale),
                Before(second.subresources, After(actual, first), stale \ first.subresources)>>
      OBVIOUS
    <3>3. fs \in Seq(Functions) /\ bs \in Seq(BeforeType) /\ Len(fs) = Len(bs)
      BY <2>1, <2>3, <3>1, <3>2
    <3> QED BY <1>4, <3>1, <3>2, <3>3, RecordedTyped DEF RecordsUses, TypeInv
  <2>5. actual' \in [Subresource -> Usages]
    BY <1>4, <2>1, <2>2, AfterTyped DEF RecordsUses
  <2>6. UsageTypeOK'
    BY <1>4, <2>5 DEF RecordsUses, imageVars, TypeInv, UsageTypeOK
  <2> QED BY <2>4, <2>6
<1>5. ASSUME NEW point \in BindPoint, RecordsSets(point) PROVE QueueTypeOK' /\ UsageTypeOK'
  <2>1. PICK fs, told, accessed :
            /\ fs \in Seq(SetFunction(SetsInUse(point)))
            /\ told = AccessedBy({fs[i].set : i \in 1 .. Len(fs)})
            /\ accessed = AccessedBy(SetsInUse(point))
            /\ deferred' = deferred \o fs
            /\ before' = before \o [i \in 1 .. Len(fs) |-> Before(told, actual, stale)]
            /\ actual' \in [Subresource -> Usages]
            /\ stale' = (stale \cup accessed) \ told
            /\ UNCHANGED <<imageVars, views, lastCall, rendered>>
    BY <1>5, SetsRecorded
  <2>2. told \subseteq Subresource /\ accessed \subseteq Subresource
    BY <2>1, AccessesInImage
  <2>3. fs \in Seq(Functions)
    <3>1. SetFunction(SetsInUse(point)) \subseteq Functions
      BY DirtySetsInUse DEF SetFunction, Functions, TypeInv
    <3> QED BY <2>1, <3>1
  <2>4. PICK bs : bs = [i \in 1 .. Len(fs) |-> Before(told, actual, stale)]
    OBVIOUS
  <2>5. Before(told, actual, stale) \in BeforeType
    BY <2>2 DEF Before, BeforeType, TypeInv, UsageTypeOK
  <2>6. bs \in Seq(BeforeType) /\ Len(bs) = Len(fs)
    BY <2>4, <2>5
  <2>7. QueueTypeOK'
    BY <2>1, <2>3, <2>4, <2>6, RecordedTyped DEF TypeInv
  <2>8. UsageTypeOK'
    BY <2>1, <2>2 DEF imageVars, TypeInv, UsageTypeOK
  <2> QED BY <2>7, <2>8
<1>6. ASSUME Calls PROVE QueueTypeOK' /\ UsageTypeOK'
  <2>1. QueueTypeOK' /\ deferred[1] \in Functions /\ Head(deferred) = deferred[1]
    BY <1>6, FunctionCalled DEF TypeInv
  <2>2. lastUsage' \in [Subresource -> Usages] /\ DOMAIN usageFlags' = Subresource
    <3>1. CASE IsSet(deferred[1])
      <4>1. SignalSet(deferred[1].set)
        BY <1>6, <2>1, <3>1 DEF Calls, CallFunction
      <4> QED BY <4>1 DEF SignalSet, Usages, TypeInv, UsageTypeOK
    <3>2. CASE ~ IsSet(deferred[1])
      <4>1. deferred[1].usage \in Usages
        BY <2>1, <3>2, KindsOfFunctions DEF UseFunction
      <4>2. SignalUsage(deferred[1].subresources, deferred[1].usage)
        BY <1>6, <2>1, <3>2 DEF Calls, CallFunction
      <4> QED BY <4>1, <4>2 DEF SignalUsage, TypeInv, UsageTypeOK
    <3> QED BY <3>1, <3>2
  <2> QED BY <1>6, <2>1, <2>2 DEF Calls, TypeInv, UsageTypeOK
<1>7. QueueTypeOK' /\ UsageTypeOK'
  BY <1>2, <1>3, <1>4, <1>5, <1>6, StepKinds
<1> QED BY <1>1, <1>7 DEF TypeInv

-----------------------------------------------------------------------------
(* Bound sets are signalled.                                                 *)

\* Of every dirty slot in use, the set is among those a draw or dispatch enqueues.
LEMMA DirtySetsEnqueued ==
    ASSUME TypeInv, NEW point \in BindPoint, RecordsSets(point),
           NEW slot \in SlotsInUse(point), bound[point][slot].dirty
    PROVE  bound[point][slot].set \in Enqueued
<1>1. PICK fs : fs = DirtySets(point)
  OBVIOUS
<1>2. PICK d : d = bound[point][slot].set
  OBVIOUS
<1>3. fs \in Seq(Functions)
  <2>1. SetsInUse(point) \subseteq Sets /\ fs \in Seq(SetFunction(SetsInUse(point)))
    BY <1>1, DirtySetsInUse DEF TypeInv
  <2>2. SetFunction(SetsInUse(point)) \subseteq Functions
    BY <2>1 DEF SetFunction, Functions
  <2> QED BY <2>1, <2>2
<1>4. PICK j \in 1 .. Len(fs) : fs[j] = [set |-> d]
  BY <1>1, <1>2, DirtySetsComplete DEF TypeInv
<1>5. deferred' = deferred \o fs
  BY <1>1 DEF RecordsSets, enqueueDescriptorSetUsage, Enqueue
<1>6. /\ Len(deferred) \in Nat /\ Len(fs) \in Nat /\ Len(deferred') = Len(deferred) + Len(fs)
      /\ \A i \in 1 .. Len(fs) : deferred'[Len(deferred) + i] = fs[i]
  BY <1>3, <1>5, Concatenated DEF TypeInv, QueueTypeOK
<1>7. Len(deferred) + j \in Len(deferred) + 1 .. Len(deferred')
  BY <1>6
<1>8. deferred'[Len(deferred) + j].set = d
  BY <1>4, <1>6
<1> QED BY <1>2, <1>7, <1>8 DEF Enqueued

\* A slot that is not dirty holds no set, or a function was enqueued for the one it
\* holds: clearing the mark is never all that a draw or dispatch does.
CleanSignalled ==
    \A p \in BindPoint, i \in Slot :
        bound[p][i].dirty \/ bound[p][i].set = NoSet \/ i \in signalled[p]

\* Every step keeps it, and misses no slot.
LEMMA BoundSetsStep ==
    ASSUME TypeInv, CleanSignalled, BoundSetsSignalled, [HistoryNext]_allVars
    PROVE  CleanSignalled' /\ BoundSetsSignalled'
<1> SUFFICES ASSUME HistoryNext PROVE CleanSignalled' /\ BoundSetsSignalled'
  BY DEF CleanSignalled, BoundSetsSignalled, allVars, usageVars, commandVars, history
<1>1. ASSUME NEW point \in BindPoint, NEW slot \in Slot, NEW set \in Sets,
             bindDescriptorSets(point, slot, set),
             signalled' = [signalled EXCEPT ![point] = @ \ {slot}]
      PROVE  CleanSignalled'
  <2> SUFFICES ASSUME NEW p \in BindPoint, NEW i \in Slot
               PROVE  bound'[p][i].dirty \/ bound'[p][i].set = NoSet \/ i \in signalled'[p]
    BY DEF CleanSignalled
  <2>1. CASE p = point /\ i = slot
    BY <1>1, <2>1 DEF bindDescriptorSets, Bound, TypeInv, BoundTypeOK
  <2>2. CASE ~ (p = point /\ i = slot)
    <3>1. bound'[p][i] = bound[p][i]
      BY <1>1, <2>2 DEF bindDescriptorSets, TypeInv, BoundTypeOK
    <3>2. i \in signalled[p] => i \in signalled'[p]
      BY <1>1, <2>2 DEF TypeInv, BoundTypeOK
    <3> QED BY <3>1, <3>2 DEF CleanSignalled
  <2> QED BY <2>1, <2>2
<1>2. ASSUME NEW point \in BindPoint, RecordsSets(point)
      PROVE  CleanSignalled' /\ BoundSetsSignalled'
  <2>1. PICK new : new = {i \in Slot : bound[point][i].set \in Enqueued}
    OBVIOUS
  <2>2. /\ signalled' = [signalled EXCEPT ![point] = @ \cup new]
        /\ missed' = missed \cup ({point} \X (SlotsInUse(point) \ signalled'[point]))
    BY <1>2, <2>1 DEF RecordsSets, UsesSets
  <2>3. signalled'[point] = signalled[point] \cup new
    BY <2>2 DEF TypeInv, BoundTypeOK
  <2>4. ASSUME NEW i \in SlotsInUse(point) PROVE i \in signalled'[point]
    <3>1. i \in Slot /\ bound[point][i].set # NoSet
      BY DEF SlotsInUse
    <3>2. bound[point][i].dirty => i \in new
      BY <1>2, <2>1, <3>1, DirtySetsEnqueued
    <3>3. ~ bound[point][i].dirty => i \in signalled[point]
      BY <3>1 DEF CleanSignalled
    <3> QED BY <2>3, <3>2, <3>3
  <2>5. BoundSetsSignalled'
    BY <2>2, <2>4 DEF BoundSetsSignalled
  <2>6. ASSUME NEW p \in BindPoint, NEW i \in Slot
        PROVE  bound'[p][i].dirty \/ bound'[p][i].set = NoSet \/ i \in signalled'[p]
    <3>1. signalled[p] \subseteq signalled'[p]
      BY <2>2 DEF TypeInv, BoundTypeOK
    <3>2. CASE p = point /\ i \in Signalled(point)
      <4>1. bound'[p][i].set = bound[p][i].set
        BY <1>2, <3>2 DEF RecordsSets, enqueueDescriptorSetUsage, TypeInv, BoundTypeOK
      <4>2. bound[p][i].set = NoSet \/ i \in SlotsInUse(point)
        BY <3>2 DEF Signalled, SlotsInUse
      <4> QED BY <2>4, <3>2, <4>1, <4>2
    <3>3. CASE ~ (p = point /\ i \in Signalled(point))
      <4>1. bound'[p][i] = bound[p][i]
        BY <1>2, <3>3 DEF RecordsSets, enqueueDescriptorSetUsage, TypeInv, BoundTypeOK
      <4> QED BY <3>1, <4>1 DEF CleanSignalled
    <3> QED BY <3>2, <3>3
  <2> QED BY <2>5, <2>6 DEF CleanSignalled
<1>3. ASSUME BeginCommandBuffer PROVE CleanSignalled'
  BY <1>3 DEF BeginCommandBuffer, Reset, CleanSignalled
<1>4. ASSUME UNCHANGED <<bound, signalled>> PROVE CleanSignalled'
  BY <1>4 DEF CleanSignalled
<1>5. ASSUME UNCHANGED missed PROVE BoundSetsSignalled'
  BY <1>5 DEF BoundSetsSignalled
<1>6. ASSUME UpdateDescriptorSets PROVE UNCHANGED bound
  BY <1>6 DEF UpdateDescriptorSets, WriteDescriptors, CopyDescriptors
<1>7. CASE CmdDraw /\ UsesSets("graphics")
  BY <1>2, <1>7 DEF CmdDraw, BindPoint, RecordsSets
<1>8. CASE CmdDispatch /\ UsesSets("compute")
  BY <1>2, <1>8 DEF CmdDispatch, BindPoint, RecordsSets
<1> QED
  BY <1>1, <1>3, <1>4, <1>5, <1>6, <1>7, <1>8
  DEF HistoryNext, bindPipeline, CmdBeginRenderPass, CmdEndRenderPass, CmdCopy, CmdClearImage,
      QueueSubmit, CallFunction, Uses, UsesTwice, history

\* For every number of slots, sets and layouts, and every sequence of binds, draws,
\* dispatches and passes: no draw or dispatch uses a bound set of which the buffer has
\* not enqueued, since it was bound there, a function that signals it.
THEOREM BoundSetsAreSignalled == HistorySpec => []BoundSetsSignalled
<1>1. HistoryInit => TypeInv /\ CleanSignalled /\ BoundSetsSignalled
  BY TypeInitially DEF HistoryInit, UsageInit, CleanSignalled, BoundSetsSignalled
<1>2. TypeInv /\ CleanSignalled /\ BoundSetsSignalled /\ [HistoryNext]_allVars
      => TypeInv' /\ CleanSignalled' /\ BoundSetsSignalled'
  BY TypeStep, BoundSetsStep
<1> QED BY <1>1, <1>2, PTL DEF HistorySpec

-----------------------------------------------------------------------------
(* What was rendered to keeps its flags.                                     *)

\* An entry of before: all it covers is signalled, and only accesses are stale.
EntryOK(entry, f) ==
    /\ \/ IsSet(f)
       \/ /\ entry.covers \subseteq f.subresources
          /\ AllLevels => entry.covers = f.subresources
    /\ \A s \in entry.stale : entry.actual[s] \in Accessed

EntriesInv ==
    /\ \A n \in DOMAIN deferred : EntryOK(before[n], deferred[n])
    /\ \A s \in stale : actual[s] \in Accessed

\* Stale subresources after a use.
LEMMA StaleAfter ==
    ASSUME NEW usages, NEW unseen \in SUBSET Subresource, NEW use,
           \A s \in unseen : usages[s] \in Accessed
    PROVE  \A s \in unseen \ use.subresources : After(usages, use)[s] \in Accessed
  BY DEF After

\* The entry recorded with a use is that of a function that signals the range.
LEMMA EntryOfUse ==
    ASSUME NEW use, NEW sub, Signalling(use, sub), NEW usages, NEW unseen,
           \A s \in unseen : usages[s] \in Accessed
    PROVE  EntryOK(Before(use.subresources, usages, unseen), Signal(sub, use.usage))
<1>1. /\ Before(use.subresources, usages, unseen).covers = use.subresources
      /\ Before(use.subresources, usages, unseen).stale = unseen
      /\ Before(use.subresources, usages, unseen).actual = usages
      /\ Signal(sub, use.usage).subresources = sub
  BY DEF Before, Signal
<1> QED BY <1>1 DEF Signalling, EntryOK

\* Entries are added.
LEMMA EntriesRecorded ==
    ASSUME QueueTypeOK, NEW fs \in Seq(Functions), NEW bs \in Seq(BeforeType), Len(fs) = Len(bs),
           deferred' = deferred \o fs, before' = before \o bs, EntriesInv,
           \A i \in 1 .. Len(fs) : EntryOK(bs[i], fs[i])
    PROVE  \A n \in DOMAIN deferred' : EntryOK(before'[n], deferred'[n])
<1>1. /\ Len(deferred) \in Nat /\ Len(fs) \in Nat /\ DOMAIN deferred = 1 .. Len(deferred)
      /\ DOMAIN deferred' = 1 .. Len(deferred) + Len(fs)
      /\ \A i \in 1 .. Len(deferred) : deferred'[i] = deferred[i] /\ before'[i] = before[i]
      /\ \A i \in 1 .. Len(fs) : /\ deferred'[Len(deferred) + i] = fs[i]
                                /\ before'[Len(deferred) + i] = bs[i]
  BY RecordedFunctions
<1> SUFFICES ASSUME NEW n \in 1 .. Len(deferred) + Len(fs) PROVE EntryOK(before'[n], deferred'[n])
  BY <1>1
<1>2. CASE n \in 1 .. Len(deferred)
  BY <1>1, <1>2 DEF EntriesInv
<1>3. CASE n \notin 1 .. Len(deferred)
  <2>1. n - Len(deferred) \in 1 .. Len(fs) /\ Len(deferred) + (n - Len(deferred)) = n
    BY <1>1, <1>3
  <2>2. deferred'[n] = fs[n - Len(deferred)] /\ before'[n] = bs[n - Len(deferred)]
    BY <1>1, <2>1
  <2> QED BY <2>1, <2>2
<1> QED BY <1>2, <1>3

\* Every step keeps the history of each recorded function that of the function.
LEMMA EntriesStep ==
    ASSUME TypeInv, EntriesInv, [HistoryNext]_allVars
    PROVE  EntriesInv'
<1>0. CASE UNCHANGED allVars
  BY <1>0 DEF EntriesInv, allVars, usageVars, commandVars, history
<1>1. CASE Quiet
  BY <1>1 DEF Quiet, EntriesInv
<1>2. ASSUME NEW use, NEW sub, Signalling(use, sub), RecordsUse(use, sub) PROVE EntriesInv'
  <2>1. PICK fs : fs = <<Signal(sub, use.usage)>>
    OBVIOUS
  <2>2. PICK bs : bs = <<Before(use.subresources, actual, stale)>>
    OBVIOUS
  <2>3. /\ Signal(sub, use.usage) \in Functions
        /\ Before(use.subresources, actual, stale) \in BeforeType
    BY <1>2 DEF Signalling, Signal, UseFunction, Functions, Before, BeforeType, TypeInv, UsageTypeOK
  <2>4. fs \in Seq(Functions) /\ bs \in Seq(BeforeType) /\ Len(fs) = 1 /\ Len(bs) = 1
    BY <2>1, <2>2, <2>3
  <2>5. EntryOK(bs[1], fs[1])
    BY <1>2, <2>1, <2>2, EntryOfUse DEF EntriesInv
  <2>6. deferred' = deferred \o fs /\ before' = before \o bs
    BY <1>2, <2>1, <2>2 DEF RecordsUse
  <2>7. \A n \in DOMAIN deferred' : EntryOK(before'[n], deferred'[n])
    <3>1. \A i \in 1 .. Len(fs) : EntryOK(bs[i], fs[i])
      BY <2>4, <2>5
    <3> QED BY <2>4, <2>6, <3>1, EntriesRecorded DEF TypeInv
  <2>8. \A s \in stale' : actual'[s] \in Accessed
    BY <1>2, StaleAfter DEF RecordsUse, EntriesInv, TypeInv, UsageTypeOK
  <2> QED BY <2>7, <2>8 DEF EntriesInv
<1>3. ASSUME NEW first, NEW second, NEW sub, Signalling(first, sub), Signalling(second, sub),
             RecordsUses(first, second, sub)
      PROVE  EntriesInv'
  <2>1. PICK fs : fs = <<Signal(sub, first.usage), Signal(sub, second.usage)>>
    OBVIOUS
  <2>2. PICK bs : bs =
            <<Before(first.subresources, actual, stale),
              Before(second.subresources, After(actual, first), stale \ first.subresources)>>
    OBVIOUS
  <2>3. /\ first \in UseFunction /\ Signal(sub, first.usage) \in Functions
        /\ second \in UseFunction /\ Signal(sub, second.usage) \in Functions
    BY <1>3 DEF Signalling, Signal, UseFunction, Functions
  <2>4. After(actual, first) \in [Subresource -> Usages]
    BY <2>3, AfterTyped DEF TypeInv, UsageTypeOK
  <2>5. /\ Before(first.subresources, actual, stale) \in BeforeType
        /\ Before(second.subresources, After(actual, first), stale \ first.subresources) \in BeforeType
    BY <2>3, <2>4 DEF Before, BeforeType, UseFunction, TypeInv, UsageTypeOK
  <2>6. fs \in Seq(Functions) /\ bs \in Seq(BeforeType) /\ Len(fs) = 2 /\ Len(bs) = 2
    BY <2>1, <2>2, <2>3, <2>5
  <2>7. \A s \in stale \ first.subresources : After(actual, first)[s] \in Accessed
    BY StaleAfter DEF EntriesInv, TypeInv, UsageTypeOK
  <2>8. EntryOK(bs[1], fs[1])
    BY <1>3, <2>1, <2>2, EntryOfUse DEF EntriesInv
  <2>9. EntryOK(bs[2], fs[2])
    BY <1>3, <2>1, <2>2, <2>7, EntryOfUse
  <2>10. deferred' = deferred \o fs /\ before' = before \o bs
    BY <1>3, <2>1, <2>2 DEF RecordsUses
  <2>11. \A n \in DOMAIN deferred' : EntryOK(before'[n], deferred'[n])
    <3>1. \A i \in 1 .. Len(fs) : EntryOK(bs[i], fs[i])
      BY <2>6, <2>8, <2>9
    <3> QED BY <2>6, <2>10, <3>1, EntriesRecorded DEF TypeInv
  <2>12. \A s \in stale' : actual'[s] \in Accessed
    <3>1. stale' = (stale \ first.subresources) \ second.subresources
      BY <1>3 DEF RecordsUses
    <3>2. actual' = After(After(actual, first), second)
      BY <1>3 DEF RecordsUses
    <3> QED BY <2>7, <3>1, <3>2, StaleAfter DEF TypeInv, UsageTypeOK
  <2> QED BY <2>11, <2>12 DEF EntriesInv
<1>4. ASSUME NEW point \in BindPoint, RecordsSets(point) PROVE EntriesInv'
  <2>1. PICK fs, told, accessed :
            /\ fs \in Seq(SetFunction(SetsInUse(point)))
            /\ told = AccessedBy({fs[i].set : i \in 1 .. Len(fs)})
            /\ deferred' = deferred \o fs
            /\ before' = before \o [i \in 1 .. Len(fs) |-> Before(told, actual, stale)]
            /\ \A s \in Subresource : IF s \in accessed THEN actual'[s] \in Accessed
                                      ELSE actual'[s] = actual[s]
            /\ stale' = (stale \cup accessed) \ told
            /\ accessed = AccessedBy(SetsInUse(point))
    BY <1>4, SetsRecorded
  <2>2. PICK bs : bs = [i \in 1 .. Len(fs) |-> Before(told, actual, stale)]
    OBVIOUS
  <2>3. Before(told, actual, stale) \in BeforeType
    BY <2>1, AccessesInImage DEF Before, BeforeType, TypeInv, UsageTypeOK
  <2>4. bs \in Seq(BeforeType) /\ Len(bs) = Len(fs)
    BY <2>2, <2>3
  <2>5. SetFunction(SetsInUse(point)) \subseteq SetFunction(Sets)
    BY DirtySetsInUse DEF SetFunction, TypeInv
  <2>6. fs \in Seq(Functions)
    BY <2>1, <2>5 DEF Functions
  <2>7. ASSUME NEW i \in 1 .. Len(fs) PROVE EntryOK(bs[i], fs[i])
    <3>1. IsSet(fs[i])
      BY <2>1, <2>5, KindsOfFunctions
    <3>2. bs[i].stale = stale /\ bs[i].actual = actual
      BY <2>2 DEF Before
    <3> QED BY <3>1, <3>2 DEF EntryOK, EntriesInv
  <2>8. \A n \in DOMAIN deferred' : EntryOK(before'[n], deferred'[n])
    BY <2>1, <2>2, <2>4, <2>6, <2>7, EntriesRecorded DEF TypeInv
  <2>9. \A s \in stale' : actual'[s] \in Accessed
    <3>1. accessed \subseteq Subresource /\ stale \subseteq Subresource
      BY <2>1, AccessesInImage DEF TypeInv, UsageTypeOK
    <3> QED BY <2>1, <3>1 DEF EntriesInv
  <2> QED BY <2>8, <2>9 DEF EntriesInv
<1>5. CASE Calls
  <2>1. /\ QueueTypeOK' /\ Len(deferred') = Len(deferred) - 1 /\ Len(deferred) \in Nat \ {0}
        /\ \A j \in 1 .. Len(deferred) - 1 :
               deferred'[j] = deferred[j + 1] /\ before'[j] = before[j + 1]
        /\ UNCHANGED <<actual, stale>>
    BY <1>5, FunctionCalled DEF TypeInv
  <2>2. ASSUME NEW n \in DOMAIN deferred'
        PROVE  n \in 1 .. Len(deferred) - 1 /\ n + 1 \in DOMAIN deferred
    BY <2>1 DEF TypeInv, QueueTypeOK
  <2> QED BY <2>1, <2>2 DEF EntriesInv
<1> QED BY <1>0, <1>1, <1>2, <1>3, <1>4, <1>5, StepKinds

ToTargets == {"RenderPassStored", "RenderPassDiscarded"}

TargetsFlagged ==
    \A s \in rendered : s \in Subresource /\ usageFlags[s] \cap ToTargets # {}

\* Every step keeps the targets that were drawn to free of the flag that reports them.
LEMMA TargetsStep ==
    ASSUME TypeInv, EntriesInv, TargetsFlagged, [HistoryNext]_allVars
    PROVE  TargetsFlagged'
<1>0. CASE UNCHANGED allVars
  BY <1>0 DEF TargetsFlagged, allVars, usageVars, imageVars, history
<1>1. CASE UNCHANGED <<imageVars, rendered>>
  BY <1>1 DEF TargetsFlagged, imageVars
<1>2. CASE Calls
  <2>1. /\ deferred[1] \in Functions /\ before[1] \in BeforeType /\ 1 \in DOMAIN deferred
        /\ Head(deferred) = deferred[1] /\ Head(before) = before[1]
    BY <1>2, FunctionCalled DEF TypeInv
  <2>2. ASSUME NEW s \in Subresource PROVE usageFlags[s] \subseteq usageFlags'[s]
    <3>1. CASE IsSet(deferred[1])
      <4>1. SignalSet(deferred[1].set)
        BY <1>2, <2>1, <3>1 DEF Calls, CallFunction
      <4> QED BY <4>1 DEF SignalSet, Flags
    <3>2. CASE ~ IsSet(deferred[1])
      <4>1. SignalUsage(deferred[1].subresources, deferred[1].usage)
        BY <1>2, <2>1, <3>2 DEF Calls, CallFunction
      <4> QED BY <4>1 DEF SignalUsage, Flags
    <3> QED BY <3>1, <3>2
  <2>3. ASSUME NEW s \in rendered', s \notin rendered
        PROVE  s \in Subresource /\ usageFlags'[s] \cap ToTargets # {}
    <3>1. UsageOf(deferred[1]) \in ToTargets /\ s \in before[1].covers
      BY <1>2, <2>1, <2>3 DEF Calls, ToTargets
    <3>2. ~ IsSet(deferred[1]) /\ deferred[1].usage \in ToTargets
      BY <3>1 DEF UsageOf, ToTargets
    <3>3. s \in deferred[1].subresources /\ s \in Subresource
      BY <2>1, <3>1, <3>2 DEF EntriesInv, EntryOK, BeforeType
    <3>4. SignalUsage(deferred[1].subresources, deferred[1].usage)
      BY <1>2, <2>1, <3>2 DEF Calls, CallFunction
    <3>5. deferred[1].usage \in usageFlags'[s]
      BY <3>2, <3>3, <3>4 DEF SignalUsage, Flags, ToTargets
    <3> QED BY <3>2, <3>3, <3>5
  <2>4. ASSUME NEW s \in rendered PROVE s \in Subresource /\ usageFlags'[s] \cap ToTargets # {}
    BY <2>2, <2>4 DEF TargetsFlagged
  <2> QED BY <2>3, <2>4 DEF TargetsFlagged
<1>3. ASSUME NEW point \in BindPoint, RecordsSets(point) PROVE UNCHANGED <<imageVars, rendered>>
  BY <1>3 DEF RecordsSets, enqueueDescriptorSetUsage, UsesSets
<1>4. HistoryNext => UNCHANGED <<imageVars, rendered>> \/ Calls
  BY <1>3, StepKinds DEF Quiet, RecordsUse, RecordsUses
<1> QED BY <1>0, <1>1, <1>2, <1>4

\* For every image and all views: one that starts at the first layer and level, and
\* that a submitted render pass has rendered to, is not reported as a texture.
THEOREM RenderTargetsAreNotReported == HistorySpec => []RenderTargetsNotReported
<1> DEFINE Inv == TypeInv /\ EntriesInv /\ TargetsFlagged
<1>1. HistoryInit => Inv
  BY TypeInitially DEF HistoryInit, UsageInit, EntriesInv, TargetsFlagged
<1>2. Inv /\ [HistoryNext]_allVars => Inv'
  BY TypeStep, EntriesStep, TargetsStep
<1>3. Inv => RenderTargetsNotReported
  <2> SUFFICES ASSUME TargetsFlagged, NEW v \in Views,
                      ViewRange[v].baseArrayLayer = 0, ViewRange[v].baseMipLevel = 0,
                      NEW s \in Covers(ViewRange[v]) \cap rendered
               PROVE  TextureReports(v) = {}
    BY DEF RenderTargetsNotReported
  <2>1. ViewRange[v] \in SubresourceRange
    BY RangeAssumption
  <2>2. ViewRange[v].layerCount \in Nat /\ ViewRange[v].levelCount \in Nat
    BY <2>1 DEF SubresourceRange
  <2>3. /\ s \in (0 .. arrayLayers - 1) \X (0 .. mipLevels - 1)
        /\ s[1] < ViewRange[v].layerCount /\ s[2] < ViewRange[v].levelCount
    BY <2>2 DEF Covers, InLayers, Subresource
  <2>4. s \in Inspected(v)
    BY <2>2, <2>3, ImageAssumption DEF Inspected
  <2>5. usageFlags[s] \cap ToTargets # {}
    BY DEF TargetsFlagged
  <2>6. isRenderTarget(v)
    BY <2>4, <2>5 DEF isRenderTarget, ToTargets
  <2> QED BY <2>6 DEF TextureReports
<1> QED BY <1>1, <1>2, <1>3, PTL DEF HistorySpec

-----------------------------------------------------------------------------
(* What the layer is told is what happened.                                  *)

\* What a function touches, and the usage it leaves there.
Touched(f) ==
    IF IsSet(f) THEN Accesses(f.set, "sampled") \cup Accesses(f.set, "storage") ELSE f.subresources

Leaves(f) ==
    [s \in Subresource |->
        IF ~ IsSet(f) THEN f.usage
        ELSE IF s \in Accesses(f.set, "storage") THEN "ResourceWrite" ELSE "ResourceRead"]

touched == [n \in DOMAIN deferred |-> Touched(deferred[n])]
left == [n \in DOMAIN deferred |-> Leaves(deferred[n])]

\* When the function that tells of a use is called, and when the whole buffer has been
\* replayed, the last usages are like those of the commands, but for stale ones.
ToldInv ==
    /\ Told(touched, left, lastUsage, Len(deferred) + 1, actual, stale)
    /\ \A n \in DOMAIN deferred :
           \/ IsSet(deferred[n])
           \/ Told(touched, left, lastUsage, n, before[n].actual, before[n].stale)

\* A set signals what its views are of.
LEMMA SetsSignalAccesses ==
    ASSUME ViewsTypeOK, AllLevels, NEW d \in Sets, NEW type
    PROVE  Viewed(ViewsOf(d, type)) = Accesses(d, type)
<1>1. ASSUME NEW v \in ViewsOf(d, type) PROVE v \in Views
  <2>1. PICK b \in Bindings : \E i \in 1 .. arraySize[b] : v = views[d][b][i]
    <3>1. PICK some \in {{views[d][b][i] : i \in 1 .. arraySize[b]} :
                              b \in {c \in Bindings : bindingType[c] = type}} : v \in some
      BY DEF ViewsOf
    <3>2. PICK b \in {c \in Bindings : bindingType[c] = type} :
              some = {views[d][b][i] : i \in 1 .. arraySize[b]}
      BY <3>1
    <3> QED BY <3>1, <3>2
  <2>2. PICK i \in 1 .. arraySize[b] : v = views[d][b][i]
    BY <2>1
  <2>3. views[d][b] \in Described /\ DOMAIN views[d][b] = 1 .. arraySize[b]
    BY DEF ViewsTypeOK
  <2>4. PICK n \in Nat : views[d][b] \in [1 .. n -> Views \cup {NoView}]
    BY <2>3 DEF Described
  <2>5. v \in Views \cup {NoView}
    BY <2>2, <2>3, <2>4
  <2>6. v # NoView
    <3>1. \A all : v \in all \ {NoView} => v # NoView
      OBVIOUS
    <3> QED BY <3>1, Zenon DEF ViewsOf
  <2> QED BY <2>5, <2>6
<1>2. ASSUME NEW v \in ViewsOf(d, type) PROVE OfRange(ViewRange[v]) = Covers(ViewRange[v])
  <2>1. ViewRange[v] \in SubresourceRange /\ ReachesLastLevel(ViewRange[v])
    BY <1>1, RangeAssumption DEF AllLevels
  <2> QED BY <2>1, RangesExact
<1> QED BY <1>2 DEF Viewed, Accesses, CoversViews

\* A called function leaves what Touched and Leaves say.
LEMMA CalledLeaves ==
    ASSUME TypeInv, AllLevels, Calls, NEW s \in Subresource
    PROVE  lastUsage'[s] = IF s \in Touched(deferred[1]) THEN Leaves(deferred[1])[s] ELSE lastUsage[s]
<1>1. deferred[1] \in Functions /\ Head(deferred) = deferred[1]
  BY FunctionCalled DEF TypeInv
<1>2. CASE IsSet(deferred[1])
  <2>1. SignalSet(deferred[1].set)
    BY <1>1, <1>2 DEF Calls, CallFunction
  <2>2. deferred[1].set \in Sets
    BY <1>1, <1>2, KindsOfFunctions
  <2>3. /\ Viewed(ViewsOf(deferred[1].set, "sampled")) = Accesses(deferred[1].set, "sampled")
        /\ Viewed(ViewsOf(deferred[1].set, "storage")) = Accesses(deferred[1].set, "storage")
    BY <2>2, SetsSignalAccesses DEF TypeInv
  <2> QED BY <1>2, <2>1, <2>3 DEF SignalSet, Touched, Leaves
<1>3. CASE ~ IsSet(deferred[1])
  <2>1. SignalUsage(deferred[1].subresources, deferred[1].usage)
    BY <1>1, <1>3 DEF Calls, CallFunction
  <2> QED BY <1>3, <2>1 DEF SignalUsage, Touched, Leaves
<1> QED BY <1>2, <1>3

\* Functions touch and leave the same while their sets are not updated.
LEMMA TouchedSame ==
    ASSUME NEW f, IsSet(f) => views'[f.set] = views[f.set]
    PROVE  Touched(f)' = Touched(f) /\ Leaves(f)' = Leaves(f)
<1>1. CASE IsSet(f)
  <2>1. \A type : ViewsOf(f.set, type)' = ViewsOf(f.set, type)
    BY <1>1 DEF ViewsOf
  <2>2. \A type : Accesses(f.set, type)' = Accesses(f.set, type)
    BY <2>1 DEF Accesses
  <2> QED BY <1>1, <2>2 DEF Touched, Leaves
<1>2. CASE ~ IsSet(f)
  BY <1>2 DEF Touched, Leaves
<1> QED BY <1>1, <1>2

\* Recording functions leaves alone what those before them touch.
LEMMA TouchedRecorded ==
    ASSUME QueueTypeOK, NEW fs \in Seq(Functions), NEW bs \in Seq(BeforeType), Len(fs) = Len(bs),
           deferred' = deferred \o fs, before' = before \o bs, views' = views
    PROVE  /\ \A i \in 1 .. Len(deferred) : touched'[i] = touched[i] /\ left'[i] = left[i]
           /\ \A i \in 1 .. Len(fs) : /\ touched'[Len(deferred) + i] = Touched(fs[i])
                                     /\ left'[Len(deferred) + i] = Leaves(fs[i])
<1>1. /\ Len(deferred) \in Nat /\ Len(fs) \in Nat /\ DOMAIN deferred = 1 .. Len(deferred)
      /\ DOMAIN deferred' = 1 .. Len(deferred) + Len(fs)
      /\ \A i \in 1 .. Len(deferred) : deferred'[i] = deferred[i]
      /\ \A i \in 1 .. Len(fs) : deferred'[Len(deferred) + i] = fs[i]
  BY RecordedFunctions
<1>2. ASSUME NEW i \in 1 .. Len(deferred) + Len(fs), NEW f, f = deferred'[i]
      PROVE  touched'[i] = Touched(f) /\ left'[i] = Leaves(f)
  <2>1. touched'[i] = Touched(f)' /\ left'[i] = Leaves(f)'
    BY <1>1, <1>2 DEF touched, left, Touched, Leaves
  <2> QED BY <2>1, TouchedSame
<1>3. ASSUME NEW i \in 1 .. Len(deferred) PROVE touched'[i] = touched[i] /\ left'[i] = left[i]
  <2>1. PICK f : f = deferred[i]
    OBVIOUS
  <2>2. touched[i] = Touched(f) /\ left[i] = Leaves(f)
    BY <1>1, <2>1 DEF touched, left
  <2>3. i \in 1 .. Len(deferred) + Len(fs) /\ f = deferred'[i]
    BY <1>1, <2>1
  <2> QED BY <1>2, <2>2, <2>3
<1>4. ASSUME NEW i \in 1 .. Len(fs)
      PROVE  touched'[Len(deferred) + i] = Touched(fs[i]) /\ left'[Len(deferred) + i] = Leaves(fs[i])
  <2>1. PICK n : n = Len(deferred) + i
    OBVIOUS
  <2>2. n \in 1 .. Len(deferred) + Len(fs) /\ deferred'[n] = fs[i]
    BY <1>1, <2>1
  <2> QED BY <1>2, <2>1, <2>2
<1> QED BY <1>3, <1>4

\* What was told is still told when more is recorded.
LEMMA ToldRecorded ==
    ASSUME QueueTypeOK, NEW fs \in Seq(Functions), NEW bs \in Seq(BeforeType), Len(fs) = Len(bs),
           deferred' = deferred \o fs, before' = before \o bs, UNCHANGED <<imageVars, views>>, ToldInv,
           NEW T, NEW L, NEW last, T = touched', L = left', last = lastUsage'
    PROVE  /\ Told(T, L, last, Len(deferred) + 1, actual, stale)
           /\ \A n \in 1 .. Len(deferred) :
                  \/ IsSet(deferred'[n])
                  \/ Told(T, L, last, n, before'[n].actual, before'[n].stale)
<1>1. /\ \A i \in 1 .. Len(deferred) : T[i] = touched[i] /\ L[i] = left[i]
      /\ last = lastUsage
  BY TouchedRecorded DEF imageVars
<1>2. /\ Len(deferred) \in Nat /\ DOMAIN deferred = 1 .. Len(deferred)
      /\ \A i \in 1 .. Len(deferred) : deferred'[i] = deferred[i] /\ before'[i] = before[i]
  BY RecordedFunctions
<1>3. Told(T, L, last, Len(deferred) + 1, actual, stale)
  <2>1. PICK n : n = Len(deferred) + 1
    OBVIOUS
  <2>2. n \in Nat /\ n - 1 = Len(deferred)
    BY <1>2, <2>1
  <2>3. PICK usages, unseen, T0, L0 : usages = actual /\ unseen = stale /\ T0 = touched /\ L0 = left
    OBVIOUS
  <2>4. Told(T0, L0, last, n, usages, unseen)
    BY <1>1, <2>1, <2>3 DEF ToldInv
  <2>5. \A j \in 1 .. n - 1 : T[j] = T0[j] /\ L[j] = L0[j]
    BY <1>1, <2>2, <2>3
  <2>6. Told(T, L, last, n, usages, unseen)
    BY <2>2, <2>4, <2>5, ToldSame
  <2> QED BY <2>1, <2>3, <2>6
<1>4. ASSUME NEW n \in 1 .. Len(deferred), ~ IsSet(deferred'[n])
      PROVE  Told(T, L, last, n, before'[n].actual, before'[n].stale)
  <2>1. n \in DOMAIN deferred /\ ~ IsSet(deferred[n]) /\ before'[n] = before[n]
    BY <1>2, <1>4
  <2>2. Told(touched, left, lastUsage, n, before[n].actual, before[n].stale)
    BY <2>1 DEF ToldInv
  <2>3. n \in Nat /\ \A j \in 1 .. n - 1 : T[j] = touched[j] /\ L[j] = left[j]
    BY <1>1, <1>2
  <2>4. PICK usages, unseen, T0, L0 :
            usages = before[n].actual /\ unseen = before[n].stale /\ T0 = touched /\ L0 = left
    OBVIOUS
  <2>5. Told(T0, L0, last, n, usages, unseen) /\ \A j \in 1 .. n - 1 : T[j] = T0[j] /\ L[j] = L0[j]
    BY <1>1, <2>2, <2>3, <2>4
  <2>6. Told(T, L, last, n, usages, unseen)
    BY <2>3, <2>5, ToldSame
  <2> QED BY <2>1, <2>4, <2>6
<1> QED BY <1>3, <1>4

\* A function that signals a use.
LEMMA UseSignalled ==
    ASSUME NEW use, NEW sub, AllLevels, Signalling(use, sub)
    PROVE  /\ Signal(sub, use.usage) \in Functions /\ ~ IsSet(Signal(sub, use.usage))
           /\ Touched(Signal(sub, use.usage)) = use.subresources
           /\ \A s \in Subresource : Leaves(Signal(sub, use.usage))[s] = use.usage
<1>1. Signal(sub, use.usage) \in UseFunction
  BY DEF Signalling, Signal, UseFunction
<1>2. ~ IsSet(Signal(sub, use.usage))
  BY <1>1, KindsOfFunctions
<1>3. sub = use.subresources
  BY DEF Signalling
<1> QED BY <1>1, <1>2, <1>3 DEF Functions, Touched, Leaves, Signal

\* Recording one use.
LEMMA ToldUseStep ==
    ASSUME TypeInv, AllLevels, ToldInv, NEW use, NEW sub, Signalling(use, sub), RecordsUse(use, sub)
    PROVE  ToldInv'
<1>1. PICK T, L, last : T = touched' /\ L = left' /\ last = lastUsage'
  OBVIOUS
<1>2. PICK f, b : f = Signal(sub, use.usage) /\ b = Before(use.subresources, actual, stale)
  OBVIOUS
<1>3. PICK fs, bs : fs = <<f>> /\ bs = <<b>>
  OBVIOUS
<1>4. f \in Functions /\ Touched(f) = use.subresources /\ \A s \in Subresource : Leaves(f)[s] = use.usage
  BY <1>2, UseSignalled
<1>5. b \in BeforeType /\ b.actual = actual /\ b.stale = stale
  BY <1>2 DEF Before, BeforeType, TypeInv, UsageTypeOK, Signalling, UseFunction
<1>6. /\ fs \in Seq(Functions) /\ bs \in Seq(BeforeType) /\ Len(fs) = Len(bs)
      /\ Len(fs) = 1 /\ fs[1] = f /\ bs[1] = b
  BY <1>3, <1>4, <1>5
<1>7. /\ deferred' = deferred \o fs /\ before' = before \o bs /\ UNCHANGED <<imageVars, views>>
      /\ actual' = After(actual, use) /\ stale' = stale \ use.subresources
  BY <1>2, <1>3 DEF RecordsUse
<1>8. QueueTypeOK
  BY DEF TypeInv
<1>9. PICK n : n = Len(deferred) + 1
  OBVIOUS
<1>10. /\ Told(T, L, last, n, actual, stale)
       /\ \A i \in 1 .. Len(deferred) :
              IsSet(deferred'[i]) \/ Told(T, L, last, i, before'[i].actual, before'[i].stale)
  BY <1>1, <1>6, <1>7, <1>8, <1>9, ToldRecorded
<1>11. /\ Len(deferred) \in Nat /\ Len(deferred') = n /\ DOMAIN deferred' = 1 .. n
       /\ before'[n] = b
  <2>1. /\ Len(deferred) \in Nat /\ Len(fs) \in Nat
        /\ DOMAIN deferred' = 1 .. Len(deferred) + Len(fs)
        /\ Len(deferred') = Len(deferred) + Len(fs)
        /\ \A i \in 1 .. Len(fs) : before'[Len(deferred) + i] = bs[i]
    BY <1>6, <1>7, <1>8, RecordedFunctions
  <2> QED BY <1>6, <1>9, <2>1
<1>12. T[n] = Touched(f) /\ L[n] = Leaves(f)
  <2>1. \A i \in 1 .. Len(fs) : /\ touched'[Len(deferred) + i] = Touched(fs[i])
                               /\ left'[Len(deferred) + i] = Leaves(fs[i])
    BY <1>6, <1>7, <1>8, TouchedRecorded
  <2> QED BY <1>1, <1>6, <1>9, <2>1
<1>13. Told(T, L, last, n + 1, After(actual, use), stale \ use.subresources)
  <2>1. PICK usages, unseen : usages = actual /\ unseen = stale
    OBVIOUS
  <2>2. Told(T, L, last, n, usages, unseen)
    BY <1>10, <2>1
  <2>3. n \in Nat \ {0}
    BY <1>9, <1>11
  <2>4. Told(T, L, last, n + 1, After(usages, use), unseen \ use.subresources)
    BY <1>4, <1>12, <2>2, <2>3, ToldUse
  <2> QED BY <2>1, <2>4
<1>14. ASSUME NEW i \in DOMAIN deferred', ~ IsSet(deferred'[i])
       PROVE  Told(T, L, last, i, before'[i].actual, before'[i].stale)
  <2>1. CASE i = n
    BY <1>5, <1>10, <1>11, <2>1
  <2>2. CASE i # n
    <3>1. i \in 1 .. Len(deferred)
      BY <1>9, <1>11, <2>2
    <3> QED BY <1>10, <1>14, <3>1
  <2> QED BY <2>1, <2>2
<1> QED BY <1>1, <1>7, <1>11, <1>13, <1>14 DEF ToldInv

\* Recording two uses, one after the other.
LEMMA ToldUsesStep ==
    ASSUME TypeInv, AllLevels, ToldInv, NEW first, NEW second, NEW sub,
           Signalling(first, sub), Signalling(second, sub), RecordsUses(first, second, sub)
    PROVE  ToldInv'
<1>1. PICK T, L, last : T = touched' /\ L = left' /\ last = lastUsage'
  OBVIOUS
<1>2. PICK usages, unseen : usages = After(actual, first) /\ unseen = stale \ first.subresources
  OBVIOUS
<1>3. PICK f, b : f = Signal(sub, first.usage) /\ b = Before(first.subresources, actual, stale)
  OBVIOUS
<1>4. PICK g, c : g = Signal(sub, second.usage) /\ c = Before(second.subresources, usages, unseen)
  OBVIOUS
<1>5. PICK fs, bs : fs = <<f, g>> /\ bs = <<b, c>>
  OBVIOUS
<1>6. /\ f \in Functions /\ Touched(f) = first.subresources
      /\ \A s \in Subresource : Leaves(f)[s] = first.usage
      /\ g \in Functions /\ Touched(g) = second.subresources
      /\ \A s \in Subresource : Leaves(g)[s] = second.usage
  BY <1>3, <1>4, UseSignalled
<1>7. /\ first \in UseFunction /\ second \in UseFunction
      /\ usages \in [Subresource -> Usages] /\ unseen \subseteq Subresource
  BY <1>2, AfterTyped DEF Signalling, TypeInv, UsageTypeOK
<1>8. /\ b \in BeforeType /\ b.actual = actual /\ b.stale = stale
      /\ c \in BeforeType /\ c.actual = usages /\ c.stale = unseen
  BY <1>3, <1>4, <1>7 DEF Before, BeforeType, TypeInv, UsageTypeOK, UseFunction
<1>9. /\ fs \in Seq(Functions) /\ bs \in Seq(BeforeType) /\ Len(fs) = Len(bs) /\ Len(fs) = 2
      /\ fs[1] = f /\ bs[1] = b /\ fs[2] = g /\ bs[2] = c
  BY <1>5, <1>6, <1>8
<1>10. /\ deferred' = deferred \o fs /\ before' = before \o bs /\ UNCHANGED <<imageVars, views>>
       /\ actual' = After(usages, second) /\ stale' = unseen \ second.subresources
  BY <1>2, <1>3, <1>4, <1>5 DEF RecordsUses
<1>11. QueueTypeOK
  BY DEF TypeInv
<1>12. PICK n : n = Len(deferred) + 1
  OBVIOUS
<1>13. /\ Told(T, L, last, n, actual, stale)
       /\ \A i \in 1 .. Len(deferred) :
              IsSet(deferred'[i]) \/ Told(T, L, last, i, before'[i].actual, before'[i].stale)
  BY <1>1, <1>9, <1>10, <1>11, <1>12, ToldRecorded
<1>14. /\ Len(deferred) \in Nat /\ Len(deferred') = n + 1 /\ DOMAIN deferred' = 1 .. n + 1
       /\ before'[n] = b /\ before'[n + 1] = c
  <2>1. /\ Len(deferred) \in Nat /\ Len(fs) \in Nat
        /\ DOMAIN deferred' = 1 .. Len(deferred) + Len(fs)
        /\ Len(deferred') = Len(deferred) + Len(fs)
        /\ \A i \in 1 .. Len(fs) : before'[Len(deferred) + i] = bs[i]
    BY <1>9, <1>10, <1>11, RecordedFunctions
  <2>2. n + 1 = Len(deferred) + 2
    BY <1>12, <2>1
  <2> QED BY <1>9, <1>12, <2>1, <2>2
<1>15. T[n] = Touched(f) /\ L[n] = Leaves(f) /\ T[n + 1] = Touched(g) /\ L[n + 1] = Leaves(g)
  <2>1. \A i \in 1 .. Len(fs) : /\ touched'[Len(deferred) + i] = Touched(fs[i])
                               /\ left'[Len(deferred) + i] = Leaves(fs[i])
    BY <1>9, <1>10, <1>11, TouchedRecorded
  <2>2. n + 1 = Len(deferred) + 2
    BY <1>12, <1>14
  <2> QED BY <1>1, <1>9, <1>12, <2>1, <2>2
<1>16. n \in Nat \ {0} /\ n + 1 \in Nat \ {0}
  BY <1>12, <1>14
<1>17. Told(T, L, last, n + 1, usages, unseen)
  <2>1. PICK usages0, unseen0 : usages0 = actual /\ unseen0 = stale
    OBVIOUS
  <2>2. Told(T, L, last, n, usages0, unseen0)
    BY <1>13, <2>1
  <2>3. Told(T, L, last, n + 1, After(usages0, first), unseen0 \ first.subresources)
    BY <1>6, <1>15, <1>16, <2>2, ToldUse
  <2> QED BY <1>2, <2>1, <2>3
<1>18. Told(T, L, last, (n + 1) + 1, After(usages, second), unseen \ second.subresources)
  BY <1>6, <1>15, <1>16, <1>17, ToldUse
<1>19. ASSUME NEW i \in DOMAIN deferred', ~ IsSet(deferred'[i])
       PROVE  Told(T, L, last, i, before'[i].actual, before'[i].stale)
  <2>1. CASE i = n
    BY <1>8, <1>13, <1>14, <2>1
  <2>2. CASE i = n + 1
    BY <1>8, <1>14, <1>17, <2>2
  <2>3. CASE i # n /\ i # n + 1
    <3>1. i \in 1 .. Len(deferred)
      BY <1>12, <1>14, <2>3
    <3> QED BY <1>13, <1>19, <3>1
  <2> QED BY <2>1, <2>2, <2>3
<1> QED BY <1>1, <1>10, <1>14, <1>18, <1>19 DEF ToldInv

\* Recording the sets of a draw or dispatch.
LEMMA ToldSetsStep ==
    ASSUME TypeInv, ToldInv, NEW point \in BindPoint, RecordsSets(point)
    PROVE  ToldInv'
<1>1. PICK T, L, last : T = touched' /\ L = left' /\ last = lastUsage'
  OBVIOUS
<1>0. PICK fs, told, accessed :
          /\ fs \in Seq(SetFunction(SetsInUse(point)))
          /\ told = AccessedBy({fs[i].set : i \in 1 .. Len(fs)})
          /\ accessed = AccessedBy(SetsInUse(point))
          /\ deferred' = deferred \o fs
          /\ before' = before \o [i \in 1 .. Len(fs) |-> Before(told, actual, stale)]
          /\ \A s \in Subresource : IF s \in accessed THEN actual'[s] \in Accessed
                                    ELSE actual'[s] = actual[s]
          /\ stale' = (stale \cup accessed) \ told
          /\ told \subseteq accessed
          /\ UNCHANGED <<imageVars, views, lastCall, rendered>>
  BY SetsRecorded
<1>2. PICK usages :
          /\ usages = actual'
          /\ \A s \in Subresource : IF s \in accessed THEN usages[s] \in Accessed
                                    ELSE usages[s] = actual[s]
  BY <1>0
<1>3. PICK bs : bs = [i \in 1 .. Len(fs) |-> Before(told, actual, stale)]
  OBVIOUS
<1>4. Before(told, actual, stale) \in BeforeType
  BY <1>0, AccessesInImage DEF Before, BeforeType, TypeInv, UsageTypeOK
<1>5. bs \in Seq(BeforeType) /\ Len(bs) = Len(fs) /\ Len(fs) \in Nat
  BY <1>3, <1>4
<1>6. fs \in Seq(SetFunction(Sets)) /\ fs \in Seq(Functions)
  <2>1. SetFunction(SetsInUse(point)) \subseteq SetFunction(Sets)
    BY DirtySetsInUse DEF SetFunction, TypeInv
  <2> QED BY <1>0, <2>1 DEF Functions
<1>7. deferred' = deferred \o fs /\ before' = before \o bs /\ UNCHANGED <<imageVars, views>>
  BY <1>0, <1>3
<1>8. QueueTypeOK
  BY DEF TypeInv
<1>9. PICK n : n = Len(deferred) + 1
  OBVIOUS
<1>10. PICK m : m = n + Len(fs)
  OBVIOUS
<1>11. /\ Told(T, L, last, n, actual, stale)
       /\ \A i \in 1 .. Len(deferred) :
              IsSet(deferred'[i]) \/ Told(T, L, last, i, before'[i].actual, before'[i].stale)
  BY <1>1, <1>5, <1>6, <1>7, <1>8, <1>9, ToldRecorded
<1>12. /\ Len(deferred) \in Nat /\ DOMAIN deferred' = 1 .. Len(deferred) + Len(fs)
       /\ Len(deferred') = Len(deferred) + Len(fs)
       /\ \A i \in 1 .. Len(fs) : deferred'[Len(deferred) + i] = fs[i]
  BY <1>5, <1>6, <1>7, <1>8, RecordedFunctions
<1>13. \A i \in 1 .. Len(fs) : /\ touched'[Len(deferred) + i] = Touched(fs[i])
                              /\ left'[Len(deferred) + i] = Leaves(fs[i])
  BY <1>5, <1>6, <1>7, <1>8, TouchedRecorded
<1>14. n \in Nat \ {0} /\ m \in Nat /\ n <= m
  BY <1>5, <1>9, <1>10, <1>12
<1>15. ASSUME NEW k \in n .. m - 1
       PROVE  k - Len(deferred) \in 1 .. Len(fs) /\ Len(deferred) + (k - Len(deferred)) = k
  BY <1>5, <1>9, <1>10, <1>12
<1>16. ASSUME NEW i \in 1 .. Len(fs) PROVE IsSet(fs[i])
  BY <1>6, KindsOfFunctions
<1>17. ASSUME NEW i \in 1 .. Len(fs)
       PROVE  /\ Touched(fs[i]) \subseteq told
              /\ \A s \in Touched(fs[i]) : Leaves(fs[i])[s] \in Accessed
  <2>1. Touched(fs[i]) = Accesses(fs[i].set, "sampled") \cup Accesses(fs[i].set, "storage")
    BY <1>16 DEF Touched
  <2>2. Touched(fs[i]) \subseteq told
    <3>1. fs[i].set \in {fs[j].set : j \in 1 .. Len(fs)}
      OBVIOUS
    <3> QED BY <1>0, <2>1, <3>1 DEF AccessedBy
  <2>3. Touched(fs[i]) \subseteq Subresource
    BY <2>1, AccessesInImage
  <2>4. \A s \in Subresource : Leaves(fs[i])[s] \in Accessed
    BY <1>16 DEF Leaves, Accessed
  <2> QED BY <2>2, <2>3, <2>4
<1>18. ASSUME NEW k \in n .. m - 1 PROVE T[k] \subseteq told /\ \A s \in T[k] : L[k][s] \in Accessed
  <2>1. PICK i \in 1 .. Len(fs) : Len(deferred) + i = k
    BY <1>15
  <2>2. T[k] = Touched(fs[i]) /\ L[k] = Leaves(fs[i])
    BY <1>1, <1>13, <2>1
  <2> QED BY <1>17, <2>2
<1>19. ASSUME NEW s \in told PROVE \E k \in n .. m - 1 : s \in T[k]
  <2>1. PICK d \in {fs[i].set : i \in 1 .. Len(fs)} :
            s \in Accesses(d, "sampled") \cup Accesses(d, "storage")
    BY <1>0 DEF AccessedBy
  <2>2. PICK i \in 1 .. Len(fs) : d = fs[i].set
    BY <2>1
  <2>3. s \in Touched(fs[i])
    BY <1>16, <2>1, <2>2 DEF Touched
  <2>4. Len(deferred) + i \in n .. m - 1
    BY <1>5, <1>9, <1>10, <1>12
  <2>5. T[Len(deferred) + i] = Touched(fs[i])
    BY <1>1, <1>13
  <2> QED BY <2>3, <2>4, <2>5
<1>20. Told(T, L, last, m, usages, (stale \cup accessed) \ told)
  <2>1. PICK usages0, unseen0 : usages0 = actual /\ unseen0 = stale
    OBVIOUS
  <2>2. /\ Told(T, L, last, n, usages0, unseen0)
        /\ \A s \in Subresource : IF s \in accessed THEN usages[s] \in Accessed
                                  ELSE usages[s] = usages0[s]
    BY <1>2, <1>11, <2>1
  <2>3. told \subseteq accessed
    BY <1>0
  <2>4. Told(T, L, last, m, usages, (unseen0 \cup accessed) \ told)
    BY <1>14, <1>18, <1>19, <2>2, <2>3, ToldSets
  <2> QED BY <2>1, <2>4
<1>21. ASSUME NEW i \in DOMAIN deferred', ~ IsSet(deferred'[i])
       PROVE  Told(T, L, last, i, before'[i].actual, before'[i].stale)
  <2>1. CASE i \in 1 .. Len(deferred)
    BY <1>11, <1>21, <2>1
  <2>2. CASE i \notin 1 .. Len(deferred)
    <3>1. i - Len(deferred) \in 1 .. Len(fs) /\ Len(deferred) + (i - Len(deferred)) = i
      BY <1>5, <1>12, <2>2
    <3>2. deferred'[i] = fs[i - Len(deferred)]
      BY <1>12, <3>1
    <3> QED BY <1>16, <1>21, <3>1, <3>2
  <2> QED BY <2>1, <2>2
<1>22. Len(deferred') + 1 = m
  BY <1>5, <1>9, <1>10, <1>12
<1> QED BY <1>0, <1>1, <1>2, <1>20, <1>21, <1>22 DEF ToldInv

\* Calling the first function.
LEMMA ToldCallStep ==
    ASSUME TypeInv, AllLevels, ToldInv, Calls
    PROVE  ToldInv'
<1>1. PICK T, L, last : T = touched /\ L = left /\ last = lastUsage
  OBVIOUS
<1>2. PICK T2, L2, last2 : T2 = touched' /\ L2 = left' /\ last2 = lastUsage'
  OBVIOUS
<1>3. /\ 1 \in DOMAIN deferred /\ QueueTypeOK'
      /\ Len(deferred') = Len(deferred) - 1 /\ Len(deferred) \in Nat \ {0}
      /\ \A j \in 1 .. Len(deferred) - 1 :
             deferred'[j] = deferred[j + 1] /\ before'[j] = before[j + 1]
      /\ UNCHANGED <<views, actual, stale>>
  BY FunctionCalled DEF TypeInv
<1>4. /\ DOMAIN deferred = 1 .. Len(deferred)
      /\ DOMAIN deferred' = 1 .. Len(deferred) - 1
  BY <1>3 DEF TypeInv, QueueTypeOK
<1>5. ASSUME NEW j \in 1 .. Len(deferred) - 1 PROVE T2[j] = T[j + 1] /\ L2[j] = L[j + 1]
  <2>1. PICK f : f = deferred[j + 1]
    OBVIOUS
  <2>2. T[j + 1] = Touched(f) /\ L[j + 1] = Leaves(f)
    BY <1>1, <1>3, <1>4, <2>1 DEF touched, left
  <2>3. f = deferred'[j] /\ j \in DOMAIN deferred'
    BY <1>3, <1>4, <2>1
  <2>4. T2[j] = Touched(f)' /\ L2[j] = Leaves(f)'
    BY <1>2, <2>3 DEF touched, left, Touched, Leaves
  <2>5. Touched(f)' = Touched(f) /\ Leaves(f)' = Leaves(f)
    BY <1>3, TouchedSame
  <2> QED BY <2>2, <2>4, <2>5
<1>6. ASSUME NEW s \in Subresource PROVE last2[s] = IF s \in T[1] THEN L[1][s] ELSE last[s]
  <2>1. T[1] = Touched(deferred[1]) /\ L[1] = Leaves(deferred[1])
    BY <1>1, <1>3 DEF touched, left
  <2> QED BY <1>1, <1>2, <2>1, CalledLeaves
<1>7. ASSUME NEW n \in 1 .. Len(deferred), NEW usages, NEW unseen,
             Told(T, L, last, n + 1, usages, unseen)
      PROVE  Told(T2, L2, last2, n, usages, unseen)
  <2>1. n \in Nat \ {0}
    BY <1>3
  <2>2. \A j \in 1 .. n - 1 : T2[j] = T[j + 1] /\ L2[j] = L[j + 1]
    <3>1. 1 .. n - 1 \subseteq 1 .. Len(deferred) - 1
      BY <1>3
    <3> QED BY <1>5, <3>1
  <2>3. \A s \in Subresource : last2[s] = IF s \in T[1] THEN L[1][s] ELSE last[s]
    BY <1>6
  <2>4. Told(T, L, last, n + 1, usages, unseen)
    BY <1>7
  <2>5. FirstCalled(n, T, L, last, T2, L2, last2)
    BY <2>1, <2>2, <2>3 DEF FirstCalled
  <2> QED BY <2>4, <2>5, ToldCall, Zenon
<1>8. Told(T2, L2, last2, Len(deferred') + 1, actual', stale')
  <2>1. PICK n, usages, unseen : n = Len(deferred) /\ usages = actual /\ unseen = stale
    OBVIOUS
  <2>2. Told(T, L, last, n + 1, usages, unseen)
    BY <1>1, <2>1 DEF ToldInv
  <2>3. n \in 1 .. Len(deferred)
    BY <1>3, <2>1
  <2>4. Told(T2, L2, last2, n, usages, unseen)
    BY <1>7, <2>2, <2>3
  <2>5. n = Len(deferred') + 1 /\ usages = actual' /\ unseen = stale'
    BY <1>3, <2>1
  <2> QED BY <2>4, <2>5
<1>9. ASSUME NEW n \in DOMAIN deferred', ~ IsSet(deferred'[n])
      PROVE  Told(T2, L2, last2, n, before'[n].actual, before'[n].stale)
  <2>1. /\ n \in 1 .. Len(deferred) /\ n + 1 \in DOMAIN deferred /\ ~ IsSet(deferred[n + 1])
        /\ before'[n] = before[n + 1]
    BY <1>3, <1>4, <1>9
  <2>2. PICK usages, unseen : usages = before[n + 1].actual /\ unseen = before[n + 1].stale
    OBVIOUS
  <2>3. Told(T, L, last, n + 1, usages, unseen)
    BY <1>1, <2>1, <2>2 DEF ToldInv
  <2>4. Told(T2, L2, last2, n, usages, unseen)
    BY <1>7, <2>1, <2>3
  <2> QED BY <2>1, <2>2, <2>4
<1> QED BY <1>2, <1>8, <1>9 DEF ToldInv

\* Every step keeps what the images will have been told in line with what happened.
LEMMA ToldStep ==
    ASSUME TypeInv, AllLevels, ToldInv, [HistoryNext]_allVars
    PROVE  ToldInv'
<1>1. ASSUME Quiet PROVE ToldInv'
  <2>1. ASSUME NEW n \in DOMAIN deferred
        PROVE  Touched(deferred[n])' = Touched(deferred[n]) /\ Leaves(deferred[n])' = Leaves(deferred[n])
    <3>1. PICK f : f = deferred[n]
      OBVIOUS
    <3>2. IsSet(f) => views'[f.set] = views[f.set]
      BY <1>1, <3>1 DEF Quiet
    <3>3. Touched(f)' = Touched(f) /\ Leaves(f)' = Leaves(f)
      BY <3>2, TouchedSame
    <3>4. f = deferred'[n]
      BY <1>1, <3>1 DEF Quiet
    <3> QED BY <3>1, <3>3, <3>4 DEF Touched, Leaves
  <2>2. touched' = touched /\ left' = left
    BY <1>1, <2>1 DEF Quiet, touched, left
  <2> QED BY <1>1, <2>2 DEF Quiet, ToldInv, imageVars
<1>2. CASE UNCHANGED allVars
  <2>1. Quiet
    BY <1>2 DEF allVars, usageVars, commandVars, history, Quiet
  <2> QED BY <1>1, <2>1
<1> QED BY <1>1, <1>2, ToldUseStep, ToldUsesStep, ToldSetsStep, ToldCallStep, StepKinds

\* What a call warns of is what happened.
LEMMA WarningsStep ==
    ASSUME TypeInv, AllLevels, EntriesInv, ToldInv, WarningsAreTrue, RedundantStoresReported,
           [HistoryNext]_allVars
    PROVE  WarningsAreTrue' /\ RedundantStoresReported'
<1>1. CASE UNCHANGED <<imageVars, lastCall>>
  BY <1>1 DEF imageVars, WarningsAreTrue, RedundantStoresReported
<1>2. CASE Calls
  <2>1. /\ 1 \in DOMAIN deferred /\ Head(deferred) = deferred[1] /\ Head(before) = before[1]
        /\ deferred[1] \in Functions /\ before[1] \in BeforeType
    BY <1>2, FunctionCalled DEF TypeInv
  <2>2. lastCall' = [usage |-> UsageOf(deferred[1]), before |-> before[1]]
    BY <1>2, <2>1 DEF Calls
  <2>3. CASE IsSet(deferred[1])
    <3>1. SignalSet(deferred[1].set)
      BY <1>2, <2>1, <2>3 DEF Calls, CallFunction
    <3>2. reports' = {} /\ lastCall'.usage = "Undefined"
      BY <2>2, <2>3, <3>1 DEF SignalSet, UsageOf
    <3> QED BY <3>2 DEF WarningsAreTrue, RedundantStoresReported
  <2>4. CASE ~ IsSet(deferred[1])
    <3>1. PICK f, b : f = deferred[1] /\ b = before[1]
      OBVIOUS
    <3>2. SignalUsage(f.subresources, f.usage)
      BY <1>2, <2>1, <2>4, <3>1 DEF Calls, CallFunction
    <3>3. lastCall'.usage = f.usage /\ lastCall'.before = b
      BY <2>2, <2>4, <3>1 DEF UsageOf
    <3>4. b.covers = f.subresources /\ f.subresources \subseteq Subresource
      BY <2>1, <2>4, <3>1 DEF EntriesInv, EntryOK, BeforeType
    <3>5. \A s \in b.stale : b.actual[s] \in Accessed
      BY <2>1, <3>1 DEF EntriesInv, EntryOK
    <3>6. ASSUME NEW s \in Subresource, s \notin b.stale PROVE Alike(lastUsage[s], b.actual[s])
      <4>1. Told(touched, left, lastUsage, 1, b.actual, b.stale)
        BY <2>1, <2>4, <3>1 DEF ToldInv
      <4>2. Says(touched, left, lastUsage, s, 1, b.actual[s])
        BY <3>6, <4>1 DEF Told
      <4> QED BY <4>2 DEF Says
    <3>7. \A u, v, usage : Alike(u, v) => Warning(u, usage) = Warning(v, usage)
      BY DEF Alike, Accessed, Warning
    <3>8. ASSUME NEW r \in reports'
          PROVE  /\ r.at \in b.covers
                 /\ Warning(b.actual[r.at], f.usage) = r.code \/ r.at \in b.stale
      <4>1. PICK s \in f.subresources : r = [code |-> Warning(lastUsage[s], f.usage), at |-> s]
        BY <3>2 DEF SignalUsage
      <4> QED BY <3>4, <3>6, <3>7, <4>1
    <3>9. ASSUME f.usage = "RenderPassCleared", ~ swapchainImage,
                 NEW s \in b.covers, b.actual[s] = "RenderPassStored"
          PROVE  [code |-> "REDUNDANT_RENDERPASS_STORE", at |-> s] \in reports'
      <4>1. s \in Subresource /\ s \notin b.stale /\ s \in f.subresources
        BY <3>4, <3>5, <3>9 DEF Accessed
      <4>2. lastUsage[s] = "RenderPassStored"
        BY <3>6, <3>9, <4>1 DEF Alike, Accessed
      <4>3. Warning(lastUsage[s], f.usage) = "REDUNDANT_RENDERPASS_STORE"
        BY <3>9, <4>2 DEF Warning
      <4> QED BY <3>2, <4>1, <4>3 DEF SignalUsage
    <3>10. WarningsAreTrue'
      BY <3>3, <3>8 DEF WarningsAreTrue
    <3>11. RedundantStoresReported'
      BY <3>3, <3>9 DEF RedundantStoresReported
    <3> QED BY <3>10, <3>11
  <2> QED BY <2>3, <2>4
<1>3. ASSUME NEW point \in BindPoint, RecordsSets(point) PROVE UNCHANGED <<imageVars, lastCall>>
  BY <1>3 DEF RecordsSets, enqueueDescriptorSetUsage, UsesSets
<1>4. HistoryNext => UNCHANGED <<imageVars, lastCall>> \/ Calls
  BY <1>3, StepKinds DEF Quiet, RecordsUse, RecordsUses
<1>5. UNCHANGED allVars => UNCHANGED <<imageVars, lastCall>>
  BY DEF allVars, usageVars, history
<1> QED BY <1>1, <1>2, <1>4, <1>5

\* The warnings follow from an inductive invariant.
LEMMA WarningsInductive ==
    ASSUME AllLevels
    PROVE  HistorySpec => [](WarningsAreTrue /\ RedundantStoresReported)
<1> DEFINE Inv == TypeInv /\ EntriesInv /\ ToldInv /\ WarningsAreTrue /\ RedundantStoresReported
<1>1. HistoryInit => Inv
  <2> SUFFICES ASSUME HistoryInit PROVE Inv
    OBVIOUS
  <2>1. deferred = <<>> /\ stale = {} /\ actual = lastUsage /\ reports = {} /\ lastCall = NoCall
    BY DEF HistoryInit, UsageInit, ImageInit
  <2>2. EntriesInv
    BY <2>1 DEF EntriesInv
  <2>3. ToldInv
    BY <2>1 DEF ToldInv, Told, Says, Alike
  <2>4. WarningsAreTrue /\ RedundantStoresReported
    BY <2>1 DEF WarningsAreTrue, RedundantStoresReported, NoCall
  <2> QED BY <2>2, <2>3, <2>4, TypeInitially
<1>2. Inv /\ [HistoryNext]_allVars => Inv'
  BY TypeStep, EntriesStep, ToldStep, WarningsStep
<1> QED BY <1>1, <1>2, PTL DEF HistorySpec

\* For every image and all commands on ranges that reach its last mip level, every
\* subresource a warning names is used now and was last used the way the warning says,
\* but for uses by sets that stayed bound.
THEOREM WarningsHold == AllLevels => (HistorySpec => []WarningsAreTrue)
<1> SUFFICES ASSUME AllLevels PROVE HistorySpec => []WarningsAreTrue
  OBVIOUS
<1> QED BY WarningsInductive, PTL

\* And no redundant store of an ordinary image goes without its warning.
THEOREM RedundantStoresAreReported == AllLevels => (HistorySpec => []RedundantStoresReported)
<1> SUFFICES ASSUME AllLevels PROVE HistorySpec => []RedundantStoresReported
  OBVIOUS
<1> QED BY WarningsInductive, PTL
=============================================================================
