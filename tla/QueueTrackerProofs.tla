------------------------- MODULE QueueTrackerProofs -------------------------
(***************************************************************************)
(* Proofs about QueueTracker for every set of stages and every bound: the  *)
(* state invariant, and what its operations do to the waits.               *)
(***************************************************************************)
EXTENDS QueueTracker, WellFoundedInduction, TLAPS

\* What holds of 0, and of n + 1 if of n, holds up to N.
LEMMA InductionUpTo ==
    ASSUME NEW N \in Nat, NEW G, 0 \in G, \A n \in 0 .. N - 1 : n \in G => n + 1 \in G
    PROVE  \A n \in 0 .. N : n \in G
<1> DEFINE Missing == {n \in 0 .. N : n \notin G}
<1> SUFFICES ASSUME Missing # {} PROVE FALSE
  OBVIOUS
<1>1. Missing \subseteq Nat
  OBVIOUS
<1>2. PICK n \in Missing : \A k \in Missing : ~ (<<k, n>> \in OpToRel(<, Nat))
  BY <1>1, NatLessThanWellFounded, WFMin
<1>3. n # 0 /\ n - 1 \in 0 .. N - 1 /\ n - 1 \in 0 .. N
  BY <1>1
<1>4. n - 1 \notin G
  BY <1>3
<1>5. n - 1 \in Missing
  BY <1>3, <1>4
<1>6. <<n - 1, n>> \in Nat \X Nat /\ <<n - 1, n>>[1] < <<n - 1, n>>[2]
  BY <1>1, <1>3
<1>7. <<n - 1, n>> \in OpToRel(<, Nat)
  BY <1>6, Zenon DEF OpToRel
<1> QED BY <1>2, <1>5, <1>7

(***************************************************************************)
(* Maxima of bounded sets of numbers.                                      *)
(***************************************************************************)

\* A nonempty set of naturals with an upper bound has a greatest element, which
\* is what Max chooses: the reading of the std::max and "raise if greater"
\* loops of queue_tracker.cpp.
LEMMA MaxOfBounded ==
    ASSUME NEW S \in SUBSET Nat, S # {}, NEW K \in Nat, \A x \in S : x <= K
    PROVE  /\ Max(S) \in S
           /\ \A x \in S : x <= Max(S)
<1> DEFINE T == {k \in Nat : K - k \in S}
<1>1. T # {}
  <2>1. PICK x \in S : TRUE
    OBVIOUS
  <2>2. K - x \in Nat /\ K - (K - x) = x
    OBVIOUS
  <2> QED BY <2>1, <2>2
<1>2. PICK m \in T : \A k \in T : ~ (<<k, m>> \in OpToRel(<, Nat))
  <2>1. T \subseteq Nat
    OBVIOUS
  <2> QED BY <1>1, <2>1, NatLessThanWellFounded, WFMin
<1>3. \A k \in T : m <= k
  <2> SUFFICES ASSUME NEW k \in T, k < m PROVE FALSE
    OBVIOUS
  <2>1. <<k, m>> \in Nat \X Nat /\ <<k, m>>[1] < <<k, m>>[2]
    OBVIOUS
  <2>2. <<k, m>> \in OpToRel(<, Nat)
    BY <2>1, Zenon DEF OpToRel
  <2> QED BY <1>2, <2>2
<1>4. \A x \in S : x <= K - m
  <2> SUFFICES ASSUME NEW x \in S PROVE x <= K - m
    OBVIOUS
  <2>1. K - x \in Nat /\ K - (K - x) = x
    OBVIOUS
  <2>2. m <= K - x
    BY <1>3, <2>1
  <2> QED BY <2>2
<1>5. K - m \in S
  OBVIOUS
<1>6. \E x \in S : \A y \in S : x >= y
  BY <1>4, <1>5
<1>7. Max(S) \in S /\ \A y \in S : Max(S) >= y
  BY <1>6 DEF Max
<1> QED BY <1>7

(***************************************************************************)
(* The state invariant of the tracker.                                     *)
(***************************************************************************)

\* The inductive invariant: types, waits bounded by submitted work, and latches
\* that lie in the past.
TrackerInv == TypeOK /\ WaitsForSubmittedWork /\ LatchedInThePast

\* The levels a barrier brings in never name work that was not submitted.
LEMMA LevelsBounded ==
    ASSUME TypeOK, WaitsForSubmittedWork,
           NEW srcStages \in SUBSET Stage, NEW t \in Stage
    PROVE  LevelsOf(srcStages, t) \subseteq 0 .. index[t]
BY DEF TypeOK, WaitsForSubmittedWork, LevelsOf

\* What Raised computes: the greatest of the old wait and the levels.
LEMMA RaisedFacts ==
    ASSUME TypeOK, WaitsForSubmittedWork, NEW d \in Stage, NEW t \in Stage,
           NEW L \in SUBSET (0 .. index[t])
    PROVE  /\ Raised(d, t, L) \in {waitList[d][t]} \cup L
           /\ Raised(d, t, L) \in Nat
           /\ waitList[d][t] <= Raised(d, t, L)
           /\ Raised(d, t, L) <= index[t]
           /\ \A x \in L : x <= Raised(d, t, L)
<1> DEFINE S == {waitList[d][t]} \cup L
<1>1. index[t] \in Nat /\ waitList[d][t] \in Nat /\ waitList[d][t] <= index[t]
  BY DEF TypeOK, WaitsForSubmittedWork
<1>2. S \in SUBSET Nat /\ S # {} /\ \A x \in S : x <= index[t]
  <2>1. \A x \in L : x \in Nat /\ x <= index[t]
    BY <1>1
  <2> QED BY <1>1, <2>1
<1>3. Max(S) \in S /\ \A x \in S : x <= Max(S)
  BY <1>1, <1>2, MaxOfBounded
<1>4. Raised(d, t, L) = Max(S)
  BY DEF Raised
<1> HIDE DEF S
<1>5. Raised(d, t, L) \in Nat /\ Raised(d, t, L) <= index[t]
  BY <1>2, <1>3, <1>4
<1> QED BY <1>3, <1>4, <1>5 DEF S

\* What a barrier does to one wait and its latch.
LEMMA BarrierFacts ==
    ASSUME TypeOK, WaitsForSubmittedWork,
           NEW srcStages \in SUBSET Stage, NEW dstStages \in SUBSET Stage,
           PipelineBarrier(srcStages, dstStages)
    PROVE  /\ index' = index
           /\ waitList' \in [Stage -> [Stage -> Nat]]
           /\ lastDstStageIndex' \in [Stage -> [Stage -> Nat]]
           /\ \A d, t \in Stage :
                /\ waitList'[d][t] \in {waitList[d][t]} \cup LevelsOf(srcStages, t)
                /\ waitList[d][t] <= waitList'[d][t]
                /\ waitList'[d][t] <= index[t]
                /\ d \in dstStages => \A x \in LevelsOf(srcStages, t) : x <= waitList'[d][t]
                /\ d \notin dstStages => waitList'[d][t] = waitList[d][t]
                /\ lastDstStageIndex'[d][t] =
                     IF waitList'[d][t] > waitList[d][t]
                     THEN index[d] ELSE lastDstStageIndex[d][t]
<1> DEFINE R(d, t) == Raised(d, t, LevelsOf(srcStages, t))
<1>1. \A d, t \in Stage :
        /\ R(d, t) \in {waitList[d][t]} \cup LevelsOf(srcStages, t)
        /\ R(d, t) \in Nat
        /\ waitList[d][t] <= R(d, t)
        /\ R(d, t) <= index[t]
        /\ \A x \in LevelsOf(srcStages, t) : x <= R(d, t)
  BY LevelsBounded, RaisedFacts
<1>2. /\ waitList' = [d \in Stage |-> [t \in Stage |->
             IF d \in dstStages THEN R(d, t) ELSE waitList[d][t]]]
      /\ lastDstStageIndex' = [d \in Stage |-> [t \in Stage |->
             IF d \in dstStages
             THEN IF R(d, t) > waitList[d][t] THEN index[d] ELSE lastDstStageIndex[d][t]
             ELSE lastDstStageIndex[d][t]]]
      /\ index' = index
  BY DEF PipelineBarrier, BarrierLevels, Raise, RaisedWaits, RaisedLatches, Latched
<1> HIDE DEF R
<1>3. /\ index \in [Stage -> Nat]
      /\ waitList \in [Stage -> [Stage -> Nat]]
      /\ lastDstStageIndex \in [Stage -> [Stage -> Nat]]
      /\ \A d, t \in Stage : waitList[d][t] <= index[t]
  BY DEF TypeOK, WaitsForSubmittedWork
<1>4. ASSUME NEW d \in Stage, NEW t \in Stage
      PROVE  /\ waitList'[d][t] \in {waitList[d][t]} \cup LevelsOf(srcStages, t)
             /\ waitList[d][t] <= waitList'[d][t]
             /\ waitList'[d][t] <= index[t]
             /\ d \in dstStages => \A x \in LevelsOf(srcStages, t) : x <= waitList'[d][t]
             /\ d \notin dstStages => waitList'[d][t] = waitList[d][t]
             /\ lastDstStageIndex'[d][t] =
                  IF waitList'[d][t] > waitList[d][t]
                  THEN index[d] ELSE lastDstStageIndex[d][t]
  <2>1. CASE d \in dstStages
    BY <1>1, <1>2, <1>3, <2>1
  <2>2. CASE d \notin dstStages
    BY <1>2, <1>3, <2>2
  <2> QED BY <2>1, <2>2
<1>5. waitList' \in [Stage -> [Stage -> Nat]]
  BY <1>1, <1>2, <1>3
<1>6. lastDstStageIndex' \in [Stage -> [Stage -> Nat]]
  BY <1>2, <1>3
<1> QED BY <1>2, <1>4, <1>5, <1>6

LEMMA InitInv == Init => TrackerInv
BY DEF Init, TrackerInv, TypeOK, WaitsForSubmittedWork, LatchedInThePast

LEMMA PushWorkInv ==
    ASSUME TrackerInv, NEW dst \in Stage, PushWork(dst)
    PROVE  TrackerInv'
<1>1. TypeOK'
  BY DEF TrackerInv, TypeOK, PushWork
<1>2. \A s \in Stage : index[s] \in Nat /\ index'[s] \in Nat /\ index[s] <= index'[s]
  BY DEF TrackerInv, TypeOK, PushWork
<1>3. UNCHANGED <<waitList, lastDstStageIndex>>
  BY DEF PushWork
<1>4. WaitsForSubmittedWork'
  BY <1>2, <1>3 DEF TrackerInv, TypeOK, WaitsForSubmittedWork
<1>5. LatchedInThePast'
  BY <1>2, <1>3 DEF TrackerInv, TypeOK, LatchedInThePast
<1> QED BY <1>1, <1>4, <1>5 DEF TrackerInv

LEMMA PipelineBarrierInv ==
    ASSUME TrackerInv, NEW srcStages \in SUBSET Stage, NEW dstStages \in SUBSET Stage,
           PipelineBarrier(srcStages, dstStages)
    PROVE  TrackerInv'
<1> USE DEF TrackerInv
<1>1. TypeOK'
  <2>1. bubbles' = {}
    BY DEF PipelineBarrier
  <2> QED BY <2>1, BarrierFacts DEF TypeOK
<1>2. WaitsForSubmittedWork'
  BY BarrierFacts DEF WaitsForSubmittedWork
<1>3. LatchedInThePast'
  <2> SUFFICES ASSUME NEW d \in Stage, NEW t \in Stage
               PROVE  /\ lastDstStageIndex'[d][t] <= index'[d]
                      /\ waitList'[d][t] = 0 => lastDstStageIndex'[d][t] = 0
    BY DEF LatchedInThePast
  <2>1. /\ index[d] \in Nat
        /\ waitList[d][t] \in Nat
        /\ lastDstStageIndex[d][t] \in Nat
        /\ lastDstStageIndex[d][t] <= index[d]
        /\ waitList[d][t] = 0 => lastDstStageIndex[d][t] = 0
    BY DEF TypeOK, LatchedInThePast
  <2>2. /\ index' = index
        /\ waitList' \in [Stage -> [Stage -> Nat]]
        /\ waitList[d][t] <= waitList'[d][t]
        /\ lastDstStageIndex'[d][t] = IF waitList'[d][t] > waitList[d][t]
                                     THEN index[d] ELSE lastDstStageIndex[d][t]
    BY BarrierFacts
  <2> QED BY <2>1, <2>2
<1> QED BY <1>1, <1>2, <1>3

LEMMA NextInv == TrackerInv /\ [Next]_vars => TrackerInv'
<1> SUFFICES ASSUME TrackerInv, [Next]_vars PROVE TrackerInv'
  OBVIOUS
<1>1. ASSUME NEW dst \in Stage, PushWork(dst) PROVE TrackerInv'
  BY <1>1, PushWorkInv
<1>2. ASSUME NEW srcStages \in StageMasks, NEW dstStages \in StageMasks,
             PipelineBarrier(srcStages, dstStages)
      PROVE  TrackerInv'
  BY <1>2, MaskAssumption, PipelineBarrierInv
<1>3. CASE UNCHANGED vars
  BY <1>3 DEF vars, TrackerInv, TypeOK, WaitsForSubmittedWork, LatchedInThePast
<1> QED BY <1>1, <1>2, <1>3 DEF Next

\* Every counter, wait and latch of the tracker stays a number of work items.
THEOREM TypeCorrect == Spec => []TypeOK
<1>1. TrackerInv => TypeOK
  BY DEF TrackerInv
<1> QED BY <1>1, InitInv, NextInv, PTL DEF Spec

\* A latch is never ahead of its stage.
THEOREM LatchesCorrect == Spec => []LatchedInThePast
<1>1. TrackerInv => LatchedInThePast
  BY DEF TrackerInv
<1> QED BY <1>1, InitInv, NextInv, PTL DEF Spec
=============================================================================
