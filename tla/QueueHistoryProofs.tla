------------------------- MODULE QueueHistoryProofs -------------------------
(***************************************************************************)
(* Proofs about the queue tracker and the histories kept beside it, for    *)
(* every set of stages and events and every bound: the counters implement  *)
(* the item sets of QueueTimeline, the waits of an item are inherited by   *)
(* whatever waits for it, a reported bubble is one on the device, no       *)
(* direct dependency is lost through events, and the loops of              *)
(* pipelineBarrier reach a simultaneous maximum.                           *)
(***************************************************************************)
EXTENDS QueueTrackerProofs, QueueTrackerRefinement, QueueExecution, QueueEventsHistory,
        QueueTrackerLoops

(***************************************************************************)
(* The tracker implements the timeline.                                    *)
(***************************************************************************)

HistoryInv ==
    /\ TrackerInv
    /\ seen \in [Stage -> [Stage -> Nat]]
    /\ LatchSeparates

LEMMA HistoryInitInv == HistoryInit => HistoryInv
<1> SUFFICES ASSUME HistoryInit PROVE HistoryInv
  OBVIOUS
<1>1. TrackerInv
  BY InitInv DEF HistoryInit
<1>2. seen \in [Stage -> [Stage -> Nat]] /\ LatchSeparates
  BY DEF HistoryInit, Init, LatchSeparates
<1> QED BY <1>1, <1>2 DEF HistoryInv

LEMMA HistoryPushWorkInv ==
    ASSUME HistoryInv, NEW dst \in Stage, HistoryPushWork(dst)
    PROVE  HistoryInv'
<1>1. TrackerInv'
  BY PushWorkInv DEF HistoryInv, HistoryPushWork
<1>2. /\ index \in [Stage -> Nat]
      /\ waitList \in [Stage -> [Stage -> Nat]]
      /\ seen \in [Stage -> [Stage -> Nat]]
      /\ \A d, t \in Stage : lastDstStageIndex[d][t] <= index[d]
      /\ \A d, t \in Stage : lastDstStageIndex[d][t] \in Nat
  BY DEF HistoryInv, TrackerInv, TypeOK, LatchedInThePast
<1>3. /\ waitList' = waitList /\ lastDstStageIndex' = lastDstStageIndex
      /\ index' = [index EXCEPT ![dst] = @ + 1]
      /\ seen' = [seen EXCEPT ![dst] = waitList[dst]]
  BY DEF HistoryPushWork, PushWork
<1>4. seen' \in [Stage -> [Stage -> Nat]]
  BY <1>2, <1>3
<1>5. LatchSeparates'
  <2> SUFFICES ASSUME NEW d \in Stage, NEW t \in Stage
               PROVE  /\ seen'[d][t] <= waitList'[d][t]
                      /\ lastDstStageIndex'[d][t] # index'[d]
                             => seen'[d][t] = waitList'[d][t]
                      /\ lastDstStageIndex'[d][t] = index'[d] /\ waitList'[d][t] # 0
                             => seen'[d][t] < waitList'[d][t]
    BY DEF LatchSeparates
  <2>1. CASE d = dst
    BY <1>2, <1>3, <2>1
  <2>2. CASE d # dst
    BY <1>2, <1>3, <2>2 DEF HistoryInv, LatchSeparates
  <2> QED BY <2>1, <2>2
<1> QED BY <1>1, <1>4, <1>5 DEF HistoryInv

LEMMA HistoryPipelineBarrierInv ==
    ASSUME HistoryInv, NEW srcStages \in SUBSET Stage, NEW dstStages \in SUBSET Stage,
           HistoryPipelineBarrier(srcStages, dstStages)
    PROVE  HistoryInv'
<1>1. TrackerInv'
  BY PipelineBarrierInv DEF HistoryInv, HistoryPipelineBarrier
<1>2. seen' = seen
  BY DEF HistoryPipelineBarrier
<1>3. LatchSeparates'
  <2> SUFFICES ASSUME NEW d \in Stage, NEW t \in Stage
               PROVE  /\ seen'[d][t] <= waitList'[d][t]
                      /\ lastDstStageIndex'[d][t] # index'[d]
                             => seen'[d][t] = waitList'[d][t]
                      /\ lastDstStageIndex'[d][t] = index'[d] /\ waitList'[d][t] # 0
                             => seen'[d][t] < waitList'[d][t]
    BY DEF LatchSeparates
  <2>1. /\ index' = index
        /\ waitList' \in [Stage -> [Stage -> Nat]]
        /\ waitList[d][t] <= waitList'[d][t]
        /\ lastDstStageIndex'[d][t] = IF waitList'[d][t] > waitList[d][t]
                                     THEN index[d] ELSE lastDstStageIndex[d][t]
    BY BarrierFacts DEF HistoryInv, TrackerInv, HistoryPipelineBarrier
  <2>2. /\ waitList[d][t] \in Nat
        /\ seen[d][t] \in Nat
        /\ seen[d][t] <= waitList[d][t]
        /\ lastDstStageIndex[d][t] # index[d] => seen[d][t] = waitList[d][t]
        /\ lastDstStageIndex[d][t] = index[d] /\ waitList[d][t] # 0
               => seen[d][t] < waitList[d][t]
    BY DEF HistoryInv, LatchSeparates, TrackerInv, TypeOK
  <2>3. CASE waitList'[d][t] > waitList[d][t]
    BY <1>2, <2>1, <2>2, <2>3
  <2>4. CASE waitList'[d][t] = waitList[d][t]
    BY <1>2, <2>1, <2>2, <2>4
  <2>5. waitList'[d][t] \in Nat /\ waitList[d][t] \in Nat /\ waitList[d][t] <= waitList'[d][t]
    BY <2>1, <2>2
  <2>6. waitList'[d][t] > waitList[d][t] \/ waitList'[d][t] = waitList[d][t]
    BY <2>5
  <2> QED BY <2>3, <2>4, <2>6
<1> QED BY <1>1, <1>2, <1>3 DEF HistoryInv

LEMMA HistoryNextInv == HistoryInv /\ [HistoryNext]_historyVars => HistoryInv'
<1> SUFFICES ASSUME HistoryInv, [HistoryNext]_historyVars PROVE HistoryInv'
  OBVIOUS
<1>1. ASSUME NEW dst \in Stage, HistoryPushWork(dst) PROVE HistoryInv'
  BY <1>1, HistoryPushWorkInv
<1>2. ASSUME NEW srcStages \in StageMasks, NEW dstStages \in StageMasks,
             HistoryPipelineBarrier(srcStages, dstStages)
      PROVE  HistoryInv'
  BY <1>2, MaskAssumption, HistoryPipelineBarrierInv
<1>3. CASE UNCHANGED historyVars
  BY <1>3 DEF historyVars, HistoryInv, TrackerInv, TypeOK, WaitsForSubmittedWork,
              LatchedInThePast, LatchSeparates
<1> QED BY <1>1, <1>2, <1>3 DEF HistoryNext

\* The latch tells, without any history, which waits the last item of a stage
\* was pushed with.
THEOREM LatchesSeparate == HistorySpec => []LatchSeparates
<1>1. HistoryInv => LatchSeparates
  BY DEF HistoryInv
<1> QED BY <1>1, HistoryInitInv, HistoryNextInv, PTL DEF HistorySpec

(***************************************************************************)
(* Waits are inherited.                                                    *)
(***************************************************************************)

LEMMA PushWorkTransitive ==
    ASSUME HistoryInv, WaitsAreTransitive, NEW dst \in Stage, HistoryPushWork(dst)
    PROVE  WaitsAreTransitive'
<1> SUFFICES ASSUME NEW d \in Stage, NEW s \in Stage, NEW t \in Stage,
                    index'[s] # 0, waitList'[d][s] = index'[s]
             PROVE  seen'[s][t] <= waitList'[d][t]
  BY DEF WaitsAreTransitive
<1>1. /\ index[s] \in Nat /\ waitList[d][s] <= index[s]
      /\ waitList' = waitList /\ index' = [index EXCEPT ![dst] = @ + 1]
      /\ seen' = [seen EXCEPT ![dst] = waitList[dst]]
      /\ index \in [Stage -> Nat] /\ seen \in [Stage -> [Stage -> Nat]]
  BY DEF HistoryInv, TrackerInv, TypeOK, WaitsForSubmittedWork, HistoryPushWork, PushWork
<1>2. s # dst
  BY <1>1
<1> QED BY <1>1, <1>2 DEF WaitsAreTransitive

\* What a barrier makes of the waits, under the invariant with the history.
LEMMA HistoryBarrierFacts ==
    ASSUME HistoryInv, NEW S \in SUBSET Stage, NEW D \in SUBSET Stage,
           HistoryPipelineBarrier(S, D)
    PROVE  /\ waitList' \in [Stage -> [Stage -> Nat]]
           /\ \A d, t \in Stage :
                /\ waitList'[d][t] \in {waitList[d][t]} \cup LevelsOf(S, t)
                /\ waitList[d][t] <= waitList'[d][t]
                /\ d \in D => \A x \in LevelsOf(S, t) : x <= waitList'[d][t]
                /\ d \notin D => waitList'[d][t] = waitList[d][t]
<1>0. waitList \in [Stage -> [Stage -> Nat]]
  BY DEF HistoryInv, TrackerInv, TypeOK
<1>1. TypeOK /\ WaitsForSubmittedWork /\ PipelineBarrier(S, D)
  BY DEF HistoryInv, TrackerInv, HistoryPipelineBarrier
<1>2. waitList' \in [Stage -> [Stage -> Nat]]
  BY <1>1, BarrierFacts
<1>3. ASSUME NEW d \in Stage, NEW t \in Stage
      PROVE  /\ waitList'[d][t] \in {waitList[d][t]} \cup LevelsOf(S, t)
             /\ waitList[d][t] <= waitList'[d][t]
             /\ d \in D => \A x \in LevelsOf(S, t) : x <= waitList'[d][t]
             /\ d \notin D => waitList'[d][t] = waitList[d][t]
  <2>1. waitList'[d][t] \in {waitList[d][t]} \cup LevelsOf(S, t)
    BY <1>1, BarrierFacts
  <2>2. waitList[d][t] <= waitList'[d][t]
    BY <1>1, BarrierFacts
  <2>3. d \in D => \A x \in LevelsOf(S, t) : x <= waitList'[d][t]
    BY <1>1, BarrierFacts
  <2>4. ASSUME d \notin D PROVE waitList'[d][t] = waitList[d][t]
    BY <1>0, <1>1, <2>4 DEF PipelineBarrier, Raise, RaisedWaits
  <2> QED BY <2>1, <2>2, <2>3, <2>4
<1> QED BY <1>2, <1>3

\* A stage that comes to wait for the last item of s does so through s itself,
\* or through a stage that did.
LEMMA PipelineBarrierTransitive ==
    ASSUME HistoryInv, WaitsAreTransitive,
           NEW srcStages \in SUBSET Stage, NEW dstStages \in SUBSET Stage,
           HistoryPipelineBarrier(srcStages, dstStages)
    PROVE  WaitsAreTransitive'
<1> SUFFICES ASSUME NEW d \in Stage, NEW s \in Stage, NEW t \in Stage,
                    index'[s] # 0, waitList'[d][s] = index'[s]
             PROVE  seen'[s][t] <= waitList'[d][t]
  BY DEF WaitsAreTransitive
<1>1. /\ index' = index /\ seen' = seen
      /\ waitList' \in [Stage -> [Stage -> Nat]]
      /\ waitList'[d][s] \in {waitList[d][s]} \cup LevelsOf(srcStages, s)
      /\ waitList[d][t] <= waitList'[d][t]
      /\ d \in dstStages => \A x \in LevelsOf(srcStages, t) : x <= waitList'[d][t]
      /\ d \notin dstStages => waitList'[d][s] = waitList[d][s]
  <2>1. seen' = seen /\ index' = index
    BY DEF HistoryPipelineBarrier, PipelineBarrier
  <2>2. /\ waitList' \in [Stage -> [Stage -> Nat]]
        /\ \A c, r \in Stage :
             /\ waitList'[c][r] \in {waitList[c][r]} \cup LevelsOf(srcStages, r)
             /\ waitList[c][r] <= waitList'[c][r]
             /\ c \in dstStages => \A x \in LevelsOf(srcStages, r) : x <= waitList'[c][r]
             /\ c \notin dstStages => waitList'[c][r] = waitList[c][r]
    BY HistoryBarrierFacts, Zenon
  <2> QED BY <2>1, <2>2
<1>2. /\ waitList[d][t] \in Nat /\ waitList'[d][t] \in Nat /\ seen[s][t] \in Nat
      /\ \A r \in Stage : waitList[r][t] \in Nat
      /\ seen[s][t] <= waitList[s][t]
  BY <1>1 DEF HistoryInv, TrackerInv, TypeOK, LatchSeparates
<1>3. CASE waitList[d][s] = index[s]
  <2>1. seen[s][t] <= waitList[d][t]
    BY <1>1, <1>3 DEF WaitsAreTransitive
  <2> QED BY <1>1, <1>2, <2>1
<1>4. CASE waitList[d][s] # index[s]
  <2>1. d \in dstStages /\ index[s] \in LevelsOf(srcStages, s)
    BY <1>1, <1>4
  <2>2. PICK r \in srcStages : r = s \/ waitList[r][s] = index[s]
    BY <2>1 DEF LevelsOf
  <2>3. seen[s][t] <= waitList[r][t]
    BY <1>1, <1>2, <2>2 DEF WaitsAreTransitive
  <2>4. waitList[r][t] <= waitList'[d][t]
    BY <1>1, <2>1 DEF LevelsOf
  <2> QED BY <1>1, <1>2, <2>3, <2>4
<1> QED BY <1>3, <1>4

\* A stage that waits for the last item of another waits for all that item
\* waited for, through any chain of barriers.
THEOREM WaitsInherited == HistorySpec => []WaitsAreTransitive
<1>1. HistoryInit => WaitsAreTransitive
  BY DEF HistoryInit, Init, WaitsAreTransitive
<1>2. HistoryInv /\ WaitsAreTransitive /\ [HistoryNext]_historyVars => WaitsAreTransitive'
  <2> SUFFICES ASSUME HistoryInv, WaitsAreTransitive, [HistoryNext]_historyVars
               PROVE  WaitsAreTransitive'
    OBVIOUS
  <2>1. CASE UNCHANGED historyVars
    BY <2>1 DEF historyVars, WaitsAreTransitive
  <2> QED BY <2>1, MaskAssumption, PushWorkTransitive, PipelineBarrierTransitive DEF HistoryNext
<1> QED BY <1>1, <1>2, HistoryInitInv, HistoryNextInv, PTL DEF HistorySpec

\* Membership in the item set a row of waits stands for.
LEMMA FirstItemsMember ==
    ASSUME NEW row \in [Stage -> Nat], NEW item
    PROVE  item \in FirstItems(row)
             <=> \E t \in Stage : \E n \in Nat \ {0} : item = <<t, n>> /\ n <= row[t]
BY DEF FirstItems

\* pushWork's test on counters and latches is the bubble of the timeline.
LEMMA BlocksIffHoldsUp ==
    ASSUME HistoryInv, NEW i \in Stage, NEW dst \in Stage
    PROVE  Blocks(i, dst) <=> msgPipelineBubble /\ Timeline!HoldsUp(i, dst)
<1>1. /\ index[i] \in Nat /\ index[dst] \in Nat
      /\ waitList[dst] \in [Stage -> Nat] /\ seen[i] \in [Stage -> Nat]
      /\ waitList[dst][i] <= index[i]
      /\ waitList[i][dst] \in Nat /\ waitList[i][dst] <= index[dst]
      /\ lastDstStageIndex[i][dst] \in Nat
      /\ lastDstStageIndex[i][dst] <= index[i]
      /\ waitList[dst][i] \in Nat /\ seen[i][dst] \in Nat
  BY DEF HistoryInv, TrackerInv, TypeOK, WaitsForSubmittedWork, LatchedInThePast
<1>2. <<i, index[i]>> \in FirstItems(waitList[dst])
        <=> index[i] # 0 /\ waitList[dst][i] = index[i]
  <2>1. <<i, index[i]>> \in FirstItems(waitList[dst])
          <=> \E t \in Stage : \E n \in Nat \ {0} :
                 <<i, index[i]>> = <<t, n>> /\ n <= waitList[dst][t]
    BY <1>1, FirstItemsMember
  <2> QED BY <1>1, <2>1
<1>3. <<dst, index[dst]>> \in FirstItems(seen[i])
        <=> index[dst] # 0 /\ index[dst] <= seen[i][dst]
  <2>1. <<dst, index[dst]>> \in FirstItems(seen[i])
          <=> \E t \in Stage : \E n \in Nat \ {0} :
                 <<dst, index[dst]>> = <<t, n>> /\ n <= seen[i][t]
    BY <1>1, FirstItemsMember
  <2> QED BY <1>1, <2>1
<1>4. /\ seen[i][dst] <= waitList[i][dst]
      /\ lastDstStageIndex[i][dst] # index[i] => seen[i][dst] = waitList[i][dst]
      /\ lastDstStageIndex[i][dst] = index[i] /\ waitList[i][dst] # 0
             => seen[i][dst] < waitList[i][dst]
  BY DEF HistoryInv, LatchSeparates
<1>5. Timeline!HoldsUp(i, dst)
        <=> /\ i # dst
            /\ {i, dst} \notin Exclusive
            /\ index[i] # 0 /\ index[dst] # 0
            /\ <<i, index[i]>> \in FirstItems(waitList[dst])
            /\ <<dst, index[dst]>> \in FirstItems(seen[i])
  BY DEF Timeline!HoldsUp, Timeline!LastOf
<1>6. Blocks(i, dst)
        <=> /\ i # dst
            /\ waitList[dst][i] = index[i]
            /\ index[dst] # 0
            /\ {i, dst} \notin Exclusive
            /\ msgPipelineBubble
            /\ waitList[i][dst] = index[dst]
            /\ index[i] # lastDstStageIndex[i][dst]
  BY DEF Blocks, WorkBehindWait
<1>7. (/\ index[dst] # 0
       /\ waitList[i][dst] = index[dst]
       /\ index[i] # lastDstStageIndex[i][dst])
      <=> (/\ index[i] # 0
           /\ index[dst] # 0
           /\ index[dst] <= seen[i][dst])
  BY <1>1, <1>4
<1> QED BY <1>2, <1>3, <1>5, <1>6, <1>7

\* pushWork issues an item.
LEMMA PushWorkIssues ==
    ASSUME HistoryInv, NEW dst \in Stage, HistoryPushWork(dst)
    PROVE  Timeline!Issue(dst)
<1>1. /\ index[dst] < MaxWork[dst]
      /\ bubbles' = {<<dst, i>> : i \in {s \in Stage : Blocks(s, dst)}}
      /\ index' = [index EXCEPT ![dst] = @ + 1]
      /\ waitList' = waitList
      /\ seen' = [seen EXCEPT ![dst] = waitList[dst]]
  BY DEF HistoryPushWork, PushWork
<1>2. {s \in Stage : Blocks(s, dst)}
        = {j \in Stage : msgPipelineBubble /\ Timeline!HoldsUp(j, dst)}
  BY BlocksIffHoldsUp
<1>3. bubbles' = {<<dst, i>> : i \in {j \in Stage :
                       msgPipelineBubble /\ Timeline!HoldsUp(j, dst)}}
  BY <1>1, <1>2
<1>4. [s \in Stage |-> FirstItems(seen[s])]'
        = [[s \in Stage |-> FirstItems(seen[s])] EXCEPT ![dst] = FirstItems(waitList[dst])]
  <2>1. seen \in [Stage -> [Stage -> Nat]]
    BY DEF HistoryInv
  <2>2. \A s \in Stage : seen'[s] = IF s = dst THEN waitList[dst] ELSE seen[s]
    BY <1>1, <2>1
  <2> QED BY <2>2
<1>5. [s \in Stage |-> FirstItems(waitList[s])]' = [s \in Stage |-> FirstItems(waitList[s])]
  BY <1>1
<1>6. [s \in Stage |-> FirstItems(waitList[s])][dst] = FirstItems(waitList[dst])
  OBVIOUS
<1> QED BY <1>1, <1>3, <1>4, <1>5, <1>6 DEF Timeline!Issue

\* pipelineBarrier orders everything the sources were given before the
\* destinations' further items.
LEMMA PipelineBarrierOrders ==
    ASSUME HistoryInv, NEW S \in SUBSET Stage, NEW D \in SUBSET Stage,
           HistoryPipelineBarrier(S, D)
    PROVE  Timeline!Order(S, D)
<1>1. bubbles' = {} /\ index' = index /\ seen' = seen
  BY DEF HistoryPipelineBarrier, PipelineBarrier
<1>2. /\ index \in [Stage -> Nat]
      /\ waitList \in [Stage -> [Stage -> Nat]]
  BY DEF HistoryInv, TrackerInv, TypeOK
<1>3. /\ waitList' \in [Stage -> [Stage -> Nat]]
      /\ \A d, t \in Stage :
           /\ waitList'[d][t] \in {waitList[d][t]} \cup LevelsOf(S, t)
           /\ waitList[d][t] <= waitList'[d][t]
           /\ d \in D => \A x \in LevelsOf(S, t) : x <= waitList'[d][t]
           /\ d \notin D => waitList'[d][t] = waitList[d][t]
  BY HistoryBarrierFacts
<1> DEFINE Brought == UNION {FirstItems(waitList[s]) \cup ({s} \X (1 .. index[s])) : s \in S}
<1>4. ASSUME NEW t \in Stage, NEW n \in Nat \ {0}
      PROVE  <<t, n>> \in Brought <=> \E x \in LevelsOf(S, t) : n <= x
  <2>1. <<t, n>> \in Brought
          <=> \E s \in S : <<t, n>> \in FirstItems(waitList[s])
                           \/ <<t, n>> \in {s} \X (1 .. index[s])
    OBVIOUS
  <2>2. \A s \in S : <<t, n>> \in FirstItems(waitList[s]) <=> n <= waitList[s][t]
    <3> SUFFICES ASSUME NEW s \in S
                 PROVE  <<t, n>> \in FirstItems(waitList[s]) <=> n <= waitList[s][t]
      OBVIOUS
    <3>1. waitList[s] \in [Stage -> Nat]
      BY <1>2
    <3>2. <<t, n>> \in FirstItems(waitList[s])
            <=> \E u \in Stage : \E m \in Nat \ {0} :
                   <<t, n>> = <<u, m>> /\ m <= waitList[s][u]
      BY <3>1, FirstItemsMember
    <3> QED BY <3>2
  <2>3. \A s \in S : <<t, n>> \in {s} \X (1 .. index[s]) <=> s = t /\ n <= index[s]
    BY <1>2
  <2>4. (\E x \in LevelsOf(S, t) : n <= x)
          <=> \E s \in S : n <= waitList[s][t] \/ (s = t /\ n <= index[s])
    BY DEF LevelsOf
  <2> HIDE DEF Brought
  <2> QED BY <2>1, <2>2, <2>3, <2>4
<1>5. ASSUME NEW item \in Brought
      PROVE  \E t \in Stage : \E n \in Nat \ {0} : item = <<t, n>>
  <2>1. PICK s \in S : item \in FirstItems(waitList[s]) \/ item \in {s} \X (1 .. index[s])
    OBVIOUS
  <2>2. waitList[s] \in [Stage -> Nat] /\ s \in Stage /\ index[s] \in Nat
    BY <1>2
  <2>3. CASE item \in FirstItems(waitList[s])
    BY <2>2, <2>3, FirstItemsMember
  <2>4. CASE item \in {s} \X (1 .. index[s])
    BY <2>2, <2>4
  <2> QED BY <2>1, <2>3, <2>4
<1>6. ASSUME NEW d \in D
      PROVE  FirstItems(waitList'[d]) = FirstItems(waitList[d]) \cup Brought
  <2>1. waitList[d] \in [Stage -> Nat] /\ waitList'[d] \in [Stage -> Nat] /\ d \in Stage
    BY <1>2, <1>3
  <2>2. ASSUME NEW t \in Stage, NEW n \in Nat \ {0}
        PROVE  n <= waitList'[d][t]
                 <=> n <= waitList[d][t] \/ \E x \in LevelsOf(S, t) : n <= x
    <3>1. /\ waitList'[d][t] \in {waitList[d][t]} \cup LevelsOf(S, t)
          /\ waitList[d][t] <= waitList'[d][t]
          /\ \A x \in LevelsOf(S, t) : x <= waitList'[d][t]
      BY <1>3, <2>1
    <3>2. waitList[d][t] \in Nat /\ waitList'[d][t] \in Nat
      BY <2>1
    <3>3. \A x \in LevelsOf(S, t) : x \in Nat
      BY <1>2 DEF LevelsOf
    <3> QED BY <3>1, <3>2, <3>3
  <2>3. ASSUME NEW item \in FirstItems(waitList'[d])
        PROVE  item \in FirstItems(waitList[d]) \cup Brought
    <3>1. PICK t \in Stage, n \in Nat \ {0} : item = <<t, n>> /\ n <= waitList'[d][t]
      BY <2>1, FirstItemsMember
    <3>2. CASE n <= waitList[d][t]
      BY <2>1, <3>1, <3>2, FirstItemsMember
    <3>3. CASE \E x \in LevelsOf(S, t) : n <= x
      BY <1>4, <3>1, <3>3
    <3> QED BY <2>2, <3>1, <3>2, <3>3
  <2>4. ASSUME NEW item \in FirstItems(waitList[d])
        PROVE  item \in FirstItems(waitList'[d])
    <3>1. PICK t \in Stage, n \in Nat \ {0} : item = <<t, n>> /\ n <= waitList[d][t]
      BY <2>1, FirstItemsMember
    <3> QED BY <2>1, <2>2, <3>1, FirstItemsMember
  <2>5. ASSUME NEW item \in Brought
        PROVE  item \in FirstItems(waitList'[d])
    <3>1. PICK t \in Stage, n \in Nat \ {0} : item = <<t, n>>
      BY <1>5
    <3>2. \E x \in LevelsOf(S, t) : n <= x
      BY <1>4, <3>1
    <3> HIDE DEF Brought
    <3> QED BY <2>1, <2>2, <3>1, <3>2, FirstItemsMember
  <2> HIDE DEF Brought
  <2> QED BY <2>3, <2>4, <2>5
<1>7. ASSUME NEW d \in Stage \ D PROVE waitList'[d] = waitList[d]
  BY <1>2, <1>3
<1> DEFINE gate == [s \in Stage |-> FirstItems(waitList[s])]
<1>8. Brought = UNION {gate[s] \cup ({s} \X (1 .. index[s])) : s \in S}
  OBVIOUS
<1>9. gate' = [d \in Stage |-> IF d \in D THEN gate[d] \cup Brought ELSE gate[d]]
  <2> HIDE DEF Brought
  <2> QED BY <1>6, <1>7
<1>10. [s \in Stage |-> FirstItems(seen[s])]' = [s \in Stage |-> FirstItems(seen[s])]
  BY <1>1
<1> HIDE DEF Brought
<1> QED BY <1>1, <1>8, <1>9, <1>10 DEF Timeline!Order, Timeline!ItemsOf

LEMMA InitMaps == HistoryInit => Timeline!TimelineInit
<1> SUFFICES ASSUME HistoryInit PROVE Timeline!TimelineInit
  OBVIOUS
<1>1. \A s \in Stage : FirstItems(waitList[s]) = {} /\ FirstItems(seen[s]) = {}
  BY DEF HistoryInit, Init, FirstItems
<1> QED BY <1>1 DEF HistoryInit, Init, Timeline!TimelineInit

\* queue_tracker.cpp, with its counters and latches, implements the timeline of
\* work items: the bubbles it logs are exactly the bubbles there are.
THEOREM TrackerImplementsTimeline == HistorySpec => ImplementsTimeline
<1>1. HistoryInv /\ [HistoryNext]_historyVars
        => [Timeline!TimelineNext]_(Timeline!timelineVars)
  <2> SUFFICES ASSUME HistoryInv, [HistoryNext]_historyVars
               PROVE  [Timeline!TimelineNext]_(Timeline!timelineVars)
    OBVIOUS
  <2>1. ASSUME NEW dst \in Stage, HistoryPushWork(dst) PROVE Timeline!TimelineNext
    BY <2>1, PushWorkIssues DEF Timeline!TimelineNext
  <2>2. ASSUME NEW srcStages \in StageMasks, NEW dstStages \in StageMasks,
               HistoryPipelineBarrier(srcStages, dstStages)
        PROVE  Timeline!TimelineNext
    <3>1. srcStages \in SUBSET Stage /\ dstStages \in SUBSET Stage
      BY MaskAssumption
    <3>2. Timeline!Order(srcStages, dstStages)
      BY <2>2, <3>1, PipelineBarrierOrders
    <3> QED BY <3>2 DEF Timeline!TimelineNext
  <2>3. CASE UNCHANGED historyVars
    BY <2>3 DEF historyVars, Timeline!timelineVars
  <2> QED BY <2>1, <2>2, <2>3 DEF HistoryNext
<1> QED BY <1>1, HistoryInitInv, HistoryNextInv, InitMaps, PTL
        DEF HistorySpec, ImplementsTimeline, Timeline!TimelineSpec

(***************************************************************************)
(* Events.                                                                 *)
(***************************************************************************)

EventsTypeOK ==
    /\ index \in [Stage -> Nat]
    /\ waitList \in [Stage -> [Stage -> Nat]]
    /\ lastDstStageIndex \in [Stage -> [Stage -> Nat]]
    /\ eventWaits \in [Event -> [Stage -> Nat]]
    /\ direct \in [Stage -> [Stage -> Nat]]
    /\ directOf \in [Event -> [Stage -> Nat]]

\* All numbers are at most K.  Waits may lie beyond the index of their stage: a
\* signal folds the waits for all stages into one number.
AtMost(K) ==
    /\ \A s \in Stage : index[s] <= K
    /\ \A d, t \in Stage : waitList[d][t] <= K
    /\ \A e \in Event, t \in Stage : eventWaits[e][t] <= K

\* An event carries the direct dependencies it was signalled with.
DirectWaitsCarried == \A e \in Event, t \in Stage : directOf[e][t] <= eventWaits[e][t]

\* An event carries more than there is of a stage only when it was folded.
UnpushedNeedsFold == \A e \in Event, t \in Stage : eventWaits[e][t] > index[t] => t \in folded

EventsInv ==
    /\ EventsTypeOK /\ (\E K \in Nat : AtMost(K))
    /\ DirectWaitsCarried /\ NoDirectWaitLost
    /\ UnpushedNeedsFold /\ UnpushedWaitsNeedFold

LEMMA EventsInitInv == EventsHistoryInit => EventsInv
<1> SUFFICES ASSUME EventsHistoryInit PROVE EventsInv
  OBVIOUS
<1> USE DEF EventsHistoryInit, EventsInit, Init, ZeroStages
<1>1. EventsTypeOK
  BY DEF EventsTypeOK
<1>2. AtMost(0)
  BY DEF AtMost
<1>3. DirectWaitsCarried /\ NoDirectWaitLost
  BY DEF DirectWaitsCarried, NoDirectWaitLost
<1>4. UnpushedNeedsFold /\ UnpushedWaitsNeedFold
  BY DEF UnpushedNeedsFold, UnpushedWaitsNeedFold
<1> QED BY <1>1, <1>2, <1>3, <1>4 DEF EventsInv

\* Raise never lowers a wait, and brings it up to every level it is given; what
\* it raises it latches.
LEMMA RaiseFacts ==
    ASSUME EventsTypeOK, NEW K \in Nat, AtMost(K), NEW dstStages \in SUBSET Stage, NEW levels,
           \A t \in Stage : levels[t] \in SUBSET (0 .. K), Raise(dstStages, levels)
    PROVE  /\ waitList' \in [Stage -> [Stage -> Nat]]
           /\ lastDstStageIndex' \in [Stage -> [Stage -> Nat]]
           /\ \A d, t \in Stage :
                /\ waitList[d][t] <= waitList'[d][t] /\ waitList'[d][t] <= K
                /\ d \in dstStages => \A x \in levels[t] : x <= waitList'[d][t]
                /\ waitList'[d][t] \in {waitList[d][t]} \cup levels[t]
                /\ lastDstStageIndex'[d][t] =
                     IF waitList'[d][t] > waitList[d][t]
                     THEN index[d] ELSE lastDstStageIndex[d][t]
<1>1. ASSUME NEW d \in Stage, NEW t \in Stage
      PROVE  /\ Raised(d, t, levels[t]) \in Nat /\ Raised(d, t, levels[t]) <= K
             /\ waitList[d][t] <= Raised(d, t, levels[t])
             /\ Raised(d, t, levels[t]) \in {waitList[d][t]} \cup levels[t]
             /\ \A x \in levels[t] : x <= Raised(d, t, levels[t])
  <2>1. PICK S : S = {waitList[d][t]} \cup levels[t]
    OBVIOUS
  <2>2. S \in SUBSET Nat /\ S # {} /\ \A x \in S : x <= K
    BY <2>1 DEF EventsTypeOK, AtMost
  <2>3. Max(S) \in S /\ \A x \in S : x <= Max(S)
    BY <2>2, MaxOfBounded
  <2> QED BY <2>1, <2>2, <2>3 DEF Raised
<1> DEFINE R(d, t) == Raised(d, t, levels[t])
<1>2. /\ waitList' = [d \in Stage |-> [t \in Stage |->
             IF d \in dstStages THEN R(d, t) ELSE waitList[d][t]]]
      /\ lastDstStageIndex' = [d \in Stage |-> [t \in Stage |->
             IF d \in dstStages
             THEN IF R(d, t) > waitList[d][t] THEN index[d] ELSE lastDstStageIndex[d][t]
             ELSE lastDstStageIndex[d][t]]]
  BY DEF Raise, RaisedWaits, RaisedLatches, Latched
<1>3. /\ waitList \in [Stage -> [Stage -> Nat]]
      /\ lastDstStageIndex \in [Stage -> [Stage -> Nat]] /\ index \in [Stage -> Nat]
      /\ \A d, t \in Stage : waitList[d][t] <= K
  BY DEF EventsTypeOK, AtMost
<1>4. \A d, t \in Stage : /\ R(d, t) \in Nat /\ R(d, t) <= K /\ waitList[d][t] <= R(d, t)
                          /\ R(d, t) \in {waitList[d][t]} \cup levels[t]
                          /\ \A x \in levels[t] : x <= R(d, t)
  BY <1>1
<1> HIDE DEF R
<1>5. \A d, t \in Stage : waitList'[d][t] = IF d \in dstStages THEN R(d, t) ELSE waitList[d][t]
  BY <1>2
<1>6. waitList' \in [Stage -> [Stage -> Nat]]
  BY <1>2, <1>3, <1>4
<1>7. lastDstStageIndex' \in [Stage -> [Stage -> Nat]]
  BY <1>2, <1>3
<1>8. ASSUME NEW d \in Stage, NEW t \in Stage
      PROVE  /\ waitList[d][t] <= waitList'[d][t] /\ waitList'[d][t] <= K
             /\ d \in dstStages => \A x \in levels[t] : x <= waitList'[d][t]
             /\ waitList'[d][t] \in {waitList[d][t]} \cup levels[t]
             /\ lastDstStageIndex'[d][t] =
                  IF waitList'[d][t] > waitList[d][t]
                  THEN index[d] ELSE lastDstStageIndex[d][t]
  <2>1. CASE d \in dstStages
    BY <1>2, <1>4, <1>5, <2>1
  <2>2. CASE d \notin dstStages
    <3>1. waitList'[d][t] = waitList[d][t] /\ lastDstStageIndex'[d][t] = lastDstStageIndex[d][t]
      BY <1>2, <1>5, <2>2
    <3>2. waitList[d][t] \in Nat /\ waitList[d][t] <= K
      BY <1>3
    <3> QED BY <2>2, <3>1, <3>2
  <2> QED BY <2>1, <2>2
<1> QED BY <1>6, <1>7, <1>8

\* What is due directly rises with the waits, when it rises to levels of theirs.
LEMMA DirectRaised ==
    ASSUME EventsInv, NEW dstStages \in SUBSET Stage, NEW level \in [Stage -> Nat],
           direct' = RaiseTo(direct, dstStages, level),
           waitList' \in [Stage -> [Stage -> Nat]],
           \A d, t \in Stage : /\ waitList[d][t] <= waitList'[d][t]
                               /\ d \in dstStages => level[t] <= waitList'[d][t]
    PROVE  direct' \in [Stage -> [Stage -> Nat]] /\ NoDirectWaitLost'
<1>1. /\ direct \in [Stage -> [Stage -> Nat]] /\ waitList \in [Stage -> [Stage -> Nat]]
      /\ \A d, t \in Stage : direct[d][t] <= waitList[d][t]
  BY DEF EventsInv, EventsTypeOK, NoDirectWaitLost
<1>2. \A d, t \in Stage : Greater(direct[d][t], level[t]) \in {direct[d][t], level[t]}
  BY DEF Greater
<1>3. \A d, t \in Stage : direct'[d][t] =
          IF d \in dstStages THEN Greater(direct[d][t], level[t]) ELSE direct[d][t]
  BY DEF RaiseTo
<1>4. direct' \in [Stage -> [Stage -> Nat]]
  <2>1. \A d, t \in Stage : direct'[d][t] \in Nat
    BY <1>1, <1>2, <1>3
  <2>2. direct' = [d \in Stage |-> [t \in Stage |-> direct'[d][t]]]
    BY <1>3 DEF RaiseTo
  <2> QED BY <2>1, <2>2
<1>5. ASSUME NEW d \in Stage, NEW t \in Stage
      PROVE  direct'[d][t] <= waitList'[d][t]
  <2>1. /\ direct[d][t] \in Nat /\ waitList[d][t] \in Nat /\ waitList'[d][t] \in Nat
        /\ direct[d][t] <= waitList[d][t] /\ waitList[d][t] <= waitList'[d][t]
        /\ level[t] \in Nat
    BY <1>1
  <2>2. direct'[d][t] = direct[d][t] \/ (d \in dstStages /\ direct'[d][t] = level[t])
    BY <1>2, <1>3
  <2> QED BY <2>1, <2>2
<1> QED BY <1>4, <1>5 DEF NoDirectWaitLost

LEMMA EventsPush ==
    ASSUME EventsInv, NEW dst \in Stage, PushNoted(dst)
    PROVE  EventsInv'
<1>1. /\ index' = [index EXCEPT ![dst] = @ + 1] /\ waitList' = waitList
      /\ UNCHANGED <<lastDstStageIndex, eventWaits, direct, directOf, folded>>
  BY DEF PushNoted, PushWork, eventVars, history
<1>2. EventsTypeOK'
  BY <1>1 DEF EventsInv, EventsTypeOK
<1>3. PICK K \in Nat : AtMost(K)
  BY DEF EventsInv
<1>4. AtMost(K + 1)'
  BY <1>1, <1>3 DEF AtMost, EventsInv, EventsTypeOK
<1>5. DirectWaitsCarried' /\ NoDirectWaitLost'
  BY <1>1 DEF EventsInv, DirectWaitsCarried, NoDirectWaitLost
<1>6. UnpushedNeedsFold' /\ UnpushedWaitsNeedFold'
  <2>1. \A t \in Stage : index[t] \in Nat /\ index'[t] \in {index[t], index[t] + 1}
    BY <1>1 DEF EventsInv, EventsTypeOK
  <2>2. \A e \in Event, t \in Stage : eventWaits[e][t] \in Nat /\ \A d \in Stage : waitList[d][t] \in Nat
    BY DEF EventsInv, EventsTypeOK
  <2>3. UnpushedNeedsFold'
    BY <1>1, <2>1, <2>2 DEF EventsInv, UnpushedNeedsFold
  <2>4. UnpushedWaitsNeedFold'
    <3>1. \A d, t \in Stage : waitList[d][t] \in Nat
      BY DEF EventsInv, EventsTypeOK
    <3> QED BY <1>1, <2>1, <3>1 DEF EventsInv, UnpushedWaitsNeedFold
  <2> QED BY <2>3, <2>4
<1> QED BY <1>2, <1>3, <1>4, <1>5, <1>6 DEF EventsInv

LEMMA EventsBarrier ==
    ASSUME EventsInv, NEW srcStages \in SUBSET Stage, NEW dstStages \in SUBSET Stage,
           BarrierNoted(srcStages, dstStages)
    PROVE  EventsInv'
<1>1. PICK K \in Nat : AtMost(K)
  BY DEF EventsInv
<1>2. /\ index \in [Stage -> Nat] /\ waitList \in [Stage -> [Stage -> Nat]]
      /\ UNCHANGED <<index, eventWaits, directOf, folded>>
      /\ Raise(dstStages, BarrierLevels(srcStages))
      /\ direct' = RaiseTo(direct, dstStages, DirectLevel(srcStages))
  BY DEF EventsInv, EventsTypeOK, BarrierNoted, PipelineBarrier, eventVars
<1>3. \A t \in Stage : /\ BarrierLevels(srcStages)[t] = LevelsOf(srcStages, t)
                       /\ LevelsOf(srcStages, t) \in SUBSET (0 .. K)
  BY <1>1, <1>2 DEF BarrierLevels, LevelsOf, AtMost
<1>4. /\ waitList' \in [Stage -> [Stage -> Nat]]
      /\ lastDstStageIndex' \in [Stage -> [Stage -> Nat]]
      /\ \A d, t \in Stage :
           /\ waitList[d][t] <= waitList'[d][t] /\ waitList'[d][t] <= K
           /\ d \in dstStages => \A x \in LevelsOf(srcStages, t) : x <= waitList'[d][t]
           /\ waitList'[d][t] \in {waitList[d][t]} \cup LevelsOf(srcStages, t)
  <2>1. PICK levels : levels = BarrierLevels(srcStages)
    OBVIOUS
  <2>2. Raise(dstStages, levels) /\ \A t \in Stage : levels[t] \in SUBSET (0 .. K)
    BY <1>2, <1>3, <2>1
  <2>3. /\ waitList' \in [Stage -> [Stage -> Nat]]
        /\ lastDstStageIndex' \in [Stage -> [Stage -> Nat]]
        /\ \A d, t \in Stage :
             /\ waitList[d][t] <= waitList'[d][t] /\ waitList'[d][t] <= K
             /\ d \in dstStages => \A x \in levels[t] : x <= waitList'[d][t]
             /\ waitList'[d][t] \in {waitList[d][t]} \cup levels[t]
    BY <1>1, <2>2, RaiseFacts DEF EventsInv
  <2>4. \A t \in Stage : levels[t] = LevelsOf(srcStages, t)
    BY <1>3, <2>1
  <2> QED BY <2>3, <2>4
<1>5. direct' \in [Stage -> [Stage -> Nat]] /\ NoDirectWaitLost'
  <2>1. PICK level : level = DirectLevel(srcStages)
    OBVIOUS
  <2>2. level \in [Stage -> Nat]
    BY <1>2, <2>1 DEF DirectLevel
  <2>3. \A d, t \in Stage : d \in dstStages => level[t] <= waitList'[d][t]
    <3>1. ASSUME NEW d \in Stage, NEW t \in Stage, d \in dstStages
          PROVE  level[t] <= waitList'[d][t]
      <4>1. CASE t \in srcStages
        <5>1. level[t] = index[t] /\ index[t] \in LevelsOf(srcStages, t)
          BY <2>1, <4>1 DEF DirectLevel, LevelsOf
        <5> QED BY <1>4, <3>1, <5>1
      <4>2. CASE t \notin srcStages
        <5>1. level[t] = 0 /\ waitList'[d][t] \in Nat
          BY <1>4, <2>1, <4>2 DEF DirectLevel
        <5> QED BY <5>1
      <4> QED BY <4>1, <4>2
    <3> QED BY <3>1
  <2> QED BY <1>2, <1>4, <2>1, <2>2, <2>3, DirectRaised
<1>6. AtMost(K)'
  BY <1>1, <1>2, <1>4 DEF AtMost
<1>7. EventsTypeOK' /\ DirectWaitsCarried'
  BY <1>2, <1>4, <1>5 DEF EventsInv, EventsTypeOK, DirectWaitsCarried
<1>8. UnpushedNeedsFold'
  BY <1>2 DEF EventsInv, UnpushedNeedsFold
<1>9. UnpushedWaitsNeedFold'
  <2> SUFFICES ASSUME NEW d \in Stage, NEW t \in Stage, waitList'[d][t] > index[t]
               PROVE  t \in folded
    BY <1>2 DEF UnpushedWaitsNeedFold
  <2>1. index[t] \in Nat /\ waitList'[d][t] # index[t]
    BY <1>2, <1>4
  <2>2. PICK s \in Stage : waitList'[d][t] = waitList[s][t]
    BY <1>4, <2>1 DEF LevelsOf
  <2> QED BY <2>2 DEF EventsInv, UnpushedWaitsNeedFold
<1> QED BY <1>1, <1>5, <1>6, <1>7, <1>8, <1>9 DEF EventsInv

\* A signal takes the index of every source stage along, whatever else it folds in.
LEMMA EventsSignal ==
    ASSUME EventsInv, NEW e \in Event, NEW srcStages \in SUBSET Stage, SignalNoted(e, srcStages)
    PROVE  EventsInv'
<1>1. PICK K \in Nat : AtMost(K)
  BY DEF EventsInv
<1>2. /\ index \in [Stage -> Nat] /\ waitList \in [Stage -> [Stage -> Nat]]
      /\ eventWaits \in [Event -> [Stage -> Nat]] /\ directOf \in [Event -> [Stage -> Nat]]
  BY DEF EventsInv, EventsTypeOK
<1>3. ASSUME NEW s \in Stage
      PROVE  /\ SignalLevel(s) \in Nat /\ SignalLevel(s) <= K
             /\ index[s] <= SignalLevel(s)
             /\ SignalLevel(s) = index[s] \/ \E t \in Stage : SignalLevel(s) = waitList[s][t]
  <2>1. PICK S : S = {index[s]} \cup {waitList[s][t] : t \in Stage}
    OBVIOUS
  <2>2. S \in SUBSET Nat /\ S # {} /\ \A x \in S : x <= K
    BY <1>1, <1>2, <2>1 DEF AtMost
  <2>3. Max(S) \in S /\ \A x \in S : x <= Max(S)
    BY <2>2, MaxOfBounded
  <2> QED BY <2>1, <2>2, <2>3 DEF SignalLevel
<1>4. PICK row : row = [s \in Stage |-> IF s \in srcStages THEN SignalLevel(s) ELSE 0]
  OBVIOUS
<1>5. PICK level : level = DirectLevel(srcStages)
  OBVIOUS
<1>6. row \in [Stage -> Nat] /\ level \in [Stage -> Nat]
      /\ \A s \in Stage : row[s] <= K /\ level[s] <= row[s]
  <2>1. level = [s \in Stage |-> IF s \in srcStages THEN index[s] ELSE 0]
    BY <1>5 DEF DirectLevel
  <2> QED BY <1>2, <1>3, <1>4, <1>5, <2>1
<1>7. /\ eventWaits' = [eventWaits EXCEPT ![e] = row] /\ directOf' = [directOf EXCEPT ![e] = level]
      /\ folded' = folded \cup Folds(srcStages)
      /\ UNCHANGED <<index, waitList, lastDstStageIndex, direct>>
  BY <1>4, <1>5 DEF SignalNoted, SignalEvent, trackerVars
<1>8. EventsTypeOK'
  BY <1>2, <1>6, <1>7 DEF EventsInv, EventsTypeOK
<1>9. AtMost(K)'
  BY <1>1, <1>2, <1>6, <1>7 DEF AtMost
<1>10. DirectWaitsCarried' /\ NoDirectWaitLost'
  BY <1>2, <1>6, <1>7 DEF EventsInv, DirectWaitsCarried, NoDirectWaitLost
<1>11. UnpushedNeedsFold'
  <2> SUFFICES ASSUME NEW f \in Event, NEW t \in Stage, eventWaits'[f][t] > index[t]
               PROVE  t \in folded'
    BY <1>7 DEF UnpushedNeedsFold
  <2>1. CASE f # e
    BY <1>2, <1>7, <2>1 DEF EventsInv, UnpushedNeedsFold
  <2>2. CASE f = e
    <3>1. eventWaits'[f][t] = row[t] /\ index[t] \in Nat
      BY <1>2, <1>7, <2>2
    <3>2. t \in srcStages /\ SignalLevel(t) > index[t]
      BY <1>4, <3>1
    <3>3. PICK u \in Stage : waitList[t][u] > index[t]
      BY <1>3, <3>1, <3>2
    <3> QED BY <1>7, <3>2, <3>3 DEF Folds
  <2> QED BY <2>1, <2>2
<1>12. UnpushedWaitsNeedFold'
  BY <1>7 DEF EventsInv, UnpushedWaitsNeedFold
<1> QED BY <1>8, <1>9, <1>10, <1>11, <1>12 DEF EventsInv

LEMMA EventsWait ==
    ASSUME EventsInv, NEW e \in Event, NEW dstStages \in SUBSET Stage, WaitNoted(e, dstStages)
    PROVE  EventsInv'
<1>1. PICK K \in Nat : AtMost(K)
  BY DEF EventsInv
<1>2. /\ eventWaits \in [Event -> [Stage -> Nat]] /\ directOf[e] \in [Stage -> Nat]
      /\ UNCHANGED <<index, eventWaits, directOf, folded>>
      /\ direct' = RaiseTo(direct, dstStages, directOf[e])
      /\ \A t \in Stage : directOf[e][t] <= eventWaits[e][t] /\ eventWaits[e][t] <= K
  BY <1>1 DEF EventsInv, EventsTypeOK, DirectWaitsCarried, AtMost, WaitNoted, WaitEvent
<1>3. PICK levels : levels = [t \in Stage |-> {eventWaits[e][t]}]
  OBVIOUS
<1>4. Raise(dstStages, levels) /\ \A t \in Stage : levels[t] \in SUBSET (0 .. K)
  BY <1>2, <1>3 DEF WaitNoted, WaitEvent
<1>5. /\ waitList' \in [Stage -> [Stage -> Nat]]
      /\ lastDstStageIndex' \in [Stage -> [Stage -> Nat]]
      /\ \A d, t \in Stage :
           /\ waitList[d][t] <= waitList'[d][t] /\ waitList'[d][t] <= K
           /\ d \in dstStages => \A x \in levels[t] : x <= waitList'[d][t]
           /\ waitList'[d][t] \in {waitList[d][t]} \cup levels[t]
  BY <1>1, <1>4, RaiseFacts DEF EventsInv
<1>6. ASSUME NEW d \in Stage, NEW t \in Stage, d \in dstStages
      PROVE  directOf[e][t] <= waitList'[d][t]
  <2>1. eventWaits[e][t] <= waitList'[d][t]
    BY <1>3, <1>5, <1>6
  <2>2. directOf[e][t] \in Nat /\ eventWaits[e][t] \in Nat /\ waitList'[d][t] \in Nat
    BY <1>2, <1>5
  <2> QED BY <1>2, <2>1, <2>2
<1>7. direct' \in [Stage -> [Stage -> Nat]] /\ NoDirectWaitLost'
  <2>1. PICK level : level = directOf[e]
    OBVIOUS
  <2> QED BY <1>2, <1>5, <1>6, <2>1, DirectRaised
<1>8. AtMost(K)'
  BY <1>1, <1>2, <1>5 DEF AtMost
<1>9. EventsTypeOK' /\ DirectWaitsCarried'
  BY <1>2, <1>5, <1>7 DEF EventsInv, EventsTypeOK, DirectWaitsCarried
<1>10. UnpushedNeedsFold'
  BY <1>2 DEF EventsInv, UnpushedNeedsFold
<1>11. UnpushedWaitsNeedFold'
  <2>1. \A d, t \in Stage : waitList'[d][t] \in {waitList[d][t], eventWaits[e][t]}
    BY <1>3, <1>5
  <2> QED BY <1>2, <2>1 DEF EventsInv, UnpushedNeedsFold, UnpushedWaitsNeedFold
<1> QED BY <1>1, <1>7, <1>8, <1>9, <1>10, <1>11 DEF EventsInv

\* Resetting forgets the direct dependencies, setting on the host adds none.
LEMMA EventsOnHost ==
    ASSUME EventsInv, NEW e \in Event, ResetNoted(e) \/ HostSetNoted(e)
    PROVE  EventsInv'
<1>1. /\ UNCHANGED <<index, waitList, lastDstStageIndex, eventWaits, direct, folded>>
      /\ directOf' = directOf \/ directOf' = [directOf EXCEPT ![e] = ZeroStages]
  BY DEF ResetNoted, ResetEvent, HostSetNoted, HostSetEvent, trackerVars, history
<1>2. /\ directOf' \in [Event -> [Stage -> Nat]]
      /\ \A f \in Event, t \in Stage : directOf'[f][t] \in {directOf[f][t], 0}
  <2>1. directOf \in [Event -> [Stage -> Nat]]
    BY DEF EventsInv, EventsTypeOK
  <2>2. CASE directOf' = directOf
    BY <2>1, <2>2
  <2>3. CASE directOf' = [directOf EXCEPT ![e] = ZeroStages]
    BY <2>1, <2>3 DEF ZeroStages
  <2> QED BY <1>1, <2>2, <2>3
<1>3. EventsTypeOK'
  BY <1>1, <1>2 DEF EventsInv, EventsTypeOK
<1>4. PICK K \in Nat : AtMost(K)
  BY DEF EventsInv
<1>5. AtMost(K)'
  BY <1>1, <1>4 DEF AtMost
<1>6. DirectWaitsCarried' /\ NoDirectWaitLost'
  BY <1>1, <1>2 DEF EventsInv, EventsTypeOK, DirectWaitsCarried, NoDirectWaitLost
<1>7. UnpushedNeedsFold' /\ UnpushedWaitsNeedFold'
  BY <1>1 DEF EventsInv, UnpushedNeedsFold, UnpushedWaitsNeedFold
<1> QED BY <1>3, <1>5, <1>6, <1>7 DEF EventsInv

\* What lies between two pushes, and what the device does, keeps the waits recorded.
LEMMA BetweenPushesInv == EventsInv /\ BetweenPushes => EventsInv'
BY MaskAssumption, EventsBarrier, EventsSignal, EventsWait, EventsOnHost DEF BetweenPushes

LEMMA EventsStutter == EventsInv /\ UNCHANGED eventsHistoryVars => EventsInv'
BY DEF eventsHistoryVars, vars, eventVars, history, EventsInv, EventsTypeOK, AtMost,
       DirectWaitsCarried, NoDirectWaitLost, UnpushedNeedsFold, UnpushedWaitsNeedFold

LEMMA EventsNextInv == EventsInv /\ [EventsHistoryNext]_eventsHistoryVars => EventsInv'
BY EventsPush, BetweenPushesInv, EventsStutter DEF EventsHistoryNext

\* No stage loses a dependency it was given directly, whatever events, resets and
\* host calls come in between.
THEOREM NoDirectWaitIsLost == EventsHistorySpec => []NoDirectWaitLost
<1>1. EventsInv => NoDirectWaitLost
  BY DEF EventsInv
<1> QED BY <1>1, EventsInitInv, EventsNextInv, PTL DEF EventsHistorySpec

\* A stage waits for work nobody has pushed only after signalEvent folded the
\* wait of another stage into the entry of a source stage.
THEOREM UnpushedWaitsAreFolds == EventsHistorySpec => []UnpushedWaitsNeedFold
<1>1. EventsInv => UnpushedWaitsNeedFold
  BY DEF EventsInv
<1> QED BY <1>1, EventsInitInv, EventsNextInv, PTL DEF EventsHistorySpec

(***************************************************************************)
(* What a reported bubble means for the device.                            *)
(***************************************************************************)

\* The waits item n of stage s was pushed with.
ExecTypeOK ==
    /\ waitsOf \in [Stage -> Seq([Stage -> Nat])]
    /\ \A s \in Stage : Len(waitsOf[s]) = index[s]
    /\ done \in [Stage -> Nat] /\ running \in [Stage -> BOOLEAN]

\* A latch that is behind tells that the last item was pushed with the waits of now.
LastItemsWait ==
    \A s, t \in Stage :
        index[s] # 0 /\ lastDstStageIndex[s][t] # index[s] =>
            waitsOf[s][index[s]][t] = waitList[s][t]

\* Nothing has run before what it waits for.
RunsInOrder ==
    \A s \in Stage :
        /\ done[s] <= index[s] /\ (running[s] => done[s] < index[s])
        /\ \A n \in 1 .. index[s] :
               n <= done[s] \/ (running[s] /\ n = done[s] + 1) =>
                   \A t \in Stage : waitsOf[s][n][t] <= done[t]

\* A report names an item, and the item of the other stage it waits for, which
\* was pushed to wait for all items before the reported one.
ReportsWait ==
    \A r \in reports :
        /\ r.stage \in Stage /\ r.by \in Stage
        /\ r.item \in 1 .. index[r.stage] /\ r.byItem \in 0 .. index[r.by]
        /\ waitsOf[r.stage][r.item][r.by] = r.byItem
        /\ r.byItem # 0 => waitsOf[r.by][r.byItem][r.stage] = r.item - 1

ExecInv == EventsInv /\ ExecTypeOK /\ LastItemsWait /\ RunsInOrder /\ ReportsWait

LEMMA ExecInitInv == ExecInit => ExecInv
<1> SUFFICES ASSUME ExecInit PROVE ExecInv
  OBVIOUS
<1> USE DEF ExecInit, EventsHistoryInit, EventsInit, Init
<1>1. EventsInv
  BY EventsInitInv
<1>2. ExecTypeOK
  BY DEF ExecTypeOK
<1>3. LastItemsWait /\ RunsInOrder /\ ReportsWait
  BY DEF LastItemsWait, RunsInOrder, ReportsWait
<1> QED BY <1>1, <1>2, <1>3 DEF ExecInv

\* A pushed item comes last and leaves the items before it as they are.
LEMMA PushAppends ==
    ASSUME ExecInv, NEW dst \in Stage, Push(dst)
    PROVE  /\ ExecTypeOK'
           /\ \A s \in Stage : index[s] \in Nat /\ index'[s] = index[s] + (IF s = dst THEN 1 ELSE 0)
           /\ \A s \in Stage : \A n \in 1 .. index[s] : waitsOf'[s][n] = waitsOf[s][n]
           /\ waitsOf'[dst][index[dst] + 1] = waitList[dst]
           /\ UNCHANGED <<waitList, lastDstStageIndex, done, running>>
<1>1. /\ index \in [Stage -> Nat] /\ waitList[dst] \in [Stage -> Nat]
      /\ waitsOf \in [Stage -> Seq([Stage -> Nat])]
      /\ \A s \in Stage : Len(waitsOf[s]) = index[s]
      /\ done \in [Stage -> Nat] /\ running \in [Stage -> BOOLEAN]
  BY DEF ExecInv, EventsInv, EventsTypeOK, ExecTypeOK
<1>2. /\ index' = [index EXCEPT ![dst] = @ + 1]
      /\ waitsOf' = [waitsOf EXCEPT ![dst] = Append(@, waitList[dst])]
      /\ UNCHANGED <<waitList, lastDstStageIndex, done, running>>
  BY DEF Push, PushNoted, PushWork, deviceVars
<1>3. /\ Append(waitsOf[dst], waitList[dst]) \in Seq([Stage -> Nat])
      /\ Len(Append(waitsOf[dst], waitList[dst])) = index[dst] + 1
      /\ \A n \in 1 .. index[dst] : Append(waitsOf[dst], waitList[dst])[n] = waitsOf[dst][n]
      /\ Append(waitsOf[dst], waitList[dst])[index[dst] + 1] = waitList[dst]
  BY <1>1
<1>4. ExecTypeOK'
  BY <1>1, <1>2, <1>3 DEF ExecTypeOK
<1> QED BY <1>1, <1>2, <1>3, <1>4

LEMMA PushExecInv ==
    ASSUME ExecInv, NEW dst \in Stage, Push(dst)
    PROVE  ExecInv'
<1>1. /\ ExecTypeOK'
      /\ \A s \in Stage : index[s] \in Nat /\ index'[s] = index[s] + (IF s = dst THEN 1 ELSE 0)
      /\ \A s \in Stage : \A n \in 1 .. index[s] : waitsOf'[s][n] = waitsOf[s][n]
      /\ waitsOf'[dst][index[dst] + 1] = waitList[dst]
      /\ UNCHANGED <<waitList, lastDstStageIndex, done, running>>
  BY PushAppends
<1>2. EventsInv'
  BY EventsPush DEF ExecInv, Push
<1>3. LastItemsWait'
  <2> SUFFICES ASSUME NEW s \in Stage, NEW t \in Stage,
                      index'[s] # 0, lastDstStageIndex'[s][t] # index'[s]
               PROVE  waitsOf'[s][index'[s]][t] = waitList'[s][t]
    BY DEF LastItemsWait
  <2>1. CASE s = dst
    BY <1>1, <2>1
  <2>2. CASE s # dst
    BY <1>1, <2>2 DEF ExecInv, LastItemsWait
  <2> QED BY <2>1, <2>2
<1>4. RunsInOrder'
  <2> SUFFICES ASSUME NEW s \in Stage
               PROVE  /\ done'[s] <= index'[s] /\ (running'[s] => done'[s] < index'[s])
                      /\ \A n \in 1 .. index'[s] :
                             n <= done'[s] \/ (running'[s] /\ n = done'[s] + 1) =>
                                 \A t \in Stage : waitsOf'[s][n][t] <= done'[t]
    BY DEF RunsInOrder
  <2>1. /\ done[s] \in Nat /\ done[s] <= index[s] /\ (running[s] => done[s] < index[s])
        /\ \A n \in 1 .. index[s] :
               n <= done[s] \/ (running[s] /\ n = done[s] + 1) =>
                   \A t \in Stage : waitsOf[s][n][t] <= done[t]
    BY DEF ExecInv, RunsInOrder, ExecTypeOK
  <2>2. index'[s] \in {index[s], index[s] + 1} /\ index[s] \in Nat
    BY <1>1
  <2>3. done'[s] <= index'[s] /\ (running'[s] => done'[s] < index'[s])
    BY <1>1, <2>1, <2>2
  <2>4. ASSUME NEW n \in 1 .. index'[s], n <= done'[s] \/ (running'[s] /\ n = done'[s] + 1)
        PROVE  \A t \in Stage : waitsOf'[s][n][t] <= done'[t]
    <3>1. n \in 1 .. index[s] /\ (n <= done[s] \/ (running[s] /\ n = done[s] + 1))
      BY <1>1, <2>1, <2>2, <2>4
    <3> QED BY <1>1, <2>1, <3>1
  <2> QED BY <2>3, <2>4
<1>5. ReportsWait'
  <2> SUFFICES ASSUME NEW r \in reports'
               PROVE  /\ r.stage \in Stage /\ r.by \in Stage
                      /\ r.item \in 1 .. index'[r.stage] /\ r.byItem \in 0 .. index'[r.by]
                      /\ waitsOf'[r.stage][r.item][r.by] = r.byItem
                      /\ r.byItem # 0 => waitsOf'[r.by][r.byItem][r.stage] = r.item - 1
    BY DEF ReportsWait
  <2>1. CASE r \in reports
    <3>1. /\ r.stage \in Stage /\ r.by \in Stage
          /\ r.item \in 1 .. index[r.stage] /\ r.byItem \in 0 .. index[r.by]
          /\ waitsOf[r.stage][r.item][r.by] = r.byItem
          /\ r.byItem # 0 => waitsOf[r.by][r.byItem][r.stage] = r.item - 1
      BY <2>1 DEF ExecInv, ReportsWait
    <3>2. r.item \in 1 .. index'[r.stage] /\ r.byItem \in 0 .. index'[r.by]
      BY <1>1, <3>1
    <3>3. waitsOf'[r.stage][r.item] = waitsOf[r.stage][r.item]
      BY <1>1, <3>1
    <3>4. r.byItem # 0 => waitsOf'[r.by][r.byItem] = waitsOf[r.by][r.byItem]
      BY <1>1, <3>1
    <3> QED BY <3>1, <3>2, <3>3, <3>4
  <2>2. CASE r \notin reports
    <3>1. PICK i \in Stage : /\ Blocks(i, dst)
                             /\ r = [stage |-> dst, item |-> index[dst] + 1,
                                     by |-> i, byItem |-> index[i]]
      BY <2>2 DEF Push
    <3>2. /\ i # dst /\ waitList[dst][i] = index[i]
          /\ waitList[i][dst] = index[dst] /\ index[i] # lastDstStageIndex[i][dst]
      BY <3>1 DEF Blocks, WorkBehindWait
    <3>3. r.stage = dst /\ r.item = index[dst] + 1 /\ r.by = i /\ r.byItem = index[i]
      BY <3>1
    <3>4. index[dst] \in Nat /\ index[i] \in Nat /\ index'[dst] = index[dst] + 1 /\ index'[i] = index[i]
      BY <1>1, <3>2
    <3>5. waitsOf'[dst][index[dst] + 1][i] = index[i]
      BY <1>1, <3>2
    <3>6. index[i] # 0 => waitsOf'[i][index[i]][dst] = index[dst]
      <4>1. index[i] # 0 => waitsOf[i][index[i]][dst] = waitList[i][dst]
        BY <3>2 DEF ExecInv, LastItemsWait
      <4>2. index[i] # 0 => waitsOf'[i][index[i]] = waitsOf[i][index[i]]
        BY <1>1, <3>4
      <4> QED BY <3>2, <4>1, <4>2
    <3> QED BY <3>3, <3>4, <3>5, <3>6
  <2> QED BY <2>1, <2>2
<1> QED BY <1>1, <1>2, <1>3, <1>4, <1>5 DEF ExecInv

\* A wait that is raised is latched: the last item does not have it.
LEMMA RaisedIsLatched ==
    ASSUME EventsInv, BetweenPushes, NEW s \in Stage, NEW t \in Stage,
           lastDstStageIndex'[s][t] # index[s]
    PROVE  /\ waitList'[s][t] = waitList[s][t]
           /\ lastDstStageIndex'[s][t] = lastDstStageIndex[s][t]
<1>1. PICK K \in Nat : AtMost(K)
  BY DEF EventsInv
<1>2. ASSUME NEW dstStages \in SUBSET Stage, NEW levels,
             \A u \in Stage : levels[u] \in SUBSET (0 .. K), Raise(dstStages, levels)
      PROVE  /\ waitList'[s][t] = waitList[s][t]
             /\ lastDstStageIndex'[s][t] = lastDstStageIndex[s][t]
  <2>1. /\ waitList' \in [Stage -> [Stage -> Nat]]
        /\ waitList[s][t] <= waitList'[s][t]
        /\ lastDstStageIndex'[s][t] = IF waitList'[s][t] > waitList[s][t]
                                     THEN index[s] ELSE lastDstStageIndex[s][t]
    BY <1>1, <1>2, RaiseFacts DEF EventsInv
  <2>2. waitList[s][t] \in Nat /\ waitList'[s][t] \in Nat
    BY <2>1 DEF EventsInv, EventsTypeOK
  <2>3. ~(waitList'[s][t] > waitList[s][t])
    BY <2>1
  <2>4. PICK a, b \in Nat : a = waitList[s][t] /\ b = waitList'[s][t]
    BY <2>2
  <2>5. a <= b /\ ~(b > a)
    BY <2>1, <2>3, <2>4
  <2>6. waitList'[s][t] = waitList[s][t]
    BY <2>4, <2>5
  <2>7. lastDstStageIndex'[s][t] = lastDstStageIndex[s][t]
    BY <2>1, <2>3
  <2> QED BY <2>6, <2>7
<1>3. ASSUME NEW srcStages \in StageMasks, NEW dstStages \in StageMasks,
             BarrierNoted(srcStages, dstStages)
      PROVE  /\ waitList'[s][t] = waitList[s][t]
             /\ lastDstStageIndex'[s][t] = lastDstStageIndex[s][t]
  <2>1. PICK levels : levels = BarrierLevels(srcStages)
    OBVIOUS
  <2>2. \A u \in Stage : levels[u] \in SUBSET (0 .. K)
    BY <1>1, <2>1, MaskAssumption DEF BarrierLevels, LevelsOf, AtMost, EventsInv, EventsTypeOK
  <2>3. Raise(dstStages, levels) /\ dstStages \in SUBSET Stage
    BY <1>3, <2>1, MaskAssumption DEF BarrierNoted, PipelineBarrier
  <2> QED BY <1>2, <2>2, <2>3
<1>4. ASSUME NEW e \in Event, NEW dstStages \in StageMasks, WaitNoted(e, dstStages)
      PROVE  /\ waitList'[s][t] = waitList[s][t]
             /\ lastDstStageIndex'[s][t] = lastDstStageIndex[s][t]
  <2>1. PICK levels : levels = [u \in Stage |-> {eventWaits[e][u]}]
    OBVIOUS
  <2>2. \A u \in Stage : levels[u] \in SUBSET (0 .. K)
    BY <1>1, <2>1 DEF AtMost, EventsInv, EventsTypeOK
  <2>3. Raise(dstStages, levels) /\ dstStages \in SUBSET Stage
    BY <1>4, <2>1, MaskAssumption DEF WaitNoted, WaitEvent
  <2> QED BY <1>2, <2>2, <2>3
<1>5. ASSUME NEW e \in Event, NEW srcStages \in StageMasks, SignalNoted(e, srcStages)
      PROVE  UNCHANGED <<waitList, lastDstStageIndex>>
  BY <1>5 DEF SignalNoted, SignalEvent, trackerVars
<1>6. ASSUME NEW e \in Event, ResetNoted(e) \/ HostSetNoted(e)
      PROVE  UNCHANGED <<waitList, lastDstStageIndex>>
  BY <1>6 DEF ResetNoted, ResetEvent, HostSetNoted, HostSetEvent, trackerVars
<1> QED BY <1>3, <1>4, <1>5, <1>6 DEF BetweenPushes

LEMMA SynchronizeExecInv ==
    ASSUME ExecInv, Synchronize
    PROVE  ExecInv'
<1>1. UNCHANGED <<waitsOf, reports, done, running>> /\ BetweenPushes
  BY DEF Synchronize, deviceVars
<1>2. EventsInv'
  BY <1>1, BetweenPushesInv DEF ExecInv
<1>3. index' = index
  BY <1>1 DEF BetweenPushes, BarrierNoted, PipelineBarrier, SignalNoted, SignalEvent, WaitNoted,
              WaitEvent, ResetNoted, ResetEvent, HostSetNoted, HostSetEvent, trackerVars
<1>4. ExecTypeOK' /\ RunsInOrder' /\ ReportsWait'
  BY <1>1, <1>3 DEF ExecInv, ExecTypeOK, RunsInOrder, ReportsWait
<1>5. LastItemsWait'
  <2> SUFFICES ASSUME NEW s \in Stage, NEW t \in Stage,
                      index'[s] # 0, lastDstStageIndex'[s][t] # index'[s]
               PROVE  waitsOf'[s][index'[s]][t] = waitList'[s][t]
    BY DEF LastItemsWait
  <2>1. /\ waitList'[s][t] = waitList[s][t]
        /\ lastDstStageIndex'[s][t] = lastDstStageIndex[s][t]
    BY <1>1, <1>3, RaisedIsLatched DEF ExecInv
  <2> QED BY <1>1, <1>3, <2>1 DEF ExecInv, LastItemsWait
<1> QED BY <1>2, <1>4, <1>5 DEF ExecInv

\* The device starts an item when what it waits for is done, and finishes it.
LEMMA DeviceExecInv ==
    ASSUME ExecInv, NEW s \in Stage, Start(s) \/ Finish(s)
    PROVE  ExecInv'
<1>1. UNCHANGED <<waitList, index, lastDstStageIndex, waitsOf, reports>>
  BY DEF Start, Finish, eventsHistoryVars, vars
<1>2. EventsInv' /\ LastItemsWait' /\ ReportsWait'
  <2>1. EventsInv'
    BY EventsStutter DEF ExecInv, Start, Finish
  <2> QED BY <1>1, <2>1 DEF ExecInv, LastItemsWait, ReportsWait
<1>3. /\ index \in [Stage -> Nat] /\ done \in [Stage -> Nat] /\ running \in [Stage -> BOOLEAN]
      /\ waitsOf \in [Stage -> Seq([Stage -> Nat])]
      /\ \A u \in Stage : Len(waitsOf[u]) = index[u]
      /\ \A u \in Stage : done[u] <= index[u] /\ (running[u] => done[u] < index[u])
  BY DEF ExecInv, EventsInv, EventsTypeOK, ExecTypeOK, RunsInOrder
<1>4. \A u, t \in Stage : \A n \in 1 .. index[u] : waitsOf[u][n][t] \in Nat
  BY <1>3
<1>5. CASE Start(s)
  <2>1. /\ done[s] < index[s] /\ done' = done
        /\ running' = [running EXCEPT ![s] = TRUE]
        /\ \A t \in Stage : waitsOf[s][done[s] + 1][t] <= done[t]
    BY <1>5 DEF Start
  <2>2. ExecTypeOK'
    BY <1>1, <1>3, <2>1 DEF ExecTypeOK
  <2>3. RunsInOrder'
    <3> SUFFICES ASSUME NEW u \in Stage
                 PROVE  /\ done'[u] <= index'[u] /\ (running'[u] => done'[u] < index'[u])
                        /\ \A n \in 1 .. index'[u] :
                               n <= done'[u] \/ (running'[u] /\ n = done'[u] + 1) =>
                                   \A t \in Stage : waitsOf'[u][n][t] <= done'[t]
      BY DEF RunsInOrder
    <3>1. CASE u = s
      BY <1>1, <1>3, <2>1, <3>1 DEF ExecInv, RunsInOrder
    <3>2. CASE u # s
      BY <1>1, <1>3, <2>1, <3>2 DEF ExecInv, RunsInOrder
    <3> QED BY <3>1, <3>2
  <2> QED BY <1>2, <2>2, <2>3 DEF ExecInv
<1>6. CASE Finish(s)
  <2>1. /\ running[s] /\ running' = [running EXCEPT ![s] = FALSE]
        /\ done' = [done EXCEPT ![s] = @ + 1]
    BY <1>6 DEF Finish
  <2>2. ExecTypeOK'
    BY <1>1, <1>3, <2>1 DEF ExecTypeOK
  <2>3. RunsInOrder'
    <3> SUFFICES ASSUME NEW u \in Stage
                 PROVE  /\ done'[u] <= index'[u] /\ (running'[u] => done'[u] < index'[u])
                        /\ \A n \in 1 .. index'[u] :
                               n <= done'[u] \/ (running'[u] /\ n = done'[u] + 1) =>
                                   \A t \in Stage : waitsOf'[u][n][t] <= done'[t]
      BY DEF RunsInOrder
    <3>1. done'[u] <= index'[u] /\ (running'[u] => done'[u] < index'[u])
      BY <1>1, <1>3, <2>1
    <3>2. ASSUME NEW n \in 1 .. index'[u], n <= done'[u] \/ (running'[u] /\ n = done'[u] + 1),
                 NEW t \in Stage
          PROVE  waitsOf'[u][n][t] <= done'[t]
      <4>1. n <= done[u] \/ (running[u] /\ n = done[u] + 1)
        BY <1>1, <1>3, <2>1, <3>2, SMTT(30)
      <4>2. waitsOf[u][n][t] <= done[t]
        BY <1>1, <4>1 DEF ExecInv, RunsInOrder
      <4>3. waitsOf[u][n][t] \in Nat /\ done[t] \in Nat /\ done'[t] \in {done[t], done[t] + 1}
        BY <1>1, <1>3, <1>4, <2>1
      <4> QED BY <1>1, <4>2, <4>3
    <3> QED BY <3>1, <3>2
  <2> QED BY <1>2, <2>2, <2>3 DEF ExecInv
<1> QED BY <1>5, <1>6

LEMMA ExecNextInv == ExecInv /\ [ExecNext]_execVars => ExecInv'
<1> SUFFICES ASSUME ExecInv, [ExecNext]_execVars PROVE ExecInv'
  OBVIOUS
<1>1. CASE UNCHANGED execVars
  <2>1. EventsInv'
    BY <1>1, EventsStutter DEF ExecInv, execVars
  <2> QED BY <1>1, <2>1 DEF execVars, eventsHistoryVars, vars, ExecInv, ExecTypeOK, LastItemsWait,
                            RunsInOrder, ReportsWait
<1> QED BY <1>1, PushExecInv, SynchronizeExecInv, DeviceExecInv DEF ExecNext

\* When the item a report blames runs, the blocked stage can neither be behind
\* the item before the reported one nor have begun it.
LEMMA ReportedStageIsIdle == ExecInv => BubbleLeavesStageIdle
<1> SUFFICES ASSUME ExecInv, NEW r \in reports, running[r.by], done[r.by] + 1 = r.byItem
             PROVE  done[r.stage] = r.item - 1 /\ ~ running[r.stage]
  BY DEF BubbleLeavesStageIdle
<1>1. /\ r.stage \in Stage /\ r.by \in Stage
      /\ r.item \in 1 .. index[r.stage] /\ r.byItem \in 0 .. index[r.by]
      /\ waitsOf[r.stage][r.item][r.by] = r.byItem
      /\ r.byItem # 0 => waitsOf[r.by][r.byItem][r.stage] = r.item - 1
  BY DEF ExecInv, ReportsWait
<1>2. /\ index[r.stage] \in Nat /\ index[r.by] \in Nat
      /\ done[r.stage] \in Nat /\ done[r.by] \in Nat
  BY <1>1 DEF ExecInv, EventsInv, EventsTypeOK, ExecTypeOK
<1>3. r.byItem \in 1 .. index[r.by]
  BY <1>1, <1>2
<1>4. r.item - 1 <= done[r.stage]
  <2>1. waitsOf[r.by][r.byItem][r.stage] <= done[r.stage]
    BY <1>1, <1>3 DEF ExecInv, RunsInOrder
  <2> QED BY <1>1, <1>3, <2>1
<1>5. ~ (r.item <= done[r.stage] \/ (running[r.stage] /\ r.item = done[r.stage] + 1))
  <2> SUFFICES ASSUME r.item <= done[r.stage] \/ (running[r.stage] /\ r.item = done[r.stage] + 1)
               PROVE  FALSE
    OBVIOUS
  <2>1. waitsOf[r.stage][r.item][r.by] <= done[r.by]
    BY <1>1 DEF ExecInv, RunsInOrder
  <2> QED BY <1>1, <1>2, <2>1
<1> QED BY <1>1, <1>2, <1>4, <1>5

\* While the item a reported bubble blames executes, the reported stage has run
\* dry: everything before the reported item is done, and it has not begun.
THEOREM ReportedBubblesAreReal == ExecSpec => []BubbleLeavesStageIdle
BY ExecInitInv, ExecNextInv, ReportedStageIsIdle, PTL DEF ExecSpec

(***************************************************************************)
(* The loops of pipelineBarrier.                                           *)
(***************************************************************************)

LoopState == [wait : [Stage -> [Stage -> Nat]], last : [Stage -> [Stage -> Nat]]]

\* run[n] is the state after n rounds.
Rounds(start, step, N, run) ==
    [n \in 0 .. N |-> IF n = 0 THEN start ELSE step[<<n, run[n - 1]>>]]

\* A loop of N rounds over states S, and its runs.
IsLoop(N, S, start, step) == N \in Nat /\ start \in S /\ step \in [(1 .. N) \X S -> S]
Runs(N, S, start, step) == {run \in [0 .. N -> S] : run = Rounds(start, step, N, run)}

\* Every loop has a run.
LEMMA RunExists ==
    ASSUME NEW N, NEW S, NEW start, NEW step, IsLoop(N, S, start, step)
    PROVE  Runs(N, S, start, step) # {}
<1>0. N \in Nat /\ start \in S /\ step \in [(1 .. N) \X S -> S]
  BY DEF IsLoop
<1> DEFINE G == {n \in 0 .. N : \E u \in [0 .. n -> S] : u = Rounds(start, step, n, u)}
<1>1. 0 \in G
  <2>1. PICK u : u = [i \in 0 .. 0 |-> start]
    OBVIOUS
  <2>2. u \in [0 .. 0 -> S] /\ u = Rounds(start, step, 0, u)
    BY <1>0, <2>1 DEF Rounds
  <2> QED BY <1>0, <2>2
<1>2. ASSUME NEW n \in 0 .. N - 1, n \in G PROVE n + 1 \in G
  <2>1. PICK u \in [0 .. n -> S] : u = Rounds(start, step, n, u)
    BY <1>2
  <2>2. n \in 0 .. n /\ n + 1 \in 1 .. N /\ (n + 1) - 1 = n /\ n + 1 \in 0 .. N
    BY <1>0
  <2>3. PICK next : next = step[<<n + 1, u[n]>>]
    OBVIOUS
  <2>4. next \in S
    <3>1. u[n] \in S /\ <<n + 1, u[n]>> \in (1 .. N) \X S
      BY <2>2
    <3> QED BY <1>0, <2>3, <3>1
  <2>5. PICK w : w = [i \in 0 .. n + 1 |-> IF i = n + 1 THEN next ELSE u[i]]
    OBVIOUS
  <2>6. w \in [0 .. n + 1 -> S]
    BY <1>0, <2>4, <2>5
  <2>7. ASSUME NEW i \in 0 .. n + 1
        PROVE  w[i] = IF i = 0 THEN start ELSE step[<<i, w[i - 1]>>]
    <3>1. CASE i = n + 1
      <4>1. w[i] = next /\ i # 0 /\ i - 1 = n /\ w[i - 1] = u[n]
        BY <1>0, <2>5, <3>1
      <4> QED BY <2>3, <3>1, <4>1
    <3>2. CASE i # n + 1
      <4>1. i \in 0 .. n /\ w[i] = u[i] /\ (i # 0 => i - 1 \in 0 .. n /\ w[i - 1] = u[i - 1])
        BY <1>0, <2>5, <3>2
      <4>2. u[i] = IF i = 0 THEN start ELSE step[<<i, u[i - 1]>>]
        BY <2>1, <4>1 DEF Rounds
      <4> QED BY <4>1, <4>2
    <3> QED BY <3>1, <3>2
  <2>8. w = Rounds(start, step, n + 1, w)
    BY <2>6, <2>7 DEF Rounds
  <2> QED BY <2>2, <2>6, <2>8
<1> HIDE DEF G
<1>3. \A n \in 0 .. N : n \in G
  BY <1>0, <1>1, <1>2, InductionUpTo
<1>4. N \in G
  BY <1>0, <1>3
<1> QED BY <1>4 DEF G, Runs

\* f starts with start and makes the rounds of a loop as long as it is in S.
Follows(f, N, S, start, step) ==
    /\ f = [n \in 0 .. N |-> f[n]] /\ f[0] = start
    /\ \A n \in 1 .. N : f[n - 1] \in S => f[n] = step[<<n, f[n - 1]>>]

\* Then it is in S all the time.
LEMMA RunStays ==
    ASSUME NEW N, NEW S, NEW start, NEW step, IsLoop(N, S, start, step),
           NEW f, Follows(f, N, S, start, step)
    PROVE  f \in [0 .. N -> S]
<1>0. /\ N \in Nat /\ start \in S /\ step \in [(1 .. N) \X S -> S]
      /\ f = [n \in 0 .. N |-> f[n]] /\ f[0] = start
      /\ \A n \in 1 .. N : f[n - 1] \in S => f[n] = step[<<n, f[n - 1]>>]
  BY DEF IsLoop, Follows
<1> DEFINE G == {n \in 0 .. N : f[n] \in S}
<1>1. 0 \in G
  BY <1>0
<1>2. ASSUME NEW n \in 0 .. N - 1, n \in G PROVE n + 1 \in G
  <2>1. n + 1 \in 1 .. N /\ n + 1 \in 0 .. N /\ (n + 1) - 1 = n
    BY <1>0
  <2>2. f[n + 1] = step[<<n + 1, f[n]>>]
    BY <1>0, <1>2, <2>1
  <2>3. <<n + 1, f[n]>> \in (1 .. N) \X S
    BY <1>2, <2>1
  <2> QED BY <1>0, <2>1, <2>2, <2>3
<1>3. \A n \in 0 .. N : n \in G
  <2> HIDE DEF G
  <2> QED BY <1>0, <1>1, <1>2, InductionUpTo
<1> QED BY <1>0, <1>3

\* What the loops keep: no wait is lowered, none is raised beyond W, and what is raised
\* is latched.
Raising(st, W) ==
    /\ st \in LoopState
    /\ \A d, t \in Stage :
           /\ waitList[d][t] <= st.wait[d][t]
           /\ st.wait[d][t] <= W[d][t]
           /\ st.last[d][t] = IF st.wait[d][t] > waitList[d][t] THEN index[d]
                              ELSE lastDstStageIndex[d][t]

\* No wait of st is higher than that of r.
NoHigher(st, r) == \A d, t \in Stage : st.wait[d][t] <= r.wait[d][t]

\* W is as high as barriers from srcStages to dstStages demand.
Sufficient(W, srcStages, dstStages) ==
    /\ W \in [Stage -> [Stage -> Nat]]
    /\ \A src \in srcStages, d \in dstStages :
           /\ index[src] <= W[d][src]
           /\ \A t \in Stage : W[src][t] <= W[d][t]

\* d waits for what src waits for, and for src itself.
WaitsFor(st, src, d) ==
    /\ index[src] <= st.wait[d][src]
    /\ \A t \in Stage : waitList[src][t] <= st.wait[d][t]

\* One update of the loops, to a level up to W.
LEMMA RaiseOneRaises ==
    ASSUME TypeOK, NEW W \in [Stage -> [Stage -> Nat]], NEW st, Raising(st, W),
           NEW d \in Stage, NEW t \in Stage, NEW level \in Nat, level <= W[d][t]
    PROVE  /\ Raising(RaiseOne(st, d, t, level), W)
           /\ NoHigher(st, RaiseOne(st, d, t, level))
           /\ level <= RaiseOne(st, d, t, level).wait[d][t]
<1>1. PICK r : r = RaiseOne(st, d, t, level)
  OBVIOUS
<1>2. /\ st.wait \in [Stage -> [Stage -> Nat]] /\ st.last \in [Stage -> [Stage -> Nat]]
      /\ index \in [Stage -> Nat]
  BY DEF Raising, LoopState, TypeOK
<1>3. CASE level > st.wait[d][t]
  <2>1. r = [wait |-> [st.wait EXCEPT ![d][t] = level],
             last |-> [st.last EXCEPT ![d][t] = index[d]]]
    BY <1>1, <1>3 DEF RaiseOne
  <2>2. r.wait = [st.wait EXCEPT ![d][t] = level] /\ r.last = [st.last EXCEPT ![d][t] = index[d]]
    BY <2>1
  <2>3. r \in LoopState
    BY <1>2, <2>1 DEF LoopState
  <2>4. ASSUME NEW e \in Stage, NEW u \in Stage
        PROVE  /\ r.wait[e][u] = IF e = d /\ u = t THEN level ELSE st.wait[e][u]
               /\ r.last[e][u] = IF e = d /\ u = t THEN index[d] ELSE st.last[e][u]
    BY <1>2, <2>2
  <2>5. waitList[d][t] <= st.wait[d][t] /\ waitList[d][t] \in Nat /\ st.wait[d][t] \in Nat
    BY <1>2 DEF Raising, TypeOK
  <2>6. level > waitList[d][t]
    BY <1>3, <2>5
  <2>7. ASSUME NEW e \in Stage, NEW u \in Stage
        PROVE  /\ waitList[e][u] <= r.wait[e][u] /\ r.wait[e][u] <= W[e][u]
               /\ st.wait[e][u] <= r.wait[e][u]
               /\ r.last[e][u] = IF r.wait[e][u] > waitList[e][u] THEN index[e]
                                 ELSE lastDstStageIndex[e][u]
    <3>1. CASE e = d /\ u = t
      BY <1>3, <2>4, <2>5, <2>6, <3>1
    <3>2. CASE ~ (e = d /\ u = t)
      <4>1. r.wait[e][u] = st.wait[e][u] /\ r.last[e][u] = st.last[e][u] /\ st.wait[e][u] \in Nat
        BY <1>2, <2>4, <3>2
      <4> QED BY <4>1 DEF Raising
    <3> QED BY <3>1, <3>2
  <2> QED BY <1>1, <2>3, <2>4, <2>7 DEF Raising, NoHigher
<1>4. CASE ~ (level > st.wait[d][t])
  <2>1. r = st
    BY <1>1, <1>4 DEF RaiseOne
  <2>2. \A e, u \in Stage : st.wait[e][u] \in Nat
    BY <1>2
  <2> QED BY <1>1, <1>4, <2>1, <2>2 DEF NoHigher
<1> QED BY <1>3, <1>4

\* Waits raised twice.
LEMMA NoHigherTransitive ==
    ASSUME NEW a \in LoopState, NEW b \in LoopState, NEW c \in LoopState,
           NoHigher(a, b), NoHigher(b, c)
    PROVE  NoHigher(a, c)
<1> SUFFICES ASSUME NEW d \in Stage, NEW t \in Stage PROVE a.wait[d][t] <= c.wait[d][t]
  BY DEF NoHigher
<1>1. a.wait[d][t] \in Nat /\ b.wait[d][t] \in Nat /\ c.wait[d][t] \in Nat
  BY DEF LoopState
<1>2. a.wait[d][t] <= b.wait[d][t] /\ b.wait[d][t] <= c.wait[d][t]
  BY DEF NoHigher
<1> QED BY <1>1, <1>2

\* The updates and rounds return states.
LEMMA RaiseOneIsState ==
    ASSUME TypeOK, NEW st \in LoopState, NEW d \in Stage, NEW t \in Stage, NEW level \in Nat
    PROVE  RaiseOne(st, d, t, level) \in LoopState
  BY DEF RaiseOne, LoopState, TypeOK

\* An inherited wait leaves a state.
LEMMA InheritIsState ==
    ASSUME TypeOK, NEW st \in LoopState, NEW src \in Stage, NEW d \in Stage, NEW t \in Stage
    PROVE  Inherit(st, src, d, t) \in LoopState
<1>1. st.wait[src][t] \in Nat
  BY DEF LoopState
<1> QED BY <1>1, RaiseOneIsState DEF Inherit

\* The order of the enumerators is a list of all stages.
LEMMA OrderFacts ==
    /\ Len(StageOrder) \in Nat
    /\ \A n \in 1 .. Len(StageOrder) : StageOrder[n] \in Stage
    /\ \A s \in Stage : \E n \in 1 .. Len(StageOrder) : StageOrder[n] = s
<1>1. StageOrder \in Seq(Stage)
  BY StageOrderAssumption
<1>2. \A s \in Stage : \E n \in 1 .. Len(StageOrder) : StageOrder[n] = s
  BY StageOrderAssumption
<1>3. Len(StageOrder) \in Nat /\ \A n \in 1 .. Len(StageOrder) : StageOrder[n] \in Stage
  BY <1>1
<1> QED BY <1>2, <1>3

\* The rounds of barrier() for one source stage.
FromRuns(st, src, d) ==
    {run \in [0 .. Len(StageOrder) -> LoopState] :
        /\ run[0] = RaiseOne(st, d, src, index[src])
        /\ \A n \in 1 .. Len(StageOrder) :
               run[n] = Inherit(run[n - 1], src, d, StageOrder[n])}

\* There is one, and it ends in what the operator returns.
LEMMA BarrierFromRun ==
    ASSUME TypeOK, NEW st \in LoopState, NEW src \in Stage, NEW d \in Stage
    PROVE  \E run \in FromRuns(st, src, d) : BarrierFrom(st, src, d) = run[Len(StageOrder)]
<1>1. PICK N, start : /\ N = Len(StageOrder) /\ N \in Nat
                      /\ \A n \in 1 .. N : StageOrder[n] \in Stage
                      /\ start = RaiseOne(st, d, src, index[src])
  BY OrderFacts
<1>2. PICK step : step = [p \in (1 .. N) \X LoopState |-> Inherit(p[2], src, d, StageOrder[p[1]])]
  OBVIOUS
<1>3. start \in LoopState
  <2>1. index[src] \in Nat
    BY DEF TypeOK
  <2> QED BY <1>1, <2>1, RaiseOneIsState
<1>4. step \in [(1 .. N) \X LoopState -> LoopState]
  <2>1. ASSUME NEW p \in (1 .. N) \X LoopState
        PROVE  Inherit(p[2], src, d, StageOrder[p[1]]) \in LoopState
    <3>1. p[2] \in LoopState /\ StageOrder[p[1]] \in Stage
      BY <1>1
    <3> QED BY <3>1, InheritIsState
  <2> QED BY <1>2, <2>1
<1> DEFINE Body(f) == [n \in 0 .. Len(StageOrder) |->
                          IF n = 0 THEN RaiseOne(st, d, src, index[src])
                          ELSE Inherit(f[n - 1], src, d, StageOrder[n])]
<1>5. \E f : f = Body(f)
  <2>0. N \in Nat
    BY <1>1
  <2>1. PICK run \in [0 .. N -> LoopState] : run = Rounds(start, step, N, run)
    <3> HIDE DEF Body
    <3>1. IsLoop(N, LoopState, start, step)
      BY <1>3, <1>4, <2>0 DEF IsLoop
    <3>2. Runs(N, LoopState, start, step) # {}
      BY <3>1, RunExists, Zenon
    <3> QED BY <3>2 DEF Runs
  <2>2. ASSUME NEW n \in 0 .. N, n # 0
        PROVE  step[<<n, run[n - 1]>>] = Inherit(run[n - 1], src, d, StageOrder[n])
    <3>1. <<n, run[n - 1]>> \in (1 .. N) \X LoopState
      BY <1>1, <2>2
    <3> QED BY <1>2, <3>1
  <2>3. run = Body(run)
    BY <1>1, <2>1, <2>2 DEF Rounds
  <2> QED BY <2>3
<1>6. PICK f : f = CHOOSE g : g = Body(g)
  OBVIOUS
<1>7. f = Body(f)
  <2> HIDE DEF Body
  <2> QED BY <1>5, <1>6
<1>8. /\ f[0] = RaiseOne(st, d, src, index[src])
      /\ \A n \in 1 .. N : f[n] = Inherit(f[n - 1], src, d, StageOrder[n])
      /\ DOMAIN f = 0 .. N
  BY <1>1, <1>7
<1>9. BarrierFrom(st, src, d) = f[N]
  BY <1>1, <1>6 DEF BarrierFrom
<1>10. f \in [0 .. N -> LoopState]
  <2> HIDE DEF Body
  <2>1. ASSUME NEW n \in 1 .. N, f[n - 1] \in LoopState PROVE f[n] = step[<<n, f[n - 1]>>]
    <3>1. <<n, f[n - 1]>> \in (1 .. N) \X LoopState
      BY <2>1
    <3> QED BY <1>2, <1>8, <3>1
  <2>2. f = [n \in 0 .. N |-> f[n]] /\ f[0] = start
    BY <1>1, <1>7, <1>8 DEF Body
  <2>3. IsLoop(N, LoopState, start, step)
    BY <1>1, <1>3, <1>4 DEF IsLoop
  <2>4. Follows(f, N, LoopState, start, step)
    BY <2>1, <2>2 DEF Follows
  <2> QED BY <2>3, <2>4, RunStays, Zenon
<1>11. f \in FromRuns(st, src, d)
  BY <1>1, <1>8, <1>10 DEF FromRuns
<1> QED BY <1>1, <1>9, <1>11

\* One source stage of barrier().
LEMMA BarrierFromRaises ==
    ASSUME TypeOK, NEW W, NEW srcStages \in SUBSET Stage, NEW dstStages \in SUBSET Stage,
           Sufficient(W, srcStages, dstStages), NEW st, Raising(st, W),
           NEW src \in srcStages, NEW d \in dstStages
    PROVE  /\ Raising(BarrierFrom(st, src, d), W)
           /\ NoHigher(st, BarrierFrom(st, src, d))
           /\ WaitsFor(BarrierFrom(st, src, d), src, d)
<1>0. /\ st \in LoopState /\ src \in Stage /\ d \in Stage /\ W \in [Stage -> [Stage -> Nat]]
      /\ index[src] \in Nat /\ index[src] <= W[d][src]
      /\ \A t \in Stage : W[src][t] <= W[d][t] /\ waitList[src][t] \in Nat
  BY DEF Raising, Sufficient, TypeOK
<1>1. PICK N : N = Len(StageOrder) /\ N \in Nat /\ \A n \in 1 .. N : StageOrder[n] \in Stage
  BY OrderFacts
<1>2. PICK run \in [0 .. N -> LoopState] :
          /\ run[0] = RaiseOne(st, d, src, index[src])
          /\ \A n \in 1 .. N : run[n] = Inherit(run[n - 1], src, d, StageOrder[n])
          /\ BarrierFrom(st, src, d) = run[N]
  <2>1. PICK run \in FromRuns(st, src, d) : BarrierFrom(st, src, d) = run[Len(StageOrder)]
    BY <1>0, BarrierFromRun
  <2> QED BY <1>1, <2>1 DEF FromRuns
<1> DEFINE Good(n) == /\ Raising(run[n], W) /\ NoHigher(st, run[n])
                      /\ index[src] <= run[n].wait[d][src]
                      /\ \A k \in 1 .. n :
                             waitList[src][StageOrder[k]] <= run[n].wait[d][StageOrder[k]]
           G == {n \in 0 .. N : Good(n)}
<1>3. 0 \in G
  <2>1. PICK level : level = index[src]
    OBVIOUS
  <2>2. level \in Nat /\ level <= W[d][src] /\ run[0] = RaiseOne(st, d, src, level)
    BY <1>0, <1>2, <2>1
  <2>3. /\ Raising(run[0], W) /\ NoHigher(st, run[0]) /\ level <= run[0].wait[d][src]
    BY <1>0, <2>2, RaiseOneRaises
  <2> QED BY <1>1, <2>1, <2>3
<1>4. ASSUME NEW n \in 0 .. N - 1, n \in G PROVE n + 1 \in G
  <2>1. n + 1 \in 1 .. N /\ n + 1 \in 0 .. N /\ n \in 0 .. N /\ (n + 1) - 1 = n
    BY <1>1
  <2>2. PICK a, b, t : a = run[n] /\ b = run[n + 1] /\ t = StageOrder[n + 1]
    OBVIOUS
  <2>3. a \in LoopState /\ b \in LoopState /\ t \in Stage
    BY <1>1, <2>1, <2>2
  <2>4. PICK level : level = a.wait[src][t]
    OBVIOUS
  <2>5. b = RaiseOne(a, d, t, level)
    BY <1>2, <2>1, <2>2, <2>4 DEF Inherit
  <2>6. Raising(a, W) /\ NoHigher(st, a) /\ index[src] <= a.wait[d][src]
    BY <1>4, <2>2
  <2>7. level \in Nat /\ level <= W[d][t] /\ waitList[src][t] <= level
    <3>1. level \in Nat /\ W[src][t] \in Nat /\ W[d][t] \in Nat
      BY <1>0, <2>3, <2>4 DEF LoopState
    <3>2. waitList[src][t] <= level /\ level <= W[src][t] /\ W[src][t] <= W[d][t]
      BY <1>0, <2>3, <2>4, <2>6 DEF Raising
    <3> QED BY <3>1, <3>2
  <2>8. Raising(b, W) /\ NoHigher(a, b) /\ level <= b.wait[d][t]
    BY <1>0, <2>3, <2>5, <2>6, <2>7, RaiseOneRaises
  <2>9. NoHigher(st, b)
    BY <1>0, <2>3, <2>6, <2>8, NoHigherTransitive
  <2>10. \A u \in Stage : a.wait[d][u] \in Nat /\ b.wait[d][u] \in Nat
                          /\ a.wait[d][u] <= b.wait[d][u]
    BY <1>0, <2>3, <2>8 DEF LoopState, NoHigher
  <2>11. index[src] <= b.wait[d][src]
    BY <1>0, <2>6, <2>10
  <2>12. ASSUME NEW k \in 1 .. n + 1
         PROVE  waitList[src][StageOrder[k]] <= b.wait[d][StageOrder[k]]
    <3>1. CASE k = n + 1
      <4>1. waitList[src][t] <= b.wait[d][t]
        <5>1. waitList[src][t] \in Nat /\ b.wait[d][t] \in Nat
          BY <1>0, <2>3, <2>10
        <5> QED BY <2>7, <2>8, <5>1
      <4> QED BY <2>2, <3>1, <4>1
    <3>2. CASE k # n + 1
      <4>1. k \in 1 .. n /\ k \in 1 .. N
        BY <1>1, <3>2
      <4>2. StageOrder[k] \in Stage
        BY <1>1, <4>1
      <4>3. waitList[src][StageOrder[k]] <= a.wait[d][StageOrder[k]]
        BY <1>4, <2>2, <4>1
      <4>4. PICK u : u = StageOrder[k] /\ u \in Stage
        BY <4>2
      <4>5. /\ waitList[src][u] \in Nat /\ a.wait[d][u] \in Nat /\ b.wait[d][u] \in Nat
            /\ a.wait[d][u] <= b.wait[d][u] /\ waitList[src][u] <= a.wait[d][u]
        BY <1>0, <2>10, <4>3, <4>4
      <4> QED BY <4>4, <4>5
    <3> QED BY <3>1, <3>2
  <2> QED BY <2>1, <2>2, <2>8, <2>9, <2>11, <2>12
<1>5. N \in G
  <2>1. \A n \in 0 .. N : n \in G
    <3> HIDE DEF G
    <3> QED BY <1>1, <1>3, <1>4, InductionUpTo
  <2> QED BY <1>1, <2>1
<1>6. ASSUME NEW t \in Stage PROVE waitList[src][t] <= run[N].wait[d][t]
  <2>1. PICK k \in 1 .. N : StageOrder[k] = t
    BY <1>1, OrderFacts
  <2> QED BY <1>5, <2>1
<1> QED BY <1>2, <1>5, <1>6 DEF WaitsFor

\* So does a source stage.
LEMMA BarrierFromIsState ==
    ASSUME TypeOK, NEW st \in LoopState, NEW src \in Stage, NEW d \in Stage
    PROVE  BarrierFrom(st, src, d) \in LoopState
<1>1. Len(StageOrder) \in 0 .. Len(StageOrder)
  BY OrderFacts
<1>2. PICK run \in FromRuns(st, src, d) : BarrierFrom(st, src, d) = run[Len(StageOrder)]
  BY BarrierFromRun
<1> QED BY <1>1, <1>2 DEF FromRuns

\* The rounds of barrier().
ToRuns(st, srcStages, d) ==
    {run \in [0 .. Len(StageOrder) -> LoopState] :
        /\ run[0] = st
        /\ \A n \in 1 .. Len(StageOrder) :
               run[n] = SourceRound(run[n - 1], StageOrder[n], srcStages, d)}

\* There is one, and it ends in what the operator returns.
LEMMA BarrierToRun ==
    ASSUME TypeOK, NEW st \in LoopState, NEW srcStages \in SUBSET Stage, NEW d \in Stage
    PROVE  \E run \in ToRuns(st, srcStages, d) : BarrierTo(st, srcStages, d) = run[Len(StageOrder)]
<1>1. PICK N, start : /\ N = Len(StageOrder) /\ N \in Nat
                      /\ \A n \in 1 .. N : StageOrder[n] \in Stage
                      /\ start = st
  BY OrderFacts
<1>2. PICK step : step =
             [p \in (1 .. N) \X LoopState |-> SourceRound(p[2], StageOrder[p[1]], srcStages, d)]
  OBVIOUS
<1>3. start \in LoopState
  BY <1>1
<1>4. step \in [(1 .. N) \X LoopState -> LoopState]
  <2>1. ASSUME NEW p \in (1 .. N) \X LoopState
        PROVE  SourceRound(p[2], StageOrder[p[1]], srcStages, d) \in LoopState
    <3>1. p[2] \in LoopState /\ StageOrder[p[1]] \in Stage
      BY <1>1
    <3> QED BY <3>1, BarrierFromIsState DEF SourceRound
  <2> QED BY <1>2, <2>1
<1> DEFINE Body(f) == [n \in 0 .. Len(StageOrder) |->
                          IF n = 0 THEN st
                          ELSE SourceRound(f[n - 1], StageOrder[n], srcStages, d)]
<1>5. \E f : f = Body(f)
  <2>0. N \in Nat
    BY <1>1
  <2>1. PICK run \in [0 .. N -> LoopState] : run = Rounds(start, step, N, run)
    <3> HIDE DEF Body
    <3>1. IsLoop(N, LoopState, start, step)
      BY <1>3, <1>4, <2>0 DEF IsLoop
    <3>2. Runs(N, LoopState, start, step) # {}
      BY <3>1, RunExists, Zenon
    <3> QED BY <3>2 DEF Runs
  <2>2. ASSUME NEW n \in 0 .. N, n # 0
        PROVE  step[<<n, run[n - 1]>>] = SourceRound(run[n - 1], StageOrder[n], srcStages, d)
    <3>1. <<n, run[n - 1]>> \in (1 .. N) \X LoopState
      BY <1>1, <2>2
    <3> QED BY <1>2, <3>1
  <2>3. run = Body(run)
    BY <1>1, <2>1, <2>2 DEF Rounds
  <2> QED BY <2>3
<1>6. PICK f : f = CHOOSE g : g = Body(g)
  OBVIOUS
<1>7. f = Body(f)
  <2> HIDE DEF Body
  <2> QED BY <1>5, <1>6
<1>8. /\ f[0] = st
      /\ \A n \in 1 .. N : f[n] = SourceRound(f[n - 1], StageOrder[n], srcStages, d)
      /\ DOMAIN f = 0 .. N
  BY <1>1, <1>7
<1>9. BarrierTo(st, srcStages, d) = f[N]
  BY <1>1, <1>6 DEF BarrierTo
<1>10. f \in [0 .. N -> LoopState]
  <2> HIDE DEF Body
  <2>1. ASSUME NEW n \in 1 .. N, f[n - 1] \in LoopState PROVE f[n] = step[<<n, f[n - 1]>>]
    <3>1. <<n, f[n - 1]>> \in (1 .. N) \X LoopState
      BY <2>1
    <3> QED BY <1>2, <1>8, <3>1
  <2>2. f = [n \in 0 .. N |-> f[n]] /\ f[0] = start
    BY <1>1, <1>7, <1>8 DEF Body
  <2>3. IsLoop(N, LoopState, start, step)
    BY <1>1, <1>3, <1>4 DEF IsLoop
  <2>4. Follows(f, N, LoopState, start, step)
    BY <2>1, <2>2 DEF Follows
  <2> QED BY <2>3, <2>4, RunStays, Zenon
<1>11. f \in ToRuns(st, srcStages, d)
  BY <1>1, <1>8, <1>10 DEF ToRuns
<1> QED BY <1>1, <1>9, <1>11

\* And barrier().
LEMMA BarrierToIsState ==
    ASSUME TypeOK, NEW st \in LoopState, NEW srcStages \in SUBSET Stage, NEW d \in Stage
    PROVE  BarrierTo(st, srcStages, d) \in LoopState
<1>1. Len(StageOrder) \in 0 .. Len(StageOrder)
  BY OrderFacts
<1>2. PICK run \in ToRuns(st, srcStages, d) : BarrierTo(st, srcStages, d) = run[Len(StageOrder)]
  BY BarrierToRun
<1> QED BY <1>1, <1>2 DEF ToRuns

\* The rounds of pipelineBarrier.
LoopedRuns(srcStages, dstStages) ==
    {run \in [0 .. Len(StageOrder) -> LoopState] :
        /\ run[0] = [wait |-> waitList, last |-> lastDstStageIndex]
        /\ \A n \in 1 .. Len(StageOrder) :
               run[n] = TargetRound(run[n - 1], StageOrder[n], srcStages, dstStages)}

\* There is one, and it ends in what the operator returns.
LEMMA LoopedBarrierRun ==
    ASSUME TypeOK, NEW srcStages \in SUBSET Stage, NEW dstStages \in SUBSET Stage
    PROVE  \E run \in LoopedRuns(srcStages, dstStages) :
               LoopedBarrier(srcStages, dstStages) = run[Len(StageOrder)]
<1>1. PICK N, start : /\ N = Len(StageOrder) /\ N \in Nat
                      /\ \A n \in 1 .. N : StageOrder[n] \in Stage
                      /\ start = [wait |-> waitList, last |-> lastDstStageIndex]
  BY OrderFacts
<1>2. PICK step : step =
             [p \in (1 .. N) \X LoopState |-> TargetRound(p[2], StageOrder[p[1]], srcStages, dstStages)]
  OBVIOUS
<1>3. start \in LoopState
  BY <1>1 DEF LoopState, TypeOK
<1>4. step \in [(1 .. N) \X LoopState -> LoopState]
  <2>1. ASSUME NEW p \in (1 .. N) \X LoopState
        PROVE  TargetRound(p[2], StageOrder[p[1]], srcStages, dstStages) \in LoopState
    <3>1. p[2] \in LoopState /\ StageOrder[p[1]] \in Stage
      BY <1>1
    <3> QED BY <3>1, BarrierToIsState DEF TargetRound
  <2> QED BY <1>2, <2>1
<1> DEFINE Body(f) == [n \in 0 .. Len(StageOrder) |->
                          IF n = 0 THEN [wait |-> waitList, last |-> lastDstStageIndex]
                          ELSE TargetRound(f[n - 1], StageOrder[n], srcStages, dstStages)]
<1>5. \E f : f = Body(f)
  <2>0. N \in Nat
    BY <1>1
  <2>1. PICK run \in [0 .. N -> LoopState] : run = Rounds(start, step, N, run)
    <3> HIDE DEF Body
    <3>1. IsLoop(N, LoopState, start, step)
      BY <1>3, <1>4, <2>0 DEF IsLoop
    <3>2. Runs(N, LoopState, start, step) # {}
      BY <3>1, RunExists, Zenon
    <3> QED BY <3>2 DEF Runs
  <2>2. ASSUME NEW n \in 0 .. N, n # 0
        PROVE  step[<<n, run[n - 1]>>]
                   = TargetRound(run[n - 1], StageOrder[n], srcStages, dstStages)
    <3>1. <<n, run[n - 1]>> \in (1 .. N) \X LoopState
      BY <1>1, <2>2
    <3> QED BY <1>2, <3>1
  <2>3. run = Body(run)
    BY <1>1, <2>1, <2>2 DEF Rounds
  <2> QED BY <2>3
<1>6. PICK f : f = CHOOSE g : g = Body(g)
  OBVIOUS
<1>7. f = Body(f)
  <2> HIDE DEF Body
  <2> QED BY <1>5, <1>6
<1>8. /\ f[0] = [wait |-> waitList, last |-> lastDstStageIndex]
      /\ \A n \in 1 .. N : f[n] = TargetRound(f[n - 1], StageOrder[n], srcStages, dstStages)
      /\ DOMAIN f = 0 .. N
  BY <1>1, <1>7
<1>9. LoopedBarrier(srcStages, dstStages) = f[N]
  BY <1>1, <1>6 DEF LoopedBarrier
<1>10. f \in [0 .. N -> LoopState]
  <2> HIDE DEF Body
  <2>1. ASSUME NEW n \in 1 .. N, f[n - 1] \in LoopState PROVE f[n] = step[<<n, f[n - 1]>>]
    <3>1. <<n, f[n - 1]>> \in (1 .. N) \X LoopState
      BY <2>1
    <3> QED BY <1>2, <1>8, <3>1
  <2>2. f = [n \in 0 .. N |-> f[n]] /\ f[0] = start
    BY <1>1, <1>7, <1>8 DEF Body
  <2>3. IsLoop(N, LoopState, start, step)
    BY <1>1, <1>3, <1>4 DEF IsLoop
  <2>4. Follows(f, N, LoopState, start, step)
    BY <2>1, <2>2 DEF Follows
  <2> QED BY <2>3, <2>4, RunStays, Zenon
<1>11. f \in LoopedRuns(srcStages, dstStages)
  BY <1>1, <1>8, <1>10 DEF LoopedRuns
<1> QED BY <1>1, <1>9, <1>11

\* A wait that holds goes on holding.
LEMMA WaitsForKept ==
    ASSUME TypeOK, NEW a \in LoopState, NEW b \in LoopState, NoHigher(a, b),
           NEW src \in Stage, NEW d \in Stage, WaitsFor(a, src, d)
    PROVE  WaitsFor(b, src, d)
<1>1. \A t \in Stage : /\ a.wait[d][t] \in Nat /\ b.wait[d][t] \in Nat
                       /\ a.wait[d][t] <= b.wait[d][t]
                       /\ waitList[src][t] \in Nat /\ waitList[src][t] <= a.wait[d][t]
  BY DEF LoopState, NoHigher, TypeOK, WaitsFor
<1>2. index[src] \in Nat /\ index[src] <= a.wait[d][src]
  BY DEF TypeOK, WaitsFor
<1>3. ASSUME NEW t \in Stage PROVE waitList[src][t] <= b.wait[d][t]
  BY <1>1
<1>4. index[src] <= b.wait[d][src]
  BY <1>1, <1>2
<1> QED BY <1>3, <1>4 DEF WaitsFor

\* barrier(srcStages, d).
LEMMA BarrierToRaises ==
    ASSUME TypeOK, NEW W, NEW srcStages \in SUBSET Stage, NEW dstStages \in SUBSET Stage,
           Sufficient(W, srcStages, dstStages), NEW st, Raising(st, W), NEW d \in dstStages
    PROVE  /\ Raising(BarrierTo(st, srcStages, d), W)
           /\ NoHigher(st, BarrierTo(st, srcStages, d))
           /\ \A src \in srcStages : WaitsFor(BarrierTo(st, srcStages, d), src, d)
<1>0. st \in LoopState /\ d \in Stage
  BY DEF Raising
<1>1. PICK N : N = Len(StageOrder) /\ N \in Nat /\ \A n \in 1 .. N : StageOrder[n] \in Stage
  BY OrderFacts
<1>2. PICK run \in [0 .. N -> LoopState] :
          /\ run[0] = st
          /\ \A n \in 1 .. N : run[n] = SourceRound(run[n - 1], StageOrder[n], srcStages, d)
          /\ BarrierTo(st, srcStages, d) = run[N]
  <2>1. PICK run \in ToRuns(st, srcStages, d) : BarrierTo(st, srcStages, d) = run[Len(StageOrder)]
    BY <1>0, BarrierToRun
  <2> QED BY <1>1, <2>1 DEF ToRuns
<1> DEFINE Good(n) == /\ Raising(run[n], W) /\ NoHigher(st, run[n])
                      /\ \A k \in 1 .. n :
                             StageOrder[k] \in srcStages => WaitsFor(run[n], StageOrder[k], d)
           G == {n \in 0 .. N : Good(n)}
<1>3. 0 \in G
  <2>1. NoHigher(st, st)
    BY <1>0 DEF NoHigher, LoopState
  <2> QED BY <1>1, <1>2, <2>1
<1>4. ASSUME NEW n \in 0 .. N - 1, n \in G PROVE n + 1 \in G
  <2>1. n + 1 \in 1 .. N /\ n + 1 \in 0 .. N /\ n \in 0 .. N /\ (n + 1) - 1 = n
    BY <1>1
  <2>2. PICK a, b, src : a = run[n] /\ b = run[n + 1] /\ src = StageOrder[n + 1]
    OBVIOUS
  <2>3. a \in LoopState /\ b \in LoopState /\ src \in Stage
    BY <1>1, <2>1, <2>2
  <2>4. Raising(a, W) /\ NoHigher(st, a)
    BY <1>4, <2>2
  <2>5. b = SourceRound(a, src, srcStages, d)
    BY <1>2, <2>1, <2>2
  <2>6. Raising(b, W) /\ NoHigher(a, b) /\ (src \in srcStages => WaitsFor(b, src, d))
    <3>1. CASE src \in srcStages
      <4>1. b = BarrierFrom(a, src, d)
        BY <2>5, <3>1 DEF SourceRound
      <4> QED BY <2>4, <3>1, <4>1, BarrierFromRaises
    <3>2. CASE src \notin srcStages
      <4>1. b = a
        BY <2>5, <3>2 DEF SourceRound
      <4>2. NoHigher(a, a)
        BY <2>3 DEF NoHigher, LoopState
      <4> QED BY <2>4, <3>2, <4>1, <4>2
    <3> QED BY <3>1, <3>2
  <2>7. NoHigher(st, b)
    BY <1>0, <2>3, <2>4, <2>6, NoHigherTransitive
  <2>8. ASSUME NEW k \in 1 .. n + 1, StageOrder[k] \in srcStages
        PROVE  WaitsFor(b, StageOrder[k], d)
    <3>1. CASE k = n + 1
      BY <2>2, <2>6, <2>8, <3>1
    <3>2. CASE k # n + 1
      <4>1. k \in 1 .. n /\ k \in 1 .. N
        BY <1>1, <3>2
      <4>2. PICK u : u = StageOrder[k] /\ u \in Stage
        BY <1>1, <4>1
      <4>3. WaitsFor(a, u, d)
        BY <1>4, <2>2, <2>8, <4>1, <4>2
      <4>4. WaitsFor(b, u, d)
        BY <1>0, <2>3, <2>6, <4>2, <4>3, WaitsForKept
      <4> QED BY <4>2, <4>4
    <3> QED BY <3>1, <3>2
  <2> QED BY <2>1, <2>2, <2>6, <2>7, <2>8
<1>5. N \in G
  <2>1. \A n \in 0 .. N : n \in G
    <3> HIDE DEF G
    <3> QED BY <1>1, <1>3, <1>4, InductionUpTo
  <2> QED BY <1>1, <2>1
<1>6. ASSUME NEW src \in srcStages PROVE WaitsFor(run[N], src, d)
  <2>1. PICK k \in 1 .. N : StageOrder[k] = src
    BY <1>1, OrderFacts
  <2> QED BY <1>5, <2>1
<1> QED BY <1>2, <1>5, <1>6

\* The loops of pipelineBarrier.
LEMMA LoopedBarrierRaises ==
    ASSUME TypeOK, NEW W, NEW srcStages \in SUBSET Stage, NEW dstStages \in SUBSET Stage,
           Sufficient(W, srcStages, dstStages),
           \A d, t \in Stage : waitList[d][t] <= W[d][t]
    PROVE  /\ Raising(LoopedBarrier(srcStages, dstStages), W)
           /\ \A d \in dstStages, src \in srcStages :
                  WaitsFor(LoopedBarrier(srcStages, dstStages), src, d)
<1>1. PICK N : N = Len(StageOrder) /\ N \in Nat /\ \A n \in 1 .. N : StageOrder[n] \in Stage
  BY OrderFacts
<1>2. PICK run \in [0 .. N -> LoopState] :
          /\ run[0] = [wait |-> waitList, last |-> lastDstStageIndex]
          /\ \A n \in 1 .. N : run[n] = TargetRound(run[n - 1], StageOrder[n], srcStages, dstStages)
          /\ LoopedBarrier(srcStages, dstStages) = run[N]
  <2>1. PICK run \in LoopedRuns(srcStages, dstStages) :
               LoopedBarrier(srcStages, dstStages) = run[Len(StageOrder)]
    BY LoopedBarrierRun
  <2> QED BY <1>1, <2>1 DEF LoopedRuns
<1> DEFINE Good(n) == /\ Raising(run[n], W)
                      /\ \A k \in 1 .. n : StageOrder[k] \in dstStages =>
                             \A src \in srcStages : WaitsFor(run[n], src, StageOrder[k])
           G == {n \in 0 .. N : Good(n)}
<1>3. 0 \in G
  <2>1. PICK a : a = run[0]
    OBVIOUS
  <2>2. a.wait = waitList /\ a.last = lastDstStageIndex /\ a \in LoopState
    BY <1>1, <1>2, <2>1
  <2>3. Raising(a, W)
    BY <2>2 DEF Raising, TypeOK
  <2> QED BY <1>1, <2>1, <2>3
<1>4. ASSUME NEW n \in 0 .. N - 1, n \in G PROVE n + 1 \in G
  <2>1. n + 1 \in 1 .. N /\ n + 1 \in 0 .. N /\ n \in 0 .. N /\ (n + 1) - 1 = n
    BY <1>1
  <2>2. PICK a, b, d : a = run[n] /\ b = run[n + 1] /\ d = StageOrder[n + 1]
    OBVIOUS
  <2>3. a \in LoopState /\ b \in LoopState /\ d \in Stage
    BY <1>1, <2>1, <2>2
  <2>4. Raising(a, W)
    BY <1>4, <2>2
  <2>5. b = TargetRound(a, d, srcStages, dstStages)
    BY <1>2, <2>1, <2>2
  <2>6. /\ Raising(b, W) /\ NoHigher(a, b)
        /\ d \in dstStages => \A src \in srcStages : WaitsFor(b, src, d)
    <3>1. CASE d \in dstStages
      <4>1. b = BarrierTo(a, srcStages, d)
        BY <2>5, <3>1 DEF TargetRound
      <4> QED BY <2>4, <3>1, <4>1, BarrierToRaises
    <3>2. CASE d \notin dstStages
      <4>1. b = a
        BY <2>5, <3>2 DEF TargetRound
      <4>2. NoHigher(a, a)
        BY <2>3 DEF NoHigher, LoopState
      <4> QED BY <2>4, <3>2, <4>1, <4>2
    <3> QED BY <3>1, <3>2
  <2>7. ASSUME NEW k \in 1 .. n + 1, StageOrder[k] \in dstStages, NEW src \in srcStages
        PROVE  WaitsFor(b, src, StageOrder[k])
    <3>1. CASE k = n + 1
      BY <2>2, <2>6, <2>7, <3>1
    <3>2. CASE k # n + 1
      <4>1. k \in 1 .. n /\ k \in 1 .. N
        BY <1>1, <3>2
      <4>2. PICK u : u = StageOrder[k] /\ u \in Stage
        BY <1>1, <4>1
      <4>3. WaitsFor(a, src, u)
        BY <1>4, <2>2, <2>7, <4>1, <4>2
      <4>4. WaitsFor(b, src, u)
        BY <2>3, <2>6, <4>2, <4>3, WaitsForKept
      <4> QED BY <4>2, <4>4
    <3> QED BY <3>1, <3>2
  <2> QED BY <2>1, <2>2, <2>6, <2>7
<1>5. N \in G
  <2>1. \A n \in 0 .. N : n \in G
    <3> HIDE DEF G
    <3> QED BY <1>1, <1>3, <1>4, InductionUpTo
  <2> QED BY <1>1, <2>1
<1>6. ASSUME NEW d \in dstStages, NEW src \in srcStages PROVE WaitsFor(run[N], src, d)
  <2>1. PICK k \in 1 .. N : StageOrder[k] = d
    BY <1>1, OrderFacts
  <2> QED BY <1>5, <2>1
<1> QED BY <1>2, <1>5, <1>6

\* The loops reach what the simultaneous maximum reaches.
LEMMA LoopedIsRaised ==
    ASSUME TrackerInv, NEW srcStages \in SUBSET Stage, NEW dstStages \in SUBSET Stage
    PROVE  LET looped == LoopedBarrier(srcStages, dstStages)
               levels == BarrierLevels(srcStages)
           IN  /\ looped.wait = RaisedWaits(dstStages, levels)
               /\ looped.last = RaisedLatches(dstStages, levels)
<1> DEFINE R(d, t) == Raised(d, t, LevelsOf(srcStages, t))
<1>1. TypeOK /\ WaitsForSubmittedWork
  BY DEF TrackerInv
<1>2. PICK W : W = RaisedWaits(dstStages, BarrierLevels(srcStages))
  OBVIOUS
<1>3. PICK L : L = RaisedLatches(dstStages, BarrierLevels(srcStages))
  OBVIOUS
<1>4. ASSUME NEW d \in Stage, NEW t \in Stage
      PROVE  /\ R(d, t) \in {waitList[d][t]} \cup LevelsOf(srcStages, t)
             /\ R(d, t) \in Nat /\ waitList[d][t] <= R(d, t)
             /\ \A x \in LevelsOf(srcStages, t) : x <= R(d, t)
  BY <1>1, LevelsBounded, RaisedFacts
<1>5. /\ W = [d \in Stage |-> [t \in Stage |->
                 IF d \in dstStages THEN R(d, t) ELSE waitList[d][t]]]
      /\ L = [d \in Stage |-> [t \in Stage |->
                 IF d \in dstStages
                 THEN IF R(d, t) > waitList[d][t] THEN index[d] ELSE lastDstStageIndex[d][t]
                 ELSE lastDstStageIndex[d][t]]]
  BY <1>2, <1>3 DEF RaisedWaits, RaisedLatches, Latched, BarrierLevels
<1> HIDE DEF R
<1>6. ASSUME NEW d \in Stage, NEW t \in Stage
      PROVE  /\ W[d][t] = IF d \in dstStages THEN R(d, t) ELSE waitList[d][t]
             /\ L[d][t] = IF W[d][t] > waitList[d][t] THEN index[d] ELSE lastDstStageIndex[d][t]
             /\ W[d][t] \in Nat /\ waitList[d][t] \in Nat /\ waitList[d][t] <= W[d][t]
  <2>1. waitList[d][t] \in Nat
    BY <1>1 DEF TypeOK
  <2>2. /\ W[d][t] = IF d \in dstStages THEN R(d, t) ELSE waitList[d][t]
        /\ L[d][t] = IF d \in dstStages
                     THEN IF R(d, t) > waitList[d][t] THEN index[d] ELSE lastDstStageIndex[d][t]
                     ELSE lastDstStageIndex[d][t]
    BY <1>5
  <2>3. R(d, t) \in Nat /\ waitList[d][t] <= R(d, t)
    BY <1>4
  <2> QED BY <2>1, <2>2, <2>3
<1>7. W \in [Stage -> [Stage -> Nat]] /\ L = [d \in Stage |-> [t \in Stage |-> L[d][t]]]
  <2>1. W = [d \in Stage |-> [t \in Stage |-> W[d][t]]]
    BY <1>5
  <2> QED BY <1>5, <1>6, <2>1
<1>8. ASSUME NEW src \in srcStages, NEW t \in Stage
      PROVE  waitList[src][t] \in LevelsOf(srcStages, t) /\ index[src] \in LevelsOf(srcStages, src)
  BY DEF LevelsOf
<1>9. Sufficient(W, srcStages, dstStages)
  <2>1. ASSUME NEW src \in srcStages, NEW d \in dstStages, NEW t \in Stage
        PROVE  W[src][t] <= W[d][t]
    <3>1. W[d][t] = R(d, t) /\ \A x \in LevelsOf(srcStages, t) : x <= R(d, t)
      BY <1>4, <1>6
    <3>2. W[src][t] \in LevelsOf(srcStages, t)
      BY <1>4, <1>6, <1>8
    <3> QED BY <3>1, <3>2
  <2>2. ASSUME NEW src \in srcStages, NEW d \in dstStages PROVE index[src] <= W[d][src]
    BY <1>4, <1>6, <1>8
  <2> QED BY <1>7, <2>1, <2>2 DEF Sufficient
<1>10. PICK st : st = LoopedBarrier(srcStages, dstStages)
  OBVIOUS
<1>11. /\ Raising(st, W)
       /\ \A d \in dstStages, src \in srcStages : WaitsFor(st, src, d)
  BY <1>1, <1>6, <1>9, <1>10, LoopedBarrierRaises
<1>12. st \in LoopState
  BY <1>11 DEF Raising
<1>13. ASSUME NEW d \in Stage, NEW t \in Stage PROVE st.wait[d][t] = W[d][t]
  <2>1. /\ st.wait[d][t] \in Nat /\ waitList[d][t] <= st.wait[d][t] /\ st.wait[d][t] <= W[d][t]
        /\ W[d][t] \in Nat /\ waitList[d][t] \in Nat
    BY <1>6, <1>11, <1>12 DEF Raising, LoopState
  <2>2. CASE W[d][t] = waitList[d][t]
    BY <2>1, <2>2
  <2>3. CASE W[d][t] # waitList[d][t]
    <3>1. d \in dstStages /\ W[d][t] \in LevelsOf(srcStages, t)
      BY <1>4, <1>6, <2>3
    <3>2. ASSUME NEW x \in LevelsOf(srcStages, t) PROVE x <= st.wait[d][t]
      <4>1. PICK src \in srcStages : x = waitList[src][t] \/ (src = t /\ x = index[t])
        BY DEF LevelsOf
      <4>2. WaitsFor(st, src, d)
        BY <1>11, <3>1
      <4> QED BY <4>1, <4>2 DEF WaitsFor
    <3> QED BY <2>1, <3>1, <3>2
  <2> QED BY <2>2, <2>3
<1>14. ASSUME NEW d \in Stage, NEW t \in Stage PROVE st.last[d][t] = L[d][t]
  BY <1>6, <1>11, <1>13 DEF Raising
<1>15. /\ st.wait = [d \in Stage |-> [t \in Stage |-> st.wait[d][t]]]
       /\ st.last = [d \in Stage |-> [t \in Stage |-> st.last[d][t]]]
       /\ W = [d \in Stage |-> [t \in Stage |-> W[d][t]]]
  BY <1>7, <1>12 DEF LoopState
<1>16. st.wait = W /\ st.last = L
  <2>1. [d \in Stage |-> [t \in Stage |-> st.wait[d][t]]]
            = [d \in Stage |-> [t \in Stage |-> W[d][t]]]
    BY <1>13
  <2>2. [d \in Stage |-> [t \in Stage |-> st.last[d][t]]]
            = [d \in Stage |-> [t \in Stage |-> L[d][t]]]
    BY <1>14
  <2> QED BY <1>7, <1>15, <2>1, <2>2
<1> QED BY <1>2, <1>3, <1>10, <1>16

\* For every number of stages, in whatever order the loops visit them, a stage may be
\* source and destination at once: pipelineBarrier raises each wait to the greatest
\* level of its sources, and latches what it raised.
THEOREM LoopsCorrect == Spec => []LoopsAgree
<1>1. TrackerInv => LoopsAgree
  BY LoopedIsRaised DEF LoopsAgree
<1> QED BY <1>1, InitInv, NextInv, PTL DEF Spec
=============================================================================
