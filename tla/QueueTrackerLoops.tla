------------------------- MODULE QueueTrackerLoops --------------------------
(***************************************************************************)
(* pipelineBarrier as its nested loops run, one in-place update after the  *)
(* other, to compare with the simultaneous maximum of QueueTracker.        *)
(***************************************************************************)
EXTENDS QueueTracker, Sequences

\* The order of the enumerators of QueueTracker::Stage.
CONSTANT StageOrder

ASSUME StageOrderAssumption ==
    /\ StageOrder \in Seq(Stage)
    /\ \A s \in Stage : \E n \in 1 .. Len(StageOrder) : StageOrder[n] = s

\* "if (level > waitList[d][t]) { waitList[d][t] = level; latch }" on a state
\* st = [wait, last] of the loops.
Mut_RaiseOne(st, d, t, level) ==
    IF level >= st.wait[d][t]
    THEN [wait |-> [st.wait EXCEPT ![d][t] = level],
          last |-> [st.last EXCEPT ![d][t] = index[d]]]
    ELSE st

RaiseOne(st, d, t, level) ==
    IF level > st.wait[d][t]
    THEN [wait |-> [st.wait EXCEPT ![d][t] = level],
          last |-> [st.last EXCEPT ![d][t] = index[d]]]
    ELSE st

\* d inherits what src waits for of t.
Inherit(st, src, d, t) == RaiseOne(st, d, t, st.wait[src][t])

\* One source stage of barrier(): its own work, then what it waits for.
BarrierFrom(st, src, d) ==
    LET inherit[n \in 0 .. Len(StageOrder)] ==
            IF n = 0 THEN RaiseOne(st, d, src, index[src])
            ELSE Inherit(inherit[n - 1], src, d, StageOrder[n])
    IN  inherit[Len(StageOrder)]

\* A round of barrier(srcStages, d): a stage outside of the mask is passed over.
SourceRound(st, s, srcStages, d) == IF s \in srcStages THEN BarrierFrom(st, s, d) ELSE st

BarrierTo(st, srcStages, d) ==
    LET from[n \in 0 .. Len(StageOrder)] ==
            IF n = 0 THEN st ELSE SourceRound(from[n - 1], StageOrder[n], srcStages, d)
    IN  from[Len(StageOrder)]

\* A round of pipelineBarrier(srcStages, dstStages).
TargetRound(st, s, srcStages, dstStages) ==
    IF s \in dstStages THEN BarrierTo(st, srcStages, s) ELSE st

LoopedBarrier(srcStages, dstStages) ==
    LET to[n \in 0 .. Len(StageOrder)] ==
            IF n = 0 THEN [wait |-> waitList, last |-> lastDstStageIndex]
            ELSE TargetRound(to[n - 1], StageOrder[n], srcStages, dstStages)
    IN  to[Len(StageOrder)]

\* The in-place loops of pipelineBarrier, where a stage may be source and
\* destination at once and is read after it was raised, reach the state the
\* simultaneous maximum reaches, latches included.
LoopsAgree ==
    \A srcStages, dstStages \in SUBSET Stage :
        LET looped == LoopedBarrier(srcStages, dstStages)
            levels == BarrierLevels(srcStages)
        IN  /\ looped.wait = RaisedWaits(dstStages, levels)
            /\ looped.last = RaisedLatches(dstStages, levels)
=============================================================================
