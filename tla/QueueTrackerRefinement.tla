----------------------- MODULE QueueTrackerRefinement -----------------------
(***************************************************************************)
(* The counters of QueueTracker represent the item sets of QueueTimeline.  *)
(*                                                                         *)
(* A gate is always a prefix of every stage, so one number per stage       *)
(* stands for it.  What the last item of a stage waits for is not in the   *)
(* tracker's state: lastDstStageIndex only tells whether a wait was raised *)
(* before or after that item was pushed.  A history variable remembers the *)
(* waits each last item was pushed with; nothing reads it.                 *)
(***************************************************************************)
EXTENDS QueueTracker

VARIABLE seen       \* seen[s]: waitList[s] when the last item of s was pushed

historyVars == <<waitList, index, lastDstStageIndex, bubbles, seen>>

HistoryInit ==
    /\ Init
    /\ seen = [s \in Stage |-> [t \in Stage |-> 0]]

HistoryPushWork(dst) ==
    /\ PushWork(dst)
    /\ seen' = [seen EXCEPT ![dst] = waitList[dst]]

HistoryPipelineBarrier(srcStages, dstStages) ==
    /\ PipelineBarrier(srcStages, dstStages)
    /\ UNCHANGED seen

HistoryNext ==
    \/ \E dst \in Stage : HistoryPushWork(dst)
    \/ \E srcStages, dstStages \in StageMasks :
           HistoryPipelineBarrier(srcStages, dstStages)

HistorySpec == HistoryInit /\ [][HistoryNext]_historyVars

-----------------------------------------------------------------------------

\* The items named by a row of waits: the first row[t] items of each stage t.
FirstItems(row) == UNION {{t} \X (1 .. row[t]) : t \in Stage}

Timeline == INSTANCE QueueTimeline WITH
    issued <- index,
    gate   <- [s \in Stage |-> FirstItems(waitList[s])],
    behind <- [s \in Stage |-> FirstItems(seen[s])]

\* queue_tracker.cpp reports exactly the bubbles of the timeline it stands for.
ImplementsTimeline == Timeline!TimelineSpec

-----------------------------------------------------------------------------

\* The latch of pushWork says, for the last item of d and every stage t, whether
\* the wait of d for t was raised before or after that item was pushed.
LatchSeparates ==
    \A d, t \in Stage :
        /\ seen[d][t] <= waitList[d][t]
        /\ lastDstStageIndex[d][t] # index[d] => seen[d][t] = waitList[d][t]
        /\ lastDstStageIndex[d][t] = index[d] /\ waitList[d][t] # 0
               => seen[d][t] < waitList[d][t]

\* A stage that waits for the last item of s also waits for everything that
\* item waited for: waits are inherited through pipelineBarrier.
WaitsAreTransitive ==
    \A d, s, t \in Stage :
        index[s] # 0 /\ waitList[d][s] = index[s] => seen[s][t] <= waitList[d][t]
=============================================================================
