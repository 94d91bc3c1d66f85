---------------------------- MODULE QueueTracker ----------------------------
(***************************************************************************)
(* The per-queue dependency tracker of layer/queue_tracker.{hpp,cpp}.      *)
(*                                                                         *)
(* Work submitted to a queue is counted per pipeline stage.  Each stage    *)
(* remembers, for every stage, the number of the youngest work item it has *)
(* to wait for (waitList), and the value its own counter had when that     *)
(* wait was last raised (lastDstStageIndex).  From these numbers alone     *)
(* pushWork decides whether the new item has to sit behind a pipeline      *)
(* bubble.                                                                 *)
(*                                                                         *)
(* The two operations here are the ones a queue performs on its own state; *)
(* the event operations are in QueueEvents.                                *)
(***************************************************************************)
EXTENDS Integers, FiniteSets, FiniteSetsExt

CONSTANTS
    Stage,              \* QueueTracker::Stage (or a part of it)
    Exclusive,          \* the pairs of stages that never run concurrently
    StageMasks,         \* the stage masks barriers are called with (a bound)
    msgPipelineBubble,  \* Config::msgPipelineBubble
    MaxWork             \* bound: work items pushed to each stage

ASSUME StageAssumption == IsFiniteSet(Stage)
ASSUME MaskAssumption == StageMasks \subseteq SUBSET Stage
ASSUME ConfigAssumption == msgPipelineBubble \in BOOLEAN
ASSUME MaxWorkAssumption == MaxWork \in [Stage -> Nat]

VARIABLES
    waitList,           \* waitList[d][t]: d waits for items 1..waitList[d][t] of t
    index,              \* index[s]: work items pushed to s so far
    lastDstStageIndex,  \* lastDstStageIndex[d][t]: index[d] when waitList[d][t] was raised
    bubbles             \* <<dst, i>> for each PIPELINE_BUBBLE the last call logged

vars == <<waitList, index, lastDstStageIndex, bubbles>>

Init ==
    /\ waitList = [d \in Stage |-> [t \in Stage |-> 0]]
    /\ index = [s \in Stage |-> 0]
    /\ lastDstStageIndex = [d \in Stage |-> [t \in Stage |-> 0]]
    /\ bubbles = {}

-----------------------------------------------------------------------------
(***************************************************************************)
(* pushWork.                                                               *)
(***************************************************************************)

\* The last item of i was pushed after i started to wait for the last item of
\* dst; otherwise the wait of i is merely passed on by i.
Mut_WorkBehindWait(i, dst) == waitList[i][dst] = index[dst]

WorkBehindWait(i, dst) ==
    /\ waitList[i][dst] = index[dst]
    /\ index[i] # lastDstStageIndex[i][dst]

Blocks(i, dst) ==
    /\ i # dst
    /\ waitList[dst][i] = index[i]
    /\ index[dst] # 0
    /\ {i, dst} \notin Exclusive
    /\ msgPipelineBubble
    /\ WorkBehindWait(i, dst)

PushWork(dst) ==
    /\ index[dst] < MaxWork[dst]
    /\ bubbles' = {<<dst, i>> : i \in {s \in Stage : Blocks(s, dst)}}
    /\ index' = [index EXCEPT ![dst] = @ + 1]
    /\ UNCHANGED <<waitList, lastDstStageIndex>>

(***************************************************************************)
(* pipelineBarrier.  The code visits the dst stages in order and, for each *)
(* of them, the src stages in order, updating in place.  A stage that is   *)
(* both source and destination is raised to a level every later            *)
(* destination is raised to as well, so the loops amount to one            *)
(* simultaneous maximum (QueueTrackerLoops compares the two).              *)
(***************************************************************************)

\* The levels of t that waiting for the stages srcStages brings with it: what
\* they wait for themselves and, when t is one of them, its own last item.
Mut_LevelsOf(srcStages, t) == {index[s] : s \in srcStages \cap {t}}

Mut_LevelsAhead(srcStages, t) ==
    {waitList[s][t] : s \in srcStages} \cup {index[s] + 1 : s \in srcStages \cap {t}}

LevelsOf(srcStages, t) ==
    {waitList[s][t] : s \in srcStages} \cup {index[s] : s \in srcStages \cap {t}}

BarrierLevels(srcStages) == [t \in Stage |-> LevelsOf(srcStages, t)]

Mut_Raised(d, t, levels) == IF levels = {} THEN waitList[d][t] ELSE Max(levels)

Raised(d, t, levels) == Max({waitList[d][t]} \cup levels)

Mut_Latched(d, t, levels) == IF levels = {} THEN lastDstStageIndex[d][t] ELSE index[d]

Mut_LatchedBefore(d, t, levels) ==
    IF Raised(d, t, levels) > waitList[d][t] THEN index[d] - 1 ELSE lastDstStageIndex[d][t]

Latched(d, t, levels) ==
    IF Raised(d, t, levels) > waitList[d][t] THEN index[d] ELSE lastDstStageIndex[d][t]

\* The waits and latches after raising the waits of dstStages to levels[t] for
\* every stage t.
RaisedWaits(dstStages, levels) ==
    [d \in Stage |-> [t \in Stage |->
        IF d \in dstStages THEN Raised(d, t, levels[t]) ELSE waitList[d][t]]]

RaisedLatches(dstStages, levels) ==
    [d \in Stage |-> [t \in Stage |->
        IF d \in dstStages THEN Latched(d, t, levels[t]) ELSE lastDstStageIndex[d][t]]]

Raise(dstStages, levels) ==
    /\ waitList' = RaisedWaits(dstStages, levels)
    /\ lastDstStageIndex' = RaisedLatches(dstStages, levels)

PipelineBarrier(srcStages, dstStages) ==
    /\ Raise(dstStages, BarrierLevels(srcStages))
    /\ bubbles' = {}
    /\ UNCHANGED index

-----------------------------------------------------------------------------

Next ==
    \/ \E dst \in Stage : PushWork(dst)
    \/ \E srcStages, dstStages \in StageMasks : PipelineBarrier(srcStages, dstStages)

Spec == Init /\ [][Next]_vars

-----------------------------------------------------------------------------
(***************************************************************************)
(* Invariants.                                                             *)
(***************************************************************************)

\* Every counter and wait is a number of work items.
TypeOK ==
    /\ index \in [Stage -> Nat]
    /\ waitList \in [Stage -> [Stage -> Nat]]
    /\ lastDstStageIndex \in [Stage -> [Stage -> Nat]]
    /\ bubbles \subseteq (Stage \X Stage)

\* As long as only barriers raise waits, none lies beyond the counter of its
\* stage: a barrier copies indices and waits that are themselves within theirs.
\* Events break this (UnpushedWaitsNeedFold in QueueEventsHistory says when).
WaitsForSubmittedWork == \A d, t \in Stage : waitList[d][t] <= index[t]

\* A latch never lies ahead of its own stage's counter, and a wait that was
\* never raised was never latched (pushWork's "index != lastDstStageIndex"
\* test relies on both).
LatchedInThePast ==
    \A d, t \in Stage :
        /\ lastDstStageIndex[d][t] <= index[d]
        /\ waitList[d][t] = 0 => lastDstStageIndex[d][t] = 0
=============================================================================
