------------------------- MODULE QueueEventsHistory -------------------------
(***************************************************************************)
(* What events should carry, kept beside what QueueEvents carries.         *)
(*                                                                         *)
(* Three history variables: the number of items of t that d has to wait    *)
(* for because of a direct dependency (a barrier or an event that names t  *)
(* as a source), the same for each signalled event, and the stages whose   *)
(* entry in an event was folded: signalEvent keeps one number for a source *)
(* stage, and puts there a wait of that stage for another one when its     *)
(* number is the greater.                                                  *)
(***************************************************************************)
EXTENDS QueueEvents

VARIABLES
    direct,         \* direct[d][t]: items of t that d directly depends on
    directOf,       \* directOf[e][t]: the same of a signalled event
    folded          \* stages an event was signalled from with foreign waits

history == <<direct, directOf, folded>>
eventsHistoryVars == <<vars, eventVars, history>>

Greater(a, b) == IF a > b THEN a ELSE b

ZeroStages == [t \in Stage |-> 0]

EventsHistoryInit ==
    /\ EventsInit
    /\ direct = [d \in Stage |-> ZeroStages]
    /\ directOf = [e \in Event |-> ZeroStages]
    /\ folded = {}

\* The dependencies a set of source stages stands for at this moment.
DirectLevel(srcStages) == [t \in Stage |-> IF t \in srcStages THEN index[t] ELSE 0]

RaiseTo(w, dstStages, level) ==
    [d \in Stage |-> [t \in Stage |->
        IF d \in dstStages THEN Greater(w[d][t], level[t]) ELSE w[d][t]]]

\* The source stages that wait for an item of some stage with a number their
\* own counter has not reached.
Folds(srcStages) == {s \in srcStages : \E t \in Stage : waitList[s][t] > index[s]}

-----------------------------------------------------------------------------

PushNoted(dst) ==
    /\ PushWork(dst)
    /\ UNCHANGED <<eventVars, history>>

BarrierNoted(srcStages, dstStages) ==
    /\ PipelineBarrier(srcStages, dstStages)
    /\ direct' = RaiseTo(direct, dstStages, DirectLevel(srcStages))
    /\ UNCHANGED <<eventVars, directOf, folded>>

SignalNoted(e, srcStages) ==
    /\ SignalEvent(e, srcStages)
    /\ directOf' = [directOf EXCEPT ![e] = DirectLevel(srcStages)]
    /\ folded' = folded \cup Folds(srcStages)
    /\ UNCHANGED direct

WaitNoted(e, dstStages) ==
    /\ WaitEvent(e, dstStages)
    /\ direct' = RaiseTo(direct, dstStages, directOf[e])
    /\ UNCHANGED <<directOf, folded>>

ResetNoted(e) ==
    /\ ResetEvent(e)
    /\ directOf' = [directOf EXCEPT ![e] = ZeroStages]
    /\ UNCHANGED <<direct, folded>>

HostSetNoted(e) ==
    /\ HostSetEvent(e)
    /\ UNCHANGED history

BetweenPushes ==
    \/ \E srcStages, dstStages \in StageMasks : BarrierNoted(srcStages, dstStages)
    \/ \E e \in Event, srcStages \in StageMasks : SignalNoted(e, srcStages)
    \/ \E e \in Event, dstStages \in StageMasks : WaitNoted(e, dstStages)
    \/ \E e \in Event : ResetNoted(e)
    \/ \E e \in Event : HostSetNoted(e)

EventsHistoryNext == (\E dst \in Stage : PushNoted(dst)) \/ BetweenPushes

EventsHistorySpec == EventsHistoryInit /\ [][EventsHistoryNext]_eventsHistoryVars

-----------------------------------------------------------------------------

\* A stage keeps every dependency it was given directly, by a barrier or
\* through an event, whatever signals, resets and host calls come in between:
\* the waits of the tracker are never below them.
NoDirectWaitLost ==
    \A d, t \in Stage : direct[d][t] <= waitList[d][t]

\* A stage waits for an item of t that has not been pushed only when an event
\* was signalled from t while t itself waited for a later item of some stage:
\* signalEvent then takes that number for one of t (queue_tracker.cpp:152).
\* Barriers, and events signalled from stages with no such wait, never make a
\* stage wait for more than there is.
UnpushedWaitsNeedFold ==
    \A d, t \in Stage : waitList[d][t] > index[t] => t \in folded
=============================================================================
