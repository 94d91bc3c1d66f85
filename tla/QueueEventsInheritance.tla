----------------------- MODULE QueueEventsInheritance -----------------------
(***************************************************************************)
(* What two comments of queue_tracker.cpp say an event carries, kept       *)
(* beside what QueueEvents carries: the dependencies of a stage with those *)
(* it inherits from its source stages, and who signalled each event.       *)
(***************************************************************************)
EXTENDS QueueEvents

VARIABLES
    due,        \* due[d][t]: items of t that d depends on, inherited ones too
    dueOf,      \* dueOf[e][t]: the same of a signalled event
    signaller   \* "none", "device" or "host"

inherited == <<due, dueOf, signaller>>
inheritanceVars == <<vars, eventVars, inherited>>

NothingDue == [t \in Stage |-> 0]

InheritanceInit ==
    /\ EventsInit
    /\ due = [d \in Stage |-> NothingDue]
    /\ dueOf = [e \in Event |-> NothingDue]
    /\ signaller = [e \in Event |-> "none"]

\* What a set of source stages stands for at this moment.
DueOfSources(srcStages) == [t \in Stage |->
    Max({0} \cup {index[s] : s \in srcStages \cap {t}} \cup {due[s][t] : s \in srcStages})]

DueTo(dstStages, level) == [d \in Stage |-> [t \in Stage |->
    IF d \in dstStages /\ level[t] > due[d][t] THEN level[t] ELSE due[d][t]]]

InheritanceNext ==
    \/ \E dst \in Stage :
           PushWork(dst) /\ UNCHANGED <<eventVars, inherited>>
    \/ \E srcStages, dstStages \in StageMasks :
           /\ PipelineBarrier(srcStages, dstStages)
           /\ due' = DueTo(dstStages, DueOfSources(srcStages))
           /\ UNCHANGED <<eventVars, dueOf, signaller>>
    \/ \E e \in Event, srcStages \in StageMasks :
           /\ SignalEvent(e, srcStages)
           /\ dueOf' = [dueOf EXCEPT ![e] = DueOfSources(srcStages)]
           /\ signaller' = [signaller EXCEPT ![e] = "device"]
           /\ UNCHANGED due
    \/ \E e \in Event, dstStages \in StageMasks :
           /\ WaitEvent(e, dstStages)
           /\ due' = DueTo(dstStages, dueOf[e])
           /\ UNCHANGED <<dueOf, signaller>>
    \/ \E e \in Event :
           /\ ResetEvent(e)
           /\ dueOf' = [dueOf EXCEPT ![e] = NothingDue]
           /\ signaller' = [signaller EXCEPT ![e] = "none"]
           /\ UNCHANGED due
    \/ \E e \in Event :
           /\ HostSetEvent(e)
           /\ signaller' = [signaller EXCEPT ![e] = IF signalled[e] THEN @ ELSE "host"]
           /\ UNCHANGED <<due, dueOf>>

InheritanceSpec == InheritanceInit /\ [][InheritanceNext]_inheritanceVars

-----------------------------------------------------------------------------

\* queue_tracker.cpp, signalEvent: "Inherit dependencies from our srcStages."
\* A stage that waited for an event also waits for what the event's source
\* stages were waiting for in other stages, as it would after a barrier.
EventsInheritDependencies ==
    \A d, t \in Stage : d # t => due[d][t] <= waitList[d][t]

\* queue_tracker.cpp, waitEvent: a host-signalled event "should not be counted".
\* Waiting for such an event therefore makes no stage wait for more.
HostSignalsNotCounted ==
    \A e \in Event : signaller[e] = "host" =>
        \A d, t \in Stage : eventWaits[e][t] <= waitList[d][t]
=============================================================================
