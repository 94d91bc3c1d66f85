---------------------------- MODULE QueueEvents -----------------------------
(***************************************************************************)
(* Events and the tracker operations on them: QueueTracker::signalEvent    *)
(* and waitEvent, Event::signal and reset, and the calls that reach them   *)
(* from the host (vkSetEvent, vkResetEvent) and, when a command buffer is  *)
(* submitted, from the device (vkCmdSetEvent, vkCmdResetEvent,             *)
(* vkCmdWaitEvents).                                                       *)
(*                                                                         *)
(* The host calls may come at any moment between two device operations.    *)
(***************************************************************************)
EXTENDS QueueTracker

CONSTANT Event

ASSUME EventAssumption == IsFiniteSet(Event)

VARIABLES
    signalled,      \* Event::signalled
    eventWaits      \* Event::waitList

eventVars == <<signalled, eventWaits>>
trackerVars == <<waitList, index, lastDstStageIndex>>

EventsInit ==
    /\ Init
    /\ signalled = [e \in Event |-> FALSE]
    /\ eventWaits = [e \in Event |-> [t \in Stage |-> 0]]

-----------------------------------------------------------------------------

\* Signalling a signalled event and waiting for an unsignalled one return at
\* once: both are no steps here.

\* signalEvent keeps one number per source stage: the greatest of the stage's
\* index and of everything the stage waits for, whichever stage that is in.
Mut_SignalLevel(s) == Max({0} \cup {waitList[s][t] : t \in Stage})

Mut_SignalLevelAhead(s) == Max({index[s] + 1} \cup {waitList[s][t] : t \in Stage})

SignalLevel(s) == Max({index[s]} \cup {waitList[s][t] : t \in Stage})

SignalEvent(e, srcStages) ==
    /\ ~ signalled[e]
    /\ eventWaits' = [eventWaits EXCEPT ![e] =
           [s \in Stage |-> IF s \in srcStages THEN SignalLevel(s) ELSE 0]]
    /\ signalled' = [signalled EXCEPT ![e] = TRUE]
    /\ bubbles' = {}
    /\ UNCHANGED trackerVars

WaitEvent(e, dstStages) ==
    /\ signalled[e]
    /\ Raise(dstStages, [t \in Stage |-> {eventWaits[e][t]}])
    /\ bubbles' = {}
    /\ UNCHANGED <<index, signalled, eventWaits>>

\* vkResetEvent at once, vkCmdResetEvent when its command buffer is submitted:
\* the waits of the last signal stay behind.
ResetEvent(e) ==
    /\ signalled' = [signalled EXCEPT ![e] = FALSE]
    /\ bubbles' = {}
    /\ UNCHANGED <<trackerVars, eventWaits>>

\* vkSetEvent signals on the host and records no waits.
HostSetEvent(e) ==
    /\ signalled' = [signalled EXCEPT ![e] = TRUE]
    /\ bubbles' = {}
    /\ UNCHANGED <<trackerVars, eventWaits>>

EventsNext ==
    \/ Next /\ UNCHANGED eventVars
    \/ \E e \in Event, srcStages \in StageMasks : SignalEvent(e, srcStages)
    \/ \E e \in Event, dstStages \in StageMasks : WaitEvent(e, dstStages)
    \/ \E e \in Event : ResetEvent(e)
    \/ \E e \in Event : HostSetEvent(e)

EventsSpec == EventsInit /\ [][EventsNext]_<<vars, eventVars>>
=============================================================================
