--------------------------- MODULE QueueExecution ---------------------------
(***************************************************************************)
(* What waits and reported bubbles mean on the device.  The tracker of one *)
(* queue runs ahead (the calls of QueueEvents, with the history of         *)
(* QueueEventsHistory) while the device executes what was pushed: every    *)
(* stage runs its items in order, and an item starts when the items it     *)
(* waits for are done.                                                     *)
(*                                                                         *)
(* The device is not part of the layer; its order of execution is the one  *)
(* the comments of queue_tracker.{hpp,cpp} describe.                       *)
(***************************************************************************)
EXTENDS QueueEventsHistory, Sequences

VARIABLES
    waitsOf,    \* waitsOf[s][n]: the waits item n of s was pushed with
    done,       \* done[s]: items of s that have completed
    running,    \* running[s]: item done[s] + 1 of s is executing
    reports     \* the bubbles logged so far, with the two items they name

deviceVars == <<done, running>>
execVars == <<eventsHistoryVars, waitsOf, done, running, reports>>

ExecInit ==
    /\ EventsHistoryInit
    /\ waitsOf = [s \in Stage |-> <<>>]
    /\ done = [s \in Stage |-> 0]
    /\ running = [s \in Stage |-> FALSE]
    /\ reports = {}

Push(dst) ==
    /\ PushNoted(dst)
    /\ waitsOf' = [waitsOf EXCEPT ![dst] = Append(@, waitList[dst])]
    /\ reports' = reports \cup
           {[stage |-> dst, item |-> index[dst] + 1, by |-> i, byItem |-> index[i]] :
                i \in {s \in Stage : Blocks(s, dst)}}
    /\ UNCHANGED deviceVars

\* Barriers and event calls change what later items wait for, nothing else.
Synchronize ==
    /\ BetweenPushes
    /\ UNCHANGED <<waitsOf, reports, deviceVars>>

Start(s) ==
    /\ ~ running[s]
    /\ done[s] < index[s]
    /\ \A t \in Stage : waitsOf[s][done[s] + 1][t] <= done[t]
    /\ running' = [running EXCEPT ![s] = TRUE]
    /\ UNCHANGED <<eventsHistoryVars, waitsOf, done, reports>>

Finish(s) ==
    /\ running[s]
    /\ running' = [running EXCEPT ![s] = FALSE]
    /\ done' = [done EXCEPT ![s] = @ + 1]
    /\ UNCHANGED <<eventsHistoryVars, waitsOf, reports>>

ExecNext ==
    \/ \E dst \in Stage : Push(dst)
    \/ Synchronize
    \/ \E s \in Stage : Start(s)
    \/ \E s \in Stage : Finish(s)

\* The device keeps executing what it has been given.
ExecSpec ==
    /\ ExecInit
    /\ [][ExecNext]_execVars
    /\ \A s \in Stage : WF_execVars(Start(s)) /\ WF_execVars(Finish(s))

-----------------------------------------------------------------------------

\* "Work in stage %s will block execution in stage %s": whenever the item named
\* by a report executes, the blocked stage has run dry, everything before the
\* reported item is done and the reported item has not begun.
BubbleLeavesStageIdle ==
    \A r \in reports :
        running[r.by] /\ done[r.by] + 1 = r.byItem
            => done[r.stage] = r.item - 1 /\ ~ running[r.stage]

\* Only a folded signal can make the recorded waits a cycle: until one happens,
\* the device catches up with what was pushed again and again (the pushes are
\* bounded), whatever barriers, signals, waits and host calls come in between.
WorkCompletes == []<>(done = index \/ folded # {})

\* Without the exception: waits never hold the device up for good.  A fold lets
\* a stage wait for an item that is pushed behind it and waits for it in turn.
AllWorkCompletes == []<>(done = index)
=============================================================================
