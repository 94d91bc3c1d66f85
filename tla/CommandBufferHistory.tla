------------------------ MODULE CommandBufferHistory ------------------------
(***************************************************************************)
(* What the application recorded, kept beside what the layer keeps, and    *)
(* the calls every submission makes and owes.                              *)
(***************************************************************************)
EXTENDS CommandBuffer

VARIABLES
    recorded,   \* the functions recorded into each buffer since it was begun
    replayed,   \* whether the buffer has been replayed since it was begun
    owed,       \* the tracker calls the current or last submission has to make
    performed,  \* the ones it has made
    drains      \* its last command was a barrier from the end to the top of the pipe

history == <<recorded, replayed, owed, performed, drains>>
allVars == <<vars, cbVars, history>>

-----------------------------------------------------------------------------

Unreplayed(cb) == IF replayed[cb] THEN <<>> ELSE recorded[cb]

\* A secondary buffer is replayed the first time it is executed.
FirstUse(functions, i) == \A j \in 1 .. i - 1 : functions[j] # functions[i]

CallsOfAll(functions) == FlattenSeq([i \in DOMAIN functions |-> CallsOf(functions[i])])

OwedBy(cb) ==
    LET fs == Unreplayed(cb)
    IN  FlattenSeq([i \in DOMAIN fs |->
            IF fs[i].op # "execute" THEN CallsOf(fs[i])
            ELSE IF FirstUse(fs, i) THEN CallsOfAll(Unreplayed(fs[i].cb)) ELSE <<>>])

EndsInFullBarrier(functions) ==
    /\ functions # <<>>
    /\ Last(functions).op = "barrier"
    /\ "BOTTOM_OF_PIPE" \in Last(functions).src
    /\ "TOP_OF_PIPE" \in Last(functions).dst

-----------------------------------------------------------------------------

HistoryInit ==
    /\ CBInit
    /\ recorded = deferredFunctions
    /\ replayed = [cb \in CB |-> FALSE]
    /\ owed = <<>>
    /\ performed = <<>>
    /\ drains = FALSE

RecordsInto(cb) ==
    \/ \E stage \in WorkStages : CmdWork(cb, stage)
    \/ \E masks \in BarrierMasks : CmdPipelineBarrier(cb, masks[1], masks[2])
    \/ \E pass \in RenderPass : CmdBeginRenderPass(cb, pass)
    \/ CmdEndRenderPass(cb)
    \/ \E secondary \in Secondary : CmdExecuteCommands(cb, secondary)

HistoryReplay ==
    \/ CallFunction /\ UNCHANGED history
    \/ /\ FunctionsDone
       /\ replayed' = [replayed EXCEPT ![Top.cb] = TRUE]
       /\ UNCHANGED <<recorded, owed, performed, drains>>
    \/ /\ CallTracker
       /\ performed' = Append(performed, Head(calls))
       /\ UNCHANGED <<recorded, replayed, owed, drains>>

HistoryNext ==
    \/ \E cb \in CB, pass \in RenderPass \cup {NoPass} :
           /\ BeginCommandBuffer(cb, pass)
           /\ recorded' = [recorded EXCEPT ![cb] = <<>>]
           /\ replayed' = [replayed EXCEPT ![cb] = FALSE]
           /\ UNCHANGED <<owed, performed, drains>>
    \/ \E cb \in CB :
           /\ RecordsInto(cb)
           /\ recorded' = [recorded EXCEPT ![cb] = Append(@, Last(deferredFunctions'[cb]))]
           /\ UNCHANGED <<replayed, owed, performed, drains>>
    \/ \E cb \in CB : EndCommandBuffer(cb) /\ UNCHANGED history
    \/ \E cb \in Primary :
           /\ QueueSubmit(cb)
           /\ owed' = OwedBy(cb)
           /\ performed' = <<>>
           /\ drains' = EndsInFullBarrier(Unreplayed(cb))
           /\ UNCHANGED <<recorded, replayed>>
    \/ HistoryReplay

\* vkQueueSubmit runs to its end once it has the lock.
HistorySpec == HistoryInit /\ [][HistoryNext]_allVars /\ WF_allVars(HistoryReplay)

-----------------------------------------------------------------------------

\* CommandBuffer::callDeferredFunctions: every recorded command, the ones of
\* executed secondary buffers included, reaches the tracker exactly once and in
\* the order of recording; a buffer that is submitted again, or executed a second
\* time, replays nothing.
ReplaysRecordingOnce ==
    /\ IsPrefix(performed, owed)
    /\ running = <<>> => performed = owed

\* CommandBuffer::beginRenderPass pushes geometry, then fragment work that waits
\* for it: between two functions every fragment item has its geometry item
\* and fragment work waits for all geometry work.
PassesPaired ==
    calls = <<>> =>
        /\ index[FRAGMENT] = index[GEOMETRY]
        /\ waitList[FRAGMENT][GEOMETRY] = index[GEOMETRY]

\* CommandBuffer::pipelineBarrier widens BOTTOM_OF_PIPE as source and TOP_OF_PIPE
\* as destination: after a submission that ends in such a barrier every stage
\* waits for all work of every stage.
FullBarrierDrains ==
    running = <<>> /\ drains => \A d, t \in Stage : waitList[d][t] = index[t]

\* vkQueueSubmit returns: replay through nested secondary buffers comes to an end.
SubmitReturns == running # <<>> ~> running = <<>>
=============================================================================
