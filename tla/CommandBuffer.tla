--------------------------- MODULE CommandBuffer ----------------------------
(***************************************************************************)
(* Recording and submission: layer/commandbuffer.cpp and the entry points  *)
(* of layer/dispatch.cpp that reach it.                                    *)
(*                                                                         *)
(* While a command buffer is recorded nothing reaches the tracker of the   *)
(* queue: every command appends a deferred function.  vkQueueSubmit calls  *)
(* the functions of the submitted buffers in order, descends into the      *)
(* secondary buffers they execute, and empties every list it has walked.   *)
(* One step here is one function taken from a list or one call it makes on *)
(* the tracker (QueueTracker).  QueueSubmit holds globalLock throughout,   *)
(* so no other entry point runs before it is done.                         *)
(***************************************************************************)
EXTENDS QueueTracker, Sequences, SequencesExt

CONSTANTS
    COMPUTE, GEOMETRY, FRAGMENT, TRANSFER,  \* the enumerators of Stage
    Primary, Secondary,     \* command buffers by level
    RenderPass, NoPass,
    ExternalIn,             \* per pass, the <<src, dst>> masks of the dependencies
    ExternalOut,            \* from and to VK_SUBPASS_EXTERNAL
    BarrierMasks,           \* the <<src, dst>> masks of vkCmdPipelineBarrier (a bound)
    WorkStages,             \* the stages commands outside a pass push work to
    MaxRecorded,            \* bound: functions in each command buffer
    MaxSubmits              \* bound: calls of vkQueueSubmit

CB == Primary \cup Secondary

ASSUME StageNames ==
    /\ Stage = {COMPUTE, GEOMETRY, FRAGMENT, TRANSFER}
    /\ COMPUTE \notin {GEOMETRY, FRAGMENT, TRANSFER}
    /\ GEOMETRY \notin {FRAGMENT, TRANSFER}
    /\ FRAGMENT # TRANSFER
ASSUME WorkAssumption == WorkStages \subseteq {COMPUTE, TRANSFER}
ASSUME LevelsDisjoint == Primary \cap Secondary = {}
ASSUME NoPassAssumption == NoPass \notin RenderPass
ASSUME BoundAssumption == MaxRecorded \in [CB -> Nat] /\ MaxSubmits \in Nat

VARIABLES
    status,             \* the life cycle valid usage keeps the buffer in
    deferredFunctions,  \* CommandBuffer::deferredFunctions
    currentRenderPass,  \* CommandBuffer::currentRenderPass
    running,            \* the callDeferredFunctions calls in progress, innermost last
    calls,              \* the calls the current function has still to make
    submits             \* number of submissions so far

recordVars == <<status, deferredFunctions, currentRenderPass>>
replayVars == <<running, calls>>
cbVars == <<recordVars, replayVars, submits>>

CBInit ==
    /\ Init
    /\ status = [cb \in CB |-> "initial"]
    /\ deferredFunctions = [cb \in CB |-> <<>>]
    /\ currentRenderPass = [cb \in CB |-> NoPass]
    /\ running = <<>>
    /\ calls = <<>>
    /\ submits = 0

-----------------------------------------------------------------------------
(***************************************************************************)
(* Stage masks.                                                            *)
(***************************************************************************)

\* The VK_PIPELINE_STAGE_* bits that stand for a stage of the tracker; the
\* shader stages of one tracker stage are interchangeable.
VkStages ==
    [s \in Stage |->
        {"ALL_COMMANDS"} \cup
        CASE s = FRAGMENT  -> {"FRAGMENT_SHADER", "ALL_GRAPHICS"}
          [] s = GEOMETRY  -> {"VERTEX_SHADER", "ALL_GRAPHICS"}
          [] s = TRANSFER  -> {"TRANSFER"}
          [] s = COMPUTE   -> {"COMPUTE_SHADER"}]

vkStagesToTracker(mask) == {s \in Stage : mask \cap VkStages[s] # {}}

\* The end of the pipe as a source, and its top as a destination, stand for
\* every stage.
Mut_SrcStages(mask) ==
    vkStagesToTracker(IF "TOP_OF_PIPE" \in mask THEN mask \cup {"ALL_COMMANDS"} ELSE mask)

SrcStages(mask) ==
    vkStagesToTracker(IF "BOTTOM_OF_PIPE" \in mask THEN mask \cup {"ALL_COMMANDS"} ELSE mask)

DstStages(mask) ==
    vkStagesToTracker(IF "TOP_OF_PIPE" \in mask THEN mask \cup {"ALL_COMMANDS"} ELSE mask)

\* Tracker calls.
Push(stage) == [call |-> "pushWork", stage |-> stage]
Barrier(srcStages, dstStages) ==
    [call |-> "pipelineBarrier", src |-> srcStages, dst |-> dstStages]

\* All dependencies of a pass with the outside on one side are merged into a
\* single barrier.
Merged(dependencies) ==
    Barrier(UNION {SrcStages(d[1]) : d \in dependencies},
            UNION {DstStages(d[2]) : d \in dependencies})

\* The body of a deferred function.
Mut_CallsOf(f) ==
    CASE f.op = "work"      -> <<Push(f.stage)>>
      [] f.op = "barrier"   -> <<Barrier(SrcStages(f.src), DstStages(f.dst))>>
      [] f.op = "beginPass" -> <<Merged(ExternalIn[f.pass]),
                                 Barrier({GEOMETRY}, {FRAGMENT}),
                                 Push(GEOMETRY),
                                 Push(FRAGMENT)>>
      [] f.op = "endPass"   -> <<Merged(ExternalOut[f.pass])>>

CallsOf(f) ==
    CASE f.op = "work"      -> <<Push(f.stage)>>
      [] f.op = "barrier"   -> <<Barrier(SrcStages(f.src), DstStages(f.dst))>>
      [] f.op = "beginPass" -> <<Merged(ExternalIn[f.pass]),
                                 Push(GEOMETRY),
                                 Barrier({GEOMETRY}, {FRAGMENT}),
                                 Push(FRAGMENT)>>
      [] f.op = "endPass"   -> <<Merged(ExternalOut[f.pass])>>

-----------------------------------------------------------------------------
(***************************************************************************)
(* Recording.  An entry point can only run while nobody else is inside the *)
(* layer; what it may be called for is Vulkan's valid usage.               *)
(***************************************************************************)

LockFree == running = <<>>

Recording(cb) == LockFree /\ status[cb] = "recording"

\* Primaries whose recording refers to cb.
Users(cb) == {p \in Primary : \E i \in DOMAIN deferredFunctions[p] :
                  deferredFunctions[p][i] = [op |-> "execute", cb |-> cb]}

\* vkBeginCommandBuffer.  pass is the inherited render pass of a secondary
\* buffer that continues one.  Re-recording a buffer invalidates the buffers
\* that execute it: valid usage never submits them again.
BeginCommandBuffer(cb, pass) ==
    /\ LockFree
    /\ status[cb] # "recording"
    /\ cb \in Primary => pass = NoPass
    /\ status' = [c \in CB |-> IF c = cb THEN "recording"
                               ELSE IF c \in Users(cb) THEN "initial" ELSE status[c]]
    /\ deferredFunctions' = [deferredFunctions EXCEPT ![cb] = <<>>]
    /\ currentRenderPass' = [currentRenderPass EXCEPT ![cb] = pass]
    /\ UNCHANGED <<vars, replayVars, submits>>

enqueueDeferredFunction(cb, f) ==
    /\ Recording(cb)
    /\ Len(deferredFunctions[cb]) < MaxRecorded[cb]
    /\ deferredFunctions' = [deferredFunctions EXCEPT ![cb] = Append(@, f)]
    /\ UNCHANGED <<vars, status, replayVars, submits>>

\* vkCmdCopy*, vkCmdFillBuffer, vkCmdDispatch, ...
CmdWork(cb, stage) ==
    /\ currentRenderPass[cb] = NoPass
    /\ enqueueDeferredFunction(cb, [op |-> "work", stage |-> stage])
    /\ UNCHANGED currentRenderPass

\* Inside a render pass the barrier is dropped.
CmdPipelineBarrier(cb, src, dst) ==
    /\ currentRenderPass[cb] = NoPass
    /\ enqueueDeferredFunction(cb, [op |-> "barrier", src |-> src, dst |-> dst])
    /\ UNCHANGED currentRenderPass

CmdBeginRenderPass(cb, pass) ==
    /\ cb \in Primary
    /\ currentRenderPass[cb] = NoPass
    /\ enqueueDeferredFunction(cb, [op |-> "beginPass", pass |-> pass])
    /\ currentRenderPass' = [currentRenderPass EXCEPT ![cb] = pass]

CmdEndRenderPass(cb) ==
    /\ cb \in Primary
    /\ currentRenderPass[cb] # NoPass
    /\ enqueueDeferredFunction(cb, [op |-> "endPass", pass |-> currentRenderPass[cb]])
    /\ currentRenderPass' = [currentRenderPass EXCEPT ![cb] = NoPass]

\* The function keeps a pointer to the secondary buffer, not its commands.
CmdExecuteCommands(cb, secondary) ==
    /\ cb \in Primary
    /\ status[secondary] = "executable"
    /\ currentRenderPass[cb] = currentRenderPass[secondary]
    /\ enqueueDeferredFunction(cb, [op |-> "execute", cb |-> secondary])
    /\ UNCHANGED currentRenderPass

\* vkEndCommandBuffer goes to the driver; the layer does not see it.
EndCommandBuffer(cb) ==
    /\ Recording(cb)
    /\ cb \in Primary => currentRenderPass[cb] = NoPass
    /\ status' = [status EXCEPT ![cb] = "executable"]
    /\ UNCHANGED <<vars, deferredFunctions, currentRenderPass, replayVars, submits>>

-----------------------------------------------------------------------------
(***************************************************************************)
(* Submission.                                                             *)
(***************************************************************************)

Frame(cb) == [cb |-> cb, next |-> 1]

QueueSubmit(cb) ==
    /\ LockFree
    /\ submits < MaxSubmits
    /\ status[cb] = "executable"
    /\ running' = <<Frame(cb)>>
    /\ submits' = submits + 1
    /\ UNCHANGED <<vars, recordVars, calls>>

Top == Last(running)
Functions == deferredFunctions[Top.cb]

\* running with its innermost loop moved on to the next function.
Mut_Advanced == running

Advanced == [running EXCEPT ![Len(running)].next = @ + 1]

BetweenCalls == running # <<>> /\ calls = <<>>

\* The loop of callDeferredFunctions takes the next function and enters it.
CallFunction ==
    /\ BetweenCalls
    /\ Top.next <= Len(Functions)
    /\ LET f == Functions[Top.next]
       IN  \/ /\ f.op = "execute"
              /\ running' = Append(Advanced, Frame(f.cb))
              /\ UNCHANGED calls
           \/ /\ f.op # "execute"
              /\ running' = Advanced
              /\ calls' = CallsOf(f)
    /\ UNCHANGED <<vars, recordVars, submits>>

\* The loop is over: deferredFunctions.clear() and return.
Mut_Cleared(cb) == deferredFunctions

Cleared(cb) == [deferredFunctions EXCEPT ![cb] = <<>>]

FunctionsDone ==
    /\ BetweenCalls
    /\ Top.next > Len(Functions)
    /\ deferredFunctions' = Cleared(Top.cb)
    /\ running' = Front(running)
    /\ UNCHANGED <<vars, status, currentRenderPass, calls, submits>>

\* The current function makes its next call on the queue's tracker.
CallTracker ==
    /\ calls # <<>>
    /\ LET c == Head(calls)
       IN  \/ c.call = "pushWork" /\ PushWork(c.stage)
           \/ c.call = "pipelineBarrier" /\ PipelineBarrier(c.src, c.dst)
    /\ calls' = Tail(calls)
    /\ UNCHANGED <<recordVars, running, submits>>
=============================================================================
