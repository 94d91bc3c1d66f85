------------------------ MODULE RecordingHeuristics ------------------------
(***************************************************************************)
(* The checks a command buffer makes while it is recorded                  *)
(* (src/layer/heuristic.cpp, commandbuffer.cpp, the Cmd* entry points of   *)
(* dispatch.cpp): the depth pre-pass and clear-attachments heuristics, the *)
(* count of small indexed draws and the "same framebuffer twice" check.    *)
(* One command buffer is recorded over and over; every command is the      *)
(* whole handler.  What a handler reports is in "reports", the assertions  *)
(* it fails are in "failed"; a handler goes on after a failed assertion,   *)
(* as the release build does.  Reports that depend on one call's own       *)
(* arguments (formats, rectangles, flags) and on no state are left out;    *)
(* every message is enabled, and index buffers are scanned in place.       *)
(***************************************************************************)
EXTENDS Naturals, FiniteSets

CONSTANTS Pass,             \* [subpasses, aspects, loads]: subpass count, aspects
                            \* with an attachment, aspects loaded with LOAD_OP_LOAD
          Framebuffer,
          GraphicsPipeline, \* [depthOnly, depthEqual]
          Counts,           \* <<vertices or indices, instances>> of a draw
          Width,            \* bits of uint32_t
          depthPrePassMinVertices, depthPrePassMinIndices, depthPrePassNumDrawCalls,
          smallIndexedDrawcallIndices, maxSmallIndexedDrawcalls,
          indexBufferScanMinIndexCount,
          MaxCommands,      \* commands of a recording
          NoPass, NoFramebuffer, ComputePipeline, NoPipeline

Aspect == {"color", "depth", "stencil"}

ASSUME PassAssumption ==
    \A p \in Pass : /\ p.subpasses \in Nat \ {0}
                    /\ p.aspects \subseteq Aspect /\ p.loads \subseteq p.aspects
ASSUME BoundAssumption == MaxCommands \in Nat /\ Width \in Nat
ASSUME LimitAssumption ==       \* they are of type uint32_t
    /\ depthPrePassNumDrawCalls \in Nat /\ maxSmallIndexedDrawcalls \in Nat
    /\ smallIndexedDrawcallIndices \in Nat
ASSUME CountAssumption ==       \* as are the counts, whose products wrap around
    /\ \A c \in Counts : c[1] \in Nat /\ c[2] \in Nat
    /\ 2 ^ Width \in Nat \ {0}
ASSUME NoPassAssumption == NoPass \notin Pass

VARIABLES recording,  \* between vkBeginCommandBuffer and vkEndCommandBuffer
          commands,   \* commands of this recording
          secondary,  \* set when the command buffer is allocated
          cb,         \* currentRenderPass, currentSubpassIndex, lastFB, smallIndexedDrawcallCount
          pipeline,   \* CommandBuffer::pipeline: the last one bound to any bind point
          bound,      \* the graphics pipeline the driver draws with
          prePass,    \* DepthPrePassHeuristic: state, numDrawCallsDepthOnly, numDrawCallsDepthEqual
          clears,     \* ClearAttachmentsHeuristic: renderPassInfo, currentSubpass, hasSeenDrawCall
          reports,    \* message codes the last call reported
          failed      \* assertions the last call failed

vars == <<recording, commands, secondary, cb, pipeline, bound, prePass, clears, reports, failed>>

---------------------------------------------------------------------------
(* What is known of a recording before its first command.                  *)
EmptyRecording == [renderPass |-> NoPass, subpass |-> 0, lastFB |-> NoFramebuffer, smallDraws |-> 0]
NoDraws == [state |-> {}, depthOnly |-> 0, depthEqual |-> 0]
NothingDrawn == [renderPassInfo |-> NoPass, subpass |-> 0, hasSeenDrawCall |-> FALSE]

Init ==
    /\ recording = FALSE /\ commands = 0
    /\ secondary \in BOOLEAN
    /\ cb = EmptyRecording
    /\ pipeline = NoPipeline /\ bound = NoPipeline
    /\ prePass = NoDraws /\ clears = NothingDrawn
    /\ reports = {} /\ failed = {}

InPass == cb.renderPass # NoPass

(* CommandBuffer::reset, when a command buffer is begun.                   *)
Mut_Reset == [EmptyRecording EXCEPT !.lastFB = cb.lastFB]
Reset == EmptyRecording

(* A command of the recording: what the application may record next.       *)
Command ==
    /\ recording /\ commands < MaxCommands
    /\ commands' = commands + 1
    /\ UNCHANGED <<recording, secondary>>

Asserted(name, holds) == IF holds THEN {} ELSE {name}
Reported(code, when) == IF when THEN {code} ELSE {}

(* vkBeginCommandBuffer, also of a recording abandoned by vkResetCommandBuffer *)
(* or vkResetCommandPool, which the layer does not see.  A secondary may     *)
(* continue a render pass, naming its framebuffer or leaving it null.        *)
(* The handler tests VK_COMMAND_BUFFER_USAGE_RENDER_PASS_CONTINUE_BIT and not *)
(* the level: a primary begun with the bit, which Vulkan ignores there, would *)
(* take a render pass from its inheritance info as well.  BeginContinue leaves *)
(* that out: the bit is set for secondaries alone.                           *)
BeginCommandBuffer ==
    /\ recording' = TRUE /\ commands' = 0
    /\ cb' = Reset
    /\ prePass' = NoDraws /\ clears' = NothingDrawn
    /\ bound' = NoPipeline
    /\ reports' = {} /\ failed' = {}
    /\ UNCHANGED <<secondary, pipeline>>

BeginContinue(p, s, fb) ==
    /\ secondary
    /\ recording' = TRUE /\ commands' = 0
    /\ cb' = [Reset EXCEPT !.renderPass = p, !.subpass = s, !.lastFB = fb]
    /\ clears' = [renderPassInfo |-> p, subpass |-> s, hasSeenDrawCall |-> FALSE]
    /\ prePass' = NoDraws
    /\ bound' = NoPipeline
    /\ reports' = {} /\ failed' = {}
    /\ UNCHANGED <<secondary, pipeline>>

EndCommandBuffer ==
    /\ recording /\ (InPass => secondary)
    /\ recording' = FALSE
    /\ reports' = {} /\ failed' = {}
    /\ UNCHANGED <<commands, secondary, cb, pipeline, bound, prePass, clears>>

---------------------------------------------------------------------------
Mut_BegunPrePass(p) ==
    [prePass EXCEPT !.state = {"INSIDE_RENDERPASS", "COLOR_ATTACHMENT", "DEPTH_ATTACHMENT"}]

(* DepthPrePassHeuristic::cmdBeginRenderPass: the counts start afresh.     *)
BegunPrePass(p) ==
    [state |-> {"INSIDE_RENDERPASS"}
               \union (IF "color" \in p.aspects THEN {"COLOR_ATTACHMENT"} ELSE {})
               \union (IF p.aspects \cap {"depth", "stencil"} # {} THEN {"DEPTH_ATTACHMENT"} ELSE {}),
     depthOnly |-> 0, depthEqual |-> 0]

Mut_BegunClears(p) == [clears EXCEPT !.renderPassInfo = p, !.subpass = 0]

(* ClearAttachmentsHeuristic::cmdBeginRenderPass, then cmdSetSubpass(0).   *)
BegunClears(p) == [renderPassInfo |-> p, subpass |-> 0, hasSeenDrawCall |-> FALSE]

(* TileReadbackHeuristic::cmdBeginRenderPass: some attachment is loaded.  All *)
(* attachments of the passes are used on tile.                             *)
Readback(p) == Reported("TILE_READBACK", p.loads # {})

CmdBeginRenderPass(p, fb) ==
    /\ Command /\ ~InPass /\ ~secondary
    /\ failed' = Asserted("not INSIDE_RENDERPASS", "INSIDE_RENDERPASS" \notin prePass.state)
    /\ prePass' = BegunPrePass(p)
    /\ clears' = BegunClears(p)
    /\ cb' = [cb EXCEPT !.renderPass = p, !.subpass = 0, !.lastFB = fb]
    /\ reports' = Readback(p) \union Reported("POTENTIAL_SUBPASS", cb.lastFB = fb)
    /\ UNCHANGED <<pipeline, bound>>

CmdNextSubpass ==
    /\ Command /\ InPass /\ ~secondary
    /\ cb.subpass + 1 < cb.renderPass.subpasses
    /\ cb' = [cb EXCEPT !.subpass = @ + 1]
    /\ clears' = [clears EXCEPT !.subpass = cb.subpass + 1]
    /\ reports' = {} /\ failed' = {}
    /\ UNCHANGED <<pipeline, bound, prePass>>

(* DepthPrePassHeuristic::cmdEndRenderPass clears INSIDE_RENDERPASS.       *)
EndedPrePass == [prePass EXCEPT !.state = @ \ {"INSIDE_RENDERPASS"}]

CmdEndRenderPass ==
    /\ Command /\ InPass /\ ~secondary
    /\ cb.subpass + 1 = cb.renderPass.subpasses
    /\ failed' = Asserted("INSIDE_RENDERPASS", "INSIDE_RENDERPASS" \in prePass.state)
    /\ prePass' = EndedPrePass
    /\ reports' = Reported("DEPTH_PRE_PASS",
                           /\ {"COLOR_ATTACHMENT", "DEPTH_ATTACHMENT"} \subseteq prePass.state
                           /\ prePass.depthOnly >= depthPrePassNumDrawCalls
                           /\ prePass.depthEqual >= depthPrePassNumDrawCalls)
    /\ cb' = [cb EXCEPT !.renderPass = NoPass, !.subpass = 0]
    /\ UNCHANGED <<pipeline, bound, clears>>

(* A pipeline bound to the compute bind point resets the pre-pass heuristic *)
(* and replaces CommandBuffer::pipeline, not the graphics pipeline.         *)
BindGraphics(p) ==
    /\ Command
    /\ pipeline' = p /\ bound' = p
    /\ prePass' = [prePass EXCEPT !.state =
                      (@ \ {"DEPTH_ONLY", "DEPTH_EQUAL_TEST"})
                      \union (IF p.depthOnly THEN {"DEPTH_ONLY"} ELSE {})
                      \union (IF p.depthEqual THEN {"DEPTH_EQUAL_TEST"} ELSE {})]
    /\ reports' = {} /\ failed' = {}
    /\ UNCHANGED <<cb, clears>>

BindCompute ==
    /\ Command
    /\ pipeline' = ComputePipeline
    /\ prePass' = NoDraws
    /\ reports' = {} /\ failed' = {}
    /\ UNCHANGED <<cb, bound, clears>>

---------------------------------------------------------------------------
(* uint32_t products wrap around.                                          *)
Product(c) == (c[1] * c[2]) % 2 ^ Width

(* DepthPrePassHeuristic::cmdDraw and cmdDrawIndexed.                      *)
DrawnPrePass(c, least) ==
    IF Product(c) < least THEN prePass
    ELSE [prePass EXCEPT
             !.depthOnly = IF "DEPTH_ONLY" \in prePass.state THEN @ + 1 ELSE @,
             !.depthEqual = IF "DEPTH_EQUAL_TEST" \in prePass.state THEN @ + 1 ELSE @]

CanDraw == Command /\ InPass /\ bound # NoPipeline

CmdDraw(c) ==
    /\ CanDraw
    /\ prePass' = DrawnPrePass(c, depthPrePassMinVertices)
    /\ clears' = [clears EXCEPT !.hasSeenDrawCall = TRUE]
    /\ reports' = {} /\ failed' = {}
    /\ UNCHANGED <<cb, pipeline, bound>>

Mut_ReachesLimit(n) == n > cb.smallDraws /\ n >= maxSmallIndexedDrawcalls

(* CommandBuffer::drawIndexed: the warning comes when the count reaches its *)
(* limit, once; an index buffer long enough is scanned, and the scan asks   *)
(* the last pipeline bound for its graphics create info.                    *)
SmallDraws(c) == cb.smallDraws + (IF Product(c) <= smallIndexedDrawcallIndices THEN 1 ELSE 0)
ReachesLimit(n) == n > cb.smallDraws /\ n = maxSmallIndexedDrawcalls

CmdDrawIndexed(c) ==
    /\ CanDraw
    /\ prePass' = DrawnPrePass(c, depthPrePassMinIndices)
    /\ clears' = [clears EXCEPT !.hasSeenDrawCall = TRUE]
    /\ cb' = [cb EXCEPT !.smallDraws = SmallDraws(c)]
    /\ reports' = Reported("MANY_SMALL_INDEXED_DRAWCALLS", ReachesLimit(SmallDraws(c)))
    /\ failed' = Asserted("Type::Graphics",
                          c[1] >= indexBufferScanMinIndexCount => pipeline \in GraphicsPipeline)
    /\ UNCHANGED <<pipeline, bound>>

(* vkCmdDrawIndirect and vkCmdDrawIndexedIndirect do not tell the heuristics. *)
CmdDrawIndirect ==
    /\ CanDraw
    /\ reports' = {} /\ failed' = {}
    /\ UNCHANGED <<cb, pipeline, bound, prePass, clears>>

(* vkCmdClearAttachments of the aspects in A, empty when no pixel is       *)
(* covered.  A loaded color attachment may be reported twice.              *)
ClearReports(A) ==
    LET here == A \cap clears.renderPassInfo.aspects
        loaded == here \cap clears.renderPassInfo.loads
        first == ~clears.hasSeenDrawCall /\ clears.subpass = 0
    IN  Reported("CLEAR_ATTACHMENTS_AFTER_LOAD", loaded # {})
        \union Reported("CLEAR_ATTACHMENTS_NO_DRAW_CALL",
                        first /\ here \ (loaded \ {"color"}) # {})

CmdClearAttachments(A, empty) ==
    /\ Command /\ InPass
    /\ failed' = Asserted("fb", cb.lastFB # NoFramebuffer)
    /\ reports' = IF empty THEN {} ELSE ClearReports(A)
    /\ UNCHANGED <<cb, pipeline, bound, prePass, clears>>

Next ==
    \/ BeginCommandBuffer
    \/ \E p \in Pass : \E s \in 0..(p.subpasses - 1), fb \in Framebuffer \union {NoFramebuffer} :
           BeginContinue(p, s, fb)
    \/ EndCommandBuffer
    \/ \E p \in Pass, fb \in Framebuffer : CmdBeginRenderPass(p, fb)
    \/ CmdNextSubpass
    \/ CmdEndRenderPass
    \/ \E p \in GraphicsPipeline : BindGraphics(p)
    \/ BindCompute
    \/ \E c \in Counts : CmdDraw(c) \/ CmdDrawIndexed(c)
    \/ CmdDrawIndirect
    \/ \E A \in (SUBSET Aspect) \ {{}}, empty \in BOOLEAN : CmdClearAttachments(A, empty)

Spec == Init /\ [][Next]_vars
=============================================================================
