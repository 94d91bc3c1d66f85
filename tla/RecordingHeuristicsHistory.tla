--------------------- MODULE RecordingHeuristicsHistory ---------------------
(***************************************************************************)
(* What was recorded, kept beside RecordingHeuristics, and what the        *)
(* reports have to do with it.                                             *)
(***************************************************************************)
EXTENDS RecordingHeuristics

VARIABLES drawn,       \* kinds of draws since the render pass, or the secondary, began:
                       \* "direct", "indirect"
          depthOnly,   \* direct draws of the pass that wrote depth alone
          depthEqual,  \* direct draws of the pass that tested depth for equality
          below,       \* indexed draws of the recording of less than
                       \* smallIndexedDrawcallIndices indices over all instances
          atOrWrapped, \* those of exactly as many, and those of more whose product wraps
                       \* around to at most as many
          smallWarned, \* warnings of many small draws in the recording
          lastPass,    \* framebuffer of the last render pass of the recording
          clear        \* the last call, when it was a clear that covers pixels: its aspects

ghosts == <<drawn, depthOnly, depthEqual, below, atOrWrapped, smallWarned, lastPass, clear>>
allVars == <<vars, ghosts>>

HistoryInit ==
    /\ Init
    /\ drawn = {} /\ depthOnly = 0 /\ depthEqual = 0
    /\ below = 0 /\ atOrWrapped = 0 /\ smallWarned = 0
    /\ lastPass = NoFramebuffer /\ clear = {}

PassStarts == drawn' = {} /\ depthOnly' = 0 /\ depthEqual' = 0
SamePass == UNCHANGED <<drawn, depthOnly, depthEqual>>
SameSmall == UNCHANGED <<below, atOrWrapped, smallWarned>>
RecordingStarts ==
    /\ below' = 0 /\ atOrWrapped' = 0 /\ smallWarned' = 0
    /\ lastPass' = NoFramebuffer

Drew ==
    /\ drawn' = drawn \union {"direct"}
    /\ depthOnly' = depthOnly + (IF bound.depthOnly THEN 1 ELSE 0)
    /\ depthEqual' = depthEqual + (IF bound.depthEqual THEN 1 ELSE 0)

One(b) == IF b THEN 1 ELSE 0

Below(c) == c[1] * c[2] < smallIndexedDrawcallIndices
AtOrWrapped(c) == ~ Below(c) /\ (c[1] * c[2]) % 2 ^ Width <= smallIndexedDrawcallIndices

HistoryBegin ==
    /\ \/ BeginCommandBuffer
       \/ \E p \in Pass : \E s \in 0..(p.subpasses - 1), fb \in Framebuffer \union {NoFramebuffer} :
              BeginContinue(p, s, fb)
    /\ PassStarts /\ RecordingStarts /\ clear' = {}

HistoryBeginPass(p, fb) ==
    /\ CmdBeginRenderPass(p, fb)
    /\ PassStarts /\ SameSmall /\ lastPass' = fb /\ clear' = {}

HistoryDraw(c) ==
    /\ CmdDraw(c) /\ Drew
    /\ SameSmall /\ clear' = {} /\ UNCHANGED lastPass

HistoryDrawIndexed(c) ==
    /\ CmdDrawIndexed(c) /\ Drew
    /\ below' = below + One(Below(c))
    /\ atOrWrapped' = atOrWrapped + One(AtOrWrapped(c))
    /\ smallWarned' = smallWarned + One("MANY_SMALL_INDEXED_DRAWCALLS" \in reports')
    /\ clear' = {} /\ UNCHANGED lastPass

HistoryDrawIndirect ==
    /\ CmdDrawIndirect
    /\ drawn' = drawn \union {"indirect"}
    /\ SameSmall /\ clear' = {} /\ UNCHANGED <<depthOnly, depthEqual, lastPass>>

HistoryClear(A, empty) ==
    /\ CmdClearAttachments(A, empty)
    /\ clear' = IF empty THEN {} ELSE A
    /\ SamePass /\ SameSmall /\ UNCHANGED lastPass

HistoryOther ==
    /\ \/ EndCommandBuffer \/ CmdNextSubpass \/ CmdEndRenderPass \/ BindCompute
       \/ \E p \in GraphicsPipeline : BindGraphics(p)
    /\ SamePass /\ SameSmall /\ clear' = {} /\ UNCHANGED lastPass

HistoryNext ==
    \/ HistoryBegin \/ HistoryDrawIndirect \/ HistoryOther
    \/ \E p \in Pass, fb \in Framebuffer : HistoryBeginPass(p, fb)
    \/ \E c \in Counts : HistoryDraw(c) \/ HistoryDrawIndexed(c)
    \/ \E A \in (SUBSET Aspect) \ {{}}, empty \in BOOLEAN : HistoryClear(A, empty)

HistorySpec == HistoryInit /\ [][HistoryNext]_allVars

---------------------------------------------------------------------------
(* A depth pre-pass is reported only at the end of a pass in which enough  *)
(* draws wrote depth alone and enough tested it for equality, whatever     *)
(* pipelines were bound before, between and after, and however counts      *)
(* wrapped: nothing is carried over from another pass or recording.        *)
PrePassReportsAreTrue ==
    "DEPTH_PRE_PASS" \in reports =>
        depthOnly >= depthPrePassNumDrawCalls /\ depthEqual >= depthPrePassNumDrawCalls

(* A clear of an attachment that was not loaded, in the first subpass, is  *)
(* reported as made before any draw exactly when the render pass has seen  *)
(* no direct draw, across reused command buffers and earlier passes.       *)
ClearsBeforeDrawsReported ==
    LET cleared == clear \cap (cb.renderPass.aspects \ cb.renderPass.loads)
    IN  InPass /\ cb.subpass = 0 /\ cleared # {} =>
            ("CLEAR_ATTACHMENTS_NO_DRAW_CALL" \in reports <=> "direct" \notin drawn)

(* The potential-subpass report names two render passes of one framebuffer *)
(* that follow one another in one recording; see CmdBeginRenderPass.       *)
SubpassReportsAreTrue ==
    [][\A p \in Pass, fb \in Framebuffer :
          CmdBeginRenderPass(p, fb) =>
              ("POTENTIAL_SUBPASS" \in reports' <=> lastPass = fb)]_allVars

(* Many small draws are reported once in a recording, from the draw that   *)
(* reaches the limit on, however often the command buffer is recorded.     *)
(* The layer counts draws of at most smallIndexedDrawcallIndices indices,  *)
(* by a product that wraps around: those at the limit and those that wrap  *)
(* count as well, though the message speaks of "less than" that many (see  *)
(* SmallReportsAreTrue).                                                   *)
SmallDrawsReportedOnce ==
    smallWarned = One(/\ maxSmallIndexedDrawcalls > 0
                      /\ below + atOrWrapped >= maxSmallIndexedDrawcalls)

(* No render pass begins while the pre-pass heuristic takes itself to be   *)
(* inside one: the assertion of DepthPrePassHeuristic::cmdBeginRenderPass. *)
BeginsOutsidePass == "not INSIDE_RENDERPASS" \notin failed

---------------------------------------------------------------------------
(* heuristic.cpp reports a clear "before any draw call was submitted":     *)
(* then no draw call, indirect ones among them, came before it.            *)
NoDrawReportsAreTrue ==
    "CLEAR_ATTACHMENTS_NO_DRAW_CALL" \in reports => drawn = {}

(* The warning speaks of "at least %u drawcalls with less than %u indices  *)
(* each": so many of the draws really have less.                           *)
SmallReportsAreTrue ==
    "MANY_SMALL_INDEXED_DRAWCALLS" \in reports => below >= maxSmallIndexedDrawcalls

(* The assertion of DepthPrePassHeuristic::cmdEndRenderPass: a render pass *)
(* that ends was begun.                                                    *)
EndsInsidePass == "INSIDE_RENDERPASS" \notin failed

(* The assertion of Pipeline::getGraphicsCreateInfo, called by drawIndexed: *)
(* an indexed draw reads the graphics pipeline it draws with.              *)
ScansGraphicsPipeline == "Type::Graphics" \notin failed

(* The assertion of CmdClearAttachments: the framebuffer it measures the   *)
(* cleared rectangles against is known.                                    *)
ClearsKnownFramebuffer == "fb" \notin failed
=============================================================================
