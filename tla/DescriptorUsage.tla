--------------------------- MODULE DescriptorUsage --------------------------
(***************************************************************************)
(* How a command buffer tells images what they are used for.               *)
(*                                                                         *)
(* Descriptor sets are signalled lazily: binding a set marks its slot      *)
(* dirty, and the first draw or dispatch whose pipeline layout reaches the *)
(* slot enqueues a function that signals the set, and clears the mark.     *)
(* Copies, clears and render passes enqueue theirs at once.  All functions *)
(* are called when the buffer is submitted; one that signals a set uses    *)
(* the image views written to the set by then.                             *)
(*                                                                         *)
(* One image and one command buffer, which is submitted once and then      *)
(* begun again.                                                            *)
(***************************************************************************)
EXTENDS ImageUsage

CONSTANTS
    Sets, NoSet,    \* descriptor sets
    Views, NoView,  \* image views of the image
    ViewRange,      \* ViewRange[v]: createInfo.subresourceRange
    Bindings,       \* bindings of the sets' layout
    bindingType,    \* "sampled", "storage" or "other"
    arraySize,      \* descriptors in each binding
    formatUncompressed,     \* the views have one of the formats UpdateDescriptorSets lists
    usageRenderTarget,      \* the image was created to be written by shaders or passes
    slots,          \* limits.maxBoundDescriptorSets
    LayoutSizes,    \* LayoutSizes[p]: numbers of sets in the pipeline layouts of a bind point
    Attachments,    \* the attachment of each render pass
    CopyRanges,     \* VkImageSubresourceLayers of copies
    ClearRanges,    \* VkImageSubresourceRange of vkCmdClear*Image
    MaxSignals      \* bound: functions enqueued in all recordings together

ASSUME SetAssumption ==
    /\ NoSet \notin Sets /\ NoView \notin Views
    /\ bindingType \in [Bindings -> {"sampled", "storage", "other"}]
    /\ arraySize \in [Bindings -> Nat]
    /\ formatUncompressed \in BOOLEAN /\ usageRenderTarget \in BOOLEAN
Slot == 0 .. slots - 1
BindPoint == {"graphics", "compute"}

ASSUME SlotAssumption ==
    /\ slots \in Nat /\ MaxSignals \in Nat
    /\ LayoutSizes \in [BindPoint -> SUBSET (0 .. slots)]

\* What valid usage names: a range begins inside the image, and may be said to end
\* beyond it (VK_REMAINING_ARRAY_LAYERS, VK_REMAINING_MIP_LEVELS).
SubresourceLayers ==
    [baseArrayLayer : 0 .. arrayLayers - 1, layerCount : Nat \ {0},
     mipLevel : 0 .. mipLevels - 1]
SubresourceRange ==
    [baseArrayLayer : 0 .. arrayLayers - 1, layerCount : Nat \ {0},
     baseMipLevel : 0 .. mipLevels - 1, levelCount : Nat \ {0}]

ASSUME RangeAssumption ==
    /\ ViewRange \in [Views -> SubresourceRange]
    /\ ClearRanges \subseteq SubresourceRange
    /\ CopyRanges \subseteq SubresourceLayers
    /\ \A att \in Attachments :
           att.range \in SubresourceRange /\ att.on \in {"unused", "inputOnly", "tile"}

VARIABLES
    views,      \* BindingData::views of each binding of each set
    bound,      \* graphicsDescriptorSets and computeDescriptorSets
    layout,     \* sets in graphicsLayout and computeLayout, -1 for no layout
    pass,       \* the attachment of the current render pass, as a set
    deferred,   \* the enqueued functions
    replaying,  \* QueueSubmit is calling them
    signals     \* how many functions were ever enqueued

commandVars == <<views, bound, layout, pass, deferred, replaying, signals>>
usageVars == <<imageVars, commandVars>>

Reset ==
    /\ bound' = [p \in BindPoint |-> [i \in Slot |-> [set |-> NoSet, dirty |-> TRUE]]]
    /\ layout' = [p \in BindPoint |-> -1]

UsageInit ==
    /\ ImageInit
    /\ views = [d \in Sets |-> [b \in Bindings |-> [i \in 1 .. arraySize[b] |-> NoView]]]
    /\ bound = [p \in BindPoint |-> [i \in Slot |-> [set |-> NoSet, dirty |-> TRUE]]]
    /\ layout = [p \in BindPoint |-> -1]
    /\ pass = {}
    /\ deferred = <<>>
    /\ replaying = FALSE
    /\ signals = 0

-----------------------------------------------------------------------------

Enqueue(functions) ==
    /\ ~ replaying
    /\ signals + Len(functions) <= MaxSignals
    /\ signals' = signals + Len(functions)
    /\ deferred' = deferred \o functions

Mut_Bound(point, slot, set) == [set |-> set, dirty |-> bound[point][slot].dirty]

\* A slot that is bound again, even to the set it holds, is dirty again.
Bound(point, slot, set) == [set |-> set, dirty |-> TRUE]

bindDescriptorSets(point, slot, set) ==
    /\ ~ replaying
    /\ bound' = [bound EXCEPT ![point][slot] = Bound(point, slot, set)]
    /\ UNCHANGED <<imageVars, views, layout, pass, deferred, replaying, signals>>

bindPipeline(point, numSets) ==
    /\ ~ replaying
    /\ layout' = [layout EXCEPT ![point] = numSets]
    /\ UNCHANGED <<imageVars, views, bound, pass, deferred, replaying, signals>>

\* The slots the current layout has.
Signalled(point) == {i \in Slot : i < layout[point]}

\* The functions that signal the sets of dirty slots, in the order of the slots.
DirtySets(point) ==
    LET dirty == {i \in Signalled(point) : bound[point][i].dirty /\ bound[point][i].set # NoSet}
        upTo[n \in 0 .. slots] ==
            IF n = 0 THEN <<>>
            ELSE upTo[n - 1] \o
                     (IF n - 1 \in dirty THEN <<[set |-> bound[point][n - 1].set]>> ELSE <<>>)
    IN  upTo[slots]

\* enqueueGraphicsDescriptorSetUsage and enqueueComputeDescriptorSetUsage.
enqueueDescriptorSetUsage(point) ==
    /\ layout[point] # -1
    /\ Enqueue(DirtySets(point))
    /\ bound' = [bound EXCEPT ![point] = [i \in Slot |->
           IF i \in Signalled(point) THEN [@[i] EXCEPT !.dirty = FALSE] ELSE @[i]]]
    /\ UNCHANGED <<imageVars, views, layout, pass, replaying>>

CmdDraw == pass # {} /\ enqueueDescriptorSetUsage("graphics")

CmdDispatch == pass = {} /\ enqueueDescriptorSetUsage("compute")

CmdBeginRenderPass(att) ==
    /\ pass = {}
    /\ Enqueue(PassSignals(att))
    /\ pass' = {att}
    /\ UNCHANGED <<imageVars, views, bound, layout, replaying>>

CmdEndRenderPass ==
    /\ pass # {}
    /\ pass' = {}
    /\ UNCHANGED <<imageVars, views, bound, layout, deferred, replaying, signals>>

\* The image as source (ResourceRead) or destination (ResourceWrite) of a copy.
CmdCopy(range, usage) ==
    /\ pass = {}
    /\ Enqueue(<<Signal(OfLayers(range), usage)>>)
    /\ UNCHANGED <<imageVars, views, bound, layout, pass, replaying>>

CmdClearImage(range) ==
    /\ pass = {}
    /\ Enqueue(<<Signal(OfRange(range), "Cleared")>>)
    /\ UNCHANGED <<imageVars, views, bound, layout, pass, replaying>>

QueueSubmit ==
    /\ ~ replaying /\ pass = {} /\ deferred # <<>>
    /\ replaying' = TRUE
    /\ UNCHANGED <<imageVars, views, bound, layout, pass, deferred, signals>>

ViewsOf(d, type) ==
    (UNION {{views[d][b][i] : i \in 1 .. arraySize[b]} :
                b \in {c \in Bindings : bindingType[c] = type}}) \ {NoView}

\* What ImageView::signalUsage signals for some views.
Viewed(someViews) == UNION {OfRange(ViewRange[v]) : v \in someViews}

\* DescriptorSet::signalUsage: sampled bindings first, then storage images.  There
\* is no warning for either usage.
SignalSet(d) ==
    LET read == Viewed(ViewsOf(d, "sampled"))
        written == Viewed(ViewsOf(d, "storage"))
    IN  /\ lastUsage' = [s \in Subresource |->
               IF s \in written THEN "ResourceWrite"
               ELSE IF s \in read THEN "ResourceRead" ELSE lastUsage[s]]
        /\ usageFlags' = [s \in Subresource |->
               (IF s \in read THEN Flags(s, "ResourceRead") ELSE usageFlags[s])
                   \cup (IF s \in written THEN Flags(s, "ResourceWrite") ELSE {})]
        /\ reports' = {}

IsSet(function) == DOMAIN function = {"set"}

CallFunction ==
    /\ replaying /\ deferred # <<>>
    /\ IF IsSet(Head(deferred)) THEN SignalSet(Head(deferred).set)
       ELSE SignalUsage(Head(deferred).subresources, Head(deferred).usage)
    /\ deferred' = Tail(deferred)
    /\ UNCHANGED <<views, bound, layout, pass, replaying, signals>>

\* The submission is over and the buffer is begun again.
BeginCommandBuffer ==
    /\ replaying /\ deferred = <<>>
    /\ replaying' = FALSE
    /\ Reset
    /\ UNCHANGED <<imageVars, views, pass, deferred, signals>>

-----------------------------------------------------------------------------

\* A set that is bound or that a recorded command uses is not updated.
Updatable(d) ==
    /\ ~ replaying
    /\ \A p \in BindPoint : \A i \in Slot : bound[p][i].set # d
    /\ \A i \in DOMAIN deferred : deferred[i] # [set |-> d]

\* DescriptorSet::writeDescriptors: the views of infos, from an array element on.
\* Bindings of other types hold no views.
WriteDescriptors(d, b, element, infos) ==
    /\ Updatable(d)
    /\ element + Len(infos) - 1 <= arraySize[b]
    /\ views' = [views EXCEPT ![d][b] = [i \in 1 .. arraySize[b] |->
           IF i \in element .. element + Len(infos) - 1
           THEN IF bindingType[b] = "other" THEN NoView ELSE infos[i - element + 1]
           ELSE @[i]]]
    /\ UNCHANGED <<imageVars, bound, layout, pass, deferred, replaying, signals>>

\* DescriptorSet::copyDescriptors.  What src held is copied, element by element;
\* the copied elements do not overlap.
CopyDescriptors(src, srcBinding, from, dst, dstBinding, to, count) ==
    /\ Updatable(dst)
    /\ bindingType[srcBinding] = bindingType[dstBinding]
    /\ from + count - 1 <= arraySize[srcBinding] /\ to + count - 1 <= arraySize[dstBinding]
    /\ <<src, srcBinding>> = <<dst, dstBinding>> => to >= from + count \/ from >= to + count
    /\ views' = [views EXCEPT ![dst][dstBinding] = [i \in 1 .. arraySize[dstBinding] |->
           IF i \in to .. to + count - 1 THEN views[src][srcBinding][i - to + from] ELSE @[i]]]
    /\ UNCHANGED <<imageVars, bound, layout, pass, deferred, replaying, signals>>

\* The subresources whose usage flags UpdateDescriptorSets collects for a view: it
\* stops at layerCount and levelCount, which are no last layer and level.
Inspected(v) ==
    (ViewRange[v].baseArrayLayer .. ViewRange[v].layerCount - 1)
        \X (ViewRange[v].baseMipLevel .. ViewRange[v].levelCount - 1)

isRenderTarget(v) ==
    \E s \in Inspected(v) :
        usageFlags[s] \cap {"RenderPassCleared", "RenderPassDiscarded", "RenderPassReadToTile",
                            "RenderPassStored"} # {}

\* What UpdateDescriptorSets logs when a view is written as its first image.
TextureReports(v) ==
    IF isRenderTarget(v) \/ usageRenderTarget THEN {}
    ELSE (IF ViewRange[v].levelCount = 1 THEN {"NON_MIPMAPPED_TEXTURE_USED"} ELSE {})
             \cup (IF formatUncompressed THEN {"UNCOMPRESSED_TEXTURE_USED"} ELSE {})
=============================================================================
