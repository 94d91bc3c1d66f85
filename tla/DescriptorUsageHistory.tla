----------------------- MODULE DescriptorUsageHistory -----------------------
(***************************************************************************)
(* What the recorded commands do to the image, kept beside what the layer  *)
(* is told about it.  Commands execute in the order they are recorded, so  *)
(* the true last use of a subresource at every command is known while      *)
(* recording, and so is what a set will be when it is signalled: it is not *)
(* updated until then.                                                     *)
(***************************************************************************)
EXTENDS DescriptorUsage

VARIABLES
    actual,     \* actual[s]: what the last recorded command used s for
    stale,      \* the subresources whose last use was by a set and was not enqueued
    before,     \* for each enqueued function: what it covers, actual and stale before it
    lastCall,   \* the function last called, with its entry of before
    rendered,   \* the subresources submitted render passes have rendered to
    signalled,  \* signalled[p]: slots for whose set a function was enqueued since they were bound
    missed      \* <<p, i>>: slots a draw or dispatch has used without such a function

history == <<actual, stale, before, lastCall, rendered, signalled, missed>>
allVars == <<usageVars, history>>

\* The subresources a range names.
InLayers(range, s) ==
    s[1] >= range.baseArrayLayer /\ s[1] < range.baseArrayLayer + range.layerCount

Covers(range) ==
    {s \in Subresource :
        /\ InLayers(range, s)
        /\ s[2] >= range.baseMipLevel
        /\ s[2] < range.baseMipLevel + range.levelCount}

CoversLayers(range) == {s \in Subresource : InLayers(range, s) /\ s[2] = range.mipLevel}

Use(subresources, usage) == [subresources |-> subresources, usage |-> usage]

Before(covers, now, unseen) == [covers |-> covers, actual |-> now, stale |-> unseen]

After(now, use) == [s \in Subresource |-> IF s \in use.subresources THEN use.usage ELSE now[s]]

\* A command that puts the image to one use, and tells the layer.
Uses(use) ==
    /\ actual' = After(actual, use)
    /\ stale' = stale \ use.subresources
    /\ before' = Append(before, Before(use.subresources, actual, stale))
    /\ UNCHANGED <<lastCall, rendered, signalled, missed>>

UsesTwice(first, second) ==
    /\ actual' = After(After(actual, first), second)
    /\ stale' = stale \ (first.subresources \cup second.subresources)
    /\ before' = before \o
           <<Before(first.subresources, actual, stale),
             Before(second.subresources, After(actual, first), stale \ first.subresources)>>
    /\ UNCHANGED <<lastCall, rendered, signalled, missed>>

\* A draw or dispatch uses every set its layout reaches, whether or not the
\* layer enqueues anything for it.
SlotsInUse(point) == {i \in Slot : i < layout[point] /\ bound[point][i].set # NoSet}

SetsInUse(point) == {bound[point][i].set : i \in SlotsInUse(point)}

CoversViews(someViews) == UNION {Covers(ViewRange[v]) : v \in someViews}

Accesses(d, type) == CoversViews(ViewsOf(d, type))

AccessedBy(someSets) == UNION {Accesses(d, "sampled") \cup Accesses(d, "storage") : d \in someSets}

Enqueued == {deferred'[i].set : i \in Len(deferred) + 1 .. Len(deferred')}

UsesSets(point) ==
    LET inUse == SetsInUse(point)
        written == UNION {Accesses(d, "storage") : d \in inUse}
    IN  /\ \A att \in pass : att.on = "unused" \/ AccessedBy(inUse) \cap Covers(att.range) = {}
        /\ actual' = [s \in Subresource |->
               IF s \in written THEN "ResourceWrite"
               ELSE IF s \in AccessedBy(inUse) THEN "ResourceRead" ELSE actual[s]]
        /\ before' = before \o [i \in 1 .. Len(deferred') - Len(deferred) |->
               Before(AccessedBy(Enqueued), actual, stale)]
        /\ stale' = (stale \cup AccessedBy(inUse)) \ AccessedBy(Enqueued)
        /\ signalled' = [signalled EXCEPT ![point] =
               @ \cup {i \in Slot : bound[point][i].set \in Enqueued}]
        /\ missed' = missed \cup ({point} \X (SlotsInUse(point) \ signalled'[point]))
        /\ UNCHANGED <<lastCall, rendered>>

NoCall == [usage |-> "Undefined", before |-> Before({}, [s \in Subresource |-> "Undefined"], {})]

HistoryInit ==
    /\ UsageInit
    /\ actual = lastUsage
    /\ stale = {}
    /\ before = <<>>
    /\ lastCall = NoCall
    /\ rendered = {}
    /\ signalled = [p \in BindPoint |-> {}]
    /\ missed = {}

UpdateDescriptorSets ==
    \/ \E d \in Sets, b \in Bindings : \E element \in 1 .. arraySize[b] :
           \E infos \in UNION {[1 .. n -> Views] : n \in 1 .. arraySize[b]} :
               WriteDescriptors(d, b, element, infos)
    \/ \E src \in Sets, dst \in Sets, b \in Bindings, c \in Bindings :
           \E from \in 1 .. arraySize[b], to \in 1 .. arraySize[c], count \in 1 .. arraySize[c] :
               CopyDescriptors(src, b, from, dst, c, to, count)

UsageOf(function) == IF IsSet(function) THEN "Undefined" ELSE function.usage

HistoryNext ==
    \/ \E point \in BindPoint, slot \in Slot, set \in Sets :
           /\ bindDescriptorSets(point, slot, set)
           /\ signalled' = [signalled EXCEPT ![point] = @ \ {slot}]
           /\ UNCHANGED <<actual, stale, before, lastCall, rendered, missed>>
    \/ \E point \in BindPoint : \E numSets \in LayoutSizes[point] :
           bindPipeline(point, numSets) /\ UNCHANGED history
    \/ CmdDraw /\ UsesSets("graphics")
    \/ CmdDispatch /\ UsesSets("compute")
    \/ \E att \in Attachments :
           /\ CmdBeginRenderPass(att)
           /\ \/ att.on = "unused" /\ UNCHANGED history
              \/ /\ att.on = "inputOnly"
                 /\ Uses(Use(Covers(att.range), "ResourceRead"))
              \/ /\ att.on = "tile"
                 /\ UsesTwice(Use(Covers(att.range), LoadUsage(att)),
                              Use(Covers(att.range), StoreUsage(att)))
    \/ CmdEndRenderPass /\ UNCHANGED history
    \/ \E range \in CopyRanges, usage \in {"ResourceRead", "ResourceWrite"} :
           CmdCopy(range, usage) /\ Uses(Use(CoversLayers(range), usage))
    \/ \E range \in ClearRanges :
           CmdClearImage(range) /\ Uses(Use(Covers(range), "Cleared"))
    \/ UpdateDescriptorSets /\ UNCHANGED history
    \/ QueueSubmit /\ UNCHANGED history
    \/ /\ CallFunction
       /\ lastCall' = [usage |-> UsageOf(Head(deferred)), before |-> Head(before)]
       /\ before' = Tail(before)
       /\ rendered' = rendered \cup
              (IF UsageOf(Head(deferred)) \in {"RenderPassStored", "RenderPassDiscarded"}
               THEN Head(before).covers ELSE {})
       /\ UNCHANGED <<actual, stale, signalled, missed>>
    \/ /\ BeginCommandBuffer
       /\ signalled' = [p \in BindPoint |-> {}]
       /\ UNCHANGED <<actual, stale, before, lastCall, rendered, missed>>

HistorySpec == HistoryInit /\ [][HistoryNext]_allVars

-----------------------------------------------------------------------------

\* image.cpp, signalUsage: the warnings say what happened to the subresource "last
\* time image was used".  Every subresource they name is really used now, and was
\* really last used that way.  The exception is a use by a descriptor set that stayed
\* bound since it was signalled: enqueueGraphicsDescriptorSetUsage enqueues nothing
\* for it, and the warning is about the use before.
WarningsAreTrue ==
    \A r \in reports :
        /\ r.at \in lastCall.before.covers
        /\ \/ Warning(lastCall.before.actual[r.at], lastCall.usage) = r.code
           \/ r.at \in lastCall.before.stale

\* Image::signalUsage misses no redundant store: whenever a render pass clears a
\* subresource of an ordinary image that was really last used by storing to it,
\* the warning is logged, however many lazily signalled sets are bound.
RedundantStoresReported ==
    lastCall.usage = "RenderPassCleared" /\ ~ swapchainImage =>
        \A s \in lastCall.before.covers :
            lastCall.before.actual[s] = "RenderPassStored" =>
                [code |-> "REDUNDANT_RENDERPASS_STORE", at |-> s] \in reports

\* config.hpp: a texture is reported as neither mipmapped nor compressed when it "is
\* not a render target".  Whatever was copied to, cleared or read since, no view of
\* the first layers and levels is reported once a submitted render pass has rendered
\* to it (UpdateDescriptorSets).  Views that start further on may be: the handler
\* takes layerCount and levelCount for the end of their range.
RenderTargetsNotReported ==
    \A v \in Views :
        /\ ViewRange[v].baseArrayLayer = 0 /\ ViewRange[v].baseMipLevel = 0
        /\ Covers(ViewRange[v]) \cap rendered # {}
        => TextureReports(v) = {}

\* UpdateDescriptorSets asks Image::getUsageFlags only for subresources the image
\* has; getUsageFlags asserts it.  It does not hold of views that leave their number
\* of layers open (VK_REMAINING_ARRAY_LAYERS), and no run claims it.
InspectsTheImage == \A v \in Views : Inspected(v) \subseteq Subresource

\* No draw or dispatch uses a bound set without the image being told: of every set
\* that one uses, in whatever slot and under whatever layouts, the buffer has
\* enqueued a function that signals it since it was bound there, however often it is
\* bound again (CommandBuffer::enqueueGraphicsDescriptorSetUsage and its twin).
BoundSetsSignalled == missed = {}
=============================================================================
