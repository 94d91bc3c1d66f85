----------------------------- MODULE ImageUsage -----------------------------
(***************************************************************************)
(* The usage every subresource of an image was last put to: layer/image.   *)
(* {hpp,cpp}, and the usages a render pass puts its attachments to         *)
(* (CommandBuffer::enqueueRenderPassLoadOps and StoreOps).                 *)
(***************************************************************************)
EXTENDS Integers, Sequences, FiniteSets

CONSTANTS
    arrayLayers, mipLevels,     \* createInfo of the image
    swapchainImage              \* Image::swapchainImage

ASSUME ImageAssumption ==
    /\ arrayLayers \in Nat \ {0}
    /\ mipLevels \in Nat \ {0}
    /\ swapchainImage \in BOOLEAN

VARIABLES
    lastUsage,      \* MipLevel::lastUsage, by subresource
    usageFlags,     \* MipLevel::usageFlags
    reports         \* the warnings the last signalUsage logged

imageVars == <<lastUsage, usageFlags, reports>>

Subresource == (0 .. arrayLayers - 1) \X (0 .. mipLevels - 1)

Usages == {"Undefined", "RenderPassCleared", "RenderPassReadToTile", "Cleared",
           "ResourceRead", "ResourceWrite", "RenderPassStored", "RenderPassDiscarded"}

ImageInit ==
    /\ lastUsage = [s \in Subresource |-> "Undefined"]
    /\ usageFlags = [s \in Subresource |-> {}]
    /\ reports = {}

-----------------------------------------------------------------------------

Smaller(a, b) == IF a < b THEN a ELSE b

Mut_Layers(range) == 0 .. Smaller(range.layerCount, arrayLayers) - 1

Layers(range) ==
    range.baseArrayLayer ..
        range.baseArrayLayer + Smaller(range.layerCount, arrayLayers - range.baseArrayLayer) - 1

\* signalUsage(VkImageSubresourceRange): levelCount is not looked at.
OfRange(range) ==
    LET levels == Smaller(mipLevels, mipLevels - range.baseMipLevel)
    IN  Layers(range) \X (range.baseMipLevel .. range.baseMipLevel + levels - 1)

\* signalUsage(VkImageSubresourceLayers).
OfLayers(range) == Layers(range) \X {range.mipLevel}

Mut_Warning(old, usage) ==
    IF usage = "RenderPassCleared" /\ old = "RenderPassStored" /\ swapchainImage
    THEN "REDUNDANT_RENDERPASS_STORE" ELSE "none"

\* The warning for putting a subresource last used as old to a new usage.
Warning(old, usage) ==
    CASE usage = "RenderPassCleared" /\ old = "RenderPassStored" /\ ~ swapchainImage ->
            "REDUNDANT_RENDERPASS_STORE"
      [] usage = "RenderPassCleared" /\ old = "Cleared" -> "REDUNDANT_IMAGE_CLEAR"
      [] usage = "RenderPassReadToTile" /\ old = "Cleared" -> "INEFFICIENT_CLEAR"
      [] OTHER -> "none"

Mut_LastFlag(s, usage) == {usage} \ {"Undefined"}

\* usageFlags |= usage; Undefined is the empty flag.
Flags(s, usage) == usageFlags[s] \cup ({usage} \ {"Undefined"})

SignalUsage(subresources, usage) ==
    /\ lastUsage' = [s \in Subresource |-> IF s \in subresources THEN usage ELSE lastUsage[s]]
    /\ usageFlags' = [s \in Subresource |->
           IF s \in subresources THEN Flags(s, usage) ELSE usageFlags[s]]
    /\ reports' = {r \in {[code |-> Warning(lastUsage[s], usage), at |-> s] : s \in subresources} :
                       r.code # "none"}

-----------------------------------------------------------------------------
(***************************************************************************)
(* Attachments.  aspect is "color" (depth-only formats included),          *)
(* "stencil" or "depthStencil"; on says how the pass uses the attachment.  *)
(***************************************************************************)

\* What one of the two operations of an attachment says, if it has that aspect.
Ops(att, op, stencilOp) ==
    (IF att.aspect # "stencil" THEN {op} ELSE {})
        \cup (IF att.aspect # "color" THEN {stencilOp} ELSE {})

LoadUsage(att) ==
    LET ops == Ops(att, att.loadOp, att.stencilLoadOp)
    IN  CASE att.on = "inputOnly" -> "ResourceRead"
          [] att.on = "tile" /\ "CLEAR" \in ops -> "RenderPassCleared"
          [] att.on = "tile" /\ "CLEAR" \notin ops /\ "LOAD" \in ops -> "RenderPassReadToTile"
          [] OTHER -> "Undefined"

StoreUsage(att) ==
    IF "STORE" \in Ops(att, att.storeOp, att.stencilStoreOp)
    THEN "RenderPassStored" ELSE "RenderPassDiscarded"

Signal(subresources, usage) == [subresources |-> subresources, usage |-> usage]

\* The usages beginRenderPass enqueues for one attachment, in this order.
PassSignals(att) ==
    IF att.on = "unused" THEN <<>>
    ELSE IF att.on = "inputOnly" THEN <<Signal(OfRange(att.range), LoadUsage(att))>>
    ELSE <<Signal(OfRange(att.range), LoadUsage(att)),
           Signal(OfRange(att.range), StoreUsage(att))>>

\* Types; and Image::usageFlags, from which UpdateDescriptorSets judges whether an
\* image has ever been rendered to, holds the last usage of every subresource.
ImageTypeOK ==
    /\ lastUsage \in [Subresource -> Usages]
    /\ \A s \in Subresource : lastUsage[s] \in usageFlags[s] \cup {"Undefined"}
    /\ usageFlags \in [Subresource -> SUBSET (Usages \ {"Undefined"})]
    /\ \A r \in reports : r.at \in Subresource
=============================================================================
