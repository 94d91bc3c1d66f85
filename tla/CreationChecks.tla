--------------------------- MODULE CreationChecks ---------------------------
(***************************************************************************)
(* The advice on attachments, which five calls give: vkCreateImage and     *)
(* vkBindImageMemory (image.cpp), vkCreateRenderPass (dispatch.cpp,        *)
(* render_pass.cpp), vkCreateFramebuffer (framebuffer.cpp) and             *)
(* vkCmdBeginRenderPass (dispatch.cpp).                                    *)
(* They are functions of their arguments: an image, a memory type, an      *)
(* attachment of a pass.  Every switch of config.hpp is on.                *)
(***************************************************************************)
EXTENDS Naturals, FiniteSetsExt

CONSTANTS
    MemoryTypes,        \* indices of the device's memory types
    SampleCounts        \* numbers of samples the device offers

ASSUME ChecksAssumption == MemoryTypes \subseteq Nat /\ SampleCounts \subseteq Nat \ {0}

\* format.hpp: two formats of every kind that has two, and what their kind is.
Formats == {"R8_UNORM", "R8G8B8A8_UNORM", "D16_UNORM", "D32_SFLOAT", "S8_UINT",
            "D24_UNORM_S8_UINT", "D32_SFLOAT_S8_UINT"}

formatIsDepthOnly(format) == format \in {"D16_UNORM", "D32_SFLOAT"}
formatIsStencilOnly(format) == format = "S8_UINT"
formatIsDepthStencil(format) == format \in {"D24_UNORM_S8_UINT", "D32_SFLOAT_S8_UINT"}

\* The kinds and operations the checks of passes tell apart.
Attachments == [format : {"R8G8B8A8_UNORM", "S8_UINT", "D24_UNORM_S8_UINT"},
                samples : SampleCounts,
                loadOp : {"LOAD", "CLEAR"}, storeOp : {"STORE", "DONT_CARE"},
                stencilLoadOp : {"LOAD", "CLEAR"}, stencilStoreOp : {"STORE", "DONT_CARE"}]

-----------------------------------------------------------------------------

\* Image::init: MESSAGE_CODE_NON_LAZY_MULTISAMPLED_IMAGE.
NonLazyMultisampledImage(samples, transient) == samples > 1 /\ ~transient

\* The operations on the stencil aspect count where there is one; those on the other
\* aspect always do.
accessRequiresMemory(a) ==
    \/ a.loadOp = "LOAD" \/ a.storeOp = "STORE"
    \/ /\ formatIsStencilOnly(a.format) \/ formatIsDepthStencil(a.format)
       /\ a.stencilLoadOp = "LOAD" \/ a.stencilStoreOp = "STORE"

\* RenderPass::checkMultisampling: MESSAGE_CODE_MULTISAMPLED_IMAGE_REQUIRES_MEMORY.
checkMultisampling(a) == a.samples # 1 /\ accessRequiresMemory(a)

Mut_attachmentShouldBeTransient(a) ==
    /\ a.loadOp # "LOAD" /\ a.storeOp # "STORE"
    /\ formatIsDepthStencil(a.format) =>
           a.stencilLoadOp # "LOAD" /\ a.stencilStoreOp # "STORE"

attachmentShouldBeTransient(a) ==
    /\ a.loadOp # "LOAD" /\ a.storeOp # "STORE"
    /\ formatIsStencilOnly(a.format) \/ formatIsDepthStencil(a.format) =>
           a.stencilLoadOp # "LOAD" /\ a.stencilStoreOp # "STORE"

\* Framebuffer::checkPotentiallyTransient: is the image behind the view reported?
checkPotentiallyTransient(a, transient) == attachmentShouldBeTransient(a) # transient

\* CreateRenderPass: MESSAGE_CODE_INEFFICIENT_DEPTH_STENCIL_OPS.
inefficientDepthStencilOps(a) ==
    /\ formatIsDepthStencil(a.format)
    /\ a.loadOp # a.stencilLoadOp \/ a.storeOp # a.stencilStoreOp

\* dispatch.cpp: the bits of a pixel; -1, in 32 bits, of formats with a stencil.
getBPP(format) ==
    CASE format = "R8_UNORM" -> 8
      [] format = "D16_UNORM" -> 16
      [] format \in {"R8G8B8A8_UNORM", "D32_SFLOAT"} -> 32
      [] OTHER -> 2^32 - 1

\* The highest bit set of those there is a number for.
getNumSamples(samples) ==
    Max({1} \cup {n \in {2, 4, 8, 16, 32, 64} : (samples \div n) % 2 = 1})

\* CmdBeginRenderPass: MESSAGE_CODE_NO_FBCDC, for every attachment of the framebuffer.
NoFBCDC(format, samples) ==
    \/ getNumSamples(samples) > 1
    \/ IF formatIsDepthOnly(format) \/ formatIsDepthStencil(format) \/ formatIsStencilOnly(format)
       THEN format \notin {"D24_UNORM_S8_UINT", "D32_SFLOAT"}
       ELSE getBPP(format) = 8

\* Image::checkLazyAndTransient: the lazy types the image may be bound to.
LazyTypes(memoryTypeBits, lazy) == memoryTypeBits \cap lazy
suggestedType(memoryTypeBits, lazy) == Min(LazyTypes(memoryTypeBits, lazy))

\* MESSAGE_CODE_NON_LAZY_TRANSIENT_IMAGE, for a transient image and memory of a type.
NonLazyTransientImage(memoryTypeBits, type, lazy) ==
    LazyTypes(memoryTypeBits, lazy) # {} /\ type \notin lazy

-----------------------------------------------------------------------------

\* With several samples, one of the image and the pass has to change exactly if the
\* framebuffer is reported.
AttachmentAdviceAgrees ==
    \A a \in Attachments, transient \in BOOLEAN :
        a.samples > 1 =>
            (checkPotentiallyTransient(a, transient)
                <=> NonLazyMultisampledImage(a.samples, transient) # checkMultisampling(a))

\* Any attachment can be changed in its operations alone so that no check of its pass
\* reports it, nor any check of the image behind it.
OperationsCanBeChosen ==
    \A a \in Attachments : \E b \in Attachments :
        /\ b.format = a.format /\ b.samples = a.samples
        /\ ~checkMultisampling(b) /\ ~inefficientDepthStencilOps(b)
        /\ \E transient \in BOOLEAN :
               /\ ~NonLazyMultisampledImage(b.samples, transient)
               /\ ~checkPotentiallyTransient(b, transient)

SameKind(f, g) ==
    /\ formatIsDepthOnly(f) = formatIsDepthOnly(g)
    /\ formatIsStencilOnly(f) = formatIsStencilOnly(g)
    /\ formatIsDepthStencil(f) = formatIsDepthStencil(g)

\* Every kind but that of the stencil formats has one that may be compressed.
FormatCanBeChosen ==
    \A f \in Formats :
        formatIsStencilOnly(f) \/ \E g \in Formats : SameKind(f, g) /\ ~NoFBCDC(g, 1)

\* The type suggested for an image is one it may be bound to, and is not reported.
SuggestionHelps ==
    \A bits, lazy \in SUBSET MemoryTypes : \A type \in bits :
        NonLazyTransientImage(bits, type, lazy) =>
            LET other == suggestedType(bits, lazy) IN
            other \in bits /\ ~NonLazyTransientImage(bits, other, lazy)
=============================================================================
