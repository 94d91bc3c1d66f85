--------------------------- MODULE DeviceResources ---------------------------
(***************************************************************************)
(* All objects the layer keeps of a device: those of DeviceObjects, and    *)
(* those made one at a time or, pipelines, in a batch that may fail        *)
(* halfway.  Their init() looks up the objects they are made from.         *)
(***************************************************************************)
EXTENDS DeviceObjects, CreationChecks

CONSTANT Pipelines      \* handles

VARIABLES
    object,     \* the maps of the kinds below: one handle of each is in use
    pipeline    \* Pipeline objects: the PipelineLayout object they point to still exists

VARIABLES
    resources,  \* driver: the same
    pipelines   \* driver: live pipelines, and whether the call that made each succeeded

resourceVars == <<object, pipeline, resources, pipelines>>
allVars == <<objectVars, resourceVars>>

ResourcesInit ==
    /\ ObjectsInit
    /\ object = {} /\ pipeline = EmptyMap
    /\ resources = {} /\ pipelines = EmptyMap

others == <<image, chains, pools, appImages>>

-----------------------------------------------------------------------------

\* The driver makes an object, then the layer, whose init() goes through pointers it
\* looks up: found tells that there are any.
Create(kind, found) ==
    /\ kind \notin resources
    /\ asserted' = (asserted /\ Allocatable(object, {kind}) /\ found)
    /\ object' = object \cup {kind}
    /\ resources' = resources \cup {kind}
    /\ UNCHANGED <<pipeline, pipelines, others>>

Destroy(kind) ==
    /\ kind \in resources
    /\ asserted' = (asserted /\ Destroyable(object, {kind}))
    /\ object' = object \ {kind}
    /\ resources' = resources \ {kind}
    /\ UNCHANGED <<pipelines, others>>

CreateEvent == Create("Event", TRUE)
DestroyEvent == Destroy("Event") /\ UNCHANGED pipeline
CreateSampler == Create("Sampler", TRUE)
DestroySampler == Destroy("Sampler") /\ UNCHANGED pipeline
CreateShaderModule == Create("ShaderModule", TRUE)
DestroyShaderModule == Destroy("ShaderModule") /\ UNCHANGED pipeline
CreateRenderPass == Create("RenderPass", TRUE)
DestroyRenderPass == Destroy("RenderPass") /\ UNCHANGED pipeline

\* A view of some image of the driver's; a missing Image would only be missed later.
CreateImageView == UsedImages # {} /\ Create("ImageView", TRUE)
DestroyImageView == Destroy("ImageView") /\ UNCHANGED pipeline

\* checkPotentiallyTransient: the pass, the views and the images behind them.
CreateFramebuffer ==
    /\ {"RenderPass", "ImageView"} \subseteq resources /\ UsedImages # {}
    /\ Create("Framebuffer", /\ {"RenderPass", "ImageView"} \subseteq object
                             /\ UsedImages \subseteq image)
DestroyFramebuffer == Destroy("Framebuffer") /\ UNCHANGED pipeline

CreatePipelineLayout == Create("PipelineLayout", TRUE)

\* Pipelines keep a pointer to it.
DestroyPipelineLayout ==
    /\ Destroy("PipelineLayout")
    /\ pipeline' = [p \in Live(pipeline) |-> FALSE]

-----------------------------------------------------------------------------

\* Create{Graphics,Compute}Pipelines: the driver may fail and still make some of the
\* pipelines.  The layer then makes no object at all.
CreatePipelines(batch, made) ==
    LET parents == {"PipelineLayout", "ShaderModule", "RenderPass"}
        res == made = batch
    IN  /\ parents \subseteq resources
        /\ batch # {} /\ batch \cap Live(pipelines) = {} /\ made \subseteq batch
        /\ pipelines' = [p \in Live(pipelines) \cup made |->
               IF p \in made THEN res ELSE pipelines[p]]
        /\ pipeline' = [p \in Live(pipeline) \cup (IF res THEN batch ELSE {}) |->
               IF p \in batch THEN TRUE ELSE pipeline[p]]
        /\ asserted' = (asserted /\ (res => /\ Allocatable(Live(pipeline), batch)
                                            /\ parents \subseteq object))
        /\ UNCHANGED <<object, resources, others>>

DestroyPipeline(p) ==
    /\ p \in Live(pipelines)
    /\ asserted' = (asserted /\ Destroyable(Live(pipeline), {p}))
    /\ pipeline' = Without(pipeline, p)
    /\ pipelines' = Without(pipelines, p)
    /\ UNCHANGED <<object, resources, others>>

ResourcesNext ==
    \/ ObjectsNext /\ UNCHANGED resourceVars
    \/ CreateEvent \/ DestroyEvent
    \/ CreateSampler \/ DestroySampler \/ CreateShaderModule \/ DestroyShaderModule
    \/ CreateRenderPass \/ DestroyRenderPass \/ CreateImageView \/ DestroyImageView
    \/ CreateFramebuffer \/ DestroyFramebuffer
    \/ CreatePipelineLayout \/ DestroyPipelineLayout
    \/ \E batch \in SUBSET Pipelines, made \in SUBSET Pipelines : CreatePipelines(batch, made)
    \/ \E p \in Pipelines : DestroyPipeline(p)

ResourcesSpec == ResourcesInit /\ [][ResourcesNext]_allVars

-----------------------------------------------------------------------------

\* The driver's pipelines the layer has no object for.
Unknown == Live(pipelines) \ Live(pipeline)

\* device.hpp: alloc() asserts that the handle is new and destroy() that it is known.
\* One call can make an assertion fail, vkDestroyPipeline of a pipeline the driver made
\* in a call that failed; none does although swapchains hand images on to their
\* successors, are destroyed in any order, and the driver uses handles again once they
\* are free.  A driver that gives one handle to two live objects is left out.
AssertionsNeedFailedCall ==
    [][asserted /\ ~asserted' => \E p \in Unknown : p \notin Live(pipelines')]_allVars

\* The layer has an object for exactly the handles the driver has, but for pipelines
\* made by a call that failed.
ObjectsMatchDriver ==
    /\ ImagesMatchDriver
    /\ BuffersMatchDriver
    /\ object = resources
    /\ Live(pipeline) = {p \in Live(pipelines) : pipelines[p]}

\* The checks on attachments agree, and what they advise can be done:
\* an attachment with several samples that neither its image nor its pass was reported
\* for is not reported with its framebuffer, and one that just one of them was reported
\* for is; there always are operations and an image that are not reported and, of one
\* sample and for more than stencil alone, a format that may be compressed; the memory
\* type suggested for an image can be had (Image::init, checkMultisampling,
\* CreateRenderPass, checkPotentiallyTransient, CmdBeginRenderPass, checkLazyAndTransient).
AdviceCanBeFollowed ==
    /\ "Framebuffer" \in object => AttachmentAdviceAgrees
    /\ "RenderPass" \in object => OperationsCanBeChosen
    /\ "ImageView" \in object => FormatCanBeChosen
    /\ image # {} => SuggestionHelps

\* The layout a pipeline points to exists: a draw or dispatch follows the pointer.  The
\* code does not have this property: a layout may be destroyed before its pipelines.
LayoutsOutlivePipelines == \A p \in Live(pipeline) : pipeline[p]
=============================================================================
