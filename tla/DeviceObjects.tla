---------------------------- MODULE DeviceObjects ----------------------------
(***************************************************************************)
(* The layer's own objects for handles the driver makes and takes back in  *)
(* bulk: the images of swapchains and the command buffers of pools.  Each  *)
(* handler keeps the object maps of layer/device.hpp in step with the      *)
(* driver, under globalLock, so each is one step.                          *)
(***************************************************************************)
EXTENDS Naturals, FiniteSets, Functions, ObjectMaps

CONSTANTS
    Swapchains, Images, Pools, CommandBuffers,  \* handles
    Null,           \* VK_NULL_HANDLE
    ImageCount      \* images of a swapchain

ASSUME ObjectsAssumption ==
    /\ ImageCount \in Nat \ {0}
    /\ Null \notin Swapchains \cup Images

VARIABLES
    image,          \* the handles in the map of Image objects
    swapchain,      \* SwapchainKHR objects: their swapchainImages, each under its first name
    commandPool,    \* CommandPool objects: their commandBuffers
    commandBuffer,  \* CommandBuffer objects: their pool
    asserted        \* no MPD_ASSERT on a map has failed, nor a null pointer been used

layerVars == <<image, swapchain, commandPool, commandBuffer, asserted>>

VARIABLES
    appImages,      \* driver: the images of the application
    chainImages,    \* driver: the images of every swapchain
    retired,        \* driver: the swapchains given as oldSwapchain
    poolBuffers     \* driver: the command buffers of every pool

driverVars == <<appImages, chainImages, retired, poolBuffers>>
objectVars == <<layerVars, driverVars>>

ObjectsInit ==
    /\ image = {} /\ swapchain = EmptyMap /\ commandPool = EmptyMap /\ commandBuffer = EmptyMap
    /\ asserted = TRUE
    /\ appImages = {} /\ chainImages = EmptyMap /\ retired = {} /\ poolBuffers = EmptyMap

chains == <<swapchain, chainImages, retired>>
pools == <<commandPool, commandBuffer, poolBuffers>>

\* Device::alloc and Device::destroy on a whole set of handles of one kind: what is
\* in the map, and what they assert of it.  The driver's new handles are none of those
\* that live; Vulkan 1.0 promises so much of dispatchable handles alone, and of the
\* others it is assumed, as alloc itself does (device.hpp:123).
Allocatable(map, handles) == map \cap handles = {}
Destroyable(map, handles) == handles \subseteq map

-----------------------------------------------------------------------------

UsedImages == appImages \cup UNION {chainImages[c] : c \in Live(chainImages)}

CreateImage(i) ==
    /\ i \in Images \ UsedImages
    /\ asserted' = (asserted /\ Allocatable(image, {i}))
    /\ image' = image \cup {i}
    /\ appImages' = appImages \cup {i}
    /\ UNCHANGED <<chains, pools>>

DestroyImage(i) ==
    /\ i \in appImages
    /\ asserted' = (asserted /\ Destroyable(image, {i}))
    /\ image' = image \ {i}
    /\ appImages' = appImages \ {i}
    /\ UNCHANGED <<chains, pools>>

Mut_Stolen(old, images) == {}

\* The images of a new swapchain that potentiallySteal finds in the old one.
Stolen(old, images) == IF old = Null THEN {} ELSE images \cap Range(swapchain[old])

Robbed(images, stolen) ==
    [n \in DOMAIN images |-> IF images[n] \in stolen THEN Null ELSE images[n]]

\* The driver may use images of the old swapchain again, and no others in use.
Offered(old, images) ==
    /\ Cardinality(images) = ImageCount
    /\ images \cap UsedImages \subseteq IF old = Null THEN {} ELSE chainImages[old]

MayReplace(c, old) ==
    /\ c \notin Live(chainImages)
    /\ old \in {Null} \cup (Live(chainImages) \ retired)

CreateSwapchainKHR(c, old, images) ==
    LET stolen == Stolen(old, images)
        left == [x \in Live(swapchain) |->
                    IF x = old THEN Robbed(swapchain[x], stolen) ELSE swapchain[x]]
    IN  /\ MayReplace(c, old) /\ Offered(old, images)
        /\ asserted' = (/\ asserted
                        /\ Destroyable(image, stolen)
                        /\ Allocatable(image \ stolen, images))
        /\ image' = image \cup images
        /\ swapchain' = With(left, c, [n \in images |-> n])
        /\ chainImages' = With([x \in Live(chainImages) |->
               IF x = old THEN chainImages[x] \ images ELSE chainImages[x]], c, images)
        /\ retired' = retired \cup ({old} \ {Null})
        /\ UNCHANGED <<appImages, pools>>

\* The images cannot be had, and the driver's swapchain is destroyed again; the old one
\* stays retired.
SwapchainFails(c, old) ==
    /\ MayReplace(c, old)
    /\ retired' = retired \cup ({old} \ {Null})
    /\ UNCHANGED <<layerVars, appImages, chainImages, poolBuffers>>

\* What GetSwapchainImagesKHR writes: the driver is not asked.
GetSwapchainImagesKHR(c) == Range(swapchain[c])

\* The images DestroySwapchainKHR destroys.
LeftTo(c) == Range(swapchain[c]) \ {Null}

DestroySwapchainKHR(c) ==
    /\ c \in Live(chainImages)
    /\ asserted' = (asserted /\ Destroyable(image, LeftTo(c)))
    /\ image' = image \ LeftTo(c)
    /\ swapchain' = Without(swapchain, c)
    /\ chainImages' = Without(chainImages, c)
    /\ retired' = retired \ {c}
    /\ UNCHANGED <<appImages, pools>>

-----------------------------------------------------------------------------

UsedBuffers == UNION {poolBuffers[p] : p \in Live(poolBuffers)}

CreateCommandPool(p) ==
    /\ p \notin Live(poolBuffers)
    /\ asserted' = (asserted /\ Allocatable(Live(commandPool), {p}))
    /\ commandPool' = With(commandPool, p, {})
    /\ poolBuffers' = With(poolBuffers, p, {})
    /\ UNCHANGED <<image, appImages, chains, commandBuffer>>

\* CommandBuffer::init and CommandPool::addCommandBuffer for every buffer.
AllocateCommandBuffers(p, buffers) ==
    /\ p \in Live(poolBuffers)
    /\ buffers # {} /\ buffers \cap UsedBuffers = {}
    /\ asserted' = (asserted /\ Allocatable(Live(commandBuffer), buffers))
    /\ commandBuffer' = [b \in Live(commandBuffer) \cup buffers |->
           IF b \in buffers THEN p ELSE commandBuffer[b]]
    /\ commandPool' = [commandPool EXCEPT ![p] = @ \cup buffers]
    /\ poolBuffers' = [poolBuffers EXCEPT ![p] = @ \cup buffers]
    /\ UNCHANGED <<image, appImages, chains>>

\* The pool's own set still names the buffers.
FreeCommandBuffers(p, buffers) ==
    /\ p \in Live(poolBuffers)
    /\ buffers # {} /\ buffers \subseteq poolBuffers[p]
    /\ asserted' = (asserted /\ Destroyable(Live(commandBuffer), buffers))
    /\ commandBuffer' = [b \in Live(commandBuffer) \ buffers |-> commandBuffer[b]]
    /\ poolBuffers' = [poolBuffers EXCEPT ![p] = @ \ buffers]
    /\ UNCHANGED <<image, appImages, chains, commandPool>>

Mut_Freed(p) == commandPool[p]

\* Device::freeCommandBuffers, called by ~CommandPool.
Freed(p) == {b \in Live(commandBuffer) : commandBuffer[b] = p}

DestroyCommandPool(p) ==
    /\ p \in Live(poolBuffers)
    /\ asserted' = (asserted /\ Destroyable(Live(commandPool), {p}))
    /\ commandBuffer' = [b \in Live(commandBuffer) \ Freed(p) |-> commandBuffer[b]]
    /\ commandPool' = Without(commandPool, p)
    /\ poolBuffers' = Without(poolBuffers, p)
    /\ UNCHANGED <<image, appImages, chains>>

ObjectsNext ==
    \/ \E i \in Images : CreateImage(i) \/ DestroyImage(i)
    \/ \E c \in Swapchains :
           \/ \E old \in Swapchains \cup {Null} :
                  \/ SwapchainFails(c, old)
                  \/ \E images \in SUBSET Images : CreateSwapchainKHR(c, old, images)
           \/ DestroySwapchainKHR(c)
    \/ \E p \in Pools :
           \/ CreateCommandPool(p) \/ DestroyCommandPool(p)
           \/ \E buffers \in SUBSET CommandBuffers :
                  AllocateCommandBuffers(p, buffers) \/ FreeCommandBuffers(p, buffers)

ObjectsSpec == ObjectsInit /\ [][ObjectsNext]_objectVars

-----------------------------------------------------------------------------

\* The layer has an object for exactly the images and command buffers the driver has:
\* a command on a handle never meets a missing object, and no object outlives its
\* handle (CreateSwapchainKHR, DestroySwapchainKHR, DestroyCommandPool).  A swapchain
\* names the images it has in the driver: all of them, until it is replaced, and then
\* those its successor was not given.
ImagesMatchDriver ==
    /\ image = UsedImages
    /\ Live(swapchain) = Live(chainImages)
    /\ \A c \in Live(swapchain) :
           /\ LeftTo(c) = chainImages[c]
           /\ c \notin retired => GetSwapchainImagesKHR(c) = chainImages[c]

BuffersMatchDriver ==
    /\ Live(commandPool) = Live(poolBuffers)
    /\ Live(commandBuffer) = UsedBuffers
    /\ \A b \in Live(commandBuffer) : b \in poolBuffers[commandBuffer[b]]

\* A pool names only its live buffers, as "destroy internal commandbuffer and remove
\* from pool" (FreeCommandBuffers) says.  The code does not have this property:
\* removeCommandBuffer is never called.  Nothing reads the set.
PoolsNameLiveBuffers ==
    \A p \in Live(commandPool) : commandPool[p] = poolBuffers[p]
=============================================================================
