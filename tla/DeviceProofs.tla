---------------------------- MODULE DeviceProofs ----------------------------
(***************************************************************************)
(* Proofs about what a device keeps: DeviceMemory for every set of handles *)
(* and memory types, DeviceResources for every set of handles, IndexScan   *)
(* for every list of indices, width of words and size of the cache.        *)
(* ResourcesInv adds to ObjectsMatchDriver what the driver promises of its *)
(* own handles: no image is of two swapchains, no command buffer of two    *)
(* pools.  The checks on attachments are formulas over constants.           *)
(***************************************************************************)
EXTENDS IndexScan, DeviceResources, FiniteSetTheorems, WellFoundedInduction, TLAPS

USE MemoryAssumption

-----------------------------------------------------------------------------
(* Memory and mappings.                                                      *)

\* A set of numbers that is not empty has a least one.
LEMMA LeastExists ==
    ASSUME NEW T \in SUBSET Nat, T # {}
    PROVE  \E t \in T : \A u \in T : t <= u
<1>1. PICK t \in T : \A u \in T : ~ (<<u, t>> \in OpToRel(<, Nat))
  BY NatLessThanWellFounded, WFMin
<1>2. \A u \in T : t <= u
  <2> SUFFICES ASSUME NEW u \in T, u < t PROVE FALSE
    OBVIOUS
  <2>1. <<u, t>> \in Nat \X Nat /\ <<u, t>>[1] < <<u, t>>[2]
    OBVIOUS
  <2>2. <<u, t>> \in OpToRel(<, Nat)
    BY <2>1, Zenon DEF OpToRel
  <2> QED BY <1>1, <2>2
<1> QED BY <1>2

\* There is a first memory type that can hold indices, so the loop of Buffer::init
\* finds one: an index buffer is only ever bound to such memory.
LEMMA AdvertisedToIndexBuffers ==
    AdvertisedTypes(TRUE) \subseteq IndexTypes
<1>1. IndexTypes \subseteq Nat /\ IndexTypes # {}
  OBVIOUS
<1>2. \E t \in IndexTypes : \A u \in IndexTypes : t <= u
  BY <1>1, LeastExists
<1> QED BY <1>2 DEF AdvertisedTypes

\* The inductive invariant: a mapping is counted right only while the application's
\* mappings are of live memory, and a buffer keeps its memory type only while it does
\* not point to freed memory, whose handle may come back with another type.
MemoryInv ==
    /\ MemoryTypeOK
    /\ MappedExactlyOnce
    /\ IndexBuffersMappable

LEMMA InvInitially == MemoryInit => MemoryInv
  BY DEF MemoryInit, MemoryInv, MemoryTypeOK, MappedExactlyOnce, IndexBuffersMappable,
         Live, EmptyMap

LEMMA InvAllocate ==
    ASSUME MemoryInv, NEW m \in Memories, NEW type \in Types, AllocateMemory(m, type)
    PROVE  MemoryInv'
<1> USE DEF MemoryInv, AllocateMemory, Live, With
<1>1. PICK mapped \in BOOLEAN :
        /\ memory' = [x \in DOMAIN memory \cup {m} |->
               IF x = m THEN [type |-> type, mapped |-> mapped] ELSE memory[x]]
        /\ driverMaps' = [driverMaps EXCEPT ![m] = IF mapped THEN 1 ELSE 0]
  BY DEF LayerMaps
<1>2. MemoryTypeOK'
  BY <1>1 DEF MemoryTypeOK
<1>3. MappedExactlyOnce'
  BY <1>1 DEF MemoryTypeOK, MappedExactlyOnce
<1>4. IndexBuffersMappable'
  BY <1>1 DEF MemoryTypeOK, IndexBuffersMappable
<1> QED BY <1>2, <1>3, <1>4

LEMMA InvMap ==
    ASSUME MemoryInv, NEW m \in Memories, MapMemory(m) \/ UnmapMemory(m)
    PROVE  MemoryInv'
<1> USE DEF MemoryInv, Live, Served
<1>1. MappedExactlyOnce'
  <2>1. CASE MapMemory(m)
    BY <2>1 DEF MapMemory, MemoryTypeOK, MappedExactlyOnce
  <2>2. CASE UnmapMemory(m)
    BY <2>2 DEF UnmapMemory, MemoryTypeOK, MappedExactlyOnce
  <2> QED BY <2>1, <2>2
<1>2. MemoryTypeOK'
  <2>1. CASE MapMemory(m)
    BY <2>1 DEF MapMemory, MemoryTypeOK
  <2>2. CASE UnmapMemory(m)
    <3>1. ~ memory[m].mapped => driverMaps[m] = 1
      BY <2>2 DEF UnmapMemory, MemoryTypeOK, MappedExactlyOnce
    <3> QED BY <2>2, <3>1 DEF UnmapMemory, MemoryTypeOK
  <2> QED BY <2>1, <2>2
<1>3. IndexBuffersMappable'
  BY DEF MapMemory, UnmapMemory, IndexBuffersMappable
<1> QED BY <1>1, <1>2, <1>3

LEMMA InvFree ==
    ASSUME MemoryInv, NEW m \in Memories, FreeMemory(m)
    PROVE  MemoryInv'
<1> USE DEF MemoryInv, FreeMemory, Live, Without
<1>1. MemoryTypeOK'
  BY DEF MemoryTypeOK
<1>2. MappedExactlyOnce'
  BY DEF MemoryTypeOK, MappedExactlyOnce
<1>3. IndexBuffersMappable'
  BY DEF MemoryTypeOK, IndexBuffersMappable
<1> QED BY <1>1, <1>2, <1>3

LEMMA InvCreateBuffer ==
    ASSUME MemoryInv, NEW b \in Buffers, NEW index \in BOOLEAN, CreateBuffer(b, index)
    PROVE  MemoryInv'
<1> DEFINE new == [index |-> index, memory |-> Nowhere, bound |-> FALSE]
<1>1. /\ buffer' = [x \in DOMAIN buffer \cup {b} |-> IF x = b THEN new ELSE buffer[x]]
      /\ UNCHANGED <<memory, appMapped, driverMaps>>
  BY DEF CreateBuffer, With
<1>2. MemoryTypeOK'
  <2>1. new \in [index : BOOLEAN, memory : Live(memory) \cup {Nowhere}, bound : BOOLEAN]
    OBVIOUS
  <2> HIDE DEF new
  <2> QED BY <1>1, <2>1 DEF MemoryInv, MemoryTypeOK, Live
<1>3. MappedExactlyOnce'
  BY <1>1 DEF MemoryInv, MappedExactlyOnce, Live
<1>4. IndexBuffersMappable'
  BY <1>1 DEF MemoryInv, MemoryTypeOK, IndexBuffersMappable, Live
<1> QED BY <1>2, <1>3, <1>4 DEF MemoryInv

LEMMA InvDestroyBuffer ==
    ASSUME MemoryInv, NEW b \in Buffers, DestroyBuffer(b)
    PROVE  MemoryInv'
<1> USE DEF MemoryInv, DestroyBuffer, Live, Without
<1>1. MemoryTypeOK'
  BY DEF MemoryTypeOK
<1>2. MappedExactlyOnce'
  BY DEF MappedExactlyOnce
<1>3. IndexBuffersMappable'
  BY DEF MemoryTypeOK, IndexBuffersMappable
<1> QED BY <1>1, <1>2, <1>3

LEMMA InvBind ==
    ASSUME MemoryInv, NEW b \in Buffers, NEW m \in Memories, BindBufferMemory(b, m)
    PROVE  MemoryInv'
<1> USE DEF MemoryInv, BindBufferMemory, Live
<1>1. PICK ok \in BOOLEAN : buffer' = [buffer EXCEPT ![b].memory = m, ![b].bound = ok]
  OBVIOUS
<1>2. MemoryTypeOK'
  BY <1>1 DEF MemoryTypeOK
<1>3. MappedExactlyOnce'
  BY DEF MappedExactlyOnce
<1>4. IndexBuffersMappable'
  <2>1. buffer[b].index => memory[m].type \in IndexTypes
    <3> HAVE buffer[b].index
    <3>1. buffer[b].index = TRUE
      BY DEF MemoryTypeOK
    <3> QED BY <3>1, AdvertisedToIndexBuffers
  <2> QED BY <1>1, <2>1 DEF MemoryTypeOK, IndexBuffersMappable
<1> QED BY <1>2, <1>3, <1>4

LEMMA InvStep == MemoryInv /\ [MemoryNext]_memoryVars => MemoryInv'
<1> SUFFICES ASSUME MemoryInv, [MemoryNext]_memoryVars PROVE MemoryInv'
  OBVIOUS
<1>1. CASE UNCHANGED memoryVars
  BY <1>1 DEF memoryVars, MemoryInv, MemoryTypeOK, MappedExactlyOnce,
              IndexBuffersMappable, Live
<1>2. ASSUME NEW m \in Memories, NEW type \in Types, AllocateMemory(m, type)
      PROVE  MemoryInv'
  BY <1>2, InvAllocate
<1>3. ASSUME NEW m \in Memories, MapMemory(m) \/ UnmapMemory(m)
      PROVE  MemoryInv'
  BY <1>3, InvMap
<1>4. ASSUME NEW m \in Memories, FreeMemory(m) PROVE MemoryInv'
  BY <1>4, InvFree
<1>5. ASSUME NEW b \in Buffers, NEW index \in BOOLEAN, CreateBuffer(b, index)
      PROVE  MemoryInv'
  BY <1>5, InvCreateBuffer
<1>6. ASSUME NEW b \in Buffers, DestroyBuffer(b) PROVE MemoryInv'
  BY <1>6, InvDestroyBuffer
<1>7. ASSUME NEW b \in Buffers, NEW m \in Memories, BindBufferMemory(b, m)
      PROVE  MemoryInv'
  BY <1>7, InvBind
<1> QED BY <1>1, <1>2, <1>3, <1>4, <1>5, <1>6, <1>7 DEF MemoryNext

\* However the application allocates, maps, unmaps and frees, and whichever mappings
\* the driver refuses the layer, the driver's mappings are exactly those in use.
THEOREM MappingsCorrect == MemorySpec => []MappedExactlyOnce
<1>1. MemoryInv => MappedExactlyOnce
  BY DEF MemoryInv
<1> QED BY <1>1, InvInitially, InvStep, PTL DEF MemorySpec

\* Index buffers are bound to memory the layer tried to map, for every layout of the
\* device's memory types that has a type the layer can map.
THEOREM IndexBuffersCorrect == MemorySpec => []IndexBuffersMappable
<1>1. MemoryInv => IndexBuffersMappable
  BY DEF MemoryInv
<1> QED BY <1>1, InvInitially, InvStep, PTL DEF MemorySpec

-----------------------------------------------------------------------------
(* The objects of the other handles.                                         *)

USE ObjectsAssumption

\* An image is the application's or one swapchain's.
ImagesApart ==
    /\ Live(chainImages) \subseteq Swapchains
    /\ appImages \subseteq Images
    /\ \A c \in Live(chainImages) : chainImages[c] \subseteq Images \ appImages
    /\ \A c, d \in Live(chainImages) : c # d => chainImages[c] \cap chainImages[d] = {}

\* A command buffer is of one pool, and its object names a live one.
BuffersApart ==
    /\ \A p, q \in Live(poolBuffers) : p # q => poolBuffers[p] \cap poolBuffers[q] = {}
    /\ \A b \in Live(commandBuffer) : commandBuffer[b] \in Live(poolBuffers)

ImagesInv == ImagesMatchDriver /\ ImagesApart
BuffersInv == BuffersMatchDriver /\ BuffersApart
OthersInv ==
    /\ object = resources
    /\ Live(pipeline) = {p \in Live(pipelines) : pipelines[p]}

ResourcesInv == asserted \in BOOLEAN /\ ImagesInv /\ BuffersInv /\ OthersInv

imageVars == <<image, appImages, chains>>

-----------------------------------------------------------------------------
(* Images and swapchains.                                                    *)

\* Who has an image.
LEMMA UsedImagesAre ==
    \A i : i \in UsedImages <=>
               i \in appImages \/ \E c \in Live(chainImages) : i \in chainImages[c]
  BY DEF UsedImages

\* And after a step.
LEMMA UsedImagesAreNext ==
    \A i : i \in UsedImages' <=>
               i \in appImages' \/ \E c \in Live(chainImages') : i \in chainImages'[c]
  BY DEF UsedImages

\* The images of the application.
LEMMA ImagesCreateImage ==
    ASSUME ImagesInv, NEW i \in Images, CreateImage(i)
    PROVE  ImagesInv' /\ Allocatable(image, {i})
<1>1. /\ i \notin UsedImages /\ image' = image \cup {i} /\ appImages' = appImages \cup {i}
      /\ UNCHANGED <<swapchain, chainImages, retired>>
  BY DEF CreateImage, chains
<1>2. UsedImages' = UsedImages \cup {i}
  BY <1>1 DEF UsedImages
<1>3. ImagesMatchDriver'
  BY <1>1, <1>2 DEF ImagesInv, ImagesMatchDriver, LeftTo, GetSwapchainImagesKHR
<1>4. ImagesApart'
  BY <1>1, UsedImagesAre DEF ImagesInv, ImagesApart
<1>5. Allocatable(image, {i})
  BY <1>1 DEF Allocatable, ImagesInv, ImagesMatchDriver
<1> QED BY <1>3, <1>4, <1>5 DEF ImagesInv

\* ... and those it destroys.
LEMMA ImagesDestroyImage ==
    ASSUME ImagesInv, NEW i \in Images, DestroyImage(i)
    PROVE  ImagesInv' /\ Destroyable(image, {i})
<1>1. /\ i \in appImages /\ image' = image \ {i} /\ appImages' = appImages \ {i}
      /\ UNCHANGED <<swapchain, chainImages, retired>>
  BY DEF DestroyImage, chains
<1>2. UsedImages' = UsedImages \ {i}
  BY <1>1 DEF UsedImages, ImagesInv, ImagesApart
<1>3. ImagesMatchDriver'
  BY <1>1, <1>2 DEF ImagesInv, ImagesMatchDriver, LeftTo, GetSwapchainImagesKHR
<1>4. ImagesApart'
  BY <1>1 DEF ImagesInv, ImagesApart
<1>5. Destroyable(image, {i})
  BY <1>1 DEF Destroyable, ImagesInv, ImagesMatchDriver, UsedImages
<1> QED BY <1>3, <1>4, <1>5 DEF ImagesInv

\* A swapchain that is destroyed has what its successor was not given.
LEMMA ImagesDestroySwapchain ==
    ASSUME ImagesInv, NEW c \in Swapchains, DestroySwapchainKHR(c)
    PROVE  ImagesInv' /\ Destroyable(image, LeftTo(c))
<1>1. /\ c \in Live(chainImages) /\ image' = image \ LeftTo(c)
      /\ swapchain' = Without(swapchain, c) /\ chainImages' = Without(chainImages, c)
      /\ retired' = retired \ {c} /\ appImages' = appImages
  BY DEF DestroySwapchainKHR
<1>2. LeftTo(c) = chainImages[c] /\ Live(swapchain) = Live(chainImages)
  BY <1>1 DEF ImagesInv, ImagesMatchDriver
<1>3. UsedImages' = UsedImages \ chainImages[c]
  BY <1>1, UsedImagesAre, UsedImagesAreNext DEF ImagesInv, ImagesApart, Without, Live
<1>4. /\ Live(chainImages') = Live(chainImages) \ {c}
      /\ Live(swapchain') = Live(swapchain) \ {c}
      /\ \A x \in Live(chainImages') : chainImages'[x] = chainImages[x]
      /\ \A x \in Live(swapchain') : swapchain'[x] = swapchain[x]
  BY <1>1 DEF Without, Live
<1>5. ImagesMatchDriver'
  BY <1>1, <1>2, <1>3, <1>4 DEF ImagesInv, ImagesMatchDriver, LeftTo, GetSwapchainImagesKHR
<1>6. ImagesApart'
  BY <1>1, <1>4 DEF ImagesInv, ImagesApart
<1>7. Destroyable(image, LeftTo(c))
  BY <1>1, <1>2, UsedImagesAre DEF Destroyable, ImagesInv, ImagesMatchDriver
<1> QED BY <1>5, <1>6, <1>7 DEF ImagesInv

\* A new swapchain: what it is given of the old one is stolen from that, and nothing
\* else is in use.
LEMMA ImagesCreateSwapchain ==
    ASSUME ImagesInv, NEW c \in Swapchains, NEW old \in Swapchains \cup {Null},
           NEW images \in SUBSET Images, CreateSwapchainKHR(c, old, images)
    PROVE  /\ ImagesInv'
           /\ Destroyable(image, Stolen(old, images))
           /\ Allocatable(image \ Stolen(old, images), images)
<1> DEFINE stolen == Stolen(old, images)
           left == [x \in Live(swapchain) |->
                       IF x = old THEN Robbed(swapchain[x], stolen) ELSE swapchain[x]]
           leftTo == [x \in Live(chainImages) |->
                       IF x = old THEN chainImages[x] \ images ELSE chainImages[x]]
<1>1. /\ c \notin Live(chainImages)
      /\ old \in {Null} \cup (Live(chainImages) \ retired)
      /\ images \cap UsedImages \subseteq IF old = Null THEN {} ELSE chainImages[old]
      /\ image' = image \cup images
      /\ swapchain' = With(left, c, [n \in images |-> n])
      /\ chainImages' = With(leftTo, c, images)
      /\ retired' = retired \cup ({old} \ {Null}) /\ appImages' = appImages
  BY DEF CreateSwapchainKHR, MayReplace, Offered
<1>2. /\ Live(swapchain) = Live(chainImages) /\ image = UsedImages
      /\ Null \notin Live(chainImages)
  BY DEF ImagesInv, ImagesMatchDriver, ImagesApart
<1>3. stolen = IF old = Null THEN {} ELSE images \cap chainImages[old]
  BY <1>1, <1>2 DEF Stolen, ImagesInv, ImagesMatchDriver, GetSwapchainImagesKHR
<1>4. images \cap UsedImages = stolen
  BY <1>1, <1>3, UsedImagesAre
<1> HIDE DEF stolen
<1>5. /\ Live(chainImages') = Live(chainImages) \cup {c}
      /\ chainImages'[c] = images
      /\ \A x \in Live(chainImages) : chainImages'[x] = IF x = old THEN chainImages[x] \ images
                                                      ELSE chainImages[x]
  BY <1>1 DEF With, Live
<1>6. /\ Live(swapchain') = Live(swapchain) \cup {c}
      /\ swapchain'[c] = [n \in images |-> n]
      /\ \A x \in Live(swapchain) : swapchain'[x] = IF x = old THEN Robbed(swapchain[x], stolen)
                                                    ELSE swapchain[x]
  BY <1>1, <1>2 DEF With, Live
<1>7. UsedImages' = UsedImages \cup images
  <2>1. \A i : i \in UsedImages' => i \in UsedImages \cup images
    <3> SUFFICES ASSUME NEW i \in UsedImages', i \notin images PROVE i \in UsedImages
      OBVIOUS
    <3>1. CASE i \in appImages
      BY <3>1, UsedImagesAre
    <3>2. ASSUME NEW x \in Live(chainImages'), i \in chainImages'[x] PROVE i \in UsedImages
      <4>1. x \in Live(chainImages) /\ i \in chainImages[x]
        BY <1>5, <3>2
      <4> QED BY <4>1, UsedImagesAre
    <3>3. appImages' = appImages
      BY <1>1
    <3> QED BY <3>1, <3>2, <3>3, UsedImagesAreNext
  <2>2. \A i : i \in UsedImages \cup images => i \in UsedImages'
    BY <1>1, <1>5, UsedImagesAre, UsedImagesAreNext
  <2> QED BY <2>1, <2>2
<1>8. ImagesMatchDriver'
  <2>1. LeftTo(c)' = images /\ GetSwapchainImagesKHR(c)' = images
    <3>1. Range([n \in images |-> n]) = images
      BY DEF Range
    <3> QED BY <1>6, <3>1 DEF LeftTo, GetSwapchainImagesKHR
  <2>2. ASSUME NEW x \in Live(chainImages), x # old
        PROVE  LeftTo(x)' = LeftTo(x) /\ GetSwapchainImagesKHR(x)' = GetSwapchainImagesKHR(x)
    BY <1>2, <1>6, <2>2 DEF LeftTo, GetSwapchainImagesKHR
  <2>3. ASSUME old # Null PROVE LeftTo(old)' = chainImages[old] \ images
    <3>1. /\ old \in Live(swapchain) /\ swapchain'[old] = Robbed(swapchain[old], stolen)
          /\ stolen = images \cap chainImages[old]
          /\ LeftTo(old) = chainImages[old]
      BY <1>1, <1>2, <1>3, <1>6, <2>3 DEF ImagesInv, ImagesMatchDriver
    <3>2. Range(Robbed(swapchain[old], stolen)) \ {Null} = (Range(swapchain[old]) \ {Null}) \ stolen
      BY DEF Range, Robbed
    <3> QED BY <3>1, <3>2 DEF LeftTo
  <2>4. ASSUME NEW x \in Live(swapchain') PROVE LeftTo(x)' = chainImages'[x]
    <3>1. CASE x = c
      BY <1>5, <2>1, <3>1
    <3>2. CASE x # c /\ x = old
      BY <1>1, <1>2, <1>5, <1>6, <2>3, <2>4, <3>2
    <3>3. CASE x # c /\ x # old
      BY <1>2, <1>5, <1>6, <2>2, <2>4, <3>3 DEF ImagesInv, ImagesMatchDriver
    <3> QED BY <3>1, <3>2, <3>3
  <2>5. ASSUME NEW x \in Live(swapchain'), x \notin retired'
        PROVE  GetSwapchainImagesKHR(x)' = chainImages'[x]
    <3>1. CASE x = c
      BY <1>5, <2>1, <3>1
    <3>2. CASE x # c
      <4>1. x \in Live(chainImages) /\ x # old /\ x \notin retired
        BY <1>1, <1>2, <1>6, <2>5, <3>2
      <4> QED BY <1>2, <1>5, <2>2, <4>1 DEF ImagesInv, ImagesMatchDriver
    <3> QED BY <3>1, <3>2
  <2>6. image' = UsedImages' /\ Live(swapchain') = Live(chainImages')
    BY <1>1, <1>2, <1>5, <1>6, <1>7
  <2> QED BY <2>4, <2>5, <2>6 DEF ImagesMatchDriver
<1>9. ImagesApart'
  <2>1. images \cap appImages = {}
    <3>1. \A i \in images \cap appImages : i \in stolen /\ old # Null /\ i \in chainImages[old]
      BY <1>3, <1>4, UsedImagesAre
    <3> QED BY <1>1, <3>1 DEF ImagesInv, ImagesApart
  <2>2. \A x \in Live(chainImages) : images \cap chainImages'[x] = {}
    <3> SUFFICES ASSUME NEW x \in Live(chainImages), NEW i \in images \cap chainImages'[x]
                 PROVE  FALSE
      OBVIOUS
    <3>1. x # old /\ i \in chainImages[x]
      BY <1>5
    <3>2. i \in stolen
      BY <1>4, <3>1, UsedImagesAre
    <3>3. old \in Live(chainImages) /\ i \in chainImages[old]
      BY <1>1, <1>3, <3>2
    <3> QED BY <3>1, <3>3 DEF ImagesInv, ImagesApart
  <2>3. \A x \in Live(chainImages) : chainImages'[x] \subseteq chainImages[x]
    BY <1>5
  <2>4. ASSUME NEW x \in Live(chainImages')
        PROVE  chainImages'[x] \subseteq Images \ appImages'
    BY <1>1, <1>5, <2>1, <2>3 DEF ImagesInv, ImagesApart
  <2>5. ASSUME NEW x \in Live(chainImages'), NEW y \in Live(chainImages'), x # y
        PROVE  chainImages'[x] \cap chainImages'[y] = {}
    <3>1. CASE x = c \/ y = c
      BY <1>5, <2>2, <2>5, <3>1
    <3>2. CASE x # c /\ y # c
      <4>1. x \in Live(chainImages) /\ y \in Live(chainImages)
        BY <1>5, <2>5, <3>2
      <4>2. chainImages[x] \cap chainImages[y] = {}
        BY <2>5, <4>1 DEF ImagesInv, ImagesApart
      <4> QED BY <2>3, <4>1, <4>2
    <3> QED BY <3>1, <3>2
  <2>6. Live(chainImages') \subseteq Swapchains /\ appImages' \subseteq Images
    BY <1>1, <1>5 DEF ImagesInv, ImagesApart
  <2> QED BY <2>4, <2>5, <2>6 DEF ImagesApart
<1>10. Destroyable(image, stolen) /\ Allocatable(image \ stolen, images)
  BY <1>2, <1>4 DEF Destroyable, Allocatable
<1> QED BY <1>8, <1>9, <1>10 DEF ImagesInv, stolen

\* The old swapchain is retired all the same.
LEMMA ImagesSwapchainFails ==
    ASSUME ImagesInv, NEW c \in Swapchains, NEW old \in Swapchains \cup {Null},
           SwapchainFails(c, old)
    PROVE  ImagesInv'
  BY DEF SwapchainFails, layerVars, ImagesInv, ImagesMatchDriver, ImagesApart, UsedImages,
         LeftTo, GetSwapchainImagesKHR

\* Calls that are not about images.
LEMMA ImagesKept ==
    ASSUME ImagesInv, UNCHANGED imageVars
    PROVE  ImagesInv'
  BY DEF imageVars, chains, ImagesInv, ImagesMatchDriver, ImagesApart, UsedImages,
         LeftTo, GetSwapchainImagesKHR

-----------------------------------------------------------------------------
(* Command pools and their buffers.                                          *)

\* Who has a command buffer.
LEMMA UsedBuffersAre ==
    \A b : b \in UsedBuffers <=> \E p \in Live(poolBuffers) : b \in poolBuffers[p]
  BY DEF UsedBuffers

\* And after a step.
LEMMA UsedBuffersAreNext ==
    \A b : b \in UsedBuffers' <=> \E p \in Live(poolBuffers') : b \in poolBuffers'[p]
  BY DEF UsedBuffers

\* A new pool has no buffers.
LEMMA BuffersCreatePool ==
    ASSUME BuffersInv, NEW p \in Pools, CreateCommandPool(p)
    PROVE  BuffersInv' /\ Allocatable(Live(commandPool), {p})
<1>1. /\ p \notin Live(poolBuffers) /\ UNCHANGED commandBuffer
      /\ Live(commandPool') = Live(commandPool) \cup {p}
      /\ Live(poolBuffers') = Live(poolBuffers) \cup {p}
      /\ poolBuffers'[p] = {}
      /\ \A q \in Live(poolBuffers) : poolBuffers'[q] = poolBuffers[q]
  BY DEF CreateCommandPool, With, Live
<1>2. UsedBuffers' = UsedBuffers
  BY <1>1, UsedBuffersAre, UsedBuffersAreNext
<1> QED BY <1>1, <1>2 DEF BuffersInv, BuffersMatchDriver, BuffersApart, Allocatable, Live

\* Buffers are allocated to one pool.
LEMMA BuffersAllocate ==
    ASSUME BuffersInv, NEW p \in Pools, NEW buffers \in SUBSET CommandBuffers,
           AllocateCommandBuffers(p, buffers)
    PROVE  BuffersInv' /\ Allocatable(Live(commandBuffer), buffers)
<1>1. /\ p \in Live(poolBuffers) /\ buffers \cap UsedBuffers = {}
      /\ Live(commandPool') = Live(commandPool)
      /\ Live(poolBuffers') = Live(poolBuffers)
      /\ \A q \in Live(poolBuffers) :
             poolBuffers'[q] = IF q = p THEN poolBuffers[q] \cup buffers ELSE poolBuffers[q]
      /\ Live(commandBuffer') = Live(commandBuffer) \cup buffers
      /\ \A b \in Live(commandBuffer') :
             commandBuffer'[b] = IF b \in buffers THEN p ELSE commandBuffer[b]
  BY DEF AllocateCommandBuffers, Live
<1>2. UsedBuffers' = UsedBuffers \cup buffers
  BY <1>1, UsedBuffersAre, UsedBuffersAreNext
<1>3. BuffersMatchDriver'
  <2>1. Live(commandPool') = Live(poolBuffers') /\ Live(commandBuffer') = UsedBuffers'
    BY <1>1, <1>2 DEF BuffersInv, BuffersMatchDriver
  <2>2. ASSUME NEW b \in Live(commandBuffer') PROVE b \in poolBuffers'[commandBuffer'[b]]
    <3>1. CASE b \in buffers
      BY <1>1, <2>2, <3>1
    <3>2. CASE b \notin buffers
      <4>1. /\ commandBuffer'[b] = commandBuffer[b] /\ b \in poolBuffers[commandBuffer[b]]
            /\ commandBuffer[b] \in Live(poolBuffers)
        BY <1>1, <2>2, <3>2 DEF BuffersInv, BuffersMatchDriver, BuffersApart
      <4>2. b \in poolBuffers'[commandBuffer[b]]
        <5>1. \A q \in Live(poolBuffers) :
                  poolBuffers'[q] = IF q = p THEN poolBuffers[q] \cup buffers ELSE poolBuffers[q]
          BY <1>1
        <5> QED BY <4>1, <5>1
      <4> QED BY <4>1, <4>2
    <3> QED BY <3>1, <3>2
  <2> QED BY <2>1, <2>2 DEF BuffersMatchDriver
<1>4. BuffersApart'
  <2>1. ASSUME NEW x \in Live(poolBuffers), NEW y \in Live(poolBuffers), x # y
        PROVE  poolBuffers'[x] \cap poolBuffers'[y] = {}
    <3>1. /\ poolBuffers[x] \cap buffers = {} /\ poolBuffers[y] \cap buffers = {}
          /\ poolBuffers[x] \cap poolBuffers[y] = {}
      BY <1>1, <2>1, UsedBuffersAre DEF BuffersInv, BuffersApart
    <3> QED BY <1>1, <2>1, <3>1
  <2>2. ASSUME NEW b \in Live(commandBuffer') PROVE commandBuffer'[b] \in Live(poolBuffers)
    BY <1>1, <2>2 DEF BuffersInv, BuffersApart
  <2> QED BY <1>1, <2>1, <2>2 DEF BuffersApart
<1>5. Allocatable(Live(commandBuffer), buffers)
  BY <1>1 DEF BuffersInv, BuffersMatchDriver, Allocatable
<1> QED BY <1>3, <1>4, <1>5 DEF BuffersInv

\* The buffers of a pool are those whose objects name it: ~CommandPool finds them all.
LEMMA FreedAreThePools ==
    ASSUME BuffersInv, NEW p \in Live(poolBuffers)
    PROVE  Freed(p) = poolBuffers[p]
<1>1. ASSUME NEW b \in Freed(p) PROVE b \in poolBuffers[p]
  BY <1>1 DEF Freed, BuffersInv, BuffersMatchDriver
<1>2. ASSUME NEW b \in poolBuffers[p] PROVE b \in Freed(p)
  <2>1. b \in Live(commandBuffer)
    BY <1>2, UsedBuffersAre DEF BuffersInv, BuffersMatchDriver
  <2>2. b \in poolBuffers[commandBuffer[b]] /\ commandBuffer[b] \in Live(poolBuffers)
    BY <2>1 DEF BuffersInv, BuffersMatchDriver, BuffersApart
  <2>3. commandBuffer[b] = p
    BY <1>2, <2>2 DEF BuffersInv, BuffersApart
  <2> QED BY <2>1, <2>3 DEF Freed
<1> QED BY <1>1, <1>2

\* Some buffers of a pool are freed.
LEMMA BuffersFree ==
    ASSUME BuffersInv, NEW p \in Pools, NEW buffers \in SUBSET CommandBuffers,
           FreeCommandBuffers(p, buffers)
    PROVE  BuffersInv' /\ Destroyable(Live(commandBuffer), buffers)
<1>1. /\ p \in Live(poolBuffers) /\ buffers \subseteq poolBuffers[p]
      /\ Live(commandPool') = Live(commandPool)
      /\ Live(poolBuffers') = Live(poolBuffers)
      /\ \A q \in Live(poolBuffers) :
             poolBuffers'[q] = IF q = p THEN poolBuffers[q] \ buffers ELSE poolBuffers[q]
      /\ Live(commandBuffer') = Live(commandBuffer) \ buffers
      /\ \A b \in Live(commandBuffer') : commandBuffer'[b] = commandBuffer[b]
  BY DEF FreeCommandBuffers, Live
<1>2. UsedBuffers' = UsedBuffers \ buffers
  <2>1. \A q \in Live(poolBuffers) : q # p => poolBuffers[q] \cap buffers = {}
    BY <1>1 DEF BuffersInv, BuffersApart
  <2> QED BY <1>1, <2>1, UsedBuffersAre, UsedBuffersAreNext
<1>3. BuffersMatchDriver'
  <2>1. ASSUME NEW b \in Live(commandBuffer')
        PROVE  b \in poolBuffers'[commandBuffer'[b]]
    <3>1. /\ b \in Live(commandBuffer) /\ b \notin buffers
          /\ commandBuffer'[b] = commandBuffer[b]
      BY <1>1, <2>1
    <3>2. commandBuffer[b] \in Live(poolBuffers) /\ b \in poolBuffers[commandBuffer[b]]
      BY <3>1 DEF BuffersInv, BuffersMatchDriver, BuffersApart
    <3> QED BY <1>1, <3>1, <3>2
  <2>2. Live(commandPool) = Live(poolBuffers) /\ Live(commandBuffer) = UsedBuffers
    BY DEF BuffersInv, BuffersMatchDriver
  <2> QED BY <1>1, <1>2, <2>1, <2>2 DEF BuffersMatchDriver
<1>4. BuffersApart'
  <2>1. ASSUME NEW x \in Live(poolBuffers), NEW y \in Live(poolBuffers), x # y
        PROVE  poolBuffers'[x] \cap poolBuffers'[y] = {}
    <3>1. poolBuffers[x] \cap poolBuffers[y] = {}
      BY <2>1 DEF BuffersInv, BuffersApart
    <3>2. poolBuffers'[x] \subseteq poolBuffers[x] /\ poolBuffers'[y] \subseteq poolBuffers[y]
      BY <1>1, <2>1
    <3> QED BY <3>1, <3>2
  <2>2. ASSUME NEW b \in Live(commandBuffer') PROVE commandBuffer'[b] \in Live(poolBuffers)
    BY <1>1, <2>2 DEF BuffersInv, BuffersApart
  <2> QED BY <1>1, <2>1, <2>2 DEF BuffersApart
<1>5. Destroyable(Live(commandBuffer), buffers)
  BY <1>1, UsedBuffersAre DEF BuffersInv, BuffersMatchDriver, Destroyable
<1> QED BY <1>3, <1>4, <1>5 DEF BuffersInv

\* A pool is destroyed with all its buffers.
LEMMA BuffersDestroyPool ==
    ASSUME BuffersInv, NEW p \in Pools, DestroyCommandPool(p)
    PROVE  BuffersInv' /\ Destroyable(Live(commandPool), {p})
<1>1. /\ p \in Live(poolBuffers)
      /\ Live(commandPool') = Live(commandPool) \ {p}
      /\ Live(poolBuffers') = Live(poolBuffers) \ {p}
      /\ \A q \in Live(poolBuffers') : poolBuffers'[q] = poolBuffers[q]
      /\ Live(commandBuffer') = Live(commandBuffer) \ Freed(p)
      /\ \A b \in Live(commandBuffer') : commandBuffer'[b] = commandBuffer[b]
  BY DEF DestroyCommandPool, Without, Live
<1>2. Freed(p) = poolBuffers[p]
  BY <1>1, FreedAreThePools
<1>3. UsedBuffers' = UsedBuffers \ poolBuffers[p]
  <2>1. \A q \in Live(poolBuffers) : q # p => poolBuffers[q] \cap poolBuffers[p] = {}
    BY <1>1 DEF BuffersInv, BuffersApart
  <2> QED BY <1>1, <2>1, UsedBuffersAre, UsedBuffersAreNext
<1>4. BuffersMatchDriver'
  BY <1>1, <1>2, <1>3 DEF BuffersInv, BuffersMatchDriver, BuffersApart
<1>5. BuffersApart'
  BY <1>1, <1>2 DEF BuffersInv, BuffersMatchDriver, BuffersApart, Freed
<1>6. Destroyable(Live(commandPool), {p})
  BY <1>1 DEF BuffersInv, BuffersMatchDriver, Destroyable
<1> QED BY <1>4, <1>5, <1>6 DEF BuffersInv

\* Calls that are not about command buffers.
LEMMA BuffersKept ==
    ASSUME BuffersInv, UNCHANGED pools
    PROVE  BuffersInv'
  BY DEF pools, BuffersInv, BuffersMatchDriver, BuffersApart, UsedBuffers

-----------------------------------------------------------------------------
(* The objects made one at a time, and pipelines.                            *)

\* A step on the other objects leaves images and command buffers alone, keeps the maps
\* those of the driver, and makes no assertion fail but for an unknown pipeline.
LEMMA OthersSingle ==
    ASSUME ResourcesInv, NEW kind, NEW found, found \in BOOLEAN,
           \/ Create(kind, found) /\ found
           \/ Destroy(kind) /\ Live(pipeline') = Live(pipeline)
    PROVE  ResourcesInv' /\ asserted' = asserted
<1>1. UNCHANGED imageVars /\ UNCHANGED pools
  BY DEF Create, Destroy, others, chains, imageVars
<1>2. asserted' = asserted
  BY DEF Create, Destroy, Allocatable, Destroyable, ResourcesInv, OthersInv
<1>3. OthersInv'
  BY DEF Create, Destroy, ResourcesInv, OthersInv
<1> QED BY <1>1, <1>2, <1>3, ImagesKept, BuffersKept DEF ResourcesInv

\* The steps of one kind each.
LEMMA OthersKinds ==
    ASSUME ResourcesInv,
           \/ CreateEvent \/ DestroyEvent \/ CreateSampler \/ DestroySampler
           \/ CreateShaderModule \/ DestroyShaderModule
           \/ CreateRenderPass \/ DestroyRenderPass \/ CreateImageView \/ DestroyImageView
           \/ CreateFramebuffer \/ DestroyFramebuffer
           \/ CreatePipelineLayout \/ DestroyPipelineLayout
    PROVE  ResourcesInv' /\ asserted' = asserted
<1>1. \A kind : Create(kind, TRUE) => ResourcesInv' /\ asserted' = asserted
  BY OthersSingle
<1>2. \A kind : Destroy(kind) /\ UNCHANGED pipeline => ResourcesInv' /\ asserted' = asserted
  BY OthersSingle
<1>3. CASE CreateFramebuffer
  <2>1. {"RenderPass", "ImageView"} \subseteq object /\ UsedImages \subseteq image
    BY <1>3 DEF CreateFramebuffer, ResourcesInv, OthersInv, ImagesInv, ImagesMatchDriver
  <2> QED BY <1>3, <2>1, OthersSingle DEF CreateFramebuffer
<1>4. CASE DestroyPipelineLayout
  <2>1. Destroy("PipelineLayout") /\ Live(pipeline') = Live(pipeline)
    BY <1>4 DEF DestroyPipelineLayout, Live
  <2> QED BY <2>1, OthersSingle
<1>5. CASE CreateEvent \/ CreateSampler \/ CreateShaderModule \/ CreateRenderPass
           \/ CreateImageView \/ CreatePipelineLayout
  BY <1>1, <1>5 DEF CreateEvent, CreateSampler, CreateShaderModule, CreateRenderPass,
                    CreateImageView, CreatePipelineLayout
<1>6. CASE DestroyEvent \/ DestroySampler \/ DestroyShaderModule \/ DestroyRenderPass
           \/ DestroyImageView \/ DestroyFramebuffer
  BY <1>2, <1>6 DEF DestroyEvent, DestroySampler, DestroyShaderModule, DestroyRenderPass,
                    DestroyImageView, DestroyFramebuffer
<1> QED BY <1>3, <1>4, <1>5, <1>6

\* A batch of pipelines, all or some of it made.
LEMMA OthersCreatePipelines ==
    ASSUME ResourcesInv, NEW batch \in SUBSET Pipelines, NEW made \in SUBSET Pipelines,
           CreatePipelines(batch, made)
    PROVE  ResourcesInv' /\ asserted' = asserted
<1>1. UNCHANGED imageVars /\ UNCHANGED pools /\ UNCHANGED <<object, resources>>
  BY DEF CreatePipelines, others, chains, imageVars
<1>2. Live(pipeline) \subseteq Live(pipelines)
  BY DEF ResourcesInv, OthersInv
<1>3. asserted' = asserted
  BY <1>2 DEF CreatePipelines, Allocatable, ResourcesInv, OthersInv
<1>4. Live(pipeline') = {p \in Live(pipelines') : pipelines'[p]}
  <2>1. /\ batch \cap Live(pipelines) = {} /\ made \subseteq batch
        /\ Live(pipelines') = Live(pipelines) \cup made
        /\ Live(pipeline') = Live(pipeline) \cup (IF made = batch THEN batch ELSE {})
        /\ \A p \in made : pipelines'[p] = (made = batch)
        /\ \A p \in Live(pipelines) : pipelines'[p] = pipelines[p]
    BY DEF CreatePipelines, Live
  <2>2. Live(pipeline) = {p \in Live(pipelines) : pipelines[p]}
    BY DEF ResourcesInv, OthersInv
  <2> QED BY <2>1, <2>2
<1>5. OthersInv'
  BY <1>1, <1>4 DEF ResourcesInv, OthersInv
<1> QED BY <1>1, <1>3, <1>5, ImagesKept, BuffersKept DEF ResourcesInv

\* A pipeline is destroyed: the one step that can make an assertion fail.
LEMMA OthersDestroyPipeline ==
    ASSUME ResourcesInv, NEW p \in Pipelines, DestroyPipeline(p)
    PROVE  /\ ResourcesInv'
           /\ asserted' = asserted \/ (p \in Unknown /\ p \notin Live(pipelines'))
<1>1. UNCHANGED imageVars /\ UNCHANGED pools /\ UNCHANGED <<object, resources>>
  BY DEF DestroyPipeline, others, chains, imageVars
<1>2. asserted' \in BOOLEAN
  BY DEF DestroyPipeline
<1>3. /\ Live(pipeline') = Live(pipeline) \ {p} /\ Live(pipelines') = Live(pipelines) \ {p}
      /\ \A q \in Live(pipelines') : pipelines'[q] = pipelines[q]
      /\ p \in Live(pipelines)
  BY DEF DestroyPipeline, Without, Live
<1>4. OthersInv'
  BY <1>1, <1>3 DEF ResourcesInv, OthersInv
<1>5. asserted' = asserted \/ (p \in Unknown /\ p \notin Live(pipelines'))
  <2>1. CASE p \in Live(pipeline)
    BY <2>1 DEF DestroyPipeline, Destroyable, ResourcesInv
  <2>2. CASE p \notin Live(pipeline)
    BY <1>3, <2>2 DEF Unknown
  <2> QED BY <2>1, <2>2
<1> QED BY <1>1, <1>2, <1>4, <1>5, ImagesKept, BuffersKept DEF ResourcesInv

-----------------------------------------------------------------------------

\* Steps of DeviceObjects make no assertion fail.
LEMMA ObjectsStep ==
    ASSUME ResourcesInv, ObjectsNext, UNCHANGED resourceVars
    PROVE  ResourcesInv' /\ asserted' = asserted
<1>1. OthersInv'
  BY DEF resourceVars, ResourcesInv, OthersInv
<1>2. ASSUME NEW i \in Images, CreateImage(i) \/ DestroyImage(i)
      PROVE  ResourcesInv' /\ asserted' = asserted
  <2>1. BuffersInv'
    BY <1>2, BuffersKept DEF CreateImage, DestroyImage, ResourcesInv
  <2>2. ImagesInv' /\ asserted' = asserted
    BY <1>2, ImagesCreateImage, ImagesDestroyImage DEF CreateImage, DestroyImage, ResourcesInv
  <2> QED BY <1>1, <2>1, <2>2 DEF ResourcesInv
<1>3. ASSUME NEW c \in Swapchains, NEW old \in Swapchains \cup {Null}, SwapchainFails(c, old)
      PROVE  ResourcesInv' /\ asserted' = asserted
  <2>1. BuffersInv' /\ asserted' = asserted
    BY <1>3, BuffersKept DEF SwapchainFails, layerVars, pools, ResourcesInv
  <2> QED BY <1>1, <1>3, <2>1, ImagesSwapchainFails DEF ResourcesInv
<1>4. ASSUME NEW c \in Swapchains, NEW old \in Swapchains \cup {Null},
             NEW images \in SUBSET Images, CreateSwapchainKHR(c, old, images)
      PROVE  ResourcesInv' /\ asserted' = asserted
  <2>1. UNCHANGED pools
    BY <1>4 DEF CreateSwapchainKHR
  <2>2. /\ ImagesInv' /\ Destroyable(image, Stolen(old, images))
        /\ Allocatable(image \ Stolen(old, images), images)
    BY <1>4, ImagesCreateSwapchain DEF ResourcesInv
  <2>3. asserted' = asserted
    BY <1>4, <2>2 DEF CreateSwapchainKHR, ResourcesInv
  <2> QED BY <1>1, <2>1, <2>2, <2>3, BuffersKept DEF ResourcesInv
<1>5. ASSUME NEW c \in Swapchains, DestroySwapchainKHR(c)
      PROVE  ResourcesInv' /\ asserted' = asserted
  <2>1. UNCHANGED pools
    BY <1>5 DEF DestroySwapchainKHR
  <2>2. ImagesInv' /\ asserted' = asserted
    BY <1>5, ImagesDestroySwapchain DEF DestroySwapchainKHR, ResourcesInv
  <2> QED BY <1>1, <2>1, <2>2, BuffersKept DEF ResourcesInv
<1>6. ASSUME NEW p \in Pools, CreateCommandPool(p) \/ DestroyCommandPool(p)
      PROVE  ResourcesInv' /\ asserted' = asserted
  <2>1. ImagesInv'
    BY <1>6, ImagesKept DEF CreateCommandPool, DestroyCommandPool, imageVars, ResourcesInv
  <2>2. BuffersInv' /\ asserted' = asserted
    BY <1>6, BuffersCreatePool, BuffersDestroyPool
       DEF CreateCommandPool, DestroyCommandPool, ResourcesInv
  <2> QED BY <1>1, <2>1, <2>2 DEF ResourcesInv
<1>7. ASSUME NEW p \in Pools, NEW buffers \in SUBSET CommandBuffers,
             AllocateCommandBuffers(p, buffers) \/ FreeCommandBuffers(p, buffers)
      PROVE  ResourcesInv' /\ asserted' = asserted
  <2>1. ImagesInv'
    BY <1>7, ImagesKept DEF AllocateCommandBuffers, FreeCommandBuffers, imageVars, ResourcesInv
  <2>2. BuffersInv' /\ asserted' = asserted
    BY <1>7, BuffersAllocate, BuffersFree
       DEF AllocateCommandBuffers, FreeCommandBuffers, ResourcesInv
  <2> QED BY <1>1, <2>1, <2>2 DEF ResourcesInv
<1> QED BY <1>2, <1>3, <1>4, <1>5, <1>6, <1>7 DEF ObjectsNext

\* The objects of an empty device.
LEMMA ResourcesInvInitially == ResourcesInit => ResourcesInv
  BY DEF ResourcesInit, ObjectsInit, ResourcesInv, ImagesInv, ImagesMatchDriver, ImagesApart,
         BuffersInv, BuffersMatchDriver, BuffersApart, OthersInv, UsedImages, UsedBuffers,
         EmptyMap, Live

\* Every step keeps the invariant, and can only make an assertion fail as described.
LEMMA ResourcesStep ==
    ASSUME ResourcesInv, [ResourcesNext]_allVars
    PROVE  /\ ResourcesInv'
           /\ \/ asserted' = asserted
              \/ \E p \in Unknown : p \notin Live(pipelines')
<1>1. CASE UNCHANGED allVars
  <2>1. UNCHANGED imageVars /\ UNCHANGED pools /\ UNCHANGED resourceVars /\ UNCHANGED asserted
    BY <1>1 DEF allVars, objectVars, layerVars, driverVars, imageVars, chains, pools
  <2> QED BY <2>1, ImagesKept, BuffersKept DEF ResourcesInv, OthersInv, resourceVars
<1>2. CASE ObjectsNext /\ UNCHANGED resourceVars
  BY <1>2, ObjectsStep
<1>3. ASSUME NEW batch \in SUBSET Pipelines, NEW made \in SUBSET Pipelines,
             CreatePipelines(batch, made)
      PROVE  ResourcesInv' /\ asserted' = asserted
  BY <1>3, OthersCreatePipelines
<1>4. ASSUME NEW p \in Pipelines, DestroyPipeline(p)
      PROVE  /\ ResourcesInv'
             /\ asserted' = asserted \/ (p \in Unknown /\ p \notin Live(pipelines'))
  BY <1>4, OthersDestroyPipeline
<1> QED BY <1>1, <1>2, <1>3, <1>4, OthersKinds DEF ResourcesNext

\* For every set of handles and size of swapchain, the layer's objects are those of the
\* driver: no command on a live handle misses its object, none outlives its handle.
THEOREM ObjectsCorrect == ResourcesSpec => []ObjectsMatchDriver
<1>1. ResourcesInit => ResourcesInv
  BY ResourcesInvInitially
<1>2. ResourcesInv /\ [ResourcesNext]_allVars => ResourcesInv'
  BY ResourcesStep
<1>3. ResourcesInv => ObjectsMatchDriver
  BY DEF ResourcesInv, ImagesInv, BuffersInv, OthersInv, ObjectsMatchDriver
<1> QED BY <1>1, <1>2, <1>3, PTL DEF ResourcesSpec

\* And the only call that makes an assertion on a map fail is the destruction of a
\* pipeline that came of a failed call.
THEOREM AssertionsCorrect == ResourcesSpec => AssertionsNeedFailedCall
<1>1. ResourcesInit => ResourcesInv
  BY ResourcesInvInitially
<1>2. ResourcesInv /\ [ResourcesNext]_allVars => ResourcesInv'
  BY ResourcesStep
<1>3. ResourcesInv /\ [ResourcesNext]_allVars =>
          [asserted /\ ~asserted' => \E p \in Unknown : p \notin Live(pipelines')]_allVars
  BY ResourcesStep
<1> QED BY <1>1, <1>2, <1>3, PTL DEF ResourcesSpec, AssertionsNeedFailedCall

-----------------------------------------------------------------------------
(* The advice on attachments.                                                *)

\* The three checks of an attachment with several samples agree.
LEMMA ChecksAgree == AttachmentAdviceAgrees
<1> SUFFICES ASSUME NEW a \in Attachments, NEW transient \in BOOLEAN, a.samples > 1
             PROVE  checkPotentiallyTransient(a, transient)
                        <=> NonLazyMultisampledImage(a.samples, transient) # checkMultisampling(a)
  BY DEF AttachmentAdviceAgrees
<1>1. a.samples # 1 /\ a.format \in {"R8G8B8A8_UNORM", "S8_UINT", "D24_UNORM_S8_UINT"}
  BY ChecksAssumption DEF Attachments
<1>2. /\ a.loadOp \in {"LOAD", "CLEAR"} /\ a.storeOp \in {"STORE", "DONT_CARE"}
      /\ a.stencilLoadOp \in {"LOAD", "CLEAR"} /\ a.stencilStoreOp \in {"STORE", "DONT_CARE"}
  BY DEF Attachments
<1>3. attachmentShouldBeTransient(a) <=> ~accessRequiresMemory(a)
  BY <1>1, <1>2 DEF attachmentShouldBeTransient, accessRequiresMemory
<1>4. checkMultisampling(a) <=> accessRequiresMemory(a)
  BY <1>1 DEF checkMultisampling
<1>5. attachmentShouldBeTransient(a) \in BOOLEAN /\ checkMultisampling(a) \in BOOLEAN
  BY DEF attachmentShouldBeTransient, checkMultisampling
<1> QED BY <1>3, <1>4, <1>5 DEF checkPotentiallyTransient, NonLazyMultisampledImage

\* An attachment that is cleared and not stored needs no memory: no check reports it.
LEMMA OperationsExist == OperationsCanBeChosen
<1> SUFFICES ASSUME NEW a \in Attachments
             PROVE  \E b \in Attachments :
                        /\ b.format = a.format /\ b.samples = a.samples
                        /\ ~checkMultisampling(b) /\ ~inefficientDepthStencilOps(b)
                        /\ \E transient \in BOOLEAN :
                               /\ ~NonLazyMultisampledImage(b.samples, transient)
                               /\ ~checkPotentiallyTransient(b, transient)
  BY DEF OperationsCanBeChosen
<1>1. PICK b : b = [format |-> a.format, samples |-> a.samples,
                    loadOp |-> "CLEAR", storeOp |-> "DONT_CARE",
                    stencilLoadOp |-> "CLEAR", stencilStoreOp |-> "DONT_CARE"]
  OBVIOUS
<1>2. b \in Attachments /\ b.format = a.format /\ b.samples = a.samples
  BY <1>1 DEF Attachments
<1>3. ~checkMultisampling(b)
  BY <1>1 DEF checkMultisampling, accessRequiresMemory
<1>4. ~inefficientDepthStencilOps(b)
  BY <1>1 DEF inefficientDepthStencilOps
<1>5. ~NonLazyMultisampledImage(b.samples, TRUE)
  BY DEF NonLazyMultisampledImage
<1>6. attachmentShouldBeTransient(b)
  BY <1>1 DEF attachmentShouldBeTransient
<1>7. ~checkPotentiallyTransient(b, TRUE)
  <2>1. attachmentShouldBeTransient(b) \in BOOLEAN
    BY DEF attachmentShouldBeTransient
  <2> QED BY <1>6, <2>1 DEF checkPotentiallyTransient
<1> QED BY <1>2, <1>3, <1>4, <1>5, <1>7

\* D24_UNORM_S8_UINT, D32_SFLOAT and R8G8B8A8_UNORM may be compressed.
LEMMA FormatsExist == FormatCanBeChosen
<1>1. getNumSamples(1) = 1
  <2>1. {n \in {2, 4, 8, 16, 32, 64} : (1 \div n) % 2 = 1} = {}
    OBVIOUS
  <2> QED BY <2>1 DEF getNumSamples, Max
<1>2. /\ ~NoFBCDC("D24_UNORM_S8_UINT", 1) /\ ~NoFBCDC("D32_SFLOAT", 1)
  BY <1>1 DEF NoFBCDC, formatIsDepthOnly, formatIsDepthStencil, formatIsStencilOnly
<1>3. ~NoFBCDC("R8G8B8A8_UNORM", 1)
  <2>1. getBPP("R8G8B8A8_UNORM") = 32
    BY DEF getBPP
  <2> QED BY <1>1, <2>1
      DEF NoFBCDC, formatIsDepthOnly, formatIsDepthStencil, formatIsStencilOnly
<1> SUFFICES ASSUME NEW f \in Formats, ~formatIsStencilOnly(f)
             PROVE  \E g \in Formats : SameKind(f, g) /\ ~NoFBCDC(g, 1)
  BY DEF FormatCanBeChosen
<1>4. CASE formatIsDepthOnly(f)
  <2>1. "D32_SFLOAT" \in Formats /\ SameKind(f, "D32_SFLOAT")
    BY <1>4 DEF Formats, SameKind, formatIsDepthOnly, formatIsDepthStencil, formatIsStencilOnly
  <2> QED BY <1>2, <2>1
<1>5. CASE formatIsDepthStencil(f)
  <2>1. "D24_UNORM_S8_UINT" \in Formats /\ SameKind(f, "D24_UNORM_S8_UINT")
    BY <1>5 DEF Formats, SameKind, formatIsDepthOnly, formatIsDepthStencil, formatIsStencilOnly
  <2> QED BY <1>2, <2>1
<1>6. CASE ~formatIsDepthOnly(f) /\ ~formatIsDepthStencil(f)
  <2>1. "R8G8B8A8_UNORM" \in Formats /\ SameKind(f, "R8G8B8A8_UNORM")
    BY <1>6 DEF Formats, SameKind, formatIsDepthOnly, formatIsDepthStencil, formatIsStencilOnly
  <2> QED BY <1>3, <2>1
<1> QED BY <1>4, <1>5, <1>6

\* The lowest lazily allocated type of those an image accepts is one of them.
LEMMA SuggestionsHelp == SuggestionHelps
<1> SUFFICES ASSUME NEW bits \in SUBSET MemoryTypes, NEW lazy \in SUBSET MemoryTypes,
                    LazyTypes(bits, lazy) # {}
             PROVE  suggestedType(bits, lazy) \in bits \cap lazy
  BY DEF SuggestionHelps, NonLazyTransientImage
<1>1. PICK T : T = LazyTypes(bits, lazy) /\ T = bits \cap lazy /\ T \subseteq Nat /\ T # {}
  BY ChecksAssumption DEF LazyTypes
<1>2. \E t \in T : \A u \in T : t <= u
  BY <1>1, LeastExists
<1>3. Min(T) \in T
  BY <1>2, Zenon DEF Min
<1> QED BY <1>1, <1>3 DEF suggestedType

\* For all sets of memory types and sample counts: the checks of images, passes and
\* framebuffers never contradict each other, and what they suggest is possible.
THEOREM AdviceFollowed == ResourcesSpec => []AdviceCanBeFollowed
<1>1. AdviceCanBeFollowed
  BY ChecksAgree, OperationsExist, FormatsExist, SuggestionsHelp DEF AdviceCanBeFollowed
<1> QED BY <1>1, PTL
-----------------------------------------------------------------------------
(* The numbers of the scan of an index buffer.                               *)

USE ScanAssumption

\* The least element of a set of numbers is Min of it.
LEMMA MinIsLeast ==
    ASSUME NEW T \in SUBSET Nat, T # {}
    PROVE  Min(T) \in T /\ \A u \in T : Min(T) <= u
<1>1. \E t \in T : \A u \in T : t <= u
  BY LeastExists
<1> QED BY <1>1, Zenon DEF Min

\* And Max is its greatest, when there is one.
LEMMA MaxIsGreatest ==
    ASSUME NEW N \in Nat, NEW T \in SUBSET (0 .. N), T # {}
    PROVE  Max(T) \in T /\ \A u \in T : u <= Max(T)
<1>1. PICK D : D = {N - t : t \in T}
  OBVIOUS
<1>2. D \in SUBSET Nat /\ D # {}
  <2>1. \A t \in T : N - t \in Nat
    OBVIOUS
  <2> QED BY <1>1, <2>1, Zenon
<1>3. PICK d \in D : \A e \in D : d <= e
  BY <1>2, LeastExists
<1>4. PICK t \in T : d = N - t
  BY <1>1, <1>3
<1>5. \A u \in T : t >= u
  <2> SUFFICES ASSUME NEW u \in T PROVE t >= u
    OBVIOUS
  <2>1. N - u \in D
    BY <1>1
  <2> QED BY <1>3, <1>4, <2>1
<1>6. Max(T) \in T /\ \A u \in T : Max(T) >= u
  BY <1>5, Zenon DEF Max
<1> QED BY <1>6

\* A word holds every number below its limit.
LEMMA UintOfSmall ==
    ASSUME NEW n \in Nat, n < 2 ^ Width
    PROVE  Uint(n) = n
BY DEF Uint

\* Indices fit a word.
LEMMA VerticesFit ==
    ASSUME NEW draw \in Draws
    PROVE  /\ Vertices(draw) \in SUBSET (0 .. 2 ^ Width - 1)
           /\ 2 ^ Width - 1 \in Nat
           /\ Len(draw.indices) \in Nat
BY DrawsAssumption DEF Vertices, Counted

\* When no index names a vertex, minValue and maxValue are as the first loop sets them.
LEMMA NoVertices ==
    ASSUME NEW draw \in Draws, Vertices(draw) = {}
    PROVE  MaxValue(draw) < MinValue(draw)
<1>1. 2 ^ Width - 1 \in Nat \ {0}
  OBVIOUS
<1>2. Min({2 ^ Width - 1}) = 2 ^ Width - 1
  BY <1>1, MinIsLeast
<1>3. Max({0}) = 0
  BY MaxIsGreatest
<1> QED BY <1>1, <1>2, <1>3 DEF MinValue, MaxValue

\* Otherwise they are the least and the greatest vertex.
LEMMA SpanOfVertices ==
    ASSUME NEW draw \in Draws, Vertices(draw) # {}
    PROVE  /\ MinValue(draw) = Min(Vertices(draw)) /\ MaxValue(draw) = Max(Vertices(draw))
           /\ MinValue(draw) \in Vertices(draw) /\ MaxValue(draw) \in Vertices(draw)
           /\ \A v \in Vertices(draw) : MinValue(draw) <= v /\ v <= MaxValue(draw)
<1>1. PICK V, top : V = Vertices(draw) /\ top = 2 ^ Width - 1
  OBVIOUS
<1>2. top \in Nat /\ V \in SUBSET (0 .. top) /\ V # {}
  BY <1>1, VerticesFit
<1>3. Min(V) \in V /\ \A u \in V : Min(V) <= u
  BY <1>2, MinIsLeast
<1>4. Max(V) \in V /\ \A u \in V : u <= Max(V)
  BY <1>2, MaxIsGreatest
<1>5. Min({top} \cup V) = Min(V)
  <2>1. PICK T : T = {top} \cup V
    OBVIOUS
  <2>2. T \in SUBSET Nat /\ T # {}
    BY <1>2, <2>1
  <2>3. Min(T) \in T /\ \A u \in T : Min(T) <= u
    BY <2>2, MinIsLeast
  <2>4. PICK m, k : m = Min(T) /\ k = Min(V)
    OBVIOUS
  <2>5. m \in Nat /\ k \in V /\ k \in Nat /\ m <= k
    BY <1>2, <1>3, <2>1, <2>2, <2>3, <2>4
  <2>6. k <= m
    BY <1>2, <1>3, <2>1, <2>3, <2>4, <2>5
  <2> QED BY <2>1, <2>4, <2>5, <2>6
<1>6. Max({0} \cup V) = Max(V)
  <2>1. PICK T : T = {0} \cup V
    OBVIOUS
  <2>2. T \in SUBSET (0 .. top) /\ T # {}
    BY <1>2, <2>1
  <2>3. Max(T) \in T /\ \A u \in T : u <= Max(T)
    BY <1>2, <2>2, MaxIsGreatest
  <2>4. PICK m, k : m = Max(T) /\ k = Max(V)
    OBVIOUS
  <2>5. m \in Nat /\ k \in V /\ k \in Nat /\ k <= m
    <3>1. k \in V /\ k \in T
      BY <1>4, <2>1, <2>4
    <3>2. m \in T /\ k <= m
      BY <2>3, <2>4, <3>1
    <3> QED BY <1>2, <2>2, <3>1, <3>2
  <2>6. m <= k
    BY <1>2, <1>4, <2>1, <2>3, <2>4, <2>5
  <2> QED BY <2>1, <2>4, <2>5, <2>6
<1> QED BY <1>1, <1>3, <1>4, <1>5, <1>6 DEF MinValue, MaxValue

\* Two distances that leave the same bit of the same bucket are the same.
LEMMA BitsDiffer ==
    ASSUME NEW d \in Nat, NEW e \in Nat, Bit(d) = Bit(e)
    PROVE  d = e
<1>1. d \div BucketBits = e \div BucketBits /\ d % BucketBits = e % BucketBits
  BY DEF Bit
<1> QED BY <1>1

\* buckets has an element for every distance up to span.
LEMMA BucketsSuffice ==
    ASSUME NEW span \in Nat, span + 1 + BucketBits <= 2 ^ Width, NEW d \in 0 .. span
    PROVE  Bit(d)[1] < Buckets(span)
<1>1. Uint(span + 1) = span + 1
  BY UintOfSmall
<1>2. Uint(span + 1 + BucketBits - 1) = span + BucketBits
  BY UintOfSmall
<1>3. Buckets(span) = (span + BucketBits) \div BucketBits
  BY <1>1, <1>2 DEF Buckets
<1>4. d \div BucketBits < (span + BucketBits) \div BucketBits
  OBVIOUS
<1> QED BY <1>3, <1>4 DEF Bit

\* The mark of a distance lies inside of fragmentation, even if its product wraps.
LEMMA MarksInside ==
    ASSUME NEW span \in Nat, span + 1 < 2 ^ Width, NEW d \in 0 .. span
    PROVE  Fragment(d, span) < FragmentSize
<1>1. Uint(span + 1) = span + 1
  BY UintOfSmall
<1>2. PICK p : p = d * FragmentSize
  OBVIOUS
<1>3. p \in Nat /\ p < (span + 1) * FragmentSize
  BY <1>2
<1>4. Uint(p) \in Nat /\ Uint(p) <= p
  BY <1>3 DEF Uint
<1>5. PICK q : q = Uint(p)
  OBVIOUS
<1>6. q \in Nat /\ q < (span + 1) * FragmentSize
  BY <1>3, <1>4, <1>5
<1>7. q \div (span + 1) < FragmentSize
  BY <1>6
<1> QED BY <1>1, <1>2, <1>5, <1>7 DEF Fragment

\* The bits set in buckets are as many as the vertices.
LEMMA BitsCountVertices ==
    ASSUME NEW draw \in Draws, Vertices(draw) # {}, NEW bits,
           bits = {Bit(d) : d \in {v - MinValue(draw) : v \in Vertices(draw)}}
    PROVE  /\ Cardinality(bits) = Cardinality(Vertices(draw))
           /\ Cardinality(bits) \in Nat /\ Cardinality(bits) > 0
<1>1. PICK V, low : V = Vertices(draw) /\ low = MinValue(draw)
  OBVIOUS
<1>2. PICK top \in Nat : V \in SUBSET (0 .. top)
  BY <1>1, VerticesFit
<1>3. IsFiniteSet(V)
  <2>1. IsFiniteSet(0 .. top)
    BY FS_Interval
  <2> QED BY <1>2, <2>1, FS_Subset
<1>4. V # {} /\ low \in V /\ \A v \in V : low <= v
  BY <1>1, SpanOfVertices
<1>5. bits = {Bit(v - low) : v \in V}
  BY <1>1
<1>6. \A v \in V : v - low \in Nat /\ v \in Int /\ low \in Int
  BY <1>2, <1>4
<1>7. PICK f : f = [v \in V |-> Bit(v - low)]
  OBVIOUS
<1>8. f \in Bijection(V, bits)
  <2>1. f \in [V -> bits]
    BY <1>5, <1>7
  <2>2. ASSUME NEW v \in V, NEW w \in V, f[v] = f[w] PROVE v = w
    <3>1. Bit(v - low) = Bit(w - low)
      BY <1>7, <2>2
    <3>2. v - low = w - low
      BY <1>6, <3>1, BitsDiffer
    <3> QED BY <1>6, <3>2
  <2>3. \A b \in bits : \E v \in V : f[v] = b
    BY <1>5, <1>7
  <2> QED BY <2>1, <2>2, <2>3 DEF Bijection, Injection, Surjection, IsInjective
<1>9. Cardinality(bits) = Cardinality(V)
  BY <1>3, <1>8, FS_Bijection DEF ExistsBijection
<1>10. Cardinality(V) \in Nat /\ Cardinality(V) # 0
  BY <1>3, <1>4, FS_CardinalityType, FS_EmptySet
<1> QED BY <1>1, <1>9, <1>10

\* What the second loop of a draw finds, in terms of its vertices.
LEMMA SecondLoopOfVertices ==
    ASSUME NEW draw \in Draws, Vertices(draw) # {}, ~ SpanTooWide(draw), NEW shadeCount, NEW out,
           out = SecondLoop(draw, shadeCount)
    PROVE  /\ out.referenced = Cardinality(Vertices(draw)) /\ out.referenced > 0
           /\ \A i \in out.written : i < out.buckets
           /\ \A f \in out.fragments : f < FragmentSize
           /\ "INDEX_BUFFER_SPARSE" \in out.reports <=>
                  QuotientLess(out.referenced, MaxValue(draw) - MinValue(draw) + 1,
                               utilizationThreshold)
<1>1. PICK V, low, span, offsets, bits :
          /\ V = Vertices(draw)
          /\ low = MinValue(draw)
          /\ span = MaxValue(draw) - low
          /\ offsets = {v - low : v \in V}
          /\ bits = {Bit(d) : d \in offsets}
  OBVIOUS
<1>2. span \in Nat /\ span < Len(draw.indices) /\ offsets \in SUBSET (0 .. span)
  <2>1. V \in SUBSET Nat /\ low \in V /\ MaxValue(draw) \in V
        /\ \A v \in V : low <= v /\ v <= MaxValue(draw)
    BY <1>1, VerticesFit, SpanOfVertices
  <2>2. span \in Nat
    BY <1>1, <2>1
  <2>3. \A v \in V : v - low \in 0 .. span
    BY <1>1, <2>1
  <2>4. offsets \in SUBSET (0 .. span)
    BY <1>1, <2>3
  <2> QED BY <1>1, <2>2, <2>4, VerticesFit DEF SpanTooWide
<1>3. span + 1 + BucketBits <= 2 ^ Width /\ span + 1 < 2 ^ Width
  BY <1>2, DrawsAssumption, VerticesFit
<1>4. Uint(span + 1) = span + 1
  BY <1>2, <1>3, UintOfSmall
<1>5. Cardinality(bits) = Cardinality(V) /\ Cardinality(bits) > 0
  BY <1>1, BitsCountVertices
<1>6. /\ out.buckets = Buckets(span)
      /\ out.written = {b[1] : b \in bits}
      /\ out.fragments = {Fragment(d, span) : d \in offsets}
      /\ out.referenced = Cardinality(bits)
      /\ "INDEX_BUFFER_SPARSE" \in out.reports <=>
             QuotientLess(Cardinality(bits), span + 1, utilizationThreshold)
  BY <1>1, <1>4 DEF SecondLoop
<1>7. \A i \in out.written : i < out.buckets
  <2>1. \A d \in offsets : Bit(d)[1] < Buckets(span)
    BY <1>2, <1>3, BucketsSuffice
  <2>2. \A b \in bits : b[1] < Buckets(span)
    BY <1>1, <2>1
  <2> QED BY <1>6, <2>2
<1>8. \A f \in out.fragments : f < FragmentSize
  BY <1>2, <1>3, <1>6, MarksInside
<1> QED BY <1>1, <1>5, <1>6, <1>7, <1>8

\* Up to FloatLimit, rounding changes nothing that is the threshold or more, or the
\* float before it or less.
LEMMA QuotientsRounded ==
    ASSUME NEW n \in Nat, NEW m \in Nat \ {0}, n <= FloatLimit, m <= FloatLimit,
           NEW t \in FloatValues
    PROVE  /\ QuotientLess(n, m, t) => ReallyLess(n, m, t)
           /\ AtMostPrevious(n, m, t) => QuotientLess(n, m, t)
<1>1. Float(n) = n /\ Float(m) = m
  BY DEF Float
<1>2. PICK mantissa, denominator :
          mantissa = t.mantissa /\ denominator = t.denominator
  OBVIOUS
<1>3. mantissa \in Nat /\ denominator \in Nat
  BY <1>2, FloatAssumption DEF FloatValues
<1>4. PICK a, b : a = denominator * n /\ b = mantissa * m
  OBVIOUS
<1>5. a \in Nat /\ b \in Nat
  BY <1>3, <1>4
<1>6. ReallyLess(n, m, t) <=> a < b
  BY <1>2, <1>4 DEF ReallyLess
<1>7. CASE mantissa = FloatLimit \div 2
  <2>1. 4 * denominator * n = 4 * a /\ (4 * mantissa - 1) * m = 4 * b - m
    BY <1>3, <1>4
  <2>2. QuotientLess(n, m, t) <=>
            4 * a < 4 * b - m \/ (4 * a = 4 * b - m /\ mantissa % 2 = 1)
    BY <1>1, <1>2, <1>7, <2>1 DEF QuotientLess, Halves
  <2>3. 2 * denominator * n = 2 * a /\ (2 * mantissa - 1) * m = 2 * b - m
    BY <1>3, <1>4
  <2>4. AtMostPrevious(n, m, t) <=> 2 * a <= 2 * b - m
    BY <1>2, <1>7, <2>3 DEF AtMostPrevious
  <2> QED BY <1>5, <1>6, <2>2, <2>4
<1>8. CASE mantissa # FloatLimit \div 2
  <2>1. 2 * denominator * n = 2 * a /\ (2 * mantissa - 1) * m = 2 * b - m
    BY <1>3, <1>4
  <2>2. QuotientLess(n, m, t) <=>
            2 * a < 2 * b - m \/ (2 * a = 2 * b - m /\ mantissa % 2 = 1)
    BY <1>1, <1>2, <1>8, <2>1 DEF QuotientLess, Halves
  <2>3. (mantissa - 1) * m = b - m
    BY <1>3, <1>4
  <2>4. AtMostPrevious(n, m, t) <=> a <= b - m
    BY <1>2, <1>4, <1>8, <2>3 DEF AtMostPrevious
  <2> QED BY <1>5, <1>6, <2>2, <2>4
<1> QED BY <1>7, <1>8

\* No more vertices lie in a range than numbers.
LEMMA VerticesInRange ==
    ASSUME NEW V, NEW low \in Nat, NEW high \in Nat, low <= high, V \in SUBSET (low .. high)
    PROVE  Cardinality(V) \in Nat /\ Cardinality(V) <= high - low + 1
<1>1. IsFiniteSet(low .. high) /\ Cardinality(low .. high) = high - low + 1
  BY FS_Interval
<1>2. IsFiniteSet(V) /\ Cardinality(V) <= Cardinality(low .. high)
  BY <1>1, FS_Subset
<1>3. Cardinality(V) \in Nat
  BY <1>2, FS_CardinalityType
<1> QED BY <1>1, <1>2, <1>3

\* What SparseReportsRight says of a draw and its reports.
SparseWhenReported(draw, reports) ==
    LET vertices == Vertices(draw)
        used == Cardinality(vertices)
        range == Max(vertices) - Min(vertices) + 1
        reported == "INDEX_BUFFER_SPARSE" \in reports
    IN  IF vertices = {} THEN ~ reported
        ELSE IF range > Len(draw.indices) THEN reported
        ELSE range <= FloatLimit =>
                 /\ reported => ReallyLess(used, range, utilizationThreshold)
                 /\ AtMostPrevious(used, range, utilizationThreshold) => reported

\* What a scan does after its first loop, for every draw and every count of shaded
\* vertices.
LEMMA OutcomeOfDraw ==
    ASSUME NEW draw \in Draws, NEW shadeCount, NEW out, out = Outcome(draw, shadeCount)
    PROVE  /\ \A i \in out.written : i < out.buckets
           /\ \A f \in out.fragments : f < FragmentSize
           /\ out.referenced > 0 => Vertices(draw) # {}
           /\ SparseWhenReported(draw, out.reports)
<1>1. ASSUME NEW reports, out = NoLoop(reports)
      PROVE  out.written = {} /\ out.fragments = {} /\ out.referenced = 0 /\ out.reports = reports
  BY <1>1 DEF NoLoop
<1>2. CASE Vertices(draw) = {}
  <2>1. out = NoLoop({})
    BY <1>2, NoVertices DEF Outcome
  <2> QED BY <1>1, <1>2, <2>1 DEF SparseWhenReported
<1>3. CASE Vertices(draw) # {}
  <2>1. PICK low, high : low = MinValue(draw) /\ high = MaxValue(draw)
    OBVIOUS
  <2>2. /\ low \in Nat /\ high \in Nat /\ low <= high /\ Len(draw.indices) \in Nat
        /\ low = Min(Vertices(draw)) /\ high = Max(Vertices(draw))
    BY <1>3, <2>1, SpanOfVertices, VerticesFit
  <2>3. SpanTooWide(draw) <=> high - low + 1 > Len(draw.indices)
    BY <2>1, <2>2 DEF SpanTooWide
  <2>4. CASE SpanTooWide(draw)
    <3>1. out = NoLoop({"INDEX_BUFFER_SPARSE"})
      BY <2>1, <2>2, <2>4 DEF Outcome
    <3> QED BY <1>1, <1>3, <2>2, <2>3, <2>4, <3>1 DEF SparseWhenReported
  <2>5. CASE ~ SpanTooWide(draw)
    <3>1. out = SecondLoop(draw, shadeCount)
      BY <2>1, <2>2, <2>5 DEF Outcome
    <3>2. /\ out.referenced = Cardinality(Vertices(draw))
          /\ \A i \in out.written : i < out.buckets
          /\ \A f \in out.fragments : f < FragmentSize
          /\ "INDEX_BUFFER_SPARSE" \in out.reports <=>
                 QuotientLess(out.referenced, high - low + 1, utilizationThreshold)
      BY <1>3, <2>1, <2>5, <3>1, SecondLoopOfVertices
    <3>3. PICK range \in Nat \ {0} : range = high - low + 1
      BY <2>2
    <3>4. PICK used : used = Cardinality(Vertices(draw))
      OBVIOUS
    <3>5. used \in Nat /\ used <= range
      <4>1. Vertices(draw) \in SUBSET (low .. high)
        BY <1>3, <2>1, <2>2, SpanOfVertices, VerticesFit
      <4> QED BY <2>2, <3>3, <3>4, <4>1, VerticesInRange
    <3>6. ASSUME range <= FloatLimit
          PROVE  /\ QuotientLess(used, range, utilizationThreshold)
                        => ReallyLess(used, range, utilizationThreshold)
                 /\ AtMostPrevious(used, range, utilizationThreshold)
                        => QuotientLess(used, range, utilizationThreshold)
      BY <3>5, <3>6, QuotientsRounded, ScanAssumption, FloatAssumption
    <3>7. "INDEX_BUFFER_SPARSE" \in out.reports <=> QuotientLess(used, range, utilizationThreshold)
      BY <3>2, <3>3, <3>4
    <3>8. range = Max(Vertices(draw)) - Min(Vertices(draw)) + 1 /\ ~ (range > Len(draw.indices))
      BY <2>2, <2>3, <2>5, <3>3
    <3>9. SparseWhenReported(draw, out.reports)
      BY <1>3, <3>4, <3>6, <3>7, <3>8 DEF SparseWhenReported
    <3> QED BY <1>3, <3>2, <3>9
  <2> QED BY <2>4, <2>5
<1> QED BY <1>2, <1>3

-----------------------------------------------------------------------------
(* The first loop of the scan, index by index.                               *)

Caches == [Slots -> [value : Nat, age : Nat]]

\* What the scan and its draw are made of.
ScanTypeOK ==
    /\ cacheEntries \in Caches
    /\ scan # NoScan =>
           /\ scan \in [draw : Draws, found : Caches, position : Nat, iteration : Nat,
                        shaded : SUBSET Nat]
           /\ scan.position <= Len(scan.draw.indices)

\* The second loop comes after the first, which it leaves alone.
OutcomeInv ==
    outcome # NoOutcome =>
        /\ scan # NoScan
        /\ scan.position = Len(scan.draw.indices)
        /\ outcome = Outcome(scan.draw, Cardinality(scan.shaded))

Found == {scan.found[i].value : i \in Slots}

\* What was visited, or is in the cache, was in the cache before the scan or has been
\* shaded since.
KnownInv ==
    scan # NoScan =>
        /\ \A n \in Visited : scan.draw.indices[n] \in Found \cup Shaded
        /\ \A i \in Slots : cacheEntries[i].value \in Found \cup Shaded

\* The last vertex is in a slot testCache looks at, which is why it is found again; the
\* first one is shaded, as there is no such slot.
LastInv ==
    scan # NoScan =>
        /\ scan.shaded \subseteq Visited \ Repeats
        /\ Visited = {} => scan.iteration = 0
        /\ Visited # {} =>
               /\ scan.shaded # {}
               /\ \E n \in Visited : /\ \A k \in Visited : k <= n
                                     /\ \E i \in Looked(scan.iteration) :
                                            cacheEntries[i].value = scan.draw.indices[n]

ScanInv == ScanTypeOK /\ OutcomeInv /\ KnownInv /\ LastInv

\* The slots testCache looks at are the first iteration of the cache.
LEMMA LookedAre ==
    ASSUME NEW iteration \in Nat
    PROVE  Looked(iteration) = {i \in Slots : i < iteration}
<1>1. PICK least : least = Min({iteration, cacheSize})
  OBVIOUS
<1>2. {iteration, cacheSize} \in SUBSET Nat /\ {iteration, cacheSize} # {}
  OBVIOUS
<1>3. least \in {iteration, cacheSize} /\ \A u \in {iteration, cacheSize} : least <= u
  BY <1>1, <1>2, MinIsLeast
<1>4. least \in Nat /\ least <= iteration /\ least <= cacheSize
      /\ (least = iteration \/ least = cacheSize)
  BY <1>3
<1>5. Looked(iteration) = 0 .. least - 1
  BY <1>1 DEF Looked
<1> QED BY <1>4, <1>5 DEF Slots

\* There is an oldest entry.
LEMMA OldestIsSlot ==
    ASSUME NEW cache \in Caches
    PROVE  Oldest(cache) \in Slots
<1>1. PICK ages : ages = {cache[i].age : i \in Slots}
  OBVIOUS
<1>2. ages \in SUBSET Nat /\ ages # {}
  <2>1. 0 \in Slots
    BY DEF Slots
  <2>2. \A i \in Slots : cache[i].age \in Nat
    BY DEF Caches
  <2> QED BY <1>1, <2>1, <2>2
<1>3. PICK age \in ages : \A a \in ages : age <= a
  BY <1>2, LeastExists
<1>4. PICK oldest : oldest = {i \in Slots : \A j \in Slots : cache[i].age <= cache[j].age}
  OBVIOUS
<1>5. oldest \in SUBSET Nat /\ oldest # {}
  <2>1. oldest \in SUBSET Nat
    BY <1>4 DEF Slots
  <2>2. PICK i \in Slots : cache[i].age = age
    BY <1>1, <1>3
  <2>3. i \in oldest
    BY <1>1, <1>3, <1>4, <2>2
  <2> QED BY <2>1, <2>3
<1>6. Min(oldest) \in oldest
  BY <1>5, MinIsLeast
<1> QED BY <1>4, <1>6 DEF Oldest

\* testCache writes inside of the cache, into a slot the next index will look at.
LEMMA SlotIsLookedAt ==
    ASSUME NEW cache \in Caches, NEW value, NEW iteration \in Nat
    PROVE  /\ SlotFor(cache, value, iteration) \in Slots
           /\ SlotFor(cache, value, iteration) \in Looked(iteration + 1)
<1>1. iteration + 1 \in Nat
  OBVIOUS
<1>2. Looked(iteration + 1) = {i \in Slots : i < iteration + 1}
  BY <1>1, LookedAre
<1>3. Looked(iteration) = {i \in Slots : i < iteration}
  BY LookedAre
<1>4. CASE Holding(cache, value, iteration) # {}
  <2>1. PICK holding : holding = Holding(cache, value, iteration)
    OBVIOUS
  <2>2. holding \in SUBSET Nat /\ holding # {} /\ holding \in SUBSET {i \in Slots : i < iteration}
    BY <1>3, <1>4, <2>1 DEF Holding, Slots
  <2>3. Min(holding) \in holding
    BY <2>2, MinIsLeast
  <2>4. SlotFor(cache, value, iteration) = Min(holding)
    BY <1>4, <2>1 DEF SlotFor
  <2>5. Min(holding) \in Slots /\ Min(holding) < iteration
    BY <2>2, <2>3
  <2> QED BY <1>2, <2>4, <2>5 DEF Slots
<1>5. CASE Holding(cache, value, iteration) = {} /\ iteration < cacheSize
  BY <1>2, <1>5 DEF SlotFor, Slots
<1>6. CASE Holding(cache, value, iteration) = {} /\ ~ (iteration < cacheSize)
  <2>1. SlotFor(cache, value, iteration) = Oldest(cache)
    BY <1>6 DEF SlotFor
  <2>2. Oldest(cache) \in Slots
    BY OldestIsSlot
  <2> QED BY <1>2, <1>6, <2>1, <2>2 DEF Slots
<1> QED BY <1>4, <1>5, <1>6

\* Holds before the first scan.
LEMMA ScanInvInitially == ScanInit => ScanInv
BY DEF ScanInit, ScanInv, ScanTypeOK, OutcomeInv, KnownInv, LastInv, Caches

\* A step of nothing of the scan.
LEMMA ScanInvKept ==
    ASSUME ScanInv, UNCHANGED <<cacheEntries, scan, outcome>>
    PROVE  ScanInv'
<1>1. /\ scan' = scan /\ cacheEntries' = cacheEntries /\ outcome' = outcome
      /\ Visited' = Visited /\ Found' = Found /\ Shaded' = Shaded
  BY DEF Found, Shaded, Visited
<1>2. Repeats' = Repeats
  BY <1>1 DEF Repeats
<1>3. ScanTypeOK' /\ OutcomeInv'
  BY <1>1 DEF ScanInv, ScanTypeOK, OutcomeInv
<1>4. KnownInv'
  BY <1>1 DEF ScanInv, KnownInv
<1>5. LastInv'
  BY <1>1, <1>2 DEF ScanInv, LastInv
<1> QED BY <1>3, <1>4, <1>5 DEF ScanInv

\* The second loop and the return of scanIndices.
LEMMA ScanInvReports ==
    ASSUME ScanInv, ScanReports
    PROVE  ScanInv'
<1>1. /\ scan' = scan /\ cacheEntries' = cacheEntries /\ scan # NoScan
      /\ scan.position = Len(scan.draw.indices)
      /\ outcome' = Outcome(scan.draw, Cardinality(scan.shaded))
      /\ Visited' = Visited /\ Found' = Found /\ Shaded' = Shaded
  BY DEF ScanReports, Found, Shaded, Visited
<1>2. Repeats' = Repeats
  BY <1>1 DEF Repeats
<1>3. ScanTypeOK'
  BY <1>1 DEF ScanInv, ScanTypeOK
<1>4. OutcomeInv'
  BY <1>1 DEF OutcomeInv
<1>5. KnownInv'
  BY <1>1 DEF ScanInv, KnownInv
<1>6. LastInv'
  BY <1>1, <1>2 DEF ScanInv, LastInv
<1> QED BY <1>3, <1>4, <1>5, <1>6 DEF ScanInv

LEMMA ScanInvReturns ==
    ASSUME ScanInv, ScanReturns
    PROVE  ScanInv'
BY DEF ScanReturns, ScanInv, ScanTypeOK, OutcomeInv, KnownInv, LastInv

\* A scan begins with nothing visited.
LEMMA ScanInvBegins ==
    ASSUME ScanInv, NEW b \in Buffers, NEW draw \in Draws, ScanIndices(b, draw)
    PROVE  ScanInv'
<1>1. /\ scan' = [draw |-> draw, found |-> cacheEntries, position |-> 0, iteration |-> 0,
                  shaded |-> {}]
      /\ cacheEntries' = cacheEntries /\ outcome' = outcome /\ scan = NoScan
  BY DEF ScanIndices
<1>2. /\ scan'.draw = draw /\ scan'.found = cacheEntries /\ scan'.position = 0
      /\ scan'.iteration = 0 /\ scan'.shaded = {}
  BY <1>1
<1>3. Visited' = {}
  BY <1>2, VerticesFit DEF Visited, Counted
<1>4. ScanTypeOK'
  BY <1>1, <1>2, VerticesFit DEF ScanInv, ScanTypeOK
<1>5. OutcomeInv'
  BY <1>1 DEF ScanInv, OutcomeInv
<1>6. KnownInv'
  BY <1>1, <1>2, <1>3 DEF KnownInv, Found
<1>7. LastInv'
  BY <1>2, <1>3 DEF LastInv
<1> QED BY <1>4, <1>5, <1>6, <1>7 DEF ScanInv

\* One index of the first loop: a restart value leaves everything as it was, a vertex
\* is found in a slot or shaded, and is the last one visited.
LEMMA ScanInvVisits ==
    ASSUME ScanInv, VisitIndex
    PROVE  ScanInv'
<1>1. PICK draw, found, position, iteration, shaded, n, value, slot :
          /\ draw = scan.draw /\ found = scan.found /\ iteration = scan.iteration
          /\ position = scan.position /\ n = position + 1
          /\ shaded = scan.shaded /\ value = draw.indices[n]
          /\ slot = SlotFor(cacheEntries, value, iteration)
  OBVIOUS
<1>2. /\ scan # NoScan /\ outcome' = outcome /\ position < Len(draw.indices)
      /\ scan = [draw |-> draw, found |-> found, position |-> position,
                 iteration |-> iteration, shaded |-> shaded]
      /\ draw \in Draws /\ found \in Caches /\ position \in Nat /\ iteration \in Nat
      /\ shaded \in SUBSET Nat
      /\ cacheEntries \in Caches
  BY <1>1 DEF VisitIndex, ScanInv, ScanTypeOK
<1>3. n \in 1 .. Len(draw.indices) /\ value \in Nat /\ position = n - 1
  <2>1. PICK indices, len : indices = draw.indices /\ len = Len(indices)
    OBVIOUS
  <2>2. len \in Nat /\ indices \in Seq(0 .. 2 ^ Width - 1)
    BY <1>2, <2>1, DrawsAssumption
  <2>3. position \in Nat /\ n = position + 1 /\ position < len
    BY <1>1, <1>2, <2>1
  <2>4. n \in 1 .. len /\ position = n - 1
    BY <2>2, <2>3
  <2>5. indices[n] \in 0 .. 2 ^ Width - 1
    BY <2>1, <2>2, <2>4
  <2> QED BY <1>1, <2>1, <2>4, <2>5
<1>4. OutcomeInv'
  BY <1>1, <1>2, <1>3 DEF ScanInv, OutcomeInv
<1>5. PICK visited : visited = Visited
  OBVIOUS
<1>6. visited = {m \in Counted(draw) : m <= n - 1} /\ visited \in SUBSET Nat
  <2>1. visited = {m \in Counted(draw) : m <= position}
    BY <1>1, <1>5 DEF Visited
  <2>2. Counted(draw) \in SUBSET Nat
    BY <1>2, VerticesFit DEF Counted
  <2> QED BY <1>3, <2>1, <2>2
<1>7. CASE n \notin Counted(draw)
  <2>1. scan' = [scan EXCEPT !.position = n] /\ cacheEntries' = cacheEntries
    BY <1>1, <1>7 DEF VisitIndex
  <2>2. /\ scan'.draw = draw /\ scan'.found = found /\ scan'.position = n
        /\ scan'.iteration = iteration /\ scan'.shaded = shaded
        /\ scan' = [draw |-> draw, found |-> found, position |-> n, iteration |-> iteration,
                    shaded |-> shaded]
    BY <1>2, <2>1
  <2>3. Visited' = Visited
    <3>1. Visited' = {m \in Counted(draw) : m <= n}
      BY <2>2 DEF Visited
    <3> QED BY <1>3, <1>5, <1>6, <1>7, <3>1 DEF Counted
  <2>4. ScanTypeOK'
    <3>1. n \in Nat /\ n <= Len(draw.indices)
      BY <1>2, <1>3, VerticesFit
    <3>2. scan' \in [draw : Draws, found : Caches, position : Nat, iteration : Nat,
                     shaded : SUBSET Nat]
      BY <1>2, <2>2, <3>1
    <3> QED BY <1>2, <2>1, <2>2, <3>1, <3>2 DEF ScanTypeOK
  <2>5. Shaded' = Shaded /\ Found' = Found /\ Repeats' = Repeats
    BY <1>1, <2>2, <2>3 DEF Shaded, Found, Repeats
  <2>6. KnownInv'
    BY <1>1, <1>2, <2>1, <2>2, <2>3, <2>5 DEF ScanInv, KnownInv
  <2>7. Looked(scan'.iteration) = Looked(scan.iteration)
    BY <1>1, <2>2
  <2>8. LastInv'
    BY <1>1, <1>2, <2>1, <2>2, <2>3, <2>5, <2>7 DEF ScanInv, LastInv
  <2> QED BY <1>4, <2>4, <2>6, <2>8 DEF ScanInv
<1>8. CASE n \in Counted(draw)
  <2>1. PICK missed : missed = IF Missed(cacheEntries, value, iteration)
                               THEN shaded \cup {n} ELSE shaded
    OBVIOUS
  <2>2. /\ cacheEntries' = [cacheEntries EXCEPT ![slot] = [value |-> value, age |-> iteration]]
        /\ scan' = [scan EXCEPT !.position = n, !.iteration = iteration + 1, !.shaded = missed]
    BY <1>1, <1>8, <2>1 DEF VisitIndex
  <2>3. /\ scan'.draw = draw /\ scan'.found = found /\ scan'.position = n
        /\ scan'.iteration = iteration + 1 /\ scan'.shaded = missed
        /\ scan' = [draw |-> draw, found |-> found, position |-> n,
                    iteration |-> iteration + 1, shaded |-> missed]
    BY <1>2, <2>2
  <2>19. missed \in SUBSET Nat /\ iteration + 1 \in Nat /\ n \in Nat
    BY <1>2, <1>3, <2>1
  <2>4. slot \in Slots /\ slot \in Looked(iteration + 1)
    BY <1>1, <1>2, <1>3, SlotIsLookedAt
  <2>5. /\ cacheEntries' \in Caches /\ cacheEntries'[slot].value = value
        /\ \A i \in Slots \ {slot} : cacheEntries'[i] = cacheEntries[i]
    BY <1>2, <1>3, <2>2, <2>4 DEF Caches
  <2>6. ScanTypeOK'
    <3>1. n <= Len(draw.indices)
      BY <1>2, <1>3, VerticesFit
    <3>2. scan' \in [draw : Draws, found : Caches, position : Nat, iteration : Nat,
                     shaded : SUBSET Nat]
      BY <1>2, <2>3, <2>19
    <3> QED BY <2>3, <2>5, <3>1, <3>2 DEF ScanTypeOK
  <2>7. Visited' = visited \cup {n} /\ \A m \in visited : m \in Nat /\ m < n
    <3>1. Visited' = {m \in Counted(draw) : m <= n}
      BY <2>3 DEF Visited
    <3> QED BY <1>3, <1>6, <1>8, <3>1 DEF Counted
  <2>8. Shaded' = {draw.indices[m] : m \in missed} /\ Found' = Found
        /\ Shaded = {draw.indices[m] : m \in shaded}
    BY <1>1, <2>3 DEF Shaded, Found
  <2>9. value \in Found \cup Shaded'
    <3>1. CASE Missed(cacheEntries, value, iteration)
      BY <1>1, <2>1, <2>8, <3>1
    <3>2. CASE ~ Missed(cacheEntries, value, iteration)
      <4>1. PICK i \in Looked(iteration) : cacheEntries[i].value = value
        BY <3>2 DEF Missed, Holding
      <4>2. i \in Slots
        BY <1>2, <4>1, LookedAre
      <4>3. value \in Found \cup Shaded
        BY <1>2, <4>1, <4>2 DEF ScanInv, KnownInv
      <4> QED BY <2>1, <2>8, <4>3
    <3> QED BY <3>1, <3>2
  <2>10. Found \cup Shaded \subseteq Found \cup Shaded'
    BY <2>1, <2>8
  <2>11. KnownInv'
    <3>1. ASSUME NEW m \in Visited' PROVE draw.indices[m] \in Found \cup Shaded'
      <4>1. CASE m = n
        BY <1>1, <2>9, <4>1
      <4>2. CASE m \in visited
        BY <1>1, <1>2, <1>5, <2>10, <4>2 DEF ScanInv, KnownInv
      <4> QED BY <2>7, <4>1, <4>2
    <3>2. ASSUME NEW i \in Slots PROVE cacheEntries'[i].value \in Found \cup Shaded'
      BY <1>2, <2>5, <2>9, <2>10 DEF ScanInv, KnownInv
    <3> QED BY <2>3, <2>8, <3>1, <3>2 DEF KnownInv
  <2>12. shaded \subseteq visited /\ shaded \cap Repeats = {}
    BY <1>1, <1>2, <1>5 DEF ScanInv, LastInv
  <2>13. Repeats' \cap visited \subseteq Repeats
    <3>1. ASSUME NEW m \in visited, NEW l \in Visited', l < m, draw.indices[l] = draw.indices[m],
                 \A k \in Visited' : ~ (l < k /\ k < m)
          PROVE  m \in Repeats
      <4>1. l \in visited
        BY <1>3, <2>7, <3>1
      <4> QED BY <1>1, <1>5, <2>7, <3>1, <4>1 DEF Repeats
    <3> QED BY <2>3, <3>1 DEF Repeats
  <2>14. Missed(cacheEntries, value, iteration) => n \notin Repeats'
    <3> SUFFICES ASSUME n \in Repeats' PROVE ~ Missed(cacheEntries, value, iteration)
      OBVIOUS
    <3>1. PICK l \in Visited' : /\ l < n /\ draw.indices[l] = value
                                /\ \A k \in Visited' : ~ (l < k /\ k < n)
      BY <1>1, <2>3 DEF Repeats
    <3>2. l \in visited /\ \A k \in visited : ~ (l < k)
      BY <2>7, <3>1
    <3>3. PICK last \in visited : /\ \A k \in visited : k <= last
                                  /\ \E i \in Looked(iteration) :
                                         cacheEntries[i].value = draw.indices[last]
      BY <1>1, <1>2, <1>5, <3>2 DEF ScanInv, LastInv
    <3>4. last = l
      BY <2>7, <3>2, <3>3
    <3> QED BY <3>1, <3>3, <3>4 DEF Missed, Holding
  <2>15. missed \subseteq Visited' \ Repeats'
    BY <2>1, <2>7, <2>12, <2>13, <2>14
  <2>16. missed # {}
    <3>1. CASE visited # {}
      BY <1>1, <1>2, <1>5, <2>1, <3>1 DEF ScanInv, LastInv
    <3>2. CASE visited = {}
      <4>1. iteration = 0
        BY <1>1, <1>2, <1>5, <3>2 DEF ScanInv, LastInv
      <4>2. Looked(iteration) = {}
        BY <1>3, <4>1, LookedAre DEF Slots
      <4>3. Missed(cacheEntries, value, iteration)
        BY <4>2 DEF Missed, Holding
      <4> QED BY <2>1, <4>3
    <3> QED BY <3>1, <3>2
  <2>17. \A k \in Visited' : k <= n
    BY <1>3, <2>7
  <2>18. LastInv'
    <3>1. n \in Visited'
      BY <2>7
    <3>2. cacheEntries'[slot].value = scan'.draw.indices[n] /\ slot \in Looked(scan'.iteration)
      BY <1>1, <2>3, <2>4, <2>5
    <3> QED BY <2>3, <2>15, <2>16, <2>17, <3>1, <3>2 DEF LastInv
  <2> QED BY <1>4, <2>6, <2>11, <2>18 DEF ScanInv
<1> QED BY <1>7, <1>8

\* Every step keeps it.
LEMMA ScanInvStep == ScanInv /\ [ScanNext]_scanVars => ScanInv'
<1> SUFFICES ASSUME ScanInv, [ScanNext]_scanVars PROVE ScanInv'
  OBVIOUS
<1>1. CASE UNCHANGED scanVars
  BY <1>1, ScanInvKept DEF scanVars
<1>2. CASE scan = NoScan /\ MemoryNext /\ UNCHANGED <<cacheEntries, scan, outcome>>
  BY <1>2, ScanInvKept
<1>3. ASSUME NEW b \in Buffers, NEW draw \in Draws, ScanIndices(b, draw) PROVE ScanInv'
  BY <1>3, ScanInvBegins
<1>4. CASE VisitIndex
  BY <1>4, ScanInvVisits
<1>5. CASE ScanReports
  BY <1>5, ScanInvReports
<1>6. CASE ScanReturns
  BY <1>6, ScanInvReturns
<1> QED BY <1>1, <1>2, <1>3, <1>4, <1>5, <1>6 DEF ScanNext

\* For every width of a word and of a bucket, every size of the cache, every precision
\* of a float and every list of indices: scanIndices reports an index buffer as sparse
\* when its vertices are too far apart, never when its utilization reaches the
\* threshold, and always when it is at most the float before.
THEOREM SparseReportsCorrect == ScanSpec => []SparseReportsRight
<1>1. ScanInv => SparseReportsRight
  <2> SUFFICES ASSUME ScanInv, outcome # NoOutcome PROVE SparseReportsRight
    BY DEF SparseReportsRight
  <2>1. PICK draw, count, out : /\ draw = scan.draw /\ count = Cardinality(scan.shaded)
                                /\ out = outcome
    OBVIOUS
  <2>2. draw \in Draws /\ out = Outcome(draw, count)
    BY <2>1 DEF ScanInv, ScanTypeOK, OutcomeInv
  <2>3. SparseWhenReported(draw, out.reports)
    BY <2>2, OutcomeOfDraw
  <2> QED BY <2>1, <2>3 DEF SparseReportsRight, SparseWhenReported
<1> QED BY <1>1, ScanInvInitially, ScanInvStep, PTL DEF ScanSpec

\* For all of these: the second loop writes where buckets and fragmentation have an
\* element, and what it divides by is not zero.
THEOREM ScansStayInBounds == ScanSpec => []ScanInBounds
<1>1. ScanInv => ScanInBounds
  <2> SUFFICES ASSUME ScanInv, outcome # NoOutcome PROVE ScanInBounds
    BY DEF ScanInBounds
  <2>1. PICK draw, count, out : /\ draw = scan.draw /\ count = Cardinality(scan.shaded)
                                /\ out = outcome
    OBVIOUS
  <2>2. draw \in Draws /\ out = Outcome(draw, count) /\ scan # NoScan
        /\ scan.position = Len(draw.indices)
    BY <2>1 DEF ScanInv, ScanTypeOK, OutcomeInv
  <2>3. /\ \A i \in out.written : i < out.buckets
        /\ \A f \in out.fragments : f < FragmentSize
        /\ out.referenced > 0 => Vertices(draw) # {}
    BY <2>2, OutcomeOfDraw
  <2>4. ASSUME Vertices(draw) # {} PROVE count > 0
    <3>1. Len(draw.indices) \in Nat
      BY <2>2, VerticesFit
    <3>2. Visited # {} /\ Visited \in SUBSET (1 .. Len(draw.indices))
      BY <2>1, <2>2, <2>4, <3>1 DEF Visited, Vertices, Counted
    <3>3. scan.shaded # {} /\ scan.shaded \subseteq Visited
      BY <2>2, <3>2 DEF ScanInv, LastInv
    <3>4. IsFiniteSet(1 .. Len(draw.indices))
      BY <3>1, FS_Interval
    <3>5. IsFiniteSet(scan.shaded)
      BY <3>2, <3>3, <3>4, FS_Subset
    <3>6. Cardinality(scan.shaded) \in Nat /\ Cardinality(scan.shaded) # 0
      BY <3>3, <3>5, FS_CardinalityType, FS_EmptySet
    <3> QED BY <2>1, <3>6
  <2> QED BY <2>1, <2>3, <2>4 DEF ScanInBounds
<1> QED BY <1>1, ScanInvInitially, ScanInvStep, PTL DEF ScanSpec

\* For all of these, and whatever earlier draws left in the cache: what counts as shaded
\* lies between its two bounds, after every index.
THEOREM ShadedCorrect == ScanSpec => []ShadedBetweenBounds
<1>1. ScanInv => ShadedBetweenBounds
  BY DEF ScanInv, KnownInv, LastInv, Found, ShadedBetweenBounds
<1> QED BY <1>1, ScanInvInitially, ScanInvStep, PTL DEF ScanSpec

\* A scan only reads memory: with draws between its calls, memory still behaves as
\* DeviceMemory specifies it, so what is proved of it above holds here.
THEOREM ScanLeavesMemory == ScanSpec => MemorySpec
<1>1. ScanInit => MemoryInit
  BY DEF ScanInit
<1>2. [ScanNext]_scanVars => [MemoryNext]_memoryVars
  BY DEF ScanNext, ScanIndices, VisitIndex, ScanReports, ScanReturns, scanVars
<1> QED BY <1>1, <1>2, PTL DEF ScanSpec, MemorySpec
=============================================================================
