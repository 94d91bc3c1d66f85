---------------------------- MODULE DeviceMemory ----------------------------
(***************************************************************************)
(* Memory, its mappings and the buffers bound to it: layer/device_memory.  *)
(* {hpp,cpp}, layer/buffer.{hpp,cpp} and their handlers in dispatch.cpp.   *)
(* To read index buffers, the layer maps memory of certain types for       *)
(* itself when it is allocated and serves the application's mappings from  *)
(* its own.  Left out: sizes, and the reports made from sizes.             *)
(***************************************************************************)
EXTENDS Naturals, ObjectMaps

CONSTANTS
    Memories, Buffers,  \* handles
    Types,              \* the indices of the device's memory types
    IndexTypes,         \* those with INDEXBUFFER_MEMORY_PROPERTIES
    HostVisible,        \* those the application can map
    BufferTypes,        \* those the driver accepts for the application's buffers
    Nowhere             \* a buffer not bound, or bound to freed memory

\* Every device has a host visible and coherent type.
ASSUME MemoryAssumption ==
    /\ Types \subseteq Nat
    /\ IndexTypes # {}
    /\ IndexTypes \subseteq HostVisible /\ HostVisible \subseteq Types
    /\ BufferTypes \subseteq Types
    /\ Nowhere \notin Memories

VARIABLES
    memory,     \* the live memories: their type, and DeviceMemory::mappedMemory
    appMapped,  \* the memories the application has mapped
    driverMaps, \* how often the driver has a memory mapped
    buffer      \* the live buffers: index usage, Buffer::memory, and whether the driver bound it

memoryVars == <<memory, appMapped, driverMaps, buffer>>

MemoryInit ==
    /\ memory = EmptyMap
    /\ appMapped = {}
    /\ driverMaps = [m \in Memories |-> 0]
    /\ buffer = EmptyMap

-----------------------------------------------------------------------------

\* DeviceMemory::init tries to map memory that may hold indices; the driver may refuse.
LayerMaps(type) == IF type \in IndexTypes THEN BOOLEAN ELSE {FALSE}

AllocateMemory(m, type) ==
    /\ m \notin Live(memory)
    /\ \E mapped \in LayerMaps(type) :
           /\ memory' = With(memory, m, [type |-> type, mapped |-> mapped])
           /\ driverMaps' = [driverMaps EXCEPT ![m] = IF mapped THEN 1 ELSE 0]
    /\ UNCHANGED <<appMapped, buffer>>

Mut_Served(m) == FALSE

\* The layer has a mapping to serve the application's from.
Served(m) == memory[m].mapped

\* The application maps memory it has not mapped yet; a map by the driver may fail,
\* which changes nothing.
MapMemory(m) ==
    /\ m \in Live(memory) \ appMapped
    /\ memory[m].type \in HostVisible
    /\ driverMaps' = IF Served(m) THEN driverMaps ELSE [driverMaps EXCEPT ![m] = @ + 1]
    /\ appMapped' = appMapped \cup {m}
    /\ UNCHANGED <<memory, buffer>>

UnmapMemory(m) ==
    /\ m \in appMapped
    /\ driverMaps' = IF memory[m].mapped THEN driverMaps ELSE [driverMaps EXCEPT ![m] = @ - 1]
    /\ appMapped' = appMapped \ {m}
    /\ UNCHANGED <<memory, buffer>>

\* The driver unmaps what it frees.
FreeMemory(m) ==
    /\ m \in Live(memory)
    /\ memory' = Without(memory, m)
    /\ driverMaps' = [driverMaps EXCEPT ![m] = 0]
    /\ appMapped' = appMapped \ {m}
    /\ buffer' = [b \in Live(buffer) |->
           IF buffer[b].memory = m THEN [buffer[b] EXCEPT !.memory = Nowhere] ELSE buffer[b]]

-----------------------------------------------------------------------------

Mut_AdvertisedTypes(index) == BufferTypes

\* memoryRequirements.memoryTypeBits: for an index buffer the first type the layer
\* can map, in place of the driver's.
AdvertisedTypes(index) ==
    IF index THEN {CHOOSE t \in IndexTypes : \A u \in IndexTypes : t <= u} ELSE BufferTypes

CreateBuffer(b, index) ==
    /\ b \notin Live(buffer)
    /\ buffer' = With(buffer, b, [index |-> index, memory |-> Nowhere, bound |-> FALSE])
    /\ UNCHANGED <<memory, appMapped, driverMaps>>

\* The application binds a buffer once, to memory of an advertised type.  The layer's
\* buffer is bound first, and stays so if the driver fails.
BindBufferMemory(b, m) ==
    /\ b \in Live(buffer) /\ m \in Live(memory)
    /\ ~ buffer[b].bound
    /\ memory[m].type \in AdvertisedTypes(buffer[b].index)
    /\ \E ok \in BOOLEAN :
           buffer' = [buffer EXCEPT ![b].memory = m, ![b].bound = ok]
    /\ UNCHANGED <<memory, appMapped, driverMaps>>

DestroyBuffer(b) ==
    /\ b \in Live(buffer)
    /\ buffer' = Without(buffer, b)
    /\ UNCHANGED <<memory, appMapped, driverMaps>>

MemoryNext ==
    \/ \E m \in Memories :
           \/ \E type \in Types : AllocateMemory(m, type)
           \/ MapMemory(m) \/ UnmapMemory(m) \/ FreeMemory(m)
    \/ \E b \in Buffers :
           \/ \E index \in BOOLEAN : CreateBuffer(b, index)
           \/ DestroyBuffer(b)
           \/ \E m \in Memories : BindBufferMemory(b, m)

MemorySpec == MemoryInit /\ [][MemoryNext]_memoryVars

-----------------------------------------------------------------------------

\* Types; only live memory is mapped, and no buffer points to freed memory.
MemoryTypeOK ==
    /\ Live(memory) \subseteq Memories
    /\ memory \in [Live(memory) -> [type : Types, mapped : BOOLEAN]]
    /\ appMapped \subseteq Live(memory)
    /\ driverMaps \in [Memories -> Nat]
    /\ Live(buffer) \subseteq Buffers
    /\ buffer \in [Live(buffer) ->
           [index : BOOLEAN, memory : Live(memory) \cup {Nowhere}, bound : BOOLEAN]]

\* The driver holds exactly one mapping of a memory that the layer or the application
\* has mapped, and none otherwise: vkMapMemory never reaches the driver for mapped
\* memory, no vkUnmapMemory of the application takes away the layer's mapping
\* (dispatch.cpp MapMemory, UnmapMemory), and none is left behind.
MappedExactlyOnce ==
    \A m \in Memories :
        driverMaps[m] =
            IF m \in appMapped \/ (m \in Live(memory) /\ memory[m].mapped) THEN 1 ELSE 0

\* Buffer::init: "we need to be able to map indexbuffer back to host memory".  Memory
\* an index buffer is bound to is memory the layer tried to map.
IndexBuffersMappable ==
    \A b \in Live(buffer) :
        buffer[b].index /\ buffer[b].memory # Nowhere =>
            memory[buffer[b].memory].type \in IndexTypes
=============================================================================
