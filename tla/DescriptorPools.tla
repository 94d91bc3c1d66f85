--------------------------- MODULE DescriptorPools --------------------------
(***************************************************************************)
(* Descriptor pools, set layouts and sets: layer/descriptor_pool.cpp,      *)
(* layer/descriptor_set.cpp, the object maps of Device and the entry       *)
(* points of layer/dispatch.cpp that create and destroy them.              *)
(*                                                                         *)
(* Resetting or destroying a pool frees its sets by walking the map of all *)
(* sets of the device, starting over after every erased one.  The map is   *)
(* unordered: a walk may meet the sets in any order.  The walk is one call *)
(* under globalLock, so other operations wait until it is done.            *)
(* msgDescriptorSetAllocationChecks is on.                                 *)
(***************************************************************************)
EXTENDS Integers, Sequences, FiniteSets, SequencesExt

CONSTANTS
    Pool,           \* VkDescriptorPool handles
    Layout,         \* VkDescriptorSetLayout handles
    Set,            \* VkDescriptorSet handles
    MaxUuid         \* bound: layouts created

ASSUME HandleAssumption == IsFiniteSet(Set) /\ IsFiniteSet(Layout) /\ IsFiniteSet(Pool)
ASSUME UuidAssumption == MaxUuid \in Nat

Uuid == 1 .. MaxUuid

VARIABLES
    pools,          \* live pools
    layouts,        \* layouts[l]: the uuid of the layout with handle l, 0 if there is none
    nextUuid,       \* uuids given out
    sets,           \* sets[d]: pool and layoutUuid of the set with handle d, or NoSet
    layoutInfos,    \* layoutInfos[p][u]: descriptorSetsFreedCount, NoInfo if absent
    walk,           \* freeDescriptorSets in progress, or NoWalk
    reported,       \* the last allocation logged DESCRIPTOR_SET_ALLOCATION_CHECKS
    dereferenced    \* the uuid of the layout the last call looked into, or 0

objectVars == <<pools, layouts, nextUuid, sets, layoutInfos, walk>>
poolVars == <<objectVars, reported, dereferenced>>

NoSet == [pool |-> "none", uuid |-> 0]
NoInfo == -1
NoWalk == [pool |-> "none", map |-> <<>>, rest |-> <<>>, destroys |-> FALSE]

LiveSets == {d \in Set : sets[d] # NoSet}

PoolsInit ==
    /\ pools = {}
    /\ layouts = [l \in Layout |-> 0]
    /\ nextUuid = 0
    /\ sets = [d \in Set |-> NoSet]
    /\ layoutInfos = [p \in Pool |-> [u \in Uuid |-> NoInfo]]
    /\ walk = NoWalk
    /\ reported = FALSE
    /\ dereferenced = 0

Quiet == reported' = FALSE /\ dereferenced' = 0

LockFree == walk = NoWalk

-----------------------------------------------------------------------------

CreateDescriptorSetLayout(l) ==
    /\ LockFree /\ layouts[l] = 0 /\ nextUuid < MaxUuid
    /\ nextUuid' = nextUuid + 1
    /\ layouts' = [layouts EXCEPT ![l] = nextUuid + 1]
    /\ Quiet
    /\ UNCHANGED <<pools, sets, layoutInfos, walk>>

\* Sets of the layout live on.
DestroyDescriptorSetLayout(l) ==
    /\ LockFree /\ layouts[l] # 0
    /\ layouts' = [layouts EXCEPT ![l] = 0]
    /\ Quiet
    /\ UNCHANGED <<pools, nextUuid, sets, layoutInfos, walk>>

\* A new pool object has an empty layoutInfos, whatever the handle was before.
CreateDescriptorPool(p) ==
    /\ LockFree /\ p \notin pools
    /\ pools' = pools \cup {p}
    /\ layoutInfos' = [layoutInfos EXCEPT ![p] = [u \in Uuid |-> NoInfo]]
    /\ Quiet
    /\ UNCHANGED <<layouts, nextUuid, sets, walk>>

\* descriptorSetCreated: with freed sets of the layout to recycle, the allocation
\* is reported and the count starts over.
Recyclable(p, u) == layoutInfos[p][u] > 0

Mut_Entry(p, u) == [layoutInfos EXCEPT ![p][u] = IF @ = NoInfo THEN @ ELSE 0]

Entry(p, u) == [layoutInfos EXCEPT ![p][u] = 0]

AllocateDescriptorSet(p, l, d) ==
    /\ LockFree /\ p \in pools /\ layouts[l] # 0 /\ sets[d] = NoSet
    /\ sets' = [sets EXCEPT ![d] = [pool |-> p, uuid |-> layouts[l]]]
    /\ layoutInfos' = Entry(p, layouts[l])
    /\ reported' = Recyclable(p, layouts[l])
    /\ dereferenced' = layouts[l]
    /\ UNCHANGED <<pools, layouts, nextUuid, walk>>

\* ~DescriptorSet tells the pool (descriptorSetDeleted).
Mut_Freed(d) == [layoutInfos EXCEPT ![sets[d].pool][sets[d].uuid] = 1]

Freed(d) == [layoutInfos EXCEPT ![sets[d].pool][sets[d].uuid] = @ + 1]

Erase(d) ==
    /\ layoutInfos' = Freed(d)
    /\ sets' = [sets EXCEPT ![d] = NoSet]

FreeDescriptorSet(d) ==
    /\ LockFree /\ d \in LiveSets
    /\ Erase(d)
    /\ Quiet
    /\ UNCHANGED <<pools, layouts, nextUuid, walk>>

\* A deferred function of a submitted command buffer signals the set's images.
\* DescriptorSet::signalUsage takes the bindings from the layout object.
SignalUsage(d) ==
    /\ LockFree /\ d \in LiveSets
    /\ dereferenced' = sets[d].uuid
    /\ reported' = FALSE
    /\ UNCHANGED objectVars

-----------------------------------------------------------------------------
(***************************************************************************)
(* Device::freeDescriptorSets.                                             *)
(***************************************************************************)

\* vkResetDescriptorPool and vkDestroyDescriptorPool.
FreeAll(p, destroys) ==
    /\ LockFree /\ p \in pools
    /\ \E order \in SetToSeqs(LiveSets) :
           walk' = [pool |-> p, map |-> order, rest |-> order, destroys |-> destroys]
    /\ Quiet
    /\ UNCHANGED <<pools, layouts, nextUuid, sets, layoutInfos>>

Mut_SkipSet ==
    /\ walk.rest # <<>>
    /\ sets[Head(walk.rest)].pool # walk.pool
    /\ Quiet
    /\ UNCHANGED objectVars

\* The iterator does not point to a set of the pool: ++it.
SkipSet ==
    /\ walk.rest # <<>>
    /\ sets[Head(walk.rest)].pool # walk.pool
    /\ walk' = [walk EXCEPT !.rest = Tail(@)]
    /\ Quiet
    /\ UNCHANGED <<pools, layouts, nextUuid, sets, layoutInfos>>

Mut_Restarted(next, map) == <<>>

\* The rest of the walk after an erased set: the iterator next ends the walk at the end of
\* the map, and anything else starts over at its beginning.
Restarted(next, map) == IF next = <<>> THEN <<>> ELSE map

\* It does: erase the set.
EraseSet ==
    /\ walk.rest # <<>>
    /\ sets[Head(walk.rest)].pool = walk.pool
    /\ Erase(Head(walk.rest))
    /\ LET itr == Len(walk.map) - Len(walk.rest) + 1
           left == RemoveAt(walk.map, itr)
       IN  walk' = [walk EXCEPT !.map = left,
                                !.rest = Restarted(Tail(walk.rest), left)]
    /\ Quiet
    /\ UNCHANGED <<pools, layouts, nextUuid>>

\* The iterator has reached the end of the map.
WalkDone ==
    /\ ~ LockFree /\ walk.rest = <<>>
    /\ walk' = NoWalk
    /\ pools' = IF walk.destroys THEN pools \ {walk.pool} ELSE pools
    /\ Quiet
    /\ UNCHANGED <<layouts, nextUuid, sets, layoutInfos>>

FreeDescriptorSets == SkipSet \/ EraseSet \/ WalkDone
=============================================================================
