----------------------- MODULE DescriptorPoolsHistory -----------------------
(***************************************************************************)
(* DescriptorPools with the number of sets each pool held after its last   *)
(* allocation, and its properties.                                         *)
(***************************************************************************)
EXTENDS DescriptorPools

VARIABLE held       \* held[p][u]: sets of layout u in p after p's last allocation of one

allVars == <<poolVars, held>>

HeldBy(p, u) == {d \in LiveSets : sets[d] = [pool |-> p, uuid |-> u]}

HistoryInit == PoolsInit /\ held = [p \in Pool |-> [u \in Uuid |-> 0]]

HistoryNext ==
    \/ \E l \in Layout :
           /\ CreateDescriptorSetLayout(l) \/ DestroyDescriptorSetLayout(l)
           /\ UNCHANGED held
    \/ \E p \in Pool :
           CreateDescriptorPool(p) /\ held' = [held EXCEPT ![p] = [u \in Uuid |-> 0]]
    \/ \E p \in Pool, l \in Layout, d \in Set :
           /\ AllocateDescriptorSet(p, l, d)
           /\ held' = [held EXCEPT ![p][layouts[l]] = Cardinality(HeldBy(p, layouts[l])) + 1]
    \/ \E d \in Set : (FreeDescriptorSet(d) \/ SignalUsage(d)) /\ UNCHANGED held
    \/ \E p \in Pool, destroys \in BOOLEAN : FreeAll(p, destroys) /\ UNCHANGED held
    \/ FreeDescriptorSets /\ UNCHANGED held

\* A walk is one call: once it has started it runs to its end.
HistorySpec ==
    HistoryInit /\ [][HistoryNext]_allVars /\ WF_allVars(FreeDescriptorSets /\ UNCHANGED held)

-----------------------------------------------------------------------------

PoolsTypeOK ==
    /\ pools \subseteq Pool
    /\ layouts \in [Layout -> 0 .. MaxUuid]
    /\ nextUuid \in 0 .. MaxUuid
    /\ sets \in [Set -> [pool : Pool, uuid : Uuid] \cup {NoSet}]
    /\ layoutInfos \in [Pool -> [Uuid -> Nat \cup {NoInfo}]]

\* The assertion of DescriptorPool::descriptorSetDeleted: a set that is destroyed
\* finds its pool alive and an entry for its layout, also when the layout is gone
\* and its handle has been used again.
EntriesForLiveSets ==
    \A d \in LiveSets : sets[d].pool \in pools /\ layoutInfos[sets[d].pool][sets[d].uuid] # NoInfo

\* descriptorSetsFreedCount is the number of sets the pool holds less of a layout
\* than after its last allocation, so an allocation is reported exactly when
\* sets were given back since the one before.
FreedCountIsShortfall ==
    \A p \in pools, u \in Uuid :
        layoutInfos[p][u] # NoInfo =>
            layoutInfos[p][u] = held[p][u] - Cardinality(HeldBy(p, u))

\* Device::freeDescriptorSets stops only when no set of the pool is left, in
\* whatever order the map is walked, although it stops as soon as the set it
\* erased was the last of the map.
WalkFreesAll ==
    ~ LockFree /\ walk.rest = <<>> => \A d \in LiveSets : sets[d].pool # walk.pool

\* The walk comes to an end however often it starts over.
WalkEnds == ~ LockFree ~> LockFree

\* descriptor_set.hpp: "The DescriptorSet will not hold any reference to the
\* layout. The spec allows layouts to be deleted before sets."  No operation on a
\* set therefore looks into a layout that has been destroyed.
LayoutNotNeeded ==
    dereferenced # 0 => \E l \in Layout : layouts[l] = dereferenced
=============================================================================
