# PerfDoc in TLA+

PerfDoc is a Vulkan layer: it sits between an application and the driver, forwards the calls
(all but one, see the end of section 3), keeps objects of its own beside the driver's, and
logs a performance warning when what it has seen adds up to something slow. Its correctness is therefore mostly a matter of
*bookkeeping over long call sequences*: a warning is right or wrong because of what happened
many calls ago, often in another command buffer. This project models that bookkeeping,
checks it with TLC and proves part of it with TLAPS. Paths below are relative to the
repository; `src/layer/` is written `layer/`.

## 1. The system

| Component | State | Operations | Correct when |
|---|---|---|---|
| **Queue dependency tracker** `queue_tracker.*`, `queue.cpp` | per stage: items pushed (`index`), waits for other stages (`waitList`), the stage's index when a wait was raised (`lastDstStageIndex`) | `pushWork`, `pipelineBarrier`, `signalEvent`, `waitEvent` | a bubble is reported for an item exactly when the stage must run dry before what it waits for can begin |
| **Events** `event.*` | per event: waits it was signalled with, signalled flag, signal type | set, reset, wait, host set | waits arrive through an event as through a barrier |
| **Command buffers** `commandbuffer.*` | list of deferred functions; per recording state | `vkCmd*`, `vkBeginCommandBuffer`, `vkQueueSubmit` replays the list | what was recorded reaches tracker and images once, in order |
| **Descriptor bindings, image usage** `image.*`, `descriptor_set.*`, `image_view.*`, `render_pass.cpp` | bound sets with dirty marks; views in sets; last usage and all usages of every subresource | bind, update, draw, dispatch, passes, copies, clears | warnings name what really happened to the image |
| **Descriptor pools, layouts, sets** `descriptor_pool.*`, `device.cpp` | per layout: sets live and freed | create, allocate, free, reset, destroy | every set finds its pool entry; freed count exact |
| **Recording heuristics** `heuristic.*` | flags and counts of the current pass and recording | begin, draw, bind, clear, end | reports rest on this pass and this recording only |
| **Memory, mappings, buffers** `device_memory.*`, `buffer.*` | the layer's mapping of each memory; the memory of each buffer | allocate, map, unmap, free, bind | the driver maps memory once; index buffers can be read |
| **Index buffer scan** `commandbuffer.cpp` | simulated post-transform cache, kept from scan to scan | `scanIndices`, `testCache` | report matches the index list |
| **Command pools, swapchains** `commandpool.*`, `swapchain.*` | object maps, lists of handles | create, destroy, free, take over | the layer has an object for exactly the driver's handles |
| **Other objects of a device** `device.hpp`, `dispatch.cpp` | one object map per kind: events, samplers, shader modules, passes, views, framebuffers, pipeline layouts, pipelines | create (pipelines in batches), destroy | as for pools and swapchains; `alloc` and `destroy` assert nothing false |
| **Dispatch and lock** `dispatch.cpp`, `dispatch_helper.*`, `instance.*` | `globalLock`; maps from dispatch keys to `Instance` and `Device`; tables of function pointers | every entry point | a call finds the data of its own device; the lock is given back |
| **Logger** `logger.*`, `base_object.*` | the callbacks registered with an instance, the layer's own log | register, unregister, write | every message goes to the callbacks that live and want it |
| **Per-call checks** `pipeline.cpp`, `render_pass.cpp`, `framebuffer.cpp`, `image.cpp`, `sampler.cpp`, `format.hpp` | none | functions of one create-info | the advice of different calls can be followed all at once |
| **Configuration** `config.*` | thresholds | parsed once | -- |

**Interaction.** The application's threads call in; nearly every entry point takes
`globalLock` for its whole length (dispatch.cpp:60), so handlers are atomic towards each
other and the models make each one step. Interleaving comes from the order of whole calls of
several threads. Where one call works in several stages that matter (the replay in
`vkQueueSubmit`, the walk of `freeDescriptorSets`), it is several steps with the lock held.
Recording calls append closures to a `CommandBuffer`; `vkQueueSubmit` calls them, and they
call `QueueTracker::pushWork`, `Image::signalUsage` and the event operations. Debug callbacks
run inside these calls, with the lock held; the extension forbids them to call Vulkan.

The exception is `vkCreateDevice` (dispatch.cpp:74): it takes no lock and inserts into the
maps of devices and tables while other threads look up theirs, while `vkDestroyDevice` erases
one (dispatch.cpp:1429), and while another `vkCreateDevice` inserts. `LayerDispatch` has these
races; all other modules start from devices that have been made.

**What is hard.** Apart from that one race, *order and age*: closures that look at sets,
secondary buffers and images at submission instead of recording; counters raised in place
while they are read; marks that must be cleared exactly at the right moment; objects that outlive the
things they point to; walks over a map that is changed by the loop body; 32-bit arithmetic at
its limits. `PROJECT.json` lists these under "hazards", with their lines.

## 2. Modules

### Tracker: `QueueTracker`, `QueueTrackerLoops`, `QueueTimeline`, `QueueTrackerRefinement`
`QueueTracker` has the three arrays of `StageStatus` as variables, `PushWork` and
`PipelineBarrier` as its actions, and `bubbles`, the reports of the last call. The in-place
loops of `barrier` are one simultaneous maximum; `QueueTrackerLoops` has the loops themselves,
stage by stage in the order of the bits, and `LoopsAgree` says both come to the same.
`QueueTimeline` is the abstract specification: items `<<stage, n>>`, a *gate* of items per
stage, no counters and no latch. `QueueTrackerRefinement` adds one history variable (`seen`,
the waits when the stage's last item was pushed), maps counters to item sets, and states
`ImplementsTimeline`.

### Events: `QueueEvents`, `QueueEventsHistory`, `QueueEventsInheritance`, `QueueExecution`
`QueueEvents` adds `signalEvent` and `waitEvent`, resets and host sets to the tracker, between
its operations and in any order. An event has *one* number per source stage, and `signalEvent`
*folds* into it what that stage waits for in other stages (queue_tracker.cpp:152): the number
of one stage's items is then taken for another's. With a fold a stage can wait for an item
that has not been pushed, and waits can become a cycle. The module has this as the code does,
and the properties say how far it reaches.

`QueueEventsHistory` keeps beside the tracker the dependencies each stage was given directly,
by a barrier or through an event (`direct`, `directOf`), and the stages from which an event was
signalled with a wait beyond their own counter (`folded`). `QueueEventsInheritance` keeps the
dependencies a stage *should* have, those inherited from source stages included (`due`), and
who signalled each event; it states the two comments of the code that do not hold.

`QueueExecution` runs the recorded items on a device, events included: every stage executes its
items in order, each when the items it waits for are done. `BubbleLeavesStageIdle` then says
what a report *means*, and `WorkCompletes` that the device catches up again and again until a
signal is folded.

### Command buffers: `CommandBuffer`, `CommandBufferHistory`
Recording, `vkCmdExecuteCommands`, and the replay as a stack of frames under the lock. The
tracker is the `QueueTracker` module itself (its actions are composed). Vulkan stage masks are
translated by `vkStagesToTracker` with the widening of `pipelineBarrier`; a render pass makes
its external dependencies and its four tracker calls. History: what was recorded, and the
calls each submission owes. As in the code, a buffer submitted a second time without being
begun again replays nothing: `callDeferredFunctions` empties the list.

### Images: `ImageUsage`, `DescriptorUsage`, `DescriptorUsageHistory`
`ImageUsage` is `Image::signalUsage` with its clamps and warnings, and the load and store
operations of an attachment. `DescriptorUsage` binds sets and pipelines, enqueues the usage of
dirty sets at draws and dispatches, passes, copies and clears, replays them, and writes and
copies descriptors (`WriteDescriptors`, `CopyDescriptors`; `TextureReports` is what
`vkUpdateDescriptorSets` logs for a view). A set that is bound or used is not updated, as
Vulkan demands. The history module knows the true last use of every subresource at every
recorded command.

### Pools: `DescriptorPools`, `DescriptorPoolsHistory`
Handles used again, uuids that are not, layouts that die before sets, and the walk of
`freeDescriptorSets`: skip or erase one map element at a time in *any* order, starting over
after every erase, its `while` test against an iterator taken before.

### Heuristics: `RecordingHeuristics`, `RecordingHeuristicsHistory`
One command buffer, recorded again and again and abandoned at any moment. Reports and failed
assertions of the last call are variables. The history keeps what the pass and the recording
really contained.

### Memory and scan: `DeviceMemory`, `IndexScan`, `Floats`, `ObjectMaps`
`DeviceMemory` keeps the layer's and the driver's view of mappings side by side. `IndexScan`
extends it: a submitted draw scans an index buffer through the mapping, a step for each index of
the first loop, one for the rest, nothing in between as `globalLock` is held; both loops with their
32-bit arithmetic (`Uint`), the restart value, the aged cache of `testCache`, the bit buckets.
`Floats` is the arithmetic of the two comparisons at the end of a scan (commandbuffer.cpp:577,
585): both counts are rounded to float, their quotient is rounded to float and compared with a
threshold that was itself read as a float (`stof`, config.cpp:118). Round to nearest, ties to
even, for any length of the mantissa.

### Handles: `DeviceObjects`, `DeviceResources`, `CreationChecks`
`DeviceObjects`: swapchain images stolen by a successor (`potentiallySteal`), command buffers
freed with their pool, beside the driver's own sets of handles. `DeviceResources` adds the
kinds of which one handle each shows everything, and pipelines, made in batches. `asserted`
tells whether an `MPD_ASSERT` of `alloc`, `destroy` or `get` has failed. `CreationChecks` has
the predicates of five calls that look at the same attachment (`checkMultisampling`,
`attachmentShouldBeTransient`, `NoFBCDC` and others) and a reference definition for them
together: advice that can be followed.

### Dispatch: `LayerDispatch`
Threads, `globalLock`, the maps, the tables and the callbacks. A locked call is `Begin`,
`Enter` (it has the lock), one step of work, and perhaps `Deliver`, with the message it sends.
`vkCreateDevice` is five steps without a lock: lookup and the driver's call, `InsertDevice`,
`FillTable`, `FetchQueues`, `Deliver`. `Touches(t)` is what a thread is reading or writing.
The maps are `std::unordered_map`s, so what an unlocked insertion meets is undefined, and the
model chooses among what a build can do. A lookup of a map another thread is inserting into may
miss what is there (`Lookups`). Two threads that change one map at once, an insertion against
the erase of `vkDestroyDevice` or against another insertion, set `torn`: from then on the maps
are `Unsound`. Every later lookup may miss, so an entry can be lost for good; an erase may be
undone, leaving an entry that names a freed object, which a lookup is taken to miss; and calls
may crash. Objects carry the number of the instance or device they
were made for, so that one that outlives its owner is seen when the loader uses a key again.
The table of a destroyed device stays, as in the code.

`MC*` modules give constants their values. Operators named `Mut_...` are slips a maintainer
could make; no specification uses them.

## 3. What is checked

| Run | Bounds | Shows |
|---|---|---|
| `QueueTracker` | 3 stages (COMPUTE and GEOMETRY exclusive, FRAGMENT), masks of one, all or no stages, 2 fragment items, 1 of the others | type; latches; transitivity; loops; refinement of `QueueTimeline` |
| `QueueExecution` | 2 stages (2 fragment items, 1 transfer item), masks of one stage, 1 event | no direct wait lost; unpushed work is waited for only after a fold; bubbles are idle stages; work completes until a fold |
| `CommandBuffer` | 4 stages, 1 primary (3 functions), 1 secondary (1), 1 pass with external dependencies, 2 submissions | replay once and in order; passes paired; full barriers drain; submit returns |
| `DescriptorUsage` | 2 layers, 1 level, 1 set of 2 sampled descriptors, 1 view, 1 slot, 4 functions over all recordings | warnings true; redundant stores reported; every set in use is signalled by a function enqueued since it was bound; render targets not reported as textures |
| `DescriptorPools` | 2 pools, 1 layout handle, 3 sets, 2 uuids | entries for live sets; exact freed count; the walk frees all and ends |
| `RecordingHeuristics` | 2 passes, 2 pipelines, draws below, at and above the small limit of 2 and with a product that wraps, products of 2 bits, 8 commands a recording | reports rest on this pass, this recording and real draws |
| `IndexScan` | 1 memory, 3 types, lists of 2--5 indices, 3-bit words, 2-bit buckets, 2 cache slots, floats of 2 bits | mappings; sparse reports right up to one rounding; no overrun; shaded vertices between two bounds |
| `DeviceResources` | 3 swapchains of 2 of 4 images, 2 pools, 2 buffers, 2 pipelines, one handle of each other kind, at most 5 handles at once (`FewObjects`), symmetry over images, buffers and pipelines; 2 memory types, 1 or 4 samples | objects match the driver; the one call that fails an assertion; advice can be followed |
| `LayerDispatch` | 2 threads, 2 instances, 2 devices, 2 callbacks of which one wants messages, 1 queue family; one instance key and one device key used twice; `BusyAfterRace` = FALSE, the layer's own log open | races need `vkCreateDevice`; what a lookup finds, and the tables, are the live object's; messages reach their listeners; the lock is given back |

*Why this is enough.* In the tracker every quantity is a comparison of a wait with an index
and of a latch with an index: three stages are the longest chain (source, through,
destination) and two items give before, at and behind the last one. `QueueExecution` needs
two stages because a bubble is a relation of two, and the second fragment item because a fold
takes a number beyond the other stage's counter. In `CommandBuffer` a submission that repeats
a buffer, a secondary executed twice and a re-recording all fit in three functions and two
submissions. In `DescriptorUsage` a redundant store takes two passes (four functions), with
or without a recording between them; two layers and a base layer of 1 separate clamping
before and after the base. Widths of 2 and 3 bits make products and sums wrap inside the
bound, which 32 bits would never do; the code's formulas do not depend on the width. Three
sets put an element before and one behind the erased one in every walk. Three swapchains are
a chain of two take-overs; five handles are the most such a chain, a framebuffer with all it
is made from, or a failing batch needs. Two threads are enough in `LayerDispatch` because a
race is between two, and a key used twice is enough because the layer keeps one entry a key.

Every bound is a constant: `MaxWork`, `MaxRecorded`, `MaxSubmits`, `MaxSignals`,
`MaxCommands`, `MaxUuid`, `MaxIndices`, `MaxLive`, `Reused`, `BusyAfterRace`, `Logging`. Deadlock
is checked in every run but `LayerDispatch`: whatever a bound forbids, the application can always
record, bind, reset or free something. In `LayerDispatch` it may have destroyed everything and used up its keys.

Assumptions about the outside are in the guards. In `LayerDispatch` the loader gives a dispatch
key to a new object only after the call that destroyed the old one has returned; calls of
`vkCreateDevice` run in any number beside each other and beside `vkDestroyDevice`, as Vulkan
allows. Two bounds keep the run within minutes, and the theorems hold for every value of them.
`BusyAfterRace` = FALSE: once two threads have changed one map at once, no further call *on an
instance* is begun (calls under way, and all calls on devices, go on). `Logging` = {TRUE}: the
layer has a log of its own, which is one more listener and changes nothing else. In `DeviceObjects`
and `DeviceResources` the driver never returns the handle of a live object for a new one. Vulkan 1.0
promises this of dispatchable handles alone; of the others `Device::alloc` asserts it
(device.hpp:123). A driver that shares handles would fail that assertion.

In `IndexScan`, a quotient is rounded as the code rounds it, so a share between the threshold and
the float before it goes to one side or the other; `SparseReportsRight` says what holds with that
rounding, and the run has such a share (2 of 3 rounds to the threshold of 3/4) and lists of 5
numbers, where the count itself is rounded (`FloatLimit` = 4, 2^24 in the code).

### Fairness
`ExecSpec` has weak fairness of `Start(s)` and `Finish(s)`: a device works on what is ready.
The history specifications of `CommandBuffer` and `DescriptorPools` have weak fairness of the
steps of one call that has begun (replay, walk): a thread holding the lock in a loop goes on.
`DispatchSpec` has weak fairness of `Step(t)` for every thread, which is what a thread does in
a call that has the lock or needs none: entry points wait for nothing but the lock, and the
driver's functions and the callbacks return. Whether a thread that waits for the lock ever
gets it is not assumed (`Enter` is not fair); `LockIsReleased` says only that somebody could.
Nothing is assumed of the application.

### Disagreements the runs exhibit
* `DescriptorPoolsLayout`: "The DescriptorSet will not hold any reference to the layout."
  (descriptor_set.hpp:47), yet `signalUsage` looks into it.
* `QueueEventsInheritance`: `signalEvent` says "Inherit dependencies from our srcStages."
  (queue_tracker.cpp:150) but folds the waits for all stages into the source stage's entry
  (line 152), so what the source stages wait for elsewhere is lost, and a number of one stage
  stands for items of another.
* `RecordingComputeScan`: `drawIndexed` takes the last pipeline bound to *any* bind point for
  the graphics pipeline and fails `MPD_ASSERT(type == Type::Graphics)` (pipeline.hpp:56).

### Disagreements stated without a run
Each is written down in the model or the module's comments; TLC refutes the named properties.
* `LayerFound` (`LayerDispatch`): a lookup of a live device can miss it while another thread
  is in `vkCreateDevice`; `MPD_ASSERT(layer)` then fails (dispatch.cpp:2676), or a null pointer is
  used.
* `MapsStayWhole` (`LayerDispatch`): the unlocked insertion of `vkCreateDevice` (dispatch.cpp:97)
  and the erase of `vkDestroyDevice` (dispatch.cpp:1429), or two insertions, change one
  `unordered_map` at once. An entry can be lost for good; `DataOfOwnDevice` says how much is
  still true then: whatever is found is right.
* `AllWorkCompletes` (`QueueExecution`): the waits *can* be a cycle once a signal is folded. Push
  F twice, barrier F->T, push T, signal from T, wait in F: F waits for item 2 of T, which is not
  pushed yet. Push F, barrier F->T, push T: item 3 of F and item 2 of T wait for each other.
  `UnpushedWaitsNeedFold` and `WorkCompletes` say that nothing but a fold does this.
* `LockIsReleased` with a callback in `Reentrant`: a callback that calls Vulkan waits for the
  lock of its own thread. The extension forbids it, and nothing in the layer notices.
* `LayoutsOutlivePipelines` (`DeviceResources`): a pipeline keeps a pointer to its
  `PipelineLayout` (pipeline.cpp:321), which the application may destroy first.
* A failing batch of pipelines (dispatch.cpp:943): the layer makes objects for none although
  the driver made some; destroying one of these fails the assertion of `Device::destroy`.
  `AssertionsNeedFailedCall` shows that nothing else does.
* `HostSignalsNotCounted` (`QueueEventsInheritance`): waits of an earlier device signal count
  again once the host has set the event.
* `WarningsAreTrue` needs its exception (a set that stays bound is signalled at its first use
  only) and one mip level: `signalUsage` does not look at `levelCount`.
* `RenderTargetsNotReported` is restricted to views from layer and level 0: the loops of
  `vkUpdateDescriptorSets` (dispatch.cpp:2034) run *to* `layerCount`, not over it; with
  `VK_REMAINING_ARRAY_LAYERS` they leave the image (`InspectsTheImage`). What is recorded but
  not submitted counts for nothing either.
* `SmallReportsAreTrue` (`RecordingHeuristicsHistory`): the warning speaks of draws "with less
  than %u indices each" (commandbuffer.cpp:434), but draws *at* the limit count as well (`<=`,
  commandbuffer.cpp:426), and so do those whose product of 32 bits wraps. `SmallDrawsReportedOnce`
  speaks of what is counted, both kinds kept apart in the history.
* `NoDrawReportsAreTrue`, `EndsInsidePass`, `ClearsKnownFramebuffer`
  (`RecordingHeuristicsHistory`): indirect draws are not seen; a
  compute pipeline bound in a pass resets the pre-pass heuristic; a secondary buffer may not
  know its framebuffer.
* `SparseReportsExact` (`IndexScan`): a share just below the threshold is rounded up to it and not
  reported, and counts above 2^24 are rounded before they are divided. The options are declared
  `double` but read with `stof`: 0.7 in the configuration file is the float 0.7f, so 7 of 10 is
  *not* reported; with a `double` 0.7 it would be.
* `EveryVertexShaded` (`IndexScan`): the cache is not cleared between scans.
* `PoolsNameLiveBuffers` (`DeviceObjects`): `removeCommandBuffer` is never called, although
  dispatch.cpp:289 says the buffer is removed from the pool.
* `NoFBCDC` (`CreationChecks`) reports every attachment with several samples, whatever its
  format: `FormatCanBeChosen` holds for one sample only. A format with stencil alone is
  counted by the `loadOp` of its color or depth, which it does not have
  (`accessRequiresMemory`).

* The memory types advertised for index buffers replace the driver's (buffer.cpp:46);
  `DeviceMemory` has the expression, and no property of it.

Met while reading, and not in a model:
* `vkCmdWaitEvents` is the one call that never reaches the driver: `CmdWaitEvents`
  (dispatch.cpp:404) enqueues the tracker's waits and returns without calling its table.
* `vkBeginCommandBuffer` tests the render-pass-continue flag and not the level of the buffer
  (dispatch.cpp:305): a primary begun with it, which Vulkan ignores there, would take a pass
  from its inheritance info. `BeginContinue` has secondaries only.
* `Buffer::getMemoryOffset` returns a `uint32_t` (buffer.hpp:56): a buffer bound beyond 4 GiB of
  its memory would be scanned at the wrong place. `IndexScan` has the indices, not their address.
* `vkGetSwapchainImagesKHR` and `vkEnumerate*LayerProperties` answer `VK_INCOMPLETE` for too
  much room instead of too little (dispatch.cpp:631).
* `memset` in `signalEvent` is sized by `sizeof` an enumerator (queue_tracker.cpp:141) and
  right only by chance.
* `vkDestroyDebugReportCallbackEXT` with `VK_NULL_HANDLE` unregisters the layer's own log, or
  erases `end()`.
* `CreateDevice` gives the report for robust buffer access the address of its own output
  variable instead of the device's handle (dispatch.cpp:97).
* `CreateRenderPass` indexes the attachments with a reference that may be
  `VK_ATTACHMENT_UNUSED` (dispatch.cpp:866).
* `CreatePipelineLayout` and `CreateDescriptorSetLayout` leave the driver's handle alive when
  the layer's object fails; no `init()` of theirs can fail today.
* Configuration: `POWERVR_PERFDOC_LOG` is ignored when the file names a log;
  `MPD_ASSERT("Unknown option")` never fires, a string being true; with CRLF line ends every
  boolean reads as false; a number that does not parse throws through the layer.

## 4. What is proved

`QueueTrackerProofs`, for every finite set of stages, any set of masks, any exclusive pairs
and any bounds (`StageAssumption`, `MaskAssumption`, `ConfigAssumption`,
`MaxWorkAssumption`):

* `TypeCorrect` and `LatchesCorrect` from
  `TrackerInv == TypeOK /\ WaitsForSubmittedWork /\ LatchedInThePast`. The second part, that no
  stage waits for unpushed work, is true of pushes and barriers alone, which is all this module
  has; with events it is false (see `UnpushedWaitsNeedFold`), and so it is an auxiliary fact here
  and no result. None of the parts is inductive alone: a raised wait is a maximum over waits and indices, and that this maximum
  exists and is at most the index of its stage is `WaitsForSubmittedWork` itself. The maximum is
  a `CHOOSE`; lemma `MaxOfBounded` (a nonempty set of naturals below a bound has a greatest
  element) is proved by well-foundedness of a set of differences, and `RaisedFacts` and
  `BarrierFacts` are what the other proofs use.

`QueueHistoryProofs`, under the same assumptions, about the modules that add histories or the
loops of `barrier` to the tracker:

* `LatchesSeparate` from `HistoryInv`, which adds the history variable: a latch at the stage's
  index is exactly a wait raised since the stage's last item.
* `WaitsInherited`: a barrier takes over what its sources wait for (`LevelsOf`), so a wait for
  the *last* item of a stage brings that stage's waits along. A push is the interesting step: the
  pushed stage has a new last item, and nothing can wait for it yet (`WaitsForSubmittedWork`).
* `TrackerImplementsTimeline`: `HistorySpec => Timeline!TimelineSpec`. `BlocksIffHoldsUp`
  turns pushWork's comparison of counters into membership of item sets, `PushWorkIssues` and
  `PipelineBarrierOrders` map each action to one of the timeline's.
* `NoDirectWaitIsLost` and `UnpushedWaitsAreFolds` from `EventsInv`, for any set of events: what an
  event carries is at least what each source stage had when it was signalled, and it is more
  than there is of a stage only if that stage was folded. That maxima exist needs a bound of all
  numbers (`AtMost`), as waits may lie beyond the counter of their stage.
* `ReportedBubblesAreReal` from `ExecInv`, with events in any order between the pushes: what is
  executed follows the order of each stage and the waits recorded with each item (`RunsInOrder`),
  and a stage whose latch is behind pushed its last item with the waits it has now
  (`LastItemsWait`). A report therefore names an item of the other stage that waits for
  everything before the reported one (`ReportsWait`).

* `LoopsCorrect`, for any number of stages in any order (`StageOrderAssumption`): `Raising` holds
  after every round, that no wait is lowered, none is raised beyond the simultaneous maximum and
  every raised one is latched. A stage that is read after it was raised is at most at the maximum
  of *every* destination (`Sufficient`), and what a round brought stays (`WaitsForKept`). The
  three nested loops are recursive functions; `RunExists` and `RunStays` are the inductions over
  their rounds, for the *set* of rounds at which something holds (`InductionUpTo`).

`CommandBufferProofs`, for any command buffers, render passes with any external dependencies,
barriers and bounds (`StageNames`, that the four stages are distinct; `WorkAssumption`, that only
compute and transfer work is pushed outside a pass, as every `pushWork` of dispatch.cpp does;
`LevelsDisjoint`, `NoPassAssumption`, `BoundAssumption`): three theorems from `CBInv`.
* `RecordingReplayedOnce` rests on `RecordInv` (each list holds what was recorded until it is
  replayed and is empty from then on) and on `Ledger`: the calls made and those still to be made
  are, at every moment, the parts owed by the functions already walked, one after the other,
  with those of the secondary buffer being walked last; and the parts still to come are what the
  lists say *now*. The second half is what emptying a list could break: `FirstUse` in what is owed
  is matched by `replayed`. What is owed is a `FlattenSeq`; `FlattenIsSum` replaces it by its
  running concatenations (`Sums`), by an induction over a set of numbers (`InductionUpTo`), and
  `SumsArePrefixes` gives the prefix.
* `PassesStayPaired` from `PairInv`, which follows the two stages through the four calls of
  `beginRenderPass`.
* `FullBarriersDrain` from `DrainInv`: a full barrier that was recorded last is ahead, in hand,
  or has just been made with nothing behind it.

`RecordingHeuristicsProofs`, for any limits (`LimitAssumption`), passes (`NoPassAssumption`) and
counts (`CountAssumption`):
`PrePassReportsAreTrueHolds`, `ClearsBeforeDrawsReportedHolds`, `SmallDrawsReportedOnceHolds`,
`BeginsOutsidePassHolds` and the action property `SubpassReportsAreTrueHolds` from `IInv`, which ties
each counter to the history of the pass it belongs to.

`DescriptorPoolsProofs`, for all finite sets of pools, layouts and sets and any number of
layouts (`HandleAssumption`, `UuidAssumption`): `EntriesCorrect`, `FreedCountCorrect` and
`WalkCorrect` from one invariant, `PoolsInv`. They need each other: a pool may die only because
the walk has freed all its sets, so entries rest on the walk, and the count of the erased set's
layout rests on its entry. The heart is `WalkInv`: the rest of the walk is the end of the map,
the sets before it are of other pools, and the map names each live set once. `WalkErases` then
shows why `freeDescriptorSets` may stop when it erases the *last* element: everything
before it has been passed since the walk last started over. `RemovedElements` is what it
needs of sequences.

`DeviceProofs`, for every set of memories, buffers and types (`MemoryAssumption`), of handles
(`ObjectsAssumption`), of memory types and sample counts (`ChecksAssumption`), and for any sizes of
words, buckets and cache and any draws (`ScanAssumption`, `DrawsAssumption`):
* `MappingsCorrect` and `IndexBuffersCorrect` from `MemoryInv`, which adds to the two properties
  the types of the maps and that the layer only maps memory of types it tries to map.
* `ObjectsCorrect` and `AssertionsCorrect` from `ResourcesInv`. `ObjectsMatchDriver` is not
  inductive alone: that an image is stolen once needs that no image is of two swapchains
  (`ImagesApart`), that a pool frees its own buffers only needs that none is of two pools
  (`BuffersApart`).
* `AdviceFollowed` needs no invariant: the checks are functions of constants, and the proof names
  the operations, formats and memory types that follow the advice.
* `SparseReportsCorrect` and `ScansStayInBounds`, for floats of any length (`FloatAssumption`):
  `BitsCountVertices` is a bijection of vertices and bits,
  `BucketsSuffice` and `MarksInside` are about the arithmetic of words. That no sum wraps needs
  `DrawsAssumption`: a draw has less than 2^32 - 63 indices. The code finds the end of the indices
  with a `uint32_t` of bytes (commandbuffer.cpp:479), so longer draws are not scanned whole anyway and
  are not modelled. That 2^`Width` is a number is part of `ScanAssumption`: the provers know no powers.
* `ShadedCorrect` from `KnownInv` (what was visited or is cached was in the cache before, or has been
  shaded) and `LastInv` (the last vertex is in a slot `testCache` looks at), which the shade count
  of the second loop needs as well.
* `ScanLeavesMemory`: `IndexScan` implements `DeviceMemory`, whose theorems hold of it.

`LayerDispatchProofs`, for every set of threads, instances, devices and callbacks
(`DispatchAssumption`): `RacesExcluded` from `LockInv`, that a locked call is at work only with
`globalLock` and the steps of `vkCreateDevice` are in no other call. By `TouchesUnderLock` whoever
touches a map holds the lock or is in `vkCreateDevice`, so two of them are not both locked.
`DataIsOfOwnDevice`, `TablesStayCurrent` and `MessagesReachTheirListeners` come from `DataInv`: every
entry of the layer's maps is current for its key unless the call that makes or destroys its
handle is at work, with what each step of `vkCreateDevice` has already put there, or unless the
entry was lost because two threads changed its map at once. `DataIsOfOwnDevice` makes no
assumption about when `vkCreateDevice` and `vkDestroyDevice` run: what a lookup finds is the
data of its own device, and it finds none only if the map is `Unsound`.

`DescriptorUsageProofs`, for any image, views, sets, slots and layouts (`ImageAssumption`,
`SetAssumption`, `SlotAssumption`, `RangeAssumption`: a range begins inside the image, as valid usage
has it, and may be said to end beyond it):
* `BoundSetsAreSignalled` and `RenderTargetsAreNotReported`. The first speaks of the functions
  really enqueued: the history marks a slot when the list of deferred functions has grown by one
  for its set, and `missed` gets what a draw or dispatch uses without. Its invariant
  (`CleanSignalled`) is that a slot which is not dirty is empty or so marked; `DirtySetsEnqueued`
  finds, for every dirty slot in use, its set among the new functions. The second rests on `TargetsFlagged`: what a
  submitted pass has rendered to carries the flag of a render target for the rest of its life.
  Both hold for all ranges.
* `WarningsHold` and `RedundantStoresAreReported` under `AllLevels`, that the ranges of views, clears and
  attachments reach the image's last mip level. Without it both fail: `signalUsage` clamps the
  level count against the image and not against the range. Images of one level always meet it.
  `ToldInv` is the invariant: for each recorded function, and for the end of the list, the
  usages the image *will have been told* by then, by the functions still ahead of it and, where
  none of them touches a subresource, by what the image shows now, are those of the commands up
  to there, but for subresources a set that stays bound has used since (`stale`). `Told` speaks of
  functions touching and leaving usages; `ToldCall`, `ToldRecorded` and `ToldSets` are the three things that
  can happen to a list of those.

**Only model-checked:** liveness (`WorkCompletes`, `SubmitReturns`, `WalkEnds`,
`LockIsReleased`), which needs fairness and so ENABLED, out of the prover's reach. Every other
property of the passing runs is stated by a theorem.

*A note on reading.* TLA+'s two tools disagree on how `SUBSET S \ T` and `UNION S \ T` parse; the
modules put parentheses there so that what is proved is what is checked.

## 5. Not modelled

* **Configuration.** It is parsed once into constants; the modules take thresholds as
  CONSTANTS and have every message enabled.
* **Most per-call checks**: what `pipeline.cpp`, `sampler.cpp`, `shader_module.cpp` and
  `format.hpp` say of one create-info, and the checks of sizes in `buffer.cpp`,
  `device_memory.cpp` and `image.cpp`. Functions of one structure, which unit tests reach;
  `CreationChecks` has those that have to agree with each other.
* **Queries** that only fill a structure (layer and extension properties), and the failure of
  `Device::init`, which cannot fail.
* **Texts**, their formatting and the log file.
* **The walk of `freeCommandBuffers`** is one step; `DescriptorPools` has its twin step by step.
* **The deferred index scans**: `IndexScan` runs a scan when a draw is submitted, beside
  and not inside the replay of `CommandBuffer`.
* `vulkan.h`, `vk_layer.h` and `libs/` are headers of others.

## 6. Plan

Done: the tracker, its abstraction, events and execution with proofs, command buffers with
proofs, image usage and descriptors with proofs, pools with proofs, heuristics with proofs, memory and scan
with proofs, handles with proofs, dispatch and lock with proofs. Next, in this order:

1. `CommandBuffer` implementing an abstract queue of whole submissions; deferred index scans
   and image usages replayed together with tracker calls.
2. Image memory: `bindMemory` with its size and laziness checks over the life of an image.
