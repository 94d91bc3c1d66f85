---------------------------- MODULE LayerDispatch ----------------------------
(***************************************************************************)
(* The global data of the layer and the calls that reach it: globalLock,   *)
(* the maps from dispatch keys to Instance and Device objects, the tables  *)
(* of function pointers and the debug callbacks of each Instance           *)
(* (layer/dispatch.cpp, dispatch_helper.hpp, instance.cpp, logger.cpp).    *)
(*                                                                         *)
(* Threads of the application call the layer.  A locked call takes the     *)
(* lock, does its work in one step, may send a message to the callbacks    *)
(* and returns.  vkCreateDevice takes no lock: its steps interleave with   *)
(* all others, and change std::unordered_map objects that others change at *)
(* the same time.  What such a map gives back afterwards is any of what    *)
(* the library may leave behind.                                           *)
(***************************************************************************)
EXTENDS Naturals, FiniteSets, ObjectMaps

CONSTANTS
    Threads,        \* threads of the application
    Instances,      \* dispatch keys of instances
    Devices,        \* dispatch keys of devices
    Callbacks,      \* VkDebugReportCallbackEXT handles
    Wants,          \* those whose flags ask for performance warnings
    Reentrant,      \* those that make a Vulkan call themselves
    Families,       \* queue families
    Null,           \* nobody, no object, VK_NULL_HANDLE
    Reused,         \* bound: the dispatch keys used twice, the others only once
    BusyAfterRace,  \* bound: calls on instances are begun after a race, too
    Logging         \* bound: whether the layer has a log of its own, the cases looked at

ASSUME DispatchAssumption ==
    /\ Wants \subseteq Callbacks /\ Reentrant \subseteq Callbacks
    /\ BusyAfterRace \in BOOLEAN /\ Logging \subseteq BOOLEAN
    /\ Families \subseteq Nat /\ Families # {}
    /\ Null \notin Threads \cup Instances \cup Devices \cup Callbacks

VARIABLES
    globalLock,     \* the thread that holds it, or Null
    call,           \* the call each thread is in
    instanceData,   \* Instance objects: which instance it is of, its callbacks
    deviceData,     \* Device objects: which device, its instance, its queues
    instanceDispatch, deviceDispatch,  \* which instance or device a table is of
    torn,           \* two threads have changed one map at the same time
    crashed         \* a lookup found nothing (MPD_ASSERT(layer), or a null pointer), or
                    \* a broken map has stopped the program or keeps it busy for ever

layerData == <<instanceData, deviceData, instanceDispatch, deviceDispatch, torn>>

VARIABLES
    instances,      \* driver: live instances, and which instance of its key each is
    devices,        \* driver: live devices, their instance and queue families
    callbacks,      \* driver: live callbacks and their instance
    born,           \* driver: how often a key has been used
    logs            \* environment: a log file is named and can be written

driver == <<instances, devices, callbacks, born, logs>>
dispatchVars == <<globalLock, call, layerData, crashed, driver>>

\* Every entry point but vkCreateDevice begins with a lock_guard.
Mut_LockedCalls == {"CreateInstance", "DestroyInstance", "UseInstance", "CreateCallback",
                    "DestroyCallback", "UseDevice", "GetDeviceQueue", "GetProcAddr"}

LockedCalls == {"CreateInstance", "DestroyInstance", "UseInstance", "CreateCallback",
                "DestroyCallback", "UseDevice", "GetDeviceQueue", "GetProcAddr",
                "DestroyDevice"}

Idle == [op |-> "none", inst |-> Null, dev |-> Null, arg |-> Null,
         at |-> "idle", pending |-> {}]

\* Instance::init: the layer's own log.  The name in the configuration file counts
\* before the one in the environment.
OwnLog(named, environment, opens) == (named \/ environment) /\ opens

DispatchInit ==
    /\ globalLock = Null /\ call = [t \in Threads |-> Idle]
    /\ instanceData = EmptyMap /\ deviceData = EmptyMap
    /\ instanceDispatch = EmptyMap /\ deviceDispatch = EmptyMap
    /\ torn = FALSE /\ crashed = FALSE
    /\ instances = EmptyMap /\ devices = EmptyMap /\ callbacks = EmptyMap
    /\ born = [k \in Instances \cup Devices |-> 0]
    /\ logs \in Logging \cap
           {OwnLog(named, environment, opens) : named, environment, opens \in BOOLEAN}

-----------------------------------------------------------------------------
(* What the application may call.  It synchronises the creation and the       *)
(* destruction of an object with its other uses; the loader reuses a dispatch *)
(* key only once the call that destroys its object has returned.              *)

OnInstance(i) == {t \in Threads : call[t].inst = i}
OnDevice(d) == {t \in Threads : call[t].dev = d}
Unsynchronised(d) ==
    \E t \in OnDevice(d) : call[t].op \in {"CreateDevice", "DestroyDevice"}

Begin(t, o, i, d, a) ==
    /\ call[t] = Idle
    /\ call' = [call EXCEPT ![t] = [op |-> o, inst |-> i, dev |-> d, arg |-> a,
           at |-> IF o \in LockedCalls THEN "called" ELSE "inside", pending |-> {}]]
    /\ UNCHANGED <<globalLock, layerData, crashed, driver>>

MayBeBorn(k) == born[k] < IF k \in Reused THEN 2 ELSE 1

Quiet(i) == \A t \in OnInstance(i) : call[t].op # "DestroyInstance"

CallOnInstance(t, i) ==
    \/ /\ i \notin Live(instances) /\ OnInstance(i) = {} /\ MayBeBorn(i)
       /\ Begin(t, "CreateInstance", i, Null, Null)
    \/ /\ i \in Live(instances) /\ OnInstance(i) = {}
       /\ \A d \in Live(devices) : devices[d].inst # i
       /\ \A c \in Live(callbacks) : callbacks[c] # i
       /\ Begin(t, "DestroyInstance", i, Null, Null)
    \/ \E o \in {"UseInstance", "GetProcAddr"} :
           i \in Live(instances) /\ Quiet(i) /\ Begin(t, o, i, Null, Null)
    \/ \E c \in Callbacks :
           /\ i \in Live(instances) /\ Quiet(i) /\ \A u \in Threads : call[u].arg # c
           /\ \/ c \notin Live(callbacks) /\ Begin(t, "CreateCallback", i, Null, c)
              \/ /\ c \in Live(callbacks) /\ callbacks[c] = i
                 /\ Begin(t, "DestroyCallback", i, Null, c)

CallOnDevice(t, d) ==
    \/ \E i \in Live(instances) :
           /\ d \notin Live(devices) /\ OnDevice(d) = {} /\ MayBeBorn(d)
           /\ Quiet(i)
           /\ Begin(t, "CreateDevice", i, d, Null)
    \/ /\ d \in Live(devices)
       /\ LET i == devices[d].inst IN
          \/ OnDevice(d) = {} /\ Begin(t, "DestroyDevice", i, d, Null)
          \/ \E o \in {"UseDevice", "GetProcAddr"} :
                 ~Unsynchronised(d) /\ Begin(t, o, i, d, Null)
          \/ /\ ~Unsynchronised(d)
             /\ \E f \in devices[d].families : Begin(t, "GetDeviceQueue", i, d, f)

-----------------------------------------------------------------------------
(* The maps a thread is reading or writing.                                  *)

Touches(t) ==
    LET c == call[t]
        access(map, writes) == [map |-> map, writes |-> writes]
    IN  CASE c.at = "inside" /\ c.op \in {"CreateInstance", "DestroyInstance"} ->
                 {access("instanceData", TRUE), access("instanceDispatch", TRUE)}
          [] c.at = "inside" /\ c.op \in {"CreateCallback", "DestroyCallback"} ->
                 {access("instanceData", FALSE), access(c.inst, TRUE)}
          [] c.at = "inside" /\ c.op \in {"UseInstance", "CreateDevice"} ->
                 {access("instanceData", FALSE)}
          [] c.at = "inside" /\ c.op = "GetProcAddr" ->
                 {access(IF c.dev = Null THEN "instanceData" ELSE "deviceData", FALSE)}
          [] c.at = "inside" /\ c.op = "DestroyDevice" -> {access("deviceData", TRUE)}
          [] c.at = "inside" /\ c.op \in {"UseDevice", "GetDeviceQueue"} ->
                 {access("deviceData", FALSE)}
          [] c.at = "inserting" -> {access("deviceData", TRUE)}
          [] c.at = "tabling" -> {access("deviceDispatch", TRUE)}
          [] c.at = "logging" -> {access(c.inst, FALSE)}
          [] OTHER -> {}

Race(t, u) ==
    \E a \in Touches(t), b \in Touches(u) : a.map = b.map /\ (a.writes \/ b.writes)

\* Another thread is changing the map.
Changing(t, map) == \E u \in Threads \ {t} : \E b \in Touches(u) : b.map = map /\ b.writes

\* To change a map that another thread is changing has no defined outcome, and what it
\* leaves behind is not confined to that map.
Unsound(t, map) == torn \/ Changing(t, map)
Tears(t, map) == torn' = Unsound(t, map)

\* getLayerData: where that is so, it may miss what is there.  An entry is lost
\* when no lookup finds it again; one that a lost removal leaves behind leads to an
\* object that is freed, which is no better than no entry.
Lookups(t, map, data, key) ==
    {(key \in DOMAIN data)} \cup (IF Unsound(t, map) THEN {FALSE} ELSE {})

-----------------------------------------------------------------------------

Enter(t) ==
    /\ call[t].at = "called" /\ globalLock = Null
    /\ globalLock' = t
    /\ call' = [call EXCEPT ![t].at = "inside"]
    /\ UNCHANGED <<layerData, crashed, driver>>

Return(t) ==
    /\ globalLock' = IF globalLock = t THEN Null ELSE globalLock
    /\ call' = [call EXCEPT ![t] = Idle]

At(t, place) ==
    /\ call' = [call EXCEPT ![t].at = place]
    /\ UNCHANGED globalLock

Inside(t, o) == call[t].at = "inside" /\ call[t].op = o

\* The pointer a lookup returned is null, or the map is broken.
Crash(t) ==
    /\ crashed' = TRUE
    /\ UNCHANGED <<globalLock, call, layerData, driver>>

Fails(t) == Return(t) /\ UNCHANGED <<layerData, crashed, driver>>

Mut_Filled(tables, k, n) == IF k \in DOMAIN tables THEN tables ELSE With(tables, k, n)

\* A table that is found is filled again.
Filled(tables, k, n) == With(tables, k, n)

initInstanceTable(i, n) == Filled(instanceDispatch, i, n)
initDeviceTable(d, n) == Filled(deviceDispatch, d, n)

CreateInstance(t) ==
    LET i == call[t].inst
        n == born[i] + 1
    IN  /\ Inside(t, "CreateInstance")
        /\ \/ Fails(t)
           \/ /\ instances' = With(instances, i, n)
              /\ instanceData' = With(instanceData, i,
                     [of |-> n, logger |-> IF logs THEN {Null} ELSE {}])
              /\ instanceDispatch' = initInstanceTable(i, n)
              /\ born' = [born EXCEPT ![i] = n]
              /\ Return(t)
              /\ UNCHANGED <<deviceData, deviceDispatch, torn, crashed, devices, callbacks, logs>>

DestroyInstance(t) ==
    LET i == call[t].inst IN
    /\ Inside(t, "DestroyInstance")
    /\ \E found \in Lookups(t, "instanceData", instanceData, i) :
         IF ~found THEN Crash(t)
         ELSE /\ instances' = Without(instances, i)
              /\ instanceData' = Without(instanceData, i)
              /\ Return(t)
              /\ UNCHANGED <<deviceData, instanceDispatch, deviceDispatch, torn, crashed,
                             devices, callbacks, born, logs>>

\* vkDebugReportMessageEXT hands the call on.
UseInstance(t) ==
    /\ Inside(t, "UseInstance")
    /\ \E found \in Lookups(t, "instanceData", instanceData, call[t].inst) :
         IF found THEN Fails(t) ELSE Crash(t)

\* The tables of the commands the layer has functions for.
interceptCoreInstanceCommand ==
    {"CreateInstance", "DestroyInstance", "GetProcAddr", "CreateDevice"}
interceptExtensionInstanceCommand == {"CreateCallback", "DestroyCallback", "UseInstance"}
interceptCoreDeviceCommand == {"GetProcAddr", "DestroyDevice", "GetDeviceQueue", "UseDevice"}

Intercepted(d) ==
    interceptCoreDeviceCommand \cup
    IF d # Null THEN {}
    ELSE interceptCoreInstanceCommand \cup interceptExtensionInstanceCommand

\* vkGetInstanceProcAddr and vkGetDeviceProcAddr answer such a name at once, without a
\* lookup, and hand others on.
GetProcAddr(t) ==
    LET d == call[t].dev IN
    /\ Inside(t, "GetProcAddr")
    /\ \E name \in LockedCalls \cup {"CreateDevice", "Other"} :
         IF name \in Intercepted(d) THEN Fails(t)
         ELSE \E found \in IF d = Null
                           THEN Lookups(t, "instanceData", instanceData, call[t].inst)
                           ELSE Lookups(t, "deviceData", deviceData, d) :
                  IF found THEN Fails(t) ELSE Crash(t)

Mut_Registered(logger, c) == {c}

\* Logger::createAndRegisterCallback, unregisterAndDestroyCallback.
Registered(logger, c) == logger \cup {c}
Unregistered(logger, c) == logger \ {c}

CreateDebugReportCallback(t) ==
    LET i == call[t].inst
        c == call[t].arg
    IN  /\ Inside(t, "CreateCallback")
        /\ \E found \in Lookups(t, "instanceData", instanceData, i) :
             \/ ~found /\ Crash(t)
             \/ found /\ Fails(t)
             \/ /\ found
                /\ callbacks' = With(callbacks, c, i)
                /\ instanceData' = [instanceData EXCEPT ![i].logger = Registered(@, c)]
                /\ Return(t)
                /\ UNCHANGED <<deviceData, instanceDispatch, deviceDispatch, torn, crashed,
                               instances, devices, born, logs>>

DestroyDebugReportCallback(t) ==
    LET i == call[t].inst
        c == call[t].arg
    IN  /\ Inside(t, "DestroyCallback")
        /\ \E found \in Lookups(t, "instanceData", instanceData, i) :
             IF ~found THEN Crash(t)
             ELSE /\ callbacks' = Without(callbacks, c)
                  /\ instanceData' = [instanceData EXCEPT ![i].logger = Unregistered(@, c)]
                  /\ Return(t)
                  /\ UNCHANGED <<deviceData, instanceDispatch, deviceDispatch, torn, crashed,
                                 instances, devices, born, logs>>

-----------------------------------------------------------------------------
(* vkCreateDevice, a step at a time.                                         *)

CreateDevice(t) ==
    LET i == call[t].inst
        d == call[t].dev
    IN  /\ Inside(t, "CreateDevice")
        /\ \E found \in Lookups(t, "instanceData", instanceData, i) :
             \/ ~found /\ Crash(t)
             \/ found /\ Fails(t)
             \/ \E families \in (SUBSET Families) \ {{}} :
                  /\ found
                  /\ devices' = With(devices, d,
                         [born |-> born[d] + 1, inst |-> i, families |-> families])
                  /\ born' = [born EXCEPT ![d] = @ + 1]
                  /\ At(t, "inserting")
                  /\ UNCHANGED <<layerData, crashed, instances, callbacks, logs>>

\* createLayerData, which may follow a broken chain or free an object again.
InsertDevice(t) ==
    LET d == call[t].dev IN
    /\ call[t].at = "inserting"
    /\ \/ Unsound(t, "deviceData") /\ Crash(t)
       \/ /\ Tears(t, "deviceData")
          /\ deviceData' = With(deviceData, d,
                 [of |-> devices[d].born, inst |-> call[t].inst, queues |-> {}])
          /\ At(t, "tabling")
          /\ UNCHANGED <<instanceData, instanceDispatch, deviceDispatch, crashed, driver>>

FillTable(t) ==
    LET d == call[t].dev IN
    /\ call[t].at = "tabling"
    /\ \/ Unsound(t, "deviceDispatch") /\ Crash(t)
       \/ /\ Tears(t, "deviceDispatch")
          /\ deviceDispatch' = initDeviceTable(d, devices[d].born)
          /\ At(t, "queues")
          /\ UNCHANGED <<instanceData, deviceData, instanceDispatch, crashed, driver>>

\* Logger::write: the callbacks a performance warning goes to.
Recipients(i) == {c \in instanceData[i].logger : c = Null \/ c \in Wants}

Log(t, i) ==
    LET logging == [call EXCEPT ![t].at = "logging"]
    IN  /\ call' = [logging EXCEPT ![t].pending = Recipients(i)]
        /\ UNCHANGED globalLock

\* The queues of every family, through the pointer to the new Device, whatever has
\* become of its entry; then a message if robustBufferAccess is enabled.
FetchQueues(t) ==
    LET d == call[t].dev IN
    /\ call[t].at = "queues"
    /\ deviceData' = [deviceData EXCEPT ![d].queues = devices[d].families]
    /\ Log(t, call[t].inst) \/ Return(t)
    /\ UNCHANGED <<instanceData, instanceDispatch, deviceDispatch, torn, crashed, driver>>

-----------------------------------------------------------------------------

\* Any other call on a device, or on a queue or command buffer of it: it finds the
\* Device and may have something to report.
UseDevice(t) ==
    /\ Inside(t, "UseDevice")
    /\ \E found \in Lookups(t, "deviceData", deviceData, call[t].dev) :
         IF found THEN /\ Log(t, deviceData[call[t].dev].inst) \/ Return(t)
                       /\ UNCHANGED <<layerData, crashed, driver>>
         ELSE Crash(t)

\* Device::getQueue asserts that the queue is there.
GetDeviceQueue(t) ==
    LET d == call[t].dev IN
    /\ Inside(t, "GetDeviceQueue")
    /\ \E found \in Lookups(t, "deviceData", deviceData, d) :
         IF found /\ call[t].arg \in deviceData[d].queues THEN Fails(t) ELSE Crash(t)

Mut_Erased(data, key) == data

\* destroyLayerData.  The table stays.
Erased(data, key) == Without(data, key)

DestroyDevice(t) ==
    LET d == call[t].dev IN
    /\ Inside(t, "DestroyDevice")
    /\ \E found \in Lookups(t, "deviceData", deviceData, d) :
         \/ (~found \/ Unsound(t, "deviceData")) /\ Crash(t)
         \/ /\ found
            /\ devices' = Without(devices, d)
            /\ Tears(t, "deviceData")
            /\ deviceData' = Erased(deviceData, d)
            /\ Return(t)
            /\ UNCHANGED <<instanceData, instanceDispatch, deviceDispatch, crashed,
                           instances, callbacks, born, logs>>

Mut_MayDeliver(t) == globalLock = Null

\* A callback that makes a Vulkan call waits for the lock of its own thread.
MayDeliver(t) == globalLock = t => call[t].pending \cap Reentrant = {}

Deliver(t) ==
    /\ call[t].at = "logging" /\ MayDeliver(t)
    /\ Return(t)
    /\ UNCHANGED <<layerData, crashed, driver>>

\* What a thread does in a call it has begun.
Step(t) ==
    /\ ~crashed
    /\ \/ CreateInstance(t) \/ DestroyInstance(t) \/ UseInstance(t) \/ GetProcAddr(t)
       \/ CreateDebugReportCallback(t) \/ DestroyDebugReportCallback(t)
       \/ CreateDevice(t) \/ InsertDevice(t) \/ FillTable(t) \/ FetchQueues(t)
       \/ UseDevice(t) \/ GetDeviceQueue(t) \/ DestroyDevice(t) \/ Deliver(t)

DispatchNext == \E t \in Threads :
    \/ ~crashed /\ (BusyAfterRace \/ ~torn) /\ \E i \in Instances : CallOnInstance(t, i)
    \/ ~crashed /\ \E d \in Devices : CallOnDevice(t, d)
    \/ ~crashed /\ Enter(t)
    \/ Step(t)

DispatchSafety == DispatchInit /\ [][DispatchNext]_dispatchVars

\* A thread in a call goes on: no entry point waits for anything but the lock, and
\* the driver's functions and the callbacks return.
DispatchSpec == DispatchSafety /\ \A t \in Threads : WF_dispatchVars(Step(t))

-----------------------------------------------------------------------------

\* Two threads are never at work on one map, one of them changing it, unless one of
\* them is in vkCreateDevice, which takes no lock (CreateDevice).
RacesNeedCreateDevice ==
    \A t, u \in Threads :
        t # u /\ Race(t, u) =>
            \E v \in {t, u} : call[v].op = "CreateDevice"

\* A device's data is the data of that device, and not of an earlier one whose key it
\* has.  While any thread is in a call on it, a lookup finds an object made for it under
\* its own, live instance, with all its queues; it can find none only while another
\* thread changes the map, or after two have changed one at once.  No object outlives
\* its handle.
DataOfOwnDevice ==
    /\ \A t \in Threads : \A d \in Devices :
           call[t].dev = d /\ call[t].op # "CreateDevice" =>
               \A found \in Lookups(t, "deviceData", deviceData, d) :
                   IF found
                   THEN /\ deviceData[d].of = devices[d].born
                        /\ deviceData[d].queues = devices[d].families
                        /\ deviceData[d].inst \in Live(instanceData)
                        /\ instanceData[deviceData[d].inst].of = instances[deviceData[d].inst]
                   ELSE Unsound(t, "deviceData")
    /\ Live(deviceData) \subseteq Live(devices)
    /\ Live(instanceData) = Live(instances)

\* The function pointers a call goes through are those of its own device and instance,
\* although the table of an earlier owner of the key is never freed: each call that
\* creates one fills the table its own object points to.
TablesAreCurrent ==
    /\ \A d \in Live(deviceData) :
           Unsynchronised(d) \/ deviceDispatch[d] = devices[d].born
    /\ \A i \in Live(instanceData) : instanceDispatch[i] = instances[i]

\* A message sent under the lock goes to the callbacks the application has made for
\* the instance and not destroyed, whose flags ask for it, and to the layer's own log:
\* to no callback of another instance, and to none that has been destroyed.
MessagesReachListeners ==
    \A t \in Threads : call[t].at = "logging" /\ globalLock = t =>
        call[t].pending =
            {c \in Wants \cap Live(callbacks) : callbacks[c] = call[t].inst}
            \cup IF logs THEN {Null} ELSE {}

\* No thread keeps the lock: not one entry point waits inside, on any path.
LockIsReleased == []<>(globalLock = Null \/ crashed)

\* No two threads ever change one map at the same time.  The code does not have this
\* property: vkCreateDevice inserts into deviceData without the lock, while vkDestroyDevice
\* erases, or another vkCreateDevice inserts, an entry of another device.
MapsStayWhole == ~torn

\* MPD_ASSERT(layer) of vkGetDeviceProcAddr, vkGetInstanceProcAddr and CreateDevice:
\* a call on a live device or instance finds its data.
LayerFound == ~crashed
=============================================================================
