------------------------- MODULE LayerDispatchProofs -------------------------
(***************************************************************************)
(* Proofs about LayerDispatch for every set of threads, instances, devices *)
(* and callbacks.  LockInv says which calls work only with the lock; it is *)
(* inductive, and what two threads touch at once follows from it.  DataInv *)
(* adds how the application synchronises its calls, how far vkCreateDevice *)
(* has come and what the maps hold: that calls find their own data, tables *)
(* and listeners follows.                                                  *)
(***************************************************************************)
EXTENDS LayerDispatch, TLAPS

USE DispatchAssumption

Calls ==
    [op : LockedCalls \cup {"none", "CreateDevice"},
     inst : Instances \cup {Null}, dev : Devices \cup {Null},
     arg : Callbacks \cup Families \cup {Null},
     at : {"idle", "called", "inside", "inserting", "tabling", "queues", "logging"},
     pending : SUBSET (Callbacks \cup {Null})]

ObjectsTypeOK ==
    /\ Live(instances) \subseteq Instances
    /\ \A d \in Live(devices) :
           devices[d].inst \in Instances /\ devices[d].families \subseteq Families

CallsTypeOK ==
    /\ globalLock \in Threads \cup {Null}
    /\ call \in [Threads -> Calls]
    /\ ObjectsTypeOK

\* A locked call is at work only with the lock, and the steps of vkCreateDevice are in
\* no other call.
LockHeld ==
    \A t \in Threads :
        /\ call[t].at \in {"inside", "logging"} /\ call[t].op # "CreateDevice" =>
               globalLock = t
        /\ call[t].at \in {"inserting", "tabling", "queues"} => call[t].op = "CreateDevice"
        /\ call[t].at # "idle" => call[t].op # "none" /\ call[t].inst \in Instances

LockInv == CallsTypeOK /\ LockHeld

-----------------------------------------------------------------------------

\* No call is in progress at first, and nobody has the lock.
LEMMA LockInvInitially == DispatchInit => LockInv
  BY DEF DispatchInit, LockInv, CallsTypeOK, ObjectsTypeOK, LockHeld, Idle, Calls, EmptyMap, Live

\* A call begins without the lock if it takes one.
LEMMA InvBegin ==
    ASSUME LockInv, NEW t \in Threads, NEW o \in LockedCalls \cup {"CreateDevice"},
           NEW i \in Instances, NEW d \in Devices \cup {Null},
           NEW a \in Callbacks \cup Families \cup {Null},
           Begin(t, o, i, d, a)
    PROVE  LockInv'
<1> DEFINE new == [op |-> o, inst |-> i, dev |-> d, arg |-> a,
                   at |-> IF o \in LockedCalls THEN "called" ELSE "inside", pending |-> {}]
<1>1. /\ call' = [call EXCEPT ![t] = new]
      /\ UNCHANGED <<globalLock, instances, devices>>
  BY DEF Begin, driver
<1>2. /\ new \in Calls /\ new.op = o /\ new.inst = i
      /\ new.at \in {"called", "inside"}
      /\ new.at = "inside" => o = "CreateDevice"
  BY DEF Calls
<1> HIDE DEF new
<1>3. CallsTypeOK'
  BY <1>1, <1>2 DEF LockInv, CallsTypeOK, ObjectsTypeOK
<1>4. LockHeld'
  BY <1>1, <1>2 DEF LockInv, CallsTypeOK, LockHeld, LockedCalls
<1> QED BY <1>3, <1>4 DEF LockInv

\* The calls on an instance, and those that make or destroy one.
LEMMA InvCallOnInstance ==
    ASSUME LockInv, NEW t \in Threads, NEW i \in Instances, CallOnInstance(t, i)
    PROVE  LockInv'
  BY InvBegin DEF CallOnInstance, LockedCalls

\* The calls on a device, on its queues and command buffers.
LEMMA InvCallOnDevice ==
    ASSUME LockInv, NEW t \in Threads, NEW d \in Devices, CallOnDevice(t, d)
    PROVE  LockInv'
<1>1. CASE d \notin Live(devices)
  BY <1>1, InvBegin DEF CallOnDevice, LockInv, CallsTypeOK, ObjectsTypeOK
<1>2. CASE d \in Live(devices)
  <2>1. devices[d].inst \in Instances /\ devices[d].families \subseteq Families
    BY <1>2 DEF LockInv, CallsTypeOK, ObjectsTypeOK
  <2> QED BY <1>2, <2>1, InvBegin DEF CallOnDevice, LockedCalls
<1> QED BY <1>1, <1>2

-----------------------------------------------------------------------------

\* A thread comes to hold the lock as it gets to work.
LEMMA InvEnter ==
    ASSUME LockInv, NEW t \in Threads, Enter(t)
    PROVE  LockInv'
<1>1. /\ call[t].at = "called" /\ globalLock = Null
      /\ globalLock' = t /\ call' = [call EXCEPT ![t].at = "inside"]
      /\ UNCHANGED <<instances, devices>>
  BY DEF Enter, driver
<1>2. /\ call' \in [Threads -> Calls]
      /\ \A u \in Threads \ {t} : call'[u] = call[u]
      /\ call'[t].op = call[t].op /\ call'[t].at = "inside" /\ call'[t].inst = call[t].inst
  BY <1>1 DEF LockInv, CallsTypeOK, Calls
<1>3. CallsTypeOK'
  BY <1>1, <1>2 DEF LockInv, CallsTypeOK, ObjectsTypeOK
<1>4. LockHeld'
  BY <1>1, <1>2 DEF LockInv, CallsTypeOK, LockHeld
<1> QED BY <1>3, <1>4 DEF LockInv

\* The ways a step of a call ends: the call returns ...
LEMMA InvReturn ==
    ASSUME LockInv, NEW t \in Threads, Return(t), ObjectsTypeOK'
    PROVE  LockInv'
<1>1. /\ call' \in [Threads -> Calls]
      /\ \A u \in Threads \ {t} : call'[u] = call[u]
      /\ call'[t].op = "none" /\ call'[t].at = "idle"
  BY DEF LockInv, CallsTypeOK, Calls, Return, Idle
<1>2. CallsTypeOK'
  BY <1>1 DEF LockInv, CallsTypeOK, Return
<1>3. LockHeld'
  BY <1>1 DEF LockInv, CallsTypeOK, LockHeld, Return
<1> QED BY <1>2, <1>3 DEF LockInv

\* ... or goes on at another place of vkCreateDevice.
LEMMA InvAt ==
    ASSUME LockInv, NEW t \in Threads, NEW place \in {"inserting", "tabling", "queues"},
           At(t, place), call[t].op = "CreateDevice", call[t].at # "idle", ObjectsTypeOK'
    PROVE  LockInv'
<1>1. /\ call' \in [Threads -> Calls]
      /\ \A u \in Threads \ {t} : call'[u] = call[u]
      /\ call'[t].op = call[t].op /\ call'[t].at = place /\ call'[t].inst = call[t].inst
  BY DEF LockInv, CallsTypeOK, Calls, At
<1>2. CallsTypeOK'
  BY <1>1 DEF LockInv, CallsTypeOK, At
<1>3. LockHeld'
  BY <1>1 DEF LockInv, CallsTypeOK, LockHeld, At
<1> QED BY <1>2, <1>3 DEF LockInv

\* A message goes out with the lock held, or from vkCreateDevice.
LEMMA InvLog ==
    ASSUME LockInv, NEW t \in Threads, NEW i, Log(t, i), call[t].at # "idle",
           call[t].op = "CreateDevice" \/ globalLock = t, ObjectsTypeOK'
    PROVE  LockInv'
<1> DEFINE logging == [call EXCEPT ![t].at = "logging"]
<1>1. /\ logging \in [Threads -> Calls]
      /\ \A u \in Threads \ {t} : logging[u] = call[u]
      /\ logging[t].op = call[t].op /\ logging[t].at = "logging"
      /\ logging[t].inst = call[t].inst
  BY DEF LockInv, CallsTypeOK, Calls
<1>2. /\ call' = [logging EXCEPT ![t].pending = Recipients(i)]
      /\ UNCHANGED globalLock
  BY DEF Log
<1> HIDE DEF logging
<1>3. Recipients(i) \subseteq Callbacks \cup {Null}
  BY DEF Recipients
<1>4. /\ call' \in [Threads -> Calls]
      /\ \A u \in Threads \ {t} : call'[u] = call[u]
      /\ call'[t].op = call[t].op /\ call'[t].at = "logging" /\ call'[t].inst = call[t].inst
  BY <1>1, <1>2, <1>3 DEF Calls
<1>5. CallsTypeOK'
  BY <1>2, <1>4 DEF LockInv, CallsTypeOK
<1>6. LockHeld'
  BY <1>2, <1>4 DEF LockInv, CallsTypeOK, LockHeld
<1> QED BY <1>5, <1>6 DEF LockInv

-----------------------------------------------------------------------------

\* Steps that change no object and end the call, or end all calls.
LEMMA InvEnds ==
    ASSUME LockInv, NEW t \in Threads, Fails(t) \/ Crash(t)
    PROVE  LockInv'
<1>1. CASE Fails(t)
  <2>1. ObjectsTypeOK'
    BY <1>1 DEF LockInv, CallsTypeOK, ObjectsTypeOK, Fails, driver
  <2> QED BY <1>1, <2>1, InvReturn DEF Fails
<1>2. CASE Crash(t)
  BY <1>2 DEF LockInv, CallsTypeOK, ObjectsTypeOK, LockHeld, Crash, driver
<1> QED BY <1>1, <1>2

\* Steps that make or destroy an object of the driver.
LEMMA InvObjects ==
    ASSUME LockInv, NEW t \in Threads,
           CreateInstance(t) \/ DestroyInstance(t) \/ DestroyDevice(t) \/ CreateDevice(t)
    PROVE  LockInv'
<1>1. /\ call[t].at # "idle" => call[t].inst \in Instances
      /\ ObjectsTypeOK
  BY DEF LockInv, LockHeld, CallsTypeOK
<1>2. CASE CreateInstance(t)
  <2>1. CASE Fails(t)
    BY <2>1, InvEnds
  <2>2. CASE ~Fails(t)
    <3>1. /\ \E n : instances' = With(instances, call[t].inst, n)
          /\ UNCHANGED devices /\ Return(t) /\ call[t].at = "inside"
      BY <1>2, <2>2 DEF CreateInstance, Inside
    <3>2. ObjectsTypeOK'
      BY <1>1, <3>1 DEF ObjectsTypeOK, With, Live
    <3> QED BY <3>1, <3>2, InvReturn
  <2> QED BY <2>1, <2>2
<1>3. CASE DestroyInstance(t)
  <2>1. CASE Crash(t)
    BY <2>1, InvEnds
  <2>2. CASE ~Crash(t)
    <3>1. /\ instances' = Without(instances, call[t].inst)
          /\ UNCHANGED devices /\ Return(t) /\ call[t].at = "inside"
      BY <1>3, <2>2 DEF DestroyInstance, Inside
    <3>2. ObjectsTypeOK'
      BY <1>1, <3>1 DEF ObjectsTypeOK, Without, Live
    <3> QED BY <3>1, <3>2, InvReturn
  <2> QED BY <2>1, <2>2
<1>4. CASE DestroyDevice(t)
  <2>1. CASE Crash(t)
    BY <2>1, InvEnds
  <2>2. CASE ~Crash(t)
    <3>1. /\ devices' = Without(devices, call[t].dev)
          /\ UNCHANGED instances /\ Return(t) /\ call[t].at = "inside"
      BY <1>4, <2>2 DEF DestroyDevice, Inside
    <3>2. ObjectsTypeOK'
      BY <1>1, <3>1 DEF ObjectsTypeOK, Without, Live
    <3> QED BY <3>1, <3>2, InvReturn
  <2> QED BY <2>1, <2>2
<1>5. CASE CreateDevice(t)
  <2>1. CASE Fails(t) \/ Crash(t)
    BY <2>1, InvEnds
  <2>2. CASE ~(Fails(t) \/ Crash(t))
    <3>1. PICK families \in (SUBSET Families) \ {{}} :
             /\ devices' = With(devices, call[t].dev,
                    [born |-> born[call[t].dev] + 1, inst |-> call[t].inst,
                     families |-> families])
             /\ UNCHANGED instances /\ At(t, "inserting")
             /\ call[t].at = "inside" /\ call[t].op = "CreateDevice"
      BY <1>5, <2>2 DEF CreateDevice, Inside
    <3>2. ObjectsTypeOK'
      BY <1>1, <3>1 DEF ObjectsTypeOK, With, Live
    <3> QED BY <3>1, <3>2, InvAt
  <2> QED BY <2>1, <2>2
<1> QED BY <1>2, <1>3, <1>4, <1>5

\* The later steps of vkCreateDevice, and the calls on objects that stay.
LEMMA InvWork ==
    ASSUME LockInv, NEW t \in Threads, UNCHANGED <<instances, devices>>,
           \/ UseInstance(t) \/ GetProcAddr(t) \/ GetDeviceQueue(t) \/ UseDevice(t)
           \/ CreateDebugReportCallback(t) \/ DestroyDebugReportCallback(t)
           \/ InsertDevice(t) \/ FillTable(t) \/ FetchQueues(t) \/ Deliver(t)
    PROVE  LockInv'
<1>1. ObjectsTypeOK'
  BY DEF LockInv, CallsTypeOK, ObjectsTypeOK
<1>2. CASE UseInstance(t) \/ GetProcAddr(t) \/ GetDeviceQueue(t)
  BY <1>2, InvEnds DEF UseInstance, GetProcAddr, GetDeviceQueue
<1>3. CASE CreateDebugReportCallback(t) \/ DestroyDebugReportCallback(t)
  <2>1. Fails(t) \/ Crash(t) \/ (Return(t) /\ call[t].at = "inside")
    BY <1>3 DEF CreateDebugReportCallback, DestroyDebugReportCallback, Inside
  <2> QED BY <1>1, <2>1, InvEnds, InvReturn
<1>4. CASE UseDevice(t)
  <2>1. \/ Crash(t)
        \/ /\ call[t].at = "inside" /\ call[t].op = "UseDevice"
           /\ Log(t, deviceData[call[t].dev].inst) \/ Return(t)
    BY <1>4 DEF UseDevice, Inside
  <2>2. call[t].at = "inside" /\ call[t].op = "UseDevice" => globalLock = t
    BY DEF LockInv, LockHeld
  <2> QED BY <1>1, <2>1, <2>2, InvEnds, InvReturn, InvLog
<1>5. CASE InsertDevice(t) \/ FillTable(t)
  <2>1. /\ Crash(t) \/ At(t, "tabling") \/ At(t, "queues")
        /\ call[t].op = "CreateDevice" /\ call[t].at # "idle"
    BY <1>5 DEF InsertDevice, FillTable, LockInv, LockHeld
  <2> QED BY <1>1, <2>1, InvAt, InvEnds
<1>6. CASE FetchQueues(t)
  <2>1. /\ Log(t, call[t].inst) \/ Return(t)
        /\ call[t].op = "CreateDevice" /\ call[t].at = "queues"
    BY <1>6 DEF FetchQueues, LockInv, LockHeld
  <2> QED BY <1>1, <2>1, InvReturn, InvLog
<1>7. CASE Deliver(t)
  BY <1>1, <1>7, InvReturn DEF Deliver
<1> QED BY <1>2, <1>3, <1>4, <1>5, <1>6, <1>7

\* The lock is kept by every step.
LEMMA InvNext ==
    ASSUME LockInv, [DispatchNext]_dispatchVars
    PROVE  LockInv'
<1>1. CASE UNCHANGED dispatchVars
  BY <1>1 DEF LockInv, CallsTypeOK, ObjectsTypeOK, LockHeld, dispatchVars, driver
<1>2. ASSUME NEW t \in Threads, NEW i \in Instances, CallOnInstance(t, i)
      PROVE  LockInv'
  BY <1>2, InvCallOnInstance
<1>3. ASSUME NEW t \in Threads, NEW d \in Devices, CallOnDevice(t, d)
      PROVE  LockInv'
  BY <1>3, InvCallOnDevice
<1>4. ASSUME NEW t \in Threads, Enter(t)
      PROVE  LockInv'
  BY <1>4, InvEnter
<1>5. ASSUME NEW t \in Threads, Step(t)
      PROVE  LockInv'
  <2>1. CASE CreateInstance(t) \/ DestroyInstance(t) \/ DestroyDevice(t) \/ CreateDevice(t)
    BY <2>1, InvObjects
  <2>2. CASE UseInstance(t) \/ GetProcAddr(t) \/ GetDeviceQueue(t)
    BY <2>2, InvEnds DEF UseInstance, GetProcAddr, GetDeviceQueue
  <2>3. CASE \/ CreateDebugReportCallback(t) \/ DestroyDebugReportCallback(t)
             \/ UseDevice(t) \/ InsertDevice(t) \/ FillTable(t) \/ FetchQueues(t)
             \/ Deliver(t)
    <3>1. UNCHANGED <<instances, devices>>
      BY <2>3 DEF CreateDebugReportCallback, DestroyDebugReportCallback, UseDevice,
                  InsertDevice, FillTable, FetchQueues, Deliver, Crash, Fails, driver
    <3> QED BY <2>3, <3>1, InvWork
  <2> QED BY <1>5, <2>1, <2>2, <2>3 DEF Step
<1> QED BY <1>1, <1>2, <1>3, <1>4, <1>5 DEF DispatchNext

\* Who touches a map is vkCreateDevice, or has the lock.
LEMMA TouchesUnderLock ==
    ASSUME LockInv, NEW t \in Threads, Touches(t) # {}, call[t].op # "CreateDevice"
    PROVE  globalLock = t
<1>1. call[t].at \in {"inside", "inserting", "tabling", "logging"}
  BY DEF Touches
<1> QED BY <1>1 DEF LockInv, LockHeld

\* The lock excludes races.
LEMMA LockExcludesRaces == LockInv => RacesNeedCreateDevice
<1> SUFFICES ASSUME LockInv, NEW t \in Threads, NEW u \in Threads, t # u, Race(t, u)
             PROVE  \E v \in {t, u} : call[v].op = "CreateDevice"
  BY DEF RacesNeedCreateDevice
<1>1. Touches(t) # {} /\ Touches(u) # {}
  BY DEF Race
<1> QED BY <1>1, TouchesUnderLock

\* Whatever the number of threads, no two of them are at work on one map, one of them
\* changing it, unless one of them is in vkCreateDevice.
THEOREM RacesExcluded == DispatchSpec => []RacesNeedCreateDevice
<1>1. DispatchInit => LockInv
  BY LockInvInitially
<1>2. LockInv /\ [DispatchNext]_dispatchVars => LockInv'
  BY InvNext
<1>3. LockInv => RacesNeedCreateDevice
  BY LockExcludesRaces
<1> QED BY <1>1, <1>2, <1>3, PTL DEF DispatchSpec, DispatchSafety

-----------------------------------------------------------------------------
(* What the layer stores follows the driver's objects.  The layer has only   *)
(* its maps to go by; that they are right rests on how the application       *)
(* synchronises its calls, on the lock, and on how far vkCreateDevice, which *)
(* takes no lock, has come.                                                  *)

InstanceCalls == {"CreateInstance", "DestroyInstance", "UseInstance",
                  "CreateCallback", "DestroyCallback"}
DeviceCalls == {"CreateDevice", "DestroyDevice", "UseDevice", "GetDeviceQueue"}
CallbackCalls == {"CreateCallback", "DestroyCallback"}

\* What a call is on.
Shape(c) ==
    /\ c.op = "none" <=> c.at = "idle"
    /\ c.op = "none" => c.inst = Null /\ c.dev = Null
    /\ c.op \in InstanceCalls => c.dev = Null
    /\ c.op \in DeviceCalls => c.dev # Null
    /\ c.at = "logging" => c.op \in {"UseDevice", "CreateDevice"}
    /\ c.at = "called" => c.op # "CreateDevice"

\* The objects a call is on exist, or do not exist yet.
Grounded(c) ==
    /\ c.op # "none" => (c.op = "CreateInstance" <=> c.inst \notin Live(instances))
    /\ c.op = "DestroyInstance" =>
           /\ \A d \in Live(devices) : devices[d].inst # c.inst
           /\ \A b \in Live(callbacks) : callbacks[b] # c.inst
    /\ c.op = "CreateCallback" => c.arg \in Callbacks \ Live(callbacks)
    /\ c.op = "DestroyCallback" => c.arg \in Live(callbacks) /\ callbacks[c.arg] = c.inst
    /\ c.op = "CreateDevice" /\ c.at = "inside" => c.dev \notin Live(devices)
    /\ c.dev # Null /\ ~(c.op = "CreateDevice" /\ c.at = "inside") =>
           c.dev \in Live(devices) /\ devices[c.dev].inst = c.inst

\* No other call is on an object while it is made or destroyed.
Apart(c, e) ==
    /\ c.op \in {"CreateDevice", "DestroyDevice"} => e.dev # c.dev
    /\ c.op \in {"CreateInstance", "DestroyInstance"} => e.inst # c.inst
    /\ c.op \in CallbackCalls /\ e.op \in CallbackCalls => e.arg # c.arg

Synchronised ==
    /\ \A t \in Threads : Shape(call[t]) /\ Grounded(call[t])
    /\ \A t, u \in Threads : t # u => Apart(call[t], call[u])

\* Devices and callbacks are of live instances.
Owned ==
    /\ \A d \in Live(devices) : devices[d].inst \in Live(instances)
    /\ \A c \in Live(callbacks) : c \in Callbacks /\ callbacks[c] \in Live(instances)

\* An Instance object and a table for every live instance, of that very instance.
Listeners(i) == {c \in Live(callbacks) : callbacks[c] = i} \cup (IF logs THEN {Null} ELSE {})

InstanceDataCurrent ==
    /\ Live(instanceData) = Live(instances)
    /\ \A i \in Live(instances) :
           /\ instanceData[i] = [of |-> instances[i], logger |-> Listeners(i)]
           /\ i \in DOMAIN instanceDispatch /\ instanceDispatch[i] = instances[i]

\* vkCreateDevice has come so far with device d.
Making(d, places) ==
    \E t \in Threads : call[t].op = "CreateDevice" /\ call[t].dev = d /\ call[t].at \in places

\* A Device object, its queues and a table for every live device, but for what
\* vkCreateDevice has still to do.
DeviceDataCurrent ==
    /\ Live(deviceData) \subseteq Live(devices)
    /\ \A d \in Live(devices) : d \in Live(deviceData) \/ Making(d, {"inserting"})
    /\ \A d \in Live(deviceData) :
           /\ \E queues \in SUBSET Families :
                  /\ deviceData[d] = [of |-> devices[d].born, inst |-> devices[d].inst,
                                      queues |-> queues]
                  /\ queues = devices[d].families \/ Making(d, {"tabling", "queues"})
           /\ \/ Making(d, {"tabling"})
              \/ d \in DOMAIN deviceDispatch /\ deviceDispatch[d] = devices[d].born

DataCurrent ==
    /\ Synchronised /\ Owned
    /\ InstanceDataCurrent /\ DeviceDataCurrent
    /\ MessagesReachListeners

DataInv == LockInv /\ DataCurrent

-----------------------------------------------------------------------------

\* Nothing is stored at first.
LEMMA DataInvInitially == DispatchInit => DataInv
<1> SUFFICES ASSUME DispatchInit PROVE DataCurrent
  BY LockInvInitially DEF DataInv
<1> USE DEF DispatchInit, EmptyMap, Live
<1>1. Synchronised
  BY DEF Synchronised, Shape, Grounded, Apart, Idle, InstanceCalls, DeviceCalls, CallbackCalls
<1>2. Owned /\ InstanceDataCurrent /\ DeviceDataCurrent
  BY DEF Owned, InstanceDataCurrent, DeviceDataCurrent
<1>3. MessagesReachListeners
  BY DEF MessagesReachListeners, Idle
<1> QED BY <1>1, <1>2, <1>3 DEF DataCurrent

\* A call is on the same objects while the driver's objects stay.
LEMMA GroundedKept ==
    ASSUME NEW u \in Threads, call'[u] = call[u], Grounded(call[u]),
           UNCHANGED <<instances, devices, callbacks>>
    PROVE  Grounded(call[u])'
  BY DEF Grounded

\* vkCreateDevice is where it was, while another call goes on.
LEMMA MakingKept ==
    ASSUME NEW t \in Threads, \A u \in Threads \ {t} : call'[u] = call[u],
           NEW d, NEW places \in SUBSET {"inserting", "tabling", "queues"},
           call[t].op # "CreateDevice" \/ call[t].at \notin {"inserting", "tabling", "queues"},
           Making(d, places)
    PROVE  Making(d, places)'
  BY DEF Making

\* A step that changes no Device object and no table keeps what was stored of devices.
LEMMA DeviceDataKept ==
    ASSUME DeviceDataCurrent, NEW t \in Threads, \A u \in Threads \ {t} : call'[u] = call[u],
           call[t].op # "CreateDevice" \/ call[t].at \notin {"inserting", "tabling", "queues"},
           UNCHANGED <<deviceData, deviceDispatch, devices>>
    PROVE  DeviceDataCurrent'
<1>1. \A d, places : places \in SUBSET {"inserting", "tabling", "queues"} /\ Making(d, places) =>
          Making(d, places)'
  BY MakingKept
<1>2. Live(deviceData)' \subseteq Live(devices)'
  BY DEF DeviceDataCurrent, Live
<1>3. \A d \in Live(devices)' : d \in Live(deviceData)' \/ Making(d, {"inserting"})'
  BY <1>1 DEF DeviceDataCurrent, Live
<1>4. ASSUME NEW d \in Live(deviceData)'
      PROVE  /\ \E queues \in SUBSET Families :
                   /\ deviceData'[d] = [of |-> devices'[d].born, inst |-> devices'[d].inst,
                                        queues |-> queues]
                   /\ queues = devices'[d].families \/ Making(d, {"tabling", "queues"})'
             /\ \/ Making(d, {"tabling"})'
                \/ d \in DOMAIN deviceDispatch' /\ deviceDispatch'[d] = devices'[d].born
  BY <1>1 DEF DeviceDataCurrent, Live
<1> QED BY <1>2, <1>3, <1>4 DEF DeviceDataCurrent

\* A step that changes no object and no data keeps what was stored.
LEMMA DataKept ==
    ASSUME DataCurrent, NEW t \in Threads, \A u \in Threads \ {t} : call'[u] = call[u],
           call[t].op # "CreateDevice" \/ call[t].at \notin {"inserting", "tabling", "queues"},
           UNCHANGED <<layerData, driver>>
    PROVE  Owned' /\ InstanceDataCurrent' /\ DeviceDataCurrent'
<1>1. UNCHANGED <<instanceData, deviceData, instanceDispatch, deviceDispatch,
                  instances, devices, callbacks, born, logs>>
  BY DEF layerData, driver
<1>2. Owned' /\ InstanceDataCurrent'
  BY <1>1 DEF DataCurrent, Owned, InstanceDataCurrent, Listeners, Live
<1>3. DeviceDataCurrent'
  BY <1>1, DeviceDataKept DEF DataCurrent
<1> QED BY <1>2, <1>3

\* The callbacks a message is for stay, as long as the lock is held for it.
LEMMA MessagesKept ==
    ASSUME MessagesReachListeners, NEW t \in Threads,
           \A u \in Threads \ {t} : call'[u] = call[u],
           call'[t].at # "logging", globalLock' \in {globalLock, Null, t},
           UNCHANGED <<callbacks, logs>> \/ globalLock = t, UNCHANGED logs
    PROVE  MessagesReachListeners'
<1> SUFFICES ASSUME NEW u \in Threads, call'[u].at = "logging", globalLock' = u
             PROVE  call'[u].pending =
                        {c \in Wants \cap Live(callbacks)' : callbacks'[c] = call'[u].inst}
                        \cup IF logs' THEN {Null} ELSE {}
  BY DEF MessagesReachListeners
<1>1. u # t /\ call'[u] = call[u] /\ globalLock = u
  OBVIOUS
<1>2. UNCHANGED callbacks /\ UNCHANGED logs
  BY <1>1
<1> QED BY <1>1, <1>2 DEF MessagesReachListeners, Live

\* A call begins on objects that are there, apart from the calls that make or destroy one.
LEMMA DataBegin ==
    ASSUME DataInv, NEW t \in Threads, NEW o \in LockedCalls \cup {"CreateDevice"},
           NEW i \in Instances, NEW d \in Devices \cup {Null},
           NEW a \in Callbacks \cup Families \cup {Null}, NEW new,
           new = [op |-> o, inst |-> i, dev |-> d, arg |-> a,
                  at |-> IF o \in LockedCalls THEN "called" ELSE "inside", pending |-> {}],
           Begin(t, o, i, d, a), Shape(new), Grounded(new),
           \A u \in Threads : Apart(new, call[u]) /\ Apart(call[u], new)
    PROVE  DataCurrent'
<1>1. /\ call[t] = Idle /\ call' = [call EXCEPT ![t] = new]
      /\ UNCHANGED <<globalLock, layerData, driver>>
  BY DEF Begin
<1>2. /\ call'[t] = new /\ \A u \in Threads \ {t} : call'[u] = call[u]
      /\ new.at # "logging"
  BY <1>1 DEF DataInv, LockInv, CallsTypeOK
<1>3. UNCHANGED <<instances, devices, callbacks, logs>>
  BY <1>1 DEF driver
<1>4. Synchronised'
  <2>1. ASSUME NEW u \in Threads
        PROVE  Shape(call'[u]) /\ Grounded(call[u])'
    <3>1. CASE u = t
      BY <1>2, <1>3, <3>1 DEF Grounded
    <3>2. CASE u # t
      BY <1>2, <1>3, <3>2, GroundedKept DEF DataInv, DataCurrent, Synchronised
    <3> QED BY <3>1, <3>2
  <2>2. ASSUME NEW u \in Threads, NEW v \in Threads, u # v
        PROVE  Apart(call'[u], call'[v])
    BY <1>2, <2>2 DEF DataInv, DataCurrent, Synchronised
  <2> QED BY <2>1, <2>2 DEF Synchronised
<1>5. Owned' /\ InstanceDataCurrent' /\ DeviceDataCurrent'
  BY <1>1, <1>2, DataKept DEF DataInv, Idle
<1>6. MessagesReachListeners'
  BY <1>1, <1>2, <1>3, MessagesKept DEF DataInv, DataCurrent
<1> QED BY <1>4, <1>5, <1>6 DEF DataCurrent

\* A call on a live instance that no call makes or destroys.
LEMMA DataCallOnInstance ==
    ASSUME DataInv, NEW t \in Threads, NEW i \in Instances, CallOnInstance(t, i)
    PROVE  DataCurrent'
<1> DEFINE new(o, a) == [op |-> o, inst |-> i, dev |-> Null, arg |-> a,
                         at |-> IF o \in LockedCalls THEN "called" ELSE "inside", pending |-> {}]
<1>0. /\ \A u \in Threads : Shape(call[u]) /\ Grounded(call[u])
      /\ Null \in Devices \cup {Null} /\ Null \in Callbacks \cup Families \cup {Null}
  BY DEF DataInv, DataCurrent, Synchronised
<1>1. CASE /\ i \notin Live(instances) /\ OnInstance(i) = {}
           /\ Begin(t, "CreateInstance", i, Null, Null)
  <2>1. "CreateInstance" \in LockedCalls
    BY DEF LockedCalls
  <2>2. Shape(new("CreateInstance", Null)) /\ Grounded(new("CreateInstance", Null))
    BY <1>1, <2>1 DEF Shape, Grounded, InstanceCalls, DeviceCalls
  <2>3. \A u \in Threads : /\ Apart(new("CreateInstance", Null), call[u])
                           /\ Apart(call[u], new("CreateInstance", Null))
    BY <1>0, <1>1 DEF Apart, Shape, OnInstance, DeviceCalls, CallbackCalls
  <2> QED BY <1>0, <1>1, <2>1, <2>2, <2>3, DataBegin
<1>2. CASE /\ i \in Live(instances) /\ OnInstance(i) = {}
           /\ \A d \in Live(devices) : devices[d].inst # i
           /\ \A c \in Live(callbacks) : callbacks[c] # i
           /\ Begin(t, "DestroyInstance", i, Null, Null)
  <2>1. "DestroyInstance" \in LockedCalls
    BY DEF LockedCalls
  <2>2. Shape(new("DestroyInstance", Null)) /\ Grounded(new("DestroyInstance", Null))
    BY <1>2, <2>1 DEF Shape, Grounded, InstanceCalls, DeviceCalls
  <2>3. \A u \in Threads : /\ Apart(new("DestroyInstance", Null), call[u])
                           /\ Apart(call[u], new("DestroyInstance", Null))
    BY <1>0, <1>2 DEF Apart, Shape, OnInstance, DeviceCalls, CallbackCalls
  <2> QED BY <1>0, <1>2, <2>1, <2>2, <2>3, DataBegin
<1>3. ASSUME i \in Live(instances), Quiet(i), NEW u \in Threads,
             call[u].op \in {"CreateInstance", "DestroyInstance"}
      PROVE  call[u].inst # i
  BY <1>0, <1>3 DEF Grounded, Quiet, OnInstance
<1>4. ASSUME NEW o \in {"UseInstance", "GetProcAddr"},
             i \in Live(instances), Quiet(i), Begin(t, o, i, Null, Null)
      PROVE  DataCurrent'
  <2>1. o \in LockedCalls
    BY DEF LockedCalls
  <2>2. Shape(new(o, Null)) /\ Grounded(new(o, Null))
    BY <1>4, <2>1 DEF Shape, Grounded, InstanceCalls, DeviceCalls
  <2>3. \A u \in Threads : Apart(new(o, Null), call[u]) /\ Apart(call[u], new(o, Null))
    BY <1>0, <1>3, <1>4 DEF Apart, Shape, DeviceCalls, CallbackCalls
  <2> QED BY <1>0, <1>4, <2>1, <2>2, <2>3, DataBegin
<1>5. ASSUME NEW c \in Callbacks, NEW o \in CallbackCalls,
             i \in Live(instances), Quiet(i), \A u \in Threads : call[u].arg # c,
             \/ o = "CreateCallback" /\ c \notin Live(callbacks)
             \/ o = "DestroyCallback" /\ c \in Live(callbacks) /\ callbacks[c] = i,
             Begin(t, o, i, Null, c)
      PROVE  DataCurrent'
  <2>1. o \in LockedCalls
    BY DEF LockedCalls, CallbackCalls
  <2>2. Shape(new(o, c)) /\ Grounded(new(o, c))
    BY <1>5, <2>1 DEF Shape, Grounded, InstanceCalls, DeviceCalls, CallbackCalls
  <2>3. \A u \in Threads : Apart(new(o, c), call[u]) /\ Apart(call[u], new(o, c))
    BY <1>0, <1>3, <1>5 DEF Apart, Shape, DeviceCalls, CallbackCalls
  <2> QED BY <1>0, <1>5, <2>1, <2>2, <2>3, DataBegin
<1> QED BY <1>1, <1>2, <1>4, <1>5 DEF CallOnInstance, CallbackCalls

\* A call on a live device that no call makes or destroys, and so of a live instance.
LEMMA DataCallOnDevice ==
    ASSUME DataInv, NEW t \in Threads, NEW d \in Devices, CallOnDevice(t, d)
    PROVE  DataCurrent'
<1> DEFINE new(o, i, a) == [op |-> o, inst |-> i, dev |-> d, arg |-> a,
                            at |-> IF o \in LockedCalls THEN "called" ELSE "inside", pending |-> {}]
<1>0. /\ \A u \in Threads : Shape(call[u]) /\ Grounded(call[u])
      /\ d # Null /\ Null \in Callbacks \cup Families \cup {Null}
      /\ Owned /\ Live(instances) \subseteq Instances
      /\ \A e \in Live(devices) : devices[e].families \subseteq Families
  BY DEF DataInv, DataCurrent, Synchronised, LockInv, CallsTypeOK, ObjectsTypeOK
<1>1. ASSUME NEW i \in Live(instances), d \notin Live(devices), OnDevice(d) = {}, Quiet(i),
             Begin(t, "CreateDevice", i, d, Null)
      PROVE  DataCurrent'
  <2>1. "CreateDevice" \notin LockedCalls /\ i \in Instances
    BY <1>0 DEF LockedCalls
  <2>2. Shape(new("CreateDevice", i, Null)) /\ Grounded(new("CreateDevice", i, Null))
    BY <1>0, <1>1, <2>1 DEF Shape, Grounded, InstanceCalls, DeviceCalls
  <2>3. ASSUME NEW u \in Threads
        PROVE  /\ Apart(new("CreateDevice", i, Null), call[u])
               /\ Apart(call[u], new("CreateDevice", i, Null))
    <3>1. call[u].dev # d
      BY <1>1 DEF OnDevice
    <3>2. call[u].op \in {"CreateInstance", "DestroyInstance"} => call[u].inst # i
      BY <1>0, <1>1 DEF Grounded, Quiet, OnInstance
    <3> QED BY <3>1, <3>2 DEF Apart, CallbackCalls
  <2> QED BY <1>0, <1>1, <2>1, <2>2, <2>3, DataBegin
<1>2. ASSUME d \in Live(devices), NEW o \in {"DestroyDevice", "UseDevice", "GetProcAddr", "GetDeviceQueue"},
             NEW a \in Families \cup {Null},
             IF o = "DestroyDevice" THEN OnDevice(d) = {} ELSE ~Unsynchronised(d),
             Begin(t, o, devices[d].inst, d, a)
      PROVE  DataCurrent'
  <2> DEFINE i == devices[d].inst
  <2>1. o \in LockedCalls /\ i \in Instances /\ i \in Live(instances)
    BY <1>0, <1>2 DEF LockedCalls, Owned
  <2>2. Shape(new(o, i, a)) /\ Grounded(new(o, i, a))
    BY <1>0, <1>2, <2>1 DEF Shape, Grounded, InstanceCalls, DeviceCalls
  <2>3. ASSUME NEW u \in Threads
        PROVE  Apart(new(o, i, a), call[u]) /\ Apart(call[u], new(o, i, a))
    <3>1. call[u].op \in {"CreateDevice", "DestroyDevice"} \/ o = "DestroyDevice" => call[u].dev # d
      BY <1>2 DEF OnDevice, Unsynchronised
    <3>2. call[u].op \in {"CreateInstance", "DestroyInstance"} => call[u].inst # i
      BY <1>0, <1>2, <2>1 DEF Grounded
    <3> QED BY <3>1, <3>2 DEF Apart, CallbackCalls
  <2> QED BY <1>0, <1>2, <2>1, <2>2, <2>3, DataBegin
<1>3. CASE d \notin Live(devices)
  BY <1>1, <1>3 DEF CallOnDevice
<1>4. CASE d \in Live(devices)
  BY <1>0, <1>2, <1>4 DEF CallOnDevice
<1> QED BY <1>3, <1>4

-----------------------------------------------------------------------------

\* A call that returns is on nothing, and apart from all others ...
LEMMA SyncReturned ==
    ASSUME LockInv, Synchronised, NEW t \in Threads, Return(t),
           \A u \in Threads \ {t} : Grounded(call[u])'
    PROVE  Synchronised'
<1>1. call'[t] = Idle /\ \A u \in Threads \ {t} : call'[u] = call[u]
  BY DEF Return, LockInv, CallsTypeOK
<1>2. Shape(call'[t]) /\ Grounded(call[t])'
  BY <1>1 DEF Shape, Grounded, Idle, InstanceCalls, DeviceCalls
<1>3. ASSUME NEW u \in Threads
      PROVE  Shape(call'[u]) /\ Grounded(call[u])'
  BY <1>1, <1>2 DEF Synchronised
<1>4. ASSUME NEW u \in Threads, NEW v \in Threads, u # v
      PROVE  Apart(call'[u], call'[v])
  <2>1. CASE u = t
    BY <1>1, <2>1 DEF Apart, Idle, CallbackCalls
  <2>2. CASE v = t
    <3>1. Shape(call[u]) /\ (call[u].at # "idle" => call[u].inst # Null)
      BY DEF Synchronised, LockInv, LockHeld
    <3> QED BY <1>1, <1>4, <2>2, <3>1 DEF Apart, Idle, Shape, DeviceCalls, CallbackCalls
  <2>3. CASE u # t /\ v # t
    BY <1>1, <1>4, <2>3 DEF Synchronised
  <2> QED BY <2>1, <2>2, <2>3
<1> QED BY <1>3, <1>4 DEF Synchronised

\* ... and one that goes on stays on what it was.
LEMMA SyncMoved ==
    ASSUME Synchronised, NEW t \in Threads, \A u \in Threads \ {t} : call'[u] = call[u],
           call'[t].op = call[t].op, call'[t].inst = call[t].inst,
           call'[t].dev = call[t].dev, call'[t].arg = call[t].arg,
           call[t].at # "idle", call'[t].at \notin {"idle", "called"},
           call'[t].at = "logging" => call[t].op \in {"UseDevice", "CreateDevice"},
           \A u \in Threads : Grounded(call[u])'
    PROVE  Synchronised'
<1>1. ASSUME NEW u \in Threads
      PROVE  Shape(call'[u])
  BY DEF Synchronised, Shape
<1>2. ASSUME NEW u \in Threads, NEW v \in Threads, u # v
      PROVE  Apart(call'[u], call'[v])
  <2>1. Apart(call[u], call[v])
    BY <1>2 DEF Synchronised
  <2>2. /\ call'[u].op = call[u].op /\ call'[u].inst = call[u].inst
        /\ call'[u].dev = call[u].dev /\ call'[u].arg = call[u].arg
        /\ call'[v].op = call[v].op /\ call'[v].inst = call[v].inst
        /\ call'[v].dev = call[v].dev /\ call'[v].arg = call[v].arg
    OBVIOUS
  <2> QED BY <2>1, <2>2 DEF Apart
<1> QED BY <1>1, <1>2 DEF Synchronised

\* What is known of a call that has the lock, or of any other, from the call records.
LEMMA Others ==
    ASSUME LockInv, NEW t \in Threads, Return(t)
    PROVE  /\ \A u \in Threads \ {t} : call'[u] = call[u]
           /\ call'[t].at # "logging" /\ globalLock' \in {globalLock, Null}
  BY DEF LockInv, CallsTypeOK, Return, Idle

\* A call that is never to return ...
LEMMA DataCrash ==
    ASSUME DataInv, NEW t \in Threads, Crash(t)
    PROVE  DataCurrent'
<1>1. UNCHANGED <<globalLock, call, instanceData, deviceData, instanceDispatch, deviceDispatch,
                  instances, devices, callbacks, logs>>
  BY DEF Crash, layerData, driver
<1>2. Synchronised'
  BY <1>1, GroundedKept DEF DataInv, DataCurrent, Synchronised
<1>3. Owned' /\ InstanceDataCurrent' /\ MessagesReachListeners'
  BY <1>1 DEF DataInv, DataCurrent, Owned, InstanceDataCurrent, Listeners, Live,
              MessagesReachListeners
<1>4. DeviceDataCurrent'
  BY <1>1 DEF DataInv, DataCurrent, DeviceDataCurrent, Making, Live
<1> QED BY <1>2, <1>3, <1>4 DEF DataCurrent

\* ... or one that ends and changes nothing.
LEMMA DataEnds ==
    ASSUME DataInv, NEW t \in Threads, Fails(t) \/ Crash(t),
           call[t].op # "CreateDevice" \/ call[t].at \notin {"inserting", "tabling", "queues"}
    PROVE  DataCurrent'
<1>1. CASE Fails(t)
  <2>1. /\ Return(t) /\ UNCHANGED <<layerData, driver>>
        /\ UNCHANGED <<instances, devices, callbacks, logs>>
    BY <1>1 DEF Fails, driver
  <2>2. \A u \in Threads \ {t} : call'[u] = call[u]
    BY <2>1, Others DEF DataInv
  <2>3. Synchronised'
    BY <2>1, <2>2, GroundedKept, SyncReturned DEF DataInv, DataCurrent, Synchronised
  <2>4. Owned' /\ InstanceDataCurrent' /\ DeviceDataCurrent'
    BY <2>1, <2>2, DataKept DEF DataInv
  <2>5. MessagesReachListeners'
    BY <2>1, <2>2, Others, MessagesKept DEF DataInv, DataCurrent
  <2> QED BY <2>3, <2>4, <2>5 DEF DataCurrent
<1>2. CASE Crash(t)
  BY <1>2, DataCrash
<1> QED BY <1>1, <1>2

\* A call takes the lock.
LEMMA DataEnter ==
    ASSUME DataInv, NEW t \in Threads, Enter(t)
    PROVE  DataCurrent'
<1>1. /\ \A u \in Threads \ {t} : call'[u] = call[u]
      /\ call'[t] = [call[t] EXCEPT !.at = "inside"]
      /\ call[t].at = "called" /\ globalLock' = t
      /\ UNCHANGED <<layerData, driver>> /\ UNCHANGED <<instances, devices, callbacks, logs>>
      /\ call[t] \in Calls
  BY DEF Enter, DataInv, LockInv, CallsTypeOK, driver
<1>2. /\ call'[t].op = call[t].op /\ call'[t].inst = call[t].inst
      /\ call'[t].dev = call[t].dev /\ call'[t].arg = call[t].arg
      /\ call'[t].at = "inside"
  BY <1>1 DEF Calls
<1>3. call[t].op # "CreateDevice"
  BY <1>1 DEF DataInv, DataCurrent, Synchronised, Shape
<1>4. Grounded(call[t])'
  <2>1. Grounded(call[t])
    BY DEF DataInv, DataCurrent, Synchronised
  <2> QED BY <1>1, <1>2, <1>3, <2>1 DEF Grounded
<1>5. Synchronised'
  <2>1. \A u \in Threads : Grounded(call[u])'
    BY <1>1, <1>4, GroundedKept DEF DataInv, DataCurrent, Synchronised
  <2>2. Synchronised
    BY DEF DataInv, DataCurrent
  <2> QED BY <1>1, <1>2, <2>1, <2>2, SyncMoved
<1>6. Owned' /\ InstanceDataCurrent' /\ DeviceDataCurrent'
  BY <1>1, DataKept DEF DataInv
<1>7. MessagesReachListeners'
  BY <1>1, <1>2, MessagesKept DEF DataInv, DataCurrent
<1> QED BY <1>5, <1>6, <1>7 DEF DataCurrent

\* A message goes to the callbacks registered for the instance.
LEMMA LogReaches ==
    ASSUME DataInv, NEW t \in Threads, NEW i, i = call[t].inst, Log(t, i),
           UNCHANGED <<callbacks, logs>>,
           call[t].at # "idle", call[t].op \in {"UseDevice", "CreateDevice"}
    PROVE  /\ \A u \in Threads \ {t} : call'[u] = call[u]
           /\ call'[t].op = call[t].op /\ call'[t].inst = call[t].inst
           /\ call'[t].dev = call[t].dev /\ call'[t].arg = call[t].arg
           /\ call'[t].at = "logging" /\ globalLock' = globalLock
           /\ MessagesReachListeners'
<1> DEFINE logging == [call EXCEPT ![t].at = "logging"]
<1>1. /\ logging \in [Threads -> Calls]
      /\ \A u \in Threads \ {t} : logging[u] = call[u]
      /\ logging[t].op = call[t].op /\ logging[t].inst = call[t].inst
      /\ logging[t].dev = call[t].dev /\ logging[t].arg = call[t].arg
      /\ logging[t].at = "logging"
  BY DEF DataInv, LockInv, CallsTypeOK, Calls
<1>2. /\ call' = [logging EXCEPT ![t].pending = Recipients(i)]
      /\ globalLock' = globalLock
  BY DEF Log
<1>3. /\ \A u \in Threads \ {t} : call'[u] = call[u]
      /\ call'[t].op = call[t].op /\ call'[t].inst = i
      /\ call'[t].dev = call[t].dev /\ call'[t].arg = call[t].arg
      /\ call'[t].at = "logging" /\ call'[t].pending = Recipients(i)
  <2> HIDE DEF logging
  <2> QED BY <1>1, <1>2 DEF Calls
<1>4. i \in Live(instances)
  BY DEF DataInv, DataCurrent, Synchronised, Grounded
<1>5. instanceData[i].logger = Listeners(i)
  <2>1. instanceData[i] = [of |-> instances[i], logger |-> Listeners(i)]
    BY <1>4 DEF DataInv, DataCurrent, InstanceDataCurrent
  <2> QED BY <2>1
<1>6. \A c \in Live(callbacks) : c # Null
  BY DEF DataInv, DataCurrent, Owned
<1>7. Recipients(i) = {c \in Wants \cap Live(callbacks) : callbacks[c] = i}
                      \cup IF logs THEN {Null} ELSE {}
  BY <1>5, <1>6 DEF Recipients, Listeners
<1>8. MessagesReachListeners'
  <2> SUFFICES ASSUME NEW u \in Threads, call'[u].at = "logging", globalLock' = u
               PROVE  call'[u].pending =
                          {c \in Wants \cap Live(callbacks)' : callbacks'[c] = call'[u].inst}
                          \cup IF logs' THEN {Null} ELSE {}
    BY DEF MessagesReachListeners
  <2>1. CASE u = t
    BY <1>3, <1>7, <2>1 DEF Live
  <2>2. CASE u # t
    <3>1. call'[u] = call[u] /\ call[u].at = "logging" /\ globalLock = u
      BY <1>2, <1>3, <2>2
    <3>2. MessagesReachListeners
      BY DEF DataInv, DataCurrent
    <3>3. call[u].pending = {c \in Wants \cap Live(callbacks) : callbacks[c] = call[u].inst}
                            \cup IF logs THEN {Null} ELSE {}
      BY <3>1, <3>2 DEF MessagesReachListeners
    <3> QED BY <3>1, <3>3 DEF Live
  <2> QED BY <2>1, <2>2
<1> QED BY <1>2, <1>3, <1>8

\* vkCreateInstance: nothing was of the instance before.
LEMMA DataCreateInstance ==
    ASSUME DataInv, NEW t \in Threads, CreateInstance(t)
    PROVE  DataCurrent'
<1>0. PICK i, n : i = call[t].inst /\ n = born[i] + 1
  OBVIOUS
<1>1. CASE Fails(t)
  BY <1>1, DataEnds DEF CreateInstance, Inside
<1>2. CASE ~Fails(t)
  <2>1. /\ call[t].op = "CreateInstance" /\ call[t].at = "inside" /\ Return(t)
        /\ instances' = With(instances, i, n)
        /\ instanceData' = With(instanceData, i, [of |-> n, logger |-> IF logs THEN {Null} ELSE {}])
        /\ instanceDispatch' = With(instanceDispatch, i, n)
        /\ UNCHANGED <<deviceData, deviceDispatch, devices, callbacks, logs>>
    BY <1>0, <1>2 DEF CreateInstance, Inside, initInstanceTable, Filled
  <2>2. /\ i \notin Live(instances) /\ \A u \in Threads \ {t} : call[u].inst # i
    BY <1>0, <2>1 DEF DataInv, DataCurrent, Synchronised, Grounded, Apart
  <2>3. /\ \A u \in Threads \ {t} : call'[u] = call[u]
        /\ call'[t].at # "logging" /\ globalLock' \in {globalLock, Null}
    BY <2>1, Others DEF DataInv
  <2>4. /\ Live(instances)' = Live(instances) \cup {i}
        /\ instances'[i] = n /\ \A j \in Live(instances) : instances'[j] = instances[j]
    BY <2>1, <2>2 DEF With, Live
  <2>5. Synchronised'
    <3>1. ASSUME NEW u \in Threads \ {t} PROVE Grounded(call[u])'
      <4>1. Grounded(call[u]) /\ call[u].inst # i
        BY <2>2 DEF DataInv, DataCurrent, Synchronised
      <4> QED BY <2>1, <2>3, <2>4, <4>1 DEF Grounded, Live
    <3> QED BY <2>1, <3>1, SyncReturned DEF DataInv, DataCurrent
  <2>6. Owned'
    BY <2>1, <2>4 DEF DataInv, DataCurrent, Owned, Live
  <2>7. InstanceDataCurrent'
    <3>1. InstanceDataCurrent /\ Owned
      BY DEF DataInv, DataCurrent
    <3>2. Live(instanceData)' = Live(instances)'
      BY <2>1, <2>4, <3>1 DEF InstanceDataCurrent, With, Live
    <3>3. /\ instanceData'[i] = [of |-> n, logger |-> IF logs THEN {Null} ELSE {}]
          /\ i \in DOMAIN instanceDispatch' /\ instanceDispatch'[i] = n
      BY <2>1 DEF With
    <3>4. Listeners(i)' = IF logs THEN {Null} ELSE {}
      <4>1. \A c \in Live(callbacks) : callbacks[c] # i
        BY <2>2, <3>1 DEF Owned
      <4> QED BY <2>1, <4>1 DEF Listeners, Live
    <3>5. \A j : Listeners(j)' = Listeners(j)
      BY <2>1 DEF Listeners, Live
    <3>6. ASSUME NEW j \in Live(instances)
          PROVE  instanceData'[j] = [of |-> instances'[j], logger |-> Listeners(j)']
                 /\ j \in DOMAIN instanceDispatch' /\ instanceDispatch'[j] = instances'[j]
      <4>1. /\ j # i /\ j \in DOMAIN instanceData
            /\ instanceData[j] = [of |-> instances[j], logger |-> Listeners(j)]
            /\ j \in DOMAIN instanceDispatch /\ instanceDispatch[j] = instances[j]
        BY <2>2, <3>1 DEF Live, InstanceDataCurrent
      <4>2. instanceData'[j] = instanceData[j]
        BY <2>1, <4>1 DEF With
      <4>3. j \in DOMAIN instanceDispatch' /\ instanceDispatch'[j] = instanceDispatch[j]
        BY <2>1, <4>1 DEF With
      <4> QED BY <2>4, <3>5, <4>1, <4>2, <4>3
    <3> QED BY <2>4, <3>2, <3>3, <3>4, <3>6 DEF InstanceDataCurrent
  <2>8. DeviceDataCurrent'
    BY <2>1, <2>3, DeviceDataKept DEF DataInv, DataCurrent
  <2>9. MessagesReachListeners'
    BY <2>1, <2>3, MessagesKept DEF DataInv, DataCurrent
  <2> QED BY <2>5, <2>6, <2>7, <2>8, <2>9 DEF DataCurrent
<1> QED BY <1>1, <1>2

\* vkDestroyInstance: nothing is of the instance any more.
LEMMA DataDestroyInstance ==
    ASSUME DataInv, NEW t \in Threads, DestroyInstance(t)
    PROVE  DataCurrent'
<1>0. PICK i : i = call[t].inst
  OBVIOUS
<1>1. CASE Crash(t)
  BY <1>1, DataEnds DEF DestroyInstance, Inside
<1>2. CASE ~Crash(t)
  <2>1. /\ call[t].op = "DestroyInstance" /\ call[t].at = "inside" /\ Return(t)
        /\ instances' = Without(instances, i)
        /\ instanceData' = Without(instanceData, i)
        /\ UNCHANGED <<deviceData, instanceDispatch, deviceDispatch, devices, callbacks, logs>>
    BY <1>0, <1>2 DEF DestroyInstance, Inside
  <2>2. /\ \A u \in Threads \ {t} : call[u].inst # i
        /\ \A d \in Live(devices) : devices[d].inst # i
        /\ \A c \in Live(callbacks) : callbacks[c] # i
    BY <1>0, <2>1 DEF DataInv, DataCurrent, Synchronised, Grounded, Apart
  <2>3. /\ \A u \in Threads \ {t} : call'[u] = call[u]
        /\ call'[t].at # "logging" /\ globalLock' \in {globalLock, Null}
    BY <2>1, Others DEF DataInv
  <2>4. /\ Live(instances)' = Live(instances) \ {i}
        /\ \A j \in Live(instances)' : instances'[j] = instances[j]
    BY <2>1 DEF Without, Live
  <2>5. Synchronised'
    <3>1. ASSUME NEW u \in Threads \ {t} PROVE Grounded(call[u])'
      <4>1. Grounded(call[u]) /\ call[u].inst # i
        BY <2>2 DEF DataInv, DataCurrent, Synchronised
      <4> QED BY <2>1, <2>3, <2>4, <4>1 DEF Grounded, Live
    <3> QED BY <2>1, <3>1, SyncReturned DEF DataInv, DataCurrent
  <2>6. Owned'
    BY <2>1, <2>2, <2>4 DEF DataInv, DataCurrent, Owned, Live
  <2>7. InstanceDataCurrent'
    <3>1. InstanceDataCurrent
      BY DEF DataInv, DataCurrent
    <3>2. Live(instanceData)' = Live(instances)'
      BY <2>1, <2>4, <3>1 DEF InstanceDataCurrent, Without, Live
    <3>3. \A j : Listeners(j)' = Listeners(j)
      BY <2>1 DEF Listeners, Live
    <3>4. ASSUME NEW j \in Live(instances)'
          PROVE  /\ instanceData'[j] = instanceData[j]
                 /\ j \in DOMAIN instanceDispatch' /\ instanceDispatch'[j] = instances[j]
      BY <2>1, <2>4, <3>1 DEF Without, Live, InstanceDataCurrent
    <3> QED BY <2>4, <3>1, <3>2, <3>3, <3>4 DEF InstanceDataCurrent
  <2>8. DeviceDataCurrent'
    BY <2>1, <2>3, DeviceDataKept DEF DataInv, DataCurrent
  <2>9. MessagesReachListeners'
    BY <2>1, <2>3, MessagesKept DEF DataInv, DataCurrent
  <2> QED BY <2>5, <2>6, <2>7, <2>8, <2>9 DEF DataCurrent
<1> QED BY <1>1, <1>2

\* vkCreateDebugReportCallbackEXT: a new listener of its instance and of no other.
LEMMA DataCreateCallback ==
    ASSUME DataInv, NEW t \in Threads, CreateDebugReportCallback(t)
    PROVE  DataCurrent'
<1>0. PICK i, c : i = call[t].inst /\ c = call[t].arg
  OBVIOUS
<1>1. CASE Fails(t) \/ Crash(t)
  BY <1>1, DataEnds DEF CreateDebugReportCallback, Inside
<1>2. CASE ~(Fails(t) \/ Crash(t))
  <2>1. /\ call[t].op = "CreateCallback" /\ call[t].at = "inside" /\ Return(t)
        /\ callbacks' = With(callbacks, c, i)
        /\ instanceData' = [instanceData EXCEPT ![i].logger = @ \cup {c}]
        /\ UNCHANGED <<deviceData, instanceDispatch, deviceDispatch, instances, devices, logs>>
    BY <1>0, <1>2 DEF CreateDebugReportCallback, Inside, Registered
  <2>2. /\ i \in Live(instances) /\ c \in Callbacks \ Live(callbacks) /\ globalLock = t
        /\ \A u \in Threads \ {t} : call[u].op \in CallbackCalls => call[u].arg # c
        /\ \A u \in Threads \ {t} : call[u].op = "DestroyInstance" => call[u].inst # i
    BY <1>0, <2>1 DEF DataInv, DataCurrent, Synchronised, Grounded, Apart, CallbackCalls,
                      LockInv, LockHeld
  <2>3. /\ \A u \in Threads \ {t} : call'[u] = call[u]
        /\ call'[t].at # "logging" /\ globalLock' \in {globalLock, Null}
    BY <2>1, Others DEF DataInv
  <2>4. /\ Live(callbacks)' = Live(callbacks) \cup {c}
        /\ callbacks'[c] = i /\ \A b \in Live(callbacks) : callbacks'[b] = callbacks[b]
    BY <2>1, <2>2 DEF With, Live
  <2>5. Synchronised'
    <3>1. ASSUME NEW u \in Threads \ {t} PROVE Grounded(call[u])'
      <4>1. Grounded(call[u])
        BY DEF DataInv, DataCurrent, Synchronised
      <4> QED BY <2>1, <2>2, <2>3, <2>4, <4>1 DEF Grounded, Live, CallbackCalls
    <3> QED BY <2>1, <3>1, SyncReturned DEF DataInv, DataCurrent
  <2>6. Owned'
    BY <2>1, <2>2, <2>4 DEF DataInv, DataCurrent, Owned, Live
  <2>7. InstanceDataCurrent'
    <3>1. InstanceDataCurrent
      BY DEF DataInv, DataCurrent
    <3>2. Listeners(i)' = Listeners(i) \cup {c}
      BY <2>1, <2>2, <2>4 DEF Listeners
    <3>3. \A j : j # i => Listeners(j)' = Listeners(j)
      BY <2>1, <2>2, <2>4 DEF Listeners
    <3>4. instanceData[i] = [of |-> instances[i], logger |-> Listeners(i)] /\ i \in DOMAIN instanceData
      BY <2>2, <3>1 DEF InstanceDataCurrent, Live
    <3>5. /\ DOMAIN instanceData' = DOMAIN instanceData
          /\ instanceData'[i] = [of |-> instances[i], logger |-> Listeners(i)']
          /\ \A j \in DOMAIN instanceData : j # i => instanceData'[j] = instanceData[j]
      <4>1. instanceData[i].logger = Listeners(i)
        BY <3>4
      <4>2. /\ DOMAIN instanceData' = DOMAIN instanceData
            /\ instanceData'[i] = [instanceData[i] EXCEPT !.logger = @ \cup {c}]
            /\ \A j \in DOMAIN instanceData : j # i => instanceData'[j] = instanceData[j]
        BY <2>1, <3>4
      <4>3. [instanceData[i] EXCEPT !.logger = @ \cup {c}] =
                [of |-> instances[i], logger |-> Listeners(i) \cup {c}]
        BY <3>4, <4>1
      <4> QED BY <3>2, <4>2, <4>3
    <3>6. /\ Live(instances)' = Live(instances) /\ instances' = instances
          /\ Live(instanceData)' = Live(instanceData) /\ instanceDispatch' = instanceDispatch
      BY <2>1, <3>5 DEF Live
    <3>7. ASSUME NEW j \in Live(instances)
          PROVE  /\ instanceData'[j] = [of |-> instances[j], logger |-> Listeners(j)']
                 /\ j \in DOMAIN instanceDispatch /\ instanceDispatch[j] = instances[j]
      <4>1. /\ instanceData[j] = [of |-> instances[j], logger |-> Listeners(j)]
            /\ j \in DOMAIN instanceDispatch /\ instanceDispatch[j] = instances[j]
            /\ j \in DOMAIN instanceData
        BY <3>1 DEF InstanceDataCurrent, Live
      <4>2. CASE j = i
        BY <3>5, <4>1, <4>2
      <4>3. CASE j # i
        BY <3>3, <3>5, <4>1, <4>3
      <4> QED BY <4>2, <4>3
    <3> QED BY <3>1, <3>6, <3>7 DEF InstanceDataCurrent
  <2>8. DeviceDataCurrent'
    BY <2>1, <2>3, DeviceDataKept DEF DataInv, DataCurrent
  <2>9. MessagesReachListeners'
    BY <2>1, <2>2, <2>3, MessagesKept DEF DataInv, DataCurrent
  <2> QED BY <2>5, <2>6, <2>7, <2>8, <2>9 DEF DataCurrent
<1> QED BY <1>1, <1>2

\* vkDestroyDebugReportCallbackEXT: no listener of its instance any more.
LEMMA DataDestroyCallback ==
    ASSUME DataInv, NEW t \in Threads, DestroyDebugReportCallback(t)
    PROVE  DataCurrent'
<1>0. PICK i, c : i = call[t].inst /\ c = call[t].arg
  OBVIOUS
<1>1. CASE Crash(t)
  BY <1>1, DataEnds DEF DestroyDebugReportCallback, Inside
<1>2. CASE ~Crash(t)
  <2>1. /\ call[t].op = "DestroyCallback" /\ call[t].at = "inside" /\ Return(t)
        /\ callbacks' = Without(callbacks, c)
        /\ instanceData' = [instanceData EXCEPT ![i].logger = @ \ {c}]
        /\ UNCHANGED <<deviceData, instanceDispatch, deviceDispatch, instances, devices, logs>>
    BY <1>0, <1>2 DEF DestroyDebugReportCallback, Inside, Unregistered
  <2>2. /\ i \in Live(instances) /\ c \in Live(callbacks) /\ callbacks[c] = i /\ globalLock = t
        /\ \A u \in Threads \ {t} : call[u].op \in CallbackCalls => call[u].arg # c
        /\ Null \notin Live(callbacks)
    BY <1>0, <2>1 DEF DataInv, DataCurrent, Synchronised, Grounded, Apart, CallbackCalls,
                      LockInv, LockHeld, Owned
  <2>3. /\ \A u \in Threads \ {t} : call'[u] = call[u]
        /\ call'[t].at # "logging" /\ globalLock' \in {globalLock, Null}
    BY <2>1, Others DEF DataInv
  <2>4. /\ Live(callbacks)' = Live(callbacks) \ {c}
        /\ \A b \in Live(callbacks)' : callbacks'[b] = callbacks[b]
    BY <2>1 DEF Without, Live
  <2>5. Synchronised'
    <3>1. ASSUME NEW u \in Threads \ {t} PROVE Grounded(call[u])'
      <4>1. Grounded(call[u])
        BY DEF DataInv, DataCurrent, Synchronised
      <4> QED BY <2>1, <2>2, <2>3, <2>4, <4>1 DEF Grounded, Live, CallbackCalls
    <3> QED BY <2>1, <3>1, SyncReturned DEF DataInv, DataCurrent
  <2>6. Owned'
    BY <2>1, <2>4 DEF DataInv, DataCurrent, Owned, Live
  <2>7. InstanceDataCurrent'
    <3>1. InstanceDataCurrent
      BY DEF DataInv, DataCurrent
    <3>2. Listeners(i)' = Listeners(i) \ {c}
      BY <2>1, <2>2, <2>4 DEF Listeners
    <3>3. \A j : j # i => Listeners(j)' = Listeners(j)
      BY <2>1, <2>2, <2>4 DEF Listeners
    <3>4. instanceData[i] = [of |-> instances[i], logger |-> Listeners(i)] /\ i \in DOMAIN instanceData
      BY <2>2, <3>1 DEF InstanceDataCurrent, Live
    <3>5. /\ DOMAIN instanceData' = DOMAIN instanceData
          /\ instanceData'[i] = [of |-> instances[i], logger |-> Listeners(i)']
          /\ \A j \in DOMAIN instanceData : j # i => instanceData'[j] = instanceData[j]
      <4>1. instanceData[i].logger = Listeners(i)
        BY <3>4
      <4>2. /\ DOMAIN instanceData' = DOMAIN instanceData
            /\ instanceData'[i] = [instanceData[i] EXCEPT !.logger = @ \ {c}]
            /\ \A j \in DOMAIN instanceData : j # i => instanceData'[j] = instanceData[j]
        BY <2>1, <3>4
      <4>3. [instanceData[i] EXCEPT !.logger = @ \ {c}] =
                [of |-> instances[i], logger |-> Listeners(i) \ {c}]
        BY <3>4, <4>1
      <4> QED BY <3>2, <4>2, <4>3
    <3>6. /\ Live(instances)' = Live(instances) /\ instances' = instances
          /\ Live(instanceData)' = Live(instanceData) /\ instanceDispatch' = instanceDispatch
      BY <2>1, <3>5 DEF Live
    <3>7. ASSUME NEW j \in Live(instances)
          PROVE  /\ instanceData'[j] = [of |-> instances[j], logger |-> Listeners(j)']
                 /\ j \in DOMAIN instanceDispatch /\ instanceDispatch[j] = instances[j]
      <4>1. /\ instanceData[j] = [of |-> instances[j], logger |-> Listeners(j)]
            /\ j \in DOMAIN instanceDispatch /\ instanceDispatch[j] = instances[j]
            /\ j \in DOMAIN instanceData
        BY <3>1 DEF InstanceDataCurrent, Live
      <4>2. CASE j = i
        BY <3>5, <4>1, <4>2
      <4>3. CASE j # i
        BY <3>3, <3>5, <4>1, <4>3
      <4> QED BY <4>2, <4>3
    <3> QED BY <3>1, <3>6, <3>7 DEF InstanceDataCurrent
  <2>8. DeviceDataCurrent'
    BY <2>1, <2>3, DeviceDataKept DEF DataInv, DataCurrent
  <2>9. MessagesReachListeners'
    BY <2>1, <2>2, <2>3, MessagesKept DEF DataInv, DataCurrent
  <2> QED BY <2>5, <2>6, <2>7, <2>8, <2>9 DEF DataCurrent
<1> QED BY <1>1, <1>2

-----------------------------------------------------------------------------

\* A step of vkCreateDevice leads to a place where its device is live.
LEMMA SyncAt ==
    ASSUME DataInv, NEW t \in Threads,
           NEW place \in {"inserting", "tabling", "queues", "logging"},
           \A u \in Threads \ {t} : call'[u] = call[u],
           call'[t].op = call[t].op, call'[t].inst = call[t].inst,
           call'[t].dev = call[t].dev, call'[t].arg = call[t].arg,
           call'[t].at = place,
           call[t].op = "CreateDevice", call[t].at \in {"inserting", "tabling", "queues"},
           UNCHANGED <<instances, devices, callbacks>>
    PROVE  Synchronised'
<1>1. Grounded(call[t])'
  BY DEF DataInv, DataCurrent, Synchronised, Grounded
<1>2. \A u \in Threads : Grounded(call[u])'
  BY <1>1, GroundedKept DEF DataInv, DataCurrent, Synchronised
<1>3. Synchronised
  BY DEF DataInv, DataCurrent
<1> QED BY <1>2, <1>3, SyncMoved

LEMMA Moved ==
    ASSUME DataInv, NEW t \in Threads, NEW place, At(t, place)
    PROVE  /\ \A u \in Threads \ {t} : call'[u] = call[u]
           /\ call'[t].op = call[t].op /\ call'[t].inst = call[t].inst
           /\ call'[t].dev = call[t].dev /\ call'[t].arg = call[t].arg
           /\ call'[t].at = place /\ globalLock' = globalLock
  BY DEF At, DataInv, LockInv, CallsTypeOK, Calls

\* vkCreateDevice: the driver has a device the layer has not stored yet.
LEMMA DataCreateDevice ==
    ASSUME DataInv, NEW t \in Threads, CreateDevice(t)
    PROVE  DataCurrent'
<1>0. PICK i, d : i = call[t].inst /\ d = call[t].dev
  OBVIOUS
<1>1. CASE Fails(t) \/ Crash(t)
  BY <1>1, DataEnds DEF CreateDevice, Inside
<1>2. CASE ~(Fails(t) \/ Crash(t))
  <2>1. PICK n, families :
          /\ families \in SUBSET Families
          /\ call[t].op = "CreateDevice" /\ call[t].at = "inside" /\ At(t, "inserting")
          /\ devices' = With(devices, d, [born |-> n, inst |-> i, families |-> families])
          /\ UNCHANGED <<layerData, instances, callbacks, logs>>
    <3>1. PICK families \in (SUBSET Families) \ {{}} :
            /\ devices' = With(devices, call[t].dev,
                   [born |-> born[call[t].dev] + 1, inst |-> call[t].inst, families |-> families])
            /\ At(t, "inserting")
            /\ UNCHANGED <<layerData, instances, callbacks, logs>>
      BY <1>2 DEF CreateDevice
    <3>2. call[t].op = "CreateDevice" /\ call[t].at = "inside"
      BY DEF CreateDevice, Inside
    <3> QED BY <1>0, <3>1, <3>2
  <2>2. /\ i \in Live(instances) /\ d \notin Live(devices) /\ d # Null
        /\ \A u \in Threads \ {t} : call[u].dev # d
        /\ \A u \in Threads \ {t} : call[u].op = "DestroyInstance" => call[u].inst # i
    BY <1>0, <2>1 DEF DataInv, DataCurrent, Synchronised, Shape, Grounded, Apart, DeviceCalls
  <2>3. /\ \A u \in Threads \ {t} : call'[u] = call[u]
        /\ call'[t].op = "CreateDevice" /\ call'[t].inst = i
        /\ call'[t].dev = d /\ call'[t].arg = call[t].arg
        /\ call'[t].at = "inserting" /\ globalLock' = globalLock
    BY <1>0, <2>1, Moved
  <2>4. /\ Live(devices)' = Live(devices) \cup {d}
        /\ devices'[d].inst = i /\ \A e \in Live(devices) : devices'[e] = devices[e]
    BY <2>1, <2>2 DEF With, Live
  <2>5. Synchronised'
    <3>1. ASSUME NEW u \in Threads \ {t} PROVE Grounded(call[u])'
      <4>1. Grounded(call[u])
        BY DEF DataInv, DataCurrent, Synchronised
      <4> QED BY <2>1, <2>2, <2>3, <2>4, <4>1 DEF Grounded, Live
    <3>2. Grounded(call[t])'
      BY <2>1, <2>2, <2>3, <2>4 DEF Grounded, Live
    <3>3. Synchronised
      BY DEF DataInv, DataCurrent
    <3> QED BY <1>0, <2>1, <2>3, <3>1, <3>2, <3>3, SyncMoved
  <2>6. Owned'
    BY <2>1, <2>2, <2>4 DEF DataInv, DataCurrent, Owned, Live
  <2>7. UNCHANGED <<instanceData, deviceData, instanceDispatch, deviceDispatch>>
    BY <2>1 DEF layerData
  <2>8. InstanceDataCurrent'
    BY <2>1, <2>7 DEF DataInv, DataCurrent, InstanceDataCurrent, Listeners, Live
  <2>9. DeviceDataCurrent'
    <3>1. DeviceDataCurrent
      BY DEF DataInv, DataCurrent
    <3>2. \A e, places : places \in SUBSET {"inserting", "tabling", "queues"} /\ Making(e, places) =>
              Making(e, places)'
      BY <2>1, <2>3, MakingKept
    <3>3. Making(d, {"inserting"})'
      BY <2>3 DEF Making
    <3>4. Live(deviceData)' \subseteq Live(devices)' /\ d \notin Live(deviceData)
      BY <2>2, <2>4, <2>7, <3>1 DEF DeviceDataCurrent, Live
    <3>5. \A e \in Live(devices)' : e \in Live(deviceData)' \/ Making(e, {"inserting"})'
      BY <2>4, <2>7, <3>1, <3>2, <3>3 DEF DeviceDataCurrent, Live
    <3>6. ASSUME NEW e \in Live(deviceData)'
          PROVE  /\ \E queues \in SUBSET Families :
                       /\ deviceData'[e] = [of |-> devices'[e].born, inst |-> devices'[e].inst,
                                            queues |-> queues]
                       /\ queues = devices'[e].families \/ Making(e, {"tabling", "queues"})'
                 /\ \/ Making(e, {"tabling"})'
                    \/ e \in DOMAIN deviceDispatch' /\ deviceDispatch'[e] = devices'[e].born
      <4>1. e \in Live(deviceData) /\ e \in Live(devices) /\ devices'[e] = devices[e]
        BY <2>4, <2>7, <3>1 DEF DeviceDataCurrent, Live
      <4> QED BY <2>7, <3>1, <3>2, <4>1 DEF DeviceDataCurrent
    <3> QED BY <3>4, <3>5, <3>6 DEF DeviceDataCurrent
  <2>10. MessagesReachListeners'
    BY <2>1, <2>3, MessagesKept DEF DataInv, DataCurrent
  <2> QED BY <2>5, <2>6, <2>8, <2>9, <2>10 DEF DataCurrent
<1> QED BY <1>1, <1>2

\* Then it stores the Device object, without queues.
LEMMA DataInsertDevice ==
    ASSUME DataInv, NEW t \in Threads, InsertDevice(t), ~Crash(t)
    PROVE  DataCurrent'
<1>0. PICK i, d : i = call[t].inst /\ d = call[t].dev
  OBVIOUS
<1>1. /\ call[t].at = "inserting" /\ At(t, "tabling")
      /\ deviceData' = With(deviceData, d, [of |-> devices[d].born, inst |-> i, queues |-> {}])
      /\ UNCHANGED <<instanceData, instanceDispatch, deviceDispatch,
                     instances, devices, callbacks, logs>>
  BY <1>0 DEF InsertDevice, driver
<1>2. call[t].op = "CreateDevice"
  BY <1>1 DEF DataInv, LockInv, LockHeld
<1>3. /\ d \in Live(devices) /\ devices[d].inst = i /\ d # Null
      /\ \A u \in Threads \ {t} : call[u].dev # d
  BY <1>0, <1>1, <1>2 DEF DataInv, DataCurrent, Synchronised, Shape, Grounded, Apart, DeviceCalls
<1>4. /\ \A u \in Threads \ {t} : call'[u] = call[u]
      /\ call'[t].op = call[t].op /\ call'[t].inst = call[t].inst
      /\ call'[t].dev = call[t].dev /\ call'[t].arg = call[t].arg
      /\ call'[t].at = "tabling" /\ globalLock' = globalLock
  BY <1>1, Moved
<1>5. Synchronised'
  BY <1>1, <1>2, <1>4, SyncAt
<1>6. Owned' /\ InstanceDataCurrent'
  BY <1>1 DEF DataInv, DataCurrent, Owned, InstanceDataCurrent, Listeners, Live
<1>7. DeviceDataCurrent'
  <2>1. DeviceDataCurrent
    BY DEF DataInv, DataCurrent
  <2>2. \A e, places : e # d /\ Making(e, places) => Making(e, places)'
    BY <1>0, <1>4 DEF Making
  <2>3. Making(d, {"tabling"})' /\ Making(d, {"tabling", "queues"})'
    BY <1>0, <1>2, <1>4 DEF Making
  <2>4. /\ Live(deviceData)' = Live(deviceData) \cup {d}
        /\ deviceData'[d] = [of |-> devices[d].born, inst |-> i, queues |-> {}]
        /\ \A e \in Live(deviceData) : e # d => deviceData'[e] = deviceData[e]
    BY <1>1 DEF With, Live
  <2>5. ASSUME NEW e \in Live(deviceData)'
        PROVE  /\ \E queues \in SUBSET Families :
                     /\ deviceData'[e] = [of |-> devices'[e].born, inst |-> devices'[e].inst,
                                          queues |-> queues]
                     /\ queues = devices'[e].families \/ Making(e, {"tabling", "queues"})'
               /\ \/ Making(e, {"tabling"})'
                  \/ e \in DOMAIN deviceDispatch' /\ deviceDispatch'[e] = devices'[e].born
    <3>1. CASE e = d
      <4>1. {} \in SUBSET Families
        OBVIOUS
      <4> QED BY <1>1, <1>3, <2>3, <2>4, <3>1, <4>1
    <3>2. CASE e # d
      BY <1>1, <2>1, <2>2, <2>4, <3>2 DEF DeviceDataCurrent
    <3> QED BY <3>1, <3>2
  <2>6. Live(deviceData)' \subseteq Live(devices)'
    BY <1>1, <1>3, <2>1, <2>4 DEF DeviceDataCurrent, Live
  <2>7. \A e \in Live(devices)' : e \in Live(deviceData)' \/ Making(e, {"inserting"})'
    BY <1>1, <2>1, <2>2, <2>4 DEF DeviceDataCurrent, Live
  <2> QED BY <2>5, <2>6, <2>7 DEF DeviceDataCurrent
<1>8. MessagesReachListeners'
  BY <1>1, <1>4, MessagesKept DEF DataInv, DataCurrent
<1> QED BY <1>5, <1>6, <1>7, <1>8 DEF DataCurrent

\* Then it fills the table, over one of an earlier owner of the key.
LEMMA DataFillTable ==
    ASSUME DataInv, NEW t \in Threads, FillTable(t), ~Crash(t)
    PROVE  DataCurrent'
<1>0. PICK d : d = call[t].dev
  OBVIOUS
<1>1. /\ call[t].at = "tabling" /\ At(t, "queues")
      /\ deviceDispatch' = With(deviceDispatch, d, devices[d].born)
      /\ UNCHANGED <<instanceData, deviceData, instanceDispatch,
                     instances, devices, callbacks, logs>>
  BY <1>0 DEF FillTable, driver, initDeviceTable, Filled
<1>2. call[t].op = "CreateDevice"
  BY <1>1 DEF DataInv, LockInv, LockHeld
<1>3. /\ \A u \in Threads \ {t} : call'[u] = call[u]
      /\ call'[t].op = call[t].op /\ call'[t].inst = call[t].inst
      /\ call'[t].dev = call[t].dev /\ call'[t].arg = call[t].arg
      /\ call'[t].at = "queues" /\ globalLock' = globalLock
  BY <1>1, Moved
<1>4. Synchronised'
  BY <1>1, <1>2, <1>3, SyncAt
<1>5. Owned' /\ InstanceDataCurrent'
  BY <1>1 DEF DataInv, DataCurrent, Owned, InstanceDataCurrent, Listeners, Live
<1>6. DeviceDataCurrent'
  <2>1. DeviceDataCurrent
    BY DEF DataInv, DataCurrent
  <2>2. \A e, places : e # d /\ Making(e, places) => Making(e, places)'
    BY <1>0, <1>3 DEF Making
  <2>3. Making(d, {"tabling", "queues"})'
    BY <1>0, <1>2, <1>3 DEF Making
  <2>4. \A u \in Threads \ {t} : call[u].dev # d
    BY <1>0, <1>2 DEF DataInv, DataCurrent, Synchronised, Apart
  <2>5. Making(d, {"inserting"}) => Making(d, {"inserting"})'
    BY <1>0, <1>1, <2>4 DEF Making
  <2>6. /\ \A e : e \in DOMAIN deviceDispatch => e \in DOMAIN deviceDispatch'
        /\ d \in DOMAIN deviceDispatch' /\ deviceDispatch'[d] = devices[d].born
        /\ \A e \in DOMAIN deviceDispatch : e # d => deviceDispatch'[e] = deviceDispatch[e]
    BY <1>1 DEF With
  <2>7. ASSUME NEW e \in Live(deviceData)'
        PROVE  /\ \E queues \in SUBSET Families :
                     /\ deviceData'[e] = [of |-> devices'[e].born, inst |-> devices'[e].inst,
                                          queues |-> queues]
                     /\ queues = devices'[e].families \/ Making(e, {"tabling", "queues"})'
               /\ \/ Making(e, {"tabling"})'
                  \/ e \in DOMAIN deviceDispatch' /\ deviceDispatch'[e] = devices'[e].born
    <3>1. CASE e = d
      BY <1>1, <2>1, <2>3, <2>6, <3>1 DEF DeviceDataCurrent, Live
    <3>2. CASE e # d
      BY <1>1, <2>1, <2>2, <2>6, <3>2 DEF DeviceDataCurrent, Live
    <3> QED BY <3>1, <3>2
  <2>8. Live(deviceData)' \subseteq Live(devices)'
    BY <1>1, <2>1 DEF DeviceDataCurrent, Live
  <2>9. \A e \in Live(devices)' : e \in Live(deviceData)' \/ Making(e, {"inserting"})'
    BY <1>1, <2>1, <2>2, <2>5 DEF DeviceDataCurrent, Live
  <2> QED BY <2>7, <2>8, <2>9 DEF DeviceDataCurrent
<1>7. MessagesReachListeners'
  BY <1>1, <1>3, MessagesKept DEF DataInv, DataCurrent
<1> QED BY <1>4, <1>5, <1>6, <1>7 DEF DataCurrent

\* At last it fetches the queues, and all is there.
LEMMA DataFetchQueues ==
    ASSUME DataInv, NEW t \in Threads, FetchQueues(t)
    PROVE  DataCurrent'
<1>0. PICK d : d = call[t].dev
  OBVIOUS
<1>1. /\ call[t].at = "queues" /\ (Log(t, call[t].inst) \/ Return(t))
      /\ deviceData' = [deviceData EXCEPT ![d].queues = devices[d].families]
      /\ UNCHANGED <<instanceData, deviceDispatch, instanceDispatch,
                     instances, devices, callbacks, logs>>
  BY <1>0 DEF FetchQueues, driver
<1>2. call[t].op = "CreateDevice"
  BY <1>1 DEF DataInv, LockInv, LockHeld
<1>3. /\ d \in Live(devices) /\ d # Null /\ d \in Devices
      /\ \A u \in Threads \ {t} : call[u].dev # d
  <2>1. call[t] \in Calls
    BY DEF DataInv, LockInv, CallsTypeOK
  <2>2. d \in Devices \cup {Null}
    BY <1>0, <2>1 DEF Calls
  <2> QED BY <1>0, <1>1, <1>2, <2>2
          DEF DataInv, DataCurrent, Synchronised, Shape, Grounded, Apart, DeviceCalls
<1>4. Synchronised' /\ MessagesReachListeners' /\ \A u \in Threads \ {t} : call'[u] = call[u]
  <2>1. CASE Log(t, call[t].inst)
    <3>1. /\ \A u \in Threads \ {t} : call'[u] = call[u]
          /\ call'[t].op = call[t].op /\ call'[t].inst = call[t].inst
          /\ call'[t].dev = call[t].dev /\ call'[t].arg = call[t].arg
          /\ call'[t].at = "logging" /\ MessagesReachListeners'
      BY <1>1, <1>2, <2>1, LogReaches
    <3> QED BY <1>1, <1>2, <3>1, SyncAt
  <2>2. CASE Return(t)
    <3>1. /\ \A u \in Threads \ {t} : call'[u] = call[u]
          /\ call'[t].at # "logging" /\ globalLock' \in {globalLock, Null}
      BY <2>2, Others DEF DataInv
    <3>2. Synchronised'
      BY <1>1, <2>2, <3>1, GroundedKept, SyncReturned DEF DataInv, DataCurrent, Synchronised
    <3>3. MessagesReachListeners'
      BY <1>1, <3>1, MessagesKept DEF DataInv, DataCurrent
    <3> QED BY <3>1, <3>2, <3>3
  <2> QED BY <1>1, <2>1, <2>2
<1>5. Owned' /\ InstanceDataCurrent'
  BY <1>1 DEF DataInv, DataCurrent, Owned, InstanceDataCurrent, Listeners, Live
<1>6. DeviceDataCurrent'
  <2>1. DeviceDataCurrent
    BY DEF DataInv, DataCurrent
  <2>2. \A e, places : e # d /\ Making(e, places) => Making(e, places)'
    BY <1>0, <1>4 DEF Making
  <2>3. ~Making(d, {"inserting"}) /\ ~Making(d, {"tabling"})
    BY <1>0, <1>1, <1>3 DEF Making
  <2>4. d \in Live(deviceData)
    BY <1>3, <2>1, <2>3 DEF DeviceDataCurrent
  <2>5. PICK queues \in SUBSET Families :
            deviceData[d] = [of |-> devices[d].born, inst |-> devices[d].inst, queues |-> queues]
    BY <2>1, <2>4 DEF DeviceDataCurrent
  <2>6. /\ Live(deviceData)' = Live(deviceData)
        /\ deviceData'[d] = [of |-> devices[d].born, inst |-> devices[d].inst,
                             queues |-> devices[d].families]
        /\ \A e \in Live(deviceData) : e # d => deviceData'[e] = deviceData[e]
    BY <1>1, <2>4, <2>5 DEF Live
  <2>7. devices[d].families \in SUBSET Families
    BY <1>3 DEF DataInv, LockInv, CallsTypeOK, ObjectsTypeOK
  <2>8. ASSUME NEW e \in Live(deviceData)'
        PROVE  /\ \E q \in SUBSET Families :
                     /\ deviceData'[e] = [of |-> devices'[e].born, inst |-> devices'[e].inst,
                                          queues |-> q]
                     /\ q = devices'[e].families \/ Making(e, {"tabling", "queues"})'
               /\ \/ Making(e, {"tabling"})'
                  \/ e \in DOMAIN deviceDispatch' /\ deviceDispatch'[e] = devices'[e].born
    <3>1. CASE e = d
      BY <1>1, <2>1, <2>3, <2>4, <2>6, <2>7, <3>1 DEF DeviceDataCurrent
    <3>2. CASE e # d
      BY <1>1, <2>1, <2>2, <2>6, <3>2 DEF DeviceDataCurrent
    <3> QED BY <3>1, <3>2
  <2>9. Live(deviceData)' \subseteq Live(devices)'
    BY <1>1, <2>1, <2>6 DEF DeviceDataCurrent, Live
  <2>10. \A e \in Live(devices)' : e \in Live(deviceData)' \/ Making(e, {"inserting"})'
    BY <1>1, <2>1, <2>2, <2>4, <2>6 DEF DeviceDataCurrent, Live
  <2> QED BY <2>8, <2>9, <2>10 DEF DeviceDataCurrent
<1> QED BY <1>4, <1>5, <1>6 DEF DataCurrent

-----------------------------------------------------------------------------

\* A call on a device that may have something to report.
LEMMA DataUseDevice ==
    ASSUME DataInv, NEW t \in Threads, UseDevice(t)
    PROVE  DataCurrent'
<1>1. CASE Crash(t) \/ Fails(t)
  BY <1>1, DataEnds DEF UseDevice, Inside
<1>2. CASE ~(Crash(t) \/ Fails(t))
  <2>0. /\ call[t].op = "UseDevice" /\ call[t].at = "inside"
        /\ call[t].dev \in DOMAIN deviceData /\ Log(t, deviceData[call[t].dev].inst)
        /\ UNCHANGED <<layerData, driver>> /\ UNCHANGED <<instances, devices, callbacks, logs>>
    BY <1>2 DEF UseDevice, Lookups, Inside, Fails, driver
  <2>1. /\ call[t].op = "UseDevice" /\ call[t].at = "inside"
        /\ deviceData[call[t].dev].inst = call[t].inst
        /\ Log(t, deviceData[call[t].dev].inst)
        /\ UNCHANGED <<layerData, driver>> /\ UNCHANGED <<instances, devices, callbacks, logs>>
    <3>1. call[t].dev # Null
      BY <2>0 DEF DataInv, DataCurrent, Synchronised, Shape, DeviceCalls
    <3>2. devices[call[t].dev].inst = call[t].inst
      BY <2>0, <3>1 DEF DataInv, DataCurrent, Synchronised, Grounded
    <3>3. call[t].dev \in Live(deviceData)
      BY <2>0 DEF Live
    <3>4. PICK queues \in SUBSET Families :
              deviceData[call[t].dev] = [of |-> devices[call[t].dev].born,
                                         inst |-> devices[call[t].dev].inst, queues |-> queues]
      BY <3>3 DEF DataInv, DataCurrent, DeviceDataCurrent
    <3> QED BY <2>0, <3>2, <3>4
  <2>2. /\ \A u \in Threads \ {t} : call'[u] = call[u]
        /\ call'[t].op = call[t].op /\ call'[t].inst = call[t].inst
        /\ call'[t].dev = call[t].dev /\ call'[t].arg = call[t].arg
        /\ call'[t].at = "logging" /\ MessagesReachListeners'
    BY <2>1, LogReaches
  <2>3. Grounded(call[t])'
    BY <2>1, <2>2 DEF DataInv, DataCurrent, Synchronised, Grounded
  <2>4. \A u \in Threads : Grounded(call[u])'
    BY <2>1, <2>2, <2>3, GroundedKept DEF DataInv, DataCurrent, Synchronised
  <2>5. Synchronised'
    BY <2>1, <2>2, <2>4, SyncMoved DEF DataInv, DataCurrent
  <2>6. Owned' /\ InstanceDataCurrent' /\ DeviceDataCurrent'
    BY <2>1, <2>2, DataKept DEF DataInv
  <2> QED BY <2>2, <2>5, <2>6 DEF DataCurrent
<1> QED BY <1>1, <1>2

\* vkDestroyDevice: no other call is on the device, and its object goes with it.
LEMMA DataDestroyDevice ==
    ASSUME DataInv, NEW t \in Threads, DestroyDevice(t)
    PROVE  DataCurrent'
<1>0. PICK d : d = call[t].dev
  OBVIOUS
<1>1. CASE Crash(t)
  BY <1>1, DataEnds DEF DestroyDevice, Inside
<1>2. CASE ~Crash(t)
  <2>1. /\ call[t].op = "DestroyDevice" /\ call[t].at = "inside" /\ Return(t)
        /\ devices' = Without(devices, d) /\ deviceData' = Without(deviceData, d)
        /\ UNCHANGED <<instanceData, instanceDispatch, deviceDispatch, instances, callbacks, logs>>
    BY <1>0, <1>2 DEF DestroyDevice, Inside, Erased
  <2>2. \A u \in Threads \ {t} : call[u].dev # d
    BY <1>0, <2>1 DEF DataInv, DataCurrent, Synchronised, Apart
  <2>3. /\ \A u \in Threads \ {t} : call'[u] = call[u]
        /\ call'[t].at # "logging" /\ globalLock' \in {globalLock, Null}
    BY <2>1, Others DEF DataInv
  <2>4. /\ Live(devices)' = Live(devices) \ {d} /\ Live(deviceData)' = Live(deviceData) \ {d}
        /\ \A e \in Live(devices)' : devices'[e] = devices[e]
        /\ \A e \in Live(deviceData)' : deviceData'[e] = deviceData[e]
    BY <2>1 DEF Without, Live
  <2>5. Synchronised'
    <3>1. ASSUME NEW u \in Threads \ {t} PROVE Grounded(call[u])'
      <4>1. Grounded(call[u]) /\ call[u].dev # d
        BY <2>2 DEF DataInv, DataCurrent, Synchronised
      <4> QED BY <2>1, <2>3, <2>4, <4>1 DEF Grounded, Live
    <3> QED BY <2>1, <3>1, SyncReturned DEF DataInv, DataCurrent
  <2>6. Owned'
    BY <2>1, <2>4 DEF DataInv, DataCurrent, Owned, Live
  <2>7. InstanceDataCurrent'
    BY <2>1 DEF DataInv, DataCurrent, InstanceDataCurrent, Listeners, Live
  <2>8. DeviceDataCurrent'
    <3>1. DeviceDataCurrent
      BY DEF DataInv, DataCurrent
    <3>2. \A e, places : places \in SUBSET {"inserting", "tabling", "queues"} /\ Making(e, places) =>
              Making(e, places)'
      BY <2>1, <2>3, MakingKept
    <3>3. Live(deviceData)' \subseteq Live(devices)'
      BY <2>4, <3>1 DEF DeviceDataCurrent
    <3>4. \A e \in Live(devices)' : e \in Live(deviceData)' \/ Making(e, {"inserting"})'
      BY <2>4, <3>1, <3>2 DEF DeviceDataCurrent
    <3>5. ASSUME NEW e \in Live(deviceData)'
          PROVE  /\ \E queues \in SUBSET Families :
                       /\ deviceData'[e] = [of |-> devices'[e].born, inst |-> devices'[e].inst,
                                            queues |-> queues]
                       /\ queues = devices'[e].families \/ Making(e, {"tabling", "queues"})'
                 /\ \/ Making(e, {"tabling"})'
                    \/ e \in DOMAIN deviceDispatch' /\ deviceDispatch'[e] = devices'[e].born
      <4>1. /\ e \in Live(deviceData) /\ deviceData'[e] = deviceData[e] /\ devices'[e] = devices[e]
        BY <2>4, <3>3
      <4> QED BY <2>1, <3>1, <3>2, <4>1 DEF DeviceDataCurrent
    <3> QED BY <3>3, <3>4, <3>5 DEF DeviceDataCurrent
  <2>9. MessagesReachListeners'
    BY <2>1, <2>3, MessagesKept DEF DataInv, DataCurrent
  <2> QED BY <2>5, <2>6, <2>7, <2>8, <2>9 DEF DataCurrent
<1> QED BY <1>1, <1>2

\* Every step keeps what is stored of the driver's objects.
LEMMA DataInvNext ==
    ASSUME DataInv, [DispatchNext]_dispatchVars
    PROVE  DataInv'
<1>1. LockInv'
  BY InvNext DEF DataInv
<1>2. CASE UNCHANGED dispatchVars
  <2>1. UNCHANGED <<globalLock, call, instanceData, deviceData, instanceDispatch, deviceDispatch,
                    instances, devices, callbacks, logs>>
    BY <1>2 DEF dispatchVars, layerData, driver
  <2>2. Synchronised'
    BY <2>1, GroundedKept DEF DataInv, DataCurrent, Synchronised
  <2>3. Owned' /\ InstanceDataCurrent' /\ MessagesReachListeners'
    BY <2>1 DEF DataInv, DataCurrent, Owned, InstanceDataCurrent, Listeners, Live,
                MessagesReachListeners
  <2>4. DeviceDataCurrent'
    BY <2>1 DEF DataInv, DataCurrent, DeviceDataCurrent, Making, Live
  <2> QED BY <1>1, <2>2, <2>3, <2>4 DEF DataInv, DataCurrent
<1>3. ASSUME NEW t \in Threads, NEW i \in Instances, CallOnInstance(t, i)
      PROVE  DataCurrent'
  BY <1>3, DataCallOnInstance
<1>4. ASSUME NEW t \in Threads, NEW d \in Devices, CallOnDevice(t, d)
      PROVE  DataCurrent'
  BY <1>4, DataCallOnDevice
<1>5. ASSUME NEW t \in Threads, Enter(t)
      PROVE  DataCurrent'
  BY <1>5, DataEnter
<1>6. ASSUME NEW t \in Threads, Step(t)
      PROVE  DataCurrent'
  <2>1. CASE CreateInstance(t) \/ DestroyInstance(t)
    BY <2>1, DataCreateInstance, DataDestroyInstance
  <2>2. CASE UseInstance(t) \/ GetProcAddr(t) \/ GetDeviceQueue(t)
    <3>1. Fails(t) \/ Crash(t)
      BY <2>2 DEF UseInstance, GetProcAddr, GetDeviceQueue
    <3>2. call[t].at = "inside"
      BY <2>2 DEF UseInstance, GetProcAddr, GetDeviceQueue, Inside
    <3> QED BY <3>1, <3>2, DataEnds
  <2>3. CASE CreateDebugReportCallback(t) \/ DestroyDebugReportCallback(t)
    BY <2>3, DataCreateCallback, DataDestroyCallback
  <2>4. CASE CreateDevice(t) \/ InsertDevice(t) \/ FillTable(t) \/ FetchQueues(t)
    <3>1. CASE Crash(t)
      BY <3>1, DataCrash
    <3>2. CASE ~Crash(t)
      BY <2>4, <3>2, DataCreateDevice, DataInsertDevice, DataFillTable, DataFetchQueues
    <3> QED BY <3>1, <3>2
  <2>5. CASE UseDevice(t) \/ DestroyDevice(t)
    BY <2>5, DataUseDevice, DataDestroyDevice
  <2>6. CASE Deliver(t)
    <3>1. Fails(t) /\ call[t].at = "logging"
      BY <2>6 DEF Deliver, Fails
    <3> QED BY <3>1, DataEnds
  <2> QED BY <1>6, <2>1, <2>2, <2>3, <2>4, <2>5, <2>6 DEF Step
<1> QED BY <1>1, <1>2, <1>3, <1>4, <1>5, <1>6 DEF DataInv, DispatchNext

\* What is stored is what the entry points look for: for a call that is on a device,
\* and is not making it, nobody else is.
LEMMA CallsFindTheirData == DataInv => DataOfOwnDevice
<1> SUFFICES ASSUME DataInv PROVE DataOfOwnDevice
  OBVIOUS
<1>1. DeviceDataCurrent /\ InstanceDataCurrent /\ Owned
  BY DEF DataInv, DataCurrent
<1>2. ASSUME NEW t \in Threads, NEW d \in Devices, call[t].dev = d, call[t].op # "CreateDevice"
      PROVE  /\ d \in Live(deviceData)
             /\ deviceData[d].of = devices[d].born
             /\ deviceData[d].queues = devices[d].families
             /\ deviceData[d].inst \in Live(instanceData)
             /\ instanceData[deviceData[d].inst].of = instances[deviceData[d].inst]
  <2>1. d \in Live(devices)
    BY <1>2 DEF DataInv, DataCurrent, Synchronised, Grounded
  <2>2. \A places : ~Making(d, places)
    BY <1>2 DEF DataInv, DataCurrent, Synchronised, Apart, Making
  <2>3. d \in Live(deviceData)
    BY <1>1, <2>1, <2>2 DEF DeviceDataCurrent
  <2>4. PICK queues : /\ deviceData[d] = [of |-> devices[d].born, inst |-> devices[d].inst,
                                          queues |-> queues]
                      /\ queues = devices[d].families
    BY <1>1, <2>2, <2>3 DEF DeviceDataCurrent
  <2>5. /\ deviceData[d].of = devices[d].born /\ deviceData[d].queues = devices[d].families
        /\ deviceData[d].inst = devices[d].inst
    BY <2>4
  <2>6. devices[d].inst \in Live(instances)
    BY <1>1, <2>1 DEF Owned
  <2>7. ASSUME NEW i \in Live(instances)
        PROVE  i \in Live(instanceData) /\ instanceData[i].of = instances[i]
    <3>1. instanceData[i] = [of |-> instances[i], logger |-> Listeners(i)]
      BY <1>1 DEF InstanceDataCurrent
    <3> QED BY <1>1, <3>1 DEF InstanceDataCurrent
  <2> QED BY <2>3, <2>5, <2>6, <2>7
<1>3. ASSUME NEW t \in Threads, NEW d \in Devices, call[t].dev = d, call[t].op # "CreateDevice",
             NEW found \in Lookups(t, "deviceData", deviceData, d), ~found
      PROVE  Unsound(t, "deviceData")
  <2>1. d \in DOMAIN deviceData
    BY <1>2, <1>3 DEF Live
  <2> QED BY <1>3, <2>1 DEF Lookups
<1>4. \A t \in Threads : \A d \in Devices : call[t].dev = d /\ call[t].op # "CreateDevice" =>
          \A found \in Lookups(t, "deviceData", deviceData, d) :
              IF found
              THEN /\ deviceData[d].of = devices[d].born
                   /\ deviceData[d].queues = devices[d].families
                   /\ deviceData[d].inst \in Live(instanceData)
                   /\ instanceData[deviceData[d].inst].of = instances[deviceData[d].inst]
              ELSE Unsound(t, "deviceData")
  BY <1>2, <1>3
<1> QED BY <1>1, <1>4 DEF DataOfOwnDevice, DeviceDataCurrent, InstanceDataCurrent

LEMMA StoredTablesAreCurrent == DataInv => TablesAreCurrent
<1> SUFFICES ASSUME DataInv PROVE TablesAreCurrent
  OBVIOUS
<1>1. ASSUME NEW d \in Live(deviceData)
      PROVE  Unsynchronised(d) \/ deviceDispatch[d] = devices[d].born
  BY DEF DataInv, DataCurrent, DeviceDataCurrent, Making, Unsynchronised, OnDevice
<1>2. ASSUME NEW i \in Live(instanceData)
      PROVE  instanceDispatch[i] = instances[i]
  BY DEF DataInv, DataCurrent, InstanceDataCurrent
<1> QED BY <1>1, <1>2 DEF TablesAreCurrent

\* In every reachable state each entry of the layer's maps is current for its key, or
\* belongs to a call that is making or destroying it.
THEOREM DataInvHolds == DispatchSpec => []DataInv
<1>1. DispatchInit => DataInv
  BY DataInvInitially
<1>2. DataInv /\ [DispatchNext]_dispatchVars => DataInv'
  BY DataInvNext
<1> QED BY <1>1, <1>2, PTL DEF DispatchSpec, DispatchSafety

\* What a call on a device finds is the object made for that very device, with all its
\* queues and its live instance, however keys are reused; and it finds one, unless another
\* thread is changing the map or two threads have changed one map at once.
THEOREM DataIsOfOwnDevice == DispatchSpec => []DataOfOwnDevice
  BY DataInvHolds, CallsFindTheirData, PTL

\* And the function pointers it goes through are of its own device and instance.
THEOREM TablesStayCurrent == DispatchSpec => []TablesAreCurrent
  BY DataInvHolds, StoredTablesAreCurrent, PTL

\* A message under the lock goes to exactly the live callbacks of its own instance
\* that want it, and the log.
THEOREM MessagesReachTheirListeners == DispatchSpec => []MessagesReachListeners
<1>1. DataInv => MessagesReachListeners
  BY DEF DataInv, DataCurrent
<1> QED BY <1>1, DataInvHolds, PTL
=============================================================================
