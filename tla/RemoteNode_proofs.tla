-------------------------- MODULE RemoteNode_proofs --------------------------
(***************************************************************************)
(* Proofs about RemoteNode for every number of devices and of restarts:    *)
(* a device is on one way at a time, none is forgotten by a registration,  *)
(* a proxy that reaches the running node reaches a device, and the primary *)
(* implements RemoteDevices.                                               *)
(***************************************************************************)
EXTENDS RemoteNode, TLAPS

\* The node that is being registered or answered has sent a probe.
ProberKnown == discovery # "listen" \/ builder = "discovery" => prober # 0

\* The configurations in the hands of a builder: without one there is none, and while
\* there is one nothing waits for the node.
BuilderOwns ==
    /\ builder = None => configs = {} /\ device = None
    /\ builder # None => uninitialized = {}
    /\ device \in loaded \cup {None} /\ deviceMap \subseteq loaded

\* A device has a proxy only after its stub was looked up, and that was in this or in an
\* earlier life of the node.
ProxyWhenBuilt ==
    \A d \in Devices :
        proxy[d] # 0 =>
            /\ d \in loaded /\ d \notin uninitialized /\ d \notin configs
            /\ d = device => stage = "restore"
            /\ proxy[d] <= nodeLife

\* What is about to go into the map was looked up before, and what is in the map too.
StubKnown ==
    /\ device # None /\ stage = "restore" => proxy[device] # 0
    /\ \A d \in deviceMap : proxy[d] # 0

\* The inductive invariant.
IInv ==
    /\ TypeOK /\ OneWay /\ ProxyReachesDevice /\ NoneForgotten
    /\ ProberKnown /\ BuilderOwns /\ ProxyWhenBuilt /\ StubKnown

-----------------------------------------------------------------------------

\* No device has a proxy: a table of proxies.
LEMMA NothingBuilt == [d \in Devices |-> 0] \in [Devices -> 0 .. MaxNode]
BY RemoteAssumption

\* No datagram is on the way.
LEMMA EmptyNet == {} \subseteq Messages
OBVIOUS

\* The invariant holds in the initial state (the fields of the two nodes).
LEMMA InitIInv == Init => IInv
<1> SUFFICES ASSUME Init PROVE IInv
    OBVIOUS
<1> USE RemoteAssumption DEF Init
<1>1. TypeOK
    <2>1. proxy \in [Devices -> 0 .. MaxNode]
        BY NothingBuilt
    <2>2. 1 \in 1 .. MaxNode /\ 1 \in 1 .. MaxPrimary /\ 0 \in 0 .. MaxNode /\ 0 \in 0 .. MaxPrimary
        OBVIOUS
    <2>3. QED
        BY <2>1, <2>2, EmptyNet DEF TypeOK
<1>2. OneWay /\ NoneForgotten /\ ProxyReachesDevice /\ ProberKnown
    BY DEF OneWay, NoneForgotten, ProxyReachesDevice, ProberKnown
<1>3. BuilderOwns /\ ProxyWhenBuilt /\ StubKnown
    BY DEF BuilderOwns, ProxyWhenBuilt, StubKnown
<1>4. QED
    BY <1>1, <1>2, <1>3 DEF IInv

\* The datagrams on the way stay messages: sending adds one, receiving removes at most one.
LEMMA NetOK ==
    ASSUME net \subseteq Messages, NEW l \in 1 .. MaxNode,
           \/ Sent(Probe(l)) \/ Sent(Ack(l)) \/ Taken(Probe(l)) \/ Taken(Ack(l))
    PROVE  net' \subseteq Messages
BY DEF Sent, Taken, Probe, Ack, Messages

\* The node sends a probe and waits for the answer.
LEMMA SendProbeKeeps ==
    ASSUME IInv, SendProbe
    PROVE  IInv'
<1> USE RemoteAssumption DEF IInv, SendProbe, nodeVars, buildVars, threadVars
<1>1. net' \subseteq Messages
    BY NetOK DEF TypeOK, ProberKnown
<1>2. TypeOK'
    BY <1>1 DEF TypeOK, BuilderOwns
<1>3. OneWay' /\ NoneForgotten'
    BY DEF TypeOK, OneWay, NoneForgotten, BuilderOwns, ProxyWhenBuilt, StubKnown
<1>4. ProxyReachesDevice' /\ ProberKnown'
    BY DEF TypeOK, ProxyReachesDevice, ProxyWhenBuilt, ProberKnown
<1>5. BuilderOwns' /\ ProxyWhenBuilt' /\ StubKnown'
    BY DEF TypeOK, OneWay, NoneForgotten, BuilderOwns, ProxyWhenBuilt, StubKnown
<1>6. QED
    BY <1>2, <1>3, <1>4, <1>5

\* The receive of the node times out.
LEMMA ReceiveTimeoutKeeps ==
    ASSUME IInv, ReceiveTimeout
    PROVE  IInv'
<1> USE RemoteAssumption DEF IInv, ReceiveTimeout, nodeVars, buildVars, threadVars
<1>1. net' \subseteq Messages
    BY DEF TypeOK
<1>2. TypeOK'
    BY <1>1 DEF TypeOK, BuilderOwns
<1>3. OneWay' /\ NoneForgotten'
    BY DEF TypeOK, OneWay, NoneForgotten, BuilderOwns, ProxyWhenBuilt, StubKnown
<1>4. ProxyReachesDevice' /\ ProberKnown'
    BY DEF TypeOK, ProxyReachesDevice, ProxyWhenBuilt, ProberKnown
<1>5. BuilderOwns' /\ ProxyWhenBuilt' /\ StubKnown'
    BY DEF TypeOK, OneWay, NoneForgotten, BuilderOwns, ProxyWhenBuilt, StubKnown
<1>6. QED
    BY <1>2, <1>3, <1>4, <1>5

\* The node has got an answer to a probe of this life.
LEMMA ReceiveAckKeeps ==
    ASSUME IInv, ReceiveAck
    PROVE  IInv'
<1> USE RemoteAssumption DEF IInv, ReceiveAck, nodeVars, buildVars, threadVars
<1>1. net' \subseteq Messages
    BY NetOK DEF TypeOK, ProberKnown
<1>2. TypeOK'
    BY <1>1 DEF TypeOK, BuilderOwns
<1>3. OneWay' /\ NoneForgotten'
    BY DEF TypeOK, OneWay, NoneForgotten, BuilderOwns, ProxyWhenBuilt, StubKnown
<1>4. ProxyReachesDevice' /\ ProberKnown'
    BY DEF TypeOK, ProxyReachesDevice, ProxyWhenBuilt, ProberKnown
<1>5. BuilderOwns' /\ ProxyWhenBuilt' /\ StubKnown'
    BY DEF TypeOK, OneWay, NoneForgotten, BuilderOwns, ProxyWhenBuilt, StubKnown
<1>6. QED
    BY <1>2, <1>3, <1>4, <1>5

\* The node has joined, or it has exited because the primary's name is not bound.
LEMMA LookupKeeps ==
    ASSUME IInv, Lookup
    PROVE  IInv'
<1> USE RemoteAssumption DEF IInv, Lookup, nodeVars, buildVars, threadVars
<1>1. net' \subseteq Messages
    BY DEF TypeOK
<1>2. TypeOK'
    <2>1. stub' \in 0 .. MaxPrimary
        <3>1. stub' \in {stub, primaryLife}
            BY DEF Lookup
        <3>2. stub \in 0 .. MaxPrimary /\ primaryLife \in 0 .. MaxPrimary
            BY DEF TypeOK
        <3>3. QED
            BY <3>1, <3>2
    <2>2. QED
        BY <1>1, <2>1 DEF TypeOK, BuilderOwns
<1>3. OneWay' /\ NoneForgotten'
    BY DEF TypeOK, OneWay, NoneForgotten, BuilderOwns, ProxyWhenBuilt, StubKnown
<1>4. ProxyReachesDevice' /\ ProberKnown'
    BY DEF TypeOK, ProxyReachesDevice, ProxyWhenBuilt, ProberKnown
<1>5. BuilderOwns' /\ ProxyWhenBuilt' /\ StubKnown'
    BY DEF TypeOK, OneWay, NoneForgotten, BuilderOwns, ProxyWhenBuilt, StubKnown
<1>6. QED
    BY <1>2, <1>3, <1>4, <1>5

\* The node's process ends.
LEMMA NodeCrashKeeps ==
    ASSUME IInv, NodeCrash
    PROVE  IInv'
<1> USE RemoteAssumption DEF IInv, NodeCrash, nodeVars, buildVars, threadVars
<1>1. net' \subseteq Messages
    BY DEF TypeOK
<1>2. TypeOK'
    BY <1>1 DEF TypeOK, BuilderOwns
<1>3. OneWay' /\ NoneForgotten'
    BY DEF TypeOK, OneWay, NoneForgotten, BuilderOwns, ProxyWhenBuilt, StubKnown
<1>4. ProxyReachesDevice' /\ ProberKnown'
    BY DEF TypeOK, ProxyReachesDevice, ProxyWhenBuilt, ProberKnown
<1>5. BuilderOwns' /\ ProxyWhenBuilt' /\ StubKnown'
    BY DEF TypeOK, OneWay, NoneForgotten, BuilderOwns, ProxyWhenBuilt, StubKnown
<1>6. QED
    BY <1>2, <1>3, <1>4, <1>5

\* The node starts again: every proxy is of an earlier life.
LEMMA NodeStartKeeps ==
    ASSUME IInv, NodeStart
    PROVE  IInv'
<1> USE RemoteAssumption DEF IInv, NodeStart, nodeVars, buildVars, threadVars
<1>1. net' \subseteq Messages
    BY DEF TypeOK
<1>2. TypeOK'
    BY <1>1 DEF TypeOK, BuilderOwns
<1>3. OneWay' /\ NoneForgotten'
    BY DEF TypeOK, OneWay, NoneForgotten, BuilderOwns, ProxyWhenBuilt, StubKnown
<1>4. ProxyReachesDevice' /\ ProberKnown'
    BY DEF TypeOK, ProxyReachesDevice, ProxyWhenBuilt, ProberKnown
<1>5. BuilderOwns' /\ ProxyWhenBuilt' /\ StubKnown'
    BY DEF TypeOK, OneWay, NoneForgotten, BuilderOwns, ProxyWhenBuilt, StubKnown
<1>6. QED
    BY <1>2, <1>3, <1>4, <1>5

\* The primary binds its name, or fails to.
LEMMA BindRegistryKeeps ==
    ASSUME IInv, BindRegistry
    PROVE  IInv'
<1> USE RemoteAssumption DEF IInv, BindRegistry, nodeVars, buildVars, threadVars
<1>1. net' \subseteq Messages
    BY DEF TypeOK
<1>2. TypeOK'
    BY <1>1 DEF TypeOK, BuilderOwns
<1>3. OneWay' /\ NoneForgotten'
    BY DEF TypeOK, OneWay, NoneForgotten, BuilderOwns, ProxyWhenBuilt, StubKnown
<1>4. ProxyReachesDevice' /\ ProberKnown'
    BY DEF TypeOK, ProxyReachesDevice, ProxyWhenBuilt, ProberKnown
<1>5. BuilderOwns' /\ ProxyWhenBuilt' /\ StubKnown'
    BY DEF TypeOK, OneWay, NoneForgotten, BuilderOwns, ProxyWhenBuilt, StubKnown
<1>6. QED
    BY <1>2, <1>3, <1>4, <1>5

\* Discovery takes a probe.
LEMMA ReceiveProbeKeeps ==
    ASSUME IInv, NEW l \in 1 .. MaxNode, ReceiveProbe(l)
    PROVE  IInv'
<1> USE RemoteAssumption DEF IInv, ReceiveProbe, nodeVars, buildVars, threadVars
<1>1. net' \subseteq Messages
    BY NetOK DEF TypeOK, ProberKnown
<1>2. TypeOK'
    BY <1>1 DEF TypeOK, BuilderOwns
<1>3. OneWay' /\ NoneForgotten'
    BY DEF TypeOK, OneWay, NoneForgotten, BuilderOwns, ProxyWhenBuilt, StubKnown
<1>4. ProxyReachesDevice' /\ ProberKnown'
    BY DEF TypeOK, ProxyReachesDevice, ProxyWhenBuilt, ProberKnown
<1>5. BuilderOwns' /\ ProxyWhenBuilt' /\ StubKnown'
    BY DEF TypeOK, OneWay, NoneForgotten, BuilderOwns, ProxyWhenBuilt, StubKnown
<1>6. QED
    BY <1>2, <1>3, <1>4, <1>5

\* A node seen for the first time gets the devices that wait for it.
LEMMA RegisterNodeKeeps ==
    ASSUME IInv, registerNode
    PROVE  IInv'
<1> USE RemoteAssumption DEF IInv, registerNode, nodeVars, buildVars, threadVars, StartBuilding
<1>1. net' \subseteq Messages
    BY DEF TypeOK
<1>2. TypeOK'
    BY <1>1 DEF TypeOK, BuilderOwns
<1>3. OneWay' /\ NoneForgotten'
    BY DEF TypeOK, OneWay, NoneForgotten, BuilderOwns, ProxyWhenBuilt, StubKnown
<1>4. ProxyReachesDevice' /\ ProberKnown'
    BY DEF TypeOK, ProxyReachesDevice, ProxyWhenBuilt, ProberKnown
<1>5. BuilderOwns' /\ ProxyWhenBuilt' /\ StubKnown'
    BY DEF TypeOK, OneWay, NoneForgotten, BuilderOwns, ProxyWhenBuilt, StubKnown
<1>6. QED
    BY <1>2, <1>3, <1>4, <1>5

\* The node that was registered is answered.
LEMMA ReplyKeeps ==
    ASSUME IInv, replyToNode
    PROVE  IInv'
<1> USE RemoteAssumption DEF IInv, replyToNode, nodeVars, buildVars, threadVars
<1>1. net' \subseteq Messages
    BY NetOK DEF TypeOK, ProberKnown
<1>2. TypeOK'
    BY <1>1 DEF TypeOK, BuilderOwns
<1>3. OneWay' /\ NoneForgotten'
    BY DEF TypeOK, OneWay, NoneForgotten, BuilderOwns, ProxyWhenBuilt, StubKnown
<1>4. ProxyReachesDevice' /\ ProberKnown'
    BY DEF TypeOK, ProxyReachesDevice, ProxyWhenBuilt, ProberKnown
<1>5. BuilderOwns' /\ ProxyWhenBuilt' /\ StubKnown'
    BY DEF TypeOK, OneWay, NoneForgotten, BuilderOwns, ProxyWhenBuilt, StubKnown
<1>6. QED
    BY <1>2, <1>3, <1>4, <1>5

\* A device is configured: it waits, or it is built with those that wait.
LEMMA NewRemoteDeviceKeeps ==
    ASSUME IInv, NEW d \in Devices, createNewRemoteDevice(d)
    PROVE  IInv'
<1> USE RemoteAssumption DEF IInv, createNewRemoteDevice, nodeVars, buildVars, threadVars, StartBuilding
<1>1. net' \subseteq Messages
    BY DEF TypeOK
<1>2. TypeOK'
    BY <1>1 DEF TypeOK, BuilderOwns
<1>3. OneWay' /\ NoneForgotten'
    BY DEF TypeOK, OneWay, NoneForgotten, BuilderOwns, ProxyWhenBuilt, StubKnown
<1>4. ProxyReachesDevice' /\ ProberKnown'
    BY DEF TypeOK, ProxyReachesDevice, ProxyWhenBuilt, ProberKnown
<1>5. BuilderOwns' /\ ProxyWhenBuilt' /\ StubKnown'
    BY DEF TypeOK, OneWay, NoneForgotten, BuilderOwns, ProxyWhenBuilt, StubKnown
<1>6. QED
    BY <1>2, <1>3, <1>4, <1>5

\* The builder takes the next device.
LEMMA NextConfigKeeps ==
    ASSUME IInv, NEW d \in Devices, NextConfig(d)
    PROVE  IInv'
<1> USE RemoteAssumption DEF IInv, NextConfig, nodeVars, buildVars, threadVars
<1>1. net' \subseteq Messages
    BY DEF TypeOK
<1>2. TypeOK'
    BY <1>1 DEF TypeOK, BuilderOwns
<1>3. OneWay' /\ NoneForgotten'
    BY DEF TypeOK, OneWay, NoneForgotten, BuilderOwns, ProxyWhenBuilt, StubKnown
<1>4. ProxyReachesDevice' /\ ProberKnown'
    BY DEF TypeOK, ProxyReachesDevice, ProxyWhenBuilt, ProberKnown
<1>5. BuilderOwns' /\ ProxyWhenBuilt' /\ StubKnown'
    BY DEF TypeOK, OneWay, NoneForgotten, BuilderOwns, ProxyWhenBuilt, StubKnown
<1>6. QED
    BY <1>2, <1>3, <1>4, <1>5

\* The builder leaves the primary's monitor.
LEMMA DoneBuildingKeeps ==
    ASSUME IInv, DoneBuilding
    PROVE  IInv'
<1> USE RemoteAssumption DEF IInv, DoneBuilding, nodeVars, buildVars, threadVars
<1>1. net' \subseteq Messages
    BY DEF TypeOK
<1>2. TypeOK'
    BY <1>1 DEF TypeOK, BuilderOwns
<1>3. OneWay' /\ NoneForgotten'
    BY DEF TypeOK, OneWay, NoneForgotten, BuilderOwns, ProxyWhenBuilt, StubKnown
<1>4. ProxyReachesDevice' /\ ProberKnown'
    BY DEF TypeOK, ProxyReachesDevice, ProxyWhenBuilt, ProberKnown
<1>5. BuilderOwns' /\ ProxyWhenBuilt' /\ StubKnown'
    BY DEF TypeOK, OneWay, NoneForgotten, BuilderOwns, ProxyWhenBuilt, StubKnown
<1>6. QED
    BY <1>2, <1>3, <1>4, <1>5

\* The configuration goes to the node, which creates the device or refuses.
LEMMA PostConfigKeeps ==
    ASSUME IInv, PostConfig
    PROVE  IInv'
<1> USE RemoteAssumption DEF IInv, PostConfig, nodeVars, buildVars, threadVars, CanCreate
<1>1. net' \subseteq Messages
    BY DEF TypeOK
<1>2. TypeOK'
    BY <1>1 DEF TypeOK, BuilderOwns
<1>3. OneWay' /\ NoneForgotten'
    BY DEF TypeOK, OneWay, NoneForgotten, BuilderOwns, ProxyWhenBuilt, StubKnown
<1>4. ProxyReachesDevice' /\ ProberKnown'
    BY DEF TypeOK, ProxyReachesDevice, ProxyWhenBuilt, ProberKnown
<1>5. BuilderOwns' /\ ProxyWhenBuilt' /\ StubKnown'
    BY DEF TypeOK, OneWay, NoneForgotten, BuilderOwns, ProxyWhenBuilt, StubKnown
<1>6. QED
    BY <1>2, <1>3, <1>4, <1>5

\* The stub is looked up, or the node that had it is gone.
LEMMA LookupProxyKeeps ==
    ASSUME IInv, LookupProxy
    PROVE  IInv'
<1> USE RemoteAssumption DEF IInv, LookupProxy, nodeVars, buildVars, threadVars
<1>1. net' \subseteq Messages
    BY DEF TypeOK
<1>2. TypeOK'
    BY <1>1 DEF TypeOK, BuilderOwns
<1>3. OneWay' /\ NoneForgotten'
    BY DEF TypeOK, OneWay, NoneForgotten, BuilderOwns, ProxyWhenBuilt, StubKnown
<1>4. ProxyReachesDevice' /\ ProberKnown'
    BY DEF TypeOK, ProxyReachesDevice, ProxyWhenBuilt, ProberKnown
<1>5. BuilderOwns' /\ ProxyWhenBuilt' /\ StubKnown'
    BY DEF TypeOK, OneWay, NoneForgotten, BuilderOwns, ProxyWhenBuilt, StubKnown
<1>6. QED
    BY <1>2, <1>3, <1>4, <1>5

\* The saved state is restored and the proxy goes into the device map.
LEMMA RestoreProxyKeeps ==
    ASSUME IInv, RestoreProxy
    PROVE  IInv'
<1> USE RemoteAssumption DEF IInv, RestoreProxy, nodeVars, buildVars, threadVars
<1>1. net' \subseteq Messages
    BY DEF TypeOK
<1>2. TypeOK'
    BY <1>1 DEF TypeOK, BuilderOwns
<1>3. OneWay' /\ NoneForgotten'
    BY DEF TypeOK, OneWay, NoneForgotten, BuilderOwns, ProxyWhenBuilt, StubKnown
<1>4. ProxyReachesDevice' /\ ProberKnown'
    BY DEF TypeOK, ProxyReachesDevice, ProxyWhenBuilt, ProberKnown
<1>5. BuilderOwns' /\ ProxyWhenBuilt' /\ StubKnown'
    BY DEF TypeOK, OneWay, NoneForgotten, BuilderOwns, ProxyWhenBuilt, StubKnown
<1>6. QED
    BY <1>2, <1>3, <1>4, <1>5

\* The primary starts again with nothing built.
LEMMA PrimaryRestartKeeps ==
    ASSUME IInv, PrimaryRestart
    PROVE  IInv'
<1> USE RemoteAssumption DEF IInv, PrimaryRestart, nodeVars, buildVars, threadVars
<1>1. net' \subseteq Messages
    BY DEF TypeOK
<1>2. TypeOK'
    <2>1. proxy' \in [Devices -> 0 .. MaxNode]
        BY NothingBuilt
    <2>2. primaryLife' \in 1 .. MaxPrimary /\ prober' \in 0 .. MaxNode
        BY DEF TypeOK
    <2>3. QED
        BY <1>1, <2>1, <2>2 DEF TypeOK
<1>3. OneWay' /\ NoneForgotten'
    BY DEF TypeOK, OneWay, NoneForgotten, BuilderOwns, ProxyWhenBuilt, StubKnown
<1>4. ProxyReachesDevice' /\ ProberKnown'
    BY DEF TypeOK, ProxyReachesDevice, ProxyWhenBuilt, ProberKnown
<1>5. BuilderOwns' /\ ProxyWhenBuilt' /\ StubKnown'
    BY DEF TypeOK, OneWay, NoneForgotten, BuilderOwns, ProxyWhenBuilt, StubKnown
<1>6. QED
    BY <1>2, <1>3, <1>4, <1>5

-----------------------------------------------------------------------------

\* Every step keeps the invariant.
LEMMA NextIInv == IInv /\ [Next]_vars => IInv'
<1> SUFFICES ASSUME IInv, [Next]_vars PROVE IInv'
    OBVIOUS
<1>1. CASE NodeSteps
    BY <1>1, SendProbeKeeps, ReceiveTimeoutKeeps, LookupKeeps DEF NodeSteps
<1>2. CASE Discovery
    BY <1>2, RegisterNodeKeeps, ReplyKeeps DEF Discovery
<1>3. CASE LoadDevices
    BY <1>3, NewRemoteDeviceKeeps DEF LoadDevices
<1>4. CASE Build
    BY <1>4, DoneBuildingKeeps, PostConfigKeeps, LookupProxyKeeps, RestoreProxyKeeps,
       NextConfigKeeps DEF Build
<1>5. CASE Delivery
    BY <1>5, ReceiveAckKeeps, ReceiveProbeKeeps DEF Delivery
<1>6. CASE Faults
    BY <1>6, NodeCrashKeeps, NodeStartKeeps, PrimaryRestartKeeps DEF Faults
<1>7. CASE UNCHANGED vars
    BY <1>7 DEF vars, nodeVars, buildVars, threadVars, IInv, TypeOK, OneWay,
       ProxyReachesDevice, NoneForgotten, ProberKnown, BuilderOwns, ProxyWhenBuilt, StubKnown
<1>8. CASE BindRegistry
    BY <1>8, BindRegistryKeeps
<1>9. QED
    BY <1>1, <1>2, <1>3, <1>4, <1>5, <1>6, <1>7, <1>8 DEF Next

\* The invariant holds in every state of every behaviour.
LEMMA Invariance == Spec => []IInv
<1>1. QED
    BY InitIInv, NextIInv, PTL DEF Spec

\* Every variable stays in its domain, for every number of devices and restarts.
THEOREM TypeCorrect == Spec => []TypeOK
<1>1. IInv => TypeOK
    BY DEF IInv
<1>2. QED
    BY <1>1, Invariance, PTL

\* A proxy that reaches the node as it runs now reaches a device (RemoteDeviceProxy).
THEOREM ProxiesReachDevices == Spec => []ProxyReachesDevice
<1>1. IInv => ProxyReachesDevice
    BY DEF IInv
<1>2. QED
    BY <1>1, Invariance, PTL

\* A device waits for its node, is being built or is in the map, and never two of these
\* (createRemoteDevicesForNode takes the configurations before it builds).
THEOREM DevicesOnOneWay == Spec => []OneWay
<1>1. IInv => OneWay
    BY DEF IInv
<1>2. QED
    BY <1>1, Invariance, PTL

\* No device is left behind by a registration that overtakes the loading of the devices
\* (registerNode, createNewRemoteDevice).
THEOREM NoDeviceForgotten == Spec => []NoneForgotten
<1>1. IInv => NoneForgotten
    BY DEF IInv
<1>2. QED
    BY <1>1, Invariance, PTL


-----------------------------------------------------------------------------
(* The primary implements RemoteDevices: deviceStatus maps its state to    *)
(* the devices.                                                            *)

\* In the beginning every device waits.
LEMMA InitRefines == Init => Abstract!Init
BY RemoteAssumption DEF Init, deviceStatus, Abstract!Init

\* What a step of the node, and one that builds nothing, does to the status.
LEMMA StatusKept ==
    ASSUME IInv, UNCHANGED <<nodeLife, nodeUp, proxy>>,
           \A d \in Devices : proxy[d] = 0 =>
              (d \in loaded \ (uninitialized \cup configs \cup {device})
                   <=> d \in loaded' \ (uninitialized' \cup configs' \cup {device'}))
    PROVE  UNCHANGED deviceStatus
BY DEF deviceStatus

\* A device that leaves the builder without a proxy has failed, and no other is touched.
LEMMA DeviceFails ==
    ASSUME IInv, device # None, stage # "restore",
           device' = None, UNCHANGED <<nodeLife, nodeUp, proxy, loaded, uninitialized, configs>>
    PROVE  \E d \in Devices : Abstract!SetUp(d, "failed")
<1>1. device \in Devices /\ device \in loaded /\ device \notin uninitialized /\ device \notin configs
    BY RemoteAssumption DEF IInv, TypeOK, BuilderOwns, OneWay
<1>2. proxy[device] = 0
    BY <1>1 DEF IInv, ProxyWhenBuilt
<1>3. deviceStatus[device] = "waiting"
    BY <1>1, <1>2 DEF deviceStatus
<1>4. deviceStatus' = [deviceStatus EXCEPT ![device] = "failed"]
    BY <1>1, <1>2, RemoteAssumption DEF deviceStatus
<1>5. QED
    BY <1>1, <1>3, <1>4 DEF Abstract!SetUp

\* A device whose stub is found is served.
LEMMA DeviceServed ==
    ASSUME IInv, LookupProxy, nodeUp, device \in nodeDevices
    PROVE  \E d \in Devices : Abstract!SetUp(d, "served")
<1>1. device \in Devices /\ device # None /\ stage # "restore"
    BY RemoteAssumption DEF IInv, TypeOK, LookupProxy
<1>2. proxy[device] = 0
    BY <1>1 DEF IInv, ProxyWhenBuilt
<1>3. deviceStatus[device] = "waiting"
    BY <1>1, <1>2 DEF deviceStatus
<1>4. /\ proxy' = [proxy EXCEPT ![device] = nodeLife]
      /\ UNCHANGED <<nodeLife, nodeUp, loaded, uninitialized, configs, device>>
    BY DEF LookupProxy, nodeVars, threadVars
<1>5. nodeLife # 0 /\ proxy \in [Devices -> 0 .. MaxNode]
    BY DEF IInv, TypeOK
<1>6. deviceStatus' = [deviceStatus EXCEPT ![device] = "served"]
    BY <1>1, <1>2, <1>4, <1>5 DEF deviceStatus
<1>7. QED
    BY <1>1, <1>3, <1>6 DEF Abstract!SetUp

\* Every step is one of RemoteDevices, or leaves the status as it is.
LEMMA NextRefines == IInv /\ [Next]_vars => [Abstract!Next]_deviceStatus
<1> SUFFICES ASSUME IInv, [Next]_vars PROVE Abstract!Next \/ UNCHANGED deviceStatus
    OBVIOUS
<1> USE DEF nodeVars, buildVars, threadVars
<1>1. CASE SendProbe \/ ReceiveTimeout \/ ReceiveAck \/ BindRegistry
    BY <1>1, StatusKept DEF SendProbe, ReceiveTimeout, ReceiveAck, BindRegistry
<1>2. CASE NodeCrash \/ Lookup
    <2>1. CASE nodeUp'
        BY <1>2, <2>1, StatusKept DEF NodeCrash, Lookup
    <2>2. CASE ~ nodeUp'
        <3>1. deviceStatus' = [d \in Devices |->
                                  IF deviceStatus[d] = "served" THEN "lost" ELSE deviceStatus[d]]
            BY <1>2, <2>2 DEF NodeCrash, Lookup, deviceStatus
        <3>2. QED
            BY <3>1 DEF Abstract!Next, Abstract!NodeDies
    <2>3. QED
        BY <2>1, <2>2
<1>3. CASE NodeStart
    <2>1. \A d \in Devices : proxy[d] # 0 => proxy[d] # nodeLife'
        BY <1>3 DEF NodeStart, IInv, TypeOK, ProxyWhenBuilt
    <2>2. UNCHANGED deviceStatus
        BY <1>3, <2>1 DEF NodeStart, deviceStatus
    <2>3. QED
        BY <2>2
<1>4. CASE (\E l \in 1 .. MaxNode : ReceiveProbe(l)) \/ replyToNode \/ DoneBuilding
    BY <1>4, StatusKept DEF ReceiveProbe, replyToNode, DoneBuilding
<1>5. CASE registerNode
    BY <1>5, StatusKept DEF registerNode, StartBuilding, IInv, BuilderOwns
<1>6. CASE LoadDevices
    BY <1>6, StatusKept, RemoteAssumption DEF LoadDevices, createNewRemoteDevice, StartBuilding,
       IInv, BuilderOwns
<1>7. CASE \E d \in Devices : NextConfig(d)
    BY <1>7, StatusKept, RemoteAssumption DEF NextConfig, IInv
<1>8. CASE PostConfig
    <2>1. CASE CanCreate(device)
        BY <1>8, <2>1, StatusKept DEF PostConfig
    <2>2. CASE ~ CanCreate(device)
        BY <1>8, <2>2, DeviceFails DEF PostConfig, Abstract!Next
    <2>3. QED
        BY <2>1, <2>2
<1>9. CASE LookupProxy
    <2>1. CASE nodeUp /\ device \in nodeDevices
        BY <1>9, <2>1, DeviceServed DEF Abstract!Next
    <2>2. CASE ~ (nodeUp /\ device \in nodeDevices)
        BY <1>9, <2>2, DeviceFails DEF LookupProxy, Abstract!Next
    <2>3. QED
        BY <2>1, <2>2
<1>10. CASE RestoreProxy
    BY <1>10, StatusKept, RemoteAssumption DEF RestoreProxy, IInv, StubKnown
<1>11. CASE PrimaryRestart
    <2>1. deviceStatus' = [d \in Devices |-> "waiting"]
        BY <1>11 DEF PrimaryRestart, deviceStatus
    <2>2. QED
        BY <2>1 DEF Abstract!Next, Abstract!PrimaryRestarts
<1>12. CASE UNCHANGED vars
    BY <1>12 DEF vars, deviceStatus
<1>13. QED
    BY <1>1, <1>2, <1>3, <1>4, <1>5, <1>6, <1>7, <1>8, <1>9, <1>10, <1>11, <1>12
    DEF Next, NodeSteps, Discovery, Build, Delivery, Faults

\* The primary, with a node that may restart at any step and a network that loses and
\* repeats datagrams, implements RemoteDevices: a device is set up at most once in each
\* life of the primary, and does not come back (registerNode, RemoteDeviceProxy).
THEOREM Refinement == Spec => SetUpOnce
<1>1. QED
    BY InitRefines, NextRefines, Invariance, PTL DEF Spec, SetUpOnce, Abstract!Spec
=============================================================================
