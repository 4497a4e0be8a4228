----------------------------- MODULE RemoteNode -----------------------------
(***************************************************************************)
(* The primary node and one remote node: the probes and answers over UDP   *)
(* (NodeDiscovererService), the registration of the node and of its        *)
(* devices (PrimaryNodeControllerImpl, RemoteDeviceProxy), the creation of *)
(* the devices on the node (NodeControllerImpl), and restarts of both.     *)
(***************************************************************************)
EXTENDS Naturals, FiniteSets

CONSTANTS
    Devices,        \* the devices configured for the node
    Fragile,        \* those whose constructors ask the primary's repositories
    Saved,          \* those that have a saved state
    MaxNode,        \* bound: lives of the node
    MaxPrimary,     \* bound: lives of the primary
    Rules,          \* whether the report of a device triggers a profile
    None

ASSUME RemoteAssumption ==
    /\ Fragile \subseteq Devices /\ Saved \subseteq Devices /\ None \notin Devices \cup {"main", "discovery"}
    /\ MaxNode \in Nat \ {0} /\ MaxPrimary \in Nat \ {0}

VARIABLES
    nodeLife, nodeUp,   \* the lives of the node
    nodePc,             \* "probe", "listen", "lookup", "joined", "exited"
    stub,               \* the life of the primary that its stub reaches, or 0
    nodeDevices,        \* the devices it has created and bound
    primaryLife,
    registry,           \* the RMI registry of the primary: "none", "bound", "failed"
    discovery,          \* what the discovery thread does: "listen", "register", "reply"
    prober,             \* the life of the node whose probe it has taken
    nodeMap,            \* whether the node is registered
    loaded,             \* the devices main has loaded the configuration of
    uninitialized,      \* those that wait for the node: uninitializedRemoteDevices
    builder,            \* who is in createRemoteDevicesForNode: "main", "discovery", None
    configs,            \* the configurations it has taken
    device, stage,      \* the one it is at, and how far: "post", "lookup", "restore"
    proxy,              \* the life of the node that the proxy of each device reaches, or 0
    deviceMap,          \* the proxies in the device map
    net                 \* the datagrams on the way

nodeVars == <<nodeLife, nodeUp, nodePc, stub, nodeDevices>>
buildVars == <<builder, configs, device, stage, proxy, deviceMap, uninitialized>>
threadVars == <<primaryLife, registry, discovery, prober, nodeMap, loaded>>
vars == <<nodeVars, buildVars, threadVars, net>>

Probe(l) == [type |-> "BROAD_CAST", life |-> l]
Ack(l) == [type |-> "BROAD_CAST_ACK", life |-> l]
Messages == [type : {"BROAD_CAST", "BROAD_CAST_ACK"}, life : 1 .. MaxNode]

Init ==
    /\ nodeLife = 1 /\ nodeUp = TRUE /\ nodePc = "probe" /\ stub = 0 /\ nodeDevices = {}
    /\ primaryLife = 1 /\ registry = "none" /\ discovery = "listen" /\ prober = 0
    /\ nodeMap = FALSE /\ loaded = {} /\ uninitialized = {}
    /\ builder = None /\ configs = {} /\ device = None /\ stage = "post"
    /\ proxy = [d \in Devices |-> 0] /\ deviceMap = {}
    /\ net = {}

-----------------------------------------------------------------------------
(* The node: broadCastFromNode and the lookup of the primary.              *)

\* A datagram may be lost, and one that arrives may have been duplicated and stay.
Sent(m) == net' \in {net, net \cup {m}}
Taken(m) == net' \in {net, net \ {m}}

SendProbe ==
    /\ nodeUp /\ nodePc = "probe"
    /\ Sent(Probe(nodeLife))
    /\ nodePc' = "listen"
    /\ UNCHANGED <<nodeLife, nodeUp, stub, nodeDevices, buildVars, threadVars>>

\* The receive times out after five seconds, answered or not.
ReceiveTimeout ==
    /\ nodeUp /\ nodePc = "listen"
    /\ nodePc' = "probe"
    /\ UNCHANGED <<nodeLife, nodeUp, stub, nodeDevices, buildVars, threadVars, net>>

\* The answer goes to the socket that sent the probe; it ends with its life.
ReceiveAck ==
    /\ nodeUp /\ nodePc = "listen" /\ Ack(nodeLife) \in net
    /\ Taken(Ack(nodeLife))
    /\ nodePc' = "lookup"
    /\ UNCHANGED <<nodeLife, nodeUp, stub, nodeDevices, buildVars, threadVars>>

\* Mutant: a node that has joined takes its devices for new ones.
LookupForgets ==
    /\ nodeUp /\ nodePc = "lookup"
    /\ IF registry = "bound"
       THEN nodePc' = "joined" /\ stub' = primaryLife /\ nodeDevices' = {} /\ UNCHANGED nodeUp
       ELSE nodePc' = "exited" /\ nodeUp' = FALSE /\ UNCHANGED <<stub, nodeDevices>>
    /\ UNCHANGED <<nodeLife, buildVars, threadVars, net>>

\* The primary may have answered before it has bound its name: then the node exits.
Lookup ==
    /\ nodeUp /\ nodePc = "lookup"
    /\ IF registry = "bound"
       THEN nodePc' = "joined" /\ stub' = primaryLife /\ UNCHANGED nodeUp
       ELSE nodePc' = "exited" /\ nodeUp' = FALSE /\ UNCHANGED stub
    /\ UNCHANGED <<nodeLife, nodeDevices, buildVars, threadVars, net>>

NodeCrash ==
    /\ nodeUp /\ nodeLife < MaxNode
    /\ nodeUp' = FALSE
    /\ UNCHANGED <<nodeLife, nodePc, stub, nodeDevices, buildVars, threadVars, net>>

NodeStart ==
    /\ ~ nodeUp /\ nodeLife < MaxNode
    /\ nodeUp' = TRUE /\ nodeLife' = nodeLife + 1
    /\ nodePc' = "probe" /\ stub' = 0 /\ nodeDevices' = {}
    /\ UNCHANGED <<buildVars, threadVars, net>>

-----------------------------------------------------------------------------
(* The primary: its name, discovery and registration.                      *)

\* Discovery has started before; whatever fails here is logged, and the start goes on.
BindRegistry ==
    /\ registry = "none"
    /\ registry' \in {"bound", "failed"}
    /\ UNCHANGED <<nodeVars, buildVars, primaryLife, discovery, prober, nodeMap, loaded, net>>

ReceiveProbe(l) ==
    /\ discovery = "listen" /\ Probe(l) \in net
    /\ Taken(Probe(l))
    /\ discovery' = "register" /\ prober' = l
    /\ UNCHANGED <<nodeVars, buildVars, primaryLife, registry, nodeMap, loaded>>

\* createRemoteDevicesForNode, entered inside the primary's monitor: the configurations
\* leave uninitializedRemoteDevices before any device is built.
StartBuilding(who, waiting) ==
    /\ builder' = who /\ configs' = waiting
    /\ uninitialized' = {} /\ device' = None
    /\ UNCHANGED <<stage, proxy, deviceMap>>

\* Mutant: a registered node is registered again, with every device.
registerNodeAgain ==
    /\ discovery = "register" /\ builder = None
    /\ nodeMap' = TRUE
    /\ StartBuilding("discovery", loaded)
    /\ UNCHANGED <<nodeVars, primaryLife, registry, discovery, prober, loaded, net>>

\* registerNode: only the first time the node is seen.
registerNode ==
    /\ discovery = "register" /\ builder = None
    /\ nodeMap' = TRUE
    /\ IF nodeMap
       THEN discovery' = "reply" /\ UNCHANGED buildVars
       ELSE UNCHANGED discovery /\ StartBuilding("discovery", uninitialized)
    /\ UNCHANGED <<nodeVars, primaryLife, registry, prober, loaded, net>>

\* Mutant: only a node that was not known yet is answered.
replyOnce ==
    /\ discovery = "reply"
    /\ IF deviceMap = {} THEN Sent(Ack(prober)) ELSE UNCHANGED net
    /\ discovery' = "listen"
    /\ UNCHANGED <<nodeVars, buildVars, primaryLife, registry, prober, nodeMap, loaded>>

replyToNode ==
    /\ discovery = "reply"
    /\ Sent(Ack(prober))
    /\ discovery' = "listen"
    /\ UNCHANGED <<nodeVars, buildVars, primaryLife, registry, prober, nodeMap, loaded>>

\* Mutant: a device is left to the next registration of its node.
createNewRemoteDeviceLater(d) ==
    /\ registry # "none" /\ d \notin loaded /\ builder = None
    /\ loaded' = loaded \cup {d} /\ uninitialized' = uninitialized \cup {d}
    /\ UNCHANGED <<nodeVars, primaryLife, registry, discovery, prober, nodeMap, net,
                   builder, configs, device, stage, proxy, deviceMap>>

\* Main loads the configured devices one by one; discovery has started before.
createNewRemoteDevice(d) ==
    /\ registry # "none" /\ d \notin loaded /\ builder = None
    /\ loaded' = loaded \cup {d}
    /\ IF nodeMap
       THEN StartBuilding("main", uninitialized \cup {d})
       ELSE /\ uninitialized' = uninitialized \cup {d}
            /\ UNCHANGED <<builder, configs, device, stage, proxy, deviceMap>>
    /\ UNCHANGED <<nodeVars, primaryLife, registry, discovery, prober, nodeMap, net>>

NextConfig(d) ==
    /\ builder # None /\ device = None /\ d \in configs
    /\ device' = d /\ stage' = "post" /\ configs' = configs \ {d}
    /\ UNCHANGED <<nodeVars, threadVars, builder, proxy, deviceMap, uninitialized, net>>

\* The monitor is left; discovery goes on to answer the probe.
DoneBuilding ==
    /\ builder # None /\ device = None /\ configs = {}
    /\ builder' = None
    /\ discovery' = IF builder = "discovery" THEN "reply" ELSE discovery
    /\ UNCHANGED <<nodeVars, primaryLife, registry, prober, nodeMap, loaded, configs, device, stage,
                   proxy, deviceMap, uninitialized, net>>

-----------------------------------------------------------------------------
(* One proxy: the configuration over HTTP, the stub over RMI, the state.   *)

\* handle on the node: a device that exists, or whose constructor needs the primary
\* but cannot reach it with the stub that the node has, cannot be created, and the
\* answer is BAD_REQUEST.
CanCreate(d) == nodeUp /\ d \notin nodeDevices /\ (d \in Fragile => stub = primaryLife)

PostConfig ==
    /\ device # None /\ stage = "post"
    /\ IF CanCreate(device)
       THEN nodeDevices' = nodeDevices \cup {device} /\ stage' = "lookup" /\ UNCHANGED device
       ELSE device' = None /\ UNCHANGED <<nodeDevices, stage>>
    /\ UNCHANGED <<nodeLife, nodeUp, nodePc, stub, threadVars, builder, configs, proxy, deviceMap,
                   uninitialized, net>>

\* A node that has restarted in between has not bound the name.
LookupProxy ==
    /\ device # None /\ stage = "lookup"
    /\ IF nodeUp /\ device \in nodeDevices
       THEN stage' = "restore" /\ proxy' = [proxy EXCEPT ![device] = nodeLife] /\ UNCHANGED device
       ELSE device' = None /\ UNCHANGED <<stage, proxy>>
    /\ UNCHANGED <<nodeVars, threadVars, builder, configs, deviceMap, uninitialized, net>>

\* loadSavedState executes the saved state on the node, which reports it to the primary
\* if it can reach it; a profile that this triggers passes isLocked on an RMI thread,
\* while the builder holds the monitor.  Other failures are logged.
Blocked == Rules /\ device \in Saved /\ nodeUp /\ stub = primaryLife /\ device \in nodeDevices

RestoreProxy ==
    /\ device # None /\ stage = "restore" /\ ~ Blocked
    /\ deviceMap' = deviceMap \cup {device}
    /\ device' = None
    /\ UNCHANGED <<nodeVars, threadVars, builder, configs, stage, proxy, uninitialized, net>>

PrimaryRestart ==
    /\ primaryLife < MaxPrimary
    /\ primaryLife' = primaryLife + 1 /\ registry' = "none"
    /\ discovery' = "listen" /\ prober' = 0 /\ nodeMap' = FALSE /\ loaded' = {}
    /\ uninitialized' = {} /\ builder' = None /\ configs' = {} /\ device' = None
    /\ stage' = "post" /\ proxy' = [d \in Devices |-> 0] /\ deviceMap' = {}
    /\ UNCHANGED <<nodeVars, net>>

-----------------------------------------------------------------------------
NodeSteps == SendProbe \/ ReceiveTimeout \/ Lookup
Discovery == registerNode \/ replyToNode
LoadDevices == \E d \in Devices : createNewRemoteDevice(d)
Build == DoneBuilding \/ PostConfig \/ LookupProxy \/ RestoreProxy \/ \E d \in Devices : NextConfig(d)
Delivery == ReceiveAck \/ \E l \in 1 .. MaxNode : ReceiveProbe(l)
Faults == NodeCrash \/ NodeStart \/ PrimaryRestart

Next == NodeSteps \/ BindRegistry \/ Discovery \/ LoadDevices \/ Build \/ Delivery \/ Faults

\* Threads run, and get the primary's monitor, which each of them leaves; of datagrams
\* that are sent again and again some arrive.  Nobody has to start a node that has ended.
Spec ==
    /\ Init /\ [][Next]_vars
    /\ WF_vars(NodeSteps) /\ WF_vars(BindRegistry) /\ WF_vars(Discovery) /\ WF_vars(LoadDevices)
    /\ WF_vars(Build)
    /\ SF_vars(SendProbe /\ Probe(nodeLife) \in net') /\ SF_vars(ReceiveProbe(nodeLife))
    /\ SF_vars(replyToNode /\ prober = nodeLife /\ Ack(nodeLife) \in net') /\ SF_vars(ReceiveAck)

-----------------------------------------------------------------------------
(* Properties.                                                             *)

\* Every variable stays in its domain.
TypeOK ==
    /\ nodeLife \in 1 .. MaxNode /\ nodeUp \in BOOLEAN
    /\ nodePc \in {"probe", "listen", "lookup", "joined", "exited"}
    /\ stub \in 0 .. MaxPrimary /\ nodeDevices \subseteq Devices
    /\ primaryLife \in 1 .. MaxPrimary /\ registry \in {"none", "bound", "failed"}
    /\ discovery \in {"listen", "register", "reply"}
    /\ prober \in 0 .. MaxNode /\ nodeMap \in BOOLEAN
    /\ loaded \subseteq Devices /\ uninitialized \subseteq loaded
    /\ builder \in {"main", "discovery", None} /\ configs \subseteq loaded
    /\ device \in Devices \cup {None} /\ stage \in {"post", "lookup", "restore"}
    /\ proxy \in [Devices -> 0 .. MaxNode] /\ deviceMap \subseteq Devices
    /\ net \subseteq Messages

\* A proxy that reaches the node as it runs now reaches a device: whatever probes are
\* lost, repeated or late, and whichever side has restarted.
ProxyReachesDevice ==
    \A d \in Devices : nodeUp /\ proxy[d] = nodeLife => d \in nodeDevices

\* A device is not on two ways at once: it waits for its node, is being built, or is
\* in the map.
OneWay ==
    /\ uninitialized \cap (configs \cup {device} \cup deviceMap) = {}
    /\ configs \cap ({device} \cup deviceMap) = {}
    /\ device \notin deviceMap

\* The node that is answered was registered before, and nothing of it waits any more:
\* no device is left behind by a registration that overtakes the loading of devices.
NoneForgotten == nodeMap /\ builder = None => uninitialized = {}

\* The status of a device as RemoteDevices has it.
deviceStatus == [d \in Devices |->
    IF proxy[d] # 0
    THEN IF nodeUp /\ proxy[d] = nodeLife THEN "served" ELSE "lost"
    ELSE IF d \in loaded \ (uninitialized \cup configs \cup {device}) THEN "failed"
    ELSE "waiting"]

Abstract == INSTANCE RemoteDevices WITH status <- deviceStatus

\* In one life of the primary every device is set up at most once, and a device that
\* failed or was lost does not come back: neither the registration of a node that has
\* restarted nor a late probe does it a second time.
SetUpOnce == Abstract!Spec

\* A node that runs while the name of the primary is bound joins, whatever datagrams
\* are lost, repeated or late and whatever the two did before, unless one of them dies:
\* it is not left without an answer and does not exit (NodeControllerImpl.java:80-84).
NodeJoins ==
    nodeUp /\ registry = "bound" ~>
        nodePc = "joined" \/ registry # "bound" \/ (~ nodeUp /\ nodePc # "exited")
=============================================================================
