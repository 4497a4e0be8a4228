---------------------------- MODULE RemoteDevices ----------------------------
(***************************************************************************)
(* What the primary node does for the devices of another node, seen from   *)
(* outside: in each of its lives it tries once to set up each device.  The *)
(* device is then served until its node dies, and not set up again.        *)
(***************************************************************************)
CONSTANT Devices

VARIABLE status

Init == status = [d \in Devices |-> "waiting"]

SetUp(d, result) ==
    /\ status[d] = "waiting"
    /\ status' = [status EXCEPT ![d] = result]

NodeDies ==
    status' = [d \in Devices |-> IF status[d] = "served" THEN "lost" ELSE status[d]]

PrimaryRestarts == status' = [d \in Devices |-> "waiting"]

Next ==
    \/ \E d \in Devices : SetUp(d, "served") \/ SetUp(d, "failed")
    \/ NodeDies \/ PrimaryRestarts

Spec == Init /\ [][Next]_status
=============================================================================
