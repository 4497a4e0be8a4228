-------------------------- MODULE MCEventDispatch --------------------------
(* A rule set for EventDispatch: what a few sensors, outlets and events    *)
(* look like.  Either sensor, or the lamp, switches the fan, on and off;   *)
(* the fan switches the siren on.  A user switches on the lamp, which is   *)
(* also polled as a thermostat is, switches off and locks the siren, so    *)
(* that the rules cannot set it and throw, and unlocks it.                 *)
EXTENDS EventHistory, TLC

CONSTANTS motion, lamp, fan, siren, \* devices
          e1, e2                    \* events

El(d, v) == [dev |-> d, val |-> v, lock |-> None]

MCValues == {"on", "off"}
AllOff == [d \in Devices |-> "off"]

ChainWhen == (e1 :> ((motion :> {"on"}) @@ (lamp :> {"on"}))) @@ (e2 :> (fan :> {"on"}))
ChainProfile == (e1 :> {El(fan, "on")}) @@ (e2 :> {El(siren, "on")})
ChainInverted == (e1 :> {El(fan, "off")}) @@ (e2 :> {El(siren, "off")})

LampCommands == {[dev |-> lamp, val |-> "on", lock |-> None],
                 [dev |-> siren, val |-> "off", lock |-> TRUE],
                 [dev |-> siren, val |-> None, lock |-> FALSE]}

\* How far from the end of the rules each device and each event is.
DeviceHeight == (motion :> 4) @@ (lamp :> 4) @@ (fan :> 2) @@ (siren :> 0)
EventHeight == (e1 :> 3) @@ (e2 :> 1)

\* What is proved of the properties is about these rules; that nobody waits in a circle
\* only if something has reported.
ASSUME RulesAndCommands ==
    /\ Descends(DeviceHeight, EventHeight) /\ AsyncHeard /\ UnmetAtFirst
    /\ OutputsApart /\ InvertedAtFirst
    /\ Heard # {} => CommandedHeard
=============================================================================
