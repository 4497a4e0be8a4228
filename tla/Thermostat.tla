----------------------------- MODULE Thermostat -----------------------------
(***************************************************************************)
(* The thermostat (Thermostat.java) with the parts of AsynchronousDevice,  *)
(* Device and TaskExecutorService it runs on.                              *)
(*                                                                         *)
(* Its three relays are written by whichever thread holds the device's     *)
(* monitor: the poll every five seconds, a user's execute, loadSavedData   *)
(* and close.  The one-shot tasks it leaves on the pool (the delayed       *)
(* turn-off of the fan, the releases of the two locks) run WITHOUT the     *)
(* monitor, so the body of the monitor is modelled relay write by relay    *)
(* write: `at' is the program point of the thread that holds the monitor.  *)
(* Delays are abstracted: a pending task may run at any later time.        *)
(***************************************************************************)
EXTENDS Integers

CONSTANTS
    Sensors,       \* the names listed in <sensor> of the configuration
    ReadingTemps,  \* the temperatures a sensor may report
    RequestTemps,  \* the target temperatures users may ask for
    LoadRequests,  \* the states loadSavedData may be called with
    PoolThreads,   \* threads of Device.taskService
    MaxPending,    \* bound: no request is taken over this many pending unlocks
    NoParam        \* "the state holds no such parameter", "no such sensor"

VARIABLES
    fan, compressor, heat,      \* the relays
    currentMode, targetMode, targetTemp,
    fanLock, modeChangeLock,
    readings,                   \* what the node knows of each sensor
    modeUnlocks,                \* pending tasks of lockThermostat
    fanUnlocks,                 \* pending tasks of the FAN case of update
    fanOffDue,                  \* fanTurnOffDelayTask is scheduled
    fanStopping, fanUnlocking,  \* fan turn-off tasks running, by program point
    poller,                     \* the periodic task of AsynchronousDevice
    closing,                    \* progress of AsynchronousDevice.close
    owner, at, satisfied        \* holder of the monitor, where it is, test of line 76

relays == <<fan, compressor, heat>>
modes  == <<currentMode, targetMode, targetTemp>>
locks  == <<fanLock, modeChangeLock>>
tasks  == <<modeUnlocks, fanUnlocks, fanOffDue, fanStopping, fanUnlocking>>
caller == <<poller, closing, owner, satisfied>>
thread == <<caller, at>>
vars   == <<relays, modes, locks, readings, tasks, thread>>

MIN_TEMP == 60
MAX_TEMP == 80

Modes  == {"OFF", "FAN", "COOL", "HEAT"}
Relay  == {"on", "off"}
Owners == {"none", "poll", "execute", "load", "close"}

\* The program points inside the monitor, in the order of the source.
Points == {"idle", "update", "switch", "holdFan", "fan", "compressor", "heat",
           "turnOff", "dropCompressor", "dropHeat", "lockFan", "delayFanOff",
           "lockThermostat", "delayUnlock", "done"}

\* What execute and loadSavedData may be given: a target temperature, a mode,
\* both or neither.
Requests == [temp : RequestTemps \cup {NoParam}, mode : Modes \cup {NoParam}]

ASSUME ConstantsAssumption ==
    /\ ReadingTemps \subseteq Int
    /\ RequestTemps \subseteq Int
    /\ NoParam \notin Int
    /\ NoParam \notin Modes
    /\ LoadRequests \subseteq Requests
    /\ PoolThreads \in Nat \ {0}
    /\ MaxPending \in Nat

-----------------------------------------------------------------------------
(* The pool.  A task that waits for the monitor keeps its thread.          *)

Busy == fanStopping + fanUnlocking + (IF poller = "sleeping" THEN 0 ELSE 1)

ThreadFree == Busy < PoolThreads

-----------------------------------------------------------------------------
(* targetTempatureReached: one sensor that satisfies the target is enough, *)
(* and so is not finding any sensor at all.                                *)

compareTemperatures(t) ==
    \/ targetMode = "COOL" /\ t <= targetTemp
    \/ targetMode = "HEAT" /\ t >= targetTemp

targetTempatureReached ==
    \/ \A s \in Sensors : readings[s] = NoParam
    \/ \E s \in Sensors : readings[s] # NoParam /\ compareTemperatures(readings[s])

-----------------------------------------------------------------------------
Init ==
    /\ fan = "off" /\ compressor = "off" /\ heat = "off"
    /\ currentMode = "OFF" /\ targetMode = "OFF" /\ targetTemp = 68
    /\ fanLock = FALSE /\ modeChangeLock = FALSE
    /\ readings = [s \in Sensors |-> NoParam]
    /\ modeUnlocks = 0 /\ fanUnlocks = 0 /\ fanOffDue = FALSE
    /\ fanStopping = 0 /\ fanUnlocking = 0
    /\ poller = "sleeping" /\ closing = "open"
    /\ owner = "none" /\ at = "idle" /\ satisfied = FALSE

-----------------------------------------------------------------------------
(* Entering the monitor.                                                   *)

Enter(who, point) ==
    /\ owner = "none"
    /\ owner' = who
    /\ at' = point

\* The periodic task comes due; a cancelled one does not.
PollDue ==
    /\ poller = "sleeping" /\ closing = "open" /\ ThreadFree
    /\ poller' = "waiting"
    /\ UNCHANGED <<relays, modes, locks, readings, tasks, closing, owner, at, satisfied>>

\* AsynchronousDevice.run calls update().  Nothing looks at deviceClosed.
PollEnter ==
    /\ poller = "waiting"
    /\ Enter("poll", "update")
    /\ poller' = "updating"
    /\ UNCHANGED <<relays, modes, locks, readings, tasks, closing, satisfied>>

\* performAction: take over what the request holds and go on to update().
performAction(r, who) ==
    /\ modeUnlocks < MaxPending /\ fanUnlocks < MaxPending
    /\ Enter(who, "update")
    /\ targetTemp' = IF r.temp # NoParam /\ r.temp > MIN_TEMP /\ r.temp < MAX_TEMP
                     THEN r.temp ELSE targetTemp
    /\ targetMode' = IF r.mode # NoParam THEN r.mode ELSE targetMode
    /\ modeChangeLock' = IF r.mode # NoParam THEN FALSE ELSE modeChangeLock
    /\ UNCHANGED <<relays, currentMode, fanLock, readings, tasks, poller, closing, satisfied>>

\* Device.execute refuses a closed device.
Execute(r) == closing # "closed" /\ performAction(r, "execute")

\* Device.loadSavedData does not look at deviceClosed.
LoadSavedData(r) == performAction(r, "load")

\* AsynchronousDevice.close: the periodic task is cancelled first, without
\* the monitor and without interrupting a run that has begun.
CancelPoll ==
    /\ closing = "open"
    /\ closing' = "cancelled"
    /\ UNCHANGED <<relays, modes, locks, readings, tasks, poller, owner, at, satisfied>>

\* Device.close, then tearDown's turnOff.
Close ==
    /\ closing = "cancelled"
    /\ Enter("close", "turnOff")
    /\ closing' = "closed"
    /\ satisfied' = FALSE
    /\ UNCHANGED <<relays, modes, locks, readings, tasks, poller>>

-----------------------------------------------------------------------------
(* The body of update().                                                   *)

Goto(from, to) == at = from /\ at' = to

\* Mutant: the test of the lock is inverted.
UpdateInverted ==
    /\ satisfied' = (targetTempatureReached /\ modeChangeLock /\ targetMode # "FAN")
    /\ Goto("update", IF satisfied' THEN "turnOff"
                      ELSE IF currentMode # targetMode THEN "switch" ELSE "done")
    /\ UNCHANGED <<relays, modes, locks, readings, tasks, poller, closing, owner>>

\* The test of line 76 and the comparison of line 83.
Update ==
    /\ satisfied' = (targetTempatureReached /\ ~modeChangeLock /\ targetMode # "FAN")
    /\ Goto("update", IF satisfied' THEN "turnOff"
                      ELSE IF currentMode # targetMode THEN "switch" ELSE "done")
    /\ UNCHANGED <<relays, modes, locks, readings, tasks, poller, closing, owner>>

SwitchOff ==
    /\ targetMode = "OFF"
    /\ Goto("switch", "turnOff")
    /\ UNCHANGED <<relays, modes, locks, readings, tasks, caller>>

\* To FAN from a running compressor or heater, the fan is held.
SwitchToFan ==
    LET hold == (compressor = "on" \/ heat = "on") /\ ~fanLock IN
    /\ targetMode = "FAN"
    /\ Goto("switch", IF hold THEN "holdFan" ELSE "fan")
    /\ fanLock' = (fanLock \/ hold)
    /\ UNCHANGED <<relays, modes, modeChangeLock, readings, tasks, caller>>

HoldFan ==
    /\ Goto("holdFan", "fan")
    /\ fanUnlocks' = fanUnlocks + 1
    /\ UNCHANGED <<relays, modes, locks, readings, modeUnlocks, fanOffDue, fanStopping, fanUnlocking, caller>>

\* To COOL or HEAT: modeChangeLock is read a second time.
SwitchToRun ==
    /\ targetMode \in {"COOL", "HEAT"}
    /\ Goto("switch", IF modeChangeLock THEN "done" ELSE "fan")
    /\ UNCHANGED <<relays, modes, locks, readings, tasks, caller>>

\* The three writes, in the order all three cases of the switch make them.
SetFan ==
    /\ Goto("fan", "compressor")
    /\ fan' = "on"
    /\ UNCHANGED <<compressor, heat, modes, locks, readings, tasks, caller>>

SetCompressor ==
    /\ Goto("compressor", "heat")
    /\ compressor' = IF targetMode = "COOL" THEN "on" ELSE "off"
    /\ UNCHANGED <<fan, heat, modes, locks, readings, tasks, caller>>

SetHeat ==
    /\ Goto("heat", "done")
    /\ heat' = IF targetMode = "HEAT" THEN "on" ELSE "off"
    /\ currentMode' = targetMode
    /\ UNCHANGED <<fan, compressor, targetMode, targetTemp, locks, readings, tasks, caller>>

-----------------------------------------------------------------------------
(* turnOff and lockThermostat, called with the monitor held.               *)

\* turnOff returns to tearDown, to line 88, or to lockThermostat of line 79.
AfterTurnOff == IF satisfied THEN "lockThermostat" ELSE "done"

TurnOffIdle ==
    /\ currentMode = "OFF"
    /\ Goto("turnOff", AfterTurnOff)
    /\ UNCHANGED <<relays, modes, locks, readings, tasks, caller>>

\* Mutant: turnOff asks the heater only and leaves a running compressor on.
TurnOffFanHeatOnly ==
    /\ currentMode # "OFF" /\ heat = "off"
    /\ Goto("turnOff", AfterTurnOff)
    /\ fan' = IF fanLock THEN fan ELSE "off"
    /\ currentMode' = "OFF"
    /\ UNCHANGED <<compressor, heat, targetMode, targetTemp, locks, readings, tasks, caller>>

TurnOffFan ==
    /\ currentMode # "OFF" /\ compressor = "off" /\ heat = "off"
    /\ Goto("turnOff", AfterTurnOff)
    /\ fan' = IF fanLock THEN fan ELSE "off"
    /\ currentMode' = "OFF"
    /\ UNCHANGED <<compressor, heat, targetMode, targetTemp, locks, readings, tasks,
                   caller>>

\* Mutant: the fan stops before what it cools.
TurnOffRunningFanFirst ==
    /\ currentMode # "OFF" /\ (compressor = "on" \/ heat = "on")
    /\ Goto("turnOff", "dropCompressor")
    /\ fan' = "off"
    /\ UNCHANGED <<compressor, heat, modes, locks, readings, tasks, caller>>

TurnOffRunning ==
    /\ currentMode # "OFF" /\ (compressor = "on" \/ heat = "on")
    /\ Goto("turnOff", "dropCompressor")
    /\ UNCHANGED <<relays, modes, locks, readings, tasks, caller>>

DropCompressor ==
    /\ Goto("dropCompressor", "dropHeat")
    /\ compressor' = "off"
    /\ UNCHANGED <<fan, heat, modes, locks, readings, tasks, caller>>

DropHeat ==
    /\ Goto("dropHeat", "lockFan")
    /\ heat' = "off"
    /\ UNCHANGED <<fan, compressor, modes, locks, readings, tasks, caller>>

LockFan ==
    /\ Goto("lockFan", "delayFanOff")
    /\ fanLock' = TRUE
    /\ UNCHANGED <<relays, modes, modeChangeLock, readings, tasks, caller>>

\* Mutant: the waiting turn-off task is cancelled and none takes its place.
DelayFanOffCancelled ==
    /\ Goto("delayFanOff", AfterTurnOff)
    /\ fanOffDue' = FALSE
    /\ currentMode' = "OFF"
    /\ UNCHANGED <<relays, targetMode, targetTemp, locks, readings, modeUnlocks, fanUnlocks,
                   fanStopping, fanUnlocking, caller>>

\* Mutant: turnOff leaves currentMode as it was after stopping the relays.
DelayFanOffModeKept ==
    /\ Goto("delayFanOff", AfterTurnOff)
    /\ fanOffDue' = TRUE
    /\ UNCHANGED <<relays, modes, locks, readings, modeUnlocks, fanUnlocks,
                   fanStopping, fanUnlocking, caller>>

\* A turn-off task still waiting is cancelled and a new one takes its place;
\* one that runs is not stopped by cancel().
DelayFanOff ==
    /\ Goto("delayFanOff", AfterTurnOff)
    /\ fanOffDue' = TRUE
    /\ currentMode' = "OFF"
    /\ UNCHANGED <<relays, targetMode, targetTemp, locks, readings, modeUnlocks, fanUnlocks,
                   fanStopping, fanUnlocking, caller>>

LockThermostat ==
    /\ Goto("lockThermostat", "delayUnlock")
    /\ modeChangeLock' = TRUE
    /\ UNCHANGED <<relays, modes, fanLock, readings, tasks, caller>>

DelayUnlock ==
    /\ Goto("delayUnlock", "done")
    /\ modeUnlocks' = modeUnlocks + 1
    /\ UNCHANGED <<relays, modes, locks, readings, fanUnlocks, fanOffDue, fanStopping, fanUnlocking, caller>>

\* Leaving the monitor; a poll goes back to sleep (its report is modelled in
\* EventDispatch).
Leave ==
    /\ Goto("done", "idle")
    /\ owner' = "none"
    /\ poller' = IF owner = "poll" THEN "sleeping" ELSE poller
    /\ UNCHANGED <<relays, modes, locks, readings, tasks, closing, satisfied>>

Owner ==
    \/ Update \/ SwitchOff \/ SwitchToFan \/ HoldFan \/ SwitchToRun
    \/ SetFan \/ SetCompressor \/ SetHeat
    \/ TurnOffIdle \/ TurnOffFan \/ TurnOffRunning \/ DropCompressor \/ DropHeat
    \/ LockFan \/ DelayFanOff \/ LockThermostat \/ DelayUnlock \/ Leave

-----------------------------------------------------------------------------
(* The one-shot tasks, on pool threads and without the monitor.            *)

\* The delayed turn-off of the fan tests the relays and the target mode ...
FanOffTest ==
    /\ fanOffDue /\ ThreadFree
    /\ fanOffDue' = FALSE
    /\ IF compressor = "off" /\ heat = "off" /\ targetMode # "FAN"
       THEN fanStopping' = fanStopping + 1 /\ UNCHANGED fanUnlocking
       ELSE fanUnlocking' = fanUnlocking + 1 /\ UNCHANGED fanStopping
    /\ UNCHANGED <<relays, modes, locks, readings, modeUnlocks, fanUnlocks, thread>>

\* ... writes the fan's relay, whatever has happened since the test ...
FanOffAct ==
    /\ fanStopping > 0
    /\ fan' = "off"
    /\ fanStopping' = fanStopping - 1
    /\ fanUnlocking' = fanUnlocking + 1
    /\ UNCHANGED <<compressor, heat, modes, locks, readings, modeUnlocks, fanUnlocks,
                   fanOffDue, thread>>

\* ... and releases the fan's lock.
FanOffUnlock ==
    /\ fanUnlocking > 0
    /\ fanUnlocking' = fanUnlocking - 1
    /\ fanLock' = FALSE
    /\ UNCHANGED <<relays, modes, modeChangeLock, readings, modeUnlocks, fanUnlocks,
                   fanOffDue, fanStopping, thread>>

FanUnlock ==
    /\ fanUnlocks > 0 /\ ThreadFree
    /\ fanUnlocks' = fanUnlocks - 1
    /\ fanLock' = FALSE
    /\ UNCHANGED <<relays, modes, modeChangeLock, readings, modeUnlocks, fanOffDue,
                   fanStopping, fanUnlocking, thread>>

ModeUnlock ==
    /\ modeUnlocks > 0 /\ ThreadFree
    /\ modeUnlocks' = modeUnlocks - 1
    /\ modeChangeLock' = FALSE
    /\ UNCHANGED <<relays, modes, fanLock, readings, fanUnlocks, fanOffDue,
                   fanStopping, fanUnlocking, thread>>

-----------------------------------------------------------------------------
\* A sensor reports another temperature, appears or disappears.
SensorChange(s) ==
    /\ \E t \in ReadingTemps \cup {NoParam} : t # readings[s] /\ readings' = [readings EXCEPT ![s] = t]
    /\ UNCHANGED <<relays, modes, locks, tasks, thread>>

Next ==
    \/ PollDue \/ PollEnter
    \/ \E r \in Requests : Execute(r)
    \/ \E r \in LoadRequests : LoadSavedData(r)
    \/ CancelPoll \/ Close
    \/ Owner
    \/ FanOffTest \/ FanOffAct \/ FanOffUnlock \/ FanUnlock \/ ModeUnlock
    \/ \E s \in Sensors : SensorChange(s)

Spec == Init /\ [][Next]_vars

\* The thread in the monitor runs on, the pool runs what is due when it has a
\* thread for it, and a poll that waits for a free monitor enters it.  Weak
\* fairness is enough: nothing is assumed of the monitor's or the pool's queue.
Fairness ==
    /\ WF_vars(Owner)
    /\ WF_vars(PollDue) /\ WF_vars(PollEnter)
    /\ WF_vars(FanOffTest) /\ WF_vars(FanOffAct) /\ WF_vars(FanOffUnlock)
    /\ WF_vars(FanUnlock) /\ WF_vars(ModeUnlock)

FairSpec == Spec /\ Fairness
-----------------------------------------------------------------------------
(* Properties.                                                             *)

Flags ==
    /\ fanLock \in BOOLEAN /\ modeChangeLock \in BOOLEAN
    /\ fanOffDue \in BOOLEAN /\ satisfied \in BOOLEAN

Domains ==
    /\ fan \in Relay /\ compressor \in Relay /\ heat \in Relay
    /\ currentMode \in Modes /\ targetMode \in Modes /\ targetTemp \in Int
    /\ readings \in [Sensors -> ReadingTemps \cup {NoParam}]
    /\ modeUnlocks \in Nat /\ fanUnlocks \in Nat
    /\ fanStopping \in Nat /\ fanUnlocking \in Nat
    /\ poller \in {"sleeping", "waiting", "updating"}
    /\ closing \in {"open", "cancelled", "closed"}
    /\ owner \in Owners /\ at \in Points

\* Every variable stays in its domain.
TypeOK == Flags /\ Domains

\* Whenever nobody is inside the monitor the compressor and the heater are
\* what currentMode says, on every path through update, turnOff and close.
RelaysMatchMode ==
    at = "idle" => /\ (compressor = "on") = (currentMode = "COOL")
                   /\ (heat = "on") = (currentMode = "HEAT")

\* The compressor and the heater are on together only for the one relay write
\* between lines 107 and 108, when a heating thermostat is switched to COOL.
BothRelaysOnlyMidSwitch ==
    compressor = "on" /\ heat = "on" =>
        at = "heat" /\ targetMode = "COOL" /\ currentMode = "HEAT"

\* No lock leaks: whoever set a lock leaves (or is about to leave) a task on
\* the pool that will release it, although turnOff cancels one of these tasks
\* and stale tasks of earlier cycles release locks they did not set.
LocksHaveTask ==
    /\ modeChangeLock => modeUnlocks > 0 \/ at = "delayUnlock"
    /\ fanLock => \/ fanOffDue \/ fanStopping + fanUnlocking > 0 \/ fanUnlocks > 0
                  \/ at \in {"delayFanOff", "holdFan"}

\* No code that holds the monitor ever takes the fan away from a running
\* compressor or heater: only a turn-off task that made its test before the
\* start can, because its test and its write are not one step.
OnlyStaleTaskStopsFan ==
    [][fan = "on" /\ fan' = "off" /\ (compressor = "on" \/ heat = "on")
       => fanStopping' < fanStopping]_vars

\* The lock stops a start, never a stop: update() skips turnOff while the lock
\* is set, so a lock over a running compressor would keep it running past the
\* target.  Whatever users, polls and stale tasks do, a locked thermostat is off.
LockedMeansOff ==
    modeChangeLock => /\ currentMode = "OFF" /\ compressor = "off" /\ heat = "off"
                      /\ targetMode # "FAN"

\* A target of COOL that the sensors keep calling for is served in the end, in
\* spite of the locks left by earlier cycles.
CoolingStarts ==
    <>[](targetMode = "COOL" /\ ~targetTempatureReached /\ closing = "open")
        => <>[](compressor = "on" /\ heat = "off")

\* With the target reached for good, the relays are off again and again: no
\* lock keeps the thermostat running.  (Off for good would be too much: line 104
\* reads the lock again after line 76 and may start in between two locks.)
SetpointStops ==
    <>[](targetTempatureReached /\ targetMode \in {"COOL", "HEAT"} /\ closing = "open")
        => []<>(compressor = "off" /\ heat = "off")
=============================================================================
