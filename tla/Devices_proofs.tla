--------------------------- MODULE Devices_proofs ---------------------------
(***************************************************************************)
(* Proofs about the devices of the primary node: DeviceLifecycle, for any  *)
(* devices, users and bounds, what a device goes through from its creation *)
(* to a restart; and Thermostat, for any sensors, temperatures and pool,   *)
(* what one of them does in between.  The modules share no variable; each  *)
(* part below is about one of them.                                        *)
(***************************************************************************)
EXTENDS DeviceLifecycle, Thermostat, SequenceTheorems, WellFoundedInduction, TLAPS

-----------------------------------------------------------------------------
(* Thermostat.                                                             *)

\* Type correctness of the thermostat, every thread and task included.
THEOREM TypeCorrect == Spec => []TypeOK
<1>1. Init => Flags /\ Domains
  <2>1. Init => Flags
    BY DEF Init, Flags
  <2>2. Init => Domains
    BY DEF Init, Domains, Relay, Modes, Owners, Points
  <2>3. QED
    BY <2>1, <2>2
<1>2. TypeOK /\ [Next]_vars => Flags'
  <2> SUFFICES ASSUME Flags, [Next]_vars
               PROVE  Flags'
    BY DEF TypeOK
  <2> USE DEF Flags, Goto, Enter, locks, tasks, caller, thread
  <2>1. CASE PollDue \/ PollEnter \/ CancelPoll \/ Close
    <3>1. CASE PollDue \/ PollEnter
      BY <3>1 DEF PollDue, PollEnter
    <3>2. CASE CancelPoll \/ Close
      BY <3>2 DEF CancelPoll, Close
    <3>3. QED
      BY <2>1, <3>1, <3>2
  <2>2. ASSUME NEW r, Execute(r) \/ LoadSavedData(r)
        PROVE  Flags'
    BY <2>2, Zenon DEF Execute, LoadSavedData, performAction
  <2>3. CASE Update
    BY <2>3, Zenon DEF Update
  <2>4. CASE SwitchOff \/ SwitchToFan \/ HoldFan \/ SwitchToRun
    BY <2>4, Zenon DEF SwitchOff, SwitchToFan, HoldFan, SwitchToRun
  <2>5. CASE SetFan \/ SetCompressor \/ SetHeat
    BY <2>5, Zenon DEF SetFan, SetCompressor, SetHeat
  <2>6. CASE TurnOffIdle \/ TurnOffFan \/ TurnOffRunning
    BY <2>6, Zenon DEF TurnOffIdle, TurnOffFan, TurnOffRunning
  <2>7. CASE DropCompressor \/ DropHeat \/ LockFan \/ DelayFanOff
    BY <2>7, Zenon DEF DropCompressor, DropHeat, LockFan, DelayFanOff
  <2>8. CASE LockThermostat \/ DelayUnlock \/ Leave
    BY <2>8, Zenon DEF LockThermostat, DelayUnlock, Leave
  <2>9. CASE FanOffTest \/ FanOffAct \/ FanOffUnlock \/ FanUnlock \/ ModeUnlock
    BY <2>9, Zenon DEF FanOffTest, FanOffAct, FanOffUnlock, FanUnlock, ModeUnlock
  <2>10. ASSUME NEW s \in Sensors, SensorChange(s)
         PROVE  Flags'
    BY <2>10, Zenon DEF SensorChange
  <2>11. CASE UNCHANGED vars
    BY <2>11, Zenon DEF vars
  <2>12. QED
    BY <2>1, <2>2, <2>3, <2>4, <2>5, <2>6, <2>7, <2>8, <2>9, <2>10, <2>11 DEF Next, Owner
<1>3. TypeOK /\ [Next]_vars => Domains'
  <2> SUFFICES ASSUME Domains, [Next]_vars
               PROVE  Domains'
    BY DEF TypeOK
  <2> USE ConstantsAssumption DEF Domains, Relay, Modes, Owners, Points, Goto, Enter,
          relays, modes, locks, tasks, caller, thread
  <2>1. CASE PollDue \/ PollEnter \/ CancelPoll \/ Close
    <3>1. CASE PollDue
      BY <3>1 DEF PollDue
    <3>2. CASE PollEnter
      BY <3>2 DEF PollEnter
    <3>3. CASE CancelPoll
      BY <3>3 DEF CancelPoll
    <3>4. CASE Close
      BY <3>4 DEF Close
    <3>5. QED
      BY <2>1, <3>1, <3>2, <3>3, <3>4
  <2>2. ASSUME NEW r \in Requests, Execute(r) \/ LoadSavedData(r)
        PROVE  Domains'
    <3>1. r.temp \in Int \cup {NoParam} /\ r.mode \in Modes \cup {NoParam}
      BY <2>2 DEF Requests
    <3>2. targetTemp' \in Int /\ targetMode' \in Modes
      BY <2>2, <3>1 DEF Execute, LoadSavedData, performAction
    <3>3. owner' \in Owners /\ at' \in Points /\ closing' = closing /\ poller' = poller
      BY <2>2 DEF Execute, LoadSavedData, performAction
    <3>4. /\ UNCHANGED <<fan, compressor, heat, currentMode, readings>>
          /\ UNCHANGED <<modeUnlocks, fanUnlocks, fanStopping, fanUnlocking>>
      BY <2>2 DEF Execute, LoadSavedData, performAction
    <3>5. QED
      BY <3>2, <3>3, <3>4
  <2>3. CASE Update
    BY <2>3 DEF Update
  <2>4. CASE SwitchOff \/ SwitchToFan \/ HoldFan \/ SwitchToRun
    BY <2>4 DEF SwitchOff, SwitchToFan, HoldFan, SwitchToRun
  <2>5. CASE SetFan \/ SetCompressor \/ SetHeat
    BY <2>5 DEF SetFan, SetCompressor, SetHeat
  <2>6. CASE TurnOffIdle \/ TurnOffFan \/ TurnOffRunning
    BY <2>6 DEF TurnOffIdle, TurnOffFan, TurnOffRunning, AfterTurnOff
  <2>7. CASE DropCompressor \/ DropHeat \/ LockFan \/ DelayFanOff
    BY <2>7 DEF DropCompressor, DropHeat, LockFan, DelayFanOff, AfterTurnOff
  <2>8. CASE LockThermostat \/ DelayUnlock \/ Leave
    BY <2>8 DEF LockThermostat, DelayUnlock, Leave
  <2>9. CASE FanOffTest \/ FanOffAct \/ FanOffUnlock \/ FanUnlock \/ ModeUnlock
    BY <2>9 DEF FanOffTest, FanOffAct, FanOffUnlock, FanUnlock, ModeUnlock
  <2>10. ASSUME NEW s \in Sensors, SensorChange(s)
         PROVE  Domains'
    BY <2>10 DEF SensorChange
  <2>11. CASE UNCHANGED vars
    BY <2>11 DEF vars
  <2>12. QED
    BY <2>1, <2>2, <2>3, <2>4, <2>5, <2>6, <2>7, <2>8, <2>9, <2>10, <2>11 DEF Next, Owner
<1>4. QED
  BY <1>1, <1>2, <1>3, PTL DEF Spec, TypeOK

-----------------------------------------------------------------------------
(* The inductive invariant: what the relays, the modes and the lock are at *)
(* each program point inside the monitor.                                  *)

Match == /\ compressor = "on" <=> currentMode = "COOL"
         /\ heat = "on" <=> currentMode = "HEAT"

MonitorInv == owner = "none" <=> at = "idle"

RelayInv ==
    /\ at \notin {"heat", "dropHeat", "lockFan", "delayFanOff"} => Match
    /\ at = "heat" => /\ compressor = "on" <=> targetMode = "COOL"
                      /\ heat = "on" <=> currentMode = "HEAT"
    /\ at = "dropHeat" => compressor = "off"
    /\ at \in {"lockFan", "delayFanOff"} => compressor = "off" /\ heat = "off"

LockInv ==
    /\ modeChangeLock => currentMode = "OFF" /\ targetMode # "FAN"
    /\ at \in {"holdFan", "fan", "compressor", "heat"} => ~modeChangeLock
    /\ at \in {"dropCompressor", "dropHeat", "lockFan", "delayFanOff"} => currentMode # "OFF"
    /\ at \in {"lockThermostat", "delayUnlock"} => satisfied /\ currentMode = "OFF"
    /\ at \in {"turnOff", "dropCompressor", "dropHeat", "lockFan", "delayFanOff",
               "lockThermostat", "delayUnlock"} /\ satisfied => targetMode # "FAN"

IInv == TypeOK /\ MonitorInv /\ RelayInv /\ LockInv /\ LocksHaveTask

\* The monitor is held exactly while its holder is at a program point in it.
LEMMA MonitorStep == TypeOK /\ MonitorInv /\ [Next]_vars => MonitorInv'
<1> SUFFICES ASSUME TypeOK, MonitorInv, [Next]_vars
             PROVE  MonitorInv'
  OBVIOUS
<1> USE DEF MonitorInv, Goto, Enter, caller, thread
<1>1. CASE PollDue \/ PollEnter \/ CancelPoll \/ Close
  BY <1>1 DEF PollDue, PollEnter, CancelPoll, Close
<1>2. ASSUME NEW r, Execute(r) \/ LoadSavedData(r)
       PROVE  MonitorInv'
  BY <1>2 DEF Execute, LoadSavedData, performAction
<1>3. CASE Update
  BY <1>3 DEF Update
<1>4. CASE SwitchOff \/ SwitchToFan \/ HoldFan \/ SwitchToRun
  BY <1>4 DEF SwitchOff, SwitchToFan, HoldFan, SwitchToRun
<1>5. CASE SetFan \/ SetCompressor \/ SetHeat
  BY <1>5 DEF SetFan, SetCompressor, SetHeat
<1>6. CASE TurnOffIdle \/ TurnOffFan \/ TurnOffRunning
  BY <1>6 DEF TurnOffIdle, TurnOffFan, TurnOffRunning, AfterTurnOff
<1>7. CASE DropCompressor \/ DropHeat \/ LockFan \/ DelayFanOff
  BY <1>7 DEF DropCompressor, DropHeat, LockFan, DelayFanOff, AfterTurnOff
<1>8. CASE LockThermostat \/ DelayUnlock \/ Leave
  BY <1>8 DEF LockThermostat, DelayUnlock, Leave
<1>9. CASE FanOffTest \/ FanOffAct \/ FanOffUnlock \/ FanUnlock \/ ModeUnlock
  BY <1>9 DEF FanOffTest, FanOffAct, FanOffUnlock, FanUnlock, ModeUnlock
<1>10. ASSUME NEW s \in Sensors, SensorChange(s)
       PROVE  MonitorInv'
  BY <1>10 DEF SensorChange
<1>11. CASE UNCHANGED vars
  BY <1>11 DEF vars
<1>12. QED
  BY <1>1, <1>2, <1>3, <1>4, <1>5, <1>6, <1>7, <1>8, <1>9, <1>10, <1>11 DEF Next, Owner

\* The relays at each program point, along every path through the monitor.
LEMMA RelayStep == TypeOK /\ MonitorInv /\ RelayInv /\ [Next]_vars => RelayInv'
<1> SUFFICES ASSUME Domains, MonitorInv, RelayInv, [Next]_vars
             PROVE  RelayInv'
  BY DEF TypeOK
<1> USE DEF Domains, Relay, Modes, MonitorInv, RelayInv, Match, Goto, Enter, relays, modes,
        caller, thread
<1>1. CASE PollDue \/ PollEnter \/ CancelPoll \/ Close
  BY <1>1 DEF PollDue, PollEnter, CancelPoll, Close
<1>2. ASSUME NEW r, Execute(r) \/ LoadSavedData(r)
      PROVE  RelayInv'
  BY <1>2 DEF Execute, LoadSavedData, performAction
<1>3. CASE Update
  BY <1>3 DEF Update
<1>4. CASE SwitchOff
  BY <1>4 DEF SwitchOff
<1>5. CASE SwitchToFan
  BY <1>5 DEF SwitchToFan
<1>6. CASE HoldFan
  BY <1>6 DEF HoldFan
<1>7. CASE SwitchToRun
  BY <1>7 DEF SwitchToRun
<1>8. CASE SetFan
  BY <1>8 DEF SetFan
<1>9. CASE SetCompressor
  BY <1>9 DEF SetCompressor
<1>10. CASE SetHeat
  BY <1>10 DEF SetHeat
<1>11. CASE TurnOffIdle
  BY <1>11 DEF TurnOffIdle, AfterTurnOff
<1>12. CASE TurnOffFan
  BY <1>12 DEF TurnOffFan, AfterTurnOff
<1>13. CASE TurnOffRunning
  BY <1>13 DEF TurnOffRunning
<1>14. CASE DropCompressor
  BY <1>14 DEF DropCompressor
<1>15. CASE DropHeat
  BY <1>15 DEF DropHeat
<1>16. CASE LockFan
  BY <1>16 DEF LockFan
<1>17. CASE DelayFanOff
  BY <1>17 DEF DelayFanOff, AfterTurnOff
<1>18. CASE LockThermostat
  BY <1>18 DEF LockThermostat
<1>19. CASE DelayUnlock
  BY <1>19 DEF DelayUnlock
<1>20. CASE Leave
  BY <1>20 DEF Leave
<1>21. CASE FanOffTest \/ FanOffAct \/ FanOffUnlock \/ FanUnlock \/ ModeUnlock
  BY <1>21 DEF FanOffTest, FanOffAct, FanOffUnlock, FanUnlock, ModeUnlock
<1>22. ASSUME NEW s \in Sensors, SensorChange(s)
      PROVE  RelayInv'
  BY <1>22 DEF SensorChange
<1>23. CASE UNCHANGED vars
  BY <1>23 DEF vars
<1>24. QED
  BY <1>1, <1>2, <1>3, <1>4, <1>5, <1>6, <1>7, <1>8, <1>9, <1>10, <1>11, <1>12,
     <1>13, <1>14, <1>15, <1>16, <1>17, <1>18, <1>19, <1>20, <1>21, <1>22, <1>23 DEF Next, Owner

\* The anti-short-cycling lock at each program point.
LEMMA LockStep == TypeOK /\ MonitorInv /\ LockInv /\ [Next]_vars => LockInv'
<1> SUFFICES ASSUME Flags, Domains, MonitorInv, LockInv, [Next]_vars
             PROVE  LockInv'
  BY DEF TypeOK
<1> USE DEF Flags, Domains, Modes, MonitorInv, LockInv, Goto, Enter, modes, locks, caller, thread
<1>1. CASE PollDue \/ PollEnter \/ CancelPoll \/ Close
  BY <1>1 DEF PollDue, PollEnter, CancelPoll, Close
<1>2. ASSUME NEW r, Execute(r) \/ LoadSavedData(r)
      PROVE  LockInv'
  BY <1>2 DEF Execute, LoadSavedData, performAction
<1>3. CASE Update
  BY <1>3 DEF Update
<1>4. CASE SwitchOff
  BY <1>4 DEF SwitchOff
<1>5. CASE SwitchToFan
  BY <1>5 DEF SwitchToFan
<1>6. CASE HoldFan
  BY <1>6 DEF HoldFan
<1>7. CASE SwitchToRun
  BY <1>7 DEF SwitchToRun
<1>8. CASE SetFan
  BY <1>8 DEF SetFan
<1>9. CASE SetCompressor
  BY <1>9 DEF SetCompressor
<1>10. CASE SetHeat
  BY <1>10 DEF SetHeat
<1>11. CASE TurnOffIdle
  BY <1>11 DEF TurnOffIdle, AfterTurnOff
<1>12. CASE TurnOffFan
  BY <1>12 DEF TurnOffFan, AfterTurnOff
<1>13. CASE TurnOffRunning
  BY <1>13 DEF TurnOffRunning
<1>14. CASE DropCompressor
  BY <1>14 DEF DropCompressor
<1>15. CASE DropHeat
  BY <1>15 DEF DropHeat
<1>16. CASE LockFan
  BY <1>16 DEF LockFan
<1>17. CASE DelayFanOff
  BY <1>17 DEF DelayFanOff, AfterTurnOff
<1>18. CASE LockThermostat
  BY <1>18 DEF LockThermostat
<1>19. CASE DelayUnlock
  BY <1>19 DEF DelayUnlock
<1>20. CASE Leave
  BY <1>20 DEF Leave
<1>21. CASE FanOffTest \/ FanOffAct \/ FanOffUnlock \/ FanUnlock \/ ModeUnlock
  BY <1>21 DEF FanOffTest, FanOffAct, FanOffUnlock, FanUnlock, ModeUnlock
<1>22. ASSUME NEW s \in Sensors, SensorChange(s)
      PROVE  LockInv'
  BY <1>22 DEF SensorChange
<1>23. CASE UNCHANGED vars
  BY <1>23 DEF vars
<1>24. QED
  BY <1>1, <1>2, <1>3, <1>4, <1>5, <1>6, <1>7, <1>8, <1>9, <1>10, <1>11, <1>12,
     <1>13, <1>14, <1>15, <1>16, <1>17, <1>18, <1>19, <1>20, <1>21, <1>22, <1>23 DEF Next, Owner

\* Every lock that is set has its release on the way.
LEMMA TaskStep == TypeOK /\ MonitorInv /\ LocksHaveTask /\ [Next]_vars => LocksHaveTask'
<1> SUFFICES ASSUME Flags, Domains, MonitorInv, LocksHaveTask, [Next]_vars
             PROVE  LocksHaveTask'
  BY DEF TypeOK
<1> USE DEF Flags, Domains, MonitorInv, LocksHaveTask, Goto, Enter, locks, tasks, caller, thread
<1>1. CASE PollDue \/ PollEnter \/ CancelPoll \/ Close
  BY <1>1 DEF PollDue, PollEnter, CancelPoll, Close
<1>2. ASSUME NEW r, Execute(r) \/ LoadSavedData(r)
      PROVE  LocksHaveTask'
  <2>1. at = "idle" /\ UNCHANGED <<fanLock, tasks>>
    BY <1>2 DEF Execute, LoadSavedData, performAction
  <2>2. modeChangeLock' => modeChangeLock
    BY <1>2, Zenon DEF Execute, LoadSavedData, performAction
  <2>3. QED
    BY <2>1, <2>2
<1>3. CASE Update
  BY <1>3 DEF Update
<1>4. CASE SwitchOff
  BY <1>4 DEF SwitchOff
<1>5. CASE SwitchToFan
  BY <1>5 DEF SwitchToFan
<1>6. CASE HoldFan
  BY <1>6 DEF HoldFan
<1>7. CASE SwitchToRun
  BY <1>7 DEF SwitchToRun
<1>8. CASE SetFan
  BY <1>8 DEF SetFan
<1>9. CASE SetCompressor
  BY <1>9 DEF SetCompressor
<1>10. CASE SetHeat
  BY <1>10 DEF SetHeat
<1>11. CASE TurnOffIdle
  BY <1>11 DEF TurnOffIdle, AfterTurnOff
<1>12. CASE TurnOffFan
  BY <1>12 DEF TurnOffFan, AfterTurnOff
<1>13. CASE TurnOffRunning
  BY <1>13 DEF TurnOffRunning
<1>14. CASE DropCompressor
  BY <1>14 DEF DropCompressor
<1>15. CASE DropHeat
  BY <1>15 DEF DropHeat
<1>16. CASE LockFan
  BY <1>16 DEF LockFan
<1>17. CASE DelayFanOff
  BY <1>17 DEF DelayFanOff, AfterTurnOff
<1>18. CASE LockThermostat
  BY <1>18 DEF LockThermostat
<1>19. CASE DelayUnlock
  BY <1>19 DEF DelayUnlock
<1>20. CASE Leave
  BY <1>20 DEF Leave
<1>21. CASE FanOffTest
  BY <1>21 DEF FanOffTest
<1>22. CASE FanOffAct
  BY <1>22 DEF FanOffAct
<1>23. CASE FanOffUnlock
  BY <1>23 DEF FanOffUnlock
<1>24. CASE FanUnlock
  BY <1>24 DEF FanUnlock
<1>25. CASE ModeUnlock
  BY <1>25 DEF ModeUnlock
<1>26. ASSUME NEW s \in Sensors, SensorChange(s)
      PROVE  LocksHaveTask'
  BY <1>26 DEF SensorChange
<1>27. CASE UNCHANGED vars
  BY <1>27 DEF vars
<1>28. QED
  BY <1>1, <1>2, <1>3, <1>4, <1>5, <1>6, <1>7, <1>8, <1>9, <1>10, <1>11, <1>12,
     <1>13, <1>14, <1>15, <1>16, <1>17, <1>18, <1>19, <1>20, <1>21, <1>22, <1>23,
     <1>24, <1>25, <1>26, <1>27 DEF Next, Owner

-----------------------------------------------------------------------------
\* The inductive invariant holds of every behaviour.
THEOREM Invariance == Spec => []IInv
<1>1. Init => MonitorInv /\ RelayInv
  BY DEF Init, MonitorInv, RelayInv, Match
<1>2. Init => LockInv /\ LocksHaveTask
  BY DEF Init, LockInv, LocksHaveTask
<1>3. TypeOK /\ MonitorInv /\ RelayInv /\ LockInv /\ LocksHaveTask /\ [Next]_vars
        => MonitorInv' /\ RelayInv' /\ LockInv' /\ LocksHaveTask'
  BY MonitorStep, RelayStep, LockStep, TaskStep
<1>4. QED
  BY <1>1, <1>2, <1>3, TypeCorrect, PTL DEF Spec, IInv

\* Thermostat.update, turnOff and tearDown leave the compressor and the heater
\* as currentMode says, for any interleaving with the tasks on the pool.
THEOREM RelaysFollowMode == Spec => []RelaysMatchMode
<1>1. IInv => RelaysMatchMode
  BY DEF IInv, RelayInv, Match, RelaysMatchMode
<1>2. QED
  BY <1>1, Invariance, PTL

\* The compressor and the heater overlap only for the one relay write at which
\* a heating thermostat is switched to COOL.
THEOREM RelaysOverlapOnlyMidSwitch == Spec => []BothRelaysOnlyMidSwitch
<1>1. IInv => BothRelaysOnlyMidSwitch
  BY DEF IInv, RelayInv, Match, BothRelaysOnlyMidSwitch
<1>2. QED
  BY <1>1, Invariance, PTL

\* lockThermostat and turnOff never leave a lock set without a task that will
\* release it.
THEOREM NoLockLeaks == Spec => []LocksHaveTask
  BY Invariance, PTL DEF IInv

\* A thermostat whose anti-short-cycling lock is set is off, so the turnOff that
\* update() skips under the lock is never missed.
THEOREM NeverLockedRunning == Spec => []LockedMeansOff
<1>1. IInv => (modeChangeLock => currentMode = "OFF" /\ targetMode # "FAN")
  BY DEF IInv, LockInv
<1>2. IInv /\ modeChangeLock => at \notin {"heat", "dropHeat", "lockFan", "delayFanOff"}
  BY DEF IInv, LockInv
<1>3. IInv /\ modeChangeLock => compressor = "off" /\ heat = "off"
  BY <1>1, <1>2 DEF IInv, TypeOK, Domains, Relay, RelayInv, Match
<1>4. IInv => LockedMeansOff
  BY <1>1, <1>3 DEF LockedMeansOff
<1>5. QED
  BY <1>4, Invariance, PTL

\* No thread in the monitor takes the fan away from a running compressor or
\* heater; only a turn-off task that tested the relays earlier can.
THEOREM FanStaysOnUnderLoad == Spec => OnlyStaleTaskStopsFan
<1> DEFINE Late == fan = "on" /\ fan' = "off" /\ (compressor = "on" \/ heat = "on")
                     => fanStopping' < fanStopping
<1>1. TypeOK /\ [Next]_vars => Late
  <2> SUFFICES ASSUME TypeOK, Next, fan = "on", fan' = "off", compressor = "on" \/ heat = "on"
               PROVE  fanStopping' < fanStopping
    BY DEF vars, relays
  <2> USE DEF TypeOK, Domains, Relay, relays
  <2>1. ~ (PollDue \/ PollEnter \/ CancelPoll \/ Close)
    BY DEF PollDue, PollEnter, CancelPoll, Close
  <2>2. ~ \E r : Execute(r) \/ LoadSavedData(r)
    BY DEF Execute, LoadSavedData, performAction
  <2>3. ~ Owner
    <3>1. ~ (Update \/ SwitchOff \/ SwitchToFan \/ HoldFan \/ SwitchToRun)
      BY DEF Update, SwitchOff, SwitchToFan, HoldFan, SwitchToRun
    <3>2. ~ (SetFan \/ SetCompressor \/ SetHeat)
      BY DEF SetFan, SetCompressor, SetHeat
    <3>3. ~ (TurnOffIdle \/ TurnOffFan \/ TurnOffRunning)
      BY DEF TurnOffIdle, TurnOffFan, TurnOffRunning
    <3>4. ~ (DropCompressor \/ DropHeat \/ LockFan \/ DelayFanOff)
      BY DEF DropCompressor, DropHeat, LockFan, DelayFanOff
    <3>5. ~ (LockThermostat \/ DelayUnlock \/ Leave)
      BY DEF LockThermostat, DelayUnlock, Leave
    <3>6. QED
      BY <3>1, <3>2, <3>3, <3>4, <3>5 DEF Owner
  <2>4. ~ (FanOffTest \/ FanOffUnlock \/ FanUnlock \/ ModeUnlock)
    BY DEF FanOffTest, FanOffUnlock, FanUnlock, ModeUnlock
  <2>5. ~ \E s \in Sensors : SensorChange(s)
    BY DEF SensorChange
  <2>6. FanOffAct
    BY <2>1, <2>2, <2>3, <2>4, <2>5 DEF Next
  <2>7. QED
    BY <2>6 DEF FanOffAct
<1>2. TypeOK /\ [Next]_vars => [Late]_vars
  BY <1>1
<1>3. QED
  BY <1>2, TypeCorrect, PTL DEF Spec, OnlyStaleTaskStopsFan

-----------------------------------------------------------------------------
(* What is left to do of a thread is a suffix of an operation's steps.     *)

\* The steps that each kind of thread takes.
MainOps == {"loadStates", "create", "build", "put", "restore", "leave", "enterWait", "wait", "exit"}
SaveOps == {"collect", "write"}
HookOps == SaveOps \cup {"testFlag", "setFlag", "remove", "tearDown", "clear", "notify", "halt"}
UserOps == (MainOps \cup HookOps \cup {"isLocked", "setLock", "lookup", "execute", "report",
               "trigger", "config", "find", "snapshot", "findNew", "loadSaved"})
              \ {"enterWait", "wait", "exit", "halt"}

AllOps == MainOps \cup HookOps \cup UserOps

OpsOf(t) == IF t = "main" THEN MainOps
            ELSE IF t = "db" THEN SaveOps
            ELSE IF t = "hook" THEN HookOps ELSE UserOps

\* Step a is followed by step b for the same device, and b comes after nothing else.
Tied(s, i, a, b) ==
    /\ s[i][1] = a => i + 1 \in DOMAIN s /\ s[i + 1] = <<b, s[i][2]>>
    /\ s[i][1] = b /\ i # 1 => s[i - 1][1] = a

Chained(s) ==
    \A i \in DOMAIN s :
        /\ Tied(s, i, "create", "build") /\ Tied(s, i, "build", "put")
        /\ Tied(s, i, "put", "restore") /\ Tied(s, i, "restore", "leave")
        /\ Tied(s, i, "remove", "tearDown")

Inner == {"build", "put", "restore", "leave", "tearDown"}

\* A whole operation, or several in turn.
Whole(O, s) ==
    /\ s \in Seq(O \X Devices) /\ Chained(s)
    /\ s # <<>> => s[1][1] \notin Inner

\* What a thread has left to do: a request ends with setLock and the hook with halt.
Plan(t, s) ==
    /\ s \in Seq(OpsOf(t) \X Devices) /\ Chained(s)
    /\ s # <<>> /\ t \in Users => s[Len(s)][1] = "setLock"
    /\ s # <<>> /\ t = "hook" => s[Len(s)][1] = "halt"

-----------------------------------------------------------------------------
(* Lemmas about sequences of steps.                                        *)

\* The configured devices are devices, and there is a first one.
LEMMA FirstIsDevice == First \in Devices /\ Len(DeviceOrder) \in Nat /\ Len(DeviceOrder) > 0
                       /\ \A i \in 1 .. Len(DeviceOrder) : DeviceOrder[i] \in Devices
BY LifecycleAssumption, HeadTailProperties, LenProperties, EmptySeq, ElementOfSeq DEF First

\* Indices of a suffix.
LEMMA Shift ==
    ASSUME NEW n \in Nat, NEW k \in 1 .. n, NEW i \in 1 .. n - k + 1
    PROVE  /\ k + i - 1 \in 1 .. n
           /\ (k + i - 1) + 1 \in 1 .. n => i + 1 \in 1 .. n - k + 1
           /\ k + (i + 1) - 1 = (k + i - 1) + 1
           /\ i # 1 => i - 1 \in 1 .. n - k + 1 /\ k + i - 1 # 1
           /\ k + (i - 1) - 1 = (k + i - 1) - 1
OBVIOUS

\* A suffix of a sequence that is chained is chained.
LEMMA SuffixChained ==
    ASSUME NEW n \in Nat, NEW k \in 1 .. n, NEW s, DOMAIN s = 1 .. n, Chained(s),
           NEW r, DOMAIN r = 1 .. n - k + 1, \A i \in 1 .. n - k + 1 : r[i] = s[k + i - 1]
    PROVE  Chained(r)
<1>1. ASSUME NEW i \in 1 .. n - k + 1, NEW a, NEW b, Tied(s, k + i - 1, a, b)
      PROVE  Tied(r, i, a, b)
    <2>1. ASSUME r[i][1] = a PROVE i + 1 \in DOMAIN r /\ r[i + 1] = <<b, r[i][2]>>
        <3>1. (k + i - 1) + 1 \in 1 .. n /\ s[(k + i - 1) + 1] = <<b, r[i][2]>>
            BY <1>1, <2>1 DEF Tied
        <3>2. QED
            BY <3>1, Shift
    <2>2. ASSUME r[i][1] = b, i # 1 PROVE r[i - 1][1] = a
        <3>1. k + i - 1 # 1 /\ s[k + i - 1][1] = b
            BY <2>2, Shift
        <3>2. s[(k + i - 1) - 1][1] = a
            BY <1>1, <3>1 DEF Tied
        <3>3. QED
            BY <2>2, <3>2, Shift
    <2>3. QED
        BY <2>1, <2>2 DEF Tied
<1>2. \A i \in 1 .. n - k + 1 : k + i - 1 \in 1 .. n
    BY Shift
<1>3. QED
    BY <1>1, <1>2 DEF Chained

\* What is left after some steps of a plan is a plan.
LEMMA SuffixOfPlan ==
    ASSUME NEW t, NEW s, Plan(t, s), NEW k \in 1 .. Len(s)
    PROVE  /\ Plan(t, SubSeq(s, k, Len(s)))
           /\ SubSeq(s, k, Len(s)) # <<>> /\ Head(SubSeq(s, k, Len(s))) = s[k]
<1> DEFINE S == OpsOf(t) \X Devices
<1>1. s \in Seq(S) /\ DOMAIN s = 1 .. Len(s)
    BY LenProperties DEF Plan
<1>2. PICK n \in Nat : n = Len(s)
    BY <1>1, LenProperties
<1>3. PICK r : r = SubSeq(s, k, n)
    OBVIOUS
<1>4. \A i \in k .. n : s[i] \in S
    <2>1. \A i \in k .. n : i \in 1 .. n
        BY <1>2
    <2>2. QED
        BY <2>1, <1>1, <1>2, ElementOfSeq
<1>5. k \in 1 .. n /\ k \in Int /\ n \in Int
    BY <1>2
<1> HIDE DEF S
<1>6. /\ SubSeq(s, k, n) \in Seq(S)
      /\ Len(SubSeq(s, k, n)) = IF k <= n THEN n - k + 1 ELSE 0
      /\ \A i \in 1 .. n - k + 1 : SubSeq(s, k, n)[i] = s[k + i - 1]
    BY <1>4, <1>5, SubSeqProperties
<1>7. /\ r \in Seq(S) /\ Len(r) = n - k + 1
      /\ \A i \in 1 .. n - k + 1 : r[i] = s[k + i - 1]
    BY <1>3, <1>5, <1>6
<1>8. DOMAIN r = 1 .. n - k + 1
    BY <1>7, LenProperties
<1>9. Chained(r)
    <2>1. DOMAIN s = 1 .. n /\ Chained(s)
        BY <1>1, <1>2 DEF Plan
    <2>2. QED
        BY <2>1, <1>5, <1>7, <1>8, SuffixChained
<1>10. /\ 1 \in 1 .. n - k + 1 /\ k + 1 - 1 = k
       /\ n - k + 1 \in 1 .. n - k + 1 /\ k + (n - k + 1) - 1 = n
       /\ n # 0 /\ n - k + 1 # 0
    BY <1>5
<1>11. r # <<>> /\ Head(r) = s[k] /\ r[Len(r)] = s[n] /\ s # <<>>
    <2>1. r # <<>> /\ s # <<>>
        BY <1>2, <1>7, <1>10, EmptySeq
    <2>2. Head(r) = r[1]
        OBVIOUS
    <2>3. QED
        BY <2>1, <2>2, <1>7, <1>10
<1>12. QED
    BY <1>2, <1>3, <1>7, <1>9, <1>11 DEF Plan, S

\* A thread that has nothing left to do.
LEMMA EmptyPlan == ASSUME NEW t PROVE Plan(t, <<>>)
BY EmptySeq DEF Plan, Chained

\* What is left after one step.
LEMMA TailOfPlan ==
    ASSUME NEW t, NEW s, Plan(t, s), s # <<>>
    PROVE  /\ Plan(t, Tail(s))
           /\ Tail(s) # <<>> => 2 \in DOMAIN s /\ Head(Tail(s)) = s[2]
           /\ Tail(s) = <<>> => 2 \notin DOMAIN s
           /\ Head(s) = s[1] /\ 1 \in DOMAIN s
<1>1. /\ s \in Seq(OpsOf(t) \X Devices) /\ Tail(s) = SubSeq(s, 2, Len(s)) /\ Head(s) = s[1]
      /\ DOMAIN s = 1 .. Len(s)
    BY TailIsSubSeq, LenProperties DEF Plan
<1>2. PICK n \in Nat \ {0} : n = Len(s)
    BY <1>1, EmptySeq
<1>3. CASE n = 1
    <2>1. Tail(s) = <<>> /\ 2 \notin DOMAIN s /\ 1 \in DOMAIN s
        BY <1>1, <1>2, <1>3, SubSeqEmpty
    <2>2. QED
        BY <2>1, <1>1, EmptyPlan
<1>4. CASE n # 1
    <2>1. 2 \in 1 .. n /\ 1 \in 1 .. n
        BY <1>4
    <2>2. 2 \in 1 .. Len(s) /\ 2 \in DOMAIN s /\ 1 \in DOMAIN s
        BY <2>1, <1>1, <1>2
    <2>3. Plan(t, Tail(s)) /\ Tail(s) # <<>> /\ Head(Tail(s)) = s[2]
        BY <2>2, <1>1, SuffixOfPlan
    <2>4. QED
        BY <2>2, <2>3, <1>1
<1>5. QED
    BY <1>3, <1>4

\* A claim on a device is made by the step that builds it or takes it out of the map.
Claim(s, d) == s # <<>> /\ Head(s) \in {<<"put", d>>, <<"tearDown", d>>}

\* After another step the thread claims nothing.
LEMMA NoClaimAfter ==
    ASSUME NEW t, NEW s, Plan(t, s), s # <<>>, Head(s)[1] \notin {"build", "remove"}, NEW d
    PROVE  ~ Claim(Tail(s), d)
<1>1. SUFFICES ASSUME Claim(Tail(s), d) PROVE FALSE
    OBVIOUS
<1>2. 2 \in DOMAIN s /\ Head(Tail(s)) = s[2] /\ Head(s) = s[1]
    BY <1>1, TailOfPlan DEF Claim
<1>3. s[2][1] \in {"put", "tearDown"}
    BY <1>1, <1>2 DEF Claim
<1>4. s[2 - 1][1] \in {"build", "remove"}
    BY <1>2, <1>3 DEF Plan, Chained, Tied
<1>5. QED
    BY <1>2, <1>4

\* What follows build and remove.
LEMMA ClaimAfter ==
    ASSUME NEW t, NEW s, Plan(t, s), s # <<>>, NEW d \in Devices
    PROVE  /\ Head(s) = <<"build", d>> => Tail(s) # <<>> /\ Head(Tail(s)) = <<"put", d>>
           /\ Head(s) = <<"remove", d>> => Tail(s) # <<>> /\ Head(Tail(s)) = <<"tearDown", d>>
<1>1. 1 \in DOMAIN s /\ Head(s) = s[1]
    BY TailOfPlan
<1>2. /\ s[1] = <<"build", d>> => 1 + 1 \in DOMAIN s /\ s[1 + 1] = <<"put", d>>
      /\ s[1] = <<"remove", d>> => 1 + 1 \in DOMAIN s /\ s[1 + 1] = <<"tearDown", d>>
    BY <1>1 DEF Plan, Chained, Tied
<1>3. /\ Head(s) = <<"build", d>> => 2 \in DOMAIN s /\ s[2] = <<"put", d>>
      /\ Head(s) = <<"remove", d>> => 2 \in DOMAIN s /\ s[2] = <<"tearDown", d>>
    <2>1. 1 + 1 = 2
        OBVIOUS
    <2>2. QED
        BY <1>1, <1>2, <2>1
<1>4. 2 \in DOMAIN s => Tail(s) # <<>> /\ Head(Tail(s)) = s[2]
    BY TailOfPlan
<1>5. QED
    BY <1>3, <1>4
-----------------------------------------------------------------------------
(* Going to the next step of a kind.                                       *)

\* A set of positions has a first one.
LEMMA FirstPosition ==
    ASSUME NEW T, T \subseteq Nat, T # {}
    PROVE  \E i \in T : \A j \in T : i <= j
<1>1. PICK i \in T : \A j \in T : <<j, i>> \notin OpToRel(<, Nat)
    BY NatLessThanWellFounded, WFMin
<1>2. \A j \in T : ~ (j < i)
    BY <1>1 DEF OpToRel
<1>3. \A j \in T : i <= j
    <2>1. ASSUME NEW m \in Nat, NEW n \in Nat, ~ (n < m) PROVE m <= n
        BY <2>1
    <2>2. QED
        BY <1>2, <2>1
<1>4. QED
    BY <1>3

\* SkipTo leaves a suffix of the plan that begins with the step it went to.
LEMMA Skipped ==
    ASSUME todo \in [Threads -> Seq(AllOps \X Devices)],
           NEW t \in Threads, Plan(t, todo[t]), NEW op,
           \E i \in DOMAIN todo[t] : todo[t][i][1] = op, SkipTo(t, op)
    PROVE  /\ Plan(t, todo'[t]) /\ todo'[t] # <<>> /\ Head(todo'[t])[1] = op
           /\ todo' = [todo EXCEPT ![t] = todo'[t]]
           /\ \E k \in 1 .. Len(todo[t]) : todo'[t] = SubSeq(todo[t], k, Len(todo[t]))
<1> DEFINE s == todo[t]
           Here(i) == s[i][1] = op /\ \A j \in 1 .. i - 1 : s[j][1] # op
           here == CHOOSE i \in DOMAIN s : Here(i)
<1>1. PICK n \in Nat : DOMAIN s = 1 .. n /\ n = Len(s)
    BY LenProperties DEF Plan
<1>2. \E i \in DOMAIN s : Here(i)
    <2> DEFINE T == {i \in 1 .. n : s[i][1] = op}
    <2>1. T \subseteq Nat /\ T # {}
        BY <1>1
    <2>2. PICK i \in T : \A j \in T : i <= j
        BY <2>1, FirstPosition
    <2>3. ASSUME NEW j \in 1 .. i - 1, s[j][1] = op PROVE FALSE
        BY <2>2, <2>3
    <2>4. QED
        BY <2>2, <2>3, <1>1
<1>3. here \in DOMAIN s /\ s[here][1] = op
    BY <1>2
<1>4. todo' = [todo EXCEPT ![t] = SubSeq(s, here, Len(s))]
    BY DEF SkipTo
<1> HIDE DEF here, s
<1>5. todo'[t] = SubSeq(s, here, Len(s))
    BY <1>4
<1>6. here \in 1 .. Len(s)
    BY <1>1, <1>3
<1>7. \E k \in 1 .. Len(s) : todo'[t] = SubSeq(s, k, Len(s))
    BY <1>5, <1>6
<1>8. /\ Plan(t, todo'[t]) /\ todo'[t] # <<>> /\ Head(todo'[t])[1] = op
      /\ todo' = [todo EXCEPT ![t] = todo'[t]]
    BY <1>3, <1>4, <1>5, <1>6, SuffixOfPlan DEF s
<1>9. QED
    BY <1>7, <1>8 DEF s

-----------------------------------------------------------------------------
(* The steps of the operations.                                            *)

Ties == Inner \cup {"create", "remove"}

\* Indices of two sequences put together.
LEMMA Beside ==
    ASSUME NEW m \in Nat, NEW n \in Nat, NEW i \in 1 .. m + n
    PROVE  /\ i <= m => i \in 1 .. m /\ (i # 1 => i - 1 <= m /\ i - 1 \in 1 .. m + n)
           /\ ~ (i <= m) => i - m \in 1 .. n
           /\ i + 1 \in 1 .. m => i + 1 \in 1 .. m + n /\ i + 1 <= m
           /\ ~ (i <= m) /\ (i - m) + 1 \in 1 .. n =>
                  i + 1 \in 1 .. m + n /\ ~ (i + 1 <= m) /\ (i + 1) - m = (i - m) + 1
           /\ ~ (i <= m) /\ i - m # 1 =>
                  i - 1 \in 1 .. m + n /\ ~ (i - 1 <= m) /\ (i - 1) - m = (i - m) - 1
OBVIOUS

\* Whole operations one after the other are whole operations.
LEMMA ConcatChained ==
    ASSUME NEW m \in Nat, NEW n \in Nat, NEW a, NEW b, NEW c,
           DOMAIN a = 1 .. m, DOMAIN b = 1 .. n, DOMAIN c = 1 .. m + n,
           \A i \in 1 .. m + n : c[i] = IF i <= m THEN a[i] ELSE b[i - m],
           Chained(a), Chained(b), 1 \in 1 .. n => b[1][1] \notin Inner
    PROVE  Chained(c)
<1>1. ASSUME NEW i \in 1 .. m + n, i <= m, NEW x, NEW y, Tied(a, i, x, y)
      PROVE  Tied(c, i, x, y)
    <2>1. i \in 1 .. m /\ c[i] = a[i]
        BY <1>1, Beside
    <2>2. ASSUME c[i][1] = x PROVE i + 1 \in DOMAIN c /\ c[i + 1] = <<y, c[i][2]>>
        BY <1>1, <2>1, <2>2, Beside DEF Tied
    <2>3. ASSUME c[i][1] = y, i # 1 PROVE c[i - 1][1] = x
        BY <1>1, <2>1, <2>3, Beside DEF Tied
    <2>4. QED
        BY <2>2, <2>3 DEF Tied
<1>2. ASSUME NEW i \in 1 .. m + n, ~ (i <= m), NEW x, NEW y \in Inner, Tied(b, i - m, x, y)
      PROVE  Tied(c, i, x, y)
    <2>1. i - m \in 1 .. n /\ c[i] = b[i - m]
        BY <1>2, Beside
    <2>2. ASSUME c[i][1] = x PROVE i + 1 \in DOMAIN c /\ c[i + 1] = <<y, c[i][2]>>
        <3>1. (i - m) + 1 \in 1 .. n /\ b[(i - m) + 1] = <<y, c[i][2]>>
            BY <1>2, <2>1, <2>2 DEF Tied
        <3>2. QED
            BY <1>2, <3>1, Beside
    <2>3. ASSUME c[i][1] = y, i # 1 PROVE c[i - 1][1] = x
        <3>1. i - m # 1
            BY <2>1, <2>3
        <3>2. b[(i - m) - 1][1] = x
            BY <1>2, <2>1, <2>3, <3>1 DEF Tied
        <3>3. QED
            BY <1>2, <3>1, <3>2, Beside
    <2>4. QED
        BY <2>2, <2>3 DEF Tied
<1>3. \A i \in 1 .. m + n : (i <= m => i \in 1 .. m) /\ (~ (i <= m) => i - m \in 1 .. n)
    BY Beside
<1>4. {"build", "put", "restore", "leave", "tearDown"} = Inner
    BY DEF Inner
<1>5. QED
    BY <1>1, <1>2, <1>3, <1>4 DEF Chained

\* Whole operations one after the other are a whole operation, with the last step of the second.
LEMMA ConcatWhole ==
    ASSUME NEW O, NEW a, NEW b, Whole(O, a), Whole(O, b)
    PROVE  /\ Whole(O, a \o b)
           /\ b # <<>> => a \o b # <<>> /\ (a \o b)[Len(a \o b)] = b[Len(b)]
<1>1. /\ a \in Seq(O \X Devices) /\ b \in Seq(O \X Devices)
      /\ DOMAIN a = 1 .. Len(a) /\ DOMAIN b = 1 .. Len(b)
    BY LenProperties DEF Whole
<1>2. PICK m \in Nat : m = Len(a)
    BY <1>1, LenProperties
<1>3. PICK n \in Nat : n = Len(b)
    BY <1>1, LenProperties
<1>4. PICK c : c = a \o b
    OBVIOUS
<1>5. /\ c \in Seq(O \X Devices) /\ Len(c) = m + n
      /\ \A i \in 1 .. m + n : c[i] = IF i <= m THEN a[i] ELSE b[i - m]
    BY <1>1, <1>2, <1>3, <1>4, ConcatProperties
<1>6. DOMAIN c = 1 .. m + n
    BY <1>5, LenProperties
<1>7. 1 \in 1 .. n => b # <<>> /\ b[1][1] \notin Inner
    <2>1. 1 \in 1 .. n => n # 0
        OBVIOUS
    <2>2. QED
        BY <2>1, <1>1, <1>3, EmptySeq DEF Whole
<1>8. Chained(c)
    <2>1. Chained(a) /\ Chained(b) /\ DOMAIN a = 1 .. m /\ DOMAIN b = 1 .. n
        BY <1>1, <1>2, <1>3 DEF Whole
    <2>2. QED
        BY <2>1, <1>5, <1>6, <1>7, ConcatChained
<1>9. ASSUME c # <<>> PROVE c[1][1] \notin Inner
    <2>1. m + n # 0
        BY <1>5, <1>9, EmptySeq
    <2>2. CASE m = 0
        <3>1. 1 \in 1 .. n /\ 1 \in 1 .. m + n /\ ~ (1 <= m) /\ 1 - m = 1
            BY <2>1, <2>2
        <3>2. QED
            BY <3>1, <1>5, <1>7
    <2>3. CASE m # 0
        <3>1. 1 \in 1 .. m + n /\ 1 <= m
            BY <2>3
        <3>2. a # <<>>
            BY <2>3, <1>2, EmptySeq
        <3>3. QED
            BY <3>1, <3>2, <1>5 DEF Whole
    <2>4. QED
        BY <2>2, <2>3
<1>10. ASSUME b # <<>> PROVE c # <<>> /\ c[Len(c)] = b[Len(b)]
    <2>1. n # 0
        BY <1>1, <1>3, <1>10, EmptySeq
    <2>2. m + n \in 1 .. m + n /\ ~ (m + n <= m) /\ (m + n) - m = n /\ m + n # 0
        BY <2>1
    <2>3. c[m + n] = b[n]
        BY <2>2, <1>5
    <2>4. c # <<>>
        BY <2>2, <1>5, EmptySeq
    <2>5. QED
        BY <2>3, <2>4, <1>3, <1>5
<1>11. Whole(O, c)
    BY <1>5, <1>8, <1>9 DEF Whole
<1>12. QED
    BY <1>4, <1>10, <1>11

\* Steps that are tied to no other.
LEMMA ForWhole ==
    ASSUME NEW O, NEW ops \in Seq(O), O \cap Ties = {}, NEW d \in Devices
    PROVE  /\ Whole(O, For(d, ops)) /\ Len(For(d, ops)) = Len(ops)
           /\ \A i \in 1 .. Len(ops) : For(d, ops)[i] = <<ops[i], d>>
<1>1. PICK n \in Nat : n = Len(ops) /\ DOMAIN ops = 1 .. n
    BY LenProperties
<1>2. PICK f : f = For(d, ops)
    OBVIOUS
<1>3. f = [i \in 1 .. n |-> <<ops[i], d>>]
    BY <1>1, <1>2 DEF For
<1>4. \A i \in 1 .. n : ops[i] \in O
    BY <1>1, ElementOfSeq
<1>5. f \in Seq(O \X Devices) /\ DOMAIN f = 1 .. n /\ Len(f) = n
    <2>1. f \in [1 .. n -> O \X Devices]
        BY <1>3, <1>4
    <2>2. QED
        BY <2>1, <1>1, <1>3
<1>6. \A i \in 1 .. n : f[i][1] \notin Ties
    BY <1>3, <1>4
<1>7. Chained(f)
    BY <1>5, <1>6 DEF Chained, Tied, Ties, Inner
<1>8. f # <<>> => f[1][1] \notin Inner
    <2>1. f # <<>> => n # 0
        BY <1>5, EmptySeq
    <2>2. n # 0 => 1 \in 1 .. n
        OBVIOUS
    <2>3. QED
        BY <2>1, <2>2, <1>6 DEF Ties
<1>9. QED
    BY <1>1, <1>2, <1>3, <1>5, <1>7, <1>8 DEF Whole

CreateOps == {"create", "build", "put", "restore", "leave"}
CloseOps == {"remove", "tearDown"}

\* createNewDevice and closeDevice as operations of one device.
LEMMA CreateWhole ==
    ASSUME NEW d \in Devices
    PROVE  Whole(CreateOps, createNewDevice(d)) /\ createNewDevice(d) # <<>>
<1> DEFINE c == <<<<"create", d>>, <<"build", d>>, <<"put", d>>, <<"restore", d>>, <<"leave", d>>>>
<1>1. createNewDevice(d) = c
    BY DEF createNewDevice, For
<1>2. c \in Seq(CreateOps \X Devices) /\ DOMAIN c = 1 .. 5 /\ c # <<>>
    BY DEF CreateOps
<1>3. Chained(c)
    BY DEF Chained, Tied
<1>4. QED
    BY <1>1, <1>2, <1>3 DEF Whole, Inner

\* closeDevice is a whole operation.
LEMMA CloseWhole ==
    ASSUME NEW d \in Devices
    PROVE  Whole(CloseOps, closeDevice(d)) /\ closeDevice(d) # <<>>
<1> DEFINE c == <<<<"remove", d>>, <<"tearDown", d>>>>
<1>1. closeDevice(d) = c
    BY DEF closeDevice, For
<1>2. c \in Seq(CloseOps \X Devices) /\ DOMAIN c = 1 .. 2 /\ c # <<>>
    BY DEF CloseOps
<1>3. Chained(c)
    BY DEF Chained, Tied
<1>4. QED
    BY <1>1, <1>2, <1>3 DEF Whole, Inner

\* The step and the device at a position of ForAll, for the lengths that are used.
LEMMA Position ==
    ASSUME NEW k \in {1, 2, 5}, NEW n \in Nat, NEW i \in 1 .. k * n
    PROVE  /\ (i - 1) % k \in 0 .. k - 1 /\ ((i - 1) \div k) + 1 \in 1 .. n
           /\ ((i - 1) % k) + 1 \in 1 .. k
           /\ (i - 1) % k # k - 1 =>
                  /\ i + 1 \in 1 .. k * n /\ ((i + 1) - 1) \div k = (i - 1) \div k
                  /\ ((i + 1) - 1) % k = ((i - 1) % k) + 1
           /\ (i - 1) % k # 0 =>
                  /\ i - 1 \in 1 .. k * n /\ ((i - 1) - 1) % k = ((i - 1) % k) - 1
           /\ (1 - 1) % k = 0
<1>1. CASE k = 1
    BY <1>1
<1>2. CASE k = 2
    BY <1>2
<1>3. CASE k = 5
    BY <1>3
<1>4. QED
    BY <1>1, <1>2, <1>3

\* ForAll(ops) consists of the steps ops, and begins with the first of them.
LEMMA ForAllBegins ==
    ASSUME NEW O, NEW k \in {1, 2, 5}, NEW ops, ops \in Seq(O), Len(ops) = k
    PROVE  /\ ForAll(ops) \in Seq(O \X Devices) /\ ForAll(ops) # <<>>
           /\ 1 \in DOMAIN ForAll(ops) /\ ForAll(ops)[1][1] = ops[1]
           /\ \A i \in DOMAIN ForAll(ops) : ForAll(ops)[i][1] \in O
<1>1. PICK n \in Nat \ {0} : n = Len(DeviceOrder)
    BY FirstIsDevice
<1>2. PICK f : f = ForAll(ops)
    OBVIOUS
<1>3. f = [i \in 1 .. k * n |-> <<ops[((i - 1) % k) + 1], DeviceOrder[((i - 1) \div k) + 1]>>]
    BY <1>1, <1>2 DEF ForAll
<1>4. \A i \in 1 .. k * n : /\ ops[((i - 1) % k) + 1] \in O
                            /\ DeviceOrder[((i - 1) \div k) + 1] \in Devices
    <2>1. \A j \in 1 .. k : ops[j] \in O
        BY ElementOfSeq
    <2>2. \A j \in 1 .. n : DeviceOrder[j] \in Devices
        BY <1>1, FirstIsDevice
    <2>3. QED
        BY <2>1, <2>2, Position
<1>5. k * n \in Nat /\ k * n # 0
    <2>1. k = 1 \/ k = 2 \/ k = 5
        OBVIOUS
    <2>2. QED
        BY <2>1
<1>6. f \in Seq(O \X Devices) /\ Len(f) = k * n /\ DOMAIN f = 1 .. k * n
    <2>1. PICK m \in Nat : m = k * n
        BY <1>5
    <2>2. f \in [1 .. m -> O \X Devices]
        BY <2>1, <1>3, <1>4
    <2>3. QED
        BY <2>1, <2>2
<1>7. f # <<>>
    BY <1>5, <1>6, EmptySeq
<1>8. 1 \in DOMAIN f /\ ((1 - 1) % k) + 1 = 1
    <2>1. k = 1 \/ k = 2 \/ k = 5
        OBVIOUS
    <2>2. QED
        BY <2>1, <1>6
<1>9. f[1][1] = ops[1]
    <2>1. f[1][1] = ops[((1 - 1) % k) + 1]
        BY <1>3, <1>6, <1>8
    <2>2. QED
        BY <2>1, <1>8
<1>10. \A i \in DOMAIN f : f[i][1] \in O
    BY <1>3, <1>4, <1>6
<1>11. QED
    BY <1>2, <1>6, <1>7, <1>8, <1>9, <1>10

\* Steps that follow each other among ops are tied in ForAll(ops).
LEMMA ForAllTied ==
    ASSUME NEW O, NEW k \in {1, 2, 5}, NEW ops, ops \in Seq(O), Len(ops) = k,
           NEW r \in 0 .. k - 1, NEW x, NEW y, r # k - 1, ops[r + 1] = x, ops[(r + 1) + 1] = y,
           \A q \in 0 .. k - 1 : (ops[q + 1] = x => q = r) /\ (ops[q + 1] = y => q = r + 1),
           NEW i \in DOMAIN ForAll(ops)
    PROVE  Tied(ForAll(ops), i, x, y)
<1>1. PICK n \in Nat \ {0} : n = Len(DeviceOrder)
    BY FirstIsDevice
<1>0. PICK f : f = ForAll(ops)
    OBVIOUS
<1>2. /\ DOMAIN f = 1 .. k * n
      /\ \A j \in 1 .. k * n :
            /\ f[j][1] = ops[((j - 1) % k) + 1]
            /\ f[j][2] = DeviceOrder[((j - 1) \div k) + 1]
            /\ f[j] = <<f[j][1], f[j][2]>>
    <2>1. f = [j \in 1 .. k * n |-> <<ops[((j - 1) % k) + 1], DeviceOrder[((j - 1) \div k) + 1]>>]
        BY <1>0, <1>1 DEF ForAll
    <2>2. QED
        BY <2>1
<1>3. i \in 1 .. k * n
    BY <1>0, <1>2
<1>4. /\ (i - 1) % k \in 0 .. k - 1
      /\ (i - 1) % k # k - 1 =>
            /\ i + 1 \in 1 .. k * n /\ ((i + 1) - 1) \div k = (i - 1) \div k
            /\ ((i + 1) - 1) % k = ((i - 1) % k) + 1
      /\ (i - 1) % k # 0 =>
            /\ i - 1 \in 1 .. k * n /\ ((i - 1) - 1) % k = ((i - 1) % k) - 1
    BY <1>3, Position, SMTT(30)
<1>5. PICK q \in 0 .. k - 1 : q = (i - 1) % k
    BY <1>4
<1>6. f[i][1] = ops[q + 1]
    BY <1>2, <1>3, <1>5
<1>7. ASSUME f[i][1] = x PROVE i + 1 \in DOMAIN f /\ f[i + 1] = <<y, f[i][2]>>
    <2>1. q = r
        BY <1>6, <1>7
    <2>2. /\ i + 1 \in 1 .. k * n /\ ((i + 1) - 1) \div k = (i - 1) \div k
          /\ ((i + 1) - 1) % k = r + 1
        BY <2>1, <1>4, <1>5
    <2>3. /\ f[i + 1][1] = ops[(((i + 1) - 1) % k) + 1]
          /\ f[i + 1][2] = DeviceOrder[(((i + 1) - 1) \div k) + 1]
          /\ f[i + 1] = <<f[i + 1][1], f[i + 1][2]>>
        BY <2>2, <1>2
    <2>4. f[i][2] = DeviceOrder[((i - 1) \div k) + 1]
        BY <1>2, <1>3
    <2>5. f[i + 1][1] = y /\ f[i + 1][2] = f[i][2]
        BY <2>2, <2>3, <2>4
    <2>6. QED
        BY <2>2, <2>3, <2>5, <1>2
<1>8. ASSUME f[i][1] = y, i # 1 PROVE f[i - 1][1] = x
    <2>1. q = r + 1
        BY <1>6, <1>8
    <2>2. q # 0 /\ (r + 1) - 1 = r
        BY <2>1
    <2>3. i - 1 \in 1 .. k * n /\ ((i - 1) - 1) % k = r
        BY <2>1, <2>2, <1>4, <1>5
    <2>4. f[i - 1][1] = ops[(((i - 1) - 1) % k) + 1]
        BY <2>3, <1>2
    <2>5. QED
        BY <2>3, <2>4
<1>9. QED
    BY <1>0, <1>7, <1>8 DEF Tied

\* The operations of all devices in turn.
LEMMA CollectAllWhole ==
    Whole(SaveOps, ForAll(<<"collect">>)) /\ ForAll(<<"collect">>) # <<>>
<1> DEFINE ops == <<"collect">>
           f == ForAll(ops)
<1>1. ops \in Seq({"collect"}) /\ Len(ops) = 1
    OBVIOUS
<1> HIDE DEF ops
<1>2. /\ f \in Seq({"collect"} \X Devices) /\ f # <<>> /\ 1 \in DOMAIN f
      /\ \A i \in DOMAIN f : f[i][1] \in {"collect"}
    <2>1. 1 \in {1, 2, 5}
        OBVIOUS
    <2>2. QED
        BY <1>1, <2>1, ForAllBegins
<1> HIDE DEF f
<1>3. f \in Seq(SaveOps \X Devices)
    <2>1. {"collect"} \X Devices \subseteq SaveOps \X Devices
        BY DEF SaveOps
    <2>2. QED
        BY <1>2, <2>1, SeqMonotonic
<1>4. Chained(f)
    BY <1>2 DEF Chained, Tied
<1>5. QED
    BY <1>2, <1>3, <1>4 DEF Whole, Inner, f, ops

\* Closing every device is a whole operation.
LEMMA CloseAllWhole ==
    /\ Whole(CloseOps, ForAll(<<"remove", "tearDown">>)) /\ ForAll(<<"remove", "tearDown">>) # <<>>
<1> DEFINE ops == <<"remove", "tearDown">>
           f == ForAll(ops)
<1>1. ops \in Seq(CloseOps) /\ Len(ops) = 2 /\ ops[0 + 1] = "remove" /\ ops[(0 + 1) + 1] = "tearDown"
    BY DEF CloseOps
<1> HIDE DEF ops
<1>2. /\ f \in Seq(CloseOps \X Devices) /\ f # <<>>
      /\ 1 \in DOMAIN f /\ f[1][1] = ops[1]
      /\ \A i \in DOMAIN f : f[i][1] \in CloseOps
    <2>1. 2 \in {1, 2, 5}
        OBVIOUS
    <2>2. QED
        BY <1>1, <2>1, ForAllBegins
<1> HIDE DEF f
<1>3. \A i \in DOMAIN f : Tied(f, i, "remove", "tearDown")
    <2>1. /\ 2 \in {1, 2, 5} /\ 0 \in 0 .. 2 - 1 /\ 0 # 2 - 1
          /\ \A q \in 0 .. 2 - 1 : /\ ops[q + 1] = "remove" => q = 0
                                   /\ ops[q + 1] = "tearDown" => q = 0 + 1
        <3>1. \A q \in 0 .. 2 - 1 : q = 0 \/ q = 0 + 1
            OBVIOUS
        <3>2. QED
            BY <3>1, <1>1
    <2>2. QED
        BY <1>1, <2>1, ForAllTied DEF f
<1>4. Chained(f)
    BY <1>2, <1>3 DEF Chained, Tied, CloseOps
<1>5. QED
    BY <1>1, <1>2, <1>4 DEF Whole, Inner, f, ops

\* Creating every device, as main does, is a whole operation.
LEMMA CreateAllWhole ==
    /\ Whole(CreateOps, ForAll(<<"create", "build", "put", "restore", "leave">>))
    /\ ForAll(<<"create", "build", "put", "restore", "leave">>) # <<>>
<1> DEFINE ops == <<"create", "build", "put", "restore", "leave">>
           f == ForAll(ops)
<1>1. /\ ops \in Seq(CreateOps) /\ Len(ops) = 5
      /\ ops[0 + 1] = "create" /\ ops[1 + 1] = "build" /\ ops[2 + 1] = "put"
      /\ ops[3 + 1] = "restore" /\ ops[4 + 1] = "leave"
    BY DEF CreateOps
<1> HIDE DEF ops
<1>2. 5 \in {1, 2, 5} /\ \A q \in 0 .. 5 - 1 : q \in {0, 1, 2, 3, 4}
    OBVIOUS
<1>3. /\ f \in Seq(CreateOps \X Devices) /\ f # <<>>
      /\ 1 \in DOMAIN f /\ f[1][1] = ops[1]
      /\ \A i \in DOMAIN f : f[i][1] \in CreateOps
    BY <1>1, <1>2, ForAllBegins
<1> HIDE DEF f
<1>4. \A i \in DOMAIN f : Tied(f, i, "create", "build")
    <2>1. /\ 0 \in 0 .. 5 - 1 /\ 0 # 5 - 1 /\ ops[(0 + 1) + 1] = "build"
          /\ \A q \in 0 .. 5 - 1 : /\ ops[q + 1] = "create" => q = 0
                                   /\ ops[q + 1] = "build" => q = 0 + 1
        BY <1>1, <1>2
    <2>2. QED
        BY <1>1, <1>2, <2>1, ForAllTied DEF f
<1>5. \A i \in DOMAIN f : Tied(f, i, "build", "put")
    <2>1. /\ 1 \in 0 .. 5 - 1 /\ 1 # 5 - 1 /\ ops[(1 + 1) + 1] = "put"
          /\ \A q \in 0 .. 5 - 1 : /\ ops[q + 1] = "build" => q = 1
                                   /\ ops[q + 1] = "put" => q = 1 + 1
        BY <1>1, <1>2
    <2>2. QED
        BY <1>1, <1>2, <2>1, ForAllTied DEF f
<1>6. \A i \in DOMAIN f : Tied(f, i, "put", "restore")
    <2>1. /\ 2 \in 0 .. 5 - 1 /\ 2 # 5 - 1 /\ ops[(2 + 1) + 1] = "restore"
          /\ \A q \in 0 .. 5 - 1 : /\ ops[q + 1] = "put" => q = 2
                                   /\ ops[q + 1] = "restore" => q = 2 + 1
        BY <1>1, <1>2
    <2>2. QED
        BY <1>1, <1>2, <2>1, ForAllTied DEF f
<1>7. \A i \in DOMAIN f : Tied(f, i, "restore", "leave")
    <2>1. /\ 3 \in 0 .. 5 - 1 /\ 3 # 5 - 1 /\ ops[(3 + 1) + 1] = "leave"
          /\ \A q \in 0 .. 5 - 1 : /\ ops[q + 1] = "restore" => q = 3
                                   /\ ops[q + 1] = "leave" => q = 3 + 1
        BY <1>1, <1>2
    <2>2. QED
        BY <1>1, <1>2, <2>1, ForAllTied DEF f
<1>8. Chained(f)
    BY <1>3, <1>4, <1>5, <1>6, <1>7 DEF Chained, Tied, CreateOps
<1>9. ops[1] = "create"
    BY <1>1
<1>10. QED
    BY <1>3, <1>8, <1>9 DEF Whole, Inner, f, ops

\* A whole operation stays one when more steps are allowed.
LEMMA WholeWider ==
    ASSUME NEW O, NEW P, O \subseteq P, NEW s, Whole(O, s)
    PROVE  Whole(P, s)
<1>1. O \X Devices \subseteq P \X Devices
    OBVIOUS
<1>2. QED
    BY <1>1, SeqMonotonic DEF Whole

\* A single step that is tied to no other.
LEMMA OneWhole ==
    ASSUME NEW op, op \notin Ties, NEW d \in Devices, NEW O, op \in O
    PROVE  /\ Whole(O, For(d, <<op>>)) /\ For(d, <<op>>) # <<>>
           /\ For(d, <<op>>)[Len(For(d, <<op>>))] = <<op, d>>
<1>1. <<op>> \in Seq({op}) /\ {op} \cap Ties = {} /\ Len(<<op>>) = 1 /\ <<op>>[1] = op
    OBVIOUS
<1>2. /\ Whole({op}, For(d, <<op>>)) /\ Len(For(d, <<op>>)) = 1
      /\ For(d, <<op>>)[1] = <<op, d>>
    <2>1. PICK ops : ops = <<op>>
        OBVIOUS
    <2>2. ops \in Seq({op}) /\ Len(ops) = 1
        BY <1>1, <2>1
    <2>3. /\ Whole({op}, For(d, ops)) /\ Len(For(d, ops)) = Len(ops)
          /\ \A i \in 1 .. Len(ops) : For(d, ops)[i] = <<ops[i], d>>
        BY <1>1, <2>2, ForWhole
    <2>4. QED
        BY <1>1, <2>1, <2>2, <2>3
<1>3. For(d, <<op>>) # <<>>
    BY <1>2, EmptySeq DEF Whole
<1>4. QED
    BY <1>2, <1>3, WholeWider

\* save is a whole operation.
LEMMA SaveWhole == Whole(SaveOps, save) /\ save # <<>>
<1>1. /\ Whole(SaveOps, For(First, <<"write">>)) /\ For(First, <<"write">>) # <<>>
    BY OneWhole, FirstIsDevice DEF Ties, Inner, SaveOps
<1>2. QED
    BY <1>1, CollectAllWhole, ConcatWhole DEF save

CloseAllOps == CloseOps \cup {"clear"}

\* closeAllDevices is a whole operation.
LEMMA CloseAllDevicesWhole == Whole(CloseAllOps, closeAllDevices) /\ closeAllDevices # <<>>
<1>1. /\ Whole(CloseAllOps, For(First, <<"clear">>)) /\ For(First, <<"clear">>) # <<>>
    BY OneWhole, FirstIsDevice DEF Ties, Inner, CloseAllOps
<1>2. Whole(CloseAllOps, ForAll(<<"remove", "tearDown">>))
    BY CloseAllWhole, WholeWider DEF CloseAllOps
<1>3. QED
    BY <1>1, <1>2, ConcatWhole DEF closeAllDevices

ShutdownOps == HookOps \ {"halt"}

\* shutdown is a whole operation.
LEMMA ShutdownWhole == Whole(ShutdownOps, shutdown) /\ shutdown # <<>>
<1>1. Whole(ShutdownOps, For(First, <<"testFlag", "setFlag">>))
    <2>1. PICK ops : ops = <<"testFlag", "setFlag">>
        OBVIOUS
    <2>2. ops \in Seq({"testFlag", "setFlag"}) /\ {"testFlag", "setFlag"} \cap Ties = {}
        BY <2>1 DEF Ties, Inner
    <2>3. Whole({"testFlag", "setFlag"}, For(First, ops))
        BY <2>2, ForWhole, FirstIsDevice
    <2>4. {"testFlag", "setFlag"} \subseteq ShutdownOps
        BY DEF ShutdownOps, HookOps
    <2>5. QED
        BY <2>1, <2>3, <2>4, WholeWider
<1>2. Whole(ShutdownOps, save) /\ Whole(ShutdownOps, closeAllDevices)
    <2>1. SaveOps \subseteq ShutdownOps /\ CloseAllOps \subseteq ShutdownOps
        BY DEF SaveOps, CloseAllOps, CloseOps, ShutdownOps, HookOps
    <2>2. QED
        BY <2>1, SaveWhole, CloseAllDevicesWhole, WholeWider
<1>3. Whole(ShutdownOps, For(First, <<"notify">>)) /\ For(First, <<"notify">>) # <<>>
    BY OneWhole, FirstIsDevice DEF Ties, Inner, ShutdownOps, HookOps
<1>4. Whole(ShutdownOps, For(First, <<"testFlag", "setFlag">>) \o save)
    BY <1>1, <1>2, ConcatWhole
<1>5. Whole(ShutdownOps, For(First, <<"testFlag", "setFlag">>) \o save \o closeAllDevices)
    BY <1>2, <1>4, ConcatWhole
<1>6. QED
    BY <1>3, <1>5, ConcatWhole DEF shutdown

\* The hook's plan.
LEMMA HookPlan == Plan("hook", hook) /\ Whole(HookOps, hook) /\ hook # <<>>
<1>1. Whole(HookOps, shutdown)
    BY ShutdownWhole, WholeWider DEF ShutdownOps
<1>2. /\ Whole(HookOps, For(First, <<"halt">>)) /\ For(First, <<"halt">>) # <<>>
      /\ For(First, <<"halt">>)[Len(For(First, <<"halt">>))] = <<"halt", First>>
    BY OneWhole, FirstIsDevice DEF Ties, Inner, HookOps
<1>3. Whole(HookOps, hook) /\ hook # <<>> /\ hook[Len(hook)] = <<"halt", First>>
    BY <1>1, <1>2, ConcatWhole DEF hook
<1>4. "hook" \notin Users
    BY LifecycleAssumption
<1>5. QED
    BY <1>3, <1>4 DEF Plan, Whole, OpsOf

\* Main's plan.
LEMMA MainPlan == Plan("main", main) /\ Whole(MainOps, main) /\ main # <<>>
<1>1. Whole(MainOps, For(First, <<"loadStates">>))
    BY OneWhole, FirstIsDevice DEF Ties, Inner, MainOps
<1>2. Whole(MainOps, ForAll(<<"create", "build", "put", "restore", "leave">>))
    BY CreateAllWhole, WholeWider DEF CreateOps, MainOps
<1>3. Whole(MainOps, For(First, <<"enterWait", "wait">>)) /\ For(First, <<"enterWait", "wait">>) # <<>>
    <2>1. PICK ops : ops = <<"enterWait", "wait">>
        OBVIOUS
    <2>2. /\ ops \in Seq({"enterWait", "wait"}) /\ {"enterWait", "wait"} \cap Ties = {}
          /\ Len(ops) = 2
        BY <2>1 DEF Ties, Inner
    <2>3. Whole({"enterWait", "wait"}, For(First, ops)) /\ Len(For(First, ops)) = 2
        BY <2>2, ForWhole, FirstIsDevice
    <2>4. {"enterWait", "wait"} \subseteq MainOps
        BY DEF MainOps
    <2>5. PICK f : f = For(First, ops)
        OBVIOUS
    <2>6. f \in Seq({"enterWait", "wait"} \X Devices) /\ Len(f) = 2
        BY <2>3, <2>5 DEF Whole
    <2>7. f # <<>>
        BY <2>6, EmptySeq
    <2>8. QED
        BY <2>1, <2>3, <2>4, <2>5, <2>7, WholeWider
<1>4. Whole(MainOps, main) /\ main # <<>>
    BY <1>1, <1>2, <1>3, ConcatWhole DEF main
<1>5. "main" \notin Users
    BY LifecycleAssumption
<1>6. QED
    BY <1>4, <1>5 DEF Plan, Whole, OpsOf

\* The database task's plan.
LEMMA DbPlan == Plan("db", save)
<1>1. "db" \notin Users
    BY LifecycleAssumption
<1>2. QED
    BY <1>1, SaveWhole DEF Plan, Whole, OpsOf

OrdinaryOps == UserOps \ {"clear"}

\* The steps of the processor actions that leave the other devices alone.
LEMMA OrdinaryWhole ==
    ASSUME NEW kind \in {"command", "load", "close", "reload", "save"}, NEW d \in Devices
    PROVE  Whole(OrdinaryOps, processAction(kind, d))
<1>1. /\ Whole(OrdinaryOps, save) /\ Whole(OrdinaryOps, createNewDevice(d))
      /\ Whole(OrdinaryOps, closeDevice(d))
    <2>1. /\ SaveOps \subseteq OrdinaryOps /\ CreateOps \subseteq OrdinaryOps
          /\ CloseOps \subseteq OrdinaryOps
        BY DEF SaveOps, CloseOps, CreateOps, OrdinaryOps, UserOps, HookOps, MainOps
    <2>2. QED
        BY <2>1, SaveWhole, CreateWhole, CloseWhole, WholeWider
<1>2. Whole(OrdinaryOps, For(d, <<"config">>))
    BY OneWhole DEF Ties, Inner, OrdinaryOps, UserOps
<1>3. ASSUME NEW O, NEW ops, ops \in Seq(O), O \subseteq OrdinaryOps, O \cap Ties = {}
      PROVE  Whole(OrdinaryOps, For(d, ops))
    BY <1>3, ForWhole, WholeWider
<1>4. CASE kind = "command"
    <2>1. PICK ops : ops = <<"lookup", "execute", "report", "trigger">>
        OBVIOUS
    <2>2. /\ ops \in Seq({"lookup", "execute", "report", "trigger"})
          /\ {"lookup", "execute", "report", "trigger"} \subseteq OrdinaryOps
          /\ {"lookup", "execute", "report", "trigger"} \cap Ties = {}
        BY <2>1 DEF OrdinaryOps, UserOps, HookOps, MainOps, Ties, Inner
    <2>3. Whole(OrdinaryOps, For(d, ops))
        BY <2>2, <1>3
    <2>4. processAction(kind, d) = For(d, <<"lookup", "execute", "report", "trigger">>)
        BY <1>4 DEF processAction
    <2>5. QED
        BY <2>1, <2>3, <2>4
<1>5. CASE kind = "load"
    <2>1. processAction(kind, d) = For(d, <<"config">>) \o createNewDevice(d)
        BY <1>5 DEF processAction
    <2>2. QED
        BY <2>1, <1>1, <1>2, ConcatWhole
<1>6. CASE kind = "close"
    BY <1>6, <1>1 DEF processAction
<1>7. CASE kind = "reload"
    <2>1. processAction(kind, d) = For(d, <<"find", "snapshot">>) \o closeDevice(d)
              \o For(d, <<"config">>) \o createNewDevice(d) \o For(d, <<"findNew", "loadSaved">>)
        BY <1>7 DEF processAction
    <2>2. Whole(OrdinaryOps, For(d, <<"find", "snapshot">>))
        <3>1. PICK ops : ops = <<"find", "snapshot">>
            OBVIOUS
        <3>2. /\ ops \in Seq({"find", "snapshot"}) /\ {"find", "snapshot"} \subseteq OrdinaryOps
              /\ {"find", "snapshot"} \cap Ties = {}
            BY <3>1 DEF OrdinaryOps, UserOps, Ties, Inner
        <3>3. QED
            BY <3>1, <3>2, <1>3
    <2>3. Whole(OrdinaryOps, For(d, <<"findNew", "loadSaved">>))
        <3>1. PICK ops : ops = <<"findNew", "loadSaved">>
            OBVIOUS
        <3>2. /\ ops \in Seq({"findNew", "loadSaved"}) /\ {"findNew", "loadSaved"} \subseteq OrdinaryOps
              /\ {"findNew", "loadSaved"} \cap Ties = {}
            BY <3>1 DEF OrdinaryOps, UserOps, Ties, Inner
        <3>3. QED
            BY <3>1, <3>2, <1>3
    <2>4. Whole(OrdinaryOps, For(d, <<"find", "snapshot">>) \o closeDevice(d))
        BY <2>2, <1>1, ConcatWhole
    <2>5. Whole(OrdinaryOps, For(d, <<"find", "snapshot">>) \o closeDevice(d) \o For(d, <<"config">>))
        BY <2>4, <1>2, ConcatWhole
    <2>6. Whole(OrdinaryOps, For(d, <<"find", "snapshot">>) \o closeDevice(d)
                            \o For(d, <<"config">>) \o createNewDevice(d))
        BY <2>5, <1>1, ConcatWhole
    <2>7. QED
        BY <2>1, <2>3, <2>6, ConcatWhole
<1>8. CASE kind = "save"
    BY <1>8, <1>1 DEF processAction
<1>9. QED
    BY <1>4, <1>5, <1>6, <1>7, <1>8

\* The steps of every processor action.
LEMMA ActionWhole ==
    ASSUME NEW kind \in Kinds, NEW d \in Devices
    PROVE  Whole(UserOps, processAction(kind, d))
<1>1. /\ Whole(UserOps, save) /\ Whole(UserOps, closeAllDevices) /\ Whole(UserOps, shutdown)
      /\ Whole(UserOps, createNewDevice(d))
    <2>1. /\ SaveOps \subseteq UserOps /\ CloseAllOps \subseteq UserOps
          /\ ShutdownOps \subseteq UserOps /\ CreateOps \subseteq UserOps
        BY DEF SaveOps, CloseAllOps, CloseOps, ShutdownOps, CreateOps, UserOps, HookOps, MainOps
    <2>2. QED
        BY <2>1, SaveWhole, CloseAllDevicesWhole, ShutdownWhole, CreateWhole, WholeWider
<1>2. CASE kind = "reload_all"
    <2>1. processAction(kind, d) = save \o closeAllDevices \o For(d, <<"loadStates", "config">>)
                                       \o createNewDevice(d)
        BY <1>2 DEF processAction
    <2>2. Whole(UserOps, For(d, <<"loadStates", "config">>))
        <3>1. PICK ops : ops = <<"loadStates", "config">>
            OBVIOUS
        <3>2. /\ ops \in Seq({"loadStates", "config"}) /\ {"loadStates", "config"} \subseteq UserOps
              /\ {"loadStates", "config"} \cap Ties = {}
            BY <3>1 DEF UserOps, MainOps, Ties, Inner
        <3>3. Whole({"loadStates", "config"}, For(d, ops))
            BY <3>2, ForWhole
        <3>4. QED
            BY <3>1, <3>2, <3>3, WholeWider
    <2>3. Whole(UserOps, save \o closeAllDevices)
        BY <1>1, ConcatWhole
    <2>4. Whole(UserOps, save \o closeAllDevices \o For(d, <<"loadStates", "config">>))
        BY <2>2, <2>3, ConcatWhole
    <2>5. QED
        BY <2>1, <2>4, <1>1, ConcatWhole
<1>3. CASE kind = "shutdown"
    BY <1>3, <1>1 DEF processAction
<1>4. CASE kind \in {"command", "load", "close", "reload", "save"}
    <2>1. OrdinaryOps \subseteq UserOps
        BY DEF OrdinaryOps
    <2>2. QED
        BY <1>4, <2>1, OrdinaryWhole, WholeWider
<1>5. QED
    BY <1>2, <1>3, <1>4, LifecycleAssumption

\* A request's plan.
LEMMA RequestPlan ==
    ASSUME NEW u \in Users, NEW kind \in Kinds, NEW d \in Devices
    PROVE  /\ Plan(u, scheduleAction(kind, d)) /\ Whole(UserOps, scheduleAction(kind, d))
           /\ scheduleAction(kind, d) # <<>>
<1>1. Whole(UserOps, For(d, <<"isLocked">>))
    BY OneWhole DEF Ties, Inner, UserOps
<1>2. /\ Whole(UserOps, For(d, <<"setLock">>)) /\ For(d, <<"setLock">>) # <<>>
      /\ For(d, <<"setLock">>)[Len(For(d, <<"setLock">>))] = <<"setLock", d>>
    BY OneWhole DEF Ties, Inner, UserOps
<1>3. Whole(UserOps, For(d, <<"isLocked">>) \o processAction(kind, d))
    BY <1>1, ActionWhole, ConcatWhole
<1>4. PICK s : s = scheduleAction(kind, d)
    OBVIOUS
<1>5. Whole(UserOps, s) /\ s # <<>> /\ s[Len(s)] = <<"setLock", d>>
    BY <1>2, <1>3, <1>4, ConcatWhole DEF scheduleAction
<1>6. u \notin {"main", "db", "hook"}
    BY LifecycleAssumption
<1>7. QED
    BY <1>4, <1>5, <1>6 DEF Plan, Whole, OpsOf

-----------------------------------------------------------------------------
(* The inductive invariant.                                                *)

\* Every thread has a suffix of an operation's steps before it.
Plans == /\ todo \in [Threads -> Seq(AllOps \X Devices)]
         /\ \A t \in Threads : Plan(t, todo[t])

\* A user's thread that has something to do knows what it was asked for.
Asked == \A u \in Users : todo[u] # <<>> => value[u] \in States

\* At most one thread claims a device, and the device is then in no map.
Claims ==
    \A t \in Threads, d \in Devices : Claim(todo[t], d) =>
        /\ inc[t] \in 1 .. MaxMade /\ provisioner[d] = inc[t] /\ deviceMap[d] = 0
        /\ \A u \in Threads : Claim(todo[u], d) => u = t

\* The pin belongs to an incarnation that was built and is not closed.
Pins ==
    \A d \in Devices :
        /\ deviceMap[d] # 0 => provisioner[d] = deviceMap[d]
        /\ provisioner[d] <= made[d]
        /\ provisioner[d] # 0 => <<d, provisioner[d]>> \notin closed
        /\ \A n \in 1 .. MaxMade : <<d, n>> \in closed => n <= made[d]

LifecycleInv == LifecycleTypeOK /\ Plans /\ Asked /\ Claims /\ Pins

\* The invariant says that a mapped device is open and has the pin.
LEMMA InvOwnsPin == LifecycleInv => MappedOwnsPin
BY DEF LifecycleInv, Pins, MappedOwnsPin

\* How thread t goes on: its plan shrinks, and unless it claims a device now the others
\* and what they claim are as before.
GoesOn(t) ==
    /\ todo' \in [Threads -> Seq(AllOps \X Devices)]
    /\ \A u \in Threads : Plan(u, todo'[u])
    /\ \A u \in Threads \ {t}, d \in Devices : Claim(todo'[u], d) => Claim(todo[u], d)
    /\ \A u \in Users : todo'[u] # <<>> => todo[u] # <<>>

\* A change of one thread's plan to a plan.
LEMMA Replan ==
    ASSUME Plans, NEW t \in Threads, NEW s, Plan(t, s), todo[t] # <<>>, todo' = [todo EXCEPT ![t] = s]
    PROVE  GoesOn(t) /\ todo'[t] = s
<1>1. s \in Seq(AllOps \X Devices)
    <2>1. OpsOf(t) \X Devices \subseteq AllOps \X Devices
        BY DEF OpsOf, AllOps, HookOps, SaveOps
    <2>2. QED
        BY <2>1, SeqMonotonic DEF Plan
<1>2. todo' \in [Threads -> Seq(AllOps \X Devices)] /\ todo'[t] = s
    BY <1>1 DEF Plans
<1>3. \A u \in Threads \ {t} : todo'[u] = todo[u]
    BY DEF Plans
<1>4. QED
    BY <1>2, <1>3 DEF GoesOn, Plans

\* The ways in which a thread goes on.
LEMMA DoneGoesOn ==
    ASSUME Plans, NEW t \in Threads, NEW op, NEW d, At(t, op, d), Done(t)
    PROVE  /\ GoesOn(t) /\ todo'[t] = Tail(todo[t])
           /\ op \notin {"build", "remove"} => \A e \in Devices : ~ Claim(todo'[t], e)
<1>1. Plan(t, todo[t]) /\ todo[t] # <<>> /\ Head(todo[t]) = <<op, d>>
    BY DEF Plans, At
<1>2. Plan(t, Tail(todo[t]))
    BY <1>1, TailOfPlan
<1>3. GoesOn(t) /\ todo'[t] = Tail(todo[t])
    BY <1>1, <1>2, Replan DEF Done
<1>4. op \notin {"build", "remove"} => \A e \in Devices : ~ Claim(Tail(todo[t]), e)
    BY <1>1, NoClaimAfter
<1>5. QED
    BY <1>3, <1>4

\* A thread that throws goes on, and claims nothing.
LEMMA ThrowGoesOn ==
    ASSUME Plans, NEW t \in Threads, NEW op, NEW d, At(t, op, d), Throw(t)
    PROVE  GoesOn(t) /\ \A e \in Devices : ~ Claim(todo'[t], e)
BY EmptyPlan, Replan DEF At, Throw, Claim

\* A thread that skips steps goes on, and claims nothing.
LEMMA SkipGoesOn ==
    ASSUME Plans, NEW t \in Threads, NEW op, NEW d, At(t, op, d),
           NEW goal \in {"leave", "setLock", "halt"},
           \E i \in DOMAIN todo[t] : todo[t][i][1] = goal, SkipTo(t, goal)
    PROVE  GoesOn(t) /\ \A e \in Devices : ~ Claim(todo'[t], e)
<1>1. Plan(t, todo[t]) /\ todo[t] # <<>>
    BY DEF Plans, At
<1>2. /\ Plan(t, todo'[t]) /\ todo'[t] # <<>> /\ Head(todo'[t])[1] = goal
      /\ todo' = [todo EXCEPT ![t] = todo'[t]]
    BY <1>1, Skipped DEF Plans
<1>3. GoesOn(t)
    BY <1>1, <1>2, Replan
<1>4. QED
    BY <1>2, <1>3 DEF Claim

\* Whose step it may be.
LEMMA StepOf ==
    ASSUME Plans, NEW t \in Threads, NEW op, NEW d, At(t, op, d)
    PROVE  /\ op \in OpsOf(t) /\ d \in Devices
           /\ op \notin MainOps \cup HookOps => t \in Users
           /\ op = "testFlag" => t = "hook" \/ t \in Users
<1>1. /\ todo[t] \in Seq(OpsOf(t) \X Devices) /\ todo[t] # <<>>
      /\ Head(todo[t]) = <<op, d>>
    BY DEF Plans, Plan, At
<1>2. <<op, d>> \in OpsOf(t) \X Devices
    BY <1>1, HeadTailProperties
<1>3. "testFlag" \notin MainOps \cup SaveOps
    BY DEF MainOps, SaveOps
<1>4. SaveOps \subseteq HookOps
    BY DEF SaveOps, HookOps
<1>5. QED
    BY <1>2, <1>3, <1>4 DEF OpsOf, Threads

\* The steps that a plan skips to are in it.
LEMMA GoalAhead ==
    ASSUME Plans, NEW t \in Threads, NEW op, NEW d, At(t, op, d)
    PROVE  /\ t \in Users => \E i \in DOMAIN todo[t] : todo[t][i][1] = "setLock"
           /\ t = "hook" => \E i \in DOMAIN todo[t] : todo[t][i][1] = "halt"
           /\ op \in {"create", "build"} => \E i \in DOMAIN todo[t] : todo[t][i][1] = "leave"
<1> DEFINE s == todo[t]
<1>1. /\ Plan(t, s) /\ s # <<>> /\ Head(s) = <<op, d>> /\ s \in Seq(OpsOf(t) \X Devices)
      /\ DOMAIN s = 1 .. Len(s) /\ Head(s) = s[1] /\ 1 \in DOMAIN s
    BY LenProperties, TailOfPlan DEF Plans, Plan, At
<1>2. Len(s) \in DOMAIN s
    <2>1. PICK n \in Nat \ {0} : n = Len(s)
        BY <1>1, EmptySeq
    <2>2. n \in 1 .. n
        OBVIOUS
    <2>3. QED
        BY <2>1, <2>2, <1>1
<1>3. ASSUME NEW i \in DOMAIN s, s[i][1] = "create" PROVE i + 1 \in DOMAIN s /\ s[i + 1][1] = "build"
    BY <1>1, <1>3 DEF Plan, Chained, Tied
<1>4. ASSUME NEW i \in DOMAIN s, s[i][1] = "build" PROVE i + 1 \in DOMAIN s /\ s[i + 1][1] = "put"
    BY <1>1, <1>4 DEF Plan, Chained, Tied
<1>5. ASSUME NEW i \in DOMAIN s, s[i][1] = "put" PROVE i + 1 \in DOMAIN s /\ s[i + 1][1] = "restore"
    BY <1>1, <1>5 DEF Plan, Chained, Tied
<1>6. ASSUME NEW i \in DOMAIN s, s[i][1] = "restore" PROVE i + 1 \in DOMAIN s /\ s[i + 1][1] = "leave"
    BY <1>1, <1>6 DEF Plan, Chained, Tied
<1>7. op \in {"create", "build"} => \E i \in DOMAIN s : s[i][1] = "leave"
    BY <1>1, <1>3, <1>4, <1>5, <1>6
<1>8. QED
    BY <1>1, <1>2, <1>7 DEF Plan

\* A step that touches neither the map nor the pins, and after which the thread claims
\* nothing, keeps the claims.
LEMMA QuietKeeps ==
    ASSUME LifecycleInv, NEW t \in Threads, GoesOn(t), \A e \in Devices : ~ Claim(todo'[t], e),
           UNCHANGED mapVars, \A u \in Threads \ {t} : inc'[u] = inc[u],
           \A u \in Users : value'[u] = value[u] \/ value'[u] \in States
    PROVE  Plans' /\ Asked' /\ Claims' /\ Pins'
<1>1. Plans'
    BY DEF GoesOn, Plans
<1>2. Asked'
    BY DEF GoesOn, Asked, LifecycleInv
<1>3. Claims'
    BY DEF GoesOn, Claims, LifecycleInv, mapVars
<1>4. Pins'
    BY DEF Pins, LifecycleInv, mapVars
<1>5. QED
    BY <1>1, <1>2, <1>3, <1>4

\* The steps of requests.
LEMMA PassNodeKeeps ==
    ASSUME LifecycleInv, NEW t \in Threads, NEW d, PassNode(t, d) PROVE LifecycleInv'
<1>1. GoesOn(t) /\ \A e \in Devices : ~ Claim(todo'[t], e)
    BY DoneGoesOn DEF PassNode, LifecycleInv
<1>2. Plans' /\ Asked' /\ Claims' /\ Pins'
    BY <1>1, QuietKeeps DEF PassNode, localVars
<1>3. LifecycleTypeOK'
    BY DEF LifecycleInv, LifecycleTypeOK, PassNode, mapVars, stateVars, lockVars, localVars, rest
<1>4. QED
    BY <1>2, <1>3 DEF LifecycleInv

\* processAction finds its device or does nothing.
LEMMA LookupKeeps ==
    ASSUME LifecycleInv, NEW t \in Threads, NEW d, lookupDevice(t, d) PROVE LifecycleInv'
<1>1. Plans /\ At(t, "lookup", d)
    BY DEF LifecycleInv, lookupDevice
<1>2. d \in Devices /\ t \in Users
    BY <1>1, StepOf DEF MainOps, HookOps, SaveOps
<1>3. GoesOn(t) /\ \A e \in Devices : ~ Claim(todo'[t], e)
    <2>1. CASE Throw(t)
        BY <1>1, <2>1, ThrowGoesOn
    <2>2. CASE SkipTo(t, "setLock")
        BY <1>1, <1>2, <2>2, SkipGoesOn, GoalAhead
    <2>3. CASE Done(t)
        BY <1>1, <2>3, DoneGoesOn
    <2>4. QED
        BY <2>1, <2>2, <2>3 DEF lookupDevice
<1>4. Plans' /\ Asked' /\ Claims' /\ Pins'
    BY <1>3, QuietKeeps DEF lookupDevice, LifecycleInv, LifecycleTypeOK
<1>5. LifecycleTypeOK'
    BY <1>2 DEF LifecycleInv, LifecycleTypeOK, lookupDevice, mapVars, stateVars, lockVars, rest
<1>6. QED
    BY <1>4, <1>5 DEF LifecycleInv

\* execute keeps the invariant: it needs an open device, and changes its pin's state.
LEMMA ExecuteKeeps ==
    ASSUME LifecycleInv, NEW t \in Threads, NEW d, execute(t, d) PROVE LifecycleInv'
<1>1. Plans /\ At(t, "execute", d)
    BY DEF LifecycleInv, execute
<1>2. d \in Devices /\ t \in Users
    BY <1>1, StepOf DEF MainOps, HookOps, SaveOps
<1>3. GoesOn(t) /\ \A e \in Devices : ~ Claim(todo'[t], e)
    BY <1>1, ThrowGoesOn, DoneGoesOn DEF execute
<1>4. Plans' /\ Asked' /\ Claims' /\ Pins'
    BY <1>3, QuietKeeps DEF execute, localVars
<1>5. value[t] \in States
    BY <1>1, <1>2 DEF LifecycleInv, Asked, At
<1>6. pin' \in [Devices -> States] /\ monitor' \in [Built -> Threads \cup {None}]
    BY <1>5 DEF LifecycleInv, LifecycleTypeOK, execute, SetPin
<1>7. LifecycleTypeOK'
    BY <1>6 DEF LifecycleInv, LifecycleTypeOK, execute, mapVars, localVars, rest
<1>8. QED
    BY <1>4, <1>7 DEF LifecycleInv

\* update keeps the invariant: it stores the state in the cache.
LEMMA UpdateKeeps ==
    ASSUME LifecycleInv, NEW t \in Threads, NEW d, update(t, d) PROVE LifecycleInv'
<1>1. Plans /\ At(t, "report", d)
    BY DEF LifecycleInv, update
<1>2. d \in Devices
    BY <1>1, StepOf
<1>3. GoesOn(t) /\ \A e \in Devices : ~ Claim(todo'[t], e)
    BY <1>1, DoneGoesOn DEF update
<1>4. Plans' /\ Asked' /\ Claims' /\ Pins'
    BY <1>3, QuietKeeps DEF update, localVars
<1>5. LifecycleTypeOK'
    BY <1>2 DEF LifecycleInv, LifecycleTypeOK, update, mapVars, lockVars, localVars, rest
<1>6. QED
    BY <1>4, <1>5 DEF LifecycleInv

\* The end of a command keeps the invariant: its rules have passed isLocked, and it lets go of
\* the device's monitor.
LEMMA TriggerKeeps ==
    ASSUME LifecycleInv, NEW t \in Threads, NEW d, Trigger(t, d) PROVE LifecycleInv'
<1>1. Plans /\ At(t, "trigger", d)
    BY DEF LifecycleInv, Trigger
<1>2. GoesOn(t) /\ \A e \in Devices : ~ Claim(todo'[t], e)
    BY <1>1, DoneGoesOn DEF Trigger
<1>3. Plans' /\ Asked' /\ Claims' /\ Pins'
    BY <1>2, QuietKeeps DEF Trigger, localVars
<1>4. LifecycleTypeOK'
    BY DEF LifecycleInv, LifecycleTypeOK, Trigger, mapVars, stateVars, localVars, rest
<1>5. QED
    BY <1>3, <1>4 DEF LifecycleInv

\* The steps of createNewDevice.
LEMMA LoadDeviceKeeps ==
    ASSUME LifecycleInv, NEW t \in Threads, NEW d, loadDevice(t, d) PROVE LifecycleInv'
<1>1. Plans /\ At(t, "config", d)
    BY DEF LifecycleInv, loadDevice
<1>2. GoesOn(t) /\ \A e \in Devices : ~ Claim(todo'[t], e)
    BY <1>1, DoneGoesOn, ThrowGoesOn DEF loadDevice
<1>3. Plans' /\ Asked' /\ Claims' /\ Pins'
    BY <1>2, QuietKeeps DEF loadDevice, localVars
<1>4. LifecycleTypeOK'
    BY DEF LifecycleInv, LifecycleTypeOK, loadDevice, mapVars, stateVars, lockVars, localVars, rest
<1>5. QED
    BY <1>3, <1>4 DEF LifecycleInv

\* Entering createNewDevice keeps the invariant.
LEMMA CreateKeeps ==
    ASSUME LifecycleInv, NEW t \in Threads, NEW d, EnterCreate(t, d) PROVE LifecycleInv'
<1>1. Plans /\ At(t, "create", d)
    BY DEF LifecycleInv, EnterCreate
<1>2. GoesOn(t) /\ \A e \in Devices : ~ Claim(todo'[t], e)
    BY <1>1, DoneGoesOn, SkipGoesOn, GoalAhead DEF EnterCreate
<1>3. Plans' /\ Asked' /\ Claims' /\ Pins'
    BY <1>2, QuietKeeps DEF EnterCreate, localVars
<1>4. LifecycleTypeOK'
    BY DEF LifecycleInv, LifecycleTypeOK, EnterCreate, mapVars, stateVars, localVars, rest
<1>5. QED
    BY <1>3, <1>4 DEF LifecycleInv

\* loadSavedState keeps the invariant.
LEMMA RestoreKeeps ==
    ASSUME LifecycleInv, NEW t \in Threads, NEW d, loadSavedState(t, d) PROVE LifecycleInv'
<1>1. Plans /\ At(t, "restore", d)
    BY DEF LifecycleInv, loadSavedState
<1>2. d \in Devices
    BY <1>1, StepOf
<1>3. GoesOn(t) /\ \A e \in Devices : ~ Claim(todo'[t], e)
    BY <1>1, DoneGoesOn DEF loadSavedState
<1>4. Plans' /\ Asked' /\ Claims' /\ Pins'
    BY <1>3, QuietKeeps DEF loadSavedState, localVars
<1>5. pin' \in [Devices -> States] /\ databaseSavedStates' \in [Devices -> States \cup {None}]
    BY <1>2 DEF LifecycleInv, LifecycleTypeOK, loadSavedState, SetPin
<1>6. LifecycleTypeOK'
    BY <1>5 DEF LifecycleInv, LifecycleTypeOK, loadSavedState, mapVars, lockVars, localVars, rest
<1>7. QED
    BY <1>4, <1>6 DEF LifecycleInv

\* Leaving createNewDevice keeps the invariant: the node's monitor is free again.
LEMMA LeaveCreateKeeps ==
    ASSUME LifecycleInv, NEW t \in Threads, NEW d, LeaveCreate(t, d) PROVE LifecycleInv'
<1>1. Plans /\ At(t, "leave", d)
    BY DEF LifecycleInv, LeaveCreate
<1>2. GoesOn(t) /\ \A e \in Devices : ~ Claim(todo'[t], e)
    BY <1>1, DoneGoesOn DEF LeaveCreate
<1>3. Plans' /\ Asked' /\ Claims' /\ Pins'
    BY <1>2, QuietKeeps DEF LeaveCreate, localVars
<1>4. LifecycleTypeOK'
    BY DEF LifecycleInv, LifecycleTypeOK, LeaveCreate, mapVars, stateVars, localVars, rest
<1>5. QED
    BY <1>3, <1>4 DEF LifecycleInv

\* The steps of reloadDevice.
LEMMA FindKeeps ==
    ASSUME LifecycleInv, NEW t \in Threads, NEW d, Find(t, d) PROVE LifecycleInv'
<1>1. Plans /\ At(t, "find", d)
    BY DEF LifecycleInv, Find
<1>2. d \in Devices
    BY <1>1, StepOf
<1>3. GoesOn(t) /\ \A e \in Devices : ~ Claim(todo'[t], e)
    BY <1>1, <1>2, DoneGoesOn, ThrowGoesOn DEF Find
<1>4. Plans' /\ Asked' /\ Claims' /\ Pins'
    BY <1>2, <1>3, QuietKeeps DEF Find, LifecycleInv, LifecycleTypeOK
<1>5. LifecycleTypeOK'
    BY <1>2 DEF LifecycleInv, LifecycleTypeOK, Find, mapVars, stateVars, lockVars, rest
<1>6. QED
    BY <1>4, <1>5 DEF LifecycleInv

\* reloadDevice keeps the invariant as it takes the device's state.
LEMMA SnapshotKeeps ==
    ASSUME LifecycleInv, NEW t \in Threads, NEW d, getCurrentDeviceState(t, d) PROVE LifecycleInv'
<1>1. Plans /\ At(t, "snapshot", d)
    BY DEF LifecycleInv, getCurrentDeviceState
<1>2. d \in Devices
    BY <1>1, StepOf
<1>3. GoesOn(t) /\ \A e \in Devices : ~ Claim(todo'[t], e)
    BY <1>1, <1>2, DoneGoesOn DEF getCurrentDeviceState
<1>4. Plans' /\ Asked' /\ Claims' /\ Pins'
    BY <1>2, <1>3, QuietKeeps DEF getCurrentDeviceState, LifecycleInv, LifecycleTypeOK
<1>5. LifecycleTypeOK'
    BY <1>2 DEF LifecycleInv, LifecycleTypeOK, getCurrentDeviceState, mapVars, stateVars, lockVars, rest
<1>6. QED
    BY <1>4, <1>5 DEF LifecycleInv

\* reloadDevice keeps the invariant as it looks the new device up.
LEMMA FindNewKeeps ==
    ASSUME LifecycleInv, NEW t \in Threads, NEW d, FindNew(t, d) PROVE LifecycleInv'
<1>1. Plans /\ At(t, "findNew", d)
    BY DEF LifecycleInv, FindNew
<1>2. d \in Devices /\ t \in Users
    BY <1>1, StepOf DEF MainOps, HookOps, SaveOps
<1>3. GoesOn(t) /\ \A e \in Devices : ~ Claim(todo'[t], e)
    BY <1>1, <1>2, DoneGoesOn, SkipGoesOn, GoalAhead DEF FindNew
<1>4. Plans' /\ Asked' /\ Claims' /\ Pins'
    BY <1>2, <1>3, QuietKeeps DEF FindNew, LifecycleInv, LifecycleTypeOK
<1>5. LifecycleTypeOK'
    BY <1>2 DEF LifecycleInv, LifecycleTypeOK, FindNew, mapVars, stateVars, lockVars, rest
<1>6. QED
    BY <1>4, <1>5 DEF LifecycleInv

\* loadSavedData keeps the invariant.
LEMMA LoadSavedKeeps ==
    ASSUME LifecycleInv, NEW t \in Threads, NEW d, loadSavedData(t, d) PROVE LifecycleInv'
<1>1. Plans /\ At(t, "loadSaved", d)
    BY DEF LifecycleInv, loadSavedData
<1>2. d \in Devices /\ t \in Users
    BY <1>1, StepOf DEF MainOps, HookOps, SaveOps
<1>3. GoesOn(t) /\ \A e \in Devices : ~ Claim(todo'[t], e)
    BY <1>1, <1>2, DoneGoesOn DEF loadSavedData
<1>4. Plans' /\ Asked' /\ Claims' /\ Pins'
    BY <1>2, <1>3, QuietKeeps DEF loadSavedData, localVars
<1>7. value[t] \in States
    BY <1>1, <1>2 DEF LifecycleInv, Asked, At
<1>8. pin' \in [Devices -> States]
    BY <1>2, <1>7 DEF LifecycleInv, LifecycleTypeOK, loadSavedData, SetPin
<1>5. LifecycleTypeOK'
    BY <1>2, <1>8 DEF LifecycleInv, LifecycleTypeOK, loadSavedData, mapVars, lockVars, localVars, rest
<1>6. QED
    BY <1>4, <1>5 DEF LifecycleInv

\* The steps of saving and of reading the saved states.
LEMMA CollectKeeps ==
    ASSUME LifecycleInv, NEW t \in Threads, NEW d, Collect(t, d) PROVE LifecycleInv'
<1>1. Plans /\ At(t, "collect", d)
    BY DEF LifecycleInv, Collect
<1>2. d \in Devices
    BY <1>1, StepOf
<1>3. GoesOn(t) /\ \A e \in Devices : ~ Claim(todo'[t], e)
    BY <1>1, <1>2, DoneGoesOn DEF Collect
<1>4. Plans' /\ Asked' /\ Claims' /\ Pins'
    BY <1>2, <1>3, QuietKeeps DEF Collect, LifecycleInv, LifecycleTypeOK
<1>7. list' \in [Threads -> [Devices -> States \cup {None}]]
    BY <1>2 DEF LifecycleInv, LifecycleTypeOK, Collect
<1>5. LifecycleTypeOK'
    BY <1>2, <1>7 DEF LifecycleInv, LifecycleTypeOK, Collect, mapVars, stateVars, lockVars, rest
<1>6. QED
    BY <1>4, <1>5 DEF LifecycleInv

\* Writing the saved states keeps the invariant.
LEMMA WriteKeeps ==
    ASSUME LifecycleInv, NEW t \in Threads, NEW d, Write(t, d) PROVE LifecycleInv'
<1>1. Plans /\ At(t, "write", d)
    BY DEF LifecycleInv, Write
<1>2. d \in Devices
    BY <1>1, StepOf
<1>3. GoesOn(t) /\ \A e \in Devices : ~ Claim(todo'[t], e)
    BY <1>1, <1>2, DoneGoesOn DEF Write
<1>4. Plans' /\ Asked' /\ Claims' /\ Pins'
    BY <1>2, <1>3, QuietKeeps DEF Write, LifecycleInv, LifecycleTypeOK
<1>5. LifecycleTypeOK'
    BY <1>2 DEF LifecycleInv, LifecycleTypeOK, Write, mapVars, lockVars, rest
<1>6. QED
    BY <1>4, <1>5 DEF LifecycleInv

\* Reading the saved states keeps the invariant.
LEMMA LoadStatesKeeps ==
    ASSUME LifecycleInv, NEW t \in Threads, NEW d, loadDeviceStatesIntoDatabaseCache(t, d) PROVE LifecycleInv'
<1>1. Plans /\ At(t, "loadStates", d)
    BY DEF LifecycleInv, loadDeviceStatesIntoDatabaseCache
<1>2. d \in Devices
    BY <1>1, StepOf
<1>3. GoesOn(t) /\ \A e \in Devices : ~ Claim(todo'[t], e)
    BY <1>1, <1>2, DoneGoesOn DEF loadDeviceStatesIntoDatabaseCache
<1>4. Plans' /\ Asked' /\ Claims' /\ Pins'
    BY <1>2, <1>3, QuietKeeps DEF loadDeviceStatesIntoDatabaseCache, localVars
<1>5. LifecycleTypeOK'
    BY <1>2 DEF LifecycleInv, LifecycleTypeOK, loadDeviceStatesIntoDatabaseCache, mapVars, lockVars, localVars, rest
<1>6. QED
    BY <1>4, <1>5 DEF LifecycleInv

\* The steps of shutdown.
LEMMA TestFlagKeeps ==
    ASSUME LifecycleInv, NEW t \in Threads, NEW d, TestFlag(t, d) PROVE LifecycleInv'
<1>1. Plans /\ At(t, "testFlag", d)
    BY DEF LifecycleInv, TestFlag
<1>2. d \in Devices
    BY <1>1, StepOf
<1>3. GoesOn(t) /\ \A e \in Devices : ~ Claim(todo'[t], e)
    BY <1>1, <1>2, StepOf, DoneGoesOn, SkipGoesOn, GoalAhead DEF TestFlag
<1>4. Plans' /\ Asked' /\ Claims' /\ Pins'
    BY <1>2, <1>3, QuietKeeps DEF TestFlag, localVars
<1>5. LifecycleTypeOK'
    BY <1>2 DEF LifecycleInv, LifecycleTypeOK, TestFlag, mapVars, stateVars, lockVars, localVars, rest
<1>6. QED
    BY <1>4, <1>5 DEF LifecycleInv

\* Setting shutdownProcessor keeps the invariant.
LEMMA SetFlagKeeps ==
    ASSUME LifecycleInv, NEW t \in Threads, NEW d, SetFlag(t, d) PROVE LifecycleInv'
<1>1. Plans /\ At(t, "setFlag", d)
    BY DEF LifecycleInv, SetFlag
<1>2. d \in Devices
    BY <1>1, StepOf
<1>3. GoesOn(t) /\ \A e \in Devices : ~ Claim(todo'[t], e)
    BY <1>1, <1>2, DoneGoesOn DEF SetFlag
<1>4. Plans' /\ Asked' /\ Claims' /\ Pins'
    BY <1>2, <1>3, QuietKeeps DEF SetFlag, localVars
<1>5. LifecycleTypeOK'
    BY <1>2 DEF LifecycleInv, LifecycleTypeOK, SetFlag, mapVars, stateVars, lockVars, localVars
<1>6. QED
    BY <1>4, <1>5 DEF LifecycleInv

\* The notification keeps the invariant: main goes on with its exit.
LEMMA NotifyKeeps ==
    ASSUME LifecycleInv, NEW t \in Threads, NEW d, Notify(t, d) PROVE LifecycleInv'
<1>1. Plans /\ At(t, "notify", d) /\ Plan(t, todo[t])
    BY DEF LifecycleInv, Notify, Plans
<1>2. Plan(t, Tail(todo[t])) /\ \A e \in Devices : ~ Claim(Tail(todo[t]), e)
    BY <1>1, TailOfPlan, NoClaimAfter DEF At
<1>3. Plan("main", For(First, <<"exit">>)) /\ \A e : ~ Claim(For(First, <<"exit">>), e)
    <2>1. Whole(MainOps, For(First, <<"exit">>))
        BY OneWhole, FirstIsDevice DEF Ties, Inner, MainOps
    <2>2. For(First, <<"exit">>) = <<<<"exit", First>>>>
        BY DEF For
    <2>3. "main" \notin Users
        BY LifecycleAssumption
    <2>4. QED
        BY <2>1, <2>2, <2>3 DEF Plan, Whole, OpsOf, Claim
<1>4. ASSUME NEW u \in Threads PROVE Plan(u, todo'[u]) /\ todo'[u] \in Seq(AllOps \X Devices)
    <2>1. Plan(u, todo'[u])
        BY <1>1, <1>2, <1>3 DEF Notify, Plans
    <2>2. OpsOf(u) \X Devices \subseteq AllOps \X Devices
        BY DEF OpsOf, AllOps, HookOps, SaveOps
    <2>3. QED
        BY <2>1, <2>2, SeqMonotonic DEF Plan
<1>5. \A u \in Threads \ {t}, e \in Devices : Claim(todo'[u], e) => Claim(todo[u], e)
    BY <1>3 DEF Notify
<1>6. \A u \in Users : todo'[u] # <<>> => todo[u] # <<>>
    BY <1>1, LifecycleAssumption DEF Notify, At, Threads
<1>7. todo' \in [Threads -> Seq(AllOps \X Devices)]
    BY <1>4 DEF Notify
<1>8. GoesOn(t) /\ \A e \in Devices : ~ Claim(todo'[t], e)
    BY <1>2, <1>4, <1>5, <1>6, <1>7 DEF Notify, GoesOn
<1>9. Plans' /\ Asked' /\ Claims' /\ Pins'
    BY <1>8, QuietKeeps DEF Notify, localVars
<1>10. LifecycleTypeOK'
    BY DEF LifecycleInv, LifecycleTypeOK, Notify, mapVars, stateVars, lockVars, localVars, rest
<1>11. QED
    BY <1>9, <1>10 DEF LifecycleInv

\* The steps that claim a device and that let go of it.
LEMMA BuildKeeps ==
    ASSUME LifecycleInv, NEW t \in Threads, NEW d, buildDevice(t, d) PROVE LifecycleInv'
<1>1. Plans /\ At(t, "build", d) /\ LifecycleTypeOK
    BY DEF LifecycleInv, buildDevice
<1>2. d \in Devices
    BY <1>1, StepOf
<1>3. CASE provisioner[d] # 0
    <2>1. GoesOn(t) /\ \A e \in Devices : ~ Claim(todo'[t], e)
        BY <1>1, <1>3, SkipGoesOn, GoalAhead DEF buildDevice
    <2>2. Plans' /\ Asked' /\ Claims' /\ Pins'
        BY <1>3, <2>1, QuietKeeps DEF buildDevice, mapVars
    <2>3. LifecycleTypeOK'
        BY <1>1, <1>3 DEF LifecycleTypeOK, buildDevice, lockVars, rest
    <2>4. QED
        BY <2>2, <2>3 DEF LifecycleInv
<1>4. CASE provisioner[d] = 0
    <2>1. /\ made[d] \in 0 .. MaxMade /\ made[d] + 1 \in 1 .. MaxMade /\ made[d] + 1 # 0
          /\ made' = [made EXCEPT ![d] = made[d] + 1]
          /\ provisioner' = [provisioner EXCEPT ![d] = made[d] + 1]
          /\ inc' = [inc EXCEPT ![t] = made[d] + 1]
          /\ UNCHANGED <<deviceMap, closed, value>> /\ Done(t)
        BY <1>1, <1>2, <1>4, LifecycleAssumption DEF LifecycleTypeOK, buildDevice
    <2>2. GoesOn(t) /\ todo'[t] = Tail(todo[t])
        BY <1>1, <2>1, DoneGoesOn
    <2>3. todo'[t] # <<>> /\ Head(todo'[t]) = <<"put", d>>
        BY <1>1, <1>2, <2>2, ClaimAfter DEF Plans, At
    <2>4. deviceMap[d] = 0 /\ \A u \in Threads : ~ Claim(todo[u], d)
        <3>1. deviceMap[d] # 0 => provisioner[d] = deviceMap[d]
            BY <1>2 DEF LifecycleInv, Pins
        <3>2. \A u \in Threads : Claim(todo[u], d) => inc[u] \in 1 .. MaxMade /\ provisioner[d] = inc[u]
            BY <1>2 DEF LifecycleInv, Claims
        <3>3. 0 \notin 1 .. MaxMade
            BY LifecycleAssumption
        <3>4. QED
            BY <1>4, <3>1, <3>2, <3>3
    <2>5. Plans' /\ Asked'
        BY <2>1, <2>2 DEF GoesOn, Plans, Asked, LifecycleInv
    <2>6. Claims'
        <3>1. SUFFICES ASSUME NEW u \in Threads, NEW e \in Devices, Claim(todo'[u], e)
                       PROVE  /\ inc'[u] \in 1 .. MaxMade /\ provisioner'[e] = inc'[u] /\ deviceMap'[e] = 0
                              /\ \A w \in Threads : Claim(todo'[w], e) => w = u
            BY DEF Claims
        <3>2. CASE u = t
            <4>1. e = d
                BY <2>3, <3>1, <3>2 DEF Claim
            <4>2. \A w \in Threads \ {t} : ~ Claim(todo'[w], d)
                BY <1>2, <2>2, <2>4 DEF GoesOn
            <4>3. QED
                BY <1>1, <1>2, <2>1, <2>4, <3>2, <4>1, <4>2 DEF LifecycleTypeOK
        <3>3. CASE u # t
            <4>1. Claim(todo[u], e)
                BY <2>2, <3>1, <3>3 DEF GoesOn
            <4>2. e # d
                BY <2>4, <4>1
            <4>3. ~ Claim(todo'[t], e)
                BY <2>3, <4>2 DEF Claim
            <4>4. /\ inc'[u] = inc[u] /\ provisioner'[e] = provisioner[e] /\ deviceMap'[e] = deviceMap[e]
                BY <1>1, <2>1, <3>3, <4>2 DEF LifecycleTypeOK
            <4>5. QED
                BY <2>2, <4>1, <4>3, <4>4 DEF LifecycleInv, Claims, GoesOn
        <3>4. QED
            BY <3>2, <3>3
    <2>7. Pins'
        <3>1. SUFFICES ASSUME NEW e \in Devices
                       PROVE  /\ deviceMap'[e] # 0 => provisioner'[e] = deviceMap'[e]
                              /\ provisioner'[e] <= made'[e]
                              /\ provisioner'[e] # 0 => <<e, provisioner'[e]>> \notin closed'
                              /\ \A n \in 1 .. MaxMade : <<e, n>> \in closed' => n <= made'[e]
            BY DEF Pins
        <3>2. CASE e = d
            <4>1. made'[d] = made[d] + 1 /\ provisioner'[d] = made[d] + 1 /\ deviceMap'[d] = 0
                BY <1>1, <1>2, <2>1, <2>4 DEF LifecycleTypeOK
            <4>2. \A n \in 1 .. MaxMade : <<d, n>> \in closed => n <= made[d]
                BY <1>2 DEF LifecycleInv, Pins
            <4>3. \A n \in 1 .. MaxMade : n <= made[d] => n <= made[d] + 1 /\ n # made[d] + 1
                BY <2>1
            <4>4. QED
                BY <2>1, <3>2, <4>1, <4>2, <4>3
        <3>3. CASE e # d
            <4>1. /\ made'[e] = made[e] /\ provisioner'[e] = provisioner[e] /\ deviceMap'[e] = deviceMap[e]
                  /\ closed' = closed
                BY <1>1, <2>1, <3>3 DEF LifecycleTypeOK
            <4>2. QED
                BY <4>1 DEF LifecycleInv, Pins
        <3>4. QED
            BY <3>2, <3>3
    <2>8. LifecycleTypeOK'
        <3>1. /\ made' \in [Devices -> 0 .. MaxMade] /\ provisioner' \in [Devices -> 0 .. MaxMade]
              /\ inc' \in [Threads -> 0 .. MaxMade]
            <4>1. made[d] + 1 \in 0 .. MaxMade
                BY <2>1, LifecycleAssumption
            <4>2. /\ made \in [Devices -> 0 .. MaxMade] /\ provisioner \in [Devices -> 0 .. MaxMade]
                  /\ inc \in [Threads -> 0 .. MaxMade]
                BY <1>1 DEF LifecycleTypeOK
            <4>3. QED
                BY <2>1, <4>1, <4>2
        <3>2. pin' \in [Devices -> States]
            BY <1>1, <1>4 DEF LifecycleTypeOK, buildDevice, States
        <3>3. QED
            BY <1>1, <3>1, <3>2 DEF LifecycleTypeOK, buildDevice, lockVars, rest
    <2>9. QED
        BY <2>5, <2>6, <2>7, <2>8 DEF LifecycleInv
<1>5. QED
    BY <1>3, <1>4

\* addDevice keeps the invariant: the claim on the device becomes its place in the map.
LEMMA AddKeeps ==
    ASSUME LifecycleInv, NEW t \in Threads, NEW d, addDevice(t, d) PROVE LifecycleInv'
<1>1. Plans /\ At(t, "put", d) /\ LifecycleTypeOK
    BY DEF LifecycleInv, addDevice
<1>2. d \in Devices
    BY <1>1, StepOf
<1>3. GoesOn(t) /\ \A e \in Devices : ~ Claim(todo'[t], e)
    BY <1>1, DoneGoesOn DEF addDevice
<1>4. Claim(todo[t], d)
    BY <1>1 DEF At, Claim
<1>5. inc[t] \in 1 .. MaxMade /\ provisioner[d] = inc[t] /\ \A u \in Threads : Claim(todo[u], d) => u = t
    BY <1>2, <1>4 DEF LifecycleInv, Claims
<1>6. /\ deviceMap' = [deviceMap EXCEPT ![d] = inc[t]]
      /\ UNCHANGED <<made, closed, provisioner, inc, value, list>>
    BY DEF addDevice, localVars
<1>7. Plans' /\ Asked'
    BY <1>3, <1>6 DEF GoesOn, Plans, Asked, LifecycleInv
<1>8. Claims'
    <2>1. SUFFICES ASSUME NEW u \in Threads, NEW e \in Devices, Claim(todo'[u], e)
                   PROVE  /\ inc'[u] \in 1 .. MaxMade /\ provisioner'[e] = inc'[u] /\ deviceMap'[e] = 0
                          /\ \A w \in Threads : Claim(todo'[w], e) => w = u
        BY DEF Claims
    <2>2. u # t /\ Claim(todo[u], e)
        BY <1>3, <2>1 DEF GoesOn
    <2>3. e # d
        BY <1>5, <2>2
    <2>4. deviceMap'[e] = deviceMap[e]
        BY <1>1, <1>6, <2>3 DEF LifecycleTypeOK
    <2>5. \A w \in Threads : Claim(todo'[w], e) => w = u
        BY <1>3, <2>2 DEF LifecycleInv, Claims, GoesOn
    <2>6. QED
        BY <1>6, <2>2, <2>4, <2>5 DEF LifecycleInv, Claims
<1>9. Pins'
    <2>1. deviceMap'[d] = inc[t] /\ \A e \in Devices \ {d} : deviceMap'[e] = deviceMap[e]
        BY <1>1, <1>2, <1>6 DEF LifecycleTypeOK
    <2>2. QED
        BY <1>5, <1>6, <2>1 DEF LifecycleInv, Pins
<1>10. LifecycleTypeOK'
    <2>1. deviceMap' \in [Devices -> 0 .. MaxMade]
        BY <1>1, <1>5, <1>6 DEF LifecycleTypeOK
    <2>2. QED
        BY <1>1, <1>6, <2>1 DEF LifecycleTypeOK, addDevice, stateVars, lockVars, rest
<1>11. QED
    BY <1>7, <1>8, <1>9, <1>10 DEF LifecycleInv

\* closeDevice keeps the invariant as it takes the device out: its place becomes a claim.
LEMMA RemoveKeeps ==
    ASSUME LifecycleInv, NEW t \in Threads, NEW d, removeDevice(t, d) PROVE LifecycleInv'
<1>1. Plans /\ At(t, "remove", d) /\ LifecycleTypeOK /\ Plan(t, todo[t])
    BY DEF LifecycleInv, removeDevice, Plans
<1>2. d \in Devices
    BY <1>1, StepOf
<1>3. Tail(todo[t]) # <<>> /\ Head(Tail(todo[t])) = <<"tearDown", d>> /\ Plan(t, Tail(todo[t]))
    BY <1>1, <1>2, ClaimAfter, TailOfPlan DEF At
<1>4. /\ inc' = [inc EXCEPT ![t] = deviceMap[d]] /\ deviceMap' = [deviceMap EXCEPT ![d] = 0]
      /\ UNCHANGED <<made, closed, provisioner, value, list>>
    BY DEF removeDevice
<1>5. /\ deviceMap'[d] = 0 /\ \A e \in Devices \ {d} : deviceMap'[e] = deviceMap[e]
      /\ inc'[t] = deviceMap[d] /\ \A u \in Threads \ {t} : inc'[u] = inc[u]
      /\ deviceMap[d] \in 0 .. MaxMade
    BY <1>1, <1>2, <1>4 DEF LifecycleTypeOK
<1>6. Pins'
    BY <1>4, <1>5 DEF LifecycleInv, Pins
<1>7. LifecycleTypeOK'
    <2>1. deviceMap' \in [Devices -> 0 .. MaxMade] /\ inc' \in [Threads -> 0 .. MaxMade]
        <3>1. 0 \in 0 .. MaxMade
            BY LifecycleAssumption
        <3>2. QED
            BY <1>1, <1>4, <1>5, <3>1 DEF LifecycleTypeOK
    <2>2. QED
        BY <1>1, <1>4, <2>1 DEF LifecycleTypeOK, removeDevice, stateVars, lockVars, rest
<1>8. CASE deviceMap[d] = 0
    <2>1. todo' = [todo EXCEPT ![t] = Tail(Tail(todo[t]))]
        BY <1>8 DEF removeDevice
    <2>2. Plan(t, Tail(Tail(todo[t]))) /\ \A e \in Devices : ~ Claim(Tail(Tail(todo[t])), e)
        <3>1. PICK r : r = Tail(todo[t])
            OBVIOUS
        <3>2. Plan(t, r) /\ r # <<>> /\ Head(r) = <<"tearDown", d>>
            BY <1>3, <3>1
        <3>3. Plan(t, Tail(r)) /\ \A e \in Devices : ~ Claim(Tail(r), e)
            BY <3>2, TailOfPlan, NoClaimAfter
        <3>4. QED
            BY <3>1, <3>3
    <2>3. GoesOn(t) /\ \A e \in Devices : ~ Claim(todo'[t], e)
        BY <1>1, <2>1, <2>2, Replan DEF At
    <2>4. deviceMap' = deviceMap
        BY <1>1, <1>4, <1>8 DEF LifecycleTypeOK
    <2>5. Plans' /\ Asked' /\ Claims'
        BY <1>4, <1>5, <2>3, <2>4, QuietKeeps DEF mapVars
    <2>6. QED
        BY <1>6, <1>7, <2>5 DEF LifecycleInv
<1>9. CASE deviceMap[d] # 0
    <2>1. GoesOn(t) /\ todo'[t] = Tail(todo[t])
        BY <1>1, <1>9, DoneGoesOn DEF removeDevice
    <2>2. \A e \in Devices : Claim(todo'[t], e) => e = d
        BY <1>3, <2>1 DEF Claim
    <2>3. provisioner[d] = deviceMap[d] /\ \A u \in Threads : ~ Claim(todo[u], d)
        BY <1>2, <1>9 DEF LifecycleInv, Pins, Claims
    <2>4. Plans' /\ Asked'
        BY <1>4, <2>1 DEF GoesOn, Plans, Asked, LifecycleInv
    <2>5. Claims'
        <3>1. SUFFICES ASSUME NEW u \in Threads, NEW e \in Devices, Claim(todo'[u], e)
                       PROVE  /\ inc'[u] \in 1 .. MaxMade /\ provisioner'[e] = inc'[u] /\ deviceMap'[e] = 0
                              /\ \A w \in Threads : Claim(todo'[w], e) => w = u
            BY DEF Claims
        <3>2. CASE u = t
            <4>1. e = d
                BY <2>2, <3>1, <3>2
            <4>2. \A w \in Threads \ {t} : ~ Claim(todo'[w], d)
                BY <1>2, <2>1, <2>3 DEF GoesOn
            <4>3. QED
                BY <1>4, <1>5, <1>9, <2>3, <3>2, <4>1, <4>2
        <3>3. CASE u # t
            <4>1. Claim(todo[u], e)
                BY <2>1, <3>1, <3>3 DEF GoesOn
            <4>2. e # d
                BY <2>3, <4>1
            <4>3. ~ Claim(todo'[t], e)
                BY <2>2, <4>2
            <4>4. QED
                BY <1>4, <1>5, <2>1, <3>3, <4>1, <4>2, <4>3 DEF LifecycleInv, Claims, GoesOn
        <3>4. QED
            BY <3>2, <3>3
    <2>6. QED
        BY <1>6, <1>7, <2>4, <2>5 DEF LifecycleInv
<1>10. QED
    BY <1>8, <1>9

\* close keeps the invariant: the claim ends with the incarnation, and the pin is free.
LEMMA CloseKeeps ==
    ASSUME LifecycleInv, NEW t \in Threads, NEW d, close(t, d) PROVE LifecycleInv'
<1>1. Plans /\ At(t, "tearDown", d) /\ LifecycleTypeOK
    BY DEF LifecycleInv, close
<1>2. d \in Devices
    BY <1>1, StepOf
<1>3. GoesOn(t) /\ \A e \in Devices : ~ Claim(todo'[t], e)
    BY <1>1, DoneGoesOn DEF close
<1>4. Claim(todo[t], d)
    BY <1>1 DEF At, Claim
<1>5. /\ inc[t] \in 1 .. MaxMade /\ provisioner[d] = inc[t] /\ deviceMap[d] = 0
      /\ \A u \in Threads : Claim(todo[u], d) => u = t
    BY <1>2, <1>4 DEF LifecycleInv, Claims
<1>6. /\ closed' = closed \cup {<<d, inc[t]>>} /\ provisioner' = [provisioner EXCEPT ![d] = 0]
      /\ UNCHANGED <<deviceMap, made, inc, value, list>>
    BY DEF close, localVars
<1>7. provisioner'[d] = 0 /\ \A e \in Devices \ {d} : provisioner'[e] = provisioner[e]
    BY <1>1, <1>2, <1>6 DEF LifecycleTypeOK
<1>8. Plans' /\ Asked'
    BY <1>3, <1>6 DEF GoesOn, Plans, Asked, LifecycleInv
<1>9. Claims'
    <2>1. SUFFICES ASSUME NEW u \in Threads, NEW e \in Devices, Claim(todo'[u], e)
                   PROVE  /\ inc'[u] \in 1 .. MaxMade /\ provisioner'[e] = inc'[u] /\ deviceMap'[e] = 0
                          /\ \A w \in Threads : Claim(todo'[w], e) => w = u
        BY DEF Claims
    <2>2. u # t /\ Claim(todo[u], e)
        BY <1>3, <2>1 DEF GoesOn
    <2>3. e # d
        BY <1>5, <2>2
    <2>4. \A w \in Threads : Claim(todo'[w], e) => w = u
        BY <1>3, <2>2 DEF LifecycleInv, Claims, GoesOn
    <2>5. QED
        BY <1>6, <1>7, <2>2, <2>3, <2>4 DEF LifecycleInv, Claims
<1>10. Pins'
    <2>1. SUFFICES ASSUME NEW e \in Devices
                   PROVE  /\ deviceMap'[e] # 0 => provisioner'[e] = deviceMap'[e]
                          /\ provisioner'[e] <= made'[e]
                          /\ provisioner'[e] # 0 => <<e, provisioner'[e]>> \notin closed'
                          /\ \A n \in 1 .. MaxMade : <<e, n>> \in closed' => n <= made'[e]
        BY DEF Pins
    <2>2. CASE e = d
        <3>1. made[d] \in Nat /\ inc[t] <= made[d]
            <4>1. made[d] \in 0 .. MaxMade
                BY <1>1, <1>2 DEF LifecycleTypeOK
            <4>2. provisioner[d] <= made[d]
                BY <1>2 DEF LifecycleInv, Pins
            <4>3. QED
                BY <1>5, <4>1, <4>2, LifecycleAssumption
        <3>2. \A n \in 1 .. MaxMade : <<d, n>> \in closed' => n <= made[d]
            BY <1>2, <1>6, <3>1 DEF LifecycleInv, Pins
        <3>3. QED
            BY <1>5, <1>6, <1>7, <2>2, <3>1, <3>2
    <2>3. CASE e # d
        <3>1. \A n : <<e, n>> \in closed' <=> <<e, n>> \in closed
            BY <1>6, <2>3
        <3>2. QED
            BY <1>6, <1>7, <2>3, <3>1 DEF LifecycleInv, Pins
    <2>4. QED
        BY <2>2, <2>3
<1>11. LifecycleTypeOK'
    <2>1. closed' \subseteq Built
        BY <1>1, <1>2, <1>5, <1>6 DEF LifecycleTypeOK, Built
    <2>2. provisioner' \in [Devices -> 0 .. MaxMade]
        <3>1. 0 \in 0 .. MaxMade
            BY LifecycleAssumption
        <3>2. QED
            BY <1>1, <1>6, <3>1 DEF LifecycleTypeOK
    <2>3. pin' \in [Devices -> States]
        BY <1>1 DEF LifecycleTypeOK, close, SetPin, States
    <2>4. QED
        BY <1>1, <1>6, <2>1, <2>2, <2>3 DEF LifecycleTypeOK, close, lockVars, rest
<1>12. QED
    BY <1>8, <1>9, <1>10, <1>11 DEF LifecycleInv

\* Clearing the map keeps the invariant: fewer devices are mapped.
LEMMA ClearMapKeeps ==
    ASSUME LifecycleInv, NEW t \in Threads, NEW d, ClearMap(t, d) PROVE LifecycleInv'
<1>1. Plans /\ At(t, "clear", d) /\ LifecycleTypeOK
    BY DEF LifecycleInv, ClearMap
<1>2. GoesOn(t) /\ \A e \in Devices : ~ Claim(todo'[t], e)
    BY <1>1, DoneGoesOn DEF ClearMap
<1>3. deviceMap' = [e \in Devices |-> 0] /\ UNCHANGED <<made, closed, provisioner, inc, value, list>>
    BY DEF ClearMap, localVars
<1>4. Plans' /\ Asked'
    BY <1>2, <1>3 DEF GoesOn, Plans, Asked, LifecycleInv
<1>5. Claims'
    BY <1>2, <1>3 DEF GoesOn, Claims, LifecycleInv
<1>6. Pins'
    BY <1>3 DEF Pins, LifecycleInv
<1>7. LifecycleTypeOK'
    <2>1. deviceMap' \in [Devices -> 0 .. MaxMade]
        BY <1>3, LifecycleAssumption
    <2>2. QED
        BY <1>1, <1>3, <2>1 DEF LifecycleTypeOK, ClearMap, stateVars, lockVars, rest
<1>8. QED
    BY <1>4, <1>5, <1>6, <1>7 DEF LifecycleInv

\* A thread that had nothing to do is given a plan.
LEMMA Begins ==
    ASSUME Plans, Claims, NEW t \in Threads, NEW s, Plan(t, s), \A e \in Devices : ~ Claim(s, e),
           todo' = [todo EXCEPT ![t] = s], UNCHANGED <<mapVars, inc>>
    PROVE  Plans' /\ Claims' /\ \A u \in Threads \ {t} : todo'[u] = todo[u]
<1>1. s \in Seq(AllOps \X Devices)
    <2>1. OpsOf(t) \X Devices \subseteq AllOps \X Devices
        BY DEF OpsOf, AllOps, HookOps, SaveOps
    <2>2. QED
        BY <2>1, SeqMonotonic DEF Plan
<1>2. todo' \in [Threads -> Seq(AllOps \X Devices)] /\ todo'[t] = s
      /\ \A u \in Threads \ {t} : todo'[u] = todo[u]
    BY <1>1 DEF Plans
<1>3. Plans'
    BY <1>2 DEF Plans
<1>4. Claims'
    BY <1>2 DEF Claims, mapVars
<1>5. QED
    BY <1>2, <1>3, <1>4

\* No operation begins by claiming a device.
LEMMA NoClaimFirst ==
    ASSUME NEW O, NEW s, Whole(O, s), NEW d
    PROVE  ~ Claim(s, d)
<1>1. SUFFICES ASSUME Claim(s, d) PROVE FALSE
    OBVIOUS
<1>2. s # <<>> /\ Head(s) = s[1] /\ s[1][1] \in Inner
    BY <1>1 DEF Claim, Inner, Whole
<1>3. QED
    BY <1>2 DEF Whole

\* main waits.
LEMMA EnterWaitKeeps == ASSUME LifecycleInv, EnterWait PROVE LifecycleInv'
<1>1. Plans /\ At("main", "enterWait", First) /\ "main" \in Threads
    BY DEF LifecycleInv, EnterWait, Threads
<1>2. GoesOn("main") /\ \A e \in Devices : ~ Claim(todo'["main"], e)
    BY <1>1, DoneGoesOn DEF EnterWait
<1>3. Plans' /\ Asked' /\ Claims' /\ Pins'
    BY <1>1, <1>2, QuietKeeps DEF EnterWait, localVars
<1>4. LifecycleTypeOK'
    BY DEF LifecycleInv, LifecycleTypeOK, EnterWait, mapVars, stateVars, lockVars, localVars, rest
<1>5. QED
    BY <1>3, <1>4 DEF LifecycleInv

\* The hook claims nothing at its beginning.
LEMMA HookBegins == Plan("hook", hook) /\ \A e \in Devices : ~ Claim(hook, e)
BY HookPlan, NoClaimFirst

\* main exits, and the hook begins.
LEMMA SystemExitKeeps == ASSUME LifecycleInv, SystemExit PROVE LifecycleInv'
<1>1. /\ Plans /\ Claims /\ Asked /\ Pins
      /\ "main" \in Threads /\ "hook" \in Threads /\ "main" \notin Users /\ "hook" \notin Users
    BY LifecycleAssumption DEF LifecycleInv, Threads
<1>2. PICK s : s = IF todo["hook"] = <<>> THEN hook ELSE todo["hook"]
    OBVIOUS
<1>3. todo' = [[todo EXCEPT !["main"] = <<>>] EXCEPT !["hook"] = s]
    BY <1>1, <1>2 DEF SystemExit, Plans
<1>4. Plan("hook", s) /\ \A e \in Devices : Claim(s, e) => Claim(todo["hook"], e)
    BY <1>1, <1>2, HookBegins DEF Plans
<1>5. /\ todo'["main"] = <<>> /\ todo'["hook"] = s /\ DOMAIN todo' = Threads
      /\ \A u \in Threads \ {"main", "hook"} : todo'[u] = todo[u]
    BY <1>1, <1>3 DEF Plans
<1>6. Plans'
    <2>1. ASSUME NEW u \in Threads PROVE Plan(u, todo'[u]) /\ todo'[u] \in Seq(AllOps \X Devices)
        <3>1. Plan(u, todo'[u])
            BY <1>1, <1>4, <1>5, EmptyPlan DEF Plans
        <3>2. OpsOf(u) \X Devices \subseteq AllOps \X Devices
            BY DEF OpsOf, AllOps, HookOps, SaveOps
        <3>3. QED
            BY <3>1, <3>2, SeqMonotonic DEF Plan
    <2>2. todo' = [u \in Threads |-> todo'[u]]
        BY <1>1, <1>3 DEF Plans
    <2>3. QED
        BY <2>1, <2>2 DEF Plans
<1>7. \A u \in Threads, e \in Devices : Claim(todo'[u], e) => Claim(todo[u], e)
    BY <1>4, <1>5 DEF Claim
<1>8. Claims' /\ Asked' /\ Pins'
    BY <1>1, <1>5, <1>7 DEF SystemExit, mapVars, localVars, Claims, Asked, Pins, Threads
<1>9. LifecycleTypeOK'
    BY DEF LifecycleInv, LifecycleTypeOK, SystemExit, mapVars, stateVars, lockVars, localVars, rest
<1>10. QED
    BY <1>6, <1>8, <1>9 DEF LifecycleInv

\* A signal begins the hook.
LEMMA SignalKeeps == ASSUME LifecycleInv, Signal PROVE LifecycleInv'
<1>1. Plans /\ Claims /\ Asked /\ Pins /\ "hook" \in Threads /\ "hook" \notin Users
    BY LifecycleAssumption DEF LifecycleInv, Threads
<1>2. Plans' /\ Claims' /\ \A u \in Threads \ {"hook"} : todo'[u] = todo[u]
    BY <1>1, Begins, HookBegins DEF Signal, localVars
<1>3. Asked' /\ Pins'
    BY <1>1, <1>2 DEF Signal, mapVars, localVars, Asked, Pins, Threads
<1>4. LifecycleTypeOK'
    <2>1. requests' \in 0 .. MaxRequests
        BY LifecycleAssumption DEF LifecycleInv, LifecycleTypeOK, Signal, Count
    <2>2. QED
        BY <2>1 DEF LifecycleInv, LifecycleTypeOK, Signal, mapVars, stateVars, lockVars, localVars
<1>5. QED
    BY <1>2, <1>3, <1>4 DEF LifecycleInv

\* The database task begins to save.
LEMMA SaveDueKeeps == ASSUME LifecycleInv, SaveDue PROVE LifecycleInv'
<1>1. Plans /\ Claims /\ Asked /\ Pins /\ "db" \in Threads /\ "db" \notin Users
    BY LifecycleAssumption DEF LifecycleInv, Threads
<1>2. Plan("db", save) /\ \A e \in Devices : ~ Claim(save, e)
    BY DbPlan, SaveWhole, NoClaimFirst
<1>3. Plans' /\ Claims' /\ \A u \in Threads \ {"db"} : todo'[u] = todo[u]
    BY <1>1, <1>2, Begins DEF SaveDue, localVars
<1>4. Asked' /\ Pins'
    BY <1>1, <1>3 DEF SaveDue, mapVars, localVars, Asked, Pins, Threads
<1>5. LifecycleTypeOK'
    <2>1. requests' \in 0 .. MaxRequests
        BY LifecycleAssumption DEF LifecycleInv, LifecycleTypeOK, SaveDue, Count
    <2>2. QED
        BY <2>1 DEF LifecycleInv, LifecycleTypeOK, SaveDue, mapVars, stateVars, lockVars, localVars
<1>6. QED
    BY <1>3, <1>4, <1>5 DEF LifecycleInv

\* A request begins.
LEMMA RequestKeeps ==
    ASSUME LifecycleInv, NEW u \in Users, NEW kind \in Kinds, NEW d \in Devices, NEW v \in States,
           Request(u, kind, d, v)
    PROVE  LifecycleInv'
<1>1. Plans /\ Claims /\ Asked /\ Pins /\ u \in Threads
    BY DEF LifecycleInv, Threads
<1>2. PICK s : s = scheduleAction(kind, d)
    OBVIOUS
<1>3. Plan(u, s) /\ \A e \in Devices : ~ Claim(s, e)
    BY <1>2, RequestPlan, NoClaimFirst
<1>4. Plans' /\ Claims' /\ \A w \in Threads \ {u} : todo'[w] = todo[w]
    BY <1>1, <1>2, <1>3, Begins DEF Request
<1>5. value' = [value EXCEPT ![u] = v] /\ value \in [Threads -> States \cup {None}]
    BY DEF Request, LifecycleInv, LifecycleTypeOK
<1>6. Asked' /\ Pins'
    BY <1>1, <1>4, <1>5 DEF Request, mapVars, Asked, Pins, Threads
<1>7. LifecycleTypeOK'
    <2>1. requests' \in 0 .. MaxRequests
        BY LifecycleAssumption DEF LifecycleInv, LifecycleTypeOK, Request, Count
    <2>2. value' \in [Threads -> States \cup {None}]
        BY <1>5
    <2>3. QED
        BY <2>1, <2>2 DEF LifecycleInv, LifecycleTypeOK, Request, mapVars, stateVars, lockVars
<1>8. QED
    BY <1>4, <1>6, <1>7 DEF LifecycleInv

\* The life ends.
LEMMA EndKeeps == ASSUME LifecycleInv, Halt \/ Crash PROVE LifecycleInv'
<1>1. UNCHANGED <<mapVars, stateVars, lockVars, localVars, shutdownProcessor, todo, requests, boots>>
      /\ ended' \in {"exit", "crash"}
    BY DEF Halt, Crash
<1>2. QED
    BY <1>1 DEF LifecycleInv, LifecycleTypeOK, Plans, Asked, Claims, Pins,
                mapVars, stateVars, lockVars, localVars

\* The state in which a life begins.
LEMMA BornKeeps ==
    ASSUME NEW m, m = [d \in Devices |-> 0],
           todo' = [t \in Threads |-> IF t = "main" THEN main ELSE <<>>],
           deviceMap' = m, made' = m, provisioner' = m, closed' = {}
    PROVE  Plans' /\ Asked' /\ Claims' /\ Pins'
<1>1. ASSUME NEW t \in Threads
      PROVE  Plan(t, todo'[t]) /\ todo'[t] \in Seq(AllOps \X Devices)
    <2>1. Plan(t, todo'[t])
        BY MainPlan, EmptyPlan
    <2>2. OpsOf(t) \X Devices \subseteq AllOps \X Devices
        BY DEF OpsOf, AllOps, HookOps, SaveOps
    <2>3. QED
        BY <2>1, <2>2, SeqMonotonic DEF Plan
<1>2. Plans'
    <2>1. todo' = [t \in Threads |-> todo'[t]]
        OBVIOUS
    <2>2. QED
        BY <1>1, <2>1 DEF Plans
<1>3. Asked'
    BY LifecycleAssumption DEF Asked, Threads
<1>4. \A t \in Threads, e \in Devices : ~ Claim(todo'[t], e)
    <2>1. \A e \in Devices : ~ Claim(main, e)
        BY MainPlan, NoClaimFirst
    <2>2. \A e \in Devices : ~ Claim(<<>>, e)
        BY DEF Claim
    <2>3. QED
        BY <2>1, <2>2
<1>5. Claims'
    BY <1>4 DEF Claims
<1>6. Pins'
    BY DEF Pins
<1>7. QED
    BY <1>2, <1>3, <1>5, <1>6

\* The first life begins with the invariant.
LEMMA InitKeeps == LifecycleInit => LifecycleInv
<1>1. SUFFICES ASSUME LifecycleInit PROVE LifecycleInv
    OBVIOUS
<1>2. todo = [t \in Threads |-> IF t = "main" THEN main ELSE <<>>]
    BY <1>1 DEF LifecycleInit
<1>3. ASSUME NEW t \in Threads
      PROVE  /\ Plan(t, todo[t]) /\ todo[t] \in Seq(AllOps \X Devices)
             /\ \A e \in Devices : ~ Claim(todo[t], e)
    <2>1. Plan(t, todo[t])
        BY <1>2, MainPlan, EmptyPlan
    <2>2. OpsOf(t) \X Devices \subseteq AllOps \X Devices
        BY DEF OpsOf, AllOps, HookOps, SaveOps
    <2>3. (\A e \in Devices : ~ Claim(main, e)) /\ \A e \in Devices : ~ Claim(<<>>, e)
        BY MainPlan, NoClaimFirst DEF Claim
    <2>4. QED
        BY <1>2, <2>1, <2>2, <2>3, SeqMonotonic DEF Plan
<1>4. Plans
    <2>1. todo = [t \in Threads |-> todo[t]]
        BY <1>2
    <2>2. QED
        BY <1>3, <2>1 DEF Plans
<1>5. Claims
    BY <1>3 DEF Claims
<1>6. Asked
    BY <1>2, LifecycleAssumption DEF Asked, Threads
<1>7. LifecycleTypeOK
    <2>1. 0 \in 0 .. MaxMade /\ 0 \in 0 .. MaxRequests /\ 1 \in 1 .. MaxBoots
        BY LifecycleAssumption
    <2>2. QED
        BY <1>1, <2>1 DEF LifecycleInit, LifecycleTypeOK, States, Built
<1>8. Pins
    <2>1. deviceMap = [d \in Devices |-> 0] /\ made = deviceMap /\ provisioner = deviceMap /\ closed = {}
        BY <1>1 DEF LifecycleInit
    <2>2. QED
        BY <2>1 DEF Pins
<1>9. QED
    BY <1>4, <1>5, <1>6, <1>7, <1>8 DEF LifecycleInv

\* So does every other life, whatever the last one left.
LEMMA BootKeeps == ASSUME LifecycleInv, Boot PROVE LifecycleInv'
<1>1. Plans' /\ Asked' /\ Claims' /\ Pins'
    BY BornKeeps DEF Boot
<1>2. LifecycleTypeOK'
    <2>1. 0 \in 0 .. MaxMade /\ boots + 1 \in 1 .. MaxBoots
        BY LifecycleAssumption DEF LifecycleInv, LifecycleTypeOK, Boot
    <2>2. QED
        BY <2>1 DEF LifecycleInv, LifecycleTypeOK, Boot, States, Built
<1>3. QED
    BY <1>1, <1>2 DEF LifecycleInv

\* Every step keeps the invariant.
LEMMA LifecycleInvNext == LifecycleInv /\ [LifecycleNext]_lifecycleVars => LifecycleInv'
<1>1. SUFFICES ASSUME LifecycleInv, [LifecycleNext]_lifecycleVars PROVE LifecycleInv'
    OBVIOUS
<1>2. ASSUME NEW t \in Threads, Step(t) PROVE LifecycleInv'
    <2>1. PICK d \in Devices :
            \/ PassNode(t, d) \/ lookupDevice(t, d) \/ execute(t, d) \/ update(t, d) \/ Trigger(t, d)
            \/ loadDevice(t, d) \/ EnterCreate(t, d) \/ buildDevice(t, d) \/ addDevice(t, d)
            \/ loadSavedState(t, d) \/ LeaveCreate(t, d)
            \/ removeDevice(t, d) \/ close(t, d) \/ ClearMap(t, d)
            \/ Find(t, d) \/ getCurrentDeviceState(t, d) \/ FindNew(t, d) \/ loadSavedData(t, d)
            \/ Collect(t, d) \/ Write(t, d) \/ loadDeviceStatesIntoDatabaseCache(t, d)
            \/ TestFlag(t, d) \/ SetFlag(t, d) \/ Notify(t, d)
        BY <1>2 DEF Step
    <2>2. QED
        BY <1>1, <2>1, PassNodeKeeps, LookupKeeps, ExecuteKeeps, UpdateKeeps, TriggerKeeps,
           LoadDeviceKeeps, CreateKeeps, RestoreKeeps, LeaveCreateKeeps, FindKeeps,
           SnapshotKeeps, FindNewKeeps, LoadSavedKeeps, CollectKeeps, WriteKeeps,
           LoadStatesKeeps, TestFlagKeeps, SetFlagKeeps, NotifyKeeps, BuildKeeps,
           AddKeeps, RemoveKeeps, CloseKeeps, ClearMapKeeps
<1>3. ASSUME Exit PROVE LifecycleInv'
    BY <1>1, <1>3, EnterWaitKeeps, SystemExitKeeps, EndKeeps DEF Exit
<1>4. ASSUME NEW u \in Users, NEW kind \in Kinds, NEW d \in Devices, NEW v \in States,
             Request(u, kind, d, v)
      PROVE  LifecycleInv'
    BY <1>1, <1>4, RequestKeeps
<1>5. ASSUME UNCHANGED lifecycleVars PROVE LifecycleInv'
    BY <1>1, <1>5 DEF lifecycleVars, LifecycleInv, LifecycleTypeOK, Plans, Asked, Claims, Pins
<1>6. QED
    BY <1>1, <1>2, <1>3, <1>4, <1>5, SignalKeeps, EndKeeps, BootKeeps, SaveDueKeeps DEF LifecycleNext

\* In every state of every life, what each thread has left to do is what remains of a whole
\* operation, at most one thread is about to put a device into the map or to tear it down, and
\* its pin is that incarnation's: the inductive invariant of createNewDevice, closeDevice,
\* reloadDevice, save and shutdown under any number of requests, signals, crashes and restarts.
THEOREM LifecycleInvariant == LifecycleSpec => []LifecycleInv
<1>1. QED
    BY InitKeeps, LifecycleInvNext, PTL DEF LifecycleSpec

\* Every variable stays in its domain: no device is built more often than the bound allows, and
\* every thread's steps are steps of an operation.
THEOREM LifecycleTypeCorrect == LifecycleSpec => []LifecycleTypeOK
<1>1. LifecycleInv => LifecycleTypeOK
    BY DEF LifecycleInv
<1>2. QED
    BY <1>1, LifecycleInvariant, PTL

\* A device in the map is open and has the pin, for any devices and users: the node's monitor in
\* createNewDevice and the removal before close in closeDevice are enough for every order of
\* loads, reloads, closes, shutdowns, crashes and restarts.
THEOREM MappedDeviceOwnsPin == LifecycleSpec => []MappedOwnsPin
BY InvOwnsPin, LifecycleInvariant, PTL

-----------------------------------------------------------------------------
(* No device is lost: the steps a thread has left, whatever it skips.      *)

\* The names of the steps in s.
OpsIn(s) == {s[i][1] : i \in DOMAIN s}

\* The steps from which a thread may skip others.
Makers == {"lookup", "findNew", "create", "build"}

\* A thread that is to clear the map skips nothing, and sets the flag before it clears.
Apart(s) == "clear" \in OpsIn(s) => OpsIn(s) \cap Makers = {}
Flagged(s) ==
    \A i \in DOMAIN s : s[i][1] = "clear" => \E j \in 1 .. i - 1 : s[j][1] = "setFlag"

Orderly ==
    \A t \in Threads : Apart(todo[t]) /\ (~ shutdownProcessor => Flagged(todo[t]))

\* A suffix takes no new steps.
LEMMA SuffixOps ==
    ASSUME NEW t, NEW s, Plan(t, s), NEW k \in 1 .. Len(s)
    PROVE  /\ DOMAIN SubSeq(s, k, Len(s)) = 1 .. Len(s) - k + 1
           /\ \A i \in 1 .. Len(s) - k + 1 :
                  SubSeq(s, k, Len(s))[i] = s[k + i - 1] /\ k + i - 1 \in DOMAIN s
           /\ OpsIn(SubSeq(s, k, Len(s))) \subseteq OpsIn(s)
<1> DEFINE S == OpsOf(t) \X Devices
<1>1. s \in Seq(S) /\ DOMAIN s = 1 .. Len(s)
    BY LenProperties DEF Plan
<1>2. PICK n \in Nat : n = Len(s)
    BY <1>1, LenProperties
<1>3. k \in 1 .. n /\ k \in Int /\ n \in Int /\ k <= n /\ \A i \in k .. n : i \in 1 .. n
    BY <1>2
<1>4. \A i \in k .. n : s[i] \in S
    BY <1>1, <1>2, <1>3, ElementOfSeq
<1> HIDE DEF S
<1>5. /\ SubSeq(s, k, n) \in Seq(S) /\ Len(SubSeq(s, k, n)) = n - k + 1
      /\ \A i \in 1 .. n - k + 1 : SubSeq(s, k, n)[i] = s[k + i - 1]
    BY <1>3, <1>4, SubSeqProperties
<1>6. DOMAIN SubSeq(s, k, n) = 1 .. n - k + 1
    BY <1>5, LenProperties
<1>7. \A i \in 1 .. n - k + 1 : k + i - 1 \in 1 .. n
    BY <1>3
<1>8. QED
    BY <1>1, <1>2, <1>5, <1>6, <1>7 DEF OpsIn

\* What is left after one step.
LEMMA TailOps ==
    ASSUME NEW t, NEW s, Plan(t, s), s # <<>>
    PROVE  /\ OpsIn(Tail(s)) \subseteq OpsIn(s) /\ Head(s)[1] \in OpsIn(s)
           /\ Flagged(s) /\ Head(s)[1] # "setFlag" => Flagged(Tail(s))
<1>1. s \in Seq(OpsOf(t) \X Devices) /\ DOMAIN s = 1 .. Len(s)
    BY LenProperties DEF Plan
<1>2. PICK n \in Nat \ {0} : n = Len(s)
    BY <1>1, EmptySeq
<1>3. PICK r : r = Tail(s)
    OBVIOUS
<1>4. Head(s) = s[1] /\ 1 \in DOMAIN s
    BY TailOfPlan
<1>5. /\ r \in Seq(OpsOf(t) \X Devices) /\ Len(r) = n - 1
      /\ \A i \in 1 .. n - 1 : r[i] = s[i + 1]
    BY <1>1, <1>2, <1>3, HeadTailProperties
<1>6. DOMAIN r = 1 .. n - 1
    BY <1>5, LenProperties
<1>7. \A i \in 1 .. n - 1 : i + 1 \in 1 .. n
    BY <1>2
<1>8. OpsIn(r) \subseteq OpsIn(s) /\ Head(s)[1] \in OpsIn(s)
    <2>1. \A i \in DOMAIN r : \E j \in DOMAIN s : r[i] = s[j]
        BY <1>1, <1>2, <1>5, <1>6, <1>7
    <2>2. QED
        BY <1>4, <2>1 DEF OpsIn
<1>9. ASSUME Flagged(s), Head(s)[1] # "setFlag" PROVE Flagged(r)
    <2>1. SUFFICES ASSUME NEW i \in 1 .. n - 1, r[i][1] = "clear"
                   PROVE  \E j \in 1 .. i - 1 : r[j][1] = "setFlag"
        BY <1>6 DEF Flagged
    <2>2. PICK j \in 1 .. (i + 1) - 1 : s[j][1] = "setFlag"
        BY <1>1, <1>2, <1>5, <1>7, <1>9, <2>1 DEF Flagged
    <2>3. j # 1
        BY <1>4, <1>9, <2>2
    <2>4. j - 1 \in 1 .. i - 1 /\ j - 1 \in 1 .. n - 1 /\ (j - 1) + 1 = j
        BY <2>2, <2>3
    <2>5. r[j - 1][1] = "setFlag"
        BY <1>5, <2>2, <2>4
    <2>6. QED
        BY <2>4, <2>5
<1>10. QED
    BY <1>3, <1>8, <1>9

\* c is a, of length m, followed by b, of length n.
Joined(a, b, c, m, n) ==
    /\ DOMAIN a = 1 .. m /\ DOMAIN b = 1 .. n /\ DOMAIN c = 1 .. m + n
    /\ \A i \in 1 .. m + n : c[i] = IF i <= m THEN a[i] ELSE b[i - m]

\* The steps of operations that were put together.
LEMMA ConcatAt ==
    ASSUME NEW O, NEW a, NEW b, Whole(O, a), Whole(O, b), NEW c, c = a \o b
    PROVE  \E m, n \in Nat : Joined(a, b, c, m, n)
<1>1. /\ a \in Seq(O \X Devices) /\ b \in Seq(O \X Devices)
      /\ DOMAIN a = 1 .. Len(a) /\ DOMAIN b = 1 .. Len(b)
    BY LenProperties DEF Whole
<1>2. PICK m \in Nat : m = Len(a)
    BY <1>1, LenProperties
<1>3. PICK n \in Nat : n = Len(b)
    BY <1>1, LenProperties
<1>4. /\ c \in Seq(O \X Devices) /\ Len(c) = m + n
      /\ \A i \in 1 .. m + n : c[i] = IF i <= m THEN a[i] ELSE b[i - m]
    BY <1>1, <1>2, <1>3, ConcatProperties
<1>5. DOMAIN c = 1 .. m + n
    BY <1>4, LenProperties
<1>6. QED
    BY <1>1, <1>2, <1>3, <1>4, <1>5 DEF Joined

\* Operations put together set the flag before they clear, if the parts do or the first part sets it.
LEMMA ConcatOps ==
    ASSUME NEW O, NEW a, NEW b, Whole(O, a), Whole(O, b)
    PROVE  /\ Flagged(a) /\ Flagged(b) => Flagged(a \o b)
           /\ "setFlag" \in OpsIn(a) /\ "clear" \notin OpsIn(a) => Flagged(a \o b)
           /\ OpsIn(a) \subseteq OpsIn(a \o b)
<1>1. PICK c : c = a \o b
    OBVIOUS
<1>2. PICK m, n \in Nat : Joined(a, b, c, m, n)
    BY <1>1, ConcatAt
<1>3. /\ DOMAIN a = 1 .. m /\ DOMAIN b = 1 .. n /\ DOMAIN c = 1 .. m + n
      /\ \A i \in 1 .. m + n : c[i] = IF i <= m THEN a[i] ELSE b[i - m]
    BY <1>2 DEF Joined
<1>4. ASSUME NEW i \in 1 .. m + n, i <= m, Flagged(a), c[i][1] = "clear"
      PROVE  \E j \in 1 .. i - 1 : c[j][1] = "setFlag"
    <2>1. i \in 1 .. m /\ a[i][1] = "clear"
        BY <1>3, <1>4, Beside
    <2>2. PICK j \in 1 .. i - 1 : a[j][1] = "setFlag"
        BY <1>3, <1>4, <2>1 DEF Flagged
    <2>3. j \in 1 .. m + n /\ j <= m
        BY <1>4, <2>2
    <2>4. QED
        BY <1>3, <2>2, <2>3
<1>5. ASSUME Flagged(a), Flagged(b) PROVE Flagged(c)
    <2>1. SUFFICES ASSUME NEW i \in 1 .. m + n, c[i][1] = "clear"
                   PROVE  \E j \in 1 .. i - 1 : c[j][1] = "setFlag"
        BY <1>3 DEF Flagged
    <2>2. CASE i <= m
        BY <1>4, <1>5, <2>1, <2>2
    <2>3. CASE ~ (i <= m)
        <3>1. i - m \in 1 .. n /\ b[i - m][1] = "clear"
            BY <1>3, <2>1, <2>3, Beside
        <3>2. PICK j \in 1 .. (i - m) - 1 : b[j][1] = "setFlag"
            BY <1>3, <1>5, <3>1 DEF Flagged
        <3>3. m + j \in 1 .. m + n /\ ~ (m + j <= m) /\ (m + j) - m = j /\ m + j \in 1 .. i - 1
            BY <3>1, <3>2
        <3>4. c[m + j][1] = "setFlag"
            BY <1>3, <3>2, <3>3
        <3>5. QED
            BY <3>3, <3>4
    <2>4. QED
        BY <2>2, <2>3
<1>6. ASSUME "setFlag" \in OpsIn(a), "clear" \notin OpsIn(a) PROVE Flagged(c)
    <2>1. SUFFICES ASSUME NEW i \in 1 .. m + n, c[i][1] = "clear"
                   PROVE  \E j \in 1 .. i - 1 : c[j][1] = "setFlag"
        BY <1>3 DEF Flagged
    <2>2. PICK j \in 1 .. m : a[j][1] = "setFlag"
        BY <1>3, <1>6 DEF OpsIn
    <2>3. ~ (i <= m)
        <3>1. SUFFICES ASSUME i <= m PROVE FALSE
            OBVIOUS
        <3>2. i \in 1 .. m /\ a[i][1] = "clear"
            BY <1>3, <2>1, <3>1, Beside
        <3>3. QED
            BY <1>3, <1>6, <3>2 DEF OpsIn
    <2>4. j \in 1 .. m + n /\ j <= m /\ j \in 1 .. i - 1
        BY <2>2, <2>3
    <2>5. QED
        BY <1>3, <2>2, <2>4
<1>7. OpsIn(a) \subseteq OpsIn(c)
    <2>1. \A i \in 1 .. m : i \in 1 .. m + n /\ i <= m
        OBVIOUS
    <2>2. \A i \in DOMAIN a : i \in DOMAIN c /\ c[i] = a[i]
        BY <1>3, <2>1
    <2>3. QED
        BY <2>2 DEF OpsIn
<1>8. QED
    BY <1>1, <1>5, <1>6, <1>7

\* A whole operation takes the steps it is made of.
LEMMA OpsOfWhole ==
    ASSUME NEW O, NEW s, Whole(O, s)
    PROVE  OpsIn(s) \subseteq O /\ ("clear" \notin O => Flagged(s))
<1>1. \A i \in DOMAIN s : s[i] \in O \X Devices
    BY LenProperties, ElementOfSeq DEF Whole
<1>2. QED
    BY <1>1 DEF OpsIn, Flagged

\* Shutdown sets the flag before it clears the map, and makes nothing.
LEMMA ShutdownFlagged == Flagged(shutdown)
<1>1. PICK a : a = For(First, <<"testFlag", "setFlag">>)
    OBVIOUS
<1>2. Whole({"testFlag", "setFlag"}, a) /\ "setFlag" \in OpsIn(a)
    <2>1. PICK ops : ops = <<"testFlag", "setFlag">>
        OBVIOUS
    <2>2. /\ ops \in Seq({"testFlag", "setFlag"}) /\ {"testFlag", "setFlag"} \cap Ties = {}
          /\ 2 \in 1 .. Len(ops) /\ ops[2] = "setFlag"
        BY <2>1 DEF Ties, Inner
    <2>3. /\ Whole({"testFlag", "setFlag"}, For(First, ops))
          /\ Len(For(First, ops)) = Len(ops) /\ For(First, ops)[2] = <<ops[2], First>>
        BY <2>2, ForWhole, FirstIsDevice
    <2>4. 2 \in DOMAIN For(First, ops)
        BY <2>2, <2>3, LenProperties DEF Whole
    <2>5. "setFlag" \in OpsIn(For(First, ops))
        BY <2>2, <2>3, <2>4 DEF OpsIn
    <2>6. QED
        BY <1>1, <2>1, <2>3, <2>5
<1>3. PICK b : b = a \o save
    OBVIOUS
<1>4. Whole({"testFlag", "setFlag"} \cup SaveOps, b) /\ "setFlag" \in OpsIn(b)
    <2>1. Whole({"testFlag", "setFlag"} \cup SaveOps, a) /\ Whole({"testFlag", "setFlag"} \cup SaveOps, save)
        BY <1>2, SaveWhole, WholeWider
    <2>2. QED
        BY <1>2, <1>3, <2>1, ConcatWhole, ConcatOps
<1>5. "clear" \notin OpsIn(b)
    <2>1. OpsIn(b) \subseteq {"testFlag", "setFlag"} \cup SaveOps
        BY <1>4, OpsOfWhole
    <2>2. QED
        BY <2>1 DEF SaveOps
<1>6. Whole(ShutdownOps, b) /\ Whole(ShutdownOps, closeAllDevices)
    <2>1. {"testFlag", "setFlag"} \cup SaveOps \subseteq ShutdownOps /\ CloseAllOps \subseteq ShutdownOps
        BY DEF SaveOps, CloseAllOps, CloseOps, ShutdownOps, HookOps
    <2>2. QED
        BY <1>4, <2>1, CloseAllDevicesWhole, WholeWider
<1>7. PICK c : c = b \o closeAllDevices
    OBVIOUS
<1>8. Whole(ShutdownOps, c) /\ Flagged(c)
    BY <1>4, <1>5, <1>6, <1>7, ConcatWhole, ConcatOps
<1>9. Whole(ShutdownOps, For(First, <<"notify">>)) /\ Flagged(For(First, <<"notify">>))
    <2>1. /\ Whole(ShutdownOps, For(First, <<"notify">>)) /\ Whole({"notify"}, For(First, <<"notify">>))
        BY OneWhole, FirstIsDevice DEF Ties, Inner, ShutdownOps, HookOps
    <2>2. "clear" \notin {"notify"}
        OBVIOUS
    <2>3. QED
        BY <2>1, <2>2, OpsOfWhole
<1>10. Flagged(c \o For(First, <<"notify">>))
    BY <1>8, <1>9, ConcatOps
<1>11. QED
    BY <1>1, <1>3, <1>7, <1>10 DEF shutdown

\* The hook sets the flag before it clears the map, and makes nothing.
LEMMA HookOrderly == Apart(hook) /\ Flagged(hook)
<1>1. Whole(HookOps, shutdown)
    BY ShutdownWhole, WholeWider DEF ShutdownOps
<1>2. Whole(HookOps, For(First, <<"halt">>)) /\ Flagged(For(First, <<"halt">>))
    <2>1. Whole(HookOps, For(First, <<"halt">>)) /\ Whole({"halt"}, For(First, <<"halt">>))
        BY OneWhole, FirstIsDevice DEF Ties, Inner, HookOps
    <2>2. "clear" \notin {"halt"}
        OBVIOUS
    <2>3. QED
        BY <2>1, <2>2, OpsOfWhole
<1>3. Flagged(hook)
    BY <1>1, <1>2, ShutdownFlagged, ConcatOps DEF hook
<1>4. Apart(hook)
    <2>1. OpsIn(hook) \subseteq HookOps
        BY HookPlan, OpsOfWhole
    <2>2. QED
        BY <2>1 DEF Apart, Makers, HookOps, SaveOps
<1>5. QED
    BY <1>3, <1>4

\* So do main, which clears nothing, and the database task.
LEMMA MainOrderly == Apart(main) /\ Flagged(main) /\ Apart(save) /\ Flagged(save)
                     /\ Apart(<<>>) /\ Flagged(<<>>)
<1> "clear" \notin MainOps /\ "clear" \notin SaveOps
    BY DEF MainOps, SaveOps
<1>1. OpsIn(main) \subseteq MainOps /\ Flagged(main)
    BY MainPlan, OpsOfWhole
<1>2. OpsIn(save) \subseteq SaveOps /\ Flagged(save)
    BY SaveWhole, OpsOfWhole
<1>3. OpsIn(<<>>) = {} /\ Flagged(<<>>)
    BY DEF OpsIn, Flagged
<1>4. QED
    BY <1>1, <1>2, <1>3 DEF Apart, MainOps, SaveOps

\* A request that does not reload everything clears the map only in a shutdown.
LEMMA RequestOrderly ==
    ASSUME "reload_all" \notin Kinds, NEW u \in Users, NEW kind \in Kinds, NEW d \in Devices
    PROVE  Apart(scheduleAction(kind, d)) /\ Flagged(scheduleAction(kind, d))
<1>1. PICK a : a = For(d, <<"isLocked">>)
    OBVIOUS
<1>2. PICK b : b = For(d, <<"setLock">>)
    OBVIOUS
<1>3. PICK s : s = scheduleAction(kind, d)
    OBVIOUS
<1>4. s = a \o processAction(kind, d) \o b
    BY <1>1, <1>2, <1>3 DEF scheduleAction
<1>5. CASE kind = "shutdown"
    <2>1. processAction(kind, d) = shutdown
        BY <1>5 DEF processAction
    <2>2. /\ Whole({"isLocked"}, a) /\ Whole({"setLock"}, b)
        BY <1>1, <1>2, OneWhole DEF Ties, Inner
    <2>3. PICK O : O = ShutdownOps \cup {"isLocked", "setLock"}
        OBVIOUS
    <2>4. Whole(O, a) /\ Whole(O, b) /\ Whole(O, shutdown)
        BY <2>2, <2>3, ShutdownWhole, WholeWider
    <2>5. Flagged(a) /\ Flagged(b)
        <3>1. "clear" \notin {"isLocked"} /\ "clear" \notin {"setLock"}
            OBVIOUS
        <3>2. QED
            BY <2>2, <3>1, OpsOfWhole
    <2>6. Whole(O, a \o shutdown) /\ Flagged(a \o shutdown)
        BY <2>4, <2>5, ShutdownFlagged, ConcatWhole, ConcatOps
    <2>7. Whole(O, s) /\ Flagged(s)
        BY <1>4, <2>1, <2>4, <2>5, <2>6, ConcatWhole, ConcatOps
    <2>8. OpsIn(s) \subseteq O
        BY <2>7, OpsOfWhole
    <2>9. Apart(s)
        BY <2>3, <2>8 DEF Apart, Makers, ShutdownOps, HookOps, SaveOps
    <2>10. QED
        BY <1>3, <2>7, <2>9
<1>6. CASE kind # "shutdown"
    <2>1. kind \in {"command", "load", "close", "reload", "save"}
        BY <1>6, LifecycleAssumption
    <2>2. Whole(OrdinaryOps, processAction(kind, d))
        BY <2>1, OrdinaryWhole
    <2>3. Whole(OrdinaryOps, a) /\ Whole(OrdinaryOps, b)
        BY <1>1, <1>2, OneWhole DEF Ties, Inner, OrdinaryOps, UserOps
    <2>4. Whole(OrdinaryOps, s)
        BY <1>4, <2>2, <2>3, ConcatWhole
    <2>5. "clear" \notin OpsIn(s) /\ Flagged(s)
        <3>1. "clear" \notin OrdinaryOps
            BY DEF OrdinaryOps
        <3>2. QED
            BY <2>4, <3>1, OpsOfWhole
    <2>6. QED
        BY <1>3, <2>5 DEF Apart
<1>7. QED
    BY <1>5, <1>6

\* How a step changes its own thread's plan: it goes on, gives up, or skips; only a step
\* that may is followed by a jump, and shutdown is never taken back.
Moves(t, op, d) ==
    /\ At(t, op, d)
    /\ shutdownProcessor => shutdownProcessor'
    /\ op = "setFlag" => shutdownProcessor'
    /\ \/ Done(t) \/ Throw(t)
       \/ op = "remove" /\ todo' = [todo EXCEPT ![t] = Tail(Tail(@))]
       \/ /\ op \in Makers \/ shutdownProcessor
          /\ \E goal \in {"leave", "setLock", "halt"} :
                 (\E i \in DOMAIN todo[t] : todo[t][i][1] = goal) /\ SkipTo(t, goal)

\* The steps of a thread, but for the notification.
LEMMA StepMoves ==
    ASSUME LifecycleInv, NEW t \in Threads, NEW d \in Devices,
           \/ PassNode(t, d) \/ lookupDevice(t, d) \/ execute(t, d) \/ update(t, d) \/ Trigger(t, d)
           \/ loadDevice(t, d) \/ EnterCreate(t, d) \/ buildDevice(t, d) \/ addDevice(t, d)
           \/ loadSavedState(t, d) \/ LeaveCreate(t, d)
           \/ removeDevice(t, d) \/ close(t, d) \/ ClearMap(t, d)
           \/ Find(t, d) \/ getCurrentDeviceState(t, d) \/ FindNew(t, d) \/ loadSavedData(t, d)
           \/ Collect(t, d) \/ Write(t, d) \/ loadDeviceStatesIntoDatabaseCache(t, d)
           \/ TestFlag(t, d) \/ SetFlag(t, d)
    PROVE  \E op : Moves(t, op, d) /\ op # "enterWait"
<1> USE DEF Moves
<1>1. CASE PassNode(t, d)
    BY <1>1 DEF PassNode, rest
<1>2. CASE lookupDevice(t, d)
    <2>1. At(t, "lookup", d) /\ Plans /\ UNCHANGED shutdownProcessor
        BY <1>2 DEF lookupDevice, rest, LifecycleInv
    <2>2. \E i \in DOMAIN todo[t] : todo[t][i][1] = "setLock"
        BY <2>1, StepOf, GoalAhead DEF MainOps, HookOps, SaveOps
    <2>3. Done(t) \/ Throw(t) \/ SkipTo(t, "setLock")
        BY <1>2 DEF lookupDevice
    <2>4. QED
        BY <2>1, <2>2, <2>3 DEF Makers
<1>3. CASE execute(t, d)
    BY <1>3 DEF execute, rest
<1>4. CASE update(t, d)
    BY <1>4 DEF update, rest
<1>5. CASE Trigger(t, d)
    BY <1>5 DEF Trigger, rest
<1>6. CASE loadDevice(t, d)
    BY <1>6 DEF loadDevice, rest
<1>7. CASE EnterCreate(t, d)
    <2>1. At(t, "create", d) /\ Plans /\ UNCHANGED shutdownProcessor /\ (Done(t) \/ SkipTo(t, "leave"))
        BY <1>7 DEF EnterCreate, rest, LifecycleInv
    <2>2. \E i \in DOMAIN todo[t] : todo[t][i][1] = "leave"
        BY <2>1, GoalAhead
    <2>3. QED
        BY <2>1, <2>2 DEF Makers
<1>8. CASE buildDevice(t, d)
    <2>1. At(t, "build", d) /\ Plans /\ UNCHANGED shutdownProcessor /\ (Done(t) \/ SkipTo(t, "leave"))
        BY <1>8 DEF buildDevice, rest, LifecycleInv
    <2>2. \E i \in DOMAIN todo[t] : todo[t][i][1] = "leave"
        BY <2>1, GoalAhead
    <2>3. QED
        BY <2>1, <2>2 DEF Makers
<1>9. CASE addDevice(t, d)
    BY <1>9 DEF addDevice, rest
<1>10. CASE loadSavedState(t, d)
    BY <1>10 DEF loadSavedState, rest
<1>11. CASE LeaveCreate(t, d)
    BY <1>11 DEF LeaveCreate, rest
<1>12. CASE removeDevice(t, d)
    BY <1>12 DEF removeDevice, rest
<1>13. CASE close(t, d)
    BY <1>13 DEF close, rest
<1>14. CASE ClearMap(t, d)
    BY <1>14 DEF ClearMap, rest
<1>15. CASE Find(t, d)
    BY <1>15 DEF Find, rest
<1>16. CASE getCurrentDeviceState(t, d)
    BY <1>16 DEF getCurrentDeviceState, rest
<1>17. CASE FindNew(t, d)
    <2>1. At(t, "findNew", d) /\ Plans /\ UNCHANGED shutdownProcessor /\ (Done(t) \/ SkipTo(t, "setLock"))
        BY <1>17 DEF FindNew, rest, LifecycleInv
    <2>2. \E i \in DOMAIN todo[t] : todo[t][i][1] = "setLock"
        BY <2>1, StepOf, GoalAhead DEF MainOps, HookOps, SaveOps
    <2>3. QED
        BY <2>1, <2>2 DEF Makers
<1>18. CASE loadSavedData(t, d)
    BY <1>18 DEF loadSavedData, rest
<1>19. CASE Collect(t, d)
    BY <1>19 DEF Collect, rest
<1>20. CASE Write(t, d)
    BY <1>20 DEF Write, rest
<1>21. CASE loadDeviceStatesIntoDatabaseCache(t, d)
    BY <1>21 DEF loadDeviceStatesIntoDatabaseCache, rest
<1>22. CASE TestFlag(t, d)
    <2>1. /\ At(t, "testFlag", d) /\ Plans /\ UNCHANGED shutdownProcessor
          /\ IF ~ shutdownProcessor THEN Done(t)
             ELSE IF t = "hook" THEN SkipTo(t, "halt") ELSE SkipTo(t, "setLock")
        BY <1>22 DEF TestFlag, rest, LifecycleInv
    <2>2. /\ t = "hook" => \E i \in DOMAIN todo[t] : todo[t][i][1] = "halt"
          /\ t # "hook" => \E i \in DOMAIN todo[t] : todo[t][i][1] = "setLock"
        BY <2>1, StepOf, GoalAhead
    <2>3. QED
        BY <2>1, <2>2
<1>23. CASE SetFlag(t, d)
    BY <1>23 DEF SetFlag
<1>24. QED
    BY <1>1, <1>2, <1>3, <1>4, <1>5, <1>6, <1>7, <1>8, <1>9, <1>10, <1>11, <1>12, <1>13, <1>14,
       <1>15, <1>16, <1>17, <1>18, <1>19, <1>20, <1>21, <1>22, <1>23

\* A thread's plan after such a step.
LEMMA MovesLeave ==
    ASSUME Plans, NEW t \in Threads, NEW op, NEW d, Moves(t, op, d)
    PROVE  /\ \A u \in Threads \ {t} : todo'[u] = todo[u]
           /\ OpsIn(todo'[t]) \subseteq OpsIn(todo[t])
           /\ ~ shutdownProcessor' /\ Flagged(todo[t]) /\ Apart(todo[t]) => Flagged(todo'[t])
<1>1. Plan(t, todo[t]) /\ todo[t] # <<>> /\ Head(todo[t])[1] = op
    BY DEF Plans, Moves, At
<1>2. \A u \in Threads \ {t} : todo'[u] = todo[u]
    BY DEF Moves, Done, Throw, SkipTo, Plans
<1>3. /\ OpsIn(Tail(todo[t])) \subseteq OpsIn(todo[t]) /\ op \in OpsIn(todo[t])
      /\ Flagged(todo[t]) /\ op # "setFlag" => Flagged(Tail(todo[t]))
    BY <1>1, TailOps
<1>4. CASE Done(t)
    <2>1. todo'[t] = Tail(todo[t])
        BY <1>4 DEF Done, Plans
    <2>2. QED
        BY <1>2, <1>3, <2>1 DEF Moves
<1>5. CASE Throw(t)
    <2>1. todo'[t] = <<>>
        BY <1>5 DEF Throw, Plans
    <2>2. OpsIn(<<>>) = {} /\ Flagged(<<>>)
        BY DEF OpsIn, Flagged
    <2>3. QED
        BY <1>2, <2>1, <2>2
<1>6. CASE op = "remove" /\ todo' = [todo EXCEPT ![t] = Tail(Tail(@))]
    <2>1. todo'[t] = Tail(Tail(todo[t]))
        BY <1>6 DEF Plans
    <2>2. PICK r : r = Tail(todo[t])
        OBVIOUS
    <2>3. d \in Devices
        BY StepOf DEF Moves
    <2>4. r # <<>> /\ Head(r) = <<"tearDown", d>> /\ Plan(t, r)
        BY <1>1, <1>6, <2>2, <2>3, ClaimAfter, TailOfPlan DEF Moves, At
    <2>5. OpsIn(Tail(r)) \subseteq OpsIn(r) /\ (Flagged(r) => Flagged(Tail(r)))
        BY <2>4, TailOps
    <2>6. QED
        BY <1>2, <1>3, <1>6, <2>1, <2>2, <2>5
<1>7. ASSUME op \in Makers \/ shutdownProcessor, NEW goal,
             \E i \in DOMAIN todo[t] : todo[t][i][1] = goal, SkipTo(t, goal)
      PROVE  /\ OpsIn(todo'[t]) \subseteq OpsIn(todo[t])
             /\ ~ shutdownProcessor' /\ Flagged(todo[t]) /\ Apart(todo[t]) => Flagged(todo'[t])
    <2>1. PICK k \in 1 .. Len(todo[t]) : todo'[t] = SubSeq(todo[t], k, Len(todo[t]))
        BY <1>1, <1>7, Skipped DEF Plans
    <2>2. OpsIn(todo'[t]) \subseteq OpsIn(todo[t])
        BY <1>1, <2>1, SuffixOps
    <2>3. ASSUME ~ shutdownProcessor', Apart(todo[t]) PROVE Flagged(todo'[t])
        <3>1. "clear" \notin OpsIn(todo'[t])
            BY <1>3, <1>7, <2>2, <2>3 DEF Apart, Moves
        <3>2. QED
            BY <3>1 DEF Flagged, OpsIn
    <2>4. QED
        BY <2>2, <2>3
<1>8. QED
    BY <1>2, <1>4, <1>5, <1>6, <1>7 DEF Moves

\* Such a change keeps the plans orderly.
LEMMA MovesOrderly ==
    ASSUME Plans, Orderly, NEW t \in Threads, NEW op, NEW d, Moves(t, op, d)
    PROVE  Orderly'
BY MovesLeave DEF Orderly, Apart, Moves

\* So does the notification, which shortens main's plan as well.
LEMMA NotifyOrderly ==
    ASSUME Plans, Orderly, NEW t \in Threads, NEW d, Notify(t, d)
    PROVE  Orderly'
<1>1. Plan(t, todo[t]) /\ todo[t] # <<>> /\ Head(todo[t])[1] = "notify" /\ UNCHANGED shutdownProcessor
    BY DEF Plans, Notify, At, rest
<1>2. OpsIn(Tail(todo[t])) \subseteq OpsIn(todo[t]) /\ (Flagged(todo[t]) => Flagged(Tail(todo[t])))
    BY <1>1, TailOps
<1>3. Apart(For(First, <<"exit">>)) /\ Flagged(For(First, <<"exit">>))
    <2>1. Whole({"exit"}, For(First, <<"exit">>)) /\ "clear" \notin {"exit"}
        BY OneWhole, FirstIsDevice DEF Ties, Inner
    <2>2. QED
        BY <2>1, OpsOfWhole DEF Apart
<1>4. ASSUME NEW u \in Threads
      PROVE  Apart(todo'[u]) /\ (~ shutdownProcessor' => Flagged(todo'[u]))
    <2>1. Apart(todo[u]) /\ (~ shutdownProcessor' => Flagged(todo[u]))
        BY <1>1 DEF Orderly
    <2>2. todo'[u] = IF u = t THEN Tail(todo[t])
                     ELSE IF u = "main" /\ At("main", "wait", First) THEN For(First, <<"exit">>)
                     ELSE todo[u]
        BY DEF Notify
    <2>3. CASE u = t
        BY <1>2, <2>1, <2>2, <2>3 DEF Apart
    <2>4. CASE u # t
        BY <1>3, <2>1, <2>2, <2>4
    <2>5. QED
        BY <2>3, <2>4
<1>5. QED
    BY <1>4 DEF Orderly

\* A step that leaves the map alone and is no claimant's loses no device.
LEMMA QuietLoses ==
    ASSUME LifecycleInv, NoneLost, NEW t \in Threads, NEW op, NEW d, Moves(t, op, d),
           op \notin {"put", "tearDown"}, UNCHANGED mapVars,
           \A u \in Threads \ {t} : inc'[u] = inc[u]
    PROVE  NoneLost'
<1>1. \A u \in Threads \ {t} : todo'[u] = todo[u] /\ inc'[u] = inc[u]
    BY MovesLeave DEF LifecycleInv
<1>2. \A e \in Devices : todo[t] # <<>> => Head(todo[t]) \notin {<<"put", e>>, <<"tearDown", e>>}
    BY DEF Moves, At
<1>3. \A e \in Devices, n \in 1 .. MaxMade : Handled(e, n) => Handled(e, n)'
    BY <1>1, <1>2 DEF Handled
<1>4. ~ shutdownProcessor' => ~ shutdownProcessor
    BY DEF Moves
<1>5. QED
    BY <1>3, <1>4 DEF NoneLost, mapVars

\* The one who builds a device is to put it into the map.
LEMMA BuildLoses ==
    ASSUME LifecycleInv, NoneLost, NEW t \in Threads, NEW d \in Devices, buildDevice(t, d),
           provisioner[d] = 0
    PROVE  NoneLost'
<1>1. /\ Plans /\ At(t, "build", d) /\ Done(t) /\ UNCHANGED <<deviceMap, closed, shutdownProcessor>>
      /\ made' = [made EXCEPT ![d] = made[d] + 1] /\ inc' = [inc EXCEPT ![t] = made[d] + 1]
    BY DEF buildDevice, LifecycleInv, rest
<1>2. made \in [Devices -> 0 .. MaxMade] /\ inc \in [Threads -> 0 .. MaxMade]
      /\ made[d] \in Nat
    BY LifecycleAssumption DEF LifecycleInv, LifecycleTypeOK
<1>3. /\ \A u \in Threads \ {t} : todo'[u] = todo[u] /\ inc'[u] = inc[u]
      /\ inc'[t] = made[d] + 1 /\ made'[d] = made[d] + 1
      /\ \A e \in Devices \ {d} : made'[e] = made[e]
    BY <1>1, <1>2 DEF Done, Plans
<1>4. todo'[t] # <<>> /\ Head(todo'[t]) = <<"put", d>>
    <2>1. Plan(t, todo[t]) /\ todo[t] # <<>> /\ Head(todo[t]) = <<"build", d>> /\ todo'[t] = Tail(todo[t])
        BY <1>1 DEF Plans, At, Done
    <2>2. QED
        BY <2>1, ClaimAfter
<1>5. \A e \in Devices : todo[t] # <<>> => Head(todo[t]) \notin {<<"put", e>>, <<"tearDown", e>>}
    BY <1>1 DEF At
<1>6. \A e \in Devices, n \in 1 .. MaxMade : Handled(e, n) => Handled(e, n)'
    BY <1>3, <1>5 DEF Handled
<1>7. \A n \in 1 .. MaxMade : n = made[d] + 1 => Handled(d, n)'
    BY <1>3, <1>4 DEF Handled
<1>8. \A e \in Devices, n \in 1 .. MaxMade :
          n <= made'[e] => n <= made[e] \/ (e = d /\ n = made[d] + 1)
    <2>1. ASSUME NEW n \in 1 .. MaxMade, n <= made[d] + 1 PROVE n <= made[d] \/ n = made[d] + 1
        <3>1. PICK m \in Nat : m = made[d]
            BY <1>2
        <3>2. n \in Int /\ n <= m + 1 => n <= m \/ n = m + 1
            BY <3>1
        <3>3. QED
            BY <2>1, <3>1, <3>2, LifecycleAssumption
    <2>2. QED
        BY <1>3, <2>1
<1>9. QED
    BY <1>1, <1>6, <1>7, <1>8 DEF NoneLost

\* addDevice loses no device: it puts in the map the one it lets go of.
LEMMA AddLoses ==
    ASSUME LifecycleInv, NoneLost, NEW t \in Threads, NEW d \in Devices, addDevice(t, d)
    PROVE  NoneLost'
<1>1. /\ Plans /\ At(t, "put", d) /\ Done(t) /\ UNCHANGED <<made, inc, closed, shutdownProcessor>>
      /\ deviceMap' = [deviceMap EXCEPT ![d] = inc[t]]
    BY DEF addDevice, LifecycleInv, rest, localVars
<1>2. Claim(todo[t], d)
    BY <1>1 DEF At, Claim
<1>3. deviceMap[d] = 0 /\ deviceMap'[d] = inc[t] /\ \A e \in Devices \ {d} : deviceMap'[e] = deviceMap[e]
    BY <1>1, <1>2 DEF LifecycleInv, Claims, LifecycleTypeOK
<1>4. \A u \in Threads \ {t} : todo'[u] = todo[u]
    BY <1>1 DEF Done, Plans
<1>5. \A e \in Devices, n \in 1 .. MaxMade : Handled(e, n) => Handled(e, n)' \/ (e = d /\ inc[t] = n)
    BY <1>1, <1>4 DEF Handled, At
<1>6. \A e \in Devices, n \in 1 .. MaxMade : deviceMap[e] = n => deviceMap'[e] = n
    BY <1>3
<1>7. QED
    BY <1>1, <1>3, <1>5, <1>6 DEF NoneLost

\* Taking a device out of the map loses none: the thread is to tear it down.
LEMMA RemoveLoses ==
    ASSUME LifecycleInv, NoneLost, NEW t \in Threads, NEW d \in Devices, removeDevice(t, d),
           Moves(t, "remove", d)
    PROVE  NoneLost'
<1>1. /\ Plans /\ At(t, "remove", d) /\ UNCHANGED <<made, closed, shutdownProcessor>>
      /\ inc' = [inc EXCEPT ![t] = deviceMap[d]]
      /\ deviceMap' = [deviceMap EXCEPT ![d] = 0]
      /\ deviceMap[d] # 0 => Done(t)
    BY DEF removeDevice, LifecycleInv, rest
<1>2. /\ deviceMap'[d] = 0 /\ \A e \in Devices \ {d} : deviceMap'[e] = deviceMap[e]
      /\ inc'[t] = deviceMap[d]
      /\ \A u \in Threads \ {t} : todo'[u] = todo[u] /\ inc'[u] = inc[u]
    BY <1>1, MovesLeave DEF LifecycleInv, LifecycleTypeOK
<1>3. deviceMap[d] # 0 => todo'[t] # <<>> /\ Head(todo'[t]) = <<"tearDown", d>>
    <2>1. Plan(t, todo[t]) /\ todo[t] # <<>> /\ Head(todo[t]) = <<"remove", d>>
        BY <1>1 DEF Plans, At
    <2>2. deviceMap[d] # 0 => todo'[t] = Tail(todo[t])
        BY <1>1 DEF Plans, Done
    <2>3. QED
        BY <2>1, <2>2, ClaimAfter
<1>4. \A e \in Devices, n \in 1 .. MaxMade : Handled(e, n) => Handled(e, n)'
    BY <1>1, <1>2 DEF Handled, At
<1>5. \A e \in Devices, n \in 1 .. MaxMade : deviceMap[e] = n => deviceMap'[e] = n \/ Handled(e, n)'
    <2>1. \A n \in 1 .. MaxMade : n # 0
        BY LifecycleAssumption
    <2>2. QED
        BY <1>2, <1>3, <2>1 DEF Handled
<1>6. QED
    BY <1>1, <1>4, <1>5 DEF NoneLost

\* close loses no device: the pin is free with it.
LEMMA CloseLoses ==
    ASSUME LifecycleInv, NoneLost, NEW t \in Threads, NEW d \in Devices, close(t, d)
    PROVE  NoneLost'
<1>1. /\ Plans /\ At(t, "tearDown", d) /\ Done(t) /\ UNCHANGED <<made, inc, deviceMap, shutdownProcessor>>
      /\ closed' = closed \cup {<<d, inc[t]>>}
    BY DEF close, LifecycleInv, rest, localVars
<1>2. \A u \in Threads \ {t} : todo'[u] = todo[u]
    BY <1>1 DEF Done, Plans
<1>3. \A e \in Devices, n \in 1 .. MaxMade : Handled(e, n) => Handled(e, n)' \/ (e = d /\ inc[t] = n)
    BY <1>1, <1>2 DEF Handled, At
<1>4. QED
    BY <1>1, <1>3 DEF NoneLost

\* The map is cleared in a shutdown only.
LEMMA ClearLoses ==
    ASSUME LifecycleInv, Orderly, NEW t \in Threads, NEW d \in Devices, ClearMap(t, d)
    PROVE  NoneLost'
<1>1. Plan(t, todo[t]) /\ todo[t] # <<>> /\ Head(todo[t]) = <<"clear", d>> /\ UNCHANGED shutdownProcessor
    BY DEF LifecycleInv, Plans, ClearMap, At, rest
<1>2. 1 \in DOMAIN todo[t] /\ todo[t][1][1] = "clear"
    BY <1>1, TailOfPlan
<1>3. ~ \E j \in 1 .. 1 - 1 : todo[t][j][1] = "setFlag"
    OBVIOUS
<1>4. shutdownProcessor
    BY <1>2, <1>3 DEF Orderly, Flagged
<1>5. QED
    BY <1>1, <1>4 DEF NoneLost

\* A step that changes no thread's claim and does not touch the map loses no device.
LEMMA ElseLoses ==
    ASSUME NoneLost, UNCHANGED <<mapVars, inc>>, shutdownProcessor => shutdownProcessor',
           \A u \in Threads : todo'[u] = todo[u] \/ \A e \in Devices :
               todo[u] = <<>> \/ Head(todo[u]) \notin {<<"put", e>>, <<"tearDown", e>>}
    PROVE  NoneLost'
<1>1. \A e \in Devices, n \in 1 .. MaxMade : Handled(e, n) => Handled(e, n)'
    BY DEF Handled
<1>2. QED
    BY <1>1 DEF NoneLost, mapVars

LostInv == LifecycleInv /\ Orderly /\ NoneLost

\* No step of a thread loses a device.
LEMMA StepLoses ==
    ASSUME LostInv, NEW t \in Threads, Step(t)
    PROVE  Orderly' /\ NoneLost'
<1>1. PICK d \in Devices :
        \/ PassNode(t, d) \/ lookupDevice(t, d) \/ execute(t, d) \/ update(t, d) \/ Trigger(t, d)
        \/ loadDevice(t, d) \/ EnterCreate(t, d) \/ buildDevice(t, d) \/ addDevice(t, d)
        \/ loadSavedState(t, d) \/ LeaveCreate(t, d)
        \/ removeDevice(t, d) \/ close(t, d) \/ ClearMap(t, d)
        \/ Find(t, d) \/ getCurrentDeviceState(t, d) \/ FindNew(t, d) \/ loadSavedData(t, d)
        \/ Collect(t, d) \/ Write(t, d) \/ loadDeviceStatesIntoDatabaseCache(t, d)
        \/ TestFlag(t, d) \/ SetFlag(t, d) \/ Notify(t, d)
    BY DEF Step
<1>2. LifecycleInv /\ Orderly /\ NoneLost /\ Plans
    BY DEF LostInv, LifecycleInv
<1>3. CASE Notify(t, d)
    <2>1. Orderly'
        BY <1>2, <1>3, NotifyOrderly
    <2>2. UNCHANGED <<mapVars, inc, shutdownProcessor>> /\ At(t, "notify", d)
        BY <1>3 DEF Notify, localVars, rest
    <2>3. ASSUME NEW u \in Threads
          PROVE  todo'[u] = todo[u] \/ \A e \in Devices :
                     todo[u] = <<>> \/ Head(todo[u]) \notin {<<"put", e>>, <<"tearDown", e>>}
        <3>1. todo'[u] = todo[u] \/ u = t \/ At(u, "wait", First)
            BY <1>3 DEF Notify
        <3>2. QED
            BY <2>2, <3>1 DEF At
    <2>4. QED
        BY <1>2, <2>1, <2>2, <2>3, ElseLoses
<1>4. CASE ~ Notify(t, d)
    <2>1. PICK op : Moves(t, op, d)
        BY <1>1, <1>2, <1>4, StepMoves
    <2>2. Orderly'
        BY <1>2, <2>1, MovesOrderly
    <2>3. \A o : At(t, o, d) => o = op
        BY <2>1 DEF Moves, At
    <2>4. CASE op \in {"put", "remove", "tearDown", "clear"} \/ (op = "build" /\ provisioner[d] = 0)
        <3>1. \/ addDevice(t, d) \/ removeDevice(t, d) \/ close(t, d) \/ ClearMap(t, d)
              \/ buildDevice(t, d) /\ provisioner[d] = 0
            BY <1>1, <1>4, <2>3, <2>4
               DEF PassNode, lookupDevice, execute, update, Trigger, loadDevice, EnterCreate,
                   buildDevice, loadSavedState, LeaveCreate, Find, getCurrentDeviceState, FindNew,
                   loadSavedData, Collect, Write, loadDeviceStatesIntoDatabaseCache, TestFlag, SetFlag
        <3>2. removeDevice(t, d) => op = "remove"
            BY <2>3 DEF removeDevice
        <3>3. QED
            BY <1>2, <2>1, <2>2, <3>1, <3>2, AddLoses, RemoveLoses, CloseLoses, ClearLoses, BuildLoses
    <2>5. CASE op \notin {"put", "remove", "tearDown", "clear"} /\ ~ (op = "build" /\ provisioner[d] = 0)
        <3>1. UNCHANGED mapVars /\ \A u \in Threads \ {t} : inc'[u] = inc[u]
            <4>1. inc \in [Threads -> 0 .. MaxMade]
                BY <1>2 DEF LifecycleInv, LifecycleTypeOK
            <4>2. UNCHANGED mapVars /\ (inc' = inc \/ \E n : inc' = [inc EXCEPT ![t] = n])
                BY <1>1, <1>4, <2>3, <2>5
                   DEF PassNode, lookupDevice, execute, update, Trigger, loadDevice, EnterCreate,
                       buildDevice, addDevice, loadSavedState, LeaveCreate, removeDevice, close,
                       ClearMap, Find, getCurrentDeviceState, FindNew, loadSavedData, Collect, Write,
                       loadDeviceStatesIntoDatabaseCache, TestFlag, SetFlag, localVars, mapVars
            <4>3. QED
                BY <4>1, <4>2
        <3>2. QED
            BY <1>2, <2>1, <2>2, <2>5, <3>1, QuietLoses
    <2>6. QED
        BY <2>4, <2>5
<1>5. QED
    BY <1>3, <1>4

\* The other steps: they end a thread's plan, begin one, or end the life.
LEMMA OutsideLoses ==
    ASSUME "reload_all" \notin Kinds, LostInv,
           \/ Exit \/ Signal \/ Crash \/ Boot \/ SaveDue
           \/ \E u \in Users, kind \in Kinds, d \in Devices, v \in States : Request(u, kind, d, v)
    PROVE  Orderly' /\ NoneLost'
<1>1. LifecycleInv /\ Orderly /\ NoneLost /\ Plans
    BY DEF LostInv, LifecycleInv
<1>2. /\ "main" \in Threads /\ "hook" \in Threads /\ "db" \in Threads
      /\ Apart(<<>>) /\ Flagged(<<>>) /\ Apart(hook) /\ Flagged(hook) /\ Apart(save) /\ Flagged(save)
    BY MainOrderly, HookOrderly DEF Threads
<1>3. ASSUME NEW t \in Threads, NEW s, Apart(s), Flagged(s), todo[t] = <<>>,
             todo' = [todo EXCEPT ![t] = s], UNCHANGED <<mapVars, inc, shutdownProcessor>>
      PROVE  Orderly' /\ NoneLost'
    <2>1. todo'[t] = s /\ \A u \in Threads \ {t} : todo'[u] = todo[u]
        BY <1>1, <1>3 DEF Plans
    <2>2. Orderly'
        BY <1>1, <1>3, <2>1 DEF Orderly
    <2>3. NoneLost'
        BY <1>1, <1>3, <2>1, ElseLoses
    <2>4. QED
        BY <2>2, <2>3
<1>4. CASE EnterWait
    <2>1. Moves("main", "enterWait", First) /\ UNCHANGED <<mapVars, inc>>
        BY <1>4 DEF EnterWait, Moves, rest, localVars
    <2>2. Orderly'
        BY <1>1, <1>2, <2>1, MovesOrderly
    <2>3. NoneLost'
        BY <1>1, <1>2, <2>1, QuietLoses
    <2>4. QED
        BY <2>2, <2>3
<1>5. CASE SystemExit
    <2>1. /\ At("main", "exit", First) /\ UNCHANGED <<mapVars, inc, shutdownProcessor>>
          /\ todo' = [todo EXCEPT !["main"] = <<>>, !["hook"] = IF @ = <<>> THEN hook ELSE @]
        BY <1>5 DEF SystemExit, rest, localVars
    <2>2. /\ todo'["main"] = <<>> /\ todo'["hook"] \in {todo["hook"], hook}
          /\ todo'["hook"] = todo["hook"] \/ todo["hook"] = <<>>
          /\ \A u \in Threads \ {"main", "hook"} : todo'[u] = todo[u]
        BY <1>1, <1>2, <2>1 DEF Plans
    <2>3. Orderly'
        BY <1>1, <1>2, <2>1, <2>2 DEF Orderly
    <2>4. ASSUME NEW u \in Threads
          PROVE  todo'[u] = todo[u] \/ \A e \in Devices :
                     todo[u] = <<>> \/ Head(todo[u]) \notin {<<"put", e>>, <<"tearDown", e>>}
        <3>1. Head(todo["main"]) = <<"exit", First>>
            BY <2>1 DEF At
        <3>2. CASE u = "main"
            BY <3>1, <3>2
        <3>3. CASE u = "hook"
            BY <2>2, <3>3
        <3>4. CASE u \notin {"main", "hook"}
            BY <2>2, <3>4
        <3>5. QED
            BY <3>2, <3>3, <3>4
    <2>5. NoneLost'
        BY <1>1, <2>1, <2>4, ElseLoses
    <2>6. QED
        BY <2>3, <2>5
<1>6. CASE Halt \/ Crash
    BY <1>1, <1>6 DEF Halt, Crash, Orderly, NoneLost, Handled, mapVars, localVars
<1>7. CASE Signal
    BY <1>2, <1>3, <1>7 DEF Signal, localVars
<1>8. CASE SaveDue
    BY <1>2, <1>3, <1>8 DEF SaveDue, localVars
<1>9. CASE Boot
    <2>1. made' = [d \in Devices |-> 0] /\ shutdownProcessor' = FALSE
          /\ todo' = [t \in Threads |-> IF t = "main" THEN main ELSE <<>>]
        BY <1>9 DEF Boot
    <2>2. Orderly'
        BY <2>1, MainOrderly DEF Orderly
    <2>3. \A n \in 1 .. MaxMade : ~ (n <= 0)
        BY LifecycleAssumption
    <2>4. NoneLost'
        BY <2>1, <2>3 DEF NoneLost
    <2>5. QED
        BY <2>2, <2>4
<1>10. ASSUME NEW u \in Users, NEW kind \in Kinds, NEW d \in Devices, NEW v \in States,
              Request(u, kind, d, v)
       PROVE  Orderly' /\ NoneLost'
    <2>1. PICK s : s = scheduleAction(kind, d)
        OBVIOUS
    <2>2. Apart(s) /\ Flagged(s) /\ u \in Threads
        BY <2>1, RequestOrderly DEF Threads
    <2>3. todo[u] = <<>> /\ todo' = [todo EXCEPT ![u] = s] /\ UNCHANGED <<mapVars, inc, shutdownProcessor>>
        BY <1>10, <2>1 DEF Request
    <2>4. QED
        BY <1>3, <2>2, <2>3
<1>11. QED
    BY <1>4, <1>5, <1>6, <1>7, <1>8, <1>9, <1>10 DEF Exit

\* Every incarnation that was ever built is in the map, torn down, or about to be mapped or
\* torn down by the thread that holds it, unless a shutdown is under way: no order of loads,
\* reloads, closes, crashes and restarts leaves a device that nobody can close.  The hypothesis
\* is about what users ask for: RELOAD_DEVICES clears the map while the processor goes on, and
\* without it the clearing is the last thing a life does.
THEOREM NoDeviceLost ==
    ASSUME "reload_all" \notin Kinds
    PROVE  LifecycleSpec => []NoneLost
<1>1. LifecycleInit => LostInv
    <2>1. SUFFICES ASSUME LifecycleInit PROVE LostInv
        OBVIOUS
    <2>2. LifecycleInv
        BY <2>1, InitKeeps
    <2>3. made = [d \in Devices |-> 0] /\ todo = [t \in Threads |-> IF t = "main" THEN main ELSE <<>>]
        BY <2>1 DEF LifecycleInit
    <2>4. Orderly
        BY <2>3, MainOrderly DEF Orderly
    <2>5. \A n \in 1 .. MaxMade : ~ (n <= 0)
        BY LifecycleAssumption
    <2>6. NoneLost
        BY <2>3, <2>5 DEF NoneLost
    <2>7. QED
        BY <2>2, <2>4, <2>6 DEF LostInv
<1>2. LostInv /\ [LifecycleNext]_lifecycleVars => LostInv'
    <2>1. SUFFICES ASSUME LostInv, [LifecycleNext]_lifecycleVars PROVE LostInv'
        OBVIOUS
    <2>2. LifecycleInv'
        BY <2>1, LifecycleInvNext DEF LostInv
    <2>3. CASE \E t \in Threads : Step(t)
        BY <2>1, <2>2, <2>3, StepLoses DEF LostInv
    <2>4. CASE UNCHANGED lifecycleVars
        BY <2>1, <2>2, <2>4 DEF lifecycleVars, LostInv, Orderly, NoneLost, Handled
    <2>5. CASE \/ Exit \/ Signal \/ Crash \/ Boot \/ SaveDue
               \/ \E u \in Users, kind \in Kinds, d \in Devices, v \in States : Request(u, kind, d, v)
        BY <2>1, <2>2, <2>5, OutsideLoses DEF LostInv
    <2>6. QED
        BY <2>1, <2>3, <2>4, <2>5 DEF LifecycleNext
<1>3. LostInv => NoneLost
    BY DEF LostInv
<1>4. QED
    BY <1>1, <1>2, <1>3, PTL DEF LifecycleSpec

-----------------------------------------------------------------------------
(* A restart restores what was saved: main, alone until it waits.          *)

\* The saved states are loaded first, and main waits after it said it would.
InTurn(s) ==
    \A i \in DOMAIN s : /\ s[i][1] = "loadStates" => i = 1
                        /\ s[i][1] = "wait" /\ i # 1 => s[i - 1][1] = "enterWait"

\* Main has built d and has not restored it yet.
Pending(d) == todo["main"] # <<>> /\ Head(todo["main"]) \in {<<"put", d>>, <<"restore", d>>}

Starting == ended = "no" /\ "enterWait" \in OpsIn(todo["main"])

\* Until main waits nobody else runs, a device is built at most once, and what the cache of
\* the saved states holds is what the table holds, but for devices that have taken it over.
Restored ==
    /\ \A t \in Threads \ {"main"} : todo[t] = <<>>
    /\ \A d \in Devices : made[d] \in {0, 1} /\ provisioner[d] = made[d]
    /\ \A d \in Devices : Pending(d) => made[d] = 1
    /\ "loadStates" \in OpsIn(todo["main"]) =>
           \A d \in Devices : made[d] = 0 /\ databaseSavedStates[d] = None
    /\ "loadStates" \notin OpsIn(todo["main"]) => \A d \in Devices :
           /\ made[d] = 0 \/ Pending(d) => databaseSavedStates[d] = table[d]
           /\ made[d] = 1 /\ ~ Pending(d) => table[d] \in {None, pin[d]}

StartInv == LifecycleInv /\ InTurn(todo["main"]) /\ (Starting => Restored)

\* A suffix takes its steps in turn.
LEMMA InTurnSuffix ==
    ASSUME NEW t, NEW s, Plan(t, s), InTurn(s), NEW k \in 1 .. Len(s)
    PROVE  InTurn(SubSeq(s, k, Len(s)))
<1>1. PICK r : r = SubSeq(s, k, Len(s))
    OBVIOUS
<1>2. PICK n \in Nat : n = Len(s)
    BY LenProperties DEF Plan
<1>3. /\ DOMAIN r = 1 .. n - k + 1 /\ k \in 1 .. n
      /\ \A i \in 1 .. n - k + 1 : r[i] = s[k + i - 1] /\ k + i - 1 \in DOMAIN s
    BY <1>1, <1>2, SuffixOps
<1>4. ASSUME NEW i \in 1 .. n - k + 1
      PROVE  /\ r[i][1] = "loadStates" => i = 1
             /\ r[i][1] = "wait" /\ i # 1 => r[i - 1][1] = "enterWait"
    <2>1. r[i][1] = "loadStates" => i = 1
        <3>1. SUFFICES ASSUME r[i][1] = "loadStates" PROVE i = 1
            OBVIOUS
        <3>2. k + i - 1 = 1
            BY <1>3, <3>1 DEF InTurn
        <3>3. QED
            BY <1>2, <1>3, <3>2
    <2>2. ASSUME r[i][1] = "wait", i # 1 PROVE r[i - 1][1] = "enterWait"
        <3>1. k + i - 1 # 1 /\ i - 1 \in 1 .. n - k + 1 /\ k + (i - 1) - 1 = (k + i - 1) - 1
            BY <1>2, <1>3, <2>2, Shift
        <3>2. s[(k + i - 1) - 1][1] = "enterWait"
            BY <1>3, <2>2, <3>1 DEF InTurn
        <3>3. QED
            BY <1>3, <3>1, <3>2
    <2>3. QED
        BY <2>1, <2>2
<1>5. QED
    BY <1>1, <1>3, <1>4 DEF InTurn

\* What is left after a step, and what came before it.
LEMMA InTurnTail ==
    ASSUME NEW t, NEW s, Plan(t, s), InTurn(s), s # <<>>
    PROVE  /\ InTurn(Tail(s)) /\ "loadStates" \notin OpsIn(Tail(s))
           /\ Tail(s) # <<>> /\ Head(Tail(s))[1] = "wait" => Head(s)[1] = "enterWait"
           /\ Head(s)[1] # "loadStates" => "loadStates" \notin OpsIn(s)
           /\ \A d \in Devices : /\ Head(s) = <<"put", d>> =>
                                        Tail(s) # <<>> /\ Head(Tail(s)) = <<"restore", d>>
                                 /\ Tail(s) # <<>> /\ Head(Tail(s)) = <<"put", d>> => Head(s)[1] = "build"
                                 /\ Tail(s) # <<>> /\ Head(Tail(s)) = <<"restore", d>> => Head(s)[1] = "put"
<1>1. s \in Seq(OpsOf(t) \X Devices) /\ DOMAIN s = 1 .. Len(s) /\ Chained(s)
    BY LenProperties DEF Plan
<1>2. PICK n \in Nat \ {0} : n = Len(s)
    BY <1>1, EmptySeq
<1>3. PICK r : r = Tail(s)
    OBVIOUS
<1>4. /\ r \in Seq(OpsOf(t) \X Devices) /\ Len(r) = n - 1
      /\ \A i \in 1 .. n - 1 : r[i] = s[i + 1]
    BY <1>1, <1>2, <1>3, HeadTailProperties
<1>5. DOMAIN r = 1 .. n - 1
    BY <1>4, LenProperties
<1>6. \A i \in 1 .. n - 1 : i + 1 \in 1 .. n /\ i + 1 # 1 /\ (i + 1) - 1 = i
    BY <1>2
<1>7. \A i \in 1 .. n - 1 : i # 1 => i - 1 \in 1 .. n - 1 /\ (i - 1) + 1 = i
    OBVIOUS
<1>8. \A i \in 1 .. n - 1 : r[i][1] # "loadStates" /\ (r[i][1] = "wait" => s[i][1] = "enterWait")
    <2>1. SUFFICES ASSUME NEW i \in 1 .. n - 1
                   PROVE  r[i][1] # "loadStates" /\ (r[i][1] = "wait" => s[i][1] = "enterWait")
        OBVIOUS
    <2>2. i + 1 \in DOMAIN s /\ i + 1 # 1 /\ (i + 1) - 1 = i /\ r[i] = s[i + 1]
        BY <1>1, <1>2, <1>4, <1>6
    <2>3. /\ s[i + 1][1] = "loadStates" => i + 1 = 1
          /\ s[i + 1][1] = "wait" /\ i + 1 # 1 => s[(i + 1) - 1][1] = "enterWait"
        BY <2>2 DEF InTurn
    <2>4. QED
        BY <2>2, <2>3
<1>9. InTurn(r) /\ "loadStates" \notin OpsIn(r)
    <2>1. \A i \in 1 .. n - 1 : r[i][1] = "wait" /\ i # 1 => r[i - 1][1] = "enterWait"
        BY <1>4, <1>7, <1>8
    <2>2. InTurn(r)
        BY <1>5, <1>8, <2>1 DEF InTurn
    <2>3. QED
        BY <1>5, <1>8, <2>2 DEF OpsIn
<1>10. /\ Head(s) = s[1] /\ 1 \in DOMAIN s
       /\ r # <<>> => 2 \in DOMAIN s /\ Head(r) = s[2] /\ 1 \in 1 .. n - 1 /\ r[1] = s[2]
       /\ 2 \in DOMAIN s => r # <<>> /\ Head(r) = s[2]
    <2>1. /\ Head(s) = s[1] /\ 1 \in DOMAIN s
          /\ r # <<>> => 2 \in DOMAIN s /\ Head(r) = s[2]
          /\ r = <<>> => 2 \notin DOMAIN s
        BY <1>3, TailOfPlan
    <2>2. 2 \in DOMAIN s => 1 \in 1 .. n - 1 /\ 1 + 1 = 2
        BY <1>1, <1>2
    <2>3. QED
        BY <1>4, <2>1, <2>2
<1>11. r # <<>> /\ Head(r)[1] = "wait" => Head(s)[1] = "enterWait"
    BY <1>8, <1>10
<1>12. Head(s)[1] # "loadStates" => "loadStates" \notin OpsIn(s)
    BY <1>1, <1>10 DEF InTurn, OpsIn
<1>13. ASSUME NEW d \in Devices
       PROVE  /\ Head(s) = <<"put", d>> => r # <<>> /\ Head(r) = <<"restore", d>>
              /\ r # <<>> /\ Head(r) = <<"put", d>> => Head(s)[1] = "build"
              /\ r # <<>> /\ Head(r) = <<"restore", d>> => Head(s)[1] = "put"
    <2>1. /\ s[1][1] = "put" => 1 + 1 \in DOMAIN s /\ s[1 + 1] = <<"restore", s[1][2]>>
          /\ 2 \in DOMAIN s /\ s[2][1] = "put" /\ 2 # 1 => s[2 - 1][1] = "build"
          /\ 2 \in DOMAIN s /\ s[2][1] = "restore" /\ 2 # 1 => s[2 - 1][1] = "put"
        BY <1>1, <1>10 DEF Chained, Tied
    <2>2. 1 + 1 = 2 /\ 2 # 1 /\ 2 - 1 = 1
        OBVIOUS
    <2>3. QED
        BY <1>10, <2>1, <2>2
<1>14. QED
    BY <1>3, <1>9, <1>11, <1>12, <1>13

\* A single step.
LEMMA OneStep ==
    ASSUME NEW op, op \notin Ties
    PROVE  /\ For(First, <<op>>) # <<>> /\ Head(For(First, <<op>>)) = <<op, First>>
           /\ OpsIn(For(First, <<op>>)) = {op} /\ Tail(For(First, <<op>>)) = <<>>
<1>1. For(First, <<op>>) = <<<<op, First>>>>
    BY DEF For
<1>2. PICK s : s = <<<<op, First>>>>
    OBVIOUS
<1>3. s # <<>> /\ Head(s) = <<op, First>> /\ Tail(s) = <<>> /\ DOMAIN s = {1} /\ s[1] = <<op, First>>
    BY <1>2
<1>4. OpsIn(s) = {op}
    BY <1>3 DEF OpsIn
<1>5. QED
    BY <1>1, <1>2, <1>3, <1>4

\* Main's steps are in turn, and the first one loads the saved states.
LEMMA MainInTurn ==
    InTurn(main) /\ "loadStates" \in OpsIn(main) /\ Head(main)[1] = "loadStates"
<1>1. PICK a : a = For(First, <<"loadStates">>)
    OBVIOUS
<1>2. PICK b : b = ForAll(<<"create", "build", "put", "restore", "leave">>)
    OBVIOUS
<1>3. PICK c : c = For(First, <<"enterWait", "wait">>)
    OBVIOUS
<1>4. PICK ab : ab = a \o b
    OBVIOUS
<1>5. main = ab \o c
    BY <1>1, <1>2, <1>3, <1>4 DEF main
<1>6. Whole(MainOps, a) /\ a # <<>> /\ Head(a)[1] = "loadStates" /\ OpsIn(a) = {"loadStates"} /\ Len(a) = 1
    <2>1. a = <<<<"loadStates", First>>>>
        BY <1>1 DEF For
    <2>2. Whole(MainOps, a)
        BY <1>1, OneWhole, FirstIsDevice DEF Ties, Inner, MainOps
    <2>3. QED
        BY <2>1, <2>2 DEF OpsIn
<1>7. Whole(CreateOps, b) /\ Whole(MainOps, b) /\ OpsIn(b) \subseteq CreateOps
    <2>1. CreateOps \subseteq MainOps
        BY DEF CreateOps, MainOps
    <2>2. QED
        BY <1>2, <2>1, CreateAllWhole, WholeWider, OpsOfWhole
<1>8. /\ Whole(MainOps, c) /\ DOMAIN c = 1 .. 2 /\ c[1][1] = "enterWait" /\ c[2][1] = "wait"
    <2>1. c = <<<<"enterWait", First>>, <<"wait", First>>>>
        BY <1>3 DEF For
    <2>2. PICK ops : ops = <<"enterWait", "wait">>
        OBVIOUS
    <2>3. ops \in Seq({"enterWait", "wait"}) /\ {"enterWait", "wait"} \cap Ties = {}
        BY <2>2 DEF Ties, Inner
    <2>4. Whole({"enterWait", "wait"}, For(First, ops))
        BY <2>3, ForWhole, FirstIsDevice
    <2>5. {"enterWait", "wait"} \subseteq MainOps
        BY DEF MainOps
    <2>6. QED
        BY <1>3, <2>1, <2>2, <2>4, <2>5, WholeWider
<1>9. Whole(MainOps, ab)
    BY <1>4, <1>6, <1>7, ConcatWhole
<1>10. PICK m, n \in Nat : Joined(a, b, ab, m, n)
    BY <1>4, <1>6, <1>7, ConcatAt
<1>11. m = 1
    <2>1. DOMAIN a = 1 .. 1 /\ DOMAIN a = 1 .. m
        BY <1>6, <1>10, LenProperties DEF Joined, Whole
    <2>2. QED
        BY <2>1
<1>12. /\ DOMAIN ab = 1 .. n + 1 /\ ab[1][1] = "loadStates"
       /\ \A i \in 1 .. n + 1 : i # 1 => ab[i][1] \in CreateOps
    <2>1. DOMAIN ab = 1 .. n + 1 /\ DOMAIN a = 1 .. 1 /\ DOMAIN b = 1 .. n
          /\ \A i \in 1 .. n + 1 : ab[i] = IF i <= 1 THEN a[i] ELSE b[i - 1]
        <3>1. 1 + n = n + 1
            OBVIOUS
        <3>2. QED
            BY <1>10, <1>11, <3>1 DEF Joined
    <2>2. ab[1] = a[1] /\ a[1] = Head(a)
        BY <2>1
    <2>3. ASSUME NEW i \in 1 .. n + 1, i # 1 PROVE ab[i][1] \in CreateOps
        <3>1. ab[i] = b[i - 1] /\ i - 1 \in 1 .. n
            BY <2>1, <2>3
        <3>2. QED
            BY <1>7, <2>1, <3>1 DEF OpsIn
    <2>4. QED
        BY <1>6, <2>1, <2>2, <2>3
<1>13. PICK s : s = main
    OBVIOUS
<1>14. PICK j, k \in Nat : Joined(ab, c, s, j, k)
    BY <1>5, <1>8, <1>9, <1>13, ConcatAt
<1>15. j = n + 1 /\ k = 2
    <2>1. 1 .. j = 1 .. n + 1 /\ 1 .. k = 1 .. 2
        BY <1>8, <1>12, <1>14 DEF Joined
    <2>2. QED
        BY <2>1
<1>16. /\ DOMAIN s = 1 .. n + 3
       /\ \A i \in 1 .. n + 3 : s[i] = IF i <= n + 1 THEN ab[i] ELSE c[i - (n + 1)]
    <2>1. (n + 1) + 2 = n + 3
        OBVIOUS
    <2>2. QED
        BY <1>14, <1>15, <2>1 DEF Joined
<1>17. s[1][1] = "loadStates" /\ 1 \in DOMAIN s
    BY <1>12, <1>16
<1>18. ASSUME NEW i \in 1 .. n + 3
       PROVE  /\ s[i][1] = "loadStates" => i = 1
              /\ s[i][1] = "wait" /\ i # 1 => s[i - 1][1] = "enterWait"
    <2>1. CASE i <= n + 1
        BY <1>12, <1>16, <2>1 DEF CreateOps
    <2>2. CASE i = n + 2
        <3>1. s[i] = c[1]
            BY <1>16, <2>2
        <3>2. QED
            BY <1>8, <3>1
    <2>3. CASE i = n + 3
        <3>1. s[i] = c[2] /\ s[i - 1] = c[1]
            BY <1>16, <2>3
        <3>2. QED
            BY <1>8, <3>1
    <2>4. QED
        BY <2>1, <2>2, <2>3
<1>19. Head(s) = s[1]
    BY <1>13, MainPlan, TailOfPlan
<1>20. QED
    BY <1>13, <1>16, <1>17, <1>18, <1>19 DEF InTurn, OpsIn

\* A step of main, or of a thread that runs while main waits, keeps main's steps in turn.
LEMMA MovesInTurn ==
    ASSUME Plans, InTurn(todo["main"]), NEW t \in Threads, NEW op, NEW d, Moves(t, op, d)
    PROVE  /\ InTurn(todo'["main"])
           /\ t # "main" => todo'["main"] = todo["main"]
           /\ t = "main" => \/ todo'["main"] = <<>> \/ todo'["main"] = Tail(todo["main"])
                            \/ todo'["main"] # <<>> /\ Head(todo'["main"])[1] \in {"leave", "setLock", "halt"}
<1>1. Plan(t, todo[t]) /\ todo[t] # <<>> /\ Head(todo[t])[1] = op /\ "main" \in Threads
    BY DEF Plans, Moves, At, Threads
<1>2. CASE t # "main"
    BY <1>1, <1>2, MovesLeave
<1>3. CASE t = "main"
    <2>1. op \in MainOps
        BY <1>3, StepOf DEF Moves, OpsOf
    <2>2. op # "remove"
        BY <2>1 DEF MainOps
    <2>3. CASE Done(t)
        <3>1. todo'["main"] = Tail(todo["main"])
            BY <1>1, <1>3, <2>3 DEF Done, Plans
        <3>2. QED
            BY <1>1, <1>3, <3>1, InTurnTail
    <2>4. CASE Throw(t)
        <3>1. todo'["main"] = <<>>
            BY <1>1, <1>3, <2>4 DEF Throw, Plans
        <3>2. InTurn(<<>>)
            BY DEF InTurn
        <3>3. QED
            BY <1>3, <3>1, <3>2
    <2>5. ASSUME NEW goal \in {"leave", "setLock", "halt"},
                 \E i \in DOMAIN todo[t] : todo[t][i][1] = goal, SkipTo(t, goal)
          PROVE  InTurn(todo'["main"]) /\ todo'["main"] # <<>> /\ Head(todo'["main"])[1] = goal
        <3>1. /\ todo'[t] # <<>> /\ Head(todo'[t])[1] = goal
              /\ \E k \in 1 .. Len(todo[t]) : todo'[t] = SubSeq(todo[t], k, Len(todo[t]))
            BY <1>1, <2>5, Skipped DEF Plans
        <3>2. InTurn(todo'[t])
            BY <1>1, <1>3, <3>1, InTurnSuffix
        <3>3. QED
            BY <1>3, <3>1, <3>2
    <2>6. QED
        BY <1>3, <2>2, <2>3, <2>4, <2>5 DEF Moves
<1>4. QED
    BY <1>2, <1>3

\* While main starts, main is the one that takes the step, and is not loading the saved
\* states unless it does so now.
LEMMA MainSteps ==
    ASSUME StartInv, Starting, Restored, NEW t \in Threads, NEW op, NEW d, At(t, op, d)
    PROVE  /\ t = "main" /\ op \in MainOps /\ d \in Devices
           /\ todo["main"] # <<>> /\ Head(todo["main"]) = <<op, d>> /\ Plan("main", todo["main"])
           /\ op # "loadStates" => "loadStates" \notin OpsIn(todo["main"])
<1>1. t = "main" /\ Plans /\ InTurn(todo["main"]) /\ "main" \in Threads
    BY DEF Restored, At, StartInv, LifecycleInv, Threads
<1>2. op \in MainOps /\ d \in Devices
    BY <1>1, StepOf DEF OpsOf
<1>3. todo["main"] # <<>> /\ Head(todo["main"]) = <<op, d>> /\ Plan("main", todo["main"])
    BY <1>1 DEF At, Plans
<1>4. op # "loadStates" => "loadStates" \notin OpsIn(todo["main"])
    BY <1>1, <1>3, InTurnTail
<1>5. QED
    BY <1>1, <1>2, <1>3, <1>4

\* After a step of main that neither builds, adds nor restores nothing is pending, and what
\* was restored stays so.
LEMMA PlainStep ==
    ASSUME StartInv, Starting, Restored, NEW op, NEW d, Moves("main", op, d),
           op \notin {"build", "put", "restore", "loadStates"} \/ Head(todo'["main"])[1] = "leave",
           op \notin {"put", "restore", "loadStates"},
           todo'["main"] # <<>>,
           UNCHANGED <<made, provisioner, databaseSavedStates, table, pin>>
    PROVE  Restored'
<1>1. "main" \in Threads /\ At("main", op, d) /\ Plans /\ InTurn(todo["main"])
    BY DEF Threads, Moves, StartInv, LifecycleInv
<1>2. /\ todo["main"] # <<>> /\ Head(todo["main"]) = <<op, d>> /\ Plan("main", todo["main"])
      /\ "loadStates" \notin OpsIn(todo["main"])
    BY <1>1, MainSteps
<1>3. \A u \in Threads \ {"main"} : todo'[u] = <<>>
    BY <1>1, MovesLeave DEF Restored
<1>4. OpsIn(todo'["main"]) \subseteq OpsIn(todo["main"])
    BY <1>1, MovesLeave
<1>5. \A e \in Devices : ~ Pending(e)
    BY <1>2 DEF Pending
<1>6. \A e \in Devices : Head(todo'["main"]) \notin {<<"put", e>>, <<"restore", e>>}
    <2>1. \/ todo'["main"] = Tail(todo["main"])
          \/ Head(todo'["main"])[1] \in {"leave", "setLock", "halt"}
        BY <1>1, MovesInTurn
    <2>2. CASE Head(todo'["main"])[1] \in {"leave", "setLock", "halt"}
        BY <2>2
    <2>3. CASE todo'["main"] = Tail(todo["main"]) /\ op \notin {"build", "put"}
        BY <1>1, <1>2, <2>3, InTurnTail
    <2>4. QED
        BY <2>1, <2>2, <2>3
<1>7. \A e \in Devices : ~ Pending(e)'
    BY <1>6 DEF Pending
<1>8. "loadStates" \notin OpsIn(todo'["main"])
    BY <1>2, <1>4
<1>9. QED
    BY <1>2, <1>3, <1>5, <1>7, <1>8 DEF Restored

\* What is pending, from main's next step.
LEMMA PendingAt ==
    ASSUME NEW op, NEW d, NEW e
    PROVE  /\ todo["main"] # <<>> /\ Head(todo["main"]) = <<op, d>> =>
                  (Pending(e) <=> op \in {"put", "restore"} /\ e = d)
           /\ todo'["main"] # <<>> /\ Head(todo'["main"]) = <<op, d>> =>
                  (Pending(e)' <=> op \in {"put", "restore"} /\ e = d)
           /\ todo'["main"] = <<>> => ~ Pending(e)'
<1>1. <<op, d>> \in {<<"put", e>>, <<"restore", e>>} <=> op \in {"put", "restore"} /\ e = d
    OBVIOUS
<1>2. QED
    BY <1>1 DEF Pending

\* The steps in which the saved states and the devices change.
LEMMA LoadingStep ==
    ASSUME StartInv, Starting, Restored, NEW d, loadDeviceStatesIntoDatabaseCache("main", d)
    PROVE  Restored'
<1>1. /\ "main" \in Threads /\ Plans /\ InTurn(todo["main"])
      /\ Moves("main", "loadStates", d) /\ At("main", "loadStates", d)
      /\ UNCHANGED <<made, provisioner, table, pin>>
      /\ databaseSavedStates' = [e \in Devices |-> IF table[e] = None THEN databaseSavedStates[e] ELSE table[e]]
      /\ todo'["main"] = Tail(todo["main"])
    BY DEF Threads, StartInv, LifecycleInv, loadDeviceStatesIntoDatabaseCache, Moves, rest, mapVars,
           Done, Plans
<1>2. todo["main"] # <<>> /\ Head(todo["main"]) = <<"loadStates", d>> /\ Plan("main", todo["main"])
    BY <1>1, MainSteps
<1>3. "loadStates" \in OpsIn(todo["main"])
    BY <1>2, TailOps
<1>4. \A u \in Threads \ {"main"} : todo'[u] = <<>>
    BY <1>1, MovesLeave DEF Restored
<1>5. /\ "loadStates" \notin OpsIn(todo'["main"])
      /\ todo'["main"] # <<>> => \A e \in Devices : Head(todo'["main"]) \notin {<<"put", e>>, <<"restore", e>>}
    <2>1. /\ "loadStates" \notin OpsIn(Tail(todo["main"]))
          /\ \A e \in Devices : Tail(todo["main"]) # <<>> =>
                /\ Head(Tail(todo["main"])) = <<"put", e>> => Head(todo["main"])[1] = "build"
                /\ Head(Tail(todo["main"])) = <<"restore", e>> => Head(todo["main"])[1] = "put"
        <3>1. InTurn(todo["main"])
            BY DEF StartInv
        <3>2. QED
            BY <1>2, <3>1, InTurnTail
    <2>2. Head(todo["main"])[1] = "loadStates"
        BY <1>2
    <2>3. QED
        BY <1>1, <2>1, <2>2
<1>6. \A e \in Devices : made'[e] = 0 /\ databaseSavedStates'[e] = table'[e] /\ ~ Pending(e)'
    BY <1>1, <1>3, <1>5 DEF Restored, Pending
<1>7. \A e \in Devices : made'[e] \in {0, 1} /\ provisioner'[e] = made'[e]
    BY <1>1 DEF Restored
<1>8. QED
    BY <1>4, <1>5, <1>6, <1>7 DEF Restored

\* Building a device while main starts: its restoring is pending.
LEMMA BuildingStep ==
    ASSUME StartInv, Starting, Restored, NEW d, buildDevice("main", d), provisioner[d] = 0
    PROVE  Restored'
<1>1. /\ "main" \in Threads /\ Plans /\ InTurn(todo["main"]) /\ LifecycleTypeOK
      /\ Moves("main", "build", d) /\ At("main", "build", d)
      /\ made' = [made EXCEPT ![d] = made[d] + 1]
      /\ provisioner' = [provisioner EXCEPT ![d] = made[d] + 1]
      /\ pin' = [pin EXCEPT ![d] = "off"]
      /\ UNCHANGED <<table, databaseSavedStates>>
      /\ todo'["main"] = Tail(todo["main"])
    BY DEF Threads, StartInv, LifecycleInv, buildDevice, Moves, rest, mapVars, Done, Plans
<1>2. /\ todo["main"] # <<>> /\ Head(todo["main"]) = <<"build", d>> /\ Plan("main", todo["main"])
      /\ "loadStates" \notin OpsIn(todo["main"]) /\ d \in Devices
    BY <1>1, MainSteps
<1>3. made[d] = 0 /\ made'[d] = 1 /\ provisioner'[d] = 1
      /\ \A e \in Devices \ {d} : made'[e] = made[e] /\ provisioner'[e] = provisioner[e] /\ pin'[e] = pin[e]
    BY <1>1, <1>2 DEF Restored, LifecycleTypeOK
<1>4. todo'["main"] # <<>> /\ Head(todo'["main"]) = <<"put", d>>
    BY <1>1, <1>2, ClaimAfter
<1>5. \A e \in Devices : ~ Pending(e) /\ (Pending(e)' <=> e = d)
    BY <1>2, <1>4, PendingAt
<1>6. \A u \in Threads \ {"main"} : todo'[u] = <<>>
    BY <1>1, MovesLeave DEF Restored
<1>7. "loadStates" \notin OpsIn(todo'["main"])
    BY <1>1, <1>2, MovesLeave
<1>8. \A e \in Devices : /\ made[e] = 0 => databaseSavedStates[e] = table[e]
                         /\ made[e] = 1 => table[e] \in {None, pin[e]}
                         /\ made[e] \in {0, 1} /\ provisioner[e] = made[e]
    BY <1>2, <1>5 DEF Restored
<1>9. ASSUME NEW e \in Devices
      PROVE  /\ made'[e] \in {0, 1} /\ provisioner'[e] = made'[e] /\ (Pending(e)' => made'[e] = 1)
             /\ made'[e] = 0 \/ Pending(e)' => databaseSavedStates'[e] = table'[e]
             /\ made'[e] = 1 /\ ~ Pending(e)' => table'[e] \in {None, pin'[e]}
    BY <1>1, <1>3, <1>5, <1>8
<1>10. QED
    BY <1>6, <1>7, <1>9 DEF Restored

\* Adding it: its restoring is pending still.
LEMMA AddingStep ==
    ASSUME StartInv, Starting, Restored, NEW d, addDevice("main", d)
    PROVE  Restored'
<1>1. /\ "main" \in Threads /\ Plans /\ InTurn(todo["main"])
      /\ Moves("main", "put", d) /\ At("main", "put", d)
      /\ UNCHANGED <<made, provisioner, pin, table, databaseSavedStates>>
      /\ todo'["main"] = Tail(todo["main"])
    BY DEF Threads, StartInv, LifecycleInv, addDevice, Moves, rest, stateVars, Done, Plans
<1>2. /\ todo["main"] # <<>> /\ Head(todo["main"]) = <<"put", d>> /\ Plan("main", todo["main"])
      /\ "loadStates" \notin OpsIn(todo["main"]) /\ d \in Devices
    BY <1>1, MainSteps
<1>3. todo'["main"] # <<>> /\ Head(todo'["main"]) = <<"restore", d>>
    BY <1>1, <1>2, InTurnTail
<1>4. \A e \in Devices : (Pending(e) <=> e = d) /\ (Pending(e)' <=> e = d)
    BY <1>2, <1>3, PendingAt
<1>5. \A u \in Threads \ {"main"} : todo'[u] = <<>>
    BY <1>1, MovesLeave DEF Restored
<1>6. "loadStates" \notin OpsIn(todo'["main"])
    BY <1>1, <1>2, MovesLeave
<1>7. QED
    BY <1>1, <1>2, <1>4, <1>5, <1>6 DEF Restored

\* Restoring it: its pin is what the table holds for it.
LEMMA RestoringStep ==
    ASSUME StartInv, Starting, Restored, NEW d, loadSavedState("main", d)
    PROVE  Restored'
<1>1. /\ "main" \in Threads /\ Plans /\ InTurn(todo["main"]) /\ LifecycleTypeOK
      /\ Moves("main", "restore", d) /\ At("main", "restore", d)
      /\ IF databaseSavedStates[d] = None THEN UNCHANGED pin ELSE SetPin(d, databaseSavedStates[d])
      /\ databaseSavedStates' = [databaseSavedStates EXCEPT ![d] = None]
      /\ UNCHANGED <<made, provisioner, table>>
      /\ todo'["main"] = Tail(todo["main"])
    BY DEF Threads, StartInv, LifecycleInv, loadSavedState, Moves, rest, mapVars, Done, Plans
<1>2. /\ todo["main"] # <<>> /\ Head(todo["main"]) = <<"restore", d>> /\ Plan("main", todo["main"])
      /\ "loadStates" \notin OpsIn(todo["main"]) /\ d \in Devices
    BY <1>1, MainSteps
<1>3. todo'["main"] # <<>> => \A e \in Devices : Head(todo'["main"]) \notin {<<"put", e>>, <<"restore", e>>}
    BY <1>1, <1>2, InTurnTail
<1>4. \A e \in Devices : (Pending(e) <=> e = d) /\ ~ Pending(e)'
    <2>1. \A e \in Devices : Pending(e) <=> e = d
        BY <1>2, PendingAt
    <2>2. \A e \in Devices : ~ Pending(e)'
        BY <1>3 DEF Pending
    <2>3. QED
        BY <2>1, <2>2
<1>5. \A u \in Threads \ {"main"} : todo'[u] = <<>>
    BY <1>1, MovesLeave DEF Restored
<1>6. "loadStates" \notin OpsIn(todo'["main"])
    BY <1>1, <1>2, MovesLeave
<1>7. made[d] = 1 /\ provisioner[d] = 1 /\ databaseSavedStates[d] = table[d]
    BY <1>2, <1>4 DEF Restored
<1>8. table[d] \in {None, pin'[d]}
    BY <1>1, <1>2, <1>7 DEF SetPin, LifecycleTypeOK
<1>9. \A e \in Devices \ {d} : pin'[e] = pin[e] /\ databaseSavedStates'[e] = databaseSavedStates[e]
    BY <1>1 DEF SetPin, LifecycleTypeOK
<1>10. QED
    BY <1>1, <1>2, <1>4, <1>5, <1>6, <1>7, <1>8, <1>9 DEF Restored

\* A step of main while it starts keeps what is said of the start.
LEMMA StepRestored ==
    ASSUME StartInv, Starting, Restored, NEW t \in Threads, Step(t), todo'["main"] # <<>>
    PROVE  Restored'
<1>1. PICK d \in Devices :
        \/ PassNode(t, d) \/ lookupDevice(t, d) \/ execute(t, d) \/ update(t, d) \/ Trigger(t, d)
        \/ loadDevice(t, d) \/ EnterCreate(t, d) \/ buildDevice(t, d) \/ addDevice(t, d)
        \/ loadSavedState(t, d) \/ LeaveCreate(t, d)
        \/ removeDevice(t, d) \/ close(t, d) \/ ClearMap(t, d)
        \/ Find(t, d) \/ getCurrentDeviceState(t, d) \/ FindNew(t, d) \/ loadSavedData(t, d)
        \/ Collect(t, d) \/ Write(t, d) \/ loadDeviceStatesIntoDatabaseCache(t, d)
        \/ TestFlag(t, d) \/ SetFlag(t, d) \/ Notify(t, d)
    BY DEF Step
<1>2. t = "main" /\ \A op : At(t, op, d) => op \in MainOps
    <2>1. \A op : At(t, op, d) => t = "main" /\ op \in MainOps
        BY MainSteps
    <2>2. \E op : At(t, op, d)
        BY <1>1 DEF PassNode, lookupDevice, execute, update, Trigger, loadDevice, EnterCreate,
                    buildDevice, addDevice, loadSavedState, LeaveCreate, removeDevice, close,
                    ClearMap, Find, getCurrentDeviceState, FindNew, loadSavedData, Collect, Write,
                    loadDeviceStatesIntoDatabaseCache, TestFlag, SetFlag, Notify
    <2>3. QED
        BY <2>1, <2>2
<1>3. \/ EnterCreate(t, d) \/ buildDevice(t, d) \/ addDevice(t, d) \/ loadSavedState(t, d)
      \/ LeaveCreate(t, d) \/ loadDeviceStatesIntoDatabaseCache(t, d)
    BY <1>1, <1>2 DEF PassNode, lookupDevice, execute, update, Trigger, loadDevice,
                      removeDevice, close, ClearMap, Find, getCurrentDeviceState, FindNew,
                      loadSavedData, Collect, Write, TestFlag, SetFlag, Notify, MainOps
<1>4. LifecycleInv /\ \A o, p : At(t, o, d) /\ At(t, p, d) => o = p
    BY DEF StartInv, At
<1>5. PICK op : Moves(t, op, d)
    BY <1>3, <1>4, StepMoves
<1>6. CASE EnterCreate(t, d)
    <2>1. op = "create" /\ UNCHANGED <<made, provisioner, databaseSavedStates, table, pin>>
        BY <1>4, <1>5, <1>6 DEF EnterCreate, Moves, mapVars, stateVars
    <2>2. QED
        BY <1>2, <1>5, <2>1, PlainStep
<1>7. CASE LeaveCreate(t, d)
    <2>1. op = "leave" /\ UNCHANGED <<made, provisioner, databaseSavedStates, table, pin>>
        BY <1>4, <1>5, <1>7 DEF LeaveCreate, Moves, mapVars, stateVars
    <2>2. QED
        BY <1>2, <1>5, <2>1, PlainStep
<1>8. CASE buildDevice(t, d) /\ provisioner[d] # 0
    <2>1. /\ op = "build" /\ UNCHANGED <<made, provisioner, databaseSavedStates, table, pin>>
          /\ SkipTo(t, "leave")
        BY <1>4, <1>5, <1>8 DEF buildDevice, Moves
    <2>2. \E i \in DOMAIN todo[t] : todo[t][i][1] = "leave"
        BY <1>4, <1>5, <2>1, GoalAhead DEF Moves, LifecycleInv
    <2>3. Head(todo'[t])[1] = "leave"
        BY <1>4, <2>1, <2>2, Skipped DEF LifecycleInv, Plans
    <2>4. QED
        BY <1>2, <1>5, <2>1, <2>3, PlainStep
<1>9. QED
    BY <1>2, <1>3, <1>6, <1>7, <1>8, BuildingStep, AddingStep, RestoringStep, LoadingStep

\* Main's steps and the end of a start, for the steps that threads take.
LEMMA StepStarts ==
    ASSUME StartInv, NEW t \in Threads, Step(t)
    PROVE  /\ InTurn(todo'["main"]) /\ (Starting' => Starting)
           /\ ~ Started => ~ Started'
<1>1. PICK d \in Devices :
        \/ PassNode(t, d) \/ lookupDevice(t, d) \/ execute(t, d) \/ update(t, d) \/ Trigger(t, d)
        \/ loadDevice(t, d) \/ EnterCreate(t, d) \/ buildDevice(t, d) \/ addDevice(t, d)
        \/ loadSavedState(t, d) \/ LeaveCreate(t, d)
        \/ removeDevice(t, d) \/ close(t, d) \/ ClearMap(t, d)
        \/ Find(t, d) \/ getCurrentDeviceState(t, d) \/ FindNew(t, d) \/ loadSavedData(t, d)
        \/ Collect(t, d) \/ Write(t, d) \/ loadDeviceStatesIntoDatabaseCache(t, d)
        \/ TestFlag(t, d) \/ SetFlag(t, d) \/ Notify(t, d)
    BY DEF Step
<1>2. LifecycleInv /\ Plans /\ InTurn(todo["main"]) /\ "main" \in Threads
    BY DEF StartInv, LifecycleInv, Threads
<1>3. /\ For(First, <<"wait">>) # <<>> /\ Head(For(First, <<"wait">>)) = <<"wait", First>>
      /\ For(First, <<"exit">>) # <<>> /\ Head(For(First, <<"exit">>)) = <<"exit", First>>
      /\ OpsIn(For(First, <<"exit">>)) = {"exit"}
    BY OneStep DEF Ties, Inner
<1>4. CASE Notify(t, d)
    <2>1. At(t, "notify", d) /\ t # "main" /\ UNCHANGED ended
        BY <1>2, <1>4, StepOf DEF Notify, OpsOf, MainOps, rest
    <2>2. todo'["main"] = todo["main"] \/ todo'["main"] = For(First, <<"exit">>)
        BY <1>2, <1>4, <2>1 DEF Notify
    <2>3. InTurn(For(First, <<"exit">>))
        BY DEF InTurn, For
    <2>4. QED
        BY <1>2, <1>3, <2>1, <2>2, <2>3 DEF Starting, Started
<1>5. CASE ~ Notify(t, d)
    <2>1. PICK op : Moves(t, op, d) /\ op # "enterWait"
        BY <1>1, <1>2, <1>5, StepMoves
    <2>2. InTurn(todo'["main"]) /\ (t # "main" => todo'["main"] = todo["main"])
        BY <1>2, <2>1, MovesInTurn
    <2>3. Starting' => Starting
        <3>1. ended = "no"
            BY <2>1 DEF Moves, At
        <3>2. OpsIn(todo'["main"]) \subseteq OpsIn(todo["main"])
            BY <1>2, <2>1, <2>2, MovesLeave
        <3>3. QED
            BY <3>1, <3>2 DEF Starting
    <2>4. ~ Started => ~ Started'
        <3>1. SUFFICES ASSUME t = "main", Started' PROVE FALSE
            BY <2>2 DEF Started
        <3>2. todo'["main"] # <<>> /\ Head(todo'["main"]) = <<"wait", First>>
            BY <1>3, <3>1 DEF Started
        <3>3. todo'["main"] = Tail(todo["main"])
            BY <1>2, <2>1, <3>1, <3>2, MovesInTurn
        <3>4. Plan("main", todo["main"]) /\ todo["main"] # <<>> /\ Head(todo["main"])[1] = op
            BY <1>2, <2>1, <3>1 DEF Plans, Moves, At
        <3>5. Head(todo["main"])[1] = "enterWait"
            BY <1>2, <3>2, <3>3, <3>4, InTurnTail
        <3>6. QED
            BY <2>1, <3>4, <3>5
    <2>5. QED
        BY <2>2, <2>3, <2>4
<1>6. QED
    BY <1>4, <1>5

\* The other steps, where requests and signals come only after the start.
LEMMA OutsideStarts ==
    ASSUME ~ EarlyRequests, StartInv,
           \/ EnterWait \/ SystemExit \/ Halt \/ Signal \/ Crash \/ SaveDue
           \/ \E u \in Users, kind \in Kinds, d \in Devices, v \in States : Request(u, kind, d, v)
    PROVE  /\ InTurn(todo'["main"]) /\ (Starting' => Starting /\ Restored')
           /\ ~ Started /\ Started' => EnterWait
<1>1. /\ LifecycleInv /\ Plans /\ InTurn(todo["main"]) /\ (Starting => Restored)
      /\ "main" \in Threads /\ "hook" \in Threads /\ "db" \in Threads /\ "main" \notin Users
    BY LifecycleAssumption DEF StartInv, LifecycleInv, Threads
<1>2. /\ For(First, <<"wait">>) # <<>> /\ OpsIn(For(First, <<"wait">>)) = {"wait"}
      /\ OpsIn(<<>>) = {} /\ InTurn(<<>>)
    <2>1. OpsIn(<<>>) = {} /\ InTurn(<<>>)
        BY DEF OpsIn, InTurn
    <2>2. QED
        BY <2>1, OneStep DEF Ties, Inner
<1>3. CASE EnterWait
    <2>1. /\ Moves("main", "enterWait", First) /\ At("main", "enterWait", First)
          /\ UNCHANGED <<made, provisioner, databaseSavedStates, table, pin>>
        BY <1>3 DEF EnterWait, Moves, rest, mapVars, stateVars
    <2>2. InTurn(todo'["main"])
        BY <1>1, <2>1, MovesInTurn
    <2>3. Starting
        <3>1. Plan("main", todo["main"]) /\ todo["main"] # <<>> /\ Head(todo["main"])[1] = "enterWait"
            BY <1>1, <2>1 DEF Plans, At
        <3>2. QED
            BY <2>1, <3>1, TailOps DEF Starting, At
    <2>4. Starting' => Restored'
        <3>1. Starting' => todo'["main"] # <<>>
            BY <1>2 DEF Starting
        <3>2. QED
            BY <1>1, <2>1, <2>3, <3>1, PlainStep
    <2>5. QED
        BY <1>3, <2>2, <2>3, <2>4
<1>4. CASE SystemExit
    <2>1. todo'["main"] = <<>>
        BY <1>1, <1>4 DEF SystemExit, Plans
    <2>2. QED
        BY <1>2, <2>1 DEF Starting, Started
<1>5. CASE Halt \/ Crash
    BY <1>1, <1>5 DEF Halt, Crash, Starting, Started
<1>6. ASSUME NEW t \in Threads \ {"main"}, NEW s, todo' = [todo EXCEPT ![t] = s], Started
      PROVE  InTurn(todo'["main"]) /\ ~ Starting' /\ Started
    <2>1. todo'["main"] = todo["main"]
        BY <1>1, <1>6 DEF Plans
    <2>2. QED
        BY <1>1, <1>2, <1>6, <2>1 DEF Starting, Started
<1>7. CASE Signal
    BY <1>1, <1>6, <1>7 DEF Signal
<1>8. CASE SaveDue
    BY <1>1, <1>6, <1>8 DEF SaveDue
<1>9. ASSUME NEW u \in Users, NEW kind \in Kinds, NEW d \in Devices, NEW v \in States,
             Request(u, kind, d, v)
      PROVE  InTurn(todo'["main"]) /\ ~ Starting' /\ Started
    <2>1. u \in Threads \ {"main"}
        BY <1>1 DEF Threads
    <2>2. Started /\ todo' = [todo EXCEPT ![u] = scheduleAction(kind, d)]
        BY <1>9 DEF Request
    <2>3. QED
        BY <1>6, <2>1, <2>2
<1>10. QED
    BY <1>3, <1>4, <1>5, <1>7, <1>8, <1>9

\* A life begins with main's first step before it.
LEMMA BootStarts ==
    ASSUME LifecycleInv, Boot
    PROVE  InTurn(todo'["main"]) /\ Restored' /\ ~ Started'
<1>1. /\ todo' = [t \in Threads |-> IF t = "main" THEN main ELSE <<>>]
      /\ made' = [d \in Devices |-> 0] /\ provisioner' = [d \in Devices |-> 0]
      /\ databaseSavedStates' = [d \in Devices |-> None]
    BY DEF Boot
<1>2. todo'["main"] = main /\ \A t \in Threads \ {"main"} : todo'[t] = <<>>
    BY <1>1 DEF Threads
<1>3. main # <<>> /\ InTurn(main) /\ "loadStates" \in OpsIn(main) /\ Head(main)[1] = "loadStates"
    BY MainInTurn, MainPlan
<1>4. \A d \in Devices : ~ Pending(d)'
    BY <1>2, <1>3 DEF Pending
<1>5. Head(For(First, <<"wait">>)) = <<"wait", First>>
    BY OneStep DEF Ties, Inner
<1>6. ~ Started'
    BY <1>2, <1>3, <1>5 DEF Started
<1>7. Restored'
    BY <1>1, <1>2, <1>3, <1>4 DEF Restored
<1>8. QED
    BY <1>2, <1>3, <1>6, <1>7

\* A restart gives each device the state that was saved for it, whatever the devices and
\* however the last life ended.  The hypothesis is that requests and signals wait for the end
\* of the start: an action or a save in the middle of it works with devices whose states are
\* not restored yet.
THEOREM RestartRestoresSaved ==
    ASSUME ~ EarlyRequests
    PROVE  LifecycleSpec => RestartRestores
<1>1. LifecycleInit => StartInv
    <2>1. SUFFICES ASSUME LifecycleInit PROVE StartInv
        OBVIOUS
    <2>2. /\ todo = [t \in Threads |-> IF t = "main" THEN main ELSE <<>>]
          /\ made = [d \in Devices |-> 0] /\ provisioner = [d \in Devices |-> 0]
          /\ databaseSavedStates = [d \in Devices |-> None]
        BY <2>1 DEF LifecycleInit
    <2>3. todo["main"] = main /\ \A t \in Threads \ {"main"} : todo[t] = <<>>
        BY <2>2 DEF Threads
    <2>4. main # <<>> /\ InTurn(main) /\ "loadStates" \in OpsIn(main) /\ Head(main)[1] = "loadStates"
        BY MainInTurn, MainPlan
    <2>5. \A d \in Devices : ~ Pending(d)
        BY <2>3, <2>4 DEF Pending
    <2>6. Restored
        BY <2>2, <2>3, <2>4, <2>5 DEF Restored
    <2>7. QED
        BY <2>1, <2>3, <2>4, <2>6, InitKeeps DEF StartInv
<1>2. StartInv /\ [LifecycleNext]_lifecycleVars => StartInv'
    <2>1. SUFFICES ASSUME StartInv, [LifecycleNext]_lifecycleVars PROVE StartInv'
        OBVIOUS
    <2>2. LifecycleInv /\ LifecycleInv'
        BY <2>1, LifecycleInvNext DEF StartInv
    <2>3. ASSUME NEW t \in Threads, Step(t) PROVE StartInv'
        <3>1. InTurn(todo'["main"]) /\ (Starting' => Starting)
            BY <2>1, <2>3, StepStarts
        <3>2. Starting' => todo'["main"] # <<>>
            BY DEF Starting, OpsIn
        <3>3. Starting' => Restored'
            BY <2>1, <2>3, <3>1, <3>2, StepRestored DEF StartInv
        <3>4. QED
            BY <2>2, <3>1, <3>3 DEF StartInv
    <2>4. CASE Boot
        BY <2>2, <2>4, BootStarts DEF StartInv
    <2>5. CASE UNCHANGED lifecycleVars
        BY <2>1, <2>2, <2>5 DEF lifecycleVars, StartInv, Starting, Restored, Pending
    <2>6. CASE \/ EnterWait \/ SystemExit \/ Halt \/ Signal \/ Crash \/ SaveDue
               \/ \E u \in Users, kind \in Kinds, d \in Devices, v \in States : Request(u, kind, d, v)
        BY <2>1, <2>2, <2>6, OutsideStarts DEF StartInv
    <2>7. QED
        BY <2>1, <2>3, <2>4, <2>5, <2>6 DEF LifecycleNext, Exit
<1>3. StartInv /\ [LifecycleNext]_lifecycleVars =>
          [~ Started /\ Started' => \A d \in Devices :
               made'[d] = 1 => table[d] \in {None, pin'[d]}]_lifecycleVars
    <2>1. SUFFICES ASSUME StartInv, LifecycleNext, ~ Started, Started', NEW d \in Devices, made'[d] = 1
                   PROVE  table[d] \in {None, pin'[d]}
        OBVIOUS
    <2>2. LifecycleInv
        BY <2>1 DEF StartInv
    <2>3. EnterWait
        <3>1. ASSUME NEW t \in Threads, Step(t) PROVE FALSE
            BY <2>1, <3>1, StepStarts
        <3>2. ~ Boot
            BY <2>1, <2>2, BootStarts
        <3>3. CASE \/ EnterWait \/ SystemExit \/ Halt \/ Signal \/ Crash \/ SaveDue
                   \/ \E u \in Users, kind \in Kinds, e \in Devices, v \in States : Request(u, kind, e, v)
            BY <2>1, <3>3, OutsideStarts
        <3>4. QED
            BY <2>1, <3>1, <3>2, <3>3 DEF LifecycleNext, Exit
    <2>4. /\ At("main", "enterWait", First) /\ UNCHANGED <<made, pin>> /\ "main" \in Threads
        BY <2>3 DEF EnterWait, mapVars, stateVars, Threads
    <2>5. /\ Plan("main", todo["main"]) /\ todo["main"] # <<>> /\ InTurn(todo["main"])
          /\ Head(todo["main"]) = <<"enterWait", First>> /\ ended = "no"
        BY <2>1, <2>2, <2>4 DEF StartInv, LifecycleInv, Plans, At
    <2>6. "enterWait" \in OpsIn(todo["main"]) /\ "loadStates" \notin OpsIn(todo["main"])
        BY <2>5, TailOps, InTurnTail
    <2>7. Restored /\ ~ Pending(d)
        BY <2>1, <2>5, <2>6 DEF StartInv, Starting, Pending
    <2>8. QED
        BY <2>1, <2>4, <2>6, <2>7 DEF Restored
<1>4. QED
    BY <1>1, <1>2, <1>3, PTL DEF LifecycleSpec, RestartRestores
=============================================================================
