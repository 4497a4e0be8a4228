--------------------------- MODULE DeviceLifecycle ---------------------------
(***************************************************************************)
(* How devices come and go on the primary node: the start of the process,  *)
(* the processor actions that load, close, reload and save devices, the    *)
(* periodic save, shutdown and exit.  Requests run on their own threads    *)
(* and meet in the device map, the cache of states, the monitors of the    *)
(* node and of each device, the pins and the table of saved states.        *)
(*                                                                         *)
(* A thread is a sequence of steps still to be done, each for a device.  A *)
(* device is a Switch: its state is that of its pin, it needs the pin for  *)
(* itself, and closing it releases the pin.                                *)
(***************************************************************************)
EXTENDS Naturals, Sequences, Functions

CONSTANTS
    Users,          \* threads that serve requests
    DeviceOrder,    \* the configured devices, in the order of the device map
    Kinds,          \* the requests users send
    MaxMade,        \* bound: how often a device is built in one life
    MaxRequests,    \* bound: requests, periodic saves and signals
    MaxBoots,       \* bound: lives of the process
    PeriodicSave,   \* whether the database task runs
    Signals,        \* whether SIGTERM may come
    Crashes,        \* whether the process may die
    LoadMayFail,    \* whether the configuration of a device may be broken
    EarlyRequests,  \* whether requests and signals come before main has loaded the devices
    Rules,          \* whether a report triggers a profile
    None

Devices == Range(DeviceOrder)
Threads == Users \cup {"main", "db", "hook"}
States == {"on", "off"}
Built == Devices \X (1 .. MaxMade)

ASSUME LifecycleAssumption ==
    /\ MaxMade \in Nat /\ MaxRequests \in Nat /\ MaxBoots \in Nat \ {0}
    /\ DeviceOrder \in Seq(Devices) /\ DeviceOrder # <<>>
    /\ Users \cap {"main", "db", "hook"} = {}
    /\ Kinds \subseteq {"command", "load", "close", "reload", "reload_all", "save", "shutdown"}
    /\ None \notin States \cup Threads

VARIABLES
    deviceMap,      \* the incarnation of each device in the map, or 0
    made,           \* how often each device was built
    closed,         \* the incarnations that were torn down
    provisioner,    \* the incarnation that has provisioned the pin, or 0
    pin,            \* the physical state of each device
    cachedStates, databaseSavedStates,
    table,          \* the rows of the saved states
    node,           \* holder of the node's monitor, or None
    monitor,        \* holder of each incarnation's monitor, or None
    shutdownProcessor,
    ended,          \* "no", "exit" or "crash"
    todo,           \* the steps each thread still has to do
    inc,            \* the incarnation its steps are about
    value,          \* the state it was asked for, or has kept for a reload
    list,           \* the states it has collected to save them
    requests, boots \* counters for the bounds

lifecycleVars ==
    <<deviceMap, made, closed, provisioner, pin, cachedStates, databaseSavedStates, table,
      node, monitor, shutdownProcessor, ended, todo, inc, value, list, requests, boots>>

mapVars == <<deviceMap, made, closed, provisioner>>
stateVars == <<pin, cachedStates, databaseSavedStates, table>>
lockVars == <<node, monitor>>
localVars == <<inc, value, list>>
rest == <<shutdownProcessor, ended, requests, boots>>

-----------------------------------------------------------------------------
(* The steps of each operation.                                            *)

For(d, ops) == [i \in DOMAIN ops |-> <<ops[i], d>>]

\* The steps ops for the first device, then for the second, and so on.
ForAll(ops) ==
    [i \in 1 .. Len(ops) * Len(DeviceOrder) |->
        <<ops[((i - 1) % Len(ops)) + 1], DeviceOrder[((i - 1) \div Len(ops)) + 1]>>]

First == Head(DeviceOrder)

createNewDevice(d) == For(d, <<"create", "build", "put", "restore", "leave">>)
closeDevice(d) == For(d, <<"remove", "tearDown">>)
closeAllDevices == ForAll(<<"remove", "tearDown">>) \o For(First, <<"clear">>)
save == ForAll(<<"collect">>) \o For(First, <<"write">>)
shutdown == For(First, <<"testFlag", "setFlag">>) \o save \o closeAllDevices
              \o For(First, <<"notify">>)

\* Main loads the saved states and the devices and waits.
main == For(First, <<"loadStates">>) \o ForAll(<<"create", "build", "put", "restore", "leave">>)
          \o For(First, <<"enterWait", "wait">>)

processAction(kind, d) ==
    CASE kind = "command"    -> For(d, <<"lookup", "execute", "report", "trigger">>)
      [] kind = "load"       -> For(d, <<"config">>) \o createNewDevice(d)
      [] kind = "close"      -> closeDevice(d)
      [] kind = "reload"     -> For(d, <<"find", "snapshot">>) \o closeDevice(d)
                                  \o For(d, <<"config">>) \o createNewDevice(d)
                                  \o For(d, <<"findNew", "loadSaved">>)
      [] kind = "reload_all" -> save \o closeAllDevices \o For(d, <<"loadStates", "config">>)
                                  \o createNewDevice(d)
      [] kind = "save"       -> save
      [] kind = "shutdown"   -> shutdown

scheduleAction(kind, d) == For(d, <<"isLocked">>) \o processAction(kind, d) \o For(d, <<"setLock">>)

LifecycleInit ==
    /\ deviceMap = [d \in Devices |-> 0] /\ made = [d \in Devices |-> 0]
    /\ closed = {} /\ provisioner = [d \in Devices |-> 0]
    /\ pin = [d \in Devices |-> "off"]
    /\ cachedStates = [d \in Devices |-> None]
    /\ databaseSavedStates = [d \in Devices |-> None]
    /\ table = [d \in Devices |-> None]
    /\ node = None /\ monitor = [b \in Built |-> None]
    /\ shutdownProcessor = FALSE /\ ended = "no"
    /\ todo = [t \in Threads |-> IF t = "main" THEN main ELSE <<>>]
    /\ inc = [t \in Threads |-> 0]
    /\ value = [t \in Threads |-> None]
    /\ list = [t \in Threads |-> [d \in Devices |-> None]]
    /\ requests = 0 /\ boots = 1

-----------------------------------------------------------------------------
(* How a thread goes on.                                                   *)

At(t, op, d) == ended = "no" /\ todo[t] # <<>> /\ Head(todo[t]) = <<op, d>>
Done(t) == todo' = [todo EXCEPT ![t] = Tail(@)]

\* An exception ends the request.
Throw(t) == todo' = [todo EXCEPT ![t] = <<>>]

\* Go to the next step op of the thread.
SkipTo(t, op) ==
    LET here == CHOOSE i \in DOMAIN todo[t] :
                    todo[t][i][1] = op /\ \A j \in 1 .. i - 1 : todo[t][j][1] # op
    IN  todo' = [todo EXCEPT ![t] = SubSeq(@, here, Len(@))]

NodeFree(t) == node \in {None, t}
DeviceFree(d, n) == monitor[<<d, n>>] = None

\* A write to a pin that nobody has provisioned fails.
SetPin(d, v) == pin' = [pin EXCEPT ![d] = IF provisioner[d] = 0 THEN @ ELSE v]

-----------------------------------------------------------------------------
(* scheduleAction and an ordinary action.                                  *)

\* isLocked and checkIfLockShouldBeSet take the node's monitor for a moment.
PassNode(t, d) ==
    /\ At(t, "isLocked", d) \/ At(t, "setLock", d)
    /\ NodeFree(t)
    /\ Done(t)
    /\ UNCHANGED <<mapVars, stateVars, lockVars, localVars, rest>>

\* An unknown device throws; an action the cache says was done is not done again.
lookupDevice(t, d) ==
    /\ At(t, "lookup", d)
    /\ inc' = [inc EXCEPT ![t] = deviceMap[d]]
    /\ IF deviceMap[d] = 0 THEN Throw(t)
       ELSE IF cachedStates[d] = value[t] THEN SkipTo(t, "setLock") ELSE Done(t)
    /\ UNCHANGED <<mapVars, stateVars, lockVars, value, list, rest>>

execute(t, d) ==
    /\ At(t, "execute", d) /\ DeviceFree(d, inc[t])
    /\ IF <<d, inc[t]>> \in closed
       THEN Throw(t) /\ UNCHANGED <<pin, monitor>>
       ELSE /\ SetPin(d, value[t])
            /\ monitor' = [monitor EXCEPT ![<<d, inc[t]>>] = t]
            /\ Done(t)
    /\ UNCHANGED <<mapVars, cachedStates, databaseSavedStates, table, node, localVars, rest>>

\* Mutant: the cache keeps the type of the device.
updateWithType(t, d) ==
    /\ At(t, "report", d)
    /\ cachedStates' = [cachedStates EXCEPT ![d] = "switch"]
    /\ Done(t)
    /\ UNCHANGED <<mapVars, pin, databaseSavedStates, table, lockVars, localVars, rest>>

update(t, d) ==
    /\ At(t, "report", d)
    /\ cachedStates' = [cachedStates EXCEPT ![d] = pin[d]]
    /\ Done(t)
    /\ UNCHANGED <<mapVars, pin, databaseSavedStates, table, lockVars, localVars, rest>>

\* The actions of a triggered profile pass isLocked while the thread is still
\* inside the device's monitor.
Trigger(t, d) ==
    /\ At(t, "trigger", d) /\ (Rules => NodeFree(t))
    /\ monitor' = [monitor EXCEPT ![<<d, inc[t]>>] = None]
    /\ Done(t)
    /\ UNCHANGED <<mapVars, stateVars, node, localVars, rest>>

-----------------------------------------------------------------------------
(* createNewDevice, inside the node's monitor.                             *)

loadDevice(t, d) ==
    /\ At(t, "config", d)
    /\ Done(t) \/ (LoadMayFail /\ Throw(t))
    /\ UNCHANGED <<mapVars, stateVars, lockVars, localVars, rest>>

EnterCreate(t, d) ==
    /\ At(t, "create", d) /\ NodeFree(t)
    /\ node' = t
    /\ IF deviceMap[d] # 0 THEN SkipTo(t, "leave") ELSE Done(t)
    /\ UNCHANGED <<mapVars, stateVars, monitor, localVars, rest>>

\* The constructor provisions the pin, high, and fails if that was done before.
buildDevice(t, d) ==
    /\ At(t, "build", d)
    /\ IF provisioner[d] # 0
       THEN SkipTo(t, "leave") /\ UNCHANGED <<made, provisioner, pin, inc>>
       ELSE /\ made[d] < MaxMade
            /\ made' = [made EXCEPT ![d] = @ + 1]
            /\ provisioner' = [provisioner EXCEPT ![d] = made[d] + 1]
            /\ pin' = [pin EXCEPT ![d] = "off"]
            /\ inc' = [inc EXCEPT ![t] = made[d] + 1]
            /\ Done(t)
    /\ UNCHANGED <<deviceMap, closed, cachedStates, databaseSavedStates, table, lockVars,
                   value, list, rest>>

\* Mutant: adding the device is left to the caller.
addDeviceForgotten(t, d) ==
    /\ At(t, "put", d)
    /\ Done(t)
    /\ UNCHANGED <<mapVars, stateVars, lockVars, localVars, rest>>

addDevice(t, d) ==
    /\ At(t, "put", d)
    /\ deviceMap' = [deviceMap EXCEPT ![d] = inc[t]]
    /\ Done(t)
    /\ UNCHANGED <<made, closed, provisioner, stateVars, lockVars, localVars, rest>>

\* Mutant: the saved state is taken out of the cache and not applied.
loadSavedStateLost(t, d) ==
    /\ At(t, "restore", d) /\ DeviceFree(d, inc[t])
    /\ databaseSavedStates' = [databaseSavedStates EXCEPT ![d] = None]
    /\ Done(t)
    /\ UNCHANGED <<mapVars, pin, cachedStates, table, lockVars, localVars, rest>>

\* loadSavedState: the device is in the map already, its monitor may be taken.
\* What it does is not reported.
loadSavedState(t, d) ==
    /\ At(t, "restore", d) /\ DeviceFree(d, inc[t])
    /\ IF databaseSavedStates[d] = None THEN UNCHANGED pin ELSE SetPin(d, databaseSavedStates[d])
    /\ databaseSavedStates' = [databaseSavedStates EXCEPT ![d] = None]
    /\ Done(t)
    /\ UNCHANGED <<mapVars, cachedStates, table, lockVars, localVars, rest>>

LeaveCreate(t, d) ==
    /\ At(t, "leave", d)
    /\ node' = None
    /\ Done(t)
    /\ UNCHANGED <<mapVars, stateVars, monitor, localVars, rest>>

-----------------------------------------------------------------------------
(* closeDevice: out of the map first, and then, under the device's own     *)
(* monitor, torn down.                                                     *)

\* Mutant: the device leaves the map after it was closed.
removeDeviceLate(t, d) ==
    /\ At(t, "remove", d)
    /\ inc' = [inc EXCEPT ![t] = deviceMap[d]]
    /\ IF deviceMap[d] = 0
       THEN todo' = [todo EXCEPT ![t] = Tail(Tail(@))]
       ELSE todo' = [todo EXCEPT ![t] = <<<<"tearDown", d>>, <<"drop", d>>>> \o Tail(Tail(@))]
    /\ UNCHANGED <<mapVars, stateVars, lockVars, value, list, rest>>

\* Mutant: closeDevice is synchronized as createNewDevice is.
removeDeviceInside(t, d) ==
    /\ At(t, "remove", d) /\ NodeFree(t)
    /\ inc' = [inc EXCEPT ![t] = deviceMap[d]]
    /\ deviceMap' = [deviceMap EXCEPT ![d] = 0]
    /\ IF deviceMap[d] = 0
       THEN todo' = [todo EXCEPT ![t] = Tail(Tail(@))] /\ UNCHANGED node
       ELSE /\ todo' = [todo EXCEPT ![t] = For(d, <<"tearDown", "leave">>) \o Tail(Tail(@))]
            /\ node' = t
    /\ UNCHANGED <<made, closed, provisioner, stateVars, monitor, value, list, rest>>

removeDevice(t, d) ==
    /\ At(t, "remove", d)
    /\ inc' = [inc EXCEPT ![t] = deviceMap[d]]
    /\ deviceMap' = [deviceMap EXCEPT ![d] = 0]
    /\ IF deviceMap[d] = 0 THEN todo' = [todo EXCEPT ![t] = Tail(Tail(@))] ELSE Done(t)
    /\ UNCHANGED <<made, closed, provisioner, stateVars, lockVars, value, list, rest>>

close(t, d) ==
    /\ At(t, "tearDown", d) /\ DeviceFree(d, inc[t])
    /\ closed' = closed \cup {<<d, inc[t]>>}
    /\ SetPin(d, "off")
    /\ provisioner' = [provisioner EXCEPT ![d] = 0]
    /\ Done(t)
    /\ UNCHANGED <<deviceMap, made, cachedStates, databaseSavedStates, table,
                   lockVars, localVars, rest>>

\* closeAllDevices ends with deviceMap.clear(): what came into the map since the
\* iteration goes without having been closed.
ClearMap(t, d) ==
    /\ At(t, "clear", d)
    /\ deviceMap' = [e \in Devices |-> 0]
    /\ Done(t)
    /\ UNCHANGED <<made, closed, provisioner, stateVars, lockVars, localVars, rest>>

-----------------------------------------------------------------------------
(* reloadDevice.                                                           *)

Find(t, d) ==
    /\ At(t, "find", d)
    /\ inc' = [inc EXCEPT ![t] = deviceMap[d]]
    /\ IF deviceMap[d] = 0 THEN Throw(t) ELSE Done(t)
    /\ UNCHANGED <<mapVars, stateVars, lockVars, value, list, rest>>

getCurrentDeviceState(t, d) ==
    /\ At(t, "snapshot", d) /\ DeviceFree(d, inc[t])
    /\ value' = [value EXCEPT ![t] = pin[d]]
    /\ Done(t)
    /\ UNCHANGED <<mapVars, stateVars, lockVars, inc, list, rest>>

FindNew(t, d) ==
    /\ At(t, "findNew", d)
    /\ inc' = [inc EXCEPT ![t] = deviceMap[d]]
    /\ IF deviceMap[d] = 0 THEN SkipTo(t, "setLock") ELSE Done(t)
    /\ UNCHANGED <<mapVars, stateVars, lockVars, value, list, rest>>

\* loadSavedData does not ask whether the device is closed.
loadSavedData(t, d) ==
    /\ At(t, "loadSaved", d) /\ DeviceFree(d, inc[t])
    /\ SetPin(d, value[t])
    /\ Done(t)
    /\ UNCHANGED <<mapVars, cachedStates, databaseSavedStates, table, lockVars, localVars, rest>>

-----------------------------------------------------------------------------
(* save and the saved states.                                              *)

\* getStates: the cached state; a device that has none is asked.
Collect(t, d) ==
    /\ At(t, "collect", d)
    /\ (deviceMap[d] # 0 /\ cachedStates[d] = None) => DeviceFree(d, deviceMap[d])
    /\ list' = [list EXCEPT ![t][d] =
                    IF deviceMap[d] = 0 THEN None
                    ELSE IF cachedStates[d] # None THEN cachedStates[d] ELSE pin[d]]
    /\ Done(t)
    /\ UNCHANGED <<mapVars, stateVars, lockVars, inc, value, rest>>

\* One transaction; the rows of devices that are not in the list stay.
Write(t, d) ==
    /\ At(t, "write", d)
    /\ table' = [e \in Devices |-> IF list[t][e] = None THEN table[e] ELSE list[t][e]]
    /\ list' = [list EXCEPT ![t] = [e \in Devices |-> None]]
    /\ Done(t)
    /\ UNCHANGED <<mapVars, pin, cachedStates, databaseSavedStates, lockVars, inc, value, rest>>

loadDeviceStatesIntoDatabaseCache(t, d) ==
    /\ At(t, "loadStates", d)
    /\ databaseSavedStates' =
           [e \in Devices |-> IF table[e] = None THEN databaseSavedStates[e] ELSE table[e]]
    /\ Done(t)
    /\ UNCHANGED <<mapVars, pin, cachedStates, table, lockVars, localVars, rest>>

-----------------------------------------------------------------------------
(* Shutdown, exit, and the next life.                                      *)

Count == requests < MaxRequests /\ requests' = requests + 1

Started == todo["main"] = For(First, <<"wait">>)

TestFlag(t, d) ==
    /\ At(t, "testFlag", d)
    /\ IF ~ shutdownProcessor THEN Done(t)
       ELSE IF t = "hook" THEN SkipTo(t, "halt") ELSE SkipTo(t, "setLock")
    /\ UNCHANGED <<mapVars, stateVars, lockVars, localVars, rest>>

\* The database task is cancelled and, if it is saving, not waited for.
SetFlag(t, d) ==
    /\ At(t, "setFlag", d)
    /\ shutdownProcessor' = TRUE
    /\ Done(t)
    /\ UNCHANGED <<mapVars, stateVars, lockVars, localVars, ended, requests, boots>>

\* Mutant: nobody is notified.
NotifyForgotten(t, d) ==
    /\ At(t, "notify", d) /\ NodeFree(t)
    /\ Done(t)
    /\ UNCHANGED <<mapVars, stateVars, lockVars, localVars, rest>>

\* notify reaches main only while it waits.
Notify(t, d) ==
    /\ At(t, "notify", d) /\ NodeFree(t)
    /\ todo' = [u \in Threads |->
                   IF u = t THEN Tail(todo[t])
                   ELSE IF u = "main" /\ At("main", "wait", First) THEN For(First, <<"exit">>)
                   ELSE todo[u]]
    /\ UNCHANGED <<mapVars, stateVars, lockVars, localVars, rest>>

EnterWait ==
    /\ At("main", "enterWait", First) /\ NodeFree("main")
    /\ Done("main")
    /\ UNCHANGED <<mapVars, stateVars, lockVars, localVars, rest>>

\* System.exit and SIGTERM run the hook, once, and the process ends with it.
hook == shutdown \o For(First, <<"halt">>)

SystemExit ==
    /\ At("main", "exit", First)
    /\ todo' = [todo EXCEPT !["main"] = <<>>,
                            !["hook"] = IF @ = <<>> THEN hook ELSE @]
    /\ UNCHANGED <<mapVars, stateVars, lockVars, localVars, rest>>

Signal ==
    /\ Signals /\ (EarlyRequests \/ Started) /\ ended = "no" /\ todo["hook"] = <<>>
    /\ Count
    /\ todo' = [todo EXCEPT !["hook"] = hook]
    /\ UNCHANGED <<mapVars, stateVars, lockVars, localVars, shutdownProcessor, ended, boots>>

Halt ==
    /\ At("hook", "halt", First)
    /\ ended' = "exit"
    /\ UNCHANGED <<mapVars, stateVars, lockVars, localVars, shutdownProcessor, todo,
                   requests, boots>>

Crash ==
    /\ Crashes /\ ended = "no"
    /\ ended' = "crash"
    /\ UNCHANGED <<mapVars, stateVars, lockVars, localVars, shutdownProcessor, todo,
                   requests, boots>>

\* Only the table and the relays behind the pins outlive the process.
Boot ==
    /\ ended # "no" /\ boots < MaxBoots
    /\ boots' = boots + 1 /\ ended' = "no" /\ shutdownProcessor' = FALSE
    /\ deviceMap' = [d \in Devices |-> 0] /\ made' = [d \in Devices |-> 0]
    /\ closed' = {} /\ provisioner' = [d \in Devices |-> 0]
    /\ cachedStates' = [d \in Devices |-> None]
    /\ databaseSavedStates' = [d \in Devices |-> None]
    /\ node' = None /\ monitor' = [b \in Built |-> None]
    /\ todo' = [t \in Threads |-> IF t = "main" THEN main ELSE <<>>]
    /\ inc' = [t \in Threads |-> 0] /\ value' = [t \in Threads |-> None]
    /\ list' = [t \in Threads |-> [d \in Devices |-> None]]
    /\ UNCHANGED <<pin, table, requests>>

-----------------------------------------------------------------------------
(* Requests and the database task.                                         *)

Request(u, kind, d, v) ==
    /\ ended = "no" /\ todo[u] = <<>>
    /\ EarlyRequests \/ Started
    /\ Count
    /\ todo' = [todo EXCEPT ![u] = scheduleAction(kind, d)]
    /\ value' = [value EXCEPT ![u] = v]
    /\ UNCHANGED <<mapVars, stateVars, lockVars, inc, list, shutdownProcessor, ended, boots>>

\* The first save is due a minute after the start, when the devices are loaded.
SaveDue ==
    /\ PeriodicSave /\ (EarlyRequests \/ Started) /\ ended = "no" /\ todo["db"] = <<>> /\ ~ shutdownProcessor
    /\ Count
    /\ todo' = [todo EXCEPT !["db"] = save]
    /\ UNCHANGED <<mapVars, stateVars, lockVars, localVars, shutdownProcessor, ended, boots>>

Step(t) ==
    \E d \in Devices :
        \/ PassNode(t, d) \/ lookupDevice(t, d) \/ execute(t, d) \/ update(t, d) \/ Trigger(t, d)
        \/ loadDevice(t, d) \/ EnterCreate(t, d) \/ buildDevice(t, d) \/ addDevice(t, d)
        \/ loadSavedState(t, d) \/ LeaveCreate(t, d)
        \/ removeDevice(t, d) \/ close(t, d) \/ ClearMap(t, d)
        \/ Find(t, d) \/ getCurrentDeviceState(t, d) \/ FindNew(t, d) \/ loadSavedData(t, d)
        \/ Collect(t, d) \/ Write(t, d) \/ loadDeviceStatesIntoDatabaseCache(t, d)
        \/ TestFlag(t, d) \/ SetFlag(t, d) \/ Notify(t, d)

Exit == EnterWait \/ SystemExit \/ Halt

LifecycleNext ==
    \/ \E t \in Threads : Step(t)
    \/ Exit \/ Signal \/ Crash \/ Boot \/ SaveDue
    \/ \E u \in Users, kind \in Kinds, d \in Devices, v \in States : Request(u, kind, d, v)

\* Threads are scheduled fairly and monitors are granted; nothing makes a request,
\* a signal, a crash or the next start happen.
LifecycleSpec ==
    /\ LifecycleInit /\ [][LifecycleNext]_lifecycleVars
    /\ \A t \in Threads : SF_lifecycleVars(Step(t))
    /\ WF_lifecycleVars(Exit)

-----------------------------------------------------------------------------
(* Properties.                                                             *)

\* Every variable stays in its domain.
LifecycleTypeOK ==
    /\ deviceMap \in [Devices -> 0 .. MaxMade] /\ made \in [Devices -> 0 .. MaxMade]
    /\ closed \subseteq Built /\ provisioner \in [Devices -> 0 .. MaxMade]
    /\ pin \in [Devices -> States]
    /\ cachedStates \in [Devices -> States \cup {None}]
    /\ databaseSavedStates \in [Devices -> States \cup {None}]
    /\ table \in [Devices -> States \cup {None}]
    /\ node \in Threads \cup {None} /\ monitor \in [Built -> Threads \cup {None}]
    /\ shutdownProcessor \in BOOLEAN /\ ended \in {"no", "exit", "crash"}
    /\ inc \in [Threads -> 0 .. MaxMade] /\ value \in [Threads -> States \cup {None}]
    /\ list \in [Threads -> [Devices -> States \cup {None}]]
    /\ requests \in 0 .. MaxRequests /\ boots \in 1 .. MaxBoots

\* A device that can be looked up is open and has the pin, whatever reloads, loads
\* and closes are under way: the successor is not built before the pin is free, and
\* the predecessor does not take it back.
MappedOwnsPin ==
    \A d \in Devices : deviceMap[d] # 0 =>
        provisioner[d] = deviceMap[d] /\ <<d, deviceMap[d]>> \notin closed

\* Until all devices are closed no device is lost: an open one is in the map, on its
\* way into it, or being closed.
Handled(d, n) ==
    \E t \in Threads : /\ inc[t] = n /\ todo[t] # <<>>
                       /\ Head(todo[t]) \in {<<"put", d>>, <<"tearDown", d>>}
NoneLost ==
    ~ shutdownProcessor => \A d \in Devices, n \in 1 .. MaxMade :
        n <= made[d] => <<d, n>> \in closed \/ deviceMap[d] = n \/ Handled(d, n)

\* A restart brings back what was saved, whatever the last life was doing when it
\* ended: when main has loaded the devices each one is in the state of its row.
RestartRestores ==
    [][ ~ Started /\ Started' => \A d \in Devices :
            made'[d] = 1 => table[d] \in {None, pin'[d]} ]_lifecycleVars

\* createNewDevice restores a device that is in the map already, inside the node's
\* monitor, while an action that got to the device first, and holds its monitor, has
\* triggered a profile and waits for the node's: neither thread ever goes on.
Blocked ==
    Rules /\ \E t, u \in Threads, d \in Devices :
                 At(t, "restore", d) /\ At(u, "trigger", d) /\ inc[t] = inc[u]

\* PrimaryNodeControllerImpl.java:194-200, 439, Device.java:98-135: that is the only
\* way for threads to wait for each other for ever.  Whatever else loads, closes,
\* reloads, saves, commands and their profiles do at once, every request returns.
RequestsReturn == \A u \in Users : []<>(todo[u] = <<>> \/ ended # "no" \/ Blocked)

\* A shutdown ends the process, if main waits when it comes and no threads have
\* blocked each other.
ShutdownEnds == [](shutdownProcessor /\ Started => <>(ended # "no" \/ Blocked))
=============================================================================
