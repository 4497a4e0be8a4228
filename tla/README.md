# AutomationSystem in TLA+

AutomationSystem is a home controller. A *primary node* (Spring, Java) owns the
devices it is wired to and proxies for the devices of *remote nodes*, caches what
every device reports, checks rules ("events") against the cache and runs action
profiles when they fire. The devices reach their hardware through native drivers:
an ARP scanner, a DHT temperature sensor, a 433 MHz sender for outlets, and the
pigpio daemon for LEDs. This directory holds TLA+ specifications of these parts, TLC
configurations that check them on small instances, and TLAPS proofs of what matters
most in twelve of them.

File names below are relative to
`src/AutomationController/src/main/java/com/pi/` unless they start with `src/`;
`pigpio.c` is `src/drivers/pigpio-master/pigpio.c`.

## Inventory

| Component | State | Operations | Hard behaviour | Modules |
|---|---|---|---|---|
| Thermostat (`devices/asynchronousdevices/Thermostat.java`) | three relays, modes, target, two locks, delayed tasks | `update`, `performAction`, `turnOff`, `lockThermostat`, `tearDown`, delayed tasks | tasks run without the monitor and outlive their cycle | `Thermostat` |
| Device, AsynchronousDevice (`infrastructure/`) | `deviceClosed`, monitor, periodic task | `execute`, `loadSavedData`, `getCurrentDeviceState`, `close`, `run` | state is read under the monitor and reported after it or inside it | `Thermostat`, `EventDispatch`, `DeviceLifecycle` |
| Task pool (`services/TaskExecutorService.java`, `infrastructure/BaseService.java`) | pools of 3, 2 and 2 threads | schedule, cancel | polls that block keep their thread | in the modules of the devices |
| Primary node, device map (`services/PrimaryNodeControllerImpl.java`, `infrastructure/BaseNodeController.java`, `Application.java`) | `deviceMap`, `cachedStates`, `lockedDevices`, `nodeMap`, saved states | `update`, `scheduleAction`, `trigger`, load, close, reload, save, shutdown, `registerNode` | calls nest through all monitors; requests meet while a device is rebuilt; shutdown in the middle of all of it | `EventDispatch`, `DeviceLifecycle`, `RemoteNode` |
| Event processing (`services/EventProcessingService.java`, `model/EventHandler.java`) | `activeSet`, the monitors of the events | `update`, `checkIfTriggered`, `checkAllIfTriggered`, `clearActiveStatus` | re-entrance, races of reports, iteration over a live set | `EventDispatch`, `EventEngine`, `TriggerRanges` |
| Event registry (`infrastructure/EventRegistry.java`, `controllers/EventController.java`) | map, index, table | add, replace, remove, load | object identity; crashes between memory and table | `EventRegistry`, `EventEngine` |
| Action profiles (`model/ActionProfile.java`, `controllers/ActionController.java`) | the table | create, remove, trigger | the profile's row goes before its events | `EventDispatch`, `EventRegistry` |
| Device states, trigger ranges (`model/DeviceState.java`, `model/DeviceStateTriggerRange.java`) | parameters | `contains`, `isTriggered`, `checkBound` | boundaries, missing parameters | `TriggerRanges` |
| Remote nodes (`services/NodeDiscovererService.java`, `infrastructure/RemoteDeviceProxy.java`, `src/AutomationClient`) | `nodeMap`, configurations, proxies | probe, acknowledge, create, execute | lost, repeated and late datagrams, restarts of both sides | `RemoteNode`, `RemoteDevices` |
| Echo, UPnP (`devices/asynchronousdevices/AmazonEcho.java`, `infrastructure/util/UPNP*.java`) | selector, its keys, `selectorLock`, the switches | `listenForRequests`, `addDevice`, `listenForSearch`, `close` | registration waits behind `select`; keys left selected | `Echo` |
| ARP detection (`DeviceDetector.java`, `src/drivers/ARPScanner.cpp`) | stop flag, socket, addresses | scan, register, shut down | one static flag for "found" and "stop" | `ArpScanner` |
| DHT sensor (`src/drivers/pi_2_dht_read.c`, `pi_2_mmio.c`, `TempDriver.cpp`) | mapping, function registers, priority, pulses | read, decode | registers shared without a lock; thresholds | `DhtSensor`, `DhtDecode` |
| Outlets (`devices/Outlet.java`, `src/drivers/IRDriver .cpp`, `RCSwitch.cpp`) | one sender, one buffer | switch, send | two outlets in one driver | `Outlets` |
| pigpio daemon (`pigpio.c`, `pigpiod.c`) | lock file, port, scripts | start, terminate, store, run, stop and delete scripts | two daemons; threads that are cancelled | `Pigpiod`, `Scripts` |
| LED (`devices/Led.java`), Bluetooth (`BluetoothAdapter.java`, `src/drivers/BluetoothScan.cpp`), device logging, utilities, web pages | see "Not modelled" | | | |

**How they interact.** A device's thread (a pool thread for a poll, a web
thread for a command) calls `PrimaryNodeControllerImpl.update`; that stores the
state, asks `EventRegistry` for the events of the device and has
`EventProcessingService` check each; an event that fires runs its profile
through `scheduleAction`, which calls `execute` of other devices on the same
thread; these report in turn. Web requests enter at `scheduleAction`,
`trigger`, the registry's operations and the processor actions that load, close,
reload and save devices. Everything is linked by Java monitors (device, event,
node, registry) and by concurrent maps used without them. Below the devices there is
no such link: the drivers keep static state that the devices of a kind share.

**What makes each part correct.** Thermostat: relays follow the mode, locks are
released, a call for cooling is served and a reached target ends it. Dispatch: the cache
tells what the devices do, an event is active exactly while its condition holds, threads
do not block each other. Registry: index, map and table agree, also after a crash.
Lifecycle: a device is created once, closed once, its state survives. Remote
nodes: a node that announces itself gets its devices, once. Drivers: a driver
touches only what is its own, what it reports was measured, and what it sends is what
was asked for.

## Modules

Each specification `X` has its instances in `MCX` (`Echo` needs none); `X_proofs`
holds the theorems about it. `EventEngine_proofs` has those about `EventRegistry` as well,
`NetworkDevices_proofs` those about `ArpScanner` and `Echo`, `PigpioDaemon_proofs` those
about `Pigpiod` and `Scripts`, and `Devices_proofs` those about `Thermostat` and `DeviceLifecycle`. Where two modules
are proved about together the names of one carry its own prefix (`EchoSpec`, `ScriptSpec`, `LifecycleSpec`).

| Module | Models | Run |
|---|---|---|
| `Thermostat`, `Devices_proofs` | Thermostat with AsynchronousDevice, Device and the pool | `thermostat` |
| `EventDispatch`, `EventDispatch_proofs` | primary node, event processing, devices as values | `dispatch`, `dispatch_cold` |
| `EventHistory` | `EventDispatch` (extended) with a record of the checks and profiles that exceptions cut short | `dispatch`, `dispatch_cold` |
| `EventRegistry` | registry, profiles, their tables, restarts | `engine` |
| `EventEngine`, `EventEngine_proofs` | `EventRegistry` (extended) composed with reports and the active set | `engine` |
| `TriggerRanges` | when the condition of an event is met | `engine` |
| `DeviceLifecycle`, `Devices_proofs` | start, load, close, reload, save, shutdown, restart of the primary node | `lifecycle` |
| `RemoteNode`, `RemoteNode_proofs` | primary and a remote node over a lossy network | `remote_node` |
| `RemoteDevices` | the abstract specification that `RemoteNode` implements | `remote_node` |
| `Echo`, `NetworkDevices_proofs` | switches for the Amazon Echo, their selector and their searches | `echo` |
| `ArpScanner`, `NetworkDevices_proofs` | the ARP scanner through reloads of its device | `arp_scanner` |
| `DhtSensor`, `DhtSensor_proofs` | reads of several sensors that share registers | `dht_sensor` |
| `DhtDecode` | what is made of the pulses of one frame | `dht_sensor` |
| `Outlets`, `Outlets_proofs` | outlets that share one sender | `outlets` |
| `Pigpiod`, `PigpioDaemon_proofs` | daemons, their lock file and their port | `pigpiod` |
| `Scripts`, `PigpioDaemon_proofs` | stored scripts, their threads, the alert thread | `scripts` |

A definition that starts with a comment "Mutant:" is a plausible bug of the definition
after it; no specification uses it. It shows that a property can fail.

Eight configurations say `CHECK_DEADLOCK FALSE`: their behaviours end because requests,
restarts or calls are bounded, or because a device was closed. Where threads could block
each other there is a property that says that they do not (`NoDeadlock`, `CallsReturn`, `AddReturns`), or in which one case they do
(`RequestsReturn`). `Thermostat`, `Dispatch` and `Engine` never stop, and TLC
checks that.

Each section below has three parts: what the state and the actions are, what the run
checks within which bounds and under which fairness, and *known behaviours*: things that
the model reaches and that may surprise. One sentence of the repository speaks against some of them: `infrastructure/Device.java:76-78` says of
`tearDown` that "all future calls to performAction will do nothing", and neither `loadSavedData` nor a poll under way asks whether the device is closed
(see the thermostat and `DeviceLifecycle`). Of the others no document says anything. Constants that a run sets to exclude a behaviour are named there.

### Thermostat

The monitor's body is modelled relay write by relay write: `at` is the program
point of the thread that holds the monitor (`owner`), and each action is one
write or one test between two points, because the delayed tasks read and write
relays and locks without the monitor. `satisfied` is the value of the test of
line 76. A poll is `sleeping`, `waiting` for the monitor (it keeps its pool
thread) or `updating`. `close` is two steps, the cancellation outside of the
monitor and the tear-down inside. Tasks are counters: `modeUnlocks` and
`fanUnlocks` tasks pending, `fanOffDue` for the one turn-off task that may
wait (a new one cancels it), `fanStopping` and `fanUnlocking` for those that run.
Delays are "some time later", so every order of tasks the pool can produce is
covered, and some it cannot (two tasks of one delay out of order). Temperatures
are integers from a small set; a sensor that is not found is `NoParam`. The report
that ends a poll is in `EventDispatch`; `getState` changes nothing.

Run `thermostat`: one sensor, one reading between the targets 68 and 71, an illegal
target 80, two pending unlocks, three pool threads, reloads allowed; 802 thousand states.
`RelaysMatchMode`, `LocksHaveTask`, `OnlyStaleTaskStopsFan`, `CoolingStarts`,
`SetpointStops`. One reading is enough because only its order to the target matters, and
the target moves across it. `MaxPending` = 2 lets tasks of two earlier cycles meet a
third; the theorems hold for every bound. Fairness is weak only: the thread in the
monitor takes its next step; the pool runs a due task when a thread is free
(`ScheduledThreadPoolExecutor` does); a poll enters a monitor that stays free. Users,
sensors and close are not fair.

Known behaviours:
* COOL, then FAN, then OFF within 45 seconds leaves the fan on for good
  (lines 92-95 and 206: the pending task clears the lock and does not look at the fan).
* A release task of an earlier cycle releases a later lock before its time.
* The test and the write of the delayed turn-off (lines 201-202) are two steps:
  a start in between runs without fan until the mode changes. This is the one
  exception `OnlyStaleTaskStopsFan` makes.
* `modeChangeLock` is read at line 76 and again at 104 or 114. A release in between
  starts the compressor although the target is reached; the next poll stops it. This is
  why `SetpointStops` says "again and again".
* A poll that waited for the monitor during `close` runs `update` on the closed device and
  may start the compressor, and `loadSavedData` does not ask whether the device is
  closed (`infrastructure/Device.java`, `AsynchronousDevice.java:60`).

### EventDispatch

A thread is its stack of calls (`stack[t]`, the top first); each call is a
record with the operation, the point it is at, and its arguments. A thread holds
a monitor while a call on its stack is inside the synchronized block; monitors
are re-entrant. An exception empties the stack, and with it every monitor. A
device's state is one value out of `Values`. `Polled` devices have a thread for
their poll; those in `Async` report by polling only (`isAsynchronousDevice`),
the others (the thermostat) after `execute` as well. A rule is `when[e]`, the set of
values for each device it listens to; `onChange` marks ranges with
`triggerOnChange`. An element of a profile or a command is a device, a value or
none, and the LOCK parameter. `Heard` are the devices whose state the node has at the
start. Left out: web-socket messages, logging, the administrative cases of
`processAction` (they are in `DeviceLifecycle`), and parameters other than one value and
LOCK. The set of rules is fixed in a behaviour (it changes in `EventEngine`).

A locked device makes `scheduleAction` throw, through the profile, the events that are left and the device that reported, with
no handler before the thread's first call. `EventHistory` adds what of this a property has to know: `missed`, the events that an exception may have cost a check,
until their next check begins, and `undone`, the events that may have been left with half of a profile, until they run one again.
`ActiveIffMet` and `OutputsFollow` are about the other events; `CacheFresh` and `NoDeadlock` about all.

Run `dispatch`: a user, two polled devices (a motion sensor; a lamp that also executes
commands), a fan and a siren, and a chain of two rules (motion or lamp
switches the fan both ways, the fan switches the siren on), one of which the user triggers himself. The user switches the lamp on, switches the siren off and
locks it, and unlocks it; 441 thousand states. `TypeOK`, `ActiveIffMet`, `CacheFresh`, `NoDeadlock`,
`OutputsFollow`, `CacheCatchesUp`. The threads of a command, of a poll and of a trigger meet
in every order at two events; the user's command and the profile set the siren to different values at once, and a locked siren throws
through the siren's event, the fan that reported to it, and the fan's event, from any of the threads. Strong fairness
of each thread's step (a monitor that is free again and again is got in the end, as
HotSpot queues the contenders), weak fairness of polls.

What the rules must be like for the properties to hold is said at the end of the module, and
`MCEventDispatch` assumes it of the rules of the run, with `DeviceHeight` and `EventHeight` as the
heights: the theorems (see "Proofs") and the run are about the same class of rules.
`CommandedHeard` is the one that matters in practice: every device that is commanded has reported before. `dispatch_cold` is
`dispatch` without it and nothing else, and there the threads do block each other.

Run `dispatch_cold`: the same with `Heard = {}`. `NoDeadlock` fails; see "Finding".

Known behaviours:
* `NoDeadlock` depends on the rules. With a circle (lamp on switches the fan on, fan off
  switches the lamp off) two users block each other: one holds the lamp and the first event
  and wants the fan, the other the fan and the second event and wants the lamp.
* Rules that feed each other for ever exhaust the stack; they have no finite model.
* A rule whose profile switches off the device that met it is marked active after its
  condition has gone, so `ActiveIffMet` fails for it; the rules of the run have none.
* `ActiveIffMet` is not stated of events with `triggerOnChange`: once active, such an event
  leaves `activeSet` only by another of its ranges, so it fires once.
* After a start no event is active, and its inverted profile is not run: a device that was restored to another state than its
  rule's keeps it until the rule has fired (`InvertedAtFirst` excludes it).
* `trigger` of a profile that is gone throws nothing: the catch of
  `services/EventProcessingService.java:65-70` is never entered and the event becomes active.

### EventRegistry, TriggerRanges, EventEngine

Handlers are objects (`EventHandler` has `hashCode` and no `equals`); a request
body brings objects nobody has seen. `events` and `eventRows` map ids to
handlers or `None`; `index` is a function on the devices that have an entry, as
the `HashMap` is. `addEvents` is one step for the validation, one per handler, one
for the save, with the monitor (`adding`) held; `removeActionProfile` deletes
the row first (`removing`), then collects (`doomed`) and removes the
events under the monitor. `Restart` may come between any two steps and loads the
map and the index from the table. A list in a request has one or two handlers; the
table's operations are atomic (each is one transaction); an unknown id is left out because
it throws before anything changes.

`TriggerRanges` has what is evaluated (`CheckBound`, `Contains`, `IsTriggered`,
`StatesMet`) and, apart from it, what the ranges mean (`Within`, `Inside`). Times are compared
as numbers: the shared `SimpleDateFormat` of `model/DeviceStateTriggerRange.java:88` is
not thread-safe, and what it returns in a race is not specified.

`EventEngine` extends the registry with reports (`call[t]`: the device, the events still to
be checked, the one under its monitor), `activeSet` (`active`), the states the node knows,
and the controllers, which check or clear the active status around the registry's
operations. A report walks through a `HashSet` that requests change: `set` is "changed" when
an iterator would throw or miss an element. What a profile does is left to `EventDispatch`.

`missed` is a history variable: the ids of events that an iterator's exception has kept from being checked, or that
a removed event of their id has set or cleared since; a check of the registered event takes its id out.

Run `engine`: two reporters (symmetric), one request at a time, three handlers under two ids with
ranges over a number (0 to 1, below and at a bound) and a time (1 to 2, inside and at a bound), one profile, restarts between any two
steps; 3.4 million states. `IndexExact`, `SurvivesRestart`, `ActiveAsRegistered`,
`DanglingOnlyIfInterrupted`. Three handlers give the same id with other ranges, the same device, one device more, and a
list of two. Reports overlap with each other and with the request: a set is changed or dropped under its iterator, and a report
checks an event that was removed under way. `MCEventEngine` assumes of the run's ranges and requests what `ActivityAsRegistered` needs
(`RangesFormed`, `OneAtATime`, `NothingMetAtFirst`). What a number or a time at, below or above a bound means is proved for all of them (`TriggeredMeans`).

Known behaviours:
* Posting an event under a taken id (`MayReplace`) takes the wrong object out of the index:
  the old handler goes on firing until a restart, or the list fails in its middle. The run
  has `MayReplace = FALSE`; with `TRUE` `IndexExact` and `SurvivesRestart` fail.
* A request during a report makes the iterator throw, and the events that were left are not checked: one whose condition
  holds may stay inactive until a device reports again. A report that has fetched an event before its removal fires it
  afterwards. Both are in `missed`.
* With two requests at a time the clearing of a removed event may take the activity of one that was posted under its id in between (`OneAtATime`).
* A crash between the two halves of `removeActionProfile` leaves events whose profile is gone.
* A time at its bound does not trigger, a number does; a range with an upper bound only is met
  by every state (the end is looked at for parameters of the start only; the ranges of the run have a start); two ranges of one device make
  `toMap` throw in the middle of a report (`Mapped`).

### DeviceLifecycle

A thread is a sequence of steps still to be done, each for a device, so that a request
("reload") is the sequence of its steps and an exception drops the rest. A device is a
`Switch`: its state is its pin's, it needs the pin for itself, closing releases it. Each
time a device is built it gets a number (`made`); `deviceMap`, `provisioner` and `closed` are about
these. The monitors of node and devices, the cache, the saved rows, main, the periodic
save, signals and crashes are explicit. `Kinds` selects the requests.

Run `lifecycle`: one device built up to three times, two users with requests of every kind,
two requests, a periodic save, a signal, a crash, broken configurations, reports that trigger profiles (`Rules`) and a second life; 67 thousand states.
`LifecycleTypeOK`, `MappedOwnsPin`, `NoneLost`, `RestartRestores`, `RequestsReturn`, `ShutdownEnds`. Devices meet
in the node's monitor only, so one shows the races of its own steps, and three
builds let a reload, a load and a start meet. `RequestsReturn` says that `Blocked` (below) is the only way in which a request does not return;
`ShutdownEnds` is about a shutdown that comes when main waits, and unless threads are `Blocked`. Strong fairness of each thread (monitors
are got in the end), weak fairness of the exit; nobody has to make a request.

Known behaviours:
* A report that triggers a profile (`Rules`) takes the node's monitor inside the device's, and
  `createNewDevice` the other way round, when it restores a device that is in the map already: a reload, or a load, and a command that meet
  there wait for each other for ever, and everybody else who wants the node's monitor, shutdown too, with them (`Blocked`).
* A signal during start-up (`EarlyRequests`) saves states of devices that have not been
  restored, over the rows that hold them. The run has `EarlyRequests = FALSE`.
* The request that reloads all devices clears the map at its end; a device that a load
  has put there meanwhile is lost to it. It is not among the `Kinds`; with it `NoneLost` fails.
* `loadSavedData` of a reload may reach a device that another request has closed meanwhile (`loadSavedData` does not ask).
* A closed device still has its last state in the cache; a command during a reload is
  undone by the state that was taken before it; a periodic save under way may overwrite the rows of a
  shutdown with older ones; a device that is being built during a shutdown is not closed.

### RemoteNode and RemoteDevices

Probes and answers are a set of datagrams (`net`) that may be lost, repeated and late; both sides
restart (`nodeLife`, `primaryLife`). The primary answers probes before it has bound its RMI name (`registry`; what fails there is
logged, and it goes on without), and a node that looks the name up too early exits. A node that has joined
keeps the stub of that life of the primary (`stub`). Registration is modelled step by step: the monitor
of `registerNode`, the waiting configurations, each device's construction on the node,
the lookup of its stub, the restoring of its state. `Fragile` devices need the primary
during their construction. `SetUpOnce` is the refinement: under the mapping `deviceStatus`
every step is a step of `RemoteDevices` or stutters.

Run `remote_node`: a lamp with a saved state and a fragile detector, one restart of each
side; 155 thousand states. `ProxyReachesDevice`, `NoneForgotten`, `SetUpOnce`, `NodeJoins`. Two devices differ
in both respects that the code asks for, and one restart of each side makes late
datagrams of an earlier life; the theorems hold for any number. Strong fairness of sending and
receiving says that of datagrams sent again and again some arrive; nothing else is
assumed of the network. Weak fairness of the threads; nobody has to start a node again that has crashed or exited.
`NodeJoins` is about a node that runs while the primary's name is bound, and until one of them dies: a probe that is answered before
the name is bound, or by a life of the primary that has ended meanwhile, lets the node exit instead.
`ProxyReachesDevice` is about proxies of the node's present life; those of earlier lives stay in the map and fail.

Known behaviours:
* A node that restarts is in `nodeMap` already: it is answered, its devices are not created again,
  and their proxies fail. The abstract specification says so.
* A node that starts with the primary may be answered before line 123 of `PrimaryNodeControllerImpl` binds the name, and exits
  (`NodeControllerImpl.java:80-84`).
* A fragile device of a node that has not joined yet, or has joined an earlier life of the primary, fails for ever.
* A profile that is triggered while a device's state is restored waits for the node's monitor
  (`Rules`, `FALSE` in the run).

### Echo

The poll takes the selector's monitors in `select` (as in Java up to version 10) and registration
waits for them; `wakeup` is kept for the next `select`. A key that stays among the selected
ones is not counted again, which is how a request that throws hides a switch (`Serve`). The
contents of searches and requests are left out: a request is "on" or "bad". `overlapped` and
`threw` are history variables, which no guard reads.

Run `echo`: two switches, two adders that may overlap, two requests of either kind at each
switch, a close; 32 thousand states. `AnnouncedIsRegistered`, `RequestsServed`, `AddReturns`, under weak fairness of the
poll (it runs every second), of an adder's next step and of the searches.

Known behaviours:
* Two `addDevice` calls share one flag: the first clears it, a poll enters the selector, and the
  second waits behind it until somebody connects. `AddReturns` ends where that begins (`overlapped`).
* A request that throws leaves its key, and those behind it, selected; `RequestsServed` ends there (`threw`).
* After a close the poll stays in the selector and keeps its thread.

### ArpScanner

`life` numbers the detectors (the device is closed and built again); flag, socket, buffer and
registered addresses are static and outlive them. `at[l]` is the program point of the poll of each. `Frame` is what
arrives; `MayBeDirty` lets the two uninitialised bytes of a key (`ARPScanner.cpp:172`) be anything.

Run `arp_scanner`: two addresses, two lives, a socket that may be refused, `MayBeDirty = TRUE`; 16 thousand states.
`BlindForever`, `RegisteredIsDetected`. A third life would repeat the second: the flag is up for good. Weak
fairness of the program's steps; strong fairness of `Frame` says that the network's devices keep talking, which
is a premise of detection and nothing the code can bring about.

Known behaviours:
* The flag that a close raises is never lowered, once no scan is between its test of the flag and the end of its
  detection: a detector that is built again detects nothing. `BlindForever` says exactly that, and
  `RegisteredIsDetected` is therefore about the first one.
* The two unset bytes of the key may hide a registered device for as long as the stack holds something there
  (`Overlooked`); `registerMACAddress`, which clears them, shows that they should be 0. `RegisteredIsDetected` assumes
  that they do not do so for ever: without that premise the run finds a device that is never detected.
* On a silent network the closed detector's poll stays in `recvfrom` and keeps its thread.

### DhtSensor and DhtDecode

`at[s]` is the program point of each sensor's poll; `set_input` and `set_output` are a read and a write of a register that
ten pins share; the mapping is stored before it is tested. `DhtDecode` works on pulse counts: what arrives is a
frame with pulses that are longer or shorter than they should be, and the driver compares the high ones with the average of the low ones.

Run `dht_sensor`: two sensors whose pins are in one function register, one mapping that fails, one frame that is lost or damaged,
bytes of two bits (a frame of ten bits, a checksum of two), any two pulses off by 10, or one pulse, low or high, by -25, 25, 120 or 300; 1.1 million states.
`BoostIsBounded`, with the response timeout and the two timeouts of the pulses as results of their own; `ReportsSent`; `ReadAgain`. With ten pulses in place of
forty a disturbance weighs more in the average than in the code, so what is tolerated here is tolerated there.
Fairness: every poll takes its steps and is due again (threads of the pool run, the task is periodic); failures, noise and close are not fair.

Known behaviours:
* Two sensors in one function register undo each other's direction: an attempt then times out, or reads a pin that is an output, and is repeated.
  `ReadAgain` says that it is not worse than that. A third sensor in the register could turn the pin back in
  the middle of a frame, and the driver would take the rest for a whole: `TwoShareAssumption` leaves that out.
* Another thread may use the mapping between its failure and the test; the process then dies (`Fault`).
* One long low pulse can give a frame of zeros, whose checksum is right: `ReportsSent` names it. Two damaged pulses of one frame may also pass.
* A sensor that never answers keeps its poll for ever (in the run `Absent` is empty).

### Outlets

A request is `Sends` calls of send, and each call fills the static buffer anew, digit by digit, copies it, and sends it
bit by bit, `Frames` times. An outlet is `clear` if no two outlets were in the driver since its last call of send began;
`crowd` is every request since the driver was last empty. Run `outlets`: two outlets whose four words differ in one or
two digits, three digits, two calls of two frames, three requests that overlap in every way; 951 thousand states.
`BitsOfRequests`, `SocketFollows`. Three digits are enough for mixtures that are nobody's word and for mixtures that are
somebody else's, two calls for a call that is spoiled and one that repairs it; no fairness.

Known behaviours: two requests at a time overwrite each other's words, and what is sent is a mixture of their bits
(`BitsOfRequests` says that it is no worse); if that happens in the last call of a request, its socket may stay where it was, and
nothing tells the outlet. All outlets transmit on the pin of the one that was built last.

### Pigpiod

A program point per daemon between any two of which another daemon, a signal (`Kills`) or a
crash (`Crashes`) may come. `spaced` says whether daemons are started one after the other. Run `pigpiod`:
three daemons, one kill, one crash; 211 thousand states. `OneServer`, `OneOwner`, `StartServes`. Three daemons are
two that race and one that finds what they left. Weak fairness of a daemon's steps.

A start may fail without another daemon: it is not permitted, the number in a stale file has become that of another process (`NumberReused`),
the socket of a dead daemon lingers at the port (`Depart`, `LingerEnds`; no socket sets SO_REUSEADDR), or memory, a
thread or a socket is refused (`InitFailed`). `hindered` remembers whom that has met, and `StartServes` is about the others.

Known behaviours: of two daemons started at once one may run without the lock file, one that is terminated while it
starts leaves it, and `pkill` followed at once by a start, as `Led` does, may leave no daemon at all. `StartServes` does not
speak of that: such a start is not `spaced`.

### Scripts

The calls of clients, the thread of each slot with its mutex, condition variable and cancellation points, and the alert
thread; `fault` is a use of freed or null memory. What single instructions compute is left out: a program is a sequence
of operations, jumps, waits, halts and pops of an empty stack. Run `scripts`: one slot, a client with
six calls of every kind and one that makes a stop at any moment, six programs; 133 thousand states. `NoFault`, `CallsReturn`. Six calls are enough to
store, run and delete a script and to do it again in the same slot; the stop looks at the state of the script without a lock,
and before it has the mutex the script may be dying, deleted, or another one. Strong fairness of threads (a mutex
is got in the end) and of the changes a script waits for. `pthread_create` succeeds, and a thread is cancelled only where it waits for its
condition, not in what an instruction calls: neither makes or hides a use of freed memory.

Known behaviours:
* Two clients that both run, delete or store one script use freed memory: a delete between `pthCond` and `pthIdp` of the other's
  store cancels the thread of the script before, a run after a delete copies its parameters to a null pointer. The run and
  the theorem have one client that makes such calls. `gpioScriptStatus`, which is left out, copies from it in the same way.
* A stop that comes to the mutex with which a script's thread was cancelled waits until a script is stored in the slot.
* A run between a halt and the wait for it is lost; the status PI_SCRIPT_FAILED is overwritten at once.
* Two scripts that wait at the same time may lose a bit of the alert thread's mask; the alert thread may wait for the mutex of a
  cancelled script for ever.

## Finding

| Run | The repository says | The code does |
|---|---|---|
| `dispatch_cold` | `services/EventProcessingService.java:50` "Get Cache state for each device this event is listening too" | `getDeviceState` asks the device itself when the cache has no state of it, under the event's monitor; a thread that executes the device for the first time holds its monitor and waits for the event's. The two wait for each other for ever |

## Proofs

All theorems hold for every value of the constants that the named assumptions of the modules allow, and for every
number of actors, restarts, failures and calls. Each proves an inductive invariant (`IInv`, where no name is given) by one lemma
per action or kind of step; the theorems are its consequences. Every inductive invariant was first checked by TLC on the runs' instances
(those of `DeviceLifecycle` with two devices and two users as well, 259 thousand states).

* `Devices_proofs`, of `Thermostat` (any sensors, temperatures, pool, bounds): `TypeCorrect`, `RelaysFollowMode`, `NoLockLeaks`,
  `NeverLockedRunning`, `RelaysOverlapOnlyMidSwitch`, and the action property `FanStaysOnUnderLoad`. `RelaysMatchMode`
  alone is not inductive: the steps inside the monitor break it for a while. `IInv` says what holds at each program point
  instead: `MonitorInv` (the monitor is held exactly while `at` is not idle), `RelayInv` (which relays are written
  already), `LockInv` (the lock is not set at the points that start something, and a locked thermostat is off) and
  `LocksHaveTask`, which is inductive given the type invariant.
* `Devices_proofs`, of `DeviceLifecycle` (any configured devices, users, kinds of requests and bounds; `LifecycleAssumption` asks for at
  least one device and distinct names): `LifecycleTypeCorrect`; `MappedDeviceOwnsPin`; `NoDeviceLost`, assuming that nobody makes the
  request `reload_all`; `RestartRestoresSaved`, assuming `EarlyRequests = FALSE`. Without these two hypotheses the properties are false
  (see the known behaviours). A thread has a sequence of steps left, so `LifecycleInv` says first what every such sequence is like, also
  after an exception or a jump (`Plans`): steps that belong together follow each other for one device (`Chained`: create, build, put, restore, leave; remove, tear
  down), and a request ends where its exception leads. Then: a user's thread with something to do knows the state it was asked for (`Asked`); at most one
  thread is between building a device and putting it into the map, or between taking it out and closing it, and meanwhile the device is in no map and the
  pin belongs to what that thread holds (`Claims`); a mapped device has its pin, and no closed one has a pin (`Pins`). `LostInv` adds that a thread
  that is to clear the map neither skips steps nor clears before the shutdown flag is set (`Orderly`); `StartInv` that main loads the saved states first
  (`InTurn`) and, until it waits, runs alone and has restored exactly the devices it has passed (`Restored`).
* `EventDispatch_proofs` (any threads, devices, values and rules, stacks of any depth). Almost everything is said of the calls
  on the stacks. `Structure` says which calls there are, at which points and about what, that a call below another waits for it (`Places`),
  and that one thread at a time is inside a device (`OneInDevice`). A lemma per action says that the step replaces the top of one stack by
  at most two calls (`Stepped`), or begins or ends a stack, and the invariants are shown to be kept by these two kinds of step.
  * `TypeCorrect` and `CacheIsFresh` assume nothing of the rules. `CacheFresh` speaks of moments when no thread is inside the
    device; `CacheInv` says what holds meanwhile: either the cache is up to date, or a thread that is inside the device is on its way to
    store what the device does (`Fresh`, `ReportsHold`).
  * `DeadlockFree` assumes `RulesEnd` (devices and events have heights that fall from a device to the events that listen to it, and from an event to the
    devices of its profiles: no chain of rules is endless or a circle) and `CommandedHeard`. `Ordered` says that what
    a call may still come to lies below the monitors of the calls under it, so of any set of threads the one
    whose next monitor is lowest waits for nobody in the set. Re-entrance costs nothing: a thread never waits for itself.
  * `ActiveExactlyIfMet` and `OutputsFollowEvents` are about `HSpec`, the specification with the record of what exceptions cut short, and speak of
    the events that are not `missed` or `undone`. `Settling(M)` and `Following(e, M)` are the invariants of `EventDispatch` up to a set `M` of excepted
    events: a step keeps them for the same `M`, a step that throws for an `M` that grows by the events on the stack (`ThrowPays`), and the step with which a
    check or a profile begins for an `M` without its event.
  * `ActiveExactlyIfMet` assumes `RulesEnd`, `AsyncHeard` and `UnmetAtFirst`. `Settling` says, for each event without
    `triggerOnChange`: it is inside at most one call, and unless a thread still owes it a check (`Owed`), it is right (`Right`) or the check that is
    inside it will leave it right (`Heading`). That a check whose states were read before they changed does no harm follows from the report
    of the change: it owes the event another check.
  * `OutputsFollowEvents` assumes `RulesEnd`, `OutputsApart` and `InvertedAtFirst`: a device that such an event sets is
    set by no other event, to one value by each of its profiles, does not change by itself (a fan does not, a sensor would), and begins where the inverted
    profile wants it (no event is active after a start, and nothing runs the inverted profile before the event has fired once). `Following` says for each of these events that what a call sets one of its devices to is what is `Wanted` now, on behalf of the event's
    own check (`Under`), and that each wanted element holds already or is still to be set by some call (`ToSet`). A step hands on what is to
    be set (`Relays`). The two places where it could get lost are an element that is skipped because the cache says that nothing would change, which is right because
    nobody else can be inside the device (`NobodyInside`, `SkippedIsSet`), and a check that changes its mind, which finds nothing under way any more
    since it is the only one inside the event.
* `EventEngine_proofs`, of the registry alone: `TypeCorrect` for every value of `MayReplace` and `MayRestart`; `IndexIsExact` and
  `MapSurvivesRestart` assuming `MayReplace = FALSE`. These two speak of the moments between requests. Inside a request the
  table lags behind the map, and `IInv` says by how much: `RowsInv` (they differ only on the ids the current list has
  created), `AddingInv` (the created part of the list is registered, the ids of the rest are free and all differ),
  `DoomedInv` (the events left to remove are registered), `IndexInv` (the index is exact even then), `IdInv`. From `IndexInv`
  follows that the removal of a registered event always finds an entry for each of its devices. `DanglingOnlyWhileItsProfileGoes`
  assumes `MayRestart = FALSE` too: what a request adds has its profile, or the removal of that profile is still to come.
* `EventEngine_proofs`, of the composition: `EngineImplementsRegistry` is `EngineSpec => Spec`, action by action;
  `EngineKeepsRegistry`, which carries the registry's invariants over, follows.
  `DanglingOnlyAfterInterruption` assumes `MayReplace = FALSE`. `ActivityAsRegistered` assumes `OneAtATime` (free ids, one
  request at a time), `RangesFormed` (one range for each device of an event, without
  `triggerOnChange`, and no upper bound without a lower one) and `NothingMetAtFirst`. `EngineInv` adds to `IInv`: who is inside an event's monitor
  (`LockInv`), that what a request checks is registered (`CheckingInv`; what a report checks need not be), whose request is under way
  (`RequestInv`), and `SettledInv`: a registered event that has missed nothing is owed an evaluation, or it is active as its ranges say, but for a
  step that is just about to make it so.
* `RemoteNode_proofs`: `TypeCorrect`, `ProxiesReachDevices`, `DevicesOnOneWay`, `NoDeviceForgotten`, `Refinement`.
  `IInv` adds who may have what: a node that is registered or answered has sent a probe (`ProberKnown`), only the builder holds
  configurations and a device (`BuilderOwns`), a device with a proxy is past its construction (`ProxyWhenBuilt`), what goes
  into the map was looked up (`StubKnown`). `Refinement` is `Spec => SetUpOnce`: initial states map to initial states of
  `RemoteDevices`, and each action to `SetUp`, `NodeDies`, `PrimaryRestarts` or a stutter.
* `PigpioDaemon_proofs`, of `Pigpiod`: `TypeCorrect`, `OneDaemonServes` from `PortHeld` (the port has one owner, alive or lingering; `DepartKeeps`), `OneDaemonOwns` and
  `ServerHasLock` for daemons started one after the other: one is early (`OneEarly`), a holder's file is the file
  (`HoldersFile`, `HoldersWrote`), and whoever looks for a stale file knows the holder (`ReaderKnows`). Of
  `Scripts`: `StopsDoNoHarm`, `DeleteFreesAll`, assuming that all clients but one only stop scripts (`StopperKeeps`). `SlotInv` says that a slot is
  at rest (free and empty, or in use with a living thread) unless the call is working on it, and then fits the point the
  call has come to (`Fits`).
* `NetworkDevices_proofs`, of `ArpScanner`: `TypeCorrect`; `FlagIsTheScans` from `FirstScan`, which says what the first detector's scan has found
  at each point; `StaysBlind`, because `Blinded` is kept by every step. Of `Echo`: `ToldOnlyOfRegistered`, for any number of
  switches and of threads that add them; `EchoInv` ties what a thread of `addDevice` has registered to the point it has come to.
* `DhtSensor_proofs`: `TypeCorrect`, `PriorityGivenBack`, `OnlyReadings`; `AloneMapsWell` assuming one sensor.
* `Outlets_proofs`: `TypeCorrect`, `BitsAreOfRequests`; `ReportedPosition` assuming `DistinctCodes`. `Filled(o, R)` says that what
  a call of send has filled and sent so far are bits of requests of `R`, whoever else writes the buffer: it holds for
  the crowd always (`CrowdFilled`), and for the request alone while it is clear (`ClearFilled`, by `ClearAlone`).

The hypotheses of theorems are not assumptions of the modules, so that runs can break them: `dispatch_cold` breaks `CommandedHeard`.
Those about rules, ranges and requests are stated in `EventDispatch` and `EventEngine` and assumed in `MCEventDispatch` and `MCEventEngine`,
where TLC evaluates them: the instances that the runs check satisfy them.

The type invariants of `EventRegistry`, `Thermostat`, `RemoteNode`, `Pigpiod`, `ArpScanner`, `DhtSensor` and `Outlets`, and `BothRelaysOnlyMidSwitch`, `LockedMeansOff`, `DanglingOnlyWhileRemoving`,
`OneWay`, `RunningHasLock`, `OneShotFlag`, `MappingGood`, `ReportsReading` and `FreeIsEmpty`, are proved and
not in a run.

Only model-checked:
* all liveness properties (out of the provers' reach, as is ENABLED);
* `ReportsSent`, which is about `DhtDecode`'s folds over pulses: an induction that the installed provers cannot instantiate.

No module has a RECURSIVE operator.

## Not modelled, and why

* LED (`devices/Led.java`): it starts external processes that it does not await, and plays recorded colours. What
  burns in the end depends on the order in which processes reach the daemon, of which the code keeps nothing. Its restart
  of the daemon is in `Pigpiod`.
* Bluetooth: one static socket behind a flag, around blocking calls of the HCI library. Of the ARP detector's `DeviceDetector`
  only what `ArpScanner` needs.
* RCSwitch's receiver and its families of code words: nothing in the program calls them.
* Scripts' single instructions, PWM, waves, I2C, SPI, serial links, notifications and sampling in pigpio, and its client
  libraries `pigpiod_if*.c`: vendored code. The controller starts the daemon and sends `p` commands; scripts are modelled
  although it stores none, because they are the daemon's most concurrent part.
* Device logging: the set of devices to log holds names and is asked for a `DeviceState`
  (`services/DeviceLoggingService.java:50`), so nothing ever enters the queue.
* Web pages, REST serialisation, XML and property files, SQL, mail, cryptography and utilities: I/O without state of its own.
* The pool as such: a library class. That a blocked poll keeps one of three threads is shown for each device that blocks.

Coverage of lines is uneven. The controller's own Java logic and its native drivers are modelled nearly throughout where they
keep state: the definitions stand for about 1,500 lines of Java and 1,400 of C and C++. Most of the 51 thousand lines
of the repository are pigpio's headers (which are manuals in comments, and are there twice), its client libraries and its hardware interfaces.

## Possible extensions

In this order:

1. Abstract specifications of the thermostat (without program points) and of the registry (atomic requests), refined by
   the modules here.
2. `Led` with the processes it starts, and pigpio's alert thread with its notifications.
