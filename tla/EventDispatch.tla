---------------------------- MODULE EventDispatch ----------------------------
(***************************************************************************)
(* How a device's new state travels through the primary node: a device's   *)
(* execute or poll calls PrimaryNodeControllerImpl.update, which stores    *)
(* the state in the cache and asks EventProcessingService to check every   *)
(* event that listens to the device; an event whose condition became true  *)
(* runs its action profile, whose elements are scheduled on devices, whose *)
(* execute calls update again, all on the same thread and with the         *)
(* monitors of the devices and events on the way still held.               *)
(*                                                                         *)
(* A thread is its stack of calls, the top first; it holds the monitor of  *)
(* a device or an event while a call on its stack is inside the            *)
(* synchronized block.  Java's monitors are reentrant.                     *)
(***************************************************************************)
EXTENDS Sequences, FiniteSets, Naturals

CONSTANTS
    Users,          \* threads that serve requests
    Devices,
    Polled,         \* devices that report themselves periodically ...
    Async,          \* ... of them, those that do not report after execute
    Values, Initial, None,
    Heard,          \* the devices that have reported since the process started
    Events,
    when,           \* when[e][d]: the values of d at which its trigger range is met
    onChange,       \* the <<e, d>> whose range has triggerOnChange instead
    requireAll,     \* events that need all of their ranges met
    unTrigger,      \* events with the unTrigger flag
    profile, inverted, \* the elements of an event's profile, its inverted ones
    Commands,       \* the elements users schedule
    Triggered       \* the events whose profile users trigger themselves

VARIABLES
    actual,         \* what each device is doing
    cached,         \* cachedStates of the primary node
    locked,         \* lockedDevices
    active,         \* activeSet of EventProcessingService
    stack           \* the calls of each thread

vars == <<actual, cached, locked, active, stack>>

\* Every polled device has a thread of its own for its periodic task.
Threads == Users \cup Polled

\* A DeviceState that is scheduled: a value or none, and the LOCK parameter.
Element == [dev : Devices, val : Values \cup {None}, lock : BOOLEAN \cup {None}]

ASSUME ConstantsAssumption ==
    /\ None \notin Values \cup Devices
    /\ Async \subseteq Polled /\ Polled \subseteq Devices
    /\ Users \cap Devices = {} /\ Heard \subseteq Devices
    /\ Initial \in [Devices -> Values]
    /\ \A e \in Events : /\ DOMAIN when[e] \subseteq Devices /\ DOMAIN when[e] # {}
                         /\ \A d \in DOMAIN when[e] : when[e][d] \subseteq Values
    /\ \A p \in onChange : p[1] \in Events /\ p[2] \in DOMAIN when[p[1]]
    /\ requireAll \subseteq Events /\ unTrigger \subseteq Events
    /\ profile \in [Events -> SUBSET Element] /\ inverted \in [Events -> SUBSET Element]
    /\ Commands \subseteq Element /\ Triggered \subseteq Events

-----------------------------------------------------------------------------
(* Calls.                                                                  *)

Call ==
    [op : {"scheduleAction"}, at : {"isLocked", "apply", "lock"}, el : Element]
    \cup [op : {"execute"}, at : {"enter", "leave"}, dev : Devices, val : Values]
    \cup [op : {"run"}, at : {"snapshot"}, dev : Devices]
    \cup [op : {"update"}, at : {"compare", "put", "events"}, dev : Devices, val : Values,
          todo : SUBSET Events]
    \cup [op : {"checkIfTriggered"}, at : {"enter", "test", "activate", "leave"}, event : Events,
          changed : Devices, asked : SUBSET Devices]
    \cup [op : {"scheduleAll"}, at : {"next"}, todo : SUBSET Element]

schedule(el)     == [op |-> "scheduleAction", at |-> "isLocked", el |-> el]
execute(d, v)    == [op |-> "execute", at |-> "enter", dev |-> d, val |-> v]
update(d, v)     == [op |-> "update", at |-> "compare", dev |-> d, val |-> v, todo |-> {}]
check(e, d)      == [op |-> "checkIfTriggered", at |-> "enter", event |-> e, changed |-> d,
                     asked |-> {}]
scheduleAll(els) == [op |-> "scheduleAll", at |-> "next", todo |-> els]

At(t, op, at) == stack[t] # <<>> /\ Head(stack[t]).op = op /\ Head(stack[t]).at = at

Top(t) == Head(stack[t])

\* Replace thread t's top call by the calls cs, the top first.
Become(t, cs) == stack' = [stack EXCEPT ![t] = cs \o Tail(@)]
Return(t)     == Become(t, <<>>)

\* A RuntimeException unwinds the thread: nothing on the way handles it.
Throw(t) == stack' = [stack EXCEPT ![t] = <<>>]

-----------------------------------------------------------------------------
(* Monitors.                                                               *)

InDevice(c, d) == c.op = "execute" /\ c.at = "leave" /\ c.dev = d

InEvent(c, e) == c.op = "checkIfTriggered" /\ c.at # "enter" /\ c.event = e

HoldsDevice(t, d) == \E i \in DOMAIN stack[t] : InDevice(stack[t][i], d)
HoldsEvent(t, e)  == \E i \in DOMAIN stack[t] : InEvent(stack[t][i], e)

DeviceFree(t, d) == \A u \in Threads \ {t} : ~HoldsDevice(u, d)
EventFree(t, e)  == \A u \in Threads \ {t} : ~HoldsEvent(u, e)

-----------------------------------------------------------------------------
(* What the node knows.                                                    *)

\* Mutant: the devices are asked, whether or not their states are cached.
MustAskAlways(e) == DOMAIN when[e]

\* The devices the node has no state of must be asked, under their monitors.
MustAsk(e) == {d \in DOMAIN when[e] : cached[d] = None}

\* getDeviceState: the device's answer if it was asked, else the cached state.
Known(d, asked) == IF d \in asked THEN actual[d] ELSE cached[d]

isTriggered(e, d, changed, asked) ==
    IF <<e, d>> \in onChange THEN d = changed ELSE Known(d, asked) \in when[e][d]

eventTriggered(e, changed, asked) ==
    IF e \in requireAll THEN \A d \in DOMAIN when[e] : isTriggered(e, d, changed, asked)
                        ELSE \E d \in DOMAIN when[e] : isTriggered(e, d, changed, asked)

\* No cached state holds a LOCK parameter, so an element with one is news.
hasStateChanged(el) ==
    \/ cached[el.dev] = None
    \/ el.lock # None
    \/ el.val # None /\ el.val # cached[el.dev]

EventsTriggeredBy(d) == {e \in Events : d \in DOMAIN when[e]}

-----------------------------------------------------------------------------
Init ==
    /\ actual = Initial
    /\ cached = [d \in Devices |-> IF d \in Heard THEN Initial[d] ELSE None]
    /\ locked = {}
    /\ active = {}
    /\ stack = [t \in Threads |-> <<>>]

-----------------------------------------------------------------------------
(* PrimaryNodeControllerImpl.scheduleAction and processAction.             *)

IsLocked(t) ==
    /\ At(t, "scheduleAction", "isLocked")
    /\ LET el == Top(t).el IN
       IF el.val # None /\ el.dev \in locked
       THEN Throw(t)
       ELSE Become(t, <<[Top(t) EXCEPT !.at = IF el.val = None THEN "lock" ELSE "apply"]>>)
    /\ UNCHANGED <<actual, cached, locked, active>>

\* deviceNeedsUpdate, then the device's execute.
Apply(t) ==
    /\ At(t, "scheduleAction", "apply")
    /\ LET el == Top(t).el IN
       Become(t, (IF el.dev \in Async \/ hasStateChanged(el)
                  THEN <<execute(el.dev, el.val)>> ELSE <<>>)
                 \o <<[Top(t) EXCEPT !.at = "lock"]>>)
    /\ UNCHANGED <<actual, cached, locked, active>>

\* checkIfLockShouldBeSet
SetLock(t) ==
    /\ At(t, "scheduleAction", "lock")
    /\ LET el == Top(t).el IN
       locked' = CASE el.lock = TRUE  -> locked \cup {el.dev}
                   [] el.lock = FALSE -> locked \ {el.dev}
                   [] OTHER           -> locked
    /\ Return(t)
    /\ UNCHANGED <<actual, cached, active>>

-----------------------------------------------------------------------------
(* Device.execute and AsynchronousDevice.run.                              *)

\* Mutant: the state is reported after the monitor has been left.
ExecuteReportsOutside(t) ==
    /\ At(t, "execute", "enter")
    /\ LET c == Top(t) IN
       /\ DeviceFree(t, c.dev)
       /\ actual' = [actual EXCEPT ![c.dev] = c.val]
       /\ Become(t, <<[c EXCEPT !.at = "leave"], update(c.dev, c.val)>>)
    /\ UNCHANGED <<cached, locked, active>>

\* performAction, then update(getCurrentDeviceState()) inside the monitor.
Execute(t) ==
    /\ At(t, "execute", "enter")
    /\ LET c == Top(t) IN
       /\ DeviceFree(t, c.dev)
       /\ actual' = [actual EXCEPT ![c.dev] = c.val]
       /\ Become(t, (IF c.dev \in Async THEN <<>> ELSE <<update(c.dev, c.val)>>)
                    \o <<[c EXCEPT !.at = "leave"]>>)
    /\ UNCHANGED <<cached, locked, active>>

LeaveDevice(t) ==
    /\ At(t, "execute", "leave")
    /\ Return(t)
    /\ UNCHANGED <<actual, cached, locked, active>>

\* The periodic task: update() reads the hardware or changes the device ...
Poll(d) ==
    /\ stack[d] = <<>> /\ DeviceFree(d, d)
    /\ \E v \in Values : actual' = [actual EXCEPT ![d] = v]
    /\ stack' = [stack EXCEPT ![d] = <<[op |-> "run", at |-> "snapshot", dev |-> d]>>]
    /\ UNCHANGED <<cached, locked, active>>

\* ... and the state read under the monitor is reported after leaving it.
Snapshot(t) ==
    /\ At(t, "run", "snapshot")
    /\ LET d == Top(t).dev IN DeviceFree(t, d) /\ Become(t, <<update(d, actual[d])>>)
    /\ UNCHANGED <<actual, cached, locked, active>>

-----------------------------------------------------------------------------
(* PrimaryNodeControllerImpl.update and EventProcessingService.update.     *)

\* Mutant: only the first state of a device is taken for news.
CompareOnce(t) ==
    /\ At(t, "update", "compare")
    /\ IF cached[Top(t).dev] # None
       THEN Return(t) ELSE Become(t, <<[Top(t) EXCEPT !.at = "put"]>>)
    /\ UNCHANGED <<actual, cached, locked, active>>

Compare(t) ==
    /\ At(t, "update", "compare")
    /\ IF cached[Top(t).dev] = Top(t).val
       THEN Return(t) ELSE Become(t, <<[Top(t) EXCEPT !.at = "put"]>>)
    /\ UNCHANGED <<actual, cached, locked, active>>

Put(t) ==
    /\ At(t, "update", "put")
    /\ cached' = [cached EXCEPT ![Top(t).dev] = Top(t).val]
    /\ Become(t, <<[Top(t) EXCEPT !.at = "events", !.todo = EventsTriggeredBy(Top(t).dev)]>>)
    /\ UNCHANGED <<actual, locked, active>>

NextEvent(t) ==
    /\ At(t, "update", "events")
    /\ \/ Top(t).todo = {} /\ Return(t)
       \/ \E e \in Top(t).todo :
             Become(t, <<check(e, Top(t).dev), [Top(t) EXCEPT !.todo = @ \ {e}]>>)
    /\ UNCHANGED <<actual, cached, locked, active>>

-----------------------------------------------------------------------------
(* EventProcessingService.checkIfTriggered.                                *)

\* Inside the event's monitor the cache is looked at: the devices it does not hold are
\* asked, and it is this thread that waits for each of them, even if one reports meanwhile.
EnterEvent(t) ==
    /\ At(t, "checkIfTriggered", "enter")
    /\ EventFree(t, Top(t).event)
    /\ Become(t, <<[Top(t) EXCEPT !.at = "test", !.asked = MustAsk(Top(t).event)]>>)
    /\ UNCHANGED <<actual, cached, locked, active>>

Asked(t) == \A d \in Top(t).asked : DeviceFree(t, d)

Met(t) == eventTriggered(Top(t).event, Top(t).changed, Top(t).asked)

\* Met and not active yet: the profile runs, and only then is it active.
Trigger(t) ==
    /\ At(t, "checkIfTriggered", "test") /\ Asked(t)
    /\ Met(t) /\ Top(t).event \notin active
    /\ Become(t, <<scheduleAll(profile[Top(t).event]), [Top(t) EXCEPT !.at = "activate", !.asked = {}]>>)
    /\ UNCHANGED <<actual, cached, locked, active>>

\* Mutant: what is remembered is the device instead of the event.
ActivateDevice(t) ==
    /\ At(t, "checkIfTriggered", "activate")
    /\ active' = active \cup {Top(t).changed}
    /\ Return(t)
    /\ UNCHANGED <<actual, cached, locked>>

Activate(t) ==
    /\ At(t, "checkIfTriggered", "activate")
    /\ active' = active \cup {Top(t).event}
    /\ Return(t)
    /\ UNCHANGED <<actual, cached, locked>>

StayActive(t) ==
    /\ At(t, "checkIfTriggered", "test") /\ Asked(t)
    /\ Met(t) /\ Top(t).event \in active
    /\ Return(t)
    /\ UNCHANGED <<actual, cached, locked, active>>

\* Mutant: the operands of the && of line 74 swapped, so that an event without
\* unTrigger is never taken out.
DeactivateSwapped(t) ==
    /\ At(t, "checkIfTriggered", "test") /\ Asked(t)
    /\ ~Met(t)
    /\ active' = IF Top(t).event \in unTrigger THEN active \ {Top(t).event} ELSE active
    /\ IF Top(t).event \in active \cap unTrigger
       THEN Become(t, <<scheduleAll(inverted[Top(t).event]), [Top(t) EXCEPT !.at = "leave", !.asked = {}]>>)
       ELSE Return(t)
    /\ UNCHANGED <<actual, cached, locked>>

\* Mutant: the inverted profile is not run.
DeactivateSilently(t) ==
    /\ At(t, "checkIfTriggered", "test") /\ Asked(t)
    /\ ~Met(t)
    /\ active' = active \ {Top(t).event}
    /\ Return(t)
    /\ UNCHANGED <<actual, cached, locked>>

\* No longer met: not active any more, and then the inverted profile runs.
Deactivate(t) ==
    /\ At(t, "checkIfTriggered", "test") /\ Asked(t)
    /\ ~Met(t)
    /\ active' = active \ {Top(t).event}
    /\ IF Top(t).event \in active \cap unTrigger
       THEN Become(t, <<scheduleAll(inverted[Top(t).event]), [Top(t) EXCEPT !.at = "leave", !.asked = {}]>>)
       ELSE Return(t)
    /\ UNCHANGED <<actual, cached, locked>>

LeaveEvent(t) ==
    /\ At(t, "checkIfTriggered", "leave")
    /\ Return(t)
    /\ UNCHANGED <<actual, cached, locked, active>>

\* PrimaryNodeControllerImpl.scheduleAll, in the order of a HashSet.
NextElement(t) ==
    /\ At(t, "scheduleAll", "next")
    /\ \/ Top(t).todo = {} /\ Return(t)
       \/ \E el \in Top(t).todo :
             Become(t, (IF hasStateChanged(el) THEN <<schedule(el)>> ELSE <<>>)
                       \o <<[Top(t) EXCEPT !.todo = @ \ {el}]>>)
    /\ UNCHANGED <<actual, cached, locked, active>>

-----------------------------------------------------------------------------
(* Requests: ActionController.scheduleAction and triggerActionProfile.     *)

Request(u, c) ==
    /\ stack[u] = <<>>
    /\ stack' = [stack EXCEPT ![u] = <<c>>]
    /\ UNCHANGED <<actual, cached, locked, active>>

ScheduleAction(u) == \E el \in Commands : Request(u, schedule(el))

TriggerProfile(u) == \E e \in Triggered : Request(u, scheduleAll(profile[e]))

Step(t) ==
    \/ IsLocked(t) \/ Apply(t) \/ SetLock(t)
    \/ Execute(t) \/ LeaveDevice(t) \/ Snapshot(t)
    \/ Compare(t) \/ Put(t) \/ NextEvent(t)
    \/ EnterEvent(t) \/ Trigger(t) \/ Activate(t) \/ StayActive(t) \/ Deactivate(t)
    \/ LeaveEvent(t) \/ NextElement(t)

Next ==
    \/ \E u \in Users : ScheduleAction(u) \/ TriggerProfile(u)
    \/ \E d \in Polled : Poll(d)
    \/ \E t \in Threads : Step(t)

Spec == Init /\ [][Next]_vars

\* A thread in the middle of a call goes on.  One that waits for a monitor gets
\* it if it is free again and again: the JVM queues the contenders, so nobody
\* is passed over for ever.  The periodic tasks come due again and again.
Fairness == /\ \A t \in Threads : SF_vars(Step(t))
            /\ \A d \in Polled : WF_vars(Poll(d))

FairSpec == Spec /\ Fairness

-----------------------------------------------------------------------------
(* Properties.                                                             *)

\* Every variable stays in its domain, and every call is well formed.
TypeOK ==
    /\ actual \in [Devices -> Values]
    /\ cached \in [Devices -> Values \cup {None}]
    /\ locked \subseteq Devices /\ active \subseteq Events
    /\ \A t \in Threads : \A i \in DOMAIN stack[t] : stack[t][i] \in Call

\* A change that event e listens to is still on its way to e's check.
Concerns(c, e) ==
    \/ c.op \in {"run", "update"} /\ c.at \in {"snapshot", "compare", "put"}
         /\ e \in EventsTriggeredBy(c.dev)
    \/ c.op = "update" /\ e \in c.todo
    \/ c.op = "checkIfTriggered" /\ c.event = e

Settled(e) ==
    /\ \A t \in Threads : \A i \in DOMAIN stack[t] : ~Concerns(stack[t][i], e)
    /\ \E d \in DOMAIN when[e] : cached[d] # None

\* What the node has cached of a device that only execute changes is what the
\* device does, whenever nobody is inside the device, whichever threads set it to
\* what, and also after a call inside it that a locked device further on cut short.
CacheFresh ==
    \A d \in Devices \ Polled :
        (\A t \in Threads : ~HoldsDevice(t, d)) => cached[d] \in {None, actual[d]}

\* The threads whose monitors t is waiting for.
WaitsFor(t) ==
    LET others == Threads \ {t} IN
    CASE At(t, "execute", "enter") \/ At(t, "run", "snapshot")
             -> {u \in others : HoldsDevice(u, Top(t).dev)}
      [] At(t, "checkIfTriggered", "enter")
             -> {u \in others : HoldsEvent(u, Top(t).event)}
      [] At(t, "checkIfTriggered", "test")
             -> {u \in others : \E d \in Top(t).asked : HoldsDevice(u, d)}
      [] OTHER -> {}

\* EventProcessingService.java:50 "Get Cache state for each device this event is
\* listening to": no threads wait for each other in a circle, as long as what is
\* commanded has reported before.  The nested monitors are then taken from devices
\* to events to devices in one order, for rules that do not lead back to a device.
NoDeadlock ==
    \A S \in (SUBSET Threads) \ {{}} : \E t \in S : WaitsFor(t) \cap S = {}

Quiet == \A t \in Threads : stack[t] = <<>>

\* The devices that only events drive.
Driven(e) == e \notin Triggered /\ \A el \in profile[e] \cup inverted[e] :
                \A c \in Commands : c.dev # el.dev

\* A polled device's poll may report a state that an execute has overtaken; the
\* cache catches up with a device that has stopped changing.
CacheCatchesUp ==
    \A d \in Polled : \A v \in Values : <>[](actual[d] = v) => <>[](cached[d] \in {None, v})

-----------------------------------------------------------------------------
(* What it takes of the rules and of the commands that these hold.         *)

\* The elements of the profiles, and everything that is ever scheduled.
ProfileElements == UNION {profile[e] \cup inverted[e] : e \in Events}
Elements == Commands \cup ProfileElements

\* Going from a device to an event that listens to it, and from an event to a device of
\* its profile, leads down: D and E are the heights of devices and events.
Descends(D, E) ==
    /\ D \in [Devices -> Nat] /\ E \in [Events -> Nat]
    /\ \A e \in Events : /\ \A d \in DOMAIN when[e] : E[e] < D[d]
                         /\ \A el \in profile[e] \cup inverted[e] : D[el.dev] < E[e]

\* No chain of rules goes on for ever or leads back to where it began.
RulesEnd == \E D \in [Devices -> Nat], E \in [Events -> Nat] : Descends(D, E)

\* Every device that is ever commanded has reported before.
CommandedHeard == \A el \in Elements : el.dev \in Heard

\* A device that does not report after execute has reported before it is commanded.
AsyncHeard == \A el \in Elements : el.dev \in Async => el.dev \in Heard

\* The events whose ranges all look at states.
Plain == {e \in Events : \A d \in Devices : <<e, d>> \notin onChange}

\* No event is met by what was reported before the process began to look at it.
UnmetAtFirst ==
    \A e \in Plain : DOMAIN when[e] \cap Heard # {} =>
        ~ IF e \in requireAll THEN \A d \in DOMAIN when[e] : Initial[d] \in when[e][d]
                              ELSE \E d \in DOMAIN when[e] : Initial[d] \in when[e][d]

\* A profile that a Driven event with unTrigger runs and undoes sets its devices to values,
\* each to one; they report to nobody by themselves, and no other event sets them.
OutputsApart ==
    \A e \in unTrigger : Driven(e) =>
        /\ \A el \in profile[e] \cup inverted[e] :
               /\ el.val # None /\ el.dev \notin Polled
               /\ \A f \in Events : \A g \in profile[f] \cup inverted[f] : g.dev = el.dev => f = e
        /\ \A els \in {profile[e], inverted[e]} : \A el, g \in els : g.dev = el.dev => g.val = el.val

\* Such an event's devices begin where its inverted profile wants them.
InvertedAtFirst ==
    \A e \in unTrigger : Driven(e) => \A el \in inverted[e] : Initial[el.dev] = el.val
=============================================================================
