----------------------------- MODULE EventEngine -----------------------------
(***************************************************************************)
(* The composition of the event registry with the evaluation of its events *)
(* (EventProcessingService, EventController): devices report states while  *)
(* users post and remove events.  A report iterates over the HashSet that  *)
(* the registry goes on changing; every event is checked under its own     *)
(* monitor, and the ids of active events are kept in activeSet.            *)
(*                                                                         *)
(* What a triggered profile does is EventDispatch's; an event whose profile *)
(* is gone becomes active and does nothing (trigger throws nothing).       *)
(***************************************************************************)
EXTENDS EventRegistry, TriggerRanges

CONSTANTS
    Reporters,       \* threads that report states
    Requests,        \* threads that serve the requests of users
    ranges,          \* ranges[h]: the trigger ranges of a handler
    requireAll,      \* the handlers that need all of theirs met
    States,          \* States[d]: what a device may report, its first state among them
    FirstState

RangeRecords == [device : Devices, params : Partial, end : Partial, onChange : BOOLEAN]

ASSUME EngineAssumption ==
    /\ requireAll \subseteq Handlers
    /\ Reporters \cap Requests = {}
    /\ ranges \in [Handlers -> Seq(RangeRecords)]
    /\ \A h \in Handlers : deps[h] = DevicesOf(ranges[h])
    /\ FirstState \in [Devices -> Partial]
    /\ \A d \in Devices : FirstState[d] \in States[d] /\ States[d] \subseteq Partial

VARIABLES
    cached,          \* the states the node knows
    active,          \* activeSet
    interrupted,     \* the profiles whose removal a restart cut short
    missed,          \* the ids whose last check a report has missed, or a removed event has undone
    call             \* of each thread: what it is doing, and the events still to be checked

registry == <<events, index, eventRows, profileRows, adding, removing, doomed>>
engineVars == <<registry, cached, active, interrupted, missed, call>>

Threads == Reporters \cup Requests
NoCall == [at |-> "idle", dev |-> None, h |-> None, todo |-> {}, set |-> "none"]

EngineInit ==
    /\ Init
    /\ cached = FirstState /\ active = {} /\ interrupted = {} /\ missed = {}
    /\ call = [t \in Threads |-> NoCall]

At(t, p) == call[t].at = p
Goto(t, p) == call' = [call EXCEPT ![t].at = p]
Return(t) == call' = [call EXCEPT ![t] = NoCall]

\* The id of the event a thread is at, if it is registered.
Current(t) == {i \in Ids : events[i] # None /\ events[i] = call[t].h}

checkIfTriggered(h, changed) == StatesMet(ranges[h], h \in requireAll, cached, changed)

\* The monitor of an event is free.
Unlocked(h) == \A t \in Threads : call[t].h = h => call[t].at \notin {"fire", "clear"}

-----------------------------------------------------------------------------
(* A report: the node stores the state, then the set of the device's       *)
(* events is fetched and iterated over.                                    *)

Put(t, d) ==
    /\ t \in Reporters /\ call[t] = NoCall
    /\ \E s \in States[d] : ~Contains(cached[d], s) /\ cached' = [cached EXCEPT ![d] = s]
    /\ call' = [call EXCEPT ![t].at = "get", ![t].dev = d]
    /\ UNCHANGED <<registry, active, interrupted, missed>>

Get(t) ==
    /\ At(t, "get") /\ MonitorFree
    /\ call' = IF call[t].dev \in DOMAIN index
               THEN [call EXCEPT ![t].at = "next", ![t].todo = index[call[t].dev],
                                 ![t].set = "live"]
               ELSE [call EXCEPT ![t] = NoCall]
    /\ UNCHANGED <<registry, cached, active, interrupted, missed>>

\* The next event; the iterator of a set that was changed throws, or does not see it.
\* If it throws the report ends, and the events that were left miss it.
NextEvent(t) ==
    /\ At(t, "next")
    /\ IF call[t].todo = {} THEN Return(t) /\ UNCHANGED missed
       ELSE \/ \E h \in call[t].todo :
                  /\ call' = [call EXCEPT ![t].at = "check", ![t].h = h, ![t].todo = @ \ {h}]
                  /\ UNCHANGED missed
            \/ /\ call[t].set = "changed" /\ Return(t)
               /\ missed' = missed \cup {id[h] : h \in call[t].todo}
    /\ UNCHANGED <<registry, cached, active, interrupted>>

\* What follows from the states that were found: two ranges of one device are an
\* exception, which ends the call.
Answer(t) ==
    LET h == call[t].h
        met == checkIfTriggered(h, call[t].dev)
        then(at, g) == [call[t] EXCEPT !.at = at, !.h = g]
    IN CASE ~Mapped(ranges[h]) -> NoCall
         [] Mapped(ranges[h]) /\ met /\ id[h] \notin active -> then("fire", h)
         [] Mapped(ranges[h]) /\ met /\ id[h] \in active -> then("next", None)
         [] OTHER -> then("clear", h)

\* Mutant: the monitor of the event is not taken.
CheckUnlocked(t) ==
    /\ At(t, "check")
    /\ call' = [call EXCEPT ![t] = Answer(t)]
    /\ missed' = missed \ Current(t)
    /\ UNCHANGED <<registry, cached, active, interrupted>>

\* EventProcessingService.checkIfTriggered, under the event's monitor: the condition, ...
Check(t) ==
    /\ At(t, "check") /\ Unlocked(call[t].h)
    /\ call' = [call EXCEPT ![t] = Answer(t)]
    /\ missed' = missed \ Current(t)
    /\ UNCHANGED <<registry, cached, active, interrupted>>

\* ... the trigger, after which the event is active (it may have been removed by now), ...
Fire(t) ==
    /\ At(t, "fire")
    /\ active' = active \cup {id[call[t].h]}
    /\ call' = [call EXCEPT ![t].at = "next", ![t].h = None]
    /\ missed' = missed \cup ({id[call[t].h]} \ Current(t))
    /\ UNCHANGED <<registry, cached, interrupted>>

\* ... or the end of its activity.
Clear(t) ==
    /\ At(t, "clear")
    /\ active' = active \ {id[call[t].h]}
    /\ call' = [call EXCEPT ![t].at = "next", ![t].h = None]
    /\ missed' = missed \cup ({id[call[t].h]} \ Current(t))
    /\ UNCHANGED <<registry, cached, interrupted>>

-----------------------------------------------------------------------------
(* The requests.                                                           *)

\* What a change of the index does to the iterators.  A set that was dropped from the
\* index is not changed any more.
Changed ==
    [t \in Threads |->
        IF call[t].set = "live" /\ call[t].dev \in DOMAIN index
               /\ call[t].dev \in DOMAIN index' /\ index'[call[t].dev] # index[call[t].dev]
        THEN [call[t] EXCEPT !.set = "changed"]
        ELSE IF call[t].set = "live" /\ call[t].dev \notin DOMAIN index'
        THEN [call[t] EXCEPT !.set = "dropped"] ELSE call[t]]

MayBegin(r) == call[r] = NoCall

\* EventController.createEvents: addEvents with objects that no report holds any more, ...
Post(r, hs) ==
    /\ MayBegin(r) /\ AddEvents(hs)
    /\ \A k \in DOMAIN hs, t \in Threads : hs[k] \notin call[t].todo \cup {call[t].h}
    /\ call' = [call EXCEPT ![r].at = "adding"]
    /\ UNCHANGED <<cached, active, interrupted, missed>>

Create == CreateEvent /\ call' = Changed /\ UNCHANGED <<cached, active, interrupted, missed>>

Save(r) ==
    /\ At(r, "adding") /\ SaveEvents
    /\ call' = [call EXCEPT ![r].at = "next post",
                            ![r].todo = {adding.all[k] : k \in DOMAIN adding.all}]
    /\ UNCHANGED <<cached, active, interrupted, missed>>

\* ... then checkAllIfTriggered: the activity of an earlier event of that id is removed, and
\* the event is checked.
CheckPosted(r) ==
    /\ At(r, "next post")
    /\ IF call[r].todo = {} THEN Return(r) /\ UNCHANGED active
       ELSE \E h \in call[r].todo :
               /\ active' = active \ {id[h]}
               /\ call' = [call EXCEPT ![r].at = "check", ![r].h = h, ![r].todo = @ \ {h}]
    /\ UNCHANGED <<registry, cached, interrupted, missed>>

\* After the check the next one is taken.
NextPosted(r) ==
    /\ r \in Requests /\ At(r, "next") /\ Goto(r, "next post")
    /\ UNCHANGED <<registry, cached, active, interrupted, missed>>

\* EventController.removeEvent: removeEvent, ...
Delete(r, i) ==
    /\ MayBegin(r) /\ RemoveEvent(i)
    /\ call' = [Changed EXCEPT ![r].at = "clear status", ![r].todo = {i}]
    /\ UNCHANGED <<cached, active, interrupted, missed>>

\* ... then clearActiveStatus.
ClearStatus(r) ==
    /\ At(r, "clear status")
    /\ active' = active \ call[r].todo
    /\ Return(r)
    /\ UNCHANGED <<registry, cached, interrupted, missed>>

\* removeEvents: no activity is cleared.
DeleteAll(r) ==
    /\ MayBegin(r) /\ RemoveAllEvents
    /\ call' = Changed
    /\ UNCHANGED <<cached, active, interrupted, missed>>

\* ActionController.createActionProfiles and removeActionProfile: no activity is cleared.
Profile(r) ==
    /\ \/ MayBegin(r) /\ \E p \in Profiles : CreateActionProfile(p) /\ UNCHANGED call
       \/ /\ MayBegin(r) /\ removing = {}
          /\ \E p \in Profiles : DeleteActionProfile(p)
          /\ call' = [call EXCEPT ![r].at = "removing"]
       \/ /\ At(r, "removing") /\ \E p \in Profiles : CollectEvents(p)
          /\ Goto(r, "doomed")
       \/ /\ At(r, "doomed") /\ \E i \in Ids : RemoveDoomed(i)
          /\ call' = Changed
       \/ At(r, "doomed") /\ doomed = {} /\ Return(r) /\ UNCHANGED registry
    /\ UNCHANGED <<cached, active, interrupted, missed>>

\* The process dies and starts again: what was active is forgotten with the states.
RestartEngine ==
    /\ Restart
    /\ interrupted' = interrupted \cup removing \cup {prof[events[i]] : i \in doomed}
    /\ cached' = FirstState /\ active' = {} /\ missed' = {}
    /\ call' = [t \in Threads |-> NoCall]

Report(t) ==
    \/ \E d \in Devices : Put(t, d)
    \/ Get(t)
    \/ t \in Reporters /\ NextEvent(t)

Request(r) ==
    \/ \E hs \in Lists : Post(r, hs)
    \/ Save(r) \/ CheckPosted(r) \/ NextPosted(r)
    \/ \E i \in Ids : Delete(r, i)
    \/ ClearStatus(r) \/ DeleteAll(r) \/ Profile(r)

EngineNext ==
    \/ \E t \in Reporters : Report(t)
    \/ \E t \in Threads : Check(t) \/ Fire(t) \/ Clear(t)
    \/ \E r \in Requests : Request(r)
    \/ Create \/ RestartEngine

EngineSpec == EngineInit /\ [][EngineNext]_engineVars

-----------------------------------------------------------------------------

\* The ranges of a handler hold of what the node knows, by what the ranges mean.
Holds(h, means(_, _)) ==
    LET holds(k) == means(ranges[h][k], cached[ranges[h][k].device])
    IN IF h \in requireAll THEN \A k \in DOMAIN ranges[h] : holds(k)
       ELSE \E k \in DOMAIN ranges[h] : holds(k)

\* "In order for the event to be considered triggered, all device states in triggerEvents
\* must be met" (EventHandler.java:25): when nothing is under way a registered event is
\* active only if its values are within its ranges, and always if no time is at a bound,
\* whatever events had its id before it, however reports overlap with each other and with a
\* request, and after a restart.  Two things put an event wrong, and only until it is
\* checked again (missed): a report that ended with the exception of its iterator before it
\* came to the event, and a removed event of its id that a report has checked too late.
ActiveAsRegistered ==
    (\A t \in Threads : call[t] = NoCall) =>
        \A i \in Ids : events[i] # None /\ i \notin missed =>
            /\ i \in active => Holds(events[i], Within)
            /\ Holds(events[i], Inside) => i \in active

\* An event whose profile is gone exists only while the removal of the profile is under way,
\* or if the process died during it.
DanglingOnlyIfInterrupted ==
    \A i \in Ids : events[i] # None /\ prof[events[i]] \notin profileRows
        => prof[events[i]] \in removing \cup interrupted \/ i \in doomed

-----------------------------------------------------------------------------
(* What it takes of the ranges and of the requests that events are active  *)
(* as they are registered.                                                 *)

\* A range is one of values, and bounds only parameters it has a first value for.
WellFormed(r) ==
    ~r.onChange /\ \A p \in Params : r.end[p] # Absent => r.params[p] # Absent

RangesFormed ==
    \A h \in Handlers :
        Mapped(ranges[h]) /\ \A k \in DOMAIN ranges[h] : WellFormed(ranges[h][k])

\* The states meet the ranges of a handler with no time at a bound.
Surely(h, states) ==
    LET holds(k) == Inside(ranges[h][k], states[ranges[h][k].device])
    IN IF h \in requireAll THEN \A k \in DOMAIN ranges[h] : holds(k)
       ELSE \E k \in DOMAIN ranges[h] : holds(k)

\* One request at a time, and under free ids.
OneAtATime == MayReplace = FALSE /\ \A r, s \in Requests : r = s

\* No event is triggered by the states a start begins with.
NothingMetAtFirst == \A h \in Handlers : ~Surely(h, FirstState)
=============================================================================
