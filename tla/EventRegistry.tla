---------------------------- MODULE EventRegistry ----------------------------
(***************************************************************************)
(* EventRegistry.java: the events of the primary node in memory, the index *)
(* from devices to the events that listen to them, and the two tables of   *)
(* the database behind them, through the operations of EventController and *)
(* ActionController, restarts included.                                    *)
(*                                                                         *)
(* A handler is an EventHandler OBJECT: the class has hashCode but no      *)
(* equals, so two objects with the same id and contents are different      *)
(* members of a HashSet.  Every request body and every load from the       *)
(* database makes new objects.                                             *)
(***************************************************************************)
EXTENDS Naturals, Sequences

CONSTANTS
    Ids, Devices, Profiles,
    Handlers,        \* EventHandler objects
    id, deps, prof,  \* their id, the devices they listen to, their profile
    Lists,           \* the lists of handlers a request may hold
    None,
    MayReplace,      \* whether users post events under an id that is taken
    MayRestart       \* whether the process may die or be stopped

VARIABLES
    events,          \* the map from ids to handlers
    index,           \* mapDevicesToTriggerEvents, defined on the devices with an entry
    eventRows,       \* the EventHandler table
    profileRows,     \* the ActionProfile table
    adding,          \* addEvents holds the monitor: its list, how many are created
    removing,        \* removeActionProfile: the profiles whose row is gone and
                     \* whose events are not yet
    doomed           \* removeEventsWithActionProfile holds the monitor: the ids
                     \* of the events left to remove

vars == <<events, index, eventRows, profileRows, adding, removing, doomed>>

Idle == [all |-> <<>>, done |-> 0]

ASSUME ConstantsAssumption ==
    /\ id \in [Handlers -> Ids]
    /\ deps \in [Handlers -> SUBSET Devices]
    /\ prof \in [Handlers -> Profiles]
    /\ Lists \subseteq Seq(Handlers) \ {<<>>}
    /\ None \notin Handlers
    /\ MayReplace \in BOOLEAN /\ MayRestart \in BOOLEAN

-----------------------------------------------------------------------------
(* The index.                                                              *)

Listening(d) == IF d \in DOMAIN index THEN index[d] ELSE {}

addToDeviceToTriggerEventMap(h) ==
    [d \in DOMAIN index \cup deps[h] |-> Listening(d) \cup {g \in {h} : d \in deps[h]}]

\* Removing a handler throws at the first of its devices without an entry.
Throws(h) == ~ deps[h] \subseteq DOMAIN index

\* Mutant: only the first device of the handler is looked at.
RemoveFromFirstDevice(h) == [index EXCEPT ![CHOOSE d \in deps[h] : TRUE] = @ \ {h}]

\* What it takes out of the index: the very object, nothing that only has its
\* id.  (It throws only for a handler the index does not hold.)
remoteFromDeviceToTriggerEventMap(h) == [d \in DOMAIN index |-> index[d] \ {h}]

-----------------------------------------------------------------------------
Init ==
    /\ events = [i \in Ids |-> None]
    /\ index = <<>>
    /\ eventRows = [i \in Ids |-> None]
    /\ profileRows = {}
    /\ adding = Idle
    /\ removing = {}
    /\ doomed = {}

MonitorFree == adding = Idle /\ doomed = {}

\* A new request body holds objects nobody has seen.
Fresh(h) == h \notin {events[i] : i \in Ids} \cup {eventRows[i] : i \in Ids}
                     \cup UNION {Listening(d) : d \in Devices}

-----------------------------------------------------------------------------
(* EventController.createEvents: addEvents validates all profiles, creates *)
(* one event after the other, and saves the list when all are created.     *)

\* Mutant: the profiles are not validated.
AddEventsUnvalidated(hs) ==
    /\ MonitorFree
    /\ \A k \in DOMAIN hs : Fresh(hs[k]) /\ events[id[hs[k]]] = None
    /\ \A j, k \in DOMAIN hs : j # k => id[hs[j]] # id[hs[k]]
    /\ adding' = [all |-> hs, done |-> 0]
    /\ UNCHANGED <<events, index, eventRows, profileRows, removing, doomed>>

AddEvents(hs) ==
    /\ MonitorFree
    /\ \A k \in DOMAIN hs : Fresh(hs[k]) /\ prof[hs[k]] \in profileRows
    /\ \A j, k \in DOMAIN hs : j # k => hs[j] # hs[k]
    /\ MayReplace \/ /\ \A k \in DOMAIN hs : events[id[hs[k]]] = None
                     /\ \A j, k \in DOMAIN hs : j # k => id[hs[j]] # id[hs[k]]
    /\ adding' = [all |-> hs, done |-> 0]
    /\ UNCHANGED <<events, index, eventRows, profileRows, removing, doomed>>

\* createEvent.  When the id was taken, it is the NEW handler that is removed
\* from the index; that throws if one of its devices has no entry yet, and the
\* request ends there, with the new handler in the map.
CreateEvent ==
    /\ adding.done < Len(adding.all)
    /\ LET h == adding.all[adding.done + 1]
           replaces == events[id[h]] # None
       IN  /\ events' = [events EXCEPT ![id[h]] = h]
           /\ IF replaces /\ Throws(h)
              THEN adding' = Idle /\ UNCHANGED index
              ELSE /\ index' = addToDeviceToTriggerEventMap(h)
                   /\ adding' = [adding EXCEPT !.done = @ + 1]
    /\ UNCHANGED <<eventRows, profileRows, removing, doomed>>

\* The last handler of an id in the list is the one the table keeps.
SaveEvents ==
    /\ adding # Idle /\ adding.done = Len(adding.all)
    /\ LET saved(i) == {k \in DOMAIN adding.all : id[adding.all[k]] = i} IN
       eventRows' = [i \in Ids |->
           IF saved(i) = {} THEN eventRows[i]
           ELSE adding.all[CHOOSE k \in saved(i) : \A j \in saved(i) : j <= k]]
    /\ adding' = Idle
    /\ UNCHANGED <<events, index, profileRows, removing, doomed>>

-----------------------------------------------------------------------------
(* removeEvent: out of the map, out of the index, out of the table, unless *)
(* the index throws in between.                                            *)

\* Mutant: the row stays.
RemoveKeepsRow(i) ==
    /\ events' = [events EXCEPT ![i] = None]
    /\ index' = remoteFromDeviceToTriggerEventMap(events[i])
    /\ UNCHANGED eventRows

Remove(i) ==
    LET h == events[i] IN
    /\ events' = [events EXCEPT ![i] = None]
    /\ index' = remoteFromDeviceToTriggerEventMap(h)
    /\ eventRows' = IF Throws(h) THEN eventRows ELSE [eventRows EXCEPT ![i] = None]

\* EventController.removeEvent; an unknown id throws and changes nothing.
RemoveEvent(i) ==
    /\ MonitorFree /\ events[i] # None
    /\ Remove(i)
    /\ UNCHANGED <<profileRows, adding, removing, doomed>>

RemoveAllEvents ==
    /\ MonitorFree
    /\ eventRows' = [i \in Ids |-> None]
    /\ events' = [i \in Ids |-> None]
    /\ index' = <<>>
    /\ UNCHANGED <<profileRows, adding, removing, doomed>>

-----------------------------------------------------------------------------
(* ActionController.                                                       *)

CreateActionProfile(p) ==
    /\ p \notin profileRows
    /\ profileRows' = profileRows \cup {p}
    /\ UNCHANGED <<events, index, eventRows, adding, removing, doomed>>

\* removeActionProfile deletes the profile's row first, without the monitor ...
DeleteActionProfile(p) ==
    /\ p \in profileRows \ removing
    /\ profileRows' = profileRows \ {p}
    /\ removing' = removing \cup {p}
    /\ UNCHANGED <<events, index, eventRows, adding, doomed>>

\* ... then removeEventsWithActionProfile collects the events that name it ...
CollectEvents(p) ==
    LET found == {i \in Ids : events[i] # None /\ prof[events[i]] = p} IN
    /\ MonitorFree /\ p \in removing
    /\ doomed' = found
    /\ removing' = removing \ {p}
    /\ UNCHANGED <<events, index, eventRows, profileRows, adding>>

\* ... and removes one after the other; the first that throws ends it.
RemoveDoomed(i) ==
    /\ i \in doomed
    /\ Remove(i)
    /\ doomed' = IF Throws(events[i]) THEN {} ELSE doomed \ {i}
    /\ UNCHANGED <<profileRows, adding, removing>>

-----------------------------------------------------------------------------
\* The process dies, or is stopped, at any point, and load() fills the map and
\* the index of the next one from the table, with new objects that stand where
\* the old ones did.
Restart ==
    /\ MayRestart
    /\ events' = eventRows
    /\ LET loaded == {h \in Handlers : eventRows[id[h]] = h} IN
       index' = [d \in UNION {deps[h] : h \in loaded} |-> {h \in loaded : d \in deps[h]}]
    /\ adding' = Idle /\ removing' = {} /\ doomed' = {}
    /\ UNCHANGED <<eventRows, profileRows>>

Next ==
    \/ \E hs \in Lists : AddEvents(hs)
    \/ CreateEvent \/ SaveEvents
    \/ \E i \in Ids : RemoveEvent(i) \/ RemoveDoomed(i)
    \/ RemoveAllEvents
    \/ \E p \in Profiles :
           CreateActionProfile(p) \/ DeleteActionProfile(p) \/ CollectEvents(p)
    \/ Restart

Spec == Init /\ [][Next]_vars

-----------------------------------------------------------------------------
(* Properties.                                                             *)

\* Every variable stays in its domain.
TypeOK ==
    /\ events \in [Ids -> Handlers \cup {None}]
    /\ DOMAIN index \subseteq Devices /\ \A d \in DOMAIN index : index[d] \subseteq Handlers
    /\ eventRows \in [Ids -> Handlers \cup {None}]
    /\ profileRows \subseteq Profiles
    /\ adding \in [all : Lists \cup {<<>>}, done : Nat] /\ adding.done <= Len(adding.all)
    /\ removing \subseteq Profiles
    /\ doomed \subseteq Ids

\* EventRegistry.java:33 "Table to map devices to the events they trigger": the
\* index of a device holds the registered handlers that listen to it and no
\* other, whenever no request is inside the registry.
IndexExact ==
    MonitorFree => \A d \in Devices :
        Listening(d) = {h \in Handlers : d \in deps[h] /\ events[id[h]] = h}

\* What is registered is what a restart would bring back.
SurvivesRestart == MonitorFree => events = eventRows

\* An event whose profile is gone exists only while the removal of the profile
\* is under way, for any interleaving with requests that add events under it.
DanglingOnlyWhileRemoving ==
    \A i \in Ids : events[i] # None /\ prof[events[i]] \notin profileRows
        => prof[events[i]] \in removing \/ i \in doomed
=============================================================================
