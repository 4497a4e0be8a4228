------------------------- MODULE EventEngine_proofs -------------------------
(***************************************************************************)
(* What the run engine checks on three handlers, for any handlers, ids,    *)
(* devices, profiles, lists, ranges and threads that report: first the     *)
(* registry by itself (EventRegistry), then its composition with the       *)
(* evaluation of the events (EventEngine).                                 *)
(***************************************************************************)
EXTENDS EventEngine, SequenceTheorems, WellFoundedInduction, TLAPS

-----------------------------------------------------------------------------
(* The inductive invariant.                                                *)

\* A handler is registered and stored under its own id only.
IdInv ==
    \A i \in Ids : /\ events[i] # None => id[events[i]] = i
                   /\ eventRows[i] # None => id[eventRows[i]] = i

\* The index at every step, inside the monitor as well.
IndexInv ==
    \A d \in Devices : \A h \in Handlers :
        h \in Listening(d) <=> d \in deps[h] /\ events[id[h]] = h

\* The list of a request: no id twice, the created part is registered, the ids
\* of the rest are free.
AddingInv ==
    /\ adding.all = <<>> => adding.done = 0
    /\ \A k \in DOMAIN adding.all :
          /\ events[id[adding.all[k]]] = IF k <= adding.done THEN adding.all[k] ELSE None
          /\ \A j \in DOMAIN adding.all : id[adding.all[j]] = id[adding.all[k]] => j = k

\* The table lags behind the map by what the current request has created.
RowsInv ==
    \A i \in Ids :
        \/ events[i] = eventRows[i]
        \/ \E k \in DOMAIN adding.all : k <= adding.done /\ id[adding.all[k]] = i

\* The events to remove are still there, and nobody adds.
DoomedInv ==
    /\ doomed # {} => adding.all = <<>>
    /\ \A i \in doomed : events[i] # None

IInv == TypeOK /\ IdInv /\ IndexInv /\ AddingInv /\ RowsInv /\ DoomedInv

\* What a request adds has its profile, unless its removal is under way.
ProfileInv ==
    \A k \in DOMAIN adding.all : prof[adding.all[k]] \in profileRows \cup removing

-----------------------------------------------------------------------------
(* What the operators return.                                              *)

\* A list is a sequence of handlers.
LEMMA ListType ==
    ASSUME NEW hs \in Lists \cup {<<>>}
    PROVE  /\ hs \in Seq(Handlers) /\ Len(hs) \in Nat /\ DOMAIN hs = 1..Len(hs)
           /\ \A k \in DOMAIN hs : hs[k] \in Handlers
           /\ Len(hs) = 0 <=> hs = <<>>
<1>1. hs \in Seq(Handlers)
  <2>1. CASE hs \in Lists
    BY <2>1, ConstantsAssumption
  <2>2. CASE hs = <<>>
    BY <2>2, EmptySeq
  <2>3. QED
    BY <2>1, <2>2
<1>2. Len(hs) \in Nat /\ DOMAIN hs = 1..Len(hs) /\ \A k \in DOMAIN hs : hs[k] \in Handlers
  BY <1>1
<1>3. Len(hs) = 0 <=> hs = <<>>
  BY <1>1
<1>4. QED
  BY <1>1, <1>2, <1>3

\* Adding a handler adds it to what its devices listen to, and changes nothing else.
LEMMA AddListens ==
    ASSUME TypeOK, NEW h \in Handlers, index' = addToDeviceToTriggerEventMap(h)
    PROVE  /\ DOMAIN index' \subseteq Devices
           /\ \A d \in DOMAIN index' : index'[d] \subseteq Handlers
           /\ \A d \in Devices : Listening(d)' = Listening(d) \cup {g \in {h} : d \in deps[h]}
<1>1. deps[h] \subseteq Devices
  BY ConstantsAssumption
<1>2. DOMAIN index' = DOMAIN index \cup deps[h]
  BY DEF addToDeviceToTriggerEventMap
<1>3. \A d \in DOMAIN index' : index'[d] = Listening(d) \cup {g \in {h} : d \in deps[h]}
  BY <1>2 DEF addToDeviceToTriggerEventMap
<1>4. \A d \in Devices : Listening(d) \subseteq Handlers
  BY DEF TypeOK, Listening
<1>5. \A d \in Devices : d \notin DOMAIN index' => Listening(d) = {} /\ d \notin deps[h]
  BY <1>2 DEF Listening
<1>6. \A d \in Devices : Listening(d)' = Listening(d) \cup {g \in {h} : d \in deps[h]}
  BY <1>3, <1>5 DEF Listening
<1>7. QED
  BY <1>1, <1>2, <1>3, <1>4, <1>6 DEF TypeOK

\* Removing a handler takes it, and nothing else, out of every entry.
LEMMA RemoveListens ==
    ASSUME TypeOK, NEW h, index' = remoteFromDeviceToTriggerEventMap(h)
    PROVE  /\ DOMAIN index' \subseteq Devices
           /\ \A d \in DOMAIN index' : index'[d] \subseteq Handlers
           /\ \A d \in Devices : Listening(d)' = Listening(d) \ {h}
  BY DEF TypeOK, remoteFromDeviceToTriggerEventMap, Listening

\* A registered handler is indexed on each of its devices, so that removing it
\* does not throw.
LEMMA RegisteredNeverThrows ==
    ASSUME TypeOK, IdInv, IndexInv, NEW i \in Ids, events[i] # None
    PROVE  ~Throws(events[i])
<1>1. events[i] \in Handlers /\ events[id[events[i]]] = events[i]
  BY DEF TypeOK, IdInv
<1>2. deps[events[i]] \subseteq Devices
  BY <1>1, ConstantsAssumption
<1>3. \A d \in deps[events[i]] : events[i] \in Listening(d)
  BY <1>1, <1>2 DEF IndexInv
<1>4. QED
  BY <1>3 DEF Throws, Listening

\* A set of positions of a list has a last one (the handler of an id that the
\* table keeps).
LEMMA LastPosition ==
    ASSUME NEW n \in Nat, NEW T \in SUBSET (1..n), T # {}
    PROVE  \E k \in T : \A j \in T : j <= k
<1> DEFINE U == {n - k : k \in T}
           R == {p \in Nat \X Nat : p[1] < p[2]}
<1>1. IsWellFoundedOn(R, Nat)
  BY NatLessThanWellFounded DEF OpToRel
<1>2. U \subseteq Nat /\ U # {}
  <2>1. \A k \in T : n - k \in Nat
    OBVIOUS
  <2>2. QED
    BY <2>1
<1>3. PICK x \in U : \A y \in U : ~ (<<y, x>> \in R)
  <2> HIDE DEF U, R
  <2> QED
    BY <1>1, <1>2, WFMin
<1>4. ASSUME NEW y \in U
      PROVE  x <= y
  <2>1. x \in Nat /\ y \in Nat
    BY <1>2
  <2>2. y < x => <<y, x>> \in R
    BY <2>1
  <2>3. QED
    BY <2>1, <2>2, <1>3
<1>5. PICK k \in T : x = n - k
  OBVIOUS
<1>6. ASSUME NEW j \in T
      PROVE  j <= k
  <2>1. n - k <= n - j
    BY <1>4, <1>5
  <2>2. j \in Int /\ k \in Int
    <3> HIDE DEF U, R
    <3>1. j \in 1..n /\ k \in 1..n
      OBVIOUS
    <3>2. QED
      BY <3>1
  <2>3. QED
    BY <2>1, <2>2
<1>7. QED
  BY <1>6

-----------------------------------------------------------------------------
\* No step leaves the types.
LEMMA TypeStep ==
    ASSUME TypeOK, [Next]_vars
    PROVE  TypeOK'
<1> USE ConstantsAssumption
<1>1. ASSUME NEW hs \in Lists, AddEvents(hs)
      PROVE  TypeOK'
  <2>1. Len(hs) \in Nat
    BY ListType
  <2>2. QED
    BY <1>1, <2>1 DEF AddEvents, TypeOK
<1>2. CASE CreateEvent
  <2> DEFINE h == adding.all[adding.done + 1]
  <2>1. adding.all \in Lists \cup {<<>>} /\ adding.done \in Nat
    BY DEF TypeOK
  <2>2. adding.done + 1 \in DOMAIN adding.all
    BY <1>2, <2>1, ListType DEF CreateEvent
  <2>3. h \in Handlers /\ id[h] \in Ids
    BY <2>1, <2>2, ListType
  <2>4. events' \in [Ids -> Handlers \cup {None}]
    BY <1>2, <2>3 DEF CreateEvent, TypeOK
  <2>5. DOMAIN index' \subseteq Devices /\ \A d \in DOMAIN index' : index'[d] \subseteq Handlers
    <3>1. CASE index' = index
      BY <3>1 DEF TypeOK
    <3>2. CASE index' = addToDeviceToTriggerEventMap(h)
      BY <3>2, <2>3, AddListens
    <3>3. QED
      BY <1>2, <3>1, <3>2 DEF CreateEvent
  <2>6. adding' \in [all : Lists \cup {<<>>}, done : Nat] /\ adding'.done <= Len(adding'.all)
    <3>1. CASE adding' = Idle
      BY <3>1, ListType DEF Idle
    <3>2. CASE adding' = [adding EXCEPT !.done = @ + 1]
      <4>1. adding'.all = adding.all /\ adding'.done = adding.done + 1
        BY <3>2 DEF TypeOK
      <4>2. adding.done < Len(adding.all) /\ Len(adding.all) \in Nat
        BY <1>2, <2>1, ListType DEF CreateEvent
      <4>3. adding'.done \in Nat /\ adding'.done <= Len(adding'.all)
        BY <2>1, <4>1, <4>2
      <4>4. adding' \in [all : Lists \cup {<<>>}, done : Nat]
        BY <2>1, <3>2 DEF TypeOK
      <4>5. QED
        BY <4>3, <4>4
    <3>3. QED
      BY <1>2, <3>1, <3>2 DEF CreateEvent
  <2>7. QED
    BY <1>2, <2>4, <2>5, <2>6 DEF CreateEvent, TypeOK
<1>3. CASE SaveEvents
  <2>1. adding.all \in Lists \cup {<<>>}
    BY DEF TypeOK
  <2>2. ASSUME NEW i \in Ids
        PROVE  eventRows'[i] \in Handlers \cup {None}
    <3> DEFINE saved == {k \in DOMAIN adding.all : id[adding.all[k]] = i}
               last == CHOOSE k \in saved : \A j \in saved : j <= k
    <3>1. CASE saved = {}
      BY <1>3, <3>1 DEF SaveEvents, TypeOK
    <3>2. CASE saved # {}
      <4>1. \E k \in saved : \A j \in saved : j <= k
        <5>1. saved \in SUBSET (1..Len(adding.all)) /\ Len(adding.all) \in Nat
          BY <2>1, ListType
        <5> HIDE DEF saved
        <5>2. QED
          BY <3>2, <5>1, LastPosition
      <4>2. last \in DOMAIN adding.all
        BY <4>1
      <4>3. eventRows'[i] = adding.all[last]
        BY <1>3, <3>2 DEF SaveEvents
      <4>4. QED
        BY <2>1, <4>2, <4>3, ListType
    <3>3. QED
      BY <3>1, <3>2
  <2>3. eventRows' \in [Ids -> Handlers \cup {None}]
    BY <1>3, <2>2 DEF SaveEvents
  <2>4. adding' \in [all : Lists \cup {<<>>}, done : Nat] /\ adding'.done <= Len(adding'.all)
    BY <1>3, ListType DEF SaveEvents, Idle
  <2>5. QED
    BY <1>3, <2>3, <2>4 DEF SaveEvents, TypeOK
<1>4. ASSUME NEW i \in Ids, RemoveEvent(i) \/ RemoveDoomed(i)
      PROVE  TypeOK'
  <2>1. /\ events' \in [Ids -> Handlers \cup {None}]
        /\ eventRows' \in [Ids -> Handlers \cup {None}]
    BY <1>4 DEF RemoveEvent, RemoveDoomed, Remove, TypeOK
  <2>2. DOMAIN index' \subseteq Devices /\ \A d \in DOMAIN index' : index'[d] \subseteq Handlers
    BY <1>4, RemoveListens DEF RemoveEvent, RemoveDoomed, Remove
  <2>3. QED
    BY <1>4, <2>1, <2>2 DEF RemoveEvent, RemoveDoomed, TypeOK
<1>5. CASE RemoveAllEvents
  BY <1>5 DEF RemoveAllEvents, TypeOK
<1>6. ASSUME NEW p \in Profiles,
             CreateActionProfile(p) \/ DeleteActionProfile(p) \/ CollectEvents(p)
      PROVE  TypeOK'
  BY <1>6 DEF CreateActionProfile, DeleteActionProfile, CollectEvents, TypeOK
<1>7. CASE Restart
  <2>1. adding' \in [all : Lists \cup {<<>>}, done : Nat] /\ adding'.done <= Len(adding'.all)
    BY <1>7, ListType DEF Restart, Idle
  <2>2. DOMAIN index' \subseteq Devices /\ \A d \in DOMAIN index' : index'[d] \subseteq Handlers
    BY <1>7 DEF Restart
  <2>3. QED
    BY <1>7, <2>1, <2>2 DEF Restart, TypeOK
<1>8. CASE UNCHANGED vars
  BY <1>8 DEF vars, TypeOK
<1>9. QED
  BY <1>1, <1>2, <1>3, <1>4, <1>5, <1>6, <1>7, <1>8 DEF Next

\* Type correctness of the registry, its tables and the requests inside it.
THEOREM TypeCorrect == Spec => []TypeOK
<1>1. Init => TypeOK
  BY DEF Init, TypeOK, Idle
<1>2. TypeOK /\ [Next]_vars => TypeOK'
  BY TypeStep
<1>3. QED
  BY <1>1, <1>2, PTL DEF Spec

-----------------------------------------------------------------------------
(* One lemma per action: it preserves the inductive invariant.             *)

\* A request whose ids are free and whose handlers differ enters the registry.
LEMMA AddEventsStep ==
    ASSUME IInv, TypeOK', MayReplace = FALSE, NEW hs \in Lists, AddEvents(hs)
    PROVE  IInv'
<1> USE ConstantsAssumption
<1>1. /\ hs # <<>> /\ DOMAIN hs = 1..Len(hs) /\ Len(hs) \in Nat
      /\ adding'.all = hs /\ adding'.done = 0
  BY ListType DEF AddEvents
<1>2. \A i \in Ids : events[i] = eventRows[i]
  BY DEF AddEvents, MonitorFree, Idle, IInv, RowsInv
<1>3. IdInv' /\ IndexInv'
  BY DEF AddEvents, IInv, IdInv, IndexInv, Listening
<1>4. AddingInv'
  BY <1>1 DEF AddEvents, AddingInv
<1>5. RowsInv'
  BY <1>2 DEF AddEvents, RowsInv
<1>6. DoomedInv'
  BY DEF AddEvents, MonitorFree, DoomedInv
<1>7. QED
  BY <1>3, <1>4, <1>5, <1>6 DEF IInv

\* The next handler of the list finds its id free, and goes into the map and
\* the index.
LEMMA CreateEventStep ==
    ASSUME IInv, TypeOK', CreateEvent
    PROVE  IInv'
<1> USE ConstantsAssumption
<1> DEFINE n == adding.done + 1
           h == adding.all[n]
<1>1. /\ adding.all \in Lists \cup {<<>>} /\ adding.done \in Nat
      /\ DOMAIN adding.all = 1..Len(adding.all) /\ Len(adding.all) \in Nat
  BY ListType DEF IInv, TypeOK
<1>2. n \in DOMAIN adding.all /\ ~ n <= adding.done /\ adding.all # <<>>
  BY <1>1, ListType DEF CreateEvent
<1>3. h \in Handlers /\ id[h] \in Ids
  BY <1>1, <1>2, ListType
<1>4. events[id[h]] = None
  BY <1>2 DEF IInv, AddingInv
<1>5. /\ events' = [events EXCEPT ![id[h]] = h]
      /\ index' = addToDeviceToTriggerEventMap(h)
      /\ adding' = [adding EXCEPT !.done = @ + 1]
      /\ eventRows' = eventRows /\ doomed' = doomed
  BY <1>4 DEF CreateEvent
<1>6. adding'.all = adding.all /\ adding'.done = n
  BY <1>5 DEF IInv, TypeOK
<1>7. \A i \in Ids : events'[i] = IF i = id[h] THEN h ELSE events[i]
  BY <1>3, <1>5 DEF IInv, TypeOK
<1> HIDE DEF n, h
<1>8. IdInv'
  BY <1>3, <1>5, <1>7 DEF IInv, IdInv
<1>9. IndexInv'
  <2> SUFFICES ASSUME NEW d \in Devices, NEW g \in Handlers
               PROVE  g \in Listening(d)' <=> d \in deps[g] /\ events'[id[g]] = g
    BY DEF IndexInv
  <2>1. Listening(d)' = Listening(d) \cup {f \in {h} : d \in deps[h]}
    BY <1>3, <1>5, AddListens DEF IInv
  <2>2. g \in Listening(d) <=> d \in deps[g] /\ events[id[g]] = g
    BY DEF IInv, IndexInv
  <2>3. CASE g = h
    BY <1>3, <1>4, <1>7, <2>1, <2>2, <2>3
  <2>4. CASE g # h
    BY <1>3, <1>4, <1>7, <2>1, <2>2, <2>4
  <2>5. QED
    BY <2>3, <2>4
<1>10. AddingInv'
  <2>1. n = adding.done + 1 /\ h = adding.all[n]
    BY DEF n, h
  <2> SUFFICES ASSUME NEW k \in DOMAIN adding.all
               PROVE  /\ events'[id[adding.all[k]]] = IF k <= n THEN adding.all[k] ELSE None
                      /\ \A j \in DOMAIN adding.all :
                            id[adding.all[j]] = id[adding.all[k]] => j = k
    BY <1>2, <1>6 DEF AddingInv
  <2>2. /\ events[id[adding.all[k]]] = IF k <= adding.done THEN adding.all[k] ELSE None
        /\ \A j \in DOMAIN adding.all : id[adding.all[j]] = id[adding.all[k]] => j = k
    BY DEF IInv, AddingInv
  <2>3. adding.all[k] \in Handlers /\ id[adding.all[k]] \in Ids
    BY <1>1, ListType
  <2>4. k \in Nat
    BY <1>1
  <2>5. CASE k = n
    BY <1>1, <1>7, <2>1, <2>2, <2>3, <2>5
  <2>6. CASE k # n
    <3>1. id[adding.all[k]] # id[h]
      BY <1>2, <2>1, <2>2, <2>6
    <3>2. k <= n <=> k <= adding.done
      BY <1>1, <2>1, <2>4, <2>6
    <3>3. QED
      BY <1>7, <2>2, <2>3, <3>1, <3>2
  <2>7. QED
    BY <2>5, <2>6
<1>11. RowsInv'
  <2> SUFFICES ASSUME NEW i \in Ids, events'[i] # eventRows[i]
               PROVE  \E k \in DOMAIN adding.all : k <= n /\ id[adding.all[k]] = i
    BY <1>5, <1>6 DEF RowsInv
  <2>1. CASE i = id[h]
    BY <1>1, <1>2, <2>1 DEF h, n
  <2>2. CASE i # id[h]
    <3>1. PICK k \in DOMAIN adding.all : k <= adding.done /\ id[adding.all[k]] = i
      BY <1>7, <2>2 DEF IInv, RowsInv
    <3>2. k <= n
      BY <1>1, <3>1 DEF n
    <3>3. QED
      BY <3>1, <3>2
  <2>3. QED
    BY <2>1, <2>2
<1>12. DoomedInv'
  BY <1>2, <1>5, <1>6 DEF IInv, DoomedInv
<1>13. QED
  BY <1>8, <1>9, <1>10, <1>11, <1>12 DEF IInv

\* Saving the list makes the table equal to the map.
LEMMA SaveEventsStep ==
    ASSUME IInv, TypeOK', SaveEvents
    PROVE  IInv'
<1> USE ConstantsAssumption
<1>1. /\ adding.all \in Lists \cup {<<>>} /\ adding.done = Len(adding.all)
      /\ DOMAIN adding.all = 1..Len(adding.all) /\ Len(adding.all) \in Nat
  BY ListType DEF IInv, TypeOK, SaveEvents
<1>2. adding.all # <<>>
  <2>1. adding = [all |-> adding.all, done |-> adding.done]
    BY DEF IInv, TypeOK
  <2>2. QED
    BY <2>1 DEF SaveEvents, Idle, IInv, AddingInv
<1>3. ASSUME NEW i \in Ids
      PROVE  eventRows'[i] = events[i]
  <2> DEFINE saved == {k \in DOMAIN adding.all : id[adding.all[k]] = i}
             last == CHOOSE k \in saved : \A j \in saved : j <= k
  <2>1. CASE saved = {}
    <3>1. eventRows'[i] = eventRows[i]
      BY <2>1 DEF SaveEvents
    <3>2. QED
      BY <2>1, <3>1 DEF IInv, RowsInv
  <2>2. CASE saved # {}
    <3>1. \E k \in saved : \A j \in saved : j <= k
      <4>1. saved \in SUBSET (1..Len(adding.all)) /\ Len(adding.all) \in Nat
        BY <1>1
      <4> HIDE DEF saved
      <4>2. QED
        BY <2>2, <4>1, LastPosition
    <3>2. last \in saved
      BY <3>1
    <3>3. eventRows'[i] = adding.all[last]
      BY <2>2 DEF SaveEvents
    <3> HIDE DEF last
    <3>4. last \in DOMAIN adding.all /\ id[adding.all[last]] = i /\ last <= adding.done
      BY <1>1, <3>2
    <3>5. QED
      BY <3>3, <3>4 DEF IInv, AddingInv
  <2>3. QED
    BY <2>1, <2>2
<1>4. adding'.all = <<>> /\ adding'.done = 0 /\ events' = events /\ doomed' = doomed
  BY DEF SaveEvents, Idle
<1>5. IdInv'
  BY <1>3, <1>4 DEF IInv, IdInv
<1>6. IndexInv'
  BY <1>4 DEF SaveEvents, IInv, IndexInv, Listening
<1>7. AddingInv'
  BY <1>4 DEF AddingInv
<1>8. RowsInv'
  BY <1>3, <1>4 DEF RowsInv
<1>9. DoomedInv'
  BY <1>2, <1>4 DEF IInv, DoomedInv
<1>10. QED
  BY <1>5, <1>6, <1>7, <1>8, <1>9 DEF IInv

\* Removing one registered handler keeps map, index and table together.
LEMMA RemoveStep ==
    ASSUME IInv, NEW i \in Ids, events[i] # None, Remove(i)
    PROVE  /\ IdInv' /\ IndexInv'
           /\ \A j \in Ids : events'[j] = IF j = i THEN None ELSE events[j]
           /\ \A j \in Ids : eventRows'[j] = IF j = i THEN None ELSE eventRows[j]
<1> USE ConstantsAssumption
<1> DEFINE h == events[i]
<1>1. h \in Handlers /\ id[h] = i /\ ~Throws(h)
  BY RegisteredNeverThrows DEF IInv, TypeOK, IdInv
<1>2. \A j \in Ids : events'[j] = IF j = i THEN None ELSE events[j]
  BY DEF Remove, IInv, TypeOK
<1>3. \A j \in Ids : eventRows'[j] = IF j = i THEN None ELSE eventRows[j]
  BY <1>1 DEF Remove, IInv, TypeOK
<1>4. IdInv'
  BY <1>2, <1>3 DEF IInv, IdInv
<1>5. IndexInv'
  <2> SUFFICES ASSUME NEW d \in Devices, NEW g \in Handlers
               PROVE  g \in Listening(d)' <=> d \in deps[g] /\ events'[id[g]] = g
    BY DEF IndexInv
  <2>1. Listening(d)' = Listening(d) \ {h}
    BY RemoveListens DEF IInv, Remove
  <2>2. g \in Listening(d) <=> d \in deps[g] /\ events[id[g]] = g
    BY DEF IInv, IndexInv
  <2>3. QED
    BY <1>1, <1>2, <2>1, <2>2
<1>6. QED
  BY <1>2, <1>3, <1>4, <1>5

\* A user's removal.
LEMMA RemoveEventStep ==
    ASSUME IInv, TypeOK', NEW i \in Ids, RemoveEvent(i)
    PROVE  IInv'
<1>1. /\ IdInv' /\ IndexInv'
      /\ \A j \in Ids : events'[j] = IF j = i THEN None ELSE events[j]
      /\ \A j \in Ids : eventRows'[j] = IF j = i THEN None ELSE eventRows[j]
  BY RemoveStep DEF RemoveEvent
<1>2. adding' = adding /\ doomed' = {} /\ adding.all = <<>>
  BY DEF RemoveEvent, MonitorFree, Idle
<1>3. AddingInv' /\ DoomedInv'
  BY <1>2 DEF IInv, AddingInv, DoomedInv
<1>4. RowsInv'
  BY <1>1, <1>2 DEF IInv, RowsInv
<1>5. QED
  BY <1>1, <1>3, <1>4 DEF IInv

\* One removal of those that follow the removal of a profile.
LEMMA RemoveDoomedStep ==
    ASSUME IInv, TypeOK', NEW i \in Ids, RemoveDoomed(i)
    PROVE  IInv' /\ doomed' = doomed \ {i} /\ adding.all = <<>>
<1>1. i \in doomed /\ events[i] # None /\ adding.all = <<>>
  BY DEF RemoveDoomed, IInv, DoomedInv
<1>2. /\ IdInv' /\ IndexInv'
      /\ \A j \in Ids : events'[j] = IF j = i THEN None ELSE events[j]
      /\ \A j \in Ids : eventRows'[j] = IF j = i THEN None ELSE eventRows[j]
  BY <1>1, RemoveStep DEF RemoveDoomed
<1>3. adding' = adding /\ doomed' = doomed \ {i}
  BY <1>1, RegisteredNeverThrows DEF RemoveDoomed, IInv
<1>4. AddingInv'
  BY <1>1, <1>3 DEF IInv, AddingInv
<1>5. DoomedInv'
  BY <1>1, <1>2, <1>3 DEF IInv, DoomedInv, TypeOK
<1>6. RowsInv'
  BY <1>1, <1>2, <1>3 DEF IInv, RowsInv
<1>7. QED
  BY <1>1, <1>2, <1>3, <1>4, <1>5, <1>6 DEF IInv

\* Everything goes at once.
LEMMA RemoveAllEventsStep ==
    ASSUME IInv, TypeOK', RemoveAllEvents
    PROVE  IInv'
<1>1. /\ \A i \in Ids : events'[i] = None /\ eventRows'[i] = None
      /\ \A d \in Devices : Listening(d)' = {}
      /\ adding' = adding /\ doomed' = {} /\ adding.all = <<>>
  BY DEF RemoveAllEvents, MonitorFree, Idle, Listening
<1>2. IdInv' /\ RowsInv'
  BY <1>1 DEF IdInv, RowsInv
<1>3. IndexInv'
  BY <1>1, ConstantsAssumption DEF IndexInv
<1>4. AddingInv' /\ DoomedInv'
  BY <1>1 DEF IInv, AddingInv, DoomedInv
<1>5. QED
  BY <1>2, <1>3, <1>4 DEF IInv

\* The requests about profiles touch neither map nor index nor table.
LEMMA ProfileStep ==
    ASSUME IInv, TypeOK', NEW p \in Profiles,
           CreateActionProfile(p) \/ DeleteActionProfile(p) \/ CollectEvents(p)
    PROVE  IInv'
<1>1. /\ events' = events /\ index' = index /\ eventRows' = eventRows
      /\ adding' = adding
  BY DEF CreateActionProfile, DeleteActionProfile, CollectEvents
<1>2. IdInv' /\ IndexInv' /\ AddingInv' /\ RowsInv'
  BY <1>1 DEF IInv, IdInv, IndexInv, AddingInv, RowsInv, Listening
<1>3. DoomedInv'
  <2>1. CASE doomed' = doomed
    BY <1>1, <2>1 DEF IInv, DoomedInv
  <2>2. CASE CollectEvents(p)
    BY <2>2 DEF CollectEvents, MonitorFree, Idle, DoomedInv
  <2>3. QED
    BY <2>1, <2>2 DEF CreateActionProfile, DeleteActionProfile
<1>4. QED
  BY <1>2, <1>3 DEF IInv

\* load() brings back what the table holds, whatever the restart interrupted.
LEMMA RestartStep ==
    ASSUME IInv, TypeOK', Restart
    PROVE  IInv'
<1> USE ConstantsAssumption
<1> DEFINE loaded == {h \in Handlers : eventRows[id[h]] = h}
<1>1. /\ events' = eventRows /\ eventRows' = eventRows
      /\ adding'.all = <<>> /\ adding'.done = 0 /\ doomed' = {}
      /\ index' = [d \in UNION {deps[h] : h \in loaded} |-> {h \in loaded : d \in deps[h]}]
  BY DEF Restart, Idle
<1>2. IdInv'
  BY <1>1 DEF IInv, IdInv
<1>3. IndexInv'
  <2> SUFFICES ASSUME NEW d \in Devices, NEW g \in Handlers
               PROVE  g \in Listening(d)' <=> d \in deps[g] /\ eventRows[id[g]] = g
    BY <1>1 DEF IndexInv
  <2>1. CASE d \in DOMAIN index'
    <3>1. Listening(d)' = {h \in loaded : d \in deps[h]}
      BY <1>1, <2>1 DEF Listening
    <3>2. QED
      BY <3>1
  <2>2. CASE d \notin DOMAIN index'
    <3>1. Listening(d)' = {}
      BY <2>2 DEF Listening
    <3>2. \A h \in loaded : d \notin deps[h]
      BY <1>1, <2>2
    <3>3. QED
      BY <3>1, <3>2
  <2>3. QED
    BY <2>1, <2>2
<1>4. AddingInv' /\ RowsInv' /\ DoomedInv'
  BY <1>1 DEF AddingInv, RowsInv, DoomedInv
<1>5. QED
  BY <1>2, <1>3, <1>4 DEF IInv

-----------------------------------------------------------------------------
(* The inductive invariant, and what follows from it.                      *)

\* The empty registry agrees with its empty table.
LEMMA InitInv == Init => IInv
<1> SUFFICES ASSUME Init
             PROVE  IInv
  OBVIOUS
<1>1. TypeOK
  BY DEF Init, TypeOK, Idle
<1>2. \A i \in Ids : events[i] = None /\ eventRows[i] = None
  BY DEF Init
<1>3. adding.all = <<>> /\ adding.done = 0 /\ doomed = {} /\ \A d \in Devices : Listening(d) = {}
  BY DEF Init, Idle, Listening
<1>4. IdInv /\ RowsInv
  BY <1>2 DEF IdInv, RowsInv
<1>5. IndexInv
  BY <1>2, <1>3, ConstantsAssumption DEF IndexInv
<1>6. AddingInv /\ DoomedInv
  BY <1>3 DEF AddingInv, DoomedInv
<1>7. QED
  BY <1>1, <1>4, <1>5, <1>6 DEF IInv

\* Every step of the registry keeps the invariant, if no taken id is posted.
LEMMA InvStep ==
    ASSUME MayReplace = FALSE, IInv, [Next]_vars
    PROVE  IInv'
<1>1. TypeOK'
  BY TypeStep DEF IInv
<1>2. ASSUME NEW hs \in Lists, AddEvents(hs)
      PROVE  IInv'
  BY <1>1, <1>2, AddEventsStep
<1>3. CASE CreateEvent
  BY <1>1, <1>3, CreateEventStep
<1>4. CASE SaveEvents
  BY <1>1, <1>4, SaveEventsStep
<1>5. ASSUME NEW i \in Ids, RemoveEvent(i) \/ RemoveDoomed(i)
      PROVE  IInv'
  BY <1>1, <1>5, RemoveEventStep, RemoveDoomedStep
<1>6. CASE RemoveAllEvents
  BY <1>1, <1>6, RemoveAllEventsStep
<1>7. ASSUME NEW p \in Profiles,
             CreateActionProfile(p) \/ DeleteActionProfile(p) \/ CollectEvents(p)
      PROVE  IInv'
  BY <1>1, <1>7, ProfileStep
<1>8. CASE Restart
  BY <1>1, <1>8, RestartStep
<1>9. CASE UNCHANGED vars
  BY <1>9 DEF vars, IInv, TypeOK, IdInv, IndexInv, AddingInv, RowsInv, DoomedInv, Listening
<1>10. QED
  BY <1>2, <1>3, <1>4, <1>5, <1>6, <1>7, <1>8, <1>9 DEF Next

\* Between two requests nothing is left that the inductive invariant excepts.
LEMMA InvSuffices == IInv => IndexExact /\ SurvivesRestart
<1> SUFFICES ASSUME IInv
             PROVE  IndexExact /\ SurvivesRestart
  OBVIOUS
<1>1. IndexExact
  <2> SUFFICES ASSUME NEW d \in Devices
               PROVE  Listening(d) = {h \in Handlers : d \in deps[h] /\ events[id[h]] = h}
    BY DEF IndexExact
  <2>1. Listening(d) \subseteq Handlers
    BY DEF Listening, IInv, TypeOK
  <2>2. QED
    BY <2>1 DEF IInv, IndexInv
<1>2. SurvivesRestart
  <2> SUFFICES ASSUME MonitorFree
               PROVE  events = eventRows
    BY DEF SurvivesRestart
  <2>1. adding.all = <<>> /\ DOMAIN adding.all = {}
    BY DEF MonitorFree, Idle
  <2>2. \A i \in Ids : events[i] = eventRows[i]
    BY <2>1 DEF IInv, RowsInv
  <2>3. QED
    BY <2>2 DEF IInv, TypeOK
<1>3. QED
  BY <1>1, <1>2

\* The index from devices to events (EventRegistry.java:33) holds exactly the
\* registered handlers that listen to each device whenever no request is inside
\* the registry, through every restart, as long as users post events under free
\* ids: createEvent's clean-up of a replaced event is all that can break it.
THEOREM IndexIsExact ==
    ASSUME MayReplace = FALSE
    PROVE  Spec => []IndexExact
<1>1. IInv /\ [Next]_vars => IInv'
  BY InvStep
<1>2. QED
  BY InitInv, <1>1, InvSuffices, PTL DEF Spec

\* Under the same condition the table of events is the map of events whenever
\* no request is inside the registry: a restart then loses and revives nothing.
THEOREM MapSurvivesRestart ==
    ASSUME MayReplace = FALSE
    PROVE  Spec => []SurvivesRestart
<1>1. IInv /\ [Next]_vars => IInv'
  BY InvStep
<1>2. QED
  BY InitInv, <1>1, InvSuffices, PTL DEF Spec

-----------------------------------------------------------------------------
(* The events of a removed profile.                                        *)

\* Every step but a restart.
Operation ==
    \/ \E hs \in Lists : AddEvents(hs)
    \/ CreateEvent \/ SaveEvents
    \/ \E i \in Ids : RemoveEvent(i) \/ RemoveDoomed(i)
    \/ RemoveAllEvents
    \/ \E p \in Profiles :
           CreateActionProfile(p) \/ DeleteActionProfile(p) \/ CollectEvents(p)

\* The event of an id has lost its profile, and nobody is about to remove it.
Dangling(i) ==
    events[i] # None /\ prof[events[i]] \notin profileRows \cup removing /\ i \notin doomed

\* No operation of the registry leaves an event behind without its profile.
LEMMA OperationsLeaveNoneDangling ==
    ASSUME MayReplace = FALSE, IInv, ProfileInv, Operation
    PROVE  /\ ProfileInv'
           /\ \A i \in Ids : Dangling(i)' => Dangling(i) /\ events'[i] = events[i]
<1> DEFINE Kept == \A i \in Ids : Dangling(i)' => Dangling(i) /\ events'[i] = events[i]
<1>1. IInv'
  BY InvStep DEF Operation, Next
<1>2. ASSUME NEW hs \in Lists, AddEvents(hs)
      PROVE  ProfileInv' /\ Kept
  <2>1. adding'.all = hs /\ \A k \in DOMAIN hs : prof[hs[k]] \in profileRows
    BY <1>2 DEF AddEvents
  <2>2. ProfileInv'
    BY <1>2, <2>1 DEF AddEvents, ProfileInv
  <2>3. Kept
    BY <1>2 DEF AddEvents, Dangling
  <2>4. QED
    BY <2>2, <2>3
<1>3. CASE CreateEvent
  <2> DEFINE n == adding.done + 1
             h == adding.all[n]
  <2>1. /\ adding.all \in Lists \cup {<<>>} /\ adding.done \in Nat
        /\ DOMAIN adding.all = 1..Len(adding.all) /\ Len(adding.all) \in Nat
    BY ListType DEF IInv, TypeOK
  <2>2. n \in DOMAIN adding.all /\ ~ n <= adding.done
    BY <1>3, <2>1 DEF CreateEvent
  <2>3. h \in Handlers /\ id[h] \in Ids
    BY <2>1, <2>2, ListType, ConstantsAssumption
  <2>4. events[id[h]] = None
    BY <2>2 DEF IInv, AddingInv
  <2>5. /\ events' = [events EXCEPT ![id[h]] = h]
        /\ adding' = [adding EXCEPT !.done = @ + 1]
        /\ profileRows' = profileRows /\ removing' = removing /\ doomed' = doomed
    BY <1>3, <2>4 DEF CreateEvent
  <2>6. ProfileInv'
    <3>1. adding'.all = adding.all
      BY <2>5 DEF IInv, TypeOK
    <3>2. QED
      BY <2>5, <3>1 DEF ProfileInv
  <2>7. \A i \in Ids : events'[i] = IF i = id[h] THEN h ELSE events[i]
    BY <2>3, <2>5 DEF IInv, TypeOK
  <2>8. prof[h] \in profileRows \cup removing
    BY <2>2 DEF ProfileInv
  <2> HIDE DEF h
  <2>9. Kept
    BY <2>5, <2>7, <2>8 DEF Dangling
  <2>10. QED
    BY <2>6, <2>9
<1>4. CASE SaveEvents
  <2>1. DOMAIN adding'.all = {}
    BY <1>4 DEF SaveEvents, Idle
  <2>2. ProfileInv'
    BY <2>1 DEF ProfileInv
  <2>3. /\ events' = events /\ profileRows' = profileRows
        /\ removing' = removing /\ doomed' = doomed
    BY <1>4 DEF SaveEvents
  <2>4. Kept
    BY <2>3 DEF Dangling
  <2>5. QED
    BY <2>2, <2>4
<1>5. ASSUME NEW i \in Ids, RemoveEvent(i)
      PROVE  ProfileInv' /\ Kept
  <2>1. \A j \in Ids : events'[j] = IF j = i THEN None ELSE events[j]
    BY <1>5, RemoveStep DEF RemoveEvent
  <2>2. /\ profileRows' = profileRows /\ removing' = removing
        /\ doomed' = doomed /\ adding' = adding
    BY <1>5 DEF RemoveEvent
  <2>3. QED
    BY <2>1, <2>2 DEF ProfileInv, Dangling
<1>6. ASSUME NEW i \in Ids, RemoveDoomed(i)
      PROVE  ProfileInv' /\ Kept
  <2>1. events[i] # None
    BY <1>6 DEF RemoveDoomed, IInv, DoomedInv
  <2>2. \A j \in Ids : events'[j] = IF j = i THEN None ELSE events[j]
    BY <1>6, <2>1, RemoveStep DEF RemoveDoomed
  <2>3. /\ profileRows' = profileRows /\ removing' = removing
        /\ doomed' = doomed \ {i} /\ adding' = adding
    BY <1>1, <1>6, RemoveDoomedStep DEF RemoveDoomed, IInv
  <2>4. QED
    BY <2>2, <2>3 DEF ProfileInv, Dangling
<1>7. CASE RemoveAllEvents
  <2>1. \A i \in Ids : events'[i] = None
    BY <1>7 DEF RemoveAllEvents
  <2>2. adding' = adding /\ profileRows' = profileRows /\ removing' = removing
    BY <1>7 DEF RemoveAllEvents
  <2>3. ProfileInv'
    BY <2>2 DEF ProfileInv
  <2>4. Kept
    BY <2>1 DEF Dangling
  <2>5. QED
    BY <2>3, <2>4
<1>8. ASSUME NEW p \in Profiles, CreateActionProfile(p)
      PROVE  ProfileInv' /\ Kept
  BY <1>8 DEF CreateActionProfile, ProfileInv, Dangling
<1>9. ASSUME NEW p \in Profiles, DeleteActionProfile(p)
      PROVE  ProfileInv' /\ Kept
  BY <1>9 DEF DeleteActionProfile, ProfileInv, Dangling
<1>10. ASSUME NEW p \in Profiles, CollectEvents(p)
       PROVE  ProfileInv' /\ Kept
  <2>1. DOMAIN adding'.all = {} /\ doomed = {}
    BY <1>10 DEF CollectEvents, MonitorFree, Idle
  <2>2. ProfileInv'
    BY <2>1 DEF ProfileInv
  <2>3. Kept
    BY <1>10, <2>1 DEF CollectEvents, Dangling
  <2>4. QED
    BY <2>2, <2>3
<1>11. QED
  BY <1>2, <1>3, <1>4, <1>5, <1>6, <1>7, <1>8, <1>9, <1>10 DEF Operation

\* While the process runs, an event whose profile is gone exists only while the
\* removal of that profile is under way: a request that validated the profile
\* before its row went away cannot leave an event behind, because the clean-up
\* waits for the monitor and then finds what the request has created.  A
\* restart in between is what does leave one.
THEOREM DanglingOnlyWhileItsProfileGoes ==
    ASSUME MayReplace = FALSE, MayRestart = FALSE
    PROVE  Spec => []DanglingOnlyWhileRemoving
<1> DEFINE DInv == IInv /\ ProfileInv /\ \A i \in Ids : ~Dangling(i)
<1>1. Init => DInv
  <2>1. Init => ProfileInv /\ \A i \in Ids : ~Dangling(i)
    BY DEF Init, Idle, ProfileInv, Dangling
  <2>2. QED
    BY <2>1, InitInv
<1>2. DInv /\ [Next]_vars => DInv'
  <2> SUFFICES ASSUME DInv, [Next]_vars
               PROVE  DInv'
    OBVIOUS
  <2>1. IInv'
    BY InvStep
  <2>2. CASE Operation
    BY <2>1, <2>2, OperationsLeaveNoneDangling
  <2>3. CASE UNCHANGED vars
    <3>1. /\ events' = events /\ profileRows' = profileRows
          /\ removing' = removing /\ doomed' = doomed /\ adding' = adding
      BY <2>3 DEF vars
    <3>2. QED
      BY <2>1, <3>1 DEF ProfileInv, Dangling
  <2>4. ~Restart
    BY DEF Restart
  <2>5. QED
    BY <2>2, <2>3, <2>4 DEF Next, Operation
<1>3. DInv => DanglingOnlyWhileRemoving
  BY DEF Dangling, DanglingOnlyWhileRemoving
<1> HIDE DEF DInv
<1>4. QED
  BY <1>1, <1>2, <1>3, PTL DEF Spec

-----------------------------------------------------------------------------
(* The composition: what reports and controllers do to the registry.       *)

\* A step of the engine is an operation of the registry, none of its business,
\* or a restart.
LEMMA EngineStep ==
    ASSUME EngineNext
    PROVE  \/ (Operation \/ UNCHANGED vars) /\ UNCHANGED interrupted
           \/ RestartEngine
<1>1. ASSUME NEW t \in Reporters, Report(t)
      PROVE  UNCHANGED vars /\ UNCHANGED interrupted
  BY <1>1 DEF Report, Put, Get, NextEvent, registry, vars
<1>2. ASSUME NEW t \in Threads, Check(t) \/ Fire(t) \/ Clear(t)
      PROVE  UNCHANGED vars /\ UNCHANGED interrupted
  BY <1>2 DEF Check, Fire, Clear, registry, vars
<1>3. ASSUME NEW r \in Requests, Request(r)
      PROVE  (Operation \/ UNCHANGED vars) /\ UNCHANGED interrupted
  <2>1. ASSUME NEW hs \in Lists, Post(r, hs)
        PROVE  Operation /\ UNCHANGED interrupted
    BY <2>1 DEF Post, Operation
  <2>2. ASSUME NEW i \in Ids, Delete(r, i)
        PROVE  Operation /\ UNCHANGED interrupted
    BY <2>2 DEF Delete, Operation
  <2>3. ASSUME Save(r) \/ DeleteAll(r)
        PROVE  Operation /\ UNCHANGED interrupted
    BY <2>3 DEF Save, DeleteAll, Operation
  <2>4. ASSUME CheckPosted(r) \/ NextPosted(r) \/ ClearStatus(r)
        PROVE  UNCHANGED vars /\ UNCHANGED interrupted
    BY <2>4 DEF CheckPosted, NextPosted, ClearStatus, registry, vars
  <2>5. ASSUME Profile(r)
        PROVE  (Operation \/ UNCHANGED vars) /\ UNCHANGED interrupted
    BY <2>5 DEF Profile, Operation, registry, vars
  <2>6. QED
    BY <1>3, <2>1, <2>2, <2>3, <2>4, <2>5 DEF Request
<1>4. CASE Create
  BY <1>4 DEF Create, Operation
<1>5. QED
  BY <1>1, <1>2, <1>3, <1>4 DEF EngineNext

\* Every step of the composition is one of the registry, or changes nothing there.
LEMMA EngineStepInRegistry == [EngineNext]_engineVars => [Next]_vars
<1>1. CASE EngineNext
  BY <1>1, EngineStep DEF Operation, Next, RestartEngine
<1>2. CASE UNCHANGED engineVars
  BY <1>2 DEF engineVars, registry, vars
<1>3. QED
  BY <1>1, <1>2

\* The composition implements the registry's own specification: neither the
\* reports nor the controllers do more with it than its operations allow.
THEOREM EngineImplementsRegistry == EngineSpec => Spec
<1>1. EngineInit => Init
  BY DEF EngineInit
<1>2. QED
  BY <1>1, EngineStepInRegistry, PTL DEF EngineSpec, Spec

\* What is proved of the registry holds in the composition.
THEOREM EngineKeepsRegistry ==
    ASSUME MayReplace = FALSE
    PROVE  EngineSpec => [](TypeOK /\ IndexExact /\ SurvivesRestart)
  BY EngineImplementsRegistry, TypeCorrect, IndexIsExact, MapSurvivesRestart, PTL

-----------------------------------------------------------------------------
(* The events of a removed profile, restarts included.                     *)

\* The table holds nothing that is not registered.
RowsBehind == \A i \in Ids : eventRows[i] # None => events[i] = eventRows[i]

\* Every step keeps the table behind the map.
LEMMA RowsStayBehind ==
    ASSUME MayReplace = FALSE, IInv, RowsBehind, [Next]_vars
    PROVE  RowsBehind'
<1> USE ConstantsAssumption
<1>1. IInv'
  BY InvStep
<1>2. CASE CreateEvent
  <2> DEFINE n == adding.done + 1
             h == adding.all[n]
  <2>1. /\ adding.all \in Lists \cup {<<>>} /\ adding.done \in Nat
        /\ DOMAIN adding.all = 1..Len(adding.all) /\ Len(adding.all) \in Nat
    BY ListType DEF IInv, TypeOK
  <2>2. n \in DOMAIN adding.all /\ ~ n <= adding.done
    BY <1>2, <2>1 DEF CreateEvent
  <2>3. events[id[h]] = None
    BY <2>2 DEF IInv, AddingInv
  <2>4. events' = [events EXCEPT ![id[h]] = h] /\ eventRows' = eventRows
    BY <1>2 DEF CreateEvent
  <2> HIDE DEF h
  <2>5. \A i \in Ids : i # id[h] => events'[i] = events[i]
    BY <2>4 DEF IInv, TypeOK
  <2>6. QED
    BY <2>3, <2>4, <2>5 DEF RowsBehind
<1>3. CASE SaveEvents
  <2>1. DOMAIN adding'.all = {}
    BY <1>3 DEF SaveEvents, Idle
  <2>2. QED
    BY <1>1, <2>1 DEF IInv, RowsInv, RowsBehind
<1>4. ASSUME NEW i \in Ids, RemoveEvent(i) \/ RemoveDoomed(i)
      PROVE  RowsBehind'
  <2>1. events[i] # None
    BY <1>4 DEF RemoveEvent, RemoveDoomed, IInv, DoomedInv
  <2>2. /\ \A j \in Ids : events'[j] = IF j = i THEN None ELSE events[j]
        /\ \A j \in Ids : eventRows'[j] = IF j = i THEN None ELSE eventRows[j]
    BY <1>4, <2>1, RemoveStep DEF RemoveEvent, RemoveDoomed
  <2>3. QED
    BY <2>2 DEF RowsBehind
<1>5. CASE RemoveAllEvents
  BY <1>5 DEF RemoveAllEvents, RowsBehind
<1>6. CASE Restart
  BY <1>6 DEF Restart, RowsBehind
<1>7. ASSUME NEW p \in Profiles,
             CreateActionProfile(p) \/ DeleteActionProfile(p) \/ CollectEvents(p)
      PROVE  RowsBehind'
  BY <1>7 DEF CreateActionProfile, DeleteActionProfile, CollectEvents, RowsBehind
<1>8. ASSUME NEW hs \in Lists, AddEvents(hs)
      PROVE  RowsBehind'
  BY <1>8 DEF AddEvents, RowsBehind
<1>9. CASE UNCHANGED vars
  BY <1>9 DEF vars, RowsBehind
<1>10. QED
  BY <1>2, <1>3, <1>4, <1>5, <1>6, <1>7, <1>8, <1>9 DEF Next

DanglingInv ==
    /\ IInv /\ ProfileInv /\ RowsBehind
    /\ \A i \in Ids : Dangling(i) => prof[events[i]] \in interrupted

\* A restart brings back only events that were registered: those without a
\* profile were about to be removed, or dangled before.
LEMMA RestartDangling ==
    ASSUME DanglingInv, RestartEngine
    PROVE  ProfileInv' /\ \A i \in Ids : Dangling(i)' => prof[events'[i]] \in interrupted'
<1>1. /\ events' = eventRows /\ profileRows' = profileRows
      /\ interrupted' = interrupted \cup removing \cup {prof[events[i]] : i \in doomed}
      /\ DOMAIN adding'.all = {}
  BY DEF RestartEngine, Restart, Idle
<1>2. ProfileInv'
  BY <1>1 DEF ProfileInv
<1>3. ASSUME NEW i \in Ids, Dangling(i)'
      PROVE  prof[events'[i]] \in interrupted'
  <2>1. events[i] # None /\ events'[i] = events[i] /\ prof[events[i]] \notin profileRows
    BY <1>1, <1>3 DEF DanglingInv, RowsBehind, Dangling
  <2>2. CASE prof[events[i]] \in removing \/ i \in doomed
    BY <1>1, <2>1, <2>2
  <2>3. CASE Dangling(i)
    BY <1>1, <2>1, <2>3 DEF DanglingInv
  <2>4. QED
    BY <2>1, <2>2, <2>3 DEF Dangling
<1>4. QED
  BY <1>2, <1>3

\* An event whose profile is gone exists only while the removal of that profile
\* is under way, or because the process died during it, in whatever order
\* requests, reports and restarts come.
THEOREM DanglingOnlyAfterInterruption ==
    ASSUME MayReplace = FALSE
    PROVE  EngineSpec => []DanglingOnlyIfInterrupted
<1>1. EngineInit => DanglingInv
  <2>1. EngineInit => ProfileInv /\ RowsBehind /\ \A i \in Ids : ~Dangling(i)
    BY DEF EngineInit, Init, Idle, ProfileInv, RowsBehind, Dangling
  <2>2. QED
    BY <2>1, InitInv DEF EngineInit, DanglingInv
<1>2. DanglingInv /\ [EngineNext]_engineVars => DanglingInv'
  <2> SUFFICES ASSUME DanglingInv, [EngineNext]_engineVars
               PROVE  DanglingInv'
    OBVIOUS
  <2>1. IInv' /\ RowsBehind'
    BY EngineStepInRegistry, InvStep, RowsStayBehind DEF DanglingInv
  <2>2. CASE Operation /\ UNCHANGED interrupted
    <3>1. /\ ProfileInv'
          /\ \A i \in Ids : Dangling(i)' => Dangling(i) /\ events'[i] = events[i]
      BY <2>2, OperationsLeaveNoneDangling DEF DanglingInv
    <3>2. QED
      BY <2>1, <2>2, <3>1 DEF DanglingInv
  <2>3. CASE UNCHANGED vars /\ UNCHANGED interrupted
    <3>1. /\ events' = events /\ profileRows' = profileRows /\ removing' = removing
          /\ doomed' = doomed /\ adding' = adding /\ interrupted' = interrupted
      BY <2>3 DEF vars
    <3>2. QED
      BY <2>1, <3>1 DEF DanglingInv, ProfileInv, Dangling
  <2>4. CASE RestartEngine
    BY <2>1, <2>4, RestartDangling DEF DanglingInv
  <2>5. CASE UNCHANGED engineVars
    BY <2>3, <2>5 DEF engineVars, registry, vars
  <2>6. QED
    BY <2>2, <2>3, <2>4, <2>5, EngineStep
<1>3. DanglingInv => DanglingOnlyIfInterrupted
  BY DEF DanglingInv, Dangling, DanglingOnlyIfInterrupted
<1>4. QED
  BY <1>1, <1>2, <1>3, PTL DEF EngineSpec

-----------------------------------------------------------------------------
(* The evaluation of the events: what a range answers and what it means.   *)

\* A triggered range is met, and one that is met with no time at a bound is triggered.
LEMMA TriggeredMeans ==
    ASSUME NEW dev,
           NEW r \in RangeRecords,
           WellFormed(r), NEW s \in Partial
    PROVE  /\ IsTriggered(r, s, dev) => Within(r, s)
           /\ Inside(r, s) => IsTriggered(r, s, dev)
<1> USE RangesAssumption DEF Absent
<1>1. /\ r.params \in [Params -> Int] /\ r.end \in [Params -> Int] /\ s \in [Params -> Int]
      /\ ~r.onChange
  BY DEF RangeRecords, Partial, WellFormed
<1>2. CASE r.end = Empty
  <2>1. \A p \in Params : r.end[p] = -1
    BY <1>2 DEF Empty
  <2>2. IsTriggered(r, s, dev) <=> \A p \in Params : r.params[p] # -1 => s[p] = r.params[p]
    BY <1>1, <1>2 DEF IsTriggered, Contains
  <2>3. Within(r, s) <=> \A p \in Params : r.params[p] # -1 => s[p] = r.params[p]
    <3>1. ASSUME NEW p \in Params
          PROVE  /\ r.params[p] # -1 => s[p] # -1 /\ r.params[p] <= s[p]
                 /\ r.params[p] \in {-1, s[p]}
                 <=> (r.params[p] # -1 => s[p] = r.params[p])
      <4>1. r.params[p] \in Int /\ s[p] \in Int
        BY <1>1
      <4>2. QED
        BY <4>1
    <3>2. Within(r, s) <=>
              \A p \in Params : /\ r.params[p] # -1 => s[p] # -1 /\ r.params[p] <= s[p]
                                /\ r.params[p] \in {-1, s[p]}
      BY <1>2, <2>1 DEF Within
    <3>3. QED
      BY <3>1, <3>2
  <2>4. QED
    BY <1>2, <2>2, <2>3 DEF Inside
<1>3. CASE r.end # Empty
  <2>1. IsTriggered(r, s, dev) <=>
            \A p \in Params : r.params[p] # -1 =>
                CheckBound(p, r.params[p], s[p]) /\ CheckBound(p, s[p], r.end[p])
    BY <1>1, <1>3 DEF IsTriggered
  <2>2. Within(r, s) <=>
            \A p \in Params : /\ r.params[p] # -1 => s[p] # -1 /\ r.params[p] <= s[p]
                              /\ r.end[p] # -1 => s[p] # -1 /\ s[p] <= r.end[p]
    BY <1>3 DEF Within
  <2>3. ASSUME NEW p \in Params, r.params[p] # -1,
               CheckBound(p, r.params[p], s[p]), CheckBound(p, s[p], r.end[p])
        PROVE  s[p] # -1 /\ r.params[p] <= s[p] /\ (r.end[p] # -1 => s[p] <= r.end[p])
    BY <1>1, <2>3 DEF CheckBound
  <2>4. ASSUME NEW p \in Params, r.params[p] # -1, s[p] # -1, r.params[p] <= s[p],
               r.end[p] # -1 => s[p] <= r.end[p],
               p = "time" => s[p] \notin {r.params[p], r.end[p]} \ {-1}
        PROVE  CheckBound(p, r.params[p], s[p]) /\ CheckBound(p, s[p], r.end[p])
    BY <1>1, <2>4 DEF CheckBound
  <2>5. \A p \in Params : r.end[p] # -1 => r.params[p] # -1
    BY DEF WellFormed
  <2>6. IsTriggered(r, s, dev) => Within(r, s)
    BY <2>1, <2>2, <2>3, <2>5
  <2>7. Inside(r, s) => IsTriggered(r, s, dev)
    BY <1>3, <2>1, <2>2, <2>4 DEF Inside
  <2>8. QED
    BY <2>6, <2>7
<1>4. QED
  BY <1>2, <1>3

\* What the ranges of a handler mean of the states.
Means(h, states) ==
    LET holds(k) == Within(ranges[h][k], states[ranges[h][k].device])
    IN IF h \in requireAll THEN \A k \in DOMAIN ranges[h] : holds(k)
       ELSE \E k \in DOMAIN ranges[h] : holds(k)

\* The range of a handler and its device, for each position.
LEMMA RangeType ==
    ASSUME NEW h \in Handlers, NEW k \in DOMAIN ranges[h]
    PROVE  /\ ranges[h][k] \in RangeRecords
           /\ ranges[h][k].device \in deps[h] /\ ranges[h][k].device \in Devices
<1>1. ranges[h][k] \in RangeRecords
  BY EngineAssumption
<1>2. deps[h] = {ranges[h][j].device : j \in DOMAIN ranges[h]}
  BY EngineAssumption DEF DevicesOf
<1>3. QED
  BY <1>1, <1>2 DEF RangeRecords

\* The condition that is evaluated, and what it means.
LEMMA ConditionMeans ==
    ASSUME RangesFormed, NEW h \in Handlers, NEW dev, cached \in [Devices -> Partial]
    PROVE  /\ checkIfTriggered(h, dev) => Means(h, cached)
           /\ Surely(h, cached) => checkIfTriggered(h, dev)
<1>1. ASSUME NEW k \in DOMAIN ranges[h]
      PROVE  LET r == ranges[h][k]
                 s == cached[ranges[h][k].device]
             IN  /\ IsTriggered(r, s, dev) => Within(r, s)
                 /\ Inside(r, s) => IsTriggered(r, s, dev)
  <2>1. cached[ranges[h][k].device] \in Partial
    BY RangeType
  <2>2. QED
    BY <2>1, RangeType, TriggeredMeans DEF RangesFormed
<1>2. checkIfTriggered(h, dev) <=>
          IF h \in requireAll
          THEN \A k \in DOMAIN ranges[h] :
                   IsTriggered(ranges[h][k], cached[ranges[h][k].device], dev)
          ELSE \E k \in DOMAIN ranges[h] :
                   IsTriggered(ranges[h][k], cached[ranges[h][k].device], dev)
  BY DEF checkIfTriggered, StatesMet
<1>3. QED
  BY <1>1, <1>2 DEF Means, Surely

\* A state that a handler does not listen to changes nothing for it.
LEMMA OtherStates ==
    ASSUME NEW h \in Handlers, NEW states, NEW other,
           \A d \in deps[h] : other[d] = states[d]
    PROVE  /\ Means(h, other) <=> Means(h, states)
           /\ Surely(h, other) <=> Surely(h, states)
<1>1. \A k \in DOMAIN ranges[h] :
          other[ranges[h][k].device] = states[ranges[h][k].device]
  BY RangeType
<1>2. QED
  BY <1>1 DEF Means, Surely

-----------------------------------------------------------------------------
(* The inductive invariant of the composition.                             *)

Checking == {"next", "check", "fire", "clear", "next post"}
InMonitor == {"fire", "clear"}

CallRecords ==
    [at : {"idle", "get", "adding", "clear status", "removing", "doomed"} \cup Checking,
     dev : Devices \cup {None}, h : Handlers \cup {None},
     todo : SUBSET (Handlers \cup Ids), set : {"none", "live", "changed", "dropped"}]

EngineType ==
    /\ cached \in [Devices -> Partial] /\ active \subseteq Ids /\ missed \subseteq Ids
    /\ call \in [Threads -> CallRecords]

Registered(h) == h \in Handlers /\ events[id[h]] = h

\* While a request checks events the registry is at rest, and they are registered.
CheckingInv ==
    \A r \in Requests :
        /\ call[r].at \in Checking => MonitorFree /\ \A h \in call[r].todo : Registered(h)
        /\ call[r].at \in {"check", "fire", "clear"} => Registered(call[r].h)

\* A report checks what it has found in the index, whatever became of that.
ReporterInv ==
    \A t \in Reporters :
        /\ call[t].at \in {"idle", "get", "next", "check", "fire", "clear"}
        /\ call[t].at \in Checking => call[t].todo \subseteq Handlers
        /\ call[t].at \in {"check", "fire", "clear"} => call[t].h \in Handlers
        /\ call[t].at = "get" => call[t].dev \in Devices

\* The monitor of an event is one thread's.
LockInv ==
    \A t, u \in Threads :
        (call[t].at \in InMonitor /\ call[u].at \in InMonitor /\ call[t].h = call[u].h) => t = u

\* The one request that is under way is who adds, removes and forgets.
RequestInv ==
    /\ adding # Idle => \E r \in Requests : At(r, "adding")
    /\ doomed # {} => \E r \in Requests : At(r, "doomed")
    /\ \A r \in Requests :
           /\ call[r].at # "get"
           /\ At(r, "clear status") => \A i \in call[r].todo : events[i] = None

\* What a thread is at will still evaluate the handler.
Owes(c, h) ==
    \/ c.at = "get" /\ h \in Handlers /\ c.dev \in deps[h]
    \/ c.at \in Checking /\ h \in c.todo
    \/ c.at = "check" /\ c.h = h

Fires(c, h) == c.at = "fire" /\ c.h = h
Clears(c, h) == c.at = "clear" /\ c.h = h

Pending(h) ==
    \/ \E k \in DOMAIN adding.all : adding.all[k] = h
    \/ \E t \in Threads : Owes(call[t], h)

\* The activity of a handler, or the one the holder of its monitor is about to give
\* it, is right for the states that are known.
Settled(h) ==
    LET fires == \E t \in Threads : Fires(call[t], h)
        clears == \E t \in Threads : Clears(call[t], h)
    IN  /\ fires => Means(h, cached)
        /\ clears => ~Surely(h, cached)
        /\ ~fires /\ ~clears /\ id[h] \in active => Means(h, cached)
        /\ ~fires /\ ~clears /\ Surely(h, cached) => id[h] \in active

SettledInv ==
    \A h \in Handlers : Registered(h) /\ id[h] \notin missed => Pending(h) \/ Settled(h)

CallInv == CheckingInv /\ ReporterInv /\ LockInv /\ RequestInv
EngineInv == IInv /\ EngineType /\ CallInv /\ SettledInv

-----------------------------------------------------------------------------
(* What a step leaves alone.                                               *)

\* A call that differs at most in what became of its iterator.
Same(c, d) == c.at = d.at /\ c.dev = d.dev /\ c.h = d.h /\ c.todo = d.todo

\* A handler keeps what is known of it when its states, its activity and the holders
\* of its monitor stay, and whoever owed it an evaluation still does.
LEMMA SettledFrame ==
    ASSUME NEW h \in Handlers, Pending(h) \/ Settled(h),
           (\E k \in DOMAIN adding.all : adding.all[k] = h) => Pending(h)',
           \A t \in Threads : Owes(call[t], h) => Pending(h)',
           \A t \in Threads : /\ Fires(call'[t], h) <=> Fires(call[t], h)
                              /\ Clears(call'[t], h) <=> Clears(call[t], h),
           Means(h, cached') <=> Means(h, cached), Surely(h, cached') <=> Surely(h, cached),
           id[h] \in active' <=> id[h] \in active
    PROVE  Pending(h)' \/ Settled(h)'
<1>1. CASE Pending(h)
  BY <1>1 DEF Pending
<1>2. CASE Settled(h)
  BY <1>2 DEF Settled
<1>3. QED
  BY <1>1, <1>2

\* One thread moves on, and the registry stays.
LEMMA ThreadFrame ==
    ASSUME EngineInv, NEW t \in Threads, UNCHANGED vars,
           \A u \in Threads : u # t => call'[u] = call[u],
           t \in Requests =>
               /\ call'[t].at \in Checking => MonitorFree /\ \A h \in call'[t].todo : Registered(h)
               /\ call'[t].at \in {"check", "fire", "clear"} => Registered(call'[t].h),
           t \in Reporters =>
               /\ call'[t].at \in {"idle", "get", "next", "check", "fire", "clear"}
               /\ call'[t].at \in Checking => call'[t].todo \subseteq Handlers
               /\ call'[t].at \in {"check", "fire", "clear"} => call'[t].h \in Handlers
               /\ call'[t].at = "get" => call'[t].dev \in Devices,
           call'[t].at \in InMonitor =>
               \A u \in Threads : u # t => ~(call[u].at \in InMonitor /\ call[u].h = call'[t].h),
           t \in Requests => call'[t].at \notin {"get", "clear status"},
           call[t].at \notin {"adding"},
           call[t].at = "doomed" => doomed = {}
    PROVE  CallInv'
<1> USE DEF EngineInv, CallInv
<1>1. /\ events' = events /\ adding' = adding /\ doomed' = doomed
      /\ MonitorFree' <=> MonitorFree
      /\ \A h : Registered(h)' <=> Registered(h)
  BY DEF vars, MonitorFree, Registered
<1>2. CheckingInv'
  BY <1>1 DEF CheckingInv, Threads
<1>3. ReporterInv'
  BY DEF ReporterInv, Threads
<1>4. LockInv'
  BY DEF LockInv
<1>5. RequestInv'
  <2>1. adding' # Idle => \E r \in Requests : At(r, "adding")'
    BY <1>1 DEF RequestInv, At, Threads
  <2>2. doomed' # {} => \E r \in Requests : At(r, "doomed")'
    BY <1>1 DEF RequestInv, At, Threads
  <2>3. ASSUME NEW r \in Requests
        PROVE  /\ call'[r].at # "get"
               /\ At(r, "clear status")' => \A i \in call'[r].todo : events'[i] = None
    BY <1>1 DEF RequestInv, At, Threads
  <2>4. QED
    BY <2>1, <2>2, <2>3 DEF RequestInv
<1>6. QED
  BY <1>2, <1>3, <1>4, <1>5

\* The request moves on, and the reports keep their places.
LEMMA RequestFrame ==
    ASSUME EngineInv, OneAtATime, NEW r \in Requests,
           \A u \in Threads : u # r => Same(call'[u], call[u]),
           call'[r].at \in Checking => MonitorFree' /\ \A h \in call'[r].todo : Registered(h)',
           call'[r].at \notin {"check", "fire", "clear", "get"},
           adding' # Idle => call'[r].at = "adding",
           doomed' # {} => call'[r].at = "doomed",
           call'[r].at = "clear status" => \A i \in call'[r].todo : events'[i] = None
    PROVE  CallInv'
<1> USE DEF EngineInv, CallInv, Same
<1>1. \A s \in Requests : s = r
  BY DEF OneAtATime
<1>2. CheckingInv'
  BY <1>1 DEF CheckingInv
<1>3. ReporterInv'
  <2> SUFFICES ASSUME NEW t \in Reporters
               PROVE  /\ call'[t].at \in {"idle", "get", "next", "check", "fire", "clear"}
                      /\ call'[t].at \in Checking => call'[t].todo \subseteq Handlers
                      /\ call'[t].at \in {"check", "fire", "clear"} => call'[t].h \in Handlers
                      /\ call'[t].at = "get" => call'[t].dev \in Devices
    BY DEF ReporterInv
  <2>1. t \in Threads /\ t # r
    BY EngineAssumption DEF Threads
  <2>2. QED
    BY <2>1 DEF ReporterInv
<1>4. LockInv'
  BY DEF LockInv, InMonitor
<1>5. RequestInv'
  BY <1>1 DEF RequestInv, At
<1>6. QED
  BY <1>2, <1>3, <1>4, <1>5

\* ... and what is known of a handler stays, unless the request adds it.
LEMMA RequestSettled ==
    ASSUME EngineInv, NEW r \in Requests, NEW h \in Handlers, Pending(h) \/ Settled(h),
           \A u \in Threads : u # r => Same(call'[u], call[u]),
           call[r].at \notin Checking, call[r].at # "get",
           call'[r].at \notin {"fire", "clear"},
           (\E k \in DOMAIN adding.all : adding.all[k] = h) => Pending(h)',
           cached' = cached, active' = active
    PROVE  Pending(h)' \/ Settled(h)'
<1>1. ASSUME NEW t \in Threads
      PROVE  /\ Owes(call[t], h) => Owes(call'[t], h)
             /\ Fires(call'[t], h) <=> Fires(call[t], h)
             /\ Clears(call'[t], h) <=> Clears(call[t], h)
  BY DEF Owes, Fires, Clears, Same, Checking
<1>2. \A t \in Threads : Owes(call[t], h) => Pending(h)'
  BY <1>1 DEF Pending
<1>3. QED
  BY <1>1, <1>2, SettledFrame

\* A change of the index touches nothing of a call but its iterator.
LEMMA ChangedCalls ==
    ASSUME EngineType
    PROVE  /\ Changed \in [Threads -> CallRecords]
           /\ \A t \in Threads : Same(Changed[t], call[t])
<1>1. ASSUME NEW t \in Threads
      PROVE  Changed[t] \in CallRecords /\ Same(Changed[t], call[t])
  <2>1. call[t] \in CallRecords
    BY DEF EngineType
  <2>2. \/ Changed[t] = [call[t] EXCEPT !.set = "changed"]
        \/ Changed[t] = [call[t] EXCEPT !.set = "dropped"]
        \/ Changed[t] = call[t]
    BY DEF Changed
  <2>3. QED
    BY <2>1, <2>2 DEF CallRecords, Same
<1>2. Changed \in [Threads -> CallRecords]
  BY <1>1 DEF Changed
<1>3. QED
  BY <1>1, <1>2

-----------------------------------------------------------------------------
(* One lemma per action of the composition that is not the registry's: it  *)
(* preserves the invariant.                                                *)

\* The facts that every thread's step starts from.
LEMMA CallFacts ==
    ASSUME EngineType, NEW t \in Threads
    PROVE  /\ call[t] \in CallRecords
           /\ \A c \in CallRecords : call' = [call EXCEPT ![t] = c] =>
                  /\ call' \in [Threads -> CallRecords] /\ call'[t] = c
                  /\ \A u \in Threads : u # t => call'[u] = call[u]
           /\ NoCall \in CallRecords /\ NoCall.at = "idle" /\ NoCall.todo = {}
<1>1. NoCall \in CallRecords /\ NoCall.at = "idle" /\ NoCall.todo = {}
  BY DEF CallRecords, NoCall
<1>2. QED
  BY <1>1 DEF EngineType

\* The states stay, and whoever moves keeps what it owes.
LEMMA ThreadSettled ==
    ASSUME EngineInv, NEW t \in Threads, NEW h \in Handlers, Pending(h) \/ Settled(h),
           UNCHANGED vars, cached' = cached,
           \A u \in Threads : u # t => call'[u] = call[u],
           Owes(call[t], h) => Owes(call'[t], h),
           Fires(call'[t], h) <=> Fires(call[t], h),
           Clears(call'[t], h) <=> Clears(call[t], h),
           id[h] \in active' <=> id[h] \in active
    PROVE  Pending(h)' \/ Settled(h)'
<1>1. \A u \in Threads : Owes(call[u], h) => Owes(call'[u], h)
  OBVIOUS
<1>2. \A u \in Threads : Owes(call[u], h) => Pending(h)'
  BY <1>1 DEF Pending
<1>3. (\E k \in DOMAIN adding.all : adding.all[k] = h) => Pending(h)'
  BY DEF vars, Pending
<1>4. \A u \in Threads : /\ Fires(call'[u], h) <=> Fires(call[u], h)
                         /\ Clears(call'[u], h) <=> Clears(call[u], h)
  OBVIOUS
<1>5. QED
  BY <1>2, <1>3, <1>4, SettledFrame

\* A report stores a state: whoever listens to the device will be evaluated.
LEMMA PutStep ==
    ASSUME EngineInv, NEW t \in Reporters, NEW d \in Devices, Put(t, d)
    PROVE  EngineType' /\ CallInv' /\ SettledInv'
<1> DEFINE c == [NoCall EXCEPT !.at = "get", !.dev = d]
<1> USE DEF EngineInv
<1>1. t \in Threads /\ call[t] = NoCall /\ UNCHANGED vars /\ active' = active /\ missed' = missed
  BY DEF Put, Threads, registry, vars
<1>2. c \in CallRecords /\ c.at = "get" /\ c.dev = d /\ c.todo = {} /\ c.h = None
  BY DEF CallRecords, NoCall
<1>3. call' = [call EXCEPT ![t] = c]
  BY <1>1 DEF Put, EngineType, CallRecords, NoCall
<1> HIDE DEF c
<1>4. /\ call' \in [Threads -> CallRecords] /\ call'[t] = c
      /\ \A u \in Threads : u # t => call'[u] = call[u]
  BY <1>1, <1>2, <1>3, CallFacts
<1>5. PICK s \in States[d] : cached' = [cached EXCEPT ![d] = s]
  BY DEF Put
<1>6. cached' \in [Devices -> Partial] /\ \A e \in Devices : e # d => cached'[e] = cached[e]
  BY <1>5, EngineAssumption DEF EngineType
<1>7. EngineType'
  BY <1>1, <1>4, <1>6 DEF EngineType
<1>8. t \notin Requests
  BY EngineAssumption
<1>9. CallInv'
  <2>1. /\ call[t].at = "idle" /\ call'[t].at = "get" /\ call'[t].dev = d
        /\ call'[t].at \notin Checking /\ call'[t].at \notin InMonitor
    BY <1>1, <1>2, <1>4, CallFacts DEF Checking, InMonitor
  <2>2. QED
    BY <1>1, <1>4, <1>8, <2>1, ThreadFrame
<1>10. SettledInv'
  <2> SUFFICES ASSUME NEW h \in Handlers, Registered(h), id[h] \notin missed'
               PROVE  Pending(h)' \/ Settled(h)'
    BY <1>1 DEF SettledInv, Registered, vars
  <2>1. CASE d \in deps[h]
    BY <1>1, <1>2, <1>4, <2>1 DEF Pending, Owes
  <2>2. CASE d \notin deps[h]
    <3>1. Means(h, cached') <=> Means(h, cached)
      BY <1>6, <2>2, ConstantsAssumption, OtherStates
    <3>2. Surely(h, cached') <=> Surely(h, cached)
      BY <1>6, <2>2, ConstantsAssumption, OtherStates
    <3>3. ~Owes(call[t], h) /\ Fires(call'[t], h) = FALSE /\ Clears(call'[t], h) = FALSE
          /\ Fires(call[t], h) = FALSE /\ Clears(call[t], h) = FALSE
      BY <1>1, <1>2, <1>4 DEF Owes, Fires, Clears, NoCall, Checking
    <3>4. \A u \in Threads : Owes(call[u], h) => Pending(h)'
      BY <1>4, <3>3 DEF Pending
    <3>5. \A u \in Threads : /\ Fires(call'[u], h) <=> Fires(call[u], h)
                             /\ Clears(call'[u], h) <=> Clears(call[u], h)
      BY <1>4, <3>3
    <3>6. (\E k \in DOMAIN adding.all : adding.all[k] = h) => Pending(h)'
      BY <1>1 DEF vars, Pending
    <3>7. Pending(h) \/ Settled(h)
      BY <1>1 DEF SettledInv
    <3>8. QED
      BY <1>1, <3>1, <3>2, <3>4, <3>5, <3>6, <3>7, SettledFrame
  <2>3. QED
    BY <2>1, <2>2
<1>11. QED
  BY <1>7, <1>9, <1>10

\* The report fetches the events of its device: all that are registered for it.
LEMMA GetStep ==
    ASSUME EngineInv, NEW t \in Reporters, Get(t)
    PROVE  EngineType' /\ CallInv' /\ SettledInv'
<1> USE DEF EngineInv
<1> DEFINE d == call[t].dev
           c == IF d \in DOMAIN index
                THEN [call[t] EXCEPT !.at = "next", !.todo = index[d], !.set = "live"]
                ELSE NoCall
<1>1. /\ t \in Threads /\ t \notin Requests /\ call[t] \in CallRecords
      /\ call[t].at = "get" /\ d \in Devices
      /\ UNCHANGED vars /\ UNCHANGED <<active, cached, missed>> /\ MonitorFree
  BY EngineAssumption DEF Get, At, Threads, registry, vars, CallInv, ReporterInv, EngineType
<1>2. d \in DOMAIN index => index[d] \subseteq Handlers
  BY DEF IInv, TypeOK
<1>3. /\ c \in CallRecords
      /\ d \in DOMAIN index => c.at = "next" /\ c.todo = index[d] /\ c.set = "live"
      /\ d \notin DOMAIN index => c = NoCall
  BY <1>1, <1>2 DEF CallRecords, NoCall, Checking
<1>4. call' = [call EXCEPT ![t] = c]
  BY <1>1 DEF Get, EngineType, CallRecords
<1> HIDE DEF c
<1>5. /\ call' \in [Threads -> CallRecords] /\ call'[t] = c
      /\ \A u \in Threads : u # t => call'[u] = call[u]
  BY <1>1, <1>3, <1>4, CallFacts
<1>6. EngineType'
  BY <1>1, <1>5 DEF EngineType
<1>7. \A h \in Handlers : h \in Listening(d) <=> d \in deps[h] /\ Registered(h)
  BY <1>1 DEF IInv, IndexInv, Registered
<1>8. d \in DOMAIN index => c.todo \subseteq Handlers
  BY <1>2, <1>3
<1>9. CallInv'
  <2>1. CASE d \in DOMAIN index
    BY <1>1, <1>3, <1>5, <1>8, <2>1, ThreadFrame DEF Checking, InMonitor
  <2>2. CASE d \notin DOMAIN index
    <3>1. call'[t].at = "idle" /\ call'[t].at \notin Checking /\ call'[t].at \notin InMonitor
      BY <1>1, <1>3, <1>5, <2>2, CallFacts DEF Checking, InMonitor
    <3>2. QED
      BY <1>1, <1>5, <3>1, ThreadFrame
  <2>3. QED
    BY <2>1, <2>2
<1>10. SettledInv'
  <2> SUFFICES ASSUME NEW h \in Handlers, Registered(h), id[h] \notin missed'
               PROVE  Pending(h)' \/ Settled(h)'
    BY <1>1 DEF SettledInv, Registered, vars
  <2>1. Pending(h) \/ Settled(h)
    BY <1>1 DEF SettledInv
  <2>2. Owes(call[t], h) => Owes(call'[t], h)
    <3>1. Owes(call[t], h) => d \in DOMAIN index /\ h \in index[d]
      BY <1>1, <1>7 DEF Owes, Listening, Checking
    <3>2. QED
      BY <1>3, <1>5, <3>1 DEF Owes, Checking
  <2>3. /\ Fires(call'[t], h) <=> Fires(call[t], h)
        /\ Clears(call'[t], h) <=> Clears(call[t], h)
    BY <1>1, <1>3, <1>5 DEF Fires, Clears, NoCall
  <2>4. QED
    BY <1>1, <1>5, <2>1, <2>2, <2>3, ThreadSettled
<1>11. QED
  BY <1>6, <1>9, <1>10

\* The report takes the next event, or ends there, and what was left has missed it.
LEMMA NextEventStep ==
    ASSUME EngineInv, NEW t \in Reporters, NextEvent(t)
    PROVE  EngineType' /\ CallInv' /\ SettledInv'
<1> USE DEF EngineInv
<1>1. /\ t \in Threads /\ t \notin Requests /\ call[t] \in CallRecords
      /\ call[t].at = "next" /\ call[t].todo \subseteq Handlers
      /\ UNCHANGED vars /\ active' = active /\ cached' = cached
  BY EngineAssumption
     DEF NextEvent, At, Threads, registry, vars, CallInv, ReporterInv, EngineType, Checking
<1>2. PICK c \in CallRecords :
          /\ call' = [call EXCEPT ![t] = c]
          /\ \/ call[t].todo = {} /\ c = NoCall /\ missed' = missed
             \/ c = NoCall /\ missed' = missed \cup {id[h] : h \in call[t].todo}
             \/ \E h \in call[t].todo :
                    /\ c.at = "check" /\ c.h = h /\ c.todo = call[t].todo \ {h}
                    /\ missed' = missed
  <2>1. CASE call[t].todo = {}
    BY <1>1, <2>1, CallFacts DEF NextEvent, Return
  <2>2. CASE Return(t) /\ missed' = missed \cup {id[h] : h \in call[t].todo}
    BY <1>1, <2>2, CallFacts DEF Return
  <2>3. ASSUME NEW h \in call[t].todo, missed' = missed,
               call' = [call EXCEPT ![t].at = "check", ![t].h = h, ![t].todo = @ \ {h}]
        PROVE  \E c \in CallRecords :
                   /\ call' = [call EXCEPT ![t] = c]
                   /\ c.at = "check" /\ c.h = h /\ c.todo = call[t].todo \ {h}
    <3> DEFINE c == [call[t] EXCEPT !.at = "check", !.h = h, !.todo = @ \ {h}]
    <3>1. call' = [call EXCEPT ![t] = c]
      BY <1>1, <2>3 DEF EngineType
    <3>2. c \in CallRecords /\ c.at = "check" /\ c.h = h /\ c.todo = call[t].todo \ {h}
      BY <1>1, <2>3 DEF CallRecords, Checking
    <3>3. QED
      BY <3>1, <3>2
  <2>4. QED
    BY <2>1, <2>2, <2>3 DEF NextEvent
<1>3. /\ call' \in [Threads -> CallRecords] /\ call'[t] = c
      /\ \A u \in Threads : u # t => call'[u] = call[u]
  BY <1>1, <1>2, CallFacts
<1>4. missed' \subseteq Ids
  BY <1>1, <1>2, ConstantsAssumption DEF EngineType
<1>5. EngineType'
  BY <1>1, <1>3, <1>4 DEF EngineType
<1>6. CallInv'
  <2>1. \/ c.at = "idle"
        \/ c.at = "check" /\ c.todo \subseteq Handlers /\ c.h \in Handlers
    BY <1>1, <1>2, CallFacts
  <2>2. c.at \notin InMonitor
    BY <2>1 DEF InMonitor
  <2>3. c.at = "idle" => c.at \notin Checking
    BY DEF Checking
  <2>4. QED
    BY <1>1, <1>3, <2>1, <2>2, <2>3, ThreadFrame
<1>7. SettledInv'
  <2> SUFFICES ASSUME NEW h \in Handlers, Registered(h), id[h] \notin missed'
               PROVE  Pending(h)' \/ Settled(h)'
    BY <1>1 DEF SettledInv, Registered, vars
  <2>1. Pending(h) \/ Settled(h)
    BY <1>2 DEF SettledInv
  <2>2. Owes(call[t], h) => Owes(call'[t], h)
    BY <1>1, <1>2, <1>3 DEF Owes, Checking
  <2>3. /\ Fires(call'[t], h) <=> Fires(call[t], h)
        /\ Clears(call'[t], h) <=> Clears(call[t], h)
    BY <1>1, <1>2, <1>3, CallFacts DEF Fires, Clears
  <2>4. QED
    BY <1>1, <1>3, <2>1, <2>2, <2>3, ThreadSettled
<1>8. QED
  BY <1>5, <1>6, <1>7

\* The evaluation of an event finds its monitor free, and decides by the states of
\* that moment: a registered handler is settled from then on, whatever it has missed.
LEMMA CheckStep ==
    ASSUME EngineInv, RangesFormed, NEW t \in Threads, Check(t)
    PROVE  EngineType' /\ CallInv' /\ SettledInv'
<1> USE DEF EngineInv
<1> DEFINE g == call[t].h
           c == Answer(t)
           met == checkIfTriggered(g, call[t].dev)
<1>1. /\ call[t] \in CallRecords /\ call[t].at = "check"
      /\ UNCHANGED vars /\ active' = active /\ cached' = cached
      /\ missed' = missed \ Current(t) /\ call' = [call EXCEPT ![t] = c]
  BY DEF Check, At, registry, vars, EngineType
<1>2. g \in Handlers
  BY <1>1 DEF CallInv, CheckingInv, ReporterInv, Registered, Threads
<1>3. \A u \in Threads : call[u].h = g => call[u].at \notin InMonitor
  BY DEF Check, Unlocked, InMonitor
<1>4. /\ met => Means(g, cached)
      /\ Surely(g, cached) => met
  BY <1>2, ConditionMeans DEF EngineType
<1>5. \/ c = [call[t] EXCEPT !.at = "fire", !.h = g] /\ met
      \/ c = [call[t] EXCEPT !.at = "next", !.h = None] /\ met /\ id[g] \in active
      \/ c = [call[t] EXCEPT !.at = "clear", !.h = g] /\ ~met
  BY <1>2 DEF Answer, RangesFormed
<1>6. c \in CallRecords /\ c.todo = call[t].todo /\ c.set = call[t].set
  BY <1>1, <1>2, <1>5 DEF CallRecords, Checking
<1>7. \/ c.at = "fire" /\ c.h = g /\ met
      \/ c.at = "next" /\ c.h = None /\ met /\ id[g] \in active
      \/ c.at = "clear" /\ c.h = g /\ ~met
  BY <1>1, <1>5 DEF CallRecords
<1> HIDE DEF c, met
<1>8. /\ call' \in [Threads -> CallRecords] /\ call'[t] = c
      /\ \A u \in Threads : u # t => call'[u] = call[u]
  BY <1>1, <1>6, CallFacts
<1>9. EngineType'
  BY <1>1, <1>8 DEF EngineType
<1>10. CallInv'
  <2>1. c.at \in {"fire", "next", "clear"} /\ c.at \in Checking /\ (c.at # "next" => c.h = g)
    BY <1>7 DEF Checking
  <2>2. t \in Reporters => c.todo \subseteq Handlers /\ c.at \in {"next", "fire", "clear"}
    BY <1>1, <1>6, <2>1 DEF CallInv, ReporterInv, Checking
  <2>4. t \in Requests => MonitorFree /\ (\A h \in c.todo : Registered(h)) /\ Registered(g)
    BY <1>1, <1>6 DEF CallInv, CheckingInv, Checking
  <2>3. c.at \in InMonitor =>
            \A u \in Threads : u # t => ~(call[u].at \in InMonitor /\ call[u].h = c.h)
    BY <1>3, <2>1 DEF InMonitor
  <2>5. c.at \notin {"check", "get", "clear status"} /\ call[t].at \notin {"adding", "doomed"}
    BY <1>1, <2>1
  <2>6. QED
    BY <1>1, <1>2, <1>8, <2>1, <2>2, <2>3, <2>4, <2>5, ThreadFrame
<1>11. SettledInv'
  <2> SUFFICES ASSUME NEW h \in Handlers, Registered(h), id[h] \notin missed'
               PROVE  Pending(h)' \/ Settled(h)'
    BY <1>1 DEF SettledInv, Registered, vars
  <2>1. CASE h = g
    <3>1. \A u \in Threads : u # t => ~Fires(call'[u], g) /\ ~Clears(call'[u], g)
      BY <1>3, <1>8 DEF Fires, Clears, InMonitor
    <3>2. CASE c.at = "fire"
      <4>1. Fires(call'[t], g) /\ ~Clears(call'[t], g) /\ Means(g, cached')
        BY <1>1, <1>4, <1>7, <1>8, <3>2 DEF Fires, Clears
      <4>2. QED
        BY <2>1, <3>1, <4>1 DEF Settled
    <3>3. CASE c.at = "next"
      <4>1. /\ ~Fires(call'[t], g) /\ ~Clears(call'[t], g) /\ Means(g, cached')
            /\ id[g] \in active'
        BY <1>1, <1>4, <1>7, <1>8, <3>3 DEF Fires, Clears
      <4>2. QED
        BY <2>1, <3>1, <4>1 DEF Settled
    <3>4. CASE c.at = "clear"
      <4>1. Clears(call'[t], g) /\ ~Fires(call'[t], g) /\ ~Surely(g, cached')
        BY <1>1, <1>4, <1>7, <1>8, <3>4 DEF Fires, Clears
      <4>2. QED
        BY <2>1, <3>1, <4>1 DEF Settled
    <3>5. QED
      BY <1>7, <3>2, <3>3, <3>4
  <2>2. CASE h # g
    <3>1. Owes(call[t], h) => Owes(call'[t], h)
      BY <1>1, <1>6, <1>7, <1>8, <2>2 DEF Owes, Checking
    <3>2. /\ Fires(call'[t], h) <=> Fires(call[t], h)
          /\ Clears(call'[t], h) <=> Clears(call[t], h)
      BY <1>1, <1>7, <1>8, <2>2 DEF Fires, Clears
    <3>3. Pending(h) \/ Settled(h)
      <4>1. id[h] \notin Current(t)
        BY <2>2 DEF Current, Registered
      <4>2. QED
        BY <1>1, <4>1 DEF SettledInv
    <3>4. QED
      BY <1>1, <1>8, <3>1, <3>2, <3>3, ThreadSettled
  <2>3. QED
    BY <2>1, <2>2
<1>12. QED
  BY <1>9, <1>10, <1>11

\* The holder of the monitor makes the event active, or no longer active, and lets go.
LEMMA ActivityStep ==
    ASSUME EngineInv, NEW t \in Threads, Fire(t) \/ Clear(t)
    PROVE  EngineType' /\ CallInv' /\ SettledInv'
<1> USE DEF EngineInv
<1> DEFINE g == call[t].h
           c == [call[t] EXCEPT !.at = "next", !.h = None]
<1>1. /\ call[t] \in CallRecords /\ call[t].at \in InMonitor
      /\ UNCHANGED vars /\ cached' = cached
      /\ missed' = missed \cup ({id[g]} \ Current(t))
      /\ Fire(t) => call[t].at = "fire" /\ active' = active \cup {id[g]}
      /\ Clear(t) => call[t].at = "clear" /\ active' = active \ {id[g]}
  BY DEF Fire, Clear, At, registry, vars, EngineType, InMonitor
<1>2. g \in Handlers /\ id[g] \in Ids
  BY <1>1, ConstantsAssumption
     DEF CallInv, CheckingInv, ReporterInv, Registered, InMonitor, Threads
<1>3. /\ c \in CallRecords /\ c.at = "next" /\ c.h = None
      /\ c.todo = call[t].todo /\ c.set = call[t].set
  BY <1>1 DEF CallRecords, Checking
<1>4. call' = [call EXCEPT ![t] = c]
  BY DEF Fire, Clear, EngineType
<1> HIDE DEF c
<1>5. /\ call' \in [Threads -> CallRecords] /\ call'[t] = c
      /\ \A u \in Threads : u # t => call'[u] = call[u]
  BY <1>3, <1>4, CallFacts
<1>6. EngineType'
  BY <1>1, <1>2, <1>5 DEF EngineType
<1>7. CallInv'
  <2>1. /\ t \in Reporters => c.todo \subseteq Handlers
        /\ t \in Requests => MonitorFree /\ \A h \in c.todo : Registered(h)
    BY <1>1, <1>3 DEF CallInv, CheckingInv, ReporterInv, Checking, InMonitor
  <2>2. c.at \in Checking /\ c.at \notin InMonitor
    BY <1>3 DEF Checking, InMonitor
  <2>3. call[t].at \notin {"adding", "doomed"}
    BY <1>1 DEF InMonitor
  <2>4. QED
    BY <1>1, <1>2, <1>3, <1>5, <2>1, <2>2, <2>3, ThreadFrame
<1>8. SettledInv'
  <2> SUFFICES ASSUME NEW h \in Handlers, Registered(h), id[h] \notin missed'
               PROVE  Pending(h)' \/ Settled(h)'
    BY <1>1 DEF SettledInv, Registered, vars
  <2>1. Owes(call[t], h) => Owes(call'[t], h)
    BY <1>1, <1>3, <1>5 DEF Owes, Checking, InMonitor
  <2>2. Pending(h) \/ Settled(h)
    BY <1>1 DEF SettledInv
  <2>3. CASE h = g
    <3>1. \A u \in Threads : ~Fires(call'[u], g) /\ ~Clears(call'[u], g)
      BY <1>1, <1>3, <1>5 DEF Fires, Clears, InMonitor, CallInv, LockInv
    <3>2. CASE Pending(h)
      <4>1. \A u \in Threads : Owes(call[u], h) => Owes(call'[u], h)
        BY <1>5, <2>1
      <4>2. QED
        BY <1>1, <3>2, <4>1 DEF Pending, vars
    <3>3. CASE Settled(h) /\ Fire(t)
      <4>1. Means(h, cached)
        BY <1>1, <2>3, <3>3 DEF Settled, Fires
      <4>2. QED
        BY <1>1, <2>3, <3>1, <3>3, <4>1 DEF Settled
    <3>4. CASE Settled(h) /\ Clear(t)
      <4>1. ~Surely(h, cached)
        BY <1>1, <2>3, <3>4 DEF Settled, Clears
      <4>2. QED
        BY <1>1, <2>3, <3>1, <3>4, <4>1 DEF Settled
    <3>5. QED
      BY <2>2, <3>2, <3>3, <3>4
  <2>4. CASE h # g
    <3>1. id[h] # id[g]
      <4>1. id[h] = id[g] => id[g] \notin Current(t)
        BY <2>4 DEF Current, Registered
      <4>2. QED
        BY <1>1, <4>1
    <3>2. /\ Fires(call'[t], h) <=> Fires(call[t], h)
          /\ Clears(call'[t], h) <=> Clears(call[t], h)
      BY <1>3, <1>5, <2>4 DEF Fires, Clears
    <3>3. id[h] \in active' <=> id[h] \in active
      BY <1>1, <3>1
    <3>4. QED
      BY <1>1, <1>5, <2>1, <2>2, <3>2, <3>3, ThreadSettled
  <2>5. QED
    BY <2>3, <2>4
<1>9. QED
  BY <1>6, <1>7, <1>8

-----------------------------------------------------------------------------
(* The requests.                                                           *)

\* The list enters the registry, or its next handler does: until the list is saved
\* its handlers are owed an evaluation.
LEMMA PostStep ==
    ASSUME EngineInv, OneAtATime, NEW r \in Requests, NEW hs \in Lists, Post(r, hs)
    PROVE  EngineType' /\ CallInv' /\ SettledInv'
<1> USE DEF EngineInv
<1> DEFINE c == [NoCall EXCEPT !.at = "adding"]
<1>1. /\ r \in Threads /\ call[r] = NoCall /\ MonitorFree
      /\ events' = events /\ doomed' = doomed /\ adding.all = <<>>
      /\ cached' = cached /\ active' = active /\ missed' = missed
  BY DEF Post, MayBegin, AddEvents, MonitorFree, Idle, Threads
<1>2. c \in CallRecords /\ c.at = "adding" /\ c.todo = {}
  BY DEF CallRecords, NoCall
<1>3. call' = [call EXCEPT ![r] = c]
  BY <1>1 DEF Post, EngineType
<1> HIDE DEF c
<1>4. /\ call' \in [Threads -> CallRecords] /\ call'[r] = c
      /\ \A u \in Threads : u # r => call'[u] = call[u]
  BY <1>1, <1>2, <1>3, CallFacts
<1>5. \A u \in Threads : u # r => Same(call'[u], call[u])
  BY <1>4 DEF Same
<1>6. EngineType'
  BY <1>1, <1>4 DEF EngineType
<1>7. CallInv'
  <2>1. c.at \notin Checking /\ doomed' = {}
    BY <1>1, <1>2 DEF Checking, MonitorFree
  <2>2. QED
    BY <1>2, <1>4, <1>5, <2>1, RequestFrame
<1>8. SettledInv'
  <2> SUFFICES ASSUME NEW h \in Handlers, Registered(h), id[h] \notin missed'
               PROVE  Pending(h)' \/ Settled(h)'
    BY <1>1 DEF SettledInv, Registered
  <2>1. Pending(h) \/ Settled(h)
    BY <1>1 DEF SettledInv
  <2>2. call[r].at = "idle" /\ call[r].at \notin Checking /\ c.at \notin {"fire", "clear"}
    BY <1>1, <1>2, CallFacts DEF Checking
  <2>3. ~ \E k \in DOMAIN adding.all : adding.all[k] = h
    BY <1>1
  <2>4. QED
    BY <1>1, <1>4, <1>5, <2>1, <2>2, <2>3, RequestSettled
<1>9. QED
  BY <1>6, <1>7, <1>8

\* Creating an event leaves it active as its ranges say, or owed an evaluation.
LEMMA CreateStep ==
    ASSUME EngineInv, OneAtATime, Create
    PROVE  EngineType' /\ CallInv' /\ SettledInv'
<1> USE DEF EngineInv
<1> DEFINE n == adding.done + 1
           g == adding.all[n]
<1>1. /\ adding.all \in Lists \cup {<<>>} /\ adding.done \in Nat
      /\ DOMAIN adding.all = 1..Len(adding.all) /\ Len(adding.all) \in Nat
  BY ListType DEF IInv, TypeOK
<1>2. n \in DOMAIN adding.all /\ ~ n <= adding.done /\ adding.all # <<>>
  BY <1>1, ListType DEF Create, CreateEvent
<1>3. g \in Handlers /\ id[g] \in Ids
  BY <1>1, <1>2, ListType, ConstantsAssumption
<1>4. events[id[g]] = None
  BY <1>2 DEF IInv, AddingInv
<1>5. /\ events' = [events EXCEPT ![id[g]] = g]
      /\ adding' = [adding EXCEPT !.done = @ + 1]
      /\ doomed' = doomed /\ cached' = cached /\ active' = active /\ missed' = missed
      /\ call' = Changed
  BY <1>4 DEF Create, CreateEvent
<1>6. adding'.all = adding.all
  BY <1>5 DEF IInv, TypeOK
<1>7. \A i \in Ids : events'[i] = IF i = id[g] THEN g ELSE events[i]
  BY <1>3, <1>5 DEF IInv, TypeOK
<1>8. adding # Idle
  BY <1>2 DEF Idle
<1>9. PICK r \in Requests : At(r, "adding")
  BY <1>8 DEF CallInv, RequestInv
<1>10. r \in Threads /\ call[r].at = "adding" /\ call[r].at \notin Checking
  BY <1>9 DEF At, Threads, Checking
<1> HIDE DEF n, g
<1>11. /\ call' \in [Threads -> CallRecords]
       /\ \A u \in Threads : Same(call'[u], call[u])
  BY <1>5, ChangedCalls
<1>12. EngineType'
  BY <1>5, <1>11 DEF EngineType
<1>13. doomed' = {}
  BY <1>2, <1>5 DEF IInv, DoomedInv
<1>14. call'[r].at = "adding"
  BY <1>10, <1>11 DEF Same
<1>15. CallInv'
  BY <1>10, <1>11, <1>13, <1>14, RequestFrame
<1>16. SettledInv'
  <2> SUFFICES ASSUME NEW h \in Handlers, Registered(h)', id[h] \notin missed'
               PROVE  Pending(h)' \/ Settled(h)'
    BY DEF SettledInv
  <2>1. CASE h = g
    <3>1. Pending(h)'
      BY <1>2, <1>6, <2>1 DEF Pending, g
    <3>2. QED
      BY <3>1
  <2>2. CASE h # g
    <3>1. Registered(h)
      BY <1>7, <2>2, ConstantsAssumption DEF Registered
    <3>2. Pending(h) \/ Settled(h)
      BY <1>5, <3>1 DEF SettledInv
    <3>3. (\E k \in DOMAIN adding.all : adding.all[k] = h) => Pending(h)'
      BY <1>6 DEF Pending
    <3>4. QED
      BY <1>5, <1>10, <1>11, <1>14, <3>2, <3>3, RequestSettled
  <2>3. QED
    BY <2>1, <2>2
<1>17. QED
  BY <1>12, <1>15, <1>16

\* The list is saved, and its handlers are evaluated one after the other.
LEMMA SaveStep ==
    ASSUME EngineInv, OneAtATime, NEW r \in Requests, Save(r)
    PROVE  EngineType' /\ CallInv' /\ SettledInv'
<1> USE DEF EngineInv
<1> DEFINE posted == {adding.all[k] : k \in DOMAIN adding.all}
           c == [call[r] EXCEPT !.at = "next post", !.todo = posted]
<1>1. /\ r \in Threads /\ call[r] \in CallRecords /\ call[r].at = "adding"
      /\ adding # Idle /\ adding.done = Len(adding.all)
      /\ events' = events /\ adding' = Idle /\ doomed' = doomed
      /\ cached' = cached /\ active' = active /\ missed' = missed
  BY DEF Save, SaveEvents, At, Threads, EngineType
<1>2. /\ adding.all \in Lists \cup {<<>>}
      /\ DOMAIN adding.all = 1..Len(adding.all) /\ Len(adding.all) \in Nat
      /\ posted \subseteq Handlers
  BY ListType DEF IInv, TypeOK
<1>3. \A h \in posted : Registered(h)
  BY <1>1, <1>2 DEF IInv, AddingInv, Registered
<1>4. adding.all # <<>>
  <2>1. adding = [all |-> adding.all, done |-> adding.done]
    BY DEF IInv, TypeOK
  <2>2. QED
    BY <1>1, <2>1 DEF Idle, IInv, AddingInv
<1>5. doomed = {} /\ MonitorFree'
  BY <1>1, <1>4 DEF IInv, DoomedInv, MonitorFree
<1> HIDE DEF posted
<1>6. c \in CallRecords /\ c.at = "next post" /\ c.todo = posted
  BY <1>1, <1>2 DEF CallRecords, Checking
<1>7. call' = [call EXCEPT ![r] = c]
  BY <1>1 DEF Save, EngineType, posted
<1> HIDE DEF c
<1>8. /\ call' \in [Threads -> CallRecords] /\ call'[r] = c
      /\ \A u \in Threads : u # r => call'[u] = call[u]
  BY <1>1, <1>6, <1>7, CallFacts
<1>9. \A u \in Threads : u # r => Same(call'[u], call[u])
  BY <1>8 DEF Same
<1>10. EngineType'
  BY <1>1, <1>8 DEF EngineType
<1>11. CallInv'
  <2>1. \A h \in c.todo : Registered(h)'
    BY <1>1, <1>3, <1>6 DEF Registered
  <2>2. QED
    BY <1>1, <1>5, <1>6, <1>8, <1>9, <2>1, RequestFrame
<1>12. SettledInv'
  <2> SUFFICES ASSUME NEW h \in Handlers, Registered(h), id[h] \notin missed'
               PROVE  Pending(h)' \/ Settled(h)'
    BY <1>1 DEF SettledInv, Registered
  <2>1. Pending(h) \/ Settled(h)
    BY <1>1 DEF SettledInv
  <2>2. (\E k \in DOMAIN adding.all : adding.all[k] = h) => Pending(h)'
    <3>1. (\E k \in DOMAIN adding.all : adding.all[k] = h) => Owes(call'[r], h)
      BY <1>6, <1>8 DEF Owes, Checking, posted
    <3>2. QED
      BY <1>1, <3>1 DEF Pending
  <2>3. call[r].at \notin Checking /\ call[r].at # "get" /\ c.at \notin {"fire", "clear"}
    BY <1>1, <1>6 DEF Checking
  <2>4. QED
    BY <1>1, <1>8, <1>9, <2>1, <2>2, <2>3, RequestSettled
<1>13. QED
  BY <1>10, <1>11, <1>12

\* Each posted handler loses the activity of its predecessor, and is checked.
LEMMA CheckPostedStep ==
    ASSUME EngineInv, OneAtATime, NEW r \in Requests, CheckPosted(r)
    PROVE  EngineType' /\ CallInv' /\ SettledInv'
<1> USE DEF EngineInv
<1>1. /\ r \in Threads /\ r \notin Reporters /\ call[r] \in CallRecords
      /\ call[r].at = "next post" /\ UNCHANGED vars /\ cached' = cached /\ missed' = missed
  BY EngineAssumption DEF CheckPosted, At, Threads, registry, vars, EngineType
<1>2. MonitorFree /\ \A h \in call[r].todo : Registered(h)
  BY <1>1 DEF CallInv, CheckingInv, Checking
<1>3. PICK c \in CallRecords :
          /\ call' = [call EXCEPT ![r] = c]
          /\ \/ call[r].todo = {} /\ c = NoCall /\ active' = active
             \/ \E g \in call[r].todo :
                    /\ c.at = "check" /\ c.h = g /\ c.todo = call[r].todo \ {g}
                    /\ active' = active \ {id[g]}
  <2>1. CASE call[r].todo = {}
    BY <1>1, <2>1, CallFacts DEF CheckPosted, Return
  <2>2. CASE call[r].todo # {}
    <3>1. PICK g \in call[r].todo :
              /\ call' = [call EXCEPT ![r].at = "check", ![r].h = g, ![r].todo = @ \ {g}]
              /\ active' = active \ {id[g]}
      BY <1>1, <2>2 DEF CheckPosted
    <3> DEFINE c == [call[r] EXCEPT !.at = "check", !.h = g, !.todo = @ \ {g}]
    <3>2. call' = [call EXCEPT ![r] = c]
      BY <1>1, <3>1 DEF EngineType
    <3>3. c \in CallRecords /\ c.at = "check" /\ c.h = g /\ c.todo = call[r].todo \ {g}
      BY <1>1, <1>2, <3>1 DEF CallRecords, Checking, Registered
    <3>4. QED
      BY <3>1, <3>2, <3>3
  <2>3. QED
    BY <2>1, <2>2
<1>4. /\ call' \in [Threads -> CallRecords] /\ call'[r] = c
      /\ \A u \in Threads : u # r => call'[u] = call[u]
  BY <1>1, <1>3, CallFacts
<1>5. EngineType'
  BY <1>1, <1>3, <1>4 DEF EngineType
<1>6. CallInv'
  <2>1. c.at \in {"idle", "check"} /\ c.at \notin InMonitor
    BY <1>1, <1>3, CallFacts DEF InMonitor
  <2>2. c.at \in Checking => c.at = "check" /\ Registered(c.h)
                             /\ \A h \in c.todo : Registered(h)
    <3>1. CASE c = NoCall
      BY <3>1 DEF NoCall, Checking
    <3>2. CASE c # NoCall
      BY <1>2, <1>3, <3>2
    <3>3. QED
      BY <3>1, <3>2
  <2>3. /\ c.at \in Checking => MonitorFree /\ \A h \in c.todo : Registered(h)
        /\ c.at \in {"check", "fire", "clear"} => Registered(c.h)
        /\ c.at # "get" /\ c.at # "clear status"
    BY <1>2, <2>1, <2>2 DEF Checking
  <2>4. call[r].at # "adding" /\ call[r].at # "doomed"
    BY <1>1
  <2>5. QED
    BY <1>1, <1>4, <2>1, <2>3, <2>4, ThreadFrame
<1>7. SettledInv'
  <2> SUFFICES ASSUME NEW h \in Handlers, Registered(h), id[h] \notin missed'
               PROVE  Pending(h)' \/ Settled(h)'
    BY <1>1 DEF SettledInv, Registered, vars
  <2>1. Pending(h) \/ Settled(h)
    BY <1>1 DEF SettledInv
  <2>2. CASE c.at = "check" /\ c.h = h
    BY <1>1, <1>4, <2>2 DEF Pending, Owes
  <2>3. CASE ~(c.at = "check" /\ c.h = h)
    <3>1. Owes(call[r], h) => Owes(call'[r], h)
      BY <1>1, <1>3, <1>4 DEF Owes, Checking
    <3>2. /\ Fires(call'[r], h) <=> Fires(call[r], h)
          /\ Clears(call'[r], h) <=> Clears(call[r], h)
      BY <1>1, <1>3, <1>4, CallFacts DEF Fires, Clears
    <3>3. id[h] \in active' <=> id[h] \in active
      <4>1. CASE active' = active
        BY <4>1
      <4>2. ASSUME NEW g \in call[r].todo, g # h, active' = active \ {id[g]}
            PROVE  id[h] \in active' <=> id[h] \in active
        <5>1. id[g] # id[h]
          BY <1>2, <4>2 DEF Registered
        <5>2. QED
          BY <4>2, <5>1
      <4>3. QED
        BY <1>3, <2>3, <4>1, <4>2
    <3>4. QED
      BY <1>1, <1>4, <2>1, <3>1, <3>2, <3>3, ThreadSettled
  <2>4. QED
    BY <2>2, <2>3
<1>8. QED
  BY <1>5, <1>6, <1>7

\* A request goes on to the next posted event.
LEMMA NextPostedStep ==
    ASSUME EngineInv, OneAtATime, NEW r \in Requests, NextPosted(r)
    PROVE  EngineType' /\ CallInv' /\ SettledInv'
<1> USE DEF EngineInv
<1> DEFINE c == [call[r] EXCEPT !.at = "next post"]
<1>1. /\ r \in Threads /\ r \notin Reporters /\ call[r] \in CallRecords
      /\ call[r].at = "next" /\ UNCHANGED vars /\ UNCHANGED <<cached, active, missed>>
  BY EngineAssumption DEF NextPosted, At, Threads, registry, vars, EngineType
<1>2. MonitorFree /\ \A h \in call[r].todo : Registered(h)
  BY <1>1 DEF CallInv, CheckingInv, Checking
<1>3. c \in CallRecords /\ c.at = "next post" /\ c.todo = call[r].todo
  BY <1>1 DEF CallRecords, Checking
<1>4. call' = [call EXCEPT ![r] = c]
  BY <1>1 DEF NextPosted, Goto, EngineType
<1> HIDE DEF c
<1>5. /\ call' \in [Threads -> CallRecords] /\ call'[r] = c
      /\ \A u \in Threads : u # r => call'[u] = call[u]
  BY <1>1, <1>3, <1>4, CallFacts
<1>6. EngineType'
  BY <1>1, <1>5 DEF EngineType
<1>7. CallInv'
  <2>1. c.at \notin InMonitor
    BY <1>3 DEF InMonitor
  <2>2. QED
    BY <1>1, <1>2, <1>3, <1>5, <2>1, ThreadFrame
<1>8. SettledInv'
  <2> SUFFICES ASSUME NEW h \in Handlers, Registered(h), id[h] \notin missed'
               PROVE  Pending(h)' \/ Settled(h)'
    BY <1>1 DEF SettledInv, Registered, vars
  <2>1. Pending(h) \/ Settled(h)
    BY <1>1 DEF SettledInv
  <2>2. /\ Owes(call[r], h) => Owes(call'[r], h)
        /\ Fires(call'[r], h) <=> Fires(call[r], h)
        /\ Clears(call'[r], h) <=> Clears(call[r], h)
    BY <1>1, <1>3, <1>5 DEF Owes, Fires, Clears, Checking
  <2>3. QED
    BY <1>1, <1>5, <2>1, <2>2, ThreadSettled
<1>9. QED
  BY <1>6, <1>7, <1>8

\* An operation that adds nothing keeps what is known of every handler.
LEMMA RequestKeeps ==
    ASSUME EngineInv, NEW r \in Requests,
           \A u \in Threads : u # r => Same(call'[u], call[u]),
           call[r].at \notin Checking, call'[r].at \notin {"fire", "clear"},
           \A h \in Handlers : Registered(h)' => Registered(h),
           adding' = adding, cached' = cached, active' = active, missed' = missed
    PROVE  SettledInv'
<1> USE DEF EngineInv
<1> SUFFICES ASSUME NEW h \in Handlers, Registered(h)', id[h] \notin missed'
             PROVE  Pending(h)' \/ Settled(h)'
  BY DEF SettledInv
<1>1. Pending(h) \/ Settled(h)
  BY DEF SettledInv
<1>2. (\E k \in DOMAIN adding.all : adding.all[k] = h) => Pending(h)'
  BY DEF Pending
<1>3. call[r].at # "get"
  BY DEF CallInv, RequestInv
<1>4. QED
  BY <1>1, <1>2, <1>3, RequestSettled

\* A removed event stays unregistered until its activity is forgotten.
LEMMA DeleteStep ==
    ASSUME EngineInv, OneAtATime, NEW r \in Requests, NEW i \in Ids, Delete(r, i)
    PROVE  EngineType' /\ CallInv' /\ SettledInv'
<1> USE DEF EngineInv
<1> DEFINE c == [Changed[r] EXCEPT !.at = "clear status", !.todo = {i}]
<1>1. /\ r \in Threads /\ call[r] = NoCall /\ MonitorFree
      /\ adding' = adding /\ doomed' = doomed
      /\ cached' = cached /\ active' = active /\ missed' = missed
  BY DEF Delete, MayBegin, RemoveEvent, Threads
<1>2. /\ Changed \in [Threads -> CallRecords]
      /\ \A u \in Threads : Same(Changed[u], call[u])
  BY ChangedCalls
<1>3. c \in CallRecords /\ c.at = "clear status" /\ c.todo = {i}
  <2>1. Changed[r] \in CallRecords
    BY <1>1, <1>2
  <2>2. QED
    BY <2>1 DEF CallRecords
<1>4. call' = [Changed EXCEPT ![r] = c]
  BY <1>1, <1>2 DEF Delete
<1> HIDE DEF c
<1>5. /\ call' \in [Threads -> CallRecords] /\ call'[r] = c
      /\ \A u \in Threads : u # r => Same(call'[u], call[u])
  BY <1>1, <1>2, <1>3, <1>4
<1>7. \A j \in Ids : events'[j] = IF j = i THEN None ELSE events[j]
  BY RemoveStep DEF Delete, RemoveEvent
<1>8. EngineType'
  BY <1>1, <1>5 DEF EngineType
<1>9. CallInv'
  <2>1. c.at \notin Checking /\ adding' = Idle /\ doomed' = {}
    BY <1>1, <1>3 DEF Checking, MonitorFree
  <2>2. \A j \in c.todo : events'[j] = None
    BY <1>3, <1>7
  <2>3. QED
    BY <1>3, <1>5, <2>1, <2>2, RequestFrame
<1>10. SettledInv'
  <2>1. \A h \in Handlers : Registered(h)' => Registered(h)
    BY <1>7, ConstantsAssumption DEF Registered
  <2>2. call[r].at \notin Checking /\ c.at \notin {"fire", "clear"}
    BY <1>1, <1>3, CallFacts DEF Checking
  <2>3. QED
    BY <1>1, <1>5, <2>1, <2>2, RequestKeeps
<1>11. QED
  BY <1>8, <1>9, <1>10

\* What is forgotten is the activity of no registered event.
LEMMA ClearStatusStep ==
    ASSUME EngineInv, OneAtATime, NEW r \in Requests, ClearStatus(r)
    PROVE  EngineType' /\ CallInv' /\ SettledInv'
<1> USE DEF EngineInv
<1>1. /\ r \in Threads /\ r \notin Reporters
      /\ call[r].at = "clear status" /\ UNCHANGED vars /\ cached' = cached /\ missed' = missed
      /\ active' = active \ call[r].todo /\ call' = [call EXCEPT ![r] = NoCall]
  BY EngineAssumption DEF ClearStatus, Return, At, Threads, registry, vars
<1>2. /\ call' \in [Threads -> CallRecords] /\ call'[r] = NoCall
      /\ \A u \in Threads : u # r => call'[u] = call[u]
  BY <1>1, CallFacts
<1>3. NoCall.at = "idle" /\ NoCall.at \notin Checking /\ NoCall.at \notin InMonitor
  BY <1>1, CallFacts DEF Checking, InMonitor
<1>4. EngineType'
  BY <1>1, <1>2 DEF EngineType
<1>5. CallInv'
  BY <1>1, <1>2, <1>3, ThreadFrame
<1>6. SettledInv'
  <2> SUFFICES ASSUME NEW h \in Handlers, Registered(h), id[h] \notin missed'
               PROVE  Pending(h)' \/ Settled(h)'
    BY <1>1 DEF SettledInv, Registered, vars
  <2>1. Pending(h) \/ Settled(h)
    BY <1>1 DEF SettledInv
  <2>2. id[h] \notin call[r].todo
    <3>1. \A i \in call[r].todo : events[i] = None
      BY <1>1 DEF CallInv, RequestInv, At
    <3>2. events[id[h]] # None
      BY ConstantsAssumption DEF Registered
    <3>3. QED
      BY <3>1, <3>2
  <2>3. /\ Owes(call[r], h) => Owes(call'[r], h)
        /\ Fires(call'[r], h) <=> Fires(call[r], h)
        /\ Clears(call'[r], h) <=> Clears(call[r], h)
    BY <1>1, <1>2, <1>3 DEF Owes, Fires, Clears, Checking
  <2>4. id[h] \in active' <=> id[h] \in active
    BY <1>1, <2>2
  <2>5. QED
    BY <1>1, <1>2, <2>1, <2>3, <2>4, ThreadSettled
<1>7. QED
  BY <1>4, <1>5, <1>6

\* Removing all events leaves none to be settled.
LEMMA DeleteAllStep ==
    ASSUME EngineInv, OneAtATime, NEW r \in Requests, DeleteAll(r)
    PROVE  EngineType' /\ CallInv' /\ SettledInv'
<1> USE DEF EngineInv
<1>1. /\ r \in Threads /\ call[r] = NoCall /\ adding' = Idle /\ doomed' = {}
      /\ call' = Changed /\ cached' = cached /\ active' = active /\ missed' = missed
      /\ \A i \in Ids : events'[i] = None
  BY DEF DeleteAll, MayBegin, RemoveAllEvents, MonitorFree, Threads
<1>2. /\ call' \in [Threads -> CallRecords]
      /\ \A u \in Threads : Same(call'[u], call[u])
  BY <1>1, ChangedCalls
<1>3. call'[r].at = "idle" /\ call'[r].at \notin Checking
  BY <1>1, <1>2, CallFacts DEF Same, Checking
<1>4. EngineType'
  BY <1>1, <1>2 DEF EngineType
<1>5. CallInv'
  BY <1>1, <1>2, <1>3, RequestFrame
<1>6. SettledInv'
  <2>1. \A h \in Handlers : ~Registered(h)'
    BY <1>1, ConstantsAssumption DEF Registered
  <2>2. QED
    BY <2>1 DEF SettledInv
<1>7. QED
  BY <1>4, <1>5, <1>6

\* The requests about profiles remove events, and add and check none.
LEMMA ProfilesStep ==
    ASSUME EngineInv, OneAtATime, NEW r \in Requests, Profile(r)
    PROVE  EngineType' /\ CallInv' /\ SettledInv'
<1> USE DEF EngineInv
<1>1. r \in Threads /\ r \notin Reporters /\ cached' = cached /\ active' = active /\ missed' = missed
  BY EngineAssumption DEF Profile, Threads
<1>2. call[r] \in CallRecords
  BY <1>1 DEF EngineType
<1>3. ASSUME MayBegin(r), NEW p \in Profiles, CreateActionProfile(p), UNCHANGED call
      PROVE  EngineType' /\ CallInv' /\ SettledInv'
  <2>1. /\ events' = events /\ adding' = adding /\ doomed' = doomed
        /\ MonitorFree' <=> MonitorFree
        /\ \A h : Registered(h)' <=> Registered(h)
    BY <1>3 DEF CreateActionProfile, MonitorFree, Registered
  <2>2. EngineType' /\ CallInv'
    BY <1>1, <1>3, <2>1 DEF EngineType, CallInv, CheckingInv, ReporterInv, LockInv, RequestInv, At
  <2>3. SettledInv'
    BY <1>1, <1>3, <2>1 DEF SettledInv, Pending, Settled
  <2>4. QED
    BY <2>2, <2>3
<1>4. ASSUME MayBegin(r), removing = {}, NEW p \in Profiles, DeleteActionProfile(p),
             call' = [call EXCEPT ![r].at = "removing"]
      PROVE  EngineType' /\ CallInv' /\ SettledInv'
  <2> DEFINE c == [NoCall EXCEPT !.at = "removing"]
  <2>1. UNCHANGED <<events, adding, doomed>> /\ call[r] = NoCall
    BY <1>4 DEF DeleteActionProfile, MayBegin
  <2>2. c \in CallRecords /\ c.at = "removing"
    BY DEF CallRecords, NoCall
  <2>3. call' = [call EXCEPT ![r] = c]
    BY <1>1, <1>4, <2>1 DEF EngineType
  <2> HIDE DEF c
  <2>4. /\ call' \in [Threads -> CallRecords] /\ call'[r] = c
        /\ \A u \in Threads : u # r => call'[u] = call[u]
    BY <1>1, <2>2, <2>3, CallFacts
  <2>5. \A u \in Threads : u # r => Same(call'[u], call[u])
    BY <2>4 DEF Same
  <2>6. /\ call[r].at = "idle" /\ call[r].at \notin Checking
        /\ c.at \notin Checking /\ c.at \notin {"fire", "clear"}
    BY <1>1, <2>1, <2>2, CallFacts DEF Checking
  <2>7. adding = Idle /\ doomed = {}
    BY <2>6, <1>1 DEF CallInv, RequestInv, OneAtATime, At
  <2>8. CallInv'
    BY <2>1, <2>2, <2>4, <2>5, <2>6, <2>7, RequestFrame
  <2>9. SettledInv'
    BY <1>1, <2>1, <2>4, <2>5, <2>6, RequestKeeps DEF Registered
  <2>10. QED
    BY <1>1, <2>4, <2>8, <2>9 DEF EngineType
<1>5. ASSUME At(r, "removing"), NEW p \in Profiles, CollectEvents(p), Goto(r, "doomed")
      PROVE  EngineType' /\ CallInv' /\ SettledInv'
  <2> DEFINE c == [call[r] EXCEPT !.at = "doomed"]
  <2>1. events' = events /\ adding' = adding /\ adding = Idle /\ call[r].at = "removing"
    BY <1>5 DEF CollectEvents, MonitorFree, At
  <2>2. c \in CallRecords /\ c.at = "doomed"
    BY <1>2 DEF CallRecords
  <2>3. call' = [call EXCEPT ![r] = c]
    BY <1>1, <1>5 DEF EngineType, Goto
  <2> HIDE DEF c
  <2>4. /\ call' \in [Threads -> CallRecords] /\ call'[r] = c
        /\ \A u \in Threads : u # r => call'[u] = call[u]
    BY <1>1, <2>2, <2>3, CallFacts
  <2>5. \A u \in Threads : u # r => Same(call'[u], call[u])
    BY <2>4 DEF Same
  <2>6. call[r].at \notin Checking /\ c.at \notin Checking /\ c.at \notin {"fire", "clear"}
    BY <2>1, <2>2 DEF Checking
  <2>7. CallInv'
    BY <2>1, <2>2, <2>4, <2>5, <2>6, RequestFrame
  <2>8. SettledInv'
    BY <1>1, <2>1, <2>4, <2>5, <2>6, RequestKeeps DEF Registered
  <2>9. QED
    BY <1>1, <2>4, <2>7, <2>8 DEF EngineType
<1>6. ASSUME At(r, "doomed"), NEW i \in Ids, RemoveDoomed(i), call' = Changed
      PROVE  EngineType' /\ CallInv' /\ SettledInv'
  <2>1. /\ events[i] # None /\ adding' = adding /\ adding.all = <<>> /\ i \in doomed
        /\ call[r].at = "doomed"
    BY <1>6 DEF RemoveDoomed, IInv, DoomedInv, At
  <2>2. adding = Idle
    <3>1. ~ \E u \in Requests : At(u, "adding")
      BY <2>1 DEF OneAtATime, At
    <3>2. QED
      BY <3>1 DEF CallInv, RequestInv
  <2>3. /\ call' \in [Threads -> CallRecords]
        /\ \A u \in Threads : Same(call'[u], call[u])
    BY <1>6, ChangedCalls
  <2>4. call'[r].at = "doomed" /\ call[r].at \notin Checking /\ call'[r].at \notin Checking
    BY <1>1, <2>1, <2>3 DEF Same, Checking
  <2>5. \A j \in Ids : events'[j] = IF j = i THEN None ELSE events[j]
    BY <1>6, <2>1, RemoveStep DEF RemoveDoomed
  <2>6. CallInv'
    BY <2>1, <2>2, <2>3, <2>4, RequestFrame
  <2>7. \A h \in Handlers : Registered(h)' => Registered(h)
    BY <2>5, ConstantsAssumption DEF Registered
  <2>8. SettledInv'
    BY <1>1, <2>1, <2>3, <2>4, <2>7, RequestKeeps
  <2>9. QED
    BY <1>1, <2>3, <2>6, <2>8 DEF EngineType
<1>7. ASSUME At(r, "doomed"), doomed = {}, Return(r), UNCHANGED registry
      PROVE  EngineType' /\ CallInv' /\ SettledInv'
  <2>1. /\ UNCHANGED vars /\ call[r].at = "doomed" /\ call' = [call EXCEPT ![r] = NoCall]
    BY <1>7 DEF registry, vars, At, Return
  <2>2. /\ call' \in [Threads -> CallRecords] /\ call'[r] = NoCall
        /\ \A u \in Threads : u # r => call'[u] = call[u]
    BY <1>1, <2>1, CallFacts
  <2>3. NoCall.at = "idle" /\ NoCall.at \notin Checking /\ NoCall.at \notin InMonitor
    BY <1>1, CallFacts DEF Checking, InMonitor
  <2>4. CallInv'
    BY <1>1, <1>7, <2>1, <2>2, <2>3, ThreadFrame
  <2>5. SettledInv'
    <3> SUFFICES ASSUME NEW h \in Handlers, Registered(h), id[h] \notin missed'
                 PROVE  Pending(h)' \/ Settled(h)'
      BY <2>1 DEF SettledInv, Registered, vars
    <3>1. Pending(h) \/ Settled(h)
      BY <1>1 DEF SettledInv
    <3>2. /\ Owes(call[r], h) => Owes(call'[r], h)
          /\ Fires(call'[r], h) <=> Fires(call[r], h)
          /\ Clears(call'[r], h) <=> Clears(call[r], h)
      BY <2>1, <2>2, <2>3 DEF Owes, Fires, Clears, Checking
    <3>3. QED
      BY <1>1, <2>1, <2>2, <3>1, <3>2, ThreadSettled
  <2>6. QED
    BY <1>1, <2>2, <2>4, <2>5 DEF EngineType
<1>8. QED
  BY <1>3, <1>4, <1>5, <1>6, <1>7 DEF Profile

-----------------------------------------------------------------------------
(* The whole: from the start, through every step and restart.              *)

\* After a start nothing is under way, active or met.
LEMMA StartInv ==
    ASSUME NothingMetAtFirst, NoCall \in CallRecords,
           adding' = Idle, doomed' = {}, cached' = FirstState, active' = {}, missed' = {},
           call' = [t \in Threads |-> NoCall]
    PROVE  EngineType' /\ CallInv' /\ SettledInv'
<1>1. \A t \in Threads : call'[t] = NoCall /\ call'[t].at = "idle"
  BY DEF NoCall
<1>2. EngineType'
  BY EngineAssumption DEF EngineType
<1>3. CallInv'
  BY <1>1 DEF CallInv, CheckingInv, ReporterInv, LockInv, RequestInv, Checking, InMonitor,
              At, Threads
<1>4. SettledInv'
  <2> SUFFICES ASSUME NEW h \in Handlers
               PROVE  Settled(h)'
    BY DEF SettledInv
  <2>1. \A t \in Threads : ~Fires(call'[t], h) /\ ~Clears(call'[t], h)
    BY <1>1 DEF Fires, Clears
  <2>2. QED
    BY <2>1 DEF Settled, NothingMetAtFirst
<1>5. QED
  BY <1>2, <1>3, <1>4

\* Every step of the composition keeps its invariant.
LEMMA EngineInvStep ==
    ASSUME OneAtATime, RangesFormed, NothingMetAtFirst, EngineInv, [EngineNext]_engineVars
    PROVE  EngineInv'
<1>1. IInv'
  BY EngineStepInRegistry, InvStep DEF EngineInv, OneAtATime
<1> SUFFICES EngineType' /\ CallInv' /\ SettledInv'
  BY <1>1 DEF EngineInv
<1>2. ASSUME NEW t \in Reporters, Report(t)
      PROVE  EngineType' /\ CallInv' /\ SettledInv'
  BY <1>2, PutStep, GetStep, NextEventStep DEF Report
<1>3. ASSUME NEW t \in Threads, Check(t) \/ Fire(t) \/ Clear(t)
      PROVE  EngineType' /\ CallInv' /\ SettledInv'
  BY <1>3, CheckStep, ActivityStep
<1>4. ASSUME NEW r \in Requests, Request(r)
      PROVE  EngineType' /\ CallInv' /\ SettledInv'
  BY <1>4, PostStep, SaveStep, CheckPostedStep, NextPostedStep, DeleteStep, ClearStatusStep,
     DeleteAllStep, ProfilesStep DEF Request
<1>5. CASE Create
  BY <1>5, CreateStep
<1>6. CASE RestartEngine
  <2>1. NoCall \in CallRecords
    BY DEF NoCall, CallRecords
  <2>2. QED
    BY <1>6, <2>1, StartInv DEF RestartEngine, Restart
<1>7. CASE UNCHANGED engineVars
  BY <1>7 DEF engineVars, registry, EngineInv, EngineType, CallInv, CheckingInv, ReporterInv,
              LockInv, RequestInv, SettledInv, Pending, Settled, Registered, MonitorFree, At
<1>8. QED
  BY <1>2, <1>3, <1>4, <1>5, <1>6, <1>7 DEF EngineNext

\* With nothing under way nobody owes a handler anything: it is settled.
LEMMA AtRestAsRegistered == EngineInv => ActiveAsRegistered
<1> SUFFICES ASSUME EngineInv, \A t \in Threads : call[t] = NoCall,
                    NEW i \in Ids, events[i] # None, i \notin missed
             PROVE  /\ i \in active => Holds(events[i], Within)
                    /\ Holds(events[i], Inside) => i \in active
  BY DEF ActiveAsRegistered
<1> USE DEF EngineInv
<1> DEFINE h == events[i]
<1>1. h \in Handlers /\ id[h] = i /\ Registered(h)
  BY DEF IInv, TypeOK, IdInv, Registered
<1>2. \A t \in Threads : call[t].at = "idle"
  BY DEF NoCall
<1>3. adding = Idle
  BY <1>2 DEF CallInv, RequestInv, At, Threads
<1>4. ~Pending(h)
  <2>1. \A t \in Threads : ~Owes(call[t], h)
    BY <1>2 DEF Owes, Checking
  <2>2. adding.all = <<>>
    BY <1>3 DEF Idle
  <2>3. QED
    BY <2>1, <2>2 DEF Pending
<1>5. Settled(h)
  BY <1>1, <1>4 DEF SettledInv
<1>6. \A t \in Threads : ~Fires(call[t], h) /\ ~Clears(call[t], h)
  BY <1>2 DEF Fires, Clears
<1>7. /\ i \in active => Means(h, cached)
      /\ Surely(h, cached) => i \in active
  BY <1>1, <1>5, <1>6 DEF Settled
<1>8. /\ Means(h, cached) <=> Holds(h, Within)
      /\ Surely(h, cached) <=> Holds(h, Inside)
  BY DEF Means, Surely, Holds
<1>9. QED
  BY <1>7, <1>8

\* "In order for the event to be considered triggered, all device states in triggerEvents
\* must be met" (EventHandler.java:25): whenever nothing is under way, a registered event is
\* active only if its values are within its ranges, and always if they are and no time is at
\* a bound, unless it has missed its last check.  It holds for any events, ranges and number
\* of reports that overlap with each other and with a request, through posts, removals and
\* restarts, provided that requests come one at a time and post under free ids, and that no
\* range is met by the states of a start.
THEOREM ActivityAsRegistered ==
    ASSUME OneAtATime, RangesFormed, NothingMetAtFirst
    PROVE  EngineSpec => []ActiveAsRegistered
<1>1. EngineInit => EngineInv
  <2> SUFFICES ASSUME EngineInit
               PROVE  EngineInv
    OBVIOUS
  <2>1. IInv
    BY InitInv DEF EngineInit
  <2>2. \A t \in Threads : call[t] = NoCall /\ call[t].at = "idle"
    BY DEF EngineInit, NoCall
  <2>3. EngineType
    <3>1. NoCall \in CallRecords
      BY DEF NoCall, CallRecords
    <3>2. QED
      BY <3>1, EngineAssumption DEF EngineInit, EngineType
  <2>4. CallInv
    BY <2>2 DEF EngineInit, Init, CallInv, CheckingInv, ReporterInv, LockInv, RequestInv,
                Checking, InMonitor, At, Threads
  <2>5. SettledInv
    BY ConstantsAssumption DEF EngineInit, Init, SettledInv, Registered
  <2>6. QED
    BY <2>1, <2>3, <2>4, <2>5 DEF EngineInv
<1>2. EngineInv /\ [EngineNext]_engineVars => EngineInv'
  BY EngineInvStep
<1>3. QED
  BY <1>1, <1>2, AtRestAsRegistered, PTL DEF EngineSpec
=============================================================================
