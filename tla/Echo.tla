-------------------------------- MODULE Echo --------------------------------
(***************************************************************************)
(* The switches that the AmazonEcho device offers in the network: each has *)
(* a server socket, registered with one selector.  The device's poll waits *)
(* in the selector and serves requests; requests that add switches make it *)
(* let go of the selector; a service answers searches for the switches.    *)
(***************************************************************************)
EXTENDS Naturals, Sequences

CONSTANTS
    Switches,       \* the switches that may be added: FauxmoSwitch, each with its port
    Adders,         \* the threads that add them: constructor, newActionProfile, performAction
    Requests,       \* what the Echo sends: "on" or "bad", which throws
    MaxRequests,    \* how many requests wait at a switch
    MayClose        \* whether the device is closed

ASSUME EchoAssumption ==
    /\ MayClose \in BOOLEAN
    /\ Requests \subseteq {"on", "bad"} /\ MaxRequests \in Nat \ {0}

VARIABLES
    selectorLock,
    wakeup,         \* whether the selector was woken since the last select
    keys,           \* the switches registered with the selector
    selectedKeys,   \* the ready ones that were not removed
    upnpDevices,    \* the switches by their port
    pending,        \* of each switch: the connections that wait in its socket
    poll,           \* where the poll is
    todo,           \* the selected keys it has not come to
    add,            \* of each adder: where it is, and its switch
    announced,      \* the switches named in answers to searches
    search,         \* the switches the search service has still to answer for
    closed,         \* whether the device and its sockets are closed
    triggered,      \* history: the switches whose profile the last step ran
    overlapped,     \* history: whether two adders were under way at the same time
    threw           \* history: whether a request of the Echo has thrown

echoVars ==
    <<selectorLock, wakeup, keys, selectedKeys, upnpDevices, pending, poll, todo, add,
      announced, search, closed, triggered, overlapped, threw>>
adding == <<selectorLock, upnpDevices, add, overlapped>>
serving == <<selectedKeys, todo, threw>>

Idle == [at |-> "idle", switch |-> "none"]

EchoInit ==
    /\ selectorLock = FALSE /\ wakeup = FALSE /\ keys = {} /\ selectedKeys = {}
    /\ upnpDevices = {} /\ pending = [s \in Switches |-> <<>>]
    /\ poll = "sleep" /\ todo = {} /\ add = [a \in Adders |-> Idle]
    /\ announced = {} /\ search = {} /\ closed = FALSE /\ triggered = {}
    /\ overlapped = FALSE /\ threw = FALSE

-----------------------------------------------------------------------------
(* listenForRequests: the poll.                                            *)

Poll ==
    /\ poll = "sleep" /\ ~closed
    /\ poll' = IF selectorLock THEN "sleep" ELSE "select"
    /\ triggered' = {}
    /\ UNCHANGED <<adding, wakeup, keys, serving, pending, announced, search, closed>>

\* select takes the monitors of the selector, ...
Select ==
    /\ poll = "select"
    /\ poll' = "selecting"
    /\ triggered' = {}
    /\ UNCHANGED <<adding, wakeup, keys, serving, pending, announced, search, closed>>

Ready == {s \in keys : pending[s] # <<>>}

\* ... and returns when it was woken or a connection waits.  A key that is still among
\* the selected ones is not counted again.
Selected ==
    /\ poll = "selecting" /\ (wakeup \/ Ready # {})
    /\ wakeup' = FALSE
    /\ selectedKeys' = (selectedKeys \cup Ready) \cap keys
    /\ IF Ready \subseteq selectedKeys
       THEN poll' = "sleep" /\ UNCHANGED todo
       ELSE poll' = "serve" /\ todo' = selectedKeys'
    /\ triggered' = {}
    /\ UNCHANGED <<adding, keys, pending, threw, announced, search, closed>>

\* Mutant: a key is not removed after its request was served.
KeepKey(s) == todo' = todo \ {s} /\ UNCHANGED selectedKeys

\* selectedKeys.remove().
RemoveKey(s) == todo' = todo \ {s} /\ selectedKeys' = selectedKeys \ {s}

\* A switch that is not in the map yet is passed over.  Without a connection accept
\* gives null, and that, a cancelled key and a bad request throw: the poll ends with
\* its keys.
Serve(s) ==
    /\ poll = "serve" /\ s \in todo
    /\ \/ /\ s \in keys \ upnpDevices
          /\ RemoveKey(s) /\ triggered' = {} /\ UNCHANGED <<poll, pending, threw>>
       \/ /\ s \in upnpDevices /\ pending[s] # <<>>
          /\ pending' = [pending EXCEPT ![s] = Tail(@)]
          /\ IF Head(pending[s]) = "on"
             THEN RemoveKey(s) /\ triggered' = {s} /\ UNCHANGED <<poll, threw>>
             ELSE /\ poll' = "sleep" /\ triggered' = {} /\ threw' = TRUE
                  /\ UNCHANGED <<selectedKeys, todo>>
       \/ /\ s \notin keys \/ (s \in upnpDevices /\ pending[s] = <<>>)
          /\ poll' = "sleep" /\ triggered' = {} /\ UNCHANGED <<pending, serving>>
    /\ UNCHANGED <<adding, wakeup, keys, announced, search, closed>>

Served ==
    /\ poll = "serve" /\ todo = {}
    /\ poll' = "sleep" /\ triggered' = {}
    /\ UNCHANGED <<adding, wakeup, keys, serving, pending, announced, search, closed>>

-----------------------------------------------------------------------------
(* addDevice.                                                              *)

Known == upnpDevices \cup {add[a].switch : a \in Adders}

Add(a, s) ==
    /\ add[a] = Idle /\ s \notin Known
    /\ overlapped' = (overlapped \/ \E b \in Adders : add[b] # Idle)
    /\ add' = [add EXCEPT ![a] = [at |-> "lock", switch |-> s]]
    /\ triggered' = {}
    /\ UNCHANGED <<selectorLock, wakeup, keys, serving, upnpDevices, pending, poll, announced,
                   search, closed>>

At(a, p) == add[a].at = p
Move(a, p) == add' = [add EXCEPT ![a].at = p]

\* Mutant: the switch is in the map before its port is registered.
PutFirst(a) ==
    /\ At(a, "lock") /\ Move(a, "wakeup")
    /\ selectorLock' = TRUE /\ upnpDevices' = upnpDevices \cup {add[a].switch}
    /\ triggered' = {}
    /\ UNCHANGED <<overlapped, wakeup, keys, serving, pending, poll, announced, search,
                   closed>>

\* selectorLock.set(true).
Lock(a) ==
    /\ At(a, "lock") /\ Move(a, "wakeup")
    /\ selectorLock' = TRUE /\ triggered' = {}
    /\ UNCHANGED <<overlapped, wakeup, keys, serving, upnpDevices, pending, poll,
                   announced, search, closed>>

\* Mutant: the selector is not woken.
NoWakeup(a) ==
    /\ At(a, "wakeup") /\ Move(a, "register")
    /\ triggered' = {}
    /\ UNCHANGED <<overlapped, selectorLock, wakeup, keys, serving, upnpDevices,
                   pending, poll, announced, search, closed>>

\* selector.wakeup(): kept for the next select.
Wakeup(a) ==
    /\ At(a, "wakeup") /\ Move(a, "register")
    /\ wakeup' = TRUE /\ triggered' = {}
    /\ UNCHANGED <<overlapped, selectorLock, keys, serving, upnpDevices, pending, poll,
                   announced, search, closed>>

\* register waits for the monitor that select holds.
Register(a) ==
    /\ At(a, "register") /\ poll # "selecting" /\ Move(a, "unlock")
    /\ keys' = keys \cup {add[a].switch} /\ triggered' = {}
    /\ UNCHANGED <<overlapped, selectorLock, wakeup, serving, upnpDevices, pending,
                   poll, announced, search, closed>>

Unlock(a) ==
    /\ At(a, "unlock") /\ Move(a, "put")
    /\ selectorLock' = FALSE /\ triggered' = {}
    /\ UNCHANGED <<overlapped, wakeup, keys, serving, upnpDevices, pending, poll,
                   announced, search, closed>>

Put(a) ==
    /\ At(a, "put")
    /\ upnpDevices' = upnpDevices \cup {add[a].switch}
    /\ add' = [add EXCEPT ![a] = Idle]
    /\ triggered' = {}
    /\ UNCHANGED <<overlapped, selectorLock, wakeup, keys, serving, pending, poll,
                   announced, search, closed>>

AddDevice(a) == Lock(a) \/ Wakeup(a) \/ Register(a) \/ Unlock(a) \/ Put(a)

-----------------------------------------------------------------------------
(* listenForSearch, the Echo, and tearDown.                                *)

Search ==
    /\ search = {} /\ ~closed
    /\ search' = upnpDevices /\ triggered' = {}
    /\ UNCHANGED <<adding, wakeup, keys, serving, pending, poll, announced, closed>>

Respond(s) ==
    /\ s \in search
    /\ search' = search \ {s} /\ announced' = announced \cup {s} /\ triggered' = {}
    /\ UNCHANGED <<adding, wakeup, keys, serving, pending, poll, closed>>

\* The Echo connects to a switch it was told of.
Connect(s, r) ==
    /\ s \in announced /\ ~closed /\ Len(pending[s]) < MaxRequests
    /\ pending' = [pending EXCEPT ![s] = Append(@, r)] /\ triggered' = {}
    /\ UNCHANGED <<adding, wakeup, keys, serving, poll, announced, search, closed>>

\* The poll is cancelled; the sockets of the switches in the map are closed with their
\* connections and keys, which does not wake the selector.
CloseSockets ==
    /\ MayClose /\ ~closed
    /\ closed' = TRUE /\ keys' = keys \ upnpDevices
    /\ pending' = [s \in Switches |-> IF s \in upnpDevices THEN <<>> ELSE pending[s]]
    /\ triggered' = {}
    /\ UNCHANGED <<adding, wakeup, serving, poll, announced, search>>

Poller == Poll \/ Select \/ Selected \/ Served \/ \E s \in Switches : Serve(s)

EchoNext ==
    \/ Poller
    \/ \E a \in Adders : AddDevice(a) \/ \E s \in Switches : Add(a, s)
    \/ Search \/ \E s \in Switches : Respond(s) \/ \E r \in Requests : Connect(s, r)
    \/ CloseSockets

EchoSpec == EchoInit /\ [][EchoNext]_echoVars

\* The poll runs every second, adders go on, and the Echo searches.
EchoLiveSpec ==
    /\ EchoSpec
    /\ WF_echoVars(Poll) /\ WF_echoVars(Select) /\ WF_echoVars(Selected) /\ WF_echoVars(Served)
    /\ \A s \in Switches : WF_echoVars(Serve(s)) /\ WF_echoVars(Respond(s))
    /\ \A a \in Adders : WF_echoVars(AddDevice(a))
    /\ WF_echoVars(Search)

-----------------------------------------------------------------------------

\* The Echo is told of a switch only when requests to it will be seen (addDevice).
AnnouncedIsRegistered == closed \/ announced \subseteq keys

\* Until a request throws, every request is served, although switches are added again
\* and again meanwhile.  (A throwing one may leave other switches unserved for ever.)
RequestsServed ==
    \A s \in Switches :
        s \in keys /\ pending[s] # <<>> ~> s \in triggered \/ closed \/ threw

\* addDevice returns although the poll waits in the selector and nobody connects, unless
\* two of them overlap: they share one flag.
AddReturns == \A a \in Adders : add[a] # Idle ~> add[a] = Idle \/ overlapped

=============================================================================
