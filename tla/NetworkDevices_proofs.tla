------------------------ MODULE NetworkDevices_proofs ------------------------
(***************************************************************************)
(* Proofs about the two devices that wait in the network: ArpScanner, for  *)
(* every number of addresses and of detectors, and Echo, for every number  *)
(* of switches, of threads that add them and of requests.  The modules     *)
(* share no variable; each part below is about one of them.                *)
(***************************************************************************)
EXTENDS ArpScanner, Echo, TLAPS

(* ArpScanner: before the first close the flag is the scan's own, and once *)
(* a close has raised it while no detection is under way, no detector sees *)
(* a device.                                                               *)

\* What the poll of the first detector has found at each of its points, as long as only
\* its own scan sets the flag.
FirstScan ==
    life = 1 /\ closing \in {"no", "cancelled"} =>
        /\ \A l \in Lives \ {1} : at[l] = "idle"
        /\ at[1] \in {"receive", "blocked", "check", "look"} => mac[1] = None
        /\ at[1] \in {"found", "clear", "done"} => mac[1] \in macAddresses
        /\ at[1] = "test" => mac[1] \in macAddresses \cup {None}
        /\ stop <=> at[1] \in {"test", "clear"} /\ mac[1] # None

\* The inductive invariant.
IInv == TypeOK /\ FirstScan

-----------------------------------------------------------------------------

\* The invariant holds when the detector has been built.
LEMMA InitIInv == Init => IInv
<1> SUFFICES ASSUME Init PROVE IInv
    OBVIOUS
<1>1. TypeOK
    BY ArpAssumption DEF Init, TypeOK, Points
<1>2. FirstScan
    BY ArpAssumption DEF Init, FirstScan
<1>3. QED
    BY <1>1, <1>2 DEF IInv

\* The poll starts a scan.
LEMMA PollDueKeeps ==
    ASSUME IInv, NEW l \in Lives, PollDue(l)
    PROVE  IInv'
<1> USE ArpAssumption DEF IInv, PollDue, Goto
<1>1. TypeOK'
    BY DEF TypeOK, Points
<1>2. FirstScan'
    BY DEF TypeOK, FirstScan
<1>3. QED
    BY <1>1, <1>2

\* recvfrom blocks, or fails on a closed socket.
LEMMA ReceiveKeeps ==
    ASSUME IInv, NEW l \in Lives, Receive(l)
    PROVE  IInv'
<1> USE ArpAssumption DEF IInv, Receive, Goto
<1>1. TypeOK'
    BY DEF TypeOK, Points
<1>2. FirstScan'
    BY DEF TypeOK, FirstScan
<1>3. QED
    BY <1>1, <1>2

\* The scan looks at the flag.
LEMMA CheckStopKeeps ==
    ASSUME IInv, NEW l \in Lives, CheckStop(l)
    PROVE  IInv'
<1> USE ArpAssumption DEF IInv, CheckStop, Goto
<1>1. TypeOK'
    BY DEF TypeOK, Points
<1>2. FirstScan'
    BY DEF TypeOK, FirstScan
<1>3. QED
    BY <1>1, <1>2

\* The source is found among the addresses, or not.
LEMMA lookForMACAddressesKeeps ==
    ASSUME IInv, NEW l \in Lives, lookForMACAddresses(l)
    PROVE  IInv'
<1> USE ArpAssumption DEF IInv, lookForMACAddresses, Goto
<1>1. TypeOK'
    BY DEF TypeOK, Points
<1>2. FirstScan'
    BY DEF TypeOK, FirstScan
<1>3. QED
    BY <1>1, <1>2

\* A detection raises the flag.
LEMMA SetStopKeeps ==
    ASSUME IInv, NEW l \in Lives, SetStop(l)
    PROVE  IInv'
<1> USE ArpAssumption DEF IInv, SetStop, Goto
<1>1. TypeOK'
    BY DEF TypeOK, Points
<1>2. FirstScan'
    BY DEF TypeOK, FirstScan
<1>3. QED
    BY <1>1, <1>2

\* The loop ends if the flag is up.
LEMMA TestKeeps ==
    ASSUME IInv, NEW l \in Lives, Test(l)
    PROVE  IInv'
<1> USE ArpAssumption DEF IInv, Test, Goto
<1>1. TypeOK'
    BY DEF TypeOK, Points
<1>2. FirstScan'
    BY DEF TypeOK, FirstScan
<1>3. QED
    BY <1>1, <1>2

\* The scan lowers the flag.
LEMMA ClearKeeps ==
    ASSUME IInv, NEW l \in Lives, Clear(l)
    PROVE  IInv'
<1> USE ArpAssumption DEF IInv, Clear, Goto
<1>1. TypeOK'
    BY DEF TypeOK, Points
<1>2. FirstScan'
    BY DEF TypeOK, FirstScan
<1>3. QED
    BY <1>1, <1>2

\* The result is kept.
LEMMA UpdateKeeps ==
    ASSUME IInv, NEW l \in Lives, Update(l)
    PROVE  IInv'
<1> USE ArpAssumption DEF IInv, Update, Goto
<1>1. TypeOK'
    BY DEF TypeOK, Points
<1>2. FirstScan'
    BY DEF TypeOK, FirstScan
<1>3. QED
    BY <1>1, <1>2

\* The poll is cancelled.
LEMMA CancelKeeps ==
    ASSUME IInv, Cancel
    PROVE  IInv'
<1> USE ArpAssumption DEF IInv, Cancel, Goto
<1>1. TypeOK'
    BY DEF TypeOK, Points
<1>2. FirstScan'
    BY DEF TypeOK, FirstScan
<1>3. QED
    BY <1>1, <1>2

\* The close raises the flag.
LEMMA RaiseStopKeeps ==
    ASSUME IInv, RaiseStop
    PROVE  IInv'
<1> USE ArpAssumption DEF IInv, RaiseStop, Goto
<1>1. TypeOK'
    BY DEF TypeOK, Points
<1>2. FirstScan'
    BY DEF TypeOK, FirstScan
<1>3. QED
    BY <1>1, <1>2

\* The close ends the socket.
LEMMA CloseSocketKeeps ==
    ASSUME IInv, CloseSocket
    PROVE  IInv'
<1> USE ArpAssumption DEF IInv, CloseSocket, Goto
<1>1. TypeOK'
    BY DEF TypeOK, Points
<1>2. FirstScan'
    BY DEF TypeOK, FirstScan
<1>3. QED
    BY <1>1, <1>2

\* The next detector is built.
LEMMA RebuildKeeps ==
    ASSUME IInv, Rebuild
    PROVE  IInv'
<1> USE ArpAssumption DEF IInv, Rebuild, Goto
<1>1. TypeOK'
    BY DEF TypeOK, Points
<1>2. FirstScan'
    BY DEF TypeOK, FirstScan
<1>3. QED
    BY <1>1, <1>2

\* A frame arrives.
LEMMA FrameKeeps ==
    ASSUME IInv, NEW l \in Lives, NEW a \in Addresses, Frame(l, a)
    PROVE  IInv'
<1> USE ArpAssumption DEF IInv, Frame, Goto
<1>1. TypeOK'
    BY DEF TypeOK, Points
<1>2. FirstScan'
    BY DEF TypeOK, FirstScan
<1>3. QED
    BY <1>1, <1>2

\* An address is registered.
LEMMA registerMACAddressKeeps ==
    ASSUME IInv, NEW a \in Addresses, registerMACAddress(a)
    PROVE  IInv'
<1> USE ArpAssumption DEF IInv, registerMACAddress, Goto
<1>1. TypeOK'
    BY DEF TypeOK, Points
<1>2. FirstScan'
    BY DEF TypeOK, FirstScan
<1>3. QED
    BY <1>1, <1>2

\* Every step keeps the invariant.
LEMMA NextIInv == IInv /\ [Next]_vars => IInv'
<1> SUFFICES ASSUME IInv, [Next]_vars PROVE IInv'
    OBVIOUS
<1>1. ASSUME NEW l \in Lives, PollDue(l) \/ Scan(l) PROVE IInv'
    BY <1>1, PollDueKeeps, ReceiveKeeps, CheckStopKeeps, lookForMACAddressesKeeps,
       SetStopKeeps, TestKeeps, ClearKeeps, UpdateKeeps DEF Scan
<1>2. ASSUME NEW l \in Lives, NEW a \in Addresses, Frame(l, a) PROVE IInv'
    BY <1>2, FrameKeeps
<1>3. ASSUME NEW a \in Addresses, registerMACAddress(a) PROVE IInv'
    BY <1>3, registerMACAddressKeeps
<1>4. CASE Cancel \/ Close \/ Rebuild
    BY <1>4, CancelKeeps, RaiseStopKeeps, CloseSocketKeeps, RebuildKeeps DEF Close
<1>5. CASE UNCHANGED vars
    BY <1>5 DEF vars, IInv, TypeOK, FirstScan
<1>6. QED
    BY <1>1, <1>2, <1>3, <1>4, <1>5 DEF Next

\* The invariant holds in every state of every behaviour.
LEMMA Invariance == Spec => []IInv
<1>1. QED
    BY InitIInv, NextIInv, PTL DEF Spec

\* Every variable stays in its domain, for every number of addresses and detectors.
THEOREM TypeCorrect == Spec => []TypeOK
<1>1. IInv => TypeOK
    BY DEF IInv
<1>2. QED
    BY <1>1, Invariance, PTL

\* Before the first close the flag is the scan's own: it is up exactly between a
\* detection and the end of the scan, and every scan ends with a registered address
\* (ARPScanner.cpp:152-165).
THEOREM FlagIsTheScans == Spec => []OneShotFlag
<1>1. IInv => OneShotFlag
    BY DEF IInv, FirstScan, OneShotFlag
<1>2. QED
    BY <1>1, Invariance, PTL

\* Once the flag is up and no scan is between its test of it and the end of its detection,
\* this stays so for ever, and a detector that reports nothing never reports anything
\* (shutdownScanner raises the flag; setup does not lower it).
THEOREM StaysBlind == Spec => BlindForever
<1> SUFFICES ASSUME NEW l \in Lives PROVE Spec => [](Blinded(l) => []Blinded(l))
    BY DEF BlindForever
<1>1. ASSUME IInv, Blinded(l), [Next]_vars PROVE Blinded(l)'
    <2> USE <1>1 DEF Blinded, Window, IInv, TypeOK, Goto
    <2>1. ASSUME NEW k \in Lives, PollDue(k) \/ Receive(k) \/ CheckStop(k) PROVE Blinded(l)'
        BY <2>1 DEF PollDue, Receive, CheckStop
    <2>2. ASSUME NEW k \in Lives, lookForMACAddresses(k) \/ SetStop(k) \/ Test(k) \/ Clear(k)
          PROVE Blinded(l)'
        <3>1. Window(k)
            BY <2>2 DEF lookForMACAddresses, SetStop, Test, Clear
        <3>2. QED
            BY <3>1
    <2>3. ASSUME NEW k \in Lives, Update(k) PROVE Blinded(l)'
        BY <2>3 DEF Update
    <2>4. ASSUME NEW k \in Lives, NEW a \in Addresses, Frame(k, a) \/ registerMACAddress(a)
          PROVE Blinded(l)'
        BY <2>4 DEF Frame, registerMACAddress
    <2>5. CASE Cancel \/ RaiseStop \/ CloseSocket \/ Rebuild
        BY <2>5 DEF Cancel, RaiseStop, CloseSocket, Rebuild
    <2>6. CASE UNCHANGED vars
        BY <2>6 DEF vars
    <2>7. QED
        BY <2>1, <2>2, <2>3, <2>4, <2>5, <2>6 DEF Next, Scan, Close
<1>2. QED
    BY <1>1, Invariance, PTL DEF Spec

-----------------------------------------------------------------------------
(* Echo: a switch is registered with the selector before it is in the map, *)
(* it is in the map before the search service names it, and only the close *)
(* takes keys away.                                                        *)

\* The points of addDevice.
AdderPoints == {"idle", "lock", "wakeup", "register", "unlock", "put"}

\* The adders are at a point of addDevice, each with the switch it was given.
AddersTyped ==
    add \in [Adders -> [at : AdderPoints, switch : Switches \cup {"none"}]]

\* Up to the close, the switch of an adder that is past register has its key, and so has
\* every switch in the map; the search service names switches of the map only.
Registered ==
    closed \/
        /\ \A a \in Adders : add[a].at \in {"unlock", "put"} => add[a].switch \in keys
        /\ upnpDevices \subseteq keys
        /\ search \subseteq upnpDevices
        /\ announced \subseteq upnpDevices

\* The inductive invariant.
EchoInv == AddersTyped /\ Registered

\* It holds when the device has been built: nobody adds, and nothing is in the map.
LEMMA InitEchoInv == EchoInit => EchoInv
<1> SUFFICES ASSUME EchoInit PROVE EchoInv
    OBVIOUS
<1>1. AddersTyped
    BY DEF EchoInit, AddersTyped, AdderPoints, Idle
<1>2. Registered
    BY DEF EchoInit, Registered, Idle
<1>3. QED
    BY <1>1, <1>2 DEF EchoInv

\* The poll serves requests: it touches neither the keys nor the map.
LEMMA PollerKeeps ==
    ASSUME EchoInv, Poller
    PROVE  EchoInv'
<1>1. UNCHANGED <<upnpDevices, add, keys, announced, search, closed>>
    <2>1. CASE Poll \/ Select \/ Selected \/ Served
        BY <2>1 DEF Poll, Select, Selected, Served, adding
    <2>2. ASSUME NEW s \in Switches, Serve(s)
          PROVE  UNCHANGED <<upnpDevices, add, keys, announced, search, closed>>
        BY <2>2 DEF Serve, adding
    <2>3. QED
        BY <2>1, <2>2 DEF Poller
<1>2. QED
    BY <1>1 DEF EchoInv, AddersTyped, Registered

\* A thread begins to add a switch.
LEMMA AddKeeps ==
    ASSUME EchoInv, NEW a \in Adders, NEW s \in Switches, Add(a, s)
    PROVE  EchoInv'
<1> USE DEF EchoInv, Add
<1>1. AddersTyped'
    BY DEF AddersTyped, AdderPoints
<1>2. Registered'
    BY DEF AddersTyped, Registered
<1>3. QED
    BY <1>1, <1>2

\* A step of addDevice.  The key is there before the adder is past register, and the
\* switch is put into the map after that.
LEMMA AddDeviceKeeps ==
    ASSUME EchoInv, NEW a \in Adders, AddDevice(a)
    PROVE  EchoInv'
<1>1. CASE Lock(a) \/ Wakeup(a)
    <2>1. AddersTyped'
        BY <1>1 DEF EchoInv, AddersTyped, AdderPoints, Lock, Wakeup, Move
    <2>2. Registered'
        BY <1>1 DEF EchoInv, AddersTyped, Registered, Lock, Wakeup, Move
    <2>3. QED
        BY <2>1, <2>2 DEF EchoInv
<1>2. CASE Register(a)
    <2>1. AddersTyped'
        BY <1>2 DEF EchoInv, AddersTyped, AdderPoints, Register, Move
    <2>2. Registered'
        BY <1>2 DEF EchoInv, AddersTyped, Registered, Register, Move
    <2>3. QED
        BY <2>1, <2>2 DEF EchoInv
<1>3. CASE Unlock(a)
    <2>1. AddersTyped'
        BY <1>3 DEF EchoInv, AddersTyped, AdderPoints, Unlock, Move
    <2>2. Registered'
        BY <1>3 DEF EchoInv, AddersTyped, Registered, Unlock, Move, At
    <2>3. QED
        BY <2>1, <2>2 DEF EchoInv
<1>4. CASE Put(a)
    <2>1. AddersTyped'
        BY <1>4 DEF EchoInv, AddersTyped, AdderPoints, Put, Idle
    <2>2. closed \/ add[a].switch \in keys
        BY <1>4 DEF EchoInv, Registered, Put, At
    <2>3. Registered'
        BY <1>4, <2>2 DEF EchoInv, AddersTyped, Registered, Put, Idle
    <2>4. QED
        BY <2>1, <2>3 DEF EchoInv
<1>5. QED
    BY <1>1, <1>2, <1>3, <1>4 DEF AddDevice

\* The search service takes the switches of the map, and names them one by one.
LEMMA SearchKeeps ==
    ASSUME EchoInv, Search \/ \E s \in Switches : Respond(s)
    PROVE  EchoInv'
<1>1. CASE Search
    BY <1>1 DEF EchoInv, AddersTyped, Registered, Search, adding
<1>2. ASSUME NEW s \in Switches, Respond(s) PROVE EchoInv'
    BY <1>2 DEF EchoInv, AddersTyped, Registered, Respond, adding
<1>3. QED
    BY <1>1, <1>2

\* Every step keeps the invariant.
LEMMA NextEchoInv == EchoInv /\ [EchoNext]_echoVars => EchoInv'
<1> SUFFICES ASSUME EchoInv, [EchoNext]_echoVars PROVE EchoInv'
    OBVIOUS
<1>1. CASE Poller
    BY <1>1, PollerKeeps
<1>2. ASSUME NEW a \in Adders, AddDevice(a) \/ \E s \in Switches : Add(a, s)
      PROVE  EchoInv'
    BY <1>2, AddDeviceKeeps, AddKeeps
<1>3. CASE Search \/ \E s \in Switches : Respond(s)
    BY <1>3, SearchKeeps
<1>4. ASSUME NEW s \in Switches, NEW r \in Requests, Connect(s, r) PROVE EchoInv'
    BY <1>4 DEF EchoInv, AddersTyped, Registered, Connect, adding
<1>5. CASE CloseSockets
    BY <1>5 DEF EchoInv, AddersTyped, Registered, CloseSockets, adding
<1>6. CASE UNCHANGED echoVars
    BY <1>6 DEF EchoInv, AddersTyped, Registered, echoVars
<1>7. QED
    BY <1>1, <1>2, <1>3, <1>4, <1>5, <1>6 DEF EchoNext

\* The Echo is told of a switch only when its port is registered with the selector, for
\* every number of switches and of threads that add them at the same time, and whatever
\* the requests do (UPNPBroadcastResponderService.java:126-133).
THEOREM ToldOnlyOfRegistered == EchoSpec => []AnnouncedIsRegistered
<1>1. EchoInv => AnnouncedIsRegistered
    BY DEF EchoInv, Registered, AnnouncedIsRegistered
<1>2. QED
    BY <1>1, InitEchoInv, NextEchoInv, PTL DEF EchoSpec

=============================================================================
