--------------------------- MODULE DhtSensor_proofs ---------------------------
(***************************************************************************)
(* Proofs about DhtSensor for every number of sensors, failures and        *)
(* damaged frames: only readings are reported, the high priority is given  *)
(* back however the sensors disturb each other, and a sensor that is alone *)
(* never uses a mapping that failed.                                       *)
(***************************************************************************)
EXTENDS DhtSensor, TLAPS

Boosted == {"low", "input", "input write", "response", "frame", "restore"}

\* The inductive invariant.
IInv == TypeOK /\ BoostIsBounded /\ ReportsReading

\* What the mapping is at the points of the only sensor.
MappingKnown ==
    /\ mapping = "failed" => \E s \in Sensors : at[s] \in {"verify", "unmap"}
    /\ \A s \in Sensors : at[s] = "verify" => mapping # "null"

-----------------------------------------------------------------------------

\* Pins have a function in the register, initially and after a write.
LEMMA RegisterType ==
    ASSUME TypeOK, NEW s \in Sensors, NEW f \in {"in", "out"}
    PROVE  [q \in Pins |-> IF q = PinOf[s] THEN f
                           ELSE IF Register(q) = Register(PinOf[s]) THEN copy[s][q]
                           ELSE fsel[q]] \in Registers
BY DEF TypeOK, Registers

\* The invariant holds before the first poll.
LEMMA InitIInv == Init => IInv
<1> SUFFICES ASSUME Init PROVE IInv
    OBVIOUS
<1>1. fsel \in Registers
    BY DEF Init, Registers
<1>2. TypeOK
    BY <1>1, DhtAssumption DEF Init, TypeOK, Points, Results
<1>3. BoostIsBounded /\ ReportsReading
    BY DEF Init, BoostIsBounded, ReportsReading
<1>4. QED
    BY <1>2, <1>3 DEF IInv

\* A poll begins.
LEMMA PollDueIsSafe ==
    ASSUME IInv, NEW s \in Sensors, PollDue(s)
    PROVE  IInv'
<1> USE DhtAssumption DEF IInv, PollDue, Goto
<1>1. TypeOK'
    BY DEF TypeOK, Points, Accesses, Results
<1>2. BoostIsBounded'
    BY DEF TypeOK, BoostIsBounded, Accesses
<1>3. ReportsReading'
    BY DEF TypeOK, ReportsReading
<1>4. QED
    BY <1>1, <1>2, <1>3

\* The attempt looks at the mapping.
LEMMA TestMappingIsSafe ==
    ASSUME IInv, NEW s \in Sensors, TestMapping(s)
    PROVE  IInv'
<1> USE DhtAssumption DEF IInv, TestMapping, Goto
<1>1. TypeOK'
    BY DEF TypeOK, Points, Accesses, Results
<1>2. BoostIsBounded'
    BY DEF TypeOK, BoostIsBounded, Accesses
<1>3. ReportsReading'
    BY DEF TypeOK, ReportsReading
<1>4. QED
    BY <1>1, <1>2, <1>3

\* The device cannot be opened.
LEMMA OpenFailsIsSafe ==
    ASSUME IInv, NEW s \in Sensors, OpenFails(s)
    PROVE  IInv'
<1> USE DhtAssumption DEF IInv, OpenFails, Goto
<1>1. TypeOK'
    <2>1. failures' \in 0..MaxFailures
        BY DEF TypeOK
    <2>2. at' \in [Sensors -> Points]
        BY DEF TypeOK, Points, Accesses, Results
    <2>3. QED
        BY <2>1, <2>2 DEF TypeOK, Results
<1>2. BoostIsBounded'
    BY DEF TypeOK, BoostIsBounded, Accesses
<1>3. ReportsReading'
    BY DEF TypeOK, ReportsReading
<1>4. QED
    BY <1>1, <1>2, <1>3

\* The result of mmap goes to the pointer.
LEMMA MapIsSafe ==
    ASSUME IInv, NEW s \in Sensors, Map(s)
    PROVE  IInv'
<1> USE DhtAssumption DEF IInv, Map, Goto
<1>1. TypeOK'
    <2>1. failures' \in 0..MaxFailures /\ mapping' \in {"null", "failed", "mapped"}
        BY DEF TypeOK
    <2>2. at' \in [Sensors -> Points]
        BY DEF TypeOK, Points, Accesses, Results
    <2>3. QED
        BY <2>1, <2>2 DEF TypeOK, Results
<1>2. BoostIsBounded'
    BY DEF TypeOK, BoostIsBounded, Accesses
<1>3. ReportsReading'
    BY DEF TypeOK, ReportsReading
<1>4. QED
    BY <1>1, <1>2, <1>3

\* The pointer is looked at.
LEMMA VerifyIsSafe ==
    ASSUME IInv, NEW s \in Sensors, Verify(s)
    PROVE  IInv'
<1> USE DhtAssumption DEF IInv, Verify, Goto
<1>1. TypeOK'
    BY DEF TypeOK, Points, Accesses, Results
<1>2. BoostIsBounded'
    BY DEF TypeOK, BoostIsBounded, Accesses
<1>3. ReportsReading'
    BY DEF TypeOK, ReportsReading
<1>4. QED
    BY <1>1, <1>2, <1>3

\* A failed mapping is forgotten.
LEMMA UnmapIsSafe ==
    ASSUME IInv, NEW s \in Sensors, Unmap(s)
    PROVE  IInv'
<1> USE DhtAssumption DEF IInv, Unmap, Goto
<1>1. TypeOK'
    BY DEF TypeOK, Points, Accesses, Results
<1>2. BoostIsBounded'
    BY DEF TypeOK, BoostIsBounded, Accesses
<1>3. ReportsReading'
    BY DEF TypeOK, ReportsReading
<1>4. QED
    BY <1>1, <1>2, <1>3

\* The priority is raised.
LEMMA DriveHighIsSafe ==
    ASSUME IInv, NEW s \in Sensors, DriveHigh(s)
    PROVE  IInv'
<1> USE DhtAssumption DEF IInv, DriveHigh, Goto, Access
<1>1. TypeOK'
    BY DEF TypeOK, Points, Accesses, Results
<1>2. BoostIsBounded'
    BY DEF TypeOK, BoostIsBounded, Accesses
<1>3. ReportsReading'
    BY DEF TypeOK, ReportsReading
<1>4. QED
    BY <1>1, <1>2, <1>3

\* The start signal.
LEMMA DriveLowIsSafe ==
    ASSUME IInv, NEW s \in Sensors, DriveLow(s)
    PROVE  IInv'
<1> USE DhtAssumption DEF IInv, DriveLow, Goto, Access
<1>1. TypeOK'
    <2>1. started' \subseteq Pins
        BY DEF TypeOK, Pins
    <2>2. at' \in [Sensors -> Points]
        BY DEF TypeOK, Points, Accesses, Results
    <2>3. QED
        BY <2>1, <2>2 DEF TypeOK, Results
<1>2. BoostIsBounded'
    BY DEF TypeOK, BoostIsBounded, Accesses
<1>3. ReportsReading'
    BY DEF TypeOK, ReportsReading
<1>4. QED
    BY <1>1, <1>2, <1>3

\* The sensor answers.
LEMMA RespondIsSafe ==
    ASSUME IInv, NEW s \in Sensors, Respond(s)
    PROVE  IInv'
<1> USE DhtAssumption DEF IInv, Respond, Goto, Access
<1>1. TypeOK'
    BY DEF TypeOK, Points, Accesses, Results
<1>2. BoostIsBounded'
    BY DEF TypeOK, BoostIsBounded, Accesses
<1>3. ReportsReading'
    BY DEF TypeOK, ReportsReading
<1>4. QED
    BY <1>1, <1>2, <1>3

\* A frame that is taken or refused leaves the driver well typed.
LEMMA ReceiveType ==
    ASSUME TypeOK, NEW s \in Sensors, NEW arrival \in SlightArrivals \cup GrossArrivals,
           Receive(s, arrival), noise' \in 0..MaxNoise
    PROVE  TypeOK'
<1> USE DEF Receive, End, Goto
<1>1. reading' \in [Sensors -> SlightArrivals \cup GrossArrivals \cup {NoReading}]
    BY DEF TypeOK
<1>2. at' \in [Sensors -> Points]
    BY DEF TypeOK, Points, Accesses, Results
<1>3. result' \in [Sensors -> Results]
    BY DEF TypeOK, Results
<1>4. UNCHANGED <<mapping, fsel, copy, priority, closed, failures>> /\ started' \subseteq started
    OBVIOUS
<1>5. QED
    BY <1>1, <1>2, <1>3, <1>4 DEF TypeOK

\* A frame has arrived.
LEMMA FrameIsSafe ==
    ASSUME IInv, NEW s \in Sensors, Frame(s)
    PROVE  IInv'
<1> USE DhtAssumption DEF IInv
<1>1. PICK arrival \in SlightArrivals \cup GrossArrivals : Receive(s, arrival)
    BY DEF Frame
<1>2. at[s] = "frame"
    BY DEF Frame, Access
<1>3. noise' \in 0..MaxNoise
    BY DEF Frame, TypeOK
<1>4. TypeOK'
    BY <1>1, <1>3, ReceiveType
<1>5. BoostIsBounded'
    BY <1>1, <1>2 DEF TypeOK, BoostIsBounded, Accesses, Receive, End, Goto
<1>6. ReportsReading'
    BY <1>1, <1>2 DEF TypeOK, ReportsReading, Receive, End, Goto
<1>7. QED
    BY <1>4, <1>5, <1>6

\* Nothing comes.
LEMMA TimeoutIsSafe ==
    ASSUME IInv, NEW s \in Sensors, Timeout(s)
    PROVE  IInv'
<1> USE DhtAssumption DEF IInv, Timeout, Goto, Access, End
<1>1. TypeOK'
    BY DEF TypeOK, Points, Accesses, Results
<1>2. BoostIsBounded'
    BY DEF TypeOK, BoostIsBounded, Accesses
<1>3. ReportsReading'
    BY DEF TypeOK, ReportsReading
<1>4. QED
    BY <1>1, <1>2, <1>3

\* A frame is damaged.
LEMMA DamagedIsSafe ==
    ASSUME IInv, NEW s \in Sensors, Damaged(s)
    PROVE  IInv'
<1> USE DhtAssumption DEF IInv
<1>1. PICK arrival \in SlightArrivals \cup GrossArrivals : Receive(s, arrival)
    BY DEF Damaged
<1>2. at[s] = "frame"
    BY DEF Damaged, Access
<1>3. noise' \in 0..MaxNoise
    BY DEF Damaged, TypeOK
<1>4. TypeOK'
    BY <1>1, <1>3, ReceiveType
<1>5. BoostIsBounded'
    BY <1>1, <1>2 DEF TypeOK, BoostIsBounded, Accesses, Receive, End, Goto
<1>6. ReportsReading'
    BY <1>1, <1>2 DEF TypeOK, ReportsReading, Receive, End, Goto
<1>7. QED
    BY <1>4, <1>5, <1>6

\* A pulse is lost.
LEMMA LostIsSafe ==
    ASSUME IInv, NEW s \in Sensors, Lost(s)
    PROVE  IInv'
<1>a. noise' \in 0..MaxNoise
    <2>1. noise < MaxNoise /\ noise' = noise + 1
        BY Zenon DEF Lost
    <2>2. QED
        BY <2>1, DhtAssumption DEF IInv, TypeOK
<1> USE DhtAssumption DEF IInv, Lost, Goto, Access, End
<1>0. at[s] \in {"response", "frame"} /\ at' = [at EXCEPT ![s] = "restore"]
      /\ \E r \in Results \ {"success"} : result' = [result EXCEPT ![s] = r]
    BY DEF Results
<1>1. TypeOK'
    <2>1. at' \in [Sensors -> Points]
        BY <1>0 DEF TypeOK, Points, Accesses
    <2>2. QED
        BY <1>a, <1>0, <2>1 DEF TypeOK
<1>2. BoostIsBounded'
    BY <1>0 DEF TypeOK, BoostIsBounded, Accesses
<1>3. ReportsReading'
    BY <1>0 DEF TypeOK, ReportsReading
<1>4. QED
    BY <1>1, <1>2, <1>3

\* The priority is lowered.
LEMMA RestoreIsSafe ==
    ASSUME IInv, NEW s \in Sensors, Restore(s)
    PROVE  IInv'
<1> USE DhtAssumption DEF IInv, Restore, Goto
<1>1. TypeOK'
    BY DEF TypeOK, Points, Accesses, Results
<1>2. BoostIsBounded'
    BY DEF TypeOK, BoostIsBounded, Accesses
<1>3. ReportsReading'
    BY DEF TypeOK, ReportsReading
<1>4. QED
    BY <1>1, <1>2, <1>3

\* An attempt has ended.
LEMMA RetryIsSafe ==
    ASSUME IInv, NEW s \in Sensors, Retry(s)
    PROVE  IInv'
<1> USE DhtAssumption DEF IInv, Retry, Goto
<1>1. TypeOK'
    BY DEF TypeOK, Points, Accesses, Results
<1>2. BoostIsBounded'
    BY DEF TypeOK, BoostIsBounded, Accesses
<1>3. ReportsReading'
    BY DEF TypeOK, ReportsReading
<1>4. QED
    BY <1>1, <1>2, <1>3

\* The reading is reported.
LEMMA ReportIsSafe ==
    ASSUME IInv, NEW s \in Sensors, Report(s)
    PROVE  IInv'
<1> USE DhtAssumption DEF IInv, Report, Goto
<1>1. TypeOK'
    BY DEF TypeOK, Points, Accesses, Results
<1>2. BoostIsBounded'
    BY DEF TypeOK, BoostIsBounded, Accesses
<1>3. ReportsReading'
    BY DEF TypeOK, ReportsReading
<1>4. QED
    BY <1>1, <1>2, <1>3

\* The process is about to fault.
LEMMA FaultIsSafe ==
    ASSUME IInv, NEW s \in Sensors, Fault(s)
    PROVE  IInv'
<1> USE DhtAssumption DEF IInv, Fault, Goto
<1>1. TypeOK'
    BY DEF TypeOK, Points, Accesses, Results
<1>2. BoostIsBounded'
    BY DEF TypeOK, BoostIsBounded, Accesses
<1>3. ReportsReading'
    BY DEF TypeOK, ReportsReading
<1>4. QED
    BY <1>1, <1>2, <1>3

\* The poll is cancelled.
LEMMA CloseIsSafe ==
    ASSUME IInv, NEW s \in Sensors, Close(s)
    PROVE  IInv'
<1> USE DhtAssumption DEF IInv, Close, Goto
<1>1. TypeOK'
    BY DEF TypeOK, Points, Accesses, Results
<1>2. BoostIsBounded'
    BY DEF TypeOK, BoostIsBounded, Accesses
<1>3. ReportsReading'
    BY DEF TypeOK, ReportsReading
<1>4. QED
    BY <1>1, <1>2, <1>3

\* A read of the function register, which leaves the thread where it is as boosted as it was.
LEMMA ReadIsSafe ==
    ASSUME IInv, NEW s \in Sensors, NEW p \in Points, NEW n \in Points, ReadRegister(s, p, n),
           n # "report", n # "fault", p # "fault", p \in Boosted <=> n \in Boosted
    PROVE  IInv'
<1> USE DhtAssumption DEF IInv, ReadRegister, Access, Goto
<1>1. TypeOK'
    BY DEF TypeOK
<1>2. BoostIsBounded'
    BY DEF TypeOK, BoostIsBounded, Boosted
<1>3. ReportsReading'
    BY DEF TypeOK, ReportsReading
<1>4. QED
    BY <1>1, <1>2, <1>3

\* A write of the function register.
LEMMA WriteIsSafe ==
    ASSUME IInv, NEW s \in Sensors, NEW p \in Points, NEW n \in Points, NEW f \in {"in", "out"},
           WriteRegister(s, p, f, n),
           n # "report", n # "fault", p # "fault", p \in Boosted <=> n \in Boosted
    PROVE  IInv'
<1> USE DhtAssumption DEF IInv, WriteRegister, Access, Goto
<1>1. fsel' \in Registers
    BY RegisterType
<1>2. TypeOK'
    BY <1>1 DEF TypeOK
<1>3. BoostIsBounded'
    BY DEF TypeOK, BoostIsBounded, Boosted
<1>4. ReportsReading'
    BY DEF TypeOK, ReportsReading
<1>5. QED
    BY <1>2, <1>3, <1>4

\* The two changes of a pin's function, each a read and a write.
LEMMA OutputIsSafe ==
    ASSUME IInv, NEW s \in Sensors, set_output(s)
    PROVE  IInv'
<1>1. CASE ReadRegister(s, "clear", "clear write") \/ ReadRegister(s, "output", "output write")
    BY <1>1, ReadIsSafe DEF Points, Accesses, Boosted
<1>2. CASE WriteRegister(s, "clear write", "in", "output") \/ WriteRegister(s, "output write", "out", "high")
    BY <1>2, WriteIsSafe DEF Points, Accesses, Boosted
<1>3. QED
    BY <1>1, <1>2 DEF set_output

\* Setting the pin to input is a read and a write of its register.
LEMMA InputIsSafe ==
    ASSUME IInv, NEW s \in Sensors, set_input(s)
    PROVE  IInv'
<1>1. CASE ReadRegister(s, "input", "input write")
    BY <1>1, ReadIsSafe DEF Points, Accesses, Boosted
<1>2. CASE WriteRegister(s, "input write", "in", "response")
    BY <1>2, WriteIsSafe DEF Points, Accesses, Boosted
<1>3. QED
    BY <1>1, <1>2 DEF set_input

\* Every step keeps the invariant.
LEMMA NextIInv == IInv /\ [Next]_vars => IInv'
<1> SUFFICES ASSUME IInv, [Next]_vars PROVE IInv'
    OBVIOUS
<1>1. ASSUME NEW s \in Sensors, Step(s) PROVE IInv'
    BY <1>1, TestMappingIsSafe, OpenFailsIsSafe, MapIsSafe, VerifyIsSafe, UnmapIsSafe,
       OutputIsSafe, DriveHighIsSafe, DriveLowIsSafe, InputIsSafe, RespondIsSafe, FrameIsSafe,
       TimeoutIsSafe, DamagedIsSafe, LostIsSafe, RestoreIsSafe, RetryIsSafe, ReportIsSafe DEF Step
<1>2. ASSUME NEW s \in Sensors, PollDue(s) \/ Fault(s) \/ Close(s) PROVE IInv'
    BY <1>2, PollDueIsSafe, FaultIsSafe, CloseIsSafe
<1>3. CASE UNCHANGED vars
    BY <1>3 DEF vars, IInv, TypeOK, BoostIsBounded, ReportsReading
<1>4. QED
    BY <1>1, <1>2, <1>3 DEF Next

\* The invariant holds in every state of every behaviour.
LEMMA Invariance == Spec => []IInv
<1>1. QED
    BY InitIInv, NextIInv, PTL DEF Spec

\* Every variable has its type, for every number of sensors, failures and damaged frames.
THEOREM TypeCorrect == Spec => []TypeOK
<1>1. IInv => TypeOK
    BY DEF IInv
<1>2. QED
    BY <1>1, Invariance, PTL

\* Only the timed part of an attempt runs at the highest priority (set_max_priority,
\* set_default_priority).
THEOREM PriorityGivenBack == Spec => []BoostIsBounded
<1>1. IInv => BoostIsBounded
    BY DEF IInv
<1>2. QED
    BY <1>1, Invariance, PTL

\* What is reported was read (the loop of readSensor).
THEOREM OnlyReadings == Spec => []ReportsReading
<1>1. IInv => ReportsReading
    BY DEF IInv
<1>2. QED
    BY <1>1, Invariance, PTL

-----------------------------------------------------------------------------

\* The steps of the only sensor keep what is known of the mapping.
LEMMA MappingStep ==
    ASSUME NEW only \in Sensors, Sensors = {only}, TypeOK, MappingGood, MappingKnown, [Next]_vars
    PROVE  MappingGood' /\ MappingKnown'
<1> USE DEF TypeOK, MappingGood, MappingKnown, Goto, Accesses
<1>1. CASE PollDue(only) \/ TestMapping(only) \/ OpenFails(only) \/ Map(only) \/ Verify(only)
           \/ Unmap(only)
    <2>1. CASE PollDue(only)
        BY <2>1 DEF PollDue
    <2>2. CASE TestMapping(only)
        BY <2>2 DEF TestMapping
    <2>3. CASE OpenFails(only)
        BY <2>3 DEF OpenFails
    <2>4. CASE Map(only)
        BY <2>4 DEF Map
    <2>5. CASE Verify(only)
        BY <2>5 DEF Verify
    <2>6. CASE Unmap(only)
        BY <2>6 DEF Unmap
    <2>7. QED
        BY <1>1, <2>1, <2>2, <2>3, <2>4, <2>5, <2>6
<1>2. CASE set_output(only) \/ set_input(only)
    BY <1>2 DEF set_output, set_input, ReadRegister, WriteRegister, Access
<1>3. CASE DriveHigh(only) \/ DriveLow(only) \/ Respond(only)
    <2>1. CASE DriveHigh(only) \/ DriveLow(only)
        BY <2>1 DEF DriveHigh, DriveLow, Access
    <2>2. CASE Respond(only)
        BY <2>2 DEF Respond, Access
    <2>3. QED
        BY <1>3, <2>1, <2>2
<1>4. CASE Frame(only) \/ Timeout(only) \/ Damaged(only) \/ Lost(only)
    BY <1>4 DEF Frame, Timeout, Damaged, Lost, Access, End, Receive
<1>5. CASE Restore(only) \/ Retry(only) \/ Report(only) \/ Fault(only) \/ Close(only)
    <2>1. CASE Restore(only)
        BY <2>1 DEF Restore
    <2>2. CASE Retry(only)
        BY <2>2 DEF Retry
    <2>3. CASE Report(only)
        BY <2>3 DEF Report
    <2>4. CASE Fault(only)
        BY <2>4 DEF Fault
    <2>5. CASE Close(only)
        BY <2>5 DEF Close
    <2>6. QED
        BY <1>5, <2>1, <2>2, <2>3, <2>4, <2>5
<1>6. CASE UNCHANGED vars
    BY <1>6 DEF vars
<1>7. QED
    BY <1>1, <1>2, <1>3, <1>4, <1>5, <1>6 DEF Next, Step

\* A sensor that is alone only uses the registers through a mapping that succeeded
\* (pi_2_mmio_init).
THEOREM AloneMapsWell ==
    ASSUME NEW only \in Sensors, Sensors = {only} PROVE Spec => []MappingGood
<1>1. Init => MappingGood /\ MappingKnown
    BY DEF Init, MappingGood, MappingKnown, Accesses
<1>2. IInv /\ MappingGood /\ MappingKnown /\ [Next]_vars => MappingGood' /\ MappingKnown'
    BY MappingStep DEF IInv
<1>3. QED
    BY <1>1, <1>2, Invariance, PTL DEF Spec
===============================================================================
