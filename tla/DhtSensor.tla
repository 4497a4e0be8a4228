----------------------------- MODULE DhtSensor -----------------------------
(***************************************************************************)
(* The polls of the TemperatureSensor devices: readSensor (TempDriver.cpp) *)
(* repeats pi_2_dht_read until it succeeds.  Each poll has a thread of the *)
(* device pool, all of them share the mapping of the GPIO registers, and   *)
(* ten pins share a register of functions, which set_input and set_output  *)
(* read, change and write back: a thread may bring another sensor's pin    *)
(* back to what it was before.  What becomes of the pulses of a frame is   *)
(* in DhtDecode.                                                           *)
(***************************************************************************)
EXTENDS DhtDecode

CONSTANTS
    Sensors,        \* the devices that are polled
    PinOf,          \* the pin of each, its BCM number
    Absent,         \* the pins with no sensor on them
    MaxFailures,    \* how often opening or mapping the registers may fail
    MaxNoise        \* how many frames may be lost or damaged on the wire

ASSUME DhtAssumption ==
    /\ PinOf \in [Sensors -> 0..53] /\ Absent \subseteq 0..53
    /\ MaxFailures \in Nat /\ MaxNoise \in Nat

\* A third thread could undo in the middle of a frame what a second one has done to the
\* pin; such frames are not modelled.
ASSUME TwoShareAssumption ==
    \A s, t, u \in Sensors :
        PinOf[s] \div 10 = PinOf[t] \div 10 /\ PinOf[t] \div 10 = PinOf[u] \div 10
            => s = t \/ t = u \/ s = u

VARIABLES
    mapping,        \* pi_2_mmio_gpio: "null", "failed" (MAP_FAILED) or "mapped"
    fsel,           \* the function of each pin: "in" or "out"
    copy,           \* the register as a thread last read it
    started,        \* the pins whose sensor has seen the start signal
    priority,       \* the scheduling of each poll's thread: "default" or "max"
    at,             \* the program point of each poll
    result,         \* what the last pi_2_dht_read of each returned
    reading,        \* what it found, with what was sent, until it is reported
    closed,         \* the devices whose close has cancelled the poll
    failures,       \* how often the registers could not be had
    noise           \* how many frames were damaged

vars == <<mapping, fsel, copy, started, priority, at, result, reading, closed, failures, noise>>

NoReading == [sent |-> <<>>, data |-> <<>>]
Pins == {PinOf[s] : s \in Sensors}
Registers == [Pins -> {"in", "out"}]

\* The program points at which a thread is about to use the registers.
Accesses == {"clear", "clear write", "output", "output write", "high", "low",
             "input", "input write", "response", "frame"}
Results == {"none", "success", "gpio", "no answer", "stuck low", "stuck high", "checksum"}
Points == {"idle", "init", "open", "verify", "unmap", "restore", "return", "report",
           "fault"} \cup Accesses

Init ==
    /\ mapping = "null"
    /\ fsel = [p \in Pins |-> "in"]
    /\ copy = [s \in Sensors |-> fsel]
    /\ started = {}
    /\ priority = [s \in Sensors |-> "default"]
    /\ at = [s \in Sensors |-> "idle"]
    /\ result = [s \in Sensors |-> "none"]
    /\ reading = [s \in Sensors |-> NoReading]
    /\ closed = {} /\ failures = 0 /\ noise = 0

Goto(s, p) == at' = [at EXCEPT ![s] = p]

\* The function register a pin is in: pi_2_mmio_gpio + gpio_number / 10.
Register(p) == p \div 10

-----------------------------------------------------------------------------
(* pi_2_mmio_init, called at the start of every attempt.                   *)

PollDue(s) ==
    /\ at[s] = "idle" /\ s \notin closed
    /\ Goto(s, "init")
    /\ UNCHANGED <<mapping, fsel, copy, started, priority, result, reading, closed, failures, noise>>

TestMapping(s) ==
    /\ at[s] = "init"
    /\ Goto(s, IF mapping = "null" THEN "open" ELSE "clear")
    /\ UNCHANGED <<mapping, fsel, copy, started, priority, result, reading, closed, failures, noise>>

\* The device tree or /dev/gpiomem cannot be opened or read.
OpenFails(s) ==
    /\ at[s] = "open" /\ failures < MaxFailures
    /\ failures' = failures + 1
    /\ result' = [result EXCEPT ![s] = "gpio"]
    /\ Goto(s, "return")
    /\ UNCHANGED <<mapping, fsel, copy, started, priority, reading, closed, noise>>

\* The result goes to the shared pointer before it is looked at.
Map(s) ==
    /\ at[s] = "open"
    /\ \/ mapping' = "mapped" /\ UNCHANGED failures
       \/ failures < MaxFailures /\ failures' = failures + 1 /\ mapping' = "failed"
    /\ Goto(s, "verify")
    /\ UNCHANGED <<fsel, copy, started, priority, result, reading, closed, noise>>

Verify(s) ==
    /\ at[s] = "verify"
    /\ Goto(s, IF mapping = "failed" THEN "unmap" ELSE "clear")
    /\ UNCHANGED <<mapping, fsel, copy, started, priority, result, reading, closed, failures, noise>>

\* "Don't save the result": the pointer is null again, whoever stored it.
Unmap(s) ==
    /\ at[s] = "unmap"
    /\ mapping' = "null"
    /\ result' = [result EXCEPT ![s] = "gpio"]
    /\ Goto(s, "return")
    /\ UNCHANGED <<fsel, copy, started, priority, reading, closed, failures, noise>>

-----------------------------------------------------------------------------
(* One attempt.  An access through a pointer that is not the mapping ends  *)
(* the process.                                                            *)

Fault(s) ==
    /\ at[s] \in Accesses /\ mapping # "mapped"
    /\ Goto(s, "fault")
    /\ UNCHANGED <<mapping, fsel, copy, started, priority, result, reading, closed, failures, noise>>

Access(s, p) == at[s] = p /\ mapping = "mapped"

\* *register &= or |= : the read, ...
ReadRegister(s, p, next) ==
    /\ Access(s, p)
    /\ copy' = [copy EXCEPT ![s] = fsel]
    /\ Goto(s, next)
    /\ UNCHANGED <<mapping, fsel, started, priority, result, reading, closed, failures, noise>>

\* ... and the write, which brings every pin of the register back to what it was.
WriteRegister(s, p, function, next) ==
    /\ Access(s, p)
    /\ fsel' = [q \in Pins |->
                   IF q = PinOf[s] THEN function
                   ELSE IF Register(q) = Register(PinOf[s]) THEN copy[s][q]
                   ELSE fsel[q]]
    /\ Goto(s, next)
    /\ UNCHANGED <<mapping, copy, started, priority, result, reading, closed, failures, noise>>

set_output(s) ==
    \/ ReadRegister(s, "clear", "clear write")
    \/ WriteRegister(s, "clear write", "in", "output")
    \/ ReadRegister(s, "output", "output write")
    \/ WriteRegister(s, "output write", "out", "high")

\* set_max_priority, and the pin is high for 500 ms.
DriveHigh(s) ==
    /\ Access(s, "high")
    /\ priority' = [priority EXCEPT ![s] = "max"]
    /\ Goto(s, "low")
    /\ UNCHANGED <<mapping, fsel, copy, started, result, reading, closed, failures, noise>>

\* The sensor sees the 20 ms of low if the pin is an output.
DriveLow(s) ==
    /\ Access(s, "low")
    /\ started' = IF fsel[PinOf[s]] = "out" THEN started \cup {PinOf[s]} ELSE started
    /\ Goto(s, "input")
    /\ UNCHANGED <<mapping, fsel, copy, priority, result, reading, closed, failures, noise>>

set_input(s) ==
    \/ ReadRegister(s, "input", "input write")
    \/ WriteRegister(s, "input write", "in", "response")

Answering(s) ==
    fsel[PinOf[s]] = "in" /\ PinOf[s] \in started /\ PinOf[s] \notin Absent

\* A pin that has become an output again is as low as an answer.
Respond(s) ==
    /\ Access(s, "response")
    /\ Answering(s) \/ fsel[PinOf[s]] = "out"
    /\ Goto(s, "frame")
    /\ UNCHANGED <<mapping, fsel, copy, started, priority, result, reading, closed, failures, noise>>

End(s, r) ==
    /\ result' = [result EXCEPT ![s] = r]
    /\ started' = started \ {PinOf[s]}
    /\ Goto(s, "restore")
    /\ UNCHANGED <<mapping, fsel, copy, priority, closed, failures>>

\* Forty-one pulses have arrived: the bytes are handed out if the checksum fits.
Receive(s, arrival) ==
    IF Accepts(arrival.data)
    THEN End(s, "success") /\ reading' = [reading EXCEPT ![s] = arrival]
    ELSE End(s, "checksum") /\ UNCHANGED reading

Frame(s) ==
    /\ Access(s, "frame") /\ Answering(s)
    /\ \E arrival \in SlightArrivals : Receive(s, arrival)
    /\ UNCHANGED noise

\* A level that does not change is counted up to DHT_MAXCOUNT: nobody answers, an
\* output stays low, and an input that nobody drives stays high.
Timeout(s) ==
    /\ ~Answering(s)
    /\ \/ Access(s, "response") /\ fsel[PinOf[s]] = "in" /\ End(s, "no answer")
       \/ Access(s, "frame") /\ End(s, IF fsel[PinOf[s]] = "out" THEN "stuck low" ELSE "stuck high")
    /\ UNCHANGED <<reading, noise>>

\* A pulse is damaged on the wire, ...
Damaged(s) ==
    /\ Access(s, "frame") /\ Answering(s) /\ noise < MaxNoise
    /\ noise' = noise + 1
    /\ \E arrival \in GrossArrivals : Receive(s, arrival)

\* ... or lost.
Lost(s) ==
    /\ noise < MaxNoise
    /\ noise' = noise + 1
    /\ \/ Access(s, "response") /\ End(s, "no answer")
       \/ Access(s, "frame") /\ (End(s, "stuck low") \/ End(s, "stuck high"))
    /\ UNCHANGED reading

\* Mutant: one of the three timeouts returns without set_default_priority.
RestoreButStuckHigh(s) ==
    /\ at[s] = "restore"
    /\ priority' = IF result[s] = "stuck high" THEN priority
                   ELSE [priority EXCEPT ![s] = "default"]
    /\ Goto(s, "return")
    /\ UNCHANGED <<mapping, fsel, copy, started, result, reading, closed, failures, noise>>

Restore(s) ==
    /\ at[s] = "restore"
    /\ priority' = [priority EXCEPT ![s] = "default"]
    /\ Goto(s, "return")
    /\ UNCHANGED <<mapping, fsel, copy, started, result, reading, closed, failures, noise>>

\* Mutant: the pin is set to output before the first attempt only.
RetryFromHigh(s) ==
    /\ at[s] = "return"
    /\ Goto(s, CASE result[s] = "success" -> "report" [] result[s] = "gpio" -> "init"
                 [] OTHER -> "high")
    /\ UNCHANGED <<mapping, fsel, copy, started, priority, result, reading, closed, failures, noise>>

\* while(pi_2_dht_read(...) != 0)
Retry(s) ==
    /\ at[s] = "return"
    /\ Goto(s, IF result[s] = "success" THEN "report" ELSE "init")
    /\ UNCHANGED <<mapping, fsel, copy, started, priority, result, reading, closed, failures, noise>>

\* The task's run reports the reading, and the thread goes back to the pool.
Report(s) ==
    /\ at[s] = "report"
    /\ Goto(s, "idle")
    /\ reading' = [reading EXCEPT ![s] = NoReading]
    /\ UNCHANGED <<mapping, fsel, copy, started, priority, result, closed, failures, noise>>

\* close cancels the poll without an interrupt; tearDown throws at its first line.
Close(s) ==
    /\ s \notin closed
    /\ closed' = closed \cup {s}
    /\ UNCHANGED <<mapping, fsel, copy, started, priority, at, result, reading, failures, noise>>

-----------------------------------------------------------------------------

Step(s) ==
    \/ TestMapping(s) \/ OpenFails(s) \/ Map(s) \/ Verify(s) \/ Unmap(s)
    \/ set_output(s) \/ DriveHigh(s) \/ DriveLow(s) \/ set_input(s)
    \/ Respond(s) \/ Frame(s) \/ Timeout(s) \/ Damaged(s) \/ Lost(s)
    \/ Restore(s) \/ Retry(s) \/ Report(s)

Next ==
    /\ \A s \in Sensors : at[s] # "fault"
    /\ \E s \in Sensors : PollDue(s) \/ Step(s) \/ Fault(s) \/ Close(s)

Spec == Init /\ [][Next]_vars

\* The threads of the pool run.
FairSpec == Spec /\ \A s \in Sensors : WF_vars(PollDue(s)) /\ WF_vars(Step(s))

-----------------------------------------------------------------------------

\* Every variable has its type.
TypeOK ==
    /\ mapping \in {"null", "failed", "mapped"}
    /\ fsel \in Registers /\ copy \in [Sensors -> Registers]
    /\ started \subseteq Pins /\ closed \subseteq Sensors
    /\ priority \in [Sensors -> {"default", "max"}]
    /\ at \in [Sensors -> Points]
    /\ result \in [Sensors -> Results]
    /\ reading \in [Sensors -> SlightArrivals \cup GrossArrivals \cup {NoReading}]
    /\ failures \in 0..MaxFailures /\ noise \in 0..MaxNoise

\* The registers are only used through a mapping that succeeded: "Don't save the
\* result if the memory mapping failed" (pi_2_mmio.c:65).
MappingGood == \A s \in Sensors : at[s] \in Accesses => mapping = "mapped"

\* Only the timed part of an attempt runs at the highest priority: neither the wait
\* for the next attempt nor the pool's next task inherits it (set_default_priority).
BoostIsBounded ==
    \A s \in Sensors : at[s] # "fault" => (priority[s] = "max" <=>
        at[s] \in {"low", "input", "input write", "response", "frame", "restore"})

\* What is reported was read: the loop of readSensor lets nothing else through.
ReportsReading == \A s \in Sensors : at[s] = "report" => result[s] = "success"

\* Whatever another sensor's stale write does to the pin (pi_2_mmio.h:40), and whichever
\* single pulse of a frame is damaged, what is reported is what the sensor sent ("Verify
\* checksum of received data", pi_2_dht_read.c:138), but for one case: a low pulse so
\* long that the mean exceeds every high pulse gives the frame of zeros, whose checksum
\* is right.  (Two damaged pulses of one frame may pass the checksum.)
ReportsSent ==
    \A s \in Sensors : at[s] = "report" => reading[s].data \in {reading[s].sent, Zeros}

\* A disturbance does not outlive the one who causes it: when no other poll is under way
\* any more, a sensor is read again and again, in whatever state the others have left the
\* register of functions, unless the process has died of the mapping.
ReadAgain ==
    \A s \in Sensors :
        <>[](s \notin closed /\ at[s] # "fault" /\ \A t \in Sensors \ {s} : at[t] = "idle")
            => []<>(at[s] = "report")

=============================================================================
