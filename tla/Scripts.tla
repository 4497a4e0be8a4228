------------------------------ MODULE Scripts ------------------------------
(***************************************************************************)
(* The stored scripts of the pigpio daemon: the calls that store, run,     *)
(* stop and delete them, made by the threads of its clients; the thread of *)
(* each script; and the alert thread, which wakes the scripts that wait.   *)
(* What single instructions compute is left out: here a script is          *)
(* a sequence of operations, jumps to the start, waits for the script's    *)
(* GPIO or event, halts, and pops of an empty stack.                       *)
(***************************************************************************)
EXTENDS Naturals, Sequences

CONSTANTS
    Slots,          \* the entries of gpioScript
    Clients,        \* the threads that make calls
    Programs,       \* the scripts that are stored
    Calls,          \* of each client: the calls it makes: "store", "run", "stop", "delete"
    MaxCalls        \* of each client: how many it makes

ASSUME ScriptsAssumption ==
    /\ Calls \in [Clients -> SUBSET {"store", "run", "stop", "delete"}]
    /\ MaxCalls \in [Clients -> Nat]
    /\ \A p \in Programs : Len(p) > 0

VARIABLES
    state,          \* "free", "reserved", "in use", "dying"
    request,        \* "halt" or "run"
    runState,       \* run_state: "initing", "halted", "running", "waiting", "failed"
    mutex,          \* pthMutex: "free", held by the script's "thread", or left "dead"
    condition,      \* whether the condition was signalled since the thread waits for it
    waitBits,       \* whether the script waits for its GPIO, ...
    eventBits,      \* ... and whether for its event
    scriptBits,     \* the scripts the alert thread sees waiting for their GPIO, ...
    scriptEventBits,\* ... and for their event
    bits,           \* what the script's intScriptBits has computed
    program,        \* the instructions
    par,            \* the parameters' memory: "null" or "live"
    pth,            \* what pthIdp points to: "null", "live", "freed"
    at, PC,         \* the program point and the counter of the script's thread
    cancelled,      \* whether pthread_cancel was called for it
    call,           \* of each client: its call, the slot, its program point
    calls,          \* how many calls it has made
    alert,          \* what the alert thread is looking at
    fault           \* whether freed or null memory was used

script == <<state, request, runState, mutex, condition, waitBits, eventBits, program, par, pth>>
waiters == <<scriptBits, scriptEventBits, bits>>
thread == <<at, PC, cancelled>>
clients == <<call, calls>>
scriptVars == <<script, waiters, thread, clients, alert, fault>>

NoCall == [op |-> "none", slot |-> "none", at |-> "idle"]
NoAlert == [kind |-> "none", slot |-> "none", at |-> "idle"]

ScriptInit ==
    /\ state = [s \in Slots |-> "free"] /\ request = [s \in Slots |-> "halt"]
    /\ runState = [s \in Slots |-> "initing"] /\ mutex = [s \in Slots |-> "free"]
    /\ condition = [s \in Slots |-> FALSE]
    /\ waitBits = [s \in Slots |-> FALSE] /\ eventBits = [s \in Slots |-> FALSE]
    /\ scriptBits = {} /\ scriptEventBits = {} /\ bits = [s \in Slots |-> {}]
    /\ program = [s \in Slots |-> <<>>]
    /\ par = [s \in Slots |-> "null"] /\ pth = [s \in Slots |-> "null"]
    /\ at = [s \in Slots |-> "none"] /\ PC = [s \in Slots |-> 1]
    /\ cancelled = [s \in Slots |-> FALSE]
    /\ call = [c \in Clients |-> NoCall] /\ calls = [c \in Clients |-> 0]
    /\ alert = NoAlert /\ fault = FALSE

Waiting(s) == at[s] \in {"cond", "cond gpio", "cond event"}

\* pthread_cond_signal: lost when the thread does not wait.
Signal(s) == condition' = [condition EXCEPT ![s] = @ \/ Waiting(s)]

-----------------------------------------------------------------------------
(* pthScript.                                                              *)

MoveTo(s, p) == at' = [at EXCEPT ![s] = p]

\* The thread waits without looking at the request.
Halt(s) ==
    /\ at[s] = "lock" /\ mutex[s] = "free"
    /\ runState' = [runState EXCEPT ![s] = "halted"]
    /\ condition' = [condition EXCEPT ![s] = FALSE]
    /\ MoveTo(s, "cond")
    /\ UNCHANGED <<state, request, mutex, waitBits, eventBits, program, par, pth, waiters,
                   PC, cancelled, clients, alert, fault>>

\* A thread that is cancelled while it waits takes the mutex and never gives it back.
Die(s) ==
    /\ Waiting(s) /\ cancelled[s] /\ mutex[s] = "free"
    /\ mutex' = [mutex EXCEPT ![s] = "dead"]
    /\ MoveTo(s, "dead")
    /\ UNCHANGED <<state, request, runState, condition, waitBits, eventBits, program, par,
                   pth, waiters, PC, cancelled, clients, alert, fault>>

Woken(s) ==
    /\ at[s] = "cond" /\ condition[s] /\ ~cancelled[s] /\ mutex[s] = "free"
    /\ MoveTo(s, "start")
    /\ UNCHANGED <<script, waiters, PC, cancelled, clients, alert, fault>>

StartScript(s) ==
    /\ at[s] = "start"
    /\ runState' = [runState EXCEPT ![s] = "running"]
    /\ PC' = [PC EXCEPT ![s] = 1]
    /\ MoveTo(s, "loop")
    /\ UNCHANGED <<state, request, mutex, condition, waitBits, eventBits, program, par, pth,
                   waiters, cancelled, clients, alert, fault>>

Instruction(s) == program[s][PC[s]]

\* The end of an instruction: a counter beyond the last one halts the script, whatever
\* its state was.
Counted(s, pc, st) ==
    /\ PC' = [PC EXCEPT ![s] = pc]
    /\ runState' = [runState EXCEPT ![s] = IF pc > Len(program[s]) THEN "halted" ELSE st]
    /\ MoveTo(s, "loop")

Execute(s) ==
    /\ at[s] = "loop" /\ request[s] = "run" /\ runState[s] = "running"
    /\ \/ Instruction(s) = "op" /\ Counted(s, PC[s] + 1, "running")
       \/ Instruction(s) = "jump" /\ Counted(s, 1, "running")
       \/ Instruction(s) = "halt" /\ Counted(s, PC[s], "halted")
       \/ Instruction(s) = "pop" /\ Counted(s, PC[s] + 1, "failed")
       \/ /\ Instruction(s) \in {"wait", "event"}
          /\ MoveTo(s, "wait") /\ UNCHANGED <<PC, runState>>
    /\ UNCHANGED <<state, request, mutex, condition, waitBits, eventBits, program, par, pth,
                   waiters, cancelled, clients, alert, fault>>

Leave(s) ==
    /\ at[s] = "loop" /\ (request[s] # "run" \/ runState[s] # "running")
    /\ runState' = IF request[s] = "halt" THEN [runState EXCEPT ![s] = "halted"] ELSE runState
    /\ MoveTo(s, "lock")
    /\ UNCHANGED <<state, request, mutex, condition, waitBits, eventBits, program, par, pth,
                   waiters, PC, cancelled, clients, alert, fault>>

\* scrWait and scrEvtWait: with a request to run the script counts itself among the
\* waiting ones; otherwise it goes on at once.
WaitLock(s) ==
    /\ at[s] = "wait" /\ mutex[s] = "free"
    /\ IF request[s] = "run"
       THEN /\ mutex' = [mutex EXCEPT ![s] = "thread"]
            /\ runState' = [runState EXCEPT ![s] = "waiting"]
            /\ IF Instruction(s) = "wait"
               THEN waitBits' = [waitBits EXCEPT ![s] = TRUE] /\ UNCHANGED eventBits
               ELSE eventBits' = [eventBits EXCEPT ![s] = TRUE] /\ UNCHANGED waitBits
            /\ MoveTo(s, "bits") /\ UNCHANGED PC
       ELSE /\ Counted(s, PC[s] + 1, "running")
            /\ UNCHANGED <<mutex, waitBits, eventBits>>
    /\ UNCHANGED <<state, request, condition, program, par, pth, waiters, cancelled,
                   clients, alert, fault>>

\* intScriptBits or intScriptEventBits: the union over the scripts in use, ...
ComputeBits(s) ==
    /\ at[s] \in {"bits", "bits after"}
    /\ bits' = [bits EXCEPT ![s] =
                   {t \in Slots : state[t] = "in use" /\
                       (IF Instruction(s) = "wait" THEN waitBits[t] ELSE eventBits[t])}]
    /\ MoveTo(s, IF at[s] = "bits" THEN "store" ELSE "store after")
    /\ UNCHANGED <<script, scriptBits, scriptEventBits, PC, cancelled, clients, alert, fault>>

\* ... and its store; then the thread waits, or goes on with the next instruction.
StoreBits(s) ==
    /\ at[s] \in {"store", "store after"}
    /\ IF Instruction(s) = "wait"
       THEN scriptBits' = bits[s] /\ UNCHANGED scriptEventBits
       ELSE scriptEventBits' = bits[s] /\ UNCHANGED scriptBits
    /\ mutex' = [mutex EXCEPT ![s] = "free"]
    /\ IF at[s] = "store"
       THEN /\ condition' = [condition EXCEPT ![s] = FALSE]
            /\ MoveTo(s, IF Instruction(s) = "wait" THEN "cond gpio" ELSE "cond event")
            /\ UNCHANGED <<PC, runState>>
       ELSE Counted(s, PC[s] + 1, "running") /\ UNCHANGED condition
    /\ UNCHANGED <<state, request, waitBits, eventBits, program, par, pth, bits, cancelled,
                   clients, alert, fault>>

\* Both waits clear the bits of the GPIO wait; those of the event wait stay.
WaitEnds(s) ==
    /\ at[s] \in {"cond gpio", "cond event"} /\ condition[s] /\ ~cancelled[s]
    /\ mutex[s] = "free"
    /\ mutex' = [mutex EXCEPT ![s] = "thread"]
    /\ waitBits' = [waitBits EXCEPT ![s] = FALSE]
    /\ MoveTo(s, "bits after")
    /\ UNCHANGED <<state, request, runState, condition, eventBits, program, par, pth, waiters,
                   PC, cancelled, clients, alert, fault>>

Thread(s) ==
    \/ Halt(s) \/ Die(s) \/ Woken(s) \/ StartScript(s) \/ Execute(s) \/ Leave(s)
    \/ WaitLock(s) \/ ComputeBits(s) \/ StoreBits(s) \/ WaitEnds(s)

-----------------------------------------------------------------------------
(* The alert thread: a GPIO changed, or an event happened.                 *)

Happens(kind, s) ==
    /\ alert.at = "idle"
    /\ s \in (IF kind = "gpio" THEN scriptBits ELSE scriptEventBits)
    /\ alert' = [kind |-> kind, slot |-> s, at |-> "look"]
    /\ UNCHANGED <<script, waiters, thread, clients, fault>>

\* The first look takes no lock.
AlertLooks ==
    /\ alert.at = "look"
    /\ LET s == alert.slot
           b == IF alert.kind = "gpio" THEN waitBits[s] ELSE eventBits[s]
       IN alert' = IF state[s] = "in use" /\ runState[s] = "waiting" /\ b
                   THEN [alert EXCEPT !.at = "signal"] ELSE NoAlert
    /\ UNCHANGED <<script, waiters, thread, clients, fault>>

AlertSignals ==
    /\ alert.at = "signal" /\ mutex[alert.slot] = "free"
    /\ IF runState[alert.slot] = "waiting" THEN Signal(alert.slot) ELSE UNCHANGED condition
    /\ alert' = NoAlert
    /\ UNCHANGED <<state, request, runState, mutex, waitBits, eventBits, program, par, pth,
                   waiters, thread, clients, fault>>

-----------------------------------------------------------------------------
(* The calls of the clients.                                               *)

Begin(c, op, s) ==
    /\ call[c] = NoCall /\ calls[c] < MaxCalls[c] /\ op \in Calls[c]
    /\ calls' = [calls EXCEPT ![c] = @ + 1]
    /\ call' = [call EXCEPT ![c] =
                   [op |-> op, slot |-> s, at |-> IF op = "store" THEN "reserve" ELSE "check"]]
    /\ UNCHANGED <<script, waiters, thread, alert, fault>>

Doing(c, op, p) == call[c].op = op /\ call[c].at = p
Then(c, p) == call' = [call EXCEPT ![c].at = p]
Return(c) == call' = [call EXCEPT ![c] = NoCall]

\* gpioStoreScript: the first free slot.
Reserve(c) ==
    /\ Doing(c, "store", "reserve")
    /\ \/ \E s \in Slots :
             /\ state[s] = "free" /\ \A t \in Slots : t < s => state[t] # "free"
             /\ state' = [state EXCEPT ![s] = "reserved"]
             /\ call' = [call EXCEPT ![c].slot = s, ![c].at = "parse"]
       \/ (\A s \in Slots : state[s] # "free") /\ Return(c) /\ UNCHANGED state
    /\ UNCHANGED <<request, runState, mutex, condition, waitBits, eventBits, program, par, pth,
                   waiters, thread, calls, alert, fault>>

\* The bits of the script that had the slot before are not cleared.
Parse(c) ==
    /\ Doing(c, "store", "parse")
    /\ LET s == call[c].slot IN
       \/ \E p \in Programs :
             /\ program' = [program EXCEPT ![s] = p]
             /\ par' = [par EXCEPT ![s] = "live"]
             /\ request' = [request EXCEPT ![s] = "halt"]
             /\ runState' = [runState EXCEPT ![s] = "initing"]
             /\ mutex' = [mutex EXCEPT ![s] = "free"]
             /\ state' = [state EXCEPT ![s] = "in use"]
             /\ Then(c, "create")
       \/ /\ state' = [state EXCEPT ![s] = "free"] /\ Return(c)
          /\ UNCHANGED <<program, par, request, runState, mutex>>
    /\ UNCHANGED <<condition, waitBits, eventBits, pth, waiters, thread, calls, alert,
                   fault>>

\* A thread of an earlier script that is still there makes a second one in the slot.
Create(c) ==
    /\ Doing(c, "store", "create")
    /\ LET s == call[c].slot IN
       IF at[s] \in {"none", "dead"}
       THEN /\ MoveTo(s, "lock") /\ cancelled' = [cancelled EXCEPT ![s] = FALSE]
            /\ UNCHANGED fault
       ELSE fault' = TRUE /\ UNCHANGED <<at, cancelled>>
    /\ Then(c, "assign")
    /\ UNCHANGED <<script, waiters, PC, calls, alert>>

\* Mutant: the thread's identifier is not kept.
AssignForgotten(c) ==
    /\ Doing(c, "store", "assign")
    /\ Return(c)
    /\ UNCHANGED <<script, waiters, thread, calls, alert, fault>>

\* gpioStartThread returns after the thread was created.
Assign(c) ==
    /\ Doing(c, "store", "assign")
    /\ pth' = [pth EXCEPT ![call[c].slot] = "live"]
    /\ Return(c)
    /\ UNCHANGED <<state, request, runState, mutex, condition, waitBits, eventBits, program,
                   par, waiters, thread, calls, alert, fault>>

\* gpioRunScript, gpioStopScript and gpioDeleteScript look at the state without a lock.
Check(c) ==
    /\ call[c].op # "store" /\ call[c].at = "check"
    /\ IF state[call[c].slot] # "in use" THEN Return(c)
       ELSE Then(c, IF call[c].op = "delete" THEN "dying" ELSE "lock")
    /\ UNCHANGED <<script, waiters, thread, calls, alert, fault>>

Run(c) ==
    /\ Doing(c, "run", "lock") /\ mutex[call[c].slot] = "free"
    /\ LET s == call[c].slot IN
       IF runState[s] # "initing"
       THEN /\ request' = [request EXCEPT ![s] = "run"]
            /\ Signal(s)
            /\ fault' = (par[s] = "null")
       ELSE UNCHANGED <<request, condition, fault>>
    /\ Return(c)
    /\ UNCHANGED <<state, runState, mutex, waitBits, eventBits, program, par, pth,
                   waiters, thread, calls, alert>>

\* Mutant: the request of a script that is deleted is left alone.
AskNothing(c) ==
    /\ Doing(c, "delete", "halt") /\ mutex[call[c].slot] = "free"
    /\ Then(c, "poll")
    /\ UNCHANGED <<script, waiters, thread, calls, alert, fault>>

\* The request to halt, and a signal if the script waits.
AskHalt(c, op, p) ==
    /\ Doing(c, op, p) /\ mutex[call[c].slot] = "free"
    /\ LET s == call[c].slot IN
       /\ request' = [request EXCEPT ![s] = "halt"]
       /\ IF runState[s] = "waiting" THEN Signal(s) ELSE UNCHANGED condition
    /\ UNCHANGED <<state, runState, mutex, waitBits, eventBits, program, par, pth,
                   waiters, thread, calls, alert, fault>>

Stop(c) == AskHalt(c, "stop", "lock") /\ Return(c)

SetDying(c) ==
    /\ Doing(c, "delete", "dying")
    /\ state' = [state EXCEPT ![call[c].slot] = "dying"]
    /\ Then(c, "halt")
    /\ UNCHANGED <<request, runState, mutex, condition, waitBits, eventBits, program, par, pth,
                   waiters, thread, calls, alert, fault>>

DeleteHalts(c) == AskHalt(c, "delete", "halt") /\ Then(c, "poll")

\* Every 5 ms, until the script does not run.
Poll(c) ==
    /\ Doing(c, "delete", "poll") /\ runState[call[c].slot] # "running"
    /\ Then(c, "cancel")
    /\ UNCHANGED <<script, waiters, thread, calls, alert, fault>>

\* gpioStopThread: cancel, ...
Cancel(c) ==
    /\ Doing(c, "delete", "cancel")
    /\ LET s == call[c].slot IN
       /\ fault' = (pth[s] = "freed")
       /\ cancelled' = IF pth[s] = "live" THEN [cancelled EXCEPT ![s] = TRUE] ELSE cancelled
       /\ Then(c, IF pth[s] = "null" THEN "release" ELSE "join")
    /\ UNCHANGED <<script, waiters, at, PC, calls, alert>>

\* ... join and free.
Join(c) ==
    /\ Doing(c, "delete", "join")
    /\ LET s == call[c].slot IN
       /\ at[s] = "dead" \/ pth[s] = "freed"
       /\ fault' = (pth[s] = "freed")
       /\ pth' = [pth EXCEPT ![s] = "freed"]
    /\ Then(c, "release")
    /\ UNCHANGED <<state, request, runState, mutex, condition, waitBits, eventBits, program,
                   par, waiters, thread, calls, alert>>

FreeSlot(c) ==
    /\ Doing(c, "delete", "release")
    /\ LET s == call[c].slot IN
       /\ state' = [state EXCEPT ![s] = "free"] /\ par' = [par EXCEPT ![s] = "null"]
    /\ Return(c)
    /\ UNCHANGED <<request, runState, mutex, condition, waitBits, eventBits, program, pth,
                   waiters, thread, calls, alert, fault>>

Client(c) ==
    \/ Reserve(c) \/ Parse(c) \/ Create(c) \/ Assign(c) \/ Check(c) \/ Run(c) \/ Stop(c)
    \/ SetDying(c) \/ DeleteHalts(c) \/ Poll(c) \/ Cancel(c) \/ Join(c) \/ FreeSlot(c)

-----------------------------------------------------------------------------

Alert == AlertLooks \/ AlertSignals

ScriptNext ==
    /\ ~fault
    /\ \/ \E s \in Slots : Thread(s) \/ \E kind \in {"gpio", "event"} : Happens(kind, s)
       \/ Alert
       \/ \E c \in Clients :
             \/ Client(c)
             \/ \E op \in {"run", "stop", "delete"}, s \in Slots : Begin(c, op, s)
             \/ Begin(c, "store", "none")

ScriptSpec == ScriptInit /\ [][ScriptNext]_scriptVars

\* Threads go on, a mutex that is free again and again is got, and every GPIO and event
\* that a script waits for changes again and again.
ScriptLiveSpec ==
    /\ ScriptSpec
    /\ \A s \in Slots : SF_scriptVars(~fault /\ Thread(s)) /\ SF_scriptVars(~fault /\ Happens("gpio", s))
    /\ SF_scriptVars(~fault /\ Alert)
    /\ \A c \in Clients : SF_scriptVars(~fault /\ Client(c))

-----------------------------------------------------------------------------

\* Every variable has its type.
ScriptTypeOK ==
    /\ state \in [Slots -> {"free", "reserved", "in use", "dying"}]
    /\ request \in [Slots -> {"halt", "run"}]
    /\ runState \in [Slots -> {"initing", "halted", "running", "waiting", "failed"}]
    /\ mutex \in [Slots -> {"free", "thread", "dead"}]
    /\ {condition, waitBits, eventBits, cancelled} \subseteq [Slots -> BOOLEAN]
    /\ {scriptBits, scriptEventBits} \subseteq SUBSET Slots
    /\ bits \in [Slots -> SUBSET Slots]
    /\ \A s \in Slots : program[s] \in Programs \cup {<<>>} /\ PC[s] \in 1 .. Len(program[s]) + 1
    /\ par \in [Slots -> {"null", "live"}] /\ pth \in [Slots -> {"null", "live", "freed"}]
    /\ \A c \in Clients : calls[c] \in 0..MaxCalls[c]
    /\ fault \in BOOLEAN

\* No freed or null memory is used and no slot has two threads, when one client makes all
\* the calls but that others stop scripts, and look at one whose state changes before they
\* act: a stop "returns 0 if OK, otherwise PI_BAD_SCRIPT_ID" (pigpio.h:3738).  It is no more
\* than that: two clients that both run, delete or store one script do use freed memory.
NoFault == ~fault

\* A free slot has neither a thread nor parameters (gpioDeleteScript).
FreeIsEmpty ==
    \A s \in Slots : state[s] = "free" => at[s] \in {"none", "dead"} /\ par[s] = "null"

\* Every call returns, gpioDeleteScript with its loop and its join as well; but a stop that
\* found a script in use may come to the mutex which the script's thread died with.
CallsReturn ==
    \A c \in Clients :
        call[c] # NoCall ~>
            \/ call[c] = NoCall \/ fault
            \/ call[c].op = "stop" /\ mutex[call[c].slot] = "dead"

=============================================================================
