-------------------------------- MODULE Pigpiod --------------------------------
(***************************************************************************)
(* The life of the daemon pigpiod as the LED devices use it: every Led     *)
(* starts one, a request for RESTART kills them all by name and starts     *)
(* another.  Which of several daemons stays is decided by the lock file    *)
(* /var/run/pigpio.pid and by the port.  The model has the steps between   *)
(* which another daemon, a signal or a crash can come.                     *)
(***************************************************************************)
EXTENDS Naturals, FiniteSets

CONSTANTS Daemons,      \* the processes that are started, each once
          Kills, Crashes, \* bounds: pkill pigpiod, and ends without any handler
          None

ASSUME DaemonAssumption ==
  None \notin Daemons /\ Kills \in Nat /\ Crashes \in Nat

VARIABLES
  pc,         \* where each daemon is
  file,       \* the lock file by the daemon that created it (its inode), or None
  written,    \* those that wrote their number into the file they created
  opened,     \* the inode each daemon has open in initCheckLockFile
  port,       \* those whose socket is bound to the port, or whose connections linger there
  signalled,  \* those that have a SIGTERM to handle
  spaced,     \* whether daemons are started one after the other: none while another
              \* one starts or ends; whoever starts them does so or does not
  hindered,   \* those that something other than a daemon is keeping from serving
  kills, crashes

vars == <<pc, file, written, opened, port, signalled, spaced, hindered, kills, crashes>>

\* The daemon has the peripherals and the DMA channels of the machine.
Hardware == {"bind", "initialising", "running", "failed"}
Started == {"check", "read", "unlink", "grab", "write", "handlers", "peripherals",
            "bind", "initialising", "running", "failed", "ending", "closing"}
Alive(d) == pc[d] \in Started
Starting(d) == Alive(d) /\ pc[d] # "running"

Init ==
  /\ pc = [d \in Daemons |-> "none"]
  /\ file = None
  /\ written = {}
  /\ opened = [d \in Daemons |-> None]
  /\ port = {}
  /\ signalled = {}
  /\ spaced \in BOOLEAN
  /\ hindered = {}
  /\ kills = 0 /\ crashes = 0

Goto(d, l) == pc' = [pc EXCEPT ![d] = l]

\* The sockets do not set SO_REUSEADDR: connections that have not quite ended keep
\* the port of a process that has.
Depart(d) ==
  /\ port' \in {port, port \ {d}}
  /\ signalled' = signalled \ {d}
  /\ hindered' = hindered \ {d}

Exit(d) == Goto(d, "exited") /\ Depart(d)

Hinder(d) == hindered' = hindered \cup {d}

Start(d) ==
  /\ pc[d] = "none"
  /\ spaced => \A e \in Daemons : ~Starting(e) /\ e \notin signalled
  /\ Goto(d, "check")
  /\ UNCHANGED <<file, written, opened, port, signalled, hindered, kills, crashes>>

--------------------------------------------------------------------------------
\* initCheckPermitted: only the superuser's daemon goes on.
NotPermitted(d) ==
  /\ pc[d] = "check"
  /\ Goto(d, "refused") /\ Depart(d)
  /\ UNCHANGED <<file, written, opened, kills, crashes>>

(* initCheckLockFile *)

OpenLock(d) ==
  /\ pc[d] = "check"
  /\ opened' = [opened EXCEPT ![d] = file]
  /\ Goto(d, IF file = None THEN "grab" ELSE "read")
  /\ UNCHANGED <<file, written, port, signalled, hindered, kills, crashes>>

\* Mutants: only an empty file is taken for a stale one; every file is.
StaleEmpty(f) == f \notin written
StaleAlways(f) == TRUE

\* A file that is still empty, or whose process is gone, is taken for a stale one.
Stale(f) == f \notin written \/ ~Alive(f)

ReadLock(d) ==
  /\ pc[d] = "read"
  /\ Goto(d, IF Stale(opened[d]) THEN "unlink" ELSE "grab")
  /\ opened' = [opened EXCEPT ![d] = None]
  /\ UNCHANGED <<file, written, port, signalled, hindered, kills, crashes>>

\* The number in a stale file has become that of another process, to which kill(pid, 0)
\* gets through.
NumberReused(d) ==
  /\ pc[d] = "read" /\ opened[d] \in written /\ ~Alive(opened[d])
  /\ Goto(d, "grab") /\ Hinder(d)
  /\ opened' = [opened EXCEPT ![d] = None]
  /\ UNCHANGED <<file, written, port, signalled, kills, crashes>>

\* The name is removed, whichever file has it by now.
UnlinkStale(d) ==
  /\ pc[d] = "unlink"
  /\ file' = None
  /\ Goto(d, "grab")
  /\ UNCHANGED <<written, opened, port, signalled, hindered, kills, crashes>>

(* initGrabLockFile: O_CREAT with O_EXCL; the flock on a file just created succeeds. *)

CreateLock(d) ==
  /\ pc[d] = "grab"
  /\ file = None
  /\ file' = d
  /\ Goto(d, "write")
  /\ UNCHANGED <<written, opened, port, signalled, hindered, kills, crashes>>

\* gpioInitialise fails, releases nothing and the daemon ends (fatal).
LockTaken(d) ==
  /\ pc[d] = "grab"
  /\ file # None
  /\ Exit(d)
  /\ UNCHANGED <<file, written, opened, kills, crashes>>

WriteLock(d) ==
  /\ pc[d] = "write"
  /\ written' = written \cup {d}
  /\ Goto(d, "handlers")
  /\ UNCHANGED <<file, opened, port, signalled, hindered, kills, crashes>>

--------------------------------------------------------------------------------
(* The rest of initInitialise. *)

SetHandlers(d) ==
  /\ pc[d] = "handlers"
  /\ Goto(d, "peripherals")
  /\ UNCHANGED <<file, written, opened, port, signalled, hindered, kills, crashes>>

\* The registers are mapped, DMA memory is allocated and the clock is started.
TakeHardware(d) ==
  /\ pc[d] = "peripherals"
  /\ Goto(d, "bind")
  /\ UNCHANGED <<file, written, opened, port, signalled, hindered, kills, crashes>>

\* The returns of PI_INIT_FAILED: no memory, no peripheral, no thread or no socket.
InitFailed(d) ==
  /\ pc[d] \in {"peripherals", "bind", "initialising"}
  /\ Goto(d, "failed") /\ Hinder(d)
  /\ UNCHANGED <<file, written, opened, port, signalled, kills, crashes>>

\* Mutant: a bind that fails is not seen.
BindUnchecked(d) ==
  /\ pc[d] = "bind"
  /\ port' = port \cup {d} /\ Goto(d, "initialising")
  /\ UNCHANGED <<file, written, opened, signalled, hindered, kills, crashes>>

Bind(d) ==
  /\ pc[d] = "bind"
  /\ IF port = {}
     THEN port' = {d} /\ Goto(d, "initialising")
     ELSE UNCHANGED port /\ Goto(d, "failed")
  /\ hindered' = hindered \cup {e \in {d} : \E l \in port : ~Alive(l)}
  /\ UNCHANGED <<file, written, opened, signalled, kills, crashes>>

Running(d) ==
  /\ pc[d] = "initialising"
  /\ Goto(d, "running")
  /\ UNCHANGED <<file, written, opened, port, signalled, hindered, kills, crashes>>

--------------------------------------------------------------------------------
(* initReleaseResources, after a failed start or from gpioTerminate. *)

\* The lock file's name is removed, whoever created the file that has it.
ReleaseLock(d) ==
  /\ pc[d] \in {"failed", "ending"}
  /\ file' = None
  /\ Goto(d, "closing")
  /\ UNCHANGED <<written, opened, port, signalled, hindered, kills, crashes>>

ReleasePort(d) ==
  /\ pc[d] = "closing"
  /\ Exit(d)
  /\ UNCHANGED <<file, written, opened, kills, crashes>>

--------------------------------------------------------------------------------
(* Signals and crashes. *)

\* Led.restartDemon and a user's killall: every daemon there is, by name.
Pkill ==
  /\ kills < Kills
  /\ kills' = kills + 1
  /\ signalled' = signalled \cup {d \in Daemons : Alive(d)}
  /\ UNCHANGED <<pc, file, written, opened, port, hindered, crashes>>

\* The handler terminates the library if it is initialised (the daemon's handler
\* and the library's own do the same), and is not interrupted by the same signal.
\* Before that gpioTerminate returns at once and the process ends as it is; so it
\* does without a handler.
Sigterm(d) ==
  /\ d \in signalled /\ pc[d] \notin {"ending", "closing"}
  /\ IF pc[d] = "running"
     THEN Goto(d, "ending") /\ signalled' = signalled \ {d} /\ UNCHANGED <<port, hindered>>
     ELSE Exit(d)
  /\ UNCHANGED <<file, written, opened, kills, crashes>>

\* The process ends without its handler: kill -9, or an error of its own.
Crash(d) ==
  /\ crashes < Crashes
  /\ Alive(d)
  /\ crashes' = crashes + 1
  /\ Goto(d, "crashed")
  /\ Depart(d)
  /\ UNCHANGED <<file, written, opened, kills>>

\* The last connections of a daemon that is gone have ended.
LingerEnds ==
  \E d \in port :
    /\ ~Alive(d)
    /\ port' = port \ {d}
    /\ UNCHANGED <<pc, file, written, opened, signalled, hindered, kills, crashes>>

--------------------------------------------------------------------------------
Initialise(d) ==
  \/ NotPermitted(d) \/ OpenLock(d) \/ ReadLock(d) \/ NumberReused(d) \/ UnlinkStale(d)
  \/ CreateLock(d) \/ LockTaken(d) \/ WriteLock(d)
  \/ SetHandlers(d) \/ TakeHardware(d) \/ InitFailed(d) \/ Bind(d) \/ Running(d)

Release(d) == ReleaseLock(d) \/ ReleasePort(d)

Daemon(d) ==
  /\ Initialise(d) \/ Release(d) \/ Sigterm(d)
  /\ UNCHANGED spaced

Next ==
  /\ Pkill \/ LingerEnds \/ \E d \in Daemons : Start(d) \/ Daemon(d) \/ Crash(d)
  /\ UNCHANGED spaced

\* The processes are scheduled; nobody has to start or to kill one.
Spec == Init /\ [][Next]_vars /\ \A d \in Daemons : WF_vars(Daemon(d))

--------------------------------------------------------------------------------
(* Properties. *)

\* The type of the state.
TypeOK ==
  /\ pc \in [Daemons -> Started \cup {"none", "exited", "refused", "crashed"}]
  /\ file \in Daemons \cup {None}
  /\ opened \in [Daemons -> Daemons \cup {None}]
  /\ written \subseteq Daemons
  /\ port \subseteq Daemons /\ hindered \subseteq Daemons
  /\ signalled \subseteq {d \in Daemons : Alive(d)}
  /\ spaced \in BOOLEAN
  /\ kills \in 0..Kills /\ crashes \in 0..Crashes

\* Two daemons never both serve, in whatever order they check, remove and create
\* the lock file, and whatever signals and crashes leave behind: when the file has
\* let two of them through, the port stops one (the bind in initInitialise).
OneServer == \A d, e \in Daemons : pc[d] = "running" /\ pc[e] = "running" => d = e

\* Daemons that are started one after the other never have the DMA channels at the
\* same time, although a killed or crashed one leaves its lock file behind.
OneOwner ==
  spaced => \A d, e \in Daemons : pc[d] \in Hardware /\ pc[e] \in Hardware => d = e

\* Started one after the other, a daemon that runs has the lock file and its number
\* is in it: nobody who comes later takes the file for a stale one.
RunningHasLock ==
  spaced => \A d \in Daemons : pc[d] = "running" => file = d /\ d \in written

\* A daemon that is started while no other is alive comes to serve, unless it is
\* killed or crashes, or something that is no daemon stands in its way: a process that
\* has got the number of a dead one, connections of a dead one that linger at the port,
\* or no memory or thread to be had.  A lock file that was left behind, empty or with a
\* number, does not keep it from it.  A pkill with a start right after it (Led.java:190)
\* is not spaced: the old one need not be gone.
StartServes ==
  \A d \in Daemons :
    (pc[d] = "check" /\ \A e \in Daemons \ {d} : ~Alive(e) /\ spaced)
      ~> (pc[d] \in {"running", "refused", "crashed"} \/ d \in signalled \cup hindered)

================================================================================
