------------------------- MODULE PigpioDaemon_proofs -------------------------
(***************************************************************************)
(* Proofs about the pigpio daemon: its life (Pigpiod), for every number of *)
(* daemons, signals and crashes, and its stored scripts (Scripts), for     *)
(* every number of slots, scripts, calls, and clients that stop scripts.   *)
(* The two share no variable; each part below is about one of them.        *)
(***************************************************************************)
EXTENDS Pigpiod, Scripts, TLAPS

(* Pigpiod: the port lets one daemon serve, and of daemons that are started *)
(* one after the other at most one has the lock file and the hardware.      *)

\* A daemon whose socket was bound has the port to itself.
Bound == {"initialising", "running", "ending"}
PortHeld ==
    /\ \A d \in Daemons : pc[d] \in Bound => d \in port
    /\ \A d, e \in port : d = e

\* On the way from its start to the point at which it serves or has given up.
Early == {"check", "read", "unlink", "grab", "write", "handlers", "peripherals",
          "bind", "initialising", "failed"}

\* A daemon that has written its number into the lock file and not removed it.
Wrote == {"handlers", "peripherals", "bind", "initialising", "running", "failed", "ending"}
Holding == Wrote \cup {"write"}

\* Of daemons that are started one after the other, one is early, ...
OneEarly == \A d, e \in Daemons : pc[d] \in Early /\ pc[e] \in Early => d = e

\* ... one that holds the lock has created the file there is, ...
HoldersFile == \A d \in Daemons : pc[d] \in Holding => file = d
HoldersWrote == \A d \in Daemons : pc[d] \in Wrote => d \in written

\* ... and the one that looks for a stale file knows the holder, if there is one, and
\* removes the file only when there is none.
ReaderKnows ==
    \A d, e \in Daemons :
        /\ pc[d] = "read" /\ pc[e] \in Holding => opened[d] = e
        /\ pc[d] = "unlink" => pc[e] \notin Holding

SpacedInv == OneEarly /\ HoldersFile /\ HoldersWrote /\ ReaderKnows

\* The inductive invariant.
IInv == TypeOK /\ PortHeld /\ (spaced => SpacedInv)

-------------------------------------------------------------------------------

\* The invariant holds before the first daemon is started.
LEMMA InitIInv == Init => IInv
<1> SUFFICES ASSUME Init PROVE IInv
    OBVIOUS
<1>1. TypeOK
    BY DaemonAssumption DEF Init, TypeOK, Started, Alive
<1>2. PortHeld
    BY DEF Init, PortHeld, Bound
<1>3. SpacedInv
    BY DEF Init, SpacedInv, OneEarly, HoldersFile, HoldersWrote, ReaderKnows, Early, Holding, Wrote
<1>4. QED
    BY <1>1, <1>2, <1>3 DEF IInv

\* A process ends: what it leaves of the port, the signals and the obstacles.
LEMMA DepartKeeps ==
    ASSUME TypeOK, PortHeld, NEW d \in Daemons, NEW l \in {"exited", "refused", "crashed"},
           Goto(d, l), Depart(d)
    PROVE  /\ pc' \in [Daemons -> Started \cup {"none", "exited", "refused", "crashed"}]
           /\ port' \subseteq Daemons /\ hindered' \subseteq Daemons
           /\ signalled' \subseteq {e \in Daemons : Alive(e)'}
           /\ PortHeld'
<1>1. pc' \in [Daemons -> Started \cup {"none", "exited", "refused", "crashed"}] /\ pc'[d] = l
    BY DEF TypeOK, Goto
<1>2. port' \subseteq port /\ hindered' \subseteq hindered /\ signalled' = signalled \ {d}
    BY DEF Depart
<1>3. \A e \in Daemons \ {d} : pc'[e] = pc[e] /\ (e \in port => e \in port')
    <2>1. \A e \in Daemons \ {d} : pc'[e] = pc[e]
        BY DEF TypeOK, Goto
    <2>2. QED
        BY <2>1 DEF Depart
<1>4. signalled' \subseteq {e \in Daemons : Alive(e)'}
    <2>1. \A e \in signalled' : e \in Daemons \ {d} /\ pc[e] \in Started
        BY <1>2 DEF TypeOK, Alive
    <2>2. QED
        BY <1>3, <2>1 DEF Alive
<1>5. pc'[d] \notin Bound
    BY <1>1 DEF Bound
<1>6. PortHeld'
    BY <1>2, <1>3, <1>5 DEF PortHeld
<1>7. QED
    BY <1>1, <1>2, <1>4, <1>6 DEF TypeOK

\* A daemon is started; spaced, every other that is alive serves.
LEMMA StartKeeps ==
    ASSUME IInv, NEW d \in Daemons, Start(d), UNCHANGED spaced
    PROVE  IInv'
<1> USE DaemonAssumption DEF IInv, Start, Goto, Starting, Alive, Started
<1>1. TypeOK'
    BY DEF TypeOK, Started, Alive
<1>2. PortHeld'
    BY DEF TypeOK, PortHeld, Bound, Started, Alive
<1>3. ASSUME spaced PROVE OneEarly' /\ HoldersFile'
    BY <1>3 DEF TypeOK, SpacedInv, OneEarly, HoldersFile, ReaderKnows, Early, Holding, Wrote
<1>4. ASSUME spaced PROVE HoldersWrote' /\ ReaderKnows'
    BY <1>4 DEF TypeOK, SpacedInv, OneEarly, HoldersFile, HoldersWrote, ReaderKnows, Early,
                Holding, Wrote
<1>5. QED
    BY <1>1, <1>2, <1>3, <1>4 DEF SpacedInv

\* A daemon that may not start ends.
LEMMA NotPermittedKeeps ==
    ASSUME IInv, NEW d \in Daemons, NotPermitted(d), UNCHANGED spaced
    PROVE  IInv'
<1>0. Goto(d, "refused") /\ Depart(d)
    BY DEF NotPermitted
<1>1. TypeOK'
    BY <1>0, DepartKeeps, DaemonAssumption DEF IInv, NotPermitted, TypeOK
<1>2. PortHeld'
    BY <1>0, DepartKeeps DEF IInv
<1> USE DaemonAssumption DEF IInv, NotPermitted, Goto, Depart
<1>3. ASSUME spaced PROVE OneEarly' /\ HoldersFile'
    BY <1>3 DEF TypeOK, SpacedInv, OneEarly, HoldersFile, ReaderKnows, Early, Holding, Wrote
<1>4. ASSUME spaced PROVE HoldersWrote' /\ ReaderKnows'
    BY <1>4 DEF TypeOK, SpacedInv, OneEarly, HoldersFile, HoldersWrote, ReaderKnows, Early,
                Holding, Wrote
<1>5. QED
    BY <1>1, <1>2, <1>3, <1>4 DEF SpacedInv

\* The lock file is opened, or there is none.
LEMMA OpenLockKeeps ==
    ASSUME IInv, NEW d \in Daemons, OpenLock(d), UNCHANGED spaced
    PROVE  IInv'
<1> USE DaemonAssumption DEF IInv, OpenLock, Goto
<1>1. TypeOK'
    BY DEF TypeOK, Started, Alive
<1>2. PortHeld'
    BY DEF TypeOK, PortHeld, Bound, Started, Alive
<1>3. ASSUME spaced PROVE OneEarly' /\ HoldersFile'
    BY <1>3 DEF TypeOK, SpacedInv, OneEarly, HoldersFile, ReaderKnows, Early, Holding, Wrote
<1>4. ASSUME spaced PROVE HoldersWrote' /\ ReaderKnows'
    BY <1>4 DEF TypeOK, SpacedInv, OneEarly, HoldersFile, HoldersWrote, ReaderKnows, Early,
                Holding, Wrote
<1>5. QED
    BY <1>1, <1>2, <1>3, <1>4 DEF SpacedInv

\* A file whose process is gone is taken for a stale one.
LEMMA ReadLockKeeps ==
    ASSUME IInv, NEW d \in Daemons, ReadLock(d), UNCHANGED spaced
    PROVE  IInv'
<1> USE DaemonAssumption DEF IInv, ReadLock, Goto, Stale, Alive, Started
<1>1. TypeOK'
    BY DEF TypeOK, Started, Alive
<1>2. PortHeld'
    BY DEF TypeOK, PortHeld, Bound, Started, Alive
<1>3. ASSUME spaced PROVE OneEarly' /\ HoldersFile'
    BY <1>3 DEF TypeOK, SpacedInv, OneEarly, HoldersFile, ReaderKnows, Early, Holding, Wrote
<1>4. ASSUME spaced PROVE HoldersWrote' /\ ReaderKnows'
    BY <1>4 DEF TypeOK, SpacedInv, OneEarly, HoldersFile, HoldersWrote, ReaderKnows, Early,
                Holding, Wrote
<1>5. QED
    BY <1>1, <1>2, <1>3, <1>4 DEF SpacedInv

\* A stale file is kept because its number is in use again.
LEMMA NumberReusedKeeps ==
    ASSUME IInv, NEW d \in Daemons, NumberReused(d), UNCHANGED spaced
    PROVE  IInv'
<1> USE DaemonAssumption DEF IInv, NumberReused, Goto, Hinder
<1>1. TypeOK'
    BY DEF TypeOK, Started, Alive
<1>2. PortHeld'
    BY DEF TypeOK, PortHeld, Bound, Started, Alive
<1>3. ASSUME spaced PROVE OneEarly' /\ HoldersFile'
    BY <1>3 DEF TypeOK, SpacedInv, OneEarly, HoldersFile, ReaderKnows, Early, Holding, Wrote
<1>4. ASSUME spaced PROVE HoldersWrote' /\ ReaderKnows'
    BY <1>4 DEF TypeOK, SpacedInv, OneEarly, HoldersFile, HoldersWrote, ReaderKnows, Early,
                Holding, Wrote
<1>5. QED
    BY <1>1, <1>2, <1>3, <1>4 DEF SpacedInv

\* A stale file is removed.
LEMMA UnlinkStaleKeeps ==
    ASSUME IInv, NEW d \in Daemons, UnlinkStale(d), UNCHANGED spaced
    PROVE  IInv'
<1> USE DaemonAssumption DEF IInv, UnlinkStale, Goto
<1>1. TypeOK'
    BY DEF TypeOK, Started, Alive
<1>2. PortHeld'
    BY DEF TypeOK, PortHeld, Bound, Started, Alive
<1>3. ASSUME spaced PROVE OneEarly' /\ HoldersFile'
    BY <1>3 DEF TypeOK, SpacedInv, OneEarly, HoldersFile, ReaderKnows, Early, Holding, Wrote
<1>4. ASSUME spaced PROVE HoldersWrote' /\ ReaderKnows'
    BY <1>4 DEF TypeOK, SpacedInv, OneEarly, HoldersFile, HoldersWrote, ReaderKnows, Early,
                Holding, Wrote
<1>5. QED
    BY <1>1, <1>2, <1>3, <1>4 DEF SpacedInv

\* The lock file is created.
LEMMA CreateLockKeeps ==
    ASSUME IInv, NEW d \in Daemons, CreateLock(d), UNCHANGED spaced
    PROVE  IInv'
<1> USE DaemonAssumption DEF IInv, CreateLock, Goto
<1>1. TypeOK'
    BY DEF TypeOK, Started, Alive
<1>2. PortHeld'
    BY DEF TypeOK, PortHeld, Bound, Started, Alive
<1>3. ASSUME spaced PROVE OneEarly' /\ HoldersFile'
    BY <1>3 DEF TypeOK, SpacedInv, OneEarly, HoldersFile, ReaderKnows, Early, Holding, Wrote
<1>4. ASSUME spaced PROVE HoldersWrote' /\ ReaderKnows'
    BY <1>4 DEF TypeOK, SpacedInv, OneEarly, HoldersFile, HoldersWrote, ReaderKnows, Early,
                Holding, Wrote
<1>5. QED
    BY <1>1, <1>2, <1>3, <1>4 DEF SpacedInv

\* The file is there: the daemon gives up.
LEMMA LockTakenKeeps ==
    ASSUME IInv, NEW d \in Daemons, LockTaken(d), UNCHANGED spaced
    PROVE  IInv'
<1>0. Goto(d, "exited") /\ Depart(d)
    BY DEF LockTaken, Exit
<1>1. TypeOK'
    BY <1>0, DepartKeeps, DaemonAssumption DEF IInv, LockTaken, TypeOK
<1>2. PortHeld'
    BY <1>0, DepartKeeps DEF IInv
<1> USE DaemonAssumption DEF IInv, LockTaken, Goto, Exit, Depart
<1>3. ASSUME spaced PROVE OneEarly' /\ HoldersFile'
    BY <1>3 DEF TypeOK, SpacedInv, OneEarly, HoldersFile, ReaderKnows, Early, Holding, Wrote
<1>4. ASSUME spaced PROVE HoldersWrote' /\ ReaderKnows'
    BY <1>4 DEF TypeOK, SpacedInv, OneEarly, HoldersFile, HoldersWrote, ReaderKnows, Early,
                Holding, Wrote
<1>5. QED
    BY <1>1, <1>2, <1>3, <1>4 DEF SpacedInv

\* The daemon writes its number into the file.
LEMMA WriteLockKeeps ==
    ASSUME IInv, NEW d \in Daemons, WriteLock(d), UNCHANGED spaced
    PROVE  IInv'
<1> USE DaemonAssumption DEF IInv, WriteLock, Goto
<1>1. TypeOK'
    BY DEF TypeOK, Started, Alive
<1>2. PortHeld'
    BY DEF TypeOK, PortHeld, Bound, Started, Alive
<1>3. ASSUME spaced PROVE OneEarly' /\ HoldersFile'
    BY <1>3 DEF TypeOK, SpacedInv, OneEarly, HoldersFile, ReaderKnows, Early, Holding, Wrote
<1>4. ASSUME spaced PROVE HoldersWrote' /\ ReaderKnows'
    BY <1>4 DEF TypeOK, SpacedInv, OneEarly, HoldersFile, HoldersWrote, ReaderKnows, Early,
                Holding, Wrote
<1>5. QED
    BY <1>1, <1>2, <1>3, <1>4 DEF SpacedInv

\* The signal handlers are set.
LEMMA SetHandlersKeeps ==
    ASSUME IInv, NEW d \in Daemons, SetHandlers(d), UNCHANGED spaced
    PROVE  IInv'
<1> USE DaemonAssumption DEF IInv, SetHandlers, Goto
<1>1. TypeOK'
    BY DEF TypeOK, Started, Alive
<1>2. PortHeld'
    BY DEF TypeOK, PortHeld, Bound, Started, Alive
<1>3. ASSUME spaced PROVE OneEarly' /\ HoldersFile'
    BY <1>3 DEF TypeOK, SpacedInv, OneEarly, HoldersFile, ReaderKnows, Early, Holding, Wrote
<1>4. ASSUME spaced PROVE HoldersWrote' /\ ReaderKnows'
    BY <1>4 DEF TypeOK, SpacedInv, OneEarly, HoldersFile, HoldersWrote, ReaderKnows, Early,
                Holding, Wrote
<1>5. QED
    BY <1>1, <1>2, <1>3, <1>4 DEF SpacedInv

\* The peripherals are mapped.
LEMMA TakeHardwareKeeps ==
    ASSUME IInv, NEW d \in Daemons, TakeHardware(d), UNCHANGED spaced
    PROVE  IInv'
<1> USE DaemonAssumption DEF IInv, TakeHardware, Goto
<1>1. TypeOK'
    BY DEF TypeOK, Started, Alive
<1>2. PortHeld'
    BY DEF TypeOK, PortHeld, Bound, Started, Alive
<1>3. ASSUME spaced PROVE OneEarly' /\ HoldersFile'
    BY <1>3 DEF TypeOK, SpacedInv, OneEarly, HoldersFile, ReaderKnows, Early, Holding, Wrote
<1>4. ASSUME spaced PROVE HoldersWrote' /\ ReaderKnows'
    BY <1>4 DEF TypeOK, SpacedInv, OneEarly, HoldersFile, HoldersWrote, ReaderKnows, Early,
                Holding, Wrote
<1>5. QED
    BY <1>1, <1>2, <1>3, <1>4 DEF SpacedInv

\* Something is missing: the daemon gives up.
LEMMA InitFailedKeeps ==
    ASSUME IInv, NEW d \in Daemons, InitFailed(d), UNCHANGED spaced
    PROVE  IInv'
<1> USE DaemonAssumption DEF IInv, InitFailed, Goto, Hinder
<1>1. TypeOK'
    BY DEF TypeOK, Started, Alive
<1>2. PortHeld'
    BY DEF TypeOK, PortHeld, Bound, Started, Alive
<1>3. ASSUME spaced PROVE OneEarly' /\ HoldersFile'
    BY <1>3 DEF TypeOK, SpacedInv, OneEarly, HoldersFile, ReaderKnows, Early, Holding, Wrote
<1>4. ASSUME spaced PROVE HoldersWrote' /\ ReaderKnows'
    BY <1>4 DEF TypeOK, SpacedInv, OneEarly, HoldersFile, HoldersWrote, ReaderKnows, Early,
                Holding, Wrote
<1>5. QED
    BY <1>1, <1>2, <1>3, <1>4 DEF SpacedInv

\* The socket is bound, unless the port is taken.
LEMMA BindKeeps ==
    ASSUME IInv, NEW d \in Daemons, Bind(d), UNCHANGED spaced
    PROVE  IInv'
<1> USE DaemonAssumption DEF IInv, Bind, Goto
<1>1. TypeOK'
    BY DEF TypeOK, Started, Alive
<1>2. PortHeld'
    BY DEF TypeOK, PortHeld, Bound, Started, Alive
<1>3. ASSUME spaced PROVE OneEarly' /\ HoldersFile'
    BY <1>3 DEF TypeOK, SpacedInv, OneEarly, HoldersFile, ReaderKnows, Early, Holding, Wrote
<1>4. ASSUME spaced PROVE HoldersWrote' /\ ReaderKnows'
    BY <1>4 DEF TypeOK, SpacedInv, OneEarly, HoldersFile, HoldersWrote, ReaderKnows, Early,
                Holding, Wrote
<1>5. QED
    BY <1>1, <1>2, <1>3, <1>4 DEF SpacedInv

\* The daemon serves.
LEMMA RunningKeeps ==
    ASSUME IInv, NEW d \in Daemons, Running(d), UNCHANGED spaced
    PROVE  IInv'
<1> USE DaemonAssumption DEF IInv, Running, Goto
<1>1. TypeOK'
    BY DEF TypeOK, Started, Alive
<1>2. PortHeld'
    BY DEF TypeOK, PortHeld, Bound, Started, Alive
<1>3. ASSUME spaced PROVE OneEarly' /\ HoldersFile'
    BY <1>3 DEF TypeOK, SpacedInv, OneEarly, HoldersFile, ReaderKnows, Early, Holding, Wrote
<1>4. ASSUME spaced PROVE HoldersWrote' /\ ReaderKnows'
    BY <1>4 DEF TypeOK, SpacedInv, OneEarly, HoldersFile, HoldersWrote, ReaderKnows, Early,
                Holding, Wrote
<1>5. QED
    BY <1>1, <1>2, <1>3, <1>4 DEF SpacedInv

\* A daemon that ends removes the file.
LEMMA ReleaseLockKeeps ==
    ASSUME IInv, NEW d \in Daemons, ReleaseLock(d), UNCHANGED spaced
    PROVE  IInv'
<1> USE DaemonAssumption DEF IInv, ReleaseLock, Goto
<1>1. TypeOK'
    BY DEF TypeOK, Started, Alive
<1>2. PortHeld'
    BY DEF TypeOK, PortHeld, Bound, Started, Alive
<1>3. ASSUME spaced PROVE OneEarly' /\ HoldersFile'
    BY <1>3 DEF TypeOK, SpacedInv, OneEarly, HoldersFile, ReaderKnows, Early, Holding, Wrote
<1>4. ASSUME spaced PROVE HoldersWrote' /\ ReaderKnows'
    BY <1>4 DEF TypeOK, SpacedInv, OneEarly, HoldersFile, HoldersWrote, ReaderKnows, Early,
                Holding, Wrote
<1>5. QED
    BY <1>1, <1>2, <1>3, <1>4 DEF SpacedInv

\* The process ends, and its port becomes free then or later.
LEMMA ReleasePortKeeps ==
    ASSUME IInv, NEW d \in Daemons, ReleasePort(d), UNCHANGED spaced
    PROVE  IInv'
<1>0. Goto(d, "exited") /\ Depart(d)
    BY DEF ReleasePort, Exit
<1>1. TypeOK'
    BY <1>0, DepartKeeps, DaemonAssumption DEF IInv, ReleasePort, TypeOK
<1>2. PortHeld'
    BY <1>0, DepartKeeps DEF IInv
<1> USE DaemonAssumption DEF IInv, ReleasePort, Goto, Exit, Depart
<1>3. ASSUME spaced PROVE OneEarly' /\ HoldersFile'
    BY <1>3 DEF TypeOK, SpacedInv, OneEarly, HoldersFile, ReaderKnows, Early, Holding, Wrote
<1>4. ASSUME spaced PROVE HoldersWrote' /\ ReaderKnows'
    BY <1>4 DEF TypeOK, SpacedInv, OneEarly, HoldersFile, HoldersWrote, ReaderKnows, Early,
                Holding, Wrote
<1>5. QED
    BY <1>1, <1>2, <1>3, <1>4 DEF SpacedInv

\* A daemon that serves starts to end; any other ends at once.
LEMMA SigtermKeeps ==
    ASSUME IInv, NEW d \in Daemons, Sigterm(d), UNCHANGED spaced
    PROVE  IInv'
<1>0. pc[d] = "running" \/ (Goto(d, "exited") /\ Depart(d))
    BY DEF Sigterm, Exit
<1>1. TypeOK'
    <2>1. CASE pc[d] = "running"
        BY <2>1, DaemonAssumption DEF IInv, Sigterm, Goto, TypeOK, Started, Alive
    <2>2. CASE pc[d] # "running"
        BY <1>0, <2>2, DepartKeeps, DaemonAssumption DEF IInv, Sigterm, TypeOK
    <2>3. QED
        BY <2>1, <2>2
<1>2. PortHeld'
    <2>1. CASE pc[d] = "running"
        BY <2>1 DEF IInv, Sigterm, Goto, TypeOK, PortHeld, Bound
    <2>2. CASE pc[d] # "running"
        BY <1>0, <2>2, DepartKeeps DEF IInv
    <2>3. QED
        BY <2>1, <2>2
<1> USE DaemonAssumption DEF IInv, Sigterm, Goto, Exit, Depart
<1>3. ASSUME spaced PROVE OneEarly' /\ HoldersFile'
    BY <1>3 DEF TypeOK, SpacedInv, OneEarly, HoldersFile, ReaderKnows, Early, Holding, Wrote
<1>4. ASSUME spaced PROVE HoldersWrote' /\ ReaderKnows'
    BY <1>4 DEF TypeOK, SpacedInv, OneEarly, HoldersFile, HoldersWrote, ReaderKnows, Early,
                Holding, Wrote
<1>5. QED
    BY <1>1, <1>2, <1>3, <1>4 DEF SpacedInv

\* A daemon ends without its handler.
LEMMA CrashKeeps ==
    ASSUME IInv, NEW d \in Daemons, Crash(d), UNCHANGED spaced
    PROVE  IInv'
<1>0. Goto(d, "crashed") /\ Depart(d)
    BY DEF Crash
<1>1. TypeOK'
    BY <1>0, DepartKeeps, DaemonAssumption DEF IInv, Crash, TypeOK
<1>2. PortHeld'
    BY <1>0, DepartKeeps DEF IInv
<1> USE DaemonAssumption DEF IInv, Crash, Goto, Depart
<1>3. ASSUME spaced PROVE OneEarly' /\ HoldersFile'
    BY <1>3 DEF TypeOK, SpacedInv, OneEarly, HoldersFile, ReaderKnows, Early, Holding, Wrote
<1>4. ASSUME spaced PROVE HoldersWrote' /\ ReaderKnows'
    BY <1>4 DEF TypeOK, SpacedInv, OneEarly, HoldersFile, HoldersWrote, ReaderKnows, Early,
                Holding, Wrote
<1>5. QED
    BY <1>1, <1>2, <1>3, <1>4 DEF SpacedInv

\* A signal to all daemons changes nothing but who has one to handle.
LEMMA PkillKeeps ==
    ASSUME IInv, Pkill, UNCHANGED spaced
    PROVE  IInv'
<1> USE DaemonAssumption DEF IInv, Pkill
<1>1. TypeOK'
    BY DEF TypeOK, Started, Alive
<1>2. PortHeld' /\ (spaced => SpacedInv)'
    BY DEF PortHeld, SpacedInv, OneEarly, HoldersFile, HoldersWrote, ReaderKnows
<1>3. QED
    BY <1>1, <1>2

\* A port whose daemon is gone becomes free.
LEMMA LingerEndsKeeps ==
    ASSUME IInv, LingerEnds, UNCHANGED spaced
    PROVE  IInv'
<1> USE DaemonAssumption DEF IInv, LingerEnds
<1>1. TypeOK'
    BY DEF TypeOK, Started, Alive
<1>2. PortHeld'
    <2>1. PICK d \in port : ~Alive(d) /\ port' = port \ {d} /\ pc' = pc
        OBVIOUS
    <2>2. pc[d] \notin Bound
        BY <2>1 DEF Alive, Started, Bound
    <2>3. QED
        BY <2>1, <2>2 DEF PortHeld
<1>3. (spaced => SpacedInv)'
    BY DEF SpacedInv, OneEarly, HoldersFile, HoldersWrote, ReaderKnows
<1>4. QED
    BY <1>1, <1>2, <1>3

\* Every step keeps the invariant.
LEMMA NextIInv == IInv /\ [Next]_vars => IInv'
<1> SUFFICES ASSUME IInv, [Next]_vars PROVE IInv'
    OBVIOUS
<1>1. ASSUME Pkill \/ LingerEnds, UNCHANGED spaced PROVE IInv'
    BY <1>1, PkillKeeps, LingerEndsKeeps
<1>2. ASSUME NEW d \in Daemons, Start(d) \/ Daemon(d) \/ Crash(d), UNCHANGED spaced PROVE IInv'
    <2>1. CASE Initialise(d)
        BY <1>2, <2>1, NotPermittedKeeps, OpenLockKeeps, ReadLockKeeps, NumberReusedKeeps, UnlinkStaleKeeps, CreateLockKeeps,
           LockTakenKeeps, WriteLockKeeps, SetHandlersKeeps, TakeHardwareKeeps,
           InitFailedKeeps, BindKeeps, RunningKeeps DEF Initialise
    <2>2. CASE Release(d)
        BY <1>2, <2>2, ReleaseLockKeeps, ReleasePortKeeps DEF Release
    <2>3. CASE Start(d) \/ Sigterm(d) \/ Crash(d)
        BY <1>2, <2>3, StartKeeps, SigtermKeeps, CrashKeeps
    <2>4. QED
        BY <1>2, <2>1, <2>2, <2>3 DEF Daemon
<1>3. CASE UNCHANGED vars
    BY <1>3 DEF vars, IInv, TypeOK, Alive, PortHeld, SpacedInv, OneEarly, HoldersFile,
                HoldersWrote, ReaderKnows
<1>4. QED
    BY <1>1, <1>2, <1>3 DEF Next

\* The invariant holds in every state of every behaviour.
LEMMA Invariance == Spec => []IInv
<1>1. QED
    BY InitIInv, NextIInv, PTL DEF Spec

\* Every variable has its type, for every number of daemons, signals and crashes.
THEOREM TypeCorrect == Spec => []TypeOK
<1>1. IInv => TypeOK
    BY DEF IInv
<1>2. QED
    BY <1>1, Invariance, PTL

\* Two daemons never both serve (the bind in initInitialise), started at any time.
THEOREM OneDaemonServes == Spec => []OneServer
<1>1. IInv => OneServer
    BY DEF IInv, PortHeld, Bound, OneServer
<1>2. QED
    BY <1>1, Invariance, PTL

\* Of daemons started one after the other at most one has the hardware
\* (initCheckLockFile, initGrabLockFile), whatever a killed or crashed one has left.
THEOREM OneDaemonOwns == Spec => []OneOwner
<1>1. IInv => OneOwner
    BY DEF IInv, SpacedInv, HoldersFile, Holding, Wrote, Hardware, OneOwner
<1>2. QED
    BY <1>1, Invariance, PTL

\* Of daemons started one after the other the one that serves has the lock file, with
\* its number in it.
THEOREM ServerHasLock == Spec => []RunningHasLock
<1>1. IInv => RunningHasLock
    BY DEF IInv, SpacedInv, HoldersFile, HoldersWrote, Holding, Wrote, RunningHasLock
<1>2. QED
    BY <1>1, Invariance, PTL

-----------------------------------------------------------------------------
(* Scripts, when one client makes the calls and any others only stop       *)
(* scripts: no freed or null memory is used, and a slot is free only when  *)
(* its thread is gone.  The alert thread and the threads of the scripts    *)
(* run at any time.                                                        *)

Gone == {"none", "dead"}
Living == {"lock", "cond", "start", "loop", "wait", "bits", "store", "cond gpio", "cond event",
           "bits after", "store after"}
Points == {"idle", "reserve", "parse", "create", "assign", "check", "lock", "dying", "halt",
           "poll", "cancel", "join", "release"}

\* The types that the argument needs; no step has faulted.
Types ==
    /\ state \in [Slots -> {"free", "reserved", "in use", "dying"}]
    /\ at \in [Slots -> Gone \cup Living] /\ cancelled \in [Slots -> BOOLEAN]
    /\ par \in [Slots -> {"null", "live"}] /\ pth \in [Slots -> {"null", "live", "freed"}]
    /\ ~ fault

Call == [op : {"none", "store", "run", "stop", "delete"}, slot : Slots \cup {"none"}, at : Points]

\* A call that does something has a slot; the calls of the others are stops.
CallShape(c) ==
    /\ call \in [Clients -> Call]
    /\ \A d \in Clients \ {c} : call[d] = NoCall \/ call[d].op = "stop"
    /\ call[c].at \notin {"idle", "reserve"} => call[c].slot \in Slots
    /\ call[c].at = "idle" => call[c] = NoCall

Shape(c) == Types /\ CallShape(c)

\* A slot that no script uses has no thread; the thread of one in use is not cancelled.
Empty(s) == at[s] \in Gone /\ par[s] = "null"
LiveThread(s) == at[s] \in Living /\ ~ cancelled[s] /\ par[s] = "live"
InUse(s) == state[s] = "in use" /\ LiveThread(s) /\ pth[s] = "live"
AtRest(s) == (state[s] = "free" /\ Empty(s)) \/ InUse(s)

\* What is so of the slot of a call that has come to the point p.
Fits(s, p) ==
    /\ p = "parse" => state[s] = "reserved" /\ Empty(s)
    /\ p = "create" => state[s] = "in use" /\ at[s] \in Gone /\ par[s] = "live"
    /\ p = "assign" => state[s] = "in use" /\ LiveThread(s)
    /\ p = "check" => AtRest(s)
    /\ p \in {"lock", "dying"} => InUse(s)
    /\ p \in {"halt", "poll", "cancel"} => state[s] = "dying" /\ LiveThread(s) /\ pth[s] = "live"
    /\ p = "join" => state[s] = "dying" /\ at[s] # "none" /\ pth[s] = "live"
    /\ p = "release" => state[s] = "dying" /\ at[s] = "dead"

\* The slot s is the one of the client's call.
Owns(c, s) == call[c].at \notin {"idle", "reserve"} /\ call[c].slot = s

SlotInv(c, s) == (Owns(c, s) => Fits(s, call[c].at)) /\ (Owns(c, s) \/ AtRest(s))

\* The inductive invariant for the client c, the only one that does more than stop scripts.
ScriptInv(c) == Shape(c) /\ \A s \in Slots : SlotInv(c, s)

-------------------------------------------------------------------------------

\* The invariant holds when the daemon has started.
LEMMA InitScriptInv == ASSUME NEW c \in Clients PROVE ScriptInit => ScriptInv(c)
BY DEF ScriptInit, ScriptInv, Shape, Types, CallShape, Call, SlotInv, Owns, AtRest, Empty, NoCall, Gone, Living, Points

\* The call goes on to the point p, ...
LEMMA CallMoves ==
    ASSUME NEW c \in Clients, CallShape(c), NEW p \in Points \ {"idle"}, call[c].slot \in Slots,
           call' = [call EXCEPT ![c].at = p]
    PROVE  CallShape(c)' /\ call'[c].slot = call[c].slot /\ call'[c].at = p
<1>1. call[c] \in Call
    BY DEF CallShape
<1>2. [call[c] EXCEPT !.at = p] \in Call
    BY <1>1 DEF Call
<1>3. call'[c] = [call[c] EXCEPT !.at = p]
    BY DEF CallShape
<1>4. call' \in [Clients -> Call]
    BY <1>2 DEF CallShape
<1>5. call'[c].slot = call[c].slot /\ call'[c].at = p
    BY <1>1, <1>3 DEF Call
<1>6. QED
    BY <1>4, <1>5 DEF CallShape

\* ... or starts, ...
LEMMA CallStarts ==
    ASSUME NEW c \in Clients, CallShape(c), NEW v \in Call, call' = [call EXCEPT ![c] = v],
           v.at = "reserve" \/ (v.at # "idle" /\ v.slot \in Slots)
    PROVE  CallShape(c)' /\ call'[c] = v
<1>1. call'[c] = v /\ call' \in [Clients -> Call]
    BY DEF CallShape
<1>2. QED
    BY <1>1 DEF CallShape

\* ... or returns.
LEMMA CallReturns ==
    ASSUME NEW c \in Clients, CallShape(c), call' = [call EXCEPT ![c] = NoCall]
    PROVE  CallShape(c)' /\ call'[c] = NoCall
<1>1. NoCall \in Call /\ NoCall.at = "idle"
    BY DEF NoCall, Call, Points
<1>2. call'[c] = NoCall /\ call' \in [Clients -> Call]
    BY <1>1 DEF CallShape
<1>3. QED
    BY <1>1, <1>2 DEF CallShape

\* A slot whose thread goes on fits the call as before.
LEMMA ThreadGoesOn ==
    ASSUME NEW c \in Clients, ScriptInv(c), UNCHANGED <<state, par, pth, cancelled, fault>>,
           call'[c] = call[c], CallShape(c)',
           at' \in [Slots -> Gone \cup Living],
           \A s \in Slots : at'[s] = at[s] \/ (at[s] \in Living /\ at'[s] \in Living)
    PROVE  ScriptInv(c)'
<1>1. Shape(c)'
    BY DEF ScriptInv, Shape, Types, CallShape, NoCall
<1>2. ASSUME NEW s \in Slots PROVE SlotInv(c, s)'
    <2>1. AtRest(s) => AtRest(s)'
        BY DEF AtRest, InUse, LiveThread, Empty, Gone, Living
    <2>2. ASSUME NEW p \in Points, Fits(s, p) PROVE Fits(s, p)'
        <3>1. p \notin {"check", "lock", "dying"} => Fits(s, p)'
            BY <2>2 DEF Fits, LiveThread, Empty, Gone, Living, Points
        <3>2. p \in {"check", "lock", "dying"} => Fits(s, p)'
            BY <2>2 DEF Fits, AtRest, InUse, LiveThread, Empty, Gone, Living
        <3>3. QED
            BY <3>1, <3>2
    <2>3. call[c].at \in Points
        BY DEF ScriptInv, Shape, CallShape, Call
    <2>4. QED
        BY <2>1, <2>2, <2>3 DEF ScriptInv, SlotInv, Owns
<1>3. QED
    BY <1>1, <1>2 DEF ScriptInv

\* A thread that ends was cancelled, by a client that waits to join it.
LEMMA ThreadEnds ==
    ASSUME NEW c \in Clients, ScriptInv(c), NEW s \in Slots, Die(s)
    PROVE  ScriptInv(c)'
<1>0. /\ UNCHANGED <<state, par, pth, cancelled, call, fault>>
      /\ at' = [at EXCEPT ![s] = "dead"] /\ at[s] \in Living /\ cancelled[s]
    BY DEF Die, MoveTo, Waiting, clients, Living
<1>1. Shape(c)'
    BY <1>0 DEF ScriptInv, Shape, Types, CallShape, Gone, NoCall
<1>2. Owns(c, s) /\ call[c].at = "join"
    <2>1. ~ AtRest(s) /\ ~ LiveThread(s) /\ ~ (at[s] \in Gone)
        BY <1>0 DEF AtRest, InUse, LiveThread, Empty, Gone, Living
    <2>2. Owns(c, s) /\ Fits(s, call[c].at) /\ call[c].at \in Points
        BY <2>1 DEF ScriptInv, SlotInv, Shape, CallShape, Call
    <2>3. QED
        BY <2>1, <2>2 DEF Owns, Fits, InUse, Empty, Gone, Points
<1>3. ASSUME NEW t \in Slots PROVE SlotInv(c, t)'
    <2>1. CASE t = s
        BY <1>0, <1>2, <2>1 DEF ScriptInv, Shape, Types, SlotInv, Owns, Fits
    <2>2. CASE t # s
        <3>1. at'[t] = at[t]
            BY <1>0, <2>2 DEF ScriptInv, Shape, Types
        <3>2. ~ Owns(c, t) /\ ~ Owns(c, t)'
            BY <1>0, <1>2, <2>2 DEF Owns
        <3>3. AtRest(t) /\ (AtRest(t) => AtRest(t)')
            BY <1>0, <3>1, <3>2 DEF ScriptInv, SlotInv, AtRest, InUse, LiveThread, Empty
        <3>4. QED
            BY <3>2, <3>3 DEF SlotInv
    <2>3. QED
        BY <2>1, <2>2
<1>4. QED
    BY <1>1, <1>3 DEF ScriptInv

\* A thread that goes to another of its living points.
LEMMA ThreadMoves ==
    ASSUME NEW c \in Clients, ScriptInv(c), NEW s \in Slots,
           UNCHANGED <<state, par, pth, cancelled, call, fault>>, at[s] \in Living,
           \E p \in Living : at' = [at EXCEPT ![s] = p]
    PROVE  ScriptInv(c)'
<1>1. at \in [Slots -> Gone \cup Living]
    BY DEF ScriptInv, Shape, Types
<1>2. PICK p \in Living : at' = [at EXCEPT ![s] = p]
    OBVIOUS
<1>3. /\ at' \in [Slots -> Gone \cup Living]
      /\ \A u \in Slots : at'[u] = at[u] \/ (at[u] \in Living /\ at'[u] \in Living)
      /\ CallShape(c)'
    BY <1>1, <1>2 DEF ScriptInv, Shape, CallShape
<1>4. QED
    BY <1>3, ThreadGoesOn

\* Every other step of a script's thread goes on.
LEMMA ThreadKeeps ==
    ASSUME NEW c \in Clients, ScriptInv(c), NEW s \in Slots, Thread(s)
    PROVE  ScriptInv(c)'
<1> USE DEF clients, script
<1>1. CASE Die(s)
    BY <1>1, ThreadEnds
<1>2. CASE Halt(s) \/ Woken(s) \/ StartScript(s) \/ Leave(s)
    <2>1. /\ UNCHANGED <<state, par, pth, cancelled, call, fault>> /\ at[s] \in Living
          /\ \E p \in Living : at' = [at EXCEPT ![s] = p]
        BY <1>2 DEF Halt, Woken, StartScript, Leave, MoveTo, Living
    <2>2. QED
        BY <2>1, ThreadMoves
<1>3. CASE Execute(s) \/ WaitLock(s)
    <2>1. /\ UNCHANGED <<state, par, pth, cancelled, call, fault>> /\ at[s] \in Living
          /\ \E p \in Living : at' = [at EXCEPT ![s] = p]
        BY <1>3 DEF Execute, WaitLock, Counted, MoveTo, Living
    <2>2. QED
        BY <2>1, ThreadMoves
<1>4. CASE ComputeBits(s) \/ StoreBits(s) \/ WaitEnds(s)
    <2>1. /\ UNCHANGED <<state, par, pth, cancelled, call, fault>> /\ at[s] \in Living
          /\ \E p \in Living : at' = [at EXCEPT ![s] = p]
        BY <1>4 DEF ComputeBits, StoreBits, WaitEnds, Counted, MoveTo, Living
    <2>2. QED
        BY <2>1, ThreadMoves
<1>5. QED
    BY <1>1, <1>2, <1>3, <1>4 DEF Thread

\* The alert thread changes nothing the argument is about.
LEMMA AlertKeeps ==
    ASSUME NEW c \in Clients, ScriptInv(c),
           Alert \/ \E s \in Slots, kind \in {"gpio", "event"} : Happens(kind, s)
    PROVE  ScriptInv(c)'
<1>1. UNCHANGED <<state, par, pth, cancelled, call, fault, at>> /\ CallShape(c)'
    BY DEF ScriptInv, Shape, CallShape, Alert, AlertLooks, AlertSignals, Happens, clients, script, thread
<1>2. QED
    BY <1>1, ThreadGoesOn DEF ScriptInv, Shape, Types

-------------------------------------------------------------------------------
(* The steps of the client.  A call changes its own slot only, so that the *)
(* others stay at rest, and comes to a point that fits its slot.           *)

Others(k) ==
    \A s \in Slots \ {k} :
        /\ state'[s] = state[s] /\ at'[s] = at[s] /\ cancelled'[s] = cancelled[s]
        /\ par'[s] = par[s] /\ pth'[s] = pth[s]

\* The call goes on with its slot.
LEMMA GoesOn ==
    ASSUME NEW c \in Clients, ScriptInv(c), NEW k \in Slots, Shape(c)', Others(k), Owns(c, k)',
           Owns(c, k) \/ call[c].at \in {"idle", "reserve"}, Fits(k, call[c].at)'
    PROVE  ScriptInv(c)'
<1>1. SlotInv(c, k)'
    BY DEF SlotInv
<1>2. ASSUME NEW s \in Slots, s # k PROVE SlotInv(c, s)'
    <2>1. ~ Owns(c, s) /\ ~ Owns(c, s)'
        BY <1>2 DEF Owns
    <2>2. AtRest(s) /\ (AtRest(s) => AtRest(s)')
        BY <1>2, <2>1 DEF Others, ScriptInv, SlotInv, AtRest, InUse, LiveThread, Empty
    <2>3. QED
        BY <2>1, <2>2 DEF SlotInv
<1>3. QED
    BY <1>1, <1>2 DEF ScriptInv

\* The call returns and leaves its slot at rest.
LEMMA Returns ==
    ASSUME NEW c \in Clients, ScriptInv(c), NEW k \in Slots, Shape(c)', Others(k), Owns(c, k),
           call'[c] = NoCall, AtRest(k)'
    PROVE  ScriptInv(c)'
<1>1. ASSUME NEW s \in Slots PROVE ~ Owns(c, s)'
    BY DEF Owns, NoCall
<1>2. SlotInv(c, k)'
    BY <1>1 DEF SlotInv
<1>3. ASSUME NEW s \in Slots, s # k PROVE SlotInv(c, s)'
    <2>1. ~ Owns(c, s)
        BY <1>3 DEF Owns
    <2>2. AtRest(s) /\ (AtRest(s) => AtRest(s)')
        BY <1>3, <2>1 DEF Others, ScriptInv, SlotInv, AtRest, InUse, LiveThread, Empty
    <2>3. QED
        BY <1>1, <2>2 DEF SlotInv
<1>4. QED
    BY <1>2, <1>3 DEF ScriptInv

\* The call of the client c and its slot.
LEMMA OwnSlot ==
    ASSUME NEW c \in Clients, ScriptInv(c), call[c].at \notin {"idle", "reserve"}
    PROVE  /\ call[c].slot \in Slots /\ Owns(c, call[c].slot) /\ Fits(call[c].slot, call[c].at)
BY DEF ScriptInv, Shape, CallShape, SlotInv, Owns

\* A call begins.
LEMMA BeginKeeps ==
    ASSUME NEW c \in Clients, ScriptInv(c),
           NEW op \in {"run", "stop", "delete"}, NEW s \in Slots, Begin(c, op, s)
    PROVE  ScriptInv(c)'
<1> DEFINE v == [op |-> op, slot |-> s, at |-> IF op = "store" THEN "reserve" ELSE "check"]
<1>1. /\ call[c].at = "idle" /\ call' = [call EXCEPT ![c] = v]
      /\ UNCHANGED <<state, par, pth, cancelled, at, fault>>
    BY DEF Begin, NoCall, script, thread
<1>2. v \in Call /\ v.at = "check" /\ v.slot = s
    BY DEF Call, Points
<1> HIDE DEF v
<1>3. CallShape(c)' /\ call'[c].at = "check" /\ call'[c].slot = s
    BY <1>1, <1>2, CallStarts DEF ScriptInv, Shape
<1>4. Shape(c)'
    BY <1>1, <1>3 DEF ScriptInv, Shape, Types
<1>5. AtRest(s)'
    BY <1>1 DEF ScriptInv, SlotInv, Owns, AtRest, InUse, LiveThread, Empty
<1>6. Others(s) /\ Owns(c, s)' /\ Fits(s, call[c].at)'
    BY <1>1, <1>3, <1>5 DEF Others, Owns, Fits
<1>7. QED
    BY <1>1, <1>4, <1>6, GoesOn

\* A script is to be stored.
LEMMA BeginStoreKeeps ==
    ASSUME NEW c \in Clients, ScriptInv(c), Begin(c, "store", "none")
    PROVE  ScriptInv(c)'
<1> DEFINE v == [op |-> "store", slot |-> "none", at |-> "reserve"]
<1>1. /\ call[c].at = "idle" /\ call' = [call EXCEPT ![c] = v]
      /\ UNCHANGED <<state, par, pth, cancelled, at, fault>>
    BY DEF Begin, NoCall, script, thread
<1>2. v \in Call /\ v.at = "reserve"
    BY DEF Call, Points
<1> HIDE DEF v
<1>3. CallShape(c)' /\ call'[c].at = "reserve"
    BY <1>1, <1>2, CallStarts DEF ScriptInv, Shape
<1>4. Shape(c)'
    BY <1>1, <1>3 DEF ScriptInv, Shape, Types
<1>5. ASSUME NEW s \in Slots PROVE SlotInv(c, s)'
    BY <1>1, <1>3 DEF ScriptInv, SlotInv, Owns, AtRest, InUse, LiveThread, Empty
<1>6. QED
    BY <1>4, <1>5 DEF ScriptInv

\* The first free slot is reserved, or the call fails.
LEMMA ReserveKeeps ==
    ASSUME NEW c \in Clients, ScriptInv(c), Reserve(c)
    PROVE  ScriptInv(c)'
<1>1. call[c].at = "reserve" /\ call[c].op = "store" /\ UNCHANGED <<par, pth, cancelled, at, fault>>
    BY DEF Reserve, Doing, thread
<1>2. CASE Return(c) /\ UNCHANGED state
    <2>1. CallShape(c)' /\ call'[c] = NoCall
        BY <1>2, CallReturns DEF Return, ScriptInv, Shape
    <2>2. Shape(c)'
        BY <1>1, <1>2, <2>1 DEF ScriptInv, Shape, Types
    <2>3. ASSUME NEW s \in Slots PROVE SlotInv(c, s)'
        <3>1. ~ Owns(c, s) /\ ~ Owns(c, s)'
            BY <1>1, <2>1 DEF Owns, NoCall
        <3>2. AtRest(s) /\ (AtRest(s) => AtRest(s)')
            BY <1>1, <1>2, <3>1 DEF ScriptInv, SlotInv, AtRest, InUse, LiveThread, Empty
        <3>3. QED
            BY <3>1, <3>2 DEF SlotInv
    <2>4. QED
        BY <2>2, <2>3 DEF ScriptInv
<1>3. ASSUME NEW s \in Slots, state[s] = "free", state' = [state EXCEPT ![s] = "reserved"],
             call' = [call EXCEPT ![c].slot = s, ![c].at = "parse"]
      PROVE  ScriptInv(c)'
    <2> DEFINE v == [op |-> "store", slot |-> s, at |-> "parse"]
    <2>1. call[c] \in Call
        BY DEF ScriptInv, Shape, CallShape
    <2>2. call' = [call EXCEPT ![c] = v]
        BY <1>1, <1>3, <2>1 DEF ScriptInv, Shape, CallShape, Call
    <2>3. v \in Call /\ v.at = "parse" /\ v.slot = s
        BY DEF Call, Points
    <2> HIDE DEF v
    <2>4. CallShape(c)' /\ call'[c].at = "parse" /\ call'[c].slot = s
        BY <2>2, <2>3, CallStarts DEF ScriptInv, Shape
    <2>5. Shape(c)'
        BY <1>1, <1>3, <2>4 DEF ScriptInv, Shape, Types
    <2>6. Empty(s)
        BY <1>1, <1>3 DEF ScriptInv, SlotInv, Owns, AtRest, InUse
    <2>7. Others(s) /\ Owns(c, s)' /\ Fits(s, call[c].at)'
        BY <1>1, <1>3, <2>4, <2>6 DEF Others, Owns, Fits, Empty, ScriptInv, Shape, Types
    <2>8. QED
        BY <1>1, <2>5, <2>7, GoesOn
<1>4. QED
    BY <1>2, <1>3 DEF Reserve

\* The script is in use, or the slot is free again.
LEMMA ParseKeeps ==
    ASSUME NEW c \in Clients, ScriptInv(c), Parse(c)
    PROVE  ScriptInv(c)'
<1>1. call[c].at = "parse" /\ UNCHANGED <<pth, cancelled, at, fault>>
    BY DEF Parse, Doing, thread
<1>2. PICK k \in Slots : k = call[c].slot /\ Owns(c, k) /\ state[k] = "reserved" /\ Empty(k)
    BY <1>1, OwnSlot DEF Fits
<1>3. ASSUME par' = [par EXCEPT ![k] = "live"], state' = [state EXCEPT ![k] = "in use"], Then(c, "create")
      PROVE  ScriptInv(c)'
    <2>1. CallShape(c)' /\ call'[c].slot = k /\ call'[c].at = "create"
        BY <1>2, <1>3, CallMoves DEF Then, ScriptInv, Shape, Points
    <2>2. Shape(c)'
        BY <1>1, <1>2, <1>3, <2>1 DEF ScriptInv, Shape, Types
    <2>3. Others(k) /\ Owns(c, k)' /\ Fits(k, "create")'
        BY <1>1, <1>2, <1>3, <2>1 DEF Others, Owns, Fits, Empty, ScriptInv, Shape, Types
    <2>4. QED
        BY <1>2, <2>1, <2>2, <2>3, GoesOn
<1>4. ASSUME state' = [state EXCEPT ![k] = "free"], Return(c), UNCHANGED par
      PROVE  ScriptInv(c)'
    <2>1. CallShape(c)' /\ call'[c] = NoCall
        BY <1>4, CallReturns DEF Return, ScriptInv, Shape
    <2>2. Shape(c)'
        BY <1>1, <1>2, <1>4, <2>1 DEF ScriptInv, Shape, Types
    <2>3. Others(k) /\ AtRest(k)'
        BY <1>1, <1>2, <1>4 DEF Others, AtRest, Empty, ScriptInv, Shape, Types
    <2>4. QED
        BY <1>2, <2>1, <2>2, <2>3, Returns
<1>5. QED
    BY <1>2, <1>3, <1>4 DEF Parse

\* The thread is created in a slot that has none.
LEMMA CreateKeeps ==
    ASSUME NEW c \in Clients, ScriptInv(c), Create(c)
    PROVE  ScriptInv(c)'
<1>1. call[c].at = "create" /\ UNCHANGED <<state, par, pth>> /\ call' = [call EXCEPT ![c].at = "assign"]
    BY DEF Create, Doing, Then, script, thread
<1>2. PICK k \in Slots : k = call[c].slot /\ Owns(c, k) /\ state[k] = "in use" /\ at[k] \in Gone /\ par[k] = "live"
    BY <1>1, OwnSlot DEF Fits
<1>3. at' = [at EXCEPT ![k] = "lock"] /\ cancelled' = [cancelled EXCEPT ![k] = FALSE] /\ UNCHANGED fault
    BY <1>2 DEF Create, MoveTo, Gone
<1>4. CallShape(c)' /\ call'[c].slot = k /\ call'[c].at = "assign"
    BY <1>1, <1>2, CallMoves DEF ScriptInv, Shape, Points
<1>5. Shape(c)'
    BY <1>1, <1>2, <1>3, <1>4 DEF ScriptInv, Shape, Types, Living
<1>6. Others(k) /\ Owns(c, k)'
    BY <1>1, <1>2, <1>3, <1>4 DEF Others, Owns, ScriptInv, Shape, Types
<1>7. Fits(k, "assign")'
    BY <1>1, <1>2, <1>3 DEF Fits, LiveThread, Living, ScriptInv, Shape, Types
<1>8. QED
    BY <1>2, <1>4, <1>5, <1>6, <1>7, GoesOn

\* The thread's identifier is kept.
LEMMA AssignKeeps ==
    ASSUME NEW c \in Clients, ScriptInv(c), Assign(c)
    PROVE  ScriptInv(c)'
<1>1. call[c].at = "assign" /\ UNCHANGED <<state, par, at, cancelled, fault>> /\ call' = [call EXCEPT ![c] = NoCall]
    BY DEF Assign, AskHalt, Doing, Return, script, thread
<1>2. PICK k \in Slots : k = call[c].slot /\ Owns(c, k) /\ state[k] = "in use" /\ LiveThread(k)
    BY <1>1, OwnSlot DEF Fits
<1>3. pth' = [pth EXCEPT ![k] = "live"]
    BY <1>2 DEF Assign
<1>4. CallShape(c)' /\ call'[c] = NoCall
    BY <1>1, CallReturns DEF ScriptInv, Shape
<1>5. Shape(c)'
    BY <1>1, <1>2, <1>3, <1>4 DEF ScriptInv, Shape, Types
<1>6. Others(k) /\ AtRest(k)'
    BY <1>1, <1>2, <1>3 DEF Others, AtRest, InUse, LiveThread, ScriptInv, Shape, Types
<1>7. QED
    BY <1>2, <1>4, <1>5, <1>6, Returns

\* A call for a slot that is not in use returns.
LEMMA CheckKeeps ==
    ASSUME NEW c \in Clients, ScriptInv(c), Check(c)
    PROVE  ScriptInv(c)'
<1>1. call[c].at = "check" /\ UNCHANGED <<state, par, pth, at, cancelled, fault>>
    BY DEF Check, script, thread
<1>2. PICK k \in Slots : k = call[c].slot /\ Owns(c, k) /\ AtRest(k)
    BY <1>1, OwnSlot DEF Fits
<1>3. AtRest(k)' /\ Others(k)
    BY <1>1, <1>2 DEF Others, AtRest, InUse, LiveThread, Empty
<1>4. ASSUME Return(c) PROVE ScriptInv(c)'
    <2>1. CallShape(c)' /\ call'[c] = NoCall
        BY <1>4, CallReturns DEF Return, ScriptInv, Shape
    <2>2. Shape(c)'
        BY <1>1, <2>1 DEF ScriptInv, Shape, Types
    <2>3. QED
        BY <1>2, <1>3, <2>1, <2>2, Returns
<1>5. ASSUME state[k] = "in use", NEW p \in {"dying", "lock"}, Then(c, p) PROVE ScriptInv(c)'
    <2>1. CallShape(c)' /\ call'[c].slot = k /\ call'[c].at = p
        BY <1>2, <1>5, CallMoves DEF Then, ScriptInv, Shape, Points
    <2>2. Shape(c)'
        BY <1>1, <2>1 DEF ScriptInv, Shape, Types
    <2>3. InUse(k)'
        BY <1>1, <1>3, <1>5 DEF AtRest, InUse
    <2>4. Owns(c, k)' /\ Fits(k, p)'
        BY <2>1, <2>3, <1>5 DEF Owns, Fits
    <2>5. QED
        BY <1>2, <1>3, <2>1, <2>2, <2>4, GoesOn
<1>6. QED
    BY <1>2, <1>4, <1>5 DEF Check

\* The script is told to run; its parameters are there.
LEMMA RunKeeps ==
    ASSUME NEW c \in Clients, ScriptInv(c), Run(c)
    PROVE  ScriptInv(c)'
<1>1. call[c].at = "lock" /\ UNCHANGED <<state, par, pth, at, cancelled>> /\ call' = [call EXCEPT ![c] = NoCall]
    BY DEF Run, AskHalt, Doing, Return, script, thread
<1>2. PICK k \in Slots : k = call[c].slot /\ Owns(c, k) /\ InUse(k)
    BY <1>1, OwnSlot DEF Fits
<1>3. ~ fault'
    BY <1>2 DEF Run, InUse, LiveThread, ScriptInv, Shape, Types
<1>4. CallShape(c)' /\ call'[c] = NoCall
    BY <1>1, CallReturns DEF ScriptInv, Shape
<1>5. Shape(c)'
    BY <1>1, <1>2, <1>3, <1>4 DEF ScriptInv, Shape, Types
<1>6. Others(k) /\ AtRest(k)'
    BY <1>1, <1>2, <1>3 DEF Others, AtRest, InUse, LiveThread, ScriptInv, Shape, Types
<1>7. QED
    BY <1>2, <1>4, <1>5, <1>6, Returns

\* The script is told to halt.
LEMMA StopKeeps ==
    ASSUME NEW c \in Clients, ScriptInv(c), Stop(c)
    PROVE  ScriptInv(c)'
<1>1. call[c].at = "lock" /\ UNCHANGED <<state, par, pth, at, cancelled, fault>> /\ call' = [call EXCEPT ![c] = NoCall]
    BY DEF Stop, AskHalt, Doing, Return, script, thread
<1>2. PICK k \in Slots : k = call[c].slot /\ Owns(c, k) /\ InUse(k)
    BY <1>1, OwnSlot DEF Fits
<1>3. ~ fault'
    BY <1>1 DEF ScriptInv, Shape, Types
<1>4. CallShape(c)' /\ call'[c] = NoCall
    BY <1>1, CallReturns DEF ScriptInv, Shape
<1>5. Shape(c)'
    BY <1>1, <1>2, <1>3, <1>4 DEF ScriptInv, Shape, Types
<1>6. Others(k) /\ AtRest(k)'
    BY <1>1, <1>2, <1>3 DEF Others, AtRest, InUse, LiveThread, ScriptInv, Shape, Types
<1>7. QED
    BY <1>2, <1>4, <1>5, <1>6, Returns

\* The slot is being deleted.
LEMMA SetDyingKeeps ==
    ASSUME NEW c \in Clients, ScriptInv(c), SetDying(c)
    PROVE  ScriptInv(c)'
<1>1. call[c].at = "dying" /\ UNCHANGED <<par, pth, at, cancelled, fault>> /\ call' = [call EXCEPT ![c].at = "halt"]
    BY DEF SetDying, Doing, Then, script, thread
<1>2. PICK k \in Slots : k = call[c].slot /\ Owns(c, k) /\ InUse(k)
    BY <1>1, OwnSlot DEF Fits
<1>3. state' = [state EXCEPT ![k] = "dying"]
    BY <1>2 DEF SetDying
<1>4. CallShape(c)' /\ call'[c].slot = k /\ call'[c].at = "halt"
    BY <1>1, <1>2, CallMoves DEF ScriptInv, Shape, Points
<1>5. Shape(c)'
    BY <1>1, <1>2, <1>3, <1>4 DEF ScriptInv, Shape, Types
<1>6. Others(k) /\ Owns(c, k)'
    BY <1>1, <1>2, <1>3, <1>4 DEF Others, Owns, ScriptInv, Shape, Types
<1>7. Fits(k, "halt")'
    BY <1>1, <1>2, <1>3 DEF Fits, InUse, LiveThread, ScriptInv, Shape, Types
<1>8. QED
    BY <1>2, <1>4, <1>5, <1>6, <1>7, GoesOn

\* The script that is deleted is told to halt, ...
LEMMA DeleteHaltsKeeps ==
    ASSUME NEW c \in Clients, ScriptInv(c), DeleteHalts(c)
    PROVE  ScriptInv(c)'
<1>1. call[c].at = "halt" /\ UNCHANGED <<state, par, pth, at, cancelled, fault>> /\ call' = [call EXCEPT ![c].at = "poll"]
    BY DEF DeleteHalts, AskHalt, Doing, Then, script, thread
<1>2. PICK k \in Slots : k = call[c].slot /\ Owns(c, k) /\ state[k] = "dying" /\ LiveThread(k) /\ pth[k] = "live"
    BY <1>1, OwnSlot DEF Fits
<1>3. ~ fault'
    BY <1>1 DEF ScriptInv, Shape, Types
<1>4. CallShape(c)' /\ call'[c].slot = k /\ call'[c].at = "poll"
    BY <1>1, <1>2, CallMoves DEF ScriptInv, Shape, Points
<1>5. Shape(c)'
    BY <1>1, <1>2, <1>3, <1>4 DEF ScriptInv, Shape, Types
<1>6. Others(k) /\ Owns(c, k)'
    BY <1>1, <1>2, <1>3, <1>4 DEF Others, Owns, ScriptInv, Shape, Types
<1>7. Fits(k, "poll")'
    BY <1>1, <1>2, <1>3 DEF Fits, LiveThread, ScriptInv, Shape, Types
<1>8. QED
    BY <1>2, <1>4, <1>5, <1>6, <1>7, GoesOn

\* ... and it does not run any more.
LEMMA PollKeeps ==
    ASSUME NEW c \in Clients, ScriptInv(c), Poll(c)
    PROVE  ScriptInv(c)'
<1>1. call[c].at = "poll" /\ UNCHANGED <<state, par, pth, at, cancelled, fault>> /\ call' = [call EXCEPT ![c].at = "cancel"]
    BY DEF Poll, Doing, Then, script, thread
<1>2. PICK k \in Slots : k = call[c].slot /\ Owns(c, k) /\ state[k] = "dying" /\ LiveThread(k) /\ pth[k] = "live"
    BY <1>1, OwnSlot DEF Fits
<1>3. ~ fault'
    BY <1>1 DEF ScriptInv, Shape, Types
<1>4. CallShape(c)' /\ call'[c].slot = k /\ call'[c].at = "cancel"
    BY <1>1, <1>2, CallMoves DEF ScriptInv, Shape, Points
<1>5. Shape(c)'
    BY <1>1, <1>2, <1>3, <1>4 DEF ScriptInv, Shape, Types
<1>6. Others(k) /\ Owns(c, k)'
    BY <1>1, <1>2, <1>3, <1>4 DEF Others, Owns, ScriptInv, Shape, Types
<1>7. Fits(k, "cancel")'
    BY <1>1, <1>2, <1>3 DEF Fits, LiveThread, ScriptInv, Shape, Types
<1>8. QED
    BY <1>2, <1>4, <1>5, <1>6, <1>7, GoesOn

\* Its thread is cancelled; nobody has joined it before.
LEMMA CancelKeeps ==
    ASSUME NEW c \in Clients, ScriptInv(c), Cancel(c)
    PROVE  ScriptInv(c)'
<1>1. call[c].at = "cancel" /\ UNCHANGED <<state, par, pth, at>>
    BY DEF Cancel, Doing, script
<1>2. PICK k \in Slots : k = call[c].slot /\ Owns(c, k) /\ state[k] = "dying" /\ LiveThread(k) /\ pth[k] = "live"
    BY <1>1, OwnSlot DEF Fits
<1>3. ~ fault' /\ cancelled' = [cancelled EXCEPT ![k] = TRUE] /\ call' = [call EXCEPT ![c].at = "join"]
    BY <1>2 DEF Cancel, Then
<1>4. CallShape(c)' /\ call'[c].slot = k /\ call'[c].at = "join"
    BY <1>2, <1>3, CallMoves DEF ScriptInv, Shape, Points
<1>5. Shape(c)'
    BY <1>1, <1>2, <1>3, <1>4 DEF ScriptInv, Shape, Types
<1>6. Others(k) /\ Owns(c, k)'
    BY <1>1, <1>2, <1>3, <1>4 DEF Others, Owns, ScriptInv, Shape, Types
<1>7. Fits(k, "join")'
    BY <1>1, <1>2 DEF Fits, LiveThread, Living
<1>8. QED
    BY <1>2, <1>4, <1>5, <1>6, <1>7, GoesOn

\* Its thread is dead and is joined for the first time.
LEMMA JoinKeeps ==
    ASSUME NEW c \in Clients, ScriptInv(c), Join(c)
    PROVE  ScriptInv(c)'
<1>1. call[c].at = "join" /\ UNCHANGED <<state, par, at, cancelled>> /\ call' = [call EXCEPT ![c].at = "release"]
    BY DEF Join, Doing, Then, script, thread
<1>2. PICK k \in Slots : k = call[c].slot /\ Owns(c, k) /\ state[k] = "dying" /\ pth[k] = "live"
    BY <1>1, OwnSlot DEF Fits
<1>3. at[k] = "dead" /\ ~ fault' /\ pth' = [pth EXCEPT ![k] = "freed"]
    BY <1>2 DEF Join
<1>4. CallShape(c)' /\ call'[c].slot = k /\ call'[c].at = "release"
    BY <1>1, <1>2, CallMoves DEF ScriptInv, Shape, Points
<1>5. Shape(c)'
    BY <1>1, <1>2, <1>3, <1>4 DEF ScriptInv, Shape, Types
<1>6. Others(k) /\ Owns(c, k)'
    BY <1>1, <1>2, <1>3, <1>4 DEF Others, Owns, ScriptInv, Shape, Types
<1>7. Fits(k, "release")'
    BY <1>1, <1>2, <1>3 DEF Fits, LiveThread, ScriptInv, Shape, Types
<1>8. QED
    BY <1>2, <1>4, <1>5, <1>6, <1>7, GoesOn

\* The slot is free, and its thread is gone.
LEMMA ReleaseKeeps ==
    ASSUME NEW c \in Clients, ScriptInv(c), FreeSlot(c)
    PROVE  ScriptInv(c)'
<1>1. call[c].at = "release" /\ UNCHANGED <<pth, at, cancelled, fault>> /\ call' = [call EXCEPT ![c] = NoCall]
    BY DEF FreeSlot, AskHalt, Doing, Return, script, thread
<1>2. PICK k \in Slots : k = call[c].slot /\ Owns(c, k) /\ at[k] = "dead"
    BY <1>1, OwnSlot DEF Fits
<1>3. state' = [state EXCEPT ![k] = "free"] /\ par' = [par EXCEPT ![k] = "null"]
    BY <1>2 DEF FreeSlot
<1>4. CallShape(c)' /\ call'[c] = NoCall
    BY <1>1, CallReturns DEF ScriptInv, Shape
<1>5. Shape(c)'
    BY <1>1, <1>2, <1>3, <1>4 DEF ScriptInv, Shape, Types
<1>6. Others(k) /\ AtRest(k)'
    BY <1>1, <1>2, <1>3 DEF Others, AtRest, Empty, Gone, ScriptInv, Shape, Types
<1>7. QED
    BY <1>2, <1>4, <1>5, <1>6, Returns

-------------------------------------------------------------------------------
(* The other clients and the whole.                                        *)

\* The client c makes all the calls but those that stop scripts.
OnlyStops(c) == \A d \in Clients \ {c} : Calls[d] \subseteq {"stop"}

\* A stop of another client changes nothing the argument is about but its own call.
LEMMA StopperKeeps ==
    ASSUME NEW c \in Clients, OnlyStops(c), ScriptInv(c), NEW d \in Clients \ {c},
           \/ Client(d)
           \/ \E op \in {"run", "stop", "delete"}, s \in Slots : Begin(d, op, s)
           \/ Begin(d, "store", "none")
    PROVE  ScriptInv(c)'
<1>1. call \in [Clients -> Call] /\ (call[d] = NoCall \/ call[d].op = "stop")
    BY DEF ScriptInv, Shape, CallShape
<1>2. ASSUME UNCHANGED <<state, par, pth, cancelled, fault, at>>, NEW v \in Call,
             v = NoCall \/ v.op = "stop", call' = [call EXCEPT ![d] = v]
      PROVE  ScriptInv(c)'
    <2>1. call'[c] = call[c] /\ CallShape(c)'
        BY <1>2 DEF ScriptInv, Shape, CallShape, NoCall
    <2>2. QED
        BY <1>2, <2>1, ThreadGoesOn DEF ScriptInv, Shape, Types
<1>3. NoCall \in Call
    BY DEF NoCall, Call, Points
<1>4. CASE Client(d)
    <2>1. call[d].op = "stop" /\ (Check(d) \/ Stop(d))
        <3>1. \/ Check(d) /\ call[d].at = "check"
              \/ Stop(d) /\ call[d].op = "stop"
              \/ call[d].op \in {"store", "run", "delete"}
            <4>1. Reserve(d) \/ Parse(d) \/ Create(d) \/ Assign(d) => call[d].op = "store"
                BY DEF Reserve, Parse, Create, Assign, Doing
            <4>2. SetDying(d) \/ DeleteHalts(d) \/ Poll(d) \/ Cancel(d) \/ Join(d) \/ FreeSlot(d)
                      => call[d].op = "delete"
                BY DEF SetDying, DeleteHalts, AskHalt, Poll, Cancel, Join, FreeSlot, Doing
            <4>3. (Run(d) => call[d].op = "run") /\ (Check(d) => call[d].at = "check")
                  /\ (Stop(d) => call[d].op = "stop")
                BY DEF Run, Check, Stop, AskHalt, Doing
            <4>4. QED
                BY <1>4, <4>1, <4>2, <4>3 DEF Client
        <3>2. QED
            BY <1>1, <3>1 DEF NoCall
    <2>2. UNCHANGED <<state, par, pth, cancelled, fault, at>>
        BY <2>1 DEF Check, Stop, AskHalt, script, thread
    <2>3. PICK v : call' = [call EXCEPT ![d] = v] /\ (v = NoCall \/ v = [call[d] EXCEPT !.at = "lock"])
        <3>1. CASE Check(d)
            BY <2>1, <3>1 DEF Check, Then, Return
        <3>2. CASE Stop(d)
            BY <3>2 DEF Stop, Return
        <3>3. QED
            BY <2>1, <3>1, <3>2
    <2>4. v \in Call /\ (v = NoCall \/ v.op = "stop")
        BY <1>1, <1>3, <2>1, <2>3 DEF Call, Points
    <2>5. QED
        BY <1>2, <2>2, <2>3, <2>4
<1>5. ASSUME NEW op \in {"run", "stop", "delete"}, NEW s \in Slots, Begin(d, op, s) PROVE ScriptInv(c)'
    <2>1. op = "stop"
        BY <1>5 DEF OnlyStops, Begin
    <2>2. [op |-> op, slot |-> s, at |-> "check"] \in Call
        BY DEF Call, Points
    <2>3. /\ call' = [call EXCEPT ![d] = [op |-> op, slot |-> s, at |-> "check"]]
          /\ UNCHANGED <<state, par, pth, cancelled, fault, at>>
        BY <1>5, <2>1 DEF Begin, script, thread
    <2>4. QED
        BY <1>2, <2>1, <2>2, <2>3
<1>6. ~ Begin(d, "store", "none")
    BY DEF OnlyStops, Begin
<1>7. QED
    BY <1>4, <1>5, <1>6

\* Every step keeps the invariant.
LEMMA NextScriptInv ==
    ASSUME NEW c \in Clients, OnlyStops(c)
    PROVE  ScriptInv(c) /\ [ScriptNext]_scriptVars => ScriptInv(c)'
<1> SUFFICES ASSUME ScriptInv(c), [ScriptNext]_scriptVars PROVE ScriptInv(c)'
    OBVIOUS
<1>1. ASSUME NEW s \in Slots, Thread(s) PROVE ScriptInv(c)'
    BY <1>1, ThreadKeeps
<1>2. CASE Alert \/ \E s \in Slots, kind \in {"gpio", "event"} : Happens(kind, s)
    BY <1>2, AlertKeeps
<1>3. CASE Client(c)
    BY <1>3, ReserveKeeps, ParseKeeps, CreateKeeps, AssignKeeps, CheckKeeps, RunKeeps, StopKeeps,
       SetDyingKeeps, DeleteHaltsKeeps, PollKeeps, CancelKeeps, JoinKeeps, ReleaseKeeps DEF Client
<1>4. CASE Begin(c, "store", "none") \/ \E op \in {"run", "stop", "delete"}, s \in Slots : Begin(c, op, s)
    BY <1>4, BeginKeeps, BeginStoreKeeps
<1>5. ASSUME NEW d \in Clients \ {c},
             \/ Client(d)
             \/ \E op \in {"run", "stop", "delete"}, s \in Slots : Begin(d, op, s)
             \/ Begin(d, "store", "none")
      PROVE  ScriptInv(c)'
    BY <1>5, StopperKeeps
<1>6. CASE UNCHANGED scriptVars
    <2>1. UNCHANGED <<state, par, pth, cancelled, call, fault, at>> /\ CallShape(c)'
        BY <1>6 DEF scriptVars, script, thread, clients, ScriptInv, Shape, CallShape
    <2>2. QED
        BY <2>1, ThreadGoesOn DEF ScriptInv, Shape, Types
<1>7. QED
    BY <1>1, <1>2, <1>3, <1>4, <1>5, <1>6 DEF ScriptNext

\* The invariant holds in every state of every behaviour.
LEMMA ScriptInvariance == ASSUME NEW c \in Clients, OnlyStops(c) PROVE ScriptSpec => []ScriptInv(c)
<1>1. ScriptInit => ScriptInv(c)
    BY InitScriptInv
<1>2. ScriptInv(c) /\ [ScriptNext]_scriptVars => ScriptInv(c)'
    BY NextScriptInv
<1>3. QED
    BY <1>1, <1>2, PTL DEF ScriptSpec

\* When one client makes the calls and any number of others stop scripts at any time, no
\* freed or null memory is used and no slot has two threads (gpioStoreScript,
\* gpioRunScript, gpioStopScript, gpioDeleteScript), whatever the scripts do.
THEOREM StopsDoNoHarm == ASSUME NEW c \in Clients, OnlyStops(c) PROVE ScriptSpec => []NoFault
<1>1. ScriptInv(c) => NoFault
    BY DEF ScriptInv, Shape, Types, NoFault
<1>2. ScriptSpec => []ScriptInv(c)
    BY ScriptInvariance
<1>3. QED
    BY <1>1, <1>2, PTL

\* Nor is a slot free that has a thread or parameters (gpioDeleteScript).
THEOREM DeleteFreesAll == ASSUME NEW c \in Clients, OnlyStops(c) PROVE ScriptSpec => []FreeIsEmpty
<1>1. ScriptInv(c) => FreeIsEmpty
    BY DEF ScriptInv, Shape, CallShape, Call, SlotInv, Owns, Fits, AtRest, InUse, Empty, Gone, Points, FreeIsEmpty
<1>2. ScriptSpec => []ScriptInv(c)
    BY ScriptInvariance
<1>3. QED
    BY <1>1, <1>2, PTL
===============================================================================
