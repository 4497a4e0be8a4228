----------------------------- MODULE ArpScanner -----------------------------
(***************************************************************************)
(* ARPScanner.cpp under DeviceDetector.java: the poll of the detector sits *)
(* in scan() until a frame of a registered address arrives.  The flag that *)
(* ends the scan's loop is the one shutdownScanner raises, and the flag,   *)
(* the socket and the frame buffer are static: they outlive the detector,  *)
(* and a detector that replaces it shares them with a poll of the old one  *)
(* that is still in the loop.                                              *)
(***************************************************************************)
EXTENDS Naturals, FiniteSets

CONSTANTS
    Addresses,      \* the MACs of the devices on the network
    Lives,          \* 1..n: how often the detector may be built
    MaySetupFail,   \* whether the raw socket may be refused
    MayBeDirty,     \* whether the bytes lookForMACAddresses leaves unset may be nonzero
    None

ASSUME ArpAssumption ==
    /\ Lives \subseteq Nat \ {0} /\ 1 \in Lives /\ None \notin Addresses
    /\ MaySetupFail \in BOOLEAN /\ MayBeDirty \in BOOLEAN

VARIABLES
    stop,           \* the flag
    sock,           \* the socket in sockfd: "open" or "closed"
    buf,            \* the source of the last frame, or None
    macAddresses,   \* the registered addresses
    life,           \* the current detector
    closing,        \* how far its close is: "no", "cancelled", "stopped", "done"
    at,             \* the program point of the poll of each detector
    mac,            \* what its scan has found
    lastMAC         \* what the detector reports

vars == <<stop, sock, buf, macAddresses, life, closing, at, mac, lastMAC>>

Points == {"idle", "receive", "blocked", "check", "look", "found", "test", "clear", "done"}

Init ==
    /\ stop = FALSE /\ buf = None /\ macAddresses = {}
    /\ sock \in {"open"} \cup {s \in {"closed"} : MaySetupFail}
    /\ life = 1 /\ closing = "no"
    /\ at = [l \in Lives |-> "idle"]
    /\ mac = [l \in Lives |-> None]
    /\ lastMAC = [l \in Lives |-> None]

Goto(l, p) == at' = [at EXCEPT ![l] = p]

-----------------------------------------------------------------------------
(* scan(), called by the poll.                                             *)

\* cancel(false) only keeps the next poll from starting.
PollDue(l) ==
    /\ at[l] = "idle" /\ l = life /\ closing = "no"
    /\ Goto(l, "receive")
    /\ mac' = [mac EXCEPT ![l] = None]
    /\ UNCHANGED <<stop, sock, buf, macAddresses, life, closing, lastMAC>>

\* recvfrom blocks on an open socket and fails on a closed one; the buffer then
\* keeps the frame it had.
Receive(l) ==
    /\ at[l] = "receive"
    /\ Goto(l, IF sock = "open" THEN "blocked" ELSE "check")
    /\ UNCHANGED <<stop, sock, buf, macAddresses, life, closing, mac, lastMAC>>

\* A thread inside recvfrom keeps the socket: closing it does not wake it.
Frame(l, a) ==
    /\ at[l] = "blocked"
    /\ buf' = a
    /\ Goto(l, "check")
    /\ UNCHANGED <<stop, sock, macAddresses, life, closing, mac, lastMAC>>

\* Mutant: a scan that does not see the shutdown and looks the frame up.
CheckStopIgnored(l) ==
    /\ at[l] = "check"
    /\ Goto(l, "look")
    /\ UNCHANGED <<stop, sock, buf, macAddresses, life, closing, mac, lastMAC>>

\* A scan that sees the flag returns "", whatever it found before.
CheckStop(l) ==
    /\ at[l] = "check"
    /\ Goto(l, IF stop THEN "done" ELSE "look")
    /\ mac' = [mac EXCEPT ![l] = IF stop THEN None ELSE @]
    /\ UNCHANGED <<stop, sock, buf, macAddresses, life, closing, lastMAC>>

\* The key is a number of eight bytes of which the address sets six: the other two
\* are what the stack holds, and unless they are 0 the address is not found.
lookForMACAddresses(l) ==
    /\ at[l] = "look"
    /\ \E dirty \in {FALSE, MayBeDirty} :
          IF buf \in macAddresses /\ ~ dirty
          THEN mac' = [mac EXCEPT ![l] = buf] /\ Goto(l, "found")
          ELSE Goto(l, "test") /\ UNCHANGED mac
    /\ UNCHANGED <<stop, sock, buf, macAddresses, life, closing, lastMAC>>

SetStop(l) ==
    /\ at[l] = "found"
    /\ stop' = TRUE
    /\ Goto(l, "test")
    /\ UNCHANGED <<sock, buf, macAddresses, life, closing, mac, lastMAC>>

Test(l) ==
    /\ at[l] = "test"
    /\ Goto(l, IF stop THEN "clear" ELSE "receive")
    /\ UNCHANGED <<stop, sock, buf, macAddresses, life, closing, mac, lastMAC>>

\* Mutant: the flag stays up after a detection.
ClearForgotten(l) ==
    /\ at[l] = "clear"
    /\ Goto(l, "done")
    /\ UNCHANGED <<stop, sock, buf, macAddresses, life, closing, mac, lastMAC>>

Clear(l) ==
    /\ at[l] = "clear"
    /\ stop' = FALSE
    /\ Goto(l, "done")
    /\ UNCHANGED <<sock, buf, macAddresses, life, closing, mac, lastMAC>>

\* DeviceDetector.update keeps what scan returns, "" included.
Update(l) ==
    /\ at[l] = "done"
    /\ lastMAC' = [lastMAC EXCEPT ![l] = mac[l]]
    /\ Goto(l, "idle")
    /\ UNCHANGED <<stop, sock, buf, macAddresses, life, closing, mac>>

-----------------------------------------------------------------------------
(* What other threads do to the detector.                                  *)

registerMACAddress(a) ==
    /\ closing = "no"
    /\ macAddresses' = macAddresses \cup {a}
    /\ UNCHANGED <<stop, sock, buf, life, closing, at, mac, lastMAC>>

\* close: the poll is cancelled, the flag goes up, the socket is closed.
Cancel ==
    /\ closing = "no"
    /\ closing' = "cancelled"
    /\ UNCHANGED <<stop, sock, buf, macAddresses, life, at, mac, lastMAC>>

RaiseStop ==
    /\ closing = "cancelled"
    /\ stop' = TRUE
    /\ closing' = "stopped"
    /\ UNCHANGED <<sock, buf, macAddresses, life, at, mac, lastMAC>>

CloseSocket ==
    /\ closing = "stopped"
    /\ sock' = "closed"
    /\ closing' = "done"
    /\ UNCHANGED <<stop, buf, macAddresses, life, at, mac, lastMAC>>

\* A reload builds the next detector: setup() opens a socket and does not touch
\* the flag; the addresses of the repository stay in the Java object.
Rebuild ==
    /\ closing = "done" /\ life + 1 \in Lives
    /\ life' = life + 1
    /\ closing' = "no"
    /\ sock' \in {"open"} \cup {s \in {"closed"} : MaySetupFail}
    /\ UNCHANGED <<stop, buf, macAddresses, at, mac, lastMAC>>

Scan(l) ==
    \/ Receive(l) \/ CheckStop(l) \/ lookForMACAddresses(l)
    \/ SetStop(l) \/ Test(l) \/ Clear(l) \/ Update(l)

Close == RaiseStop \/ CloseSocket

Next ==
    \/ \E l \in Lives : PollDue(l) \/ Scan(l) \/ \E a \in Addresses : Frame(l, a)
    \/ \E a \in Addresses : registerMACAddress(a)
    \/ Cancel \/ Close \/ Rebuild

\* The program's own steps are fair; whether frames arrive is the network's affair.
Spec ==
    /\ Init /\ [][Next]_vars
    /\ \A l \in Lives : WF_vars(PollDue(l)) /\ WF_vars(Scan(l))
    /\ WF_vars(Close)

\* Every device of the network speaks again and again.
TalkativeSpec == Spec /\ \A l \in Lives, a \in Addresses : SF_vars(Frame(l, a))

-----------------------------------------------------------------------------
(* Properties.                                                             *)

\* Every variable stays in its domain.
TypeOK ==
    /\ stop \in BOOLEAN /\ sock \in {"open", "closed"}
    /\ buf \in Addresses \cup {None} /\ macAddresses \subseteq Addresses
    /\ life \in Lives /\ closing \in {"no", "cancelled", "stopped", "done"}
    /\ at \in [Lives -> Points]
    /\ mac \in [Lives -> Addresses \cup {None}]
    /\ lastMAC \in [Lives -> Addresses \cup {None}]

\* Before the first close the flag belongs to the scan (ARPScanner.cpp:152-165):
\* every scan ends with an address and leaves the flag as it found it.
OneShotFlag ==
    life = 1 /\ closing \in {"no", "cancelled"}
        => /\ stop <=> at[1] \in {"test", "clear"} /\ mac[1] # None
           /\ at[1] = "done" => mac[1] \in macAddresses

\* Between its test of the flag and the end of its detection a scan may still lower
\* the flag, and report what it has found.
Window(l) == at[l] \in {"look", "found", "test", "clear"}

Blinded(l) ==
    /\ stop /\ lastMAC[l] = None
    /\ \A k \in Lives : ~ Window(k) /\ (at[k] = "done" => mac[k] = None)

\* Once the close has raised the flag and no scan is in its window, the flag stays up
\* for ever, whatever is closed, built again or registered, and a detector that reports
\* nothing, a later one too, never reports anything.
BlindForever == \A l \in Lives : [](Blinded(l) => []Blinded(l))

\* A frame of a registered address was not found, for the two bytes of the key that
\* lookForMACAddresses leaves to the stack (ARPScanner.cpp:172).
Overlooked(l) == at[l] = "test" /\ mac[l] = None /\ buf \in macAddresses

\* A registered device that keeps sending is detected again and again, whatever others
\* send, as long as the detector is not closed, the socket works, and the two unset bytes
\* do not go on hiding frames: they alone can keep a registered device unseen.
RegisteredIsDetected ==
    \A a \in Addresses :
        /\ [](closing = "no" /\ sock = "open") /\ <>(a \in macAddresses)
        /\ <>[] ~ Overlooked(1)
        => []<>(lastMAC[1] = a)

=============================================================================
