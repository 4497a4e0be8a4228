-------------------------------- MODULE Outlets --------------------------------
(***************************************************************************)
(* The outlets (Outlet.java) and the driver they share ("IRDriver .cpp"):  *)
(* one static RCSwitch, and one static buffer for the code word.  A        *)
(* request holds the monitor of its own outlet only, so two outlets are in *)
(* the driver at the same time.  All outlets transmit on one pin.          *)
(***************************************************************************)
EXTENDS Naturals, Sequences

CONSTANTS Outlets,
          CodeOf,        \* the code words of each outlet: for on and for off
          Length,        \* the bits of a code word, 24 in the code
          Sends,         \* signalRedundancy, 3 in the code
          Frames,        \* nRepeatTransmit, 10 in the code
          MaxRequests,   \* bound
          None

ASSUME OutletAssumption ==
  /\ Length \in Nat \ {0} /\ Sends \in Nat \ {0} /\ Frames \in Nat \ {0}
  /\ CodeOf \in [Outlets -> [BOOLEAN -> [1..Length -> 0..1]]]
  /\ MaxRequests \in Nat

VARIABLES
  built,     \* the outlets that were constructed
  isOn,      \* what each outlet reports
  pc,        \* "idle", "send", "digits", "copy", "bits", "sync"
  goal,      \* the position the running request asks for
  sent,      \* its calls of send that have begun
  frame, at, \* the frame of the call and the bit it is at
  digits,    \* the upper half of the static buffer: the digits of a code
  bin,       \* the lower half, from which the word is sent
  word,      \* what each outlet has sent of the frame it is at
  mixed,     \* the outlets whose frame has the pulses of another one in it
  clear,     \* TRUE: no two outlets were in the driver since its last send began
  crowd,     \* the outlet and position of every request since the driver was last empty
  socket,    \* the position of the switched socket, None before its first word
  requests

vars == <<built, isOn, pc, goal, sent, frame, at, digits, bin, word, mixed, clear,
          crowd, socket, requests>>
request == <<built, isOn, goal, crowd, requests>>

Code(o, on) == CodeOf[o][on]
Places == 1..Length

Init ==
  /\ built = {}
  /\ isOn = [o \in Outlets |-> FALSE]
  /\ pc = [o \in Outlets |-> "idle"]
  /\ goal = [o \in Outlets |-> FALSE]
  /\ sent = [o \in Outlets |-> 0]
  /\ frame = [o \in Outlets |-> 0] /\ at = [o \in Outlets |-> 0]
  /\ digits = [j \in Places |-> 0]
  /\ bin = [j \in Places |-> 0]
  /\ word = [o \in Outlets |-> <<>>]
  /\ mixed = {} /\ crowd = {}
  /\ clear = [o \in Outlets |-> FALSE]
  /\ socket = [o \in Outlets |-> None]
  /\ requests = 0

Active == {o \in Outlets : pc[o] # "idle"}
Goto(o, p) == pc' = [pc EXCEPT ![o] = p]

\* initilizeIR: the outlet may be asked from now on.
Build(o) ==
  /\ o \notin built
  /\ built' = built \cup {o}
  /\ UNCHANGED <<isOn, pc, goal, sent, frame, at, digits, bin, word, mixed, clear, crowd,
                 socket, requests>>

\* performAction, or tearDown with the code for off: sendIRSignal sets the field
\* before it sends.
Execute(o, on) ==
  /\ o \in built
  /\ pc[o] = "idle"
  /\ requests < MaxRequests
  /\ requests' = requests + 1
  /\ isOn' = [isOn EXCEPT ![o] = on]
  /\ goal' = [goal EXCEPT ![o] = on]
  /\ Goto(o, "send")
  /\ sent' = [sent EXCEPT ![o] = 0]
  /\ clear' = [p \in Outlets |-> p # o /\ Active = {} /\ clear[p]]
  /\ crowd' = (IF Active = {} THEN {} ELSE crowd) \cup {<<o, on>>}
  /\ UNCHANGED <<built, frame, at, digits, bin, word, mixed, socket>>

--------------------------------------------------------------------------------
(* Each call of send fills the buffer anew, in dec2binWzerofill: the digits go   *)
(* to the upper half, last first, and are copied one by one into the lower half, *)
(* after a 0 for every place before the first digit.                             *)

\* Mutant: the buffer is filled by the first call only.
SendUnfilled(o) ==
  /\ pc[o] = "send"
  /\ sent' = [sent EXCEPT ![o] = @ + 1]
  /\ clear' = [clear EXCEPT ![o] = Active = {o}]
  /\ frame' = [frame EXCEPT ![o] = 1]
  /\ at' = [at EXCEPT ![o] = IF sent[o] = 0 THEN Length ELSE 1]
  /\ Goto(o, IF sent[o] = 0 THEN "digits" ELSE "bits")
  /\ UNCHANGED <<request, digits, bin, word, mixed, socket>>

Send(o) ==
  /\ pc[o] = "send"
  /\ sent' = [sent EXCEPT ![o] = @ + 1]
  /\ clear' = [clear EXCEPT ![o] = Active = {o}]
  /\ frame' = [frame EXCEPT ![o] = 1]
  /\ at' = [at EXCEPT ![o] = Length]
  /\ Goto(o, "digits")
  /\ UNCHANGED <<request, digits, bin, word, mixed, socket>>

\* No digit of the code is at the place or before it.
Leading(code, place) == \A k \in 1..place : code[k] = 0

Digits(o) ==
  /\ pc[o] = "digits"
  /\ LET code == Code(o, goal[o])
     IN IF Leading(code, at[o])
        THEN at' = [at EXCEPT ![o] = 1] /\ Goto(o, "copy") /\ UNCHANGED digits
        ELSE at' = [at EXCEPT ![o] = @ - 1] /\ digits' = [digits EXCEPT ![at[o]] = code[at[o]]]
             /\ UNCHANGED pc
  /\ UNCHANGED <<request, sent, frame, bin, word, mixed, clear, socket>>

NextPlace(o, phase) ==
  IF at[o] < Length
  THEN at' = [at EXCEPT ![o] = @ + 1] /\ UNCHANGED pc
  ELSE at' = [at EXCEPT ![o] = 1] /\ Goto(o, phase)

\* Mutant: the places before the first digit are not filled with zeros.
CopyUnfilled(o) ==
  /\ pc[o] = "copy"
  /\ bin' = [bin EXCEPT ![at[o]] = digits[at[o]]]
  /\ NextPlace(o, "bits")
  /\ UNCHANGED <<request, sent, frame, digits, word, mixed, clear, socket>>

Copy(o) ==
  /\ pc[o] = "copy"
  /\ bin' = [bin EXCEPT ![at[o]] = IF Leading(Code(o, goal[o]), at[o]) THEN 0 ELSE digits[at[o]]]
  /\ NextPlace(o, "bits")
  /\ UNCHANGED <<request, sent, frame, digits, word, mixed, clear, socket>>

--------------------------------------------------------------------------------
(* The word is read from the buffer, one bit at a time, for every frame.         *)

\* Two outlets that send at the same time switch the same pin: the pulses of each are
\* in the frame of the other.
SendBit(o) ==
  /\ pc[o] = "bits"
  /\ LET others == {p \in Outlets \ {o} : pc[p] \in {"bits", "sync"}}
     IN mixed' = mixed \cup others \cup (IF others = {} THEN {} ELSE {o})
  /\ word' = [word EXCEPT ![o] = Append(@, bin[at[o]])]
  /\ NextPlace(o, "sync")
  /\ UNCHANGED <<request, sent, frame, digits, bin, clear, socket>>

\* A socket obeys a word of its own that is not mixed, whoever sends it.
Hears(o, p, on) == o \notin mixed /\ word[o] = Code(p, on)
Positions(o) ==
  [p \in Outlets |-> IF \E on \in BOOLEAN : Hears(o, p, on)
                     THEN CHOOSE on \in BOOLEAN : Hears(o, p, on) ELSE socket[p]]

SendSync(o) ==
  /\ pc[o] = "sync"
  /\ socket' = Positions(o)
  /\ mixed' = mixed \ {o}
  /\ word' = [word EXCEPT ![o] = <<>>]
  /\ IF frame[o] < Frames
     THEN frame' = [frame EXCEPT ![o] = @ + 1] /\ Goto(o, "bits")
     ELSE UNCHANGED frame /\ Goto(o, IF sent[o] < Sends THEN "send" ELSE "idle")
  /\ UNCHANGED <<request, sent, at, digits, bin, clear>>

--------------------------------------------------------------------------------
Drive(o) == Send(o) \/ Digits(o) \/ Copy(o) \/ SendBit(o) \/ SendSync(o)

Next ==
  \E o \in Outlets : Build(o) \/ Drive(o) \/ \E on \in BOOLEAN : Execute(o, on)

Spec == Init /\ [][Next]_vars

--------------------------------------------------------------------------------
(* Properties. *)

\* The type of the state.
TypeOK ==
  /\ built \subseteq Outlets
  /\ isOn \in [Outlets -> BOOLEAN] /\ goal \in [Outlets -> BOOLEAN]
  /\ pc \in [Outlets -> {"idle", "send", "digits", "copy", "bits", "sync"}]
  /\ sent \in [Outlets -> 0..Sends]
  /\ frame \in [Outlets -> 0..Frames] /\ at \in [Outlets -> 0..Length]
  /\ \A o \in Outlets : Len(word[o]) <= Length /\ socket[o] \in {TRUE, FALSE, None}
  /\ clear \in [Outlets -> BOOLEAN] /\ crowd \subseteq Outlets \X BOOLEAN
  /\ requests \in 0..MaxRequests

\* However the requests overlap in the shared buffer (RCSwitch.cpp:716), and however
\* often it is refilled under a transmission, every bit that goes out is the bit which
\* one of the requests since the driver was last empty has at that place; so a request
\* that is alone sends its code word, whatever earlier ones have left in the buffer.
BitsOfRequests ==
  \A o \in Outlets : \A j \in 1..Len(word[o]) :
     \E r \in crowd : word[o][j] = Code(r[1], r[2])[j]

\* An outlet reports the position its socket is in if the last of its calls of send had
\* the driver to itself, even if requests of other outlets spoiled the calls before it
\* (Outlet.java:65), and as long as no two outlets are in the driver again.  A request
\* whose last call is overlapped may leave the socket elsewhere: nothing tells it.
SocketFollows ==
  \A o \in Outlets : pc[o] = "idle" /\ clear[o] => socket[o] = isOn[o]
================================================================================
