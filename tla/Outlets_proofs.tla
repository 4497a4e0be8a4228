---------------------------- MODULE Outlets_proofs ----------------------------
(***************************************************************************)
(* Proofs about Outlets for every number of outlets, length of the code    *)
(* words, number of calls and of frames: every bit that is sent is one of  *)
(* the overlapping requests, and a request whose last call of send is      *)
(* undisturbed leaves the socket where the outlet reports.                 *)
(***************************************************************************)
EXTENDS Outlets, SequenceTheorems, TLAPS

\* The types of what TypeOK leaves open: the shared buffer and the words.
BufferOK ==
    /\ digits \in [Places -> 0..1] /\ bin \in [Places -> 0..1]
    /\ word \in [Outlets -> Seq(0..1)]
    /\ socket \in [Outlets -> {TRUE, FALSE, None}]

\* Frames are mixed only while they are sent, and what is sent is what is reported.
Sending == {"bits", "sync"}
MixedWhileSent == \A o \in mixed : o \in Outlets /\ pc[o] \in Sending
GoalReported == goal = isOn

\* If an outlet is clear, at most one request is in the driver, and that one is clear
\* as soon as its call of send has begun.
ClearAlone ==
    \A o \in Outlets : clear[o] =>
        /\ \A p, q \in Active : p = q
        /\ \A p \in Outlets : pc[p] \notin {"idle", "send"} => clear[p]

\* How far a frame has come.
Counted == \A o \in Outlets :
    /\ pc[o] = "send" => sent[o] < Sends
    /\ pc[o] \notin Sending => word[o] = <<>>
    /\ pc[o] \in {"copy", "bits"} => at[o] >= 1
    /\ pc[o] = "bits" => at[o] = Len(word[o]) + 1
    /\ pc[o] = "sync" => at[o] = 1 /\ Len(word[o]) = Length

\* The bits that some requests have at a place.
BitsAt(R, j) == {Code(r[1], r[2])[j] : r \in R}

\* What a call of send has put into the buffer and sent so far are bits of requests of R,
\* although other calls write the buffer too.
Filled(o, R) ==
    /\ pc[o] = "digits" => \A j \in Places : j > at[o] => digits[j] \in BitsAt(R, j)
    /\ pc[o] = "copy" =>
          /\ \A j \in Places : Leading(Code(o, goal[o]), j) \/ digits[j] \in BitsAt(R, j)
          /\ \A j \in Places : j < at[o] => bin[j] \in BitsAt(R, j)
    /\ pc[o] \in Sending => \A j \in Places : bin[j] \in BitsAt(R, j)
    /\ \A j \in 1..Len(word[o]) : word[o][j] \in BitsAt(R, j)

\* Who is in the driver is in the crowd, and everything sent is of the crowd.
InCrowd == \A o \in Active : <<o, goal[o]>> \in crowd
CrowdFilled == \A o \in Outlets : Filled(o, crowd)

\* Who is clear has only bits of its own in the buffer, and its frame is not mixed.
ClearFilled == \A o \in Active : clear[o] => o \notin mixed /\ Filled(o, {<<o, goal[o]>>})

\* The inductive invariant.
IInv ==
    /\ TypeOK /\ BufferOK /\ MixedWhileSent /\ GoalReported
    /\ ClearAlone /\ Counted /\ InCrowd /\ CrowdFilled /\ ClearFilled

\* The code words of all outlets and positions differ.
DistinctCodes ==
    \A o, p \in Outlets, on, off \in BOOLEAN : Code(o, on) = Code(p, off) => o = p /\ on = off

-------------------------------------------------------------------------------

\* A code is a table of bits.
LEMMA CodeType == ASSUME NEW o \in Outlets, NEW on \in BOOLEAN PROVE Code(o, on) \in [1..Length -> 0..1]
BY OutletAssumption DEF Code

\* A sequence that agrees with a code in every place is the code.
LEMMA SameWord ==
    ASSUME NEW w \in Seq(0..1), NEW c \in [1..Length -> 0..1], Len(w) = Length,
           \A j \in 1..Length : w[j] = c[j]
    PROVE  w = c
<1>1. w \in [1..Length -> 0..1]
    BY LenProperties
<1>2. QED
    BY <1>1

\* The word before its first bit.
LEMMA EmptyWord == Len(<<>>) = 0 /\ <<>> \in Seq(0..1)
OBVIOUS

\* A new position in the word.
LEMMA AtType ==
    ASSUME at \in [Outlets -> 0..Length], NEW o \in Outlets, NEW n \in 0..Length
    PROVE  [at EXCEPT ![o] = n] \in [Outlets -> 0..Length]
OBVIOUS

\* What an outlet that sends nothing has filled: nothing.
LEMMA IdleFilled ==
    ASSUME NEW o \in Outlets, pc[o] \in {"idle", "send"}, word[o] = <<>>, NEW R
    PROVE  Filled(o, R)
BY EmptyWord DEF Filled, Sending

\* The invariant holds before the first outlet is built.
LEMMA InitIInv == Init => IInv
<1> SUFFICES ASSUME Init PROVE IInv
    OBVIOUS
<1> USE OutletAssumption DEF Init
<1>1. \A o \in Outlets : word[o] = <<>> /\ Len(word[o]) = 0
    BY EmptyWord
<1>2. TypeOK
    BY <1>1 DEF TypeOK
<1>3. BufferOK
    BY EmptyWord DEF BufferOK, Places
<1>4. MixedWhileSent /\ GoalReported /\ ClearAlone /\ Counted /\ InCrowd /\ ClearFilled
    BY <1>1 DEF MixedWhileSent, GoalReported, ClearAlone, Counted, InCrowd, ClearFilled, Active, Sending
<1>5. CrowdFilled
    BY <1>1, IdleFilled DEF CrowdFilled
<1>6. QED
    BY <1>2, <1>3, <1>4, <1>5 DEF IInv

\* The bits of a request stay bits of a larger set of requests.
LEMMA BitOfMore ==
    ASSUME NEW R, NEW S, R \subseteq S, NEW v, NEW j, v \in BitsAt(R, j)
    PROVE  v \in BitsAt(S, j)
BY DEF BitsAt

\* The bits of the request under way.
LEMMA BitOfOwn ==
    ASSUME NEW R, NEW o \in Outlets, <<o, goal[o]>> \in R, NEW j
    PROVE  Code(o, goal[o])[j] \in BitsAt(R, j)
BY DEF BitsAt

\* Nobody new gets into the driver: who is clear stays alone.
LEMMA StaysAlone ==
    ASSUME ClearAlone, clear' = clear,
           \A p \in Outlets : /\ pc'[p] # "idle" => pc[p] # "idle"
                              /\ pc'[p] \notin {"idle", "send"} => pc[p] \notin {"idle", "send"}
    PROVE  ClearAlone'
BY DEF ClearAlone, Active

\* An outlet is built: only the pin changes.
LEMMA BuildIsSafe ==
    ASSUME IInv, NEW o \in Outlets, Build(o)
    PROVE  IInv'
<1> USE DEF IInv, Build
<1>1. TypeOK' /\ BufferOK'
    BY DEF TypeOK, BufferOK
<1>2. MixedWhileSent' /\ GoalReported' /\ Counted' /\ InCrowd'
    BY DEF MixedWhileSent, GoalReported, Counted, InCrowd, Active
<1>3. ClearAlone'
    BY StaysAlone
<1>4. CrowdFilled' /\ ClearFilled'
    BY DEF CrowdFilled, ClearFilled, Filled, Active
<1>5. QED
    BY <1>1, <1>2, <1>3, <1>4

\* A request begins: the others are clear no longer, unless the driver was empty.
LEMMA ExecuteIsSafe ==
    ASSUME IInv, NEW o \in Outlets, NEW on \in BOOLEAN, Execute(o, on)
    PROVE  IInv'
<1> USE OutletAssumption DEF IInv, Execute
<1>0. /\ pc'[o] = "send" /\ goal'[o] = on /\ ~ clear'[o]
      /\ \A p \in Outlets \ {o} : pc'[p] = pc[p] /\ goal'[p] = goal[p]
      /\ pc' \in [Outlets -> {"idle", "send", "digits", "copy", "bits", "sync"}]
    BY DEF TypeOK, Goto
<1>1. TypeOK'
    <2>1. requests' \in 0..MaxRequests
        BY DEF TypeOK
    <2>2. sent' \in [Outlets -> 0..Sends]
        BY DEF TypeOK
    <2>3. clear' \in [Outlets -> BOOLEAN]
        OBVIOUS
    <2>4. isOn' \in [Outlets -> BOOLEAN] /\ goal' \in [Outlets -> BOOLEAN]
        BY DEF TypeOK
    <2>5. crowd' \subseteq Outlets \X BOOLEAN
        BY DEF TypeOK
    <2>6. QED
        BY <1>0, <2>1, <2>2, <2>3, <2>4, <2>5 DEF TypeOK
<1>2. BufferOK'
    BY DEF BufferOK
<1>3. MixedWhileSent' /\ GoalReported' /\ Counted'
    <2>1. MixedWhileSent' /\ GoalReported'
        BY <1>0 DEF MixedWhileSent, GoalReported, Sending
    <2>2. sent'[o] = 0 /\ \A p \in Outlets \ {o} : sent'[p] = sent[p]
        BY DEF TypeOK
    <2>3. word' = word /\ at' = at /\ pc[o] = "idle" /\ 0 < Sends
        OBVIOUS
    <2>5. ASSUME NEW p \in Outlets \ {o}
          PROVE  /\ pc'[p] = "send" => sent'[p] < Sends
                 /\ pc'[p] \notin Sending => word'[p] = <<>>
                 /\ pc'[p] \in {"copy", "bits"} => at'[p] >= 1
                 /\ pc'[p] = "bits" => at'[p] = Len(word'[p]) + 1
                 /\ pc'[p] = "sync" => at'[p] = 1 /\ Len(word'[p]) = Length
        BY <1>0, <2>2, <2>3 DEF Counted
    <2>6. pc'[o] = "send" /\ sent'[o] < Sends /\ word'[o] = <<>>
        BY <1>0, <2>2, <2>3 DEF Counted, Sending
    <2>7. Counted'
        BY <2>5, <2>6 DEF Counted, Sending
    <2>8. QED
        BY <2>1, <2>7
<1>4. ASSUME NEW p \in Outlets, clear'[p] PROVE \A q \in Outlets : pc[q] = "idle"
    BY <1>4 DEF Active
<1>5. ClearAlone'
    BY <1>0, <1>4 DEF ClearAlone, Active
<1>6. InCrowd'
    BY <1>0 DEF InCrowd, Active
<1>7. ClearFilled'
    BY <1>0, <1>4 DEF ClearFilled, Active
<1>8. CrowdFilled'
    <2>1. SUFFICES ASSUME NEW p \in Outlets PROVE Filled(p, crowd)'
        BY DEF CrowdFilled
    <2>2. CASE pc'[p] \in {"idle", "send"}
        <3>1. word'[p] = <<>>
            BY <1>3, <2>2 DEF Counted, Sending
        <3>2. QED
            BY <2>2, <3>1, EmptyWord DEF Filled, Sending
    <2>3. CASE pc'[p] \notin {"idle", "send"}
        <3>1. p # o /\ p \in Active
            BY <1>0, <2>3 DEF Active
        <3>2. crowd \subseteq crowd'
            BY <3>1
        <3>3. Filled(p, crowd)
            BY DEF CrowdFilled
        <3>4. \A v, j : v \in BitsAt(crowd, j) => v \in BitsAt(crowd', j)
            BY <3>2, BitOfMore
        <3>5. QED
            BY <1>0, <3>1, <3>3, <3>4 DEF Filled
    <2>4. QED
        BY <2>2, <2>3
<1>9. QED
    BY <1>1, <1>2, <1>3, <1>5, <1>6, <1>7, <1>8

-------------------------------------------------------------------------------
(* A step of a call of send keeps what every call has filled of requests   *)
(* R, if the request of the step is one of R.                              *)

\* A digit is written, or the digits are complete.
LEMMA DigitsFills ==
    ASSUME IInv, NEW o \in Outlets, Digits(o), NEW R, <<o, goal[o]>> \in R,
           NEW p \in Outlets, Filled(p, R)
    PROVE  Filled(p, R)'
<1> USE OutletAssumption DEF IInv, Digits, request
<1> DEFINE code == Code(o, goal[o])
<1>0. /\ at[o] \in 0..Length /\ code \in [1..Length -> 0..1]
      /\ \A q \in Outlets \ {o} : pc'[q] = pc[q] /\ at'[q] = at[q]
    BY CodeType DEF TypeOK, Goto
<1>1. CASE Leading(code, at[o])
    <2>1. pc'[o] = "copy" /\ at'[o] = 1 /\ digits' = digits
        BY <1>1 DEF TypeOK, Goto
    <2>2. \A j \in Places : Leading(code, j) \/ j > at[o]
        BY <1>0, <1>1 DEF Leading, Places
    <2>3. CASE p = o
        <3>1. \A j \in Places : Leading(Code(o, goal[o]), j)' \/ digits'[j] \in BitsAt(R, j)
            BY <2>1, <2>2, <2>3 DEF Filled, Leading, Code
        <3>2. \A j \in Places : ~ (j < at'[o])
            BY <2>1 DEF Places
        <3>3. QED
            BY <2>1, <2>3, <3>1, <3>2 DEF Filled, Sending
    <2>4. CASE p # o
        BY <1>0, <2>1, <2>4 DEF Filled
    <2>5. QED
        BY <2>3, <2>4
<1>2. CASE ~ Leading(code, at[o])
    <2>1. at[o] \in Places
        BY <1>0, <1>2 DEF Leading, Places
    <2>2. pc' = pc /\ at'[o] = at[o] - 1 /\ digits' = [digits EXCEPT ![at[o]] = code[at[o]]]
        BY <1>2 DEF TypeOK, Goto
    <2>3. digits'[at[o]] \in BitsAt(R, at[o]) /\ \A j \in Places \ {at[o]} : digits'[j] = digits[j]
        BY <2>1, <2>2, BitOfOwn DEF BufferOK
    <2>4. CASE p = o
        <3>1. \A j \in Places : j > at'[o] => j > at[o] \/ j = at[o]
            BY <1>0, <2>1, <2>2 DEF Places
        <3>2. QED
            BY <2>2, <2>3, <2>4, <3>1 DEF Filled, Sending
    <2>5. CASE p # o
        BY <1>0, <2>2, <2>3, <2>5 DEF Filled
    <2>6. QED
        BY <2>4, <2>5
<1>3. QED
    BY <1>1, <1>2

\* A digit is copied, or a place before the first digit is filled with a 0.
LEMMA CopyFills ==
    ASSUME IInv, NEW o \in Outlets, Copy(o), NEW R, <<o, goal[o]>> \in R, Filled(o, R),
           NEW p \in Outlets, Filled(p, R)
    PROVE  Filled(p, R)'
<1> USE OutletAssumption DEF IInv, Copy, request
<1> DEFINE code == Code(o, goal[o])
<1>0. /\ at[o] \in Places
      /\ \A q \in Outlets \ {o} : pc'[q] = pc[q] /\ at'[q] = at[q]
      /\ \/ at[o] < Length /\ at'[o] = at[o] + 1 /\ pc'[o] = "copy"
         \/ at[o] = Length /\ at'[o] = 1 /\ pc'[o] = "bits"
    BY DEF TypeOK, Counted, NextPlace, Goto, Places
<1>1. bin'[at[o]] \in BitsAt(R, at[o])
    <2>1. CASE Leading(code, at[o])
        <3>1. bin'[at[o]] = 0 /\ code[at[o]] = 0
            BY <1>0, <2>1 DEF Leading, BufferOK, Places
        <3>2. code[at[o]] \in BitsAt(R, at[o])
            BY BitOfOwn
        <3>3. QED
            BY <3>1, <3>2
    <2>2. CASE ~ Leading(code, at[o])
        BY <1>0, <2>2 DEF Filled, BufferOK
    <2>3. QED
        BY <2>1, <2>2
<1>2. \A j \in Places \ {at[o]} : bin'[j] = bin[j]
    BY DEF BufferOK
<1>3. CASE p = o
    <2>1. \A j \in Places : j <= at[o] => bin'[j] \in BitsAt(R, j)
        BY <1>0, <1>1, <1>2 DEF Filled, Places
    <2>2. QED
        BY <1>0, <1>3, <2>1 DEF Filled, Sending, Places
<1>4. CASE p # o
    BY <1>0, <1>1, <1>2, <1>4 DEF Filled
<1>5. QED
    BY <1>3, <1>4

\* A bit is sent.
LEMMA SendBitFills ==
    ASSUME IInv, NEW o \in Outlets, SendBit(o), NEW R,
           NEW p \in Outlets, Filled(p, R)
    PROVE  Filled(p, R)'
<1> USE OutletAssumption DEF IInv, SendBit, request
<1>0. /\ at[o] \in Places /\ Len(word[o]) = at[o] - 1
      /\ \A q \in Outlets \ {o} : pc'[q] = pc[q] /\ at'[q] = at[q] /\ word'[q] = word[q]
      /\ pc'[o] \in Sending
    BY DEF TypeOK, BufferOK, Counted, NextPlace, Goto, Places, Sending
<1>1. /\ Len(word'[o]) = at[o] /\ word'[o][at[o]] = bin[at[o]]
      /\ \A j \in 1..Len(word[o]) : word'[o][j] = word[o][j]
    BY <1>0, AppendProperties DEF BufferOK, Places
<1>2. CASE p = o
    <2>1. \A j \in 1..Len(word'[o]) : j = at[o] \/ j \in 1..Len(word[o])
        BY <1>0, <1>1 DEF Places
    <2>2. QED
        BY <1>0, <1>1, <1>2, <2>1 DEF Filled, Sending
<1>3. CASE p # o
    BY <1>0, <1>3 DEF Filled
<1>4. QED
    BY <1>2, <1>3

\* A frame ends.
LEMMA SendSyncFills ==
    ASSUME IInv, NEW o \in Outlets, SendSync(o), NEW R,
           NEW p \in Outlets, Filled(p, R)
    PROVE  Filled(p, R)'
<1> USE OutletAssumption DEF IInv, SendSync, request
<1>0. /\ \A q \in Outlets \ {o} : pc'[q] = pc[q] /\ word'[q] = word[q]
      /\ word'[o] = <<>> /\ Len(word'[o]) = 0 /\ pc'[o] \in {"bits", "send", "idle"}
    BY EmptyWord DEF TypeOK, BufferOK, Goto
<1>1. CASE p = o
    BY <1>0, <1>1 DEF Filled, Sending
<1>2. CASE p # o
    BY <1>0, <1>2 DEF Filled
<1>3. QED
    BY <1>1, <1>2

\* A call begins: nothing is filled yet.
LEMMA SendFills ==
    ASSUME IInv, NEW o \in Outlets, Send(o), NEW R,
           NEW p \in Outlets, p = o \/ Filled(p, R)
    PROVE  Filled(p, R)'
<1> USE OutletAssumption DEF IInv, Send, request
<1>0. /\ \A q \in Outlets \ {o} : pc'[q] = pc[q] /\ at'[q] = at[q]
      /\ pc'[o] = "digits" /\ at'[o] = Length /\ word'[o] = <<>>
    BY DEF TypeOK, Goto, Counted, Sending
<1>1. CASE p = o
    BY <1>0, <1>1, EmptyWord DEF Filled, Sending, Places
<1>2. CASE p # o
    BY <1>0, <1>2 DEF Filled
<1>3. QED
    BY <1>1, <1>2

-------------------------------------------------------------------------------
(* The steps of a call of send keep the rest of the invariant.             *)

\* The types after a step of the driver.
LEMMA DriveTypes ==
    ASSUME IInv, NEW o \in Outlets, Drive(o)
    PROVE  TypeOK' /\ BufferOK'
<1> USE OutletAssumption DEF IInv, request
<1>t. /\ at \in [Outlets -> 0..Length] /\ frame \in [Outlets -> 0..Frames]
      /\ sent \in [Outlets -> 0..Sends] /\ 1 \in 0..Length /\ Length \in 0..Length
      /\ pc \in [Outlets -> {"idle", "send", "digits", "copy", "bits", "sync"}]
      /\ \A p \in Outlets : word[p] \in Seq(0..1) /\ Len(word[p]) <= Length
    <2>1. 1 \in 0..Length /\ Length \in 0..Length
        OBVIOUS
    <2>2. QED
        BY <2>1, Zenon DEF TypeOK, BufferOK
<1>1. CASE Send(o)
    <2>1. sent' \in [Outlets -> 0..Sends]
        <3>1. sent[o] + 1 \in 0..Sends
            BY <1>1, <1>t DEF Send, Counted
        <3>2. QED
            BY <1>1, <1>t, <3>1 DEF Send
    <2>2. frame' \in [Outlets -> 0..Frames]
        BY <1>1, <1>t DEF Send
    <2>3. at' \in [Outlets -> 0..Length]
        BY <1>1, <1>t, AtType DEF Send
    <2>4. clear' \in [Outlets -> BOOLEAN]
        BY <1>1 DEF Send, TypeOK
    <2>5. QED
        BY <1>1, <1>t, <2>1, <2>2, <2>3, <2>4 DEF Send, Goto, TypeOK, BufferOK
<1>2. CASE Digits(o)
    <2>1. CASE Leading(Code(o, goal[o]), at[o])
        <3>1. at' \in [Outlets -> 0..Length]
            BY <1>2, <2>1, <1>t, AtType DEF Digits
        <3>2. QED
            BY <1>2, <2>1, <1>t, <3>1 DEF Digits, Goto, TypeOK, BufferOK
    <2>2. CASE ~ Leading(Code(o, goal[o]), at[o])
        <3>1. at[o] \in 0..Length /\ at[o] # 0
            BY <1>t, <2>2 DEF Leading
        <3>2. at' \in [Outlets -> 0..Length]
            <4>1. at[o] - 1 \in 0..Length
                BY <3>1
            <4>2. QED
                BY <1>2, <2>2, <1>t, <4>1, AtType DEF Digits
        <3>3. Code(o, goal[o])[at[o]] \in 0..1
            BY <3>1, CodeType DEF TypeOK
        <3>4. digits' \in [Places -> 0..1]
            BY <1>2, <2>2, <3>3 DEF Digits, BufferOK
        <3>5. QED
            BY <1>2, <2>2, <1>t, <3>2, <3>4 DEF Digits, Goto, TypeOK, BufferOK
    <2>3. QED
        BY <2>1, <2>2
<1>3. ASSUME NEW ph \in {"bits", "sync"}, NextPlace(o, ph)
      PROVE  /\ at' \in [Outlets -> 0..Length]
             /\ pc' \in [Outlets -> {"idle", "send", "digits", "copy", "bits", "sync"}]
    <2>1. CASE at[o] < Length
        <3>1. at[o] + 1 \in 0..Length
            BY <1>t, <2>1
        <3>2. QED
            BY <1>3, <2>1, <1>t, <3>1, AtType DEF NextPlace
    <2>2. CASE ~ (at[o] < Length)
        <3>1. at' = [at EXCEPT ![o] = 1] /\ pc' = [pc EXCEPT ![o] = ph]
            BY <1>3, <2>2 DEF NextPlace, Goto
        <3>2. QED
            BY <1>t, <3>1, AtType
    <2>3. QED
        BY <2>1, <2>2
<1>4. CASE Copy(o)
    <2>1. at[o] \in Places
        BY <1>4, <1>t DEF Copy, Counted, Places
    <2>2. bin' \in [Places -> 0..1]
        BY <1>4, <2>1 DEF Copy, BufferOK
    <2>3. QED
        BY <1>4, <1>3, <2>2 DEF Copy, TypeOK, BufferOK
<1>5. CASE SendBit(o)
    <2>1. at[o] \in Places /\ Len(word[o]) = at[o] - 1 /\ bin[at[o]] \in 0..1
        <3>1. at[o] = Len(word[o]) + 1 /\ at[o] >= 1 /\ at[o] \in 0..Length
            BY <1>5, <1>t DEF SendBit, Counted
        <3>2. Len(word[o]) \in Nat
            BY <1>t, LenProperties
        <3>3. QED
            BY <3>1, <3>2 DEF Places, BufferOK
    <2>2. word'[o] \in Seq(0..1) /\ Len(word'[o]) = at[o]
        <3>1. word'[o] = Append(word[o], bin[at[o]])
            BY <1>5 DEF SendBit, BufferOK
        <3>2. QED
            BY <1>t, <2>1, <3>1, AppendProperties DEF Places
    <2>3. word' \in [Outlets -> Seq(0..1)]
        BY <1>5, <2>2 DEF SendBit, BufferOK
    <2>4. \A p \in Outlets : Len(word'[p]) <= Length
        <3>1. \A p \in Outlets \ {o} : word'[p] = word[p]
            BY <1>5 DEF SendBit, BufferOK
        <3>2. at[o] <= Length
            BY <2>1 DEF Places
        <3>3. QED
            BY <1>t, <2>2, <3>1, <3>2
    <2>5. QED
        BY <1>5, <1>3, <2>3, <2>4 DEF SendBit, TypeOK, BufferOK
<1>6. CASE SendSync(o)
    <2>1. socket' \in [Outlets -> {TRUE, FALSE, None}]
        BY <1>6 DEF SendSync, Positions, BufferOK
    <2>2. word' \in [Outlets -> Seq(0..1)] /\ \A p \in Outlets : Len(word'[p]) <= Length
        <3>1. \A p \in Outlets : word'[p] = <<>> \/ word'[p] = word[p]
            BY <1>6 DEF SendSync, BufferOK
        <3>2. Len(<<>>) <= Length
            BY EmptyWord
        <3>3. word' \in [Outlets -> Seq(0..1)]
            BY <1>6, EmptyWord DEF SendSync, BufferOK
        <3>4. QED
            BY <1>t, <3>1, <3>2, <3>3
    <2>3. frame' \in [Outlets -> 0..Frames]
        <3>1. frame[o] < Frames => frame[o] + 1 \in 0..Frames
            BY <1>t
        <3>2. QED
            BY <1>6, <1>t, <3>1 DEF SendSync
    <2>4. pc' \in [Outlets -> {"idle", "send", "digits", "copy", "bits", "sync"}]
        BY <1>6, <1>t DEF SendSync, Goto
    <2>5. \A p \in Outlets : socket'[p] \in {TRUE, FALSE, None}
        BY <2>1
    <2>6. QED
        BY <1>6, <2>1, <2>2, <2>3, <2>4, <2>5 DEF SendSync, TypeOK, BufferOK
<1>7. QED
    BY <1>1, <1>2, <1>4, <1>5, <1>6 DEF Drive

\* Who is in the driver after a step of it, and what it asks for, is as before, but for
\* the outlet of the step.
LEMMA DriveKeeps ==
    ASSUME IInv, NEW o \in Outlets, Drive(o)
    PROVE  /\ request' = request /\ pc[o] # "idle"
           /\ \A p \in Outlets \ {o} :
                 pc'[p] = pc[p] /\ at'[p] = at[p] /\ word'[p] = word[p] /\ sent'[p] = sent[p]
           /\ Active' \subseteq Active
<1>1. /\ request' = request /\ pc[o] # "idle"
      /\ \A p \in Outlets \ {o} :
            pc'[p] = pc[p] /\ at'[p] = at[p] /\ word'[p] = word[p] /\ sent'[p] = sent[p]
    <2> USE DEF IInv, TypeOK, BufferOK, request
    <2>1. CASE Send(o)
        BY <2>1 DEF Send, Goto
    <2>2. CASE Digits(o)
        BY <2>2 DEF Digits, Goto
    <2>3. CASE Copy(o)
        BY <2>3 DEF Copy, NextPlace, Goto
    <2>4. CASE SendBit(o)
        BY <2>4 DEF SendBit, NextPlace, Goto
    <2>5. CASE SendSync(o)
        BY <2>5 DEF SendSync, Goto
    <2>6. QED
        BY <2>1, <2>2, <2>3, <2>4, <2>5 DEF Drive
<1>2. QED
    BY <1>1 DEF Active

\* A step of the driver keeps what was filled.
LEMMA DriveFills ==
    ASSUME IInv, NEW o \in Outlets, Drive(o), NEW R, <<o, goal[o]>> \in R,
           Send(o) \/ Filled(o, R), NEW p \in Outlets, Filled(p, R) \/ (p = o /\ Send(o))
    PROVE  Filled(p, R)'
<1>1. CASE Send(o)
    BY <1>1, SendFills
<1>2. CASE ~ Send(o)
    BY <1>2, DigitsFills, CopyFills, SendBitFills, SendSyncFills DEF Drive
<1>3. QED
    BY <1>1, <1>2

\* Where the outlet of the step is afterwards.
LEMMA DriveCounts ==
    ASSUME IInv, NEW o \in Outlets, Drive(o)
    PROVE  Counted'
<1> USE OutletAssumption DEF IInv
<1>t. word[o] \in Seq(0..1) /\ Len(word[o]) \in Nat /\ at[o] \in 0..Length
    <2>1. word[o] \in Seq(0..1) /\ at[o] \in 0..Length
        BY DEF TypeOK, BufferOK
    <2>2. QED
        BY <2>1, LenProperties
<1>0. SUFFICES /\ pc'[o] = "send" => sent'[o] < Sends
               /\ pc'[o] \notin Sending => word'[o] = <<>>
               /\ pc'[o] \in {"copy", "bits"} => at'[o] >= 1
               /\ pc'[o] = "bits" => at'[o] = Len(word'[o]) + 1
               /\ pc'[o] = "sync" => at'[o] = 1 /\ Len(word'[o]) = Length
    <2>1. \A p \in Outlets \ {o} :
             pc'[p] = pc[p] /\ at'[p] = at[p] /\ word'[p] = word[p] /\ sent'[p] = sent[p]
        BY DriveKeeps
    <2>2. \A p \in Outlets \ {o} :
            /\ pc'[p] = "send" => sent'[p] < Sends
            /\ pc'[p] \notin Sending => word'[p] = <<>>
            /\ pc'[p] \in {"copy", "bits"} => at'[p] >= 1
            /\ pc'[p] = "bits" => at'[p] = Len(word'[p]) + 1
            /\ pc'[p] = "sync" => at'[p] = 1 /\ Len(word'[p]) = Length
        BY <2>1 DEF Counted
    <2>3. QED
        BY <2>2 DEF Counted
<1>1. CASE Send(o)
    BY <1>1 DEF Send, Goto, Counted, Sending, TypeOK
<1>2. CASE Digits(o)
    <2>1. word[o] = <<>> /\ word' = word
        BY <1>2 DEF Digits, Counted, Sending
    <2>2. pc'[o] = "digits" \/ (pc'[o] = "copy" /\ at'[o] = 1)
        BY <1>2 DEF Digits, Goto, TypeOK
    <2>3. QED
        BY <2>1, <2>2 DEF Sending
<1>3. CASE Copy(o)
    <2>1. word[o] = <<>> /\ word' = word /\ at[o] >= 1
        BY <1>3 DEF Copy, Counted, Sending
    <2>2. \/ pc'[o] = "copy" /\ at'[o] = at[o] + 1
          \/ pc'[o] = "bits" /\ at'[o] = 1
        BY <1>3 DEF Copy, NextPlace, Goto, TypeOK
    <2>3. QED
        BY <1>t, <2>1, <2>2, EmptyWord DEF Sending
<1>4. CASE SendBit(o)
    <2>1. at[o] = Len(word[o]) + 1
        BY <1>4 DEF SendBit, Counted
    <2>2. bin[at[o]] \in 0..1 /\ word'[o] = Append(word[o], bin[at[o]])
        BY <1>4, <1>t, <2>1 DEF SendBit, BufferOK, Places
    <2>3. Len(word'[o]) = at[o]
        BY <1>t, <2>1, <2>2, AppendProperties
    <2>4. \/ pc'[o] = "bits" /\ at'[o] = at[o] + 1
          \/ pc'[o] = "sync" /\ at'[o] = 1 /\ at[o] = Length
        BY <1>4, <1>t DEF SendBit, NextPlace, Goto, TypeOK
    <2>5. QED
        BY <1>t, <2>1, <2>3, <2>4 DEF Sending
<1>5. CASE SendSync(o)
    <2>1. word'[o] = <<>> /\ Len(word'[o]) = 0 /\ at'[o] = 1 /\ sent'[o] = sent[o]
        BY <1>5, EmptyWord DEF SendSync, BufferOK, Counted
    <2>2. \/ pc'[o] = "bits" \/ pc'[o] = "idle"
          \/ pc'[o] = "send" /\ sent[o] < Sends
        BY <1>5 DEF SendSync, Goto, TypeOK
    <2>3. QED
        BY <2>1, <2>2 DEF Sending
<1>6. QED
    BY <1>1, <1>2, <1>3, <1>4, <1>5 DEF Drive

\* Who is clear stays alone; who begins a call alone is clear.
LEMMA DriveAlone ==
    ASSUME IInv, NEW o \in Outlets, Drive(o)
    PROVE  ClearAlone'
<1> USE DEF IInv
<1>1. CASE Send(o)
    <2>1. /\ clear'[o] = (Active = {o}) /\ pc'[o] = "digits" /\ pc[o] = "send"
          /\ \A p \in Outlets \ {o} : clear'[p] = clear[p] /\ pc'[p] = pc[p]
        BY <1>1 DEF Send, Goto, TypeOK
    <2>2. Active' = Active /\ o \in Active
        BY <2>1 DEF Active
    <2>3. ASSUME NEW p \in Outlets, clear'[p] PROVE Active = {o}
        BY <2>1, <2>2, <2>3 DEF ClearAlone
    <2>4. QED
        BY <2>1, <2>2, <2>3 DEF ClearAlone, Active
<1>2. CASE ~ Send(o)
    <2>1. clear' = clear /\ pc[o] \notin {"idle", "send"}
        BY <1>2 DEF Drive, Digits, Copy, SendBit, SendSync
    <2>2. QED
        BY <2>1, DriveKeeps, StaysAlone
<1>3. QED
    BY <1>1, <1>2

\* Frames are mixed only by two outlets that send.
LEMMA DriveMixes ==
    ASSUME IInv, NEW o \in Outlets, Drive(o)
    PROVE  /\ MixedWhileSent'
           /\ \A p \in Active : clear[p] /\ p \notin mixed => p \notin mixed'
<1> USE DEF IInv
<1>0. \A p \in Outlets \ {o} : pc'[p] = pc[p]
    BY DriveKeeps
<1>1. CASE SendBit(o)
    <2>1. pc'[o] \in Sending
        BY <1>1 DEF SendBit, NextPlace, Goto, TypeOK, Sending
    <2>2. /\ o \in Active
          /\ \A q \in Outlets : pc[q] \in {"bits", "sync"} => q \in Active
        BY <1>1 DEF SendBit, Active
    <2>3. ASSUME NEW p \in Active, clear[p], p \notin mixed PROVE p \notin mixed'
        <3>1. p = o /\ \A q \in Outlets \ {o} : pc[q] \notin {"bits", "sync"}
            BY <2>2, <2>3 DEF ClearAlone, Active
        <3>2. QED
            BY <1>1, <2>3, <3>1 DEF SendBit
    <2>4. MixedWhileSent'
        BY <1>0, <1>1, <2>1 DEF SendBit, MixedWhileSent, Sending
    <2>5. QED
        BY <2>3, <2>4
<1>2. CASE SendSync(o)
    BY <1>0, <1>2 DEF SendSync, MixedWhileSent, Sending
<1>3. CASE Send(o) \/ Digits(o) \/ Copy(o)
    <2>1. mixed' = mixed /\ pc[o] \notin Sending
        BY <1>3 DEF Send, Digits, Copy, Sending
    <2>2. QED
        BY <1>0, <2>1 DEF MixedWhileSent
<1>4. QED
    BY <1>1, <1>2, <1>3 DEF Drive

\* A step of the driver keeps the invariant.
LEMMA DriveIsSafe ==
    ASSUME IInv, NEW o \in Outlets, Drive(o)
    PROVE  IInv'
<1> USE DEF IInv, request
<1>0. /\ o \in Active /\ goal' = goal /\ crowd' = crowd /\ isOn' = isOn
      /\ Active' \subseteq Active
    BY DriveKeeps DEF Active
<1>1. TypeOK' /\ BufferOK' /\ MixedWhileSent' /\ ClearAlone' /\ Counted'
    BY DriveTypes, DriveMixes, DriveAlone, DriveCounts
<1>2. GoalReported' /\ InCrowd'
    BY <1>0 DEF GoalReported, InCrowd
<1>3. CrowdFilled'
    <2>1. SUFFICES ASSUME NEW p \in Outlets PROVE Filled(p, crowd)'
        BY DEF CrowdFilled
    <2>2. PICK R : R = crowd
        OBVIOUS
    <2>3. <<o, goal[o]>> \in R /\ Filled(o, R) /\ Filled(p, R)
        BY <1>0, <2>2 DEF InCrowd, CrowdFilled
    <2>4. Filled(p, R)'
        <3> HIDE DEF IInv
        <3>1. QED
            BY <2>3, DriveFills
    <2>5. QED
        BY <1>0, <2>2, <2>4 DEF Filled
<1>4. ClearFilled'
    <2>1. SUFFICES ASSUME NEW p \in Active', clear'[p]
                   PROVE  p \notin mixed' /\ Filled(p, {<<p, goal[p]>>})'
        BY DEF ClearFilled
    <2>2. p \in Active /\ p \in Outlets
        BY <1>0, <2>1 DEF Active
    <2>3. p = o
        <3>1. o \in Active' \/ ~ (o \in Active')
            OBVIOUS
        <3>2. CASE Send(o)
            <4>1. pc'[o] # "idle"
                BY <3>2 DEF Send, Goto, TypeOK
            <4>2. QED
                BY <1>1, <2>1, <2>2, <4>1 DEF ClearAlone, Active
        <3>3. CASE ~ Send(o)
            <4>1. clear' = clear
                BY <3>3 DEF Drive, Digits, Copy, SendBit, SendSync
            <4>2. QED
                BY <1>0, <2>1, <2>2, <4>1 DEF ClearAlone
        <3>4. QED
            BY <3>2, <3>3
    <2>4. PICK R : R = {<<o, goal[o]>>}
        OBVIOUS
    <2>5. CASE Send(o)
        <3>1. Filled(o, R)'
            BY <2>5, SendFills
        <3>2. o \notin mixed'
            BY <2>5 DEF Send, MixedWhileSent, Sending
        <3>3. QED
            BY <1>0, <2>3, <2>4, <3>1, <3>2 DEF Filled
    <2>6. CASE ~ Send(o)
        <3>1. clear[o]
            BY <2>1, <2>3, <2>6 DEF Drive, Digits, Copy, SendBit, SendSync
        <3>2. o \notin mixed /\ Filled(o, R)
            BY <1>0, <2>4, <3>1 DEF ClearFilled
        <3>3. Filled(o, R)'
            <4> HIDE DEF IInv
            <4>1. <<o, goal[o]>> \in R /\ Filled(o, R)
                BY <2>4, <3>2
            <4>2. QED
                BY <4>1, DriveFills
        <3>5. o \notin mixed'
            BY <1>0, <3>1, <3>2, DriveMixes
        <3>4. QED
            BY <1>0, <2>3, <2>4, <3>3, <3>5 DEF Filled
    <2>7. QED
        BY <2>5, <2>6
<1>5. QED
    BY <1>1, <1>2, <1>3, <1>4

\* Every step keeps the invariant.
LEMMA NextIInv == IInv /\ [Next]_vars => IInv'
<1> SUFFICES ASSUME IInv, [Next]_vars PROVE IInv'
    OBVIOUS
<1>1. ASSUME NEW o \in Outlets, Build(o) \/ Drive(o) PROVE IInv'
    BY <1>1, BuildIsSafe, DriveIsSafe
<1>2. ASSUME NEW o \in Outlets, NEW on \in BOOLEAN, Execute(o, on) PROVE IInv'
    BY <1>2, ExecuteIsSafe
<1>3. CASE UNCHANGED vars
    <2>1. TypeOK' /\ BufferOK' /\ MixedWhileSent' /\ GoalReported' /\ ClearAlone' /\ InCrowd'
        BY <1>3, StaysAlone DEF vars, IInv, TypeOK, BufferOK, MixedWhileSent, GoalReported, InCrowd, Active
    <2>2. Counted' /\ CrowdFilled' /\ ClearFilled'
        BY <1>3 DEF vars, IInv, Counted, CrowdFilled, ClearFilled, Filled, Active, BitsAt
    <2>3. QED
        BY <2>1, <2>2 DEF IInv
<1>4. QED
    BY <1>1, <1>2, <1>3 DEF Next

\* The invariant holds in every state of every behaviour.
LEMMA Invariance == Spec => []IInv
<1>1. QED
    BY InitIInv, NextIInv, PTL DEF Spec

\* Every variable has its type, for every number of outlets, bits, calls and frames.
THEOREM TypeCorrect == Spec => []TypeOK
<1>1. IInv => TypeOK
    BY DEF IInv
<1>2. QED
    BY <1>1, Invariance, PTL

\* Every bit that goes out is, at its place, a bit of a request made since the driver was
\* last empty, however many requests overlap (send, dec2binWzerofill).
THEOREM BitsAreOfRequests == Spec => []BitsOfRequests
<1>1. ASSUME IInv PROVE BitsOfRequests
    BY <1>1 DEF IInv, CrowdFilled, Filled, BitsAt, BitsOfRequests
<1>2. QED
    BY <1>1, Invariance, PTL

-------------------------------------------------------------------------------

\* A clear call sends its code.
LEMMA ClearSends ==
    ASSUME IInv, NEW o \in Active, clear[o], pc[o] = "sync"
    PROVE  word[o] = Code(o, goal[o])
<1>1. o \in Outlets
    BY DEF Active
<1>2. Len(word[o]) = Length
    BY <1>1 DEF IInv, Counted
<1>5. Filled(o, {<<o, goal[o]>>})
    BY DEF IInv, ClearFilled
<1>6. \A j \in 1..Length : word[o][j] \in BitsAt({<<o, goal[o]>>}, j)
    BY <1>2, <1>5 DEF Filled
<1>7. \A j \in 1..Length : word[o][j] = Code(o, goal[o])[j]
    BY <1>6 DEF BitsAt
<1>3. word[o] \in Seq(0..1) /\ Code(o, goal[o]) \in [1..Length -> 0..1]
    BY <1>1, CodeType DEF IInv, BufferOK, TypeOK
<1>4. QED
    BY <1>2, <1>3, <1>7, SameWord

\* After the end of a clear frame its socket is where the request asked for, and no
\* other socket has moved.
LEMMA ClearMoves ==
    ASSUME DistinctCodes, IInv, NEW o \in Active, SendSync(o), clear[o]
    PROVE  socket' = [socket EXCEPT ![o] = goal[o]]
<1>0. o \in Outlets
    BY DEF Active
<1>1. word[o] = Code(o, goal[o]) /\ goal[o] \in BOOLEAN
    BY <1>0, ClearSends DEF SendSync, IInv, TypeOK
<1>2. o \notin mixed
    BY DEF IInv, ClearFilled
<1>3. \A on \in BOOLEAN : Hears(o, o, on) <=> on = goal[o]
    BY <1>0, <1>1, <1>2 DEF Hears, DistinctCodes
<1>4. \A p \in Outlets \ {o} : \A on \in BOOLEAN : ~ Hears(o, p, on)
    BY <1>0, <1>1 DEF Hears, DistinctCodes
<1>5. (CHOOSE on \in BOOLEAN : Hears(o, o, on)) = goal[o]
    BY <1>1, <1>3
<1>6. \A p \in Outlets : Positions(o)[p] = IF p = o THEN goal[o] ELSE socket[p]
    BY <1>1, <1>3, <1>4, <1>5 DEF Positions
<1>7. socket' = Positions(o) /\ socket \in [Outlets -> {TRUE, FALSE, None}]
    BY DEF SendSync, IInv, BufferOK
<1>8. QED
    BY <1>6, <1>7 DEF Positions

\* A step that does not end a frame moves no socket and lets no request end.
LEMMA OthersStay ==
    ASSUME IInv, NEW o \in Outlets,
           \/ Build(o) \/ Send(o) \/ Digits(o) \/ Copy(o) \/ SendBit(o)
           \/ \E on \in BOOLEAN : Execute(o, on)
    PROVE  /\ socket' = socket
           /\ \A p \in Outlets : pc'[p] = "idle" /\ clear'[p] =>
                 pc[p] = "idle" /\ clear[p] /\ isOn'[p] = isOn[p]
<1> USE DEF IInv, TypeOK, Goto
<1>1. CASE Build(o)
    BY <1>1 DEF Build
<1>2. CASE Send(o)
    BY <1>2 DEF Send, request
<1>3. CASE Digits(o)
    BY <1>3 DEF Digits, request
<1>4. CASE Copy(o) \/ SendBit(o)
    BY <1>4 DEF Copy, SendBit, NextPlace, request
<1>5. ASSUME NEW on \in BOOLEAN, Execute(o, on)
      PROVE  /\ socket' = socket
             /\ \A p \in Outlets : pc'[p] = "idle" /\ clear'[p] =>
                   pc[p] = "idle" /\ clear[p] /\ isOn'[p] = isOn[p]
    BY <1>5 DEF Execute
<1>6. QED
    BY <1>1, <1>2, <1>3, <1>4, <1>5

\* SocketFollows is kept by every step.
LEMMA FollowsStep ==
    ASSUME DistinctCodes, IInv, SocketFollows, [Next]_vars
    PROVE  SocketFollows'
<1>1. ASSUME NEW o \in Outlets,
             \/ Build(o) \/ Send(o) \/ Digits(o) \/ Copy(o) \/ SendBit(o)
             \/ \E on \in BOOLEAN : Execute(o, on)
      PROVE  SocketFollows'
    BY <1>1, OthersStay DEF SocketFollows
<1>2. ASSUME NEW o \in Outlets, SendSync(o) PROVE SocketFollows'
    <2>1. /\ isOn' = isOn /\ clear' = clear /\ o \in Active
          /\ \A p \in Outlets \ {o} : pc'[p] = pc[p]
        BY <1>2 DEF SendSync, IInv, TypeOK, Goto, request, Active
    <2>2. SUFFICES ASSUME NEW p \in Outlets, pc'[p] = "idle", clear'[p]
                   PROVE  socket'[p] = isOn'[p]
        BY DEF SocketFollows
    <2>3. clear[o]
        BY <1>2, <2>1, <2>2 DEF SendSync, IInv, ClearAlone
    <2>4. socket' = [socket EXCEPT ![o] = goal[o]] /\ goal[o] = isOn[o]
        BY <1>2, <2>1, <2>3, ClearMoves DEF IInv, GoalReported
    <2>5. socket \in [Outlets -> {TRUE, FALSE, None}]
        BY DEF IInv, BufferOK
    <2>6. CASE p = o
        BY <2>1, <2>4, <2>5, <2>6
    <2>7. CASE p # o
        BY <2>1, <2>2, <2>4, <2>5, <2>7 DEF SocketFollows
    <2>8. QED
        BY <2>6, <2>7
<1>3. CASE UNCHANGED vars
    BY <1>3 DEF vars, SocketFollows
<1>4. QED
    BY <1>1, <1>2, <1>3 DEF Next, Drive

\* An outlet whose last call of send had the driver to itself reports the position of its
\* socket, whatever spoiled the calls before it, if the code words of all outlets differ
\* (sendIRSignal, send).
THEOREM ReportedPosition == ASSUME DistinctCodes PROVE Spec => []SocketFollows
<1>1. Init => SocketFollows
    BY DEF Init, SocketFollows
<1>2. IInv /\ SocketFollows /\ [Next]_vars => SocketFollows'
    BY FollowsStep
<1>3. QED
    BY <1>1, <1>2, Invariance, PTL DEF Spec
===============================================================================
