------------------------- MODULE EventDispatch_proofs -------------------------
(***************************************************************************)
(* What the run dispatch checks on one set of rules, for any threads,      *)
(* devices, values, events, rules and profiles, with stacks of calls of    *)
(* any depth.  The types and the cache need no assumption about the rules; *)
(* that nobody waits in a circle, that an event is active exactly if it is *)
(* met, and that the devices it drives follow it, need those that their    *)
(* theorems name.                                                          *)
(*                                                                         *)
(* Almost everything is said of the calls on the stacks: where a call may  *)
(* be and what it is about (Structure), which monitors it holds (OneIn-    *)
(* Device, OneInEvent), how far down the rules it may still go (Ordered),  *)
(* what it reports (CacheInv), which event it owes a check (Settling) and  *)
(* which device it has still to set on behalf of an event (Tracking).      *)
(* A step replaces the top call of one stack by at most two others         *)
(* (Stepped), or begins or ends a stack (Restarted): there is a lemma for  *)
(* each action that says which, and the invariants are shown to be kept by *)
(* these two kinds of steps.                                               *)
(***************************************************************************)
EXTENDS EventHistory, SequenceTheorems, WellFoundedInduction, TLAPS

-----------------------------------------------------------------------------
(* What the invariants speak of.                                           *)

\* The calls by what is called.
Schedulings == [op : {"scheduleAction"}, at : {"isLocked", "apply", "lock"}, el : Element]
Executions  == [op : {"execute"}, at : {"enter", "leave"}, dev : Devices, val : Values]
Runs        == [op : {"run"}, at : {"snapshot"}, dev : Devices]
Updates     == [op : {"update"}, at : {"compare", "put", "events"}, dev : Devices, val : Values,
                todo : SUBSET Events]
Checks      == [op : {"checkIfTriggered"}, at : {"enter", "test", "activate", "leave"},
                event : Events, changed : Devices, asked : SUBSET Devices]
Profiles    == [op : {"scheduleAll"}, at : {"next"}, todo : SUBSET Element]

\* Every variable has its type, and every thread has a stack of calls.
Typed ==
    /\ actual \in [Devices -> Values]
    /\ cached \in [Devices -> Values \cup {None}]
    /\ locked \subseteq Devices /\ active \subseteq Events
    /\ stack \in [Threads -> Seq(Call)]

\* A call that waits for the one above it is at one of these points.
Suspended == {"lock", "leave", "events", "activate", "next"}

Places == \A t \in Threads : \A i \in 2 .. Len(stack[t]) : stack[t][i].at \in Suspended

\* Where the call c at depth i of n calls comes from: the devices and elements it is
\* about are polled ones, commanded ones, or ones of a profile.
Comes(c, i, n) ==
    /\ c.op = "run" => c.dev \in Polled
    /\ c.op = "scheduleAction" =>
           /\ c.el \in ProfileElements \/ (c.el \in Commands /\ i = n)
           /\ c.at = "apply" => c.el.val # None
    /\ c.op = "execute" => \E el \in Elements : el.dev = c.dev
    /\ c.op = "scheduleAll" => c.todo \subseteq ProfileElements
    /\ c.op = "update" => c.todo \subseteq EventsTriggeredBy(c.dev)

Origins == \A t \in Threads : \A i \in DOMAIN stack[t] : Comes(stack[t][i], i, Len(stack[t]))

\* A device that has reported is cached, so that nobody asks it.
HeardCached ==
    /\ \A d \in Heard : cached[d] # None
    /\ \A t \in Threads : \A i \in DOMAIN stack[t] :
           stack[t][i].op = "checkIfTriggered" => stack[t][i].asked \cap Heard = {}

-----------------------------------------------------------------------------
(* The monitors.                                                           *)

\* No two threads are inside the same device, ...
OneInDevice ==
    \A d \in Devices : \A t, u \in Threads : HoldsDevice(t, d) /\ HoldsDevice(u, d) => t = u

\* ... and no two calls inside the same event.
OneInEvent ==
    \A e \in Events : \A t, u \in Threads : \A i \in DOMAIN stack[t], j \in DOMAIN stack[u] :
        InEvent(stack[t][i], e) /\ InEvent(stack[u][j], e) => t = u /\ i = j

-----------------------------------------------------------------------------
(* The cache.                                                              *)

Reporting(c, d) == c.op = "update" /\ c.at \in {"compare", "put"} /\ c.dev = d

\* What is reported of a device that only execute changes is what the device does, and
\* its monitor is held meanwhile.
ReportsHold ==
    \A t \in Threads, d \in Devices \ Polled :
        stack[t] # <<>> /\ Reporting(Top(t), d) => Top(t).val = actual[d] /\ HoldsDevice(t, d)

Fresh ==
    \A d \in Devices \ Polled :
        \/ cached[d] \in {None, actual[d]}
        \/ \E t \in Threads : stack[t] # <<>> /\ Reporting(Top(t), d)

-----------------------------------------------------------------------------
(* The order of the monitors.                                              *)

\* The heights that a call may still come to.  That of an execution lies above that of
\* the update it calls.
Reach(c, D, E) ==
    CASE c.op = "scheduleAction"        -> {2 * D[c.el.dev] + 1}
      [] c.op = "scheduleAll"           -> {2 * D[el.dev] + 1 : el \in c.todo}
      [] c.op \in {"execute", "run"}    -> {2 * D[c.dev] + 1}
      [] c.op = "update"                -> {2 * D[c.dev]}
      [] c.op = "checkIfTriggered"      -> {2 * E[c.event]}

\* The calls that go through a device or an event lie above what they call.
Nested(c, b, D, E) ==
    b.op \notin {"scheduleAction", "scheduleAll"} =>
        \A h \in Reach(c, D, E), g \in Reach(b, D, E) : h < g

Descending(D, E) ==
    \A t \in Threads : \A i, j \in DOMAIN stack[t] :
        i < j => Nested(stack[t][i], stack[t][j], D, E)

-----------------------------------------------------------------------------
(* What the events owe.                                                    *)

\* The call c has still to bring the event e to its check: it reports a device that the
\* node has no state of, has the event on its list, or is about to enter it.
Owes(c, e, uncached) ==
    \/ c.op \in {"run", "update"} /\ c.at \in {"snapshot", "compare", "put"} /\ c.dev \in uncached
    \/ c.op = "update" /\ c.at = "events" /\ e \in c.todo
    \/ c.op = "checkIfTriggered" /\ c.at = "enter" /\ c.event = e

Owed(e) == \E t \in Threads : \E i \in DOMAIN stack[t] : Owes(stack[t][i], e, MustAsk(e))

\* The condition of a plain event, of what the node knows.
Condition(e) ==
    IF e \in requireAll THEN \A d \in DOMAIN when[e] : Known(d, MustAsk(e)) \in when[e][d]
                        ELSE \E d \in DOMAIN when[e] : Known(d, MustAsk(e)) \in when[e][d]

Right(e) == (\E d \in DOMAIN when[e] : cached[d] # None) => (e \in active <=> Condition(e))

\* The check c of the event e will leave it right.
Heading(c, e) ==
    /\ c.at = "test" => c.asked = MustAsk(e)
    /\ c.at = "activate" => Condition(e)
    /\ c.at = "leave" => e \notin active /\ ~ Condition(e)

Inside(e) == \E t \in Threads : \E i \in DOMAIN stack[t] : InEvent(stack[t][i], e)

Paid(e) ==
    ~ Owed(e) =>
        /\ ~ Inside(e) => Right(e)
        /\ \A t \in Threads : \A i \in DOMAIN stack[t] :
               InEvent(stack[t][i], e) => Heading(stack[t][i], e)

-----------------------------------------------------------------------------
(* A step replaces the call on top of a stack by others.                   *)

\* The top call of thread t has become the calls cs; the other calls are where they were.
Became(t, cs) ==
    /\ t \in Threads /\ cs \in Seq(Call) /\ Len(cs) <= 2 /\ stack[t] # <<>>
    /\ stack' \in [Threads -> Seq(Call)]
    /\ \A u \in Threads \ {t} : stack'[u] = stack[u]
    /\ Len(stack'[t]) = Len(cs) + Len(stack[t]) - 1
    /\ \A k \in 1 .. Len(cs) : stack'[t][k] = cs[k]
    /\ \A k \in Len(cs) + 1 .. Len(stack'[t]) : stack'[t][k] = stack[t][k - Len(cs) + 1]

\* A call is of one of the six kinds.
LEMMA CallIs ==
    ASSUME NEW c \in Call
    PROVE  /\ c.op = "scheduleAction"   => c \in Schedulings
           /\ c.op = "execute"          => c \in Executions
           /\ c.op = "run"              => c \in Runs
           /\ c.op = "update"           => c \in Updates
           /\ c.op = "checkIfTriggered" => c \in Checks
           /\ c.op = "scheduleAll"      => c \in Profiles
           /\ c.op \in {"scheduleAction", "execute", "run", "update", "checkIfTriggered",
                        "scheduleAll"}
BY DEF Call, Schedulings, Executions, Runs, Updates, Checks, Profiles

\* The six kinds of calls are all of them.
LEMMA KindsAreCalls ==
    Schedulings \cup Executions \cup Runs \cup Updates \cup Checks \cup Profiles = Call
BY DEF Call, Schedulings, Executions, Runs, Updates, Checks, Profiles

\* The top call of a stack.
LEMMA TopCall ==
    ASSUME Typed, NEW t \in Threads, stack[t] # <<>>
    PROVE  /\ stack[t] \in Seq(Call) /\ Len(stack[t]) \in Nat \ {0}
           /\ 1 \in DOMAIN stack[t] /\ Top(t) = stack[t][1] /\ Top(t) \in Call
<1>1. stack[t] \in Seq(Call)
    BY DEF Typed
<1>2. Len(stack[t]) \in Nat \ {0}
    BY <1>1, EmptySeq, LenProperties
<1>3. Head(stack[t]) = stack[t][1] /\ stack[t][1] \in Call /\ 1 \in DOMAIN stack[t]
    BY <1>1, <1>2
<1>4. QED
    BY <1>1, <1>2, <1>3 DEF Top

\* Become puts the calls in the place of the top one.
LEMMA AfterBecome ==
    ASSUME Typed, NEW t \in Threads, NEW cs \in Seq(Call), Len(cs) <= 2, stack[t] # <<>>,
           Become(t, cs)
    PROVE  Became(t, cs)
<1>1. stack[t] \in Seq(Call) /\ Len(stack[t]) \in Nat \ {0}
    BY TopCall
<1> DEFINE rest == Tail(stack[t])
<1>2. /\ rest \in Seq(Call) /\ Len(rest) = Len(stack[t]) - 1
      /\ \A k \in 1 .. Len(rest) : rest[k] = stack[t][k + 1]
    BY <1>1, HeadTailProperties
<1>3. /\ cs \o rest \in Seq(Call) /\ Len(cs \o rest) = Len(cs) + Len(rest)
      /\ \A k \in 1 .. Len(cs) + Len(rest) :
             (cs \o rest)[k] = IF k <= Len(cs) THEN cs[k] ELSE rest[k - Len(cs)]
    BY <1>2, ConcatProperties
<1>4. stack' = [stack EXCEPT ![t] = cs \o rest]
    BY DEF Become
<1> HIDE DEF rest
<1>5. /\ stack' \in [Threads -> Seq(Call)] /\ stack'[t] = cs \o rest
      /\ \A u \in Threads \ {t} : stack'[u] = stack[u]
    BY <1>3, <1>4 DEF Typed
<1>6. Len(cs) \in Nat
    BY LenProperties
<1>7. \A k \in Len(cs) + 1 .. Len(stack'[t]) : stack'[t][k] = stack[t][k - Len(cs) + 1]
    <2> TAKE k \in Len(cs) + 1 .. Len(stack'[t])
    <2>1. k \in 1 .. Len(cs) + Len(rest) /\ ~ (k <= Len(cs)) /\ k - Len(cs) \in 1 .. Len(rest)
        BY <1>1, <1>2, <1>3, <1>5, <1>6
    <2>2. stack'[t][k] = rest[k - Len(cs)]
        BY <1>3, <1>5, <2>1
    <2>3. QED
        BY <1>2, <2>1, <2>2
<1>8. \A k \in 1 .. Len(cs) : stack'[t][k] = cs[k]
    BY <1>1, <1>2, <1>3, <1>5, <1>6
<1>9. QED
    BY <1>1, <1>2, <1>3, <1>5, <1>7, <1>8 DEF Became

\* The sequences of calls that steps put there.
LEMMA OneCall ==
    ASSUME NEW c \in Call
    PROVE  <<c>> \in Seq(Call) /\ Len(<<c>>) = 1 /\ DOMAIN <<c>> = {1} /\ <<c>>[1] = c
OBVIOUS

\* A sequence of two calls.
LEMMA TwoCalls ==
    ASSUME NEW c \in Call, NEW b \in Call
    PROVE  /\ <<c, b>> \in Seq(Call) /\ Len(<<c, b>>) = 2 /\ DOMAIN <<c, b>> = {1, 2}
           /\ <<c, b>>[1] = c /\ <<c, b>>[2] = b /\ <<c>> \o <<b>> = <<c, b>>
<1>1. <<c, b>> \in Seq(Call) /\ Len(<<c, b>>) = 2 /\ <<c, b>>[1] = c /\ <<c, b>>[2] = b
    OBVIOUS
<1>2. DOMAIN <<c, b>> = {1, 2}
    OBVIOUS
<1>3. <<c>> \o <<b>> = <<c, b>>
    <2> DEFINE cb == <<c>> \o <<b>>
    <2>1. /\ cb \in Seq(Call) /\ Len(cb) = 2
          /\ \A k \in 1 .. 2 : cb[k] = IF k <= 1 THEN <<c>>[k] ELSE <<b>>[k - 1]
        BY ConcatProperties, OneCall
    <2> HIDE DEF cb
    <2>2. cb[1] = c /\ cb[2] = b
        BY <2>1
    <2>3. \A k \in 1 .. Len(cb) : cb[k] = <<c, b>>[k]
        BY <1>1, <2>1, <2>2
    <2>4. cb = <<c, b>>
        BY <1>1, <2>1, <2>3, SeqEqual
    <2>5. QED
        BY <2>4 DEF cb
<1>4. QED
    BY <1>1, <1>2, <1>3

\* The sequence of no call.
LEMMA NoCalls == <<>> \in Seq(Call) /\ Len(<<>>) = 0 /\ DOMAIN <<>> = {}
                 /\ \A c \in Call : <<>> \o <<c>> = <<c>>
OBVIOUS

\* Two calls, by their places.
LEMMA PairOfCalls ==
    ASSUME NEW c \in Call, NEW b \in Call, NEW cs, cs = <<c, b>>
    PROVE  /\ Len(cs) = 2 /\ cs[1] = c /\ cs[2] = b
           /\ \A k \in 1 .. Len(cs) : (k = 1 /\ cs[k] = c) \/ (k = 2 /\ cs[k] = b)
BY TwoCalls

-----------------------------------------------------------------------------
(* What such a step keeps, if the new calls fit.                           *)

\* The new calls fit where they are put.
Fits(t, cs) ==
    \A k \in 1 .. Len(cs) :
        /\ k # 1 => cs[k].at \in Suspended
        /\ Comes(cs[k], k, Len(cs) + Len(stack[t]) - 1)
        /\ cs[k].op = "checkIfTriggered" => cs[k].asked \cap Heard = {}
        /\ \A d \in Devices : InDevice(cs[k], d) => HoldsDevice(t, d) \/ DeviceFree(t, d)

\* They reach no higher than the call they replace, and are nested.
Lower(t, cs, D, E) ==
    /\ \A k \in 1 .. Len(cs) : \A h \in Reach(cs[k], D, E) :
           h \in Nat /\ \E g \in Reach(Top(t), D, E) : g \in Nat /\ h <= g
    /\ Len(cs) = 2 => Nested(cs[1], cs[2], D, E)

\* Where a call below the top has gone, and where one came from.
LEMMA PlaceAfter ==
    ASSUME NEW m \in Nat, NEW n \in Nat, NEW k, k = m + n - 1, NEW i \in 2 .. n
    PROVE  LET l == i + m - 1 IN l \in m + 1 .. k /\ l \in 1 .. k /\ l - m + 1 = i
OBVIOUS

\* The calls under the top one stay in the stack.
LEMMA BecameAt ==
    ASSUME NEW t, NEW cs, Became(t, cs), NEW i, Len(cs) \in Nat, Len(stack[t]) \in Nat,
           i \in 2 .. Len(stack[t])
    PROVE  \E l \in DOMAIN stack'[t] : stack'[t][l] = stack[t][i]
<1>1. PICK m \in Nat : m = Len(cs)
    OBVIOUS
<1>2. PICK n \in Nat : n = Len(stack[t])
    OBVIOUS
<1>3. PICK k : k = Len(stack'[t])
    OBVIOUS
<1>4. k = m + n - 1
    BY <1>1, <1>2, <1>3 DEF Became
<1>5. PICK l : l = i + m - 1
    OBVIOUS
<1>6. l \in m + 1 .. k /\ l \in 1 .. k /\ l - m + 1 = i
    BY <1>2, <1>4, <1>5, PlaceAfter
<1>7. stack'[t] \in Seq(Call) /\ stack'[t][l] = stack[t][l - m + 1]
    BY <1>1, <1>3, <1>6 DEF Became
<1>8. l \in DOMAIN stack'[t]
    BY <1>3, <1>6, <1>7
<1>9. QED
    BY <1>6, <1>7, <1>8

\* The place in the stack before the step, from the place after it.
LEMMA LastBefore ==
    ASSUME NEW k, k \in Int, NEW m, m \in Nat, NEW n, n \in Nat, k - m + 1 = n
    PROVE  k = m + n - 1
OBVIOUS

\* One and one.
LEMMA OneMore ==
    ASSUME NEW n, 1 = n
    PROVE  2 = n + 1
OBVIOUS

\* Where the calls of the stack after the step are from.
LEMMA BecameFrom ==
    ASSUME Typed, NEW t, NEW cs, Became(t, cs), NEW k \in 1 .. Len(stack'[t])
    PROVE  \/ k \in 1 .. Len(cs) /\ stack'[t][k] = cs[k]
           \/ /\ k > Len(cs) /\ k - Len(cs) + 1 \in 2 .. Len(stack[t])
              /\ stack'[t][k] = stack[t][k - Len(cs) + 1]
<1>1. Len(cs) \in Nat /\ Len(stack[t]) \in Nat \ {0}
    BY TopCall, LenProperties DEF Became
<1>2. CASE k <= Len(cs)
    BY <1>1, <1>2 DEF Became
<1>3. CASE ~ (k <= Len(cs))
    BY <1>1, <1>3 DEF Became
<1>4. QED
    BY <1>2, <1>3

\* Suspended calls stay suspended.
LEMMA PlacesKept ==
    ASSUME Typed, Places, NEW t, NEW cs, Became(t, cs), Fits(t, cs)
    PROVE  Places'
<1> SUFFICES ASSUME NEW u \in Threads, NEW k \in 2 .. Len(stack'[u])
             PROVE  stack'[u][k].at \in Suspended
    BY DEF Places
<1>1. CASE u # t
    BY <1>1 DEF Became, Places
<1>2. CASE u = t
    <2>1. k \in 1 .. Len(stack'[t])
        BY <1>2 DEF Became
    <2>2. CASE k \in 1 .. Len(cs) /\ stack'[t][k] = cs[k]
        BY <1>2, <2>2 DEF Fits
    <2>3. CASE k - Len(cs) + 1 \in 2 .. Len(stack[t]) /\ stack'[t][k] = stack[t][k - Len(cs) + 1]
        BY <1>2, <2>3 DEF Places, Became
    <2>4. QED
        BY <2>1, <2>2, <2>3, BecameFrom
<1>3. QED
    BY <1>1, <1>2

\* Calls come from where they came from.
LEMMA OriginsKept ==
    ASSUME Typed, Origins, NEW t, NEW cs, Became(t, cs), Fits(t, cs)
    PROVE  Origins'
<1> SUFFICES ASSUME NEW u \in Threads, NEW k \in DOMAIN stack'[u]
             PROVE  Comes(stack'[u][k], k, Len(stack'[u]))
    BY DEF Origins, Comes, EventsTriggeredBy
<1>1. CASE u # t
    BY <1>1 DEF Became, Origins
<1>2. CASE u = t
    <2>1. k \in 1 .. Len(stack'[t]) /\ Len(cs) \in Nat /\ Len(stack[t]) \in Nat
        BY <1>2, LenProperties DEF Became, Typed
    <2>2. CASE k \in 1 .. Len(cs) /\ stack'[t][k] = cs[k]
        BY <1>2, <2>2 DEF Fits, Became
    <2>3. CASE k - Len(cs) + 1 \in 2 .. Len(stack[t]) /\ stack'[t][k] = stack[t][k - Len(cs) + 1]
        <3>1. k - Len(cs) + 1 \in DOMAIN stack[t]
            BY <2>1, <2>3 DEF Became, Typed
        <3>2. Comes(stack[t][k - Len(cs) + 1], k - Len(cs) + 1, Len(stack[t]))
            BY <3>1 DEF Origins, Became
        <3>3. k - Len(cs) + 1 = Len(stack[t]) => k = Len(stack'[t])
            <4>1. Len(stack'[t]) = Len(cs) + Len(stack[t]) - 1
                BY DEF Became
            <4>2. QED
                BY <2>1, <4>1, LastBefore
        <3>4. QED
            BY <1>2, <2>3, <3>2, <3>3 DEF Comes
    <2>4. QED
        BY <2>1, <2>2, <2>3, BecameFrom
<1>3. QED
    BY <1>1, <1>2

\* What has reported is cached, and not asked.
LEMMA HeardCachedKept ==
    ASSUME Typed, HeardCached, NEW t, NEW cs, Became(t, cs), Fits(t, cs),
           \A d \in Heard : cached[d] # None => cached'[d] # None
    PROVE  HeardCached'
<1> SUFFICES ASSUME NEW u \in Threads, NEW k \in DOMAIN stack'[u],
                    stack'[u][k].op = "checkIfTriggered"
             PROVE  stack'[u][k].asked \cap Heard = {}
    BY DEF HeardCached
<1>1. CASE u # t
    BY <1>1 DEF Became, HeardCached
<1>2. CASE u = t
    <2>1. k \in 1 .. Len(stack'[t]) /\ Len(cs) \in Nat /\ Len(stack[t]) \in Nat
        BY <1>2, LenProperties DEF Became, Typed
    <2>2. CASE k \in 1 .. Len(cs) /\ stack'[t][k] = cs[k]
        BY <1>2, <2>2 DEF Fits, Became
    <2>3. CASE k - Len(cs) + 1 \in 2 .. Len(stack[t]) /\ stack'[t][k] = stack[t][k - Len(cs) + 1]
        <3>1. k - Len(cs) + 1 \in DOMAIN stack[t]
            BY <2>1, <2>3 DEF Became, Typed
        <3>2. QED
            BY <1>2, <2>3, <3>1 DEF HeardCached, Became
    <2>4. QED
        BY <2>1, <2>2, <2>3, BecameFrom
<1>3. QED
    BY <1>1, <1>2

\* A thread is inside a device only if it was, or if the device was free.
LEMMA StillHolds ==
    ASSUME Typed, NEW t, NEW cs, Became(t, cs), Fits(t, cs), NEW d \in Devices,
           HoldsDevice(t, d)'
    PROVE  HoldsDevice(t, d) \/ DeviceFree(t, d)
<1>1. PICK k \in DOMAIN stack'[t] : InDevice(stack'[t][k], d)
    BY DEF HoldsDevice, InDevice
<1>2. k \in 1 .. Len(stack'[t]) /\ Len(cs) \in Nat /\ Len(stack[t]) \in Nat
    BY LenProperties DEF Became, Typed
<1>3. CASE k \in 1 .. Len(cs) /\ stack'[t][k] = cs[k]
    BY <1>1, <1>3 DEF Fits
<1>4. CASE k - Len(cs) + 1 \in 2 .. Len(stack[t]) /\ stack'[t][k] = stack[t][k - Len(cs) + 1]
    <2>1. k - Len(cs) + 1 \in DOMAIN stack[t]
        BY <1>2, <1>4 DEF Became, Typed
    <2>2. QED
        BY <1>1, <1>4, <2>1 DEF HoldsDevice
<1>5. QED
    BY <1>2, <1>3, <1>4, BecameFrom

\* A step that fits leaves at most one thread inside a device.
LEMMA OneInDeviceKept ==
    ASSUME Typed, OneInDevice, NEW t, NEW cs, Became(t, cs), Fits(t, cs)
    PROVE  OneInDevice'
<1> SUFFICES ASSUME NEW d \in Devices, NEW u \in Threads, NEW w \in Threads,
                    HoldsDevice(u, d)', HoldsDevice(w, d)'
             PROVE  u = w
    BY DEF OneInDevice
<1>1. \A v \in Threads \ {t} : HoldsDevice(v, d)' => HoldsDevice(v, d)
    BY DEF Became, HoldsDevice, InDevice
<1>2. HoldsDevice(t, d)' => HoldsDevice(t, d) \/ DeviceFree(t, d)
    BY StillHolds
<1>3. QED
    BY <1>1, <1>2 DEF OneInDevice, DeviceFree, Became

\* The heights of the calls are natural numbers.
LEMMA ReachNat ==
    ASSUME ConstantsAssumption, NEW D, NEW E, Descends(D, E), NEW c \in Call
    PROVE  Reach(c, D, E) \subseteq Nat
<1>1. CASE c.op = "scheduleAction"
    BY <1>1, CallIs DEF Reach, Descends, Schedulings, Element
<1>2. CASE c.op = "scheduleAll"
    BY <1>2, CallIs DEF Reach, Descends, Profiles, Element
<1>3. CASE c.op = "execute"
    BY <1>3, CallIs DEF Reach, Descends, Executions
<1>4. CASE c.op = "run"
    BY <1>4, CallIs DEF Reach, Descends, Runs
<1>5. CASE c.op = "update"
    BY <1>5, CallIs DEF Reach, Descends, Updates
<1>6. CASE c.op = "checkIfTriggered"
    BY <1>6, CallIs DEF Reach, Descends, Checks
<1>7. QED
    BY <1>1, <1>2, <1>3, <1>4, <1>5, <1>6, CallIs

\* Two places among at most two.
LEMMA TwoPlaces ==
    ASSUME NEW k \in Int, NEW l \in Int, NEW n \in Nat, 1 <= k, k < l, l <= n, n <= 2
    PROVE  n = 2 /\ k = 1 /\ l = 2
OBVIOUS

\* The calls still descend.
LEMMA DescendingKept ==
    ASSUME ConstantsAssumption, Typed, NEW D, NEW E, Descends(D, E), Descending(D, E),
           NEW t, NEW cs, Became(t, cs), Lower(t, cs, D, E)
    PROVE  Descending(D, E)'
<1> SUFFICES ASSUME NEW u \in Threads, NEW k \in DOMAIN stack'[u], NEW l \in DOMAIN stack'[u], k < l
             PROVE  Nested(stack'[u][k], stack'[u][l], D, E)
    BY DEF Descending, Nested, Reach
<1>1. CASE u # t
    BY <1>1 DEF Became, Descending
<1>2. CASE u = t
    <2>1. /\ k \in 1 .. Len(stack'[t]) /\ l \in 1 .. Len(stack'[t])
          /\ Len(cs) \in Nat /\ Len(stack[t]) \in Nat /\ Len(cs) <= 2
          /\ Len(stack'[t]) \in Nat
        BY <1>2, LenProperties DEF Became, Typed
    <2>2. \A j \in 1 .. Len(stack'[t]) :
              \/ j \in 1 .. Len(cs)
              \/ j - Len(cs) + 1 \in 2 .. Len(stack[t]) /\ stack'[t][j] = stack[t][j - Len(cs) + 1]
        BY BecameFrom
    <2>3. CASE l \in 1 .. Len(cs)
        <3>1. k \in Int /\ l \in Int /\ 1 <= k /\ l <= Len(cs)
            BY <2>1, <2>3
        <3>2. Len(cs) = 2 /\ k = 1 /\ l = 2
            BY <2>1, <3>1, TwoPlaces
        <3>3. QED
            BY <1>2, <2>3, <3>2 DEF Lower, Became
    <2>4. CASE ~ (l \in 1 .. Len(cs))
        <3>1. PICK m : m = l - Len(cs) + 1
            OBVIOUS
        <3>2. m \in 2 .. Len(stack[t]) /\ stack'[t][l] = stack[t][m]
            <4>1. l - Len(cs) + 1 \in 2 .. Len(stack[t]) /\ stack'[t][l] = stack[t][l - Len(cs) + 1]
                BY <2>2, <2>1, <2>4
            <4>2. QED
                BY <3>1, <4>1
        <3>3. m \in DOMAIN stack[t]
            BY <2>1, <3>2 DEF Became, Typed
        <3>4. CASE k \in 1 .. Len(cs)
            <4>1. Nested(Top(t), stack[t][m], D, E)
                <5>1. Top(t) = stack[t][1] /\ 1 \in DOMAIN stack[t] /\ 1 < m
                    BY <3>3, <3>2, TopCall DEF Became
                <5>2. QED
                    BY <3>3, <3>2, <5>1 DEF Descending, Became
            <4>2. Reach(stack[t][m], D, E) \subseteq Nat
                BY <3>3, <3>2, ReachNat DEF Became, Typed
            <4>3. ASSUME NEW h \in Reach(cs[k], D, E), NEW g \in Reach(stack[t][m], D, E),
                         stack[t][m].op \notin {"scheduleAction", "scheduleAll"}
                  PROVE  h < g
                <5>1. h \in Nat /\ \E f \in Reach(Top(t), D, E) : f \in Nat /\ h <= f
                    BY <3>4, <4>3 DEF Lower
                <5>2. QED
                    BY <4>1, <4>2, <4>3, <5>1 DEF Nested
            <4>4. QED
                BY <1>2, <3>3, <3>2, <3>4, <4>3 DEF Nested, Became
        <3>5. CASE ~ (k \in 1 .. Len(cs))
            <4>1. PICK n : n = k - Len(cs) + 1
                OBVIOUS
            <4>2. n \in 2 .. Len(stack[t]) /\ stack'[t][k] = stack[t][n]
                <5>1. k - Len(cs) + 1 \in 2 .. Len(stack[t]) /\ stack'[t][k] = stack[t][k - Len(cs) + 1]
                    BY <2>2, <2>1, <3>5
                <5>2. QED
                    BY <4>1, <5>1
            <4>3. n \in DOMAIN stack[t]
                BY <2>1, <4>2 DEF Became, Typed
            <4>4. n < m
                BY <2>1, <3>1, <4>1
            <4>5. QED
                BY <1>2, <3>3, <3>2, <4>3, <4>2, <4>4 DEF Descending, Became
        <3>6. QED
            BY <3>4, <3>5
    <2>5. QED
        BY <2>3, <2>4
<1>3. QED
    BY <1>1, <1>2

-----------------------------------------------------------------------------
(* The steps of a thread: what becomes of its top call.                    *)

\* What needs no assumption about the rules.
Structure == Typed /\ Places /\ Origins /\ HeardCached /\ OneInDevice

\* The top call becomes cs, which fit, and which descend with the rules.
Stepped(t, cs) ==
    Became(t, cs) /\ Fits(t, cs) /\ \A D, E : Descends(D, E) => Lower(t, cs, D, E)

\* The new call c reaches no height that the call b does not reach.
NoHigher(c, b) ==
    \A D, E : Descends(D, E) =>
        \A h \in Reach(c, D, E) : \E g \in Reach(b, D, E) : h <= g

\* What is known of a top call.
LEMMA TopFacts ==
    ASSUME Structure, NEW t \in Threads, stack[t] # <<>>
    PROVE  /\ Top(t) \in Call /\ Len(stack[t]) \in Nat \ {0}
           /\ Comes(Top(t), 1, Len(stack[t]))
           /\ Top(t).op = "checkIfTriggered" => Top(t).asked \cap Heard = {}
           /\ \A d \in Devices : InDevice(Top(t), d) => HoldsDevice(t, d)
<1>1. /\ Top(t) \in Call /\ Len(stack[t]) \in Nat \ {0}
      /\ 1 \in DOMAIN stack[t] /\ Top(t) = stack[t][1]
    BY TopCall DEF Structure
<1>2. QED
    BY <1>1 DEF Structure, Origins, HeardCached, HoldsDevice

\* The top call returns, ...
LEMMA Drops ==
    ASSUME Structure, NEW t \in Threads, stack[t] # <<>>, Return(t)
    PROVE  Stepped(t, <<>>)
<1>1. Became(t, <<>>)
    <2> DEFINE cs == <<>>
    <2>1. cs \in Seq(Call) /\ Len(cs) <= 2 /\ Become(t, cs)
        BY NoCalls DEF Return
    <2> HIDE DEF cs
    <2>2. Became(t, cs)
        BY <2>1, AfterBecome DEF Structure
    <2>3. QED
        BY <2>2 DEF cs
<1>2. QED
    BY <1>1, NoCalls DEF Stepped, Fits, Lower

\* ... becomes another, ...
LEMMA Replaces ==
    ASSUME ConstantsAssumption, Structure, NEW t \in Threads, stack[t] # <<>>,
           NEW c \in Call, Become(t, <<c>>), Comes(c, 1, Len(stack[t])),
           c.op = "checkIfTriggered" => c.asked \cap Heard = {},
           \A d \in Devices : InDevice(c, d) => HoldsDevice(t, d) \/ DeviceFree(t, d),
           NoHigher(c, Top(t))
    PROVE  Stepped(t, <<c>>)
<1>1. Became(t, <<c>>)
    <2> DEFINE cs == <<c>>
    <2>1. cs \in Seq(Call) /\ Len(cs) <= 2 /\ Become(t, cs)
        BY OneCall
    <2> HIDE DEF cs
    <2>2. Became(t, cs)
        BY <2>1, AfterBecome DEF Structure
    <2>3. QED
        BY <2>2 DEF cs
<1>2. Len(stack[t]) \in Nat \ {0} /\ Top(t) \in Call
    BY TopFacts
<1>3. Fits(t, <<c>>)
    BY <1>2, OneCall DEF Fits
<1>4. ASSUME NEW D, NEW E, Descends(D, E) PROVE Lower(t, <<c>>, D, E)
    <2>1. Reach(c, D, E) \subseteq Nat /\ Reach(Top(t), D, E) \subseteq Nat
        BY <1>2, <1>4, ReachNat
    <2>2. \A h \in Reach(c, D, E) : \E g \in Reach(Top(t), D, E) : h <= g
        BY <1>4 DEF NoHigher
    <2>3. QED
        BY <2>1, <2>2, OneCall DEF Lower
<1>5. QED
    BY <1>1, <1>3, <1>4 DEF Stepped

\* ... or calls another and waits for it.
LEMMA Pushes ==
    ASSUME ConstantsAssumption, Structure, NEW t \in Threads, stack[t] # <<>>,
           NEW c \in Call, NEW b \in Call, Become(t, <<c, b>>), b.at \in Suspended,
           Comes(c, 1, Len(stack[t]) + 1), Comes(b, 2, Len(stack[t]) + 1),
           c.op = "checkIfTriggered" => c.asked \cap Heard = {},
           b.op = "checkIfTriggered" => b.asked \cap Heard = {},
           \A d \in Devices : ~ InDevice(c, d),
           \A d \in Devices : InDevice(b, d) => HoldsDevice(t, d) \/ DeviceFree(t, d),
           NoHigher(c, Top(t)), NoHigher(b, Top(t)),
           \A D, E : Descends(D, E) => Nested(c, b, D, E)
    PROVE  Stepped(t, <<c, b>>)
<1>1. Became(t, <<c, b>>)
    <2> DEFINE cs == <<c, b>>
    <2>1. cs \in Seq(Call) /\ Len(cs) <= 2 /\ Become(t, cs)
        BY TwoCalls
    <2> HIDE DEF cs
    <2>2. Became(t, cs)
        BY <2>1, AfterBecome DEF Structure
    <2>3. QED
        BY <2>2 DEF cs
<1>2. Len(stack[t]) \in Nat \ {0} /\ Top(t) \in Call
    BY TopFacts
<1>3. ASSUME NEW k \in 1 .. Len(<<c, b>>) PROVE (k = 1 /\ <<c, b>>[k] = c) \/ (k = 2 /\ <<c, b>>[k] = b)
    BY TwoCalls
<1>4. Len(<<c, b>>) + Len(stack[t]) - 1 = Len(stack[t]) + 1
    BY <1>2, TwoCalls
<1>5. Fits(t, <<c, b>>)
    BY <1>3, <1>4 DEF Fits
<1>6. ASSUME NEW D, NEW E, Descends(D, E) PROVE Lower(t, <<c, b>>, D, E)
    <2>1. /\ Reach(c, D, E) \subseteq Nat /\ Reach(b, D, E) \subseteq Nat
          /\ Reach(Top(t), D, E) \subseteq Nat
        BY <1>2, <1>6, ReachNat
    <2>2. \A h \in Reach(c, D, E) \cup Reach(b, D, E) : \E g \in Reach(Top(t), D, E) : h <= g
        BY <1>6 DEF NoHigher
    <2>3. Nested(c, b, D, E)
        BY <1>6
    <2>4. QED
        BY <1>3, <2>1, <2>2, <2>3, TwoCalls DEF Lower
<1>7. QED
    BY <1>1, <1>5, <1>6 DEF Stepped

\* A call reaches no higher than itself.
LEMMA SameReach ==
    ASSUME ConstantsAssumption, NEW b \in Call, NEW c,
           \A D, E : Reach(c, D, E) \subseteq Reach(b, D, E)
    PROVE  NoHigher(c, b)
<1> SUFFICES ASSUME NEW D, NEW E, Descends(D, E), NEW h \in Reach(c, D, E)
             PROVE  \E g \in Reach(b, D, E) : h <= g
    BY DEF NoHigher
<1>1. h \in Reach(b, D, E) /\ h \in Nat
    BY ReachNat
<1>2. QED
    BY <1>1

\* Everything that is scheduled is an element: a device, a value or none, a lock.
LEMMA ElementsTyped ==
    ASSUME ConstantsAssumption
    PROVE  Elements \subseteq Element /\ ProfileElements \subseteq Element
BY DEF ConstantsAssumption, Elements, ProfileElements

\* isLocked: the call goes on, or throws.
LEMMA IsLockedStep ==
    ASSUME ConstantsAssumption, Structure, NEW t \in Threads, IsLocked(t), NEW c, c = Top(t)
    PROVE  \/ c.el.val # None /\ c.el.dev \in locked /\ Throw(t)
           \/ Stepped(t, <<[c EXCEPT !.at = IF c.el.val = None THEN "lock" ELSE "apply"]>>)
<1>1. /\ stack[t] # <<>> /\ c.op = "scheduleAction" /\ c \in Schedulings /\ c \in Call
      /\ Comes(c, 1, Len(stack[t]))
    BY TopFacts, CallIs DEF IsLocked, At, Top
<1>2. PICK n : n = [c EXCEPT !.at = IF c.el.val = None THEN "lock" ELSE "apply"]
    OBVIOUS
<1>3. /\ n \in Schedulings /\ n \in Call /\ n.op = "scheduleAction" /\ n.el = c.el
      /\ n.at = "apply" => n.el.val # None
    BY <1>1, <1>2, KindsAreCalls DEF Schedulings
<1>4. (c.el.val # None /\ c.el.dev \in locked /\ Throw(t)) \/ Become(t, <<n>>)
    BY <1>2 DEF IsLocked
<1>5. Comes(n, 1, Len(stack[t]))
    BY <1>1, <1>3 DEF Comes
<1>6. NoHigher(n, c)
    BY <1>1, <1>3, SameReach DEF Reach
<1>7. Become(t, <<n>>) => Stepped(t, <<n>>)
    BY <1>1, <1>3, <1>5, <1>6, Replaces DEF InDevice
<1>8. QED
    BY <1>2, <1>4, <1>7

\* deviceNeedsUpdate: the device's execute is called, or not.
LEMMA ApplyStep ==
    ASSUME ConstantsAssumption, Structure, NEW t \in Threads, Apply(t), NEW c, c = Top(t)
    PROVE  LET n == [c EXCEPT !.at = "lock"] IN
           /\ c.op = "scheduleAction" /\ c \in Schedulings /\ Comes(c, 1, Len(stack[t]))
           /\ c.el.val \in Values /\ c.at = "apply"
           /\ \/ Stepped(t, <<execute(c.el.dev, c.el.val), n>>)
              \/ ~ hasStateChanged(c.el) /\ c.el.dev \notin Async /\ Stepped(t, <<n>>)
<1>1. /\ stack[t] # <<>> /\ c.op = "scheduleAction" /\ c \in Schedulings /\ c \in Call
      /\ Comes(c, 1, Len(stack[t])) /\ c.at = "apply"
    BY TopFacts, CallIs DEF Apply, At, Top
<1>2. c.el.val \in Values /\ c.el.dev \in Devices /\ c.el \in Elements
    BY <1>1 DEF Comes, Schedulings, Element, Elements
<1>3. PICK n : n = [c EXCEPT !.at = "lock"]
    OBVIOUS
<1>4. /\ n \in Schedulings /\ n \in Call /\ n.op = "scheduleAction" /\ n.el = c.el /\ n.at = "lock"
    BY <1>1, <1>3, KindsAreCalls DEF Schedulings
<1>5. PICK x : x = execute(c.el.dev, c.el.val)
    OBVIOUS
<1>6. x \in Executions /\ x \in Call /\ x.op = "execute" /\ x.at = "enter" /\ x.dev = c.el.dev
    BY <1>2, <1>5, KindsAreCalls DEF execute, Executions
<1>7. /\ Comes(n, 1, Len(stack[t])) /\ Comes(n, 2, Len(stack[t]) + 1)
      /\ Comes(x, 1, Len(stack[t]) + 1)
    <2>1. Len(stack[t]) \in Nat
        BY <1>1, TopFacts
    <2>2. Comes(n, 1, Len(stack[t]))
        BY <1>1, <1>4 DEF Comes
    <2>3. Comes(n, 2, Len(stack[t]) + 1)
        <3>1. \/ c.el \in ProfileElements
              \/ c.el \in Commands /\ 2 = Len(stack[t]) + 1
            <4>1. \/ c.el \in ProfileElements
                  \/ c.el \in Commands /\ 1 = Len(stack[t])
                BY <1>1 DEF Comes
            <4>2. 1 = Len(stack[t]) => 2 = Len(stack[t]) + 1
                BY OneMore, Zenon
            <4>3. QED
                BY <4>1, <4>2, Zenon
        <3>2. QED
            BY <1>4, <3>1 DEF Comes
    <2>4. Comes(x, 1, Len(stack[t]) + 1)
        BY <1>2, <1>6 DEF Comes
    <2>5. QED
        BY <2>2, <2>3, <2>4
<1>8. NoHigher(n, c) /\ NoHigher(x, c)
    BY <1>1, <1>4, <1>6, SameReach DEF Reach
<1>9. CASE c.el.dev \in Async \/ hasStateChanged(c.el)
    <2>1. Become(t, <<x, n>>)
        <3>1. <<x>> \o <<n>> = <<x, n>>
            BY <1>4, <1>6, TwoCalls
        <3>2. QED
            BY <1>3, <1>5, <1>9, <3>1 DEF Apply
    <2>2. n.at \in Suspended /\ \A D, E : Nested(x, n, D, E)
        BY <1>4 DEF Suspended, Nested
    <2>3. Stepped(t, <<x, n>>)
        BY <1>1, <1>4, <1>6, <1>7, <1>8, <2>1, <2>2, Pushes DEF InDevice
    <2>4. QED
        BY <1>1, <1>2, <1>3, <1>5, <2>3
<1>10. CASE ~ (c.el.dev \in Async \/ hasStateChanged(c.el))
    <2>1. Become(t, <<n>>)
        <3>1. <<>> \o <<n>> = <<n>>
            BY <1>4, NoCalls
        <3>2. QED
            BY <1>3, <1>10, <3>1 DEF Apply
    <2>2. Stepped(t, <<n>>)
        BY <1>1, <1>4, <1>7, <1>8, <2>1, Replaces DEF InDevice
    <2>3. QED
        BY <1>1, <1>2, <1>3, <1>10, <2>2
<1>11. QED
    BY <1>9, <1>10

\* performAction under the monitor, and the report of what the device then does.
LEMMA ExecuteStep ==
    ASSUME ConstantsAssumption, Structure, NEW t \in Threads, Execute(t), NEW c, c = Top(t)
    PROVE  LET n == [c EXCEPT !.at = "leave"] IN
           /\ c.op = "execute" /\ c \in Executions /\ Comes(c, 1, Len(stack[t]))
           /\ DeviceFree(t, c.dev) /\ actual' = [actual EXCEPT ![c.dev] = c.val]
           /\ n \in Executions /\ InDevice(n, c.dev)
           /\ \/ c.dev \in Async /\ Stepped(t, <<n>>)
              \/ c.dev \notin Async /\ Stepped(t, <<update(c.dev, c.val), n>>)
<1>1. /\ stack[t] # <<>> /\ c.op = "execute" /\ c \in Executions /\ c \in Call
      /\ Comes(c, 1, Len(stack[t])) /\ c.at = "enter"
      /\ DeviceFree(t, c.dev) /\ actual' = [actual EXCEPT ![c.dev] = c.val]
    BY TopFacts, CallIs DEF Execute, At, Top
<1>2. PICK n : n = [c EXCEPT !.at = "leave"]
    OBVIOUS
<1>3. n \in Executions /\ n \in Call /\ n.op = "execute" /\ n.dev = c.dev /\ n.at = "leave"
    BY <1>1, <1>2, KindsAreCalls DEF Executions
<1>4. PICK x : x = update(c.dev, c.val)
    OBVIOUS
<1>5. /\ x \in Updates /\ x \in Call /\ x.op = "update" /\ x.dev = c.dev /\ x.todo = {}
    BY <1>1, <1>4, KindsAreCalls DEF update, Updates, Executions
<1>6. /\ Comes(n, 1, Len(stack[t])) /\ Comes(n, 2, Len(stack[t]) + 1)
      /\ Comes(x, 1, Len(stack[t]) + 1)
    <2>1. Len(stack[t]) \in Nat
        BY <1>1, TopFacts
    <2>2. QED
        BY <1>1, <1>3, <1>5, <2>1 DEF Comes
<1>7. NoHigher(n, c)
    BY <1>1, <1>3, SameReach DEF Reach
<1>8. ASSUME NEW D, NEW E, Descends(D, E)
      PROVE  /\ \A h \in Reach(x, D, E) : \E g \in Reach(c, D, E) : h <= g
             /\ Nested(x, n, D, E)
    <2>1. D[c.dev] \in Nat
        BY <1>1, <1>8 DEF Descends, Executions
    <2>2. /\ Reach(x, D, E) = {2 * D[c.dev]} /\ Reach(c, D, E) = {2 * D[c.dev] + 1}
          /\ Reach(n, D, E) = {2 * D[c.dev] + 1}
        BY <1>1, <1>3, <1>5 DEF Reach
    <2>3. QED
        BY <2>1, <2>2 DEF Nested
<1>9. \A d \in Devices : InDevice(n, d) => DeviceFree(t, d)
    BY <1>1, <1>3 DEF InDevice
<1>10. CASE c.dev \in Async
    <2>1. Become(t, <<n>>)
        <3>1. <<>> \o <<n>> = <<n>>
            BY <1>3, NoCalls
        <3>2. QED
            BY <1>2, <1>10, <3>1 DEF Execute
    <2>2. Stepped(t, <<n>>)
        BY <1>1, <1>3, <1>6, <1>7, <1>9, <2>1, Replaces
    <2>3. QED
        BY <1>1, <1>2, <1>3, <1>10, <2>2 DEF InDevice
<1>11. CASE c.dev \notin Async
    <2>1. Become(t, <<x, n>>)
        <3>1. <<x>> \o <<n>> = <<x, n>>
            BY <1>3, <1>5, TwoCalls
        <3>2. QED
            BY <1>2, <1>4, <1>11, <3>1 DEF Execute
    <2>2. n.at \in Suspended
        BY <1>3 DEF Suspended
    <2>3. NoHigher(x, c)
        BY <1>8 DEF NoHigher
    <2>4. Stepped(t, <<x, n>>)
        BY <1>1, <1>3, <1>5, <1>6, <1>7, <1>8, <1>9, <2>1, <2>2, <2>3, Pushes DEF InDevice
    <2>5. QED
        BY <1>1, <1>2, <1>3, <1>4, <1>11, <2>4 DEF InDevice
<1>12. QED
    BY <1>10, <1>11

\* The periodic task reports what it has read.
LEMMA SnapshotStep ==
    ASSUME ConstantsAssumption, Structure, NEW t \in Threads, Snapshot(t), NEW c, c = Top(t)
    PROVE  /\ c.op = "run" /\ c.at = "snapshot" /\ c.dev \in Polled
           /\ update(c.dev, actual[c.dev]) \in Updates
           /\ Stepped(t, <<update(c.dev, actual[c.dev])>>)
<1>1. /\ stack[t] # <<>> /\ c.op = "run" /\ c \in Runs /\ c \in Call
      /\ c.at = "snapshot" /\ Comes(c, 1, Len(stack[t]))
    BY TopFacts, CallIs DEF Snapshot, At, Top
<1>2. PICK n : n = update(c.dev, actual[c.dev])
    OBVIOUS
<1>3. n \in Updates /\ n \in Call /\ n.op = "update" /\ n.dev = c.dev /\ n.todo = {}
    BY <1>1, <1>2, KindsAreCalls DEF update, Updates, Runs, Structure, Typed
<1>4. Become(t, <<n>>)
    BY <1>2 DEF Snapshot
<1>5. Comes(n, 1, Len(stack[t]))
    BY <1>3 DEF Comes
<1>6. NoHigher(n, c)
    <2> SUFFICES ASSUME NEW D, NEW E, Descends(D, E)
                 PROVE  \A h \in Reach(n, D, E) : \E g \in Reach(c, D, E) : h <= g
        BY DEF NoHigher
    <2>1. D[c.dev] \in Nat
        BY <1>1 DEF Descends, Runs
    <2>2. Reach(n, D, E) = {2 * D[c.dev]} /\ Reach(c, D, E) = {2 * D[c.dev] + 1}
        BY <1>1, <1>3 DEF Reach
    <2>3. QED
        BY <2>1, <2>2
<1>7. Stepped(t, <<n>>)
    BY <1>1, <1>3, <1>4, <1>5, <1>6, Replaces DEF InDevice
<1>8. QED
    BY <1>1, <1>2, <1>3, <1>7 DEF Comes

\* The update compares the state with the cached one, ...
LEMMA CompareStep ==
    ASSUME ConstantsAssumption, Structure, NEW t \in Threads, Compare(t), NEW c, c = Top(t)
    PROVE  /\ c.op = "update" /\ c.at = "compare" /\ c \in Updates /\ Comes(c, 1, Len(stack[t]))
           /\ [c EXCEPT !.at = "put"] \in Updates
           /\ \/ cached[c.dev] = c.val /\ Stepped(t, <<>>)
              \/ Stepped(t, <<[c EXCEPT !.at = "put"]>>)
<1>1. /\ stack[t] # <<>> /\ c.op = "update" /\ c \in Updates /\ c \in Call
      /\ c.at = "compare" /\ Comes(c, 1, Len(stack[t]))
    BY TopFacts, CallIs DEF Compare, At, Top
<1>2. PICK n : n = [c EXCEPT !.at = "put"]
    OBVIOUS
<1>3. n \in Updates /\ n \in Call /\ n.op = "update" /\ n.dev = c.dev /\ n.todo = c.todo
    BY <1>1, <1>2, KindsAreCalls DEF Updates
<1>4. (cached[c.dev] = c.val /\ Return(t)) \/ Become(t, <<n>>)
    BY <1>2 DEF Compare
<1>5. Comes(n, 1, Len(stack[t]))
    BY <1>1, <1>3 DEF Comes
<1>6. NoHigher(n, c)
    BY <1>1, <1>3, SameReach DEF Reach
<1>7. Become(t, <<n>>) => Stepped(t, <<n>>)
    BY <1>1, <1>3, <1>5, <1>6, Replaces DEF InDevice
<1>8. Return(t) => Stepped(t, <<>>)
    BY <1>1, Drops
<1>9. QED
    BY <1>1, <1>2, <1>3, <1>4, <1>7, <1>8

\* ... stores it, and lists the events that listen to the device, ...
LEMMA PutStep ==
    ASSUME ConstantsAssumption, Structure, NEW t \in Threads, Put(t), NEW c, c = Top(t)
    PROVE  LET n == [c EXCEPT !.at = "events", !.todo = EventsTriggeredBy(c.dev)] IN
           /\ c.op = "update" /\ c.at = "put" /\ c \in Updates /\ n \in Updates
           /\ cached' = [cached EXCEPT ![c.dev] = c.val]
           /\ Stepped(t, <<n>>)
<1>1. /\ stack[t] # <<>> /\ c.op = "update" /\ c \in Updates /\ c \in Call /\ c.at = "put"
      /\ cached' = [cached EXCEPT ![c.dev] = c.val]
    BY TopFacts, CallIs DEF Put, At, Top
<1>2. PICK n : n = [c EXCEPT !.at = "events", !.todo = EventsTriggeredBy(c.dev)]
    OBVIOUS
<1>3. /\ n \in Updates /\ n \in Call /\ n.op = "update" /\ n.dev = c.dev
      /\ n.todo = EventsTriggeredBy(c.dev)
    BY <1>1, <1>2, KindsAreCalls DEF Updates, EventsTriggeredBy
<1>4. Become(t, <<n>>)
    BY <1>2 DEF Put
<1>5. Comes(n, 1, Len(stack[t]))
    BY <1>3 DEF Comes
<1>6. NoHigher(n, c)
    BY <1>1, <1>3, SameReach DEF Reach
<1>7. Stepped(t, <<n>>)
    BY <1>1, <1>3, <1>4, <1>5, <1>6, Replaces DEF InDevice
<1>8. QED
    BY <1>1, <1>2, <1>3, <1>7

\* ... and checks them one by one.
LEMMA NextEventStep ==
    ASSUME ConstantsAssumption, Structure, NEW t \in Threads, NextEvent(t), NEW c, c = Top(t)
    PROVE  /\ c.op = "update" /\ c.at = "events" /\ c \in Updates /\ Comes(c, 1, Len(stack[t]))
           /\ \/ c.todo = {} /\ Stepped(t, <<>>)
              \/ \E e \in c.todo :
                    /\ check(e, c.dev) \in Checks /\ [c EXCEPT !.todo = @ \ {e}] \in Updates
                    /\ Stepped(t, <<check(e, c.dev), [c EXCEPT !.todo = @ \ {e}]>>)
<1>1. /\ stack[t] # <<>> /\ c.op = "update" /\ c \in Updates /\ c \in Call /\ c.at = "events"
      /\ Comes(c, 1, Len(stack[t])) /\ Len(stack[t]) \in Nat
    BY TopFacts, CallIs DEF NextEvent, At, Top
<1>2. CASE c.todo = {} /\ Return(t)
    BY <1>1, <1>2, Drops
<1>3. ASSUME NEW e \in c.todo, Become(t, <<check(e, c.dev), [c EXCEPT !.todo = @ \ {e}]>>)
      PROVE  /\ check(e, c.dev) \in Checks /\ [c EXCEPT !.todo = @ \ {e}] \in Updates
             /\ Stepped(t, <<check(e, c.dev), [c EXCEPT !.todo = @ \ {e}]>>)
    <2>1. PICK n : n = [c EXCEPT !.todo = @ \ {e}]
        OBVIOUS
    <2>2. /\ n \in Updates /\ n \in Call /\ n.op = "update" /\ n.dev = c.dev
          /\ n.todo = c.todo \ {e} /\ n.at = "events"
        BY <1>1, <2>1, KindsAreCalls DEF Updates
    <2>3. PICK x : x = check(e, c.dev)
        OBVIOUS
    <2>4. e \in Events /\ c.dev \in Devices
        BY <1>1, <1>3 DEF Updates
    <2>5. /\ x \in Checks /\ x \in Call /\ x.op = "checkIfTriggered" /\ x.event = e
          /\ x.asked = {}
        BY <2>3, <2>4, KindsAreCalls DEF check, Checks
    <2>6. e \in Events /\ c.dev \in DOMAIN when[e]
        BY <1>1, <1>3 DEF Comes, EventsTriggeredBy
    <2>7. Comes(n, 2, Len(stack[t]) + 1) /\ Comes(x, 1, Len(stack[t]) + 1)
        BY <1>1, <2>2, <2>5 DEF Comes
    <2>8. NoHigher(n, c)
        BY <1>1, <2>2, SameReach DEF Reach
    <2>9. ASSUME NEW D, NEW E, Descends(D, E)
          PROVE  /\ \A h \in Reach(x, D, E) : \E g \in Reach(c, D, E) : h <= g
                 /\ Nested(x, n, D, E)
        <3>1. D[c.dev] \in Nat /\ E[e] \in Nat /\ E[e] < D[c.dev]
            BY <1>1, <2>6, <2>9 DEF Descends, Updates
        <3>2. /\ Reach(x, D, E) = {2 * E[e]} /\ Reach(c, D, E) = {2 * D[c.dev]}
              /\ Reach(n, D, E) = {2 * D[c.dev]}
            BY <1>1, <2>2, <2>5 DEF Reach
        <3>3. QED
            BY <3>1, <3>2 DEF Nested
    <2>10. NoHigher(x, c)
        BY <2>9 DEF NoHigher
    <2>11. n.at \in Suspended
        BY <2>2 DEF Suspended
    <2>12. Stepped(t, <<x, n>>)
        <3>1. Become(t, <<x, n>>)
            BY <1>3, <2>1, <2>3
        <3>2. \A d \in Devices : ~ InDevice(x, d) /\ ~ InDevice(n, d)
            BY <2>2, <2>5 DEF InDevice
        <3>3. x.asked \cap Heard = {} /\ n.op # "checkIfTriggered"
            BY <2>2, <2>5
        <3>4. QED
            BY <1>1, <2>2, <2>5, <2>7, <2>8, <2>9, <2>10, <2>11, <3>1, <3>2, <3>3, Pushes
    <2>13. QED
        BY <2>1, <2>2, <2>3, <2>5, <2>12
<1>4. QED
    BY <1>1, <1>2, <1>3 DEF NextEvent

\* The event is entered, with the devices that must be asked.
LEMMA EnterEventStep ==
    ASSUME ConstantsAssumption, Structure, NEW t \in Threads, EnterEvent(t), NEW c, c = Top(t)
    PROVE  LET n == [c EXCEPT !.at = "test", !.asked = MustAsk(c.event)] IN
           /\ c.op = "checkIfTriggered" /\ c.at = "enter" /\ c \in Checks /\ n \in Checks
           /\ EventFree(t, c.event) /\ Stepped(t, <<n>>)
<1>1. /\ stack[t] # <<>> /\ c.op = "checkIfTriggered" /\ c \in Checks /\ c \in Call
      /\ c.at = "enter" /\ EventFree(t, c.event)
    BY TopFacts, CallIs DEF EnterEvent, At, Top
<1>2. PICK n : n = [c EXCEPT !.at = "test", !.asked = MustAsk(c.event)]
    OBVIOUS
<1>3. MustAsk(c.event) \subseteq Devices /\ MustAsk(c.event) \cap Heard = {}
    BY <1>1 DEF MustAsk, Checks, ConstantsAssumption, Structure, HeardCached
<1>4. /\ n \in Checks /\ n \in Call /\ n.op = "checkIfTriggered" /\ n.event = c.event
      /\ n.asked = MustAsk(c.event)
    BY <1>1, <1>2, <1>3, KindsAreCalls DEF Checks
<1>5. Become(t, <<n>>)
    BY <1>2 DEF EnterEvent
<1>6. Comes(n, 1, Len(stack[t])) /\ \A d \in Devices : ~ InDevice(n, d)
    BY <1>4 DEF Comes, InDevice
<1>7. NoHigher(n, c)
    BY <1>1, <1>4, SameReach DEF Reach
<1>8. Stepped(t, <<n>>)
    BY <1>1, <1>3, <1>4, <1>5, <1>6, <1>7, Replaces
<1>9. QED
    BY <1>1, <1>2, <1>4, <1>8

\* A check runs the elements els of its event, and waits for them at the point p.
LEMMA CheckRuns ==
    ASSUME ConstantsAssumption, Structure, NEW t \in Threads, stack[t] # <<>>,
           NEW c, c = Top(t), c.op = "checkIfTriggered",
           NEW els, els = profile[c.event] \/ els = inverted[c.event],
           NEW p \in {"activate", "leave"},
           Become(t, <<scheduleAll(els), [c EXCEPT !.at = p, !.asked = {}]>>)
    PROVE  /\ [c EXCEPT !.at = p, !.asked = {}] \in Checks
           /\ Stepped(t, <<scheduleAll(els), [c EXCEPT !.at = p, !.asked = {}]>>)
<1>1. c \in Checks /\ c \in Call /\ Len(stack[t]) \in Nat /\ c.event \in Events
    BY TopFacts, CallIs DEF Checks
<1>2. PICK n : n = [c EXCEPT !.at = p, !.asked = {}]
    OBVIOUS
<1>3. /\ n \in Checks /\ n \in Call /\ n.op = "checkIfTriggered" /\ n.event = c.event
      /\ n.asked = {} /\ n.at = p
    BY <1>1, <1>2, KindsAreCalls DEF Checks
<1>4. PICK x : x = scheduleAll(els)
    OBVIOUS
<1>5. els \in SUBSET Element /\ els \subseteq ProfileElements
    BY <1>1 DEF ConstantsAssumption, ProfileElements
<1>6. x \in Profiles /\ x \in Call /\ x.op = "scheduleAll" /\ x.todo = els
    BY <1>4, <1>5, KindsAreCalls DEF scheduleAll, Profiles
<1>7. Comes(n, 2, Len(stack[t]) + 1) /\ Comes(x, 1, Len(stack[t]) + 1)
    BY <1>3, <1>5, <1>6 DEF Comes
<1>8. NoHigher(n, c)
    BY <1>1, <1>3, SameReach DEF Reach
<1>9. ASSUME NEW D, NEW E, Descends(D, E)
      PROVE  /\ \A h \in Reach(x, D, E) : \E g \in Reach(c, D, E) : h <= g
             /\ Nested(x, n, D, E)
    <2>1. /\ Reach(x, D, E) = {2 * D[el.dev] + 1 : el \in els} /\ Reach(c, D, E) = {2 * E[c.event]}
          /\ Reach(n, D, E) = {2 * E[c.event]}
        BY <1>3, <1>6 DEF Reach
    <2>2. ASSUME NEW el \in els
          PROVE  2 * D[el.dev] + 1 < 2 * E[c.event]
        <3>1. D[el.dev] \in Nat /\ E[c.event] \in Nat /\ D[el.dev] < E[c.event]
            BY <1>1, <1>5, <1>9 DEF Descends, Element
        <3>2. QED
            BY <3>1
    <2>3. \A el \in els : 2 * D[el.dev] + 1 \in Nat /\ 2 * E[c.event] \in Nat
        BY <1>1, <1>5, <1>9 DEF Descends, Element
    <2>4. QED
        BY <2>1, <2>2, <2>3 DEF Nested
<1>10. NoHigher(x, c)
    BY <1>9 DEF NoHigher
<1>11. n.at \in Suspended
    BY <1>3 DEF Suspended
<1>12. Stepped(t, <<x, n>>)
    <2>1. Become(t, <<x, n>>)
        BY <1>2, <1>4
    <2>2. \A d \in Devices : ~ InDevice(x, d) /\ ~ InDevice(n, d)
        BY <1>3, <1>6 DEF InDevice
    <2>3. x.op # "checkIfTriggered" /\ n.asked \cap Heard = {}
        BY <1>3, <1>6
    <2>4. QED
        BY <1>3, <1>6, <1>7, <1>8, <1>9, <1>10, <1>11, <2>1, <2>2, <2>3, Pushes
<1>13. QED
    BY <1>2, <1>3, <1>4, <1>12

\* The condition is met and the event is not active: its profile runs.
LEMMA TriggerStep ==
    ASSUME ConstantsAssumption, Structure, NEW t \in Threads, Trigger(t), NEW c, c = Top(t)
    PROVE  LET n == [c EXCEPT !.at = "activate", !.asked = {}] IN
           /\ c.op = "checkIfTriggered" /\ c.at = "test" /\ c \in Checks /\ n \in Checks
           /\ eventTriggered(c.event, c.changed, c.asked) /\ c.event \notin active
           /\ Stepped(t, <<scheduleAll(profile[c.event]), n>>)
<1>1. /\ stack[t] # <<>> /\ c.op = "checkIfTriggered" /\ c.at = "test" /\ c \in Checks
      /\ eventTriggered(c.event, c.changed, c.asked) /\ c.event \notin active
      /\ Become(t, <<scheduleAll(profile[c.event]), [c EXCEPT !.at = "activate", !.asked = {}]>>)
    BY TopFacts, CallIs DEF Trigger, At, Top, Met
<1>2. QED
    BY <1>1, CheckRuns

\* The profile has run: the event is active.
LEMMA ActivateStep ==
    ASSUME ConstantsAssumption, Structure, NEW t \in Threads, Activate(t), NEW c, c = Top(t)
    PROVE  /\ c.op = "checkIfTriggered" /\ c.at = "activate" /\ c \in Checks
           /\ active' = active \cup {c.event} /\ Stepped(t, <<>>)
<1>1. /\ stack[t] # <<>> /\ c.op = "checkIfTriggered" /\ c.at = "activate" /\ c \in Checks
      /\ active' = active \cup {c.event} /\ Return(t)
    BY TopFacts, CallIs DEF Activate, At, Top
<1>2. QED
    BY <1>1, Drops

\* The condition is met and the event is active: nothing happens.
LEMMA StayActiveStep ==
    ASSUME ConstantsAssumption, Structure, NEW t \in Threads, StayActive(t), NEW c, c = Top(t)
    PROVE  /\ c.op = "checkIfTriggered" /\ c.at = "test" /\ c \in Checks
           /\ eventTriggered(c.event, c.changed, c.asked) /\ c.event \in active
           /\ Stepped(t, <<>>)
<1>1. /\ stack[t] # <<>> /\ c.op = "checkIfTriggered" /\ c.at = "test" /\ c \in Checks
      /\ eventTriggered(c.event, c.changed, c.asked) /\ c.event \in active /\ Return(t)
    BY TopFacts, CallIs DEF StayActive, At, Top, Met
<1>2. QED
    BY <1>1, Drops

\* The condition is not met: the event is not active any more, and may run its inverted
\* profile.
LEMMA DeactivateStep ==
    ASSUME ConstantsAssumption, Structure, NEW t \in Threads, Deactivate(t), NEW c, c = Top(t)
    PROVE  LET n == [c EXCEPT !.at = "leave", !.asked = {}] IN
           /\ c.op = "checkIfTriggered" /\ c.at = "test" /\ c \in Checks
           /\ ~ eventTriggered(c.event, c.changed, c.asked) /\ active' = active \ {c.event}
           /\ \/ c.event \notin active \cap unTrigger /\ Stepped(t, <<>>)
              \/ /\ c.event \in active \cap unTrigger /\ n \in Checks
                 /\ Stepped(t, <<scheduleAll(inverted[c.event]), n>>)
<1>1. /\ stack[t] # <<>> /\ c.op = "checkIfTriggered" /\ c.at = "test" /\ c \in Checks
      /\ ~ eventTriggered(c.event, c.changed, c.asked) /\ active' = active \ {c.event}
    BY TopFacts, CallIs DEF Deactivate, At, Top, Met
<1>2. CASE c.event \notin active \cap unTrigger
    <2>1. Return(t)
        BY <1>2 DEF Deactivate
    <2>2. QED
        BY <1>1, <1>2, <2>1, Drops
<1>3. CASE c.event \in active \cap unTrigger
    <2>1. Become(t, <<scheduleAll(inverted[c.event]), [c EXCEPT !.at = "leave", !.asked = {}]>>)
        BY <1>3 DEF Deactivate
    <2>2. QED
        BY <1>1, <1>3, <2>1, CheckRuns
<1>4. QED
    BY <1>2, <1>3

\* The inverted profile has run.
LEMMA LeaveEventStep ==
    ASSUME ConstantsAssumption, Structure, NEW t \in Threads, LeaveEvent(t), NEW c, c = Top(t)
    PROVE  c.op = "checkIfTriggered" /\ c.at = "leave" /\ c \in Checks /\ Stepped(t, <<>>)
<1>1. /\ stack[t] # <<>> /\ c.op = "checkIfTriggered" /\ c.at = "leave" /\ c \in Checks /\ Return(t)
    BY TopFacts, CallIs DEF LeaveEvent, At, Top
<1>2. QED
    BY <1>1, Drops

\* The device is left.
LEMMA LeaveDeviceStep ==
    ASSUME ConstantsAssumption, Structure, NEW t \in Threads, LeaveDevice(t), NEW c, c = Top(t)
    PROVE  c.op = "execute" /\ c.at = "leave" /\ c \in Executions /\ Stepped(t, <<>>)
<1>1. /\ stack[t] # <<>> /\ c.op = "execute" /\ c.at = "leave" /\ c \in Executions /\ Return(t)
    BY TopFacts, CallIs DEF LeaveDevice, At, Top
<1>2. QED
    BY <1>1, Drops

\* The lock of the element is set, or lifted.
LEMMA SetLockStep ==
    ASSUME ConstantsAssumption, Structure, NEW t \in Threads, SetLock(t), NEW c, c = Top(t)
    PROVE  /\ c.op = "scheduleAction" /\ c.at = "lock" /\ c \in Schedulings /\ Stepped(t, <<>>)
           /\ c.el \in Elements /\ c.el.dev \in Devices
           /\ locked' \subseteq locked \/ (c.el.lock = TRUE /\ locked' = locked \cup {c.el.dev})
<1>1. /\ stack[t] # <<>> /\ c.op = "scheduleAction" /\ c.at = "lock" /\ c \in Schedulings
      /\ Return(t) /\ Comes(c, 1, Len(stack[t]))
    BY TopFacts, CallIs DEF SetLock, At, Top
<1>2. c.el \in Elements /\ c.el.dev \in Devices
    BY <1>1 DEF Comes, Schedulings, Element, Elements
<1>3. locked' \subseteq locked \/ (c.el.lock = TRUE /\ locked' = locked \cup {c.el.dev})
    <2>1. locked' = CASE c.el.lock = TRUE  -> locked \cup {c.el.dev}
                      [] c.el.lock = FALSE -> locked \ {c.el.dev}
                      [] OTHER             -> locked
        BY DEF SetLock
    <2>2. CASE c.el.lock = TRUE
        <3>1. ~ (c.el.lock = FALSE)
            BY <2>2, Zenon
        <3>2. QED
            BY <2>1, <2>2, <3>1
    <2>3. CASE c.el.lock # TRUE
        <3>1. locked' = locked \ {c.el.dev} \/ locked' = locked
            BY <2>1, <2>3
        <3>2. QED
            BY <3>1
    <2>4. QED
        BY <2>2, <2>3
<1>4. QED
    BY <1>1, <1>2, <1>3, Drops

\* The profile's next element is scheduled, if it would change anything.
LEMMA NextElementStep ==
    ASSUME ConstantsAssumption, Structure, NEW t \in Threads, NextElement(t), NEW c, c = Top(t)
    PROVE  /\ c.op = "scheduleAll" /\ c \in Profiles
           /\ \/ c.todo = {} /\ Stepped(t, <<>>)
              \/ \E el \in c.todo :
                    LET n == [c EXCEPT !.todo = @ \ {el}] IN
                    /\ el \in ProfileElements /\ n \in Profiles
                    /\ \/ hasStateChanged(el) /\ Stepped(t, <<schedule(el), n>>)
                       \/ ~ hasStateChanged(el) /\ Stepped(t, <<n>>)
<1>1. /\ stack[t] # <<>> /\ c.op = "scheduleAll" /\ c \in Profiles /\ c \in Call /\ c.at = "next"
      /\ Comes(c, 1, Len(stack[t])) /\ Len(stack[t]) \in Nat
    BY TopFacts, CallIs DEF NextElement, At, Top
<1>2. CASE c.todo = {} /\ Return(t)
    BY <1>1, <1>2, Drops
<1>3. ASSUME NEW el \in c.todo,
             Become(t, (IF hasStateChanged(el) THEN <<schedule(el)>> ELSE <<>>)
                       \o <<[c EXCEPT !.todo = @ \ {el}]>>)
      PROVE  /\ el \in ProfileElements /\ [c EXCEPT !.todo = @ \ {el}] \in Profiles
             /\ \/ hasStateChanged(el) /\ Stepped(t, <<schedule(el), [c EXCEPT !.todo = @ \ {el}]>>)
                \/ ~ hasStateChanged(el) /\ Stepped(t, <<[c EXCEPT !.todo = @ \ {el}]>>)
    <2>1. PICK n : n = [c EXCEPT !.todo = @ \ {el}]
        OBVIOUS
    <2>2. /\ n \in Profiles /\ n \in Call /\ n.op = "scheduleAll" /\ n.todo = c.todo \ {el}
          /\ n.at = "next"
        BY <1>1, <2>1, KindsAreCalls DEF Profiles
    <2>3. PICK x : x = schedule(el)
        OBVIOUS
    <2>4. el \in Element /\ el \in ProfileElements
        BY <1>1, <1>3 DEF Profiles, Comes
    <2>5. x \in Schedulings /\ x \in Call /\ x.op = "scheduleAction" /\ x.el = el /\ x.at = "isLocked"
        BY <2>3, <2>4, KindsAreCalls DEF schedule, Schedulings
    <2>6. /\ Comes(n, 1, Len(stack[t])) /\ Comes(n, 2, Len(stack[t]) + 1)
          /\ Comes(x, 1, Len(stack[t]) + 1)
        BY <1>1, <2>2, <2>4, <2>5 DEF Comes
    <2>7. NoHigher(n, c)
        <3>1. \A D, E : Reach(n, D, E) \subseteq Reach(c, D, E)
            BY <1>1, <2>2 DEF Reach
        <3>2. QED
            BY <1>1, <3>1, SameReach
    <2>8. NoHigher(x, c)
        <3>1. \A D, E : Reach(x, D, E) = {2 * D[el.dev] + 1}
            BY <2>5 DEF Reach
        <3>2. \A D, E : Reach(c, D, E) = {2 * D[f.dev] + 1 : f \in c.todo}
            BY <1>1 DEF Reach
        <3>3. \A D, E : Reach(x, D, E) \subseteq Reach(c, D, E)
            BY <1>3, <3>1, <3>2
        <3>4. QED
            BY <1>1, <3>3, SameReach
    <2>9. /\ \A d \in Devices : ~ InDevice(x, d) /\ ~ InDevice(n, d)
          /\ x.op # "checkIfTriggered" /\ n.op # "checkIfTriggered" /\ n.at \in Suspended
          /\ \A D, E : Nested(x, n, D, E)
        BY <2>2, <2>5 DEF InDevice, Suspended, Nested
    <2>10. CASE hasStateChanged(el)
        <3>1. Become(t, <<x, n>>)
            <4>1. <<x>> \o <<n>> = <<x, n>>
                BY <2>2, <2>5, TwoCalls
            <4>2. QED
                BY <1>3, <2>1, <2>3, <2>10, <4>1
        <3>2. Stepped(t, <<x, n>>)
            BY <1>1, <2>2, <2>5, <2>6, <2>7, <2>8, <2>9, <3>1, Pushes
        <3>3. QED
            BY <2>1, <2>2, <2>3, <2>4, <2>10, <3>2
    <2>11. CASE ~ hasStateChanged(el)
        <3>1. Become(t, <<n>>)
            <4>1. <<>> \o <<n>> = <<n>>
                BY <2>2, NoCalls
            <4>2. QED
                BY <1>3, <2>1, <2>11, <4>1
        <3>2. Stepped(t, <<n>>)
            BY <1>1, <2>2, <2>6, <2>7, <2>9, <3>1, Replaces
        <3>3. QED
            BY <2>1, <2>2, <2>4, <2>11, <3>2
    <2>12. QED
        BY <2>10, <2>11
<1>4. QED
    BY <1>1, <1>2, <1>3 DEF NextElement

-----------------------------------------------------------------------------
(* Types, places, origins and the monitors of the devices.                 *)

\* A step of a thread keeps the structure.
LEMMA SteppedKeeps ==
    ASSUME Structure, NEW t, NEW cs, Stepped(t, cs),
           actual' \in [Devices -> Values], cached' \in [Devices -> Values \cup {None}],
           locked' \subseteq Devices, active' \subseteq Events,
           \A d \in Heard : cached[d] # None => cached'[d] # None
    PROVE  Structure'
<1>1. Typed'
    BY DEF Stepped, Became, Typed
<1>2. Places' /\ Origins' /\ HeardCached' /\ OneInDevice'
    BY PlacesKept, OriginsKept, HeardCachedKept, OneInDeviceKept DEF Structure, Stepped
<1>3. QED
    BY <1>1, <1>2 DEF Structure

\* A thread with nothing to do begins the call c, or one is cut short: the stack of t has
\* become s, which is empty or holds one call.
Restarted(t, s) ==
    /\ t \in Threads /\ s \in Seq(Call) /\ stack' = [stack EXCEPT ![t] = s]
    /\ \/ s = <<>>
       \/ /\ Len(s) = 1 /\ Comes(s[1], 1, 1) /\ s[1].op # "checkIfTriggered"
          /\ \A d \in Devices : ~ InDevice(s[1], d)

\* A thread that starts a task keeps the structure, if the devices' values are values.
LEMMA RestartedKeeps ==
    ASSUME Structure, NEW t, NEW s, Restarted(t, s),
           actual' \in [Devices -> Values], cached' = cached, locked' = locked, active' = active
    PROVE  Structure'
<1>1. /\ stack' \in [Threads -> Seq(Call)] /\ stack'[t] = s
      /\ \A u \in Threads \ {t} : stack'[u] = stack[u]
    BY DEF Restarted, Structure, Typed
<1>2. Len(s) \in {0, 1} /\ DOMAIN s = 1 .. Len(s) /\ \A k \in DOMAIN s : k = 1 /\ Len(s) = 1
    BY NoCalls, LenProperties DEF Restarted
<1>3. Typed'
    BY <1>1 DEF Structure, Typed
<1>4. Places'
    <2> SUFFICES ASSUME NEW u \in Threads, NEW k \in 2 .. Len(stack'[u])
                 PROVE  stack'[u][k].at \in Suspended
        BY DEF Places
    <2>1. u # t
        BY <1>1, <1>2
    <2>2. QED
        BY <1>1, <2>1 DEF Structure, Places
<1>5. Origins'
    <2> SUFFICES ASSUME NEW u \in Threads, NEW k \in DOMAIN stack'[u]
                 PROVE  Comes(stack'[u][k], k, Len(stack'[u]))
        BY DEF Origins, Comes, EventsTriggeredBy
    <2>1. CASE u = t
        <3>1. k = 1 /\ Len(s) = 1 /\ stack'[u] = s
            BY <1>1, <1>2, <2>1
        <3>2. Comes(s[1], 1, 1)
            BY <1>2, <3>1, NoCalls DEF Restarted
        <3>3. QED
            BY <3>1, <3>2
    <2>2. CASE u # t
        BY <1>1, <2>2 DEF Structure, Origins
    <2>3. QED
        BY <2>1, <2>2
<1>6. HeardCached'
    <2> SUFFICES ASSUME NEW u \in Threads, NEW k \in DOMAIN stack'[u],
                        stack'[u][k].op = "checkIfTriggered"
                 PROVE  stack'[u][k].asked \cap Heard = {}
        BY DEF Structure, HeardCached
    <2>1. u # t
        BY <1>1, <1>2 DEF Restarted
    <2>2. QED
        BY <1>1, <2>1 DEF Structure, HeardCached
<1>7. OneInDevice'
    <2> SUFFICES ASSUME NEW d \in Devices, NEW u \in Threads, NEW w \in Threads,
                        HoldsDevice(u, d)', HoldsDevice(w, d)'
                 PROVE  u = w
        BY DEF OneInDevice
    <2>1. \A v \in Threads \ {t} : HoldsDevice(v, d)' => HoldsDevice(v, d)
        BY <1>1 DEF HoldsDevice, InDevice
    <2>2. ~ HoldsDevice(t, d)'
        BY <1>1, <1>2 DEF HoldsDevice, Restarted, InDevice
    <2>3. QED
        BY <2>1, <2>2 DEF Structure, OneInDevice
<1>8. QED
    BY <1>3, <1>4, <1>5, <1>6, <1>7 DEF Structure

\* An exception leaves nothing of the thread's calls.
LEMMA ThrowRestarts ==
    ASSUME Structure, NEW t \in Threads, Throw(t)
    PROVE  Restarted(t, <<>>)
BY NoCalls DEF Throw, Restarted

\* A request, and a poll, begin a call.
LEMMA ScheduleActionRestarts ==
    ASSUME ConstantsAssumption, NEW u \in Users, NEW el \in Commands, Request(u, schedule(el))
    PROVE  Restarted(u, <<schedule(el)>>) /\ schedule(el) \in Schedulings
<1>1. PICK c : c = schedule(el)
    OBVIOUS
<1>2. c \in Schedulings /\ c \in Call /\ c.op = "scheduleAction" /\ c.el = el /\ c.at = "isLocked"
    BY <1>1, KindsAreCalls DEF schedule, Schedulings, ConstantsAssumption
<1>3. Comes(c, 1, 1) /\ \A d \in Devices : ~ InDevice(c, d)
    BY <1>2 DEF Comes, InDevice
<1>4. Restarted(u, <<c>>)
    BY <1>1, <1>2, <1>3, OneCall DEF Restarted, Request, Threads
<1>5. QED
    BY <1>1, <1>2, <1>4

\* A user's profile starts a task with a profile to schedule.
LEMMA TriggerProfileRestarts ==
    ASSUME ConstantsAssumption, NEW u \in Users, NEW e \in Triggered,
           Request(u, scheduleAll(profile[e]))
    PROVE  Restarted(u, <<scheduleAll(profile[e])>>) /\ scheduleAll(profile[e]) \in Profiles
<1>1. PICK c : c = scheduleAll(profile[e])
    OBVIOUS
<1>2. c \in Profiles /\ c \in Call /\ c.op = "scheduleAll" /\ c.todo \subseteq ProfileElements
    BY <1>1, KindsAreCalls DEF scheduleAll, Profiles, ConstantsAssumption, ProfileElements
<1>3. Comes(c, 1, 1) /\ \A d \in Devices : ~ InDevice(c, d)
    BY <1>2 DEF Comes, InDevice
<1>4. Restarted(u, <<c>>)
    BY <1>1, <1>2, <1>3, OneCall DEF Restarted, Request, Threads
<1>5. QED
    BY <1>1, <1>2, <1>4

\* A poll starts a task that runs the device.
LEMMA PollRestarts ==
    ASSUME ConstantsAssumption, Structure, NEW d \in Polled, Poll(d),
           NEW c, c = [op |-> "run", at |-> "snapshot", dev |-> d]
    PROVE  /\ Restarted(d, <<c>>) /\ c \in Runs /\ d \in Devices
           /\ \E v \in Values : actual' = [actual EXCEPT ![d] = v]
           /\ actual' \in [Devices -> Values]
<1>1. d \in Devices
    BY DEF ConstantsAssumption
<1>2. c \in Runs /\ c \in Call /\ c.op = "run" /\ c.dev = d
    BY <1>1, KindsAreCalls DEF Runs
<1>3. Comes(c, 1, 1) /\ \A x \in Devices : ~ InDevice(c, x)
    BY <1>2 DEF Comes, InDevice
<1>4. stack' = [stack EXCEPT ![d] = <<c>>]
    BY DEF Poll
<1>5. Restarted(d, <<c>>)
    BY <1>2, <1>3, <1>4, OneCall DEF Restarted, Threads
<1>6. \E v \in Values : actual' = [actual EXCEPT ![d] = v]
    BY DEF Poll
<1>7. actual' \in [Devices -> Values]
    BY <1>1, <1>6 DEF Structure, Typed
<1>8. QED
    BY <1>1, <1>2, <1>5, <1>6, <1>7

\* The structure is there at the beginning, ...
LEMMA InitStructure == ConstantsAssumption /\ Init => Structure
<1> SUFFICES ASSUME ConstantsAssumption, Init PROVE Structure
    OBVIOUS
<1>1. stack \in [Threads -> Seq(Call)] /\ \A t \in Threads : stack[t] = <<>> /\ DOMAIN stack[t] = {}
    BY NoCalls DEF Init
<1>2. Typed
    BY <1>1 DEF Init, Typed, ConstantsAssumption
<1>3. Places /\ Origins
    BY <1>1, NoCalls DEF Places, Origins
<1>4. HeardCached
    BY <1>1 DEF HeardCached, Init, ConstantsAssumption
<1>5. OneInDevice
    BY <1>1 DEF OneInDevice, HoldsDevice
<1>6. QED
    BY <1>2, <1>3, <1>4, <1>5 DEF Structure

\* ... and a thread's own steps keep it, ...
LEMMA StepStructure ==
    ASSUME ConstantsAssumption, Structure, NEW t \in Threads, Step(t)
    PROVE  Structure'
<1>1. PICK c : c = Top(t)
    OBVIOUS
<1>2. Typed /\ \A d \in Heard : cached[d] # None
    BY DEF Structure, HeardCached
<1>3. CASE IsLocked(t)
    <2>1. UNCHANGED <<actual, cached, locked, active>>
        BY <1>3 DEF IsLocked
    <2>2. CASE Throw(t)
        BY <1>2, <2>1, <2>2, ThrowRestarts, RestartedKeeps DEF Typed
    <2>3. CASE \E cs : Stepped(t, cs)
        BY <1>2, <2>1, <2>3, SteppedKeeps DEF Typed
    <2>4. QED
        BY <1>1, <1>3, <2>2, <2>3, IsLockedStep
<1>4. CASE Apply(t) \/ LeaveDevice(t) \/ Snapshot(t) \/ Compare(t) \/ NextEvent(t) \/ EnterEvent(t)
           \/ Trigger(t) \/ StayActive(t) \/ LeaveEvent(t) \/ NextElement(t)
    <2>1. UNCHANGED <<actual, cached, locked, active>>
        BY <1>4 DEF Apply, LeaveDevice, Snapshot, Compare, NextEvent, EnterEvent, Trigger,
                    StayActive, LeaveEvent, NextElement
    <2>2. \E cs : Stepped(t, cs)
        <3>1. CASE Apply(t) \/ LeaveDevice(t)
            BY <1>1, <3>1, ApplyStep, LeaveDeviceStep
        <3>2. CASE Snapshot(t) \/ Compare(t) \/ NextEvent(t)
            BY <1>1, <3>2, SnapshotStep, CompareStep, NextEventStep
        <3>3. CASE EnterEvent(t) \/ Trigger(t) \/ StayActive(t)
            BY <1>1, <3>3, EnterEventStep, TriggerStep, StayActiveStep
        <3>4. CASE LeaveEvent(t) \/ NextElement(t)
            BY <1>1, <3>4, LeaveEventStep, NextElementStep
        <3>5. QED
            BY <1>4, <3>1, <3>2, <3>3, <3>4
    <2>3. QED
        BY <1>2, <2>1, <2>2, SteppedKeeps DEF Typed
<1>5. CASE SetLock(t)
    <2>0. UNCHANGED <<actual, cached, active>>
        BY <1>5 DEF SetLock
    <2>1. Stepped(t, <<>>) /\ locked' \subseteq Devices
        <3>1. /\ Stepped(t, <<>>) /\ c.el.dev \in Devices
              /\ locked' \subseteq locked \/ locked' = locked \cup {c.el.dev}
            BY <1>1, <1>5, SetLockStep
        <3>2. locked \subseteq Devices
            BY <1>2 DEF Typed
        <3>3. QED
            BY <3>1, <3>2
    <2>2. QED
        BY <1>2, <2>0, <2>1, SteppedKeeps DEF Typed
<1>6. CASE Execute(t)
    <2>1. UNCHANGED <<cached, locked, active>> /\ \E cs : Stepped(t, cs)
        BY <1>1, <1>6, ExecuteStep DEF Execute
    <2>2. actual' \in [Devices -> Values]
        <3>1. c \in Executions /\ actual' = [actual EXCEPT ![c.dev] = c.val]
            BY <1>1, <1>6, ExecuteStep
        <3>2. c.dev \in Devices /\ c.val \in Values
            BY <3>1 DEF Executions
        <3>3. QED
            BY <1>2, <3>1, <3>2 DEF Typed
    <2>3. QED
        BY <1>2, <2>1, <2>2, SteppedKeeps DEF Typed
<1>7. CASE Put(t)
    <2>1. UNCHANGED <<actual, locked, active>> /\ \E cs : Stepped(t, cs)
        BY <1>1, <1>7, PutStep DEF Put
    <2>2. c.dev \in Devices /\ c.val \in Values /\ cached' = [cached EXCEPT ![c.dev] = c.val]
        BY <1>1, <1>7, PutStep DEF Updates
    <2>3. /\ cached' \in [Devices -> Values \cup {None}]
          /\ \A d \in Heard : cached[d] # None => cached'[d] # None
        BY <1>2, <2>2 DEF Typed, ConstantsAssumption
    <2>4. QED
        BY <1>2, <2>1, <2>3, SteppedKeeps DEF Typed
<1>8. CASE Activate(t) \/ Deactivate(t)
    <2>1. UNCHANGED <<actual, cached, locked>> /\ \E cs : Stepped(t, cs)
        BY <1>1, <1>8, ActivateStep, DeactivateStep DEF Activate, Deactivate
    <2>2. active' \subseteq Events
        <3>1. c \in Checks /\ (active' = active \cup {c.event} \/ active' = active \ {c.event})
            BY <1>1, <1>8, ActivateStep, DeactivateStep
        <3>2. QED
            BY <1>2, <3>1 DEF Typed, Checks
    <2>3. QED
        BY <1>2, <2>1, <2>2, SteppedKeeps DEF Typed
<1>9. QED
    BY <1>3, <1>4, <1>5, <1>6, <1>7, <1>8 DEF Step

\* ... and so do requests and polls.
LEMMA NextStructure == ConstantsAssumption /\ Structure /\ [Next]_vars => Structure'
<1> SUFFICES ASSUME ConstantsAssumption, Structure, [Next]_vars PROVE Structure'
    OBVIOUS
<1>1. ASSUME NEW t \in Threads, Step(t) PROVE Structure'
    BY <1>1, StepStructure
<1>2. ASSUME NEW u \in Users, ScheduleAction(u) \/ TriggerProfile(u) PROVE Structure'
    <2>1. UNCHANGED <<actual, cached, locked, active>>
        BY <1>2 DEF ScheduleAction, TriggerProfile, Request
    <2>2. \E s : Restarted(u, s)
        BY <1>2, ScheduleActionRestarts, TriggerProfileRestarts DEF ScheduleAction, TriggerProfile
    <2>3. QED
        BY <2>1, <2>2, RestartedKeeps DEF Structure, Typed
<1>3. ASSUME NEW d \in Polled, Poll(d) PROVE Structure'
    <2>1. UNCHANGED <<cached, locked, active>>
        BY <1>3 DEF Poll
    <2>2. QED
        BY <1>3, <2>1, PollRestarts, RestartedKeeps
<1>4. CASE UNCHANGED vars
    <2>1. UNCHANGED <<actual, cached, locked, active, stack>>
        BY <1>4 DEF vars
    <2>2. Typed' /\ Places' /\ Origins' /\ HeardCached'
        BY <2>1 DEF Structure, Typed, Places, Origins, HeardCached, Comes, EventsTriggeredBy
    <2>3. OneInDevice'
        BY <2>1 DEF Structure, OneInDevice, HoldsDevice, InDevice
    <2>4. QED
        BY <2>2, <2>3 DEF Structure
<1>5. QED
    BY <1>1, <1>2, <1>3, <1>4 DEF Next

\* Every behaviour has the structure.
LEMMA StructureAlways == Spec => []Structure
<1>1. QED
    BY ConstantsAssumption, InitStructure, NextStructure, PTL DEF Spec

\* Every variable stays in its domain and every call is well formed, for every number of
\* threads, devices and events.
THEOREM TypeCorrect == Spec => []TypeOK
<1>1. Structure => TypeOK
    BY DEF Structure, Typed, TypeOK
<1>2. QED
    BY <1>1, StructureAlways, PTL

-----------------------------------------------------------------------------
(* The cache.                                                              *)

CacheInv == ReportsHold /\ Fresh

\* A thread whose top call is not an execution stays inside the devices it is inside.
LEMMA StaysInside ==
    ASSUME Structure, NEW t, NEW cs, Stepped(t, cs), NEW d \in Devices,
           HoldsDevice(t, d), ~ InDevice(Top(t), d)
    PROVE  HoldsDevice(t, d)'
<1>1. PICK k \in DOMAIN stack[t] : InDevice(stack[t][k], d)
    BY DEF HoldsDevice
<1>2. /\ Became(t, cs) /\ Typed /\ Len(cs) \in Nat /\ Len(stack[t]) \in Nat \ {0}
      /\ stack[t][1] = Top(t) /\ k \in 1 .. Len(stack[t]) /\ Len(stack'[t]) \in Nat
    BY TopCall, LenProperties DEF Structure, Stepped, Became, Typed
<1>3. k # 1
    BY <1>1, <1>2
<1>4. Len(cs) \in Nat /\ Len(stack[t]) \in Nat /\ k \in 2 .. Len(stack[t]) /\ Became(t, cs)
    BY <1>2, <1>3
<1>5. \E l \in DOMAIN stack'[t] : stack'[t][l] = stack[t][k]
    BY <1>4, BecameAt
<1>6. QED
    BY <1>1, <1>5 DEF HoldsDevice, InDevice

\* A number of calls that is neither zero nor above two.
LEMMA OneOrTwo ==
    ASSUME NEW n \in Nat, n <= 2, n # 0
    PROVE  1 \in 1 .. n /\ n \in 1 .. 2
OBVIOUS

\* The call on top after the step: a new one, or a suspended one.
LEMMA TopAfter ==
    ASSUME Structure, NEW t, NEW cs, Stepped(t, cs), stack'[t] # <<>>
    PROVE  \/ Len(cs) \in 1 .. 2 /\ Top(t)' = cs[1]
           \/ Len(cs) = 0 /\ Top(t)'.at \in Suspended
<1>1. /\ Became(t, cs) /\ Typed /\ Len(cs) \in Nat /\ Len(cs) <= 2 /\ Len(stack[t]) \in Nat \ {0}
      /\ stack'[t] \in Seq(Call)
    BY TopCall, LenProperties DEF Structure, Stepped, Became, Typed
<1>2. Top(t)' = stack'[t][1] /\ Len(stack'[t]) \in Nat \ {0}
    BY <1>1, EmptySeq, LenProperties DEF Top
<1>3. CASE Len(cs) = 0
    <2>1. 1 \in Len(cs) + 1 .. Len(stack'[t])
        BY <1>1, <1>2, <1>3
    <2>2. stack'[t][1] = stack[t][2] /\ 2 \in 2 .. Len(stack[t])
        BY <1>1, <1>2, <1>3, <2>1 DEF Became
    <2>3. QED
        BY <1>1, <1>2, <1>3, <2>2 DEF Structure, Places, Became
<1>4. CASE Len(cs) # 0
    <2>1. 1 \in 1 .. Len(cs) /\ Len(cs) \in 1 .. 2
        BY <1>1, <1>4, OneOrTwo
    <2>2. QED
        BY <1>1, <1>2, <2>1 DEF Became
<1>5. QED
    BY <1>3, <1>4

\* A step keeps the cache right if what it reports is what the device does, if nobody else
\* is inside a device it changes, and if it leaves no device behind that is not fresh.
LEMMA CacheKept ==
    ASSUME Structure, CacheInv, NEW t, NEW cs, Stepped(t, cs),
           \A d \in Devices \ Polled : Len(cs) > 0 /\ Reporting(cs[1], d) =>
               cs[1].val = actual'[d] /\ HoldsDevice(t, d)',
           \A d \in Devices \ Polled : actual'[d] # actual[d] => DeviceFree(t, d),
           \A d \in Devices \ Polled :
               \/ cached'[d] \in {None, actual'[d]}
               \/ Len(cs) > 0 /\ Reporting(cs[1], d)
               \/ cached'[d] = cached[d] /\ actual'[d] = actual[d] /\ ~ Reporting(Top(t), d)
    PROVE  CacheInv'
<1>1. t \in Threads /\ \A u \in Threads \ {t} : stack'[u] = stack[u]
    BY DEF Stepped, Became
<1>2. ReportsHold'
    <2> SUFFICES ASSUME NEW u \in Threads, NEW d \in Devices \ Polled,
                        stack'[u] # <<>>, Reporting(Top(u)', d)
                 PROVE  Top(u)'.val = actual'[d] /\ HoldsDevice(u, d)'
        BY DEF ReportsHold, Reporting
    <2>1. CASE u = t
        <3>1. Top(t)'.at \notin Suspended
            BY <2>1 DEF Reporting, Suspended
        <3>2. Len(cs) \in 1 .. 2 /\ Top(t)' = cs[1]
            BY <2>1, <3>1, TopAfter
        <3>3. QED
            BY <2>1, <3>2
    <2>2. CASE u # t
        <3>1. stack'[u] = stack[u] /\ Top(u)' = Top(u)
            BY <1>1, <2>2 DEF Top
        <3>2. Top(u).val = actual[d] /\ HoldsDevice(u, d)
            BY <3>1 DEF CacheInv, ReportsHold
        <3>3. HoldsDevice(u, d)'
            BY <3>1, <3>2 DEF HoldsDevice, InDevice
        <3>4. actual'[d] = actual[d]
            BY <2>2, <3>2 DEF DeviceFree
        <3>5. QED
            BY <3>1, <3>2, <3>3, <3>4
    <2>3. QED
        BY <2>1, <2>2
<1>3. Fresh'
    <2> SUFFICES ASSUME NEW d \in Devices \ Polled, cached'[d] \notin {None, actual'[d]}
                 PROVE  \E u \in Threads : stack'[u] # <<>> /\ Reporting(Top(u)', d)
        BY DEF Fresh, Reporting
    <2>1. CASE Len(cs) > 0 /\ Reporting(cs[1], d)
        <3>1. Len(stack[t]) \in Nat \ {0} /\ Len(cs) \in Nat /\ stack'[t] \in Seq(Call)
            BY TopCall, LenProperties DEF Structure, Stepped, Became
        <3>2. Len(stack'[t]) > 0
            BY <2>1, <3>1 DEF Stepped, Became
        <3>3. stack'[t] # <<>>
            BY <3>2, NoCalls
        <3>4. Top(t)' = cs[1]
            BY <2>1, <3>1, <3>3, TopAfter
        <3>5. QED
            BY <1>1, <2>1, <3>3, <3>4
    <2>2. CASE cached'[d] = cached[d] /\ actual'[d] = actual[d] /\ ~ Reporting(Top(t), d)
        <3>1. PICK u \in Threads : stack[u] # <<>> /\ Reporting(Top(u), d)
            BY <2>2 DEF CacheInv, Fresh
        <3>2. u # t
            BY <2>2, <3>1
        <3>3. stack'[u] = stack[u] /\ Top(u)' = Top(u)
            BY <1>1, <3>2 DEF Top
        <3>4. QED
            BY <3>1, <3>3
    <2>3. QED
        BY <2>1, <2>2
<1>4. QED
    BY <1>2, <1>3 DEF CacheInv

\* Neither before nor after the step does the thread report, and nothing changes.
LEMMA CacheUntouched ==
    ASSUME Structure, CacheInv, NEW t, NEW cs, Stepped(t, cs), UNCHANGED <<actual, cached>>,
           \A d \in Devices \ Polled : ~ Reporting(Top(t), d),
           Len(cs) > 0 => \A d \in Devices \ Polled : ~ Reporting(cs[1], d)
    PROVE  CacheInv'
BY CacheKept

\* A thread that begins a call, or is cut short, reports neither before nor after.
LEMMA CacheRestarted ==
    ASSUME Structure, CacheInv, NEW t, NEW s, Restarted(t, s), UNCHANGED cached,
           \A d \in Devices \ Polled : actual'[d] = actual[d],
           stack[t] = <<>> \/ Top(t).op # "update",
           s = <<>> \/ s[1].op # "update"
    PROVE  CacheInv'
<1>1. t \in Threads /\ stack'[t] = s /\ \A u \in Threads \ {t} : stack'[u] = stack[u]
    BY DEF Restarted, Structure, Typed
<1>2. stack'[t] # <<>> => Top(t)'.op # "update"
    <2>1. s # <<>> => Head(s) = s[1]
        BY EmptySeq DEF Restarted
    <2>2. QED
        BY <1>1, <2>1 DEF Top
<1>3. ASSUME NEW u \in Threads \ {t}, NEW d
      PROVE  Top(u)' = Top(u) /\ (HoldsDevice(u, d)' <=> HoldsDevice(u, d))
    BY <1>1 DEF Top, HoldsDevice, InDevice
<1>4. ReportsHold'
    <2> SUFFICES ASSUME NEW u \in Threads, NEW d \in Devices \ Polled,
                        stack'[u] # <<>>, Reporting(Top(u)', d)
                 PROVE  Top(u)'.val = actual'[d] /\ HoldsDevice(u, d)'
        BY DEF ReportsHold, Reporting
    <2>1. u # t
        BY <1>2 DEF Reporting
    <2>2. QED
        BY <1>1, <1>3, <2>1 DEF CacheInv, ReportsHold
<1>5. Fresh'
    <2> SUFFICES ASSUME NEW d \in Devices \ Polled, cached'[d] \notin {None, actual'[d]}
                 PROVE  \E u \in Threads : stack'[u] # <<>> /\ Reporting(Top(u)', d)
        BY DEF Fresh, Reporting
    <2>1. PICK u \in Threads : stack[u] # <<>> /\ Reporting(Top(u), d)
        BY DEF CacheInv, Fresh
    <2>2. u # t
        BY <2>1 DEF Reporting
    <2>3. QED
        BY <1>1, <1>3, <2>1, <2>2
<1>6. QED
    BY <1>4, <1>5 DEF CacheInv

\* A device's execute: what is reported is what was done.
LEMMA ExecuteCaches ==
    ASSUME ConstantsAssumption, Structure, CacheInv, NEW t \in Threads, Execute(t)
    PROVE  CacheInv'
<1>1. PICK c : c = Top(t)
    OBVIOUS
<1>2. PICK n : n = [c EXCEPT !.at = "leave"]
    OBVIOUS
<1>3. /\ c.op = "execute" /\ c \in Executions /\ DeviceFree(t, c.dev)
      /\ actual' = [actual EXCEPT ![c.dev] = c.val] /\ n \in Executions /\ InDevice(n, c.dev)
      /\ \/ c.dev \in Async /\ Stepped(t, <<n>>)
         \/ c.dev \notin Async /\ Stepped(t, <<update(c.dev, c.val), n>>)
    BY <1>1, <1>2, ExecuteStep
<1>4. UNCHANGED cached
    BY DEF Execute
<1>5. /\ c.dev \in Devices /\ c.val \in Values /\ n \in Call /\ n.op = "execute"
      /\ actual'[c.dev] = c.val /\ \A d \in Devices \ {c.dev} : actual'[d] = actual[d]
    BY <1>3, KindsAreCalls DEF Executions, Structure, Typed
<1>6. \A d : ~ Reporting(Top(t), d) /\ ~ Reporting(n, d)
    BY <1>1, <1>3, <1>5 DEF Reporting
<1>7. CASE c.dev \in Async /\ Stepped(t, <<n>>)
    <2>1. c.dev \in Polled
        BY <1>7 DEF ConstantsAssumption
    <2>2. \A d \in Devices \ Polled : actual'[d] = actual[d]
        BY <1>5, <2>1
    <2>3. PICK cs : cs = <<n>>
        OBVIOUS
    <2>4. cs[1] = n /\ Stepped(t, cs)
        BY <1>5, <1>7, <2>3, OneCall
    <2>5. \A d \in Devices \ Polled :
              cached'[d] = cached[d] /\ actual'[d] = actual[d] /\ ~ Reporting(Top(t), d)
        BY <1>4, <1>6, <2>2
    <2>6. QED
        BY <1>6, <2>2, <2>4, <2>5, CacheKept
<1>8. CASE Stepped(t, <<update(c.dev, c.val), n>>)
    <2>1. PICK x : x = update(c.dev, c.val)
        OBVIOUS
    <2>2. /\ x \in Call /\ x.op = "update" /\ x.dev = c.dev /\ x.at = "compare"
          /\ x.val = c.val
        BY <1>5, <2>1, KindsAreCalls DEF update, Updates
    <2>3. PICK cs : cs = <<x, n>>
        OBVIOUS
    <2>4. cs[1] = x /\ cs[2] = n /\ Len(cs) = 2 /\ Stepped(t, cs)
        BY <1>5, <1>8, <2>1, <2>2, <2>3, TwoCalls
    <2>5. HoldsDevice(t, c.dev)'
        <3>1. stack'[t][2] = n /\ 2 \in DOMAIN stack'[t]
            <4>1. Len(stack[t]) \in Nat \ {0} /\ stack'[t] \in Seq(Call) /\ Len(stack'[t]) \in Nat
                BY <2>4, TopCall, LenProperties DEF Structure, Stepped, Became
            <4>2. QED
                BY <2>4, <4>1 DEF Stepped, Became
        <3>2. QED
            BY <1>3, <3>1 DEF HoldsDevice, InDevice
    <2>6. \A d \in Devices \ Polled : Len(cs) > 0 /\ Reporting(cs[1], d) =>
               cs[1].val = actual'[d] /\ HoldsDevice(t, d)'
        BY <1>5, <2>2, <2>4, <2>5 DEF Reporting
    <2>7. \A d \in Devices \ Polled : actual'[d] # actual[d] => DeviceFree(t, d)
        BY <1>3, <1>5
    <2>8. \A d \in Devices \ Polled :
               \/ Len(cs) > 0 /\ Reporting(cs[1], d)
               \/ cached'[d] = cached[d] /\ actual'[d] = actual[d] /\ ~ Reporting(Top(t), d)
        BY <1>4, <1>5, <1>6, <2>2, <2>4 DEF Reporting
    <2>9. QED
        BY <2>4, <2>6, <2>7, <2>8, CacheKept
<1>9. QED
    BY <1>3, <1>7, <1>8

\* The update: the cache agrees with the report, or is about to.
LEMMA UpdateCaches ==
    ASSUME ConstantsAssumption, Structure, CacheInv, NEW t \in Threads, Compare(t) \/ Put(t)
    PROVE  CacheInv'
<1>1. PICK c : c = Top(t)
    OBVIOUS
<1>2. UNCHANGED actual
    BY DEF Compare, Put
<1>3. c.op = "update" /\ c.at \in {"compare", "put"} /\ c \in Updates /\ stack[t] # <<>>
    BY <1>1, CompareStep, PutStep DEF Compare, Put, At
<1>4. \A d \in Devices \ Polled : Reporting(c, d) => c.val = actual[d] /\ HoldsDevice(t, d)
    BY <1>1, <1>3 DEF CacheInv, ReportsHold
<1>5. \A d \in Devices : Reporting(c, d) <=> d = c.dev
    BY <1>3 DEF Reporting
<1>6. CASE Compare(t)
    <2>1. UNCHANGED cached
        BY <1>6 DEF Compare
    <2>2. CASE cached[c.dev] = c.val /\ Stepped(t, <<>>)
        <3>1. PICK cs : cs = <<>>
            OBVIOUS
        <3>2. ~ (Len(cs) > 0) /\ Stepped(t, cs)
            BY <2>2, <3>1, NoCalls
        <3>3. \A d \in Devices \ Polled :
                 \/ cached'[d] \in {None, actual'[d]}
                 \/ cached'[d] = cached[d] /\ actual'[d] = actual[d] /\ ~ Reporting(Top(t), d)
            BY <1>1, <1>2, <1>4, <1>5, <2>1, <2>2
        <3>4. QED
            BY <1>2, <3>2, <3>3, CacheKept
    <2>3. CASE Stepped(t, <<[c EXCEPT !.at = "put"]>>)
        <3>1. PICK n : n = [c EXCEPT !.at = "put"]
            OBVIOUS
        <3>2. n.op = "update" /\ n.at = "put" /\ n.dev = c.dev /\ n.val = c.val /\ n \in Call
            BY <1>3, <3>1, KindsAreCalls DEF Updates
        <3>3. PICK cs : cs = <<n>>
            OBVIOUS
        <3>4. cs[1] = n /\ Len(cs) = 1 /\ Stepped(t, cs)
            BY <2>3, <3>1, <3>2, <3>3, OneCall
        <3>5. \A d : Reporting(n, d) <=> Reporting(c, d)
            BY <1>3, <3>2 DEF Reporting
        <3>6. \A d \in Devices \ Polled : Len(cs) > 0 /\ Reporting(cs[1], d) =>
                  cs[1].val = actual'[d] /\ HoldsDevice(t, d)'
            <4> SUFFICES ASSUME NEW d \in Devices \ Polled, Reporting(n, d)
                         PROVE  n.val = actual'[d] /\ HoldsDevice(t, d)'
                BY <3>4
            <4>1. c.val = actual[d] /\ HoldsDevice(t, d)
                BY <1>4, <3>5
            <4>2. ~ InDevice(Top(t), d)
                BY <1>1, <1>3 DEF InDevice
            <4>3. QED
                BY <1>2, <3>2, <3>4, <4>1, <4>2, StaysInside
        <3>7. \A d \in Devices \ Polled :
                 \/ Len(cs) > 0 /\ Reporting(cs[1], d)
                 \/ cached'[d] = cached[d] /\ actual'[d] = actual[d] /\ ~ Reporting(Top(t), d)
            BY <1>1, <1>2, <2>1, <3>4, <3>5
        <3>8. QED
            BY <1>2, <3>4, <3>6, <3>7, CacheKept
    <2>4. QED
        BY <1>1, <1>6, <2>2, <2>3, CompareStep
<1>7. CASE Put(t)
    <2>1. PICK n : n = [c EXCEPT !.at = "events", !.todo = EventsTriggeredBy(c.dev)]
        OBVIOUS
    <2>2. /\ n \in Updates /\ n.at = "events" /\ Stepped(t, <<n>>)
          /\ cached' = [cached EXCEPT ![c.dev] = c.val]
        BY <1>1, <1>3, <1>7, <2>1, PutStep DEF Updates
    <2>3. PICK cs : cs = <<n>>
        OBVIOUS
    <2>4. cs[1] = n /\ Stepped(t, cs) /\ \A d : ~ Reporting(n, d)
        BY <2>2, <2>3, OneCall, KindsAreCalls DEF Reporting
    <2>5. c.dev \in Devices /\ cached'[c.dev] = c.val /\ \A d \in Devices \ {c.dev} : cached'[d] = cached[d]
        BY <1>3, <2>2 DEF Structure, Typed, Updates
    <2>6. \A d \in Devices \ Polled :
             \/ cached'[d] \in {None, actual'[d]}
             \/ cached'[d] = cached[d] /\ actual'[d] = actual[d] /\ ~ Reporting(Top(t), d)
        BY <1>1, <1>2, <1>4, <1>5, <2>5
    <2>7. QED
        BY <1>2, <2>4, <2>6, CacheKept
<1>8. QED
    BY <1>6, <1>7

\* The steps that report nothing.
LEMMA OthersCache ==
    ASSUME ConstantsAssumption, Structure, CacheInv, NEW t \in Threads,
           \/ Apply(t) \/ SetLock(t) \/ LeaveDevice(t) \/ NextEvent(t)
           \/ EnterEvent(t) \/ Trigger(t) \/ Activate(t) \/ StayActive(t) \/ Deactivate(t)
           \/ LeaveEvent(t) \/ NextElement(t)
    PROVE  CacheInv'
<1>1. PICK c : c = Top(t)
    OBVIOUS
<1>2. UNCHANGED <<actual, cached>>
    BY DEF Apply, SetLock, LeaveDevice, NextEvent, EnterEvent, Trigger, Activate, StayActive,
           Deactivate, LeaveEvent, NextElement
<1>3. \A d : ~ Reporting(c, d)
    <2>1. stack[t] # <<>> /\ (c.op # "update" \/ c.at = "events")
        BY <1>1 DEF Apply, SetLock, LeaveDevice, NextEvent, EnterEvent, Trigger, Activate,
                    StayActive, Deactivate, LeaveEvent, NextElement, At, Top
    <2>2. QED
        BY <2>1 DEF Reporting
<1>4. ASSUME NEW n \in Call, Stepped(t, <<n>>), n.op # "update" PROVE CacheInv'
    <2>1. PICK cs : cs = <<n>>
        OBVIOUS
    <2>2. cs[1] = n /\ Stepped(t, cs) /\ \A d : ~ Reporting(n, d)
        BY <1>4, <2>1, OneCall DEF Reporting
    <2>3. QED
        BY <1>1, <1>2, <1>3, <2>2, CacheUntouched
<1>5. ASSUME NEW x \in Call, NEW n \in Call, Stepped(t, <<x, n>>), x.op # "update" PROVE CacheInv'
    <2>1. PICK cs : cs = <<x, n>>
        OBVIOUS
    <2>2. cs[1] = x /\ Stepped(t, cs) /\ \A d : ~ Reporting(x, d)
        BY <1>5, <2>1, TwoCalls DEF Reporting
    <2>3. QED
        BY <1>1, <1>2, <1>3, <2>2, CacheUntouched
<1>6. ASSUME Stepped(t, <<>>) PROVE CacheInv'
    <2>1. PICK cs : cs = <<>>
        OBVIOUS
    <2>2. ~ (Len(cs) > 0) /\ Stepped(t, cs)
        BY <1>6, <2>1, NoCalls
    <2>3. QED
        BY <1>1, <1>2, <1>3, <2>2, CacheUntouched
<1>7. CASE Apply(t)
    <2>1. PICK n : n = [c EXCEPT !.at = "lock"]
        OBVIOUS
    <2>2. PICK x : x = execute(c.el.dev, c.el.val)
        OBVIOUS
    <2>3. /\ c \in Schedulings /\ c.el.val \in Values
          /\ Stepped(t, <<x, n>>) \/ Stepped(t, <<n>>)
        BY <1>1, <1>7, <2>1, <2>2, ApplyStep
    <2>4. n \in Call /\ n.op # "update" /\ x \in Call /\ x.op # "update"
        BY <2>1, <2>2, <2>3, KindsAreCalls DEF Schedulings, Element, execute, Executions
    <2>5. QED
        BY <1>4, <1>5, <2>3, <2>4
<1>8. CASE NextEvent(t)
    <2>1. CASE Stepped(t, <<>>)
        BY <1>6, <2>1
    <2>2. ASSUME NEW e \in c.todo, check(e, c.dev) \in Checks, [c EXCEPT !.todo = @ \ {e}] \in Updates,
                 Stepped(t, <<check(e, c.dev), [c EXCEPT !.todo = @ \ {e}]>>)
          PROVE  CacheInv'
        <3>1. PICK x : x = check(e, c.dev)
            OBVIOUS
        <3>2. PICK n : n = [c EXCEPT !.todo = @ \ {e}]
            OBVIOUS
        <3>3. x \in Call /\ n \in Call /\ x.op # "update" /\ Stepped(t, <<x, n>>)
            BY <2>2, <3>1, <3>2, KindsAreCalls DEF Checks
        <3>4. QED
            BY <1>5, <3>3
    <2>3. QED
        BY <1>1, <1>8, <2>1, <2>2, NextEventStep
<1>9. CASE EnterEvent(t)
    <2>1. PICK n : n = [c EXCEPT !.at = "test", !.asked = MustAsk(c.event)]
        OBVIOUS
    <2>2. n \in Checks /\ Stepped(t, <<n>>)
        BY <1>1, <1>9, <2>1, EnterEventStep
    <2>3. QED
        BY <1>4, <2>2, KindsAreCalls DEF Checks
<1>10. ASSUME NEW els, NEW n \in Checks, Stepped(t, <<scheduleAll(els), n>>), c.event \in Events,
              els = profile[c.event] \/ els = inverted[c.event]
       PROVE  CacheInv'
    <2>1. PICK x : x = scheduleAll(els)
        OBVIOUS
    <2>2. x \in Profiles
        BY <1>10, <2>1 DEF scheduleAll, Profiles, ConstantsAssumption
    <2>3. x \in Call /\ x.op # "update" /\ n \in Call
        BY <1>10, <2>2, KindsAreCalls DEF Profiles
    <2>4. QED
        BY <1>5, <1>10, <2>1, <2>3
<1>11. CASE Trigger(t)
    <2>1. c \in Checks /\ c.event \in Events
        BY <1>1, <1>11, TriggerStep DEF Checks
    <2>2. QED
        BY <1>1, <1>10, <1>11, <2>1, TriggerStep
<1>12. CASE Deactivate(t)
    <2>1. c \in Checks /\ c.event \in Events
        BY <1>1, <1>12, DeactivateStep DEF Checks
    <2>2. QED
        BY <1>1, <1>6, <1>10, <1>12, <2>1, DeactivateStep
<1>13. CASE SetLock(t) \/ LeaveDevice(t) \/ Activate(t) \/ StayActive(t) \/ LeaveEvent(t)
    BY <1>1, <1>6, <1>13, SetLockStep, LeaveDeviceStep, ActivateStep, StayActiveStep, LeaveEventStep
<1>14. CASE NextElement(t)
    <2>1. CASE Stepped(t, <<>>)
        BY <1>6, <2>1
    <2>2. ASSUME NEW el \in ProfileElements, NEW n \in Profiles,
                 Stepped(t, <<schedule(el), n>>) \/ Stepped(t, <<n>>)
          PROVE  CacheInv'
        <3>1. PICK x : x = schedule(el)
            OBVIOUS
        <3>2. x \in Schedulings
            BY <3>1, ElementsTyped DEF schedule, Schedulings
        <3>3. x \in Call /\ n \in Call /\ x.op # "update" /\ n.op # "update"
            BY <2>2, <3>2, KindsAreCalls DEF Schedulings, Profiles
        <3>4. QED
            BY <1>4, <1>5, <2>2, <3>1, <3>3
    <2>3. QED
        BY <1>1, <1>14, <2>1, <2>2, NextElementStep
<1>15. QED
    BY <1>7, <1>8, <1>9, <1>11, <1>12, <1>13, <1>14

\* The report of a poll is about a polled device.
LEMMA SnapshotCaches ==
    ASSUME ConstantsAssumption, Structure, CacheInv, NEW t \in Threads, Snapshot(t)
    PROVE  CacheInv'
<1>1. PICK c : c = Top(t)
    OBVIOUS
<1>2. PICK n : n = update(c.dev, actual[c.dev])
    OBVIOUS
<1>3. c.op = "run" /\ c.dev \in Polled /\ n \in Updates /\ Stepped(t, <<n>>)
    BY <1>1, <1>2, SnapshotStep
<1>4. \A d \in Devices \ Polled : ~ Reporting(c, d) /\ ~ Reporting(n, d)
    BY <1>2, <1>3 DEF Reporting, update
<1>5. PICK cs : cs = <<n>>
    OBVIOUS
<1>6. cs[1] = n /\ Stepped(t, cs)
    BY <1>3, <1>5, OneCall, KindsAreCalls
<1>7. UNCHANGED <<actual, cached>>
    BY DEF Snapshot
<1>8. QED
    BY <1>1, <1>4, <1>6, <1>7, CacheUntouched

\* isLocked reports nothing, also when it throws.
LEMMA IsLockedCaches ==
    ASSUME ConstantsAssumption, Structure, CacheInv, NEW t \in Threads, IsLocked(t)
    PROVE  CacheInv'
<1>1. PICK c : c = Top(t)
    OBVIOUS
<1>2. PICK n : n = [c EXCEPT !.at = IF c.el.val = None THEN "lock" ELSE "apply"]
    OBVIOUS
<1>3. c.op = "scheduleAction" /\ c \in Schedulings /\ stack[t] # <<>>
    BY <1>1, TopFacts, CallIs DEF IsLocked, At, Top
<1>4. n \in Call /\ n.op = "scheduleAction"
    BY <1>2, <1>3, KindsAreCalls DEF Schedulings
<1>5. UNCHANGED <<actual, cached>>
    BY DEF IsLocked
<1>6. CASE Throw(t)
    <2>1. Restarted(t, <<>>)
        BY <1>6, ThrowRestarts
    <2>2. QED
        BY <1>1, <1>3, <1>5, <2>1, CacheRestarted
<1>7. CASE Stepped(t, <<n>>)
    <2>1. PICK cs : cs = <<n>>
        OBVIOUS
    <2>2. cs[1] = n /\ Stepped(t, cs) /\ \A d : ~ Reporting(n, d) /\ ~ Reporting(c, d)
        BY <1>3, <1>4, <1>7, <2>1, OneCall DEF Reporting
    <2>3. QED
        BY <1>1, <1>5, <2>2, CacheUntouched
<1>8. QED
    BY <1>1, <1>2, <1>6, <1>7, IsLockedStep

\* Every step keeps the cache right.
LEMMA NextCache == ConstantsAssumption /\ Structure /\ CacheInv /\ [Next]_vars => CacheInv'
<1> SUFFICES ASSUME ConstantsAssumption, Structure, CacheInv, [Next]_vars PROVE CacheInv'
    OBVIOUS
<1>1. ASSUME NEW t \in Threads, Step(t) PROVE CacheInv'
    BY <1>1, ExecuteCaches, UpdateCaches, OthersCache, SnapshotCaches, IsLockedCaches DEF Step
<1>2. ASSUME NEW u \in Users, ScheduleAction(u) \/ TriggerProfile(u) PROVE CacheInv'
    <2>1. UNCHANGED <<actual, cached>> /\ stack[u] = <<>>
        BY <1>2 DEF ScheduleAction, TriggerProfile, Request
    <2>2. CASE ScheduleAction(u)
        <3>1. PICK el \in Commands : Request(u, schedule(el))
            BY <2>2 DEF ScheduleAction
        <3>2. PICK c : c = schedule(el)
            OBVIOUS
        <3>3. Restarted(u, <<c>>) /\ c \in Schedulings
            BY <3>1, <3>2, ScheduleActionRestarts
        <3>4. <<c>>[1].op # "update"
            BY <3>3, OneCall, KindsAreCalls DEF Schedulings
        <3>5. QED
            BY <2>1, <3>3, <3>4, CacheRestarted
    <2>3. CASE TriggerProfile(u)
        <3>1. PICK e \in Triggered : Request(u, scheduleAll(profile[e]))
            BY <2>3 DEF TriggerProfile
        <3>2. PICK c : c = scheduleAll(profile[e])
            OBVIOUS
        <3>3. Restarted(u, <<c>>) /\ c \in Profiles
            BY <3>1, <3>2, TriggerProfileRestarts
        <3>4. <<c>>[1].op # "update"
            BY <3>3, OneCall, KindsAreCalls DEF Profiles
        <3>5. QED
            BY <2>1, <3>3, <3>4, CacheRestarted
    <2>4. QED
        BY <1>2, <2>2, <2>3
<1>3. ASSUME NEW d \in Polled, Poll(d) PROVE CacheInv'
    <2>1. PICK c : c = [op |-> "run", at |-> "snapshot", dev |-> d]
        OBVIOUS
    <2>2. Restarted(d, <<c>>) /\ c \in Runs /\ \E v \in Values : actual' = [actual EXCEPT ![d] = v]
        BY <1>3, <2>1, PollRestarts
    <2>3. <<c>>[1].op # "update"
        BY <2>2, OneCall, KindsAreCalls DEF Runs
    <2>4. \A x \in Devices \ Polled : actual'[x] = actual[x]
        BY <2>2 DEF Structure, Typed
    <2>5. UNCHANGED cached /\ stack[d] = <<>>
        BY <1>3 DEF Poll
    <2>6. QED
        BY <2>2, <2>3, <2>4, <2>5, CacheRestarted
<1>4. CASE UNCHANGED vars
    BY <1>4 DEF vars, CacheInv, ReportsHold, Fresh, Reporting, Top, HoldsDevice, InDevice
<1>5. QED
    BY <1>1, <1>2, <1>3, <1>4 DEF Next

\* At the beginning nobody reports, and what is cached is so.
LEMMA InitCache == ConstantsAssumption /\ Init => CacheInv
<1> SUFFICES ASSUME ConstantsAssumption, Init PROVE CacheInv
    OBVIOUS
<1>1. \A d \in Devices : cached[d] \in {None, actual[d]}
    BY DEF Init
<1>2. \A t \in Threads : stack[t] = <<>>
    BY DEF Init
<1>3. QED
    BY <1>1, <1>2 DEF CacheInv, ReportsHold, Fresh

\* What the node has cached of a device that only execute changes is what the device does,
\* whenever nobody is inside the device: for every number of threads, devices and events,
\* for rules of any shape, and also after calls that an exception cut short
\* (Device.java:158-170, PrimaryNodeControllerImpl.java:170-185).
THEOREM CacheIsFresh == Spec => []CacheFresh
<1>1. CacheInv => CacheFresh
    BY DEF CacheInv, ReportsHold, Fresh, CacheFresh
<1>2. QED
    BY <1>1, ConstantsAssumption, InitStructure, InitCache, NextStructure, NextCache, PTL DEF Spec

-----------------------------------------------------------------------------
(* The order of the monitors.                                              *)

\* Whatever happens, a thread's top call is replaced, or a thread begins or is cut short.
LEMMA Moves ==
    ASSUME ConstantsAssumption, Structure, [Next]_vars
    PROVE  \/ \E t, cs : Stepped(t, cs)
           \/ \E t, s : Restarted(t, s)
           \/ UNCHANGED stack
<1>1. ASSUME NEW t \in Threads, Step(t)
      PROVE  (\E cs : Stepped(t, cs)) \/ \E s : Restarted(t, s)
    <2>1. PICK c : c = Top(t)
        OBVIOUS
    <2>2. CASE IsLocked(t)
        <3>1. Throw(t) \/ \E cs : Stepped(t, cs)
            BY <2>1, <2>2, IsLockedStep
        <3>2. QED
            BY <3>1, ThrowRestarts
    <2>3. CASE Apply(t) \/ SetLock(t) \/ Execute(t) \/ LeaveDevice(t) \/ Snapshot(t)
        BY <2>1, <2>3, ApplyStep, SetLockStep, ExecuteStep, LeaveDeviceStep, SnapshotStep
    <2>4. CASE Compare(t) \/ Put(t) \/ NextEvent(t) \/ EnterEvent(t) \/ NextElement(t)
        BY <2>1, <2>4, CompareStep, PutStep, NextEventStep, EnterEventStep, NextElementStep
    <2>5. CASE Trigger(t) \/ Activate(t) \/ StayActive(t) \/ Deactivate(t) \/ LeaveEvent(t)
        BY <2>1, <2>5, TriggerStep, ActivateStep, StayActiveStep, DeactivateStep, LeaveEventStep
    <2>6. QED
        BY <1>1, <2>2, <2>3, <2>4, <2>5 DEF Step
<1>2. ASSUME NEW u \in Users, ScheduleAction(u) \/ TriggerProfile(u)
      PROVE  \E s : Restarted(u, s)
    BY <1>2, ScheduleActionRestarts, TriggerProfileRestarts DEF ScheduleAction, TriggerProfile
<1>3. ASSUME NEW d \in Polled, Poll(d) PROVE \E s : Restarted(d, s)
    BY <1>3, PollRestarts
<1>4. CASE UNCHANGED vars
    BY <1>4 DEF vars
<1>5. QED
    BY <1>1, <1>2, <1>3, <1>4 DEF Next

\* The calls of every thread descend, whatever happens.
LEMMA NextDescending ==
    ASSUME ConstantsAssumption, Structure, [Next]_vars,
           NEW D, NEW E, Descends(D, E), Descending(D, E)
    PROVE  Descending(D, E)'
<1>1. ASSUME NEW t, NEW cs, Stepped(t, cs) PROVE Descending(D, E)'
    BY <1>1, DescendingKept DEF Structure, Stepped
<1>2. ASSUME NEW t, NEW s, Restarted(t, s) PROVE Descending(D, E)'
    <2> SUFFICES ASSUME NEW u \in Threads, NEW k \in DOMAIN stack'[u], NEW l \in DOMAIN stack'[u], k < l
                 PROVE  Nested(stack'[u][k], stack'[u][l], D, E)
        BY DEF Descending, Nested, Reach
    <2>1. stack'[t] = s /\ \A w \in Threads \ {t} : stack'[w] = stack[w]
        BY <1>2 DEF Restarted, Structure, Typed
    <2>2. CASE u = t
        <3>1. s = <<>> \/ Len(s) = 1
            BY <1>2 DEF Restarted
        <3>2. s \in Seq(Call)
            BY <1>2 DEF Restarted
        <3>3. DOMAIN s \subseteq {1}
            BY <3>1, <3>2
        <3>4. QED
            BY <2>1, <2>2, <3>3
    <2>3. CASE u # t
        BY <2>1, <2>3 DEF Descending
    <2>4. QED
        BY <2>2, <2>3
<1>3. CASE UNCHANGED stack
    <2> SUFFICES ASSUME NEW u \in Threads, NEW k \in DOMAIN stack'[u], NEW l \in DOMAIN stack'[u], k < l
                 PROVE  Nested(stack'[u][k], stack'[u][l], D, E)
        BY DEF Descending, Nested, Reach
    <2>1. QED
        BY <1>3 DEF Descending
<1>4. QED
    BY <1>1, <1>2, <1>3, Moves

\* Nothing is under way at first: every chain descends.
LEMMA InitDescending == Init => \A D, E : Descending(D, E)
BY NoCalls DEF Init, Descending

\* The monitors, if no chain of rules goes on for ever.
Ordered == \A D, E : Descends(D, E) => Descending(D, E)

\* Every step keeps the monitors of such chains in order.
LEMMA NextOrdered == ConstantsAssumption /\ Structure /\ Ordered /\ [Next]_vars => Ordered'
<1> SUFFICES ASSUME ConstantsAssumption, Structure, Ordered, [Next]_vars,
                    NEW D, NEW E, Descends(D, E)
             PROVE  Descending(D, E)'
    BY DEF Ordered, Descends
<1>1. Descending(D, E)
    BY DEF Ordered
<1>2. QED
    BY <1>1, NextDescending
-----------------------------------------------------------------------------
(* Threads that wait for each other.                                       *)

\* The height of the device or the event that the call c is about.
Height(c, D, E) ==
    IF c.op = "checkIfTriggered" THEN 2 * E[c.event] ELSE 2 * D[c.dev] + 1

\* Nobody waits for a device that is asked: what is executed has reported, and what has
\* reported is not asked.
LEMMA NobodyIsAsked ==
    ASSUME ConstantsAssumption, Structure, CommandedHeard, NEW t \in Threads,
           At(t, "checkIfTriggered", "test"), NEW u \in Threads, NEW d \in Top(t).asked
    PROVE  ~ HoldsDevice(u, d)
<1>1. Top(t).op = "checkIfTriggered" /\ stack[t] # <<>>
    BY DEF At, Top
<1>2. Top(t).asked \cap Heard = {}
    BY <1>1, TopFacts
<1>3. ASSUME NEW i \in DOMAIN stack[u], InDevice(stack[u][i], d) PROVE FALSE
    <2>1. \E el \in Elements : el.dev = d
        BY <1>3 DEF Structure, Origins, Comes, InDevice
    <2>2. d \in Heard
        BY <2>1 DEF CommandedHeard
    <2>3. QED
        BY <1>2, <2>2
<1>4. QED
    BY <1>3 DEF HoldsDevice

\* A thread that waits is about to enter a device or an event, and the thread that it
\* waits for is inside.
LEMMA Waiting ==
    ASSUME ConstantsAssumption, Structure, CommandedHeard, NEW t \in Threads, NEW u \in WaitsFor(t)
    PROVE  /\ u \in Threads /\ stack[t] # <<>>
           /\ \/ /\ Top(t).op \in {"execute", "run"} /\ Top(t).at \in {"enter", "snapshot"}
                 /\ HoldsDevice(u, Top(t).dev)
              \/ /\ Top(t).op = "checkIfTriggered" /\ Top(t).at = "enter"
                 /\ HoldsEvent(u, Top(t).event)
<1>1. CASE At(t, "execute", "enter") \/ At(t, "run", "snapshot")
    <2>0. ~ (At(t, "checkIfTriggered", "enter") \/ At(t, "checkIfTriggered", "test"))
        BY <1>1 DEF At
    <2>1. u \in {w \in Threads \ {t} : HoldsDevice(w, Top(t).dev)}
        BY <1>1, <2>0 DEF WaitsFor
    <2>2. QED
        BY <1>1, <2>1 DEF At, Top
<1>2. CASE At(t, "checkIfTriggered", "enter")
    <2>1. ~ (At(t, "execute", "enter") \/ At(t, "run", "snapshot"))
        BY <1>2 DEF At
    <2>2. u \in {w \in Threads \ {t} : HoldsEvent(w, Top(t).event)}
        BY <1>2, <2>1 DEF WaitsFor, At
    <2>3. QED
        BY <1>2, <2>2 DEF At, Top
<1>3. CASE At(t, "checkIfTriggered", "test")
    <2>1. ~ (At(t, "execute", "enter") \/ At(t, "run", "snapshot") \/ At(t, "checkIfTriggered", "enter"))
        BY <1>3 DEF At
    <2>2. u \in {w \in Threads \ {t} : \E d \in Top(t).asked : HoldsDevice(w, d)}
        BY <1>3, <2>1 DEF WaitsFor
    <2>3. QED
        BY <1>3, <2>2, NobodyIsAsked
<1>4. CASE ~ (\/ At(t, "execute", "enter") \/ At(t, "run", "snapshot")
              \/ At(t, "checkIfTriggered", "enter") \/ At(t, "checkIfTriggered", "test"))
    BY <1>4 DEF WaitsFor
<1>5. QED
    BY <1>1, <1>2, <1>3, <1>4

\* If t waits for u, and u for somebody too, what u waits for lies lower than what t
\* waits for: u is inside the one that t wants, and has gone down from there.
LEMMA WaitsDownwards ==
    ASSUME ConstantsAssumption, Structure, CommandedHeard,
           NEW D, NEW E, Descends(D, E), Descending(D, E),
           NEW t \in Threads, NEW u \in WaitsFor(t), NEW w \in WaitsFor(u)
    PROVE  /\ Height(Top(t), D, E) \in Nat /\ Height(Top(u), D, E) \in Nat
           /\ Height(Top(u), D, E) < Height(Top(t), D, E)
<1>1. /\ u \in Threads /\ stack[t] # <<>> /\ stack[u] # <<>>
      /\ Top(u).op \in {"execute", "run", "checkIfTriggered"} /\ Top(u).at \in {"enter", "snapshot"}
    BY Waiting
<1>2. /\ Top(t) \in Call /\ Top(u) \in Call /\ 1 \in DOMAIN stack[u] /\ Top(u) = stack[u][1]
      /\ stack[u] \in Seq(Call) /\ Len(stack[u]) \in Nat
    BY <1>1, TopCall DEF Structure
<1>3. Reach(Top(u), D, E) = {Height(Top(u), D, E)}
    BY <1>1 DEF Reach, Height
<1>4. Height(Top(u), D, E) \in Nat
    BY <1>2, <1>3, ReachNat
<1>5. ASSUME NEW i \in DOMAIN stack[u], stack[u][i].op \in {"execute", "checkIfTriggered"},
             stack[u][i].at \notin {"enter", "snapshot"}, NEW h,
             Reach(stack[u][i], D, E) = {h}
      PROVE  Height(Top(u), D, E) < h
    <2>1. i # 1
        BY <1>1, <1>2, <1>5
    <2>2. 1 < i
        BY <1>2, <2>1
    <2>3. Nested(Top(u), stack[u][i], D, E)
        BY <1>1, <1>2, <2>2 DEF Descending
    <2>4. QED
        BY <1>3, <1>5, <2>3 DEF Nested
<1>6. CASE Top(t).op \in {"execute", "run"} /\ HoldsDevice(u, Top(t).dev)
    <2>1. PICK i \in DOMAIN stack[u] : InDevice(stack[u][i], Top(t).dev)
        BY <1>6 DEF HoldsDevice
    <2>2. stack[u][i].op = "execute" /\ stack[u][i].at = "leave" /\ stack[u][i].dev = Top(t).dev
        BY <2>1 DEF InDevice
    <2>3. /\ Reach(stack[u][i], D, E) = {2 * D[Top(t).dev] + 1}
          /\ Height(Top(t), D, E) = 2 * D[Top(t).dev] + 1
          /\ Reach(Top(t), D, E) = {2 * D[Top(t).dev] + 1}
        BY <1>6, <2>2 DEF Reach, Height
    <2>4. Height(Top(t), D, E) \in Nat
        BY <1>2, <2>3, ReachNat
    <2>5. QED
        BY <1>4, <1>5, <2>2, <2>3, <2>4
<1>7. CASE Top(t).op = "checkIfTriggered" /\ HoldsEvent(u, Top(t).event)
    <2>1. PICK i \in DOMAIN stack[u] : InEvent(stack[u][i], Top(t).event)
        BY <1>7 DEF HoldsEvent
    <2>2. /\ stack[u][i].op = "checkIfTriggered" /\ stack[u][i].event = Top(t).event
          /\ stack[u][i] \in Checks /\ stack[u][i].at # "enter"
        BY <1>2, <2>1, CallIs DEF InEvent
    <2>3. /\ Reach(stack[u][i], D, E) = {2 * E[Top(t).event]}
          /\ Height(Top(t), D, E) = 2 * E[Top(t).event]
          /\ Reach(Top(t), D, E) = {2 * E[Top(t).event]}
        BY <1>7, <2>2 DEF Reach, Height
    <2>4. Height(Top(t), D, E) \in Nat
        BY <1>2, <2>3, ReachNat
    <2>5. stack[u][i].at \notin {"enter", "snapshot"}
        BY <2>2 DEF Checks
    <2>6. QED
        BY <1>4, <1>5, <2>2, <2>3, <2>4, <2>5
<1>8. QED
    BY <1>6, <1>7, Waiting

\* Among threads that all wait, one waits for what lies lowest.
LEMMA Lowest ==
    ASSUME NEW S, S # {}, NEW h, h \in [S -> Nat]
    PROVE  \E t \in S : \A u \in S : ~ (h[u] < h[t])
<1> DEFINE H == {h[t] : t \in S}
<1>1. H \subseteq Nat /\ H # {}
    OBVIOUS
<1> HIDE DEF H
<1>2. PICK n \in H : \A m \in H : <<m, n>> \notin OpToRel(<, Nat)
    BY <1>1, NatLessThanWellFounded, WFMin
<1>3. \A m \in H : ~ (m < n)
    BY <1>1, <1>2 DEF OpToRel
<1>4. QED
    BY <1>2, <1>3 DEF H

\* No threads wait for each other in a circle, for every number of threads, devices and
\* events, if no chain of rules goes on for ever, and if every device that is ever
\* commanded has reported before (EventProcessingService.java:50).
THEOREM DeadlockFree ==
    ASSUME RulesEnd, CommandedHeard
    PROVE  Spec => []NoDeadlock
<1>1. Structure /\ Ordered => NoDeadlock
    <2> SUFFICES ASSUME Structure, Ordered PROVE NoDeadlock
        OBVIOUS
    <2> USE ConstantsAssumption
    <2>1. PICK D, E : Descends(D, E)
        BY DEF RulesEnd
    <2>2. Descending(D, E)
        BY <2>1 DEF Ordered
    <2> SUFFICES ASSUME NEW S \in (SUBSET Threads) \ {{}}, \A t \in S : WaitsFor(t) \cap S # {}
                 PROVE  FALSE
        BY DEF NoDeadlock
    <2> DEFINE h == [t \in S |-> Height(Top(t), D, E)]
    <2>3. \A t \in S : \E u \in S : u \in WaitsFor(t)
        OBVIOUS
    <2>4. \A t \in S : \E u \in S : h[t] \in Nat /\ h[u] \in Nat /\ h[u] < h[t]
        BY <2>1, <2>2, <2>3, WaitsDownwards
    <2>5. h \in [S -> Nat] /\ S # {}
        BY <2>4
    <2> HIDE DEF h
    <2>6. PICK t \in S : \A u \in S : ~ (h[u] < h[t])
        BY <2>5, Lowest
    <2>7. QED
        BY <2>4, <2>6
<1>2. Init => Ordered
    BY InitDescending DEF Ordered
<1>3. QED
    BY <1>1, <1>2, ConstantsAssumption, InitStructure, NextStructure, NextOrdered, PTL DEF Spec
-----------------------------------------------------------------------------
(* Steps outside of the events.                                            *)

\* What the check of the event e would see, and what is remembered of e, stay the same.
SameKnowledge(e) ==
    /\ e \in active' <=> e \in active
    /\ \A d \in DOMAIN when[e] : /\ cached'[d] = cached[d]
                                 /\ cached[d] = None => actual'[d] = actual[d]

\* The top call, which is not inside an event, becomes calls that are not either.
StaysOutside(t, cs) ==
    /\ Stepped(t, cs) /\ Top(t).op # "checkIfTriggered"
    /\ \A k \in 1 .. Len(cs) : \A e \in Events : ~ InEvent(cs[k], e)

\* The new calls owe the event e its check, or the old one did not and nothing changed.
Passes(t, cs, e) ==
    \/ \E k \in 1 .. Len(cs) : Owes(cs[k], e, MustAsk(e)')
    \/ ~ Owes(Top(t), e, MustAsk(e)) /\ SameKnowledge(e)

\* A call outside the checks that returns stays outside them.
LEMMA OutsideNone ==
    ASSUME NEW t \in Threads, Stepped(t, <<>>), Top(t).op # "checkIfTriggered"
    PROVE  \E cs : StaysOutside(t, cs) /\ Len(cs) = 0
<1>1. PICK cs : cs = <<>>
    OBVIOUS
<1>2. Len(cs) = 0 /\ Stepped(t, cs)
    BY <1>1, NoCalls
<1>3. StaysOutside(t, cs)
    BY <1>2 DEF StaysOutside
<1>4. QED
    BY <1>2, <1>3

\* So does one that goes on as another, or calls a check from its beginning.
LEMMA OutsideOne ==
    ASSUME NEW t \in Threads, NEW n \in Call, Stepped(t, <<n>>), Top(t).op # "checkIfTriggered",
           n.op # "checkIfTriggered" \/ n.at = "enter"
    PROVE  \E cs : StaysOutside(t, cs) /\ Len(cs) = 1 /\ cs[1] = n
<1>1. PICK cs : cs = <<n>>
    OBVIOUS
<1>2. Len(cs) = 1 /\ cs[1] = n /\ Stepped(t, cs)
    BY <1>1, OneCall
<1>3. StaysOutside(t, cs)
    BY <1>2 DEF StaysOutside, InEvent
<1>4. QED
    BY <1>2, <1>3

\* So does one that makes a call and goes on after it.
LEMMA OutsideTwo ==
    ASSUME NEW t \in Threads, NEW x \in Call, NEW n \in Call, Stepped(t, <<x, n>>),
           Top(t).op # "checkIfTriggered",
           x.op # "checkIfTriggered" \/ x.at = "enter", n.op # "checkIfTriggered"
    PROVE  \E cs : StaysOutside(t, cs) /\ Len(cs) = 2 /\ cs[1] = x /\ cs[2] = n
<1>1. PICK cs : cs = <<x, n>>
    OBVIOUS
<1>2. Len(cs) = 2 /\ cs[1] = x /\ cs[2] = n /\ Stepped(t, cs)
    BY <1>1, TwoCalls
<1>3. \A k \in 1 .. Len(cs) : cs[k] = x \/ cs[k] = n
    BY <1>2
<1>4. StaysOutside(t, cs)
    BY <1>2, <1>3 DEF StaysOutside, InEvent
<1>5. QED
    BY <1>2, <1>4

\* A call that neither reports a device nor checks an event owes nothing.
LEMMA OwesNothing ==
    ASSUME NEW c, c.op \in {"scheduleAction", "execute", "scheduleAll"}, NEW e, NEW asked
    PROVE  ~ Owes(c, e, asked)
BY DEF Owes

\* isLocked, deviceNeedsUpdate, checkIfLockShouldBeSet, the end of an execution and of a
\* profile, and the schedulings of a profile, concern no event.
LEMMA SchedulingPasses ==
    ASSUME ConstantsAssumption, Structure, NEW t \in Threads,
           \/ IsLocked(t) /\ ~ Throw(t)
           \/ Apply(t) \/ SetLock(t) \/ LeaveDevice(t) \/ NextElement(t)
    PROVE  \E cs : StaysOutside(t, cs) /\ \A e \in Events : Passes(t, cs, e)
<1>1. PICK c : c = Top(t)
    OBVIOUS
<1>2. stack[t] # <<>> /\ c.op \in {"scheduleAction", "execute", "scheduleAll"} /\ c \in Call
    BY <1>1, TopFacts DEF IsLocked, Apply, SetLock, LeaveDevice, NextElement, At, Top
<1>3. UNCHANGED <<actual, cached, active>>
    BY DEF IsLocked, Apply, SetLock, LeaveDevice, NextElement
<1>4. \A cs : \A e \in Events : Passes(t, cs, e)
    BY <1>1, <1>2, <1>3, OwesNothing DEF Passes, SameKnowledge
<1>5. ASSUME Stepped(t, <<>>) PROVE \E cs : StaysOutside(t, cs)
    BY <1>1, <1>2, <1>5, OutsideNone
<1>6. ASSUME NEW n \in Call, Stepped(t, <<n>>), n.op # "checkIfTriggered"
      PROVE  \E cs : StaysOutside(t, cs)
    BY <1>1, <1>2, <1>6, OutsideOne
<1>7. ASSUME NEW x \in Call, NEW n \in Call, Stepped(t, <<x, n>>), x.op # "checkIfTriggered",
             n.op # "checkIfTriggered"
      PROVE  \E cs : StaysOutside(t, cs)
    BY <1>1, <1>2, <1>7, OutsideTwo
<1>8. CASE IsLocked(t) /\ ~ Throw(t)
    <2>1. PICK n : n = [c EXCEPT !.at = IF c.el.val = None THEN "lock" ELSE "apply"]
        OBVIOUS
    <2>2. c \in Schedulings
        BY <1>1, <1>2, <1>8, CallIs DEF IsLocked, At, Top
    <2>3. n \in Call /\ n.op = "scheduleAction"
        BY <2>1, <2>2, KindsAreCalls DEF Schedulings
    <2>4. Stepped(t, <<n>>)
        BY <1>1, <1>8, <2>1, IsLockedStep
    <2>5. QED
        BY <1>4, <1>6, <2>3, <2>4
<1>9. CASE Apply(t)
    <2>1. PICK n : n = [c EXCEPT !.at = "lock"]
        OBVIOUS
    <2>2. PICK x : x = execute(c.el.dev, c.el.val)
        OBVIOUS
    <2>3. /\ c \in Schedulings /\ c.el.val \in Values
          /\ Stepped(t, <<x, n>>) \/ Stepped(t, <<n>>)
        BY <1>1, <1>9, <2>1, <2>2, ApplyStep
    <2>4. n \in Call /\ n.op = "scheduleAction" /\ x \in Call /\ x.op = "execute"
        BY <2>1, <2>2, <2>3, KindsAreCalls DEF Schedulings, Element, execute, Executions
    <2>5. QED
        BY <1>4, <1>6, <1>7, <2>3, <2>4
<1>10. CASE SetLock(t) \/ LeaveDevice(t)
    BY <1>1, <1>4, <1>5, <1>10, SetLockStep, LeaveDeviceStep
<1>11. CASE NextElement(t)
    <2>1. CASE Stepped(t, <<>>)
        BY <1>4, <1>5, <2>1
    <2>2. ASSUME NEW el \in ProfileElements, NEW n \in Profiles,
                 Stepped(t, <<schedule(el), n>>) \/ Stepped(t, <<n>>)
          PROVE  \E cs : StaysOutside(t, cs)
        <3>1. PICK x : x = schedule(el)
            OBVIOUS
        <3>2. x \in Schedulings
            BY <3>1, ElementsTyped DEF schedule, Schedulings
        <3>3. /\ x \in Call /\ n \in Call /\ x.op # "checkIfTriggered" /\ n.op # "checkIfTriggered"
            BY <2>2, <3>2, KindsAreCalls DEF Schedulings, Profiles
        <3>4. QED
            BY <1>6, <1>7, <2>2, <3>1, <3>3
    <2>3. QED
        BY <1>1, <1>4, <1>11, <2>1, <2>2, NextElementStep
<1>12. QED
    BY <1>8, <1>9, <1>10, <1>11

\* An execution changes what a device does: the node knows of the device, or is told.
LEMMA ExecutePasses ==
    ASSUME ConstantsAssumption, Structure, AsyncHeard, NEW t \in Threads, Execute(t)
    PROVE  \E cs : StaysOutside(t, cs) /\ \A e \in Events : Passes(t, cs, e)
<1>1. PICK c : c = Top(t)
    OBVIOUS
<1>2. PICK n : n = [c EXCEPT !.at = "leave"]
    OBVIOUS
<1>3. PICK x : x = update(c.dev, c.val)
    OBVIOUS
<1>4. /\ c.op = "execute" /\ c \in Executions /\ Comes(c, 1, Len(stack[t])) /\ n \in Executions
      /\ actual' = [actual EXCEPT ![c.dev] = c.val]
      /\ \/ c.dev \in Async /\ Stepped(t, <<n>>)
         \/ c.dev \notin Async /\ Stepped(t, <<x, n>>)
    BY <1>1, <1>2, <1>3, ExecuteStep
<1>5. n \in Call /\ n.op = "execute"
    BY <1>4, KindsAreCalls DEF Executions
<1>6. x \in Call /\ x.op = "update" /\ x.at = "compare" /\ x.dev = c.dev
    BY <1>3, <1>4, KindsAreCalls DEF update, Updates, Executions
<1>7. UNCHANGED <<cached, active>>
    BY DEF Execute
<1>8. \A e \in Events : ~ Owes(Top(t), e, MustAsk(e)) /\ MustAsk(e)' = MustAsk(e)
    BY <1>1, <1>4, <1>7, OwesNothing DEF MustAsk
<1>9. \A d \in Devices : d # c.dev => actual'[d] = actual[d]
    BY <1>4 DEF Structure, Typed
<1>10. ASSUME NEW e \in Events, c.dev \notin MustAsk(e) PROVE SameKnowledge(e)
    <2>1. ASSUME NEW d \in DOMAIN when[e], cached[d] = None PROVE actual'[d] = actual[d]
        <3>1. d \in MustAsk(e) /\ d \in Devices
            BY <2>1 DEF MustAsk, ConstantsAssumption
        <3>2. QED
            BY <1>9, <1>10, <3>1
    <2>2. QED
        BY <1>7, <2>1 DEF SameKnowledge
<1>11. CASE c.dev \in Async /\ Stepped(t, <<n>>)
    <2>1. c.dev \in Heard
        BY <1>4, <1>11 DEF Comes, AsyncHeard
    <2>2. \A e \in Events : c.dev \notin MustAsk(e)
        BY <2>1 DEF Structure, HeardCached, MustAsk
    <2>3. \A cs : \A e \in Events : Passes(t, cs, e)
        BY <1>8, <1>10, <2>2 DEF Passes
    <2>4. PICK cs : StaysOutside(t, cs)
        BY <1>1, <1>4, <1>5, <1>11, OutsideOne
    <2>5. QED
        BY <2>3, <2>4
<1>12. CASE Stepped(t, <<x, n>>)
    <2>1. PICK cs : StaysOutside(t, cs) /\ Len(cs) = 2 /\ cs[1] = x
        BY <1>1, <1>4, <1>5, <1>6, <1>12, OutsideTwo
    <2>2. ASSUME NEW e \in Events PROVE Passes(t, cs, e)
        <3>1. CASE c.dev \in MustAsk(e)
            <4>1. Owes(x, e, MustAsk(e)')
                BY <1>6, <1>8, <3>1 DEF Owes
            <4>2. 1 \in 1 .. Len(cs) /\ Owes(cs[1], e, MustAsk(e)')
                BY <2>1, <4>1
            <4>3. QED
                BY <4>2 DEF Passes
        <3>2. CASE c.dev \notin MustAsk(e)
            BY <1>8, <1>10, <3>2 DEF Passes
        <3>3. QED
            BY <3>1, <3>2
    <2>3. QED
        BY <2>1, <2>2
<1>13. QED
    BY <1>4, <1>11, <1>12
\* A poll hands what it owes on to its report.
LEMMA SnapshotPasses ==
    ASSUME ConstantsAssumption, Structure, NEW t \in Threads, Snapshot(t)
    PROVE  \E cs : StaysOutside(t, cs) /\ \A e \in Events : Passes(t, cs, e)
<1>1. PICK c : c = Top(t)
    OBVIOUS
<1>2. PICK n : n = update(c.dev, actual[c.dev])
    OBVIOUS
<1>3. c.op = "run" /\ n \in Updates /\ Stepped(t, <<n>>)
    BY <1>1, <1>2, SnapshotStep
<1>4. n \in Call /\ n.op = "update" /\ n.at = "compare" /\ n.dev = c.dev
    BY <1>2, <1>3, KindsAreCalls DEF update
<1>5. PICK cs : StaysOutside(t, cs) /\ Len(cs) = 1 /\ cs[1] = n
    BY <1>1, <1>3, <1>4, OutsideOne
<1>6. UNCHANGED <<actual, cached, active>>
    BY DEF Snapshot
<1>7. ASSUME NEW e \in Events PROVE Passes(t, cs, e)
    <2>1. SameKnowledge(e) /\ MustAsk(e)' = MustAsk(e)
        BY <1>6 DEF SameKnowledge, MustAsk
    <2>2. Owes(c, e, MustAsk(e)) => Owes(n, e, MustAsk(e))
        BY <1>3, <1>4 DEF Owes
    <2>3. 1 \in 1 .. Len(cs) /\ cs[1] = n
        BY <1>5
    <2>4. QED
        BY <1>1, <2>1, <2>2, <2>3 DEF Passes
<1>8. QED
    BY <1>5, <1>7

\* The comparison hands it on to the update's next step, or the device is cached.
LEMMA ComparePasses ==
    ASSUME ConstantsAssumption, Structure, NEW t \in Threads, Compare(t)
    PROVE  \E cs : StaysOutside(t, cs) /\ \A e \in Events : Passes(t, cs, e)
<1>1. PICK c : c = Top(t)
    OBVIOUS
<1>2. PICK n : n = [c EXCEPT !.at = "put"]
    OBVIOUS
<1>3. /\ c.op = "update" /\ c.at = "compare" /\ c \in Updates /\ n \in Updates
      /\ \/ cached[c.dev] = c.val /\ Stepped(t, <<>>)
         \/ Stepped(t, <<n>>)
    BY <1>1, <1>2, CompareStep
<1>4. n \in Call /\ n.op = "update" /\ n.at = "put" /\ n.dev = c.dev
    BY <1>2, <1>3, KindsAreCalls DEF Updates
<1>5. UNCHANGED <<actual, cached, active>>
    BY DEF Compare
<1>6. \A e \in Events : SameKnowledge(e) /\ MustAsk(e)' = MustAsk(e)
    BY <1>5 DEF SameKnowledge, MustAsk
<1>7. CASE cached[c.dev] = c.val /\ Stepped(t, <<>>)
    <2>1. cached[c.dev] # None
        BY <1>3, <1>7 DEF Updates, ConstantsAssumption
    <2>2. \A e \in Events : ~ Owes(c, e, MustAsk(e))
        BY <1>3, <2>1 DEF Owes, MustAsk
    <2>3. PICK cs : StaysOutside(t, cs)
        BY <1>1, <1>3, <1>7, OutsideNone
    <2>4. QED
        BY <1>1, <1>6, <2>2, <2>3 DEF Passes
<1>8. CASE Stepped(t, <<n>>)
    <2>1. PICK cs : StaysOutside(t, cs) /\ Len(cs) = 1 /\ cs[1] = n
        BY <1>1, <1>3, <1>4, <1>8, OutsideOne
    <2>2. ASSUME NEW e \in Events PROVE Passes(t, cs, e)
        <3>1. Owes(c, e, MustAsk(e)) => Owes(n, e, MustAsk(e))
            BY <1>3, <1>4 DEF Owes
        <3>2. 1 \in 1 .. Len(cs) /\ cs[1] = n
            BY <2>1
        <3>3. QED
            BY <1>1, <1>6, <3>1, <3>2 DEF Passes
    <2>3. QED
        BY <2>1, <2>2
<1>9. QED
    BY <1>3, <1>7, <1>8

\* What is stored is owed to every event that listens to the device, and is nothing to
\* the others.
LEMMA PutPasses ==
    ASSUME ConstantsAssumption, Structure, NEW t \in Threads, Put(t)
    PROVE  \E cs : StaysOutside(t, cs) /\ \A e \in Events : Passes(t, cs, e)
<1>1. PICK c : c = Top(t)
    OBVIOUS
<1>2. PICK n : n = [c EXCEPT !.at = "events", !.todo = EventsTriggeredBy(c.dev)]
    OBVIOUS
<1>3. /\ c.op = "update" /\ c.at = "put" /\ c \in Updates /\ n \in Updates
      /\ cached' = [cached EXCEPT ![c.dev] = c.val] /\ Stepped(t, <<n>>)
    BY <1>1, <1>2, PutStep
<1>4. /\ n \in Call /\ n.op = "update" /\ n.at = "events"
      /\ n.todo = EventsTriggeredBy(c.dev)
    BY <1>2, <1>3, KindsAreCalls DEF Updates
<1>5. PICK cs : StaysOutside(t, cs) /\ Len(cs) = 1 /\ cs[1] = n
    BY <1>1, <1>3, <1>4, OutsideOne
<1>6. UNCHANGED <<actual, active>> /\ \A d \in Devices \ {c.dev} : cached'[d] = cached[d]
    BY <1>3 DEF Put, Structure, Typed
<1>7. ASSUME NEW e \in Events PROVE Passes(t, cs, e)
    <2>1. CASE c.dev \in DOMAIN when[e]
        <3>1. Owes(n, e, MustAsk(e)')
            BY <1>4, <2>1 DEF Owes, EventsTriggeredBy
        <3>2. 1 \in 1 .. Len(cs) /\ cs[1] = n
            BY <1>5
        <3>3. QED
            BY <3>1, <3>2 DEF Passes
    <2>2. CASE c.dev \notin DOMAIN when[e]
        <3>1. ~ Owes(c, e, MustAsk(e))
            BY <1>3, <2>2 DEF Owes, MustAsk
        <3>2. SameKnowledge(e)
            BY <1>6, <2>2 DEF SameKnowledge, ConstantsAssumption
        <3>3. QED
            BY <1>1, <3>1, <3>2 DEF Passes
    <2>3. QED
        BY <2>1, <2>2
<1>8. QED
    BY <1>5, <1>7

\* The update hands the events on its list on to their checks, one after the other.
LEMMA NextEventPasses ==
    ASSUME ConstantsAssumption, Structure, NEW t \in Threads, NextEvent(t)
    PROVE  \E cs : StaysOutside(t, cs) /\ \A e \in Events : Passes(t, cs, e)
<1>1. PICK c : c = Top(t)
    OBVIOUS
<1>2. stack[t] # <<>> /\ c.op = "update" /\ c.at = "events"
    BY <1>1 DEF NextEvent, At, Top
<1>3. c \in Updates
    BY <1>1, <1>2, TopFacts, CallIs
<1>4. UNCHANGED <<actual, cached, active>>
    BY DEF NextEvent
<1>5. \A e \in Events : SameKnowledge(e) /\ MustAsk(e)' = MustAsk(e)
    BY <1>4 DEF SameKnowledge, MustAsk
<1>6. CASE c.todo = {} /\ Stepped(t, <<>>)
    <2>1. \A e \in Events : ~ Owes(c, e, MustAsk(e))
        BY <1>2, <1>6 DEF Owes
    <2>2. PICK cs : StaysOutside(t, cs)
        BY <1>1, <1>2, <1>6, OutsideNone
    <2>3. QED
        BY <1>1, <1>5, <2>1, <2>2 DEF Passes
<1>7. ASSUME NEW f \in c.todo, check(f, c.dev) \in Checks, [c EXCEPT !.todo = @ \ {f}] \in Updates,
             Stepped(t, <<check(f, c.dev), [c EXCEPT !.todo = @ \ {f}]>>)
      PROVE  \E cs : StaysOutside(t, cs) /\ \A e \in Events : Passes(t, cs, e)
    <2>1. PICK x : x = check(f, c.dev)
        OBVIOUS
    <2>2. PICK n : n = [c EXCEPT !.todo = @ \ {f}]
        OBVIOUS
    <2>3. /\ x \in Call /\ x.op = "checkIfTriggered" /\ x.at = "enter" /\ x.event = f
          /\ n \in Call /\ n.op = "update" /\ n.at = "events" /\ n.todo = c.todo \ {f}
        BY <1>2, <1>3, <1>7, <2>1, <2>2, KindsAreCalls DEF check, Updates
    <2>4. PICK cs : StaysOutside(t, cs) /\ Len(cs) = 2 /\ cs[1] = x /\ cs[2] = n
        <3>1. Stepped(t, <<x, n>>)
            BY <1>7, <2>1, <2>2
        <3>2. Top(t).op # "checkIfTriggered" /\ n.op # "checkIfTriggered"
            BY <1>1, <1>2, <2>3
        <3>3. QED
            BY <2>3, <3>1, <3>2, OutsideTwo
    <2>5. ASSUME NEW e \in Events PROVE Passes(t, cs, e)
        <3>1. 1 \in 1 .. Len(cs) /\ 2 \in 1 .. Len(cs)
            BY <2>4
        <3>2. CASE e = f
            BY <2>3, <2>4, <3>1, <3>2 DEF Passes, Owes
        <3>3. CASE e # f
            <4>1. Owes(c, e, MustAsk(e)) => Owes(n, e, MustAsk(e))
                BY <1>2, <2>3, <3>3 DEF Owes
            <4>2. QED
                BY <1>1, <1>5, <2>4, <3>1, <4>1 DEF Passes
        <3>4. QED
            BY <3>2, <3>3
    <2>6. QED
        BY <2>4, <2>5
<1>8. QED
    BY <1>1, <1>6, <1>7, NextEventStep

\* What a thread does outside of the events loses nothing that is owed to one.
LEMMA OutsidePasses ==
    ASSUME ConstantsAssumption, Structure, AsyncHeard, NEW t \in Threads,
           \/ IsLocked(t) /\ ~ Throw(t)
           \/ Apply(t) \/ SetLock(t) \/ LeaveDevice(t) \/ NextElement(t)
           \/ Execute(t) \/ Snapshot(t) \/ Compare(t) \/ Put(t) \/ NextEvent(t)
    PROVE  \E cs : StaysOutside(t, cs) /\ \A e \in Events : Passes(t, cs, e)
BY SchedulingPasses, ExecutePasses, SnapshotPasses, ComparePasses, PutPasses, NextEventPasses
-----------------------------------------------------------------------------
(* Where the calls are before and after a step.                            *)

\* The new calls are on the stack, ...
LEMMA NewStay ==
    ASSUME Structure, NEW t, NEW cs, Stepped(t, cs), NEW k \in 1 .. Len(cs)
    PROVE  t \in Threads /\ k \in DOMAIN stack'[t] /\ stack'[t][k] = cs[k]
<1>1. /\ Became(t, cs) /\ Len(cs) \in Nat /\ Len(stack[t]) \in Nat \ {0}
      /\ stack'[t] \in Seq(Call) /\ Len(stack'[t]) \in Nat /\ t \in Threads
    BY TopCall, LenProperties DEF Structure, Stepped, Became
<1>2. k \in 1 .. Len(stack'[t])
    BY <1>1 DEF Became
<1>3. QED
    BY <1>1, <1>2 DEF Became

\* ... all of them, ...
LEMMA NewCallsStay ==
    ASSUME Structure, NEW t, NEW cs, Stepped(t, cs)
    PROVE  \A k \in 1 .. Len(cs) : k \in DOMAIN stack'[t] /\ stack'[t][k] = cs[k]
BY NewStay

\* ... and every call but the top one that was replaced still is, ...
LEMMA OldStay ==
    ASSUME Structure, NEW t, NEW cs, Stepped(t, cs), NEW u \in Threads, NEW i \in DOMAIN stack[u],
           ~ (u = t /\ i = 1)
    PROVE  \E l \in DOMAIN stack'[u] : stack'[u][l] = stack[u][i]
<1>1. CASE u # t
    BY <1>1 DEF Stepped, Became
<1>2. CASE u = t
    <2>1. /\ Became(t, cs) /\ Len(cs) \in Nat /\ Len(stack[t]) \in Nat \ {0}
          /\ stack[t] \in Seq(Call) /\ stack'[t] \in Seq(Call) /\ Len(stack'[t]) \in Nat
        BY TopCall, LenProperties DEF Structure, Stepped, Became
    <2>2. i \in 2 .. Len(stack[t])
        BY <1>2, <2>1
    <2>3. Len(cs) \in Nat /\ Len(stack[t]) \in Nat /\ Became(t, cs)
        BY <2>1
    <2>4. \E l \in DOMAIN stack'[t] : stack'[t][l] = stack[t][i]
        BY <2>2, <2>3, BecameAt
    <2>5. QED
        BY <1>2, <2>4
<1>3. QED
    BY <1>1, <1>2

\* ... and there are no others.
LEMMA NoOthers ==
    ASSUME Structure, NEW t, NEW cs, Stepped(t, cs), NEW u \in Threads, NEW l \in DOMAIN stack'[u]
    PROVE  \/ u = t /\ l \in 1 .. Len(cs) /\ stack'[u][l] = cs[l]
           \/ \E i \in DOMAIN stack[u] : ~ (u = t /\ i = 1) /\ stack'[u][l] = stack[u][i]
<1>1. CASE u # t
    BY <1>1 DEF Stepped, Became
<1>2. CASE u = t
    <2>1. /\ Became(t, cs) /\ Len(cs) \in Nat /\ Len(stack[t]) \in Nat \ {0} /\ Typed
          /\ stack[t] \in Seq(Call) /\ stack'[t] \in Seq(Call) /\ Len(stack'[t]) \in Nat
        BY TopCall, LenProperties DEF Structure, Stepped, Became
    <2>2. l \in 1 .. Len(stack'[t])
        BY <1>2, <2>1
    <2>3. CASE l > Len(cs) /\ l - Len(cs) + 1 \in 2 .. Len(stack[t])
               /\ stack'[t][l] = stack[t][l - Len(cs) + 1]
        <3>1. PICK i : i = l - Len(cs) + 1
            OBVIOUS
        <3>2. i \in DOMAIN stack[t] /\ i # 1 /\ stack'[t][l] = stack[t][i]
            BY <2>1, <2>3, <3>1
        <3>3. QED
            BY <1>2, <3>2
    <2>4. QED
        BY <1>2, <2>1, <2>2, <2>3, BecameFrom
<1>3. QED
    BY <1>1, <1>2

\* After a restart, the thread has the calls s and the others have theirs.
LEMMA AfterRestart ==
    ASSUME Structure, NEW t, NEW s, Restarted(t, s)
    PROVE  /\ t \in Threads /\ stack'[t] = s /\ DOMAIN s \subseteq {1}
           /\ \A u \in Threads \ {t} : stack'[u] = stack[u]
           /\ \A i \in DOMAIN s : \A e \in Events : ~ InEvent(s[i], e)
<1>1. /\ t \in Threads /\ stack'[t] = s
      /\ \A u \in Threads \ {t} : stack'[u] = stack[u]
    BY DEF Restarted, Structure, Typed
<1>2. s \in Seq(Call) /\ (s = <<>> \/ Len(s) = 1)
    BY DEF Restarted
<1>3. DOMAIN s \subseteq {1}
    BY <1>2
<1>4. s # <<>> => s[1].op # "checkIfTriggered"
    BY DEF Restarted
<1>5. QED
    BY <1>1, <1>3, <1>4 DEF InEvent

-----------------------------------------------------------------------------
(* One call inside an event.                                               *)

\* The new calls that are inside an event: the last of them, and the one it replaces was
\* inside or nobody was.
EventsFit(t, cs) ==
    \A k \in 1 .. Len(cs) : \A e \in Events :
        InEvent(cs[k], e) => k = Len(cs) /\ (InEvent(Top(t), e) \/ \A u \in Threads : ~ HoldsEvent(u, e))

\* A step whose calls fit leaves at most one thread inside an event.
LEMMA OneInEventKept ==
    ASSUME Structure, OneInEvent, NEW t, NEW cs, Stepped(t, cs), EventsFit(t, cs)
    PROVE  OneInEvent'
<1>1. /\ Became(t, cs) /\ Typed /\ Len(cs) \in Nat /\ Len(stack[t]) \in Nat \ {0}
      /\ stack[t] \in Seq(Call) /\ stack'[t] \in Seq(Call) /\ Len(stack'[t]) \in Nat
      /\ 1 \in DOMAIN stack[t] /\ Top(t) = stack[t][1] /\ t \in Threads
    BY TopCall, LenProperties DEF Structure, Stepped, Became
<1> DEFINE Before(u, l) == IF u = t THEN l - Len(cs) + 1 ELSE l
<1>2. ASSUME NEW e \in Events, NEW u \in Threads, NEW l \in DOMAIN stack'[u], InEvent(stack'[u][l], e)
      PROVE  /\ u = t => l \in Nat
             /\ \/ Before(u, l) \in DOMAIN stack[u] /\ InEvent(stack[u][Before(u, l)], e)
                \/ u = t /\ l = Len(cs) /\ \A w \in Threads : ~ HoldsEvent(w, e)
    <2>1. CASE u # t
        BY <1>1, <1>2, <2>1 DEF Became
    <2>2. CASE u = t
        <3>1. l \in 1 .. Len(stack'[t])
            BY <1>1, <2>2
        <3>2. CASE l \in 1 .. Len(cs) /\ stack'[t][l] = cs[l]
            <4>1. l = Len(cs) /\ (InEvent(Top(t), e) \/ \A w \in Threads : ~ HoldsEvent(w, e))
                BY <1>2, <2>2, <3>2 DEF EventsFit
            <4>2. Before(u, l) = 1
                BY <1>1, <2>2, <4>1
            <4>3. l \in Nat
                BY <1>1, <3>1
            <4>4. Before(u, l) \in DOMAIN stack[u] /\ stack[u][Before(u, l)] = Top(t)
                BY <1>1, <2>2, <4>2
            <4> HIDE DEF Before
            <4>5. QED
                BY <2>2, <4>1, <4>3, <4>4
        <3>3. CASE /\ l > Len(cs) /\ l - Len(cs) + 1 \in 2 .. Len(stack[t])
                   /\ stack'[t][l] = stack[t][l - Len(cs) + 1]
            <4>1. l \in Nat
                BY <1>1, <3>1
            <4>2. Before(u, l) = l - Len(cs) + 1
                BY <2>2
            <4>3. Before(u, l) \in DOMAIN stack[u] /\ stack[u][Before(u, l)] = stack'[u][l]
                BY <1>1, <2>2, <3>3, <4>2
            <4> HIDE DEF Before
            <4>4. QED
                BY <1>2, <4>1, <4>3
        <3>4. \/ l \in 1 .. Len(cs) /\ stack'[t][l] = cs[l]
              \/ /\ l > Len(cs) /\ l - Len(cs) + 1 \in 2 .. Len(stack[t])
                 /\ stack'[t][l] = stack[t][l - Len(cs) + 1]
            BY <1>1, <3>1, BecameFrom
        <3>5. QED
            BY <3>2, <3>3, <3>4
    <2>3. QED
        BY <2>1, <2>2
<1> HIDE DEF Before
<1> SUFFICES ASSUME NEW e \in Events, NEW u \in Threads, NEW w \in Threads,
                    NEW l \in DOMAIN stack'[u], NEW m \in DOMAIN stack'[w],
                    InEvent(stack'[u][l], e), InEvent(stack'[w][m], e)
             PROVE  u = w /\ l = m
    BY DEF OneInEvent, InEvent
<1>3. ASSUME Before(u, l) \in DOMAIN stack[u], InEvent(stack[u][Before(u, l)], e),
             Before(w, m) \in DOMAIN stack[w], InEvent(stack[w][Before(w, m)], e)
      PROVE  u = w /\ l = m
    <2>1. u = w /\ Before(u, l) = Before(w, m)
        BY <1>3 DEF OneInEvent
    <2>2. u = t => l \in Nat /\ m \in Nat
        BY <1>2, <2>1
    <2>3. QED
        BY <1>1, <2>1, <2>2 DEF Before
<1>4. ASSUME \A v \in Threads : ~ HoldsEvent(v, e)
      PROVE  u = t /\ l = Len(cs) /\ w = t /\ m = Len(cs)
    BY <1>2, <1>4 DEF HoldsEvent
<1>5. QED
    BY <1>2, <1>3, <1>4

\* So does a thread that starts a task.
LEMMA OneInEventRestarted ==
    ASSUME Structure, OneInEvent, NEW t, NEW s, Restarted(t, s)
    PROVE  OneInEvent'
<1> SUFFICES ASSUME NEW e \in Events, NEW u \in Threads, NEW w \in Threads,
                    NEW l \in DOMAIN stack'[u], NEW m \in DOMAIN stack'[w],
                    InEvent(stack'[u][l], e), InEvent(stack'[w][m], e)
             PROVE  u = w /\ l = m
    BY DEF OneInEvent, InEvent
<1>1. u # t /\ w # t
    BY AfterRestart
<1>2. QED
    BY <1>1, AfterRestart DEF OneInEvent

\* A thread is not inside an event that it is about to enter: it would have come there
\* from the event, and have gone down since.
LEMMA NotInsideYet ==
    ASSUME ConstantsAssumption, Structure, NEW D, NEW E, Descends(D, E), Descending(D, E),
           NEW t \in Threads, EnterEvent(t)
    PROVE  \A u \in Threads : ~ HoldsEvent(u, Top(t).event)
<1>1. PICK c : c = Top(t)
    OBVIOUS
<1>2. /\ c.op = "checkIfTriggered" /\ c.at = "enter" /\ EventFree(t, c.event)
      /\ stack[t] # <<>> /\ c \in Call /\ stack[t] \in Seq(Call) /\ Len(stack[t]) \in Nat
      /\ 1 \in DOMAIN stack[t] /\ stack[t][1] = c
    BY <1>1, TopCall DEF EnterEvent, At, Top, Structure
<1>3. ASSUME NEW i \in DOMAIN stack[t], InEvent(stack[t][i], c.event) PROVE FALSE
    <2>1. /\ stack[t][i].op = "checkIfTriggered" /\ stack[t][i].at # "enter"
          /\ stack[t][i].event = c.event
        BY <1>3 DEF InEvent
    <2>2. 1 < i
        BY <1>2, <2>1
    <2>3. Nested(c, stack[t][i], D, E)
        BY <1>2, <2>2 DEF Descending
    <2>4. Reach(c, D, E) = {2 * E[c.event]} /\ Reach(stack[t][i], D, E) = {2 * E[c.event]}
        BY <1>2, <2>1 DEF Reach
    <2>5. 2 * E[c.event] < 2 * E[c.event]
        BY <2>1, <2>3, <2>4 DEF Nested
    <2>6. Reach(c, D, E) \subseteq Nat
        BY <1>2, ReachNat
    <2>7. QED
        BY <2>4, <2>5, <2>6
<1>4. QED
    BY <1>1, <1>2, <1>3 DEF EventFree, HoldsEvent
-----------------------------------------------------------------------------
(* What is owed is paid.                                                   *)

\* With the same knowledge, the event's condition is what it was.
LEMMA KnowledgeKept ==
    ASSUME NEW e \in Events, SameKnowledge(e)
    PROVE  /\ MustAsk(e)' = MustAsk(e) /\ (Condition(e)' <=> Condition(e))
           /\ Right(e)' <=> Right(e)
           /\ \A c : Heading(c, e)' <=> Heading(c, e)
<1>1. MustAsk(e)' = MustAsk(e)
    BY DEF SameKnowledge, MustAsk
<1>3. \A d \in DOMAIN when[e] : Known(d, MustAsk(e))' = Known(d, MustAsk(e))
    BY <1>1 DEF Known, SameKnowledge, MustAsk
<1>4. Condition(e)' <=> Condition(e)
    BY <1>1, <1>3 DEF Condition
<1>5. Right(e)' <=> Right(e)
    BY <1>4 DEF Right, SameKnowledge
<1>6. ASSUME NEW c PROVE Heading(c, e)' <=> Heading(c, e)
    <2>1. e \in active' <=> e \in active
        BY DEF SameKnowledge
    <2>2. QED
        BY <1>1, <1>4, <2>1 DEF Heading
<1>7. QED
    BY <1>1, <1>4, <1>5, <1>6

\* If the new calls owe the event what the old one owed, and are inside the event if that
\* was, on the same way.
LEMMA PaidKept ==
    ASSUME Structure, NEW e \in Events, Paid(e), NEW t, NEW cs, Stepped(t, cs), SameKnowledge(e),
           Owes(Top(t), e, MustAsk(e)) => \E k \in 1 .. Len(cs) : Owes(cs[k], e, MustAsk(e)),
           InEvent(Top(t), e) => \E k \in 1 .. Len(cs) : InEvent(cs[k], e),
           \A k \in 1 .. Len(cs) : InEvent(cs[k], e) =>
               InEvent(Top(t), e) /\ (Heading(Top(t), e) => Heading(cs[k], e))
    PROVE  Paid(e)'
<1>1. /\ MustAsk(e)' = MustAsk(e) /\ (Right(e)' <=> Right(e))
      /\ \A c : Heading(c, e)' <=> Heading(c, e)
    BY KnowledgeKept
<1>2. t \in Threads /\ 1 \in DOMAIN stack[t] /\ Top(t) = stack[t][1]
    BY TopCall DEF Structure, Stepped, Became
<1> SUFFICES ASSUME ~ Owed(e)'
             PROVE  /\ ~ Inside(e)' => Right(e)'
                    /\ \A u \in Threads : \A l \in DOMAIN stack'[u] :
                           InEvent(stack'[u][l], e) => Heading(stack[u][l], e)'
    BY DEF Paid, InEvent
<1>3. \A u \in Threads : \A l \in DOMAIN stack'[u] : ~ Owes(stack'[u][l], e, MustAsk(e))
    BY <1>1 DEF Owed, Owes
<1>4. \A k \in 1 .. Len(cs) : ~ Owes(cs[k], e, MustAsk(e))
    BY <1>3, NewStay
<1>5. ~ Owed(e)
    <2> SUFFICES ASSUME NEW u \in Threads, NEW i \in DOMAIN stack[u], Owes(stack[u][i], e, MustAsk(e))
                 PROVE  FALSE
        BY DEF Owed
    <2>1. CASE u = t /\ i = 1
        BY <1>2, <1>4, <2>1
    <2>2. CASE ~ (u = t /\ i = 1)
        BY <1>3, <2>2, OldStay
    <2>3. QED
        BY <2>1, <2>2
<1>6. ASSUME ~ Inside(e)' PROVE ~ Inside(e)
    <2>1. \A u \in Threads : \A l \in DOMAIN stack'[u] : ~ InEvent(stack'[u][l], e)
        BY <1>6 DEF Inside, InEvent
    <2>2. \A k \in 1 .. Len(cs) : ~ InEvent(cs[k], e)
        BY <2>1, NewStay
    <2> SUFFICES ASSUME NEW u \in Threads, NEW i \in DOMAIN stack[u], InEvent(stack[u][i], e)
                 PROVE  FALSE
        BY DEF Inside
    <2>3. CASE u = t /\ i = 1
        BY <1>2, <2>2, <2>3
    <2>4. CASE ~ (u = t /\ i = 1)
        BY <2>1, <2>4, OldStay
    <2>5. QED
        BY <2>3, <2>4
<1>7. ASSUME NEW u \in Threads, NEW l \in DOMAIN stack'[u], InEvent(stack'[u][l], e)
      PROVE  Heading(stack[u][l], e)'
    <2>1. \A v \in Threads : \A i \in DOMAIN stack[v] :
              InEvent(stack[v][i], e) => Heading(stack[v][i], e)
        BY <1>5 DEF Paid
    <2>2. PICK c : c = stack'[u][l]
        OBVIOUS
    <2>3. Heading(c, e)
        <3>1. CASE u = t /\ l \in 1 .. Len(cs) /\ stack'[u][l] = cs[l]
            BY <1>2, <1>7, <2>1, <2>2, <3>1
        <3>2. CASE \E i \in DOMAIN stack[u] : stack'[u][l] = stack[u][i]
            BY <1>7, <2>1, <2>2, <3>2
        <3>3. QED
            BY <3>1, <3>2, NoOthers
    <2>4. Heading(c, e)'
        BY <1>1, <2>3
    <2>5. QED
        BY <2>2, <2>4 DEF Heading
<1>8. QED
    BY <1>1, <1>5, <1>6, <1>7 DEF Paid

\* If the new calls owe the event something, nothing is claimed.
LEMMA StillOwed ==
    ASSUME Structure, NEW e \in Events, NEW t, NEW cs, Stepped(t, cs),
           \E k \in 1 .. Len(cs) : Owes(cs[k], e, MustAsk(e)')
    PROVE  Paid(e)'
<1>1. PICK k \in 1 .. Len(cs) : Owes(cs[k], e, MustAsk(e)')
    OBVIOUS
<1>2. t \in Threads /\ k \in DOMAIN stack'[t] /\ stack'[t][k] = cs[k]
    BY NewStay
<1>3. Owed(e)'
    BY <1>1, <1>2 DEF Owed, Owes
<1>4. QED
    BY <1>3 DEF Paid

\* If the top call is the one inside the event: no other is, and what it was on the way
\* to decides.
LEMMA PaidInside ==
    ASSUME Structure, OneInEvent, NEW e \in Events, Paid(e), NEW t, NEW cs, Stepped(t, cs),
           UNCHANGED <<actual, cached>>, InEvent(Top(t), e),
           \A k \in 1 .. Len(cs) : InEvent(cs[k], e) => (Heading(Top(t), e) => Heading(cs[k], e)'),
           (\A k \in 1 .. Len(cs) : ~ InEvent(cs[k], e)) => (Heading(Top(t), e) => Right(e)')
    PROVE  Paid(e)'
<1>1. MustAsk(e)' = MustAsk(e)
    BY DEF MustAsk
<1>2. t \in Threads /\ 1 \in DOMAIN stack[t] /\ Top(t) = stack[t][1]
    BY TopCall DEF Structure, Stepped, Became
<1> SUFFICES ASSUME ~ Owed(e)'
             PROVE  /\ ~ Inside(e)' => Right(e)'
                    /\ \A u \in Threads : \A l \in DOMAIN stack'[u] :
                           InEvent(stack'[u][l], e) => Heading(stack[u][l], e)'
    BY DEF Paid, InEvent
<1>3. \A u \in Threads : \A l \in DOMAIN stack'[u] : ~ Owes(stack'[u][l], e, MustAsk(e))
    BY <1>1 DEF Owed, Owes
<1>4. ~ Owed(e)
    <2> SUFFICES ASSUME NEW u \in Threads, NEW i \in DOMAIN stack[u], Owes(stack[u][i], e, MustAsk(e))
                 PROVE  FALSE
        BY DEF Owed
    <2>1. CASE u = t /\ i = 1
        BY <1>2, <2>1 DEF Owes, InEvent
    <2>2. CASE ~ (u = t /\ i = 1)
        BY <1>3, <2>2, OldStay
    <2>3. QED
        BY <2>1, <2>2
<1>5. Heading(Top(t), e)
    BY <1>2, <1>4 DEF Paid
<1>6. ASSUME NEW u \in Threads, NEW l \in DOMAIN stack'[u], InEvent(stack'[u][l], e)
      PROVE  u = t /\ l \in 1 .. Len(cs) /\ stack'[u][l] = cs[l]
    <2>1. CASE \E i \in DOMAIN stack[u] : ~ (u = t /\ i = 1) /\ stack'[u][l] = stack[u][i]
        BY <1>2, <1>6, <2>1 DEF OneInEvent
    <2>2. QED
        BY <2>1, NoOthers
<1>7. ASSUME NEW u \in Threads, NEW l \in DOMAIN stack'[u], InEvent(stack'[u][l], e)
      PROVE  Heading(stack[u][l], e)'
    <2>1. l \in 1 .. Len(cs) /\ stack'[u][l] = cs[l] /\ InEvent(cs[l], e)
        BY <1>6, <1>7
    <2>2. Heading(cs[l], e)'
        BY <1>5, <2>1
    <2>3. QED
        BY <2>1, <2>2 DEF Heading
<1>8. ASSUME ~ Inside(e)' PROVE Right(e)'
    <2>1. \A k \in 1 .. Len(cs) : ~ InEvent(cs[k], e)
        BY <1>8, NewStay DEF Inside, InEvent
    <2>2. QED
        BY <1>5, <2>1
<1>9. QED
    BY <1>7, <1>8

\* A thread that owed nothing begins something, or is cut short.
LEMMA PaidRestarted ==
    ASSUME Structure, NEW e \in Events, Paid(e), NEW t, NEW s, Restarted(t, s),
           \A i \in DOMAIN stack[t] : ~ Owes(stack[t][i], e, MustAsk(e)) /\ ~ InEvent(stack[t][i], e),
           (\E i \in DOMAIN s : Owes(s[i], e, MustAsk(e)')) \/ SameKnowledge(e)
    PROVE  Paid(e)'
<1>1. /\ t \in Threads /\ stack'[t] = s /\ \A u \in Threads \ {t} : stack'[u] = stack[u]
      /\ \A i \in DOMAIN s : ~ InEvent(s[i], e)
    BY AfterRestart
<1>2. CASE \E i \in DOMAIN s : Owes(s[i], e, MustAsk(e)')
    <2>1. Owed(e)'
        BY <1>1, <1>2 DEF Owed, Owes
    <2>2. QED
        BY <2>1 DEF Paid
<1>3. CASE SameKnowledge(e)
    <2>1. /\ MustAsk(e)' = MustAsk(e) /\ (Right(e)' <=> Right(e))
          /\ \A c : Heading(c, e)' <=> Heading(c, e)
        BY <1>3, KnowledgeKept
    <2>2. Owed(e) => Owed(e)'
        BY <1>1, <2>1 DEF Owed, Owes
    <2>3. Inside(e) <=> Inside(e)'
        BY <1>1 DEF Inside, InEvent
    <2>4. ASSUME ~ Owed(e), NEW u \in Threads, NEW l \in DOMAIN stack'[u], InEvent(stack'[u][l], e)
          PROVE  Heading(stack[u][l], e)'
        <3>1. u # t /\ stack'[u] = stack[u]
            BY <1>1, <2>4
        <3>2. PICK c : c = stack[u][l]
            OBVIOUS
        <3>3. Heading(c, e)
            BY <2>4, <3>1, <3>2 DEF Paid
        <3>4. Heading(c, e)'
            BY <2>1, <3>3
        <3>5. QED
            BY <3>1, <3>2, <3>4 DEF Heading
    <2>5. QED
        BY <2>1, <2>2, <2>3, <2>4 DEF Paid, InEvent
<1>4. QED
    BY <1>2, <1>3
-----------------------------------------------------------------------------
(* The steps inside of the events.                                         *)

\* The ranges of a plain event do not tell which device has changed.
LEMMA PlainCondition ==
    ASSUME ConstantsAssumption, NEW e \in Plain, NEW d
    PROVE  eventTriggered(e, d, MustAsk(e)) <=> Condition(e)
<1>1. e \in Events /\ \A x \in DOMAIN when[e] : <<e, x>> \notin onChange
    BY DEF Plain, ConstantsAssumption
<1>2. \A x \in DOMAIN when[e] :
          isTriggered(e, x, d, MustAsk(e)) <=> Known(x, MustAsk(e)) \in when[e][x]
    BY <1>1 DEF isTriggered
<1>3. QED
    BY <1>2 DEF eventTriggered, Condition

\* The events' part of the invariant.
Settling(M) == OneInEvent /\ \A e \in Plain \ M : Paid(e)

\* A step that is about the event of c only: the others know what they knew, if the new
\* calls are in no other event than c was.
LEMMA OtherEventsPaid ==
    ASSUME Structure, NEW M, Settling(M), NEW t, NEW cs, Stepped(t, cs), NEW c, c = Top(t),
           c.op = "checkIfTriggered", UNCHANGED <<actual, cached>>,
           \A e \in Events \ {c.event} : e \in active' <=> e \in active,
           \A k \in 1 .. Len(cs) : \A e \in Events : InEvent(cs[k], e) => e = c.event,
           NEW e \in Plain \ M, e # c.event
    PROVE  Paid(e)'
<1>1. e \in Events /\ Paid(e)
    BY DEF Plain, Settling
<1>2. SameKnowledge(e)
    BY <1>1 DEF SameKnowledge
<1>3. ~ Owes(Top(t), e, MustAsk(e)) /\ ~ InEvent(Top(t), e)
    BY DEF Owes, InEvent
<1>4. \A k \in 1 .. Len(cs) : ~ InEvent(cs[k], e)
    BY <1>1
<1>5. QED
    BY <1>1, <1>2, <1>3, <1>4, PaidKept

\* Inside the event, the check asks whom it must.
LEMMA EnterEventPays ==
    ASSUME ConstantsAssumption, Structure, NEW M, Settling(M), NEW D, NEW E, Descends(D, E), Descending(D, E),
           NEW t \in Threads, EnterEvent(t), NEW N, M \subseteq N \cup {Top(t).event}
    PROVE  Settling(N)'
<1>1. PICK c : c = Top(t)
    OBVIOUS
<1>2. PICK n : n = [c EXCEPT !.at = "test", !.asked = MustAsk(c.event)]
    OBVIOUS
<1>3. /\ c.op = "checkIfTriggered" /\ c.at = "enter" /\ c \in Checks /\ n \in Checks
      /\ Stepped(t, <<n>>)
    BY <1>1, <1>2, EnterEventStep
<1>4. /\ n.op = "checkIfTriggered" /\ n.at = "test" /\ n.event = c.event /\ n.asked = MustAsk(c.event)
      /\ n \in Call
    BY <1>2, <1>3, KindsAreCalls DEF Checks
<1>5. PICK cs : cs = <<n>>
    OBVIOUS
<1>6. Len(cs) = 1 /\ cs[1] = n /\ Stepped(t, cs)
    BY <1>3, <1>4, <1>5, OneCall
<1>7. \A u \in Threads : ~ HoldsEvent(u, c.event)
    BY <1>1, NotInsideYet
<1>8. UNCHANGED <<actual, cached, active>>
    BY DEF EnterEvent
<1>9. \A k \in 1 .. Len(cs) : k = 1 /\ cs[k] = n
    BY <1>6
<1>10. \A e : InEvent(n, e) <=> e = c.event
    BY <1>4 DEF InEvent
<1>11. OneInEvent'
    <2>1. EventsFit(t, cs)
        BY <1>6, <1>7, <1>9, <1>10 DEF EventsFit
    <2>2. QED
        BY <1>6, <2>1, OneInEventKept DEF Settling
<1>12. ASSUME NEW e \in Plain \ N, e # c.event PROVE Paid(e)'
    BY <1>1, <1>3, <1>6, <1>8, <1>9, <1>10, <1>12, OtherEventsPaid
<1>13. ASSUME c.event \in Plain PROVE Paid(c.event)'
    <2>1. t \in Threads /\ 1 \in DOMAIN stack'[t] /\ stack'[t][1] = n
        <3>1. 1 \in 1 .. Len(cs) /\ cs[1] = n
            BY <1>6
        <3>2. Stepped(t, cs)
            BY <1>6
        <3>3. \A k \in 1 .. Len(cs) : k \in DOMAIN stack'[t] /\ stack'[t][k] = cs[k]
            BY <3>2, NewStay
        <3>4. QED
            BY <3>1, <3>3
    <2>2. Inside(c.event)'
        BY <1>10, <2>1 DEF Inside, InEvent
    <2>3. ASSUME NEW u \in Threads, NEW l \in DOMAIN stack'[u], InEvent(stack'[u][l], c.event)
          PROVE  Heading(stack[u][l], c.event)'
        <3>1. c.event \in Events
            BY <1>3 DEF Checks
        <3>2. u = t /\ l = 1
            <4>1. \A v, w \in Threads : \A i \in DOMAIN stack'[v], j \in DOMAIN stack'[w] :
                      InEvent(stack'[v][i], c.event) /\ InEvent(stack'[w][j], c.event) => v = w /\ i = j
                BY <1>11, <3>1 DEF OneInEvent, InEvent
            <4>2. InEvent(stack'[t][1], c.event)
                BY <1>10, <2>1
            <4>3. QED
                BY <2>1, <2>3, <4>1, <4>2
        <3>3. MustAsk(c.event)' = MustAsk(c.event)
            BY <1>8 DEF MustAsk
        <3>4. QED
            BY <1>4, <2>1, <3>2, <3>3 DEF Heading
    <2>4. QED
        BY <2>2, <2>3 DEF Paid, InEvent
<1>14. QED
    BY <1>11, <1>12, <1>13 DEF Settling

\* The check c, inside its event, becomes calls of which at most the last, n, is inside.
LEMMA CheckPays ==
    ASSUME ConstantsAssumption, Structure, NEW M, Settling(M), NEW t \in Threads, NEW cs, Stepped(t, cs),
           NEW c, c = Top(t), c.op = "checkIfTriggered", c.at # "enter", c \in Checks,
           UNCHANGED <<actual, cached>>,
           \A e \in Events \ {c.event} : e \in active' <=> e \in active,
           \A k \in 1 .. Len(cs) : \A e \in Events : InEvent(cs[k], e) => k = Len(cs) /\ e = c.event,
           c.event \in Plain =>
               \A k \in 1 .. Len(cs) :
                   InEvent(cs[k], c.event) => (Heading(c, c.event) => Heading(cs[k], c.event)'),
           c.event \in Plain =>
               ((\A k \in 1 .. Len(cs) : ~ InEvent(cs[k], c.event)) => (Heading(c, c.event) => Right(c.event)'))
    PROVE  Settling(M)'
<1>1. InEvent(Top(t), c.event) /\ c.event \in Events
    BY DEF InEvent, Checks
<1>2. OneInEvent'
    <2>1. EventsFit(t, cs)
        BY <1>1 DEF EventsFit
    <2>2. QED
        BY <2>1, OneInEventKept DEF Settling
<1>3. ASSUME NEW e \in Plain \ M, e # c.event PROVE Paid(e)'
    BY <1>3, OtherEventsPaid
<1>4. ASSUME c.event \in Plain \ M PROVE Paid(c.event)'
    <2>1. OneInEvent /\ Paid(c.event)
        BY <1>4 DEF Settling
    <2>2. QED
        BY <1>1, <1>4, <2>1, PaidInside
<1>5. QED
    BY <1>2, <1>3, <1>4 DEF Settling

\* A check that runs elements, and waits for them at the point p.
LEMMA RunPays ==
    ASSUME ConstantsAssumption, Structure, NEW M, Settling(M), NEW t \in Threads, NEW els, NEW p,
           NEW c, c = Top(t), c.op = "checkIfTriggered", c.at = "test", c \in Checks,
           [c EXCEPT !.at = p, !.asked = {}] \in Checks, els \subseteq Element,
           Stepped(t, <<scheduleAll(els), [c EXCEPT !.at = p, !.asked = {}]>>),
           UNCHANGED <<actual, cached>>,
           \A e \in Events \ {c.event} : e \in active' <=> e \in active,
           c.event \in Plain /\ Heading(c, c.event) =>
               \/ p = "activate" /\ Condition(c.event)'
               \/ p = "leave" /\ c.event \notin active' /\ ~ Condition(c.event)'
    PROVE  Settling(M)'
<1>1. PICK x : x = scheduleAll(els)
    OBVIOUS
<1>2. PICK n : n = [c EXCEPT !.at = p, !.asked = {}]
    OBVIOUS
<1>3. x \in Call /\ x.op = "scheduleAll"
    BY <1>1, KindsAreCalls DEF scheduleAll, Profiles
<1>4. n \in Call /\ n.op = "checkIfTriggered" /\ n.at = p /\ n.event = c.event
    BY <1>2, KindsAreCalls DEF Checks
<1>5. PICK cs : cs = <<x, n>>
    OBVIOUS
<1>6. Stepped(t, <<x, n>>)
    BY <1>1, <1>2
<1>7. Len(cs) = 2 /\ cs[1] = x /\ cs[2] = n /\ Stepped(t, cs)
    BY <1>3, <1>4, <1>5, <1>6, TwoCalls
<1>8. \A k \in 1 .. Len(cs) : (k = 1 /\ cs[k] = x) \/ (k = 2 /\ cs[k] = n)
    BY <1>7
<1>9. \A e : ~ InEvent(x, e) /\ (InEvent(n, e) => e = c.event)
    BY <1>3, <1>4 DEF InEvent
<1>10. \A k \in 1 .. Len(cs) : \A e \in Events : InEvent(cs[k], e) => k = Len(cs) /\ e = c.event
    BY <1>7, <1>8, <1>9
<1>11. ASSUME c.event \in Plain, Heading(c, c.event), NEW k \in 1 .. Len(cs), InEvent(cs[k], c.event)
       PROVE  Heading(cs[k], c.event)'
    <2>1. cs[k] = n
        BY <1>8, <1>9, <1>11
    <2>2. \/ n.at = "activate" /\ Condition(c.event)'
          \/ n.at = "leave" /\ c.event \notin active' /\ ~ Condition(c.event)'
        BY <1>4, <1>11
    <2>3. QED
        BY <2>1, <2>2 DEF Heading
<1>12. ASSUME c.event \in Plain, Heading(c, c.event),
              \A k \in 1 .. Len(cs) : ~ InEvent(cs[k], c.event)
       PROVE  FALSE
    <2>1. n.at # "enter"
        BY <1>4, <1>12
    <2>2. 2 \in 1 .. Len(cs) /\ InEvent(cs[2], c.event)
        BY <1>4, <1>7, <2>1 DEF InEvent
    <2>3. QED
        BY <1>12, <2>2
<1>13. c.event \in Plain =>
           \A k \in 1 .. Len(cs) :
               InEvent(cs[k], c.event) => (Heading(c, c.event) => Heading(cs[k], c.event)')
    BY <1>11
<1>14. c.event \in Plain =>
           ((\A k \in 1 .. Len(cs) : ~ InEvent(cs[k], c.event))
               => (Heading(c, c.event) => Right(c.event)'))
    BY <1>12
<1>15. c.at # "enter" /\ Stepped(t, cs)
    BY <1>7
<1>16. QED
    BY <1>10, <1>13, <1>14, <1>15, CheckPays

\* A check that returns.
LEMMA ReturnPays ==
    ASSUME ConstantsAssumption, Structure, NEW M, Settling(M), NEW t \in Threads, Stepped(t, <<>>),
           NEW c, c = Top(t), c.op = "checkIfTriggered", c.at # "enter", c \in Checks,
           UNCHANGED <<actual, cached>>,
           \A e \in Events \ {c.event} : e \in active' <=> e \in active,
           c.event \in Plain /\ Heading(c, c.event) => (c.event \in active' <=> Condition(c.event)')
    PROVE  Settling(M)'
<1>1. PICK cs : cs = <<>>
    OBVIOUS
<1>2. Stepped(t, cs) /\ 1 .. Len(cs) = {}
    BY <1>1, NoCalls
<1>3. c.event \in Plain => (Heading(c, c.event) => Right(c.event)')
    BY DEF Right
<1>4. QED
    BY <1>2, <1>3, CheckPays
\* Met and not active: the profile runs on the way to being active.
LEMMA TriggerPays ==
    ASSUME ConstantsAssumption, Structure, NEW M, Settling(M), NEW t \in Threads, Trigger(t)
    PROVE  Settling(M)'
<1>1. PICK c : c = Top(t)
    OBVIOUS
<1>2. PICK p : p = "activate"
    OBVIOUS
<1>3. /\ c.op = "checkIfTriggered" /\ c.at = "test" /\ c \in Checks
      /\ [c EXCEPT !.at = p, !.asked = {}] \in Checks
      /\ eventTriggered(c.event, c.changed, c.asked)
      /\ Stepped(t, <<scheduleAll(profile[c.event]), [c EXCEPT !.at = p, !.asked = {}]>>)
    BY <1>1, <1>2, TriggerStep
<1>4. UNCHANGED <<actual, cached, active>>
    BY DEF Trigger
<1>5. profile[c.event] \subseteq Element
    BY <1>3 DEF Checks, ConstantsAssumption
<1>6. ASSUME c.event \in Plain, Heading(c, c.event) PROVE Condition(c.event)'
    <2>1. Condition(c.event)
        BY <1>3, <1>6, PlainCondition DEF Heading
    <2>2. QED
        BY <1>4, <2>1 DEF Condition, Known, MustAsk
<1>7. QED
    BY <1>1, <1>2, <1>3, <1>4, <1>5, <1>6, RunPays

\* Not met: the event is not active, and its inverted profile may run.
LEMMA DeactivatePays ==
    ASSUME ConstantsAssumption, Structure, NEW M, Settling(M), NEW t \in Threads, Deactivate(t)
    PROVE  Settling(M)'
<1>1. PICK c : c = Top(t)
    OBVIOUS
<1>2. PICK p : p = "leave"
    OBVIOUS
<1>3. /\ c.op = "checkIfTriggered" /\ c.at = "test" /\ c \in Checks
      /\ ~ eventTriggered(c.event, c.changed, c.asked) /\ active' = active \ {c.event}
      /\ \/ Stepped(t, <<>>)
         \/ /\ [c EXCEPT !.at = p, !.asked = {}] \in Checks
            /\ Stepped(t, <<scheduleAll(inverted[c.event]), [c EXCEPT !.at = p, !.asked = {}]>>)
    BY <1>1, <1>2, DeactivateStep
<1>4. UNCHANGED <<actual, cached>> /\ c.event \notin active'
      /\ \A e \in Events \ {c.event} : e \in active' <=> e \in active
    BY <1>3 DEF Deactivate
<1>5. inverted[c.event] \subseteq Element
    BY <1>3 DEF Checks, ConstantsAssumption
<1>6. ASSUME c.event \in Plain, Heading(c, c.event) PROVE ~ Condition(c.event)'
    <2>1. ~ Condition(c.event)
        BY <1>3, <1>6, PlainCondition DEF Heading
    <2>2. QED
        BY <1>4, <2>1 DEF Condition, Known, MustAsk
<1>7. CASE Stepped(t, <<>>)
    <2>1. c.at # "enter"
        BY <1>3
    <2>2. QED
        BY <1>1, <1>3, <1>4, <1>6, <1>7, <2>1, ReturnPays
<1>8. CASE /\ [c EXCEPT !.at = p, !.asked = {}] \in Checks
           /\ Stepped(t, <<scheduleAll(inverted[c.event]), [c EXCEPT !.at = p, !.asked = {}]>>)
    BY <1>1, <1>2, <1>3, <1>4, <1>5, <1>6, <1>8, RunPays
<1>9. QED
    BY <1>3, <1>7, <1>8

\* The profile has run, nothing had to be done, or the inverted profile has run.
LEMMA LeavingPays ==
    ASSUME ConstantsAssumption, Structure, NEW M, Settling(M), NEW t \in Threads,
           Activate(t) \/ StayActive(t) \/ LeaveEvent(t)
    PROVE  Settling(M)'
<1>1. PICK c : c = Top(t)
    OBVIOUS
<1>2. c.op = "checkIfTriggered" /\ c.at # "enter" /\ c \in Checks /\ Stepped(t, <<>>)
    BY <1>1, ActivateStep, StayActiveStep, LeaveEventStep
<1>3. UNCHANGED <<actual, cached>>
    BY DEF Activate, StayActive, LeaveEvent
<1>4. Condition(c.event)' <=> Condition(c.event)
    BY <1>3 DEF Condition, Known, MustAsk
<1>5. CASE Activate(t)
    <2>1. c.at = "activate" /\ active' = active \cup {c.event}
        BY <1>1, <1>5, ActivateStep
    <2>2. \A e \in Events \ {c.event} : e \in active' <=> e \in active
        BY <2>1
    <2>3. Heading(c, c.event) => (c.event \in active' <=> Condition(c.event)')
        BY <1>4, <2>1 DEF Heading
    <2>4. QED
        BY <1>1, <1>2, <1>3, <2>2, <2>3, ReturnPays
<1>6. CASE StayActive(t)
    <2>1. /\ c.at = "test" /\ eventTriggered(c.event, c.changed, c.asked) /\ c.event \in active
          /\ UNCHANGED active
        BY <1>1, <1>6, StayActiveStep DEF StayActive
    <2>2. c.event \in Plain /\ Heading(c, c.event) => (c.event \in active' <=> Condition(c.event)')
        BY <1>4, <2>1, PlainCondition DEF Heading
    <2>3. QED
        BY <1>1, <1>2, <1>3, <2>1, <2>2, ReturnPays
<1>7. CASE LeaveEvent(t)
    <2>1. c.at = "leave" /\ UNCHANGED active
        BY <1>1, <1>7, LeaveEventStep DEF LeaveEvent
    <2>2. Heading(c, c.event) => (c.event \in active' <=> Condition(c.event)')
        BY <1>4, <2>1 DEF Heading
    <2>3. QED
        BY <1>1, <1>2, <1>3, <2>1, <2>2, ReturnPays
<1>8. QED
    BY <1>5, <1>6, <1>7

\* The steps outside of the events.
LEMMA OutsidePays ==
    ASSUME ConstantsAssumption, Structure, NEW M, Settling(M), AsyncHeard, NEW t \in Threads,
           \/ IsLocked(t) /\ ~ Throw(t)
           \/ Apply(t) \/ SetLock(t) \/ LeaveDevice(t) \/ NextElement(t)
           \/ Execute(t) \/ Snapshot(t) \/ Compare(t) \/ Put(t) \/ NextEvent(t)
    PROVE  Settling(M)'
<1>1. PICK cs : StaysOutside(t, cs) /\ \A e \in Events : Passes(t, cs, e)
    BY OutsidePasses
<1>2. /\ Stepped(t, cs) /\ Top(t).op # "checkIfTriggered"
      /\ \A k \in 1 .. Len(cs) : \A e \in Events : ~ InEvent(cs[k], e)
    BY <1>1 DEF StaysOutside
<1>3. OneInEvent'
    <2>1. EventsFit(t, cs)
        BY <1>2 DEF EventsFit
    <2>2. QED
        BY <1>2, <2>1, OneInEventKept DEF Settling
<1>4. ASSUME NEW e \in Plain \ M PROVE Paid(e)'
    <2>1. e \in Events /\ Paid(e) /\ ~ InEvent(Top(t), e)
        BY <1>2 DEF Plain, Settling, InEvent
    <2>2. CASE \E k \in 1 .. Len(cs) : Owes(cs[k], e, MustAsk(e)')
        BY <1>2, <2>1, <2>2, StillOwed
    <2>3. CASE ~ Owes(Top(t), e, MustAsk(e)) /\ SameKnowledge(e)
        BY <1>2, <2>1, <2>3, PaidKept
    <2>4. QED
        BY <1>1, <2>1, <2>2, <2>3 DEF Passes
<1>5. QED
    BY <1>3, <1>4 DEF Settling
-----------------------------------------------------------------------------
(* The beginnings and the ends of what a thread does.                      *)

\* What is not about an event owes it nothing and is not inside it.
LEMMA Unconcerned ==
    ASSUME NEW c, NEW e \in Events, ~ Concerns(c, e)
    PROVE  ~ Owes(c, e, MustAsk(e)) /\ ~ InEvent(c, e)
BY DEF Concerns, Owes, MustAsk, EventsTriggeredBy, InEvent

\* An exception excepts the events that it may have cut a check short of, and changes
\* nothing for the others.
LEMMA ThrowPays ==
    ASSUME ConstantsAssumption, Structure, NEW M, Settling(M),
           NEW t \in Threads, IsLocked(t), Throw(t), NEW N,
           \A e \in Plain \ N : e \notin M /\ \A i \in DOMAIN stack[t] : ~ Concerns(stack[t][i], e)
    PROVE  Settling(N)'
<1>1. UNCHANGED <<actual, cached, active>>
    BY DEF IsLocked
<1>2. Restarted(t, <<>>)
    BY ThrowRestarts
<1>3. OneInEvent'
    BY <1>2, OneInEventRestarted DEF Settling
<1>4. ASSUME NEW e \in Plain \ N PROVE Paid(e)'
    <2>1. e \in Events /\ Paid(e) /\ SameKnowledge(e)
        BY <1>1 DEF Plain, Settling, SameKnowledge
    <2>2. \A i \in DOMAIN stack[t] : ~ Owes(stack[t][i], e, MustAsk(e)) /\ ~ InEvent(stack[t][i], e)
        BY <2>1, Unconcerned
    <2>3. QED
        BY <1>2, <2>1, <2>2, PaidRestarted
<1>5. QED
    BY <1>3, <1>4 DEF Settling

\* A request begins with nothing that an event waits for.
LEMMA RequestPays ==
    ASSUME ConstantsAssumption, Structure, NEW M, Settling(M), NEW u \in Users,
           ScheduleAction(u) \/ TriggerProfile(u)
    PROVE  Settling(M)'
<1>1. PICK s : Restarted(u, s)
    BY ScheduleActionRestarts, TriggerProfileRestarts DEF ScheduleAction, TriggerProfile
<1>2. UNCHANGED <<actual, cached, active>> /\ stack[u] = <<>>
    BY DEF ScheduleAction, TriggerProfile, Request
<1>3. OneInEvent'
    BY <1>1, OneInEventRestarted DEF Settling
<1>4. ASSUME NEW e \in Plain \ M PROVE Paid(e)'
    <2>1. e \in Events /\ Paid(e) /\ SameKnowledge(e)
        BY <1>2 DEF Plain, Settling, SameKnowledge
    <2>2. DOMAIN stack[u] = {}
        BY <1>2, NoCalls
    <2>3. QED
        BY <1>1, <2>1, <2>2, PaidRestarted
<1>5. QED
    BY <1>3, <1>4 DEF Settling

\* A poll changes what a device does: it owes the change to the events, if the node does
\* not know the device yet.
LEMMA PollPays ==
    ASSUME ConstantsAssumption, Structure, NEW M, Settling(M), NEW d \in Polled, Poll(d)
    PROVE  Settling(M)'
<1>1. PICK c : c = [op |-> "run", at |-> "snapshot", dev |-> d]
    OBVIOUS
<1>2. PICK s : s = <<c>>
    OBVIOUS
<1>3. /\ Restarted(d, s) /\ c \in Runs /\ d \in Devices
      /\ \E v \in Values : actual' = [actual EXCEPT ![d] = v]
    BY <1>1, <1>2, PollRestarts
<1>4. c \in Call /\ c.op = "run" /\ c.at = "snapshot" /\ c.dev = d
    BY <1>1, <1>3, KindsAreCalls
<1>5. s[1] = c /\ DOMAIN s = {1}
    BY <1>2, <1>4, OneCall
<1>6. UNCHANGED <<cached, active>> /\ stack[d] = <<>>
    BY DEF Poll
<1>7. \A x \in Devices \ {d} : actual'[x] = actual[x]
    BY <1>3 DEF Structure, Typed
<1>8. OneInEvent'
    BY <1>3, OneInEventRestarted DEF Settling
<1>9. ASSUME NEW e \in Plain \ M PROVE Paid(e)'
    <2>1. e \in Events /\ Paid(e) /\ MustAsk(e)' = MustAsk(e)
        BY <1>6 DEF Plain, Settling, MustAsk
    <2>2. DOMAIN stack[d] = {}
        BY <1>6, NoCalls
    <2>3. CASE d \in MustAsk(e)
        <3>1. \E i \in DOMAIN s : Owes(s[i], e, MustAsk(e)')
            BY <1>4, <1>5, <2>1, <2>3 DEF Owes
        <3>2. QED
            BY <1>3, <2>1, <2>2, <3>1, PaidRestarted
    <2>4. CASE d \notin MustAsk(e)
        <3>1. ASSUME NEW x \in DOMAIN when[e], cached[x] = None PROVE actual'[x] = actual[x]
            <4>1. x \in MustAsk(e) /\ x \in Devices
                BY <2>1, <3>1 DEF MustAsk, ConstantsAssumption
            <4>2. QED
                BY <1>7, <2>4, <4>1
        <3>2. SameKnowledge(e)
            BY <1>6, <3>1 DEF SameKnowledge
        <3>3. QED
            BY <1>3, <2>1, <2>2, <3>2, PaidRestarted
    <2>5. QED
        BY <2>3, <2>4
<1>10. QED
    BY <1>8, <1>9 DEF Settling
-----------------------------------------------------------------------------
(* The events are active exactly if their conditions are met.              *)

\* Nothing is under way at first, and no condition is met: the events are settled.
LEMMA InitSettling ==
    ASSUME ConstantsAssumption, UnmetAtFirst, Init
    PROVE  Settling({})
<1>1. \A t \in Threads : DOMAIN stack[t] = {}
    BY NoCalls DEF Init
<1>2. OneInEvent
    BY <1>1 DEF OneInEvent
<1>3. ASSUME NEW e \in Plain PROVE Paid(e)
    <2>1. \A d \in DOMAIN when[e] : Known(d, MustAsk(e)) = Initial[d]
        BY <1>3 DEF Known, MustAsk, Init, Plain, ConstantsAssumption
    <2>2. (\E d \in DOMAIN when[e] : cached[d] # None) => DOMAIN when[e] \cap Heard # {}
        BY <1>3 DEF Init, Plain, ConstantsAssumption
    <2>3. Right(e)
        <3>1. CASE DOMAIN when[e] \cap Heard = {}
            BY <2>2, <3>1 DEF Right
        <3>2. CASE DOMAIN when[e] \cap Heard # {}
            <4>1. ~ Condition(e)
                <5>1. CASE e \in requireAll
                    BY <1>3, <2>1, <3>2, <5>1 DEF Condition, UnmetAtFirst
                <5>2. CASE e \notin requireAll
                    BY <1>3, <2>1, <3>2, <5>2 DEF Condition, UnmetAtFirst
                <5>3. QED
                    BY <5>1, <5>2
            <4>2. e \notin active
                BY DEF Init
            <4>3. QED
                BY <4>1, <4>2 DEF Right
        <3>3. QED
            BY <3>1, <3>2
    <2>4. QED
        BY <1>1, <2>3 DEF Paid
<1>4. QED
    BY <1>2, <1>3 DEF Settling

\* Every step but an exception keeps what the events are owed.
LEMMA StepPays ==
    ASSUME ConstantsAssumption, RulesEnd, AsyncHeard, Structure, Ordered, NEW M, Settling(M),
           [Next]_vars, ~ \E t \in Threads : IsLocked(t) /\ Throw(t)
    PROVE  Settling(M)'
<1>1. ASSUME NEW t \in Threads, Step(t) PROVE Settling(M)'
    <2>1. CASE \/ IsLocked(t) /\ ~ Throw(t)
               \/ Apply(t) \/ SetLock(t) \/ LeaveDevice(t) \/ NextElement(t)
               \/ Execute(t) \/ Snapshot(t) \/ Compare(t) \/ Put(t) \/ NextEvent(t)
        BY <2>1, OutsidePays
    <2>2. CASE EnterEvent(t)
        <3>1. PICK D, E : Descends(D, E)
            BY DEF RulesEnd
        <3>2. Descending(D, E)
            BY <3>1 DEF Ordered
        <3>3. QED
            BY <2>2, <3>1, <3>2, EnterEventPays
    <2>3. CASE Trigger(t) \/ Deactivate(t) \/ Activate(t) \/ StayActive(t) \/ LeaveEvent(t)
        BY <2>3, TriggerPays, DeactivatePays, LeavingPays
    <2>4. QED
        BY <1>1, <2>1, <2>2, <2>3 DEF Step
<1>2. ASSUME NEW u \in Users, ScheduleAction(u) \/ TriggerProfile(u) PROVE Settling(M)'
    BY <1>2, RequestPays
<1>3. ASSUME NEW d \in Polled, Poll(d) PROVE Settling(M)'
    BY <1>3, PollPays
<1>4. CASE UNCHANGED vars
    <2>1. UNCHANGED <<actual, cached, active, stack>>
        BY <1>4 DEF vars
    <2>2. OneInEvent'
        BY <2>1 DEF Settling, OneInEvent, InEvent
    <2>3. ASSUME NEW e \in Plain \ M PROVE Paid(e)'
        <3>1. Paid(e)
            BY DEF Settling
        <3>2. Owed(e)' <=> Owed(e)
            BY <2>1 DEF Owed, Owes, MustAsk
        <3>3. (Inside(e)' <=> Inside(e)) /\ (Right(e)' <=> Right(e))
            BY <2>1 DEF Inside, InEvent, Right, Condition, Known, MustAsk
        <3>4. \A c : Heading(c, e)' <=> Heading(c, e)
            BY <2>1 DEF Heading, Condition, Known, MustAsk
        <3>5. QED
            BY <2>1, <3>1, <3>2, <3>3, <3>4 DEF Paid, InEvent, Heading
    <2>4. QED
        BY <2>2, <2>3 DEF Settling
<1>5. QED
    BY <1>1, <1>2, <1>3, <1>4 DEF Next

\* Two steps that change the calls of their threads are of the same thread.
LEMMA OneSteps ==
    ASSUME Structure, NEW t, NEW cs, Stepped(t, cs), NEW u, NEW ds, Stepped(u, ds),
           Len(ds) # 1 \/ ds[1] # Top(u)
    PROVE  t = u
<1> SUFFICES ASSUME t # u PROVE FALSE
    OBVIOUS
<1>1. /\ u \in Threads /\ stack'[u] = stack[u] /\ ds \in Seq(Call) /\ stack[u] \in Seq(Call)
      /\ Len(stack'[u]) = Len(ds) + Len(stack[u]) - 1
      /\ \A k \in 1 .. Len(ds) : stack'[u][k] = ds[k]
    BY DEF Stepped, Became, Structure, Typed
<1>2. Len(ds) = 1
    <2>1. Len(ds) \in Nat
        BY <1>1, LenProperties
    <2>2. Len(stack[u]) \in Nat
        BY <1>1, LenProperties
    <2>3. Len(stack[u]) = Len(ds) + Len(stack[u]) - 1
        BY <1>1, Zenon
    <2>4. PICK m \in Nat, n \in Nat : m = Len(ds) /\ n = Len(stack[u])
        BY <2>1, <2>2
    <2>5. n = m + n - 1
        BY <2>3, <2>4
    <2>6. m = 1
        BY <2>5
    <2>7. QED
        BY <2>4, <2>6
<1>3. stack[u][1] = ds[1]
    BY <1>1, <1>2
<1>4. stack[u][1] = Top(u)
    BY TopCall DEF Stepped, Became, Structure
<1>5. QED
    BY <1>2, <1>3, <1>4

\* Two checks do not begin in the same step.
LEMMA OneEnters ==
    ASSUME ConstantsAssumption, Structure, NEW t \in Threads, EnterEvent(t),
           NEW u \in Threads, EnterEvent(u)
    PROVE  t = u
<1>1. ASSUME NEW v \in Threads, EnterEvent(v)
      PROVE  \E cs : Stepped(v, cs) /\ Len(cs) = 1 /\ cs[1] # Top(v)
    <2>1. PICK c : c = Top(v)
        OBVIOUS
    <2>2. PICK n : n = [c EXCEPT !.at = "test", !.asked = MustAsk(c.event)]
        OBVIOUS
    <2>3. /\ c.op = "checkIfTriggered" /\ c.at = "enter" /\ c \in Checks /\ n \in Checks
          /\ Stepped(v, <<n>>)
        BY <1>1, <2>1, <2>2, EnterEventStep
    <2>4. n.at = "test" /\ n \in Call
        BY <2>2, <2>3, KindsAreCalls DEF Checks
    <2>5. PICK cs : cs = <<n>>
        OBVIOUS
    <2>6. Len(cs) = 1 /\ cs[1] = n /\ Stepped(v, cs)
        BY <2>3, <2>4, <2>5, OneCall
    <2>7. QED
        BY <2>1, <2>3, <2>4, <2>6
<1>2. PICK cs : Stepped(t, cs)
    BY <1>1
<1>3. PICK ds : Stepped(u, ds) /\ Len(ds) = 1 /\ ds[1] # Top(u)
    BY <1>1
<1>4. QED
    BY <1>2, <1>3, OneSteps

\* The history only watches.
LEMMA HistoryWatches == [HNext]_historyVars => [Next]_vars
BY DEF HNext, historyVars

\* Every step keeps what the events are owed that no exception has cut a check short of.
LEMMA NextSettling ==
    ASSUME ConstantsAssumption, RulesEnd, AsyncHeard, Structure, Ordered, Settling(missed),
           [HNext]_historyVars
    PROVE  Settling(missed)'
<1>1. PICK M : M = missed
    OBVIOUS
<1>2. PICK N : N = missed'
    OBVIOUS
<1>3. Settling(M)
    BY <1>1 DEF Settling
<1>4. ASSUME NEW e \in Plain \ N
      PROVE  /\ e \notin M \/ \E u \in Threads : EnterEvent(u) /\ Top(u).event = e
             /\ \A t \in Threads : IsLocked(t) /\ Throw(t) =>
                    \A i \in DOMAIN stack[t] : ~ Concerns(stack[t][i], e)
    <2>1. CASE HNext
        BY <1>1, <1>2, <1>4, <2>1 DEF HNext, Cuts, BeginsCheck, Plain
    <2>2. CASE UNCHANGED historyVars
        <3>1. missed' = missed /\ UNCHANGED stack
            BY <2>2 DEF historyVars, vars
        <3>2. ASSUME NEW t \in Threads, IsLocked(t), Throw(t) PROVE FALSE
            <4>1. stack[t] # <<>> /\ stack'[t] = <<>>
                BY <3>2 DEF IsLocked, At, Throw, Structure, Typed
            <4>2. QED
                BY <3>1, <4>1
        <3>3. QED
            BY <1>1, <1>2, <3>1, <3>2
    <2>3. QED
        BY <2>1, <2>2
<1>5. Settling(N)'
    <2>1. CASE \E t \in Threads : EnterEvent(t)
        <3>1. PICK t \in Threads : EnterEvent(t)
            BY <2>1
        <3>2. PICK Q : Q = N \cup (M \ Plain)
            OBVIOUS
        <3>3. M \subseteq Q \cup {Top(t).event}
            BY <1>4, <3>1, <3>2, OneEnters
        <3>4. PICK D, E : Descends(D, E)
            BY DEF RulesEnd
        <3>5. Descending(D, E)
            BY <3>4 DEF Ordered
        <3>6. Settling(Q)'
            BY <1>3, <3>1, <3>3, <3>4, <3>5, EnterEventPays
        <3>7. QED
            BY <3>2, <3>6 DEF Settling
    <2>2. CASE ~ \E t \in Threads : EnterEvent(t)
        <3>1. \A e \in Plain \ N : e \notin M
            BY <1>4, <2>2
        <3>2. CASE \E t \in Threads : IsLocked(t) /\ Throw(t)
            BY <1>3, <1>4, <3>1, <3>2, ThrowPays
        <3>3. CASE ~ \E t \in Threads : IsLocked(t) /\ Throw(t)
            <4>1. Settling(M)'
                BY <1>3, <3>3, StepPays, HistoryWatches
            <4>2. QED
                BY <3>1, <4>1 DEF Settling
        <3>4. QED
            BY <3>2, <3>3
    <2>3. QED
        BY <2>1, <2>2
<1>6. QED
    BY <1>2, <1>5 DEF Settling

\* What is paid is right as soon as nothing is on its way.
LEMMA SettledIsRight ==
    ASSUME ConstantsAssumption, Settling(missed)
    PROVE  ActiveIffMet
<1> SUFFICES ASSUME NEW e \in Events \ missed, Settled(e), \A d \in Devices : <<e, d>> \notin onChange
             PROVE  e \in active <=> \A d \in Devices : eventTriggered(e, d, MustAsk(e))
    BY DEF ActiveIffMet
<1>1. e \in Plain /\ e \notin missed
    BY DEF Plain
<1>2. \A t \in Threads : \A i \in DOMAIN stack[t] : ~ Concerns(stack[t][i], e)
    BY DEF Settled
<1>3. ~ Owed(e) /\ ~ Inside(e)
    BY <1>2, Unconcerned DEF Owed, Inside
<1>4. Right(e)
    BY <1>1, <1>3 DEF Settling, Paid
<1>5. e \in active <=> Condition(e)
    BY <1>4 DEF Right, Settled
<1>6. \E d \in Devices : TRUE
    BY DEF ConstantsAssumption
<1>7. \A d \in Devices : eventTriggered(e, d, MustAsk(e)) <=> Condition(e)
    BY <1>1, PlainCondition
<1>8. QED
    BY <1>5, <1>6, <1>7

\* Whenever nothing is on its way to an event, it is active exactly if its condition holds
\* of what the node knows, whatever the order in which threads stored, checked and ran
\* profiles (EventHandler.java:25, EventProcessingService.java:56-89), also after exceptions
\* of locked devices; an event that one may have cost a check is excepted until its next.
\* It takes that no chain of rules goes on for ever, that a device which does not report
\* after execute has reported before, and that no event was met before the process began.
THEOREM ActiveExactlyIfMet ==
    ASSUME RulesEnd, AsyncHeard, UnmetAtFirst
    PROVE  HSpec => []ActiveIffMet
<1> DEFINE I == Structure /\ Ordered /\ Settling(missed)
<1>1. HInit => I
    <2> SUFFICES ASSUME HInit PROVE I
        OBVIOUS
    <2>1. Structure /\ Ordered /\ Settling({})
        BY ConstantsAssumption, InitStructure, InitDescending, InitSettling DEF HInit, Ordered
    <2>2. QED
        BY <2>1 DEF HInit, Settling
<1>2. I /\ [HNext]_historyVars => I'
    <2> SUFFICES ASSUME I, [HNext]_historyVars PROVE I'
        OBVIOUS
    <2>1. Structure' /\ Ordered'
        BY ConstantsAssumption, HistoryWatches, NextStructure, NextOrdered
    <2>2. Settling(missed)'
        BY ConstantsAssumption, NextSettling
    <2>3. QED
        BY <2>1, <2>2
<1>3. I => ActiveIffMet
    BY ConstantsAssumption, SettledIsRight
<1>4. QED
    BY <1>1, <1>2, <1>3, PTL DEF HSpec

-----------------------------------------------------------------------------
(* The outputs of an event: what is to be set, and who sets it.            *)

\* The events whose outputs nobody else sets, and these outputs.
Leads == {e \in unTrigger : Driven(e)}

Outputs(e) == {el.dev : el \in profile[e] \cup inverted[e]}

\* The call c sets the device d to v, or has done so; it has still to do so.
Sets(c, d, v) ==
    \/ c.op = "scheduleAll" /\ \E el \in c.todo : el.dev = d /\ el.val = v
    \/ c.op = "scheduleAction" /\ c.el.dev = d /\ c.el.val = v
    \/ c.op = "execute" /\ c.dev = d /\ c.val = v

ToSet(c, d, v) == Sets(c, d, v) /\ c.at \notin {"lock", "leave"}

\* The check c has called a profile of the event e, and will make it active.
RunsProfile(c, e) == c.op = "checkIfTriggered" /\ c.at \in {"activate", "leave"} /\ c.event = e

Activates(c, e) == c.op = "checkIfTriggered" /\ c.at = "activate" /\ c.event = e

Activating(e) == \E t \in Threads : \E i \in DOMAIN stack[t] : Activates(stack[t][i], e)

\* What the outputs of e are to be, ...
Wanted(e) == IF e \in active \/ Activating(e) THEN profile[e] ELSE inverted[e]

\* ... the call at depth i is called by a check that runs a profile of e, ...
Under(t, i, e) == \E j \in DOMAIN stack[t] : i < j /\ RunsProfile(stack[t][j], e)

\* ... and what sets the outputs sets them on behalf of e; if e is not one of the events M,
\* it sets them to what they are to be, and they are that, or a call has still to set them.
Following(e, M) ==
    /\ \A t \in Threads : \A i \in DOMAIN stack[t] : \A d \in Outputs(e), v \in Values :
           Sets(stack[t][i], d, v) =>
               (e \in M \/ \E el \in Wanted(e) : el.dev = d /\ el.val = v) /\ Under(t, i, e)
    /\ e \in M \/ \A el \in Wanted(e) :
           \/ actual[el.dev] = el.val
           \/ \E t \in Threads : \E i \in DOMAIN stack[t] : ToSet(stack[t][i], el.dev, el.val)

\* The elements of such an event.
LEMMA OutputFacts ==
    ASSUME ConstantsAssumption, OutputsApart, NEW e \in Leads
    PROVE  /\ e \in Events /\ e \in unTrigger
           /\ Outputs(e) \subseteq Devices /\ Outputs(e) \cap Polled = {}
           /\ \A el \in profile[e] \cup inverted[e] :
                  el \in Element /\ el \in ProfileElements /\ el.dev \in Outputs(e) /\ el.val \in Values
           /\ \A els \in {profile[e], inverted[e]} : \A el, g \in els :
                  g.dev = el.dev => g.val = el.val
           /\ \A c \in Commands : c.dev \notin Outputs(e)
           /\ \A f \in Events : \A g \in profile[f] \cup inverted[f] : g.dev \in Outputs(e) => f = e
           /\ e \notin Triggered
<1>1. e \in unTrigger /\ Driven(e) /\ e \in Events
    BY DEF Leads, ConstantsAssumption
<1>2. profile[e] \cup inverted[e] \subseteq Element /\ profile[e] \cup inverted[e] \subseteq ProfileElements
    BY <1>1 DEF ConstantsAssumption, ProfileElements
<1>3. \A el \in profile[e] \cup inverted[e] :
          /\ el.val # None /\ el.dev \notin Polled
          /\ \A f \in Events : \A g \in profile[f] \cup inverted[f] : g.dev = el.dev => f = e
    BY <1>1, Zenon DEF OutputsApart
<1>4. \A els \in {profile[e], inverted[e]} : \A el, g \in els : g.dev = el.dev => g.val = el.val
    BY <1>1, Zenon DEF OutputsApart
<1>5. \A el \in profile[e] \cup inverted[e] : el.dev \in Devices /\ el.val \in Values
    BY <1>2, <1>3 DEF Element
<1>6. \A c \in Commands : c.dev \notin Outputs(e)
    BY <1>1 DEF Driven, Outputs
<1>7. Outputs(e) \subseteq Devices /\ Outputs(e) \cap Polled = {}
    BY <1>3, <1>5 DEF Outputs
<1>8. \A el \in profile[e] \cup inverted[e] : el.dev \in Outputs(e)
    BY DEF Outputs
<1>9. \A f \in Events : \A g \in profile[f] \cup inverted[f] : g.dev \in Outputs(e) => f = e
    BY <1>3 DEF Outputs
<1>10. e \notin Triggered
    BY <1>1 DEF Driven
<1>11. QED
    BY <1>1, <1>2, <1>4, <1>5, <1>6, <1>7, <1>8, <1>9, <1>10

\* Arithmetic of depths: what lay under a call lies under what has become of it.
LEMMA Deeper ==
    ASSUME NEW m \in Nat, NEW n \in Nat, NEW k, k = m + n - 1,
           NEW i \in 1 .. n, NEW j \in 1 .. n, i < j, NEW l, l \in 1 .. m \/ l = i + m - 1
    PROVE  LET x == j + m - 1 IN x \in m + 1 .. k /\ x \in 1 .. k /\ l < x /\ x - m + 1 = j
OBVIOUS

\* A call that a profile of e has called still is, and so is what it has become.
LEMMA StillUnder ==
    ASSUME Structure, NEW t, NEW cs, Stepped(t, cs), NEW u \in Threads, NEW l \in DOMAIN stack'[u],
           NEW e
    PROVE  \/ /\ u = t /\ l \in 1 .. Len(cs) /\ stack'[u][l] = cs[l]
              /\ Under(t, 1, e) => Under(u, l, e)'
           \/ \E i \in DOMAIN stack[u] :
                 /\ ~ (u = t /\ i = 1) /\ stack'[u][l] = stack[u][i]
                 /\ Under(u, i, e) => Under(u, l, e)'
<1>1. CASE u # t
    <2>1. stack'[u] = stack[u]
        BY <1>1 DEF Stepped, Became
    <2>2. \A i : Under(u, i, e) => Under(u, i, e)'
        BY <2>1 DEF Under, RunsProfile
    <2>3. QED
        BY <1>1, <2>1, <2>2
<1>2. CASE u = t
    <2>1. /\ Became(t, cs) /\ Typed
          /\ stack[t] \in Seq(Call) /\ stack'[t] \in Seq(Call) /\ t \in Threads
        BY TopCall DEF Structure, Stepped, Became
    <2>2. PICK m : m = Len(cs)
        OBVIOUS
    <2>3. PICK n : n = Len(stack[t])
        OBVIOUS
    <2>4. PICK k : k = Len(stack'[t])
        OBVIOUS
    <2>5. /\ m \in Nat /\ n \in Nat \ {0} /\ k \in Nat /\ k = m + n - 1
          /\ DOMAIN stack[t] = 1 .. n /\ DOMAIN stack'[t] = 1 .. k
        <3>1. cs \in Seq(Call) /\ stack[t] # <<>> /\ Len(stack'[t]) = Len(cs) + Len(stack[t]) - 1
            BY <2>1 DEF Became
        <3>2. Len(cs) \in Nat /\ Len(stack[t]) \in Nat \ {0} /\ Len(stack'[t]) \in Nat
            BY <2>1, <3>1, TopCall, LenProperties
        <3>3. QED
            BY <2>1, <2>2, <2>3, <2>4, <3>1, <3>2
    <2>6. \A x \in m + 1 .. k : stack'[t][x] = stack[t][x - m + 1]
        BY <2>1, <2>2, <2>4 DEF Became
    <2>7. ASSUME NEW i \in 1 .. n, l \in 1 .. m \/ l = i + m - 1, Under(t, i, e)
          PROVE  Under(t, l, e)'
        <3>1. PICK j \in 1 .. n : i < j /\ RunsProfile(stack[t][j], e)
            BY <2>5, <2>7 DEF Under
        <3>2. PICK x : x = j + m - 1
            OBVIOUS
        <3>3. x \in m + 1 .. k /\ x \in 1 .. k /\ l < x /\ x - m + 1 = j
            BY <2>5, <2>7, <3>1, <3>2, Deeper
        <3>4. stack'[t][x] = stack[t][j]
            BY <2>6, <3>3
        <3>5. QED
            BY <2>5, <3>1, <3>3, <3>4 DEF Under, RunsProfile
    <2>8. l \in 1 .. Len(stack'[t])
        BY <1>2, <2>4, <2>5
    <2>9. CASE l \in 1 .. Len(cs) /\ stack'[t][l] = cs[l]
        <3>1. 1 \in 1 .. n /\ l \in 1 .. m
            BY <2>2, <2>5, <2>9
        <3>2. QED
            BY <1>2, <2>7, <2>9, <3>1
    <2>10. CASE /\ l > Len(cs) /\ l - Len(cs) + 1 \in 2 .. Len(stack[t])
                /\ stack'[t][l] = stack[t][l - Len(cs) + 1]
        <3>1. PICK i : i = l - m + 1
            OBVIOUS
        <3>2. i \in 2 .. n /\ stack'[t][l] = stack[t][i]
            BY <2>2, <2>3, <2>10, <3>1
        <3>3. i \in 1 .. n /\ i # 1 /\ l = i + m - 1
            <4>1. l \in 1 .. k
                BY <2>4, <2>8
            <4>2. QED
                BY <2>5, <3>1, <3>2, <4>1
        <3>4. Under(t, i, e) => Under(t, l, e)'
            BY <2>7, <3>3
        <3>5. QED
            BY <1>2, <2>5, <3>2, <3>3, <3>4
    <2>11. QED
        BY <2>1, <2>8, <2>9, <2>10, BecameFrom
<1>3. QED
    BY <1>1, <1>2

-----------------------------------------------------------------------------
(* How the outputs follow their event from step to step.                   *)

\* The step sets outputs of e only as its top call does, and does or leaves to the new calls
\* what the top call had to do, if e is not one of the events M.
Relays(t, cs, e, M) ==
    /\ \A k \in 1 .. Len(cs) : \A d \in Outputs(e), v \in Values :
           Sets(cs[k], d, v) => Sets(Top(t), d, v)
    /\ \A d \in Outputs(e), v \in Values : ToSet(Top(t), d, v) =>
           e \in M \/ actual'[d] = v \/ \E k \in 1 .. Len(cs) : ToSet(cs[k], d, v)
    /\ \A d \in Outputs(e) : actual'[d] = actual[d] \/ Sets(Top(t), d, actual'[d])

\* What it takes after a step.
LEMMA FollowingNext ==
    ASSUME NEW e, NEW M,
           \A u \in Threads : \A l \in DOMAIN stack'[u] : \A d \in Outputs(e), v \in Values :
               Sets(stack'[u][l], d, v) =>
                   (e \in M \/ \E el \in Wanted(e)' : el.dev = d /\ el.val = v) /\ Under(u, l, e)',
           e \in M \/ \A el \in Wanted(e)' :
               \/ actual'[el.dev] = el.val
               \/ \E u \in Threads : \E l \in DOMAIN stack'[u] : ToSet(stack'[u][l], el.dev, el.val)
    PROVE  Following(e, M)'
BY Zenon DEF Following, Sets, ToSet, Outputs

\* The outputs follow their event as long as the steps relay.
LEMMA FollowingKept ==
    ASSUME ConstantsAssumption, OutputsApart, Structure, NEW e \in Leads, NEW M, Following(e, M),
           actual' \in [Devices -> Values],
           NEW t, NEW cs, Stepped(t, cs), Wanted(e)' = Wanted(e), Relays(t, cs, e, M)
    PROVE  Following(e, M)'
<1>1. PICK c : c = Top(t)
    OBVIOUS
<1>2. t \in Threads /\ 1 \in DOMAIN stack[t] /\ stack[t][1] = c
    BY <1>1, TopCall DEF Stepped, Became, Structure
<1>3. PICK W : W = Wanted(e)
    OBVIOUS
<1>4. W \in {profile[e], inverted[e]} /\ Wanted(e)' = W
    BY <1>3 DEF Wanted
<1>5. \A d \in Outputs(e), v \in Values : Sets(c, d, v) =>
          (e \in M \/ \E el \in W : el.dev = d /\ el.val = v) /\ Under(t, 1, e)
    BY <1>2, <1>3 DEF Following
<1>6. ASSUME NEW u \in Threads, NEW l \in DOMAIN stack'[u], NEW d \in Outputs(e), NEW v \in Values,
             Sets(stack'[u][l], d, v)
      PROVE  (e \in M \/ \E el \in W : el.dev = d /\ el.val = v) /\ Under(u, l, e)'
    <2>1. CASE u = t /\ l \in 1 .. Len(cs) /\ stack'[u][l] = cs[l] /\ (Under(t, 1, e) => Under(u, l, e)')
        <3>1. Sets(c, d, v)
            BY <1>1, <1>6, <2>1 DEF Relays
        <3>2. QED
            BY <1>5, <2>1, <3>1
    <2>2. ASSUME NEW i \in DOMAIN stack[u], stack'[u][l] = stack[u][i],
                 Under(u, i, e) => Under(u, l, e)'
          PROVE  (e \in M \/ \E el \in W : el.dev = d /\ el.val = v) /\ Under(u, l, e)'
        <3>1. Sets(stack[u][i], d, v)
            BY <1>6, <2>2
        <3>2. QED
            BY <1>3, <2>2, <3>1 DEF Following
    <2>3. QED
        BY <2>1, <2>2, StillUnder
<1>7. ASSUME e \notin M, NEW el \in W
      PROVE  \/ actual'[el.dev] = el.val
             \/ \E u \in Threads : \E l \in DOMAIN stack'[u] : ToSet(stack'[u][l], el.dev, el.val)
    <2>1. el.dev \in Outputs(e) /\ el.val \in Values /\ el.dev \in Devices
        BY <1>4, <1>7, OutputFacts
    <2>2. CASE actual[el.dev] = el.val
        <3>1. CASE actual'[el.dev] = actual[el.dev]
            BY <2>2, <3>1
        <3>2. CASE Sets(c, el.dev, actual'[el.dev])
            <4>1. actual'[el.dev] \in Values
                BY <2>1
            <4>2. PICK g \in W : g.dev = el.dev /\ g.val = actual'[el.dev]
                BY <1>5, <1>7, <2>1, <3>2, <4>1
            <4>3. g.val = el.val
                BY <1>4, <1>7, <4>2, OutputFacts
            <4>4. QED
                BY <4>2, <4>3
        <3>3. QED
            BY <1>1, <2>1, <3>1, <3>2 DEF Relays
    <2>3. ASSUME NEW u \in Threads, NEW i \in DOMAIN stack[u], ToSet(stack[u][i], el.dev, el.val)
          PROVE  \/ actual'[el.dev] = el.val
                 \/ \E w \in Threads : \E l \in DOMAIN stack'[w] : ToSet(stack'[w][l], el.dev, el.val)
        <3>1. CASE u = t /\ i = 1
            <4>1. ToSet(c, el.dev, el.val)
                BY <1>2, <2>3, <3>1
            <4>2. \/ actual'[el.dev] = el.val
                  \/ \E k \in 1 .. Len(cs) : ToSet(cs[k], el.dev, el.val)
                BY <1>1, <1>7, <2>1, <4>1 DEF Relays
            <4>3. ASSUME NEW k \in 1 .. Len(cs), ToSet(cs[k], el.dev, el.val)
                  PROVE  \E l \in DOMAIN stack'[t] : ToSet(stack'[t][l], el.dev, el.val)
                <5>1. k \in DOMAIN stack'[t] /\ stack'[t][k] = cs[k]
                    BY NewStay
                <5>2. QED
                    BY <4>3, <5>1
            <4>4. QED
                BY <1>2, <4>2, <4>3
        <3>2. CASE ~ (u = t /\ i = 1)
            <4>1. PICK l \in DOMAIN stack'[u] : stack'[u][l] = stack[u][i]
                BY <3>2, OldStay
            <4>2. QED
                BY <2>3, <4>1
        <3>3. QED
            BY <3>1, <3>2
    <2>4. QED
        BY <1>3, <1>7, <2>2, <2>3 DEF Following
<1>8. Wanted(e)' = W
    BY <1>4
<1>9. \A u \in Threads : \A l \in DOMAIN stack'[u] : \A d \in Outputs(e), v \in Values :
          Sets(stack'[u][l], d, v) =>
              (e \in M \/ \E el \in Wanted(e)' : el.dev = d /\ el.val = v) /\ Under(u, l, e)'
    BY <1>6, <1>8
<1>10. e \in M \/ \A el \in Wanted(e)' :
           \/ actual'[el.dev] = el.val
           \/ \E u \in Threads : \E l \in DOMAIN stack'[u] : ToSet(stack'[u][l], el.dev, el.val)
    BY <1>7, <1>8
<1>11. QED
    BY <1>9, <1>10, FollowingNext

\* What the outputs are to be changes with the event only.
LEMMA WantedKept ==
    ASSUME Structure, NEW e, NEW t, NEW cs, Stepped(t, cs), e \in active' <=> e \in active,
           ~ Activates(Top(t), e), \A k \in 1 .. Len(cs) : ~ Activates(cs[k], e)
    PROVE  Wanted(e)' = Wanted(e)
<1>1. t \in Threads /\ 1 \in DOMAIN stack[t] /\ stack[t][1] = Top(t)
    BY TopCall DEF Stepped, Became, Structure
<1>2. ASSUME NEW u \in Threads, NEW i \in DOMAIN stack[u], Activates(stack[u][i], e)
      PROVE  \E l \in DOMAIN stack'[u] : Activates(stack'[u][l], e)
    <2>1. ~ (u = t /\ i = 1)
        BY <1>1, <1>2
    <2>2. PICK l \in DOMAIN stack'[u] : stack'[u][l] = stack[u][i]
        BY <2>1, OldStay
    <2>3. QED
        BY <1>2, <2>2
<1>3. ASSUME NEW u \in Threads, NEW l \in DOMAIN stack'[u], Activates(stack'[u][l], e)
      PROVE  \E i \in DOMAIN stack[u] : Activates(stack[u][i], e)
    <2>1. ~ (u = t /\ l \in 1 .. Len(cs) /\ stack'[u][l] = cs[l])
        BY <1>3
    <2>2. PICK i \in DOMAIN stack[u] : stack'[u][l] = stack[u][i]
        BY <2>1, NoOthers
    <2>3. QED
        BY <1>3, <2>2
<1>4. Activating(e)' <=> Activating(e)
    BY <1>2, <1>3, Zenon DEF Activating, Activates
<1>5. QED
    BY <1>4 DEF Wanted

\* The check of e begins a profile: nothing was setting the outputs, and the profile will.
LEMMA FollowingStarts ==
    ASSUME ConstantsAssumption, OutputsApart, Structure, OneInEvent, NEW e \in Leads,
           NEW M, Following(e, M),
           NEW t, NEW cs, Stepped(t, cs), InEvent(Top(t), e), ~ RunsProfile(Top(t), e), Len(cs) = 2,
           cs[1].op = "scheduleAll", cs[1].at = "next", cs[1].todo = Wanted(e)',
           RunsProfile(cs[2], e), NEW N
    PROVE  Following(e, N)'
<1>1. PICK W : W = Wanted(e)'
    OBVIOUS
<1>2. W \in {profile[e], inverted[e]}
    BY <1>1 DEF Wanted
<1>3. t \in Threads /\ 1 \in DOMAIN stack[t] /\ stack[t][1] = Top(t)
    BY TopCall DEF Stepped, Became, Structure
<1>4. e \in Events
    BY OutputFacts
<1>5. ASSUME NEW u \in Threads, NEW i \in DOMAIN stack[u], NEW d \in Outputs(e), NEW v \in Values
      PROVE  ~ Sets(stack[u][i], d, v)
    <2> SUFFICES ASSUME Sets(stack[u][i], d, v) PROVE FALSE
        OBVIOUS
    <2>1. PICK j \in DOMAIN stack[u] : i < j /\ RunsProfile(stack[u][j], e)
        BY DEF Following, Under
    <2>2. InEvent(stack[u][j], e)
        BY <2>1 DEF RunsProfile, InEvent
    <2>3. u = t /\ j = 1
        BY <1>3, <1>4, <2>2 DEF OneInEvent
    <2>4. stack[u] \in Seq(Call)
        BY DEF Structure, Typed
    <2>5. i \in Nat /\ i >= 1
        BY <2>4, LenProperties
    <2>6. QED
        BY <2>1, <2>3, <2>5
<1>6. /\ 1 \in DOMAIN stack'[t] /\ stack'[t][1] = cs[1]
      /\ 2 \in DOMAIN stack'[t] /\ stack'[t][2] = cs[2]
    <2>1. \A k \in 1 .. Len(cs) : k \in DOMAIN stack'[t] /\ stack'[t][k] = cs[k]
        BY NewCallsStay
    <2>2. 1 \in 1 .. Len(cs) /\ 2 \in 1 .. Len(cs)
        OBVIOUS
    <2>3. QED
        BY <2>1, <2>2
<1>7. ASSUME NEW u \in Threads, NEW l \in DOMAIN stack'[u], NEW d \in Outputs(e), NEW v \in Values,
             Sets(stack'[u][l], d, v)
      PROVE  (\E el \in W : el.dev = d /\ el.val = v) /\ Under(u, l, e)'
    <2>1. u = t /\ l \in 1 .. Len(cs) /\ stack'[u][l] = cs[l]
        <3>1. ~ \E i \in DOMAIN stack[u] : stack'[u][l] = stack[u][i]
            BY <1>5, <1>7
        <3>2. QED
            BY <3>1, NoOthers
    <2>2. l # 2
        BY <1>7, <2>1 DEF Sets, RunsProfile
    <2>3. l = 1
        BY <2>1, <2>2
    <2>4. \E el \in W : el.dev = d /\ el.val = v
        BY <1>1, <1>7, <2>1, <2>3 DEF Sets
    <2>5. Under(t, 1, e)'
        BY <1>6 DEF Under, RunsProfile
    <2>6. QED
        BY <2>1, <2>3, <2>4, <2>5
<1>8. ASSUME NEW el \in W
      PROVE  \E u \in Threads : \E l \in DOMAIN stack'[u] : ToSet(stack'[u][l], el.dev, el.val)
    <2>1. ToSet(cs[1], el.dev, el.val)
        BY <1>1, <1>8 DEF ToSet, Sets
    <2>2. QED
        BY <1>3, <1>6, <2>1
<1>9. QED
    BY <1>1, <1>7, <1>8, FollowingNext

\* A thread begins or ends nothing that is about the outputs.
LEMMA FollowingRestarted ==
    ASSUME ConstantsAssumption, OutputsApart, Structure, NEW e \in Leads, NEW M, Following(e, M),
           NEW t, NEW s, Restarted(t, s), UNCHANGED active,
           \A d \in Outputs(e) : actual'[d] = actual[d],
           e \notin M => \A i \in DOMAIN stack[t] : ~ Activates(stack[t][i], e) /\
               \A d \in Outputs(e), v \in Values : ~ ToSet(stack[t][i], d, v),
           \A i \in DOMAIN s : \A d \in Outputs(e), v \in Values : ~ Sets(s[i], d, v)
    PROVE  Following(e, M)'
<1>1. /\ t \in Threads /\ stack'[t] = s /\ DOMAIN s \subseteq {1}
      /\ \A u \in Threads \ {t} : stack'[u] = stack[u]
      /\ \A i \in DOMAIN s : \A f \in Events : ~ InEvent(s[i], f)
    BY AfterRestart
<1>2. e \in Events
    BY OutputFacts
<1>3. e \notin M => (Activating(e)' <=> Activating(e))
    <2>1. \A i \in DOMAIN s : ~ Activates(s[i], e)
        BY <1>1, <1>2 DEF Activates, InEvent
    <2>2. QED
        BY <1>1, <2>1 DEF Activating, Activates
<1>4. PICK W : W = Wanted(e)
    OBVIOUS
<1>5. e \notin M => W = Wanted(e)'
    BY <1>3, <1>4 DEF Wanted
<1>6. ASSUME NEW u \in Threads, NEW l \in DOMAIN stack'[u], NEW d \in Outputs(e), NEW v \in Values,
             Sets(stack'[u][l], d, v)
      PROVE  (e \in M \/ \E el \in W : el.dev = d /\ el.val = v) /\ Under(u, l, e)'
    <2>1. u # t
        BY <1>1, <1>6
    <2>2. stack'[u] = stack[u]
        BY <1>1, <2>1
    <2>3. (e \in M \/ \E el \in W : el.dev = d /\ el.val = v) /\ Under(u, l, e)
        BY <1>4, <1>6, <2>2 DEF Following
    <2>4. QED
        BY <2>2, <2>3 DEF Under, RunsProfile
<1>7. ASSUME e \notin M, NEW el \in W
      PROVE  \/ actual'[el.dev] = el.val
             \/ \E u \in Threads : \E l \in DOMAIN stack'[u] : ToSet(stack'[u][l], el.dev, el.val)
    <2>1. el.dev \in Outputs(e) /\ el.val \in Values
        BY <1>4, <1>7, OutputFacts DEF Wanted
    <2>2. CASE actual[el.dev] = el.val
        BY <2>1, <2>2
    <2>3. ASSUME NEW u \in Threads, NEW i \in DOMAIN stack[u], ToSet(stack[u][i], el.dev, el.val)
          PROVE  \E l \in DOMAIN stack'[u] : ToSet(stack'[u][l], el.dev, el.val)
        <3>1. u # t
            BY <1>7, <2>1, <2>3
        <3>2. QED
            BY <1>1, <2>3, <3>1
    <2>4. QED
        BY <1>4, <1>7, <2>2, <2>3 DEF Following
<1>8. QED
    BY <1>5, <1>6, <1>7, FollowingNext

\* Nobody is inside a device that a call is about to set for e: the thread would be running
\* a profile of e, so it would be the same thread, and it would have come back to the device.
LEMMA NobodyInside ==
    ASSUME ConstantsAssumption, OutputsApart, Structure, OneInEvent,
           NEW D, NEW E, Descends(D, E), Descending(D, E),
           NEW e \in Leads, NEW M, Following(e, M), NEW t \in Threads, stack[t] # <<>>,
           Top(t).op \in {"scheduleAction", "scheduleAll"},
           NEW d \in Outputs(e), NEW v \in Values, Sets(Top(t), d, v), NEW u \in Threads
    PROVE  ~ HoldsDevice(u, d)
<1> SUFFICES ASSUME HoldsDevice(u, d) PROVE FALSE
    OBVIOUS
<1>1. PICK i \in DOMAIN stack[u] : InDevice(stack[u][i], d)
    BY DEF HoldsDevice
<1>2. PICK c : c = Top(t)
    OBVIOUS
<1>3. PICK b : b = stack[u][i]
    OBVIOUS
<1>4. /\ c \in Call /\ 1 \in DOMAIN stack[t] /\ stack[t][1] = c
      /\ stack[u] \in Seq(Call) /\ stack[t] \in Seq(Call)
    BY <1>2, TopCall DEF Structure, Typed
<1>5. b \in Call /\ b.op = "execute" /\ b.dev = d /\ b \in Executions
    BY <1>1, <1>3, <1>4, CallIs DEF InDevice
<1>6. b.val \in Values /\ Sets(b, d, b.val)
    BY <1>5 DEF Executions, Sets
<1>7. PICK j \in DOMAIN stack[u] : i < j /\ RunsProfile(stack[u][j], e)
    BY <1>3, <1>6 DEF Following, Under
<1>8. PICK k \in DOMAIN stack[t] : 1 < k /\ RunsProfile(stack[t][k], e)
    BY <1>2, <1>4 DEF Following, Under
<1>9. u = t
    <2>1. e \in Events
        BY OutputFacts
    <2>2. InEvent(stack[u][j], e) /\ InEvent(stack[t][k], e)
        BY <1>7, <1>8 DEF InEvent, RunsProfile
    <2>3. QED
        BY <2>1, <2>2 DEF OneInEvent
<1>10. 1 < i
    <2>1. i # 1
        BY <1>2, <1>3, <1>4, <1>5, <1>9
    <2>2. QED
        BY <1>4, <2>1
<1>11. Nested(c, b, D, E)
    BY <1>3, <1>4, <1>9, <1>10 DEF Descending
<1>12. 2 * D[d] + 1 \in Reach(c, D, E) /\ 2 * D[d] + 1 \in Reach(b, D, E)
    <2>1. Reach(b, D, E) = {2 * D[d] + 1}
        BY <1>5 DEF Reach
    <2>2. CASE c.op = "scheduleAction"
        BY <1>2, <2>1, <2>2 DEF Reach, Sets
    <2>3. CASE c.op = "scheduleAll"
        <3>1. PICK el \in c.todo : el.dev = d
            BY <1>2, <2>3 DEF Sets
        <3>2. Reach(c, D, E) = {2 * D[g.dev] + 1 : g \in c.todo}
            BY <2>3 DEF Reach
        <3>3. QED
            BY <2>1, <3>1, <3>2
    <2>4. QED
        BY <1>2, <2>2, <2>3
<1>13. Reach(b, D, E) \subseteq Nat
    BY <1>5, ReachNat
<1>14. 2 * D[d] + 1 < 2 * D[d] + 1
    BY <1>5, <1>11, <1>12 DEF Nested
<1>15. QED
    BY <1>12, <1>13, <1>14

\* So an element that is not worth setting is set.
LEMMA SkippedIsSet ==
    ASSUME ConstantsAssumption, OutputsApart, RulesEnd, Structure, Ordered, CacheInv, OneInEvent,
           NEW e \in Leads, NEW M, Following(e, M), NEW t \in Threads, stack[t] # <<>>,
           Top(t).op \in {"scheduleAction", "scheduleAll"},
           NEW el, el.dev \in Outputs(e), el.val \in Values,
           Sets(Top(t), el.dev, el.val), ~ hasStateChanged(el)
    PROVE  actual[el.dev] = el.val
<1>1. PICK D, E : Descends(D, E)
    BY DEF RulesEnd
<1>2. Descending(D, E)
    BY <1>1 DEF Ordered
<1>3. PICK d : d = el.dev
    OBVIOUS
<1>4. d \in Outputs(e) /\ d \in Devices \ Polled
    BY <1>3, OutputFacts
<1>5. \A u \in Threads : ~ HoldsDevice(u, d)
    BY <1>1, <1>2, <1>3, <1>4, NobodyInside
<1>6. ~ \E u \in Threads : stack[u] # <<>> /\ Reporting(Top(u), d)
    BY <1>4, <1>5 DEF CacheInv, ReportsHold
<1>7. cached[d] \in {None, actual[d]}
    BY <1>4, <1>6 DEF CacheInv, Fresh
<1>8. el.val # None
    BY DEF ConstantsAssumption
<1>9. cached[d] = el.val /\ cached[d] # None
    BY <1>3, <1>8 DEF hasStateChanged
<1>10. QED
    BY <1>3, <1>7, <1>9

-----------------------------------------------------------------------------
(* The steps of the threads.                                               *)

\* The part of the invariant that is about the outputs.
Tracking(M) == OneInEvent /\ \A e \in Leads : Following(e, M)

\* More events may be excepted.
LEMMA Excepted ==
    ASSUME NEW e, NEW M, Following(e, M), NEW N, e \in M => e \in N
    PROVE  Following(e, N)
BY DEF Following

\* The steps that make no event active.
LEMMA RelayedTracks ==
    ASSUME ConstantsAssumption, OutputsApart, Structure, NEW M, Tracking(M),
           actual' \in [Devices -> Values], UNCHANGED active,
           NEW t, NEW cs, Stepped(t, cs), EventsFit(t, cs),
           \A e \in Leads : ~ Activates(Top(t), e),
           \A k \in 1 .. Len(cs) : \A e \in Leads : ~ Activates(cs[k], e),
           \A e \in Leads : Relays(t, cs, e, M)
    PROVE  Tracking(M)'
<1>1. OneInEvent'
    BY OneInEventKept DEF Tracking
<1>2. ASSUME NEW e \in Leads PROVE Following(e, M)'
    <2>1. Following(e, M)
        BY DEF Tracking
    <2>2. Wanted(e)' = Wanted(e)
        BY WantedKept
    <2>3. QED
        BY <2>1, <2>2, FollowingKept
<1>3. QED
    BY <1>1, <1>2, Zenon DEF Tracking, Leads, Driven

Setters == {"scheduleAll", "scheduleAction", "execute"}

\* Calls that set nothing have nothing to hand down.
LEMMA IdleRelays ==
    ASSUME NEW t, NEW cs, NEW e, NEW M, UNCHANGED actual,
           Top(t).op \notin {"scheduleAll", "scheduleAction"},
           Top(t).op = "execute" => Top(t).at = "leave",
           \A k \in 1 .. Len(cs) : cs[k].op \notin Setters
    PROVE  Relays(t, cs, e, M)
BY DEF Relays, Sets, ToSet, Setters

\* The steps that are about no device of a profile.
LEMMA IdleTracks ==
    ASSUME ConstantsAssumption, OutputsApart, RulesEnd, Structure, Ordered, NEW M, Tracking(M),
           NEW t \in Threads,
           \/ LeaveDevice(t) \/ Snapshot(t) \/ Compare(t) \/ Put(t) \/ NextEvent(t)
           \/ EnterEvent(t) \/ StayActive(t) \/ LeaveEvent(t)
    PROVE  Tracking(M)'
<1>1. PICK c : c = Top(t)
    OBVIOUS
<1>2. UNCHANGED <<actual, active>> /\ actual' \in [Devices -> Values]
    BY DEF LeaveDevice, Snapshot, Compare, Put, NextEvent, EnterEvent, StayActive, LeaveEvent,
           Structure, Typed
<1>3. ASSUME NEW cs, Stepped(t, cs), EventsFit(t, cs),
             c.op \notin {"scheduleAll", "scheduleAction"}, c.op = "execute" => c.at = "leave",
             c.op = "checkIfTriggered" => c.at # "activate",
             \A k \in 1 .. Len(cs) : cs[k].op \notin Setters,
             \A k \in 1 .. Len(cs) : cs[k].op = "checkIfTriggered" => cs[k].at # "activate"
      PROVE  Tracking(M)'
    <2>1. \A e \in Leads : Relays(t, cs, e, M)
        BY <1>1, <1>2, <1>3, IdleRelays
    <2>2. /\ \A e \in Leads : ~ Activates(Top(t), e)
          /\ \A k \in 1 .. Len(cs) : \A e \in Leads : ~ Activates(cs[k], e)
        BY <1>1, <1>3 DEF Activates
    <2>3. QED
        BY <1>2, <1>3, <2>1, <2>2, RelayedTracks
<1>4. ASSUME Stepped(t, <<>>), c.op \notin {"scheduleAll", "scheduleAction"},
             c.op = "execute" => c.at = "leave", c.op = "checkIfTriggered" => c.at # "activate"
      PROVE  Tracking(M)'
    <2>1. PICK cs : cs = <<>>
        OBVIOUS
    <2>2. Stepped(t, cs) /\ 1 .. Len(cs) = {}
        BY <1>4, <2>1, NoCalls
    <2>3. EventsFit(t, cs)
        BY <2>2 DEF EventsFit
    <2>4. QED
        BY <1>3, <1>4, <2>2, <2>3
<1>5. ASSUME NEW n \in Call, Stepped(t, <<n>>), n.op \notin Setters,
             n.op = "checkIfTriggered" => n.at # "activate",
             \A e \in Events : InEvent(n, e) => InEvent(c, e) \/ \A u \in Threads : ~ HoldsEvent(u, e),
             c.op \notin {"scheduleAll", "scheduleAction"},
             c.op = "execute" => c.at = "leave", c.op = "checkIfTriggered" => c.at # "activate"
      PROVE  Tracking(M)'
    <2>1. PICK cs : cs = <<n>>
        OBVIOUS
    <2>2. Stepped(t, cs) /\ Len(cs) = 1 /\ \A k \in 1 .. Len(cs) : k = 1 /\ cs[k] = n
        BY <1>5, <2>1, OneCall
    <2>3. EventsFit(t, cs)
        BY <1>1, <1>5, <2>2 DEF EventsFit
    <2>4. QED
        BY <1>3, <1>5, <2>2, <2>3
<1>6. CASE LeaveDevice(t) \/ StayActive(t) \/ LeaveEvent(t)
    <2>1. /\ Stepped(t, <<>>)
          /\ \/ c.op = "execute" /\ c.at = "leave"
             \/ c.op = "checkIfTriggered" /\ c.at \in {"test", "leave"}
        BY <1>1, <1>6, LeaveDeviceStep, StayActiveStep, LeaveEventStep
    <2>2. QED
        BY <1>4, <2>1
<1>7. CASE Snapshot(t)
    <2>1. PICK n : n = update(c.dev, actual[c.dev])
        OBVIOUS
    <2>2. c.op = "run" /\ n \in Updates /\ Stepped(t, <<n>>)
        BY <1>1, <1>7, <2>1, SnapshotStep
    <2>3. n \in Call /\ n.op = "update"
        BY <2>2, KindsAreCalls DEF Updates
    <2>4. QED
        BY <1>5, <2>2, <2>3 DEF Setters, InEvent
<1>8. CASE Compare(t)
    <2>1. PICK n : n = [c EXCEPT !.at = "put"]
        OBVIOUS
    <2>2. c.op = "update" /\ n \in Updates /\ (Stepped(t, <<>>) \/ Stepped(t, <<n>>))
        BY <1>1, <1>8, <2>1, CompareStep
    <2>3. n \in Call /\ n.op = "update"
        BY <2>2, KindsAreCalls DEF Updates
    <2>4. QED
        BY <1>4, <1>5, <2>2, <2>3 DEF Setters, InEvent
<1>9. CASE Put(t)
    <2>1. PICK n : n = [c EXCEPT !.at = "events", !.todo = EventsTriggeredBy(c.dev)]
        OBVIOUS
    <2>2. c.op = "update" /\ n \in Updates /\ Stepped(t, <<n>>)
        BY <1>1, <1>9, <2>1, PutStep
    <2>3. n \in Call /\ n.op = "update"
        BY <2>2, KindsAreCalls DEF Updates
    <2>4. QED
        BY <1>5, <2>2, <2>3 DEF Setters, InEvent
<1>10. CASE NextEvent(t)
    <2>1. /\ c.op = "update"
          /\ \/ Stepped(t, <<>>)
             \/ \E f \in c.todo :
                   /\ check(f, c.dev) \in Checks /\ [c EXCEPT !.todo = @ \ {f}] \in Updates
                   /\ Stepped(t, <<check(f, c.dev), [c EXCEPT !.todo = @ \ {f}]>>)
        BY <1>1, <1>10, NextEventStep
    <2>2. ASSUME NEW f \in c.todo, check(f, c.dev) \in Checks, [c EXCEPT !.todo = @ \ {f}] \in Updates,
                 Stepped(t, <<check(f, c.dev), [c EXCEPT !.todo = @ \ {f}]>>)
          PROVE  Tracking(M)'
        <3>1. PICK n : n = check(f, c.dev)
            OBVIOUS
        <3>2. PICK b : b = [c EXCEPT !.todo = @ \ {f}]
            OBVIOUS
        <3>3. /\ n \in Call /\ n.op = "checkIfTriggered" /\ n.at = "enter"
              /\ b \in Call /\ b.op = "update"
            BY <2>2, <3>1, <3>2, KindsAreCalls DEF check, Updates
        <3>4. PICK cs : cs = <<n, b>>
            OBVIOUS
        <3>5. Stepped(t, cs)
            BY <2>2, <3>1, <3>2, <3>4
        <3>6. \A k \in 1 .. Len(cs) : (k = 1 /\ cs[k] = n) \/ (k = 2 /\ cs[k] = b)
            BY <3>3, <3>4, PairOfCalls
        <3>7. EventsFit(t, cs)
            BY <3>3, <3>6 DEF EventsFit, InEvent
        <3>8. \A k \in 1 .. Len(cs) :
                  cs[k].op \notin Setters /\ (cs[k].op = "checkIfTriggered" => cs[k].at # "activate")
            BY <3>3, <3>6 DEF Setters
        <3>9. QED
            BY <1>3, <2>1, <3>5, <3>7, <3>8
    <2>3. QED
        BY <1>4, <2>1, <2>2
<1>11. CASE EnterEvent(t)
    <2>1. PICK n : n = [c EXCEPT !.at = "test", !.asked = MustAsk(c.event)]
        OBVIOUS
    <2>2. /\ c.op = "checkIfTriggered" /\ c.at = "enter" /\ c \in Checks /\ n \in Checks
          /\ Stepped(t, <<n>>)
        BY <1>1, <1>11, <2>1, EnterEventStep
    <2>3. n \in Call /\ n.op = "checkIfTriggered" /\ n.at = "test" /\ n.event = c.event
        BY <2>1, <2>2, KindsAreCalls DEF Checks
    <2>4. \A u \in Threads : ~ HoldsEvent(u, c.event)
        <3>1. PICK D, E : Descends(D, E)
            BY DEF RulesEnd
        <3>2. Descending(D, E)
            BY <3>1 DEF Ordered
        <3>3. QED
            BY <1>1, <1>11, <3>1, <3>2, NotInsideYet
    <2>5. \A e \in Events : InEvent(n, e) => \A u \in Threads : ~ HoldsEvent(u, e)
        BY <2>3, <2>4 DEF InEvent
    <2>6. QED
        BY <1>5, <2>2, <2>3, <2>5 DEF Setters
<1>12. QED
    BY <1>6, <1>7, <1>8, <1>9, <1>10, <1>11


\* Scheduling and executing hand down what is to be set, or set it.
LEMMA SchedulingTracks ==
    ASSUME ConstantsAssumption, OutputsApart, RulesEnd, Structure, Ordered, CacheInv, NEW M, Tracking(M),
           NEW t \in Threads,
           \/ IsLocked(t) /\ ~ Throw(t)
           \/ Apply(t)
           \/ SetLock(t)
           \/ NextElement(t)
           \/ Execute(t)
    PROVE  Tracking(M)'
<1>1. PICK c : c = Top(t)
    OBVIOUS
<1>2. UNCHANGED active /\ (~ Execute(t) => UNCHANGED actual) /\ actual' \in [Devices -> Values]
    <2>1. CASE Execute(t)
        <3>1. c \in Executions /\ actual' = [actual EXCEPT ![c.dev] = c.val] /\ UNCHANGED active
            BY <1>1, <2>1, ExecuteStep DEF Execute
        <3>2. QED
            BY <2>1, <3>1 DEF Executions, Structure, Typed
    <2>2. CASE ~ Execute(t)
        BY <2>2 DEF IsLocked, Apply, SetLock, NextElement, Structure, Typed
    <2>3. QED
        BY <2>1, <2>2
<1>3. ASSUME NEW cs, Stepped(t, cs), c.op # "checkIfTriggered",
             \A k \in 1 .. Len(cs) : cs[k].op # "checkIfTriggered",
             \A e \in Leads : Relays(t, cs, e, M)
      PROVE  Tracking(M)'
    <2>1. /\ \A e \in Leads : ~ Activates(Top(t), e)
          /\ \A k \in 1 .. Len(cs) : \A e \in Leads : ~ Activates(cs[k], e)
        BY <1>1, <1>3 DEF Activates
    <2>2. EventsFit(t, cs)
        BY <1>3 DEF EventsFit, InEvent
    <2>3. QED
        BY <1>2, <1>3, <2>1, <2>2, RelayedTracks
<1>4. CASE IsLocked(t) /\ ~ Throw(t)
    <2>1. PICK n : n = [c EXCEPT !.at = IF c.el.val = None THEN "lock" ELSE "apply"]
        OBVIOUS
    <2>2. PICK cs : cs = <<n>>
        OBVIOUS
    <2>3. Stepped(t, cs)
        BY <1>1, <1>4, <2>1, <2>2, IsLockedStep
    <2>4. c.op = "scheduleAction" /\ c \in Schedulings
        BY <1>1, <1>4, TopFacts, CallIs DEF IsLocked, At, Top
    <2>5. /\ n \in Call /\ n.op = "scheduleAction" /\ n.el = c.el
          /\ n.at = IF c.el.val = None THEN "lock" ELSE "apply"
        BY <2>1, <2>4, KindsAreCalls DEF Schedulings
    <2>6. Len(cs) = 1 /\ cs[1] = n
        BY <2>2, <2>5, OneCall
    <2>7. \A d, v : Sets(n, d, v) => Sets(c, d, v)
        BY <2>4, <2>5 DEF Sets
    <2>8. ASSUME NEW d, NEW v \in Values, ToSet(c, d, v) PROVE ToSet(n, d, v)
        <3>1. c.el.dev = d /\ c.el.val = v /\ v # None
            BY <2>4, <2>8 DEF ToSet, Sets, ConstantsAssumption
        <3>2. QED
            BY <2>5, <3>1 DEF ToSet, Sets
    <2>9. \A e \in Leads : Relays(t, cs, e, M)
        BY <1>1, <1>2, <1>4, <2>6, <2>7, <2>8 DEF Relays, IsLocked
    <2>10. \A k \in 1 .. Len(cs) : cs[k].op # "checkIfTriggered"
        BY <2>5, <2>6
    <2>11. QED
        BY <1>3, <2>3, <2>4, <2>9, <2>10
<1>5. CASE Apply(t)
    <2>1. PICK n : n = [c EXCEPT !.at = "lock"]
        OBVIOUS
    <2>2. PICK x : x = execute(c.el.dev, c.el.val)
        OBVIOUS
    <2>3. /\ c.op = "scheduleAction" /\ c \in Schedulings /\ c.el.val \in Values /\ c.at = "apply"
          /\ Stepped(t, <<x, n>>) \/ (~ hasStateChanged(c.el) /\ Stepped(t, <<n>>))
          /\ stack[t] # <<>> /\ UNCHANGED actual
        BY <1>1, <1>5, <2>1, <2>2, ApplyStep DEF Apply, At
    <2>4. /\ n \in Call /\ n.op = "scheduleAction" /\ n.el = c.el /\ n.at = "lock"
        BY <2>1, <2>3, KindsAreCalls DEF Schedulings
    <2>5. /\ x \in Call /\ x.op = "execute" /\ x.at = "enter" /\ x.dev = c.el.dev /\ x.val = c.el.val
        <3>1. c.el.dev \in Devices
            BY <2>3 DEF Schedulings, Element
        <3>2. /\ x.op = "execute" /\ x.at = "enter"
              /\ x.dev = c.el.dev /\ x.val = c.el.val
            BY <2>2 DEF execute
        <3>3. x \in Executions
            BY <2>2, <2>3, <3>1 DEF execute, Executions
        <3>4. QED
            BY <3>2, <3>3, KindsAreCalls
    <2>6. \A d, v : Sets(c, d, v) <=> d = c.el.dev /\ v = c.el.val
        BY <2>3 DEF Sets
    <2>7. \A d, v : (Sets(n, d, v) => Sets(c, d, v)) /\ (Sets(x, d, v) => Sets(c, d, v))
        <3>1. \A d, v : Sets(n, d, v) => d = c.el.dev /\ v = c.el.val
            BY <2>4 DEF Sets
        <3>2. \A d, v : Sets(x, d, v) => d = c.el.dev /\ v = c.el.val
            BY <2>5 DEF Sets
        <3>3. QED
            BY <2>6, <3>1, <3>2
    <2>8. CASE Stepped(t, <<x, n>>)
        <3>1. PICK cs : cs = <<x, n>>
            OBVIOUS
        <3>2. /\ Len(cs) = 2 /\ cs[1] = x /\ Stepped(t, cs)
              /\ \A k \in 1 .. Len(cs) : (k = 1 /\ cs[k] = x) \/ (k = 2 /\ cs[k] = n)
            BY <2>4, <2>5, <2>8, <3>1, PairOfCalls
        <3>3. \A d, v : ToSet(c, d, v) => ToSet(x, d, v)
            <4>1. SUFFICES ASSUME NEW d, NEW v, Sets(c, d, v) PROVE ToSet(x, d, v)
                BY Zenon DEF ToSet
            <4>2. x.dev = d /\ x.val = v
                BY <2>5, <2>6, <4>1
            <4>3. x.op = "execute" /\ x.at \notin {"lock", "leave"}
                BY <2>5
            <4>4. QED
                BY <4>2, <4>3, Zenon DEF ToSet, Sets
        <3>4. ASSUME NEW e \in Leads PROVE Relays(t, cs, e, M)
            <4>1. 1 \in 1 .. Len(cs)
                BY <3>2
            <4>2. \A d, v : ToSet(c, d, v) => \E k \in 1 .. Len(cs) : ToSet(cs[k], d, v)
                BY <3>2, <3>3, <4>1
            <4>3. \A k \in 1 .. Len(cs) : \A d, v : Sets(cs[k], d, v) => Sets(c, d, v)
                BY <2>7, <3>2
            <4>4. QED
                BY <1>1, <2>3, <4>2, <4>3 DEF Relays
        <3>5. \A k \in 1 .. Len(cs) : cs[k].op # "checkIfTriggered"
            BY <2>4, <2>5, <3>2
        <3>6. QED
            BY <1>3, <2>3, <3>2, <3>4, <3>5
    <2>9. CASE ~ hasStateChanged(c.el) /\ Stepped(t, <<n>>)
        <3>1. PICK cs : cs = <<n>>
            OBVIOUS
        <3>2. Len(cs) = 1 /\ cs[1] = n /\ Stepped(t, cs)
            BY <2>4, <2>9, <3>1, OneCall
        <3>3. ASSUME NEW e \in Leads PROVE Relays(t, cs, e, M)
            <4>1. ASSUME NEW d \in Outputs(e), NEW v \in Values, ToSet(c, d, v)
                  PROVE  actual'[d] = v
                <5>1. d = c.el.dev /\ v = c.el.val /\ Sets(c, c.el.dev, c.el.val)
                    BY <2>6, <4>1 DEF ToSet
                <5>2. Following(e, M) /\ OneInEvent
                    BY DEF Tracking
                <5>3. Top(t).op \in {"scheduleAction", "scheduleAll"}
                    BY <1>1, <2>3
                <5>4. actual[c.el.dev] = c.el.val
                    <6>1. PICK el : el = c.el
                        OBVIOUS
                    <6>2. /\ el.dev \in Outputs(e) /\ el.val \in Values /\ Sets(Top(t), el.dev, el.val)
                          /\ ~ hasStateChanged(el)
                        BY <1>1, <2>9, <4>1, <5>1, <6>1
                    <6>3. actual[el.dev] = el.val
                        BY <2>3, <5>2, <5>3, <6>2, SkippedIsSet
                    <6>4. QED
                        BY <6>1, <6>3
                <5>5. QED
                    BY <2>3, <5>1, <5>4
            <4>2. QED
                BY <1>1, <2>3, <2>7, <3>2, <4>1 DEF Relays
        <3>4. \A k \in 1 .. Len(cs) : cs[k].op # "checkIfTriggered"
            BY <2>4, <3>2
        <3>5. QED
            BY <1>3, <2>3, <3>2, <3>3, <3>4
    <2>10. QED
        BY <2>3, <2>8, <2>9
<1>6. CASE SetLock(t)
    <2>1. c.op = "scheduleAction" /\ c.at = "lock" /\ Stepped(t, <<>>) /\ UNCHANGED actual
        BY <1>1, <1>6, SetLockStep DEF SetLock
    <2>2. PICK cs : cs = <<>>
        OBVIOUS
    <2>3. Stepped(t, cs) /\ 1 .. Len(cs) = {}
        BY <2>1, <2>2, NoCalls
    <2>4. \A e \in Leads : Relays(t, cs, e, M)
        BY <1>1, <2>1, <2>3 DEF Relays, ToSet
    <2>5. QED
        BY <1>3, <2>1, <2>3, <2>4
<1>7. CASE Execute(t)
    <2>1. PICK n : n = [c EXCEPT !.at = "leave"]
        OBVIOUS
    <2>2. PICK x : x = update(c.dev, c.val)
        OBVIOUS
    <2>3. /\ c.op = "execute" /\ c \in Executions /\ actual' = [actual EXCEPT ![c.dev] = c.val]
          /\ Stepped(t, <<n>>) \/ Stepped(t, <<x, n>>)
        BY <1>1, <1>7, <2>1, <2>2, ExecuteStep
    <2>4. n \in Call /\ n.op = "execute" /\ n.dev = c.dev /\ n.val = c.val
        BY <2>1, <2>3, KindsAreCalls DEF Executions
    <2>5. x \in Call /\ x.op = "update"
        <3>1. x \in Updates
            BY <2>2, <2>3 DEF update, Updates, Executions
        <3>2. QED
            BY <3>1, KindsAreCalls DEF Updates
    <2>6. \A d, v : (Sets(c, d, v) <=> d = c.dev /\ v = c.val) /\ ~ Sets(x, d, v)
                    /\ (Sets(n, d, v) => Sets(c, d, v))
        BY <2>3, <2>4, <2>5 DEF Sets
    <2>7. \A d \in Devices : actual'[d] = IF d = c.dev THEN c.val ELSE actual[d]
        BY <2>3 DEF Structure, Typed
    <2>8. ASSUME NEW cs, \A k \in 1 .. Len(cs) : cs[k] = x \/ cs[k] = n, Stepped(t, cs)
          PROVE  Tracking(M)'
        <3>1. ASSUME NEW e \in Leads PROVE Relays(t, cs, e, M)
            <4>1. Outputs(e) \subseteq Devices
                BY OutputFacts
            <4>2. \A d \in Outputs(e), v \in Values : ToSet(c, d, v) => actual'[d] = v
                BY <2>6, <2>7, <4>1 DEF ToSet
            <4>3. \A d \in Outputs(e) : actual'[d] = actual[d] \/ Sets(c, d, actual'[d])
                BY <2>6, <2>7, <4>1
            <4>4. \A k \in 1 .. Len(cs) : \A d, v : Sets(cs[k], d, v) => Sets(c, d, v)
                BY <2>6, <2>8
            <4>5. QED
                BY <1>1, <4>2, <4>3, <4>4 DEF Relays
        <3>2. \A k \in 1 .. Len(cs) : cs[k].op # "checkIfTriggered"
            BY <2>4, <2>5, <2>8
        <3>3. QED
            BY <1>3, <2>3, <2>8, <3>1, <3>2
    <2>9. CASE Stepped(t, <<n>>)
        <3>1. PICK cs : cs = <<n>>
            OBVIOUS
        <3>2. Len(cs) = 1 /\ cs[1] = n /\ Stepped(t, cs)
            BY <2>4, <2>9, <3>1, OneCall
        <3>3. QED
            BY <2>8, <3>2
    <2>10. CASE Stepped(t, <<x, n>>)
        <3>1. PICK cs : cs = <<x, n>>
            OBVIOUS
        <3>2. Stepped(t, cs) /\ \A k \in 1 .. Len(cs) : cs[k] = x \/ cs[k] = n
            BY <2>4, <2>5, <2>10, <3>1, PairOfCalls
        <3>3. QED
            BY <2>8, <3>2
    <2>11. QED
        BY <2>3, <2>9, <2>10
<1>8. CASE NextElement(t)
    <2>1. /\ c.op = "scheduleAll" /\ c \in Profiles /\ UNCHANGED actual /\ stack[t] # <<>>
        BY <1>1, <1>8, NextElementStep DEF NextElement, At
    <2>2. \A d, v : Sets(c, d, v) <=> \E g \in c.todo : g.dev = d /\ g.val = v
        BY <2>1 DEF Sets
    <2>3. CASE c.todo = {} /\ Stepped(t, <<>>)
        <3>1. PICK cs : cs = <<>>
            OBVIOUS
        <3>2. Stepped(t, cs) /\ 1 .. Len(cs) = {}
            BY <2>3, <3>1, NoCalls
        <3>3. \A e \in Leads : Relays(t, cs, e, M)
            BY <1>1, <2>1, <2>2, <2>3, <3>2 DEF Relays, ToSet
        <3>4. QED
            BY <1>3, <2>1, <3>2, <3>3
    <2>4. ASSUME NEW el \in c.todo, NEW n, n = [c EXCEPT !.todo = @ \ {el}], n \in Profiles,
                 \/ hasStateChanged(el) /\ Stepped(t, <<schedule(el), n>>)
                 \/ ~ hasStateChanged(el) /\ Stepped(t, <<n>>)
          PROVE  Tracking(M)'
        <3>1. PICK x : x = schedule(el)
            OBVIOUS
        <3>2. /\ n \in Call /\ n.op = "scheduleAll" /\ n.todo = c.todo \ {el} /\ n.at = "next"
            BY <2>1, <2>4, KindsAreCalls DEF Profiles
        <3>3. /\ x \in Call /\ x.op = "scheduleAction" /\ x.at = "isLocked" /\ x.el = el
            <4>1. x \in Schedulings
                BY <2>1, <2>4, <3>1 DEF schedule, Schedulings, Profiles
            <4>2. QED
                BY <3>1, <4>1, KindsAreCalls DEF schedule
        <3>4. \A d, v : /\ Sets(n, d, v) <=> \E g \in c.todo \ {el} : g.dev = d /\ g.val = v
                        /\ Sets(x, d, v) <=> d = el.dev /\ v = el.val
            BY <3>2, <3>3 DEF Sets
        <3>5. \A d, v : (Sets(n, d, v) \/ Sets(x, d, v)) => Sets(c, d, v)
            BY <2>2, <3>4
        <3>6. \A d, v : ToSet(c, d, v) => ToSet(n, d, v) \/ (d = el.dev /\ v = el.val)
            BY <2>2, <3>2, <3>4 DEF ToSet
        <3>7. CASE Stepped(t, <<x, n>>)
            <4>1. PICK cs : cs = <<x, n>>
                OBVIOUS
            <4>2. /\ Len(cs) = 2 /\ cs[1] = x /\ cs[2] = n /\ Stepped(t, cs)
                  /\ \A k \in 1 .. Len(cs) : (k = 1 /\ cs[k] = x) \/ (k = 2 /\ cs[k] = n)
                BY <3>2, <3>3, <3>7, <4>1, PairOfCalls
            <4>3. \A d, v : d = el.dev /\ v = el.val => ToSet(x, d, v)
                BY <3>3, <3>4 DEF ToSet
            <4>4. 1 \in 1 .. Len(cs) /\ 2 \in 1 .. Len(cs)
                BY <4>2
            <4>5. \A d, v : ToSet(c, d, v) => \E k \in 1 .. Len(cs) : ToSet(cs[k], d, v)
                BY <3>6, <4>2, <4>3, <4>4
            <4>6. \A k \in 1 .. Len(cs) : \A d, v : Sets(cs[k], d, v) => Sets(c, d, v)
                BY <3>5, <4>2
            <4>7. \A e \in Leads : Relays(t, cs, e, M)
                BY <1>1, <2>1, <4>5, <4>6 DEF Relays
            <4>8. \A k \in 1 .. Len(cs) : cs[k].op # "checkIfTriggered"
                BY <3>2, <3>3, <4>2
            <4>9. QED
                BY <1>3, <2>1, <4>2, <4>7, <4>8
        <3>8. CASE ~ hasStateChanged(el) /\ Stepped(t, <<n>>)
            <4>1. PICK cs : cs = <<n>>
                OBVIOUS
            <4>2. Len(cs) = 1 /\ cs[1] = n /\ Stepped(t, cs)
                BY <3>2, <3>8, <4>1, OneCall
            <4>3. ASSUME NEW e \in Leads PROVE Relays(t, cs, e, M)
                <5>1. ASSUME NEW d \in Outputs(e), NEW v \in Values, d = el.dev, v = el.val
                      PROVE  actual'[d] = v
                    <6>1. Following(e, M) /\ OneInEvent
                        BY DEF Tracking
                    <6>2. /\ Top(t).op \in {"scheduleAction", "scheduleAll"}
                          /\ el.dev \in Outputs(e) /\ el.val \in Values /\ Sets(Top(t), el.dev, el.val)
                        BY <1>1, <2>1, <2>2, <5>1
                    <6>3. actual[el.dev] = el.val
                        BY <2>1, <3>8, <6>1, <6>2, SkippedIsSet
                    <6>4. QED
                        BY <2>1, <5>1, <6>3
                <5>2. 1 \in 1 .. Len(cs)
                    BY <4>2
                <5>3. \A d \in Outputs(e), v \in Values : ToSet(c, d, v) =>
                          actual'[d] = v \/ \E k \in 1 .. Len(cs) : ToSet(cs[k], d, v)
                    BY <3>6, <4>2, <5>1, <5>2
                <5>4. \A k \in 1 .. Len(cs) : \A d, v : Sets(cs[k], d, v) => Sets(c, d, v)
                    BY <3>5, <4>2
                <5>5. QED
                    BY <1>1, <2>1, <5>3, <5>4 DEF Relays
            <4>4. \A k \in 1 .. Len(cs) : cs[k].op # "checkIfTriggered"
                BY <3>2, <4>2
            <4>5. QED
                BY <1>3, <2>1, <4>2, <4>3, <4>4
        <3>9. QED
            BY <2>4, <3>1, <3>7, <3>8
    <2>5. QED
        BY <1>1, <1>8, <2>3, <2>4, NextElementStep
<1>9. QED
    BY <1>4, <1>5, <1>6, <1>7, <1>8


\* A check of the event f runs one of its profiles: the outputs of the other events are
\* not in it.
LEMMA OtherProfileRelays ==
    ASSUME ConstantsAssumption, OutputsApart, NEW t, NEW cs, UNCHANGED actual,
           Top(t).op = "checkIfTriggered", NEW f \in Events, Len(cs) = 2,
           cs[1].op = "scheduleAll", cs[1].todo \subseteq profile[f] \cup inverted[f],
           cs[2].op = "checkIfTriggered", NEW e \in Leads, e # f, NEW M
    PROVE  Relays(t, cs, e, M)
<1>1. ASSUME NEW k \in 1 .. Len(cs), NEW d \in Outputs(e), NEW v PROVE ~ Sets(cs[k], d, v)
    <2>1. CASE k = 1
        <3> SUFFICES ASSUME Sets(cs[1], d, v) PROVE FALSE
            BY <2>1
        <3>1. PICK g \in cs[1].todo : g.dev = d
            BY DEF Sets
        <3>2. g \in profile[f] \cup inverted[f]
            BY <3>1
        <3>3. QED
            BY <3>1, <3>2, OutputFacts
    <2>2. CASE k = 2
        BY <2>2 DEF Sets
    <2>3. QED
        BY <2>1, <2>2
<1>2. \A d, v : ~ ToSet(Top(t), d, v)
    BY DEF ToSet, Sets
<1>3. QED
    BY <1>1, <1>2 DEF Relays

\* The steps inside an event: a check c of f begins a profile, or ends, and afterwards f is
\* to be where its profile wants it.
LEMMA CheckTracks ==
    ASSUME ConstantsAssumption, OutputsApart, Structure, NEW M, Tracking(M), NEW t \in Threads,
           Activate(t) \/ Trigger(t) \/ Deactivate(t), NEW N,
           \A e \in Leads \ N : e \notin M \/ BeginsProfile(t, e)
    PROVE  Tracking(N)'
<1>1. PICK c : c = Top(t)
    OBVIOUS
<1>2. PICK f : f = c.event
    OBVIOUS
<1>3. /\ c.op = "checkIfTriggered" /\ c.at \in {"activate", "test"} /\ c \in Checks /\ f \in Events
      /\ stack[t] # <<>> /\ InEvent(c, f)
    <2>1. c.op = "checkIfTriggered" /\ c.at \in {"activate", "test"} /\ c \in Checks
        BY <1>1, ActivateStep, TriggerStep, DeactivateStep
    <2>2. stack[t] # <<>>
        BY DEF Activate, Trigger, Deactivate, At
    <2>3. QED
        BY <1>2, <2>1, <2>2 DEF Checks, InEvent
<1>4. /\ UNCHANGED actual /\ actual' \in [Devices -> Values]
      /\ 1 \in DOMAIN stack[t] /\ stack[t][1] = c
    BY <1>1, <1>3, TopCall DEF Activate, Trigger, Deactivate, Structure, Typed
\* No other call is inside f.
<1>5. ASSUME NEW u \in Threads, NEW i \in DOMAIN stack[u], InEvent(stack[u][i], f)
      PROVE  u = t /\ i = 1
    BY <1>3, <1>4, <1>5 DEF Tracking, OneInEvent
\* Nothing changes for the other events.
<1>6. ASSUME NEW e \in Leads, e # f \/ ~ BeginsProfile(t, e) PROVE Following(e, N)
    <2>1. e \in M => e \in N
        BY <1>1, <1>2, <1>6 DEF BeginsProfile
    <2>2. Following(e, M)
        BY DEF Tracking
    <2>3. QED
        BY <2>1, <2>2, Excepted
<1>7. ASSUME NEW cs, Stepped(t, cs), NEW e \in Leads, e # f, e \in active' <=> e \in active,
             \A k \in 1 .. Len(cs) : ~ Activates(cs[k], e), Relays(t, cs, e, N)
      PROVE  Following(e, N)'
    <2>1. ~ Activates(Top(t), e)
        BY <1>1, <1>2, <1>7 DEF Activates
    <2>2. Wanted(e)' = Wanted(e)
        BY <1>7, <2>1, WantedKept
    <2>3. Following(e, N)
        BY <1>7, <1>6
    <2>4. QED
        BY <1>4, <1>7, <2>2, <2>3, FollowingKept
<1>8. ASSUME Stepped(t, <<>>), \A e \in Leads : e # f => (e \in active' <=> e \in active),
             f \in Leads => ~ BeginsProfile(t, f) /\ Wanted(f)' = Wanted(f)
      PROVE  Tracking(N)'
    <2>1. PICK cs : cs = <<>>
        OBVIOUS
    <2>2. Stepped(t, cs) /\ 1 .. Len(cs) = {}
        BY <1>8, <2>1, NoCalls
    <2>3. EventsFit(t, cs)
        BY <2>2 DEF EventsFit
    <2>4. OneInEvent'
        BY <2>2, <2>3, OneInEventKept DEF Tracking
    <2>5. \A e : Relays(t, cs, e, N)
        BY <1>1, <1>3, <1>4, <2>2, IdleRelays
    <2>6. ASSUME NEW e \in Leads PROVE Following(e, N)'
        <3>1. CASE e # f
            BY <1>7, <1>8, <2>2, <2>5, <3>1
        <3>2. CASE e = f
            <4>1. Following(e, N)
                BY <1>8, <1>6, <3>2
            <4>2. QED
                BY <1>4, <1>8, <2>2, <2>5, <3>2, <4>1, FollowingKept
        <3>3. QED
            BY <3>1, <3>2
    <2>7. QED
        BY <2>4, <2>6, Zenon DEF Tracking, Leads, Driven
<1>9. ASSUME NEW els \in {profile[f], inverted[f]}, NEW n \in Checks, c.at = "test",
             n.event = f, n.at \in {"activate", "leave"}, Stepped(t, <<scheduleAll(els), n>>),
             \A e \in Leads : e # f => (e \in active' <=> e \in active),
             f \in Leads =>
                 els = IF f \in active' \/ n.at = "activate" THEN profile[f] ELSE inverted[f]
      PROVE  Tracking(N)'
    <2>1. PICK x : x = scheduleAll(els)
        OBVIOUS
    <2>2. PICK cs : cs = <<x, n>>
        OBVIOUS
    <2>3. x \in Call /\ x.op = "scheduleAll" /\ x.at = "next" /\ x.todo = els
        <3>1. els \subseteq Element
            BY <1>3 DEF ConstantsAssumption
        <3>2. x \in Profiles
            BY <2>1, <3>1 DEF scheduleAll, Profiles
        <3>3. QED
            BY <2>1, <3>2, KindsAreCalls DEF scheduleAll
    <2>4. n \in Call /\ n.op = "checkIfTriggered"
        BY <1>9, KindsAreCalls DEF Checks
    <2>5. /\ Len(cs) = 2 /\ cs[1] = x /\ cs[2] = n /\ Stepped(t, cs)
          /\ \A k \in 1 .. Len(cs) : (k = 1 /\ cs[k] = x) \/ (k = 2 /\ cs[k] = n)
        BY <1>9, <2>1, <2>2, <2>3, <2>4, PairOfCalls
    <2>6. OneInEvent'
        <3>1. EventsFit(t, cs)
            BY <1>1, <1>3, <1>9, <2>3, <2>5 DEF EventsFit, InEvent
        <3>2. QED
            BY <2>5, <3>1, OneInEventKept DEF Tracking
    <2>7. ASSUME NEW e \in Leads, e # f PROVE Following(e, N)'
        <3>1. Relays(t, cs, e, N)
            BY <1>1, <1>3, <1>4, <1>9, <2>3, <2>4, <2>5, <2>7, OtherProfileRelays
        <3>2. \A k \in 1 .. Len(cs) : ~ Activates(cs[k], e)
            BY <1>9, <2>3, <2>5, <2>7 DEF Activates
        <3>3. QED
            BY <1>7, <1>9, <2>5, <2>7, <3>1, <3>2
    <2>8. ASSUME f \in Leads PROVE Following(f, N)'
        <3>1. Activating(f)' <=> n.at = "activate"
            <4>1. ASSUME NEW u \in Threads, NEW l \in DOMAIN stack'[u], Activates(stack'[u][l], f)
                  PROVE  n.at = "activate"
                <5>1. ASSUME NEW i \in DOMAIN stack[u], ~ (u = t /\ i = 1), stack'[u][l] = stack[u][i]
                      PROVE  FALSE
                    <6>1. InEvent(stack[u][i], f)
                        BY <4>1, <5>1 DEF Activates, InEvent
                    <6>2. QED
                        BY <1>5, <5>1, <6>1
                <5>2. u = t /\ l \in 1 .. Len(cs) /\ stack'[u][l] = cs[l]
                    BY <2>5, <5>1, NoOthers
                <5>3. QED
                    BY <2>3, <2>5, <4>1, <5>2 DEF Activates
            <4>2. ASSUME n.at = "activate"
                  PROVE  \E l \in DOMAIN stack'[t] : Activates(stack'[t][l], f)
                <5>1. Stepped(t, cs) /\ 2 \in 1 .. Len(cs) /\ cs[2] = n
                    BY <2>5
                <5>2. \A k \in 1 .. Len(cs) : k \in DOMAIN stack'[t] /\ stack'[t][k] = cs[k]
                    BY <5>1, NewStay
                <5>3. QED
                    BY <1>9, <2>4, <4>2, <5>1, <5>2 DEF Activates
            <4>3. QED
                BY <4>1, <4>2, Zenon DEF Activating, Activates
        <3>2. els = Wanted(f)'
            BY <1>9, <2>8, <3>1 DEF Wanted
        <3>3. InEvent(Top(t), f) /\ ~ RunsProfile(Top(t), f) /\ RunsProfile(cs[2], f)
            BY <1>1, <1>3, <1>9, <2>4, <2>5 DEF RunsProfile
        <3>4. cs[1].op = "scheduleAll" /\ cs[1].at = "next" /\ cs[1].todo = Wanted(f)'
            BY <2>3, <2>5, <3>2
        <3>5. QED
            BY <2>5, <2>8, <3>3, <3>4, FollowingStarts DEF Tracking
    <2>9. QED
        BY <2>6, <2>7, <2>8, Zenon DEF Tracking, Leads, Driven
<1>10. CASE Activate(t)
    <2>1. c.at = "activate" /\ active' = active \cup {f} /\ Stepped(t, <<>>)
        BY <1>1, <1>2, <1>10, ActivateStep
    <2>2. Wanted(f)' = Wanted(f)
        <3>1. Activates(c, f)
            BY <1>2, <1>3, <2>1 DEF Activates
        <3>2. Activating(f)
            BY <1>4, <3>1 DEF Activating
        <3>3. QED
            BY <2>1, <3>2 DEF Wanted
    <2>3. ~ BeginsProfile(t, f)
        BY <1>1, <2>1 DEF BeginsProfile, Trigger, Deactivate, At, Top
    <2>4. QED
        BY <1>8, <2>1, <2>2, <2>3
<1>11. CASE Trigger(t)
    <2>1. PICK n : n = [c EXCEPT !.at = "activate", !.asked = {}]
        OBVIOUS
    <2>2. c.at = "test" /\ n \in Checks /\ Stepped(t, <<scheduleAll(profile[f]), n>>)
        BY <1>1, <1>2, <1>11, <2>1, TriggerStep
    <2>3. n.event = f /\ n.at = "activate"
        BY <1>2, <1>3, <2>1 DEF Checks
    <2>4. UNCHANGED active
        BY <1>11 DEF Trigger
    <2>5. QED
        BY <1>9, <2>2, <2>3, <2>4
<1>12. CASE Deactivate(t)
    <2>1. PICK n : n = [c EXCEPT !.at = "leave", !.asked = {}]
        OBVIOUS
    <2>2. /\ c.at = "test" /\ active' = active \ {f}
          /\ \/ f \notin active \cap unTrigger /\ Stepped(t, <<>>)
             \/ n \in Checks /\ Stepped(t, <<scheduleAll(inverted[f]), n>>)
        BY <1>1, <1>2, <1>12, <2>1, DeactivateStep
    <2>3. n.event = f /\ n.at = "leave"
        BY <1>2, <1>3, <2>1 DEF Checks
    <2>4. CASE f \notin active \cap unTrigger /\ Stepped(t, <<>>)
        <3>1. ASSUME f \in Leads PROVE Wanted(f)' = Wanted(f)
            <4>1. f \notin active /\ f \notin active'
                BY <2>2, <2>4, <3>1 DEF Leads
            <4>2. PICK cs : cs = <<>>
                OBVIOUS
            <4>3. Stepped(t, cs) /\ 1 .. Len(cs) = {}
                BY <2>4, <4>2, NoCalls
            <4>4. ~ Activates(Top(t), f)
                BY <1>1, <2>2 DEF Activates
            <4>5. QED
                BY <4>1, <4>3, <4>4, WantedKept
        <3>2. ASSUME f \in Leads PROVE ~ BeginsProfile(t, f)
            BY <1>12, <2>4, <3>2 DEF BeginsProfile, Trigger, Deactivate, Leads
        <3>3. QED
            BY <1>8, <2>2, <2>4, <3>1, <3>2
    <2>5. CASE n \in Checks /\ Stepped(t, <<scheduleAll(inverted[f]), n>>)
        BY <1>9, <2>2, <2>3, <2>5
    <2>6. QED
        BY <2>2, <2>4, <2>5
<1>13. QED
    BY <1>10, <1>11, <1>12

\* The beginnings and the ends of what a thread does are not about the outputs.
LEMMA RestartTracks ==
    ASSUME ConstantsAssumption, OutputsApart, Structure, NEW M, Tracking(M),
           \/ \E t \in Threads : /\ IsLocked(t) /\ Throw(t)
                                 /\ \A e \in Leads \ M : \A i \in DOMAIN stack[t] : ~ InEvent(stack[t][i], e)
           \/ \E u \in Users : ScheduleAction(u) \/ TriggerProfile(u)
           \/ \E d \in Polled : Poll(d)
    PROVE  Tracking(M)'
<1>1. ASSUME NEW t, NEW s, Restarted(t, s), UNCHANGED active,
             \A e \in Leads : \A d \in Outputs(e) : actual'[d] = actual[d],
             \A e \in Leads \ M : \A i \in DOMAIN stack[t] : ~ Activates(stack[t][i], e) /\
                 \A d \in Outputs(e), v \in Values : ~ ToSet(stack[t][i], d, v),
             \A e \in Leads : \A i \in DOMAIN s : \A d \in Outputs(e), v \in Values : ~ Sets(s[i], d, v)
      PROVE  Tracking(M)'
    <2>1. OneInEvent'
        BY <1>1, OneInEventRestarted DEF Tracking
    <2>2. ASSUME NEW e \in Leads PROVE Following(e, M)'
        BY <1>1, FollowingRestarted DEF Tracking
    <2>3. QED
        BY <2>1, <2>2, Zenon DEF Tracking, Leads, Driven
<1>2. ASSUME NEW t \in Threads, IsLocked(t), Throw(t),
             \A e \in Leads \ M : \A i \in DOMAIN stack[t] : ~ InEvent(stack[t][i], e)
      PROVE  Tracking(M)'
    <2>1. PICK s : s = <<>>
        OBVIOUS
    <2>2. Restarted(t, s) /\ DOMAIN s = {}
        BY <1>2, <2>1, ThrowRestarts, NoCalls
    <2>3. UNCHANGED <<actual, active>>
        BY <1>2 DEF IsLocked
    <2>4. ASSUME NEW e \in Leads \ M, NEW i \in DOMAIN stack[t] PROVE ~ Activates(stack[t][i], e)
        BY <1>2, <2>4 DEF Activates, InEvent
    <2>5. ASSUME NEW e \in Leads \ M, NEW i \in DOMAIN stack[t], NEW d \in Outputs(e), NEW v \in Values,
                 ToSet(stack[t][i], d, v)
          PROVE  FALSE
        <3>1. Following(e, M) /\ Sets(stack[t][i], d, v)
            BY <2>5 DEF Tracking, ToSet
        <3>2. Under(t, i, e)
            BY <3>1 DEF Following
        <3>3. QED
            BY <1>2, <3>2 DEF Under, RunsProfile, InEvent
    <2>6. QED
        BY <1>1, <2>2, <2>3, <2>4, <2>5
<1>3. ASSUME NEW u \in Users, NEW c, Request(u, c), Restarted(u, <<c>>), c \in Call,
             \A e \in Leads : \A d \in Outputs(e), v \in Values : ~ Sets(c, d, v)
      PROVE  Tracking(M)'
    <2>1. PICK s : s = <<c>>
        OBVIOUS
    <2>2. Restarted(u, s) /\ DOMAIN s = {1} /\ s[1] = c
        BY <1>3, <2>1, OneCall
    <2>3. UNCHANGED <<actual, active>> /\ DOMAIN stack[u] = {}
        BY <1>3, NoCalls DEF Request
    <2>4. QED
        BY <1>1, <1>3, <2>2, <2>3
<1>4. ASSUME NEW u \in Users, NEW el \in Commands, Request(u, schedule(el)) PROVE Tracking(M)'
    <2>1. PICK c : c = schedule(el)
        OBVIOUS
    <2>2. Restarted(u, <<c>>) /\ c \in Schedulings /\ c.op = "scheduleAction" /\ c.el = el
        BY <1>4, <2>1, ScheduleActionRestarts DEF schedule
    <2>3. \A e \in Leads : \A d \in Outputs(e), v \in Values : ~ Sets(c, d, v)
        BY <2>2, OutputFacts DEF Sets
    <2>4. QED
        BY <1>3, <1>4, <2>1, <2>2, <2>3, KindsAreCalls
<1>5. ASSUME NEW u \in Users, NEW f \in Triggered, Request(u, scheduleAll(profile[f])) PROVE Tracking(M)'
    <2>1. PICK c : c = scheduleAll(profile[f])
        OBVIOUS
    <2>2. Restarted(u, <<c>>) /\ c \in Profiles /\ c.op = "scheduleAll" /\ c.todo = profile[f]
        BY <1>5, <2>1, TriggerProfileRestarts DEF scheduleAll
    <2>3. ASSUME NEW e \in Leads, NEW d \in Outputs(e), NEW v, Sets(c, d, v) PROVE FALSE
        <3>1. PICK g \in profile[f] : g.dev = d
            BY <2>2, <2>3 DEF Sets
        <3>2. f \in Events /\ g \in profile[f] \cup inverted[f]
            BY <3>1 DEF ConstantsAssumption
        <3>3. f = e
            BY <3>1, <3>2, OutputFacts
        <3>4. QED
            BY <3>3, OutputFacts
    <2>4. QED
        BY <1>3, <1>5, <2>1, <2>2, <2>3, KindsAreCalls
<1>6. ASSUME NEW d \in Polled, Poll(d) PROVE Tracking(M)'
    <2>1. PICK c : c = [op |-> "run", at |-> "snapshot", dev |-> d]
        OBVIOUS
    <2>2. PICK s : s = <<c>>
        OBVIOUS
    <2>3. /\ Restarted(d, s) /\ c \in Runs /\ \E v \in Values : actual' = [actual EXCEPT ![d] = v]
        BY <1>6, <2>1, <2>2, PollRestarts
    <2>4. DOMAIN s = {1} /\ s[1] = c /\ c.op = "run"
        BY <2>1, <2>2, <2>3, OneCall, KindsAreCalls
    <2>5. UNCHANGED active /\ DOMAIN stack[d] = {}
        BY <1>6, NoCalls DEF Poll
    <2>6. ASSUME NEW e \in Leads, NEW x \in Outputs(e) PROVE actual'[x] = actual[x]
        <3>1. x # d /\ x \in Devices
            BY OutputFacts
        <3>2. QED
            BY <2>3, <3>1 DEF Structure, Typed
    <2>7. \A e \in Leads : \A i \in DOMAIN s : \A x \in Outputs(e), v \in Values : ~ Sets(s[i], x, v)
        BY <2>4 DEF Sets
    <2>8. QED
        BY <1>1, <2>3, <2>5, <2>6, <2>7
<1>7. QED
    BY <1>2, <1>4, <1>5, <1>6 DEF ScheduleAction, TriggerProfile

\* Nothing is under way at the beginning, and the outputs are where they are to be.
LEMMA InitTracking ==
    ASSUME ConstantsAssumption, OutputsApart, InvertedAtFirst, Init
    PROVE  Tracking({})
<1>1. \A t \in Threads : DOMAIN stack[t] = {}
    BY NoCalls DEF Init
<1>2. OneInEvent
    BY <1>1 DEF OneInEvent
<1>3. ASSUME NEW e \in Leads PROVE Following(e, {})
    <2>1. Wanted(e) = inverted[e]
        BY <1>1 DEF Wanted, Activating, Init
    <2>2. \A el \in inverted[e] : actual[el.dev] = el.val
        BY DEF InvertedAtFirst, Leads, Init
    <2>3. QED
        BY <1>1, <2>1, <2>2 DEF Following
<1>4. QED
    BY <1>2, <1>3 DEF Tracking

\* Every step but an exception keeps the outputs with their events.
LEMMA StepTracks ==
    ASSUME ConstantsAssumption, RulesEnd, OutputsApart, Structure, Ordered, CacheInv,
           NEW M, Tracking(M), [Next]_vars, ~ \E t \in Threads : IsLocked(t) /\ Throw(t)
    PROVE  Tracking(M)'
<1>1. ASSUME NEW t \in Threads, Step(t) PROVE Tracking(M)'
    <2>1. CASE \/ IsLocked(t) /\ ~ Throw(t)
               \/ Apply(t)
               \/ SetLock(t)
               \/ NextElement(t)
               \/ Execute(t)
        BY <2>1, SchedulingTracks
    <2>2. CASE \/ LeaveDevice(t) \/ Snapshot(t) \/ Compare(t) \/ Put(t) \/ NextEvent(t)
               \/ EnterEvent(t) \/ StayActive(t) \/ LeaveEvent(t)
        BY <2>2, IdleTracks
    <2>3. CASE Activate(t) \/ Trigger(t) \/ Deactivate(t)
        BY <2>3, CheckTracks
    <2>4. QED
        BY <1>1, <2>1, <2>2, <2>3 DEF Step
<1>2. CASE (\E u \in Users : ScheduleAction(u) \/ TriggerProfile(u)) \/ \E d \in Polled : Poll(d)
    BY <1>2, RestartTracks
<1>3. CASE UNCHANGED vars
    <2>1. UNCHANGED <<actual, active, stack>>
        BY <1>3 DEF vars
    <2>2. OneInEvent'
        BY <2>1 DEF Tracking, OneInEvent, InEvent
    <2>3. ASSUME NEW e \in Leads PROVE Following(e, M)'
        <3>1. Activating(e)' <=> Activating(e)
            BY <2>1 DEF Activating, Activates
        <3>2. Wanted(e)' = Wanted(e)
            BY <2>1, <3>1 DEF Wanted
        <3>3. Following(e, M)
            BY DEF Tracking
        <3>4. \A u, l : Under(u, l, e)' <=> Under(u, l, e)
            BY <2>1 DEF Under, RunsProfile
        <3>5. /\ \A u \in Threads : \A l \in DOMAIN stack'[u] : \A d \in Outputs(e), v \in Values :
                     Sets(stack'[u][l], d, v) =>
                         (e \in M \/ \E el \in Wanted(e)' : el.dev = d /\ el.val = v) /\ Under(u, l, e)'
              /\ e \in M \/ \A el \in Wanted(e)' :
                     \/ actual'[el.dev] = el.val
                     \/ \E u \in Threads : \E l \in DOMAIN stack'[u] :
                            ToSet(stack'[u][l], el.dev, el.val)
            BY <2>1, <3>2, <3>3, <3>4 DEF Following
        <3>6. QED
            BY <3>5, FollowingNext
    <2>4. QED
        BY <2>2, <2>3, Zenon DEF Tracking, Leads, Driven
<1>4. QED
    BY <1>1, <1>2, <1>3 DEF Next

\* Two profiles do not begin in the same step.
LEMMA OneBegins ==
    ASSUME ConstantsAssumption, Structure,
           NEW t \in Threads, NEW e \in Leads, BeginsProfile(t, e),
           NEW u \in Threads, NEW f \in Leads, BeginsProfile(u, f)
    PROVE  t = u
<1>1. ASSUME NEW v \in Threads, NEW g \in Leads, BeginsProfile(v, g)
      PROVE  \E cs : Stepped(v, cs) /\ Len(cs) = 2
    <2>1. PICK c : c = Top(v)
        OBVIOUS
    <2>2. ASSUME NEW els, els \subseteq Element, NEW p, NEW n, n = [c EXCEPT !.at = p, !.asked = {}],
                 n \in Checks, Stepped(v, <<scheduleAll(els), n>>)
          PROVE  \E cs : Stepped(v, cs) /\ Len(cs) = 2
        <3>1. PICK x : x = scheduleAll(els)
            OBVIOUS
        <3>2. x \in Call /\ n \in Call
            BY <2>2, <3>1, KindsAreCalls DEF scheduleAll, Profiles
        <3>3. PICK cs : cs = <<x, n>>
            OBVIOUS
        <3>4. Stepped(v, cs) /\ Len(cs) = 2
            BY <2>2, <3>1, <3>2, <3>3, PairOfCalls
        <3>5. QED
            BY <3>4
    <2>3. g \in Events /\ g \in unTrigger /\ c.event = g
        BY <1>1, <2>1 DEF BeginsProfile, Leads, ConstantsAssumption
    <2>4. profile[g] \subseteq Element /\ inverted[g] \subseteq Element
        BY <2>3 DEF ConstantsAssumption
    <2>5. CASE Trigger(v)
        <3>1. PICK n : n = [c EXCEPT !.at = "activate", !.asked = {}]
            OBVIOUS
        <3>2. n \in Checks /\ Stepped(v, <<scheduleAll(profile[g]), n>>)
            BY <2>1, <2>3, <2>5, <3>1, TriggerStep
        <3>3. QED
            BY <2>2, <2>4, <3>1, <3>2
    <2>6. CASE Deactivate(v) /\ g \in active
        <3>1. PICK n : n = [c EXCEPT !.at = "leave", !.asked = {}]
            OBVIOUS
        <3>2. n \in Checks /\ Stepped(v, <<scheduleAll(inverted[g]), n>>)
            BY <2>1, <2>3, <2>6, <3>1, DeactivateStep
        <3>3. QED
            BY <2>2, <2>4, <3>1, <3>2
    <2>7. QED
        BY <1>1, <2>5, <2>6 DEF BeginsProfile
<1>2. PICK cs : Stepped(t, cs)
    BY <1>1
<1>3. PICK ds : Stepped(u, ds) /\ Len(ds) = 2
    BY <1>1
<1>4. QED
    BY <1>2, <1>3, OneSteps

\* Every step keeps the outputs with the events whose profiles no exception has stopped.
LEMMA NextTracking ==
    ASSUME ConstantsAssumption, RulesEnd, OutputsApart, Structure, Ordered, CacheInv,
           Tracking(undone), [HNext]_historyVars
    PROVE  Tracking(undone)'
<1>1. PICK M : M = undone
    OBVIOUS
<1>2. PICK N : N = undone'
    OBVIOUS
<1>3. Tracking(M)
    BY <1>1 DEF Tracking
<1>4. ASSUME NEW e \in Leads \ N
      PROVE  /\ e \notin M \/ \E u \in Threads : BeginsProfile(u, e)
             /\ \A t \in Threads : IsLocked(t) /\ Throw(t) =>
                    \A i \in DOMAIN stack[t] : ~ InEvent(stack[t][i], e)
    <2>1. CASE HNext
        <3>1. e \in Events
            BY OutputFacts
        <3>2. QED
            BY <1>1, <1>2, <1>4, <2>1, <3>1 DEF HNext, Cuts
    <2>2. CASE UNCHANGED historyVars
        <3>1. undone' = undone /\ UNCHANGED stack
            BY <2>2 DEF historyVars, vars
        <3>2. ASSUME NEW t \in Threads, IsLocked(t), Throw(t) PROVE FALSE
            <4>1. stack[t] # <<>> /\ stack'[t] = <<>>
                BY <3>2 DEF IsLocked, At, Throw, Structure, Typed
            <4>2. QED
                BY <3>1, <4>1
        <3>3. QED
            BY <1>1, <1>2, <3>1, <3>2
    <2>3. QED
        BY <2>1, <2>2
<1>5. Tracking(N)'
    <2>1. CASE \E t \in Threads, e \in Leads : BeginsProfile(t, e)
        <3>1. PICK t \in Threads, f \in Leads : BeginsProfile(t, f)
            BY <2>1
        <3>2. \A e \in Leads \ N : e \notin M \/ BeginsProfile(t, e)
            BY <1>4, <3>1, OneBegins
        <3>3. Trigger(t) \/ Deactivate(t)
            BY <3>1 DEF BeginsProfile
        <3>4. QED
            BY <1>3, <3>2, <3>3, CheckTracks
    <2>2. CASE ~ \E t \in Threads, e \in Leads : BeginsProfile(t, e)
        <3>1. ASSUME NEW e \in Leads PROVE e \in M => e \in N
            BY <1>4, <2>2, <3>1
        <3>2. Tracking(N)
            BY <1>3, <3>1, Excepted DEF Tracking
        <3>3. CASE \E t \in Threads : IsLocked(t) /\ Throw(t)
            <4>1. PICK t \in Threads : IsLocked(t) /\ Throw(t)
                BY <3>3
            <4>2. \A e \in Leads \ N : \A i \in DOMAIN stack[t] : ~ InEvent(stack[t][i], e)
                BY <1>4, <4>1
            <4>3. QED
                BY <3>2, <4>1, <4>2, RestartTracks
        <3>4. CASE ~ \E t \in Threads : IsLocked(t) /\ Throw(t)
            BY <3>2, <3>4, StepTracks, HistoryWatches
        <3>5. QED
            BY <3>3, <3>4
    <2>3. QED
        BY <2>1, <2>2
<1>6. QED
    BY <1>2, <1>5 DEF Tracking, Following, Leads, Driven

\* When nothing is under way, nothing is left to be set.
LEMMA QuietOutputs == Tracking(undone) => OutputsFollow
<1> SUFFICES ASSUME Tracking(undone), Quiet, NEW e \in unTrigger \ undone, Driven(e),
                    NEW el \in (IF e \in active THEN profile[e] ELSE inverted[e])
             PROVE  actual[el.dev] = el.val
    BY DEF OutputsFollow
<1>1. e \in Leads /\ Following(e, undone)
    BY DEF Leads, Tracking
<1>2. \A t \in Threads : DOMAIN stack[t] = {}
    BY NoCalls DEF Quiet
<1>3. Wanted(e) = IF e \in active THEN profile[e] ELSE inverted[e]
    BY <1>2 DEF Wanted, Activating
<1>4. QED
    BY <1>1, <1>2, <1>3 DEF Following

\* The devices that only an untriggering event drives are, whenever nothing is under way,
\* where its profile or its inverted profile wants them, in whatever order the threads came
\* through (EventProcessingService.java:56-89, PrimaryNodeControllerImpl.scheduleAll), also
\* after exceptions of locked devices; an event whose profile one stopped is excepted until
\* it runs a profile again.  It takes that no chain of rules goes on for ever, that such a
\* device is set by one event, to one value, and does not change by itself, and that it
\* begins where the inverted profile wants it.
THEOREM OutputsFollowEvents ==
    ASSUME RulesEnd, OutputsApart, InvertedAtFirst
    PROVE  HSpec => []OutputsFollow
<1> DEFINE I == Structure /\ Ordered /\ CacheInv /\ Tracking(undone)
<1>1. HInit => I
    <2> SUFFICES ASSUME HInit PROVE I
        OBVIOUS
    <2>1. Structure /\ Ordered /\ CacheInv /\ Tracking({})
        BY ConstantsAssumption, InitStructure, InitDescending, InitCache, InitTracking
           DEF HInit, Ordered
    <2>2. QED
        BY <2>1 DEF HInit, Tracking
<1>2. I /\ [HNext]_historyVars => I'
    <2> SUFFICES ASSUME I, [HNext]_historyVars PROVE I'
        OBVIOUS
    <2>1. Structure' /\ Ordered' /\ CacheInv'
        BY ConstantsAssumption, HistoryWatches, NextStructure, NextOrdered, NextCache
    <2>2. Tracking(undone)'
        BY ConstantsAssumption, NextTracking
    <2>3. QED
        BY <2>1, <2>2
<1>3. I => OutputsFollow
    BY QuietOutputs
<1>4. QED
    BY <1>1, <1>2, <1>3, PTL DEF HSpec
=============================================================================
