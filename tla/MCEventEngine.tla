--------------------------- MODULE MCEventEngine ---------------------------
(* Three handlers: h1 and h2 under one id, h2 listens to both devices, any *)
(* of which suffices.  The clock reports times, the sensor numbers.        *)
EXTENDS EventEngine, TLC

CONSTANTS h1, h2, h3, i1, i2, clock, sensor, p1, n1, n2, r1

Of(v, t) == [p \in Params |-> IF p = "value" THEN v ELSE t]
Range(d, low, high) == [device |-> d, params |-> low, end |-> high, onChange |-> FALSE]

MCId == (h1 :> i1) @@ (h2 :> i1) @@ (h3 :> i2)
MCRanges ==
    (h1 :> <<Range(sensor, Of(1, Absent), Empty)>>)
    @@ (h2 :> <<Range(sensor, Of(1, Absent), Of(2, Absent)), Range(clock, Of(Absent, 0), Of(Absent, 2))>>)
    @@ (h3 :> <<Range(clock, Of(Absent, 0), Of(Absent, 2))>>)
MCDeps == [h \in Handlers |-> DevicesOf(MCRanges[h])]
MCProf == (h1 :> p1) @@ (h2 :> p1) @@ (h3 :> p1)
MCLists == {<<h2>>, <<h3>>, <<h1, h3>>}
MCSymmetry == Permutations({n1, n2})
MCStates == (sensor :> {Of(v, Absent) : v \in 0..1}) @@ (clock :> {Of(Absent, v) : v \in 1..2})
MCFirst == (sensor :> Of(0, Absent)) @@ (clock :> Of(Absent, 2))

\* The handlers are such that what is proved of ActiveAsRegistered is about them.
ASSUME RangesAndRequests == RangesFormed /\ OneAtATime /\ NothingMetAtFirst
=============================================================================
