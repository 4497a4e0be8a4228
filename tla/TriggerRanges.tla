--------------------------- MODULE TriggerRanges ---------------------------
(***************************************************************************)
(* When an event's condition is met: the ranges of an EventHandler over    *)
(* the states of the devices it names, and what those ranges mean.         *)
(* EventEngine evaluates its events by these definitions.                  *)
(***************************************************************************)
EXTENDS Integers, Sequences, FiniteSets

CONSTANTS
    Params,         \* the parameters of a state: "value", a number, or "time"
    MaxValue        \* their values are 0..MaxValue

ASSUME RangesAssumption == Params \subseteq {"value", "time"} /\ MaxValue \in Nat

Absent == -1
Partial == [Params -> Absent..MaxValue]
Empty == [p \in Params |-> Absent]

\* DeviceStateTriggerRange.checkBound: times exclude the bound, numbers include it.
CheckBound(p, lower, greater) ==
    /\ lower # Absent
    /\ greater = Absent \/ IF p = "time" THEN lower < greater ELSE lower <= greater

\* DeviceState.contains.
Contains(s, params) == \A p \in Params : params[p] # Absent => s[p] = params[p]

IsTriggered(r, s, changed) ==
    IF r.onChange THEN changed = r.device
    ELSE IF r.end = Empty THEN Contains(s, r.params)
    ELSE \A p \in Params :
             r.params[p] # Absent => CheckBound(p, r.params[p], s[p]) /\ CheckBound(p, s[p], r.end[p])

DevicesOf(ranges) == {ranges[k].device : k \in DOMAIN ranges}

\* The map of the current states cannot be made when two ranges name the same device.
Mapped(ranges) == Cardinality(DevicesOf(ranges)) = Len(ranges)

\* allStatesMet and anyStateMet.
StatesMet(ranges, requireAll, states, changed) ==
    LET triggered(k) == IsTriggered(ranges[k], states[ranges[k].device], changed)
    IN IF requireAll THEN \A k \in DOMAIN ranges : triggered(k)
       ELSE \E k \in DOMAIN ranges : triggered(k)

-----------------------------------------------------------------------------
(* What a range means, in the words of its bounds.                         *)

\* A value for each bounded parameter, at or between its bounds; a range without an end
\* is one value.
Within(r, s) ==
    \A p \in Params :
        /\ r.params[p] # Absent => s[p] # Absent /\ r.params[p] <= s[p]
        /\ r.end = Empty => r.params[p] \in {Absent, s[p]}
        /\ r.end[p] # Absent => s[p] # Absent /\ s[p] <= r.end[p]

\* The same, with no time at a bound.
Inside(r, s) ==
    IF r.end = Empty THEN Within(r, s)
    ELSE Within(r, s) /\ \A p \in Params : p = "time" => s[p] \notin {r.params[p], r.end[p]} \ {Absent}
=============================================================================
