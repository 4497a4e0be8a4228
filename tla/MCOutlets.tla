---- MODULE MCOutlets ----
(* Instances of Outlets for TLC. *)
EXTENDS Outlets
CONSTANTS lamp, fan
Two == {lamp, fan}
\* Each code word is one or two digits from the others.
Codes == [o \in Outlets |-> [on \in BOOLEAN |->
  CASE o = lamp -> IF on THEN <<0, 0, 1>> ELSE <<0, 1, 0>>
    [] o = fan -> IF on THEN <<1, 0, 1>> ELSE <<1, 1, 0>>]]
==========================
