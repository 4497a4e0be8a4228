---- MODULE MCPigpiod ----
(* Instances of Pigpiod for TLC. *)
EXTENDS Pigpiod
CONSTANTS d1, d2, d3
Three == {d1, d2, d3}
====
