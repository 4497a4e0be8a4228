---------------------------- MODULE MCThermostat ----------------------------
(* Small instances of Thermostat for TLC.                                  *)
EXTENDS Thermostat

\* One temperature, between two targets users can set; 80 is out of range.
MCReadingTemps == {70}
MCRequestTemps == {71, 80}

\* The state saved before a reload.
MCLoadRequests == {[temp |-> NoParam, mode |-> "COOL"]}
=============================================================================
