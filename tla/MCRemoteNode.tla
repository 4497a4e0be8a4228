---------------------------- MODULE MCRemoteNode ----------------------------
(* A lamp whose state is saved and a detector that reads a repository.     *)
EXTENDS RemoteNode

CONSTANTS lamp, detector

MCDevices == {lamp, detector}
MCFragile == {detector}
MCSaved == {lamp}
=============================================================================
