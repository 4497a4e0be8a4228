-------------------------- MODULE MCDeviceLifecycle --------------------------
(* One device, and the requests that meet.                                 *)
EXTENDS DeviceLifecycle

CONSTANT lamp

MCOne == <<lamp>>
=============================================================================
