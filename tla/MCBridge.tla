------------------------------ MODULE MCBridge ------------------------------
(***************************************************************************)
(* Instances of Bridge for TLC.  The second call is given more time than   *)
(* BRIDGE_TIMEOUT_MS, as schematic.getNetDetail is by default.             *)
(***************************************************************************)
EXTENDS Bridge

MCtimeoutMs == [c \in 1..MaxCall |-> c]
=============================================================================
