--------------------------- MODULE MCMqttCommands ---------------------------
(***************************************************************************)
(* MqttCommands for TLC: capacities small enough to overflow both queues.  *)
(***************************************************************************)
EXTENDS MqttCommands
=============================================================================
