--------------------------- MODULE MCMqttPublisher ---------------------------
(***************************************************************************)
(* MqttPublisher for TLC.  What an entity carries is only compared, so the *)
(* members of Data may be exchanged.                                       *)
(***************************************************************************)
EXTENDS MqttPublisher, TLC

Symmetry == Permutations(Data)
=============================================================================
