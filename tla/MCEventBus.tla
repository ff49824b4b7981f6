----------------------------- MODULE MCEventBus -----------------------------
(***************************************************************************)
(* EventBus for TLC: two publishers with two events each and one           *)
(* subscription, so that queue, hand and channel of run() all fill up      *)
(* while it is made, read and cancelled.  What holds of several            *)
(* subscriptions at once is proved in EventBus_proofs.                     *)
(***************************************************************************)
EXTENDS EventBus
=============================================================================
