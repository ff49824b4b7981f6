----------------------------- MODULE MCInhibitor -----------------------------
(***************************************************************************)
(* Inhibitor for TLC.                                                      *)
(***************************************************************************)
EXTENDS Inhibitor
=============================================================================
