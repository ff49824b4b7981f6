------------------------------ MODULE MCRuntime ------------------------------
(***************************************************************************)
(* Runtime for TLC: two configs that enable different plugins.             *)
(***************************************************************************)
EXTENDS Runtime

CONSTANTS c1, c2, bad

MCConfigs == {c1, c2}
MCEnabled == [c \in MCConfigs |-> IF c = c1 THEN {1, 2} ELSE {2}]
=============================================================================
