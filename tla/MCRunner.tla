------------------------------- MODULE MCRunner -------------------------------
(***************************************************************************)
(* Runner for TLC: a switch whose commands refresh a select with tickers   *)
(* as well, and before them a select that is left out if its options are   *)
(* not found (aux) and one without which the plugin cannot start (dock).   *)
(***************************************************************************)
EXTENDS Runner

MCOrder     == <<"aux", "dock", "hdr", "mode">>
MCActions   == {"aux", "dock", "hdr", "mode"}
MCValues    == {"hd", "uhd", "on", "off"}
MCLists     == {{"hd"}, {"uhd"}}
MCStatic    == [a \in MCActions |-> CASE a = "hdr"  -> {"on", "off"}
                                      [] a = "mode" -> {"hd"}
                                      [] OTHER      -> {}]
MCRefreshes == [a \in MCActions |-> IF a = "hdr" THEN {"hdr", "mode"} ELSE {a}]

\* One of the initial states.
MCInit == Init /\ val = [a \in MCActions |-> IF a = "hdr" THEN "off" ELSE "hd"]

MCSpec == MCInit /\ [][Next]_vars /\ Fairness
=============================================================================
