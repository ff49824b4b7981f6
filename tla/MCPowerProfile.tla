--------------------------- MODULE MCPowerProfile ---------------------------
(***************************************************************************)
(* PowerProfile for TLC: both APIs, two profiles, a daemon that offers one *)
(* or both, and a signal channel of one entry.                             *)
(***************************************************************************)
EXTENDS PowerProfile

MCServices == <<"upower", "hadess">>
MCProfiles == {"saver", "balanced"}
MCLists == {{"saver"}, {"saver", "balanced"}}
MCPlaceholder == {"saver"}
=============================================================================
