---------------------------- MODULE MCPluginScope ----------------------------
(***************************************************************************)
(* PluginScope for TLC.  a1 and a2 are two runs of one plugin, which is    *)
(* stopped and started again.                                              *)
(***************************************************************************)
EXTENDS PluginScope

CONSTANTS a1, a2, e1, e2

MCEntities == {e1, e2}

\* Restart: both runs have both entities.
RestartScopes   == {a1, a2}
RestartDeclares == [s \in RestartScopes |-> MCEntities]
=============================================================================
