------------------------------- MODULE MC_Login -------------------------------
EXTENDS Login

(* One login server process; GetDefaultIDGenerator uses node ID 1. *)
MCGens == {"p1"}
MCNodeID == [g \in MCGens |-> 1]
MCProcOf == [h \in Handlers |-> "p1"]
==============================================================================
