------------------------------ MODULE MC_SimClient ------------------------------
EXTENDS SimClient

(* One login server process; GetDefaultIDGenerator uses node ID 1. *)
MCGens == {"p1"}
MCNodeID == [g \in MCGens |-> 1]
MCProcOf == [h \in Handlers |-> "p1"]

(* The library client logs in under the one user name, as the other    *)
(* handler's users may.                                                 *)
MCUsername == [c \in Clients |-> CHOOSE n \in Nicks : TRUE]
==============================================================================
