---------------------------- MODULE MC_Deployment ----------------------------
(* Model-checking instance of Deployment: one gameserver and one gateway,   *)
(* each with a Consul agent of its own or sharing one, as server.yaml's     *)
(* consul.addr names a local agent per host or one agent for all.           *)
EXTENDS Deployment

MCAgentOfShared == [p \in Procs |-> "consul"]
==============================================================================
