------------------------------- MODULE MC_RPC -------------------------------
(* Model-checking instance of RPC: two client goroutines making two calls *)
(* each to one endpoint whose pool holds one idle connection, so that a   *)
(* second returned connection finds the pool full, one call per method    *)
(* can miss its handler, and one CloseAllConnections and one server crash *)
(* can interleave with the calls.                                         *)
EXTENDS RPC, TLC

MCMethods    == {"Ping", "Missing"}
MCRegistered == {"Ping"}

(* Short byte strings; 255 makes a length read from the wrong offset     *)
(* negative.                                                               *)
MCMethodName == [m \in MCMethods |-> IF m = "Ping" THEN <<80, 255>> ELSE <<77>>]
MCErrText == [e \in {"none", "handler", "notFound"} |->
                IF e = "none" THEN <<>> ELSE IF e = "handler" THEN <<255>> ELSE <<110, 0>>]
MCPayload == <<0>>

(* Consul lists every endpoint as an instance of each service. *)
MCInstances == [sv \in Services |-> SetToSeq(Endpoints)]

(* Client goroutines are interchangeable. *)
ClientSymmetry == Permutations(Clients)
=============================================================================
