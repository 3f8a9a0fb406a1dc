----------------------------- MODULE Deployment -----------------------------
(***************************************************************************)
(* The server processes' lifecycles against the Consul agents they         *)
(* register with: cmd/gameserver/gameserver.go main, cmd/gatewayserver/    *)
(* gateway.go main and infra/consul/consul.go.  Each process starts, runs  *)
(* its Consul registrations, listens, serves until a signal, stops and     *)
(* deregisters; a log.Fatalf or a panic ends it at any of its checks, the  *)
(* environment kills it, and an orchestrator restarts it.  The agents'     *)
(* catalogs are what DiscoverService (RPCClient.Call) and the simulator's  *)
(* DiscoverGatewayService list: no registration carries a health check,    *)
(* so an entry stays listed until it is deregistered.                     *)
(*                                                                         *)
(* Redis and the gRPC game service are abstracted to whether the Redis   *)
(* client exists, which decides a panic in the gameserver.  The           *)
(* gateway's NewGateway/Start/Stop live outside src/ and are taken to open *)
(* its two TCP listeners.                                                  *)
(***************************************************************************)
EXTENDS Naturals, FiniteSets

CONSTANTS
  GameServers,    \* gameserver processes
  Gateways,       \* gatewayserver processes
  Agents,         \* Consul agents
  AgentOf,        \* the agent cfg.Consul.Addr names for each process
  Misconfigured,  \* settings server.yaml leaves zero or empty
  NoEntry,        \* no registration under an ID
  MaxKills,       \* bound: processes killed by the environment
  MaxRestarts     \* bound: processes started again

Procs == GameServers \cup Gateways

(* Service IDs; every process registers each under a name equal to its ID. *)
GsRpc  == "gameserver-rpc"
GwGame == "gatewayserver-tcp-game"
GwRoom == "gatewayserver-tcp-room"
GwRpc  == "gatewayserver-rpc"
IDs == {GsRpc, GwGame, GwRoom, GwRpc}

(* The configured ports, named after the server.yaml settings. *)
Ports == {"gameserverRpc", "gatewayGameTcp", "gatewayRoomTcp", "gatewayRpc"}

Settings == {"gameserverRpcPort", "gatewayTcpPorts", "gatewayRpcPort", "host"}

ASSUME /\ GameServers \cap Gateways = {}
       /\ AgentOf \in [Procs -> Agents]
       /\ Misconfigured \subseteq Settings
       /\ MaxKills \in Nat /\ MaxRestarts \in Nat

(* A catalog entry, with the process incarnation that wrote it. *)
Entries == [port : Ports, by : Procs, inc : 0..MaxRestarts]

VARIABLES
  pc,          \* where each process's main is
  consulUp,    \* consulClient != nil (NewConsulClient succeeded)
  ids,         \* the service IDs main's shutdown will deregister
  catalog,     \* each agent's registrations: ID -> entry
  listening,   \* ports each process has a listener open on
  inc,         \* incarnation of each process
  kills,       \* environment kills so far
  restarts,    \* restarts so far
  regd,        \* history: IDs registered successfully in this incarnation
  exitKind,    \* history: "" (alive), "clean" (os.Exit(0)), "fatal", "killed"
  deregFailed  \* history: a DeregisterService of this incarnation failed

vars == <<pc, consulUp, ids, catalog, listening, inc, kills, restarts, regd,
          exitKind, deregFailed>>

-----------------------------------------------------------------------------
(* consul.go: the agent API.                                              *)
(***************************************************************************)

(* RegisterService: the agent stores the registration under its ID,       *)
(* replacing one already there; the HTTP call may fail.                    *)
RegisterService(cat, p, id, port, ok) ==
  IF ok THEN [cat EXCEPT ![AgentOf[p]][id] =
                [port |-> port, by |-> p, inc |-> inc[p]]]
        ELSE cat

(* DeregisterService removes whatever is registered under the ID. *)
DeregisterService(cat, p, id, ok) ==
  IF ok THEN [cat EXCEPT ![AgentOf[p]][id] = NoEntry] ELSE cat

(* A log.Fatalf or panic: the process dies, the OS closes its listeners,  *)
(* and nothing is deregistered.                                            *)
Die(p, kind) ==
  /\ pc' = [pc EXCEPT ![p] = "exited"]
  /\ listening' = [listening EXCEPT ![p] = {}]
  /\ exitKind' = [exitKind EXCEPT ![p] = kind]

Init ==
  /\ pc = [p \in Procs |-> "start"]
  /\ consulUp = [p \in Procs |-> FALSE]
  /\ ids = [p \in Procs |-> {}]
  /\ catalog = [a \in Agents |-> [id \in IDs |-> NoEntry]]
  /\ listening = [p \in Procs |-> {}]
  /\ inc = [p \in Procs |-> 0]
  /\ kills = 0 /\ restarts = 0
  /\ regd = [p \in Procs |-> {}]
  /\ exitKind = [p \in Procs |-> ""]
  /\ deregFailed = [p \in Procs |-> FALSE]

-----------------------------------------------------------------------------
(* gameserver.go main.                                                     *)
(***************************************************************************)

(* Up to the listener: the RPC port check, the MongoDB and Redis         *)
(* connections (failures only logged), NewConsulClient, and with a client *)
(* the host check and RegisterService of gameserver-rpc, whose ID is kept *)
(* for shutdown whether or not the call succeeded.  NewGameCoordinator    *)
(* (line 109) calls GetReal() on the Redis and Consul clients: a nil      *)
(* Redis client (redisUp false) panics after the registration; the       *)
(* MongoDB client is passed as is and does not decide the outcome.        *)
GsStart(g) ==
  /\ pc[g] = "start"
  /\ \E up, ok, redisUp \in BOOLEAN :
       IF "gameserverRpcPort" \in Misconfigured \/ (up /\ "host" \in Misconfigured)
                                                \/ ~up
         THEN /\ Die(g, "fatal")
              /\ consulUp' = [consulUp EXCEPT ![g] = up]
              /\ UNCHANGED <<ids, catalog, regd>>
         ELSE /\ consulUp' = [consulUp EXCEPT ![g] = TRUE]
              /\ catalog' = RegisterService(catalog, g, GsRpc, "gameserverRpc", ok)
              /\ ids' = [ids EXCEPT ![g] = {GsRpc}]
              /\ regd' = [regd EXCEPT ![g] = IF ok THEN {GsRpc} ELSE {}]
              /\ IF redisUp THEN /\ pc' = [pc EXCEPT ![g] = "listen"]
                              /\ UNCHANGED <<listening, exitKind>>
                         ELSE Die(g, "fatal")
  /\ UNCHANGED <<inc, kills, restarts, deregFailed>>

(* Faulty variant of GsListen: it binds the friendserver port that        *)
(* gameserver.go:108 formats just before the listen address.              *)
GsListenFriendPort(g) ==
  /\ pc[g] = "listen"
  /\ listening' = [listening EXCEPT ![g] = {"friendserverRpc"}]
  /\ pc' = [pc EXCEPT ![g] = "serve"]
  /\ UNCHANGED <<consulUp, ids, catalog, inc, kills, restarts, regd, exitKind, deregFailed>>

(* net.Listen on the RPC port, then grpcServer.Serve in a goroutine; a    *)
(* failed Listen is a log.Fatalf after the registration.                  *)
GsListen(g) ==
  /\ pc[g] = "listen"
  /\ \/ /\ listening' = [listening EXCEPT ![g] = {"gameserverRpc"}]
        /\ pc' = [pc EXCEPT ![g] = "serve"]
        /\ UNCHANGED exitKind
     \/ Die(g, "fatal")
  /\ UNCHANGED <<consulUp, ids, catalog, inc, kills, restarts, regd, deregFailed>>

(* Faulty variant of GsStop: main moves to a state it has no code for. *)
GsStopDraining(g) ==
  /\ pc[g] = "serve"
  /\ listening' = [listening EXCEPT ![g] = {}]
  /\ pc' = [pc EXCEPT ![g] = "draining"]
  /\ UNCHANGED <<consulUp, ids, catalog, inc, kills, restarts, regd, exitKind,
                 deregFailed>>

(* A signal: GracefulStop closes the listener; CloseAllConnections and    *)
(* the MongoDB and Redis shutdown follow.                                 *)
GsStop(g) ==
  /\ pc[g] = "serve"
  /\ listening' = [listening EXCEPT ![g] = {}]
  /\ pc' = [pc EXCEPT ![g] = "dereg"]
  /\ UNCHANGED <<consulUp, ids, catalog, inc, kills, restarts, regd, exitKind,
                 deregFailed>>

(* DeregisterService(serviceID) when the client and the ID are set, then  *)
(* os.Exit(0).                                                             *)
GsDeregister(g) ==
  /\ pc[g] = "dereg"
  /\ \E ok \in BOOLEAN :
       /\ catalog' = IF consulUp[g] /\ GsRpc \in ids[g]
                       THEN DeregisterService(catalog, g, GsRpc, ok) ELSE catalog
       /\ deregFailed' = [deregFailed EXCEPT ![g] = ~ok /\ GsRpc \in ids[g]]
  /\ pc' = [pc EXCEPT ![g] = "exited"]
  /\ exitKind' = [exitKind EXCEPT ![g] = "clean"]
  /\ UNCHANGED <<consulUp, ids, listening, inc, kills, restarts, regd>>
-----------------------------------------------------------------------------
(* gateway.go main.                                                        *)
(***************************************************************************)

(* The IDs a set of successful calls covers. *)
Succeeded(okGame, okRoom) ==
  {id \in {GwGame, GwRoom} : (id = GwGame /\ okGame) \/ (id = GwRoom /\ okRoom)}

(* NewConsulClient (a failure is only logged), the two TCP port checks,   *)
(* and with a client the host check and the registration of the game and  *)
(* room TCP services, whose IDs are kept for shutdown.  The room service  *)
(* is registered with gameServerTCPPort (gateway.go:77).                  *)
GwStart(w) ==
  /\ pc[w] = "start"
  /\ \E up, okGame, okRoom \in BOOLEAN :
       /\ consulUp' = [consulUp EXCEPT ![w] = up]
       /\ IF "gatewayTcpPorts" \in Misconfigured \/ (up /\ "host" \in Misconfigured)
            THEN /\ Die(w, "fatal")
                 /\ UNCHANGED <<ids, catalog, regd>>
            ELSE /\ catalog' = IF up THEN RegisterService(RegisterService(catalog,
                                            w, GwGame, "gatewayGameTcp", okGame),
                                            w, GwRoom, "gatewayGameTcp", okRoom)
                                     ELSE catalog
                 /\ ids' = [ids EXCEPT ![w] = IF up THEN {GwGame, GwRoom} ELSE {}]
                 /\ regd' = [regd EXCEPT ![w] = IF up THEN Succeeded(okGame, okRoom) ELSE {}]
                 /\ pc' = [pc EXCEPT ![w] = "rpcListen"]
                 /\ UNCHANGED <<listening, exitKind>>
  /\ UNCHANGED <<inc, kills, restarts, deregFailed>>

(* The RPC port check and net.Listen of the RPC listener, both after the  *)
(* TCP registrations; either failure is a log.Fatalf.                      *)
GwRpcListen(w) ==
  /\ pc[w] = "rpcListen"
  /\ \/ /\ "gatewayRpcPort" \notin Misconfigured
        /\ listening' = [listening EXCEPT ![w] = {"gatewayRpc"}]
        /\ pc' = [pc EXCEPT ![w] = "rpcRegister"]
        /\ UNCHANGED exitKind
     \/ Die(w, "fatal")
  /\ UNCHANGED <<consulUp, ids, catalog, inc, kills, restarts, regd, deregFailed>>

(* With a client, RegisterService of gatewayserver-rpc.  The ID is bound  *)
(* with := inside the if block (gateway.go:114), shadowing the            *)
(* rpcServiceID declared for shutdown, which stays "": ids is unchanged.  *)
GwRpcRegister(w) ==
  /\ pc[w] = "rpcRegister"
  /\ \E ok \in BOOLEAN :
       /\ catalog' = IF consulUp[w] THEN RegisterService(catalog, w, GwRpc, "gatewayRpc", ok)
                                    ELSE catalog
       /\ regd' = [regd EXCEPT ![w] = IF consulUp[w] /\ ok THEN @ \cup {GwRpc} ELSE @]
  /\ pc' = [pc EXCEPT ![w] = "gateway"]
  /\ UNCHANGED <<consulUp, ids, listening, inc, kills, restarts, exitKind, deregFailed>>

(* NewGateway and gateway.Start open the game and room TCP listeners; a   *)
(* failure of either is a log.Fatalf.                                      *)
GwRun(w) ==
  /\ pc[w] = "gateway"
  /\ \/ /\ listening' = [listening EXCEPT ![w] = @ \cup {"gatewayGameTcp", "gatewayRoomTcp"}]
        /\ pc' = [pc EXCEPT ![w] = "serve"]
        /\ UNCHANGED exitKind
     \/ Die(w, "fatal")
  /\ UNCHANGED <<consulUp, ids, catalog, inc, kills, restarts, regd, deregFailed>>

(* A signal: gateway.Stop closes the gateway's listeners. *)
GwStop(w) ==
  /\ pc[w] = "serve"
  /\ listening' = [listening EXCEPT ![w] = {}]
  /\ pc' = [pc EXCEPT ![w] = "dereg"]
  /\ UNCHANGED <<consulUp, ids, catalog, inc, kills, restarts, regd, exitKind,
                 deregFailed>>

(* With a client, DeregisterService of each non-empty ID (the game and    *)
(* room IDs; the RPC one is ""), then os.Exit(0).                         *)
GwDeregister(w) ==
  /\ pc[w] = "dereg"
  /\ \E okGame, okRoom \in BOOLEAN :
       /\ catalog' = IF consulUp[w] /\ ids[w] # {}
                       THEN DeregisterService(DeregisterService(catalog,
                              w, GwGame, okGame), w, GwRoom, okRoom)
                       ELSE catalog
       /\ deregFailed' = [deregFailed EXCEPT ![w] =
                            consulUp[w] /\ ids[w] # {} /\ ~(okGame /\ okRoom)]
  /\ pc' = [pc EXCEPT ![w] = "exited"]
  /\ exitKind' = [exitKind EXCEPT ![w] = "clean"]
  /\ UNCHANGED <<consulUp, ids, listening, inc, kills, restarts, regd>>

-----------------------------------------------------------------------------
(* Environment.                                                            *)
(***************************************************************************)

(* The process is killed (SIGKILL, OOM, a Serve error's log.Fatalf): no   *)
(* shutdown code runs and its registrations stay in the catalog.          *)
Kill(p) ==
  /\ pc[p] # "exited" /\ kills < MaxKills
  /\ kills' = kills + 1
  /\ Die(p, "killed")
  /\ UNCHANGED <<consulUp, ids, catalog, inc, restarts, regd, deregFailed>>

(* The orchestrator starts an exited process again, with fresh locals. *)
Restart(p) ==
  /\ pc[p] = "exited" /\ restarts < MaxRestarts
  /\ restarts' = restarts + 1
  /\ inc' = [inc EXCEPT ![p] = @ + 1]
  /\ pc' = [pc EXCEPT ![p] = "start"]
  /\ consulUp' = [consulUp EXCEPT ![p] = FALSE]
  /\ ids' = [ids EXCEPT ![p] = {}]
  /\ regd' = [regd EXCEPT ![p] = {}]
  /\ exitKind' = [exitKind EXCEPT ![p] = ""]
  /\ deregFailed' = [deregFailed EXCEPT ![p] = FALSE]
  /\ UNCHANGED <<catalog, listening, kills>>

(* Every process has exited and none is restarted any more. *)
Finished ==
  /\ \A p \in Procs : pc[p] = "exited"
  /\ restarts = MaxRestarts

GameServerStep(g) == GsStart(g) \/ GsListen(g) \/ GsStop(g) \/ GsDeregister(g)

GatewayStep(w) ==
  GwStart(w) \/ GwRpcListen(w) \/ GwRpcRegister(w) \/ GwRun(w) \/ GwStop(w)
  \/ GwDeregister(w)

Next ==
  \/ \E g \in GameServers : GameServerStep(g)
  \/ \E w \in Gateways : GatewayStep(w)
  \/ \E p \in Procs : Kill(p) \/ Restart(p)
  \/ Finished /\ UNCHANGED vars

Spec == Init /\ [][Next]_vars

-----------------------------------------------------------------------------
(* Properties.                                                             *)
(***************************************************************************)

DeployTypeOK ==
  /\ pc \in [Procs -> {"start", "listen", "rpcListen", "rpcRegister", "gateway",
                       "serve", "dereg", "exited"}]
  /\ consulUp \in [Procs -> BOOLEAN]
  /\ ids \in [Procs -> SUBSET IDs] /\ regd \in [Procs -> SUBSET IDs]
  /\ catalog \in [Agents -> [IDs -> Entries \cup {NoEntry}]]
  /\ listening \in [Procs -> SUBSET Ports]
  /\ inc \in [Procs -> 0..MaxRestarts]
  /\ exitKind \in [Procs -> {"", "clean", "fatal", "killed"}]

(* The entry registered under id at agent a. *)
Entry(a, id) == catalog[a][id]

(* Registrations written by process p in its current incarnation. *)
CurrentEntries(p) ==
  {<<a, id>> \in Agents \X IDs :
     Entry(a, id) # NoEntry /\ Entry(a, id).by = p /\ Entry(a, id).inc = inc[p]}

(* Discovery finds only live instances (DiscoverService, consul.go:41,   *)
(* lists passing and unchecked services alike, and no registration has a  *)
(* health check): every entry on an agent names a port that its process   *)
(* is listening on.                                                        *)
ListedInstancesServe ==
  \A a \in Agents, id \in IDs :
    Entry(a, id) # NoEntry => Entry(a, id).port \in listening[Entry(a, id).by]

(* A serving process answers where it is listed (gameserver.go registers  *)
(* before net.Listen, gateway.go before NewGateway): once main has reached *)
(* its serve loop, every registration of its current incarnation names a   *)
(* port it has a listener on, through failed calls, kills and restarts.    *)
ServingPortsAdvertised ==
  \A p \in Procs :
    pc[p] = "serve" => \A <<a, id>> \in CurrentEntries(p) : Entry(a, id).port \in listening[p]

(* The catalog tracks the servers' lifecycles (gateway.go:103 declares    *)
(* rpcServiceID "outside to be accessible in shutdown", gameserver.go:178 *)
(* deregisters "the service ID captured when the service was              *)
(* registered"): a process in its serve loop is listed under every ID it  *)
(* registered successfully in this incarnation, and a process that exited *)
(* through os.Exit(0), with none of its DeregisterService calls failing,  *)
(* has no registration of its current incarnation left in any catalog.    *)
(* Only a killed or failed process may leave an entry behind.             *)
RegistryTracksLifecycle ==
  \A p \in Procs :
    /\ pc[p] = "serve" => \A id \in regd[p] : Entry(AgentOf[p], id) # NoEntry
    /\ exitKind[p] = "clean" /\ ~deregFailed[p] => CurrentEntries(p) = {}
====
