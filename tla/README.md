# TLA+ models of pandaparty's RPC transport, actor runtime, ID generator, login, server deployment, simulator and friend configuration

This directory holds TLA+ models of the concurrent core of the pandaparty game
backend (`src/`), the TLC configurations that check them, and `PROJECT.json`.
`PROJECT.json` lists the components, the runs, the mutants, the map from each
definition to the Go lines it models, the findings and the hazards.

## 1. The system

pandaparty is a set of Go microservices: gateway, login, game, room, pay and GM
servers. They talk through two pieces of shared infrastructure.

* **RPC transport** (`src/infra/network/rpc.go`).
  * `RPCServer.Listen` accepts TCP connections and starts one
    `handleConnection` goroutine per connection.
  * That goroutine loops: read one length-prefixed request frame, look the
    method up in the `handlers` map, call the handler, write one response frame.
  * `RPCClient.Call` resolves a target address. The target is either a direct
    `host:port` or a Consul service picked by round robin.
  * Call takes a connection from a per-endpoint **pool** (`getConnection`),
    writes the request and reads the response on it.
  * A deferred function then either returns the connection to the pool
    (`returnConnection`) or closes it when `connHealthy` is false.
  * A pool is a buffered `chan net.Conn` of capacity `maxConnsPerEndpoint`.
    It is kept in the `pools` map under `c.mu`, but it is used after `c.mu`
    is released.
  * `CloseAllConnections` closes every pool channel, closes the idle
    connections and empties the map.
* **Actor runtime** (`src/infra/actor/actor.go`).
  * An actor is a buffered mailbox channel drained by one `run` goroutine.
  * `Tell` enqueues without blocking, or reports a full mailbox.
  * `Ask` enqueues, blocking until the message is sent, the actor stops or
    the caller's context ends. It then waits on a private `replyCh` and
    `errorCh`, both of capacity 1.
  * `run` calls `ProcessMessage`. For an Ask it sends the reply in a select
    with `stopCh` and the message's context, then closes both reply channels.
  * `Stop` closes `stopCh` and waits on a WaitGroup. `run`'s deferred
    function closes the mailbox and drains it, answering pending Asks with
    "stopped before processing".

Around these sit:

* the snowflake ID generator (`src/help/id_generator.go`): a mutex-protected
  sequence per millisecond, and "short" IDs built from its low 16 bits;
* thin Consul, MongoDB, Redis and NSQ wrappers;
* the login server: `LoginImpl` (`src/internal/loginserver/login_impl.go`)
  behind the HTTP handlers of `src/loginserver/login_handler.go`, which
  decode requests and encode replies with protojson;
* the gameserver and gatewayserver mains (`src/cmd/gameserver/gameserver.go`,
  `src/cmd/gatewayserver/gateway.go`), which register their services with a
  Consul agent at start and deregister them at a clean shutdown, and
  configuration loading;
* the friend configuration (`src/config/server_config.go`): a
  `FriendConfigManager` singleton holding a `*FriendConfig` and its
  `lastUpdate` under a `sync.RWMutex`. `UpdateConfig` and
  `InitFriendConfig` take the write lock, store the new pointer, validate
  the object in place and set `lastUpdate`; `GetConfig` copies the config
  under the read lock, and every getter (`GetMaxFriends`, ...) picks from
  such a copy; `GetFriendConfigStatus` reads the copy and then, in a second
  critical section, the time;
* a behaviour-tree simulator (`src/cmd/simulator/`). `SimulatedClient`
  (`client.go`) logs in over HTTP, decoding the reply with encoding/json,
  connects to the gateway, and calls the room and game services. The CLI
  (`behavior_manager.go`) loads behaviour trees, runs one scenario
  goroutine per client through a player FSM, and counts successes and
  failures in two global atomic counters.

### Inventory

| component | state | operations | concurrency |
|---|---|---|---|
| ConnectionPool | `pools` map, pool channels (buffer, closed) | getConnection, returnConnection, CloseAllConnections | any number of Call goroutines, plus shutdown |
| RPCClient.Call | locals `conn`, `connHealthy`, target | resolve, take, write, read, deferred return/close | one goroutine per call |
| RPCServer | `handlers`, `listener`, per-connection goroutines | RegisterHandler, Listen, handleConnection, Close | accept loop plus one goroutine per connection |
| FrameCodec | bytes on the wire | encode/decode request and response frames | none (pure) |
| ServiceResolver | `nextInstance` counters | round-robin pick over Consul's answer | Call goroutines under `nextInstanceMu` |
| Actor | mailbox, stopCh, WaitGroup, per-Ask channels | Tell, Ask, Stop, run | callers, run goroutine, owner |
| IDGenerator | `lastTime`, `sequence` | GenerateID, GenerateShort*ID | any goroutine, under `mutex` |
| LoginImpl | MongoDB `players`, Redis `session:*` keys | ProcessLogin, ValidateSession | one goroutine per request, several processes |
| Login HTTP handlers | none (pooled request objects, reset per request) | HandleLogin, HandleValidateSession | one goroutine per request |
| SimulatedClient | UserID, SessionToken, gatewayServiceAddress, gatewayConn, GameService connection | NewSimulatedClient, Login, ConnectToGateway, room and game calls, Close | the caller's goroutine |
| Server mains | service IDs kept for shutdown, listeners, the agent's catalog | main's start, registrations, listen, signal, deregistration | one process each, several processes sharing an agent |
| FriendConfigManager | `config` pointer, the FriendConfig objects, `lastUpdate`, `mu` | GetFriendConfigManager, UpdateConfig, InitFriendConfig, GetConfig and its getters, GetLastUpdateTime, GetFriendConfigStatus | any goroutine, under `mu` (RWMutex) |
| Simulator CLI | tree map, per-scenario FSM, `successfulScenarios`, `failedScenarios` | main, runSingleClientScenario | one goroutine per scenario |

The hard behaviours are:

* the window between a pool lookup under `c.mu` and the channel operation
  after the unlock;
* Go's select choosing at random among ready cases, including closed channels;
* server crashes that leave dead connections in the pools;
* the order in which run replies, closes channels and drains at stop.

## 2. Modules

### `RPC.tla` (with `MC_RPC.tla`)

This module models ConnectionPool, RPCClient.Call (a direct address, or a
Consul service name resolved by round robin), and RPCServer
(RegisterHandler, Listen, Close, handleConnection).

**State.**

* `cpc` is a client goroutine's position in Call: `take`, `send`, `recv`,
  `retLookup` (returnConnection under the lock) and `retSend` (the select
  after the unlock).
* `conn` and `chanRef` are Call's and returnConnection's locals.
* `pools` is the map.
* `chans` holds the pool channels, each identified by endpoint and
  CloseAllConnections epoch, with a buffer and a closed flag.
* `cliOpen`/`srvOpen` are the two ends of each connection.
* `toSrv`/`toCli` are the frames in flight.
* `spc` is each handleConnection goroutine's position.
* `lis` is `RPCServer.listener` (nil, open, closed), `lpc` the Listen
  goroutine (not started, accepting, returned nil or an error, dead with its
  process), `handlers` the registered methods, `crashes`/`closes` count
  crashes and Close calls. Init is a server that has registered its
  handlers and is accepting, as the tests and mains start it.
* `nextInstance` is the round-robin counter of each service.

**Actions.** The actions are the goroutine steps between synchronisation
points:

* `Call`: target resolution and getConnection's locked section. A service
  name fails with a resolve error (no Consul client, or DiscoverService
  failed) or with an empty instance list, or picks
  `Instances[sv][nextInstance[sv] % Len + 1]` (`SelectInstance`) and stores
  the counter plus one (`NextIndex`). The nextInstanceMu and c.mu sections
  touch disjoint state, so they form one step;
* `Take`: its select, with four outcomes: take idle, nil from a closed
  channel, dial, dial error;
* `Send`: nil-conn panic, write, write lost to a closed peer, write error;
* `Recv`: full response, or EOF;
* `RetLookup`: returnConnection's locked section;
* `RetSend`: its select, with three outcomes: panic on a closed channel,
  pool the connection, close the surplus;
* `CloseAllConnections`;
* `SrvRead`;
* `SrvWrite`.

The server lifecycle:

* `RegisterHandler`: adds a method to `handlers`, without a lock;
* `Listen`: binds and sets `s.listener`, or returns the bind error;
* `ListenReturn`: Accept on the closed listener fails and Listen returns nil;
* `Close`: closes a non-nil listener; with a nil one (Listen not yet run)
  it returns nil and does nothing. Open connections are left alone.

An accept is coarsened with the client's dial: a dial succeeds only while
the listener is open, and starts the connection's goroutine.
`ServerCrash` and `ServerRestart` are the environment; a restarted process
registers its handlers and calls Listen again. A panic sets
`panicked` and closes all client sockets, because the process dies.

**Abstraction.** Frames in flight are records: call id, method, error kind.
The bytes they stand for are their encodings under `FrameCodec`:
`EncodeRequest` is what Call writes, `EncodeResponse` is what
handleConnection writes, and `RequestBytes`/`ResponseBytes` concatenate a
queue of frames. `MethodName`, `ErrText` and `Payload` give the byte strings
of method names, error strings and payloads. Handlers are a
nondeterministic ok or error. DiscoverService is modelled by its effect
on Call: an error, or the constant instance list `Instances` of the
service. `MC_RPC` lists every endpoint as an instance of each service.

### `CallSpec.tla`

The abstract specification of what `RPCClient.Call` promises its caller
(spec 7), with connections, pools and frames left out. `invoked` counts
each client goroutine's calls (one at a time), `ran` records what the
server's dispatch did for each call (`ok`, `err`, `missing`, or nothing),
and `returned` what Call returned. `Execute` runs a call's handler at most
once and only while the call is in flight; `Return` returns a result
allowed by `ran`: nil only after a successful handler, an application error
only after a failed one, "no such method" only when none was registered, a
dial or send error only when no handler ran; a receive error allows
anything. `FailEarly` is Call's return before getConnection (resolve error,
no instances).

`RPC` is checked to implement it: `CallSpecRefined` is `CallSpec!Spec`
under the mapping `invoked <- calls`, `ran <- handled` (the dispatch
outcome of each call, a history variable of `RPC`), `returned <- result`.
It replaces the invariant that tied each result to its handler: besides
that, it says a handler runs at most once per call, never before the call
is made or after it returned, and that Call returns once.

### `FrameCodec.tla`

This module holds pure operators over byte sequences (integers 0..255) for
the frame format that Call and handleConnection share:

    TotalLen | NameLen | Name | PayloadLen | Payload

A response frame has the error string in place of the name. Every length
is a big-endian int32.

* `Int32BE` and `ReadInt32BE` are `binary.Write` and `binary.Read` of an
  int32. The read is signed, so a first byte of 128 or more gives a
  negative length.
* `EncodeFrame` is the buffer Call builds (rpc.go 424-453), which is the
  same one handleConnection builds (198-233).
* `DecodeFrame` follows handleConnection's reads in order (rpc.go 120-169)
  and returns the first outcome it meets:
  * `eof`: the total length is not there, or `io.ReadFull` of the frame
    fails;
  * `invalid`: TotalLen <= 0;
  * `short`: an inner length or field runs past the frame;
  * `panic`: `make` with a negative inner length;
  * `ok`: both fields and the bytes after the frame.
* `DecodeStream` is a reader taking successive frames off one stream
  (RECURSIVE). That reader is the server loop, or successive Calls on a
  pooled connection, which parse a response with the same steps
  (456-501).

No state: the operators are checked on the frames RPC puts in flight.

### `Actor.tla` (with `MC_Actor.tla`)

This module models the whole of Actor.

**State.**

* `mailbox`, `mboxClosed` and `stopClosed` are the channels.
* `lpc` is run's position: `select`, `reply`, `drain`, `exited`.
* `cur` and `outcome` are the Ask being answered.
* `rbuf`, `ebuf` and `chClosed` are each Ask's two reply channels.
* `ctxDone` is each Ask's context.
* `kpc`/`ops` describe the callers.
* `spc` is the owner in Stop.
* The history variables record what was enqueued, processed and drained,
  what the processor produced, and what each call returned.

**Actions.**

* `Tell`: the two non-blocking selects;
* `Ask`, `AskSend` and `AskWait`: the channels made, the first select, the
  second select;
* `LoopReceive`, `LoopReply`, `LoopStop` and `LoopDrain`: run's receive with
  ProcessMessage, the reply select with the closing of both channels, the
  stopCh case with the deferred close, and the deferred drain;
* `StopSignal` and `StopReturn`: Stop;
* `Cancel`: the environment. A caller's context is cancelled or times out,
  possibly after Ask returned, because callers `defer cancel()`.

Every select offers every ready case, closed channels included.

### `IDGenerator.tla`, `IDCallers.tla` (with `MC_IDCallers.tla`)

`IDGenerator` holds what every process has: the wall clock read by
`time.Now().UnixMilli()`, and per generator `lastTime` and `sequence`.

* `IdOf` is the ID layout (timestamp | nodeID | sequence), computed modulo the
  word, as the int64 to uint64 conversion does.
* `NextSeq` and `Overflows` are the masked increment and the wrap test.
* `Issue` is the store at the end of the locked section.
* `Tick` and `StepBack` are the environment: the clock advances one ms or is
  stepped back (NTP).

Bit widths are constants (Go: 12, 10, 41), scaled down so the wrap is reached.

`IDCallers` adds goroutines calling `GenerateShortInt64ID`:

* `Call` reads `time.Now().Unix()`;
* `Generate` is GenerateID's locked section, with three outcomes: panic on
  a backwards clock (the process dies), a wrap (store 0 and spin with the
  mutex held), or issue;
* `Spin` ends the busy wait once the clock has passed `lastTime`;
* each returned ID is recorded with its short form `sec*ShortMul + id % 2^LowBits`.

### `IDFormat.tla`

Pure operators for the string and int64 forms of IDs, with the word width as
a parameter. A string is a sequence of one-character strings.

* `Uint64ToString`, `StringToUint64` and `StringToInt64` are strconv's
  base-10 FormatUint, ParseUint and ParseInt. The parse scans left to
  right; a non-digit is a syntax error and a value past the word a range
  error, whichever comes first. ParseInt takes an optional sign and
  checks the result against 2^(bits-1).
* `Uint64ToInt64` wraps ids past the int64 maximum to id - 2^63.
* `PrefixedID` is `GeneratePlayerID` and its R/M/S siblings ("P%d").
* `ParsePrefixedID` and `ParsePrefixedIDToInt64` are the eight `Parse*ID`
  functions: a prefix check, then ParseUint or ParseInt of the rest.
* `IsValidUint64ID` and `IsValidIDString` are the validity checks.

`IDCallers` checks them on every ID the generator returns (`IDStringsRoundTrip`).

### `Login.tla` (with `MC_Login.tla`)

`Login` extends `IDGenerator`: each login server process has its default
generator, and every process uses node ID 1, as `GetDefaultIDGenerator` does.
Request goroutines run `ProcessLogin`.

**State.**

* `hpc` is each request goroutine's position in ProcessLogin.
* `players` is the collection, a set of `[nick, pid]` documents.
* `sessions` is Redis, a function from token to player id.
* `logins` records every successful response.

**Actions.** Each database call is one atomic step that may fail:

* `RejectEmpty`: the early return on empty credentials;
* `Start`;
* `Find`, with three outcomes: found (UpdateOne's ignored error included),
  ErrNoDocuments, or error;
* `Insert`: GenerateID, then InsertOne succeeds or fails;
* `Session`: GenerateSessionID, then a Redis SET succeeds or fails.

`ValidateSession` reads `sessions`. GenerateID's spin is the guard
`GenReady`: a request waits while the sequence has wrapped.

### `LoginHTTP.tla`

Pure operators for the HTTP and JSON layer between the client and
`LoginImpl`. A JSON object is a function from keys to values, and a key is
a sequence of one-character strings, because the property at stake is how
the two sides spell a field name.

* `ToJsonName` is protoc's JSON name (each `_` dropped, the next letter
  upper-cased), which `protojson.Marshal` writes; `ProtoMarshal` encodes a
  message under those names with `EmitUnpopulated`.
* `ProtoField` is `protojson.Unmarshal` of one field: it accepts the JSON
  name or the proto name. `ProtoUnknownKey` is its rejection of any other
  key.
* `JsonField` is `encoding/json` decoding into a struct field: the key equal
  to the tag, else one equal to it up to case (`EqualFold`).
* `HandleLogin(r, n)` maps ProcessLogin's result to the reply: an error
  becomes a 500 text reply, otherwise `LoginStatus` picks 200, 400, 500 or
  401 from Success and ErrorMessage and the body is the protojson
  LoginResponse. `HandleValidateSession` decodes the token, calls
  ValidateSession and replies 200 or 401.
* `ClientLogin(resp)` is the rest of `SimulatedClient.Login`: a non-200
  status or Success false is an error, otherwise UserID and SessionToken
  are decoded with the client's tags `user_id` and `session_token`.

### `SimClient.tla` (with `MC_SimClient.tla`)

`SimClient` extends `Login` and `LoginHTTP`: a `SimulatedClient` used as a
library, as the integration test does, is composed with the login server.
Each client is served by its own request goroutine of `Login`; the other
goroutines serve logins of other users.

**State.** `cpc` ("idle" or "login", awaiting `/api/login`), `userID` and
`token` (`sc.UserID` and `sc.SessionToken`, 0 for ""), `passwordSet`,
`gwAddr` (`gatewayServiceAddress` set), `gwConn` (`gatewayConn` non-nil),
`gameConn` (the direct GameService connection open), `loginOK` (the last
`Login()` returned nil) and `calls`, bounded by `MaxCalls`.

**Actions.**

* `LoginPost`: the Post fails before ProcessLogin runs, or HandleLogin
  starts ProcessLogin (`Start`, or `RejectEmpty` for an empty password).
* `LoginReply`: once ProcessLogin has returned, the reply is lost, or
  `ClientLogin(HandleLogin(out, nick))` sets `loginOK`, `userID`, `token`.
* `ConnectToGateway`: discovery or dial fails; or the connection and the
  address are stored, then closed and set to nil without UserID or
  SessionToken, or the handshake write succeeds or fails.
* `RoomCall`, `GameCall`: a call that succeeds or fails; the servers behind
  them are not modelled. `CloseClient` closes the GameService connection
  and leaves `gatewayConn` non-nil, as `Close` does.

### `SimScenario.tla` (with `MC_SimScenario.tla`)

The simulator CLI. `BehaviorFiles` is the directory listing;
`TreeNames` is what `NewBehaviorManager` loads from it (regular `*.b3.json`
files that read and parse, keyed by title or file stem). The player FSM
is `PlayerFSMEvents`, with `Can` and `Fire` as looplab/fsm's `Can` and
`Event`.

**State.** `mpc` is main's position, `spc` each scenario goroutine's,
`fsm` its FSM state, `timedOut` whether its 120 s context expired, `casOld`
the value the final CompareAndSwap loaded, and the counters
`successfulScenarios` and `failedScenarios`. `counted` records how often
each scenario added to a counter, and `beat` flips on every pass of the
loop, so that a pass that changes nothing else is still a step.

**Actions.** `MainStart` (fatal with no trees, else start every scenario),
`NewClient` (fails and counts a failure, or fires `connect`), `Iterate` (one
pass of the `for` loop: the context check, then per state the event the
loop fires itself, or `TickTree`), `Post` and `CAS` (the end-of-loop accounting, the two loads of
`failedScenarios` and the swap as separate steps), `Deadline` and
`MainReport`.

The trees `NewBehaviorManager` builds are `core.NewBeTree()` values with
a title and no root. behaviour3go's `Tick` calls `_execute` on that nil
root, so `TickTree` on a found tree is a panic of the whole process
(`mpc = "panicked"`): runSingleClientScenario has no `recover`. A missing
tree fails the scenario, disconnects and leaves the loop. The FAILURE and
SUCCESS handling after Tick (lines 448-470) is therefore unreachable, and
so are `InRoom`, `InGame` and `LeavingRoom`. (The `behaviors/` directory
is not in the repository; `MC_SimScenario` enumerates its contents.)

### `Deployment.tla` (with `MC_Deployment.tla`)

The gameserver and gatewayserver mains as processes, the Consul agents
they register with, and the environment that kills and restarts them.

**State.** `pc` is where each main is (`start`, `listen`, `rpcListen`,
`rpcRegister`, `gateway`, `serve`, `dereg`, `exited`); `consulUp` is
`consulClient != nil`; `ids` the service IDs main's shutdown will
deregister (`serviceID`, `tcpServiceIDGame`, `tcpServiceIDRoom`,
`rpcServiceID`); `catalog` each agent's registrations, ID to entry (port,
writer, writer's incarnation); `listening` the ports a process has a
listener on. `inc`, `kills` and `restarts` belong to the environment;
`regd`, `exitKind` and `deregFailed` are history for the properties.

**Actions.** One per stretch of main between two points where another
process can observe it:

* `GsStart`: the port check, NewConsulClient, the host check,
  RegisterService of `gameserver-rpc` (the ID is kept whether or not the
  call succeeded), and the panic of `NewGameCoordinator` when the Redis or
  Consul client is nil (`GetReal()` on a nil pointer; the MongoDB client is
  passed without a dereference);
* `GsListen`, `GsStop` (signal, GracefulStop, CloseAllConnections, database
  shutdown), `GsDeregister` (DeregisterService, os.Exit(0));
* `GwStart`: NewConsulClient (non-fatal), the two TCP port checks, the host
  check and the game and room registrations, both with the game port as at
  gateway.go:77;
* `GwRpcListen`, `GwRpcRegister` (the `rpcServiceID :=` at gateway.go:114
  shadows the shutdown variable, so `ids` is unchanged), `GwRun`
  (NewGateway and Start), `GwStop`, `GwDeregister` (only non-empty IDs);
* `RegisterService` replaces the entry under its ID, `DeregisterService`
  removes whatever is there; either call may fail. `Die` is a log.Fatalf or
  panic: listeners close, nothing is deregistered;
* `Kill` and `Restart` are the environment: SIGKILL, an OOM, or the Serve
  goroutine's log.Fatalf, and an orchestrator starting the process again.

`Misconfigured` names the settings server.yaml leaves zero or empty; the
checks run with a complete configuration, so those exits come only from
failing listeners and clients. With a setting missing the process always
dies at its check, which adds no interleaving. The mains' `cfg == nil`
return is dead code (GetServerConfig panics rather than return nil).

### `FriendConfig.tla` (with `MC_FriendConfig.tla`)

The friend configuration manager and the goroutines that use it.

**State.** `mgr` is whether `friendConfigOnce` has run; `config` is
`fcm.config`, a pointer, and `heap` the FriendConfig objects it can point
to: the default, `&serverConfig.Friend`, and each object a writer built
for `UpdateConfig`. A FriendConfig is abstracted to `MaxFriends` and
`VipMaxFriends`, the two fields validation relates; the other fields get
constant defaults and are only read by getters. Integers are Go `int`s of
`IntBits` bits (`Wrap`). `lastUpdate` counts the updates, which orders them
as `time.Now()` does. The RWMutex is `wOwner` (the writer holding or
waiting for it), `wActive` (past the wait for readers) and `rHeld`.
`pc`, `arg`, `calls`, `op`, `snap` and `status` are the goroutines' own
state; `committed` is history: every `<<config, lastUpdate>>` the manager
held when a writer unlocked, and the default it was created with.

**Actions.**

* `WriterCall`: `ReloadFriendConfig` with a new object (its fields from
  `Inputs`), or `InitializeFriendConfig` with the server config or nil;
  both go through `GetFriendConfigManager` (the Once).
* `Lock` and `LockWait`: `fcm.mu.Lock()` in two steps, as sync.RWMutex
  does: the writer first announces itself, so that new RLocks block, then
  waits for the readers already inside.
* `Publish`: `fcm.config = newConfig` (nothing for a nil serverConfig).
* `Validate`: `validateAndSetDefaults` in place (`Validated`),
  `lastUpdate = time.Now()` and the deferred Unlock (`Unlock`).
* `ReaderCall`: `GetConfig` (or a getter on it) or `GetFriendConfigStatus`.
* `RLock`, `Copy`: `configCopy := *fcm.config` and the RUnlock.
* `TimeRead`: `GetLastUpdateTime`'s RLock section; the status is the copy
  with this time.

`CallerWrite` is a caller outside `src/` that writes the FriendConfig it
passed to `UpdateConfig`; it is only used by `SpecWithAliasing`.

## 3. Runs

| run | bounds | checks | result |
|---|---|---|---|
| RPC_safety | 3 clients (symmetric), 1 endpoint, pool of 1, 1 call each, 1 crash, 1 CloseAllConnections | TypeOK, ConnOwnership, NoStaleFrames, CallSpecRefined | pass |
| RPC_liveness | 1 client, 2 calls, 2 endpoints, 1 service with both as instances, 1 crash, 1 Close, 1 CloseAllConnections; method names of 1 and 2 bytes, one containing 255; error strings of 0, 1 and 2 bytes | CallTerminates, ListenReturnsNilOnClose, WireRoundTrip, TruncatedFrameIsEOF, CallSpecRefined | pass |
| RPC_NoSendOnClosedPool | 2 clients, 2 calls each | NoSendOnClosedPool | violated |
| Actor_checks | 2 callers, 1 call each, mailbox of 1 | TypeOK, MailboxDrainedAtStop, NoProcessingAfterStop, AskTerminates, StopTerminates | pass |
| Actor_AskAnswerFaithful | as Actor_checks | AskAnswerFaithful | violated |
| IDCallers_checks | 2 processes (both node ID 1, as in the code), 3 callers, 2 calls each, 1-bit sequence, clock 2..4 ms with one step back, 2 ms per second | TypeOK, IDsIncrease, IDStringsRoundTrip | pass |
| Login_LoginIdentityStable | 1 process, 2 request goroutines, 2 requests each, one username, 1-bit sequence, clock 1..4 ms | LoginIdentityStable | violated |
| SimClient_checks | 1 library client making 2 calls, 1 other request goroutine with 2 logins, one username, 1 process, 1-bit sequence, clock 1..3 ms | ClientsTypeOK, LoginHasAccount, SessionResolvesToLogin | pass |
| SimScenario_ReportPrinted | 2 scenarios; a tree directory with a titled LoginSequence file, an untitled one, an unparsable one and a directory | ReportPrinted | violated |
| Deployment_checks | 2 gameservers and 1 gateway on one shared agent, complete configuration, 1 kill, 2 restarts | DeployTypeOK, ServingPortsAdvertised | pass |
| Deployment_RegistryTracksLifecycle | as Deployment_checks | RegistryTracksLifecycle | violated |
| FriendConfig_checks | 2 writers with 1 call each, 1 reader calling forever, MaxFriends in {0, 300}, VipMaxFriends in {0, 400}, 10-bit ints | FriendConfigTypeOK, ConfigReadIsLatest, UpdateConfigReturns | pass |

**What the passing runs show.**

* **ConnOwnership.** While the process lives, every open client connection
  is held by exactly one place: one Call or one pool slot. A closed one is
  held by none, so connections are never shared and never leak.
* **NoStaleFrames.** A pooled connection is quiet, and a connection in use
  carries only its own call's response. Together with
  CallSpecRefined, which ties each result to what the handler did,
  this means a Call never reports another call's answer. This holds across
  crashes, dead pooled connections, full pools and CloseAllConnections.
* **CallTerminates.** Every Call returns, but only because a crash closes
  the server's sockets. rpc.go sets no read deadline.
* **ListenReturnsNilOnClose.** Once Close has closed the listener, Listen
  returns nil, as spec 4.4 requires for a normal shutdown. A Listen that
  does not recognise the closed-listener error, and returns it as a
  permanent error, breaks it.
* **WireRoundTrip.** Take the bytes in flight on any connection, in either
  direction. Decoded frame by frame, they give back exactly the queued
  frames (name or error string, and payload) and end at a frame boundary.
  Length prefixes, signedness and field order therefore agree between
  writer and reader. The decode consumes exactly the frame, so on a
  reused pooled connection the next Call starts at a frame boundary. A
  connection carries one call at a time, so at most one frame is ever in
  flight in each direction (checked: no reachable state has two). A
  byte-order mutant of `Int32BE` breaks it.
* **TruncatedFrameIsEOF.** Cut a frame in flight short at any byte, as a
  crash or close mid-write does, and it decodes as end of stream. It is
  never a partial frame or a protocol error, so the reader closes the
  connection. A reader that uses what is available instead of
  `io.ReadFull` breaks it.
* **CallSpecRefined.** RPC implements CallSpec: every handler runs at most
  once per call and only while the call is in flight, every Call returns
  once, and its result is consistent with what the server did. This holds
  across crashes, closed pools and Close in both RPC runs. A server that
  drops the handler's error from the response breaks it.
* **ServingPortsAdvertised.** A process in its serve loop listens on every
  port its current registrations advertise, through failed registrations,
  kills and restarts. A listener on the wrong port breaks it. (The room
  service's registration with the game port, gateway.go:77, passes: that
  port is served. It is listed as a hazard.)
* **MailboxDrainedAtStop.** When Stop has returned, the mailbox is empty:
  run's deferred function closed it and its `for range` took every message
  still queued, whatever Tells and Asks raced with the stop. A drain that
  exits without ranging over the channel breaks it.
* **NoProcessingAfterStop.** Nothing is processed after Stop returns.
* **AskTerminates and StopTerminates.** Ask and Stop always return.
* **IDsIncrease.** Per generator, IDs strictly increase in the order they
  are returned, through sequence wraps (the spin) and backward clock steps
  (the panic). A GenerateID without the backwards-clock check breaks it.
  Uniqueness across processes is not checked: every process takes
  `NewIDGenerator(1)` (id_generator.go:46), and with both processes on
  node ID 1, as the run has them, `IDsUnique` is violated in a few steps.
* **IDStringsRoundTrip.** Every issued ID, written as "P<id>", "R<id>",
  "M<id>" or "S<id>", parses back to the same uint64, and its int64 parse
  equals what `Uint64ToInt64` hands out. `IsValidIDString` accepts its
  decimal form. The two int64 forms would disagree for ids of 2^63 or more,
  which GenerateID cannot issue before its timestamp runs out. A formatter
  that emits the digits in reverse breaks the property.
* **SessionResolvesToLogin.** With one login process, every token that
  ProcessLogin handed out in a successful reply resolves through
  ValidateSession to the UserId it was returned with. This holds across
  failed inserts and Redis writes, lost login replies and retries, and the
  logins of other users. A session step that skips the Redis SET breaks
  it. With two processes, both on node ID 1, two tokens can coincide and
  the second SET overwrites the first session (a hazard).
* **LoginHasAccount.** A successful login always names a stored player.
* **ConfigReadIsLatest.** Every GetConfig copy is the validated config of
  the latest completed update at the moment the copy is taken, paired with
  the current `lastUpdate`: reads are linearizable. UpdateConfig publishes
  the caller's object before validating it, and only the lock keeps
  GetConfig from copying it in between, or from returning an older config
  after a newer update finished. An RLock that does not wait for the
  writer breaks it.
* **UpdateConfigReturns.** Every UpdateConfig and InitFriendConfig returns,
  although the reader keeps calling GetConfig: the RWMutex's writer
  preference blocks new RLocks once a writer waits. A Copy that does not
  RUnlock breaks it.

**The violation runs.** Each one is a finding in `PROJECT.json`:

* returnConnection can send on a closed pool;
* Ask can return (nil, nil), losing a reply;
* two first logins of one username both insert, and the user gets two
  UserIds. There is no unique index on `nick` and no transaction.
* two gameservers register the one fixed ID `gameserver-rpc` on the
  shared agent (server.docker.yaml points all processes at `consul:8500`).
  Whichever registered last owns the one entry, and the clean shutdown
  of the other deregisters it by the fixed ID while that instance still
  serves; in TLC's trace the first instance's own registration had
  failed, and its shutdown still removed the second's entry. With a single
  gameserver, TLC reaches the same property through gateway.go:114: the
  shadowed `rpcServiceID` leaves `gatewayserver-rpc` listed after the
  gateway's clean exit.
* the simulator never prints its report: every tree `NewBehaviorManager`
  builds is an empty `core.NewBeTree()`, so the first scenario that
  reaches `Connecting` with LoginSequence loaded ticks a nil root and
  panics, with no `recover`, and the whole process dies
  (behavior_manager.go:112 and 447).

More properties are stated in the modules and found violated by TLC, but
have no run of their own; they are listed as hazards:

* `NoSendOnClosedMailbox` (Actor): a Tell after Stop sends on the mailbox
  run's defer closed, and panics (Actor_checks' constants, plus that
  invariant);
* `LoginKeepsSession` (SimClient): a successful `SimulatedClient.Login`
  leaves UserID and SessionToken empty. HandleLogin writes the protojson
  names `userId` and `sessionToken`; the client's struct is tagged
  `user_id` and `session_token`, and encoding/json matches only up to
  case (SimClient_checks' constants, plus that invariant);

* `IDsUnique` (IDCallers): two processes, both with node ID 1 as
  `GetDefaultIDGenerator` gives every process, issue the same ID in the
  same millisecond (IDCallers_checks' constants);
* `ListedInstancesServe` (Deployment): a gameserver that registered and
  then exited through log.Fatalf stays listed on a port nobody listens on;
  registrations carry no health check (Deployment_checks' constants);
* `SessionReplyAsDocumented` (SimClient): the API guide
  (src/unnamed/part_001) documents `/api/validate_session`'s key as
  `user_id`; HandleValidateSession's protojson writes `userId`
  (SimClient_checks' constants);
* `ScenarioCountedOnce` (SimScenario): with a directory without
  LoginSequence (`MCNoLoginFiles`, so no tick panics) and three scenarios,
  the CompareAndSwap of `failedScenarios` with itself fails when another
  scenario fails between its two loads, and a failed scenario is counted
  a second time, as successful;
* `NoNilConnUse` (RPC): getConnection can take nil from a pool channel
  closed by CloseAllConnections and hand it to Call, which writes through
  it (rpc.go:301, 445);
* `NoNewWorkAfterStop` (Actor): run's select keeps taking queued messages
  after stopCh is closed, contrary to spec 4.6;
* `ShortIDsUnique` (IDGenerator): `GenerateShortInt64ID` returns the same
  ID for two calls in one second but different milliseconds. The sequence
  restarts at 0 every millisecond, so the low 16 bits repeat
  (IDCallers_checks' constants, plus that invariant);
* `VipAboveNormal` (FriendConfig): with MaxFriends 300 and 10-bit ints,
  `MaxFriends * 2` wraps negative, so validation leaves the VIP limit
  below the normal one and `GetMaxFriends(true)` returns the normal limit
  (FriendConfig_checks' constants; at 64 bits it takes MaxFriends >= 2^62);
* `StatusConsistent` (FriendConfig): `GetFriendConfigStatus` pairs the
  config of one update with the `last_update` of a later one, since it
  reads them in two critical sections (FriendConfig_checks' constants);
* `ConfigReadIsLatest` under `SpecWithAliasing`: a caller that writes
  the FriendConfig it passed to UpdateConfig changes the manager's config
  without the lock, and GetConfig copies an unvalidated MaxFriends 0,
  although its copy is meant "to prevent external modification"
  (server_config.go:191).

Two further observations have no property: the gateway registers the room
TCP service with the game port (gateway.go:77), which ServingPortsAdvertised
cannot tell from the intended port because that port is served too; and the
simulator discovers `gatewayserver-tcp` (behavior_manager.go:280), a name no
main registers. A second `Actor.Stop` closes `stopCh` again and panics
(actor.go:186); the model's owner calls Stop once, as the code's callers do.

**Bounds.**

* **RPC safety.** Three symmetric clients with one call each share a pool
  of one, so the pool is both empty and full, two calls contend for one
  idle connection, and a third returns while the pool is full. One crash
  (with the restart's re-registration and Listen, including a bind error)
  and one CloseAll reach every branch of the pool and server code. Close is
  left to the liveness run, where it is cheap.
* **RPC violation runs.** Two clients with two calls each, no crash: the
  smallest setting in which CloseAll falls between a pool lookup and the
  channel operation.
* **RPC liveness.** One client. A client's steps never wait for another
  client: every pool select has a default branch or is ready, so a second
  client adds interleavings but no new ways to block. Two endpoints listed
  as the instances of one service, and two calls, make round robin pick
  each instance once, or one twice when a call goes to a direct address
  between them; the counter update is one locked step, so a second client
  adds no interleaving inside it. One crash, one Close and one CloseAll
  give the shutdown paths (190k states; a third call multiplies that
  several times).
* **Actor.** A mailbox of one gives both the full and the non-full cases.
  Two callers with one call each give a queued message and a message in
  progress, or a rejected one, at the same time as Stop.
* **IDGenerator.** A one-bit sequence wraps on the second ID of a
  millisecond, so the spin is reached. Three callers on two generators give
  contention within a generator and two processes on the same node ID. One backward step
  reaches the panic. Two ms per second put two milliseconds in one second,
  which is all a short-ID collision needs.
* **Login.** Two request goroutines and one username reach the race between
  find and insert, the found path, and a session for a player another
  request created. Two requests each let a failed request be retried.
* **SimClient.** One library client with two calls can log in and then
  connect or log in again after a lost reply; the other goroutine's two
  logins of the same user reach find-after-insert, the insert race and a
  session of a player another request created. A clock up to 3 ms keeps
  the 1-bit sequence's wrap and spin (80k states).
* **SimScenario.** The directory reaches every branch of the loader
  (a titled file, one keyed by its stem, an unparsable one, a directory),
  and two scenarios let one panic while the other is anywhere in its
  loop. TLC finds the panic in 73 states. Without LoginSequence
  (`MCNoLoginFiles`) and with three scenarios, two can fail between the
  third's two loads of `failedScenarios`, which the CAS race needs.

* **Deployment.** Two gameservers give two processes registering the same
  ID on one agent, and one of them can stop while the other serves. One
  gateway covers the gateway's code (a second adds only the same ID
  collision). One kill leaves a stale entry, and two restarts let a killed
  or exited process come back and register again while the other runs
  (1.5M states, under a minute).

* **FriendConfig.** Two writers with one call each give a writer waiting
  for another's lock and a publication by one between the other's calls.
  One reader, which calls forever, is enough for both window and
  starvation: it can hold RLock when a writer announces itself, and it
  comes back while the writer waits. The inputs reach every branch of
  `validateAndSetDefaults` on the two modelled fields, and 10-bit ints
  hold 200, 400, 500 and 200 * 2 while 300 * 2 wraps (19k states). A
  second reader or a second call per writer takes the state space past
  900k states and minutes without reaching a new branch.

**Symmetry.** Symmetry over clients and callers is used only in safety runs.

**Fairness.**

* Weak fairness on each client's in-call steps, each server goroutine,
  run's steps, each caller's blocked select and Stop's return. Go's
  scheduler runs every runnable goroutine.
* No fairness on starting calls, Stop, CloseAll, crashes or context
  cancellation. Nothing in the code forces them.
* IDCallers, Login, SimClient and Deployment check only safety, so they assume no
  fairness; SimClient's library caller may stop calling at any time.
* FriendConfig: weak fairness on each writer's steps from Lock to Unlock
  and on each reader's RLock, Copy and TimeRead: these are a running
  goroutine's steps, and sync.RWMutex wakes the waiter it unblocks. Calls
  are not forced.
* SimScenario: weak fairness on main's steps and on each scenario's steps.
  The scenario loop never blocks (it sleeps 100 ms per pass), main's
  wg.Wait returns once every goroutine has, and a 120 s context deadline
  always passes, so `Deadline` is fair too. With that fairness the
  report is still not printed: the panic ends the process first. Without
  LoginSequence the same fairness makes `ReportPrinted` hold.

**Mutants.** Each property of a passing run is shown to be sensitive to the
code it is about. A faulty variant of a mapped definition, defined next to
it (e.g. `RetSendLeaking`, `SendSkippingRecv`, `LoopDrainNoRange`),
makes TLC find it violated.

## 4. Plan

The modules are built in order of importance:

1. `RPC` (done): pool, call, server loop, crashes, CloseAll.
2. `Actor` (done).
3. `IDGenerator` and `IDCallers` (done).
4. `Login` (done): ProcessLogin and ValidateSession.
5. `FrameCodec` (done): the byte-level encoding and decoding, checked on
   the frames RPC puts in flight. Still open: the negative inner lengths
   that a hostile peer could send (rpc.go:150 and 484). The
   decoder already has the `panic` outcome; what is missing is an
   environment that writes arbitrary bytes.
6. RPCServer lifecycle (done, in `RPC`): RegisterHandler, Listen, Close.
   Open: a violation run for Close running before Listen sets the listener,
   which leaves the server accepting forever.
7. `ServiceResolver` (partly done, in `RPC`): discovery errors and the
   round-robin counter over a stable list. Open: instance lists that change
   between calls, and one instance crashing while Consul still lists it.
8. `CallSpec` (done): RPC refines it. A similar `MailboxSpec` is planned
   for Actor.
9. Login HTTP and the simulator (done): `LoginHTTP`, `SimClient`,
   `SimScenario`. The simulator panics at its first tick; with trees
   that have roots the CAS race still counts a failed scenario twice
   (`ScenarioCountedOnce`, see hazards).
10. `Deployment` (done): the mains against the Consul catalog. Open: a
    composition with RPC, so that Call's discovery reads this catalog (a
    crashed instance still listed, hazard at consul.go:41).
11. `FriendConfig` (done): FriendConfigManager's writers and readers
    under the RWMutex, with the overflow and the kept pointer as hazards.
    It has no caller in src.

## 5. Not modelled

* MongoDB, Redis and NSQ wrappers: thin I/O clients. The Consul wrapper's
  register and deregister calls are modelled in Deployment by their effect
  on the catalog.
* Session expiry in Redis (24 h).
* The other ID helpers: SimpleIDGenerator, batch and range functions,
  GenerateOrderID's date, GenerateShortID's string form.
* Accept errors other than the closed listener. A temporary one only
  loops. A permanent one makes Listen return with the listener still open,
  and a Call dialled afterwards would hang; it needs an OS fault.
* The handlers map as a Go data race: registration is one atomic step.
* Configuration loading (`GetServerConfig`, `loadConfig`): YAML file I/O
  and defaults. GetServerConfig panics rather than return nil.
* FriendConfig's other fields and the helpers that compare a count with a
  getter (`CanAddMoreFriends`, `ValidateMessageContent`, the expiry times):
  pure reads of one copy.
* `gatewayserver.NewGateway`, `Start` and `Stop`: outside `src/`, taken to
  open and close the gateway's TCP listeners.
* The simulator's `CreateRoom` calls `gameserver-rpc` with the custom RPC
  framing while that service speaks gRPC; `roomserver-rpc` has no main in
  `src/`. Neither is modelled.
* The simulator's custom action nodes (`custom_actions.go`):
  `RegisterCustomNodes` registers them in a map local to the function,
  which is discarded, and the trees `NewBehaviorManager` builds are empty
  `core.NewBeTree()` instances, so no action node ever runs.
* The behaviour3go library's `Tick`: its status is left open.
* The room, game and gateway servers behind SimulatedClient's calls: each
  call succeeds or fails.
* Payload contents and protobuf marshalling: opaque bytes to the core.
* A handler that never returns.
