-------------------------------- MODULE RPC ---------------------------------
(***************************************************************************)
(* The RPC transport of infra/network/rpc.go: RPCClient.Call with its      *)
(* per-endpoint connection pool (getConnection, returnConnection,          *)
(* CloseAllConnections) and the server side handleConnection loop, one     *)
(* goroutine per accepted connection.                                      *)
(*                                                                         *)
(* Each client goroutine performs up to MaxCalls sequential Calls.  A pool *)
(* is a buffered Go channel of capacity MaxConns, looked up in the pools   *)
(* map under c.mu; the channel is used after c.mu is released.  A          *)
(* connection is a pair of byte streams kept as queues of frames; the     *)
(* bytes they stand for are the frames' encodings under FrameCodec, which  *)
(* WireRoundTrip and TruncatedFrameIsEOF check.  The server side has     *)
(* RPCServer's RegisterHandler, Listen and Close; its process starts with  *)
(* its handlers registered and Listen accepting, may crash (all its        *)
(* connections are closed) and be started again.                          *)
(*                                                                         *)
(* A goroutine panic kills the client process: panicked records which     *)
(* panic happened and disables every client step.                          *)
(***************************************************************************)
EXTENDS Naturals, Sequences, FiniteSets, SequencesExt, FrameCodec

CONSTANTS
  Clients,      \* client goroutines calling RPCClient.Call
  Endpoints,    \* "host:port" targets
  Services,     \* service names, resolved through Consul
  Instances,    \* the instances DiscoverService returns for each service
  Methods,      \* method names clients call
  Registered,   \* methods with a registered handler on the server
  MaxConns,     \* maxConnsPerEndpoint, the capacity of a pool channel
  MaxCalls,     \* bound: Calls made by each client goroutine
  MaxCloseAll,  \* bound: CloseAllConnections invocations
  MaxCrashes,   \* bound: server process crashes
  MaxCloses,    \* bound: RPCServer.Close invocations
  NoConn,       \* the nil net.Conn
  NoChan,       \* no pool channel in the pools map
  MethodName,   \* the bytes of each method name
  ErrText,      \* the bytes of each error string ("none": empty)
  Payload       \* the bytes of every marshalled payload

ASSUME /\ Registered \subseteq Methods
       /\ Services \cap Endpoints = {}
       /\ Instances \in [Services -> Seq(Endpoints)]
       /\ MaxConns \in Nat \ {0}
       /\ MaxCalls \in Nat /\ MaxCloseAll \in Nat /\ MaxCrashes \in Nat
       /\ MaxCloses \in Nat

(* A call is identified by its client and its number; the connection a     *)
(* call dials is identified by the same pair, so dials never run out.      *)
CallIds  == Clients \X (1..MaxCalls)
ConnIds  == CallIds
(* A pool channel is made once per endpoint per CloseAllConnections epoch. *)
ChanIds  == Endpoints \X (0..MaxCloseAll)

(* Request and response frames, with payloads abstracted away.  A response *)
(* carries the error string of RPCResponse: empty, the handler's error, or *)
(* "no coordinator found for method".                                      *)
Requests  == [call : CallIds, m : Methods]
ErrKinds  == {"none", "handler", "notFound"}
Responses == [call : CallIds, err : ErrKinds]
NoResp    == [call |-> NoConn, err |-> "none"]

(* What Call returned: nil, an application error carried in a response,   *)
(* or a transport error of the dial, send or receive phase.               *)
Results == {"ok", "appErr", "notFound", "resolveErr", "noInstances",
            "dialErr", "sendErr", "recvErr"}

VARIABLES
  cpc,        \* client goroutine program counter
  calls,      \* number of Calls each client has started
  tgt,        \* endpoint of the current call
  method,     \* method of the current call
  conn,       \* the conn local of Call (NoConn = nil)
  chanRef,    \* the pool channel local of getConnection / returnConnection
  pools,      \* RPCClient.pools: endpoint -> pool channel
  chans,      \* the pool channels: buffered idle connections, closed flag
  epoch,      \* CloseAllConnections calls so far
  dialed,     \* connections ever dialed
  connEp,     \* endpoint each connection is bound to
  cliOpen,    \* client end of the connection not yet closed
  srvOpen,    \* server end of the connection not yet closed
  toSrv,      \* request frames in flight client -> server
  toCli,      \* response frames in flight server -> client
  spc,        \* handleConnection goroutine program counter per connection
  srvResp,    \* response a handleConnection goroutine is about to write
  lis,        \* RPCServer.listener: "none" (nil), "open", "closed"
  lpc,        \* the Listen goroutine: "start", "accept", returned "nil" or
              \* "err", or "dead" with its process
  handlers,   \* methods registered in RPCServer.handlers
  closes,     \* RPCServer.Close calls so far
  crashes,    \* server crashes so far
  handled,    \* history: handler outcome per call ("" = not dispatched)
  result,     \* history: what Call returned per call ("" = not returned)
  nextInstance, \* RPCClient.nextInstance: round-robin counter per service
  panicked    \* "" or the panic that killed the client process

cliVars == <<cpc, calls, tgt, method, conn, chanRef>>
rrVars == <<nextInstance>>
poolVars == <<pools, chans, epoch>>
netVars == <<dialed, connEp, cliOpen, srvOpen, toSrv, toCli>>
lisVars == <<lis, lpc, handlers, closes>>
srvVars == <<spc, srvResp, lisVars, crashes>>
histVars == <<handled, result, panicked>>
vars == <<cliVars, rrVars, poolVars, netVars, srvVars, histVars>>

CallId(c) == <<c, calls[c]>>

-----------------------------------------------------------------------------
(* Faulty variant of ResponseFor: the handler's error is not copied into *)
(* the response, so a failed call is reported as a success.               *)
ResponseForDroppingErr(req, outcome) ==
  [call |-> req.call, err |-> IF outcome = "missing" THEN "notFound" ELSE "none"]

(* The response handleConnection builds for a request, given the          *)
(* handler's outcome: a missing handler yields the not-found error and no  *)
(* payload; a handler error is copied into the error string.               *)
ResponseFor(req, outcome) ==
  [call |-> req.call,
   err  |-> IF outcome = "missing" THEN "notFound"
            ELSE IF outcome = "err" THEN "handler" ELSE "none"]

(* The bytes Call writes for a request (rpc.go 424-453), and those        *)
(* handleConnection writes for a response (rpc.go 198-233).                *)
EncodeRequest(req) == EncodeFrame(MethodName[req.m], Payload)
EncodeResponse(resp) == EncodeFrame(ErrText[resp.err], Payload)

(* The bytes in flight on a connection: the encodings of its frames, in   *)
(* the order they were written.                                            *)
RequestBytes(reqs) == FoldLeft(LAMBDA acc, r : acc \o EncodeRequest(r), <<>>, reqs)
ResponseBytes(resps) ==
  FoldLeft(LAMBDA acc, r : acc \o EncodeResponse(r), <<>>, resps)

(* How Call classifies a fully received response frame. *)
ResultOf(resp) ==
  IF resp.err = "none" THEN "ok"
  ELSE IF resp.err = "notFound" THEN "notFound" ELSE "appErr"

(* Close the client end of connection k. *)
CloseCli(k) == cliOpen' = [cliOpen EXCEPT ![k] = FALSE]

(* The instance round robin selects for service sv: the counter modulo   *)
(* the number of instances DiscoverService returned.                      *)
SelectInstance(sv) ==
  Instances[sv][(nextInstance[sv] % Len(Instances[sv])) + 1]

(* The counter stored back for the next call. *)
NextIndex(sv) == nextInstance[sv] + 1

(* getConnection's locked section for endpoint e: the pool channel of e,  *)
(* created on demand; the call goes on to the select.                     *)
GetConnection(c, e) ==
  LET ch == IF pools[e] # NoChan THEN pools[e] ELSE <<e, epoch>>
  IN /\ tgt' = [tgt EXCEPT ![c] = e]
     /\ chanRef' = [chanRef EXCEPT ![c] = ch]
     /\ pools' = [pools EXCEPT ![e] = ch]
     /\ cpc' = [cpc EXCEPT ![c] = "take"]
     /\ UNCHANGED result

(* Call returns r: the goroutine goes back to idle, its locals dropped. *)
Return(c, r) ==
  /\ result' = [result EXCEPT ![CallId(c)] = r]
  /\ cpc' = [cpc EXCEPT ![c] = "idle"]
  /\ conn' = [conn EXCEPT ![c] = NoConn]
  /\ chanRef' = [chanRef EXCEPT ![c] = NoChan]

(* A panic kills the client process; the OS closes all its sockets. *)
Panic(kind) ==
  /\ panicked' = kind
  /\ cliOpen' = [k \in ConnIds |-> FALSE]

-----------------------------------------------------------------------------
Init ==
  /\ cpc = [c \in Clients |-> "idle"]
  /\ calls = [c \in Clients |-> 0]
  /\ tgt = [c \in Clients |-> CHOOSE e \in Endpoints : TRUE]
  /\ method = [c \in Clients |-> CHOOSE m \in Methods : TRUE]
  /\ conn = [c \in Clients |-> NoConn]
  /\ chanRef = [c \in Clients |-> NoChan]
  /\ pools = [e \in Endpoints |-> NoChan]
  /\ chans = [ch \in ChanIds |-> [buf |-> <<>>, closed |-> FALSE]]
  /\ epoch = 0
  /\ dialed = {}
  /\ connEp = [k \in ConnIds |-> CHOOSE e \in Endpoints : TRUE]
  /\ cliOpen = [k \in ConnIds |-> FALSE]
  /\ srvOpen = [k \in ConnIds |-> FALSE]
  /\ toSrv = [k \in ConnIds |-> <<>>]
  /\ toCli = [k \in ConnIds |-> <<>>]
  /\ spc = [k \in ConnIds |-> "none"]
  /\ srvResp = [k \in ConnIds |-> NoResp]
  /\ lis = "open"
  /\ lpc = "accept"
  /\ handlers = Registered
  /\ closes = 0
  /\ crashes = 0
  /\ handled = [i \in CallIds |-> ""]
  /\ result = [i \in CallIds |-> ""]
  /\ panicked = ""
  /\ nextInstance = [s \in Services |-> 0]

-----------------------------------------------------------------------------
(* Client side.                                                            *)
(***************************************************************************)

(* Call's target is a "host:port" address (SplitHostPort succeeds) or a  *)
(* service name.  A name is resolved through Consul: a client without a   *)
(* Consul client or a failed DiscoverService returns an error, as does an *)
(* empty instance list; otherwise, under nextInstanceMu, the instance at  *)
(* the service's counter modulo the list length is chosen and the counter *)
(* incremented.  Then getConnection looks the pool channel of the target  *)
(* up under c.mu, creating it on demand, and releases the lock.  The two  *)
(* locked sections touch disjoint state, so they are taken as one step.   *)
Call(c) ==
  /\ panicked = "" /\ cpc[c] = "idle" /\ calls[c] < MaxCalls
  /\ calls' = [calls EXCEPT ![c] = @ + 1]
  /\ \E m \in Methods : method' = [method EXCEPT ![c] = m]
  /\ \/ \E e \in Endpoints : GetConnection(c, e) /\ UNCHANGED rrVars
     \/ \E sv \in Services :
          \/ /\ result' = [result EXCEPT ![<<c, calls[c] + 1>>] = "resolveErr"]
             /\ UNCHANGED <<cpc, tgt, chanRef, pools, rrVars>>
          \/ /\ Instances[sv] = <<>>
             /\ result' = [result EXCEPT ![<<c, calls[c] + 1>>] = "noInstances"]
             /\ UNCHANGED <<cpc, tgt, chanRef, pools, rrVars>>
          \/ /\ Instances[sv] # <<>>
             /\ GetConnection(c, SelectInstance(sv))
             /\ nextInstance' = [nextInstance EXCEPT ![sv] = NextIndex(sv)]
  /\ UNCHANGED <<conn, chans, epoch, netVars, srvVars, handled, panicked>>

(* getConnection's select, outside the lock: take an idle connection; a   *)
(* closed, drained channel yields the nil conn with no error; an empty    *)
(* open one falls to default and dials, which fails while the server is   *)
(* down and then Call returns before its deferred cleanup is installed.   *)
Take(c) ==
  LET ch == chanRef[c]
      b  == chans[ch].buf
      k  == CallId(c)
  IN
  /\ UNCHANGED rrVars
  /\ panicked = "" /\ cpc[c] = "take"
  /\ \/ /\ b # <<>>
        /\ conn' = [conn EXCEPT ![c] = Head(b)]
        /\ chans' = [chans EXCEPT ![ch].buf = Tail(b)]
        /\ cpc' = [cpc EXCEPT ![c] = "send"]
        /\ UNCHANGED <<netVars, spc, result, chanRef>>
     \/ /\ b = <<>> /\ chans[ch].closed
        /\ conn' = [conn EXCEPT ![c] = NoConn]
        /\ cpc' = [cpc EXCEPT ![c] = "send"]
        /\ UNCHANGED <<chans, netVars, spc, result, chanRef>>
     \/ /\ b = <<>> /\ ~chans[ch].closed /\ lis = "open"
        /\ dialed' = dialed \cup {k}
        /\ connEp' = [connEp EXCEPT ![k] = tgt[c]]
        /\ cliOpen' = [cliOpen EXCEPT ![k] = TRUE]
        /\ srvOpen' = [srvOpen EXCEPT ![k] = TRUE]
        /\ spc' = [spc EXCEPT ![k] = "read"]
        /\ conn' = [conn EXCEPT ![c] = k]
        /\ cpc' = [cpc EXCEPT ![c] = "send"]
        /\ UNCHANGED <<chans, toSrv, toCli, result, chanRef>>
     \/ /\ b = <<>> /\ ~chans[ch].closed /\ lis # "open"
        /\ Return(c, "dialErr")
        /\ UNCHANGED <<chans, netVars, spc>>
  /\ UNCHANGED <<calls, tgt, method, pools, epoch, srvResp, lisVars, crashes,
                 handled, panicked>>

(* Faulty variant of Send: the connection is handed back to the pool as  *)
(* soon as the request is written, before its response has been read.    *)
SendSkippingRecv(c) ==
  LET k == conn[c] IN
  /\ UNCHANGED rrVars
  /\ panicked = "" /\ cpc[c] = "send" /\ k # NoConn /\ srvOpen[k]
  /\ toSrv' = [toSrv EXCEPT ![k] = Append(@, [call |-> CallId(c), m |-> method[c]])]
  /\ cpc' = [cpc EXCEPT ![c] = "retLookup"]
  /\ UNCHANGED <<calls, tgt, method, conn, chanRef, cliOpen, result, panicked,
                 poolVars, dialed, connEp, srvOpen, toCli, srvVars, handled>>

(* Write the request frame.  Writing through the nil conn panics.  A      *)
(* write to a connection the server has closed may still be accepted by   *)
(* the kernel (the frame is lost) or fail; on failure connHealthy is      *)
(* false and the deferred function closes the connection.                 *)
Send(c) ==
  LET k == conn[c] IN
  /\ UNCHANGED rrVars
  /\ panicked = "" /\ cpc[c] = "send"
  /\ \/ /\ k = NoConn
        /\ Panic("nilConn")
        /\ UNCHANGED <<cliVars, toSrv, result>>
     \/ /\ k # NoConn /\ srvOpen[k]
        /\ toSrv' = [toSrv EXCEPT ![k] = Append(@, [call |-> CallId(c), m |-> method[c]])]
        /\ cpc' = [cpc EXCEPT ![c] = "recv"]
        /\ UNCHANGED <<calls, tgt, method, conn, chanRef, cliOpen, result, panicked>>
     \/ /\ k # NoConn /\ ~srvOpen[k]
        /\ cpc' = [cpc EXCEPT ![c] = "recv"]
        /\ UNCHANGED <<calls, tgt, method, conn, chanRef, cliOpen, toSrv, result, panicked>>
     \/ /\ k # NoConn /\ ~srvOpen[k]
        /\ CloseCli(k)
        /\ Return(c, "sendErr")
        /\ UNCHANGED <<calls, tgt, method, toSrv, panicked>>
  /\ UNCHANGED <<poolVars, dialed, connEp, srvOpen, toCli, srvVars, handled>>

(* Read the response frame.  A complete frame decides the result; an      *)
(* application error still leaves the connection healthy.  End of stream  *)
(* after the server closed is a receive error and the connection is       *)
(* closed by the deferred function.                                       *)
Recv(c) ==
  LET k == conn[c] IN
  /\ UNCHANGED rrVars
  /\ panicked = "" /\ cpc[c] = "recv"
  /\ \/ /\ toCli[k] # <<>>
        /\ toCli' = [toCli EXCEPT ![k] = Tail(@)]
        /\ result' = [result EXCEPT ![CallId(c)] = ResultOf(Head(toCli[k]))]
        /\ cpc' = [cpc EXCEPT ![c] = "retLookup"]
        /\ UNCHANGED <<conn, chanRef, cliOpen>>
     \/ /\ toCli[k] = <<>> /\ ~srvOpen[k]
        /\ CloseCli(k)
        /\ Return(c, "recvErr")
        /\ UNCHANGED toCli
  /\ UNCHANGED <<calls, tgt, method, poolVars, dialed, connEp, srvOpen, toSrv,
                 srvVars, handled, panicked>>

(* Deferred returnConnection, under c.mu: a missing pool (removed by      *)
(* CloseAllConnections) closes the connection; otherwise the channel is   *)
(* remembered and the lock released.                                      *)
RetLookup(c) ==
  LET k == conn[c] IN
  /\ UNCHANGED rrVars
  /\ panicked = "" /\ cpc[c] = "retLookup"
  /\ \/ /\ pools[tgt[c]] = NoChan
        /\ CloseCli(k)
        /\ cpc' = [cpc EXCEPT ![c] = "idle"]
        /\ conn' = [conn EXCEPT ![c] = NoConn]
        /\ UNCHANGED chanRef
     \/ /\ pools[tgt[c]] # NoChan
        /\ chanRef' = [chanRef EXCEPT ![c] = pools[tgt[c]]]
        /\ cpc' = [cpc EXCEPT ![c] = "retSend"]
        /\ UNCHANGED <<conn, cliOpen>>
  /\ UNCHANGED <<calls, tgt, method, poolVars, dialed, connEp, srvOpen, toSrv,
                 toCli, srvVars, histVars>>

(* Faulty variants of RetSend: a select without the default case's       *)
(* capacity bound, and a default case that forgets conn.Close().          *)
RetSendUnbounded(c) ==
  /\ UNCHANGED rrVars
  /\ panicked = "" /\ cpc[c] = "retSend" /\ ~chans[chanRef[c]].closed
  /\ chans' = [chans EXCEPT ![chanRef[c]].buf = Append(@, conn[c])]
  /\ cpc' = [cpc EXCEPT ![c] = "idle"]
  /\ conn' = [conn EXCEPT ![c] = NoConn]
  /\ chanRef' = [chanRef EXCEPT ![c] = NoChan]
  /\ UNCHANGED <<calls, tgt, method, pools, epoch, netVars, srvVars, histVars>>

RetSendLeaking(c) ==
  LET ch == chanRef[c] IN
  /\ UNCHANGED rrVars
  /\ panicked = "" /\ cpc[c] = "retSend" /\ ~chans[ch].closed
  /\ chans' = IF Len(chans[ch].buf) < MaxConns
                 THEN [chans EXCEPT ![ch].buf = Append(@, conn[c])] ELSE chans
  /\ cpc' = [cpc EXCEPT ![c] = "idle"]
  /\ conn' = [conn EXCEPT ![c] = NoConn]
  /\ chanRef' = [chanRef EXCEPT ![c] = NoChan]
  /\ UNCHANGED <<calls, tgt, method, pools, epoch, netVars, srvVars, histVars>>

(* returnConnection's select, outside the lock: sending on a closed       *)
(* channel panics; a full channel falls to default and the surplus        *)
(* connection is closed.                                                  *)
RetSend(c) ==
  LET k  == conn[c]
      ch == chanRef[c]
  IN
  /\ UNCHANGED rrVars
  /\ panicked = "" /\ cpc[c] = "retSend"
  /\ \/ /\ chans[ch].closed
        /\ Panic("sendOnClosedPool")
        /\ UNCHANGED <<cliVars, chans>>
     \/ /\ ~chans[ch].closed /\ Len(chans[ch].buf) < MaxConns
        /\ chans' = [chans EXCEPT ![ch].buf = Append(@, k)]
        /\ cpc' = [cpc EXCEPT ![c] = "idle"]
        /\ conn' = [conn EXCEPT ![c] = NoConn]
        /\ chanRef' = [chanRef EXCEPT ![c] = NoChan]
        /\ UNCHANGED <<cliOpen, panicked>>
     \/ /\ ~chans[ch].closed /\ Len(chans[ch].buf) >= MaxConns
        /\ CloseCli(k)
        /\ cpc' = [cpc EXCEPT ![c] = "idle"]
        /\ conn' = [conn EXCEPT ![c] = NoConn]
        /\ chanRef' = [chanRef EXCEPT ![c] = NoChan]
        /\ UNCHANGED <<chans, panicked>>
  /\ UNCHANGED <<calls, tgt, method, pools, epoch, dialed, connEp, srvOpen,
                 toSrv, toCli, srvVars, handled, result>>

(* CloseAllConnections, holding c.mu: close every pool channel, close the *)
(* idle connections drained from it, and delete it from the map.          *)
CloseAllConnections ==
  LET live == {pools[e] : e \in {x \in Endpoints : pools[x] # NoChan}}
      idle == UNION {ToSet(chans[ch].buf) : ch \in live}
  IN
  /\ panicked = "" /\ epoch < MaxCloseAll
  /\ chans' = [ch \in ChanIds |->
                 IF ch \in live THEN [buf |-> <<>>, closed |-> TRUE] ELSE chans[ch]]
  /\ cliOpen' = [k \in ConnIds |-> IF k \in idle THEN FALSE ELSE cliOpen[k]]
  /\ pools' = [e \in Endpoints |-> NoChan]
  /\ epoch' = epoch + 1
  /\ UNCHANGED <<cliVars, rrVars, dialed, connEp, srvOpen, toSrv, toCli, srvVars, histVars>>

-----------------------------------------------------------------------------
(* Server side: handleConnection, one goroutine per connection.           *)
(***************************************************************************)

(* Faulty variant of SrvRead: a request for an unregistered method is    *)
(* skipped without writing the not-found response.                        *)
SrvReadSilentNotFound(k) ==
  /\ spc[k] = "read" /\ toSrv[k] # <<>>
  /\ LET req == Head(toSrv[k]) IN
     IF req.m \in handlers
       THEN \E o \in {"ok", "err"} :
              /\ handled' = [handled EXCEPT ![req.call] = o]
              /\ srvResp' = [srvResp EXCEPT ![k] = ResponseFor(req, o)]
              /\ spc' = [spc EXCEPT ![k] = "write"]
       ELSE UNCHANGED <<handled, srvResp, spc>>
  /\ toSrv' = [toSrv EXCEPT ![k] = Tail(@)]
  /\ UNCHANGED <<cliVars, rrVars, poolVars, dialed, connEp, cliOpen, srvOpen, toCli, lisVars,
                 crashes, result, panicked>>

(* Read one request frame and dispatch it: a registered handler returns   *)
(* a payload or an error, a missing one yields the not-found response.    *)
(* End of stream after the client closed ends the goroutine, whose        *)
(* deferred conn.Close closes the server end.                             *)
SrvRead(k) ==
  /\ spc[k] = "read"
  /\ \/ /\ toSrv[k] # <<>>
        /\ LET req == Head(toSrv[k]) IN
           \E o \in IF req.m \in handlers THEN {"ok", "err"} ELSE {"missing"} :
             /\ handled' = [handled EXCEPT ![req.call] = o]
             /\ srvResp' = [srvResp EXCEPT ![k] = ResponseFor(req, o)]
        /\ toSrv' = [toSrv EXCEPT ![k] = Tail(@)]
        /\ spc' = [spc EXCEPT ![k] = "write"]
        /\ UNCHANGED srvOpen
     \/ /\ toSrv[k] = <<>> /\ ~cliOpen[k]
        /\ srvOpen' = [srvOpen EXCEPT ![k] = FALSE]
        /\ spc' = [spc EXCEPT ![k] = "exited"]
        /\ UNCHANGED <<toSrv, handled, srvResp>>
  /\ UNCHANGED <<cliVars, rrVars, poolVars, dialed, connEp, cliOpen, toCli, lisVars, crashes,
                 result, panicked>>

(* Write the response frame; a write to a closed peer fails and ends the  *)
(* goroutine.                                                              *)
SrvWrite(k) ==
  /\ spc[k] = "write"
  /\ \/ /\ cliOpen[k]
        /\ toCli' = [toCli EXCEPT ![k] = Append(@, srvResp[k])]
        /\ spc' = [spc EXCEPT ![k] = "read"]
        /\ UNCHANGED srvOpen
     \/ /\ ~cliOpen[k]
        /\ srvOpen' = [srvOpen EXCEPT ![k] = FALSE]
        /\ spc' = [spc EXCEPT ![k] = "exited"]
        /\ UNCHANGED toCli
  /\ srvResp' = [srvResp EXCEPT ![k] = NoResp]
  /\ UNCHANGED <<cliVars, rrVars, poolVars, dialed, connEp, cliOpen, toSrv, lisVars, crashes,
                 histVars>>

(* RegisterHandler adds m to the handlers map (registering it again     *)
(* changes nothing the model tells apart).  It takes no lock.             *)
RegisterHandler(m) ==
  /\ lpc # "dead" /\ m \notin handlers
  /\ handlers' = handlers \cup {m}
  /\ UNCHANGED <<cliVars, rrVars, poolVars, netVars, spc, srvResp, lis, lpc,
                 closes, crashes, histVars>>

(* Listen: net.Listen binds the address and s.listener is set, or it      *)
(* fails and Listen returns the error.  An accepted connection starts its *)
(* handleConnection goroutine at once (Take's dial).                       *)
Listen ==
  /\ lpc = "start"
  /\ \/ lis' = "open" /\ lpc' = "accept"
     \/ lpc' = "err" /\ UNCHANGED lis
  /\ UNCHANGED <<cliVars, rrVars, poolVars, netVars, spc, srvResp, handlers,
                 closes, crashes, histVars>>

(* Faulty variant of ListenReturn: the closed-listener error is not       *)
(* recognised and Listen returns it as a permanent accept error.          *)
ListenReturnAsError ==
  /\ lpc = "accept" /\ lis = "closed"
  /\ lpc' = "err"
  /\ UNCHANGED <<cliVars, rrVars, poolVars, netVars, spc, srvResp, lis,
                 handlers, closes, crashes, histVars>>

(* Accept on the closed listener fails with "use of closed network        *)
(* connection" and Listen returns nil.                                     *)
ListenReturn ==
  /\ lpc = "accept" /\ lis = "closed"
  /\ lpc' = "nil"
  /\ UNCHANGED <<cliVars, rrVars, poolVars, netVars, spc, srvResp, lis,
                 handlers, closes, crashes, histVars>>

(* RPCServer.Close: a non-nil listener is closed; closing it again only   *)
(* returns an error.  Before Listen has set s.listener, Close sees nil    *)
(* and returns nil without effect.  Open connections are left alone.      *)
Close ==
  /\ lpc # "dead" /\ closes < MaxCloses
  /\ closes' = closes + 1
  /\ lis' = IF lis = "open" THEN "closed" ELSE lis
  /\ UNCHANGED <<cliVars, rrVars, poolVars, netVars, spc, srvResp, lpc,
                 handlers, crashes, histVars>>

(* Environment: the server process crashes, closing its listener and      *)
(* every connection it holds, and is later started again: it registers    *)
(* its handlers anew and calls Listen on the same endpoints.              *)
ServerCrash ==
  /\ lpc # "dead" /\ crashes < MaxCrashes
  /\ crashes' = crashes + 1
  /\ lis' = "none" /\ lpc' = "dead" /\ handlers' = {}
  /\ srvOpen' = [k \in ConnIds |-> FALSE]
  /\ spc' = [k \in ConnIds |-> IF spc[k] \in {"read", "write"} THEN "exited" ELSE spc[k]]
  /\ UNCHANGED <<cliVars, rrVars, poolVars, dialed, connEp, cliOpen, toSrv, toCli,
                 srvResp, closes, histVars>>

ServerRestart ==
  /\ lpc = "dead"
  /\ lpc' = "start"
  /\ UNCHANGED <<cliVars, rrVars, poolVars, netVars, spc, srvResp, lis,
                 handlers, closes, crashes, histVars>>

(* Every client has made all its calls, or the client process died. *)
Finished ==
  \/ panicked # ""
  \/ \A c \in Clients : cpc[c] = "idle" /\ calls[c] = MaxCalls

ClientStep(c) ==
  Take(c) \/ Send(c) \/ Recv(c) \/ RetLookup(c) \/ RetSend(c)

ServerStep(k) == SrvRead(k) \/ SrvWrite(k)

Next ==
  \/ \E c \in Clients : Call(c) \/ ClientStep(c)
  \/ CloseAllConnections
  \/ \E k \in ConnIds : ServerStep(k)
  \/ \E m \in Registered : RegisterHandler(m)
  \/ Listen \/ ListenReturn \/ Close
  \/ ServerCrash \/ ServerRestart
  \/ Finished /\ UNCHANGED vars

(* Go schedules every runnable goroutine: a client inside Call and a      *)
(* handleConnection goroutine with input keep making progress.  Starting  *)
(* a call, CloseAllConnections, crashes and restarts are not forced.      *)
(* The Listen goroutine, once started, runs too.                          *)
Fairness ==
  /\ \A c \in Clients : WF_vars(ClientStep(c))
  /\ \A k \in ConnIds : WF_vars(ServerStep(k))
  /\ WF_vars(Listen) /\ WF_vars(ListenReturn)

Spec == Init /\ [][Next]_vars /\ Fairness

-----------------------------------------------------------------------------
(* Properties.                                                             *)
(***************************************************************************)

TypeOK ==
  /\ cpc \in [Clients -> {"idle", "take", "send", "recv", "retLookup", "retSend"}]
  /\ calls \in [Clients -> 0..MaxCalls]
  /\ conn \in [Clients -> ConnIds \cup {NoConn}]
  /\ chanRef \in [Clients -> ChanIds \cup {NoChan}]
  /\ pools \in [Endpoints -> ChanIds \cup {NoChan}]
  /\ \A ch \in ChanIds : Len(chans[ch].buf) <= MaxConns
  /\ dialed \subseteq ConnIds
  /\ \A k \in ConnIds : toSrv[k] \in Seq(Requests) /\ toCli[k] \in Seq(Responses)
  /\ spc \in [ConnIds -> {"none", "read", "write", "exited"}]
  /\ handled \in [CallIds -> {"", "ok", "err", "missing"}]
  /\ result \in [CallIds -> {""} \cup Results]
  /\ panicked \in {"", "nilConn", "sendOnClosedPool"}
  /\ nextInstance \in [Services -> 0..(Cardinality(Clients) * MaxCalls)]
  /\ lis \in {"none", "open", "closed"}
  /\ lpc \in {"start", "accept", "nil", "err", "dead"}
  /\ handlers \subseteq Registered

(* How many places hold connection k: Call locals and pool buffers. *)
Holders(k) ==
  Cardinality({c \in Clients : conn[c] = k})
  + MapThenSumSet(LAMBDA ch : Len(SelectSeq(chans[ch].buf, LAMBDA x : x = k)),
                  ChanIds)

(* Connection ownership (rpc.go getConnection / returnConnection / Call's *)
(* deferred cleanup / CloseAllConnections): while the client process is   *)
(* alive, every open client connection is held by exactly one place,      *)
(* either one in-flight Call or one slot of one pool, and a closed one by *)
(* none: connections are never shared between calls and never leak.     *)
ConnOwnership ==
  panicked = "" =>
    \A k \in dialed : Holders(k) = IF cliOpen[k] THEN 1 ELSE 0

(* No stale frames (Call's strict request/response use of a connection   *)
(* and the connHealthy rule): an idle pooled connection carries no frames *)
(* in either direction and its server goroutine is not about to answer,   *)
(* and every response travelling to a held connection answers the call    *)
(* holding it.  Otherwise a later Call would read another call's answer.  *)
NoStaleFrames ==
  /\ \A ch \in ChanIds : \A k \in ToSet(chans[ch].buf) :
       toSrv[k] = <<>> /\ toCli[k] = <<>> /\ spc[k] # "write"
  /\ \A c \in Clients :
       conn[c] # NoConn =>
         /\ \A i \in DOMAIN toCli[conn[c]] : toCli[conn[c]][i].call = CallId(c)
         /\ spc[conn[c]] = "write" => srvResp[conn[c]].call = CallId(c)

(* Outcome fidelity (handleConnection's dispatch and Call's decoding of   *)
(* the error string): when Call returns nil, the handler ran for this     *)
(* call and succeeded; an application error means the handler failed; a   *)
(* not-found error means no handler was registered.                       *)
OutcomeMatchesHandler ==
  \A i \in CallIds :
    /\ result[i] = "ok" => handled[i] = "ok"
    /\ result[i] = "appErr" => handled[i] = "err"
    /\ result[i] = "notFound" => handled[i] = "missing"

(* RPC implements CallSpec: with calls, handled and result as its state, *)
(* every step of the client, pool, server and network is a step of the   *)
(* abstract Call or a stutter.                                            *)
CS == INSTANCE CallSpec WITH invoked <- calls, ran <- handled, returned <- result

(* Call keeps its promise (rpc.go Call and handleConnection; spec 7):     *)
(* each goroutine's calls are sequential, the server runs a call's        *)
(* handler at most once and never after Call returned, Call returns once, *)
(* and nil, an application error, "no such method" or a dial or send      *)
(* error each mean what they say about the handler, whatever pooled       *)
(* connection, crash or CloseAllConnections the call met on its way.      *)
CallSpecRefined == CS!Spec

(* Round trip on the wire (spec 6): on every connection, the bytes the    *)
(* client has written and the server not yet read decode, frame by frame, *)
(* into exactly the pending requests (method name and payload), and the   *)
(* bytes of the responses in flight into exactly their error strings and  *)
(* payloads, so each read leaves the next frame intact.                    *)
WireRoundTrip ==
  \A k \in dialed :
    /\ DecodeStream(RequestBytes(toSrv[k]))
         = [frames |-> [i \in DOMAIN toSrv[k] |->
                          <<MethodName[toSrv[k][i].m], Payload>>],
            end |-> "ok"]
    /\ DecodeStream(ResponseBytes(toCli[k]))
         = [frames |-> [i \in DOMAIN toCli[k] |->
                          <<ErrText[toCli[k][i].err], Payload>>],
            end |-> "ok"]

(* A frame in flight that the peer's close cuts short, at whatever byte, *)
(* is read as end of stream (spec 6: a transient EOF, not a protocol      *)
(* error), so the reader closes the connection instead of dispatching or  *)
(* reporting a partial frame.                                              *)
TruncatedFrameIsEOF ==
  \A k \in dialed :
    \A f \in {EncodeRequest(r) : r \in ToSet(toSrv[k])}
           \cup {EncodeResponse(r) : r \in ToSet(toCli[k])} :
      \A p \in Prefixes(f) \ {f} : DecodeFrame(p).status = "eof"

(* Every Call returns (rpc.go has no read deadline: this holds only       *)
(* because a crashed server closes its connections): a client that has    *)
(* entered Call eventually returns, unless the process panicked.          *)
CallTerminates ==
  \A c \in Clients : cpc[c] # "idle" ~> (cpc[c] = "idle" \/ panicked # "")

(* CloseAllConnections must not make a concurrent Call panic (spec 4.2):  *)
(* returnConnection never sends on a pool channel that was closed after   *)
(* it was looked up.                                                      *)
NoSendOnClosedPool == panicked # "sendOnClosedPool"

(* getConnection never hands Call the nil connection it receives from a   *)
(* pool channel closed by a concurrent CloseAllConnections.               *)
NoNilConnUse == panicked # "nilConn"

(* Close ends Listen (rpc.go 78-97; spec 4.4): once Close has closed the  *)
(* listener, Listen's accept loop returns nil, as a normal shutdown and   *)
(* never as an error, unless the server process dies first.               *)
ListenReturnsNilOnClose == lis = "closed" ~> lpc \in {"nil", "dead"}
=============================================================================
