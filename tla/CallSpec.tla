------------------------------ MODULE CallSpec ------------------------------
(***************************************************************************)
(* What RPCClient.Call promises its caller (infra/network/rpc.go Call and  *)
(* the handleConnection dispatch it talks to), with connections, pools,    *)
(* frames and the server's goroutines abstracted away.  Each client        *)
(* goroutine makes its calls one after another; the server runs the       *)
(* handler of a call at most once; Call returns once, and what it returns *)
(* tells the caller what happened on the server (spec 7): nil only if the *)
(* handler ran and succeeded, an application error only if it ran and     *)
(* failed, "no such method" only if no handler was registered, a dial or  *)
(* send error only if the request never reached a handler.  A receive     *)
(* error says nothing about the handler: it may or may not have run.      *)
(*                                                                         *)
(* RPC (the detailed model) is checked to implement this specification   *)
(* through the refinement mapping in RPC!CallSpecRefined.                  *)
(***************************************************************************)
EXTENDS Naturals

CONSTANTS
  Clients,   \* client goroutines calling RPCClient.Call
  MaxCalls   \* bound: Calls made by each client goroutine

CallIds == Clients \X (1..MaxCalls)

(* What the server's dispatch did for a call ("" = nothing yet).  *)
Outcomes == {"ok", "err", "missing"}

(* What Call returned.  The first two are returned before any connection *)
(* is taken; the others after getConnection.                             *)
EarlyErrors == {"resolveErr", "noInstances"}
Results == EarlyErrors \cup {"ok", "appErr", "notFound", "dialErr", "sendErr", "recvErr"}

VARIABLES
  invoked,   \* number of Calls each client goroutine has started
  ran,       \* handler outcome per call ("" = the handler has not run)
  returned   \* what Call returned per call ("" = not returned yet)

vars == <<invoked, ran, returned>>

(* The call a client goroutine is in, or last made. *)
Current(c) == <<c, invoked[c]>>

(* A goroutine makes its next call only after the previous one returned. *)
Idle(c) == invoked[c] = 0 \/ returned[Current(c)] # ""

(* The handler outcomes a returned result is consistent with. *)
Allowed(r) ==
  CASE r = "ok"       -> {"ok"}
    [] r = "appErr"   -> {"err"}
    [] r = "notFound" -> {"missing"}
    [] r \in {"dialErr", "sendErr"} \cup EarlyErrors -> {""}
    [] r = "recvErr"  -> {""} \cup Outcomes

Init ==
  /\ invoked = [c \in Clients |-> 0]
  /\ ran = [i \in CallIds |-> ""]
  /\ returned = [i \in CallIds |-> ""]

(* Call starts, and finds a connection's target. *)
Invoke(c) ==
  /\ Idle(c) /\ invoked[c] < MaxCalls
  /\ invoked' = [invoked EXCEPT ![c] = @ + 1]
  /\ UNCHANGED <<ran, returned>>

(* Call starts and returns at once: resolving the service name failed or *)
(* Consul listed no instance.                                             *)
FailEarly(c) ==
  /\ Idle(c) /\ invoked[c] < MaxCalls
  /\ invoked' = [invoked EXCEPT ![c] = @ + 1]
  /\ \E r \in EarlyErrors : returned' = [returned EXCEPT ![<<c, invoked[c] + 1>>] = r]
  /\ UNCHANGED ran

(* The server dispatches the request of a call that is still in flight. *)
Execute(i) ==
  /\ i[2] <= invoked[i[1]] /\ ran[i] = "" /\ returned[i] = ""
  /\ \E o \in Outcomes : ran' = [ran EXCEPT ![i] = o]
  /\ UNCHANGED <<invoked, returned>>

(* Call returns a result consistent with what the server did. *)
Return(c) ==
  LET i == Current(c) IN
  /\ invoked[c] > 0 /\ returned[i] = ""
  /\ \E r \in Results \ EarlyErrors :
       /\ ran[i] \in Allowed(r)
       /\ returned' = [returned EXCEPT ![i] = r]
  /\ UNCHANGED <<invoked, ran>>

Next ==
  \/ \E c \in Clients : Invoke(c) \/ FailEarly(c) \/ Return(c)
  \/ \E i \in CallIds : Execute(i)

Spec == Init /\ [][Next]_vars

=============================================================================
