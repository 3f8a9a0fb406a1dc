------------------------------ MODULE SimClient ------------------------------
(***************************************************************************)
(* SimulatedClient of cmd/simulator/client.go used as a library (the      *)
(* integration test, a tool): a caller invokes its methods in any order.  *)
(* Login goes through LoginHandler.HandleLogin (LoginHTTP) to              *)
(* ProcessLogin (Login), composed here with the login server: each client  *)
(* is served by its own handler, and the other handlers serve the logins   *)
(* of other users.  ConnectToGateway, the room RPCs, the direct           *)
(* GameService calls and Close complete the client; their servers are not *)
(* modelled, each call succeeding or failing.                              *)
(***************************************************************************)
EXTENDS Login, LoginHTTP

CONSTANTS
  Clients,        \* the library clients, each served by its own handler
  Username,       \* each client's user name
  MaxCalls        \* bound: method calls per client

ASSUME Clients \subseteq Handlers /\ Username \in [Clients -> Nicks] /\ MaxCalls \in Nat

VARIABLES
  cpc,          \* "idle" or "login" (awaiting /api/login)
  userID,       \* sc.UserID (0 is "")
  token,        \* sc.SessionToken (0 is "")
  passwordSet,  \* sc.Password is not empty
  gwAddr,       \* sc.gatewayServiceAddress is set
  gwConn,       \* sc.gatewayConn is not nil
  gameConn,     \* sc.directGameServiceConn is open
  calls,        \* methods each client has called
  loginOK       \* the last Login() returned nil

clientVars == <<cpc, userID, token, passwordSet, gwAddr, gwConn, gameConn,
                calls, loginOK>>
allVars == <<vars, clientVars>>

RoomMethods == {"CreateRoom", "JoinRoom", "PlayerReady", "GetRoomList",
                "LeaveRoom", "StartGame"}
GameMethods == {"RollDice", "Move", "PlayCard", "EndTurn", "SendChatMessage"}

ClientsInit ==
  /\ Init
  /\ cpc = [c \in Clients |-> "idle"]
  /\ userID = [c \in Clients |-> 0]
  /\ token = [c \in Clients |-> 0]
  /\ passwordSet \in [Clients -> BOOLEAN]
  /\ gwAddr = [c \in Clients |-> FALSE]
  /\ gwConn = [c \in Clients |-> FALSE]
  /\ gameConn = [c \in Clients |-> TRUE]
  /\ calls = [c \in Clients |-> 0]
  /\ loginOK = [c \in Clients |-> FALSE]

(***************************************************************************)
(* Library clients.  A client was built by NewSimulatedClient with the    *)
(* GameService discovered and dialled (a failure there returns no client). *)
(* Each method call is one step, bounded by MaxCalls.  What a method     *)
(* returns is kept only for Login, whose result the properties read.      *)
(***************************************************************************)
Called(c) == calls' = [calls EXCEPT ![c] = @ + 1]

(* Login(): http.Post of {username, password} to /api/login.  Either the  *)
(* POST fails before ProcessLogin runs (a dial error, or io.ReadAll's 500) *)
(* and Login returns an error, or HandleLogin calls ProcessLogin, which   *)
(* refuses an empty password at once.                                      *)
LoginPost(c) ==
  /\ cpc[c] = "idle" /\ calls[c] < MaxCalls
  /\ \/ /\ Called(c) /\ loginOK' = [loginOK EXCEPT ![c] = FALSE]
        /\ UNCHANGED <<vars, cpc>>
     \/ /\ IF passwordSet[c] THEN Start(c, Username[c]) ELSE RejectEmpty(c)
        /\ cpc' = [cpc EXCEPT ![c] = "login"]
        /\ Called(c) /\ UNCHANGED loginOK
  /\ UNCHANGED <<userID, token, passwordSet, gwAddr, gwConn, gameConn>>

(* ProcessLogin has returned: HandleLogin writes its reply, and Login     *)
(* decodes it with encoding/json, setting UserID and SessionToken from a  *)
(* 200 reply with success true.  The reply may also be lost, Post then    *)
(* returning an error though the server logged the user in.              *)
LoginReply(c) ==
  LET n == IF out[c].success THEN nick[c] ELSE NoNick
      r == ClientLogin(HandleLogin(out[c], n)) IN
  /\ cpc[c] = "login" /\ hpc[c] = "idle"
  /\ cpc' = [cpc EXCEPT ![c] = "idle"]
  /\ \/ /\ loginOK' = [loginOK EXCEPT ![c] = FALSE]
        /\ UNCHANGED <<userID, token>>
     \/ /\ loginOK' = [loginOK EXCEPT ![c] = ~r.err]
        /\ userID' = [userID EXCEPT ![c] = IF r.err THEN @ ELSE r.userId]
        /\ token' = [token EXCEPT ![c] = IF r.err THEN @ ELSE r.token]
  /\ UNCHANGED <<vars, passwordSet, gwAddr, gwConn, gameConn, calls>>

(* ConnectToGateway: discovery or the dial may fail.  After a dial the    *)
(* address is stored and the connection kept, then, with no UserID or     *)
(* SessionToken, closed and set to nil with an error; otherwise the       *)
(* handshake is written, and a failed write also closes it.               *)
ConnectToGateway(c) ==
  /\ cpc[c] = "idle" /\ calls[c] < MaxCalls
  /\ Called(c)
  /\ \/ UNCHANGED <<gwAddr, gwConn>>
     \/ /\ gwAddr' = [gwAddr EXCEPT ![c] = TRUE]
        /\ IF userID[c] = 0 \/ token[c] = 0
           THEN gwConn' = [gwConn EXCEPT ![c] = FALSE]
           ELSE gwConn' \in {[gwConn EXCEPT ![c] = written] : written \in BOOLEAN}
  /\ UNCHANGED <<vars, cpc, userID, token, passwordSet, gameConn, loginOK>>

(* The room methods call rpcClient.Call, which may fail (RPC module).    *)
(* CreateRoom and JoinRoom first require gatewayServiceAddress; the others *)
(* require RoomServiceName, which the flags always set.  CreateRoom also   *)
(* fails on a reply without RoomData.                                      *)
RoomCall(c, m) ==
  /\ cpc[c] = "idle" /\ calls[c] < MaxCalls
  /\ Called(c)
  /\ UNCHANGED <<vars, cpc, userID, token, passwordSet, gwAddr, gwConn, gameConn,
                 loginOK>>

(* The GameService methods use directGameServiceClient, whose gRPC call   *)
(* fails once Close closed its connection.                                 *)
GameCall(c, m) ==
  /\ cpc[c] = "idle" /\ calls[c] < MaxCalls
  /\ Called(c)
  /\ UNCHANGED <<vars, cpc, userID, token, passwordSet, gwAddr, gwConn, gameConn,
                 loginOK>>

(* Close: CloseAllConnections on the RPC client, Close on gatewayConn    *)
(* (left non-nil) and on the direct GameService connection.               *)
CloseClient(c) ==
  /\ cpc[c] = "idle" /\ calls[c] < MaxCalls
  /\ gameConn' = [gameConn EXCEPT ![c] = FALSE]
  /\ Called(c)
  /\ UNCHANGED <<vars, cpc, userID, token, passwordSet, gwAddr, gwConn, loginOK>>

(* Nothing is left to do: every client and every other handler has made  *)
(* its calls, or the ID generator's clock has reached its bound.          *)
ClientsDone ==
  \/ clock = MaxTime
  \/ /\ \A c \in Clients : cpc[c] = "idle" /\ calls[c] = MaxCalls
     /\ \A h \in Handlers \ Clients : hpc[h] = "idle" /\ served[h] = MaxLogins

ClientStep(c) ==
  \/ LoginPost(c) \/ LoginReply(c) \/ ConnectToGateway(c) \/ CloseClient(c)
  \/ \E m \in RoomMethods : RoomCall(c, m)
  \/ \E m \in GameMethods : GameCall(c, m)

ClientsNext ==
  \/ \E c \in Clients : ClientStep(c)
  \/ \E h \in Handlers \ Clients : (RejectEmpty(h) \/ \E u \in Nicks : Start(h, u))
                                   /\ UNCHANGED clientVars
  \/ \E h \in Handlers : (Find(h) \/ Insert(h) \/ Session(h)) /\ UNCHANGED clientVars
  \/ Tick /\ UNCHANGED <<loginVars, clientVars>>
  \/ ClientsDone /\ UNCHANGED allVars

ClientsSpec == ClientsInit /\ [][ClientsNext]_allVars

-----------------------------------------------------------------------------
ClientsTypeOK ==
  /\ TypeOK
  /\ cpc \in [Clients -> {"idle", "login"}]
  /\ userID \in [Clients -> {0} \cup GenIds]
  /\ token \in [Clients -> {0} \cup GenIds]
  /\ {passwordSet, gwAddr, gwConn, gameConn, loginOK} \subseteq [Clients -> BOOLEAN]
  /\ calls \in [Clients -> 0..MaxCalls]

(* The reply to a valid token is the one the API guide documents for     *)
(* /api/validate_session: a JSON object whose "user_id" key holds the      *)
(* login's UserId.  HandleValidateSession marshals with protojson's JSON  *)
(* names (login_handler.go:192), which write the key "userId".           *)
SessionReplyAsDocumented ==
  \A l \in logins :
    LET r == HandleValidateSession(SessionTokenName :> l.token, sessions, NoNick)
    IN r.status = 200 /\ UserIdName \in DOMAIN r.body /\ r.body[UserIdName] = l.pid

(* After Login() returned nil the client holds the session the server     *)
(* issued: SessionToken is set and validates to UserID, as the gateway    *)
(* handshake and every room and game request built from them expect.      *)
LoginKeepsSession ==
  \A c \in Clients :
    loginOK[c] =>
      token[c] # 0 /\ ValidateSession(token[c]) = userID[c]
==============================================================================
