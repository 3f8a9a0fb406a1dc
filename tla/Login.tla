-------------------------------- MODULE Login --------------------------------
(***************************************************************************)
(* LoginImpl of internal/loginserver/login_impl.go.  Concurrent requests  *)
(* (handler goroutines of one or more login server processes) run         *)
(* ProcessLogin against the shared MongoDB players collection and Redis.   *)
(* Player IDs and session tokens come from the process's default          *)
(* IDGenerator (GetDefaultIDGenerator: node ID 1 in every process).       *)
(*                                                                         *)
(* Each database call is one atomic step and may fail.  Documents are     *)
(* [nick, pid]; the other Player fields and UpdateOne's lastlogin/online   *)
(* write are not read by anything modelled.  A session key                *)
(* "session:S<id>" is represented by the id, since the formatting is       *)
(* injective.  Session expiry (24 h) is not modelled.                     *)
(***************************************************************************)
EXTENDS IDGenerator, FiniteSets, TLC

CONSTANTS
  Handlers,   \* request goroutines
  ProcOf,     \* the login server process (generator) serving each handler
  Nicks,      \* non-empty user names
  NoNick,     \* an empty username or password
  MaxLogins   \* bound: requests served by each handler

ASSUME ProcOf \in [Handlers -> Gens] /\ NoNick \notin Nicks

VARIABLES
  hpc,       \* handler: "idle", "find", "insert", "session"
  nick,      \* req.Username of the current request
  pid,       \* newPlayerID or playerDoc.PlayerId of the current request
  served,    \* requests each handler has started
  players,   \* the players collection: a set of [nick, pid] documents
  sessions,  \* Redis: session token -> player id
  logins,    \* history: [nick, pid, token] of every successful response
  out        \* what ProcessLogin returned to each handler's last request

loginVars == <<hpc, nick, pid, served, players, sessions, logins, out>>
vars == <<genVars, loginVars>>

(* ProcessLogin's two results: err is TRUE for the returns with a      *)
(* non-nil error; msg stands for the response's ErrorMessage.            *)
NoOut == [err |-> FALSE, success |-> FALSE, msg |-> "none", pid |-> 0, token |-> 0]
LoginErr(m) == [NoOut EXCEPT !.err = TRUE, !.msg = m]
Return(h, r) == out' = [out EXCEPT ![h] = r]

(* Player IDs and tokens GenerateID can return within the bounds. *)
GenIds == {IdOf(g, t, s) : g \in Gens, t \in customEpoch..MaxTime,
                           s \in 0..maxSequence}

(* GenerateID can issue on generator g now: the clock is not behind       *)
(* lastTime (MaxBack is 0 here, so the panic is IDCallers' concern) and   *)
(* the sequence has not wrapped.  After a wrap the caller spins until the *)
(* clock passes lastTime, which this guard models by waiting.             *)
GenReady(g) == clock >= lastTime[g] /\ ~Overflows(g, clock)

(* The ID the locked section of GenerateID returns now. *)
GenID(g) == IdOf(g, clock, NextSeq(g, clock))

Init ==
  /\ GenInit
  /\ hpc = [h \in Handlers |-> "idle"]
  /\ nick = [h \in Handlers |-> NoNick]
  /\ pid = [h \in Handlers |-> 0]
  /\ served = [h \in Handlers |-> 0]
  /\ players = {}
  /\ sessions = [t \in {} |-> 0]
  /\ logins = {}
  /\ out = [h \in Handlers |-> NoOut]

(* A request with an empty username or password is refused at once:     *)
(* Success false, "Username and password are required", a nil error.     *)
RejectEmpty(h) ==
  /\ hpc[h] = "idle" /\ served[h] < MaxLogins
  /\ served' = [served EXCEPT ![h] = @ + 1]
  /\ Return(h, [NoOut EXCEPT !.msg = "required"])
  /\ UNCHANGED <<genVars, hpc, nick, pid, players, sessions, logins>>

(* A request for user u enters ProcessLogin. *)
Start(h, u) ==
  /\ hpc[h] = "idle" /\ served[h] < MaxLogins
  /\ served' = [served EXCEPT ![h] = @ + 1]
  /\ nick' = [nick EXCEPT ![h] = u]
  /\ hpc' = [hpc EXCEPT ![h] = "find"]
  /\ Return(h, NoOut)
  /\ UNCHANGED <<genVars, pid, players, sessions, logins>>

(* Faulty variant of Find: ErrNoDocuments is not told apart from success, *)
(* so the zero-valued playerDoc (PlayerId 0) gets a session.              *)
FindIgnoringNotFound(h) ==
  LET docs == {d \in players : d.nick = nick[h]} IN
  /\ hpc[h] = "find"
  /\ \/ \E d \in docs : /\ pid' = [pid EXCEPT ![h] = d.pid]
                        /\ hpc' = [hpc EXCEPT ![h] = "session"]
                        /\ UNCHANGED out
     \/ /\ docs = {}
        /\ pid' = [pid EXCEPT ![h] = 0]
        /\ hpc' = [hpc EXCEPT ![h] = "session"]
        /\ UNCHANGED out
     \/ /\ hpc' = [hpc EXCEPT ![h] = "idle"]
        /\ Return(h, LoginErr("findErr"))
        /\ UNCHANGED pid
  /\ UNCHANGED <<genVars, nick, served, players, sessions, logins>>

(* FindOne({nick}): a matching document (any one, if the race below made   *)
(* several) goes on to UpdateOne, whose error is ignored, and the session; *)
(* ErrNoDocuments goes on to create the player; any other error returns    *)
(* "Database error while finding player." with a non-nil error.           *)
Find(h) ==
  LET docs == {d \in players : d.nick = nick[h]} IN
  /\ hpc[h] = "find"
  /\ \/ \E d \in docs : /\ pid' = [pid EXCEPT ![h] = d.pid]
                        /\ hpc' = [hpc EXCEPT ![h] = "session"]
                        /\ UNCHANGED out
     \/ /\ docs = {}
        /\ hpc' = [hpc EXCEPT ![h] = "insert"]
        /\ UNCHANGED <<pid, out>>
     \/ /\ hpc' = [hpc EXCEPT ![h] = "idle"]
        /\ Return(h, LoginErr("findErr"))
        /\ UNCHANGED pid
  /\ UNCHANGED <<genVars, nick, served, players, sessions, logins>>

(* Faulty variant of Insert: insertErr is ignored and the login goes on  *)
(* to create a session for a player that was never stored.                *)
InsertIgnoringErr(h) ==
  LET g == ProcOf[h] IN
  /\ hpc[h] = "insert" /\ GenReady(g)
  /\ Issue(g, clock)
  /\ pid' = [pid EXCEPT ![h] = GenID(g)]
  /\ hpc' = [hpc EXCEPT ![h] = "session"]
  /\ \/ players' = players \cup {[nick |-> nick[h], pid |-> GenID(g)]}
     \/ UNCHANGED players
  /\ UNCHANGED <<clock, backs, nick, served, sessions, logins, out>>

(* newPlayerID := GenerateID(), then InsertOne of the new document; on    *)
(* insertErr the request returns "Failed to create new player account."   *)
(* with an error (the ID is spent).  Nothing stops two requests for the   *)
(* same nick from both getting here.                                       *)
Insert(h) ==
  LET g == ProcOf[h] IN
  /\ hpc[h] = "insert" /\ GenReady(g)
  /\ Issue(g, clock)
  /\ \/ /\ players' = players \cup {[nick |-> nick[h], pid |-> GenID(g)]}
        /\ pid' = [pid EXCEPT ![h] = GenID(g)]
        /\ hpc' = [hpc EXCEPT ![h] = "session"]
        /\ UNCHANGED out
     \/ /\ hpc' = [hpc EXCEPT ![h] = "idle"]
        /\ Return(h, LoginErr("createFailed"))
        /\ UNCHANGED <<players, pid>>
  /\ UNCHANGED <<clock, backs, nick, served, sessions, logins>>

(* Faulty variant of Session: the token is computed from the generator's *)
(* state but the locked section's store of lastTime/sequence is lost.     *)
SessionNotStored(h) ==
  LET g == ProcOf[h]
      token == GenID(g) IN
  /\ hpc[h] = "session" /\ GenReady(g)
  /\ hpc' = [hpc EXCEPT ![h] = "idle"]
  /\ \/ /\ sessions' = (token :> pid[h]) @@ sessions
        /\ logins' = logins \cup {[nick |-> nick[h], pid |-> pid[h],
                                   token |-> token]}
        /\ Return(h, [NoOut EXCEPT !.success = TRUE, !.msg = "ok",
                                   !.pid = pid[h], !.token = token])
     \/ /\ Return(h, LoginErr("sessionFailed"))
        /\ UNCHANGED <<sessions, logins>>
  /\ UNCHANGED <<genVars, nick, pid, served, players>>

(* sessionToken := GenerateSessionID(); Redis SET "session:"+token to the  *)
(* player id (overwriting any value the key had).  On success the request *)
(* returns Success with UserId and SessionToken; on a Redis error it       *)
(* returns "Failed to store session ..." with an error, the player         *)
(* document staying in place.                                              *)
Session(h) ==
  LET g == ProcOf[h]
      token == GenID(g) IN
  /\ hpc[h] = "session" /\ GenReady(g)
  /\ Issue(g, clock)
  /\ hpc' = [hpc EXCEPT ![h] = "idle"]
  /\ \/ /\ sessions' = (token :> pid[h]) @@ sessions
        /\ logins' = logins \cup {[nick |-> nick[h], pid |-> pid[h],
                                   token |-> token]}
        /\ Return(h, [NoOut EXCEPT !.success = TRUE, !.msg = "ok",
                                   !.pid = pid[h], !.token = token])
     \/ /\ Return(h, LoginErr("sessionFailed"))
        /\ UNCHANGED <<sessions, logins>>
  /\ UNCHANGED <<clock, backs, nick, pid, served, players>>

(* ValidateSession(token): GET "session:"+token; redis.Nil is an error,   *)
(* otherwise the stored user id.  It changes no state.                    *)
ValidateSession(t) == IF t \in DOMAIN sessions THEN sessions[t] ELSE NoNick

(* Every request is served, or time has reached its bound. *)
Finished ==
  \/ clock = MaxTime
  \/ \A h \in Handlers : hpc[h] = "idle" /\ served[h] = MaxLogins

Next ==
  \/ \E h \in Handlers :
       \/ RejectEmpty(h)
       \/ \E u \in Nicks : Start(h, u)
       \/ Find(h) \/ Insert(h) \/ Session(h)
  \/ Tick /\ UNCHANGED loginVars
  \/ Finished /\ UNCHANGED vars

Spec == Init /\ [][Next]_vars

-----------------------------------------------------------------------------
TypeOK ==
  /\ hpc \in [Handlers -> {"idle", "find", "insert", "session"}]
  /\ players \subseteq [nick : Nicks, pid : GenIds]
  /\ logins \subseteq [nick : Nicks, pid : GenIds, token : GenIds]
  /\ DOMAIN sessions \subseteq GenIds
  /\ out \in [Handlers -> [err : BOOLEAN, success : BOOLEAN, pid : {0} \cup GenIds,
                            token : {0} \cup GenIds,
                            msg : {"none", "required", "ok", "findErr",
                                   "createFailed", "sessionFailed"}]]

(* Every successful login's token validates to the UserId the login       *)
(* returned: ValidateSession, called at any later time, resolves each     *)
(* token handed out by ProcessLogin to its own player and no other.       *)
SessionResolvesToLogin ==
  \A l \in logins : ValidateSession(l.token) = l.pid

(* ProcessLogin only reports Success for a player that exists: the        *)
(* returned UserId is the id of a stored document with that nick, across  *)
(* failed inserts and failed Redis writes.                                *)
LoginHasAccount ==
  \A l \in logins : [nick |-> l.nick, pid |-> l.pid] \in players

(* A user name identifies one player: every successful login of the same  *)
(* username returns the same UserId (ProcessLogin looks the player up by  *)
(* nick and creates one only when none exists).                           *)
LoginIdentityStable ==
  \A l1, l2 \in logins : l1.nick = l2.nick => l1.pid = l2.pid
==============================================================================
