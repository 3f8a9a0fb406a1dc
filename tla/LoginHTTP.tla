------------------------------ MODULE LoginHTTP ------------------------------
(***************************************************************************)
(* The HTTP/JSON layer between SimulatedClient.Login and LoginImpl:       *)
(* LoginHandler.HandleLogin and HandleValidateSession (loginserver/       *)
(* login_handler.go), the protojson encoding they use, and the            *)
(* encoding/json decoding of cmd/simulator/client.go.  All pure operators. *)
(*                                                                         *)
(* A JSON object is a function from keys to values.  Keys are sequences   *)
(* of one-character strings, because the two sides disagree on how a      *)
(* field name is spelled and the spelling is what is checked.  Values:    *)
(* ids and tokens are the numbers Login uses (0 is the empty string),     *)
(* success and is_valid are booleans, error messages are short names.     *)
(***************************************************************************)
EXTENDS Integers, Sequences, TLC

Lower == <<"a","b","c","d","e","f","g","h","i","j","k","l","m",
           "n","o","p","q","r","s","t","u","v","w","x","y","z">>
Upper == <<"A","B","C","D","E","F","G","H","I","J","K","L","M",
           "N","O","P","Q","R","S","T","U","V","W","X","Y","Z">>

(* unicode.ToUpper / ToLower on the characters that occur in names. *)
ToUpperCh(ch) == IF \E i \in 1..26 : Lower[i] = ch
                 THEN Upper[CHOOSE i \in 1..26 : Lower[i] = ch] ELSE ch
ToLowerCh(ch) == IF \E i \in 1..26 : Upper[i] = ch
                 THEN Lower[CHOOSE i \in 1..26 : Upper[i] = ch] ELSE ch

(* strings.EqualFold, which encoding/json uses to match a key to a tag. *)
EqualFold(a, b) ==
  Len(a) = Len(b) /\ \A i \in 1..Len(a) : ToLowerCh(a[i]) = ToLowerCh(b[i])

(* The proto field names of LoginResponse and ValidateSessionResponse,    *)
(* as the API guide lists them; the client's struct tags (client.go      *)
(* 34-39) are the same strings.                                           *)
UserIdName       == <<"u","s","e","r","_","i","d">>
NicknameName     == <<"n","i","c","k","n","a","m","e">>
SessionTokenName == <<"s","e","s","s","i","o","n","_","t","o","k","e","n">>
SuccessName      == <<"s","u","c","c","e","s","s">>
ErrorMessageName == <<"e","r","r","o","r","_","m","e","s","s","a","g","e">>
IsValidName      == <<"i","s","_","v","a","l","i","d">>

(* The JSON name protoc gives a field, which protojson writes: each '_'  *)
(* is dropped and the letter after it upper-cased (user_id -> userId).    *)
RECURSIVE ToJsonName(_, _)
ToJsonName(s, up) ==
  IF s = <<>> THEN <<>>
  ELSE IF Head(s) = "_" THEN ToJsonName(Tail(s), TRUE)
  ELSE <<IF up THEN ToUpperCh(Head(s)) ELSE Head(s)>> \o ToJsonName(Tail(s), FALSE)

JsonKey(f) == ToJsonName(f, FALSE)

(* protojson.MarshalOptions{EmitUnpopulated: true}.Marshal: every field,  *)
(* zero or not, under its JSON name.  fields is a proto name -> value map. *)
ProtoMarshal(fields) == [k \in {JsonKey(f) : f \in DOMAIN fields} |->
                          fields[CHOOSE f \in DOMAIN fields : JsonKey(f) = k]]

(* protojson.Unmarshal of field f: the key may be the JSON name or the    *)
(* proto name; an absent field keeps its zero value.                      *)
ProtoField(obj, f, zero) ==
  IF JsonKey(f) \in DOMAIN obj THEN obj[JsonKey(f)]
  ELSE IF f \in DOMAIN obj THEN obj[f] ELSE zero

(* protojson.Unmarshal rejects a key that names no field of the message. *)
ProtoUnknownKey(obj, names) ==
  \E k \in DOMAIN obj : k \notin names /\ k \notin {JsonKey(f) : f \in names}

(* encoding/json decoding into a field tagged t: the key equal to t, else *)
(* one equal to it up to case, else the zero value.                       *)
JsonField(obj, t, zero) ==
  IF t \in DOMAIN obj THEN obj[t]
  ELSE IF \E k \in DOMAIN obj : EqualFold(k, t)
       THEN obj[CHOOSE k \in DOMAIN obj : EqualFold(k, t)]
       ELSE zero

(* An HTTP response: a status and either a JSON body or http.Error text. *)
Text == [status |-> 0, json |-> FALSE, body |-> <<>>]
ErrorReply(status) == [Text EXCEPT !.status = status]
JsonReply(status, body) == [status |-> status, json |-> TRUE, body |-> body]

(* HandleLogin after the request was read and decoded, given what        *)
(* ProcessLogin returned (Login's out record) and the Nickname it set: an *)
(* error becomes a 500 text reply; otherwise the status follows Success   *)
(* and ErrorMessage and the response is marshalled with protojson.        *)
LoginStatus(r) ==
  CASE r.success                                -> 200
    [] r.msg = "required"                       -> 400
    [] r.msg \in {"createFailed", "findErr"}    -> 500
    [] OTHER                                    -> 401

HandleLogin(r, n) ==
  IF r.err THEN ErrorReply(500)
  ELSE JsonReply(LoginStatus(r),
         ProtoMarshal((UserIdName :> r.pid) @@ (NicknameName :> n)
                      @@ (SessionTokenName :> r.token) @@ (SuccessName :> r.success)
                      @@ (ErrorMessageName :> r.msg)))

(* Faulty variant of ClientLogin: UserID is tagged json:"nickname".  *)
ClientLoginNickTag(resp) ==
  IF resp.status # 200 \/ ~JsonField(resp.body, SuccessName, FALSE)
  THEN [err |-> TRUE, userId |-> 0, token |-> 0]
  ELSE [err |-> FALSE, userId |-> JsonField(resp.body, NicknameName, 0),
        token |-> JsonField(resp.body, SessionTokenName, 0)]

(* SimulatedClient.Login after http.Post returned resp: a status other   *)
(* than 200 is an error (its body decoded only for the message); a 200    *)
(* body is decoded into LoginResponse, and Success false is an error;     *)
(* otherwise UserID and SessionToken are taken from the body.             *)
ClientLogin(resp) ==
  IF resp.status # 200 \/ ~JsonField(resp.body, SuccessName, FALSE)
  THEN [err |-> TRUE, userId |-> 0, token |-> 0]
  ELSE [err |-> FALSE, userId |-> JsonField(resp.body, UserIdName, 0),
        token |-> JsonField(resp.body, SessionTokenName, 0)]

(* HandleValidateSession for a request body req, where LoginImpl's       *)
(* ValidateSession reads the Redis store (token -> UserId): an empty or   *)
(* unknown token is an error, reported as noUser.                         *)
(* A body with an unknown key is a 400; an empty token, or a token        *)
(* ValidateSession cannot resolve, a 401 with IsValid false; otherwise    *)
(* 200 with UserId and IsValid.  The reply is marshalled with protojson.  *)
HandleValidateSession(req, store, noUser) ==
  LET t == ProtoField(req, SessionTokenName, 0)
      u == IF t = 0 \/ t \notin DOMAIN store THEN noUser ELSE store[t]
  IN IF ProtoUnknownKey(req, {SessionTokenName}) THEN ErrorReply(400)
     ELSE IF u = noUser
     THEN JsonReply(401, ProtoMarshal((UserIdName :> 0) @@ (IsValidName :> FALSE)
                                      @@ (ErrorMessageName :> "invalid")))
     ELSE JsonReply(200, ProtoMarshal((UserIdName :> u) @@ (IsValidName :> TRUE)
                                      @@ (ErrorMessageName :> "none")))
==============================================================================
