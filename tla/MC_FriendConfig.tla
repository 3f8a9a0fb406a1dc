--------------------------- MODULE MC_FriendConfig ---------------------------
(* Two writers with one call each, one reader calling GetConfig or      *)
(* GetFriendConfigStatus forever: one reader already holds RLock across a *)
(* writer's Lock, and keeps coming back while the writer waits.  The      *)
(* inputs reach every branch of                                            *)
(* validateAndSetDefaults: MaxFriends 0 (defaulted) or 300, VipMaxFriends *)
(* 0 (doubled, and for 300 wrapped) or 400 (kept when above MaxFriends).  *)
(* IntBits = 10 holds the defaults 200 and 500 and 200 * 2, and makes      *)
(* 300 * 2 wrap, as MaxFriends >= 2^62 does at 64 bits.                    *)
EXTENDS FriendConfig

MCInputs == [max : {0, 300}, vip : {0, 400}]

MCServerFriend == [max |-> 0, vip |-> 0]
==============================================================================
