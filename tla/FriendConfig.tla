---------------------------- MODULE FriendConfig ----------------------------
(***************************************************************************)
(* config/server_config.go FriendConfigManager: the process-wide friend    *)
(* configuration behind a sync.RWMutex.  Writer goroutines call            *)
(* UpdateConfig(newConfig) or InitFriendConfig(serverConfig), which        *)
(* publish a pointer and then validate the object it points to in place;  *)
(* reader goroutines call GetConfig, which copies the current object under *)
(* RLock, a getter built on it (GetMaxFriends), or GetFriendConfigStatus.  *)
(* Every call starts with                                                  *)
(* GetFriendConfigManager, whose sync.Once creates the manager holding     *)
(* GetDefaultFriendConfig().                                               *)
(*                                                                         *)
(* A FriendConfig is abstracted to MaxFriends and VipMaxFriends, the two  *)
(* fields validateAndSetDefaults relates; the other limits follow the same *)
(* "<= 0 means default" rule on their own.  Go's int is IntBits wide, so   *)
(* MaxFriends * 2 wraps as it does at 64 bits.  lastUpdate (time.Now) is  *)
(* the number of updates so far, which orders them as the clock does.     *)
(***************************************************************************)
EXTENDS Integers

CONSTANTS
  Writers,       \* goroutines calling UpdateConfig / InitFriendConfig
  Readers,       \* goroutines calling GetConfig / GetMaxFriends
  Inputs,        \* FriendConfig values callers pass to UpdateConfig
  ServerFriend,  \* serverConfig.Friend as loaded from server.yaml
  IntBits,       \* width of Go's int (64), scaled
  MaxUpdates,    \* bound: calls each writer makes
  None           \* no goroutine / no object / no result

ASSUME IntBits \in Nat /\ IntBits > 1 /\ MaxUpdates \in Nat

Goroutines == Writers \cup Readers

(* The objects a config pointer can point to: the default config, the    *)
(* Friend field of the loaded ServerConfig, and each UpdateConfig         *)
(* argument.                                                               *)
DefaultObj == <<"default", 0>>
ServerObj  == <<"server", 0>>
ObjIds == {DefaultObj, ServerObj} \cup (Writers \X (1..MaxUpdates))

(* Go int arithmetic: two's complement wrap at IntBits. *)
Wrap(x) == ((x + 2^(IntBits - 1)) % 2^IntBits) - 2^(IntBits - 1)
GoInt == -(2^(IntBits - 1)) .. 2^(IntBits - 1) - 1

Configs == [max : GoInt, vip : GoInt]

(* GetDefaultFriendConfig *)
DefaultConfig == [max |-> 200, vip |-> 500]

VARIABLES
  mgr,        \* friendConfigOnce has run: the manager exists
  config,     \* fcm.config, a pointer
  heap,       \* the FriendConfig objects
  lastUpdate, \* fcm.lastUpdate, as the number of updates
  wOwner,     \* RWMutex: the writer holding or waiting for the lock
  wActive,    \* RWMutex: that writer is past the wait for readers
  rHeld,      \* RWMutex: readers holding RLock
  pc,         \* each goroutine's position
  arg,        \* a writer's argument: the object it publishes, None for nil
  calls,      \* calls each writer has made
  op,         \* a reader's call: GetConfig or GetFriendConfigStatus
  snap,       \* each reader's last copy of the config
  status,     \* each reader's last status: <<config, last_update>>
  committed   \* history: <<config, lastUpdate>> the manager held at each unlock

lockVars == <<wOwner, wActive, rHeld>>
readerVars == <<op, snap, status>>
vars == <<mgr, config, heap, lastUpdate, lockVars, pc, arg, calls, readerVars,
          committed>>

(* validateAndSetDefaults on one object: MaxFriends <= 0 becomes 200,     *)
(* then a VipMaxFriends not above MaxFriends becomes MaxFriends * 2.      *)
Validated(c) ==
  LET m == IF c.max <= 0 THEN 200 ELSE c.max
  IN  [max |-> m, vip |-> IF c.vip <= m THEN Wrap(m * 2) ELSE c.vip]

Init ==
  /\ mgr = FALSE
  /\ config = None
  /\ heap = [o \in ObjIds |-> CASE o = ServerObj  -> ServerFriend
                               [] o = DefaultObj -> DefaultConfig
                               [] OTHER          -> [max |-> 0, vip |-> 0]]
  /\ lastUpdate = 0
  /\ wOwner = None /\ wActive = FALSE /\ rHeld = {}
  /\ pc = [g \in Goroutines |-> "idle"]
  /\ arg = [w \in Writers |-> None]
  /\ calls = [w \in Writers |-> 0]
  /\ op = [r \in Readers |-> "get"]
  /\ snap = [r \in Readers |-> None]
  /\ status = [r \in Readers |-> None]
  /\ committed = {}

(* GetFriendConfigManager: the first caller's Once.Do creates the manager *)
(* with the default config; lastUpdate keeps its zero value.               *)
GetFriendConfigManager ==
  /\ mgr' = TRUE
  /\ IF mgr THEN UNCHANGED <<config, committed>>
            ELSE /\ config' = DefaultObj
                 /\ committed' = committed \cup {<<DefaultConfig, lastUpdate>>}

-----------------------------------------------------------------------------
(* Writers.                                                                 *)
(***************************************************************************)

(* A writer calls UpdateConfig (ReloadFriendConfig) with a FriendConfig   *)
(* it built, or InitFriendConfig (InitializeFriendConfig) with the loaded  *)
(* ServerConfig or nil.                                                    *)
WriterCall(w) ==
  /\ pc[w] = "idle" /\ calls[w] < MaxUpdates
  /\ GetFriendConfigManager
  /\ calls' = [calls EXCEPT ![w] = @ + 1]
  /\ \/ \E c \in Inputs :
          LET o == <<w, calls[w] + 1>> IN
          /\ heap' = [heap EXCEPT ![o] = c]
          /\ arg' = [arg EXCEPT ![w] = o]
     \/ \E o \in {ServerObj, None} :
          /\ arg' = [arg EXCEPT ![w] = o]
          /\ UNCHANGED heap
  /\ pc' = [pc EXCEPT ![w] = "lock"]
  /\ UNCHANGED <<lastUpdate, lockVars, readerVars>>

(* fcm.mu.Lock(), first half: take the writer mutex and announce the     *)
(* writer, so that new RLocks block.                                       *)
Lock(w) ==
  /\ pc[w] = "lock" /\ wOwner = None
  /\ wOwner' = w
  /\ pc' = [pc EXCEPT ![w] = "wait"]
  /\ UNCHANGED <<mgr, config, heap, lastUpdate, wActive, rHeld, arg, calls,
                 readerVars, committed>>

(* fcm.mu.Lock(), second half: wait until the readers already inside    *)
(* have left.                                                              *)
LockWait(w) ==
  /\ pc[w] = "wait" /\ rHeld = {}
  /\ wActive' = TRUE
  /\ pc' = [pc EXCEPT ![w] = "publish"]
  /\ UNCHANGED <<mgr, config, heap, lastUpdate, wOwner, rHeld, arg, calls,
                 readerVars, committed>>

(* fcm.config = newConfig, or &serverConfig.Friend when serverConfig is  *)
(* not nil; InitFriendConfig(nil) changes nothing.                         *)
Publish(w) ==
  /\ pc[w] = "publish"
  /\ config' = IF arg[w] = None THEN config ELSE arg[w]
  /\ pc' = [pc EXCEPT ![w] = "validate"]
  /\ UNCHANGED <<mgr, heap, lastUpdate, lockVars, arg, calls, readerVars, committed>>

(* The end of a writer's critical section: lastUpdate = time.Now() and   *)
(* the deferred Unlock.                                                    *)
Unlock(w, h) ==
  /\ heap' = h
  /\ lastUpdate' = lastUpdate + 1
  /\ committed' = committed \cup {<<h[config], lastUpdate + 1>>}
  /\ wOwner' = None /\ wActive' = FALSE
  /\ pc' = [pc EXCEPT ![w] = "idle"]
  /\ UNCHANGED <<mgr, config, rHeld, arg, calls, readerVars>>

(* Faulty variant of Validate: MaxFriends * 2 computed without wrapping. *)
ValidateUnwrapped(w) ==
  /\ pc[w] = "validate"
  /\ LET c == heap[config]
         m == IF c.max <= 0 THEN 200 ELSE c.max
     IN  Unlock(w, IF arg[w] = None THEN heap
                   ELSE [heap EXCEPT ![config] =
                           [max |-> m, vip |-> IF c.vip <= m THEN m * 2 ELSE c.vip]])

(* validateAndSetDefaults on the published object, in place (skipped for *)
(* a nil serverConfig), then lastUpdate and the Unlock.                    *)
Validate(w) ==
  /\ pc[w] = "validate"
  /\ Unlock(w, IF arg[w] = None THEN heap ELSE [heap EXCEPT ![config] = Validated(@)])

-----------------------------------------------------------------------------
(* Readers.                                                                 *)
(***************************************************************************)

(* A reader calls GetConfig (or a getter on it: GetMaxFriends, ...), or  *)
(* GetFriendConfigStatus.                                                  *)
ReaderCall(r) ==
  /\ pc[r] = "idle"
  /\ GetFriendConfigManager
  /\ \E o \in {"get", "status"} : op' = [op EXCEPT ![r] = o]
  /\ pc' = [pc EXCEPT ![r] = "rlock"]
  /\ UNCHANGED <<heap, lastUpdate, lockVars, arg, calls, snap, status>>

(* Faulty variant of RLock: GetConfig copies without taking the lock. *)
RLockNotWaiting(r) ==
  /\ pc[r] \in {"rlock", "timeRlock"}
  /\ rHeld' = rHeld \cup {r}
  /\ pc' = [pc EXCEPT ![r] = IF @ = "rlock" THEN "copy" ELSE "timeRead"]
  /\ UNCHANGED <<mgr, config, heap, lastUpdate, wOwner, wActive, arg, calls,
                 readerVars, committed>>

(* fcm.mu.RLock() in GetConfig or GetLastUpdateTime: blocks while a       *)
(* writer holds or waits for the lock.                                     *)
RLock(r) ==
  /\ pc[r] \in {"rlock", "timeRlock"} /\ wOwner = None
  /\ rHeld' = rHeld \cup {r}
  /\ pc' = [pc EXCEPT ![r] = IF @ = "rlock" THEN "copy" ELSE "timeRead"]
  /\ UNCHANGED <<mgr, config, heap, lastUpdate, wOwner, wActive, arg, calls,
                 readerVars, committed>>

(* Faulty variant of Copy: the deferred RUnlock is missing. *)
CopyNoRUnlock(r) ==
  /\ pc[r] = "copy"
  /\ snap' = [snap EXCEPT ![r] = heap[config]]
  /\ pc' = [pc EXCEPT ![r] = IF op[r] = "status" THEN "timeRlock" ELSE "idle"]
  /\ UNCHANGED <<mgr, config, heap, lastUpdate, lockVars, arg, calls, op, status,
                 committed>>

(* configCopy := *fcm.config and the deferred RUnlock.  The getters      *)
(* (GetMaxFriends, CanAddMoreFriends, ...) each pick from one such copy;   *)
(* GetFriendConfigStatus goes on to GetFriendConfigLastUpdate.            *)
Copy(r) ==
  /\ pc[r] = "copy"
  /\ snap' = [snap EXCEPT ![r] = heap[config]]
  /\ rHeld' = rHeld \ {r}
  /\ pc' = [pc EXCEPT ![r] = IF op[r] = "status" THEN "timeRlock" ELSE "idle"]
  /\ UNCHANGED <<mgr, config, heap, lastUpdate, wOwner, wActive, arg, calls, op,
                 status, committed>>

(* GetLastUpdateTime's read and RUnlock; GetFriendConfigStatus returns   *)
(* its map of the copied fields and this time.                             *)
TimeRead(r) ==
  /\ pc[r] = "timeRead"
  /\ status' = [status EXCEPT ![r] = <<snap[r], lastUpdate>>]
  /\ rHeld' = rHeld \ {r}
  /\ pc' = [pc EXCEPT ![r] = "idle"]
  /\ UNCHANGED <<mgr, config, heap, lastUpdate, wOwner, wActive, arg, calls, op,
                 snap, committed>>

Next ==
  \/ \E w \in Writers :
       WriterCall(w) \/ Lock(w) \/ LockWait(w) \/ Publish(w) \/ Validate(w)
  \/ \E r \in Readers : ReaderCall(r) \/ RLock(r) \/ Copy(r) \/ TimeRead(r)

(* Go's scheduler runs every runnable goroutine, and the RWMutex wakes    *)
(* whoever it unblocks; nobody is forced to make a call.                  *)
Fairness ==
  /\ \A w \in Writers : WF_vars(Lock(w) \/ LockWait(w) \/ Publish(w) \/ Validate(w))
  /\ \A r \in Readers : WF_vars(RLock(r) \/ Copy(r) \/ TimeRead(r))

Spec == Init /\ [][Next]_vars /\ Fairness

-----------------------------------------------------------------------------
(* Properties.                                                             *)
(***************************************************************************)

(* The configs the manager has held, whatever their time. *)
CommittedConfigs == {e[1] : e \in committed}

FriendConfigTypeOK ==
  /\ heap \in [ObjIds -> Configs]
  /\ config \in ObjIds \cup {None}
  /\ snap \in [Readers -> Configs \cup {None}]
  /\ rHeld \subseteq Readers /\ wOwner \in Writers \cup {None}

(* GetConfig reads the latest update (server_config.go:199-204 publishes  *)
(* the caller's object and only then validates it in place, and GetConfig *)
(* copies it under RLock): every copy a reader takes is the config the    *)
(* manager held when the last writer unlocked (or the default it was       *)
(* created with), never a half-made one nor one an update has replaced.   *)
ConfigReadIsLatest ==
  [][\A r \in Readers :
       pc[r] = "copy" /\ pc'[r] # "copy" => <<snap'[r], lastUpdate>> \in committed]_vars

(* A writer is never starved by readers (UpdateConfig and                 *)
(* InitFriendConfig take fcm.mu.Lock while GetConfig callers keep taking  *)
(* RLock): every call a writer starts returns.                             *)
UpdateConfigReturns ==
  \A w \in Writers : pc[w] # "idle" ~> pc[w] = "idle"

(* What the code means by validation (server_config.go:235-237): after   *)
(* validateAndSetDefaults the VIP limit is above the normal one.           *)
VipAboveNormal ==
  \A c \in CommittedConfigs : c.vip > c.max

(* GetFriendConfigStatus reports a config together with the time it was  *)
(* set: the pair it returns is one the manager held.                      *)
StatusConsistent ==
  \A r \in Readers : status[r] # None => status[r] \in committed

-----------------------------------------------------------------------------
(* Callers that keep the pointer they passed.                               *)
(***************************************************************************)

(* A caller writes a field of the FriendConfig it handed to UpdateConfig, *)
(* after the call, without the lock: GetConfig's copy ("to prevent        *)
(* external modification", server_config.go:191) no longer protects the   *)
(* manager.                                                                *)
CallerWrite(w) ==
  /\ pc[w] = "idle" /\ calls[w] > 0 /\ arg[w] \in Writers \X (1..MaxUpdates)
  /\ \E c \in Inputs : heap' = [heap EXCEPT ![arg[w]] = c]
  /\ UNCHANGED <<mgr, config, lastUpdate, lockVars, pc, arg, calls, readerVars,
                 committed>>

SpecWithAliasing ==
  Init /\ [][Next \/ \E w \in Writers : CallerWrite(w)]_vars /\ Fairness
=============================================================================
