------------------------------ MODULE IDCallers ------------------------------
(***************************************************************************)
(* Goroutines of several processes calling GenerateShortInt64ID          *)
(* (help/id_generator.go), and through it GenerateID, on their process's   *)
(* generator, while the wall clock advances or is stepped back.  Each call *)
(* yields both the ID GenerateID returned and the short ID derived from it, *)
(* so one call checks both functions.                                      *)
(*                                                                         *)
(* GenerateID runs under g.mutex: the locked section is one step, except   *)
(* when the sequence wraps and the caller spins, still holding the mutex,  *)
(* until the clock passes lastTime.  A clock behind lastTime panics, which *)
(* kills the process.  GenerateShortInt64ID reads time.Now().Unix() before *)
(* calling GenerateID and keeps the low 16 bits of the ID.                 *)
(***************************************************************************)
EXTENDS IDGenerator, IDFormat, Sequences

CONSTANTS
  Callers,   \* goroutines calling the generator
  GenOf,     \* the generator (process) of each caller
  MaxIds,    \* bound: calls made by each caller
  MsPerSec,  \* 1000: time.Now().Unix() is the clock in ms divided by this
  LowBits,   \* 16: GenerateShort*ID keeps id & 0xFFFF
  ShortMul,  \* 100000: GenerateShort*ID returns now*100000 + seq
  NoCaller   \* no caller holds a generator's mutex while spinning

ASSUME GenOf \in [Callers -> Gens] /\ MsPerSec \in Nat \ {0}
ASSUME 2^LowBits <= ShortMul

VARIABLES
  cpc,     \* caller: "idle", "lock" (calling GenerateID), "spin"
  sec,     \* time.Now().Unix() read by GenerateShortInt64ID
  calls,   \* calls each caller has made
  holder,  \* per generator: the caller spinning with the mutex held
  dead,    \* per generator: its process panicked
  ids      \* history: [gen, id, short] for every ID returned, in order

callerVars == <<cpc, sec, calls, holder, dead, ids>>
vars == <<genVars, callerVars>>

(* GenerateID returns the ID built from now and the stored sequence to   *)
(* caller c, which derives its short ID from the seconds it read.          *)
Return(c, now, seq) ==
  LET id == IdOf(GenOf[c], now, seq) IN
  /\ ids' = Append(ids, [gen   |-> GenOf[c],
                         id    |-> id,
                         short |-> sec[c] * ShortMul + (id % 2^LowBits)])
  /\ cpc' = [cpc EXCEPT ![c] = "idle"]

Init ==
  /\ GenInit
  /\ cpc = [c \in Callers |-> "idle"]
  /\ sec = [c \in Callers |-> 0]
  /\ calls = [c \in Callers |-> 0]
  /\ holder = [g \in Gens |-> NoCaller]
  /\ dead = [g \in Gens |-> FALSE]
  /\ ids = <<>>

(* A caller enters GenerateShortInt64ID, which reads the time in seconds *)
(* before it calls GenerateID.                                             *)
Call(c) ==
  /\ cpc[c] = "idle" /\ calls[c] < MaxIds /\ ~dead[GenOf[c]]
  /\ sec' = [sec EXCEPT ![c] = clock \div MsPerSec]
  /\ calls' = [calls EXCEPT ![c] = @ + 1]
  /\ cpc' = [cpc EXCEPT ![c] = "lock"]
  /\ UNCHANGED <<genVars, holder, dead, ids>>

(* Faulty variant of Generate: no "clock moved backwards" check; a clock *)
(* behind lastTime is treated as a new millisecond.                       *)
GenerateNoClockCheck(c) ==
  LET g == GenOf[c] IN
  /\ cpc[c] = "lock" /\ holder[g] = NoCaller /\ ~dead[g]
  /\ \/ /\ Overflows(g, clock)
        /\ sequence' = [sequence EXCEPT ![g] = 0]
        /\ holder' = [holder EXCEPT ![g] = c]
        /\ cpc' = [cpc EXCEPT ![c] = "spin"]
        /\ UNCHANGED <<clock, backs, lastTime, dead, ids>>
     \/ /\ ~Overflows(g, clock)
        /\ Issue(g, clock)
        /\ Return(c, clock, NextSeq(g, clock))
        /\ UNCHANGED <<clock, backs, holder, dead>>
  /\ UNCHANGED <<sec, calls>>

(* GenerateID's locked section at now = time.Now().UnixMilli(): panic if *)
(* the clock is behind lastTime; on a wrap of the sequence store 0 and    *)
(* spin; otherwise store now and the sequence and return the ID.          *)
Generate(c) ==
  LET g == GenOf[c] IN
  /\ cpc[c] = "lock" /\ holder[g] = NoCaller /\ ~dead[g]
  /\ \/ /\ clock < lastTime[g]
        /\ dead' = [dead EXCEPT ![g] = TRUE]
        /\ UNCHANGED <<genVars, cpc, holder, ids>>
     \/ /\ clock >= lastTime[g] /\ Overflows(g, clock)
        /\ sequence' = [sequence EXCEPT ![g] = 0]
        /\ holder' = [holder EXCEPT ![g] = c]
        /\ cpc' = [cpc EXCEPT ![c] = "spin"]
        /\ UNCHANGED <<clock, backs, lastTime, dead, ids>>
     \/ /\ clock >= lastTime[g] /\ ~Overflows(g, clock)
        /\ Issue(g, clock)
        /\ Return(c, clock, NextSeq(g, clock))
        /\ UNCHANGED <<clock, backs, holder, dead>>
  /\ UNCHANGED <<sec, calls>>

(* The spin ends once the clock has passed lastTime; the wrapped sequence *)
(* 0 is used with the new time, and the mutex is released.               *)
Spin(c) ==
  LET g == GenOf[c] IN
  /\ cpc[c] = "spin" /\ clock > lastTime[g]
  /\ lastTime' = [lastTime EXCEPT ![g] = clock]
  /\ Return(c, clock, sequence[g])
  /\ holder' = [holder EXCEPT ![g] = NoCaller]
  /\ UNCHANGED <<clock, backs, sequence, sec, calls, dead>>

(* Every caller is done or dead, or time has reached its bound. *)
Finished ==
  \/ clock = MaxTime
  \/ \A c \in Callers : (cpc[c] = "idle" /\ calls[c] = MaxIds) \/ dead[GenOf[c]]

Next ==
  \/ \E c \in Callers : Call(c) \/ Generate(c) \/ Spin(c)
  \/ (Tick \/ StepBack) /\ UNCHANGED callerVars
  \/ Finished /\ UNCHANGED vars

Spec == Init /\ [][Next]_vars

-----------------------------------------------------------------------------
TypeOK ==
  /\ clock \in customEpoch..MaxTime
  /\ lastTime \in [Gens -> {0} \cup customEpoch..MaxTime]
  /\ sequence \in [Gens -> 0..maxSequence]
  /\ cpc \in [Callers -> {"idle", "lock", "spin"}]
  /\ holder \in [Gens -> Callers \cup {NoCaller}]
  /\ ids \in Seq([gen : Gens, id : 0..(2^WordBits - 1), short : Int])

(* IDs are unique, as the snowflake layout means them to be: no two calls, *)
(* of the same or of different processes, ever return the same ID.  It    *)
(* needs distinct node IDs, and every process takes NewIDGenerator(1).    *)
IDsUnique ==
  \A i, j \in DOMAIN ids : i # j => ids[i].id # ids[j].id

(* IDs of one generator increase in the order they are returned (lastTime *)
(* never decreases: a clock behind it panics instead of issuing).         *)
IDsIncrease ==
  \A i, j \in DOMAIN ids :
    i < j /\ ids[i].gen = ids[j].gen => ids[i].id < ids[j].id

(* Short IDs are unique, as GenerateBuffInt64ID, GenerateRoomInt64ID and  *)
(* the other callers of GenerateShortInt64ID promise ("a unique ... ID"). *)
ShortIDsUnique ==
  \A i, j \in DOMAIN ids : i # j => ids[i].short # ids[j].short

(* The string forms of every ID returned parse back to it (GeneratePlayer-/ *)
(* Room-/Match-/SessionID and the Parse*ID functions), the int64 parse    *)
(* agrees with the int64 IDs GenerateInt64ID and friends hand out through  *)
(* Uint64ToInt64, and IsValidIDString accepts the decimal form: an ID      *)
(* written by one service as a string is read back by another as the     *)
(* same uint64 and the same int64.                                         *)
IDStringsRoundTrip ==
  \A i \in DOMAIN ids :
    LET id == ids[i].id IN
    /\ IsValidIDString(Uint64ToString(id), WordBits)
    /\ \A p \in {"P", "R", "M", "S"} :
         /\ ParsePrefixedID(p, PrefixedID(p, id), WordBits)
              = [err |-> "none", val |-> id]
         /\ ParsePrefixedIDToInt64(p, PrefixedID(p, id), WordBits)
              = [err |-> "none", val |-> Uint64ToInt64(id, WordBits)]
==============================================================================
