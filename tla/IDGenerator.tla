----------------------------- MODULE IDGenerator -----------------------------
(***************************************************************************)
(* The snowflake IDGenerator of help/id_generator.go: per generator a      *)
(* mutex, lastTime and sequence; IDs laid out as timestamp | nodeID |      *)
(* sequence.  Bit widths are constants so that TLC can reach the wrap of   *)
(* the sequence; the Go values are 41, 10 and 12 and a 64-bit word.        *)
(*                                                                         *)
(* This module holds the state every process has (one generator per       *)
(* process, made by GetDefaultIDGenerator) and the wall clock that         *)
(* time.Now().UnixMilli() reads.  Modules that call GenerateID extend it.  *)
(***************************************************************************)
EXTENDS Integers

CONSTANTS
  Gens,           \* generator instances (one per process)
  NodeID,         \* nodeID of each generator
  sequenceBits,   \* 12 in the code
  nodeIDBits,     \* 10 in the code
  timestampBits,  \* 41 in the code
  customEpoch,    \* custom epoch in ms
  MaxTime,        \* bound: last wall-clock millisecond explored
  MaxBack         \* bound: backward steps of the wall clock (NTP)

maxNodeID      == 2^nodeIDBits - 1
maxSequence    == 2^sequenceBits - 1
nodeIDShift    == sequenceBits
timestampShift == sequenceBits + nodeIDBits
(* The id is an int64 converted to uint64: arithmetic is modulo the word. *)
WordBits       == timestampBits + nodeIDBits + sequenceBits + 1

(* NewIDGenerator panics on a node ID outside 0..maxNodeID. *)
ASSUME NodeID \in [Gens -> 0..maxNodeID]
ASSUME customEpoch \in Nat /\ MaxTime \in Nat /\ MaxBack \in Nat

VARIABLES
  clock,      \* wall clock, ms since the Unix epoch
  backs,      \* backward clock steps so far
  lastTime,   \* IDGenerator.lastTime per generator
  sequence    \* IDGenerator.sequence per generator

genVars == <<clock, backs, lastTime, sequence>>

(* The ID GenerateID builds: the three fields shifted into place and the  *)
(* int64 result reinterpreted as uint64.                                   *)
IdOf(g, now, seq) ==
  ((now - customEpoch) * 2^timestampShift + NodeID[g] * 2^nodeIDShift + seq)
    % 2^WordBits

(* Faulty variant of NextSeq: the increment is not masked with         *)
(* maxSequence.                                                           *)
NextSeqUnmasked(g, now) ==
  IF now = lastTime[g] THEN sequence[g] + 1 ELSE 0

(* The sequence the locked section stores at time now: incremented and    *)
(* masked within the same millisecond, reset otherwise.                    *)
NextSeq(g, now) ==
  IF now = lastTime[g] THEN (sequence[g] + 1) % (maxSequence + 1) ELSE 0

(* The sequence wrapped within one millisecond: GenerateID spins, holding *)
(* the mutex, until the clock passes lastTime.                             *)
Overflows(g, now) == now = lastTime[g] /\ NextSeq(g, now) = 0

(* The locked section ends by storing now and the sequence; the ID it     *)
(* returns is IdOf(g, now, NextSeq(g, now)).                               *)
Issue(g, now) ==
  /\ lastTime' = [lastTime EXCEPT ![g] = now]
  /\ sequence' = [sequence EXCEPT ![g] = NextSeq(g, now)]

(* NewIDGenerator: sequence 0, lastTime 0; the clock is past the epoch.   *)
GenInit ==
  /\ clock = customEpoch
  /\ backs = 0
  /\ lastTime = [g \in Gens |-> 0]
  /\ sequence = [g \in Gens |-> 0]

(* The wall clock advances one millisecond, or is stepped back by one.   *)
Tick ==
  /\ clock < MaxTime
  /\ clock' = clock + 1
  /\ UNCHANGED <<backs, lastTime, sequence>>

StepBack ==
  /\ backs < MaxBack /\ clock > customEpoch
  /\ clock' = clock - 1
  /\ backs' = backs + 1
  /\ UNCHANGED <<lastTime, sequence>>
==============================================================================
