------------------------------ MODULE MC_SimScenario ------------------------------
EXTENDS SimScenario

(* A behaviours directory: LoginSequence with a title, RoomManagement    *)
(* keyed by its file name, a file that fails to parse and a directory.   *)
MCBehaviorFiles ==
  {[stem |-> "login", title |-> "LoginSequence", dir |-> FALSE, b3 |-> TRUE,
    read |-> TRUE, parsed |-> TRUE],
   [stem |-> "RoomManagement", title |-> "", dir |-> FALSE, b3 |-> TRUE,
    read |-> TRUE, parsed |-> TRUE],
   [stem |-> "SimpleGameplay", title |-> "", dir |-> FALSE, b3 |-> TRUE,
    read |-> TRUE, parsed |-> FALSE],
   [stem |-> "old", title |-> "", dir |-> TRUE, b3 |-> TRUE,
    read |-> FALSE, parsed |-> FALSE]}

(* The same directory without the LoginSequence file: every scenario that *)
(* gets a client takes the missing-tree exit in Connecting.               *)
MCNoLoginFiles == {f \in MCBehaviorFiles : f.title # "LoginSequence"}
==============================================================================
