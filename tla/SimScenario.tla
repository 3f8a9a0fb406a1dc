------------------------------ MODULE SimScenario ------------------------------
(***************************************************************************)
(* The simulator CLI of cmd/simulator/behavior_manager.go: main loads the *)
(* behaviour trees, starts one runSingleClientScenario per client (in     *)
(* goroutines, under a 120 s context each) and reports the global atomics *)
(* successfulScenarios and failedScenarios after wg.Wait.  A scenario     *)
(* drives its client's player FSM with the trees.                          *)
(*                                                                         *)
(* The trees are core.NewBeTree() with no nodes (NewBehaviorManager never  *)
(* builds the parsed configuration, and RegisterCustomNodes' map is        *)
(* discarded).  behaviour3go's BehaviorTree.Tick calls root._execute on    *)
(* the tree's root, which is nil for such a tree: the Tick panics, nothing *)
(* recovers it, and the whole process dies.                                *)
(* The scenario's SimulatedClient is only created and closed; its methods *)
(* are SimClient's.                                                        *)
(***************************************************************************)
EXTENDS Naturals

CONSTANTS
  Scenarios,      \* the clients main starts (numClients of them)
  BehaviorFiles   \* the directory entries NewBehaviorManager reads

VARIABLES
  mpc,          \* main: "start", "run", "done", "fatal" or "panicked"
  spc,          \* scenario: "none", "new", "loop", "post", "cas", "done"
  fsm,          \* client.playerFSM.Current()
  timedOut,     \* scenarioCtx's deadline has passed
  casOld,       \* the first argument the final CompareAndSwap loaded
  counted,      \* history: counter increments made by each scenario
  beat,         \* parity of the loop's passes (each ends in a 100 ms sleep)
  successfulScenarios, failedScenarios

scenVars == <<mpc, spc, fsm, timedOut, casOld, counted, beat,
              successfulScenarios, failedScenarios>>

-----------------------------------------------------------------------------
(* NewBehaviorManager: every regular *.b3.json file that reads and parses *)
(* gives a tree keyed by its title, or by its name without the suffix     *)
(* when the title is empty; a later duplicate overwrites an earlier one.   *)
TreeNames == {IF f.title = "" THEN f.stem ELSE f.title :
                f \in {f \in BehaviorFiles : ~f.dir /\ f.b3 /\ f.read /\ f.parsed}}

(* GetTree(name) is not nil. *)
GetTree(name) == name \in TreeNames

(* PlayerFSMEvents: the source states and destination of each event.     *)
PlayerFSMEvents ==
  [connect      |-> [src |-> {"Idle", "Disconnected"}, dst |-> "Connecting"],
   login        |-> [src |-> {"Connecting"}, dst |-> "LoggingIn"],
   loginsuccess |-> [src |-> {"LoggingIn"}, dst |-> "LoggedIn"],
   loginfailed  |-> [src |-> {"LoggingIn"}, dst |-> "Disconnected"],
   createroom   |-> [src |-> {"LoggedIn"}, dst |-> "CreatingRoom"],
   joinroom     |-> [src |-> {"LoggedIn"}, dst |-> "JoiningRoom"],
   roomcreated  |-> [src |-> {"CreatingRoom"}, dst |-> "InRoom"],
   createfailed |-> [src |-> {"CreatingRoom"}, dst |-> "LoggedIn"],
   roomjoined   |-> [src |-> {"JoiningRoom"}, dst |-> "InRoom"],
   joinfailed   |-> [src |-> {"JoiningRoom"}, dst |-> "LoggedIn"],
   gamestart    |-> [src |-> {"InRoom"}, dst |-> "InGame"],
   leaveroom    |-> [src |-> {"InRoom", "InGame"}, dst |-> "LeavingRoom"],
   roomleft     |-> [src |-> {"LeavingRoom"}, dst |-> "LoggedIn"],
   disconnect   |-> [src |-> {"Idle", "Connecting", "LoggingIn", "LoggedIn",
                              "CreatingRoom", "JoiningRoom", "InRoom", "InGame",
                              "LeavingRoom"}, dst |-> "Disconnected"]]

PlayerFSMStates == {"Idle", "Connecting", "LoggingIn", "LoggedIn", "CreatingRoom",
                    "JoiningRoom", "InRoom", "InGame", "LeavingRoom", "Disconnected"}

(* fsm.Can(e), and the state after fsm.Event(e): an event the current     *)
(* state does not allow returns an error and changes nothing.             *)
Can(st, e) == st \in PlayerFSMEvents[e].src
Fire(st, e) == IF Can(st, e) THEN PlayerFSMEvents[e].dst ELSE st

(* The behaviour tree ticked in each FSM state (the switch's treeName).  *)
TreeFor(st) ==
  CASE st \in {"Connecting", "LoggingIn"}              -> "LoginSequence"
    [] st \in {"LoggedIn", "CreatingRoom", "JoiningRoom"} -> "RoomManagement"
    [] st = "InGame"                                      -> "SimpleGameplay"
    [] OTHER                                              -> ""

(* The events the loop fires itself in the states no tree covers. *)
LoopEvent == [Idle |-> "connect", InRoom |-> "gamestart", LeavingRoom |-> "roomleft"]

ScenInit ==
  /\ mpc = "start"
  /\ spc = [s \in Scenarios |-> "none"]
  /\ fsm = [s \in Scenarios |-> "Idle"]
  /\ timedOut = [s \in Scenarios |-> FALSE]
  /\ casOld = [s \in Scenarios |-> 0]
  /\ counted = [s \in Scenarios |-> 0]
  /\ beat = [s \in Scenarios |-> FALSE]
  /\ successfulScenarios = 0
  /\ failedScenarios = 0

-----------------------------------------------------------------------------
(***************************************************************************)
(* main and runSingleClientScenario.                                       *)
(***************************************************************************)
(* main: NewBehaviorManager, log.Fatalf when no tree configuration was    *)
(* loaded, then one scenario per client (in goroutines, awaited with      *)
(* wg.Wait, when numClients > 1), each under a 120 s context.             *)
MainStart ==
  /\ mpc = "start"
  /\ IF TreeNames = {}
     THEN mpc' = "fatal" /\ UNCHANGED spc
     ELSE mpc' = "run" /\ spc' = [s \in Scenarios |-> "new"]
  /\ UNCHANGED <<fsm, timedOut, casOld, counted,
                 successfulScenarios, failedScenarios, beat>>

(* After wg.Wait, main prints the counters. *)
MainReport ==
  /\ mpc = "run" /\ \A s \in Scenarios : spc[s] = "done"
  /\ mpc' = "done"
  /\ UNCHANGED <<spc, fsm, timedOut, casOld, counted,
                 successfulScenarios, failedScenarios, beat>>

(* atomic.AddInt64 on one counter, and the history of which scenario did. *)
Count(s, failed) ==
  /\ counted' = [counted EXCEPT ![s] = @ + 1]
  /\ IF failed
     THEN failedScenarios' = failedScenarios + 1 /\ UNCHANGED successfulScenarios
     ELSE successfulScenarios' = successfulScenarios + 1 /\ UNCHANGED failedScenarios
NoCount == UNCHANGED <<counted, successfulScenarios, failedScenarios>>

SetFSM(s, st) == fsm' = [fsm EXCEPT ![s] = st]
SetPC(s, pc) == spc' = [spc EXCEPT ![s] = pc]

(* NewSimulatedClient fails (Consul client, GameService discovery or     *)
(* dial), counted as failed; or the client starts in Idle, which can       *)
(* "connect", and the event moves it to Connecting.                        *)
NewClient(s) ==
  /\ spc[s] = "new"
  /\ \/ Count(s, TRUE) /\ SetPC(s, "done") /\ UNCHANGED fsm
     \/ NoCount /\ SetPC(s, "loop") /\ SetFSM(s, Fire("Idle", "connect"))
  /\ UNCHANGED <<mpc, timedOut, casOld, beat>>

(* The tree for state st is ticked.  A missing tree fails the scenario,   *)
(* disconnects and leaves the loop.  A loaded tree's Tick panics (nil     *)
(* root): the process exits with every goroutine, main's included.        *)
TickTree(s, st) ==
  LET name == TreeFor(st) IN
  IF ~GetTree(name)
  THEN Count(s, TRUE) /\ SetFSM(s, Fire(st, "disconnect")) /\ SetPC(s, "post")
       /\ UNCHANGED mpc
  ELSE mpc' = "panicked" /\ NoCount /\ UNCHANGED <<spc, fsm>>

(* A pass of the loop is over. *)
Pass(s) == beat' = [beat EXCEPT ![s] = ~@]

(* One pass of the for loop, the 100 ms sleep included: a done context    *)
(* fails the scenario (scenarioSucceeded is never set), disconnects and    *)
(* returns; Disconnected leaves the loop; Idle, InRoom and LeavingRoom     *)
(* fire their event (a refused connect or roomleft fails and disconnects); *)
(* the other states tick their tree.                                       *)
Iterate(s) ==
  LET st == fsm[s] IN
  /\ spc[s] = "loop"
  /\ IF timedOut[s]
     THEN Count(s, TRUE) /\ SetFSM(s, Fire(st, "disconnect")) /\ SetPC(s, "done")
          /\ UNCHANGED mpc
     ELSE CASE st = "Disconnected" ->
                 NoCount /\ UNCHANGED <<mpc, fsm>> /\ SetPC(s, "post")
            [] st \in DOMAIN LoopEvent ->
                 /\ UNCHANGED <<mpc, spc>>
                 /\ IF Can(st, LoopEvent[st]) \/ st = "InRoom"
                    THEN NoCount /\ SetFSM(s, Fire(st, LoopEvent[st]))
                    ELSE Count(s, TRUE) /\ SetFSM(s, Fire(st, "disconnect"))
            [] OTHER -> TickTree(s, st)
  /\ Pass(s)
  /\ UNCHANGED <<timedOut, casOld>>

(* After the loop: when scenarioCtx.Err() is nil, the arguments of        *)
(* CompareAndSwapInt64(&failedScenarios, failedScenarios, failedScenarios) *)
(* are loaded; the first is old.                                           *)
Post(s) ==
  /\ spc[s] = "post"
  /\ IF timedOut[s]
     THEN SetPC(s, "done") /\ UNCHANGED casOld
     ELSE SetPC(s, "cas") /\ casOld' = [casOld EXCEPT ![s] = failedScenarios]
  /\ NoCount
  /\ UNCHANGED <<mpc, fsm, timedOut, beat>>

(* The swap succeeds when no other scenario added a failure since the    *)
(* load (it then stores the value the second load read, which is old),   *)
(* and nothing is counted.  When it fails, the scenario counts as         *)
(* successful if Disconnected, failed otherwise.  Close is deferred.      *)
CAS(s) ==
  /\ spc[s] = "cas"
  /\ SetPC(s, "done")
  /\ IF failedScenarios = casOld[s] THEN NoCount
     ELSE Count(s, fsm[s] # "Disconnected")
  /\ UNCHANGED <<mpc, fsm, timedOut, casOld, beat>>

(* scenarioCtx's 120 s deadline passes while the scenario runs. *)
Deadline(s) ==
  /\ spc[s] \in {"new", "loop", "post", "cas"} /\ ~timedOut[s]
  /\ timedOut' = [timedOut EXCEPT ![s] = TRUE]
  /\ UNCHANGED <<mpc, spc, fsm, casOld, counted,
                 successfulScenarios, failedScenarios, beat>>

(* main has printed its report, or the process has exited. *)
Terminated == mpc \in {"done", "fatal", "panicked"}

(* A scenario goroutine runs while the process lives. *)
ScenarioStep(s) ==
  mpc = "run" /\ (NewClient(s) \/ Iterate(s) \/ Post(s) \/ CAS(s) \/ Deadline(s))

ScenNext ==
  \/ MainStart \/ MainReport
  \/ \E s \in Scenarios : ScenarioStep(s)
  \/ Terminated /\ UNCHANGED scenVars

(* main and every scenario goroutine keep being scheduled (the loop only  *)
(* sleeps, it never blocks), and a context's deadline always passes.       *)
(* A pass that changes nothing but the beat (gamestart refused in InRoom)  *)
(* still counts as the loop's step.                                        *)
ScenSpec ==
  /\ ScenInit /\ [][ScenNext]_scenVars
  /\ WF_scenVars(MainStart) /\ WF_scenVars(MainReport)
  /\ \A s \in Scenarios : WF_scenVars(ScenarioStep(s))

-----------------------------------------------------------------------------
ScenTypeOK ==
  /\ mpc \in {"start", "run", "done", "fatal", "panicked"}
  /\ spc \in [Scenarios -> {"none", "new", "loop", "post", "cas", "done"}]
  /\ fsm \in [Scenarios -> PlayerFSMStates]
  /\ timedOut \in [Scenarios -> BOOLEAN]
  /\ counted \in [Scenarios -> Nat]
  /\ {successfulScenarios, failedScenarios} \subseteq Nat

(* Each scenario is counted once: a scenario that returned from          *)
(* runSingleClientScenario added exactly one to successfulScenarios or    *)
(* failedScenarios, so that main's report adds up to numClients.          *)
ScenarioCountedOnce ==
  \A s \in Scenarios : spc[s] = "done" => counted[s] = 1

(* main prints its report: after wg.Wait it logs the two counters, which  *)
(* is what the simulator is run for.                                      *)
ReportPrinted == <>(mpc = "done")
==============================================================================
