---------------------------- MODULE MC_IDCallers ----------------------------
(* Two processes; two goroutines share the first.  Every process takes    *)
(* the default generator, NewIDGenerator(1) (id_generator.go:46), so both  *)
(* have node ID 1.                                                         *)
EXTENDS IDCallers, TLC

MCCallers == {"c1", "c2", "c3"}
MCGenOf == [c \in MCCallers |-> IF c = "c3" THEN 2 ELSE 1]
MCNodeID == [g \in {1, 2} |-> 1]
=============================================================================
