------------------------------ MODULE MC_Actor ------------------------------
(* Model-checking instance of Actor: two callers making two Tell/Ask      *)
(* calls each against a mailbox of capacity one, so that Tell finds it    *)
(* full, an Ask blocks on the send, and a Stop interleaves with both.     *)
EXTENDS Actor, TLC

(* Callers are interchangeable. *)
CallerSymmetry == Permutations(Callers)
=============================================================================
