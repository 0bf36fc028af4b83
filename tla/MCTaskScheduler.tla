-------------------------- MODULE MCTaskScheduler --------------------------
(* The servers are interchangeable: each behaviour is one of any renaming. *)
EXTENDS TaskScheduler, TLC

ServerSymmetry == Permutations(Server)
=============================================================================
