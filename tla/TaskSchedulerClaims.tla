------------------------ MODULE TaskSchedulerClaims ------------------------
(***************************************************************************)
(* What the texts beside the scheduler say of it and the model refutes.    *)
(***************************************************************************)
EXTENDS TaskScheduler

(* The server has created the run of a due card and has not counted it yet.  *)
(* Narrow on purpose: a server that only sets or puts off a slot fires       *)
(* nothing, and one about to create a run has not fired yet.                 *)
HasFired(s) == pc[s] = "record"

(* "only one of them holds the schedule lock and fires"                      *)
(* (app/agents/task_scheduler.py, module text): two servers are never in the *)
(* middle of a fire at the same time.                                        *)
OneServerFires == \A s, t \in Server : HasFired(s) /\ HasFired(t) => s = t
=============================================================================
