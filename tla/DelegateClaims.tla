--------------------------- MODULE DelegateClaims ---------------------------
(* What docstrings and tests say of the DelegateManager and the code does    *)
(* not do.  Each definition is checked by a run that ends in a               *)
(* counterexample; PROJECT.json quotes the sentence it states.               *)
EXTENDS MCDelegateManager

Idle == \A d \in Delegate : task[d] = "none"
Some(st) == \E d \in Delegate : status[d] = st

(* "A plan with both crystals and failures should end as completed_partial":
   when every delegate is terminal and nothing is left to run, the plan has a
   final status.  Only on_crystal_ready looks, on_delegate_failed never does. *)
FinishedPlanIsDeclared ==
    Active /\ Idle /\ Complete(status) /\ Some("crystal") /\ Some("failed")
        => planStatus \in FinishedPlan
=============================================================================
