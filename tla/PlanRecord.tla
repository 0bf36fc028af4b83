----------------------------- MODULE PlanRecord -----------------------------
(***************************************************************************)
(* What the group file and the source conversation may show of one plan:   *)
(* the abstract specification that DelegateManager implements.             *)
(***************************************************************************)

VARIABLES
    record,      \* taskPlan.status in the group file
    closing,     \* the results of a settled plan are being summed up
    announced    \* the completion message reached the source conversation

vars == <<record, closing, announced>>

Open == {"running", "completed_partial"}

Init ==
    /\ record = "none"
    /\ closing = FALSE
    /\ announced = FALSE

(* A launch cut by a crash leaves a plan that is partial at once. *)
Launch ==
    /\ record = "none"
    /\ record' \in Open
    /\ UNCHANGED <<closing, announced>>

(* The last delegate delivers. *)
Conclude ==
    /\ record \in Open
    /\ record' \in {"completed", "completed_partial"}
    /\ closing' = TRUE
    /\ UNCHANGED announced

(* A retry of a partial plan. *)
Reopen ==
    /\ record = "completed_partial"
    /\ record' = "running"
    /\ UNCHANGED <<closing, announced>>

Cancel ==
    /\ record # "none"
    /\ record' = "cancelled"
    /\ UNCHANGED <<closing, announced>>

(* One of the summaries under way ends, with the message posted or not. *)
Announce ==
    /\ closing
    /\ closing' \in BOOLEAN
    /\ announced' \in {announced, TRUE}
    /\ UNCHANGED record

(* The server restarts: nothing runs any more. *)
Interrupt ==
    /\ record # "none"
    /\ record' = IF record = "running" THEN "completed_partial" ELSE record
    /\ closing' = FALSE
    /\ UNCHANGED announced

Next == Launch \/ Conclude \/ Reopen \/ Cancel \/ Announce \/ Interrupt

Spec == Init /\ [][Next]_vars
=============================================================================
