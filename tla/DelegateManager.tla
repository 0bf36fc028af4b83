-------------------------- MODULE DelegateManager --------------------------
(***************************************************************************)
(* One TaskPlan of app/agents/delegate_manager.py: its delegates, their    *)
(* asyncio tasks, the HTTP recovery calls that race with them, the sweeper *)
(* that evicts plans and the server restarts that rebuild the plan from    *)
(* the chat and group files.                                               *)
(*                                                                         *)
(* An action is what the event loop runs without suspending.  The awaits   *)
(* where tasks interleave are the semaphore, the delegate's stream and the *)
(* orchestrator's final synthesis; the pushes to watchers, which suspend   *)
(* only in the send to a client, are taken as immediate.                   *)
(* Delegates are numbered by their place in plan.delegate_specs, which is  *)
(* the order _resolve_and_start scans them in.                             *)
(***************************************************************************)
EXTENDS Integers, FiniteSets

CONSTANTS
    MaxDelegates,     \* bound on Len(plan.delegate_specs), requested ones included
    MaxConcurrency,   \* max_concurrency, the slots of self._semaphore
    PlanGraphs,       \* the plans a launch may submit: [size, deps]
    MaxRepairs,       \* bound on the retry and promote calls of a behaviour
    MaxRestarts,      \* bound on the server restarts of a behaviour
    Faults            \* which of FaultKinds the environment may inject

Delegate == 1 .. MaxDelegates

(* preamble:  persisting the delegate's prompt raises, outside any try      *)
(* disk:      writing the crystal to the chat file raises                   *)
(* synthesis: the model call of the synthesis raises an unlisted exception  *)
(* midcrash:  the process dies between the writes of launch_plan or between *)
(*            those of on_crystal_ready                                     *)
FaultKinds == {"preamble", "disk", "synthesis", "midcrash"}

ASSUME BoundsAssumption ==
    /\ MaxDelegates \in Nat \ {0}
    /\ MaxConcurrency \in Nat \ {0}
    /\ MaxRepairs \in Nat
    /\ MaxRestarts \in Nat
    /\ Faults \subseteq FaultKinds

ASSUME GraphsAssumption ==
    PlanGraphs \subseteq [size : Delegate, deps : [Delegate -> SUBSET Delegate]]

VARIABLES
    plan,         \* whether the plan is in the manager's maps: none, live, gone
    planStatus,   \* plan.status of a live plan
    size,         \* Len(plan.delegate_specs)
    deps,         \* dependencies of each spec
    dynamic,      \* specs appended by swarm_request_delegate
    status,       \* _statuses[plan]; "absent" is a missing key
    crystals,     \* keys of _crystals[plan]
    running,      \* _running[plan]
    registered,   \* delegates whose live task is the one in _tasks[plan]
    rescued,      \* delegates with a rescue mark in _checkpoints
    mapped,       \* whether _group_to_plan still leads to the plan
    task,         \* what the delegate's coroutine is suspended on
    cancelling,   \* tasks with a CancelledError still to be delivered
    spawning,     \* background _spawn_and_start_dynamic_delegate tasks
    diskPlan,     \* taskPlan.status in the group file
    diskStatus,   \* delegateMeta.status in the chat files; "none" is no chat
    announced,    \* the completion message reached the source conversation
    repairs,      \* retry and promote calls so far
    restarts      \* server restarts so far

memory == <<plan, planStatus, status, crystals, running, registered, rescued>>
specs  == <<size, deps, dynamic>>
disk   == <<diskPlan, diskStatus>>
bounds == <<repairs, restarts>>
vars   == <<memory, specs, mapped, task, cancelling, spawning, disk, announced, bounds>>

PlanStatus     == {"none", "running", "completed", "completed_partial", "cancelled"}
DelegateStatus == {"absent", "proposed", "ready", "running", "stalled", "crystal",
                   "crystal_degraded", "failed", "interrupted"}
ChatStatus     == {"none", "proposed", "running", "crystal", "failed", "interrupted"}
TaskState      == {"none", "queued", "streaming", "finalizing", "promoting"}

TypeOK ==
    /\ plan \in {"none", "live", "gone"}
    /\ planStatus \in PlanStatus
    /\ size \in 0 .. MaxDelegates
    /\ deps \in [Delegate -> SUBSET Delegate]
    /\ dynamic \subseteq Delegate
    /\ status \in [Delegate -> DelegateStatus]
    /\ crystals \subseteq Delegate
    /\ running \subseteq Delegate
    /\ registered \subseteq Delegate
    /\ rescued \subseteq Delegate
    /\ mapped \in BOOLEAN
    /\ task \in [Delegate -> TaskState]
    /\ cancelling \subseteq Delegate
    /\ spawning \subseteq Delegate
    /\ diskPlan \in PlanStatus
    /\ diskStatus \in [Delegate -> ChatStatus]
    /\ announced \in BOOLEAN
    /\ repairs \in 0 .. MaxRepairs
    /\ restarts \in 0 .. MaxRestarts

-----------------------------------------------------------------------------
(* Status sets the code tests with "in". *)

SatisfiedOrFailed == {"crystal", "crystal_degraded", "failed"}   \* mutant

Satisfied == {"crystal", "crystal_degraded"}
Terminal  == {"crystal", "failed"}


Retryable == {"failed", "interrupted"}
FinishedPlan == {"completed", "completed_partial", "cancelled"}

ResumableCompleted == {"running", "completed_partial", "completed"}   \* mutant

(* The plans a restart loads; completed and cancelled ones stay on disk.    *)
Resumable == {"running", "completed_partial"}

(* The holders of a slot of the semaphore. *)
Streaming == {d \in Delegate : task[d] = "streaming"}

ActiveAnyStatus == plan = "live"   \* mutant

(* The plan is known and cancel_plan has not popped its registry. *)
Active == plan = "live" /\ planStatus # "cancelled"

CompleteInterrupted(s) ==   \* mutant
    /\ \E d \in Delegate : s[d] # "absent"
    /\ \A d \in Delegate : s[d] \in Terminal \union {"absent", "interrupted"}

(* _is_plan_complete for a plan without sub-plans: some status, all terminal. *)
Complete(s) ==
    /\ \E d \in Delegate : s[d] # "absent"
    /\ \A d \in Delegate : s[d] \in Terminal \union {"absent"}

PatchedUnlessFailed(ds, d, st) == IF st = "failed" THEN ds ELSE [ds EXCEPT ![d] = st]   \* mutant

(* The chat files after writing st for d; a delegate without a chat is skipped. *)
Patched(ds, d, st) == [ds EXCEPT ![d] = IF @ = "none" THEN @ ELSE st]

-----------------------------------------------------------------------------
(* _resolve_and_start: one pass over the specs, in order. *)

(* Proposed delegates whose dependencies all have a crystal. *)
Startable(s) ==
    {d \in Delegate : s[d] = "proposed" /\ \A e \in deps[d] : s[e] \in Satisfied}

ToStartFirst(s, rn) ==   \* mutant
    {d \in Startable(s) \ rn : \A e \in Startable(s) \ rn : d <= e}

(* _start_delegate returns early for a delegate still in the registry. *)
ToStart(s, rn) == Startable(s) \ rn

IsCascadeNever(s, F) == F = {}   \* mutant

(* F is the set of delegates the pass fails.  The pass is in order, so a    *)
(* delegate sees the failures of the specs before it and not of those after.*)
IsCascade(s, F) ==
    LET failedSeen(d, e) == s[e] = "failed" \/ (e < d /\ e \in F)
    IN F = {d \in Delegate :
              /\ s[d] = "proposed"
              /\ \A e \in deps[d] : s[e] \in Satisfied \/ failedSeen(d, e)
              /\ \E e \in deps[d] : failedSeen(d, e)}

(* The pass run from statuses s, with rn, reg, tk and ds the registry, the  *)
(* registered tasks, the coroutines and the chats as the caller left them.  *)
ResolveAndStart(s, rn, reg, tk, ds) ==
    \E F \in SUBSET Delegate :
        LET start == ToStart(s, rn)
            settle(old, run, fail, d) ==
                IF d \in start THEN run ELSE IF d \in F THEN fail ELSE old
        IN /\ IsCascade(s, F)
           /\ status' = [d \in Delegate |->
                 IF d \in Startable(s) /\ d \in rn THEN "ready"
                 ELSE settle(s[d], "running", "failed", d)]
           /\ running' = rn \union start
           /\ registered' = reg \union start
           /\ task' = [d \in Delegate |-> settle(tk[d], "queued", tk[d], d)]
           /\ diskStatus' = [d \in Delegate |->
                 IF ds[d] = "none" THEN "none" ELSE settle(ds[d], "running", "failed", d)]

-----------------------------------------------------------------------------
(* Shared by the handlers. *)

(* cleanup_plan: the plan leaves every map; its tasks are not cancelled. *)
Cleanup ==
    /\ plan' = "gone"
    /\ planStatus' = "none"
    /\ status' = [d \in Delegate |-> "absent"]
    /\ crystals' = {}
    /\ running' = {}
    /\ registered' = {}
    /\ rescued' = {}

(* The coroutine of d returns and nothing else changes in memory. *)
Returns(d) ==
    /\ task' = [task EXCEPT ![d] = "none"]
    /\ registered' = registered \ {d}
    /\ UNCHANGED <<plan, planStatus, status, crystals, running, rescued>>

RecalledUntyped(ds, d, bad) ==   \* mutant
    IF ds[d] = "running" THEN "interrupted" ELSE ds[d]

RecalledIntact(ds, d, bad) ==   \* mutant
    CASE ds[d] = "none"    -> "absent"
      [] ds[d] = "running" -> "interrupted"
      [] OTHER             -> ds[d]

(* The status of d rebuilt from its chat. *)
Recalled(ds, d, bad) ==
    CASE ds[d] = "none"                   -> "absent"
      [] ds[d] = "running"                -> "interrupted"
      [] ds[d] = "crystal" /\ d \in bad   -> "crystal_degraded"
      [] OTHER                            -> ds[d]

(* rehydrate from plan status dp and chats ds, when the crystals in bad do  *)
(* not load.                                                                *)
Rehydrate(dp, ds, bad) ==
    /\ task' = [d \in Delegate |-> "none"]
    /\ cancelling' = {}
    /\ spawning' = {}
    /\ running' = {}
    /\ registered' = {}
    /\ rescued' = {}
    /\ IF dp \in Resumable
       THEN /\ plan' = "live"
            /\ mapped' = TRUE
            /\ planStatus' = "completed_partial"
            /\ diskPlan' = "completed_partial"
            /\ diskStatus' = [d \in Delegate |->
                  IF ds[d] = "running" THEN "interrupted" ELSE ds[d]]
            /\ status' = [d \in Delegate |-> Recalled(ds, d, bad)]
            /\ crystals' = {d \in Delegate : ds[d] = "crystal"} \ bad
       ELSE /\ plan' = "gone"
            /\ mapped' = FALSE
            /\ planStatus' = "none"
            /\ status' = [d \in Delegate |-> "absent"]
            /\ crystals' = {}
            /\ diskPlan' = dp
            /\ diskStatus' = ds

(* on_crystal_ready for d in an active plan.  The last crystal leaves the   *)
(* caller suspended in the synthesis (pc), any other one resolves.          *)
CrystalReady(d, pc) ==
    LET s  == [status EXCEPT ![d] = "crystal"]
        ds == Patched(diskStatus, d, "crystal")
        rn == running \ {d}
    IN /\ crystals' = crystals \union {d}
       /\ IF Complete(s)
          THEN /\ planStatus' = IF \E e \in Delegate : s[e] = "failed"
                                THEN "completed_partial" ELSE "completed"
               /\ diskPlan' = planStatus'
               /\ status' = s
               /\ running' = rn
               /\ task' = [task EXCEPT ![d] = pc]
               /\ diskStatus' = ds
               /\ UNCHANGED registered
          ELSE /\ ResolveAndStart(s, rn, registered \ {d},
                                  [task EXCEPT ![d] = "none"], ds)
               /\ diskPlan' = planStatus
               /\ UNCHANGED planStatus
       /\ UNCHANGED <<plan, rescued>>

(* on_delegate_failed for d in an active plan. *)
DelegateFailed(d) ==
    /\ ResolveAndStart([status EXCEPT ![d] = "failed"], running \ {d},
                       registered \ {d}, [task EXCEPT ![d] = "none"],
                       Patched(diskStatus, d, "failed"))
    /\ diskPlan' = planStatus
    /\ UNCHANGED <<plan, planStatus, rescued>>

(* on_delegate_failed for d once cancel_plan has popped _running: a KeyError*)
(* right after the status is set, before anything is written or resolved.   *)
FailedAfterCancel(d) ==
    /\ status' = [status EXCEPT ![d] = "failed"]
    /\ task' = [task EXCEPT ![d] = "none"]
    /\ registered' = registered \ {d}
    /\ UNCHANGED <<plan, planStatus, running, rescued, disk>>

RescueKeepsStatus(d) ==   \* mutant
    /\ d \notin rescued
    /\ rescued' = rescued \union {d}
    /\ task' = [task EXCEPT ![d] = "queued"]
    /\ registered' = registered \ {d}
    /\ diskPlan' = planStatus
    /\ UNCHANGED <<plan, planStatus, status, diskStatus>>

(* _attempt_rescue goes ahead: at most once per delegate.  The new task is  *)
(* not entered in _tasks.                                                   *)
Rescue(d) ==
    /\ d \notin rescued
    /\ rescued' = rescued \union {d}
    /\ status' = [status EXCEPT ![d] = "running"]
    /\ task' = [task EXCEPT ![d] = "queued"]
    /\ registered' = registered \ {d}
    /\ diskPlan' = planStatus
    /\ UNCHANGED <<plan, planStatus, diskStatus>>

-----------------------------------------------------------------------------
Init ==
    /\ plan = "none"
    /\ planStatus = "none"
    /\ size = 0
    /\ deps = [d \in Delegate |-> {}]
    /\ dynamic = {}
    /\ status = [d \in Delegate |-> "absent"]
    /\ crystals = {}
    /\ running = {}
    /\ registered = {}
    /\ rescued = {}
    /\ mapped = FALSE
    /\ task = [d \in Delegate |-> "none"]
    /\ cancelling = {}
    /\ spawning = {}
    /\ diskPlan = "none"
    /\ diskStatus = [d \in Delegate |-> "none"]
    /\ announced = FALSE
    /\ repairs = 0
    /\ restarts = 0

(* launch_plan *)
Launch(g) ==
    /\ plan = "none"
    /\ plan' = "live"
    /\ planStatus' = "running"
    /\ diskPlan' = "running"
    /\ size' = g.size
    /\ deps' = g.deps
    /\ mapped' = TRUE
    /\ LET in(a, b) == [d \in Delegate |-> IF d <= g.size THEN a ELSE b]
           start == {d \in Delegate : d <= g.size /\ g.deps[d] = {}}
       IN /\ status' = [d \in Delegate |->
                IF d \in start THEN "running" ELSE in("proposed", "absent")[d]]
          /\ diskStatus' = [d \in Delegate |->
                IF d \in start THEN "running" ELSE in("proposed", "none")[d]]
          /\ running' = start
          /\ registered' = start
          /\ task' = [d \in Delegate |-> IF d \in start THEN "queued" ELSE "none"]
    /\ UNCHANGED <<dynamic, crystals, rescued, cancelling, spawning, announced, bounds>>

(* A queued delegate gets a slot of the semaphore and starts its stream.   *)
(* The spawn task of a requested delegate was created before its own, so   *)
(* the event loop runs it first.                                           *)
AcquireSlot(d) ==
    /\ task[d] = "queued"
    /\ d \notin cancelling \union spawning
    /\ Cardinality(Streaming) < MaxConcurrency
    /\ task' = [task EXCEPT ![d] = "streaming"]
    /\ UNCHANGED <<memory, specs, mapped, cancelling, spawning, disk, announced, bounds>>

(* _run_delegate dies persisting the prompt, before its try: no handler runs. *)
PreambleRaises(d) ==
    /\ "preamble" \in Faults
    /\ task[d] = "queued"
    /\ d \notin cancelling
    /\ Returns(d)
    /\ UNCHANGED <<specs, mapped, cancelling, spawning, disk, announced, bounds>>

-----------------------------------------------------------------------------
(* Ends of a stream. *)

(* The stream ends and on_crystal_ready takes its crystal, or a stub. *)
StreamEnds(d) ==
    /\ task[d] = "streaming"
    /\ d \notin cancelling
    /\ Active
    /\ CrystalReady(d, "finalizing")
    /\ UNCHANGED <<specs, mapped, cancelling, spawning, announced, bounds>>

(* An "error" chunk. *)
StreamFails(d) ==
    /\ task[d] = "streaming"
    /\ d \notin cancelling
    /\ Active
    /\ DelegateFailed(d)
    /\ UNCHANGED <<specs, crystals, mapped, cancelling, spawning, announced, bounds>>

(* An exception out of the stream, after enough work for a rescue or not. *)
StreamRaises(d) ==
    /\ task[d] = "streaming"
    /\ d \notin cancelling
    /\ Active
    /\ \/ Rescue(d) /\ UNCHANGED running
       \/ DelegateFailed(d)
    /\ UNCHANGED <<specs, crystals, mapped, cancelling, spawning, announced, bounds>>

(* Writing the crystal raises inside on_crystal_ready, whose handler then   *)
(* rescues or fails a delegate that already has its crystal.                *)
CrystalWriteRaises(d) ==
    /\ "disk" \in Faults
    /\ task[d] = "streaming"
    /\ d \notin cancelling
    /\ Active
    /\ crystals' = crystals \union {d}
    /\ \/ Rescue(d) /\ running' = running \ {d}
       \/ DelegateFailed(d)
    /\ UNCHANGED <<specs, mapped, cancelling, spawning, announced, bounds>>

(* The stream of a rescue task that cancel_plan did not reach ends, however *)
(* it does: on_crystal_ready and on_delegate_failed both stop at a KeyError.*)
StreamEndsCancelled(d) ==
    /\ task[d] = "streaming"
    /\ d \notin cancelling
    /\ plan = "live" /\ planStatus = "cancelled"
    /\ crystals' \in {crystals, crystals \union {d}}
    /\ FailedAfterCancel(d)
    /\ UNCHANGED <<specs, mapped, cancelling, spawning, announced, bounds>>

(* The stream of a task whose plan was cleaned up ends: the crystal is for  *)
(* an unknown plan, a failure is a KeyError.                                *)
StreamEndsOrphaned(d) ==
    /\ task[d] = "streaming"
    /\ d \notin cancelling
    /\ plan = "gone"
    /\ Returns(d)
    /\ UNCHANGED <<specs, mapped, cancelling, spawning, disk, announced, bounds>>

-----------------------------------------------------------------------------
(* The rest of on_crystal_ready, after the synthesis. *)

(* The completion is posted and the plan cleaned up, if it is still there,  *)
(* with the push of stream_end in between taken as immediate.               *)
Finalize(d) ==
    /\ task[d] \in {"finalizing", "promoting"}
    /\ d \notin cancelling
    /\ IF plan = "live"
       THEN /\ announced' = TRUE
            /\ Cleanup
            /\ task' = [task EXCEPT ![d] = "none"]
       ELSE /\ Returns(d)
            /\ UNCHANGED announced
    /\ UNCHANGED <<specs, mapped, cancelling, spawning, disk, bounds>>

(* The synthesis raises what _orchestrator_final_synthesis does not catch.  *)
(* In the delegate's task that lands in the stream's exception handler; in  *)
(* the promote call it only ends the request.                               *)
SynthesisRaises(d) ==
    /\ "synthesis" \in Faults
    /\ d \notin cancelling
    /\ \/ /\ task[d] = "finalizing"
          /\ Active
          /\ \/ Rescue(d) /\ UNCHANGED running
             \/ DelegateFailed(d)
          /\ UNCHANGED crystals
       \/ /\ task[d] = "finalizing"
          /\ plan = "live" /\ planStatus = "cancelled"
          /\ FailedAfterCancel(d)
          /\ UNCHANGED crystals
       \/ /\ task[d] = "promoting" \/ (task[d] = "finalizing" /\ plan = "gone")
          /\ Returns(d)
          /\ UNCHANGED disk
    /\ UNCHANGED <<specs, mapped, cancelling, spawning, announced, bounds>>

-----------------------------------------------------------------------------
(* The HTTP routes.  They find the plan through _group_to_plan. *)

(* retry_delegate: d and the direct dependents that failed are proposed     *)
(* again, and a completed_partial plan runs again.                          *)
Retry(d) ==
    /\ mapped /\ plan = "live"
    /\ status[d] \in Retryable
    /\ repairs < MaxRepairs
    /\ repairs' = repairs + 1
    /\ planStatus' = IF planStatus = "completed_partial" THEN "running" ELSE planStatus
    /\ diskPlan' = planStatus'
    /\ LET reset == {d} \union {e \in 1 .. size : d \in deps[e] /\ status[e] = "failed"}
       IN ResolveAndStart([e \in Delegate |-> IF e \in reset THEN "proposed" ELSE status[e]],
                          running, registered, task,
                          [e \in Delegate |-> IF e \in reset /\ diskStatus[e] # "none"
                                              THEN "proposed" ELSE diskStatus[e]])
    /\ UNCHANGED <<plan, specs, crystals, rescued, mapped, cancelling, spawning,
                   announced, restarts>>

(* promote_to_stub_crystal: the normal crystal cascade with a stub. *)
Promote(d) ==
    /\ mapped /\ plan = "live"
    /\ status[d] \in Retryable
    /\ repairs < MaxRepairs
    /\ repairs' = repairs + 1
    /\ CrystalReady(d, "promoting")
    /\ UNCHANGED <<specs, mapped, cancelling, spawning, announced, restarts>>

(* cancel_plan and the route that unmaps the plan.  A registered task gets  *)
(* the CancelledError when it next resumes.                                 *)
Cancel ==
    /\ mapped /\ plan = "live"
    /\ cancelling' = cancelling \union {d \in registered : task[d] # "none"}
    /\ running' = {}
    /\ registered' = {}
    /\ planStatus' = "cancelled"
    /\ diskPlan' = "cancelled"
    /\ mapped' = FALSE
    /\ UNCHANGED <<plan, status, crystals, rescued, specs, task, spawning, diskStatus,
                   announced, bounds>>

(* The CancelledError arrives.  A task that never ran has no handler. *)
CancelDelivered(d) ==
    /\ d \in cancelling
    /\ cancelling' = cancelling \ {d}
    /\ \/ plan = "live" /\ FailedAfterCancel(d) /\ UNCHANGED crystals
       \/ (plan = "gone" \/ task[d] = "queued") /\ Returns(d) /\ UNCHANGED disk
    /\ UNCHANGED <<specs, mapped, spawning, announced, bounds>>

(* get_plan_status finds a delegate silent for ten minutes. *)
MarkStalled(d) ==
    /\ mapped /\ plan = "live"
    /\ status[d] = "running"
    /\ status' = [status EXCEPT ![d] = "stalled"]
    /\ diskPlan' = planStatus
    /\ UNCHANGED <<plan, planStatus, crystals, running, registered, rescued, specs, mapped,
                   task, cancelling, spawning, diskStatus, announced, bounds>>

-----------------------------------------------------------------------------
(* Delegates requested by delegates. *)

(* swarm_request_delegate, called from the stream of d. *)
RequestDelegate(d, ds) ==
    /\ task[d] = "streaming"
    /\ d \notin cancelling
    /\ plan = "live"
    /\ size < MaxDelegates
    /\ size' = size + 1
    /\ deps' = [deps EXCEPT ![size'] = ds]
    /\ dynamic' = dynamic \union {size'}
    /\ status' = [status EXCEPT ![size'] = "proposed"]
    /\ spawning' = spawning \union {size'}
    /\ diskPlan' = IF mapped THEN planStatus ELSE diskPlan
    /\ UNCHANGED <<plan, planStatus, crystals, running, registered, rescued, mapped, task,
                   cancelling, diskStatus, announced, bounds>>

(* _spawn_and_start_dynamic_delegate: the chat of d is created and the plan *)
(* resolved.  Without the plan or its group nothing happens.                *)
SpawnDynamic(d) ==
    /\ d \in spawning
    /\ spawning' = spawning \ {d}
    /\ IF plan = "live" /\ mapped
       THEN /\ ResolveAndStart(status, running, registered, task,
                               [diskStatus EXCEPT ![d] = "proposed"])
            /\ diskPlan' = planStatus
            /\ UNCHANGED <<plan, planStatus, crystals, rescued>>
       ELSE UNCHANGED <<memory, task, disk>>
    /\ UNCHANGED <<specs, mapped, cancelling, announced, bounds>>

-----------------------------------------------------------------------------
(* The sweeper and the restarts. *)

(* evict_stale_plans.  _plan_last_accessed is never written, so every plan  *)
(* counts as idle since the epoch.                                          *)
Evict ==
    /\ plan = "live"
    /\ planStatus \in FinishedPlan
    /\ Cleanup
    /\ UNCHANGED <<specs, mapped, task, cancelling, spawning, disk, announced, bounds>>

(* The server restarts between two steps of the event loop. *)
Restart(bad) ==
    /\ diskPlan # "none"
    /\ restarts < MaxRestarts
    /\ restarts' = restarts + 1
    /\ Rehydrate(diskPlan, diskStatus, bad)
    /\ UNCHANGED <<specs, announced, repairs>>

(* It dies inside on_crystal_ready, with the chat of d written and the plan *)
(* not: no dependent was started and no completion recorded.                *)
CrashInCrystalReady(d, bad) ==
    /\ "midcrash" \in Faults
    /\ task[d] = "streaming"
    /\ d \notin cancelling
    /\ Active
    /\ restarts < MaxRestarts
    /\ restarts' = restarts + 1
    /\ Rehydrate(diskPlan, Patched(diskStatus, d, "crystal"), bad)
    /\ UNCHANGED <<specs, announced, repairs>>

(* It dies inside launch_plan, with the chats of the first n specs created. *)
CrashInLaunch(g, n) ==
    /\ "midcrash" \in Faults
    /\ plan = "none"
    /\ n <= g.size
    /\ restarts < MaxRestarts
    /\ restarts' = restarts + 1
    /\ size' = g.size
    /\ deps' = g.deps
    /\ Rehydrate("running",
                 [d \in Delegate |-> IF d <= n THEN "proposed" ELSE "none"], {})
    /\ UNCHANGED <<dynamic, announced, repairs>>

-----------------------------------------------------------------------------
Step(d) ==
    \/ AcquireSlot(d)
    \/ StreamEnds(d)
    \/ StreamFails(d)
    \/ StreamRaises(d)
    \/ StreamEndsCancelled(d)
    \/ StreamEndsOrphaned(d)
    \/ Finalize(d)
    \/ CancelDelivered(d)

Fault(d) ==
    \/ PreambleRaises(d)
    \/ CrystalWriteRaises(d)
    \/ SynthesisRaises(d)
    \/ \E bad \in SUBSET Delegate : CrashInCrystalReady(d, bad)

Request(d) ==
    \/ Retry(d)
    \/ Promote(d)
    \/ MarkStalled(d)
    \/ \E ds \in SUBSET Delegate : RequestDelegate(d, ds)

Next ==
    \/ \E g \in PlanGraphs : Launch(g)
    \/ \E g \in PlanGraphs, n \in 0 .. MaxDelegates : CrashInLaunch(g, n)
    \/ \E d \in Delegate : Step(d) \/ SpawnDynamic(d) \/ Fault(d) \/ Request(d)
    \/ Cancel
    \/ Evict
    \/ \E bad \in SUBSET Delegate : Restart(bad)

Spec == Init /\ [][Next]_vars

(* The event loop runs every ready task, and every stream ends: the model   *)
(* calls have their own timeouts.  Requests, faults, the sweeper and the    *)
(* restarts are never owed.                                                 *)
Fairness == \A d \in Delegate :
    /\ WF_vars(Step(d))
    /\ WF_vars(SpawnDynamic(d))

FairSpec == Spec /\ Fairness

-----------------------------------------------------------------------------
(* What holds in every reachable state. *)

(* A delegate has a coroutine only while its status says so.  _start_delegate
   overwrites _tasks and never looks for a task still alive, so this is what
   keeps two streams from writing to one conversation: whatever may be started
   again (proposed, failed, interrupted) has no coroutine left.              *)
TaskMatchesStatus ==
    Active => \A d \in Delegate :
        /\ task[d] \in {"queued", "streaming"} => status[d] \in {"running", "stalled"}
        /\ task[d] \in {"finalizing", "promoting"} => status[d] = "crystal"

(* A delegate that counts as a crystal has its MemoryCrystal in memory, also
   after a restart, and a degraded one does not: get_upstream_crystals silently
   skips a dependency without one.                                           *)
CrystalStored ==
    plan = "live" => \A d \in Delegate :
        /\ status[d] = "crystal" => d \in crystals
        /\ status[d] = "crystal_degraded" => d \notin crystals

(* No delegate is left proposed once all its dependencies have crystals: every
   handler that can satisfy the last one also runs _resolve_and_start, and
   nothing else would ever look again.  A requested delegate waits for its
   spawn task, and a restart may leave one behind.                           *)
NothingStartableWaits ==
    Active => Startable(status) \subseteq
                  spawning \union IF restarts = 0 THEN {} ELSE dynamic

ChatOf(st) ==
    CASE st = "absent"           -> "none"
      [] st = "stalled"          -> "running"
      [] st = "crystal_degraded" -> "crystal"
      [] OTHER                   -> st

(* The chat files say what memory says, so that a restart resumes from where
   the plan was: degraded crystals are crystals on disk, stalled delegates are
   running.  A requested delegate that another handler starts or fails before
   its chat exists is written as proposed.                                   *)
DiskRecallsMemory ==
    Active => \A d \in Delegate \ dynamic : diskStatus[d] = ChatOf(status[d])

(* A plan recorded as completed, and not completed_partial, has the crystal of
   every delegate it was launched with in its chat, whatever was retried,
   promoted or restarted on the way.                                         *)
CompletedMeansDelivered ==
    diskPlan = "completed" =>
        \A d \in Delegate \ dynamic : diskStatus[d] \in {"crystal", "none"}

(* Once cancelled on disk a plan stays cancelled: neither the tasks that cancel
   did not reach, nor a pending spawn, nor a restart write it back.          *)
CancelledIsFinal ==
    [][diskPlan = "cancelled" => diskPlan' = "cancelled"]_vars

(* A delegate is started only with the crystals of all its dependencies in
   memory, or known to be degraded, and never next to a stream of its own.   *)
StartsWithUpstream ==
    [][\A d \in running' \ running :
          /\ task[d] = "none"
          /\ \A e \in deps'[d] : e \in crystals' \/ status'[e] = "crystal_degraded"]_vars

(* A synthesis is under way. *)
Closing == \E d \in Delegate : task[d] \in {"finalizing", "promoting"}

(* The group file only ever takes the steps of a plan's record: a completed plan
   is never resumed or reopened, and a completion is announced only by a
   synthesis that followed a settled plan.                                   *)
Record == INSTANCE PlanRecord WITH record <- diskPlan, closing <- Closing
ImplementsRecord == Record!Spec

(* Without restarts every delegate of a plan whose dependencies come before it
   ends with a crystal or a failure, unless the plan is cancelled or dropped:
   none is left waiting for a dependency or for a slot of the semaphore.     *)
EveryDelegateSettles ==
    plan = "live" ~> \/ ~Active
                     \/ \A d \in Delegate : status[d] \in Terminal \union {"absent"}

=============================================================================
