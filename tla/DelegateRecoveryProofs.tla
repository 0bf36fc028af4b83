----------------------- MODULE DelegateRecoveryProofs -----------------------
(* What the files say of a plan, when the synthesis raises only what the     *)
(* orchestrator catches; what waits to be started, when also no handler is   *)
(* cut in the middle; that a plan in order is never stuck, and that a plan    *)
(* delivered in full is declared.                                            *)
EXTENDS DelegateManagerProofs, FiniteSetTheorems, WellFoundedInduction

SynthesisReturns == "synthesis" \notin Faults
WholeHandlers == Faults \subseteq {"preamble", "disk"}

(* The chats ds recall the statuses s, of which those in dyn were requested.  *)
Recalls(s, ds, dyn) ==
    \A d \in Delegate :
        /\ d \notin dyn => ds[d] = ChatOf(s[d])
        /\ d \in dyn /\ ds[d] = "crystal" => s[d] \in Satisfied

(* An active plan is mapped and its group file up to date, and only requested delegates are spawned. *)
PlanRecorded ==
    /\ Active => mapped /\ diskPlan = planStatus /\ planStatus # "none"
    /\ spawning \subseteq dynamic

AllDelivered(s) == \A d \in Delegate : s[d] \in {"crystal", "absent"}

(* On disk too, a delegate is left proposed only behind one without crystal. *)
BlockedOnDisk ==
    diskPlan \in Resumable =>
        \A d \in Delegate \ dynamic :
            diskStatus[d] = "proposed" => \E e \in deps[d] : diskStatus[e] # "crystal"

(* The files agree with memory, and a completed plan with its delegates.     *)
FileInv ==
    /\ CoreInv
    /\ PlanRecorded
    /\ Active => Recalls(status, diskStatus, dynamic)
    /\ Active /\ planStatus = "completed" => AllDelivered(status)
    /\ CompletedMeansDelivered

(* Neither now nor after a restart would a resolve find something to start.  *)
NothingWaits == NothingStartableWaits /\ BlockedOnDisk

RecoveryInv == FileInv /\ NothingWaits

(* A handler that runs whole keeps both. *)
Recovered == FileInv' /\ (NothingWaits => NothingWaits')

-----------------------------------------------------------------------------
(* For an active plan the facts about the files follow from those about      *)
(* memory; for any other plan the files do not change.                       *)
LEMMA ActiveRecovery ==
    ASSUME CoreInv', Active', PlanRecorded', Recalls(status', diskStatus', dynamic'),
           planStatus' = "completed" => AllDelivered(status')
    PROVE  FileInv' /\ (NothingStartableWaits' => NothingWaits')
<1>1. ASSUME NothingStartableWaits' PROVE BlockedOnDisk'
  <2> SUFFICES ASSUME NEW d \in Delegate \ dynamic', diskStatus'[d] = "proposed"
               PROVE  \E e \in deps'[d] : diskStatus'[e] # "crystal"
    BY DEF BlockedOnDisk
  <2>1. status'[d] = "proposed" /\ d \notin spawning'
    BY DEF Recalls, PlanRecorded, ChatOf
  <2>2. d \notin Startable(status)'
    BY <1>1, <2>1 DEF NothingStartableWaits
  <2>3. PICK e \in deps'[d] : status'[e] \notin Satisfied
    BY <2>1, <2>2 DEF Startable
  <2>4. e \in Delegate
    BY DEF CoreInv, TypeOK
  <2>5. diskStatus'[e] # "crystal"
    BY <2>3, <2>4 DEF Recalls, ChatOf, Satisfied
  <2>6. QED
    BY <2>5
<1>2. CompletedMeansDelivered'
  BY DEF CompletedMeansDelivered, AllDelivered, Recalls, ChatOf, PlanRecorded
<1>3. QED
  BY <1>1, <1>2 DEF FileInv, NothingWaits

LEMMA InactiveRecovery ==
    ASSUME FileInv, CoreInv', ~Active', spawning' \subseteq dynamic',
           dynamic \subseteq dynamic', \A d \in Delegate \ dynamic' : deps'[d] = deps[d],
           diskStatus' = diskStatus, diskPlan' \in {diskPlan, "cancelled"}
    PROVE  Recovered
<1>1. BlockedOnDisk => BlockedOnDisk'
  BY DEF BlockedOnDisk, Resumable
<1>2. CompletedMeansDelivered'
  BY DEF FileInv, CompletedMeansDelivered
<1>3. QED
  BY <1>1, <1>2 DEF Recovered, FileInv, NothingWaits, PlanRecorded, NothingStartableWaits

(* A resolve leaves nothing startable and writes to the chats what it does to
   the statuses.                                                             *)
LEMMA ResolveRecovers ==
    ASSUME FileInv, CoreInv', Active', PlanRecorded', UNCHANGED <<deps, dynamic>>,
           NEW s \in [Delegate -> DelegateStatus], NEW rn \in SUBSET Delegate,
           NEW reg \in SUBSET Delegate, NEW tk \in [Delegate -> TaskState],
           NEW ds \in [Delegate -> ChatStatus],
           ResolveAndStart(s, rn, reg, tk, ds),
           \A d \in Delegate : s[d] = "proposed" => d \notin rn,
           Recalls(s, ds, dynamic),
           planStatus' = "completed" => AllDelivered(s)
    PROVE  FileInv' /\ NothingWaits'
<1>1. Resolved(s, rn, tk, ds)
  BY ResolveFacts
<1>2. Recalls(status', diskStatus', dynamic')
  <2> SUFFICES ASSUME NEW d \in Delegate
               PROVE  /\ d \notin dynamic => diskStatus'[d] = ChatOf(status'[d])
                      /\ d \in dynamic /\ diskStatus'[d] = "crystal" => status'[d] \in Satisfied
    BY DEF Recalls
  <2>1. /\ d \notin dynamic => ds[d] = ChatOf(s[d])
        /\ d \in dynamic /\ ds[d] = "crystal" => s[d] \in Satisfied
    BY DEF Recalls
  <2>2. \/ status'[d] = s[d] /\ diskStatus'[d] = ds[d]
        \/ /\ s[d] = "proposed" /\ status'[d] = "running"
           /\ diskStatus'[d] = IF ds[d] = "none" THEN "none" ELSE "running"
        \/ /\ s[d] = "proposed" /\ status'[d] = "failed"
           /\ diskStatus'[d] = IF ds[d] = "none" THEN "none" ELSE "failed"
    BY <1>1 DEF Resolved
  <2>3. QED
    BY <2>1, <2>2 DEF ChatOf
<1>3. Startable(status)' = {}
  <2> SUFFICES ASSUME NEW d \in Startable(status)' PROVE FALSE
    OBVIOUS
  <2>1. d \in Delegate /\ status'[d] = "proposed" /\ \A e \in deps[d] : status'[e] \in Satisfied
    BY DEF Startable
  <2>2. s[d] = "proposed" /\ d \notin Startable(s)
    BY <1>1, <2>1 DEF Resolved
  <2>3. PICK e \in deps[d] : s[e] \notin Satisfied
    BY <2>1, <2>2 DEF Startable
  <2>4. e \in Delegate
    BY <2>1 DEF FileInv, CoreInv, TypeOK
  <2>5. status'[e] \notin Satisfied
    BY <1>1, <2>3, <2>4 DEF Resolved, Satisfied
  <2>6. QED
    BY <2>1, <2>5
<1>4. NothingStartableWaits'
  BY <1>3 DEF NothingStartableWaits
<1>5. planStatus' = "completed" => AllDelivered(status')
  BY <1>1 DEF AllDelivered, Resolved
<1>6. QED
  BY <1>2, <1>4, <1>5, ActiveRecovery

-----------------------------------------------------------------------------
(* The actions, each with CoreInv' from DelegateManagerProofs. *)

(* No delegate settles and nothing is written to a chat. *)
LEMMA QuietStepsRecover ==
    ASSUME FileInv, CoreInv', NEW d \in Delegate,
           \/ AcquireSlot(d) \/ PreambleRaises(d) \/ StreamEndsOrphaned(d) \/ Finalize(d)
           \/ StreamEndsCancelled(d) \/ CancelDelivered(d) \/ Cancel \/ Evict \/ UNCHANGED vars
    PROVE  Recovered
<1>1. /\ UNCHANGED <<specs, spawning, diskStatus, restarts>>
      /\ diskPlan' \in {diskPlan, "cancelled"}
      /\ Active' => UNCHANGED <<plan, planStatus, status, diskPlan, mapped>> /\ Active
  BY DEF AcquireSlot, PreambleRaises, StreamEndsOrphaned, Finalize, StreamEndsCancelled,
     CancelDelivered, FailedAfterCancel, Cancel, Evict, vars, Returns, Cleanup, memory, disk,
     bounds, specs, Active, FileInv, CoreInv, CancellingIsLate
<1>2. CASE Active'
  <2>1. Startable(status)' = Startable(status)
    BY <1>1, <1>2 DEF Startable, specs
  <2>2. QED
    BY <1>1, <1>2, <2>1, ActiveRecovery DEF FileInv, PlanRecorded, Recovered, NothingWaits,
       NothingStartableWaits, specs
<1>3. CASE ~Active'
  BY <1>1, <1>3, InactiveRecovery DEF FileInv, PlanRecorded, specs
<1>4. QED
  BY <1>2, <1>3

(* A running delegate changes to another status of a running one. *)
LEMMA StillRunningRecovers ==
    ASSUME FileInv, CoreInv', Active, Active', NEW d \in Delegate,
           status[d] \in {"running", "stalled"}, NEW st \in {"running", "stalled"},
           status' = [status EXCEPT ![d] = st],
           diskPlan' = planStatus, UNCHANGED <<specs, mapped, spawning, diskStatus, planStatus, restarts>>
    PROVE  Recovered
<1>1. TypeOK
  BY DEF FileInv, CoreInv
<1>2. Recalls(status', diskStatus', dynamic')
  BY <1>1 DEF FileInv, Recalls, ChatOf, Satisfied, TypeOK, specs
<1>3. planStatus # "completed"
  BY DEF FileInv, AllDelivered
<1>4. Startable(status)' = Startable(status)
  BY <1>1 DEF Startable, Satisfied, TypeOK, specs
<1>5. QED
  BY <1>2, <1>3, <1>4, ActiveRecovery DEF FileInv, PlanRecorded, Recovered, NothingWaits,
     NothingStartableWaits, specs

LEMMA CrystalReadyRecovers ==
    ASSUME FileInv, CoreInv', NEW d \in Delegate, Active, status[d] # "absent", NEW pc,
           CrystalReady(d, pc), UNCHANGED <<specs, mapped, spawning, restarts>>
    PROVE  Recovered
<1> DEFINE s == [status EXCEPT ![d] = "crystal"]
           ds == Patched(diskStatus, d, "crystal")
           tk == [task EXCEPT ![d] = "none"]
<1>1. /\ s \in [Delegate -> DelegateStatus] /\ ds \in [Delegate -> ChatStatus]
      /\ tk \in [Delegate -> TaskState] /\ TypeOK
      /\ running \ {d} \in SUBSET Delegate /\ registered \ {d} \in SUBSET Delegate
  BY DEF FileInv, CoreInv, TypeOK, DelegateStatus, ChatStatus, TaskState, Patched
<1>2. Active' /\ PlanRecorded' /\ UNCHANGED <<deps, dynamic>>
  BY DEF FileInv, PlanRecorded, CrystalReady, Active, specs
<1>3. Recalls(s, ds, dynamic)
  \* a delegate of the launched plan that has a status has a chat
  BY <1>1 DEF FileInv, Recalls, ChatOf, Patched, Satisfied, TypeOK, DelegateStatus
<1>4. CASE Complete(s)
  <2>1. status' = s /\ diskStatus' = ds
    BY <1>4 DEF CrystalReady
  <2>2. planStatus' = "completed" => AllDelivered(s)
    BY <1>4 DEF CrystalReady, Complete, Terminal, AllDelivered
  <2>3. Startable(status)' = {}
    BY <1>4, <2>1 DEF Startable, Complete, Terminal
  <2> HIDE DEF s, ds
  <2>4. QED
    BY <1>2, <1>3, <2>1, <2>2, <2>3, ActiveRecovery DEF NothingStartableWaits, Recovered
<1>5. CASE ~Complete(s)
  <2>1. ResolveAndStart(s, running \ {d}, registered \ {d}, tk, ds) /\ UNCHANGED planStatus
    BY <1>5 DEF CrystalReady
  <2>2. \A e \in Delegate : s[e] = "proposed" => e \notin running \ {d}
    BY <1>1 DEF FileInv, CoreInv, RegistryMatches, TypeOK
  <2>3. planStatus' = "completed" => AllDelivered(s)
    BY <1>1, <2>1 DEF FileInv, AllDelivered, TypeOK
  <2> HIDE DEF s, ds, tk
  <2>4. QED
    BY <1>1, <1>2, <1>3, <2>1, <2>2, <2>3, ResolveRecovers DEF Recovered
<1>6. QED
  BY <1>4, <1>5

LEMMA DelegateFailedRecovers ==
    ASSUME FileInv, CoreInv', NEW d \in Delegate, Active, status[d] \in {"running", "stalled"},
           DelegateFailed(d), UNCHANGED <<specs, mapped, spawning, restarts>>
    PROVE  Recovered
<1> DEFINE s == [status EXCEPT ![d] = "failed"]
           ds == Patched(diskStatus, d, "failed")
           tk == [task EXCEPT ![d] = "none"]
<1>1. /\ s \in [Delegate -> DelegateStatus] /\ ds \in [Delegate -> ChatStatus]
      /\ tk \in [Delegate -> TaskState] /\ TypeOK
      /\ running \ {d} \in SUBSET Delegate /\ registered \ {d} \in SUBSET Delegate
  BY DEF FileInv, CoreInv, TypeOK, DelegateStatus, ChatStatus, TaskState, Patched
<1>2. Active' /\ PlanRecorded' /\ UNCHANGED <<deps, dynamic>>
  BY DEF FileInv, PlanRecorded, DelegateFailed, Active, specs
<1>3. Recalls(s, ds, dynamic)
  BY <1>1 DEF FileInv, Recalls, ChatOf, Patched, Satisfied, TypeOK, DelegateStatus
<1>4. ResolveAndStart(s, running \ {d}, registered \ {d}, tk, ds) /\ UNCHANGED planStatus
  BY DEF DelegateFailed
<1>5. \A e \in Delegate : s[e] = "proposed" => e \notin running \ {d}
  BY <1>1 DEF FileInv, CoreInv, RegistryMatches, TypeOK
<1>6. planStatus' # "completed"
  BY <1>4 DEF FileInv, AllDelivered
<1> HIDE DEF s, ds, tk
<1>7. QED
  BY <1>1, <1>2, <1>3, <1>4, <1>5, <1>6, ResolveRecovers DEF Recovered

(* The ends of a stream, in an active plan. *)
LEMMA EndsRecover ==
    ASSUME FileInv, CoreInv', NEW d \in Delegate,
           \/ StreamEnds(d) \/ StreamFails(d) \/ StreamRaises(d) \/ CrystalWriteRaises(d)
    PROVE  Recovered
<1>1. Active /\ UNCHANGED <<specs, mapped, spawning, restarts>>
  BY DEF StreamEnds, StreamFails, StreamRaises, CrystalWriteRaises, bounds
<1>2. status[d] \in {"running", "stalled"}
  BY <1>1 DEF StreamEnds, StreamFails, StreamRaises, CrystalWriteRaises, FileInv, CoreInv,
     TaskMatchesStatus
<1>3. CASE StreamEnds(d)
  BY <1>1, <1>2, <1>3, CrystalReadyRecovers DEF StreamEnds
<1>4. CASE Rescue(d)
  BY <1>1, <1>2, <1>4, StillRunningRecovers DEF Rescue, Active
<1>5. CASE DelegateFailed(d)
  BY <1>1, <1>2, <1>5, DelegateFailedRecovers
<1>6. QED
  BY <1>3, <1>4, <1>5 DEF StreamFails, StreamRaises, CrystalWriteRaises

(* The requests. *)
LEMMA RetryRecovers ==
    ASSUME FileInv, CoreInv', NEW d \in Delegate, Retry(d)
    PROVE  Recovered
<1> DEFINE reset == {d} \union {e \in 1 .. size : d \in deps[e] /\ status[e] = "failed"}
           s == [e \in Delegate |-> IF e \in reset THEN "proposed" ELSE status[e]]
           ds == [e \in Delegate |-> IF e \in reset /\ diskStatus[e] # "none"
                                     THEN "proposed" ELSE diskStatus[e]]
<1>1. Active /\ Active' /\ UNCHANGED <<deps, dynamic, spawning>>
  BY DEF FileInv, CoreInv, MappedIsActive, Retry, Active, specs
<1>2. s \in [Delegate -> DelegateStatus] /\ ds \in [Delegate -> ChatStatus] /\ TypeOK
  BY DEF FileInv, CoreInv, TypeOK, DelegateStatus, ChatStatus
<1>3. \A e \in Delegate : e \in reset => status[e] \in Retryable
  BY DEF Retry, Retryable
<1>4. PlanRecorded' /\ planStatus' # "completed"
  BY <1>1 DEF FileInv, PlanRecorded, AllDelivered, Retry, Retryable
<1>5. ResolveAndStart(s, running, registered, task, ds)
  BY DEF Retry
<1> HIDE DEF reset
<1>6. Recalls(s, ds, dynamic)
  BY <1>1, <1>2, <1>3 DEF FileInv, Recalls, ChatOf, Satisfied, Retryable
<1>7. \A e \in Delegate : s[e] = "proposed" => e \notin running
  BY <1>1, <1>3 DEF FileInv, CoreInv, RegistryMatches, Retryable
<1> HIDE DEF s, ds
<1>8. QED
  BY <1>1, <1>2, <1>4, <1>5, <1>6, <1>7, ResolveRecovers DEF TypeOK, Recovered

LEMMA PromoteRecovers ==
    ASSUME FileInv, CoreInv', NEW d \in Delegate, Promote(d)
    PROVE  Recovered
<1>1. Active /\ status[d] # "absent"
  BY DEF FileInv, CoreInv, MappedIsActive, Promote, Active, Retryable
<1>2. QED
  BY <1>1, CrystalReadyRecovers DEF Promote

LEMMA StallRecovers ==
    ASSUME FileInv, CoreInv', NEW d \in Delegate, MarkStalled(d)
    PROVE  Recovered
<1>1. Active /\ Active' /\ status[d] = "running"
  BY DEF FileInv, CoreInv, MappedIsActive, MarkStalled, Active
<1>2. QED
  BY <1>1, StillRunningRecovers DEF MarkStalled, bounds

LEMMA RequestRecovers ==
    ASSUME FileInv, CoreInv', NEW d \in Delegate, NEW ds \in SUBSET Delegate,
           RequestDelegate(d, ds)
    PROVE  Recovered
<1>1. TypeOK /\ size' \in Delegate /\ status[size'] = "absent" /\ diskStatus[size'] = "none"
  BY BoundsAssumption DEF FileInv, CoreInv, TypeOK, BeyondSizeAbsent, RequestDelegate, Delegate
<1>2. /\ deps' = [deps EXCEPT ![size'] = ds]
      /\ dynamic' = dynamic \union {size'} /\ spawning' = spawning \union {size'}
      /\ status' = [status EXCEPT ![size'] = "proposed"]
      /\ UNCHANGED <<plan, planStatus, mapped, diskStatus, restarts>>
  BY DEF RequestDelegate, bounds
<1>3. spawning' \subseteq dynamic'
  BY <1>2 DEF FileInv, PlanRecorded
<1>4. CASE Active
  <2>1. diskPlan' = planStatus
    BY <1>4 DEF FileInv, PlanRecorded, RequestDelegate
  <2>2. Recalls(status', diskStatus', dynamic')
    BY <1>1, <1>2, <1>4 DEF FileInv, Recalls, TypeOK
  <2>3. planStatus # "completed"
    BY <1>4 DEF FileInv, AllDelivered, RequestDelegate, CoreInv, TaskMatchesStatus
  <2>4. \A e \in Delegate : e \in Startable(status)' => e \in Startable(status) \/ e = size'
    BY <1>1, <1>2 DEF Startable, Satisfied, TypeOK
  <2>5. NothingStartableWaits => NothingStartableWaits'
    BY <1>2, <1>4, <2>4 DEF NothingStartableWaits, Startable
  <2>6. Active' /\ PlanRecorded'
    BY <1>2, <1>3, <1>4, <2>1 DEF Active, FileInv, PlanRecorded
  <2>7. QED
    BY <1>2, <2>2, <2>3, <2>5, <2>6, ActiveRecovery DEF Recovered, NothingWaits
<1>5. CASE ~Active
  <2>1. ~Active' /\ diskPlan' = diskPlan
    BY <1>2, <1>5 DEF Active, FileInv, CoreInv, MappedIsActive, RequestDelegate
  <2>2. \A e \in Delegate \ dynamic' : deps'[e] = deps[e]
    BY <1>1, <1>2 DEF TypeOK
  <2>3. QED
    BY <1>2, <1>3, <2>1, <2>2, InactiveRecovery
<1>6. QED
  BY <1>4, <1>5

LEMMA SpawnRecovers ==
    ASSUME FileInv, CoreInv', NEW d \in Delegate, SpawnDynamic(d)
    PROVE  Recovered
<1>1. /\ UNCHANGED <<deps, dynamic, restarts>> /\ spawning' = spawning \ {d} /\ d \in dynamic
      /\ TypeOK
  BY DEF SpawnDynamic, specs, bounds, FileInv, PlanRecorded, CoreInv
<1>2. CASE plan = "live" /\ mapped
  <2> DEFINE ds == [diskStatus EXCEPT ![d] = "proposed"]
  <2>1. Active /\ Active' /\ PlanRecorded' /\ UNCHANGED planStatus
    BY <1>1, <1>2 DEF FileInv, PlanRecorded, CoreInv, MappedIsActive, Active, SpawnDynamic
  <2>2. ds \in [Delegate -> ChatStatus]
    BY <1>1 DEF TypeOK, ChatStatus
  <2>3. Recalls(status, ds, dynamic)
    BY <1>1, <2>1 DEF FileInv, Recalls, TypeOK
  <2>4. ResolveAndStart(status, running, registered, task, ds)
    BY <1>2 DEF SpawnDynamic
  <2>5. \A e \in Delegate : status[e] = "proposed" => e \notin running
    BY <2>1 DEF FileInv, CoreInv, RegistryMatches
  <2>6. planStatus' = "completed" => AllDelivered(status)
    BY <2>1 DEF FileInv
  <2> HIDE DEF ds
  <2>7. QED
    BY <1>1, <2>1, <2>2, <2>3, <2>4, <2>5, <2>6, ResolveRecovers DEF TypeOK, Recovered
<1>3. CASE ~(plan = "live" /\ mapped)
  <2>1. UNCHANGED <<plan, planStatus, status, diskPlan, diskStatus>>
    BY <1>3 DEF SpawnDynamic, memory, disk
  <2>2. ~Active
    BY <1>3 DEF FileInv, PlanRecorded, Active
  <2>3. QED
    BY <1>1, <2>1, <2>2, InactiveRecovery DEF FileInv, PlanRecorded, Active
<1>4. QED
  BY <1>2, <1>3

LEMMA LaunchRecovers ==
    ASSUME FileInv, CoreInv', NEW g \in PlanGraphs, Launch(g)
    PROVE  Recovered
<1>1. g.deps \in [Delegate -> SUBSET Delegate] /\ deps' = g.deps /\ UNCHANGED spawning
  BY GraphsAssumption DEF Launch
<1>2. \A d \in Delegate :
         \/ status'[d] = "running" /\ diskStatus'[d] = "running" /\ g.deps[d] = {}
         \/ status'[d] = "proposed" /\ diskStatus'[d] = "proposed" /\ g.deps[d] # {}
         \/ status'[d] = "absent" /\ diskStatus'[d] = "none"
  BY DEF Launch
<1>3. Active' /\ PlanRecorded' /\ planStatus' = "running"
  BY DEF Launch, Active, PlanRecorded, FileInv
<1>4. Recalls(status', diskStatus', dynamic')
  BY <1>2 DEF Recalls, ChatOf
<1>5. Startable(status)' = {}
  BY <1>1, <1>2 DEF Startable, Satisfied
<1>6. QED
  BY <1>3, <1>4, <1>5, ActiveRecovery DEF NothingStartableWaits, Recovered

(* A restart that finds the chats ds: the plan it loads is what they say.      *)
LEMMA RehydrateRecalls ==
    ASSUME CoreInv', NEW dp \in {"running", "completed_partial"}, NEW ds \in [Delegate -> ChatStatus],
           NEW bad \in SUBSET Delegate, Rehydrate(dp, ds, bad), dynamic' = dynamic
    PROVE  /\ Active' /\ FileInv'
           /\ status' = [d \in Delegate |-> Recalled(ds, d, bad)]
<1>1. /\ Active' /\ PlanRecorded' /\ planStatus' = "completed_partial"
      /\ diskStatus' = [d \in Delegate |-> IF ds[d] = "running" THEN "interrupted" ELSE ds[d]]
      /\ status' = [d \in Delegate |-> Recalled(ds, d, bad)]
  BY DEF Rehydrate, Resumable, Active, PlanRecorded
<1>2. Recalls(status', diskStatus', dynamic')
  BY <1>1 DEF Recalls, Recalled, ChatOf, Satisfied, ChatStatus
<1>3. QED
  BY <1>1, <1>2, ActiveRecovery

LEMMA RestartRecovers ==
    ASSUME FileInv, CoreInv', NEW bad \in SUBSET Delegate, Restart(bad)
    PROVE  Recovered
<1>1. TypeOK /\ UNCHANGED <<deps, dynamic>> /\ spawning' = {} /\ restarts' # 0
  BY DEF FileInv, CoreInv, TypeOK, Restart, Rehydrate, Resumable, specs
<1>2. CASE diskPlan \in Resumable
  <2>1. Active' /\ FileInv' /\ status' = [d \in Delegate |-> Recalled(diskStatus, d, bad)]
    BY <1>1, <1>2, RehydrateRecalls DEF Restart, Resumable, TypeOK
  <2>3. ASSUME NothingWaits, NEW d \in Startable(status)', d \notin dynamic PROVE FALSE
    <3>1. d \in Delegate /\ diskStatus[d] = "proposed" /\ \A e \in deps[d] : status'[e] \in Satisfied
      BY <1>1, <2>1, <2>3 DEF Startable, Recalled, TypeOK, ChatStatus
    <3>2. PICK e \in deps[d] : diskStatus[e] # "crystal"
      BY <1>2, <2>3, <3>1 DEF NothingWaits, BlockedOnDisk
    <3>3. e \in Delegate
      BY <1>1, <3>1 DEF TypeOK
    <3>4. status'[e] \notin Satisfied
      BY <1>1, <2>1, <3>2, <3>3 DEF Recalled, Satisfied, TypeOK, ChatStatus
    <3>5. QED
      BY <3>1, <3>4
  <2>4. NothingWaits => NothingStartableWaits'
    BY <1>1, <2>3 DEF NothingStartableWaits
  <2>5. QED
    BY <2>1, <2>4, ActiveRecovery DEF Recovered, FileInv
<1>3. CASE diskPlan \notin Resumable
  <2>1. ~Active' /\ UNCHANGED <<diskPlan, diskStatus>>
    BY <1>3 DEF Restart, Rehydrate, Resumable, Active
  <2>2. QED
    BY <1>1, <2>1, InactiveRecovery
<1>4. QED
  BY <1>2, <1>3

(* The crashes inside a handler leave dependents unresolved, but no file is   *)
(* ahead of what the next process makes of it.                               *)
LEMMA CrashInCrystalReadyRecalls ==
    ASSUME FileInv, CoreInv', NEW d \in Delegate, NEW bad \in SUBSET Delegate,
           CrashInCrystalReady(d, bad)
    PROVE  FileInv'
<1> DEFINE ds == Patched(diskStatus, d, "crystal")
<1>1. TypeOK /\ Active /\ diskPlan = planStatus /\ dynamic' = dynamic
  BY DEF FileInv, CoreInv, PlanRecorded, CrashInCrystalReady, specs
<1>2. status[d] \in {"running", "stalled"}
  BY <1>1 DEF FileInv, CoreInv, TaskMatchesStatus, CrashInCrystalReady
<1>3. diskPlan \in {"running", "completed_partial"}
  BY <1>1, <1>2 DEF FileInv, PlanRecorded, AllDelivered, Active, TypeOK, PlanStatus
<1>4. ds \in [Delegate -> ChatStatus]
  BY <1>1 DEF TypeOK, Patched, ChatStatus
<1>5. Rehydrate(diskPlan, ds, bad)
  BY DEF CrashInCrystalReady
<1> HIDE DEF ds
<1>6. QED
  BY <1>1, <1>3, <1>4, <1>5, RehydrateRecalls

LEMMA CrashInLaunchRecalls ==
    ASSUME FileInv, CoreInv', NEW g \in PlanGraphs, NEW n \in 0 .. MaxDelegates,
           CrashInLaunch(g, n)
    PROVE  FileInv'
<1> DEFINE ds == [d \in Delegate |-> IF d <= n THEN "proposed" ELSE "none"]
<1>1. ds \in [Delegate -> ChatStatus]
  BY DEF ChatStatus
<1>2. Rehydrate("running", ds, {}) /\ dynamic' = dynamic
  BY DEF CrashInLaunch
<1> HIDE DEF ds
<1>3. QED
  BY <1>1, <1>2, RehydrateRecalls

LEMMA RecoveryInvInit == Init => RecoveryInv
BY CoreInvInit DEF Init, RecoveryInv, FileInv, NothingWaits, PlanRecorded, NothingStartableWaits,
   BlockedOnDisk, CompletedMeansDelivered, Active, Resumable

(* The faults that cut a handler are the only ones that leave something      *)
(* startable behind.                                                         *)
LEMMA FileInvNext ==
    ASSUME SynthesisReturns, FileInv, [Next]_vars
    PROVE  FileInv' /\ (WholeHandlers /\ NothingWaits => NothingWaits')
<1>1. CoreInv'
  BY CoreInvNext DEF FileInv
<1>2. CASE \E g \in PlanGraphs : Launch(g)
  BY <1>1, <1>2, LaunchRecovers DEF Recovered
<1>3. CASE \E g \in PlanGraphs, n \in 0 .. MaxDelegates : CrashInLaunch(g, n)
  <2>1. ~WholeHandlers
    BY <1>3 DEF CrashInLaunch, WholeHandlers
  <2>2. QED
    BY <1>1, <1>3, <2>1, CrashInLaunchRecalls
<1>4. ASSUME NEW d \in Delegate, Step(d) PROVE Recovered
  BY <1>1, <1>4, QuietStepsRecover, EndsRecover DEF Step
<1>5. ASSUME NEW d \in Delegate, SpawnDynamic(d) PROVE Recovered
  BY <1>1, <1>5, SpawnRecovers
<1>6. ASSUME NEW d \in Delegate, Fault(d)
      PROVE  FileInv' /\ (WholeHandlers /\ NothingWaits => NothingWaits')
  <2>1. CASE PreambleRaises(d) \/ CrystalWriteRaises(d)
    BY <1>1, <2>1, QuietStepsRecover, EndsRecover DEF Recovered
  <2>2. CASE \E bad \in SUBSET Delegate : CrashInCrystalReady(d, bad)
    <3>1. ~WholeHandlers
      BY <2>2 DEF CrashInCrystalReady, WholeHandlers
    <3>2. QED
      BY <1>1, <2>2, <3>1, CrashInCrystalReadyRecalls
  <2>3. QED
    BY <1>6, <2>1, <2>2 DEF Fault, SynthesisRaises, SynthesisReturns
<1>7. ASSUME NEW d \in Delegate, Request(d) PROVE Recovered
  BY <1>1, <1>7, RetryRecovers, PromoteRecovers, StallRecovers, RequestRecovers DEF Request
<1>8. CASE Cancel \/ Evict \/ UNCHANGED vars
  <2>1. 1 \in Delegate
    BY BoundsAssumption DEF Delegate
  <2>2. QED
    BY <1>1, <1>8, <2>1, QuietStepsRecover DEF Recovered
<1>9. CASE \E bad \in SUBSET Delegate : Restart(bad)
  BY <1>1, <1>9, RestartRecovers DEF Recovered
<1>10. QED
  BY <1>2, <1>3, <1>4, <1>5, <1>6, <1>7, <1>8, <1>9 DEF Next, Recovered

(* The files agree with memory in every reachable state, wherever the process *)
(* dies.                                                                      *)
THEOREM FileInvHolds == ASSUME SynthesisReturns PROVE Spec => []FileInv
<1>1. Init => FileInv
  BY RecoveryInvInit DEF RecoveryInv
<1>2. FileInv /\ [Next]_vars => FileInv'
  BY FileInvNext
<1>3. QED
  BY <1>1, <1>2, PTL DEF Spec

(* RecoveryInv holds in every reachable state when handlers run whole. *)
THEOREM RecoveryInvHolds == ASSUME WholeHandlers PROVE Spec => []RecoveryInv
<1>1. RecoveryInv /\ [Next]_vars => RecoveryInv'
  BY FileInvNext DEF RecoveryInv, WholeHandlers, SynthesisReturns
<1>2. QED
  BY <1>1, RecoveryInvInit, PTL DEF Spec

(* No delegate is left proposed once its dependencies have crystals: nothing
   would ever look at it again.                                              *)
THEOREM StartableIsStarted == ASSUME WholeHandlers PROVE Spec => []NothingStartableWaits
<1>1. RecoveryInv => NothingStartableWaits
  BY DEF RecoveryInv, NothingWaits
<1>2. QED
  BY <1>1, RecoveryInvHolds, PTL

(* A restart finds in the chats what the delegates were doing, also when the
   process died between the writes of a launch or of a crystal.              *)
THEOREM ChatsRecallMemory == ASSUME SynthesisReturns PROVE Spec => []DiskRecallsMemory
<1>1. FileInv => DiskRecallsMemory
  BY DEF FileInv, DiskRecallsMemory, Recalls
<1>2. QED
  BY <1>1, FileInvHolds, PTL

(* A plan recorded as completed has the crystal of every delegate it was
   launched with in its chat, also after the modelled crashes in handlers.   *)
THEOREM CompletedIsDelivered == ASSUME SynthesisReturns PROVE Spec => []CompletedMeansDelivered
<1>1. FileInv => CompletedMeansDelivered
  BY DEF FileInv
<1>2. QED
  BY <1>1, FileInvHolds, PTL

-----------------------------------------------------------------------------
(* Who goes on.  Nothing polls: a delegate that waits is looked at again only *)
(* when another settles, so an active plan must always have someone left to   *)
(* settle.  A process that dies in the preamble leaves a delegate running for *)
(* ever, and a restart leaves interrupted ones for the user.                  *)
PreambleReturns == "preamble" \notin Faults

(* Each delegate depends on those listed before it. *)
InOrder == \A d \in 1 .. size : \A e \in deps[d] : e < d

Underway == {"proposed", "running", "stalled"}
Settled  == {"absent", "crystal", "failed"}

(* Who is said to run does, and who waits does so for one underway. *)
Alive ==
    \A d \in Delegate :
        /\ status[d] \in Underway \union Settled
        /\ d <= size => status[d] # "absent"
        /\ status[d] \in {"running", "stalled"} => task[d] \in {"queued", "streaming"}
Hopeful ==
    \A d \in Delegate : status[d] = "proposed" =>
        d \in spawning \/ \E e \in deps[d] : status[e] \in Underway

WaitInv == Active /\ restarts = 0 => mapped /\ Alive /\ (InOrder => Hopeful)

(* A step that some task of the plan can take now: a spawn, the end of a stream, *)
(* or the start of one, for which there is a slot.                               *)
CanGoOn(d) ==
    \/ d \in spawning
    \/ task[d] = "streaming" /\ d \notin cancelling
    \/ /\ task[d] = "queued" /\ d \notin cancelling \union spawning
       /\ Cardinality(Streaming) < MaxConcurrency

(* Before any restart a plan in order is never stuck: while a delegate has not *)
(* settled, some delegate can go on, however few slots there are.              *)
NeverStuck ==
    Active /\ restarts = 0 /\ InOrder =>
        (\A d \in Delegate : status[d] \in Settled) \/ (\E d \in Delegate : CanGoOn(d))

(* A resolve leaves nobody waiting for settled delegates only: with all its    *)
(* dependencies settled a delegate is started, or fails with one of them.      *)
LEMMA ResolveLeavesHope ==
    ASSUME CoreInv', UNCHANGED <<deps, size>>,
           NEW s \in [Delegate -> DelegateStatus], NEW rn \in SUBSET Delegate,
           NEW reg \in SUBSET Delegate, NEW tk \in [Delegate -> TaskState],
           NEW ds \in [Delegate -> ChatStatus],
           ResolveAndStart(s, rn, reg, tk, ds),
           \A d \in Delegate : s[d] = "proposed" => d \notin rn,
           \A d \in Delegate :
               /\ s[d] \in Underway \union Settled
               /\ d <= size => s[d] # "absent"
               /\ s[d] \in {"running", "stalled"} => tk[d] \in {"queued", "streaming"}
    PROVE  Alive' /\ (InOrder' => Hopeful')
<1>1. PICK F \in SUBSET Delegate :
         LET start == ToStart(s, rn)
             settle(old, run, fail, d) ==
                 IF d \in start THEN run ELSE IF d \in F THEN fail ELSE old
         IN /\ IsCascade(s, F)
            /\ status' = [d \in Delegate |->
                  IF d \in Startable(s) /\ d \in rn THEN "ready"
                  ELSE settle(s[d], "running", "failed", d)]
            /\ task' = [d \in Delegate |-> settle(tk[d], "queued", tk[d], d)]
  BY DEF ResolveAndStart
<1>2. \A d \in Delegate : d \in Startable(s) => s[d] = "proposed" /\ d \notin rn
  BY DEF Startable
<1>3. \A d \in Delegate : d \in F => s[d] = "proposed"
  BY <1>1 DEF IsCascade
<1>4. ASSUME NEW d \in Delegate
      PROVE  /\ d \in Startable(s) => status'[d] = "running" /\ task'[d] = "queued"
             /\ d \notin Startable(s) /\ d \in F => status'[d] = "failed" /\ task'[d] = tk[d]
             /\ d \notin Startable(s) /\ d \notin F => status'[d] = s[d] /\ task'[d] = tk[d]
  BY <1>1, <1>2 DEF ToStart
<1>5. Alive'
  <2> SUFFICES ASSUME NEW d \in Delegate
               PROVE  /\ status'[d] \in Underway \union Settled
                      /\ d <= size => status'[d] # "absent"
                      /\ status'[d] \in {"running", "stalled"} => task'[d] \in {"queued", "streaming"}
    BY DEF Alive
  <2>1. QED
    BY <1>4 DEF Underway, Settled
<1>6. ASSUME InOrder', NEW d \in Delegate, status'[d] = "proposed"
      PROVE  \E e \in deps[d] : status'[e] \in Underway
  <2>1. s[d] = "proposed" /\ d \notin Startable(s) /\ d \notin F
    BY <1>4, <1>6
  <2>2. PICK e \in deps[d] : s[e] \notin Satisfied
    BY <2>1 DEF Startable
  <2>3. d \in 1 .. size /\ deps[d] \subseteq Delegate
    <3>1. ~(d > size) /\ size \in 0 .. MaxDelegates /\ deps \in [Delegate -> SUBSET Delegate]
      BY <1>6 DEF CoreInv, BeyondSizeAbsent, TypeOK
    <3>2. QED
      BY <3>1, BoundsAssumption DEF Delegate
  <2>4. PICK c \in deps[d] : s[c] \notin Satisfied /\ s[c] # "failed" /\ c \notin F
    \* a delegate all of whose dependencies settled, with a failure among them, is in F
    <3>1. \A c \in deps[d] : c < d
      BY <1>6, <2>3 DEF InOrder
    <3>2. CASE \A c \in deps[d] : s[c] \in Satisfied \/ s[c] = "failed" \/ c \in F
      <4>1. \A c \in deps[d] : s[c] \in Satisfied \/ (s[c] = "failed" \/ (c < d /\ c \in F))
        BY <3>1, <3>2
      <4>2. s[e] = "failed" \/ (e < d /\ e \in F)
        BY <2>2, <4>1
      <4>3. d \in F
        BY <1>1, <2>1, <4>1, <4>2 DEF IsCascade
      <4>4. QED
        BY <2>1, <4>3
    <3>3. QED
      BY <3>2
  <2>5. c \in Delegate /\ c <= size
    <3>1. c < d /\ c \in Delegate
      BY <1>6, <2>3 DEF InOrder
    <3>2. size \in Int /\ d \in Int /\ c \in Int /\ d <= size
      BY <2>3, <3>1, BoundsAssumption DEF Delegate, CoreInv, TypeOK
    <3>3. QED
      BY <3>1, <3>2
  <2>6. s[c] \in Underway
    BY <2>4, <2>5 DEF Settled, Satisfied
  <2>7. status'[c] \in Underway
    BY <1>4, <2>4, <2>5, <2>6 DEF Underway
  <2>8. QED
    BY <2>7
<1>7. QED
  BY <1>5, <1>6 DEF Hopeful

(* The handlers that resolve. *)
LEMMA CrystalReadyWaits ==
    ASSUME CoreInv, CoreInv', WaitInv, NEW d \in Delegate, Active, restarts = 0, status[d] # "absent",
           NEW pc \in TaskState, CrystalReady(d, pc), UNCHANGED <<specs, mapped>>
    PROVE  mapped' /\ Alive' /\ (InOrder' => Hopeful')
<1> DEFINE s == [status EXCEPT ![d] = "crystal"]
           ds == Patched(diskStatus, d, "crystal")
           tk == [task EXCEPT ![d] = "none"]
<1>1. /\ s \in [Delegate -> DelegateStatus] /\ ds \in [Delegate -> ChatStatus]
      /\ tk \in [Delegate -> TaskState] /\ TypeOK
      /\ running \ {d} \in SUBSET Delegate /\ registered \ {d} \in SUBSET Delegate
  BY DEF CoreInv, TypeOK, DelegateStatus, ChatStatus, TaskState, Patched
<1>2. UNCHANGED <<deps, size>> /\ mapped' /\ Alive
  BY DEF WaitInv, specs
<1>3. \A e \in Delegate :
         /\ s[e] \in Underway \union Settled
         /\ e <= size => s[e] # "absent"
         /\ s[e] \in {"running", "stalled"} => tk[e] \in {"queued", "streaming"}
  BY <1>1, <1>2 DEF Alive, TypeOK, Settled
<1>4. CASE Complete(s)
  <2>1. status' = s
    BY <1>4 DEF CrystalReady
  <2>2. \A e \in Delegate : s[e] \in Settled
    BY <1>4 DEF Complete, Terminal, Settled
  <2> HIDE DEF s
  <2>3. QED
    BY <1>2, <1>3, <2>1, <2>2 DEF Alive, Hopeful, Settled
<1>5. CASE ~Complete(s)
  <2>1. ResolveAndStart(s, running \ {d}, registered \ {d}, tk, ds)
    BY <1>5 DEF CrystalReady
  <2>2. \A e \in Delegate : s[e] = "proposed" => e \notin running \ {d}
    BY <1>1 DEF CoreInv, RegistryMatches, TypeOK
  <2> HIDE DEF s, ds, tk
  <2>3. QED
    BY <1>1, <1>2, <1>3, <2>1, <2>2, ResolveLeavesHope
<1>6. QED
  BY <1>4, <1>5

LEMMA DelegateFailedWaits ==
    ASSUME CoreInv, CoreInv', WaitInv, NEW d \in Delegate, Active, restarts = 0,
           status[d] # "absent", DelegateFailed(d), UNCHANGED <<specs, mapped>>
    PROVE  mapped' /\ Alive' /\ (InOrder' => Hopeful')
<1> DEFINE s == [status EXCEPT ![d] = "failed"]
           ds == Patched(diskStatus, d, "failed")
           tk == [task EXCEPT ![d] = "none"]
<1>1. /\ s \in [Delegate -> DelegateStatus] /\ ds \in [Delegate -> ChatStatus]
      /\ tk \in [Delegate -> TaskState] /\ TypeOK
      /\ running \ {d} \in SUBSET Delegate /\ registered \ {d} \in SUBSET Delegate
  BY DEF CoreInv, TypeOK, DelegateStatus, ChatStatus, TaskState, Patched
<1>2. UNCHANGED <<deps, size>> /\ mapped' /\ Alive
  BY DEF WaitInv, specs
<1>3. \A e \in Delegate :
         /\ s[e] \in Underway \union Settled
         /\ e <= size => s[e] # "absent"
         /\ s[e] \in {"running", "stalled"} => tk[e] \in {"queued", "streaming"}
  BY <1>1, <1>2 DEF Alive, TypeOK, Settled
<1>4. ResolveAndStart(s, running \ {d}, registered \ {d}, tk, ds)
  BY DEF DelegateFailed
<1>5. \A e \in Delegate : s[e] = "proposed" => e \notin running \ {d}
  BY <1>1 DEF CoreInv, RegistryMatches, TypeOK
<1> HIDE DEF s, ds, tk
<1>6. QED
  BY <1>1, <1>2, <1>3, <1>4, <1>5, ResolveLeavesHope

LEMMA RetryWaits ==
    ASSUME CoreInv, CoreInv', WaitInv, Active, restarts = 0, NEW d \in Delegate, Retry(d)
    PROVE  mapped' /\ Alive' /\ (InOrder' => Hopeful')
<1> DEFINE reset == {d} \union {e \in 1 .. size : d \in deps[e] /\ status[e] = "failed"}
           s == [e \in Delegate |-> IF e \in reset THEN "proposed" ELSE status[e]]
           ds == [e \in Delegate |-> IF e \in reset /\ diskStatus[e] # "none"
                                     THEN "proposed" ELSE diskStatus[e]]
<1>1. UNCHANGED <<deps, size>> /\ mapped' /\ Alive
  BY DEF WaitInv, Retry, specs
<1>2. s \in [Delegate -> DelegateStatus] /\ ds \in [Delegate -> ChatStatus] /\ TypeOK
  BY DEF CoreInv, TypeOK, DelegateStatus, ChatStatus
<1>3. \A e \in Delegate : e \in reset => status[e] \in Retryable
  BY DEF Retry, Retryable
<1>4. ResolveAndStart(s, running, registered, task, ds)
  BY DEF Retry
<1> HIDE DEF reset
<1>5. \A e \in Delegate : s[e] = "proposed" => e \notin running
  BY <1>3 DEF CoreInv, RegistryMatches, Retryable
<1>6. \A e \in Delegate :
         /\ s[e] \in Underway \union Settled
         /\ e <= size => s[e] # "absent"
         /\ s[e] \in {"running", "stalled"} => task[e] \in {"queued", "streaming"}
  BY <1>1 DEF Alive, Underway
<1> HIDE DEF s, ds
<1>7. QED
  BY <1>1, <1>2, <1>4, <1>5, <1>6, ResolveLeavesHope DEF TypeOK

LEMMA SpawnWaits ==
    ASSUME CoreInv, CoreInv', WaitInv, Active, restarts = 0, NEW d \in Delegate, SpawnDynamic(d)
    PROVE  mapped' /\ Alive' /\ (InOrder' => Hopeful')
<1> DEFINE ds == [diskStatus EXCEPT ![d] = "proposed"]
<1>1. UNCHANGED <<deps, size>> /\ mapped /\ mapped' /\ Alive /\ plan = "live"
  BY DEF WaitInv, SpawnDynamic, specs, Active
<1>2. ds \in [Delegate -> ChatStatus] /\ TypeOK
  BY DEF CoreInv, TypeOK, ChatStatus
<1>3. ResolveAndStart(status, running, registered, task, ds)
  BY <1>1 DEF SpawnDynamic
<1>4. \A e \in Delegate : status[e] = "proposed" => e \notin running
  BY DEF CoreInv, RegistryMatches
<1> HIDE DEF ds
<1>5. QED
  BY <1>1, <1>2, <1>3, <1>4, ResolveLeavesHope DEF TypeOK, Alive

(* A delegate goes back to a task of its own, or to another status of a running *)
(* one.                                                                         *)
LEMMA StillUnderwayWaits ==
    ASSUME CoreInv, WaitInv, Active, restarts = 0, NEW d \in Delegate, status[d] # "absent",
           NEW st \in {"running", "stalled"}, status' = [status EXCEPT ![d] = st],
           \/ task' = [task EXCEPT ![d] = "queued"]
           \/ status[d] \in {"running", "stalled"} /\ task' = task,
           UNCHANGED <<specs, mapped, spawning>>
    PROVE  mapped' /\ Alive' /\ (InOrder' => Hopeful')
<1>1. TypeOK /\ Alive /\ mapped /\ (InOrder => Hopeful)
  BY DEF CoreInv, WaitInv
<1>2. Alive'
  BY <1>1 DEF Alive, TypeOK, Underway, specs
<1>3. ASSUME InOrder' PROVE Hopeful'
  <2> SUFFICES ASSUME NEW e \in Delegate, status'[e] = "proposed", e \notin spawning
               PROVE  \E c \in deps[e] : status'[c] \in Underway
    BY DEF Hopeful, specs
  <2>1. status[e] = "proposed" /\ InOrder
    BY <1>1, <1>3 DEF TypeOK, InOrder, specs
  <2>2. PICK c \in deps[e] : status[c] \in Underway
    BY <1>1, <2>1 DEF Hopeful
  <2>3. c \in Delegate
    BY <1>1, <2>2 DEF TypeOK
  <2>4. status'[c] \in Underway
    BY <1>1, <2>2, <2>3 DEF TypeOK, Underway
  <2>5. QED
    BY <2>2, <2>4
<1>4. QED
  BY <1>1, <1>2, <1>3

(* The other steps of an active plan leave the statuses alone. *)
LEMMA QuietStepsWait ==
    ASSUME CoreInv, WaitInv, Active, restarts = 0, NEW d \in Delegate,
           UNCHANGED <<status, specs, mapped, spawning>>,
           \/ UNCHANGED task
           \/ task[d] = "queued" /\ task' = [task EXCEPT ![d] = "streaming"]
           \/ status[d] \notin {"running", "stalled"} /\ task' = [task EXCEPT ![d] = "none"]
    PROVE  mapped' /\ Alive' /\ (InOrder' => Hopeful')
<1>1. TypeOK /\ Alive /\ mapped /\ (InOrder => Hopeful)
  BY DEF CoreInv, WaitInv
<1>2. Alive'
  BY <1>1 DEF Alive, TypeOK, specs
<1>3. QED
  BY <1>1, <1>2 DEF InOrder, Hopeful, specs

LEMMA RequestWaits ==
    ASSUME CoreInv, WaitInv, Active, restarts = 0, NEW d \in Delegate, NEW ds \in SUBSET Delegate,
           RequestDelegate(d, ds)
    PROVE  mapped' /\ Alive' /\ (InOrder' => Hopeful')
<1>1. TypeOK /\ Alive /\ mapped /\ (InOrder => Hopeful)
  BY DEF CoreInv, WaitInv
<1>2. size' \in Delegate /\ size' = size + 1 /\ size \in Nat /\ status[size'] = "absent"
  BY <1>1, BoundsAssumption DEF CoreInv, TypeOK, BeyondSizeAbsent, RequestDelegate, Delegate
<1>3. /\ deps' = [deps EXCEPT ![size'] = ds] /\ spawning' = spawning \union {size'}
      /\ status' = [status EXCEPT ![size'] = "proposed"] /\ UNCHANGED <<task, mapped>>
  BY DEF RequestDelegate
<1>4. Alive'
  <2> SUFFICES ASSUME NEW e \in Delegate
               PROVE  /\ status'[e] \in Underway \union Settled
                      /\ e <= size' => status'[e] # "absent"
                      /\ status'[e] \in {"running", "stalled"} => task'[e] \in {"queued", "streaming"}
    BY DEF Alive
  <2>1. e <= size' => e <= size \/ e = size'
    BY <1>2 DEF Delegate
  <2>2. QED
    BY <1>1, <1>3, <2>1 DEF Alive, TypeOK, Underway
<1>5. ASSUME InOrder' PROVE Hopeful'
  <2>1. InOrder
    <3> SUFFICES ASSUME NEW e \in 1 .. size, NEW c \in deps[e] PROVE c < e
      BY DEF InOrder
    <3>1. e \in 1 .. size' /\ deps'[e] = deps[e]
      BY <1>1, <1>2, <1>3 DEF TypeOK, Delegate
    <3>2. QED
      BY <1>5, <3>1 DEF InOrder
  <2> SUFFICES ASSUME NEW e \in Delegate, status'[e] = "proposed", e \notin spawning'
               PROVE  \E c \in deps'[e] : status'[c] \in Underway
    BY DEF Hopeful
  <2>2. e # size' /\ status[e] = "proposed" /\ deps'[e] = deps[e] /\ e \notin spawning
    BY <1>1, <1>3 DEF TypeOK
  <2>3. PICK c \in deps[e] : status[c] \in Underway
    BY <1>1, <2>1, <2>2 DEF Hopeful
  <2>4. c \in Delegate /\ c # size'
    BY <1>1, <1>2, <2>3 DEF TypeOK, Underway
  <2>5. status'[c] \in Underway
    BY <1>1, <1>3, <2>3, <2>4 DEF TypeOK
  <2>6. QED
    BY <2>2, <2>3, <2>5
<1>6. QED
  BY <1>1, <1>3, <1>4, <1>5

LEMMA LaunchWaits ==
    ASSUME NEW g \in PlanGraphs, Launch(g)
    PROVE  mapped' /\ Alive' /\ (InOrder' => Hopeful')
<1>1. /\ g.size \in Delegate /\ g.deps \in [Delegate -> SUBSET Delegate]
      /\ deps' = g.deps /\ size' = g.size /\ mapped'
  BY GraphsAssumption DEF Launch
<1>2. \A d \in Delegate :
         \/ d <= g.size /\ g.deps[d] = {} /\ status'[d] = "running" /\ task'[d] = "queued"
         \/ d <= g.size /\ g.deps[d] # {} /\ status'[d] = "proposed"
         \/ ~(d <= g.size) /\ status'[d] = "absent"
  BY DEF Launch
<1>3. Alive'
  BY <1>1, <1>2 DEF Alive, Underway, Settled
<1>4. ASSUME InOrder', NEW d \in Delegate, status'[d] = "proposed"
      PROVE  \E e \in deps'[d] : status'[e] \in Underway
  <2>1. d <= g.size /\ g.deps[d] # {}
    BY <1>2, <1>4
  <2>2. PICK e \in g.deps[d] : TRUE
    BY <2>1
  <2>3. d \in 1 .. size'
    BY <1>1, <2>1, BoundsAssumption DEF Delegate
  <2>4. e < d /\ e \in Delegate
    BY <1>1, <1>4, <2>2, <2>3 DEF InOrder
  <2>5. e <= g.size
    BY <1>1, <2>1, <2>4, BoundsAssumption DEF Delegate
  <2>6. QED
    BY <1>1, <1>2, <2>2, <2>4, <2>5 DEF Underway
<1>5. QED
  BY <1>1, <1>3, <1>4 DEF Hopeful

LEMMA WaitInvNext ==
    ASSUME PreambleReturns, CoreInv, WaitInv, [Next]_vars
    PROVE  WaitInv'
<1> SUFFICES ASSUME Active', restarts' = 0 PROVE mapped' /\ Alive' /\ (InOrder' => Hopeful')
  BY DEF WaitInv
<1>1. CoreInv'
  BY CoreInvNext
<1>2. restarts \in Nat
  BY BoundsAssumption DEF CoreInv, TypeOK
<1>3. CASE \E g \in PlanGraphs : Launch(g)
  BY <1>3, LaunchWaits
<1>4. CASE \/ \E g \in PlanGraphs, n \in 0 .. MaxDelegates : CrashInLaunch(g, n)
           \/ \E d \in Delegate, bad \in SUBSET Delegate : CrashInCrystalReady(d, bad)
           \/ \E bad \in SUBSET Delegate : Restart(bad)
  <2>1. restarts' = restarts + 1
    <3>1. CASE \E g \in PlanGraphs, n \in 0 .. MaxDelegates : CrashInLaunch(g, n)
      BY <3>1 DEF CrashInLaunch
    <3>2. CASE \E d \in Delegate, bad \in SUBSET Delegate : CrashInCrystalReady(d, bad)
      BY <3>2 DEF CrashInCrystalReady
    <3>3. CASE \E bad \in SUBSET Delegate : Restart(bad)
      BY <3>3 DEF Restart
    <3>4. QED
      BY <1>4, <3>1, <3>2, <3>3
  <2>2. QED
    BY <1>2, <2>1
<1>5. ASSUME NEW d \in Delegate, Step(d) PROVE mapped' /\ Alive' /\ (InOrder' => Hopeful')
  <2>1. Active /\ restarts = 0 /\ UNCHANGED <<specs, mapped, spawning>>
    BY <1>5 DEF Step, AcquireSlot, StreamEnds, StreamFails, StreamRaises, StreamEndsCancelled,
       StreamEndsOrphaned, Finalize, CancelDelivered, Active, Returns, Cleanup, FailedAfterCancel,
       memory, bounds, CoreInv, CancellingIsLate
  <2>2. task[d] \in {"queued", "streaming"} => status[d] \in {"running", "stalled"}
    BY <2>1 DEF CoreInv, TaskMatchesStatus
  <2>3. CASE AcquireSlot(d)
    BY <2>1, <2>3, QuietStepsWait DEF AcquireSlot, memory
  <2>4. CASE StreamEnds(d)
    BY <1>1, <2>1, <2>2, <2>4, CrystalReadyWaits DEF StreamEnds, TaskState
  <2>5. CASE StreamFails(d) \/ StreamRaises(d)
    <3>1. CASE DelegateFailed(d)
      BY <1>1, <2>1, <2>2, <2>5, <3>1, DelegateFailedWaits DEF StreamFails, StreamRaises
    <3>2. CASE Rescue(d)
      BY <2>1, <2>2, <2>5, <3>2, StillUnderwayWaits DEF Rescue, StreamFails, StreamRaises
    <3>3. QED
      BY <2>5, <3>1, <3>2 DEF StreamFails, StreamRaises
  <2>6. ~(StreamEndsCancelled(d) \/ StreamEndsOrphaned(d) \/ Finalize(d) \/ CancelDelivered(d))
    BY <2>1 DEF StreamEndsCancelled, StreamEndsOrphaned, Finalize, CancelDelivered, Active, Cleanup,
       CoreInv, CancellingIsLate
  <2>7. QED
    BY <1>5, <2>3, <2>4, <2>5, <2>6 DEF Step
<1>6. ASSUME NEW d \in Delegate, SpawnDynamic(d) PROVE mapped' /\ Alive' /\ (InOrder' => Hopeful')
  <2>1. Active /\ restarts = 0
    BY <1>6 DEF SpawnDynamic, Active, memory, bounds
  <2>2. QED
    BY <1>1, <1>6, <2>1, SpawnWaits
<1>7. ASSUME NEW d \in Delegate, CrystalWriteRaises(d) \/ SynthesisRaises(d)
      PROVE  mapped' /\ Alive' /\ (InOrder' => Hopeful')
  <2>1. Active /\ restarts = 0 /\ UNCHANGED <<specs, mapped, spawning>>
    BY <1>7 DEF CrystalWriteRaises, SynthesisRaises, Active, Returns, FailedAfterCancel, bounds
  <2>2. task[d] # "none" /\ status[d] # "absent"
    BY <1>7, <2>1 DEF CrystalWriteRaises, SynthesisRaises, CoreInv, TaskMatchesStatus, Active
  <2>3. CASE DelegateFailed(d)
    BY <1>1, <2>1, <2>2, <2>3, DelegateFailedWaits
  <2>4. CASE Rescue(d)
    BY <2>1, <2>2, <2>4, StillUnderwayWaits DEF Rescue
  <2>5. CASE task[d] = "promoting" /\ Returns(d)
    <3>1. status[d] = "crystal"
      BY <2>1, <2>5 DEF CoreInv, TaskMatchesStatus
    <3>2. QED
      BY <2>1, <2>5, <3>1, QuietStepsWait DEF Returns
  <2>6. QED
    BY <1>7, <2>1, <2>3, <2>4, <2>5 DEF CrystalWriteRaises, SynthesisRaises, Active
<1>8. ASSUME NEW d \in Delegate, Request(d) PROVE mapped' /\ Alive' /\ (InOrder' => Hopeful')
  <2>1. Active /\ restarts = 0
    BY <1>8 DEF Request, Retry, Promote, MarkStalled, RequestDelegate, CrystalReady, Active, bounds,
       CoreInv, MappedIsActive
  <2>2. CASE Retry(d)
    BY <1>1, <2>1, <2>2, RetryWaits
  <2>3. CASE Promote(d)
    BY <1>1, <2>1, <2>3, CrystalReadyWaits DEF Promote, Retryable, TaskState
  <2>4. CASE MarkStalled(d)
    BY <2>1, <2>4, StillUnderwayWaits DEF MarkStalled
  <2>5. CASE \E ds \in SUBSET Delegate : RequestDelegate(d, ds)
    BY <2>1, <2>5, RequestWaits
  <2>6. QED
    BY <1>8, <2>2, <2>3, <2>4, <2>5 DEF Request
<1>9. CASE Cancel \/ Evict \/ UNCHANGED vars
  <2>1. Active /\ restarts = 0 /\ UNCHANGED vars
    BY <1>9 DEF Cancel, Evict, Cleanup, Active, vars, memory, bounds
  <2>2. 1 \in Delegate
    BY BoundsAssumption DEF Delegate
  <2>3. QED
    BY <2>1, <2>2, QuietStepsWait DEF vars, memory
<1>10. QED
  BY <1>3, <1>4, <1>5, <1>6, <1>7, <1>8, <1>9 DEF Next, Fault, PreambleRaises, PreambleReturns

LEMMA Least ==
    ASSUME NEW S \in SUBSET Nat, S # {}
    PROVE  \E m \in S : \A x \in S : m <= x
<1> DEFINE R == OpToRel(<, Nat)
<1>1. IsWellFoundedOn(R, Nat)
  BY NatLessThanWellFounded
<1>2. \A m, x \in Nat : x < m => <<x, m>> \in R
  BY DEF OpToRel
<1> HIDE DEF R
<1>3. PICK m \in S : \A x \in S : <<x, m>> \notin R
  BY <1>1, WFMin
<1>4. ASSUME NEW x \in S PROVE m <= x
  <2>1. x \in Nat /\ m \in Nat
    OBVIOUS
  <2>2. ~(x < m)
    BY <1>2, <1>3, <2>1
  <2>3. QED
    BY <2>1, <2>2
<1>5. QED
  BY <1>4

(* The first delegate that has not settled is not waiting for another. *)
LEMMA SomeoneGoesOn == CoreInv /\ WaitInv => NeverStuck
<1> SUFFICES ASSUME CoreInv, WaitInv, Active, restarts = 0, InOrder,
                    NEW f \in Delegate, status[f] \notin Settled
             PROVE  \E d \in Delegate : CanGoOn(d)
  BY DEF NeverStuck
<1> DEFINE Open == {d \in Delegate : status[d] \notin Settled}
<1>1. TypeOK /\ Alive /\ Hopeful /\ cancelling = {} /\ Delegate \subseteq Nat
  BY BoundsAssumption DEF CoreInv, WaitInv, CancellingIsLate, Delegate
<1>2. PICK m \in Open : \A x \in Open : m <= x
  <2>1. Open \in SUBSET Nat /\ Open # {}
    BY <1>1
  <2> HIDE DEF Open
  <2>2. QED
    BY <2>1, Least
<1>3. m \in Delegate /\ status[m] \in Underway
  BY <1>1, <1>2 DEF Alive
<1>4. CASE m \in spawning
  BY <1>3, <1>4 DEF CanGoOn
<1>5. CASE \E d \in Delegate : task[d] = "streaming"
  BY <1>1, <1>5 DEF CanGoOn
<1>6. CASE task[m] = "queued" /\ m \notin spawning /\ ~\E d \in Delegate : task[d] = "streaming"
  <2>1. Streaming = {}
    BY <1>6 DEF Streaming
  <2>2. Cardinality(Streaming) < MaxConcurrency
    BY <2>1, FS_EmptySet, BoundsAssumption
  <2>3. QED
    BY <1>1, <1>3, <1>6, <2>2 DEF CanGoOn
<1>7. CASE status[m] = "proposed" /\ m \notin spawning
  <2>1. PICK e \in deps[m] : status[e] \in Underway
    BY <1>1, <1>3, <1>7 DEF Hopeful
  <2>2. m \in 1 .. size
    <3>1. ~(m > size) /\ size \in 0 .. MaxDelegates
      BY <1>1, <1>3, <1>7 DEF CoreInv, BeyondSizeAbsent, TypeOK
    <3>2. QED
      BY <1>3, <3>1, BoundsAssumption DEF Delegate
  <2>3. e < m /\ e \in Delegate
    BY <1>1, <1>3, <2>1, <2>2 DEF InOrder, TypeOK
  <2>4. e \in Open
    BY <2>1, <2>3 DEF Underway, Settled
  <2>5. QED
    BY <1>1, <1>2, <1>3, <2>3, <2>4
<1>8. QED
  BY <1>1, <1>3, <1>4, <1>5, <1>6, <1>7 DEF Alive, Underway

(* However few slots there are and whatever is retried, promoted, rescued,    *)
(* failed in a cascade or requested on the way, a plan in order is never      *)
(* stuck with a delegate that nobody will look at again.                      *)
THEOREM NeverStuckAlways == ASSUME PreambleReturns PROVE Spec => []NeverStuck
<1>1. Init => WaitInv
  BY DEF Init, WaitInv, Active
<1>2. CoreInv /\ WaitInv /\ [Next]_vars => WaitInv'
  BY WaitInvNext
<1>3. QED
  BY <1>1, <1>2, CoreInvHolds, SomeoneGoesOn, PTL DEF Spec

-----------------------------------------------------------------------------
(* Who declares.  Only on_crystal_ready looks for the end of a plan, once per *)
(* crystal, so the last one must find it: nobody would look again.            *)
Delivered == (\E d \in Delegate : status[d] # "absent") /\ AllDelivered(status)

(* Before any restart a plan with nothing but crystals has been declared complete *)
(* and its synthesis, which ends with the announcement, is under way.             *)
DeliveredIsDeclared ==
    Active /\ restarts = 0 /\ Delivered => planStatus = "completed" /\ Closing

(* A resolve delivers nothing, and after the last delivery does nothing. *)
LEMMA ResolveDeliversNothing ==
    ASSUME NEW s \in [Delegate -> DelegateStatus], NEW rn \in SUBSET Delegate,
           NEW reg \in SUBSET Delegate, NEW tk \in [Delegate -> TaskState],
           NEW ds \in [Delegate -> ChatStatus],
           ResolveAndStart(s, rn, reg, tk, ds), AllDelivered(status')
    PROVE  AllDelivered(s) /\ \A d \in Delegate : status'[d] = s[d] /\ task'[d] = tk[d]
<1>1. Resolved(s, rn, tk, ds)
  BY ResolveFacts
<1>2. ASSUME NEW d \in Delegate
      PROVE  s[d] \in {"crystal", "absent"} /\ status'[d] = s[d] /\ task'[d] = tk[d]
  BY <1>1 DEF Resolved, AllDelivered
<1>3. QED
  BY <1>2 DEF AllDelivered

(* A crystal that is the last declares the plan; another one leaves it open. *)
LEMMA CrystalReadyDeclares ==
    ASSUME CoreInv, NEW d \in Delegate, NEW pc \in {"finalizing", "promoting"},
           CrystalReady(d, pc), Delivered'
    PROVE  planStatus' = "completed" /\ Closing'
<1> DEFINE s == [status EXCEPT ![d] = "crystal"]
           ds == Patched(diskStatus, d, "crystal")
           tk == [task EXCEPT ![d] = "none"]
<1>1. /\ s \in [Delegate -> DelegateStatus] /\ ds \in [Delegate -> ChatStatus]
      /\ tk \in [Delegate -> TaskState] /\ TypeOK /\ s[d] = "crystal"
      /\ running \ {d} \in SUBSET Delegate /\ registered \ {d} \in SUBSET Delegate
  BY DEF CoreInv, TypeOK, DelegateStatus, ChatStatus, TaskState, Patched
<1>2. CASE Complete(s)
  <2>1. /\ status' = s /\ task' = [task EXCEPT ![d] = pc]
        /\ planStatus' = IF \E e \in Delegate : s[e] = "failed"
                         THEN "completed_partial" ELSE "completed"
    BY <1>2 DEF CrystalReady
  <2>2. \A e \in Delegate : s[e] # "failed"
    BY <2>1 DEF Delivered, AllDelivered
  <2>3. Closing'
    BY <1>1, <2>1 DEF Closing, TypeOK
  <2>4. QED
    BY <2>1, <2>2, <2>3
<1>3. CASE ~Complete(s)
  <2>1. ResolveAndStart(s, running \ {d}, registered \ {d}, tk, ds)
    BY <1>3 DEF CrystalReady
  <2> HIDE DEF s, ds, tk
  <2>2. AllDelivered(s)
    BY <1>1, <2>1, ResolveDeliversNothing DEF Delivered
  <2>3. QED
    BY <1>1, <1>3, <2>2 DEF Complete, AllDelivered, Terminal
<1>4. QED
  BY <1>2, <1>3

(* Who fails is not delivered. *)
LEMMA FailedIsUndelivered ==
    ASSUME CoreInv, NEW d \in Delegate, DelegateFailed(d)
    PROVE  ~AllDelivered(status')
<1> DEFINE s == [status EXCEPT ![d] = "failed"]
           ds == Patched(diskStatus, d, "failed")
           tk == [task EXCEPT ![d] = "none"]
<1>1. /\ s \in [Delegate -> DelegateStatus] /\ ds \in [Delegate -> ChatStatus]
      /\ tk \in [Delegate -> TaskState] /\ s[d] = "failed"
      /\ running \ {d} \in SUBSET Delegate /\ registered \ {d} \in SUBSET Delegate
  BY DEF CoreInv, TypeOK, DelegateStatus, ChatStatus, TaskState, Patched
<1>2. ResolveAndStart(s, running \ {d}, registered \ {d}, tk, ds)
  BY DEF DelegateFailed
<1> HIDE DEF s, ds, tk
<1>3. QED
  BY <1>1, <1>2, ResolveDeliversNothing DEF AllDelivered

LEMMA RetriedIsUndelivered ==
    ASSUME CoreInv, NEW d \in Delegate, Retry(d)
    PROVE  ~AllDelivered(status')
<1> DEFINE reset == {d} \union {e \in 1 .. size : d \in deps[e] /\ status[e] = "failed"}
           s == [e \in Delegate |-> IF e \in reset THEN "proposed" ELSE status[e]]
           ds == [e \in Delegate |-> IF e \in reset /\ diskStatus[e] # "none"
                                     THEN "proposed" ELSE diskStatus[e]]
<1>1. /\ s \in [Delegate -> DelegateStatus] /\ ds \in [Delegate -> ChatStatus]
      /\ s[d] = "proposed" /\ TypeOK
  BY DEF CoreInv, TypeOK, DelegateStatus, ChatStatus
<1>2. ResolveAndStart(s, running, registered, task, ds)
  BY DEF Retry
<1> HIDE DEF s, ds
<1>3. QED
  BY <1>1, <1>2, ResolveDeliversNothing DEF AllDelivered, TypeOK

(* A spawn finds a delegate to start or leaves all as it is. *)
LEMMA SpawnKeepsDeclared ==
    ASSUME CoreInv, DeliveredIsDeclared, NEW d \in Delegate, SpawnDynamic(d),
           Active, restarts = 0, Delivered'
    PROVE  planStatus' = "completed" /\ Closing'
<1> DEFINE ds == [diskStatus EXCEPT ![d] = "proposed"]
<1>1. CASE mapped
  <2>1. /\ ResolveAndStart(status, running, registered, task, ds)
        /\ planStatus' = planStatus
    BY <1>1 DEF SpawnDynamic, Active
  <2>2. TypeOK /\ ds \in [Delegate -> ChatStatus]
    BY DEF CoreInv, TypeOK, ChatStatus
  <2> HIDE DEF ds
  <2>3. AllDelivered(status) /\ \A e \in Delegate : status'[e] = status[e] /\ task'[e] = task[e]
    BY <2>1, <2>2, ResolveDeliversNothing DEF TypeOK, Delivered
  <2>4. QED
    BY <2>1, <2>3 DEF DeliveredIsDeclared, Delivered, Closing
<1>2. CASE ~mapped
  BY <1>2 DEF SpawnDynamic, memory, DeliveredIsDeclared, Delivered, AllDelivered, Closing
<1>3. QED
  BY <1>1, <1>2

LEMMA DeclaredNext ==
    ASSUME SynthesisReturns, CoreInv, DeliveredIsDeclared, [Next]_vars
    PROVE  DeliveredIsDeclared'
<1> SUFFICES ASSUME Active', restarts' = 0, Delivered'
             PROVE  planStatus' = "completed" /\ Closing'
  BY DEF DeliveredIsDeclared
<1>1. TypeOK /\ restarts \in Nat
  BY BoundsAssumption DEF CoreInv, TypeOK
<1>2. AllDelivered(status') /\ Delivered'
  BY DEF Delivered
<1>3. CASE \E g \in PlanGraphs : Launch(g)
  <2>1. PICK g \in PlanGraphs : Launch(g)
    BY <1>3
  <2>2. \A d \in Delegate : status'[d] \in {"running", "proposed", "absent"}
    BY <2>1 DEF Launch
  <2>3. QED
    BY <2>2 DEF Delivered, AllDelivered
<1>4. CASE \/ \E g \in PlanGraphs, n \in 0 .. MaxDelegates : CrashInLaunch(g, n)
           \/ \E d \in Delegate, bad \in SUBSET Delegate : CrashInCrystalReady(d, bad)
           \/ \E bad \in SUBSET Delegate : Restart(bad)
  <2>1. restarts' = restarts + 1
    <3>1. CASE \E g \in PlanGraphs, n \in 0 .. MaxDelegates : CrashInLaunch(g, n)
      BY <3>1 DEF CrashInLaunch
    <3>2. CASE \E d \in Delegate, bad \in SUBSET Delegate : CrashInCrystalReady(d, bad)
      BY <3>2 DEF CrashInCrystalReady
    <3>3. CASE \E bad \in SUBSET Delegate : Restart(bad)
      BY <3>3 DEF Restart
    <3>4. QED
      BY <1>4, <3>1, <3>2, <3>3
  <2>2. QED
    BY <1>1, <2>1
<1>5. ASSUME NEW d \in Delegate, Step(d) PROVE planStatus' = "completed" /\ Closing'
  <2>1. Active /\ restarts = 0
    BY <1>5 DEF Step, AcquireSlot, StreamEnds, StreamFails, StreamRaises, StreamEndsCancelled,
       StreamEndsOrphaned, Finalize, CancelDelivered, Active, Returns, Cleanup, FailedAfterCancel,
       memory, bounds, CoreInv, CancellingIsLate
  <2>2. CASE AcquireSlot(d)
    <3>1. /\ task[d] = "queued" /\ task' = [task EXCEPT ![d] = "streaming"]
          /\ UNCHANGED <<status, planStatus>>
      BY <2>2 DEF AcquireSlot, memory
    <3>2. planStatus = "completed" /\ Closing
      BY <2>1, <3>1 DEF DeliveredIsDeclared, Delivered, AllDelivered
    <3>3. QED
      BY <1>1, <3>1, <3>2 DEF Closing, TypeOK
  <2>3. CASE StreamEnds(d)
    BY <2>3, CrystalReadyDeclares DEF StreamEnds
  <2>4. CASE StreamFails(d) \/ StreamRaises(d)
    <3>1. ~DelegateFailed(d)
      BY <1>2, FailedIsUndelivered
    <3>2. CASE Rescue(d)
      BY <1>1, <1>2, <3>2 DEF Rescue, AllDelivered, TypeOK
    <3>3. QED
      BY <2>4, <3>1, <3>2 DEF StreamFails, StreamRaises
  <2>5. ~(StreamEndsCancelled(d) \/ StreamEndsOrphaned(d) \/ Finalize(d) \/ CancelDelivered(d))
    BY <2>1 DEF StreamEndsCancelled, StreamEndsOrphaned, Finalize, CancelDelivered, Active, Cleanup,
       CoreInv, CancellingIsLate
  <2>6. QED
    BY <1>5, <2>2, <2>3, <2>4, <2>5 DEF Step
<1>6. ASSUME NEW d \in Delegate, SpawnDynamic(d) PROVE planStatus' = "completed" /\ Closing'
  <2>1. Active /\ restarts = 0
    BY <1>6 DEF SpawnDynamic, Active, memory, bounds
  <2>2. QED
    BY <1>6, <2>1, SpawnKeepsDeclared
<1>7. ASSUME NEW d \in Delegate, PreambleRaises(d) PROVE planStatus' = "completed" /\ Closing'
  <2>1. /\ task[d] = "queued" /\ task' = [task EXCEPT ![d] = "none"]
        /\ UNCHANGED <<plan, status, planStatus, restarts>>
    BY <1>7 DEF PreambleRaises, Returns, bounds
  <2>2. planStatus = "completed" /\ Closing
    BY <2>1 DEF DeliveredIsDeclared, Delivered, AllDelivered, Active
  <2>3. QED
    BY <1>1, <2>1, <2>2 DEF Closing, TypeOK
<1>8. ASSUME NEW d \in Delegate, CrystalWriteRaises(d)
      PROVE  planStatus' = "completed" /\ Closing'
  <2>1. ~DelegateFailed(d)
    BY <1>2, FailedIsUndelivered
  <2>2. CASE Rescue(d)
    BY <1>1, <1>2, <2>2 DEF Rescue, AllDelivered, TypeOK
  <2>3. QED
    BY <1>8, <2>1, <2>2 DEF CrystalWriteRaises
<1>9. ASSUME NEW d \in Delegate, Request(d) PROVE planStatus' = "completed" /\ Closing'
  <2>1. CASE Retry(d)
    BY <1>2, <2>1, RetriedIsUndelivered
  <2>2. CASE Promote(d)
    BY <2>2, CrystalReadyDeclares DEF Promote
  <2>3. CASE MarkStalled(d)
    BY <1>1, <1>2, <2>3 DEF MarkStalled, AllDelivered, TypeOK
  <2>4. CASE \E ds \in SUBSET Delegate : RequestDelegate(d, ds)
    <3>1. size + 1 \in Delegate /\ status' = [status EXCEPT ![size + 1] = "proposed"]
      BY <1>1, <2>4, BoundsAssumption DEF RequestDelegate, TypeOK, Delegate
    <3>2. QED
      BY <1>1, <1>2, <3>1 DEF AllDelivered, TypeOK
  <2>5. QED
    BY <1>9, <2>1, <2>2, <2>3, <2>4 DEF Request
<1>10. CASE Cancel \/ Evict \/ UNCHANGED vars
  BY <1>10 DEF Cancel, Evict, Cleanup, Active, DeliveredIsDeclared, Delivered, AllDelivered, Closing,
     vars, memory, bounds
<1>11. QED
  BY <1>3, <1>4, <1>5, <1>6, <1>7, <1>8, <1>9, <1>10
  DEF Next, Fault, SynthesisRaises, SynthesisReturns

(* However the crystals come, from streams, stubs, rescues or retries, and     *)
(* whichever is the last, the plan is declared complete with it: what is left  *)
(* open (section 5 of the README) is a plan whose last delegate fails.         *)
THEOREM DeliveredIsDeclaredAlways ==
    ASSUME SynthesisReturns PROVE Spec => []DeliveredIsDeclared
<1>1. Init => DeliveredIsDeclared
  BY DEF Init, DeliveredIsDeclared, Active
<1>2. CoreInv /\ DeliveredIsDeclared /\ [Next]_vars => DeliveredIsDeclared'
  BY DeclaredNext
<1>3. QED
  BY <1>1, <1>2, CoreInvHolds, PTL DEF Spec

=============================================================================
