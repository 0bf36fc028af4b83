----------------------- MODULE DelegateManagerProofs -----------------------
(* Theorems about DelegateManager for any number of delegates, any plan      *)
(* graph and any bounds.                                                     *)
EXTENDS DelegateManager, TLAPS

(* What _resolve_and_start does to the statuses, the tasks and the chats it
   is given: a delegate that is not proposed is left alone, a proposed one is
   started, failed, skipped as still registered or left proposed, and it is
   left proposed only if it was not startable.                               *)
Resolved(s, rn, tk, ds) ==
    \A d \in Delegate :
        \/ /\ status'[d] = s[d]
           /\ task'[d] = tk[d]
           /\ diskStatus'[d] = ds[d]
           /\ s[d] = "proposed" => d \notin Startable(s)
           /\ d \in running' <=> d \in rn
        \/ /\ s[d] = "proposed" /\ d \in rn
           /\ status'[d] = "ready"
           /\ task'[d] = tk[d]
           /\ diskStatus'[d] = ds[d]
           /\ d \in running'
        \/ /\ s[d] = "proposed" /\ d \in Startable(s) /\ d \notin rn
           /\ status'[d] = "running"
           /\ task'[d] = "queued"
           /\ diskStatus'[d] = IF ds[d] = "none" THEN "none" ELSE "running"
           /\ d \in running'
        \/ /\ s[d] = "proposed" /\ d \notin Startable(s)
           /\ status'[d] = "failed"
           /\ task'[d] = tk[d]
           /\ diskStatus'[d] = IF ds[d] = "none" THEN "none" ELSE "failed"
           /\ d \in running' <=> d \in rn

LEMMA ResolveFacts ==
    ASSUME NEW s \in [Delegate -> DelegateStatus], NEW rn \in SUBSET Delegate,
           NEW reg \in SUBSET Delegate, NEW tk \in [Delegate -> TaskState],
           NEW ds \in [Delegate -> ChatStatus],
           ResolveAndStart(s, rn, reg, tk, ds)
    PROVE  /\ status' \in [Delegate -> DelegateStatus]
           /\ running' \in SUBSET Delegate
           /\ registered' \in SUBSET Delegate
           /\ task' \in [Delegate -> TaskState]
           /\ diskStatus' \in [Delegate -> ChatStatus]
           /\ Resolved(s, rn, tk, ds)
<1>1. PICK F \in SUBSET Delegate :
         LET start == ToStart(s, rn)
             settle(old, run, fail, d) ==
                 IF d \in start THEN run ELSE IF d \in F THEN fail ELSE old
         IN /\ IsCascade(s, F)
            /\ status' = [d \in Delegate |->
                  IF d \in Startable(s) /\ d \in rn THEN "ready"
                  ELSE settle(s[d], "running", "failed", d)]
            /\ running' = rn \union start
            /\ registered' = reg \union start
            /\ task' = [d \in Delegate |-> settle(tk[d], "queued", tk[d], d)]
            /\ diskStatus' = [d \in Delegate |->
                  IF ds[d] = "none" THEN "none" ELSE settle(ds[d], "running", "failed", d)]
  BY DEF ResolveAndStart
<1>2. \A d \in Delegate : d \in F => s[d] = "proposed"
  BY <1>1 DEF IsCascade
<1>3. Startable(s) \subseteq {d \in Delegate : s[d] = "proposed"}
  BY DEF Startable
<1>4. \A d \in Delegate : d \in F => d \notin Startable(s)
  \* a delegate of the cascade sees a failed dependency before it
  <2> SUFFICES ASSUME NEW d \in F, d \in Startable(s) PROVE FALSE
    OBVIOUS
  <2>1. PICK e \in deps[d] : s[e] = "failed" \/ (e < d /\ e \in F)
    BY <1>1 DEF IsCascade
  <2>2. s[e] \in Satisfied
    BY <2>1 DEF Startable
  <2>3. QED
    BY <2>1, <2>2, <1>2, <1>1 DEF Satisfied
<1>5. status' \in [Delegate -> DelegateStatus] /\ diskStatus' \in [Delegate -> ChatStatus]
  BY <1>1 DEF DelegateStatus, ChatStatus
<1>6. task' \in [Delegate -> TaskState] /\ running' \in SUBSET Delegate
        /\ registered' \in SUBSET Delegate
  BY <1>1, <1>3 DEF TaskState, ToStart
<1>7. QED
  BY <1>1, <1>2, <1>3, <1>4, <1>5, <1>6 DEF Resolved, ToStart

-----------------------------------------------------------------------------
(* The inductive invariant behind type correctness, TaskMatchesStatus and    *)
(* CrystalStored.                                                            *)

(* Whatever is registered as running is running. *)
RegistryMatches ==
    Active => \A d \in running : status[d] \in {"running", "stalled"}

(* A CancelledError is pending only for a plan that is cancelled or gone. *)
CancellingIsLate == Active => cancelling = {}

(* The routes reach a plan in memory only while it is not cancelled, and a   *)
(* plan cancelled on disk is not active.                                     *)
MappedIsActive == mapped /\ plan = "live" => planStatus # "cancelled"
CancelledOnDisk == diskPlan = "cancelled" => plan # "none" /\ ~Active

(* Nothing is recorded of a delegate beyond the specs of the plan. *)
BeyondSizeAbsent ==
    \A d \in Delegate : d > size =>
        status[d] = "absent" /\ diskStatus[d] = "none" /\ task[d] = "none"
EmptyBefore == plan = "none" => size = 0
PendingInPlan == \A d \in spawning \union cancelling : d <= size

CoreInv ==
    /\ TypeOK
    /\ TaskMatchesStatus
    /\ CrystalStored
    /\ RegistryMatches
    /\ CancellingIsLate
    /\ MappedIsActive
    /\ CancelledOnDisk
    /\ BeyondSizeAbsent
    /\ PendingInPlan
    /\ EmptyBefore

(* The same of explicit values, as they are between two calls of a handler. *)
Consistent(s, rn, tk, cr, ds, n) ==
    \A d \in Delegate :
        /\ tk[d] \in {"queued", "streaming"} => s[d] \in {"running", "stalled"}
        /\ tk[d] \in {"finalizing", "promoting"} => s[d] = "crystal"
        /\ d \in rn => s[d] \in {"running", "stalled"}
        /\ s[d] = "crystal" => d \in cr
        /\ s[d] = "crystal_degraded" => d \notin cr
        /\ d > n => s[d] = "absent" /\ ds[d] = "none" /\ tk[d] = "none"

(* The conjuncts of the type invariant that _resolve_and_start leaves alone. *)
PlanTyped ==
    /\ plan \in {"none", "live", "gone"}
    /\ planStatus \in PlanStatus
    /\ size \in 0 .. MaxDelegates
    /\ deps \in [Delegate -> SUBSET Delegate]
    /\ dynamic \subseteq Delegate
    /\ crystals \subseteq Delegate
    /\ rescued \subseteq Delegate
    /\ mapped \in BOOLEAN
    /\ cancelling \subseteq Delegate
    /\ spawning \subseteq Delegate
    /\ diskPlan \in PlanStatus
    /\ announced \in BOOLEAN
    /\ repairs \in 0 .. MaxRepairs
    /\ restarts \in 0 .. MaxRestarts

(* The conjuncts of CoreInv about the plan rather than its delegates. *)
PlanInv == CancellingIsLate /\ MappedIsActive /\ CancelledOnDisk /\ PendingInPlan
           /\ EmptyBefore

LEMMA ActiveIsConsistent ==
    CoreInv /\ Active => Consistent(status, running, task, crystals, diskStatus, size)
BY DEF CoreInv, Active, Consistent, TaskMatchesStatus, CrystalStored, RegistryMatches,
   BeyondSizeAbsent

(* _resolve_and_start keeps the values consistent: it starts and fails only
   proposed delegates, which have no coroutine.                              *)
LEMMA ResolveKeepsConsistent ==
    ASSUME NEW s \in [Delegate -> DelegateStatus], NEW rn \in SUBSET Delegate,
           NEW reg \in SUBSET Delegate, NEW tk \in [Delegate -> TaskState],
           NEW ds \in [Delegate -> ChatStatus], NEW cr, NEW n \in Nat,
           Consistent(s, rn, tk, cr, ds, n),
           ResolveAndStart(s, rn, reg, tk, ds)
    PROVE  Consistent(status', running', task', cr, diskStatus', n)
<1> SUFFICES ASSUME NEW d \in Delegate
             PROVE /\ task'[d] \in {"queued", "streaming"} => status'[d] \in {"running", "stalled"}
                   /\ task'[d] \in {"finalizing", "promoting"} => status'[d] = "crystal"
                   /\ d \in running' => status'[d] \in {"running", "stalled"}
                   /\ status'[d] = "crystal" => d \in cr
                   /\ status'[d] = "crystal_degraded" => d \notin cr
                   /\ d > n => status'[d] = "absent" /\ diskStatus'[d] = "none"
                                   /\ task'[d] = "none"
  BY DEF Consistent
<1>1. /\ tk[d] \in {"queued", "streaming"} => s[d] \in {"running", "stalled"}
      /\ tk[d] \in {"finalizing", "promoting"} => s[d] = "crystal"
      /\ d \in rn => s[d] \in {"running", "stalled"}
      /\ s[d] = "crystal" => d \in cr
      /\ s[d] = "crystal_degraded" => d \notin cr
      /\ d > n => s[d] = "absent" /\ ds[d] = "none" /\ tk[d] = "none"
  BY DEF Consistent
<1>2. \/ status'[d] = s[d] /\ task'[d] = tk[d] /\ diskStatus'[d] = ds[d]
            /\ (d \in running' <=> d \in rn)
      \/ s[d] = "proposed" /\ d \notin rn /\ task'[d] = "queued"
            /\ status'[d] = "running"
      \/ s[d] = "proposed" /\ task'[d] = tk[d] /\ status'[d] = "failed"
            /\ (d \in running' <=> d \in rn)
  \* a registered delegate is not proposed
  <2>1. Resolved(s, rn, tk, ds)
    BY ResolveFacts
  <2>2. QED
    BY <1>1, <2>1 DEF Resolved
<1>3. tk[d] \in TaskState
  OBVIOUS
<1>4. QED
  BY <1>1, <1>2, <1>3 DEF TaskState

(* Values consistent in the next state make the next state satisfy CoreInv.  *)
LEMMA ConsistentIsCore ==
    ASSUME TypeOK', Consistent(status', running', task', crystals', diskStatus', size'),
           PlanInv'
    PROVE  CoreInv'
<1>1. TaskMatchesStatus'
  BY DEF Consistent, TaskMatchesStatus
<1>2. CrystalStored'
  BY DEF Consistent, CrystalStored
<1>3. RegistryMatches'
  BY DEF Consistent, RegistryMatches, TypeOK
<1>4. BeyondSizeAbsent'
  BY DEF Consistent, BeyondSizeAbsent
<1>5. QED
  BY <1>1, <1>2, <1>3, <1>4 DEF CoreInv, PlanInv

(* A handler that resolves from consistent values ends in CoreInv.           *)
LEMMA ResolveIsCore ==
    ASSUME NEW s \in [Delegate -> DelegateStatus], NEW rn \in SUBSET Delegate,
           NEW reg \in SUBSET Delegate, NEW tk \in [Delegate -> TaskState],
           NEW ds \in [Delegate -> ChatStatus],
           ResolveAndStart(s, rn, reg, tk, ds),
           PlanTyped', PlanInv',
           Consistent(s, rn, tk, crystals', ds, size')
    PROVE  CoreInv'
<1>1. Consistent(status', running', task', crystals', diskStatus', size')
  <2>1. size' \in Nat
    BY BoundsAssumption DEF PlanTyped
  <2>2. QED
    BY <2>1, ResolveKeepsConsistent
<1>2. TypeOK'
  BY ResolveFacts DEF PlanTyped, TypeOK
<1>3. QED
  BY <1>1, <1>2, ConsistentIsCore

LEMMA CoreInvInit == Init => CoreInv
<1> SUFFICES ASSUME Init PROVE CoreInv
  OBVIOUS
<1>1. TypeOK
  <2>1. 0 \in 0 .. MaxDelegates /\ 0 \in 0 .. MaxRepairs /\ 0 \in 0 .. MaxRestarts
    BY BoundsAssumption
  <2>2. QED
    BY <2>1 DEF Init, TypeOK, Delegate, PlanStatus, DelegateStatus, ChatStatus, TaskState
<1>2. TaskMatchesStatus /\ CrystalStored /\ RegistryMatches /\ CancellingIsLate
  BY DEF Init, TaskMatchesStatus, CrystalStored, RegistryMatches, CancellingIsLate, Active
<1>3. MappedIsActive /\ CancelledOnDisk /\ BeyondSizeAbsent /\ PendingInPlan /\ EmptyBefore
  BY DEF Init, MappedIsActive, CancelledOnDisk, BeyondSizeAbsent, PendingInPlan, EmptyBefore, Active
<1>4. QED
  BY <1>1, <1>2, <1>3 DEF CoreInv

(* The last step of a handler that does not resolve. *)
LEMMA StepsWithoutResolve ==
    ASSUME CoreInv, NEW d \in Delegate,
           \/ AcquireSlot(d) \/ PreambleRaises(d) \/ StreamEndsOrphaned(d) \/ Finalize(d)
           \/ MarkStalled(d) \/ Cancel \/ Evict \/ UNCHANGED vars
    PROVE  CoreInv'
<1> USE DEF CoreInv, TypeOK, TaskMatchesStatus, CrystalStored, RegistryMatches, CancellingIsLate,
            MappedIsActive, CancelledOnDisk, BeyondSizeAbsent, PendingInPlan, EmptyBefore,
            Active, memory, specs, disk, bounds, DelegateStatus, TaskState, PlanStatus
<1>1. CASE AcquireSlot(d)
  BY <1>1 DEF AcquireSlot
<1>2. CASE PreambleRaises(d)
  BY <1>2 DEF PreambleRaises, Returns
<1>3. CASE StreamEndsOrphaned(d)
  BY <1>3 DEF StreamEndsOrphaned, Returns
<1>4. CASE Finalize(d)
  BY <1>4 DEF Finalize, Returns, Cleanup
<1>5. CASE MarkStalled(d)
  BY <1>5 DEF MarkStalled
<1>6. CASE Cancel
  <2>1. PendingInPlan'
    BY <1>6, BoundsAssumption DEF Cancel, Delegate
  <2>2. QED
    BY <1>6, <2>1 DEF Cancel
<1>7. CASE Evict
  BY <1>7 DEF Evict, Cleanup
<1>8. CASE UNCHANGED vars
  BY <1>8 DEF vars
<1>9. QED
  BY <1>1, <1>2, <1>3, <1>4, <1>5, <1>6, <1>7, <1>8

LEMMA LaunchKeepsCore ==
    ASSUME CoreInv, NEW g \in PlanGraphs, Launch(g)
    PROVE  CoreInv'
<1>1. g.size \in Delegate /\ g.deps \in [Delegate -> SUBSET Delegate]
  BY GraphsAssumption
<1>2. TypeOK'
  BY <1>1, BoundsAssumption DEF CoreInv, TypeOK, Launch, Delegate, bounds, DelegateStatus,
     ChatStatus, TaskState, PlanStatus
<1>3. PlanInv'
  <2>1. spawning = {} /\ cancelling = {}
    BY BoundsAssumption DEF CoreInv, TypeOK, EmptyBefore, PendingInPlan, Launch, Delegate
  <2>2. QED
    BY <2>1 DEF PlanInv, CancellingIsLate, MappedIsActive, CancelledOnDisk, PendingInPlan,
       EmptyBefore, Launch
<1>4. Consistent(status', running', task', crystals', diskStatus', size')
  BY <1>1, <1>2 DEF Consistent, Launch, Delegate
<1>5. QED
  BY <1>2, <1>3, <1>4, ConsistentIsCore

(* The handlers that end in a resolve, from an active plan. *)
LEMMA CrystalReadyKeepsCore ==
    ASSUME CoreInv, NEW d \in Delegate, Active, ~(d > size), NEW pc \in TaskState,
           pc \in {"finalizing", "promoting"},
           CrystalReady(d, pc), UNCHANGED <<specs, cancelling, spawning, mapped>>,
           announced' \in BOOLEAN, repairs' \in 0 .. MaxRepairs, restarts' \in 0 .. MaxRestarts
    PROVE  CoreInv'
<1> DEFINE s == [status EXCEPT ![d] = "crystal"]
           ds == Patched(diskStatus, d, "crystal")
           rn == running \ {d}
<1>1. s \in [Delegate -> DelegateStatus] /\ ds \in [Delegate -> ChatStatus]
         /\ rn \in SUBSET Delegate
  BY DEF CoreInv, TypeOK, DelegateStatus, ChatStatus, Patched
<1>2. PlanInv'
  BY DEF CoreInv, PlanInv, CancellingIsLate, MappedIsActive, CancelledOnDisk, PendingInPlan,
     EmptyBefore, CrystalReady, Active, TypeOK, PlanStatus, specs
<1>3. PlanTyped'
  BY DEF CoreInv, TypeOK, PlanTyped, CrystalReady, PlanStatus, specs
<1>4. Consistent(s, rn, [task EXCEPT ![d] = "none"], crystals', ds, size')
        /\ Consistent(s, rn, [task EXCEPT ![d] = pc], crystals', ds, size')
  <2>1. Consistent(status, running, task, crystals, diskStatus, size)
    BY ActiveIsConsistent
  <2>2. crystals' = crystals \union {d} /\ size' = size
    BY DEF CrystalReady, specs
  <2>3. QED
    BY <2>1, <2>2 DEF Consistent, Patched, CoreInv, TypeOK
<1>5. CASE Complete(s)
  <2>1. /\ status' = s /\ running' = rn /\ task' = [task EXCEPT ![d] = pc]
        /\ diskStatus' = ds /\ UNCHANGED registered
    BY <1>5 DEF CrystalReady
  <2>2. TypeOK'
    BY <1>1, <1>3, <2>1 DEF CoreInv, TypeOK, PlanTyped
  <2>3. QED
    BY <1>2, <1>4, <2>1, <2>2, ConsistentIsCore
<1>6. CASE ~Complete(s)
  <2>1. ResolveAndStart(s, rn, registered \ {d}, [task EXCEPT ![d] = "none"], ds)
    BY <1>6 DEF CrystalReady
  <2>2. registered \ {d} \in SUBSET Delegate
          /\ [task EXCEPT ![d] = "none"] \in [Delegate -> TaskState]
    BY DEF CoreInv, TypeOK, TaskState
  <2>3. QED
    BY <1>1, <1>2, <1>3, <1>4, <2>1, <2>2, ResolveIsCore
<1>7. QED
  BY <1>5, <1>6

LEMMA DelegateFailedKeepsCore ==
    ASSUME CoreInv, NEW d \in Delegate, Active, ~(d > size), DelegateFailed(d),
           crystals' = crystals \/ crystals' = crystals \union {d},
           UNCHANGED <<specs, mapped, cancelling, spawning, announced, bounds>>
    PROVE  CoreInv'
<1> DEFINE s == [status EXCEPT ![d] = "failed"]
           tk == [task EXCEPT ![d] = "none"]
           ds == Patched(diskStatus, d, "failed")
<1>1. s \in [Delegate -> DelegateStatus] /\ ds \in [Delegate -> ChatStatus]
         /\ tk \in [Delegate -> TaskState]
  BY DEF CoreInv, TypeOK, DelegateStatus, ChatStatus, TaskState, Patched
<1>2. running \ {d} \in SUBSET Delegate /\ registered \ {d} \in SUBSET Delegate
  BY DEF CoreInv, TypeOK
<1>3. PlanInv'
  BY DEF CoreInv, PlanInv, CancellingIsLate, MappedIsActive, CancelledOnDisk, PendingInPlan,
     EmptyBefore, DelegateFailed, Active, specs
<1>4. PlanTyped'
  BY DEF CoreInv, TypeOK, PlanTyped, DelegateFailed, specs, bounds
<1>5. Consistent(s, running \ {d}, tk, crystals', ds, size')
  <2>1. Consistent(status, running, task, crystals, diskStatus, size) /\ size' = size
    BY ActiveIsConsistent DEF specs
  <2>2. QED
    BY <2>1 DEF Consistent, Patched, CoreInv, TypeOK
<1>6. QED
  BY <1>1, <1>2, <1>3, <1>4, <1>5, ResolveIsCore DEF DelegateFailed

LEMMA RescueKeepsCore ==
    ASSUME CoreInv, NEW d \in Delegate, Active, ~(d > size), Rescue(d),
           crystals' = crystals \/ crystals' = crystals \union {d},
           running' = running \/ running' = running \ {d},
           UNCHANGED <<specs, mapped, cancelling, spawning, announced, bounds>>
    PROVE  CoreInv'
<1>1. TypeOK'
  BY DEF CoreInv, TypeOK, Rescue, specs, bounds, DelegateStatus, TaskState
<1>2. PlanInv'
  BY DEF CoreInv, PlanInv, CancellingIsLate, MappedIsActive, CancelledOnDisk, PendingInPlan,
     EmptyBefore, Rescue, Active, specs
<1>3. Consistent(status', running', task', crystals', diskStatus', size')
  <2>1. Consistent(status, running, task, crystals, diskStatus, size)
    BY ActiveIsConsistent
  <2>2. QED
    BY <2>1 DEF Consistent, Rescue, CoreInv, TypeOK, specs
<1>4. QED
  BY <1>1, <1>2, <1>3, ConsistentIsCore

LEMMA FailedAfterCancelKeepsCore ==
    ASSUME CoreInv, NEW d \in Delegate, plan = "live", ~Active, ~(d > size),
           FailedAfterCancel(d),
           crystals' = crystals \/ crystals' = crystals \union {d},
           cancelling' \subseteq cancelling,
           UNCHANGED <<specs, mapped, spawning, announced, bounds>>
    PROVE  CoreInv'
<1>1. TypeOK'
  BY DEF CoreInv, TypeOK, FailedAfterCancel, specs, bounds, disk, DelegateStatus, TaskState
<1>2. ~Active'
  BY DEF FailedAfterCancel, Active
<1>3. CrystalStored'
  BY DEF CoreInv, TypeOK, CrystalStored, FailedAfterCancel
<1>4. BeyondSizeAbsent'
  BY DEF CoreInv, TypeOK, BeyondSizeAbsent, FailedAfterCancel, specs, disk
<1>5. PlanInv'
  BY <1>2 DEF CoreInv, PlanInv, CancellingIsLate, MappedIsActive, CancelledOnDisk, PendingInPlan,
     EmptyBefore, FailedAfterCancel, Active, specs, disk
<1>6. QED
  BY <1>1, <1>2, <1>3, <1>4, <1>5 DEF CoreInv, PlanInv, TaskMatchesStatus, RegistryMatches

(* The ends of a stream and of a synthesis. *)
LEMMA EndsKeepCore ==
    ASSUME CoreInv, NEW d \in Delegate,
           \/ StreamEnds(d) \/ StreamFails(d) \/ StreamRaises(d) \/ CrystalWriteRaises(d)
           \/ StreamEndsCancelled(d) \/ SynthesisRaises(d) \/ CancelDelivered(d)
    PROVE  CoreInv'
<1>1. TypeOK /\ (task[d] # "none" => ~(d > size)) /\ (d \in cancelling => ~(d > size))
  BY BoundsAssumption DEF CoreInv, BeyondSizeAbsent, PendingInPlan, TypeOK, Delegate
<1>2. CASE StreamEnds(d)
  <2>1. announced' \in BOOLEAN /\ repairs' \in 0 .. MaxRepairs /\ restarts' \in 0 .. MaxRestarts
    BY <1>1, <1>2 DEF StreamEnds, TypeOK, bounds
  <2>2. QED
    BY <1>1, <1>2, <2>1, CrystalReadyKeepsCore DEF StreamEnds, TaskState
<1>3. CASE StreamFails(d)
  BY <1>1, <1>3, DelegateFailedKeepsCore DEF StreamFails
<1>4. CASE StreamRaises(d)
  BY <1>1, <1>4, DelegateFailedKeepsCore, RescueKeepsCore DEF StreamRaises
<1>5. CASE CrystalWriteRaises(d)
  BY <1>1, <1>5, DelegateFailedKeepsCore, RescueKeepsCore DEF CrystalWriteRaises
<1>6. CASE StreamEndsCancelled(d)
  <2>1. ~Active /\ crystals' \in {crystals, crystals \union {d}} /\ cancelling' \subseteq cancelling
    BY <1>6 DEF StreamEndsCancelled, Active
  <2>2. QED
    BY <1>1, <1>6, <2>1, FailedAfterCancelKeepsCore DEF StreamEndsCancelled
<1>7. CASE SynthesisRaises(d)
  <2>1. CASE /\ task[d] = "finalizing" /\ Active /\ UNCHANGED crystals
             /\ (Rescue(d) /\ UNCHANGED running) \/ DelegateFailed(d)
    BY <1>1, <1>7, <2>1, DelegateFailedKeepsCore, RescueKeepsCore DEF SynthesisRaises
  <2>2. CASE /\ task[d] = "finalizing" /\ plan = "live" /\ planStatus = "cancelled"
             /\ FailedAfterCancel(d) /\ UNCHANGED crystals
    <3>1. ~Active /\ cancelling' \subseteq cancelling
      BY <1>7, <2>2 DEF SynthesisRaises, Active
    <3>2. QED
      BY <1>1, <1>7, <2>2, <3>1, FailedAfterCancelKeepsCore DEF SynthesisRaises
  <2>3. CASE Returns(d) /\ UNCHANGED disk
    BY <1>7, <2>3 DEF SynthesisRaises, Returns, CoreInv, TypeOK, TaskMatchesStatus,
       CrystalStored, RegistryMatches, CancellingIsLate, MappedIsActive, CancelledOnDisk,
       BeyondSizeAbsent, PendingInPlan, EmptyBefore, Active, specs, disk, bounds, TaskState
  <2>4. QED
    BY <1>7, <2>1, <2>2, <2>3 DEF SynthesisRaises
<1>8. CASE CancelDelivered(d)
  <2>1. CASE plan = "live" /\ FailedAfterCancel(d) /\ UNCHANGED crystals
    <3>1. ~Active /\ cancelling' \subseteq cancelling
      BY <1>8 DEF CancelDelivered, CoreInv, CancellingIsLate
    <3>2. QED
      BY <1>1, <1>8, <2>1, <3>1, FailedAfterCancelKeepsCore DEF CancelDelivered
  <2>2. CASE Returns(d) /\ UNCHANGED disk
    BY <1>8, <2>2 DEF CancelDelivered, Returns, CoreInv, TypeOK, TaskMatchesStatus,
       CrystalStored, RegistryMatches, CancellingIsLate, MappedIsActive, CancelledOnDisk,
       BeyondSizeAbsent, PendingInPlan, EmptyBefore, Active, specs, disk, bounds, TaskState
  <2>3. QED
    BY <1>8, <2>1, <2>2 DEF CancelDelivered
<1>9. QED
  BY <1>2, <1>3, <1>4, <1>5, <1>6, <1>7, <1>8

(* The recovery calls find the plan active. *)
LEMMA RetryKeepsCore ==
    ASSUME CoreInv, NEW d \in Delegate, Retry(d)
    PROVE  CoreInv'
<1> DEFINE reset == {d} \union {e \in 1 .. size : d \in deps[e] /\ status[e] = "failed"}
           s == [e \in Delegate |-> IF e \in reset THEN "proposed" ELSE status[e]]
           ds == [e \in Delegate |-> IF e \in reset /\ diskStatus[e] # "none"
                                     THEN "proposed" ELSE diskStatus[e]]
<1>1. Active
  BY DEF CoreInv, MappedIsActive, Retry, Active
<1>2. s \in [Delegate -> DelegateStatus] /\ ds \in [Delegate -> ChatStatus]
  BY DEF CoreInv, TypeOK, DelegateStatus, ChatStatus
<1>3. PlanInv'
  BY <1>1 DEF CoreInv, PlanInv, CancellingIsLate, MappedIsActive, CancelledOnDisk, PendingInPlan,
     EmptyBefore, Retry, Active, specs
<1>4. PlanTyped'
  BY BoundsAssumption DEF CoreInv, TypeOK, PlanTyped, Retry, specs, PlanStatus
<1>5. Consistent(s, running, task, crystals', ds, size')
  <2>1. /\ Consistent(status, running, task, crystals, diskStatus, size)
        /\ size' = size /\ crystals' = crystals
    BY <1>1, ActiveIsConsistent DEF Retry, specs
  <2>2. \A e \in Delegate : e \in reset => status[e] \in Retryable
    BY DEF Retry, Retryable
  <2> HIDE DEF reset
  <2>3. QED
    BY <2>1, <2>2 DEF Consistent, CoreInv, TypeOK, TaskState, Retryable
<1>6. ResolveAndStart(s, running, registered, task, ds)
  BY DEF Retry
<1>7. QED
  BY <1>2, <1>3, <1>4, <1>5, <1>6, ResolveIsCore DEF CoreInv, TypeOK

LEMMA PromoteKeepsCore ==
    ASSUME CoreInv, NEW d \in Delegate, Promote(d)
    PROVE  CoreInv'
<1>1. Active /\ ~(d > size)
  BY DEF CoreInv, MappedIsActive, BeyondSizeAbsent, Promote, Active, Retryable
<1>2. announced' \in BOOLEAN /\ repairs' \in 0 .. MaxRepairs /\ restarts' \in 0 .. MaxRestarts
  BY BoundsAssumption DEF CoreInv, TypeOK, Promote
<1>3. QED
  BY <1>1, <1>2, CrystalReadyKeepsCore DEF Promote, TaskState

LEMMA RequestKeepsCore ==
    ASSUME CoreInv, NEW d \in Delegate, NEW ds \in SUBSET Delegate, RequestDelegate(d, ds)
    PROVE  CoreInv'
<1>1. size' \in Delegate /\ size' = size + 1 /\ size \in Nat
  BY BoundsAssumption DEF CoreInv, TypeOK, RequestDelegate, Delegate
<1>2. status[size'] = "absent" /\ diskStatus[size'] = "none" /\ task[size'] = "none"
  BY <1>1 DEF CoreInv, BeyondSizeAbsent
<1>3. TypeOK'
  BY <1>1, BoundsAssumption DEF CoreInv, TypeOK, RequestDelegate, Delegate, DelegateStatus,
     bounds
<1>4. TaskMatchesStatus' /\ CrystalStored' /\ RegistryMatches'
  BY <1>1, <1>2 DEF CoreInv, TypeOK, TaskMatchesStatus, CrystalStored, RegistryMatches,
     RequestDelegate, Active
<1>5. BeyondSizeAbsent' /\ PendingInPlan'
  BY <1>1, BoundsAssumption DEF CoreInv, TypeOK, BeyondSizeAbsent, PendingInPlan,
     RequestDelegate, Delegate
<1>6. CancellingIsLate' /\ MappedIsActive' /\ CancelledOnDisk' /\ EmptyBefore'
  BY DEF CoreInv, CancellingIsLate, MappedIsActive, CancelledOnDisk, EmptyBefore,
     RequestDelegate, Active
<1>7. QED
  BY <1>3, <1>4, <1>5, <1>6 DEF CoreInv

LEMMA SpawnKeepsCore ==
    ASSUME CoreInv, NEW d \in Delegate, SpawnDynamic(d)
    PROVE  CoreInv'
<1>1. CASE plan = "live" /\ mapped
  <2> DEFINE ds == [diskStatus EXCEPT ![d] = "proposed"]
  <2>1. Active
    BY <1>1 DEF CoreInv, MappedIsActive, Active
  <2>2. ds \in [Delegate -> ChatStatus] /\ TypeOK
    BY DEF CoreInv, TypeOK, ChatStatus
  <2>3. PlanInv'
    BY <1>1, <2>1 DEF CoreInv, PlanInv, CancellingIsLate, MappedIsActive, CancelledOnDisk, PendingInPlan,
     EmptyBefore, SpawnDynamic, Active, specs
  <2>4. PlanTyped'
    BY <1>1 DEF CoreInv, TypeOK, PlanTyped, SpawnDynamic, specs, bounds
  <2>5. Consistent(status, running, task, crystals', ds, size')
    <3>1. /\ Consistent(status, running, task, crystals, diskStatus, size)
          /\ size' = size /\ crystals' = crystals /\ d \in spawning
      BY <1>1, <2>1, ActiveIsConsistent DEF SpawnDynamic, specs
    <3>2. ~(d > size)
      BY <3>1, BoundsAssumption DEF CoreInv, PendingInPlan, TypeOK, Delegate
    <3>3. QED
      BY <3>1, <3>2, <2>2 DEF Consistent, TypeOK
  <2>6. ResolveAndStart(status, running, registered, task, ds)
    BY <1>1 DEF SpawnDynamic
  <2>7. QED
    BY <2>2, <2>3, <2>4, <2>5, <2>6, ResolveIsCore DEF TypeOK
<1>2. CASE ~(plan = "live" /\ mapped)
  BY <1>2 DEF SpawnDynamic, CoreInv, TypeOK, TaskMatchesStatus, CrystalStored, RegistryMatches,
     CancellingIsLate, MappedIsActive, CancelledOnDisk, BeyondSizeAbsent, PendingInPlan,
     EmptyBefore, Active, memory, specs, disk, bounds
<1>3. QED
  BY <1>1, <1>2

(* A restart rebuilds consistent values from any chat files. *)
LEMMA RehydrateMakesCore ==
    ASSUME NEW dp \in PlanStatus, NEW ds \in [Delegate -> ChatStatus],
           NEW bad \in SUBSET Delegate, Rehydrate(dp, ds, bad),
           \A d \in Delegate : d > size' => ds[d] = "none",
           size' \in 0 .. MaxDelegates, deps' \in [Delegate -> SUBSET Delegate],
           dynamic' \subseteq Delegate, announced' \in BOOLEAN,
           repairs' \in 0 .. MaxRepairs, restarts' \in 0 .. MaxRestarts
    PROVE  CoreInv'
<1>1. CASE dp \in {"running", "completed_partial"}
  <2>1. /\ plan' = "live" /\ planStatus' = "completed_partial" /\ mapped' = TRUE
        /\ diskPlan' = "completed_partial"
        /\ diskStatus' = [d \in Delegate |-> IF ds[d] = "running" THEN "interrupted" ELSE ds[d]]
        /\ status' = [d \in Delegate |-> Recalled(ds, d, bad)]
        /\ crystals' = {d \in Delegate : ds[d] = "crystal"} \ bad
    BY <1>1 DEF Rehydrate, Resumable
  <2>2. /\ task' = [d \in Delegate |-> "none"] /\ cancelling' = {} /\ spawning' = {}
        /\ running' = {} /\ registered' = {} /\ rescued' = {}
    BY DEF Rehydrate
  <2>3. \A d \in Delegate :
           /\ Recalled(ds, d, bad) \in DelegateStatus
           /\ Recalled(ds, d, bad) = "crystal" => ds[d] = "crystal" /\ d \notin bad
           /\ Recalled(ds, d, bad) = "crystal_degraded" => d \in bad
           /\ ds[d] = "none" => Recalled(ds, d, bad) = "absent"
    BY DEF ChatStatus, DelegateStatus, Recalled
  <2>4. TypeOK'
    BY <2>1, <2>2, <2>3 DEF TypeOK, PlanStatus, ChatStatus, TaskState
  <2>5. Consistent(status', running', task', crystals', diskStatus', size')
    BY <2>1, <2>2, <2>3 DEF Consistent
  <2>6. PlanInv'
    BY <2>1, <2>2 DEF PlanInv, CancellingIsLate, MappedIsActive, CancelledOnDisk,
       PendingInPlan, EmptyBefore
  <2>7. QED
    BY <2>4, <2>5, <2>6, ConsistentIsCore
<1>2. CASE dp \notin {"running", "completed_partial"}
  BY <1>2 DEF Rehydrate, Resumable, CoreInv, TypeOK, TaskMatchesStatus, CrystalStored, RegistryMatches,
     CancellingIsLate, MappedIsActive, CancelledOnDisk, BeyondSizeAbsent, PendingInPlan,
     EmptyBefore, Active, PlanStatus, DelegateStatus, TaskState
<1>3. QED
  BY <1>1, <1>2

LEMMA RestartsKeepCore ==
    ASSUME CoreInv,
           \/ \E bad \in SUBSET Delegate : Restart(bad)
           \/ \E d \in Delegate, bad \in SUBSET Delegate : CrashInCrystalReady(d, bad)
           \/ \E g \in PlanGraphs, n \in 0 .. MaxDelegates : CrashInLaunch(g, n)
    PROVE  CoreInv'
<1>1. TypeOK /\ BeyondSizeAbsent
  BY DEF CoreInv
<1>2. CASE \E bad \in SUBSET Delegate : Restart(bad)
  <2>1. PICK bad \in SUBSET Delegate : Restart(bad)
    BY <1>2
  <2>2. /\ size' = size /\ deps' = deps /\ dynamic' = dynamic /\ announced' = announced
        /\ repairs' = repairs /\ restarts' \in 0 .. MaxRestarts
        /\ Rehydrate(diskPlan, diskStatus, bad)
    BY <1>1, <2>1, BoundsAssumption DEF Restart, specs, TypeOK
  <2>3. QED
    BY <1>1, <2>2, RehydrateMakesCore DEF TypeOK, BeyondSizeAbsent
<1>3. CASE \E d \in Delegate, bad \in SUBSET Delegate : CrashInCrystalReady(d, bad)
  <2>1. PICK d \in Delegate, bad \in SUBSET Delegate : CrashInCrystalReady(d, bad)
    BY <1>3
  <2> DEFINE ds == Patched(diskStatus, d, "crystal")
  <2>2. /\ size' = size /\ deps' = deps /\ dynamic' = dynamic /\ announced' = announced
        /\ repairs' = repairs /\ restarts' \in 0 .. MaxRestarts
        /\ Rehydrate(diskPlan, ds, bad)
    BY <1>1, <2>1, BoundsAssumption DEF CrashInCrystalReady, specs, TypeOK
  <2>3. /\ ds \in [Delegate -> ChatStatus]
        /\ \A e \in Delegate : e > size => ds[e] = "none"
    BY <1>1 DEF Patched, TypeOK, ChatStatus, BeyondSizeAbsent
  <2> HIDE DEF ds
  <2>4. QED
    BY <1>1, <2>2, <2>3, RehydrateMakesCore DEF TypeOK
<1>4. CASE \E g \in PlanGraphs, n \in 0 .. MaxDelegates : CrashInLaunch(g, n)
  <2>1. PICK g \in PlanGraphs, n \in 0 .. MaxDelegates : CrashInLaunch(g, n)
    BY <1>4
  <2> DEFINE ds == [d \in Delegate |-> IF d <= n THEN "proposed" ELSE "none"]
  <2>2. g.size \in Delegate /\ g.deps \in [Delegate -> SUBSET Delegate]
    BY GraphsAssumption
  <2>3. /\ size' = g.size /\ deps' = g.deps /\ dynamic' = dynamic /\ announced' = announced
        /\ repairs' = repairs /\ restarts' \in 0 .. MaxRestarts /\ n <= g.size
        /\ Rehydrate("running", ds, {})
    BY <1>1, <2>1, BoundsAssumption DEF CrashInLaunch, TypeOK
  <2>4. /\ ds \in [Delegate -> ChatStatus] /\ size' \in 0 .. MaxDelegates
        /\ \A e \in Delegate : e > size' => ds[e] = "none"
    BY <2>2, <2>3, BoundsAssumption DEF Delegate, ChatStatus
  <2> HIDE DEF ds
  <2>5. "running" \in PlanStatus /\ {} \in SUBSET Delegate
    BY DEF PlanStatus
  <2>6. QED
    BY <1>1, <2>2, <2>3, <2>4, <2>5, RehydrateMakesCore DEF TypeOK
<1>5. QED
  BY <1>2, <1>3, <1>4

LEMMA CoreInvNext == CoreInv /\ [Next]_vars => CoreInv'
<1> SUFFICES ASSUME CoreInv, [Next]_vars PROVE CoreInv'
  OBVIOUS
<1>1. CASE \E g \in PlanGraphs : Launch(g)
  BY <1>1, LaunchKeepsCore
<1>2. CASE \E g \in PlanGraphs, n \in 0 .. MaxDelegates : CrashInLaunch(g, n)
  BY <1>2, RestartsKeepCore
<1>3. ASSUME NEW d \in Delegate, Step(d) PROVE CoreInv'
  BY <1>3, StepsWithoutResolve, EndsKeepCore DEF Step
<1>4. ASSUME NEW d \in Delegate, SpawnDynamic(d) PROVE CoreInv'
  BY <1>4, SpawnKeepsCore
<1>5. ASSUME NEW d \in Delegate, Fault(d) PROVE CoreInv'
  BY <1>5, StepsWithoutResolve, EndsKeepCore, RestartsKeepCore DEF Fault
<1>6. ASSUME NEW d \in Delegate, Request(d) PROVE CoreInv'
  BY <1>6, RetryKeepsCore, PromoteKeepsCore, StepsWithoutResolve, RequestKeepsCore DEF Request
<1>7. CASE Cancel \/ Evict \/ UNCHANGED vars
  \* MaxDelegates is positive, so there is a delegate to instantiate the lemma with
  <2>1. 1 \in Delegate
    BY BoundsAssumption DEF Delegate
  <2>2. QED
    BY <1>7, <2>1, StepsWithoutResolve
<1>8. CASE \E bad \in SUBSET Delegate : Restart(bad)
  BY <1>8, RestartsKeepCore
<1>9. QED
  BY <1>1, <1>2, <1>3, <1>4, <1>5, <1>6, <1>7, <1>8 DEF Next

(* CoreInv holds in every reachable state. *)
THEOREM CoreInvHolds == Spec => []CoreInv
BY CoreInvInit, CoreInvNext, PTL DEF Spec

(* Every variable stays in its type. *)
THEOREM TypeCorrect == Spec => []TypeOK
<1>1. CoreInv => TypeOK
  BY DEF CoreInv
<1>2. QED
  BY <1>1, CoreInvHolds, PTL

(* However retries, promotions, cancels, faults and restarts interleave, a
   delegate has a coroutine only while its status says so: nothing is ever
   started twice.                                                            *)
THEOREM TasksMatchStatuses == Spec => []TaskMatchesStatus
<1>1. CoreInv => TaskMatchesStatus
  BY DEF CoreInv
<1>2. QED
  BY <1>1, CoreInvHolds, PTL

(* A delegate counts as a crystal exactly when its crystal is in memory. *)
THEOREM CrystalsAreStored == Spec => []CrystalStored
<1>1. CoreInv => CrystalStored
  BY DEF CoreInv
<1>2. QED
  BY <1>1, CoreInvHolds, PTL

-----------------------------------------------------------------------------
(* The action properties. *)

(* A step takes a plan that is cancelled on disk to one that is. *)
LEMMA CancelledStays ==
    ASSUME CoreInv, [Next]_vars, diskPlan = "cancelled"
    PROVE  diskPlan' = "cancelled"
<1>1. plan # "none" /\ ~Active /\ ~(mapped /\ plan = "live")
  BY DEF CoreInv, CancelledOnDisk, MappedIsActive, Active
<1>2. CASE \E g \in PlanGraphs : Launch(g)
  BY <1>1, <1>2 DEF Launch
<1>3. CASE \E g \in PlanGraphs, n \in 0 .. MaxDelegates : CrashInLaunch(g, n)
  BY <1>1, <1>3 DEF CrashInLaunch
<1>4. ASSUME NEW d \in Delegate, Step(d) PROVE diskPlan' = "cancelled"
  BY <1>1, <1>4 DEF Step, AcquireSlot, StreamEnds, StreamFails, StreamRaises,
     StreamEndsCancelled, StreamEndsOrphaned, Finalize, CancelDelivered, FailedAfterCancel, disk
<1>5. ASSUME NEW d \in Delegate, SpawnDynamic(d) PROVE diskPlan' = "cancelled"
  BY <1>1, <1>5 DEF SpawnDynamic, disk
<1>6. ASSUME NEW d \in Delegate, Fault(d) PROVE diskPlan' = "cancelled"
  BY <1>1, <1>6 DEF Fault, PreambleRaises, CrystalWriteRaises, SynthesisRaises,
     CrashInCrystalReady, FailedAfterCancel, disk
<1>7. ASSUME NEW d \in Delegate, Request(d) PROVE diskPlan' = "cancelled"
  BY <1>1, <1>7 DEF Request, Retry, Promote, MarkStalled, RequestDelegate
<1>8. CASE Cancel \/ Evict \/ UNCHANGED vars
  BY <1>8 DEF Cancel, Evict, vars, disk
<1>9. CASE \E bad \in SUBSET Delegate : Restart(bad)
  BY <1>9 DEF Restart, Rehydrate, Resumable
<1>10. QED
  BY <1>2, <1>3, <1>4, <1>5, <1>6, <1>7, <1>8, <1>9 DEF Next

(* Once cancelled on disk a plan stays cancelled: neither the tasks that
   cancel_plan did not reach, nor a pending spawn, nor a restart write it back. *)
THEOREM CancellationIsFinal == Spec => CancelledIsFinal
<1>1. CoreInv /\ [Next]_vars => [diskPlan = "cancelled" => diskPlan' = "cancelled"]_vars
  BY CancelledStays
<1>2. QED
  BY <1>1, CoreInvHolds, PTL DEF Spec, CancelledIsFinal

(* Every delegate a step starts was free and has its dependencies. *)
StartsWell ==
    \A d \in running' \ running :
        /\ task[d] = "none"
        /\ \A e \in deps'[d] : e \in crystals' \/ status'[e] = "crystal_degraded"

(* A resolve from a registry rn that lost nobody startable starts well.       *)
LEMMA ResolveStartsWell ==
    ASSUME CoreInv, CoreInv', Active, plan' = "live", deps' = deps,
           NEW s \in [Delegate -> DelegateStatus], NEW rn \in SUBSET running,
           NEW reg \in SUBSET Delegate, NEW tk \in [Delegate -> TaskState],
           NEW ds \in [Delegate -> ChatStatus],
           ResolveAndStart(s, rn, reg, tk, ds),
           \A d \in Delegate : s[d] = "proposed" /\ d \in running => d \in rn,
           \A d \in Delegate : s[d] = "proposed" => status[d] \in {"proposed"} \union Retryable
    PROVE  StartsWell
<1>1. TypeOK /\ rn \in SUBSET Delegate
  BY DEF CoreInv, TypeOK
<1>2. running' \in SUBSET Delegate /\ Resolved(s, rn, tk, ds)
  BY <1>1, ResolveFacts
<1> SUFFICES ASSUME NEW d \in running' \ running
             PROVE  /\ task[d] = "none"
                    /\ \A e \in deps'[d] : e \in crystals' \/ status'[e] = "crystal_degraded"
  BY DEF StartsWell
<1>3. d \in Delegate /\ d \notin rn
  BY <1>2
<1>4. s[d] = "proposed" /\ d \in Startable(s)
  BY <1>2, <1>3 DEF Resolved
<1>5. task[d] = "none"
  BY <1>1, <1>3, <1>4 DEF CoreInv, TaskMatchesStatus, TypeOK, TaskState, Retryable
<1>6. ASSUME NEW e \in deps'[d] PROVE e \in crystals' \/ status'[e] = "crystal_degraded"
  <2>1. e \in Delegate /\ s[e] \in Satisfied
    BY <1>1, <1>3, <1>4 DEF Startable, TypeOK
  <2>2. status'[e] = s[e]
    BY <1>2, <2>1 DEF Resolved, Satisfied
  <2>3. QED
    BY <2>1, <2>2 DEF CoreInv, CrystalStored, Satisfied
<1>7. QED
  BY <1>5, <1>6

LEMMA CrystalReadyStartsWell ==
    ASSUME CoreInv, CoreInv', NEW d \in Delegate, Active, NEW pc, CrystalReady(d, pc),
           deps' = deps
    PROVE  StartsWell
<1> DEFINE s == [status EXCEPT ![d] = "crystal"]
           ds == Patched(diskStatus, d, "crystal")
           tk == [task EXCEPT ![d] = "none"]
<1>1. /\ s \in [Delegate -> DelegateStatus] /\ ds \in [Delegate -> ChatStatus]
      /\ tk \in [Delegate -> TaskState]
      /\ running \ {d} \in SUBSET running /\ registered \ {d} \in SUBSET Delegate
  BY DEF CoreInv, TypeOK, DelegateStatus, ChatStatus, TaskState, Patched
<1>2. CASE Complete(s)
  BY <1>2 DEF CrystalReady, StartsWell
<1>3. CASE ~Complete(s)
  <2>1. ResolveAndStart(s, running \ {d}, registered \ {d}, tk, ds) /\ plan' = "live"
    BY <1>3 DEF CrystalReady, Active
  <2>2. \A e \in Delegate : s[e] = "proposed" => e # d /\ status[e] = "proposed"
    BY DEF CoreInv, TypeOK
  <2> HIDE DEF s, ds, tk
  <2>3. QED
    BY <1>1, <2>1, <2>2, ResolveStartsWell
<1>4. QED
  BY <1>2, <1>3

LEMMA DelegateFailedStartsWell ==
    ASSUME CoreInv, CoreInv', NEW d \in Delegate, Active, DelegateFailed(d), deps' = deps
    PROVE  StartsWell
<1> DEFINE s == [status EXCEPT ![d] = "failed"]
           ds == Patched(diskStatus, d, "failed")
           tk == [task EXCEPT ![d] = "none"]
<1>1. /\ s \in [Delegate -> DelegateStatus] /\ ds \in [Delegate -> ChatStatus]
      /\ tk \in [Delegate -> TaskState]
      /\ running \ {d} \in SUBSET running /\ registered \ {d} \in SUBSET Delegate
  BY DEF CoreInv, TypeOK, DelegateStatus, ChatStatus, TaskState, Patched
<1>2. ResolveAndStart(s, running \ {d}, registered \ {d}, tk, ds) /\ plan' = "live"
  BY DEF DelegateFailed, Active
<1>3. \A e \in Delegate : s[e] = "proposed" => e # d /\ status[e] = "proposed"
  BY DEF CoreInv, TypeOK
<1> HIDE DEF s, ds, tk
<1>4. QED
  BY <1>1, <1>2, <1>3, ResolveStartsWell

LEMMA RetryStartsWell ==
    ASSUME CoreInv, CoreInv', NEW d \in Delegate, Retry(d)
    PROVE  StartsWell
<1> DEFINE reset == {d} \union {e \in 1 .. size : d \in deps[e] /\ status[e] = "failed"}
           s == [e \in Delegate |-> IF e \in reset THEN "proposed" ELSE status[e]]
           ds == [e \in Delegate |-> IF e \in reset /\ diskStatus[e] # "none"
                                     THEN "proposed" ELSE diskStatus[e]]
<1>1. Active /\ plan' = "live" /\ deps' = deps
  BY DEF CoreInv, MappedIsActive, Retry, Active, specs
<1>2. s \in [Delegate -> DelegateStatus] /\ ds \in [Delegate -> ChatStatus] /\ TypeOK
  BY DEF CoreInv, TypeOK, DelegateStatus, ChatStatus
<1>3. ResolveAndStart(s, running, registered, task, ds)
  BY DEF Retry
<1>4. \A e \in Delegate : s[e] = "proposed" => status[e] \in {"proposed"} \union Retryable
  BY DEF Retry, Retryable
<1> HIDE DEF s, ds
<1>5. QED
  BY <1>1, <1>2, <1>3, <1>4, ResolveStartsWell DEF TypeOK

LEMMA SpawnStartsWell ==
    ASSUME CoreInv, CoreInv', NEW d \in Delegate, SpawnDynamic(d)
    PROVE  StartsWell
<1>1. CASE plan = "live" /\ mapped
  <2> DEFINE ds == [diskStatus EXCEPT ![d] = "proposed"]
  <2>1. Active /\ plan' = "live" /\ deps' = deps
    BY <1>1 DEF CoreInv, MappedIsActive, Active, SpawnDynamic, specs
  <2>2. ds \in [Delegate -> ChatStatus] /\ TypeOK
    BY DEF CoreInv, TypeOK, ChatStatus
  <2>3. ResolveAndStart(status, running, registered, task, ds)
    BY <1>1 DEF SpawnDynamic
  <2> HIDE DEF ds
  <2>4. QED
    BY <2>1, <2>2, <2>3, ResolveStartsWell DEF TypeOK
<1>2. CASE ~(plan = "live" /\ mapped)
  BY <1>2 DEF SpawnDynamic, StartsWell, memory
<1>3. QED
  BY <1>1, <1>2

LEMMA NextStartsWell ==
    ASSUME CoreInv, CoreInv', [Next]_vars
    PROVE  StartsWell
<1>1. CASE \E g \in PlanGraphs : Launch(g)
  <2>1. PICK g \in PlanGraphs : Launch(g)
    BY <1>1
  <2>2. \A d \in running' : d \in Delegate /\ deps'[d] = {}
    BY <2>1 DEF Launch
  <2>3. \A d \in Delegate : task[d] = "none"
    BY <2>1, BoundsAssumption DEF CoreInv, EmptyBefore, BeyondSizeAbsent, Launch, Delegate
  <2>4. QED
    BY <2>2, <2>3 DEF StartsWell
<1>2. CASE \E g \in PlanGraphs, n \in 0 .. MaxDelegates : CrashInLaunch(g, n)
  BY <1>2 DEF CrashInLaunch, Rehydrate, StartsWell
<1>3. ASSUME NEW d \in Delegate, Step(d) PROVE StartsWell
  <2>1. CASE StreamEnds(d)
    BY <2>1, CrystalReadyStartsWell DEF StreamEnds, specs
  <2>2. CASE StreamFails(d) \/ StreamRaises(d)
    <3>1. Active /\ deps' = deps /\ (DelegateFailed(d) \/ UNCHANGED running)
      BY <2>2 DEF StreamFails, StreamRaises, specs
    <3>2. QED
      BY <3>1, DelegateFailedStartsWell DEF StartsWell
  <2>3. CASE \/ AcquireSlot(d) \/ StreamEndsCancelled(d) \/ StreamEndsOrphaned(d)
             \/ Finalize(d) \/ CancelDelivered(d)
    BY <2>3 DEF AcquireSlot, StreamEndsCancelled, StreamEndsOrphaned, Finalize,
       CancelDelivered, FailedAfterCancel, Returns, Cleanup, memory, StartsWell
  <2>4. QED
    BY <1>3, <2>1, <2>2, <2>3 DEF Step
<1>4. ASSUME NEW d \in Delegate, SpawnDynamic(d) PROVE StartsWell
  BY <1>4, SpawnStartsWell
<1>5. ASSUME NEW d \in Delegate, Fault(d) PROVE StartsWell
  <2>1. CASE CrystalWriteRaises(d)
    BY <2>1, DelegateFailedStartsWell DEF CrystalWriteRaises, specs, StartsWell
  <2>2. CASE SynthesisRaises(d)
    <3>1. deps' = deps /\ ((Active /\ DelegateFailed(d)) \/ UNCHANGED running)
      BY <2>2 DEF SynthesisRaises, FailedAfterCancel, Returns, specs
    <3>2. QED
      BY <3>1, DelegateFailedStartsWell DEF StartsWell
  <2>3. CASE PreambleRaises(d) \/ \E bad \in SUBSET Delegate : CrashInCrystalReady(d, bad)
    BY <2>3 DEF PreambleRaises, Returns, CrashInCrystalReady, Rehydrate, StartsWell
  <2>4. QED
    BY <1>5, <2>1, <2>2, <2>3 DEF Fault
<1>6. ASSUME NEW d \in Delegate, Request(d) PROVE StartsWell
  <2>1. CASE Promote(d)
    <3>1. Active /\ deps' = deps
      BY <2>1 DEF CoreInv, MappedIsActive, Promote, Active, specs
    <3>2. QED
      BY <2>1, <3>1, CrystalReadyStartsWell DEF Promote
  <2>2. CASE MarkStalled(d) \/ \E ds \in SUBSET Delegate : RequestDelegate(d, ds)
    BY <2>2 DEF MarkStalled, RequestDelegate, StartsWell
  <2>3. QED
    BY <1>6, <2>1, <2>2, RetryStartsWell DEF Request
<1>7. CASE Cancel \/ Evict \/ UNCHANGED vars
  BY <1>7 DEF Cancel, Evict, Cleanup, vars, memory, StartsWell
<1>8. CASE \E bad \in SUBSET Delegate : Restart(bad)
  BY <1>8 DEF Restart, Rehydrate, StartsWell
<1>9. QED
  BY <1>1, <1>2, <1>3, <1>4, <1>5, <1>6, <1>7, <1>8 DEF Next

(* A delegate is started only while it has no coroutine, and with the crystals
   of all its dependencies in memory or known to be degraded.                *)
THEOREM UpstreamBeforeStart == Spec => StartsWithUpstream
<1>1. CoreInv /\ CoreInv' /\ [Next]_vars => [StartsWell]_vars
  BY NextStartsWell
<1>2. QED
  BY <1>1, CoreInvHolds, PTL DEF Spec, StartsWithUpstream, StartsWell

=============================================================================
