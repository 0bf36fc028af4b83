-------------------------- MODULE PlanRecordProofs --------------------------
(* DelegateManager implements PlanRecord: the group file and the source      *)
(* conversation go through no other states and steps than those of a record. *)
EXTENDS DelegateRecoveryProofs

NothingRecordedBefore == plan = "none" => diskPlan = "none"

RecordInv == FileInv /\ NothingRecordedBefore

(* A step that the record does not show. *)
Unseen == diskPlan' = diskPlan /\ Closing' = Closing /\ announced' = announced

LEMMA RecordInvNext ==
    ASSUME SynthesisReturns, RecordInv, [Next]_vars
    PROVE  RecordInv'
<1> USE DEF disk, memory
<1>1. SUFFICES ASSUME plan' = "none" PROVE plan = "none" /\ UNCHANGED diskPlan
  BY FileInvNext DEF RecordInv, NothingRecordedBefore
<1>2. CASE \E g \in PlanGraphs : Launch(g)
  BY <1>1, <1>2 DEF Launch
<1>3. CASE \E g \in PlanGraphs, n \in 0 .. MaxDelegates : CrashInLaunch(g, n)
  BY <1>1, <1>3 DEF CrashInLaunch, Rehydrate
<1>4. ASSUME NEW d \in Delegate, Step(d) PROVE plan = "none" /\ UNCHANGED diskPlan
  BY <1>1, <1>4 DEF Step, AcquireSlot, StreamEnds, StreamFails, StreamRaises, Active,
     StreamEndsCancelled, StreamEndsOrphaned, Finalize, CancelDelivered, Returns, Cleanup,
     CrystalReady, DelegateFailed, FailedAfterCancel, Rescue
<1>5. ASSUME NEW d \in Delegate, SpawnDynamic(d) PROVE plan = "none" /\ UNCHANGED diskPlan
  BY <1>1, <1>5 DEF SpawnDynamic
<1>6. ASSUME NEW d \in Delegate, Fault(d) PROVE plan = "none" /\ UNCHANGED diskPlan
  BY <1>1, <1>6 DEF Fault, PreambleRaises, CrystalWriteRaises, SynthesisRaises, SynthesisReturns,
     CrashInCrystalReady, Rehydrate, Active, Returns, Rescue, DelegateFailed
<1>7. ASSUME NEW d \in Delegate, Request(d) PROVE plan = "none" /\ UNCHANGED diskPlan
  BY <1>1, <1>7 DEF Request, Retry, Promote, MarkStalled, RequestDelegate, CrystalReady
<1>8. CASE Cancel \/ Evict \/ UNCHANGED vars
  BY <1>1, <1>8 DEF Cancel, Evict, Cleanup, vars
<1>9. CASE \E bad \in SUBSET Delegate : Restart(bad)
  BY <1>1, <1>9 DEF Restart, Rehydrate
<1>10. QED
  BY <1>2, <1>3, <1>4, <1>5, <1>6, <1>7, <1>8, <1>9 DEF Next

-----------------------------------------------------------------------------
(* A resolve starts proposed delegates, and those are not in a synthesis. *)
LEMMA ResolveKeepsClosing ==
    ASSUME NEW s \in [Delegate -> DelegateStatus], NEW rn \in SUBSET Delegate,
           NEW reg \in SUBSET Delegate, NEW tk \in [Delegate -> TaskState],
           NEW ds \in [Delegate -> ChatStatus],
           ResolveAndStart(s, rn, reg, tk, ds),
           \A d \in Delegate :
               /\ tk[d] \in {"finalizing", "promoting"} <=> task[d] \in {"finalizing", "promoting"}
               /\ task[d] \in {"finalizing", "promoting"} => s[d] # "proposed"
    PROVE  Closing' = Closing
<1>1. Resolved(s, rn, tk, ds)
  BY ResolveFacts
<1>2. \A d \in Delegate :
         task'[d] \in {"finalizing", "promoting"} <=> task[d] \in {"finalizing", "promoting"}
  BY <1>1 DEF Resolved
<1>3. QED
  BY <1>2 DEF Closing

(* A task that is not in the synthesis moves to another such state. *)
LEMMA MoveKeepsClosing ==
    ASSUME TypeOK, NEW d \in Delegate, task[d] \notin {"finalizing", "promoting"},
           NEW pc \in {"none", "queued", "streaming"}, task' = [task EXCEPT ![d] = pc]
    PROVE  Closing' = Closing
<1>1. \A e \in Delegate :
         task'[e] \in {"finalizing", "promoting"} <=> task[e] \in {"finalizing", "promoting"}
  BY DEF TypeOK
<1>2. QED
  BY <1>1 DEF Closing

LEMMA CrystalReadyConcludes ==
    ASSUME RecordInv, NEW d \in Delegate, Active,
           status[d] \in DelegateStatus \ {"crystal", "absent"},
           NEW pc \in {"finalizing", "promoting"}, CrystalReady(d, pc), announced' = announced
    PROVE  Unseen \/ Record!Conclude
<1> DEFINE s == [status EXCEPT ![d] = "crystal"]
           ds == Patched(diskStatus, d, "crystal")
           tk == [task EXCEPT ![d] = "none"]
<1>1. /\ s \in [Delegate -> DelegateStatus] /\ ds \in [Delegate -> ChatStatus]
      /\ tk \in [Delegate -> TaskState] /\ TypeOK
      /\ running \ {d} \in SUBSET Delegate /\ registered \ {d} \in SUBSET Delegate
  BY DEF RecordInv, FileInv, CoreInv, TypeOK, DelegateStatus, ChatStatus, TaskState, Patched
<1>2. diskPlan = planStatus /\ diskPlan \in {"running", "completed_partial"}
  BY <1>1 DEF RecordInv, FileInv, PlanRecorded, AllDelivered, Active, TypeOK, PlanStatus
<1>3. CASE Complete(s)
  <2>1. Closing' /\ diskPlan' \in {"completed", "completed_partial"}
    BY <1>1, <1>3 DEF CrystalReady, Closing, TypeOK
  <2>2. QED
    BY <1>2, <2>1 DEF Record!Conclude, Record!Open
<1>4. CASE ~Complete(s)
  <2>1. ResolveAndStart(s, running \ {d}, registered \ {d}, tk, ds) /\ diskPlan' = diskPlan
    BY <1>2, <1>4 DEF CrystalReady
  <2>2. ASSUME NEW e \in Delegate
        PROVE /\ tk[e] \in {"finalizing", "promoting"} <=> task[e] \in {"finalizing", "promoting"}
              /\ task[e] \in {"finalizing", "promoting"} => s[e] # "proposed"
    BY <1>1 DEF RecordInv, FileInv, CoreInv, TaskMatchesStatus, TypeOK
  <2> HIDE DEF s, ds, tk
  <2>3. Closing' = Closing
    BY <1>1, <2>1, <2>2, ResolveKeepsClosing
  <2>4. QED
    BY <2>1, <2>3 DEF Unseen
<1>5. QED
  BY <1>3, <1>4

LEMMA FailureIsUnseen ==
    ASSUME RecordInv, NEW d \in Delegate, Active, task[d] = "streaming",
           DelegateFailed(d), announced' = announced
    PROVE  Unseen
<1> DEFINE s == [status EXCEPT ![d] = "failed"]
           ds == Patched(diskStatus, d, "failed")
           tk == [task EXCEPT ![d] = "none"]
<1>1. /\ s \in [Delegate -> DelegateStatus] /\ ds \in [Delegate -> ChatStatus]
      /\ tk \in [Delegate -> TaskState] /\ TypeOK
      /\ running \ {d} \in SUBSET Delegate /\ registered \ {d} \in SUBSET Delegate
  BY DEF RecordInv, FileInv, CoreInv, TypeOK, DelegateStatus, ChatStatus, TaskState, Patched
<1>2. ResolveAndStart(s, running \ {d}, registered \ {d}, tk, ds) /\ diskPlan' = diskPlan
  BY DEF DelegateFailed, RecordInv, FileInv, PlanRecorded
<1>3. ASSUME NEW e \in Delegate
      PROVE /\ tk[e] \in {"finalizing", "promoting"} <=> task[e] \in {"finalizing", "promoting"}
            /\ task[e] \in {"finalizing", "promoting"} => s[e] # "proposed"
  BY <1>1 DEF RecordInv, FileInv, CoreInv, TaskMatchesStatus, TypeOK
<1> HIDE DEF s, ds, tk
<1>4. QED
  BY <1>1, <1>2, <1>3, ResolveKeepsClosing DEF Unseen

LEMMA StepIsRecorded ==
    ASSUME RecordInv, NEW d \in Delegate, Step(d) \/ PreambleRaises(d) \/ CrystalWriteRaises(d)
    PROVE  Unseen \/ Record!Conclude \/ Record!Announce
<1>1. TypeOK
  BY DEF RecordInv, FileInv, CoreInv
<1>2. CASE AcquireSlot(d) \/ PreambleRaises(d)
  BY <1>1, <1>2, MoveKeepsClosing DEF AcquireSlot, PreambleRaises, Returns, disk, Unseen
<1>3. CASE StreamEnds(d)
  <2>1. Active /\ status[d] \in {"running", "stalled"} /\ announced' = announced
    BY <1>3 DEF StreamEnds, RecordInv, FileInv, CoreInv, TaskMatchesStatus
  <2>2. QED
    BY <1>3, <2>1, CrystalReadyConcludes DEF StreamEnds, DelegateStatus
<1>4. CASE StreamFails(d) \/ StreamRaises(d) \/ CrystalWriteRaises(d)
  <2>1. Active /\ task[d] = "streaming" /\ announced' = announced
    BY <1>4 DEF StreamFails, StreamRaises, CrystalWriteRaises
  <2>2. CASE DelegateFailed(d)
    BY <2>1, <2>2, FailureIsUnseen
  <2>3. CASE Rescue(d)
    BY <1>1, <2>1, <2>3, MoveKeepsClosing
       DEF Rescue, Unseen, RecordInv, FileInv, PlanRecorded
  <2>4. QED
    BY <1>4, <2>2, <2>3 DEF StreamFails, StreamRaises, CrystalWriteRaises
<1>5. CASE StreamEndsCancelled(d) \/ StreamEndsOrphaned(d)
  BY <1>1, <1>5, MoveKeepsClosing DEF StreamEndsCancelled, StreamEndsOrphaned, Returns,
     FailedAfterCancel, disk, Unseen
<1>6. CASE Finalize(d)
  BY <1>1, <1>6 DEF Finalize, disk, Closing, Record!Announce
<1>7. CASE CancelDelivered(d)
  <2>1. task' = [task EXCEPT ![d] = "none"] /\ UNCHANGED <<diskPlan, announced>>
    BY <1>7 DEF CancelDelivered, FailedAfterCancel, Returns, disk
  <2>2. CASE task[d] \in {"finalizing", "promoting"}
    BY <2>1, <2>2 DEF Closing, Record!Announce
  <2>3. CASE task[d] \notin {"finalizing", "promoting"}
    BY <1>1, <2>1, <2>3, MoveKeepsClosing DEF Unseen
  <2>4. QED
    BY <2>2, <2>3
<1>8. QED
  BY <1>2, <1>3, <1>4, <1>5, <1>6, <1>7 DEF Step

LEMMA RetryIsRecorded ==
    ASSUME RecordInv, NEW d \in Delegate, Retry(d)
    PROVE  Unseen \/ Record!Reopen
<1> DEFINE reset == {d} \union {e \in 1 .. size : d \in deps[e] /\ status[e] = "failed"}
           s == [e \in Delegate |-> IF e \in reset THEN "proposed" ELSE status[e]]
           ds == [e \in Delegate |-> IF e \in reset /\ diskStatus[e] # "none"
                                     THEN "proposed" ELSE diskStatus[e]]
<1>1. Active /\ diskPlan = planStatus /\ announced' = announced
  BY DEF RecordInv, FileInv, PlanRecorded, CoreInv, MappedIsActive, Retry, Active
<1>2. s \in [Delegate -> DelegateStatus] /\ ds \in [Delegate -> ChatStatus] /\ TypeOK
  BY DEF RecordInv, FileInv, CoreInv, TypeOK, DelegateStatus, ChatStatus
<1>3. ResolveAndStart(s, running, registered, task, ds)
  BY DEF Retry
<1>4. ASSUME NEW e \in Delegate, task[e] \in {"finalizing", "promoting"}
      PROVE  s[e] # "proposed"
  <2>1. status[e] = "crystal"
    BY <1>1, <1>4 DEF RecordInv, FileInv, CoreInv, TaskMatchesStatus
  <2>2. e \notin reset
    BY <2>1 DEF Retry, Retryable
  <2>3. QED
    BY <2>1, <2>2
<1> HIDE DEF s, ds
<1>5. Closing' = Closing
  BY <1>2, <1>3, <1>4, ResolveKeepsClosing DEF TypeOK
<1>6. diskPlan' = IF planStatus = "completed_partial" THEN "running" ELSE planStatus
  BY DEF Retry
<1>7. QED
  BY <1>1, <1>5, <1>6 DEF Unseen, Record!Reopen

LEMMA RequestIsRecorded ==
    ASSUME RecordInv, NEW d \in Delegate, Request(d)
    PROVE  Unseen \/ Record!Conclude \/ Record!Reopen
<1>1. CASE Retry(d)
  BY <1>1, RetryIsRecorded
<1>2. CASE Promote(d)
  BY <1>2, CrystalReadyConcludes DEF Promote, Retryable, DelegateStatus, RecordInv, FileInv,
     CoreInv, MappedIsActive, Active
<1>3. CASE MarkStalled(d) \/ \E ds \in SUBSET Delegate : RequestDelegate(d, ds)
  BY <1>3 DEF MarkStalled, RequestDelegate, Unseen, Closing, RecordInv, FileInv, PlanRecorded,
     CoreInv, MappedIsActive, Active
<1>4. QED
  BY <1>1, <1>2, <1>3 DEF Request

LEMMA SpawnIsUnseen ==
    ASSUME RecordInv, NEW d \in Delegate, SpawnDynamic(d)
    PROVE  Unseen
<1>1. CASE plan = "live" /\ mapped
  <2> DEFINE ds == [diskStatus EXCEPT ![d] = "proposed"]
  <2>1. Active /\ diskPlan' = diskPlan /\ announced' = announced
    BY <1>1 DEF SpawnDynamic, RecordInv, FileInv, PlanRecorded, CoreInv, MappedIsActive, Active
  <2>2. ds \in [Delegate -> ChatStatus] /\ TypeOK
    BY DEF RecordInv, FileInv, CoreInv, TypeOK, ChatStatus
  <2>3. ResolveAndStart(status, running, registered, task, ds)
    BY <1>1 DEF SpawnDynamic
  <2>4. \A e \in Delegate : task[e] \in {"finalizing", "promoting"} => status[e] # "proposed"
    BY <2>1 DEF RecordInv, FileInv, CoreInv, TaskMatchesStatus
  <2> HIDE DEF ds
  <2>5. Closing' = Closing
    BY <2>2, <2>3, <2>4, ResolveKeepsClosing DEF TypeOK
  <2>6. QED
    BY <2>1, <2>5 DEF Unseen
<1>2. CASE ~(plan = "live" /\ mapped)
  BY <1>2 DEF SpawnDynamic, disk, Unseen, Closing
<1>3. QED
  BY <1>1, <1>2

LEMMA NotClosingBefore == RecordInv /\ plan = "none" => ~Closing
  BY BoundsAssumption DEF RecordInv, FileInv, CoreInv, EmptyBefore, BeyondSizeAbsent, Closing,
     Delegate

(* A restart, wherever the process died, ends the synthesis and leaves an open
   plan partial.                                                             *)
LEMMA CrashIsRecorded ==
    ASSUME RecordInv, NEW d \in Delegate, NEW bad \in SUBSET Delegate, CrashInCrystalReady(d, bad)
    PROVE  Record!Interrupt
<1>1. ~Closing' /\ announced' = announced
  BY DEF CrashInCrystalReady, Rehydrate, Closing
<1>2. diskPlan' = IF diskPlan = "running" THEN "completed_partial" ELSE diskPlan
  BY DEF CrashInCrystalReady, Rehydrate, Resumable
<1>3. diskPlan # "none"
  BY DEF CrashInCrystalReady, RecordInv, FileInv, PlanRecorded
<1>4. QED
  BY <1>1, <1>2, <1>3 DEF Record!Interrupt

LEMMA NextIsRecorded ==
    ASSUME SynthesisReturns, RecordInv, [Next]_vars
    PROVE  [Record!Next]_(Record!vars)
<1>1. Unseen => UNCHANGED Record!vars
  BY DEF Unseen, Record!vars
<1>2. ASSUME NEW g \in PlanGraphs, Launch(g) PROVE Record!Launch
  <2>1. diskPlan = "none" /\ diskPlan' = "running" /\ announced' = announced
    BY <1>2 DEF Launch, RecordInv, NothingRecordedBefore
  <2>2. ~Closing
    BY <1>2, NotClosingBefore DEF Launch
  <2>3. ~Closing'
    BY <1>2 DEF Launch, Closing
  <2>4. QED
    BY <2>1, <2>2, <2>3 DEF Record!Launch, Record!Open, Closing
<1>3. ASSUME NEW g \in PlanGraphs, NEW n \in 0 .. MaxDelegates, CrashInLaunch(g, n)
      PROVE  Record!Launch
  <2>1. diskPlan = "none" /\ diskPlan' = "completed_partial" /\ announced' = announced
    BY <1>3 DEF CrashInLaunch, Rehydrate, Resumable, RecordInv, NothingRecordedBefore
  <2>2. ~Closing
    BY <1>3, NotClosingBefore DEF CrashInLaunch
  <2>3. ~Closing'
    BY <1>3 DEF CrashInLaunch, Rehydrate, Closing
  <2>4. QED
    BY <2>1, <2>2, <2>3 DEF Record!Launch, Record!Open, Closing
<1>4. ASSUME NEW d \in Delegate, Step(d) \/ SpawnDynamic(d) \/ Fault(d) \/ Request(d)
      PROVE  Unseen \/ Record!Conclude \/ Record!Announce \/ Record!Reopen \/ Record!Interrupt
  <2>1. Fault(d) => \/ PreambleRaises(d) \/ CrystalWriteRaises(d)
                    \/ \E bad \in SUBSET Delegate : CrashInCrystalReady(d, bad)
    BY DEF Fault, SynthesisRaises, SynthesisReturns
  <2>2. QED
    BY <1>4, <2>1, StepIsRecorded, SpawnIsUnseen, RequestIsRecorded, CrashIsRecorded
<1>5. Cancel => Record!Cancel
  BY DEF Cancel, Record!Cancel, Closing, RecordInv, FileInv, PlanRecorded, CoreInv,
     MappedIsActive, Active
<1>6. Evict => Unseen
  BY DEF Evict, disk, Unseen, Closing
<1>7. ASSUME NEW bad \in SUBSET Delegate, Restart(bad) PROVE Record!Interrupt
  <2>1. ~Closing'
    BY <1>7 DEF Restart, Rehydrate, Closing
  <2>2. diskPlan' = IF diskPlan = "running" THEN "completed_partial" ELSE diskPlan
    BY <1>7 DEF Restart, Rehydrate, Resumable
  <2>3. QED
    BY <1>7, <2>1, <2>2 DEF Restart, Record!Interrupt
<1>8. UNCHANGED vars => Unseen
  BY DEF vars, disk, Unseen, Closing
<1>9. QED
  BY <1>1, <1>2, <1>3, <1>4, <1>5, <1>6, <1>7, <1>8 DEF Next, Record!Next

(* Every behaviour of the delegates shows the outside the behaviour of a record:
   a completed plan is not resumed or reopened, a cancelled one not written
   back, and a completion announced only by a synthesis under way.           *)
THEOREM ImplementsPlanRecord == ASSUME SynthesisReturns PROVE Spec => ImplementsRecord
<1>1. Init => RecordInv /\ Record!Init
  BY RecoveryInvInit DEF RecordInv, RecoveryInv, NothingRecordedBefore, Init, Record!Init, Closing
<1>2. RecordInv /\ [Next]_vars => RecordInv' /\ [Record!Next]_(Record!vars)
  BY RecordInvNext, NextIsRecorded
<1>3. QED
  BY <1>1, <1>2, PTL DEF Spec, ImplementsRecord, Record!Spec
=============================================================================
