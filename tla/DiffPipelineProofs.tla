------------------------- MODULE DiffPipelineProofs -------------------------
(***************************************************************************)
(* For diffs of any size: every hunk of a run that was not forced is       *)
(* answered for, changes_written tells the truth, what the result offers   *)
(* to undo is what the run has put in the file, and a result of            *)
(* "already_applied" has left the file as it was.                          *)
(*                                                                         *)
(* Accounting says where no hunk can be pending any more; Honest, that     *)
(* changes are only claimed once the file has grown; Placed, that a hunk   *)
(* reported by patch or by git apply is in the file and was not before.    *)
(* None depends on how hunks are numbered after git apply: what difflib    *)
(* reports carries the stage "difflib", which the offer to undo excludes.  *)
(* The last result does: a second invariant, JInv, follows the numbers     *)
(* through the merging and the correction of hunks.                        *)
(***************************************************************************)
EXTENDS DiffPipeline, FiniteSetTheorems, TLAPS

Tracked ==
  /\ \A h \in Hunks : status[h] \in Statuses
  /\ orig \subseteq file
  /\ kind \in {"edit", "create", "delete"} /\ forced \in BOOLEAN
  /\ kind # "edit" => pc \in {"parse", "done"} /\ orig = {}

(* Where the run is, against the hunks still pending.                      *)
Accounting ==
  /\ pc = "parse" => Hunks = {}
  /\ pc = "git" => Remaining # {}
  /\ pc = "validate" => Pending = {} /\ ~forced
  /\ pc \in {"patch", "patched", "git", "gitted"} => ~forced
  /\ pc = "done" /\ ~forced => Pending = {}

(* In a forced run only difflib writes, and then no hunk is pending.       *)
ForcedWrites ==
  forced =>
    /\ pc \in {"parse", "difflib", "look", "apply"} => ~written
    /\ pc = "difflib" => DOMAIN rem = Hunks /\ Len(rem) \in Nat
                         /\ DOMAIN rem = 1..Len(rem)
    /\ pc \in {"tail", "done"} /\ (written \/ (pc = "tail" /\ result)) => Pending = {}

Honest ==
  ~forced /\ ~skipped =>
    /\ written => file # orig
    /\ pc \in {"patched", "gitted"} /\ result => file # orig

Placed ==
  kind = "edit" /\ ~skipped =>
    \A h \in Hunks : status[h] = "succeeded" /\ stage[h] \in {"patch", "git"}
                       => h \in file /\ h \notin orig

IInv == Tracked /\ Accounting /\ ForcedWrites /\ Honest /\ Placed

----------------------------------------------------------------------------
(* What a report leaves behind. *)

LEMMA Reported ==
  ASSUME NEW f, NEW g, Report(f, g)
  PROVE  /\ Hunks' = Hunks
         /\ \A h \in Hunks : h \in DOMAIN f => status'[h] = f[h] /\ stage'[h] = g
         /\ \A h \in Hunks : h \notin DOMAIN f =>
                               status'[h] = status[h] /\ stage'[h] = stage[h]
BY DEF Report, Hunks

LEMMA Marked ==
  ASSUME NEW S, NEW s, NEW g, Mark(S, s, g)
  PROVE  /\ Hunks' = Hunks
         /\ \A h \in Hunks : h \in S => status'[h] = s /\ stage'[h] = g
         /\ \A h \in Hunks : h \notin S =>
                               status'[h] = status[h] /\ stage'[h] = stage[h]
BY Reported DEF Mark

(* Marking the hunks that are pending leaves none.                         *)
LEMMA NonePending ==
  ASSUME NEW s \in Statuses, NEW g, s # "pending", Mark(Pending, s, g)
  PROVE  Pending' = {}
BY Marked DEF Pending, With

(* A step that reports no new success of patch or git apply, or puts in    *)
(* the file what it reports, keeps Placed.                                 *)
LEMMA PlacedStep ==
  ASSUME Placed, Hunks' = Hunks, file \subseteq file', orig' = orig, kind' = kind,
         skipped => skipped',
         \A h \in Hunks :
           \/ status'[h] = status[h] /\ stage'[h] = stage[h]
           \/ status'[h] # "succeeded"
           \/ stage'[h] = "difflib"
           \/ h \in file' /\ h \notin orig
  PROVE  Placed'
BY DEF Placed

(* The members of Next, by the part of the run they belong to.             *)

Entry == WholeFile \/ Unreadable
           \/ \E n \in 0..MaxHunks : Parse(n) \/ NoTarget(n)
PatchStage == \/ PatchDefers \/ PatchFails \/ DirectFindsAll \/ DirectUnheard
              \/ DirectApplies \/ DryRunFinds \/ DryRunApplies
GitStage   == GitRefuses \/ GitApplies \/ GitSkips
Returns    == \/ Truncated \/ ReplaceFile \/ RejectHeaders \/ FoundAll
              \/ NothingToApply \/ Applies \/ AppliesNothing \/ ApplyFails
              \/ DifflibRaises
Looks      == LookSettled \/ LookMerged \/ LookFinds \/ LookMisses

LEMMA NextParts ==
  Next <=> \/ Entry \/ PatchStage \/ AfterPatch \/ GitStage \/ AfterGit
           \/ Prepare \/ Looks \/ Select \/ Returns
           \/ FinishForced \/ Finish \/ Validated \/ Refused \/ Done
BY DEF Next, Entry, PatchStage, GitStage, Returns, Looks

----------------------------------------------------------------------------
LEMMA InitHolds == Init => IInv
BY DEF Init, IInv, Tracked, Accounting, ForcedWrites, Honest, Placed, Pending, With, Hunks

LEMMA EntryStep == IInv /\ Entry => IInv'
<1> SUFFICES ASSUME IInv, Entry PROVE IInv'
  OBVIOUS
<1> USE DEF IInv, Tracked, Accounting, ForcedWrites, Honest, Placed, Pending, With,
            Hunks, Statuses, request, flags, tracker, locals
<1>1. CASE WholeFile
  BY <1>1 DEF WholeFile
<1>2. CASE Unreadable
  BY <1>2 DEF Unreadable
<1>3. ASSUME NEW n \in 0..MaxHunks, Parse(n) PROVE IInv'
  BY <1>3, MaxHunksAssumption DEF Parse
<1>4. ASSUME NEW n \in 0..MaxHunks, NoTarget(n) PROVE IInv'
  BY <1>4 DEF NoTarget
<1> QED
  BY <1>1, <1>2, <1>3, <1>4 DEF Entry

(* What most steps share: the request stays, the file only grows, and the  *)
(* tracker changes as in PlacedStep.                                       *)
Grows ==
  /\ Hunks' = Hunks /\ file \subseteq file'
  /\ orig' = orig /\ kind' = kind /\ forced' = forced
  /\ skipped => skipped'
  /\ \A h \in Hunks : \/ status'[h] = status[h] /\ stage'[h] = stage[h]
                      \/ /\ status'[h] \in Statuses
                         /\ \/ status'[h] # "succeeded"
                            \/ stage'[h] = "difflib"
                            \/ h \in file' /\ h \notin orig

LEMMA GrowsStep ==
  ASSUME IInv, Grows, pc \notin {"parse", "done"}
  PROVE  Tracked' /\ Placed'
<1>1. Tracked'
  BY DEF IInv, Tracked, Grows
<1>2. Placed'
  BY PlacedStep DEF IInv, Grows
<1> QED
  BY <1>1, <1>2

LEMMA PatchStep == IInv /\ PatchStage => IInv'
<1> SUFFICES ASSUME IInv, PatchStage PROVE IInv'
  OBVIOUS
<1> DEFINE Wrote == \E applied \in SUBSET (Hunks \ file) :
                      applied # {} /\ file' = file \cup applied
<1>1. pc = "patch" /\ pc' = "patched" /\ UNCHANGED <<request, skipped>>
  BY DEF PatchStage, PatchDefers, PatchFails, DirectFindsAll, DirectUnheard,
         DirectApplies, DryRunFinds, DryRunApplies, Patched
<1>2. /\ Grows
      /\ \/ file' = file /\ ~result' /\ written' = written
         \/ Wrote
  <2>1. CASE PatchDefers
    BY <2>1, <1>1, Marked DEF PatchDefers, Patched, Grows, Statuses, request
  <2>2. CASE PatchFails
    BY <2>2, <1>1, Marked DEF PatchFails, Patched, Grows, Statuses, request
  <2>3. CASE DirectFindsAll
    <3>1. PICK dropped \in SUBSET Hunks : \E heads \in SUBSET (Hunks \ dropped) :
            /\ Patched(FALSE)
            /\ Report([h \in heads \cup dropped |->
                         IF h \in heads THEN "already_applied" ELSE "failed"], "patch")
            /\ UNCHANGED <<file, written>>
      BY <2>3 DEF DirectFindsAll
    <3>2. PICK heads \in SUBSET (Hunks \ dropped) :
            /\ Patched(FALSE)
            /\ Report([h \in heads \cup dropped |->
                         IF h \in heads THEN "already_applied" ELSE "failed"], "patch")
            /\ UNCHANGED <<file, written>>
      BY <3>1
    <3> QED
      BY <3>2, <1>1, Reported DEF Patched, Grows, Statuses, request
  <2>4. CASE DirectUnheard
    BY <2>4, <1>1, Marked DEF DirectUnheard, Patched, Grows, Statuses, request
  <2>5. CASE DirectApplies
    <3>1. PICK applied \in SUBSET (Hunks \ file) :
            /\ applied # {}
            /\ Report([h \in Hunks |->
                         IF h \in applied THEN "succeeded" ELSE "failed"], "patch")
            /\ file' = file \cup applied
      BY <2>5 DEF DirectApplies
    <3> QED
      BY <3>1, <1>1, Reported DEF Grows, Statuses, request, IInv, Tracked
  <2>6. CASE DryRunFinds
    <3>1. PICK again \in SUBSET (Hunks \cap file) :
            Report([h \in Hunks |->
                      IF h \in again THEN "already_applied" ELSE "failed"], "patch")
      BY <2>6 DEF DryRunFinds
    <3> QED
      BY <2>6, <3>1, <1>1, Reported DEF DryRunFinds, Patched, Grows, Statuses, request
  <2>7. CASE DryRunApplies
    <3>1. PICK applied \in SUBSET (Hunks \ file) :
            /\ applied # {}
            /\ Report([h \in Hunks |->
                         IF h \in applied THEN "succeeded" ELSE "failed"], "patch")
            /\ file' = file \cup applied
      BY <2>7 DEF DryRunApplies
    <3> QED
      BY <3>1, <1>1, Reported DEF Grows, Statuses, request, IInv, Tracked
  <2> QED
    BY <2>1, <2>2, <2>3, <2>4, <2>5, <2>6, <2>7 DEF PatchStage
<1>3. Tracked' /\ Placed'
  BY <1>1, <1>2, GrowsStep
<1>4. Accounting' /\ ForcedWrites'
  BY <1>1 DEF IInv, Accounting, ForcedWrites, request
<1>5. Honest'
  <2>1. CASE file' = file /\ ~result' /\ written' = written
    BY <2>1, <1>1 DEF IInv, Honest, request
  <2>2. CASE Wrote
    <3>1. file' # orig
      BY <2>2 DEF IInv, Tracked
    <3> QED
      BY <3>1, <1>1 DEF Honest, request
  <2> QED
    BY <2>1, <2>2, <1>2
<1> QED
  BY <1>3, <1>4, <1>5 DEF IInv

LEMMA AfterPatchStep == IInv /\ AfterPatch => IInv'
<1> SUFFICES ASSUME IInv, AfterPatch PROVE IInv'
  OBVIOUS
<1>1. Tracked' /\ Placed'
  BY GrowsStep DEF AfterPatch, Grows, request, tracker, Hunks, IInv, Tracked
<1>2. AllSettled => Pending = {}
  BY DEF AllSettled, Settled, Pending, With
<1>3. pc' = "git" => Remaining' # {}
  BY DEF AfterPatch, AllSettled, Settled, Remaining, With, IInv, Tracked, Statuses,
         tracker, Hunks
<1>4. Accounting'
  BY <1>2, <1>3 DEF AfterPatch, IInv, Accounting, request, tracker, Pending, With, Hunks
<1>5. ForcedWrites'
  BY DEF AfterPatch, IInv, Accounting, ForcedWrites, request
<1>6. Honest'
  BY DEF AfterPatch, IInv, Honest, request
<1> QED
  BY <1>1, <1>4, <1>5, <1>6 DEF IInv

LEMMA GitStep == IInv /\ GitStage => IInv'
<1> SUFFICES ASSUME IInv, GitStage PROVE IInv'
  OBVIOUS
<1>1. pc = "git" /\ pc' = "gitted" /\ UNCHANGED request
  BY DEF GitStage, GitRefuses, GitApplies, GitSkips, Gitted
<1>2. Accounting' /\ ForcedWrites'
  BY <1>1 DEF IInv, Accounting, ForcedWrites, request
<1>3. CASE GitRefuses
  <2>1. Grows /\ skipped' = skipped
    BY <1>3, <1>1, Marked DEF GitRefuses, Grows, Statuses, request
  <2>2. Honest'
    BY <1>3, <1>1 DEF GitRefuses, Gitted, IInv, Honest, request
  <2> QED
    BY <2>1, <2>2, <1>1, <1>2, GrowsStep DEF IInv
<1>4. CASE GitApplies
  <2>1. /\ Remaining \cap orig = {}
        /\ file' = file \cup Remaining /\ skipped' = skipped
    BY <1>4 DEF GitApplies, IInv, Tracked
  <2>2. Grows
    BY <1>4, <2>1, <1>1, Marked DEF GitApplies, Grows, Statuses, request
  <2>3. file' # orig
    BY <2>1, <1>1 DEF IInv, Accounting
  <2>4. Honest'
    BY <2>3, <1>1 DEF Honest, request
  <2> QED
    BY <2>2, <2>4, <1>1, <1>2, GrowsStep DEF IInv
<1>5. CASE GitSkips
  <2>1. Tracked'
    BY <1>5, <1>1, Marked DEF GitSkips, IInv, Tracked, Statuses, request
  <2>2. Placed' /\ Honest'
    BY <1>5 DEF GitSkips, Placed, Honest
  <2> QED
    BY <2>1, <2>2, <1>2 DEF IInv
<1> QED
  BY <1>3, <1>4, <1>5 DEF GitStage

LEMMA AfterGitStep == IInv /\ AfterGit => IInv'
<1> SUFFICES ASSUME IInv, AfterGit PROVE IInv'
  OBVIOUS
<1>1. /\ pc = "gitted" /\ pc' \in {"validate", "difflib"}
      /\ UNCHANGED <<request, file, skipped>>
  BY DEF AfterGit
<1>2. Grows
  <2>1. CASE UNCHANGED tracker
    BY <2>1, <1>1 DEF Grows, request, tracker, Hunks
  <2>2. CASE Mark(Failed, "pending", "difflib")
    BY <2>2, <1>1, Marked DEF Grows, request, Statuses
  <2> QED
    BY <2>1, <2>2 DEF AfterGit
<1>3. Accounting'
  <2>1. AllSettled => Pending = {}
    BY DEF AllSettled, Settled, Pending, With
  <2>2. pc' = "validate" => AllSettled /\ UNCHANGED tracker
    BY DEF AfterGit
  <2>3. pc' = "validate" => Pending' = {}
    BY <2>1, <2>2 DEF tracker, Pending, With, Hunks
  <2> QED
    BY <2>3, <1>1 DEF IInv, Accounting, request
<1>4. ForcedWrites'
  BY <1>1 DEF IInv, Accounting, ForcedWrites, request
<1>5. Honest'
  <2>1. written' => written \/ result \/ file # orig
    BY DEF AfterGit
  <2>2. ~forced /\ ~skipped /\ written' => file # orig
    BY <2>1, <1>1 DEF IInv, Honest
  <2> QED
    BY <2>2, <1>1 DEF Honest, request
<1> QED
  BY <1>1, <1>2, <1>3, <1>4, <1>5, GrowsStep DEF IInv

LEMMA PrepareStep == IInv /\ Prepare => IInv'
<1> SUFFICES ASSUME IInv, Prepare PROVE IInv'
  OBVIOUS
<1>1. /\ pc = "difflib" /\ pc' = "look"
      /\ UNCHANGED <<request, file, flags, skipped>>
      /\ \E said : Mark(said, "failed", "difflib")
  BY DEF Prepare
<1>2. Grows
  BY <1>1, Marked DEF Grows, request, Statuses
<1>3. Accounting' /\ ForcedWrites' /\ Honest'
  BY <1>1 DEF IInv, Accounting, ForcedWrites, Honest, request, flags
<1> QED
  BY <1>1, <1>2, <1>3, GrowsStep DEF IInv

LEMMA LookStep == IInv /\ Looks => IInv'
<1> SUFFICES ASSUME IInv, Looks PROVE IInv'
  OBVIOUS
<1>1. pc = "look" /\ UNCHANGED <<request, pc, file, flags, skipped>>
  BY DEF Looks, LookSettled, LookMerged, LookFinds, LookMisses, Looked
<1>2. \/ UNCHANGED tracker
      \/ \E S : Mark(S, "already_applied", "difflib")
      \/ \E S : Mark(S, "succeeded", "difflib")
  BY DEF Looks, LookSettled, LookMerged, LookFinds, LookMisses, MarkMerged
<1>3. Grows
  <2>1. CASE UNCHANGED tracker
    BY <2>1, <1>1 DEF Grows, request, tracker, Hunks
  <2>2. ASSUME NEW S, Mark(S, "already_applied", "difflib") PROVE Grows
    BY <2>2, <1>1, Marked DEF Grows, request, Statuses
  <2>3. ASSUME NEW S, Mark(S, "succeeded", "difflib") PROVE Grows
    BY <2>3, <1>1, Marked DEF Grows, request, Statuses
  <2> QED
    BY <2>1, <2>2, <2>3, <1>2
<1>4. Accounting' /\ ForcedWrites' /\ Honest'
  BY <1>1 DEF IInv, Accounting, ForcedWrites, Honest, request, flags
<1> QED
  BY <1>1, <1>3, <1>4, GrowsStep DEF IInv

LEMMA SelectStep == IInv /\ Select => IInv'
<1> SUFFICES ASSUME IInv, Select PROVE IInv'
  OBVIOUS
<1>1. /\ pc = "look"
      /\ pc' = "apply" \/ (pc' = "tail" /\ result' = FALSE)
      /\ UNCHANGED <<request, file, flags, skipped>>
      /\ \E S : Mark(S, "failed", "difflib")
  BY DEF Select, Searched, Return, flags
<1>2. Grows
  BY <1>1, Marked DEF Grows, request, Statuses
<1>3. Accounting' /\ ForcedWrites' /\ Honest'
  BY <1>1 DEF IInv, Accounting, ForcedWrites, Honest, request, flags
<1> QED
  BY <1>1, <1>2, <1>3, GrowsStep DEF IInv

(* Each way out of difflib: a change that is claimed was made, and in a    *)
(* forced run it settles every hunk.                                       *)
LEMMA ReturnStep == IInv /\ Returns => IInv'
<1> SUFFICES ASSUME IInv, Returns PROVE IInv'
  OBVIOUS
<1>1. /\ pc \in {"difflib", "look", "apply"} /\ pc' = "tail"
      /\ UNCHANGED <<request, skipped>>
  BY DEF Returns, Truncated, ReplaceFile, RejectHeaders, FoundAll, NothingToApply,
         Applies, AppliesNothing, ApplyFails, DifflibRaises, Return, Searched
<1>2. \/ UNCHANGED tracker
      \/ \E S : \E s \in Statuses : Mark(S, s, "difflib")
  BY DEF Returns, Truncated, ReplaceFile, RejectHeaders, FoundAll, NothingToApply,
         Applies, AppliesNothing, ApplyFails, DifflibRaises, Statuses
<1>3. file \subseteq file'
  BY DEF Returns, Truncated, ReplaceFile, RejectHeaders, FoundAll, NothingToApply,
         Applies, AppliesNothing, ApplyFails, DifflibRaises
<1>4. Grows
  <2>1. CASE UNCHANGED tracker
    BY <2>1, <1>1, <1>3 DEF Grows, request, tracker, Hunks
  <2>2. ASSUME NEW S, NEW s \in Statuses, Mark(S, s, "difflib") PROVE Grows
    BY <2>2, <1>1, <1>3, Marked DEF Grows, request
  <2> QED
    BY <2>1, <2>2, <1>2
<1>5. CASE Applies
  <2>1. Pending' = {}
    BY <1>5, NonePending DEF Applies, Statuses
  <2>2. file' # orig
    BY <1>5 DEF Applies, IInv, Tracked
  <2>3. Accounting' /\ ForcedWrites' /\ Honest'
    BY <2>1, <2>2, <1>1 DEF Accounting, ForcedWrites, Honest, request
  <2> QED
    BY <2>3, <1>1, <1>4, GrowsStep DEF IInv
<1>6. CASE ReplaceFile
  <2>1. Mark({1}, "succeeded", "difflib") /\ Len(rem) = 1 /\ pc = "difflib"
    BY <1>6 DEF ReplaceFile
  <2>2. forced => Pending' = {}
    <3>1. forced => Hunks = {1}
      BY <2>1 DEF IInv, ForcedWrites
    <3> QED
      BY <3>1, <2>1, Marked DEF Pending, With
  <2>3. written' = written
    BY <1>6 DEF ReplaceFile
  <2>4. Honest'
    BY <2>3, <1>1, <1>3 DEF IInv, Tracked, Honest, request
  <2>5. Accounting' /\ ForcedWrites'
    BY <2>2, <1>1 DEF Accounting, ForcedWrites, request
  <2> QED
    BY <2>4, <2>5, <1>1, <1>4, GrowsStep DEF IInv
<1>7. CASE ~Applies /\ ~ReplaceFile
  <2>1. result' = FALSE /\ file' = file /\ (written' = written \/ written' = FALSE)
    BY <1>7 DEF Returns, Truncated, RejectHeaders, FoundAll, NothingToApply,
                AppliesNothing, ApplyFails, DifflibRaises, Return
  <2>2. Accounting' /\ ForcedWrites' /\ Honest'
    BY <2>1, <1>1 DEF IInv, Accounting, ForcedWrites, Honest, request
  <2> QED
    BY <2>2, <1>1, <1>4, GrowsStep DEF IInv
<1> QED
  BY <1>5, <1>6, <1>7

LEMMA EndStep == IInv /\ (FinishForced \/ Finish \/ Validated \/ Refused) => IInv'
<1> SUFFICES ASSUME IInv, FinishForced \/ Finish \/ Validated \/ Refused
             PROVE  IInv'
  OBVIOUS
<1>1. CASE FinishForced
  <2>1. /\ pc = "tail" /\ pc' = "done" /\ forced
        /\ UNCHANGED <<request, tracker, file, skipped>>
        /\ written' => written \/ result
    BY <1>1 DEF FinishForced
  <2>2. Grows
    BY <2>1 DEF Grows, request, tracker, Hunks
  <2>3. Accounting' /\ Honest'
    BY <2>1 DEF Accounting, Honest, request
  <2>4. ForcedWrites'
    BY <2>1 DEF IInv, ForcedWrites, request, tracker, Pending, With, Hunks
  <2> QED
    BY <2>1, <2>2, <2>3, <2>4, GrowsStep DEF IInv
<1>2. CASE Finish
  <2>1. /\ pc = "tail" /\ pc' = "validate" /\ ~forced
        /\ UNCHANGED <<request, file, written, skipped>>
        /\ Mark(Pending, "failed", "difflib")
    BY <1>2 DEF Finish
  <2>2. Grows
    BY <2>1, Marked DEF Grows, request, Statuses
  <2>3. Pending' = {}
    BY <2>1, NonePending DEF Statuses
  <2>4. Accounting' /\ ForcedWrites' /\ Honest'
    BY <2>1, <2>3 DEF IInv, Accounting, ForcedWrites, Honest, request
  <2> QED
    BY <2>1, <2>2, <2>4, GrowsStep DEF IInv
<1>3. CASE Validated
  <2>1. /\ pc = "validate" /\ pc' = "done"
        /\ UNCHANGED <<request, tracker, file, written, skipped>>
    BY <1>3 DEF Validated, flags
  <2>2. Grows
    BY <2>1 DEF Grows, request, tracker, Hunks
  <2>3. Accounting' /\ ForcedWrites' /\ Honest'
    BY <2>1 DEF IInv, Accounting, ForcedWrites, Honest, request, tracker, Pending,
                With, Hunks
  <2> QED
    BY <2>1, <2>2, <2>3, GrowsStep DEF IInv
<1>4. CASE Refused
  <2>1. /\ pc = "validate" /\ pc' = "done" /\ ~written'
        /\ UNCHANGED <<request, stage, skipped>>
        /\ orig \subseteq file'
        /\ status' = [h \in Hunks |-> IF h \in Succeeded THEN "failed" ELSE status[h]]
    BY <1>4 DEF Refused, IInv, Tracked, request
  <2>2. Hunks' = Hunks /\ \A h \in Hunks : status'[h] # "succeeded"
                       /\ (status'[h] = status[h] \/ status'[h] = "failed")
    BY <2>1 DEF Hunks, Succeeded, With
  <2>3. Tracked' /\ Placed'
    BY <2>1, <2>2 DEF IInv, Tracked, Placed, Statuses, request
  <2>4. Accounting' /\ ForcedWrites' /\ Honest'
    BY <2>1, <2>2 DEF IInv, Accounting, ForcedWrites, Honest, request, Pending, With
  <2> QED
    BY <2>3, <2>4 DEF IInv
<1> QED
  BY <1>1, <1>2, <1>3, <1>4

LEMMA StutterStep == IInv /\ UNCHANGED vars => IInv'
BY DEF vars, request, tracker, flags, locals, IInv, Tracked, Accounting, ForcedWrites,
       Honest, Placed, Pending, Remaining, With, Hunks

LEMMA Inductive == IInv /\ [Next]_vars => IInv'
BY NextParts, EntryStep, PatchStep, AfterPatchStep, GitStep, AfterGitStep, PrepareStep,
   LookStep, SelectStep, ReturnStep, EndStep, StutterStep DEF Done

(* The records of the hunks stay consistent with the file and with the     *)
(* place in the pipeline: the strengthening the first theorems rest on.    *)
THEOREM IInvAlways == Spec => []IInv
BY InitHolds, Inductive, PTL DEF Spec

----------------------------------------------------------------------------
(* Every run that was not forced answers for every hunk, whatever the      *)
(* stages report and in whatever numbers.                                  *)
THEOREM AccountedForAlways == Spec => []AccountedFor
<1>1. IInv => AccountedFor
  BY DEF IInv, Accounting, AccountedFor
<1> QED
  BY <1>1, IInvAlways, PTL

(* A result with changes_written has changed the file.                     *)
THEOREM WrittenIsChangedAlways == Spec => []WrittenIsChanged
<1>1. IInv => WrittenIsChanged
  BY DEF IInv, Honest, WrittenIsChanged
<1> QED
  BY <1>1, IInvAlways, PTL

(* An undo is only offered for what the run itself has put in the file.    *)
THEOREM ReversibleIsExactAlways == Spec => []ReversibleIsExact
<1>1. IInv => ReversibleIsExact
  <2> SUFFICES ASSUME IInv, pc = "done", written, IsSafelyReversible, ~skipped,
                      NEW h \in Hunks
               PROVE  h \in file /\ h \notin orig
    BY DEF ReversibleIsExact
  <2>1. Pending = {}
    BY DEF IInv, Accounting, ForcedWrites
  <2>2. status[h] = "succeeded"
    BY <2>1 DEF IsSafelyReversible, Pending, Failed, Already, With, IInv, Tracked, Statuses
  <2>3. stage[h] \in {"patch", "git"}
    BY <2>2 DEF IsSafelyReversible, Succeeded, With
  <2> QED
    BY <2>2, <2>3 DEF IsSafelyReversible, IInv, Placed
<1> QED
  BY <1>1, IInvAlways, PTL

----------------------------------------------------------------------------
(* Numbers, positions and identifiers of hunks.                            *)

(* The number of members of S below h.                                     *)
Below(S, h) == Cardinality({g \in S : g < h})

(* A set of numbers that is not empty has a least member.                  *)
LEMMA Least ==
    ASSUME NEW S \in SUBSET Nat, S # {}
    PROVE  \E m \in S : \A x \in S : m <= x
  <1> DEFINE R == OpToRel(<, Nat)
  <1>1. IsWellFoundedOn(R, Nat)
    BY NatLessThanWellFounded
  <1>2. \A m, x \in Nat : x < m => <<x, m>> \in R
    BY DEF OpToRel
  <1> HIDE DEF R
  <1>3. PICK m \in S : \A x \in S : <<x, m>> \notin R
    BY <1>1, WFMin
  <1>4. ASSUME NEW x \in S PROVE m <= x
    <2>1. x \in Nat /\ m \in Nat
      OBVIOUS
    <2>2. ~(x < m)
      BY <1>2, <1>3, <2>1
    <2> QED
      BY <2>1, <2>2
  <1> QED
    BY <1>4

(* Every place of a finite set of numbers has a member: the members have   *)
(* distinct numbers below them, as many as there are places.               *)
LEMMA RankFacts ==
    ASSUME NEW S \in SUBSET Nat, IsFiniteSet(S)
    PROVE  \A k \in 1 .. Cardinality(S) : \E h \in S : Below(S, h) = k - 1
  <1> DEFINE n == Cardinality(S)
             R == 0 .. n - 1
             f == [h \in S |-> Below(S, h)]
  <1>1. n \in Nat /\ R \subseteq Nat
    BY FS_CardinalityType
  <1>2. \A h \in S : /\ IsFiniteSet({g \in S : g < h})
                     /\ Below(S, h) \in R
    <2> SUFFICES ASSUME NEW h \in S
                 PROVE  IsFiniteSet({g \in S : g < h}) /\ Below(S, h) \in R
      OBVIOUS
    <2> DEFINE T == {g \in S : g < h}
    <2>1. T \subseteq S /\ T # S
      OBVIOUS
    <2>2. IsFiniteSet(T) /\ Cardinality(T) <= n /\ Cardinality(T) # n
      BY <2>1, FS_Subset
    <2>3. Cardinality(T) \in Nat
      BY <2>2, FS_CardinalityType
    <2> HIDE DEF n
    <2> QED
      BY <1>1, <2>2, <2>3 DEF Below
  <1>3. ASSUME NEW h \in S, NEW i \in S, h < i
        PROVE  Below(S, h) < Below(S, i)
    <2> DEFINE T == {g \in S : g < h}
               U == {g \in S : g < i}
    <2>0. h \in Nat /\ i \in Nat /\ \A g \in S : g \in Nat
      OBVIOUS
    <2>1. T \in SUBSET U /\ h \in U /\ h \notin T
      <3>1. ASSUME NEW g \in T PROVE g \in U
        <4>1. g \in S /\ g \in Nat /\ g < h
          BY <2>0
        <4>2. g < i
          BY <4>1, <2>0, <1>3
        <4> QED
          BY <4>1, <4>2
      <3>2. h \in U
        BY <1>3
      <3>3. h \notin T
        BY <2>0
      <3> QED
        BY <3>1, <3>2, <3>3
    <2>2. IsFiniteSet(U) /\ IsFiniteSet(T)
      BY <1>2
    <2>3. Cardinality(T) <= Cardinality(U) /\ Cardinality(U) # Cardinality(T)
      BY <2>1, <2>2, FS_Subset
    <2>4. Cardinality(T) \in Nat /\ Cardinality(U) \in Nat
      BY <2>2, FS_CardinalityType
    <2> QED
      BY <2>3, <2>4 DEF Below
  <1>4. f \in Injection(S, R)
    <2>1. f \in [S -> R]
      BY <1>2
    <2>2. \A h, i \in S : f[h] = f[i] => h = i
      <3> SUFFICES ASSUME NEW h \in S, NEW i \in S, h # i PROVE f[h] # f[i]
        OBVIOUS
      <3>1. Below(S, h) \in Nat /\ Below(S, i) \in Nat
        <4>1. Below(S, h) \in R /\ Below(S, i) \in R
          BY <1>2
        <4> HIDE DEF R
        <4> QED
          BY <4>1, <1>1
      <3>2. h < i \/ i < h
        OBVIOUS
      <3> QED
        BY <1>3, <3>1, <3>2
    <2> QED
      BY <2>1, <2>2 DEF Injection, IsInjective
  <1>5. IsFiniteSet(R) /\ Cardinality(R) = n
    <2> HIDE DEF n
    <2> QED
      BY <1>1, FS_Interval
  <1>6. f \in Surjection(S, R)
    BY <1>4, <1>5, FS_Injection
  <1> QED
    <2>1. \A r \in R : \E h \in S : f[h] = r
      BY <1>6 DEF Surjection
    <2>2. ASSUME NEW k \in 1 .. n PROVE \E h \in S : Below(S, h) = k - 1
      <3>1. k - 1 \in R
        BY <1>1
      <3> QED
        BY <2>1, <3>1
    <2> QED
      BY <2>2


(* So InOrder lists the members of a set.                                  *)
LEMMA InOrderFacts ==
  ASSUME NEW S \in SUBSET Nat, IsFiniteSet(S)
  PROVE  /\ Cardinality(S) \in Nat
         /\ InOrder(S) \in [1..Cardinality(S) -> S]
         /\ Len(InOrder(S)) = Cardinality(S)
<1>1. Cardinality(S) \in Nat
  BY FS_CardinalityType
<1>2. ASSUME NEW k \in 1..Cardinality(S)
      PROVE  (CHOOSE h \in S : Cardinality({g \in S : g < h}) = k - 1) \in S
  <2>1. \E h \in S : Cardinality({g \in S : g < h}) = k - 1
    BY RankFacts DEF Below
  <2> QED
    BY <2>1
<1>3. InOrder(S) \in [1..Cardinality(S) -> S]
  BY <1>2 DEF InOrder
<1> QED
  BY <1>1, <1>3

Staged ==
  /\ pc \in PCs
  /\ DOMAIN stage = Hunks /\ \A h \in Hunks : stage[h] \in Stages
  /\ written \in BOOLEAN /\ error \in BOOLEAN /\ result \in BOOLEAN
  /\ modified \in BOOLEAN /\ found \in BOOLEAN /\ processed \in BOOLEAN
  /\ skipped \in BOOLEAN

Numbered == (\E n \in 0..MaxHunks : Hunks = 1..n) \/ Hunks = {1}

(* Every name of a hunk means one: a position of the remaining diff, the   *)
(* number of a unit, and, while units are looked at, the place of a unit.  *)
Positions ==
  /\ \A p \in DOMAIN rem : rem[p] \in Hunks
  /\ pc = "difflib" => DOMAIN rem = 1..Cardinality(Pending)
  /\ \A u \in DOMAIN units : /\ units[u].number \in DOMAIN rem
                             /\ units[u].hunks \subseteq Hunks
  /\ pc \notin {"look", "apply"} => DOMAIN units = {}
  /\ pc = "look" => /\ Len(ids) >= Len(units)
                    /\ DOMAIN units \subseteq DOMAIN ids

Touched == With({"succeeded", "failed"})

(* Once the file has changed, some hunk is reported as applied or failed,  *)
(* and no unit goes by its number.                                         *)
Evidence ==
  /\ pc \in {"parse", "patch"} => file = orig
  /\ pc \in {"patched", "git", "gitted", "difflib"} /\ file # orig => Succeeded # {}
  /\ pc = "look" /\ DOMAIN units # {} => \A u \in DOMAIN ids : ids[u] \in Hunks
  /\ pc = "look" /\ file # orig =>
       \E h \in Touched : DOMAIN units # {} => \A u \in DOMAIN ids : ids[u] # h
  /\ pc = "apply" => With({"pending", "failed"}) # {}
  /\ pc \in {"apply", "tail", "validate", "done"} /\ file # orig => Touched # {}

JInv == Staged /\ Numbered /\ Positions /\ Evidence

LEMMA HunksAreNumbers ==
  ASSUME Numbered
  PROVE  Hunks \in SUBSET Nat /\ IsFiniteSet(Hunks) /\ (Hunks # {} => 1 \in Hunks)
<1>1. CASE Hunks = {1}
  BY <1>1, FS_Singleton
<1>2. ASSUME NEW n \in 0..MaxHunks, Hunks = 1..n
      PROVE  Hunks \in SUBSET Nat /\ IsFiniteSet(Hunks) /\ (Hunks # {} => 1 \in Hunks)
  <2>1. n \in Nat
    BY MaxHunksAssumption
  <2>2. IsFiniteSet(1..n)
    BY <2>1, FS_Interval
  <2> QED
    BY <1>2, <2>1, <2>2
<1> QED
  BY <1>1, <1>2 DEF Numbered

LEMMA ReportStaged ==
  ASSUME Staged, NEW f, NEW g \in Stages, Report(f, g)
  PROVE  /\ Hunks' = Hunks /\ DOMAIN stage' = Hunks
         /\ \A h \in Hunks : stage'[h] \in Stages
BY DEF Report, Hunks, Staged

LEMMA MarkStaged ==
  ASSUME Staged, NEW S, NEW s, NEW g \in Stages, Mark(S, s, g)
  PROVE  /\ Hunks' = Hunks /\ DOMAIN stage' = Hunks
         /\ \A h \in Hunks : stage'[h] \in Stages
BY ReportStaged DEF Mark

LEMMA PositionsKept ==
  ASSUME Positions, Hunks' = Hunks, rem' = rem, units' = units,
         pc' # "difflib", pc' \in {"look", "apply"} <=> pc \in {"look", "apply"},
         pc' = "look" => pc = "look" /\ ids' = ids
  PROVE  Positions'
BY DEF Positions

LEMMA JInit == Init => JInv
<1> SUFFICES ASSUME Init PROVE JInv
  OBVIOUS
<1>1. Hunks = {} /\ DOMAIN stage = {} /\ DOMAIN rem = {} /\ DOMAIN units = {}
  BY DEF Init, Hunks
<1>2. Staged
  BY <1>1 DEF Init, Staged, PCs
<1>3. Numbered
  <2>1. 0 \in 0..MaxHunks /\ 1..0 = {}
    BY MaxHunksAssumption
  <2> QED
    BY <1>1, <2>1 DEF Numbered
<1>4. Positions
  BY <1>1 DEF Init, Positions
<1>5. Evidence
  BY DEF Init, Evidence
<1> QED
  BY <1>2, <1>3, <1>4, <1>5 DEF JInv

LEMMA JEntry == IInv /\ JInv /\ Entry => JInv'
<1> SUFFICES ASSUME IInv, JInv, Entry PROVE JInv'
  OBVIOUS
<1>0. pc = "parse" /\ Hunks = {} /\ file = orig /\ DOMAIN rem = {} /\ DOMAIN units = {}
  <2>1. pc = "parse"
    BY DEF Entry, WholeFile, Unreadable, Parse, NoTarget
  <2> QED
    BY <2>1 DEF IInv, Accounting, JInv, Positions, Evidence
<1> USE DEF Staged, Numbered, Positions, Evidence, Hunks, request, flags, tracker, locals
<1>1. CASE WholeFile
  <2>1. Hunks' = {1} /\ 1 \in Touched'
    BY <1>1 DEF WholeFile, Touched, With
  <2>2. Staged' /\ Numbered'
    BY <1>1, <2>1 DEF WholeFile, JInv, PCs, Stages
  <2>3. Positions' /\ Evidence'
    BY <1>0, <1>1, <2>1 DEF WholeFile, JInv
  <2> QED
    BY <2>2, <2>3 DEF JInv
<1>2. CASE Unreadable
  <2>1. Staged' /\ Numbered'
    BY <1>2 DEF Unreadable, JInv, PCs
  <2>2. Positions' /\ Evidence'
    BY <1>0, <1>2 DEF Unreadable, JInv
  <2> QED
    BY <2>1, <2>2 DEF JInv
<1>3. ASSUME NEW n \in 0..MaxHunks, Parse(n) PROVE JInv'
  <2>1. n \in Nat /\ Hunks' = 1..n /\ DOMAIN rem' = 1..n
    BY <1>3, MaxHunksAssumption DEF Parse
  <2>2. Staged' /\ Numbered'
    BY <1>3, <2>1 DEF Parse, JInv, PCs, Stages
  <2>3. Pending' = 1..n /\ Cardinality(1..n) = n
    BY <1>3, <2>1, FS_Interval DEF Parse, Pending, With
  <2>4. Positions'
    BY <1>0, <1>3, <2>1, <2>3 DEF Parse, JInv
  <2>5. Evidence'
    BY <1>0, <1>3 DEF Parse
  <2> QED
    BY <2>2, <2>4, <2>5 DEF JInv
<1>4. ASSUME NEW n \in 0..MaxHunks, NoTarget(n) PROVE JInv'
  <2>1. n \in Nat /\ Hunks' = 1..n
    BY <1>4, MaxHunksAssumption DEF NoTarget
  <2>2. Staged' /\ Numbered'
    BY <1>4, <2>1 DEF NoTarget, JInv, PCs, Stages
  <2>3. Positions' /\ Evidence'
    BY <1>0, <1>4 DEF NoTarget
  <2> QED
    BY <2>2, <2>3 DEF JInv
<1> QED
  BY <1>1, <1>2, <1>3, <1>4 DEF Entry

LEMMA JPatch == IInv /\ JInv /\ PatchStage => JInv'
<1> SUFFICES ASSUME IInv, JInv, PatchStage PROVE JInv'
  OBVIOUS
<1>1. /\ pc = "patch" /\ pc' = "patched" /\ UNCHANGED <<request, error, locals, skipped>>
      /\ result' \in BOOLEAN /\ (written' = written \/ written' \in BOOLEAN)
      /\ \E f : Report(f, "patch")
  BY DEF PatchStage, PatchDefers, PatchFails, DirectFindsAll, DirectUnheard,
         DirectApplies, DryRunFinds, DryRunApplies, Patched, Mark
<1>2. /\ Hunks' = Hunks /\ DOMAIN stage' = Hunks
      /\ \A h \in Hunks : stage'[h] \in Stages
  BY <1>1, ReportStaged DEF JInv, Stages
<1>3. Staged' /\ Numbered'
  BY <1>1, <1>2 DEF JInv, Staged, Numbered, PCs, locals
<1>4. Positions'
  BY <1>1, <1>2, PositionsKept DEF JInv, locals
<1>5. file' # orig' => Succeeded' # {}
  <2>1. CASE file' = file
    BY <2>1, <1>1 DEF JInv, Evidence, request
  <2>2. CASE DirectApplies \/ DryRunApplies
    <3>1. PICK applied \in SUBSET (Hunks \ file) :
            /\ applied # {}
            /\ Report([h \in Hunks |->
                         IF h \in applied THEN "succeeded" ELSE "failed"], "patch")
      BY <2>2 DEF DirectApplies, DryRunApplies
    <3> QED
      BY <3>1, Reported DEF Succeeded, With
  <2> QED
    BY <2>1, <2>2 DEF PatchStage, PatchDefers, PatchFails, DirectFindsAll,
                      DirectUnheard, DryRunFinds
<1>6. Evidence'
  BY <1>1, <1>5 DEF Evidence
<1> QED
  BY <1>3, <1>4, <1>6 DEF JInv

LEMMA JAfterPatch == IInv /\ JInv /\ AfterPatch => JInv'
<1> SUFFICES ASSUME IInv, JInv, AfterPatch PROVE JInv'
  OBVIOUS
<1>1. /\ pc = "patched" /\ pc' \in {"git", "validate"}
      /\ UNCHANGED <<request, tracker, file, error, result, locals, skipped>>
      /\ (written' = written \/ written' = (written \/ result))
  BY DEF AfterPatch
<1>2. Staged' /\ Numbered'
  BY <1>1 DEF JInv, Staged, Numbered, PCs, locals, tracker, Hunks
<1>3. Positions'
  BY <1>1, PositionsKept DEF JInv, locals, tracker, Hunks
<1>4. Evidence'
  BY <1>1 DEF JInv, Evidence, request, tracker, Hunks, Succeeded, Touched, With
<1> QED
  BY <1>2, <1>3, <1>4 DEF JInv

LEMMA JGit == IInv /\ JInv /\ GitStage => JInv'
<1> SUFFICES ASSUME IInv, JInv, GitStage PROVE JInv'
  OBVIOUS
<1>1. /\ pc = "git" /\ pc' = "gitted" /\ UNCHANGED <<request, error, locals>>
      /\ result' \in BOOLEAN /\ (written' = written \/ written' = TRUE)
      /\ (skipped' = skipped \/ skipped' = TRUE)
  BY DEF GitStage, GitRefuses, GitApplies, GitSkips, Gitted
<1>2. /\ \/ Mark(Pending, "failed", "git") /\ file' = file
         \/ Mark(Remaining, "succeeded", "git")
         \/ Mark(Pending, "succeeded", "git") /\ file' = file
  BY DEF GitStage, GitRefuses, GitApplies, GitSkips
<1>3. /\ Hunks' = Hunks /\ DOMAIN stage' = Hunks
      /\ \A h \in Hunks : stage'[h] \in Stages
  BY <1>2, MarkStaged DEF JInv, Stages
<1>4. Staged' /\ Numbered'
  BY <1>1, <1>3 DEF JInv, Staged, Numbered, PCs, locals
<1>5. Positions'
  BY <1>1, <1>3, PositionsKept DEF JInv, locals
<1>6. file' # orig' => Succeeded' # {}
  <2>1. CASE Mark(Remaining, "succeeded", "git")
    <3>1. PICK h \in Hunks : h \in Remaining
      BY <1>1 DEF IInv, Accounting, Remaining, With
    <3> QED
      BY <2>1, <3>1, Marked DEF Succeeded, With
  <2>2. CASE \E s : Mark(Pending, s, "git") /\ file' = file
    <3>1. Succeeded \subseteq Succeeded'
      BY <2>2, Marked DEF Succeeded, Pending, With
    <3> QED
      BY <2>2, <3>1, <1>1 DEF JInv, Evidence, request
  <2> QED
    BY <2>1, <2>2, <1>2
<1>7. Evidence'
  BY <1>1, <1>6 DEF Evidence
<1> QED
  BY <1>4, <1>5, <1>7 DEF JInv

LEMMA JAfterGit == IInv /\ JInv /\ AfterGit => JInv'
<1> SUFFICES ASSUME IInv, JInv, AfterGit PROVE JInv'
  OBVIOUS
<1>1. /\ pc = "gitted" /\ pc' \in {"validate", "difflib"}
      /\ UNCHANGED <<request, file, error, result, units, found, processed, skipped>>
  BY DEF AfterGit
<1>2. CASE pc' = "validate"
  <2>1. UNCHANGED <<tracker, modified, rem>> /\ written' = (written \/ result)
    BY <1>2 DEF AfterGit
  <2>2. Staged' /\ Numbered'
    BY <1>1, <1>2, <2>1 DEF JInv, Staged, Numbered, PCs, tracker, Hunks
  <2>3. Positions'
    BY <1>1, <1>2, <2>1, PositionsKept DEF JInv, tracker, Hunks
  <2>4. Evidence'
    BY <1>1, <1>2, <2>1 DEF JInv, Evidence, request, tracker, Hunks, Succeeded, Touched, With
  <2> QED
    BY <2>2, <2>3, <2>4 DEF JInv
<1>3. CASE pc' = "difflib"
  <2>1. /\ Mark(Failed, "pending", "difflib") /\ rem' = InOrder(Remaining)
        /\ modified' = (file # orig) /\ written' = (written \/ file # orig)
    BY <1>3 DEF AfterGit
  <2>2. /\ Hunks' = Hunks /\ DOMAIN stage' = Hunks
        /\ \A h \in Hunks : stage'[h] \in Stages
    BY <2>1, MarkStaged DEF JInv, Stages
  <2>3. Staged' /\ Numbered'
    BY <1>1, <1>3, <2>1, <2>2 DEF JInv, Staged, Numbered, PCs
  <2>4. Pending' = Remaining /\ Succeeded' = Succeeded
    BY <2>1, Marked DEF Pending, Remaining, Failed, Succeeded, With
  <2>5. /\ Remaining \in SUBSET Hunks
        /\ Cardinality(Remaining) \in Nat
        /\ rem' \in [1..Cardinality(Remaining) -> Remaining]
    <3>1. Remaining \in SUBSET Hunks
      BY DEF Remaining, With
    <3>2. Remaining \in SUBSET Nat /\ IsFiniteSet(Remaining)
      BY <3>1, HunksAreNumbers, FS_Subset DEF JInv
    <3> QED
      BY <2>1, <3>1, <3>2, InOrderFacts
  <2>6. \A u \in DOMAIN units : units[u].number \in DOMAIN rem'
    <3>1. DOMAIN units = {}
      BY <1>1 DEF JInv, Positions
    <3> QED
      BY <3>1
  <2>7. Positions'
    BY <1>1, <1>3, <2>2, <2>4, <2>5, <2>6 DEF JInv, Positions
  <2>8. Evidence'
    BY <1>1, <1>3, <2>4 DEF JInv, Evidence, request
  <2> QED
    BY <2>3, <2>7, <2>8 DEF JInv
<1> QED
  BY <1>1, <1>2, <1>3

(* The units that correction keeps are fewer than the hunks it reports,    *)
(* unless it keeps none: a hunk stays pending, and every unit goes by one. *)
LEMMA JPrepare == IInv /\ JInv /\ Prepare => JInv'
<1> SUFFICES ASSUME IInv, JInv, Prepare PROVE JInv'
  OBVIOUS
<1> DEFINE first(starts) == InOrder(starts)
           gs(starts)    == IF Len(first(starts)) = Len(rem) THEN NoUnit
                            ELSE [u \in DOMAIN first(starts) |->
                                    Group(starts, first(starts)[u])]
           kept(starts, dropped) == InOrder(DOMAIN first(starts) \ dropped)
<1> DEFINE Prepared(starts, c) ==
             /\ Mark(c.said, "failed", "difflib")
             /\ units' = [k \in DOMAIN kept(starts, c.dropped) |->
                  [number |-> first(starts)[kept(starts, c.dropped)[k]],
                   hunks  |-> {rem[p] : p \in Group(starts,
                                         first(starts)[kept(starts, c.dropped)[k]])}]]
             /\ ids' = [u \in DOMAIN first(starts) |->
                          IdOf(u, gs(starts), InOrder(Pending \ c.said))]
<1>0. PICK starts \in SUBSET DOMAIN rem :
        \E c \in Corrections(DOMAIN first(starts)) : Prepared(starts, c)
  BY DEF Prepare
<1>1. PICK c \in Corrections(DOMAIN first(starts)) : Prepared(starts, c)
  BY <1>0
<1> DEFINE F    == first(starts)
           Kept == DOMAIN F \ c.dropped
           K    == kept(starts, c.dropped)
           Left == Pending \ c.said
<1>2. /\ pc = "difflib" /\ pc' = "look"
      /\ UNCHANGED <<request, file, flags, result, modified, rem, skipped>>
      /\ found' = TRUE /\ processed' = FALSE
  BY DEF Prepare
<1>3. /\ Hunks' = Hunks /\ DOMAIN stage' = Hunks
      /\ \A h \in Hunks : stage'[h] \in Stages
  BY <1>1, MarkStaged DEF JInv, Stages
<1>4. /\ c.dropped \in SUBSET DOMAIN F /\ c.said \in SUBSET Hunks
      /\ Cardinality(c.said) <= Cardinality(c.dropped)
  BY DEF Corrections
<1>5. /\ Hunks \in SUBSET Nat /\ IsFiniteSet(Hunks)
      /\ Pending \in SUBSET Hunks /\ IsFiniteSet(Pending)
      /\ Cardinality(Pending) \in Nat
      /\ DOMAIN rem = 1..Cardinality(Pending)
      /\ IsFiniteSet(DOMAIN rem) /\ Cardinality(DOMAIN rem) = Cardinality(Pending)
  <2>1. Hunks \in SUBSET Nat /\ IsFiniteSet(Hunks) /\ Pending \in SUBSET Hunks
    BY HunksAreNumbers DEF JInv, Pending, With
  <2>2. IsFiniteSet(Pending) /\ Cardinality(Pending) \in Nat
    BY <2>1, FS_Subset, FS_CardinalityType
  <2>3. DOMAIN rem = 1..Cardinality(Pending)
    BY <1>2 DEF JInv, Positions
  <2>4. IsFiniteSet(1..Cardinality(Pending))
        /\ Cardinality(1..Cardinality(Pending)) = Cardinality(Pending)
    BY <2>2, FS_Interval
  <2> QED
    BY <2>1, <2>2, <2>3, <2>4
<1>6. /\ Cardinality(starts) \in Nat /\ Cardinality(starts) <= Cardinality(Pending)
      /\ F \in [1..Cardinality(starts) -> starts] /\ Len(F) = Cardinality(starts)
  <2>1. starts \in SUBSET Nat /\ IsFiniteSet(starts)
        /\ Cardinality(starts) <= Cardinality(Pending)
    BY <1>5, FS_Subset
  <2> QED
    BY <2>1, InOrderFacts
<1>7. /\ DOMAIN F = 1..Cardinality(starts)
      /\ IsFiniteSet(DOMAIN F) /\ Cardinality(DOMAIN F) = Cardinality(starts)
  <2>1. DOMAIN F = 1..Cardinality(starts)
    BY <1>6
  <2>2. IsFiniteSet(1..Cardinality(starts))
        /\ Cardinality(1..Cardinality(starts)) = Cardinality(starts)
    BY <1>6, FS_Interval
  <2> QED
    BY <2>1, <2>2
<1>8. /\ Kept \in SUBSET DOMAIN F /\ IsFiniteSet(Kept)
      /\ Cardinality(Kept) \in Nat /\ Cardinality(Kept) <= Cardinality(starts)
      /\ K \in [1..Cardinality(Kept) -> Kept] /\ Len(K) = Cardinality(Kept)
  <2>1. Kept \in SUBSET DOMAIN F /\ IsFiniteSet(Kept)
        /\ Cardinality(Kept) <= Cardinality(starts)
    <3>1. Kept \in SUBSET DOMAIN F
      OBVIOUS
    <3> HIDE DEF F, Kept
    <3> QED
      BY <3>1, <1>7, FS_Subset
  <2>2. Kept \in SUBSET Nat
    BY <2>1, <1>6, <1>7
  <2>3. Cardinality(Kept) \in Nat
        /\ K \in [1..Cardinality(Kept) -> Kept] /\ Len(K) = Cardinality(Kept)
    BY <2>1, <2>2, InOrderFacts
  <2> QED
    BY <2>1, <2>3
<1> HIDE DEF F, Kept, K
<1>9. \A k \in DOMAIN K : K[k] \in Kept /\ F[K[k]] \in DOMAIN rem
  BY <1>6, <1>7, <1>8
<1>10. DOMAIN units' = DOMAIN K
  BY <1>1 DEF K
<1>11. DOMAIN K # {} => /\ Left # {}
                        /\ \A u \in DOMAIN ids' : ids'[u] \in Left
  <2> SUFFICES ASSUME DOMAIN K # {}
               PROVE  /\ Left # {}
                      /\ \A u \in DOMAIN ids' : ids'[u] \in Left
    OBVIOUS
  <2>1. Kept # {}
    BY <1>8
  <2>2. /\ IsFiniteSet(c.dropped) /\ Cardinality(c.dropped) \in Nat
        /\ Cardinality(c.dropped) < Cardinality(Pending)
    <3>1. c.dropped # DOMAIN F
      BY <2>1 DEF Kept
    <3>2. IsFiniteSet(c.dropped) /\ Cardinality(c.dropped) <= Cardinality(starts)
          /\ Cardinality(c.dropped) # Cardinality(starts)
      BY <3>1, <1>4, <1>7, FS_Subset
    <3>3. Cardinality(c.dropped) \in Nat
      BY <3>2, FS_CardinalityType
    <3> QED
      BY <3>2, <3>3, <1>5, <1>6
  <2>3. /\ Cardinality(c.said) \in Nat
        /\ IsFiniteSet(c.said) /\ Cardinality(c.said) < Cardinality(Pending)
    <3>1. IsFiniteSet(c.said) /\ Cardinality(c.said) \in Nat
      BY <1>4, <1>5, FS_Subset, FS_CardinalityType
    <3> QED
      BY <3>1, <2>2, <1>4, <1>5
  <2>4. Left # {}
    <3> SUFFICES ASSUME Left = {} PROVE FALSE
      OBVIOUS
    <3>1. Pending \in SUBSET c.said
      OBVIOUS
    <3>2. Cardinality(Pending) <= Cardinality(c.said)
      BY <3>1, <2>3, FS_Subset
    <3> QED
      BY <3>2, <2>3, <1>5
  <2>5. /\ Cardinality(Left) \in Nat \ {0}
        /\ InOrder(Left) \in [1..Cardinality(Left) -> Left]
        /\ Len(InOrder(Left)) = Cardinality(Left)
    <3>1. Left \in SUBSET Nat /\ IsFiniteSet(Left)
      BY <1>5, FS_Subset
    <3>2. Cardinality(Left) # 0
      BY <3>1, <2>4, FS_EmptySet
    <3> QED
      BY <3>1, <3>2, InOrderFacts
  <2> HIDE DEF Left
  <2>6. ASSUME NEW u \in DOMAIN F PROVE IdOf(u, gs(starts), InOrder(Left)) \in Left
    <3> DEFINE G     == gs(starts)
               place == IF G = NoUnit THEN u
                        ELSE CHOOSE p \in G[u] : \A q \in G[u] : p <= q
    <3>1. u \in Nat /\ u >= 1
      BY <1>6, <1>7
    <3>2. G # NoUnit => G[u] \in SUBSET (Nat \ {0}) /\ G[u] # {}
      <4> SUFFICES ASSUME G # NoUnit
                   PROVE  G[u] \in SUBSET (Nat \ {0}) /\ G[u] # {}
        OBVIOUS
      <4>1. G[u] = Group(starts, F[u])
        BY DEF F
      <4>2. F[u] \in starts /\ F[u] \in DOMAIN rem
        BY <1>6, <1>7
      <4>3. DOMAIN rem \in SUBSET (Nat \ {0})
        BY <1>5
      <4>4. F[u] \in Group(starts, F[u])
        BY <4>2, <4>3 DEF Group
      <4>5. Group(starts, F[u]) \in SUBSET (Nat \ {0})
        BY <4>3 DEF Group
      <4> QED
        BY <4>1, <4>4, <4>5
    <3>3. place \in Nat /\ place >= 1
      <4>1. CASE G = NoUnit
        BY <4>1, <3>1
      <4>2. CASE G # NoUnit
        <5>1. G[u] \in SUBSET Nat /\ G[u] # {} /\ 0 \notin G[u]
          BY <4>2, <3>2
        <5>2. \E p \in G[u] : \A q \in G[u] : p <= q
          BY <5>1, Least
        <5>3. place \in G[u]
          BY <4>2, <5>2
        <5> HIDE DEF G, place
        <5> QED
          BY <5>1, <5>3
      <4> QED
        BY <4>1, <4>2
    <3>4. IdOf(u, G, InOrder(Left)) =
            IF place <= Len(InOrder(Left)) THEN InOrder(Left)[place]
            ELSE IF InOrder(Left) # <<>> THEN InOrder(Left)[1] ELSE u
      BY DEF IdOf
    <3>5. InOrder(Left) # <<>>
      BY <2>5
    <3> HIDE DEF G, place
    <3> QED
      BY <2>5, <3>3, <3>4, <3>5 DEF G
  <2>7. \A u \in DOMAIN F : ids'[u] \in Left
    BY <1>1, <2>6 DEF F, Left
  <2>8. DOMAIN ids' = DOMAIN F
    BY <1>1 DEF F
  <2> QED
    BY <2>4, <2>7, <2>8
<1>12. Staged' /\ Numbered'
  BY <1>2, <1>3 DEF JInv, Staged, Numbered, PCs, flags
<1>13. Positions'
  <2>1. \A p \in DOMAIN rem : rem[p] \in Hunks
    BY DEF JInv, Positions
  <2>2. ASSUME NEW u \in DOMAIN units'
        PROVE  units'[u].number \in DOMAIN rem /\ units'[u].hunks \subseteq Hunks
    <3>1. /\ units'[u].number = F[K[u]]
          /\ units'[u].hunks = {rem[p] : p \in Group(starts, F[K[u]])}
      BY <1>1, <1>10 DEF F, K
    <3>2. Group(starts, F[K[u]]) \subseteq DOMAIN rem
      BY DEF Group
    <3> QED
      BY <3>1, <3>2, <2>1, <1>9, <1>10
  <2>3. Len(ids') >= Len(units') /\ DOMAIN units' \subseteq DOMAIN ids'
    <3>1. DOMAIN ids' = 1..Cardinality(starts) /\ DOMAIN units' = 1..Cardinality(Kept)
      BY <1>1, <1>7, <1>8, <1>10 DEF F
    <3>2. Len(ids') = Cardinality(starts) /\ Len(units') = Cardinality(Kept)
      BY <3>1, <1>1, <1>6, <1>8 DEF F, K
    <3> QED
      BY <3>1, <3>2, <1>6, <1>8
  <2> QED
    BY <2>1, <2>2, <2>3, <1>2, <1>3 DEF Positions
<1>14. Evidence'
  <2>1. Left \subseteq Hunks /\ Succeeded \cap Left = {}
    BY <1>5 DEF Succeeded, Pending, With
  <2>2. Succeeded \subseteq Touched'
    BY <1>1, Marked DEF Succeeded, Touched, With
  <2>3. file' # orig' => Succeeded # {}
    BY <1>2 DEF JInv, Evidence, request
  <2>4. DOMAIN units' # {} => \A u \in DOMAIN ids' : ids'[u] \in Left
    BY <1>10, <1>11
  <2> HIDE DEF Left
  <2> QED
    BY <2>1, <2>2, <2>3, <2>4, <1>2, <1>3 DEF Evidence
<1> QED
  BY <1>12, <1>13, <1>14 DEF JInv

LEMMA JLook == IInv /\ JInv /\ Looks => JInv'
<1> SUFFICES ASSUME IInv, JInv, Looks PROVE JInv'
  OBVIOUS
<1>1. /\ pc = "look" /\ at \in DOMAIN units
      /\ UNCHANGED <<request, pc, file, flags, result, modified, rem, units, groups,
                     ids, skips, skipped>>
      /\ found' \in BOOLEAN /\ processed' \in BOOLEAN
  BY DEF Looks, LookSettled, LookMerged, LookFinds, LookMisses, Looked, JInv, Staged
<1>2. \/ UNCHANGED tracker
      \/ \E S : Mark(S, "already_applied", "difflib") /\ S \subseteq Pending \cup {ids[at]}
      \/ \E S : Mark(S, "succeeded", "difflib") /\ S = {ids[at]}
  <2>1. CASE LookMerged
    <3>1. CASE MarkMerged(at, "already_applied")
      <4> DEFINE S == {InOrder(Pending)[p] : p \in groups[at] \cap DOMAIN InOrder(Pending)}
      <4>1. Mark(S, "already_applied", "difflib")
        BY <3>1 DEF MarkMerged
      <4>2. Pending \in SUBSET Nat /\ IsFiniteSet(Pending)
        <5>1. Pending \in SUBSET Hunks
          BY DEF Pending, With
        <5> QED
          BY <5>1, HunksAreNumbers, FS_Subset DEF JInv
      <4>3. InOrder(Pending) \in [1..Cardinality(Pending) -> Pending]
        BY <4>2, InOrderFacts
      <4>4. S \subseteq Pending
        BY <4>3
      <4> QED
        BY <4>1, <4>4
    <3> QED
      BY <2>1, <3>1 DEF LookMerged
  <2>2. CASE LookFinds
    BY <2>2 DEF LookFinds
  <2> QED
    BY <2>1, <2>2 DEF Looks, LookSettled, LookMisses
<1>3. /\ Hunks' = Hunks /\ DOMAIN stage' = Hunks
      /\ \A h \in Hunks : stage'[h] \in Stages
  <2>1. CASE UNCHANGED tracker
    BY <2>1 DEF tracker, Hunks, JInv, Staged
  <2>2. ASSUME NEW S, NEW s, Mark(S, s, "difflib")
        PROVE  /\ Hunks' = Hunks /\ DOMAIN stage' = Hunks
               /\ \A h \in Hunks : stage'[h] \in Stages
    BY <2>2, MarkStaged DEF JInv, Stages
  <2> QED
    BY <2>1, <2>2, <1>2
<1>4. \A h \in Hunks : h \notin Pending /\ h # ids[at] => status'[h] = status[h]
  <2>1. CASE UNCHANGED tracker
    BY <2>1 DEF tracker
  <2>2. ASSUME NEW S, NEW s, Mark(S, s, "difflib"), S \subseteq Pending \cup {ids[at]}
        PROVE  \A h \in Hunks : h \notin Pending /\ h # ids[at] => status'[h] = status[h]
    BY <2>2, Marked
  <2> QED
    BY <2>1, <2>2, <1>2
<1>5. Staged' /\ Numbered'
  BY <1>1, <1>3 DEF JInv, Staged, Numbered, flags
<1>6. Positions'
  BY <1>1, <1>3, PositionsKept DEF JInv
<1>7. Evidence'
  <2>1. at \in DOMAIN ids /\ DOMAIN units # {}
    BY <1>1 DEF JInv, Positions
  <2>2. ASSUME file # orig
        PROVE  \E h \in Touched' : \A u \in DOMAIN ids : ids[u] # h
    <3>1. PICK h \in Touched : \A u \in DOMAIN ids : ids[u] # h
      BY <2>1, <2>2, <1>1 DEF JInv, Evidence
    <3>2. h \in Hunks /\ h \notin Pending /\ h # ids[at]
      BY <3>1, <2>1 DEF Touched, Pending, With
    <3>3. h \in Touched'
      BY <3>1, <3>2, <1>3, <1>4 DEF Touched, With
    <3> QED
      BY <3>1, <3>3
  <2>3. \A u \in DOMAIN ids : ids[u] \in Hunks
    BY <2>1, <1>1 DEF JInv, Evidence
  <2> QED
    BY <2>2, <2>3, <1>1, <1>3 DEF Evidence, request
<1> QED
  BY <1>5, <1>6, <1>7 DEF JInv

LEMMA JSelect == IInv /\ JInv /\ Select => JInv'
<1> SUFFICES ASSUME IInv, JInv, Select PROVE JInv'
  OBVIOUS
<1>1. /\ pc = "look" /\ UNCHANGED <<request, file, flags, skipped>>
      /\ \E S : Mark(S, "failed", "difflib")
      /\ \/ /\ pc' = "apply"
            /\ UNCHANGED <<result, modified, rem, units, ids, found, processed>>
         \/ Return(FALSE)
  BY DEF Select, Searched, Return, flags
<1>2. /\ Hunks' = Hunks /\ DOMAIN stage' = Hunks
      /\ \A h \in Hunks : stage'[h] \in Stages
  BY <1>1, MarkStaged DEF JInv, Stages
<1>3. \A h \in Hunks : status'[h] = status[h] \/ status'[h] = "failed"
  BY <1>1, Marked
<1>4. Staged' /\ Numbered'
  BY <1>1, <1>2 DEF JInv, Staged, Numbered, flags, PCs, Return
<1>5. Positions'
  <2>1. CASE Return(FALSE)
    BY <2>1 DEF Return, Positions
  <2>2. CASE ~Return(FALSE)
    BY <2>2, <1>1, <1>2, PositionsKept DEF JInv
  <2> QED
    BY <2>1, <2>2
<1>6. Touched \subseteq Touched'
  BY <1>2, <1>3 DEF Touched, With
<1>7. With({"pending", "failed"})' # {}
  <2>1. PICK u \in DOMAIN units : Unsettled(u)
    BY DEF Select, ToApply
  <2>2. ids[u] \in Hunks
    BY <2>1, <1>1 DEF JInv, Positions, Evidence
  <2>3. status[ids[u]] \in {"pending", "failed"}
    BY <2>1, <2>2 DEF Unsettled, Settled, IInv, Tracked, Statuses
  <2>4. ids[u] \in With({"pending", "failed"})'
    BY <2>2, <2>3, <1>2, <1>3 DEF With
  <2> QED
    BY <2>4
<1>8. Evidence'
  <2>1. file' # orig' => Touched # {}
    BY <1>1 DEF JInv, Evidence, request
  <2>2. pc' \in {"apply", "tail"}
    BY <1>1 DEF Return
  <2> QED
    BY <2>1, <2>2, <1>6, <1>7 DEF Evidence
<1> QED
  BY <1>4, <1>5, <1>8 DEF JInv

LEMMA JReturn == IInv /\ JInv /\ Returns => JInv'
<1> SUFFICES ASSUME IInv, JInv, Returns PROVE JInv'
  OBVIOUS
<1>1. /\ pc \in {"difflib", "look", "apply"}
      /\ Return(TRUE) \/ Return(FALSE)
      /\ written' = written \/ written' \in BOOLEAN
  BY DEF Returns, Truncated, ReplaceFile, RejectHeaders, FoundAll, NothingToApply,
         Applies, AppliesNothing, ApplyFails, DifflibRaises, Searched
<1>2. \/ UNCHANGED tracker
      \/ \E S : \E s \in Statuses : Mark(S, s, "difflib")
  BY DEF Returns, Truncated, ReplaceFile, RejectHeaders, FoundAll, NothingToApply,
         Applies, AppliesNothing, ApplyFails, DifflibRaises, Statuses
<1>3. /\ Hunks' = Hunks /\ DOMAIN stage' = Hunks
      /\ \A h \in Hunks : stage'[h] \in Stages
  <2>1. CASE UNCHANGED tracker
    BY <2>1 DEF tracker, Hunks, JInv, Staged
  <2>2. ASSUME NEW S, NEW s, Mark(S, s, "difflib")
        PROVE  /\ Hunks' = Hunks /\ DOMAIN stage' = Hunks
               /\ \A h \in Hunks : stage'[h] \in Stages
    BY <2>2, MarkStaged DEF JInv, Stages
  <2> QED
    BY <2>1, <2>2, <1>2
<1>4. Staged' /\ Numbered'
  BY <1>1, <1>3 DEF JInv, Staged, Numbered, Return, PCs
<1>5. Positions'
  BY <1>1 DEF Positions, Return
<1>6. file' # orig' => Touched' # {}
  <2>1. CASE Applies
    <3>1. PICK h \in Hunks : status[h] \in {"pending", "failed"}
      BY <2>1 DEF Applies, JInv, Evidence, With
    <3>2. Mark(Pending, "succeeded", "difflib")
      BY <2>1 DEF Applies
    <3>3. h \in Touched'
      BY <3>1, <3>2, Marked DEF Touched, Pending, With
    <3> QED
      BY <3>3
  <2>2. CASE ReplaceFile
    <3>1. Len(rem) = 1 /\ pc = "difflib" /\ Mark({1}, "succeeded", "difflib")
      BY <2>2 DEF ReplaceFile
    <3>2. DOMAIN rem = 1..Cardinality(Pending) /\ Cardinality(Pending) \in Nat
      <4>1. Pending \in SUBSET Hunks
        BY DEF Pending, With
      <4>2. IsFiniteSet(Pending)
        BY <4>1, HunksAreNumbers, FS_Subset DEF JInv
      <4> QED
        BY <4>2, <3>1, FS_CardinalityType DEF JInv, Positions
    <3>3. 1 \in DOMAIN rem
      BY <3>1, <3>2
    <3>4. 1 \in Hunks
      BY <3>3, HunksAreNumbers DEF JInv, Positions
    <3>5. 1 \in Touched'
      BY <3>1, <3>4, Marked DEF Touched, With
    <3> QED
      BY <3>5
  <2>3. CASE ~Applies /\ ~ReplaceFile
    <3>1. file' = file /\ orig' = orig
      BY <2>3, <1>1 DEF Returns, Truncated, RejectHeaders, FoundAll, NothingToApply,
             AppliesNothing, ApplyFails, DifflibRaises, Return, request
    <3>2. \/ UNCHANGED tracker
          \/ \E S : Mark(S, "failed", "difflib")
          \/ \E s : Mark(Pending, s, "difflib")
      BY <2>3 DEF Returns, Truncated, RejectHeaders, FoundAll, NothingToApply,
             AppliesNothing, ApplyFails, DifflibRaises
    <3>3. Touched \subseteq Touched'
      <4>1. CASE UNCHANGED tracker
        BY <4>1 DEF tracker, Touched, With, Hunks
      <4>2. ASSUME NEW S, Mark(S, "failed", "difflib") PROVE Touched \subseteq Touched'
        BY <4>2, Marked DEF Touched, With
      <4>3. ASSUME NEW s, Mark(Pending, s, "difflib") PROVE Touched \subseteq Touched'
        BY <4>3, Marked DEF Touched, Pending, With
      <4> QED
        BY <4>1, <4>2, <4>3, <3>2
    <3>4. file # orig => Touched # {}
      BY <1>1 DEF JInv, Evidence, Succeeded, Touched, With
    <3> QED
      BY <3>1, <3>3, <3>4
  <2> QED
    BY <2>1, <2>2, <2>3
<1>7. Evidence'
  BY <1>1, <1>6 DEF Evidence, Return
<1> QED
  BY <1>4, <1>5, <1>7 DEF JInv

LEMMA JEnd == IInv /\ JInv /\ (FinishForced \/ Finish \/ Validated \/ Refused) => JInv'
<1> SUFFICES ASSUME IInv, JInv, FinishForced \/ Finish \/ Validated \/ Refused
             PROVE  JInv'
  OBVIOUS
<1>1. /\ pc \in {"tail", "validate"} /\ pc' \in {"validate", "done"}
      /\ UNCHANGED <<request, result, locals, skipped>>
      /\ written' \in BOOLEAN /\ error' \in BOOLEAN
      /\ file' = file \/ (file' = orig /\ Refused)
  BY DEF FinishForced, Finish, Validated, Refused, JInv, Staged, flags
<1>2. \/ UNCHANGED tracker
      \/ Mark(Pending, "failed", "difflib")
      \/ Refused
  BY DEF FinishForced, Finish, Validated
<1>3. /\ Hunks' = Hunks /\ DOMAIN stage' = Hunks
      /\ \A h \in Hunks : stage'[h] \in Stages
  <2>1. CASE UNCHANGED tracker
    BY <2>1 DEF tracker, Hunks, JInv, Staged
  <2>2. CASE Mark(Pending, "failed", "difflib")
    BY <2>2, MarkStaged DEF JInv, Stages
  <2>3. CASE Refused
    BY <2>3 DEF Refused, Hunks, JInv, Staged
  <2> QED
    BY <2>1, <2>2, <2>3, <1>2
<1>4. Staged' /\ Numbered'
  BY <1>1, <1>3 DEF JInv, Staged, Numbered, locals, PCs
<1>5. Positions'
  BY <1>1, <1>3, PositionsKept DEF JInv, locals
<1>6. Touched \subseteq Touched'
  <2>1. CASE UNCHANGED tracker
    BY <2>1 DEF tracker, Touched, With, Hunks
  <2>2. CASE Mark(Pending, "failed", "difflib")
    BY <2>2, Marked DEF Touched, Pending, With
  <2>3. CASE Refused
    BY <2>3 DEF Refused, Touched, Succeeded, With, Hunks
  <2> QED
    BY <2>1, <2>2, <2>3, <1>2
<1>7. Evidence'
  <2>1. file' # orig' => file # orig
    BY <1>1 DEF request
  <2>2. file # orig => Touched # {}
    BY <1>1 DEF JInv, Evidence
  <2> QED
    BY <2>1, <2>2, <1>1, <1>6 DEF Evidence
<1> QED
  BY <1>4, <1>5, <1>7 DEF JInv

LEMMA JStutter == JInv /\ UNCHANGED vars => JInv'
BY DEF vars, request, tracker, flags, locals, JInv, Staged, Numbered, Positions, Evidence,
       Touched, Succeeded, Pending, With, Hunks

LEMMA JInductive == IInv /\ JInv /\ [Next]_vars => JInv'
BY NextParts, JEntry, JPatch, JAfterPatch, JGit, JAfterGit, JPrepare, JLook, JSelect,
   JReturn, JEnd, JStutter DEF Done

(* What the stages hand on are numbers of hunks in the order the code      *)
(* expects, and a changed file has a hunk to show for it.                  *)
THEOREM JInvAlways == Spec => []JInv
BY JInit, JInductive, IInvAlways, PTL DEF Spec

----------------------------------------------------------------------------
(* The types of the variables: what each stage passes on as the number of  *)
(* a hunk is the number of one.                                            *)
THEOREM TypeCorrect == Spec => []TypeOK
<1>1. IInv /\ JInv => TypeOK
  <2> SUFFICES ASSUME IInv, JInv PROVE TypeOK
    OBVIOUS
  <2>1. Hunks \subseteq 1..MaxHunks \/ Hunks = {1}
    BY MaxHunksAssumption DEF JInv, Numbered
  <2>2. {written, error, result, modified, found, processed, skipped} \subseteq BOOLEAN
    BY DEF JInv, Staged
  <2> QED
    BY <2>1, <2>2 DEF TypeOK, IInv, Tracked, JInv, Staged, Positions
<1> QED
  BY <1>1, IInvAlways, JInvAlways, PTL

(* A result of "already_applied" leaves the file as it was before the run: *)
(* a file that has changed has a hunk that succeeded or failed.            *)
THEOREM AlreadyAppliedIsNoOpAlways == Spec => []AlreadyAppliedIsNoOp
<1>1. JInv => AlreadyAppliedIsNoOp
  <2> SUFFICES ASSUME JInv, pc = "done", DetermineFinalStatus = "already_applied"
               PROVE  file = orig
    BY DEF AlreadyAppliedIsNoOp
  <2>1. Failed = {} /\ Succeeded = {}
    BY DEF DetermineFinalStatus
  <2>2. Touched = {}
    BY <2>1 DEF Touched, Failed, Succeeded, With
  <2> QED
    BY <2>2 DEF JInv, Evidence
<1> QED
  BY <1>1, JInvAlways, PTL
=============================================================================
