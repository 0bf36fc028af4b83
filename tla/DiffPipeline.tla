---------------------------- MODULE DiffPipeline ----------------------------
(***************************************************************************)
(* One run of apply_diff_pipeline: a diff of numbered hunks goes through   *)
(* patch, git apply and difflib, each stage reporting a status per hunk    *)
(* while external tools and an in-process applier rewrite the file.        *)
(*                                                                         *)
(* The file is the set of hunks whose change it holds; what it holds of    *)
(* the diff before the run is orig.  Hunks have three names: their number  *)
(* in the diff (the key of status), their position in the diff of the      *)
(* hunks that remain, from which difflib starts, and the index of the      *)
(* merged hunk they end up in.  The code passes one for another, and so    *)
(* does this module.                                                       *)
(***************************************************************************)
EXTENDS Integers, FiniteSets, Sequences

CONSTANT MaxHunks       \* bound on the hunks of a diff

ASSUME MaxHunksAssumption == MaxHunks \in Nat

VARIABLES
  kind,      \* what the diff does to the file: edit, create or delete it
  forced,    \* ZIYA_FORCE_DIFFLIB is set
  pc,        \* where the run is
  status,    \* result.hunks: status of each tracked hunk
  stage,     \* result.hunks: current_stage of each tracked hunk
  orig,      \* the hunks the file held before the run (original_content)
  file,      \* the hunks the file holds now
  written,   \* result.changes_written
  error,     \* result.error is set
  result,    \* what the last stage returned: changes were written
  modified,  \* file_was_modified, the argument of run_difflib_stage
  rem,       \* the remaining diff: its hunks, by their position in it
  units,     \* hunks in run_difflib_stage, after merging and correction
  groups,    \* merged_hunk_mapping: positions merged into each unit
  ids,       \* hunk_id_mapping
  at,        \* the unit the already-applied loop looks at
  found,     \* all_hunks_found_applied
  processed, \* any_hunks_processed
  skips,     \* hunks_to_skip
  skipped    \* history: git apply has skipped the patch and exited with 0

tracker == <<status, stage>>
flags   == <<written, error>>
locals  == <<modified, rem, units, groups, ids, at, found, processed, skips>>
request == <<kind, forced, orig>>
vars    == <<request, pc, tracker, file, flags, result, locals, skipped>>

Stages   == {"init", "patch", "git", "difflib"}
Statuses == {"pending", "succeeded", "failed", "already_applied"}
Settled  == {"succeeded", "already_applied"}
PCs      == {"parse", "patch", "patched", "git", "gitted", "difflib", "look",
             "apply", "tail", "validate", "done"}
NoUnit   == <<>>

Hunks     == DOMAIN status
With(S)   == {h \in Hunks : status[h] \in S}
Pending   == With({"pending"})
Succeeded == With({"succeeded"})
Failed    == With({"failed"})
Already   == With({"already_applied"})

(* The members of a set of numbers in increasing order. *)
InOrder(S) ==
  [k \in 1..Cardinality(S) |->
     CHOOSE h \in S : Cardinality({g \in S : g < h}) = k - 1]

(* update_hunk_status of the hunks of f at one stage; a number that is not *)
(* tracked is ignored.                                                     *)
Report(f, g) ==
  /\ status' = [h \in Hunks |-> IF h \in DOMAIN f THEN f[h] ELSE status[h]]
  /\ stage'  = [h \in Hunks |-> IF h \in DOMAIN f THEN g ELSE stage[h]]

Mark(S, s, g) == Report([h \in S |-> s], g)

AllSettled == \A h \in Hunks : status[h] \in Settled

(* Mutant: a mix of applied and already applied hunks counts as already applied. *)
DetermineFinalStatusMixed ==
  CASE error /\ ~written -> "error"
    [] Failed # {} /\ Succeeded \cup Already # {} -> "partial"
    [] Failed # {} /\ Succeeded \cup Already = {} -> "error"
    [] Failed = {} /\ Already # {} -> "already_applied"
    [] OTHER -> "success"

DetermineFinalStatus ==
  CASE error /\ ~written -> "error"
    [] Failed # {} /\ Succeeded \cup Already # {} -> "partial"
    [] Failed # {} /\ Succeeded \cup Already = {} -> "error"
    [] Failed = {} /\ Succeeded = {} /\ Already # {} -> "already_applied"
    [] OTHER -> "success"

(* Mutant: already applied hunks do not count against an undo. *)
IsSafelyReversibleUnlessFailed ==
  /\ kind = "edit"
  /\ Failed = {}
  /\ \A h \in Succeeded : stage[h] \in {"patch", "git"}

IsSafelyReversible ==
  /\ kind = "edit"
  /\ Failed = {} /\ Already = {}
  /\ \A h \in Succeeded : stage[h] \in {"patch", "git"}

----------------------------------------------------------------------------
(* Entry.  A file that is created or deleted is one synthetic hunk.        *)

Init ==
  /\ kind \in {"edit", "create", "delete"}
  /\ forced \in BOOLEAN
  /\ orig \in IF kind = "edit" THEN SUBSET (1..MaxHunks) ELSE {{}}
  /\ file = orig
  /\ pc = "parse"
  /\ status = <<>> /\ stage = <<>>
  /\ written = FALSE /\ error = FALSE /\ result = FALSE /\ skipped = FALSE
  /\ modified = FALSE /\ rem = <<>> /\ units = <<>> /\ groups = <<>>
  /\ ids = <<>> /\ at = 1 /\ found = FALSE /\ processed = FALSE /\ skips = {}

(* create_new_file or delete_file did its work. *)
WholeFile ==
  /\ pc = "parse" /\ kind # "edit"
  /\ status' = <<"succeeded">> /\ stage' = <<"patch">>
  /\ file' = {1} /\ written' = TRUE /\ pc' = "done"
  /\ UNCHANGED <<request, error, result, locals, skipped>>

(* No root, no target, a create or delete that raised, or an edit that     *)
(* does not parse to hunks: complete(error) with no hunk tracked.          *)
Unreadable ==
  /\ pc = "parse"
  /\ error' = TRUE /\ pc' = "done"
  /\ UNCHANGED <<request, tracker, file, written, result, locals, skipped>>

Parse(n) ==
  /\ pc = "parse" /\ kind = "edit" /\ orig \subseteq 1..n
  /\ status' = [h \in 1..n |-> "pending"] /\ stage' = [h \in 1..n |-> "init"]
  /\ rem' = [p \in 1..n |-> p]
  /\ pc' = IF forced THEN "difflib" ELSE "patch"
  /\ UNCHANGED <<request, file, flags, result, modified, units, groups, ids,
                 at, found, processed, skips, skipped>>

(* Mutant: a missing target is reported before the hunks have a stage. *)
NoTargetUnstaged(n) ==
  /\ pc = "parse" /\ kind = "edit" /\ orig = {}
  /\ status' = [h \in 1..n |-> "failed"] /\ stage' = <<>>
  /\ error' = TRUE /\ pc' = "done"
  /\ UNCHANGED <<request, file, written, result, locals, skipped>>

(* The diff parses but its target does not exist. *)
NoTarget(n) ==
  /\ pc = "parse" /\ kind = "edit" /\ orig = {}
  /\ status' = [h \in 1..n |-> "failed"] /\ stage' = [h \in 1..n |-> "init"]
  /\ error' = TRUE /\ pc' = "done"
  /\ UNCHANGED <<request, file, written, result, locals, skipped>>

----------------------------------------------------------------------------
(* Stage 1: system patch. *)

Patched(r) ==
  /\ pc = "patch" /\ pc' = "patched" /\ result' = r
  /\ UNCHANGED <<request, error, locals, skipped>>

(* A hunk partly overlaps the file: all are left to difflib. *)
PatchDefers ==
  /\ Patched(FALSE) /\ Mark(Hunks, "pending", "patch")
  /\ UNCHANGED <<file, written>>

(* Ambiguous context, misordered or malformed hunks, no hunk applied, a    *)
(* timeout or an exception: the file is as before, from its backup if      *)
(* patch wrote it.  (An exception after the write is left out.)            *)
PatchFails ==
  /\ Patched(FALSE) /\ Mark(Hunks, "failed", "patch")
  /\ UNCHANGED <<file, written>>

(* apply_patch_directly found every hunk it did not drop in the file.  A   *)
(* merged hunk reports its first number only.                              *)
DirectFindsAll ==
  \E dropped \in SUBSET Hunks : \E heads \in SUBSET (Hunks \ dropped) :
    /\ Hunks \ dropped \subseteq file
    /\ heads = {} => Hunks = dropped
    /\ Patched(FALSE)
    /\ Report([h \in heads \cup dropped |->
                 IF h \in heads THEN "already_applied" ELSE "failed"], "patch")
    /\ UNCHANGED <<file, written>>

(* patch exited with 0 but parse_patch_output understood none of its       *)
(* lines: no hunk counts as applied and the backup is put back.            *)
DirectUnheard ==
  \E dropped \in SUBSET Hunks :
    /\ Patched(FALSE) /\ Mark(dropped, "failed", "patch")
    /\ UNCHANGED <<file, written>>

(* patch applied some hunks, dropped ones included: they are still in its  *)
(* input.                                                                  *)
DirectApplies ==
  \E applied \in SUBSET (Hunks \ file) :
    /\ applied # {}
    /\ Patched(TRUE)
    /\ Report([h \in Hunks |->
                 IF h \in applied THEN "succeeded" ELSE "failed"], "patch")
    /\ file' = file \cup applied
    /\ UNCHANGED written

(* With a dry run first (100 changed lines or more than 5 hunks): patch    *)
(* suspects a previous application, the hunks are looked up one by one.    *)
DryRunFinds ==
  \E again \in SUBSET (Hunks \cap file) :
    /\ Patched(FALSE)
    /\ Report([h \in Hunks |->
                 IF h \in again THEN "already_applied" ELSE "failed"], "patch")
    /\ UNCHANGED <<file, written>>

DryRunApplies ==
  \E applied \in SUBSET (Hunks \ file) :
    /\ applied # {}
    /\ Patched(applied = Hunks)
    /\ Report([h \in Hunks |->
                 IF h \in applied THEN "succeeded" ELSE "failed"], "patch")
    /\ file' = file \cup applied
    /\ written' = (applied = Hunks)

AfterPatch ==
  /\ pc = "patched"
  /\ \/ /\ AllSettled
        /\ written' = (written \/ result) /\ pc' = "validate"
     \/ /\ ~AllSettled
        /\ pc' = "git" /\ UNCHANGED written
  /\ UNCHANGED <<request, tracker, file, error, result, locals, skipped>>

----------------------------------------------------------------------------
(* Stage 2: git apply, given the hunks that are not settled. *)

Remaining == With({"pending", "failed"})

Gitted(r) ==
  /\ pc = "git" /\ pc' = "gitted" /\ result' = r
  /\ UNCHANGED <<request, error, locals>>

(* "\ No newline at end of file", a failed --check or an exception. *)
GitRefuses ==
  /\ Gitted(FALSE) /\ Mark(Pending, "failed", "git")
  /\ UNCHANGED <<file, written, skipped>>

GitApplies ==
  /\ Remaining \cap file = {}
  /\ Gitted(TRUE) /\ Mark(Remaining, "succeeded", "git")
  /\ file' = file \cup Remaining /\ written' = TRUE
  /\ UNCHANGED skipped

(* The project root is below the root of a git repository: git apply       *)
(* skips the patch and exits with 0, without "Applied patch ... cleanly".  *)
GitSkips ==
  /\ Gitted(TRUE) /\ Mark(Pending, "succeeded", "git")
  /\ written' = TRUE /\ skipped' = TRUE
  /\ UNCHANGED file

(* Done, or failed hunks are pending again for difflib. *)
AfterGit ==
  /\ pc = "gitted"
  /\ \/ /\ AllSettled
        /\ written' = (written \/ result) /\ pc' = "validate"
        /\ UNCHANGED <<tracker, modified, rem>>
     \/ /\ ~AllSettled
        /\ Mark(Failed, "pending", "difflib")
        /\ rem' = InOrder(Remaining)
        /\ modified' = (file # orig)
        /\ written' = (written \/ file # orig)
        /\ pc' = "difflib"
  /\ UNCHANGED <<request, file, error, result, units, groups, ids, at, found,
                 processed, skips, skipped>>

----------------------------------------------------------------------------
(* Stage 3: difflib. *)

(* Out of run_difflib_stage: its locals are gone. *)
Return(r) ==
  /\ pc' = "tail" /\ result' = r
  /\ modified' = FALSE /\ rem' = <<>> /\ units' = <<>> /\ groups' = <<>>
  /\ ids' = <<>> /\ at' = 1 /\ found' = FALSE /\ processed' = FALSE /\ skips' = {}
  /\ UNCHANGED <<request, error, skipped>>

(* A single hunk whose header declares a change its body lost. *)
Truncated ==
  /\ pc = "difflib" /\ Len(rem) = 1
  /\ Return(FALSE) /\ Mark({1}, "failed", "difflib")
  /\ UNCHANGED <<file, written>>

(* A single hunk taken for the whole file: the status of hunk 1 is set,    *)
(* whatever hunk the remaining diff holds, and changes_written is not.     *)
ReplaceFile ==
  /\ pc = "difflib" /\ Len(rem) = 1
  /\ Return(TRUE) /\ Mark({1}, "succeeded", "difflib")
  /\ file' = file \cup {rem[1]}
  /\ UNCHANGED written

(* Positions of the remaining diff merged into one unit: starts holds the  *)
(* first position of every unit (fix_overlapping_hunks).  The parser sorts *)
(* the hunks by old_start, so those that overlap follow one another.       *)
Group(starts, s) ==
  {p \in DOMAIN rem : /\ s <= p
                      /\ \A t \in starts : t <= p => t <= s}

(* hunk_id_mapping: units are matched to the hunks pending now, by place.  *)
IdOf(u, gs, pending) ==
  LET place == IF gs = NoUnit THEN u ELSE CHOOSE p \in gs[u] : \A q \in gs[u] : p <= q
  IN  IF place <= Len(pending) THEN pending[place]
      ELSE IF pending # <<>> THEN pending[1] ELSE u

(* correct_hunk_line_numbers drops the units whose context it does not     *)
(* find.  The numbers it reports for them are indices of units or, once    *)
(* its loop has reused its variable, lines of the file.                    *)
Corrections(us) ==
  {c \in [dropped : SUBSET us, said : SUBSET Hunks] :
     Cardinality(c.said) <= Cardinality(c.dropped)}

(* Merge overlapping hunks, correct the units, and give each an id.        *)
Prepare ==
  \E starts \in SUBSET DOMAIN rem :
  LET first == InOrder(starts)
      gs    == IF Len(first) = Len(rem) THEN NoUnit
               ELSE [u \in DOMAIN first |-> Group(starts, first[u])]
  IN  \E c \in Corrections(DOMAIN first) :
        /\ pc = "difflib" /\ pc' = "look"
        /\ rem # <<>> => 1 \in starts
        /\ Mark(c.said, "failed", "difflib")
        /\ LET kept    == InOrder(DOMAIN first \ c.dropped)
               pending == InOrder(Pending \ c.said)
           IN  /\ units' = [k \in DOMAIN kept |->
                     [number |-> first[kept[k]],
                      hunks  |-> {rem[p] : p \in Group(starts, first[kept[k]])}]]
               /\ groups' = gs
               /\ ids' = [u \in DOMAIN first |-> IdOf(u, gs, pending)]
        /\ at' = 1 /\ found' = TRUE /\ processed' = FALSE
        /\ UNCHANGED <<request, file, flags, result, modified, rem, skips, skipped>>

Numbers(S) == {units[u].number : u \in S}

(* A hunk header without counts is taken for malformed. *)
RejectHeaders ==
  /\ pc = "look" /\ at = 1
  /\ \E bad \in SUBSET DOMAIN units :
       bad # {} /\ Mark(Numbers(bad), "failed", "difflib")
  /\ Return(FALSE)
  /\ UNCHANGED <<file, written>>

(* update_merged_hunk_status: positions taken from groups, looked up in    *)
(* the hunks that are pending at the time of the call.                     *)
MarkMerged(u, s) ==
  LET pending == InOrder(Pending)
  IN  Mark({pending[p] : p \in groups[u] \cap DOMAIN pending}, s, "difflib")

Looked ==
  /\ pc = "look" /\ at \in DOMAIN units /\ at' = at + 1
  /\ UNCHANGED <<request, pc, file, flags, result, modified, rem, units, groups,
                 ids, skips, skipped>>

Unsettled(u) == ids[u] \in Hunks => status[ids[u]] \notin Settled

LookSettled ==
  /\ Looked /\ ~Unsettled(at)
  /\ UNCHANGED <<tracker, found, processed>>

LookMerged ==
  /\ Looked /\ Unsettled(at) /\ groups # NoUnit
  /\ IF {rem[p] : p \in groups[at]} \subseteq file
     THEN /\ MarkMerged(at, "already_applied")
          /\ processed' = TRUE /\ UNCHANGED found
     ELSE found' = FALSE /\ UNCHANGED <<tracker, processed>>

(* The change is in the file: by an earlier stage, when the file was       *)
(* modified, unless the last of the three searches is the one to find it.  *)
LookFinds ==
  /\ Looked /\ Unsettled(at) /\ groups = NoUnit
  /\ units[at].hunks \subseteq file
  /\ \/ modified /\ Mark({ids[at]}, "succeeded", "difflib")
     \/ Mark({ids[at]}, "already_applied", "difflib")
  /\ processed' = TRUE /\ UNCHANGED found

LookMisses ==
  /\ Looked /\ Unsettled(at) /\ groups = NoUnit
  /\ ~(units[at].hunks \subseteq file)
  /\ found' = FALSE /\ processed' = TRUE
  /\ UNCHANGED tracker

Searched == pc = "look" /\ at \notin DOMAIN units

AllFound == units # <<>> /\ found /\ processed

FoundAll ==
  /\ Searched /\ AllFound
  /\ Return(FALSE) /\ Mark(Pending, "already_applied", "difflib")
  /\ written' = FALSE
  /\ UNCHANGED file

ToApply == {u \in DOMAIN units : Unsettled(u)}

NothingToApply ==
  /\ Searched /\ ~AllFound /\ ToApply = {}
  /\ Return(FALSE)
  /\ UNCHANGED <<tracker, file, written>>

(* hunks_to_skip holds numbers of the diff, and positions in the remaining *)
(* diff for the units whose old and new lines are both in the file.        *)
Select ==
  /\ Searched /\ ~AllFound /\ ToApply # {}
  /\ \E clash \in SUBSET DOMAIN units :
       /\ \A u \in clash : ~(units[u].hunks \subseteq file)
       /\ Mark(Numbers(clash), "failed", "difflib")
       /\ \/ clash = DOMAIN units /\ Return(FALSE)
          \/ /\ clash # DOMAIN units
             /\ pc' = "apply"
             /\ skips' = {ids[u] : u \in DOMAIN units \ ToApply} \cup Numbers(clash)
             /\ UNCHANGED <<request, error, result, modified, rem, units, groups,
                            ids, at, found, processed, skipped>>
  /\ UNCHANGED <<file, written>>

(* What the applier may put in the file: the merged units it manages to    *)
(* place, or every hunk of the remaining diff whose position is not to be  *)
(* skipped (a whitespace or very short change is not skipped).             *)
MergedOutcomes ==
  {UNION {units[u].hunks : u \in U} :
     U \in SUBSET {u \in DOMAIN units : units[u].number \notin skips}}

PlainOutcomes ==
  {{rem[p] : p \in P} :
     P \in {Q \in SUBSET DOMAIN rem : DOMAIN rem \ skips \subseteq Q}}

Outcomes == IF groups # NoUnit THEN MergedOutcomes ELSE PlainOutcomes

(* Mutant: the applier's result is written without looking whether it differs. *)
AppliesUnverified ==
  /\ pc = "apply"
  /\ \E new \in Outcomes : file' = file \cup new
  /\ Return(TRUE) /\ Mark(Pending, "succeeded", "difflib")
  /\ written' = TRUE

Applies ==
  /\ pc = "apply"
  /\ \E new \in Outcomes :
       ~(new \subseteq file) /\ file' = file \cup new
  /\ Return(TRUE) /\ Mark(Pending, "succeeded", "difflib")
  /\ written' = TRUE

(* Nothing changed.  The second look for applied hunks gives up on one with  *)
(* removals at the first position where these are not, so it may miss some.  *)
AppliesNothing ==
  /\ pc = "apply"
  /\ \E new \in Outcomes : new \subseteq file
  /\ Return(FALSE)
  /\ \/ Mark(Pending, "failed", "difflib")
     \/ /\ \A u \in DOMAIN units : units[u].hunks \subseteq file
        /\ Mark(Pending, "already_applied", "difflib")
  /\ written' = FALSE
  /\ UNCHANGED file

(* One hunk cannot be placed: the applier raises, the regular mode calls   *)
(* it again to the same end, and what it had applied is dropped.           *)
ApplyFails ==
  /\ pc = "apply" /\ groups = NoUnit
  /\ Return(FALSE)
  /\ UNCHANGED <<tracker, file, written>>

(* An exception while hunks are parsed, merged or looked up.               *)
DifflibRaises ==
  /\ pc \in {"difflib", "look"}
  /\ Return(FALSE) /\ Mark(Pending, "failed", "difflib")
  /\ UNCHANGED <<file, written>>

----------------------------------------------------------------------------
(* The end of the run. *)

FinishForced ==
  /\ pc = "tail" /\ forced
  /\ written' = (written \/ result) /\ pc' = "done"
  /\ UNCHANGED <<request, tracker, file, error, result, locals, skipped>>

(* Mutant: hunks that no stage settled are left as they are. *)
FinishUnmarked ==
  /\ pc = "tail" /\ ~forced
  /\ error' = (Succeeded = {} /\ Already = {} /\ ~written)
  /\ pc' = "validate"
  /\ UNCHANGED <<request, tracker, file, written, result, locals, skipped>>

Finish ==
  /\ pc = "tail" /\ ~forced
  /\ Mark(Pending, "failed", "difflib")
  /\ error' = (Succeeded = {} /\ Already = {} /\ ~written)
  /\ pc' = "validate"
  /\ UNCHANGED <<request, file, written, result, locals, skipped>>

(* _run_language_validation *)
Validated ==
  /\ pc = "validate" /\ pc' = "done"
  /\ UNCHANGED <<request, tracker, file, flags, result, locals, skipped>>

Refused ==
  /\ pc = "validate" /\ Succeeded # {} /\ written
  /\ status' = [h \in Hunks |-> IF h \in Succeeded THEN "failed" ELSE status[h]]
  /\ file' = orig \/ UNCHANGED file     \* the rollback may itself fail
  /\ written' = FALSE /\ error' = TRUE /\ pc' = "done"
  /\ UNCHANGED <<request, stage, result, locals, skipped>>

Done == pc = "done" /\ UNCHANGED vars

Next ==
  \/ WholeFile \/ Unreadable
  \/ \E n \in 0..MaxHunks : Parse(n) \/ NoTarget(n)
  \/ PatchDefers \/ PatchFails \/ DirectFindsAll \/ DirectUnheard
  \/ DirectApplies \/ DryRunFinds \/ DryRunApplies \/ AfterPatch
  \/ GitRefuses \/ GitApplies \/ GitSkips \/ AfterGit
  \/ Truncated \/ ReplaceFile \/ Prepare \/ RejectHeaders
  \/ LookSettled \/ LookMerged \/ LookFinds \/ LookMisses
  \/ FoundAll \/ NothingToApply \/ Select
  \/ Applies \/ AppliesNothing \/ ApplyFails \/ DifflibRaises
  \/ FinishForced \/ Finish \/ Validated \/ Refused
  \/ Done

Spec == Init /\ [][Next]_vars

----------------------------------------------------------------------------

TypeOK ==
  /\ pc \in PCs /\ DOMAIN stage = Hunks
  /\ Hunks \subseteq 1..MaxHunks \/ Hunks = {1}
  /\ \A h \in Hunks : status[h] \in Statuses /\ stage[h] \in Stages
  /\ {written, error, result, modified, found, processed, skipped} \subseteq BOOLEAN
  /\ \A p \in DOMAIN rem : rem[p] \in Hunks
  /\ \A u \in DOMAIN units : /\ units[u].number \in DOMAIN rem
                             /\ units[u].hunks \subseteq Hunks
  /\ pc = "look" => Len(ids) >= Len(units)

(* A run that was not forced answers for every hunk: none is still pending *)
(* when the result is returned.                                            *)
AccountedFor == pc = "done" /\ ~forced => Pending = {}

(* A result of "already_applied" is a no-op: the file holds what it held   *)
(* before the run.                                                         *)
AlreadyAppliedIsNoOp ==
  pc = "done" /\ DetermineFinalStatus = "already_applied" => file = orig

(* When changes were written and the result offers to undo them, every     *)
(* hunk is in the file and none was before, so that the reversed diff      *)
(* takes out what this run put in - provided git apply did what its exit   *)
(* code said.                                                              *)
ReversibleIsExact ==
  pc = "done" /\ written /\ IsSafelyReversible /\ ~skipped
    => Hunks \subseteq file /\ Hunks \cap orig = {}

(* changes_written tells the truth: the file differs from what it was      *)
(* before the run, unless git apply skipped the patch.  (A forced run may  *)
(* rewrite a whole file with what it already holds.)                       *)
WrittenIsChanged ==
  pc = "done" /\ written /\ ~forced /\ ~skipped => file # orig
=============================================================================
