--------------------------- MODULE TaskScheduler ---------------------------
(***************************************************************************)
(* The scheduler loops of the Ziya servers that share one home directory   *)
(* (app/agents/task_scheduler.py, system_jobs.py): the lock file and its   *)
(* heartbeat, the pass that fires the due cards, the state file of a       *)
(* project and the system jobs that ride on the loop.                      *)
(*                                                                         *)
(* The servers are processes, so an action is one access to a file.  Time  *)
(* is counted in ticks of the loop (15 s) and kept relative to now: ages,  *)
(* remaining sleeps, remaining time to a fire.  Only a sleep and a system  *)
(* job last; the other steps of a loop are done within the tick.           *)
(***************************************************************************)
EXTENDS Integers, FiniteSets, FiniteSetsExt

CONSTANTS
    Server,       \* the servers that may run against the home
    Card,         \* the cards with an enabled schedule, of one project
    OneShot,      \* those of mode "at"; the others recur
    CatchUp,      \* those with schedule_catch_up
    Limited,      \* those with schedule_max_runs
    MaxRuns,      \* their schedule_max_runs
    MaxGap,       \* the longest time from a fire to the next slot, in ticks
    BeatEvery,    \* _LOCK_HEARTBEAT_INTERVAL_S
    StaleAfter,   \* _LOCK_STALE_THRESHOLD_S
    MaxStarts,    \* bound on the server starts of a behaviour
    MaxFaults     \* bound on its crashes and exceptions

ASSUME ScheduleAssumption ==
    /\ OneShot \subseteq Card /\ CatchUp \subseteq Card /\ Limited \subseteq Card
    /\ MaxRuns \in Nat \ {0} /\ MaxGap \in Nat \ {0}
    /\ BeatEvery \in Nat \ {0} /\ StaleAfter \in Nat
    /\ BeatEvery + 1 <= StaleAfter
    /\ MaxStarts \in Nat /\ MaxFaults \in Nat

ASSUME NamesAssumption == {"absent", "torn", "gone"} \intersect Server = {}

VARIABLES
    lock,         \* whose pid the lock file holds; absent, torn in a write, gone if dead
    lockAge,      \* time since its heartbeat_ms
    pc,           \* the next step of each loop
    holds,        \* servers whose handle is not None
    sinceBeat,    \* time since last_heartbeat
    wake,         \* what is left of a sleep
    todo,         \* cards the pass has not come to
    target,       \* the card it fires or reschedules, or none
    draft,        \* the state it is about to write
    nextFire,     \* next_fire_at of each card on disk, as the time left
    fires,        \* fires_so_far on disk
    atIn,         \* time left to schedule_at_iso
    jobChecked,   \* no system job is due according to system_jobs.json
    runs,         \* runs created, counted up to one above the limit
    clean,        \* no two updates of the state file overlapped, none was lost or cut off
    starts, faults

loops  == <<pc, sinceBeat, wake, todo, target, draft>>
locks  == <<lock, lockAge, holds>>
cards  == <<nextFire, fires>>
bounds == <<starts, faults>>
vars   == <<loops, locks, cards, atIn, jobChecked, runs, clean, bounds>>

Never  == MaxGap + 1                  \* next_fire_at is None
Gap    == 0 .. Never
Time   == 0 .. StaleAfter + 1         \* ages are counted up to stale

(* From the read of the state file to its write.  "put" is also where a slot *)
(* is only set or put off and nothing fires.                                 *)
Updating == {"create", "record", "put"}
Pass     == {"pass"} \union Updating
PC       == Pass \union {"down", "sleep", "claim", "stamp", "confirm", "beat", "restamp", "job",
                         "leave"}

TypeOK ==
    /\ lock \in Server \union {"absent", "torn", "gone"}
    /\ lockAge \in Time
    /\ pc \in [Server -> PC]
    /\ holds \subseteq Server
    /\ sinceBeat \in [Server -> Time]
    /\ wake \in [Server -> 0 .. BeatEvery]
    /\ todo \in [Server -> SUBSET Card]
    /\ target \in [Server -> Card \union {"none"}]
    /\ draft \in [Server -> [nextFire : [Card -> Gap], fires : [Card -> 0 .. MaxRuns]]]
    /\ nextFire \in [Card -> Gap]
    /\ fires \in [Card -> 0 .. MaxRuns]
    /\ atIn \in [Card -> 0 .. MaxGap]
    /\ jobChecked \in BOOLEAN
    /\ runs \in [Card -> 0 .. MaxRuns + 1]
    /\ clean \in BOOLEAN
    /\ starts \in 0 .. MaxStarts
    /\ faults \in 0 .. MaxFaults

Up(n, top)   == IF n < top THEN n + 1 ELSE n
Down(n)      == IF n > 0 THEN n - 1 ELSE 0
GapDown(g)   == IF g = Never THEN g ELSE Down(g)
Goto(s, l)   == pc' = [pc EXCEPT ![s] = l]
Sleep(s, n)  == Goto(s, "sleep") /\ wake' = [wake EXCEPT ![s] = n]
Empty        == [nextFire |-> [c \in Card |-> Never], fires |-> [c \in Card |-> 0]]

(* The server leaves the pass or its step at a card: its locals are gone.    *)
Drop(s) ==
    /\ target' = [target EXCEPT ![s] = "none"]
    /\ draft' = [draft EXCEPT ![s] = Empty]
Abandon(s) == Drop(s) /\ todo' = [todo EXCEPT ![s] = {}]

ComputeNextFireSkips(c) ==   \* mutant
    IF c \in OneShot THEN {IF atIn[c] > 0 THEN atIn[c] ELSE Never} ELSE 2 .. 2 * MaxGap

ComputeNextFireAgain(c) ==   \* mutant
    IF c \in OneShot THEN {atIn[c]} ELSE 1 .. MaxGap

(* compute_next_fire from now, for the next slot at any distance. *)
ComputeNextFire(c) ==
    IF c \in OneShot THEN {IF atIn[c] > 0 THEN atIn[c] ELSE Never} ELSE 1 .. MaxGap

IsStaleIfUnreadable == lock \in {"absent", "torn"}   \* mutant

(* _LockHandle.is_stale; a file cut by a write in progress does not parse.   *)
IsStale == lock \in {"absent", "torn"} \/ lockAge > StaleAfter

ExhaustedLate(c) == c \in Limited /\ fires[c] > MaxRuns   \* mutant

(* schedule_max_runs is reached. *)
Exhausted(c) == c \in Limited /\ fires[c] >= MaxRuns

-----------------------------------------------------------------------------
Init ==
    /\ lock = "absent"
    /\ lockAge = 0
    /\ pc = [s \in Server |-> "down"]
    /\ holds = {}
    /\ sinceBeat = [s \in Server |-> 0]
    /\ wake = [s \in Server |-> 0]
    /\ todo = [s \in Server |-> {}]
    /\ target = [s \in Server |-> "none"]
    /\ nextFire = [c \in Card |-> Never]
    /\ fires = [c \in Card |-> 0]
    /\ draft = [s \in Server |-> Empty]
    /\ atIn \in {f \in [Card -> 0 .. MaxGap] : \A c \in Card \ OneShot : f[c] = 0}
    /\ jobChecked = TRUE
    /\ runs = [c \in Card |-> 0]
    /\ clean = TRUE
    /\ starts = 0
    /\ faults = 0

(* start_scheduler *)
Start(s) ==
    /\ pc[s] = "down"
    /\ starts < MaxStarts
    /\ starts' = starts + 1
    /\ Sleep(s, 0)
    /\ UNCHANGED <<sinceBeat, todo, target, draft, locks, cards, atIn, jobChecked, runs, clean,
                   faults>>

-----------------------------------------------------------------------------
(* The lock. *)

(* _acquire_lock: a live lock sends the loop to sleep. *)
TryAcquire(s) ==
    /\ pc[s] = "sleep" /\ wake[s] = 0
    /\ s \notin holds
    /\ IF IsStale THEN Goto(s, "claim") /\ UNCHANGED wake ELSE Sleep(s, BeatEvery)
    /\ UNCHANGED <<sinceBeat, todo, target, draft, locks, cards, atIn, jobChecked, runs, clean,
                   bounds>>

(* _LockHandle.write opens the file, which empties it, and then fills it.    *)
Truncate(s) ==
    /\ \/ pc[s] = "claim" /\ Goto(s, "stamp")
       \/ pc[s] = "beat" /\ Goto(s, "restamp")
    /\ lock' = "torn"
    /\ UNCHANGED <<lockAge, holds, sinceBeat, wake, todo, target, draft, cards, atIn, jobChecked,
                   runs, clean, bounds>>

(* The start of a fire pass, with the lock held. *)
StartPass(s) == Goto(s, "pass") /\ todo' = [todo EXCEPT ![s] = Card]

Stamp(s) ==
    /\ \/ pc[s] = "stamp" /\ Goto(s, "confirm") /\ UNCHANGED <<todo, sinceBeat>>
       \/ pc[s] = "restamp" /\ StartPass(s) /\ sinceBeat' = [sinceBeat EXCEPT ![s] = 0]
    /\ lock' = s
    /\ lockAge' = 0
    /\ UNCHANGED <<holds, wake, target, draft, cards, atIn, jobChecked, runs, clean, bounds>>

(* _acquire_lock re-reads the file. *)
Confirm(s) ==
    /\ pc[s] = "confirm"
    /\ IF lock = s
       THEN /\ StartPass(s)
            /\ holds' = holds \union {s}
            /\ sinceBeat' = [sinceBeat EXCEPT ![s] = 0]
            /\ UNCHANGED wake
       ELSE /\ Sleep(s, BeatEvery)
            /\ UNCHANGED <<holds, sinceBeat, todo>>
    /\ UNCHANGED <<lock, lockAge, target, draft, cards, atIn, jobChecked, runs, clean, bounds>>

LoseLock(s) ==
    /\ holds' = holds \ {s}
    /\ sinceBeat' = [sinceBeat EXCEPT ![s] = 0]

HeartbeatLate(s) ==   \* mutant
    /\ pc[s] = "sleep" /\ wake[s] = 0
    /\ s \in holds
    /\ \/ sinceBeat[s] <= StaleAfter /\ StartPass(s) /\ UNCHANGED <<holds, sinceBeat>>
       \/ sinceBeat[s] > StaleAfter /\ lock = s
          /\ Goto(s, "beat") /\ UNCHANGED <<todo, holds, sinceBeat>>
       \/ sinceBeat[s] > StaleAfter /\ lock # s
          /\ LoseLock(s) /\ UNCHANGED <<pc, todo>>
    /\ UNCHANGED <<lock, lockAge, wake, target, draft, cards, atIn, jobChecked, runs, clean,
                   bounds>>

HeartbeatUnchecked(s) ==   \* mutant
    /\ pc[s] = "sleep" /\ wake[s] = 0
    /\ s \in holds
    /\ \/ sinceBeat[s] <= BeatEvery /\ StartPass(s)
       \/ sinceBeat[s] > BeatEvery /\ Goto(s, "beat") /\ UNCHANGED todo
    /\ UNCHANGED <<lock, lockAge, holds, sinceBeat, wake, target, draft, cards, atIn, jobChecked,
                   runs, clean, bounds>>

(* The top of the loop for a holder: a heartbeat is due or not, and if it is *)
(* the file must still be the server's own.                                  *)
Heartbeat(s) ==
    /\ pc[s] = "sleep" /\ wake[s] = 0
    /\ s \in holds
    /\ \/ sinceBeat[s] <= BeatEvery /\ StartPass(s) /\ UNCHANGED <<holds, sinceBeat>>
       \/ sinceBeat[s] > BeatEvery /\ lock = s
          /\ Goto(s, "beat") /\ UNCHANGED <<todo, holds, sinceBeat>>
       \/ sinceBeat[s] > BeatEvery /\ lock # s
          /\ LoseLock(s) /\ UNCHANGED <<pc, todo>>
    /\ UNCHANGED <<lock, lockAge, wake, target, draft, cards, atIn, jobChecked, runs,
                   clean, bounds>>

-----------------------------------------------------------------------------
(* The fire pass. *)

(* The server will write the state it has read, with g and n for card c.     *)
Drafted(s, c, g, n) ==
    draft' = [draft EXCEPT ![s] = [nextFire |-> [nextFire EXCEPT ![c] = g],
                                   fires    |-> [fires EXCEPT ![c] = n]]]

(* The card is looked up in the state file: out of runs or not due, not yet  *)
(* scheduled, due but put off, or due.                                       *)
Check(s, c) ==
    /\ pc[s] = "pass"
    /\ c \in todo[s]
    /\ todo' = [todo EXCEPT ![s] = @ \ {c}]
    /\ LET due == nextFire[c] = 0
           late == due /\ c \notin CatchUp /\ fires[c] > 0
       IN \/ /\ Exhausted(c) \/ nextFire[c] \in 1 .. MaxGap
             /\ UNCHANGED <<pc, target, draft>>
          \/ /\ ~Exhausted(c)
             /\ nextFire[c] = Never \/ late
             /\ target' = [target EXCEPT ![s] = c]
             /\ \E g \in ComputeNextFire(c) : Drafted(s, c, g, fires[c])
             /\ Goto(s, "put")
          \/ /\ ~Exhausted(c)
             /\ due /\ ~late
             /\ target' = [target EXCEPT ![s] = c]
             /\ Goto(s, "create")
             /\ UNCHANGED draft
    /\ clean' = (clean /\ (pc'[s] = "pass" \/ \A t \in Server \ {s} : pc[t] \notin Updating))
    /\ UNCHANGED <<sinceBeat, wake, locks, cards, atIn, jobChecked, runs, bounds>>

(* _fire_one creates the run and seeds its blocks ...                        *)
Create(s) ==
    /\ pc[s] = "create"
    /\ Goto(s, "record")
    /\ runs' = [runs EXCEPT ![target[s]] = Up(@, MaxRuns + 1)]
    /\ UNCHANGED <<sinceBeat, wake, todo, target, draft, locks, cards, atIn, jobChecked, clean,
                   bounds>>

RecordUncounted(s) ==   \* mutant
    /\ pc[s] = "record"
    /\ Goto(s, "put")
    /\ LET c == target[s]
       IN \E g \in ComputeNextFire(c) : Drafted(s, c, g, fires[c])
    /\ UNCHANGED <<sinceBeat, wake, todo, target, locks, cards, atIn, jobChecked, runs, clean,
                   bounds>>

(* ... reads the state again ...                                             *)
Record(s) ==
    /\ pc[s] = "record"
    /\ Goto(s, "put")
    /\ LET c == target[s]
       IN \E g \in ComputeNextFire(c) : Drafted(s, c, g, Up(fires[c], MaxRuns))
    /\ UNCHANGED <<sinceBeat, wake, todo, target, locks, cards, atIn, jobChecked, runs, clean,
                   bounds>>

(* ... and writes it back, as the other branches of the pass do.             *)
Put(s) ==
    /\ pc[s] = "put"
    /\ Goto(s, "pass")
    /\ nextFire' = draft[s].nextFire
    /\ fires' = draft[s].fires
    /\ Drop(s)
    /\ UNCHANGED <<sinceBeat, wake, todo, locks, atIn, jobChecked, runs, clean,
                   bounds>>

(* The system jobs of the tick: none is due, its gate declines, or it runs.  *)
EndPass(s) ==
    /\ pc[s] = "pass" /\ todo[s] = {}
    /\ \/ Sleep(s, 1) /\ jobChecked' = TRUE
       \/ ~jobChecked /\ Goto(s, "job") /\ UNCHANGED <<wake, jobChecked>>
    /\ UNCHANGED <<sinceBeat, todo, target, draft, locks, cards, atIn, runs, clean, bounds>>

(* await job.run() returns; only now system_jobs.json says it was checked.   *)
EndJob(s) ==
    /\ pc[s] = "job"
    /\ Sleep(s, 1)
    /\ jobChecked' = TRUE
    /\ UNCHANGED <<sinceBeat, todo, target, draft, locks, cards, atIn, runs, clean, bounds>>

-----------------------------------------------------------------------------
(* Ends and faults. *)

(* The loop is cancelled at one of its awaits and releases a lock it holds.  *)
Shutdown(s) ==
    /\ pc[s] \in {"job", "sleep"}
    /\ holds' = holds \ {s}
    /\ Goto(s, IF s \in holds /\ lock = s THEN "leave" ELSE "down")
    /\ sinceBeat' = [sinceBeat EXCEPT ![s] = 0]
    /\ wake' = [wake EXCEPT ![s] = 0]
    /\ UNCHANGED <<lock, lockAge, todo, target, draft, cards, atIn, jobChecked,
                   runs, clean, bounds>>

Unlink(s) ==
    /\ pc[s] = "leave"
    /\ Goto(s, "down")
    /\ lock' = "absent"
    /\ UNCHANGED <<lockAge, holds, sinceBeat, wake, todo, target, draft, cards, atIn, jobChecked,
                   runs, clean, bounds>>

(* The process dies; a started one has another pid. *)
Crash(s) ==
    /\ pc[s] # "down"
    /\ faults < MaxFaults
    /\ faults' = faults + 1
    /\ Goto(s, "down")
    /\ holds' = holds \ {s}
    /\ lock' = IF lock = s THEN "gone" ELSE lock
    /\ Abandon(s)
    /\ sinceBeat' = [sinceBeat EXCEPT ![s] = 0]
    /\ wake' = [wake EXCEPT ![s] = 0]
    /\ clean' = (clean /\ pc[s] \notin {"record", "put"})
    /\ UNCHANGED <<lockAge, cards, atIn, jobChecked, runs,
                   starts>>

(* A read or write raises: the tick ends there. *)
TickRaises(s) ==
    /\ pc[s] \in Pass \union {"claim", "stamp", "beat", "restamp"}
    /\ faults < MaxFaults
    /\ faults' = faults + 1
    /\ Sleep(s, 1)
    /\ Abandon(s)
    /\ clean' = (clean /\ pc[s] \notin {"record", "put"})
    /\ UNCHANGED <<sinceBeat, locks, cards, atIn, jobChecked, runs, starts>>

(* _read_state takes a file it cannot read for an empty one: what is written *)
(* back has card c only.                                                     *)
ReadFails(s, c) ==
    /\ \/ pc[s] = "pass" /\ c \in todo[s]
       \/ pc[s] = "record" /\ c = target[s]
    /\ faults < MaxFaults
    /\ faults' = faults + 1
    /\ \E g \in ComputeNextFire(c) :
           draft' = [draft EXCEPT ![s] =
                       [nextFire |-> [d \in Card |-> IF d = c THEN g ELSE Never],
                        fires    |-> [d \in Card |-> IF d = c /\ pc[s] = "record" THEN 1 ELSE 0]]]
    /\ todo' = [todo EXCEPT ![s] = @ \ {c}]
    /\ target' = [target EXCEPT ![s] = c]
    /\ Goto(s, "put")
    /\ clean' = FALSE
    /\ UNCHANGED <<sinceBeat, wake, locks, cards, atIn, jobChecked, runs, starts>>

(* _write_state logs an OSError and the pass goes on. *)
PutFails(s) ==
    /\ pc[s] = "put"
    /\ faults < MaxFaults
    /\ faults' = faults + 1
    /\ Goto(s, "pass")
    /\ Drop(s)
    /\ clean' = FALSE
    /\ UNCHANGED <<sinceBeat, wake, todo, locks, cards, atIn, jobChecked, runs,
                   starts>>

Waiting(s) == pc[s] \in {"down", "job"} \/ (pc[s] = "sleep" /\ wake[s] > 0)

(* A tick passes when every server waits.  An interval of the system jobs    *)
(* may end with it, or the last write of system_jobs.json was lost.          *)
Tick ==
    /\ \A s \in Server : Waiting(s)
    /\ lockAge' = IF lock \in {"absent", "torn"} THEN 0 ELSE Up(lockAge, StaleAfter + 1)
    /\ sinceBeat' = [s \in Server |-> IF s \in holds THEN Up(sinceBeat[s], StaleAfter + 1) ELSE 0]
    /\ wake' = [s \in Server |-> Down(wake[s])]
    /\ nextFire' = [c \in Card |-> GapDown(nextFire[c])]
    /\ atIn' = [c \in Card |-> Down(atIn[c])]
    /\ jobChecked' \in {jobChecked, FALSE}
    /\ UNCHANGED <<lock, holds, pc, todo, target, draft, fires, runs, clean, bounds>>

Step(s) ==
    \/ TryAcquire(s) \/ Truncate(s) \/ Stamp(s) \/ Confirm(s) \/ Heartbeat(s)
    \/ \E c \in Card : Check(s, c)
    \/ Create(s) \/ Record(s) \/ Put(s) \/ EndPass(s) \/ EndJob(s)

Next ==
    \/ Tick
    \/ \E s \in Server :
          \/ Start(s) \/ Step(s) \/ Shutdown(s) \/ Unlink(s)
          \/ Crash(s) \/ TickRaises(s) \/ PutFails(s)
          \/ \E c \in Card : ReadFails(s, c)

Spec == Init /\ [][Next]_vars

(* A loop that is up goes on and time passes; nobody has to start or stop a  *)
(* server.                                                                   *)
Fairness ==
    /\ WF_vars(Tick)
    /\ \A s \in Server : WF_vars(Step(s)) /\ WF_vars(Unlink(s))

FairSpec == Spec /\ Fairness

-----------------------------------------------------------------------------
(* A holder starts a pass on a lock no peer may take over: when the pass     *)
(* runs and the file is the server's own, its heartbeat is recent.           *)
PassOnFreshLock ==
    \A s \in Server : pc[s] \in Pass /\ lock = s => lockAge <= BeatEvery

(* schedule_max_runs bounds the runs, counted where they are created, as     *)
(* long as no update of the state file was lost.                             *)
RunsWithinLimit ==
    clean => \A c \in Limited : runs[c] <= MaxRuns

(* A one-shot card runs once, whatever server comes to it.                   *)
OneShotRunsOnce ==
    clean => \A c \in OneShot : runs[c] <= 1

(* fires_so_far counts the runs created, but for the fire in progress.       *)
RunsAreCounted ==
    clean => \A c \in Card :
        (\A s \in Server : target[s] # c) => fires[c] = Min({runs[c], MaxRuns})

(* Two servers that both hold the lock, which its write and check allow, do  *)
(* not both keep it: the heartbeat of one finds the file to be the other's.  *)
TwoHoldersResolve ==
    (Cardinality(holds) > 1) ~> (Cardinality(holds) <= 1)

(* While some server stays up and the servers do not undo each other's       *)
(* updates of the state file for ever, a recurring card without a limit and  *)
(* with catch-up fires again and again: crashes, lost locks and jobs of any  *)
(* length only delay it.                                                     *)
Racing == Cardinality({s \in Server : pc[s] \in Updating}) > 1

KeepsFiring ==
    (\E s \in Server : <>[](pc[s] # "down")) /\ <>[]~Racing
        => \A c \in CatchUp \ (OneShot \union Limited) :
               []<>(\E s \in Server : pc[s] = "record" /\ target[s] = c)
=============================================================================
