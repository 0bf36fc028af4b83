------------------------ MODULE TaskSchedulerProofs ------------------------
(***************************************************************************)
(* For any servers, cards and bounds: what the lock promises to a pass and *)
(* what the state file promises about runs while no update of it was lost. *)
(***************************************************************************)
EXTENDS TaskScheduler, TLAPS

-----------------------------------------------------------------------------
(* The inductive invariants                                                *)

\* A server in a pass holds the lock; a file with its name is its own, and is
\* no older than it remembers.
LockInv ==
    /\ \A s \in Server : pc[s] \in Pass \union {"beat", "restamp"} => s \in holds
    /\ \A s \in Server : pc[s] \in {"down", "claim", "stamp", "confirm", "leave"} => s \notin holds
    /\ \A s \in Server : lock = s =>
           \/ s \in holds /\ lockAge <= sinceBeat[s]
           \/ pc[s] = "confirm" /\ lockAge = 0
           \/ pc[s] = "leave"
    /\ PassOnFreshLock

\* Types, and the card of a fire.
Base == TypeOK /\ \A s \in Server : pc[s] \in Updating => target[s] \in Card

Counted(c) == Min({runs[c], MaxRuns})
Updaters   == {s \in Server : pc[s] \in Updating}
Owing(c)   == \E s \in Server : pc[s] \in {"record", "put"} /\ target[s] = c

\* While clean one server at most updates the state file, what it is about to
\* write counts the runs, and so does the file but for the card it has just run.
CountInv ==
    clean =>
       /\ \A s, t \in Updaters : s = t
       /\ \A s \in Server : pc[s] = "put" =>
              \A c \in Card : draft[s].fires[c] = Counted(c)
       /\ \A s \in Server : pc[s] = "record" =>
              Up(fires[target[s]], MaxRuns) = Counted(target[s])
       /\ \A c \in Card : ~Owing(c) => fires[c] = Counted(c)
       /\ \A s \in Server : pc[s] = "create" /\ target[s] \in Limited => fires[target[s]] < MaxRuns
       /\ \A c \in Limited : runs[c] <= MaxRuns

\* While clean a one-shot card is scheduled at its time or not at all, and not
\* at all once it ran.
SlotInv ==
    clean => \A c \in OneShot :
       /\ nextFire[c] \in {Never, atIn[c]}
       /\ runs[c] <= 1
       /\ runs[c] = 1 => atIn[c] = 0
       /\ runs[c] = 1 /\ ~Owing(c) => nextFire[c] = Never
       /\ \A s \in Server : pc[s] = "put" =>
              draft[s].nextFire[c] \in (IF runs[c] = 1 THEN {Never} ELSE {Never, atIn[c]})
       /\ \A s \in Server : pc[s] = "create" /\ target[s] = c => runs[c] = 0 /\ atIn[c] = 0

-----------------------------------------------------------------------------
(* Numbers and types                                                       *)

DraftState == [nextFire : [Card -> Gap], fires : [Card -> 0 .. MaxRuns]]

LEMMA MinOfTwo ==
    ASSUME NEW a \in Int, NEW b \in Int
    PROVE  Min({a, b}) = IF a <= b THEN a ELSE b
  <1> DEFINE P(x) == x \in {a, b} /\ \A y \in {a, b} : x =< y
  <1>1. \E x : P(x)
    <2>1. CASE a <= b
      BY <2>1
    <2>2. CASE ~(a <= b)
      BY <2>2
    <2> QED
      BY <2>1, <2>2
  <1>2. Min({a, b}) = CHOOSE x : P(x)
    BY Zenon DEF Min
  <1>3. P(CHOOSE x : P(x))
    BY <1>1, Zenon
  <1>4. P(Min({a, b}))
    BY <1>2, <1>3, Zenon
  <1> QED
    BY <1>4

LEMMA CountedIs ==
    ASSUME TypeOK, NEW c \in Card
    PROVE  /\ Counted(c) = IF runs[c] <= MaxRuns THEN runs[c] ELSE MaxRuns
           /\ Counted(c) \in 0 .. MaxRuns
  <1>1. runs[c] \in 0 .. MaxRuns + 1 /\ MaxRuns \in Nat
    BY ScheduleAssumption DEF TypeOK
  <1> QED
    BY <1>1, MinOfTwo DEF Counted

LEMMA UpDown ==
    ASSUME NEW top \in Nat, NEW n \in 0 .. top
    PROVE  Up(n, top) \in 0 .. top /\ Down(n) \in 0 .. top
  BY DEF Up, Down

LEMMA FireTimes ==
    ASSUME TypeOK, NEW c \in Card
    PROVE  ComputeNextFire(c) \subseteq Gap
  BY ScheduleAssumption DEF TypeOK, ComputeNextFire, Gap, Never

LEMMA EmptyType == Empty \in DraftState
  BY ScheduleAssumption DEF Empty, DraftState, Gap, Never

LEMMA DraftedType ==
    ASSUME TypeOK, NEW s \in Server, NEW c \in Card, NEW g \in Gap, NEW n \in 0 .. MaxRuns,
           Drafted(s, c, g, n)
    PROVE  draft' \in [Server -> DraftState]
  <1>1. [nextFire EXCEPT ![c] = g] \in [Card -> Gap]
    BY DEF TypeOK
  <1>2. [fires EXCEPT ![c] = n] \in [Card -> 0 .. MaxRuns]
    BY DEF TypeOK
  <1>3. draft \in [Server -> DraftState]
    BY DEF TypeOK, DraftState
  <1> QED
    BY <1>1, <1>2, <1>3 DEF Drafted, DraftState

\* The types by what they are about, so that a step is looked at part by part.
LoopsOK ==
    /\ pc \in [Server -> PC] /\ wake \in [Server -> 0 .. BeatEvery]
    /\ todo \in [Server -> SUBSET Card] /\ target \in [Server -> Card \union {"none"}]
    /\ \A s \in Server : pc[s] \in Updating => target[s] \in Card
LocksOK ==
    /\ lock \in Server \union {"absent", "torn", "gone"} /\ lockAge \in Time
    /\ holds \subseteq Server /\ sinceBeat \in [Server -> Time]
DraftsOK == draft \in [Server -> DraftState]
CardsOK ==
    /\ nextFire \in [Card -> Gap] /\ fires \in [Card -> 0 .. MaxRuns]
    /\ atIn \in [Card -> 0 .. MaxGap] /\ runs \in [Card -> 0 .. MaxRuns + 1]
    /\ jobChecked \in BOOLEAN /\ clean \in BOOLEAN
    /\ starts \in 0 .. MaxStarts /\ faults \in 0 .. MaxFaults

LEMMA BaseParts == Base <=> LoopsOK /\ LocksOK /\ DraftsOK /\ CardsOK
  BY DEF Base, TypeOK, LoopsOK, LocksOK, DraftsOK, CardsOK, DraftState

LEMMA BaseInit == Init => Base
  <1> SUFFICES ASSUME Init PROVE Base
    OBVIOUS
  <1>1. DraftsOK
    BY EmptyType DEF Init, DraftsOK
  <1>2. LoopsOK /\ LocksOK
    BY ScheduleAssumption DEF Init, LoopsOK, LocksOK, Time, PC, Pass, Updating
  <1>3. CardsOK
    BY ScheduleAssumption DEF Init, CardsOK, Gap, Never
  <1> QED
    BY <1>1, <1>2, <1>3, BaseParts

LEMMA BaseNext == Base /\ [Next]_vars => Base'
  <1> SUFFICES ASSUME Base, [Next]_vars PROVE Base'
    OBVIOUS
  <1>t. TypeOK /\ LoopsOK /\ LocksOK /\ DraftsOK /\ CardsOK
    BY BaseParts DEF Base
  <1>p. LoopsOK' /\ LocksOK' /\ DraftsOK' /\ CardsOK' => Base'
    BY DEF Base, TypeOK, LoopsOK, LocksOK, DraftsOK, CardsOK, DraftState
  <1>0. BeatEvery \in Nat \ {0} /\ StaleAfter \in Nat /\ MaxRuns \in Nat \ {0} /\ MaxGap \in Nat \ {0}
        /\ MaxStarts \in Nat /\ MaxFaults \in Nat
    BY ScheduleAssumption
  <1>1. ASSUME NEW s \in Server, Start(s) PROVE Base'
    <2>1. LoopsOK'
      BY <1>0, <1>t, <1>1 DEF Start, LoopsOK, PC, Pass, Updating, Goto, Sleep
    <2>2. LocksOK'
      BY <1>0, <1>t, <1>1 DEF Start, LocksOK, locks
    <2>3. DraftsOK'
      BY <1>0, <1>t, <1>1 DEF Start, DraftsOK
    <2>4. CardsOK'
      BY <1>0, <1>t, <1>1 DEF Start, CardsOK, cards, bounds
    <2> QED
      BY <1>p, <2>1, <2>2, <2>3, <2>4
  <1>2. ASSUME NEW s \in Server, TryAcquire(s) PROVE Base'
    <2>1. LoopsOK'
      BY <1>0, <1>t, <1>2 DEF TryAcquire, LoopsOK, PC, Pass, Updating, Goto, Sleep
    <2>2. LocksOK'
      BY <1>0, <1>t, <1>2 DEF TryAcquire, LocksOK, locks
    <2>3. DraftsOK'
      BY <1>0, <1>t, <1>2 DEF TryAcquire, DraftsOK
    <2>4. CardsOK'
      BY <1>0, <1>t, <1>2 DEF TryAcquire, CardsOK, cards, bounds
    <2> QED
      BY <1>p, <2>1, <2>2, <2>3, <2>4
  <1>3. ASSUME NEW s \in Server, Truncate(s) PROVE Base'
    <2>1. LoopsOK'
      BY <1>0, <1>t, <1>3 DEF Truncate, LoopsOK, PC, Pass, Updating, Goto, Sleep
    <2>2. LocksOK'
      BY <1>0, <1>t, <1>3 DEF Truncate, LocksOK, locks
    <2>3. DraftsOK'
      BY <1>0, <1>t, <1>3 DEF Truncate, DraftsOK
    <2>4. CardsOK'
      BY <1>0, <1>t, <1>3 DEF Truncate, CardsOK, cards, bounds
    <2> QED
      BY <1>p, <2>1, <2>2, <2>3, <2>4
  <1>4. ASSUME NEW s \in Server, Stamp(s) PROVE Base'
    <2>1. LoopsOK'
      BY <1>0, <1>t, <1>4 DEF Stamp, LoopsOK, PC, Pass, Updating, Goto, Sleep, StartPass
    <2>2. LocksOK'
      BY <1>0, <1>t, <1>4 DEF Stamp, LocksOK, locks, Time
    <2>3. DraftsOK'
      BY <1>0, <1>t, <1>4 DEF Stamp, DraftsOK
    <2>4. CardsOK'
      BY <1>0, <1>t, <1>4 DEF Stamp, CardsOK, cards, bounds
    <2> QED
      BY <1>p, <2>1, <2>2, <2>3, <2>4
  <1>5. ASSUME NEW s \in Server, Confirm(s) PROVE Base'
    <2>1. LoopsOK'
      BY <1>0, <1>t, <1>5 DEF Confirm, LoopsOK, PC, Pass, Updating, Goto, Sleep, StartPass
    <2>2. LocksOK'
      BY <1>0, <1>t, <1>5 DEF Confirm, LocksOK, locks, Time
    <2>3. DraftsOK'
      BY <1>0, <1>t, <1>5 DEF Confirm, DraftsOK
    <2>4. CardsOK'
      BY <1>0, <1>t, <1>5 DEF Confirm, CardsOK, cards, bounds
    <2> QED
      BY <1>p, <2>1, <2>2, <2>3, <2>4
  <1>6. ASSUME NEW s \in Server, Heartbeat(s) PROVE Base'
    <2>1. LoopsOK'
      BY <1>0, <1>t, <1>6 DEF Heartbeat, LoopsOK, PC, Pass, Updating, Goto, Sleep, StartPass, LoseLock
    <2>2. LocksOK'
      BY <1>0, <1>t, <1>6 DEF Heartbeat, LocksOK, locks, StartPass, LoseLock, Time
    <2>3. DraftsOK'
      BY <1>0, <1>t, <1>6 DEF Heartbeat, DraftsOK
    <2>4. CardsOK'
      BY <1>0, <1>t, <1>6 DEF Heartbeat, CardsOK, cards, bounds
    <2> QED
      BY <1>p, <2>1, <2>2, <2>3, <2>4
  <1>7. ASSUME NEW s \in Server, EndPass(s) PROVE Base'
    <2>1. LoopsOK'
      BY <1>0, <1>t, <1>7 DEF EndPass, LoopsOK, PC, Pass, Updating, Goto, Sleep
    <2>2. LocksOK'
      BY <1>0, <1>t, <1>7 DEF EndPass, LocksOK, locks
    <2>3. DraftsOK'
      BY <1>0, <1>t, <1>7 DEF EndPass, DraftsOK
    <2>4. CardsOK'
      BY <1>0, <1>t, <1>7 DEF EndPass, CardsOK, cards, bounds
    <2> QED
      BY <1>p, <2>1, <2>2, <2>3, <2>4
  <1>8. ASSUME NEW s \in Server, EndJob(s) PROVE Base'
    <2>1. LoopsOK'
      BY <1>0, <1>t, <1>8 DEF EndJob, LoopsOK, PC, Pass, Updating, Goto, Sleep
    <2>2. LocksOK'
      BY <1>0, <1>t, <1>8 DEF EndJob, LocksOK, locks
    <2>3. DraftsOK'
      BY <1>0, <1>t, <1>8 DEF EndJob, DraftsOK
    <2>4. CardsOK'
      BY <1>0, <1>t, <1>8 DEF EndJob, CardsOK, cards, bounds
    <2> QED
      BY <1>p, <2>1, <2>2, <2>3, <2>4
  <1>9. ASSUME NEW s \in Server, Shutdown(s) PROVE Base'
    <2>1. LoopsOK'
      BY <1>0, <1>t, <1>9 DEF Shutdown, LoopsOK, PC, Pass, Updating, Goto, Sleep
    <2>2. LocksOK'
      BY <1>0, <1>t, <1>9 DEF Shutdown, LocksOK, locks, Time
    <2>3. DraftsOK'
      BY <1>0, <1>t, <1>9 DEF Shutdown, DraftsOK
    <2>4. CardsOK'
      BY <1>0, <1>t, <1>9 DEF Shutdown, CardsOK, cards, bounds
    <2> QED
      BY <1>p, <2>1, <2>2, <2>3, <2>4
  <1>10. ASSUME NEW s \in Server, Unlink(s) PROVE Base'
    <2>1. LoopsOK'
      BY <1>0, <1>t, <1>10 DEF Unlink, LoopsOK, PC, Pass, Updating, Goto, Sleep
    <2>2. LocksOK'
      BY <1>0, <1>t, <1>10 DEF Unlink, LocksOK, locks
    <2>3. DraftsOK'
      BY <1>0, <1>t, <1>10 DEF Unlink, DraftsOK
    <2>4. CardsOK'
      BY <1>0, <1>t, <1>10 DEF Unlink, CardsOK, cards, bounds
    <2> QED
      BY <1>p, <2>1, <2>2, <2>3, <2>4
  <1>11. ASSUME NEW s \in Server, Crash(s) PROVE Base'
    <2>1. LoopsOK'
      BY <1>0, <1>t, <1>11 DEF Crash, LoopsOK, PC, Pass, Updating, Goto, Sleep, Abandon, Drop
    <2>2. LocksOK'
      BY <1>0, <1>t, <1>11 DEF Crash, LocksOK, locks, Time, Abandon, Drop
    <2>3. DraftsOK'
      BY <1>0, <1>t, <1>11, EmptyType DEF Crash, DraftsOK, Abandon, Drop
    <2>4. CardsOK'
      BY <1>0, <1>t, <1>11 DEF Crash, CardsOK, cards, bounds, Abandon, Drop
    <2> QED
      BY <1>p, <2>1, <2>2, <2>3, <2>4
  <1>12. ASSUME NEW s \in Server, TickRaises(s) PROVE Base'
    <2>1. LoopsOK'
      BY <1>0, <1>t, <1>12 DEF TickRaises, LoopsOK, PC, Pass, Updating, Goto, Sleep, Abandon, Drop
    <2>2. LocksOK'
      BY <1>0, <1>t, <1>12 DEF TickRaises, LocksOK, locks
    <2>3. DraftsOK'
      BY <1>0, <1>t, <1>12, EmptyType DEF TickRaises, DraftsOK, Abandon, Drop
    <2>4. CardsOK'
      BY <1>0, <1>t, <1>12 DEF TickRaises, CardsOK, cards, bounds, Abandon, Drop
    <2> QED
      BY <1>p, <2>1, <2>2, <2>3, <2>4
  <1>13. ASSUME NEW s \in Server, PutFails(s) PROVE Base'
    <2>1. LoopsOK'
      BY <1>0, <1>t, <1>13 DEF PutFails, LoopsOK, PC, Pass, Updating, Goto, Sleep, Drop
    <2>2. LocksOK'
      BY <1>0, <1>t, <1>13 DEF PutFails, LocksOK, locks
    <2>3. DraftsOK'
      BY <1>0, <1>t, <1>13, EmptyType DEF PutFails, DraftsOK, Drop
    <2>4. CardsOK'
      <3>1. clean' \in BOOLEAN /\ UNCHANGED <<nextFire, fires, atIn, runs, jobChecked, starts>>
        BY <1>13 DEF PutFails, cards
      <3>2. faults' \in 0 .. MaxFaults
        BY <1>0, <1>t, <1>13 DEF PutFails, CardsOK
      <3> QED
        BY <1>t, <3>1, <3>2 DEF CardsOK
    <2> QED
      BY <1>p, <2>1, <2>2, <2>3, <2>4
  <1>14. ASSUME NEW s \in Server, Put(s) PROVE Base'
    <2>1. LoopsOK'
      BY <1>0, <1>t, <1>14 DEF Put, LoopsOK, PC, Pass, Updating, Goto, Sleep, Drop
    <2>2. LocksOK'
      BY <1>0, <1>t, <1>14 DEF Put, LocksOK, locks
    <2>3. DraftsOK'
      BY <1>0, <1>t, <1>14, EmptyType DEF Put, DraftsOK, Drop
    <2>4. CardsOK'
      <3>1. draft[s] \in DraftState
        BY <1>t DEF DraftsOK
      <3>2. nextFire' \in [Card -> Gap] /\ fires' \in [Card -> 0 .. MaxRuns]
        BY <1>14, <3>1 DEF Put, DraftState
      <3> QED
        BY <1>t, <1>14, <3>2 DEF Put, CardsOK, bounds
    <2> QED
      BY <1>p, <2>1, <2>2, <2>3, <2>4
  <1>15. ASSUME NEW s \in Server, Create(s) PROVE Base'
    <2>1. LoopsOK'
      BY <1>0, <1>t, <1>15 DEF Create, LoopsOK, PC, Pass, Updating, Goto, Sleep
    <2>2. LocksOK'
      BY <1>0, <1>t, <1>15 DEF Create, LocksOK, locks
    <2>3. DraftsOK'
      BY <1>0, <1>t, <1>15 DEF Create, DraftsOK
    <2>4. CardsOK'
      <3>1. \A n \in 0 .. MaxRuns + 1 : Up(n, MaxRuns + 1) \in 0 .. MaxRuns + 1
        BY <1>0 DEF Up
      <3>2. runs' \in [Card -> 0 .. MaxRuns + 1]
        BY <1>t, <1>15, <3>1 DEF Create, CardsOK
      <3> QED
        BY <1>t, <1>15, <3>2 DEF Create, CardsOK, cards, bounds
    <2> QED
      BY <1>p, <2>1, <2>2, <2>3, <2>4
  <1>16. ASSUME NEW s \in Server, Record(s) PROVE Base'
    <2>1. LoopsOK'
      BY <1>0, <1>t, <1>16 DEF Record, LoopsOK, PC, Pass, Updating, Goto, Sleep
    <2>2. LocksOK'
      BY <1>0, <1>t, <1>16 DEF Record, LocksOK, locks
    <2>3. DraftsOK'
      <3>0. target[s] \in Card
        BY <1>16 DEF Record, Base, Updating
      <3>1. PICK g \in ComputeNextFire(target[s]) :
               Drafted(s, target[s], g, Up(fires[target[s]], MaxRuns))
        BY <1>16 DEF Record
      <3>2. g \in Gap /\ Up(fires[target[s]], MaxRuns) \in 0 .. MaxRuns
        BY <1>0, <1>t, <3>0, FireTimes, UpDown DEF CardsOK
      <3> QED
        BY <1>t, <3>0, <3>1, <3>2, DraftedType DEF DraftsOK
    <2>4. CardsOK'
      BY <1>0, <1>t, <1>16 DEF Record, CardsOK, cards, bounds
    <2> QED
      BY <1>p, <2>1, <2>2, <2>3, <2>4
  <1>17. ASSUME NEW s \in Server, NEW c \in Card, Check(s, c) PROVE Base'
    <2>1. LoopsOK'
      BY <1>0, <1>t, <1>17 DEF Check, LoopsOK, PC, Pass, Updating, Goto, Sleep
    <2>2. LocksOK'
      BY <1>0, <1>t, <1>17 DEF Check, LocksOK, locks
    <2>3. DraftsOK'
      <3>1. CASE UNCHANGED draft
        BY <1>t, <3>1 DEF DraftsOK
      <3>2. CASE \E g \in ComputeNextFire(c) : Drafted(s, c, g, fires[c])
        BY <1>t, <3>2, FireTimes, DraftedType DEF DraftsOK, CardsOK
      <3> QED
        BY <1>17, <3>1, <3>2 DEF Check
    <2>4. CardsOK'
      BY <1>0, <1>t, <1>17 DEF Check, CardsOK, cards, bounds
    <2> QED
      BY <1>p, <2>1, <2>2, <2>3, <2>4
  <1>18. ASSUME NEW s \in Server, NEW c \in Card, ReadFails(s, c) PROVE Base'
    <2>1. LoopsOK'
      BY <1>0, <1>t, <1>18 DEF ReadFails, LoopsOK, PC, Pass, Updating, Goto, Sleep
    <2>2. LocksOK'
      BY <1>0, <1>t, <1>18 DEF ReadFails, LocksOK, locks
    <2>3. DraftsOK'
      <3>1. PICK g \in ComputeNextFire(c) :
               draft' = [draft EXCEPT ![s] =
                           [nextFire |-> [d \in Card |-> IF d = c THEN g ELSE Never],
                            fires    |-> [d \in Card |-> IF d = c /\ pc[s] = "record" THEN 1 ELSE 0]]]
        BY <1>18 DEF ReadFails
      <3>2. g \in Gap /\ Never \in Gap
        BY <1>0, <1>t, FireTimes DEF Gap, Never
      <3>3. [nextFire |-> [d \in Card |-> IF d = c THEN g ELSE Never],
             fires    |-> [d \in Card |-> IF d = c /\ pc[s] = "record" THEN 1 ELSE 0]] \in DraftState
        BY <1>0, <3>2 DEF DraftState
      <3> QED
        BY <1>t, <3>1, <3>3 DEF DraftsOK
    <2>4. CardsOK'
      <3>1. clean' \in BOOLEAN /\ UNCHANGED <<nextFire, fires, atIn, runs, jobChecked, starts>>
        BY <1>18 DEF ReadFails, cards
      <3>2. faults' \in 0 .. MaxFaults
        BY <1>0, <1>t, <1>18 DEF ReadFails, CardsOK
      <3> QED
        BY <1>t, <3>1, <3>2 DEF CardsOK
    <2> QED
      BY <1>p, <2>1, <2>2, <2>3, <2>4
  <1>19. CASE Tick
    <2>1. LoopsOK'
      BY <1>0, <1>t, <1>19 DEF Tick, LoopsOK, Down
    <2>2. LocksOK'
      BY <1>0, <1>t, <1>19 DEF Tick, LocksOK, Time, Up
    <2>3. DraftsOK'
      BY <1>t, <1>19 DEF Tick, DraftsOK
    <2>4. CardsOK'
      <3>1. nextFire' \in [Card -> Gap]
        BY <1>0, <1>t, <1>19 DEF Tick, CardsOK, Gap, Never, GapDown, Down
      <3>2. atIn' \in [Card -> 0 .. MaxGap]
        BY <1>0, <1>t, <1>19 DEF Tick, CardsOK, Down
      <3>3. jobChecked' \in BOOLEAN
        BY <1>t, <1>19 DEF Tick, CardsOK
      <3> QED
        BY <1>t, <1>19, <3>1, <3>2, <3>3 DEF Tick, CardsOK, bounds
    <2> QED
      BY <1>p, <2>1, <2>2, <2>3, <2>4
  <1>20. CASE UNCHANGED vars
    BY <1>20 DEF vars, Base, TypeOK, loops, locks, cards, bounds
  <1> QED
    BY <1>1, <1>2, <1>3, <1>4, <1>5, <1>6, <1>7, <1>8, <1>9, <1>10, <1>11, <1>12, <1>13, <1>14,
       <1>15, <1>16, <1>17, <1>18, <1>19, <1>20 DEF Next, Step

-----------------------------------------------------------------------------
(* The lock                                                                *)

LEMMA LockInit == Init => LockInv
  BY NamesAssumption DEF Init, LockInv, PassOnFreshLock, Pass, Updating

LEMMA LockNext == Base /\ LockInv /\ [Next]_vars => LockInv'
  <1> SUFFICES ASSUME Base, LockInv, [Next]_vars PROVE LockInv'
    OBVIOUS
  <1> USE DEF LockInv, PassOnFreshLock, Pass, Updating
  <1>0. /\ BeatEvery \in Nat /\ StaleAfter \in Nat /\ BeatEvery + 1 <= StaleAfter
        /\ lockAge \in Time /\ \A s \in Server : sinceBeat[s] \in Time
        /\ pc \in [Server -> PC] /\ sinceBeat \in [Server -> Time]
        /\ "absent" \notin Server /\ "torn" \notin Server /\ "gone" \notin Server
    BY ScheduleAssumption, NamesAssumption DEF Base, TypeOK
  <1>1. ASSUME NEW s \in Server, Start(s) PROVE LockInv'
    BY <1>0, <1>1 DEF Start, Sleep, Goto, locks
  <1>2. ASSUME NEW s \in Server, TryAcquire(s) PROVE LockInv'
    BY <1>0, <1>2 DEF TryAcquire, Sleep, Goto, locks
  <1>3. ASSUME NEW s \in Server, Truncate(s) PROVE LockInv'
    BY <1>0, <1>3 DEF Truncate, Goto
  <1>4. ASSUME NEW s \in Server, Stamp(s) PROVE LockInv'
    BY <1>0, <1>4 DEF Stamp, StartPass, Goto
  <1>5. ASSUME NEW s \in Server, Confirm(s) PROVE LockInv'
    BY <1>0, <1>5 DEF Confirm, StartPass, Sleep, Goto
  <1>6. ASSUME NEW s \in Server, Heartbeat(s) PROVE LockInv'
    BY <1>0, <1>6 DEF Heartbeat, StartPass, LoseLock, Goto, Time
  <1>7. ASSUME NEW s \in Server, NEW c \in Card, Check(s, c) PROVE LockInv'
    BY <1>0, <1>7 DEF Check, Goto, locks
  <1>8. ASSUME NEW s \in Server, Create(s) \/ Record(s) PROVE LockInv'
    BY <1>0, <1>8 DEF Create, Record, Goto, locks
  <1>9. ASSUME NEW s \in Server, Put(s) \/ PutFails(s) PROVE LockInv'
    BY <1>0, <1>9 DEF Put, PutFails, Goto, locks
  <1>10. ASSUME NEW s \in Server, EndPass(s) \/ EndJob(s) PROVE LockInv'
    BY <1>0, <1>10 DEF EndPass, EndJob, Sleep, Goto, locks
  <1>11. ASSUME NEW s \in Server, Shutdown(s) PROVE LockInv'
    BY <1>0, <1>11 DEF Shutdown, Goto
  <1>12. ASSUME NEW s \in Server, Unlink(s) PROVE LockInv'
    BY <1>0, <1>12 DEF Unlink, Goto
  <1>13. ASSUME NEW s \in Server, Crash(s) PROVE LockInv'
    BY <1>0, <1>13 DEF Crash, Goto
  <1>14. ASSUME NEW s \in Server, TickRaises(s) PROVE LockInv'
    BY <1>0, <1>14 DEF TickRaises, Sleep, Goto, locks
  <1>15. ASSUME NEW s \in Server, NEW c \in Card, ReadFails(s, c) PROVE LockInv'
    BY <1>0, <1>15 DEF ReadFails, Goto, locks
  <1>16. CASE Tick
    <2>1. \A s \in Server : pc[s] \in {"down", "job", "sleep"}
      BY <1>16 DEF Tick, Waiting
    <2>2. ASSUME NEW s \in Server, lock = s PROVE s \in holds /\ lockAge' <= sinceBeat'[s]
      BY <1>0, <1>16, <2>1, <2>2 DEF Tick, Up, Time
    <2> QED
      BY <1>16, <2>1, <2>2 DEF Tick
  <1>17. CASE UNCHANGED vars
    BY <1>17 DEF vars, loops, locks
  <1> QED
    BY <1>1, <1>2, <1>3, <1>4, <1>5, <1>6, <1>7, <1>8, <1>9, <1>10, <1>11, <1>12, <1>13,
       <1>14, <1>15, <1>16, <1>17 DEF Next, Step

-----------------------------------------------------------------------------
(* The runs and their count                                                *)

LEMMA CountInit == Init => CountInv
  <1> SUFFICES ASSUME Init PROVE CountInv
    OBVIOUS
  <1>1. \A c \in Card : Counted(c) = 0
    BY BaseInit, CountedIs, ScheduleAssumption DEF Init, Base
  <1> QED
    BY <1>1, ScheduleAssumption DEF Init, CountInv, Updaters, Updating

\* What a step that neither fires nor writes leaves of the count.
LEMMA CountKept ==
    ASSUME CountInv, clean' => clean, UNCHANGED <<fires, runs>>,
           clean' => \A s \in Server :
               pc'[s] \in Updating =>
                  pc[s] = pc'[s] /\ target'[s] = target[s] /\ draft'[s] = draft[s],
           clean' => \A s \in Server : pc[s] \in {"record", "put"} => pc'[s] = pc[s]
    PROVE  CountInv'
  <1> SUFFICES ASSUME clean' PROVE CountInv'
    BY DEF CountInv
  <1>1. clean
    OBVIOUS
  <1>2. \A c \in Card : Counted(c)' = Counted(c)
    BY DEF Counted
  <1>3. \A c \in Card : Owing(c)' <=> Owing(c)
    BY <1>1 DEF Owing, Updating
  <1> QED
    BY <1>1, <1>2, <1>3 DEF CountInv, Updaters, Updating, Counted

LEMMA CountNext == Base /\ CountInv /\ [Next]_vars => CountInv'
  <1> SUFFICES ASSUME Base, CountInv, [Next]_vars PROVE CountInv'
    OBVIOUS
  <1>0. /\ TypeOK /\ pc \in [Server -> PC] /\ target \in [Server -> Card \union {"none"}]
        /\ fires \in [Card -> 0 .. MaxRuns] /\ runs \in [Card -> 0 .. MaxRuns + 1]
        /\ draft \in [Server -> DraftState] /\ MaxRuns \in Nat \ {0} /\ Limited \subseteq Card
    BY ScheduleAssumption DEF Base, TypeOK, DraftState
  <1>1. ASSUME NEW s \in Server,
               \/ Start(s) \/ TryAcquire(s) \/ Truncate(s) \/ Stamp(s) \/ Confirm(s)
               \/ Heartbeat(s) \/ EndPass(s) \/ EndJob(s) \/ Shutdown(s) \/ Unlink(s)
        PROVE  CountInv'
    <2>1. /\ UNCHANGED <<clean, fires, runs, target, draft>>
          /\ pc[s] \notin Updating /\ pc'[s] \notin Updating
          /\ \A t \in Server \ {s} : pc'[t] = pc[t]
      BY <1>0, <1>1 DEF Start, TryAcquire, Truncate, Stamp, Confirm, Heartbeat, EndPass, EndJob,
         Shutdown, Unlink, StartPass, LoseLock, Sleep, Goto, cards, Updating
    <2>2. \A t \in Server : pc'[t] \in Updating => pc[t] = pc'[t]
      BY <2>1
    <2>3. \A t \in Server : pc[t] \in {"record", "put"} => pc'[t] = pc[t]
      BY <2>1 DEF Updating
    <2> QED
      BY <2>1, <2>2, <2>3, CountKept
  <1>2. ASSUME NEW s \in Server, Crash(s) \/ TickRaises(s) PROVE CountInv'
    <2>1. /\ UNCHANGED <<fires, runs>>
          /\ clean' => clean /\ pc[s] \notin {"record", "put"}
          /\ pc'[s] \notin Updating
          /\ \A t \in Server \ {s} :
                pc'[t] = pc[t] /\ target'[t] = target[t] /\ draft'[t] = draft[t]
      BY <1>0, <1>2 DEF Crash, TickRaises, Abandon, Drop, Sleep, Goto, cards, Updating
    <2>2. clean' => \A t \in Server :
             pc'[t] \in Updating => pc[t] = pc'[t] /\ target'[t] = target[t] /\ draft'[t] = draft[t]
      BY <2>1
    <2>3. clean' => \A t \in Server : pc[t] \in {"record", "put"} => pc'[t] = pc[t]
      BY <2>1
    <2> QED
      BY <2>1, <2>2, <2>3, CountKept
  <1>3. ASSUME NEW s \in Server,
               PutFails(s) \/ \E c \in Card : ReadFails(s, c)
        PROVE  CountInv'
    BY <1>3 DEF PutFails, ReadFails, CountInv
  <1>4. ASSUME NEW s \in Server, NEW c \in Card, Check(s, c) PROVE CountInv'
    <2>0. SUFFICES ASSUME clean' PROVE CountInv'
      BY DEF CountInv
    <2>1. /\ clean /\ UNCHANGED <<fires, runs>>
          /\ pc[s] = "pass" /\ pc[s] \notin Updating
          /\ \A t \in Server \ {s} :
                pc'[t] = pc[t] /\ target'[t] = target[t] /\ draft'[t] = draft[t]
      BY <1>0, <1>4, <2>0 DEF Check, Goto, Drafted, cards, Updating
    <2>2. CASE pc' = pc /\ target' = target /\ draft' = draft
      BY <2>0, <2>1, <2>2, CountKept
    <2>a. ASSUME pc'[s] \in Updating PROVE \A t \in Server \ {s} : pc[t] \notin Updating
      BY <1>4, <2>0, <2>a DEF Check, Updating
    <2>b. ASSUME \A t \in Server : pc[t] \notin Updating
          PROVE  \A d \in Card : fires[d] = Counted(d)
      BY <2>1, <2>b DEF CountInv, Owing, Updating
    <2>c. \A d \in Card : Counted(d)' = Counted(d)
      BY <2>1 DEF Counted
    <2>3. ASSUME ~Exhausted(c), target' = [target EXCEPT ![s] = c], Goto(s, "put"),
                 NEW g \in ComputeNextFire(c), Drafted(s, c, g, fires[c])
          PROVE  CountInv'
      <3>1. pc'[s] = "put" /\ \A t \in Server \ {s} : pc'[t] \notin Updating
        BY <1>0, <2>1, <2>3, <2>a DEF Goto, Updating
      <3>2. \A d \in Card : fires[d] = Counted(d)
        BY <2>1, <2>a, <2>b, <3>1 DEF Updating
      <3>3. \A d \in Card : draft'[s].fires[d] = Counted(d)
        BY <1>0, <2>3, <3>2 DEF Drafted
      <3> QED
        BY <2>0, <2>1, <2>c, <3>1, <3>2, <3>3 DEF CountInv, Updaters, Updating, Counted
    <2>4. ASSUME ~Exhausted(c), target' = [target EXCEPT ![s] = c], Goto(s, "create")
          PROVE  CountInv'
      <3>1. pc'[s] = "create" /\ \A t \in Server \ {s} : pc'[t] \notin Updating
        BY <1>0, <2>1, <2>4, <2>a DEF Goto, Updating
      <3>2. \A d \in Card : fires[d] = Counted(d)
        BY <2>1, <2>a, <2>b, <3>1 DEF Updating
      <3>3. target'[s] = c /\ (c \in Limited => fires[c] < MaxRuns)
        BY <1>0, <2>4 DEF Exhausted
      <3> QED
        BY <2>0, <2>1, <2>c, <3>1, <3>2, <3>3 DEF CountInv, Updaters, Updating, Counted
    <2> QED
      BY <1>4, <2>2, <2>3, <2>4 DEF Check
  <1>5. ASSUME NEW s \in Server, Create(s) PROVE CountInv'
    <2>0. SUFFICES ASSUME clean' PROVE CountInv'
      BY DEF CountInv
    <2> DEFINE c == target[s]
    <2>1. /\ clean /\ UNCHANGED <<fires, target, draft>> /\ c \in Card
          /\ pc[s] = "create" /\ pc' = [pc EXCEPT ![s] = "record"]
          /\ runs' = [runs EXCEPT ![c] = Up(runs[c], MaxRuns + 1)]
      BY <1>0, <1>5, <2>0 DEF Create, Goto, cards, Base, Updating
    <2>2. \A t \in Server \ {s} : pc[t] \notin Updating
      BY <2>1 DEF CountInv, Updaters, Updating
    <2>3. \A d \in Card : fires[d] = Counted(d)
      BY <2>1, <2>2 DEF CountInv, Owing, Updating
    <2>4. \A d \in Card \ {c} : Counted(d)' = Counted(d)
      BY <1>0, <2>1 DEF Counted
    <2>5. /\ Counted(c)' = IF Up(runs[c], MaxRuns + 1) <= MaxRuns
                           THEN Up(runs[c], MaxRuns + 1) ELSE MaxRuns
          /\ Counted(c) = IF runs[c] <= MaxRuns THEN runs[c] ELSE MaxRuns
      <3>1. Up(runs[c], MaxRuns + 1) \in Int /\ runs'[c] = Up(runs[c], MaxRuns + 1) /\ MaxRuns \in Int
        BY <1>0, <2>1 DEF Up
      <3> QED
        BY <1>0, <2>1, <3>1, MinOfTwo, CountedIs DEF Counted
    <2>6. Up(fires[c], MaxRuns) = Counted(c)'
      BY <1>0, <2>1, <2>3, <2>5 DEF Up
    <2>7. ASSUME NEW d \in Limited PROVE runs'[d] <= MaxRuns
      <3>1. runs[d] <= MaxRuns
        BY <2>1 DEF CountInv
      <3>2. CASE d = c
        <4>1. fires[c] < MaxRuns /\ fires[c] = runs[c]
          BY <1>0, <2>1, <2>3, <2>5, <3>1, <3>2 DEF CountInv
        <4> QED
          BY <1>0, <2>1, <3>2, <4>1 DEF Up
      <3> QED
        BY <1>0, <2>1, <3>1, <3>2
    <2>8. pc'[s] = "record" /\ \A t \in Server \ {s} : pc'[t] \notin Updating
      BY <1>0, <2>1, <2>2 DEF Updating
    <2> QED
      BY <2>0, <2>1, <2>3, <2>4, <2>6, <2>7, <2>8 DEF CountInv, Updaters, Updating, Owing, Counted
  <1>6. ASSUME NEW s \in Server, Record(s) PROVE CountInv'
    <2>0. SUFFICES ASSUME clean' PROVE CountInv'
      BY DEF CountInv
    <2> DEFINE c == target[s]
    <2>1. /\ clean /\ UNCHANGED <<fires, runs, target>> /\ c \in Card
          /\ pc[s] = "record" /\ pc' = [pc EXCEPT ![s] = "put"]
      BY <1>0, <1>6, <2>0 DEF Record, Goto, cards, Base, Updating
    <2>2. \A t \in Server \ {s} : pc[t] \notin Updating
      BY <2>1 DEF CountInv, Updaters, Updating
    <2>3. \A d \in Card \ {c} : fires[d] = Counted(d)
      BY <2>1, <2>2 DEF CountInv, Owing, Updating
    <2>4. Up(fires[c], MaxRuns) = Counted(c)
      BY <2>1 DEF CountInv
    <2>5. \A d \in Card : draft'[s].fires[d] = Counted(d)
      <3>1. PICK g \in ComputeNextFire(c) : Drafted(s, c, g, Up(fires[c], MaxRuns))
        BY <1>6 DEF Record
      <3>2. draft'[s].fires = [fires EXCEPT ![c] = Up(fires[c], MaxRuns)]
        BY <1>0, <3>1 DEF Drafted
      <3> QED
        BY <1>0, <2>3, <2>4, <3>2
    <2>6. \A d \in Card : Counted(d)' = Counted(d)
      BY <2>1 DEF Counted
    <2>7. pc'[s] = "put" /\ \A t \in Server \ {s} : pc'[t] \notin Updating
      BY <1>0, <2>1, <2>2 DEF Updating
    <2> QED
      BY <2>0, <2>1, <2>3, <2>5, <2>6, <2>7 DEF CountInv, Updaters, Updating, Owing, Counted
  <1>7. ASSUME NEW s \in Server, Put(s) PROVE CountInv'
    <2>0. SUFFICES ASSUME clean' PROVE CountInv'
      BY DEF CountInv
    <2>1. /\ clean /\ UNCHANGED runs /\ fires' = draft[s].fires
          /\ pc[s] = "put" /\ pc' = [pc EXCEPT ![s] = "pass"]
      BY <1>7, <2>0 DEF Put, Goto
    <2>2. \A t \in Server : pc'[t] \notin Updating
      BY <1>0, <2>1 DEF CountInv, Updaters, Updating
    <2>3. \A d \in Card : fires'[d] = Counted(d)'
      BY <2>1 DEF CountInv, Counted
    <2>4. \A d \in Limited : runs'[d] <= MaxRuns
      BY <2>1 DEF CountInv
    <2> QED
      BY <2>0, <2>2, <2>3, <2>4 DEF CountInv, Updaters, Updating, Owing
  <1>8. CASE Tick
    BY <1>8, CountKept DEF Tick
  <1>9. CASE UNCHANGED vars
    BY <1>9, CountKept DEF vars, loops, cards
  <1> QED
    BY <1>1, <1>2, <1>3, <1>4, <1>5, <1>6, <1>7, <1>8, <1>9 DEF Next, Step

-----------------------------------------------------------------------------
(* One-shot cards                                                          *)

LEMMA SlotInit == Init => SlotInv
  BY ScheduleAssumption DEF Init, SlotInv

\* What a step that neither fires, writes nor waits leaves of the slots.
LEMMA SlotKept ==
    ASSUME SlotInv, clean' => clean, UNCHANGED <<nextFire, atIn, runs>>,
           clean' => \A s \in Server :
               pc'[s] \in Updating =>
                  pc[s] = pc'[s] /\ target'[s] = target[s] /\ draft'[s] = draft[s],
           clean' => \A s \in Server : pc[s] \in {"record", "put"} => pc'[s] = pc[s]
    PROVE  SlotInv'
  <1> SUFFICES ASSUME clean' PROVE SlotInv'
    BY DEF SlotInv
  <1>1. clean
    OBVIOUS
  <1>2. \A c \in OneShot : Owing(c)' <=> Owing(c)
    BY <1>1 DEF Owing, Updating
  <1>3. ASSUME NEW c \in OneShot
        PROVE  /\ nextFire'[c] \in {Never, atIn'[c]} /\ runs'[c] <= 1
               /\ runs'[c] = 1 => atIn'[c] = 0
               /\ runs'[c] = 1 /\ ~Owing(c)' => nextFire'[c] = Never
    BY <1>1, <1>2 DEF SlotInv
  <1>4. ASSUME NEW c \in OneShot, NEW s \in Server, pc'[s] = "put"
        PROVE  draft'[s].nextFire[c] \in (IF runs'[c] = 1 THEN {Never} ELSE {Never, atIn'[c]})
    <2>1. pc[s] = "put" /\ draft'[s] = draft[s]
      BY <1>4 DEF Updating
    <2> QED
      BY <1>1, <2>1 DEF SlotInv
  <1>5. ASSUME NEW c \in OneShot, NEW s \in Server, pc'[s] = "create", target'[s] = c
        PROVE  runs'[c] = 0 /\ atIn'[c] = 0
    <2>1. pc[s] = "create" /\ target[s] = c
      BY <1>5 DEF Updating
    <2> QED
      BY <1>1, <2>1 DEF SlotInv
  <1> QED
    BY <1>3, <1>4, <1>5 DEF SlotInv, Never

\* What the next slot of a one-shot card is, by what is known of its runs.
LEMMA NextSlot ==
    ASSUME Base, NEW c \in OneShot, NEW g \in ComputeNextFire(c)
    PROVE  g \in {Never, atIn[c]} /\ (atIn[c] = 0 => g = Never)
  BY ScheduleAssumption DEF ComputeNextFire, Base, TypeOK

LEMMA SlotNext == Base /\ CountInv /\ SlotInv /\ [Next]_vars => SlotInv'
  <1> SUFFICES ASSUME Base, CountInv, SlotInv, [Next]_vars PROVE SlotInv'
    OBVIOUS
  <1>0. /\ TypeOK /\ pc \in [Server -> PC] /\ target \in [Server -> Card \union {"none"}]
        /\ nextFire \in [Card -> Gap] /\ runs \in [Card -> 0 .. MaxRuns + 1]
        /\ atIn \in [Card -> 0 .. MaxGap]
        /\ draft \in [Server -> DraftState] /\ MaxRuns \in Nat \ {0} /\ MaxGap \in Nat \ {0}
        /\ OneShot \subseteq Card
    BY ScheduleAssumption DEF Base, TypeOK, DraftState
  <1>1. ASSUME NEW s \in Server,
               \/ Start(s) \/ TryAcquire(s) \/ Truncate(s) \/ Stamp(s) \/ Confirm(s)
               \/ Heartbeat(s) \/ EndPass(s) \/ EndJob(s) \/ Shutdown(s) \/ Unlink(s)
        PROVE  SlotInv'
    <2>1. /\ UNCHANGED <<clean, nextFire, atIn, runs, target, draft>>
          /\ pc[s] \notin Updating /\ pc'[s] \notin Updating
          /\ \A t \in Server \ {s} : pc'[t] = pc[t]
      BY <1>0, <1>1 DEF Start, TryAcquire, Truncate, Stamp, Confirm, Heartbeat, EndPass, EndJob,
         Shutdown, Unlink, StartPass, LoseLock, Sleep, Goto, cards, Updating
    <2>2. \A t \in Server : pc'[t] \in Updating => pc[t] = pc'[t]
      BY <2>1
    <2>3. \A t \in Server : pc[t] \in {"record", "put"} => pc'[t] = pc[t]
      BY <2>1 DEF Updating
    <2> QED
      BY <2>1, <2>2, <2>3, SlotKept
  <1>2. ASSUME NEW s \in Server, Crash(s) \/ TickRaises(s) PROVE SlotInv'
    <2>1. /\ UNCHANGED <<nextFire, atIn, runs>>
          /\ clean' => clean /\ pc[s] \notin {"record", "put"}
          /\ pc'[s] \notin Updating
          /\ \A t \in Server \ {s} :
                pc'[t] = pc[t] /\ target'[t] = target[t] /\ draft'[t] = draft[t]
      BY <1>0, <1>2 DEF Crash, TickRaises, Abandon, Drop, Sleep, Goto, cards, Updating
    <2>2. clean' => \A t \in Server :
             pc'[t] \in Updating => pc[t] = pc'[t] /\ target'[t] = target[t] /\ draft'[t] = draft[t]
      BY <2>1
    <2>3. clean' => \A t \in Server : pc[t] \in {"record", "put"} => pc'[t] = pc[t]
      BY <2>1
    <2> QED
      BY <2>1, <2>2, <2>3, SlotKept
  <1>3. ASSUME NEW s \in Server,
               PutFails(s) \/ \E c \in Card : ReadFails(s, c)
        PROVE  SlotInv'
    BY <1>3 DEF PutFails, ReadFails, SlotInv
  <1>4. ASSUME NEW s \in Server, NEW c \in Card, Check(s, c) PROVE SlotInv'
    <2>0. SUFFICES ASSUME clean' PROVE SlotInv'
      BY DEF SlotInv
    <2>1. /\ clean /\ UNCHANGED <<nextFire, atIn, runs>>
          /\ pc[s] = "pass" /\ pc[s] \notin Updating
          /\ \A t \in Server \ {s} :
                pc'[t] = pc[t] /\ target'[t] = target[t] /\ draft'[t] = draft[t]
      BY <1>0, <1>4, <2>0 DEF Check, Goto, Drafted, cards, Updating
    <2>2. CASE pc' = pc /\ target' = target /\ draft' = draft
      BY <2>0, <2>1, <2>2, SlotKept
    <2>a. ASSUME pc'[s] \in Updating PROVE \A t \in Server \ {s} : pc[t] \notin Updating
      BY <1>4, <2>0, <2>a DEF Check, Updating
    <2>b. ASSUME \A t \in Server : pc[t] \notin Updating
          PROVE  \A d \in OneShot :
                    /\ nextFire[d] \in {Never, atIn[d]} /\ runs[d] <= 1
                    /\ runs[d] = 1 => atIn[d] = 0 /\ nextFire[d] = Never
      BY <2>1, <2>b DEF SlotInv, Owing, Updating
    <2>3. ASSUME target' = [target EXCEPT ![s] = c], Goto(s, "put"),
                 NEW g \in ComputeNextFire(c), Drafted(s, c, g, fires[c])
          PROVE  SlotInv'
      <3>1. pc'[s] = "put" /\ \A t \in Server \ {s} : pc'[t] \notin Updating
        BY <1>0, <2>1, <2>3, <2>a DEF Goto, Updating
      <3>2. \A t \in Server : pc[t] \notin Updating
        BY <2>1, <2>a, <3>1 DEF Updating
      <3>3. \A d \in OneShot :
               draft'[s].nextFire[d] \in (IF runs[d] = 1 THEN {Never} ELSE {Never, atIn[d]})
        <4> TAKE d \in OneShot
        <4>1. draft'[s].nextFire = [nextFire EXCEPT ![c] = g]
          BY <1>0, <2>3 DEF Drafted
        <4>2. CASE d = c
          BY <1>0, <2>3, <2>b, <3>2, <4>1, <4>2, NextSlot
        <4>3. CASE d # c
          BY <1>0, <2>b, <3>2, <4>1, <4>3
        <4> QED
          BY <4>2, <4>3
      <3> QED
        BY <2>0, <2>1, <2>b, <3>1, <3>2, <3>3 DEF SlotInv, Updating, Never
    <2>4. ASSUME nextFire[c] = 0, target' = [target EXCEPT ![s] = c], Goto(s, "create")
          PROVE  SlotInv'
      <3>1. pc'[s] = "create" /\ \A t \in Server \ {s} : pc'[t] \notin Updating
        BY <1>0, <2>1, <2>4, <2>a DEF Goto, Updating
      <3>2. \A t \in Server : pc[t] \notin Updating
        BY <2>1, <2>a, <3>1 DEF Updating
      <3>3. target'[s] = c /\ (c \in OneShot => runs[c] = 0 /\ atIn[c] = 0)
        BY <1>0, <2>4, <2>b, <3>2 DEF Never
      <3> QED
        BY <2>0, <2>1, <2>b, <3>1, <3>2, <3>3 DEF SlotInv, Updating, Never
    <2> QED
      BY <1>4, <2>2, <2>3, <2>4 DEF Check
  <1>5. ASSUME NEW s \in Server, Create(s) PROVE SlotInv'
    <2>0. SUFFICES ASSUME clean' PROVE SlotInv'
      BY DEF SlotInv
    <2> DEFINE c == target[s]
    <2>1. /\ clean /\ UNCHANGED <<nextFire, atIn, target, draft>> /\ c \in Card
          /\ pc[s] = "create" /\ pc' = [pc EXCEPT ![s] = "record"]
          /\ runs' = [runs EXCEPT ![c] = Up(runs[c], MaxRuns + 1)]
      BY <1>0, <1>5, <2>0 DEF Create, Goto, cards, Base, Updating
    <2>2. \A t \in Server \ {s} : pc[t] \notin Updating
      BY <2>1 DEF CountInv, Updaters, Updating
    <2>3. pc'[s] = "record" /\ \A t \in Server \ {s} : pc'[t] \notin Updating
      BY <1>0, <2>1, <2>2 DEF Updating
    <2>4. \A d \in OneShot \ {c} : /\ runs'[d] = runs[d] /\ ~Owing(d)
      BY <1>0, <2>1, <2>2 DEF Owing, Updating
    <2>5. c \in OneShot => runs'[c] = 1 /\ atIn[c] = 0
      <3>1. c \in OneShot => runs[c] = 0 /\ atIn[c] = 0
        BY <2>1 DEF SlotInv
      <3>2. runs[c] = 0 => runs'[c] = 1
        BY <1>0, <2>1 DEF Up
      <3> QED
        BY <3>1, <3>2
    <2>6. Owing(c)'
      BY <2>1, <2>3 DEF Owing
    <2> QED
      BY <2>0, <2>1, <2>3, <2>4, <2>5, <2>6 DEF SlotInv, Updating, Never
  <1>6. ASSUME NEW s \in Server, Record(s) PROVE SlotInv'
    <2>0. SUFFICES ASSUME clean' PROVE SlotInv'
      BY DEF SlotInv
    <2> DEFINE c == target[s]
    <2>1. /\ clean /\ UNCHANGED <<nextFire, atIn, runs, target>> /\ c \in Card
          /\ pc[s] = "record" /\ pc' = [pc EXCEPT ![s] = "put"]
      BY <1>0, <1>6, <2>0 DEF Record, Goto, cards, Base, Updating
    <2>2. \A t \in Server \ {s} : pc[t] \notin Updating
      BY <2>1 DEF CountInv, Updaters, Updating
    <2>3. pc'[s] = "put" /\ \A t \in Server \ {s} : pc'[t] \notin Updating
      BY <1>0, <2>1, <2>2 DEF Updating
    <2>4. \A d \in OneShot \ {c} : ~Owing(d)
      BY <2>1, <2>2 DEF Owing, Updating
    <2>5. \A d \in OneShot :
             draft'[s].nextFire[d] \in (IF runs[d] = 1 THEN {Never} ELSE {Never, atIn[d]})
      <3>1. PICK g \in ComputeNextFire(c) : Drafted(s, c, g, Up(fires[c], MaxRuns))
        BY <1>6 DEF Record
      <3>2. draft'[s].nextFire = [nextFire EXCEPT ![c] = g]
        BY <1>0, <3>1 DEF Drafted
      <3> TAKE d \in OneShot
      <3>3. CASE d = c
        <4>1. g \in {Never, atIn[d]} /\ (atIn[d] = 0 => g = Never)
          BY <3>3, NextSlot
        <4>2. runs[d] = 1 => atIn[d] = 0
          BY <2>1 DEF SlotInv
        <4>3. draft'[s].nextFire[d] = g
          BY <1>0, <2>1, <3>2, <3>3
        <4> QED
          BY <4>1, <4>2, <4>3
      <3>4. CASE d # c
        BY <1>0, <2>1, <2>4, <3>2, <3>4 DEF SlotInv
      <3> QED
        BY <3>3, <3>4
    <2>6. \A d \in Card : Owing(d)' <=> Owing(d)
      BY <1>0, <2>1, <2>2, <2>3 DEF Owing, Updating
    <2> QED
      BY <1>0, <2>0, <2>1, <2>3, <2>5, <2>6 DEF SlotInv, Updating, Never
  <1>7. ASSUME NEW s \in Server, Put(s) PROVE SlotInv'
    <2>0. SUFFICES ASSUME clean' PROVE SlotInv'
      BY DEF SlotInv
    <2>1. /\ clean /\ UNCHANGED <<atIn, runs>> /\ nextFire' = draft[s].nextFire
          /\ pc[s] = "put" /\ pc' = [pc EXCEPT ![s] = "pass"]
      BY <1>7, <2>0 DEF Put, Goto
    <2>2. \A t \in Server : pc'[t] \notin Updating
      BY <1>0, <2>1 DEF CountInv, Updaters, Updating
    <2> QED
      BY <2>0, <2>1, <2>2 DEF SlotInv, Updating, Never
  <1>8. CASE Tick
    <2>0. SUFFICES ASSUME clean' PROVE SlotInv'
      BY DEF SlotInv
    <2>1. /\ clean /\ UNCHANGED <<pc, target, draft, runs>>
          /\ atIn' = [c \in Card |-> Down(atIn[c])]
          /\ nextFire' = [c \in Card |-> GapDown(nextFire[c])]
      BY <1>8, <2>0 DEF Tick
    <2>2. \A s \in Server : pc[s] \notin Updating
      BY <1>8 DEF Tick, Waiting, Updating
    <2>3. \A c \in OneShot :
             /\ nextFire[c] \in {Never, atIn[c]} /\ runs[c] <= 1
             /\ runs[c] = 1 => atIn[c] = 0 /\ nextFire[c] = Never
      BY <2>1, <2>2 DEF SlotInv, Owing, Updating
    <2>4. ASSUME NEW c \in OneShot
          PROVE  /\ nextFire'[c] \in {Never, atIn'[c]}
                 /\ runs[c] = 1 => atIn'[c] = 0 /\ nextFire'[c] = Never
      BY <1>0, <2>1, <2>3 DEF GapDown, Down, Never
    <2> QED
      BY <2>0, <2>1, <2>2, <2>3, <2>4 DEF SlotInv, Updating, Never
  <1>9. CASE UNCHANGED vars
    BY <1>9, SlotKept DEF vars, loops, cards
  <1> QED
    BY <1>1, <1>2, <1>3, <1>4, <1>5, <1>6, <1>7, <1>8, <1>9 DEF Next, Step

-----------------------------------------------------------------------------
(* The theorems                                                            *)

IInv == Base /\ LockInv /\ CountInv /\ SlotInv

\* Lock, counts and slots stay consistent over every access to a file.
THEOREM IInvAlways == Spec => []IInv
  <1>1. Init => IInv
    BY BaseInit, LockInit, CountInit, SlotInit DEF IInv
  <1>2. IInv /\ [Next]_vars => IInv'
    BY BaseNext, LockNext, CountNext, SlotNext DEF IInv
  <1> QED
    BY <1>1, <1>2, PTL DEF Spec

\* Type correctness.
THEOREM TypeCorrect == Spec => []TypeOK
  <1>1. IInv => TypeOK
    BY DEF IInv, Base
  <1> QED
    BY <1>1, IInvAlways, PTL

\* A pass that runs under the server's own name runs on a recent heartbeat.
THEOREM PassOnFreshLockAlways == Spec => []PassOnFreshLock
  <1>1. IInv => PassOnFreshLock
    BY DEF IInv, LockInv
  <1> QED
    BY <1>1, IInvAlways, PTL

\* Until an update of the state file is lost, the limit bounds the runs.
THEOREM RunsWithinLimitAlways == Spec => []RunsWithinLimit
  <1>1. IInv => RunsWithinLimit
    BY DEF IInv, CountInv, RunsWithinLimit
  <1> QED
    BY <1>1, IInvAlways, PTL

\* Until then a one-shot card runs once.
THEOREM OneShotRunsOnceAlways == Spec => []OneShotRunsOnce
  <1>1. IInv => OneShotRunsOnce
    BY DEF IInv, SlotInv, OneShotRunsOnce
  <1> QED
    BY <1>1, IInvAlways, PTL

\* Until then the file counts the runs, but for the one being recorded.
THEOREM RunsAreCountedAlways == Spec => []RunsAreCounted
  <1>1. IInv => RunsAreCounted
    BY DEF IInv, CountInv, RunsAreCounted, Owing, Counted
  <1> QED
    BY <1>1, IInvAlways, PTL

-----------------------------------------------------------------------------
(* Cards without catch-up, and slots that are kept                         *)

\* A card without catch-up runs at most once, recurring or not: a slot after its
\* first run counts as missed at whatever time the pass comes to it.
NoCatchUpRunsOnce ==
    clean => \A c \in Card \ CatchUp : runs[c] <= 1

\* What is inductive: it is fired before its first run only.
FirstRunInv ==
    clean => \A c \in Card \ CatchUp :
       /\ runs[c] <= 1
       /\ \A s \in Server : pc[s] = "create" /\ target[s] = c => runs[c] = 0

LEMMA FirstRunKept ==
    ASSUME FirstRunInv, clean' => clean, UNCHANGED runs,
           clean' => \A s \in Server :
               pc'[s] = "create" => pc[s] = "create" /\ target'[s] = target[s]
    PROVE  FirstRunInv'
  BY DEF FirstRunInv

LEMMA FirstRunNext == Base /\ CountInv /\ FirstRunInv /\ [Next]_vars => FirstRunInv'
  <1> SUFFICES ASSUME Base, CountInv, FirstRunInv, [Next]_vars PROVE FirstRunInv'
    OBVIOUS
  <1>0. /\ TypeOK /\ pc \in [Server -> PC] /\ target \in [Server -> Card \union {"none"}]
        /\ runs \in [Card -> 0 .. MaxRuns + 1] /\ MaxRuns \in Nat \ {0}
    BY ScheduleAssumption DEF Base, TypeOK
  <1>1. ASSUME NEW s \in Server,
               \/ Start(s) \/ TryAcquire(s) \/ Truncate(s) \/ Stamp(s) \/ Confirm(s)
               \/ Heartbeat(s) \/ EndPass(s) \/ EndJob(s) \/ Shutdown(s) \/ Unlink(s)
        PROVE  FirstRunInv'
    <2>1. /\ UNCHANGED <<clean, runs, target>> /\ pc'[s] # "create"
          /\ \A t \in Server \ {s} : pc'[t] = pc[t]
      BY <1>0, <1>1 DEF Start, TryAcquire, Truncate, Stamp, Confirm, Heartbeat, EndPass, EndJob,
         Shutdown, Unlink, StartPass, LoseLock, Sleep, Goto, cards
    <2> QED
      BY <2>1, FirstRunKept
  <1>2. ASSUME NEW s \in Server, Crash(s) \/ TickRaises(s) \/ Record(s) \/ Put(s) PROVE FirstRunInv'
    <2>1. UNCHANGED runs
      BY <1>2 DEF Crash, TickRaises, Record, Put
    <2>4. clean' => clean
      <3>1. CASE Crash(s) \/ TickRaises(s)
        BY <3>1 DEF Crash, TickRaises
      <3>2. CASE Record(s) \/ Put(s)
        BY <3>2 DEF Record, Put
      <3> QED
        BY <1>2, <3>1, <3>2
    <2>2. pc'[s] # "create" /\ \A t \in Server \ {s} : pc'[t] = pc[t]
      BY <1>0, <1>2 DEF Crash, TickRaises, Record, Put, Sleep, Goto
    <2>3. \A t \in Server \ {s} : target'[t] = target[t]
      BY <1>0, <1>2 DEF Crash, TickRaises, Record, Put, Abandon, Drop
    <2> QED
      BY <2>1, <2>2, <2>3, <2>4, FirstRunKept
  <1>3. ASSUME NEW s \in Server, PutFails(s) \/ \E c \in Card : ReadFails(s, c)
        PROVE  FirstRunInv'
    BY <1>3 DEF PutFails, ReadFails, FirstRunInv
  <1>4. ASSUME NEW s \in Server, NEW c \in Card, Check(s, c) PROVE FirstRunInv'
    <2>0. SUFFICES ASSUME clean' PROVE FirstRunInv'
      BY DEF FirstRunInv
    <2>1. /\ clean /\ UNCHANGED runs /\ pc[s] = "pass"
          /\ \A t \in Server \ {s} : pc'[t] = pc[t] /\ target'[t] = target[t]
      BY <1>0, <1>4, <2>0 DEF Check, Goto
    <2>2. CASE pc'[s] # "create"
      BY <2>1, <2>2, FirstRunKept
    <2>3. CASE pc'[s] = "create"
      <3>1. /\ target'[s] = c /\ (c \in CatchUp \/ ~(fires[c] > 0))
            /\ \A t \in Server \ {s} : pc[t] \notin Updating
        BY <1>0, <1>4, <2>0, <2>1, <2>3 DEF Check, Goto, Updating
      <3>2. fires[c] = Counted(c)
        BY <2>1, <3>1 DEF CountInv, Owing, Updating
      <3>3. c \notin CatchUp => runs[c] = 0
        <4>1. fires[c] \in 0 .. MaxRuns
          BY <1>0 DEF TypeOK
        <4>2. Counted(c) = IF runs[c] <= MaxRuns THEN runs[c] ELSE MaxRuns
          BY <1>0, CountedIs
        <4> QED
          BY <1>0, <3>1, <3>2, <4>1, <4>2
      <3>4. \A t \in Server \ {s} : pc'[t] # "create"
        BY <2>1, <3>1 DEF Updating
      <3> QED
        BY <2>1, <3>1, <3>3, <3>4 DEF FirstRunInv
    <2> QED
      BY <2>2, <2>3
  <1>5. ASSUME NEW s \in Server, Create(s) PROVE FirstRunInv'
    <2>0. SUFFICES ASSUME clean' PROVE FirstRunInv'
      BY DEF FirstRunInv
    <2> DEFINE c == target[s]
    <2>1. /\ clean /\ c \in Card /\ pc[s] = "create"
          /\ UNCHANGED target /\ pc' = [pc EXCEPT ![s] = "record"]
          /\ runs' = [runs EXCEPT ![c] = Up(runs[c], MaxRuns + 1)]
      BY <1>0, <1>5, <2>0 DEF Create, Goto, Base, Updating
    <2>2. \A t \in Server : pc'[t] # "create"
      BY <1>0, <2>1 DEF CountInv, Updaters, Updating
    <2>3. ASSUME NEW d \in Card \ CatchUp PROVE runs'[d] <= 1
      <3>1. CASE d = c
        BY <1>0, <2>1, <3>1 DEF FirstRunInv, Up
      <3>2. CASE d # c
        BY <1>0, <2>1, <3>2 DEF FirstRunInv
      <3> QED
        BY <3>1, <3>2
    <2> QED
      BY <2>2, <2>3 DEF FirstRunInv
  <1>6. CASE Tick \/ UNCHANGED vars
    <2>1. UNCHANGED <<clean, runs, pc, target>>
      BY <1>6 DEF Tick, vars, loops
    <2> QED
      BY <2>1, FirstRunKept
  <1> QED
    BY <1>1, <1>2, <1>3, <1>4, <1>5, <1>6 DEF Next, Step

\* Without catch-up a recurring card fires once and no more, while updates of
\* the state file are not lost: the setting makes it a one-shot.
THEOREM NoCatchUpRunsOnceAlways == Spec => []NoCatchUpRunsOnce
  <1>1. Init => FirstRunInv
    BY ScheduleAssumption DEF Init, FirstRunInv
  <1>2. IInv /\ FirstRunInv /\ [Next]_vars => FirstRunInv'
    BY FirstRunNext DEF IInv
  <1>3. FirstRunInv => NoCatchUpRunsOnce
    BY DEF FirstRunInv, NoCatchUpRunsOnce
  <1> QED
    BY <1>1, <1>2, <1>3, IInvAlways, PTL DEF Spec

\* A recurring card that has a next slot on disk has one after every step, until
\* an update of the state file is lost.
SlotsAreKept ==
    [][clean' => \A c \in Card \ OneShot : nextFire[c] # Never => nextFire'[c] # Never]_vars

\* What is to be written has a slot where the file has one.
DraftKeeps ==
    clean => \A s \in Server, c \in Card \ OneShot :
       pc[s] = "put" /\ nextFire[c] # Never => draft[s].nextFire[c] # Never

LEMMA RecurringSlot ==
    ASSUME TypeOK, NEW s \in Server, NEW d \in Card, NEW n, NEW g \in ComputeNextFire(d), Drafted(s, d, g, n),
           NEW c \in Card \ OneShot, nextFire[c] # Never
    PROVE  draft'[s].nextFire[c] # Never
  <1>1. draft'[s].nextFire = [nextFire EXCEPT ![d] = g]
    BY DEF Drafted, TypeOK
  <1>2. d = c => g \in 1 .. MaxGap
    BY DEF ComputeNextFire
  <1>3. MaxGap \in Nat /\ nextFire \in [Card -> Gap]
    BY ScheduleAssumption DEF TypeOK
  <1> QED
    BY <1>1, <1>2, <1>3 DEF Never

LEMMA DraftKeepsNext == Base /\ CountInv /\ DraftKeeps /\ [Next]_vars => DraftKeeps'
  <1> SUFFICES ASSUME Base, CountInv, DraftKeeps, [Next]_vars, clean',
                      NEW s \in Server, NEW c \in Card \ OneShot, pc'[s] = "put", nextFire'[c] # Never
               PROVE  draft'[s].nextFire[c] # Never
    BY DEF DraftKeeps
  <1>0. TypeOK /\ pc \in [Server -> PC] /\ target \in [Server -> Card \union {"none"}]
    BY DEF Base, TypeOK
  <1>1. CASE clean /\ pc[s] = "put" /\ UNCHANGED nextFire /\ draft'[s] = draft[s]
    BY <1>1 DEF DraftKeeps
  <1>2. ASSUME NEW t \in Server,
               \/ Start(t) \/ TryAcquire(t) \/ Truncate(t) \/ Stamp(t) \/ Confirm(t)
               \/ Heartbeat(t) \/ EndPass(t) \/ EndJob(t) \/ Shutdown(t) \/ Unlink(t)
               \/ Crash(t) \/ TickRaises(t) \/ Create(t)
        PROVE  draft'[s].nextFire[c] # Never
    <2>1. /\ clean /\ UNCHANGED nextFire /\ pc'[t] # "put"
          /\ \A r \in Server \ {t} : pc'[r] = pc[r] /\ draft'[r] = draft[r]
      BY <1>0, <1>2 DEF Start, TryAcquire, Truncate, Stamp, Confirm, Heartbeat, EndPass, EndJob,
         Shutdown, Unlink, Crash, TickRaises, Create, StartPass, LoseLock, Abandon, Drop, Sleep, Goto,
         cards, Base, TypeOK
    <2> QED
      BY <1>1, <2>1
  <1>3. ASSUME NEW t \in Server, PutFails(t) \/ \E d \in Card : ReadFails(t, d)
        PROVE  draft'[s].nextFire[c] # Never
    BY <1>3 DEF PutFails, ReadFails
  <1>4. ASSUME NEW t \in Server, NEW d \in Card, Check(t, d) PROVE draft'[s].nextFire[c] # Never
    <2>1. clean /\ UNCHANGED nextFire /\ \A r \in Server \ {t} : pc'[r] = pc[r] /\ draft'[r] = draft[r]
      BY <1>0, <1>4 DEF Check, Goto, Drafted, cards, Base, TypeOK
    <2>2. CASE s # t
      BY <1>1, <2>1, <2>2
    <2>3. CASE s = t
      <3>1. pc[t] = "pass"
        BY <1>4 DEF Check
      <3>2. PICK g \in ComputeNextFire(d) : Drafted(t, d, g, fires[d])
        BY <1>0, <1>4, <2>3, <3>1 DEF Check, Goto
      <3> QED
        BY <1>0, <2>1, <2>3, <3>2, RecurringSlot
    <2> QED
      BY <2>2, <2>3
  <1>5. ASSUME NEW t \in Server, Record(t) PROVE draft'[s].nextFire[c] # Never
    <2>1. clean /\ UNCHANGED nextFire /\ \A r \in Server \ {t} : pc'[r] = pc[r] /\ draft'[r] = draft[r]
      BY <1>0, <1>5 DEF Record, Goto, Drafted, cards, Base, TypeOK
    <2>2. CASE s # t
      BY <1>1, <2>1, <2>2
    <2>3. CASE s = t
      <3>1. target[t] \in Card /\ pc[t] = "record"
        BY <1>5 DEF Record, Base, Updating
      <3>2. PICK g \in ComputeNextFire(target[t]) : Drafted(t, target[t], g, Up(fires[target[t]], MaxRuns))
        BY <1>5 DEF Record
      <3> QED
        BY <1>0, <2>1, <2>3, <3>1, <3>2, RecurringSlot
    <2> QED
      BY <2>2, <2>3
  <1>6. ASSUME NEW t \in Server, Put(t) PROVE draft'[s].nextFire[c] # Never
    \* nobody else is at a write
    <2>1. clean /\ pc[t] = "put" /\ pc' = [pc EXCEPT ![t] = "pass"]
      BY <1>6 DEF Put, Goto
    <2>2. s # t /\ pc[s] = "put"
      BY <1>0, <2>1
    <2> QED
      BY <2>1, <2>2 DEF CountInv, Updaters, Updating
  <1>7. CASE Tick
    BY <1>7 DEF Tick, Waiting
  <1>8. CASE UNCHANGED vars
    BY <1>1, <1>8 DEF vars, loops, cards
  <1> QED
    BY <1>2, <1>3, <1>4, <1>5, <1>6, <1>7, <1>8 DEF Next, Step

\* Whatever servers start, stop, die and take over, a recurring card is not
\* forgotten while the state file is not cut: what KeepsFiring rests on.
THEOREM SlotsAreKeptAlways == Spec => SlotsAreKept
  <1>1. Init => DraftKeeps
    BY DEF Init, DraftKeeps
  <1>2. IInv /\ DraftKeeps /\ [Next]_vars => DraftKeeps'
    BY DraftKeepsNext DEF IInv
  <1>3. ASSUME TypeOK, DraftKeeps, [Next]_vars
        PROVE  clean' => \A c \in Card \ OneShot : nextFire[c] # Never => nextFire'[c] # Never
    <2> SUFFICES ASSUME clean', NEW c \in Card \ OneShot, nextFire[c] # Never PROVE nextFire'[c] # Never
      OBVIOUS
    <2>1. CASE \E s \in Server : Put(s)
      BY <1>3, <2>1 DEF Put, DraftKeeps
    <2>2. CASE Tick
      <3>1. nextFire'[c] = GapDown(nextFire[c]) /\ nextFire[c] \in Gap /\ MaxGap \in Nat
        BY <1>3, <2>2, ScheduleAssumption DEF Tick, TypeOK
      <3> QED
        BY <1>3, <3>1 DEF GapDown, Down, Gap, Never
    <2>3. CASE UNCHANGED nextFire
      BY <1>3, <2>3
    <2> QED
      BY <1>3, <2>1, <2>2, <2>3 DEF Next, Step, Start, TryAcquire, Truncate, Stamp, Confirm, Heartbeat,
         Check, Create, Record, EndPass, EndJob, Shutdown, Unlink, Crash, TickRaises, PutFails, ReadFails,
         cards, vars
  <1>4. IInv => TypeOK
    BY DEF IInv, Base
  <1> QED
    BY <1>1, <1>2, <1>3, <1>4, IInvAlways, PTL DEF Spec, SlotsAreKept
=============================================================================
