------------------------- MODULE TaskRunRelayProofs -------------------------
(***************************************************************************)
(* For any tasks, clients, blocks and history cap, 0 included, which is    *)
(* the relay of the delegates: nobody attached misses an event, the        *)
(* registry is exact and the history is the tail of the stream.            *)
(***************************************************************************)
EXTENDS TaskRunRelay, TLAPS

-----------------------------------------------------------------------------
(* The inductive invariant                                                 *)

\* The whole log, what was evicted or dropped included: entries are not empty,
\* hold every event once and in order.
LogInOrder ==
    /\ \A i \in 1 .. Len(entries) :
           \E m \in entries[i].ids : \A n \in entries[i].ids : m <= n
    /\ \A i, j \in 1 .. Len(entries) : i < j =>
           \A m \in entries[i].ids, n \in entries[j].ids : m < n
    /\ \A i \in 1 .. Len(entries) : entries[i].ids \subseteq 1 .. recorded
    /\ \A n \in 1 .. recorded : \E i \in 1 .. Len(entries) : n \in entries[i].ids

\* The history does not outgrow its cap.
Capped == Len(entries) + 1 - first <= HistoryCap

\* A task that pushes nothing owes nobody, and only peers that are gone are
\* taken for dead.
Loops ==
    \A p \in Producer :
        /\ sending[p] = 0 => todo[p] = {} /\ ~shared[p]
        /\ sending[p] /= 0 => to[p] \in Client
        /\ \A c \in dead[p] : ~alive[c]

IInv == TypeOK /\ LogInOrder /\ Capped /\ Loops /\ RegistryIsExact /\ NothingMissed

LEMMA InitIInv == Init => IInv
  <1> SUFFICES ASSUME Init PROVE IInv
    OBVIOUS
  <1>0. entries = <<>> /\ entries \in Seq(Entry) /\ Len(entries) = 0 /\ first = 1
    BY DEF Init
  <1>1. TypeOK
    <2>0. /\ recorded = 0 /\ grace = FALSE /\ run = "running" /\ conns = {}
      BY DEF Init
    <2>1. /\ recorded \in Nat /\ recorded = 0
          /\ grace \in BOOLEAN /\ run \in {"running", "completed", "silent"}
          /\ conns \subseteq Client
      BY <2>0
    <2>5. first \in 1 .. Len(entries) + 1
      BY <1>0
    <2>2. /\ sending \in [Producer -> 0 .. recorded]
          /\ to \in [Producer -> Client \cup {None}]
          /\ todo \in [Producer -> SUBSET Client]
          /\ dead \in [Producer -> SUBSET Client]
          /\ shared \in [Producer -> BOOLEAN]
      BY <2>1 DEF Init
    <2>3. /\ phase \in [Client -> {"away", "replaying", "listening", "gone"}]
          /\ alive \in [Client -> BOOLEAN]
          /\ got \in [Client -> SUBSET (1 .. recorded)]
      BY <2>1 DEF Init
    <2>4. /\ pos \in [Client -> 0 .. Len(entries)]
          /\ upto \in [Client -> 0 .. Len(entries)]
          /\ since \in [Client -> 0 .. recorded + 1]
      BY <1>0, <2>1 DEF Init
    <2> QED
      BY <1>0, <2>1, <2>2, <2>3, <2>4, <2>5 DEF TypeOK
  <1>2. LogInOrder /\ Capped /\ Loops
    BY BoundsAssumption DEF Init, LogInOrder, Capped, Loops
  <1>3. RegistryIsExact /\ NothingMissed
    BY DEF Init, RegistryIsExact, NothingMissed, Attached
  <1> QED
    BY <1>1, <1>2, <1>3 DEF IInv

-----------------------------------------------------------------------------
(* The log                                                                 *)

\* What _record does to the log, folding or not.
LEMMA RecordFacts ==
    ASSUME TypeOK, LogInOrder, Capped, NEW b \in Block \cup {None}, Record(b)
    PROVE  /\ recorded' = recorded + 1
           /\ recorded' \in Nat
           /\ entries' \in Seq(Entry) /\ first' \in 1 .. Len(entries') + 1
           /\ Len(entries) <= Len(entries')
           /\ \A i \in 1 .. Len(entries) : entries[i].ids \subseteq entries'[i].ids
           /\ LogInOrder' /\ Capped'
  <1> DEFINE n == recorded + 1
  <1> USE BoundsAssumption
  <1>0. /\ recorded \in Nat /\ n \in Nat /\ Len(entries) \in Nat /\ first \in Nat
        /\ entries \in Seq(Entry) /\ \A i \in 1 .. Len(entries) : entries[i] \in Entry
    BY DEF TypeOK
  <1>1. CASE Folds(b)
    <2> DEFINE L == Len(entries)
    <2>1. /\ L \in 1 .. L /\ first' = first /\ recorded' = n
          /\ entries' = [entries EXCEPT ![L].ids = @ \cup {n}]
      BY <1>0, <1>1 DEF Record, Folds, Fold, TypeOK
    <2>2. /\ entries' \in Seq(Entry) /\ Len(entries') = L
          /\ \A i \in 1 .. L : i /= L => entries'[i] = entries[i]
          /\ entries'[L].ids = entries[L].ids \cup {n}
      <3>1. [entries[L] EXCEPT !.ids = @ \cup {n}] \in Entry
        BY <1>0, <2>1 DEF Entry
      <3>2. entries' = [entries EXCEPT ![L] = [entries[L] EXCEPT !.ids = @ \cup {n}]]
        BY <2>1
      <3> QED
        BY <1>0, <2>1, <3>1, <3>2 DEF Entry
    <2>3. \A i \in 1 .. L : entries[i].ids \subseteq entries'[i].ids
      BY <2>2
    <2>4. LogInOrder'
      <3>1. \A i \in 1 .. L : \E m \in entries'[i].ids : \A k \in entries'[i].ids : m <= k
        <4> TAKE i \in 1 .. L
        <4>1. PICK m \in entries[i].ids : \A k \in entries[i].ids : m <= k
          BY DEF LogInOrder
        <4>2. m <= n /\ m \in entries'[i].ids
          BY <1>0, <4>1, <2>3 DEF LogInOrder
        <4> QED
          BY <2>2, <4>1, <4>2
      <3>2. ASSUME NEW i \in 1 .. L, NEW j \in 1 .. L, i < j,
                   NEW m \in entries'[i].ids, NEW k \in entries'[j].ids
            PROVE  m < k
        <4>1. m \in entries[i].ids /\ m <= recorded
          BY <1>0, <2>2, <3>2 DEF LogInOrder
        <4>2. k \in entries[j].ids \/ k = n
          BY <2>2
        <4> QED
          BY <1>0, <4>1, <4>2, <3>2 DEF LogInOrder
      <3>3. \A i \in 1 .. L : entries'[i].ids \subseteq 1 .. n
        BY <1>0, <2>2 DEF LogInOrder
      <3>4. \A k \in 1 .. n : \E i \in 1 .. L : k \in entries'[i].ids
        <4> TAKE k \in 1 .. n
        <4>1. CASE k = n
          BY <4>1, <2>1, <2>2
        <4>2. CASE k /= n
          BY <4>2, <1>0, <2>3 DEF LogInOrder
        <4> QED
          BY <4>1, <4>2
      <3>5. recorded' = n /\ Len(entries') = L
        BY <2>1, <2>2
      <3> HIDE DEF L, n
      <3> QED
        BY <3>1, <3>2, <3>3, <3>4, <3>5 DEF LogInOrder
    <2> QED
      BY <1>0, <2>1, <2>2, <2>3, <2>4 DEF TypeOK, Capped
  <1>2. CASE ~Folds(b)
    <2> DEFINE L == Len(entries) + 1
               e == [block |-> b, ids |-> {n}]
    <2>1. /\ recorded' = n /\ entries' = Append(entries, e)
          /\ first' = IF Len(entries) + 2 - first > HistoryCap
                      THEN Len(entries) + 2 - HistoryCap ELSE first
      BY <1>2 DEF Record, NewEntry
    <2>2. /\ entries' \in Seq(Entry) /\ Len(entries') = L
          /\ \A i \in 1 .. Len(entries) : entries'[i] = entries[i]
          /\ entries'[L] = e /\ entries'[L].ids = {n}
      <3>1. e \in Entry
        BY <1>0 DEF Entry
      <3> QED
        BY <1>0, <2>1, <3>1
    <2>5. \A i \in 1 .. L : i /= L => i \in 1 .. Len(entries) /\ entries'[i] = entries[i]
      BY <1>0, <2>2
    <2>6. L \in 1 .. L /\ L > Len(entries) /\ entries'[L].ids = {n}
      BY <1>0, <2>2
    <2> HIDE DEF L, e
    <2>3. first' \in 1 .. L + 1 /\ L + 1 - first' <= HistoryCap
      BY <1>0, <2>1 DEF TypeOK, Capped, L
    <2>4. LogInOrder'
      <3>1. \A i \in 1 .. L : \E m \in entries'[i].ids : \A k \in entries'[i].ids : m <= k
        <4> TAKE i \in 1 .. L
        <4>1. CASE i = L
          <5>1. entries'[i].ids = {n} /\ n <= n
            BY <1>0, <2>6, <4>1
          <5> QED
            BY <5>1
        <4>2. CASE i /= L
          <5>1. i \in 1 .. Len(entries) /\ entries'[i] = entries[i]
            BY <2>5, <4>2
          <5> QED
            BY <1>0, <5>1 DEF LogInOrder
        <4> QED
          BY <4>1, <4>2
      <3>2. ASSUME NEW i \in 1 .. L, NEW j \in 1 .. L, i < j,
                   NEW m \in entries'[i].ids, NEW k \in entries'[j].ids
            PROVE  m < k
        <4>0. i /= L
          BY <1>0, <3>2 DEF L
        <4>1. i \in 1 .. Len(entries) /\ m \in entries[i].ids
          BY <2>5, <3>2, <4>0
        <4>4. m \in 1 .. recorded
          BY <4>1 DEF LogInOrder
        <4>2. CASE j = L
          <5>1. k = n
            BY <2>6, <3>2, <4>2
          <5> QED
            BY <1>0, <4>4, <5>1
        <4>3. CASE j /= L
          <5>1. j \in 1 .. Len(entries) /\ k \in entries[j].ids
            BY <2>5, <3>2, <4>3
          <5> QED
            BY <3>2, <4>1, <5>1 DEF LogInOrder
        <4> QED
          BY <4>2, <4>3
      <3>3. \A i \in 1 .. L : entries'[i].ids \subseteq 1 .. n
        <4> TAKE i \in 1 .. L
        <4>1. CASE i = L
          BY <1>0, <2>6, <4>1
        <4>2. CASE i /= L
          <5>1. i \in 1 .. Len(entries) /\ entries'[i] = entries[i]
            BY <2>5, <4>2
          <5> QED
            BY <1>0, <5>1 DEF LogInOrder
        <4> QED
          BY <4>1, <4>2
      <3>4. \A k \in 1 .. n : \E i \in 1 .. L : k \in entries'[i].ids
        <4> TAKE k \in 1 .. n
        <4>1. CASE k = n
          BY <1>0, <4>1, <2>6
        <4>2. CASE k /= n
          <5>1. k \in 1 .. recorded
            BY <1>0, <4>2
          <5>2. PICK i \in 1 .. Len(entries) : k \in entries[i].ids
            BY <5>1 DEF LogInOrder
          <5>3. i \in 1 .. L /\ entries'[i] = entries[i]
            BY <1>0, <2>2, <5>2 DEF L
          <5> QED
            BY <5>2, <5>3
        <4> QED
          BY <4>1, <4>2
      <3>5. recorded' = n /\ Len(entries') = L
        BY <2>1, <2>2
      <3> HIDE DEF n
      <3> QED
        BY <3>1, <3>2, <3>3, <3>4, <3>5 DEF LogInOrder
    <2> QED
      BY <1>0, <2>1, <2>2, <2>3, <2>4 DEF TypeOK, Capped, L
  <1> QED
    BY <1>1, <1>2

\* The history holds all from its oldest event on, and nothing older.
LEMMA TailIsWhole ==
    ASSUME TypeOK, LogInOrder, first <= Len(entries)
    PROVE  /\ Oldest \in 1 .. recorded
           /\ \A n \in Oldest .. recorded :
                  \E i \in first .. Len(entries) : n \in entries[i].ids
           /\ \A i \in first .. Len(entries) : entries[i].ids \subseteq Oldest .. recorded
  <1>0. first \in 1 .. Len(entries) /\ Len(entries) \in Nat /\ recorded \in Nat
    BY DEF TypeOK
  <1>1. PICK m \in entries[first].ids : \A n \in entries[first].ids : m <= n
    BY <1>0 DEF LogInOrder
  <1>2. entries[first].ids \subseteq 1 .. recorded
    BY <1>0 DEF LogInOrder
  <1>3. /\ Oldest \in entries[first].ids
        /\ \A n \in entries[first].ids : Oldest <= n
    BY <1>1, <1>2 DEF Oldest, Min
  <1>4. ASSUME NEW n \in Oldest .. recorded
        PROVE  \E i \in first .. Len(entries) : n \in entries[i].ids
    <2>1. n \in 1 .. recorded
      BY <1>2, <1>3
    <2>2. PICK i \in 1 .. Len(entries) : n \in entries[i].ids
      BY <2>1 DEF LogInOrder
    <2>3. ~ (i < first)
      <3> SUFFICES ASSUME i < first PROVE n < Oldest
        BY <1>2, <1>3, <2>1
      <3> QED
        BY <1>0, <1>3, <2>2 DEF LogInOrder
    <2> QED
      BY <1>0, <2>2, <2>3
  <1>5. ASSUME NEW i \in first .. Len(entries), NEW n \in entries[i].ids
        PROVE  n \in Oldest .. recorded
    <2>1. i \in 1 .. Len(entries) /\ n \in 1 .. recorded
      BY <1>0 DEF LogInOrder
    <2>2. CASE i = first
      BY <1>2, <1>3, <2>1, <2>2
    <2>3. CASE i /= first
      BY <1>0, <1>2, <1>3, <2>1, <2>3 DEF LogInOrder
    <2> QED
      BY <2>2, <2>3
  <1> QED
    BY <1>2, <1>3, <1>4, <1>5

LEMMA HistoryIsTailFollows ==
    ASSUME TypeOK, LogInOrder, Capped PROVE HistoryIsTail
  <1>0. first \in 1 .. Len(entries) + 1 /\ Len(entries) \in Nat
    BY DEF TypeOK
  <1>1. \A i, j \in first .. Len(entries) : i < j =>
            \A m \in entries[i].ids, n \in entries[j].ids : m < n
    BY <1>0 DEF LogInOrder
  <1>2. CASE first <= Len(entries)
    <2>1. UNION {entries[i].ids : i \in first .. Len(entries)} = Oldest .. recorded
      BY <1>2, TailIsWhole
    <2> QED
      BY <1>1, <1>2, <2>1 DEF HistoryIsTail, Capped
  <1>3. CASE ~ (first <= Len(entries))
    <2>1. first .. Len(entries) = {}
      BY <1>0, <1>3
    <2>2. UNION {entries[i].ids : i \in first .. Len(entries)} = {}
      BY <2>1
    <2> QED
      BY <1>1, <1>3, <2>2 DEF HistoryIsTail, Capped
  <1> QED
    BY <1>2, <1>3

-----------------------------------------------------------------------------
(* Steps.  A step that leaves the log alone keeps what is said of it.      *)

LogOK ==
    /\ recorded \in Nat
    /\ entries \in Seq(Entry) /\ first \in 1 .. Len(entries) + 1
    /\ LogInOrder /\ Capped

\* got is as before but for client c, whom events ids reached.
LEMMA ReachedFacts ==
    ASSUME TypeOK, NEW c \in Client, NEW ids, got' = Reached(c, ids)
    PROVE  /\ \A d \in Client : got[d] \subseteq got'[d]
           /\ alive[c] => ids \subseteq got'[c]
           /\ \A d \in Client : got'[d] \subseteq got[d] \cup ids
           /\ got' = [d \in Client |-> got'[d]]
  BY DEF Reached, TypeOK

\* Those a push owes an event: they have it, or its loop has still to reach them.
LEMMA PushStep ==
    ASSUME IInv, NEW p \in Producer, NEW b \in Block \cup {None}, Push(p, b)
    PROVE  /\ LogOK' /\ Loops' /\ RegistryIsExact' /\ NothingMissed'
           /\ sending' \in [Producer -> 0 .. recorded']
           /\ to' \in [Producer -> Client \cup {None}]
           /\ todo' \in [Producer -> SUBSET Client]
           /\ dead' \in [Producer -> SUBSET Client]
           /\ shared' \in [Producer -> BOOLEAN]
           /\ pos' \in [Client -> 0 .. Len(entries')]
           /\ upto' \in [Client -> 0 .. Len(entries')]
           /\ got' \in [Client -> SUBSET (1 .. recorded')]
           /\ since' \in [Client -> 0 .. recorded' + 1]
  <1> DEFINE n == recorded + 1
  <1>0. TypeOK /\ LogInOrder /\ Capped /\ Loops /\ RegistryIsExact /\ NothingMissed
    BY DEF IInv
  <1>1. Record(b) /\ sending[p] = 0 /\ UNCHANGED <<conns, phase, pos, upto, since, alive>>
    BY DEF Push, replay
  <1>2. /\ recorded' = n /\ recorded' \in Nat
        /\ entries' \in Seq(Entry) /\ first' \in 1 .. Len(entries') + 1
        /\ Len(entries) <= Len(entries')
        /\ \A i \in 1 .. Len(entries) : entries[i].ids \subseteq entries'[i].ids
        /\ LogInOrder' /\ Capped'
    BY <1>0, <1>1, RecordFacts
  <1>3. LogOK'
    BY <1>2 DEF LogOK
  <1>4. recorded \in Nat /\ n \in Nat /\ Len(entries) \in Nat /\ Len(entries') \in Nat
    BY <1>0, <1>2 DEF TypeOK
  <1>5. Attached' = Attached /\ RegistryIsExact'
    BY <1>0, <1>1 DEF RegistryIsExact, Attached
  <1>6. /\ pos' \in [Client -> 0 .. Len(entries')]
        /\ upto' \in [Client -> 0 .. Len(entries')]
        /\ since' \in [Client -> 0 .. recorded' + 1]
    <2>1. 0 .. Len(entries) \subseteq 0 .. Len(entries')
      BY <1>2, <1>4
    <2>2. 0 .. recorded + 1 \subseteq 0 .. recorded' + 1
      BY <1>2, <1>4
    <2> QED
      BY <1>0, <1>1, <2>1, <2>2 DEF TypeOK
  <1>7. 0 .. recorded \subseteq 0 .. recorded' /\ 1 .. recorded \subseteq 1 .. recorded'
        /\ n \in 1 .. recorded' /\ n \in 0 .. recorded'
    BY <1>2, <1>4
  <1>8. ASSUME NEW c \in Attached, alive[c], NEW m \in since[c] .. recorded
        PROVE  m \in got[c] \/ (\E i \in pos[c] + 1 .. upto[c] : m \in entries[i].ids)
                   \/ (\E q \in Producer : c \in todo[q] /\ m = sending[q])
    BY <1>0, <1>8 DEF NothingMissed, Owed
  <1>9. ASSUME NEW c \in Client, NEW i \in pos[c] + 1 .. upto[c]
        PROVE  entries[i].ids \subseteq entries'[i].ids
    BY <1>0, <1>2, <1>4 DEF TypeOK
  <1>10. CASE conns = {}
    <2>1. UNCHANGED <<sending, to, todo, shared, dead, got>>
      BY <1>10 DEF Push, fanout
    <2>2. /\ sending' \in [Producer -> 0 .. recorded']
          /\ got' \in [Client -> SUBSET (1 .. recorded')]
      BY <1>0, <1>7, <2>1 DEF TypeOK
    <2>3. Loops'
      BY <1>0, <1>1, <2>1 DEF Loops
    <2>4. NothingMissed'
      <3>1. \A c \in Attached : ~alive[c]
        BY <1>0, <1>10 DEF RegistryIsExact
      <3> QED
        BY <1>1, <1>5, <3>1 DEF NothingMissed
    <2> QED
      BY <1>0, <1>3, <1>5, <1>6, <2>1, <2>2, <2>3, <2>4 DEF TypeOK
  <1>11. CASE conns /= {}
    <2>1. PICK c \in conns :
             /\ sending' = [sending EXCEPT ![p] = n]
             /\ to' = [to EXCEPT ![p] = c]
             /\ todo' = [todo EXCEPT ![p] = conns \ {c}]
             /\ shared' = [shared EXCEPT ![p] = TRUE]
             /\ dead' = [dead EXCEPT ![p] = {}]
             /\ got' = Reached(c, {n})
      BY <1>11 DEF Push
    <2>2. c \in Client /\ conns \subseteq Client
      BY <1>0 DEF TypeOK
    <2>3. /\ \A d \in Client : got[d] \subseteq got'[d]
          /\ alive[c] => {n} \subseteq got'[c]
          /\ \A d \in Client : got'[d] \subseteq got[d] \cup {n}
          /\ got' = [d \in Client |-> got'[d]]
      BY <1>0, <2>1, <2>2, ReachedFacts
    <2>4. /\ to' \in [Producer -> Client \cup {None}]
          /\ todo' \in [Producer -> SUBSET Client]
          /\ dead' \in [Producer -> SUBSET Client]
          /\ shared' \in [Producer -> BOOLEAN]
      BY <1>0, <2>1, <2>2 DEF TypeOK
    <2>5. sending' \in [Producer -> 0 .. recorded']
      BY <1>0, <1>7, <2>1 DEF TypeOK
    <2>6. got' \in [Client -> SUBSET (1 .. recorded')]
      BY <1>0, <1>7, <2>3 DEF TypeOK
    <2>7. Loops'
      BY <1>0, <1>1, <1>4, <2>1, <2>2 DEF Loops, TypeOK
    <2>8. ASSUME NEW d \in Attached, alive[d], NEW m \in since[d] .. recorded'
          PROVE  m \in got'[d] \/ Owed(d, m)'
      <3>1. d \in conns /\ d \in Client
        BY <1>0, <2>8 DEF RegistryIsExact, Attached
      <3>2. CASE m = n
        <4>1. CASE d = c
          BY <2>3, <2>8, <3>2, <4>1
        <4>2. CASE d /= c
          <5>1. d \in todo'[p] /\ sending'[p] = n
            BY <1>0, <2>1, <3>1, <4>2 DEF TypeOK
          <5> QED
            BY <3>2, <5>1 DEF Owed
        <4> QED
          BY <4>1, <4>2
      <3>3. CASE m /= n
        <4>1. m \in since[d] .. recorded
          BY <1>0, <1>2, <1>4, <2>8, <3>1, <3>3 DEF TypeOK
        <4>2. CASE m \in got[d]
          BY <2>3, <3>1, <4>2
        <4>3. ASSUME NEW i \in pos[d] + 1 .. upto[d], m \in entries[i].ids
              PROVE  Owed(d, m)'
          BY <1>1, <1>9, <3>1, <4>3 DEF Owed
        <4>4. ASSUME NEW q \in Producer, d \in todo[q], m = sending[q]
              PROVE  Owed(d, m)'
          <5>1. q /= p
            BY <1>0, <1>1, <4>4 DEF Loops
          <5>2. d \in todo'[q] /\ sending'[q] = m
            BY <1>0, <2>1, <4>4, <5>1 DEF TypeOK
          <5> QED
            BY <5>2 DEF Owed
        <4> QED
          BY <1>8, <2>8, <4>1, <4>2, <4>3, <4>4
      <3> QED
        BY <3>2, <3>3
    <2>9. NothingMissed'
      BY <1>1, <1>5, <2>8 DEF NothingMissed
    <2> QED
      BY <1>3, <1>5, <1>6, <2>4, <2>5, <2>6, <2>7, <2>9
  <1> QED
    BY <1>10, <1>11

\* Steps that leave the log alone.
LEMMA SameLog ==
    ASSUME TypeOK, LogInOrder, Capped, UNCHANGED log
    PROVE  LogOK'
  BY DEF TypeOK, LogInOrder, Capped, LogOK, log

LEMMA SendNextStep ==
    ASSUME IInv, NEW p \in Producer, SendNext(p) PROVE IInv'
  <1>0. TypeOK /\ LogInOrder /\ Capped /\ Loops /\ RegistryIsExact /\ NothingMissed
    BY DEF IInv
  <1>1. /\ sending[p] /= 0
        /\ UNCHANGED <<recorded, entries, first, grace, run, conns, sending, shared,
                       phase, pos, upto, since, alive>>
    BY DEF SendNext, log, replay
  <1>2. PICK c \in todo[p] :
            /\ to' = [to EXCEPT ![p] = c]
            /\ todo' = [todo EXCEPT ![p] = @ \ {c}]
            /\ got' = Reached(c, {sending[p]})
    BY DEF SendNext
  <1>3. PICK D \in Failed(p) : dead' = [dead EXCEPT ![p] = D]
    BY DEF SendNext
  <1>4. c \in Client /\ to[p] \in Client
    BY <1>0, <1>1, <1>2 DEF TypeOK, Loops
  <1>5. D \subseteq Client /\ \A d \in D : ~alive[d]
    BY <1>0, <1>3, <1>4 DEF Failed, TypeOK, Loops
  <1>6. LogOK'
    BY <1>0, <1>1, SameLog DEF log
  <1>7. /\ \A d \in Client : got[d] \subseteq got'[d]
        /\ alive[c] => {sending[p]} \subseteq got'[c]
        /\ \A d \in Client : got'[d] \subseteq got[d] \cup {sending[p]}
        /\ got' = [d \in Client |-> got'[d]]
    BY <1>0, <1>2, <1>4, ReachedFacts
  <1>8. got' \in [Client -> SUBSET (1 .. recorded)]
    <2>1. sending[p] \in 1 .. recorded
      BY <1>0, <1>1 DEF TypeOK
    <2> QED
      BY <1>0, <1>7, <2>1 DEF TypeOK
  <1>9. /\ to' \in [Producer -> Client \cup {None}]
        /\ todo' \in [Producer -> SUBSET Client]
        /\ dead' \in [Producer -> SUBSET Client]
    BY <1>0, <1>2, <1>3, <1>4, <1>5 DEF TypeOK
  <1>10. TypeOK'
    BY <1>0, <1>1, <1>8, <1>9 DEF TypeOK
  <1>11. Loops'
    BY <1>0, <1>1, <1>2, <1>3, <1>4, <1>5 DEF Loops, TypeOK
  <1>12. RegistryIsExact' /\ Attached' = Attached
    BY <1>0, <1>1 DEF RegistryIsExact, Attached
  <1>13. ASSUME NEW d \in Attached, alive[d], NEW m \in since[d] .. recorded
         PROVE  m \in got'[d] \/ Owed(d, m)'
    <2>0. d \in Client
      BY DEF Attached
    <2>1. CASE m \in got[d]
      BY <1>7, <2>0, <2>1
    <2>2. ASSUME NEW i \in pos[d] + 1 .. upto[d], m \in entries[i].ids
          PROVE  Owed(d, m)'
      BY <1>1, <2>2 DEF Owed
    <2>3. ASSUME NEW q \in Producer, d \in todo[q], m = sending[q]
          PROVE  m \in got'[d] \/ Owed(d, m)'
      <3>1. CASE q = p /\ d = c
        BY <1>7, <1>13, <2>3, <3>1
      <3>2. CASE ~(q = p /\ d = c)
        <4>1. d \in todo'[q] /\ sending'[q] = m
          BY <1>0, <1>1, <1>2, <2>3, <3>2 DEF TypeOK
        <4> QED
          BY <4>1 DEF Owed
      <3> QED
        BY <3>1, <3>2
    <2> QED
      BY <1>0, <1>13, <2>1, <2>2, <2>3 DEF NothingMissed, Owed
  <1>14. NothingMissed'
    BY <1>1, <1>12, <1>13 DEF NothingMissed
  <1> QED
    BY <1>6, <1>10, <1>11, <1>12, <1>14 DEF IInv, LogOK

LEMMA FinishPushStep ==
    ASSUME IInv, NEW p \in Producer, FinishPush(p) PROVE IInv'
  <1>0. TypeOK /\ LogInOrder /\ Capped /\ Loops /\ RegistryIsExact /\ NothingMissed
    BY DEF IInv
  <1>1. /\ sending[p] /= 0 /\ todo[p] = {}
        /\ UNCHANGED <<recorded, entries, first, grace, run, phase, pos, upto, since,
                       alive, got>>
    BY DEF FinishPush, Return, log, replay
  <1>2. /\ sending' = [sending EXCEPT ![p] = 0]
        /\ to' = [to EXCEPT ![p] = None]
        /\ todo' = [todo EXCEPT ![p] = {}]
        /\ dead' = [dead EXCEPT ![p] = {}]
    BY DEF FinishPush, Return
  <1>3. PICK D \in Failed(p) :
            IF D = {}
            THEN shared' = [shared EXCEPT ![p] = FALSE] /\ UNCHANGED conns
            ELSE Unregister(D)
    BY DEF FinishPush, Return
  <1>4. \A d \in D : ~alive[d]
    BY <1>0, <1>3 DEF Failed, Loops
  <1>5. /\ conns' = conns \/ conns' = conns \ D
        /\ shared' \in [Producer -> BOOLEAN]
    BY <1>0, <1>3 DEF Unregister, TypeOK
  <1>6. LogOK'
    BY <1>0, <1>1, SameLog DEF log
  <1>7. /\ sending' \in [Producer -> 0 .. recorded]
        /\ to' \in [Producer -> Client \cup {None}]
        /\ todo' \in [Producer -> SUBSET Client]
        /\ dead' \in [Producer -> SUBSET Client]
    BY <1>0, <1>2 DEF TypeOK
  <1>8. TypeOK'
    <2>1. conns' \subseteq Client
      BY <1>0, <1>5 DEF TypeOK
    <2> QED
      BY <1>0, <1>1, <1>5, <1>7, <2>1 DEF TypeOK
  <1>9. Loops'
    <2>1. \A q \in Producer : ~shared'[q] \/ (shared[q] /\ q /= p)
      BY <1>0, <1>3 DEF Unregister, TypeOK
    <2> QED
      BY <1>0, <1>1, <1>2, <2>1 DEF Loops, TypeOK
  <1>10. Attached' = Attached /\ RegistryIsExact'
    BY <1>0, <1>1, <1>4, <1>5 DEF RegistryIsExact, Attached
  <1>11. ASSUME NEW d \in Attached, NEW m \in since[d] .. recorded, Owed(d, m)
         PROVE  Owed(d, m)'
    <2>1. ASSUME NEW q \in Producer, d \in todo[q], m = sending[q]
          PROVE  d \in todo'[q] /\ m = sending'[q]
      BY <1>0, <1>1, <1>2, <2>1 DEF TypeOK
    <2> QED
      BY <1>1, <1>11, <2>1 DEF Owed
  <1>12. NothingMissed'
    BY <1>0, <1>1, <1>10, <1>11 DEF NothingMissed
  <1> QED
    BY <1>6, <1>8, <1>9, <1>10, <1>12 DEF IInv, LogOK

LEMMA DropStep == ASSUME IInv, DropAfterGrace PROVE IInv'
  <1>0. TypeOK /\ LogInOrder /\ Capped /\ Loops /\ RegistryIsExact /\ NothingMissed
    BY DEF IInv
  <1>1. /\ grace' = FALSE /\ first' = Len(entries) + 1
        /\ UNCHANGED <<recorded, entries, run, conns, sending, to, todo, shared, dead,
                       phase, pos, upto, since, alive, got>>
    BY DEF DropAfterGrace, fanout, replay
  <1>2. Len(entries) \in Nat /\ entries' = entries
    BY <1>0, <1>1 DEF TypeOK
  <1>3. TypeOK' /\ Capped'
    <2>1. first' \in 1 .. Len(entries') + 1 /\ Capped'
      BY <1>1, <1>2, BoundsAssumption DEF Capped
    <2> QED
      BY <1>0, <1>1, <2>1 DEF TypeOK
  <1>4. LogInOrder' /\ Loops' /\ RegistryIsExact'
    BY <1>0, <1>1 DEF LogInOrder, Loops, RegistryIsExact, Attached
  <1>5. Attached' = Attached /\ \A d, m : Owed(d, m)' <=> Owed(d, m)
    BY <1>1 DEF Attached, Owed
  <1>6. NothingMissed'
    BY <1>0, <1>1, <1>5 DEF NothingMissed
  <1> QED
    BY <1>3, <1>4, <1>6 DEF IInv

\* What a connect does to the replay: c is attached, and will have had all from
\* the oldest event in the history on.
Joined(c) ==
    /\ phase' \in [Client -> {"away", "replaying", "listening", "gone"}]
    /\ phase'[c] \in {"replaying", "listening"}
    /\ \A d \in Client : d /= c =>
           phase'[d] = phase[d] /\ pos'[d] = pos[d] /\ upto'[d] = upto[d]
    /\ \A d \in Client : got[d] \subseteq got'[d]
    /\ pos' \in [Client -> 0 .. Len(entries)] /\ upto' \in [Client -> 0 .. Len(entries)]
    /\ got' \in [Client -> SUBSET (1 .. recorded)]
    /\ Oldest \in 0 .. recorded + 1
    /\ alive[c] => \A m \in Oldest .. recorded : m \in got'[c] \/ Owed(c, m)'

LEMMA ConnectStep ==
    ASSUME IInv, NEW c \in Client, Connect(c) PROVE IInv'
  <1>0. TypeOK /\ LogInOrder /\ Capped /\ Loops /\ RegistryIsExact /\ NothingMissed
    BY DEF IInv
  <1>1. /\ phase[c] = "away"
        /\ since' = [since EXCEPT ![c] = Oldest]
        /\ UNCHANGED <<recorded, entries, first, grace, run, sending, to, shared, dead,
                       alive>>
    BY DEF Connect, Join, log
  <1>2. /\ conns' = conns \cup {c}
        /\ todo' = [p \in Producer |-> IF shared[p] THEN todo[p] \cup {c} ELSE todo[p]]
    BY DEF Connect, Join, Register
  <1>3. recorded \in Nat /\ Len(entries) \in Nat /\ first \in 1 .. Len(entries) + 1
    BY <1>0 DEF TypeOK
  <1>4. LogOK'
    BY <1>0, <1>1, SameLog DEF log
  <1>5. ASSUME first <= Len(entries) PROVE Joined(c)
    <2>1. /\ phase' = [phase EXCEPT ![c] = "replaying"]
          /\ pos' = [pos EXCEPT ![c] = first]
          /\ upto' = [upto EXCEPT ![c] = Len(entries)]
          /\ got' = Reached(c, entries[first].ids)
      BY <1>5 DEF Connect, Join
    <2>2. /\ Oldest \in 1 .. recorded
          /\ \A n \in Oldest .. recorded :
                 \E i \in first .. Len(entries) : n \in entries[i].ids
      BY <1>0, <1>5, TailIsWhole
    <2>3. /\ \A d \in Client : got[d] \subseteq got'[d]
          /\ alive[c] => entries[first].ids \subseteq got'[c]
          /\ \A d \in Client : got'[d] \subseteq got[d] \cup entries[first].ids
          /\ got' = [d \in Client |-> got'[d]]
      BY <1>0, <2>1, ReachedFacts
    <2>4. entries[first].ids \subseteq 1 .. recorded
      BY <1>0, <1>3, <1>5 DEF LogInOrder
    <2>5. ASSUME alive[c], NEW m \in Oldest .. recorded
          PROVE  m \in got'[c] \/ Owed(c, m)'
      <3>1. PICK i \in first .. Len(entries) : m \in entries[i].ids
        BY <2>2
      <3>2. CASE i = first
        BY <2>3, <2>5, <3>1, <3>2
      <3>3. CASE i /= first
        <4>1. pos'[c] = first /\ upto'[c] = Len(entries) /\ entries' = entries
          BY <1>0, <1>1, <2>1 DEF TypeOK
        <4>2. i \in pos'[c] + 1 .. upto'[c] /\ m \in entries'[i].ids
          BY <1>3, <3>1, <3>3, <4>1
        <4> QED
          BY <4>2 DEF Owed
      <3> QED
        BY <3>2, <3>3
    <2>6. /\ phase' \in [Client -> {"away", "replaying", "listening", "gone"}]
          /\ phase'[c] \in {"replaying", "listening"}
          /\ \A d \in Client : d /= c =>
                 phase'[d] = phase[d] /\ pos'[d] = pos[d] /\ upto'[d] = upto[d]
      BY <1>0, <2>1 DEF TypeOK
    <2>7. /\ pos' \in [Client -> 0 .. Len(entries)]
          /\ upto' \in [Client -> 0 .. Len(entries)]
      <3>1. first \in 0 .. Len(entries) /\ Len(entries) \in 0 .. Len(entries)
        BY <1>3, <1>5
      <3> QED
        BY <1>0, <2>1, <3>1 DEF TypeOK
    <2>8. got' \in [Client -> SUBSET (1 .. recorded)]
      BY <1>0, <2>3, <2>4 DEF TypeOK
    <2>9. Oldest \in 0 .. recorded + 1
      BY <1>3, <2>2
    <2>10. alive[c] => \A m \in Oldest .. recorded : m \in got'[c] \/ Owed(c, m)'
      BY <2>5
    <2>11. \A d \in Client : got[d] \subseteq got'[d]
      BY <2>3
    <2> QED
      BY <2>6, <2>7, <2>8, <2>9, <2>10, <2>11 DEF Joined
  <1>6. ASSUME ~(first <= Len(entries)) PROVE Joined(c)
    <2>1. phase' = [phase EXCEPT ![c] = "listening"] /\ UNCHANGED <<pos, upto, got>>
      BY <1>6 DEF Connect, Join
    <2>2. Oldest = recorded + 1
      BY <1>6 DEF Oldest
    <2>3. \A m \in Oldest .. recorded : FALSE
      BY <1>3, <2>2
    <2>4. Oldest \in 0 .. recorded + 1
      BY <1>3, <2>2
    <2>5. /\ phase' \in [Client -> {"away", "replaying", "listening", "gone"}]
          /\ phase'[c] \in {"replaying", "listening"}
          /\ \A d \in Client : d /= c =>
                 phase'[d] = phase[d] /\ pos'[d] = pos[d] /\ upto'[d] = upto[d]
      BY <1>0, <2>1 DEF TypeOK
    <2>6. /\ \A d \in Client : got[d] \subseteq got'[d]
          /\ pos' \in [Client -> 0 .. Len(entries)]
          /\ upto' \in [Client -> 0 .. Len(entries)]
          /\ got' \in [Client -> SUBSET (1 .. recorded)]
      BY <1>0, <2>1 DEF TypeOK
    <2> QED
      BY <2>3, <2>4, <2>5, <2>6 DEF Joined
  <1>7. Joined(c)
    BY <1>5, <1>6
  <1>8. TypeOK'
    <2>1. since' \in [Client -> 0 .. recorded + 1] /\ since'[c] = Oldest
          /\ \A d \in Client : d /= c => since'[d] = since[d]
      BY <1>0, <1>1, <1>7 DEF TypeOK, Joined
    <2>2. conns' \subseteq Client /\ todo' \in [Producer -> SUBSET Client]
      BY <1>0, <1>2 DEF TypeOK
    <2> QED
      BY <1>0, <1>1, <1>7, <2>1, <2>2 DEF TypeOK, Joined
  <1>9. Loops'
    <2>1. \A p \in Producer : sending[p] = 0 => ~shared[p]
      BY <1>0 DEF Loops
    <2> QED
      BY <1>0, <1>1, <1>2, <2>1 DEF Loops, TypeOK
  <1>10. Attached' = Attached \cup {c} /\ c \notin Attached
    BY <1>1, <1>7 DEF Attached, Joined
  <1>11. RegistryIsExact'
    BY <1>0, <1>1, <1>2, <1>10 DEF RegistryIsExact
  <1>12. ASSUME NEW d \in Attached, alive[d], NEW m \in since[d] .. recorded
         PROVE  m \in got'[d] \/ Owed(d, m)'
    <2>0. d \in Client /\ d /= c
      BY <1>10 DEF Attached
    <2>1. CASE m \in got[d]
      BY <1>7, <2>0, <2>1 DEF Joined
    <2>2. ASSUME NEW i \in pos[d] + 1 .. upto[d], m \in entries[i].ids
          PROVE  Owed(d, m)'
      BY <1>1, <1>7, <2>0, <2>2 DEF Owed, Joined
    <2>3. ASSUME NEW q \in Producer, d \in todo[q], m = sending[q]
          PROVE  Owed(d, m)'
      <3>1. d \in todo'[q] /\ m = sending'[q]
        BY <1>1, <1>2, <2>3
      <3> QED
        BY <3>1 DEF Owed
    <2> QED
      BY <1>0, <1>12, <2>1, <2>2, <2>3 DEF NothingMissed, Owed
  <1>13. \A d \in Client : since'[d] = IF d = c THEN Oldest ELSE since[d]
    BY <1>0, <1>1 DEF TypeOK
  <1>14. NothingMissed'
    BY <1>1, <1>7, <1>10, <1>12, <1>13 DEF NothingMissed, Joined, Attached
  <1> QED
    BY <1>4, <1>8, <1>9, <1>11, <1>14 DEF IInv, LogOK

LEMMA ReplayNextStep ==
    ASSUME IInv, NEW c \in Client, ReplayNext(c) PROVE IInv'
  <1>0. TypeOK /\ LogInOrder /\ Capped /\ Loops /\ RegistryIsExact /\ NothingMissed
    BY DEF IInv
  <1>1. /\ phase[c] = "replaying"
        /\ UNCHANGED <<recorded, entries, first, grace, run, conns, sending, to, todo,
                       shared, dead, since, alive>>
    BY DEF ReplayNext, log, fanout
  <1>2. LogOK'
    BY <1>0, <1>1, SameLog DEF log
  <1>3. Loops'
    BY <1>0, <1>1 DEF Loops
  <1>4. pos[c] \in 0 .. Len(entries) /\ upto[c] \in 0 .. Len(entries)
        /\ Len(entries) \in Nat
    BY <1>0 DEF TypeOK
  <1>5. CASE /\ pos[c] < upto[c]
             /\ pos' = [pos EXCEPT ![c] = @ + 1]
             /\ got' = Reached(c, entries[pos[c] + 1].ids)
             /\ UNCHANGED <<phase, upto>>
    <2> DEFINE sent == entries[pos[c] + 1].ids
    <2>1. pos[c] + 1 \in 1 .. Len(entries) /\ pos[c] + 1 \in 0 .. Len(entries)
      BY <1>4, <1>5
    <2>2. sent \subseteq 1 .. recorded
      BY <1>0, <2>1 DEF LogInOrder
    <2>3. /\ \A d \in Client : got[d] \subseteq got'[d]
          /\ alive[c] => sent \subseteq got'[c]
          /\ \A d \in Client : got'[d] \subseteq got[d] \cup sent
          /\ got' = [d \in Client |-> got'[d]]
      BY <1>0, <1>5, ReachedFacts
    <2>4. got' \in [Client -> SUBSET (1 .. recorded)]
      BY <1>0, <2>2, <2>3 DEF TypeOK
    <2>5. pos' \in [Client -> 0 .. Len(entries)]
      BY <1>0, <1>5, <2>1 DEF TypeOK
    <2>6. TypeOK'
      BY <1>0, <1>1, <1>5, <2>4, <2>5 DEF TypeOK
    <2>7. Attached' = Attached /\ RegistryIsExact'
      BY <1>0, <1>1, <1>5 DEF RegistryIsExact, Attached
    <2>8. ASSUME NEW d \in Attached, alive[d], NEW m \in since[d] .. recorded
          PROVE  m \in got'[d] \/ Owed(d, m)'
      <3>0. d \in Client
        BY DEF Attached
      <3>1. CASE m \in got[d]
        BY <2>3, <3>0, <3>1
      <3>2. ASSUME NEW i \in pos[d] + 1 .. upto[d], m \in entries[i].ids
            PROVE  m \in got'[d] \/ Owed(d, m)'
        <4>1. CASE d = c /\ i = pos[c] + 1
          BY <2>3, <2>8, <3>2, <4>1
        <4>2. CASE ~(d = c /\ i = pos[c] + 1)
          <5>1. pos[d] \in Nat /\ upto[d] \in Nat
            BY <1>0, <3>0 DEF TypeOK
          <5>2. i \in pos'[d] + 1 .. upto'[d]
            BY <1>0, <1>5, <3>0, <3>2, <4>2, <5>1 DEF TypeOK
          <5> QED
            BY <1>1, <3>2, <5>2 DEF Owed
        <4> QED
          BY <4>1, <4>2
      <3>3. ASSUME NEW q \in Producer, d \in todo[q], m = sending[q]
            PROVE  Owed(d, m)'
        BY <1>1, <3>3 DEF Owed
      <3> QED
        BY <1>0, <2>8, <3>1, <3>2, <3>3 DEF NothingMissed, Owed
    <2>9. NothingMissed'
      BY <1>1, <2>7, <2>8 DEF NothingMissed
    <2> QED
      BY <1>2, <1>3, <2>6, <2>7, <2>9 DEF IInv, LogOK
  <1>6. CASE /\ pos[c] = upto[c] \/ ~alive[c]
             /\ phase' = [phase EXCEPT ![c] = "listening"]
             /\ pos' = [pos EXCEPT ![c] = 0] /\ upto' = [upto EXCEPT ![c] = 0]
             /\ UNCHANGED got
    <2>1. TypeOK'
      BY <1>0, <1>1, <1>4, <1>6 DEF TypeOK
    <2>2. Attached' = Attached /\ RegistryIsExact'
      BY <1>0, <1>1, <1>6 DEF RegistryIsExact, Attached, TypeOK
    <2>3. ASSUME NEW d \in Attached, alive[d], NEW m \in since[d] .. recorded,
                 Owed(d, m)
          PROVE  Owed(d, m)'
      <3>0. d \in Client
        BY DEF Attached
      <3>1. ASSUME NEW i \in pos[d] + 1 .. upto[d], m \in entries[i].ids
            PROVE  Owed(d, m)'
        <4>1. d /= c
          BY <1>4, <1>6, <2>3, <3>1
        <4>2. pos'[d] = pos[d] /\ upto'[d] = upto[d]
          BY <1>0, <1>6, <3>0, <4>1 DEF TypeOK
        <4> QED
          BY <1>1, <3>1, <4>2 DEF Owed
      <3>2. ASSUME NEW q \in Producer, d \in todo[q], m = sending[q]
            PROVE  Owed(d, m)'
        BY <1>1, <3>2 DEF Owed
      <3> QED
        BY <2>3, <3>1, <3>2 DEF Owed
    <2>4. NothingMissed'
      BY <1>0, <1>1, <1>6, <2>2, <2>3 DEF NothingMissed
    <2> QED
      BY <1>2, <1>3, <2>1, <2>2, <2>4 DEF IInv, LogOK
  <1> QED
    BY <1>5, <1>6 DEF ReplayNext

\* A client whose peer is gone is owed nothing.
LEMMA LeaveStep ==
    ASSUME IInv, NEW c \in Client, PeerCloses(c) \/ Disconnect(c) PROVE IInv'
  <1>0. TypeOK /\ LogInOrder /\ Capped /\ Loops /\ RegistryIsExact /\ NothingMissed
    BY DEF IInv
  <1>1. /\ alive' = [alive EXCEPT ![c] = FALSE]
        /\ got' = [got EXCEPT ![c] = {}]
        /\ UNCHANGED <<recorded, entries, first, grace, run, sending, to, todo, dead, pos,
                       upto>>
    BY DEF PeerCloses, Disconnect, log, fanout, replay
  <1>2. \/ UNCHANGED <<conns, shared, phase, since>>
        \/ /\ phase[c] = "listening"
           /\ phase' = [phase EXCEPT ![c] = "gone"]
           /\ since' = [since EXCEPT ![c] = 0]
           /\ conns' = conns \ {c}
           /\ shared' = [p \in Producer |-> FALSE]
    BY DEF PeerCloses, Disconnect, Unregister, fanout, replay
  <1>3. LogOK'
    BY <1>0, <1>1, SameLog DEF log
  <1>4. 0 \in 0 .. recorded + 1
    BY <1>0 DEF TypeOK
  <1>5. /\ alive' \in [Client -> BOOLEAN]
        /\ got' \in [Client -> SUBSET (1 .. recorded)]
        /\ shared' \in [Producer -> BOOLEAN]
        /\ since' \in [Client -> 0 .. recorded + 1]
        /\ phase' \in [Client -> {"away", "replaying", "listening", "gone"}]
        /\ conns' \subseteq Client
    <2>1. /\ alive' \in [Client -> BOOLEAN]
          /\ got' \in [Client -> SUBSET (1 .. recorded)]
      BY <1>0, <1>1 DEF TypeOK
    <2>2. CASE UNCHANGED <<conns, shared, phase, since>>
      BY <1>0, <2>1, <2>2 DEF TypeOK
    <2>3. CASE ~UNCHANGED <<conns, shared, phase, since>>
      <3>1. /\ phase' = [phase EXCEPT ![c] = "gone"]
            /\ since' = [since EXCEPT ![c] = 0]
            /\ conns' = conns \ {c}
            /\ shared' = [p \in Producer |-> FALSE]
        BY <1>2, <2>3
      <3>2. conns' \subseteq Client /\ shared' \in [Producer -> BOOLEAN]
        BY <1>0, <3>1 DEF TypeOK
      <3>3. since' \in [Client -> 0 .. recorded + 1]
        BY <1>0, <1>4, <3>1 DEF TypeOK
      <3>4. phase' \in [Client -> {"away", "replaying", "listening", "gone"}]
        BY <1>0, <3>1 DEF TypeOK
      <3> QED
        BY <2>1, <3>2, <3>3, <3>4
    <2> QED
      BY <2>2, <2>3
  <1>6. TypeOK'
    BY <1>0, <1>1, <1>5 DEF TypeOK
  <1>7. \A d \in Client : alive'[d] => alive[d] /\ d /= c
    BY <1>0, <1>1 DEF TypeOK
  <1>8. Loops'
    <2>1. \A p \in Producer : dead[p] \subseteq Client
      BY <1>0 DEF TypeOK
    <2>2. \A p \in Producer : ~shared[p] => ~shared'[p]
      BY <1>2
    <2> QED
      BY <1>0, <1>1, <1>7, <2>1, <2>2 DEF Loops
  <1>9. RegistryIsExact'
    BY <1>0, <1>2, <1>5, <1>7 DEF RegistryIsExact, Attached, TypeOK
  <1>10. ASSUME NEW d \in Attached', alive'[d]
         PROVE  d \in Attached /\ alive[d] /\ since'[d] = since[d] /\ got'[d] = got[d]
    <2>1. d \in Client /\ d /= c
      BY <1>7, <1>10 DEF Attached
    <2> QED
      BY <1>0, <1>1, <1>2, <1>7, <1>10, <2>1 DEF Attached, TypeOK
  <1>11. \A d, m : Owed(d, m)' <=> Owed(d, m)
    BY <1>1 DEF Owed
  <1>12. NothingMissed'
    BY <1>0, <1>1, <1>10, <1>11 DEF NothingMissed
  <1> QED
    BY <1>3, <1>6, <1>8, <1>9, <1>12 DEF IInv, LogOK

-----------------------------------------------------------------------------
(* Theorems                                                                *)

LEMMA IInvNext == IInv /\ [Next]_vars => IInv'
  <1> SUFFICES ASSUME IInv, [Next]_vars PROVE IInv'
    OBVIOUS
  <1>0. TypeOK /\ LogInOrder /\ Capped /\ Loops /\ RegistryIsExact /\ NothingMissed
    BY DEF IInv
  <1>1. ASSUME NEW p \in Producer, PushEvent(p) PROVE IInv'
    <2>1. PICK b \in Block \cup {None} : Push(p, b)
      BY <1>1 DEF PushEvent
    <2>3. UNCHANGED <<grace, run, conns, phase, alive>>
      BY <1>1, <2>1 DEF PushEvent, Push, replay
    <2> QED
      BY <1>0, <2>1, <2>3, PushStep DEF IInv, TypeOK, LogOK
  <1>2. ASSUME NEW p \in Producer, PushCompleted(p) PROVE IInv'
    <2>1. Push(p, None) /\ run' = "completed" /\ grace' = TRUE
      BY <1>2 DEF PushCompleted, LastPush
    <2>3. UNCHANGED <<conns, phase, alive>>
      BY <2>1 DEF Push, replay
    <2> QED
      BY <1>0, <2>1, <2>3, PushStep DEF IInv, TypeOK, LogOK
  <1>3. CASE EndSilently
    BY <1>0, <1>3 DEF EndSilently, IInv, TypeOK, LogInOrder, Capped, Loops,
       RegistryIsExact, NothingMissed, Owed, Attached, log, fanout, replay
  <1>4. CASE UNCHANGED vars
    BY <1>0, <1>4 DEF vars, IInv, TypeOK, LogInOrder, Capped, Loops, RegistryIsExact,
       NothingMissed, Owed, Attached, log, fanout, replay
  <1> QED
    BY <1>1, <1>2, <1>3, <1>4, SendNextStep, FinishPushStep, DropStep, ConnectStep,
       ReplayNextStep, LeaveStep DEF Next

\* Log, history, loops, registry and what clients still have coming stay
\* consistent over every step.
THEOREM IInvAlways == Spec => []IInv
  BY InitIInv, IInvNext, PTL DEF Spec

\* Type correctness.
THEOREM TypeCorrect == Spec => []TypeOK
  <1>1. IInv => TypeOK
    BY DEF IInv
  <1> QED
    BY <1>1, IInvAlways, PTL

\* No attached client misses an event, however pushes, replays, prunes,
\* evictions and disconnects interleave.
THEOREM NothingMissedAlways == Spec => []NothingMissed
  <1>1. IInv => NothingMissed
    BY DEF IInv
  <1> QED
    BY <1>1, IInvAlways, PTL

\* The registry holds those attached, but for peers that are gone.
THEOREM RegistryIsExactAlways == Spec => []RegistryIsExact
  <1>1. IInv => RegistryIsExact
    BY DEF IInv
  <1> QED
    BY <1>1, IInvAlways, PTL

\* The history is the end of the stream, whole, in order and within its cap.
THEOREM HistoryIsTailAlways == Spec => []HistoryIsTail
  <1>1. IInv => HistoryIsTail
    BY HistoryIsTailFollows DEF IInv
  <1> QED
    BY <1>1, IInvAlways, PTL

-----------------------------------------------------------------------------
(* The drop                                                                *)

\* A run that has completed has its drop scheduled, or behind it; no other has.
DropIsDue ==
    /\ grace => run = "completed"
    /\ run = "completed" => grace \/ first > Len(entries)

\* Once dropped the history of a completed run stays empty: no push of a task that
\* is late records an event again, and no later drop is scheduled.
StaysDropped ==
    [][run = "completed" /\ first > Len(entries)
         => run' = "completed" /\ first' > Len(entries')]_vars

LEMMA DropIsDueNext == TypeOK /\ DropIsDue /\ [Next]_vars => DropIsDue'
<1> SUFFICES ASSUME TypeOK, DropIsDue, [Next]_vars PROVE DropIsDue'
  OBVIOUS
<1>1. ASSUME NEW p \in Producer, PushEvent(p) PROVE DropIsDue'
  BY <1>1 DEF PushEvent, DropIsDue
<1>2. ASSUME NEW p \in Producer, PushCompleted(p) PROVE DropIsDue'
  BY <1>2 DEF PushCompleted, LastPush, DropIsDue
<1>3. ASSUME NEW p \in Producer, SendNext(p) \/ FinishPush(p) PROVE DropIsDue'
  BY <1>3 DEF SendNext, FinishPush, Return, DropIsDue, log
<1>4. CASE EndSilently
  BY <1>4 DEF EndSilently, DropIsDue, log
<1>5. CASE DropAfterGrace
  <2>1. Len(entries) \in Nat
    BY DEF TypeOK
  <2>2. QED
    BY <1>5, <2>1 DEF DropAfterGrace, DropIsDue
<1>6. ASSUME NEW c \in Client, Connect(c) \/ ReplayNext(c) \/ PeerCloses(c) \/ Disconnect(c)
      PROVE  DropIsDue'
  BY <1>6 DEF Connect, Join, ReplayNext, PeerCloses, Disconnect, DropIsDue, log
<1>7. CASE UNCHANGED vars
  BY <1>7 DEF vars, log, DropIsDue
<1>8. QED
  BY <1>1, <1>2, <1>3, <1>4, <1>5, <1>6, <1>7 DEF Next

\* The drop is never forgotten, whoever watches and whoever is still being sent
\* the last events: what HistoryIsDropped needs beside the timer.
THEOREM DropIsDueAlways == Spec => []DropIsDue
<1>1. Init => DropIsDue
  BY DEF Init, DropIsDue
<1>2. QED
  BY <1>1, DropIsDueNext, TypeCorrect, PTL DEF Spec

\* And it is for good.
THEOREM StaysDroppedAlways == Spec => StaysDropped
<1>1. ASSUME TypeOK, [Next]_vars, run = "completed", first > Len(entries)
      PROVE  run' = "completed" /\ first' > Len(entries')
  <2>1. UNCHANGED <<run, entries, first>> \/ DropAfterGrace
    BY <1>1 DEF Next, PushEvent, PushCompleted, LastPush, SendNext, FinishPush, Return, EndSilently,
       Connect, Join, ReplayNext, PeerCloses, Disconnect, log, vars
  <2>2. CASE DropAfterGrace
    <3>1. Len(entries) \in Nat
      BY <1>1 DEF TypeOK
    <3>2. QED
      BY <1>1, <2>2, <3>1 DEF DropAfterGrace
  <2>3. QED
    BY <1>1, <2>1, <2>2
<1>2. QED
  BY <1>1, TypeCorrect, PTL DEF Spec, StaysDropped
=============================================================================
