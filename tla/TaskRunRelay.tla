---------------------------- MODULE TaskRunRelay ----------------------------
(***************************************************************************)
(* The relay between the executor of one task run and the clients that     *)
(* watch it (app/agents/task_run_stream_relay.py): a bounded history, its  *)
(* replay to a client that connects, the fan-out of each event and the     *)
(* drop of the history after the run.                                      *)
(*                                                                         *)
(* Everything runs on one event loop and only ws.send_json suspends, so a  *)
(* step reaches from one send to the next.  The critical sections of _lock *)
(* never suspend.  Events are numbered as they are recorded.               *)
(***************************************************************************)
EXTENDS Integers, Sequences, FiniteSets, FiniteSetsExt

CONSTANTS
    Producer,     \* the tasks of parallel blocks, which push side by side
    Client,       \* WebSocket objects; a reconnecting browser has a new one
    Block,        \* blocks of the card
    HistoryCap,   \* _HISTORY_CAP
    MaxEvents,    \* bound: events pushed before the last
    None          \* neither client nor block

ASSUME BoundsAssumption == HistoryCap \in Nat /\ MaxEvents \in Nat
ASSUME NoneAssumption == None \notin Client \cup Block

VARIABLES
    recorded,     \* how many events were pushed
    entries,      \* every entry the history ever had; an entry is shared with
                  \* the replays that are under way
    first,        \* the history is entries[first .. Len(entries)]
    grace,        \* the drop task is asleep
    run,          \* what the executor does
    conns,        \* the list in _active_connections
    sending,      \* the event a producer pushes, 0 when it pushes none
    to,           \* the client whose send_json it awaits
    todo,         \* the clients its loop has still to reach
    shared,       \* it iterates over the list in _active_connections itself
    dead,         \* the clients whose send failed
    phase,        \* where the handler of a WebSocket is
    alive,        \* its peer is there
    pos, upto,    \* the entry its replay awaits, and the last one to replay
    got,          \* history: the events that reached its peer
    since         \* history: the oldest event it can expect

log     == <<recorded, entries, first>>
fanout  == <<sending, to, todo, shared, dead>>
replay  == <<phase, pos, upto, since>>
vars    == <<log, grace, run, conns, fanout, replay, alive, got>>

Entry    == [block : Block \cup {None}, ids : SUBSET Nat]
Attached == {c \in Client : phase[c] \in {"replaying", "listening"}}

TypeOK ==
    /\ recorded \in Nat
    /\ entries \in Seq(Entry) /\ first \in 1 .. Len(entries) + 1
    /\ grace \in BOOLEAN /\ run \in {"running", "completed", "silent"}
    /\ conns \subseteq Client
    /\ sending \in [Producer -> 0 .. recorded]
    /\ to \in [Producer -> Client \cup {None}]
    /\ todo \in [Producer -> SUBSET Client] /\ dead \in [Producer -> SUBSET Client]
    /\ shared \in [Producer -> BOOLEAN]
    /\ phase \in [Client -> {"away", "replaying", "listening", "gone"}]
    /\ alive \in [Client -> BOOLEAN]
    /\ pos \in [Client -> 0 .. Len(entries)] /\ upto \in [Client -> 0 .. Len(entries)]
    /\ got \in [Client -> SUBSET (1 .. recorded)]
    /\ since \in [Client -> 0 .. recorded + 1]

Init ==
    /\ recorded = 0 /\ entries = <<>> /\ first = 1
    /\ grace = FALSE /\ run = "running"
    /\ conns = {}
    /\ sending = [p \in Producer |-> 0]
    /\ to = [p \in Producer |-> None]
    /\ todo = [p \in Producer |-> {}] /\ dead = [p \in Producer |-> {}]
    /\ shared = [p \in Producer |-> FALSE]
    /\ phase = [c \in Client |-> "away"] /\ alive = [c \in Client |-> TRUE]
    /\ pos = [c \in Client |-> 0] /\ upto = [c \in Client |-> 0]
    /\ got = [c \in Client |-> {}] /\ since = [c \in Client |-> 0]

-----------------------------------------------------------------------------
(* The history                                                             *)

\* The history was not dropped, and its last entry is a run of deltas of b.
Folds(b) ==
    /\ b /= None
    /\ first <= Len(entries)
    /\ entries[Len(entries)].block = b

\* The event joins entry i.
Fold(i) ==
    /\ entries' = [entries EXCEPT ![i].ids = @ \cup {recorded + 1}]
    /\ UNCHANGED first

\* The event has an entry of its own, and the oldest may have to go.
NewEntry(b) ==
    /\ entries' = Append(entries, [block |-> b, ids |-> {recorded + 1}])
    /\ first' = IF Len(entries) + 2 - first > HistoryCap
                THEN Len(entries) + 2 - HistoryCap ELSE first

\* mutant: the entry of the block is looked up instead of taken from the end.
RecordByBlock(b) ==
    LET ofB == {i \in first .. Len(entries) : b /= None /\ entries[i].block = b}
    IN  /\ recorded' = recorded + 1
        /\ IF ofB /= {} THEN Fold(Max(ofB)) ELSE NewEntry(b)

\* _record: a delta of block b, or an event of another kind when b is None.
Record(b) ==
    /\ recorded' = recorded + 1
    /\ IF Folds(b) THEN Fold(Len(entries)) ELSE NewEntry(b)

\* The oldest event in the history, or else the next one.
Oldest ==
    IF first <= Len(entries) THEN Min(entries[first].ids) ELSE recorded + 1

-----------------------------------------------------------------------------
(* The list of connections.  connect appends to the list in place, so the  *)
(* loops over it go on to the newcomer; the others put a new list in its   *)
(* place, and loops under way keep the old one.                            *)

Register(c) ==
    /\ conns' = conns \cup {c}
    /\ todo' = [p \in Producer |-> IF shared[p] THEN todo[p] \cup {c} ELSE todo[p]]

\* mutant: the list of the run is deleted, whoever is left in it.
UnregisterRun(S) ==
    /\ conns' = {}
    /\ shared' = [p \in Producer |-> FALSE]

\* A new list without S takes the place of the list, if the run has one.
Unregister(S) ==
    /\ conns' = conns \ S
    /\ shared' = [p \in Producer |-> FALSE]

\* What reaches c when events ids are sent to it.
Reached(c, ids) ==
    [got EXCEPT ![c] = IF alive[c] THEN @ \cup ids ELSE @]

-----------------------------------------------------------------------------
(* Pushes                                                                  *)

\* push by p: record, then call send_json for the first client, if any.
Push(p, b) ==
    /\ sending[p] = 0
    /\ Record(b)
    /\ IF conns = {}
       THEN UNCHANGED <<fanout, got>>
       ELSE \E c \in conns :
                /\ sending' = [sending EXCEPT ![p] = recorded + 1]
                /\ to' = [to EXCEPT ![p] = c]
                /\ todo' = [todo EXCEPT ![p] = conns \ {c}]
                /\ shared' = [shared EXCEPT ![p] = TRUE]
                /\ dead' = [dead EXCEPT ![p] = {}]
                /\ got' = Reached(c, {recorded + 1})
    /\ UNCHANGED <<conns, replay, alive>>

\* An event of the run, pushed by one of its tasks.
PushEvent(p) ==
    /\ run = "running" /\ recorded < MaxEvents
    /\ \E b \in Block \cup {None} : Push(p, b)
    /\ UNCHANGED <<grace, run>>

\* Every task of the run has returned, and run_completed is pushed.
LastPush(p) ==
    /\ run = "running"
    /\ \A q \in Producer : sending[q] = 0
    /\ Push(p, None)
    /\ run' = "completed"

\* mutant: the drop is only scheduled when somebody watches.
PushCompletedUnwatched(p) == LastPush(p) /\ grace' = (conns /= {})

\* run_completed schedules the drop.
PushCompleted(p) == LastPush(p) /\ grace' = TRUE

\* A scheduled run, a run of the command line, or one whose last status could
\* not be written, ends without run_completed.
EndSilently ==
    /\ run = "running"
    /\ \A q \in Producer : sending[q] = 0
    /\ run' = "silent"
    /\ UNCHANGED <<log, grace, conns, fanout, replay, alive, got>>

\* The failed clients of p's loop when the awaited send ends: to a peer that is
\* gone it may return or raise.
Failed(p) ==
    IF alive[to[p]] THEN {dead[p]} ELSE {dead[p], dead[p] \cup {to[p]}}

\* The awaited send ends and the loop calls the next one.
SendNext(p) ==
    /\ sending[p] /= 0
    /\ \E c \in todo[p] :
           /\ to' = [to EXCEPT ![p] = c]
           /\ todo' = [todo EXCEPT ![p] = @ \ {c}]
           /\ got' = Reached(c, {sending[p]})
    /\ \E D \in Failed(p) : dead' = [dead EXCEPT ![p] = D]
    /\ UNCHANGED <<log, grace, run, conns, sending, shared, replay, alive>>

\* p's push returns, having pruned the dead connections.
Return(p) ==
    /\ \E D \in Failed(p) :
           IF D = {}
           THEN shared' = [shared EXCEPT ![p] = FALSE] /\ UNCHANGED conns
           ELSE Unregister(D)
    /\ sending' = [sending EXCEPT ![p] = 0]
    /\ to' = [to EXCEPT ![p] = None]
    /\ todo' = [todo EXCEPT ![p] = {}]
    /\ dead' = [dead EXCEPT ![p] = {}]
    /\ UNCHANGED <<log, grace, run, replay, alive, got>>

\* mutant: the first send that fails ends the loop.
FinishPushAtFailure(p) ==
    sending[p] /= 0 /\ (todo[p] = {} \/ ~alive[to[p]]) /\ Return(p)

\* The last send of p's loop ends.
FinishPush(p) == sending[p] /= 0 /\ todo[p] = {} /\ Return(p)

\* _drop_after_grace
DropAfterGrace ==
    /\ grace
    /\ grace' = FALSE
    /\ first' = Len(entries) + 1
    /\ UNCHANGED <<recorded, entries, run, conns, fanout, replay, alive, got>>

-----------------------------------------------------------------------------
(* Clients                                                                 *)

\* connect: register, copy the history up to last, call send_json for its first
\* entry.
Join(c, last) ==
    /\ phase[c] = "away"
    /\ Register(c)
    /\ since' = [since EXCEPT ![c] = Oldest]
    /\ IF first <= Len(entries)
       THEN /\ phase' = [phase EXCEPT ![c] = "replaying"]
            /\ pos' = [pos EXCEPT ![c] = first]
            /\ upto' = [upto EXCEPT ![c] = last]
            /\ got' = Reached(c, entries[first].ids)
       ELSE /\ phase' = [phase EXCEPT ![c] = "listening"]
            /\ UNCHANGED <<pos, upto, got>>
    /\ UNCHANGED <<log, grace, run, sending, to, shared, dead, alive>>

\* mutant: the replay ends one entry late.
ConnectPastEnd(c) == Join(c, Len(entries) + 1)

Connect(c) == Join(c, Len(entries))

\* The awaited send of a replay ends; a failed one ends the replay.
ReplayNext(c) ==
    /\ phase[c] = "replaying"
    /\ \/ /\ pos[c] < upto[c]
          /\ pos' = [pos EXCEPT ![c] = @ + 1]
          /\ got' = Reached(c, entries[pos[c] + 1].ids)
          /\ UNCHANGED <<phase, upto>>
       \/ /\ pos[c] = upto[c] \/ ~alive[c]
          /\ phase' = [phase EXCEPT ![c] = "listening"]
          /\ pos' = [pos EXCEPT ![c] = 0] /\ upto' = [upto EXCEPT ![c] = 0]
          /\ UNCHANGED got
    /\ UNCHANGED <<log, grace, run, conns, fanout, since, alive>>

\* The peer goes away; the handler learns of it from its next call.
PeerCloses(c) ==
    /\ c \in Attached /\ alive[c]
    /\ alive' = [alive EXCEPT ![c] = FALSE]
    /\ got' = [got EXCEPT ![c] = {}]
    /\ UNCHANGED <<log, grace, run, conns, fanout, replay>>

\* disconnect, when receive_text raises or the command line's run is over.
Disconnect(c) ==
    /\ phase[c] = "listening"
    /\ phase' = [phase EXCEPT ![c] = "gone"]
    /\ alive' = [alive EXCEPT ![c] = FALSE]
    /\ got' = [got EXCEPT ![c] = {}] /\ since' = [since EXCEPT ![c] = 0]
    /\ Unregister({c})
    /\ UNCHANGED <<log, grace, run, sending, to, todo, dead, pos, upto>>

-----------------------------------------------------------------------------
Next ==
    \/ \E p \in Producer :
           PushEvent(p) \/ PushCompleted(p) \/ SendNext(p) \/ FinishPush(p)
    \/ EndSilently
    \/ DropAfterGrace
    \/ \E c \in Client :
           Connect(c) \/ ReplayNext(c) \/ PeerCloses(c) \/ Disconnect(c)

Spec == Init /\ [][Next]_vars

\* The event loop wakes the drop task when its time is over.
FairSpec == Spec /\ WF_vars(DropAfterGrace)

-----------------------------------------------------------------------------
(* Properties                                                              *)

\* A client that is attached and whose peer is there has every event from the
\* oldest in the history at its connect to the newest, or is about to get it:
\* from an entry its replay has still to send or from a push whose loop has
\* still to reach it.  connect registers before it replays and copies the
\* history; pushes in flight, prunes and disconnects of others, evictions and
\* the drop may all fall between its sends.
Owed(c, n) ==
    \/ \E i \in pos[c] + 1 .. upto[c] : n \in entries[i].ids
    \/ \E p \in Producer : c \in todo[p] /\ n = sending[p]

NothingMissed ==
    \A c \in Attached : alive[c] =>
        \A n \in since[c] .. recorded : n \in got[c] \/ Owed(c, n)

\* Whoever is attached with its peer there is registered, and whoever is
\* registered is attached, although connect, disconnect and the prunes of
\* several pushes rebuild the list from what they find.
RegistryIsExact ==
    /\ \A c \in Attached : alive[c] => c \in conns
    /\ conns \subseteq Attached

\* What the history holds is the end of the stream, whole and in order: the
\* folded deltas of a block never jump over an event of another kind.
HistoryIsTail ==
    /\ \A i, j \in first .. Len(entries) : i < j =>
           \A m \in entries[i].ids, n \in entries[j].ids : m < n
    /\ UNION {entries[i].ids : i \in first .. Len(entries)}
           = (IF first <= Len(entries) THEN Oldest .. recorded ELSE {})
    /\ Len(entries) + 1 - first <= HistoryCap

\* After run_completed the history goes for good, whoever watches.
HistoryIsDropped == run = "completed" ~> [](first > Len(entries))
=============================================================================
