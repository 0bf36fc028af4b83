------------------------------ MODULE MCPClient ------------------------------
(***************************************************************************)
(* One MCP server behind MCPClient and MCPManager (app/mcp/client.py,      *)
(* manager.py): the calls in progress, the pending futures and the single  *)
(* reader that resolves them, retries, the timeouts of client and manager, *)
(* the death of the server process and the two ways to reconnect: the      *)
(* manager's before a call and the client's own before a request.          *)
(*                                                                         *)
(* An action runs from one await to the next.  connect() runs inside the   *)
(* call that found the process unhealthy; frames says who waits for it.    *)
(***************************************************************************)
EXTENDS Integers, SequencesExt

CONSTANTS
    Call,         \* the calls of MCPManager.call_tool
    MaxRetries,   \* max_retries of _send_request
    FailLimit,    \* failed reconnections after which the manager gives up
    Tolerance,    \* consecutive failures that make an external server unhealthy
    MaxBuffer,    \* _MAX_RESPONSE_BUFFER
    MaxProcs,     \* bound on the processes spawned
    MaxIds,       \* bound on the requests sent
    MaxFaults     \* bound on deaths, unreadable lines and failed spawns

ASSUME BoundsAssumption ==
    /\ MaxRetries \in Nat \ {0} /\ FailLimit \in Nat \ {0} /\ Tolerance \in Nat \ {0}
    /\ MaxBuffer \in Nat \ {0} /\ MaxProcs \in Nat \ {0} /\ MaxIds \in Nat
    /\ MaxFaults \in Nat

VARIABLES
    external,      \* the server's name marks it as external
    proc,          \* self.process, 0 if None
    spawned,       \* processes started so far
    life,          \* of each process: up, dead, and reaped once returncode is set
    connected,     \* is_connected
    lastId,        \* request_id
    pending,       \* the ids in _pending
    buffer,        \* _response_buffer: the answers nobody waited for, oldest first
    reader,        \* the process _reader_task reads from, 0 if none runs
    ghosts,        \* cancelled readers whose finally has not run
    inbox,         \* requests written and not answered
    outbox,        \* answers not read
    call,          \* the local state of each call
    failures,      \* _consecutive_failures
    attempted,     \* who has tried to reconnect: sets _last_reconnect_attempt, or the
                   \* manager's _reconnection_attempts
    managerFails,  \* its _reconnection_failures
    failed,        \* it is in _failed_servers
    faults

server  == <<life, inbox, outbox, faults>>
client  == <<proc, spawned, connected, lastId, pending, buffer, reader, ghosts>>
manager == <<managerFails, failed>>
vars    == <<external, server, client, call, manager, attempted, failures>>

Proc   == 1 .. MaxProcs
Id     == 1 .. MaxIds
Answer == {"ok", "empty", "denied", "fault"}
Frame  == [who : {"ensure", "tool", "init", "except"}, tries : 0 .. MaxRetries]
Step   == {"idle", "send", "write", "wait",           \* _send_request, send: in a sleep before it
           "spawn", "abandon",                        \* connect
           "close", "terminate", "closed", "done"}    \* disconnect
Mail   == [proc : Proc, id : Id, from : Call]

Up(n, top) == IF n < top THEN n + 1 ELSE n
At(c, p)   == call[c].pc = p
Linking(c) == call[c].frames # <<>>           \* inside connect(), or the manager's disconnect()
TypeOK ==
    /\ external \in BOOLEAN /\ connected \in BOOLEAN /\ failed \in BOOLEAN
    /\ attempted \subseteq {"client", "manager"}
    /\ proc \in 0 .. MaxProcs /\ reader \in 0 .. MaxProcs /\ spawned \in Proc
    /\ life \in [Proc -> {"none", "up", "dead", "reaped"}]
    /\ lastId \in 0 .. MaxIds /\ pending \subseteq Id /\ ghosts \subseteq Proc
    /\ Len(buffer) <= MaxBuffer /\ ToSet(buffer) \subseteq Mail
    /\ inbox \subseteq Mail /\ outbox \subseteq Mail
    /\ \A c \in Call :
         /\ call[c] \in [pc : Step, frames : Seq(Frame), id : 0 .. MaxIds, tries : 0 .. MaxRetries,
                         fut : {"undone", "eof", "expired"} \union Answer,
                         heard : Call \union {"none"}, unanswered : 0 .. MaxIds]
         /\ Linking(c) => call[c].frames[1].who \in {"ensure", "tool"}
    /\ failures \in 0 .. Tolerance
    /\ managerFails \in 0 .. FailLimit
    /\ faults \in 0 .. MaxFaults

Reaped     == proc # 0 /\ life[proc] = "reaped"

(* _is_process_healthy; it also clears is_connected when it sees the exit.  *)
Healthy    == proc # 0 /\ ~Reaped /\ (external => failures < Tolerance)
SeeHealth  == connected' = (connected /\ ~Reaped)

(* A connect() begins on behalf of who, and the retry count is put by.       *)
Nested(r, who) == [r EXCEPT !.frames = Append(@, [who |-> who, tries |-> r.tries]), !.tries = 0]
Returned(r)    == [r EXCEPT !.frames = Front(@), !.tries = Last(r.frames).tries]

(* A call returns the answer it heard, or an error; no local outlives it.    *)
Fresh    == [pc |-> "done", frames |-> <<>>, id |-> 0, tries |-> 0, fut |-> "eof",
             heard |-> "none", unanswered |-> 0]
Error(c) == [call EXCEPT ![c] = Fresh]

(* _record_call_result(False); the count is read for external servers only.  *)
Failure == failures' = IF external THEN Up(failures, Tolerance) ELSE failures

(* _fail_all_pending: every future still registered gets a ConnectionError. *)
Failed(r)  == IF r.pc \in {"write", "wait"} /\ r.fut = "undone" /\ r.id \in pending
              THEN [r EXCEPT !.fut = "eof"] ELSE r
FailAll    == [c \in Call |-> Failed(call[c])]

BufferedAll(m) == Append(buffer, m)   \* mutant

(* _buffer_response: at most MaxBuffer, the oldest goes first. *)
Buffered(m) ==
    LET all == Append(buffer, m)
    IN  IF Len(all) > MaxBuffer THEN Tail(all) ELSE all

-----------------------------------------------------------------------------
(* Connected once, with a reader on the first process. *)
Init ==
    /\ external \in BOOLEAN
    /\ proc = 1 /\ spawned = 1 /\ reader = 1
    /\ life = [p \in Proc |-> IF p = 1 THEN "up" ELSE "none"]
    /\ connected = TRUE
    /\ lastId = 0 /\ pending = {} /\ buffer = <<>> /\ ghosts = {}
    /\ inbox = {} /\ outbox = {}
    /\ call = [c \in Call |-> [Fresh EXCEPT !.pc = "idle"]]
    /\ failures = 0
    /\ attempted = {}
    /\ managerFails = 0 /\ failed = FALSE
    /\ faults = 0

-----------------------------------------------------------------------------
(* MCPManager.call_tool up to the call of the client: is_connected, then     *)
(* _ensure_client_healthy, whose 30 s window is looked at before the health. *)

GateClosed(c) ==
    /\ At(c, "idle")
    /\ ~connected \/ failed
    /\ call' = Error(c)
    /\ UNCHANGED <<external, server, client, manager, attempted, failures>>

(* The client is asked; an expired entry of _failed_servers is forgotten.    *)
Gate(c) ==
    /\ At(c, "idle") /\ connected
    /\ failed' = FALSE
    /\ managerFails' = IF failed THEN 0 ELSE managerFails
    /\ \/ /\ "manager" \in attempted
          /\ call' = Error(c)
          /\ UNCHANGED <<connected, attempted>>
       \/ /\ Healthy
          /\ call' = [call EXCEPT ![c].pc = "send"]
          /\ UNCHANGED <<connected, attempted>>
       \/ /\ ~Healthy
          /\ SeeHealth
          /\ attempted' = attempted \union {"manager"}
          /\ call' = [call EXCEPT ![c] = [Nested(@, "ensure") EXCEPT !.pc = "close"]]
    /\ UNCHANGED <<external, server, proc, spawned, lastId, pending, buffer, reader, ghosts,
                   failures>>

-----------------------------------------------------------------------------
(* _send_request, for tools/call and, inside connect(), for initialize. *)

Registered(r) == [r EXCEPT !.pc = "write", !.id = lastId + 1, !.fut = "undone"]

(* The id, the reader and the future, in one step with what precedes them.   *)
Register(c, r) ==
    /\ lastId < MaxIds
    /\ lastId' = lastId + 1
    /\ reader' = IF reader = 0 THEN proc ELSE reader
    /\ pending' = pending \union {lastId + 1}
    /\ call' = [call EXCEPT ![c] = Registered(r)]
    /\ UNCHANGED <<manager, failures>>

(* connect() has returned True: the manager goes on to the call, or          *)
(* _send_request to its request, without another look at the process.        *)
ConnectTrue(c, r) ==
    IF Last(r.frames).who = "ensure"
    THEN /\ call' = [call EXCEPT ![c] = [Returned(r) EXCEPT !.pc = "send"]]
         /\ managerFails' = 0
         /\ UNCHANGED <<failed, failures, lastId, pending, reader>>
    ELSE Register(c, Returned(r))

(* It has returned False.  The initialize of an outer connect() fails with   *)
(* it, on the same dead process, and so on to the manager or the tool call.  *)
ConnectFalse(c, calls) ==
    IF call[c].frames[1].who = "ensure"
    THEN /\ call' = [calls EXCEPT ![c] = Fresh]
         /\ managerFails' = Up(managerFails, FailLimit)
         /\ failed' = (failed \/ managerFails' = FailLimit)
         /\ UNCHANGED failures
    ELSE /\ call' = [calls EXCEPT ![c] = Fresh]
         /\ Failure
         /\ UNCHANGED manager

(* initialize has returned, and an error is as good as an answer: only the   *)
(* exit code of the process is looked at.                                    *)
Initialised(c, r) ==
    \/ /\ proc # 0 /\ ~Reaped
       /\ connected' = TRUE
       /\ ConnectTrue(c, r)
    \/ /\ proc = 0 \/ Reaped
       /\ connected' = FALSE
       /\ ConnectFalse(c, call)
       /\ UNCHANGED <<lastId, pending, reader>>

(* A request ends in an error that is not retried. *)
SendFails(c) ==
    IF Linking(c)
    THEN Initialised(c, call[c])
    ELSE /\ call' = Error(c)
         /\ Failure
         /\ UNCHANGED <<manager, connected, lastId, pending, reader>>

(* self.process is gone: the error leaves _send_request.  connect() takes it *)
(* for a failure; nothing takes it on the way up from a tool call.           *)
NoProcess(c) ==
    /\ IF Linking(c)
       THEN ConnectFalse(c, call) /\ connected' = FALSE
       ELSE /\ call' = Error(c)
            /\ UNCHANGED <<manager, connected, failures>>
    /\ UNCHANGED <<lastId, pending, reader>>

SendUnhealthy(c) ==
    IF Linking(c)
    THEN Initialised(c, call[c])
    ELSE /\ SeeHealth
         /\ call' = Error(c)
         /\ Failure
         /\ UNCHANGED <<manager, lastId, pending, reader>>

Send(c) ==
    /\ At(c, "send")
    /\ \/ proc = 0 /\ SendFails(c)
       \/ Healthy /\ Register(c, call[c]) /\ UNCHANGED connected
       \/ proc # 0 /\ ~Healthy /\ "client" \in attempted /\ SendUnhealthy(c)
    /\ UNCHANGED <<external, server, proc, spawned, buffer, ghosts, attempted>>

Reconnect(c) ==
    /\ At(c, "send")
    /\ proc # 0 /\ ~Healthy
    /\ attempted' = attempted \union {"client"}
    /\ SeeHealth
    /\ call' = [call EXCEPT ![c] =
                   [Nested(@, IF Linking(c) THEN "init" ELSE "tool") EXCEPT !.pc = "spawn"]]
    /\ UNCHANGED <<external, server, proc, spawned, lastId, pending, buffer, reader, ghosts,
                   manager, failures>>

(* An answer that is in the buffer before the request is read is taken.      *)
TakeBuffered(c) ==
    /\ pending' = pending \ {call[c].id}
    /\ LET m == CHOOSE m \in ToSet(buffer) : m.id = call[c].id
       IN  /\ buffer' = Remove(buffer, m)
           /\ call' = [call EXCEPT ![c].pc = "wait", ![c].fut = "ok", ![c].heard = m.from]
    /\ UNCHANGED inbox

(* The write and drain under _write_lock, to the process of that moment.     *)
Write(c) ==
    /\ At(c, "write") /\ proc # 0
    /\ IF \E m \in ToSet(buffer) : m.id = call[c].id
       THEN TakeBuffered(c)
       ELSE /\ inbox' = IF life[proc] # "up" THEN inbox
                        ELSE inbox \union {[proc |-> proc, id |-> call[c].id, from |-> c]}
            /\ call' = [call EXCEPT ![c].pc = "wait",
                          ![c].unanswered = IF Linking(c) \/ life[proc] # "up" THEN @ ELSE @ + 1]
            /\ UNCHANGED <<pending, buffer>>
    /\ UNCHANGED <<external, life, outbox, faults, proc, spawned, connected, lastId, reader, ghosts,
                   manager, attempted, failures>>

(* The pipe is closed; the entry in _pending stays. *)
WriteFails(c) ==
    /\ At(c, "write")
    /\ \/ proc = 0 /\ NoProcess(c)
       \/ proc # 0 /\ life[proc] # "up" /\ SendFails(c)
    /\ UNCHANGED <<external, server, proc, spawned, buffer, ghosts, attempted>>

TimeoutOfTools(c) ==   \* mutant
    /\ At(c, "wait") /\ call[c].fut = "undone" /\ ~Linking(c)
    /\ pending' = pending \ {call[c].id}
    /\ call' = [call EXCEPT ![c].fut = "expired"]
    /\ UNCHANGED <<external, server, proc, spawned, connected, lastId, buffer, reader, ghosts,
                   manager, attempted, failures>>

Timeout(c) ==
    /\ At(c, "wait") /\ call[c].fut = "undone"
    /\ pending' = pending \ {call[c].id}
    /\ call' = [call EXCEPT ![c].fut = "expired"]
    /\ UNCHANGED <<external, server, proc, spawned, connected, lastId, buffer, reader, ghosts,
                   manager, attempted, failures>>

Again(c) == call' = [call EXCEPT ![c].pc = "send", ![c].tries = @ + 1,
                                 ![c].unanswered = IF Linking(c) \/ call[c].fut # "fault"
                                                   THEN @ ELSE @ - 1]

RetryTimeouts(c) ==   \* mutant
    /\ At(c, "wait")
    /\ call[c].fut \in {"expired", "fault"} /\ call[c].tries < MaxRetries /\ Again(c)
    /\ UNCHANGED <<external, server, client, manager, attempted, failures>>

(* Retries: once after a timeout of an external server, up to MaxRetries     *)
(* after an error that is neither a policy block nor a timeout of the tool;  *)
(* the one with other arguments, which the code does not count, is among them. *)
Retry(c) ==
    /\ At(c, "wait")
    /\ \/ call[c].fut = "expired" /\ external /\ call[c].tries = 0 /\ Again(c)
       \/ call[c].fut = "fault" /\ call[c].tries < MaxRetries /\ Again(c)
    /\ UNCHANGED <<external, server, client, manager, attempted, failures>>

Final(c) ==
    \/ call[c].fut \in {"eof", "denied"}
    \/ call[c].fut = "expired" /\ ~(external /\ call[c].tries = 0)
    \/ call[c].fut = "fault" /\ call[c].tries = MaxRetries

GiveUp(c) ==
    /\ At(c, "wait")
    /\ \/ Final(c) /\ SendFails(c)
       \/ Linking(c) /\ call[c].fut = "ok" /\ Initialised(c, call[c])
    /\ UNCHANGED <<external, server, proc, spawned, buffer, ghosts, attempted>>

Answered(c) ==
    /\ At(c, "wait") /\ ~Linking(c)
    /\ \/ /\ call[c].fut = "ok"
          /\ call' = [call EXCEPT ![c] = [Fresh EXCEPT !.fut = "ok", !.heard = call[c].heard]]
          /\ failures' = 0
       \/ /\ call[c].fut = "empty"
          /\ call' = Error(c)
          /\ Failure
    /\ UNCHANGED <<external, server, client, manager, attempted>>

-----------------------------------------------------------------------------
Killed(p) ==
    /\ life' = [life EXCEPT ![p] = IF @ = "up" THEN "dead" ELSE @]
    /\ inbox' = {m \in inbox : m.proc # p}

(* connect(): a process, and after the sleep an initialize request. *)

SpawnRenumbers(c) ==   \* mutant
    /\ At(c, "spawn")
    /\ spawned < MaxProcs
    /\ spawned' = spawned + 1
    /\ proc' = spawned'
    /\ life' = [life EXCEPT ![proc'] = "up"]
    /\ ghosts' = ghosts \union ({reader} \ {0})
    /\ reader' = 0
    /\ pending' = {}
    /\ lastId' = 0
    /\ call' = [FailAll EXCEPT ![c].pc = "send"]
    /\ UNCHANGED <<external, inbox, outbox, faults, connected, buffer, manager, attempted, failures>>

Spawn(c) ==
    /\ At(c, "spawn")
    /\ spawned < MaxProcs
    /\ spawned' = spawned + 1
    /\ proc' = spawned'
    /\ life' = [life EXCEPT ![proc'] = "up"]
    /\ ghosts' = ghosts \union ({reader} \ {0})
    /\ reader' = 0
    /\ pending' = {}
    /\ call' = [FailAll EXCEPT ![c].pc = "send"]
    /\ UNCHANGED <<external, inbox, outbox, faults, connected, lastId, buffer, manager, attempted,
                   failures>>

(* The executable is missing, or the start fails in another way, after which *)
(* connect() disconnects from whatever process there is.                     *)
SpawnFails(c) ==
    /\ At(c, "spawn")
    /\ \/ /\ Last(call[c].frames).who = "init" /\ proc # 0 /\ ~Reaped
          /\ Initialised(c, Returned(call[c]))
       \/ /\ Last(call[c].frames).who # "init" \/ proc = 0 \/ Reaped
          /\ ConnectFalse(c, call)
          /\ connected' = FALSE
          /\ UNCHANGED <<lastId, pending, reader>>
       \/ /\ connected' = FALSE
          /\ call' = [call EXCEPT ![c] = [Nested(@, "except") EXCEPT !.pc = "close"]]
          /\ UNCHANGED <<manager, failures, lastId, pending, reader>>
    /\ UNCHANGED <<external, server, proc, spawned, buffer, ghosts, attempted>>

(* A null answer to initialize: the process is terminated and forgotten.     *)
Abandon(c) ==
    /\ At(c, "wait") /\ Linking(c) /\ call[c].fut = "empty" /\ proc # 0
    /\ call' = [call EXCEPT ![c].pc = "abandon"]
    /\ Killed(proc)
    /\ UNCHANGED <<external, outbox, faults, client, manager, attempted, failures>>

Abandoned(c) ==
    /\ \/ At(c, "abandon")
       \/ At(c, "wait") /\ Linking(c) /\ call[c].fut = "empty" /\ proc = 0
    /\ proc' = 0
    /\ connected' = FALSE
    /\ ConnectFalse(c, call)
    /\ UNCHANGED <<external, server, spawned, lastId, pending, buffer, reader, ghosts, attempted>>

-----------------------------------------------------------------------------
(* disconnect(): the reader is cancelled and awaited, then the process. *)

AfterClose(c, calls) ==
    IF Last(call[c].frames).who = "except"
    THEN ConnectFalse(c, calls)
    ELSE call' = [calls EXCEPT ![c].pc = "spawn"] /\ UNCHANGED <<manager, failures>>

Close(c) ==
    /\ At(c, "close")
    /\ \/ /\ proc = 0
          /\ AfterClose(c, call)
          /\ UNCHANGED <<pending, reader>>
       \/ /\ proc # 0
          /\ reader' = 0
          /\ IF reader = 0 THEN call' = [call EXCEPT ![c].pc = "terminate"] /\ UNCHANGED pending
             ELSE call' = [FailAll EXCEPT ![c].pc = "terminate"] /\ pending' = {}
          /\ UNCHANGED <<manager, failures>>
    /\ UNCHANGED <<external, server, proc, spawned, connected, lastId, buffer, ghosts, attempted>>

Terminate(c) ==
    /\ At(c, "terminate") /\ proc # 0
    /\ Killed(proc)
    /\ call' = [call EXCEPT ![c].pc = "closed"]
    /\ UNCHANGED <<external, outbox, faults, client, manager, attempted, failures>>

ForgetProcess == pending' = {} /\ proc' = 0 /\ UNCHANGED connected   \* mutant

Forget == pending' = {} /\ proc' = 0 /\ connected' = FALSE

(* The finally, on whatever self.process is by now. *)
Closed(c) ==
    /\ At(c, "closed")
    /\ Forget
    /\ AfterClose(c, FailAll)
    /\ UNCHANGED <<external, server, spawned, lastId, buffer, reader, ghosts, attempted>>

TerminateRaises(c) ==
    /\ At(c, "terminate") /\ proc = 0
    /\ Forget
    /\ call' = [FailAll EXCEPT ![c] = Fresh]
    /\ UNCHANGED <<external, server, spawned, lastId, buffer, reader, ghosts, manager, attempted,
                   failures>>

-----------------------------------------------------------------------------
(* _call_tool_with_timeout gives up on the call, wherever it waits. *)
InCallTool(c) == IF Linking(c) THEN call[c].frames[1].who = "tool" ELSE TRUE

Cancel(c) ==
    /\ InCallTool(c)
    /\ \/ /\ call[c].pc \in {"send", "write", "spawn"}
          /\ call' = Error(c)
          /\ UNCHANGED <<pending, proc, connected>>
       \/ /\ At(c, "wait")
          /\ pending' = pending \ {call[c].id}
          /\ call' = Error(c)
          /\ UNCHANGED <<proc, connected>>
       \/ /\ At(c, "abandon")
          /\ proc' = 0 /\ connected' = FALSE
          /\ call' = Error(c)
          /\ UNCHANGED pending
       \/ /\ At(c, "closed")
          /\ Forget
          /\ call' = [FailAll EXCEPT ![c] = Fresh]
    /\ UNCHANGED <<external, server, spawned, lastId, buffer, reader, ghosts, manager, attempted,
                   failures>>

-----------------------------------------------------------------------------
(* _reader_loop *)

Deliver(m, answer) == [c \in Call |->
    IF call[c].id = m.id /\ call[c].pc \in {"write", "wait"} /\ call[c].fut = "undone"
    THEN [call[c] EXCEPT !.fut = answer, !.heard = m.from] ELSE call[c]]

Read ==
    \E m \in outbox :
      /\ m.proc = reader
      /\ outbox' = outbox \ {m}
      /\ IF m.id \in pending
         THEN /\ pending' = pending \ {m.id}
              /\ \E answer \in Answer : call' = Deliver(m, answer)
              /\ UNCHANGED buffer
         ELSE buffer' = Buffered(m) /\ UNCHANGED <<pending, call>>
      /\ UNCHANGED <<external, life, inbox, faults, proc, spawned, connected, lastId, reader,
                     ghosts, manager, attempted, failures>>

ReaderEndsQuietly ==   \* mutant
    /\ reader' = 0
    /\ UNCHANGED <<external, life, inbox, call, pending, proc, spawned, connected, lastId, buffer,
                   ghosts, manager, attempted, failures>>

ReaderEnds ==
    /\ reader' = 0
    /\ call' = FailAll
    /\ pending' = {}
    /\ UNCHANGED <<external, life, inbox, proc, spawned, connected, lastId, buffer, ghosts,
                   manager, attempted, failures>>

ReadEOF ==
    /\ reader # 0 /\ life[reader] # "up"
    /\ \A m \in outbox : m.proc # reader
    /\ ReaderEnds
    /\ UNCHANGED <<outbox, faults>>

(* A line over the limit of the stream ends the reader, and is lost. *)
ReadBreaks ==
    /\ faults < MaxFaults /\ faults' = faults + 1
    /\ \E m \in outbox : m.proc = reader /\ outbox' = outbox \ {m}
    /\ ReaderEnds

(* The finally of a reader that connect() cancelled and did not wait for.    *)
GhostEnds ==
    \E g \in ghosts :
      /\ ghosts' = ghosts \ {g}
      /\ call' = FailAll
      /\ pending' = {}
      /\ UNCHANGED <<external, server, proc, spawned, connected, lastId, buffer, reader, manager,
                     attempted, failures>>

-----------------------------------------------------------------------------
(* The server process and the clock. *)

Serve ==
    /\ \E m \in inbox :
         /\ life[m.proc] = "up"
         /\ inbox' = inbox \ {m}
         /\ outbox' = outbox \union {m}
    /\ UNCHANGED <<external, life, faults, client, call, manager, attempted, failures>>

Die(p) ==
    /\ life[p] = "up"
    /\ faults < MaxFaults /\ faults' = faults + 1
    /\ life' = [life EXCEPT ![p] = "dead"]
    /\ inbox' = {m \in inbox : m.proc # p}
    /\ UNCHANGED <<external, outbox, client, call, manager, attempted, failures>>

Reap(p) ==
    /\ life[p] = "dead"
    /\ life' = [life EXCEPT ![p] = "reaped"]
    /\ UNCHANGED <<external, inbox, outbox, faults, client, call, manager, attempted, failures>>

Finished == ((\A c \in Call : At(c, "done")) \/ lastId = MaxIds) /\ UNCHANGED vars

Requests(c) == Send(c) \/ Reconnect(c) \/ Write(c) \/ WriteFails(c) \/ Retry(c) \/ GiveUp(c) \/ Answered(c)
Connects(c) == Spawn(c) \/ SpawnFails(c) \/ Abandon(c) \/ Abandoned(c)
Closes(c)   == Close(c) \/ Terminate(c) \/ Closed(c) \/ TerminateRaises(c)
Progress(c) == Requests(c) \/ Connects(c) \/ Closes(c)

Next ==
    \/ \E c \in Call : GateClosed(c) \/ Gate(c) \/ Timeout(c) \/ Cancel(c) \/ Progress(c)
    \/ Read \/ ReadEOF \/ ReadBreaks \/ GhostEnds
    \/ Serve \/ (\E p \in Proc : Die(p) \/ Reap(p))
    \/ Finished

Spec == Init /\ [][Next]_vars

(* The event loop runs what is ready and every wait_for ends; the reader and *)
(* the server owe nothing.                                                   *)
Fairness == \A c \in Call : WF_vars(Progress(c) \/ Timeout(c))

FairSpec == Spec /\ Fairness

-----------------------------------------------------------------------------
(* A call returns the answer to a request it sent itself, whatever timed     *)
(* out, came late or was left over from an earlier connection: ids are never *)
(* used again, the buffer of stray answers notwithstanding.  The server is   *)
(* taken to send answers only, no requests with ids of its own.              *)
OwnAnswer == \A c \in Call : call[c].fut \in Answer => call[c].heard = c

Waits(c) == At(c, "wait") /\ call[c].fut = "undone"
(* A call that waits is in _pending, a reader runs, and it reads from the    *)
(* process the request went to: no reconnection, disconnection, end of file  *)
(* or unreadable line leaves a call waiting for its timeout.                 *)
WaiterIsServed ==
    \A c \in Call : Waits(c) =>
      /\ call[c].id \in pending /\ reader # 0
      /\ \A m \in inbox \union outbox : m.id = call[c].id => m.proc = reader

(* A tool call reaches the server again only after the server has answered   *)
(* with an error, or once after a timeout of an external server: neither a   *)
(* reconnection nor the manager's timeout repeats what may be running.  It   *)
(* is about calls to a named server, not the branch that tries all servers.  *)
SentAgainOnlyOnError ==
    \A c \in Call : call[c].unanswered <= IF external THEN 2 ELSE 1

(* is_connected implies a process, whichever of disconnect(), a failed       *)
(* connect() and a successful one ends last.                                 *)
ConnectedHasProcess == connected => proc # 0

(* Calls in progress return, by the timeouts of the client alone: through    *)
(* retries, the death of the server and reconnections (up to the MaxIds).    *)
EveryCallReturns ==
    []<>(lastId = MaxIds \/ \A c \in Call : call[c].pc \in {"idle", "done"})
=============================================================================
