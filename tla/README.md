# Ziya: TLA+ models, checks and proofs

TLA+ modules for the parts of the Ziya server whose correctness depends on the
order of events: the orchestration of a plan of delegates, with its recovery
from failures and restarts; the scheduler that several servers share; the relay
that streams a task run to its watchers; the client of an MCP server; the loop
of model and tool calls of one turn; and the stages that apply a diff.
`PROJECT.json` maps every definition to its source lines and lists the runs,
mutants, findings, hazards and theorems. Paths below are relative to `src/`.

## 1. Inventory

| component | state | operations | hard behaviours | what makes it correct |
|---|---|---|---|---|
| Delegate manager (`app/agents/delegate_manager.py`, `app/api/delegates.py`) | plans, statuses, crystals, registry `_running`, `_tasks`, rescue marks; group file and chat files | launch, start, stream ends, rescue, cascade, retry, promote, cancel, stall, requested delegates, eviction, rehydrate | HTTP calls between any two awaits, tasks that outlive cancel or cleanup, restarts, crashes between two file writes | one stream per delegate, a start only with the upstream crystals, nothing left waiting, disk recalls memory, a plan's record only takes legal steps, every delegate settles |
| Sub-plans (same file) | `pending_subplan_ids`, parent links | launch_subplan, completion, roll-up | nested completion, cleanup before roll-up, sets turned to lists by JSON | a parent completes when, and only when, its sub-plans have |
| Swarm tools, shared task list (`swarm_tools.py`, `swarm_scratch.py`) | claimable tasks, notes | add, claim, complete, note, request a delegate | claims by several delegates | a task is claimed by one delegate |
| Task scheduler, system jobs (`task_scheduler.py`, `system_jobs.py`) | lock file, handle, `schedule_state.json`, `system_jobs.json` | acquire, heartbeat, fire pass, fire, system jobs, release | several processes on files without atomic updates, long jobs, crashes | due cards fire, limits hold, a lost lock is noticed |
| Task execution (`task_executor.py`, `block_executor.py`) | run record, block states, cancel flag, live-run set | run a block tree, cancel, reconcile at startup | parallel blocks, cancel polling, runs of another server | a terminal run stays so, parallel results are all kept |
| Task run relay (`task_run_stream_relay.py`), delegate relay | connections, bounded history, drop timers | connect with replay, push, disconnect, run completed, drop after grace | sends outside the lock, prunes against connects, eviction, late connectors | a watcher misses nothing from the oldest event in the history at its connect, the registry holds who is there, the history is the end of the stream and is dropped |
| MCP client and manager (`mcp/client.py`, `mcp/manager.py`) | process, reader, pending futures by id, stray buffer, reconnect windows | call, write, read, time out, retry, reconnect, disconnect | late answers, reader death, reconnects against calls, retry of an executed call | an answer goes to its caller, each waiter has a reader, nothing possibly executed is sent again silently, every call returns |
| Streaming tool executor (`streaming_tool_executor.py`, `tool_execution.py`) | conversation, deferred results and feedback, counters of each way to go on, feedback queue | request, stream a reply, run or reject a tool, drain feedback, retry, go on, end | feedback at any await, cut-off replies, failed iterations, models that never stop | each use has one result, feedback arrives once and in order, no native tool call runs over a correction, the turn ends |
| Diff pipeline (`utils/diff_utils/`) | file, hunk statuses, `changes_written` and the flags of the answer | patch, git apply, difflib, rollback, validation, answer | stages that apply part, claim what others did, or are rolled back | every hunk is accounted for, the flags say what happened to the file |
| Storage (`app/storage/`) | JSON files | read, write, list | read-modify-write by several processes | no update is lost |
| File state (`file_state_manager.py`) | snapshots per conversation, limit 20, one hour | initialise, refresh, diff, evict | eviction, watcher callbacks | changes are reported once |
| Memory, providers, permissions, frontend | text and external services | | | not modelled, section 7 |

Interactions: the routes and the stream tasks call the delegate manager on one
event loop; the manager persists through the chat and group storage; tools in a
delegate's stream call back into it. Each stream, of a chat or a delegate, is
one turn of the tool executor, which calls MCP servers through the manager's
clients. The scheduler loop of each server process reads the cards, creates
runs through the run storage and awaits the system jobs. The executor of a run
pushes its events through the relay, and awaits the sends. A diff of a reply is
applied on request, in a pool thread. The server starts the scheduler, the
sweeper and the rehydration of plans.

## 2. Modules

| module | models |
|---|---|
| `PlanRecord` | abstract: what the group file and the source conversation may show of a plan |
| `DelegateManager` | one plan in detail: memory, tasks, files, requests, faults, restarts |
| `MCDelegateManager` | the plan graphs of the runs |
| `DelegateClaims` | sentences of docstrings and tests that the code does not keep |
| `DelegateManagerProofs` | inductive invariant of memory and its consequences |
| `DelegateRecoveryProofs` | inductive invariants of files and memory, with deaths at two points inside handlers and without |
| `PlanRecordProofs` | DelegateManager implements PlanRecord |
| `TaskScheduler` | the scheduler loops of several servers over one home |
| `MCTaskScheduler` | symmetry of the servers |
| `TaskSchedulerClaims` | sentences about the scheduler that the code does not keep |
| `TaskSchedulerProofs` | its safety properties for every set of servers and cards |
| `TaskRunRelay` | the stream of one task run to several clients |
| `TaskRunRelayProofs` | its safety properties for every number of tasks and clients and every cap |
| `MCPClient` | concurrent calls to one stdio server through client and manager |
| `MCPClientProofs` | whose answer a call gets, who serves it and what is sent again, for every set of calls |
| `ToolLoop` | one turn of the streaming tool executor |
| `ToolLoopProofs` | its safety properties for every value of its limits |
| `DiffPipeline` | one run of the diff pipeline over the hunks of a diff |
| `DiffPipelineClaims` | a sentence of the architecture overview that the code does not keep |
| `DiffPipelineProofs` | what the pipeline reports and hands on, for every number of hunks |

No module composes `TaskRunRelay`, `MCPClient`, `ToolLoop` and `DiffPipeline` with
the others: what they exchange (a call, a
turn, an event, a diff) is a choice of the environment in each. Only
`PlanRecord` is refined.

### DelegateManager

An action is what the event loop runs without suspending. The code awaits in many
places; the semaphore, the stream and the final synthesis are where the model lets
others in. Most other awaits are of coroutines that never suspend; the pushes to
watchers may, in the send to a client, and are taken as immediate (section 7).
`task[d]` says on which of these the coroutine of delegate `d` is: `queued`
(semaphore), `streaming`, `finalizing` (synthesis in `_run_delegate`) or
`promoting` (synthesis in the promote request). `running` is `_running`,
`registered` says whose live task is the one in `_tasks`; the difference matters
for rescues, which are not entered there. `diskStatus` and `diskPlan` are the chat
and group files; a handler's writes are part of its action, and the `midcrash`
actions cut two handlers: `on_crystal_ready` with the chat of the crystal written
and the plan not, and `launch_plan` with the chats of the first `n` delegates
created. `_resolve_and_start` is one ordered pass over the specs, given as the set
`F` it fails, the only solution of `IsCascade`. Crystal texts, prompts, token
budgets and progress are left out; a crystal is present or not.

Faults are chosen by the constant `Faults`: an exception before the `try` of
`_run_delegate`, one from the write of a crystal, one from the synthesis, and a
death of the process at one of these two points.

### PlanRecord

The plan's status in the group file, whether a summary is being made and
whether the completion was announced. Refinement: `record <- diskPlan`,
`closing <-` some task is in the synthesis. The promise is that a completed
plan is never resumed or reopened, a cancelled one never written back and an
announcement only comes out of the summary of a settled plan.

### TaskScheduler

Servers are processes, so here an action is one access to a file; `pc[s]` is the
next one of server `s`. `write()` is `Truncate` then `Stamp`, since
`Path.write_text` empties the file first; `_acquire_lock` is `TryAcquire`,
the write, and `Confirm`. A fire is `Create` (the run), `Record` (read of the
state file) and `Put` (write by rename). Time is relative: ages, remaining
sleeps, remaining time to each slot; `Tick` is 15 seconds. Only sleeps and system
jobs last; the other steps of a pass end within the tick, which leaves out a
process suspended in the middle of a pass. `clean` is a history variable: it
becomes FALSE when two servers' updates of the state file overlap or one is
lost, cut (a crash between the run and its record is such a cut) or based on an
unreadable file. `Updating` are the points from the read of that file to its
write; "put" is also where a slot is only set or put off. `runs` counts the runs where they are
created. One project is modelled; enumerating cards of several only repeats the
pass. A card's definition does not change.

### TaskRunRelay

`_lock` is never held over a suspension, so its sections are atomic; only
`send_json` suspends. Events are numbered when they are recorded. `entries` is
every history entry there ever was, `history` the ones from `first` on; an entry
is a set of events, since deltas of one block fold into the last entry. The
entries of a replay under way are the same objects, so a fold shows in it, as in
the code. A push under way is the set of clients its copy of the list still has
to serve, sent to in any order, which is more general than the list's. `got` and
`since` record what each client was sent and what it was entitled to at its
connect. `EndSilently` is the end of a run that nobody announces: a scheduled or
command-line run, or one whose last write fails.

### MCPClient

Each call has its local state in `call[c]`, with `frames` for the `connect()` it is
inside; an action is what runs between two awaits. `reader` is the process the
reader task reads from, `ghosts` the cancelled readers that have yet to run their
`finally`. The server answers in any
order, late, never, or dies. A timeout is a step a waiting call may take at any
time. The 30 second windows of the manager are the set `attempted`, entered or
left by choice where the code compares times. Failure counts and retries are
capped by `FailLimit` and `MaxRetries` instead of 5 and 2 (a smart retry is
counted among them), the stray buffer by `MaxBuffer`.

### ToolLoop

The conversation is kept as the messages since the last request behind the one
before them; earlier ones only count in `sent` and `told`. Replies are chosen
piece by piece: text, a fence, a complete or cut-off tool use, an end. The actions
after the reply are the branches that go on or stop, in the order of the code,
each with what it appends. `interrupted` stands for the interrupts in the queue
beside the texts in `pending`. `FakeTool` is a call the model wrote as text, which
the loop runs while it streams; all others are native calls. `Fresh` is the reset
of an iteration's locals. The WebSocket queue and its monitor task are one queue,
followed to the end of the turn; a cancel is a choice at each point that looks at
it. The message format is that of the Anthropic provider.

### DiffPipeline

The file is the set of hunks it holds, and `tracker` the status of each hunk. What
a matcher finds is a choice; that `is_hunk_already_applied` and the malformed
state checks find what is there is assumed. An action is a stage or one of its
decisions: header correction, patch dry run and patch, git apply, the
already-applied search, difflib with its hybrid and full-file modes, validation
with rollback, the answer. Numbers of the hunks matter: after the first stages
the code renumbers what is left, and the model does the same.

## 3. Runs

| run | asks | bounds |
|---|---|---|
| `delegate_recovery` | what restarts and repairs preserve, and the refinement | 3 delegates in chains, forks, joins, reversed order, or 2 and one requested; 2 slots; 2 repairs; 2 restarts losing any crystals |
| `delegate_faults` | what survives exceptions and crashes at two points inside handlers | 3 delegates, 2 repairs, 1 restart, all faults |
| `delegate_progress` | every delegate settles | 3 delegates, 1 slot, 2 repairs |
| `scheduler_safety` | what lock and state file guarantee | 2 servers, a one-shot and a capped card (2 runs), slots 1 or 2 ticks away, 3 starts, 1 fault |
| `scheduler_progress` | holders resolve, cards keep firing | 2 servers, a recurring card with catch-up and one without, 2 starts, 1 fault |
| `mcp_client` | whose answer, who waits, what is sent again, that calls return | 2 calls, 1 retry, 1 failure tolerated, 1 stray answer, 2 processes, 3 ids, 1 fault |
| `tool_loop` | pairing of uses and results, order of feedback, ways to go on | 3 iterations, 1 retry, caps of 1 on each way to go on, 2 tools and 2 feedbacks |
| `diff_pipeline` | what the answer says of the hunks and the file | 4 hunks |
| `task_run_relay` | delivery, registry, history and its drop | 2 tasks, 2 clients, 1 block, a history of 2, 4 events and the last one |
| `claim_*` | one sentence each, refuted | the smallest instance that shows it |

Three delegates give every shape in which a pass over the specs can matter
(transitive failure, two parents, a dependent listed first); two restarts let
one interrupt the recovery from another; two repairs let a retry race a promote.
Two servers and three starts give takeover, return of the first and a third
generation over an old lock. The scheduler's intervals are scaled (heartbeat 1,
stale 2 ticks instead of 2 and 6): only their order matters, which
`ScheduleAssumption` states. In `mcp_client` three ids give each call an id of its
own and one a second, and two processes one reconnect against the other call.
Three iterations let each way to go on follow another and be refused the third
time. Four hunks are the fewest for which the shrinking list of pending hunks and
the hunks' own numbers differ in the middle. Five events over a history of two
give eviction during a replay, and a fold beside it. `CHECK_DEADLOCK FALSE` in
the delegate and relay runs: a plan that is finished with the requests used up
and a run that ended with its clients gone really stop. A turn that ended, a
diff that was answered and calls that returned have a stuttering step of their
own; the scheduler never stops. Every property has a mutant in `PROJECT.json`, an operator marked
`mutant` beside the one it replaces.

Properties worth an explanation:

- `TaskMatchesStatus`: `_start_delegate` overwrites `_tasks` without a look at
  what is there. That no delegate streams twice rests on statuses alone.
- `NothingStartableWaits`: nothing polls for delegates that became startable, so
  each handler that satisfies a dependency must resolve in the same step.
- `DiskRecallsMemory`: a restart knows the chats only.
- `PassOnFreshLock`: after a pass or a system job of any length the holder
  passes again only on a lock that is still its own and too young to be taken.
- `RunsAreCounted`, `RunsWithinLimit`, `OneShotRunsOnce`: relative to `clean`,
  since the state file has no protection beyond the lock and the lock is not
  exclusive (section 5). They say nothing of a crash between a run and its
  record, after which the slot runs again and past the limit.
- `KeepsFiring`: under the premise that overlaps stop. Without it TLC shows two
  servers that meet in the emptied lock file at each heartbeat and undo each
  other's schedule for ever.

- `NothingMissed`: a client is in the registry before its replay, and the replay
  is sent outside the lock, so gaps must be excluded by the order of record, fold
  and send together.
- `RegistryIsExact`: prunes replace the list that other pushes iterate over.
- `WaiterIsServed`: a call may register its future after the reader that would
  have served it was replaced or has failed the others.
- `SentAgainOnlyOnError`: a retry is only taken where the call has failed, or
  timed out, by the caller's knowledge; it does not say that the server executes
  a call once, which the code does not guarantee.
- `ResultsFollowUses`: the request would be refused by the provider otherwise.
- `NoNativeCallOverFeedback`: feedback is deferred at one tool and must stop the
  next, and feedback that comes in later must be seen before a tool starts. It is
  about native calls only; for a call written as text it does not hold
  (section 5).
- `GuardIsIdle`: the guard for models without prefill never ends a turn, because
  each way to go on leaves a user message last.
- `AlreadyAppliedIsNoOp`, `ReversibleIsExact`: a hunk reported as a no-op was in
  the file at the start; an undo is offered only if it restores that file.

## 4. Fairness

`DelegateManager`: weak fairness of each delegate's own steps and spawn task. The
event loop runs every ready task, and a stream or synthesis ends because the
model calls time out. A slot is taken under weak fairness: with one slot and
finitely many delegates the semaphore is FIFO in the code, more than is assumed.
`TaskScheduler`: weak fairness of each loop's steps, of the end of a system job
and of time. `MCPClient`: weak fairness of each call's own progress and timeouts,
none of the reader or the server: a call returns even if nothing is ever read.
`ToolLoop`: weak fairness of the loop; the provider's stream and each tool end by
their own timeouts. `TaskRunRelay`: weak fairness of the timer only, none of the
clients, so a send may hang for ever. Requests, faults, starts, shutdowns, the sweeper and restarts are
never owed.

## 5. Findings

Refuted by a run, with the sentence quoted in `PROJECT.json`:

- `FinishedPlanIsDeclared`: when the last delegate to settle fails, the plan stays
  "running"; only `on_crystal_ready` looks for completion.
- `OneServerFires`: `_acquire_lock` writes and reads back, which lets two servers
  both win; in the trace both then find the same slot due and each creates a run
  of the card. Only the point after the creation counts as a fire here, neither
  the setting of a slot nor a system job. A system job longer than 90 s also lets
  the lock go stale under a live holder, and `system_jobs.json` is written only
  after the job, so the peer starts the same job.
- `SuccessIsInTheFile`: in a subdirectory of a repository `git apply` may skip
  the patch and exit with 0, and the pipeline answers "success" for hunks that
  are not in the file.

Met while modelling, without a run. Plans and scheduler:

- a retry during the final synthesis is cleaned up with its task streaming;
- a cancel does not reach the task of a rescue, which is not in `_tasks`;
- with `schedule_catch_up` off a recurring card runs once (`task_scheduler.py:393`;
  proved, section 6);
- a requested delegate that a handler starts before its chat is there is lost by
  a restart; the plan around it is then delivered and never declared, and so is
  one whose degraded crystal loads again at a second restart;
- a promote of a delegate does not unblock dependents that the cascade already
  failed; a retry resets direct dependents only (`delegate_manager.py:685`);
- the sweeper takes `completed_partial` plans with live tasks, since the last
  access time it compares with is never written;
- an exception in the synthesis rescues or fails a delegate that delivered;
- a completed plan whose server dies during the synthesis is never announced,
  since a restart skips completed plans; a death between a chat and the plan
  leaves a partial plan in which nothing is retryable;
- a degraded crystal is not terminal, so its plan never completes;
- a `daily_at` such as "25:00" raises in `compute_next_fire` and ends every pass
  there: later cards and system jobs starve;
- the start of a second server on the same home marks the first one's live runs
  failed (`storage/task_runs.py`, `reconcile_stale_runs`);
- the roll-up of a sub-plan runs after `cleanup_plan` has removed it and
  returns early, so the parent keeps it pending.

MCP client:

- `if init_result:` takes the error of a failed initialisation for success
  (`mcp/client.py:409`);
- `_ensure_client_healthy` looks at the 30 s window before it looks at health, so
  after a successful reconnection a healthy client refuses calls for 30 s
  (`mcp/manager.py:664`); once `is_connected` is false calls are refused before
  it, so a server that dies twice within 30 s stays lost until a restart;
- two reconnections at once, or one of an external server with too many
  failures, leave the old process running; a cancelled reader's `finally` can
  fail the futures of the new connection;
- a failed write leaves its entry in `_pending`;
- the client announces `roots` and `sampling` (`mcp/client.py:398`), so a server may
  send requests with ids of its own, and the reader takes any message with an id
  for an answer (line 826): a request under the id of a pending call would
  resolve that call. The model has no such requests.

Tool loop:

- "When True, skip remaining tools so model sees feedback immediately" says
  `streaming_tool_executor.py:2431` of `_feedback_received`, but only the end of a
  native call looks at it (line 2807). A shell call that the model writes as text
  later in the same reply is run (lines 2670-2688), over deferred feedback and over
  pending feedback as well. TLC reaches `FakeTool` with `deferred # <<>>` in seven
  states: a native call starts, feedback comes in, `BeforeTool` defers it and gives
  the call a stub, and the call written as text runs;
- interrupts are dropped by the drains of the branch without tools (about
  `streaming_tool_executor.py:3481`);
- the assistant's text is appended after the reply and again by the branches
  that go on with feedback or an injected prompt;
- an iteration that fails loses its deferred feedback, although the client was
  told it was delivered, and the results of tools that ran; `retry_count` is
  never reset by a success;
- a cancel, an error and a close of the generator leave the monitor running,
  which takes the next turn's feedback; they, and the iteration limit, yield no
  `stream_end`;
- the fence tracker is made anew in each iteration; `blocked_tools_this_iteration`
  is never counted up, so the runaway-loop guard is dead; the id `fake_<n>`
  repeats between iterations;
- feedback is put in the queue of every connection, but only the first one's is
  read (`server.py:870`).

Task run relay:

- scheduled runs never push `run_completed` (`task_scheduler.py:330`), so their
  history is kept and watchers are not told, against the comment at
  `task_run_stream_relay.py:49`;
- a client can get an event twice or out of order: live pushes overtake its
  replay, a push under way at its connect is replayed too, a delta folds into an
  entry to be replayed;
- the push awaits `send_json`, so a slow client holds up the executor, which
  "must never stall on a slow client" (line 148);
- parallel iterations of one block fold their deltas into one run of text.

Diff pipeline:

- GNU patch 2.7 writes "patching file" and "FAILED", which `parse_patch_output`
  does not look for: the stage never counts, and its write is restored
  (`git_diff.py:604`);
- the skip list and the failure marks of difflib mix the hunks' numbers with
  their positions in the renumbered rest: a hunk that patch applied may be
  marked failed, or the wrong one skipped, against the comment "Don't override
  hunks that were already handled in earlier stages";
- `update_merged_hunk_status` looks positions up in the shrinking pending list;
  the inner loop of `correct_hunk_line_numbers` reuses the loop variable, so the
  number it skips is a line of the file;
- a full-file replacement, and the branches that find everything applied, end
  with `changes_written` false, so the validation that would roll back broken
  code is skipped;
- forced difflib mode validates nothing, leaves hunks pending and answers
  "success" when nothing was applied; the hybrid mode reports all as succeeded
  when part was;
- one failed hunk in difflib drops all others;
- language validation is documented to come before the write and runs after it.

## 6. Proofs

For every number of delegates, slots, repairs and restarts and every set of plan
graphs, from `BoundsAssumption` and `GraphsAssumption`:

- `CoreInvHolds`, from which `TypeCorrect`, `TasksMatchStatuses`,
  `CrystalsAreStored`. `TaskMatchesStatus` is not inductive: that a delegate may
  be started again depends on the registry (`RegistryMatches`), on cancelled
  tasks existing only in a plan out of action (`CancellingIsLate`), on routes
  finding only active plans (`MappedIsActive`), and on delegates beyond the plan
  having neither status nor task (`BeyondSizeAbsent`, `PendingInPlan`).
  `ResolveFacts` describes what a resolve pass does whatever `F` it picks; it is
  the lemma all handlers share, since each ends in `ResolveAndStart`.
- `CancellationIsFinal` and `UpstreamBeforeStart`, action properties from
  `CoreInv`.
- Under `SynthesisReturns` (the synthesis raises only what the orchestrator
  catches; the other faults and a death at the two points inside handlers are
  allowed):
  `ChatsRecallMemory` and `CompletedIsDelivered`, from `FileInv`. `PlanRecorded` ties
  the group file to memory; `AllDelivered` says that a completed plan in memory has
  no delegate left to deliver. `RehydrateRecalls` is what all restarts share: chats
  of any content are what the next process makes of them.
- `ImplementsPlanRecord`, under `SynthesisReturns`: initial states map to initial
  states and each step to a step of the record or a stutter, from `RecordInv`,
  which adds that nothing is on disk before the launch.
- `StartableIsStarted`, under `WholeHandlers` (also no death at those points), from
  `RecoveryInv`, which adds `BlockedOnDisk`: a proposed chat has a dependency without
  a crystal on disk, so that a restart leaves nothing startable.

  TLC shows that the premises are needed: with a synthesis that raises, a plan
  recorded as completed goes on, which breaks all of these; a death between the
  chat of a crystal and the start of its dependents leaves those waiting.

- `NeverStuckAlways`, under `PreambleReturns`: until the first restart, a plan whose
  delegates each depend on earlier ones is never stuck, however few slots there are:
  while a delegate has not settled, a spawn, a stream or a queued start with a free
  slot can go on. It is what the liveness of `EveryDelegateSettles` rests on. From
  `WaitInv`: who runs has a coroutine (`Alive`), and who waits does so for one that
  is underway (`Hopeful`), so that the first delegate that has not settled is
  not waiting. TLC finds each of the two premises needed: a delegate that dies in
  the preamble runs for ever, and in a plan listed out of order the single pass of
  the cascade leaves one waiting for a failed delegate.

- `DeliveredIsDeclaredAlways`, under `SynthesisReturns`: until the first restart, a
  plan whose delegates all have crystals has been declared complete and its
  synthesis is under way, whichever stream, stub, rescue or retry came last.
  `ResolveDeliversNothing` is what its handlers share. TLC finds the claim false
  with a synthesis that raises, and after restarts (section 5). With failures it
  is the refuted `FinishedPlanIsDeclared`.

- `TaskRunRelayProofs`, for every set of tasks, clients and blocks and every cap
  of the history, 0 included: `NothingMissedAlways`, `RegistryIsExactAlways`,
  `HistoryIsTailAlways`, `TypeCorrect`. None is inductive alone. `LogInOrder` says
  of all entries ever, evicted ones too, that they hold every event once and in
  order; `Loops` that an idle task owes nobody a send and that only peers that
  are gone are taken for dead, without which a prune could drop a live client;
  `Capped` bounds the history from `first`. `DropIsDueAlways` and
  `StaysDroppedAlways` are what `HistoryIsDropped` needs beside the timer: a
  history left after its run has its drop due, and no late push makes it again.
- `TaskSchedulerProofs`, for every set of servers, cards, limits and slots, from
  `ScheduleAssumption` and `NamesAssumption`: `TypeCorrect`,
  `PassOnFreshLockAlways`, `RunsWithinLimitAlways`, `OneShotRunsOnceAlways`,
  `RunsAreCountedAlways`. `LockInv` says that a server inside a pass holds the lock
  and that a lock with its name is its own and no older than it remembers.
  `CountInv` says that while `clean` at most one server updates the file, and that both what
  it is about to write and the file, but for the card it just ran, count the
  runs; the limit follows since a fire reads the count it writes back.
  `SlotInv` ties the remaining time of a one-shot card to whether it ran.
  `SlotsAreKeptAlways`, an action property from `DraftKeeps`, is the part of
  `KeepsFiring` that is not about time: no step takes the next slot of a
  recurring card away. `NoCatchUpRunsOnceAlways`, from `FirstRunInv`, proves for
  every instance what the code gets wrong without catch-up (section 5): the
  pass creates a run of such a card only while it has none.
- `MCPClientProofs`, for every set of calls and all bounds: `OwnAnswerAlways`,
  `WaiterIsServedAlways`, `ConnectedHasProcessAlways`, `SentAgainOnlyOnErrorAlways`,
  `TypeCorrect`. `IdsAreOwn` says that an id
  belongs to one call, and so does all the mail that bears it, and that none does
  before its request is written; the stray buffer is therefore never matched.
  `Served` says that an undone future is pending and that its mail is on the
  process the reader reads from, which is the one requests are written to.
  `KInv` adds what a call may have sent at each place of its code, by its
  attempts and by whether the server is external (`Goods`, `Counted`), and the
  ranges of counters, buffer and the stack of `connect()` calls (`Ranges`).
- `CallsWindDownAlways`, the part of `EveryCallReturns` that is not about fairness,
  and without its bound on ids: every step of a call lowers `StepsLeft`, and no
  step of another call, the reader or the server raises it. `Ahead` weighs the
  depth of the stack of `connect()` calls, the retries left and the place in the
  request; a `connect()` counts as part of the request it serves until its process
  has started, which pays for the `initialize` it may now send. A call is thus
  bounded by `MaxRetries` and the processes that start, however often it finds
  its process dead inside the `connect()` of another. It was also model-checked
  with three processes, where the stack gets three deep.
- `ToolLoopProofs`, for every value of the limits: `NarrationIsBoundedAlways`,
  from an invariant that the stall counters keep up with what was narrated;
  `NoNativeCallOverFeedbackAlways`, from `NothingDeferred`, which says where
  feedback may be deferred at all while a native call is under way;
  `GuardIsIdleAlways`, from the `Shape` of the conversation at each point of the
  loop; `TypeCorrect`, from `Typed` (what the lists hold) and `Limits` (the
  counters, with the places at which one may be at its cap).
- `FeedbackInOrderAlways`, from `Ordered`: the feedback in the conversation, then
  the deferred, then the pending is one sequence, also while a tool has taken
  some out. What a message carries is a sequence of its own, so the step of each
  drain needs to know what flattening does to an appended message. That is an
  induction over sequences; the library's induction theorems cannot be used, so
  `Inductive` states induction over a set of numbers and proves it from the least
  element that well-foundedness of `<` gives. `FlattenAppend` and `SaidAppend` follow.
- `ResultsFollowUsesAlways`, from `Paired` and `Closed`: within an iteration each
  result is that of a call, no id has two, a made-up call has its result at
  once, and only the tool under way lacks one for a reason other than a cut;
  outside, the conversation is a series of pairs, which each way to go on may
  append to (`ClosedJoin`).
- `EachStepCountsAlways` and `StepsAreBounded`, the part of `TurnEnds` that is not
  about fairness: `StepsLeft`, a number bounded in the limits, falls with every
  step of the loop and with a close, and neither feedback nor a cancel raises
  it. It counts the iterations left and, within one, what `Rest` says is left of
  the reply: calls to come, tools to run, results to give.
- `DiffPipelineProofs`, for every number of hunks: `AccountedForAlways`,
  `WrittenIsChangedAlways`, `ReversibleIsExactAlways`, from `IInv`: which hunks are
  tracked, what each point of the pipeline still owes an account of, when
  `written` may be set, and which hunks are in the file. None of it depends on
  the numbering of the hunks after `git apply`, which is what the code gets
  wrong (section 5).
- `AlreadyAppliedIsNoOpAlways` and `TypeCorrect` of the pipeline do depend on it and
  rest on `JInv`: a number or position a stage uses may be that of another hunk but
  is that of one (`Numbered`, `Positions`); a file that has changed has a hunk
  marked succeeded or failed, and while the search for applied hunks marks anew,
  one that it will not come to any more (`Evidence`). `Least`, `RankFacts` and `InOrderFacts` say what sorting a set of hunks
  into a list gives.

Every safety property of a passing run is a theorem. Only model-checked: liveness
(outside the prover's logic), of which the non-temporal part is proved where it
says something of its own: `NeverStuck`, `EachStepCounts`,
`CallsWindDown`, `DropIsDue`, `StaysDropped`, `SlotsAreKept`. These and the other formulas that only the proof
modules define were model-checked on the bounds of the runs before they were
proved.

## 7. Not modelled

Model prompts, memory extraction, rendering and the clients of external services
hold little shared state and much text; their tests cover them better.
Permissions and signing are sequential rules. The contents of crystals and
conversations are left out everywhere, and so is the matching of text in diffs,
of which only the outcome is chosen. The shared task list of the swarm tools runs
without a suspension point between its test and its update.

- `DelegateManager` leaves out that a push to a watcher may suspend: those of a
  stream (within which the delegate is suspended anyway), and the `stream_end` at
  `delegate_manager.py:495`, between the completion message and the cleanup, which
  `Finalize` does in one step. Of the deaths inside a handler it has the two named
  in section 2; one between the chat and the plan of a failure, a retry or a
  cancel is left out.
- `MCPClient` leaves out requests of the server with ids of its own (`OwnAnswer` is
  about a server that only answers), calls without a server's name, which try all
  servers and go on after an error (`manager.py:1765-1791`; `SentAgainOnlyOnError`
  is about the others), the loading of capabilities, servers behind the SDK,
  the rate limit, the pool's workspace clients, `restart_server` and a pipe that
  fills up.
- `ToolLoop` leaves out the queue's limit of 100, the reminder after 15
  iterations, delays, token counts and the reduction of context, autocompaction
  of a delegate, and an exception of a tool after its result was given. The block
  after the loop that looks at feedback once more cannot be reached.
- `DiffPipeline` leaves out a diff whose hunks are out of order (the parser numbers
  them before it sorts them, the model takes the two orders for one, and groups
  of overlapping hunks are contiguous), whitespace, a hunk applied twice, an exception after
  patch has written, a failing copy of the backup, the reverse pipeline, and
  branches no run reaches. Two requests for one file run in two pool threads
  without a lock and share the `.backup` path; the model is one of them.
- `TaskRunRelay` is one run; runs share nothing but the lock.

## 8. Plan

In this order; each module gets its runs, mutants and, where named, theorems.

1. `SubPlans`: a parent and nested plans composed of `PlanRecord`s: pending set,
   completion, roll-up, restart. Abstract: a parent ends after its sub-plans.
   Bounds: two sub-plans, one level of nesting, one restart.
2. `TaskRuns`: status of a run, cancel flag, executor and the reconciliation of a
   second server, composed with `TaskScheduler`.
3. Two diff runs over one file and its backup.
4. `SwarmTaskList` and `FileState` if room is left.
5. The non-temporal part of `TwoHoldersResolve`.
