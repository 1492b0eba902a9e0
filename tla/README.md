# A TLA+ model of the Atlas agent control plane

This directory holds TLA+ specifications of the parts of Atlas whose
correctness depends on order, failure and concurrency, the TLC configurations
that check them on small instances, and TLAPS proofs of their most important
properties for every instance. Paths below are relative to
`src/backend/api/app/` unless they say otherwise. `PROJECT.json` lists the
components, runs, theorems, hazards and findings, and maps each definition to
the lines it stands for.

## 1. The system

A user works in a *session*. A request is answered directly or by the agent
pipeline: a planner writes a plan, a *run* executes its steps, checks the
result and answers. A run is streamed to the client, or executed by a
*background task*. Everything that happens is appended to the session's event
log; whether a run succeeded, where it can be resumed and which evidence an
answer may use are read back from that log.

| component | state it keeps | operations | interacts by | hard because | correct when |
|---|---|---|---|---|---|
| execution machine and router (`application/agent_execution_machine.py`, `domain/agent_runtime/`) | phase, plan and revision, step, attempt, observation | execute, reflect, replan, summarise | calls executor, critic, stages, summariser; appends events | retries, replans and refusals in any order; exceptions and cancellation at every await; resume | no attempt identity is reused, no step is skipped, refused results are not delivered, every run ends with one true outcome |
| acceptance chain (gate, scope audit, coverage review) | failed verdicts in the run's events | one verdict per stage | called by the machine | three quotas over one log | refusals are bounded, a stage that fails retries or fails the run |
| critic, summariser | – | judge an observation; answer from evidence | language model | the model's answer is arbitrary | only successful attempts are accepted |
| ReAct service, composition (`application/react_agent_service.py`) | – | build a run, find the resume point, turn an exception into an event | machine, event log | resume point is derived by counting events | a resumed run continues with the first unfinished step |
| local task queue and runner (`infrastructure/tasks/local_queue.py`, `application/agent_task_runner.py`) | task rows, message rows, active coroutines, semaphore | enqueue, cancel, retry, reserve, reclaim, mark, acknowledge, start, stop | routes and coroutines on one loop, SQLite | crashes between two steps, cancellations by users and by shutdown, stale reservations, storage errors | no task is lost or executed twice at once; an abort reaches what it aborts; every task settles |
| Redis task queue (`infrastructure/tasks/redis_queue.py`) | the same, plus a latest-task pointer | the same, one command at a time | several replicas | read-then-write, claims by another replica, two writes without a transaction | what is acknowledged has settled |
| sessions and streams (`application/agent_runner_service.py`, `application/session_service.py`) | session status | mark running, reset, stop, resume | database, machine | disconnects, two streams of one session, background path | a session is running only while something runs in it; a resume skips no step |
| one turn: direct chat, planner, pipeline policy (`application/agent_direct_chat_service.py`, `planner_service.py`) | answer pieces, message, plan | stream, ask again, store, parse a plan | language model, session | a stream that breaks after part of it was shown; a model that answers anything | what is stored is what was shown; a plan is within its bounds |
| step loop (`application/agent_loop.py`, `application/react_step_executor.py`) | budget, turn, batch | call the model, run tool batches | tool runtime | check-then-record under gather; fallbacks | the budget holds up to one batch, providers run first, every call is reported |
| tool selection (`application/tool_selection_service.py`) | – | choose by model or by rules, repair arguments | registry, model | remembered text among what is searched | only the task's own words trigger a tool that leaves the process |
| tool runtime (`application/tool_runtime.py`) | invocation rows, breaker | execute with policy, time-out, retry, fallback | tools, database | crash between start and finish records, replay | a tool's side effects happen at most once per key, and a replay replays a result |
| control plane (`application/control_plane_service.py`, `checkpoint_service.py`) | versioned tasks, checkpoints | update, checkpoint, restore | database | check-then-write without a condition | an update takes back no column it does not change, and the version counts the updates as long as no two overlap |
| memory (`application/memory_service.py`, `memory_lifecycle_service.py` and what they call) | memories with status, deadline, successor, confidence | write gate, verify, supersede, expire, decay, promote | database | several writers, swallowed errors, passes in every process | what is injected is proven and current; forgetting is bounded |
| RAG (`application/rag_service.py`, `domain/rag/chunking.py`) | documents, chunks, vectors | split, ingest, rebuild, delete, query | database, vector store, models | two stores without a common transaction; offsets | a ready document is found with exactly its chunks; the context is bounded and ordered |
| context (`application/context_engineering_service.py`, `domain/agent_core/context_budget.py`) | – | cut memories, passages, files and history to their budgets | all of the above | several passes that each add text | the budget holds, and older parts are forgotten first |
| skills (`application/skill_service.py`), todo board (`application/todo_service.py`) | versions and statuses; events | publish, enable, deprecate; mark | database | check-then-act; replayed events | a deprecated version stays out; a done todo stays done |
| settings (`application/app_settings_service.py`) | three YAML files, switches | save, delete, switch | files, services that loaded them | several places name one item | every file can be loaded again |
| files and their copies (`application/file_service.py`, `session_file_sync_service.py`) | storage, records, sandbox | upload, delete, download, copy | storage, database, sandbox | two writes, lost answers | what is listed can be downloaded; no content is left without an owner but by a failure |
| MCP and A2A (`infrastructure/mcp/`, `infrastructure/a2a/`) | – | list, call | remote servers | switches while a manager is in use, failures halfway | only what is switched on is asked, once |
| sandbox (`src/backend/sandbox/`) | one Chromium; shell sessions | start, navigate, close; run, wait, terminate | tools | no locks between awaits | nobody is given a closed browser; a status once told stays true |
| web page (`src/frontend/`) | store of sessions and streams; conversation from events | select, send, stop, refresh; show | API | answers that arrive late | only the selected session is on display; cards tell how runs ended |
| multi-agent text, security audit, observability, harness, TypeScript API, terminal front end, deployment | – | reports, I/O | – | – | not modelled, see section 8 |

## 2. Modules

| module | what it is |
|---|---|
| `AgentRun` | the abstract life cycle of a run: a cursor over a plan that moves by accepted steps, is reopened by a refusal, restarted by a replan, and an outcome that is set once. No code of its own; it is what the services around a run rely on. |
| `AgentMachine` | the execution machine, its router and its acceptance chain, driven by `stream_latest_plan`; implements `AgentRun` |
| `MCAgentMachine` | plans and wirings for TLC |
| `AgentMachine_proofs` | theorems about `AgentMachine` |
| `TaskStatus` | the task statuses and the sets of them the code decides by; shared by both queues |
| `TaskQueue` | the abstract queue of background tasks: what the port `domain/tasks/queue.py` promises to those who enqueue, cancel, retry and consume. Who consumes, and how often he dies, does not appear in it. |
| `AgentTasks` | the local queue, the runner, the routes, and the process that crashes, stops and starts; implements `TaskQueue` |
| `AgentTasks_proofs` | theorems about `AgentTasks` |
| `RedisTasks` | the Redis queue with several replicas, one action per command |
| `RedisTasks_proofs` | theorems about `RedisTasks` |
| `SessionRuns`, `MCSessionRuns` | several runs of one session over one event log |
| `SessionRuns_proofs` | theorems about `SessionRuns` |
| `Turn` | one message: direct answer or plan, what is shown and what is stored |
| `StepLoop` | the loop of one step: turns, batches, budget |
| `Selection` | the tool a step calls when no model drives it |
| `ToolCalls` | the tool runtime: keys, records, retries, fallback, crashes |
| `Verdicts` | how the three stages of the chain come to the verdicts `AgentMachine` leaves open |
| `ControlPlane` | versioned task updates, checkpoints, restore |
| `MemoryStore`, `MemoryLife` | which memories are retrievable; how they fade and are promoted |
| `Chunking`, `Knowledge`, `Retrieval` | a document split, indexed and queried |
| `PyLists` | Python's stable `sorted`; the elements of a list that pass a test |
| `AgentContext` | what fits into the model's context |
| `SkillVersion`, `TodoBoard`, `Settings`, `Files`, `Remote`, `Browser`, `Shell` | as their names say |
| `Workbench`, `Cards` | the store of the web page, and the conversation it shows |
| `Service`, `StoreServices`, `AgentServices`, `EdgeServices` | the modules from `Turn` to `Cards` in three groups: instances, assumptions, invariants |
| `Services`, `MCServices` | the three groups side by side, and the instance of it for TLC |
| `StoreServices_proofs` | theorems about tools, skills, settings, memories, knowledge bases and contexts |
| `AgentServices_proofs` | theorems about the todo board, task updates, verdicts, selection, remotes, the step loop and the turn |
| `EdgeServices_proofs` | theorems about the page and its cards, files, browser, shell and questions |
| `ProofLemmas` | lemmas about numbers, sequences, folds, filters and sorting that the proofs share |

### AgentMachine and the code

`phase`, `stepIndex`, `attempt`, `observation` and `revision` are the fields of
`AgentRunState`; `plan` is the snapshot's plan, reduced to what the machine
reads: its length, its acceptance command, the two `allow_retry` flags, whether
a `ScopePolicy` can be built and whether coverage is enforced. `wiring` is what
`compose_agent_runtime` injects. `executed`, `accepted` and `audits` are the
parts of the event log that the code reads back: `step_identity` plus attempt of
every execution and of every accepting `step_reflected` event, and the failed
verdicts that `_count_gate_failures` and `_count_audit_failures` count.
`journal` is the order of the events about the run as a whole. `stream` says
whether the generator still runs, raised, or was cancelled.

Each node is one action (`ExecuteNode`, `ReflectNode`, `ReplanNode`): the run
sees its own events only through the snapshot of the node's transition. Outside
the run they come apart when the stream is cut off, see `Cancel`. `_summarize_node`
awaits four times with effects in between, so it is one action per stage:
`GateCycle`, `ScopeCycle`, `CoverageCycle`, `ChainFinished`, `Summarize`. The
three `*_failed_transition` methods are one operator, `FailedTransition`. `Raise`
is an exception at any await, `Cancel` a consumer that goes away. A node that is
cut off at one of its yields has committed the events it wrote so far, and its
transition is lost: `CutOff` says which events about the run that may be. The
database itself is assumed not to fail under a run. The replanner
is optional, as in the code: the service composes the machine without one
(`ReplanMissing`), the tests with one (`ReplanNode`).

What the language model, a tool, the gate's command or a review says is
a nondeterministic choice, within what the code lets through (the critic's
`accept` of a failed observation is rejected by `CriticService`). Plans have at
least one step.

### AgentTasks and the code

A task row is `status`, `parent` and `retries`; a message row is `message`,
where `"stale"` is a reservation older than `agent_task_claim_idle_ms`. Ids are
given in order, as `AUTOINCREMENT` does for the messages, and every task has one
message. `coroutine` is where the coroutine in `_active_tasks` is suspended:
before the semaphore, in the plan, at the shielded look-up of the
`CancelledError` handler, or at the shielded acknowledge. `cancelled` holds
coroutines to which a `CancelledError` is on its way.

Everything runs on one event loop. No method of the local queue suspends between
taking its lock and releasing it, so a route, a pass of the loop, and a piece of
a coroutine between two suspensions is one action each. `Poll` is one pass of
`_run_loop`: it reclaims every stale message, reserves the oldest pending one,
and starts coroutines. `Crash` drops the process, `Stop` is `stop()` up to its
`gather`, `Stopped` the rest, `Restart` is `queue.start()` in the new process.
`StorageError` is an exception out of a queue method under a coroutine.

Left out: the payload checks of `_handle_message` (every message the queue
writes has a task and a session), `count=100` (there are fewer messages), and
the requests of other routes, which only read.

### SessionRuns and the code

`status` and `deleted` are columns of the session, `log` the events that
`_resume_context` and `_find_latest_plan_event` read back, `run` where each
stream or background execution stands between its awaits. Nothing in the code
keeps two runs of one session apart, so the module does not either. The reset of
a running status is a read and a write (`ResetRead`, `ResetWrite`). `faithful`
is bookkeeping: the chain of resumes a run belongs to executed one plan
throughout. Without it `ResumeSkipsNothing` is false, see finding 4.

### RedisTasks and the code

Every Redis command is an action; a cancellation reads in one and writes in the
next, and a mark writes back what was read before. The runner is that of
`AgentTasks` cut into these pieces. `TurnsStale` is `xautoclaim`'s idle limit:
any pending message may reach it, also one that is being worked on
(`overlapped` remembers which). A crashed replica is started again under a new
consumer name.

### The services

These modules model services that share neither state nor a lock. What they
share is the shape: a request reads, awaits and writes, and others come in
between. One action is what happens between two awaits.

- `ToolCalls`: `row` is the table `tool_invocations`, `call` where an execution
  stands, `started` how often a handler was run. The look-up by key, the record of
  the start, each attempt, the record of the end and the fallback are actions, and
  the process may die between any two.
- `StepLoop`: `total`, `used` and `tokens` are the counters of the budget,
  `batches` what `_plan_batches` made of a turn's calls, `result` where each call is.
  All calls of a batch are checked when they are scheduled and counted when they
  return.
- `TodoBoard`: the board is kept instead of the log it is replayed from; a mark
  is a read and, later, an event.
- `ControlPlane`: `request` is what an update has read and is about to write. Its
  validator of checkpoints compares the constraints with those of the parent that
  the request names, if it names one; nothing else is promised of a lineage, so
  no property is stated of checkpoints. What is stated is what overlapping updates
  and restores may do to each other.
- `MemoryStore` is about all memories of one fact; `creating` and `verifying` are
  requests that have read. `MemoryLife` adds the hourly passes, of which every
  process runs one.
- `Chunking` is a pure algorithm: `_split_long_span`, `_pack_spans`,
  `_apply_overlap` as operators over sequences of four kinds of characters. It
  has been compared with the Python function on 32 004 inputs, without a
  difference.
- `Knowledge`: `rows` and `vectors` are the two stores; a build is one execution
  of `_index_document`. `external` distinguishes qdrant from the stores in the
  database.
- `Retrieval` is the query pipeline, stage by stage, with the scores of the
  code as integers; `Sorted` is Python's `sorted`, whose stability
  decides between equal scores.
- `AgentContext`: one variable `kind` chooses which of the budgets is cut; texts are
  their lengths. Memories come in for their relevance, and then for their links
  with those that did: what a memory is linked with is any memory, since a link
  tells nothing of relevance. (`link_memories` is called by tests only, so that in
  the program as it is there are no links to follow; the expansion is modelled as
  it will run once there are.)
- `Verdicts`, `Turn` and `Selection` take whatever the model, git or a
  command answers as a choice, and do with it what the code does.
- `SkillVersion`, `Settings`, `Files`, `Remote`: one row, one file, one upload, one
  manager, with the requests that overlap on it. In `Files` a write, a commit and a
  deletion of the storage may each fail, and the copy to the sandbox takes the
  attachments `is_syncable` says are texts; how much of a large one is copied
  (`max_file_size`) is left out.
- `Browser` and `Shell` are the sandbox's services; an await is a point where
  another request, a collector or a watcher goes on. An address stands for where it
  leads to: how `navigate` normalises it and where the site redirects to are left
  out, and so is a Chromium that ends on its own.
- `Workbench` is `useSessionStore` and its hooks; `Cards` works out
  the cards and bubbles from a log as `view-model.ts` and `agent-run-block.tsx` do. Which steps a resumed run takes as
  done it reads off the last run with an error, whatever plan that run had
  (`CountsAsDone`), as `_resume_context` does.

`StoreServices` instantiates the modules of what is kept for the agent,
`AgentServices` those an agent works with, and `EdgeServices` those of the page,
the sandbox, files and documents. Variables that share a name in two modules
are renamed there. In each group the initial state chooses a component, and the
next-state relation is that component's. `Services` is the three groups side by
side: `Next` is the conjunction of theirs, so that a behaviour of `Services!Spec`
is one of `StoreSpec`, of `AgentSpec` and of `EdgeSpec`, and what is proved of a
group holds of it. For TLC the state space is the sum of the components', and
every invariant is about one component; it is one run because it is one
question asked of each.

## 3. Runs

| run | configuration | checks | distinct states |
|---|---|---|---|
| `machine` | `AgentMachine.cfg` | `TypeOK`, `AcceptedSucceeded`, `RefusedNotDelivered`, `OneOutcome`, `Termination` | 469 k |
| `machine_replan` | `AgentMachineReplan.cfg` | `FreshAttempt`, `WorkAccepted`, `AuditRetriesBounded`, `RunSpec` | 44 k |
| `tasks` | `AgentTasks.cfg` | `TypeOK`, `NoTaskLost`, `ExecutionOwned`, `ConcurrencyBounded`, `AbortTakesHold`, `NoDoubleStart`, `QueueContract` | 1.4 M |
| `tasks_live` | `AgentTasksLive.cfg` | `EventuallySettled` | 4 k |
| `sessions` | `Sessions.cfg` | `TypeOK`, `RunningIsOwned`, `ResumeSkipsNothing` | 1.1 M |
| `redis` | `RedisTasks.cfg` | `TypeOK`, `AckedIsSettled` | 2.7 M |
| `services` | `Services.cfg` | `TypeOK` and a property or two per component, see below | 1.2 M |
| `shared_quota` | `SharedQuota.cfg` | `SharedRetryQuota`, violated | – |
| `resumed_chain` | `ResumedChain.cfg` | `FailedStageRetriesOrFails`, violated | – |
| `terminal_consumed` | `TerminalConsumed.cfg` | `TerminalNotConsumed`, violated | – |
| `skipped_steps` | `SkippedSteps.cfg` | `AnsweredPlanIsDone`, violated | – |
| `chunk_ranges` | `ChunkRanges.cfg` | `RangesPointBack`, violated | – |

Run one with `tlc -config AgentMachine.cfg MCAgentMachine.tla`; those of the tasks, of
Redis and `chunk_ranges` take `AgentTasks.tla`, `RedisTasks.tla` and `Chunking.tla`
themselves.

### What the properties say

- `FreshAttempt`: when a step is about to be executed, its identity (revision,
  step, attempt) has not been executed. The identity is hashed into the
  idempotency key of the step's tools, so a collision would replay old results.
- `AcceptedSucceeded`, `WorkAccepted`: an answer rests on successful attempts, and
  the chain is reached only with every step from the run's first one accepted,
  at the current revision.
- `RefusedNotDelivered`: no result is refused twice, and a result the log calls
  done has passed every declared stage after the last refusal.
- `AuditRetriesBounded`: the number of refusals is bounded by the quotas.
- `OneOutcome`: the log holds at most one outcome event, as its last word; exactly
  the true one, unless the run was cancelled. The runner decides a task by it.
- `RunSpec`: the machine implements `AgentRun`.
- `Termination`: every run ends.
- `NoTaskLost`: a task that is queued or running has an unacknowledged message.
- `ExecutionOwned`, `NoDoubleStart`, `ConcurrencyBounded`: an execution holds its
  message, is the only one of its task, and the semaphore bounds executions.
- `AbortTakesHold`: while a task is stopped no step marks it running, queued or
  completed, and the one thing that overwrites the abort is the failing clean-up of
  the execution the abort has reached, one with its `CancelledError` coming, which
  marks the task failed. It says no more than that: a task that has failed in this
  way is not an aborted one any longer, and if its acknowledge is lost it is
  executed again like any failed task (finding 3).
- `QueueContract`: the queue and its runner implement `TaskQueue`. A message that is
  out is handed out again only after the idle limit or a restart; a task is marked
  only while its message is out, and an aborted one only as failed; a message is
  acknowledged when its task has settled, and for good; what has ended is not
  cancelled; a retry derives from what has ended and counts one more. One step of
  the runner may be several calls of the queue (`Poll` reclaims and reserves) or
  none (`Crash`). `RedisTasks` does not implement it: between two of its commands a
  cancellation may overwrite a task that has ended (the atomicity hazard at
  `redis_queue.py:139`).
- `EventuallySettled`: every task settles and its message is acknowledged.
- `RunningIsOwned`: the status of a session is running only while a run of it is
  in progress, or after one that died without its clean-up.
- `ResumeSkipsNothing`: a run resumed along failures of one plan passes over a
  step only if a run completed it.
- `AckedIsSettled`: with Redis, a message is acknowledged only for a task that
  has settled, unless another replica claimed it while it was worked on. A
  cancellation may still overwrite a completion, or the other way round
  (`CancelReads`, `CancelWrites`); the code does not prevent it.

The properties of `services` are, by component:

- `ToolEffectOnce` (`ToolCalls`): for a key, the handler is run by one call only, and
  more than once only if the tool is idempotent; a call told "done before" was.
- `StepSound` (`StepLoop`): providers end before what requires them starts; the
  budget is exceeded by less than one batch; no call is under way when the model
  is asked again.
- `BoardSound` (`TodoBoard`): overlapping marks do not take a todo back from done,
  and the board never blocks itself.
- `MemoriesSound`: what is injected has proof and was not replaced (`MemoryStore`);
  promotion takes hits and forgetting stops at the floor (`MemoryLife`).
- `DeprecatedStaysOut` (`SkillVersion`), `FilesLoad` (`Settings`: every file written
  can be loaded, and the page shows what is in it), `FilesKept` (`Files`:
  what is listed can be downloaded unless the answer to its commit was lost; a
  content without a record belongs to a request under way or to one that was
  interrupted or whose storage failed; of attachments with one name the oldest text
  is in the sandbox).
- `ChunksFaithful` (`Chunking`): no chunk is longer than the size and the overlap
  together, and of a text *in which no white space follows a sentence end* every
  letter is in a chunk. Of other texts the second half is false, see finding 5.
- `KnowledgeSound` (`Knowledge`): a ready document is found with the chunks of one
  build.
- `RetrievalSound` (`Retrieval`): the context of a question is bounded, in order
  and complete.
- `PageIsCoherent`: one session on display, one active stream (`Workbench`); a card
  tells how its plan's last run ended, shows no step of an answered plan as still
  to do unless the run was credited with steps another run had completed
  (finding 4 as the page shows it), and no answer is lost (`Cards`).
- `VerdictsSound` (`Verdicts`): a model never lets pass what the rules refuse.
- `UpdatesSound` (`ControlPlane`): `expected_version` does not prevent that two updates
  which have read one version are both accepted. What holds all the same: as long
  as no two accepted updates had read the same version, the version counts them;
  and however updates and restores overlap, a column that one of them alone
  changed keeps what it was changed to.
- `TurnSound` (`Turn`): what is stored is what was shown, with one outcome.
- `ContextBounded` (`AgentContext`): a context keeps to its budget; what comes in
  for its own sake is relevant and leaves out nothing more relevant, a memory that
  comes in for a link takes no such place, and a history forgets its older steps
  before it shortens a recent one.
- `OutsideSound`: a tool that leaves the process is chosen for a reason
  (`Selection`), and a request reaches a remote at most once (`Remote`).
- `SandboxSound`: no request is given a browser that is being closed (`Browser`),
  and what is told of a command stays true (`Shell`).

Several of them have an exception that names what the code leaves open (`dated`,
`damaged`, `unsure`, `left`, `moved`, `mishap`, `republished`): the variable is set
by exactly the step that opens the gap, so that the property says what does hold
and where it ends. The same goes for `orphaned` in `RunningIsOwned` and `overlapped`
in `AckedIsSettled`. Such a property does not deny the hazard it exempts: the code
does what the hazard says, and the property shows that nothing else leads there.
`PROJECT.json` lists these hazards with a note in place of a property.

### Bounds

`MaxSteps = 2` has a first, a last and a next step; one-step plans are among the
instances. `MaxRetries` is 2 in `machine` and 1 in `machine_replan`: zero, one
and more refusals at each stage. `MaxAttempts` and `MaxReplans` bound what the
critic asks for, which the code does not bound; one retry and one replan suffice
for identities to collide if they could. Two commands let a replan change the
command the gate counts. The three statuses stand for success, final failure and
approval. `machine` uses the service's wiring with all stages or none;
`machine_replan` all stages and a replanner.

`MaxTasks = 3` with `MaxConcurrency = 2` has a poll while a task executes (with
one there is no poll beside an execution), reclaims that start more coroutines
than the semaphore admits, and a retry of a retry. `MaxFaults = 2` has a crash
after a crash and a storage error followed by a shutdown. The live run takes two
tasks, one of them executed at a time, and one fault.

`Sessions.cfg` has three runs, two at a time, five events, plans of two steps,
one refusal of the chain and one run that ends without its clean-up: a resume of a
resume needs a plan, two failures and two completed steps. Runs are
interchangeable (symmetry). `RedisTasks.cfg` has two replicas, two tasks (one may
be the other's retry), one request at a time, one claim of a message that is
worked on and one crash or error.

In `MCServices` each component has two overlapping requests or clients (three
for `SkillVersion` and three builds for `Knowledge`) on one or two rows, because
every hazard there is between a read and a write of another:

- `ToolCalls`: two calls, two tools of which one is the other's fallback, one key, two
  argument hashes, one retry, one crash.
- `StepLoop`: two turns of up to three calls of three tools, with a chain and a cycle of
  requirements; limits of 3 per step and 2 per tool, below what a batch can ask for.
- `Chunking`: all texts of up to 6 characters, sizes 2 and 3, overlaps 0 and 1.
- `ControlPlane`: two updates or restores, two goals, two constraints, two checkpoints.
- `Retrieval`: three chunks, one variant, two marks, two results, a context that holds two.
- `AgentContext`: three items of two lengths and three scores; the budget holds
  one long and one short one; one memory may come in for a link.
- `Turn`: two pieces of an answer, and numbers of steps around the ends of the
  three ranges of complexity.
- `Files`: two attachments of one name. `Remote`: three servers and two agents, one
  change of a switch. `Browser`: two clients, two Chromiums. `Shell`: three lines, of which
  two are kept. `Cards`: two plans, two runs, six events; the
  exemption of credited steps is first needed at seven, which the theorem covers. `Workbench`: two sessions, two
  streams.

A run of the agent ends, and so do most behaviours of the services when their
bounds are used up, so those configurations switch the deadlock check off; those
of the local tasks leave it on.

### Fairness

`AgentMachine`: weak fairness of `Dispatch`, the loop of `stream`, which calls the
next node until the phase is terminal. Raising and cancelling are never
required. `AgentTasks`: weak fairness of `Poll` (the loop polls), of each
coroutine (the event loop resumes what is ready; executions end by
`Termination`), of `GoesStale` (time passes), of `Stopped` (`gather` returns) and
of `Restart` (the service is started again). Users are not fair.
`EventuallySettled` assumes that the user stops cancelling at some time: each
cancellation that hits a coroutine before `_handle_message` has looked at its
task makes the message wait for another fifteen minutes. The other modules state
safety only and no fairness.

## 4. Findings

1. The stages of the chain do not share one quota of retries: the gate counts only
   its own failures (`_count_gate_failures`), the two reviews count everything.
   The docstrings of `_summarize_node` and `_scope_failed_transition` say the
   quota is shared. `AuditRetriesBounded` is the bound that does hold:
   `MaxRetries + 1` refusals per command and as many by the two reviews.
2. A run that is resumed after its last step goes straight to the chain without
   an observation. If a stage then refuses, writing the reflection raises, and
   the run ends with a `task_error` instead of a retry or a failed verdict.
3. A completed or failed task whose acknowledge was lost is consumed again: only
   aborted tasks are skipped and `mark_running` does not look at the old status.
   The comment on `TERMINAL_STATUSES` says they are not consumed any more.
4. A resume counts the completed steps of the last failed run, whatever plan that
   run executed and wherever it started (`_resume_context`). After a new plan, or
   after a resumed run that fails in turn, the count is not where the current plan
   stopped: steps are skipped or repeated, and a plan is answered some of whose
   steps no run executed. The docstring says that the completed steps of the
   failed run are the break point.
5. `_split_long_span` advances its cursor by the length of the sentences and
   forgets the white space that the split consumed, so the ranges of later chunks
   are too small, their text is shifted and the end of the paragraph is lost.
   A test asserts that ranges point back at the text, on a text without such
   white space.

### Other observations

Met while modelling, in the code as it is modelled; no run states them.

- Planner: `_parse_llm_plan` promises the fallback on any parse error, but a JSON
  list or `"steps": null` raises and fails the turn.
- Persistence: after a database error no rollback precedes `_persist_error` on the
  same session. The pointer to the latest task (`redis_queue.py:195`) is taken back
  by an older task. Two identical artifacts at once may both be inserted.
- Runner: the first `queue.start` and reclaim are outside the loop's try
  (`agent_task_runner.py:80`); executions that never return occupy the capacity.
- Chain: an attempt accepted and then refused stays evidence of an answer
  (`agent_summary_service.py:191`). The audit does not see untracked files, sees a
  move at its new path only, and takes a failing git for "no change".
- Tools: whether an error is retried is decided by its text, so an argument error
  that mentions a connection is retried; a handler that timed out goes on in its
  thread while it is retried; only the last call of a step decides its status.
- Selection: `module_policy.py` lists the web search under a name it is not
  registered with, so the switch of its module does not reach it; a remembered line
  with a dot may be taken for the file.
- Context: a digest may be longer than what it replaces; attachments are taken
  oldest first where the setting says latest (`core/config.py:199`).
- Memory: decay compounds with every pass, against its docstring;
  consolidation undoes the decay of its own pass; a verification that overlaps a
  replacement restores its deadline.
- Control plane: two updates of a task that expect the same version are both
  accepted when both have read it before one is written, since the statement has
  no condition on the version (`control_plane_repository.py:57`); the document says
  that `expected_version` keeps a later write from overwriting an earlier one
  (`docs/MEMORY_TOOL_CONTROL_PLANE.md:13`).
- RAG: with qdrant a failure may leave a half-built index; two chunks of one
  parent are widened to the same passage.
- Settings: saving a model drops the `embedding` section; a switch is written
  before the default is refused.
- Files: of attachments of one name the oldest wins; deleted ones stay in the
  sandbox; files of a deleted session cannot be deleted.
- Remote: `isError` and failed answers count as success; request ids are not
  compared; one failing server fails the list of all.
- Sandbox: overlapping starts leak a Chromium; the text of one page may be given
  the address of another; a second terminate answers before the process ended; a
  line over 64 KiB ends the collector.
- Page: the finally of an aborted stream clears the sending flag of the next one;
  a refresh that takes the selection away neither aborts nor resets; a step shows
  failed after a resume succeeded; an answer equal to a final answer loses its
  bubble.

## 5. Proofs

Every safety property of every passing run has a theorem, but for the type
invariant of `Services` as a whole. A theorem holds for every value of the constants that satisfies
the assumptions of its module, and the assumptions say no more than what a
parameter is: numbers are natural numbers, limits the code requires to be
positive are positive, `None` and its like are none of the values they are the
absence of, and defaults are among what they are the default of. TLC evaluates
them in the runs. They are `MachineAssumption`, `TasksAssumption`,
`RedisAssumption`, `SessionAssumption`; `StoreAssumption`, `BaseAssumption` and
`ContextAssumption`; `AgentAssumption`, `BudgetAssumption` and
`TurnAssumption`; `EdgeAssumption`, `QueryAssumption` and `ChunkAssumption`, which
asks of a chunk size and an overlap what `split_text` refuses otherwise. Two of the
assumptions bound something: the scores of a question are shares of a whole, as the code's are
between 0 and 1, and its places in a list of chunks are fewer than
`Retrieval!Parts`, the number of parts in which the model counts shares.

Every proof has the same shape. The property itself is hardly ever inductive;
an invariant that is implies it, holds at first and is kept by every action.
What follows says what each invariant adds and why.

`AgentMachine_proofs`

- `TypeCorrect`: `TypeOK` is inductive.
- `AttemptsFresh`, `AcceptsRest`, `SummaryAfterWork`, from `AttemptInv`.
  `FreshAttempt` alone says nothing of phases other than executing; one needs
  that every executed attempt comes *before* the current one, lexicographically
  by revision, step and attempt, or is the current one once the run has left the
  executing phase (`ExecutedBefore`); that the observation is the status of the
  current attempt (`Observed`); and that every step before the current one is
  accepted (`Progress`).
- `ChainRetriesBounded`, from `QuotaInv`: while the run is live the counts are at
  most `MaxRetries`, and one more refusal is possible only as the last. Its
  lemmas are about the cardinality of a selection of a log to which an entry is
  appended.
- `OutcomeToldOnce`: with its type, `OneOutcome` is inductive; the work is in
  what a node that is cut off may have written.
- `RefusedStaysRefused`, from `RefusalInv`: the stages that passed are the
  declared ones before the current stage (`ChainPassed`), and a refused result
  comes before the current one in the order of `AttemptInv`, unless its refusal
  ended the run (`RefusedBefore`).
- `MachineImplementsRun`: `Spec => RunSpec`, step by step, under `AttemptInv`.

`AgentTasks_proofs`

- `TypeCorrect`, from `TypeInv`: `TypeOK` with the bookkeeping of unknown tasks.
- `TasksSurvive`, `CoroutinesOwn`, from `OwnInv`, which relates for each task its
  status, its message and its coroutine: an active coroutine holds a reserved
  message, and one that is about to acknowledge has a settled task.
- `AbortsHold`, `StartsOnce`: action properties, under `OwnInv`, which has it that a
  coroutine whose task is stopped has its cancellation coming.
- `QueueKeepsContract`: `Spec => Queue!Spec`, step by step, under `OwnInv`: a
  coroutine that marks a task still holds its message, and a blocked plan was not
  aborted, since an abort has its cancellation coming.
- `ContractLosesNothing`: the contract alone, whoever consumes the queue, implies
  `NoTaskLost`.
- `RetriesChain` (`RetryLineage`: a retry is younger than its parent and counts one
  more), `ExecutionsBounded`.

`SessionRuns_proofs`

- `TypeCorrect`, from `LogInv`: events are of runs that have begun, and of plans
  that have steps.
- `ResumeIsSound`, from `ResumeInv`: for a run that is faithful to its plan, all
  steps up to the next one are done by somebody, and no more of them are counted
  as completed by the run than that (`Resumable`). The count of a log is what a
  resume trusts, hence the second half.
- `RunningHasOwner`, from `OwnedInv`: a running status has a run that will reset
  it, wherever between its awaits that run is (`Owner`).

`RedisTasks_proofs`

- `TypeCorrect`, from `TypeInv`; at most `MaxConcurrency` of a replica's
  coroutines are past the semaphore, whatever the order of commands.
- `TasksSurvive`, from `SettledInv`: as long as a task is not overlapped, one
  replica at a time works on it (`WorkedOnOnce`), one request enqueues it
  (`EnqueuedOnce`), and a coroutine knows at each command what the status can
  be (`Knows`).

`StoreServices_proofs`

- `EffectsHappenOnce`, from `ToolInv`: what each call has done for each slot, a
  tool with a key (`CallSound`), that a slot has one call that works on it, whose
  row stays running (`SlotSound`), and that a replay has a finished row
  (`Deduplicated`).
- `DeprecationLasts`: `SkillInv`, without what an injection reads.
- `FilesAlwaysLoad`, from `SettingInv`: of every kind of settings the file loads,
  and what is loaded is what is in the file. The work is in what a request makes
  of a valid file.
- `MemoriesStaySound`, from `MemoryInv` (what a creation or a verification has
  read is what it may still rely on) and `LifeInv` (what a pass has read of a
  memory is between its bounds, however many passes overlap).
- `KnowledgeIsSound`, from `BaseInv`: a build carries chunks for a document
  without rows, and no other build does at the same time (`Exclusive`), since
  the rows are cleared and inserted in one transaction; a build that is alone with its document finds its vectors as it left
  them (`Undisturbed`), so that a ready document that is neither damaged nor
  worked on has its rows in the index (`Complete`).
- `ContextsAreBounded`, from `ContextInv`: what was taken and what is left are the
  budget, and what was taken leads a falling list (`Budgeted`); links are followed
  only once nothing more comes in for its own sake, in the order of the memories
  they start at (`Linking`), so that what they add is taken from what was left over;
  a layer of the history is given up only when one more does not fit
  (`Layered`).

`AgentServices_proofs`

- `BoardIsSound`: an action property; `done` has no transition, so a mark decided
  on an older board is dropped when it is replayed. That the board never blocks
  itself is a fact about every board.
- `UpdatesAreSound`, from `ControlInv`: every version below the one a request has
  read, or the task has, was read by an accepted update (`ReadBelow`); hence an
  update that read an old version has a predecessor that read the same one, and
  without such a pair the version is one more than the number of updates
  (`Counted`).
- `VerdictsAreSound`: each verdict is that of its case, and for every case what
  the rules refuse is refused.
- `SelectionIsSound`: `SelectionSound` and that no choice is made before the first
  step; the work is in the order of the rules, for every goal, step and context.
- `RemotesAreSound`, from `RemoteInv`: those still to be asked were not, but for
  the one that is waited for; those before it answered (`UnderWay`).
- `OutsideIsSound`: the two together.
- `LoopIsSound`, from `LoopInv`: the batches that are left are apart, hold what
  does not wait for another, and follow the order of what is required
  (`TurnInv`); no budget counts less than what has run and is under way
  (`BudgetInv`). What the planning of batches computes is proved by descent along
  the requests that are not placed yet.
- `TurnsAreSound`, from `TalkInv`: the pieces shown are of the current attempt
  (`Spoke`), what is stored is made of them (`Stored`), and the log tells the end
  once, when all else is stored (`Logged`).

`EdgeServices_proofs`

- `PageStaysCoherent`, from `PageInv` (the active stream exists and is the only one
  that is not aborted) and `CardInv` (a plan is created once, before its other
  events; a run that answers without having worked was credited by a run of
  another plan, `OtherWorked`, and a run of its own plan would have shown its step).
- `BrowserIsSound`, from `BrowserInv`: one request owns a browser that it starts or
  closes (`OneOwner`), and an open one is the service's or is owned
  (`NoneLost`).
- `ShellIsSound`, from `ShellInv`: a status agrees with its process (`EndSound`), the
  output with what was collected (`LinesSound`), an answer with both
  (`ToldSound`).
- `SandboxIsSound`: the two together.
- `FilesStayKept`, from `FileInv`: what every request between two steps still owes, and
  what a failed deletion of the storage leaves to `left` (`RecordsKept`), and that the copies in the sandbox are the last of their
  names (`LastStays`).
- `QueriesAreSound`, from `QueryInv`, stage by stage: what was recalled, how the
  chunks stand after fusion and reranking, and how the context is filled
  (`Filling`).
- `ChunksAreFaithful`, for texts of every length, from `ChunkInv`: what is stored is
  the split of its text. The rest is about the functions, one lemma for each:
  paragraphs and parts stand where their ranges say and are in order
  (`ParagraphsAreTidy`, `PartsAreTidy`), the ranges of sentences drift from their
  parts by the white space that was dropped and by nothing else
  (`SentencesFollowParts`), windows cover a length (`WindowsFit`), and a merge keeps
  what its spans cover when each of them is solid (`PackFits`). A sequence of spans
  is `Tidy` in another when the spans are solid, in order, inside it and all of it;
  tidiness composes (`TidyJoins`), and the hypothesis that no white space follows a
  sentence end is used at one place, where a sentence becomes its part.

The proofs cannot cite the library's induction theorems, which take an operator.
Where a proof needs induction, it takes the least number at which a formula
fails (`LeastNumber`), or walks along a function that is defined step by
step (`CountUp`, `DescentDefines`, `FoldDefines`, `FoldAdvances`). With these,
`ProofLemmas` shows what `Filtered`, `Sorted`, the flattening and the folds of the
modules compute: `FilterKeeps`, `FilterLists`, `SortedIsOrdered`, `SortedKeeps`,
`JoinedKeeps`, `SummedAppends`.

## 6. Only model-checked

- `Termination` and `EventuallySettled`: liveness under fairness, which is out of
  the prover's reach.
- `TypeOK` of `Services` as a whole. The types of most components are part of the
  invariants above.
- The findings: a counterexample needs no proof.

No module has a RECURSIVE operator.

## 7. What would come next

1. Liveness of `RedisTasks` under fair replicas.
2. The hazards with a note: the exact extent of the damage, say of a cancellation
   on Redis that overwrites a completion, needs bookkeeping of its own for each.

## 8. Not modelled

- The multi-agent service, which makes a text of its input; the security audit,
  observability, harness and product acceptance, which report on what others
  keep.
- The TypeScript API, a partial second implementation without the pipeline, and
  the TypeScript version of the sandbox; the terminal front end, which shows one
  stream and keeps nothing.
- Deployment, documentation, tutorial and scripts.
- Of the modelled components: prompts and their parsing beyond what decides a
  branch, previews and summaries of files, embeddings, the extraction of memories
  from conversations, evaluation of retrieval, artifacts and environment
  snapshots, titles and unread counters, stdio processes of MCP servers, VNC and
  the supervisor of the sandbox. The reasons are given per component in
  `PROJECT.json`.
