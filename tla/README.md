# Verification of the agent orchestrator

TLA+ models, TLC runs and TLAPS proofs for the orchestrator service under
`src/src/app`.  Paths below are relative to that directory; `ai/` stands for
`modules/ai/`.

## The system

One FastAPI process (a single worker; the supervisor is process-local), one
Postgres database (READ COMMITTED) and outside parties: executors, a flow
engine, GitHub, operators.  Everything in the process is a coroutine of one
event loop, so two handlers interleave exactly at their `await`s, and two
database sessions at their statements.

| component | state | operations | talks to |
|---|---|---|---|
| Deterministic run loop (`ai/runtime_deterministic.py`) | `runs`, `steps`, `dispatches`, `run_memory` rows; position in the coroutine | mark running, resolve, insert, dispatch, wait, settle, save, terminate | supervisor, executors, database |
| Policy run loop (`ai/runtime.py`, `stop_conditions.py`, `reconciliation.py`) | the same rows, `policy_calls`, `webhook_events` | stop check, policy call, tool or engine dispatch, wait for a wake | supervisor, engine, model provider |
| Supervisor (`ai/supervisor.py`) | tasks, wake events, dispatch futures, signal buffers | spawn, wake, cancel, register/await/deliver dispatch, await/deliver signal, shutdown | both loops, HTTP handlers |
| Control plane (`ai/service.py`, `repository.py`, `router.py`) | `run_signals`, `webhook_events` | start, cancel, signal, executor webhook, engine event | supervisor, database |
| Lifecycle signals (`ai/lifecycle/service.py`, `work_items.py`, `tasks.py`) | `work_items`, `tasks`, approvals, assignments, plans, implementations, `lifecycle_signals` | 14 signals; derivations W2 and W5 | engine, effectors |
| Reactor and mirror (`ai/lifecycle/reactor.py`, `engine_client.py`, `reconciliation.py`) | `pending_aux_writes`, `pending_signal_contexts`, status cache | react to `item.transitioned`, materialise, wake, derive; `reconcile-aux` | engine, supervisor |
| Executors (`ai/executors/*`) | per-call | local, remote, human, engine, sequence, composite; memory patches | outside parties |
| Flow resolver (`ai/flow_resolver.py`, `flow_predicates.py`) | none | next node of a flow | run loop |
| Dispatch reconciliation (`ai/executors/reconcile.py`) | `dispatches` | startup sweep, `reconcile-dispatches` | database, engine |
| Process lifetime (`lifespan.py`) | | zombie sweep, orphan sweep, bootstrap, drain | everything |
| Effectors, GitHub checks, traces, tools, CLI | outgoing calls, files | | outside |

What is hard: a handler reads a row, awaits, and writes it later (no row
version on runs, dispatches, steps and memory); cancellation is delivered at
whatever await the loop stands at, commits included; results come before, after
and without the wait for them; deadlines race results; the process stops between
any two commits; sweeps run beside the service; webhooks are lost, repeated and
reordered; idempotency keys outlive the attempt that recorded them.

## RunLoop: one run and everything that touches its rows

`RunLoop.tla` models one run of the deterministic loop.

State.  `run` is the `runs` row (status, stop_reason); `disp` and `step` the
`dispatches` and `steps` rows, indexed by step number; `mem` the step whose
result `run_memory` names last.  `pc`, `n`, `env`, `why` and `handling` are the
position and locals of the coroutine; `stopReq`, `cancelPend` and `fut` the
supervisor's record of it; `req` the HTTP requests in flight; `cli` the
`reconcile-dispatches` process with the snapshot it decides from; `proc` the
process.

Reads and commits.  A session that reads a row and commits a change of it is two
actions: a read that chooses where to go, and a commit at a location named with
a trailing `W`.  Being at a `W` location is the stale knowledge itself: the write
happens whatever the row has become.  SQLAlchemy writes the columns that were
assigned, so `SetStatus` leaves the reason alone.

Cancellation.  `task.cancel()` sets `cancelPend`; from then on the loop takes no
step but `Interrupt`, the delivery of `CancelledError` at the await it stands at.
A commit in flight may or may not have reached the database (`CommitInFlight \/
UNCHANGED`).  The finally clause of a human wait and the two except clauses are
followed as written, including a second cancellation inside them.

Requests.  `CancelRead .. CancelReturn` is `cancel_run` with `supervisor.cancel`;
`HookRead .. HookDeliver` the executor webhook; `SignalRead`, `SignalFind` and
then the same two steps `send_signal`; `WakeRead .. WakeCommit` the reactor's
`_wake_dispatch`, which resolves the future before its transaction ends.  `HookRead`
takes dispatches of remote executors only: no other one is told the address to call.
`SweepRead` merges the two SELECTs of the sweep (open dispatches, then their runs);
apart they could only write one closed state over another.

`SequentialRun.tla` is the abstract specification of what the rows of a run tell
whoever reads them: no requests, commits in flight, supervisor or process, only the
run, its steps, what is remembered and whether it still has a task (`Told` maps them:
a step is open from its insert to its settlement).  A run is taken up once; a step is
begun when every earlier one is completed and remembered; a step is settled once; the
task closes the run as done only between two steps and within the budget, for the
budget only when it is used up, and otherwise as failed or cancelled; a cancel may
come at any time and is the only verdict the task may overrule; after the task, only
a cancel and the sweep of a restart write the run.

Data left out: which node the flow chooses (a nondeterministic choice among the
bound modes, termination and an error of the resolver), payloads, intake and
trace records.

| run | question | result |
|---|---|---|
| `runloop_safety` | the rows change as `SequentialRun` promises (refinement), steps wait for each other, one open dispatch, no lost result, no forgotten run (running, paused or still pending), nothing dispatched after an answered cancel, with every mode, 3 requests, a restart and a sweep | holds |
| `runloop_liveness` | a running run settles or parks on a person; a cancel is answered | holds |
| `runloop_lostcancel` | a cancel that was answered sticks | refuted |

Bounds.  Two steps are enough to have an earlier, a current and a later step;
three requests let a cancel, a webhook and a signal overlap; one stop of the
process gives every combination of crash point and restart sweep; one operator
sweep may straddle anything.  Requests are interchangeable, so the safety run
uses symmetry; the liveness run does not.  Deadlock is not checked: a run that
has ended, with its requests served, stops.

Fairness (`Fairness`).  Weak fairness of the loop's steps (the event loop and
its timers run every ready coroutine, and `wait_for` fires), of each request's
steps once it has arrived, of shutdown and boot (the process manager restarts
the service) and of the second half of a sweep.  Nothing is assumed of users,
executors, operators or crashes.  A human wait has no timer in the liveness run.

Assumptions: the database answers while the process is up (a statement that
fails raises out of the loop like any other exception, into `_terminate`, which
then needs the database too); one worker; `asyncio.wait_for` of Python 3.12,
which drops a result delivered in the tick of the deadline.

Behaviour of the model on which no run is spent: a cancel between the commit of
a new run and the spawn of its task finds nothing to stop, and the loop executes
the cancelled run; a run that the process stopped on while it was pending is in
no sweep and stays pending; the startup sweep leaves a pending dispatch of an
engine step as it is (the transition to failed is illegal, and the error is
caught row by row); a cancel of a paused run leaves its dispatch row open until
the next start; `cancel_run` overwrites the outcome of a run that ended after the
handler read it; a late webhook overwrites a dispatch the deadline failed;
`reconcile-dispatches` closes the checkpoint of a live paused run.

## SignalTable, WorkItemFlow, Lifecycle: the signals of a work item

`SignalTable.tla` is the data of the 14 signals, translated from the transition
functions rather than from `declarations.py`: what each requires, writes and
derives, who may decide (`ApprovalMatrix`), and what the idempotency key is made
of.  A call stands for its key, so it has a role or a text exactly where the
payload that is hashed has one.

`WorkItemFlow.tla` is the abstract specification: a signal is one atomic step
that checks, writes, derives W2 or W5 and is remembered.  One signal is not: a
pull request submits a task on the strength of what its status was
(`LateSubmission`), and a derivation may have counted before it (`Before`).

`Lifecycle.tla` is the service without a flow engine.  A request stands at the
statement it executes next; the locks it holds follow from where it stands:

| in the code | in the module |
|---|---|
| `check_and_record` (INSERT of the key; a second INSERT waits) | `Receive`, `KeyHeld` |
| `receive_github_pr`: `get_task_by_external_ref`, without a lock | `ReceiveGithubPr` (`saw`) |
| `submit_implementation_signal`, called by it with the task in the session | `SubmitFromGithub` |
| `_load_locked` on the task, the checks, the writes | `LockTask`, `TaskLocked`, `Status`, `Permitted` |
| `maybe_advance_to_in_progress`, `maybe_advance_to_ready` | `LockItemForDerivation`, `Seen`, `Derived` |
| `_guarded_work_item_signal`, `open_work_item_signal` | `LockItem`, `CommitItem` |
| the commit of a task signal | `CommitTask` |
| `GenerateTasksEffector` in a second transaction | `GenerateTasks` |
| an exception, a lost connection, a crash | `Rollback`, `Abort` |

READ COMMITTED: what a transaction wrote is invisible to the others until it
commits, but its own COUNT sees it (`Seen`).  That is why W5 depends on the lock
of the work item being taken ahead of the COUNT.

| run | question | result |
|---|---|---|
| `lifecycle_item` | overlapping transactions add up to atomic signals and late submissions (refinement of `WorkItemFlow`); W5 is neither early nor lost; only a pull request opens a task of a ready work item | holds |
| `lifecycle_task` | repeated and overlapping deliveries count once; status and record of decisions agree; no circle of waits | holds |
| `lifecycle_reopened` | every task of a ready work item is terminal (`docs/data-model.md`) | refuted: a pull request moves a task back that was deferred after it was read |

The GitHub webhook.  `receive_github_pr` finds its task by a plain select and then
calls `submit_implementation_signal` in the same session.  `_load_locked` selects
the row `FOR UPDATE`, but the session already has it, the query does not ask for
`populate_existing` and nothing has expired it: it waits for the lock and then
checks the status it read before.  `saw` is that status.  A task that was deferred
or finished meanwhile goes back to `impl_review`, its work item ready or not
(`lifecycle_reopened`), and the decisions about it stay on record.  What the code
keeps in spite of it is what the other properties say: `reopened` remembers the
tasks this happened to, changes nothing, and lets `OpenOnlyByPullRequest`, `Record`
and the refinement name the exception instead of leaving the webhook out.

Bounds.  Two transactions are enough for every race of two signals, and two
tasks for W5 (one finished, one not).  They are also enough for a circle of waits:
task and work item are the only two kinds of row, and one transaction locks one of
each.  In `lifecycle_task` a plan can be submitted with two texts and an
implementation by its owner and by a pull request, which makes two calls of one
signal on one task with different keys; locking the item is in, unlocking and
closing it are left to `lifecycle_item`, which leaves the rejections to
`lifecycle_task`.  `Sent` and `PullRequests` name the calls of each run.

Fairness is strong fairness of a transaction's statements: PostgreSQL grants a
row lock in the order it was asked for, so a lock that is free again and again
is granted.  Nothing is assumed of callers or of aborts.

Not spent a run on: a task finished while its work item is locked derives
nothing, and unlocking does not try again, so the item stays `in_progress` with
every task terminal; a crash between the commit that opens an item and its task
generation leaves it without tasks for good (a repeated open returns early); the
second unlock of a work item has the idempotency key of the first, so that a
work item can be locked and unlocked once (`docs/data-model.md` draws a round
trip).

## Mirror: the signals with a flow engine

With an engine the local status is a cache.  `Mirror.tla` models the signals'
engine-present branches, the engine, its webhooks, the reactor and
`reconcile-aux`, all interleaved statement by statement.

State.  `engine` and `log` are the engine's side: the status of its items and
the transitions it carried out, each with the correlation id it was given.
`cache`, `assignee`, `keys`, `outbox` (`pending_aux_writes`) and `aux` (records
written, with who wrote them) are committed rows; `seen` the webhooks whose
transaction committed; `req`, `hook` and `cli` the transactions in flight.

| in the code | in the module |
|---|---|
| `_mirror_to_engine`, inside the signal's transaction, its errors swallowed | `MirrorToEngine` |
| key, outbox row, superseded assignment, derivation in one commit | `CommitSignal` |
| the pull-request webhook, which runs `submit_implementation_signal` without the engine (that it checks a status read before the lock is modelled in `Lifecycle`; no property of `Mirror` rests on it) | `ReceiveGithubPr` |
| executors of a run that drive the engine | `EngineMoves`, `RegisterWorkItem`, `ProposeTask` |
| `receive_lifecycle_item_transitioned`, which does not stop at a known dedupe key | `Deliver` |
| `_materialize_aux` (FOR UPDATE SKIP LOCKED, INSERT, DELETE) | `MaterializeAux`, `InsertAux` |
| `_update_status_cache` | `UpdateStatusCache` |
| `_handle_task_transition` (derivation without the engine) | `HandleTaskTransition` |
| `reconcile`, `_reconcile_one`, `_apply` | `ReconcileStart` to `ReconcileCommit`, `ReconcileFails` |

Locks are the row locks, the lock on the claimed outbox row, the unique index on
active assignments and the share lock that the foreign key of a record takes on
its task.  The correlation id of an attempt that was rolled back matches nothing
(`Forgotten`).  A delivery and `reconcile-aux` can wait for each other over one
assignment; PostgreSQL cancels one (`DeadlockDetected`).

`DecisionOutbox.tla` is the abstract specification of the tables: a decision is
accepted once, in one commit with its outbox row (`Accept`); the reactor moves one
decision from the outbox to the records (`Materialize`); `reconcile-aux` moves a
batch (`Reconcile`), which may hold what the reactor has taken out since the batch
was read, so that such a decision has two records, one of each.  No writer
writes one a second time.  Under the mapping a record is a decision, its writer
and which copy it is (`twice` holds the second copies); the engine, the log, the
caches, locks and transactions in flight are hidden.

| run | question | result |
|---|---|---|
| `mirror_any` | webhooks early, late, twice, together or never, crashes, `reconcile-aux` in between: every accepted decision has its outbox row or its record; the tables do what `DecisionOutbox` promises (refinement) | holds |
| `mirror_orderly` | webhooks once each and in order: the cached task status ends up as the engine's; no signal waits for ever | holds |

Bounds.  One task; two deliveries for a webhook that comes twice at once; two
transitions, so that one can overtake the other; a task that starts where the
signals of the run apply (`Start`), besides a work item just opened.  In
`mirror_orderly` two signals overlap with each delivery.

Fairness: as in Lifecycle for the statements of signals, deliveries and
`reconcile-aux` (the HTTP client gives up after its timeout).  `Answered` is
stated for histories in which `reconcile-aux` is not started for ever: each start
may take share locks that a waiting signal has to sit out.

`Converged` leaves out tasks whose pull-request webhook wrote the cache behind
the engine's back, and says nothing of the work item: its status is also written
by derivations, and the reactor's W5 does not tell the engine, which then refuses
the close.  Records may be written once by each of the two drainers.

Not spent a run on: the webhook of a transition can be handled before the
signal's commit and finds no outbox row, which then stays for `reconcile-aux`
although no webhook was lost; one row whose insert fails (a second active
assignment) leaves the session of `reconcile-aux` unusable, and the rest of the
batch is abandoned.

## AgentFlow, TaskPipeline: what a run does to its work item

`RunLoop` leaves open which node the flow chooses and what the node does.
`AgentFlow.tla` is the other half: the lifecycle agents `@0.3.0`,
`@0.4.0-manual`, `@0.5.0-manual` and `@0.6.0-human`, from the transitions of
`agents/*.yaml` through the resolver and its predicates to the executors bound in
`executors/bootstrap.py`.  A node is one action; how its dispatch, its wait and
its commit interleave with the handlers is `RunLoop`'s subject, and here the run
may stop between any two nodes (`Interrupt`).

State.  `node` is the node to run, `hop` its next call to the engine; `mem` is
`RunMemory.data["lifecycle.v1"]` and `filed` the sidecars beside it (plans,
mockups, assignments, pull requests, by task); `rejections` counts the rejections
of each checkpoint; `engine` is the work item and its tasks in the flow engine,
which nothing in the loop reads back; `posted` the last signal of the client.

| in the code | in the module |
|---|---|
| `nodes` and `transitions` of the agents | `V03` to `V06`, `Transitions` |
| `FlowResolver.resolve_next` and `flow_predicates.py` | `Successor`, `Holds`, `Raises` |
| the bindings of `bootstrap.py` | `Bound`, `Runs` |
| content executors, their patches and their failures | `LoadWorkItem` to `ReviewImplementation`, `ContentFails` |
| human bindings, their schemas, business rules and patches (`lifecycle_manual_patches.py`) | `Checkpoint`, `Valid`, `Applicable`, `Deliver` |
| engine, sequence and engine-create executors | `RegisterWorkItem`, `EngineNode`, `SubmitImplementation`, `CloseWorkItem` |
| `propose_tasks.py`, one task after the other | `ProposeTask`, `ProposeTasks` |
| local handlers, validators, commits of artifacts | `MarkTaskDone`, `CorrectImplementation`, `Validate`, `CommitArtifact` |

Every call to the engine may be carried out, refused (the engine has no such
edge) or lost, with or without its effect.  A checkpoint takes any signal: the
dispatch is found by its run, never by the name, so a client that sends its last
signal again may answer the next checkpoint with it (`Resend`).

`TaskPipeline.tla` is the abstract specification, the same for every variant:
tasks enter while the work item is open, go through every stage in order, one
task at a time, and the work item is closed when all of them are done.

| run | question | result |
|---|---|---|
| `agentflow_runs` | the memory's cursor and the engine agree; the only refused transition is the one of `agentflow_replan`; budgets, record keeping, completion and termination; `AgentFlow` implements `TaskPipeline` | holds |
| `agentflow_replan` | a rejected plan loops back to its author (IMP-006) | refuted: the next `advance_plan` asks for a transition the engine does not have |

Bounds.  Two tasks, one with a mockup, and task lists of up to two are enough for
a task before, at and after the cursor, and for a list that is empty or replaced.
Two corrections and two rejections are the smallest budgets with a use below the
bound and one at it.  The rejections of `0.4.0` and `0.5.0` are limited by their
gates alone, which the run finds open and shut (`terminate_rejection_budget` is
reached); `0.6.0` has no gate, so a run of it has at most two rejections
(`RejectCap`).  One signal is sent again.  An answer at `confirm_assignment` may
name any task, listed or not (`Subject`), so a completed run need not have an
assignee for every task, and `CompletedMeansDone` does not say so.  One list names a task twice, which nothing in the code
rejects: `propose_tasks` creates a second item for it, links the memory to that one
and leaves the first behind at `assigning`; `engine` follows the item the memory is
linked to.  Plans, briefs and documents have no content.

Fairness: the loop takes its next node, and operators answer (`WF(Step)`).  The
second half is an assumption about people, without which `Terminates` says
nothing; it excludes `@0.6.0-human`, whose rejection loops have no budget.

## LlmLoop: the policy loop

`LlmLoop.tla` models one run of `runtime.py`: stop conditions, the call of the
policy, local tools with their pauses, steps dispatched to the engine, the
webhooks that settle them (`ingest_engine_event`, `reconciliation.py`), signals,
`cancel_run` and shutdown.

The wake event of a run is one `asyncio.Event` with two meanings: webhooks,
cancel and shutdown set it, a waiting step clears it, and the stop conditions
read it as the request to cancel.  The module keeps it as the one variable
`wake`, which is what `NoLostWake` and `llm_wake` are about.

State.  `run` and `steps` are rows, `attempts` and `merged` the parts of the
run's memory that matter; `loop` is the coroutine's position and locals
(`guarded`: inside the try of `run_loop`; `why`: the stop reason; `count`, `last`,
`err`: the locals of `_iterate`); `buffer` is the supervisor's signal buffer;
`hook` the progress of each webhook and `engine` the event types this engine
sends.

Steps.  The loop advances from one await to the next.  Every action ends in
`Resume`: if the task was cancelled while the await was in flight, its effect
stays and `CancelledError` comes out (`Thrown`), as it does without the effect in
`Interrupt`.  A webhook is a read (event, step and run, in separate sessions with
nothing but these rows in common), a commit decided by the rank it read, and the
wake.  `Begin` to `CommitEnd` follow the source in order.

| run | question | result |
|---|---|---|
| `llm_runs` | step numbers, no lost wake, a task that is over leaves a closed run, the policy is asked only over settled steps, corrections within one of their budget, one pause for a payload, every run settles, a cancel ends the task | holds |
| `llm_wake` | a run ends as cancelled only when that was requested (`stop_conditions.py`) | refuted: a webhook nobody waits for is read as the request |

Bounds.  Two steps give an earlier one whose webhook is late and a current one;
the budget of corrections is 0, so that one is over it; one signal, which may come
before, in and after a pause; two kinds of engine, one that reports only the end
of a step and one that reports its start.  An engine ends a step once.  Tokens are
not counted: any call may have spent the budget.  Events that arrive when the task
is over are not followed.

Fairness: weak fairness of the loop's steps, of the delivery of a cancellation,
of the webhooks that have been read and of the two halves of `cancel_run`.
Engines and operators owe nothing; a wait for the engine has a deadline, a wait
for a signal has none, so `LoopSettles` allows it.  Deadlock is not checked: a
run that has ended stops.

Not spent a run on: with two webhooks of one step in flight its rank is not
monotone (a late start can overwrite a finish, a late finish a time-out), which is
why `StepBarrier` is stated for engines that report only the end; a webhook that
finds the run closed wakes the loop all the same; a task that crashed, and whose
except clause is interrupted by a cancel, may leave the run running
(`EndedMeansClosed` names the case); a payload that nobody waited for answers
the next pause.  The run sends one signal; that a second overwrites a payload still
in the buffer is part of the model, and `AnswersHold` holds for any number.

## Proofs

`RunLoopProofs.tla` proves, for every step budget, set of modes and set of
requests, by TLAPS:

* `TypeCorrect`: `Spec => []TypeOK`, one group of variables at a time;
* `OutcomeCorrect`: status and stop reason agree on every terminal run.  It needs
  one more fact, `ReasonChosen`: whoever is at `_terminate` has a reason.  No run
  checks it by itself, as it follows from `SequentialRun`, whose every verdict
  writes both;
* `InvariantHolds`, and from it `BarrierHolds` (`StepBarrier`) and
  `AtMostOneOpenDispatch` (`OneOpenDispatch`).  Neither is inductive alone.
  `LoopInv` adds what the loop knows about the step it executes (`CurrentStep`:
  no rows before the insert, settled rows before the save), that nothing is
  recorded before the loop starts (`FreshStart`), and that a handler or sweep
  about to write a dispatch has seen its row (`WritersSawRow`), so that it cannot
  touch a step the loop has not reached.  `CommitEffects` and `Surroundings` say
  what the loop's commits, and everything else, may do to the rows; with them each
  conjunct of the invariant has one lemma.

`RunLoopEndings.tla` proves how a run is left: `NoZombieEver` (`NoZombie`),
`PausedIsParked` (`PausedMeansParked`), `NoLostWakeEver` (`NoLostWake`) and
`NothingAfterCancel` (`NoDispatchAfterCancel`).  `EndInv` adds to `LoopInv`:

* `CancelMeans` and `CancelKnown`: a task is cancelled only by a request that has
  closed the run, or at the end of the grace period.  Without them a task cut off
  inside its except clause could leave any run open;
* `NotYetRunning`, `TakenUp`, `FreshRow`: what the row is before the first step;
* `LeftOpen`, `NoTaskDown`, `StopsCounted`: `NoZombie` in the states in which the
  process is not serving;
* `Unwinding`, `HumanPause`, `OneForce`: a loop that unwinds with its run paused is
  one the grace period cut off, which happens once, so that the finally clause of
  the human wait is not itself interrupted.

`LoopRun`, `LoopMoves`, `InterruptMoves` and `Others` say what any step may do to
the row, the position and the process, and every conjunct has one lemma on top of
them.  `WakeInv` is about results: the dispatch has a future from its insertion to
the end of the wait (`Registered`), the engine's wake resolves it before its row
is committed (`WakeDelivered`), and a handler that committed the row of the step
the loop waits for has yet to deliver (`ResultComes`).  `StoppedForGood` is the
invariant behind `NoDispatchAfterCancel`: after the answer there is no task and no
way to start one.

`RunIsSequential` proves the refinement, `Spec => ImplementsSequentialRun`.  `TaleInv`
adds to the invariants above what ties the position of the loop to the rows: the step
being executed is open until it is settled and every other one is done or not begun
(`OpenStep`, `Behind`), the verdict the loop carries fits them (`Verdict`), and the
run is not closed but by a cancel as long as there is a task (`OpenRow`, `AtWork`).
Every commit of the loop is then one step of `SequentialRun` or none (`CommitTold`,
`EndTold`, `LoopTold`), and so is everything around it (`OthersTold`).  The reward is
`CompletedIsWhole`, which is proved of `SequentialRun` and holds of `RunLoop` by the
refinement: a run whose row says completed has every step it began completed and
remembered, whatever was cancelled, crashed or swept meanwhile.

`LoopIsFinite`, the safety half of `RunningSettles`: `Left` counts the awaits the
loop task has before it, fifteen for each step left of the budget and those of
`_terminate` and the except clause, and is never more than `Longest`.  Every
statement of the task and every `CancelledError` lowers it (`LoopLowers`), and no
request, webhook, sweep or stop raises it (`OthersKeep`): of one task, only the
waits for an executor, a webhook or a signal can be what goes on for ever.

`LifecycleProofs.tla` proves, for every set of tasks, requests, texts and signals:

* `TypeCorrect`: `Spec => []TypeOK`;
* `OncePerKey` (`KeyedOnce`) and `ReadyMeansFinished` (`OpenOnlyByPullRequest`),
  from `IInv`, which adds `LockInv`.  `Stage(r)` says what a transaction knows at
  the statement it has reached (its key is not committed, the status it checked
  still holds, `sees` is what the rows derive), and `Exclusive(q, r)` that two
  transactions hold neither the same key nor the same row.  The invariant is
  needed because the commit writes what was checked two statements earlier.  A
  pull request is the exception (`PullRequestStage`): all it knows is that its task
  has reached implementation, which is never taken back, and what a derivation
  counted is true of the tasks as they are or as they were `Before` it (`Counted`);
* `LastTaskDerivesReady` (`LastTaskMakesReady`) as an action property, from the
  same invariant: the commit's `sees` is the derivation of the rows as they are;
* `RecordsAgree` (`StatusHasItsRecord`), from `Records`: a task deferred keeps its
  decisions, and a pull request that saw a task being implemented finds its plan
  approved when it commits (`HasPlan`), whatever became of the task;
* `Refinement` (`Serializable`): the commits map to the atomic signals of
  `WorkItemFlow` and, for a pull request that was overtaken, to `LateSubmission`,
  the task generation to `Generate`, all else to stutters.

`MirrorProofs.tla` proves, for every number of requests, deliveries, tasks and
engine transitions, and for webhooks in any order:

* `TypeCorrect`: `Spec => []TypeOK`;
* `NothingLost` (`OutboxConserved`) and `WrittenOnce` (no drainer writes a record
  a second time), from `IInv`.  Its parts: an accepted signal holds a key that is its own and not yet
  committed (`OwnKey`), so that the rollback of an attempt forgets no correlation
  id a delivery works with; a claimed outbox row is there, claimed once, and not
  among the rows `reconcile-aux` deleted (`OwnClaim`); what `reconcile-aux` works on
  are committed keys (`WorksOnKeys`); a record that was written has no outbox row
  any more (`RecordLeft`).  `WrittenOnce` follows since a drainer writes only
  while it holds the row.  `LogGrows` says what any step may do to the log; with
  it the steps that write no table share one lemma (`EngineOrSignalStep`);
* `TablesImplementOutbox` (`ImplementsOutbox`): `CommitSignal` maps to `Accept`,
  `CommitHook` to `Materialize` when it claims an outbox row, `ReconcileCommit` to
  `Reconcile`, all else to stutters (`TablesStep`).  It rests on `IInv` and on two
  invariants of its own: what `reconcile-aux` works on is in the outbox or was
  recorded by the reactor (`FromOutbox`), and only a decision that is recorded
  leaves the engine out (`InlineRecorded`);
* `Convergence` (`Converged`), from `InStep` on top of `IInv`: the engine stands
  where the last transition of a task in the log left it (`EngineLast`); and with
  webhooks in order the delivery under way is the only one and the next of the log
  (`InOrder`), the cached status is the one the last handled transition told
  (`CacheLast`), and a delivery that found nothing to write still has nothing to
  write when it commits (`NothingToWrite`).  The last part is the one at risk: the
  reactor compares without locking the row, and only a signal of a pull request
  can change the status in between.

`LlmLoopProofs.tla` proves, for every set of nodes, budgets and kinds of engine:

* `TypesHold` (`TypeOK`) and `NumbersHold` (`StepsNumbered`), from `StepsInv`.  A
  refused tool call leaves its row without counting it, so the number of rows and
  the count may differ by one: `Counting` says at which locations, and that the
  loop has noted the error wherever it returns to the stop check with a row too
  many;
* `CorrectionsHold` (`CorrectionsBounded`): `Budgeted` follows the count from the
  stop check to the handler that adds to it;
* `WakeHolds` (`NoLostWake`): `WakeComes` extends the property to the locations
  ahead of the wait, since the webhook may overtake the loop there.  `HooksKnown`
  says that a webhook in flight has seen its step;
* `EndHolds` (`EndedMeansClosed`).  `Ledger` is the row: a reason is there with the
  status that belongs to it, but where the first commit of the loop wrote
  `running` over a cancel.  `Ways` is the coroutine: from wherever a
  `CancelledError` would end the task, the run is closed or the process goes down;
* `LoopIsFinite`, the safety half of `LoopSettles`: `AwaitsLeft`, eight awaits for
  each step left of the budget and those of the turn and of `_terminate`, is at
  most `Longest` and gets less with every step of the coroutine and every cancel
  that hits one, while nothing beside the loop touches it.  A step that is not
  counted always ends the run: an error of the policy, of a tool or of the engine,
  and `terminate`, lead to a stop check that must stop (`Doomed`), so the loop
  cannot turn without spending its budget.

`LlmLoopRows.tla` proves two theorems about the rows of the steps:

* `AnswersHold` (`OneAnswerEach`): the rows of answered pauses hold signals that
  were sent and are not in the buffer any more (`AnswersSent`), and webhooks never
  write the row of a pause (`EngineRows`);
* `BarrierHolds` (`StepBarrier`).  The wake says nothing of its own, so the
  invariant has to know where it came from: while nobody stops the loop a wake is
  set only by the webhook of the step the loop awaits (`WakeMeans`), that webhook
  finds the row settled (`HeardSettled`), and a step that was counted has had its
  only webhook (`CountedOver`, `Marked`), so that no later one can wake the loop
  early.

`AgentFlowProofs.tla` proves, for every set of tasks, of written task lists and of
agents, and every budget, what TLC checks with two tasks; the four declarations are
the ones of the YAML:

* `TypeCorrect` (`TypeOK`): `TypeInv` adds that the node is one of the declaration
  that runs (`FlowsClosed`: every edge leads to a node) and that the client's last
  signal is a payload a schema knows;
* `CorrectionsHold` and `BudgetsHold` (`CorrectionsCounted`, `BudgetsRespected`):
  `BudgetInv` says that something is left of every budget, but at the nodes where
  its last unit has just been spent.  `Budgeted` and `Gated` state, declaration by
  declaration, the shape this needs: a failed review leads to the correction and
  from there through the predicate that compares;
* `AlignedHolds`, `RefusalsHold`, `CompletedHolds` (`Aligned`,
  `OnlyReplanRefused`, `CompletedMeansDone`) and `NothingLost` (`Kept`).  None is
  inductive: `Aligned` speaks of the loop only, and what the engine has there
  depends on the nodes before it.  `Phased` divides every declaration into the
  opening, the nodes that write the list, the proposal, the loop and the closing,
  with the edges between them; `FlowInv` says for each phase what memory, files
  and engine hold, and `StageInv` where the current task is at each node of the
  loop.  Each step then has one lemma (`RegisterFlow` to `DeliverFlow`), and the
  nodes that leave the engine alone share three (`StayEarly`, `StayLoop`,
  `StayClosing`);
* `Refines` (`Implements`): every step of every variant is a step of
  `TaskPipeline`, or none.  A task enters the pipeline when an item of its is
  assigned.  Where the list names a task twice the proposal of its second item maps
  to no step (`Entering`, which reads the calls made so far); an item that an outage
  left before its assignment is not in the pipeline (`SettledRun`: while a run goes
  on there is none);
* `RunsDescend` and `Founded`, the safety half of `Terminates`: every step of a run
  that goes on lowers `Measure`, a tuple compared from the left: the rejections left,
  the phase, the tasks to do, the corrections left of the current task, the rank of
  the node, the calls it has left to make.  `Descending` states of each declaration
  that its edges lead to a lower rank or phase, but for three kinds: out of
  `mark_task_done` the tasks to do get fewer, out of `correct_implementation` the
  corrections left do, and back from a checkpoint the rejections left do
  (`BudgetInv` says there was one).  `0.6.0` has no gate, so there the theorem is
  about the steps that reject nothing.  The order has no infinite descent, so a run
  of the other variants that is always allowed to step ends; that the loop and the
  operators do step is the fairness of `Terminates`, which only TLC checks.

Only model-checked: every liveness property (of three, what a step can do against it
is proved: the measures of `LoopIsFinite`, twice, and of `RunsDescend`); every safety property of a passing
run is proved.  What `LifecycleProofs` and `MirrorProofs` need of the signal table
is proved once, in `SignalTableProofs.tla`.

Assumptions: those of `SignalTable` (`Item \notin Tasks`, `Tasks # {}`,
`SoloDev \in BOOLEAN`), of `Mirror` (`Start \subseteq TaskStatus`), of `RunLoop`
and of `LlmLoop`: budgets and bounds are natural numbers, node sets lie in each
other as the code has them, values that stand for different things differ.  Of a
task list `AgentFlow` assumes nothing but that it is a list of ids.

Out of reach of the prover, and left to TLC: liveness under fairness and
`ENABLED`; what a recursive definition computes for every input.

## Plan

| module | what | state |
|---|---|---|
| `RunLoop`, `SequentialRun` | one run and everything that touches its rows, and what the rows promise | modelled, checked, safety and refinement proved |
| `SignalTable`, `WorkItemFlow`, `Lifecycle` | the signals without an engine, and what they promise | modelled, checked, safety and refinement proved |
| `Mirror`, `DecisionOutbox` | the signals with an engine, the reactor, the outbox, and what the tables promise | modelled, checked, safety and refinement proved |
| `AgentFlow`, `TaskPipeline` | the lifecycle agents as a machine over the run's memory, and what they promise | modelled, checked, safety and refinement proved |
| `LlmLoop` | the policy loop | modelled, checked, safety proved |

Left: the compensating transaction of the engine
executor and the composite executor as transactions of their own; rotation and
migration of traces.

## Not modelled, and why

* Effectors other than task generation, GitHub calls and the model provider: calls
  to the outside without state of their own here.
* Routes, schemas, authentication and the command line: formatting around the
  handlers, which are the actions.  Reads (lists, metrics, traces) change nothing.
* The trace store: an append-only record beside each step that no handler reads
  back to decide anything.
* The composite executor, which no agent of the repository binds; retries inside
  HTTP clients, which repeat a call whose outcome `AgentFlow` already leaves open;
  loading and validating YAML; wiring at boot.
* The audit rows of remote dispatches, and of engine dispatches the rows that record
  correlation: what they decide (which dispatch a webhook settles) is
  `HookRead` and `WakeRead` of `RunLoop`.  The compensation that marks such a
  dispatch failed is the error outcome of the executor there.
* `PendingSignalContext`: a log entry, written and deleted.
