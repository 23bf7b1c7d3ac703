# A TLA+ model of the Trio SDK's worker

`temporalio_trio` runs Temporal workflows and activities as Trio tasks. SDK-Core
(Rust) talks to the server; a bridge crate exposes it to Python through requests
and callbacks. This directory specifies that program, checks it with TLC on small
instances and proves what matters most of it with TLAPS for all instances.

Paths below are relative to the repository; `worker/` is `temporalio_trio/worker/`.

## 1. Inventory

| component | state it keeps | operations | correct when |
|---|---|---|---|
| **SingleThreadWorker** (`worker/_single_thread_worker.py`) | `_workflow_states`, `_shutdown_event`, the root nursery | `run`, the dispatcher (`_poll_workflow_activations`, `_dispatch_activation`), one coordinator per workflow (`_run_workflow`, `_wait_and_signal`), main and handler tasks, `_send_completion`, `shutdown` | every activation gets exactly one completion, with all that the activation caused in it; no workflow blocks or breaks another |
| **WorkflowState** (`worker/_workflow_state.py`) | `pending_activation`, `activation_event`, `commands_ready`, `is_complete`, `completion_result` | `deliver_activation`, `wait_for_activation`, `signal_commands_ready`, `wait_for_commands`, `mark_complete` | activations and commands are handed over without loss, and never to or from the wrong side |
| **WorkflowRuntime** (`worker/_runtime.py`) | `commands`, `on_suspend`, `cancel_requested`, `condition_waiters`; tables of pending timers, activities, children, external calls; patches, handlers, in-progress updates | `workflow_sleep`, `workflow_wait_*`, `apply_*` per job | a resolution wakes its waiter once; conditions are re-evaluated when they may hold; replays are deterministic |
| **Conversion** (`worker/_activation.py`, `_bridge_types.py`, `_failure_converter.py`) | none | bytes to jobs, commands to bytes | lossless for what the worker uses |
| **Bridge, Python side** (`_async_bridge.py`) | pending request ids, slots for results | `poll_*`, `complete_*`, heartbeats, shutdown | each request ends exactly once |
| **Bridge, Rust side** (`temporalio_trio_bridge/src/`) | request channel, Tokio runtime, core worker | the request loop, spawned tasks, callbacks, `finalize` | callbacks are always delivered |
| **ActivityWorker** (`worker/_activity.py`, `activity.py`) | `_running_activities`, slots, cancel flags, pending heartbeat | poll loop, start, cancel, heartbeat, completion | one completion per task, cancellation reaches the activity |
| **Worker** (`worker/_worker.py`) | running flag, the bridge worker, both workers | `run`, `shutdown` | shutdown ends, and finalises the bridge worker |
| **Replayer** (`worker/_replayer.py`) | per-history verdict | replay of histories | the verdict names the failure that happened |
| **Client** (`client/`) | handles | start, signal, query, update, follow runs, paging | results belong to the run asked for |
| interceptors, clock, `workflow.py`, `runtime.py`, `testing/`, `_workflow_instance.py` | little or none | delegation, configuration, an earlier design | - |

**How they interact.** The dispatcher task polls an activation through the bridge,
parses it and hands it to the coordinator task of its workflow by
`deliver_activation` (an event); it then blocks in `wait_for_commands`. The
coordinator applies the jobs to the runtime, which sets events that wake the
workflow's tasks. When all tasks of the worker block, the coordinator calls
`signal_commands_ready`; the dispatcher takes the runtime's commands, sends the
completion and polls again. All tasks share one thread and one Trio scheduler:
between two awaits a task runs alone. Activities have their own poll loop in the
same thread; the bridge calls back from Tokio's threads.

**What is hard.** One dispatcher serves all workflows, so one that fails to signal
stops all. `wait_all_tasks_blocked` is the only sign that a workflow has finished
with an activation. Cancellation reaches the coordinator as well as the tasks it
waits for. Eviction drops the state but not the tasks. Completion is noted by one
task (main), collected by a second (the dispatcher) and acted upon by a third (the
coordinator). `PROJECT.json` lists the hazards with their lines.

## 2. Modules

| module | what it is |
|---|---|
| `SingleThreadWorker` | dispatcher, WorkflowState and coordinator, with the part of the runtime they share; their properties |
| `WorkflowHost` | the abstract specification: what the worker promises SDK-Core |
| `WorkflowRuntime` | the waits of one run: its operations, their events and tables, handles, conditions |
| `AsyncBridge` | both sides of the bridge: Python calls, the Rust thread's loop, tasks and callbacks, SDK-Core's worker behind it |
| `WorkerLifecycle` | composes AsyncBridge with a Client, Worker.run, the two poll loops and an activity |
| `ActivityWorker` | one handler per activity, its function, its heartbeats, its completion |
| `Replayer` | the replay context, its iterator and its worker |
| `WorkflowClient` | one task that uses a workflow id through handles, the server, and others that use the same id |
| `ClientIterator` | paging through a history or a list of executions |
| `MCSingleThreadWorker`, `MCWorkflowRuntime` | symmetry for TLC |
| `SingleThreadWorkerProof`, `WorkflowRestProof`, `WorkflowRuntimeProof`, `WorkerLifecycleProof`, `ActivityWorkerProof`, `ReplayerProof`, `ClientIteratorProof`, `WorkflowClientProof` | the proofs, see section 4 |

*Where they meet.* `WorkerLifecycle` EXTENDS `AsyncBridge`: all tasks of Python call
the bridge's operators, and the Rust thread interleaves with them. Its poll loops are
the outside of `SingleThreadWorker` (from a task in hand to its completion is one
place, `dispatching`) and of `ActivityWorker` (one handler). That requests keep the
order in which they were sent, which AsyncBridge shows in its queues, is what
`ActivityWorker` (`wire`) and `Replayer` rely on; a caller that is cancelled leaves
its request behind in all of them.
`SingleThreadWorker` and `WorkflowRuntime` meet at two points. The first shows when
commands are collected: with every task at rest. The second takes that for granted
(`Collect`) and tells apart what the first counts as one kind of operation. After a
cancel of the nursery the first lets no further activation through to the workflow,
because main ends; hence the guard of `Activate`. A cancel in the initial activation
finds no nursery and sets only the flag (`cancelled`), and activations go on.

### SingleThreadWorker

The state is that of the code. `workflowStates` is `_workflow_states`; each
`WorkflowState` is a member of `Insts` with `pendingActivation`, `commandsReady`,
`isComplete` and the runtime's `commands`, `onSuspend` and `cancelRequested`.
Program counters stand for the tasks: `disp` for the dispatcher (polling, in
`wait_for_commands`, awaiting the bridge's answer to a completion), `coord` for
`_run_workflow` (spawned, settling in `_wait_and_signal`, idle in
`wait_for_activation`, at its nursery's exit, failing, done), `task` for main and
for each handler (runnable, waiting for an operation or a condition, cleaning up
in a shield, done).

- *One action is what a task does from one await to the next.* The dispatcher's
  poll and dispatch are one action, because nothing is awaited between them; so
  are all jobs of an activation and its updates (`Process`).
- *The next task is any runnable one*, and a workflow coroutine takes any number of
  steps between two SDK calls. A FIFO schedule is one of these schedules.
- *Jobs and commands are sets of pairs* `<<kind, task>>`. Timers, activities and
  children are one kind of operation, `op`. `Process` lists what the jobs of an
  activation do in the order of the code: resolutions, signals, cancel, queries,
  updates. Which terminal command main ends with is a choice, as is how an update
  is answered; `cancel` needs that Cancelled was raised.
- *SDK-Core is external*: per run at most one activation is outstanding, and
  eviction comes between activations. `hist`, `opsOut` and `closed` keep what Core
  must know to send jobs that make sense.
- *Faults* are a constant: an unknown type, an activation or a completion that
  does not convert, a job that cannot be applied, workflow code that awaits in a
  shielded scope when cancelled.

After `CancelRoot` no poll or completion is possible; the model keeps only the ends
of the tasks.

### WorkflowRuntime

- *An operation is a pair* of its kind and its sequence number. `seq`, `pending`,
  `completed` and `started` are the counters and dictionaries of the runtime;
  `completed` is one function for `fired_timers`, `completed_activities`,
  `completed_children` and `completed_external_*`. Activities and local activities
  share a counter, as in the code. An event in `pending` is named by its operation
  and by whether it is for the start (children only) or the end.
- *A coroutine* is a task of the run: main, a handler, or one that these open. It
  runs any calls between two waits. Its `on` is the event it is parked on, and
  `woken` says whether the event was set or Cancelled is to be raised: Trio's
  Event.wait is not cancelled any more once its event is set, and the code after the
  wait sees `cancel_requested` by itself.
- *Jobs* are applied between `Activate` and `Settle` in any order and number; between
  `Settle` and `Collect` the coroutines run in any order.
- *Errors of the runtime's own bookkeeping* (KeyError for a dictionary entry,
  RuntimeError for a command not found) are the outcome `internal`.
- *The handle* of a child has a memory of its own, `result`; the handle of an
  activity has none.
- *A condition* is an opaque value, true when in `holds`. Who changes it is a choice
  of the instance: synchronous handlers (`notify`) or coroutines (`change`).
- *SDK-Core is external*: `core` gives for each operation what Core may still answer.

### WorkflowHost

One activation in hand at a time; each answered at most once; no other taken before
Core has the answer; nothing but query answers for a closed run, except the second
terminal command of a replay from the cache. `MayDrop` (an activation may be left
unanswered) is true only when parsing or encoding may fail. `ImplementsHost` is
`Host!Spec` under the mapping at the end of SingleThreadWorker.

### AsyncBridge and WorkerLifecycle

- *Two threads.* A Python step is what a Trio task does between two awaits; a Rust
  step is one turn of the Rust thread: the loop receives a request (`Receive`) or
  finds the flag set and ends (`ExitLoop`), a spawned task runs to its first await
  (`Begin...`), Core ends what a task awaits (`CoreAnswers`). A callback blocks the
  Rust thread (`blocked`) until Trio has set the event (`deliver_result`).
- *A call* checks the state (`Accepts`), sends one request and waits (`call`). The
  methods of TrioBridgeWrapper differ in what they check and in whom their request
  reaches, but for arguments and results; so the calls of the client are one
  operation, `rpc`.
- *Giving up.* A timeout or a cancelled scope makes the request ownerless (`GiveUp`):
  it is carried out and its result dropped.
- *The worker* is an entry in a map, held by the tasks that use it; the one that
  drops the last reference ends it. `finalize_shutdown` takes it out of the map and
  finalises it only if nobody else holds it (core_worker.rs:599).
- *Tasks.* `main` runs Worker.run, `workflow` and `act` the poll loops, `activity` a
  handler; `client` connects and closes, `user` calls and may close as well.
  Cancelling a nursery (`CancelNurseries`) ends what waits in it at once and what
  runs at its next wait.
- *A task that nobody handles* is noted in `lost`, a history variable, when its parse,
  encoding or completion fails: the error is logged, the loop goes on, and the task
  stays unanswered (`_single_thread_worker.py:237`, `243-255`, `399`).
- *A loop without a checkpoint*: a refused poll of activations is tried again without
  an await (`spinning`), and Trio's thread does nothing else from then on.

### ActivityWorker

- *Three tasks per activity*: the handler, the function in it, and the task that
  throttles heartbeats. The function has a cancel scope of its own; the nursery that
  holds function and heartbeats ends before the completion is sent.
- *`wire`* is the order of requests as the bridge gets them. Details of heartbeats are
  numbered by the function's calls.
- *Codecs* that suspend while encoding or decoding (`Suspending`) open windows that
  others do not have: a cancel can fall into them.
- *Cancellation* comes from a cancel task, from a heartbeat that cannot be recorded
  and from the worker's nursery; `cause` is what the activity is told. A heartbeat
  fails in encoding, when the bridge refuses it (nothing is on the wire in either case,
  which `failed` notes), or with its answer.
- *Every conversion may raise*, in whatever way the function ended (`Convert`); what is
  in the completion by then is sent, and the exception leaves the handler and ends
  the worker. A closed bridge refuses completions, too.

### Replayer

One task iterates; one is the worker. They share `complete`, `failure` and `failed`,
as the closures of `workflow_replay_iterator` do. The bridge is one request and one
answer per task. SDK-Core evicts each replayed history once, with a reason, but only
while no activation is `owed` its completion: one whose parse, encoding or completion fails
is logged and forgotten by the poll loop, and its history is never evicted. A finalize that meets
a call left behind may drop the bridge's reference only (core `dropped`).
Leaving the context (`Leave` to `Stopped`) is one action per await. A caller that is
cancelled passes through the `finally` clauses only as far as they await nothing.

### WorkflowClient and ClientIterator

A task calls one operation at a time; each is one or several RPCs, in the order of the
code. The server's runs form chains (`first`, `next`), and others start, close and
terminate runs between any two steps. An answer may be lost, in which case Core's
client sends the RPC again; that matters only for RPCs that write. A caller that
gives up leaves its RPC behind (`late`), to be served at any later time. How far an
update has come is an open choice of the server. `reached` notes which run a cancel
or terminate reached and which chain was meant.

ClientIterator has both iterators: the server decides how long a page is and whether
it comes with a token; a token names the run it is for and the position.

## 3. Runs

| run | asks | instance |
|---|---|---|
| `handover` | does each activation reach its workflow and each command its completion, at rest; is every end reported and nothing left in an evicted workflow? | 2 runs, 2 instances, 1 update handler |
| `faults` | at most one answer, and WorkflowHost, under every fault, cancel, replay and late activation | 1 run, 1 instance, 1 update handler |
| `endings` | does a cancelled workflow end and its activation get an answer; has a completion one terminal command, and is a closed run closed again only by a replay; do all tasks end after shutdown? | 1 run, 1 instance, 1 signal handler, replays from the cache, fair |
| `replayed` (violated) | does a replay from the cache end the way its run ended? | 1 run, 1 instance, cancel |
| `waits` | is every wait owed an answer, are cancels sent only for activities without a result, do all tables keep their types? | 2 coroutines; 1 timer, 1 activity or local activity, 1 child; shared handles, failures, failed starts, backoff, cancelled scopes and workflow |
| `handles` | does every wait end, without an error of the runtime; is a condition that holds noticed before the commands go? | 2 coroutines, one of which notifies condition waiters at its end; 1 child, external signal and external cancel, each awaited by one coroutine; a condition that signals change, with and without a timeout; fair |
| `lifecycle` | is every task Core hands out in somebody's hands, unless its handling failed; does a stopped worker, a close, a call end? | all tasks; crashing workflow, failing conversions, failing worker creation, activity polls and completions, calls of the application; fair |
| `shared_close` | while the Rust loop runs, is who waits owed an answer; do completions find the worker; does the worker leave the map? | all tasks; closing at any time from two tasks, cancelled run, crash, failing creation and polls |
| `activities` | one completion, after all heartbeats; do these come in order, the latest included; does the completion name a true cause, a cancel reach the function, nothing stay behind; is every activity answered? | 1 activity, with a codec that suspends or one that does not; 4 heartbeats; all that can happen; fair |
| `client` | do results, queries and cancels belong to the run they were asked of; does result() end? | 2 runs, 1 lost answer, 1 abandoned RPC; fair |
| `iterators` | every item once, in order, none missed? | 2 runs, 4 items, pages of up to 2, limits 0, 1, 3 and none |
| `replays` | is each result the verdict of its own history; does every call of the context end, but the wait for a forgotten activation? | 3 histories; failing worker, failing conversions, refused requests, a caller that gives up or is cancelled; fair |

*Bounds.* In SingleThreadWorker, the one dispatcher makes two runs enough for
interference between runs: it holds one activation at a time, so a third run would
only wait. Two instances
allow an eviction followed by a new start of the same run. A handler runs once per
run; signal and update handlers differ in what they respond and whom they notify,
so one of each covers both kinds. Operations may be opened and resolved any number
of times. The state space is finite without further bounds. Deadlock checking is
off in all runs: the surroundings may fall silent, and worker, client or caller may
stop. Symmetry is used only in runs without liveness properties.

For WorkflowRuntime, `MaxSeq` bounds the operations per counter. It is 1 in all runs:
operations of one kind do not touch each other's entries, a wait is for one
operation, and the safety properties are proved for every bound. Two coroutines share
a handle or cancel each other. `MaxTime` is 1 where a timeout may pass, 0
elsewhere. What a run allows (`Env`) is what its question needs; the runs
together allow everything and use all kinds of operation. `handles` leaves out
`change`, with which ConditionsSeen does not hold, shared handles, failing starts and
backoffs, with which NoInternalError does not hold (see below), and cancelled scopes and
workflows, which end waits early; that an operation fails changes what a wait returns,
not who waits, and is in `waits`. Both safety properties are proved for every `Env`
that they hold with.
Symmetry is over coroutines that notify condition waiters at their end, and over those
that do not.

WorkerLifecycle has one worker per client and one task of each kind out at a time,
which Trio's scheduling allows for activities as well (see `ActivityPolled`). The
application makes one call, while the worker runs. Liveness is checked without
overlapping closes and cancelled runs, which `shared_close` has: under these calls may
indeed hang (see below).

ActivityWorker has one cancel per activity. `MaxStarts` is 1: SDK-Core starts one
activity, either the one with a codec that suspends or the other. Activities share nothing
but the nursery and the bridge, and what one can do to another, to end the worker by
what it raises, `shutdown` does at any time, as `close` closes the bridge. Of four
heartbeats one is sent, one is throttled or arrives while the first is under way, and
others replace it or wait in the channel. Its invariants are proved for every number of
activities, starts and heartbeats.

WorkflowClient: two runs are a chain that goes on, or two chains; a third adds no new
relation between a handle and the run that is reached. One lost answer and one
abandoned RPC; both invariants are proved for every number. Items 4 and
pages of 2 make first, middle and last pages; limits lie below, within and above them.
Replayer: three histories have a predecessor, a current and a next one.

*Fairness of SingleThreadWorker.* Weak fairness of the dispatcher, of each coordinator and of each task:
Trio runs every runnable task. Weak fairness of `CoreComplete`: Core answers every
completion. None for the jobs Core may send: no property relies on a timer firing
or on a signal. A main coroutine may loop forever over its waits; fairness of
`TaskStep` does not make it end, and no property claims that it does.

*Fairness of WorkflowRuntime.* Weak fairness of activations, settling and collecting
(the worker runs), of each coroutine that was woken (Trio), and of each running
coroutine's stopping: this assumes of workflow code that it waits or ends at last,
since nothing in the worker could interrupt it. Strong fairness of Core's answer per operation: it is
possible only while an activation is applied, and Core answers every operation in
the end: a timer fires, an activity has a required timeout, children end.

*Fairness of WorkerLifecycle.* Weak fairness of the SDK's own tasks that may run and of
the Rust thread's loop and spawned tasks. Strong fairness of the answer to an RPC: it
is possible only while the Rust thread is in no callback, and Tokio runs a woken task
in turn. Weak fairness of Core's finalize. None for polls, which may wait for ever,
for the application, or for an activity, which may go on until it is cancelled.

*Fairness of ActivityWorker, Replayer and WorkflowClient.* Trio runs its tasks; functions and
codecs end at last, as nothing could interrupt them; the bridge answers requests
that need no other event. Replayer: strong fairness that Core hands out what a
fed history needs and ends each replay, which it can do only while it is owed no
completion; nothing is assumed of a replay with a forgotten activation. WorkflowClient: the server answers the awaited RPC;
an answer is lost at most `MaxLost` times.

*What the code does contrary to its documents*. The first has a run of its own, which
TLC finds violated; the others are in the models, outside the
instances that check the property concerned or excepted in its statement:

- A replay of a complete state is answered with CompleteWorkflow "to match history"
  (`_single_thread_worker.py:342`, `347`, `349`), also when the run failed or was cancelled (run
  `replayed`, ReplayMatchesHistory). OneTerminal says what does hold with replays.
- The handle of a child keeps the cancellation of its waiter as the child's result
  (`workflow.py:2780`), where the docstring promises the child's value or failure.
- A signal and a cancel in one activation (`_single_thread_worker.py:757`). The coordinator is
  cancelled out of `wait_all_tasks_blocked`, its `finally` restores `on_suspend`, a
  task the signal woke suspends and so signals, and the dispatcher collects before
  main has issued CancelWorkflow, which line 793 promises and which is never sent. The run is
  complete for the worker and open for Core. Hence `handover` has no cancel.
- A child that cannot start wakes its waiter, which looks for its run id and raises
  KeyError (`_runtime.py:827`) in place of WorkflowAlreadyStartedError (line 2234).
- The retry of a local activity (`_runtime.py:1907`) searches the commands of this
  activation for the first attempt, which an earlier completion took to Core; line
  1825 promises to reschedule.
- `_apply_activation` (`_single_thread_worker.py:914`) ignores the answer to an external
  cancel, for which `_runtime.py:1127` says the caller waits; WaitsEnd excepts it.
- A coroutine resumed by an activity, a timer or a child makes a condition hold; the
  one that waits for it is not notified (`_runtime.py:922`, contrary to lines 892-894).
- Requests queued behind a shutdown are dropped (bridge.rs:193), although line 213 promises that the
  callback is always delivered: a call that overlaps `close()` may wait for ever.
- `finalize_shutdown` reports success without Core's finalize while a poll or completion
  that was given up still holds the worker (core_worker.rs:599).
- An activity whose result cannot be encoded is completed without a result
  (`_activity.py:240`); the exception then ends the worker.
- `execute_update` returns None for an update without an outcome so far
  (`_workflow_handle.py:781`).
- A cancelled caller of the Replayer leaves the bridge as it is (`_replayer.py:319`).

*Other limits of the code that the models keep*:

- The poll loop logs an activation that cannot be parsed, or whose completion cannot be
  encoded or is refused, and polls on (`_single_thread_worker.py:243-255`): Core keeps waiting.
  TasksInHand and ContextEnds except these; a scope of the caller ends the replayer's wait.
- A job that cannot be applied gives a completion CancelWorkflow and FailWorkflow
  (`_single_thread_worker.py:614`); OneTerminal is checked without such jobs.
- An unknown workflow type raises outside `_run_workflow`'s `try` and ends the worker
  (fault `type`). Shielded cleanup keeps the nursery open, and the signal meant to
  free the dispatcher comes after the nursery (fault `cleanup`). Both are in `faults`.
- A cancel in the initial activation finds no nursery and only sets the flag;
  CancelEndsWorkflow speaks of workflows whose nursery was cancelled.
- Of two coroutines that await one child, the second to resume raises KeyError, which
  the handle keeps. This is in `waits` and left out of `handles`.
- A child's handle that nobody awaited sends a cancel for a child whose end has been
  applied; an activity's handle does not.
- The timeout of `wait_condition` starts no timer; it is looked at only when something
  else notifies.
- A cancelled wait for an activity does not ask for the activity's cancellation, as
  waits for children do.
- A workflow's handler may outlive main; the jobs that would resolve its waits are
  dropped for a completed workflow, and its nursery never empties.
- An async signal handler in the initial activation finds no nursery and is closed
  unrun.
- An activity whose arguments cannot be decoded stays in `_running_activities`
  (`_activity.py:305`), and a cancel that comes while a codec decodes finds no scope (line 84).
- A second cancel overwrites the cause of the first (line 82).
- A cancelled Worker.run cleans nothing up: Cancelled is no Exception (`_worker.py:401`).

Every property has a mutant of the code (`...Mutant`, `...Stale`,
`...Kept` in the module) that breaks it in its run.

## 4. Proofs

Every safety property that a run shows to hold is proved: for arbitrary sets of runs, instances,
handlers, coroutines and activities, for any bounds, and for all surroundings but those
an assumption names. Each of these kinds of event is excluded because the property
is false with it: TLC finds a violation when it is added to the constants of a run.

- `TypeCorrect` (`Spec => []TypeOK`). TypeOK alone is not inductive: collecting
  reads the commands of the current run's WorkflowState, so TypeInv adds that
  there is one while the dispatcher collects.
- `AnswersOnce` (`Spec => []AnsweredOnce`), under all faults. AnswerInv adds that
  the run collected for is polled, hence not answered yet: `CollectCommands` is the
  one place that answers without looking at Core's side.
- `Implements` (`Spec => ImplementsHost`), under all faults. HostInv adds to
  AnswerInv that at most the current completion is on its way (so Acknowledge
  frees the right run), and that a closed run's workflow is complete or evicted
  (so no commands are collected from it): a terminal command and `is_complete`
  are set in one step. Each action then maps to one action of WorkflowHost or to a
  stutter.
- `EndsOnce`: OneTerminal, from `EndInv`: a coordinator runs main once, a workflow has one
  terminal command at most, and a completion has what a workflow had or answers a replay.
  Assumption: `Plain` (no jobs that fail while they are applied): a failing job makes a run
  fail whose main still ends.
- `HandshakeKept`, `RestKept`, `CommandsKept`, `EvictedKept`: Handshake,
  CollectedAtRest, NothingStranded and EvictedAtRest, all from one invariant,
  `RestInv`. It says per instance what each coordinator state allows: runnable tasks
  only while it settles, and then `on_suspend` is unset; work, an undelivered
  activation or commands only while the dispatcher collects for it; a coordinator
  leaves its loop only when the workflow is complete. Assumption: `Calm` (no cancel
  jobs, no jobs that fail while they are applied). Both halves are needed: TLC finds each
  of the six properties of `handover` besides TypeOK violated with either kind of job alone. A signal
  and a cancel in one activation, say, let a completion be collected while tasks still
  run. Eviction, replay, late activations, shutdown, unknown types, failing conversions and
  shielded cleanup are allowed.
- `UpdatesAnswered`, `CompletionsReported`: UpdateAnsweredAtOnce and CompletionReported, both
  from `ReportInv`, under the same assumption. It joins RestInv and HostInv: what a workflow
  has to report (the end of main, the response to an update) stays in its
  commands until the completion of the activation in hand takes them. An update
  that was sent is in the activation in hand; the completion of that activation has the
  response, or the run is left without a workflow (`Responded`).

- `RuntimeTypeCorrect`, `WaitersServedKept`, `CancelsLiveActivitiesKept`, from
  `RuntimeInv`. WaitersServed is not inductive: that Core has not answered yet must
  be tied to the result being unknown, and that to the event being there. So the
  invariant says in which of five states each operation is (`OpState`: new, on its
  way, open, a started child, over), how tables, commands and Core agree in it, and
  what a wait relies on (`WaitState`: a sleeper's event is pending and its result
  unknown; one that was woken has its result). Numbers above the counter are unused
  (`Commanded`), so a new operation meets no old entry. Assumption of
  `WaitersServedKept`: no external cancels, whose answers nobody applies.
- `ConditionsKept`: ConditionsSeen, from ConditionsWatched (no sleeper's condition
  holds, whether or not all are at rest). Assumption: coroutines change no state that
  conditions read (`change`): nobody would notify.
- `NoBookkeepingError`: NoInternalError, from `ChildInv`.
  While a child's end is awaited its handle has no result (`Unfinished`), and as long as
  it has none the event for its end is there (`EventsKept`): so the waiter that is woken
  finds its entry. Assumptions: nobody shares a child (`OneWaiter`), children start and
  local activities do not back off (`Faultless`), since a
  waiter would miss the child's entry, or the command to send again.
- `NoAnswerLost`, `CompletionsInTime`, `RunReleasesWorker` (WorkerLifecycle): OwedWhileOpen,
  CompletionsFindWorker and WorkerReleased, for every failure, cancellation and close. The
  invariant is `LifeInv`. A request is in one of four places (channel, queue of the Rust
  loop, its tasks, a callback): `Matched` says that what is under way for a caller
  is what it waits for, `OneEach` that it is there once, `Awaiting` which kinds
  of requests wait for Core. `Phases` says how far Worker.run, its two loops and the
  shutdowns it asked for have come, each against the others; `InMap` that a
  finalize under way has taken the worker out of the map. Completions find the
  worker because finalize is asked for only when the loops that send them are over.
- `TasksStayInHand`: TasksInHand, from LifeInv and `HandInv` (which loop or handler has the
  task), whatever fails. The property itself excepts tasks whose parse, encoding or completion
  failed (`lost`) and ends where a nursery is cancelled: a poll given up then may take a task with it.
- `CompletesLast`, `SendsLatest`, `ReportsCause`, `CancelsReach`, `LeavesNoEntry`: the
  invariants of ActivityWorker. None is inductive. The invariant, `Good`, is about one
  activity at a time: where handler and heartbeat task may be together (`Stages`: the
  latter is over when the completion goes), what is on the wire before and after the
  completion (`Wired`), how received, pending and sent details are ordered
  (`Details`, `Recent`), and what a cause needs (`Causes`, `Reaches`, `Entry`). A
  step of one activity leaves the others alone (`Frame`), but for the end of the worker.
- `VerdictsKept` (Replayer). ReplayInv ties the pieces a verdict travels through:
  what Core replays or was fed is the current history (`InHand`); an open
  verdict, an answer under way, or `complete` with `failure` (`Phases`, `Travels`).
  So what Yield appends is the verdict of `next`, and verdicts of yielded
  histories do not change.
- `YieldsInOrder`, `YieldsAll` (ClientIterator). IteratorInv: yielded and the rest of the page and
  the token continue each other, of one owner.
- `ResultsOfChain`, `CancelsInChain` (WorkflowClient). ClientInv: chains of runs are linked forward
  (`Chains`) and only grow (`Grows`); an answer fits the runs as they are now (`Fits`),
  which holds on because what closed stays; the request awaited fits the handle
  (`Suits`); an RPC left behind still says which chain was meant (`Meant`).

`LifecycleTypes` is the type invariant of WorkerLifecycle. Each proof has one lemma per group
of actions. Only model-checked are the liveness properties (PolledIsAnswered,
CancelEndsWorkflow, ShutdownEnds, WaitsEnd, RunEnds, CloseEnds, CallsEnd, Answered, ResultEnds,
ContextEnds): fairness and ENABLED are out of the prover's reach.

Assumed of SDK-Core and the server, and not shown: Core's finalize does not wait for tasks it
has handed out; late starts and updates are like those of others; a close event
of a canceled or terminated run names no next run; Core hands each replayed history
out until it has evicted it, once.

## 5. Not modelled

- *Patches, continue-as-new, search attributes* of the runtime: they issue commands and
  wait for nothing. That a patch is answered alike in every replay would need replay of a
  history, which is in no module.
- *Conversions* (`_activation.py`, `_bridge_types.py`, `_failure_converter.py`): translations
  between protobuf and dataclasses without state. That they may fail is modelled.
- *Interceptors, clock, telemetry, decorators and static queries of `workflow.py` and
  `activity.py`*: delegation or configuration.
- *`_workflow_instance.py`*: an earlier design that only tests run.
- *Signals, schedules and completion of activities from outside* by the client: one RPC each
  and no state on the client's side.
- *Test environments*: they start processes.

What could be added next: a model of patches under replay, and what does hold of the handshake
once a cancel job or a failing job has come.
