------------------------- MODULE SingleThreadWorker -------------------------
(***************************************************************************)
(* The workflow half of the worker (worker/_single_thread_worker.py with   *)
(* worker/_workflow_state.py): one dispatcher task polls activations from  *)
(* SDK-Core, hands each to the coordinator task of its workflow, waits for *)
(* the workflow's commands and completes the activation.  All tasks run    *)
(* under one Trio scheduler, so a task runs alone from one await to the    *)
(* next: such a stretch is one action.  Which runnable task goes next is   *)
(* left open, as is how many bare checkpoints a coroutine takes before its *)
(* next SDK call.                                                          *)
(*                                                                         *)
(* SDK-Core is external: per run it has at most one activation outstanding *)
(* and it evicts a run only between activations.                           *)
(***************************************************************************)
EXTENDS Naturals

CONSTANTS
  Runs,      \* run_ids
  Insts,     \* WorkflowState objects the worker may create (bounds TLC's starts)
  Main,      \* the workflow's main coroutine
  Updates,   \* update handler invocations of a run
  Signals,   \* signal handler invocations of a run
  Env,       \* what the surroundings do besides starting runs: see EnvKinds
  Faults,    \* what may go wrong: see FaultKinds
  NoInst     \* "run_id not in self._workflow_states"

Handlers == Updates \cup Signals
Tasks    == {Main} \cup Handlers

\* "type":    the start job names no registered workflow type, or its
\*            constructor raises
\* "parse":   an activation cannot be converted (_parse_activation raises)
\* "apply":   a job cannot be applied (a result fails to decode)
\* "encode":  a completion cannot be converted (poc_to_bridge_completion raises)
\* "cleanup": workflow code waits in a shielded scope after it was cancelled
FaultKinds == {"type", "parse", "apply", "encode", "cleanup"}

ASSUME NamesAssumption ==
  /\ Main \notin Handlers
  /\ Updates \cap Signals = {}
  /\ NoInst \notin Insts \cup Runs
\* The jobs SDK-Core sends ("evict" ends a cache entry, "replay" starts a closed
\* run it has kept, "late" is an activation without jobs for an evicted run),
\* and "shutdown", the call of shutdown().
EnvKinds == {"signal", "update", "resolve", "query", "cancel", "evict",
             "replay", "late", "shutdown"}

ASSUME KindsAssumption == Faults \subseteq FaultKinds /\ Env \subseteq EnvKinds

(* Activation jobs and workflow commands are pairs <<kind, task>>.         *)
Start   == <<"start", Main>>
Evict   == <<"evict", Main>>
Query   == <<"query", Main>>
Cancel  == <<"cancel", Main>>
Jobs    == {Start, Evict, Query, Cancel} \cup ({"signal"} \X Signals)
             \cup ({"update"} \X Updates) \cup ({"resolve"} \X Tasks)
NoActivation == {<<"none", Main>>}
Activations  == SUBSET Jobs

Terminals == {"complete", "fail", "cancel", "continue"} \X {Main}
Answer    == <<"answer", Main>>          \* QuerySuccess or QueryFailure
Commands  == Terminals \cup {Answer} \cup ({"op"} \X Tasks)
               \cup ({"accepted", "completed", "rejected"} \X Updates)

VARIABLES
  (* SDK-Core (external) *)
  core,      \* per run: absent, issued, polled, answered, idle
  act,       \* per run: jobs of its last activation
  reply,     \* per run: commands of the completion on its way to Core
  answers,   \* per run: completions sent for the last activation
  opsOut,    \* per run: tasks whose timer, activity or child is open in Core
  hist,      \* per run and handler: none, sent, accepted, done
  closed,    \* per run: Core has seen a terminal command
  (* the worker *)
  disp,      \* dispatcher: poll, collect (wait_for_commands), ack, stopped
  cur,       \* the run whose activation the dispatcher handles
  workflowStates,  \* self._workflow_states: run -> WorkflowState
  shutdown,  \* self._shutdown_event
  root,      \* root nursery: open, cancelled
  (* each WorkflowState, its runtime and its tasks *)
  coord,     \* _run_workflow: unused, spawned, settling, idle, exiting,
             \* failing, done, crashed
  pendingActivation, commandsReady, isComplete,
  commands,        \* runtime.commands
  onSuspend,       \* runtime.on_suspend is set
  cancelRequested, \* runtime.cancel_requested
  scopeCancelled,  \* the workflow nursery's cancel scope
  task             \* per task: none, ready, woken (from an op), cancelled
                   \* (Cancelled is raised in it), op, cond, cleanup, done

coreVars == <<core, act, reply, answers, opsOut, hist, closed>>
dispVars == <<disp, cur, workflowStates, shutdown, root>>
wfVars   == <<coord, pendingActivation, commandsReady, isComplete, commands,
              onSuspend, cancelRequested, scopeCancelled, task>>
vars     == <<coreVars, dispVars, wfVars>>

CoreTypeOK ==
  /\ core \in [Runs -> {"absent", "issued", "polled", "answered", "idle"}]
  /\ act \in [Runs -> Activations]
  /\ reply \in [Runs -> SUBSET Commands]
  /\ answers \in [Runs -> Nat]
  /\ opsOut \in [Runs -> SUBSET Tasks]
  /\ hist \in [Runs -> [Handlers -> {"none", "sent", "accepted", "done"}]]
  /\ closed \in [Runs -> SUBSET Terminals]
DispTypeOK ==
  /\ disp \in {"poll", "collect", "ack", "stopped"}
  /\ cur \in Runs
  /\ workflowStates \in [Runs -> Insts \cup {NoInst}]
  /\ shutdown \in BOOLEAN
  /\ root \in {"open", "cancelled"}
WorkflowTypeOK ==
  /\ coord \in [Insts -> {"unused", "spawned", "settling", "idle", "exiting",
                          "failing", "done", "crashed"}]
  /\ pendingActivation \in [Insts -> Activations \cup {NoActivation}]
  /\ commandsReady \in [Insts -> BOOLEAN]
  /\ isComplete \in [Insts -> BOOLEAN]
  /\ commands \in [Insts -> SUBSET Commands]
  /\ onSuspend \in [Insts -> BOOLEAN]
  /\ cancelRequested \in [Insts -> BOOLEAN]
  /\ scopeCancelled \in [Insts -> BOOLEAN]
  /\ task \in [Insts -> [Tasks -> {"none", "ready", "woken", "cancelled",
                                   "op", "cond", "cleanup", "done"}]]
TypeOK == CoreTypeOK /\ DispTypeOK /\ WorkflowTypeOK

Init ==
  /\ core = [r \in Runs |-> "absent"]
  /\ act = [r \in Runs |-> {}]
  /\ reply = [r \in Runs |-> {}]
  /\ answers = [r \in Runs |-> 0]
  /\ opsOut = [r \in Runs |-> {}]
  /\ hist = [r \in Runs |-> [h \in Handlers |-> "none"]]
  /\ closed = [r \in Runs |-> {}]
  /\ disp = "poll"
  /\ cur \in Runs
  /\ workflowStates = [r \in Runs |-> NoInst]
  /\ shutdown = FALSE
  /\ root = "open"
  /\ coord = [i \in Insts |-> "unused"]
  /\ pendingActivation = [i \in Insts |-> NoActivation]
  /\ commandsReady = [i \in Insts |-> FALSE]
  /\ isComplete = [i \in Insts |-> FALSE]
  /\ commands = [i \in Insts |-> {}]
  /\ onSuspend = [i \in Insts |-> TRUE]
  /\ cancelRequested = [i \in Insts |-> FALSE]
  /\ scopeCancelled = [i \in Insts |-> FALSE]
  /\ task = [i \in Insts |-> [t \in Tasks |-> "none"]]

-----------------------------------------------------------------------------
(* SDK-Core                                                                *)

Fresh == {i \in Insts : coord[i] = "unused"}

Issue(r, jobs) ==
  /\ core' = [core EXCEPT ![r] = "issued"]
  /\ act' = [act EXCEPT ![r] = jobs]
  /\ answers' = [answers EXCEPT ![r] = 0]
  /\ opsOut' = [opsOut EXCEPT ![r] = {t \in @ : <<"resolve", t>> \notin jobs}]
  /\ hist' = [hist EXCEPT ![r] = [h \in Handlers |->
                IF {<<"signal", h>>, <<"update", h>>} \cap jobs # {}
                THEN "sent" ELSE @[h]]]
  /\ UNCHANGED <<reply, closed, dispVars, wfVars>>

\* Jobs Core may send r now.  A closed run gets queries only.
NewHandlers(r, hs) == {h \in hs : hist[r][h] = "none"}
Offered(r) ==
  {j \in {Query, Cancel} \cup ({"signal"} \X NewHandlers(r, Signals))
           \cup ({"update"} \X NewHandlers(r, Updates))
           \cup ({"resolve"} \X opsOut[r]) :
     j[1] \in Env /\ (closed[r] # {} => j = Query)}

CoreStart(r) ==
  /\ core[r] = "absent" /\ Fresh # {}
  /\ \E jobs \in SUBSET Offered(r) : Issue(r, {Start} \cup jobs)

CoreActivate(r) ==
  /\ core[r] = "idle"
  /\ \E jobs \in SUBSET Offered(r) \ {{}} : Issue(r, jobs)

\* Core replays a closed run the worker still has cached.
CoreReplay(r) ==
  /\ "replay" \in Env
  /\ core[r] = "idle" /\ closed[r] # {}
  /\ Issue(r, {Start})

CoreEvict(r) ==
  /\ "evict" \in Env
  /\ core[r] = "idle"
  /\ Issue(r, {Evict})

\* A late activation for a run the worker no longer has.
CoreLate(r) ==
  /\ "late" \in Env
  /\ core[r] = "absent"
  /\ Issue(r, {})

Told(r, h) ==
  IF {<<"completed", h>>, <<"rejected", h>>} \cap reply[r] # {} THEN "done"
  ELSE IF <<"accepted", h>> \in reply[r] THEN "accepted"
  ELSE hist[r][h]

\* The completion reaches Core and its callback wakes the dispatcher.
CoreComplete(r) ==
  LET gone == workflowStates[r] = NoInst
  IN /\ core[r] = "answered"
     /\ core' = [core EXCEPT ![r] = IF gone THEN "absent" ELSE "idle"]
     /\ act' = [act EXCEPT ![r] = {}]
     /\ reply' = [reply EXCEPT ![r] = {}]
     /\ opsOut' = [opsOut EXCEPT ![r] =
                     IF gone THEN {}
                     ELSE @ \cup {t \in Tasks : <<"op", t>> \in reply[r]}]
     /\ hist' = [hist EXCEPT ![r] = [h \in Handlers |->
                   IF gone THEN "none" ELSE Told(r, h)]]
     /\ closed' = [closed EXCEPT ![r] =
                     IF gone THEN {} ELSE @ \cup (reply[r] \cap Terminals)]
     /\ disp' = IF disp # "ack" THEN disp
                ELSE IF shutdown THEN "stopped" ELSE "poll"
     /\ UNCHANGED <<answers, cur, workflowStates, shutdown, root, wfVars>>

-----------------------------------------------------------------------------
(* The dispatcher: _poll_workflow_activations and _dispatch_activation.    *)
(* A poll that returns goes straight on to the dispatch: no await between. *)

Runnable == {"ready", "woken", "cancelled"}
Waiting  == {"op", "cond"}
QueryAnswersMutant(jobs) == jobs \cap {Query}  \* mutant: echoes the job
QueryAnswers(jobs) == {Answer : j \in jobs \cap {Query}}

Take(r) == disp = "poll" /\ core[r] = "issued"

\* mutant: the dispatcher does not await the bridge's answer
SendMutant(r, cmds) ==
  /\ core' = [core EXCEPT ![r] = "answered"]
  /\ reply' = [reply EXCEPT ![r] = cmds]
  /\ answers' = [answers EXCEPT ![r] = @ + 1]
  /\ disp' = "poll"
  /\ cur' = r
  /\ UNCHANGED <<act, opsOut, hist, closed>>

\* _send_completion, _send_empty_completion: the request is queued at once,
\* then the dispatcher awaits the answer of the bridge.
Send(r, cmds) ==
  /\ core' = [core EXCEPT ![r] = "answered"]
  /\ reply' = [reply EXCEPT ![r] = cmds]
  /\ answers' = [answers EXCEPT ![r] = @ + 1]
  /\ disp' = "ack"
  /\ cur' = r
  /\ UNCHANGED <<act, opsOut, hist, closed>>

\* wait_for_commands: the dispatcher blocks until r's coordinator signals.
AwaitCommands(r) ==
  /\ core' = [core EXCEPT ![r] = "polled"]
  /\ disp' = "collect"
  /\ cur' = r
  /\ UNCHANGED <<act, reply, answers, opsOut, hist, closed, shutdown, root>>

\* mutant: no return after the empty completion, so a second one follows
DispatchEvictionMutant(r) ==
  /\ Take(r) /\ Evict \in act[r]
  /\ workflowStates' = [workflowStates EXCEPT ![r] = NoInst]
  /\ core' = [core EXCEPT ![r] = "answered"]
  /\ reply' = [reply EXCEPT ![r] = {}]
  /\ answers' = [answers EXCEPT ![r] = @ + 2]
  /\ disp' = "ack"
  /\ cur' = r
  /\ UNCHANGED <<act, opsOut, hist, closed, shutdown, root, wfVars>>

DispatchEviction(r) ==
  /\ Take(r) /\ Evict \in act[r]
  /\ workflowStates' = [workflowStates EXCEPT ![r] = NoInst]
  /\ Send(r, {})
  /\ UNCHANGED <<shutdown, root, wfVars>>

DispatchCompletedReplay(r) ==
  /\ Take(r) /\ Evict \notin act[r] /\ Start \in act[r]
  /\ workflowStates[r] # NoInst /\ isComplete[workflowStates[r]]
  /\ Send(r, {<<"complete", Main>>})
  /\ UNCHANGED <<workflowStates, shutdown, root, wfVars>>

DispatchUnknownRun(r) ==
  /\ Take(r) /\ Evict \notin act[r] /\ Start \notin act[r]
  /\ workflowStates[r] = NoInst
  /\ Send(r, {})
  /\ UNCHANGED <<workflowStates, shutdown, root, wfVars>>

DispatchNewWorkflow(r) ==
  /\ Take(r) /\ Evict \notin act[r] /\ Start \in act[r]
  /\ workflowStates[r] = NoInst
  /\ \E i \in Fresh :
       /\ workflowStates' = [workflowStates EXCEPT ![r] = i]
       /\ coord' = [coord EXCEPT ![i] = "spawned"]
       /\ pendingActivation' = [pendingActivation EXCEPT ![i] = act[r]]
  /\ AwaitCommands(r)
  /\ UNCHANGED <<commandsReady, isComplete, commands, onSuspend,
                 cancelRequested, scopeCancelled, task>>

\* _handle_activation_for_completed_workflow answers queries, ignores the rest.
DispatchToCompleted(r) ==
  /\ Take(r) /\ Evict \notin act[r] /\ Start \notin act[r]
  /\ workflowStates[r] # NoInst /\ isComplete[workflowStates[r]]
  /\ Send(r, QueryAnswers(act[r]))
  /\ UNCHANGED <<workflowStates, shutdown, root, wfVars>>

DeliverActivation(r) ==
  LET i == workflowStates[r]
  IN /\ Take(r) /\ Evict \notin act[r]
     /\ i # NoInst /\ ~isComplete[i]
     /\ pendingActivation' = [pendingActivation EXCEPT ![i] = act[r]]
     /\ AwaitCommands(r)
     /\ UNCHANGED <<workflowStates, coord, commandsReady, isComplete, commands,
                    onSuspend, cancelRequested, scopeCancelled, task>>

\* An activation that cannot be parsed is logged and forgotten.
PollFails(r) ==
  /\ "parse" \in Faults
  /\ Take(r)
  /\ core' = [core EXCEPT ![r] = "polled"]
  /\ UNCHANGED <<act, reply, answers, opsOut, hist, closed, dispVars, wfVars>>

Signalled == disp = "collect" /\ commandsReady[workflowStates[cur]]

TakeCommandsStale(i) ==  \* mutant: commands_ready is not replaced
  /\ commands' = [commands EXCEPT ![i] = {}]
  /\ UNCHANGED <<coord, pendingActivation, commandsReady, isComplete, onSuspend,
                 cancelRequested, scopeCancelled, task>>
TakeCommandsKept(i) ==  \* mutant: runtime.commands is not cleared
  /\ commandsReady' = [commandsReady EXCEPT ![i] = FALSE]
  /\ UNCHANGED <<coord, pendingActivation, commands, isComplete, onSuspend,
                 cancelRequested, scopeCancelled, task>>

\* The rest of wait_for_commands.
TakeCommands(i) ==
  /\ commandsReady' = [commandsReady EXCEPT ![i] = FALSE]
  /\ commands' = [commands EXCEPT ![i] = {}]
  /\ UNCHANGED <<coord, pendingActivation, isComplete, onSuspend,
                 cancelRequested, scopeCancelled, task>>

\* mutant: the list is cleared before it is copied
CollectCommandsMutant ==
  LET i == workflowStates[cur]
  IN /\ Signalled
     /\ Send(cur, {})
     /\ TakeCommands(i)
     /\ UNCHANGED <<workflowStates, shutdown, root>>

CollectCommands ==
  LET i == workflowStates[cur]
  IN /\ Signalled
     /\ Send(cur, commands[i])
     /\ TakeCommands(i)
     /\ UNCHANGED <<workflowStates, shutdown, root>>

\* The commands were taken but do not encode: logged, nothing is sent.
CollectFails ==
  /\ "encode" \in Faults
  /\ Signalled
  /\ TakeCommands(workflowStates[cur])
  /\ disp' = IF shutdown THEN "stopped" ELSE "poll"
  /\ UNCHANGED <<coreVars, cur, workflowStates, shutdown, root>>

-----------------------------------------------------------------------------
(* The workflow: _run_workflow, its main coroutine and its handlers.       *)

InScope(i) == ~scopeCancelled[i] /\ root = "open"

\* notify_condition_waiters
Notified(st) == [t \in Tasks |-> IF st[t] = "cond" THEN "ready" ELSE st[t]]
InterruptedMutant(st) ==  \* mutant: handlers are spared
  [t \in Tasks |-> IF t = Main /\ st[t] \in Waiting THEN "cancelled" ELSE st[t]]

\* Cancelled is raised in every task waiting outside a shield.
Interrupted(st) ==
  [t \in Tasks |-> IF st[t] \in Waiting THEN "cancelled" ELSE st[t]]

SignalsIn(jobs) == {s \in Signals : <<"signal", s>> \in jobs}
UpdatesIn(jobs) == {u \in Updates : <<"update", u>> \in jobs}

\* _apply_activation: resolutions wake their waiter; a signal handler runs, to
\* its end or as the new tasks in async; a cancel interrupts the others.
Resolved(st, jobs) ==
  [t \in Tasks |-> IF <<"resolve", t>> \notin jobs THEN st[t]
                   ELSE IF st[t] = "op" THEN "woken"
                   ELSE IF st[t] = "cleanup" THEN "cancelled" ELSE st[t]]
SignalsApplied(st, jobs, async) ==
  IF SignalsIn(jobs) = {} THEN st
  ELSE [t \in Tasks |-> IF t \in SignalsIn(jobs)
                        THEN IF t \in async THEN "ready" ELSE "done"
                        ELSE Notified(st)[t]]
JobsApplied(st, jobs, async) ==
  LET st1 == SignalsApplied(Resolved(st, jobs), jobs, async)
  IN IF Cancel \in jobs THEN Interrupted(st1) ELSE st1

\* _apply_update_async, once per update: how[u] is "reject" (no handler, or
\* the validator refused), "sync", "raise" or "async" (the handler is a task).
UpdatesApplied(st, how, us) ==
  LET st1 == IF \E u \in us : how[u] # "reject" THEN Notified(st) ELSE st
  IN [t \in Tasks |-> IF t \notin us THEN st1[t]
                      ELSE IF how[t] = "async" THEN "ready" ELSE "done"]
UpdateRepliesMutant(how, us) ==  \* mutant: a refused update gets no response
     {<<"accepted", u>> : u \in {v \in us : how[v] # "reject"}}
  \cup {<<"completed", u>> : u \in {v \in us : how[v] = "sync"}}
  \cup {<<"rejected", u>> : u \in {v \in us : how[v] = "raise"}}
UpdateReplies(how, us) ==
     {<<"accepted", u>> : u \in {v \in us : how[v] # "reject"}}
  \cup {<<"completed", u>> : u \in {v \in us : how[v] = "sync"}}
  \cup {<<"rejected", u>> : u \in {v \in us : how[v] \in {"reject", "raise"}}}

\* The first half of _wait_and_signal.
BeginSettling(i) ==
  /\ coord' = [coord EXCEPT ![i] = "settling"]
  /\ onSuspend' = [onSuspend EXCEPT ![i] = FALSE]

\* The jobs of one activation, then its queries and updates: one stretch
\* without an await, ending in _wait_and_signal with on_suspend unset.
Process(i, st, jobs, async, scoped) ==
  \E how \in [UpdatesIn(jobs) -> {"reject", "sync", "raise", "async"}] :
    /\ task' = [task EXCEPT ![i] = UpdatesApplied(
                  JobsApplied(st, IF scoped THEN jobs ELSE jobs \ {Cancel}, async),
                  how, UpdatesIn(jobs))]
    /\ commands' = [commands EXCEPT ![i] =
                      @ \cup QueryAnswers(jobs)
                        \cup UpdateReplies(how, UpdatesIn(jobs))]
    /\ cancelRequested' = [cancelRequested EXCEPT ![i] = @ \/ Cancel \in jobs]
    /\ scopeCancelled' = [scopeCancelled EXCEPT ![i] =
                            @ \/ (scoped /\ Cancel \in jobs)]
    /\ BeginSettling(i)
    /\ pendingActivation' = [pendingActivation EXCEPT ![i] = NoActivation]
    /\ UNCHANGED <<commandsReady, isComplete, coreVars, dispVars>>

\* The initial activation is applied before the nursery opens: async signal
\* handlers are closed unrun and a cancel only sets the flag.
StartWorkflow(i) ==
  /\ coord[i] = "spawned"
  /\ Process(i, [task[i] EXCEPT ![Main] = "ready"], pendingActivation[i], {},
             FALSE)

WakeUp(i) == coord[i] = "idle" /\ pendingActivation[i] # NoActivation

ApplyActivation(i) ==
  /\ WakeUp(i) /\ InScope(i)
  /\ \E async \in SUBSET SignalsIn(pendingActivation[i]) :
       Process(i, task[i], pendingActivation[i], async, TRUE)

NurseryEmpty(i) == \A t \in Tasks : task[i][t] \in {"none", "done"}

CoordinatorRunnable(i) ==
  \/ coord[i] = "spawned"
  \/ WakeUp(i)
  \/ coord[i] \in {"settling", "idle"} /\ ~InScope(i)
  \/ coord[i] \in {"exiting", "failing"} /\ NurseryEmpty(i)

\* wait_all_tasks_blocked: every task of the worker waits for something.
Settled ==
  /\ \A i \in Insts :
       /\ ~CoordinatorRunnable(i)
       /\ \A t \in Tasks : task[i][t] \notin Runnable
  /\ ~Signalled

\* mutant: one checkpoint instead of wait_all_tasks_blocked
SignalCommandsReadyMutant(i) ==
  /\ coord[i] = "settling" /\ InScope(i)
  /\ onSuspend' = [onSuspend EXCEPT ![i] = TRUE]
  /\ commandsReady' = [commandsReady EXCEPT ![i] = TRUE]
  /\ coord' = [coord EXCEPT ![i] = IF isComplete[i] THEN "exiting" ELSE "idle"]
  /\ UNCHANGED <<pendingActivation, isComplete, commands, cancelRequested,
                 scopeCancelled, task, coreVars, dispVars>>

\* _wait_and_signal returns; the loop goes on unless the workflow completed.
SignalCommandsReady(i) ==
  /\ coord[i] = "settling" /\ InScope(i) /\ Settled
  /\ onSuspend' = [onSuspend EXCEPT ![i] = TRUE]
  /\ commandsReady' = [commandsReady EXCEPT ![i] = TRUE]
  /\ coord' = [coord EXCEPT ![i] = IF isComplete[i] THEN "exiting" ELSE "idle"]
  /\ UNCHANGED <<pendingActivation, isComplete, commands, cancelRequested,
                 scopeCancelled, task, coreVars, dispVars>>

\* Cancelled is raised in the coordinator: it leaves for the nursery's exit.
InterruptCoordinator(i) ==
  /\ coord[i] \in {"settling", "idle"} /\ ~InScope(i)
  /\ onSuspend' = [onSuspend EXCEPT ![i] = TRUE]
  /\ coord' = [coord EXCEPT ![i] = "exiting"]
  /\ UNCHANGED <<pendingActivation, commandsReady, isComplete, commands,
                 cancelRequested, scopeCancelled, task, coreVars, dispVars>>

ExitNurseryMutant(i) ==  \* mutant: the final signal is missing
  /\ NurseryEmpty(i)
  /\ coord[i] = "exiting" \/ (coord[i] = "failing" /\ root = "cancelled")
  /\ coord' = [coord EXCEPT ![i] = "done"]
  /\ UNCHANGED <<pendingActivation, commandsReady, isComplete, commands,
                 onSuspend, cancelRequested, scopeCancelled, task, coreVars,
                 dispVars>>

\* The nursery has no task left; the dispatcher must not wait in vain.
ExitNursery(i) ==
  /\ NurseryEmpty(i)
  /\ coord[i] = "exiting" \/ (coord[i] = "failing" /\ root = "cancelled")
  /\ coord' = [coord EXCEPT ![i] = "done"]
  /\ commandsReady' = [commandsReady EXCEPT ![i] = @ \/ root = "open"]
  /\ UNCHANGED <<pendingActivation, isComplete, commands, onSuspend,
                 cancelRequested, scopeCancelled, task, coreVars, dispVars>>

\* A job cannot be applied: the exception cancels the nursery ...
ApplyRaises(i) ==
  /\ "apply" \in Faults
  /\ coord[i] = "spawned" \/ (WakeUp(i) /\ InScope(i))
  /\ \E done \in SUBSET pendingActivation[i] :
       \E async \in SUBSET SignalsIn(done) :
         task' = [task EXCEPT ![i] =
                    IF coord[i] = "spawned" THEN @
                    ELSE Interrupted(JobsApplied(@, done, async))]
  /\ scopeCancelled' = [scopeCancelled EXCEPT ![i] = TRUE]
  /\ coord' = [coord EXCEPT ![i] = "failing"]
  /\ pendingActivation' = [pendingActivation EXCEPT ![i] = NoActivation]
  /\ UNCHANGED <<commandsReady, isComplete, commands, onSuspend,
                 cancelRequested, coreVars, dispVars>>

\* ... and fails the workflow once the nursery is empty.
FailWorkflow(i) ==
  /\ coord[i] = "failing" /\ NurseryEmpty(i) /\ root = "open"
  /\ commands' = [commands EXCEPT ![i] = @ \cup {<<"fail", Main>>}]
  /\ isComplete' = [isComplete EXCEPT ![i] = TRUE]
  /\ commandsReady' = [commandsReady EXCEPT ![i] = TRUE]
  /\ coord' = [coord EXCEPT ![i] = "done"]
  /\ UNCHANGED <<pendingActivation, onSuspend, cancelRequested, scopeCancelled,
                 task, coreVars, dispVars>>

\* workflow_sleep, workflow_wait_activity, workflow_wait_condition and the like
\* register what they wait for, call on_suspend when it is set, and await.
Suspend(i, t, how, next) ==
  /\ commands' = [commands EXCEPT ![i] =
                    IF how = "cond" THEN @ ELSE @ \cup {<<"op", t>>}]
  /\ commandsReady' = [commandsReady EXCEPT ![i] = @ \/ onSuspend[i]]
  /\ task' = [task EXCEPT ![i][t] = next]
  /\ UNCHANGED <<coord, pendingActivation, isComplete, onSuspend,
                 cancelRequested, scopeCancelled, coreVars, dispVars>>

TaskWaits(i, t) ==
  /\ task[i][t] \in {"ready", "woken"}
  /\ \E how \in Waiting :
       Suspend(i, t, how, IF InScope(i) THEN how ELSE "cancelled")

\* A cancelled coroutine cleans up, waiting inside a shielded scope.
TaskCleansUp(i, t) ==
  /\ "cleanup" \in Faults
  /\ task[i][t] = "cancelled"
  /\ Suspend(i, t, "cleanup", "cleanup")

\* _run_signal_handler logs what its coroutine raises.
SignalHandlerEnds(i, s) ==
  /\ task[i][s] \in Runnable
  /\ task' = [task EXCEPT ![i][s] = "done"]
  /\ UNCHANGED <<coord, pendingActivation, commandsReady, isComplete, commands,
                 onSuspend, cancelRequested, scopeCancelled, coreVars, dispVars>>

\* _run_update_handler_wrapper responds, then notifies in its finally block.
UpdateHandlerEnds(i, u) ==
  /\ task[i][u] \in Runnable
  /\ \E c \in {"completed", "rejected"} \X {u} :
       commands' = [commands EXCEPT ![i] = @ \cup {c}]
  /\ task' = [task EXCEPT ![i] = Notified([@ EXCEPT ![u] = "done"])]
  /\ UNCHANGED <<coord, pendingActivation, commandsReady, isComplete, onSuspend,
                 cancelRequested, scopeCancelled, coreVars, dispVars>>

\* workflow_sleep and workflow_wait_activity raise Cancelled on waking when the
\* cancel flag is set; the other calls do not look at it.
MayRaiseCancelled(i, t) ==
  task[i][t] = "cancelled" \/ (task[i][t] = "woken" /\ cancelRequested[i])

\* Cancelled passes both handler wrappers and cancels the nursery.
HandlerCancelled(i, h) ==
  /\ MayRaiseCancelled(i, h)
  /\ LET st == [task[i] EXCEPT ![h] = "done"]
     IN task' = [task EXCEPT ![i] =
                   Interrupted(IF h \in Updates THEN Notified(st) ELSE st)]
  /\ scopeCancelled' = [scopeCancelled EXCEPT ![i] = TRUE]
  /\ UNCHANGED <<coord, pendingActivation, commandsReady, isComplete, commands,
                 onSuspend, cancelRequested, coreVars, dispVars>>

\* mutant: a cancelled workflow falls through to the failure handler
MainEndsMutant(i) ==
  /\ task[i][Main] \in Runnable
  /\ \E c \in Terminals :
       /\ c[1] = "cancel" => MayRaiseCancelled(i, Main)
       /\ commands' = [commands EXCEPT ![i] =
            @ \cup {c} \cup {d \in Terminals : c[1] = "cancel" /\ d[1] = "fail"}]
  /\ task' = [task EXCEPT ![i] = Notified([@ EXCEPT ![Main] = "done"])]
  /\ isComplete' = [isComplete EXCEPT ![i] = TRUE]
  /\ UNCHANGED <<coord, pendingActivation, commandsReady, onSuspend,
                 cancelRequested, scopeCancelled, coreVars, dispVars>>

\* _execute_workflow_main, its finally block included.
MainEnds(i) ==
  /\ task[i][Main] \in Runnable
  /\ \E c \in Terminals :
       /\ c[1] = "cancel" => MayRaiseCancelled(i, Main)
       /\ commands' = [commands EXCEPT ![i] = @ \cup {c}]
  /\ task' = [task EXCEPT ![i] = Notified([@ EXCEPT ![Main] = "done"])]
  /\ isComplete' = [isComplete EXCEPT ![i] = TRUE]
  /\ UNCHANGED <<coord, pendingActivation, commandsReady, onSuspend,
                 cancelRequested, scopeCancelled, coreVars, dispVars>>

-----------------------------------------------------------------------------
(* The worker's life: run and shutdown.                                    *)

Shutdown ==
  /\ "shutdown" \in Env
  /\ ~shutdown
  /\ shutdown' = TRUE
  /\ UNCHANGED <<coreVars, disp, cur, workflowStates, root, wfVars>>

CancelRootMutant ==  \* mutant: the workflows' tasks are left waiting
  /\ root' = "cancelled"
  /\ disp' = "stopped"
  /\ UNCHANGED <<coreVars, cur, workflowStates, shutdown, pendingActivation,
                 commandsReady, isComplete, commands, onSuspend,
                 cancelRequested, scopeCancelled, task>>

\* The root nursery is cancelled: so is every task below it.
CancelRoot ==
  /\ root' = "cancelled"
  /\ disp' = "stopped"
  /\ task' = [i \in Insts |-> Interrupted(task[i])]
  /\ UNCHANGED <<coreVars, cur, workflowStates, shutdown, pendingActivation,
                 commandsReady, isComplete, commands, onSuspend,
                 cancelRequested, scopeCancelled>>

StopWorker ==
  /\ shutdown /\ root = "open"
  /\ CancelRoot
  /\ UNCHANGED coord

\* _run_workflow raises before its try block: into the root nursery.
UnknownWorkflowType(i) ==
  /\ "type" \in Faults
  /\ coord[i] = "spawned"
  /\ coord' = [coord EXCEPT ![i] = "crashed"]
  /\ CancelRoot

-----------------------------------------------------------------------------
CoreNext ==
  \E r \in Runs : \/ CoreStart(r) \/ CoreActivate(r) \/ CoreReplay(r)
                  \/ CoreEvict(r) \/ CoreLate(r) \/ CoreComplete(r)

Dispatch(r) ==
  \/ DispatchEviction(r) \/ DispatchCompletedReplay(r) \/ DispatchUnknownRun(r)
  \/ DispatchNewWorkflow(r) \/ DispatchToCompleted(r) \/ DeliverActivation(r)
  \/ PollFails(r)
Dispatcher == (\E r \in Runs : Dispatch(r)) \/ CollectCommands \/ CollectFails

Coordinator(i) ==
  \/ StartWorkflow(i) \/ ApplyActivation(i) \/ SignalCommandsReady(i)
  \/ InterruptCoordinator(i) \/ ExitNursery(i) \/ ApplyRaises(i)
  \/ FailWorkflow(i) \/ UnknownWorkflowType(i)

TaskStep(i, t) ==
  \/ TaskWaits(i, t) \/ TaskCleansUp(i, t)
  \/ t = Main /\ MainEnds(i)
  \/ t \in Signals /\ SignalHandlerEnds(i, t)
  \/ t \in Updates /\ UpdateHandlerEnds(i, t)
  \/ t \in Handlers /\ HandlerCancelled(i, t)

Next ==
  \/ CoreNext
  \/ Dispatcher
  \/ \E i \in Insts : Coordinator(i) \/ \E t \in Tasks : TaskStep(i, t)
  \/ Shutdown \/ StopWorker

\* Trio runs every runnable task; Core answers every completion.
Fairness ==
  /\ WF_vars(Dispatcher) /\ WF_vars(StopWorker)
  /\ \A r \in Runs : WF_vars(CoreComplete(r))
  /\ \A i \in Insts : /\ WF_vars(Coordinator(i))
                      /\ \A t \in Tasks : WF_vars(TaskStep(i, t))

Spec == Init /\ [][Next]_vars
FairSpec == Spec /\ Fairness

-----------------------------------------------------------------------------
(* Properties                                                              *)

Collecting(i) == disp = "collect" /\ workflowStates[cur] = i

\* The handshake of WorkflowState: only the workflow the dispatcher waits for
\* has an undelivered activation, and a running workflow's commands_ready is
\* set only while the dispatcher waits for it.
Handshake ==
  root = "open" => \A i \in Insts :
    /\ pendingActivation[i] # NoActivation => Collecting(i)
    /\ commandsReady[i] /\ ~isComplete[i] => Collecting(i)

\* When commands_ready is set for the dispatcher, the workflow has consumed
\* the activation and every one of its tasks has come to rest, so nothing that
\* the activation causes can miss its completion.
CollectedAtRest ==
  \A i \in Insts :
    Collecting(i) /\ commandsReady[i] =>
      /\ pendingActivation[i] = NoActivation
      /\ \A t \in Tasks : task[i][t] \notin Runnable

\* No command is left in a runtime once its activation is answered, not even
\* in a workflow that was evicted: there is no later completion to carry it.
NothingStranded ==
  root = "open" => \A i \in Insts : commands[i] # {} => Collecting(i)

\* SDK-Core gets at most one completion for an activation it issued.
AnsweredOnce ==
  \A r \in Runs :
    /\ answers[r] <= 1
    /\ core[r] \in {"issued", "polled"} => answers[r] = 0

\* No completion carries two terminal commands, and a run that SDK-Core knows to
\* be closed is closed once more only in answer to a replay, which is told
\* "complete" from the cache however the run ended.
OneTerminal ==
  \A r \in Runs :
    /\ \A c, d \in reply[r] \cap Terminals : c = d
    /\ closed[r] # {} /\ reply[r] \cap Terminals # {} =>
         Start \in act[r] /\ reply[r] \cap Terminals = {<<"complete", Main>>}

\* The comment of the replay branch: a completed workflow is not run again, its
\* command is sent "to match history", so a replay ends the way its run ended.
ReplayMatchesHistory ==
  \A r \in Runs : \A c, d \in closed[r] \cup (reply[r] \cap Terminals) : c = d

\* An update is accepted or rejected in the completion of the very activation
\* that brought it.
UpdateAnsweredAtOnce ==
  \A r \in Runs : core[r] = "idle" => \A u \in Updates : hist[r][u] # "sent"

\* A workflow whose state says complete has told Core so as soon as the
\* dispatcher is free for its next activation.
CompletionReported ==
  root = "open" => \A r \in Runs : LET i == workflowStates[r] IN
    i # NoInst /\ core[r] = "idle" /\ isComplete[i] => closed[r] # {}

\* The tasks of a workflow that was evicted never run again: eviction drops the
\* WorkflowState and leaves its tasks waiting for events nobody can set.
EvictedAtRest ==
  root = "open" => \A i \in Insts :
    (coord[i] # "unused" /\ \A r \in Runs : workflowStates[r] # i) =>
      \A t \in Tasks : task[i][t] \notin Runnable

\* Every activation that was polled is answered, unless the worker stops.
PolledIsAnswered ==
  \A r \in Runs : core[r] = "polled" ~> (core[r] = "answered" \/ root = "cancelled")

\* A workflow whose nursery was cancelled ends, its coordinator included.
CancelEndsWorkflow ==
  \A i \in Insts : scopeCancelled[i] ~> (isComplete[i] /\ coord[i] = "done")

\* After shutdown every workflow task ends.
ShutdownEnds ==
  shutdown ~> \A i \in Insts :
                coord[i] \in {"unused", "done", "crashed"} /\ NurseryEmpty(i)

(* The worker implements WorkflowHost.                                     *)
Held(r) == disp = "collect" /\ cur = r
HostPhase == [r \in Runs |-> IF core[r] # "polled" THEN core[r]
                             ELSE IF Held(r) THEN "held" ELSE "dropped"]
AnswerKind(cmds) == IF cmds \cap Terminals # {} THEN "close"
                    ELSE IF cmds \subseteq {Answer} THEN "quiet" ELSE "work"

Host == INSTANCE WorkflowHost WITH
  NoRun   <- NoInst,
  MayDrop <- Faults \cap {"parse", "encode"} # {},
  phase   <- HostPhase,
  held    <- IF disp \in {"collect", "ack"} THEN cur ELSE NoInst,
  closed  <- {r \in Runs : closed[r] # {}},
  answer  <- [r \in Runs |-> AnswerKind(reply[r])],
  stopped <- disp = "stopped"

\* Every step of the worker is a step of WorkflowHost: one activation in hand at
\* a time, one answer each, nothing but query answers for a closed run.
ImplementsHost == Host!Spec

=============================================================================
