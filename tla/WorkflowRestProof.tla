-------------------------- MODULE WorkflowRestProof --------------------------
(***************************************************************************)
(* The handshake between the dispatcher and the workflows, proved for the  *)
(* worker that is spared cancel jobs and jobs that cannot be applied: with *)
(* either a workflow may call signal_commands_ready on its own, before it  *)
(* has come to rest, and none of the theorems holds.                       *)
(***************************************************************************)
EXTENDS SingleThreadWorkerProof

\* Evictions, replays, late activations, shutdown, queries, unknown types,
\* failures of parsing and encoding, and shielded cleanup are all allowed.
Calm == "cancel" \notin Env /\ "apply" \notin Faults

-----------------------------------------------------------------------------
(* The inductive invariant: Handshake, CollectedAtRest, NothingStranded and*)
(* EvictedAtRest all follow from what a workflow may do in each state of   *)
(* its coordinator.                                                        *)

\* No cancel job is on its way, and nothing was cancelled.
NoCancel(i) ==
  /\ Cancel \notin pendingActivation[i]
  /\ ~cancelRequested[i] /\ ~scopeCancelled[i]
  /\ \A t \in Tasks : task[i][t] \notin {"cancelled", "cleanup"}

\* A coordinator at work is the one the dispatcher waits for, and only then are
\* there activations to deliver, runnable tasks and commands.
AtWork(i) ==
  /\ coord[i] \in {"spawned", "settling"} => Collecting(i) /\ ~commandsReady[i]
  /\ pendingActivation[i] # NoActivation =>
       Collecting(i) /\ ~commandsReady[i] /\ coord[i] \in {"spawned", "idle"}
  /\ coord[i] = "settling" => ~onSuspend[i]
  /\ \A t \in Tasks : task[i][t] \in Runnable => coord[i] = "settling"
  /\ commands[i] # {} => Collecting(i)

\* A coordinator leaves its loop for no other reason than completion.
Completes(i) ==
  /\ coord[i] \notin {"failing", "crashed"}
  /\ coord[i] \in {"unused", "spawned", "idle"} => ~isComplete[i]
  /\ coord[i] \in {"exiting", "done"} => isComplete[i]
  /\ commandsReady[i] => Collecting(i) \/ isComplete[i]
  /\ \A r \in Runs : workflowStates[r] = i => coord[i] # "unused"

AtRest(i) == NoCancel(i) /\ AtWork(i) /\ Completes(i)

RestInv ==
  /\ TypeInv
  /\ \A r \in Runs : Cancel \notin act[r]
  /\ root = "open" => \A i \in Insts : AtRest(i)

\* The initial states satisfy it.
LEMMA RestInit == Init => RestInv
<1> SUFFICES ASSUME Init PROVE RestInv
  OBVIOUS
<1>1. TypeInv
  BY TypeInit
<1>2. ASSUME NEW i \in Insts PROVE AtRest(i)
  <2>1. NoCancel(i)
    BY DEF Init, NoCancel, NoActivation, Cancel
  <2>2. AtWork(i)
    BY DEF Init, AtWork, Runnable
  <2>3. Completes(i)
    BY NamesAssumption DEF Init, Completes
  <2> QED
    BY <2>1, <2>2, <2>3 DEF AtRest
<1>3. \A r \in Runs : Cancel \notin act[r]
  BY DEF Init
<1> QED
  BY <1>1, <1>2, <1>3 DEF RestInv

-----------------------------------------------------------------------------
(* What a step of one part leaves alone.                                   *)

\* An instance that is not stepped stays at rest, if what the dispatcher waits
\* for does not change and its run, if any, is not a new one.
LEMMA RestUntouched ==
  ASSUME NEW i \in Insts, AtRest(i), Collecting(i)' = Collecting(i),
         \A r \in Runs : workflowStates'[r] = i => workflowStates[r] = i,
         coord'[i] = coord[i], pendingActivation'[i] = pendingActivation[i],
         commandsReady'[i] = commandsReady[i], isComplete'[i] = isComplete[i],
         commands'[i] = commands[i], onSuspend'[i] = onSuspend[i],
         cancelRequested'[i] = cancelRequested[i],
         scopeCancelled'[i] = scopeCancelled[i], task'[i] = task[i]
  PROVE  AtRest(i)'
BY DEF AtRest, NoCancel, AtWork, Completes

\* A step of Core or of the dispatcher that changes no workflow.
LEMMA RestElsewhere ==
  ASSUME RestInv, TypeInv', UNCHANGED <<wfVars, root>>,
         \A r \in Runs : Cancel \notin act'[r],
         disp' = "collect" <=> disp = "collect",
         disp = "collect" => cur' = cur,
         \A r \in Runs : workflowStates'[r] \in {workflowStates[r], NoInst},
         disp = "collect" => workflowStates' = workflowStates
  PROVE  RestInv'
<1>1. ASSUME root = "open", NEW i \in Insts PROVE AtRest(i)'
  <2>1. Collecting(i)' = Collecting(i)
    BY DEF Collecting
  <2>2. \A r \in Runs : workflowStates'[r] = i => workflowStates[r] = i
    BY NamesAssumption
  <2>3. AtRest(i)
    BY <1>1 DEF RestInv
  <2> QED
    BY <2>1, <2>2, <2>3, RestUntouched DEF wfVars
<1> QED
  BY <1>1 DEF RestInv

\* A step of instance i alone.
LEMMA RestLocal ==
  ASSUME RestInv, TypeInv', NEW i \in Insts, UNCHANGED <<coreVars, dispVars>>,
         root = "open" => AtRest(i)',
         \A j \in Insts \ {i} :
           /\ coord'[j] = coord[j]
           /\ pendingActivation'[j] = pendingActivation[j]
           /\ commandsReady'[j] = commandsReady[j]
           /\ isComplete'[j] = isComplete[j]
           /\ commands'[j] = commands[j]
           /\ onSuspend'[j] = onSuspend[j]
           /\ cancelRequested'[j] = cancelRequested[j]
           /\ scopeCancelled'[j] = scopeCancelled[j]
           /\ task'[j] = task[j]
  PROVE  RestInv'
<1>1. ASSUME root = "open", NEW j \in Insts \ {i} PROVE AtRest(j)'
  <2>1. Collecting(j)' = Collecting(j) /\ workflowStates' = workflowStates
    BY DEF Collecting, dispVars
  <2>2. AtRest(j)
    BY <1>1 DEF RestInv
  <2> QED
    BY <2>1, <2>2, RestUntouched
<1> QED
  BY <1>1 DEF RestInv, coreVars, dispVars

\* A calm SDK-Core sends no cancel job.
LEMMA RestCore ==
  ASSUME Calm, RestInv, TypeInv', NEW r \in Runs,
         CoreStart(r) \/ CoreActivate(r) \/ CoreReplay(r) \/ CoreEvict(r)
           \/ CoreLate(r) \/ CoreComplete(r)
  PROVE  RestInv'
<1> USE DEF RestInv, TypeInv, TypeOK, CoreTypeOK, DispTypeOK
<1>1. CASE CoreComplete(r)
  <2>1. \A q \in Runs : Cancel \notin act'[q]
    BY <1>1 DEF CoreComplete
  <2>2. UNCHANGED <<wfVars, root, cur, workflowStates>>
        /\ (disp' = "collect" <=> disp = "collect")
    BY <1>1 DEF CoreComplete
  <2> QED
    BY <2>1, <2>2, RestElsewhere
<1>2. ASSUME NEW jobs, Issue(r, jobs), Cancel \notin jobs
      PROVE  RestInv'
  <2>1. \A q \in Runs : Cancel \notin act'[q]
    BY <1>2 DEF Issue
  <2>2. UNCHANGED <<wfVars, root, cur, workflowStates, disp>>
    BY <1>2 DEF Issue, dispVars
  <2> QED
    BY <2>1, <2>2, RestElsewhere
<1>3. Cancel \notin Offered(r)
  BY DEF Calm, Offered, Cancel
<1>4. Cancel \notin {Start, Evict}
  BY DEF Cancel, Start, Evict
<1> QED
  BY <1>1, <1>2, <1>3, <1>4 DEF CoreStart, CoreActivate, CoreReplay, CoreEvict,
                                CoreLate

-----------------------------------------------------------------------------
(* The dispatcher.                                                         *)

\* A dispatcher free to poll finds every running workflow idle, and may hand
\* it the next activation.
LEMMA RestHandOver ==
  ASSUME Calm, RestInv, TypeInv', NEW r \in Runs,
         DispatchNewWorkflow(r) \/ DeliverActivation(r)
  PROVE  RestInv'
<1> USE DEF TypeInv, TypeOK, CoreTypeOK, DispTypeOK, WorkflowTypeOK
<1>1. disp = "poll" /\ disp' = "collect" /\ cur' = r /\ UNCHANGED <<act, root>>
  BY DEF DispatchNewWorkflow, DeliverActivation, AwaitCommands, Take
<1>2. \A i \in Insts : ~Collecting(i)
  BY <1>1 DEF Collecting
<1>3. PICK i \in Insts :
        /\ workflowStates' = [workflowStates EXCEPT ![r] = i]
        /\ pendingActivation' = [pendingActivation EXCEPT ![i] = act[r]]
        /\ \/ coord[i] = "unused" /\ coord' = [coord EXCEPT ![i] = "spawned"]
           \/ coord' = coord /\ workflowStates[r] = i /\ ~isComplete[i]
        /\ UNCHANGED <<commandsReady, isComplete, commands, onSuspend,
                       cancelRequested, scopeCancelled, task>>
  <2>1. CASE DispatchNewWorkflow(r)
    BY <2>1 DEF DispatchNewWorkflow, Fresh
  <2>2. CASE DeliverActivation(r)
    <3>1. workflowStates \in [Runs -> Insts \cup {NoInst}]
      BY DEF RestInv
    <3>2. workflowStates[r] \in Insts
          /\ workflowStates = [workflowStates EXCEPT ![r] = workflowStates[r]]
      BY <2>2, <3>1 DEF DeliverActivation
    <3> QED
      BY <2>2, <3>1, <3>2 DEF DeliverActivation
  <2> QED
    BY <2>1, <2>2 DEF RestInv
<1>4. RestInv => RestInv /\ Cancel \notin act[r]
  BY DEF RestInv
<1>5. ASSUME root = "open" PROVE AtRest(i)'
  <2>1. NoCancel(i) /\ AtWork(i) /\ Completes(i)
    BY <1>5 DEF RestInv, AtRest
  <2>2. coord[i] \in {"unused", "idle"} /\ ~isComplete[i] /\ ~commandsReady[i]
    BY <1>2, <1>3, <2>1 DEF AtWork, Completes
  <2>3. Collecting(i)'
    BY <1>1, <1>3 DEF Collecting
  <2>4. NoCancel(i)'
    BY <1>3, <1>4, <2>1 DEF NoCancel
  <2>5. AtWork(i)'
    <3>1. coord'[i] \in {"spawned", "idle"}
      BY <1>3, <2>1, <2>2 DEF RestInv, Completes
    <3>2. \A t \in Tasks : task'[i][t] \notin Runnable
      BY <1>3, <2>1, <2>2 DEF AtWork, Runnable
    <3>3. ~commandsReady'[i]
      BY <1>3, <2>2
    <3> QED
      BY <2>3, <3>1, <3>2, <3>3 DEF AtWork, Runnable
  <2>6. Completes(i)'
    BY <1>3, <2>1, <2>2, <2>3 DEF Completes
  <2> QED
    BY <2>4, <2>5, <2>6 DEF AtRest
<1>6. ASSUME root = "open", NEW j \in Insts \ {i} PROVE AtRest(j)'
  <2>1. Collecting(j)' = Collecting(j)
    BY <1>1, <1>2, <1>3 DEF Collecting
  <2>2. \A q \in Runs : workflowStates'[q] = j => workflowStates[q] = j
    BY <1>3
  <2>3. AtRest(j)
    BY <1>6 DEF RestInv
  <2> QED
    BY <1>3, <2>1, <2>2, <2>3, RestUntouched
<1> QED
  BY <1>1, <1>5, <1>6 DEF RestInv

\* Once a workflow's commands are taken it waits for its next activation.
LEMMA RestTake ==
  ASSUME RestInv, TypeInv', Signalled, TakeCommands(workflowStates[cur]),
         UNCHANGED <<act, root, workflowStates>>, disp' # "collect"
  PROVE  RestInv'
<1> USE DEF TypeInv, TypeOK, CoreTypeOK, DispTypeOK, WorkflowTypeOK
<1>1. PICK i \in Insts : i = workflowStates[cur] /\ commandsReady[i]
                         /\ disp = "collect" /\ TakeCommands(i)
  BY DEF Signalled, RestInv
<1>2. ASSUME root = "open" PROVE AtRest(i)'
  <2>1. NoCancel(i) /\ AtWork(i) /\ Completes(i)
    BY <1>1, <1>2 DEF RestInv, AtRest
  <2>2. NoCancel(i)'
    BY <1>1, <2>1 DEF TakeCommands, NoCancel
  <2>3. AtWork(i)'
    BY <1>1, <2>1 DEF TakeCommands, AtWork, RestInv
  <2>4. Completes(i)'
    BY <1>1, <2>1 DEF TakeCommands, Completes, RestInv
  <2> QED
    BY <2>2, <2>3, <2>4 DEF AtRest
<1>3. ASSUME root = "open", NEW j \in Insts \ {i} PROVE AtRest(j)'
  <2>1. Collecting(j)' = Collecting(j)
    BY <1>1 DEF Collecting
  <2>2. AtRest(j)
    BY <1>3 DEF RestInv
  <2>3. /\ commandsReady'[j] = commandsReady[j]
        /\ commands'[j] = commands[j]
    BY <1>1 DEF TakeCommands, RestInv
  <2> QED
    BY <1>1, <2>1, <2>2, <2>3, RestUntouched DEF TakeCommands
<1> QED
  BY <1>2, <1>3 DEF RestInv

\* The dispatcher's steps preserve the invariant.
LEMMA RestDispatcher ==
  ASSUME Calm, RestInv, TypeInv', Dispatcher
  PROVE  RestInv'
<1>1. ASSUME NEW r \in Runs, DispatchEviction(r) \/ DispatchCompletedReplay(r)
               \/ DispatchUnknownRun(r) \/ DispatchToCompleted(r)
      PROVE  RestInv'
  <2>1. disp = "poll" /\ disp' = "ack" /\ UNCHANGED <<act, root, wfVars>>
    BY <1>1 DEF DispatchEviction, DispatchCompletedReplay, DispatchUnknownRun,
                DispatchToCompleted, Take, Send
  <2>2. \A q \in Runs : workflowStates'[q] \in {workflowStates[q], NoInst}
    BY <1>1 DEF DispatchEviction, DispatchCompletedReplay, DispatchUnknownRun,
                DispatchToCompleted, RestInv, TypeInv, TypeOK, DispTypeOK
  <2> QED
    BY <2>1, <2>2, RestElsewhere DEF RestInv
<1>2. ASSUME NEW r \in Runs, PollFails(r)
      PROVE  RestInv'
  BY <1>2, RestElsewhere DEF PollFails, RestInv, dispVars
<1>3. CASE CollectCommands
  BY <1>3, RestTake DEF CollectCommands, Send
<1>4. CASE CollectFails
  BY <1>4, RestTake DEF CollectFails, coreVars
<1> QED
  BY <1>1, <1>2, <1>3, <1>4, RestHandOver DEF Dispatcher, Dispatch

-----------------------------------------------------------------------------
(* The workflows.                                                          *)

CalmStatuses == [Tasks -> TaskStates \ {"cancelled", "cleanup"}]

\* Jobs without a cancel cancel no task.
LEMMA CalmJobs ==
  ASSUME NEW st \in CalmStatuses, NEW jobs, Cancel \notin jobs, NEW async
  PROVE  JobsApplied(st, jobs, async) \in CalmStatuses
<1> DEFINE rs == Resolved(st, jobs)
<1> USE DEF CalmStatuses, TaskStates
<1>1. rs \in CalmStatuses
  BY DEF Resolved
<1>2. Notified(rs) \in CalmStatuses
  BY <1>1 DEF Notified
<1> HIDE DEF rs
<1>3. SignalsApplied(rs, jobs, async) \in CalmStatuses
  BY <1>1, <1>2 DEF SignalsApplied
<1> QED
  BY <1>3 DEF JobsApplied, rs

\* Nor do the updates of an activation.
LEMMA CalmUpdates ==
  ASSUME NEW st \in CalmStatuses, NEW how, NEW us
  PROVE  UpdatesApplied(st, how, us) \in CalmStatuses
<1>1. Notified(st) \in CalmStatuses
  BY DEF Notified, CalmStatuses, TaskStates
<1> QED
  BY <1>1 DEF UpdatesApplied, CalmStatuses, TaskStates

\* An instance at rest keeps its task table free of cancelled tasks.
LEMMA CalmTable ==
  ASSUME TypeInv, NEW i \in Insts
  PROVE  (\A t \in Tasks : task[i][t] \notin {"cancelled", "cleanup"})
           <=> task[i] \in CalmStatuses
BY DEF TypeInv, TypeOK, WorkflowTypeOK, CalmStatuses, TaskStates

\* Processing an activation: the coordinator goes to work.
LEMMA RestProcess ==
  ASSUME RestInv, TypeInv', NEW i \in Insts, NEW st \in CalmStatuses,
         NEW async, NEW scoped \in BOOLEAN,
         Process(i, st, pendingActivation[i], async, scoped),
         coord[i] = "spawned" \/ WakeUp(i), root = "open"
  PROVE  AtRest(i)'
<1> USE DEF TypeInv, TypeOK, DispTypeOK, WorkflowTypeOK
<1>1. NoCancel(i) /\ AtWork(i) /\ Completes(i)
  BY DEF RestInv, AtRest
<1>2. /\ Collecting(i) /\ ~commandsReady[i] /\ ~isComplete[i]
      /\ Cancel \notin pendingActivation[i]
  BY <1>1 DEF AtWork, Completes, NoCancel, WakeUp
<1>3. UNCHANGED <<commandsReady, isComplete, disp, cur, workflowStates>>
  BY DEF Process, dispVars
<1>4. coord'[i] = "settling" /\ ~onSuspend'[i]
  BY DEF Process, BeginSettling, RestInv
<1>5. ~cancelRequested'[i] /\ ~scopeCancelled'[i]
      /\ pendingActivation'[i] = NoActivation
  BY <1>1, <1>2 DEF Process, NoCancel, RestInv
<1>6. task'[i] \in CalmStatuses
  <2>1. PICK how : task' = [task EXCEPT ![i] = UpdatesApplied(
           JobsApplied(st, IF scoped THEN pendingActivation[i]
                           ELSE pendingActivation[i] \ {Cancel}, async),
           how, UpdatesIn(pendingActivation[i]))]
    BY DEF Process
  <2>2. JobsApplied(st, IF scoped THEN pendingActivation[i]
                        ELSE pendingActivation[i] \ {Cancel}, async)
          \in CalmStatuses
    BY <1>2, CalmJobs
  <2> QED
    BY <2>1, <2>2, CalmUpdates DEF RestInv
<1>7. NoCancel(i)'
  <2>1. Cancel \notin NoActivation
    BY DEF Cancel, NoActivation
  <2> QED
    BY <1>5, <1>6, <2>1 DEF NoCancel, CalmStatuses, TaskStates
<1>8. Collecting(i)'
  BY <1>2, <1>3 DEF Collecting
<1>9. AtWork(i)'
  BY <1>2, <1>3, <1>4, <1>5, <1>8 DEF AtWork
<1>10. Completes(i)'
  BY <1>2, <1>3, <1>4, <1>8 DEF Completes
<1> QED
  BY <1>7, <1>9, <1>10 DEF AtRest

\* What a coordinator does preserves the invariant.
LEMMA RestCoordinator ==
  ASSUME Calm, RestInv, TypeInv', NEW i \in Insts, Coordinator(i)
  PROVE  RestInv'
<1> USE DEF TypeInv, TypeOK, DispTypeOK, WorkflowTypeOK
<1>1. CASE UnknownWorkflowType(i)
  BY <1>1 DEF UnknownWorkflowType, CancelRoot, RestInv, coreVars
<1>2. CASE ~UnknownWorkflowType(i)
  <2>1. UNCHANGED <<coreVars, dispVars>>
    BY <1>2 DEF Coordinator, StartWorkflow, ApplyActivation, Process,
                SignalCommandsReady, InterruptCoordinator, ExitNursery,
                ApplyRaises, FailWorkflow
  <2>2. \A j \in Insts \ {i} :
          /\ coord'[j] = coord[j]
          /\ pendingActivation'[j] = pendingActivation[j]
          /\ commandsReady'[j] = commandsReady[j]
          /\ isComplete'[j] = isComplete[j]
          /\ commands'[j] = commands[j]
          /\ onSuspend'[j] = onSuspend[j]
          /\ cancelRequested'[j] = cancelRequested[j]
          /\ scopeCancelled'[j] = scopeCancelled[j]
          /\ task'[j] = task[j]
    <3>1. CASE StartWorkflow(i) \/ ApplyActivation(i)
      BY <3>1 DEF StartWorkflow, ApplyActivation, Process, BeginSettling, RestInv
    <3>2. CASE SignalCommandsReady(i) \/ InterruptCoordinator(i) \/ ExitNursery(i)
      BY <3>2 DEF SignalCommandsReady, InterruptCoordinator, ExitNursery, RestInv
    <3>3. CASE ApplyRaises(i) \/ FailWorkflow(i)
      BY <3>3 DEF ApplyRaises, FailWorkflow, RestInv
    <3> QED
      BY <1>2, <3>1, <3>2, <3>3 DEF Coordinator
  <2>3. ASSUME root = "open" PROVE AtRest(i)'
    <3>1. NoCancel(i) /\ AtWork(i) /\ Completes(i)
      BY <2>3 DEF RestInv, AtRest
    <3>2. InScope(i) /\ task[i] \in CalmStatuses /\ coord[i] # "failing"
      BY <2>3, <3>1, CalmTable DEF InScope, NoCancel, Completes, RestInv
    <3>3. CASE StartWorkflow(i)
      <4>1. [task[i] EXCEPT ![Main] = "ready"] \in CalmStatuses
        BY <3>2 DEF CalmStatuses, TaskStates
      <4> QED
        BY <2>3, <3>3, <4>1, RestProcess DEF StartWorkflow
    <3>4. CASE ApplyActivation(i)
      BY <2>3, <3>2, <3>4, RestProcess DEF ApplyActivation
    <3>5. CASE SignalCommandsReady(i)
      <4>1. Collecting(i)' /\ coord[i] = "settling"
        BY <2>1, <3>1, <3>5 DEF SignalCommandsReady, AtWork, Collecting, dispVars
      <4>2. coord'[i] = IF isComplete[i] THEN "exiting" ELSE "idle"
        BY <3>5 DEF SignalCommandsReady, RestInv
      <4>3. NoCancel(i)'
        BY <3>1, <3>5 DEF SignalCommandsReady, NoCancel
      <4>4. \A t \in Tasks : task'[i][t] \notin Runnable
        BY <3>5 DEF SignalCommandsReady, Settled
      <4>5. AtWork(i)'
        BY <3>1, <3>5, <4>1, <4>2, <4>4 DEF SignalCommandsReady, AtWork, Runnable
      <4>6. Completes(i)'
        BY <2>1, <3>1, <3>5, <4>1, <4>2
           DEF SignalCommandsReady, Completes, dispVars
      <4> QED
        BY <4>3, <4>5, <4>6 DEF AtRest
    <3>6. CASE ExitNursery(i)
      <4>1. coord[i] = "exiting" /\ coord'[i] = "done" /\ isComplete[i]
        BY <3>1, <3>2, <3>6 DEF ExitNursery, Completes, RestInv
      <4>2. Collecting(i)' = Collecting(i)
        BY <2>1 DEF Collecting, dispVars
      <4>3. NoCancel(i)'
        BY <3>1, <3>6 DEF ExitNursery, NoCancel
      <4>4. AtWork(i)'
        <5>1. \A t \in Tasks : task'[i][t] \notin Runnable
          BY <3>1, <3>6, <4>1 DEF ExitNursery, AtWork
        <5>2. pendingActivation'[i] = NoActivation
          BY <3>1, <3>6, <4>1 DEF ExitNursery, AtWork
        <5>3. commands'[i] # {} => Collecting(i)'
          BY <3>1, <3>6, <4>2 DEF ExitNursery, AtWork
        <5> QED
          BY <4>1, <5>1, <5>2, <5>3 DEF AtWork, Runnable
      <4>5. Completes(i)'
        BY <2>1, <3>1, <3>6, <4>1 DEF ExitNursery, Completes, dispVars
      <4> QED
        BY <4>3, <4>4, <4>5 DEF AtRest
    <3>7. ~InterruptCoordinator(i) /\ ~ApplyRaises(i) /\ ~FailWorkflow(i)
      BY <3>2 DEF InterruptCoordinator, ApplyRaises, FailWorkflow, Calm
    <3> QED
      BY <1>2, <3>3, <3>4, <3>5, <3>6, <3>7 DEF Coordinator
  <2> QED
    BY <2>1, <2>2, <2>3, RestLocal
<1> QED
  BY <1>1, <1>2

\* What a task does preserves the invariant: it runs only while its coordinator
\* settles, when on_suspend is unset.
LEMMA RestTask ==
  ASSUME Calm, RestInv, TypeInv', NEW i \in Insts, NEW t \in Tasks, TaskStep(i, t)
  PROVE  RestInv'
<1> USE DEF TypeInv, TypeOK, DispTypeOK, WorkflowTypeOK
<1>1. UNCHANGED <<coreVars, dispVars>>
  BY DEF TaskStep, TaskWaits, TaskCleansUp, Suspend, MainEnds,
         SignalHandlerEnds, UpdateHandlerEnds, HandlerCancelled
<1>2. \A j \in Insts \ {i} :
        /\ coord'[j] = coord[j]
        /\ pendingActivation'[j] = pendingActivation[j]
        /\ commandsReady'[j] = commandsReady[j]
        /\ isComplete'[j] = isComplete[j]
        /\ commands'[j] = commands[j]
        /\ onSuspend'[j] = onSuspend[j]
        /\ cancelRequested'[j] = cancelRequested[j]
        /\ scopeCancelled'[j] = scopeCancelled[j]
        /\ task'[j] = task[j]
  <2>1. CASE TaskWaits(i, t) \/ TaskCleansUp(i, t)
    BY <2>1 DEF TaskWaits, TaskCleansUp, Suspend, RestInv
  <2>2. CASE MainEnds(i) \/ SignalHandlerEnds(i, t)
    BY <2>2 DEF MainEnds, SignalHandlerEnds, RestInv
  <2>3. CASE UpdateHandlerEnds(i, t) \/ HandlerCancelled(i, t)
    BY <2>3 DEF UpdateHandlerEnds, HandlerCancelled, RestInv
  <2> QED
    BY <2>1, <2>2, <2>3 DEF TaskStep
<1>3. ASSUME root = "open" PROVE AtRest(i)'
  <2>1. NoCancel(i) /\ AtWork(i) /\ Completes(i)
    BY <1>3 DEF RestInv, AtRest
  <2>2. InScope(i) /\ task[i] \in CalmStatuses
    BY <1>3, <2>1, CalmTable DEF InScope, NoCancel, RestInv
  <2>3. ~TaskCleansUp(i, t) /\ ~HandlerCancelled(i, t)
    BY <2>1 DEF TaskCleansUp, HandlerCancelled, MayRaiseCancelled, NoCancel, Calm
  <2>4. \/ TaskWaits(i, t)
        \/ t = Main /\ MainEnds(i)
        \/ t \in Signals /\ SignalHandlerEnds(i, t)
        \/ t \in Updates /\ UpdateHandlerEnds(i, t)
    BY <2>3 DEF TaskStep
  <2>5. task[i][t] \in Runnable
    BY <2>4 DEF TaskWaits, MainEnds, SignalHandlerEnds, UpdateHandlerEnds, Runnable
  <2>6. coord[i] = "settling" /\ ~onSuspend[i] /\ Collecting(i) /\ ~commandsReady[i]
    BY <2>1, <2>5 DEF AtWork
  <2>7. /\ coord' = coord /\ pendingActivation' = pendingActivation
        /\ onSuspend' = onSuspend /\ cancelRequested' = cancelRequested
        /\ scopeCancelled' = scopeCancelled /\ ~commandsReady'[i]
    BY <2>4, <2>6 DEF TaskWaits, Suspend, MainEnds, SignalHandlerEnds,
                      UpdateHandlerEnds, RestInv
  <2>8. task'[i] \in CalmStatuses
    <3>1. CASE TaskWaits(i, t)
      BY <2>2, <3>1 DEF TaskWaits, Suspend, Waiting, CalmStatuses, TaskStates, RestInv
    <3>2. [task[i] EXCEPT ![t] = "done"] \in CalmStatuses
      BY <2>2 DEF CalmStatuses, TaskStates
    <3>3. Notified([task[i] EXCEPT ![t] = "done"]) \in CalmStatuses
      BY <3>2 DEF Notified, CalmStatuses, TaskStates
    <3>4. CASE t = Main /\ MainEnds(i)
      BY <3>3, <3>4 DEF MainEnds, RestInv
    <3>5. CASE SignalHandlerEnds(i, t)
      <4>1. task' = [task EXCEPT ![i] = [task[i] EXCEPT ![t] = "done"]]
        BY <3>5 DEF SignalHandlerEnds, RestInv
      <4> QED
        BY <3>2, <4>1 DEF RestInv
    <3>6. CASE UpdateHandlerEnds(i, t)
      BY <3>3, <3>6 DEF UpdateHandlerEnds, RestInv
    <3> QED
      BY <2>4, <3>1, <3>4, <3>5, <3>6
  <2>9. Collecting(i)'
    BY <1>1, <2>6 DEF Collecting, dispVars
  <2>10. NoCancel(i)'
    BY <2>1, <2>7, <2>8 DEF NoCancel, CalmStatuses, TaskStates
  <2>11. AtWork(i)'
    BY <2>1, <2>6, <2>7, <2>9 DEF AtWork
  <2>12. Completes(i)'
    BY <1>1, <2>6, <2>7, <2>1 DEF Completes, dispVars
  <2> QED
    BY <2>10, <2>11, <2>12 DEF AtRest
<1> QED
  BY <1>1, <1>2, <1>3, RestLocal

\* Every step of the calm worker preserves the invariant.
LEMMA RestStep ==
  ASSUME Calm
  PROVE  RestInv /\ [Next]_vars => RestInv'
<1> SUFFICES ASSUME RestInv, [Next]_vars PROVE RestInv'
  OBVIOUS
<1>1. TypeInv'
  BY TypeStep DEF RestInv
<1>2. CASE CoreNext
  BY <1>1, <1>2, RestCore DEF CoreNext
<1>3. CASE Dispatcher
  BY <1>1, <1>3, RestDispatcher
<1>4. ASSUME NEW i \in Insts, Coordinator(i) \/ \E t \in Tasks : TaskStep(i, t)
      PROVE  RestInv'
  BY <1>1, <1>4, RestCoordinator, RestTask
<1>5. CASE Shutdown
  BY <1>1, <1>5, RestElsewhere DEF Shutdown, RestInv, coreVars
<1>6. CASE StopWorker
  BY <1>1, <1>6 DEF StopWorker, CancelRoot, RestInv, coreVars
<1>7. CASE UNCHANGED vars
  BY <1>1, <1>7, RestElsewhere DEF vars, coreVars, dispVars, RestInv
<1> QED
  BY <1>2, <1>3, <1>4, <1>5, <1>6, <1>7 DEF Next

-----------------------------------------------------------------------------
(* The theorems.                                                           *)

\* The invariant holds of the calm worker.
LEMMA RestAlways ==
  ASSUME Calm
  PROVE  Spec => []RestInv
<1>1. RestInv /\ [Next]_vars => RestInv'
  BY RestStep
<1> QED
  BY <1>1, RestInit, PTL DEF Spec

\* The handshake of WorkflowState: an activation waits, and commands_ready is
\* set in a running workflow, only while the dispatcher waits for that one.
THEOREM HandshakeKept ==
  ASSUME Calm
  PROVE  Spec => []Handshake
<1>1. RestInv => Handshake
  BY DEF RestInv, AtRest, AtWork, Completes, Handshake
<1> QED
  BY <1>1, RestAlways, PTL

\* A completion is collected from a workflow at rest, while the root nursery is
\* open: no task of it can still issue a command for this activation.
THEOREM RestKept ==
  ASSUME Calm
  PROVE  Spec => [](root = "open" => CollectedAtRest)
<1>1. RestInv => (root = "open" => CollectedAtRest)
  BY DEF RestInv, AtRest, AtWork, CollectedAtRest, Runnable
<1> QED
  BY <1>1, RestAlways, PTL

\* No command is stranded in a workflow, evicted ones included.
THEOREM CommandsKept ==
  ASSUME Calm
  PROVE  Spec => []NothingStranded
<1>1. RestInv => NothingStranded
  BY DEF RestInv, AtRest, AtWork, NothingStranded
<1> QED
  BY <1>1, RestAlways, PTL

\* The tasks of an evicted workflow stay where they wait.
THEOREM EvictedKept ==
  ASSUME Calm
  PROVE  Spec => []EvictedAtRest
<1>1. RestInv => EvictedAtRest
  BY DEF RestInv, TypeInv, TypeOK, DispTypeOK, AtRest, AtWork, EvictedAtRest,
         Collecting, Runnable
<1> QED
  BY <1>1, RestAlways, PTL
-----------------------------------------------------------------------------
(* What Core is told.                                                      *)

\* A run whose workflow is complete is closed, or its terminal command is on its
\* way to Core, or waits to be collected, or was dropped with its activation.
Reported(r) ==
  root = "open" /\ workflowStates[r] \in Insts /\ isComplete[workflowStates[r]] =>
    \/ closed[r] # {}
    \/ core[r] = "answered" /\ reply[r] \cap Terminals # {}
    \/ /\ core[r] = "polled"
       /\ Held(r) => commands[workflowStates[r]] \cap Terminals # {}

\* An update that Core has sent is in the activation in hand, and once that is
\* applied its response is among the commands, and then on the way.
Responses(u) == {"accepted", "rejected"} \X {u}
Responded(r) ==
  \A u \in Updates : hist[r][u] = "sent" =>
    /\ core[r] \in {"issued", "polled", "answered"}
    /\ core[r] # "answered" => <<"update", u>> \in act[r]
    /\ core[r] = "answered" =>
         workflowStates[r] = NoInst \/ Responses(u) \cap reply[r] # {}
    /\ root = "open" /\ Held(r) =>
         \/ pendingActivation[workflowStates[r]] = act[r]
         \/ Responses(u) \cap commands[workflowStates[r]] # {}

\* A workflow serves one run, and a complete one is sent queries or replayed.
ServesOne ==
  /\ root = "cancelled" => disp = "stopped"
  /\ disp = "collect" => workflowStates[cur] \in Insts
  /\ \A r, q \in Runs : workflowStates[r] = workflowStates[q] =>
       r = q \/ workflowStates[r] = NoInst
  /\ \A r \in Runs :
       /\ core[r] = "absent" => workflowStates[r] = NoInst
       /\ core[r] = "issued" /\ closed[r] # {} => UpdatesIn(act[r]) = {}
       /\ core[r] = "issued" /\ Start \in act[r] =>
            workflowStates[r] = NoInst \/ UpdatesIn(act[r]) = {}

Reports == ServesOne /\ \A r \in Runs : Reported(r) /\ Responded(r)
ReportInv == RestInv /\ HostInv /\ Reports

\* The initial states satisfy it.
LEMMA ReportInit == Init => ReportInv
<1> SUFFICES ASSUME Init PROVE Reports
  BY RestInit, HostInvInit DEF ReportInv
<1>1. ServesOne
  BY DEF Init, ServesOne
<1>2. ASSUME NEW r \in Runs PROVE Reported(r) /\ Responded(r)
  BY NamesAssumption DEF Init, Reported, Responded, Tasks, Handlers
<1> QED
  BY <1>1, <1>2 DEF Reports

\* While the worker runs, a run's workflow, complete or not, has been reported
\* as far as its jobs allow, if no command was taken from it and every job that
\* was applied got its response.
LEMMA ReportElsewhere ==
  ASSUME ReportInv, UNCHANGED <<coreVars, cur, workflowStates>>,
         root' = "open" => root = "open",
         root' = "cancelled" => disp' = "stopped",
         disp' \in {disp, "stopped"},
         root' = "open" => \A i \in Insts :
           /\ commands[i] \subseteq commands'[i]
           /\ isComplete'[i] => \/ isComplete[i]
                                \/ Collecting(i) /\ commands'[i] \cap Terminals # {}
           /\ \/ pendingActivation'[i] = pendingActivation[i]
              \/ \A u \in UpdatesIn(pendingActivation[i]) :
                   Responses(u) \cap commands'[i] # {}
  PROVE  Reports'
<1> USE DEF ReportInv, Reports, ServesOne, coreVars
<1>1. ServesOne'
  OBVIOUS
<1>2. ASSUME NEW r \in Runs PROVE Reported(r)'
  <2> SUFFICES ASSUME root' = "open", workflowStates[r] \in Insts,
                      isComplete'[workflowStates[r]]
               PROVE  \/ closed[r] # {}
                      \/ core[r] = "answered" /\ reply[r] \cap Terminals # {}
                      \/ /\ core[r] = "polled"
                         /\ Held(r)' => commands'[workflowStates[r]] \cap Terminals # {}
    BY DEF Reported
  <2>1. PICK i \in Insts : i = workflowStates[r] /\ i # NoInst
    BY NamesAssumption
  <2>2. commands[i] \subseteq commands'[i]
    OBVIOUS
  <2>3. Held(r)' => Held(r)
    BY DEF Held
  <2>4. CASE isComplete[i]
    BY <2>1, <2>2, <2>3, <2>4 DEF Reported
  <2>5. CASE Collecting(i) /\ commands'[i] \cap Terminals # {}
    <3>1. cur = r /\ core[cur] = "polled"
      BY <2>1, <2>5 DEF Collecting, HostInv, AnswerInv, TypeInv, TypeOK, DispTypeOK
    <3> QED
      BY <2>1, <2>5, <3>1
  <2> QED
    BY <2>1, <2>4, <2>5
<1>3. ASSUME NEW r \in Runs PROVE Responded(r)'
  <2> SUFFICES ASSUME NEW u \in Updates, hist[r][u] = "sent",
                      root' = "open", Held(r)'
               PROVE  \/ pendingActivation'[workflowStates[r]] = act[r]
                      \/ Responses(u) \cap commands'[workflowStates[r]] # {}
    BY DEF Responded
  <2>1. PICK i \in Insts : i = workflowStates[r]
    BY DEF Held
  <2>2. Held(r) /\ core[r] = "polled" /\ <<"update", u>> \in act[r]
    BY DEF Held, Responded, HostInv, AnswerInv
  <2>3. commands[i] \subseteq commands'[i]
    OBVIOUS
  <2>4. CASE pendingActivation[i] = act[r]
    BY <2>1, <2>2, <2>4 DEF UpdatesIn
  <2>5. CASE Responses(u) \cap commands[i] # {}
    BY <2>1, <2>3, <2>5
  <2> QED
    BY <2>1, <2>2, <2>4, <2>5 DEF Responded
<1> QED
  BY <1>1, <1>2, <1>3

\* What Core sends depends on what it was told: a closed run gets queries only.
LEMMA ReportIssue ==
  ASSUME ReportInv, TypeInv', NEW r \in Runs, core[r] \in {"absent", "idle"},
         NEW jobs, Issue(r, jobs),
         closed[r] # {} => UpdatesIn(jobs) = {},
         core[r] = "idle" /\ Start \in jobs => UpdatesIn(jobs) = {}
  PROVE  Reports'
<1> USE DEF ReportInv, Reports, HostInv, AnswerInv, TypeInv, TypeOK, CoreTypeOK,
            DispTypeOK
<1>1. /\ UNCHANGED <<reply, closed, disp, cur, workflowStates, root,
                     pendingActivation, isComplete, commands>>
      /\ core'[r] = "issued" /\ act'[r] = jobs
      /\ \A q \in Runs \ {r} : core'[q] = core[q] /\ act'[q] = act[q]
                               /\ hist'[q] = hist[q]
  BY DEF Issue, dispVars, wfVars
<1>2. ServesOne'
  BY <1>1 DEF ServesOne
<1>3. ASSUME NEW q \in Runs PROVE Held(q)' => Held(q) /\ q # r
  BY <1>1 DEF Held
<1>4. ASSUME NEW q \in Runs PROVE Reported(q)'
  <2>1. Reported(q)
    OBVIOUS
  <2>2. CASE q = r
    BY <1>1, <2>1, <2>2 DEF Reported
  <2>3. CASE q # r
    BY <1>1, <1>3, <2>1, <2>3 DEF Reported
  <2> QED
    BY <2>2, <2>3
<1>5. ASSUME NEW q \in Runs PROVE Responded(q)'
  <2>1. Responded(q)
    OBVIOUS
  <2>2. CASE q = r
    <3>1. \A u \in Updates : hist[r][u] # "sent"
      BY <2>1, <2>2 DEF Responded
    <3>2. ASSUME NEW u \in Updates, hist'[r][u] = "sent"
          PROVE  <<"update", u>> \in jobs
      <4>1. <<"signal", u>> \notin jobs
        <5>1. jobs \in SUBSET Jobs
          BY <1>1 DEF Activations
        <5>2. u \notin Signals
          BY NamesAssumption
        <5>3. <<"signal", u>> \notin Jobs
          BY <5>2 DEF Jobs, Start, Evict, Query, Cancel
        <5> QED
          BY <5>1, <5>3
      <4>2. u \in Handlers
        BY DEF Handlers
      <4>3. hist'[r][u] = IF {<<"signal", u>>, <<"update", u>>} \cap jobs # {}
                         THEN "sent" ELSE hist[r][u]
        BY <4>2 DEF Issue
      <4> QED
        BY <3>1, <3>2, <4>1, <4>3
    <3> QED
      BY <1>1, <1>3, <2>2, <3>2 DEF Responded
  <2>3. CASE q # r
    <3>1. /\ core'[q] = core[q] /\ act'[q] = act[q] /\ hist'[q] = hist[q]
          /\ Held(q)' => Held(q)
      BY <1>1, <1>3, <2>3
    <3> HIDE DEF TypeInv, TypeOK, CoreTypeOK, DispTypeOK
    <3> QED
      BY <1>1, <2>1, <3>1 DEF Responded
  <2> QED
    BY <2>2, <2>3
<1> QED
  BY <1>2, <1>4, <1>5

\* Core learns of every update that it had sent, and of the end of the run.
LEMMA ReportComplete ==
  ASSUME ReportInv, NEW r \in Runs, CoreComplete(r)
  PROVE  Reports'
<1> USE DEF ReportInv, Reports, HostInv, AnswerInv, TypeInv, TypeOK, CoreTypeOK,
            DispTypeOK
<1>1. /\ core[r] = "answered" /\ core'[r] \in {"absent", "idle"}
      /\ workflowStates[r] # NoInst => core'[r] = "idle"
      /\ UNCHANGED <<cur, workflowStates, root, pendingActivation, isComplete,
                     commands>>
      /\ disp' = "collect" => disp = "collect"
      /\ disp = "stopped" => disp' = "stopped"
      /\ \A q \in Runs \ {r} :
           /\ core'[q] = core[q] /\ act'[q] = act[q] /\ reply'[q] = reply[q]
           /\ hist'[q] = hist[q] /\ closed'[q] = closed[q]
  BY DEF CoreComplete, wfVars
<1>2. ServesOne'
  <2>1. core'[r] = "absent" => workflowStates[r] = NoInst
    BY <1>1
  <2> QED
    BY <1>1, <2>1 DEF ServesOne
<1>3. ASSUME NEW q \in Runs PROVE Held(q)' => Held(q) /\ q # r
  BY <1>1 DEF Held
<1>4. ASSUME NEW q \in Runs PROVE Reported(q)'
  <2>1. Reported(q)
    OBVIOUS
  <2>2. CASE q = r
    <3>1. workflowStates[r] # NoInst => closed'[r] = closed[r] \cup (reply[r] \cap Terminals)
      BY DEF CoreComplete
    <3> QED
      BY <1>1, <2>1, <2>2, <3>1, NamesAssumption DEF Reported
  <2>3. CASE q # r
    BY <1>1, <1>3, <2>1, <2>3 DEF Reported
  <2> QED
    BY <2>2, <2>3
<1>5. ASSUME NEW q \in Runs PROVE Responded(q)'
  <2>1. Responded(q)
    OBVIOUS
  <2>2. CASE q = r
    <3>1. ASSUME NEW u \in Updates PROVE hist'[r][u] # "sent"
      <4>1. u \in Handlers
        BY DEF Handlers
      <4>2. CASE workflowStates[r] = NoInst
        BY <4>1, <4>2 DEF CoreComplete
      <4>3. CASE workflowStates[r] # NoInst
        <5>1. hist'[r][u] = Told(r, u)
          BY <4>1, <4>3 DEF CoreComplete
        <5>2. hist[r][u] = "sent" => Responses(u) \cap reply[r] # {}
          BY <1>1, <2>1, <2>2, <4>3 DEF Responded
        <5>3. Responses(u) = {<<"accepted", u>>, <<"rejected", u>>}
          BY DEF Responses
        <5> QED
          BY <5>1, <5>2, <5>3 DEF Told
      <4> QED
        BY <4>2, <4>3
    <3> QED
      BY <2>2, <3>1 DEF Responded
  <2>3. CASE q # r
    BY <1>1, <1>3, <2>1, <2>3 DEF Responded
  <2> QED
    BY <2>2, <2>3
<1> QED
  BY <1>2, <1>4, <1>5

\* SDK-Core's steps preserve it.
LEMMA ReportCore ==
  ASSUME ReportInv, TypeInv', NEW r \in Runs,
         CoreStart(r) \/ CoreActivate(r) \/ CoreReplay(r) \/ CoreEvict(r)
           \/ CoreLate(r) \/ CoreComplete(r)
  PROVE  Reports'
<1>1. ASSUME closed[r] # {}, NEW jobs \in SUBSET Offered(r)
      PROVE  UpdatesIn(jobs) = {} /\ UpdatesIn({Start} \cup jobs) = {}
  BY <1>1 DEF Offered, UpdatesIn, Query, Start
<1>2. Start \notin Offered(r)
  BY DEF Offered, Start, Query, Cancel
<1>3. UpdatesIn({}) = {} /\ UpdatesIn({Start}) = {} /\ UpdatesIn({Evict}) = {}
  BY DEF UpdatesIn, Start, Evict
<1>4. CASE CoreStart(r)
  BY <1>1, <1>4, ReportIssue DEF CoreStart
<1>5. CASE CoreActivate(r)
  BY <1>1, <1>2, <1>5, ReportIssue DEF CoreActivate
<1>6. CASE CoreReplay(r) \/ CoreEvict(r) \/ CoreLate(r)
  BY <1>3, <1>6, ReportIssue DEF CoreReplay, CoreEvict, CoreLate
<1> QED
  BY <1>4, <1>5, <1>6, ReportComplete

\* A completion may be sent if it carries the responses that are due, and the
\* end of the run unless Core knows of it.
LEMMA ReportSend ==
  ASSUME ReportInv, NEW r \in Runs, NEW cmds, Send(r, cmds),
         UNCHANGED <<root, isComplete>>, root = "open",
         \/ workflowStates' = workflowStates
         \/ workflowStates' = [workflowStates EXCEPT ![r] = NoInst],
         \A u \in Updates : hist[r][u] = "sent" =>
           workflowStates'[r] = NoInst \/ Responses(u) \cap cmds # {},
         Complete(r)' => closed[r] # {} \/ cmds \cap Terminals # {}
  PROVE  Reports'
<1> USE DEF ReportInv, Reports, HostInv, AnswerInv, TypeInv, TypeOK, CoreTypeOK,
            DispTypeOK
<1>1. /\ UNCHANGED <<act, hist, closed>> /\ disp' = "ack"
      /\ core'[r] = "answered" /\ reply'[r] = cmds
      /\ \A q \in Runs \ {r} : core'[q] = core[q] /\ reply'[q] = reply[q]
                               /\ workflowStates'[q] = workflowStates[q]
      /\ workflowStates'[r] \in {workflowStates[r], NoInst}
  BY DEF Send
<1>2. ServesOne'
  <2>1. \A p, q \in Runs : workflowStates'[p] = workflowStates'[q] =>
          p = q \/ workflowStates'[p] = NoInst
    BY <1>1 DEF ServesOne
  <2>2. ASSUME NEW q \in Runs
        PROVE  /\ core'[q] = "absent" => workflowStates'[q] = NoInst
               /\ core'[q] = "issued" /\ closed'[q] # {} => UpdatesIn(act'[q]) = {}
               /\ core'[q] = "issued" /\ Start \in act'[q] =>
                    workflowStates'[q] = NoInst \/ UpdatesIn(act'[q]) = {}
    BY <1>1 DEF ServesOne
  <2> QED
    BY <1>1, <2>1, <2>2 DEF ServesOne
<1>3. \A q \in Runs : ~Held(q)'
  BY <1>1 DEF Held
<1>4. ASSUME NEW q \in Runs PROVE Reported(q)'
  <2>1. Reported(q)
    OBVIOUS
  <2>2. CASE q = r
    BY <1>1, <2>2 DEF Reported, Complete
  <2>3. CASE q # r
    BY <1>1, <1>3, <2>1, <2>3 DEF Reported
  <2> QED
    BY <2>2, <2>3
<1>5. ASSUME NEW q \in Runs PROVE Responded(q)'
  <2>1. Responded(q)
    OBVIOUS
  <2>2. CASE q = r
    BY <1>1, <1>3, <2>1, <2>2 DEF Responded
  <2>3. CASE q # r
    BY <1>1, <1>3, <2>1, <2>3 DEF Responded
  <2> QED
    BY <2>2, <2>3
<1> QED
  BY <1>2, <1>4, <1>5

\* A workflow that is handed an activation is not complete, and has it pending.
LEMMA ReportHandOver ==
  ASSUME ReportInv, NEW r \in Runs, DispatchNewWorkflow(r) \/ DeliverActivation(r)
  PROVE  Reports'
<1> USE DEF ReportInv, Reports, HostInv, AnswerInv, TypeInv, TypeOK, CoreTypeOK,
            DispTypeOK, WorkflowTypeOK
<1>1. /\ disp = "poll" /\ disp' = "collect" /\ cur' = r /\ core[r] = "issued"
      /\ core' = [core EXCEPT ![r] = "polled"]
      /\ UNCHANGED <<act, reply, hist, closed, root, isComplete, commands>>
  BY DEF DispatchNewWorkflow, DeliverActivation, AwaitCommands, Take
<1>2. root = "open"
  BY <1>1 DEF ServesOne
<1>3. PICK i \in Insts :
        /\ \/ workflowStates[r] = NoInst /\ coord[i] = "unused"
           \/ workflowStates[r] = i
        /\ ~isComplete[i]
        /\ workflowStates' = [workflowStates EXCEPT ![r] = i]
        /\ pendingActivation' = [pendingActivation EXCEPT ![i] = act[r]]
  <2>1. CASE DispatchNewWorkflow(r)
    <3>1. PICK i \in Insts :
            /\ workflowStates[r] = NoInst /\ coord[i] = "unused"
            /\ workflowStates' = [workflowStates EXCEPT ![r] = i]
            /\ pendingActivation' = [pendingActivation EXCEPT ![i] = act[r]]
      BY <2>1 DEF DispatchNewWorkflow, Fresh
    <3>2. ~isComplete[i]
      BY <1>2, <3>1 DEF RestInv, AtRest, Completes
    <3> QED
      BY <3>1, <3>2
  <2>2. CASE DeliverActivation(r)
    <3>1. workflowStates[r] \in Insts
          /\ workflowStates = [workflowStates EXCEPT ![r] = workflowStates[r]]
      BY <2>2 DEF DeliverActivation
    <3> QED
      BY <2>2, <3>1 DEF DeliverActivation
  <2> QED
    BY <2>1, <2>2
<1>4. \A q \in Runs \ {r} : workflowStates'[q] = workflowStates[q]
                            /\ workflowStates[q] # i
  <2>1. \A q \in Runs : workflowStates[q] = i => coord[i] # "unused"
    BY <1>2 DEF RestInv, AtRest, Completes
  <2> QED
    BY <1>3, <2>1, NamesAssumption DEF ServesOne
<1>5. ServesOne'
  <2>1. \A q, p \in Runs : workflowStates'[q] = workflowStates'[p] =>
          q = p \/ workflowStates'[q] = NoInst
    BY <1>3, <1>4 DEF ServesOne
  <2> QED
    BY <1>1, <1>2, <1>3, <1>4, <2>1 DEF ServesOne
<1>6. ASSUME NEW q \in Runs PROVE Reported(q)'
  <2>1. Reported(q) /\ ~Held(q)
    BY <1>1 DEF Held
  <2>2. CASE q = r
    BY <1>1, <1>3, <2>2 DEF Reported
  <2>3. CASE q # r
    <3>1. ~Held(q)'
      BY <1>1, <2>3 DEF Held
    <3> QED
      BY <1>1, <1>4, <2>1, <2>3, <3>1 DEF Reported
  <2> QED
    BY <2>2, <2>3
<1>7. ASSUME NEW q \in Runs PROVE Responded(q)'
  <2>1. Responded(q) /\ ~Held(q)
    BY <1>1 DEF Held
  <2>2. CASE q = r
    BY <1>1, <1>3, <2>1, <2>2 DEF Responded
  <2>3. CASE q # r
    <3>1. ~Held(q)'
      BY <1>1, <2>3 DEF Held
    <3> QED
      BY <1>1, <1>4, <2>1, <2>3, <3>1 DEF Responded
  <2> QED
    BY <2>2, <2>3
<1> QED
  BY <1>5, <1>6, <1>7

\* The dispatcher's steps preserve it.
LEMMA ReportDispatcher ==
  ASSUME ReportInv, Dispatcher
  PROVE  Reports'
<1> USE DEF ReportInv, Reports, HostInv, AnswerInv, TypeInv, TypeOK, CoreTypeOK,
            DispTypeOK, WorkflowTypeOK
<1>1. disp # "stopped" /\ root = "open"
  <2>1. disp # "stopped"
    BY DEF Dispatcher, Dispatch, DispatchEviction, DispatchCompletedReplay,
           DispatchUnknownRun, DispatchNewWorkflow, DispatchToCompleted,
           DeliverActivation, PollFails, CollectCommands, CollectFails, Take, Signalled
  <2> QED
    BY <2>1 DEF ServesOne
<1>2. ASSUME NEW r \in Runs, Take(r), NEW u \in Updates, hist[r][u] = "sent"
      PROVE  u \in UpdatesIn(act[r])
  BY <1>2 DEF Take, Responded, UpdatesIn
<1>3. ASSUME NEW r \in Runs, DispatchEviction(r) \/ DispatchUnknownRun(r)
      PROVE  Reports'
  <2>1. workflowStates'[r] = NoInst
    BY <1>3 DEF DispatchEviction, DispatchUnknownRun
  <2>2. ~Complete(r)'
    BY <2>1, NamesAssumption DEF Complete
  <2> QED
    BY <1>1, <1>3, <2>1, <2>2, ReportSend
       DEF DispatchEviction, DispatchUnknownRun, wfVars
<1>4. ASSUME NEW r \in Runs, DispatchCompletedReplay(r)
      PROVE  Reports'
  <2>1. UpdatesIn(act[r]) = {}
    BY <1>4 DEF DispatchCompletedReplay, Take, ServesOne
  <2>2. <<"complete", Main>> \in Terminals
    BY DEF Terminals
  <2>3. \A u \in Updates : hist[r][u] # "sent"
    BY <1>2, <1>4, <2>1 DEF DispatchCompletedReplay
  <2>4. Send(r, {<<"complete", Main>>}) /\ UNCHANGED <<workflowStates, root, isComplete>>
    BY <1>4 DEF DispatchCompletedReplay, wfVars
  <2>5. {<<"complete", Main>>} \cap Terminals # {}
    BY <2>2
  <2> HIDE DEF ReportInv, Reports, HostInv, AnswerInv, TypeInv, TypeOK, CoreTypeOK,
               DispTypeOK, WorkflowTypeOK
  <2> QED
    BY <1>1, <2>3, <2>4, <2>5, ReportSend
<1>5. ASSUME NEW r \in Runs, DispatchToCompleted(r)
      PROVE  Reports'
  <2>1. closed[r] # {} /\ core[r] = "issued"
    BY <1>1, <1>5 DEF DispatchToCompleted, Take, Reported
  <2>2. \A u \in Updates : hist[r][u] # "sent"
    BY <1>2, <1>5, <2>1 DEF DispatchToCompleted, ServesOne
  <2>3. Send(r, QueryAnswers(act[r])) /\ UNCHANGED <<workflowStates, root, isComplete>>
    BY <1>5 DEF DispatchToCompleted, wfVars
  <2> HIDE DEF ReportInv, Reports, HostInv, AnswerInv, TypeInv, TypeOK, CoreTypeOK,
               DispTypeOK, WorkflowTypeOK
  <2> QED
    BY <1>1, <2>1, <2>2, <2>3, ReportSend
<1>6. ASSUME Signalled
      PROVE  /\ workflowStates[cur] \in Insts
             /\ pendingActivation[workflowStates[cur]] # act[cur]
  <2>1. PICK i \in Insts : i = workflowStates[cur] /\ commandsReady[i]
    BY <1>6 DEF Signalled, ServesOne
  <2>2. pendingActivation[i] = NoActivation
    BY <1>1, <2>1 DEF RestInv, AtRest, AtWork
  <2>3. <<"none", Main>> \notin Jobs
    BY DEF Jobs, Start, Evict, Query, Cancel
  <2>4. NoActivation \notin Activations
    BY <2>3 DEF NoActivation, Activations
  <2> QED
    BY <2>1, <2>2, <2>4
<1>7. CASE CollectCommands
  <2>1. PICK r \in Runs : r = cur
    OBVIOUS
  <2>2. Held(r) /\ core[r] = "polled"
    BY <1>7, <2>1 DEF CollectCommands, Signalled, Held
  <2>3. UNCHANGED <<workflowStates, root, isComplete>>
        /\ Send(r, commands[workflowStates[r]])
    BY <1>7, <2>1 DEF CollectCommands, TakeCommands
  <2>4. \A u \in Updates : hist[r][u] = "sent" =>
          Responses(u) \cap commands[workflowStates[r]] # {}
    BY <1>1, <1>6, <1>7, <2>1, <2>2 DEF CollectCommands, Responded
  <2>5. Complete(r)' => \/ closed[r] # {}
                        \/ commands[workflowStates[r]] \cap Terminals # {}
    BY <1>1, <2>2, <2>3 DEF Reported, Complete
  <2> HIDE DEF ReportInv, Reports, HostInv, AnswerInv, TypeInv, TypeOK, CoreTypeOK,
               DispTypeOK, WorkflowTypeOK
  <2> QED
    BY <1>1, <2>3, <2>4, <2>5, ReportSend
<1>8. ASSUME UNCHANGED <<act, hist, closed, reply, workflowStates, root, cur,
                         isComplete>>,
             disp' # "collect",
             \A r \in Runs : \/ core'[r] = core[r]
                             \/ core[r] = "issued" /\ core'[r] = "polled"
      PROVE  Reports'
  <2>1. \A r \in Runs : ~Held(r)'
    BY <1>8 DEF Held
  <2>2. ServesOne'
    BY <1>1, <1>8 DEF ServesOne
  <2>3. ASSUME NEW r \in Runs PROVE Reported(r)' /\ Responded(r)'
    <3>1. Reported(r)'
      BY <1>8, <2>1 DEF Reported
    <3>2. Responded(r)'
      BY <1>8, <2>1 DEF Responded
    <3> QED
      BY <3>1, <3>2
  <2> QED
    BY <2>2, <2>3
<1>9. CASE CollectFails
  BY <1>8, <1>9 DEF CollectFails, TakeCommands, coreVars
<1>10. ASSUME NEW r \in Runs, PollFails(r)
       PROVE  Reports'
  BY <1>8, <1>10 DEF PollFails, Take, dispVars, wfVars
<1> QED
  BY <1>3, <1>4, <1>5, <1>7, <1>9, <1>10, ReportHandOver DEF Dispatcher, Dispatch

\* The response of every update that is applied is among the commands.
LEMMA Replies ==
  ASSUME NEW us \in SUBSET Updates,
         NEW how \in [us -> {"reject", "sync", "raise", "async"}], NEW u \in us
  PROVE  Responses(u) \cap UpdateReplies(how, us) # {}
<1>1. CASE how[u] = "reject"
  <2>1. <<"rejected", u>> \in UpdateReplies(how, us)
    BY <1>1 DEF UpdateReplies
  <2> QED
    BY <2>1 DEF Responses
<1>2. CASE how[u] # "reject"
  <2>1. <<"accepted", u>> \in UpdateReplies(how, us)
    BY <1>2 DEF UpdateReplies
  <2> QED
    BY <2>1 DEF Responses
<1> QED
  BY <1>1, <1>2

\* The steps of the coordinators preserve it.
LEMMA ReportCoordinator ==
  ASSUME Calm, ReportInv, NEW i \in Insts, Coordinator(i)
  PROVE  Reports'
<1> USE DEF ReportInv, HostInv, AnswerInv, TypeInv, TypeOK, DispTypeOK, WorkflowTypeOK
<1>1. root = "cancelled" => disp = "stopped"
  BY DEF Reports, ServesOne
<1>2. CASE StartWorkflow(i) \/ ApplyActivation(i)
  <2>1. PICK how \in [UpdatesIn(pendingActivation[i]) -> {"reject", "sync", "raise", "async"}] :
          commands' = [commands EXCEPT ![i] = @ \cup QueryAnswers(pendingActivation[i])
                         \cup UpdateReplies(how, UpdatesIn(pendingActivation[i]))]
    BY <1>2 DEF StartWorkflow, ApplyActivation, Process
  <2>2. UNCHANGED <<coreVars, cur, workflowStates, root, disp, isComplete>>
        /\ pendingActivation' = [pendingActivation EXCEPT ![i] = NoActivation]
    BY <1>2 DEF StartWorkflow, ApplyActivation, Process, dispVars
  <2>3. \A u \in UpdatesIn(pendingActivation[i]) : Responses(u) \cap commands'[i] # {}
    <3>1. UpdatesIn(pendingActivation[i]) \in SUBSET Updates
      BY DEF UpdatesIn
    <3>2. ASSUME NEW u \in UpdatesIn(pendingActivation[i])
          PROVE  Responses(u) \cap UpdateReplies(how, UpdatesIn(pendingActivation[i])) # {}
      BY <2>1, <3>1, Replies
    <3>3. UpdateReplies(how, UpdatesIn(pendingActivation[i])) \subseteq commands'[i]
      BY <2>1
    <3> QED
      BY <3>2, <3>3
  <2>4. \A j \in Insts : commands[j] \subseteq commands'[j]
    BY <2>1
  <2>5. \A j \in Insts \ {i} : pendingActivation'[j] = pendingActivation[j]
    BY <2>2
  <2> QED
    BY <1>1, <2>2, <2>3, <2>4, <2>5, ReportElsewhere
<1>3. CASE SignalCommandsReady(i) \/ InterruptCoordinator(i) \/ ExitNursery(i)
  <2>1. UNCHANGED <<coreVars, cur, workflowStates, root, disp, isComplete,
                    commands, pendingActivation>>
    BY <1>3 DEF SignalCommandsReady, InterruptCoordinator, ExitNursery, dispVars
  <2> QED
    BY <1>1, <2>1, ReportElsewhere
<1>4. ~ApplyRaises(i)
  BY DEF ApplyRaises, Calm
<1>5. CASE FailWorkflow(i)
  BY <1>5 DEF FailWorkflow, RestInv, AtRest, Completes
<1>6. CASE UnknownWorkflowType(i)
  <2>1. UNCHANGED <<coreVars, cur, workflowStates>> /\ root' = "cancelled"
        /\ disp' = "stopped"
    BY <1>6 DEF UnknownWorkflowType, CancelRoot
  <2> QED
    BY <2>1, ReportElsewhere
<1> QED
  BY <1>2, <1>3, <1>4, <1>5, <1>6 DEF Coordinator

\* The tasks' steps preserve it: the main coroutine ends while the dispatcher
\* waits for its workflow, and with a terminal command.
LEMMA ReportTask ==
  ASSUME ReportInv, NEW i \in Insts, NEW t \in Tasks, TaskStep(i, t)
  PROVE  Reports'
<1> USE DEF ReportInv, HostInv, AnswerInv, TypeInv, TypeOK, DispTypeOK, WorkflowTypeOK
<1>1. root = "cancelled" => disp = "stopped"
  BY DEF Reports, ServesOne
<1>2. UNCHANGED <<coreVars, dispVars, pendingActivation>>
  BY DEF TaskStep, TaskWaits, TaskCleansUp, Suspend, MainEnds, SignalHandlerEnds,
         UpdateHandlerEnds, HandlerCancelled
<1>3. \A j \in Insts : commands[j] \subseteq commands'[j]
  <2>1. CASE TaskWaits(i, t) \/ TaskCleansUp(i, t)
    <3>1. commands' \in {commands, [commands EXCEPT ![i] = @ \cup {<<"op", t>>}]}
      BY <2>1 DEF TaskWaits, TaskCleansUp, Suspend
    <3> QED
      BY <3>1
  <2>2. CASE MainEnds(i) \/ UpdateHandlerEnds(i, t)
    <3>1. PICK c : commands' = [commands EXCEPT ![i] = @ \cup {c}]
      BY <2>2 DEF MainEnds, UpdateHandlerEnds
    <3> QED
      BY <3>1
  <2>3. CASE SignalHandlerEnds(i, t) \/ HandlerCancelled(i, t)
    BY <2>3 DEF SignalHandlerEnds, HandlerCancelled
  <2> QED
    BY <2>1, <2>2, <2>3 DEF TaskStep
<1>4. CASE t = Main /\ MainEnds(i)
  <2>1. PICK c \in Terminals : commands' = [commands EXCEPT ![i] = @ \cup {c}]
    BY <1>4 DEF MainEnds
  <2>2. isComplete' = [isComplete EXCEPT ![i] = TRUE] /\ task[i][Main] \in Runnable
    BY <1>4 DEF MainEnds
  <2>3. root = "open" => Collecting(i)
    BY <1>4, <2>2 DEF RestInv, AtRest, AtWork
  <2>4. commands'[i] \cap Terminals # {}
    BY <2>1
  <2>5. \A j \in Insts \ {i} : isComplete'[j] = isComplete[j]
    BY <2>2
  <2>6. UNCHANGED <<cur, workflowStates, root, disp>>
    BY <1>2 DEF dispVars
  <2> QED
    BY <1>1, <1>2, <1>3, <2>3, <2>4, <2>5, <2>6, ReportElsewhere
<1>5. CASE ~(t = Main /\ MainEnds(i))
  <2>1. UNCHANGED isComplete
    BY <1>5 DEF TaskStep, TaskWaits, TaskCleansUp, Suspend, SignalHandlerEnds,
                UpdateHandlerEnds, HandlerCancelled
  <2>2. UNCHANGED <<cur, workflowStates, root, disp>>
    BY <1>2 DEF dispVars
  <2> QED
    BY <1>1, <1>2, <1>3, <2>1, <2>2, ReportElsewhere
<1> QED
  BY <1>4, <1>5

\* Every step of the calm worker preserves the invariant.
LEMMA ReportStep ==
  ASSUME Calm
  PROVE  ReportInv /\ [Next]_vars => ReportInv'
<1> SUFFICES ASSUME ReportInv, [Next]_vars PROVE Reports'
  BY RestStep, HostInvStep DEF ReportInv
<1>1. TypeInv'
  BY TypeStep DEF ReportInv, RestInv
<1>2. CASE CoreNext
  BY <1>1, <1>2, ReportCore DEF CoreNext
<1>3. CASE Dispatcher
  BY <1>3, ReportDispatcher
<1>4. ASSUME NEW i \in Insts, Coordinator(i) \/ \E t \in Tasks : TaskStep(i, t)
      PROVE  Reports'
  BY <1>4, ReportCoordinator, ReportTask
<1>5. CASE Shutdown \/ UNCHANGED vars
  <2>1. root = "cancelled" => disp = "stopped"
    BY DEF ReportInv, Reports, ServesOne
  <2>2. UNCHANGED <<coreVars, cur, workflowStates, root, disp, isComplete,
                    commands, pendingActivation>>
    BY <1>5 DEF Shutdown, vars, dispVars, wfVars
  <2> QED
    BY <2>1, <2>2, ReportElsewhere
<1>6. CASE StopWorker
  <2>1. UNCHANGED <<coreVars, cur, workflowStates>> /\ root' = "cancelled"
        /\ disp' = "stopped"
    BY <1>6 DEF StopWorker, CancelRoot
  <2> QED
    BY <2>1, ReportElsewhere
<1> QED
  BY <1>2, <1>3, <1>4, <1>5, <1>6 DEF Next

\* The invariant holds of the calm worker.
LEMMA ReportAlways ==
  ASSUME Calm
  PROVE  Spec => []ReportInv
<1>1. ReportInv /\ [Next]_vars => ReportInv'
  BY ReportStep
<1> QED
  BY <1>1, ReportInit, PTL DEF Spec

\* An update is accepted or rejected in the completion of the activation that
\* brought it, also when its run is evicted, started again or replayed.
THEOREM UpdatesAnswered ==
  ASSUME Calm
  PROVE  Spec => []UpdateAnsweredAtOnce
<1>1. ReportInv => UpdateAnsweredAtOnce
  BY DEF ReportInv, Reports, Responded, UpdateAnsweredAtOnce
<1> QED
  BY <1>1, ReportAlways, PTL

\* A workflow whose WorkflowState says complete has told Core so as soon as the
\* dispatcher is free for its next activation.
THEOREM CompletionsReported ==
  ASSUME Calm
  PROVE  Spec => []CompletionReported
<1>1. ReportInv => CompletionReported
  BY DEF ReportInv, RestInv, TypeInv, TypeOK, DispTypeOK, Reports, Reported,
         CompletionReported
<1> QED
  BY <1>1, ReportAlways, PTL
=============================================================================
