----------------------- MODULE SingleThreadWorkerProof -----------------------
(***************************************************************************)
(* What TLAPS proves of SingleThreadWorker, for any number of runs,        *)
(* instances and handlers: its types, that an activation is answered at    *)
(* most once, that the worker implements WorkflowHost, and that a workflow *)
(* ends with one terminal command.                                         *)
(***************************************************************************)
EXTENDS SingleThreadWorker, TLAPS

TaskStates == {"none", "ready", "woken", "cancelled", "op", "cond", "cleanup",
               "done"}
Statuses   == [Tasks -> TaskStates]

-----------------------------------------------------------------------------
(* The operators on task states and on commands return what they should.   *)

\* Waking, interrupting and resolving keep a table of task states one.
LEMMA StatusOps ==
  ASSUME NEW st \in Statuses, NEW jobs
  PROVE  /\ Notified(st) \in Statuses
         /\ Interrupted(st) \in Statuses
         /\ Resolved(st, jobs) \in Statuses
BY DEF Notified, Interrupted, Resolved, Statuses, TaskStates, Waiting

\* So does applying the jobs of an activation.
LEMMA JobsAppliedType ==
  ASSUME NEW st \in Statuses, NEW jobs, NEW async
  PROVE  JobsApplied(st, jobs, async) \in Statuses
<1>1. Resolved(st, jobs) \in Statuses
  BY StatusOps
<1>2. SignalsApplied(Resolved(st, jobs), jobs, async) \in Statuses
  <2> DEFINE rs == Resolved(st, jobs)
  <2>1. Notified(rs) \in Statuses
    BY <1>1, StatusOps
  <2> QED
    BY <1>1, <2>1 DEF SignalsApplied, Statuses, TaskStates
<1> QED
  BY <1>2, StatusOps DEF JobsApplied

\* And applying its updates.
LEMMA UpdatesAppliedType ==
  ASSUME NEW st \in Statuses, NEW how, NEW us
  PROVE  UpdatesApplied(st, how, us) \in Statuses
BY StatusOps DEF UpdatesApplied, Statuses, TaskStates

\* What the jobs of an activation are answered with are commands.
LEMMA RepliesType ==
  ASSUME NEW how, NEW jobs
  PROVE  QueryAnswers(jobs) \cup UpdateReplies(how, UpdatesIn(jobs))
           \subseteq Commands
<1>1. QueryAnswers(jobs) \subseteq Commands
  BY DEF QueryAnswers, Commands
<1>2. ASSUME NEW c \in UpdateReplies(how, UpdatesIn(jobs))
      PROVE  c \in {"accepted", "completed", "rejected"} \X Updates
  <2>1. PICK u \in Updates : c \in {<<"accepted", u>>, <<"completed", u>>,
                                   <<"rejected", u>>}
    BY <1>2 DEF UpdateReplies, UpdatesIn
  <2> QED
    BY <2>1
<1>3. UpdateReplies(how, UpdatesIn(jobs)) \subseteq Commands
  BY <1>2 DEF Commands
<1> QED
  BY <1>1, <1>3

-----------------------------------------------------------------------------
(* Types.                                                                  *)

\* Collecting presumes that the run in hand has a WorkflowState.
TypeInv ==
  /\ TypeOK
  /\ disp = "collect" => workflowStates[cur] \in Insts

\* The initial states are typed.
LEMMA TypeInit == Init => TypeInv
<1> SUFFICES ASSUME Init PROVE TypeInv
  OBVIOUS
<1>1. CoreTypeOK
  BY DEF Init, CoreTypeOK, Activations
<1>2. DispTypeOK
  BY DEF Init, DispTypeOK
<1>3. WorkflowTypeOK
  BY DEF Init, WorkflowTypeOK
<1> QED
  BY <1>1, <1>2, <1>3 DEF Init, TypeInv, TypeOK

\* What SDK-Core does keeps the types.
LEMMA TypeCore ==
  ASSUME TypeInv, NEW r \in Runs,
         CoreStart(r) \/ CoreActivate(r) \/ CoreReplay(r) \/ CoreEvict(r)
           \/ CoreLate(r) \/ CoreComplete(r)
  PROVE  TypeInv'
<1>1. ASSUME NEW jobs \in Activations, Issue(r, jobs)
      PROVE  TypeInv'
  <2>1. UNCHANGED <<dispVars, wfVars>>
    BY <1>1 DEF Issue
  <2>2. DispTypeOK' /\ WorkflowTypeOK'
    BY <2>1 DEF TypeInv, TypeOK, DispTypeOK, WorkflowTypeOK, dispVars, wfVars
  <2>3. CoreTypeOK'
    BY <1>1 DEF Issue, TypeInv, TypeOK, CoreTypeOK
  <2> QED
    BY <2>1, <2>2, <2>3 DEF TypeInv, TypeOK, dispVars, wfVars
<1>2. Offered(r) \subseteq Jobs /\ {Start, Evict} \subseteq Jobs
  BY DEF TypeInv, TypeOK, CoreTypeOK, Offered, NewHandlers, Jobs
<1>3. CASE CoreStart(r) \/ CoreActivate(r)
  <2>1. PICK jobs \in SUBSET Jobs : Issue(r, jobs)
    BY <1>2, <1>3 DEF CoreStart, CoreActivate
  <2> QED
    BY <1>1, <2>1 DEF Activations
<1>4. CASE CoreReplay(r) \/ CoreEvict(r) \/ CoreLate(r)
  BY <1>1, <1>2, <1>4 DEF CoreReplay, CoreEvict, CoreLate, Activations
<1>5. CASE CoreComplete(r)
  <2>1. CoreTypeOK'
    <3>1. \A h \in Handlers : Told(r, h) \in {"none", "sent", "accepted", "done"}
      BY DEF Told, TypeInv, TypeOK, CoreTypeOK
    <3> QED
      BY <1>5, <3>1 DEF CoreComplete, TypeInv, TypeOK, CoreTypeOK, Activations
  <2>2. DispTypeOK' /\ (disp' = "collect" => workflowStates'[cur'] \in Insts)
    BY <1>5 DEF CoreComplete, TypeInv, TypeOK, DispTypeOK
  <2>3. WorkflowTypeOK'
    BY <1>5 DEF CoreComplete, TypeInv, TypeOK, WorkflowTypeOK, wfVars
  <2> QED
    BY <2>1, <2>2, <2>3 DEF TypeInv, TypeOK
<1> QED
  BY <1>3, <1>4, <1>5

\* Sending commands keeps Core's types.
LEMMA SendType ==
  ASSUME CoreTypeOK, NEW r \in Runs, NEW cmds \in SUBSET Commands, Send(r, cmds)
  PROVE  CoreTypeOK' /\ disp' = "ack" /\ cur' = r
BY DEF Send, CoreTypeOK

\* Taking the commands keeps the workflow's types.
LEMMA TakeCommandsType ==
  ASSUME WorkflowTypeOK, NEW i, TakeCommands(i)
  PROVE  WorkflowTypeOK'
BY DEF TakeCommands, WorkflowTypeOK

\* What the dispatcher does keeps the types.
LEMMA TypeDispatcher ==
  ASSUME TypeInv, Dispatcher
  PROVE  TypeInv'
<1> USE DEF TypeInv, TypeOK
<1>1. ASSUME NEW r \in Runs, DispatchEviction(r) \/ DispatchCompletedReplay(r)
               \/ DispatchUnknownRun(r) \/ DispatchToCompleted(r)
      PROVE  TypeInv'
  <2>1. PICK cmds \in SUBSET Commands : Send(r, cmds)
    <3>1. /\ {} \in SUBSET Commands
          /\ {<<"complete", Main>>} \in SUBSET Commands
          /\ QueryAnswers(act[r]) \in SUBSET Commands
      BY DEF QueryAnswers, Commands, Terminals
    <3> QED
      BY <1>1, <3>1 DEF DispatchEviction, DispatchCompletedReplay,
                        DispatchUnknownRun, DispatchToCompleted
  <2>2. CoreTypeOK' /\ disp' = "ack" /\ cur' = r
    BY <2>1, SendType
  <2>3. DispTypeOK'
    BY <1>1, <2>2 DEF DispatchEviction, DispatchCompletedReplay,
                      DispatchUnknownRun, DispatchToCompleted, DispTypeOK
  <2>4. WorkflowTypeOK'
    BY <1>1 DEF DispatchEviction, DispatchCompletedReplay, DispatchUnknownRun,
                DispatchToCompleted, WorkflowTypeOK, wfVars
  <2> QED
    BY <2>2, <2>3, <2>4
<1>2. ASSUME NEW r \in Runs, DispatchNewWorkflow(r) \/ DeliverActivation(r)
      PROVE  TypeInv'
  <2>1. CoreTypeOK' /\ cur' = r
    BY <1>2 DEF DispatchNewWorkflow, DeliverActivation, AwaitCommands, CoreTypeOK
  <2>2. DispTypeOK' /\ workflowStates'[r] \in Insts
    BY <1>2 DEF DispatchNewWorkflow, DeliverActivation, AwaitCommands,
                DispTypeOK, Fresh
  <2>3. act[r] \in Activations
    BY DEF CoreTypeOK
  <2>4. WorkflowTypeOK'
    BY <1>2, <2>3 DEF DispatchNewWorkflow, DeliverActivation, WorkflowTypeOK
  <2> QED
    BY <2>1, <2>2, <2>4
<1>3. ASSUME NEW r \in Runs, PollFails(r)
      PROVE  TypeInv'
  BY <1>3 DEF PollFails, CoreTypeOK, DispTypeOK, WorkflowTypeOK, dispVars, wfVars
<1>4. CASE CollectCommands
  <2>1. cur \in Runs /\ workflowStates[cur] \in Insts
    BY <1>4 DEF CollectCommands, Signalled, DispTypeOK
  <2>2. Send(cur, commands[workflowStates[cur]])
        /\ TakeCommands(workflowStates[cur])
    BY <1>4 DEF CollectCommands
  <2>3. commands[workflowStates[cur]] \in SUBSET Commands
    BY <2>1 DEF WorkflowTypeOK
  <2>4. CoreTypeOK' /\ disp' = "ack" /\ cur' = cur
    BY <2>1, <2>2, <2>3, SendType
  <2>5. WorkflowTypeOK'
    BY <2>2, TakeCommandsType
  <2>6. DispTypeOK'
    BY <1>4, <2>4 DEF CollectCommands, DispTypeOK
  <2> QED
    BY <2>4, <2>5, <2>6
<1>5. CASE CollectFails
  <2>1. WorkflowTypeOK'
    BY <1>5, TakeCommandsType DEF CollectFails
  <2> QED
    BY <1>5, <2>1 DEF CollectFails, coreVars, CoreTypeOK, DispTypeOK
<1> QED
  BY <1>1, <1>2, <1>3, <1>4, <1>5 DEF Dispatcher, Dispatch

\* Processing an activation keeps the workflow's types.
LEMMA ProcessType ==
  ASSUME TypeInv, NEW i \in Insts, NEW st \in Statuses,
         NEW jobs \in Activations \cup {NoActivation}, NEW async,
         NEW scoped \in BOOLEAN,
         Process(i, st, jobs, async, scoped)
  PROVE  TypeInv'
<1> USE DEF TypeInv, TypeOK
<1>1. UNCHANGED <<coreVars, dispVars>>
  BY DEF Process
<1>2. CoreTypeOK' /\ DispTypeOK'
  BY <1>1 DEF coreVars, dispVars, CoreTypeOK, DispTypeOK
<1>3. PICK how :
        /\ task' = [task EXCEPT ![i] = UpdatesApplied(
             JobsApplied(st, IF scoped THEN jobs ELSE jobs \ {Cancel}, async),
             how, UpdatesIn(jobs))]
        /\ commands' = [commands EXCEPT ![i] =
             @ \cup QueryAnswers(jobs) \cup UpdateReplies(how, UpdatesIn(jobs))]
  BY DEF Process
<1>4. task' \in [Insts -> Statuses]
  BY <1>3, JobsAppliedType, UpdatesAppliedType
     DEF WorkflowTypeOK, Statuses, TaskStates
<1>5. commands' \in [Insts -> SUBSET Commands]
  BY <1>3, RepliesType DEF WorkflowTypeOK
<1>6. /\ cancelRequested' \in [Insts -> BOOLEAN]
      /\ scopeCancelled' \in [Insts -> BOOLEAN]
      /\ pendingActivation' \in [Insts -> Activations \cup {NoActivation}]
      /\ commandsReady' \in [Insts -> BOOLEAN]
      /\ isComplete' \in [Insts -> BOOLEAN]
  BY DEF Process, WorkflowTypeOK
<1>7. /\ coord' \in [Insts -> {"unused", "spawned", "settling", "idle",
                               "exiting", "failing", "done", "crashed"}]
      /\ onSuspend' \in [Insts -> BOOLEAN]
  BY DEF Process, BeginSettling, WorkflowTypeOK
<1>8. WorkflowTypeOK'
  BY <1>4, <1>5, <1>6, <1>7 DEF WorkflowTypeOK, Statuses, TaskStates
<1> QED
  BY <1>1, <1>2, <1>8 DEF dispVars

\* A step of a workflow that leaves Core and the dispatcher alone.
LEMMA TypeLocal ==
  ASSUME TypeInv, WorkflowTypeOK', UNCHANGED <<coreVars, dispVars>>
  PROVE  TypeInv'
BY DEF TypeInv, TypeOK, CoreTypeOK, DispTypeOK, coreVars, dispVars

\* Cancelling the root nursery keeps the types.
LEMMA TypeCancelRoot ==
  ASSUME TypeInv, CancelRoot,
         coord' \in [Insts -> {"unused", "spawned", "settling", "idle",
                               "exiting", "failing", "done", "crashed"}]
  PROVE  TypeInv'
<1> USE DEF TypeInv, TypeOK
<1>1. CoreTypeOK'
  BY DEF CancelRoot, coreVars, CoreTypeOK
<1>2. DispTypeOK' /\ disp' = "stopped"
  BY DEF CancelRoot, DispTypeOK
<1>3. \A i \in Insts : task[i] \in Statuses
  BY DEF WorkflowTypeOK, Statuses, TaskStates
<1>4. task' \in [Insts -> Statuses]
  BY <1>3, StatusOps DEF CancelRoot
<1>5. WorkflowTypeOK'
  BY <1>4 DEF CancelRoot, WorkflowTypeOK, Statuses, TaskStates
<1> QED
  BY <1>1, <1>2, <1>5

\* What a coordinator does keeps the types.
LEMMA TypeCoordinator ==
  ASSUME TypeInv, NEW i \in Insts, Coordinator(i)
  PROVE  TypeInv'
<1> USE DEF TypeInv, TypeOK
<1>1. task[i] \in Statuses /\ pendingActivation[i] \in Activations \cup {NoActivation}
  BY DEF WorkflowTypeOK, Statuses, TaskStates
<1>2. CASE StartWorkflow(i)
  <2>1. [task[i] EXCEPT ![Main] = "ready"] \in Statuses
    BY <1>1 DEF Statuses, TaskStates
  <2> QED
    BY <1>1, <1>2, <2>1, ProcessType DEF StartWorkflow
<1>3. CASE ApplyActivation(i)
  BY <1>1, <1>3, ProcessType DEF ApplyActivation
<1>4. CASE SignalCommandsReady(i) \/ InterruptCoordinator(i) \/ ExitNursery(i)
  <2>1. WorkflowTypeOK'
    BY <1>4 DEF SignalCommandsReady, InterruptCoordinator, ExitNursery,
                WorkflowTypeOK
  <2> QED
    BY <1>4, <2>1, TypeLocal DEF SignalCommandsReady, InterruptCoordinator,
                                 ExitNursery
<1>5. CASE ApplyRaises(i)
  <2>1. \A jobs, async : Interrupted(JobsApplied(task[i], jobs, async)) \in Statuses
    BY <1>1, JobsAppliedType, StatusOps
  <2>2. task' \in [Insts -> Statuses]
    BY <1>1, <1>5, <2>1 DEF ApplyRaises, WorkflowTypeOK, Statuses, TaskStates
  <2>3. WorkflowTypeOK'
    BY <1>5, <2>2 DEF ApplyRaises, WorkflowTypeOK, Statuses, TaskStates
  <2> QED
    BY <1>5, <2>3, TypeLocal DEF ApplyRaises
<1>6. CASE FailWorkflow(i)
  <2>1. <<"fail", Main>> \in Commands
    BY DEF Commands, Terminals
  <2>2. WorkflowTypeOK'
    BY <1>6, <2>1 DEF FailWorkflow, WorkflowTypeOK
  <2> QED
    BY <1>6, <2>2, TypeLocal DEF FailWorkflow
<1>7. CASE UnknownWorkflowType(i)
  BY <1>7, TypeCancelRoot DEF UnknownWorkflowType, WorkflowTypeOK
<1> QED
  BY <1>2, <1>3, <1>4, <1>5, <1>6, <1>7 DEF Coordinator

\* What a task of a workflow does keeps the types.
LEMMA TypeTask ==
  ASSUME TypeInv, NEW i \in Insts, NEW t \in Tasks, TaskStep(i, t)
  PROVE  TypeInv'
<1> USE DEF TypeInv, TypeOK
<1>1. task[i] \in Statuses /\ [task[i] EXCEPT ![t] = "done"] \in Statuses
  BY DEF WorkflowTypeOK, Statuses, TaskStates
<1>2. UNCHANGED <<coreVars, dispVars>>
  BY DEF TaskStep, TaskWaits, TaskCleansUp, Suspend, MainEnds,
         SignalHandlerEnds, UpdateHandlerEnds, HandlerCancelled
<1>3. ASSUME NEW how \in {"op", "cond", "cleanup"},
             NEW next \in {"op", "cond", "cleanup", "cancelled"},
             Suspend(i, t, how, next)
      PROVE  WorkflowTypeOK'
  <2>1. <<"op", t>> \in Commands
    BY DEF Commands
  <2> QED
    BY <1>3, <2>1 DEF Suspend, WorkflowTypeOK
<1>4. CASE TaskWaits(i, t) \/ TaskCleansUp(i, t)
  <2>1. WorkflowTypeOK'
    BY <1>3, <1>4 DEF TaskWaits, TaskCleansUp, Waiting
  <2> QED
    BY <1>2, <2>1, TypeLocal
<1>5. CASE t = Main /\ MainEnds(i)
  <2>1. task' \in [Insts -> Statuses]
    BY <1>1, <1>5, StatusOps DEF MainEnds, WorkflowTypeOK, Statuses, TaskStates
  <2>2. commands' \in [Insts -> SUBSET Commands]
    BY <1>5 DEF MainEnds, WorkflowTypeOK, Commands
  <2>3. WorkflowTypeOK'
    BY <1>5, <2>1, <2>2 DEF MainEnds, WorkflowTypeOK, Statuses, TaskStates
  <2> QED
    BY <1>2, <2>3, TypeLocal
<1>6. CASE t \in Signals /\ SignalHandlerEnds(i, t)
  <2>1. WorkflowTypeOK'
    BY <1>6 DEF SignalHandlerEnds, WorkflowTypeOK
  <2> QED
    BY <1>2, <2>1, TypeLocal
<1>7. CASE t \in Updates /\ UpdateHandlerEnds(i, t)
  <2>1. task' \in [Insts -> Statuses]
    BY <1>1, <1>7, StatusOps
       DEF UpdateHandlerEnds, WorkflowTypeOK, Statuses, TaskStates
  <2>2. commands' \in [Insts -> SUBSET Commands]
    BY <1>7 DEF UpdateHandlerEnds, WorkflowTypeOK, Commands
  <2>3. WorkflowTypeOK'
    BY <1>7, <2>1, <2>2 DEF UpdateHandlerEnds, WorkflowTypeOK, Statuses,
                            TaskStates
  <2> QED
    BY <1>2, <2>3, TypeLocal
<1>8. CASE HandlerCancelled(i, t)
  <2>1. task' \in [Insts -> Statuses]
    BY <1>1, <1>8, StatusOps
       DEF HandlerCancelled, WorkflowTypeOK, Statuses, TaskStates
  <2>2. WorkflowTypeOK'
    BY <1>8, <2>1 DEF HandlerCancelled, WorkflowTypeOK, Statuses, TaskStates
  <2> QED
    BY <1>2, <2>2, TypeLocal
<1> QED
  BY <1>4, <1>5, <1>6, <1>7, <1>8 DEF TaskStep

\* Every step keeps the types.
LEMMA TypeStep == TypeInv /\ [Next]_vars => TypeInv'
<1> SUFFICES ASSUME TypeInv, [Next]_vars PROVE TypeInv'
  OBVIOUS
<1>1. CASE CoreNext
  BY <1>1, TypeCore DEF CoreNext
<1>2. CASE Dispatcher
  BY <1>2, TypeDispatcher
<1>3. ASSUME NEW i \in Insts, Coordinator(i) \/ \E t \in Tasks : TaskStep(i, t)
      PROVE  TypeInv'
  BY <1>3, TypeCoordinator, TypeTask
<1>4. CASE Shutdown
  BY <1>4 DEF Shutdown, TypeInv, TypeOK, CoreTypeOK, DispTypeOK, WorkflowTypeOK,
              coreVars, wfVars
<1>5. CASE StopWorker
  BY <1>5, TypeCancelRoot
     DEF StopWorker, TypeInv, TypeOK, DispTypeOK, WorkflowTypeOK
<1>6. CASE UNCHANGED vars
  BY <1>6 DEF vars, coreVars, dispVars, wfVars, TypeInv, TypeOK, CoreTypeOK,
              DispTypeOK, WorkflowTypeOK
<1> QED
  BY <1>1, <1>2, <1>3, <1>4, <1>5, <1>6 DEF Next

\* Every reachable state is typed, whatever the constants are; in particular
\* the dispatcher never collects for a run that has no WorkflowState.
THEOREM TypeCorrect == Spec => []TypeOK
<1>1. TypeInv => TypeOK
  BY DEF TypeInv
<1> QED
  BY <1>1, TypeInit, TypeStep, PTL DEF Spec

-----------------------------------------------------------------------------
(* At most one answer.                                                     *)

\* AnsweredOnce is not inductive: while the dispatcher collects for a run it
\* must be known that the run's activation is polled, so not yet answered.
AnswerInv ==
  /\ TypeInv
  /\ AnsweredOnce
  /\ disp = "collect" => core[cur] = "polled"

\* The initial states satisfy it.
LEMMA AnswerInit == Init => AnswerInv
BY TypeInit DEF Init, AnswerInv, AnsweredOnce

\* SDK-Core's steps preserve it: it counts from zero for a new activation.
LEMMA AnswerCore ==
  ASSUME AnswerInv, NEW r \in Runs, TypeInv',
         CoreStart(r) \/ CoreActivate(r) \/ CoreReplay(r) \/ CoreEvict(r)
           \/ CoreLate(r) \/ CoreComplete(r)
  PROVE  AnswerInv'
<1> USE DEF AnswerInv, TypeInv, TypeOK, CoreTypeOK, DispTypeOK
<1>1. CASE CoreComplete(r)
  <2>1. AnsweredOnce'
    BY <1>1 DEF CoreComplete, AnsweredOnce
  <2>2. disp' = "collect" => core'[cur'] = "polled"
    BY <1>1 DEF CoreComplete
  <2> QED
    BY <2>1, <2>2
<1>2. CASE core[r] \in {"absent", "idle"} /\ \E jobs : Issue(r, jobs)
  <2>1. PICK jobs : Issue(r, jobs)
    BY <1>2
  <2>2. AnsweredOnce'
    BY <2>1 DEF Issue, AnsweredOnce
  <2>3. disp' = "collect" => core'[cur'] = "polled"
    BY <1>2, <2>1 DEF Issue, dispVars
  <2> QED
    BY <2>2, <2>3
<1> QED
  BY <1>1, <1>2 DEF CoreStart, CoreActivate, CoreReplay, CoreEvict, CoreLate

\* One completion for an activation that has none is the first one.
LEMMA AnswerSend ==
  ASSUME AnswerInv, NEW r \in Runs, NEW cmds, Send(r, cmds),
         core[r] \in {"issued", "polled"}, TypeInv'
  PROVE  AnswerInv'
<1> USE DEF AnswerInv, TypeInv, TypeOK, CoreTypeOK, DispTypeOK
<1>1. AnsweredOnce'
  BY DEF Send, AnsweredOnce
<1>2. disp' # "collect"
  BY DEF Send
<1> QED
  BY <1>1, <1>2

\* The dispatcher's steps preserve it.
LEMMA AnswerDispatcher ==
  ASSUME AnswerInv, Dispatcher, TypeInv'
  PROVE  AnswerInv'
<1> USE DEF AnswerInv, TypeInv, TypeOK, CoreTypeOK, DispTypeOK
<1>1. ASSUME NEW r \in Runs, DispatchEviction(r) \/ DispatchCompletedReplay(r)
               \/ DispatchUnknownRun(r) \/ DispatchToCompleted(r)
      PROVE  AnswerInv'
  <2>1. core[r] = "issued" /\ \E cmds : Send(r, cmds)
    BY <1>1 DEF DispatchEviction, DispatchCompletedReplay, DispatchUnknownRun,
                DispatchToCompleted, Take
  <2> QED
    BY <2>1, AnswerSend
<1>2. ASSUME NEW r \in Runs, DispatchNewWorkflow(r) \/ DeliverActivation(r)
      PROVE  AnswerInv'
  <2>1. core[r] = "issued" /\ AwaitCommands(r)
    BY <1>2 DEF DispatchNewWorkflow, DeliverActivation, Take
  <2> QED
    BY <2>1 DEF AwaitCommands, AnsweredOnce
<1>3. ASSUME NEW r \in Runs, PollFails(r)
      PROVE  AnswerInv'
  BY <1>3 DEF PollFails, Take, AnsweredOnce, dispVars
<1>4. CASE CollectCommands
  <2>1. cur \in Runs /\ core[cur] = "polled"
    BY <1>4 DEF CollectCommands, Signalled
  <2>2. \E cmds : Send(cur, cmds)
    BY <1>4 DEF CollectCommands
  <2> QED
    BY <2>1, <2>2, AnswerSend
<1>5. CASE CollectFails
  BY <1>5 DEF CollectFails, AnsweredOnce, coreVars
<1> QED
  BY <1>1, <1>2, <1>3, <1>4, <1>5 DEF Dispatcher, Dispatch

\* Every step preserves it.
LEMMA AnswerStep == AnswerInv /\ [Next]_vars => AnswerInv'
<1> SUFFICES ASSUME AnswerInv, [Next]_vars PROVE AnswerInv'
  OBVIOUS
<1>1. TypeInv'
  BY TypeStep DEF AnswerInv
<1>2. CASE CoreNext
  BY <1>1, <1>2, AnswerCore DEF CoreNext
<1>3. CASE Dispatcher
  BY <1>1, <1>3, AnswerDispatcher
<1>4. ASSUME UNCHANGED coreVars, UNCHANGED cur, disp' \in {disp, "stopped"}
      PROVE  AnswerInv'
  BY <1>1, <1>4 DEF AnswerInv, AnsweredOnce, coreVars
<1>5. ASSUME NEW i \in Insts, Coordinator(i) \/ \E t \in Tasks : TaskStep(i, t)
      PROVE  AnswerInv'
  <2>1. UNCHANGED coreVars /\ UNCHANGED cur /\ disp' \in {disp, "stopped"}
    <3>1. CASE Coordinator(i)
      BY <3>1 DEF Coordinator, StartWorkflow, ApplyActivation, Process,
                  SignalCommandsReady, InterruptCoordinator, ExitNursery,
                  ApplyRaises, FailWorkflow, UnknownWorkflowType, CancelRoot,
                  dispVars
    <3>2. CASE \E t \in Tasks : TaskStep(i, t)
      BY <3>2 DEF TaskStep, TaskWaits, TaskCleansUp, Suspend, MainEnds,
                  SignalHandlerEnds, UpdateHandlerEnds, HandlerCancelled, dispVars
    <3> QED
      BY <1>5, <3>1, <3>2
  <2> QED
    BY <1>4, <2>1
<1>6. CASE Shutdown \/ StopWorker \/ UNCHANGED vars
  BY <1>4, <1>6 DEF Shutdown, StopWorker, CancelRoot, vars, dispVars
<1> QED
  BY <1>2, <1>3, <1>5, <1>6 DEF Next

\* SDK-Core never gets a second completion for an activation, whatever the
\* workflows, the faults and the order of the worker's tasks.
THEOREM AnswersOnce == Spec => []AnsweredOnce
<1>1. AnswerInv => AnsweredOnce
  BY DEF AnswerInv
<1> QED
  BY <1>1, AnswerInit, AnswerStep, PTL DEF Spec
-----------------------------------------------------------------------------
(* What the mapping relies on.                                             *)

\* The dispatcher awaits the answer of the bridge for the one completion on its
\* way, and a stopped one awaits none.
OnTheWay ==
  /\ disp = "ack" => core[cur] = "answered"
  /\ \A r \in Runs : core[r] = "answered" =>
       disp = "stopped" \/ (disp = "ack" /\ cur = r)

Complete(r) == workflowStates[r] \in Insts /\ isComplete[workflowStates[r]]

\* A terminal command is issued by a workflow that is complete from then on,
\* so a run that Core has closed is complete or evicted, and never one whose
\* commands the dispatcher waits for.
ClosedComplete ==
  /\ \A i \in Insts : commands[i] \cap Terminals # {} => isComplete[i]
  /\ \A r \in Runs : core[r] = "answered" /\ reply[r] \cap Terminals # {} =>
       workflowStates[r] = NoInst \/ Complete(r)
  /\ \A r \in Runs : closed[r] # {} =>
       Complete(r) \/ (core[r] = "answered" /\ workflowStates[r] = NoInst)
  /\ disp = "collect" => closed[cur] = {}

HostInv == AnswerInv /\ OnTheWay /\ ClosedComplete

\* The initial states satisfy it.
LEMMA HostInvInit == Init => HostInv
BY AnswerInit DEF Init, HostInv, OnTheWay, ClosedComplete

\* SDK-Core's steps preserve it.
LEMMA HostInvCore ==
  ASSUME HostInv, AnswerInv', NEW r \in Runs,
         CoreStart(r) \/ CoreActivate(r) \/ CoreReplay(r) \/ CoreEvict(r)
           \/ CoreLate(r) \/ CoreComplete(r)
  PROVE  HostInv'
<1> USE DEF HostInv, AnswerInv, TypeInv, TypeOK, CoreTypeOK, DispTypeOK
<1>1. CASE CoreComplete(r)
  <2>1. core[r] = "answered" /\ UNCHANGED <<cur, workflowStates, wfVars>>
    BY <1>1 DEF CoreComplete
  <2>2. OnTheWay'
    BY <1>1 DEF CoreComplete, OnTheWay
  <2>3. \A q \in Runs : closed'[q] # {} =>
          Complete(q) \/ (core'[q] = "answered" /\ workflowStates[q] = NoInst)
    <3>1. closed'[r] # {} => Complete(r)
      BY <1>1 DEF CoreComplete, ClosedComplete
    <3>2. \A q \in Runs \ {r} : closed'[q] = closed[q] /\ core'[q] = core[q]
      BY <1>1 DEF CoreComplete
    <3> QED
      BY <3>1, <3>2 DEF ClosedComplete
  <2>4. ClosedComplete'
    <3>1. \A q \in Runs : Complete(q)' = Complete(q)
      BY <2>1 DEF Complete, wfVars
    <3>2. \A q \in Runs : core'[q] = "answered" =>
            core[q] = "answered" /\ reply'[q] = reply[q]
      BY <1>1 DEF CoreComplete
    <3>3. disp' = "collect" => closed'[cur'] = {}
      BY <1>1 DEF CoreComplete, ClosedComplete
    <3>4. \A i \in Insts : commands'[i] = commands[i] /\ isComplete'[i] = isComplete[i]
      BY <2>1 DEF wfVars
    <3> QED
      BY <2>1, <2>3, <3>1, <3>2, <3>3, <3>4 DEF ClosedComplete
  <2> QED
    BY <2>2, <2>4
<1>2. CASE core[r] \in {"absent", "idle"} /\ \E jobs : Issue(r, jobs)
  <2>1. /\ core' = [core EXCEPT ![r] = "issued"]
        /\ UNCHANGED <<reply, closed, dispVars, wfVars>>
    BY <1>2 DEF Issue
  <2>2. OnTheWay'
    BY <1>2, <2>1 DEF OnTheWay, dispVars
  <2>3. ClosedComplete'
    <3>1. \A q \in Runs : Complete(q)' = Complete(q)
      BY <2>1 DEF Complete, dispVars, wfVars
    <3>2. \A i \in Insts : commands'[i] = commands[i] /\ isComplete'[i] = isComplete[i]
      BY <2>1 DEF wfVars
    <3> QED
      BY <1>2, <2>1, <3>1, <3>2 DEF ClosedComplete, dispVars
  <2> QED
    BY <2>2, <2>3
<1> QED
  BY <1>1, <1>2 DEF CoreStart, CoreActivate, CoreReplay, CoreEvict, CoreLate

\* An answer without a terminal command, or from a complete workflow.
LEMMA HostInvSend ==
  ASSUME HostInv, AnswerInv', NEW r \in Runs, NEW cmds, Send(r, cmds),
         \/ core[r] = "issued" /\ disp = "poll"
         \/ disp = "collect" /\ cur = r,
         \A q \in Runs \ {r} : workflowStates'[q] = workflowStates[q],
         workflowStates'[r] \in {workflowStates[r], NoInst},
         cmds \cap Terminals # {} => Complete(r)',
         \A i \in Insts : commands'[i] \subseteq commands[i],
         UNCHANGED isComplete
  PROVE  HostInv'
<1> USE DEF HostInv, AnswerInv, TypeInv, TypeOK, CoreTypeOK, DispTypeOK
<1>1. OnTheWay'
  BY DEF Send, OnTheWay
<1>2. \A q \in Runs \ {r} : /\ Complete(q)' = Complete(q)
                            /\ core'[q] = core[q] /\ reply'[q] = reply[q]
  BY DEF Send, Complete
<1>3. core'[r] = "answered" /\ reply'[r] = cmds /\ closed' = closed /\ disp' = "ack"
  BY DEF Send
<1>4. closed[r] # {} => Complete(r)' \/ workflowStates'[r] = NoInst
  BY DEF ClosedComplete, Complete, Send
<1>5. ClosedComplete'
  <2>1. \A i \in Insts : commands'[i] \cap Terminals # {} => isComplete'[i]
    BY DEF ClosedComplete
  <2>2. \A q \in Runs : core'[q] = "answered" /\ reply'[q] \cap Terminals # {} =>
          workflowStates'[q] = NoInst \/ Complete(q)'
    BY <1>2, <1>3 DEF ClosedComplete
  <2>3. \A q \in Runs : closed'[q] # {} =>
          Complete(q)' \/ (core'[q] = "answered" /\ workflowStates'[q] = NoInst)
    BY <1>2, <1>3, <1>4 DEF ClosedComplete
  <2> QED
    BY <1>3, <2>1, <2>2, <2>3 DEF ClosedComplete
<1> QED
  BY <1>1, <1>5

\* The dispatcher's steps preserve it.
LEMMA HostInvDispatcher ==
  ASSUME HostInv, AnswerInv', Dispatcher
  PROVE  HostInv'
<1> USE DEF HostInv, AnswerInv, TypeInv, TypeOK, CoreTypeOK, DispTypeOK,
            WorkflowTypeOK
<1>1. ASSUME NEW r \in Runs, DispatchEviction(r) \/ DispatchCompletedReplay(r)
               \/ DispatchUnknownRun(r) \/ DispatchToCompleted(r)
      PROVE  HostInv'
  <2>1. core[r] = "issued" /\ disp = "poll" /\ UNCHANGED wfVars
    BY <1>1 DEF DispatchEviction, DispatchCompletedReplay, DispatchUnknownRun,
                DispatchToCompleted, Take
  <2>2. PICK cmds : Send(r, cmds) /\ (cmds \cap Terminals # {} => Complete(r)')
    <3>1. {} \cap Terminals = {} /\ QueryAnswers(act[r]) \cap Terminals = {}
      BY DEF QueryAnswers, Terminals, Answer
    <3>2. DispatchCompletedReplay(r) => Complete(r)'
      BY DEF DispatchCompletedReplay, Complete, wfVars
    <3> QED
      BY <1>1, <3>1, <3>2 DEF DispatchEviction, DispatchCompletedReplay,
                              DispatchUnknownRun, DispatchToCompleted
  <2>3. /\ \A q \in Runs \ {r} : workflowStates'[q] = workflowStates[q]
        /\ workflowStates'[r] \in {workflowStates[r], NoInst}
    BY <1>1 DEF DispatchEviction, DispatchCompletedReplay, DispatchUnknownRun,
                DispatchToCompleted
  <2>4. UNCHANGED <<commands, isComplete>>
    BY <2>1 DEF wfVars
  <2> QED
    BY <2>1, <2>2, <2>3, <2>4, HostInvSend
<1>2. ASSUME NEW r \in Runs, DispatchNewWorkflow(r) \/ DeliverActivation(r)
      PROVE  HostInv'
  <2>1. /\ core[r] = "issued" /\ disp = "poll" /\ AwaitCommands(r)
        /\ UNCHANGED <<commands, isComplete>>
        /\ ~Complete(r)
    BY NamesAssumption, <1>2 DEF DispatchNewWorkflow, DeliverActivation, Take, Complete
  <2>2. \A q \in Runs \ {r} : workflowStates'[q] = workflowStates[q]
    BY <1>2 DEF DispatchNewWorkflow, DeliverActivation
  <2>3. closed[r] = {}
    BY <2>1 DEF ClosedComplete
  <2>4. /\ core' = [core EXCEPT ![r] = "polled"] /\ disp' = "collect"
        /\ cur' = r /\ UNCHANGED <<reply, closed>>
    BY <2>1 DEF AwaitCommands
  <2>5. OnTheWay'
    BY <2>1, <2>4 DEF OnTheWay
  <2>6. \A q \in Runs \ {r} : Complete(q)' = Complete(q)
    BY <2>1, <2>2 DEF Complete
  <2>7. ClosedComplete'
    BY <2>1, <2>2, <2>3, <2>4, <2>6 DEF ClosedComplete
  <2> QED
    BY <2>5, <2>7
<1>3. ASSUME NEW r \in Runs, PollFails(r)
      PROVE  HostInv'
  <2>1. /\ disp = "poll" /\ core[r] = "issued"
        /\ core' = [core EXCEPT ![r] = "polled"]
        /\ UNCHANGED <<reply, closed, disp, cur, workflowStates, isComplete, commands>>
    BY <1>3 DEF PollFails, Take, dispVars, wfVars
  <2>2. \A q \in Runs : Complete(q)' = Complete(q)
    BY <2>1 DEF Complete
  <2>3. OnTheWay' /\ ClosedComplete'
    BY <2>1, <2>2 DEF OnTheWay, ClosedComplete
  <2> QED
    BY <2>3
<1>4. CASE CollectCommands
  <2>1. PICK r \in Runs, i \in Insts, cmds \in SUBSET Commands :
          /\ r = cur /\ i = workflowStates[r] /\ cmds = commands[i]
          /\ disp = "collect" /\ Send(r, cmds) /\ TakeCommands(i)
          /\ UNCHANGED workflowStates
    BY <1>4 DEF CollectCommands, Signalled
  <2>2. UNCHANGED isComplete /\ \A j \in Insts : commands'[j] \subseteq commands[j]
    BY <2>1 DEF TakeCommands
  <2>3. cmds \cap Terminals # {} => Complete(r)'
    BY <2>1, <2>2 DEF ClosedComplete, Complete
  <2> QED
    BY <2>1, <2>2, <2>3, HostInvSend
<1>5. CASE CollectFails
  <2>1. PICK i \in Insts : i = workflowStates[cur] /\ disp = "collect" /\ TakeCommands(i)
    BY <1>5 DEF CollectFails, Signalled
  <2>2. /\ UNCHANGED isComplete /\ \A j \in Insts : commands'[j] \subseteq commands[j]
        /\ UNCHANGED <<coreVars, cur, workflowStates>> /\ disp' \in {"stopped", "poll"}
    BY <1>5, <2>1 DEF TakeCommands, CollectFails
  <2>3. \A q \in Runs : Complete(q)' = Complete(q)
    BY <2>2 DEF Complete
  <2>4. OnTheWay' /\ ClosedComplete'
    BY <2>1, <2>2, <2>3 DEF OnTheWay, ClosedComplete, coreVars
  <2> QED
    BY <2>4
<1> QED
  BY <1>1, <1>2, <1>3, <1>4, <1>5 DEF Dispatcher, Dispatch

\* A step of a workflow issues a terminal command only as it completes.
LEMMA HostInvWorkflow ==
  ASSUME HostInv, AnswerInv', UNCHANGED <<coreVars, cur, workflowStates>>,
         disp' \in {disp, "stopped"},
         \A i \in Insts : /\ isComplete[i] => isComplete'[i]
                          /\ commands'[i] \cap Terminals # {} =>
                               commands[i] \cap Terminals # {} \/ isComplete'[i]
  PROVE  HostInv'
<1> USE DEF HostInv, AnswerInv, TypeInv, TypeOK, CoreTypeOK, DispTypeOK,
            WorkflowTypeOK
<1>1. OnTheWay'
  BY DEF OnTheWay, coreVars
<1>2. \A r \in Runs : Complete(r) => Complete(r)'
  BY DEF Complete
<1>3. ClosedComplete'
  BY <1>2 DEF ClosedComplete, coreVars
<1> QED
  BY <1>1, <1>3

\* So does every step.
LEMMA HostInvStep == HostInv /\ [Next]_vars => HostInv'
<1> SUFFICES ASSUME HostInv, [Next]_vars PROVE HostInv'
  OBVIOUS
<1> USE DEF HostInv
<1>1. AnswerInv'
  BY AnswerStep
<1>2. TypeInv
  BY DEF AnswerInv
<1>3. CASE CoreNext
  BY <1>1, <1>3, HostInvCore DEF CoreNext
<1>4. CASE Dispatcher
  BY <1>1, <1>4, HostInvDispatcher
<1>5. ASSUME NEW i \in Insts, Coordinator(i)
      PROVE  HostInv'
  <2>1. UNCHANGED <<coreVars, cur, workflowStates>> /\ disp' \in {disp, "stopped"}
    BY <1>5 DEF Coordinator, StartWorkflow, ApplyActivation, Process,
                SignalCommandsReady, InterruptCoordinator, ExitNursery,
                ApplyRaises, FailWorkflow, UnknownWorkflowType, CancelRoot,
                dispVars
  <2>2. ASSUME NEW st, NEW jobs, NEW async, NEW scoped,
               Process(i, st, jobs, async, scoped)
        PROVE  HostInv'
    <3>1. QueryAnswers(jobs) \cap Terminals = {}
      BY DEF QueryAnswers, Terminals, Answer
    <3>2. \A how : UpdateReplies(how, UpdatesIn(jobs)) \cap Terminals = {}
      BY DEF UpdateReplies, Terminals
    <3>3. UNCHANGED isComplete /\ \A j \in Insts :
            commands'[j] \cap Terminals # {} => commands[j] \cap Terminals # {}
      BY <1>2, <2>2, <3>1, <3>2 DEF Process, TypeInv, TypeOK, WorkflowTypeOK
    <3> QED
      BY <1>1, <2>1, <3>3, HostInvWorkflow
  <2>3. CASE FailWorkflow(i)
    <3>1. \A j \in Insts : /\ isComplete[j] => isComplete'[j]
                           /\ commands'[j] \cap Terminals # {} =>
                                commands[j] \cap Terminals # {} \/ isComplete'[j]
      BY <1>2, <2>3 DEF FailWorkflow, TypeInv, TypeOK, WorkflowTypeOK
    <3> QED
      BY <1>1, <2>1, <3>1, HostInvWorkflow
  <2>4. CASE UNCHANGED <<isComplete, commands>>
    BY <1>1, <2>1, <2>4, HostInvWorkflow
  <2>5. StartWorkflow(i) \/ ApplyActivation(i) =>
          \E st, jobs, async, scoped : Process(i, st, jobs, async, scoped)
    BY DEF StartWorkflow, ApplyActivation
  <2>6. SignalCommandsReady(i) \/ InterruptCoordinator(i) \/ ExitNursery(i)
          \/ ApplyRaises(i) \/ UnknownWorkflowType(i)
          => UNCHANGED <<isComplete, commands>>
    BY DEF SignalCommandsReady, InterruptCoordinator, ExitNursery, ApplyRaises,
           UnknownWorkflowType, CancelRoot
  <2> QED
    BY <1>5, <2>2, <2>3, <2>4, <2>5, <2>6 DEF Coordinator
<1>6. ASSUME NEW i \in Insts, NEW t \in Tasks, TaskStep(i, t)
      PROVE  HostInv'
  <2>1. UNCHANGED <<coreVars, dispVars>>
    BY <1>6 DEF TaskStep, TaskWaits, TaskCleansUp, Suspend, MainEnds,
                SignalHandlerEnds, UpdateHandlerEnds, HandlerCancelled
  <2>2. \A j \in Insts : /\ isComplete[j] => isComplete'[j]
                         /\ commands'[j] \cap Terminals # {} =>
                              commands[j] \cap Terminals # {} \/ isComplete'[j]
    <3>1. CASE TaskWaits(i, t) \/ TaskCleansUp(i, t)
      <4>1. <<"op", t>> \notin Terminals
        BY DEF Terminals
      <4>2. /\ UNCHANGED isComplete
            /\ \A j \in Insts : commands'[j] \subseteq commands[j] \cup {<<"op", t>>}
        BY <1>2, <3>1 DEF TaskWaits, TaskCleansUp, Suspend, TypeInv, TypeOK,
                          WorkflowTypeOK
      <4> QED
        BY <4>1, <4>2
    <3>2. CASE MainEnds(i)
      BY <1>2, <3>2 DEF MainEnds, TypeInv, TypeOK, WorkflowTypeOK
    <3>3. CASE UpdateHandlerEnds(i, t)
      BY <1>2, <3>3 DEF UpdateHandlerEnds, TypeInv, TypeOK, WorkflowTypeOK, Terminals
    <3>4. CASE SignalHandlerEnds(i, t) \/ HandlerCancelled(i, t)
      BY <3>4 DEF SignalHandlerEnds, HandlerCancelled
    <3> QED
      BY <1>6, <3>1, <3>2, <3>3, <3>4 DEF TaskStep
  <2> QED
    BY <1>1, <2>1, <2>2, HostInvWorkflow DEF dispVars
<1>7. CASE Shutdown \/ StopWorker \/ UNCHANGED vars
  <2>1. /\ UNCHANGED <<coreVars, cur, workflowStates, commands, isComplete>>
        /\ disp' \in {disp, "stopped"}
    BY <1>7 DEF Shutdown, StopWorker, CancelRoot, vars, dispVars, wfVars
  <2> QED
    BY <1>1, <2>1, HostInvWorkflow
<1> QED
  BY <1>3, <1>4, <1>5, <1>6, <1>7 DEF Next

-----------------------------------------------------------------------------
(* The simulation.                                                         *)

\* The worker starts as WorkflowHost does.
LEMMA HostInit == Init => Host!Init
BY DEF Init, Host!Init, HostPhase, Held, AnswerKind

\* What WorkflowHost sees: steps that leave these alone are stutters.
LEMMA HostStutter ==
  ASSUME UNCHANGED <<core, reply, closed, disp, cur>>
  PROVE  UNCHANGED Host!vars
BY DEF Host!vars, HostPhase, Held, AnswerKind

\* SDK-Core's steps are Issue and Acknowledge.
LEMMA HostCore ==
  ASSUME HostInv, NEW r \in Runs,
         CoreStart(r) \/ CoreActivate(r) \/ CoreReplay(r) \/ CoreEvict(r)
           \/ CoreLate(r) \/ CoreComplete(r)
  PROVE  Host!Next
<1> USE DEF HostInv, AnswerInv, TypeInv, TypeOK, CoreTypeOK, DispTypeOK
<1>1. CASE CoreComplete(r)
  <2> PICK gone \in BOOLEAN : gone = (workflowStates[r] = NoInst)
    OBVIOUS
  <2>1. /\ core[r] = "answered"
        /\ core' = [core EXCEPT ![r] = IF gone THEN "absent" ELSE "idle"]
        /\ reply' = [reply EXCEPT ![r] = {}]
        /\ closed' = [closed EXCEPT ![r] = IF gone THEN {}
                                           ELSE @ \cup (reply[r] \cap Terminals)]
        /\ disp' = IF disp # "ack" THEN disp
                   ELSE IF shutdown THEN "stopped" ELSE "poll"
        /\ cur' = cur
    BY <1>1 DEF CoreComplete
  <2>2. HostPhase' = [HostPhase EXCEPT ![r] = IF gone THEN "absent" ELSE "idle"]
        /\ HostPhase[r] = "answered"
    BY <2>1 DEF HostPhase, Held
  <2>3. /\ disp = "collect" => cur # r
        /\ disp = "ack" => cur = r
    BY <2>1 DEF OnTheWay
  <2>4. (IF disp' \in {"collect", "ack"} THEN cur' ELSE NoInst)
          = IF (IF disp \in {"collect", "ack"} THEN cur ELSE NoInst) = r
            THEN NoInst
            ELSE IF disp \in {"collect", "ack"} THEN cur ELSE NoInst
    BY <2>1, <2>3, NamesAssumption
  <2>5. {q \in Runs : closed'[q] # {}}
          = IF gone THEN {q \in Runs : closed[q] # {}} \ {r}
            ELSE {q \in Runs : closed[q] # {}}
                   \cup {q \in {r} : [p \in Runs |-> AnswerKind(reply[p])][q]
                                       = "close"}
    BY <2>1 DEF AnswerKind
  <2>6. [q \in Runs |-> AnswerKind(reply'[q])]
          = [[q \in Runs |-> AnswerKind(reply[q])] EXCEPT ![r] = "quiet"]
    BY <2>1 DEF AnswerKind
  <2>7. (disp' = "stopped") \in {disp = "stopped", TRUE}
    BY <2>1
  <2>8. Host!Acknowledge(r, gone)
    BY <2>2, <2>4, <2>5, <2>6, <2>7 DEF Host!Acknowledge
  <2> QED
    BY <2>8 DEF Host!Next
<1>2. CASE core[r] \in {"absent", "idle"} /\ \E jobs : Issue(r, jobs)
  <2>1. /\ core' = [core EXCEPT ![r] = "issued"]
        /\ UNCHANGED <<reply, closed, disp, cur>>
    BY <1>2 DEF Issue, dispVars
  <2>2. HostPhase' = [HostPhase EXCEPT ![r] = "issued"]
        /\ HostPhase[r] \in {"absent", "idle"}
    BY <1>2, <2>1 DEF HostPhase, Held
  <2>3. Host!Issue(r)
    BY <2>1, <2>2 DEF Host!Issue
  <2> QED
    BY <2>3 DEF Host!Next
<1> QED
  BY <1>1, <1>2 DEF CoreStart, CoreActivate, CoreReplay, CoreEvict, CoreLate

\* A completion on its way is an Answer of its kind.
LEMMA HostSend ==
  ASSUME HostInv, NEW r \in Runs, NEW cmds, Send(r, cmds),
         \/ core[r] = "issued" /\ disp = "poll"
         \/ disp = "collect" /\ cur = r,
         closed[r] # {} => AnswerKind(cmds) = "quiet"
                             \/ (core[r] = "issued" /\ AnswerKind(cmds) = "close")
  PROVE  Host!Next
<1> USE DEF HostInv, AnswerInv, TypeInv, TypeOK, CoreTypeOK, DispTypeOK
<1>1. /\ core' = [core EXCEPT ![r] = "answered"]
      /\ reply' = [reply EXCEPT ![r] = cmds]
      /\ disp' = "ack" /\ cur' = r /\ UNCHANGED closed
  BY DEF Send
<1>2. HostPhase' = [HostPhase EXCEPT ![r] = "answered"]
  BY <1>1 DEF HostPhase, Held
<1>3. \/ disp = "poll" /\ HostPhase[r] = "issued"
      \/ disp = "collect" /\ cur = r /\ HostPhase[r] = "held"
  BY DEF HostPhase, Held
<1>4. [q \in Runs |-> AnswerKind(reply'[q])]
        = [[q \in Runs |-> AnswerKind(reply[q])] EXCEPT ![r] = AnswerKind(cmds)]
  BY <1>1
<1>5. r \in {q \in Runs : closed[q] # {}} => AnswerKind(cmds) = "quiet"
        \/ (HostPhase[r] = "issued" /\ AnswerKind(cmds) = "close")
  BY DEF HostPhase
<1>6. Host!Answer(r, AnswerKind(cmds))
  BY <1>1, <1>2, <1>3, <1>4, <1>5 DEF Host!Answer
<1>7. AnswerKind(cmds) \in Host!Kinds
  BY DEF AnswerKind, Host!Kinds
<1> QED
  BY <1>6, <1>7 DEF Host!Next

\* The dispatcher's steps are Answer, Hold and, if conversions fail, Drop.
LEMMA HostDispatcher ==
  ASSUME HostInv, Dispatcher
  PROVE  Host!Next
<1> USE DEF HostInv, AnswerInv, TypeInv, TypeOK, CoreTypeOK, DispTypeOK,
            WorkflowTypeOK
<1>1. ASSUME NEW r \in Runs, DispatchEviction(r) \/ DispatchCompletedReplay(r)
               \/ DispatchUnknownRun(r) \/ DispatchToCompleted(r)
      PROVE  Host!Next
  <2>1. core[r] = "issued" /\ disp = "poll"
    BY <1>1 DEF DispatchEviction, DispatchCompletedReplay, DispatchUnknownRun,
                DispatchToCompleted, Take
  <2>2. /\ AnswerKind({}) = "quiet" /\ AnswerKind(QueryAnswers(act[r])) = "quiet"
        /\ AnswerKind({<<"complete", Main>>}) = "close"
    <3>1. Answer \notin Terminals /\ <<"complete", Main>> \in Terminals
      BY DEF Terminals, Answer
    <3>2. QueryAnswers(act[r]) \subseteq {Answer}
      BY DEF QueryAnswers
    <3> QED
      BY <3>1, <3>2 DEF AnswerKind
  <2> QED
    BY <1>1, <2>1, <2>2, HostSend DEF DispatchEviction, DispatchCompletedReplay,
                                      DispatchUnknownRun, DispatchToCompleted
<1>2. ASSUME NEW r \in Runs, DispatchNewWorkflow(r) \/ DeliverActivation(r)
      PROVE  Host!Next
  <2>1. /\ core[r] = "issued" /\ disp = "poll"
        /\ core' = [core EXCEPT ![r] = "polled"]
        /\ disp' = "collect" /\ cur' = r /\ UNCHANGED <<reply, closed>>
    BY <1>2 DEF DispatchNewWorkflow, DeliverActivation, Take, AwaitCommands
  <2>2. HostPhase' = [HostPhase EXCEPT ![r] = "held"] /\ HostPhase[r] = "issued"
    BY <2>1 DEF HostPhase, Held
  <2>3. Host!Hold(r)
    BY <2>1, <2>2 DEF Host!Hold
  <2> QED
    BY <2>3 DEF Host!Next
<1>3. ASSUME NEW r \in Runs, PollFails(r)
      PROVE  Host!Next
  <2>1. /\ Faults \cap {"parse", "encode"} # {}
        /\ core[r] = "issued" /\ disp = "poll"
        /\ core' = [core EXCEPT ![r] = "polled"]
        /\ UNCHANGED <<disp, cur, reply, closed>>
    BY <1>3 DEF PollFails, Take, dispVars
  <2>2. HostPhase' = [HostPhase EXCEPT ![r] = "dropped"] /\ HostPhase[r] = "issued"
    BY <2>1 DEF HostPhase, Held
  <2>3. Host!Drop(r)
    BY <2>1, <2>2 DEF Host!Drop
  <2> QED
    BY <2>3 DEF Host!Next
<1>4. CASE CollectCommands
  <2>1. PICK r \in Runs, cmds \in SUBSET Commands : r = cur /\ disp = "collect" /\ Send(r, cmds)
    BY <1>4 DEF CollectCommands, Signalled
  <2>2. closed[r] = {}
    BY <2>1 DEF ClosedComplete
  <2> QED
    BY <2>1, <2>2, HostSend
<1>5. CASE CollectFails
  <2>1. PICK r \in Runs :
          /\ Faults \cap {"parse", "encode"} # {}
          /\ r = cur /\ disp = "collect" /\ disp' \in {"stopped", "poll"}
          /\ UNCHANGED <<core, cur, reply, closed>>
    BY <1>5 DEF CollectFails, Signalled, coreVars
  <2>2. core[r] = "polled"
    BY <2>1
  <2>3. HostPhase' = [HostPhase EXCEPT ![r] = "dropped"] /\ HostPhase[r] = "held"
    BY <2>1, <2>2 DEF HostPhase, Held
  <2>4. Host!Drop(r)
    BY <2>1, <2>3 DEF Host!Drop
  <2> QED
    BY <2>4 DEF Host!Next
<1> QED
  BY <1>1, <1>2, <1>3, <1>4, <1>5 DEF Dispatcher, Dispatch

\* Cancelling the root nursery is Stop.
LEMMA HostStop ==
  ASSUME HostInv, CancelRoot
  PROVE  Host!Next
<1> USE DEF HostInv, AnswerInv, TypeInv, TypeOK, CoreTypeOK, DispTypeOK
<1>1. disp' = "stopped" /\ UNCHANGED <<core, reply, closed, cur>>
  BY DEF CancelRoot, coreVars
<1>2. HostPhase' = [r \in Runs |-> IF HostPhase[r] = "held" THEN "dropped"
                                   ELSE HostPhase[r]]
  BY <1>1 DEF HostPhase, Held
<1>3. Host!Stop
  BY <1>1, <1>2 DEF Host!Stop
<1> QED
  BY <1>3 DEF Host!Next

\* Every step of the worker is a step of WorkflowHost or a stutter.
LEMMA HostStep == HostInv /\ [Next]_vars => [Host!Next]_(Host!vars)
<1> SUFFICES ASSUME HostInv, [Next]_vars
             PROVE  Host!Next \/ UNCHANGED Host!vars
  OBVIOUS
<1>1. CASE CoreNext
  BY <1>1, HostCore DEF CoreNext
<1>2. CASE Dispatcher
  BY <1>2, HostDispatcher
<1>3. CASE StopWorker \/ \E i \in Insts : UnknownWorkflowType(i)
  BY <1>3, HostStop DEF StopWorker, UnknownWorkflowType
<1>4. ASSUME NEW i \in Insts, Coordinator(i), ~UnknownWorkflowType(i)
      PROVE  UNCHANGED Host!vars
  <2>1. UNCHANGED <<coreVars, dispVars>>
    BY <1>4 DEF Coordinator, StartWorkflow, ApplyActivation, Process,
                SignalCommandsReady, InterruptCoordinator, ExitNursery,
                ApplyRaises, FailWorkflow
  <2> QED
    BY <2>1, HostStutter DEF coreVars, dispVars
<1>5. ASSUME NEW i \in Insts, NEW t \in Tasks, TaskStep(i, t)
      PROVE  UNCHANGED Host!vars
  <2>1. UNCHANGED <<coreVars, dispVars>>
    BY <1>5 DEF TaskStep, TaskWaits, TaskCleansUp, Suspend, MainEnds,
                SignalHandlerEnds, UpdateHandlerEnds, HandlerCancelled
  <2> QED
    BY <2>1, HostStutter DEF coreVars, dispVars
<1>6. CASE Shutdown \/ UNCHANGED vars
  BY <1>6, HostStutter DEF Shutdown, vars, coreVars, dispVars
<1> QED
  BY <1>1, <1>2, <1>3, <1>4, <1>5, <1>6 DEF Next

\* The worker holds one activation at a time, answers it at most once, waits for
\* SDK-Core before it takes another, and closes no run twice but for a replay.
THEOREM Implements == Spec => ImplementsHost
<1> QED
  BY HostInvInit, HostInvStep, HostInit, HostStep, PTL
     DEF Spec, ImplementsHost, Host!Spec
-----------------------------------------------------------------------------
(* One terminal command.                                                   *)

\* A job that cannot be applied fails a workflow whose main coroutine may still
\* end in another way: with such jobs OneTerminal is false.
Plain == "apply" \notin Faults

\* The main coroutine runs once, so a workflow has one terminal command at most.
\* A completion on its way has what a workflow had, or answers a replay.
OneEnd ==
  /\ \A r \in Runs : core[r] # "answered" => reply[r] = {}
  /\ OneTerminal
  /\ \A i \in Insts :
       /\ \A c, d \in commands[i] \cap Terminals : c = d
       /\ coord[i] # "failing"
       /\ coord[i] \in {"unused", "spawned"} => task[i][Main] = "none"
       /\ isComplete[i] => task[i][Main] = "done"
EndInv == HostInv /\ OneEnd

\* A main coroutine that has ended, or has not begun, stays so whatever jobs are
\* applied.
LEMMA MainApart ==
  ASSUME NEW st \in Statuses, NEW jobs, NEW async, NEW how, NEW us \in SUBSET Updates,
         st[Main] \in {"none", "done"}
  PROVE  UpdatesApplied(JobsApplied(st, jobs, async), how, us)[Main] = st[Main]
<1>1. Main \in Tasks /\ Main \notin Signals /\ Main \notin us
  BY NamesAssumption DEF Tasks, Handlers
<1>2. Resolved(st, jobs)[Main] = st[Main]
  BY <1>1 DEF Resolved, Statuses
<1>3. SignalsApplied(Resolved(st, jobs), jobs, async)[Main] = st[Main]
  BY <1>1, <1>2 DEF SignalsApplied, SignalsIn, Notified
<1>4. JobsApplied(st, jobs, async)[Main] = st[Main]
  BY <1>1, <1>3 DEF JobsApplied, Interrupted, Waiting
<1> QED
  BY <1>1, <1>4 DEF UpdatesApplied, Notified

\* The initial states satisfy the invariant.
LEMMA EndInit == Init => EndInv
<1> SUFFICES ASSUME Init PROVE OneEnd
  BY HostInvInit DEF EndInv
<1>1. Main \in Tasks
  BY DEF Tasks
<1> QED
  BY <1>1 DEF Init, OneEnd, OneTerminal

\* Core forgets a completion when it has it, and issues an activation only when
\* none is on its way.
LEMMA EndCore ==
  ASSUME EndInv, NEW r \in Runs,
         CoreStart(r) \/ CoreActivate(r) \/ CoreReplay(r) \/ CoreEvict(r)
           \/ CoreLate(r) \/ CoreComplete(r)
  PROVE  OneEnd'
<1> USE DEF EndInv, HostInv, AnswerInv, TypeInv, TypeOK, CoreTypeOK
<1>1. /\ UNCHANGED wfVars
      /\ \A q \in Runs \ {r} : /\ core'[q] = core[q] /\ act'[q] = act[q]
                               /\ reply'[q] = reply[q] /\ closed'[q] = closed[q]
  BY DEF CoreStart, CoreActivate, CoreReplay, CoreEvict, CoreLate, CoreComplete, Issue
<1>2. reply'[r] = {}
  <2>1. CASE CoreComplete(r)
    BY <2>1 DEF CoreComplete
  <2>2. CASE ~CoreComplete(r)
    <3>1. core[r] \in {"absent", "idle"} /\ UNCHANGED reply
      BY <2>2 DEF CoreStart, CoreActivate, CoreReplay, CoreEvict, CoreLate, Issue
    <3> QED
      BY <3>1 DEF OneEnd
  <2> QED
    BY <2>1, <2>2
<1>3. OneTerminal'
  <2> SUFFICES ASSUME NEW q \in Runs
               PROVE  /\ \A c, d \in reply'[q] \cap Terminals : c = d
                      /\ closed'[q] # {} /\ reply'[q] \cap Terminals # {} =>
                           /\ Start \in act'[q]
                           /\ reply'[q] \cap Terminals = {<<"complete", Main>>}
    BY DEF OneTerminal
  <2> QED
    BY <1>1, <1>2 DEF OneEnd, OneTerminal
<1>4. \A q \in Runs : core'[q] # "answered" => reply'[q] = {}
  BY <1>1, <1>2 DEF OneEnd
<1> QED
  BY <1>1, <1>3, <1>4 DEF OneEnd, wfVars

\* A workflow that issues no terminal command leaves the ends of runs as they
\* are.
LEMMA EndElsewhere ==
  ASSUME EndInv, UNCHANGED coreVars,
         \A i \in Insts :
           /\ commands'[i] \cap Terminals \subseteq commands[i] \cap Terminals
           /\ coord'[i] # "failing"
           /\ coord'[i] \in {"unused", "spawned"} => task'[i][Main] = "none"
           /\ isComplete'[i] => task'[i][Main] = "done"
  PROVE  OneEnd'
BY DEF EndInv, OneEnd, OneTerminal, coreVars

\* The dispatcher carries the end of a run that is open, or tells of a replay.
LEMMA EndDispatcher ==
  ASSUME EndInv, Dispatcher
  PROVE  OneEnd'
<1> USE DEF EndInv, HostInv, AnswerInv, TypeInv, TypeOK, CoreTypeOK, DispTypeOK,
            WorkflowTypeOK
<1>1. ASSUME NEW r \in Runs, NEW cmds, Send(r, cmds),
             UNCHANGED <<coord, isComplete, task>>,
             \A i \in Insts : commands'[i] \subseteq commands[i],
             \A c, d \in cmds \cap Terminals : c = d,
             closed[r] # {} /\ cmds \cap Terminals # {} =>
               Start \in act[r] /\ cmds \cap Terminals = {<<"complete", Main>>}
      PROVE  OneEnd'
  <2>1. /\ core'[r] = "answered" /\ reply'[r] = cmds /\ UNCHANGED <<act, closed>>
        /\ \A q \in Runs \ {r} : core'[q] = core[q] /\ reply'[q] = reply[q]
    BY <1>1 DEF Send
  <2>2. OneTerminal'
    <3> SUFFICES ASSUME NEW q \in Runs
                 PROVE  /\ \A c, d \in reply'[q] \cap Terminals : c = d
                        /\ closed'[q] # {} /\ reply'[q] \cap Terminals # {} =>
                             /\ Start \in act'[q]
                             /\ reply'[q] \cap Terminals = {<<"complete", Main>>}
      BY DEF OneTerminal
    <3>1. CASE q = r
      BY <1>1, <2>1, <3>1
    <3>2. CASE q # r
      <4>1. reply'[q] = reply[q] /\ closed' = closed /\ act' = act
        BY <2>1, <3>2
      <4>2. OneTerminal
        BY DEF OneEnd
      <4> QED
        BY <4>1, <4>2 DEF OneTerminal
    <3> QED
      BY <3>1, <3>2
  <2>3. \A q \in Runs : core'[q] # "answered" => reply'[q] = {}
    BY <2>1 DEF OneEnd
  <2>4. \A i \in Insts : \A c, d \in commands'[i] \cap Terminals : c = d
    BY <1>1 DEF OneEnd
  <2> QED
    BY <1>1, <2>2, <2>3, <2>4 DEF OneEnd
<1>2. ASSUME NEW r \in Runs, DispatchEviction(r) \/ DispatchCompletedReplay(r)
               \/ DispatchUnknownRun(r) \/ DispatchToCompleted(r)
      PROVE  OneEnd'
  <2>1. {} \cap Terminals = {} /\ QueryAnswers(act[r]) \cap Terminals = {}
    BY DEF QueryAnswers, Terminals, Answer
  <2>2. {<<"complete", Main>>} \cap Terminals = {<<"complete", Main>>}
    BY DEF Terminals
  <2>3. PICK cmds : /\ Send(r, cmds)
                    /\ \/ cmds \cap Terminals = {}
                       \/ Start \in act[r] /\ cmds \cap Terminals = {<<"complete", Main>>}
    BY <1>2, <2>1, <2>2 DEF DispatchEviction, DispatchUnknownRun,
                            DispatchToCompleted, DispatchCompletedReplay
  <2>4. UNCHANGED wfVars
    BY <1>2 DEF DispatchEviction, DispatchCompletedReplay, DispatchUnknownRun,
                DispatchToCompleted
  <2> QED
    BY <1>1, <2>3, <2>4 DEF wfVars
<1>3. ASSUME NEW r \in Runs, DispatchNewWorkflow(r) \/ DeliverActivation(r) \/ PollFails(r)
      PROVE  OneEnd'
  <2>1. /\ core[r] = "issued" /\ core' = [core EXCEPT ![r] = "polled"]
        /\ UNCHANGED <<act, reply, closed, isComplete, commands, task>>
    BY <1>3 DEF DispatchNewWorkflow, DeliverActivation, PollFails, Take, AwaitCommands, wfVars
  <2>2. \A i \in Insts : coord'[i] = coord[i] \/ (coord[i] = "unused" /\ coord'[i] = "spawned")
    BY <1>3 DEF DispatchNewWorkflow, DeliverActivation, PollFails, Fresh, wfVars
  <2> QED
    BY <2>1, <2>2 DEF OneEnd, OneTerminal
<1>4. CASE CollectCommands
  <2>1. PICK r \in Runs, i \in Insts :
          closed[r] = {} /\ Send(r, commands[i]) /\ TakeCommands(i)
    BY <1>4 DEF CollectCommands, Signalled, ClosedComplete
  <2>2. /\ UNCHANGED <<coord, isComplete, task>>
        /\ \A j \in Insts : commands'[j] \subseteq commands[j]
    BY <2>1 DEF TakeCommands
  <2>3. \A c, d \in commands[i] \cap Terminals : c = d
    BY DEF OneEnd
  <2> QED
    BY <1>1, <2>1, <2>2, <2>3
<1>5. CASE CollectFails
  <2>1. PICK i \in Insts : TakeCommands(i) /\ UNCHANGED coreVars
    BY <1>5 DEF CollectFails, Signalled
  <2>2. /\ UNCHANGED <<coord, isComplete, task>>
        /\ \A j \in Insts : commands'[j] \subseteq commands[j]
    BY <2>1 DEF TakeCommands
  <2> QED
    BY <2>1, <2>2, EndElsewhere DEF OneEnd
<1> QED
  BY <1>2, <1>3, <1>4, <1>5 DEF Dispatcher, Dispatch

\* Coordinators issue no terminal command as long as every job can be applied.
LEMMA EndCoordinator ==
  ASSUME Plain, EndInv, NEW i \in Insts, Coordinator(i)
  PROVE  OneEnd'
<1> USE DEF EndInv, HostInv, AnswerInv, TypeInv, TypeOK, WorkflowTypeOK
<1>1. Main \in Tasks /\ task[i] \in Statuses
  BY DEF Tasks, Statuses, TaskStates
<1>2. ASSUME NEW st \in Statuses, NEW async, NEW scoped \in BOOLEAN,
             Process(i, st, pendingActivation[i], async, scoped),
             isComplete[i] => st[Main] = "done"
      PROVE  OneEnd'
  <2>1. PICK how : task' = [task EXCEPT ![i] = UpdatesApplied(
           JobsApplied(st, IF scoped THEN pendingActivation[i]
                           ELSE pendingActivation[i] \ {Cancel}, async),
           how, UpdatesIn(pendingActivation[i]))]
           /\ commands' = [commands EXCEPT ![i] =
                @ \cup QueryAnswers(pendingActivation[i])
                  \cup UpdateReplies(how, UpdatesIn(pendingActivation[i]))]
    BY <1>2 DEF Process
  <2>2. UpdatesIn(pendingActivation[i]) \in SUBSET Updates
    BY DEF UpdatesIn
  <2>3. isComplete[i] => task'[i][Main] = "done"
    BY <1>1, <1>2, <2>1, <2>2, MainApart
  <2>4. \A j \in Insts : commands'[j] \cap Terminals \subseteq commands[j] \cap Terminals
    <3>1. QueryAnswers(pendingActivation[i]) \cap Terminals = {}
      BY DEF QueryAnswers, Terminals, Answer
    <3>2. UpdateReplies(how, UpdatesIn(pendingActivation[i])) \cap Terminals = {}
      BY DEF UpdateReplies, Terminals
    <3> QED
      BY <2>1, <3>1, <3>2
  <2>5. /\ UNCHANGED <<coreVars, workflowStates, isComplete>>
        /\ coord' = [coord EXCEPT ![i] = "settling"]
        /\ \A j \in Insts \ {i} : task'[j] = task[j]
    BY <1>2, <2>1 DEF Process, BeginSettling, dispVars
  <2> QED
    BY <2>3, <2>4, <2>5, EndElsewhere DEF OneEnd
<1>3. CASE StartWorkflow(i)
  <2>1. [task[i] EXCEPT ![Main] = "ready"] \in Statuses
    BY <1>1 DEF Statuses, TaskStates
  <2>2. ~isComplete[i]
    BY <1>3 DEF StartWorkflow, OneEnd
  <2> QED
    BY <1>2, <1>3, <2>1, <2>2 DEF StartWorkflow
<1>4. CASE ApplyActivation(i)
  BY <1>1, <1>2, <1>4 DEF ApplyActivation, OneEnd
<1>5. CASE SignalCommandsReady(i) \/ InterruptCoordinator(i) \/ ExitNursery(i)
  <2>1. /\ UNCHANGED <<coreVars, workflowStates, isComplete, commands, task>>
        /\ \A j \in Insts : \/ coord'[j] = coord[j]
                            \/ coord'[j] \in {"exiting", "idle", "done"}
    BY <1>5 DEF SignalCommandsReady, InterruptCoordinator, ExitNursery, dispVars
  <2> QED
    BY <2>1, EndElsewhere DEF OneEnd
<1>6. ~ApplyRaises(i) /\ ~FailWorkflow(i)
  BY DEF ApplyRaises, FailWorkflow, Plain, OneEnd
<1>7. CASE UnknownWorkflowType(i)
  <2>1. /\ UNCHANGED <<coreVars, workflowStates, isComplete, commands>>
        /\ coord' = [coord EXCEPT ![i] = "crashed"]
        /\ task' = [j \in Insts |-> Interrupted(task[j])]
    BY <1>7 DEF UnknownWorkflowType, CancelRoot
  <2>2. \A j \in Insts : task[j][Main] \in {"none", "done"} => task'[j][Main] = task[j][Main]
    BY <1>1, <2>1 DEF Interrupted, Waiting
  <2> QED
    BY <2>1, <2>2, EndElsewhere DEF OneEnd
<1> QED
  BY <1>3, <1>4, <1>5, <1>6, <1>7 DEF Coordinator

\* Of the tasks only the main coroutine ends its workflow, and then no end of the
\* run is there before.
LEMMA EndTask ==
  ASSUME EndInv, NEW i \in Insts, NEW t \in Tasks, TaskStep(i, t)
  PROVE  OneEnd'
<1> USE DEF EndInv, HostInv, AnswerInv, TypeInv, TypeOK, CoreTypeOK, DispTypeOK,
            WorkflowTypeOK
<1>1. UNCHANGED <<coreVars, workflowStates>>
  BY DEF TaskStep, TaskWaits, TaskCleansUp, Suspend, MainEnds, SignalHandlerEnds,
         UpdateHandlerEnds, HandlerCancelled, dispVars
<1>2. Main \in Tasks /\ Main \notin Handlers
  BY NamesAssumption DEF Tasks
<1>3. CASE t = Main /\ MainEnds(i)
  <2>1. PICK c \in Terminals : commands' = [commands EXCEPT ![i] = @ \cup {c}]
    BY <1>3 DEF MainEnds
  <2>2. /\ UNCHANGED coord /\ isComplete' = [isComplete EXCEPT ![i] = TRUE]
        /\ task' = [task EXCEPT ![i] = Notified([task[i] EXCEPT ![Main] = "done"])]
        /\ task[i][Main] \in Runnable
    BY <1>3 DEF MainEnds
  <2>3. ~isComplete[i] /\ coord[i] \notin {"unused", "spawned"}
    BY <2>2 DEF OneEnd, Runnable
  <2>4. task'[i][Main] = "done" /\ \A j \in Insts \ {i} : task'[j] = task[j]
    BY <1>2, <2>2 DEF Notified
  <2>5. commands'[i] \cap Terminals \subseteq {c}
    BY <2>1, <2>3 DEF ClosedComplete
  <2>6. OneTerminal' /\ \A r \in Runs : core'[r] # "answered" => reply'[r] = {}
    <3>1. core' = core /\ act' = act /\ reply' = reply /\ closed' = closed
      BY <1>1 DEF coreVars
    <3> QED
      BY <3>1 DEF OneEnd, OneTerminal
  <2>7. \A j \in Insts : \A a, b \in commands'[j] \cap Terminals : a = b
    BY <2>1, <2>5 DEF OneEnd
  <2> QED
    BY <2>2, <2>3, <2>4, <2>6, <2>7 DEF OneEnd
<1>4. ASSUME ~(t = Main /\ MainEnds(i)) PROVE OneEnd'
  <2>1. /\ UNCHANGED <<coord, isComplete>>
        /\ \A j \in Insts \ {i} : task'[j] = task[j]
    BY <1>4 DEF TaskStep, TaskWaits, TaskCleansUp, Suspend, SignalHandlerEnds,
                UpdateHandlerEnds, HandlerCancelled
  <2>2. \A j \in Insts : commands'[j] \cap Terminals \subseteq commands[j] \cap Terminals
    <3>1. CASE TaskWaits(i, t) \/ TaskCleansUp(i, t)
      <4>1. commands' \in {commands, [commands EXCEPT ![i] = @ \cup {<<"op", t>>}]}
        BY <3>1 DEF TaskWaits, TaskCleansUp, Suspend
      <4>2. <<"op", t>> \notin Terminals
        BY DEF Terminals
      <4> QED
        BY <4>1, <4>2
    <3>2. CASE t \in Updates /\ UpdateHandlerEnds(i, t)
      BY <3>2 DEF UpdateHandlerEnds, Terminals
    <3>3. CASE SignalHandlerEnds(i, t) \/ HandlerCancelled(i, t)
      BY <3>3 DEF SignalHandlerEnds, HandlerCancelled
    <3> QED
      BY <1>4, <3>1, <3>2, <3>3 DEF TaskStep
  <2>3. task[i][Main] \in {"none", "done"} => task'[i][Main] = task[i][Main]
    <3>1. CASE t = Main
      <4>1. TaskWaits(i, Main) \/ TaskCleansUp(i, Main)
        BY <1>2, <1>4, <3>1 DEF TaskStep, Handlers
      <4> QED
        BY <4>1 DEF TaskWaits, TaskCleansUp
    <3>2. CASE t # Main /\ (TaskWaits(i, t) \/ TaskCleansUp(i, t))
      <4>1. PICK next : task' = [task EXCEPT ![i][t] = next]
        BY <3>2 DEF TaskWaits, TaskCleansUp, Suspend
      <4> QED
        BY <1>2, <3>2, <4>1
    <3>3. CASE t # Main /\ SignalHandlerEnds(i, t)
      BY <3>3 DEF SignalHandlerEnds
    <3>4. CASE t # Main /\ UpdateHandlerEnds(i, t)
      BY <1>2, <3>4 DEF UpdateHandlerEnds, Notified
    <3>5. CASE t # Main /\ HandlerCancelled(i, t)
      BY <1>2, <3>5 DEF HandlerCancelled, Interrupted, Notified, Waiting
    <3> QED
      BY <3>1, <3>2, <3>3, <3>4, <3>5 DEF TaskStep
  <2>4. \A j \in Insts :
          /\ coord'[j] # "failing"
          /\ coord'[j] \in {"unused", "spawned"} => task'[j][Main] = "none"
          /\ isComplete'[j] => task'[j][Main] = "done"
    BY <2>1, <2>3 DEF OneEnd
  <2> QED
    BY <1>1, <2>2, <2>4, EndElsewhere
<1> QED
  BY <1>3, <1>4

\* Every step preserves the invariant.
LEMMA EndStep ==
  ASSUME Plain
  PROVE  EndInv /\ [Next]_vars => EndInv'
<1> SUFFICES ASSUME EndInv, [Next]_vars PROVE OneEnd'
  BY HostInvStep DEF EndInv
<1>1. CASE CoreNext
  BY <1>1, EndCore DEF CoreNext
<1>2. CASE Dispatcher
  BY <1>2, EndDispatcher
<1>3. ASSUME NEW i \in Insts, Coordinator(i) \/ \E t \in Tasks : TaskStep(i, t)
      PROVE  OneEnd'
  BY <1>3, EndCoordinator, EndTask
<1>4. CASE Shutdown \/ StopWorker \/ UNCHANGED vars
  <2>1. UNCHANGED <<coreVars, workflowStates, commands, isComplete, coord>>
    BY <1>4 DEF Shutdown, StopWorker, CancelRoot, vars, dispVars, wfVars
  <2>2. \A i \in Insts : task[i][Main] \in {"none", "done"} => task'[i][Main] = task[i][Main]
    <3>1. Main \in Tasks
      BY DEF Tasks
    <3> QED
      BY <1>4, <3>1 DEF Shutdown, StopWorker, CancelRoot, Interrupted, Waiting, vars, wfVars
  <2> QED
    BY <2>1, <2>2, EndElsewhere DEF EndInv, OneEnd
<1> QED
  BY <1>1, <1>2, <1>3, <1>4 DEF Next

\* A worker whose jobs can all be applied sends no completion with two terminal
\* commands and ends no closed run in a second way but by the "complete" of a
\* replay, however the run is cancelled, evicted, started again or stopped.
THEOREM EndsOnce ==
  ASSUME Plain
  PROVE  Spec => []OneTerminal
<1>1. EndInv => OneTerminal
  BY DEF EndInv, OneEnd
<1>2. EndInv /\ [Next]_vars => EndInv'
  BY EndStep
<1> QED
  BY <1>1, <1>2, EndInit, PTL DEF Spec
=============================================================================
