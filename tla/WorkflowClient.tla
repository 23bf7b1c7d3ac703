--------------------------- MODULE WorkflowClient ----------------------------
(***************************************************************************)
(* A task of the application that uses one workflow id through the Client: *)
(* handles (client/_workflow_handle.py, client/_client.py), the calls they *)
(* make (_async_bridge.py) and the server as these calls see it, while     *)
(* others use the same id.                                                 *)
(*                                                                         *)
(* Each call is one RPC, awaited until its answer comes (AsyncBridge).     *)
(* Core's client sends an RPC again if its answer is lost, and a caller    *)
(* that is cancelled or timed out leaves its RPC behind; neither matters   *)
(* for an RPC that only reads.  The server is external.                    *)
(* Runs are numbered, 0 stands for None or "": the latest run is meant.    *)
(* "completed" stands for the close events that may name a next run        *)
(* (completed, failed, timed out), "canceled" for those that do not        *)
(* (canceled, terminated).  Iterators are in ClientIterator.               *)
(***************************************************************************)
EXTENDS Naturals, Sequences

CONSTANTS
  MaxRuns,    \* runs of the workflow id, a bound
  MaxLost     \* answers that are lost, a bound

ASSUME BoundsAssumption == MaxRuns \in Nat \ {0} /\ MaxLost \in Nat

Closes     == {"completed", "canceled", "continued"}
Operations == {"start_workflow", "execute_workflow", "result", "own_result", "query", "describe",
               "cancel", "terminate", "start_update", "execute_update",
               "start_update_with_start", "update_result"}
Reads      == {"result", "query", "describe", "poll_update"}   \* RPCs that only read

VARIABLES
  (* the server *)
  runs,      \* [first, status, next] of each run; first is the chain's first run
  reached,   \* the run that this step cancels or terminates for the task, and the
             \* first run its handle knew (0: it knew none)
  lost,      \* answers lost so far
  late,      \* RPCs whose caller is gone
  (* the task *)
  handle,    \* [run, result, first]: run_id, result_run_id, first_execution_run_id
  noValue,   \* it has a WorkflowUpdateHandle whose result_value is None
  doing,     \* the operation it awaits, or idle
  request,   \* the RPC it awaits
  reply,     \* its answer
  outcome    \* [op, how, run]: what a call has just returned

serverVars == <<runs, lost, late>>
vars == <<serverVars, reached, handle, noValue, doing, request, reply, outcome>>

\* owner is not sent: the first run the caller's handle knows.
Ask(rpc, run) == [rpc |-> rpc, run |-> run, first |-> 0, owner |-> 0]
NoRequest     == Ask("none", 0)
Answer(how, run, next) == [how |-> how, run |-> run, next |-> next]
NoReply       == Answer("none", 0, 0)
Error         == Answer("error", 0, 0)
NoneReached   == <<0, 0>>
NoOutcome     == [op |-> "none", how |-> "none", run |-> 0]

Init ==
  /\ runs = <<>> /\ reached = NoneReached /\ lost = 0 /\ late = {}
  /\ handle = [run |-> 0, result |-> 0, first |-> 0] /\ noValue = FALSE
  /\ doing = "idle" /\ request = NoRequest /\ reply = NoReply
  /\ outcome = NoOutcome
------------------------------------------------------------------------------
(* The server.                                                             *)
Latest    == Len(runs)
Alive(i)  == i # 0 /\ runs[i].status = "running"
Running   == Alive(Latest)
Target(q) == IF q.run = 0 THEN Latest ELSE q.run
NewRun(first) == [first |-> first, status |-> "running", next |-> 0]

\* A run of a new chain; what others start looks the same.
Begun == ~Running /\ Latest < MaxRuns /\ runs' = Append(runs, NewRun(Latest + 1))

\* The latest run closes, on its own or because others terminate it; its chain
\* may go on in a next run.
CloseRun(how, goesOn) ==
  /\ Running
  /\ goesOn => how # "canceled" /\ Latest < MaxRuns
  /\ how = "continued" => goesOn
  /\ LET next   == IF goesOn THEN Latest + 1 ELSE 0
         closed == [runs EXCEPT ![Latest].status = how, ![Latest].next = next]
     IN  runs' = IF goesOn THEN Append(closed, NewRun(runs[Latest].first)) ELSE closed

ServerOnItsOwn ==
  /\ Begun \/ \E how \in Closes, goesOn \in BOOLEAN : CloseRun(how, goesOn)
  /\ UNCHANGED <<lost, late, handle, noValue, doing, request, reply, outcome>>
------------------------------------------------------------------------------
(* The server carries out q.  Its answer comes, or is lost and Core's      *)
(* client sends q again, or nobody waits for it (q is late).               *)
Reply(q, ours, a) ==
  IF ours
  THEN /\ UNCHANGED late
       /\ \/ reply' = a /\ UNCHANGED lost
          \/ /\ q.rpc \notin Reads /\ lost < MaxLost
             /\ lost' = lost + 1 /\ UNCHANGED reply
  ELSE late' = late \ {q} /\ UNCHANGED <<reply, lost>>

ServeStart(q, ours) ==
  /\ q.rpc = "start"
  /\ \/ Running /\ Reply(q, ours, Error) /\ UNCHANGED runs
     \/ Begun /\ Reply(q, ours, Answer("ok", Latest + 1, 0))

ServeSignalWithStart(q, ours) ==
  /\ q.rpc = "signal_with_start"
  /\ \/ Running /\ Reply(q, ours, Answer("ok", Latest, 0)) /\ UNCHANGED runs
     \/ Begun /\ Reply(q, ours, Answer("ok", Latest + 1, 0))

\* The close event, or none if the run is open until the long poll times out.
ServeResult(q, ours) ==
  /\ q.rpc = "result"
  /\ LET i == Target(q)
     IN  Reply(q, ours, IF i = 0 THEN Error
                        ELSE IF Alive(i) THEN Answer("open", i, 0)
                        ELSE Answer(runs[i].status, i, runs[i].next))
  /\ UNCHANGED runs

\* An open run answers queries, a closed one too unless the reject condition says no.
ServeRead(q, ours) ==
  /\ q.rpc \in {"query", "describe"}
  /\ \/ Target(q) # 0 /\ Reply(q, ours, Answer("ok", Target(q), 0))
     \/ /\ q.rpc = "query" \/ Target(q) = 0
        /\ Reply(q, ours, Error)
  /\ UNCHANGED runs

\* first_execution_run_id must be that of the run.
Reaches(q) == Alive(Target(q)) /\ q.first \in {0, runs[Target(q)].first}

\* The workflow decides what becomes of a cancel request (CloseRun).
ServeCancel(q, ours) ==
  /\ q.rpc = "cancel"
  /\ Reply(q, ours, IF Reaches(q) THEN Answer("ok", 0, 0) ELSE Error)
  /\ reached' = IF Reaches(q) THEN <<Target(q), q.owner>> ELSE NoneReached
  /\ UNCHANGED runs

ServeTerminate(q, ours) ==
  /\ q.rpc = "terminate"
  /\ Reply(q, ours, IF Reaches(q) THEN Answer("ok", 0, 0) ELSE Error)
  /\ reached' = IF Reaches(q) THEN <<Target(q), q.owner>> ELSE NoneReached
  /\ runs' = IF Reaches(q) THEN [runs EXCEPT ![Target(q)].status = "canceled"] ELSE runs

\* Whether a run has an update, and how far it is, is left open: "done" is an
\* outcome, "open" is none yet, the server waits for it for a while only.
Stages == {"open", "done"}

ServeUpdate(q, ours) ==
  /\ q.rpc = "update"
  /\ \/ Target(q) # 0 /\ \E stage \in Stages : Reply(q, ours, Answer(stage, Target(q), 0))
     \/ ~Alive(Target(q)) /\ Reply(q, ours, Error)
  /\ UNCHANGED runs

\* The start and the update are one transaction: a run that is open is used, or
\* the conflict policy refuses it.
ServeUpdateWithStart(q, ours) ==
  /\ q.rpc = "update_with_start"
  /\ \/ Begun /\ \E stage \in Stages : Reply(q, ours, Answer(stage, Latest + 1, 0))
     \/ /\ Running /\ UNCHANGED runs
        /\ \E a \in {Error} \cup {Answer(stage, Latest, 0) : stage \in Stages} : Reply(q, ours, a)

ServePollUpdate(q, ours) ==
  /\ q.rpc = "poll_update"
  /\ \/ Reply(q, ours, Error)
     \/ Target(q) # 0 /\ \E stage \in Stages : Reply(q, ours, Answer(stage, Target(q), 0))
  /\ UNCHANGED runs

Serves(q, ours) ==
  /\ \/ ServeCancel(q, ours) \/ ServeTerminate(q, ours)
     \/ /\ \/ ServeStart(q, ours) \/ ServeSignalWithStart(q, ours) \/ ServeResult(q, ours)
           \/ ServeRead(q, ours) \/ ServeUpdate(q, ours) \/ ServeUpdateWithStart(q, ours)
           \/ ServePollUpdate(q, ours)
        /\ reached' = NoneReached
  /\ UNCHANGED <<handle, noValue, doing, request, outcome>>

Serving == \/ reply = NoReply /\ Serves(request, TRUE)
           \/ \E q \in late : Serves(q, FALSE)
------------------------------------------------------------------------------
(* The requests, as the bridge sends them.                                 *)
start_workflow_execution             == Ask("start", 0)
signal_with_start_workflow_execution == Ask("signal_with_start", 0)
get_workflow_resultMutant(run)       == Ask("result", 0)  \* mutant: without the run id
get_workflow_result(run)             == Ask("result", run)
\* mutant: without first_execution_run_id
cancel_workflow_executionMutant(run, first) == [Ask("cancel", run) EXCEPT !.owner = handle.first]
cancel_workflow_execution(run, first) ==
  [Ask("cancel", run) EXCEPT !.first = first, !.owner = handle.first]
terminate_workflow_execution(run, first) ==
  [Ask("terminate", run) EXCEPT !.first = first, !.owner = handle.first]
query_workflow(run)                  == Ask("query", run)
describe_workflow(run)               == Ask("describe", run)
update_workflow(run)                 == Ask("update", run)
execute_multi_operation              == Ask("update_with_start", 0)
poll_workflow_execution_update       == Ask("poll_update", 0)

Send(op, q) == doing' = op /\ request' = q /\ reply' = NoReply
\* The application starts an operation; how the last one ended is behind it.
Starts(op, q) == doing = "idle" /\ Send(op, q) /\ outcome' = NoOutcome
Answered(op)  == doing = op /\ reply # NoReply
Returns == outcome' = [op |-> doing, how |-> reply.how, run |-> reply.run]
End ==
  /\ doing' = "idle" /\ request' = NoRequest /\ reply' = NoReply
  /\ UNCHANGED <<runs, lost>>
------------------------------------------------------------------------------
(* Handles.                                                                *)
start_workflow(op) ==
  /\ op \in {"start_workflow", "execute_workflow"}
  /\ \/ Starts(op, start_workflow_execution)
     \/ Starts(op, signal_with_start_workflow_execution)
  /\ UNCHANGED <<serverVars, handle, noValue>>

\* run_id stays None: the handle follows the latest run.
NewHandle ==
  /\ noValue' = FALSE
  /\ handle' = [run |-> 0, result |-> reply.run,
                first |-> IF request.rpc = "start" THEN reply.run ELSE 0]

WorkflowStarted ==
  /\ Answered("start_workflow") /\ End
  /\ \/ reply.how = "error" /\ UNCHANGED <<handle, noValue>>
     \/ reply.how = "ok" /\ NewHandle
  /\ UNCHANGED <<late, outcome>>

\* execute_workflow goes on with the result of its handle.
Execute ==
  /\ Answered("execute_workflow")
  /\ \/ reply.how = "error" /\ End /\ UNCHANGED <<late, handle, noValue>>
     \/ /\ reply.how = "ok" /\ NewHandle
        /\ Send("result", get_workflow_result(reply.run)) /\ UNCHANGED serverVars
  /\ UNCHANGED outcome

get_workflow_handle(run, first) ==
  /\ doing = "idle" /\ run \in 0..Latest
  /\ first = 0 \/ \E i \in 1..Latest : run \in {0, i} /\ first = runs[i].first
  /\ handle' = [run |-> run, result |-> run, first |-> first]
  /\ noValue' = FALSE /\ outcome' = NoOutcome
  /\ UNCHANGED <<serverVars, doing, request, reply>>

cancel ==
  /\ Starts("cancel", cancel_workflow_execution(handle.run, handle.first))
  /\ UNCHANGED <<serverVars, handle, noValue>>
terminate ==
  /\ Starts("terminate", terminate_workflow_execution(handle.run, handle.first))
  /\ UNCHANGED <<serverVars, handle, noValue>>
Requested ==
  /\ Answered("cancel") \/ Answered("terminate")
  /\ End /\ UNCHANGED outcome
  /\ UNCHANGED <<late, handle, noValue>>
------------------------------------------------------------------------------
(* result(): a long poll for the close event of run_id, which moves along  *)
(* the chain.                                                              *)
result(op) ==
  /\ op \in {"result", "own_result"}
  /\ Starts(op, get_workflow_result(handle.result))
  /\ UNCHANGED <<serverVars, handle, noValue>>

\* mutant: follows a run that has ended to itself
NextRunMutant ==
  IF doing = "result" /\ reply.how \in {"completed", "continued"} THEN reply.run ELSE 0
\* _try_extract_result_from_history
NextRun == IF doing = "result" /\ reply.how \in {"completed", "continued"} THEN reply.next ELSE 0

ResultAnswered ==
  /\ Answered("result") \/ Answered("own_result")
  /\ \/ reply.how = "open" /\ Send(doing, get_workflow_result(request.run)) /\ UNCHANGED outcome
     \/ NextRun # 0 /\ Send(doing, get_workflow_result(NextRun)) /\ UNCHANGED outcome
     \/ reply.how # "open" /\ NextRun = 0 /\ End /\ Returns
  /\ UNCHANGED <<serverVars, handle, noValue>>
------------------------------------------------------------------------------
(* Calls that only read: their request is for run_id.                      *)
query ==
  /\ Starts("query", query_workflow(handle.run))
  /\ UNCHANGED <<serverVars, handle, noValue>>
describe ==
  /\ Starts("describe", describe_workflow(handle.run))
  /\ UNCHANGED <<serverVars, handle, noValue>>
ReadAnswered ==
  /\ Answered("query") \/ Answered("describe")
  /\ End /\ Returns
  /\ UNCHANGED <<late, handle, noValue>>
------------------------------------------------------------------------------
(* Updates.                                                                *)
start_update(op) ==
  /\ op \in {"start_update", "execute_update"}
  /\ Starts(op, update_workflow(handle.run))
  /\ UNCHANGED <<serverVars, handle, noValue>>

start_update_with_start_workflow ==
  /\ Starts("start_update_with_start", execute_multi_operation)
  /\ UNCHANGED <<serverVars, handle, noValue>>

\* Without an outcome the result is None; execute_update returns it.
UpdateAnswered ==
  /\ \E op \in {"start_update", "execute_update", "start_update_with_start"} : Answered(op)
  /\ noValue' = (IF reply.how = "error" THEN noValue ELSE reply.how = "open")
  /\ End /\ UNCHANGED <<late, handle, outcome>>

\* WorkflowUpdateHandle.result: a stored result needs no poll; the handle knows
\* the workflow id only.
UpdateResult ==
  /\ noValue /\ Starts("update_result", poll_workflow_execution_update)
  /\ UNCHANGED <<serverVars, handle, noValue>>
UpdatePolled ==
  /\ Answered("update_result")
  /\ noValue' = (reply.how # "done")
  /\ End /\ UNCHANGED <<late, handle, outcome>>
------------------------------------------------------------------------------
(* A timeout or a cancelled scope, in event.wait(): the RPC goes on        *)
(* without its caller.  At most one does, a bound; a start or an update    *)
(* is then like one by others.                                             *)
GiveUp ==
  /\ request # NoRequest /\ reply = NoReply /\ End /\ UNCHANGED outcome
  /\ IF request.rpc \in {"cancel", "terminate"}
     THEN late = {} /\ late' = {request}
     ELSE UNCHANGED late
  /\ UNCHANGED <<handle, noValue>>

Steps == \/ WorkflowStarted \/ Execute \/ Requested \/ ResultAnswered \/ ReadAnswered
         \/ UpdateAnswered \/ UpdatePolled
Calls == \/ \E op \in {"start_workflow", "execute_workflow"} : start_workflow(op)
         \/ query \/ describe \/ cancel \/ terminate
         \/ start_update_with_start_workflow \/ UpdateResult
         \/ \E run, first \in 0..MaxRuns : get_workflow_handle(run, first)
         \/ \E op \in {"result", "own_result"} : result(op)
         \/ \E op \in {"start_update", "execute_update"} : start_update(op)
Next  == \/ Serving
         \/ reached' = NoneReached /\ (ServerOnItsOwn \/ Calls \/ Steps \/ GiveUp)
Spec  == Init /\ [][Next]_vars

\* The server answers, Core's client tries again, Trio runs its tasks.
FairSpec ==
  /\ Spec
  /\ WF_vars(reply = NoReply /\ Serves(request, TRUE)) /\ WF_vars(Steps /\ reached' = NoneReached)
------------------------------------------------------------------------------
TypeOK ==
  /\ runs \in Seq([first : 1..MaxRuns, status : Closes \cup {"running"}, next : 0..MaxRuns])
  /\ Latest =< MaxRuns /\ reached \in (0..MaxRuns) \X (0..MaxRuns)
  /\ lost \in 0..MaxLost
  /\ handle \in [run : 0..MaxRuns, result : 0..MaxRuns, first : 0..MaxRuns]
  /\ noValue \in BOOLEAN
  /\ doing \in Operations \cup {"idle"} /\ (doing = "idle" <=> request = NoRequest)
  /\ \A q \in late \cup {request} :
       q.run \in 0..MaxRuns /\ q.first \in 0..MaxRuns /\ q.owner \in 0..MaxRuns

(* The result of a handle with a run id is that of its run's chain, and of *)
(* the last run of it, however often the id is used again and the long     *)
(* poll times out; with follow_runs = False, own_result, it is the run's   *)
(* own.  A query or a description is of the handle's run, if it has one    *)
(* (_workflow_handle.py:485-511, 596, 952, 1066-1159).                     *)
ResultOfChain ==
  /\ outcome.op = "result" /\ outcome.how # "error" /\ handle.result # 0 =>
       /\ outcome.run >= handle.result /\ runs[outcome.run].next = 0
       /\ runs[outcome.run].first = runs[handle.result].first
  /\ outcome.op = "own_result" /\ handle.result # 0 => outcome.run = handle.result
  /\ outcome.op \in {"query", "describe"} /\ outcome.how # "error" /\ handle.run # 0 =>
       outcome.run = handle.run

(* Cancelling and terminating through a handle that knows its chain's first*)
(* run reaches only runs of that chain, also if the id is in use again by  *)
(* the time, an answer was lost or nobody waits for it any more            *)
(* (_workflow_handle.py:700-744).                                          *)
CancelInChain == reached[2] # 0 => runs[reached[1]].first = reached[2]

(* result() ends once the last run has closed, however many long polls have*)
(* timed out before (_workflow_handle.py:487-511).                         *)
ResultEnds == (doing = "result") ~> (doing # "result" \/ Running)
==============================================================================
