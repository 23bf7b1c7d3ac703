--------------------------- MODULE WorkerLifecycle ---------------------------
(***************************************************************************)
(* A Client, one Worker on its bridge and the tasks of both: connecting,   *)
(* calls of the application, running and stopping the worker, its two poll *)
(* loops, an activity, closing the client (worker/_worker.py, with the     *)
(* loops of _single_thread_worker.py and _activity.py and the ends of      *)
(* client/_client.py).  All run as Trio tasks and meet in AsyncBridge.     *)
(*                                                                         *)
(* Coordinators of workflows are part of the task "workflow" while it is   *)
(* dispatching; SingleThreadWorker has them.  ActivityWorker has the parts *)
(* of an activity.                                                         *)
(***************************************************************************)
EXTENDS AsyncBridge

CONSTANT Env   \* what the surroundings do, see EnvKinds

\* "overlap": close() while the worker runs or calls are under way
\* "crash":   a workflow's coordinator raises, or the report of an activity that
\*            could not start
\* "convert": an activation cannot be parsed, or its completion not be encoded
\* "cancel":  the task of Worker.run is cancelled from outside
\* "calls":   the application calls the server
EnvKinds == {"overlap", "crash", "convert", "cancel", "calls"}

\* "main" runs Worker.run; "workflow" and "act" are the poll loops of the
\* SingleThreadWorker and of the activity worker, "activity" handles an
\* activity; "client" connects and closes, "user" calls and may close as well.
Nursery == {"workflow", "act", "activity"}
ASSUME TasksAssumption ==
  Env \subseteq EnvKinds /\ Callers = Nursery \cup {"main", "client", "user"}

VARIABLES
  pc,        \* per task: where it is
  asked,     \* the shutdown events: no, main (the Worker's), all (its sub-workers' too)
  cancelled, \* the cancelled nurseries: workflow (SingleThreadWorker), act
  lost       \* history: tasks left unanswered because of an error that was logged

vars == <<bridgeVars, pc, asked, cancelled, lost>>

Init ==
  /\ InitBridge
  /\ pc = [t \in Callers |-> CASE t \in {"main", "client"} -> "new"
                               [] t = "user" -> "idle" [] OTHER -> "none"]
  /\ asked = "no" /\ cancelled = {} /\ lost = {}

At(t, where)  == pc[t] = where
Go(t, where)  == pc' = [pc EXCEPT ![t] = where] /\ UNCHANGED <<asked, cancelled, lost>>
\* The task k stays unanswered.
GoWithout(t, where, k) ==
  /\ pc' = [pc EXCEPT ![t] = where] /\ lost' = lost \cup {k}
  /\ UNCHANGED <<asked, cancelled>>
\* How the call ended that t waits for; its task goes on.
Answer(t)     == call[t]
Opened        == pc["client"] \in {"open", "closing", "closed"}
Over          == pc["main"] \in {"done", "failed", "gone"}
NurseryEmpty  == At("workflow", "ended") /\ At("act", "ended") /\ At("activity", "none")

(* Nurseries are cancelled and main goes on to m: whoever waits in them    *)
(* gets Cancelled; a task that runs gets it at its next wait.              *)
Scope(t) == IF t = "activity" THEN "act" ELSE t
EndOf(t) == IF t = "activity" THEN "none" ELSE "ended"
CancelNurseries(scopes, m) ==
  LET hit == {t \in Nursery : Scope(t) \in scopes /\ call[t] = "waiting"}
  IN  /\ GiveUp(hit)
      /\ pc' = [t \in Callers |-> IF t \in hit THEN EndOf(t) ELSE IF t = "main" THEN m ELSE pc[t]]
      /\ cancelled' = cancelled \cup scopes
      /\ UNCHANGED <<asked, lost>>

\* A task of the nurseries calls the bridge and waits, or ends if it is cancelled.
Caller(t)       == IF Scope(t) \in cancelled THEN Nobody ELSE t
Wait(t, where)  == Go(t, IF Scope(t) \in cancelled THEN EndOf(t) ELSE where)
\* A loop without a checkpoint: no other task runs any more.
TrioRuns      == ~At("workflow", "spinning")
------------------------------------------------------------------------------
(* The application and its Client.                                         *)
Connect == At("client", "new") /\ start("client") /\ Go("client", "connecting")
Connected ==
  /\ At("client", "connecting") /\ Returned("client") /\ Resumed("client")
  /\ Go("client", IF Answer("client") = "ok" THEN "open" ELSE "failed")

\* One call, made while the worker runs and nobody stops it, a bound.
Use ==
  /\ "calls" \in Env /\ At("main", "running") /\ asked = "no" /\ At("user", "idle")
  /\ ClientCall("user") /\ Go("user", "calling")
Used == At("user", "calling") /\ Returned("user") /\ Resumed("user") /\ Go("user", "finished")

MayClose == "overlap" \in Env \/ ((At("main", "new") \/ Over) /\ ~At("user", "calling"))
close(t) ==
  /\ MayClose
  /\ t = "client" => At("client", "open")
  /\ t = "user" => Opened /\ At("user", "idle") /\ "overlap" \in Env
  /\ shutdown(t)
  /\ Go(t, "closing")
Closed(t) ==
  /\ At(t, "closing") /\ Returned(t) /\ CloseBridge(t)
  /\ Go(t, IF t = "user" THEN "idle" ELSE "closed")

Application ==
  \/ Connect \/ Connected \/ Use \/ Used
  \/ \E t \in {"client", "user"} : close(t) \/ Closed(t)
------------------------------------------------------------------------------
(* Worker.run                                                              *)
Run ==
  /\ At("main", "new") /\ Opened
  /\ \/ create_worker("main") /\ Go("main", "creating")
     \/ Refused("create_worker") /\ Go("main", "failed")

\* Both sub-workers are created and started.
Created ==
  /\ At("main", "creating") /\ Returned("main") /\ Resumed("main")
  /\ \/ /\ Answer("main") = "ok"
        /\ pc' = [pc EXCEPT !["main"] = "running", !["workflow"] = "poll", !["act"] = "poll"]
        /\ UNCHANGED <<asked, cancelled, lost>>
     \/ Answer("main") = "error" /\ Go("main", "failed")

Stop == At("main", "running") /\ asked # "no" /\ initiate_shutdown /\ Go("main", "sleeping")

\* mutant: the nurseries are left to themselves
LeaveMutant == At("main", "sleeping") /\ Go("main", "leaving") /\ UNCHANGED bridgeVars
\* After 0.1 s.
Leave == At("main", "sleeping") /\ CancelNurseries({"workflow", "act"}, "leaving")

\* mutant: the pollers are not waited for
FinalizeMutant ==
  /\ At("main", "leaving")
  /\ \/ finalize_shutdown("main") /\ Go("main", "finalizing")
     \/ Refused("finalize_shutdown") /\ Go("main", "done")

Finalize ==
  /\ At("main", "leaving") /\ NurseryEmpty
  /\ \/ finalize_shutdown("main") /\ Go("main", "finalizing")
     \/ Refused("finalize_shutdown") /\ Go("main", "done")

CleanUpMutant == Go("main", "failed") /\ UNCHANGED bridgeVars  \* mutant: no cleanup
\* except Exception: initiate, finalize, and what they raise is swallowed.
CleanUp ==
  \/ InitiateAndFinalize("main") /\ Go("main", "recovering")
  \/ Refused("finalize_shutdown") /\ Go("main", "failed")
\* finalize_shutdown can only fail if the worker is not in the map.
Finalized ==
  /\ At("main", "finalizing") /\ Answer("main") = "ok"
  /\ Resumed("main") /\ Go("main", "done")
Unwind == At("main", "unwinding") /\ NurseryEmpty /\ CleanUp
Recovered == At("main", "recovering") /\ Returned("main") /\ Resumed("main") /\ Go("main", "failed")

\* An exception out of a coordinator, or out of _send_failure, cancels the nursery
\* around it and, through run of the sub-worker, Worker.run's.
Crash ==
  /\ "crash" \in Env /\ pc["main"] \in {"running", "sleeping"}
  /\ \/ At("workflow", "dispatching")
     \/ At("activity", "running") /\ ~Accepts("complete_activity_task")
     \/ At("activity", "completing") /\ Answer("activity") = "error"
  /\ CancelNurseries({"workflow", "act"}, "unwinding")

\* Cancelled is no Exception: nothing is cleaned up.
CancelRun ==
  /\ "cancel" \in Env
  /\ \/ /\ pc["main"] \in {"running", "sleeping", "leaving", "unwinding"}
        /\ CancelNurseries({"workflow", "act"}, "abandoning")
     \/ /\ pc["main"] \in {"creating", "finalizing", "recovering"} /\ call["main"] = "waiting"
        /\ GiveUp({"main"}) /\ Go("main", "gone")
Gone == At("main", "abandoning") /\ NurseryEmpty /\ Go("main", "gone") /\ UNCHANGED bridgeVars

\* Worker.shutdown(), from any task; the sub-workers may not exist yet.
Shutdown ==
  /\ ~Over /\ asked # "all" /\ Opened
  /\ asked' = IF pc["main"] \in {"new", "creating"} THEN "main" ELSE "all"
  /\ asked' # asked
  /\ UNCHANGED <<bridgeVars, pc, cancelled, lost>>

\* SingleThreadWorker.run and TrioActivityWorker.run notice their events.
SubWorkerStops(t) ==
  /\ asked = "all" /\ ~Over /\ t \notin cancelled
  /\ CancelNurseries({t}, pc["main"])

Worker ==
  \/ Run \/ Created \/ Stop \/ Leave \/ Finalize \/ Finalized \/ Unwind \/ Recovered
  \/ Crash \/ CancelRun \/ Gone \/ Shutdown
  \/ \E t \in {"workflow", "act"} : SubWorkerStops(t)
------------------------------------------------------------------------------
(* _poll_workflow_activations                                              *)

\* A refused poll raises before anything is awaited, and is tried again.
PollActivation ==
  /\ At("workflow", "poll")
  /\ \/ asked = "all" /\ Go("workflow", "ended") /\ UNCHANGED bridgeVars
     \/ asked # "all" /\ poll_workflow_activation(Caller("workflow"))
        /\ Wait("workflow", "polling")
     \/ asked # "all" /\ Refused("poll_activation") /\ Go("workflow", "spinning")

\* mutant: the loop polls again whatever it was given
ActivationPolledMutant ==
  /\ At("workflow", "polling") /\ Returned("workflow") /\ Resumed("workflow")
  /\ Go("workflow", IF Answer("workflow") = "ShutDown" THEN "ended" ELSE "poll")

\* An error of parsing or encoding is logged; the loop goes on without an answer.
Drop == "convert" \in Env /\ GoWithout("workflow", "poll", "workflow")

ActivationPolled ==
  /\ At("workflow", "polling") /\ Returned("workflow") /\ Resumed("workflow")
  /\ \/ Go("workflow", CASE Answer("workflow") = "task" -> "dispatching"
                         [] Answer("workflow") = "ShutDown" -> "ended"
                         [] OTHER -> "poll")
     \/ Answer("workflow") = "task" /\ Drop

\* A completion that is refused raises, and the loop goes on.
CompleteActivation ==
  /\ At("workflow", "dispatching")
  /\ \/ complete_workflow_activation(Caller("workflow")) /\ Wait("workflow", "completing")
     \/ Refused("complete_activation") /\ Go("workflow", "poll")
     \/ Drop /\ UNCHANGED bridgeVars
ActivationCompleted ==
  /\ At("workflow", "completing") /\ Returned("workflow") /\ Resumed("workflow")
  /\ IF Answer("workflow") = "error" THEN GoWithout("workflow", "poll", "workflow")
     ELSE Go("workflow", "poll")

DispatcherCancelled ==
  /\ At("workflow", "dispatching") /\ "workflow" \in cancelled
  /\ Go("workflow", "ended") /\ UNCHANGED bridgeVars

Dispatcher == \/ PollActivation \/ ActivationPolled \/ CompleteActivation
              \/ ActivationCompleted \/ DispatcherCancelled
------------------------------------------------------------------------------
(* TrioActivityWorker._poll_loop and one activity                          *)

\* The text of a refusal names the state SHUTDOWN, which ends the loop.
PollActivity ==
  /\ At("act", "poll")
  /\ \/ asked = "all" /\ Go("act", "ended") /\ UNCHANGED bridgeVars
     \/ asked # "all" /\ poll_activity_task(Caller("act")) /\ Wait("act", "polling")
     \/ asked # "all" /\ Refused("poll_activity_task") /\ Go("act", "ended")

\* A handler starts in Trio's next batch, when one that was woken before it has
\* ended; hence one task for the handlers.
ActivityPolled ==
  /\ At("act", "polling") /\ Returned("act") /\ Resumed("act")
  /\ \/ /\ Answer("act") = "task" /\ At("activity", "none")
        /\ pc' = [pc EXCEPT !["act"] = "poll", !["activity"] = "running"]
        /\ UNCHANGED <<asked, cancelled, lost>>
     \/ Answer("act") = "ShutDown" /\ Go("act", "ended")
     \/ Answer("act") = "error" /\ Go("act", "pausing")
RetryPoll == At("act", "pausing") /\ Go("act", "poll") /\ UNCHANGED bridgeVars
PollerCancelled ==
  /\ At("act", "pausing") /\ "act" \in cancelled
  /\ Go("act", "ended") /\ UNCHANGED bridgeVars

\* A handler that returns, raises or is cancelled sends a completion; the error
\* of a refused one is logged, or leaves the handler (Crash).
CompleteActivity ==
  /\ At("activity", "running")
  /\ \/ complete_activity_task(Caller("activity")) /\ Wait("activity", "completing")
     \/ Refused("complete_activity_task") /\ Go("activity", "none")
ActivityCompleted ==
  /\ At("activity", "completing") /\ Returned("activity") /\ Resumed("activity")
  /\ IF Answer("activity") = "error" THEN GoWithout("activity", "none", "activity")
     ELSE Go("activity", "none")

Activities == \/ PollActivity \/ ActivityPolled \/ RetryPoll \/ PollerCancelled
              \/ CompleteActivity \/ ActivityCompleted
------------------------------------------------------------------------------
EventSet == deliver_result /\ UNCHANGED <<pc, asked, cancelled, lost>>
Trio     == TrioRuns /\ (Application \/ Worker \/ Dispatcher \/ Activities \/ EventSet)
Next     == Trio \/ (Rust /\ UNCHANGED <<pc, asked, cancelled, lost>>)

Spec == Init /\ [][Next]_vars

(* What must go on: the tasks of the SDK that may run, the Rust thread, an *)
(* RPC of the application (Tokio runs woken tasks in turn, however many    *)
(* polls come in between) and Core's finalize.  Nobody must call, start,   *)
(* close or shut down anything, polls and completions may stay unanswered, *)
(* and an activity may go on until it is cancelled.                        *)
RunSteps      == Created \/ Stop \/ Leave \/ Finalize \/ Finalized \/ Unwind \/ Recovered \/ Gone
PollerSteps   == PollActivity \/ ActivityPolled \/ RetryPoll \/ PollerCancelled
HandlerSteps  == (CompleteActivity /\ "act" \in cancelled) \/ ActivityCompleted
RustGoes(A)   == A /\ UNCHANGED <<pc, asked, cancelled, lost>>
Fairness ==
  /\ WF_vars(TrioRuns /\ EventSet)
  /\ WF_vars(TrioRuns /\ Used) /\ WF_vars(TrioRuns /\ Closed("client"))
  /\ WF_vars(TrioRuns /\ RunSteps)
  /\ WF_vars(TrioRuns /\ Dispatcher)
  /\ WF_vars(TrioRuns /\ PollerSteps)
  /\ WF_vars(TrioRuns /\ HandlerSteps)
  /\ WF_vars(RustGoes(Receive)) /\ WF_vars(RustGoes(BeginTask))
  /\ WF_vars(RustGoes(\E q \in pending : FinalizeWorker(q)))
  /\ SF_vars(RustGoes(\E q \in pending : q.op = "rpc" /\ AnswerClient(q)))
FairSpec == Spec /\ Fairness
------------------------------------------------------------------------------
Places == {"new", "idle", "none", "connecting", "open", "closing", "closed", "calling", "finished",
           "creating", "running", "sleeping", "leaving", "finalizing", "done", "unwinding",
           "recovering", "failed", "abandoning", "gone", "poll", "polling", "spinning",
           "dispatching", "completing", "pausing", "ended"}
TypeOK ==
  /\ TypeOKBridge
  /\ pc \in [Callers -> Places]
  /\ asked \in {"no", "main", "all"} /\ cancelled \subseteq {"workflow", "act"}
  /\ lost \subseteq Tasks

Owed(c) == (\E q \in Requests : q.by = c) \/ (blocked # NoDelivery /\ blocked.by = c)

(* While the Rust loop runs, whoever waits for the bridge has a request on *)
(* its way: no callback is dropped (bridge.rs:157-206).                    *)
OwedWhileOpen ==
  loop = "running" => \A c \in Callers : call[c] = "waiting" => Owed(c)

(* A completion that was sent reaches a worker that is in the map: nothing *)
(* puts it behind the worker's finalize_shutdown (_worker.py:387-399).     *)
CompletionsFindWorker ==
  LET line == spawned \o channel
  IN  \A i \in DOMAIN line : line[i].op \in Completes =>
        /\ worker = "set"
        /\ \A j \in 1..(i-1) : line[j].op # "finalize_shutdown"

(* Until a nursery is cancelled, a task that Core has handed out is in the *)
(* hands of a live poll loop or handler, while the worker shuts down, too: *)
(* none goes to a poll without a waiter, and none is left unanswered but   *)
(* for an error that was logged (_async_bridge.py:1725-1793, 1537-1598,    *)
(* _single_thread_worker.py:222-255).                                      *)
InHand(poller, holder, busy) ==
  \/ pc[holder] \in busy
  \/ call[poller] = "task"
  \/ blocked # NoDelivery /\ blocked.by = poller /\ blocked.result = "task"
TasksInHand ==
  state = "RUNNING" /\ cancelled = {} =>
    /\ "workflow" \in out \ lost => InHand("workflow", "workflow", {"dispatching", "completing"})
    /\ "activity" \in out \ lost => InHand("act", "activity", {"running", "completing"})

(* When run has returned or failed, the worker is out of the bridge's map, *)
(* unless run was cancelled or the bridge closed before (_worker.py:393,   *)
(* 397-406).                                                               *)
WorkerReleased == pc["main"] \in {"done", "failed"} /\ ~closed => worker # "set"

TooEarly == state = "SHUTDOWN" /\ (~Over \/ At("user", "calling"))

(* A worker that is shut down ends, whatever its tasks are doing, unless   *)
(* the client is closed under it (_worker.py:384-399).                     *)
RunEnds == (asked # "no" /\ At("main", "running")) ~> (Over \/ TooEarly)

(* close() returns once the worker has ended (_async_bridge.py:2019-2032). *)
CloseEnds == At("client", "closing") ~> (At("client", "closed") \/ ~Over)

(* A call of the application ends, whatever the worker does (RequestResult *)
(* delivery, bridge.rs:1252-1285), unless the client is closed under it.   *)
CallsEnd == At("user", "calling") ~> (~At("user", "calling") \/ TooEarly)
==============================================================================
