------------------------------- MODULE Replayer -------------------------------
(***************************************************************************)
(* The Replayer (worker/_replayer.py): one task iterates over histories,   *)
(* pushes each to SDK-Core's replay worker and waits for its eviction; a   *)
(* SingleThreadWorker in replay mode polls, completes and tells of         *)
(* evictions through a hook.  Leaving the context closes the pusher, stops *)
(* the worker and shuts the bridge down.                                   *)
(*                                                                         *)
(* A call of the bridge is one request, answered some time (AsyncBridge);  *)
(* one whose caller is cancelled is left behind.  What a workflow does in  *)
(* between is in SingleThreadWorker.  SDK-Core is external.                *)
(***************************************************************************)
EXTENDS Naturals, Sequences

CONSTANTS
  Histories,  \* how many histories there are; they are numbered
  Env         \* what may happen, see EnvKinds

\* "crash":  an exception leaves the worker's nursery (a workflow of unknown type)
\* "convert": a parse in the poll loop raises, or an encoding of a completion does
\* "refuse": a request is answered with an error, not only for want of a worker
\* "catch":  a scope inside the caller's "async with" ends the wait for a result
\* "cancel": the caller is cancelled from outside
EnvKinds == {"crash", "convert", "refuse", "catch", "cancel"}
ASSUME ReplayAssumption == Histories \in Nat /\ Env \subseteq EnvKinds

\* How a replay may end; CACHE_FULL and LANG_REQUESTED are "clean", the reasons
\* that are neither these nor NONDETERMINISM are "other".
Verdicts == {"clean", "NondeterminismError", "other"}

VARIABLES
  (* the caller's task, which runs the context manager and the iterator *)
  body,      \* where it is
  next,      \* the history that comes next
  over,      \* the iterator (an async generator) has ended
  complete,  \* last_replay_complete is set
  failure,   \* last_replay_failure
  yielded,   \* the results: [history, failure]
  cancelled, \* the caller is cancelled from outside
  (* the worker's task *)
  worker,    \* where it is: none, poll, polling, dispatching, completing, ended, over
  failed,    \* worker_failed is set
  (* the bridge *)
  asked,     \* per task: the request it awaits, or none
  answer,    \* per task: its answer, or none
  left,      \* requests left behind
  (* SDK-Core *)
  core,      \* the replay worker: none, up, draining, dropped, gone
  owed,      \* an activation was handed over and is not completed
  feeder,    \* open, closed
  fed,       \* histories fed and not begun
  replaying, \* the history being replayed, 0 for none
  verdict    \* per history: how its replay ended

bodyVars   == <<body, next, over, cancelled>>
resultVars == <<complete, failure>>
workerVars == <<worker, failed>>
callVars   == <<asked, answer, left>>
coreVars   == <<core, owed, feeder, fed, replaying, verdict>>
vars == <<bodyVars, resultVars, yielded, workerVars, callVars, coreVars>>

Tasks    == {"body", "worker"}
Requests == {"initialize", "push", "close_pusher", "poll", "complete", "initiate", "finalize",
             "shutdown"}
Answers  == {"ok", "error", "activation", "ShutDown"} \cup Verdicts

Init ==
  /\ body = "new" /\ next = 1 /\ over = FALSE /\ complete = FALSE /\ failure = "clean"
  /\ yielded = <<>> /\ cancelled = FALSE
  /\ worker = "none" /\ failed = FALSE
  /\ asked = [t \in Tasks |-> "none"] /\ answer = [t \in Tasks |-> "none"] /\ left = {}
  /\ core = "none" /\ owed = FALSE /\ feeder = "closed" /\ fed = <<>> /\ replaying = 0
  /\ verdict = [h \in 1..Histories |-> "open"]
------------------------------------------------------------------------------
(* The bridge.                                                             *)
Ask(t, q) == asked' = [asked EXCEPT ![t] = q] /\ UNCHANGED <<answer, left>>
Answered(t, where) == answer[t] # "none" /\ where
Resume(t) ==
  /\ asked' = [asked EXCEPT ![t] = "none"] /\ answer' = [answer EXCEPT ![t] = "none"]
  /\ UNCHANGED left
\* One call ends and the next begins.
Proceed(t, q) ==
  asked' = [asked EXCEPT ![t] = q] /\ answer' = [answer EXCEPT ![t] = "none"] /\ UNCHANGED left
\* Cancelled at event.wait(): the request stays, and those of qs are sent, too.
Abandon(t, qs) ==
  /\ left' = left \cup qs \cup (IF asked[t] # "none" /\ answer[t] = "none" THEN {asked[t]} ELSE {})
  /\ asked' = [asked EXCEPT ![t] = "none"] /\ answer' = [answer EXCEPT ![t] = "none"]

initialize_replay_worker   == Ask("body", "initialize")
push_replay_history        == Ask("body", "push")
close_replay_pusher        == Ask("body", "close_pusher")
poll_replay_activation     == Ask("worker", "poll")
complete_replay_activation == Proceed("worker", "complete")
initiate_replay_shutdown   == Ask("body", "initiate")
finalize_replay_shutdown   == Proceed("body", "finalize")
shutdown                   == Proceed("body", "shutdown")
------------------------------------------------------------------------------
(* The worker's task: run_worker and _poll_workflow_activations.           *)
Stopping == body = "joining"
Goes(to) == worker' = to /\ UNCHANGED failed

Poll ==
  /\ worker = "poll" /\ ~Stopping
  /\ poll_replay_activation /\ Goes("polling")
  /\ UNCHANGED <<bodyVars, resultVars, yielded, coreVars>>

(* Called before the eviction is completed.                                *)
on_eviction_hook(v) == complete' = TRUE /\ failure' = v

Polled ==
  /\ Answered("worker", worker = "polling")
  /\ \/ /\ answer["worker"] = "activation"
        /\ Resume("worker") /\ UNCHANGED resultVars
        /\ \/ Goes("dispatching")
           \/ "convert" \in Env /\ Goes("poll")   \* logged, and left unanswered
     \/ /\ answer["worker"] \in Verdicts /\ on_eviction_hook(answer["worker"])
        /\ complete_replay_activation /\ Goes("completing")
     \/ /\ answer["worker"] = "ShutDown"
        /\ Resume("worker") /\ Goes("ended") /\ UNCHANGED resultVars
     \/ /\ answer["worker"] = "error"
        /\ Resume("worker") /\ Goes("poll") /\ UNCHANGED resultVars
  /\ UNCHANGED <<bodyVars, yielded, coreVars>>

\* The workflow has its commands ready; with an encoding that raises they are lost.
Dispatched ==
  /\ worker = "dispatching"
  /\ \/ complete_replay_activation /\ Goes("completing")
     \/ "convert" \in Env /\ UNCHANGED callVars /\ Goes("poll")
  /\ UNCHANGED <<bodyVars, resultVars, yielded, coreVars>>

CrashMutant ==   \* mutant: the failure is remembered, and nobody is told
  /\ "crash" \in Env /\ worker = "dispatching"
  /\ worker' = "over" /\ UNCHANGED failed
  /\ UNCHANGED <<bodyVars, resultVars, yielded, callVars, coreVars>>

Crash ==
  /\ "crash" \in Env /\ worker = "dispatching"
  /\ worker' = "over" /\ failed' = TRUE
  /\ UNCHANGED <<bodyVars, resultVars, yielded, callVars, coreVars>>

\* An error is logged; the loop goes on.
Completed ==
  /\ Answered("worker", worker = "completing")
  /\ Resume("worker") /\ Goes("poll")
  /\ UNCHANGED <<bodyVars, resultVars, yielded, coreVars>>

\* worker_task_scope and the nursery; without worker.shutdown() a worker that is
\* about to poll still does.
WorkerCancelled ==
  /\ Stopping /\ worker \notin {"over", "none"}
  /\ Abandon("worker", IF worker = "poll" /\ cancelled THEN {"poll"} ELSE {})
  /\ Goes("over")
  /\ UNCHANGED <<bodyVars, resultVars, yielded, coreVars>>

Worker == Poll \/ Polled \/ Dispatched \/ Crash \/ Completed \/ WorkerCancelled
------------------------------------------------------------------------------
(* The caller's task: workflow_replay_iterator, up to the first history.   *)
At(here, to) == body = here /\ body' = to
RestOfBody   == <<next, over, cancelled>>

Start ==
  /\ At("new", "initializing") /\ initialize_replay_worker
  /\ UNCHANGED <<RestOfBody, resultVars, yielded, workerVars, coreVars>>

\* Without a replay worker only the bridge is shut down: initiate raises.
Initialized ==
  /\ Answered("body", body = "initializing")
  /\ \/ answer["body"] = "ok" /\ At("initializing", "idle") /\ Resume("body") /\ Goes("poll")
     \/ /\ answer["body"] = "error" /\ At("initializing", "initiating")
        /\ Proceed("body", "initiate") /\ UNCHANGED workerVars
  /\ UNCHANGED <<RestOfBody, resultVars, yielded, coreVars>>

(* replay_iterator: one history.                                           *)
PushMutant ==   \* mutant: the event of the history before is used again
  /\ ~over /\ next =< Histories
  /\ At("idle", "pushing") /\ push_replay_history /\ failure' = "clean"
  /\ UNCHANGED <<RestOfBody, complete, yielded, workerVars, coreVars>>

Push ==
  /\ ~over /\ next =< Histories
  /\ At("idle", "pushing") /\ push_replay_history
  /\ complete' = FALSE /\ failure' = "clean"
  /\ UNCHANGED <<RestOfBody, yielded, workerVars, coreVars>>

\* What the iterator raises ends it.
Raise(here) == At(here, "idle") /\ over' = TRUE /\ UNCHANGED <<next, cancelled>>

Pushed ==
  /\ Answered("body", body = "pushing") /\ Resume("body")
  /\ \/ answer["body"] = "ok" /\ At("pushing", "waiting") /\ UNCHANGED RestOfBody
     \/ answer["body"] = "error" /\ Raise("pushing")
  /\ UNCHANGED <<resultVars, yielded, workerVars, coreVars>>

\* The nursery of wait_complete and wait_failed is over.
Yield ==
  /\ complete /\ ~failed
  /\ At("waiting", "idle")
  /\ yielded' = Append(yielded, [history |-> next, failure |-> failure])
  /\ next' = next + 1
  /\ UNCHANGED <<over, cancelled, resultVars, workerVars, callVars, coreVars>>
RaiseWorkerError ==
  /\ failed /\ Raise("waiting")
  /\ UNCHANGED <<resultVars, yielded, workerVars, callVars, coreVars>>

\* A scope of the caller ends the wait, and with it the iterator.
Interrupt ==
  /\ "catch" \in Env
  /\ \/ Raise("pushing") \/ Raise("waiting")
  /\ Abandon("body", {})
  /\ UNCHANGED <<resultVars, yielded, workerVars, coreVars>>
------------------------------------------------------------------------------
(* Leaving the context.                                                    *)
Leave ==
  /\ At("idle", "closing") /\ close_replay_pusher
  /\ UNCHANGED <<RestOfBody, resultVars, yielded, workerVars, coreVars>>

Closed ==
  /\ Answered("body", At("closing", "joining")) /\ Resume("body")
  /\ UNCHANGED <<RestOfBody, resultVars, yielded, workerVars, coreVars>>

Joined ==
  /\ worker = "over"
  /\ \/ ~cancelled /\ At("joining", "initiating") /\ initiate_replay_shutdown
     \/ cancelled /\ At("joining", "gone") /\ Abandon("body", {"initiate"})
  /\ UNCHANGED <<RestOfBody, resultVars, yielded, workerVars, coreVars>>

Initiated ==
  /\ \/ /\ Answered("body", At("initiating", "finalizing"))
        /\ answer["body"] = "ok" /\ finalize_replay_shutdown
     \/ /\ Answered("body", At("initiating", "stopping"))
        /\ answer["body"] = "error" /\ shutdown
  /\ UNCHANGED <<RestOfBody, resultVars, yielded, workerVars, coreVars>>

Finalized ==
  /\ Answered("body", At("finalizing", "stopping")) /\ shutdown
  /\ UNCHANGED <<RestOfBody, resultVars, yielded, workerVars, coreVars>>

Stopped ==
  /\ Answered("body", At("stopping", "exited")) /\ Resume("body")
  /\ UNCHANGED <<RestOfBody, resultVars, yielded, workerVars, coreVars>>

(* Cancelled is no Exception: in the context the pusher's request is still *)
(* sent and the nursery joined, after it nothing is waited for any more.   *)
Cancel ==
  /\ "cancel" \in Env /\ ~cancelled /\ cancelled' = TRUE
  /\ over' = (over \/ body \in {"pushing", "waiting"})
  /\ \/ /\ body \in {"idle", "pushing", "waiting"} /\ body' = "joining"
        /\ Abandon("body", {"close_pusher"})
     \/ body = "closing" /\ body' = "joining" /\ Abandon("body", {})
     \/ body = "joining" /\ UNCHANGED <<body, callVars>>
     \/ /\ body = "initializing" /\ body' = "gone" /\ Abandon("body", {"initiate"})
     \/ body \in {"initiating", "finalizing", "stopping"} /\ body' = "gone" /\ Abandon("body", {})
  /\ UNCHANGED <<next, resultVars, yielded, workerVars, coreVars>>

Iterator == Pushed \/ Yield \/ RaiseWorkerError
Exit     == Closed \/ Joined \/ Initiated \/ Finalized \/ Stopped
Body     == Start \/ Initialized \/ Push \/ Iterator \/ Interrupt \/ Leave \/ Exit \/ Cancel
------------------------------------------------------------------------------
(* SDK-Core's replay worker and its feeder.  A call left behind may still  *)
(* hold the worker when it is finalized: then only the bridge's reference  *)
(* is dropped and Core's own finalize is skipped.                          *)
Up == core \in {"up", "draining"}

Serve(q) ==
  CASE q = "initialize" ->
         core' = "up" /\ feeder' = "open" /\ UNCHANGED <<owed, fed, replaying, verdict>>
    [] q = "push" ->
         fed' = Append(fed, next) /\ UNCHANGED <<core, owed, feeder, replaying, verdict>>
    [] q = "close_pusher" ->
         feeder' = "closed" /\ UNCHANGED <<core, owed, fed, replaying, verdict>>
    [] q = "initiate" ->
         core' = "draining" /\ UNCHANGED <<owed, feeder, fed, replaying, verdict>>
    [] q = "finalize" ->
         /\ core' = "gone" \/ (left \cap {"poll", "complete"} # {} /\ core' = "dropped")
         /\ feeder' = "closed" /\ UNCHANGED <<owed, fed, replaying, verdict>>
    [] q = "complete" ->
         owed' = FALSE /\ UNCHANGED <<core, feeder, fed, replaying, verdict>>
    [] q = "shutdown" -> UNCHANGED coreVars

\* What a request needs to be answered with "ok".
Serves(q) ==
  CASE q = "initialize" -> core = "none"
    [] q = "push" -> feeder = "open"
    [] q \in {"complete", "initiate"} -> Up
    [] OTHER -> TRUE

Refuses(q) == "refuse" \in Env /\ q \in {"initialize", "push", "complete"}

\* A history is begun when its predecessor is evicted, and evicted once; no
\* activation is handed over before the last one is completed.
Hand(a) ==
  \/ /\ a = "activation" /\ (Up \/ core = "dropped") /\ ~owed /\ owed' = TRUE
     /\ \/ replaying # 0 /\ UNCHANGED <<core, feeder, fed, replaying, verdict>>
        \/ /\ replaying = 0 /\ fed # <<>>
           /\ replaying' = Head(fed) /\ fed' = Tail(fed) /\ UNCHANGED <<core, feeder, verdict>>
  \/ /\ a \in Verdicts /\ (Up \/ core = "dropped") /\ replaying # 0 /\ ~owed /\ owed' = TRUE
     /\ verdict' = [verdict EXCEPT ![replaying] = a]
     /\ replaying' = 0 /\ UNCHANGED <<core, feeder, fed>>
  \/ /\ a = "ShutDown"
     /\ core \in {"draining", "dropped"} \/ (feeder = "closed" /\ fed = <<>> /\ replaying = 0)
     /\ UNCHANGED coreVars
  \/ a = "error" /\ ("refuse" \in Env \/ ~Up) /\ UNCHANGED coreVars

RestOfCore == <<bodyVars, resultVars, yielded, workerVars>>
Reply(t, a) ==
  /\ asked[t] # "none" /\ answer[t] = "none"
  /\ \/ asked[t] = "poll" /\ Hand(a)
     \/ asked[t] # "poll" /\ a = "ok" /\ Serves(asked[t]) /\ Serve(asked[t])
     \/ asked[t] # "poll" /\ a = "error" /\ (Refuses(asked[t]) \/ ~Serves(asked[t]))
        /\ UNCHANGED coreVars
  /\ answer' = [answer EXCEPT ![t] = a]
  /\ UNCHANGED <<asked, left, RestOfCore>>

\* A request left behind is carried out as well.
ReplyToNobody(q) ==
  /\ left' = left \ {q}
  /\ IF q = "poll" THEN \E a \in Answers : Hand(a)
     ELSE IF Serves(q) THEN Serve(q) ELSE UNCHANGED coreVars
  /\ UNCHANGED <<asked, answer, RestOfCore>>

Core == \/ \E t \in Tasks, a \in Answers : Reply(t, a)
        \/ \E q \in left : ReplyToNobody(q)
------------------------------------------------------------------------------
Next == Worker \/ Body \/ Core
Spec == Init /\ [][Next]_vars

(* Trio runs the tasks; SDK-Core answers, and ends a replay sometime if    *)
(* each of its activations is completed.  The caller need not go on.       *)
FairSpec ==
  /\ Spec
  /\ WF_vars(Worker) /\ WF_vars(Initialized) /\ WF_vars(Iterator) /\ WF_vars(Exit)
  /\ WF_vars(\E a \in Answers : Reply("body", a))
  /\ WF_vars(\E a \in Answers : Reply("worker", a))
  /\ SF_vars(\E a \in Verdicts : Reply("worker", a))
  /\ SF_vars(Reply("worker", "activation"))
------------------------------------------------------------------------------
Places == {"new", "initializing", "idle", "pushing", "waiting", "closing", "joining",
           "initiating", "finalizing", "stopping", "exited", "gone"}
TypeOK ==
  /\ body \in Places /\ next \in 1..(Histories + 1) /\ over \in BOOLEAN
  /\ cancelled \in BOOLEAN /\ complete \in BOOLEAN /\ failure \in Verdicts
  /\ yielded \in Seq([history : 1..Histories, failure : Verdicts])
  /\ worker \in {"none", "poll", "polling", "dispatching", "completing", "ended", "over"}
  /\ failed \in BOOLEAN
  /\ asked \in [Tasks -> Requests \cup {"none"}] /\ answer \in [Tasks -> Answers \cup {"none"}]
  /\ left \subseteq Requests
  /\ core \in {"none", "up", "draining", "dropped", "gone"} /\ owed \in BOOLEAN /\ feeder \in {"open", "closed"}
  /\ fed \in Seq(1..Histories) /\ replaying \in 0..Histories
  /\ verdict \in [1..Histories -> Verdicts \cup {"open"}]

(* The results are those of the histories, one each and in order, with the *)
(* verdict of SDK-Core on that history and on no other, although verdicts  *)
(* and failures come through variables of the context (_replayer.py:183-   *)
(* 207, 249-288).                                                          *)
VerdictOfHistory ==
  \A i \in DOMAIN yielded : yielded[i] = [history |-> i, failure |-> verdict[i]]

Rest == \/ body \in {"idle", "gone"}
        \/ body = "exited" /\ worker \in {"none", "over"} /\ ~Up

\* SDK-Core waits for the completion of an activation that the poll loop, which
\* polls again, has given up: its history is never evicted.
Forgotten == body = "waiting" /\ worker = "polling" /\ owed

(* Every call of the context ends, also if the worker fails during a       *)
(* replay: a history gives a result or an exception, and when the context  *)
(* is left the worker's task is over and the bridge has no replay worker   *)
(* any more, unless the caller is cancelled ("gone", _replayer.py:265-     *)
(* 324).  The one call that may wait for ever is that for a history with   *)
(* an activation whose parse, encoding or completion failed, which the     *)
(* poll loop logs and forgets (_single_thread_worker.py:237, 243-255,      *)
(* 399); a scope of the caller ends that one, too.                         *)
ContextEnds == (body # "new") ~> (Rest \/ Forgotten)
==============================================================================
