----------------------------- MODULE AsyncBridge -----------------------------
(***************************************************************************)
(* The bridge between Trio and SDK-Core: _async_bridge.py on the Python    *)
(* side, bridge.rs with core_worker.rs and core_client.rs on the Rust side.*)
(*                                                                         *)
(* A call sends a request into an unbounded channel and waits for an event.*)
(* One Rust thread receives the requests, spawns a task for each and runs  *)
(* these on a current-thread Tokio runtime, first come first served.  A    *)
(* task that has its result calls the Python callback, which blocks the    *)
(* Rust thread until Trio's thread has set the event.  The two threads     *)
(* interleave freely; Core's own work runs on the Rust thread as well.     *)
(*                                                                         *)
(* This module has the state and the steps of both sides; the tasks that   *)
(* call are in WorkerLifecycle.  SDK-Core is external.                     *)
(***************************************************************************)
EXTENDS Naturals, Sequences

CONSTANTS
  Callers,    \* Trio tasks that call the bridge
  Nobody,     \* whom a result goes to if nobody waits for it
  NoDelivery, \* "the Rust thread is in no callback"
  Fails       \* operations that may end with an error


Polls     == {"poll_activation", "poll_activity_task"}
Completes == {"complete_activation", "complete_activity_task"}
WorkerOps == Polls \cup Completes
\* "rpc" is any call that becomes one request of Core's client to the server;
\* "finalize_bridge" is finalize_shutdown without a worker_id.
Operations == WorkerOps \cup {"initialize_client", "rpc", "create_worker", "finalize_bridge",
                              "initiate_shutdown", "finalize_shutdown"}
\* What a call ends with: polls with a task or "ShutDown", the others with "ok".
Results == {"ok", "task", "ShutDown", "error"}
\* What Core hands out to polls and expects to be completed.
Tasks     == {"workflow", "activity"}
TaskOf(o) == IF o \in {"poll_activation", "complete_activation"} THEN "workflow" ELSE "activity"

Request  == [op : Operations, by : Callers \cup {Nobody}]
Delivery == [op : Operations, by : Callers \cup {Nobody}, result : Results]

ASSUME NobodyAssumption == Nobody \notin Callers /\ NoDelivery \notin Delivery

VARIABLES
  (* Python: the TrioBridgeWrapper, and what its callers wait for *)
  state,      \* _state
  finalized,  \* _shutdown_finalized
  call,       \* per caller: none, waiting (event.wait()), or how the call ended
  (* Rust *)
  closed,     \* TrioAsyncBridge.shutdown, the flag that send_request looks at
  loop,       \* rust_event_loop: running, exited
  channel,    \* requests sent and not received
  spawned,    \* tasks spawned and not begun
  pending,    \* tasks that await Core
  blocked,    \* the delivery whose callback the Rust thread is in
  worker,     \* the entry in core_workers: absent, set, removed
  (* SDK-Core *)
  core,       \* the worker: none, up, draining, down (finalized), dropped
  out         \* tasks handed out and not completed

pyVars     == <<state, finalized, call>>
queueVars  == <<closed, loop, channel, spawned>>
coreVars   == <<worker, core, out>>
bridgeVars == <<pyVars, queueVars, pending, blocked, coreVars>>

InitBridge ==
  /\ state = "NOT_STARTED" /\ finalized = FALSE
  /\ call = [c \in Callers |-> "none"]
  /\ closed = FALSE /\ loop = "running"
  /\ channel = <<>> /\ spawned = <<>> /\ pending = {} /\ blocked = NoDelivery
  /\ worker = "absent" /\ core = "none" /\ out = {}
------------------------------------------------------------------------------
(* Python.                                                                 *)

\* _check_running, and _check_can_complete for completions of activations;
\* shutting down checks nothing.  send_request refuses when closed.
Accepts(o) ==
  /\ ~closed
  /\ CASE o = "complete_activation" -> state # "NOT_STARTED"
       [] o \in {"initiate_shutdown", "finalize_shutdown", "finalize_bridge"} -> TRUE
       [] OTHER -> state = "RUNNING"

Queue(reqs) ==
  /\ channel' = channel \o reqs
  /\ UNCHANGED <<finalized, closed, loop, spawned, pending, blocked, coreVars>>

Sent(c, o) ==
  /\ Queue(<<[op |-> o, by |-> c]>>)
  /\ call' = IF c = Nobody THEN call ELSE [call EXCEPT ![c] = "waiting"]

(* A call: checks, request, wait.  If the scope of the caller is cancelled *)
(* (c is Nobody), Cancelled is raised at the wait.                         *)
Call(c, o) == Accepts(o) /\ Sent(c, o) /\ UNCHANGED state
Refused(o) == ~Accepts(o) /\ UNCHANGED bridgeVars

create_worker(c)                == Call(c, "create_worker")
poll_workflow_activation(c)     == Call(c, "poll_activation")
complete_workflow_activation(c) == Call(c, "complete_activation")
poll_activity_task(c)           == Call(c, "poll_activity_task")
complete_activity_task(c)       == Call(c, "complete_activity_task")
finalize_shutdown(c)            == Call(c, "finalize_shutdown")
\* Any call of the client after the first.
ClientCall(c)                   == Call(c, "rpc")
initialize_client(c)            == Sent(c, "initialize_client")

(* start() and initialize_client(): nothing is awaited in between.         *)
start(c) == state = "NOT_STARTED" /\ state' = "RUNNING" /\ initialize_client(c)

(* initiate_shutdown(worker_id): nobody waits for the answer.              *)
initiate_shutdown ==
  /\ Queue(IF closed THEN <<>> ELSE <<[op |-> "initiate_shutdown", by |-> Nobody]>>)
  /\ UNCHANGED <<state, call>>

(* initiate_shutdown and finalize_shutdown of a worker in one go.          *)
InitiateAndFinalize(c) ==
  /\ Accepts("finalize_shutdown")
  /\ Queue(<<[op |-> "initiate_shutdown", by |-> Nobody], [op |-> "finalize_shutdown", by |-> c]>>)
  /\ call' = [call EXCEPT ![c] = "waiting"]
  /\ UNCHANGED state

\* mutant: the bridge closes before the request is answered
shutdownMutant(c) ==
  /\ ~finalized /\ ~closed /\ state' = "SHUTDOWN" /\ closed' = TRUE
  /\ channel' = Append(channel, [op |-> "finalize_bridge", by |-> c])
  /\ call' = [call EXCEPT ![c] = "waiting"]
  /\ UNCHANGED <<finalized, loop, spawned, pending, blocked, coreVars>>

(* shutdown(): initiate_shutdown and finalize_shutdown of the bridge.  The *)
(* former's request is for a worker that a Client's bridge does not have   *)
(* (get_worker of the legacy handle fails): it is left out.                *)
shutdown(c) == ~finalized /\ ~closed /\ state' = "SHUTDOWN" /\ Sent(c, "finalize_bridge")

(* finalize_shutdown() goes on: no request is taken any more.              *)
CloseBridge(c) ==
  /\ finalized' = TRUE
  /\ closed' = TRUE
  /\ call' = [call EXCEPT ![c] = "none"]
  /\ UNCHANGED <<state, loop, channel, spawned, pending, blocked, coreVars>>

(* A call goes on after its wait.                                          *)
Returned(c) == call[c] \in Results
Resumed(c) ==
  /\ call' = [call EXCEPT ![c] = "none"]
  /\ UNCHANGED <<state, finalized, queueVars, pending, blocked, coreVars>>

(* The callers cs are cancelled, or their timeouts expire, in event.wait():*)
(* the request stays, its result goes nowhere.                             *)
GiveUp(cs) ==
  LET Unowned(q) == IF q.by \in cs THEN [q EXCEPT !.by = Nobody] ELSE q
  IN  /\ call' = [c \in Callers |-> IF c \in cs THEN "none" ELSE call[c]]
      /\ channel' = [i \in DOMAIN channel |-> Unowned(channel[i])]
      /\ spawned' = [i \in DOMAIN spawned |-> Unowned(spawned[i])]
      /\ pending' = {Unowned(q) : q \in pending}
      /\ blocked' = IF blocked = NoDelivery THEN NoDelivery ELSE Unowned(blocked)
      /\ UNCHANGED <<state, finalized, closed, loop, coreVars>>

(* Trio runs event.set for the callback, which frees the Rust thread.      *)
deliver_result ==
  /\ blocked # NoDelivery
  /\ call' = [c \in Callers |-> IF c = blocked.by THEN blocked.result ELSE call[c]]
  /\ blocked' = NoDelivery
  /\ UNCHANGED <<state, finalized, queueVars, pending, coreVars>>
------------------------------------------------------------------------------
(* Rust.                                                                   *)
RustFree == blocked = NoDelivery /\ loop = "running"

Deliver(q, res) == blocked' = [op |-> q.op, by |-> q.by, result |-> res]

(* The loop receives a request and spawns its task.                        *)
Receive ==
  /\ RustFree /\ channel # <<>> /\ ~closed
  /\ spawned' = Append(spawned, Head(channel))
  /\ channel' = Tail(channel)
  /\ UNCHANGED <<pyVars, closed, loop, pending, blocked, coreVars>>

(* The loop finds the flag set: the runtime goes, with every task in it    *)
(* and the workers.                                                        *)
ExitLoop ==
  /\ RustFree /\ channel # <<>> /\ closed
  /\ loop' = "exited"
  /\ channel' = <<>> /\ spawned' = <<>> /\ pending' = {}
  /\ worker' = IF worker = "set" THEN "removed" ELSE worker
  /\ core' = IF core \in {"up", "draining"} THEN "dropped" ELSE core
  /\ UNCHANGED <<pyVars, closed, blocked, out>>

(* The next spawned task runs until it awaits Core or has its result.      *)
Begin(ops) == RustFree /\ spawned # <<>> /\ Head(spawned).op \in ops /\ spawned' = Tail(spawned)
Task       == Head(spawned)
Await      == pending' = pending \cup {Task} /\ UNCHANGED <<blocked, coreVars>>
BeginVars  == <<pyVars, closed, loop, channel>>

\* Tasks that hold the worker; the last one that ends drops it if it has left
\* the map.
Holds(p)       == {q \in p : q.op \in WorkerOps}
Dropped(w, p)  == IF w = "removed" /\ Holds(p) = {} /\ core \in {"up", "draining"}
                  THEN "dropped" ELSE core

\* mutant: the client's calls wait until nothing else is under way
BeginClientCallMutant ==
  /\ Begin({"initialize_client", "rpc"}) /\ Holds(pending) = {} /\ Await /\ UNCHANGED BeginVars
\* initialize_client and the RPCs of the client.
BeginClientCall == Begin({"initialize_client", "rpc"}) /\ Await /\ UNCHANGED BeginVars

BeginCreateWorker ==
  /\ Begin({"create_worker"})
  /\ \/ /\ Deliver(Task, "ok")
        /\ worker' = "set" /\ core' = "up" /\ UNCHANGED out
     \/ "create_worker" \in Fails /\ Deliver(Task, "error") /\ UNCHANGED coreVars
  /\ UNCHANGED <<BeginVars, pending>>

BeginWorkerOp ==
  /\ Begin(WorkerOps)
  /\ IF worker = "set" THEN Await
     ELSE Deliver(Task, "error") /\ UNCHANGED <<pending, coreVars>>
  /\ UNCHANGED BeginVars

BeginInitiate ==
  /\ Begin({"initiate_shutdown"})
  /\ core' = IF worker = "set" /\ core = "up" THEN "draining" ELSE core
  /\ UNCHANGED <<BeginVars, pending, blocked, worker, out>>

(* finalize_shutdown takes the worker out of the map.  If other tasks hold *)
(* it, it is left to them and the answer is given at once.                 *)
BeginFinalize ==
  /\ Begin({"finalize_shutdown"})
  /\ IF worker # "set" THEN Deliver(Task, "error") /\ UNCHANGED <<pending, coreVars>>
     ELSE /\ worker' = "removed"
          /\ IF Holds(pending) = {}
             THEN pending' = pending \cup {Task} /\ UNCHANGED blocked
             ELSE Deliver(Task, "ok") /\ UNCHANGED pending
          /\ UNCHANGED <<core, out>>
  /\ UNCHANGED BeginVars

\* The bridge's own worker handle is empty: there is nothing to finalize.
BeginFinalizeBridge ==
  /\ Begin({"finalize_bridge"})
  /\ Deliver(Task, "ok")
  /\ UNCHANGED <<BeginVars, pending, coreVars>>

BeginTask == \/ BeginClientCall \/ BeginCreateWorker \/ BeginWorkerOp
             \/ BeginInitiate \/ BeginFinalize \/ BeginFinalizeBridge
------------------------------------------------------------------------------
(* SDK-Core answers a task that awaits it.                                 *)
EndVars == <<pyVars, queueVars, worker>>
Ends(q, res) ==
  /\ RustFree
  /\ pending' = pending \ {q}
  /\ Deliver(q, res)
  /\ UNCHANGED EndVars

(* A task for a poll; at most one of a kind is out, a bound.               *)
HandOut(q) ==
  /\ q.op \in Polls /\ core \in {"up", "draining"} /\ TaskOf(q.op) \notin out
  /\ Ends(q, "task")
  /\ out' = out \cup {TaskOf(q.op)}
  /\ core' = Dropped(worker, pending')

(* PollError::ShutDown, once all of the kind is completed.                 *)
EndPoll(q) ==
  /\ q.op \in Polls /\ core = "draining" /\ TaskOf(q.op) \notin out
  /\ Ends(q, "ShutDown")
  /\ core' = Dropped(worker, pending')
  /\ UNCHANGED out

Complete(q) ==
  /\ q.op \in Completes
  /\ Ends(q, "ok")
  /\ out' = out \ {TaskOf(q.op)}
  /\ core' = Dropped(worker, pending')

FinalizeWorker(q) ==
  /\ q.op = "finalize_shutdown"
  /\ Ends(q, "ok")
  /\ core' = "down"
  /\ UNCHANGED out

AnswerClient(q) ==
  /\ q.op \in {"initialize_client", "rpc"}
  /\ Ends(q, "ok")
  /\ UNCHANGED <<core, out>>

\* mutant: a task that fails calls no callback
CallFailsMutant(q) ==
  /\ q.op \in Fails /\ RustFree /\ pending' = pending \ {q}
  /\ core' = Dropped(worker, pending')
  /\ UNCHANGED <<EndVars, blocked, out>>

CallFails(q) ==
  /\ q.op \in Fails
  /\ Ends(q, "error")
  /\ core' = Dropped(worker, pending')
  /\ UNCHANGED out

CoreAnswers(q) == \/ HandOut(q) \/ EndPoll(q) \/ Complete(q)
                  \/ FinalizeWorker(q) \/ AnswerClient(q) \/ CallFails(q)

Rust == \/ Receive \/ ExitLoop \/ BeginTask
        \/ \E q \in pending : CoreAnswers(q)
------------------------------------------------------------------------------
TypeOKBridge ==
  /\ state \in {"NOT_STARTED", "RUNNING", "SHUTDOWN"} /\ finalized \in BOOLEAN
  /\ call \in [Callers -> {"none", "waiting"} \cup Results]
  /\ closed \in BOOLEAN /\ loop \in {"running", "exited"}
  /\ channel \in Seq(Request) /\ spawned \in Seq(Request)
  /\ pending \subseteq Request /\ blocked \in Delivery \cup {NoDelivery}
  /\ worker \in {"absent", "set", "removed"}
  /\ core \in {"none", "up", "draining", "down", "dropped"}
  /\ out \subseteq Tasks

InQueue(s) == {s[i] : i \in DOMAIN s}
Requests   == InQueue(channel) \cup InQueue(spawned) \cup pending
==============================================================================
