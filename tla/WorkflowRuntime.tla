--------------------------- MODULE WorkflowRuntime ---------------------------
(***************************************************************************)
(* The waits of one workflow run (worker/_runtime.py and the handles of    *)
(* workflow.py): its coroutines issue timers, activities, children,        *)
(* external signals and cancels, each under a sequence number, and wait on *)
(* a trio.Event per operation until a job of an activation resolves it, or *)
(* wait for a condition until they are told that state may have changed.   *)
(*                                                                         *)
(* An activation is applied job by job without an await; then the          *)
(* coroutines run until all of them wait, and the commands go to SDK-Core. *)
(* SingleThreadWorker shows that this is what the coordinator achieves,    *)
(* and that a workflow whose nursery was cancelled gets no further         *)
(* activation.  A cancel in the initial activation finds no nursery: it    *)
(* sets the flag only, which the calls look at when they resume.           *)
(***************************************************************************)
EXTENDS Naturals

CONSTANTS
  Tasks,      \* coroutines of the workflow: main, handlers, tasks they open
  Notifying,  \* those that notify condition waiters at their end: main, updates
  Kinds,      \* the operations they use: see OpKinds
  MaxSeq,     \* bound: operations issued per sequence counter
  MaxTime,    \* bound: the workflow's clock (runtime.time_ns)
  Env         \* what may happen besides: see EnvKinds

OpKinds == {"timer", "activity", "local", "child", "signal", "cancel"}

\* "error":    an operation fails
\* "backoff":  Core has the workflow retry a local activity after a timer
\* "nostart":  a child cannot be started
\* "share":    several coroutines await one child
\* "scope":    a coroutine cancels the scope another one waits in
\* "workflow": the workflow is cancelled
\* "notify":   signals with synchronous handlers, which change state
\* "change":   coroutines change the state that conditions depend on
\* "condition", "timeout":  waits for conditions, without and with a timeout
EnvKinds == {"error", "backoff", "nostart", "share", "scope", "workflow",
             "notify", "change", "condition", "timeout"}

ASSUME RuntimeAssumption ==
  /\ Notifying \subseteq Tasks
  /\ Kinds \subseteq OpKinds
  /\ MaxSeq \in Nat /\ MaxTime \in Nat
  /\ Env \subseteq EnvKinds

Ops      == OpKinds \X (1..MaxSeq)
Conds    == {"condition"} \X (1..MaxSeq)
NoOp     == <<"none", 0>>
Waits    == Ops \X {"start", "end"}      \* "start" is for children only
Outcomes == {"ok", "error"}

\* Activities and local activities are numbered together (activity_seq).
Counter(kind) == IF kind = "local" THEN "activity" ELSE kind

VARIABLES
  phase,     \* idle (Core has the completion), apply (the jobs), settle
  time,      \* runtime.time_ns
  (* WorkflowRuntime *)
  seq,       \* timer_seq, activity_seq, child_workflow_seq, ...
  issued,    \* operations whose start command was issued
  pending,   \* events in pending_timers, pending_activities, ...
  completed, \* fired_timers, completed_activities, ...: per op the result
  started,   \* started_children
  commands,  \* runtime.commands: <<"start" or "cancel", op>>
  cancelled, \* no, flag (cancel_requested), scope (the nursery's as well)
  (* ChildWorkflowHandle *)
  handles,   \* children whose handle was returned
  result,    \* per child: _completed, with _result or _failure
  (* the workflow's own state and its coroutines *)
  holds,     \* conditions that are true
  pc,        \* none, run, await (an event), condition, done
  on,        \* the event awaited, or <<condition, "end">>
  woken,     \* no, set (the event), cancelled (Cancelled is raised)
  retry,     \* the local activity a backoff timer is for
  deadline,  \* of a condition; 0 is none
  last,      \* how the coroutine's last wait ended
  (* SDK-Core (external) *)
  core       \* per op: none, open, started, closed

opVars   == <<seq, issued, pending, completed, started, handles, result>>
taskVars == <<pc, on, woken, retry, deadline, last>>
vars == <<phase, time, opVars, commands, cancelled, holds, taskVars, core>>

TypeOK ==
  /\ phase \in {"idle", "apply", "settle"}
  /\ time \in 0..MaxTime
  /\ seq \in [OpKinds -> 0..MaxSeq]
  /\ issued \subseteq Ops
  /\ pending \subseteq Waits
  /\ completed \in [Ops -> {"no", "backoff"} \cup Outcomes]
  /\ started \subseteq Ops
  /\ commands \subseteq {"start", "cancel"} \X Ops
  /\ cancelled \in {"no", "flag", "scope"}
  /\ handles \subseteq Ops
  /\ result \in [Ops -> {"no", "cancelled", "internal"} \cup Outcomes]
  /\ holds \subseteq Conds
  /\ pc \in [Tasks -> {"none", "run", "await", "condition", "done"}]
  /\ on \in [Tasks -> (Ops \cup Conds \cup {NoOp}) \X {"start", "end"}]
  /\ woken \in [Tasks -> {"no", "set", "cancelled"}]
  /\ retry \in [Tasks -> Ops \cup {NoOp}]
  /\ deadline \in [Tasks -> 0..MaxTime]
  /\ last \in [Tasks -> (Ops \cup Conds \cup {NoOp}) \X
                 ({"cancelled", "internal", "timeout"} \cup Outcomes)]
  /\ core \in [Ops -> {"none", "open", "started", "closed"}]

Init ==
  /\ phase = "settle"          \* the initial activation
  /\ time = 0
  /\ seq = [k \in OpKinds |-> 0]
  /\ issued = {} /\ pending = {} /\ started = {} /\ handles = {}
  /\ completed = [o \in Ops |-> "no"]
  /\ result = [o \in Ops |-> "no"]
  /\ commands = {}
  /\ cancelled \in {"no"} \cup {c \in {"flag"} : "workflow" \in Env}
  /\ holds = {}
  /\ pc \in [Tasks -> {"none", "run"}]
  /\ on = [t \in Tasks |-> <<NoOp, "end">>]
  /\ woken = [t \in Tasks |-> "no"]
  /\ retry = [t \in Tasks |-> NoOp]
  /\ deadline = [t \in Tasks |-> 0]
  /\ last = [t \in Tasks |-> <<NoOp, "ok">>]
  /\ core = [o \in Ops |-> "none"]

-----------------------------------------------------------------------------
(* What the operations share                                               *)

Waiting(t) == pc[t] \in {"await", "condition"} /\ woken[t] = "no"
Running(t) == phase = "settle" /\ pc[t] = "run"
AtRest     == \A t \in Tasks : pc[t] \in {"none", "done"} \/ Waiting(t)

\* A new operation: its number, its events (added to those kept) and its command.
Issue(op, kept) ==
  /\ op \in Kinds \X (1..MaxSeq)
  /\ op[2] = seq[Counter(op[1])] + 1
  /\ seq' = [seq EXCEPT ![Counter(op[1])] = op[2]]
  /\ issued' = issued \cup {op}
  /\ pending' = kept \cup ({op} \X (IF op[1] = "child" THEN {"start", "end"}
                                                      ELSE {"end"}))
  /\ commands' = commands \cup {<<"start", op>>}

\* Trio raises Cancelled at an await in a cancelled scope.
Suspend(t, place, wait) ==
  /\ pc' = [pc EXCEPT ![t] = place]
  /\ on' = [on EXCEPT ![t] = wait]
  /\ woken' = [woken EXCEPT ![t] =
                IF cancelled = "scope" THEN "cancelled" ELSE "no"]
  /\ UNCHANGED last

\* The wait of t for op is over: it returns or raises.
Resume(t, op, outcome) ==
  /\ pc' = [pc EXCEPT ![t] = "run"]
  /\ on' = [on EXCEPT ![t] = <<NoOp, "end">>]
  /\ woken' = [woken EXCEPT ![t] = "no"]
  /\ retry' = [retry EXCEPT ![t] = NoOp]
  /\ deadline' = [deadline EXCEPT ![t] = 0]
  /\ last' = [last EXCEPT ![t] = <<op, outcome>>]

\* Mutant: one of the waiters is woken.
SetEventsMutant(waits) ==
  LET woke == {t \in Tasks : Waiting(t) /\ on[t] \in waits \cap pending}
  IN woken' = [t \in Tasks |-> IF woke # {} /\ t = (CHOOSE u \in woke : TRUE)
                               THEN "set" ELSE woken[t]]

\* pending_...[seq].set(), if there is one
SetEvents(waits) ==
  woken' = [t \in Tasks |-> IF Waiting(t) /\ on[t] \in waits \cap pending
                            THEN "set" ELSE woken[t]]

notify_condition_waiters ==
  woken' = [t \in Tasks |-> IF Waiting(t) /\ pc[t] = "condition"
                            THEN "set" ELSE woken[t]]

-----------------------------------------------------------------------------
(* Jobs of an activation                                                   *)

Activate ==
  /\ phase = "idle" /\ cancelled # "scope"
  /\ phase' = "apply"
  /\ time' \in time..MaxTime
  /\ UNCHANGED <<opVars, commands, cancelled, holds, taskVars, core>>

\* The jobs are applied; the coroutines run.
Settle ==
  /\ phase = "apply"
  /\ phase' = "settle"
  /\ UNCHANGED <<time, opVars, commands, cancelled, holds, taskVars, core>>

\* Mutant: the outcome is not stored.
ResolveMutant(op, state, outcome, waits) ==
  /\ phase = "apply" /\ core[op] = state
  /\ outcome \in {"ok"} \cup {o \in {"error", "backoff"} : o \in Env}
  /\ core' = [core EXCEPT ![op] = "closed"]
  /\ SetEvents(waits)
  /\ UNCHANGED <<phase, time, opVars, commands, cancelled, holds, pc, on,
                 retry, deadline, last>>

\* Core resolves op, and the job stores the outcome and sets the events.
Resolve(op, state, outcome, waits) ==
  /\ phase = "apply" /\ core[op] = state
  /\ outcome \in {"ok"} \cup {o \in {"error", "backoff"} : o \in Env}
  /\ core' = [core EXCEPT ![op] = "closed"]
  /\ completed' = [completed EXCEPT ![op] = outcome]
  /\ SetEvents(waits)
  /\ UNCHANGED <<phase, time, seq, issued, pending, started, handles, result,
                 commands, cancelled, holds, pc, on, retry, deadline, last>>

apply_timer_fired(op) ==
  /\ op[1] = "timer"
  /\ Resolve(op, "open", "ok", {<<op, "end">>})

apply_activity_resolved(op, outcome) ==
  /\ op[1] = "local" \/ (op[1] = "activity" /\ outcome # "backoff")
  /\ Resolve(op, "open", outcome, {<<op, "end">>})

apply_signal_external_resolved(op, outcome) ==
  /\ op[1] = "signal" /\ outcome # "backoff"
  /\ Resolve(op, "open", outcome, {<<op, "end">>})

apply_child_workflow_resolved(op, outcome) ==
  /\ op[1] = "child" /\ outcome # "backoff"
  /\ Resolve(op, "started", outcome, {<<op, "end">>})

apply_child_workflow_started(op) ==
  /\ op[1] = "child"
  /\ phase = "apply" /\ core[op] = "open"
  /\ core' = [core EXCEPT ![op] = "started"]
  /\ started' = started \cup {op}
  /\ SetEvents({<<op, "start">>})
  /\ UNCHANGED <<phase, time, seq, issued, pending, completed, handles,
                 result, commands, cancelled, holds, pc, on, retry, deadline,
                 last>>

apply_child_workflow_start_failed(op) ==
  /\ op[1] = "child" /\ {"nostart", "error"} \subseteq Env
  /\ Resolve(op, "open", "error", {op} \X {"start", "end"})

\* The loop over the jobs has no branch for a resolved external cancel.
CancelExternalResolved(op) ==
  /\ op[1] = "cancel"
  /\ phase = "apply" /\ core[op] = "open"
  /\ core' = [core EXCEPT ![op] = "closed"]
  /\ UNCHANGED <<phase, time, opVars, commands, cancelled, holds, taskVars>>

Answer(op) ==
  \/ apply_timer_fired(op)
  \/ \E outcome \in Outcomes \cup {"backoff"} :
       \/ apply_activity_resolved(op, outcome)
       \/ apply_signal_external_resolved(op, outcome)
       \/ apply_child_workflow_resolved(op, outcome)
  \/ apply_child_workflow_started(op)
  \/ apply_child_workflow_start_failed(op)
  \/ CancelExternalResolved(op)

\* Mutant: no notification.
ApplySignalMutant ==
  /\ "notify" \in Env
  /\ phase = "apply"
  /\ holds' \in SUBSET Conds
  /\ UNCHANGED <<phase, time, opVars, commands, cancelled, taskVars, core>>

\* A synchronous signal handler changes state.
ApplySignal ==
  /\ "notify" \in Env
  /\ phase = "apply"
  /\ holds' \in SUBSET Conds
  /\ notify_condition_waiters
  /\ UNCHANGED <<phase, time, opVars, commands, cancelled, pc, on, retry,
                 deadline, last, core>>

\* A coroutine handler of a signal or an update starts.
StartHandler(t) ==
  /\ phase = "apply" /\ pc[t] = "none"
  /\ pc' = [pc EXCEPT ![t] = "run"]
  /\ notify_condition_waiters
  /\ UNCHANGED <<phase, time, opVars, commands, cancelled, holds, on, retry,
                 deadline, last, core>>

\* Every wait whose event is not set yet raises Cancelled.
apply_cancel_workflow ==
  /\ "workflow" \in Env
  /\ phase = "apply"
  /\ cancelled' = "scope"
  /\ woken' = [t \in Tasks |-> IF Waiting(t) THEN "cancelled" ELSE woken[t]]
  /\ UNCHANGED <<phase, time, opVars, commands, holds, pc, on, retry, deadline,
                 last, core>>

\* Every coroutine waits: the commands go to Core.
Collect ==
  /\ phase = "settle" /\ AtRest
  /\ phase' = "idle"
  /\ core' = [o \in Ops |-> IF <<"start", o>> \in commands THEN "open" ELSE core[o]]
  /\ commands' = {}
  /\ UNCHANGED <<time, opVars, cancelled, holds, taskVars>>

-----------------------------------------------------------------------------
(* Calls of a running coroutine                                            *)

\* The four calls that issue a command and wait.
IssueAndWait(t, op) ==
  /\ Running(t)
  /\ Issue(op, pending)
  /\ Suspend(t, "await", <<op, IF op[1] = "child" THEN "start" ELSE "end">>)
  /\ UNCHANGED <<phase, time, completed, started, handles, result, cancelled,
                 holds, retry, deadline, core>>

workflow_sleep(t, op)                    == op[1] = "timer" /\ IssueAndWait(t, op)
workflow_start_child_workflow(t, op)     == op[1] = "child" /\ IssueAndWait(t, op)
workflow_signal_external_workflow(t, op) == op[1] = "signal" /\ IssueAndWait(t, op)
workflow_cancel_external_workflow(t, op) == op[1] = "cancel" /\ IssueAndWait(t, op)

\* The two calls that issue a command and return a handle at once.
StartActivity(t, op) ==
  /\ Running(t)
  /\ Issue(op, pending)
  /\ UNCHANGED <<phase, time, completed, started, handles, result, cancelled,
                 holds, taskVars, core>>

workflow_start_activity(t, op)       == op[1] = "activity" /\ StartActivity(t, op)
workflow_start_local_activity(t, op) == op[1] = "local" /\ StartActivity(t, op)

\* Those that start an activity and await its handle, which has not ended yet.
execute_activity(t, op)       == op[1] = "activity" /\ IssueAndWait(t, op)
execute_local_activity(t, op) == op[1] = "local" /\ IssueAndWait(t, op)

\* After a backoff: looks for the command of the activity in the commands of
\* this activation.  kept: the events that stay.
Reschedule(t, old, kept) ==
  IF <<"start", old>> \in commands
  THEN \E op \in {"local"} \X (1..MaxSeq) :
         /\ Issue(op, kept)
         /\ Suspend(t, "await", <<op, "end">>)
         /\ retry' = [retry EXCEPT ![t] = NoOp]
         /\ UNCHANGED deadline
  ELSE /\ Resume(t, old, "internal")
       /\ pending' = kept
       /\ UNCHANGED <<seq, issued, commands>>

\* The timer of a backoff, if it has a duration, then the new attempt.
_handle_activity_backoff(t, old, kept) ==
  \/ \E op \in {"timer"} \X (1..MaxSeq) :
       /\ Issue(op, kept)
       /\ Suspend(t, "await", <<op, "end">>)
       /\ retry' = [retry EXCEPT ![t] = old]
       /\ UNCHANGED deadline
  \/ Reschedule(t, old, kept)

ReturnOrBackOff(t, op, kept) ==
  IF completed[op] = "backoff"
  THEN _handle_activity_backoff(t, op, kept)
  ELSE /\ Resume(t, op, completed[op])
       /\ pending' = kept
       /\ UNCHANGED <<seq, issued, commands>>

workflow_wait_activity(t, op) ==
  /\ Running(t)
  /\ op \in issued /\ op[1] \in {"activity", "local"}
  /\ \/ /\ completed[op] # "no"
        /\ ReturnOrBackOff(t, op, pending)
     \/ /\ completed[op] = "no"
        /\ pending' = pending \cup {<<op, "end">>}
        /\ Suspend(t, "await", <<op, "end">>)
        /\ UNCHANGED <<seq, issued, commands, retry, deadline>>
  /\ UNCHANGED <<phase, time, completed, started, handles, result, cancelled,
                 holds, core>>

\* Mutant: cancels an activity that has completed.
CancelActivityMutant(t, op) ==
  /\ Running(t)
  /\ op \in issued /\ op[1] \in {"activity", "local"}
  /\ commands' = commands \cup {<<"cancel", op>>}
  /\ UNCHANGED <<phase, time, opVars, cancelled, holds, taskVars, core>>

\* ActivityHandle.cancel
CancelActivity(t, op) ==
  /\ Running(t)
  /\ op \in issued /\ op[1] \in {"activity", "local"}
  /\ completed[op] = "no"
  /\ commands' = commands \cup {<<"cancel", op>>}
  /\ UNCHANGED <<phase, time, opVars, cancelled, holds, taskVars, core>>

\* ChildWorkflowHandle.cancel
CancelChild(t, op) ==
  /\ Running(t)
  /\ op \in handles
  /\ result[op] = "no"
  /\ commands' = commands \cup {<<"cancel", op>>}
  /\ UNCHANGED <<phase, time, opVars, cancelled, holds, taskVars, core>>

\* Mutant: waits without a look at completed_children.
AwaitChildMutant(t, op) ==
  /\ Running(t)
  /\ op \in handles
  /\ result[op] = "no"
  /\ \A u \in Tasks : on[u] # <<op, "end">>
  /\ Suspend(t, "await", <<op, "end">>)
  /\ UNCHANGED <<phase, time, opVars, commands, cancelled, holds, retry,
                 deadline, core>>

\* ChildWorkflowHandle.result
AwaitChild(t, op) ==
  /\ Running(t)
  /\ op \in handles
  /\ "share" \in Env \/ \A u \in Tasks : on[u] # <<op, "end">>
  /\ \/ /\ result[op] # "no"
        /\ Resume(t, op, result[op])
        /\ UNCHANGED result
     \/ /\ result[op] = "no" /\ completed[op] # "no"
        /\ Resume(t, op, completed[op])
        /\ result' = [result EXCEPT ![op] = completed[op]]
     \/ /\ result[op] = "no" /\ completed[op] = "no"
        /\ IF <<op, "end">> \in pending
           THEN /\ Suspend(t, "await", <<op, "end">>)
                /\ UNCHANGED <<retry, deadline, result>>
           ELSE /\ Resume(t, op, "internal")
                /\ result' = [result EXCEPT ![op] = "internal"]
  /\ UNCHANGED <<phase, time, seq, issued, pending, completed, started,
                 commands, handles, cancelled, holds, core>>

\* A wait for a condition that does not hold.  A timeout of 0 is none.
workflow_wait_condition(t, c, until) ==
  /\ Running(t)
  /\ c \notin holds
  /\ until \in {0} \cup (time + 1)..MaxTime
  /\ (IF until = 0 THEN "condition" ELSE "timeout") \in Env
  /\ Suspend(t, "condition", <<c, "end">>)
  /\ deadline' = [deadline EXCEPT ![t] = until]
  /\ UNCHANGED <<phase, time, opVars, commands, cancelled, holds, retry,
                 core>>

ChangeState(t) ==
  /\ "change" \in Env
  /\ Running(t)
  /\ holds' \in SUBSET Conds
  /\ UNCHANGED <<phase, time, opVars, commands, cancelled, taskVars, core>>

CancelScope(t) ==
  /\ "scope" \in Env
  /\ Running(t)
  /\ \E u \in Tasks : Waiting(u) /\ woken' = [woken EXCEPT ![u] = "cancelled"]
  /\ UNCHANGED <<phase, time, opVars, commands, cancelled, holds, pc, on,
                 retry, deadline, last, core>>

End(t) ==
  /\ Running(t)
  /\ pc' = [pc EXCEPT ![t] = "done"]
  /\ IF t \in Notifying THEN notify_condition_waiters ELSE UNCHANGED woken
  /\ UNCHANGED <<phase, time, opVars, commands, cancelled, holds, on, retry,
                 deadline, last, core>>

-----------------------------------------------------------------------------
(* A coroutine whose event was set goes on                                 *)

Woken(t, kinds) ==
  /\ phase = "settle"
  /\ pc[t] = "await" /\ woken[t] = "set" /\ on[t][1][1] \in kinds

WakeTimer(t) ==
  LET op == on[t][1]
      kept == pending \ {<<op, "end">>}
  IN /\ Woken(t, {"timer"})
     /\ \/ /\ retry[t] = NoOp \/ cancelled # "no"
           /\ pending' = kept
           /\ Resume(t, op, IF cancelled # "no" THEN "cancelled" ELSE "ok")
           /\ UNCHANGED <<seq, issued, commands>>
        \/ /\ retry[t] # NoOp /\ cancelled = "no"
           /\ Reschedule(t, retry[t], kept)
     /\ UNCHANGED <<phase, time, completed, started, handles, result,
                    cancelled, holds, core>>

WakeActivity(t) ==
  LET op == on[t][1]
      kept == pending \ {<<op, "end">>}
  IN /\ Woken(t, {"activity", "local"})
     /\ \/ /\ cancelled # "no"
           /\ pending' = kept
           /\ Resume(t, op, "cancelled")
           /\ UNCHANGED <<seq, issued, commands>>
        \/ cancelled = "no" /\ ReturnOrBackOff(t, op, kept)
     /\ UNCHANGED <<phase, time, completed, started, handles, result,
                    cancelled, holds, core>>

\* The entries of external operations stay in their dictionaries.
WakeExternal(t) ==
  /\ Woken(t, {"signal", "cancel"})
  /\ Resume(t, on[t][1], completed[on[t][1]])
  /\ UNCHANGED <<phase, time, opVars, commands, cancelled, holds, core>>

\* Mutant: removes the event for the completion.
WakeChildStartMutant(t) ==
  LET op == on[t][1]
  IN /\ Woken(t, {"child"}) /\ on[t][2] = "start"
     /\ op \in started
     /\ handles' = handles \cup {op}
     /\ pending' = pending \ {<<op, "end">>}
     /\ Resume(t, op, "ok")
     /\ UNCHANGED <<phase, time, seq, issued, completed, started, result,
                    commands, cancelled, holds, core>>

\* started_children[seq] raises KeyError for a child that did not start.
WakeChildStart(t) ==
  LET op == on[t][1]
  IN /\ Woken(t, {"child"}) /\ on[t][2] = "start"
     /\ IF op \in started
        THEN /\ handles' = handles \cup {op}
             /\ pending' = pending \ {<<op, "start">>}
             /\ Resume(t, op, "ok")
        ELSE /\ Resume(t, op, "internal")
             /\ UNCHANGED <<handles, pending>>
     /\ UNCHANGED <<phase, time, seq, issued, completed, started, result,
                    commands, cancelled, holds, core>>

\* del pending_children[seq] raises KeyError for the second of two waiters.
WakeChildEnd(t) ==
  LET op == on[t][1]
      outcome == IF <<op, "end">> \in pending THEN completed[op] ELSE "internal"
  IN /\ Woken(t, {"child"}) /\ on[t][2] = "end"
     /\ pending' = pending \ {<<op, "end">>}
     /\ result' = [result EXCEPT ![op] = outcome]
     /\ Resume(t, op, outcome)
     /\ UNCHANGED <<phase, time, seq, issued, completed, started, handles,
                    commands, cancelled, holds, core>>

\* Checks the timeout, then the condition, else waits again.
WakeCondition(t) ==
  LET c == on[t][1]
      late == deadline[t] # 0 /\ time >= deadline[t]
  IN /\ phase = "settle" /\ pc[t] = "condition" /\ woken[t] = "set"
     /\ \/ late /\ Resume(t, c, "timeout")
        \/ ~late /\ c \in holds /\ Resume(t, c, "ok")
        \/ /\ ~late /\ c \notin holds
           /\ Suspend(t, "condition", on[t])
           /\ UNCHANGED <<retry, deadline>>
     /\ UNCHANGED <<phase, time, opVars, commands, cancelled, holds, core>>

\* Cancelled is raised.  A wait for a child has Core cancel it; the handle of
\* the child keeps the exception as its result.
RaiseCancelled(t) ==
  LET op == on[t][1]
      children == {op} \cap ({"child"} \X (1..MaxSeq))
  IN /\ phase = "settle" /\ woken[t] = "cancelled"
     /\ commands' = commands \cup ({"cancel"} \X children)
     /\ result' = IF on[t] \in children \X {"end"}
                  THEN [result EXCEPT ![op] = "cancelled"] ELSE result
     /\ Resume(t, op, "cancelled")
     /\ UNCHANGED <<phase, time, seq, issued, pending, completed, started,
                    handles, cancelled, holds, core>>

Wake(t) ==
  \/ WakeTimer(t) \/ WakeActivity(t) \/ WakeExternal(t)
  \/ WakeChildStart(t) \/ WakeChildEnd(t) \/ WakeCondition(t)
  \/ RaiseCancelled(t)

\* Calls after which the coroutine runs on, and those that may make it wait.
Call(t) ==
  \/ \E op \in Ops : \/ workflow_start_activity(t, op)
                     \/ workflow_start_local_activity(t, op)
                     \/ CancelActivity(t, op) \/ CancelChild(t, op)
  \/ ChangeState(t) \/ CancelScope(t)
Wait(t) ==
  \/ \E op \in Ops : \/ workflow_sleep(t, op) \/ workflow_start_child_workflow(t, op)
                     \/ workflow_signal_external_workflow(t, op)
                     \/ workflow_cancel_external_workflow(t, op)
                     \/ execute_activity(t, op) \/ execute_local_activity(t, op)
                     \/ workflow_wait_activity(t, op) \/ AwaitChild(t, op)
  \/ \E c \in Conds, until \in 0..MaxTime : workflow_wait_condition(t, c, until)

Next ==
  \/ Activate \/ Settle \/ Collect
  \/ \E op \in Ops : Answer(op)
  \/ ApplySignal \/ apply_cancel_workflow
  \/ \E t \in Tasks : StartHandler(t) \/ Call(t) \/ Wait(t) \/ End(t) \/ Wake(t)

Spec == Init /\ [][Next]_vars

Stop(t) == (Wait(t) \/ End(t)) /\ pc'[t] # "run"

\* Trio runs every runnable coroutine, a coroutine ends or waits at last, and
\* Core ends every operation: timers fire, activities have a timeout (one is
\* required), and the children and workflows that the run addresses answer.
Fairness ==
  /\ WF_vars(Activate) /\ WF_vars(Settle) /\ WF_vars(Collect)
  /\ \A t \in Tasks : WF_vars(Wake(t)) /\ WF_vars(Stop(t))
  /\ \A op \in Ops : SF_vars(Answer(op))
FairSpec == Spec /\ Fairness
-----------------------------------------------------------------------------
(* Properties                                                              *)

\* Whoever waits for an operation waits for something: its command is about to
\* go to Core, or Core still has to answer it.  Sets of events, jobs applied
\* before anyone waits, and handles awaited late or by several coroutines must
\* all agree for this to hold.
WaitersServed ==
  \A t \in Tasks : pc[t] = "await" /\ Waiting(t) =>
    LET op == on[t][1]
    IN \/ <<"start", op>> \in commands
       \/ core[op] = "open"
       \/ core[op] = "started" /\ on[t][2] = "end"

\* "Only sends a cancel command if the activity has not already completed":
\* with jobs applied while coroutines wait, none is under way for an activity
\* whose result is known, nor for one that Core does not know or is not about to.
CancelsLiveActivities ==
  \A op \in Ops : op[1] \in {"activity", "local"} /\ <<"cancel", op>> \in commands =>
    /\ completed[op] = "no"
    /\ <<"start", op>> \in commands \/ core[op] = "open"

\* No wait ends in an error of the runtime's own bookkeeping (a KeyError for a
\* missing entry, a RuntimeError for a missing command).
NoInternalError == \A t \in Tasks : last[t][2] # "internal"

\* When every coroutine waits, none waits for a condition that holds: each
\* change of state is followed by a notification of those who wait by then.
ConditionsSeen ==
  AtRest /\ phase = "settle" =>
    \A t \in Tasks : Waiting(t) /\ pc[t] = "condition" => on[t][1] \notin holds

\* Every wait for an operation ends, but for that for the cancel of an external
\* workflow: the loop over the jobs passes its resolution over.
WaitsEnd ==
  \A t \in Tasks : pc[t] = "await" /\ on[t][1][1] # "cancel" ~> pc[t] # "await"
=============================================================================
