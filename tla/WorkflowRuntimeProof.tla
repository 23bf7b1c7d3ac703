------------------------ MODULE WorkflowRuntimeProof ------------------------
(***************************************************************************)
(* What holds of a run's waits for any coroutines, operations, bounds and  *)
(* surroundings: types, that every wait is served, which cancels are sent, *)
(* that a condition that holds is noticed, what handles of children keep,  *)
(* and that no wait ends in an error of the runtime itself.                *)
(***************************************************************************)
EXTENDS WorkflowRuntime, TLAPS

-----------------------------------------------------------------------------
(* The invariant                                                           *)

\* An operation is new, on its way, open, a started child, or over.  (What
\* becomes of external cancels is not recorded.)
OpState(op) ==
  \/ /\ op \notin issued /\ <<"start", op>> \notin commands
     /\ core[op] = "none" /\ completed[op] = "no" /\ op \notin started
  \/ /\ op \in issued /\ <<"start", op>> \in commands
     /\ core[op] = "none" /\ completed[op] = "no" /\ op \notin started
  \/ /\ op \in issued /\ <<"start", op>> \notin commands
     /\ core[op] = "open" /\ completed[op] = "no" /\ op \notin started
  \/ /\ op \in issued /\ <<"start", op>> \notin commands /\ op[1] = "child"
     /\ core[op] = "started" /\ completed[op] = "no" /\ op \in started
  \/ /\ op \in issued /\ <<"start", op>> \notin commands
     /\ core[op] = "closed" /\ completed[op] # "no"

OpStates ==
  /\ \A op \in Ops : op[1] # "cancel" => OpState(op)
  /\ \A op \in Ops : op[1] = "cancel" => completed[op] = "no"
  /\ \A op \in Ops : completed[op] = "backoff" => op[1] = "local"
  /\ \A op \in started : op[1] = "child"
  /\ handles \subseteq started

\* Numbers above the counter are not used; the list of commands is empty while
\* jobs are applied; a cancel under way is for an activity without a result.
Commanded ==
  /\ \A op \in Ops : op[2] > seq[Counter(op[1])] => op \notin issued
  /\ phase # "settle" => commands = {}
  /\ \A op \in Ops : op[1] \in {"activity", "local"} /\ <<"cancel", op>> \in commands =>
       op \in issued /\ completed[op] = "no"

\* Who waits unwoken has an event to wait for, and no result is known yet; who
\* was woken has one.
WaitState(t) ==
  pc[t] = "await" =>
    LET op == on[t][1]
    IN /\ on[t] \in Waits /\ op \in issued
       /\ on[t][2] = "start" => op[1] = "child"
       /\ on[t][2] = "end" /\ op[1] = "child" => op \in started
       /\ woken[t] = "no" => /\ on[t] \in pending /\ completed[op] = "no"
                             /\ on[t][2] = "start" => op \notin started
       /\ woken[t] = "set" => \/ completed[op] # "no"
                              \/ on[t][2] = "start" /\ op \in started

WaitStates ==
  /\ \A t \in Tasks : WaitState(t)
  /\ \A t \in Tasks : woken[t] # "no" => pc[t] \in {"await", "condition"}

RuntimeInv == TypeOK /\ OpStates /\ Commanded /\ WaitStates

\* The initial states satisfy it.
LEMMA RuntimeInit == Init => RuntimeInv
<1> SUFFICES ASSUME Init PROVE RuntimeInv
  OBVIOUS
<1>1. TypeOK
  <2>1. /\ phase \in {"idle", "apply", "settle"} /\ time \in 0..MaxTime
        /\ seq \in [OpKinds -> 0..MaxSeq] /\ deadline \in [Tasks -> 0..MaxTime]
    BY RuntimeAssumption DEF Init
  <2>2. /\ issued \subseteq Ops /\ pending \subseteq Waits /\ started \subseteq Ops
        /\ handles \subseteq Ops /\ holds \subseteq Conds
        /\ commands \subseteq {"start", "cancel"} \X Ops
        /\ cancelled \in {"no", "flag", "scope"}
        /\ completed \in [Ops -> {"no", "backoff"} \cup Outcomes]
        /\ result \in [Ops -> {"no", "cancelled", "internal"} \cup Outcomes]
        /\ core \in [Ops -> {"none", "open", "started", "closed"}]
    BY DEF Init
  <2>3. /\ pc \in [Tasks -> {"none", "run", "await", "condition", "done"}]
        /\ woken \in [Tasks -> {"no", "set", "cancelled"}]
        /\ retry \in [Tasks -> Ops \cup {NoOp}]
    BY DEF Init
  <2>4. /\ on \in [Tasks -> (Ops \cup Conds \cup {NoOp}) \X {"start", "end"}]
        /\ last \in [Tasks -> (Ops \cup Conds \cup {NoOp}) \X
                        ({"cancelled", "internal", "timeout"} \cup Outcomes)]
    BY DEF Init, Outcomes
  <2> QED
    BY <2>1, <2>2, <2>3, <2>4 DEF TypeOK
<1>2. OpStates /\ Commanded /\ WaitStates
  BY DEF Init, OpStates, OpState, Commanded, WaitStates, WaitState
<1> QED
  BY <1>1, <1>2 DEF RuntimeInv

-----------------------------------------------------------------------------
(* The helpers                                                             *)

\* A new operation has an unused number.
LEMMA IssueKeeps ==
  ASSUME RuntimeInv, NEW op, NEW kept \in SUBSET Waits, Issue(op, kept),
         phase = "settle", UNCHANGED <<phase, completed, started, handles, core>>
  PROVE  /\ op \in Ops /\ op \notin issued /\ op \in issued'
         /\ completed[op] = "no"
         /\ op[1] # "cancel" => op \notin started
         /\ issued \subseteq issued' /\ issued' \subseteq Ops
         /\ seq' \in [OpKinds -> 0..MaxSeq]
         /\ pending' \subseteq Waits /\ kept \subseteq pending'
         /\ <<op, "end">> \in pending'
         /\ op[1] = "child" => <<op, "start">> \in pending'
         /\ commands' \subseteq {"start", "cancel"} \X Ops
         /\ OpStates' /\ Commanded'
<1> USE RuntimeAssumption DEF RuntimeInv, TypeOK
<1>1. op \in Ops /\ op[1] \in OpKinds /\ op[2] \in 1..MaxSeq
  BY DEF Issue, Ops, OpKinds
<1>2. Counter(op[1]) \in OpKinds
  BY <1>1 DEF Counter, OpKinds
<1>3. op[2] > seq[Counter(op[1])]
  BY <1>1, <1>2 DEF Issue
<1>4. op \notin issued
  BY <1>1, <1>3 DEF Commanded
<1>5. completed[op] = "no"
  BY <1>1, <1>4 DEF OpStates, OpState
<1>6. op[1] # "cancel" => op \notin started
  BY <1>1, <1>4 DEF OpStates, OpState
<1>7. /\ issued \subseteq issued' /\ issued' \subseteq Ops /\ op \in issued'
      /\ seq' \in [OpKinds -> 0..MaxSeq]
      /\ commands' \subseteq {"start", "cancel"} \X Ops
  BY <1>1, <1>2 DEF Issue
<1>8. /\ pending' \subseteq Waits /\ kept \subseteq pending'
      /\ <<op, "end">> \in pending'
      /\ op[1] = "child" => <<op, "start">> \in pending'
  BY <1>1 DEF Issue, Waits
<1>9. OpStates'
  <2>1. ASSUME NEW q \in Ops, q[1] # "cancel" PROVE OpState(q)'
    BY <1>1, <1>4, <1>5, <1>6, <2>1 DEF Issue, OpStates, OpState
  <2> QED
    BY <2>1 DEF OpStates
<1>10. Commanded'
  <2>1. ASSUME NEW q \in Ops, q[2] > seq'[Counter(q[1])] PROVE q \notin issued'
    <3>1. Counter(q[1]) \in OpKinds
      BY DEF Counter, Ops, OpKinds
    <3>2. q[2] > seq[Counter(q[1])] /\ q # op
      BY <1>1, <1>2, <1>3, <2>1, <3>1 DEF Issue, Ops
    <3> QED
      BY <3>2 DEF Commanded, Issue
  <2>2. \A q \in Ops : <<"cancel", q>> \in commands' => <<"cancel", q>> \in commands
    BY DEF Issue
  <2> QED
    BY <1>7, <2>1, <2>2 DEF Commanded
<1> QED
  BY <1>1, <1>4, <1>5, <1>6, <1>7, <1>8, <1>9, <1>10

\* A resolution wakes whoever waits for it and nobody else.
LEMMA ResolveKeeps ==
  ASSUME RuntimeInv, NEW op \in Ops, NEW state \in {"open", "started"},
         NEW outcome, NEW waits,
         op[1] # "cancel", outcome = "backoff" => op[1] = "local",
         <<op, "end">> \in waits,
         op[1] = "child" /\ state = "open" => <<op, "start">> \in waits,
         waits \subseteq {op} \X {"start", "end"},
         Resolve(op, state, outcome, waits)
  PROVE  RuntimeInv'
<1> USE DEF RuntimeInv
<1>1. /\ outcome \in {"error", "backoff", "ok"}
      /\ core' = [core EXCEPT ![op] = "closed"]
      /\ completed' = [completed EXCEPT ![op] = outcome]
      /\ commands = {} /\ commands' = {} /\ core[op] = state
      /\ UNCHANGED <<phase, time, seq, issued, pending, started, handles, result,
                     cancelled, holds, pc, on, retry, deadline, last>>
  BY DEF Resolve, Commanded
<1>2. woken' = [t \in Tasks |-> IF Waiting(t) /\ on[t] \in waits \cap pending
                                THEN "set" ELSE woken[t]]
  BY DEF Resolve, SetEvents
<1>3. TypeOK'
  BY <1>1, <1>2 DEF TypeOK, Outcomes
<1>4. op \in issued /\ completed[op] = "no" /\ (state = "started" => op \in started)
  BY <1>1 DEF OpStates, OpState
<1>5. /\ completed'[op] # "no" /\ core'[op] = "closed"
      /\ completed'[op] = outcome
      /\ \A r \in Ops \ {op} : completed'[r] = completed[r] /\ core'[r] = core[r]
  BY <1>1, <1>3 DEF TypeOK
<1>6. OpStates'
  <2>1. ASSUME NEW q \in Ops, q[1] # "cancel" PROVE OpState(q)'
    <3>1. CASE q = op
      BY <1>1, <1>4, <1>5, <3>1 DEF OpState
    <3>2. CASE q # op
      BY <1>1, <1>5, <2>1, <3>2 DEF OpState, OpStates
    <3> QED
      BY <3>1, <3>2
  <2> QED
    BY <1>1, <1>5, <2>1 DEF OpStates
<1>7. Commanded'
  BY <1>1 DEF Commanded
<1>8. WaitStates'
  <2>1. ASSUME NEW t \in Tasks PROVE WaitState(t)'
    <3>1. CASE pc[t] = "await" /\ on[t][1] = op
      <4>1. on[t] \in Waits /\ on[t] \in {<<op, "start">>, <<op, "end">>}
        BY <3>1 DEF WaitStates, WaitState, Waits
      <4>2. completed'[op] # "no" /\ woken'[t] # "no"
        BY <1>1, <1>2, <1>4, <1>5, <3>1, <4>1
        DEF WaitStates, WaitState, Waiting, OpStates, OpState
      <4> QED
        BY <1>1, <1>4, <3>1, <4>1, <4>2 DEF WaitStates, WaitState
    <3>2. CASE pc[t] = "await" /\ on[t][1] # op
      BY <1>1, <1>2, <1>5, <2>1, <3>2
      DEF WaitStates, WaitState, Waiting, Waits, TypeOK
    <3> QED
      BY <1>1, <3>1, <3>2 DEF WaitState
  <2>2. \A t \in Tasks : woken'[t] # "no" => pc'[t] \in {"await", "condition"}
    BY <1>1, <1>2 DEF WaitStates, Waiting
  <2> QED
    BY <2>1, <2>2 DEF WaitStates
<1> QED
  BY <1>3, <1>6, <1>7, <1>8

\* The jobs of an activation preserve the invariant.
LEMMA AnswerKeeps == ASSUME RuntimeInv, NEW op \in Ops, Answer(op) PROVE RuntimeInv'
<1>1. CASE apply_timer_fired(op)
  <2>1. op[1] = "timer" /\ Resolve(op, "open", "ok", {<<op, "end">>})
    BY <1>1 DEF apply_timer_fired
  <2>2. {<<op, "end">>} \subseteq {op} \X {"start", "end"}
    OBVIOUS
  <2> QED
    BY <2>1, <2>2, ResolveKeeps
<1>2. ASSUME NEW outcome \in Outcomes \cup {"backoff"}, apply_activity_resolved(op, outcome)
      PROVE  RuntimeInv'
  <2>1. /\ op[1] \in {"activity", "local", "signal"} /\ (outcome = "backoff" => op[1] = "local")
        /\ Resolve(op, "open", outcome, {<<op, "end">>})
    BY <1>2 DEF apply_activity_resolved
  <2>2. {<<op, "end">>} \subseteq {op} \X {"start", "end"}
    OBVIOUS
  <2> QED
    BY <2>1, <2>2, ResolveKeeps
<1>3. ASSUME NEW outcome \in Outcomes \cup {"backoff"},
             apply_signal_external_resolved(op, outcome)
      PROVE  RuntimeInv'
  <2>1. /\ op[1] \in {"activity", "local", "signal"} /\ (outcome = "backoff" => op[1] = "local")
        /\ Resolve(op, "open", outcome, {<<op, "end">>})
    BY <1>3 DEF apply_signal_external_resolved
  <2>2. {<<op, "end">>} \subseteq {op} \X {"start", "end"}
    OBVIOUS
  <2> QED
    BY <2>1, <2>2, ResolveKeeps
<1>4. ASSUME NEW outcome \in Outcomes \cup {"backoff"},
             apply_child_workflow_resolved(op, outcome)
      PROVE  RuntimeInv'
  <2>1. /\ op[1] = "child" /\ outcome # "backoff"
        /\ Resolve(op, "started", outcome, {<<op, "end">>})
    BY <1>4 DEF apply_child_workflow_resolved
  <2>2. {<<op, "end">>} \subseteq {op} \X {"start", "end"}
    OBVIOUS
  <2> QED
    BY <2>1, <2>2, ResolveKeeps
<1>5. CASE apply_child_workflow_start_failed(op)
  <2>1. op[1] = "child" /\ Resolve(op, "open", "error", {op} \X {"start", "end"})
    BY <1>5 DEF apply_child_workflow_start_failed
  <2>2. DEFINE waits == {op} \X {"start", "end"}
  <2>3. <<op, "end">> \in waits /\ <<op, "start">> \in waits
    OBVIOUS
  <2>4. Resolve(op, "open", "error", waits) /\ "error" # "backoff" /\ waits \subseteq waits
    BY <2>1
  <2> HIDE DEF waits
  <2> QED
    BY <2>1, <2>3, <2>4, ResolveKeeps DEF waits
<1>6. CASE apply_child_workflow_started(op)
  <2> USE <1>6 DEF RuntimeInv
  <2>1. /\ op[1] = "child" /\ core[op] = "open"
        /\ core' = [core EXCEPT ![op] = "started"]
        /\ started' = started \cup {op}
        /\ commands = {} /\ commands' = {}
        /\ UNCHANGED <<phase, time, seq, issued, pending, completed, handles, result,
                       cancelled, holds, pc, on, retry, deadline, last>>
        /\ woken' = [t \in Tasks |-> IF Waiting(t) /\ on[t] \in {<<op, "start">>} \cap pending
                                     THEN "set" ELSE woken[t]]
    BY DEF apply_child_workflow_started, SetEvents, Commanded
  <2>2. TypeOK'
    BY <2>1 DEF TypeOK
  <2>3. OpStates'
    <3>1. ASSUME NEW q \in Ops, q[1] # "cancel" PROVE OpState(q)'
      BY <2>1, <3>1 DEF OpState, OpStates, TypeOK
    <3> QED
      BY <2>1, <3>1 DEF OpStates
  <2>4. Commanded'
    BY <2>1 DEF Commanded
  <2>5. ASSUME NEW t \in Tasks PROVE WaitState(t)'
    BY <2>1 DEF WaitStates, WaitState, Waiting, Waits, TypeOK
  <2> QED
    BY <2>1, <2>2, <2>3, <2>4, <2>5 DEF WaitStates, Waiting
<1>7. CASE CancelExternalResolved(op)
  <2> USE <1>7 DEF RuntimeInv
  <2>1. /\ op[1] = "cancel"
        /\ core' = [core EXCEPT ![op] = "closed"]
        /\ UNCHANGED <<phase, time, opVars, commands, cancelled, holds,
                       taskVars>>
    BY DEF CancelExternalResolved
  <2>2. TypeOK'
    BY <2>1 DEF TypeOK, opVars, taskVars
  <2>3. OpStates' /\ Commanded' /\ WaitStates'
    BY <2>1 DEF OpStates, OpState, Commanded, WaitStates, WaitState, opVars, taskVars,
                TypeOK
  <2> QED
    BY <2>2, <2>3
<1> QED
  BY <1>1, <1>2, <1>3, <1>4, <1>5, <1>6, <1>7 DEF Answer

\* What a coroutine may await, and how its wait may end.
Places == Ops \cup Conds \cup {NoOp}
Endings == {"cancelled", "internal", "timeout"} \cup Outcomes

\* The types of the coroutines' state.
TasksOK ==
  /\ pc \in [Tasks -> {"none", "run", "await", "condition", "done"}]
  /\ on \in [Tasks -> Places \X {"start", "end"}]
  /\ woken \in [Tasks -> {"no", "set", "cancelled"}]
  /\ retry \in [Tasks -> Ops \cup {NoOp}]
  /\ deadline \in [Tasks -> 0..MaxTime]
  /\ last \in [Tasks -> Places \X Endings]

\* The events of the others stay: who waits unwoken still has its own.
OthersKept(t, kept) ==
  \A u \in Tasks \ {t} : pc[u] = "await" /\ woken[u] = "no" => on[u] \in kept

\* A wait that ends disturbs no other wait.
LEMMA ResumeKeeps ==
  ASSUME RuntimeInv, NEW t \in Tasks, NEW op \in Places, NEW outcome \in Endings,
         Resume(t, op, outcome), OthersKept(t, pending'),
         issued \subseteq issued', UNCHANGED <<completed, started>>
  PROVE  WaitStates' /\ TasksOK'
<1> USE DEF RuntimeInv, Resume
<1>1. TasksOK'
  BY RuntimeAssumption DEF TypeOK, TasksOK, Places, Endings
<1>2. ASSUME NEW u \in Tasks PROVE WaitState(u)'
  BY DEF WaitStates, WaitState, OthersKept, TypeOK
<1>3. \A u \in Tasks : woken'[u] # "no" => pc'[u] \in {"await", "condition"}
  BY DEF WaitStates, TypeOK
<1> QED
  BY <1>1, <1>2, <1>3 DEF WaitStates

\* Nor does one that begins, for an operation whose event is there.
LEMMA SuspendKeeps ==
  ASSUME RuntimeInv, NEW t \in Tasks, NEW place \in {"await", "condition"},
         NEW wait \in Places \X {"start", "end"},
         Suspend(t, place, wait), OthersKept(t, pending'),
         issued \subseteq issued', UNCHANGED <<completed, started>>,
         place = "await" => /\ wait \in Waits /\ wait[1] \in issued' /\ wait \in pending'
                            /\ completed[wait[1]] = "no"
                            /\ wait[2] = "start" => wait[1][1] = "child" /\ wait[1] \notin started
                            /\ wait[2] = "end" /\ wait[1][1] = "child" => wait[1] \in started
  PROVE  /\ WaitStates'
         /\ UNCHANGED <<retry, deadline>> => TasksOK'
         /\ pc' \in [Tasks -> {"none", "run", "await", "condition", "done"}]
         /\ on' \in [Tasks -> Places \X {"start", "end"}]
         /\ woken' \in [Tasks -> {"no", "set", "cancelled"}]
         /\ last' = last
<1> USE DEF RuntimeInv, Suspend
<1>1. /\ pc' \in [Tasks -> {"none", "run", "await", "condition", "done"}]
      /\ on' \in [Tasks -> Places \X {"start", "end"}]
      /\ woken' \in [Tasks -> {"no", "set", "cancelled"}]
      /\ last' = last
  BY DEF TypeOK, Places
<1>2. UNCHANGED <<retry, deadline>> => TasksOK'
  BY <1>1 DEF TypeOK, TasksOK, Places, Endings
<1>3. ASSUME NEW u \in Tasks PROVE WaitState(u)'
  BY DEF WaitStates, WaitState, OthersKept, TypeOK
<1>4. \A u \in Tasks : woken'[u] # "no" => pc'[u] \in {"await", "condition"}
  BY DEF WaitStates, TypeOK
<1> QED
  BY <1>1, <1>2, <1>3, <1>4 DEF WaitStates

\* Coroutines that are only woken, and for a reason, keep the invariant.
LEMMA WokenKeeps ==
  ASSUME RuntimeInv, woken' \in [Tasks -> {"no", "set", "cancelled"}],
         \A t \in Tasks : woken'[t] # woken[t] =>
           Waiting(t) /\ (woken'[t] = "cancelled" \/ pc[t] = "condition"),
         UNCHANGED <<issued, pending, completed, started, pc, on>>
  PROVE  WaitStates'
<1> USE DEF RuntimeInv, WaitStates, Waiting, TypeOK
<1>1. ASSUME NEW t \in Tasks PROVE WaitState(t)'
  BY DEF WaitState
<1> QED
  BY <1>1

-----------------------------------------------------------------------------
(* Activations                                                             *)

\* Starting to apply an activation, and letting the coroutines run.
LEMMA PhaseKeeps == ASSUME RuntimeInv, Activate \/ Settle PROVE RuntimeInv'
<1> USE DEF RuntimeInv
<1>1. /\ phase' \in {"idle", "apply", "settle"} /\ time' \in 0..MaxTime
      /\ phase # "settle"
      /\ UNCHANGED <<opVars, commands, cancelled, holds, taskVars, core>>
  BY RuntimeAssumption DEF Activate, Settle, TypeOK
<1>2. TypeOK'
  BY <1>1 DEF TypeOK, opVars, taskVars
<1>3. OpStates' /\ WaitStates'
  BY <1>1 DEF OpStates, OpState, WaitStates, WaitState, opVars, taskVars
<1>4. Commanded'
  BY <1>1 DEF Commanded, opVars
<1> QED
  BY <1>2, <1>3, <1>4

\* The commands reach Core.
LEMMA CollectKeeps == ASSUME RuntimeInv, Collect PROVE RuntimeInv'
<1> USE DEF RuntimeInv, Collect
<1>1. TypeOK'
  BY DEF TypeOK, opVars, taskVars
<1>2. OpStates'
  <2>1. ASSUME NEW q \in Ops, q[1] # "cancel" PROVE OpState(q)'
    BY <2>1 DEF OpStates, OpState, opVars, TypeOK
  <2> QED
    BY <2>1 DEF OpStates, opVars
<1>3. Commanded' /\ WaitStates'
  BY DEF Commanded, WaitStates, WaitState, opVars, taskVars
<1> QED
  BY <1>1, <1>2, <1>3

\* Signals, updates and the cancellation of the workflow.
LEMMA JobKeeps ==
  ASSUME RuntimeInv,
         ApplySignal \/ apply_cancel_workflow \/ \E t \in Tasks : StartHandler(t)
  PROVE  RuntimeInv'
<1> USE DEF RuntimeInv
<1>1. /\ phase = "apply" /\ cancelled' \in {"no", "flag", "scope"} /\ holds' \subseteq Conds
      /\ pc' \in [Tasks -> {"none", "run", "await", "condition", "done"}]
      /\ woken' \in [Tasks -> {"no", "set", "cancelled"}]
      /\ UNCHANGED <<phase, time, opVars, commands, on, retry, deadline, last, core>>
  <2>1. CASE ApplySignal
    BY <2>1 DEF ApplySignal, notify_condition_waiters, TypeOK
  <2>2. CASE apply_cancel_workflow
    BY <2>2 DEF apply_cancel_workflow, TypeOK
  <2>3. CASE \E t \in Tasks : StartHandler(t)
    <3> PICK t \in Tasks : StartHandler(t)
      BY <2>3
    <3>1. /\ phase = "apply" /\ pc' = [pc EXCEPT ![t] = "run"]
          /\ woken' = [u \in Tasks |-> IF Waiting(u) /\ pc[u] = "condition"
                                       THEN "set" ELSE woken[u]]
          /\ UNCHANGED <<phase, time, opVars, commands, cancelled, holds, on,
                         retry, deadline, last, core>>
      BY DEF StartHandler, notify_condition_waiters
    <3>2. woken' \in [Tasks -> {"no", "set", "cancelled"}]
      BY <3>1 DEF TypeOK
    <3> QED
      BY <3>1, <3>2 DEF TypeOK
  <2> QED
    BY <2>1, <2>2, <2>3
<1>2. TypeOK'
  BY <1>1 DEF TypeOK, opVars
<1>3. OpStates' /\ Commanded'
  BY <1>1 DEF OpStates, OpState, Commanded, opVars
<1>4. WaitStates'
  <2>1. CASE ApplySignal \/ apply_cancel_workflow
    <3>1. \A t \in Tasks : woken'[t] # woken[t] =>
            Waiting(t) /\ (woken'[t] = "cancelled" \/ pc[t] = "condition")
      BY <2>1 DEF ApplySignal, apply_cancel_workflow, notify_condition_waiters
    <3>2. pc' = pc
      BY <2>1 DEF ApplySignal, apply_cancel_workflow
    <3> QED
      BY <1>1, <3>1, <3>2, WokenKeeps DEF opVars
  <2>2. ASSUME NEW t \in Tasks, StartHandler(t) PROVE WaitStates'
    <3>1. pc[t] = "none" /\ pc' = [pc EXCEPT ![t] = "run"] /\ notify_condition_waiters
      BY <2>2 DEF StartHandler
    <3>2. ASSUME NEW u \in Tasks PROVE WaitState(u)'
      BY <1>1, <3>1 DEF WaitStates, WaitState, Waiting, notify_condition_waiters, opVars, TypeOK
    <3> QED
      BY <3>1, <3>2 DEF WaitStates, Waiting, notify_condition_waiters, TypeOK
  <2> QED
    BY <2>1, <2>2
<1> QED
  BY <1>2, <1>3, <1>4

-----------------------------------------------------------------------------
(* Calls                                                                   *)

\* An operation is issued and awaited.
LEMMA IssueAndWaitKeeps ==
  ASSUME RuntimeInv, NEW t \in Tasks, NEW op \in Ops, IssueAndWait(t, op) PROVE RuntimeInv'
<1> USE DEF RuntimeInv
<1> DEFINE wait == <<op, IF op[1] = "child" THEN "start" ELSE "end">>
<1>1. /\ phase = "settle" /\ pc[t] = "run" /\ Issue(op, pending)
      /\ Suspend(t, "await", wait)
      /\ UNCHANGED <<phase, time, completed, started, handles, result,
                     cancelled, holds, retry, deadline, core>>
  BY DEF IssueAndWait, Running
<1>2. pending \in SUBSET Waits
  BY DEF TypeOK
<1>3. /\ completed[op] = "no" /\ (op[1] # "cancel" => op \notin started)
      /\ issued \subseteq issued' /\ issued' \subseteq Ops /\ op \in issued'
      /\ seq' \in [OpKinds -> 0..MaxSeq]
      /\ pending' \subseteq Waits /\ pending \subseteq pending' /\ wait \in pending'
      /\ commands' \subseteq {"start", "cancel"} \X Ops
      /\ OpStates' /\ Commanded'
  BY <1>1, <1>2, IssueKeeps
<1>4. OthersKept(t, pending')
  BY <1>3 DEF OthersKept, WaitStates, WaitState
<1>5. wait \in Places \X {"start", "end"} /\ wait \in Waits /\ wait[1] = op
      /\ (wait[2] = "start" => op[1] = "child") /\ (wait[2] = "end" => op[1] # "child")
  BY DEF Places, Waits
<1> HIDE DEF wait
<1>6. op[1] = "child" => op \notin started
  BY <1>3
<1>7. WaitStates' /\ TasksOK'
  BY <1>1, <1>3, <1>4, <1>5, <1>6, SuspendKeeps
<1>8. TypeOK'
  BY <1>1, <1>3, <1>7 DEF TypeOK, TasksOK, Places, Endings
<1> QED
  BY <1>3, <1>7, <1>8

\* An activity is issued.
LEMMA StartActivityKeeps ==
  ASSUME RuntimeInv, NEW t \in Tasks, NEW op \in Ops, StartActivity(t, op) PROVE RuntimeInv'
<1> USE DEF RuntimeInv
<1>1. /\ phase = "settle" /\ Issue(op, pending)
      /\ UNCHANGED <<phase, time, completed, started, handles, result,
                     cancelled, holds, taskVars, core>>
  BY DEF StartActivity, Running
<1>2. pending \in SUBSET Waits
  BY DEF TypeOK
<1>3. /\ issued \subseteq issued' /\ issued' \subseteq Ops
      /\ seq' \in [OpKinds -> 0..MaxSeq]
      /\ pending' \subseteq Waits /\ pending \subseteq pending'
      /\ commands' \subseteq {"start", "cancel"} \X Ops
      /\ OpStates' /\ Commanded'
  BY <1>1, <1>2, IssueKeeps
<1>4. WaitStates'
  BY <1>1, <1>3 DEF WaitStates, WaitState, taskVars
<1>5. TypeOK'
  BY <1>1, <1>3 DEF TypeOK, taskVars
<1> QED
  BY <1>3, <1>4, <1>5

\* A handle asks Core to cancel its operation.
LEMMA CancelKeeps ==
  ASSUME RuntimeInv, NEW t \in Tasks, NEW op \in Ops,
         CancelActivity(t, op) \/ CancelChild(t, op)
  PROVE  RuntimeInv'
<1> USE DEF RuntimeInv
<1>1. /\ phase = "settle"
      /\ op[1] \in {"activity", "local"} => op \in issued /\ completed[op] = "no"
      /\ commands' = commands \cup {<<"cancel", op>>}
      /\ UNCHANGED <<phase, time, opVars, cancelled, holds, taskVars, core>>
  <2>1. CASE CancelActivity(t, op)
    BY <2>1 DEF CancelActivity, Running
  <2>2. CASE CancelChild(t, op)
    <3>1. op \in started /\ result[op] = "no"
      BY <2>2 DEF CancelChild, OpStates
    <3> QED
      BY <2>2, <3>1 DEF CancelChild, Running, OpStates, OpState
  <2> QED
    BY <2>1, <2>2
<1>2. TypeOK'
  BY <1>1 DEF TypeOK, opVars, taskVars
<1>3. OpStates'
  BY <1>1 DEF OpStates, OpState, opVars
<1>4. Commanded' /\ WaitStates'
  BY <1>1 DEF Commanded, WaitStates, WaitState, opVars, taskVars
<1> QED
  BY <1>2, <1>3, <1>4

\* A wait ends, and perhaps has Core cancel children.
LEMMA EndOfWait ==
  ASSUME RuntimeInv, NEW t \in Tasks, NEW op \in Places, NEW outcome \in Endings,
         Resume(t, op, outcome), phase = "settle",
         pending' \subseteq pending, OthersKept(t, pending'),
         result' \in [Ops -> {"no", "cancelled", "internal"} \cup Outcomes],
         handles' \subseteq started,
         commands \subseteq commands',
         commands' \subseteq commands \cup ({"cancel"} \X ({"child"} \X (1..MaxSeq))),
         UNCHANGED <<phase, time, seq, issued, completed, started, cancelled,
                     holds, core>>
  PROVE  RuntimeInv'
<1>1. WaitStates' /\ TasksOK'
  BY ResumeKeeps
<1> USE DEF RuntimeInv
<1>2. \A q \in Ops : /\ <<"start", q>> \in commands' <=> <<"start", q>> \in commands
                     /\ <<"cancel", q>> \in commands' /\ q[1] # "child" =>
                          <<"cancel", q>> \in commands
  OBVIOUS
<1>3. {"child"} \X (1..MaxSeq) \subseteq Ops
  BY DEF Ops, OpKinds
<1>4. commands' \subseteq {"start", "cancel"} \X Ops
  BY <1>3 DEF TypeOK
<1>5. started \subseteq Ops
  BY DEF TypeOK
<1>6. TypeOK'
  BY <1>1, <1>4, <1>5 DEF TypeOK, TasksOK, Places, Endings
<1>7. OpStates'
  BY <1>2 DEF OpStates, OpState
<1>8. Commanded'
  BY <1>2 DEF Commanded
<1> QED
  BY <1>1, <1>6, <1>7, <1>8

\* An operation other than a child is issued and awaited in place of another.
LEMMA NextWait ==
  ASSUME RuntimeInv, NEW t \in Tasks, NEW op, op[1] \in {"timer", "local"},
         NEW kept \in SUBSET Waits, OthersKept(t, kept), phase = "settle",
         Issue(op, kept), Suspend(t, "await", <<op, "end">>),
         retry' \in [Tasks -> Ops \cup {NoOp}],
         UNCHANGED <<phase, time, completed, started, handles, result,
                     cancelled, holds, deadline, core>>
  PROVE  RuntimeInv'
<1>1. /\ op \in Ops /\ completed[op] = "no"
      /\ issued \subseteq issued' /\ issued' \subseteq Ops /\ op \in issued'
      /\ seq' \in [OpKinds -> 0..MaxSeq]
      /\ pending' \subseteq Waits /\ kept \subseteq pending' /\ <<op, "end">> \in pending'
      /\ commands' \subseteq {"start", "cancel"} \X Ops
      /\ OpStates' /\ Commanded'
  BY IssueKeeps
<1>2. OthersKept(t, pending')
  BY <1>1 DEF OthersKept
<1> DEFINE wait == <<op, "end">>
<1>3. wait \in Places \X {"start", "end"} /\ wait \in Waits /\ wait[1] = op /\ wait[2] = "end"
  BY <1>1 DEF Places, Waits
<1>4. wait \in pending' /\ Suspend(t, "await", wait)
  BY <1>1
<1> HIDE DEF wait
<1>5. /\ WaitStates'
      /\ pc' \in [Tasks -> {"none", "run", "await", "condition", "done"}]
      /\ on' \in [Tasks -> Places \X {"start", "end"}]
      /\ woken' \in [Tasks -> {"no", "set", "cancelled"}]
      /\ last' = last
  BY <1>1, <1>2, <1>3, <1>4, SuspendKeeps
<1>6. TypeOK'
  BY <1>1, <1>5 DEF RuntimeInv, TypeOK, Places
<1> QED
  BY <1>1, <1>5, <1>6 DEF RuntimeInv

\* A wait for an activity returns, or goes on with the next attempt.
LEMMA RescheduleKeeps ==
  ASSUME RuntimeInv, NEW t \in Tasks, NEW old \in Ops,
         NEW kept \in SUBSET pending, OthersKept(t, kept), phase = "settle",
         Reschedule(t, old, kept),
         UNCHANGED <<phase, time, completed, started, handles, result,
                     cancelled, holds, core>>
  PROVE  RuntimeInv'
<1>0. pending \subseteq Waits /\ handles \subseteq started
      /\ retry \in [Tasks -> Ops \cup {NoOp}]
      /\ result \in [Ops -> {"no", "cancelled", "internal"} \cup Outcomes]
  BY DEF RuntimeInv, TypeOK, OpStates
<1>1. CASE <<"start", old>> \in commands
  <2>1. PICK op \in {"local"} \X (1..MaxSeq) :
          /\ Issue(op, kept) /\ Suspend(t, "await", <<op, "end">>)
          /\ retry' = [retry EXCEPT ![t] = NoOp] /\ UNCHANGED deadline
    BY <1>1 DEF Reschedule
  <2>2. op[1] \in {"timer", "local"} /\ retry' \in [Tasks -> Ops \cup {NoOp}]
    BY <1>0, <2>1
  <2> QED
    BY <1>0, <2>1, <2>2, NextWait
<1>2. CASE <<"start", old>> \notin commands
  <2>1. /\ Resume(t, old, "internal") /\ pending' = kept
        /\ UNCHANGED <<seq, issued, commands>>
    BY <1>2 DEF Reschedule
  <2>2. old \in Places /\ "internal" \in Endings
    BY DEF Places, Endings
  <2> QED
    BY <1>0, <2>1, <2>2, EndOfWait
<1> QED
  BY <1>1, <1>2

LEMMA ReturnKeeps ==
  ASSUME RuntimeInv, NEW t \in Tasks, NEW op \in Ops, completed[op] # "no",
         NEW kept \in SUBSET pending, OthersKept(t, kept), phase = "settle",
         ReturnOrBackOff(t, op, kept),
         UNCHANGED <<phase, time, completed, started, handles, result,
                     cancelled, holds, core>>
  PROVE  RuntimeInv'
<1>0. pending \subseteq Waits /\ handles \subseteq started
      /\ retry \in [Tasks -> Ops \cup {NoOp}]
      /\ result \in [Ops -> {"no", "cancelled", "internal"} \cup Outcomes]
      /\ completed \in [Ops -> {"no", "backoff"} \cup Outcomes]
  BY DEF RuntimeInv, TypeOK, OpStates
<1>1. CASE completed[op] = "backoff"
  <2>1. _handle_activity_backoff(t, op, kept)
    BY <1>1 DEF ReturnOrBackOff
  <2>2. ASSUME NEW timer \in {"timer"} \X (1..MaxSeq),
               Issue(timer, kept), Suspend(t, "await", <<timer, "end">>),
               retry' = [retry EXCEPT ![t] = op], UNCHANGED deadline
        PROVE  RuntimeInv'
    <3>1. timer[1] \in {"timer", "local"} /\ retry' \in [Tasks -> Ops \cup {NoOp}]
      BY <1>0, <2>2
    <3> QED
      BY <1>0, <2>2, <3>1, NextWait
  <2>3. CASE Reschedule(t, op, kept)
    BY <2>3, RescheduleKeeps
  <2> QED
    BY <2>1, <2>2, <2>3 DEF _handle_activity_backoff
<1>2. CASE completed[op] # "backoff"
  <2>1. /\ Resume(t, op, completed[op]) /\ pending' = kept
        /\ UNCHANGED <<seq, issued, commands>>
    BY <1>2 DEF ReturnOrBackOff
  <2>2. op \in Places /\ completed[op] \in Endings
    BY <1>0, <1>2 DEF Places, Endings
  <2> QED
    BY <1>0, <2>1, <2>2, EndOfWait
<1> QED
  BY <1>1, <1>2

\* A running coroutine disturbs no wait by leaving the events alone.
LEMMA NoneWaits ==
  ASSUME RuntimeInv, NEW t \in Tasks, pending \subseteq pending'
  PROVE  OthersKept(t, pending') /\ OthersKept(t, pending)
BY DEF OthersKept, RuntimeInv, WaitStates, WaitState

\* What else the steps that end a wait need.
LEMMA WaitFacts ==
  ASSUME RuntimeInv
  PROVE  /\ pending \subseteq Waits /\ handles \subseteq started /\ started \subseteq Ops
         /\ result \in [Ops -> {"no", "cancelled", "internal"} \cup Outcomes]
         /\ completed \in [Ops -> {"no", "backoff"} \cup Outcomes]
         /\ \A q \in Ops : completed[q] = "backoff" => q[1] = "local"
         /\ Ops \subseteq Places
BY DEF RuntimeInv, TypeOK, OpStates, Places

\* Waiting for an activity through its handle.
LEMMA WaitActivityKeeps ==
  ASSUME RuntimeInv, NEW t \in Tasks, NEW op \in Ops, workflow_wait_activity(t, op)
  PROVE  RuntimeInv'
<1>1. /\ phase = "settle" /\ pc[t] = "run" /\ op \in issued /\ op[1] # "child"
      /\ UNCHANGED <<phase, time, completed, started, handles, result,
                     cancelled, holds, core>>
  BY DEF workflow_wait_activity, Running
<1>2. CASE completed[op] # "no"
  <2>1. ReturnOrBackOff(t, op, pending)
    BY <1>2 DEF workflow_wait_activity
  <2>2. OthersKept(t, pending) /\ pending \in SUBSET pending
    BY DEF OthersKept, RuntimeInv, WaitStates, WaitState
  <2> QED
    BY <1>1, <1>2, <2>1, <2>2, ReturnKeeps
<1>3. CASE completed[op] = "no"
  <2> DEFINE wait == <<op, "end">>
  <2>1. /\ pending' = pending \cup {wait} /\ Suspend(t, "await", wait)
        /\ UNCHANGED <<seq, issued, commands, retry, deadline>>
    BY <1>3 DEF workflow_wait_activity
  <2>2. OthersKept(t, pending')
    BY <2>1, NoneWaits
  <2>3. wait \in Places \X {"start", "end"} /\ wait \in Waits /\ wait[1] = op /\ wait[2] = "end"
        /\ wait \in pending'
    BY <2>1 DEF Places, Waits
  <2> HIDE DEF wait
  <2>4. WaitStates' /\ TasksOK'
    BY <1>1, <1>3, <2>1, <2>2, <2>3, SuspendKeeps
  <2>5. TypeOK'
    BY <1>1, <2>1, <2>3, <2>4 DEF RuntimeInv, TypeOK, TasksOK, Places, Endings
  <2>6. OpStates' /\ Commanded'
    BY <1>1, <2>1 DEF RuntimeInv, OpStates, OpState, Commanded
  <2> QED
    BY <2>4, <2>5, <2>6 DEF RuntimeInv
<1> QED
  BY <1>2, <1>3

\* Waiting for a child through its handle.
LEMMA AwaitChildKeeps ==
  ASSUME RuntimeInv, NEW t \in Tasks, NEW op \in Ops, AwaitChild(t, op) PROVE RuntimeInv'
<1>1. /\ phase = "settle" /\ pc[t] = "run" /\ op \in handles
      /\ UNCHANGED <<phase, time, seq, issued, pending, completed, started,
                     commands, handles, cancelled, holds, core>>
  BY DEF AwaitChild, Running
<1>2. OthersKept(t, pending') /\ op \in started /\ op[1] = "child" /\ op \in issued
  BY <1>1, NoneWaits DEF RuntimeInv, OpStates, OpState
<1>3. op \in Places /\ "internal" \in Endings
  BY DEF Places, Endings
<1>4. CASE result[op] # "no"
  <2>1. Resume(t, op, result[op]) /\ result' = result
    BY <1>4 DEF AwaitChild
  <2>2. result[op] \in Endings
    BY <1>4, WaitFacts DEF Endings
  <2> QED
    BY <1>1, <1>2, <1>3, <2>1, <2>2, WaitFacts, EndOfWait
<1>5. CASE result[op] = "no" /\ completed[op] # "no"
  <2>1. Resume(t, op, completed[op]) /\ result' = [result EXCEPT ![op] = completed[op]]
    BY <1>5 DEF AwaitChild
  <2>2. completed[op] \in Outcomes /\ completed[op] \in Endings
    BY <1>2, <1>5, WaitFacts DEF Endings
  <2>3. result' \in [Ops -> {"no", "cancelled", "internal"} \cup Outcomes]
    BY <2>1, <2>2, WaitFacts
  <2> QED
    BY <1>1, <1>2, <1>3, <2>1, <2>2, <2>3, WaitFacts, EndOfWait
<1>6. CASE result[op] = "no" /\ completed[op] = "no" /\ <<op, "end">> \notin pending
  <2>1. Resume(t, op, "internal") /\ result' = [result EXCEPT ![op] = "internal"]
    BY <1>6 DEF AwaitChild
  <2>2. result' \in [Ops -> {"no", "cancelled", "internal"} \cup Outcomes]
    BY <2>1, WaitFacts
  <2> QED
    BY <1>1, <1>2, <1>3, <2>1, <2>2, WaitFacts, EndOfWait
<1>7. CASE result[op] = "no" /\ completed[op] = "no" /\ <<op, "end">> \in pending
  <2> DEFINE wait == <<op, "end">>
  <2>1. Suspend(t, "await", wait) /\ UNCHANGED <<retry, deadline, result>>
    BY <1>7 DEF AwaitChild
  <2>2. wait \in Places \X {"start", "end"} /\ wait \in Waits /\ wait[1] = op /\ wait[2] = "end"
        /\ wait \in pending'
    BY <1>1, <1>7 DEF Places, Waits
  <2> HIDE DEF wait
  <2>3. WaitStates' /\ TasksOK'
    BY <1>1, <1>2, <1>7, <2>1, <2>2, SuspendKeeps
  <2>4. TypeOK'
    BY <1>1, <2>1, <2>3 DEF RuntimeInv, TypeOK, TasksOK, Places, Endings
  <2>5. OpStates' /\ Commanded'
    BY <1>1, <2>1 DEF RuntimeInv, OpStates, OpState, Commanded
  <2> QED
    BY <2>3, <2>4, <2>5 DEF RuntimeInv
<1> QED
  BY <1>4, <1>5, <1>6, <1>7

\* Waiting for a condition.
LEMMA WaitConditionKeeps ==
  ASSUME RuntimeInv, NEW t \in Tasks, NEW c \in Conds, NEW until \in 0..MaxTime,
         workflow_wait_condition(t, c, until)
  PROVE  RuntimeInv'
<1> DEFINE wait == <<c, "end">>
<1>1. /\ Suspend(t, "condition", wait) /\ deadline' = [deadline EXCEPT ![t] = until]
      /\ UNCHANGED <<phase, time, opVars, commands, cancelled, holds, retry, core>>
  BY DEF workflow_wait_condition
<1>2. wait \in Places \X {"start", "end"}
  BY DEF Places
<1>3. OthersKept(t, pending')
  BY <1>1, NoneWaits DEF opVars
<1> HIDE DEF wait
<1>4. /\ WaitStates'
      /\ pc' \in [Tasks -> {"none", "run", "await", "condition", "done"}]
      /\ on' \in [Tasks -> Places \X {"start", "end"}]
      /\ woken' \in [Tasks -> {"no", "set", "cancelled"}]
      /\ last' = last
  BY <1>1, <1>2, <1>3, SuspendKeeps DEF opVars
<1>5. TypeOK'
  BY <1>1, <1>4 DEF RuntimeInv, TypeOK, Places, Endings, opVars
<1>6. OpStates' /\ Commanded'
  BY <1>1 DEF RuntimeInv, OpStates, OpState, Commanded, opVars
<1> QED
  BY <1>4, <1>5, <1>6 DEF RuntimeInv

\* Changes of state, cancelled scopes and ends of coroutines.
LEMMA LocalKeeps ==
  ASSUME RuntimeInv, NEW t \in Tasks, ChangeState(t) \/ CancelScope(t) \/ End(t)
  PROVE  RuntimeInv'
<1>1. CASE ChangeState(t)
  <2>1. /\ holds' \subseteq Conds
        /\ UNCHANGED <<phase, time, opVars, commands, cancelled, taskVars, core>>
    BY <1>1 DEF ChangeState
  <2>2. TypeOK'
    BY <2>1 DEF RuntimeInv, TypeOK, opVars, taskVars
  <2>3. OpStates' /\ Commanded' /\ WaitStates'
    BY <2>1 DEF RuntimeInv, OpStates, OpState, Commanded, WaitStates, WaitState,
                opVars, taskVars
  <2> QED
    BY <2>2, <2>3 DEF RuntimeInv
<1>2. CASE CancelScope(t)
  <2>1. PICK u \in Tasks : Waiting(u) /\ woken' = [woken EXCEPT ![u] = "cancelled"]
    BY <1>2 DEF CancelScope
  <2>2. UNCHANGED <<phase, time, opVars, commands, cancelled, holds, pc, on,
                    retry, deadline, last, core>>
    BY <1>2 DEF CancelScope
  <2>3. /\ woken' \in [Tasks -> {"no", "set", "cancelled"}]
        /\ \A v \in Tasks : woken'[v] # woken[v] =>
             Waiting(v) /\ (woken'[v] = "cancelled" \/ pc[v] = "condition")
    BY <2>1 DEF RuntimeInv, TypeOK
  <2>4. WaitStates'
    BY <2>2, <2>3, WokenKeeps DEF opVars
  <2>5. TypeOK'
    BY <2>2, <2>3 DEF RuntimeInv, TypeOK, opVars
  <2>6. OpStates' /\ Commanded'
    BY <2>2 DEF RuntimeInv, OpStates, OpState, Commanded, opVars
  <2> QED
    BY <2>4, <2>5, <2>6 DEF RuntimeInv
<1>3. CASE End(t)
  <2>1. /\ pc[t] = "run" /\ pc' = [pc EXCEPT ![t] = "done"]
        /\ UNCHANGED <<phase, time, opVars, commands, cancelled, holds, on,
                       retry, deadline, last, core>>
    BY <1>3 DEF End, Running
  <2>2. /\ woken' \in [Tasks -> {"no", "set", "cancelled"}]
        /\ \A v \in Tasks : woken'[v] # woken[v] => pc[v] = "condition"
    BY <1>3 DEF RuntimeInv, TypeOK, End, notify_condition_waiters
  <2>3. ASSUME NEW u \in Tasks PROVE WaitState(u)'
    BY <2>1, <2>2 DEF RuntimeInv, TypeOK, WaitStates, WaitState, opVars
  <2>4. \A u \in Tasks : woken'[u] # "no" => pc'[u] \in {"await", "condition"}
    BY <2>1, <2>2 DEF RuntimeInv, TypeOK, WaitStates
  <2>5. TypeOK'
    BY <2>1, <2>2 DEF RuntimeInv, TypeOK, opVars
  <2>6. OpStates' /\ Commanded'
    BY <2>1 DEF RuntimeInv, OpStates, OpState, Commanded, opVars
  <2> QED
    BY <2>3, <2>4, <2>5, <2>6 DEF RuntimeInv, WaitStates
<1> QED
  BY <1>1, <1>2, <1>3

-----------------------------------------------------------------------------
(* Wakes                                                                   *)

\* A coroutine woken at the end of its operation knows the result, and nobody
\* still waits unwoken for that event.
LEMMA WokenFacts ==
  ASSUME RuntimeInv, NEW t \in Tasks, NEW kinds, Woken(t, kinds)
  PROVE  /\ phase = "settle" /\ on[t][1] \in Ops /\ on[t][1][1] \in kinds
         /\ on[t] \in Waits
         /\ on[t][2] = "start" => on[t][1][1] = "child"
         /\ on[t][2] # "start" => /\ completed[on[t][1]] # "no"
                                  /\ OthersKept(t, pending \ {<<on[t][1], "end">>})
<1> USE DEF RuntimeInv
<1>1. /\ phase = "settle" /\ pc[t] = "await" /\ woken[t] = "set" /\ on[t][1][1] \in kinds
      /\ on[t] \in Waits /\ (on[t][2] = "start" => on[t][1][1] = "child")
      /\ completed[on[t][1]] # "no" \/ on[t][2] = "start"
  BY DEF Woken, WaitStates, WaitState
<1>2. ASSUME on[t][2] # "start" PROVE OthersKept(t, pending \ {<<on[t][1], "end">>})
  <2> SUFFICES ASSUME NEW u \in Tasks, pc[u] = "await", woken[u] = "no"
               PROVE  on[u] \in pending /\ on[u] # <<on[t][1], "end">>
    BY DEF OthersKept
  <2>1. on[u] \in pending /\ completed[on[u][1]] = "no"
    BY DEF WaitStates, WaitState
  <2>2. completed[on[t][1]] # "no"
    BY <1>1, <1>2
  <2> QED
    BY <2>1, <2>2
<1> QED
  BY <1>1, <1>2 DEF Waits

LEMMA WakeTimerKeeps ==
  ASSUME RuntimeInv, NEW t \in Tasks, WakeTimer(t) PROVE RuntimeInv'
<1> DEFINE op == on[t][1]
           kept == pending \ {<<op, "end">>}
<1>1. /\ Woken(t, {"timer"})
      /\ UNCHANGED <<phase, time, completed, started, handles, result,
                     cancelled, holds, core>>
      /\ \/ \E outcome \in {"cancelled", "ok"} :
              /\ Resume(t, op, outcome) /\ pending' = kept
              /\ UNCHANGED <<seq, issued, commands>>
         \/ retry[t] # NoOp /\ Reschedule(t, retry[t], kept)
  BY DEF WakeTimer
<1>2. /\ phase = "settle" /\ op \in Ops /\ OthersKept(t, kept) /\ kept \in SUBSET pending
  BY <1>1, WokenFacts
<1> HIDE DEF op, kept
<1>3. ASSUME NEW outcome \in {"cancelled", "ok"}, Resume(t, op, outcome), pending' = kept,
             UNCHANGED <<seq, issued, commands>>
      PROVE  RuntimeInv'
  <2>1. op \in Places /\ outcome \in Endings
    BY <1>2 DEF Places, Endings, Outcomes
  <2> QED
    BY <1>1, <1>2, <1>3, <2>1, WaitFacts, EndOfWait
<1>4. CASE retry[t] # NoOp /\ Reschedule(t, retry[t], kept)
  <2>1. retry[t] \in Ops
    BY <1>4 DEF RuntimeInv, TypeOK
  <2> QED
    BY <1>1, <1>2, <1>4, <2>1, RescheduleKeeps
<1> QED
  BY <1>1, <1>3, <1>4

LEMMA WakeActivityKeeps ==
  ASSUME RuntimeInv, NEW t \in Tasks, WakeActivity(t) PROVE RuntimeInv'
<1> DEFINE op == on[t][1]
           kept == pending \ {<<op, "end">>}
<1>1. /\ Woken(t, {"activity", "local"})
      /\ UNCHANGED <<phase, time, completed, started, handles, result,
                     cancelled, holds, core>>
      /\ \/ /\ Resume(t, op, "cancelled") /\ pending' = kept
            /\ UNCHANGED <<seq, issued, commands>>
         \/ ReturnOrBackOff(t, op, kept)
  BY DEF WakeActivity
<1>2. /\ phase = "settle" /\ op \in Ops /\ completed[op] # "no"
      /\ OthersKept(t, kept) /\ kept \in SUBSET pending
  BY <1>1, WokenFacts
<1> HIDE DEF op, kept
<1>3. CASE /\ Resume(t, op, "cancelled") /\ pending' = kept
           /\ UNCHANGED <<seq, issued, commands>>
  <2>1. op \in Places /\ "cancelled" \in Endings
    BY <1>2 DEF Places, Endings
  <2> QED
    BY <1>1, <1>2, <1>3, <2>1, WaitFacts, EndOfWait
<1>4. CASE ReturnOrBackOff(t, op, kept)
  BY <1>1, <1>2, <1>4, ReturnKeeps
<1> QED
  BY <1>1, <1>3, <1>4

LEMMA WakeExternalKeeps ==
  ASSUME RuntimeInv, NEW t \in Tasks, WakeExternal(t) PROVE RuntimeInv'
<1> DEFINE op == on[t][1]
<1> DEFINE kinds == {"signal", "cancel"}
<1>1. /\ Woken(t, kinds) /\ Resume(t, op, completed[op])
      /\ UNCHANGED <<phase, time, opVars, commands, cancelled, holds, core>>
  BY DEF WakeExternal
<1>2. phase = "settle" /\ op \in Ops /\ op[1] \in {"signal", "cancel"}
      /\ completed[op] # "no" /\ OthersKept(t, pending \ {<<op, "end">>})
  <2> HIDE DEF op, kinds
  <2>1. /\ phase = "settle" /\ on[t][1] \in Ops /\ on[t][1][1] \in kinds
        /\ on[t][2] = "start" => on[t][1][1] = "child"
        /\ on[t][2] # "start" => /\ completed[on[t][1]] # "no"
                                 /\ OthersKept(t, pending \ {<<on[t][1], "end">>})
    BY <1>1, WokenFacts
  <2> QED
    BY <2>1 DEF op, kinds
<1> HIDE DEF op
<1>3. op \in Places /\ completed[op] \in Endings
  BY <1>2, WaitFacts DEF Endings
<1>4. OthersKept(t, pending')
  BY <1>1, <1>2 DEF OthersKept, opVars
<1> QED
  BY <1>1, <1>2, <1>3, <1>4, WaitFacts, EndOfWait DEF opVars

LEMMA WakeChildStartKeeps ==
  ASSUME RuntimeInv, NEW t \in Tasks, WakeChildStart(t) PROVE RuntimeInv'
<1> DEFINE op == on[t][1]
<1>1. /\ Woken(t, {"child"}) /\ on[t][2] = "start"
      /\ \/ /\ op \in started /\ handles' = handles \cup {op}
            /\ pending' = pending \ {<<op, "start">>} /\ Resume(t, op, "ok")
         \/ Resume(t, op, "internal") /\ UNCHANGED <<handles, pending>>
      /\ UNCHANGED <<phase, time, seq, issued, completed, started, result,
                     commands, cancelled, holds, core>>
  BY DEF WakeChildStart
<1>2. phase = "settle" /\ op \in Ops /\ op \in Places
  BY <1>1, WokenFacts, WaitFacts
<1> HIDE DEF op
<1>3. OthersKept(t, pending) /\ (op \in started => OthersKept(t, pending \ {<<op, "start">>}))
  BY DEF OthersKept, RuntimeInv, WaitStates, WaitState
<1>4. "ok" \in Endings /\ "internal" \in Endings
  BY DEF Endings, Outcomes
<1>5. OthersKept(t, pending') /\ pending' \subseteq pending /\ handles' \subseteq started
  BY <1>1, <1>3, WaitFacts DEF OthersKept
<1> QED
  BY <1>1, <1>2, <1>4, <1>5, WaitFacts, EndOfWait

LEMMA WakeChildEndKeeps ==
  ASSUME RuntimeInv, NEW t \in Tasks, WakeChildEnd(t) PROVE RuntimeInv'
<1> DEFINE op == on[t][1]
           outcome == IF <<op, "end">> \in pending THEN completed[op] ELSE "internal"
<1>1. /\ Woken(t, {"child"}) /\ on[t][2] = "end"
      /\ pending' = pending \ {<<op, "end">>}
      /\ result' = [result EXCEPT ![op] = outcome] /\ Resume(t, op, outcome)
      /\ UNCHANGED <<phase, time, seq, issued, completed, started, handles,
                     commands, cancelled, holds, core>>
  BY DEF WakeChildEnd
<1>2. /\ phase = "settle" /\ op \in Ops /\ op \in Places /\ op[1] = "child"
      /\ completed[op] # "no" /\ OthersKept(t, pending')
  BY <1>1, WokenFacts, WaitFacts
<1>3. outcome \in Outcomes \cup {"internal"}
  BY <1>2, WaitFacts
<1> HIDE DEF op, outcome
<1>4. outcome \in Endings /\ result' \in [Ops -> {"no", "cancelled", "internal"} \cup Outcomes]
  BY <1>1, <1>3, WaitFacts DEF Endings
<1> QED
  BY <1>1, <1>2, <1>4, WaitFacts, EndOfWait

LEMMA WakeConditionKeeps ==
  ASSUME RuntimeInv, NEW t \in Tasks, WakeCondition(t) PROVE RuntimeInv'
<1>1. /\ phase = "settle" /\ pc[t] = "condition"
      /\ \/ \E outcome \in {"timeout", "ok"} : Resume(t, on[t][1], outcome)
         \/ Suspend(t, "condition", on[t]) /\ UNCHANGED <<retry, deadline>>
      /\ UNCHANGED <<phase, time, opVars, commands, cancelled, holds, core>>
  BY DEF WakeCondition
<1>2. OthersKept(t, pending')
  BY <1>1 DEF OthersKept, opVars, RuntimeInv, WaitStates, WaitState
<1>3. on[t] \in Places \X {"start", "end"} /\ on[t][1] \in Places
  BY DEF RuntimeInv, TypeOK, Places
<1>4. ASSUME NEW outcome \in {"timeout", "ok"}, Resume(t, on[t][1], outcome)
      PROVE  RuntimeInv'
  <2>1. outcome \in Endings
    BY DEF Endings, Outcomes
  <2> QED
    BY <1>1, <1>2, <1>3, <1>4, <2>1, WaitFacts, EndOfWait DEF opVars
<1>5. CASE Suspend(t, "condition", on[t]) /\ UNCHANGED <<retry, deadline>>
  <2>1. WaitStates' /\ TasksOK'
    BY <1>1, <1>2, <1>3, <1>5, SuspendKeeps DEF opVars
  <2>2. TypeOK'
    BY <1>1, <2>1 DEF RuntimeInv, TypeOK, TasksOK, Places, Endings, opVars
  <2>3. OpStates' /\ Commanded'
    BY <1>1 DEF RuntimeInv, OpStates, OpState, Commanded, opVars
  <2> QED
    BY <2>1, <2>2, <2>3 DEF RuntimeInv
<1> QED
  BY <1>1, <1>4, <1>5

LEMMA RaiseCancelledKeeps ==
  ASSUME RuntimeInv, NEW t \in Tasks, RaiseCancelled(t) PROVE RuntimeInv'
<1> DEFINE op == on[t][1]
           children == {op} \cap ({"child"} \X (1..MaxSeq))
<1>1. /\ phase = "settle" /\ woken[t] = "cancelled"
      /\ commands' = commands \cup ({"cancel"} \X children)
      /\ result' = result \/ result' = [result EXCEPT ![op] = "cancelled"]
      /\ Resume(t, op, "cancelled")
      /\ UNCHANGED <<phase, time, seq, issued, pending, completed, started,
                     handles, cancelled, holds, core>>
  BY DEF RaiseCancelled
<1>2. op \in Places /\ children \subseteq {"child"} \X (1..MaxSeq)
  BY DEF RuntimeInv, TypeOK, Places
<1> HIDE DEF op, children
<1>3. OthersKept(t, pending')
  BY <1>1 DEF OthersKept, RuntimeInv, WaitStates, WaitState
<1>4. /\ result' \in [Ops -> {"no", "cancelled", "internal"} \cup Outcomes]
      /\ "cancelled" \in Endings
  BY <1>1, WaitFacts DEF Endings
<1>5. /\ commands \subseteq commands'
      /\ commands' \subseteq commands \cup ({"cancel"} \X ({"child"} \X (1..MaxSeq)))
  BY <1>1, <1>2
<1> QED
  BY <1>1, <1>2, <1>3, <1>4, <1>5, WaitFacts, EndOfWait

-----------------------------------------------------------------------------
(* The theorems                                                            *)

LEMMA StepKeeps == ASSUME RuntimeInv, [Next]_vars PROVE RuntimeInv'
<1>1. CASE Activate \/ Settle
  BY <1>1, PhaseKeeps
<1>2. CASE Collect
  BY <1>2, CollectKeeps
<1>3. CASE \E op \in Ops : Answer(op)
  BY <1>3, AnswerKeeps
<1>4. CASE ApplySignal \/ apply_cancel_workflow \/ \E t \in Tasks : StartHandler(t)
  BY <1>4, JobKeeps
<1>5. ASSUME NEW t \in Tasks, Call(t) PROVE RuntimeInv'
  BY <1>5, StartActivityKeeps, CancelKeeps, LocalKeeps
  DEF Call, workflow_start_activity, workflow_start_local_activity
<1>6. ASSUME NEW t \in Tasks, Wait(t) PROVE RuntimeInv'
  BY <1>6, IssueAndWaitKeeps, WaitActivityKeeps, AwaitChildKeeps, WaitConditionKeeps
  DEF Wait, workflow_sleep, workflow_start_child_workflow,
      workflow_signal_external_workflow, workflow_cancel_external_workflow,
      execute_activity, execute_local_activity
<1>7. ASSUME NEW t \in Tasks, End(t) PROVE RuntimeInv'
  BY <1>7, LocalKeeps
<1>8. ASSUME NEW t \in Tasks, Wake(t) PROVE RuntimeInv'
  BY <1>8, WakeTimerKeeps, WakeActivityKeeps, WakeExternalKeeps, WakeChildStartKeeps,
     WakeChildEndKeeps, WakeConditionKeeps, RaiseCancelledKeeps DEF Wake
<1>9. CASE UNCHANGED vars
  BY <1>9 DEF vars, opVars, taskVars, RuntimeInv, TypeOK, OpStates, OpState,
              Commanded, WaitStates, WaitState
<1> QED
  BY <1>1, <1>2, <1>3, <1>4, <1>5, <1>6, <1>7, <1>8, <1>9 DEF Next

LEMMA RuntimeKept == Spec => []RuntimeInv
<1>1. RuntimeInv /\ [Next]_vars => RuntimeInv'
  BY StepKeeps
<1> QED
  BY RuntimeInit, <1>1, PTL DEF Spec

\* Every reachable state of a run's bookkeeping has its type, for any
\* coroutines, operations, bounds and surroundings.
THEOREM RuntimeTypeCorrect == Spec => []TypeOK
<1>1. RuntimeInv => TypeOK
  BY DEF RuntimeInv
<1> QED
  BY RuntimeKept, <1>1, PTL

\* Only operations of the given kinds are issued.
IssuedOfKinds == issued \subseteq Kinds \X (1..MaxSeq)

LEMMA IssuedKept == Spec => []IssuedOfKinds
<1>1. Init => IssuedOfKinds
  BY DEF Init, IssuedOfKinds
<1>2. IssuedOfKinds /\ [Next]_vars
        => IssuedOfKinds'
  <2> SUFFICES ASSUME IssuedOfKinds, [Next]_vars
               PROVE  \/ issued' = issued
                      \/ \E op, kept : Issue(op, kept)
    BY DEF Issue, IssuedOfKinds
  <2>1. CASE UNCHANGED issued
    BY <2>1
  <2>2. ASSUME NEW t \in Tasks, Call(t) \/ Wait(t) \/ Wake(t)
        PROVE  issued' = issued \/ \E op, kept : Issue(op, kept)
    BY <2>2 DEF Call, Wait, Wake, StartActivity, workflow_start_activity,
                workflow_start_local_activity, workflow_sleep,
                workflow_start_child_workflow, workflow_signal_external_workflow,
                workflow_cancel_external_workflow, execute_activity,
                execute_local_activity, CancelActivity, CancelChild,
                ChangeState, CancelScope, IssueAndWait, workflow_wait_activity,
                AwaitChild, workflow_wait_condition, WakeTimer, WakeActivity,
                WakeExternal, WakeChildStart, WakeChildEnd, WakeCondition,
                RaiseCancelled, ReturnOrBackOff, _handle_activity_backoff,
                Reschedule, opVars
  <2>3. CASE \/ Activate \/ Settle \/ Collect \/ ApplySignal \/ apply_cancel_workflow
             \/ \E t \in Tasks : StartHandler(t) \/ End(t)
    BY <2>3 DEF Activate, Settle, Collect, ApplySignal, apply_cancel_workflow,
                StartHandler, End, opVars
  <2>4. CASE \E op \in Ops : Answer(op)
    BY <2>4 DEF Answer, apply_timer_fired, apply_activity_resolved,
                apply_signal_external_resolved, apply_child_workflow_resolved,
                apply_child_workflow_started, apply_child_workflow_start_failed,
                CancelExternalResolved, Resolve, opVars
  <2> QED
    BY <2>1, <2>2, <2>3, <2>4 DEF Next, vars, opVars
<1> QED
  BY <1>1, <1>2, PTL DEF Spec

\* Unless a workflow cancels external ones, whoever waits for an operation
\* waits for an answer that Core still owes, or for a command that is about to
\* go to it.
THEOREM WaitersServedKept ==
  ASSUME "cancel" \notin Kinds
  PROVE  Spec => []WaitersServed
<1>1. RuntimeInv /\ IssuedOfKinds => WaitersServed
  <2> SUFFICES ASSUME RuntimeInv, IssuedOfKinds,
                      NEW t \in Tasks, pc[t] = "await", Waiting(t)
               PROVE  LET op == on[t][1]
                      IN \/ <<"start", op>> \in commands
                         \/ core[op] = "open"
                         \/ core[op] = "started" /\ on[t][2] = "end"
    BY DEF WaitersServed
  <2> DEFINE op == on[t][1]
  <2>1. /\ on[t] \in Waits /\ op \in issued /\ completed[op] = "no"
        /\ on[t][2] = "start" => op \notin started
    BY DEF RuntimeInv, WaitStates, WaitState, Waiting
  <2>2. op \in Ops /\ op[1] # "cancel" /\ on[t][2] \in {"start", "end"}
    BY <2>1 DEF Waits, IssuedOfKinds
  <2>3. OpState(op)
    BY <2>2 DEF RuntimeInv, OpStates
  <2> QED
    BY <2>1, <2>2, <2>3 DEF OpState
<1> QED
  BY RuntimeKept, IssuedKept, <1>1, PTL

\* A cancel under way is for an activity that Core runs or is about to, and
\* whose result the workflow does not have yet.
THEOREM CancelsLiveActivitiesKept == Spec => []CancelsLiveActivities
<1>1. RuntimeInv => CancelsLiveActivities
  BY DEF RuntimeInv, Commanded, OpStates, OpState, CancelsLiveActivities
<1> QED
  BY RuntimeKept, <1>1, PTL

\* Who waits for a condition has not been told of anything since it was false.
ConditionsWatched ==
  \A t \in Tasks : pc[t] = "condition" /\ woken[t] = "no" => on[t][1] \notin holds

\* Ends and beginnings of waits, and being woken, leave that as it is.
LEMMA WatchKept ==
  ASSUME RuntimeInv, ConditionsWatched, NEW t \in Tasks, holds' = holds,
         \/ UNCHANGED <<pc, on, woken>>
         \/ \E op, outcome : Resume(t, op, outcome)
         \/ \E wait : Suspend(t, "await", wait)
         \/ \E wait : Suspend(t, "condition", wait) /\ wait[1] \notin holds
  PROVE  ConditionsWatched'
<1> USE DEF RuntimeInv, TypeOK
<1>1. CASE UNCHANGED <<pc, on, woken>>
  BY <1>1 DEF ConditionsWatched
<1>2. ASSUME NEW op, NEW outcome, Resume(t, op, outcome) PROVE ConditionsWatched'
  BY <1>2 DEF ConditionsWatched, Resume
<1>3. ASSUME NEW wait, Suspend(t, "await", wait) PROVE ConditionsWatched'
  BY <1>3 DEF ConditionsWatched, Suspend
<1>4. ASSUME NEW wait, Suspend(t, "condition", wait), wait[1] \notin holds
      PROVE  ConditionsWatched'
  BY <1>4 DEF ConditionsWatched, Suspend
<1> QED
  BY <1>1, <1>2, <1>3, <1>4

LEMMA WatchStep ==
  ASSUME RuntimeInv, "change" \notin Env, ConditionsWatched, [Next]_vars
  PROVE  ConditionsWatched'
<1>1. ASSUME NEW t \in Tasks, Wait(t) PROVE ConditionsWatched'
  <2>1. holds' = holds
    BY <1>1 DEF Wait, IssueAndWait, workflow_sleep, workflow_start_child_workflow,
                workflow_signal_external_workflow, workflow_cancel_external_workflow,
                execute_activity, execute_local_activity, workflow_wait_activity,
                AwaitChild, workflow_wait_condition
  <2>2. CASE \E op \in Ops : IssueAndWait(t, op)
    BY <2>1, <2>2, WatchKept DEF IssueAndWait
  <2>3. CASE \E op \in Ops : workflow_wait_activity(t, op)
    BY <2>1, <2>3, WatchKept
    DEF workflow_wait_activity, ReturnOrBackOff, _handle_activity_backoff, Reschedule
  <2>4. CASE \E op \in Ops : AwaitChild(t, op)
    BY <2>1, <2>4, WatchKept DEF AwaitChild
  <2>5. CASE \E c \in Conds, until \in 0..MaxTime : workflow_wait_condition(t, c, until)
    <3>1. PICK c \in Conds, until \in 0..MaxTime : workflow_wait_condition(t, c, until)
      BY <2>5
    <3>2. Suspend(t, "condition", <<c, "end">>) /\ <<c, "end">>[1] \notin holds
      BY <3>1 DEF workflow_wait_condition
    <3> QED
      BY <2>1, <3>2, WatchKept
  <2> QED
    BY <1>1, <2>2, <2>3, <2>4, <2>5
    DEF Wait, workflow_sleep, workflow_start_child_workflow,
        workflow_signal_external_workflow, workflow_cancel_external_workflow,
        execute_activity, execute_local_activity
<1>2. ASSUME NEW t \in Tasks, Wake(t) PROVE ConditionsWatched'
  <2>1. holds' = holds
    BY <1>2 DEF Wake, WakeTimer, WakeActivity, WakeExternal, WakeChildStart,
                WakeChildEnd, WakeCondition, RaiseCancelled
  <2>2. CASE WakeTimer(t) \/ WakeActivity(t)
    BY <2>1, <2>2, WatchKept
    DEF WakeTimer, WakeActivity, ReturnOrBackOff, _handle_activity_backoff, Reschedule
  <2>3. CASE WakeExternal(t) \/ WakeChildStart(t) \/ WakeChildEnd(t) \/ RaiseCancelled(t)
    BY <2>1, <2>3, WatchKept
    DEF WakeExternal, WakeChildStart, WakeChildEnd, RaiseCancelled
  <2>4. CASE WakeCondition(t)
    BY <2>1, <2>4, WatchKept DEF WakeCondition
  <2> QED
    BY <1>2, <2>2, <2>3, <2>4 DEF Wake
<1>3. ASSUME \A t \in Tasks : pc'[t] = "condition" /\ woken'[t] = "no" =>
               pc[t] = "condition" /\ woken[t] = "no",
             on' = on, holds' = holds
      PROVE  ConditionsWatched'
  BY <1>3 DEF ConditionsWatched
<1>4. ASSUME NEW t \in Tasks, Call(t) \/ StartHandler(t) \/ End(t) PROVE ConditionsWatched'
  <2>1. ~ChangeState(t)
    BY DEF ChangeState
  <2>2. CASE \E op \in Ops : StartActivity(t, op) \/ CancelActivity(t, op) \/ CancelChild(t, op)
    BY <2>2, WatchKept DEF StartActivity, CancelActivity, CancelChild, taskVars
  <2>3. CASE CancelScope(t) \/ StartHandler(t) \/ End(t)
    BY <1>3, <2>3 DEF CancelScope, StartHandler, End, notify_condition_waiters,
                      RuntimeInv, TypeOK
  <2> QED
    BY <1>4, <2>1, <2>2, <2>3 DEF Call, workflow_start_activity, workflow_start_local_activity
<1>5. CASE ApplySignal
  BY <1>5 DEF ApplySignal, notify_condition_waiters, ConditionsWatched, Waiting
<1>6. CASE apply_cancel_workflow
  BY <1>3, <1>6 DEF apply_cancel_workflow
<1>7. CASE \E op \in Ops : Answer(op)
  <2>1. /\ UNCHANGED <<pc, on, holds>>
        /\ woken' = woken \/ \E waits : SetEvents(waits)
    BY <1>7 DEF Answer, apply_timer_fired, apply_activity_resolved,
                apply_signal_external_resolved, apply_child_workflow_resolved,
                apply_child_workflow_started, apply_child_workflow_start_failed,
                CancelExternalResolved, Resolve, taskVars
  <2> QED
    BY <1>3, <2>1 DEF SetEvents
<1>8. CASE Activate \/ Settle \/ Collect \/ UNCHANGED vars
  BY <1>3, <1>8 DEF Activate, Settle, Collect, vars, taskVars
<1> QED
  BY <1>1, <1>2, <1>4, <1>5, <1>6, <1>7, <1>8 DEF Next

\* As long as coroutines change no state between the jobs, everyone who waits
\* for a condition that came to hold has been woken by the time all wait.
THEOREM ConditionsKept ==
  ASSUME "change" \notin Env
  PROVE  Spec => []ConditionsSeen
<1>1. Init => ConditionsWatched
  BY DEF Init, ConditionsWatched
<1>2. RuntimeInv /\ ConditionsWatched /\ [Next]_vars => ConditionsWatched'
  BY WatchStep
<1>3. ConditionsWatched => ConditionsSeen
  BY DEF ConditionsWatched, ConditionsSeen, Waiting
<1> QED
  BY RuntimeKept, <1>1, <1>2, <1>3, PTL DEF Spec

-----------------------------------------------------------------------------
(* Handles of children                                                     *)

Children  == {"child"} \X (1..MaxSeq)
ChildEnds == Children \X {"end"}

\* As long as no two coroutines await one child: a child whose end is awaited
\* has no result yet, the event for its end is there until it has one, and no
\* handle keeps an error of the runtime.
OneWaiter  == \A t, u \in Tasks : on[t] \in ChildEnds /\ on[u] = on[t] => u = t
Unfinished == \A t \in Tasks : on[t] \in ChildEnds => result[on[t][1]] = "no"
EventsKept == \A op \in issued \cap Children : result[op] = "no" => <<op, "end">> \in pending
NoneFailed == \A op \in Ops : result[op] # "internal"
ChildInv   == OneWaiter /\ Unfinished /\ EventsKept /\ NoneFailed

\* A step after which no other end of a child is awaited, and the events for
\* these ends are the same or belong to new children.
NoneAwaited == \A t \in Tasks : on'[t] # on[t] => on'[t] \notin ChildEnds
EndsStay ==
  \A op \in issued' \cap Children :
    \/ <<op, "end">> \in pending'
    \/ op \in issued /\ <<op, "end">> \notin pending

\* Such a step, when it leaves the handles alone, preserves the invariant.
LEMMA ChildrenLeftAlone ==
  ASSUME ChildInv, NoneAwaited, EndsStay, result' = result PROVE ChildInv'
BY DEF ChildInv, OneWaiter, Unfinished, EventsKept, NoneFailed, NoneAwaited, EndsStay

\* A step that leaves the waits and the operations alone does.
LEMMA ChildrenUntouched ==
  ASSUME ChildInv, UNCHANGED <<on, issued, pending, result>> PROVE ChildInv'
BY DEF ChildInv, OneWaiter, Unfinished, EventsKept, NoneFailed

\* No wait but that of AwaitChild is for the end of a child.
LEMMA OtherPlaces ==
  /\ <<NoOp, "end">> \notin ChildEnds
  /\ \A op \in Ops : op[1] # "child" => <<op, "end">> \notin ChildEnds
  /\ \A op : <<op, "start">> \notin ChildEnds
  /\ \A c \in Conds : <<c, "end">> \notin ChildEnds
BY DEF NoOp, ChildEnds, Children, Conds

\* Issuing an operation keeps the events that were to be kept.
LEMMA IssueEnds ==
  ASSUME NEW op, NEW kept, Issue(op, kept), pending \cap ChildEnds \subseteq kept
  PROVE  EndsStay
<1>1. /\ issued' = issued \cup {op} /\ kept \subseteq pending'
      /\ op \in Children => <<op, "end">> \in pending'
  BY DEF Issue, Children
<1> QED
  BY <1>1 DEF EndsStay, ChildEnds

\* A wait that ends, or begins elsewhere, awaits no end of a child.
LEMMA ResumedElsewhere ==
  ASSUME RuntimeInv, NEW t \in Tasks, NEW op, NEW outcome, Resume(t, op, outcome)
  PROVE  NoneAwaited
BY OtherPlaces DEF NoneAwaited, Resume, RuntimeInv, TypeOK

LEMMA SuspendedElsewhere ==
  ASSUME RuntimeInv, NEW t \in Tasks, NEW place, NEW wait, Suspend(t, place, wait),
         wait \notin ChildEnds
  PROVE  NoneAwaited
BY DEF NoneAwaited, Suspend, RuntimeInv, TypeOK

\* The next attempt of a local activity.
LEMMA RescheduledElsewhere ==
  ASSUME RuntimeInv, NEW t \in Tasks, NEW old, NEW kept,
         pending \cap ChildEnds \subseteq kept, Reschedule(t, old, kept)
  PROVE  NoneAwaited /\ EndsStay
<1>1. CASE <<"start", old>> \in commands
  <2>1. PICK op \in {"local"} \X (1..MaxSeq) :
          Issue(op, kept) /\ Suspend(t, "await", <<op, "end">>)
    BY <1>1 DEF Reschedule
  <2>2. op \in Ops /\ op[1] # "child"
    BY DEF Ops, OpKinds
  <2> QED
    BY <2>1, <2>2, IssueEnds, SuspendedElsewhere, OtherPlaces
<1>2. CASE <<"start", old>> \notin commands
  <2>1. Resume(t, old, "internal") /\ pending' = kept /\ issued' = issued
    BY <1>2 DEF Reschedule
  <2>2. EndsStay
    BY <2>1 DEF EndsStay, ChildEnds
  <2> QED
    BY <2>1, <2>2, ResumedElsewhere
<1> QED
  BY <1>1, <1>2

LEMMA ReturnedElsewhere ==
  ASSUME RuntimeInv, NEW t \in Tasks, NEW op, NEW kept,
         pending \cap ChildEnds \subseteq kept, ReturnOrBackOff(t, op, kept)
  PROVE  NoneAwaited /\ EndsStay
<1>1. CASE completed[op] = "backoff"
  <2>1. _handle_activity_backoff(t, op, kept)
    BY <1>1 DEF ReturnOrBackOff
  <2>2. ASSUME NEW timer \in {"timer"} \X (1..MaxSeq),
               Issue(timer, kept), Suspend(t, "await", <<timer, "end">>)
        PROVE  NoneAwaited /\ EndsStay
    <3>1. timer \in Ops /\ timer[1] # "child"
      BY DEF Ops, OpKinds
    <3> QED
      BY <2>2, <3>1, IssueEnds, SuspendedElsewhere, OtherPlaces
  <2> QED
    BY <2>1, <2>2, RescheduledElsewhere DEF _handle_activity_backoff
<1>2. CASE completed[op] # "backoff"
  <2>1. Resume(t, op, completed[op]) /\ pending' = kept /\ issued' = issued
    BY <1>2 DEF ReturnOrBackOff
  <2>2. EndsStay
    BY <2>1 DEF EndsStay, ChildEnds
  <2> QED
    BY <2>1, <2>2, ResumedElsewhere
<1> QED
  BY <1>1, <1>2

\* An activity's handle is awaited, or a wait for an activity or a timer ends.
LEMMA ActivityWaitsElsewhere ==
  ASSUME RuntimeInv, ChildInv, NEW t \in Tasks,
         \/ WakeTimer(t) \/ WakeActivity(t)
         \/ \E op \in Ops : workflow_wait_activity(t, op)
  PROVE  ChildInv'
<1>1. CASE WakeTimer(t) \/ WakeActivity(t)
  <2> DEFINE kept == pending \ {<<on[t][1], "end">>}
  <2>1. on[t][1] \notin Children /\ result' = result
    BY <1>1 DEF WakeTimer, WakeActivity, Woken, Children
  <2>2. pending \cap ChildEnds \subseteq kept
    BY <2>1 DEF ChildEnds
  <2>3. \/ Reschedule(t, retry[t], kept)
        \/ ReturnOrBackOff(t, on[t][1], kept)
        \/ /\ pending' = kept /\ issued' = issued
           /\ \E outcome : Resume(t, on[t][1], outcome)
    BY <1>1 DEF WakeTimer, WakeActivity
  <2> HIDE DEF kept
  <2>4. CASE pending' = kept /\ issued' = issued /\ \E outcome : Resume(t, on[t][1], outcome)
    <3>1. EndsStay
      BY <2>2, <2>4 DEF EndsStay, ChildEnds
    <3> QED
      BY <2>1, <2>4, <3>1, ResumedElsewhere, ChildrenLeftAlone
  <2>5. CASE Reschedule(t, retry[t], kept)
    BY <2>1, <2>2, <2>5, RescheduledElsewhere, ChildrenLeftAlone
  <2>6. CASE ReturnOrBackOff(t, on[t][1], kept)
    BY <2>1, <2>2, <2>6, ReturnedElsewhere, ChildrenLeftAlone
  <2> QED
    BY <2>3, <2>4, <2>5, <2>6
<1>2. ASSUME NEW op \in Ops, workflow_wait_activity(t, op) PROVE ChildInv'
  <2>1. op[1] # "child" /\ result' = result
    BY <1>2 DEF workflow_wait_activity
  <2>2. CASE completed[op] # "no"
    BY <1>2, <2>1, <2>2, ReturnedElsewhere, ChildrenLeftAlone DEF workflow_wait_activity
  <2>3. CASE completed[op] = "no"
    <3>1. /\ pending \subseteq pending' /\ issued' = issued
          /\ Suspend(t, "await", <<op, "end">>)
      BY <1>2, <2>3 DEF workflow_wait_activity
    <3>2. EndsStay
      BY <3>1 DEF EndsStay
    <3> QED
      BY <2>1, <3>1, <3>2, SuspendedElsewhere, OtherPlaces, ChildrenLeftAlone
  <2> QED
    BY <2>2, <2>3
<1> QED
  BY <1>1, <1>2

\* An operation is issued, and awaited or not.
LEMMA IssuedElsewhere ==
  ASSUME RuntimeInv, ChildInv, NEW t \in Tasks, NEW op \in Ops,
         IssueAndWait(t, op) \/ StartActivity(t, op)
  PROVE  ChildInv'
<1>1. Issue(op, pending) /\ result' = result
  BY DEF IssueAndWait, StartActivity, taskVars
<1>2. EndsStay
  BY <1>1, IssueEnds
<1>3. CASE IssueAndWait(t, op)
  <2> DEFINE wait == <<op, IF op[1] = "child" THEN "start" ELSE "end">>
  <2>1. wait \notin ChildEnds
    BY OtherPlaces
  <2>2. Suspend(t, "await", wait)
    BY <1>3 DEF IssueAndWait
  <2> HIDE DEF wait
  <2> QED
    BY <1>1, <1>2, <2>1, <2>2, SuspendedElsewhere, ChildrenLeftAlone
<1>4. CASE StartActivity(t, op)
  <2>1. NoneAwaited
    BY <1>4 DEF StartActivity, taskVars, NoneAwaited
  <2> QED
    BY <1>1, <1>2, <2>1, ChildrenLeftAlone
<1> QED
  BY <1>3, <1>4

\* The result of a child is awaited by nobody else, or known.
LEMMA ChildAwaited ==
  ASSUME RuntimeInv, ChildInv, "share" \notin Env, NEW t \in Tasks, NEW op \in Ops,
         AwaitChild(t, op)
  PROVE  ChildInv' /\ \E outcome \in Outcomes \cup {"cancelled"} :
                        Resume(t, op, outcome) \/ Suspend(t, "await", <<op, "end">>)
<1>1. /\ op \in issued /\ op[1] = "child" /\ op \in Children
      /\ \A u \in Tasks : on[u] # <<op, "end">>
      /\ UNCHANGED <<issued, pending>>
  BY DEF AwaitChild, RuntimeInv, TypeOK, OpStates, OpState, Children, Ops
<1>2. EndsStay
  BY <1>1 DEF EndsStay
<1>3. CASE result[op] # "no"
  <2>1. Resume(t, op, result[op]) /\ result' = result
    BY <1>3 DEF AwaitChild
  <2>2. result[op] \in Outcomes \cup {"cancelled"}
    BY <1>3 DEF ChildInv, NoneFailed, RuntimeInv, TypeOK
  <2> QED
    BY <1>2, <2>1, <2>2, ResumedElsewhere, ChildrenLeftAlone
<1>4. CASE result[op] = "no" /\ completed[op] # "no"
  <2>1. Resume(t, op, completed[op]) /\ result' = [result EXCEPT ![op] = completed[op]]
    BY <1>4 DEF AwaitChild
  <2>2. completed[op] \in Outcomes /\ completed[op] # "internal"
    BY <1>1, <1>4, WaitFacts DEF Outcomes
  <2>3. NoneAwaited
    BY <2>1, ResumedElsewhere
  <2>4. OneWaiter' /\ Unfinished'
    BY <1>1, <2>1, <2>3, WaitFacts DEF ChildInv, OneWaiter, Unfinished, NoneAwaited, ChildEnds
  <2>5. EventsKept' /\ NoneFailed'
    BY <1>1, <1>4, <2>1, <2>2, WaitFacts DEF ChildInv, EventsKept, NoneFailed
  <2> QED
    BY <2>1, <2>2, <2>4, <2>5 DEF ChildInv
<1>5. CASE result[op] = "no" /\ completed[op] = "no"
  <2>1. <<op, "end">> \in pending
    BY <1>1, <1>5 DEF ChildInv, EventsKept
  <2>2. Suspend(t, "await", <<op, "end">>) /\ result' = result
    BY <1>5, <2>1 DEF AwaitChild
  <2>3. on' = [on EXCEPT ![t] = <<op, "end">>]
    BY <2>2 DEF Suspend
  <2>4. OneWaiter'
    BY <1>1, <2>3 DEF ChildInv, OneWaiter, RuntimeInv, TypeOK
  <2>5. Unfinished'
    BY <1>5, <2>2, <2>3 DEF ChildInv, Unfinished, RuntimeInv, TypeOK
  <2>6. EventsKept' /\ NoneFailed'
    BY <1>1, <2>2 DEF ChildInv, EventsKept, NoneFailed
  <2> QED
    BY <2>2, <2>4, <2>5, <2>6 DEF ChildInv, Outcomes
<1> QED
  BY <1>3, <1>4, <1>5

\* The one waiter of a child takes its outcome.
LEMMA ChildEndTaken ==
  ASSUME RuntimeInv, ChildInv, NEW t \in Tasks, WakeChildEnd(t)
  PROVE  /\ ChildInv'
         /\ on[t][1] \in Ops /\ completed[on[t][1]] \in Outcomes
         /\ result' = [result EXCEPT ![on[t][1]] = completed[on[t][1]]]
         /\ Resume(t, on[t][1], completed[on[t][1]])
<1> DEFINE op == on[t][1]
<1>1. /\ pc[t] = "await" /\ woken[t] = "set" /\ on[t][2] = "end" /\ op[1] = "child"
      /\ pending' = pending \ {<<op, "end">>} /\ issued' = issued
  BY DEF WakeChildEnd, Woken
<1>2. on[t] \in Waits /\ op \in issued /\ completed[op] # "no"
  BY <1>1 DEF RuntimeInv, WaitStates, WaitState
<1>3. op \in Ops /\ op \in Children /\ on[t] = <<op, "end">> /\ on[t] \in ChildEnds
  BY <1>1, <1>2 DEF Waits, Ops, Children, ChildEnds
<1>4. <<op, "end">> \in pending
  BY <1>2, <1>3 DEF ChildInv, Unfinished, EventsKept
<1>5. result' = [result EXCEPT ![op] = completed[op]] /\ Resume(t, op, completed[op])
  BY <1>4 DEF WakeChildEnd
<1>6. completed[op] \in Outcomes /\ completed[op] # "internal"
  BY <1>1, <1>2, <1>3, WaitFacts DEF Outcomes
<1>7. NoneAwaited /\ on'[t] \notin ChildEnds
  BY <1>5, ResumedElsewhere, OtherPlaces DEF Resume, RuntimeInv, TypeOK
<1> HIDE DEF op
<1>8. OneWaiter'
  BY <1>7 DEF ChildInv, OneWaiter, NoneAwaited
<1>9. Unfinished'
  <2> SUFFICES ASSUME NEW u \in Tasks, on'[u] \in ChildEnds PROVE result'[on'[u][1]] = "no"
    BY DEF Unfinished
  <2>1. u # t /\ on'[u] = on[u]
    BY <1>7 DEF NoneAwaited
  <2>2. on[u] # on[t]
    BY <1>3, <2>1 DEF ChildInv, OneWaiter
  <2>3. on[u][1] # op
    BY <1>3, <2>1, <2>2 DEF ChildEnds
  <2> QED
    BY <1>5, <2>1, <2>3, WaitFacts DEF ChildInv, Unfinished, ChildEnds, Children, Ops, OpKinds
<1>10. EventsKept'
  <2> SUFFICES ASSUME NEW q \in issued \cap Children, result'[q] = "no"
               PROVE  <<q, "end">> \in pending'
    BY <1>1 DEF EventsKept
  <2>1. q # op /\ q \in Ops
    BY <1>2, <1>3, <1>5, WaitFacts DEF Children, Ops, OpKinds
  <2> QED
    BY <1>1, <1>5, <2>1, WaitFacts DEF ChildInv, EventsKept
<1>11. NoneFailed'
  BY <1>5, <1>6, WaitFacts DEF ChildInv, NoneFailed
<1> QED
  BY <1>3, <1>5, <1>6, <1>8, <1>9, <1>10, <1>11 DEF ChildInv, op

\* A cancelled wait for a child gives its handle a result.
LEMMA CancelledElsewhere ==
  ASSUME RuntimeInv, ChildInv, NEW t \in Tasks, RaiseCancelled(t) PROVE ChildInv'
<1> DEFINE op == on[t][1]
<1>1. /\ Resume(t, op, "cancelled") /\ UNCHANGED <<issued, pending>>
      /\ result' = IF on[t] \in ({op} \cap Children) \X {"end"}
                   THEN [result EXCEPT ![op] = "cancelled"] ELSE result
  BY DEF RaiseCancelled, Children
<1>2. NoneAwaited /\ on'[t] \notin ChildEnds
  BY <1>1, ResumedElsewhere, OtherPlaces DEF Resume, RuntimeInv, TypeOK
<1>3. EndsStay
  BY <1>1 DEF EndsStay
<1>4. CASE result' = result
  BY <1>2, <1>3, <1>4, ChildrenLeftAlone
<1>5. CASE on[t] \in ({op} \cap Children) \X {"end"}
  <2>1. /\ on[t] \in ChildEnds /\ on[t] = <<op, "end">> /\ op \in Ops
        /\ result' = [result EXCEPT ![op] = "cancelled"]
    BY <1>1, <1>5 DEF ChildEnds, Children, Ops, OpKinds
  <2> HIDE DEF op
  <2>2. OneWaiter'
    BY <1>2 DEF ChildInv, OneWaiter, NoneAwaited
  <2>3. Unfinished'
    <3> SUFFICES ASSUME NEW u \in Tasks, on'[u] \in ChildEnds PROVE result'[on'[u][1]] = "no"
      BY DEF Unfinished
    <3>1. u # t /\ on'[u] = on[u]
      BY <1>2 DEF NoneAwaited
    <3>2. on[u] # on[t]
      BY <2>1, <3>1 DEF ChildInv, OneWaiter
    <3>3. on[u][1] # op
      BY <2>1, <3>1, <3>2 DEF ChildEnds
    <3> QED
      BY <2>1, <3>1, <3>3, WaitFacts
      DEF ChildInv, Unfinished, ChildEnds, Children, Ops, OpKinds
  <2>4. EventsKept' /\ NoneFailed'
    BY <1>1, <2>1, WaitFacts DEF ChildInv, EventsKept, NoneFailed, Children, Ops, OpKinds
  <2> QED
    BY <2>2, <2>3, <2>4 DEF ChildInv
<1> QED
  BY <1>1, <1>4, <1>5

\* Every step of a runtime whose children have one waiter each.
LEMMA ChildStep ==
  ASSUME RuntimeInv, ChildInv, "share" \notin Env, [Next]_vars PROVE ChildInv'
<1>1. CASE \/ Activate \/ Settle \/ Collect \/ ApplySignal \/ apply_cancel_workflow
           \/ \E t \in Tasks : StartHandler(t) \/ End(t)
  BY <1>1, ChildrenUntouched
  DEF Activate, Settle, Collect, ApplySignal, apply_cancel_workflow, StartHandler, End,
      opVars, taskVars
<1>2. CASE \E op \in Ops : Answer(op)
  BY <1>2, ChildrenUntouched
  DEF Answer, apply_timer_fired, apply_activity_resolved, apply_signal_external_resolved,
      apply_child_workflow_resolved, apply_child_workflow_started,
      apply_child_workflow_start_failed, CancelExternalResolved, Resolve, opVars, taskVars
<1>3. ASSUME NEW t \in Tasks, Call(t) PROVE ChildInv'
  <2>1. CASE \E op \in Ops : StartActivity(t, op)
    BY <2>1, IssuedElsewhere
  <2>2. CASE \/ \E op \in Ops : CancelActivity(t, op) \/ CancelChild(t, op)
             \/ ChangeState(t) \/ CancelScope(t)
    BY <2>2, ChildrenUntouched
    DEF CancelActivity, CancelChild, ChangeState, CancelScope, opVars, taskVars
  <2> QED
    BY <1>3, <2>1, <2>2 DEF Call, workflow_start_activity, workflow_start_local_activity
<1>4. ASSUME NEW t \in Tasks, Wait(t) PROVE ChildInv'
  <2>1. ASSUME NEW c \in Conds, NEW until \in 0..MaxTime, workflow_wait_condition(t, c, until)
        PROVE  ChildInv'
    <3>1. /\ Suspend(t, "condition", <<c, "end">>)
          /\ UNCHANGED <<issued, pending, result>>
      BY <2>1 DEF workflow_wait_condition, opVars
    <3>2. EndsStay
      BY <3>1 DEF EndsStay
    <3> QED
      BY <3>1, <3>2, SuspendedElsewhere, OtherPlaces, ChildrenLeftAlone
  <2> QED
    BY <1>4, <2>1, IssuedElsewhere, ActivityWaitsElsewhere, ChildAwaited
    DEF Wait, workflow_sleep, workflow_start_child_workflow,
        workflow_signal_external_workflow, workflow_cancel_external_workflow,
        execute_activity, execute_local_activity
<1>5. ASSUME NEW t \in Tasks, Wake(t) PROVE ChildInv'
  <2>1. CASE WakeExternal(t)
    <3>1. /\ Resume(t, on[t][1], completed[on[t][1]])
          /\ UNCHANGED <<issued, pending, result>>
      BY <2>1 DEF WakeExternal, opVars
    <3>2. EndsStay
      BY <3>1 DEF EndsStay
    <3> QED
      BY <3>1, <3>2, ResumedElsewhere, ChildrenLeftAlone
  <2>2. CASE WakeChildStart(t)
    <3>1. /\ \E outcome : Resume(t, on[t][1], outcome)
          /\ issued' = issued /\ result' = result
          /\ pending \ {<<on[t][1], "start">>} \subseteq pending'
      BY <2>2 DEF WakeChildStart
    <3>2. EndsStay
      BY <3>1 DEF EndsStay
    <3> QED
      BY <3>1, <3>2, ResumedElsewhere, ChildrenLeftAlone
  <2>3. CASE WakeCondition(t)
    <3>1. /\ \/ \E outcome : Resume(t, on[t][1], outcome)
             \/ Suspend(t, "condition", on[t])
          /\ UNCHANGED <<issued, pending, result>>
      BY <2>3 DEF WakeCondition, opVars
    <3>2. EndsStay
      BY <3>1 DEF EndsStay
    <3>3. NoneAwaited
      BY <3>1, ResumedElsewhere DEF Suspend, NoneAwaited, RuntimeInv, TypeOK
    <3> QED
      BY <3>1, <3>2, <3>3, ChildrenLeftAlone
  <2> QED
    BY <1>5, <2>1, <2>2, <2>3, ActivityWaitsElsewhere, ChildEndTaken, CancelledElsewhere
    DEF Wake
<1>6. CASE UNCHANGED vars
  BY <1>6, ChildrenUntouched DEF vars, opVars, taskVars
<1> QED
  BY <1>1, <1>2, <1>3, <1>4, <1>5, <1>6 DEF Next

LEMMA ChildrenKept == ASSUME "share" \notin Env PROVE Spec => []ChildInv
<1>1. Init => ChildInv
  BY OtherPlaces DEF Init, ChildInv, OneWaiter, Unfinished, EventsKept, NoneFailed
<1>2. RuntimeInv /\ ChildInv /\ [Next]_vars => ChildInv'
  BY ChildStep
<1> QED
  BY RuntimeKept, <1>1, <1>2, PTL DEF Spec

\* Without backoffs there is nothing to reschedule, and without failed starts
\* every child that ended had started: no wait ends in an error of the runtime.
Faultless ==
  /\ \A op \in Ops : completed[op] # "backoff"
  /\ \A op \in Ops : op[1] = "child" /\ completed[op] # "no" => op \in started
  /\ \A t \in Tasks : retry[t] = NoOp
  /\ NoInternalError

\* Waits that begin and end leave that as it is, whatever the outcome.
LEMMA FaultlessWaits ==
  ASSUME RuntimeInv, Faultless, NEW t \in Tasks, UNCHANGED <<completed, started>>,
         \/ UNCHANGED <<retry, last>>
         \/ \E place, wait : Suspend(t, place, wait) /\ UNCHANGED retry
         \/ \E op, outcome : Resume(t, op, outcome) /\ outcome # "internal"
  PROVE  Faultless'
<1>1. CASE \E op, outcome : Resume(t, op, outcome) /\ outcome # "internal"
  BY <1>1 DEF Faultless, NoInternalError, Resume, RuntimeInv, TypeOK
<1>2. CASE UNCHANGED <<retry, last>>
  BY <1>2 DEF Faultless, NoInternalError
<1> QED
  BY <1>1, <1>2 DEF Suspend

LEMMA FaultlessStep ==
  ASSUME RuntimeInv, ChildInv, Env \cap {"share", "nostart", "backoff"} = {},
         Faultless, [Next]_vars
  PROVE  Faultless'
<1>1. ASSUME NEW op \in Ops, Answer(op) PROVE Faultless'
  <2>1. /\ UNCHANGED <<retry, last>> /\ started \subseteq started'
        /\ \/ completed' = completed
           \/ \E outcome \in Outcomes :
                /\ completed' = [completed EXCEPT ![op] = outcome]
                /\ op[1] = "child" => core[op] = "started"
    BY <1>1
    DEF Answer, apply_timer_fired, apply_activity_resolved,
        apply_signal_external_resolved, apply_child_workflow_resolved,
        apply_child_workflow_started, apply_child_workflow_start_failed,
        CancelExternalResolved, Resolve, opVars, taskVars, Outcomes
  <2>2. op[1] = "child" /\ core[op] = "started" => op \in started
    BY DEF RuntimeInv, OpStates, OpState
  <2> QED
    BY <2>1, <2>2, WaitFacts DEF Faultless, NoInternalError, Outcomes
<1>2. CASE \/ Activate \/ Settle \/ Collect \/ ApplySignal \/ apply_cancel_workflow
           \/ UNCHANGED vars
           \/ \E t \in Tasks : StartHandler(t) \/ End(t) \/ Call(t)
  <2>1. UNCHANGED <<completed, started, retry, last>>
    BY <1>2 DEF Activate, Settle, Collect, ApplySignal, apply_cancel_workflow,
                StartHandler, End, Call, workflow_start_activity,
                workflow_start_local_activity, StartActivity, CancelActivity,
                CancelChild, ChangeState, CancelScope, vars, opVars, taskVars
  <2> QED
    BY <2>1 DEF Faultless, NoInternalError
<1>3. ASSUME NEW t \in Tasks, Wait(t) PROVE Faultless'
  <2>1. ASSUME NEW op \in Ops, AwaitChild(t, op) PROVE Faultless'
    <3>1. \E outcome \in Outcomes \cup {"cancelled"} :
            Resume(t, op, outcome) \/ Suspend(t, "await", <<op, "end">>)
      BY <2>1, ChildAwaited
    <3>2. UNCHANGED <<completed, started>>
      BY <2>1 DEF AwaitChild
    <3>3. Suspend(t, "await", <<op, "end">>) => UNCHANGED retry
      BY <2>1 DEF AwaitChild, Suspend, Resume, RuntimeInv, TypeOK
    <3> QED
      BY <3>1, <3>2, <3>3, FaultlessWaits DEF Outcomes
  <2>2. ASSUME NEW op \in Ops, workflow_wait_activity(t, op) PROVE Faultless'
    <3>1. UNCHANGED <<completed, started>>
      BY <2>2 DEF workflow_wait_activity
    <3>2. completed[op] # "backoff" /\ completed[op] # "internal"
      BY WaitFacts DEF Faultless, Outcomes
    <3>3. \/ \E place, wait : Suspend(t, place, wait) /\ UNCHANGED retry
          \/ \E outcome : Resume(t, op, outcome) /\ outcome # "internal"
      BY <2>2, <3>2 DEF workflow_wait_activity, ReturnOrBackOff
    <3> QED
      BY <3>1, <3>3, FaultlessWaits
  <2>3. CASE \E op \in Ops : IssueAndWait(t, op)
    <3>1. UNCHANGED <<completed, started, retry>> /\ \E place, wait : Suspend(t, place, wait)
      BY <2>3 DEF IssueAndWait
    <3> QED
      BY <3>1, FaultlessWaits
  <2>4. CASE \E c \in Conds, until \in 0..MaxTime : workflow_wait_condition(t, c, until)
    <3>1. UNCHANGED <<completed, started, retry>> /\ \E place, wait : Suspend(t, place, wait)
      BY <2>4 DEF workflow_wait_condition, opVars
    <3> QED
      BY <3>1, FaultlessWaits
  <2> QED
    BY <1>3, <2>1, <2>2, <2>3, <2>4
    DEF Wait, workflow_sleep, workflow_start_child_workflow,
        workflow_signal_external_workflow, workflow_cancel_external_workflow,
        execute_activity, execute_local_activity
<1>4. ASSUME NEW t \in Tasks, Wake(t) PROVE Faultless'
  <2> DEFINE op == on[t][1]
  <2>1. UNCHANGED completed /\ UNCHANGED started
    BY <1>4 DEF Wake, WakeTimer, WakeActivity, WakeExternal, WakeChildStart,
                WakeChildEnd, WakeCondition, RaiseCancelled, opVars
  <2>2. pc[t] = "await" => op \in Ops /\ completed[op] \notin {"backoff", "internal"}
    BY WaitFacts DEF Faultless, Outcomes, RuntimeInv, WaitStates, WaitState, Waits
  <2>3. CASE WakeTimer(t)
    BY <2>1, <2>3, FaultlessWaits DEF WakeTimer, Faultless
  <2>4. CASE WakeActivity(t)
    BY <2>1, <2>2, <2>4, FaultlessWaits DEF WakeActivity, Woken, ReturnOrBackOff
  <2>5. CASE WakeExternal(t)
    BY <2>1, <2>2, <2>5, FaultlessWaits DEF WakeExternal, Woken
  <2>6. CASE WakeChildStart(t)
    <3>1. /\ pc[t] = "await" /\ woken[t] = "set" /\ on[t][2] = "start" /\ op[1] = "child"
      BY <2>6 DEF WakeChildStart, Woken
    <3>2. op \in started
      BY <2>2, <3>1 DEF RuntimeInv, WaitStates, WaitState, Faultless
    <3> QED
      BY <2>1, <2>6, <3>2, FaultlessWaits DEF WakeChildStart
  <2>7. CASE WakeChildEnd(t)
    BY <2>1, <2>7, ChildEndTaken, FaultlessWaits DEF Outcomes
  <2>8. CASE WakeCondition(t)
    <3>1. \/ \E outcome \in {"timeout", "ok"} : Resume(t, op, outcome)
          \/ \E place, wait : Suspend(t, place, wait) /\ UNCHANGED retry
      BY <2>8 DEF WakeCondition
    <3> QED
      BY <2>1, <3>1, FaultlessWaits
  <2>9. CASE RaiseCancelled(t)
    BY <2>1, <2>9, FaultlessWaits DEF RaiseCancelled
  <2> QED
    BY <1>4, <2>3, <2>4, <2>5, <2>6, <2>7, <2>8, <2>9 DEF Wake
<1> QED
  BY <1>1, <1>2, <1>3, <1>4 DEF Next

\* No wait ends in an error of the runtime's bookkeeping, as long as nobody
\* shares a child, every child starts and no local activity backs off: each of
\* the three finds an entry or a command missing.  Cancelled scopes and
\* workflows do no harm.
THEOREM NoBookkeepingError ==
  ASSUME Env \cap {"share", "nostart", "backoff"} = {}
  PROVE  Spec => []NoInternalError
<1>1. Init => Faultless
  BY DEF Init, Faultless, NoInternalError
<1>2. RuntimeInv /\ ChildInv /\ Faultless /\ [Next]_vars => Faultless'
  BY FaultlessStep
<1>3. Faultless => NoInternalError
  BY DEF Faultless
<1>4. Spec => []ChildInv
  BY ChildrenKept
<1> QED
  BY RuntimeKept, <1>1, <1>2, <1>3, <1>4, PTL DEF Spec
=============================================================================
