---------------------------- MODULE WorkflowHost ----------------------------
(***************************************************************************)
(* What the workflow worker promises SDK-Core: it holds one activation at  *)
(* a time, answers it at most once, takes no other before Core has the     *)
(* answer, and adds nothing to a run that it has closed.                   *)
(***************************************************************************)
CONSTANTS
  Runs,     \* run_ids
  NoRun,    \* the worker holds no activation
  MayDrop   \* an activation may be left without an answer

VARIABLES
  phase,    \* per run: absent, issued, held, dropped, answered, idle
  held,     \* the run whose activation the worker holds
  closed,   \* runs the worker has closed
  answer,   \* per run: what its answer on the way does: see Kinds
  stopped   \* the worker has stopped

vars == <<phase, held, closed, answer, stopped>>

\* An answer closes its run, has the run do more, or only answers queries.
Kinds == {"close", "work", "quiet"}

Init ==
  /\ phase = [r \in Runs |-> "absent"]
  /\ held = NoRun
  /\ closed = {}
  /\ answer = [r \in Runs |-> "quiet"]
  /\ stopped = FALSE

\* Core issues an activation; it forgets an absent run.
Issue(r) ==
  /\ phase[r] \in {"absent", "idle"}
  /\ phase' = [phase EXCEPT ![r] = "issued"]
  /\ UNCHANGED <<held, closed, answer, stopped>>

Hold(r) ==
  /\ held = NoRun /\ ~stopped
  /\ phase[r] = "issued"
  /\ phase' = [phase EXCEPT ![r] = "held"]
  /\ held' = r
  /\ UNCHANGED <<closed, answer, stopped>>

\* Answer the activation held, or a new one without waiting for a workflow.
\* A closed run gets nothing but query answers, save for a replay from the
\* worker's cache, which closes it again.
Answer(r, kind) ==
  /\ \/ held = NoRun /\ ~stopped /\ phase[r] = "issued"
     \/ held = r /\ phase[r] = "held"
  /\ r \in closed => kind = "quiet" \/ (phase[r] = "issued" /\ kind = "close")
  /\ phase' = [phase EXCEPT ![r] = "answered"]
  /\ held' = r
  /\ answer' = [answer EXCEPT ![r] = kind]
  /\ UNCHANGED <<closed, stopped>>

\* Core has the answer; gone tells whether the worker has dropped the run.
Acknowledge(r, gone) ==
  /\ phase[r] = "answered"
  /\ phase' = [phase EXCEPT ![r] = IF gone THEN "absent" ELSE "idle"]
  /\ held' = IF held = r THEN NoRun ELSE held
  /\ closed' = IF gone THEN closed \ {r}
               ELSE closed \cup {q \in {r} : answer[q] = "close"}
  /\ answer' = [answer EXCEPT ![r] = "quiet"]
  /\ stopped' \in {stopped, TRUE}

Drop(r) ==
  /\ MayDrop /\ ~stopped
  /\ \/ held = NoRun /\ phase[r] = "issued"
     \/ held = r /\ phase[r] = "held"
  /\ phase' = [phase EXCEPT ![r] = "dropped"]
  /\ held' = NoRun
  /\ stopped' \in {stopped, TRUE}
  /\ UNCHANGED <<closed, answer>>

Stop ==
  /\ stopped' = TRUE
  /\ held' = NoRun
  /\ phase' = [r \in Runs |-> IF phase[r] = "held" THEN "dropped" ELSE phase[r]]
  /\ UNCHANGED <<closed, answer>>

Next ==
  \/ \E r \in Runs :
       \/ Issue(r) \/ Hold(r) \/ Drop(r)
       \/ \E kind \in Kinds : Answer(r, kind)
       \/ \E gone \in BOOLEAN : Acknowledge(r, gone)
  \/ Stop

Spec == Init /\ [][Next]_vars
=============================================================================
