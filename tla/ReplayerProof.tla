----------------------------- MODULE ReplayerProof ---------------------------
(***************************************************************************)
(* The replayer, for any number of histories: at most one history is       *)
(* between its push and its result, and its verdict travels from SDK-Core  *)
(* through the answer of a poll and the variables of the context to the    *)
(* result (Travels), although any of these may belong to a call that was   *)
(* given up.                                                               *)
(***************************************************************************)
EXTENDS Replayer, SequenceTheorems, TLAPS

Result == [history : Nat, failure : Verdicts]
Types ==
  /\ next \in Nat \ {0} /\ yielded \in Seq(Result) /\ failure \in Verdicts
  /\ over \in BOOLEAN /\ complete \in BOOLEAN
  /\ asked \in [Tasks -> Requests \cup {"none"}]
  /\ answer \in [Tasks -> Answers \cup {"none"}]
  /\ left \subseteq Requests
  /\ fed \in Seq(Nat) /\ replaying \in Nat
  /\ verdict \in [1..Histories -> Verdicts \cup {"open"}]

Begins == body \in {"new", "initializing"}

\* Who awaits what.
Calls ==
  /\ Begins => worker = "none"
  /\ asked["body"] # "poll" /\ asked["worker"] # "push"
  /\ asked["body"] = "push" <=> body = "pushing"
  /\ asked["worker"] = "poll" <=> worker = "polling"
  /\ answer["worker"] \in Verdicts => worker = "polling"
  /\ body \in {"new", "idle", "waiting"} => asked["body"] = "none" /\ answer["body"] = "none"

Live      == ~over /\ body \in {"idle", "pushing", "waiting"}
IsFed     == Live /\ (body = "waiting" \/ (body = "pushing" /\ answer["body"] = "ok"))
Fresh     == Begins \/ (Live /\ ~IsFed)
NoVerdict == answer["worker"] \notin Verdicts

\* Where a history that was pushed may be.
Travels ==
  \/ ~complete /\ fed = <<next>> /\ replaying = 0 /\ NoVerdict
  \/ ~complete /\ fed = <<>> /\ replaying = next /\ NoVerdict
  \/ ~complete /\ fed = <<>> /\ replaying = 0 /\ ~NoVerdict /\ answer["worker"] = verdict[next]
  \/ complete /\ fed = <<>> /\ replaying = 0 /\ NoVerdict /\ failure = verdict[next]

\* What is fed and replayed is the history in hand, also when it was given up.
InHand == replaying \in {0, next} /\ \A i \in 1..Len(fed) : fed[i] = next
Yielded ==
  /\ Len(yielded) = next - 1
  /\ \A i \in 1..Len(yielded) : yielded[i] = [history |-> i, failure |-> verdict[i]]
Phases ==
  /\ body \in {"pushing", "waiting"} => ~over
  /\ Begins \/ Live => left = {}
  /\ Live /\ body # "idle" => next =< Histories
  /\ Fresh => fed = <<>> /\ replaying = 0 /\ NoVerdict /\ (body = "pushing" => ~complete)
  /\ IsFed => Travels

ReplayInv == Types /\ Calls /\ InHand /\ Yielded /\ Phases
------------------------------------------------------------------------------
LEMMA Names ==
  /\ Tasks = {"body", "worker"} /\ "none" \notin Answers /\ Verdicts \subseteq Answers
  /\ {"ok", "error", "activation", "ShutDown", "none"} \cap Verdicts = {}
BY DEF Tasks, Answers, Verdicts

LEMMA InitIsReplay == Init => ReplayInv
<1>1. ASSUME Init PROVE ReplayInv
  <2>1. /\ <<>> \in Seq(Result) /\ <<>> \in Seq(Nat) /\ Len(yielded) = 0 /\ Len(fed) = 0
    BY <1>1 DEF Init
  <2>2. /\ asked \in [Tasks -> Requests \cup {"none"}]
        /\ answer \in [Tasks -> Answers \cup {"none"}]
        /\ asked["body"] = "none" /\ asked["worker"] = "none"
        /\ answer["body"] = "none" /\ answer["worker"] = "none"
    BY <1>1, Names DEF Init
  <2>3. verdict \in [1..Histories -> Verdicts \cup {"open"}] /\ failure \in Verdicts
    BY <1>1 DEF Init, Verdicts
  <2>4. /\ next = 1 /\ yielded = <<>> /\ fed = <<>> /\ replaying = 0 /\ left = {}
        /\ over = FALSE /\ complete = FALSE
    BY <1>1 DEF Init
  <2>5. Types /\ Calls
    <3>1. Types
      <4>1. yielded \in Seq(Result) /\ fed \in Seq(Nat)  BY <2>1, <2>4
      <4>2. next \in Nat \ {0} /\ replaying \in Nat  BY <2>4
      <4>3. left \subseteq Requests /\ over \in BOOLEAN /\ complete \in BOOLEAN  BY <2>4
      <4> QED  BY <2>2, <2>3, <4>1, <4>2, <4>3 DEF Types
    <3>2. Calls  BY <1>1, <2>2, Names DEF Init, Calls, Begins
    <3> QED  BY <3>1, <3>2
  <2>6. InHand /\ Yielded  BY <1>1, <2>1 DEF Init, InHand, Yielded
  <2>7. Phases
    BY <1>1 DEF Init, Phases, Begins, Live, IsFed, Fresh, NoVerdict, Tasks, Verdicts
  <2> QED  BY <2>5, <2>6, <2>7 DEF ReplayInv
<1> QED  BY <1>1

\* The calls of the two tasks, as functions of the task.
LEMMA AskFacts ==
  ASSUME Types, NEW t \in Tasks, NEW q \in Requests, Ask(t, q)
  PROVE  /\ asked' \in [Tasks -> Requests \cup {"none"}] /\ asked'[t] = q
         /\ \A u \in Tasks \ {t} : asked'[u] = asked[u]
         /\ answer' = answer /\ left' = left
BY DEF Types, Ask

LEMMA ResumeFacts ==
  ASSUME Types, NEW t \in Tasks, Resume(t)
  PROVE  /\ asked' \in [Tasks -> Requests \cup {"none"}] /\ asked'[t] = "none"
         /\ answer' \in [Tasks -> Answers \cup {"none"}] /\ answer'[t] = "none"
         /\ \A u \in Tasks \ {t} : asked'[u] = asked[u] /\ answer'[u] = answer[u]
         /\ left' = left
BY DEF Types, Resume

LEMMA ProceedFacts ==
  ASSUME Types, NEW t \in Tasks, NEW q \in Requests, Proceed(t, q)
  PROVE  /\ asked' \in [Tasks -> Requests \cup {"none"}] /\ asked'[t] = q
         /\ answer' \in [Tasks -> Answers \cup {"none"}] /\ answer'[t] = "none"
         /\ \A u \in Tasks \ {t} : asked'[u] = asked[u] /\ answer'[u] = answer[u]
         /\ left' = left
BY DEF Types, Proceed

LEMMA AbandonFacts ==
  ASSUME Types, NEW t \in Tasks, NEW qs \in SUBSET Requests, Abandon(t, qs)
  PROVE  /\ asked' \in [Tasks -> Requests \cup {"none"}] /\ asked'[t] = "none"
         /\ answer' \in [Tasks -> Answers \cup {"none"}] /\ answer'[t] = "none"
         /\ \A u \in Tasks \ {t} : asked'[u] = asked[u] /\ answer'[u] = answer[u]
         /\ left' \subseteq Requests
BY DEF Types, Abandon
------------------------------------------------------------------------------
(* The worker's task.                                                      *)

\* A step of the worker that gives no verdict away.
LEMMA WorkerStep ==
  ASSUME ReplayInv,
         UNCHANGED <<bodyVars, yielded, coreVars, resultVars>>, worker # "none",
         asked' \in [Tasks -> Requests \cup {"none"}],
         answer' \in [Tasks -> Answers \cup {"none"}], left' \subseteq Requests,
         asked'["body"] = asked["body"], answer'["body"] = answer["body"],
         Begins \/ Live => left' = left,
         asked'["worker"] # "push", asked'["worker"] = "poll" <=> worker' = "polling",
         answer'["worker"] \notin Verdicts,
         NoVerdict \/ (~Begins /\ ~Live)
  PROVE  ReplayInv'
<1> USE DEF ReplayInv, bodyVars, coreVars, resultVars
<1>1. Types' /\ Calls'  BY Names DEF Types, Calls, Begins
<1>2. InHand' /\ Yielded'  BY DEF InHand, Yielded
<1>3. Phases'
  BY DEF Phases, Begins, Live, IsFed, Fresh, Travels, NoVerdict
<1> QED  BY <1>1, <1>2, <1>3

LEMMA WorkerKeeps == ReplayInv /\ Worker => ReplayInv'
<1> SUFFICES ASSUME ReplayInv, Worker PROVE ReplayInv'  OBVIOUS
<1>0. Types /\ Calls /\ "worker" \in Tasks /\ "body" \in Tasks \ {"worker"}
  BY Names DEF ReplayInv
<1>1. CASE Poll
  <2>1. Ask("worker", "poll") /\ "poll" \in Requests
    BY <1>1 DEF Poll, poll_replay_activation, Requests
  <2>2. NoVerdict  BY <1>0, <1>1 DEF Poll, Calls, NoVerdict
  <2> QED
    BY <1>0, <1>1, <2>1, <2>2, AskFacts, WorkerStep
       DEF Poll, Goes, Types, Requests, NoVerdict
<1>2. CASE Polled
  <2>0. UNCHANGED <<bodyVars, yielded, coreVars>> /\ worker = "polling"
    BY <1>2 DEF Polled, Answered
  <2>1. CASE answer["worker"] \in Verdicts
    <3>1. /\ complete' = TRUE /\ failure' = answer["worker"] /\ worker' = "completing"
          /\ Proceed("worker", "complete") /\ "complete" \in Requests
      BY <1>2, <2>1, Names DEF Polled, on_eviction_hook, complete_replay_activation, Goes, Requests
    <3>2. /\ asked' \in [Tasks -> Requests \cup {"none"}] /\ asked'["worker"] = "complete"
          /\ answer' \in [Tasks -> Answers \cup {"none"}] /\ answer'["worker"] = "none"
          /\ asked'["body"] = asked["body"] /\ answer'["body"] = answer["body"] /\ left' = left
      BY <1>0, <3>1, ProceedFacts
    <3> USE DEF ReplayInv, bodyVars, coreVars
    <3>3. Types'  BY <2>0, <2>1, <3>1, <3>2 DEF Types
    <3>4. Calls'  BY <2>0, <3>1, <3>2, Names DEF Calls, Begins
    <3>5. InHand' /\ Yielded'  BY <2>0 DEF InHand, Yielded
    <3>6. Phases'
      BY <2>0, <2>1, <3>1, <3>2, Names DEF Phases, Begins, Live, IsFed, Fresh, Travels, NoVerdict
    <3> QED  BY <3>3, <3>4, <3>5, <3>6
  <2>2. CASE answer["worker"] \notin Verdicts
    <3>1. Resume("worker") /\ UNCHANGED resultVars /\ worker' # "polling"
      BY <1>2, <2>2 DEF Polled, Goes
    <3> QED
      BY <1>0, <2>0, <2>2, <3>1, ResumeFacts, WorkerStep, Names DEF Types, NoVerdict
  <2> QED  BY <2>1, <2>2
<1>3. CASE Dispatched
  <2>1. /\ UNCHANGED <<bodyVars, resultVars, yielded, coreVars>>
        /\ worker = "dispatching" /\ worker' \in {"completing", "poll"}
        /\ Proceed("worker", "complete") \/ UNCHANGED callVars
    BY <1>3 DEF Dispatched, Goes, complete_replay_activation
  <2>2. NoVerdict  BY <1>0, <2>1 DEF Calls, NoVerdict
  <2>3. CASE Proceed("worker", "complete")
    <3>1. "complete" \in Requests  BY DEF Requests
    <3> QED
      BY <1>0, <2>1, <2>2, <2>3, <3>1, ProceedFacts, WorkerStep, Names DEF Types, NoVerdict
  <2>4. CASE UNCHANGED callVars
    <3>1. /\ asked' = asked /\ answer' = answer /\ left' = left
          /\ asked["worker"] \notin {"poll", "push"}
      BY <1>0, <2>1, <2>4 DEF callVars, Calls
    <3> QED  BY <1>0, <2>1, <2>2, <3>1, WorkerStep DEF Types, NoVerdict
  <2> QED  BY <2>1, <2>3, <2>4
<1>4. CASE Crash
  <2>1. NoVerdict  BY <1>0, <1>4 DEF Crash, Calls, NoVerdict
  <2> QED
    <3>1. /\ UNCHANGED <<bodyVars, resultVars, yielded, callVars, coreVars>>
          /\ worker = "dispatching" /\ worker' = "over"
      BY <1>4 DEF Crash
    <3>2. /\ asked' = asked /\ answer' = answer /\ left' = left
          /\ asked["worker"] \notin {"poll", "push"}
      BY <1>0, <3>1 DEF callVars, Calls
    <3> QED  BY <1>0, <2>1, <3>1, <3>2, WorkerStep DEF Types, NoVerdict
<1>5. CASE Completed
  <2>1. NoVerdict /\ Resume("worker")
    BY <1>0, <1>5 DEF Completed, Answered, Calls, NoVerdict
  <2> QED
    <3>1. /\ UNCHANGED <<bodyVars, resultVars, yielded, coreVars>>
          /\ worker = "completing" /\ worker' = "poll"
      BY <1>5 DEF Completed, Answered, Goes
    <3>2. /\ asked' \in [Tasks -> Requests \cup {"none"}] /\ asked'["worker"] = "none"
          /\ answer' \in [Tasks -> Answers \cup {"none"}] /\ answer'["worker"] \notin Verdicts
          /\ asked'["body"] = asked["body"] /\ answer'["body"] = answer["body"]
          /\ left' = left /\ left' \subseteq Requests
      BY <1>0, <2>1, ResumeFacts, Names DEF Types
    <3> QED  BY <2>1, <3>1, <3>2, WorkerStep
<1>6. CASE WorkerCancelled
  <2>1. PICK qs \in SUBSET Requests : Abandon("worker", qs)
    BY <1>6 DEF WorkerCancelled, Requests
  <2>2. ~Begins /\ ~Live  BY <1>6 DEF WorkerCancelled, Stopping, Begins, Live
  <2> QED
    BY <1>0, <1>6, <2>1, <2>2, AbandonFacts, WorkerStep, Names DEF WorkerCancelled, Goes, Types
<1> QED  BY <1>1, <1>2, <1>3, <1>4, <1>5, <1>6 DEF Worker
------------------------------------------------------------------------------
(* The caller's task.                                                      *)

\* A step of the caller that leaves the iterator behind, or has it over.
LEMMA Aside ==
  ASSUME ReplayInv,
         UNCHANGED <<next, resultVars, yielded, coreVars>>,
         UNCHANGED worker,
         asked' \in [Tasks -> Requests \cup {"none"}],
         answer' \in [Tasks -> Answers \cup {"none"}], left' \subseteq Requests,
         asked'["worker"] = asked["worker"], answer'["worker"] = answer["worker"],
         asked'["body"] \notin {"poll", "push"}, over' \in BOOLEAN,
         body' \notin {"pushing", "waiting"},
         body' \in {"new", "idle"} =>
           asked'["body"] = "none" /\ answer'["body"] = "none",
         ~Begins', ~Live'
  PROVE  ReplayInv'
<1> USE DEF ReplayInv, coreVars, resultVars
<1>1. Types' /\ Calls'  BY DEF Types, Calls, Begins
<1>2. InHand' /\ Yielded'  BY DEF InHand, Yielded
<1>3. Phases'  BY DEF Phases, Fresh, IsFed, Live
<1> QED  BY <1>1, <1>2, <1>3

LEMMA BeginKeeps == ReplayInv /\ (Start \/ Initialized) => ReplayInv'
<1> SUFFICES ASSUME ReplayInv, Start \/ Initialized PROVE ReplayInv'  OBVIOUS
<1>0. Types /\ Calls /\ "body" \in Tasks /\ "worker" \in Tasks \ {"body"}
  BY Names DEF ReplayInv
<1>1. CASE Start
  <2>1. Ask("body", "initialize") /\ "initialize" \in Requests
    BY <1>1 DEF Start, initialize_replay_worker, Requests
  <2>2. /\ asked' \in [Tasks -> Requests \cup {"none"}] /\ asked'["body"] = "initialize"
        /\ asked'["worker"] = asked["worker"] /\ answer' = answer /\ left' = left
    BY <1>0, <2>1, AskFacts
  <2> USE <1>1 DEF Start, At, RestOfBody, resultVars, workerVars, coreVars, ReplayInv
  <2>3. Types' /\ Calls'  BY <1>0, <2>2 DEF Types, Calls, Begins
  <2>4. InHand' /\ Yielded'  BY DEF InHand, Yielded
  <2>5. Phases'  BY <2>2 DEF Phases, Begins, Live, IsFed, Fresh, NoVerdict
  <2> QED  BY <2>3, <2>4, <2>5
<1>2. CASE Initialized /\ At("initializing", "idle")
  <2> USE <1>2 DEF Initialized, At, RestOfBody, resultVars, workerVars, coreVars, Goes
  <2>1. Resume("body") /\ worker' = "poll"  OBVIOUS
  <2>2. /\ asked' \in [Tasks -> Requests \cup {"none"}] /\ asked'["body"] = "none"
        /\ answer' \in [Tasks -> Answers \cup {"none"}] /\ answer'["body"] = "none"
        /\ asked'["worker"] = asked["worker"] /\ answer'["worker"] = answer["worker"]
        /\ left' = left
    BY <1>0, <2>1, ResumeFacts
  <2>3. /\ body = "initializing" /\ body' = "idle" /\ over' = over /\ next' = next
        /\ UNCHANGED <<resultVars, yielded, coreVars>>
    OBVIOUS
  <2>4. NoVerdict /\ Fresh /\ left = {}  BY <2>3 DEF ReplayInv, Phases, Begins, Fresh
  <2> HIDE <1>2
  <2> USE DEF ReplayInv, resultVars, coreVars
  <2>5. Types'  BY <1>0, <2>2, <2>3 DEF Types
  <2>6. Calls'  BY <1>0, <2>1, <2>2, <2>3 DEF Calls, Begins
  <2>7. InHand' /\ Yielded'  BY <2>3 DEF InHand, Yielded
  <2>8. Phases'  BY <2>2, <2>3, <2>4 DEF Phases, Begins, Live, IsFed, Fresh, NoVerdict
  <2> QED  BY <2>5, <2>6, <2>7, <2>8
<1>3. CASE Initialized /\ At("initializing", "initiating")
  <2>1. /\ Proceed("body", "initiate") /\ "initiate" \in Requests
        /\ UNCHANGED <<RestOfBody, resultVars, yielded, workerVars, coreVars>>
    BY <1>3 DEF Initialized, At, Requests
  <2>2. /\ asked' \in [Tasks -> Requests \cup {"none"}] /\ asked'["body"] = "initiate"
        /\ answer' \in [Tasks -> Answers \cup {"none"}]
        /\ asked'["worker"] = asked["worker"] /\ answer'["worker"] = answer["worker"]
        /\ left' = left
    BY <1>0, <2>1, ProceedFacts
  <2>3. body' = "initiating" /\ UNCHANGED <<worker, next, over>>
    BY <1>3, <2>1 DEF At, RestOfBody, workerVars
  <2> QED  BY <1>0, <2>1, <2>2, <2>3, Aside DEF Begins, Live, Types
<1> QED  BY <1>1, <1>2, <1>3 DEF Initialized, At
LEMMA HistoryKeeps == ReplayInv /\ (Push \/ Pushed \/ Yield) => ReplayInv'
<1> SUFFICES ASSUME ReplayInv, Push \/ Pushed \/ Yield PROVE ReplayInv'  OBVIOUS
<1>0. Types /\ Calls /\ "body" \in Tasks /\ "worker" \in Tasks \ {"body"}
  BY Names DEF ReplayInv
<1>1. CASE Push
  <2>1. Ask("body", "push") /\ "push" \in Requests
    BY <1>1 DEF Push, push_replay_history, Requests
  <2>2. /\ asked' \in [Tasks -> Requests \cup {"none"}] /\ asked'["body"] = "push"
        /\ asked'["worker"] = asked["worker"] /\ answer' = answer /\ left' = left
    BY <1>0, <2>1, AskFacts
  <2>3. /\ body = "idle" /\ body' = "pushing" /\ ~over /\ next =< Histories
        /\ complete' = FALSE /\ failure' = "clean" /\ "clean" \in Verdicts
        /\ UNCHANGED <<next, over, yielded, worker, fed, replaying, verdict>>
    BY <1>1 DEF Push, At, RestOfBody, workerVars, coreVars, Verdicts
  <2>4. answer["body"] = "none" /\ Live /\ Fresh /\ Phases
    BY <1>0, <2>3 DEF Calls, Live, Fresh, IsFed, ReplayInv
  <2>5. Types'  BY <1>0, <2>2, <2>3 DEF Types
  <2>6. Calls'  BY <1>0, <2>2, <2>3 DEF Calls, Begins
  <2>7. InHand' /\ Yielded'  BY <2>3 DEF ReplayInv, InHand, Yielded
  <2>8. Phases'
    BY <2>2, <2>3, <2>4 DEF Phases, Begins, Live, IsFed, Fresh, NoVerdict
  <2> QED  BY <2>5, <2>6, <2>7, <2>8 DEF ReplayInv
<1>2. CASE Pushed
  <2>1. /\ Resume("body") /\ body = "pushing"
        /\ UNCHANGED <<next, cancelled, resultVars, yielded, worker, failed, coreVars>>
    BY <1>2 DEF Pushed, Answered, Raise, At, RestOfBody, workerVars
  <2>2. /\ asked' \in [Tasks -> Requests \cup {"none"}] /\ asked'["body"] = "none"
        /\ answer' \in [Tasks -> Answers \cup {"none"}] /\ answer'["body"] = "none"
        /\ asked'["worker"] = asked["worker"] /\ answer'["worker"] = answer["worker"]
        /\ left' = left
    BY <1>0, <2>1, ResumeFacts
  <2>3. CASE body' = "idle" /\ over'
    BY <1>0, <2>1, <2>2, <2>3, Aside DEF Types, Begins, Live
  <2>4. CASE answer["body"] = "ok" /\ body' = "waiting" /\ over' = over
    <3> USE DEF resultVars, coreVars
    <3>1. Types'  BY <1>0, <2>1, <2>2, <2>4 DEF Types
    <3>2. Calls'  BY <1>0, <2>1, <2>2, <2>4 DEF Calls, Begins
    <3>3. InHand' /\ Yielded'  BY <2>1 DEF ReplayInv, InHand, Yielded
    <3>4. Phases'
      BY <2>1, <2>2, <2>4 DEF ReplayInv, Phases, Begins, Live, IsFed, Fresh, Travels, NoVerdict
    <3> QED  BY <3>1, <3>2, <3>3, <3>4 DEF ReplayInv
  <2> QED  BY <1>2, <2>3, <2>4 DEF Pushed, Raise, At, RestOfBody
<1>3. CASE Yield
  <2>1. /\ body = "waiting" /\ body' = "idle" /\ complete
        /\ yielded' = Append(yielded, [history |-> next, failure |-> failure])
        /\ next' = next + 1
        /\ UNCHANGED <<over, cancelled, resultVars, worker, failed, asked, answer, left, coreVars>>
    BY <1>3 DEF Yield, At, workerVars, callVars
  <2> USE DEF resultVars, coreVars
  <2>2. next \in Nat \ {0} /\ [history |-> next, failure |-> failure] \in Result
    BY <1>0 DEF Types, Result
  <2>3. yielded \in Seq(Result) /\ Len(yielded) \in Nat  BY <1>0 DEF Types
  <2>4. /\ yielded' \in Seq(Result) /\ Len(yielded') = Len(yielded) + 1
        /\ \A i \in 1..Len(yielded) : yielded'[i] = yielded[i]
        /\ yielded'[Len(yielded) + 1] = [history |-> next, failure |-> failure]
    BY <2>1, <2>2, <2>3
  <2>5. Types'  BY <1>0, <2>1, <2>2, <2>4 DEF Types
  <2>6. Calls'  BY <1>0, <2>1 DEF Calls, Begins
  <2>7. /\ fed = <<>> /\ replaying = 0 /\ NoVerdict /\ failure = verdict[next]
        /\ left = {}
    BY <2>1 DEF ReplayInv, Phases, Begins, Live, IsFed, Travels
  <2>8. InHand'  BY <2>1, <2>7 DEF InHand
  <2>9. Yielded'
    <3>1. ASSUME NEW i \in 1..Len(yielded')
          PROVE  yielded'[i] = [history |-> i, failure |-> verdict[i]]
      BY <2>2, <2>3, <2>4, <2>7 DEF ReplayInv, Yielded
    <3> QED  BY <2>1, <2>2, <2>3, <2>4, <3>1 DEF ReplayInv, Yielded
  <2>10. Phases'
    BY <2>1, <2>7 DEF Phases, Begins, Live, IsFed, Fresh, NoVerdict
  <2> QED  BY <2>5, <2>6, <2>8, <2>9, <2>10 DEF ReplayInv
<1> QED  BY <1>1, <1>2, <1>3
\* What ends the iterator or leaves the context.
LEMMA LeavingKeeps ==
  ASSUME ReplayInv, RaiseWorkerError \/ Interrupt \/ Leave \/ Exit \/ Cancel  PROVE ReplayInv'
<1>0. Types /\ Calls /\ "body" \in Tasks /\ "worker" \in Tasks \ {"body"}
  BY Names DEF ReplayInv
<1>1. CASE RaiseWorkerError
  <2>1. /\ body = "waiting" /\ body' = "idle" /\ over' = TRUE
        /\ UNCHANGED <<next, resultVars, yielded, worker, asked, answer, left, coreVars>>
    BY <1>1 DEF RaiseWorkerError, Raise, At, workerVars, callVars
  <2> QED  BY <1>0, <2>1, Aside DEF Types, Calls, Begins, Live
<1>2. CASE Interrupt
  <2>1. /\ body' = "idle" /\ over' = TRUE /\ Abandon("body", {}) /\ {} \in SUBSET Requests
        /\ UNCHANGED <<next, resultVars, yielded, worker, coreVars>>
    BY <1>2 DEF Interrupt, Raise, At, workerVars
  <2> QED  BY <1>0, <2>1, AbandonFacts, Aside DEF Begins, Live
<1>3. CASE Leave
  <2>1. /\ body' = "closing" /\ over' = over /\ Ask("body", "close_pusher")
        /\ "close_pusher" \in Requests
        /\ UNCHANGED <<next, resultVars, yielded, worker, coreVars>>
    BY <1>3 DEF Leave, At, RestOfBody, workerVars, close_replay_pusher, Requests
  <2> QED  BY <1>0, <2>1, AskFacts, Aside DEF Types, Begins, Live
<1>4. CASE Exit
  <2>1. /\ body' \in {"joining", "initiating", "gone", "finalizing", "stopping", "exited"}
        /\ over' = over /\ UNCHANGED <<next, resultVars, yielded, worker, coreVars>>
    BY <1>4 DEF Exit, Closed, Joined, Initiated, Finalized, Stopped, Answered, At, RestOfBody,
       workerVars
  <2>2. \/ Resume("body") \/ Ask("body", "initiate") \/ Proceed("body", "finalize")
        \/ Proceed("body", "shutdown") \/ Abandon("body", {"initiate"})
    BY <1>4 DEF Exit, Closed, Joined, Initiated, Finalized, Stopped,
       initiate_replay_shutdown, finalize_replay_shutdown, shutdown
  <2>3. /\ {"initiate", "finalize", "shutdown"} \subseteq Requests
        /\ {"initiate"} \in SUBSET Requests
    BY DEF Requests
  <2>4. /\ asked' \in [Tasks -> Requests \cup {"none"}]
        /\ answer' \in [Tasks -> Answers \cup {"none"}] /\ left' \subseteq Requests
        /\ asked'["worker"] = asked["worker"] /\ answer'["worker"] = answer["worker"]
        /\ asked'["body"] \in {"none", "initiate", "finalize", "shutdown"}
    <3>1. CASE Resume("body")  BY <1>0, <3>1, ResumeFacts DEF Types
    <3>2. CASE Ask("body", "initiate")  BY <1>0, <2>3, <3>2, AskFacts DEF Types
    <3>3. CASE Proceed("body", "finalize")  BY <1>0, <2>3, <3>3, ProceedFacts DEF Types
    <3>4. CASE Proceed("body", "shutdown")  BY <1>0, <2>3, <3>4, ProceedFacts DEF Types
    <3>5. CASE Abandon("body", {"initiate"})  BY <1>0, <2>3, <3>5, AbandonFacts
    <3> QED  BY <2>2, <3>1, <3>2, <3>3, <3>4, <3>5
  <2> QED  BY <1>0, <2>1, <2>4, Aside DEF Types, Begins, Live
<1>5. CASE Cancel
  <2>1. /\ over' \in BOOLEAN /\ body' \in {"joining", "gone"}
        /\ UNCHANGED <<next, resultVars, yielded, worker, coreVars>>
    <3>1. /\ over' = (over \/ body \in {"pushing", "waiting"}) /\ body' \in {"joining", "gone"}
          /\ UNCHANGED <<next, resultVars, yielded, workerVars, coreVars>>
      BY <1>5 DEF Cancel
    <3> QED  BY <3>1 DEF workerVars
  <2>2. \/ \E qs \in SUBSET Requests : Abandon("body", qs)
        \/ body = "joining" /\ UNCHANGED callVars
    BY <1>5 DEF Cancel, Requests
  <2>3. /\ asked' \in [Tasks -> Requests \cup {"none"}]
        /\ answer' \in [Tasks -> Answers \cup {"none"}] /\ left' \subseteq Requests
        /\ asked'["worker"] = asked["worker"] /\ answer'["worker"] = answer["worker"]
        /\ asked'["body"] \notin {"poll", "push"}
    <3>1. CASE \E qs \in SUBSET Requests : Abandon("body", qs)
      BY <1>0, <3>1, AbandonFacts
    <3>2. CASE body = "joining" /\ UNCHANGED callVars
      BY <1>0, <3>2 DEF callVars, Types, Calls
    <3> QED  BY <2>2, <3>1, <3>2
  <2> QED  BY <2>1, <2>3, Aside DEF Begins, Live
<1> QED  BY <1>1, <1>2, <1>3, <1>4, <1>5
------------------------------------------------------------------------------
(* SDK-Core.                                                               *)
LEMMA ServeFacts ==
  ASSUME NEW q \in Requests \ {"poll"}, Serve(q)
  PROVE  /\ replaying' = replaying /\ verdict' = verdict
         /\ fed' = IF q = "push" THEN Append(fed, next) ELSE fed
BY DEF Serve, Requests, coreVars


LEMMA HandFacts ==
  ASSUME NEW a \in Answers, Hand(a)
  PROVE  \/ /\ a \notin Verdicts /\ UNCHANGED <<fed, replaying, verdict>>
         \/ /\ a \notin Verdicts /\ replaying = 0 /\ fed # <<>>
            /\ replaying' = Head(fed) /\ fed' = Tail(fed) /\ UNCHANGED verdict
         \/ /\ a \in Verdicts /\ replaying # 0 /\ replaying' = 0 /\ UNCHANGED fed
            /\ verdict' = [verdict EXCEPT ![replaying] = a]
BY Names DEF Hand, coreVars

\* Whatever SDK-Core does, it has no history but the one in hand.
LEMMA HandKeeps ==
  ASSUME Types, InHand, Yielded, UNCHANGED <<next, yielded>>, NEW a \in Answers, Hand(a)
  PROVE  /\ fed' \in Seq(Nat) /\ replaying' \in Nat
         /\ verdict' \in [1..Histories -> Verdicts \cup {"open"}]
         /\ InHand' /\ Yielded'
<1>1. CASE a \notin Verdicts /\ UNCHANGED <<fed, replaying, verdict>>
  BY <1>1 DEF Types, InHand, Yielded
<1>2. CASE /\ a \notin Verdicts /\ replaying = 0 /\ fed # <<>>
           /\ replaying' = Head(fed) /\ fed' = Tail(fed) /\ UNCHANGED verdict
  <2>1. fed \in Seq(Nat) /\ Len(fed) \in Nat /\ Len(fed) > 0
    BY <1>2, EmptySeq DEF Types
  <2>2. Head(fed) = fed[1] /\ 1 \in 1..Len(fed)  BY <2>1
  <2>3. /\ Tail(fed) \in Seq(Nat) /\ Len(Tail(fed)) = Len(fed) - 1
        /\ \A i \in 1..Len(Tail(fed)) : Tail(fed)[i] = fed[i + 1] /\ i + 1 \in 1..Len(fed)
    BY <2>1
  <2>4. replaying' = next  BY <1>2, <2>2 DEF InHand
  <2>5. InHand'  BY <1>2, <2>3, <2>4 DEF InHand
  <2> QED  BY <1>2, <2>3, <2>4, <2>5 DEF Types, Yielded
<1>3. CASE /\ a \in Verdicts /\ replaying # 0 /\ replaying' = 0 /\ UNCHANGED fed
           /\ verdict' = [verdict EXCEPT ![replaying] = a]
  <2>1. replaying = next /\ next \in Nat  BY <1>3 DEF InHand, Types
  <2>2. verdict' \in [1..Histories -> Verdicts \cup {"open"}]  BY <1>3 DEF Types
  <2>3. InHand'  BY <1>3 DEF InHand
  <2>4. Yielded'
    <3>1. Len(yielded) = next - 1 /\ Len(yielded) \in Nat  BY DEF Yielded, Types
    <3>2. ASSUME NEW i \in 1..Len(yielded)  PROVE verdict'[i] = verdict[i]
      <4>1. i # next  BY <2>1, <3>1
      <4>2. CASE i \in 1..Histories  BY <1>3, <2>1, <4>1, <4>2 DEF Types
      <4>3. CASE next \notin 1..Histories  BY <1>3, <2>1, <4>3 DEF Types
      <4>4. next \in 1..Histories => i \in 1..Histories  BY <2>1, <3>1, ReplayAssumption
      <4> QED  BY <4>2, <4>3, <4>4
    <3> QED  BY <3>2 DEF Yielded
  <2> QED  BY <1>3, <2>2, <2>3, <2>4 DEF Types
<1> QED  BY <1>1, <1>2, <1>3, HandFacts

\* SDK-Core answers one of the two tasks.
LEMMA ReplyFacts ==
  ASSUME Types, NEW t \in Tasks, NEW a \in Answers, Reply(t, a)
  PROVE  /\ asked[t] # "none" /\ answer[t] = "none" /\ asked' = asked /\ left' = left
         /\ answer' \in [Tasks -> Answers \cup {"none"}] /\ answer'[t] = a
         /\ \A u \in Tasks \ {t} : answer'[u] = answer[u]
         /\ UNCHANGED <<body, next, over, complete, failure, yielded, worker>>
BY DEF Types, Reply, RestOfCore, bodyVars, resultVars, workerVars

LEMMA ReplyToPoll ==
  ASSUME ReplayInv, NEW a \in Answers, Reply("worker", a), asked["worker"] = "poll"
  PROVE  ReplayInv'
<1>1. Types /\ Calls /\ InHand /\ Yielded /\ Phases /\ "worker" \in Tasks
      /\ "body" \in Tasks \ {"worker"} /\ Hand(a)
  BY Names DEF ReplayInv, Reply
<1>2. /\ answer["worker"] = "none" /\ asked' = asked /\ left' = left
      /\ answer' \in [Tasks -> Answers \cup {"none"}] /\ answer'["worker"] = a
      /\ answer'["body"] = answer["body"]
      /\ UNCHANGED <<body, next, over, complete, failure, yielded, worker>>
  BY <1>1, ReplyFacts
<1>3. /\ fed' \in Seq(Nat) /\ replaying' \in Nat
      /\ verdict' \in [1..Histories -> Verdicts \cup {"open"}] /\ InHand' /\ Yielded'
  BY <1>1, <1>2, HandKeeps
<1>4. Types'  BY <1>1, <1>2, <1>3 DEF Types
<1>5. Calls'  BY <1>1, <1>2 DEF Calls, Begins
<1>6. NoVerdict  BY <1>2, Names DEF NoVerdict
<1>7. Phases'
  <2>1. CASE a \notin Verdicts /\ UNCHANGED <<fed, replaying, verdict>>
    BY <1>1, <1>2, <1>6, <2>1
       DEF Phases, Begins, Live, IsFed, Fresh, Travels, NoVerdict
  <2>2. CASE /\ a \notin Verdicts /\ replaying = 0 /\ fed # <<>>
             /\ replaying' = Head(fed) /\ fed' = Tail(fed) /\ UNCHANGED verdict
    <3>1. ~Fresh  BY <1>1, <2>2 DEF Phases
    <3>2. ASSUME IsFed PROVE Travels'
      <4>1. ~complete /\ fed = <<next>>
        BY <1>1, <1>6, <2>2, <3>2 DEF Phases, Travels
      <4>2. Head(<<next>>) = next /\ Tail(<<next>>) = <<>>  OBVIOUS
      <4> QED  BY <1>2, <2>2, <4>1, <4>2 DEF Travels, NoVerdict
    <3> QED  BY <1>1, <1>2, <3>1, <3>2 DEF Phases, Begins, Live, IsFed, Fresh
  <2>3. CASE /\ a \in Verdicts /\ replaying # 0 /\ replaying' = 0 /\ UNCHANGED fed
             /\ verdict' = [verdict EXCEPT ![replaying] = a]
    <3>1. ~Fresh  BY <1>1, <2>3 DEF Phases
    <3>2. ASSUME IsFed PROVE Travels'
      <4>1. ~complete /\ fed = <<>> /\ replaying = next
        BY <1>1, <1>6, <2>3, <3>2 DEF Phases, Travels
      <4>2. next \in 1..Histories
        BY <1>1, <3>2, ReplayAssumption DEF Phases, Live, IsFed, Types
      <4>3. verdict'[next] = a  BY <1>1, <2>3, <4>1, <4>2 DEF Types
      <4> QED  BY <1>2, <2>3, <4>1, <4>3 DEF Travels, NoVerdict
    <3> QED  BY <1>1, <1>2, <3>1, <3>2 DEF Phases, Begins, Live, IsFed, Fresh
  <2> QED  BY <1>1, <2>1, <2>2, <2>3, HandFacts
<1> QED  BY <1>3, <1>4, <1>5, <1>7 DEF ReplayInv

LEMMA ReplyToCall ==
  ASSUME ReplayInv, NEW t \in Tasks, NEW a \in Answers, Reply(t, a), asked[t] # "poll"
  PROVE  ReplayInv'
<1>1. Types /\ Calls /\ InHand /\ Yielded /\ Phases /\ asked[t] \in Requests \ {"poll"}
  BY DEF ReplayInv, Reply, Types
<1>2. /\ asked[t] # "none" /\ answer[t] = "none" /\ asked' = asked /\ left' = left
      /\ answer' \in [Tasks -> Answers \cup {"none"}] /\ answer'[t] = a
      /\ \A u \in Tasks \ {t} : answer'[u] = answer[u]
      /\ UNCHANGED <<body, next, over, complete, failure, yielded, worker>>
  BY <1>1, ReplyFacts
<1>3. a \in {"ok", "error"} /\ a \notin Verdicts  BY Names DEF Reply
<1>4. /\ replaying' = replaying /\ verdict' = verdict
      /\ fed' = IF asked[t] = "push" /\ a = "ok" THEN Append(fed, next) ELSE fed
  <2>1. CASE a = "ok"
    <3>1. Serve(asked[t])  BY <2>1 DEF Reply
    <3> QED  BY <1>1, <2>1, <3>1, ServeFacts
  <2>2. CASE a = "error"
    BY <2>2 DEF Reply, coreVars
  <2> QED  BY <1>3, <2>1, <2>2
<1>5. Calls'  BY <1>1, <1>2, <1>3, Names DEF Calls, Begins
<1>6. NoVerdict' <=> NoVerdict  BY <1>2, <1>3, Names DEF NoVerdict
<1>7. CASE asked[t] = "push" /\ a = "ok"
  <2>1. t = "body" /\ body = "pushing" /\ Fresh /\ next \in Nat
    BY <1>1, <1>2, <1>7, Names DEF Calls, Phases, Live, IsFed, Fresh, Types
  <2>2. fed = <<>> /\ replaying = 0 /\ NoVerdict /\ ~complete
    BY <1>1, <2>1 DEF Phases
  <2>3. fed' = <<next>> /\ Len(<<next>>) = 1 /\ <<next>> \in Seq(Nat) /\ <<next>>[1] = next
    BY <1>4, <1>7, <2>1, <2>2
  <2>4. Types'  BY <1>1, <1>2, <1>4, <2>3 DEF Types
  <2>5. InHand' /\ Yielded'  BY <1>1, <1>2, <1>4, <2>3 DEF InHand, Yielded
  <2>6. Travels'  BY <1>2, <1>4, <1>6, <2>2, <2>3 DEF Travels
  <2>7. Phases'  BY <1>1, <1>2, <1>7, <2>1, <2>6 DEF Phases, Begins, Live, IsFed, Fresh
  <2> QED  BY <1>5, <2>4, <2>5, <2>7 DEF ReplayInv
<1>8. CASE ~(asked[t] = "push" /\ a = "ok")
  <2>1. Types'  BY <1>1, <1>2, <1>4, <1>8 DEF Types
  <2>2. InHand' /\ Yielded'  BY <1>1, <1>2, <1>4, <1>8 DEF InHand, Yielded
  <2>3. IsFed' <=> IsFed
    <3>1. CASE t = "body"
      <4>1. body = "pushing" => asked[t] = "push"  BY <1>1, <3>1 DEF Calls
      <4> QED  BY <1>2, <1>3, <1>8, <3>1, <4>1, Names DEF IsFed, Live
    <3>2. CASE t = "worker"
      <4>1. answer'["body"] = answer["body"]  BY <1>2, <3>2, Names
      <4> QED  BY <1>2, <4>1 DEF IsFed, Live
    <3> QED  BY <3>1, <3>2, Names
  <2>4. Fresh' <=> Fresh  BY <1>2, <2>3 DEF Fresh, Begins, Live
  <2>5. ASSUME IsFed PROVE Travels'
    <3>1. Travels  BY <1>1, <2>5 DEF Phases
    <3>2. NoVerdict \/ answer'["worker"] = answer["worker"]
      BY <1>2, Names DEF NoVerdict
    <3> QED  BY <1>2, <1>4, <1>6, <1>8, <3>1, <3>2 DEF Travels
  <2>6. Phases'
    BY <1>1, <1>2, <1>4, <1>6, <1>8, <2>3, <2>4, <2>5 DEF Phases, Begins, Live
  <2> QED  BY <1>5, <2>1, <2>2, <2>6 DEF ReplayInv
<1> QED  BY <1>7, <1>8

LEMMA NobodyKeeps ==
  ASSUME ReplayInv, NEW q \in left, ReplyToNobody(q)  PROVE ReplayInv'
<1>1. Types /\ Calls /\ InHand /\ Yielded /\ Phases /\ q \in Requests
  BY DEF ReplayInv, Types
<1>2. ~Begins /\ ~Live  BY <1>1 DEF Phases
<1>3. /\ asked' = asked /\ answer' = answer /\ left' \subseteq Requests
      /\ UNCHANGED <<body, next, over, complete, failure, yielded, worker>>
  BY <1>1 DEF ReplyToNobody, RestOfCore, bodyVars, resultVars, workerVars, Types
<1>4. /\ fed' \in Seq(Nat) /\ replaying' \in Nat
      /\ verdict' \in [1..Histories -> Verdicts \cup {"open"}] /\ InHand' /\ Yielded'
  <2>1. CASE q = "poll"
    <3>1. PICK a \in Answers : Hand(a)  BY <2>1 DEF ReplyToNobody
    <3> QED  BY <1>1, <1>3, <3>1, HandKeeps
  <2>2. CASE q # "poll"
    <3>1. /\ replaying' = replaying /\ verdict' = verdict
          /\ fed' = fed \/ fed' = Append(fed, next)
      BY <1>1, <2>2, ServeFacts DEF ReplyToNobody, coreVars
    <3>2. /\ fed \in Seq(Nat) /\ next \in Nat /\ Len(fed) \in Nat  BY <1>1 DEF Types
    <3>3. /\ Append(fed, next) \in Seq(Nat) /\ Len(Append(fed, next)) = Len(fed) + 1
          /\ \A i \in 1..Len(fed) : Append(fed, next)[i] = fed[i]
          /\ Append(fed, next)[Len(fed) + 1] = next
      BY <3>2
    <3>4. \A i \in 1..Len(fed') : fed'[i] = next  BY <1>1, <3>1, <3>2, <3>3 DEF InHand
    <3> QED  BY <1>1, <1>3, <3>1, <3>2, <3>3, <3>4 DEF Types, InHand, Yielded
  <2> QED  BY <2>1, <2>2
<1>5. Types'  BY <1>1, <1>3, <1>4 DEF Types
<1>6. Calls'  BY <1>1, <1>3 DEF Calls, Begins
<1>7. Phases'  BY <1>1, <1>2, <1>3 DEF Phases, Begins, Live, IsFed, Fresh
<1> QED  BY <1>4, <1>5, <1>6, <1>7 DEF ReplayInv
------------------------------------------------------------------------------
LEMMA ReplayInvariant == Spec => []ReplayInv
<1>1. ASSUME ReplayInv, [Next]_vars PROVE ReplayInv'
  <2>1. CASE Worker  BY <1>1, <2>1, WorkerKeeps
  <2>2. CASE Body
    BY <1>1, <2>2, BeginKeeps, HistoryKeeps, LeavingKeeps DEF Body, Iterator
  <2>3. CASE Core
    BY <1>1, <2>3, ReplyToPoll, ReplyToCall, NobodyKeeps, Names DEF Core, ReplayInv, Calls
  <2>4. CASE UNCHANGED vars
    <3> USE <1>1, <2>4 DEF vars, bodyVars, resultVars, workerVars, callVars, coreVars, ReplayInv
    <3>1. Types' /\ Calls'  BY DEF Types, Calls, Begins
    <3>2. InHand' /\ Yielded'  BY DEF InHand, Yielded
    <3>3. Phases'  BY DEF Phases, Begins, Live, IsFed, Fresh, Travels, NoVerdict
    <3> QED  BY <3>1, <3>2, <3>3
  <2> QED  BY <1>1, <2>1, <2>2, <2>3, <2>4 DEF Next
<1> QED  BY <1>1, InitIsReplay, PTL DEF Spec

(* Each result is of its own history and has the verdict of SDK-Core on it *)
(* (_replayer.py:183-207, 249-288), also after calls that were given up.   *)
THEOREM VerdictsKept == Spec => []VerdictOfHistory
<1>1. ASSUME ReplayInv PROVE VerdictOfHistory
  <2>1. DOMAIN yielded = 1..Len(yielded)  BY <1>1, LenProperties DEF ReplayInv, Types
  <2> QED  BY <1>1, <2>1 DEF ReplayInv, Yielded, VerdictOfHistory
<1> QED  BY <1>1, ReplayInvariant, PTL
==============================================================================
