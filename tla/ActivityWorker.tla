--------------------------- MODULE ActivityWorker ----------------------------
(***************************************************************************)
(* The activity half of the worker (worker/_activity.py with activity.py): *)
(* one handler task per activity, which decodes its arguments, runs the    *)
(* function in a cancel scope of its own beside a task that throttles its  *)
(* heartbeats, and sends one completion.  Cancellation comes from SDK-Core,*)
(* from a heartbeat that cannot be recorded and from the worker's end.     *)
(*                                                                         *)
(* A task runs alone from one await to the next: one action.  A request    *)
(* takes its place in the bridge's queue when it is sent (AsyncBridge), so *)
(* wire, the requests in their order, is what SDK-Core gets to see.        *)
(***************************************************************************)
EXTENDS Naturals, Sequences, Functions, FiniteSets

CONSTANTS
  Activities,  \* task tokens
  Suspending,  \* activities for whose payloads the codec suspends
  MaxStarts,   \* activities that SDK-Core starts, a bound
  MaxBeats,    \* heartbeats of all activities, a bound; a channel holds 1000
  Env          \* what may happen, see EnvKinds

\* "cancel":    SDK-Core cancels an activity, once (a bound)
\* "shutdown":  the nursery of the worker is cancelled
\* "unknown":   no activity of that type
\* "close":     the client is closed: the bridge refuses every request
\* "decode", "encode": arguments, or an outcome and the details of a heartbeat,
\*              cannot be converted
\* "beat":      a heartbeat is answered with an error
\* "async":     the function raises _CompleteAsyncError
\* "refuse":    a completion is answered with an error
EnvKinds == {"cancel", "shutdown", "unknown", "close", "decode", "encode", "beat",
             "async", "refuse"}

ASSUME ActivitiesAssumption ==
  /\ Suspending \subseteq Activities
  /\ MaxStarts \in Nat /\ MaxBeats \in Nat
  /\ Env \subseteq EnvKinds

\* How an activity is completed: "beat" is a failure because of a heartbeat,
\* "empty" a completion without a result, "none" no completion.
Outcomes == {"completed", "failed", "cancelled", "beat", "async", "empty", "none"}

VARIABLES
  (* SDK-Core (external) *)
  sent,       \* per activity: jobs SDK-Core has sent, of start and cancel
  wire,       \* per activity: heartbeats (their details) and completion, as sent
  bridge,     \* open, closed
  (* the worker *)
  nursery,    \* of run: open, cancelled
  registered, \* the keys of _running_activities
  (* the handler and the function of each activity *)
  handler,    \* none, spawned, decoding, running, encoding, closing,
              \* completing, reporting (_send_failure), over
  outcome,    \* what the completion will say
  raising,    \* an exception leaves the handler's nursery
  scope,      \* cancel_scope: none, open, cancelled
  cause,      \* cancelled_by_request ("request") or ..._heartbeat_error ("beat");
              \* cancelled_event is set if it is not "none"
  (* _process_heartbeats and its channel; details are numbered *)
  processor,  \* none, started, receiving, handed, encoding, sending, over
  beats,      \* details the function has recorded
  taken,      \* details the processor has received
  pending,    \* pending_details, 0 for None
  throttled,  \* a heartbeat was sent: the next one may have to wait
  failed      \* history: the last details whose sending raised, 0 for none

coreVars    == <<sent, wire, bridge>>
workerVars  == <<nursery, registered>>
handlerVars == <<handler, outcome, raising>>
cancelVars  == <<scope, cause>>
beatVars    == <<processor, beats, taken, pending, throttled, failed>>
vars == <<coreVars, workerVars, handlerVars, cancelVars, beatVars>>

Init ==
  /\ sent = [a \in Activities |-> {}] /\ wire = [a \in Activities |-> <<>>]
  /\ bridge = "open"
  /\ nursery = "open" /\ registered = {}
  /\ handler = [a \in Activities |-> "none"]
  /\ outcome = [a \in Activities |-> "none"]
  /\ raising = [a \in Activities |-> FALSE]
  /\ scope = [a \in Activities |-> "none"]
  /\ cause = [a \in Activities |-> "none"]
  /\ processor = [a \in Activities |-> "none"]
  /\ beats = [a \in Activities |-> 0] /\ taken = [a \in Activities |-> 0]
  /\ pending = [a \in Activities |-> 0]
  /\ throttled = [a \in Activities |-> FALSE]
  /\ failed = [a \in Activities |-> 0]

Stopping == nursery = "cancelled"
Go(a, where) == handler' = [handler EXCEPT ![a] = where]
Put(a, what) == wire' = [wire EXCEPT ![a] = Append(@, what)]
Beat(n)       == [details |-> n, result |-> "none"]
Completion(o) == [details |-> 0, result |-> o]
------------------------------------------------------------------------------
(* The poll loop starts a task for each job; a start is handled before the *)
(* loop can poll again.                                                    *)
PollStart(a) ==
  /\ ~Stopping /\ sent[a] = {}
  /\ Cardinality({b \in Activities : sent[b] # {}}) < MaxStarts
  /\ sent' = [sent EXCEPT ![a] = {"start"}]
  /\ Go(a, "spawned")
  /\ UNCHANGED <<wire, bridge, workerVars, outcome, raising, cancelVars, beatVars>>

\* mutant: only the event is set
cancelMutant(a, why) == cause' = [cause EXCEPT ![a] = why] /\ UNCHANGED scope

(* _RunningActivity.cancel: the reason is overwritten; the scope is there  *)
(* only while the function runs or after it.                               *)
cancel(a, why) ==
  /\ cause' = [cause EXCEPT ![a] = why]
  /\ scope' = [scope EXCEPT ![a] =
       IF @ = "open" /\ handler[a] \notin {"completing", "over"} THEN "cancelled" ELSE @]

_handle_cancel_activity(a) ==
  /\ "cancel" \in Env /\ ~Stopping
  /\ sent[a] = {"start"} /\ handler[a] # "spawned"
  /\ sent' = [sent EXCEPT ![a] = @ \cup {"cancel"}]
  /\ IF a \in registered THEN cancel(a, "request") ELSE UNCHANGED cancelVars
  /\ UNCHANGED <<wire, bridge, workerVars, handlerVars, beatVars>>

(* run: the nursery is cancelled by shutdown, or by what a task raises.    *)
Shutdown ==
  /\ "shutdown" \in Env /\ ~Stopping
  /\ nursery' = "cancelled"
  /\ UNCHANGED <<coreVars, registered, handlerVars, cancelVars, beatVars>>

\* Another task closes the client (WorkerLifecycle).
CloseBridge ==
  /\ "close" \in Env /\ bridge = "open"
  /\ bridge' = "closed"
  /\ UNCHANGED <<sent, wire, workerVars, handlerVars, cancelVars, beatVars>>
------------------------------------------------------------------------------
(* _handle_start_activity, up to the function.                             *)

\* The handler's nursery opens and both of its tasks start.
StartFunction(a) ==
  /\ Go(a, "running")
  /\ scope' = [scope EXCEPT ![a] = "open"]
  /\ processor' = [processor EXCEPT ![a] = "started"]
  /\ UNCHANGED <<wire, nursery, outcome, raising, cause, beats, taken, pending,
                 throttled, failed>>

\* _send_failure: an entry in _running_activities stays there.  A request that
\* is refused raises, which ends the handler and the worker.
_send_failure(a) ==
  /\ IF bridge = "open"
     THEN Go(a, "reporting") /\ Put(a, Completion("failed")) /\ UNCHANGED nursery
     ELSE Go(a, "over") /\ UNCHANGED wire /\ nursery' = "cancelled"
  /\ UNCHANGED <<outcome, raising, cancelVars, beatVars>>

DecodeArgs(a) == StartFunction(a) \/ ("decode" \in Env /\ _send_failure(a))

Begin(a) ==
  /\ handler[a] = "spawned"
  /\ \/ "unknown" \in Env /\ _send_failure(a) /\ UNCHANGED registered
     \/ /\ registered' = registered \cup {a}
        /\ IF a \in Suspending
           THEN /\ Go(a, "decoding")
                /\ UNCHANGED <<wire, nursery, outcome, raising, cancelVars, beatVars>>
           ELSE DecodeArgs(a)
  /\ UNCHANGED <<sent, bridge>>

\* Cancelled passes through: nothing is sent.
Decoded(a) ==
  /\ handler[a] = "decoding"
  /\ IF Stopping
     THEN /\ Go(a, "over")
          /\ UNCHANGED <<wire, nursery, outcome, raising, cancelVars, beatVars>>
     ELSE DecodeArgs(a)
  /\ UNCHANGED <<sent, bridge, registered>>

\* The answer to a failure that was reported; an error ends the worker.
Reported(a) ==
  /\ handler[a] = "reporting" /\ Go(a, "over")
  /\ nursery' \in {nursery} \cup (IF "refuse" \in Env THEN {"cancelled"} ELSE {})
  /\ UNCHANGED <<coreVars, registered, outcome, raising, cancelVars, beatVars>>
------------------------------------------------------------------------------
(* The function.                                                           *)

\* activity.heartbeat: a processor that waits gets the details handed over.
heartbeat(a) ==
  /\ handler[a] = "running" /\ processor[a] # "over"
  /\ FoldFunction(+, 0, beats) < MaxBeats
  /\ beats' = [beats EXCEPT ![a] = @ + 1]
  /\ IF processor[a] = "receiving" /\ taken[a] = beats[a]
     THEN /\ processor' = [processor EXCEPT ![a] = "handed"]
          /\ taken' = [taken EXCEPT ![a] = @ + 1]
     ELSE UNCHANGED <<processor, taken>>
  /\ UNCHANGED <<coreVars, workerVars, handlerVars, cancelVars, pending, throttled,
                 failed>>

\* mutant: every cancelled scope is blamed on a heartbeat
CancelOutcomeMutant(a) == IF scope[a] = "cancelled" THEN "beat" ELSE "cancelled"

\* What a cancelled function is completed with.
CancelOutcome(a) == CASE cause[a] = "beat" -> "beat" [] OTHER -> "cancelled"
\* Only Cancelled that no one asked for is reported without a conversion.
Converts(a, how) == how # "async" /\ ~(how = "cancelled" /\ cause[a] = "none")

\* What a conversion that raises leaves in the completion: the failure, if it
\* was the codec that raised, else nothing.
Left(how) == {"empty"} \cup ({how} \ {"completed"})

Conclude(a, how, raises) ==
  /\ outcome' = [outcome EXCEPT ![a] = how]
  /\ raising' = [raising EXCEPT ![a] = raises]
  /\ Go(a, "closing")

\* encode and encode_failure: what they raise leaves the nursery, Cancelled, too,
\* which a codec that suspends is sure to raise once the worker stops.
Convert(a, how) ==
  LET cut == a \in Suspending /\ Stopping
  IN \/ ~cut /\ Conclude(a, how, FALSE)
     \/ (cut \/ "encode" \in Env) /\ \E left \in Left(how) : Conclude(a, left, TRUE)

\* A function that returns None has no result to convert.
FunctionEnds(a) ==
  /\ handler[a] = "running"
  /\ \E how \in {"completed", "failed", "async", CancelOutcome(a)} :
       /\ how = "async" => "async" \in Env
       /\ how \in {"cancelled", "beat"} => scope[a] = "cancelled" \/ Stopping
       /\ \/ (~Converts(a, how) \/ how = "completed") /\ Conclude(a, how, FALSE)
          \/ Converts(a, how) /\ a \notin Suspending /\ Convert(a, how)
          \/ /\ Converts(a, how) /\ a \in Suspending
             /\ outcome' = [outcome EXCEPT ![a] = how]
             /\ Go(a, "encoding") /\ UNCHANGED raising
  /\ UNCHANGED <<coreVars, workerVars, cancelVars, beatVars>>

Encoded(a) ==
  /\ handler[a] = "encoding" /\ Convert(a, outcome[a])
  /\ UNCHANGED <<coreVars, workerVars, cancelVars, beatVars>>

\* The end of the handler, with what it raised.
Leave(a) ==
  /\ Go(a, "over")
  /\ registered' = registered \ {a}
  /\ nursery' = IF raising[a] THEN "cancelled" ELSE nursery

\* The completion is sent; an error of the call is logged.
SendCompletion(a) ==
  /\ IF outcome[a] # "async" /\ bridge = "open"
     THEN Go(a, "completing") /\ Put(a, Completion(outcome[a])) /\ UNCHANGED workerVars
     ELSE Leave(a) /\ UNCHANGED wire
  /\ UNCHANGED <<sent, bridge, outcome, raising, cancelVars, beatVars>>

\* mutant: the heartbeats' task is not waited for
CompleteMutant(a) == handler[a] = "closing" /\ SendCompletion(a)

(* The nursery of the handler is over: done, and the completion is sent.   *)
Complete(a) ==
  /\ handler[a] = "closing" /\ processor[a] = "over"
  /\ SendCompletion(a)

\* mutant: the entry stays when the handler raises
CompletedMutant(a) ==
  /\ handler[a] = "completing" /\ Go(a, "over")
  /\ registered' = IF raising[a] THEN registered ELSE registered \ {a}
  /\ UNCHANGED <<coreVars, nursery, outcome, raising, cancelVars, beatVars>>

(* The bridge has answered; an error is logged.  Cancelled skips the rest. *)
Completed(a) ==
  /\ handler[a] = "completing"
  /\ Leave(a) \/ (Stopping /\ Go(a, "over") /\ UNCHANGED workerVars)
  /\ UNCHANGED <<coreVars, outcome, raising, cancelVars, beatVars>>
------------------------------------------------------------------------------
(* _process_heartbeats                                                     *)
Step(a, from, to) == processor[a] = from /\ processor' = [processor EXCEPT ![a] = to]
InterruptedMutant(a) == Stopping  \* mutant: the function's end does not cancel it
\* Cancelled is raised at its next await.
Interrupted(a) == handler[a] = "closing" \/ Stopping
RestOf == <<sent, bridge, workerVars, handlerVars>>

StartProcessor(a) ==
  /\ Step(a, "started", IF Interrupted(a) THEN "over" ELSE "receiving")
  /\ UNCHANGED <<RestOf, wire, cancelVars, beats, taken, pending, throttled, failed>>

\* Details that wait in the channel.
Receive(a) ==
  /\ Step(a, "receiving", "handed") /\ taken[a] < beats[a] /\ ~Interrupted(a)
  /\ taken' = [taken EXCEPT ![a] = @ + 1]
  /\ UNCHANGED <<RestOf, wire, cancelVars, beats, pending, throttled, failed>>

\* _send_heartbeat, once the details are converted: the request takes its place
\* in the queue, or is refused.
Record(a, n) ==
  bridge = "open" /\ Put(a, Beat(n)) /\ UNCHANGED <<cancelVars, failed>>

\* Its except clause: nothing was sent, and the activity is cancelled for it.
RecordFails(a, n) ==
  /\ "encode" \in Env \/ bridge = "closed"
  /\ cancel(a, "beat")
  /\ failed' = [failed EXCEPT ![a] = n]
  /\ UNCHANGED wire

SetPending(a, n) == pending' = [pending EXCEPT ![a] = n]

\* A heartbeat without details has nothing to convert.
_send_heartbeat(a) ==
  \/ Step(a, "handed", "sending") /\ SetPending(a, taken[a]) /\ Record(a, taken[a])
  \/ Step(a, "handed", "receiving") /\ SetPending(a, 0) /\ RecordFails(a, taken[a])
  \/ /\ a \in Suspending
     /\ Step(a, "handed", "encoding") /\ SetPending(a, taken[a])
     /\ UNCHANGED <<wire, cancelVars, failed>>

Throttle(a) ==
  /\ \/ _send_heartbeat(a) /\ throttled' = [throttled EXCEPT ![a] = TRUE]
     \/ /\ throttled[a] /\ Step(a, "handed", "receiving") /\ SetPending(a, taken[a])
        /\ UNCHANGED <<wire, cancelVars, throttled, failed>>
  /\ UNCHANGED <<RestOf, beats, taken>>

BeatEncoded(a) ==
  /\ ~Interrupted(a)
  /\ \/ Step(a, "encoding", "sending") /\ Record(a, pending[a]) /\ UNCHANGED pending
     \/ Step(a, "encoding", "receiving") /\ RecordFails(a, pending[a]) /\ SetPending(a, 0)
  /\ UNCHANGED <<RestOf, beats, taken, throttled>>

\* An error for an answer cancels the activity, too.
BeatAnswered(a) ==
  /\ Step(a, "sending", "receiving")
  /\ SetPending(a, 0)
  /\ UNCHANGED cancelVars \/ ("beat" \in Env /\ cancel(a, "beat"))
  /\ UNCHANGED <<RestOf, wire, beats, taken, throttled, failed>>

\* mutant: what is pending is dropped
FlushMutant(a) ==
  /\ Interrupted(a) /\ processor[a] \in {"receiving", "encoding", "sending"}
  /\ Step(a, processor[a], "over")
  /\ UNCHANGED <<RestOf, wire, cancelVars, beats, taken, pending, throttled, failed>>

\* except trio.Cancelled: what is pending is sent (once more, if it was under
\* way), unless its conversion suspends and is cancelled, too.
Flush(a) ==
  /\ Interrupted(a) /\ processor[a] \in {"receiving", "encoding", "sending"}
  /\ Step(a, processor[a], "over")
  /\ \/ pending[a] # 0 /\ (Record(a, pending[a]) \/ RecordFails(a, pending[a]))
     \/ /\ pending[a] = 0 \/ a \in Suspending
        /\ UNCHANGED <<wire, cancelVars, failed>>
  /\ UNCHANGED <<RestOf, beats, taken, pending, throttled>>
------------------------------------------------------------------------------
Handler(a)   == \/ Begin(a) \/ Decoded(a) \/ Reported(a) \/ FunctionEnds(a)
                \/ Encoded(a) \/ Complete(a) \/ Completed(a)
Processor(a) == \/ StartProcessor(a) \/ Receive(a) \/ Throttle(a)
                \/ BeatEncoded(a) \/ BeatAnswered(a) \/ Flush(a)
Next ==
  \/ Shutdown \/ CloseBridge
  \/ \E a \in Activities :
       \/ PollStart(a) \/ _handle_cancel_activity(a)
       \/ heartbeat(a) \/ Handler(a) \/ Processor(a)

Spec == Init /\ [][Next]_vars
\* Trio runs its tasks, the bridge answers, functions and codecs come to an end.
FairSpec == Spec /\ \A a \in Activities : WF_vars(Handler(a)) /\ WF_vars(Processor(a))
------------------------------------------------------------------------------
TypeOK ==
  /\ sent \in [Activities -> SUBSET {"start", "cancel"}]
  /\ wire \in [Activities -> Seq([details : 0..MaxBeats, result : Outcomes])]
  /\ bridge \in {"open", "closed"}
  /\ nursery \in {"open", "cancelled"} /\ registered \subseteq Activities
  /\ handler \in [Activities -> {"none", "spawned", "decoding", "running", "encoding",
                                 "closing", "completing", "reporting", "over"}]
  /\ outcome \in [Activities -> Outcomes] /\ raising \in [Activities -> BOOLEAN]
  /\ scope \in [Activities -> {"none", "open", "cancelled"}]
  /\ cause \in [Activities -> {"none", "request", "beat"}]
  /\ processor \in [Activities -> {"none", "started", "receiving", "handed", "encoding",
                                   "sending", "over"}]
  /\ beats \in [Activities -> 0..MaxBeats] /\ taken \in [Activities -> 0..MaxBeats]
  /\ pending \in [Activities -> 0..MaxBeats] /\ throttled \in [Activities -> BOOLEAN]
  /\ failed \in [Activities -> 0..MaxBeats]

CompletionsIn(w) == {i \in DOMAIN w : w[i].result # "none"}

(* An activity is completed at most once, and no heartbeat follows: the    *)
(* heartbeats' task is over when the completion is sent (_activity.py:404- *)
(* 416), whatever ends the activity.                                       *)
CompletionIsLast ==
  \A a \in Activities : \A i \in CompletionsIn(wire[a]) : i = Len(wire[a])

(* SDK-Core gets heartbeats in the order of the function's calls, and by   *)
(* the time of the completion the latest that was received from the        *)
(* channel, unless sending that very one raised or a codec suspends        *)
(* (_activity.py:472-517).                                                 *)
LatestDetails ==
  \A a \in Activities :
    /\ \A i, j \in DOMAIN wire[a] \ CompletionsIn(wire[a]) :
         i < j => wire[a][i].details =< wire[a][j].details
    /\ handler[a] = "completing" /\ a \notin Suspending /\ taken[a] > 0 =>
         \/ Len(wire[a]) > 1 /\ wire[a][Len(wire[a]) - 1].details = taken[a]
         \/ failed[a] = taken[a]

(* A completion says "cancelled" only if SDK-Core asked for it or the      *)
(* worker ends, and blames a heartbeat only if one was sent before it or   *)
(* sending one raised (_activity.py:358-385, 512-517).                     *)
CauseReported ==
  \A a \in Activities : \A i \in CompletionsIn(wire[a]) :
    /\ wire[a][i].result = "cancelled" => "cancel" \in sent[a] \/ Stopping
    /\ wire[a][i].result = "beat" =>
         failed[a] # 0 \/ \E j \in 1..(i-1) : wire[a][j].result = "none"

(* Who asks is_cancelled while the function runs is being cancelled, unless*)
(* the cancel came while a codec was decoding (_activity.py:82-86).        *)
CancelReaches ==
  \A a \in Activities \ Suspending :
    handler[a] = "running" /\ cause[a] # "none" => scope[a] = "cancelled"

(* _running_activities keeps no entry of a handler that has ended, unless  *)
(* its arguments were not decoded or the worker ends (_activity.py:421).   *)
NoEntryLeft ==
  \A a \in registered : handler[a] = "over" => Stopping \/ scope[a] = "none"

(* Every activity started is completed or left to be completed from outside*)
(* (_activity.py:248-424); only a closed client, or a codec that suspends  *)
(* while the worker ends, can prevent it.                                  *)
Answered ==
  \A a \in Activities :
    (sent[a] # {}) ~> \/ CompletionsIn(wire[a]) # {} \/ outcome[a] = "async"
                     \/ (a \in Suspending /\ Stopping) \/ bridge = "closed"
==============================================================================
