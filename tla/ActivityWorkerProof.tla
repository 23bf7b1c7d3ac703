------------------------ MODULE ActivityWorkerProof --------------------------
(***************************************************************************)
(* The activity worker, for any activities, codecs and numbers of          *)
(* heartbeats.  Good(a) is what holds of one activity at a time; a step of *)
(* one activity leaves the others alone, but for the worker's end, which   *)
(* only makes Good weaker.                                                 *)
(***************************************************************************)
EXTENDS ActivityWorker, SequenceTheorems, TLAPS

HandlerPlaces   == {"none", "spawned", "decoding", "running", "encoding", "closing",
                    "completing", "reporting", "over"}
ProcessorPlaces == {"none", "started", "receiving", "handed", "encoding", "sending", "over"}
USE DEF HandlerPlaces, ProcessorPlaces

Message == [details : Nat, result : Outcomes]
Types ==
  /\ sent \in [Activities -> SUBSET {"start", "cancel"}]
  /\ wire \in [Activities -> Seq(Message)] /\ bridge \in {"open", "closed"}
  /\ nursery \in {"open", "cancelled"} /\ registered \subseteq Activities
  /\ handler \in [Activities -> HandlerPlaces]
  /\ outcome \in [Activities -> Outcomes] /\ raising \in [Activities -> BOOLEAN]
  /\ scope \in [Activities -> {"none", "open", "cancelled"}]
  /\ cause \in [Activities -> {"none", "request", "beat"}]
  /\ processor \in [Activities -> ProcessorPlaces]
  /\ beats \in [Activities -> Nat] /\ taken \in [Activities -> Nat]
  /\ pending \in [Activities -> Nat] /\ throttled \in [Activities -> BOOLEAN]
  /\ failed \in [Activities -> Nat]

Early   == {"none", "spawned", "decoding", "reporting"}
Working == {"running", "encoding", "closing"}
Before  == {"none", "spawned", "decoding"} \cup Working   \* of the completion

\* Where the handler and the task of the heartbeats may be together.
Stages(a) ==
  /\ handler[a] = "none" <=> sent[a] = {}
  /\ handler[a] \in Early => processor[a] = "none" /\ scope[a] = "none"
  /\ handler[a] \in Working => processor[a] # "none" /\ scope[a] # "none"
  /\ handler[a] = "completing" => processor[a] = "over"
  /\ handler[a] = "over" => processor[a] \in {"none", "over"}
  /\ handler[a] \in {"encoding", "closing"} => outcome[a] # "none"

\* Only heartbeats before the completion, only one completion.
Wired(a) ==
  /\ handler[a] \in Before => \A i \in 1..Len(wire[a]) : wire[a][i].result = "none"
  /\ \A i \in 1..Len(wire[a]) : wire[a][i].result # "none" => i = Len(wire[a])

\* What has been received, what is pending and what has been sent.
Details(a) ==
  /\ processor[a] \in {"none", "started"} => taken[a] = 0 /\ pending[a] = 0
  /\ processor[a] = "receiving" => pending[a] \in {0, taken[a]}
  /\ processor[a] \in {"encoding", "sending"} => pending[a] = taken[a]
  /\ processor[a] \in {"handed", "encoding", "sending"} => taken[a] # 0
  /\ \A i \in 1..Len(wire[a]) : wire[a][i].result = "none" => wire[a][i].details =< taken[a]
  /\ \A i, j \in 1..Len(wire[a]) :
       wire[a][i].result = "none" /\ wire[a][j].result = "none" /\ i < j =>
         wire[a][i].details =< wire[a][j].details

\* The latest that was received has been sent, if sending it did not raise.
Sent(a) ==
  \/ processor[a] \in {"sending", "over"}
  \/ processor[a] = "receiving" /\ pending[a] = 0
Recent(a) ==
  a \notin Suspending /\ taken[a] # 0 =>
    /\ handler[a] \in Working /\ Sent(a) =>
         \/ wire[a] # <<>> /\ wire[a][Len(wire[a])].details = taken[a]
         \/ failed[a] = taken[a]
    /\ handler[a] = "completing" =>
         \/ Len(wire[a]) > 1 /\ wire[a][Len(wire[a]) - 1].details = taken[a]
         \/ failed[a] = taken[a]

\* Why an activity is cancelled.
Causes(a) ==
  /\ cause[a] = "request" => "cancel" \in sent[a]
  /\ scope[a] = "cancelled" => cause[a] # "none"
  /\ processor[a] = "sending" => wire[a] # <<>>
  /\ cause[a] = "beat" \/ outcome[a] = "beat" => wire[a] # <<>> \/ failed[a] # 0
  /\ outcome[a] = "cancelled" => "cancel" \in sent[a] \/ Stopping
  /\ \A i \in 1..Len(wire[a]) :
       /\ wire[a][i].result = "cancelled" => "cancel" \in sent[a] \/ Stopping
       /\ wire[a][i].result = "beat" =>
            failed[a] # 0 \/ \E j \in 1..(i-1) : wire[a][j].result = "none"

Reaches(a) ==
  a \notin Suspending =>
    /\ handler[a] # "decoding"
    /\ handler[a] \in {"none", "spawned"} => cause[a] = "none"
    /\ handler[a] = "running" /\ cause[a] # "none" => scope[a] = "cancelled"

Entry(a) == a \in registered /\ handler[a] = "over" => Stopping \/ scope[a] = "none"

Good(a) == /\ Stages(a) /\ Wired(a) /\ Details(a) /\ Recent(a)
           /\ Causes(a) /\ Reaches(a) /\ Entry(a)
ActivityInv == Types /\ \A a \in Activities : Good(a)
------------------------------------------------------------------------------
LEMMA PutTyped ==
  ASSUME Types, NEW a \in Activities, NEW m \in Message, Put(a, m)
  PROVE  /\ wire' \in [Activities -> Seq(Message)]
         /\ \A b \in Activities \ {a} : wire'[b] = wire[b]
         /\ wire[a] \in Seq(Message) /\ wire'[a] \in Seq(Message)
         /\ Len(wire[a]) \in Nat /\ Len(wire'[a]) = Len(wire[a]) + 1
         /\ \A i \in 1..Len(wire[a]) : wire'[a][i] = wire[a][i]
         /\ wire'[a][Len(wire[a]) + 1] = m
<1>1. wire[a] \in Seq(Message)  BY DEF Types
<1>2. wire'[a] = Append(wire[a], m) /\ \A b \in Activities \ {a} : wire'[b] = wire[b]
  BY DEF Types, Put
<1>3. /\ Append(wire[a], m) \in Seq(Message) /\ Len(Append(wire[a], m)) = Len(wire[a]) + 1
      /\ \A i \in 1..Len(wire[a]) : Append(wire[a], m)[i] = wire[a][i]
      /\ Append(wire[a], m)[Len(wire[a]) + 1] = m
  BY <1>1
<1>4. wire' \in [Activities -> Seq(Message)]  BY <1>2, <1>3 DEF Types, Put
<1> QED  BY <1>1, <1>2, <1>3, <1>4

LEMMA MessagesTyped ==
  /\ \A n \in Nat : Beat(n) \in Message /\ Beat(n).result = "none" /\ Beat(n).details = n
  /\ \A o \in Outcomes : Completion(o) \in Message /\ Completion(o).result = o
  /\ "failed" \in Outcomes
BY DEF Message, Outcomes, Beat, Completion

\* A step that leaves an activity alone keeps it good.
LEMMA Frame ==
  ASSUME NEW a \in Activities, Good(a),
         sent'[a] = sent[a], wire'[a] = wire[a], handler'[a] = handler[a],
         outcome'[a] = outcome[a], scope'[a] = scope[a], cause'[a] = cause[a],
         processor'[a] = processor[a], taken'[a] = taken[a], pending'[a] = pending[a],
         failed'[a] = failed[a], a \in registered' => a \in registered, Stopping => Stopping'
  PROVE  Good(a)'
<1>1. Stages(a)' /\ Wired(a)' /\ Details(a)' /\ Recent(a)' /\ Reaches(a)'
  BY DEF Good, Stages, Wired, Details, Recent, Sent, Reaches
<1>2. Causes(a)' /\ Entry(a)'
  BY DEF Good, Causes, Entry
<1> QED  BY <1>1, <1>2 DEF Good

LEMMA InitIsActivity == Init => ActivityInv
<1>1. ASSUME Init PROVE ActivityInv
  <2>1. <<>> \in Seq(Message) /\ Len(<<>>) = 0  OBVIOUS
  <2>2. Types  BY <1>1, <2>1 DEF Init, Types, Outcomes
  <2>3. ASSUME NEW a \in Activities PROVE Good(a)
    <3>1. /\ sent[a] = {} /\ wire[a] = <<>> /\ handler[a] = "none" /\ outcome[a] = "none"
          /\ scope[a] = "none" /\ cause[a] = "none" /\ processor[a] = "none"
          /\ taken[a] = 0 /\ pending[a] = 0 /\ failed[a] = 0 /\ Len(wire[a]) = 0
      BY <1>1, <2>1 DEF Init
    <3> QED
      BY <3>1 DEF Good, Stages, Wired, Details, Recent, Causes, Reaches, Entry, Early, Working
  <2> QED  BY <2>2, <2>3 DEF ActivityInv
<1> QED  BY <1>1
------------------------------------------------------------------------------
LEMMA PollStartKeeps ==
  ASSUME ActivityInv, NEW a \in Activities, PollStart(a)  PROVE ActivityInv'
<1> USE DEF ActivityInv, PollStart, Go, workerVars, cancelVars, beatVars
<1>1. Types'  BY DEF Types
<1>2. ASSUME NEW b \in Activities \ {a} PROVE Good(b)'
  BY Frame DEF Types, Stopping
<1>3. sent'[a] = {"start"} /\ handler[a] = "none" /\ handler'[a] = "spawned" /\ Good(a)
  BY DEF Types, Good, Stages
<1>4. Good(a)'
  <2>1. Stages(a)' /\ Wired(a)' /\ Details(a)'
    BY <1>3 DEF Good, Stages, Wired, Details, Early, Working, Before
  <2>2. Recent(a)' /\ Reaches(a)' /\ Entry(a)'
    BY <1>3 DEF Good, Recent, Sent, Reaches, Entry, Working
  <2>3. Causes(a)'
    BY <1>3 DEF Good, Stages, Causes, Stopping
  <2> QED  BY <2>1, <2>2, <2>3 DEF Good
<1> QED  BY <1>1, <1>2, <1>4

\* _RunningActivity.cancel reaches a function that runs, and no one else.
LEMMA CancelTyped ==
  ASSUME Types, NEW a \in Activities, NEW why \in {"request", "beat"}, cancel(a, why)
  PROVE  /\ cause' \in [Activities -> {"none", "request", "beat"}]
         /\ scope' \in [Activities -> {"none", "open", "cancelled"}]
         /\ \A b \in Activities \ {a} : cause'[b] = cause[b] /\ scope'[b] = scope[b]
         /\ cause'[a] = why
         /\ scope'[a] = scope[a] \/ (scope[a] = "open" /\ scope'[a] = "cancelled")
         /\ handler[a] = "running" /\ scope[a] # "none" => scope'[a] = "cancelled"
BY DEF Types, cancel

LEMMA CancelKeeps ==
  ASSUME ActivityInv, NEW a \in Activities, _handle_cancel_activity(a)  PROVE ActivityInv'
<1> USE DEF ActivityInv, _handle_cancel_activity, workerVars, handlerVars, beatVars
<1>1. /\ sent' \in [Activities -> SUBSET {"start", "cancel"}]
      /\ sent'[a] = {"start", "cancel"} /\ sent[a] = {"start"}
      /\ \A b \in Activities \ {a} : sent'[b] = sent[b]
  BY DEF Types
<1>2. /\ cause' \in [Activities -> {"none", "request", "beat"}]
      /\ scope' \in [Activities -> {"none", "open", "cancelled"}]
      /\ \A b \in Activities \ {a} : cause'[b] = cause[b] /\ scope'[b] = scope[b]
      /\ \/ cause'[a] = cause[a] /\ scope'[a] = scope[a]
         \/ /\ cause'[a] = "request"
            /\ scope'[a] = scope[a] \/ (scope[a] = "open" /\ scope'[a] = "cancelled")
            /\ handler[a] = "running" /\ scope[a] # "none" => scope'[a] = "cancelled"
  <2>1. CASE a \in registered  BY <2>1, CancelTyped
  <2>2. CASE a \notin registered  BY <2>2 DEF Types, cancelVars
  <2> QED  BY <2>1, <2>2
<1>3. Types'  BY <1>1, <1>2 DEF Types
<1>4. ASSUME NEW b \in Activities \ {a} PROVE Good(b)'
  BY <1>1, <1>2, Frame DEF Stopping
<1>5. Good(a)'
  <2>1. Stages(a)'  BY <1>1, <1>2 DEF Good, Stages, Early, Working
  <2>2. Wired(a)' /\ Details(a)' /\ Recent(a)'
    BY <1>1, <1>2 DEF Good, Wired, Details, Recent, Sent
  <2>3. Causes(a)'  BY <1>1, <1>2 DEF Good, Causes, Stopping
  <2>4. Reaches(a)' /\ Entry(a)'
    BY <1>1, <1>2 DEF Good, Stages, Reaches, Entry, Early, Working, Stopping
  <2> QED  BY <2>1, <2>2, <2>3, <2>4 DEF Good
<1> QED  BY <1>3, <1>4, <1>5

LEMMA ShutdownKeeps == ActivityInv /\ Shutdown => ActivityInv'
<1> SUFFICES ASSUME ActivityInv, Shutdown PROVE ActivityInv'  OBVIOUS
<1> USE DEF Shutdown, coreVars, handlerVars, cancelVars, beatVars
<1>1. Types'  BY DEF ActivityInv, Types
<1>2. ASSUME NEW b \in Activities PROVE Good(b)'
  BY Frame DEF ActivityInv, Stopping
<1> QED  BY <1>1, <1>2 DEF ActivityInv

LEMMA CloseBridgeKeeps == ActivityInv /\ CloseBridge => ActivityInv'
<1> SUFFICES ASSUME ActivityInv, CloseBridge PROVE ActivityInv'  OBVIOUS
<1> USE DEF CloseBridge, workerVars, handlerVars, cancelVars, beatVars
<1>1. Types'  BY DEF ActivityInv, Types
<1>2. ASSUME NEW b \in Activities PROVE Good(b)'
  BY Frame DEF ActivityInv, Stopping
<1> QED  BY <1>1, <1>2 DEF ActivityInv
------------------------------------------------------------------------------
\* The function starts in an activity that was only decoded so far.
LEMMA StartIsGood ==
  ASSUME ActivityInv, NEW a \in Activities, handler[a] \in {"spawned", "decoding"},
         StartFunction(a), sent' = sent
  PROVE  /\ handler' \in [Activities -> HandlerPlaces]
         /\ scope' \in [Activities -> {"none", "open", "cancelled"}]
         /\ processor' \in [Activities -> ProcessorPlaces]
         /\ \A b \in Activities \ {a} :
              handler'[b] = handler[b] /\ scope'[b] = scope[b] /\ processor'[b] = processor[b]
         /\ Good(a)'
<1> USE DEF ActivityInv, StartFunction, Go
<1>1. /\ handler'[a] = "running" /\ scope'[a] = "open" /\ processor'[a] = "started" /\ Good(a)
      /\ processor[a] = "none"
  BY DEF Types, Good, Stages, Early
<1>2. Good(a)'
  <2>1. Stages(a)'
    BY <1>1 DEF Good, Stages, Early, Working
  <2>2. Wired(a)' /\ Details(a)' /\ Recent(a)'
    BY <1>1 DEF Good, Wired, Details, Recent, Sent, Before, Working
  <2>3. Causes(a)' /\ Reaches(a)' /\ Entry(a)'
    BY <1>1 DEF Good, Causes, Reaches, Entry, Stopping
  <2> QED  BY <2>1, <2>2, <2>3 DEF Good
<1> QED  BY <1>1, <1>2 DEF Types

\* A failure is reported of an activity of which nothing was sent, or ends the
\* worker when the client is closed.
LEMMA FailureIsGood ==
  ASSUME ActivityInv, NEW a \in Activities, handler[a] \in {"spawned", "decoding"},
         _send_failure(a), sent' = sent
  PROVE  /\ handler' \in [Activities -> HandlerPlaces]
         /\ wire' \in [Activities -> Seq(Message)]
         /\ \A b \in Activities \ {a} : handler'[b] = handler[b] /\ wire'[b] = wire[b]
         /\ nursery' \in {"open", "cancelled"} /\ (Stopping => Stopping')
         /\ Good(a)'
<1> USE DEF ActivityInv, _send_failure, cancelVars, beatVars
<1>1. Good(a)  OBVIOUS
<1>2. CASE bridge = "open"
  <2>1. /\ handler' \in [Activities -> HandlerPlaces] /\ handler'[a] = "reporting"
        /\ \A b \in Activities \ {a} : handler'[b] = handler[b]
        /\ nursery' = nursery
    BY <1>2 DEF Types, Go
  <2>2. /\ wire' \in [Activities -> Seq(Message)]
        /\ \A b \in Activities \ {a} : wire'[b] = wire[b]
        /\ Len(wire[a]) \in Nat /\ Len(wire'[a]) = Len(wire[a]) + 1
        /\ \A i \in 1..Len(wire[a]) : wire'[a][i] = wire[a][i]
        /\ wire'[a][Len(wire[a]) + 1].result = "failed"
        /\ wire'[a] \in Seq(Message)
    BY <1>2, PutTyped, MessagesTyped
  <2>3. \A i \in 1..Len(wire'[a]) :
          \/ i \in 1..Len(wire[a]) /\ wire'[a][i] = wire[a][i] /\ wire[a][i].result = "none"
          \/ i = Len(wire'[a]) /\ wire'[a][i].result = "failed"
    BY <1>1, <2>2 DEF Good, Wired, Before
  <2>4. Stages(a)' /\ Reaches(a)' /\ Entry(a)'
    BY <1>1, <2>1 DEF Good, Stages, Reaches, Entry, Early, Working
  <2>5. Wired(a)'  BY <2>1, <2>3 DEF Wired, Before, Working
  <2>6. Details(a)'  BY <1>1, <2>2, <2>3 DEF Good, Details
  <2>7. Recent(a)'  BY <2>1 DEF Recent, Working
  <2>8. wire'[a] # <<>>  BY <2>2
  <2>9. Causes(a)'  BY <1>1, <2>1, <2>3, <2>8 DEF Good, Causes, Stopping
  <2> QED  BY <2>1, <2>2, <2>4, <2>5, <2>6, <2>7, <2>9 DEF Good, Types, Stopping
<1>3. CASE bridge # "open"
  <2>1. /\ handler' \in [Activities -> HandlerPlaces] /\ handler'[a] = "over"
        /\ \A b \in Activities \ {a} : handler'[b] = handler[b]
        /\ wire' = wire /\ nursery' = "cancelled" /\ Stopping'
    BY <1>3 DEF Types, Go, Stopping
  <2>2. Stages(a)' /\ Reaches(a)' /\ Entry(a)'
    BY <1>1, <2>1 DEF Good, Stages, Reaches, Entry, Early, Working
  <2>3. Wired(a)' /\ Details(a)' /\ Recent(a)'
    BY <1>1, <2>1 DEF Good, Wired, Details, Recent, Before, Working
  <2>4. Causes(a)'  BY <1>1, <2>1 DEF Good, Causes
  <2> QED  BY <2>1, <2>2, <2>3, <2>4 DEF Good, Types
<1> QED  BY <1>2, <1>3

LEMMA DecodeArgsKeeps ==
  ASSUME ActivityInv, NEW a \in Activities, handler[a] \in {"spawned", "decoding"},
         DecodeArgs(a), UNCHANGED <<sent, bridge>>,
         registered' \subseteq Activities, registered' \subseteq registered \cup {a}
  PROVE  ActivityInv'
<1>1. CASE StartFunction(a)
  <2>1. Types'  BY <1>1, StartIsGood DEF ActivityInv, Types, StartFunction
  <2>2. ASSUME NEW b \in Activities \ {a} PROVE Good(b)'
    BY <1>1, StartIsGood, Frame DEF ActivityInv, StartFunction, Stopping
  <2> QED  BY <1>1, <2>1, <2>2, StartIsGood DEF ActivityInv
<1>2. CASE _send_failure(a)
  <2>1. Types'
    BY <1>2, FailureIsGood DEF ActivityInv, Types, _send_failure, cancelVars, beatVars
  <2>2. ASSUME NEW b \in Activities \ {a} PROVE Good(b)'
    BY <1>2, FailureIsGood, Frame DEF ActivityInv, _send_failure, cancelVars, beatVars, Stopping
  <2> QED  BY <1>2, <2>1, <2>2, FailureIsGood DEF ActivityInv
<1> QED  BY <1>1, <1>2 DEF DecodeArgs

LEMMA BeginKeeps ==
  ASSUME ActivityInv, NEW a \in Activities, Begin(a)  PROVE ActivityInv'
<1>1. handler[a] = "spawned" /\ UNCHANGED <<sent, bridge>>  BY DEF Begin
<1>2. CASE _send_failure(a) /\ UNCHANGED registered
  <2>1. Types'
    BY <1>1, <1>2, FailureIsGood DEF ActivityInv, Types, _send_failure, cancelVars, beatVars
  <2>2. ASSUME NEW b \in Activities \ {a} PROVE Good(b)'
    BY <1>1, <1>2, FailureIsGood, Frame
       DEF ActivityInv, _send_failure, cancelVars, beatVars, Stopping
  <2> QED  BY <1>1, <1>2, <2>1, <2>2, FailureIsGood DEF ActivityInv
<1>3. CASE registered' = registered \cup {a} /\ a \in Suspending /\ Go(a, "decoding")
           /\ UNCHANGED <<wire, nursery, outcome, raising, cancelVars, beatVars>>
  <2> USE <1>3 DEF cancelVars, beatVars
  <2>1. Types'  BY <1>1 DEF ActivityInv, Types, Go
  <2>2. handler'[a] = "decoding" /\ \A b \in Activities \ {a} : handler'[b] = handler[b]
    BY DEF ActivityInv, Types, Go
  <2>3. ASSUME NEW b \in Activities \ {a} PROVE Good(b)'
    BY <1>1, <2>2, Frame DEF ActivityInv, Stopping
  <2>4. Good(a)'
    <3>1. Good(a)  BY DEF ActivityInv
    <3>2. Stages(a)' /\ Wired(a)' /\ Details(a)' /\ Recent(a)'
      BY <1>1, <2>2, <3>1 DEF Good, Stages, Wired, Details, Recent, Early, Working, Before
    <3>3. Causes(a)' /\ Reaches(a)' /\ Entry(a)'
      BY <1>1, <2>2, <3>1 DEF Good, Causes, Reaches, Entry, Stopping
    <3> QED  BY <3>2, <3>3 DEF Good
  <2> QED  BY <2>1, <2>3, <2>4 DEF ActivityInv
<1>4. CASE registered' = registered \cup {a} /\ DecodeArgs(a)
  BY <1>1, <1>4, DecodeArgsKeeps DEF ActivityInv, Types
<1> QED  BY <1>2, <1>3, <1>4 DEF Begin

LEMMA DecodedKeeps ==
  ASSUME ActivityInv, NEW a \in Activities, Decoded(a)  PROVE ActivityInv'
<1>1. handler[a] = "decoding" /\ UNCHANGED <<sent, bridge, registered>>  BY DEF Decoded
<1>2. CASE Stopping /\ Go(a, "over")
           /\ UNCHANGED <<wire, nursery, outcome, raising, cancelVars, beatVars>>
  <2> USE <1>2 DEF cancelVars, beatVars
  <2>1. Types'  BY <1>1 DEF ActivityInv, Types, Go
  <2>2. handler'[a] = "over" /\ \A b \in Activities \ {a} : handler'[b] = handler[b]
    BY DEF ActivityInv, Types, Go
  <2>3. ASSUME NEW b \in Activities \ {a} PROVE Good(b)'
    BY <1>1, <2>2, Frame DEF ActivityInv, Stopping
  <2>4. Good(a)'
    <3>1. Good(a)  BY DEF ActivityInv
    <3>2. Stages(a)' /\ Wired(a)' /\ Details(a)' /\ Recent(a)'
      BY <1>1, <2>2, <3>1 DEF Good, Stages, Wired, Details, Recent, Early, Working, Before
    <3>3. Causes(a)' /\ Reaches(a)' /\ Entry(a)'
      BY <1>1, <2>2, <3>1 DEF Good, Causes, Reaches, Entry, Stopping
    <3> QED  BY <3>2, <3>3 DEF Good
  <2> QED  BY <2>1, <2>3, <2>4 DEF ActivityInv
<1>3. CASE DecodeArgs(a)
  BY <1>1, <1>3, DecodeArgsKeeps DEF ActivityInv, Types
<1> QED  BY <1>2, <1>3 DEF Decoded

LEMMA ReportedKeeps ==
  ASSUME ActivityInv, NEW a \in Activities, Reported(a)  PROVE ActivityInv'
<1> USE DEF Reported, coreVars, cancelVars, beatVars
<1>1. Types'  BY DEF ActivityInv, Types, Go
<1>2. handler'[a] = "over" /\ \A b \in Activities \ {a} : handler'[b] = handler[b]
  BY DEF ActivityInv, Types, Go
<1>3. Stopping => Stopping'  BY DEF Stopping
<1>4. ASSUME NEW b \in Activities \ {a} PROVE Good(b)'
  BY <1>2, <1>3, Frame DEF ActivityInv
<1>5. Good(a)'
  <2>1. Good(a)  BY DEF ActivityInv
  <2>2. Stages(a)' /\ Wired(a)' /\ Details(a)' /\ Recent(a)'
    BY <1>2, <2>1 DEF Good, Stages, Wired, Details, Recent, Early, Working, Before
  <2>3. Causes(a)'  BY <1>2, <1>3, <2>1 DEF Good, Causes
  <2>4. Reaches(a)' /\ Entry(a)'
    BY <1>2, <1>3, <2>1 DEF Good, Stages, Reaches, Entry, Early
  <2> QED  BY <2>2, <2>3, <2>4 DEF Good
<1> QED  BY <1>1, <1>4, <1>5 DEF ActivityInv
------------------------------------------------------------------------------
LEMMA Incremented ==
  ASSUME NEW f \in [Activities -> Nat], NEW a \in Activities,
         NEW g, g = [f EXCEPT ![a] = @ + 1]
  PROVE  /\ g \in [Activities -> Nat] /\ g[a] = f[a] + 1 /\ f[a] \in Nat
         /\ \A b \in Activities \ {a} : g[b] = f[b]
OBVIOUS

LEMMA HeartbeatKeeps ==
  ASSUME ActivityInv, NEW a \in Activities, heartbeat(a)  PROVE ActivityInv'
<1> USE DEF heartbeat, coreVars, workerVars, handlerVars, cancelVars
<1>1. /\ beats' \in [Activities -> Nat] /\ handler[a] = "running"
      /\ \/ processor' = processor /\ taken' = taken
         \/ /\ processor' \in [Activities -> ProcessorPlaces] /\ taken' \in [Activities -> Nat]
            /\ \A b \in Activities \ {a} : processor'[b] = processor[b] /\ taken'[b] = taken[b]
            /\ processor[a] = "receiving" /\ processor'[a] = "handed" /\ taken'[a] = taken[a] + 1
            /\ taken[a] \in Nat
  <2>0. /\ beats \in [Activities -> Nat] /\ taken \in [Activities -> Nat]
        /\ processor \in [Activities -> ProcessorPlaces] /\ handler[a] = "running"
        /\ beats' = [beats EXCEPT ![a] = @ + 1]
    BY DEF ActivityInv, Types
  <2>1. beats' \in [Activities -> Nat] /\ handler[a] = "running"  BY <2>0, Incremented
  <2>2. CASE UNCHANGED <<processor, taken>>  BY <2>1, <2>2
  <2>3. CASE /\ processor[a] = "receiving"
             /\ processor' = [processor EXCEPT ![a] = "handed"]
             /\ taken' = [taken EXCEPT ![a] = @ + 1]
    <3> HIDE DEF heartbeat
    <3>2. taken' \in [Activities -> Nat] /\ taken'[a] = taken[a] + 1 /\ taken[a] \in Nat
          /\ \A b \in Activities \ {a} : taken'[b] = taken[b]
      BY <2>0, <2>3, Incremented
    <3>3. processor' \in [Activities -> ProcessorPlaces] /\ processor'[a] = "handed"
          /\ \A b \in Activities \ {a} : processor'[b] = processor[b]
      BY <2>0, <2>3
    <3> QED  BY <2>1, <2>3, <3>2, <3>3
  <2> QED  BY <2>2, <2>3
<1>2. Types'  BY <1>1 DEF ActivityInv, Types
<1>3. ASSUME NEW b \in Activities \ {a} PROVE Good(b)'
  BY <1>1, Frame DEF ActivityInv, Stopping
<1>4. Good(a)'
  <2>1. Good(a) /\ wire[a] \in Seq(Message)  BY DEF ActivityInv, Types
  <2>2. CASE processor' = processor /\ taken' = taken
    BY <2>1, <2>2, Frame DEF Stopping
  <2>3. CASE /\ processor[a] = "receiving" /\ processor'[a] = "handed"
             /\ taken'[a] = taken[a] + 1 /\ taken[a] \in Nat
    <3>1. Stages(a)' /\ Wired(a)' /\ Reaches(a)' /\ Entry(a)'
      BY <1>1, <2>1, <2>3 DEF Good, Stages, Wired, Reaches, Entry, Early, Working, Stopping
    <3>2. \A i \in 1..Len(wire[a]) : wire[a][i].result = "none" => wire[a][i].details =< taken'[a]
      <4>1. SUFFICES ASSUME NEW i \in 1..Len(wire[a]), wire[a][i].result = "none"
                     PROVE  wire[a][i].details =< taken'[a]
        OBVIOUS
      <4> HIDE DEF heartbeat
      <4>2. wire[a][i] \in Message  BY <2>1, ElementOfSeq
      <4>3. wire[a][i].details \in Nat  BY <4>2 DEF Message
      <4>4. wire[a][i].details =< taken[a]  BY <2>1, <4>1 DEF Good, Details
      <4> QED  BY <2>3, <4>3, <4>4
    <3>3. Details(a)'
      <4> HIDE DEF heartbeat
      <4>1. wire' = wire /\ pending' = pending  BY DEF heartbeat
      <4>2. taken'[a] # 0  BY <2>3
      <4> QED  BY <2>1, <2>3, <3>2, <4>1, <4>2 DEF Good, Details
    <3>4. Recent(a)' /\ Causes(a)'
      BY <1>1, <2>1, <2>3 DEF Good, Recent, Sent, Causes, Stopping
    <3> QED  BY <3>1, <3>3, <3>4 DEF Good
  <2> QED  BY <1>1, <2>2, <2>3
<1> QED  BY <1>2, <1>3, <1>4 DEF ActivityInv

\* The function has ended in one of the ways that FunctionEnds admits.
LEMMA OutcomeIsGood ==
  ASSUME ActivityInv, NEW a \in Activities, handler[a] \in {"running", "encoding"},
         NEW o \in Outcomes \ {"none"},
         o = "beat" => wire[a] # <<>> \/ failed[a] # 0,
         o = "cancelled" => "cancel" \in sent[a] \/ Stopping,
         outcome' = [outcome EXCEPT ![a] = o],
         Go(a, "closing") \/ Go(a, "encoding"),
         raising' \in [Activities -> BOOLEAN],
         UNCHANGED <<coreVars, workerVars, cancelVars, beatVars>>
  PROVE  ActivityInv'
<1> USE DEF Go, coreVars, workerVars, cancelVars, beatVars
<1>1. /\ outcome' \in [Activities -> Outcomes] /\ handler' \in [Activities -> HandlerPlaces]
      /\ outcome'[a] = o /\ handler'[a] \in {"closing", "encoding"}
      /\ \A b \in Activities \ {a} : outcome'[b] = outcome[b] /\ handler'[b] = handler[b]
  BY DEF ActivityInv, Types
<1>2. Types'  BY <1>1 DEF ActivityInv, Types
<1>3. ASSUME NEW b \in Activities \ {a} PROVE Good(b)'
  BY <1>1, Frame DEF ActivityInv, Stopping
<1>4. Good(a)'
  <2>1. Good(a)  BY DEF ActivityInv
  <2>2. Stages(a)' /\ Wired(a)' /\ Details(a)'
    BY <1>1, <2>1 DEF Good, Stages, Wired, Details, Early, Working, Before
  <2>3. Recent(a)' /\ Reaches(a)' /\ Entry(a)'
    BY <1>1, <2>1 DEF Good, Recent, Sent, Reaches, Entry, Working
  <2>4. Causes(a)'
    BY <1>1, <2>1 DEF Good, Causes, Stopping
  <2> QED  BY <2>2, <2>3, <2>4 DEF Good
<1> QED  BY <1>2, <1>3, <1>4 DEF ActivityInv

LEMMA ConvertKeeps ==
  ASSUME ActivityInv, NEW a \in Activities, handler[a] \in {"running", "encoding"},
         NEW how \in Outcomes \ {"none"},
         NEW o \in {how, "empty"}, NEW raises \in BOOLEAN, Conclude(a, o, raises),
         how = "beat" => wire[a] # <<>> \/ failed[a] # 0,
         how = "cancelled" => "cancel" \in sent[a] \/ Stopping,
         UNCHANGED <<coreVars, workerVars, cancelVars, beatVars>>
  PROVE  ActivityInv'
<1>1. o \in Outcomes \ {"none"}  BY DEF Outcomes
<1>2. raising' \in [Activities -> BOOLEAN]  BY DEF Conclude, ActivityInv, Types
<1>3. Go(a, "closing") /\ outcome' = [outcome EXCEPT ![a] = o]  BY DEF Conclude
<1> QED  BY <1>1, <1>2, <1>3, OutcomeIsGood

\* What a conversion may conclude with.
LEMMA Converted ==
  ASSUME NEW a, NEW how, Convert(a, how)
  PROVE  \E o \in {how, "empty"}, raises \in BOOLEAN : Conclude(a, o, raises)
<1>1. CASE Conclude(a, how, FALSE)  BY <1>1
<1>2. CASE \E left \in Left(how) : Conclude(a, left, TRUE)
  <2>1. PICK left \in Left(how) : Conclude(a, left, TRUE)  BY <1>2
  <2>2. left \in {how, "empty"}  BY DEF Left
  <2> QED  BY <2>1, <2>2
<1> QED  BY <1>1, <1>2 DEF Convert

LEMMA FunctionEndsKeeps ==
  ASSUME ActivityInv, NEW a \in Activities, FunctionEnds(a)  PROVE ActivityInv'
<1>1. PICK how \in {"completed", "failed", "async", CancelOutcome(a)} :
        /\ how \in {"cancelled", "beat"} => scope[a] = "cancelled" \/ Stopping
        /\ \/ Conclude(a, how, FALSE)
           \/ Convert(a, how)
           \/ /\ outcome' = [outcome EXCEPT ![a] = how]
              /\ Go(a, "encoding") /\ UNCHANGED raising
  BY DEF FunctionEnds
<1>2. /\ how \in Outcomes \ {"none"}
      /\ how = "beat" => cause[a] = "beat"
      /\ how = "cancelled" => cause[a] # "beat"
  BY DEF CancelOutcome, Outcomes
<1>3. how = "beat" => wire[a] # <<>> \/ failed[a] # 0
  BY <1>2 DEF ActivityInv, Good, Causes
<1>4. how = "cancelled" => "cancel" \in sent[a] \/ Stopping
  BY <1>1, <1>2 DEF ActivityInv, Types, Good, Causes
<1>5. /\ handler[a] = "running" /\ UNCHANGED <<coreVars, workerVars, cancelVars, beatVars>>
  BY DEF FunctionEnds
<1>6. CASE Conclude(a, how, FALSE) \/ Convert(a, how)
  <2>1. \E o \in {how, "empty"}, raises \in BOOLEAN : Conclude(a, o, raises)
    BY <1>6, Converted
  <2> QED  BY <1>2, <1>3, <1>4, <1>5, <2>1, ConvertKeeps
<1>7. CASE outcome' = [outcome EXCEPT ![a] = how] /\ Go(a, "encoding") /\ UNCHANGED raising
  <2>1. raising' \in [Activities -> BOOLEAN]  BY <1>7 DEF ActivityInv, Types
  <2> QED  BY <1>2, <1>3, <1>4, <1>5, <1>7, <2>1, OutcomeIsGood
<1> QED  BY <1>1, <1>6, <1>7

LEMMA EncodedKeeps ==
  ASSUME ActivityInv, NEW a \in Activities, Encoded(a)  PROVE ActivityInv'
<1>1. /\ handler[a] = "encoding" /\ Convert(a, outcome[a])
      /\ UNCHANGED <<coreVars, workerVars, cancelVars, beatVars>>
  BY DEF Encoded
<1>2. /\ outcome[a] \in Outcomes \ {"none"}
      /\ outcome[a] = "beat" => wire[a] # <<>> \/ failed[a] # 0
      /\ outcome[a] = "cancelled" => "cancel" \in sent[a] \/ Stopping
  BY <1>1 DEF ActivityInv, Types, Good, Stages, Causes
<1>3. \E o \in {outcome[a], "empty"}, raises \in BOOLEAN : Conclude(a, o, raises)
  BY <1>1, Converted
<1> QED  BY <1>1, <1>2, <1>3, ConvertKeeps

\* The end of the handler keeps the rest as it is.
LEMMA OverIsGood ==
  ASSUME ActivityInv, NEW a \in Activities, Go(a, "over"),
         handler[a] \in {"closing", "completing"}, processor[a] = "over",
         registered' \subseteq registered, nursery' \in {"open", "cancelled"},
         Stopping => Stopping', a \in registered' => Stopping',
         UNCHANGED <<coreVars, outcome, raising, cancelVars, beatVars>>
  PROVE  ActivityInv'
<1> USE DEF coreVars, cancelVars, beatVars
<1>1. /\ handler' \in [Activities -> HandlerPlaces] /\ handler'[a] = "over" /\ Good(a)
      /\ \A b \in Activities \ {a} : handler'[b] = handler[b]
  BY DEF ActivityInv, Types, Go
<1>2. Types'  BY <1>1 DEF ActivityInv, Types
<1>3. ASSUME NEW b \in Activities \ {a} PROVE Good(b)'
  BY <1>1, Frame DEF ActivityInv
<1>4. Good(a)'
  <2>1. Stages(a)' /\ Wired(a)' /\ Details(a)' /\ Recent(a)'
    BY <1>1 DEF Good, Stages, Wired, Details, Recent, Early, Working, Before
  <2>2. Causes(a)' /\ Reaches(a)' /\ Entry(a)'
    BY <1>1 DEF Good, Causes, Reaches, Entry, Early
  <2> QED  BY <2>1, <2>2 DEF Good
<1> QED  BY <1>2, <1>3, <1>4 DEF ActivityInv

LEMMA LeaveKeeps ==
  ASSUME ActivityInv, NEW a \in Activities, Leave(a),
         handler[a] \in {"closing", "completing"}, processor[a] = "over",
         UNCHANGED <<coreVars, outcome, raising, cancelVars, beatVars>>
  PROVE  ActivityInv'
<1>1. /\ Go(a, "over") /\ registered' \subseteq registered /\ a \notin registered'
      /\ nursery' \in {"open", "cancelled"} /\ (Stopping => Stopping')
  BY DEF Leave, ActivityInv, Types, Stopping
<1> QED  BY <1>1, OverIsGood

\* The completion: the task of the heartbeats is over, and so is the function.
LEMMA CompleteKeeps ==
  ASSUME ActivityInv, NEW a \in Activities, Complete(a)  PROVE ActivityInv'
<1>1. /\ handler[a] = "closing" /\ processor[a] = "over" /\ Good(a)
      /\ UNCHANGED <<sent, bridge, outcome, raising, cancelVars, beatVars>>
      /\ outcome[a] \in Outcomes \ {"none"}
  BY DEF Complete, SendCompletion, ActivityInv, Types, Good, Stages
<1>2. CASE Leave(a) /\ UNCHANGED wire
  BY <1>1, <1>2, LeaveKeeps DEF coreVars
<1>3. CASE Go(a, "completing") /\ Put(a, Completion(outcome[a])) /\ UNCHANGED workerVars
  <2> USE DEF cancelVars, beatVars, workerVars
  <2>1. /\ wire' \in [Activities -> Seq(Message)]
        /\ \A b \in Activities \ {a} : wire'[b] = wire[b]
        /\ Len(wire[a]) \in Nat /\ Len(wire'[a]) = Len(wire[a]) + 1
        /\ \A i \in 1..Len(wire[a]) : wire'[a][i] = wire[a][i]
        /\ wire'[a][Len(wire[a]) + 1].result = outcome[a]
        /\ wire[a] \in Seq(Message)
    BY <1>1, <1>3, PutTyped, MessagesTyped DEF ActivityInv
  <2>2. /\ handler' \in [Activities -> HandlerPlaces] /\ handler'[a] = "completing"
        /\ \A b \in Activities \ {a} : handler'[b] = handler[b]
        /\ (Stopping <=> Stopping')
    BY <1>3 DEF ActivityInv, Types, Go, Stopping
  <2>3. Types'  BY <1>1, <1>3, <2>1, <2>2 DEF ActivityInv, Types
  <2>4. ASSUME NEW b \in Activities \ {a} PROVE Good(b)'
    BY <1>1, <1>3, <2>1, <2>2, Frame DEF ActivityInv
  <2>5. \A i \in 1..Len(wire'[a]) :
          \/ i \in 1..Len(wire[a]) /\ wire'[a][i] = wire[a][i] /\ wire[a][i].result = "none"
          \/ i = Len(wire'[a]) /\ wire'[a][i].result = outcome[a]
    BY <1>1, <2>1 DEF Good, Wired, Before, Working
  <2>6. Stages(a)' /\ Reaches(a)' /\ Entry(a)'
    BY <1>1, <1>3, <2>2 DEF Good, Stages, Reaches, Entry, Early, Working
  <2>7. Wired(a)'  BY <2>2, <2>5 DEF Wired, Before, Working
  <2>8. Details(a)'  BY <1>1, <2>1, <2>5 DEF Good, Details
  <2>9. Recent(a)'
    <3>1. SUFFICES ASSUME a \notin Suspending, taken[a] # 0, failed[a] # taken[a]
                   PROVE  Len(wire'[a]) > 1 /\ wire'[a][Len(wire'[a]) - 1].details = taken[a]
      BY <1>1, <2>2 DEF Recent, Working
    <3>2. wire[a] # <<>> /\ wire[a][Len(wire[a])].details = taken[a]
      BY <1>1, <3>1 DEF Good, Recent, Sent, Working
    <3>3. Len(wire[a]) > 0  BY <2>1, <3>2, EmptySeq
    <3>4. Len(wire'[a]) - 1 = Len(wire[a]) /\ Len(wire[a]) \in 1..Len(wire[a])
      BY <2>1, <3>3
    <3>5. wire'[a][Len(wire[a])] = wire[a][Len(wire[a])]  BY <2>1, <3>4
    <3> QED  BY <2>1, <3>2, <3>3, <3>4, <3>5
  <2>10. Causes(a)'
    <3>1. wire'[a] # <<>>
      <4>1. Len(wire'[a]) # 0  BY <2>1
      <4> QED  BY <4>1
    <3>2. \A i \in 1..Len(wire'[a]) :
            wire'[a][i].result = "cancelled" => "cancel" \in sent[a] \/ Stopping
      BY <1>1, <2>5 DEF Good, Causes
    <3>3. ASSUME NEW i \in 1..Len(wire'[a]), wire'[a][i].result = "beat", failed[a] = 0
          PROVE  \E j \in 1..(i-1) : wire'[a][j].result = "none"
      <4>1. i = Len(wire[a]) + 1 /\ outcome[a] = "beat"  BY <2>1, <2>5, <3>3
      <4>2. Len(wire[a]) > 0  BY <1>1, <2>1, <3>3, <4>1, EmptySeq DEF Good, Causes
      <4>3. 1 \in 1..(i-1) /\ 1 \in 1..Len(wire[a])  BY <2>1, <4>1, <4>2
      <4>4. wire'[a][1].result = "none"  BY <1>1, <2>1, <4>3 DEF Good, Wired, Before, Working
      <4> QED  BY <4>3, <4>4
    <3> QED  BY <1>1, <2>2, <3>1, <3>2, <3>3 DEF Good, Causes
  <2> QED  BY <2>3, <2>4, <2>6, <2>7, <2>8, <2>9, <2>10 DEF ActivityInv, Good
<1> QED  BY <1>2, <1>3 DEF Complete, SendCompletion

LEMMA CompletedKeeps ==
  ASSUME ActivityInv, NEW a \in Activities, Completed(a)  PROVE ActivityInv'
<1>1. /\ handler[a] = "completing" /\ processor[a] = "over"
      /\ UNCHANGED <<coreVars, outcome, raising, cancelVars, beatVars>>
  BY DEF Completed, ActivityInv, Good, Stages
<1>2. CASE Leave(a)  BY <1>1, <1>2, LeaveKeeps
<1>3. CASE Stopping /\ Go(a, "over") /\ UNCHANGED workerVars
  <2>1. /\ registered' \subseteq registered /\ nursery' \in {"open", "cancelled"}
        /\ Stopping'
    BY <1>3 DEF workerVars, ActivityInv, Types, Stopping
  <2> QED  BY <1>1, <1>3, <2>1, OverIsGood
<1> QED  BY <1>2, <1>3 DEF Completed
------------------------------------------------------------------------------
\* A heartbeat goes out: the details are the latest that were received.
LEMMA BeatIsGood ==
  ASSUME ActivityInv, NEW a \in Activities, handler[a] \in Working,
         Put(a, Beat(taken[a])), NEW to \in {"sending", "over"},
         processor' = [processor EXCEPT ![a] = to],
         pending' \in [Activities -> Nat],
         \A b \in Activities \ {a} : pending'[b] = pending[b],
         to = "sending" => pending'[a] = taken[a] /\ taken[a] # 0,
         throttled' \in [Activities -> BOOLEAN],
         UNCHANGED <<RestOf, cancelVars, beats, taken, failed>>
  PROVE  ActivityInv'
<1> USE DEF RestOf, workerVars, handlerVars, cancelVars
<1>1. taken[a] \in Nat /\ Beat(taken[a]) \in Message /\ Good(a)
  BY MessagesTyped DEF ActivityInv, Types
<1>2. /\ wire' \in [Activities -> Seq(Message)]
      /\ \A b \in Activities \ {a} : wire'[b] = wire[b]
      /\ Len(wire[a]) \in Nat /\ Len(wire'[a]) = Len(wire[a]) + 1
      /\ \A i \in 1..Len(wire[a]) : wire'[a][i] = wire[a][i]
      /\ wire'[a][Len(wire[a]) + 1] = Beat(taken[a])
  BY <1>1, PutTyped DEF ActivityInv
<1>3. wire'[a][Len(wire'[a])].result = "none" /\ wire'[a][Len(wire'[a])].details = taken[a]
  BY <1>1, <1>2, MessagesTyped
<1>4. /\ processor' \in [Activities -> ProcessorPlaces] /\ processor'[a] = to
      /\ \A b \in Activities \ {a} : processor'[b] = processor[b]
  BY DEF ActivityInv, Types
<1>5. Types'  BY <1>2, <1>4 DEF ActivityInv, Types
<1>6. ASSUME NEW b \in Activities \ {a} PROVE Good(b)'
  BY <1>2, <1>4, Frame DEF ActivityInv, Stopping
<1>7. \A i \in 1..Len(wire'[a]) :
        \/ i \in 1..Len(wire[a]) /\ wire'[a][i] = wire[a][i]
        \/ i = Len(wire'[a])
  BY <1>2
<1>8. Stages(a)' /\ Reaches(a)' /\ Entry(a)'
  BY <1>1, <1>4 DEF Good, Stages, Reaches, Entry, Early, Working, Stopping
<1>9. \A i \in 1..Len(wire'[a]) : wire'[a][i].result = "none"
  BY <1>1, <1>3, <1>7 DEF Good, Wired, Before
<1>10. Wired(a)'  BY <1>9 DEF Wired
<1>11. Details(a)'
  <2>1. ASSUME NEW i \in 1..Len(wire'[a])  PROVE wire'[a][i].details =< taken[a]
    <3>1. CASE i = Len(wire'[a])  BY <1>1, <1>3, <3>1
    <3>2. CASE i \in 1..Len(wire[a]) /\ wire'[a][i] = wire[a][i]
      BY <1>1, <1>9, <3>2 DEF Good, Details
    <3> QED  BY <1>7, <3>1, <3>2
  <2>2. ASSUME NEW i \in 1..Len(wire'[a]), NEW j \in 1..Len(wire'[a]), i < j
        PROVE  wire'[a][i].details =< wire'[a][j].details
    <3>1. CASE j = Len(wire'[a])  BY <1>3, <2>1, <3>1
    <3>2. CASE j # Len(wire'[a])
      <4>1. i \in 1..Len(wire[a]) /\ j \in 1..Len(wire[a])  BY <1>2, <2>2, <3>2
      <4>2. wire[a][i].result = "none" /\ wire[a][j].result = "none"
        BY <1>2, <1>9, <4>1
      <4> QED  BY <1>1, <1>2, <2>2, <4>1, <4>2 DEF Good, Details
    <3> QED  BY <3>1, <3>2
  <2> QED  BY <1>4, <2>1, <2>2 DEF Details
<1>12. wire'[a] # <<>>
  <2>1. Len(wire'[a]) # 0  BY <1>2
  <2> QED  BY <2>1
<1>13. Recent(a)'  BY <1>3, <1>12 DEF Recent, Working
<1>14. Causes(a)'
  <2>1. \A i \in 1..Len(wire'[a]) :
          wire'[a][i].result # "cancelled" /\ wire'[a][i].result # "beat"
    BY <1>9
  <2> QED  BY <1>1, <1>12, <2>1 DEF Good, Causes, Stopping
<1> QED  BY <1>5, <1>6, <1>8, <1>10, <1>11, <1>13, <1>14 DEF ActivityInv, Good

\* A step of the heartbeats' task that sends nothing.
LEMMA QuietIsGood ==
  ASSUME ActivityInv, NEW a \in Activities, handler[a] \in Working,
         NEW to \in {"receiving", "handed", "encoding", "over"},
         processor' = [processor EXCEPT ![a] = to],
         taken' \in [Activities -> Nat], pending' \in [Activities -> Nat],
         \A b \in Activities \ {a} : taken'[b] = taken[b] /\ pending'[b] = pending[b],
         taken'[a] >= taken[a],
         to = "receiving" => pending'[a] \in {0, taken'[a]},
         to = "encoding" => pending'[a] = taken'[a],
         to \in {"handed", "encoding"} => taken'[a] # 0,
         a \notin Suspending /\ taken'[a] # 0
           /\ (to = "over" \/ (to = "receiving" /\ pending'[a] = 0)) =>
           \/ wire[a] # <<>> /\ wire[a][Len(wire[a])].details = taken'[a]
           \/ failed[a] = taken'[a],
         throttled' \in [Activities -> BOOLEAN],
         UNCHANGED <<RestOf, wire, cancelVars, beats, failed>>
  PROVE  ActivityInv'
<1> USE DEF RestOf, workerVars, handlerVars, cancelVars
<1>1. /\ processor' \in [Activities -> ProcessorPlaces] /\ processor'[a] = to
      /\ \A b \in Activities \ {a} : processor'[b] = processor[b]
      /\ taken[a] \in Nat /\ taken'[a] \in Nat /\ wire[a] \in Seq(Message) /\ Good(a)
  BY DEF ActivityInv, Types
<1>2. Types'  BY <1>1 DEF ActivityInv, Types
<1>3. ASSUME NEW b \in Activities \ {a} PROVE Good(b)'
  BY <1>1, Frame DEF ActivityInv, Stopping
<1>4. Stages(a)' /\ Wired(a)' /\ Reaches(a)' /\ Entry(a)'
  BY <1>1 DEF Good, Stages, Wired, Reaches, Entry, Early, Working, Stopping
<1>5. Details(a)'
  <2>1. ASSUME NEW i \in 1..Len(wire[a]), wire[a][i].result = "none"
        PROVE  wire[a][i].details =< taken'[a]
    <3>1. wire[a][i] \in Message  BY <1>1, ElementOfSeq
    <3>2. wire[a][i].details \in Nat  BY <3>1 DEF Message
    <3>3. wire[a][i].details =< taken[a]  BY <1>1, <2>1 DEF Good, Details
    <3> QED  BY <1>1, <3>2, <3>3
  <2> QED  BY <1>1, <2>1 DEF Good, Details
<1>6. Recent(a)'  BY <1>1 DEF Recent, Sent, Working
<1>7. Causes(a)'  BY <1>1 DEF Good, Causes, Stopping
<1> QED  BY <1>2, <1>3, <1>4, <1>5, <1>6, <1>7 DEF ActivityInv, Good

\* Sending the latest details raises, and the activity is cancelled for it.
LEMMA FailedIsGood ==
  ASSUME ActivityInv, NEW a \in Activities, handler[a] \in Working, taken[a] # 0,
         RecordFails(a, taken[a]), NEW to \in {"receiving", "over"},
         processor' = [processor EXCEPT ![a] = to],
         pending' \in [Activities -> Nat],
         \A b \in Activities \ {a} : pending'[b] = pending[b],
         to = "receiving" => pending'[a] = 0,
         throttled' \in [Activities -> BOOLEAN],
         UNCHANGED <<RestOf, beats, taken>>
  PROVE  ActivityInv'
<1> USE DEF RestOf, workerVars, handlerVars
<1>1. /\ processor' \in [Activities -> ProcessorPlaces] /\ processor'[a] = to
      /\ \A b \in Activities \ {a} : processor'[b] = processor[b]
      /\ failed' \in [Activities -> Nat] /\ failed'[a] = taken[a]
      /\ \A b \in Activities \ {a} : failed'[b] = failed[b]
      /\ wire' = wire /\ Good(a)
  BY DEF ActivityInv, Types, RecordFails
<1>2. /\ cause' \in [Activities -> {"none", "request", "beat"}]
      /\ scope' \in [Activities -> {"none", "open", "cancelled"}]
      /\ \A b \in Activities \ {a} : cause'[b] = cause[b] /\ scope'[b] = scope[b]
      /\ cause'[a] = "beat"
      /\ scope'[a] = scope[a] \/ (scope[a] = "open" /\ scope'[a] = "cancelled")
      /\ handler[a] = "running" /\ scope[a] # "none" => scope'[a] = "cancelled"
  BY CancelTyped DEF RecordFails, ActivityInv
<1>3. Types'  BY <1>1, <1>2 DEF ActivityInv, Types
<1>4. ASSUME NEW b \in Activities \ {a} PROVE Good(b)'
  BY <1>1, <1>2, Frame DEF ActivityInv, Stopping
<1>5. Stages(a)' /\ Wired(a)' /\ Details(a)'
  BY <1>1, <1>2 DEF Good, Stages, Wired, Details, Early, Working
<1>6. Recent(a)'  BY <1>1 DEF Recent, Working
<1>7. Causes(a)'
  <2>1. \A i \in 1..Len(wire[a]) : wire[a][i].result = "none"
    BY <1>1 DEF Good, Wired, Before
  <2> QED  BY <1>1, <1>2, <2>1 DEF Good, Causes, Stopping
<1>8. Reaches(a)' /\ Entry(a)'
  BY <1>1, <1>2 DEF Good, Stages, Reaches, Entry, Working, Stopping
<1> QED  BY <1>3, <1>4, <1>5, <1>6, <1>7, <1>8 DEF ActivityInv, Good

\* The heartbeats' task is there only while the function is.
LEMMA ProcessorWorks ==
  ASSUME ActivityInv, NEW a \in Activities, processor[a] \notin {"none", "over"}
  PROVE  handler[a] \in Working
BY DEF ActivityInv, Types, Good, Stages, Early, Working

LEMMA StartProcessorKeeps ==
  ASSUME ActivityInv, NEW a \in Activities, StartProcessor(a)  PROVE ActivityInv'
<1>1. PICK to \in {"over", "receiving"} :
        processor[a] = "started" /\ processor' = [processor EXCEPT ![a] = to]
  BY DEF StartProcessor, Step
<1>2. UNCHANGED <<RestOf, wire, cancelVars, beats, taken, pending, throttled, failed>>
  BY DEF StartProcessor
<1>3. taken[a] = 0 /\ pending[a] = 0 /\ handler[a] \in Working
  BY <1>1, ProcessorWorks DEF ActivityInv, Good, Details
<1>4. /\ taken' \in [Activities -> Nat] /\ pending' \in [Activities -> Nat]
      /\ \A b \in Activities \ {a} : taken'[b] = taken[b] /\ pending'[b] = pending[b]
      /\ taken'[a] = 0 /\ pending'[a] = 0 /\ taken'[a] >= taken[a]
      /\ throttled' \in [Activities -> BOOLEAN]
  BY <1>2, <1>3 DEF ActivityInv, Types
<1> QED  BY <1>1, <1>2, <1>3, <1>4, QuietIsGood

LEMMA ReceiveKeeps ==
  ASSUME ActivityInv, NEW a \in Activities, Receive(a)  PROVE ActivityInv'
<1>1. /\ processor[a] = "receiving" /\ processor' = [processor EXCEPT ![a] = "handed"]
      /\ taken' = [taken EXCEPT ![a] = @ + 1]
      /\ UNCHANGED <<RestOf, wire, cancelVars, beats, pending, throttled, failed>>
  BY DEF Receive, Step
<1>2. /\ taken \in [Activities -> Nat] /\ pending' \in [Activities -> Nat]
      /\ throttled' \in [Activities -> BOOLEAN] /\ handler[a] \in Working
  BY <1>1, ProcessorWorks DEF ActivityInv, Types
<1>3. /\ taken' \in [Activities -> Nat] /\ taken'[a] = taken[a] + 1 /\ taken[a] \in Nat
      /\ \A b \in Activities \ {a} : taken'[b] = taken[b]
  BY <1>1, <1>2, Incremented
<1>4. taken'[a] >= taken[a] /\ taken'[a] # 0  BY <1>3
<1>5. \A b \in Activities \ {a} : taken'[b] = taken[b] /\ pending'[b] = pending[b]
  BY <1>1, <1>3
<1> QED  BY <1>1, <1>2, <1>3, <1>4, <1>5, QuietIsGood

\* What SetPending leaves.
LEMMA PendingSet ==
  ASSUME Types, NEW a \in Activities, NEW n \in Nat, SetPending(a, n)
  PROVE  /\ pending' \in [Activities -> Nat] /\ pending'[a] = n
         /\ \A b \in Activities \ {a} : pending'[b] = pending[b]
BY DEF Types, SetPending

LEMMA ThrottleKeeps ==
  ASSUME ActivityInv, NEW a \in Activities, Throttle(a)  PROVE ActivityInv'
<1>1. /\ processor[a] = "handed" /\ handler[a] \in Working
      /\ UNCHANGED <<RestOf, beats, taken>>
  BY ProcessorWorks DEF Throttle, _send_heartbeat, Step
<1>2. /\ taken \in [Activities -> Nat] /\ taken[a] \in Nat /\ taken[a] # 0 /\ 0 \in Nat
      /\ Types
  BY <1>1 DEF ActivityInv, Types, Good, Details
<1>3. /\ taken' \in [Activities -> Nat] /\ taken'[a] = taken[a] /\ taken'[a] >= taken[a]
      /\ \A b \in Activities \ {a} : taken'[b] = taken[b]
  BY <1>1, <1>2
<1>4. throttled' \in [Activities -> BOOLEAN]  BY DEF Throttle, ActivityInv, Types
<1>5. CASE /\ Step(a, "handed", "sending") /\ SetPending(a, taken[a]) /\ Record(a, taken[a])
  <2>1. /\ processor' = [processor EXCEPT ![a] = "sending"] /\ Put(a, Beat(taken[a]))
        /\ UNCHANGED <<cancelVars, failed>>
    BY <1>5 DEF Step, Record
  <2> QED  BY <1>1, <1>2, <1>4, <1>5, <2>1, PendingSet, BeatIsGood
<1>6. CASE /\ Step(a, "handed", "receiving") /\ SetPending(a, 0) /\ RecordFails(a, taken[a])
  <2>1. processor' = [processor EXCEPT ![a] = "receiving"]  BY <1>6 DEF Step
  <2> QED  BY <1>1, <1>2, <1>4, <1>6, <2>1, PendingSet, FailedIsGood
<1>7. ASSUME NEW to \in {"encoding", "receiving"}, Step(a, "handed", to),
             SetPending(a, taken[a]), UNCHANGED <<wire, cancelVars, failed>>
      PROVE  ActivityInv'
  <2>1. processor' = [processor EXCEPT ![a] = to]  BY <1>7 DEF Step
  <2>2. /\ pending' \in [Activities -> Nat] /\ pending'[a] = taken[a]
        /\ \A b \in Activities \ {a} : pending'[b] = pending[b]
    BY <1>2, <1>7, PendingSet
  <2>3. \A b \in Activities \ {a} : taken'[b] = taken[b] /\ pending'[b] = pending[b]
    BY <1>3, <2>2
  <2>4. /\ to = "receiving" => pending'[a] \in {0, taken'[a]}
        /\ to = "encoding" => pending'[a] = taken'[a]
        /\ to \in {"handed", "encoding"} => taken'[a] # 0
        /\ ~(to = "over" \/ (to = "receiving" /\ pending'[a] = 0))
    BY <1>2, <1>3, <2>2
  <2> QED  BY <1>1, <1>3, <1>4, <1>7, <2>1, <2>2, <2>3, <2>4, QuietIsGood
<1> QED  BY <1>5, <1>6, <1>7 DEF Throttle, _send_heartbeat

LEMMA BeatEncodedKeeps ==
  ASSUME ActivityInv, NEW a \in Activities, BeatEncoded(a)  PROVE ActivityInv'
<1>1. /\ processor[a] = "encoding" /\ handler[a] \in Working
      /\ UNCHANGED <<RestOf, beats, taken, throttled>>
  BY ProcessorWorks DEF BeatEncoded, Step
<1>2. /\ pending[a] = taken[a] /\ taken[a] # 0 /\ 0 \in Nat /\ Types
      /\ pending \in [Activities -> Nat] /\ throttled' \in [Activities -> BOOLEAN]
  BY <1>1 DEF ActivityInv, Types, Good, Details
<1>3. CASE /\ Step(a, "encoding", "sending") /\ Record(a, pending[a])
           /\ UNCHANGED pending
  <2>1. /\ processor' = [processor EXCEPT ![a] = "sending"] /\ Put(a, Beat(taken[a]))
        /\ UNCHANGED <<cancelVars, failed>>
    BY <1>2, <1>3 DEF Step, Record
  <2> QED  BY <1>1, <1>2, <1>3, <2>1, BeatIsGood
<1>4. CASE /\ Step(a, "encoding", "receiving") /\ RecordFails(a, pending[a])
           /\ SetPending(a, 0)
  <2>1. processor' = [processor EXCEPT ![a] = "receiving"] /\ RecordFails(a, taken[a])
    BY <1>2, <1>4 DEF Step
  <2> QED  BY <1>1, <1>2, <1>4, <2>1, PendingSet, FailedIsGood
<1> QED  BY <1>3, <1>4 DEF BeatEncoded

\* Only a heartbeat that was sent can be refused.
LEMMA BeatAnsweredKeeps ==
  ASSUME ActivityInv, NEW a \in Activities, BeatAnswered(a)  PROVE ActivityInv'
<1> USE DEF RestOf, workerVars, handlerVars
<1>1. /\ processor[a] = "sending" /\ processor' = [processor EXCEPT ![a] = "receiving"]
      /\ pending' = [pending EXCEPT ![a] = 0]
      /\ UNCHANGED <<RestOf, wire, beats, taken, throttled, failed>>
  BY DEF BeatAnswered, Step, SetPending
<1>2. /\ processor' \in [Activities -> ProcessorPlaces] /\ processor'[a] = "receiving"
      /\ pending' \in [Activities -> Nat] /\ pending'[a] = 0 /\ handler[a] \in Working
      /\ \A b \in Activities \ {a} : processor'[b] = processor[b] /\ pending'[b] = pending[b]
      /\ Good(a)
  BY <1>1, ProcessorWorks DEF ActivityInv, Types
<1>3. /\ cause' \in [Activities -> {"none", "request", "beat"}]
      /\ scope' \in [Activities -> {"none", "open", "cancelled"}]
      /\ \A b \in Activities \ {a} : cause'[b] = cause[b] /\ scope'[b] = scope[b]
      /\ \/ cause'[a] = cause[a] /\ scope'[a] = scope[a]
         \/ /\ cause'[a] = "beat"
            /\ scope'[a] = scope[a] \/ (scope[a] = "open" /\ scope'[a] = "cancelled")
            /\ handler[a] = "running" /\ scope[a] # "none" => scope'[a] = "cancelled"
  BY CancelTyped DEF BeatAnswered, ActivityInv, Types, cancelVars
<1>4. Types'  BY <1>1, <1>2, <1>3 DEF ActivityInv, Types
<1>5. ASSUME NEW b \in Activities \ {a} PROVE Good(b)'
  BY <1>1, <1>2, <1>3, Frame DEF ActivityInv, Stopping
<1>6. Good(a)'
  <2>1. Stages(a)' /\ Wired(a)' /\ Details(a)'
    BY <1>1, <1>2, <1>3 DEF Good, Stages, Wired, Details, Early, Working
  <2>2. Recent(a)'
    BY <1>1, <1>2 DEF Good, Recent, Sent, Working
  <2>3. Causes(a)'
    BY <1>1, <1>2, <1>3 DEF Good, Causes, Stopping
  <2>4. Reaches(a)' /\ Entry(a)'
    BY <1>1, <1>2, <1>3 DEF Good, Stages, Reaches, Entry, Working, Stopping
  <2> QED  BY <2>1, <2>2, <2>3, <2>4 DEF Good
<1> QED  BY <1>4, <1>5, <1>6 DEF ActivityInv

LEMMA FlushKeeps ==
  ASSUME ActivityInv, NEW a \in Activities, Flush(a)  PROVE ActivityInv'
<1>1. /\ processor[a] \in {"receiving", "encoding", "sending"} /\ handler[a] \in Working
      /\ processor' = [processor EXCEPT ![a] = "over"]
      /\ UNCHANGED <<RestOf, beats, taken, pending, throttled>>
  BY ProcessorWorks DEF Flush, Step
<1>2. /\ taken' \in [Activities -> Nat] /\ pending' \in [Activities -> Nat]
      /\ throttled' \in [Activities -> BOOLEAN]
      /\ taken[a] \in Nat /\ taken'[a] = taken[a] /\ taken'[a] >= taken[a]
      /\ \A b \in Activities \ {a} : taken'[b] = taken[b] /\ pending'[b] = pending[b]
      /\ Good(a)
  <2>1. taken[a] \in Nat /\ taken' = taken /\ pending' = pending /\ throttled' = throttled
    BY <1>1 DEF ActivityInv, Types
  <2> QED  BY <2>1 DEF ActivityInv, Types
<1>3. CASE pending[a] # 0 /\ (Record(a, pending[a]) \/ RecordFails(a, pending[a]))
  <2>1. pending[a] = taken[a] /\ taken[a] # 0  BY <1>1, <1>2, <1>3 DEF Good, Details
  <2>2. CASE Record(a, taken[a])
    <3>1. Put(a, Beat(taken[a])) /\ UNCHANGED <<cancelVars, failed>>  BY <2>2 DEF Record
    <3> QED  BY <1>1, <1>2, <3>1, BeatIsGood
  <2>3. CASE RecordFails(a, taken[a])  BY <1>1, <1>2, <2>1, <2>3, FailedIsGood
  <2> QED  BY <1>3, <2>1, <2>2, <2>3
<1>4. CASE /\ pending[a] = 0 \/ a \in Suspending
           /\ UNCHANGED <<wire, cancelVars, failed>>
  <2>1. a \notin Suspending /\ taken[a] # 0 =>
          \/ wire[a] # <<>> /\ wire[a][Len(wire[a])].details = taken[a]
          \/ failed[a] = taken[a]
    BY <1>1, <1>2, <1>4 DEF Good, Details, Recent, Sent, Working
  <2> QED  BY <1>1, <1>2, <1>4, <2>1, QuietIsGood
<1> QED  BY <1>3, <1>4 DEF Flush
------------------------------------------------------------------------------
LEMMA ActivityInvariant == Spec => []ActivityInv
<1>1. ASSUME ActivityInv, [Next]_vars PROVE ActivityInv'
  <2>1. CASE Shutdown \/ CloseBridge  BY <1>1, <2>1, ShutdownKeeps, CloseBridgeKeeps
  <2>2. ASSUME NEW a \in Activities,
               \/ PollStart(a) \/ _handle_cancel_activity(a)
               \/ heartbeat(a) \/ Handler(a) \/ Processor(a)
        PROVE  ActivityInv'
    <3>1. CASE PollStart(a)  BY <1>1, <3>1, PollStartKeeps
    <3>2. CASE _handle_cancel_activity(a)  BY <1>1, <3>2, CancelKeeps
    <3>3. CASE heartbeat(a)  BY <1>1, <3>3, HeartbeatKeeps
    <3>4. CASE Handler(a)
      BY <1>1, <3>4, BeginKeeps, DecodedKeeps, ReportedKeeps, FunctionEndsKeeps, EncodedKeeps,
         CompleteKeeps, CompletedKeeps DEF Handler
    <3>5. CASE Processor(a)
      BY <1>1, <3>5, StartProcessorKeeps, ReceiveKeeps, ThrottleKeeps, BeatEncodedKeeps,
         BeatAnsweredKeeps, FlushKeeps DEF Processor
    <3> QED  BY <2>2, <3>1, <3>2, <3>3, <3>4, <3>5
  <2>3. CASE UNCHANGED vars
    <3> USE <2>3 DEF vars, coreVars, workerVars, handlerVars, cancelVars, beatVars
    <3>1. Types'  BY <1>1 DEF ActivityInv, Types
    <3>2. ASSUME NEW b \in Activities PROVE Good(b)'
      BY <1>1, Frame DEF ActivityInv, Stopping
    <3> QED  BY <3>1, <3>2 DEF ActivityInv
  <2> QED  BY <1>1, <2>1, <2>2, <2>3 DEF Next
<1> QED  BY <1>1, InitIsActivity, PTL DEF Spec

LEMMA WireDomain ==
  ASSUME ActivityInv, NEW a \in Activities
  PROVE  DOMAIN wire[a] = 1..Len(wire[a]) /\ Len(wire[a]) \in Nat
<1>1. wire[a] \in Seq(Message)  BY DEF ActivityInv, Types
<1> QED  BY <1>1, LenProperties

(* At most one completion, and no heartbeat after it, whatever ends the    *)
(* activity (_activity.py:404-416): the two tasks take turns as in Stages. *)
THEOREM CompletesLast == Spec => []CompletionIsLast
<1>1. ASSUME ActivityInv PROVE CompletionIsLast
  <2>1. SUFFICES ASSUME NEW a \in Activities, NEW i \in CompletionsIn(wire[a])
                 PROVE  i = Len(wire[a])
    BY DEF CompletionIsLast
  <2>2. i \in 1..Len(wire[a]) /\ wire[a][i].result # "none"
    BY <1>1, <2>1, WireDomain DEF CompletionsIn
  <2> QED  BY <1>1, <2>2 DEF ActivityInv, Good, Wired
<1> QED  BY <1>1, ActivityInvariant, PTL

(* Heartbeats arrive in the order of the calls, and the completion finds   *)
(* the latest already sent, unless sending those very details raised       *)
(* (_activity.py:472-517): Details and Recent say so of every state of the *)
(* throttle, with conversions that fail and a client that is closed.       *)
THEOREM SendsLatest == Spec => []LatestDetails
<1>1. ASSUME ActivityInv PROVE LatestDetails
  <2>1. SUFFICES ASSUME NEW a \in Activities
        PROVE /\ \A i, j \in DOMAIN wire[a] \ CompletionsIn(wire[a]) :
                   i < j => wire[a][i].details =< wire[a][j].details
              /\ handler[a] = "completing" /\ a \notin Suspending /\ taken[a] > 0 =>
                   \/ Len(wire[a]) > 1 /\ wire[a][Len(wire[a]) - 1].details = taken[a]
                   \/ failed[a] = taken[a]
    BY DEF LatestDetails
  <2>2. Good(a) /\ taken[a] \in Nat  BY <1>1 DEF ActivityInv, Types
  <2>3. \A i \in DOMAIN wire[a] \ CompletionsIn(wire[a]) :
          i \in 1..Len(wire[a]) /\ wire[a][i].result = "none"
    BY <1>1, WireDomain DEF CompletionsIn
  <2>4. \A i, j \in DOMAIN wire[a] \ CompletionsIn(wire[a]) :
          i < j => wire[a][i].details =< wire[a][j].details
    BY <2>2, <2>3 DEF Good, Details
  <2>5. handler[a] = "completing" /\ a \notin Suspending /\ taken[a] > 0 =>
          \/ Len(wire[a]) > 1 /\ wire[a][Len(wire[a]) - 1].details = taken[a]
          \/ failed[a] = taken[a]
    BY <2>2 DEF Good, Recent
  <2> QED  BY <2>4, <2>5
<1> QED  BY <1>1, ActivityInvariant, PTL

(* No completion says "cancelled" that nobody asked for, nor blames a      *)
(* heartbeat when none was sent and none failed to be                      *)
(* (_activity.py:358-385, 512-517), whoever cancels when.                  *)
THEOREM ReportsCause == Spec => []CauseReported
<1>1. ASSUME ActivityInv PROVE CauseReported
  <2>1. ASSUME NEW a \in Activities, NEW i \in CompletionsIn(wire[a])
        PROVE  /\ wire[a][i].result = "cancelled" => "cancel" \in sent[a] \/ Stopping
               /\ wire[a][i].result = "beat" =>
                    failed[a] # 0 \/ \E j \in 1..(i-1) : wire[a][j].result = "none"
    <3>1. i \in 1..Len(wire[a])  BY <1>1, <2>1, WireDomain DEF CompletionsIn
    <3> QED  BY <1>1, <3>1 DEF ActivityInv, Good, Causes
  <2> QED  BY <2>1 DEF CauseReported
<1> QED  BY <1>1, ActivityInvariant, PTL

(* A function that runs and knows of a cancel is being cancelled, unless   *)
(* its arguments were decoded by a codec that suspends                     *)
(* (_activity.py:82-86).                                                   *)
THEOREM CancelsReach == Spec => []CancelReaches
<1>1. ASSUME ActivityInv PROVE CancelReaches
  BY <1>1 DEF ActivityInv, Good, Reaches, CancelReaches
<1> QED  BY <1>1, ActivityInvariant, PTL

(* No entry outlives its handler while the worker runs, but for arguments  *)
(* that were not decoded (_activity.py:421).                               *)
THEOREM LeavesNoEntry == Spec => []NoEntryLeft
<1>1. ASSUME ActivityInv PROVE NoEntryLeft
  BY <1>1 DEF ActivityInv, Types, Good, Entry, NoEntryLeft
<1> QED  BY <1>1, ActivityInvariant, PTL
==============================================================================
