------------------------- MODULE WorkflowClientProof --------------------------
(***************************************************************************)
(* The client's handles, for any number of runs and lost answers.  Runs    *)
(* only grow: a run keeps its first run, and what closed stays as it is.   *)
(* The answer to a request fits the runs as they are (Fits), and what the  *)
(* task awaits fits its handle (Wanted).                                   *)
(***************************************************************************)
EXTENDS WorkflowClient, SequenceTheorems, TLAPS

Statuses == Closes \cup {"running"}
RunRecord == [first : Nat, status : Statuses, next : Nat]
Rpcs == {"none", "start", "signal_with_start", "cancel", "terminate", "update",
         "update_with_start"} \cup Reads
Hows == {"none", "ok", "error", "open", "done"} \cup Closes
RequestRecord == [rpc : Rpcs, run : Nat, first : Nat, owner : Nat]
ReplyRecord   == [how : Hows, run : Nat, next : Nat]

Types ==
  /\ runs \in Seq(RunRecord) /\ late \subseteq RequestRecord /\ request \in RequestRecord
  /\ reply \in ReplyRecord
  /\ handle \in [run : Nat, result : Nat, first : Nat]
  /\ doing \in Operations \cup {"idle"}

\* A run that has a next one has closed, and both are of one chain.
Chains ==
  \A i \in 1..Latest :
    /\ runs[i].status \in {"running", "canceled"} => runs[i].next = 0
    /\ runs[i].next # 0 =>
         /\ runs[i].next \in (i + 1)..Latest
         /\ runs[runs[i].next].first = runs[i].first

\* What is asked is asked for runs that exist, and says whose chain is meant.
Meant(q) == q.run =< Latest /\ q.owner \in {0, q.first}
Asked    == \A q \in late \cup {request} : Meant(q)

Known == handle.run =< Latest /\ handle.result =< Latest

Starting == {"start_workflow", "execute_workflow"}
Awaiting == {"result", "own_result"}
Suits(op, q) ==
  /\ op \in Starting => q.rpc \in {"start", "signal_with_start"}
  /\ op \in Awaiting => q.rpc = "result"
  /\ op = "own_result" => q.run = handle.result
  /\ op = "result" /\ handle.result # 0 =>
       q.run >= handle.result /\ runs[q.run].first = runs[handle.result].first
  /\ op \in {"query", "describe"} => q.rpc = op /\ q.run = handle.run
Wanted == (doing # "idle" => outcome = NoOutcome) /\ Suits(doing, request)

Fits(q, a) ==
  /\ q.rpc \in {"start", "signal_with_start"} /\ a.how # "error" => a.run \in 1..Latest
  /\ q.rpc = "result" =>
       /\ a.how = "error" => q.run = 0
       /\ a.how # "error" =>
            /\ a.run \in 1..Latest /\ q.run \in {0, a.run}
            /\ a.how # "open" => a.how = runs[a.run].status /\ a.next = runs[a.run].next
                                 /\ a.how # "running"
  /\ q.rpc \in {"query", "describe"} /\ a.how # "error" => q.run \in {0, a.run}
Fitting == reply # NoReply => Fits(request, reply)

\* What result() has returned is of a run that has closed.
Final ==
  outcome.op = "result" /\ outcome.how # "error" =>
    outcome.run \in 1..Latest /\ runs[outcome.run].status # "running"

ClientInv == /\ Types /\ Chains /\ Asked /\ Known /\ Wanted /\ Fitting
             /\ Final /\ ResultOfChain /\ CancelInChain

\* How the runs change.
Grows ==
  /\ runs' \in Seq(RunRecord) /\ Latest =< Latest' /\ Chains'
  /\ \A i \in 1..Latest : /\ runs'[i].first = runs[i].first
                          /\ runs[i].status # "running" => runs'[i] = runs[i]
------------------------------------------------------------------------------
LEMMA RunTyped ==
  ASSUME Types, NEW i \in 1..Latest
  PROVE  /\ runs[i] \in RunRecord /\ runs[i].first \in Nat /\ runs[i].status \in Statuses
         /\ runs[i].next \in Nat /\ i \in Nat /\ i # 0
<1>1. runs \in Seq(RunRecord) /\ i \in 1..Len(runs)  BY DEF Types, Latest
<1>2. runs[i] \in RunRecord  BY <1>1, ElementOfSeq
<1> QED  BY <1>1, <1>2 DEF RunRecord, Statuses

LEMMA LatestTyped == ASSUME Types PROVE Latest \in Nat
BY DEF Types, Latest

LEMMA SameGrows == ASSUME Types, Chains, UNCHANGED runs PROVE Grows
BY DEF Types, Chains, Grows, Latest

\* A run is added.
LEMMA AppendGrows ==
  ASSUME Types, Chains, NEW f \in Nat, runs' = Append(runs, NewRun(f))
  PROVE  Grows /\ Latest' = Latest + 1 /\ runs'[Latest + 1] = NewRun(f)
<1>1. runs \in Seq(RunRecord) /\ Latest = Len(runs) /\ Latest \in Nat
  BY DEF Types, Latest
<1>2. NewRun(f) \in RunRecord  BY DEF NewRun, RunRecord, Statuses
<1>3. /\ runs' \in Seq(RunRecord) /\ Latest' = Latest + 1 /\ runs'[Latest + 1] = NewRun(f)
      /\ \A i \in 1..Latest : runs'[i] = runs[i]
  BY <1>1, <1>2, AppendProperties DEF Latest
<1>4. ASSUME NEW i \in 1..Latest'
      PROVE  /\ runs'[i].status \in {"running", "canceled"} => runs'[i].next = 0
             /\ runs'[i].next # 0 => /\ runs'[i].next \in (i + 1)..Latest'
                                     /\ runs'[runs'[i].next].first = runs'[i].first
  <2>1. CASE i \in 1..Latest
    <3>1. runs'[i] = runs[i]  BY <1>3, <2>1
    <3>2. runs[i].next \in Nat  BY <2>1, RunTyped
    <3>3. CASE runs[i].next # 0
      <4>1. runs[i].next \in (i + 1)..Latest /\ runs[runs[i].next].first = runs[i].first
        BY <2>1, <3>3 DEF Chains
      <4>2. runs[i].next \in 1..Latest  BY <1>1, <2>1, <4>1
      <4>3. runs[i].next \in (i + 1)..Latest'  BY <1>1, <1>3, <2>1, <4>1
      <4>4. runs'[runs[i].next] = runs[runs[i].next]  BY <1>3, <4>2
      <4> QED  BY <2>1, <3>1, <4>1, <4>3, <4>4 DEF Chains
    <3> QED  BY <2>1, <3>1, <3>3 DEF Chains
  <2>2. CASE i = Latest + 1
    <3>1. NewRun(f).next = 0 /\ runs'[i] = NewRun(f)  BY <1>3, <2>2 DEF NewRun
    <3> QED  BY <3>1
  <2> QED  BY <1>1, <1>3, <2>1, <2>2
<1>5. Chains'  BY <1>4 DEF Chains
<1> QED  BY <1>1, <1>3, <1>5 DEF Grows

LEMMA BegunGrows ==
  ASSUME Types, Chains, Begun
  PROVE  Grows /\ Latest' = Latest + 1 /\ Latest + 1 \in 1..Latest'
<1>1. Latest \in Nat /\ Latest + 1 \in Nat  BY LatestTyped
<1>2. runs' = Append(runs, NewRun(Latest + 1))  BY DEF Begun
<1> QED  BY <1>1, <1>2, AppendGrows

\* The latest run closes, without a next run or with the one that is added.
LEMMA ClosedGrows ==
  ASSUME Types, Chains, NEW i \in 1..Latest, runs[i].status = "running",
         NEW how \in Closes,
         runs' = [runs EXCEPT ![i].status = how]
  PROVE  Grows /\ Latest' = Latest
<1>1. runs \in Seq(RunRecord) /\ Latest = Len(runs) /\ Latest \in Nat
  BY DEF Types, Latest
<1>2. runs[i] \in RunRecord /\ runs[i].next = 0  BY RunTyped DEF Chains
<1>3. [runs[i] EXCEPT !.status = how] \in RunRecord  BY <1>2 DEF RunRecord, Statuses
<1>4. runs' = [runs EXCEPT ![i] = [runs[i] EXCEPT !.status = how]]  OBVIOUS
<1>5. /\ runs' \in Seq(RunRecord) /\ Len(runs') = Len(runs)
      /\ runs'[i] = [runs[i] EXCEPT !.status = how]
      /\ \A j \in 1..Latest : j # i => runs'[j] = runs[j]
  BY <1>1, <1>3, <1>4, ExceptSeq
<1>6. Latest' = Latest  BY <1>1, <1>5 DEF Latest
<1>7. runs'[i].next = 0 /\ runs'[i].first = runs[i].first
  <2> DEFINE r == [runs[i] EXCEPT !.status = how]
  <2>1. r.next = runs[i].next /\ r.first = runs[i].first  BY <1>2 DEF RunRecord
  <2> QED  BY <1>2, <1>5, <2>1
<1>8. \A j \in 1..Latest : runs'[j].next = runs[j].next /\ runs'[j].first = runs[j].first
  BY <1>2, <1>5, <1>7
<1>9. ASSUME NEW j \in 1..Latest'
      PROVE  /\ runs'[j].status \in {"running", "canceled"} => runs'[j].next = 0
             /\ runs'[j].next # 0 => /\ runs'[j].next \in (j + 1)..Latest'
                                     /\ runs'[runs'[j].next].first = runs'[j].first
  <2>1. CASE j = i  BY <1>7, <2>1
  <2>2. CASE j # i
    <3>1. j \in 1..Latest /\ runs'[j] = runs[j]  BY <1>5, <1>6, <2>2
    <3>2. CASE runs[j].next # 0
      <4>1. runs[j].next \in (j + 1)..Latest /\ runs[runs[j].next].first = runs[j].first
        BY <3>1, <3>2 DEF Chains
      <4>2. runs[j].next \in 1..Latest  BY <1>1, <3>1, <4>1
      <4> QED  BY <1>6, <1>8, <3>1, <4>1, <4>2 DEF Chains
    <3> QED  BY <3>1, <3>2 DEF Chains
  <2> QED  BY <2>1, <2>2
<1>10. Chains'  BY <1>9 DEF Chains
<1>11. \A j \in 1..Latest : runs[j].status # "running" => runs'[j] = runs[j]  BY <1>5
<1> QED  BY <1>1, <1>5, <1>6, <1>8, <1>10, <1>11 DEF Grows

\* The chain goes on in a next run.
LEMMA ContinuedGrows ==
  ASSUME Types, Chains, Running, NEW how \in Closes, how # "canceled",
         runs' = Append([runs EXCEPT ![Latest].status = how, ![Latest].next = Latest + 1],
                        NewRun(runs[Latest].first))
  PROVE  Grows /\ Latest' = Latest + 1 /\ Latest + 1 \in 1..Latest'
<1>1. runs \in Seq(RunRecord) /\ Latest = Len(runs) /\ Latest \in Nat
  BY DEF Types, Latest
<1>2. Latest \in 1..Latest /\ runs[Latest].status = "running"
  BY <1>1 DEF Running, Alive
<1>3. runs[Latest] \in RunRecord /\ runs[Latest].first \in Nat  BY <1>2, RunTyped
<1> DEFINE last   == [runs[Latest] EXCEPT !.status = how, !.next = Latest + 1]
           closed == [runs EXCEPT ![Latest] = last]
           new    == NewRun(runs[Latest].first)
<1>4. last \in RunRecord
  <2>1. how \in Statuses /\ Latest + 1 \in Nat  BY <1>1 DEF Statuses
  <2> QED  BY <1>3, <2>1 DEF RunRecord
<1>5. last.next = Latest + 1 /\ last.first = runs[Latest].first /\ last.status = how
  BY <1>3 DEF RunRecord
<1>6. new \in RunRecord /\ new.next = 0 /\ new.first = runs[Latest].first
  BY <1>3 DEF NewRun, RunRecord, Statuses
<1>7. runs' = Append(closed, new)  OBVIOUS
<1> HIDE DEF last, new
<1>8. /\ closed \in Seq(RunRecord) /\ Len(closed) = Latest /\ closed[Latest] = last
      /\ \A j \in 1..Latest : j # Latest => closed[j] = runs[j]
  BY <1>1, <1>2, <1>4, ExceptSeq
<1> HIDE DEF closed
<1>9. /\ runs' \in Seq(RunRecord) /\ Latest' = Latest + 1 /\ runs'[Latest + 1] = new
      /\ runs'[Latest] = last
      /\ \A j \in 1..Latest : j # Latest => runs'[j] = runs[j]
  <2>1. /\ Append(closed, new) \in Seq(RunRecord) /\ Len(Append(closed, new)) = Latest + 1
        /\ Append(closed, new)[Latest + 1] = new
        /\ \A j \in 1..Latest : Append(closed, new)[j] = closed[j]
    BY <1>1, <1>6, <1>8, AppendProperties
  <2> QED  BY <1>1, <1>2, <1>7, <1>8, <2>1 DEF Latest
<1>10. \A j \in 1..Latest : runs'[j].first = runs[j].first  BY <1>5, <1>9
<1>11. ASSUME NEW j \in 1..Latest'
       PROVE  /\ runs'[j].status \in {"running", "canceled"} => runs'[j].next = 0
              /\ runs'[j].next # 0 => /\ runs'[j].next \in (j + 1)..Latest'
                                      /\ runs'[runs'[j].next].first = runs'[j].first
  <2>1. CASE j = Latest + 1  BY <1>6, <1>9, <2>1
  <2>2. CASE j = Latest
    <3>1. runs'[j].status = how /\ runs'[j].next = Latest + 1  BY <1>5, <1>9, <2>2
    <3>2. Latest + 1 \in (j + 1)..Latest'  BY <1>1, <1>9, <2>2
    <3>3. how \notin {"running", "canceled"}  BY DEF Closes
    <3> QED  BY <1>5, <1>6, <1>9, <2>2, <3>1, <3>2, <3>3
  <2>3. CASE j \in 1..Latest /\ j # Latest
    <3>1. runs'[j] = runs[j]  BY <1>9, <2>3
    <3>2. CASE runs[j].next # 0
      <4>1. runs[j].next \in (j + 1)..Latest /\ runs[runs[j].next].first = runs[j].first
        BY <2>3, <3>2 DEF Chains
      <4>2. runs[j].next \in 1..Latest /\ runs[j].next \in (j + 1)..Latest'
        BY <1>1, <1>9, <2>3, <4>1
      <4> QED  BY <1>10, <2>3, <3>1, <4>1, <4>2 DEF Chains
    <3> QED  BY <2>3, <3>1, <3>2 DEF Chains
  <2>4. j \in 1..(Latest + 1)  BY <1>9
  <2>5. j = Latest + 1 \/ j = Latest \/ (j \in 1..Latest /\ j # Latest)
    BY ONLY <1>1, <2>4
  <2> QED  BY <2>1, <2>2, <2>3, <2>5
<1>12. Chains'  BY <1>11 DEF Chains
<1>13. \A j \in 1..Latest : runs[j].status # "running" => runs'[j] = runs[j]
  BY <1>2, <1>9
<1>14. Latest =< Latest' /\ Latest + 1 \in 1..Latest'  BY <1>1, <1>9
<1> QED  BY <1>9, <1>10, <1>12, <1>13, <1>14 DEF Grows

LEMMA CloseRunGrows ==
  ASSUME Types, Chains, NEW how \in Closes, NEW goesOn \in BOOLEAN, CloseRun(how, goesOn)
  PROVE  Grows
<1>1. Running /\ Latest \in 1..Latest /\ runs[Latest].status = "running"
  BY LatestTyped DEF CloseRun, Running, Alive
<1>2. CASE goesOn
  BY <1>1, <1>2, ContinuedGrows DEF CloseRun
<1>3. CASE ~goesOn
  <2>1. runs' = [runs EXCEPT ![Latest].status = how, ![Latest].next = 0]
    BY <1>3 DEF CloseRun
  <2>2. runs[Latest].next = 0 /\ runs[Latest] \in RunRecord  BY <1>1, RunTyped DEF Chains
  <2>3. [runs[Latest] EXCEPT !.status = how, !.next = 0] = [runs[Latest] EXCEPT !.status = how]
    BY <2>2 DEF RunRecord
  <2>4. runs' = [runs EXCEPT ![Latest].status = how]  BY <1>1, <2>1, <2>3 DEF Types, Latest
  <2> QED  BY <1>1, <2>4, ClosedGrows
<1> QED  BY <1>2, <1>3
------------------------------------------------------------------------------
(* Whatever the runs become, what was asked and answered keeps its sense.  *)
LEMMA FitsStays ==
  ASSUME Types, Grows, NEW q, NEW a, a.run \in Nat, Fits(q, a)
  PROVE  Fits(q, a)'
<1>1. Latest \in Nat /\ Latest' \in Nat /\ Latest =< Latest'
  BY LatestTyped DEF Grows, Latest
<1>2. a.run \in 1..Latest => a.run \in 1..Latest'  BY <1>1
<1>3. ASSUME a.run \in 1..Latest, a.how = runs[a.run].status, a.how # "running",
             a.next = runs[a.run].next
      PROVE  a.how = runs'[a.run].status /\ a.next = runs'[a.run].next
  BY <1>3 DEF Grows
<1> QED  BY <1>2, <1>3 DEF Fits

LEMMA MeantStays ==
  ASSUME Types, Grows, NEW q, q.run \in Nat, Meant(q)  PROVE Meant(q)'
<1>1. Latest \in Nat /\ Latest' \in Nat /\ Latest =< Latest'
  BY LatestTyped DEF Grows, Latest
<1> QED  BY <1>1 DEF Meant

LEMMA KnownStays ==
  ASSUME Types, Grows, Known, UNCHANGED handle  PROVE Known'
<1>1. Latest \in Nat /\ Latest' \in Nat /\ Latest =< Latest'
  BY LatestTyped DEF Grows, Latest
<1>2. handle.run \in Nat /\ handle.result \in Nat  BY DEF Types
<1> QED  BY <1>1, <1>2 DEF Known

LEMMA WantedStays ==
  ASSUME Types, Asked, Known, Wanted, Grows, UNCHANGED <<handle, doing, request, outcome>>
  PROVE  Wanted'
<1>1. /\ Latest \in Nat /\ request.run \in Nat /\ handle.result \in Nat
      /\ request.run =< Latest /\ handle.result =< Latest
  BY LatestTyped DEF Types, Asked, Meant, Known, RequestRecord
<1>2. ASSUME doing = "result", handle.result # 0
      PROVE  /\ request.run >= handle.result
             /\ runs'[request.run].first = runs'[handle.result].first
  <2>1. /\ request.run >= handle.result
        /\ runs[request.run].first = runs[handle.result].first
    BY <1>2 DEF Wanted, Suits
  <2>2. request.run \in 1..Latest /\ handle.result \in 1..Latest  BY <1>1, <1>2, <2>1
  <2> QED  BY <2>1, <2>2 DEF Grows
<1> QED  BY <1>2 DEF Wanted, Suits

\* A result is final: its run has closed.
LEMMA ResultStays ==
  ASSUME Types, ResultOfChain, Final, Known, Grows, UNCHANGED <<handle, outcome>>
  PROVE  ResultOfChain' /\ Final'
<1>1. /\ Latest \in Nat /\ Latest' \in Nat /\ Latest =< Latest'
      /\ handle.result \in Nat /\ handle.result =< Latest
  BY LatestTyped DEF Grows, Latest, Known, Types
<1>2. CASE outcome.op = "result" /\ outcome.how # "error"
  <2>1. outcome.run \in 1..Latest /\ runs[outcome.run].status # "running"  BY <1>2 DEF Final
  <2>2. runs'[outcome.run] = runs[outcome.run] /\ outcome.run \in 1..Latest'
    BY <1>1, <2>1 DEF Grows
  <2>3. handle.result # 0 => runs'[handle.result].first = runs[handle.result].first
    BY <1>1 DEF Grows
  <2> QED  BY <1>2, <2>1, <2>2, <2>3 DEF ResultOfChain, Final
<1> QED  BY <1>2 DEF ResultOfChain, Final
------------------------------------------------------------------------------
(* The server.                                                             *)
USE DEF Stages

LEMMA ReplyFacts ==
  ASSUME NEW q, NEW ours \in BOOLEAN, NEW a, Reply(q, ours, a)
  PROVE  late' \subseteq late /\ (reply' = reply \/ (ours /\ reply' = a))
BY DEF Reply

LEMMA TargetTyped ==
  ASSUME Types, NEW q \in RequestRecord, Meant(q)
  PROVE  Target(q) \in 0..Latest /\ (q.run # 0 => Target(q) = q.run) /\ q.run \in Nat
BY LatestTyped DEF Target, Meant, RequestRecord

\* What a served request leaves behind.
Replied(q, ours) ==
  /\ late' \subseteq late
  /\ reply' = reply \/ (ours /\ \E a \in ReplyRecord : reply' = a /\ Fits(q, a)')

LEMMA AnswerTyped ==
  ASSUME NEW how \in Hows, NEW run \in Nat, NEW next \in Nat
  PROVE  /\ Answer(how, run, next) \in ReplyRecord /\ Answer(how, run, next).how = how
         /\ Answer(how, run, next).run = run /\ Answer(how, run, next).next = next
BY DEF Answer, ReplyRecord

LEMMA ErrorTyped == Error \in ReplyRecord /\ Error.how = "error"
BY AnswerTyped DEF Error, Hows

LEMMA RepliedFits ==
  ASSUME NEW q, NEW ours \in BOOLEAN, NEW a \in ReplyRecord, Reply(q, ours, a), Fits(q, a)'
  PROVE  Replied(q, ours)
BY ReplyFacts DEF Replied

\* An answer that leaves the runs alone.
LEMMA RepliedSame ==
  ASSUME Types, Chains, NEW q, NEW ours \in BOOLEAN, UNCHANGED runs,
         \E a \in ReplyRecord : Reply(q, ours, a) /\ Fits(q, a)
  PROVE  Grows /\ Replied(q, ours)
<1>1. PICK a \in ReplyRecord : Reply(q, ours, a) /\ Fits(q, a)  OBVIOUS
<1>2. Fits(q, a)'  BY <1>1 DEF Fits, Latest
<1> QED  BY <1>1, <1>2, SameGrows, RepliedFits

\* The answer to a request for a run that is new or the latest.
LEMMA RepliedRun ==
  ASSUME Types, NEW q, NEW ours \in BOOLEAN, Grows, NEW n \in 1..Latest', NEW how \in Hows,
         q.rpc \notin {"result", "query", "describe"},
         Reply(q, ours, Answer(how, n, 0))
  PROVE  Replied(q, ours)
<1>1. n \in Nat /\ 0 \in Nat  BY DEF Latest, Grows
<1>2. Answer(how, n, 0) \in ReplyRecord /\ Answer(how, n, 0).run = n  BY <1>1, AnswerTyped
<1>3. PICK a \in ReplyRecord : a = Answer(how, n, 0)  BY <1>2
<1>4. Fits(q, a)'  BY <1>2, <1>3 DEF Fits
<1>5. Reply(q, ours, a)  BY <1>3
<1> QED  BY <1>4, <1>5, RepliedFits

\* An error is an answer to anything but a result.
LEMMA RepliedError ==
  ASSUME Types, Chains, NEW q, NEW ours \in BOOLEAN, UNCHANGED runs, q.rpc # "result",
         Reply(q, ours, Error)
  PROVE  Grows /\ Replied(q, ours)
<1>1. Fits(q, Error)  BY ErrorTyped DEF Fits
<1> QED  BY <1>1, ErrorTyped, RepliedSame

LEMMA StartKeeps ==
  ASSUME Types, Chains, NEW q \in RequestRecord, Meant(q), NEW ours \in BOOLEAN,
         ServeStart(q, ours) \/ ServeSignalWithStart(q, ours)
  PROVE  Grows /\ Replied(q, ours)
<1>1. q.rpc \in {"start", "signal_with_start"}  BY DEF ServeStart, ServeSignalWithStart
<1>2. Latest \in Nat /\ "ok" \in Hows  BY LatestTyped DEF Hows
<1>3. CASE UNCHANGED runs /\ Reply(q, ours, Error)
  BY <1>1, <1>3, RepliedError
<1>4. CASE UNCHANGED runs /\ Running /\ Reply(q, ours, Answer("ok", Latest, 0))
  <2>1. PICK n \in 1..Latest' : n = Latest
    BY <1>2, <1>4 DEF Running, Alive, Latest
  <2> QED  BY <1>1, <1>2, <1>4, <2>1, SameGrows, RepliedRun
<1>5. CASE Begun /\ Reply(q, ours, Answer("ok", Latest + 1, 0))
  <2>1. Latest + 1 \in 1..Latest' /\ Grows  BY <1>5, BegunGrows
  <2>2. PICK n \in 1..Latest' : n = Latest + 1  BY <2>1
  <2> QED  BY <1>1, <1>2, <1>5, <2>1, <2>2, RepliedRun
<1> QED  BY <1>3, <1>4, <1>5 DEF ServeStart, ServeSignalWithStart

LEMMA ResultKeeps ==
  ASSUME Types, Chains, NEW q \in RequestRecord, Meant(q), NEW ours \in BOOLEAN,
         ServeResult(q, ours)
  PROVE  Grows /\ Replied(q, ours)
<1> DEFINE i == Target(q)
<1>1. i \in 0..Latest /\ (q.run # 0 => i = q.run) /\ q.rpc = "result" /\ UNCHANGED runs
  BY TargetTyped DEF ServeResult
<1>2. Latest \in Nat /\ i \in Nat /\ 0 \in Nat  BY <1>1, LatestTyped
<1>3. q.run \in {0, i}  BY <1>1
<1>4. CASE i = 0
  <2>1. Reply(q, ours, Error) /\ q.run = 0  BY <1>1, <1>4 DEF ServeResult
  <2>2. Fits(q, Error)  BY <1>1, <2>1, ErrorTyped DEF Fits
  <2> QED  BY <1>1, <2>1, <2>2, ErrorTyped, RepliedSame
<1>5. CASE i # 0 /\ Alive(i)
  <2> DEFINE a == Answer("open", i, 0)
  <2>1. Reply(q, ours, a)  BY <1>5 DEF ServeResult
  <2>2. i \in 1..Latest /\ "open" \in Hows  BY <1>1, <1>2, <1>5 DEF Hows
  <2>3. a \in ReplyRecord /\ a.how = "open" /\ a.run = i  BY <1>2, <2>2, AnswerTyped
  <2>4. Fits(q, a)  BY <1>1, <1>3, <2>2, <2>3 DEF Fits
  <2> QED  BY <1>1, <2>1, <2>3, <2>4, RepliedSame
<1>6. CASE i # 0 /\ ~Alive(i)
  <2> DEFINE a == Answer(runs[i].status, i, runs[i].next)
  <2>1. Reply(q, ours, a)  BY <1>6 DEF ServeResult
  <2>2. i \in 1..Latest  BY <1>1, <1>2, <1>6
  <2>3. runs[i].status \in Statuses /\ runs[i].next \in Nat  BY <2>2, RunTyped
  <2>4. runs[i].status # "running" /\ runs[i].status \in Hows
    BY <1>6, <2>3 DEF Alive, Hows, Statuses
  <2>5. /\ a \in ReplyRecord /\ a.how = runs[i].status /\ a.run = i
        /\ a.next = runs[i].next
    BY <1>2, <2>3, <2>4, AnswerTyped
  <2>6. a.how # "error"  BY <2>3, <2>5 DEF Statuses, Closes
  <2>7. Fits(q, a)  BY <1>1, <1>3, <2>2, <2>4, <2>5, <2>6 DEF Fits
  <2> QED  BY <1>1, <2>1, <2>5, <2>7, RepliedSame
<1> QED  BY <1>4, <1>5, <1>6

LEMMA ReadKeeps ==
  ASSUME Types, Chains, NEW q \in RequestRecord, Meant(q), NEW ours \in BOOLEAN,
         ServeRead(q, ours)
  PROVE  Grows /\ Replied(q, ours)
<1> DEFINE a == Answer("ok", Target(q), 0)
<1>1. /\ Target(q) \in 0..Latest /\ (q.run # 0 => Target(q) = q.run)
      /\ q.rpc \in {"query", "describe"} /\ UNCHANGED runs
  BY TargetTyped DEF ServeRead
<1>2. Target(q) \in Nat /\ 0 \in Nat /\ "ok" \in Hows  BY <1>1, LatestTyped DEF Hows
<1>3. CASE Reply(q, ours, a)
  <2>1. a \in ReplyRecord /\ a.run = Target(q)  BY <1>2, AnswerTyped
  <2>2. Fits(q, a)  BY <1>1, <2>1 DEF Fits
  <2> QED  BY <1>1, <1>3, <2>1, <2>2, RepliedSame
<1>4. CASE Reply(q, ours, Error)  BY <1>1, <1>4, RepliedError
<1> QED  BY <1>3, <1>4 DEF ServeRead

LEMMA UpdateKeeps ==
  ASSUME Types, Chains, NEW q \in RequestRecord, Meant(q), NEW ours \in BOOLEAN,
         \/ ServeUpdate(q, ours) \/ ServeUpdateWithStart(q, ours) \/ ServePollUpdate(q, ours)
  PROVE  Grows /\ Replied(q, ours)
<1>1. q.rpc \in {"update", "update_with_start", "poll_update"}
  BY DEF ServeUpdate, ServeUpdateWithStart, ServePollUpdate
<1>2. /\ Latest \in Nat /\ Target(q) \in 0..Latest /\ Target(q) \in Nat
      /\ Stages \subseteq Hows
  BY LatestTyped, TargetTyped DEF Hows
<1>3. CASE UNCHANGED runs /\ Reply(q, ours, Error)
  BY <1>1, <1>3, RepliedError
<1>4. ASSUME UNCHANGED runs, NEW stage \in Stages, NEW n \in 1..Latest,
             Reply(q, ours, Answer(stage, n, 0))
      PROVE  Grows /\ Replied(q, ours)
  <2>1. n \in 1..Latest' /\ stage \in Hows  BY <1>2, <1>4 DEF Latest
  <2> QED  BY <1>1, <1>4, <2>1, SameGrows, RepliedRun
<1>5. CASE Begun /\ \E stage \in Stages : Reply(q, ours, Answer(stage, Latest + 1, 0))
  <2>1. Latest + 1 \in 1..Latest' /\ Grows  BY <1>5, BegunGrows
  <2>2. PICK n \in 1..Latest' : n = Latest + 1  BY <2>1
  <2> QED  BY <1>1, <1>2, <1>5, <2>1, <2>2, RepliedRun
<1>6. CASE /\ UNCHANGED runs /\ Running
           /\ \E stage \in Stages : Reply(q, ours, Answer(stage, Latest, 0))
  <2>1. PICK n \in 1..Latest : n = Latest  BY <1>2, <1>6 DEF Running, Alive
  <2> QED  BY <1>4, <1>6, <2>1
<1>7. CASE /\ UNCHANGED runs /\ Target(q) # 0
           /\ \E stage \in Stages : Reply(q, ours, Answer(stage, Target(q), 0))
  <2>1. PICK n \in 1..Latest : n = Target(q)  BY <1>2, <1>7
  <2> QED  BY <1>4, <1>7, <2>1
<1>8. CASE ServeUpdate(q, ours)  BY <1>3, <1>7, <1>8 DEF ServeUpdate
<1>9. CASE ServePollUpdate(q, ours)  BY <1>3, <1>7, <1>9 DEF ServePollUpdate
<1>10. CASE ServeUpdateWithStart(q, ours)
  BY <1>3, <1>5, <1>6, <1>10 DEF ServeUpdateWithStart
<1> QED  BY <1>8, <1>9, <1>10

\* Cancelling and terminating: the run belongs to the chain that is meant.
LEMMA CancelKeeps ==
  ASSUME Types, Chains, NEW q \in RequestRecord, Meant(q), NEW ours \in BOOLEAN,
         ServeCancel(q, ours) \/ ServeTerminate(q, ours)
  PROVE  Grows /\ Replied(q, ours) /\ CancelInChain'
<1> DEFINE i == Target(q)
<1>1. i \in 0..Latest /\ q.rpc \in {"cancel", "terminate"} /\ Latest \in Nat
  BY TargetTyped, LatestTyped DEF ServeCancel, ServeTerminate
<1>2. Grows
  <2>1. CASE UNCHANGED runs  BY <2>1, SameGrows
  <2>2. CASE Reaches(q) /\ runs' = [runs EXCEPT ![i].status = "canceled"]
    <3>1. i \in 1..Latest /\ runs[i].status = "running"
      BY <1>1, <2>2 DEF Reaches, Alive
    <3>2. "canceled" \in Closes  BY DEF Closes
    <3> QED  BY <2>2, <3>1, <3>2, ClosedGrows
  <2> QED  BY <2>1, <2>2 DEF ServeCancel, ServeTerminate
<1>3. Replied(q, ours)
  <2>1. 0 \in Nat /\ "ok" \in Hows  BY DEF Hows
  <2>2. Answer("ok", 0, 0) \in ReplyRecord  BY <2>1, AnswerTyped
  <2>3. PICK a \in ReplyRecord : Reply(q, ours, a)
    BY <2>2, ErrorTyped DEF ServeCancel, ServeTerminate
  <2>4. Fits(q, a)'  BY <1>1 DEF Fits
  <2> QED  BY <2>3, <2>4, RepliedFits
<1>4. CancelInChain'
  <2>1. CASE Reaches(q)
    <3>1. reached' = <<i, q.owner>>  BY <2>1 DEF ServeCancel, ServeTerminate
    <3>2. i \in 1..Latest /\ q.first \in {0, runs[i].first}
      BY <1>1, <2>1 DEF Reaches, Alive
    <3>3. q.owner \in {0, q.first}  BY DEF Meant
    <3>4. runs'[i].first = runs[i].first  BY <1>2, <3>2 DEF Grows
    <3> QED  BY <3>1, <3>2, <3>3, <3>4 DEF CancelInChain
  <2>2. CASE ~Reaches(q)
    <3>1. reached' = <<0, 0>>  BY <2>2 DEF ServeCancel, ServeTerminate, NoneReached
    <3> QED  BY <3>1 DEF CancelInChain
  <2> QED  BY <2>1, <2>2
<1> QED  BY <1>2, <1>3, <1>4

LEMMA NoneIsInChain == ASSUME reached' = NoneReached PROVE CancelInChain'
BY DEF NoneReached, CancelInChain

LEMMA ServesKeeps ==
  ASSUME Types, Chains, NEW q \in RequestRecord, Meant(q), NEW ours \in BOOLEAN, Serves(q, ours)
  PROVE  /\ Grows /\ Replied(q, ours) /\ CancelInChain'
         /\ UNCHANGED <<handle, doing, request, outcome>>
<1>1. UNCHANGED <<handle, doing, request, outcome>>  BY DEF Serves
<1>2. CASE ServeCancel(q, ours) \/ ServeTerminate(q, ours)  BY <1>1, <1>2, CancelKeeps
<1>3. CASE reached' = NoneReached /\ (ServeStart(q, ours) \/ ServeSignalWithStart(q, ours))
  BY <1>1, <1>3, NoneIsInChain, StartKeeps
<1>4. CASE reached' = NoneReached /\ ServeResult(q, ours)
  BY <1>1, <1>4, NoneIsInChain, ResultKeeps
<1>5. CASE reached' = NoneReached /\ ServeRead(q, ours)
  BY <1>1, <1>5, NoneIsInChain, ReadKeeps
<1>6. CASE /\ reached' = NoneReached
           /\ ServeUpdate(q, ours) \/ ServeUpdateWithStart(q, ours) \/ ServePollUpdate(q, ours)
  BY <1>1, <1>6, NoneIsInChain, UpdateKeeps
<1> QED  BY <1>2, <1>3, <1>4, <1>5, <1>6 DEF Serves

\* Runs that grow, and an answer that fits or none, keep the rest.
LEMMA GrowthKeeps ==
  ASSUME ClientInv, Grows, CancelInChain', UNCHANGED <<handle, doing, request, outcome>>,
         late' \subseteq late,
         reply' = reply \/ \E a \in ReplyRecord : reply' = a /\ Fits(request, a)'
  PROVE  ClientInv'
<1> USE DEF ClientInv
<1>1. Types'  BY DEF Types, Grows
<1>2. Chains'  BY DEF Grows
<1>3. Asked'
  <2>1. ASSUME NEW q \in late \cup {request}  PROVE Meant(q)'
    BY <2>1, MeantStays DEF Asked, Types, RequestRecord
  <2> QED  BY <2>1 DEF Asked, Meant
<1>4. Known' /\ Wanted' /\ ResultOfChain' /\ Final'
  BY KnownStays, WantedStays, ResultStays
<1>5. Fitting'
  <2>1. CASE reply' = reply
    <3>1. reply.run \in Nat  BY DEF Types, ReplyRecord
    <3>2. reply # NoReply => Fits(request, reply)'
      <4>1. ASSUME reply # NoReply PROVE Fits(request, reply)  BY <4>1 DEF Fitting
      <4>2. PICK q, a : q = request /\ a = reply  OBVIOUS
      <4>3. ASSUME reply # NoReply PROVE Fits(q, a)'  BY <3>1, <4>1, <4>2, <4>3, FitsStays
      <4> QED  BY <2>1, <4>2, <4>3 DEF Fits
    <3> QED  BY <2>1, <3>2 DEF Fitting, NoReply, Answer
  <2>2. CASE \E a \in ReplyRecord : reply' = a /\ Fits(request, a)'
    BY <2>2 DEF Fitting
  <2> QED  BY <2>1, <2>2
<1> QED  BY <1>1, <1>2, <1>3, <1>4, <1>5

LEMMA ServingKeeps == ClientInv /\ Serving => ClientInv'
<1> SUFFICES ASSUME ClientInv, Serving PROVE ClientInv'  OBVIOUS
<1>1. /\ Types /\ Chains /\ request \in RequestRecord /\ Meant(request)
      /\ \A q \in late : q \in RequestRecord /\ Meant(q)
  BY DEF ClientInv, Types, Asked
<1>2. CASE Serves(request, TRUE)
  <2>1. PICK q \in RequestRecord : q = request  BY <1>1
  <2>2. Meant(q) /\ Serves(q, TRUE)  BY <1>1, <1>2, <2>1
  <2>3. /\ Grows /\ Replied(q, TRUE) /\ CancelInChain'
        /\ UNCHANGED <<handle, doing, request, outcome>>
    BY <1>1, <2>2, ServesKeeps
  <2>4. reply' = reply \/ \E a \in ReplyRecord : reply' = a /\ Fits(q, a)'
    BY <2>3 DEF Replied
  <2>5. late' \subseteq late  BY <2>3 DEF Replied
  <2>6. reply' = reply \/ \E a \in ReplyRecord : reply' = a /\ Fits(request, a)'
    BY <2>1, <2>3, <2>4 DEF Fits
  <2> QED  BY <2>3, <2>5, <2>6, GrowthKeeps
<1>3. CASE \E q \in late : Serves(q, FALSE)
  <2>1. PICK q \in late : Serves(q, FALSE)  BY <1>3
  <2>2. /\ Grows /\ Replied(q, FALSE) /\ CancelInChain'
        /\ UNCHANGED <<handle, doing, request, outcome>>
    BY <1>1, <2>1, ServesKeeps
  <2>3. late' \subseteq late /\ reply' = reply  BY <2>2 DEF Replied
  <2> QED  BY <2>2, <2>3, GrowthKeeps
<1> QED  BY <1>2, <1>3 DEF Serving

LEMMA OnItsOwnKeeps == ClientInv /\ ServerOnItsOwn /\ reached' = NoneReached => ClientInv'
<1> SUFFICES ASSUME ClientInv, ServerOnItsOwn, reached' = NoneReached PROVE ClientInv'
  OBVIOUS
<1>1. Types /\ Chains  BY DEF ClientInv
<1>2. Grows  BY <1>1, BegunGrows, CloseRunGrows DEF ServerOnItsOwn
<1>3. UNCHANGED <<handle, doing, request, outcome>> /\ late' = late /\ reply' = reply
  BY DEF ServerOnItsOwn
<1> QED  BY <1>2, <1>3, NoneIsInChain, GrowthKeeps
------------------------------------------------------------------------------
(* The task.                                                               *)
LEMMA RunsStay ==
  ASSUME ClientInv, UNCHANGED runs
  PROVE  Chains' /\ Latest' = Latest /\ runs' \in Seq(RunRecord)
BY DEF ClientInv, Chains, Latest, Types

\* A call begins, or the next one of an operation.
LEMMA SendKeeps ==
  ASSUME ClientInv, reached' = NoneReached, UNCHANGED <<runs, late>>,
         NEW op \in Operations, NEW q \in RequestRecord, Send(op, q), Meant(q),
         handle' \in [run : Nat, result : Nat, first : Nat], Known',
         outcome' = NoOutcome, Suits(op, q)'
  PROVE  ClientInv'
<1>1. Chains' /\ Latest' = Latest /\ runs' \in Seq(RunRecord)  BY RunsStay
<1>2. doing' = op /\ request' = q /\ reply' = NoReply  BY DEF Send
<1>3. NoReply \in ReplyRecord
  <2>1. 0 \in Nat /\ "none" \in Hows  BY DEF Hows
  <2> QED  BY <2>1, AnswerTyped DEF NoReply
<1>4. Types'  BY <1>1, <1>2, <1>3 DEF ClientInv, Types
<1>5. Asked'
  <2>1. ASSUME NEW r \in late' \cup {request'}  PROVE r.run =< Latest' /\ r.owner \in {0, r.first}
    BY <1>1, <1>2, <2>1 DEF ClientInv, Asked, Meant
  <2> QED  BY <2>1 DEF Asked, Meant
<1>6. Wanted'  BY <1>2 DEF Wanted, Suits
<1>7. Fitting'  BY <1>2 DEF Fitting, NoReply, Answer
<1>8. Final' /\ ResultOfChain'  BY DEF Final, ResultOfChain, NoOutcome
<1> QED  BY <1>1, <1>4, <1>5, <1>6, <1>7, <1>8, NoneIsInChain DEF ClientInv

LEMMA StartsKeeps ==
  ASSUME ClientInv, reached' = NoneReached, UNCHANGED <<runs, late, handle>>,
         NEW op \in Operations, NEW q \in RequestRecord, Starts(op, q), Meant(q), Suits(op, q)
  PROVE  ClientInv'
<1>1. Suits(op, q)'  BY DEF Suits
<1>2. Known' /\ handle' \in [run : Nat, result : Nat, first : Nat]
  BY RunsStay DEF Known, ClientInv, Types
<1>3. Send(op, q) /\ outcome' = NoOutcome  BY DEF Starts
<1> QED  BY <1>1, <1>2, <1>3, SendKeeps

\* A call ends.
LEMMA EndKeeps ==
  ASSUME ClientInv, reached' = NoneReached, End, late' \subseteq late \cup {request},
         handle' \in [run : Nat, result : Nat, first : Nat], Known',
         Final' /\ ResultOfChain'
  PROVE  ClientInv'
<1>1. Chains' /\ Latest' = Latest /\ runs' \in Seq(RunRecord)  BY RunsStay DEF End
<1>2. doing' = "idle" /\ request' = NoRequest /\ reply' = NoReply  BY DEF End
<1>3. NoReply \in ReplyRecord
  <2>1. 0 \in Nat /\ "none" \in Hows  BY DEF Hows
  <2> QED  BY <2>1, AnswerTyped DEF NoReply
<1>4. NoRequest \in RequestRecord /\ NoRequest.run = 0 /\ NoRequest.owner = 0
  BY DEF NoRequest, Ask, RequestRecord, Rpcs
<1>5. Types'  BY <1>1, <1>2, <1>3, <1>4 DEF ClientInv, Types
<1>6. Asked'
  <2>1. Latest \in Nat  BY LatestTyped DEF ClientInv
  <2>2. ASSUME NEW r \in late' \cup {request'}  PROVE r.run =< Latest' /\ r.owner \in {0, r.first}
    BY <1>1, <1>2, <1>4, <2>1, <2>2 DEF ClientInv, Asked, Meant
  <2> QED  BY <2>2 DEF Asked, Meant
<1>7. Wanted'  BY <1>2 DEF Wanted, Suits, Starting, Awaiting
<1>8. Fitting'  BY <1>2 DEF Fitting, NoReply, Answer
<1> QED  BY <1>1, <1>5, <1>6, <1>7, <1>8, NoneIsInChain DEF ClientInv

LEMMA EndsQuietly ==
  ASSUME ClientInv, reached' = NoneReached, End, late' \subseteq late \cup {request},
         UNCHANGED <<handle, outcome>>
  PROVE  ClientInv'
<1>1. Known' /\ handle' \in [run : Nat, result : Nat, first : Nat] /\ Latest' = Latest
  BY RunsStay DEF Known, ClientInv, Types, End
<1>2. Final' /\ ResultOfChain'  BY <1>1 DEF ClientInv, Final, ResultOfChain, End
<1> QED  BY <1>1, <1>2, EndKeeps

LEMMA AskTyped ==
  ASSUME Types, Known, NEW rpc \in Rpcs, NEW run \in {0, handle.run, handle.result}
  PROVE  /\ Ask(rpc, run) \in RequestRecord /\ Meant(Ask(rpc, run))
         /\ Ask(rpc, run).rpc = rpc /\ Ask(rpc, run).run = run
BY LatestTyped DEF Types, Known, Ask, RequestRecord, Meant

LEMMA CallsKeep == ClientInv /\ Calls /\ reached' = NoneReached => ClientInv'
<1> SUFFICES ASSUME ClientInv, Calls, reached' = NoneReached PROVE ClientInv'  OBVIOUS
<1>1. Types /\ Known /\ Latest \in Nat  BY LatestTyped DEF ClientInv
<1>2. ASSUME NEW op, op \in Starting, start_workflow(op)  PROVE ClientInv'
  <2>1. PICK rpc \in {"start", "signal_with_start"} : Starts(op, Ask(rpc, 0))
    BY <1>2 DEF start_workflow, start_workflow_execution, signal_with_start_workflow_execution
  <2>2. rpc \in Rpcs /\ op \in Operations  BY <1>2 DEF Rpcs, Operations, Starting
  <2>3. /\ Ask(rpc, 0) \in RequestRecord /\ Meant(Ask(rpc, 0)) /\ Ask(rpc, 0).rpc = rpc
    BY <1>1, <2>2, AskTyped
  <2>4. Suits(op, Ask(rpc, 0))  BY <1>2, <2>1, <2>3 DEF Suits, Starting, Awaiting
  <2> QED  BY <1>2, <2>1, <2>2, <2>3, <2>4, StartsKeeps DEF start_workflow, serverVars
<1>3. ASSUME NEW op, result(op)  PROVE ClientInv'
  <2> DEFINE q == Ask("result", handle.result)
  <2>1. op \in Awaiting /\ Starts(op, q) /\ op \in Operations /\ "result" \in Rpcs
    BY <1>3 DEF result, get_workflow_result, Awaiting, Operations, Rpcs, Reads
  <2>2. q \in RequestRecord /\ Meant(q) /\ q.rpc = "result" /\ q.run = handle.result
    BY <1>1, <2>1, AskTyped
  <2>3. Suits(op, q)
    <3>1. handle.result \in Nat  BY <1>1 DEF Types
    <3> QED  BY <2>1, <2>2, <3>1 DEF Suits, Starting, Awaiting
  <2> QED  BY <1>3, <2>1, <2>2, <2>3, StartsKeeps DEF result, serverVars
<1>4. CASE query \/ describe
  <2>1. PICK op \in {"query", "describe"} :
          Starts(op, Ask(op, handle.run)) /\ UNCHANGED <<serverVars, handle>>
    BY <1>4 DEF query, describe, query_workflow, describe_workflow
  <2>2. op \in Operations /\ op \in Rpcs  BY DEF Operations, Rpcs, Reads
  <2> DEFINE q == Ask(op, handle.run)
  <2>3. q \in RequestRecord /\ Meant(q) /\ q.rpc = op /\ q.run = handle.run
    BY <1>1, <2>2, AskTyped
  <2>4. Suits(op, q)  BY <2>1, <2>3 DEF Suits, Starting, Awaiting
  <2> QED  BY <2>1, <2>2, <2>3, <2>4, StartsKeeps DEF serverVars
<1>5. CASE cancel \/ terminate
  <2> DEFINE q(rpc) == [Ask(rpc, handle.run) EXCEPT !.first = handle.first, !.owner = handle.first]
  <2>1. PICK op \in {"cancel", "terminate"} :
          Starts(op, q(op)) /\ UNCHANGED <<serverVars, handle>>
    BY <1>5 DEF cancel, terminate, cancel_workflow_execution, terminate_workflow_execution
  <2>2. op \in Operations /\ op \in Rpcs  BY DEF Operations, Rpcs
  <2>3. Ask(op, handle.run) \in RequestRecord /\ Meant(Ask(op, handle.run))
    BY <1>1, <2>2, AskTyped
  <2>4. handle.first \in Nat  BY <1>1 DEF Types
  <2>5. q(op) \in RequestRecord /\ Meant(q(op))
    BY <2>3, <2>4 DEF RequestRecord, Meant
  <2>6. Suits(op, q(op))  BY <2>1 DEF Suits, Starting, Awaiting
  <2> QED  BY <2>1, <2>2, <2>5, <2>6, StartsKeeps DEF serverVars
<1>6. CASE \/ start_update_with_start_workflow \/ UpdateResult
           \/ \E op \in {"start_update", "execute_update"} : start_update(op)
  <2>1. PICK op \in {"start_update", "execute_update", "start_update_with_start", "update_result"},
             rpc \in {"update", "update_with_start", "poll_update"}, run \in {0, handle.run} :
          Starts(op, Ask(rpc, run)) /\ UNCHANGED <<serverVars, handle>>
    BY <1>6 DEF start_update_with_start_workflow, UpdateResult, start_update, update_workflow,
                execute_multi_operation, poll_workflow_execution_update
  <2>2. op \in Operations /\ rpc \in Rpcs  BY DEF Operations, Rpcs, Reads
  <2>3. Ask(rpc, run) \in RequestRecord /\ Meant(Ask(rpc, run))
    BY <1>1, <2>1, <2>2, AskTyped
  <2>4. Suits(op, Ask(rpc, run))  BY <2>1 DEF Suits, Starting, Awaiting
  <2> QED  BY <2>1, <2>2, <2>3, <2>4, StartsKeeps DEF serverVars
<1>7. ASSUME NEW run \in 0..MaxRuns, NEW first \in 0..MaxRuns, get_workflow_handle(run, first)
      PROVE  ClientInv'
  <2>1. /\ UNCHANGED <<runs, late, request, reply, doing>> /\ doing = "idle"
        /\ handle' = [run |-> run, result |-> run, first |-> first] /\ outcome' = NoOutcome
        /\ run \in 0..Latest
    BY <1>7 DEF get_workflow_handle, serverVars
  <2>2. run \in Nat /\ first \in Nat  BY BoundsAssumption
  <2>3. Chains' /\ Latest' = Latest  BY <2>1, RunsStay
  <2>4. Types'  BY <2>1, <2>2 DEF ClientInv, Types
  <2>5. Known'  BY <1>1, <2>1, <2>3 DEF Known
  <2>6. Asked'  BY <2>1, <2>3 DEF ClientInv, Asked, Meant
  <2>7. Wanted'  BY <2>1 DEF Wanted, Suits, Starting, Awaiting
  <2>8. Fitting'  BY <2>1 DEF ClientInv, Fitting, Fits, Latest
  <2>9. Final' /\ ResultOfChain'  BY <2>1 DEF Final, ResultOfChain, NoOutcome
  <2> QED  BY <2>3, <2>4, <2>5, <2>6, <2>7, <2>8, <2>9, NoneIsInChain DEF ClientInv
<1> QED  BY <1>2, <1>3, <1>4, <1>5, <1>6, <1>7 DEF Calls, Starting

\* What a handle is made of when its workflow has started.
LEMMA NewHandleKeeps ==
  ASSUME ClientInv, doing \in Starting, reply # NoReply, reply.how = "ok", NewHandle, UNCHANGED runs
  PROVE  /\ handle' \in [run : Nat, result : Nat, first : Nat] /\ Known'
         /\ handle'.result = reply.run /\ reply.run \in 1..Latest
<1>1. request.rpc \in {"start", "signal_with_start"}
  BY DEF ClientInv, Wanted, Suits
<1>2. reply.run \in 1..Latest  BY <1>1 DEF ClientInv, Fitting, Fits
<1>3. Latest \in Nat /\ Latest' = Latest /\ reply.run \in Nat
  BY <1>2, LatestTyped, RunsStay DEF ClientInv
<1>4. /\ handle'.run = 0 /\ handle'.result = reply.run
      /\ handle' \in [run : Nat, result : Nat, first : Nat]
  BY <1>3 DEF NewHandle
<1> QED  BY <1>2, <1>3, <1>4 DEF Known

LEMMA StartedKeeps ==
  ClientInv /\ (WorkflowStarted \/ Execute) /\ reached' = NoneReached => ClientInv'
<1> SUFFICES ASSUME ClientInv, WorkflowStarted \/ Execute, reached' = NoneReached
             PROVE  ClientInv'
  OBVIOUS
<1>1. doing \in Starting /\ doing # "idle" /\ reply # NoReply
  BY DEF WorkflowStarted, Execute, Answered, Starting
<1>2. outcome = NoOutcome /\ outcome' = NoOutcome
  BY <1>1 DEF WorkflowStarted, Execute, ClientInv, Wanted
<1>3. CASE End /\ late' = late /\ UNCHANGED handle
  BY <1>2, <1>3, EndsQuietly
<1>4. CASE End /\ late' = late /\ reply.how = "ok" /\ NewHandle
  <2>1. handle' \in [run : Nat, result : Nat, first : Nat] /\ Known'
    BY <1>1, <1>4, NewHandleKeeps DEF End
  <2>2. Final' /\ ResultOfChain'  BY <1>2 DEF Final, ResultOfChain, NoOutcome
  <2> QED  BY <1>4, <2>1, <2>2, EndKeeps
<1>5. CASE /\ reply.how = "ok" /\ NewHandle
           /\ Send("result", get_workflow_result(reply.run)) /\ UNCHANGED serverVars
  <2>1. /\ handle' \in [run : Nat, result : Nat, first : Nat] /\ Known'
        /\ handle'.result = reply.run /\ reply.run \in 1..Latest /\ Latest \in Nat
    BY <1>1, <1>5, NewHandleKeeps, LatestTyped DEF serverVars, ClientInv
  <2>2. PICK q : q = Ask("result", reply.run)  OBVIOUS
  <2>3. /\ q \in RequestRecord /\ q.rpc = "result" /\ q.run = reply.run /\ q.owner = 0
    BY <2>1, <2>2 DEF Ask, RequestRecord, Rpcs, Reads
  <2>4. Meant(q)  BY <2>1, <2>3 DEF Meant
  <2>5. Suits("result", q)'
    BY <2>1, <2>3 DEF Suits, Starting, Awaiting
  <2>6. Send("result", q) /\ "result" \in Operations
    BY <1>5, <2>2 DEF get_workflow_result, Operations
  <2> QED  BY <1>2, <1>5, <2>1, <2>3, <2>4, <2>5, <2>6, SendKeeps DEF serverVars
<1> QED  BY <1>3, <1>4, <1>5 DEF WorkflowStarted, Execute

\* result() goes on with the same run or the next one of the chain, or returns.
LEMMA ResultAnsweredKeeps == ClientInv /\ ResultAnswered /\ reached' = NoneReached => ClientInv'
<1> SUFFICES ASSUME ClientInv, ResultAnswered, reached' = NoneReached PROVE ClientInv'
  OBVIOUS
<1>1. doing \in Awaiting /\ doing # "idle" /\ reply # NoReply /\ doing \in Operations
  BY DEF ResultAnswered, Answered, Awaiting, Operations
<1>2. /\ UNCHANGED <<runs, handle>> /\ outcome = NoOutcome /\ request.rpc = "result"
      /\ Suits(doing, request) /\ Fits(request, reply)
  BY <1>1 DEF ResultAnswered, serverVars, ClientInv, Wanted, Suits, Fitting
<1>3. /\ Latest \in Nat /\ Latest' = Latest /\ request.run \in Nat /\ request.run =< Latest
      /\ handle.result \in Nat /\ handle.result =< Latest
      /\ reply.how = "error" => request.run = 0
      /\ reply.how # "error" =>
           /\ reply.run \in 1..Latest /\ request.run \in {0, reply.run}
           /\ reply.how # "open" => /\ reply.how = runs[reply.run].status
                                    /\ reply.next = runs[reply.run].next
                                    /\ reply.how # "running"
  BY <1>2, LatestTyped, RunsStay
     DEF ClientInv, Types, Asked, Meant, Known, RequestRecord, Fits
<1>4. Known' /\ handle' \in [run : Nat, result : Nat, first : Nat]
  BY <1>2, <1>3 DEF Known, ClientInv, Types
<1>5. ASSUME NEW n \in Nat, n =< Latest, Send(doing, get_workflow_result(n)),
             UNCHANGED <<late, outcome>>,
             doing = "own_result" => n = handle.result,
             doing = "result" /\ handle.result # 0 =>
               n >= handle.result /\ runs[n].first = runs[handle.result].first
      PROVE  ClientInv'
  <2>1. PICK q, op : q = Ask("result", n) /\ op = doing  OBVIOUS
  <2>2. q \in RequestRecord /\ q.rpc = "result" /\ q.run = n /\ q.owner = 0
    BY <2>1 DEF Ask, RequestRecord, Rpcs, Reads
  <2>3. Meant(q) /\ op \in Operations  BY <1>1, <1>5, <2>1, <2>2 DEF Meant
  <2>4. Suits(op, q)'
    BY <1>1, <1>2, <1>5, <2>1, <2>2 DEF Suits, Starting, Awaiting
  <2>5. Send(op, q)  BY <1>5, <2>1 DEF get_workflow_result
  <2> QED  BY <1>2, <1>4, <1>5, <2>2, <2>3, <2>4, <2>5, SendKeeps
<1>6. CASE /\ reply.how = "open" /\ Send(doing, get_workflow_result(request.run))
           /\ UNCHANGED <<late, outcome>>
  BY <1>2, <1>3, <1>5, <1>6 DEF Suits
<1>7. CASE NextRun # 0 /\ Send(doing, get_workflow_result(NextRun)) /\ UNCHANGED <<late, outcome>>
  <2>1. doing = "result" /\ reply.how \in {"completed", "continued"} /\ NextRun = reply.next
    BY <1>7 DEF NextRun
  <2>2. reply.run \in 1..Latest /\ reply.next = runs[reply.run].next  BY <1>3, <2>1
  <2>3. /\ reply.next \in (reply.run + 1)..Latest
        /\ runs[reply.next].first = runs[reply.run].first
    BY <1>7, <2>1, <2>2 DEF ClientInv, Chains
  <2>4. reply.next \in Nat /\ reply.next =< Latest  BY <1>3, <2>2, <2>3
  <2>5. ASSUME handle.result # 0
        PROVE  /\ reply.next >= handle.result
               /\ runs[reply.next].first = runs[handle.result].first
    <3>1. /\ request.run >= handle.result
          /\ runs[request.run].first = runs[handle.result].first
      BY <1>2, <2>1, <2>5 DEF Suits
    <3>2. request.run = reply.run  BY <1>3, <2>1, <2>5, <3>1
    <3> QED  BY <1>3, <2>2, <2>3, <3>1, <3>2
  <2> QED  BY <1>5, <1>7, <2>1, <2>4, <2>5
<1>8. CASE reply.how # "open" /\ NextRun = 0 /\ End /\ Returns /\ UNCHANGED late
  <2>1. outcome' = [op |-> doing, how |-> reply.how, run |-> reply.run]  BY <1>8 DEF Returns
  <2>2. Final'
    <3>1. ASSUME reply.how # "error"
          PROVE  reply.run \in 1..Latest' /\ runs'[reply.run].status # "running"
      BY <1>2, <1>3, <1>8, <3>1
    <3> QED  BY <2>1, <3>1 DEF Final
  <2>3. ASSUME doing = "result", reply.how # "error", handle.result # 0
        PROVE  /\ reply.run >= handle.result /\ runs[reply.run].next = 0
               /\ runs[reply.run].first = runs[handle.result].first
    <3>1. /\ request.run >= handle.result
          /\ runs[request.run].first = runs[handle.result].first
      BY <1>2, <2>3 DEF Suits
    <3>2. request.run = reply.run  BY <1>3, <2>3, <3>1
    <3>3. reply.run \in 1..Latest /\ reply.how = runs[reply.run].status
          /\ reply.next = runs[reply.run].next /\ reply.how # "running"
      BY <1>3, <1>8, <2>3
    <3>4. runs[reply.run].next = 0
      <4>1. CASE reply.how \in {"completed", "continued"}
        BY <1>8, <2>3, <3>3, <4>1 DEF NextRun
      <4>2. CASE reply.how \notin {"completed", "continued"}
        <5>1. reply.how = "canceled"
          BY <3>3, <4>2, RunTyped DEF ClientInv, Statuses, Closes
        <5> QED  BY <3>3, <5>1 DEF ClientInv, Chains
      <4> QED  BY <4>1, <4>2
    <3> QED  BY <3>1, <3>2, <3>4
  <2>4. ASSUME doing = "own_result", handle.result # 0  PROVE reply.run = handle.result
    <3>1. request.run = handle.result  BY <1>2, <2>4 DEF Suits
    <3> QED  BY <1>3, <2>4, <3>1
  <2>5. ResultOfChain'
    BY <1>1, <1>2, <2>1, <2>3, <2>4 DEF ResultOfChain, Awaiting
  <2> QED  BY <1>4, <1>8, <2>2, <2>5, EndKeeps
<1> QED  BY <1>6, <1>7, <1>8 DEF ResultAnswered, serverVars

LEMMA ReadAnsweredKeeps == ClientInv /\ ReadAnswered /\ reached' = NoneReached => ClientInv'
<1> SUFFICES ASSUME ClientInv, ReadAnswered, reached' = NoneReached PROVE ClientInv'
  OBVIOUS
<1>1. doing \in {"query", "describe"} /\ reply # NoReply /\ End
  BY DEF ReadAnswered, Answered
<1>2. /\ UNCHANGED <<runs, handle, late>> /\ Suits(doing, request) /\ Fits(request, reply)
      /\ outcome' = [op |-> doing, how |-> reply.how, run |-> reply.run]
  BY <1>1 DEF ReadAnswered, End, Returns, ClientInv, Wanted, Fitting
<1>3. Known' /\ handle' \in [run : Nat, result : Nat, first : Nat]
  BY <1>2, RunsStay DEF Known, ClientInv, Types
<1>4. reply.how # "error" /\ handle.run # 0 => reply.run = handle.run
  BY <1>1, <1>2 DEF Suits, Fits
<1>5. Final' /\ ResultOfChain'  BY <1>1, <1>2, <1>4 DEF Final, ResultOfChain
<1> QED  BY <1>1, <1>2, <1>3, <1>5, EndKeeps

LEMMA QuietKeeps ==
  ClientInv /\ (Requested \/ UpdateAnswered \/ UpdatePolled \/ GiveUp) /\ reached' = NoneReached
    => ClientInv'
<1> SUFFICES ASSUME ClientInv, Requested \/ UpdateAnswered \/ UpdatePolled \/ GiveUp,
                    reached' = NoneReached
             PROVE  ClientInv'
  OBVIOUS
<1>1. End /\ UNCHANGED <<handle, outcome>> /\ late' \subseteq late \cup {request}
  BY DEF Requested, UpdateAnswered, UpdatePolled, GiveUp
<1> QED  BY <1>1, EndsQuietly
------------------------------------------------------------------------------
LEMMA InitIsClient == Init => ClientInv
<1> SUFFICES ASSUME Init PROVE ClientInv  OBVIOUS
<1>1. /\ runs = <<>> /\ Latest = 0 /\ runs \in Seq(RunRecord)  BY DEF Init, Latest
<1>2. NoRequest \in RequestRecord /\ NoRequest.run = 0 /\ NoRequest.owner = 0
  BY DEF NoRequest, Ask, RequestRecord, Rpcs
<1>3. NoReply \in ReplyRecord
  <2>1. 0 \in Nat /\ "none" \in Hows  BY DEF Hows
  <2> QED  BY <2>1, AnswerTyped DEF NoReply
<1>4. Types  BY <1>1, <1>2, <1>3 DEF Init, Types
<1>5. Chains /\ Asked /\ Known  BY <1>1, <1>2 DEF Init, Chains, Asked, Meant, Known
<1>6. Wanted /\ Fitting  BY DEF Init, Wanted, Suits, Starting, Awaiting, Fitting
<1>7. Final /\ ResultOfChain /\ CancelInChain
  BY DEF Init, Final, ResultOfChain, CancelInChain, NoOutcome, NoneReached
<1> QED  BY <1>4, <1>5, <1>6, <1>7 DEF ClientInv

LEMMA StutterKeeps == ClientInv /\ UNCHANGED vars => ClientInv'
BY DEF ClientInv, vars, serverVars, Types, Chains, Latest, Asked, Meant, Known, Wanted, Suits,
       Fitting, Fits, Final, ResultOfChain, CancelInChain

LEMMA ClientInvariant == Spec => []ClientInv
<1>1. ClientInv /\ [Next]_vars => ClientInv'
  <2> SUFFICES ASSUME ClientInv, [Next]_vars PROVE ClientInv'  OBVIOUS
  <2>1. CASE Serving  BY <2>1, ServingKeeps
  <2>2. CASE reached' = NoneReached /\ ServerOnItsOwn  BY <2>2, OnItsOwnKeeps
  <2>3. CASE reached' = NoneReached /\ Calls  BY <2>3, CallsKeep
  <2>4. CASE reached' = NoneReached /\ (Steps \/ GiveUp)
    BY <2>4, StartedKeeps, ResultAnsweredKeeps, ReadAnsweredKeeps, QuietKeeps DEF Steps
  <2>5. CASE UNCHANGED vars  BY <2>5, StutterKeeps
  <2> QED  BY <2>1, <2>2, <2>3, <2>4, <2>5 DEF Next
<1> QED  BY <1>1, InitIsClient, PTL DEF Spec

(* The result of a handle with a run id is that of its run's chain, of the *)
(* last run of it, and a query is of the handle's run, for any number of   *)
(* runs and lost answers (_workflow_handle.py:485-511, 596, 952,           *)
(* 1066-1159).                                                             *)
THEOREM ResultsOfChain == Spec => []ResultOfChain
<1>1. ClientInv => ResultOfChain  BY DEF ClientInv
<1> QED  BY <1>1, ClientInvariant, PTL

(* A cancel or terminate through a handle that knows its chain's first run *)
(* reaches runs of that chain only (_workflow_handle.py:700-744).          *)
THEOREM CancelsInChain == Spec => []CancelInChain
<1>1. ClientInv => CancelInChain  BY DEF ClientInv
<1> QED  BY <1>1, ClientInvariant, PTL
==============================================================================
