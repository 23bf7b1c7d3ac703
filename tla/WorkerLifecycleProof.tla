------------------------ MODULE WorkerLifecycleProof ------------------------
(***************************************************************************)
(* Proofs about WorkerLifecycle and the bridge it runs on: types, the      *)
(* requests that wait for an answer, and what the worker's shutdown makes  *)
(* of completions, tasks and the entry in the bridge's map.                *)
(***************************************************************************)
EXTENDS WorkerLifecycle, SequenceTheorems, TLAPS

-----------------------------------------------------------------------------
(* The inductive invariant.                                                *)

\* The requests that Rust has not begun to handle, in their order.
Line == spawned \o channel

\* Requests and the delivery that the Rust thread is in.
Traffic == InQueue(Line) \cup pending \cup ({blocked} \ {NoDelivery})

\* What a task may have asked the bridge for, and waits for.
Expects(t, o) ==
  \/ t = "main" /\ At(t, "creating") /\ o = "create_worker"
  \/ t = "main" /\ pc[t] \in {"finalizing", "recovering"} /\ o = "finalize_shutdown"
  \/ t = "workflow" /\ At(t, "polling") /\ o = "poll_activation"
  \/ t = "workflow" /\ At(t, "completing") /\ o = "complete_activation"
  \/ t = "act" /\ At(t, "polling") /\ o = "poll_activity_task"
  \/ t = "activity" /\ At(t, "completing") /\ o = "complete_activity_task"
  \/ t = "client" /\ At(t, "connecting") /\ o = "initialize_client"
  \/ t \in {"client", "user"} /\ At(t, "closing") /\ o = "finalize_bridge"
  \/ t = "user" /\ At(t, "calling") /\ o = "rpc"

\* What is under way for a task is what it waits for.
Matched ==
  \A x \in Traffic : x.by # Nobody => Expects(x.by, x.op) /\ call[x.by] = "waiting"

\* Two requests are of different tasks, and only one creates a worker; none to
\* complete a task comes after the one that finalizes the worker.
Differ(x, y) == x.by = y.by => x.by = Nobody
Apart(x, y) ==
  /\ Differ(x, y)
  /\ ~(x.op = "create_worker" /\ y.op = "create_worker")
  /\ ~(x.op = "finalize_shutdown" /\ y.op \in Completes)
InOrder(s) == \A i, j \in DOMAIN s : i < j => Apart(s[i], s[j])

\* A task has one request under way at most.
OneEach ==
  /\ InOrder(Line)
  /\ \A x \in InQueue(Line), y \in pending : Differ(x, y)
  /\ \A x, y \in pending : x = y \/ Differ(x, y)
  /\ blocked # NoDelivery => \A x \in InQueue(Line) \cup pending : Differ(x, blocked)

\* A request that awaits Core is of one of these kinds.
Awaiting == \A x \in pending : x.op \in WorkerOps \cup {"initialize_client", "rpc", "finalize_shutdown"}

BridgeInv == Matched /\ OneEach /\ Awaiting /\ OwedWhileOpen

\* Answered(t): the answer for t is there or being delivered.
Answered(t) == call[t] \in Results \/ (blocked # NoDelivery /\ blocked.by = t)
AnsweredWith(t, r) ==
  call[t] = r \/ (blocked # NoDelivery /\ blocked.by = t /\ blocked.result = r)

\* The phases of Worker.run: before it starts its sub-workers, while they are
\* there, and after they have ended.
Before == {"new", "creating"}
During == {"running", "sleeping", "leaving", "unwinding", "abandoning"}
After  == {"finalizing", "recovering", "done", "failed", "gone"}
Quiet  == \A t \in Nursery : pc[t] \in {"none", "ended"}

Phases ==
  /\ pc["main"] \in Before \cup During \cup After
  /\ pc["main"] \in Before => \A t \in Nursery : At(t, "none")
  /\ pc["main"] \in After => Quiet
  /\ pc["main"] # "new" => Opened
  /\ asked = "all" => pc["main"] \notin Before
  /\ state = "NOT_STARTED" <=> At("client", "new")
  /\ \A t \in {"client", "user"} : At(t, "closing") => state = "SHUTDOWN"
  /\ closed => state = "SHUTDOWN"
  /\ loop = "exited" => closed

\* The worker's way into the bridge's map and out of it.
InMap ==
  /\ \A x \in InQueue(Line) :
       /\ x.op = "create_worker" =>
            /\ worker = "absent"
            /\ \/ At("main", "creating") /\ x.by = "main"
               \/ At("main", "gone") /\ x.by = Nobody
       /\ x.op = "finalize_shutdown" => pc["main"] \in After
       /\ x.op \in Completes => worker = "set"
  /\ \A x \in pending : x.op = "finalize_shutdown" => worker = "removed"
  /\ At("main", "new") => worker = "absent"
  /\ At("main", "creating") /\ AnsweredWith("main", "ok") =>
       worker = "set" \/ loop = "exited"
  /\ At("main", "creating") /\ AnsweredWith("main", "error") => worker # "set"
  /\ pc["main"] \in During => worker = "set" \/ loop = "exited"
  /\ pc["main"] \in {"finalizing", "recovering"} /\ Answered("main") => worker # "set"
  /\ pc["main"] \in {"done", "failed"} /\ ~closed => worker # "set"

\* TypeOK, but for the history variable: nothing depends on it.
Types ==
  /\ TypeOKBridge
  /\ pc \in [Callers -> Places]
  /\ asked \in {"no", "main", "all"} /\ cancelled \subseteq {"workflow", "act"}

LifeInv == Types /\ BridgeInv /\ Phases /\ InMap

\* Until a nursery is cancelled no request of the loops was given up, and a task
\* that is out is in their hands, or on its way to or from them, or was left to
\* itself with an error; before its loops are there the worker has no task.
Idle   == Before \cup {"failed", "gone"}
Ending == {"leaving", "unwinding", "abandoning", "finalizing", "recovering", "done"}
Undisturbed == pc["main"] \in {"running", "sleeping"} /\ state = "RUNNING" /\ cancelled = {}
Holding(poller, holder, busy) ==
  \/ At(holder, busy)
  \/ At(poller, "polling") /\ AnsweredWith(poller, "task")
  \/ At(holder, "completing") /\ (Answered(holder) => AnsweredWith(holder, "error"))
HandInv ==
  /\ cancelled = {} => \A x \in InQueue(Line) \cup pending : x.op \in WorkerOps => x.by # Nobody
  /\ pc["main"] \in Ending => cancelled # {}
  /\ pc["main"] \in Idle /\ cancelled = {} =>
       out = {} /\ \A x \in InQueue(Line) \cup pending : x.op \notin WorkerOps
  /\ Undisturbed =>
       /\ "workflow" \in out \ lost => Holding("workflow", "workflow", "dispatching")
       /\ "activity" \in out \ lost => Holding("act", "activity", "running")

-----------------------------------------------------------------------------
(* Queues of requests.                                                     *)

\* A request is appended.
LEMMA Appended ==
  ASSUME NEW s \in Seq(Request), NEW q \in Request
  PROVE  /\ Append(s, q) \in Seq(Request)
         /\ InQueue(Append(s, q)) = InQueue(s) \cup {q}
         /\ InOrder(s) /\ (\A x \in InQueue(s) : Apart(x, q)) => InOrder(Append(s, q))
<1> DEFINE t == Append(s, q)
<1>1. /\ t \in Seq(Request) /\ Len(t) = Len(s) + 1
      /\ \A i \in 1..Len(s) : t[i] = s[i]
      /\ t[Len(s) + 1] = q
  BY AppendProperties
<1>2. Len(s) \in Nat /\ DOMAIN s = 1..Len(s) /\ DOMAIN t = 1..(Len(s) + 1)
  BY <1>1, LenProperties
<1> HIDE DEF t
<1>3. InQueue(t) = InQueue(s) \cup {q}
  BY <1>1, <1>2 DEF InQueue
<1>4. ASSUME InOrder(s), \A x \in InQueue(s) : Apart(x, q),
             NEW i \in DOMAIN t, NEW j \in DOMAIN t, i < j
      PROVE  Apart(t[i], t[j])
  <2>1. i \in DOMAIN s /\ t[i] = s[i] /\ s[i] \in InQueue(s)
    BY <1>1, <1>2, <1>4 DEF InQueue
  <2>2. CASE j = Len(s) + 1
    BY <1>1, <1>4, <2>1, <2>2
  <2>3. CASE j # Len(s) + 1
    <3>1. j \in DOMAIN s /\ t[j] = s[j]
      BY <1>1, <1>2, <2>3
    <3> QED
      BY <1>4, <2>1, <3>1 DEF InOrder
  <2> QED
    BY <2>2, <2>3
<1> QED
  BY <1>1, <1>3, <1>4 DEF InOrder, t

\* The first request is taken.
LEMMA Taken ==
  ASSUME NEW s \in Seq(Request), s # <<>>
  PROVE  /\ Tail(s) \in Seq(Request) /\ Head(s) \in Request
         /\ InQueue(s) = {Head(s)} \cup InQueue(Tail(s))
         /\ InOrder(s) => /\ InOrder(Tail(s))
                          /\ \A x \in InQueue(Tail(s)) : Apart(Head(s), x)
<1> DEFINE t == Tail(s)
<1>1. /\ Head(s) \in Request /\ t \in Seq(Request) /\ Len(t) = Len(s) - 1
      /\ \A i \in 1..Len(t) : t[i] = s[i + 1]
  BY HeadTailProperties
<1>2. Len(s) \in Nat \ {0} /\ DOMAIN s = 1..Len(s) /\ DOMAIN t = 1..(Len(s) - 1)
      /\ Head(s) = s[1]
  BY <1>1, LenProperties, EmptySeq
<1> HIDE DEF t
<1>3. InQueue(s) = {Head(s)} \cup InQueue(t)
  <2>1. ASSUME NEW i \in DOMAIN s PROVE s[i] \in {Head(s)} \cup InQueue(t)
    <3>1. CASE i = 1
      BY <1>2, <3>1
    <3>2. CASE i # 1
      <4>1. i - 1 \in DOMAIN t /\ t[i - 1] = s[i]
        BY <1>1, <1>2, <3>2
      <4> QED
        BY <4>1 DEF InQueue
    <3> QED
      BY <3>1, <3>2
  <2>2. ASSUME NEW i \in DOMAIN t PROVE t[i] \in InQueue(s)
    <3>1. i + 1 \in DOMAIN s /\ t[i] = s[i + 1]
      BY <1>1, <1>2
    <3> QED
      BY <3>1 DEF InQueue
  <2>3. Head(s) \in InQueue(s)
    BY <1>2 DEF InQueue
  <2> QED
    BY <2>1, <2>2, <2>3 DEF InQueue
<1>4. ASSUME InOrder(s), NEW i \in DOMAIN t
      PROVE  /\ Apart(Head(s), t[i])
             /\ \A j \in DOMAIN t : i < j => Apart(t[i], t[j])
  <2>1. 1 \in DOMAIN s /\ i + 1 \in DOMAIN s /\ 1 < i + 1 /\ t[i] = s[i + 1]
    BY <1>1, <1>2
  <2>2. Apart(s[1], s[i + 1])
    BY <1>4, <2>1 DEF InOrder
  <2>3. ASSUME NEW j \in DOMAIN t, i < j PROVE Apart(t[i], t[j])
    <3>1. j + 1 \in DOMAIN s /\ i + 1 < j + 1 /\ t[j] = s[j + 1]
      BY <1>1, <1>2, <2>3
    <3> QED
      BY <1>4, <2>1, <3>1 DEF InOrder
  <2> QED
    BY <1>2, <2>1, <2>2, <2>3
<1> QED
  BY <1>1, <1>3, <1>4 DEF InOrder, InQueue, t

\* The callers cs of requests have gone.
Disowned(cs, q) == IF q.by \in cs THEN [q EXCEPT !.by = Nobody] ELSE q

LEMMA DisownedType ==
  ASSUME NEW cs
  PROVE  /\ \A q \in Request : /\ Disowned(cs, q) \in Request
                               /\ Disowned(cs, q).op = q.op
                               /\ Disowned(cs, q).by = IF q.by \in cs THEN Nobody ELSE q.by
                               /\ q.by \notin cs => Disowned(cs, q) = q
         /\ \A q \in Delivery : /\ Disowned(cs, q) \in Delivery
                                /\ Disowned(cs, q).op = q.op /\ Disowned(cs, q).result = q.result
                                /\ Disowned(cs, q).by = IF q.by \in cs THEN Nobody ELSE q.by
                                /\ q.by \notin cs => Disowned(cs, q) = q
BY DEF Disowned, Request, Delivery

LEMMA Renamed ==
  ASSUME NEW s \in Seq(Request), NEW cs
  PROVE  [i \in DOMAIN s |-> Disowned(cs, s[i])] \in Seq(Request)
<1>1. Len(s) \in Nat /\ DOMAIN s = 1..Len(s) /\ \A i \in DOMAIN s : s[i] \in Request
  BY LenProperties, ElementOfSeq
<1>2. [i \in DOMAIN s |-> Disowned(cs, s[i])] \in [1..Len(s) -> Request]
  BY <1>1, DisownedType
<1> QED
  BY <1>1, <1>2, SeqDef

\* The two queues are one line.
LEMMA LineType ==
  ASSUME TypeOKBridge
  PROVE  /\ Line \in Seq(Request) /\ Len(Line) = Len(spawned) + Len(channel)
         /\ Len(spawned) \in Nat /\ Len(channel) \in Nat
         /\ DOMAIN spawned = 1..Len(spawned) /\ DOMAIN channel = 1..Len(channel)
         /\ DOMAIN Line = 1..(Len(spawned) + Len(channel))
         /\ \A i \in DOMAIN Line :
              Line[i] = IF i <= Len(spawned) THEN spawned[i]
                        ELSE channel[i - Len(spawned)]
         /\ InQueue(Line) = InQueue(spawned) \cup InQueue(channel)
<1>1. spawned \in Seq(Request) /\ channel \in Seq(Request)
  BY DEF TypeOKBridge
<1>2. /\ Line \in Seq(Request) /\ Len(Line) = Len(spawned) + Len(channel)
      /\ \A i \in 1..(Len(spawned) + Len(channel)) :
           Line[i] = IF i <= Len(spawned) THEN spawned[i] ELSE channel[i - Len(spawned)]
  BY <1>1, ConcatProperties DEF Line
<1>3. /\ Len(spawned) \in Nat /\ DOMAIN spawned = 1..Len(spawned)
      /\ Len(channel) \in Nat /\ DOMAIN channel = 1..Len(channel)
      /\ DOMAIN Line = 1..Len(Line)
  BY <1>1, <1>2, LenProperties
<1>4. ASSUME NEW i \in DOMAIN spawned PROVE spawned[i] \in InQueue(Line)
  <2>1. i \in DOMAIN Line /\ Line[i] = spawned[i]
    BY <1>2, <1>3
  <2> QED
    BY <2>1 DEF InQueue
<1>5. ASSUME NEW i \in DOMAIN channel PROVE channel[i] \in InQueue(Line)
  <2>1. i + Len(spawned) \in DOMAIN Line /\ Line[i + Len(spawned)] = channel[i]
    BY <1>2, <1>3
  <2> QED
    BY <2>1 DEF InQueue
<1>6. ASSUME NEW i \in DOMAIN Line PROVE Line[i] \in InQueue(spawned) \cup InQueue(channel)
  BY <1>2, <1>3 DEF InQueue
<1>7. InQueue(Line) = InQueue(spawned) \cup InQueue(channel)
  BY <1>4, <1>5, <1>6 DEF InQueue
<1> QED
  BY <1>2, <1>3, <1>7

\* A request is sent.
LEMMA LineSent ==
  ASSUME TypeOKBridge, NEW q \in Request, channel' = channel \o <<q>>,
         UNCHANGED spawned
  PROVE  Line' = Append(Line, q) /\ channel' \in Seq(Request)
<1>1. spawned \in Seq(Request) /\ channel \in Seq(Request) /\ <<q>> \in Seq(Request)
  BY DEF TypeOKBridge
<1>2. spawned \o (channel \o <<q>>) = (spawned \o channel) \o <<q>>
  BY <1>1, ConcatAssociative
<1>3. Append(Line, q) = Line \o <<q>>
  BY LineType, AppendIsConcat
<1> QED
  BY <1>1, <1>2, <1>3, ConcatProperties DEF Line

\* The loop receives a request.
LEMMA LineReceived ==
  ASSUME TypeOKBridge, Receive
  PROVE  Line' = Line /\ spawned' \in Seq(Request) /\ channel' \in Seq(Request)
<1>1. /\ spawned \in Seq(Request) /\ channel \in Seq(Request) /\ channel # <<>>
      /\ spawned' = Append(spawned, Head(channel)) /\ channel' = Tail(channel)
  BY DEF TypeOKBridge, Receive
<1>2. /\ Head(channel) \in Request /\ Tail(channel) \in Seq(Request)
      /\ Len(channel') = Len(channel) - 1
      /\ \A i \in 1..Len(channel') : channel'[i] = channel[i + 1]
      /\ Head(channel) = channel[1]
  BY <1>1, HeadTailProperties
<1>3. /\ spawned' \in Seq(Request) /\ Len(spawned') = Len(spawned) + 1
      /\ \A i \in 1..Len(spawned) : spawned'[i] = spawned[i]
      /\ spawned'[Len(spawned) + 1] = channel[1]
  BY <1>1, <1>2, AppendProperties
<1>4. /\ Line' \in Seq(Request) /\ Len(Line') = Len(spawned') + Len(channel')
      /\ \A i \in 1..(Len(spawned') + Len(channel')) :
           Line'[i] = IF i <= Len(spawned') THEN spawned'[i]
                      ELSE channel'[i - Len(spawned')]
  BY <1>1, <1>2, <1>3, ConcatProperties DEF Line
<1>5. Len(Line') = Len(Line) /\ Len(spawned) \in Nat /\ Len(channel) \in Nat
  BY <1>2, <1>3, <1>4, LineType
<1>6. ASSUME NEW i \in 1..Len(Line) PROVE Line'[i] = Line[i]
  <2>1. i \in DOMAIN Line /\ i \in 1..(Len(spawned') + Len(channel'))
    BY <1>2, <1>3, <1>5, LineType
  <2>2. CASE i <= Len(spawned)
    BY <1>3, <1>4, <1>5, <2>1, <2>2, LineType
  <2>3. CASE i = Len(spawned) + 1
    BY <1>3, <1>4, <1>5, <2>1, <2>3, LineType
  <2>4. CASE i > Len(spawned) + 1
    <3>1. i - Len(spawned') \in 1..Len(channel')
      BY <1>2, <1>3, <1>5, <2>1, <2>4, LineType
    <3>2. Line'[i] = channel'[i - Len(spawned')]
      BY <1>3, <1>4, <1>5, <2>1, <2>4
    <3>3. channel'[i - Len(spawned')] = channel[(i - Len(spawned')) + 1]
      BY <1>2, <3>1
    <3>4. (i - Len(spawned')) + 1 = i - Len(spawned)
      BY <1>3, <1>5, <2>1
    <3>5. Line[i] = channel[i - Len(spawned)]
      BY <1>5, <2>1, <2>4, LineType
    <3> QED
      BY <3>2, <3>3, <3>4, <3>5
  <2> QED
    BY <1>5, <2>2, <2>3, <2>4
<1> QED
  BY <1>2, <1>1, <1>3, <1>4, <1>5, <1>6, LineType, SeqEqual

\* A spawned task begins.
LEMMA LineBegun ==
  ASSUME TypeOKBridge, spawned # <<>>, spawned' = Tail(spawned), UNCHANGED channel
  PROVE  /\ Line # <<>> /\ Task = Head(Line) /\ Line' = Tail(Line)
         /\ spawned' \in Seq(Request) /\ Task \in Request
<1>1. spawned \in Seq(Request) /\ channel \in Seq(Request)
  BY DEF TypeOKBridge
<1>2. /\ Len(spawned) \in Nat \ {0} /\ Tail(spawned) \in Seq(Request)
      /\ Head(spawned) \in Request /\ Head(spawned) = spawned[1]
      /\ Len(Tail(spawned)) = Len(spawned) - 1
      /\ \A i \in 1..Len(Tail(spawned)) : Tail(spawned)[i] = spawned[i + 1]
  BY <1>1, HeadTailProperties, EmptySeq, LenProperties
<1>3. Line # <<>> /\ Head(Line) = Head(spawned)
  <2>1. Len(Line) # 0 /\ 1 \in DOMAIN Line /\ Line[1] = spawned[1]
    BY <1>2, LineType
  <2> QED
    BY <1>2, <2>1, EmptySeq
<1>4. Line' = Tail(Line)
  <2>1. /\ Line' \in Seq(Request) /\ Len(Line') = Len(Tail(spawned)) + Len(channel)
        /\ \A i \in 1..(Len(Tail(spawned)) + Len(channel)) :
             Line'[i] = IF i <= Len(Tail(spawned)) THEN Tail(spawned)[i]
                        ELSE channel[i - Len(Tail(spawned))]
    BY <1>1, <1>2, ConcatProperties DEF Line
  <2>2. /\ Tail(Line) \in Seq(Request) /\ Len(Tail(Line)) = Len(Line) - 1
        /\ \A i \in 1..Len(Tail(Line)) : Tail(Line)[i] = Line[i + 1]
    BY <1>3, LineType, HeadTailProperties
  <2>3. Len(Line') = Len(Tail(Line)) /\ Len(channel) \in Nat
    <3>1. Len(Line) = Len(spawned) + Len(channel) /\ Len(channel) \in Nat
      BY LineType
    <3> QED
      BY <1>2, <2>1, <2>2, <3>1
  <2>4. ASSUME NEW i \in 1..Len(Line') PROVE Line'[i] = Tail(Line)[i]
    <3>1. i + 1 \in DOMAIN Line /\ Tail(Line)[i] = Line[i + 1]
      BY <1>2, <2>1, <2>2, <2>3, LineType
    <3>2. CASE i <= Len(Tail(spawned))
      BY <1>2, <2>1, <2>3, <3>1, <3>2, LineType
    <3>3. CASE i > Len(Tail(spawned))
      <4>1. Line'[i] = channel[i - Len(Tail(spawned))]
        BY <1>2, <2>1, <2>3, <3>3
      <4>2. Line[i + 1] = channel[(i + 1) - Len(spawned)]
        <5>1. i \in Int /\ ~(i + 1 <= Len(spawned))
          BY <1>2, <2>3, <3>3
        <5>2. Line[i + 1] = IF i + 1 <= Len(spawned) THEN spawned[i + 1]
                            ELSE channel[(i + 1) - Len(spawned)]
          BY <3>1, LineType
        <5> QED
          BY <5>1, <5>2
      <4>3. (i + 1) - Len(spawned) = i - Len(Tail(spawned))
        BY <1>2
      <4> QED
        BY <3>1, <4>1, <4>2, <4>3
    <3> QED
      BY <1>2, <2>3, <3>2, <3>3
  <2> QED
    BY <2>1, <2>2, <2>3, <2>4, SeqEqual
<1> QED
  BY <1>2, <1>3, <1>4 DEF Task

\* Callers give up: their requests stay in the line.
LEMMA LineGivenUp ==
  ASSUME TypeOKBridge, NEW cs, GiveUp(cs)
  PROVE  /\ spawned' \in Seq(Request) /\ channel' \in Seq(Request)
         /\ Line' \in Seq(Request) /\ DOMAIN Line' = DOMAIN Line
         /\ \A i \in DOMAIN Line : Line'[i] = Disowned(cs, Line[i])
         /\ pending' = {Disowned(cs, q) : q \in pending}
         /\ blocked' = IF blocked = NoDelivery THEN NoDelivery ELSE Disowned(cs, blocked)
<1>1. spawned \in Seq(Request) /\ channel \in Seq(Request)
  BY DEF TypeOKBridge
<1>2. /\ spawned' = [i \in DOMAIN spawned |-> Disowned(cs, spawned[i])]
      /\ channel' = [i \in DOMAIN channel |-> Disowned(cs, channel[i])]
      /\ pending' = {Disowned(cs, q) : q \in pending}
      /\ blocked' = IF blocked = NoDelivery THEN NoDelivery ELSE Disowned(cs, blocked)
  BY DEF GiveUp, Disowned
<1>3. spawned' \in Seq(Request) /\ channel' \in Seq(Request)
  BY <1>1, <1>2, Renamed
<1>4. Len(spawned') = Len(spawned) /\ Len(channel') = Len(channel)
  <2>1. /\ Len(spawned') \in Nat /\ DOMAIN spawned' = 1..Len(spawned')
        /\ Len(channel') \in Nat /\ DOMAIN channel' = 1..Len(channel')
    BY <1>3, LenProperties
  <2>2. DOMAIN spawned' = 1..Len(spawned) /\ DOMAIN channel' = 1..Len(channel)
    BY <1>2, LineType
  <2>3. ASSUME NEW m \in Nat, NEW n \in Nat, 1..m = 1..n PROVE m = n
    <3>1. (m # 0 => m \in 1..n) /\ (n # 0 => n \in 1..m)
      BY <2>3
    <3> QED
      BY <3>1
  <2>4. Len(spawned) \in Nat /\ Len(channel) \in Nat
    BY LineType
  <2> QED
    BY <2>1, <2>2, <2>3, <2>4
<1>5. /\ Line' \in Seq(Request) /\ Len(Line') = Len(Line)
      /\ \A i \in 1..(Len(spawned) + Len(channel)) :
           Line'[i] = IF i <= Len(spawned) THEN spawned'[i] ELSE channel'[i - Len(spawned)]
  <2>1. /\ spawned' \o channel' \in Seq(Request)
        /\ Len(spawned' \o channel') = Len(spawned') + Len(channel')
        /\ \A i \in 1..(Len(spawned') + Len(channel')) :
             (spawned' \o channel')[i] = IF i <= Len(spawned') THEN spawned'[i]
                                         ELSE channel'[i - Len(spawned')]
    BY <1>3, ConcatProperties
  <2>2. Line' = spawned' \o channel' /\ Len(Line) = Len(spawned) + Len(channel)
    BY LineType DEF Line
  <2> QED
    BY <1>4, <2>1, <2>2
<1>6. DOMAIN Line' = DOMAIN Line
  BY <1>5, LineType, LenProperties
<1>7. ASSUME NEW i \in DOMAIN Line PROVE Line'[i] = Disowned(cs, Line[i])
  <2>1. CASE i <= Len(spawned)
    BY <1>2, <1>5, <2>1, LineType
  <2>2. CASE i > Len(spawned)
    <3>1. i - Len(spawned) \in DOMAIN channel
      BY <2>2, LineType
    <3>2. Line'[i] = channel'[i - Len(spawned)]
      BY <1>5, <2>2, LineType
    <3>3. Line[i] = channel[i - Len(spawned)]
      BY <2>2, LineType
    <3> QED
      BY <1>2, <3>1, <3>2, <3>3
  <2> QED
    BY <2>1, <2>2, LineType
<1> QED
  BY <1>2, <1>3, <1>5, <1>6, <1>7

-----------------------------------------------------------------------------
(* Types, and what each kind of step does to the line.                     *)

NewRequest(c, o) == [op |-> o, by |-> c]

LEMMA TypeSent ==
  ASSUME TypeOKBridge, NEW c \in Callers \cup {Nobody}, NEW o \in Operations,
         Sent(c, o), state' \in {"NOT_STARTED", "RUNNING", "SHUTDOWN"}
  PROVE  /\ TypeOKBridge' /\ Line' = Append(Line, NewRequest(c, o))
         /\ NewRequest(c, o) \in Request
<1>1. NewRequest(c, o) \in Request
  BY DEF NewRequest, Request
<1>2. channel' = channel \o <<NewRequest(c, o)>> /\ UNCHANGED spawned
  BY DEF Sent, Queue, NewRequest
<1> QED
  BY <1>1, <1>2, LineSent DEF TypeOKBridge, Sent, Queue, coreVars

\* Worker.run's last requests.
LEMMA TypeInitiated ==
  ASSUME TypeOKBridge, initiate_shutdown
  PROVE  /\ TypeOKBridge'
         /\ Line' \in {Line, Append(Line, NewRequest(Nobody, "initiate_shutdown"))}
<1>1. NewRequest(Nobody, "initiate_shutdown") \in Request
  BY DEF NewRequest, Request, Operations
<1>2. CASE closed
  <2>1. channel \in Seq(Request) /\ channel' = channel \o <<>> /\ UNCHANGED spawned
    BY <1>2 DEF TypeOKBridge, initiate_shutdown, Queue
  <2>2. channel' = channel
    BY <2>1, ConcatEmptySeq
  <2> QED
    BY <2>1, <2>2 DEF TypeOKBridge, initiate_shutdown, Queue, coreVars, Line
<1>3. CASE ~closed
  <2>1. channel' = channel \o <<NewRequest(Nobody, "initiate_shutdown")>>
        /\ UNCHANGED spawned
    BY <1>3 DEF initiate_shutdown, Queue, NewRequest
  <2> QED
    BY <1>1, <2>1, LineSent DEF TypeOKBridge, initiate_shutdown, Queue, coreVars
<1> QED
  BY <1>2, <1>3

LEMMA TypeFinalizing ==
  ASSUME TypeOKBridge, NEW c \in Callers, InitiateAndFinalize(c)
  PROVE  /\ TypeOKBridge'
         /\ Line' = Append(Append(Line, NewRequest(Nobody, "initiate_shutdown")),
                           NewRequest(c, "finalize_shutdown"))
<1> DEFINE p == NewRequest(Nobody, "initiate_shutdown")
           q == NewRequest(c, "finalize_shutdown")
<1>1. p \in Request /\ q \in Request
  BY DEF NewRequest, Request, Operations
<1>2. channel' = channel \o <<p, q>> /\ UNCHANGED spawned
  BY DEF InitiateAndFinalize, Queue, NewRequest
<1> HIDE DEF p, q
<1>3. channel \in Seq(Request) /\ <<p>> \in Seq(Request) /\ <<q>> \in Seq(Request)
      /\ spawned \in Seq(Request)
  BY <1>1 DEF TypeOKBridge
<1>4. <<p, q>> = <<p>> \o <<q>>
  <2>1. /\ <<p, q>> \in Seq(Request) /\ Len(<<p, q>>) = 2
        /\ <<p, q>>[1] = p /\ <<p, q>>[2] = q
    BY <1>1
  <2>2. /\ <<p>> \o <<q>> \in Seq(Request) /\ Len(<<p>> \o <<q>>) = 2
        /\ (<<p>> \o <<q>>)[1] = p /\ (<<p>> \o <<q>>)[2] = q
    BY <1>1, <1>3, ConcatProperties
  <2>3. \A i \in 1..2 : i = 1 \/ i = 2
    OBVIOUS
  <2> QED
    BY <2>1, <2>2, <2>3, SeqEqual
<1>5. channel' = (channel \o <<p>>) \o <<q>> /\ channel \o <<p>> \in Seq(Request)
  BY <1>2, <1>3, <1>4, ConcatAssociative, ConcatProperties
<1>6. spawned \o (channel \o <<p>>) = Line \o <<p>>
  BY <1>3, ConcatAssociative DEF Line
<1>7. Line' = (Line \o <<p>>) \o <<q>> /\ channel' \in Seq(Request)
  BY <1>2, <1>3, <1>5, <1>6, ConcatAssociative, ConcatProperties DEF Line
<1>8. Line \o <<p>> = Append(Line, p) /\ Append(Line, p) \in Seq(Request)
  BY <1>1, LineType, AppendIsConcat, Appended
<1>9. Line' = Append(Append(Line, p), q)
  BY <1>1, <1>7, <1>8, AppendIsConcat
<1>10. TypeOKBridge'
  BY <1>7 DEF TypeOKBridge, InitiateAndFinalize, Queue, coreVars
<1> QED
  BY <1>9, <1>10 DEF p, q

\* A task of Trio goes on, closes the bridge or gets its answer.
LEMMA TypeGoesOn ==
  ASSUME TypeOKBridge,
         \/ \E c \in Callers : Resumed(c) \/ CloseBridge(c)
         \/ deliver_result
         \/ UNCHANGED bridgeVars
  PROVE  TypeOKBridge' /\ UNCHANGED <<Line, pending>>
<1> USE DEF TypeOKBridge
<1>1. UNCHANGED <<Line, pending>>
  BY DEF Resumed, CloseBridge, deliver_result, bridgeVars, queueVars, Line
<1>2. ASSUME NEW c \in Callers, Resumed(c) PROVE TypeOKBridge'
  BY <1>2 DEF Resumed, queueVars, coreVars
<1>3. ASSUME NEW c \in Callers, CloseBridge(c) PROVE TypeOKBridge'
  BY <1>3 DEF CloseBridge, coreVars
<1>4. CASE deliver_result
  <2>1. blocked.result \in Results
    BY <1>4 DEF deliver_result, Delivery
  <2>2. call' \in [Callers -> {"none", "waiting"} \cup Results]
    BY <1>4, <2>1 DEF deliver_result
  <2>3. UNCHANGED <<state, finalized, closed, loop, channel, spawned, pending, worker,
                    core, out>> /\ blocked' = NoDelivery
    BY <1>4 DEF deliver_result, queueVars, coreVars
  <2> QED
    BY <1>1, <2>2, <2>3
<1>5. CASE UNCHANGED bridgeVars
  <2>1. /\ UNCHANGED <<state, finalized, call, closed, loop, channel, spawned>>
        /\ UNCHANGED <<pending, blocked, worker, core, out>>
    BY <1>5 DEF bridgeVars, pyVars, queueVars, coreVars
  <2> QED
    BY <1>1, <2>1
<1> QED
  BY <1>1, <1>2, <1>3, <1>4, <1>5

LEMMA TypeGivenUp ==
  ASSUME TypeOKBridge, NEW cs, GiveUp(cs)
  PROVE  TypeOKBridge'
<1>1. pending' \subseteq Request /\ blocked' \in Delivery \cup {NoDelivery}
  BY LineGivenUp, DisownedType DEF TypeOKBridge
<1> QED
  BY <1>1, LineGivenUp DEF TypeOKBridge, GiveUp, coreVars

\* Rust's steps.
LEMMA DeliverType ==
  ASSUME NEW q \in Request, NEW res \in Results, Deliver(q, res)
  PROVE  blocked' \in Delivery
BY DEF Deliver, Request, Delivery

LEMMA TypeBegin ==
  ASSUME TypeOKBridge, BeginTask
  PROVE  TypeOKBridge'
<1> USE DEF TypeOKBridge
<1>1. /\ spawned # <<>> /\ spawned' = Tail(spawned)
      /\ UNCHANGED <<state, finalized, call, closed, loop, channel>>
  BY DEF BeginTask, BeginClientCall, BeginCreateWorker, BeginWorkerOp, BeginInitiate,
         BeginFinalize, BeginFinalizeBridge, Begin, BeginVars, pyVars
<1>2. Task \in Request /\ spawned' \in Seq(Request)
  BY <1>1, LineBegun
<1>3. ASSUME NEW res \in {"ok", "error"}, Deliver(Task, res)
      PROVE  blocked' \in Delivery
  BY <1>2, <1>3, DeliverType DEF Results
<1>4. CASE BeginClientCall \/ BeginWorkerOp
  BY <1>1, <1>2, <1>3, <1>4 DEF BeginClientCall, BeginWorkerOp, Await, coreVars
<1>5. CASE BeginCreateWorker
  BY <1>1, <1>2, <1>3, <1>5 DEF BeginCreateWorker, coreVars
<1>6. CASE BeginInitiate
  BY <1>1, <1>2, <1>6 DEF BeginInitiate
<1>7. CASE BeginFinalize
  BY <1>1, <1>2, <1>3, <1>7 DEF BeginFinalize, coreVars
<1>8. CASE BeginFinalizeBridge
  BY <1>1, <1>2, <1>3, <1>8 DEF BeginFinalizeBridge, coreVars
<1> QED
  BY <1>4, <1>5, <1>6, <1>7, <1>8 DEF BeginTask

LEMMA TypeAnswers ==
  ASSUME TypeOKBridge, NEW q \in pending, CoreAnswers(q)
  PROVE  /\ TypeOKBridge' /\ UNCHANGED <<Line, worker, call, state, closed, loop>>
         /\ RustFree /\ pending' = pending \ {q}
         /\ \E res \in Results : Deliver(q, res)
         /\ q.op = "create_worker" => Deliver(q, "error")
<1> USE DEF TypeOKBridge
<1>1. PICK res \in Results : Ends(q, res) /\ (q.op = "create_worker" => res = "error")
  BY DEF CoreAnswers, HandOut, EndPoll, Complete, FinalizeWorker, AnswerClient, CallFails,
         Results, Polls, Completes
<1>2. blocked' \in Delivery
  BY <1>1, DeliverType DEF Ends
<1>3. core' \in {"none", "up", "draining", "down", "dropped"}
  BY DEF CoreAnswers, HandOut, EndPoll, Complete, FinalizeWorker, AnswerClient, CallFails, Dropped
<1>4. out' \subseteq Tasks
  BY DEF CoreAnswers, HandOut, EndPoll, Complete, FinalizeWorker, AnswerClient, CallFails, Tasks,
         TaskOf
<1> QED
  BY <1>1, <1>2, <1>3, <1>4 DEF Ends, EndVars, pyVars, queueVars, Line

LEMMA TypeRust ==
  ASSUME TypeOKBridge, Rust
  PROVE  TypeOKBridge'
<1> USE DEF TypeOKBridge
<1>1. CASE Receive
  BY <1>1, LineReceived DEF Receive, pyVars, coreVars
<1>2. CASE ExitLoop
  BY <1>2 DEF ExitLoop, pyVars
<1> QED
  BY <1>1, <1>2, TypeBegin, TypeAnswers DEF Rust

-----------------------------------------------------------------------------
(* What is under way, as tasks go on.                                      *)

\* The parts of the traffic have types, and are what Owed speaks of.
LEMMA TrafficType ==
  TypeOKBridge =>
         /\ InQueue(Line) \subseteq Request
         /\ Requests = InQueue(Line) \cup pending
         /\ \A x \in Traffic : x \in Request \cup Delivery /\ x.by \in Callers \cup {Nobody}
         /\ \A c \in Callers : Owed(c) <=> \E x \in Traffic : x.by = c
<1> SUFFICES ASSUME TypeOKBridge
             PROVE  /\ InQueue(Line) \subseteq Request
                    /\ Requests = InQueue(Line) \cup pending
                    /\ \A x \in Traffic : x \in Request \cup Delivery /\ x.by \in Callers \cup {Nobody}
                    /\ \A c \in Callers : Owed(c) <=> \E x \in Traffic : x.by = c
  OBVIOUS
<1>1. \A i \in DOMAIN Line : Line[i] \in Request
  BY LineType, ElementOfSeq
<1>2. InQueue(Line) \subseteq Request
  BY <1>1 DEF InQueue
<1>3. Requests = InQueue(Line) \cup pending
  BY LineType DEF Requests
<1>4. \A x \in Traffic : x \in Request \cup Delivery
  BY <1>2 DEF Traffic, TypeOKBridge
<1>5. \A x \in Request \cup Delivery : x.by \in Callers \cup {Nobody}
  BY DEF Request, Delivery
<1>6. \A c \in Callers : Owed(c) <=> \E x \in Traffic : x.by = c
  BY <1>3 DEF Owed, Traffic
<1> QED
  BY <1>2, <1>3, <1>4, <1>5, <1>6

\* The same, to be used of the next state.
TrafficIsOwed == \A c \in Callers : Owed(c) <=> \E x \in Traffic : x.by = c
LEMMA OwedTraffic == TypeOKBridge => TrafficIsOwed
BY TrafficType DEF TrafficIsOwed

\* Nothing is under way for a task that does not wait, or is not where it waits.
LEMMA NothingDue ==
  ASSUME TypeOKBridge, Matched, NEW t \in Callers,
         call[t] # "waiting" \/ \A o \in Operations : ~Expects(t, o)
  PROVE  \A x \in Traffic : x.by # t
<1> SUFFICES ASSUME NEW x \in Traffic, x.by = t PROVE FALSE
  OBVIOUS
<1>1. x.op \in Operations
  BY TrafficType DEF Request, Delivery
<1>2. t # Nobody
  BY NobodyAssumption
<1> QED
  BY <1>1, <1>2 DEF Matched

\* Tasks T, for which nothing is under way, go on, and send N.
LEMMA BridgeGoesOn ==
  ASSUME TypeOKBridge, TypeOKBridge', BridgeInv, NEW T \in SUBSET Callers,
         NEW N \in SUBSET Request,
         \A t \in T, x \in Traffic : x.by # t,
         InQueue(Line)' = InQueue(Line) \cup N, InOrder(Line)',
         UNCHANGED <<pending, blocked, loop>>,
         \A u \in Callers \ T : pc'[u] = pc[u] /\ call'[u] = call[u],
         \A n \in N : \/ n.by = Nobody
                      \/ n.by \in T /\ Expects(n.by, n.op)' /\ call'[n.by] = "waiting",
         \A t \in T : call'[t] = "waiting" => call[t] = "waiting" \/ \E n \in N : n.by = t
  PROVE  BridgeInv'
<1> USE DEF BridgeInv
<1>1. Traffic' = Traffic \cup N
  BY DEF Traffic
<1>2. ASSUME NEW x \in Traffic, x.by # Nobody PROVE x.by \in Callers \ T
  BY <1>2, TrafficType
<1>3. Matched'
  <2> SUFFICES ASSUME NEW x \in Traffic', x.by # Nobody
               PROVE  Expects(x.by, x.op)' /\ call'[x.by] = "waiting"
    BY DEF Matched
  <2>1. CASE x \in N
    BY <2>1
  <2>2. CASE x \in Traffic
    <3>1. pc'[x.by] = pc[x.by] /\ call'[x.by] = call[x.by]
      BY <1>2, <2>2
    <3>2. Expects(x.by, x.op) /\ call[x.by] = "waiting"
      BY <2>2 DEF Matched
    <3> QED
      BY <3>1, <3>2 DEF Expects, At
  <2> QED
    BY <1>1, <2>1, <2>2
<1>4. OneEach'
  <2>1. \A n \in N, y \in Traffic : Differ(n, y)
    BY <1>2 DEF Differ
  <2>2. \A y \in pending : y \in Traffic
    BY DEF Traffic
  <2>3. blocked # NoDelivery => blocked \in Traffic
    BY DEF Traffic
  <2>4. \A x \in InQueue(Line)', y \in pending : Differ(x, y)
    BY <2>1, <2>2 DEF OneEach
  <2>5. blocked # NoDelivery => \A x \in InQueue(Line)' \cup pending : Differ(x, blocked)
    BY <2>1, <2>3 DEF OneEach
  <2> QED
    BY <2>4, <2>5 DEF OneEach, Differ
<1>5. Awaiting'
  BY DEF Awaiting
<1>6. OwedWhileOpen'
  <2> SUFFICES ASSUME loop = "running", NEW d \in Callers, call'[d] = "waiting"
               PROVE  Owed(d)'
    BY DEF OwedWhileOpen
  <2>1. \E x \in Traffic' : x.by = d
    <3>1. CASE call[d] = "waiting"
      BY <1>1, <3>1, TrafficType DEF OwedWhileOpen
    <3>2. CASE call[d] # "waiting"
      BY <1>1, <3>2
    <3> QED
      BY <3>1, <3>2
  <2>2. TrafficIsOwed'
    BY OwedTraffic, PTL
  <2> QED
    BY <2>1, <2>2 DEF TrafficIsOwed
<1> QED
  BY <1>3, <1>4, <1>5, <1>6

\* Callers cs give up, and tasks T for which nothing is under way go on.
LEMMA DisownedApart ==
  ASSUME NEW cs, NEW x \in Request \cup Delivery, NEW y \in Request \cup Delivery
  PROVE  /\ Differ(x, y) => Differ(Disowned(cs, x), Disowned(cs, y))
         /\ Apart(x, y) => Apart(Disowned(cs, x), Disowned(cs, y))
<1>1. /\ Disowned(cs, x).op = x.op /\ Disowned(cs, y).op = y.op
      /\ Disowned(cs, x).by = IF x.by \in cs THEN Nobody ELSE x.by
      /\ Disowned(cs, y).by = IF y.by \in cs THEN Nobody ELSE y.by
  BY DisownedType
<1>2. Differ(x, y) => Differ(Disowned(cs, x), Disowned(cs, y))
  BY <1>1 DEF Differ
<1> QED
  BY <1>1, <1>2 DEF Apart

LEMMA BridgeCancels ==
  ASSUME TypeOKBridge, BridgeInv, NEW cs \in SUBSET Callers, GiveUp(cs),
         NEW T \in SUBSET Callers, \A t \in T, x \in Traffic : x.by # t,
         \A u \in Callers \ (cs \cup T) : pc'[u] = pc[u]
  PROVE  BridgeInv'
<1> USE DEF BridgeInv
<1>1. /\ InQueue(Line)' = {Disowned(cs, x) : x \in InQueue(Line)}
      /\ pending' = {Disowned(cs, x) : x \in pending}
      /\ blocked' = IF blocked = NoDelivery THEN NoDelivery ELSE Disowned(cs, blocked)
      /\ \A i \in DOMAIN Line : Line'[i] = Disowned(cs, Line[i])
      /\ DOMAIN Line' = DOMAIN Line
  BY LineGivenUp DEF InQueue
<1>2. Traffic' \subseteq {Disowned(cs, x) : x \in Traffic}
  BY <1>1 DEF Traffic
<1>3. ASSUME NEW x \in Traffic, x.by \notin cs PROVE x \in Traffic'
  <2>1. Disowned(cs, x) = x
    BY <1>3, TrafficType, DisownedType
  <2>2. blocked # NoDelivery => blocked' = Disowned(cs, blocked) /\ blocked \in Delivery
    BY <1>1 DEF TypeOKBridge
  <2> QED
    BY <1>1, <2>1, <2>2, NobodyAssumption DEF Traffic
<1>4. \A x \in Traffic : x \in Request \cup Delivery
  BY TrafficType
<1>5. call' = [c \in Callers |-> IF c \in cs THEN "none" ELSE call[c]] /\ UNCHANGED loop
  BY DEF GiveUp
<1>6. Matched'
  <2> SUFFICES ASSUME NEW z \in Traffic', z.by # Nobody
               PROVE  Expects(z.by, z.op)' /\ call'[z.by] = "waiting"
    BY DEF Matched
  <2>1. PICK x \in Traffic : z = Disowned(cs, x)
    BY <1>2
  <2>2. x.by \notin cs /\ z = x
    BY <1>4, <2>1, DisownedType
  <2>3. x.by \in Callers \ (cs \cup T)
    BY <2>2, TrafficType
  <2>4. Expects(x.by, x.op) /\ call[x.by] = "waiting"
    BY <2>2 DEF Matched
  <2>5. pc'[x.by] = pc[x.by] /\ call'[x.by] = "waiting"
    BY <1>5, <2>3, <2>4
  <2> QED
    BY <2>2, <2>4, <2>5 DEF Expects, At
<1>7. OneEach'
  <2>1. InQueue(Line) \subseteq Traffic /\ pending \subseteq Traffic
        /\ (blocked # NoDelivery => blocked \in Traffic)
    BY DEF Traffic
  <2>2. InOrder(Line)'
    <3>1. \A i \in DOMAIN Line : Line[i] \in Request \cup Delivery
      BY <1>4, <2>1 DEF InQueue
    <3>2. \A i, j \in DOMAIN Line : i < j => Apart(Line'[i], Line'[j])
      BY <1>1, <3>1, DisownedApart DEF OneEach, InOrder
    <3> QED
      BY <1>1, <3>2 DEF InOrder
  <2>3. (\A x \in InQueue(Line), y \in pending : Differ(x, y))'
    BY <1>1, <1>4, <2>1, DisownedApart DEF OneEach
  <2>4. (\A x, y \in pending : x = y \/ Differ(x, y))'
    BY <1>1, <1>4, <2>1, DisownedApart DEF OneEach
  <2>5. (blocked # NoDelivery => \A x \in InQueue(Line) \cup pending : Differ(x, blocked))'
    <3> SUFFICES ASSUME blocked # NoDelivery, NEW x \in InQueue(Line) \cup pending
                 PROVE  Differ(Disowned(cs, x), Disowned(cs, blocked))
      BY <1>1
    <3>1. Differ(x, blocked)
      BY DEF OneEach
    <3> QED
      BY <1>4, <2>1, <3>1, DisownedApart
  <2> QED
    BY <2>2, <2>3, <2>4, <2>5 DEF OneEach
<1>8. Awaiting'
  BY <1>1, DisownedType DEF Awaiting, TypeOKBridge
<1>9. OwedWhileOpen'
  <2> SUFFICES ASSUME loop = "running", NEW d \in Callers, call'[d] = "waiting"
               PROVE  Owed(d)'
    BY <1>5 DEF OwedWhileOpen
  <2>1. d \notin cs /\ call[d] = "waiting"
    BY <1>5
  <2>2. PICK x \in Traffic : x.by = d
    BY <2>1, TrafficType DEF OwedWhileOpen
  <2>3. x \in Traffic'
    BY <1>3, <2>1, <2>2
  <2>4. TrafficIsOwed'
    BY OwedTraffic, TypeGivenUp, PTL
  <2> QED
    BY <2>2, <2>3, <2>4 DEF TrafficIsOwed
<1> QED
  BY <1>6, <1>7, <1>8, <1>9

\* An answer reaches its caller.
LEMMA BridgeDelivers ==
  ASSUME TypeOKBridge, BridgeInv, deliver_result, UNCHANGED pc
  PROVE  BridgeInv'
<1> USE DEF BridgeInv
<1>1. /\ TypeOKBridge' /\ UNCHANGED <<Line, pending, loop>>
      /\ blocked # NoDelivery /\ blocked' = NoDelivery
      /\ call' = [c \in Callers |-> IF c = blocked.by THEN blocked.result ELSE call[c]]
      /\ blocked \in Delivery
  BY TypeGoesOn DEF deliver_result, queueVars, TypeOKBridge
<1>2. Traffic' = InQueue(Line) \cup pending
  BY <1>1 DEF Traffic
<1>3. \A x \in Traffic' : x \in Traffic /\ Differ(x, blocked)
  BY <1>1, <1>2 DEF Traffic, OneEach
<1>4. Matched'
  <2> SUFFICES ASSUME NEW x \in Traffic', x.by # Nobody
               PROVE  Expects(x.by, x.op)' /\ call'[x.by] = "waiting"
    BY DEF Matched
  <2>1. Expects(x.by, x.op) /\ call[x.by] = "waiting" /\ x.by # blocked.by
    BY <1>3 DEF Matched, Differ
  <2>2. x.by \in Callers
    BY <1>3, TrafficType
  <2> QED
    BY <1>1, <2>1, <2>2 DEF Expects, At
<1>5. OneEach' /\ Awaiting'
  BY <1>1 DEF OneEach, Awaiting
<1>6. OwedWhileOpen'
  <2> SUFFICES ASSUME loop = "running", NEW d \in Callers, call'[d] = "waiting"
               PROVE  Owed(d)'
    BY <1>1 DEF OwedWhileOpen
  <2>1. d # blocked.by /\ call[d] = "waiting"
    BY <1>1 DEF Delivery, Results
  <2>2. PICK x \in Traffic : x.by = d
    BY <2>1, TrafficType DEF OwedWhileOpen
  <2>3. x \in Traffic'
    BY <1>2, <2>1, <2>2 DEF Traffic
  <2>4. TrafficIsOwed'
    BY <1>1, OwedTraffic, PTL
  <2> QED
    BY <2>2, <2>3, <2>4 DEF TrafficIsOwed
<1> QED
  BY <1>4, <1>5, <1>6

\* Rust hands on what is under way, and nothing more.
LEMMA SameTraffic ==
  ASSUME TypeOKBridge, TypeOKBridge', Matched, OwedWhileOpen,
         UNCHANGED <<pc, call, loop>>,
         \A z \in Traffic' : \E x \in Traffic : x.by = z.by /\ x.op = z.op,
         \A x \in Traffic : x.by # Nobody => \E z \in Traffic' : z.by = x.by
  PROVE  Matched' /\ OwedWhileOpen'
<1>1. Matched'
  BY DEF Matched, Expects, At
<1>2. ASSUME loop = "running", NEW d \in Callers, call[d] = "waiting" PROVE Owed(d)'
  <2>1. \E x \in Traffic : x.by = d
    BY <1>2, TrafficType DEF OwedWhileOpen
  <2>2. \E z \in Traffic' : z.by = d
    BY <2>1, NobodyAssumption
  <2>3. TrafficIsOwed'
    BY OwedTraffic, PTL
  <2> QED
    BY <2>2, <2>3 DEF TrafficIsOwed
<1> QED
  BY <1>1, <1>2 DEF OwedWhileOpen

\* A spawned task awaits Core, has its result, or ends without one.
LEMMA BridgeBegins ==
  ASSUME TypeOKBridge, BridgeInv, BeginTask, UNCHANGED pc
  PROVE  BridgeInv'
<1> USE DEF BridgeInv
<1>1. /\ RustFree /\ spawned # <<>> /\ spawned' = Tail(spawned)
      /\ UNCHANGED <<call, loop, channel>>
  BY DEF BeginTask, BeginClientCall, BeginCreateWorker, BeginWorkerOp, BeginInitiate,
         BeginFinalize, BeginFinalizeBridge, Begin, BeginVars, pyVars
<1>2. /\ \/ /\ pending' = pending \cup {Task} /\ blocked' = NoDelivery
            /\ Task.op \in WorkerOps \cup {"initialize_client", "rpc", "finalize_shutdown"}
         \/ pending' = pending /\ \E res \in Results : Deliver(Task, res)
         \/ pending' = pending /\ blocked' = NoDelivery /\ Task.op = "initiate_shutdown"
  BY DEF BeginTask, BeginClientCall, BeginCreateWorker, BeginWorkerOp, BeginInitiate,
         BeginFinalize, BeginFinalizeBridge, Begin, Await, Task, Results, RustFree
<1>3. /\ Line \in Seq(Request) /\ Line # <<>> /\ Task = Head(Line) /\ Line' = Tail(Line)
      /\ blocked = NoDelivery
  BY <1>1, LineType, LineBegun DEF RustFree
<1>4. /\ InQueue(Line) = {Task} \cup InQueue(Line)' /\ InOrder(Line)'
      /\ \A x \in InQueue(Line)' : Differ(Task, x) /\ Differ(x, Task)
  BY <1>3, Taken DEF OneEach, Apart, Differ
<1>5. TypeOKBridge' /\ Traffic = {Task} \cup InQueue(Line)' \cup pending
  BY <1>3, <1>4, TypeBegin DEF Traffic
<1>6. Task.by # Nobody => Task.op # "initiate_shutdown"
  BY <1>5 DEF Matched, Expects
<1>7. \A x \in pending : Differ(Task, x) /\ Differ(x, Task)
  BY <1>4 DEF OneEach, Differ
<1>8. CASE pending' = pending \cup {Task} /\ blocked' = NoDelivery
           /\ Task.op \in WorkerOps \cup {"initialize_client", "rpc", "finalize_shutdown"}
  <2>1. Traffic' = Traffic
    BY <1>5, <1>8 DEF Traffic
  <2>2. Matched' /\ OwedWhileOpen'
    BY <1>1, <1>5, <2>1, SameTraffic
  <2>3. OneEach' /\ Awaiting'
    BY <1>4, <1>7, <1>8 DEF OneEach, Awaiting
  <2> QED
    BY <2>2, <2>3
<1>9. ASSUME pending' = pending, NEW res \in Results, Deliver(Task, res)
      PROVE  BridgeInv'
  <2>1. blocked'.by = Task.by /\ blocked'.op = Task.op /\ blocked' # NoDelivery
    <3>1. Task \in Request
      BY <1>5, TrafficType, <1>4
    <3>2. blocked' \in Delivery
      BY <1>9, <3>1, DeliverType
    <3> QED
      BY <1>9, <3>2, NobodyAssumption DEF Deliver
  <2>2. Traffic' = {blocked'} \cup InQueue(Line)' \cup pending
    BY <1>9, <2>1 DEF Traffic
  <2>3. Matched' /\ OwedWhileOpen'
    BY <1>1, <1>5, <2>1, <2>2, SameTraffic
  <2>4. \A x \in InQueue(Line)' \cup pending : Differ(x, blocked')
    BY <1>4, <1>7, <2>1 DEF Differ
  <2>5. OneEach' /\ Awaiting'
    BY <1>4, <1>9, <2>4 DEF OneEach, Awaiting
  <2> QED
    BY <2>3, <2>5
<1>10. CASE pending' = pending /\ blocked' = NoDelivery /\ Task.op = "initiate_shutdown"
  <2>1. Traffic' = InQueue(Line)' \cup pending
    BY <1>10 DEF Traffic
  <2>2. Matched' /\ OwedWhileOpen'
    BY <1>1, <1>5, <1>6, <1>10, <2>1, SameTraffic
  <2>3. OneEach' /\ Awaiting'
    BY <1>4, <1>10 DEF OneEach, Awaiting
  <2> QED
    BY <2>2, <2>3
<1> QED
  BY <1>2, <1>8, <1>9, <1>10

LEMMA BridgeRust ==
  ASSUME TypeOKBridge, BridgeInv, Rust, UNCHANGED pc
  PROVE  BridgeInv'
<1> USE DEF BridgeInv
<1>1. TypeOKBridge'
  BY TypeRust
<1>2. CASE Receive
  <2>1. UNCHANGED <<Line, pending, blocked, call, loop>>
    BY <1>2, LineReceived DEF Receive, pyVars
  <2>2. Traffic' = Traffic
    BY <2>1 DEF Traffic
  <2>3. Matched' /\ OwedWhileOpen'
    BY <1>1, <2>1, <2>2, SameTraffic
  <2>4. OneEach' /\ Awaiting'
    BY <2>1 DEF OneEach, Awaiting
  <2> QED
    BY <2>3, <2>4
<1>3. CASE ExitLoop
  <2>1. /\ pending' = {} /\ blocked' = NoDelivery /\ loop' = "exited"
        /\ spawned' = <<>> /\ channel' = <<>>
    BY <1>3 DEF ExitLoop, RustFree
  <2>2. Line' = <<>> /\ InQueue(Line)' = {}
    BY <2>1, ConcatEmptySeq, EmptySeq DEF Line, InQueue
  <2>3. Traffic' = {}
    BY <2>1, <2>2 DEF Traffic
  <2>4. InOrder(Line)'
    BY <2>2, EmptySeq DEF InOrder
  <2> QED
    BY <2>1, <2>2, <2>3, <2>4 DEF Matched, OneEach, Awaiting, OwedWhileOpen
<1>4. ASSUME NEW q \in pending, CoreAnswers(q)
      PROVE  BridgeInv'
  <2>1. /\ UNCHANGED <<Line, call, loop>> /\ blocked = NoDelivery
        /\ pending' = pending \ {q} /\ q \in Request
    BY <1>4, TypeAnswers DEF RustFree, TypeOKBridge
  <2>2. PICK res \in Results : Deliver(q, res)
    BY <1>4, TypeAnswers
  <2>3. blocked'.by = q.by /\ blocked'.op = q.op /\ blocked' # NoDelivery
    <3>1. blocked' \in Delivery
      BY <2>1, <2>2, DeliverType
    <3> QED
      BY <2>2, <3>1, NobodyAssumption DEF Deliver
  <2>4. /\ Traffic = InQueue(Line) \cup (pending \ {q}) \cup {q}
        /\ Traffic' = InQueue(Line) \cup (pending \ {q}) \cup {blocked'}
    BY <2>1, <2>3 DEF Traffic
  <2>5. Matched' /\ OwedWhileOpen'
    BY <1>1, <2>1, <2>3, <2>4, SameTraffic
  <2>6. \A x \in InQueue(Line) \cup (pending \ {q}) : Differ(x, blocked')
    BY <2>3 DEF OneEach, Differ
  <2>7. OneEach' /\ Awaiting'
    BY <2>1, <2>6 DEF OneEach, Awaiting
  <2> QED
    BY <2>5, <2>7
<1> QED
  BY <1>2, <1>3, <1>4, BridgeBegins DEF Rust

\* A task goes on, and closes the bridge if it does.
LEMMA BridgeResumes ==
  ASSUME TypeOKBridge, BridgeInv, NEW T \in SUBSET Callers,
         \/ \E c \in T : Resumed(c) \/ CloseBridge(c)
         \/ UNCHANGED bridgeVars,
         \A t \in T : call[t] # "waiting" \/ \A o \in Operations : ~Expects(t, o),
         \A u \in Callers \ T : pc'[u] = pc[u]
  PROVE  TypeOKBridge' /\ BridgeInv' /\ UNCHANGED Line
<1>1. TypeOKBridge' /\ UNCHANGED <<Line, pending>>
  BY TypeGoesOn
<1>2. UNCHANGED <<blocked, loop>>
  BY DEF Resumed, CloseBridge, bridgeVars, queueVars
<1>3. /\ \A u \in Callers \ T : call'[u] = call[u]
      /\ \A t \in T : call'[t] = "waiting" => call[t] = "waiting"
  BY DEF Resumed, CloseBridge, bridgeVars, pyVars, TypeOKBridge
<1>4. \A t \in T, x \in Traffic : x.by # t
  BY NothingDue DEF BridgeInv
<1>5. InQueue(Line)' = InQueue(Line) \cup {} /\ InOrder(Line)'
  BY <1>1 DEF BridgeInv, OneEach
<1>6. BridgeInv'
  <2> DEFINE N == {}
  <2>1. /\ N \in SUBSET Request
        /\ InQueue(Line)' = InQueue(Line) \cup N
        /\ \A n \in N : \/ n.by = Nobody
                        \/ n.by \in T /\ Expects(n.by, n.op)' /\ call'[n.by] = "waiting"
        /\ \A t \in T : call'[t] = "waiting" => call[t] = "waiting" \/ \E n \in N : n.by = t
    BY <1>3, <1>5
  <2> HIDE DEF N
  <2> QED
    BY <1>1, <1>2, <1>3, <1>4, <1>5, <2>1, BridgeGoesOn DEF Expects, At
<1> QED
  BY <1>1, <1>6

\* A task sends a request, and waits unless it is cancelled (c is Nobody then).
LEMMA BridgeSends ==
  ASSUME TypeOKBridge, BridgeInv, NEW t \in Callers, NEW c \in {t, Nobody},
         NEW o \in Operations, Sent(c, o),
         state' \in {"NOT_STARTED", "RUNNING", "SHUTDOWN"},
         \A p \in Operations : ~Expects(t, p),
         c = t => Expects(t, o)',
         o = "create_worker" => \A x \in InQueue(Line) : x.op # "create_worker",
         o \in Completes => \A x \in InQueue(Line) : x.op # "finalize_shutdown",
         \A u \in Callers \ {t} : pc'[u] = pc[u]
  PROVE  /\ TypeOKBridge' /\ BridgeInv'
         /\ InQueue(Line)' = InQueue(Line) \cup {NewRequest(c, o)}
<1> DEFINE q == NewRequest(c, o)
<1>1. /\ TypeOKBridge' /\ Line' = Append(Line, q) /\ q \in Request
      /\ q.op = o /\ q.by = c
  BY TypeSent DEF NewRequest
<1> HIDE DEF q
<1>2. \A x \in Traffic : x.by # t
  BY NothingDue DEF BridgeInv
<1>3. \A x \in InQueue(Line) : Apart(x, q)
  BY <1>1, <1>2 DEF Apart, Differ, Traffic, Completes
<1>4. InQueue(Line)' = InQueue(Line) \cup {q} /\ InOrder(Line)'
  BY <1>1, <1>3, LineType, Appended DEF BridgeInv, OneEach
<1>5. UNCHANGED <<pending, blocked, loop>>
  BY DEF Sent, Queue
<1>6. call' = IF c = Nobody THEN call ELSE [call EXCEPT ![c] = "waiting"]
  BY DEF Sent
<1>7. /\ \A u \in Callers \ {t} : call'[u] = call[u]
      /\ c = t => call'[t] = "waiting"
      /\ c = Nobody => call' = call
  BY <1>6, NobodyAssumption DEF TypeOKBridge
<1>8. /\ q.by = Nobody \/ (q.by \in {t} /\ Expects(q.by, q.op)' /\ call'[q.by] = "waiting")
      /\ call'[t] = "waiting" => call[t] = "waiting" \/ q.by = t
  BY <1>1, <1>7
<1>9. BridgeInv'
  <2> DEFINE T == {t}
             N == {q}
  <2>1. /\ T \in SUBSET Callers /\ N \in SUBSET Request
        /\ \A u \in T, x \in Traffic : x.by # u
        /\ InQueue(Line)' = InQueue(Line) \cup N
        /\ \A u \in Callers \ T : pc'[u] = pc[u] /\ call'[u] = call[u]
        /\ \A n \in N : \/ n.by = Nobody
                        \/ n.by \in T /\ Expects(n.by, n.op)' /\ call'[n.by] = "waiting"
        /\ \A u \in T : call'[u] = "waiting" => call[u] = "waiting" \/ \E n \in N : n.by = u
    BY <1>1, <1>2, <1>4, <1>7, <1>8
  <2> HIDE DEF T, N
  <2> QED
    BY <1>1, <1>4, <1>5, <2>1, BridgeGoesOn DEF Expects, At
<1> QED
  BY <1>1, <1>4, <1>9 DEF q

-----------------------------------------------------------------------------
(* The phases of the worker, and its way through the bridge's map.         *)

\* Task t goes on.
LEMMA Goes ==
  ASSUME Types, NEW t \in Callers, NEW w \in Places,
         Go(t, w) \/ \E k : GoWithout(t, w, k)
  PROVE  /\ pc' \in [Callers -> Places] /\ UNCHANGED <<asked, cancelled>>
         /\ asked' \in {"no", "main", "all"} /\ cancelled' \subseteq {"workflow", "act"}
         /\ pc'[t] = w /\ \A u \in Callers \ {t} : pc'[u] = pc[u]
BY DEF Types, Go, GoWithout

\* While a poll loop or a handler is there, run is as well.
LEMMA Working ==
  ASSUME Phases, NEW t \in Nursery, pc[t] \notin {"none", "ended"}
  PROVE  pc["main"] \in During
BY DEF Phases, Quiet, At

LEMMA TheTasks ==
  /\ Nursery \subseteq Callers /\ {"main", "client", "user"} \subseteq Callers
  /\ Callers = Nursery \cup {"main", "client", "user"}
BY TasksAssumption DEF Nursery

\* A step of the poll loops and handlers, or of run among them.
LEMMA PhasesDuring ==
  ASSUME Phases, pc["main"] \in During, pc'["main"] \in During,
         pc'["client"] = pc["client"], pc'["user"] = pc["user"],
         UNCHANGED <<state, closed, loop>>
  PROVE  Phases'
BY DEF Phases, Before, During, After, Opened, At

\* A step that leaves run where it is, or among the steps in which its loops are
\* there, and at most moves the worker's requests.
LEMMA MapKept ==
  ASSUME InMap, UNCHANGED <<worker, loop>>, closed => closed',
         pc'["main"] = pc["main"] \/ {pc["main"], pc'["main"]} \subseteq During,
         \A x \in InQueue(Line)' :
           \/ \E y \in InQueue(Line) : y.op = x.op /\ (x.op = "create_worker" => y.by = x.by)
           \/ /\ x.op \notin {"create_worker", "finalize_shutdown"}
              /\ x.op \in Completes => worker = "set",
         \A x \in pending' : \E y \in pending : y.op = x.op,
         At("main", "creating") =>
           \A r \in Results : AnsweredWith("main", r)' => AnsweredWith("main", r),
         pc["main"] \in {"finalizing", "recovering"} /\ Answered("main")' =>
           Answered("main") \/ worker # "set"
  PROVE  InMap'
<1> USE DEF InMap, At, Before, During, After
<1>1. ASSUME NEW x \in InQueue(Line)'
      PROVE  /\ x.op = "create_worker" =>
                  /\ worker = "absent"
                  /\ \/ At("main", "creating") /\ x.by = "main"
                     \/ At("main", "gone") /\ x.by = Nobody
             /\ x.op = "finalize_shutdown" => pc["main"] \in After
             /\ x.op \in Completes => worker = "set"
  BY DEF Completes
<1>2. \A x \in pending' : x.op = "finalize_shutdown" => worker = "removed"
  OBVIOUS
<1>3. /\ At("main", "creating") /\ AnsweredWith("main", "ok")' => worker = "set" \/ loop = "exited"
      /\ At("main", "creating") /\ AnsweredWith("main", "error")' => worker # "set"
  BY DEF Results
<1> QED
  BY <1>1, <1>2, <1>3

\* Poll loops and handlers go on, and get their answers if they do.
LEMMA NurseryResumes ==
  ASSUME LifeInv, pc["main"] \in During, NEW T \in SUBSET Nursery,
         (\E c \in T : Resumed(c)) \/ UNCHANGED bridgeVars,
         \A t \in T : call[t] # "waiting" \/ \A o \in Operations : ~Expects(t, o),
         pc' \in [Callers -> Places], \A u \in Callers \ T : pc'[u] = pc[u],
         UNCHANGED <<asked, cancelled>>
  PROVE  LifeInv'
<1> USE DEF LifeInv, Types
<1>1. /\ TypeOKBridge' /\ BridgeInv' /\ UNCHANGED Line
  BY BridgeResumes, TheTasks
<1>2. /\ pc'["main"] = pc["main"] /\ pc'["client"] = pc["client"] /\ pc'["user"] = pc["user"]
  BY TheTasks DEF Nursery
<1>3. UNCHANGED <<state, closed, loop, worker, pending, blocked>>
  BY DEF Resumed, queueVars, coreVars, bridgeVars, pyVars
<1>4. call'["main"] = call["main"]
  BY TheTasks DEF Nursery, Resumed, bridgeVars, pyVars, TypeOKBridge
<1>5. Phases'
  BY <1>2, <1>3, PhasesDuring
<1>6. InMap'
  BY <1>1, <1>2, <1>3, <1>4, MapKept DEF AnsweredWith, Answered
<1> QED
  BY <1>1, <1>5, <1>6

\* The requests of poll loops and handlers, and where they wait for the answers.
Errands ==
  {<<"workflow", "poll", "poll_activation", "polling">>,
   <<"workflow", "dispatching", "complete_activation", "completing">>,
   <<"act", "poll", "poll_activity_task", "polling">>,
   <<"activity", "running", "complete_activity_task", "completing">>}

LEMMA NurserySends ==
  ASSUME LifeInv, NEW t \in Nursery, NEW o \in WorkerOps, NEW where \in Places,
         <<t, pc[t], o, where>> \in Errands,
         Call(Caller(t), o), Wait(t, where)
  PROVE  LifeInv' /\ pc["main"] \in During /\ worker = "set"
<1> USE DEF LifeInv, Types
<1>1. pc["main"] \in During
  BY Working DEF Errands
<1>2. worker = "set"
  BY <1>1 DEF InMap, Phases, Call, Accepts
<1>3. t \in Callers /\ EndOf(t) \in Places /\ EndOf(t) \in {"none", "ended"} /\ t # Nobody
  BY TheTasks, NobodyAssumption DEF EndOf, Places
<1>4. /\ pc' \in [Callers -> Places] /\ UNCHANGED <<asked, cancelled>>
      /\ pc'[t] = IF Scope(t) \in cancelled THEN EndOf(t) ELSE where
      /\ \A u \in Callers \ {t} : pc'[u] = pc[u]
  BY <1>3, Goes DEF Wait
<1>5. /\ Caller(t) \in {t, Nobody} /\ (Caller(t) = t => pc'[t] = where)
  BY <1>3, <1>4 DEF Caller
<1>6. /\ o \in Operations /\ Sent(Caller(t), o) /\ UNCHANGED state
      /\ o \notin {"create_worker", "finalize_shutdown"}
  BY DEF Call, Operations, WorkerOps, Polls, Completes
<1>7. \A p \in Operations : ~Expects(t, p)
  BY DEF Expects, At, Errands
<1>8. Caller(t) = t => Expects(t, o)'
  BY <1>5 DEF Expects, At, Errands
<1>9. \A x \in InQueue(Line) : x.op # "finalize_shutdown"
  BY <1>1 DEF InMap, During, After
<1>10. /\ TypeOKBridge' /\ BridgeInv'
       /\ InQueue(Line)' = InQueue(Line) \cup {NewRequest(Caller(t), o)}
  BY <1>3, <1>4, <1>5, <1>6, <1>7, <1>8, <1>9, BridgeSends DEF TypeOKBridge
<1>11. pc'["main"] = pc["main"] /\ pc'["client"] = pc["client"] /\ pc'["user"] = pc["user"]
  BY <1>4, TheTasks DEF Nursery
<1>12. UNCHANGED <<state, closed, loop, worker, pending, blocked>>
  BY <1>6 DEF Sent, Queue, coreVars
<1>13. call'["main"] = call["main"]
  BY <1>3, <1>5, TheTasks DEF Nursery, Call, Sent, TypeOKBridge
<1>14. Phases'
  BY <1>1, <1>11, <1>12, PhasesDuring
<1>15. InMap'
  BY <1>2, <1>6, <1>10, <1>11, <1>12, <1>13, MapKept DEF AnsweredWith, Answered, NewRequest
<1> QED
  BY <1>1, <1>2, <1>4, <1>10, <1>14, <1>15

\* One task of the nurseries goes on.
LEMMA NurseryGoes ==
  ASSUME LifeInv, NEW t \in Nursery, NEW w \in Places,
         Go(t, w) \/ \E k : GoWithout(t, w, k),
         pc[t] \notin {"none", "ended"},
         \/ Returned(t) /\ Resumed(t)
         \/ UNCHANGED bridgeVars /\ \A o \in Operations : ~Expects(t, o)
  PROVE  LifeInv'
<1>1. t \in Callers /\ pc["main"] \in During
  BY TheTasks, Working DEF LifeInv
<1>2. /\ pc' \in [Callers -> Places] /\ UNCHANGED <<asked, cancelled>>
      /\ \A u \in Callers \ {t} : pc'[u] = pc[u]
  BY <1>1, Goes DEF LifeInv
<1>3. call[t] # "waiting" \/ \A o \in Operations : ~Expects(t, o)
  BY DEF Returned, Results
<1> DEFINE T == {t}
<1>4. /\ T \in SUBSET Nursery
      /\ (\E c \in T : Resumed(c)) \/ UNCHANGED bridgeVars
      /\ \A c \in T : call[c] # "waiting" \/ \A o \in Operations : ~Expects(c, o)
      /\ \A u \in Callers \ T : pc'[u] = pc[u]
  BY <1>2, <1>3
<1> HIDE DEF T
<1> QED
  BY <1>1, <1>2, <1>4, NurseryResumes

LEMMA DispatcherLife ==
  ASSUME LifeInv, Dispatcher
  PROVE  LifeInv'
<1>1. /\ "workflow" \in Nursery /\ {"poll", "ended", "spinning", "dispatching", "polling",
                                    "completing"} \subseteq Places
      /\ {"poll_activation", "complete_activation"} \subseteq WorkerOps
  BY DEF Nursery, Places, WorkerOps, Polls, Completes
<1>2. At("workflow", "poll") \/ At("workflow", "dispatching") =>
        \A o \in Operations : ~Expects("workflow", o)
  BY DEF Expects, At
<1>3. CASE PollActivation
  <2>1. CASE poll_workflow_activation(Caller("workflow")) /\ Wait("workflow", "polling")
    BY <1>1, <1>3, <2>1, NurserySends DEF PollActivation, poll_workflow_activation, Errands, At
  <2>2. ASSUME NEW w \in {"ended", "spinning"}, Go("workflow", w), UNCHANGED bridgeVars
        PROVE  LifeInv'
    BY <1>1, <1>2, <1>3, <2>2, NurseryGoes DEF PollActivation, At
  <2> QED
    BY <1>3, <2>1, <2>2 DEF PollActivation, Refused
<1>4. CASE ActivationPolled
  <2>1. PICK w \in {"dispatching", "ended", "poll"} :
          Go("workflow", w) \/ \E k : GoWithout("workflow", w, k)
    BY <1>4 DEF ActivationPolled, Drop
  <2> QED
    BY <1>1, <1>4, <2>1, NurseryGoes DEF ActivationPolled, At
<1>5. CASE CompleteActivation
  <2>1. CASE complete_workflow_activation(Caller("workflow")) /\ Wait("workflow", "completing")
    BY <1>1, <1>5, <2>1, NurserySends DEF CompleteActivation, complete_workflow_activation,
       Errands, At
  <2>2. CASE /\ Go("workflow", "poll") \/ \E k : GoWithout("workflow", "poll", k)
             /\ UNCHANGED bridgeVars
    BY <1>1, <1>2, <1>5, <2>2, NurseryGoes DEF CompleteActivation, At
  <2> QED
    BY <1>5, <2>1, <2>2 DEF CompleteActivation, Refused, Drop
<1>6. CASE ActivationCompleted
  BY <1>1, <1>6, NurseryGoes DEF ActivationCompleted, At
<1>7. CASE DispatcherCancelled
  BY <1>1, <1>2, <1>7, NurseryGoes DEF DispatcherCancelled, At
<1> QED
  BY <1>3, <1>4, <1>5, <1>6, <1>7 DEF Dispatcher

LEMMA ActivitiesLife ==
  ASSUME LifeInv, Activities
  PROVE  LifeInv'
<1>1. /\ "act" \in Nursery /\ "activity" \in Nursery
      /\ {"poll", "ended", "pausing", "polling", "none", "running", "completing"} \subseteq Places
      /\ {"poll_activity_task", "complete_activity_task"} \subseteq WorkerOps
  BY DEF Nursery, Places, WorkerOps, Polls, Completes
<1>2. /\ At("act", "poll") \/ At("act", "pausing") => \A o \in Operations : ~Expects("act", o)
      /\ At("activity", "running") \/ At("activity", "none") =>
           \A o \in Operations : ~Expects("activity", o)
  BY DEF Expects, At
<1>3. CASE PollActivity
  <2>1. CASE poll_activity_task(Caller("act")) /\ Wait("act", "polling")
    BY <1>1, <1>3, <2>1, NurserySends DEF PollActivity, poll_activity_task, Errands, At
  <2>2. CASE Go("act", "ended") /\ UNCHANGED bridgeVars
    BY <1>1, <1>2, <1>3, <2>2, NurseryGoes DEF PollActivity, At
  <2> QED
    BY <1>3, <2>1, <2>2 DEF PollActivity, Refused
<1>4. CASE ActivityPolled
  <2>1. ASSUME NEW w \in {"ended", "pausing"}, Go("act", w)
        PROVE  LifeInv'
    BY <1>1, <1>4, <2>1, NurseryGoes DEF ActivityPolled, At
  <2>2. CASE /\ At("activity", "none")
             /\ pc' = [pc EXCEPT !["act"] = "poll", !["activity"] = "running"]
             /\ UNCHANGED <<asked, cancelled>>
    <3>1. pc["main"] \in During
      BY <1>1, <1>4, Working DEF ActivityPolled, At, LifeInv
    <3>2. pc' \in [Callers -> Places] /\ \A u \in Callers \ {"act", "activity"} : pc'[u] = pc[u]
      BY <1>1, <2>2, TheTasks DEF LifeInv, Types
    <3>3. \A t \in {"act", "activity"} : call[t] # "waiting" \/ \A o \in Operations : ~Expects(t, o)
      BY <1>2, <1>4, <2>2 DEF ActivityPolled, Returned, Results
    <3> DEFINE T == {"act", "activity"}
    <3>4. /\ T \in SUBSET Nursery /\ \E c \in T : Resumed(c)
          /\ \A t \in T : call[t] # "waiting" \/ \A o \in Operations : ~Expects(t, o)
          /\ \A u \in Callers \ T : pc'[u] = pc[u]
      BY <1>1, <1>4, <3>2, <3>3 DEF ActivityPolled
    <3> HIDE DEF T
    <3> QED
      BY <2>2, <3>1, <3>2, <3>4, NurseryResumes
  <2> QED
    BY <1>4, <2>1, <2>2 DEF ActivityPolled
<1>5. CASE RetryPoll \/ PollerCancelled
  <2>1. PICK w \in {"poll", "ended"} : Go("act", w) /\ At("act", "pausing") /\ UNCHANGED bridgeVars
    BY <1>5 DEF RetryPoll, PollerCancelled
  <2> QED
    BY <1>1, <1>2, <2>1, NurseryGoes DEF At
<1>6. CASE CompleteActivity
  <2>1. CASE complete_activity_task(Caller("activity")) /\ Wait("activity", "completing")
    BY <1>1, <1>6, <2>1, NurserySends DEF CompleteActivity, complete_activity_task, Errands, At
  <2>2. CASE Go("activity", "none") /\ UNCHANGED bridgeVars
    BY <1>1, <1>2, <1>6, <2>2, NurseryGoes DEF CompleteActivity, At
  <2> QED
    BY <1>6, <2>1, <2>2 DEF CompleteActivity, Refused
<1>7. CASE ActivityCompleted
  BY <1>1, <1>7, NurseryGoes DEF ActivityCompleted, At
<1> QED
  BY <1>3, <1>4, <1>5, <1>6, <1>7 DEF Activities

\* Nurseries are cancelled: their tasks give up what they wait for.
LEMMA NurseriesLife ==
  ASSUME LifeInv, NEW scopes \in SUBSET {"workflow", "act"}, NEW m \in Places,
         CancelNurseries(scopes, m),
         \/ {pc["main"], m} \subseteq During
         \/ m = pc["main"] /\ asked = "all"
  PROVE  LifeInv'
<1> USE DEF LifeInv, Types
<1> DEFINE hit == {t \in Nursery : Scope(t) \in scopes /\ call[t] = "waiting"}
<1>1. /\ GiveUp(hit) /\ cancelled' = cancelled \cup scopes /\ UNCHANGED asked
      /\ pc' = [t \in Callers |-> IF t \in hit THEN EndOf(t) ELSE IF t = "main" THEN m ELSE pc[t]]
  BY DEF CancelNurseries
<1>2. hit \in SUBSET Nursery /\ hit \in SUBSET Callers
  BY TheTasks
<1> HIDE DEF hit
<1>3. \A t \in Nursery : EndOf(t) \in Places /\ EndOf(t) \in {"none", "ended"}
  BY DEF EndOf, Places
<1>4. /\ pc' \in [Callers -> Places] /\ pc'["main"] = m
      /\ pc'["client"] = pc["client"] /\ pc'["user"] = pc["user"]
      /\ \A u \in Callers \ (hit \cup {"main"}) : pc'[u] = pc[u]
      /\ \A u \in hit : pc'[u] \in {"none", "ended"}
  BY <1>1, <1>2, <1>3, TheTasks DEF Nursery
<1>5. TypeOKBridge'
  BY <1>1, TypeGivenUp
<1>6. BridgeInv'
  <2>1. CASE m = pc["main"]
    <3> DEFINE T == {}
    <3>1. /\ T \in SUBSET Callers /\ \A t \in T, x \in Traffic : x.by # t
          /\ \A u \in Callers \ (hit \cup T) : pc'[u] = pc[u]
      BY <1>4, <2>1
    <3> HIDE DEF T
    <3> QED
      BY <1>1, <1>2, <3>1, BridgeCancels
  <2>2. CASE pc["main"] \in During
    <3> DEFINE T == {"main"}
    <3>1. \A o \in Operations : ~Expects("main", o)
      BY <2>2 DEF Expects, At, During
    <3>2. /\ T \in SUBSET Callers /\ \A t \in T, x \in Traffic : x.by # t
          /\ \A u \in Callers \ (hit \cup T) : pc'[u] = pc[u]
      BY <1>4, <3>1, TheTasks, NothingDue DEF BridgeInv
    <3> HIDE DEF T
    <3> QED
      BY <1>1, <1>2, <3>2, BridgeCancels
  <2> QED
    BY <2>1, <2>2
<1>7. UNCHANGED <<state, closed, loop, worker>>
  BY <1>1 DEF GiveUp, coreVars
<1>8. Phases'
  <2>1. CASE {pc["main"], m} \subseteq During
    BY <1>4, <1>7, <2>1, PhasesDuring
  <2>2. CASE m = pc["main"] /\ asked = "all" /\ pc["main"] \in During
    BY <1>4, <1>7, <2>2, PhasesDuring
  <2>3. CASE m = pc["main"] /\ asked = "all" /\ pc["main"] \notin During
    <3>1. pc["main"] \in After /\ Quiet
      BY <2>3 DEF Phases
    <3>2. Quiet'
      BY <1>4, <3>1, TheTasks DEF Quiet, Nursery
    <3> QED
      BY <1>1, <1>4, <1>7, <2>3, <3>1, <3>2 DEF Phases, Opened, At, Before, After
  <2> QED
    BY <2>1, <2>2, <2>3
<1>9. InMap'
  <2>1. "main" \notin hit /\ Nobody \notin hit
    BY <1>2, NobodyAssumption DEF Nursery
  <2>2. /\ InQueue(Line)' = {Disowned(hit, x) : x \in InQueue(Line)}
        /\ pending' = {Disowned(hit, x) : x \in pending}
        /\ blocked' = IF blocked = NoDelivery THEN NoDelivery ELSE Disowned(hit, blocked)
    BY <1>1, LineGivenUp DEF InQueue
  <2>3. call'["main"] = call["main"]
    BY <1>1, <2>1, TheTasks DEF GiveUp
  <2>4. ASSUME NEW x \in InQueue(Line)'
        PROVE  \E y \in InQueue(Line) : y.op = x.op /\ (x.op = "create_worker" => y.by = x.by)
    <3>1. PICK y \in InQueue(Line) : x = Disowned(hit, y)
      BY <2>2
    <3>2. x.op = y.op /\ x.by = IF y.by \in hit THEN Nobody ELSE y.by
      BY <3>1, TrafficType, DisownedType
    <3>3. y.op = "create_worker" => y.by \in {"main", Nobody}
      BY DEF InMap
    <3> QED
      BY <2>1, <3>2, <3>3
  <2>5. \A x \in pending' : \E y \in pending : y.op = x.op
    BY <2>2, DisownedType DEF TypeOKBridge
  <2>6. /\ \A r \in Results : AnsweredWith("main", r)' => AnsweredWith("main", r)
        /\ Answered("main")' => Answered("main")
    <3>1. blocked' # NoDelivery => /\ blocked # NoDelivery /\ blocked'.result = blocked.result
                                   /\ blocked'.by = IF blocked.by \in hit THEN Nobody ELSE blocked.by
      BY <2>2, DisownedType DEF TypeOKBridge
    <3>2. "main" # Nobody
      BY TheTasks, NobodyAssumption
    <3> QED
      BY <2>3, <3>1, <3>2 DEF AnsweredWith, Answered
  <2> QED
    BY <1>4, <1>7, <2>4, <2>5, <2>6, MapKept
<1> QED
  BY <1>1, <1>4, <1>5, <1>6, <1>8, <1>9

-----------------------------------------------------------------------------
(* The steps of Worker.run.                                                *)

\* run goes on to its end, from a wait or from where it waits for nothing.
LEMMA RunEnded ==
  ASSUME LifeInv, NEW w \in {"done", "failed", "gone"}, Go("main", w),
         \/ Returned("main") /\ Resumed("main")
         \/ UNCHANGED bridgeVars /\ \A o \in Operations : ~Expects("main", o),
         Quiet, Opened, pc["main"] # "gone",
         w = "gone" \/ closed \/ worker # "set"
  PROVE  LifeInv'
<1> USE DEF LifeInv, Types
<1>1. "main" \in Callers /\ w \in Places
  BY TheTasks DEF Places
<1>2. /\ pc' \in [Callers -> Places] /\ UNCHANGED <<asked, cancelled>> /\ pc'["main"] = w
      /\ \A u \in Callers \ {"main"} : pc'[u] = pc[u]
  BY <1>1, Goes
<1>3. call["main"] # "waiting" \/ \A o \in Operations : ~Expects("main", o)
  BY DEF Returned, Results
<1>4. TypeOKBridge' /\ BridgeInv' /\ UNCHANGED Line
  <2> DEFINE T == {"main"}
  <2>1. /\ T \in SUBSET Callers
        /\ (\E c \in T : Resumed(c) \/ CloseBridge(c)) \/ UNCHANGED bridgeVars
        /\ \A t \in T : call[t] # "waiting" \/ \A o \in Operations : ~Expects(t, o)
        /\ \A u \in Callers \ T : pc'[u] = pc[u]
    BY <1>1, <1>2, <1>3
  <2> HIDE DEF T
  <2> QED
    BY <2>1, BridgeResumes
<1>5. UNCHANGED <<state, closed, loop, worker, pending, blocked>>
  BY DEF Resumed, queueVars, coreVars, bridgeVars, pyVars
<1>6. Phases'
  <2>1. /\ pc'["main"] \in After /\ pc'["main"] \notin Before
        /\ pc'["client"] = pc["client"] /\ pc'["user"] = pc["user"]
    BY <1>2, TheTasks DEF After, Before
  <2>2. Quiet' /\ Opened'
    BY <1>2, <2>1, TheTasks DEF Quiet, Opened, Nursery, At
  <2> QED
    BY <1>5, <2>1, <2>2 DEF Phases, At
<1>7. \A x \in InQueue(Line) : x.op # "create_worker"
  <2> SUFFICES ASSUME NEW x \in InQueue(Line), x.op = "create_worker" PROVE FALSE
    OBVIOUS
  <2>1. At("main", "creating") /\ x.by = "main"
    BY DEF InMap, At
  <2>2. call["main"] = "waiting"
    BY <2>1, TheTasks, NobodyAssumption DEF BridgeInv, Matched, Traffic
  <2>3. Expects("main", "create_worker") /\ "create_worker" \in Operations
    BY <2>1 DEF Expects, Operations
  <2> QED
    BY <1>3, <2>2, <2>3
<1>8. InMap'
  BY <1>2, <1>4, <1>5, <1>7 DEF InMap, At, After, During
<1> QED
  BY <1>2, <1>4, <1>6, <1>8

\* run sends its worker's creation.
LEMMA RunLife ==
  ASSUME LifeInv, Run
  PROVE  LifeInv'
<1> USE DEF LifeInv, Types
<1>1. At("main", "new") /\ Opened /\ worker = "absent" /\ Quiet
  BY DEF Run, InMap, Phases, Before, Quiet, At
<1>2. \A o \in Operations : ~Expects("main", o)
  BY <1>1 DEF Expects, At
<1>3. CASE create_worker("main") /\ Go("main", "creating")
  <2>1. "main" \in Callers /\ "creating" \in Places /\ "create_worker" \in Operations
    BY TheTasks DEF Places, Operations
  <2>2. /\ pc' \in [Callers -> Places] /\ UNCHANGED <<asked, cancelled>>
        /\ pc'["main"] = "creating" /\ \A u \in Callers \ {"main"} : pc'[u] = pc[u]
    BY <1>3, <2>1, Goes
  <2>3. Sent("main", "create_worker") /\ UNCHANGED state
    BY <1>3 DEF create_worker, Call
  <2>4. \A x \in InQueue(Line) : x.op \notin {"create_worker", "finalize_shutdown"}
                                 /\ x.op \notin Completes
    BY <1>1 DEF InMap, At, After
  <2>5. Expects("main", "create_worker")'
    BY <2>2 DEF Expects, At
  <2>6. /\ TypeOKBridge' /\ BridgeInv'
        /\ InQueue(Line)' = InQueue(Line) \cup {NewRequest("main", "create_worker")}
    BY <1>2, <2>1, <2>2, <2>3, <2>4, <2>5, BridgeSends DEF TypeOKBridge, Completes
  <2>7. UNCHANGED <<state, closed, loop, worker, pending, blocked>>
    BY <2>3 DEF Sent, Queue, coreVars
  <2>8. ~Answered("main")' /\ \A r \in Results : ~AnsweredWith("main", r)'
    <3>1. \A x \in Traffic : x.by # "main"
      BY <1>2, <2>1, NothingDue DEF BridgeInv
    <3>2. blocked # NoDelivery => blocked.by # "main"
      BY <3>1 DEF Traffic
    <3>3. call'["main"] = "waiting"
      BY <2>1, <2>3, NobodyAssumption DEF Sent, TypeOKBridge
    <3> QED
      BY <2>7, <3>2, <3>3 DEF Answered, AnsweredWith, Results
  <2>9. Phases'
    <3>1. pc'["client"] = pc["client"] /\ pc'["user"] = pc["user"] /\ \A t \in Nursery : pc'[t] = pc[t]
      BY <2>2, TheTasks DEF Nursery
    <3> QED
      BY <1>1, <2>2, <2>7, <3>1 DEF Phases, Opened, At, Before, During, After
  <2>10. InMap'
    <3>1. \A x \in InQueue(Line)' :
            x.op \notin {"finalize_shutdown"} \cup Completes /\ (x.op = "create_worker" => x.by = "main")
      BY <2>4, <2>6 DEF NewRequest, Completes
    <3> QED
      BY <1>1, <2>2, <2>7, <2>8, <3>1 DEF InMap, At, During, Results, Completes
  <2> QED
    BY <2>2, <2>6, <2>9, <2>10
<1>4. CASE Refused("create_worker") /\ Go("main", "failed")
  BY <1>1, <1>2, <1>4, RunEnded DEF Refused, At
<1> QED
  BY <1>3, <1>4 DEF Run

\* The worker is created, or is not.
LEMMA CreatedLife ==
  ASSUME LifeInv, Created
  PROVE  LifeInv'
<1> USE DEF LifeInv, Types
<1>1. At("main", "creating") /\ Returned("main") /\ Resumed("main") /\ Opened /\ Quiet
      /\ \A t \in Nursery : At(t, "none")
  BY DEF Created, Phases, Before, At, Quiet
<1>2. CASE /\ Answer("main") = "ok" /\ UNCHANGED <<asked, cancelled>>
           /\ pc' = [pc EXCEPT !["main"] = "running", !["workflow"] = "poll", !["act"] = "poll"]
  <2> DEFINE T == {"main", "workflow", "act"}
  <2>1. /\ T \in SUBSET Callers /\ \E c \in T : Resumed(c) \/ CloseBridge(c)
        /\ \A u \in Callers \ T : pc'[u] = pc[u]
    BY <1>1, <1>2, TheTasks DEF Nursery
  <2>2. \A t \in T : call[t] # "waiting" \/ \A o \in Operations : ~Expects(t, o)
    BY <1>1 DEF Returned, Results, Expects, At, Nursery
  <2>3. pc' \in [Callers -> Places] /\ pc'["main"] = "running"
        /\ pc'["client"] = pc["client"] /\ pc'["user"] = pc["user"]
    BY <1>2, TheTasks DEF Places, Nursery
  <2> HIDE DEF T
  <2>4. TypeOKBridge' /\ BridgeInv' /\ UNCHANGED Line
    BY <2>1, <2>2, BridgeResumes
  <2>5. UNCHANGED <<state, closed, loop, worker, pending, blocked>>
    BY <1>1 DEF Resumed, queueVars, coreVars
  <2>6. Phases'
    BY <1>1, <2>3, <2>5 DEF Phases, Opened, At, Before, During, After
  <2>7. worker = "set" \/ loop = "exited"
    BY <1>1, <1>2 DEF InMap, Answer, AnsweredWith
  <2>8. \A x \in InQueue(Line) : x.op # "create_worker"
    <3> SUFFICES ASSUME NEW x \in InQueue(Line), x.op = "create_worker" PROVE FALSE
      OBVIOUS
    <3>1. x.by = "main"
      BY <1>1 DEF InMap, At
    <3>2. call["main"] = "waiting"
      BY <3>1, TheTasks, NobodyAssumption DEF BridgeInv, Matched, Traffic
    <3> QED
      BY <1>1, <3>2 DEF Returned, Results
  <2>9. \A x \in InQueue(Line) : x.op # "finalize_shutdown"
    BY <1>1 DEF InMap, At, After
  <2>10. InMap'
    BY <2>3, <2>4, <2>5, <2>7, <2>8, <2>9 DEF InMap, At, During
  <2> QED
    BY <1>2, <2>3, <2>4, <2>6, <2>10
<1>3. CASE Answer("main") = "error" /\ Go("main", "failed")
  <2>1. worker # "set"
    BY <1>1, <1>3 DEF InMap, Answer, AnsweredWith
  <2> QED
    BY <1>1, <1>3, <2>1, RunEnded DEF At
<1> QED
  BY <1>2, <1>3 DEF Created

\* run asks Core to stop.
LEMMA StopLife ==
  ASSUME LifeInv, Stop
  PROVE  LifeInv'
<1> USE DEF LifeInv, Types
<1> DEFINE p == NewRequest(Nobody, "initiate_shutdown")
<1>1. At("main", "running") /\ initiate_shutdown /\ Go("main", "sleeping")
      /\ "main" \in Callers /\ "sleeping" \in Places
  BY TheTasks DEF Stop, Places
<1>2. /\ pc' \in [Callers -> Places] /\ UNCHANGED <<asked, cancelled>>
      /\ pc'["main"] = "sleeping" /\ \A u \in Callers \ {"main"} : pc'[u] = pc[u]
  BY <1>1, Goes
<1>3. /\ UNCHANGED <<state, call, closed, loop, worker, pending, blocked>>
      /\ TypeOKBridge' /\ Line' \in {Line, Append(Line, p)}
  BY <1>1, TypeInitiated DEF initiate_shutdown, Queue, coreVars
<1>4. p \in Request /\ p.by = Nobody /\ p.op = "initiate_shutdown"
  BY DEF NewRequest, Request, Operations
<1> HIDE DEF p
<1>5. PICK N \in SUBSET {p} : InQueue(Line)' = InQueue(Line) \cup N /\ InOrder(Line)'
  <2>1. CASE Line' = Line
    <3>1. InQueue(Line)' = InQueue(Line) \cup {} /\ InOrder(Line)'
      BY <2>1 DEF BridgeInv, OneEach
    <3> WITNESS {} \in SUBSET {p}
    <3> QED
      BY <3>1
  <2>2. CASE Line' = Append(Line, p)
    <3>1. \A x \in InQueue(Line) : Apart(x, p)
      BY <1>4 DEF Apart, Differ, Completes
    <3>2. InQueue(Line)' = InQueue(Line) \cup {p} /\ InOrder(Line)'
      BY <1>4, <2>2, <3>1, LineType, Appended DEF BridgeInv, OneEach
    <3> WITNESS {p} \in SUBSET {p}
    <3> QED
      BY <3>2
  <2> QED
    BY <1>3, <2>1, <2>2
<1>6. \A n \in N : n \in Request /\ n.by = Nobody /\ n.op = "initiate_shutdown"
  BY <1>4
<1>7. BridgeInv'
  <2> DEFINE T == {"main"}
  <2>1. \A x \in Traffic : x.by # "main"
    BY <1>1, NothingDue DEF BridgeInv, Expects, At
  <2>2. /\ T \in SUBSET Callers /\ \A t \in T, x \in Traffic : x.by # t
        /\ N \in SUBSET Request
        /\ \A n \in N : \/ n.by = Nobody
                        \/ n.by \in T /\ Expects(n.by, n.op)' /\ call'[n.by] = "waiting"
        /\ \A u \in Callers \ T : pc'[u] = pc[u] /\ call'[u] = call[u]
        /\ \A t \in T : call'[t] = "waiting" => call[t] = "waiting" \/ \E n \in N : n.by = t
    BY <1>1, <1>2, <1>3, <1>6, <2>1
  <2> HIDE DEF T
  <2> QED
    BY <1>3, <1>5, <2>2, BridgeGoesOn DEF Expects, At
<1>8. Phases'
  BY <1>1, <1>2, <1>3, TheTasks, PhasesDuring DEF Nursery, At, During
<1>9. InMap'
  <2>1. /\ \A x \in InQueue(Line)' :
             \/ \E y \in InQueue(Line) : y.op = x.op /\ (x.op = "create_worker" => y.by = x.by)
             \/ /\ x.op \notin {"create_worker", "finalize_shutdown"}
                /\ x.op \in Completes => worker = "set"
    BY <1>5, <1>6 DEF Completes
  <2>2. pc["main"] \in During /\ pc'["main"] \in During
    BY <1>1, <1>2 DEF At, During
  <2> QED
    BY <1>2, <1>3, <2>1, <2>2, MapKept DEF AnsweredWith, Answered
<1> QED
  BY <1>2, <1>3, <1>7, <1>8, <1>9

\* run finalizes its worker, from where its sub-workers have ended.
LEMMA Finalizes ==
  ASSUME LifeInv, Quiet, pc["main"] \in During,
         NEW w \in {"finalizing", "recovering"}, Go("main", w),
         UNCHANGED <<state, closed, loop, worker, pending, blocked>>,
         call' = [call EXCEPT !["main"] = "waiting"],
         \A x \in InQueue(Line)' : x \in InQueue(Line) \/ x.op \in {"initiate_shutdown", "finalize_shutdown"}
  PROVE  Phases' /\ InMap'
<1> USE DEF LifeInv, Types
<1>1. /\ pc'["main"] = w /\ UNCHANGED asked /\ "main" \in Callers
      /\ \A u \in Callers \ {"main"} : pc'[u] = pc[u]
  BY Goes, TheTasks DEF Places
<1>2. Phases'
  <2>1. /\ pc'["client"] = pc["client"] /\ pc'["user"] = pc["user"] /\ Quiet'
    BY <1>1, TheTasks DEF Quiet, Nursery
  <2> QED
    BY <1>1, <2>1 DEF Phases, Opened, At, Before, During, After
<1>3. ~Answered("main")'
  <2>1. \A x \in Traffic : x.by # "main"
    BY <1>1, NothingDue DEF BridgeInv, Expects, At, During
  <2>2. blocked # NoDelivery => blocked.by # "main"
    BY <2>1 DEF Traffic
  <2>3. call'["main"] = "waiting"
    BY <1>1 DEF TypeOKBridge
  <2> QED
    BY <2>2, <2>3 DEF Answered, Results
<1>4. InMap'
  <2>1. \A x \in InQueue(Line) : x.op # "create_worker"
    BY DEF InMap, At, During
  <2> QED
    BY <1>1, <1>3, <2>1 DEF InMap, At, After, During, Completes
<1> QED
  BY <1>2, <1>4

LEMMA FinalizeLife ==
  ASSUME LifeInv, Finalize
  PROVE  LifeInv'
<1> USE DEF LifeInv, Types
<1>1. /\ At("main", "leaving") /\ Quiet /\ Opened /\ pc["main"] \in During
      /\ \A o \in Operations : ~Expects("main", o)
  BY DEF Finalize, NurseryEmpty, Quiet, Nursery, At, Phases, During, Expects
<1>2. CASE finalize_shutdown("main") /\ Go("main", "finalizing")
  <2>1. /\ "main" \in Callers /\ "finalizing" \in Places /\ "finalize_shutdown" \in Operations
        /\ "finalize_shutdown" \notin Completes \cup {"create_worker"}
    BY TheTasks DEF Places, Operations, Completes
  <2>2. /\ pc' \in [Callers -> Places] /\ UNCHANGED <<asked, cancelled>>
        /\ pc'["main"] = "finalizing" /\ \A u \in Callers \ {"main"} : pc'[u] = pc[u]
    BY <1>2, <2>1, Goes
  <2>3. Sent("main", "finalize_shutdown") /\ UNCHANGED state
    BY <1>2 DEF finalize_shutdown, Call
  <2>4. Expects("main", "finalize_shutdown")'
    BY <2>2 DEF Expects, At
  <2>5. /\ TypeOKBridge' /\ BridgeInv'
        /\ InQueue(Line)' = InQueue(Line) \cup {NewRequest("main", "finalize_shutdown")}
    BY <1>1, <2>1, <2>2, <2>3, <2>4, BridgeSends DEF TypeOKBridge
  <2>6. /\ UNCHANGED <<state, closed, loop, worker, pending, blocked>>
        /\ call' = [call EXCEPT !["main"] = "waiting"]
    BY <2>1, <2>3, NobodyAssumption DEF Sent, Queue, coreVars
  <2>7. Phases' /\ InMap'
    BY <1>1, <1>2, <2>5, <2>6, Finalizes DEF NewRequest
  <2> QED
    BY <2>2, <2>5, <2>7
<1>3. CASE Refused("finalize_shutdown") /\ Go("main", "done")
  BY <1>1, <1>3, RunEnded DEF Refused, Accepts, At
<1> QED
  BY <1>2, <1>3 DEF Finalize

LEMMA UnwindLife ==
  ASSUME LifeInv, Unwind
  PROVE  LifeInv'
<1> USE DEF LifeInv, Types
<1>1. /\ At("main", "unwinding") /\ Quiet /\ Opened /\ pc["main"] \in During
      /\ \A o \in Operations : ~Expects("main", o)
  BY DEF Unwind, NurseryEmpty, Quiet, Nursery, At, Phases, During, Expects
<1>2. CASE InitiateAndFinalize("main") /\ Go("main", "recovering")
  <2> DEFINE p == NewRequest(Nobody, "initiate_shutdown")
             q == NewRequest("main", "finalize_shutdown")
  <2>1. /\ "main" \in Callers /\ "recovering" \in Places
        /\ p \in Request /\ p.by = Nobody /\ p.op = "initiate_shutdown"
        /\ q \in Request /\ q.by = "main" /\ q.op = "finalize_shutdown"
    BY TheTasks DEF Places, NewRequest, Request, Operations
  <2>2. TypeOKBridge' /\ Line' = Append(Append(Line, p), q)
    BY <1>2, <2>1, TypeFinalizing
  <2> HIDE DEF p, q
  <2>3. /\ pc' \in [Callers -> Places] /\ UNCHANGED <<asked, cancelled>>
        /\ pc'["main"] = "recovering" /\ \A u \in Callers \ {"main"} : pc'[u] = pc[u]
    BY <1>2, <2>1, Goes
  <2>4. /\ UNCHANGED <<state, closed, loop, worker, pending, blocked>>
        /\ call' = [call EXCEPT !["main"] = "waiting"]
    BY <1>2 DEF InitiateAndFinalize, Queue, coreVars
  <2>5. \A x \in Traffic : x.by # "main"
    BY <1>1, <2>1, NothingDue DEF BridgeInv
  <2>6. \A x \in InQueue(Line) : Apart(x, p) /\ Apart(x, q)
    BY <2>1, <2>5 DEF Apart, Differ, Completes, Traffic
  <2>7. Apart(p, q)
    BY <2>1, NobodyAssumption DEF Apart, Differ, Completes
  <2>8. InQueue(Line)' = InQueue(Line) \cup {p, q} /\ InOrder(Line)'
    <3>1. /\ Append(Line, p) \in Seq(Request)
          /\ InQueue(Append(Line, p)) = InQueue(Line) \cup {p} /\ InOrder(Append(Line, p))
      BY <2>1, <2>6, LineType, Appended DEF BridgeInv, OneEach
    <3> DEFINE s == Append(Line, p)
    <3>2. InOrder(s) /\ s \in Seq(Request) /\ \A x \in InQueue(s) : Apart(x, q)
      BY <2>6, <2>7, <3>1
    <3> HIDE DEF s
    <3>3. InQueue(Append(s, q)) = InQueue(s) \cup {q} /\ InOrder(Append(s, q))
      BY <2>1, <3>2, Appended
    <3> QED
      BY <2>2, <3>1, <3>3 DEF s
  <2>9. BridgeInv'
    <3> DEFINE T == {"main"}
               N == {p, q}
    <3>1. Expects("main", "finalize_shutdown")' /\ call'["main"] = "waiting"
      BY <2>1, <2>3, <2>4 DEF Expects, At, TypeOKBridge
    <3>2. /\ T \in SUBSET Callers /\ \A t \in T, x \in Traffic : x.by # t
          /\ N \in SUBSET Request /\ InQueue(Line)' = InQueue(Line) \cup N
          /\ \A n \in N : \/ n.by = Nobody
                          \/ n.by \in T /\ Expects(n.by, n.op)' /\ call'[n.by] = "waiting"
          /\ \A u \in Callers \ T : pc'[u] = pc[u] /\ call'[u] = call[u]
          /\ \A t \in T : call'[t] = "waiting" => call[t] = "waiting" \/ \E n \in N : n.by = t
      BY <2>1, <2>3, <2>4, <2>5, <2>8, <3>1 DEF TypeOKBridge, Expects, At
    <3>3. TypeOKBridge /\ BridgeInv /\ TypeOKBridge' /\ InOrder(Line)'
          /\ UNCHANGED <<pending, blocked, loop>>
      BY <2>2, <2>4, <2>8
    <3> HIDE DEF T, N, LifeInv, Types
    <3> QED
      BY <3>2, <3>3, BridgeGoesOn DEF Expects, At
  <2>10. Phases' /\ InMap'
    BY <1>1, <1>2, <2>1, <2>4, <2>8, <2>9, Finalizes
  <2> QED
    BY <2>2, <2>3, <2>9, <2>10
<1>3. CASE Refused("finalize_shutdown") /\ Go("main", "failed")
  BY <1>1, <1>3, RunEnded DEF Refused, Accepts, At
<1> QED
  BY <1>2, <1>3 DEF Unwind, CleanUp

\* run returns, fails after its cleanup, or has gone without it.
LEMMA RunReturns ==
  ASSUME LifeInv, Finalized \/ Recovered \/ Gone
  PROVE  LifeInv'
<1>1. CASE Finalized \/ Recovered
  <2>1. /\ Returned("main") /\ Resumed("main") /\ pc["main"] \in {"finalizing", "recovering"}
        /\ \E w \in {"done", "failed"} : Go("main", w)
    BY <1>1 DEF Finalized, Recovered, Answer, Returned, Results, At
  <2>2. Quiet /\ Opened /\ worker # "set"
    BY <2>1 DEF LifeInv, Phases, InMap, After, Answered, Returned
  <2> QED
    BY <2>1, <2>2, RunEnded
<1>2. CASE Gone
  <2>1. /\ At("main", "abandoning") /\ Quiet /\ Opened /\ Go("main", "gone")
        /\ UNCHANGED bridgeVars /\ \A o \in Operations : ~Expects("main", o)
    BY <1>2 DEF Gone, NurseryEmpty, Quiet, Nursery, At, Expects, LifeInv, Phases
  <2> QED
    BY <2>1, RunEnded DEF At
<1> QED
  BY <1>1, <1>2

\* run is cancelled in a call of its own.
LEMMA CancelledLife ==
  ASSUME LifeInv, pc["main"] \in {"creating", "finalizing", "recovering"},
         GiveUp({"main"}), Go("main", "gone")
  PROVE  LifeInv'
<1> USE DEF LifeInv, Types
<1>1. "main" \in Callers /\ "gone" \in Places
  BY TheTasks DEF Places
<1>2. /\ pc' \in [Callers -> Places] /\ UNCHANGED <<asked, cancelled>>
      /\ pc'["main"] = "gone" /\ \A u \in Callers \ {"main"} : pc'[u] = pc[u]
  BY <1>1, Goes
<1> DEFINE hit == {"main"}
<1>3. hit \in SUBSET Callers /\ GiveUp(hit)
  BY <1>1
<1>4. \A y : y \in hit <=> y = "main"
  OBVIOUS
<1> HIDE DEF hit
<1>5. TypeOKBridge' /\ BridgeInv'
  <2> DEFINE T == {}
  <2>1. /\ T \in SUBSET Callers /\ \A t \in T, x \in Traffic : x.by # t
        /\ \A u \in Callers \ (hit \cup T) : pc'[u] = pc[u]
    BY <1>2, <1>4
  <2> HIDE DEF T
  <2> QED
    BY <1>3, <2>1, TypeGivenUp, BridgeCancels
<1>6. UNCHANGED <<state, closed, loop, worker>>
  BY <1>3 DEF GiveUp, coreVars
<1>7. Phases'
  <2>1. /\ pc'["client"] = pc["client"] /\ pc'["user"] = pc["user"]
        /\ Opened /\ Quiet
    BY <1>2, TheTasks DEF Phases, Before, After, Quiet, At
  <2>2. Quiet' /\ Opened'
    BY <1>2, <2>1, TheTasks DEF Quiet, Opened, Nursery, At
  <2> QED
    BY <1>2, <1>6, <2>1, <2>2 DEF Phases, At, Before, After
<1>8. InMap'
  <2>1. /\ InQueue(Line)' = {Disowned(hit, x) : x \in InQueue(Line)}
        /\ pending' = {Disowned(hit, x) : x \in pending}
    BY <1>3, LineGivenUp DEF InQueue
  <2>2. ASSUME NEW x \in InQueue(Line)'
        PROVE  /\ x.op = "create_worker" => worker = "absent" /\ x.by = Nobody
               /\ x.op \in Completes => worker = "set"
    <3>1. PICK y \in InQueue(Line) : x = Disowned(hit, y)
      BY <2>1
    <3>2. x.op = y.op /\ x.by = IF y.by \in hit THEN Nobody ELSE y.by
      BY <3>1, TrafficType, DisownedType
    <3> QED
      BY <1>4, <3>2 DEF InMap, At
  <2>3. \A x \in pending' : x.op = "finalize_shutdown" => worker = "removed"
    BY <2>1, DisownedType DEF TypeOKBridge, InMap
  <2> QED
    BY <1>2, <1>6, <2>2, <2>3 DEF InMap, At, After, During
<1> QED
  BY <1>2, <1>5, <1>7, <1>8

LEMMA WorkerLife ==
  ASSUME LifeInv, Worker
  PROVE  LifeInv'
<1>1. /\ {"leaving", "unwinding", "abandoning"} \subseteq Places \cap During
      /\ {"workflow", "act"} \in SUBSET {"workflow", "act"}
  BY DEF Places, During
<1>2. CASE Leave
  BY <1>1, <1>2, NurseriesLife DEF Leave, At, During
<1>3. CASE Crash
  BY <1>1, <1>3, NurseriesLife DEF Crash, During
<1>4. CASE CancelRun
  <2>1. CASE /\ pc["main"] \in {"running", "sleeping", "leaving", "unwinding"}
             /\ CancelNurseries({"workflow", "act"}, "abandoning")
    BY <1>1, <2>1, NurseriesLife DEF During
  <2> QED
    BY <1>4, <2>1, CancelledLife DEF CancelRun
<1>5. CASE Shutdown
  <2>1. /\ UNCHANGED <<bridgeVars, pc, cancelled>> /\ asked' \in {"main", "all"}
        /\ asked' = "all" => pc["main"] \notin Before
    BY <1>5 DEF Shutdown, Before
  <2>2. UNCHANGED <<state, call, closed, loop, worker, pending, blocked>>
    BY <2>1 DEF bridgeVars, pyVars, queueVars, coreVars
  <2>3. TypeOKBridge' /\ BridgeInv' /\ UNCHANGED Line
    <3> DEFINE T == {}
    <3>1. /\ T \in SUBSET Callers /\ \A u \in Callers \ T : pc'[u] = pc[u]
          /\ \A t \in T : call[t] # "waiting" \/ \A o \in Operations : ~Expects(t, o)
      BY <2>1
    <3> HIDE DEF T
    <3> QED
      BY <2>1, <3>1, BridgeResumes DEF LifeInv, Types
  <2>4. Phases'
    BY <2>1, <2>2 DEF LifeInv, Phases, Quiet, Opened, At
  <2>5. InMap'
    BY <2>1, <2>2, <2>3 DEF LifeInv, InMap, At, Answered, AnsweredWith
  <2> QED
    BY <2>1, <2>3, <2>4, <2>5 DEF LifeInv, Types
<1>6. ASSUME NEW t \in {"workflow", "act"}, SubWorkerStops(t) PROVE LifeInv'
  <2>1. {t} \in SUBSET {"workflow", "act"} /\ pc["main"] \in Places /\ asked = "all"
        /\ CancelNurseries({t}, pc["main"])
    BY <1>6, TheTasks DEF LifeInv, Types, SubWorkerStops
  <2>2. PICK scopes \in SUBSET {"workflow", "act"}, m \in Places :
          /\ m = pc["main"] /\ asked = "all" /\ CancelNurseries(scopes, m)
    BY <2>1
  <2> QED
    BY <2>2, NurseriesLife
<1> QED
  BY <1>2, <1>3, <1>4, <1>5, <1>6, RunLife, CreatedLife, StopLife, FinalizeLife, UnwindLife,
     RunReturns DEF Worker

-----------------------------------------------------------------------------
(* The application, Trio's deliveries and the Rust thread.                 *)

\* A step of the client or the user, whose request is none of the worker's.
LEMMA ApplicationPhases ==
  ASSUME LifeInv, NEW t \in {"client", "user"}, \A u \in Callers \ {t} : pc'[u] = pc[u],
         UNCHANGED <<asked, loop>>, closed => closed',
         Opened => Opened',
         state' = "NOT_STARTED" <=> pc'["client"] = "new",
         \A u \in {"client", "user"} : pc'[u] = "closing" => state' = "SHUTDOWN",
         closed' => state' = "SHUTDOWN"
  PROVE  Phases'
<1>1. pc'["main"] = pc["main"] /\ \A u \in Nursery : pc'[u] = pc[u]
  BY TheTasks DEF Nursery
<1> QED
  BY <1>1 DEF LifeInv, Phases, Quiet, At

LEMMA ApplicationMap ==
  ASSUME LifeInv, NEW t \in {"client", "user"}, \A u \in Callers \ {t} : pc'[u] = pc[u],
         \A u \in Callers \ {t} : call'[u] = call[u],
         UNCHANGED <<loop, worker, pending, blocked>>, closed => closed',
         \A x \in InQueue(Line)' :
           x \in InQueue(Line)
           \/ x.op \notin Completes \cup {"create_worker", "finalize_shutdown"}
  PROVE  InMap'
<1>1. pc'["main"] = pc["main"] /\ call'["main"] = call["main"]
  BY TheTasks DEF Nursery
<1> QED
  BY <1>1, MapKept DEF LifeInv, Answered, AnsweredWith

\* A request of the client or the user.
LEMMA ApplicationSends ==
  ASSUME LifeInv, NEW t \in {"client", "user"}, NEW w \in Places, Go(t, w),
         NEW o \in {"initialize_client", "rpc", "finalize_bridge"}, Sent(t, o),
         state' \in {"RUNNING", "SHUTDOWN"},
         \A p \in Operations : ~Expects(t, p), Expects(t, o)'
  PROVE  /\ Types' /\ BridgeInv' /\ InMap'
         /\ \A u \in Callers \ {t} : pc'[u] = pc[u]
         /\ pc'[t] = w /\ UNCHANGED <<asked, loop, closed>>
<1> USE DEF LifeInv, Types
<1>1. t \in Callers /\ t # Nobody /\ o \in Operations
      /\ o \notin Completes \cup {"create_worker", "finalize_shutdown"}
  BY TheTasks, NobodyAssumption DEF Operations, Completes
<1>2. /\ pc' \in [Callers -> Places] /\ UNCHANGED <<asked, cancelled>> /\ pc'[t] = w
      /\ \A u \in Callers \ {t} : pc'[u] = pc[u]
  BY <1>1, Goes
<1>3. PICK c \in {t, Nobody} : c = t
  OBVIOUS
<1>4. /\ TypeOKBridge' /\ BridgeInv'
      /\ InQueue(Line)' = InQueue(Line) \cup {NewRequest(t, o)}
  BY <1>1, <1>2, <1>3, BridgeSends
<1>5. /\ UNCHANGED <<loop, closed, worker, pending, blocked>>
      /\ \A u \in Callers \ {t} : call'[u] = call[u]
  BY <1>1 DEF Sent, Queue, coreVars, TypeOKBridge
<1>6. InMap'
  BY <1>1, <1>2, <1>4, <1>5, ApplicationMap DEF NewRequest
<1> QED
  BY <1>2, <1>4, <1>5, <1>6

\* The client or the user goes on.
LEMMA ApplicationResumes ==
  ASSUME LifeInv, NEW t \in {"client", "user"}, NEW w \in Places, Go(t, w),
         Returned(t), Resumed(t) \/ CloseBridge(t)
  PROVE  /\ Types' /\ BridgeInv' /\ InMap'
         /\ \A u \in Callers \ {t} : pc'[u] = pc[u]
         /\ pc'[t] = w /\ UNCHANGED <<asked, loop, state>>
<1> USE DEF LifeInv, Types
<1>1. t \in Callers
  BY TheTasks
<1>2. /\ pc' \in [Callers -> Places] /\ UNCHANGED <<asked, cancelled>> /\ pc'[t] = w
      /\ \A u \in Callers \ {t} : pc'[u] = pc[u]
  BY <1>1, Goes
<1>3. TypeOKBridge' /\ BridgeInv' /\ UNCHANGED Line
  <2> DEFINE T == {t}
  <2>1. /\ T \in SUBSET Callers
        /\ (\E c \in T : Resumed(c) \/ CloseBridge(c)) \/ UNCHANGED bridgeVars
        /\ \A u \in T : call[u] # "waiting" \/ \A o \in Operations : ~Expects(u, o)
        /\ \A u \in Callers \ T : pc'[u] = pc[u]
    BY <1>1, <1>2 DEF Returned, Results
  <2> HIDE DEF T
  <2> QED
    BY <2>1, BridgeResumes
<1>4. /\ UNCHANGED <<loop, state, worker, pending, blocked>> /\ (closed => closed')
      /\ \A u \in Callers \ {t} : call'[u] = call[u]
  BY <1>1 DEF Resumed, CloseBridge, queueVars, coreVars, TypeOKBridge
<1>5. InMap'
  BY <1>2, <1>3, <1>4, ApplicationMap
<1> QED
  BY <1>2, <1>3, <1>4, <1>5

LEMMA ApplicationLife ==
  ASSUME LifeInv, Application
  PROVE  LifeInv'
<1>1. "client" \in Callers /\ "user" \in Callers
  BY TheTasks
<1>2. {"connecting", "open", "failed", "calling", "finished", "closing", "closed", "idle"}
        \subseteq Places
  BY DEF Places
<1>3. CASE Connect
  <2>1. /\ At("client", "new") /\ state = "NOT_STARTED" /\ state' = "RUNNING"
        /\ Sent("client", "initialize_client") /\ Go("client", "connecting")
    BY <1>3 DEF Connect, start, initialize_client
  <2>2. pc'["client"] = "connecting"
    BY <1>1, <1>2, <2>1, Goes DEF LifeInv
  <2>3. /\ \A p \in Operations : ~Expects("client", p)
        /\ Expects("client", "initialize_client")'
    BY <2>1, <2>2 DEF Expects, At
  <2>4. /\ Types' /\ BridgeInv' /\ InMap' /\ UNCHANGED <<asked, loop, closed>>
        /\ \A u \in Callers \ {"client"} : pc'[u] = pc[u]
    BY <1>2, <2>1, <2>3, ApplicationSends
  <2>5. ~Opened /\ ~closed /\ pc'["user"] = pc["user"] /\ ~At("user", "closing")
    BY <1>1, <2>1, <2>4 DEF Opened, At, LifeInv, Phases
  <2>6. Phases'
    BY <2>1, <2>2, <2>4, <2>5, ApplicationPhases DEF At
  <2> QED
    BY <2>4, <2>6 DEF LifeInv
<1>4. CASE Connected
  <2>1. PICK w \in {"open", "failed"} : Go("client", w)
    BY <1>4 DEF Connected
  <2>2. At("client", "connecting") /\ Returned("client") /\ Resumed("client")
    BY <1>4 DEF Connected
  <2>3. /\ Types' /\ BridgeInv' /\ InMap' /\ pc'["client"] = w
        /\ UNCHANGED <<asked, loop, state, closed>>
        /\ \A u \in Callers \ {"client"} : pc'[u] = pc[u]
    BY <1>2, <2>1, <2>2, ApplicationResumes DEF Resumed, queueVars
  <2>4. ~Opened /\ pc'["user"] = pc["user"] /\ state # "NOT_STARTED"
    BY <1>1, <2>2, <2>3 DEF Opened, At, LifeInv, Phases
  <2>5. Phases'
    BY <2>1, <2>3, <2>4, ApplicationPhases DEF LifeInv, Phases, At
  <2> QED
    BY <2>3, <2>5 DEF LifeInv
<1>5. CASE Use
  <2>1. /\ At("user", "idle") /\ Sent("user", "rpc") /\ Go("user", "calling")
        /\ state = "RUNNING" /\ state' = "RUNNING"
    BY <1>5 DEF Use, ClientCall, Call, Accepts
  <2>2. pc'["user"] = "calling"
    BY <1>1, <1>2, <2>1, Goes DEF LifeInv
  <2>3. (\A p \in Operations : ~Expects("user", p)) /\ Expects("user", "rpc")'
    BY <2>1, <2>2 DEF Expects, At
  <2>4. /\ Types' /\ BridgeInv' /\ InMap' /\ UNCHANGED <<asked, loop, closed>>
        /\ \A u \in Callers \ {"user"} : pc'[u] = pc[u]
    BY <1>2, <2>1, <2>3, ApplicationSends
  <2>5. pc'["client"] = pc["client"] /\ (Opened => Opened')
    BY <1>1, <2>4 DEF Opened
  <2>6. Phases'
    BY <2>1, <2>2, <2>4, <2>5, ApplicationPhases DEF LifeInv, Phases, At
  <2> QED
    BY <2>4, <2>6 DEF LifeInv
<1>6. CASE Used
  <2>1. /\ At("user", "calling") /\ Returned("user") /\ Resumed("user") /\ Go("user", "finished")
    BY <1>6 DEF Used
  <2>2. /\ Types' /\ BridgeInv' /\ InMap' /\ pc'["user"] = "finished"
        /\ UNCHANGED <<asked, loop, state, closed>>
        /\ \A u \in Callers \ {"user"} : pc'[u] = pc[u]
    BY <1>2, <2>1, ApplicationResumes DEF Resumed, queueVars
  <2>3. pc'["client"] = pc["client"] /\ (Opened => Opened')
    BY <1>1, <2>2 DEF Opened
  <2>4. Phases'
    BY <2>2, <2>3, ApplicationPhases DEF LifeInv, Phases, At
  <2> QED
    BY <2>2, <2>4 DEF LifeInv
<1>7. ASSUME NEW t \in {"client", "user"}, close(t) PROVE LifeInv'
  <2>1. /\ pc[t] \in {"open", "idle"} /\ Opened /\ Sent(t, "finalize_bridge") /\ Go(t, "closing")
        /\ state' = "SHUTDOWN" /\ ~closed /\ (t = "user" => At("user", "idle"))
        /\ (t = "client" => At("client", "open"))
    BY <1>7 DEF close, shutdown, At, Opened
  <2>2. pc'[t] = "closing" /\ \A u \in Callers \ {t} : pc'[u] = pc[u]
    BY <1>1, <1>2, <2>1, Goes DEF LifeInv
  <2>3. (\A p \in Operations : ~Expects(t, p)) /\ Expects(t, "finalize_bridge")'
    BY <2>1, <2>2 DEF Expects, At
  <2>4. Types' /\ BridgeInv' /\ InMap' /\ UNCHANGED <<asked, loop, closed>>
    BY <1>2, <2>1, <2>3, ApplicationSends
  <2>5. Opened' /\ pc'["client"] # "new"
    BY <1>1, <2>1, <2>2 DEF Opened
  <2>6. Phases'
    BY <2>1, <2>2, <2>4, <2>5, ApplicationPhases
  <2> QED
    BY <2>4, <2>6 DEF LifeInv
<1>8. ASSUME NEW t \in {"client", "user"}, Closed(t) PROVE LifeInv'
  <2>1. PICK w \in {"idle", "closed"} : Go(t, w) /\ (t = "client" => w = "closed")
    BY <1>8 DEF Closed
  <2>2. At(t, "closing") /\ Returned(t) /\ CloseBridge(t) /\ closed' = TRUE
    BY <1>8 DEF Closed, CloseBridge
  <2>3. /\ Types' /\ BridgeInv' /\ InMap' /\ pc'[t] = w
        /\ UNCHANGED <<asked, loop, state>>
        /\ \A u \in Callers \ {t} : pc'[u] = pc[u]
    BY <1>2, <2>1, <2>2, ApplicationResumes
  <2>4. /\ state = "SHUTDOWN" /\ pc["client"] # "new"
    BY <2>2 DEF LifeInv, Phases, At
  <2>5. (Opened => Opened') /\ pc'["client"] # "new"
    BY <1>1, <2>1, <2>3, <2>4 DEF Opened
  <2>6. Phases'
    BY <2>2, <2>3, <2>4, <2>5, ApplicationPhases
  <2> QED
    BY <2>3, <2>6 DEF LifeInv
<1> QED
  BY <1>3, <1>4, <1>5, <1>6, <1>7, <1>8 DEF Application

\* An answer reaches its caller.
LEMMA EventSetLife ==
  ASSUME LifeInv, EventSet
  PROVE  LifeInv'
<1> USE DEF LifeInv, Types
<1>1. /\ deliver_result /\ UNCHANGED <<pc, asked, cancelled>>
      /\ UNCHANGED <<state, closed, loop, worker>>
  BY DEF EventSet, deliver_result, queueVars, coreVars
<1>2. TypeOKBridge' /\ BridgeInv' /\ UNCHANGED <<Line, pending>>
  BY <1>1, TypeGoesOn, BridgeDelivers
<1>3. Phases'
  BY <1>1 DEF Phases, Quiet, Opened, At
<1>4. /\ \A r \in Results : AnsweredWith("main", r)' => AnsweredWith("main", r)
      /\ Answered("main")' => Answered("main")
  BY <1>1, TheTasks DEF deliver_result, Answered, AnsweredWith
<1>5. InMap'
  BY <1>1, <1>2, <1>4, MapKept
<1> QED
  BY <1>1, <1>2, <1>3, <1>5

\* A spawned task begins.  Nothing in the line is behind its worker's finalize.
LEMMA BeginMap ==
  ASSUME LifeInv, BeginTask, UNCHANGED pc
  PROVE  InMap'
<1> USE DEF LifeInv, Types
<1>1. /\ spawned # <<>> /\ spawned' = Tail(spawned) /\ blocked = NoDelivery
      /\ UNCHANGED <<call, closed, loop, channel>>
  BY DEF BeginTask, BeginClientCall, BeginCreateWorker, BeginWorkerOp, BeginInitiate, RustFree,
         BeginFinalize, BeginFinalizeBridge, Begin, BeginVars, pyVars
<1>2. /\ Line \in Seq(Request) /\ Line # <<>> /\ Task = Head(Line) /\ Line' = Tail(Line)
  BY <1>1, LineType, LineBegun
<1>3. /\ InQueue(Line) = {Task} \cup InQueue(Line)'
      /\ \A x \in InQueue(Line)' : Apart(Task, x)
  BY <1>2, Taken DEF BridgeInv, OneEach
<1>4. Task.by = "main" => Expects("main", Task.op)
  BY <1>3, TheTasks, NobodyAssumption DEF BridgeInv, Matched, Traffic
<1>5. Task \in Request
  BY <1>3, TrafficType
<1>6. ASSUME NEW r \in Results, Deliver(Task, r)
      PROVE  /\ blocked' # NoDelivery /\ blocked'.by = Task.by /\ blocked'.result = r
  <2>1. blocked' \in Delivery
    BY <1>5, <1>6, DeliverType
  <2> QED
    BY <1>6, <2>1, NobodyAssumption DEF Deliver
<1>7. CASE BeginClientCall \/ BeginInitiate \/ BeginFinalizeBridge \/ BeginWorkerOp
  <2>1. /\ UNCHANGED worker
        /\ Task.op \notin {"create_worker", "finalize_shutdown"}
        /\ pending' \in {pending, pending \cup {Task}}
        /\ UNCHANGED blocked \/ \E r \in Results : Deliver(Task, r)
    BY <1>7 DEF BeginClientCall, BeginInitiate, BeginFinalizeBridge, BeginWorkerOp, Begin, Await,
                coreVars, Task, WorkerOps, Polls, Completes, Results
  <2>2. Task.by # "main"
    BY <1>4, <2>1 DEF Expects
  <2>3. blocked' # NoDelivery => blocked'.by # "main"
    BY <1>1, <1>6, <2>1, <2>2
  <2>4. /\ \A r \in Results : AnsweredWith("main", r)' => AnsweredWith("main", r)
        /\ Answered("main")' => Answered("main")
    BY <1>1, <2>3 DEF Answered, AnsweredWith
  <2>5. \A x \in InQueue(Line)' : x \in InQueue(Line)
    BY <1>3
  <2>6. \A x \in pending' : x \in pending \/ x.op # "finalize_shutdown"
    BY <2>1
  <2> QED
    BY <1>1, <2>1, <2>4, <2>5, <2>6 DEF InMap, At, During, Results
<1>8. CASE BeginCreateWorker
  <2>1. Task.op = "create_worker" /\ worker = "absent"
    BY <1>3, <1>8 DEF BeginCreateWorker, Begin, Task, InMap
  <2>2. \/ At("main", "creating") /\ Task.by = "main"
        \/ At("main", "gone") /\ Task.by = Nobody
    BY <1>3, <2>1 DEF InMap
  <2>3. /\ UNCHANGED <<pending, closed, loop>>
        /\ \/ Deliver(Task, "ok") /\ worker' = "set"
           \/ Deliver(Task, "error") /\ worker' = worker
    BY <1>8 DEF BeginCreateWorker, BeginVars, coreVars
  <2>4. \A x \in InQueue(Line)' : x.op # "create_worker" /\ x \in InQueue(Line)
    BY <1>3, <2>1 DEF Apart
  <2>5. \A x \in pending : x.op # "finalize_shutdown"
    BY <2>1 DEF InMap
  <2>6. call["main"] \notin Results \/ At("main", "gone")
    <3>1. Task.by = "main" => call["main"] = "waiting"
      BY <1>3, TheTasks, NobodyAssumption DEF BridgeInv, Matched, Traffic
    <3> QED
      BY <2>2, <3>1 DEF Results
  <2>7. /\ At("main", "creating") /\ AnsweredWith("main", "ok")' => worker' = "set"
        /\ At("main", "creating") /\ AnsweredWith("main", "error")' => worker' # "set"
    <3>1. Deliver(Task, "ok") => blocked'.result = "ok"
      BY <1>6 DEF Results
    <3>2. Deliver(Task, "error") => blocked'.result = "error"
      BY <1>6 DEF Results
    <3> QED
      BY <1>1, <2>1, <2>3, <2>6, <3>1, <3>2 DEF AnsweredWith, Results, At
  <2> QED
    BY <1>1, <2>1, <2>2, <2>3, <2>4, <2>5, <2>7 DEF InMap, At, After, During
<1>9. CASE BeginFinalize
  <2>1. Task.op = "finalize_shutdown" /\ pc["main"] \in After
    BY <1>3, <1>9 DEF BeginFinalize, Begin, Task, InMap
  <2>2. /\ worker' # "set"
        /\ \/ worker' = worker /\ pending' = pending
           \/ worker = "set" /\ worker' = "removed" /\ pending' \in {pending, pending \cup {Task}}
    BY <1>9 DEF BeginFinalize, coreVars
  <2>3. \A x \in InQueue(Line)' : x.op \notin Completes /\ x \in InQueue(Line)
    BY <1>3, <2>1 DEF Apart
  <2>4. \A x \in InQueue(Line) : x.op = "create_worker" => worker = "absent"
    BY DEF InMap
  <2>5. \A x \in pending' : x.op = "finalize_shutdown" => worker' = "removed"
    BY <2>2 DEF InMap
  <2>6. \A x \in InQueue(Line)' : x.op = "create_worker" => worker' = "absent" /\ x.by = Nobody
                                                             /\ At("main", "gone")
    BY <2>1, <2>2, <2>3, <2>4 DEF InMap, After, At
  <2> QED
    BY <1>1, <2>1, <2>2, <2>3, <2>5, <2>6 DEF InMap, At, After, During
<1> QED
  BY <1>7, <1>8, <1>9 DEF BeginTask

LEMMA RustLife ==
  ASSUME LifeInv, Rust, UNCHANGED <<pc, asked, cancelled>>
  PROVE  LifeInv'
<1> USE DEF LifeInv, Types
<1>1. TypeOKBridge' /\ BridgeInv'
  BY TypeRust, BridgeRust
<1>2. CASE Receive
  <2>1. UNCHANGED <<Line, state, call, closed, loop, worker, pending, blocked>>
    BY <1>2, LineReceived DEF Receive, pyVars, coreVars
  <2>2. Phases' /\ InMap'
    BY <2>1 DEF Phases, InMap, Quiet, Opened, At, Answered, AnsweredWith
  <2> QED
    BY <1>1, <2>2
<1>3. CASE ExitLoop
  <2>1. /\ pending' = {} /\ UNCHANGED <<blocked, state, call, closed>> /\ loop' = "exited" /\ closed
        /\ spawned' = <<>> /\ channel' = <<>>
        /\ worker' = IF worker = "set" THEN "removed" ELSE worker
    BY <1>3 DEF ExitLoop, pyVars
  <2>2. InQueue(Line)' = {}
    BY <2>1, ConcatEmptySeq, EmptySeq DEF Line, InQueue
  <2>3. Phases'
    BY <2>1 DEF Phases, Quiet, Opened, At
  <2>4. InMap'
    BY <2>1, <2>2 DEF InMap, At, Answered, AnsweredWith
  <2> QED
    BY <1>1, <2>3, <2>4
<1>4. CASE BeginTask
  <2>1. UNCHANGED <<state, closed, loop>>
    BY <1>4 DEF BeginTask, BeginClientCall, BeginCreateWorker, BeginWorkerOp, BeginInitiate,
                BeginFinalize, BeginFinalizeBridge, BeginVars, pyVars
  <2>2. Phases'
    BY <2>1 DEF Phases, Quiet, Opened, At
  <2> QED
    BY <1>1, <1>4, <2>2, BeginMap
<1>5. ASSUME NEW q \in pending, CoreAnswers(q) PROVE LifeInv'
  <2>1. /\ UNCHANGED <<Line, worker, call, state, closed, loop>>
        /\ pending' = pending \ {q} /\ blocked = NoDelivery /\ q \in Request
    BY <1>5, TypeAnswers DEF RustFree, TypeOKBridge
  <2>2. PICK r \in Results : Deliver(q, r)
    BY <1>5, TypeAnswers
  <2>3. blocked'.by = q.by
    BY <2>2 DEF Deliver
  <2>4. q.by = "main" => pc["main"] \in {"finalizing", "recovering"} /\ worker # "set"
    <3>1. q.by = "main" => Expects("main", q.op)
      BY TheTasks, NobodyAssumption DEF BridgeInv, Matched, Traffic
    <3>2. q.op # "create_worker"
      BY DEF BridgeInv, Awaiting, WorkerOps, Polls, Completes
    <3> QED
      BY <3>1, <3>2 DEF Expects, InMap, At
  <2>5. Phases'
    BY <2>1 DEF Phases, Quiet, Opened, At
  <2>6. InMap'
    <3>1. At("main", "creating") =>
            \A s \in Results : AnsweredWith("main", s)' => AnsweredWith("main", s)
      BY <2>1, <2>3, <2>4 DEF AnsweredWith, At
    <3>2. pc["main"] \in {"finalizing", "recovering"} /\ Answered("main")' =>
            Answered("main") \/ worker # "set"
      BY <2>1, <2>3, <2>4 DEF Answered
    <3> QED
      BY <2>1, <3>1, <3>2, MapKept
  <2> QED
    BY <1>1, <2>5, <2>6
<1> QED
  BY <1>2, <1>3, <1>4, <1>5 DEF Rust

-----------------------------------------------------------------------------
(* The theorems.                                                           *)

LEMMA LifeInit ==
  ASSUME Init
  PROVE  LifeInv
<1>1. /\ InitBridge /\ asked = "no" /\ cancelled = {} /\ pc \in [Callers -> Places]
      /\ pc["main"] = "new" /\ pc["client"] = "new" /\ pc["user"] = "idle"
      /\ \A t \in Nursery : pc[t] = "none"
  <2>1. \A t \in Callers : pc[t] = CASE t \in {"main", "client"} -> "new"
                                     [] t = "user" -> "idle" [] OTHER -> "none"
    BY DEF Init
  <2>2. /\ pc["main"] = "new" /\ pc["client"] = "new" /\ pc["user"] = "idle"
        /\ \A t \in Nursery : pc[t] = "none"
    BY <2>1, TheTasks DEF Nursery
  <2>3. pc \in [Callers -> Places]
    <3>1. \A t \in Callers : pc[t] \in Places
      BY <2>2, TheTasks DEF Places
    <3> QED
      BY <3>1 DEF Init
  <2> QED
    BY <2>2, <2>3 DEF Init
<1>2. InQueue(Line) = {} /\ InOrder(Line) /\ Traffic = {} /\ \A c \in Callers : call[c] = "none"
  <2>1. Line = <<>>
    BY <1>1, ConcatEmptySeq, EmptySeq DEF InitBridge, Line
  <2>2. InQueue(Line) = {} /\ InOrder(Line)
    BY <2>1, EmptySeq DEF InQueue, InOrder
  <2> QED
    BY <1>1, <2>2 DEF InitBridge, Traffic
<1>3. Types
  BY <1>1, EmptySeq DEF Types, TypeOKBridge, InitBridge
<1>4. BridgeInv
  BY <1>1, <1>2 DEF InitBridge, BridgeInv, Matched, OneEach, Awaiting, OwedWhileOpen
<1>5. Phases
  BY <1>1 DEF InitBridge, Phases, Before, During, After, At, Quiet
<1>6. InMap
  BY <1>1, <1>2 DEF InitBridge, InMap, At, During
<1> QED
  BY <1>3, <1>4, <1>5, <1>6 DEF LifeInv

LEMMA LifeStep ==
  ASSUME LifeInv, [Next]_vars
  PROVE  LifeInv'
<1>1. CASE UNCHANGED vars
  <2>1. /\ UNCHANGED <<state, finalized, call, closed, loop, channel, spawned, pending>>
        /\ UNCHANGED <<blocked, worker, core, out, pc, asked, cancelled>>
    BY <1>1 DEF vars, bridgeVars, pyVars, queueVars, coreVars
  <2>2. UNCHANGED <<bridgeVars, Line, Traffic>>
    BY <2>1 DEF bridgeVars, pyVars, queueVars, coreVars, Line, Traffic
  <2>3. Types' /\ Phases'
    BY <2>1 DEF LifeInv, Types, TypeOKBridge, Phases, Quiet, Opened, At
  <2>4. BridgeInv'
    <3> DEFINE T == {}
    <3>1. /\ T \in SUBSET Callers /\ \A u \in Callers \ T : pc'[u] = pc[u]
          /\ \A t \in T : call[t] # "waiting" \/ \A o \in Operations : ~Expects(t, o)
      BY <2>1
    <3> HIDE DEF T
    <3> QED
      BY <2>2, <3>1, BridgeResumes DEF LifeInv, Types
  <2>5. InMap'
    BY <2>1, <2>2 DEF LifeInv, InMap, At, Answered, AnsweredWith
  <2> QED
    BY <2>3, <2>4, <2>5 DEF LifeInv
<1> QED
  BY <1>1, ApplicationLife, WorkerLife, DispatcherLife, ActivitiesLife, EventSetLife, RustLife
     DEF Next, Trio

LEMMA Life == Spec => []LifeInv
<1>1. Init => LifeInv
  BY LifeInit
<1>2. LifeInv /\ [Next]_vars => LifeInv'
  BY LifeStep
<1> QED
  BY <1>1, <1>2, PTL DEF Spec

(* Every variable has its type, of the bridge and of the tasks on it       *)
(* (_async_bridge.py, _worker.py).                                         *)
THEOREM LifecycleTypes == Spec => []TypeOK
<1>1. Init => lost \subseteq Tasks
  BY DEF Init
<1>2. lost \subseteq Tasks /\ [Next]_vars => (lost \subseteq Tasks)'
  <2> SUFFICES ASSUME lost \subseteq Tasks, [Next]_vars PROVE lost' \subseteq Tasks
    OBVIOUS
  <2>1. \E K \in SUBSET Tasks : lost' = lost \cup K
    <3> USE DEF Go, Wait
    <3> DEFINE Kept == UNCHANGED lost
    <3>1. Application \/ EventSet \/ (Rust /\ UNCHANGED lost) => Kept
      BY DEF Application, Connect, Connected, Use, Used, close, Closed, EventSet
    <3>2. Worker => Kept
      BY DEF Worker, Run, Created, Stop, Leave, Finalize, Finalized, Unwind, CleanUp, Recovered,
             Crash, CancelRun, Gone, Shutdown, SubWorkerStops, CancelNurseries
    <3>3. Dispatcher => Kept \/ lost' = lost \cup {"workflow"}
      BY DEF Dispatcher, PollActivation, ActivationPolled, CompleteActivation, ActivationCompleted,
             DispatcherCancelled, Drop, GoWithout
    <3>4. Activities => Kept \/ lost' = lost \cup {"activity"}
      BY DEF Activities, PollActivity, ActivityPolled, RetryPoll, PollerCancelled,
             CompleteActivity, ActivityCompleted, GoWithout
    <3>5. Kept => lost' = lost \cup {}
      OBVIOUS
    <3> QED
      BY <3>1, <3>2, <3>3, <3>4, <3>5 DEF Next, Trio, Tasks, vars
  <2> QED
    BY <2>1
<1> QED
  BY <1>1, <1>2, Life, PTL DEF Spec, LifeInv, Types, TypeOK

(* While the Rust loop runs, whoever waits for the bridge has a request on *)
(* its way or in its callback: no answer gets lost, whichever calls are    *)
(* given up, refused or fail (bridge.rs:157-206).                          *)
THEOREM NoAnswerLost == Spec => []OwedWhileOpen
BY Life, PTL DEF LifeInv, BridgeInv

(* A completion that was sent finds its worker in the bridge's map, and no *)
(* finalize_shutdown is before it in the queues (_worker.py:387-399).      *)
THEOREM CompletionsInTime == Spec => []CompletionsFindWorker
<1>1. LifeInv => CompletionsFindWorker
  <2> SUFFICES ASSUME LifeInv, NEW i \in DOMAIN Line, Line[i].op \in Completes
               PROVE  /\ worker = "set"
                      /\ \A j \in 1..(i-1) : Line[j].op # "finalize_shutdown"
    BY DEF CompletionsFindWorker, Line
  <2>1. worker = "set"
    BY DEF LifeInv, InMap, InQueue
  <2>2. ASSUME NEW j \in 1..(i-1) PROVE Line[j].op # "finalize_shutdown"
    <3>1. DOMAIN Line = 1..Len(Line) /\ Len(Line) \in Nat
      BY LineType, LenProperties DEF LifeInv, Types
    <3>2. j \in DOMAIN Line /\ j < i
      BY <3>1
    <3> QED
      BY <3>2 DEF LifeInv, BridgeInv, OneEach, InOrder, Apart
  <2> QED
    BY <2>1, <2>2
<1> QED
  BY <1>1, Life, PTL

(* When run has returned or failed, the worker is out of the bridge's map, *)
(* unless the bridge closed before (_worker.py:393, 397-406).              *)
THEOREM RunReleasesWorker == Spec => []WorkerReleased
<1>1. LifeInv => WorkerReleased
  BY DEF LifeInv, InMap, WorkerReleased
<1> QED
  BY <1>1, Life, PTL

-----------------------------------------------------------------------------
(* The tasks that Core hands out.                                          *)

UnderWay == InQueue(Line) \cup pending

\* A step that leaves the loops and their answers alone, while it matters.
LEMMA HandKept ==
  ASSUME HandInv, cancelled' = {} => cancelled = {},
         cancelled' = {} => \A x \in UnderWay' : x \in UnderWay \/ x.op \notin WorkerOps,
         pc'["main"] \in Ending => cancelled' # {},
         pc'["main"] \in Idle /\ cancelled' = {} => pc["main"] \in Idle,
         UNCHANGED <<out, lost>>,
         Undisturbed' =>
           /\ Undisturbed
           /\ \A t \in Nursery :
                /\ pc'[t] = pc[t] /\ (Answered(t)' => Answered(t))
                /\ \A r \in {"task", "error"} : AnsweredWith(t, r) => AnsweredWith(t, r)'
  PROVE  HandInv'
<1> USE DEF HandInv, UnderWay
<1>1. ASSUME Undisturbed'
      PROVE  /\ "workflow" \in out \ lost => Holding("workflow", "workflow", "dispatching")'
             /\ "activity" \in out \ lost => Holding("act", "activity", "running")'
  BY <1>1 DEF Holding, At, Nursery
<1> QED
  BY <1>1

\* What is under way after a task went on, or sent a request.
LEMMA UnderWayKept ==
  ASSUME LifeInv,
         \/ \E c \in Callers : Resumed(c) \/ CloseBridge(c)
         \/ deliver_result
         \/ UNCHANGED bridgeVars
  PROVE  UNCHANGED UnderWay
BY TypeGoesOn DEF LifeInv, Types, UnderWay

LEMMA UnderWaySent ==
  ASSUME LifeInv, NEW c \in Callers \cup {Nobody}, NEW o \in Operations, Sent(c, o),
         state' \in {"NOT_STARTED", "RUNNING", "SHUTDOWN"}
  PROVE  UnderWay' = UnderWay \cup {NewRequest(c, o)}
<1>1. /\ TypeOKBridge /\ Line' = Append(Line, NewRequest(c, o)) /\ NewRequest(c, o) \in Request
  BY TypeSent DEF LifeInv, Types
<1>2. InQueue(Line)' = InQueue(Line) \cup {NewRequest(c, o)}
  BY <1>1, LineType, Appended
<1>3. UNCHANGED pending
  BY DEF Sent, Queue
<1> QED
  BY <1>2, <1>3 DEF UnderWay

\* What a step of the application is to the worker's loops.
AsideOf(t) ==
  /\ \E w : Go(t, w)
  /\ \/ /\ \E o \in Operations \ WorkerOps : Sent(t, o)
        /\ state' \in {"RUNNING", "SHUTDOWN"}
        /\ state' = "RUNNING" => state \in {"NOT_STARTED", "RUNNING"}
     \/ (Resumed(t) \/ CloseBridge(t)) /\ UNCHANGED state

LEMMA ApplicationHand ==
  ASSUME LifeInv, HandInv, Application
  PROVE  HandInv'
<1>1. PICK t \in {"client", "user"} : AsideOf(t)
  <2>1. {"rpc", "initialize_client", "finalize_bridge"} \subseteq Operations \ WorkerOps
    BY DEF Operations, WorkerOps, Polls, Completes
  <2>2. Connect => AsideOf("client")
    BY <2>1 DEF Connect, start, initialize_client, AsideOf
  <2>3. Use => AsideOf("user")
    BY <2>1 DEF Use, ClientCall, Call, Accepts, AsideOf
  <2>4. (Connected => AsideOf("client")) /\ (Used => AsideOf("user"))
    BY DEF Connected, Used, Resumed, AsideOf
  <2>5. \A t \in {"client", "user"} : close(t) => AsideOf(t)
    BY <2>1 DEF close, shutdown, AsideOf
  <2>6. \A t \in {"client", "user"} : Closed(t) => AsideOf(t)
    BY DEF Closed, CloseBridge, AsideOf
  <2> QED
    BY <2>2, <2>3, <2>4, <2>5, <2>6 DEF Application
<1>2. /\ UNCHANGED <<cancelled, lost>> /\ pc'["main"] = pc["main"]
      /\ \A u \in Nursery : pc'[u] = pc[u]
  BY <1>1, TheTasks DEF AsideOf, Go, LifeInv, Types, Nursery
<1>3. /\ UNCHANGED <<blocked, out>> /\ \A u \in Nursery : call'[u] = call[u]
  BY <1>1, TheTasks DEF AsideOf, Sent, Queue, Resumed, CloseBridge, coreVars, Nursery, LifeInv,
                        Types, TypeOKBridge
<1>4. \A x \in UnderWay' : x \in UnderWay \/ x.op \notin WorkerOps
  <2>1. CASE \E o \in Operations \ WorkerOps : Sent(t, o) /\ state' \in {"RUNNING", "SHUTDOWN"}
    BY <2>1, TheTasks, UnderWaySent DEF NewRequest
  <2>2. CASE Resumed(t) \/ CloseBridge(t)
    BY <2>2, TheTasks, UnderWayKept
  <2> QED
    BY <1>1, <2>1, <2>2 DEF AsideOf
<1>5. Undisturbed' => Undisturbed
  <2>1. Undisturbed' => pc["main"] \in {"running", "sleeping"} /\ state' = "RUNNING"
    BY <1>2 DEF Undisturbed
  <2>2. pc["main"] \in {"running", "sleeping"} => state # "NOT_STARTED"
    BY DEF LifeInv, Phases, Opened, At
  <2> QED
    BY <1>1, <1>2, <2>1, <2>2 DEF AsideOf, Undisturbed
<1>6. pc["main"] \in Ending => cancelled # {}
  BY DEF HandInv
<1> QED
  BY <1>2, <1>3, <1>4, <1>5, <1>6, HandKept DEF Answered, AnsweredWith, Nursery

LEMMA WorkerHand ==
  ASSUME LifeInv, HandInv, Worker
  PROVE  HandInv'
<1>1. {"create_worker", "finalize_shutdown", "initiate_shutdown"} \subseteq Operations \ WorkerOps
      /\ "main" \in Callers
  BY TheTasks DEF Operations, WorkerOps, Polls, Completes
<1> DEFINE SameOps == \A x \in UnderWay' : x \in UnderWay \/ x.op \notin WorkerOps
<1>2. ASSUME Go("main", pc'["main"]), ~Undisturbed', UNCHANGED out, SameOps,
             pc'["main"] \in Ending => cancelled # {},
             pc'["main"] \in Idle /\ cancelled = {} => pc["main"] \in Idle
      PROVE  HandInv'
  BY <1>2, HandKept DEF Go
<1>3. ASSUME NEW w, Go("main", w) PROVE pc'["main"] = w /\ Go("main", pc'["main"])
  BY <1>1, <1>3 DEF Go, LifeInv, Types
<1>4. ASSUME NEW c \in {"main", Nobody}, NEW o \in Operations \ WorkerOps, Sent(c, o), UNCHANGED state
      PROVE  SameOps /\ UNCHANGED out
  <2>1. state' \in {"NOT_STARTED", "RUNNING", "SHUTDOWN"}
    BY <1>4 DEF LifeInv, Types, TypeOKBridge
  <2>2. UnderWay' = UnderWay \cup {NewRequest(c, o)}
    BY <1>1, <1>4, <2>1, UnderWaySent
  <2> QED
    BY <1>4, <2>2 DEF NewRequest, Sent, Queue, coreVars
<1>5. ASSUME Resumed("main") \/ UNCHANGED bridgeVars
      PROVE  SameOps /\ UNCHANGED out
  <2>1. UNCHANGED UnderWay
    BY <1>1, <1>5, UnderWayKept
  <2> QED
    BY <1>5, <2>1 DEF Resumed, bridgeVars, coreVars
<1> HIDE DEF SameOps
<1>0. pc["main"] \in Ending => cancelled # {}
  BY DEF HandInv
<1>6. CASE Created
  <2>1. /\ pc["main"] = "creating" /\ UNCHANGED out /\ SameOps
        /\ UNCHANGED <<asked, cancelled, lost>>
    BY <1>5, <1>6 DEF Created, At, Go
  <2>2. pc'["main"] \in {"running", "failed"}
    BY <1>3, <1>6, TheTasks DEF Created, LifeInv, Types, Nursery
  <2>3. \A x \in UnderWay' : x \in UnderWay \/ x.op \notin WorkerOps
    BY <2>1 DEF SameOps
  <2>4. cancelled = {} => out = {} /\ \A x \in UnderWay : x.op \notin WorkerOps
    BY <2>1 DEF HandInv, UnderWay, Idle, Before
  <2>5. pc'["main"] \notin Ending
    BY <2>2 DEF Ending
  <2> QED
    BY <2>1, <2>3, <2>4, <2>5 DEF HandInv, UnderWay, Undisturbed
<1>7. CASE Run
  <2>1. CASE create_worker("main") /\ Go("main", "creating")
    BY <1>1, <1>2, <1>0, <1>3, <1>4, <1>7, <2>1 DEF Run, create_worker, Call, Undisturbed, Before, Idle, Ending, At
  <2>2. CASE Refused("create_worker") /\ Go("main", "failed")
    BY <1>0, <1>2, <1>3, <1>5, <2>2, <1>7
       DEF Run, Refused, Undisturbed, Before, Idle, Ending, At
  <2> QED
    BY <1>7, <2>1, <2>2 DEF Run
<1>8. CASE Stop
  <2>1. pc'["main"] = "sleeping" /\ Go("main", pc'["main"])
    BY <1>3, <1>8 DEF Stop
  <2>2. UNCHANGED <<pending, out>>
        /\ Line' \in {Line, Append(Line, NewRequest(Nobody, "initiate_shutdown"))}
    BY <1>8, TypeInitiated DEF Stop, initiate_shutdown, Queue, coreVars, LifeInv, Types
  <2>3. NewRequest(Nobody, "initiate_shutdown") \in Request /\ Line \in Seq(Request)
    BY <1>1, LineType DEF NewRequest, Request, LifeInv, Types
  <2>4. InQueue(Line)' \subseteq InQueue(Line) \cup {NewRequest(Nobody, "initiate_shutdown")}
    BY <2>2, <2>3, Appended
  <2>5. SameOps
    BY <1>1, <2>2, <2>4 DEF SameOps, UnderWay, NewRequest
  <2>6. /\ pc["main"] = "running" /\ UNCHANGED <<cancelled, lost, state, call, blocked>>
        /\ \A t \in Nursery : pc'[t] = pc[t]
    BY <1>8, TheTasks DEF Stop, At, Go, initiate_shutdown, Queue, LifeInv, Types, Nursery
  <2>7. \A x \in UnderWay' : x \in UnderWay \/ x.op \notin WorkerOps
    BY <2>5 DEF SameOps
  <2>8. pc'["main"] \notin Ending \cup Idle
    BY <2>1 DEF Ending, Idle, Before
  <2>9. Undisturbed' => Undisturbed
    BY <2>6 DEF Undisturbed
  <2> QED
    BY <2>2, <2>6, <2>7, <2>8, <2>9, HandKept DEF Answered, AnsweredWith
<1>9. CASE Finalize
  <2>1. CASE finalize_shutdown("main") /\ Go("main", "finalizing")
    BY <1>0, <1>1, <1>2, <1>3, <1>4, <2>1, <1>9
       DEF Finalize, finalize_shutdown, Call, Undisturbed, Before, Idle, Ending, At
  <2>2. CASE Refused("finalize_shutdown") /\ Go("main", "done")
    BY <1>0, <1>2, <1>3, <1>5, <2>2, <1>9
       DEF Finalize, Refused, Undisturbed, Before, Idle, Ending, At
  <2> QED
    BY <1>9, <2>1, <2>2 DEF Finalize
<1>10. CASE Unwind
  <2>1. CASE InitiateAndFinalize("main") /\ Go("main", "recovering")
    <3> DEFINE p == NewRequest(Nobody, "initiate_shutdown")
               q == NewRequest("main", "finalize_shutdown")
    <3>1. Line' = Append(Append(Line, p), q)
      BY <1>1, <2>1, TypeFinalizing DEF LifeInv, Types
    <3>2. p \in Request /\ q \in Request /\ p.op \notin WorkerOps /\ q.op \notin WorkerOps
      BY <1>1 DEF NewRequest, Request
    <3> HIDE DEF p, q
    <3>3. /\ Append(Line, p) \in Seq(Request)
          /\ InQueue(Append(Line, p)) = InQueue(Line) \cup {p}
      BY <3>2, LineType, Appended DEF LifeInv, Types
    <3>4. InQueue(Line)' = InQueue(Line) \cup {p, q}
      <4> DEFINE s == Append(Line, p)
      <4>1. s \in Seq(Request) /\ Line' = Append(s, q) /\ InQueue(s) = InQueue(Line) \cup {p}
        BY <3>1, <3>3
      <4> HIDE DEF s
      <4>2. InQueue(Append(s, q)) = InQueue(s) \cup {q}
        BY <3>2, <4>1, Appended
      <4> QED
        BY <4>1, <4>2
    <3>5. UNCHANGED <<pending, out>>
      BY <2>1 DEF InitiateAndFinalize, Queue, coreVars
    <3>6. SameOps
      BY <3>2, <3>4, <3>5 DEF SameOps, UnderWay
    <3> QED
      BY <1>0, <1>2, <1>3, <2>1, <3>5, <3>6, <1>10
         DEF Unwind, Undisturbed, Before, Idle, Ending, At
  <2>2. CASE Refused("finalize_shutdown") /\ Go("main", "failed")
    BY <1>0, <1>2, <1>3, <1>5, <2>2, <1>10
       DEF Unwind, Refused, Undisturbed, Before, Idle, Ending, At
  <2> QED
    BY <1>10, <2>1, <2>2 DEF Unwind, CleanUp
<1>11. CASE Finalized \/ Recovered \/ Gone
  <2>1. \E w \in {"done", "failed", "gone"} : Go("main", w)
    BY <1>11 DEF Finalized, Recovered, Gone
  <2>2. Resumed("main") \/ UNCHANGED bridgeVars
    BY <1>11 DEF Finalized, Recovered, Gone
  <2> QED
    BY <1>0, <1>2, <1>3, <1>5, <2>1, <2>2, <1>11
       DEF Finalized, Recovered, Gone, Undisturbed, Before, Idle, Ending, At
<1>12. ASSUME NEW scopes \in SUBSET {"workflow", "act"}, scopes # {}, NEW m,
              CancelNurseries(scopes, m), m \notin Before
       PROVE  HandInv'
  <2>1. cancelled' # {} /\ UNCHANGED out
    BY <1>12 DEF CancelNurseries, GiveUp, coreVars
  <2>2. pc'["main"] = m
    BY <1>1, <1>12 DEF CancelNurseries, Nursery
  <2> QED
    BY <1>12, <2>1, <2>2 DEF HandInv, Undisturbed
<1>13. CASE Leave \/ Crash
  <2>1. \E m \in {"leaving", "unwinding"} : CancelNurseries({"workflow", "act"}, m)
    BY <1>13 DEF Leave, Crash
  <2> QED
    BY <1>12, <2>1 DEF Before
<1>14. CASE CancelRun
  <2>1. CASE CancelNurseries({"workflow", "act"}, "abandoning")
    BY <1>12, <2>1 DEF Before
  <2>2. CASE /\ pc["main"] \in {"creating", "finalizing", "recovering"}
             /\ GiveUp({"main"}) /\ Go("main", "gone")
    <3> DEFINE hit == {"main"}
    <3>1. /\ InQueue(Line)' = {Disowned(hit, x) : x \in InQueue(Line)}
          /\ pending' = {Disowned(hit, x) : x \in pending} /\ UNCHANGED out
      <4>1. GiveUp(hit) /\ TypeOKBridge /\ UNCHANGED out
        BY <2>2 DEF LifeInv, Types, GiveUp, coreVars
      <4> HIDE DEF hit
      <4> QED
        BY <4>1, LineGivenUp DEF InQueue
    <3>2. ASSUME NEW y \in UnderWay
          PROVE  Disowned(hit, y) = y \/ Disowned(hit, y).op \notin WorkerOps
      <4>1. y \in Request /\ y \in Traffic
        BY TrafficType DEF UnderWay, LifeInv, Types, TypeOKBridge, Traffic
      <4>2. y.by = "main" => y.op \notin WorkerOps
        BY <1>1, <4>1, NobodyAssumption DEF LifeInv, BridgeInv, Matched, Expects, WorkerOps, Polls,
                                            Completes
      <4> QED
        BY <4>1, <4>2, DisownedType
    <3>3. UnderWay' = {Disowned(hit, y) : y \in UnderWay}
      BY <3>1 DEF UnderWay
    <3>4. SameOps
      BY <3>2, <3>3 DEF SameOps
    <3> QED
      BY <1>0, <1>2, <1>3, <2>2, <3>1, <3>4
         DEF Undisturbed, Before, Idle, Ending, At
  <2> QED
    BY <1>14, <2>1, <2>2 DEF CancelRun
<1>15. CASE Shutdown
  <2>1. UNCHANGED <<bridgeVars, state, call, blocked, pc, cancelled, lost>>
    BY <1>15 DEF Shutdown, bridgeVars, pyVars
  <2>2. Undisturbed' => Undisturbed
    BY <2>1 DEF Undisturbed
  <2> QED
    BY <1>0, <1>5, <2>1, <2>2, HandKept DEF SameOps, Answered, AnsweredWith
<1>16. ASSUME NEW t \in {"workflow", "act"}, SubWorkerStops(t) PROVE HandInv'
  <2>1. /\ {t} \in SUBSET {"workflow", "act"} /\ {t} # {}
        /\ CancelNurseries({t}, pc["main"]) /\ pc["main"] \notin Before
    BY <1>16 DEF SubWorkerStops, LifeInv, Phases
  <2>2. PICK scopes \in SUBSET {"workflow", "act"}, m \in {pc["main"]} :
          scopes # {} /\ CancelNurseries(scopes, m) /\ m \notin Before
    BY <2>1
  <2> QED
    BY <1>12, <2>2
<1> QED
  BY <1>6, <1>7, <1>8, <1>9, <1>10, <1>11, <1>13, <1>14, <1>15, <1>16 DEF Worker

\* A loop or a handler that goes on gets its answer, or nothing is under way for it.
LEMMA NoneBlocked ==
  ASSUME LifeInv, NEW t \in Nursery,
         call[t] # "waiting" \/ \A o \in Operations : ~Expects(t, o)
  PROVE  blocked # NoDelivery => blocked.by # t
<1>1. \A x \in Traffic : x.by # t
  BY TheTasks, NothingDue DEF LifeInv, Types, BridgeInv
<1> QED
  BY <1>1 DEF Traffic

\* A step of one of them, t: what is the same, and what it sends.
LEMMA NurseryStep ==
  ASSUME LifeInv, NEW t \in Nursery, pc'["main"] = pc["main"], UNCHANGED <<asked, cancelled>>,
         \/ Resumed(t)
         \/ UNCHANGED bridgeVars
         \/ \E o \in WorkerOps : Call(Caller(t), o)
  PROVE  /\ UNCHANGED <<state, out, blocked>>
         /\ \A u \in Nursery \ {t} : call'[u] = call[u]
         /\ cancelled = {} => \A x \in UnderWay' : x \in UnderWay \/ x.by # Nobody
<1>1. t \in Callers /\ t # Nobody
  BY TheTasks, NobodyAssumption
<1>2. CASE Resumed(t) \/ UNCHANGED bridgeVars
  <2>1. UNCHANGED UnderWay
    BY <1>1, <1>2, UnderWayKept
  <2>2. UNCHANGED <<state, out, blocked>>
    BY <1>2 DEF Resumed, bridgeVars, pyVars, coreVars
  <2>3. \A u \in Nursery \ {t} : call'[u] = call[u]
    BY <1>2, TheTasks DEF Resumed, bridgeVars, pyVars, LifeInv, Types, TypeOKBridge
  <2> QED
    BY <2>1, <2>2, <2>3
<1>3. ASSUME NEW o \in WorkerOps, Call(Caller(t), o)
      PROVE  /\ UNCHANGED <<state, out, blocked>>
             /\ \A u \in Nursery \ {t} : call'[u] = call[u]
             /\ cancelled = {} => \A x \in UnderWay' : x \in UnderWay \/ x.by # Nobody
  <2>1. /\ Sent(Caller(t), o) /\ UNCHANGED state /\ o \in Operations
        /\ state' \in {"NOT_STARTED", "RUNNING", "SHUTDOWN"}
        /\ Caller(t) \in Callers \cup {Nobody}
    BY <1>1, <1>3 DEF Call, Operations, WorkerOps, Polls, Completes, LifeInv, Types, TypeOKBridge,
                      Caller
  <2>2. UnderWay' = UnderWay \cup {NewRequest(Caller(t), o)}
    BY <2>1, UnderWaySent
  <2>3. cancelled = {} => NewRequest(Caller(t), o).by # Nobody
    BY <1>1 DEF NewRequest, Caller
  <2>4. UNCHANGED <<state, out, blocked>>
    BY <2>1 DEF Sent, Queue, coreVars
  <2>5. \A u \in Nursery \ {t} : call'[u] = call[u]
    BY <1>1, <2>1, TheTasks DEF Sent, Caller, LifeInv, Types, TypeOKBridge
  <2> QED
    BY <2>2, <2>3, <2>4, <2>5
<1> QED
  BY <1>2, <1>3

LEMMA DispatcherHand ==
  ASSUME LifeInv, HandInv, Dispatcher
  PROVE  HandInv'
<1>1. "workflow" \in Nursery /\ "workflow" \in Callers
      /\ {"poll_activation", "complete_activation"} \subseteq WorkerOps
  BY TheTasks DEF Nursery, WorkerOps, Polls, Completes
<1>2. PICK w : Go("workflow", w) \/ GoWithout("workflow", w, "workflow")
  BY DEF Dispatcher, PollActivation, ActivationPolled, CompleteActivation, ActivationCompleted,
         DispatcherCancelled, Wait, Drop
<1>3. /\ UNCHANGED <<asked, cancelled>> /\ pc'["workflow"] = w /\ lost \subseteq lost'
      /\ \A u \in Callers \ {"workflow"} : pc'[u] = pc[u]
  BY <1>1, <1>2 DEF Go, GoWithout, LifeInv, Types
<1>4. \/ Resumed("workflow")
      \/ UNCHANGED bridgeVars
      \/ \E o \in WorkerOps : Call(Caller("workflow"), o)
  BY <1>1 DEF Dispatcher, PollActivation, ActivationPolled, CompleteActivation, ActivationCompleted,
         DispatcherCancelled, poll_workflow_activation, complete_workflow_activation, Refused
<1>5. /\ pc["workflow"] \in {"poll", "polling", "dispatching", "completing"}
      /\ pc["main"] \in During /\ pc'["main"] = pc["main"]
  <2>1. pc["workflow"] \in {"poll", "polling", "dispatching", "completing"}
    BY DEF Dispatcher, PollActivation, ActivationPolled, CompleteActivation, ActivationCompleted,
           DispatcherCancelled, At
  <2> QED
    BY <1>1, <1>3, <2>1, TheTasks, Working DEF LifeInv, Nursery
<1>6. /\ UNCHANGED <<state, out, blocked>>
      /\ \A u \in Nursery \ {"workflow"} : call'[u] = call[u]
      /\ cancelled = {} => \A x \in UnderWay' : x \in UnderWay \/ x.by # Nobody
  BY <1>1, <1>3, <1>4, <1>5, NurseryStep
<1>7. ASSUME Undisturbed, "workflow" \in out \ lost'
      PROVE  Holding("workflow", "workflow", "dispatching")'
  <2>1. Holding("workflow", "workflow", "dispatching") /\ "workflow" \notin lost'
    BY <1>3, <1>7 DEF HandInv
  <2>2. CASE PollActivation
    BY <2>1, <2>2 DEF PollActivation, Holding, At
  <2>3. CASE ActivationPolled
    <3>1. At("workflow", "polling") /\ call["workflow"] \in Results
      BY <2>3 DEF ActivationPolled, Returned
    <3>2. blocked # NoDelivery => blocked.by # "workflow"
      BY <1>1, <3>1, NoneBlocked DEF Results
    <3>3. call["workflow"] = "task"
      BY <2>1, <3>1, <3>2 DEF Holding, AnsweredWith, At
    <3>4. w = "dispatching"
      BY <1>1, <1>3, <2>1, <2>3, <3>3
         DEF ActivationPolled, Answer, Go, Drop, GoWithout, LifeInv, Types
    <3> QED
      BY <1>3, <3>4 DEF Holding, At
  <2>4. CASE CompleteActivation
    <3>1. At("workflow", "dispatching") /\ Accepts("complete_activation")
      BY <1>7, <2>4 DEF CompleteActivation, Accepts, Undisturbed, LifeInv, Phases
    <3>2. Call("workflow", "complete_activation") /\ Go("workflow", "completing")
      BY <1>7, <2>1, <2>4, <3>1
         DEF CompleteActivation, Refused, complete_workflow_activation, Caller, Wait, Undisturbed,
             Drop, GoWithout
    <3>3. pc'["workflow"] = "completing" /\ call'["workflow"] = "waiting"
      BY <1>1, <3>2, TheTasks, NobodyAssumption DEF Go, Call, Sent, LifeInv, Types, TypeOKBridge
    <3>4. blocked # NoDelivery => blocked.by # "workflow"
      BY <1>1, <3>1, NoneBlocked DEF Expects, At
    <3> QED
      BY <1>6, <3>3, <3>4 DEF Holding, Answered, At, Results
  <2>5. CASE ActivationCompleted
    <3>1. At("workflow", "completing") /\ call["workflow"] \in Results
      BY <2>5 DEF ActivationCompleted, Returned
    <3>2. blocked # NoDelivery => blocked.by # "workflow"
      BY <1>1, <3>1, NoneBlocked DEF Results
    <3>3. call["workflow"] = "error"
      BY <2>1, <3>1, <3>2 DEF Holding, Answered, AnsweredWith, At
    <3> QED
      BY <2>1, <2>5, <3>3 DEF ActivationCompleted, Answer, GoWithout
  <2>6. CASE DispatcherCancelled
    BY <1>7, <2>6 DEF DispatcherCancelled, Undisturbed
  <2> QED
    BY <2>2, <2>3, <2>4, <2>5, <2>6 DEF Dispatcher
<1>8. ASSUME Undisturbed, "activity" \in out \ lost'
      PROVE  Holding("act", "activity", "running")'
  <2>1. Holding("act", "activity", "running")
    BY <1>3, <1>8 DEF HandInv
  <2>2. /\ pc'["act"] = pc["act"] /\ pc'["activity"] = pc["activity"]
        /\ call'["act"] = call["act"] /\ call'["activity"] = call["activity"]
    BY <1>3, <1>6, TheTasks DEF Nursery
  <2> QED
    BY <1>6, <2>1, <2>2 DEF Holding, At, Answered, AnsweredWith
<1>9. Undisturbed' => Undisturbed
  BY <1>3, <1>5, <1>6 DEF Undisturbed
<1>10. pc'["main"] \notin Idle
  BY <1>5 DEF Before, During, Idle
<1>11. pc'["main"] \in Ending => cancelled' # {}
  BY <1>3, <1>5 DEF HandInv
<1> QED
  BY <1>3, <1>6, <1>7, <1>8, <1>9, <1>10, <1>11 DEF HandInv, UnderWay

LEMMA ActivitiesHand ==
  ASSUME LifeInv, HandInv, Activities
  PROVE  HandInv'
<1>1. {"act", "activity"} \subseteq Nursery \cap Callers
      /\ {"poll_activity_task", "complete_activity_task"} \subseteq WorkerOps
  BY TheTasks DEF Nursery, WorkerOps, Polls, Completes
<1>2. PICK t \in {"act", "activity"} :
        /\ pc[t] \notin {"none", "ended"}
        /\ \/ Resumed(t)
           \/ UNCHANGED bridgeVars
           \/ \E o \in WorkerOps : Call(Caller(t), o)
  <2>1. PollActivity \/ ActivityPolled \/ RetryPoll \/ PollerCancelled =>
          /\ pc["act"] \notin {"none", "ended"}
          /\ \/ Resumed("act")
             \/ UNCHANGED bridgeVars
             \/ \E o \in WorkerOps : Call(Caller("act"), o)
    BY <1>1 DEF PollActivity, ActivityPolled, RetryPoll, PollerCancelled, Refused, At,
                poll_activity_task
  <2>2. CompleteActivity \/ ActivityCompleted =>
          /\ pc["activity"] \notin {"none", "ended"}
          /\ \/ Resumed("activity")
             \/ UNCHANGED bridgeVars
             \/ \E o \in WorkerOps : Call(Caller("activity"), o)
    BY <1>1 DEF CompleteActivity, ActivityCompleted, Refused, At, complete_activity_task
  <2> QED
    BY <2>1, <2>2 DEF Activities
<1>3. /\ UNCHANGED <<asked, cancelled>> /\ lost \subseteq lost'
      /\ \A u \in Callers \ {"act", "activity"} : pc'[u] = pc[u]
  BY <1>1 DEF Activities, PollActivity, ActivityPolled, RetryPoll, PollerCancelled, CompleteActivity,
              ActivityCompleted, Wait, Go, GoWithout, LifeInv, Types
<1>4. pc["main"] \in During /\ pc'["main"] = pc["main"] /\ pc'["workflow"] = pc["workflow"]
  BY <1>1, <1>2, <1>3, TheTasks, Working DEF LifeInv, Nursery
<1>5. /\ UNCHANGED <<state, out, blocked>>
      /\ \A u \in Nursery \ {t} : call'[u] = call[u]
      /\ cancelled = {} => \A x \in UnderWay' : x \in UnderWay \/ x.by # Nobody
  BY <1>1, <1>2, <1>3, <1>4, NurseryStep
<1>6. ASSUME Undisturbed, "activity" \in out \ lost'
      PROVE  Holding("act", "activity", "running")'
  <2>1. Holding("act", "activity", "running") /\ "activity" \notin lost'
    BY <1>3, <1>6 DEF HandInv
  <2>2. CASE PollActivity \/ RetryPoll \/ PollerCancelled
    <3>1. /\ pc["act"] \in {"poll", "pausing"} /\ \E w : Go("act", w)
          /\ \/ UNCHANGED bridgeVars
             \/ Call(Caller("act"), "poll_activity_task")
      BY <2>2 DEF PollActivity, RetryPoll, PollerCancelled, At, Wait, Refused, poll_activity_task
    <3>2. pc'["activity"] = pc["activity"] /\ call'["activity"] = call["activity"]
      BY <1>1, <3>1 DEF Go, LifeInv, Types, TypeOKBridge, Call, Sent, Caller, bridgeVars, pyVars
    <3> QED
      BY <1>5, <2>1, <3>1, <3>2 DEF Holding, At, Answered, AnsweredWith
  <2>3. CASE ActivityPolled
    <3>1. At("act", "polling") /\ call["act"] \in Results /\ Resumed("act")
      BY <2>3 DEF ActivityPolled, Returned
    <3>2. blocked # NoDelivery => blocked.by # "act"
      BY <1>1, <3>1, NoneBlocked DEF Results
    <3>3. CASE call["act"] = "task"
      <4>1. pc'["activity"] = "running"
        BY <1>1, <2>3, <3>3 DEF ActivityPolled, Answer, LifeInv, Types
      <4> QED
        BY <4>1 DEF Holding, At
    <3>4. CASE call["act"] # "task"
      <4>1. \E w : Go("act", w)
        BY <2>3, <3>4 DEF ActivityPolled, Answer
      <4>2. pc'["activity"] = pc["activity"] /\ call'["activity"] = call["activity"]
        BY <1>1, <3>1, <4>1 DEF Go, LifeInv, Types, TypeOKBridge, Resumed
      <4> QED
        BY <1>5, <2>1, <3>2, <3>4, <4>2 DEF Holding, At, Answered, AnsweredWith
    <3> QED
      BY <3>3, <3>4
  <2>4. CASE CompleteActivity
    <3>1. At("activity", "running") /\ Accepts("complete_activity_task")
      BY <1>6, <2>4 DEF CompleteActivity, Accepts, Undisturbed, LifeInv, Phases
    <3>2. Call("activity", "complete_activity_task") /\ Go("activity", "completing")
      BY <1>6, <2>4, <3>1 DEF CompleteActivity, Refused, complete_activity_task, Caller,
                              Wait, Undisturbed
    <3>3. pc'["activity"] = "completing" /\ call'["activity"] = "waiting"
      BY <1>1, <3>2, NobodyAssumption DEF Go, Call, Sent, LifeInv, Types, TypeOKBridge
    <3>4. blocked # NoDelivery => blocked.by # "activity"
      BY <1>1, <3>1, NoneBlocked DEF Expects, At
    <3> QED
      BY <1>5, <3>3, <3>4 DEF Holding, Answered, At, Results
  <2>5. CASE ActivityCompleted
    <3>1. /\ At("activity", "completing") /\ call["activity"] \in Results /\ Resumed("activity")
          /\ Go("activity", "none") /\ call["activity"] # "error"
      BY <2>1, <2>5 DEF ActivityCompleted, Answer, Returned, GoWithout
    <3>2. blocked # NoDelivery => blocked.by # "activity"
      BY <1>1, <3>1, NoneBlocked DEF Results
    <3>3. pc'["act"] = pc["act"] /\ call'["act"] = call["act"]
      BY <1>1, <3>1 DEF Go, LifeInv, Types, TypeOKBridge, Resumed
    <3> QED
      BY <1>5, <2>1, <3>1, <3>2, <3>3 DEF Holding, At, Answered, AnsweredWith
  <2> QED
    BY <2>2, <2>3, <2>4, <2>5 DEF Activities
<1>7. ASSUME Undisturbed, "workflow" \in out \ lost'
      PROVE  Holding("workflow", "workflow", "dispatching")'
  <2>1. Holding("workflow", "workflow", "dispatching") /\ call'["workflow"] = call["workflow"]
    BY <1>3, <1>5, <1>7 DEF HandInv, Nursery
  <2> QED
    BY <1>4, <1>5, <2>1 DEF Holding, At, Answered, AnsweredWith
<1>8. Undisturbed' => Undisturbed
  BY <1>3, <1>4, <1>5 DEF Undisturbed, At
<1>9. pc'["main"] \notin Idle
  BY <1>4 DEF Before, During, Idle
<1>10. pc'["main"] \in Ending => cancelled' # {}
  BY <1>3, <1>4 DEF HandInv
<1> QED
  BY <1>3, <1>5, <1>6, <1>7, <1>8, <1>9, <1>10 DEF HandInv, UnderWay

LEMMA EventSetHand ==
  ASSUME LifeInv, HandInv, EventSet
  PROVE  HandInv'
<1>1. /\ deliver_result /\ UNCHANGED <<pc, cancelled, lost, state, out>>
  BY DEF EventSet, deliver_result, coreVars
<1>2. UNCHANGED UnderWay
  BY <1>1, UnderWayKept
<1>3. ASSUME NEW t \in Nursery
      PROVE  /\ Answered(t)' => Answered(t)
             /\ \A r \in {"task", "error"} : AnsweredWith(t, r) => AnsweredWith(t, r)'
  <2>1. /\ call'[t] = IF t = blocked.by THEN blocked.result ELSE call[t]
        /\ blocked # NoDelivery /\ blocked' = NoDelivery
    BY <1>1, TheTasks DEF deliver_result
  <2>2. blocked.by = t => call[t] = "waiting"
    BY <2>1, TheTasks, NobodyAssumption DEF LifeInv, BridgeInv, Matched, Traffic
  <2> QED
    BY <2>1, <2>2 DEF Answered, AnsweredWith
<1>4. Undisturbed' => Undisturbed
  BY <1>1 DEF Undisturbed
<1>5. pc["main"] \in Ending => cancelled # {}
  BY DEF HandInv
<1> QED
  BY <1>1, <1>2, <1>3, <1>4, <1>5, HandKept

\* The Rust thread.
LEMMA BeginHand ==
  ASSUME LifeInv, HandInv, BeginTask, UNCHANGED <<pc, cancelled, lost>>
  PROVE  HandInv'
<1>1. /\ spawned # <<>> /\ spawned' = Tail(spawned) /\ blocked = NoDelivery /\ loop = "running"
      /\ UNCHANGED <<state, call, closed, channel>>
  BY DEF BeginTask, BeginClientCall, BeginCreateWorker, BeginWorkerOp, BeginInitiate, RustFree,
         BeginFinalize, BeginFinalizeBridge, Begin, BeginVars, pyVars
<1>2. /\ Line \in Seq(Request) /\ Line # <<>> /\ Task = Head(Line) /\ Line' = Tail(Line)
  BY <1>1, LineType, LineBegun DEF LifeInv, Types
<1>3. InQueue(Line) = {Task} \cup InQueue(Line)'
  BY <1>2, Taken
<1>4. pending' \subseteq pending \cup {Task} /\ UNCHANGED out
  BY DEF BeginTask, BeginClientCall, BeginCreateWorker, BeginWorkerOp, BeginInitiate, Await,
         BeginFinalize, BeginFinalizeBridge, BeginVars, coreVars
<1>5. UnderWay' \subseteq UnderWay
  BY <1>3, <1>4 DEF UnderWay
<1>6. ASSUME Undisturbed, NEW t \in Nursery, blocked' # NoDelivery
      PROVE  blocked'.by # t
  <2>1. worker = "set"
    BY <1>1, <1>6 DEF Undisturbed, LifeInv, InMap, During
  <2>2. Task.by = t => Task.op \in WorkerOps
    BY <1>3, TheTasks, NobodyAssumption DEF LifeInv, BridgeInv, Matched, Traffic, Expects, Nursery,
                                            WorkerOps, Polls, Completes
  <2>3. Task.op \in WorkerOps => UNCHANGED blocked
    BY <2>1 DEF BeginTask, BeginClientCall, BeginCreateWorker, BeginWorkerOp, BeginInitiate, Await,
                BeginFinalize, BeginFinalizeBridge, Begin, Task, WorkerOps, Polls, Completes
  <2>4. UNCHANGED blocked \/ blocked'.by = Task.by
    BY DEF BeginTask, BeginClientCall, BeginCreateWorker, BeginWorkerOp, BeginInitiate, Await,
           BeginFinalize, BeginFinalizeBridge, Deliver
  <2> QED
    BY <1>1, <1>6, <2>2, <2>3, <2>4
<1>7. ASSUME Undisturbed, NEW t \in Nursery
      PROVE  /\ Answered(t)' => Answered(t)
             /\ \A r \in {"task", "error"} : AnsweredWith(t, r) => AnsweredWith(t, r)'
  BY <1>1, <1>6, <1>7 DEF Answered, AnsweredWith
<1>8. Undisturbed' => Undisturbed
  BY <1>1 DEF Undisturbed
<1>9. pc["main"] \in Ending => cancelled # {}
  BY DEF HandInv
<1> QED
  BY <1>4, <1>5, <1>7, <1>8, <1>9, HandKept

LEMMA AnswersHand ==
  ASSUME LifeInv, HandInv, NEW q \in pending, CoreAnswers(q),
         UNCHANGED <<pc, cancelled, lost>>
  PROVE  HandInv'
<1>1. /\ UNCHANGED <<Line, call, state>> /\ pending' = pending \ {q} /\ blocked = NoDelivery
      /\ q \in UnderWay /\ q \in Traffic
  BY TypeAnswers DEF LifeInv, Types, RustFree, UnderWay, Traffic
<1>2. PICK r \in Results :
        /\ Deliver(q, r)
        /\ r = "task" => q.op \in Polls /\ TaskOf(q.op) \notin out /\ out' = out \cup {TaskOf(q.op)}
        /\ r = "ok" /\ q.op \in Completes => out' = out \ {TaskOf(q.op)}
        /\ q.op \in Completes => r \in {"ok", "error"}
        /\ r = "error" \/ (r # "task" /\ q.op \notin Completes) => out' = out
  <2>1. CASE HandOut(q)
    <3>1. "task" \in Results /\ q.op \notin Completes
      BY <2>1 DEF Results, HandOut, Polls, Completes
    <3> QED
      BY <2>1, <3>1 DEF HandOut, Ends
  <2>2. CASE EndPoll(q)
    <3>1. "ShutDown" \in Results /\ q.op \notin Completes
      BY <2>2 DEF Results, EndPoll, Polls, Completes
    <3> QED
      BY <2>2, <3>1 DEF EndPoll, Ends
  <2>3. CASE Complete(q)
    <3>1. "ok" \in Results
      BY DEF Results
    <3> QED
      BY <2>3, <3>1 DEF Complete, Ends
  <2>4. CASE FinalizeWorker(q) \/ AnswerClient(q)
    <3>1. "ok" \in Results /\ q.op \notin Completes
      BY <2>4 DEF Results, FinalizeWorker, AnswerClient, Completes
    <3> QED
      BY <2>4, <3>1 DEF FinalizeWorker, AnswerClient, Ends
  <2>5. CASE CallFails(q)
    <3>1. "error" \in Results
      BY DEF Results
    <3> QED
      BY <2>5, <3>1 DEF CallFails, Ends
  <2> QED
    BY <2>1, <2>2, <2>3, <2>4, <2>5 DEF CoreAnswers
<1>3. /\ blocked'.by = q.by /\ blocked'.result = r /\ blocked' # NoDelivery
  <2>1. q \in Request /\ blocked' \in Delivery
    BY <1>2, DeliverType DEF LifeInv, Types, TypeOKBridge
  <2> QED
    BY <1>2, <2>1, NobodyAssumption DEF Deliver
<1>4. q.by # Nobody => Expects(q.by, q.op) /\ call[q.by] = "waiting"
  BY <1>1 DEF LifeInv, BridgeInv, Matched
<1>5. pc["main"] \in Idle /\ cancelled = {} => q.op \notin WorkerOps
  BY <1>1 DEF HandInv, UnderWay
<1>6. Undisturbed' => Undisturbed
  BY <1>1 DEF Undisturbed
<1>7. Undisturbed /\ q.op \in WorkerOps => q.by # Nobody
  BY <1>1 DEF HandInv, UnderWay, Undisturbed
<1>8. /\ q.op = "poll_activation" <=> q.op \in Polls /\ TaskOf(q.op) = "workflow"
      /\ q.op = "poll_activity_task" <=> q.op \in Polls /\ TaskOf(q.op) = "activity"
      /\ q.op = "complete_activation" <=> q.op \in Completes /\ TaskOf(q.op) = "workflow"
      /\ q.op = "complete_activity_task" <=> q.op \in Completes /\ TaskOf(q.op) = "activity"
  BY DEF Polls, Completes, TaskOf
<1>9. ASSUME Undisturbed, "workflow" \in out' \ lost
      PROVE  Holding("workflow", "workflow", "dispatching")'
  <2>1. CASE "workflow" \in out
    <3>1. Holding("workflow", "workflow", "dispatching")
      BY <1>9, <2>1 DEF HandInv
    <3>2. CASE q.by = "workflow"
      <4>1. At("workflow", "completing") /\ q.op = "complete_activation"
        BY <1>1, <1>4, <3>1, <3>2, TheTasks, NobodyAssumption
           DEF Holding, Expects, At, AnsweredWith, Nursery
      <4>2. r = "error"
        BY <1>2, <1>8, <1>9, <4>1
      <4> QED
        BY <1>3, <3>2, <4>1, <4>2 DEF Holding, At, AnsweredWith
    <3>3. CASE q.by # "workflow"
      BY <1>1, <1>3, <3>1, <3>3 DEF Holding, At, Answered, AnsweredWith
    <3> QED
      BY <3>2, <3>3
  <2>2. CASE "workflow" \notin out
    <3>1. r = "task" /\ q.op = "poll_activation"
      BY <1>2, <1>8, <1>9, <2>2
    <3>2. q.by = "workflow" /\ At("workflow", "polling")
      BY <1>4, <1>7, <1>9, <3>1 DEF Expects, WorkerOps, Polls
    <3> QED
      BY <1>3, <3>1, <3>2 DEF Holding, At, AnsweredWith
  <2> QED
    BY <2>1, <2>2
<1>10. ASSUME Undisturbed, "activity" \in out' \ lost
       PROVE  Holding("act", "activity", "running")'
  <2>1. CASE "activity" \in out
    <3>1. Holding("act", "activity", "running")
      BY <1>10, <2>1 DEF HandInv
    <3>2. CASE q.by = "activity"
      <4>1. q.op = "complete_activity_task" /\ At("activity", "completing")
        BY <1>4, <3>2, TheTasks, NobodyAssumption DEF Expects, Nursery
      <4>2. r = "error"
        BY <1>2, <1>8, <1>10, <4>1
      <4> QED
        BY <1>3, <3>2, <4>1, <4>2 DEF Holding, At, AnsweredWith
    <3>3. CASE q.by = "act"
      <4>1. ~AnsweredWith("act", "task")
        BY <1>1, <1>4, <3>3, TheTasks, NobodyAssumption DEF AnsweredWith, Nursery
      <4> QED
        BY <1>1, <1>3, <3>1, <3>3, <4>1 DEF Holding, At, Answered, AnsweredWith
    <3>4. CASE q.by \notin {"act", "activity"}
      BY <1>1, <1>3, <3>1, <3>4 DEF Holding, At, Answered, AnsweredWith
    <3> QED
      BY <3>2, <3>3, <3>4
  <2>2. CASE "activity" \notin out
    <3>1. r = "task" /\ q.op = "poll_activity_task"
      BY <1>2, <1>8, <1>10, <2>2
    <3>2. q.by = "act" /\ At("act", "polling")
      BY <1>4, <1>7, <1>10, <3>1 DEF Expects, WorkerOps, Polls
    <3> QED
      BY <1>3, <3>1, <3>2 DEF Holding, At, AnsweredWith
  <2> QED
    BY <2>1, <2>2
<1>11. UnderWay' \subseteq UnderWay
  BY <1>1 DEF UnderWay
<1>12. pc["main"] \in Idle /\ cancelled = {} => out' = {}
  <2>1. pc["main"] \in Idle /\ cancelled = {} => r # "task" /\ q.op \notin Completes
    BY <1>2, <1>5 DEF WorkerOps
  <2> QED
    BY <1>2, <2>1 DEF HandInv
<1>13. pc["main"] \in Ending => cancelled # {}
  BY DEF HandInv
<1> QED
  BY <1>6, <1>9, <1>10, <1>11, <1>12, <1>13 DEF HandInv, UnderWay

LEMMA RustHand ==
  ASSUME LifeInv, HandInv, Rust, UNCHANGED <<pc, cancelled, lost>>
  PROVE  HandInv'
<1>0. pc["main"] \in Ending => cancelled # {}
  BY DEF HandInv
<1>1. CASE Receive
  <2>1. UNCHANGED <<Line, state, call, pending, blocked, out>>
    BY <1>1, LineReceived DEF Receive, pyVars, coreVars, LifeInv, Types
  <2> QED
    BY <1>0, <2>1, HandKept DEF UnderWay, Undisturbed, Answered, AnsweredWith
<1>2. CASE ExitLoop
  <2>1. /\ pending' = {} /\ UNCHANGED <<state, out>> /\ closed
        /\ spawned' = <<>> /\ channel' = <<>>
    BY <1>2 DEF ExitLoop, pyVars
  <2>2. UnderWay' = {}
    BY <2>1, ConcatEmptySeq, EmptySeq DEF Line, InQueue, UnderWay
  <2>3. ~Undisturbed'
    BY <2>1 DEF LifeInv, Phases, Undisturbed
  <2> QED
    BY <1>0, <2>1, <2>2, <2>3, HandKept
<1> QED
  BY <1>1, <1>2, BeginHand, AnswersHand DEF Rust

LEMMA HandStep ==
  ASSUME LifeInv, HandInv, [Next]_vars
  PROVE  HandInv'
<1>1. CASE UNCHANGED vars
  <2>1. UNCHANGED <<bridgeVars, state, call, blocked, out, pc, cancelled, lost>>
    BY <1>1 DEF vars, bridgeVars, pyVars, coreVars
  <2>2. UNCHANGED UnderWay
    BY <2>1, UnderWayKept
  <2>3. pc["main"] \in Ending => cancelled # {}
    BY DEF HandInv
  <2> QED
    BY <2>1, <2>2, <2>3, HandKept DEF Undisturbed, Answered, AnsweredWith
<1> QED
  BY <1>1, ApplicationHand, WorkerHand, DispatcherHand, ActivitiesHand, EventSetHand, RustHand
     DEF Next, Trio

(* Until a nursery is cancelled, and while the worker shuts down, too, a   *)
(* task that Core has handed out is in the hands of a live poll loop or    *)
(* handler, or an error was logged that left it unanswered: whichever      *)
(* calls fail and whatever the surroundings do (_async_bridge.py:1725-1793,*)
(* 1537-1598, _single_thread_worker.py:222-255).                           *)
THEOREM TasksStayInHand == Spec => []TasksInHand
<1>1. Init => HandInv
  <2> SUFFICES ASSUME Init PROVE HandInv
    OBVIOUS
  <2>1. spawned = <<>> /\ channel = <<>> /\ pending = {} /\ out = {} /\ pc["main"] = "new"
    BY TheTasks DEF Init, InitBridge
  <2>2. InQueue(Line) = {}
    BY <2>1, ConcatEmptySeq, EmptySeq DEF InQueue, Line
  <2> QED
    BY <2>1, <2>2 DEF HandInv, Ending
<1>2. LifeInv /\ HandInv /\ [Next]_vars => HandInv'
  BY HandStep
<1>3. LifeInv /\ HandInv => TasksInHand
  <2> SUFFICES ASSUME LifeInv, HandInv, state = "RUNNING", cancelled = {}
               PROVE  /\ "workflow" \in out \ lost =>
                           InHand("workflow", "workflow", {"dispatching", "completing"})
                      /\ "activity" \in out \ lost =>
                           InHand("act", "activity", {"running", "completing"})
    BY DEF TasksInHand
  <2>1. CASE pc["main"] \in {"running", "sleeping"}
    BY <2>1 DEF HandInv, Undisturbed, Holding, InHand, AnsweredWith, At
  <2>2. CASE pc["main"] \notin {"running", "sleeping"}
    BY <2>2 DEF LifeInv, Phases, HandInv, Idle, Ending, Before, During, After
  <2> QED
    BY <2>1, <2>2
<1> QED
  BY <1>1, <1>2, <1>3, Life, PTL DEF Spec
=============================================================================
