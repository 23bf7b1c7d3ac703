---------------------------- MODULE ClientIterator ---------------------------
(***************************************************************************)
(* An asynchronous iterator of the Client, WorkflowHistoryEventAsync-      *)
(* Iterator (client/_workflow_handle.py:183-275) or WorkflowExecution-     *)
(* AsyncIterator (client/_client.py:336-452), used by one task while the   *)
(* workflow goes on.  A __anext__ that fails or times out may be called    *)
(* again, on the same iterator.  The server is external: it decides how    *)
(* long each page is, and an item stands for an event or an execution.     *)
(***************************************************************************)
EXTENDS Naturals, Sequences

CONSTANTS
  MaxRuns,    \* runs of the workflow id, a bound
  MaxItems,   \* events of a run or executions that match, a bound
  PageSize,   \* page_size of list_workflows
  Limits,     \* its limits; NoLimit stands for None
  NoLimit

ASSUME IteratorAssumption ==
  /\ MaxRuns \in Nat \ {0} /\ MaxItems \in Nat /\ PageSize \in Nat \ {0}
  /\ NoLimit \in Nat /\ NoLimit > MaxItems /\ NoLimit > PageSize
  /\ Limits \subseteq 0..NoLimit

VARIABLES
  items,    \* [owner -> Nat]: how many there are; the owner is a run or the List
  current,  \* the latest run
  kind,     \* no iterator yet, events, executions
  run,      \* _run_id; 0 stands for None, the latest run
  limit, page, index, token, yielded,
  asked,    \* the page_size of the request __anext__ awaits, or Idle
  ended,    \* __anext__ has raised StopAsyncIteration
  promised  \* how much there was when the first page was made

iterVars == <<kind, run, limit, page, index, token, yielded, ended>>
vars == <<items, current, iterVars, asked, promised>>

NoToken == <<0, 0>>
NotYet  == <<NoToken>>   \* _current_page = None
List    == MaxRuns + 1
Owners  == 1..List
Idle    == NoLimit + 1

Init ==
  /\ items = [o \in Owners |-> 0] /\ current = 1
  /\ kind = "none" /\ run = 0 /\ limit = NoLimit /\ page = NotYet /\ index = 0
  /\ token = NoToken /\ yielded = <<>> /\ asked = Idle /\ ended = FALSE /\ promised = 0

\* Something happens to a workflow, or the id is used again.
ServerGoesOn ==
  /\ \/ \E o \in {List, current} : items[o] < MaxItems /\ items' = [items EXCEPT ![o] = @ + 1]
                                /\ UNCHANGED current
     \/ current < MaxRuns /\ current' = current + 1 /\ UNCHANGED items
  /\ UNCHANGED <<iterVars, asked, promised>>

NewIterator(k, of, lim) ==
  /\ kind = "none" /\ kind' = k /\ run' = of /\ limit' = lim
  /\ UNCHANGED <<items, current, page, index, token, yielded, ended, asked, promised>>
fetch_history_events == \E of \in 0..current : NewIterator("events", of, NoLimit)
list_workflows       == \E lim \in Limits : NewIterator("executions", 0, lim)
------------------------------------------------------------------------------
(* __anext__, up to a page to fetch, an item or the end.                   *)
AtLimit  == kind = "executions" /\ Len(yielded) >= limit
PageDone == page # NotYet /\ index >= Len(page)
Called   == kind # "none" /\ asked = Idle /\ ~ended

Left == limit - Len(yielded)
fetch_next_page ==
  /\ Called /\ ~AtLimit
  /\ page = NotYet \/ (PageDone /\ token # NoToken)
  /\ asked' = IF kind = "executions" /\ Left < PageSize THEN Left ELSE PageSize
  /\ UNCHANGED <<items, current, iterVars, promised>>

Yield ==
  /\ Called /\ ~AtLimit /\ page # NotYet /\ ~PageDone
  /\ yielded' = Append(yielded, page[index + 1]) /\ index' = index + 1
  /\ UNCHANGED <<items, current, kind, run, limit, page, token, ended, asked, promised>>

\* mutant: a page that is used up is the end
StopAsyncIterationMutant ==
  /\ Called
  /\ AtLimit \/ PageDone
  /\ ended' = TRUE
  /\ UNCHANGED <<items, current, kind, run, limit, page, index, token, yielded, asked, promised>>

StopAsyncIteration ==
  /\ Called
  /\ AtLimit \/ (PageDone /\ token = NoToken)
  /\ ended' = TRUE
  /\ UNCHANGED <<items, current, kind, run, limit, page, index, token, yielded, asked, promised>>
------------------------------------------------------------------------------
(* The answer.  A token names the run it is for and the position.          *)
Owner == IF token # NoToken THEN token[1]
         ELSE IF kind = "executions" THEN List
         ELSE IF run = 0 THEN current ELSE run
\* Executions are listed from the latest on: what comes later is not met.
Total == IF kind = "executions" /\ token # NoToken THEN promised ELSE items[Owner]

NewPageMutant(p, t) == page' = p /\ token' = t /\ UNCHANGED index  \* mutant: index is kept
NewPage(p, t) == page' = p /\ index' = 0 /\ token' = t

\* A page may be short or empty, and the last one may have a token.  The request
\* for history names no size.
PageFetched(to, more) ==
  /\ asked # Idle /\ asked' = Idle
  /\ to \in token[2]..Total /\ (to < Total => more)
  /\ kind = "executions" => to - token[2] =< asked
  /\ NewPage([i \in 1..(to - token[2]) |-> <<Owner, token[2] + i>>],
             IF more THEN <<Owner, to>> ELSE NoToken)
  /\ promised' = IF token = NoToken THEN items[Owner] ELSE promised
  /\ UNCHANGED <<items, current, kind, run, limit, yielded, ended>>

\* The call raises, or its task is cancelled.
FetchFails ==
  /\ asked # Idle /\ asked' = Idle
  /\ UNCHANGED <<items, current, iterVars, promised>>

Next == \/ ServerGoesOn \/ fetch_history_events \/ list_workflows
        \/ fetch_next_page \/ Yield \/ StopAsyncIteration \/ FetchFails
        \/ \E to \in 0..MaxItems, more \in BOOLEAN : PageFetched(to, more)
Spec == Init /\ [][Next]_vars
------------------------------------------------------------------------------
Item == Owners \X (1..MaxItems)
TypeOK ==
  /\ items \in [Owners -> 0..MaxItems] /\ current \in 1..MaxRuns
  /\ kind \in {"none", "events", "executions"} /\ run \in 0..MaxRuns
  /\ limit \in 0..NoLimit
  /\ page \in Seq(Item) \cup {NotYet} /\ index \in 0..Len(page)
  /\ token \in (Owners \X (0..MaxItems)) \cup {NoToken}
  /\ yielded \in Seq(Item) /\ asked \in 1..Idle
  /\ ended \in BOOLEAN /\ promised \in 0..MaxItems

(* An iterator yields every item once, in order and of one run, whatever   *)
(* the sizes of the pages, the calls that fail and the runs that start in  *)
(* between (_workflow_handle.py:232-275, _client.py:386-452).              *)
YieldedInOrder == \A i \in DOMAIN yielded : yielded[i] = <<yielded[1][1], i>>

(* It ends only when it has yielded all there was when its first page was  *)
(* made, or as much as its limit allows, and it never holds more.          *)
YieldedAll ==
  /\ ended => Len(yielded) >= promised \/ (kind = "executions" /\ Len(yielded) = limit)
  /\ kind = "executions" /\ page # NotYet => Len(yielded) + Len(page) - index =< limit
==============================================================================
