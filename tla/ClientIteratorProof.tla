------------------------- MODULE ClientIteratorProof -------------------------
(***************************************************************************)
(* The iterators of the client, for any sizes of pages and limits.  Items  *)
(* is the invariant the two properties rest on: where the page in hand     *)
(* continues what has been yielded, where its token points, and how much   *)
(* the limit still allows.                                                 *)
(***************************************************************************)
EXTENDS ClientIterator, SequenceTheorems, TLAPS

Base == Len(yielded) - index   \* yielded before the page in hand

OfOwner(o) ==
  /\ \A i \in 1..Len(yielded) : yielded[i] = <<o, i>>
  /\ \A i \in 1..Len(page) : page[i] = <<o, Base + i>>
  /\ token # NoToken => token = <<o, Base + Len(page)>>

NothingYet == page = NotYet => yielded = <<>> /\ token = NoToken /\ index = 0
InPage     == page # NotYet => \E o \in Owners : OfOwner(o)
Continues  == page # NotYet => index =< Len(page) /\ index =< Len(yielded)
EndReached == page # NotYet /\ token = NoToken => Base + Len(page) >= promised
Promise    == token # NoToken => promised =< items[token[1]]
Fetching   == asked # Idle => ~ended /\ (page = NotYet \/ (PageDone /\ token # NoToken))
Allowed    == kind = "executions" =>
                /\ page # NotYet => Base + Len(page) =< limit
                /\ asked # Idle => asked =< Left
Ended      == ended => AtLimit \/ (PageDone /\ token = NoToken)
NotMade    == kind = "none" => page = NotYet /\ asked = Idle /\ ~ended
IteratorInv == /\ TypeOK /\ NothingYet /\ InPage /\ Continues /\ EndReached
               /\ Promise /\ Fetching /\ Allowed /\ Ended /\ NotMade
------------------------------------------------------------------------------
\* Run 0 is nobody's, so no page is the one that stands for None.
LEMMA PageIsSome == ASSUME NEW s \in Seq(Item) PROVE s # NotYet
<1>1. SUFFICES ASSUME s = NotYet PROVE FALSE  OBVIOUS
<1>2. Len(s) = 1 /\ s[1] = <<0, 0>>  BY <1>1 DEF NotYet, NoToken
<1>3. s[1] \in Item  BY <1>2
<1>4. 0 \notin Owners  BY IteratorAssumption DEF Owners, List
<1> QED  BY <1>2, <1>3, <1>4 DEF Item

\* What the implications of the invariant say about lengths.
LEMMA Lengths ==
  ASSUME TypeOK
  PROVE  Len(yielded) \in Nat /\ Len(page) \in Nat /\ index \in Nat /\ limit \in Nat
<1>1. Len(NotYet) = 1  BY DEF NotYet, NoToken
<1> QED  BY <1>1, IteratorAssumption DEF TypeOK

LEMMA InitIsIterator == Init => IteratorInv
<1>1. ASSUME Init PROVE IteratorInv
  <2>1. yielded \in Seq(Item) /\ Len(NotYet) = 1 /\ Len(yielded) = 0
    BY <1>1 DEF Init, NotYet, NoToken
  <2>2. items \in [Owners -> 0..MaxItems] /\ current \in 1..MaxRuns /\ promised \in 0..MaxItems
    BY <1>1, IteratorAssumption DEF Init
  <2>3. asked \in 1..Idle /\ limit \in 0..NoLimit /\ run \in 0..MaxRuns
    BY <1>1, IteratorAssumption DEF Init, Idle
  <2>4. page = NotYet /\ index \in 0..Len(page)
    BY <1>1, <2>1 DEF Init
  <2>5. TypeOK
    BY <1>1, <2>1, <2>2, <2>3, <2>4 DEF Init, TypeOK
  <2> QED
    BY <1>1, <2>5 DEF Init, IteratorInv, NothingYet, InPage, Continues, EndReached,
                      Promise, Fetching, Allowed, Ended, NotMade
<1> QED  BY <1>1

LEMMA GoesOnKeeps == IteratorInv /\ ServerGoesOn => IteratorInv'
<1> SUFFICES ASSUME IteratorInv, ServerGoesOn PROVE IteratorInv'  OBVIOUS
<1> USE DEF ServerGoesOn, iterVars
<1>1. List \in Owners /\ current \in Owners
  BY IteratorAssumption DEF IteratorInv, TypeOK, Owners, List
<1>2. TypeOK'
  <2>1. items' \in [Owners -> 0..MaxItems]
    BY <1>1, IteratorAssumption DEF IteratorInv, TypeOK
  <2>2. current' \in 1..MaxRuns
    BY IteratorAssumption DEF IteratorInv, TypeOK
  <2> QED  BY <2>1, <2>2 DEF IteratorInv, TypeOK
<1>3. \A o \in Owners : items[o] =< items'[o]
  <2>1. items \in [Owners -> Nat]
    BY IteratorAssumption DEF IteratorInv, TypeOK
  <2>2. CASE UNCHANGED items
    BY <2>1, <2>2
  <2>3. ASSUME NEW p \in Owners, items' = [items EXCEPT ![p] = @ + 1]
        PROVE  \A o \in Owners : items[o] =< items'[o]
    BY ONLY <2>1, <2>3
  <2> QED  BY <1>1, <2>2, <2>3
<1>4. Promise'
  <2>1. SUFFICES ASSUME token # NoToken PROVE promised =< items'[token[1]]  BY DEF Promise
  <2>2. token[1] \in Owners  BY <2>1 DEF IteratorInv, TypeOK
  <2> QED  BY <1>2, <1>3, <2>1, <2>2 DEF IteratorInv, TypeOK, Promise
<1> QED
  BY <1>2, <1>4 DEF IteratorInv, NothingYet, InPage, OfOwner, Base, Continues, EndReached,
     Fetching, PageDone, Allowed, Left, Ended, AtLimit, NotMade

LEMMA NewKeeps ==
  ASSUME IteratorInv, NEW k \in {"events", "executions"}, NEW of \in 0..MaxRuns,
         NEW lim \in 0..NoLimit, NewIterator(k, of, lim)
  PROVE  IteratorInv'
<1> USE DEF NewIterator
<1>1. page = NotYet /\ asked = Idle /\ ~ended  BY DEF IteratorInv, NotMade
<1>2. TypeOK'  BY DEF IteratorInv, TypeOK
<1> QED
  BY <1>1, <1>2 DEF IteratorInv, NothingYet, InPage, Continues, EndReached, Promise,
     Fetching, Allowed, Ended, NotMade

LEMMA FetchKeeps == IteratorInv /\ fetch_next_page => IteratorInv'
<1> SUFFICES ASSUME IteratorInv, fetch_next_page PROVE IteratorInv'  OBVIOUS
<1> USE DEF fetch_next_page, iterVars, Called
<1>1. Len(yielded) \in Nat /\ limit \in 0..NoLimit
  BY Lengths DEF IteratorInv, TypeOK
<1>2. asked' \in 1..Idle /\ (kind = "executions" => asked' =< Left)
  BY <1>1, IteratorAssumption DEF AtLimit, Left, Idle
<1>3. TypeOK'  BY <1>2 DEF IteratorInv, TypeOK
<1>4. Fetching'  BY DEF Fetching, PageDone
<1>5. Allowed'  BY <1>2 DEF IteratorInv, Allowed, Left, Base
<1> QED
  BY <1>3, <1>4, <1>5 DEF IteratorInv, NothingYet, InPage, OfOwner, Base, Continues,
     EndReached, Promise, Ended, AtLimit, PageDone, NotMade

LEMMA YieldKeeps == IteratorInv /\ Yield => IteratorInv'
<1> SUFFICES ASSUME IteratorInv, Yield PROVE IteratorInv'  OBVIOUS
<1> USE DEF Yield, Called
<1>1. /\ Len(yielded) \in Nat /\ Len(page) \in Nat /\ index \in Nat /\ limit \in Nat
      /\ index < Len(page) /\ index =< Len(yielded) /\ page # NotYet
  BY Lengths DEF IteratorInv, Continues, PageDone
<1>2. PICK o \in Owners : OfOwner(o)  BY <1>1 DEF IteratorInv, InPage
<1>3. page \in Seq(Item) /\ yielded \in Seq(Item)  BY <1>1 DEF IteratorInv, TypeOK
<1>4. page[index + 1] = <<o, Len(yielded) + 1>> /\ page[index + 1] \in Item
  <2>1. index + 1 \in 1..Len(page) /\ Base + (index + 1) = Len(yielded) + 1
    BY <1>1 DEF Base
  <2>2. page[index + 1] = <<o, Base + (index + 1)>>  BY <1>2, <2>1 DEF OfOwner
  <2>3. page[index + 1] \in Item  BY <1>3, <2>1
  <2>4. <<o, Base + (index + 1)>> = <<o, Len(yielded) + 1>>  BY <2>1
  <2> QED  BY <2>2, <2>3, <2>4
<1>5. /\ yielded' \in Seq(Item) /\ Len(yielded') = Len(yielded) + 1
      /\ \A i \in 1..Len(yielded) : yielded'[i] = yielded[i]
      /\ yielded'[Len(yielded) + 1] = <<o, Len(yielded) + 1>>
  BY <1>3, <1>4
<1>6. Base' = Base /\ index' = index + 1  BY <1>1, <1>5 DEF Base
<1>7. TypeOK'  BY <1>1, <1>5 DEF IteratorInv, TypeOK
<1>8. OfOwner(o)'
  <2>1. \A i \in 1..Len(yielded') : yielded'[i] = <<o, i>>
    BY <1>1, <1>2, <1>5 DEF OfOwner
  <2> QED  BY <1>2, <1>6, <2>1 DEF OfOwner
<1>9. Continues' /\ NothingYet' /\ InPage' /\ EndReached'
  BY <1>1, <1>2, <1>5, <1>6, <1>8 DEF IteratorInv, Continues, NothingYet, InPage, EndReached
<1>10. Allowed'
  BY <1>1, <1>6 DEF IteratorInv, Allowed
<1> QED
  BY <1>7, <1>9, <1>10 DEF IteratorInv, Promise, Fetching, Ended, NotMade

LEMMA StopKeeps == IteratorInv /\ StopAsyncIteration => IteratorInv'
<1> SUFFICES ASSUME IteratorInv, StopAsyncIteration PROVE IteratorInv'  OBVIOUS
<1> USE DEF StopAsyncIteration, Called
<1>1. TypeOK' /\ Ended' /\ NotMade'
  BY DEF IteratorInv, TypeOK, Ended, AtLimit, PageDone, NotMade
<1> QED
  BY <1>1 DEF IteratorInv, NothingYet, InPage, OfOwner, Base, Continues, EndReached,
     Promise, Fetching, PageDone, Allowed, Left

LEMMA FailsKeeps == IteratorInv /\ FetchFails => IteratorInv'
<1> SUFFICES ASSUME IteratorInv, FetchFails PROVE IteratorInv'  OBVIOUS
<1> USE DEF FetchFails, iterVars
<1>1. TypeOK' /\ Allowed'
  BY IteratorAssumption DEF IteratorInv, TypeOK, Allowed, Base, Idle
<1> QED
  BY <1>1 DEF IteratorInv, NothingYet, InPage, OfOwner, Base, Continues, EndReached,
     Promise, Fetching, Ended, AtLimit, PageDone, NotMade

LEMMA FetchedKeeps ==
  ASSUME IteratorInv, NEW to \in 0..MaxItems, NEW more \in BOOLEAN, PageFetched(to, more)
  PROVE  IteratorInv'
<1> USE DEF PageFetched, NewPage
<1> DEFINE n == to - token[2]
           p == [i \in 1..n |-> <<Owner, token[2] + i>>]
<1>1. /\ Len(yielded) \in Nat /\ Len(page) \in Nat /\ index \in Nat /\ limit \in Nat
      /\ yielded \in Seq(Item)
  BY Lengths DEF IteratorInv, TypeOK
<1>2. page = NotYet \/ (PageDone /\ token # NoToken)
  BY DEF IteratorInv, Fetching
<1>3. kind # "none" /\ ~ended  BY DEF IteratorInv, NotMade, Fetching
<1>4. Owner \in Owners /\ token[2] \in 0..MaxItems /\ (token # NoToken => Owner = token[1])
  <2>1. CASE token = NoToken
    BY <2>1, IteratorAssumption DEF IteratorInv, TypeOK, Owner, Owners, List, NoToken
  <2>2. CASE token # NoToken
    BY <2>2 DEF IteratorInv, TypeOK, Owner
  <2> QED  BY <2>1, <2>2
<1>5. Total \in 0..MaxItems /\ items[Owner] \in 0..MaxItems
  <2>1. List \in Owners  BY IteratorAssumption DEF Owners, List
  <2> QED  BY <1>4, <2>1 DEF IteratorInv, TypeOK, Total
<1>6. /\ n \in Nat /\ to =< Total /\ (~more => to = Total)
      /\ page' = p /\ index' = 0
      /\ token' = IF more THEN <<Owner, to>> ELSE NoToken
  BY <1>4, <1>5
<1>7. p \in Seq(Item) /\ Len(p) = n /\ \A i \in 1..n : p[i] = <<Owner, token[2] + i>>
  <2>1. ASSUME NEW i \in 1..n PROVE <<Owner, token[2] + i>> \in Item
    BY <2>1, <1>4, <1>5, <1>6, IteratorAssumption DEF Item
  <2>2. p \in [1..n -> Item]  BY <2>1
  <2>3. p \in Seq(Item)  BY <1>6, <2>2, SeqDef
  <2>4. DOMAIN p = 1..n  OBVIOUS
  <2>5. Len(p) = n  BY <1>6, <2>3, <2>4, LenProperties
  <2> QED  BY <2>3, <2>5
<1>8. page' # NotYet  BY <1>6, <1>7, PageIsSome
<1> HIDE DEF n, p
\* What the page continues: nothing, or the page that is used up.
<1>9. token[2] = Len(yielded) /\ \A i \in 1..Len(yielded) : yielded[i] = <<Owner, i>>
  <2>1. CASE page = NotYet
    BY <2>1 DEF IteratorInv, NothingYet, NoToken
  <2>2. CASE page # NotYet
    <3>1. PICK o \in Owners : OfOwner(o)  BY <2>2 DEF IteratorInv, InPage
    <3>2. index = Len(page) /\ token # NoToken
      BY <1>1, <1>2, <2>2 DEF IteratorInv, Continues, PageDone
    <3>3. token = <<o, Len(yielded)>>
      BY <1>1, <3>1, <3>2 DEF OfOwner, Base
    <3> QED  BY <1>4, <3>1, <3>2, <3>3 DEF OfOwner
  <2> QED  BY <2>1, <2>2
<1>10. Base' = Len(yielded) /\ Len(page') = n /\ Base' + Len(page') = to
  BY <1>1, <1>4, <1>6, <1>7, <1>9 DEF Base, n
<1>11. token' # NoToken <=> more
  BY <1>4, <1>6 DEF NoToken, Owners
<1>12. PICK o \in Owners : o = Owner  BY <1>4
<1>13. OfOwner(o)'
  <2>1. \A i \in 1..Len(page') : page'[i] = <<o, Base' + i>>
    BY <1>6, <1>7, <1>9, <1>10, <1>12
  <2>2. \A i \in 1..Len(yielded') : yielded'[i] = <<o, i>>
    BY <1>9, <1>12
  <2>3. token' # NoToken => token' = <<o, Base' + Len(page')>>
    BY <1>6, <1>10, <1>12
  <2> QED  BY <2>1, <2>2, <2>3 DEF OfOwner
<1>14. TypeOK'
  <2>1. token' \in (Owners \X (0..MaxItems)) \cup {NoToken}  BY <1>4, <1>6
  <2>2. asked' \in 1..Idle /\ promised' \in 0..MaxItems
    BY <1>5, IteratorAssumption DEF IteratorInv, TypeOK, Idle
  <2>3. page' \in Seq(Item)  BY <1>6, <1>7
  <2>4. index' = 0 /\ Len(page') \in Nat  BY <1>6, <1>10
  <2>5. index' \in 0..Len(page')
    <3> HIDE DEF PageFetched
    <3> QED  BY <2>4
  <2> QED  BY <2>1, <2>2, <2>3, <2>5 DEF IteratorInv, TypeOK
<1>15. Continues' /\ NothingYet' /\ InPage'
  <2>1. Continues'
    <3>1. index' = 0 /\ Len(page') \in Nat /\ Len(yielded') \in Nat  BY <1>1, <1>6, <1>10
    <3> HIDE DEF PageFetched
    <3> QED  BY <3>1 DEF Continues
  <2>2. NothingYet' /\ InPage'  BY <1>8, <1>13 DEF NothingYet, InPage
  <2> QED  BY <2>1, <2>2
<1>16. Promise' /\ (token # NoToken => promised =< items[Owner])
  BY <1>4, <1>5, <1>6, <1>11 DEF IteratorInv, TypeOK, Promise
<1>17. EndReached'
  <2>1. SUFFICES ASSUME ~more PROVE Base' + Len(page') >= promised'
    BY <1>11 DEF EndReached
  <2>2. Total >= promised'
    BY <1>5, <1>16 DEF IteratorInv, TypeOK, Total
  <2> QED  BY <1>6, <1>10, <2>1, <2>2
<1>18. Allowed'
  <2>1. SUFFICES ASSUME kind = "executions" PROVE Base' + Len(page') =< limit
    BY DEF Allowed
  <2>2. n =< asked /\ asked =< limit - Len(yielded)
    BY <2>1 DEF IteratorInv, Allowed, Left, n
  <2>3. asked \in Nat /\ limit' = limit
    BY IteratorAssumption DEF IteratorInv, TypeOK, Idle
  <2>4. Len(yielded) + n =< limit  BY <1>1, <1>6, <2>2, <2>3
  <2> QED  BY <1>10, <2>3, <2>4
<1>19. Fetching' /\ Ended' /\ NotMade'
  BY <1>3 DEF Fetching, Ended, NotMade
<1> QED  BY <1>14, <1>15, <1>16, <1>17, <1>18, <1>19 DEF IteratorInv
------------------------------------------------------------------------------
LEMMA IteratorInvariant == Spec => []IteratorInv
<1>1. ASSUME IteratorInv, [Next]_vars PROVE IteratorInv'
  <2>1. CASE ServerGoesOn  BY <1>1, <2>1, GoesOnKeeps
  <2>2. CASE fetch_history_events
    <3>1. PICK of \in 0..current : NewIterator("events", of, NoLimit)
      BY <2>2 DEF fetch_history_events
    <3>2. of \in 0..MaxRuns /\ NoLimit \in 0..NoLimit
      BY <1>1, IteratorAssumption DEF IteratorInv, TypeOK
    <3> QED  BY <1>1, <3>1, <3>2, NewKeeps
  <2>3. CASE list_workflows
    <3>1. PICK lim \in Limits : NewIterator("executions", 0, lim)
      BY <2>3 DEF list_workflows
    <3>2. lim \in 0..NoLimit /\ 0 \in 0..MaxRuns  BY IteratorAssumption
    <3> QED  BY <1>1, <3>1, <3>2, NewKeeps
  <2>4. CASE fetch_next_page  BY <1>1, <2>4, FetchKeeps
  <2>5. CASE Yield  BY <1>1, <2>5, YieldKeeps
  <2>6. CASE StopAsyncIteration  BY <1>1, <2>6, StopKeeps
  <2>7. CASE FetchFails  BY <1>1, <2>7, FailsKeeps
  <2>8. CASE \E to \in 0..MaxItems, more \in BOOLEAN : PageFetched(to, more)
    BY <1>1, <2>8, FetchedKeeps
  <2>9. CASE UNCHANGED vars
    BY <1>1, <2>9 DEF vars, iterVars, IteratorInv, TypeOK, NothingYet, InPage, OfOwner, Base,
       Continues, EndReached, Promise, Fetching, Allowed, Left, Ended, AtLimit, PageDone, NotMade
  <2> QED
    BY <1>1, <2>1, <2>2, <2>3, <2>4, <2>5, <2>6, <2>7, <2>8, <2>9 DEF Next
<1> QED  BY <1>1, InitIsIterator, PTL DEF Spec

(* Every item once, in order and of one run: the items yielded are those   *)
(* of OfOwner (_workflow_handle.py:232-275, _client.py:386-452).           *)
THEOREM YieldsInOrder == Spec => []YieldedInOrder
<1>1. ASSUME IteratorInv PROVE YieldedInOrder
  <2>1. SUFFICES ASSUME NEW i \in DOMAIN yielded PROVE yielded[i] = <<yielded[1][1], i>>
    BY DEF YieldedInOrder
  <2>2. yielded \in Seq(Item) /\ i \in 1..Len(yielded) /\ Len(yielded) \in Nat
    BY <1>1, <2>1 DEF IteratorInv, TypeOK
  <2>3. 1 \in 1..Len(yielded) /\ page # NotYet
    BY <1>1, <2>2 DEF IteratorInv, NothingYet
  <2>4. PICK o \in Owners : OfOwner(o)  BY <1>1, <2>3 DEF IteratorInv, InPage
  <2>5. yielded[1] = <<o, 1>> /\ yielded[i] = <<o, i>>  BY <2>2, <2>3, <2>4 DEF OfOwner
  <2> QED  BY <2>5
<1> QED  BY <1>1, IteratorInvariant, PTL

(* The end comes only after all there was or at the limit, which the page  *)
(* in hand never exceeds (_client.py:389-452).                             *)
THEOREM YieldsAll == Spec => []YieldedAll
<1>1. ASSUME IteratorInv PROVE YieldedAll
  <2>1. /\ Len(yielded) \in Nat /\ Len(page) \in Nat /\ index \in Nat /\ limit \in Nat
        /\ promised \in Nat
    BY <1>1, Lengths DEF IteratorInv, TypeOK
  <2>2. kind = "executions" /\ page # NotYet => Len(yielded) + Len(page) - index =< limit
    BY <1>1, <2>1 DEF IteratorInv, Allowed, Base
  <2>3. ASSUME ended
        PROVE  Len(yielded) >= promised \/ (kind = "executions" /\ Len(yielded) = limit)
    <3>1. CASE AtLimit
      BY <1>1, <2>1, <2>2, <3>1 DEF IteratorInv, AtLimit, NothingYet, Continues
    <3>2. CASE PageDone /\ token = NoToken
      BY <1>1, <2>1, <3>2 DEF IteratorInv, PageDone, EndReached, Base, Continues
    <3> QED  BY <1>1, <2>3, <3>1, <3>2 DEF IteratorInv, Ended
  <2> QED  BY <2>2, <2>3 DEF YieldedAll
<1> QED  BY <1>1, IteratorInvariant, PTL
==============================================================================
