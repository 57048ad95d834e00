-------------------------- MODULE SupplementProofs --------------------------
(***************************************************************************)
(* Proofs about Supplement, for any prices, sessions and bounds: first for *)
(* any number of requests that may die at any step, then for requests that *)
(* run one at a time.                                                      *)
(***************************************************************************)
EXTENDS Supplement, TLAPS

-----------------------------------------------------------------------------
(* Type correctness.                                                       *)

\* A request that works on a session works on a real one, and one that is about
\* to issue a credit has collected more than the price.
RequestOK(q) ==
    /\ q.pc \in {"store", "adopt", "read", "count"} => q.session \in Sessions
    /\ q.pc = "credit" => q.price < q.amount

Typed == TypeOK /\ \A r \in Requests : RequestOK(req[r])

\* An idle request is a request, and is well.
LEMMA IdleType == Idle \in Request /\ RequestOK(Idle)
  BY DEF Idle, Request, Steps, Settlements, RequestOK

\* Replacing a request by one that is well keeps the requests typed.
LEMMA BecomesType ==
  ASSUME Typed, NEW r \in Requests, NEW q \in Request, RequestOK(q), Becomes(r, q)
  PROVE  req' \in [Requests -> Request] /\ (\A p \in Requests : RequestOK(req[p]))'
  BY DEF Typed, TypeOK, Becomes, RequestOK

\* The larger of two integers, one of which is not negative, is not negative.
LEMMA LargerType ==
  ASSUME NEW a \in Nat, NEW b \in Int
  PROVE  Larger(a, b) \in Nat /\ Larger(a, b) >= b
  BY DEF Larger

\* What was collected is an amount, and so is what is outstanding.
LEMMA OutstandingType ==
  ASSUME Typed, NEW r \in Requests
  PROVE  Collected \in Nat /\ Outstanding(req[r]) \in Nat
<1>1. Base \in Nat /\ row.supplement \in Nat
  BY SupplementAssumption DEF Typed, TypeOK, Row
<1>2. req[r].price \in Nat /\ req[r].remaining \in Nat
  BY DEF Typed, TypeOK, Request
<1>3. Collected \in Nat
  BY <1>1 DEF Collected
<1>4. req[r].price - Collected \in Int
  BY <1>2, <1>3
<1>5. Larger(0, req[r].price - Collected) \in Nat
  BY <1>4, LargerType
<1> QED
  BY <1>2, <1>3, <1>5 DEF Outstanding

\* Counting an amount keeps the row typed.
LEMMA WithSupplementType ==
  ASSUME row \in Row, NEW details \in Nat, NEW amount \in Nat
  PROVE  WithSupplement(details, amount) \in Row /\ Closed(WithSupplement(details, amount)) \in Row
<1>1. details + amount \in Nat
  OBVIOUS
<1> DEFINE total == details + amount
<1> HIDE DEF total
<1>2. [row EXCEPT !.totalDue = 0, !.link = NoSession, !.supplement = total] \in Row
  BY <1>1 DEF Row, total
<1> QED
  BY <1>2 DEF WithSupplement, Closed, Row, total

\* The initial state is typed.
LEMMA InitTyped == Init => Typed
<1> SUFFICES ASSUME Init PROVE Typed
  OBVIOUS
<1>1. row \in Row /\ price \in Nat
  BY SupplementAssumption DEF Init, PaidRow, Row
<1>2. stripe \in [Sessions -> StripeSession]
  BY DEF Init, StripeSession
<1> QED
  BY <1>1, <1>2, IdleType DEF Init, Typed, TypeOK

\* Starting a request keeps the types.
LEMMA StartTypes ==
  ASSUME Typed, NEW r \in Requests, Start(r)
  PROVE  Typed'
<1> USE DEF Typed, TypeOK
<1>1. ASSUME NEW p \in Prices, StartMove(r, p) PROVE Typed'
  <2> DEFINE q == [Idle EXCEPT !.pc = "move", !.price = p, !.before = price,
                               !.details = row.supplement]
  <2>1. p \in Nat /\ row.supplement \in Nat
    BY SupplementAssumption DEF Row
  <2>2. q \in Request /\ RequestOK(q)
    BY <2>1, IdleType DEF Idle, Request, Steps, RequestOK
  <2> HIDE DEF q
  <2>3. Becomes(r, q)
    BY <1>1 DEF StartMove, q
  <2> QED
    BY <1>1, <2>2, <2>3, BecomesType DEF StartMove
<1>2. ASSUME NEW task \in Settlements, StartSettlement(r, task) PROVE Typed'
  <2> DEFINE q == [Idle EXCEPT !.pc = "collected", !.task = task, !.price = price,
                               !.details = row.supplement, !.remaining = row.totalDue,
                               !.session = row.link]
  <2>1. q \in Request /\ RequestOK(q)
    BY IdleType DEF Idle, Request, Steps, RequestOK, Row
  <2> HIDE DEF q
  <2>2. Becomes(r, q)
    BY <1>2 DEF StartSettlement, q
  <2> QED
    BY <1>2, <2>1, <2>2, BecomesType DEF StartSettlement
<1>3. ASSUME NEW s \in Sessions, AcceptSession(r, s) PROVE Typed'
  <2> DEFINE q == [Idle EXCEPT !.pc = "adopt", !.session = s, !.amount = stripe[s].amount]
  <2>1. q \in Request /\ RequestOK(q)
    BY IdleType DEF Idle, Request, Steps, RequestOK, StripeSession
  <2> HIDE DEF q
  <2>2. Becomes(r, q)
    BY <1>3 DEF AcceptSession, q
  <2> QED
    BY <1>3, <2>1, <2>2, BecomesType DEF AcceptSession
<1>4. ASSUME NEW s \in Sessions, RefuseSession(r, s) PROVE Typed'
  BY <1>4 DEF RefuseSession, vars
<1> QED
  BY <1>1, <1>2, <1>3, <1>4 DEF Start

\* The steps of a move keep the types.
LEMMA MoveTypes ==
  ASSUME Typed, NEW r \in Requests, MoveStep(r)
  PROVE  Typed'
<1> USE DEF Typed, TypeOK
<1>0. req[r] \in Request /\ RequestOK(req[r])
  OBVIOUS
<1>1. CASE WriteSlot(r)
  <2>1. [req[r] EXCEPT !.pc = "collect"] \in Request /\ RequestOK([req[r] EXCEPT !.pc = "collect"])
    BY <1>0 DEF Request, Steps, RequestOK
  <2>2. row' \in Row /\ price' \in Nat
    BY <1>0, <1>1 DEF WriteSlot, Row, Request
  <2> QED
    BY <1>1, <2>1, <2>2, BecomesType DEF WriteSlot
<1>2. CASE ReadCollected(r)
  <2> DEFINE q == [req[r] EXCEPT !.pc = "due", !.amount = Collected]
  <2>1. q \in Request /\ RequestOK(q)
    BY <1>0, OutstandingType DEF Request, Steps, RequestOK
  <2> HIDE DEF q
  <2>2. Becomes(r, q)
    BY <1>2 DEF ReadCollected, q
  <2> QED
    BY <1>2, <2>1, <2>2, BecomesType DEF ReadCollected
<1>3. CASE WriteDue(r)
  <2>1. Difference(req[r]) \in Int
    BY <1>0 DEF Difference, Request
  <2>2. Larger(0, Difference(req[r])) \in Nat
    BY <2>1, LargerType
  <2>3. row' \in Row
    BY <1>3, <2>2 DEF WriteDue, RepricedRow, Closed, Row
  <2>4. PICK creditLowerDifference \in BOOLEAN :
          Becomes(r, IF creditLowerDifference /\ Difference(req[r]) < -50
                     THEN [req[r] EXCEPT !.pc = "credit"] ELSE Idle)
    BY <1>3 DEF WriteDue
  <2>5. Difference(req[r]) < -50 =>
          /\ [req[r] EXCEPT !.pc = "credit"] \in Request
          /\ RequestOK([req[r] EXCEPT !.pc = "credit"])
    BY <1>0 DEF Request, Steps, RequestOK, Difference
  <2> QED
    BY <1>3, <2>3, <2>4, <2>5, IdleType, BecomesType DEF WriteDue
<1>4. CASE CreditDifference(r)
  <2>1. credited' \in Nat
    BY <1>0, <1>4 DEF CreditDifference, Difference, RequestOK, At, Request
  <2> QED
    BY <1>4, <2>1, IdleType, BecomesType DEF CreditDifference
<1> QED
  BY <1>1, <1>2, <1>3, <1>4 DEF MoveStep

\* The steps of a settlement keep the types.
LEMMA SettlementTypes ==
  ASSUME Typed, NEW r \in Requests, SettlementStep(r)
  PROVE  Typed'
<1> USE DEF Typed, TypeOK
<1>0. req[r] \in Request /\ RequestOK(req[r])
  OBVIOUS
<1>1. CASE FindNothingOutstanding(r) \/ SendLink(r)
  BY <1>1, IdleType, BecomesType DEF FindNothingOutstanding, SendLink
<1>2. CASE FindOutstanding(r)
  <2>1. PICK next \in {"reopen", "agency", "create", "send"} :
          Becomes(r, [req[r] EXCEPT !.pc = next, !.amount = Outstanding(req[r])])
    BY <1>2 DEF FindOutstanding
  <2> DEFINE q == [req[r] EXCEPT !.pc = next, !.amount = Outstanding(req[r])]
  <2>2. q \in Request /\ RequestOK(q)
    BY <1>0, OutstandingType DEF Request, Steps, RequestOK
  <2> HIDE DEF q
  <2>3. Becomes(r, q)
    BY <2>1 DEF q
  <2> QED
    BY <1>2, <2>2, <2>3, BecomesType DEF FindOutstanding
<1>3. CASE Reopen(r)
  <2>1. row' \in Row
    BY <1>0, <1>3 DEF Reopen, Closed, Row, Request
  <2> QED
    BY <1>3, <2>1, IdleType, BecomesType DEF Reopen
<1>4. CASE CreateSession(r)
  <2>1. PICK s \in Sessions :
          /\ stripe' = [stripe EXCEPT ![s] = [state |-> "created", amount |-> req[r].amount]]
          /\ Becomes(r, [req[r] EXCEPT !.pc = "store", !.session = s])
    BY <1>4 DEF CreateSession
  <2>2. stripe' \in [Sessions -> StripeSession]
    BY <1>0, <2>1 DEF StripeSession, Request
  <2> DEFINE q == [req[r] EXCEPT !.pc = "store", !.session = s]
  <2>3. q \in Request /\ RequestOK(q)
    BY <1>0 DEF Request, Steps, RequestOK
  <2> HIDE DEF q
  <2>4. Becomes(r, q)
    BY <2>1 DEF q
  <2> QED
    BY <1>4, <2>2, <2>3, <2>4, BecomesType DEF CreateSession
<1>5. CASE StoreLink(r)
  <2>1. req[r].session \in Sessions
    BY <1>0, <1>5 DEF StoreLink, RequestOK, At
  <2>2. row' \in Row
    BY <1>5, <2>1 DEF StoreLink, Row
  <2>3. stripe' \in [Sessions -> StripeSession]
    BY <1>5, <2>1 DEF StoreLink, StripeSession
  <2>4. [req[r] EXCEPT !.pc = "send"] \in Request /\ RequestOK([req[r] EXCEPT !.pc = "send"])
    BY <1>0 DEF Request, Steps, RequestOK
  <2> QED
    BY <1>5, <2>2, <2>3, <2>4, IdleType, BecomesType DEF StoreLink
<1>6. CASE SettleAtAgency(r)
  <2>1. req[r].details \in Nat /\ req[r].amount \in Nat
    BY <1>0 DEF Request
  <2>2. row' \in Row
    BY <1>6, <2>1, WithSupplementType DEF SettleAtAgency
  <2>3. counted' \in Nat
    BY <1>6, <2>1 DEF SettleAtAgency
  <2> QED
    BY <1>6, <2>2, <2>3, IdleType, BecomesType DEF SettleAtAgency
<1> QED
  BY <1>1, <1>2, <1>3, <1>4, <1>5, <1>6 DEF SettlementStep

\* The steps of a confirmation, and the death of a request, keep the types.
LEMMA ConfirmTypes ==
  ASSUME Typed, NEW r \in Requests, ConfirmStep(r) \/ Abort(r)
  PROVE  Typed'
<1> USE DEF Typed, TypeOK
<1>0. req[r] \in Request /\ RequestOK(req[r])
  OBVIOUS
<1>1. CASE AdoptSession(r)
  <2>1. row' \in Row
    BY <1>0, <1>1 DEF AdoptSession, Row, Request
  <2>2. [req[r] EXCEPT !.pc = "read"] \in Request /\ RequestOK([req[r] EXCEPT !.pc = "read"])
    BY <1>0, <1>1 DEF AdoptSession, At, Request, Steps, RequestOK
  <2> QED
    BY <1>1, <2>1, <2>2, BecomesType DEF AdoptSession
<1>2. CASE ReadDetails(r)
  <2> DEFINE q == [req[r] EXCEPT !.pc = "count", !.details = row.supplement]
  <2>1. q \in Request /\ RequestOK(q)
    BY <1>0, <1>2 DEF ReadDetails, At, Request, Steps, RequestOK, Row
  <2> HIDE DEF q
  <2>2. Becomes(r, q)
    BY <1>2 DEF ReadDetails, q
  <2> QED
    BY <1>2, <2>1, <2>2, BecomesType DEF ReadDetails
<1>3. CASE CountSupplement(r)
  <2>1. req[r].details \in Nat /\ req[r].amount \in Nat
    BY <1>0 DEF Request
  <2>2. row' \in Row
    BY <1>3, <2>1, WithSupplementType DEF CountSupplement
  <2>3. counted' \in Nat
    BY <1>3, <2>1 DEF CountSupplement
  <2>4. confirmed' \subseteq Sessions
    BY <1>0, <1>3 DEF CountSupplement, At, RequestOK
  <2> QED
    BY <1>3, <2>2, <2>3, <2>4, IdleType, BecomesType DEF CountSupplement
<1>4. CASE Abort(r)
  BY <1>4, IdleType, BecomesType DEF Abort
<1> QED
  BY <1>1, <1>2, <1>3, <1>4 DEF ConfirmStep

\* Every step keeps the types.
LEMMA NextTyped == Typed /\ [Next]_vars => Typed'
<1> SUFFICES ASSUME Typed, [Next]_vars PROVE Typed'
  OBVIOUS
<1>1. CASE UNCHANGED vars
  BY <1>1 DEF vars, Typed, TypeOK
<1>2. ASSUME NEW s \in Sessions, ClientPays(s) PROVE Typed'
  BY <1>2 DEF ClientPays, Typed, TypeOK, StripeSession
<1> QED
  BY <1>1, <1>2, StartTypes, MoveTypes, SettlementTypes, ConfirmTypes DEF Next

\* The variables keep their types: in particular no total, supplement or credit
\* becomes negative, however the requests interleave.
THEOREM TypeCorrect == Spec => []TypeOK
<1>1. Spec => []Typed
  BY InitTyped, NextTyped, PTL DEF Spec
<1> QED
  BY <1>1, PTL DEF Typed

-----------------------------------------------------------------------------
(* What a step does to the recorded supplement and to the copies of it.    *)

Step(r) == Start(r) \/ MoveStep(r) \/ SettlementStep(r) \/ ConfirmStep(r) \/ Abort(r)

\* The steps at which a request may still write or pass on its copy.
Holding == {"move", "collected", "agency", "count"}

\* The step leaves the supplement alone, writes a copy back, or adds to a copy
\* what it counts.
Recorded(r) ==
    \/ counted' = counted /\ row'.supplement = row.supplement
    \/ At(r, "move") /\ counted' = counted /\ row'.supplement = req[r].details
    \/ /\ At(r, "agency") \/ At(r, "count")
       /\ counted' = counted + req[r].amount
       /\ row'.supplement = req[r].details + req[r].amount

\* The request is unchanged, forgets its copy, or copies the row.
Copied(r) ==
    /\ \A p \in Requests : p # r => req'[p] = req[p]
    /\ req'[r].details \in {0, req[r].details, row.supplement}
    /\ req'[r].pc \in Holding =>
          /\ row'.supplement = row.supplement
          /\ \/ req'[r].details = row.supplement
             \/ req[r].pc \in Holding /\ req'[r].details = req[r].details

\* A request that becomes idle forgets its copy.
LEMMA IdleCopied ==
  ASSUME Typed, NEW r \in Requests, Becomes(r, Idle)
  PROVE  Copied(r)
  BY DEF Typed, TypeOK, Becomes, Copied, Idle, Holding

\* A request that goes on keeps its copy, or holds it no longer.
LEMMA GoesOnCopied ==
  ASSUME Typed, NEW r \in Requests, NEW q \in Request, Becomes(r, q),
         q.details = req[r].details,
         q.pc \in Holding => req[r].pc \in Holding /\ row'.supplement = row.supplement
  PROVE  Copied(r)
  BY DEF Typed, TypeOK, Becomes, Copied, Request

\* A request that copies the row.
LEMMA CopyCopied ==
  ASSUME Typed, NEW r \in Requests, NEW q \in Request, Becomes(r, q), row' = row,
         q.details = row.supplement
  PROVE  Copied(r)
  BY DEF Typed, TypeOK, Becomes, Copied, Request

\* The effects of the start of a request.
LEMMA StartEffects ==
  ASSUME Typed, NEW r \in Requests, Start(r)
  PROVE  Recorded(r) /\ Copied(r)
<1>1. ASSUME NEW p \in Prices, StartMove(r, p) PROVE Recorded(r) /\ Copied(r)
  BY <1>1 DEF StartMove, Typed, TypeOK, Becomes, Recorded, Copied, Idle
<1>2. ASSUME NEW task \in Settlements, StartSettlement(r, task)
      PROVE  Recorded(r) /\ Copied(r)
  BY <1>2 DEF StartSettlement, Typed, TypeOK, Becomes, Recorded, Copied, Idle
<1>3. ASSUME NEW s \in Sessions, AcceptSession(r, s) PROVE Recorded(r) /\ Copied(r)
  BY <1>3 DEF AcceptSession, Typed, TypeOK, Becomes, Recorded, Copied, Idle, Holding
<1>4. ASSUME NEW s \in Sessions, RefuseSession(r, s) PROVE Recorded(r) /\ Copied(r)
  BY <1>4 DEF RefuseSession, vars, Recorded, Copied
<1> QED
  BY <1>1, <1>2, <1>3, <1>4 DEF Start

\* The effects of a step of a move.
LEMMA MoveEffects ==
  ASSUME Typed, NEW r \in Requests, MoveStep(r)
  PROVE  Recorded(r) /\ Copied(r)
<1>0. row \in Row /\ req[r] \in Request /\ req \in [Requests -> Request]
  BY DEF Typed, TypeOK
<1>1. CASE WriteSlot(r)
  <2>1. Recorded(r)
    BY <1>0, <1>1 DEF WriteSlot, Recorded, Row
  <2> QED
    BY <1>0, <1>1, <2>1 DEF WriteSlot, Becomes, Copied, Holding, Request
<1>2. CASE ReadCollected(r)
  BY <1>0, <1>2 DEF ReadCollected, Becomes, Recorded, Copied, Holding, Request
<1>3. CASE WriteDue(r)
  <2>1. row'.supplement = row.supplement /\ counted' = counted
    BY <1>0, <1>3 DEF WriteDue, RepricedRow, Closed, Row
  <2>2. PICK q \in {[req[r] EXCEPT !.pc = "credit"], Idle} : Becomes(r, q)
    BY <1>3 DEF WriteDue
  <2>3. CASE q = Idle
    BY <2>1, <2>2, <2>3, IdleCopied DEF Recorded
  <2>4. CASE q = [req[r] EXCEPT !.pc = "credit"]
    BY <1>0, <2>1, <2>2, <2>4 DEF Recorded, Becomes, Copied, Holding, Request
  <2> QED
    BY <2>2, <2>3, <2>4
<1>4. CASE CreditDifference(r)
  BY <1>4, IdleCopied DEF CreditDifference, Recorded
<1> QED
  BY <1>1, <1>2, <1>3, <1>4 DEF MoveStep

\* The effects of a step of a settlement.
LEMMA SettlementEffects ==
  ASSUME Typed, NEW r \in Requests, SettlementStep(r)
  PROVE  Recorded(r) /\ Copied(r)
<1>0. row \in Row /\ req[r] \in Request /\ req \in [Requests -> Request]
  BY DEF Typed, TypeOK
<1>1. CASE FindNothingOutstanding(r) \/ SendLink(r)
  BY <1>1, IdleCopied DEF FindNothingOutstanding, SendLink, Recorded
<1>2. CASE FindOutstanding(r)
  BY <1>0, <1>2 DEF FindOutstanding, At, Becomes, Recorded, Copied, Holding, Request
<1>3. CASE Reopen(r)
  <2>1. row'.supplement = row.supplement
    BY <1>0, <1>3 DEF Reopen, Closed, Row
  <2> QED
    BY <1>3, <2>1, IdleCopied DEF Reopen, Recorded
<1>4. CASE CreateSession(r)
  BY <1>0, <1>4 DEF CreateSession, Becomes, Recorded, Copied, Holding, Request
<1>5. CASE StoreLink(r)
  <2>1. row'.supplement = row.supplement /\ counted' = counted
    BY <1>0, <1>5 DEF StoreLink, Row
  <2>2. PICK q \in {[req[r] EXCEPT !.pc = "send"], Idle} : Becomes(r, q)
    BY <1>5 DEF StoreLink
  <2>3. CASE q = Idle
    BY <2>1, <2>2, <2>3, IdleCopied DEF Recorded
  <2>4. CASE q = [req[r] EXCEPT !.pc = "send"]
    BY <1>0, <2>1, <2>2, <2>4 DEF Recorded, Becomes, Copied, Holding, Request
  <2> QED
    BY <2>2, <2>3, <2>4
<1>6. CASE SettleAtAgency(r)
  <2>1. row'.supplement = req[r].details + req[r].amount
    BY <1>0, <1>6 DEF SettleAtAgency, Closed, WithSupplement, Row
  <2> QED
    BY <1>6, <2>1, IdleCopied DEF SettleAtAgency, Recorded
<1> QED
  BY <1>1, <1>2, <1>3, <1>4, <1>5, <1>6 DEF SettlementStep

\* The effects of a step of a confirmation, and of the death of a request.
LEMMA ConfirmEffects ==
  ASSUME Typed, NEW r \in Requests, ConfirmStep(r) \/ Abort(r)
  PROVE  Recorded(r) /\ Copied(r)
<1>0. row \in Row /\ req[r] \in Request /\ req \in [Requests -> Request]
  BY DEF Typed, TypeOK
<1>1. CASE AdoptSession(r)
  BY <1>0, <1>1 DEF AdoptSession, Becomes, Recorded, Copied, Holding, Request, Row
<1>2. CASE ReadDetails(r)
  BY <1>0, <1>2 DEF ReadDetails, Becomes, Recorded, Copied, Request
<1>3. CASE CountSupplement(r)
  <2>1. row'.supplement = req[r].details + req[r].amount
    BY <1>0, <1>3 DEF CountSupplement, WithSupplement, Row
  <2> QED
    BY <1>3, <2>1, IdleCopied DEF CountSupplement, Recorded
<1>4. CASE Abort(r)
  BY <1>4, IdleCopied DEF Abort, Recorded
<1> QED
  BY <1>1, <1>2, <1>3, <1>4 DEF ConfirmStep

\* The effects of any step of a request.
LEMMA StepEffects ==
  ASSUME Typed, NEW r \in Requests, Step(r)
  PROVE  Recorded(r) /\ Copied(r)
  BY StartEffects, MoveEffects, SettlementEffects, ConfirmEffects DEF Step

-----------------------------------------------------------------------------
(* However the requests interleave and die, no money is invented.          *)

\* A copy of the recorded supplement that a request still has was recorded
\* once, and what was counted since only grew.
Invented ==
    /\ Typed
    /\ NothingInvented
    /\ \A r \in Requests : req[r].details <= counted

\* Every step keeps it.
LEMMA NextInvented == Invented /\ [Next]_vars => Invented'
<1> SUFFICES ASSUME Invented, [Next]_vars PROVE Invented'
  OBVIOUS
<1>1. Typed'
  BY NextTyped DEF Invented
<1>2. CASE UNCHANGED vars
  BY <1>1, <1>2 DEF vars, Invented, NothingInvented
<1>3. ASSUME NEW s \in Sessions, ClientPays(s) PROVE Invented'
  BY <1>1, <1>3 DEF ClientPays, Invented, NothingInvented
<1>4. ASSUME NEW r \in Requests, Step(r) PROVE Invented'
  <2>1. Recorded(r) /\ Copied(r)
    BY <1>4, StepEffects DEF Invented
  <2>2. row.supplement \in Nat /\ counted \in Nat /\ row.supplement <= counted
    BY DEF Invented, Typed, TypeOK, Row, NothingInvented
  <2>3. \A p \in Requests : /\ req[p].details \in Nat
                            /\ req[p].amount \in Nat
                            /\ req[p].details <= counted
    BY DEF Invented, Typed, TypeOK, Request
  <2>4. row'.supplement <= counted' /\ counted <= counted' /\ counted' \in Nat
    BY <2>1, <2>2, <2>3 DEF Recorded
  <2>5. ASSUME NEW p \in Requests PROVE req'[p].details <= counted'
    <3>1. req'[p].details \in {0, req[p].details, row.supplement}
      BY <2>1 DEF Copied
    <3> QED
      BY <3>1, <2>2, <2>3, <2>4
  <2> QED
    BY <1>1, <2>4, <2>5 DEF Invented, NothingInvented
<1> QED
  BY <1>2, <1>3, <1>4 DEF Next, Step

\* A stale copy of detailsJson that a move or a settlement writes back may lose
\* what was counted in between; it never records more than was counted.
THEOREM InventedNothing == Spec => []NothingInvented
<1>1. Init => Invented
  BY InitTyped DEF Init, PaidRow, Idle, Invented, NothingInvented
<1>2. Spec => []Invented
  BY <1>1, NextInvented, PTL DEF Spec
<1> QED
  BY <1>2, PTL DEF Invented

-----------------------------------------------------------------------------
(* Requests that run one at a time.  What a request has read then still    *)
(* holds when it writes.                                                   *)

Alone == \A q, r \in Requests : q = r

\* The copy of the supplement a request may still write is what is recorded.
Forgotten ==
    /\ Typed
    /\ NothingForgotten
    /\ \A r \in Requests : req[r].pc \in Holding => req[r].details = row.supplement

\* Every step of a request that runs alone keeps it.
LEMMA NextForgotten ==
  ASSUME Alone
  PROVE  Forgotten /\ [Next]_vars => Forgotten'
<1> SUFFICES ASSUME Forgotten, [Next]_vars PROVE Forgotten'
  OBVIOUS
<1>1. Typed'
  BY NextTyped DEF Forgotten
<1>2. CASE UNCHANGED vars
  BY <1>1, <1>2 DEF vars, Forgotten, NothingForgotten
<1>3. ASSUME NEW s \in Sessions, ClientPays(s) PROVE Forgotten'
  BY <1>1, <1>3 DEF ClientPays, Forgotten, NothingForgotten
<1>4. ASSUME NEW r \in Requests, Step(r) PROVE Forgotten'
  <2>1. Recorded(r) /\ Copied(r)
    BY <1>4, StepEffects DEF Forgotten
  <2>2. row.supplement = counted
    BY DEF Forgotten, NothingForgotten
  <2>3. req[r].pc \in Holding => req[r].details = row.supplement
    BY DEF Forgotten
  <2>4. row'.supplement = counted'
    BY <2>1, <2>2, <2>3 DEF Recorded, At, Holding
  <2>5. req'[r].pc \in Holding => req'[r].details = row'.supplement
    BY <2>1, <2>3 DEF Copied
  <2>6. \A p \in Requests : p = r
    BY DEF Alone
  <2> QED
    BY <1>1, <2>4, <2>5, <2>6 DEF Forgotten, NothingForgotten
<1> QED
  BY <1>2, <1>3, <1>4 DEF Next, Step

\* When requests run one at a time, even if they die, no move, settlement or
\* confirmation loses a supplement that was counted.
THEOREM ForgottenNothing ==
  ASSUME Alone
  PROVE  Spec => []NothingForgotten
<1>1. Init => Forgotten
  BY InitTyped DEF Init, PaidRow, Idle, Holding, Forgotten, NothingForgotten
<1>2. Spec => []Forgotten
  BY <1>1, NextForgotten, PTL DEF Spec
<1> QED
  BY <1>2, PTL DEF Forgotten

\* The session a request is about to adopt is the one the row names, if any.
AdoptsNamed ==
    \A r \in Requests : At(r, "adopt") => row.session \in {NoSession, req[r].session}

Linked == Typed /\ LinkIsAccepted /\ AdoptsNamed

\* Every step of a request that runs alone keeps it.
LEMMA NextLinked ==
  ASSUME Alone
  PROVE  Linked /\ [Next]_vars => Linked'
<1> SUFFICES ASSUME Linked, [Next]_vars PROVE Linked'
  OBVIOUS
<1>1. Typed'
  BY NextTyped DEF Linked
<1>2. CASE UNCHANGED vars
  BY <1>1, <1>2 DEF vars, Linked, LinkIsAccepted, AdoptsNamed, At
<1>3. ASSUME NEW s \in Sessions, ClientPays(s) PROVE Linked'
  BY <1>1, <1>3 DEF ClientPays, Linked, LinkIsAccepted, AdoptsNamed, At
<1>4. ASSUME NEW r \in Requests, Step(r) PROVE Linked'
  <2> USE DEF Linked, LinkIsAccepted, AdoptsNamed, At
  <2>0. /\ row \in Row /\ req \in [Requests -> Request]
        /\ NoSession \notin Sessions
        /\ \A p \in Requests : p = r
    BY SupplementAssumption DEF Typed, TypeOK, Alone
  <2>1. ASSUME row' = row, req'[r].pc # "adopt" PROVE Linked'
    BY <1>1, <2>0, <2>1
  <2>2. ASSUME row'.link = NoSession, req'[r].pc # "adopt" PROVE Linked'
    BY <1>1, <2>0, <2>2
  <2>3. CASE Start(r)
    <3>1. ASSUME NEW s \in Sessions, AcceptSession(r, s) PROVE Linked'
      BY <1>1, <2>0, <3>1 DEF AcceptSession, Accepts, Becomes, Idle
    <3>2. ASSUME NEW s \in Sessions, RefuseSession(r, s) PROVE Linked'
      BY <1>1, <3>2 DEF RefuseSession, vars
    <3>3. ASSUME NEW p \in Prices, StartMove(r, p) PROVE Linked'
      BY <2>0, <2>1, <3>3 DEF StartMove, Becomes, Idle
    <3>4. ASSUME NEW task \in Settlements, StartSettlement(r, task) PROVE Linked'
      BY <2>0, <2>1, <3>4 DEF StartSettlement, Becomes, Idle
    <3> QED
      BY <2>3, <3>1, <3>2, <3>3, <3>4 DEF Start
  <2>4. CASE MoveStep(r)
    <3>1. CASE WriteDue(r)
      <4>1. \/ row'.link = NoSession
            \/ row'.link = row.link /\ row'.session = row.session
        BY <2>0, <3>1 DEF WriteDue, RepricedRow, Closed, Row
      <4>2. req'[r].pc # "adopt"
        <5>1. PICK q \in {[req[r] EXCEPT !.pc = "credit"], Idle} : Becomes(r, q)
          BY <3>1 DEF WriteDue
        <5> QED
          BY <2>0, <5>1 DEF Becomes, Idle, Request
      <4> QED
        BY <1>1, <2>0, <4>1, <4>2
    <3>2. CASE WriteSlot(r)
      <4>1. row'.link = row.link /\ row'.session = row.session
        BY <2>0, <3>2 DEF WriteSlot, Row
      <4>2. req'[r].pc # "adopt"
        BY <2>0, <3>2 DEF WriteSlot, Becomes, Request
      <4> QED
        BY <1>1, <2>0, <4>1, <4>2
    <3>3. CASE ReadCollected(r)
      BY <2>0, <2>1, <3>3 DEF ReadCollected, Becomes, Request
    <3>4. CASE CreditDifference(r)
      BY <2>0, <2>1, <3>4 DEF CreditDifference, Becomes, Idle
    <3> QED
      BY <2>4, <3>1, <3>2, <3>3, <3>4 DEF MoveStep
  <2>5. CASE SettlementStep(r)
    <3>1. CASE FindNothingOutstanding(r) \/ SendLink(r)
      BY <2>0, <2>1, <3>1 DEF FindNothingOutstanding, SendLink, Becomes, Idle
    <3>2. CASE FindOutstanding(r)
      <4>1. PICK next \in {"reopen", "agency", "create", "send"} :
              Becomes(r, [req[r] EXCEPT !.pc = next, !.amount = Outstanding(req[r])])
        BY <3>2 DEF FindOutstanding
      <4>2. req'[r].pc = next
        BY <2>0, <4>1 DEF Becomes, Request
      <4> QED
        BY <2>1, <3>2, <4>2 DEF FindOutstanding
    <3>3. CASE Reopen(r)
      BY <2>0, <2>2, <3>3 DEF Reopen, Closed, Row, Becomes, Idle
    <3>4. CASE CreateSession(r)
      BY <2>0, <2>1, <3>4 DEF CreateSession, Becomes, Request
    <3>5. CASE StoreLink(r)
      <4>1. row'.session = row'.link
        BY <2>0, <3>5 DEF StoreLink, Row
      <4>2. PICK q \in {[req[r] EXCEPT !.pc = "send"], Idle} : Becomes(r, q)
        BY <3>5 DEF StoreLink
      <4>3. req'[r].pc # "adopt"
        BY <2>0, <4>2 DEF Becomes, Idle, Request
      <4> QED
        BY <1>1, <2>0, <4>1, <4>3
    <3>6. CASE SettleAtAgency(r)
      BY <2>0, <2>2, <3>6 DEF SettleAtAgency, Closed, WithSupplement, Row, Becomes, Idle
    <3> QED
      BY <2>5, <3>1, <3>2, <3>3, <3>4, <3>5, <3>6 DEF SettlementStep
  <2>6. CASE ConfirmStep(r) \/ Abort(r)
    <3>1. CASE AdoptSession(r)
      <4>1. row.session \in {NoSession, req[r].session}
        BY <3>1 DEF AdoptSession
      <4>2. row'.session = req[r].session /\ row'.link = row.link
        BY <2>0, <3>1 DEF AdoptSession, Row
      <4>3. row.link = NoSession \/ row.link \in Sessions
        BY <2>0 DEF Row
      <4>4. req'[r].pc # "adopt"
        BY <2>0, <3>1 DEF AdoptSession, Becomes, Request
      <4> QED
        BY <1>1, <2>0, <4>1, <4>2, <4>3, <4>4
    <3>2. CASE ReadDetails(r)
      BY <2>0, <2>1, <3>2 DEF ReadDetails, Becomes, Request
    <3>3. CASE CountSupplement(r)
      BY <2>0, <2>2, <3>3 DEF CountSupplement, WithSupplement, Row, Becomes, Idle
    <3>4. CASE Abort(r)
      BY <2>0, <2>1, <3>4 DEF Abort, Becomes, Idle
    <3> QED
      BY <2>6, <3>1, <3>2, <3>3, <3>4 DEF ConfirmStep
  <2> QED
    BY <1>4, <2>3, <2>4, <2>5, <2>6 DEF Step
<1> QED
  BY <1>2, <1>3, <1>4 DEF Next, Step

\* When requests run one at a time, even if they die, a link the client can
\* follow leads to a session whose payment the confirmation accepts.
THEOREM AcceptedLink ==
  ASSUME Alone
  PROVE  Spec => []LinkIsAccepted
<1>1. Init => Linked
  BY InitTyped DEF Init, PaidRow, Idle, Linked, LinkIsAccepted, AdoptsNamed, At
<1>2. Spec => []Linked
  BY <1>1, NextLinked, PTL DEF Spec
<1> QED
  BY <1>2, PTL DEF Linked

\* What a request knows before it writes what is due.
KnowsDue(r) ==
    /\ At(r, "collect") \/ At(r, "due") \/ At(r, "collected") => req[r].price = price
    /\ At(r, "due") => req[r].amount = Collected
    /\ At(r, "collected") => req[r].remaining = row.totalDue
    /\ At(r, "reopen") => \/ req[r].amount <= Larger(0, price - Collected)
                          \/ req[r].amount = row.totalDue

Owed == Typed /\ \A r \in Requests : KnowsDue(r)

\* Every step of a request that runs alone keeps it.
LEMMA NextOwed ==
  ASSUME Alone
  PROVE  Owed /\ [Next]_vars => Owed'
<1> SUFFICES ASSUME Owed, [Next]_vars PROVE Owed'
  OBVIOUS
<1>1. Typed'
  BY NextTyped DEF Owed
<1>2. CASE UNCHANGED vars
  BY <1>1, <1>2 DEF vars, Owed, KnowsDue, At, Collected, Larger
<1>3. ASSUME NEW s \in Sessions, ClientPays(s) PROVE Owed'
  BY <1>1, <1>3 DEF ClientPays, Owed, KnowsDue, At, Collected, Larger
<1>4. ASSUME NEW r \in Requests, Step(r) PROVE Owed'
  <2>0. /\ req \in [Requests -> Request] /\ req[r] \in Request
        /\ \A p \in Requests : p = r
        /\ KnowsDue(r)
    BY DEF Typed, TypeOK, Alone, Owed
  <2>1. ASSUME KnowsDue(r)' PROVE Owed'
    BY <1>1, <2>0, <2>1 DEF Owed
  <2>2. ASSUME req'[r].pc \notin {"collect", "due", "collected", "reopen"} PROVE Owed'
    BY <2>1, <2>2 DEF KnowsDue, At
  <2>3. CASE WriteSlot(r)
    BY <2>0, <2>1, <2>3 DEF WriteSlot, KnowsDue, At, Becomes, Request
  <2>4. CASE ReadCollected(r)
    <3>1. row' = row /\ price' = price /\ req[r].price = price
      BY <2>0, <2>4 DEF ReadCollected, KnowsDue, At
    <3>2. req'[r].pc = "due" /\ req'[r].amount = Collected /\ req'[r].price = req[r].price
      BY <2>0, <2>4 DEF ReadCollected, Becomes, Request
    <3> QED
      BY <2>1, <3>1, <3>2 DEF KnowsDue, At, Collected
  <2>5. ASSUME NEW task \in Settlements, StartSettlement(r, task) PROVE Owed'
    BY <2>0, <2>1, <2>5 DEF StartSettlement, KnowsDue, At, Becomes, Idle
  <2>6. CASE FindOutstanding(r)
    <3>1. PICK next \in {"reopen", "agency", "create", "send"} :
            Becomes(r, [req[r] EXCEPT !.pc = next, !.amount = Outstanding(req[r])])
      BY <2>6 DEF FindOutstanding
    <3>2. req'[r].pc = next /\ req'[r].amount = Outstanding(req[r])
      BY <2>0, <3>1 DEF Becomes, Request
    <3>3. /\ req[r].price = price /\ req[r].remaining = row.totalDue
          /\ row' = row /\ price' = price
      BY <2>0, <2>6 DEF FindOutstanding, KnowsDue, At
    <3>4. Larger(0, price - Collected) \in Nat
      <4>1. price - Collected \in Int
        BY OutstandingType DEF Owed, Typed, TypeOK
      <4> QED
        BY <4>1, LargerType
    <3>5. \/ Outstanding(req[r]) <= Larger(0, price - Collected)
          \/ Outstanding(req[r]) = row.totalDue
      BY <3>3, <3>4 DEF Outstanding
    <3>6. Larger(0, price - Collected)' = Larger(0, price - Collected)
      BY <3>3 DEF Larger, Collected
    <3> QED
      BY <2>1, <3>2, <3>3, <3>5, <3>6 DEF KnowsDue, At
  <2>7. CASE WriteDue(r) \/ CreditDifference(r)
    <3>1. PICK q \in {[req[r] EXCEPT !.pc = "credit"], Idle} : Becomes(r, q)
      BY <2>7 DEF WriteDue, CreditDifference
    <3> QED
      BY <2>0, <2>2, <3>1 DEF Becomes, Idle, Request
  <2>8. CASE StoreLink(r)
    <3>1. PICK q \in {[req[r] EXCEPT !.pc = "send"], Idle} : Becomes(r, q)
      BY <2>8 DEF StoreLink
    <3> QED
      BY <2>0, <2>2, <3>1 DEF Becomes, Idle, Request
  <2>9. CASE \/ FindNothingOutstanding(r) \/ SendLink(r) \/ Reopen(r)
             \/ SettleAtAgency(r) \/ CountSupplement(r) \/ Abort(r)
    <3>1. Becomes(r, Idle)
      BY <2>9 DEF FindNothingOutstanding, SendLink, Reopen, SettleAtAgency,
                  CountSupplement, Abort
    <3> QED
      BY <2>0, <2>2, <3>1 DEF Becomes, Idle
  <2>10. CASE CreateSession(r) \/ AdoptSession(r) \/ ReadDetails(r)
    <3>1. CASE CreateSession(r)
      BY <2>0, <2>2, <3>1 DEF CreateSession, Becomes, Request
    <3>2. CASE AdoptSession(r)
      BY <2>0, <2>2, <3>2 DEF AdoptSession, Becomes, Request
    <3>3. CASE ReadDetails(r)
      BY <2>0, <2>2, <3>3 DEF ReadDetails, Becomes, Request
    <3> QED
      BY <2>10, <3>1, <3>2, <3>3
  <2>11. ASSUME NEW s \in Sessions, RefuseSession(r, s) \/ AcceptSession(r, s) PROVE Owed'
    <3>1. CASE RefuseSession(r, s)
      BY <1>1, <3>1 DEF RefuseSession, vars, Owed, KnowsDue, At, Collected, Larger
    <3>2. CASE AcceptSession(r, s)
      BY <2>0, <2>2, <3>2 DEF AcceptSession, Becomes, Idle
    <3> QED
      BY <2>11, <3>1, <3>2
  <2>12. ASSUME NEW p \in Prices, StartMove(r, p) PROVE Owed'
    BY <2>0, <2>2, <2>12 DEF StartMove, Becomes, Idle
  <2> QED
    BY <1>4, <2>3, <2>4, <2>5, <2>6, <2>7, <2>8, <2>9, <2>10, <2>11, <2>12
    DEF Step, Start, MoveStep, SettlementStep, ConfirmStep
<1> QED
  BY <1>2, <1>3, <1>4 DEF Next, Step

\* What is written as due is owed, because the price and what was collected are
\* still what the request has read.
LEMMA OwedIsWritten ==
  ASSUME Owed, NEW r \in Requests, WriteDue(r) \/ Reopen(r)
  PROVE  \/ row'.totalDue <= Larger(0, price - Collected)
         \/ row'.totalDue = row.totalDue
<1>0. row \in Row /\ req[r] \in Request /\ price \in Nat /\ Collected \in Nat
  BY OutstandingType DEF Owed, Typed, TypeOK
<1>1. CASE WriteDue(r)
  <2>1. Difference(req[r]) = price - Collected
    BY <1>1 DEF WriteDue, Difference, Owed, KnowsDue
  <2>2. row'.totalDue = Larger(0, price - Collected)
    BY <1>0, <1>1, <2>1 DEF WriteDue, RepricedRow, Closed, Row
  <2>3. price - Collected \in Int
    BY <1>0
  <2>4. Larger(0, price - Collected) \in Nat
    BY <2>3, LargerType
  <2> QED
    BY <2>2, <2>4
<1>2. CASE Reopen(r)
  <2>1. row'.totalDue = req[r].amount
    BY <1>0, <1>2 DEF Reopen, Closed, Row
  <2> QED
    BY <1>2, <2>1 DEF Reopen, Owed, KnowsDue
<1> QED
  BY <1>1, <1>2

\* When requests run one at a time, even if they die, a move or a reopening
\* never asks the client for more than the price less what was collected, nor
\* for more than was asked before.
THEOREM OnlyOwedIsDue ==
  ASSUME Alone
  PROVE  Spec => DueIsOwed
<1>1. Init => Owed
  BY InitTyped DEF Init, Idle, Owed, KnowsDue, At
<1>2. Spec => []Owed
  BY <1>1, NextOwed, PTL DEF Spec
<1>3. Owed /\ [Next]_vars =>
        [ \A r \in Requests : WriteDue(r) \/ Reopen(r) =>
            \/ row'.totalDue <= Larger(0, price - Collected)
            \/ row'.totalDue = row.totalDue ]_vars
  BY OwedIsWritten
<1> QED
  BY <1>2, <1>3, PTL DEF Spec, DueIsOwed
=============================================================================
