--------------------------- MODULE CheckoutProofs ---------------------------
(***************************************************************************)
(* Proofs about Checkout, for any number of sessions, requests, prices,    *)
(* holds and failures.                                                     *)
(***************************************************************************)
EXTENDS Checkout, TLAPS

-----------------------------------------------------------------------------
(* Type correctness.                                                       *)

\* The price chosen for fields that hold nothing yet is one of the prices.
LEMMA AnyPriceType == AnyPrice \in Prices
  BY CheckoutAssumption DEF AnyPrice

\* The row create() leaves is a row.
LEMMA CreatedRowType == \A p \in Prices : CreatedRow(p) \in Row
  BY CheckoutAssumption DEF CreatedRow, Row

\* The row whose fields hold nothing yet is a row.
LEMMA UnreadType == Unread \in Row
  BY CreatedRowType, AnyPriceType DEF Unread

\* An idle request is a request.
LEMMA IdleType == Idle \in Request
  BY UnreadType, AnyPriceType, CheckoutAssumption DEF Idle, Request, Steps

\* Replacing one request by a request keeps the requests typed.
LEMMA BecomesType ==
  ASSUME req \in [Requests -> Request],
         NEW r \in Requests, NEW q \in Request, Becomes(r, q)
  PROVE  req' \in [Requests -> Request]
  BY DEF Becomes

\* Answering keeps the requests and the events typed.
LEMMA AnswerType ==
  ASSUME TypeOK, NEW r \in Requests, Answer(r)
  PROVE  req' \in [Requests -> Request] /\ event' \in [Sessions -> Event]
<1>1. req' \in [Requests -> Request]
  BY IdleType, BecomesType DEF TypeOK, Answer
<1>2. event' \in [Sessions -> Event]
  BY DEF TypeOK, Answer, Event
<1> QED
  BY <1>1, <1>2

\* Going to sign keeps the requests typed.
LEMMA GotoSignType ==
  ASSUME TypeOK, NEW r \in Requests, GotoSign(r)
  PROVE  req' \in [Requests -> Request]
<1> DEFINE q == [Idle EXCEPT !.pc = "sign", !.webhook = req[r].webhook,
                   !.session = IF req[r].webhook THEN req[r].session ELSE NoSession]
<1>1. q \in Request
  BY IdleType DEF TypeOK, Request, Steps
<1> QED
  BY <1>1, BecomesType DEF TypeOK, GotoSign

\* The actions of the confirmation mail keep the types.
LEMMA SendTypes ==
  ASSUME TypeOK, NEW r \in Requests, StartSend(r) \/ SendStep(r)
  PROVE  TypeOK'
<1>1. CASE StartSend(r)
  <2> DEFINE q == IF res.captured
                  THEN [Idle EXCEPT !.pc = "mail"]
                  ELSE [Idle EXCEPT !.pc = "reprice", !.amount = price,
                                    !.seen = [Unread EXCEPT !.totalDue = res.totalDue]]
  <2>1. [Unread EXCEPT !.totalDue = res.totalDue] \in Row
    BY UnreadType DEF TypeOK, Row
  <2>2. q \in Request
    BY <2>1, IdleType DEF TypeOK, Request, Steps
  <2> QED
    BY <1>1, <2>2, BecomesType DEF TypeOK, StartSend
<1>2. CASE Reprice(r)
  <2>1. [Idle EXCEPT !.pc = "mail"] \in Request
    BY IdleType DEF Request, Steps
  <2>2. res' \in Row
    BY <1>2 DEF TypeOK, Reprice, Row, Request
  <2> QED
    BY <1>2, <2>1, <2>2, BecomesType DEF TypeOK, Reprice
<1>3. CASE FindNothingDue(r)
  <2> DEFINE q == [Idle EXCEPT !.pc = "free",
                     !.seen = [Unread EXCEPT !.captured = res.captured,
                                             !.totalDue = res.totalDue]]
  <2>1. [Unread EXCEPT !.captured = res.captured, !.totalDue = res.totalDue] \in Row
    BY UnreadType DEF TypeOK, Row
  <2>2. q \in Request
    BY <2>1, IdleType DEF Request, Steps
  <2> QED
    BY <1>3, <2>2, BecomesType DEF TypeOK, FindNothingDue
<1>4. CASE GrantFree(r)
  <2>1. res' \in Row
    BY <1>4 DEF TypeOK, GrantFree, GrantedRow, Row, Request
  <2> QED
    BY <1>4, <2>1, GotoSignType DEF TypeOK, GrantFree
<1>5. CASE CreateSession(r)
  <2>1. PICK s \in Sessions :
             /\ stripe' = [stripe EXCEPT ![s] = [state |-> "created",
                                                 amount |-> res.totalDue]]
             /\ Becomes(r, [Idle EXCEPT !.pc = "store", !.session = s,
                                        !.amount = res.totalDue])
    BY <1>5 DEF CreateSession
  <2>2. [Idle EXCEPT !.pc = "store", !.session = s, !.amount = res.totalDue] \in Request
    BY IdleType DEF TypeOK, Request, Steps, Row
  <2>3. stripe' \in [Sessions -> StripeSession]
    BY <2>1 DEF TypeOK, StripeSession, Row
  <2> QED
    BY <1>5, <2>1, <2>2, <2>3, BecomesType DEF TypeOK, CreateSession
<1>6. CASE StoreLink(r)
  <2>1. res' \in Row
    BY <1>6 DEF TypeOK, StoreLink, Row, Request
  <2>2. stripe' \in [Sessions -> StripeSession]
    BY <1>6 DEF TypeOK, StoreLink, StripeSession
  <2> QED
    BY <1>6, <2>1, <2>2, GotoSignType DEF TypeOK, StoreLink
<1>7. CASE SendSignMail(r)
  BY <1>7, AnswerType DEF TypeOK, SendSignMail, Row
<1> QED
  BY <1>1, <1>2, <1>3, <1>4, <1>5, <1>6, <1>7 DEF SendStep

\* The starters and the actions of a confirmation keep the types.
LEMMA ConfirmTypes ==
  ASSUME TypeOK, NEW r \in Requests,
         \/ Poll(r)
         \/ \E s \in Sessions : ReceiveWebhook(r, s) \/ OpenSuccessPage(r, s)
         \/ ConfirmStep(r)
  PROVE  TypeOK'
<1>1. CASE Poll(r)
  <2>1. [Idle EXCEPT !.pc = "check", !.session = res.session] \in Request
    BY IdleType DEF TypeOK, Request, Steps, Row
  <2> QED
    BY <1>1, <2>1, BecomesType DEF TypeOK, Poll
<1>2. ASSUME NEW s \in Sessions, ReceiveWebhook(r, s) \/ OpenSuccessPage(r, s)
      PROVE  TypeOK'
  <2>1. /\ [Idle EXCEPT !.pc = "check", !.session = s, !.webhook = TRUE] \in Request
        /\ [Idle EXCEPT !.pc = "check", !.session = s] \in Request
    BY IdleType DEF Request, Steps
  <2> QED
    BY <1>2, <2>1, BecomesType DEF TypeOK, ReceiveWebhook, OpenSuccessPage
<1>3. CASE AcceptSession(r)
  <2>1. [req[r] EXCEPT !.pc = "read", !.amount = res.totalDue] \in Request
    BY ZenonT(30) DEF TypeOK, Request, Steps, Row
  <2> QED
    BY <1>3, <2>1, BecomesType DEF TypeOK, AcceptSession
<1>4. CASE RefuseSession(r)
  BY <1>4, AnswerType DEF TypeOK, RefuseSession
<1>5. CASE ReadRow(r)
  <2> DEFINE row == [Unread EXCEPT !.status = res.status, !.captured = res.captured,
                                   !.totalDue = res.totalDue, !.deposit = res.deposit]
  <2>1. row \in Row
    BY UnreadType DEF TypeOK, Row
  <2>2. [req[r] EXCEPT !.pc = "apply", !.seen = row] \in Request
    BY <2>1 DEF TypeOK, Request, Steps
  <2> QED
    BY <1>5, <2>2, BecomesType DEF TypeOK, ReadRow
<1>6. CASE ApplyPayment(r)
  <2> DEFINE row == [Unread EXCEPT !.deposit = req[r].seen.deposit]
  <2>1. row \in Row
    BY UnreadType DEF TypeOK, Row, Request
  <2>2. [req[r] EXCEPT !.pc = "deposit", !.amount = AnyPrice, !.seen = row] \in Request
    BY <2>1, AnyPriceType DEF TypeOK, Request, Steps
  <2>3. res' \in Row
    BY ZenonT(30), <1>6 DEF TypeOK, ApplyPayment, CapturedRow, Row, Request
  <2> QED
    BY <1>6, <2>2, <2>3, BecomesType DEF TypeOK, ApplyPayment
<1>7. CASE SkipHold(r)
  BY <1>7, GotoSignType DEF TypeOK, SkipHold
<1>8. CASE PlaceHold(r)
  <2>1. holds + 1 \in 0..MaxHolds
    BY <1>8, CheckoutAssumption DEF TypeOK, PlaceHold
  <2>2. [req[r] EXCEPT !.pc = "record", !.hold = holds + 1] \in Request
    BY <2>1 DEF TypeOK, Request, Steps
  <2> QED
    BY <1>8, <2>1, <2>2, BecomesType DEF TypeOK, PlaceHold
<1>9. CASE FailHold(r)
  BY <1>9, GotoSignType DEF TypeOK, FailHold
<1>10. CASE RecordHold(r)
  <2>1. res' \in Row
    BY <1>10 DEF TypeOK, RecordHold, Row, Request
  <2> QED
    BY <1>10, <2>1, GotoSignType DEF TypeOK, RecordHold
<1> QED
  BY <1>1, <1>2, <1>3, <1>4, <1>5, <1>6, <1>7, <1>8, <1>9, <1>10 DEF ConfirmStep

\* Cancelling, restoring and dying keep the types.
LEMMA CancelTypes ==
  ASSUME TypeOK, NEW r \in Requests,
         StartCancel(r) \/ Cancel(r) \/ StartRestore(r) \/ Restore(r) \/ Abort(r)
  PROVE  TypeOK'
<1>1. CASE StartCancel(r)
  <2>1. [Unread EXCEPT !.baseline = res.baseline] \in Row
    BY UnreadType DEF TypeOK, Row
  <2>2. [Idle EXCEPT !.pc = "cancel", !.seen = [Unread EXCEPT !.baseline = res.baseline]]
          \in Request
    BY <2>1, IdleType DEF Request, Steps
  <2> QED
    BY <1>1, <2>2, BecomesType DEF TypeOK, StartCancel
<1>2. CASE Cancel(r)
  <2>1. res' \in Row
    BY <1>2 DEF TypeOK, Cancel, Row, Request
  <2> QED
    BY <1>2, <2>1, AnswerType DEF TypeOK, Cancel
<1>3. CASE StartRestore(r)
  <2> DEFINE row == [Unread EXCEPT !.captured = res.captured, !.totalDue = res.totalDue,
                                   !.baseline = res.baseline]
  <2>1. row \in Row
    BY UnreadType DEF TypeOK, Row
  <2>2. [Idle EXCEPT !.pc = "restore", !.amount = price, !.seen = row] \in Request
    BY <2>1, IdleType DEF TypeOK, Request, Steps
  <2> QED
    BY <1>3, <2>2, BecomesType DEF TypeOK, StartRestore
<1>4. CASE Restore(r)
  <2>1. res' \in Row
    BY <1>4 DEF TypeOK, Restore, RestoredStatus, Row, Request
  <2> QED
    BY <1>4, <2>1, AnswerType DEF TypeOK, Restore
<1>5. CASE Abort(r)
  <2>1. aborts + 1 \in 0..MaxAborts
    BY <1>5, CheckoutAssumption DEF TypeOK, Abort
  <2> QED
    BY <1>5, <2>1, IdleType, BecomesType DEF TypeOK, Abort
<1> QED
  BY <1>1, <1>2, <1>3, <1>4, <1>5

\* The initial states are typed.
LEMMA TypeInit == Init => TypeOK
<1> SUFFICES ASSUME Init PROVE TypeOK
  OBVIOUS
<1>1. [Idle EXCEPT !.pc = "mail"] \in Request
  BY IdleType DEF Request, Steps
<1>2. req \in [Requests -> Request]
  BY <1>1, IdleType DEF Init
<1>3. stripe \in [Sessions -> StripeSession]
  BY AnyPriceType DEF Init, StripeSession
<1>4. res \in Row
  BY CreatedRowType DEF Init
<1>5. event \in [Sessions -> Event]
  BY DEF Init, Event
<1>6. 0 \in 0..MaxHolds /\ 0 \in 0..MaxAborts
  BY CheckoutAssumption
<1> QED
  BY <1>2, <1>3, <1>4, <1>5, <1>6 DEF Init, TypeOK

\* Every step keeps the types.
LEMMA TypeStep == TypeOK /\ [Next]_vars => TypeOK'
<1> SUFFICES ASSUME TypeOK, [Next]_vars PROVE TypeOK'
  OBVIOUS
<1>1. ASSUME NEW r \in Requests, Start(r) \/ Continue(r) \/ Abort(r) PROVE TypeOK'
  BY <1>1, SendTypes, ConfirmTypes, CancelTypes DEF Start, Continue
<1>2. ASSUME NEW s \in Sessions, ClientPays(s) PROVE TypeOK'
  BY <1>2 DEF TypeOK, ClientPays, StripeSession, Event
<1>3. CASE ChangePrice
  BY <1>3 DEF TypeOK, ChangePrice
<1>4. CASE UNCHANGED vars
  BY <1>4 DEF TypeOK, vars
<1> QED
  BY <1>1, <1>2, <1>3, <1>4 DEF Next

\* Every behaviour keeps the variables in their types.
THEOREM TypeCorrect == Spec => []TypeOK
  BY TypeInit, TypeStep, PTL DEF Spec

-----------------------------------------------------------------------------
(* The inductive invariant.  The five invariants of the specification are  *)
(* not inductive alone: a write uses what its request read earlier, so the *)
(* invariant says of every running request what it may still rely on.      *)

Collected(amount) == \E s \in Sessions : Paid(s) /\ stripe[s].amount = amount

\* A request that works on a session works on a real one; the session it is
\* about to publish is still unpublished, the payment it is about to apply is
\* paid and of the amount expected, the total it found free is free; what it
\* has read of the capture and of the baseline is still backed.
RequestOK(r) ==
    /\ req[r].pc \in {"store", "check", "read", "apply"} => req[r].session \in Sessions
    /\ req[r].pc = "store" => stripe[req[r].session].state = "created"
    /\ req[r].pc = "free" => IsFree(req[r].seen.totalDue)
    /\ req[r].pc \in {"read", "apply"} =>
          /\ Paid(req[r].session)
          /\ stripe[req[r].session].amount = req[r].amount
          /\ req[r].amount >= MinCharge
    /\ req[r].seen.captured => res.captured
    /\ req[r].seen.baseline > 0 => Collected(req[r].seen.baseline)

RequestsOK == \A r \in Requests : RequestOK(r)

\* No two requests are about to publish the same session.
StoresApart ==
    \A q, r \in Requests :
        q # r /\ At(q, "store") /\ At(r, "store") => req[q].session # req[r].session

IInv ==
    /\ TypeOK
    /\ RequestsOK
    /\ StoresApart
    /\ BaselineIsAPayment
    /\ PaidStatusMeansCaptured
    /\ ClosedLinkIsPaid

-----------------------------------------------------------------------------
(* What a step can change.                                                 *)

\* The seven writes of the reservation's row.
RowWrite(r) ==
    \/ Reprice(r)
    \/ GrantFree(r)
    \/ StoreLink(r)
    \/ ApplyPayment(r)
    \/ RecordHold(r)
    \/ Cancel(r)
    \/ Restore(r)

\* Only these seven writes change the row.
LEMMA RowChanges ==
  ASSUME [Next]_vars
  PROVE  UNCHANGED res \/ \E r \in Requests : RowWrite(r)
<1>1. ASSUME NEW r \in Requests, Start(r) \/ Continue(r) \/ Abort(r)
      PROVE  UNCHANGED res \/ RowWrite(r)
  BY <1>1 DEF Start, Continue, SendStep, ConfirmStep, Abort, RowWrite, StartSend,
     FindNothingDue, CreateSession, SendSignMail, StartCancel, StartRestore, Poll,
     ReceiveWebhook, OpenSuccessPage, AcceptSession, RefuseSession, ReadRow,
     SkipHold, PlaceHold, FailHold
<1> QED
  BY <1>1 DEF Next, ClientPays, ChangePrice, vars

\* Stripe's sessions change when one is created, published or paid.
LEMMA StripeChanges ==
  ASSUME [Next]_vars
  PROVE  \/ UNCHANGED stripe
         \/ \E r \in Requests : CreateSession(r) \/ StoreLink(r)
         \/ \E s \in Sessions : ClientPays(s)
<1>1. ASSUME NEW r \in Requests, Start(r) \/ Continue(r) \/ Abort(r)
      PROVE  UNCHANGED stripe \/ CreateSession(r) \/ StoreLink(r)
  BY <1>1 DEF Start, Continue, SendStep, ConfirmStep, Abort, StartSend, Reprice,
     FindNothingDue, GrantFree, SendSignMail, StartCancel, Cancel, StartRestore,
     Restore, Poll, ReceiveWebhook, OpenSuccessPage, AcceptSession, RefuseSession,
     ReadRow, ApplyPayment, SkipHold, PlaceHold, FailHold, RecordHold
<1> QED
  BY <1>1 DEF Next, ChangePrice, vars

\* A step is of one request,
LEMMA ActsOnItself ==
  ASSUME TypeOK, NEW r \in Requests, Start(r) \/ Continue(r) \/ Abort(r),
         NEW x \in Requests, x # r
  PROVE  req'[x] = req[x]
<1>1. \E q : Becomes(r, q)
  BY DEF Start, Continue, SendStep, ConfirmStep, Abort, StartSend, Reprice,
     FindNothingDue, GrantFree, CreateSession, StoreLink, SendSignMail,
     StartCancel, Cancel, StartRestore, Restore, Poll, ReceiveWebhook,
     OpenSuccessPage, AcceptSession, RefuseSession, ReadRow, ApplyPayment,
     SkipHold, PlaceHold, FailHold, RecordHold, GotoSign, Answer
<1> QED
  BY <1>1 DEF Becomes, TypeOK

\* and the others keep their record.
LEMMA RequestChanges ==
  ASSUME TypeOK, [Next]_vars, NEW x \in Requests
  PROVE  req'[x] = req[x] \/ Start(x) \/ Continue(x) \/ Abort(x)
  BY ActsOnItself DEF Next, ClientPays, ChangePrice, vars

\* A payment stays a payment, of the same amount.
LEMMA PaymentsStay ==
  ASSUME TypeOK, RequestsOK, [Next]_vars, NEW s \in Sessions, Paid(s)
  PROVE  Paid(s)' /\ stripe'[s].amount = stripe[s].amount
<1>1. CASE UNCHANGED stripe
  BY <1>1 DEF Paid
<1>2. ASSUME NEW r \in Requests, CreateSession(r)
      PROVE  Paid(s)' /\ stripe'[s].amount = stripe[s].amount
  BY <1>2 DEF CreateSession, Paid, TypeOK
<1>3. ASSUME NEW r \in Requests, StoreLink(r)
      PROVE  Paid(s)' /\ stripe'[s].amount = stripe[s].amount
  <2>1. stripe[req[r].session].state = "created"
    BY <1>3 DEF RequestsOK, RequestOK, StoreLink, At
  <2> QED
    BY <1>3, <2>1 DEF StoreLink, Paid, TypeOK
<1>4. ASSUME NEW x \in Sessions, ClientPays(x)
      PROVE  Paid(s)' /\ stripe'[s].amount = stripe[s].amount
  BY <1>4 DEF ClientPays, Paid, TypeOK, StripeSession
<1> QED
  BY <1>1, <1>2, <1>3, <1>4, StripeChanges

\* An amount that was collected stays collected.
LEMMA CollectedStays ==
  ASSUME TypeOK, RequestsOK, [Next]_vars, NEW amount, Collected(amount)
  PROVE  Collected(amount)'
  BY PaymentsStay DEF Collected

\* paymentCapturedAt is never cleared.
LEMMA CaptureStays ==
  ASSUME TypeOK, [Next]_vars, res.captured
  PROVE  res'.captured
<1>1. ASSUME NEW r \in Requests, RowWrite(r) PROVE res'.captured
  BY <1>1 DEF RowWrite, Reprice, GrantFree, GrantedRow, StoreLink, ApplyPayment,
     CapturedRow, RecordHold, Cancel, Restore, TypeOK, Row
<1> QED
  BY <1>1, RowChanges

-----------------------------------------------------------------------------
(* Every step keeps the invariant.                                         *)

\* What a request has not read claims nothing.
LEMMA UnreadFields == Unread.captured = FALSE /\ Unread.baseline = 0
  BY DEF Unread, CreatedRow

\* Where a request stands after it has gone to sign,
LEMMA AfterGotoSign ==
  ASSUME TypeOK, NEW x \in Requests, GotoSign(x)
  PROVE  req'[x].pc = "sign" /\ req'[x].seen = Unread
  BY DEF TypeOK, GotoSign, Becomes, Idle

\* and after it has answered.
LEMMA AfterAnswer ==
  ASSUME TypeOK, NEW x \in Requests, Answer(x)
  PROVE  req'[x].pc = "idle" /\ req'[x].seen = Unread
  BY DEF TypeOK, Answer, Becomes, Idle

\* Only CreateSession leaves a request about to publish a session.
LEMMA OnlyCreateSessionStores ==
  ASSUME TypeOK, NEW x \in Requests, Start(x) \/ Continue(x) \/ Abort(x),
         req'[x].pc = "store"
  PROVE  CreateSession(x)
<1>1. \A q : Becomes(x, q) => req'[x] = q
  BY DEF TypeOK, Becomes
<1>2. req[x] \in Request
  BY DEF TypeOK
<1>3. ~Start(x)
  <2>1. ~StartSend(x)
    BY <1>1, IdleType DEF StartSend, Request
  <2>2. ~StartCancel(x) /\ ~StartRestore(x)
    BY <1>1, IdleType DEF StartCancel, StartRestore, Request
  <2>3. ~Poll(x)
    BY <1>1, IdleType DEF Poll, Request
  <2>4. \A s \in Sessions : ~ReceiveWebhook(x, s) /\ ~OpenSuccessPage(x, s)
    BY <1>1, IdleType DEF ReceiveWebhook, OpenSuccessPage, Request
  <2> QED
    BY <2>1, <2>2, <2>3, <2>4 DEF Start
<1>4. ~Abort(x) /\ ~Reprice(x) /\ ~FindNothingDue(x)
  <2>1. ~Abort(x)
    BY <1>1 DEF Abort, Idle
  <2>2. ~Reprice(x)
    BY <1>1, IdleType DEF Reprice, Request
  <2>3. ~FindNothingDue(x)
    BY <1>1, IdleType DEF FindNothingDue, Request
  <2> QED
    BY <2>1, <2>2, <2>3
<1>5. ~GrantFree(x) /\ ~StoreLink(x) /\ ~SkipHold(x) /\ ~FailHold(x) /\ ~RecordHold(x)
  BY AfterGotoSign DEF GrantFree, StoreLink, SkipHold, FailHold, RecordHold
<1>6. ~SendSignMail(x) /\ ~RefuseSession(x) /\ ~Cancel(x) /\ ~Restore(x)
  BY AfterAnswer DEF SendSignMail, RefuseSession, Cancel, Restore
<1>7. ~AcceptSession(x) /\ ~ReadRow(x)
  BY <1>1, <1>2 DEF AcceptSession, ReadRow, Request
<1>8. ~ApplyPayment(x) /\ ~PlaceHold(x)
  BY <1>1, <1>2 DEF ApplyPayment, PlaceHold, Request
<1> QED
  BY <1>3, <1>4, <1>5, <1>6, <1>7, <1>8 DEF Continue, SendStep, ConfirmStep

\* Where a request that has just begun to confirm a session stands.
LEMMA AfterStartConfirm ==
  ASSUME TypeOK, NEW x \in Requests,
         Poll(x) \/ \E s \in Sessions : ReceiveWebhook(x, s) \/ OpenSuccessPage(x, s)
  PROVE  /\ req'[x].pc = "check"
         /\ req'[x].session \in Sessions
         /\ req'[x].seen = Unread
<1>1. \A q : Becomes(x, q) => req'[x] = q
  BY DEF TypeOK, Becomes
<1>2. CASE Poll(x)
  <2>1. res.session \in Sessions
    BY <1>2 DEF TypeOK, Poll, AwaitsPayment, Row
  <2> QED
    BY <1>1, <1>2, <2>1 DEF Poll, Idle
<1>3. ASSUME NEW s \in Sessions, ReceiveWebhook(x, s)
      PROVE  req'[x].pc = "check" /\ req'[x].session = s /\ req'[x].seen = Unread
  BY <1>1, <1>3 DEF ReceiveWebhook, Idle
<1>4. ASSUME NEW s \in Sessions, OpenSuccessPage(x, s)
      PROVE  req'[x].pc = "check" /\ req'[x].session = s /\ req'[x].seen = Unread
  BY <1>1, <1>4 DEF OpenSuccessPage, Idle
<1> QED
  BY <1>2, <1>3, <1>4

\* A request that does not move may still rely on what it read.
LEMMA StillRequestOK ==
  ASSUME IInv, [Next]_vars, NEW x \in Requests, req'[x] = req[x]
  PROVE  RequestOK(x)'
<1> USE DEF IInv
<1>1. req'[x].pc = "store" => stripe'[req'[x].session].state = "created"
  <2> SUFFICES ASSUME req[x].pc = "store"
               PROVE  stripe'[req[x].session].state = "created"
    OBVIOUS
  <2>1. req[x].session \in Sessions /\ stripe[req[x].session].state = "created"
    BY DEF RequestsOK, RequestOK
  <2>2. ASSUME NEW r \in Requests, CreateSession(r)
        PROVE  stripe'[req[x].session].state = "created"
    BY <2>1, <2>2 DEF CreateSession, TypeOK
  <2>3. ASSUME NEW r \in Requests, StoreLink(r)
        PROVE  stripe'[req[x].session].state = "created"
    <3>1. r # x
      BY <2>3 DEF StoreLink, At, GotoSign, Becomes, Idle, TypeOK
    <3>2. req[r].session # req[x].session
      BY <2>3, <3>1 DEF StoreLink, StoresApart, At
    <3> QED
      BY <2>1, <2>3, <3>2 DEF StoreLink, TypeOK
  <2>4. ASSUME NEW s \in Sessions, ClientPays(s)
        PROVE  stripe'[req[x].session].state = "created"
    BY <2>1, <2>4 DEF ClientPays, TypeOK
  <2> QED
    BY <2>1, <2>2, <2>3, <2>4, StripeChanges
<1>2. ASSUME req[x].pc \in {"read", "apply"}, NEW s, s = req[x].session
      PROVE  Paid(s)' /\ stripe'[s].amount = req[x].amount /\ req[x].amount >= MinCharge
  <2>1. Paid(s) /\ stripe[s].amount = req[x].amount /\ req[x].amount >= MinCharge
    BY <1>2 DEF RequestsOK, RequestOK
  <2>2. s \in Sessions
    BY <2>1 DEF Paid
  <2> QED
    BY <2>1, <2>2, PaymentsStay
<1>3. req'[x].seen.captured => res'.captured
  BY CaptureStays DEF RequestsOK, RequestOK
<1>4. ASSUME NEW b, b = req[x].seen.baseline, b > 0
      PROVE  Collected(b)'
  <2>1. Collected(b)
    BY <1>4 DEF RequestsOK, RequestOK
  <2> QED
    BY <2>1, CollectedStays
<1>5. /\ req'[x].pc \in {"store", "check", "read", "apply"} => req'[x].session \in Sessions
      /\ req'[x].pc = "free" => IsFree(req'[x].seen.totalDue)
  BY DEF RequestsOK, RequestOK
<1>6. req'[x].pc \in {"read", "apply"} =>
          /\ Paid(req[x].session)'
          /\ stripe'[req'[x].session].amount = req'[x].amount
          /\ req'[x].amount >= MinCharge
  BY <1>2 DEF Paid
<1>7. req'[x].seen.baseline > 0 => Collected(req[x].seen.baseline)'
  BY <1>4 DEF Collected, Paid
<1> QED
  BY <1>1, <1>3, <1>5, <1>6, <1>7 DEF RequestOK, IsFree

\* A request that has forgotten what it read, and that neither publishes a
\* session, nor confirms one, nor grants anything, relies on nothing.
LEMMA ForgetfulRequestOK ==
  ASSUME NEW x, req'[x].seen.captured = FALSE, req'[x].seen.baseline = 0,
         req'[x].pc \notin {"store", "check", "read", "apply", "free"}
  PROVE  RequestOK(x)'
  BY DEF RequestOK

\* Nor does a request rely on too much after a step of its own.
LEMMA SendRequestOK ==
  ASSUME IInv, [Next]_vars, NEW x \in Requests, StartSend(x) \/ SendStep(x)
  PROVE  RequestOK(x)'
<1> USE DEF IInv, TypeOK, At, Becomes
<1>0. \A q : Becomes(x, q) => req'[x] = q
  OBVIOUS
<1>1. CASE StartSend(x) \/ Reprice(x)
  <2> HIDE DEF Becomes, TypeOK, IInv
  <2>1. CASE StartSend(x)
    <3>1. req'[x].pc \in {"reprice", "mail"}
      BY <1>0, <2>1 DEF StartSend, Idle
    <3>2. req'[x].seen \in {Unread, [Unread EXCEPT !.totalDue = res.totalDue]}
      BY ZenonT(30), <1>0, <2>1 DEF StartSend, Idle
    <3>3. req'[x].seen.captured = FALSE /\ req'[x].seen.baseline = 0
      BY <3>2 DEF Unread, CreatedRow
    <3> QED
      BY <3>1, <3>3, ForgetfulRequestOK
  <2>2. CASE Reprice(x)
    <3>1. req'[x].pc = "mail" /\ req'[x].seen = Unread
      BY <1>0, <2>2 DEF Reprice, Idle
    <3> QED
      BY <3>1, UnreadFields, ForgetfulRequestOK
  <2> QED
    BY <1>1, <2>1, <2>2
<1>2. CASE GrantFree(x) \/ StoreLink(x)
  <2>1. req'[x].pc = "sign" /\ req'[x].seen = Unread
    BY <1>2, AfterGotoSign DEF GrantFree, StoreLink
  <2> QED
    BY <2>1, UnreadFields, ForgetfulRequestOK
<1>3. CASE SendSignMail(x)
  <2>1. req'[x].pc = "idle" /\ req'[x].seen = Unread
    BY <1>3, AfterAnswer DEF SendSignMail
  <2> QED
    BY <2>1, UnreadFields, ForgetfulRequestOK
<1>4. CASE FindNothingDue(x)
  <2>1. /\ req'[x].pc = "free"
        /\ req'[x].seen.captured = res.captured
        /\ req'[x].seen.totalDue = res.totalDue
        /\ req'[x].seen.baseline = 0
    BY <1>4 DEF FindNothingDue, Idle, Unread, CreatedRow
  <2> QED
    BY <1>4, <2>1 DEF FindNothingDue, RequestOK
<1>5. CASE CreateSession(x)
  <2>1. PICK s \in Sessions :
             /\ stripe' = [stripe EXCEPT ![s] = [state |-> "created",
                                                 amount |-> res.totalDue]]
             /\ Becomes(x, [Idle EXCEPT !.pc = "store", !.session = s,
                                        !.amount = res.totalDue])
    BY <1>5 DEF CreateSession
  <2>2. /\ req'[x].pc = "store"
        /\ req'[x].session = s
        /\ req'[x].seen.captured = FALSE
        /\ req'[x].seen.baseline = 0
    BY <2>1, UnreadFields DEF Idle
  <2> QED
    BY <2>1, <2>2 DEF RequestOK
<1> QED
  BY <1>1, <1>2, <1>3, <1>4, <1>5 DEF SendStep

\* The same of the steps that confirm a session,
LEMMA ConfirmRequestOK ==
  ASSUME IInv, [Next]_vars, NEW x \in Requests,
         \/ Poll(x)
         \/ \E s \in Sessions : ReceiveWebhook(x, s) \/ OpenSuccessPage(x, s)
         \/ ConfirmStep(x)
  PROVE  RequestOK(x)'
<1> USE DEF IInv, TypeOK, At, Becomes
<1>1. CASE Poll(x) \/ \E s \in Sessions : ReceiveWebhook(x, s) \/ OpenSuccessPage(x, s)
  BY <1>1, AfterStartConfirm, UnreadFields DEF RequestOK
<1>2. CASE AcceptSession(x)
  <2>1. /\ req'[x].pc = "read"
        /\ req'[x].session = req[x].session
        /\ req'[x].amount = res.totalDue
        /\ req'[x].seen = req[x].seen
    BY <1>2 DEF AcceptSession, Request
  <2>2. req[x].session \in Sessions
    BY <1>2 DEF AcceptSession, RequestsOK, RequestOK
  <2> QED
    BY <1>2, <2>1, <2>2 DEF AcceptSession, Accepts, Paid, RequestsOK, RequestOK, Collected
<1>3. CASE RefuseSession(x)
  <2>1. req'[x].pc = "idle" /\ req'[x].seen = Unread
    BY <1>3, AfterAnswer DEF RefuseSession
  <2> QED
    BY <2>1, UnreadFields, ForgetfulRequestOK
<1>4. CASE ReadRow(x)
  <2>1. /\ req'[x].pc = "apply"
        /\ req'[x].session = req[x].session
        /\ req'[x].amount = req[x].amount
        /\ req'[x].seen.captured = res.captured
        /\ req'[x].seen.baseline = 0
    BY <1>4 DEF ReadRow, Request, Unread, CreatedRow
  <2> QED
    BY <1>4, <2>1 DEF ReadRow, RequestsOK, RequestOK, Paid
<1>5. CASE ApplyPayment(x)
  <2>1. req'[x].pc = "deposit" /\ req'[x].seen.captured = FALSE /\ req'[x].seen.baseline = 0
    BY <1>5 DEF ApplyPayment, Request, Unread, CreatedRow
  <2> QED
    BY <2>1, ForgetfulRequestOK
<1>6. CASE PlaceHold(x)
  <2>1. req'[x].pc = "record" /\ req'[x].seen = req[x].seen
    BY <1>6 DEF PlaceHold, Request
  <2> QED
    BY <1>6, <2>1 DEF PlaceHold, RequestsOK, RequestOK, Collected, Paid
<1>7. CASE SkipHold(x) \/ FailHold(x) \/ RecordHold(x)
  <2>1. req'[x].pc = "sign" /\ req'[x].seen = Unread
    BY <1>7, AfterGotoSign DEF SkipHold, FailHold, RecordHold
  <2> QED
    BY <2>1, UnreadFields, ForgetfulRequestOK
<1> QED
  BY <1>1, <1>2, <1>3, <1>4, <1>5, <1>6, <1>7 DEF ConfirmStep

\* and of those that cancel, restore or die.
LEMMA CancelRequestOK ==
  ASSUME IInv, [Next]_vars, NEW x \in Requests,
         StartCancel(x) \/ Cancel(x) \/ StartRestore(x) \/ Restore(x) \/ Abort(x)
  PROVE  RequestOK(x)'
<1> USE DEF IInv, TypeOK, At, Becomes
<1>1. CASE Cancel(x) \/ Restore(x) \/ Abort(x)
  <2>1. req'[x].pc = "idle" /\ req'[x].seen = Unread
    BY <1>1, AfterAnswer DEF Cancel, Restore, Abort, Idle
  <2> QED
    BY <2>1, UnreadFields, ForgetfulRequestOK
<1>2. CASE StartCancel(x)
  <2>1. /\ req'[x].pc = "cancel"
        /\ req'[x].seen.captured = FALSE
        /\ req'[x].seen.baseline = res.baseline
    BY <1>2 DEF StartCancel, Idle, Unread, CreatedRow
  <2> QED
    BY <1>2, <2>1 DEF StartCancel, RequestOK, BaselineIsAPayment, Collected, Paid
<1>3. CASE StartRestore(x)
  <2>1. /\ req'[x].pc = "restore"
        /\ req'[x].seen.captured = res.captured
        /\ req'[x].seen.baseline = res.baseline
    BY <1>3 DEF StartRestore, Idle, Unread, CreatedRow
  <2> QED
    BY <1>3, <2>1 DEF StartRestore, RequestOK, BaselineIsAPayment, Collected, Paid
<1> QED
  BY <1>1, <1>2, <1>3

\* Every step leaves every request something to rely on.
LEMMA RequestsStep == IInv /\ [Next]_vars => RequestsOK'
<1> SUFFICES ASSUME IInv, [Next]_vars, NEW x \in Requests
             PROVE  RequestOK(x)'
  BY DEF RequestsOK
<1>1. CASE req'[x] = req[x]
  BY <1>1, StillRequestOK
<1>2. CASE Start(x) \/ Continue(x) \/ Abort(x)
  BY <1>2, SendRequestOK, ConfirmRequestOK, CancelRequestOK DEF Start, Continue
<1> QED
  BY <1>1, <1>2, RequestChanges DEF IInv

\* A new session is taken from the unused ones, so no other request holds it.
LEMMA StoresApartStep == IInv /\ [Next]_vars => StoresApart'
<1> SUFFICES ASSUME IInv, [Next]_vars,
                    NEW q \in Requests, NEW r \in Requests, q # r,
                    req'[q].pc = "store", req'[r].pc = "store"
             PROVE  req'[q].session # req'[r].session
  BY DEF StoresApart, At
<1> USE DEF IInv, TypeOK
<1>1. ASSUME NEW x \in Requests, req'[x].pc = "store"
      PROVE  req'[x] = req[x] \/ CreateSession(x)
  BY <1>1, OnlyCreateSessionStores, RequestChanges
<1>2. ASSUME NEW x \in Requests, NEW y \in Requests, x # y,
             CreateSession(x), req'[y].pc = "store"
      PROVE  req'[x].session # req'[y].session
  <2>1. PICK s \in Sessions :
             /\ stripe[s].state = "unused"
             /\ Becomes(x, [Idle EXCEPT !.pc = "store", !.session = s,
                                        !.amount = res.totalDue])
    BY <1>2 DEF CreateSession
  <2>2. req'[x].session = s /\ req'[y] = req[y]
    BY <1>2, <2>1 DEF Becomes, Idle
  <2>3. stripe[req[y].session].state = "created"
    BY <1>2, <2>2 DEF RequestsOK, RequestOK
  <2> QED
    BY <2>1, <2>2, <2>3
<1>3. CASE req'[q] = req[q] /\ req'[r] = req[r]
  BY <1>3 DEF StoresApart, At
<1> QED
  BY <1>1, <1>2, <1>3

\* When paymentCapturedAt is first written, either the session then named is
\* paid, of the total then due, or that total is under the smallest charge.
LEMMA CaptureStep ==
  ASSUME IInv, [Next]_vars, ~res.captured, res'.captured
  PROVE  \/ /\ Paid(res'.session)
            /\ stripe[res'.session].amount = res'.totalDue
         \/ /\ res'.totalDue \in Prices
            /\ res'.totalDue < MinCharge
            /\ res'.session = NoSession
<1>1. PICK r \in Requests : RowWrite(r)
  BY RowChanges
<1>2. res \in Row /\ req[r] \in Request
  BY DEF IInv, TypeOK
<1>3. CASE GrantFree(r)
  <2>1. IsFree(req[r].seen.totalDue)
    BY <1>3 DEF IInv, RequestsOK, RequestOK, GrantFree, At
  <2>2. req[r].seen.totalDue \in Prices
    BY <1>2 DEF Request, Row
  <2> QED
    BY <1>2, <1>3, <2>1, <2>2 DEF GrantFree, GrantedRow, Row, IsFree
<1>4. CASE ApplyPayment(r)
  <2>1. Paid(req[r].session) /\ stripe[req[r].session].amount = req[r].amount
    BY <1>4 DEF IInv, RequestsOK, RequestOK, ApplyPayment, At
  <2>2. res' = CapturedRow(res, req[r].session, req[r].amount)
    BY <1>2, <1>4 DEF ApplyPayment, Row
  <2>3. res'.session = req[r].session /\ res'.totalDue = req[r].amount
    BY <1>2, <2>2 DEF CapturedRow, Row
  <2> QED
    BY <2>1, <2>3
<1>5. ~Reprice(r) /\ ~StoreLink(r) /\ ~RecordHold(r) /\ ~Cancel(r) /\ ~Restore(r)
  BY <1>2 DEF Reprice, StoreLink, RecordHold, Cancel, Restore, Row
<1> QED
  BY <1>1, <1>3, <1>4, <1>5 DEF RowWrite

\* The baseline is written from an applied payment or written back from a row
\* read earlier, whose baseline was a payment already.
LEMMA BaselineStep == IInv /\ [Next]_vars => BaselineIsAPayment'
<1> SUFFICES ASSUME IInv, [Next]_vars, NEW b, b = res'.baseline, b > 0
             PROVE  Collected(b)'
  BY DEF BaselineIsAPayment, Collected, Paid
<1>1. ASSUME Collected(b) PROVE Collected(b)'
  BY <1>1, CollectedStays DEF IInv
<1>2. CASE b = res.baseline
  BY <1>1, <1>2 DEF IInv, BaselineIsAPayment, Collected
<1>3. ASSUME NEW r \in Requests, RowWrite(r), b # res.baseline
      PROVE  Collected(b)
  <2>1. res \in Row /\ req[r] \in Request
    BY DEF IInv, TypeOK
  <2>2. ~Reprice(r) /\ ~GrantFree(r) /\ ~StoreLink(r) /\ ~RecordHold(r)
    BY <1>3, <2>1 DEF Reprice, GrantFree, GrantedRow, StoreLink, RecordHold, Row
  <2>3. CASE ApplyPayment(r)
    <3>1. Paid(req[r].session) /\ stripe[req[r].session].amount = req[r].amount
      BY <2>3 DEF IInv, RequestsOK, RequestOK, ApplyPayment, At
    <3>2. b = req[r].amount
      BY <1>3, <2>1, <2>3 DEF ApplyPayment, CapturedRow, Row
    <3> QED
      BY <3>1, <3>2 DEF Collected, Paid
  <2>4. CASE Cancel(r) \/ Restore(r)
    <3>1. b = req[r].seen.baseline
      BY <2>1, <2>4 DEF Cancel, Restore, Row
    <3> QED
      BY <3>1 DEF IInv, RequestsOK, RequestOK
  <2> QED
    BY <1>3, <2>2, <2>3, <2>4 DEF RowWrite
<1> QED
  BY <1>1, <1>2, <1>3, RowChanges

\* RESERVED_PAID is written with paymentCapturedAt, or by a restoration that
\* has read it set; it is never cleared.
LEMMA PaidStatusStep == IInv /\ [Next]_vars => PaidStatusMeansCaptured'
<1> SUFFICES ASSUME IInv, [Next]_vars, res'.status = "RESERVED_PAID"
             PROVE  res'.captured
  BY DEF PaidStatusMeansCaptured
<1>1. CASE res.captured
  BY <1>1, CaptureStays DEF IInv
<1>2. ASSUME NEW r \in Requests, RowWrite(r), ~res.captured
      PROVE  res'.captured
  <2>1. res \in Row /\ req[r] \in Request
    BY DEF IInv, TypeOK
  <2>2. res.status # "RESERVED_PAID"
    BY <1>2 DEF IInv, PaidStatusMeansCaptured
  <2>3. ~Reprice(r) /\ ~StoreLink(r) /\ ~RecordHold(r) /\ ~Cancel(r)
    BY <2>1, <2>2 DEF Reprice, StoreLink, RecordHold, Cancel, Row
  <2>4. CASE GrantFree(r)
    BY <2>1, <2>2, <2>4 DEF GrantFree, GrantedRow, Row
  <2>5. CASE ApplyPayment(r)
    BY <2>1, <2>2, <2>5 DEF ApplyPayment, CapturedRow, Row
  <2>6. ~Restore(r)
    <3>1. ~req[r].seen.captured
      BY <1>2 DEF IInv, RequestsOK, RequestOK
    <3> QED
      BY <2>1, <3>1 DEF Restore, RestoredStatus, Row
  <2> QED
    BY <1>2, <2>3, <2>4, <2>5, <2>6 DEF RowWrite
<1> QED
  BY <1>1, <1>2, RowChanges DEF IInv, PaidStatusMeansCaptured

\* The link is closed with a paid session, or with the session forgotten.
LEMMA ClosedLinkStep == IInv /\ [Next]_vars => ClosedLinkIsPaid'
<1> SUFFICES ASSUME IInv, [Next]_vars, NEW s, s = res'.session,
                    s # NoSession, res'.link = NoSession
             PROVE  Paid(s)'
  BY DEF ClosedLinkIsPaid, Paid
<1>1. ASSUME Paid(s) PROVE Paid(s)'
  <2>1. s \in Sessions
    BY <1>1 DEF Paid
  <2> QED
    BY <1>1, <2>1, PaymentsStay DEF IInv
<1>2. CASE res.session = s /\ res.link = NoSession
  BY <1>1, <1>2 DEF IInv, ClosedLinkIsPaid
<1>3. ASSUME NEW r \in Requests, RowWrite(r), ~(res.session = s /\ res.link = NoSession)
      PROVE  Paid(s)
  <2>1. res \in Row /\ req[r] \in Request
    BY DEF IInv, TypeOK
  <2>2. ~Reprice(r) /\ ~RecordHold(r) /\ ~Cancel(r) /\ ~Restore(r)
    BY <1>3, <2>1 DEF Reprice, RecordHold, Cancel, Restore, Row
  <2>3. ~GrantFree(r)
    BY <1>3, <2>1 DEF GrantFree, GrantedRow, Row
  <2>4. ~StoreLink(r)
    <3>1. StoreLink(r) => res'.link = req[r].session /\ res'.session = req[r].session
      BY <2>1 DEF StoreLink, Row
    <3> QED
      BY <3>1
  <2>5. CASE ApplyPayment(r)
    <3>1. Paid(req[r].session)
      BY <2>5 DEF IInv, RequestsOK, RequestOK, ApplyPayment, At
    <3>2. s = req[r].session
      BY <1>3, <2>1, <2>5 DEF ApplyPayment, CapturedRow, Row
    <3> QED
      BY <3>1, <3>2
  <2> QED
    BY <1>3, <2>2, <2>3, <2>4, <2>5 DEF RowWrite
<1> QED
  BY <1>1, <1>2, <1>3, RowChanges

-----------------------------------------------------------------------------
(* The theorems.                                                           *)

\* The invariant holds of a reservation just created.
LEMMA InvInit == Init => IInv
<1> SUFFICES ASSUME Init PROVE IInv
  OBVIOUS
<1>1. TypeOK
  BY TypeInit
<1>2. PICK creator \in Requests \ Pollers :
           req = [r \in Requests |->
                    IF r = creator THEN [Idle EXCEPT !.pc = "mail"] ELSE Idle]
  BY DEF Init
<1>3. ASSUME NEW r \in Requests
      PROVE  req[r].pc \in {"idle", "mail"} /\ req[r].seen = Unread
  BY <1>2 DEF Idle
<1>4. RequestsOK
  BY <1>3, UnreadFields DEF RequestsOK, RequestOK
<1>5. StoresApart
  BY <1>3 DEF StoresApart, At
<1>6. BaselineIsAPayment /\ PaidStatusMeansCaptured /\ ClosedLinkIsPaid
  BY DEF Init, CreatedRow, BaselineIsAPayment, PaidStatusMeansCaptured,
     ClosedLinkIsPaid
<1> QED
  BY <1>1, <1>4, <1>5, <1>6 DEF IInv

\* Every step keeps it.
LEMMA InvStep == IInv /\ [Next]_vars => IInv'
<1> SUFFICES ASSUME IInv, [Next]_vars PROVE IInv'
  OBVIOUS
<1>1. TypeOK'
  BY TypeStep DEF IInv
<1> QED
  BY <1>1, RequestsStep, StoresApartStep, BaselineStep, PaidStatusStep,
     ClosedLinkStep DEF IInv

\* So it holds at all times.
THEOREM Invariance == Spec => []IInv
  BY InvInit, InvStep, PTL DEF Spec

\* The amount supplements and refunds are counted from was collected by Stripe.
THEOREM BaselineIsReal == Spec => []BaselineIsAPayment
<1>1. IInv => BaselineIsAPayment
  BY DEF IInv
<1> QED
  BY <1>1, Invariance, PTL

\* RESERVED_PAID never stands on a reservation that is not captured.
THEOREM PaidStatusIsReal == Spec => []PaidStatusMeansCaptured
<1>1. IInv => PaidStatusMeansCaptured
  BY DEF IInv
<1> QED
  BY <1>1, Invariance, PTL

\* A session whose link has been withdrawn is paid.
THEOREM ClosedLinkIsReal == Spec => []ClosedLinkIsPaid
<1>1. IInv => ClosedLinkIsPaid
  BY DEF IInv
<1> QED
  BY <1>1, Invariance, PTL

\* Every step that captures the reservation does so against a paid session of the
\* very total it writes, or because nothing is due.
THEOREM CaptureEarned == Spec => CaptureIsEarned
<1>1. IInv /\ [Next]_vars =>
        [~res.captured /\ res'.captured =>
            \/ Paid(res'.session) /\ stripe[res'.session].amount = res'.totalDue
            \/ res'.totalDue < MinCharge /\ res'.session = NoSession]_vars
  BY CaptureStep
<1> QED
  BY <1>1, Invariance, PTL DEF Spec, CaptureIsEarned

-----------------------------------------------------------------------------
(* Checkout implements PaymentLedger.                                      *)

\* Every session that exists is of an amount Stripe can charge.
AmountsOK == \A s \in Sessions : stripe[s].state # "unused" => stripe[s].amount >= MinCharge

\* There is no session at the start.
LEMMA AmountsInit == Init => AmountsOK
  BY DEF Init, AmountsOK

\* A session is created for such an amount and keeps it.
LEMMA AmountsStep == TypeOK /\ RequestsOK /\ AmountsOK /\ [Next]_vars => AmountsOK'
<1> SUFFICES ASSUME TypeOK, RequestsOK, AmountsOK, [Next]_vars,
                    NEW s \in Sessions, stripe'[s].state # "unused"
             PROVE  stripe'[s].amount >= MinCharge
  BY DEF AmountsOK
<1>1. CASE UNCHANGED stripe
  BY <1>1 DEF AmountsOK
<1>2. ASSUME NEW r \in Requests, CreateSession(r)
      PROVE  stripe'[s].amount >= MinCharge
  <2>1. res.totalDue \in Nat /\ ~(res.totalDue < MinCharge)
    BY <1>2, CheckoutAssumption DEF CreateSession, IsFree, TypeOK, Row
  <2>2. PICK x \in Sessions :
             stripe' = [stripe EXCEPT ![x] = [state |-> "created", amount |-> res.totalDue]]
    BY <1>2 DEF CreateSession
  <2>3. CASE s = x
    <3>1. stripe'[s].amount = res.totalDue
      BY <2>2, <2>3 DEF TypeOK
    <3> QED
      BY <2>1, <3>1 DEF MinCharge
  <2>4. CASE s # x
    BY <2>2, <2>4 DEF AmountsOK, TypeOK
  <2> QED
    BY <2>3, <2>4
<1>3. ASSUME NEW r \in Requests, StoreLink(r)
      PROVE  stripe'[s].amount >= MinCharge
  <2>1. stripe[req[r].session].state = "created"
    BY <1>3 DEF RequestsOK, RequestOK, StoreLink, At
  <2> QED
    BY <1>3, <2>1 DEF StoreLink, AmountsOK, TypeOK
<1>4. ASSUME NEW x \in Sessions, ClientPays(x)
      PROVE  stripe'[s].amount >= MinCharge
  BY <1>4 DEF ClientPays, AmountsOK, TypeOK
<1> QED
  BY <1>1, <1>2, <1>3, <1>4, StripeChanges

\* An amount collected is one of the ledger's.
LEMMA CollectedAmount ==
  ASSUME TypeOK, AmountsOK, NEW amount, Collected(amount)
  PROVE  amount \in Ledger!Amounts
<1>1. PICK s \in Sessions : Paid(s) /\ stripe[s].amount = amount
  BY DEF Collected
<1>2. amount \in Nat /\ amount >= MinCharge
  BY <1>1, CheckoutAssumption DEF AmountsOK, Paid, TypeOK, StripeSession
<1>3. Received[s] = amount
  BY <1>1 DEF Received
<1> QED
  BY <1>2, <1>3 DEF Ledger!Amounts, MinCharge

\* Only the client changes what was received.
LEMMA ReceivedStays ==
  ASSUME TypeOK, RequestsOK, [Next]_vars, \A s \in Sessions : ~ClientPays(s)
  PROVE  Received' = Received
<1>1. ASSUME NEW r \in Requests, CreateSession(r) PROVE Received' = Received
  BY <1>1 DEF CreateSession, Received, Paid, TypeOK
<1>2. ASSUME NEW r \in Requests, StoreLink(r) PROVE Received' = Received
  <2>1. stripe[req[r].session].state = "created"
    BY <1>2 DEF RequestsOK, RequestOK, StoreLink, At
  <2> QED
    BY <1>2, <2>1 DEF StoreLink, Received, Paid, TypeOK
<1>3. CASE UNCHANGED stripe
  BY <1>3 DEF Received, Paid
<1> QED
  BY <1>1, <1>2, <1>3, StripeChanges

\* A payment by the client is received by the ledger.
LEMMA PaysReceives ==
  ASSUME TypeOK, AmountsOK, NEW s \in Sessions, ClientPays(s)
  PROVE  Ledger!Receive(s)
<1>1. stripe[s].amount \in Prices /\ stripe[s].amount >= MinCharge
  BY DEF ClientPays, TypeOK, StripeSession, AmountsOK
<1>2. Received[s] = 0
  BY DEF ClientPays, Received, Paid
<1>3. Received' = [Received EXCEPT ![s] = stripe[s].amount]
  BY DEF ClientPays, Received, Paid, TypeOK, StripeSession
<1> QED
  BY <1>1, <1>2, <1>3 DEF Ledger!Receive, ClientPays

\* A write of the row captures, waives, writes back or leaves the ledger alone.
LEMMA RowWriteImplements ==
  ASSUME IInv, AmountsOK, NEW r \in Requests, RowWrite(r), Received' = Received
  PROVE  [Ledger!Next]_(Ledger!vars)
<1>1. res \in Row /\ req[r] \in Request
  BY DEF IInv, TypeOK
<1>2. UNCHANGED signMailed
  BY DEF RowWrite, Reprice, GrantFree, StoreLink, ApplyPayment, RecordHold, Cancel, Restore
<1>3. CASE Reprice(r) \/ StoreLink(r) \/ RecordHold(r)
  <2>1. res'.captured = res.captured /\ res'.baseline = res.baseline
    BY <1>1, <1>3 DEF Reprice, StoreLink, RecordHold, Row
  <2> QED
    BY <1>2, <2>1 DEF Ledger!vars
<1>4. CASE GrantFree(r)
  <2>1. IsFree(req[r].seen.totalDue) /\ req[r].seen.totalDue \in Prices
    BY <1>1, <1>4 DEF IInv, RequestsOK, RequestOK, GrantFree, At, Request, Row
  <2>2. \/ res' = res
        \/ res'.captured = TRUE /\ res'.baseline = res.baseline
    BY <1>1, <1>4 DEF GrantFree, GrantedRow, Row
  <2>3. CASE res' = res
    BY <1>2, <2>3 DEF Ledger!vars
  <2>4. CASE res'.captured = TRUE /\ res'.baseline = res.baseline
    <3>1. Ledger!Waive
      BY <1>2, <2>1, <2>4 DEF Ledger!Waive, IsFree
    <3> QED
      BY <3>1 DEF Ledger!Next
  <2> QED
    BY <2>2, <2>3, <2>4
<1>5. CASE ApplyPayment(r)
  <2>1. Paid(req[r].session) /\ stripe[req[r].session].amount = req[r].amount
    BY <1>5 DEF IInv, RequestsOK, RequestOK, ApplyPayment, At
  <2>2. req[r].amount \in Ledger!Amounts
    BY <2>1, CollectedAmount DEF IInv, Collected, Paid
  <2>3. \/ res'.captured = res.captured /\ res'.baseline = res.baseline
        \/ res'.captured = TRUE /\ res'.baseline = req[r].amount
    BY <1>1, <1>5 DEF ApplyPayment, CapturedRow, Row
  <2>4. CASE res'.captured = res.captured /\ res'.baseline = res.baseline
    BY <1>2, <2>4 DEF Ledger!vars
  <2>5. CASE res'.captured = TRUE /\ res'.baseline = req[r].amount
    <3>1. Ledger!Capture
      BY <1>2, <2>2, <2>5 DEF Ledger!Capture
    <3> QED
      BY <3>1 DEF Ledger!Next
  <2> QED
    BY <2>3, <2>4, <2>5
<1>6. CASE Cancel(r) \/ Restore(r)
  <2>1. res'.captured = res.captured /\ res'.baseline = req[r].seen.baseline
    BY <1>1, <1>6 DEF Cancel, Restore, Row
  <2>2. req[r].seen.baseline \in Nat
    <3>1. req[r].seen \in Row
      BY <1>1 DEF Request
    <3>2. req[r].seen.baseline \in Prices \cup {0}
      BY <3>1 DEF Row
    <3>3. \A n \in Prices \cup {0} : n \in Nat
      BY CheckoutAssumption
    <3> QED
      BY <3>2, <3>3, Zenon
  <2>3. req[r].seen.baseline > 0 => req[r].seen.baseline \in Ledger!Amounts
    BY CollectedAmount DEF IInv, RequestsOK, RequestOK
  <2>4. Ledger!WriteBack
    BY <1>2, <2>1, <2>2, <2>3 DEF Ledger!WriteBack
  <2> QED
    BY <2>4 DEF Ledger!Next
<1> QED
  BY <1>3, <1>4, <1>5, <1>6 DEF RowWrite

\* A step that sends the signing mail invites a client whose reservation is captured.
LEMMA MailImplements ==
  ASSUME IInv, [Next]_vars, UNCHANGED res, Received' = Received
  PROVE  [Ledger!Next]_(Ledger!vars)
<1>1. CASE UNCHANGED signMailed
  BY <1>1 DEF Ledger!vars
<1>2. CASE signMailed' # signMailed
  <2>1. ASSUME NEW r \in Requests, Start(r) \/ Continue(r) \/ Abort(r)
        PROVE  UNCHANGED signMailed \/ SendSignMail(r)
    BY <2>1 DEF Start, Continue, SendStep, ConfirmStep, Abort, StartSend, Reprice,
       FindNothingDue, GrantFree, CreateSession, StoreLink, StartCancel, Cancel,
       StartRestore, Restore, Poll, ReceiveWebhook, OpenSuccessPage, AcceptSession,
       RefuseSession, ReadRow, ApplyPayment, SkipHold, PlaceHold, FailHold, RecordHold
  <2>2. PICK r \in Requests : SendSignMail(r)
    BY <1>2, <2>1 DEF Next, ClientPays, ChangePrice, vars
  <2>3. signMailed' = TRUE /\ (res.captured \/ res.status = "RESERVED_PAID")
    BY <1>2, <2>2 DEF SendSignMail
  <2>4. Ledger!Invite
    BY <2>3 DEF IInv, PaidStatusMeansCaptured, Ledger!Invite
  <2> QED
    BY <2>4 DEF Ledger!Next
<1> QED
  BY <1>1, <1>2

\* A reservation just created has an empty ledger.
LEMMA LedgerInit == Init => Ledger!Init
  BY DEF Init, CreatedRow, Received, Paid, Ledger!Init

\* Every step is a step of the ledger, or none.
LEMMA LedgerStep == IInv /\ AmountsOK /\ [Next]_vars => [Ledger!Next]_(Ledger!vars)
<1> SUFFICES ASSUME IInv, AmountsOK, [Next]_vars PROVE [Ledger!Next]_(Ledger!vars)
  OBVIOUS
<1>1. ASSUME NEW s \in Sessions, ClientPays(s) PROVE Ledger!Next
  BY <1>1, PaysReceives DEF IInv, Ledger!Next
<1>2. CASE \A s \in Sessions : ~ClientPays(s)
  <2>1. Received' = Received
    BY <1>2, ReceivedStays DEF IInv
  <2> QED
    BY <2>1, RowChanges, RowWriteImplements, MailImplements
<1> QED
  BY <1>1, <1>2

\* So the online payment of a reservation keeps the promise PaymentLedger states,
\* whatever requests race, replay and die.
THEOREM ImplementsLedger == Spec => KeepsLedger
<1>1. IInv /\ AmountsOK /\ [Next]_vars => AmountsOK'
  BY AmountsStep DEF IInv
<1> QED
  BY <1>1, Invariance, AmountsInit, LedgerInit, LedgerStep, PTL
     DEF Spec, KeepsLedger, Ledger!Spec

-----------------------------------------------------------------------------
(* Requests that run one at a time.  Nothing else writes the row while a   *)
(* request is running, so what it has read is still what the row says.     *)
(* The theorems below are about every behaviour in which no two requests   *)
(* run at once, as when there is one request, and about any number of      *)
(* requests that follow each other.                                        *)

OneAtATime == \A q, r \in Requests : ~At(q, "idle") /\ ~At(r, "idle") => q = r

\* Stripe has placed no hold, or one that the row names or is about to.
HoldIsNamed ==
    aborts = 0 =>
        \/ holds = res.deposit /\ holds <= 1
        \/ /\ holds = 1 /\ res.deposit = 0
           /\ \E r \in Requests : At(r, "record") /\ req[r].hold = 1

\* What the running request has read or obtained still holds.
Knows(r) ==
    /\ At(r, "read") \/ At(r, "apply") =>
          res.session \in {NoSession, req[r].session} /\ res.totalDue = req[r].amount
    /\ At(r, "apply") \/ At(r, "deposit") => req[r].seen.deposit = res.deposit
    /\ At(r, "record") => req[r].hold = holds
    /\ At(r, "cancel") \/ At(r, "restore") => req[r].seen.baseline = res.baseline
    /\ At(r, "restore") => req[r].seen.captured = res.captured

SerialOK ==
    /\ PendingMeansUnpaid
    /\ BaselineIsTheSettledPayment
    /\ HoldIsNamed
    /\ \A r \in Requests : Knows(r)

SInv == IInv /\ SerialOK

\* The request that takes a step is the only one before and after it.
Alone(r) == \A x \in Requests : x # r => At(x, "idle")

\* A request that starts or goes on was running or is now.
LEMMA Runs ==
  ASSUME TypeOK, NEW r \in Requests, Start(r) \/ Continue(r) \/ Abort(r)
  PROVE  ~At(r, "idle") \/ ~At(r, "idle")'
<1>1. \A q : Becomes(r, q) => req'[r] = q
  BY DEF TypeOK, Becomes
<1>2. CASE StartSend(r) \/ StartCancel(r) \/ StartRestore(r)
  BY <1>1, <1>2 DEF StartSend, StartCancel, StartRestore, Idle, At
<1>3. CASE Poll(r) \/ \E s \in Sessions : ReceiveWebhook(r, s) \/ OpenSuccessPage(r, s)
  BY <1>3, AfterStartConfirm DEF At
<1>4. CASE Continue(r) \/ Abort(r)
  BY <1>4 DEF Continue, SendStep, ConfirmStep, Abort, Reprice, FindNothingDue, GrantFree,
     CreateSession, StoreLink, SendSignMail, AcceptSession, RefuseSession, ReadRow,
     ApplyPayment, SkipHold, PlaceHold, FailHold, RecordHold, Cancel, Restore, At
<1> QED
  BY <1>2, <1>3, <1>4 DEF Start

\* So it runs alone.
LEMMA ActsAlone ==
  ASSUME TypeOK, [Next]_vars, OneAtATime, OneAtATime', NEW r \in Requests,
         Start(r) \/ Continue(r) \/ Abort(r)
  PROVE  Alone(r) /\ Alone(r)'
<1>1. ASSUME NEW x \in Requests, x # r PROVE req'[x] = req[x]
  BY <1>1, ActsOnItself
<1>2. ASSUME NEW x \in Requests, x # r PROVE At(x, "idle") /\ At(x, "idle")'
  BY <1>1, <1>2, Runs DEF OneAtATime, At
<1> QED
  BY <1>2 DEF Alone

\* A step of a request knows what it leaves there to be used.
LEMMA ContinueKnows ==
  ASSUME IInv, NEW x \in Requests, Knows(x), Start(x) \/ Continue(x) \/ Abort(x)
  PROVE  Knows(x)'
<1> TypeOK /\ req[x] \in Request /\ res \in Row
  BY DEF IInv, TypeOK
<1>1. \A q : Becomes(x, q) => req'[x] = q
  BY DEF TypeOK, Becomes
<1>2. ASSUME req'[x].pc \notin {"read", "apply", "deposit", "record", "cancel", "restore"}
      PROVE  Knows(x)'
  BY <1>2 DEF Knows, At
<1>3. CASE StartSend(x) \/ Reprice(x) \/ FindNothingDue(x) \/ CreateSession(x) \/ Abort(x)
  <2>1. StartSend(x) => req'[x].pc \in {"reprice", "mail"}
    BY <1>1 DEF StartSend, Idle
  <2>2. Reprice(x) \/ FindNothingDue(x) => req'[x].pc \in {"mail", "free"}
    BY <1>1 DEF Reprice, FindNothingDue, Idle
  <2>3. CreateSession(x) => req'[x].pc = "store"
    <3>1. ASSUME NEW s \in Sessions,
                 Becomes(x, [Idle EXCEPT !.pc = "store", !.session = s,
                                         !.amount = res.totalDue])
          PROVE  req'[x].pc = "store"
      BY <1>1, <3>1 DEF Idle
    <3> QED
      BY <3>1 DEF CreateSession
  <2>4. Abort(x) => req'[x].pc = "idle"
    BY <1>1 DEF Abort, Idle
  <2> QED
    BY <1>2, <1>3, <2>1, <2>2, <2>3, <2>4
<1>4. CASE Poll(x) \/ \E s \in Sessions : ReceiveWebhook(x, s) \/ OpenSuccessPage(x, s)
  BY <1>2, <1>4, AfterStartConfirm
<1>5. CASE GrantFree(x) \/ StoreLink(x) \/ SkipHold(x) \/ FailHold(x) \/ RecordHold(x)
  BY <1>2, <1>5, AfterGotoSign DEF GrantFree, StoreLink, SkipHold, FailHold, RecordHold
<1>6. CASE SendSignMail(x) \/ RefuseSession(x) \/ Cancel(x) \/ Restore(x)
  BY <1>2, <1>6, AfterAnswer DEF SendSignMail, RefuseSession, Cancel, Restore
<1>7. CASE AcceptSession(x)
  <2>1. /\ req'[x].pc = "read"
        /\ req'[x].session = req[x].session
        /\ req'[x].amount = res.totalDue
    BY <1>1, <1>7 DEF AcceptSession, Request
  <2>2. res' = res /\ res.session \in {NoSession, req[x].session}
    BY <1>7 DEF AcceptSession, Accepts
  <2> QED
    BY <2>1, <2>2 DEF Knows, At
<1>8. CASE ReadRow(x)
  <2> DEFINE row == [Unread EXCEPT !.status = res.status, !.captured = res.captured,
                                   !.totalDue = res.totalDue, !.deposit = res.deposit]
             q == [req[x] EXCEPT !.pc = "apply", !.seen = row]
  <2>3. row.deposit = res.deposit
    BY DEF Unread, CreatedRow
  <2>4. req'[x] = q
    BY <1>1, <1>8 DEF ReadRow
  <2> HIDE DEF row
  <2>1. /\ req'[x].pc = "apply"
        /\ req'[x].session = req[x].session
        /\ req'[x].amount = req[x].amount
        /\ req'[x].seen.deposit = res.deposit
    BY <2>3, <2>4 DEF Request
  <2>2. res' = res /\ At(x, "read")
    BY <1>8 DEF ReadRow
  <2> QED
    BY <2>1, <2>2 DEF Knows, At
<1>9. CASE ApplyPayment(x)
  <2> DEFINE row == [Unread EXCEPT !.deposit = req[x].seen.deposit]
             q == [req[x] EXCEPT !.pc = "deposit", !.amount = AnyPrice, !.seen = row]
  <2>4. row.deposit = req[x].seen.deposit
    BY DEF Unread, CreatedRow
  <2>5. req'[x] = q
    BY <1>1, <1>9 DEF ApplyPayment
  <2> HIDE DEF row
  <2>1. /\ req'[x].pc = "deposit"
        /\ req'[x].seen.deposit = req[x].seen.deposit
    BY <2>4, <2>5 DEF Request
  <2>2. res'.deposit = res.deposit
    BY <1>9 DEF ApplyPayment, CapturedRow, Row
  <2>3. req[x].seen.deposit = res.deposit
    BY <1>9 DEF ApplyPayment, Knows, At
  <2> QED
    BY <2>1, <2>2, <2>3 DEF Knows, At
<1>10. CASE PlaceHold(x)
  <2>1. req'[x].pc = "record" /\ req'[x].hold = holds + 1
    BY <1>1, <1>10 DEF PlaceHold, Request
  <2> QED
    BY <1>10, <2>1 DEF PlaceHold, Knows, At
<1>11. CASE StartCancel(x)
  <2> DEFINE row == [Unread EXCEPT !.baseline = res.baseline]
             q == [Idle EXCEPT !.pc = "cancel", !.seen = row]
  <2>2. row.baseline = res.baseline
    BY DEF Unread, CreatedRow
  <2>3. req'[x] = q
    BY <1>1, <1>11 DEF StartCancel
  <2> HIDE DEF row
  <2>1. req'[x].pc = "cancel" /\ req'[x].seen.baseline = res.baseline
    BY <2>2, <2>3 DEF Idle
  <2> QED
    BY <1>11, <2>1 DEF StartCancel, Knows, At
<1>12. CASE StartRestore(x)
  <2> DEFINE row == [Unread EXCEPT !.captured = res.captured, !.totalDue = res.totalDue,
                                   !.baseline = res.baseline]
             q == [Idle EXCEPT !.pc = "restore", !.amount = price, !.seen = row]
  <2>2. row.baseline = res.baseline /\ row.captured = res.captured
    BY DEF Unread, CreatedRow
  <2>3. req'[x] = q
    BY <1>1, <1>12 DEF StartRestore
  <2> HIDE DEF row
  <2>1. /\ req'[x].pc = "restore"
        /\ req'[x].seen.baseline = res.baseline
        /\ req'[x].seen.captured = res.captured
    BY <2>2, <2>3 DEF Idle
  <2> QED
    BY <1>12, <2>1 DEF StartRestore, Knows, At
<1> QED
  BY <1>3, <1>4, <1>5, <1>6, <1>7, <1>8, <1>9, <1>10, <1>11, <1>12
     DEF Start, Continue, SendStep, ConfirmStep

\* A pending row was restored by a request that had read it uncaptured.
LEMMA PendingStep ==
  ASSUME SInv, [Next]_vars
  PROVE  PendingMeansUnpaid'
<1> TypeOK /\ res \in Row /\ PendingMeansUnpaid
  BY DEF SInv, IInv, TypeOK, SerialOK
<1>1. ASSUME NEW r \in Requests, RowWrite(r) PROVE PendingMeansUnpaid'
  <2> req[r] \in Request
    BY DEF TypeOK
  <2>1. CASE Reprice(r) \/ StoreLink(r) \/ RecordHold(r)
    BY <2>1 DEF Reprice, StoreLink, RecordHold, PendingMeansUnpaid, Row
  <2>2. CASE GrantFree(r)
    BY <2>2 DEF GrantFree, GrantedRow, PendingMeansUnpaid, Row
  <2>3. CASE ApplyPayment(r)
    BY <2>3 DEF ApplyPayment, CapturedRow, PendingMeansUnpaid, Row
  <2>4. CASE Cancel(r)
    BY <2>4 DEF Cancel, PendingMeansUnpaid, Row
  <2>5. CASE Restore(r)
    <3>1. req[r].seen.captured = res.captured
      BY <2>5 DEF Restore, SInv, SerialOK, Knows
    <3> QED
      BY <2>5, <3>1 DEF Restore, RestoredStatus, PendingMeansUnpaid, Row
  <2> QED
    BY <1>1, <2>1, <2>2, <2>3, <2>4, <2>5 DEF RowWrite
<1> QED
  BY <1>1, RowChanges DEF PendingMeansUnpaid

\* A settled row's baseline is written with its session, or written back as it
\* is, and what a session has collected does not change.
LEMMA SettledStep ==
  ASSUME SInv, [Next]_vars
  PROVE  BaselineIsTheSettledPayment'
<1> SUFFICES ASSUME NEW s, s = res'.session, s # NoSession,
                    res'.captured, res'.link = NoSession
             PROVE  res'.baseline = stripe'[s].amount
  BY DEF BaselineIsTheSettledPayment
<1> TypeOK /\ RequestsOK /\ res \in Row
  BY DEF SInv, IInv, TypeOK
<1>1. ASSUME Paid(s) PROVE stripe'[s].amount = stripe[s].amount
  <2>1. s \in Sessions
    BY <1>1 DEF Paid
  <2> QED
    BY <1>1, <2>1, PaymentsStay
<1>2. ASSUME res.captured, res.session = s, res.link = NoSession,
             res'.baseline = res.baseline
      PROVE  res'.baseline = stripe'[s].amount
  <2>1. Paid(s) /\ res.baseline = stripe[s].amount
    BY <1>2 DEF SInv, IInv, SerialOK, ClosedLinkIsPaid, BaselineIsTheSettledPayment
  <2> QED
    BY <1>1, <1>2, <2>1
<1>3. ASSUME NEW r \in Requests, RowWrite(r)
      PROVE  res'.baseline = stripe'[s].amount
  <2> req[r] \in Request
    BY DEF TypeOK
  <2>1. CASE Reprice(r) \/ RecordHold(r)
    <3>1. /\ res'.captured = res.captured /\ res'.session = res.session
          /\ res'.link = res.link /\ res'.baseline = res.baseline
      BY <2>1 DEF Reprice, RecordHold, Row
    <3> QED
      BY <1>2, <3>1
  <2>2. CASE GrantFree(r)
    <3>1. res' = res \/ res'.session = NoSession
      BY <2>2 DEF GrantFree, GrantedRow, Row
    <3> QED
      BY <1>2, <3>1
  <2>3. CASE StoreLink(r)
    <3>1. res'.link = req[r].session /\ req[r].session \in Sessions
      BY <2>3 DEF StoreLink, Row, RequestsOK, RequestOK, At
    <3> QED
      BY <3>1, CheckoutAssumption
  <2>4. CASE ApplyPayment(r)
    <3>1. CASE WasAlreadyPaid(req[r].seen)
      <4>1. /\ res'.captured = res.captured /\ res'.session = res.session
            /\ res'.link = res.link /\ res'.baseline = res.baseline
        BY <2>4, <3>1 DEF ApplyPayment, Row
      <4> QED
        BY <1>2, <4>1
    <3>2. CASE ~WasAlreadyPaid(req[r].seen)
      <4>1. res'.session = req[r].session /\ res'.baseline = req[r].amount
        BY <2>4, <3>2 DEF ApplyPayment, CapturedRow, Row
      <4>2. Paid(req[r].session) /\ stripe[req[r].session].amount = req[r].amount
        BY <2>4 DEF RequestsOK, RequestOK, ApplyPayment, At
      <4> QED
        BY <1>1, <4>1, <4>2
    <3> QED
      BY <3>1, <3>2
  <2>5. CASE Cancel(r) \/ Restore(r)
    <3>1. /\ res'.captured = res.captured /\ res'.session = res.session
          /\ res'.link = res.link /\ res'.baseline = req[r].seen.baseline
      BY <2>5 DEF Cancel, Restore, Row
    <3>2. req[r].seen.baseline = res.baseline
      BY <2>5 DEF Cancel, Restore, SInv, SerialOK, Knows
    <3> QED
      BY <1>2, <3>1, <3>2
  <2> QED
    BY <1>3, <2>1, <2>2, <2>3, <2>4, <2>5 DEF RowWrite
<1>4. CASE UNCHANGED res
  BY <1>2, <1>4
<1> QED
  BY <1>3, <1>4, RowChanges

\* A hold is placed when the row names none and Stripe has placed none, and the
\* request that placed it names it in the row.
LEMMA HoldStep ==
  ASSUME SInv, [Next]_vars, OneAtATime, OneAtATime'
  PROVE  HoldIsNamed'
<1> SUFFICES ASSUME aborts' = 0
             PROVE  \/ holds' = res'.deposit /\ holds' <= 1
                    \/ /\ holds' = 1 /\ res'.deposit = 0
                       /\ \E r \in Requests : At(r, "record")' /\ req'[r].hold = 1
  BY DEF HoldIsNamed
<1> TypeOK /\ res \in Row /\ MaxHolds \in Nat
  BY CheckoutAssumption DEF SInv, IInv, TypeOK
<1>1. /\ aborts = 0
      /\ \A r \in Requests : ~Abort(r)
  <2>1. ASSUME NEW r \in Requests, Start(r) \/ Continue(r) \/ Abort(r)
        PROVE  aborts' = aborts \/ Abort(r)
    BY <2>1 DEF Start, Continue, SendStep, ConfirmStep, StartSend, Reprice,
       FindNothingDue, GrantFree, CreateSession, StoreLink, SendSignMail, StartCancel, Cancel,
       StartRestore, Restore, Poll, ReceiveWebhook, OpenSuccessPage, AcceptSession,
       RefuseSession, ReadRow, ApplyPayment, SkipHold, PlaceHold, FailHold, RecordHold
  <2>2. \A r \in Requests : Abort(r) => aborts' = aborts + 1
    BY DEF Abort
  <2>3. aborts \in 0..MaxAborts /\ MaxAborts \in Nat
    BY CheckoutAssumption DEF TypeOK
  <2>4. \A r \in Requests : ~Abort(r)
    BY <2>2, <2>3
  <2> QED
    BY <2>1, <2>4 DEF Next, ClientPays, ChangePrice, vars
<1>2. \/ holds = res.deposit /\ holds <= 1
      \/ /\ holds = 1 /\ res.deposit = 0
         /\ \E r \in Requests : At(r, "record") /\ req[r].hold = 1
  BY <1>1 DEF SInv, SerialOK, HoldIsNamed
<1>3. ASSUME NEW r \in Requests, PlaceHold(r)
      PROVE  holds' = 1 /\ res'.deposit = 0 /\ At(r, "record")' /\ req'[r].hold = 1
  <2>1. req[r].seen.deposit = 0 /\ At(r, "deposit")
    BY <1>3 DEF PlaceHold, NeedsHold
  <2>2. res.deposit = 0
    BY <2>1 DEF SInv, SerialOK, Knows
  <2>3. \A x \in Requests : ~At(x, "record")
    BY <2>1 DEF OneAtATime, At
  <2>4. holds = 0
    BY <1>2, <2>2, <2>3
  <2>5. req'[r] = [req[r] EXCEPT !.pc = "record", !.hold = holds + 1]
    BY <1>3 DEF PlaceHold, Becomes, TypeOK
  <2>6. req[r] \in Request
    BY DEF TypeOK
  <2>7. req'[r].pc = "record" /\ req'[r].hold = holds + 1
    BY <2>5, <2>6 DEF Request
  <2> QED
    BY <1>3, <2>2, <2>4, <2>7 DEF PlaceHold, At
<1>4. ASSUME NEW r \in Requests, RecordHold(r)
      PROVE  holds' = res'.deposit /\ holds' <= 1
  <2>1. req[r].hold = holds /\ res'.deposit = req[r].hold /\ holds' = holds
    BY <1>4 DEF RecordHold, SInv, SerialOK, Knows, Row
  <2> QED
    BY <1>2, <2>1
<1>5. ASSUME \A r \in Requests : ~PlaceHold(r) /\ ~RecordHold(r)
      PROVE  /\ holds' = holds /\ res'.deposit = res.deposit
             /\ \A r \in Requests : At(r, "record") => req'[r] = req[r]
  <2>1. ASSUME NEW r \in Requests, RowWrite(r) PROVE res'.deposit = res.deposit
    <3>1. ~RecordHold(r)
      BY <1>5
    <3> QED
      BY <2>1, <3>1 DEF RowWrite, Reprice, GrantFree, GrantedRow, StoreLink, ApplyPayment,
         CapturedRow, Cancel, Restore, Row
  <2>2. ASSUME NEW r \in Requests, Start(r) \/ Continue(r), ~PlaceHold(r), ~RecordHold(r)
        PROVE  holds' = holds /\ ~At(r, "record")
    BY <2>2 DEF Start, Continue, SendStep, ConfirmStep, StartSend, Reprice, FindNothingDue,
       GrantFree, CreateSession, StoreLink, SendSignMail, StartCancel, Cancel, StartRestore,
       Restore, Poll, ReceiveWebhook, OpenSuccessPage, AcceptSession, RefuseSession, ReadRow,
       ApplyPayment, SkipHold, FailHold, At
  <2>3. holds' = holds
    BY <1>1, <1>5, <2>2 DEF Next, ClientPays, ChangePrice, vars
  <2>4. \A r \in Requests : At(r, "record") => req'[r] = req[r]
    BY <1>1, <1>5, <2>2, RequestChanges
  <2> QED
    BY <2>1, <2>3, <2>4, RowChanges
<1> QED
  BY <1>2, <1>3, <1>4, <1>5 DEF At

\* A request that waits knows what it knew: nobody else has written.
LEMMA KnowsStep ==
  ASSUME SInv, [Next]_vars, OneAtATime, OneAtATime', NEW x \in Requests
  PROVE  Knows(x)'
<1> TypeOK /\ Knows(x)
  BY DEF SInv, IInv, SerialOK
<1>1. CASE Start(x) \/ Continue(x) \/ Abort(x)
  BY <1>1, ContinueKnows DEF SInv
<1>2. CASE ~(Start(x) \/ Continue(x) \/ Abort(x))
  <2>1. req'[x] = req[x]
    BY <1>2, RequestChanges
  <2>2. ASSUME NEW r \in Requests, Start(r) \/ Continue(r) \/ Abort(r)
        PROVE  At(x, "idle")
    BY <1>2, <2>2, ActsAlone DEF Alone
  <2>3. CASE At(x, "idle")
    BY <2>1, <2>3 DEF Knows, At
  <2>4. CASE ~At(x, "idle")
    <3>1. UNCHANGED <<res, holds>>
      BY <2>2, <2>4 DEF Next, ClientPays, ChangePrice, vars
    <3> QED
      BY <2>1, <3>1 DEF Knows, At
  <2> QED
    BY <2>3, <2>4
<1> QED
  BY <1>1, <1>2

\* The strengthened invariant holds of a reservation just created
LEMMA SInvInit == Init => SInv
<1> SUFFICES ASSUME Init PROVE SInv
  OBVIOUS
<1>1. \A r \in Requests : req[r].pc \in {"idle", "mail"}
  BY DEF Init, Idle
<1>2. \A r \in Requests : Knows(r)
  BY <1>1 DEF Knows, At
<1>3. HoldIsNamed
  BY DEF Init, CreatedRow, HoldIsNamed
<1>4. PendingMeansUnpaid /\ BaselineIsTheSettledPayment
  BY DEF Init, CreatedRow, PendingMeansUnpaid, BaselineIsTheSettledPayment
<1> QED
  BY <1>2, <1>3, <1>4, InvInit DEF SInv, SerialOK

\* and every step taken alone keeps it.
LEMMA SInvStep == SInv /\ [Next]_vars /\ OneAtATime /\ OneAtATime' => SInv'
<1>1. SInv /\ [Next]_vars => IInv'
  BY InvStep DEF SInv
<1> QED
  BY <1>1, PendingStep, SettledStep, HoldStep, KnowsStep DEF SInv, SerialOK

\* So it holds as long as requests run one at a time.
THEOREM SerialInvariance == Spec /\ []OneAtATime => []SInv
  BY SInvInit, SInvStep, PTL DEF Spec

\* A single request runs alone: the theorems below hold of any behaviour of one.
LEMMA OneRequestIsAlone == (\A q, r \in Requests : q = r) => OneAtATime
  BY DEF OneAtATime

\* While requests run one at a time, a PENDING_PAYMENT reservation is neither
\* captured nor cancelled, though restore() decides on a row read before.
THEOREM PendingIsUnpaid == Spec /\ []OneAtATime => []PendingMeansUnpaid
<1>1. SInv => PendingMeansUnpaid
  BY DEF SInv, SerialOK
<1> QED
  BY <1>1, SerialInvariance, PTL

\* While requests run one at a time, the baseline of a settled reservation is
\* what the session it names has collected.
THEOREM BaselineIsSettled == Spec /\ []OneAtATime => []BaselineIsTheSettledPayment
<1>1. SInv => BaselineIsTheSettledPayment
  BY DEF SInv, SerialOK
<1> QED
  BY <1>1, SerialInvariance, PTL

\* While requests run one at a time and none dies, every hold on the client's
\* card is the one the row names, or its request is about to name it.
THEOREM HoldsAreNamed == Spec /\ []OneAtATime /\ [](aborts = 0) => []NoOrphanHold
<1>1. SInv /\ aborts = 0 => NoOrphanHold
  <2> SUFFICES ASSUME SInv, aborts = 0, NEW h \in 1..holds
               PROVE  h = res.deposit \/ \E r \in Requests : At(r, "record") /\ req[r].hold = h
    BY DEF NoOrphanHold
  <2>1. holds \in 0..MaxHolds /\ MaxHolds \in Nat
    BY CheckoutAssumption DEF SInv, IInv, TypeOK
  <2>2. holds <= 1
    BY DEF SInv, SerialOK, HoldIsNamed
  <2>3. h = holds /\ h = 1
    BY <2>1, <2>2
  <2> QED
    BY <2>3 DEF SInv, SerialOK, HoldIsNamed
<1> QED
  BY <1>1, SerialInvariance, PTL

\* While requests run one at a time, a payment is applied only for the session
\* and the total it was checked against.
THEOREM AppliesCurrentSession == Spec /\ []OneAtATime => OnlyCurrentSessionApplied
<1>1. SInv /\ [Next]_vars =>
        [\A r \in Requests : ApplyPayment(r) =>
            res.session \in {NoSession, req[r].session} /\ res.totalDue = req[r].amount]_vars
  BY DEF SInv, SerialOK, Knows, ApplyPayment
<1> QED
  BY <1>1, SerialInvariance, PTL DEF Spec, OnlyCurrentSessionApplied
=============================================================================
