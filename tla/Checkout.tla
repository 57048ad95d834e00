------------------------------ MODULE Checkout ------------------------------
(***************************************************************************)
(* The online payment of one reservation: the confirmation mail that       *)
(* creates a Stripe Checkout session, the confirmation of a paid session   *)
(* by the webhook, the success page or the polling, the deposit hold       *)
(* placed after it, and the cancellation and restoration of the            *)
(* reservation while all this goes on.                                     *)
(*                                                                         *)
(* Every API request is an asynchronous function that reads the row,       *)
(* awaits, and writes it later: each stretch between two awaits that       *)
(* touches shared state is one action, and what the request read is kept   *)
(* in its record until it is used.                                         *)
(*                                                                         *)
(* Scope: an ONLINE reservation in a single payment, of a client without   *)
(* store credit, before the rental ends.                                   *)
(***************************************************************************)
EXTENDS Integers

CONSTANTS
    Sessions,    \* the Stripe Checkout sessions that may be created (bound)
    Requests,    \* the API requests that may run at the same time (bound)
    Pollers,     \* those of them that run the periodic synchronisation
    Prices,      \* the totals the catalogue may give, in cents
    HasDeposit,  \* the reservation or its boat asks for a deposit of 50 cents or more
    MaxHolds,    \* bound on the card holds Stripe may place
    MaxAborts,   \* bound on the requests that die half-way
    NoSession    \* the null of stripeCheckoutSessionId and paymentLinkUrl

ASSUME CheckoutAssumption ==
    /\ Pollers \subseteq Requests
    /\ Requests \ Pollers # {}
    /\ Prices \subseteq Nat
    /\ Prices # {}
    /\ NoSession \notin Sessions
    /\ HasDeposit \in BOOLEAN
    /\ MaxHolds \in Nat
    /\ MaxAborts \in Nat

MinCharge == 50  \* the smallest amount Stripe takes, in cents

VARIABLES
    res,         \* the reservation's row
    price,       \* what computeReservationTotalDueCents returns for it now
    stripe,      \* Stripe's side of every Checkout session
    event,       \* the checkout.session.completed event of every session
    holds,       \* how many card holds Stripe has placed, numbered from 1
    signMailed,  \* contractSignEmailSentAt is set
    req,         \* the running requests
    aborts       \* how many requests have died

vars == <<res, price, stripe, event, holds, signMailed, req, aborts>>

-----------------------------------------------------------------------------
(* The row and the requests.  captured is paymentCapturedAt # null,        *)
(* cancelled is cancelledAt # null, link names the session paymentLinkUrl  *)
(* points to, deposit is the hold of stripeDepositPaymentIntentId (0 for   *)
(* null), baseline the onlinePaidBaselineCents of detailsJson (0 if none). *)

Row == [status    : {"PENDING_PAYMENT", "RESERVED_PAID", "CANCELLED"},
        captured  : BOOLEAN,
        cancelled : BOOLEAN,
        totalDue  : Prices,
        session   : Sessions \cup {NoSession},
        link      : Sessions \cup {NoSession},
        deposit   : 0..MaxHolds,
        baseline  : Prices \cup {0}]

\* The row create() leaves before its confirmation mail.
CreatedRow(total) ==
    [status |-> "PENDING_PAYMENT", captured |-> FALSE, cancelled |-> FALSE,
     totalDue |-> total, session |-> NoSession, link |-> NoSession,
     deposit |-> 0, baseline |-> 0]

Steps == {"idle", "reprice", "mail", "free", "store",      \* the confirmation mail
          "check", "read", "apply", "deposit", "record",   \* the confirmation of a session
          "sign",                                          \* the end of both
          "cancel", "restore"}

\* A request: where it stands, the session it works on, whether Stripe's
\* webhook waits for its answer, what it has read of the row and will use, the
\* amount it works with, and the hold it has obtained.
Request == [pc      : Steps,
            session : Sessions \cup {NoSession},
            webhook : BOOLEAN,
            seen    : Row,
            amount  : Prices,
            hold    : 0..MaxHolds]

AnyPrice == CHOOSE p \in Prices : TRUE

Unread == CreatedRow(AnyPrice)

Idle == [pc |-> "idle", session |-> NoSession, webhook |-> FALSE,
         seen |-> Unread, amount |-> AnyPrice, hold |-> 0]

\* A Checkout session is "created" by the API call, "open" once its URL is
\* stored and so known to somebody, "paid" when the client has paid it.
StripeSession == [state  : {"unused", "created", "open", "paid"},
                  amount : Prices]

\* The webhook event of a session: Stripe delivers it again until the
\* controller answers 200.
Event == {"none", "queued", "acknowledged"}

TypeOK ==
    /\ res \in Row
    /\ price \in Prices
    /\ stripe \in [Sessions -> StripeSession]
    /\ event \in [Sessions -> Event]
    /\ holds \in 0..MaxHolds
    /\ signMailed \in BOOLEAN
    /\ req \in [Requests -> Request]
    /\ aborts \in 0..MaxAborts

Paid(s) == s \in Sessions /\ stripe[s].state = "paid"

-----------------------------------------------------------------------------
(* create() has stored the row and priced it, and its own request is about *)
(* to send the confirmation mail.                                          *)

Init ==
    /\ price \in Prices
    /\ res = CreatedRow(price)
    /\ stripe = [s \in Sessions |-> [state |-> "unused", amount |-> AnyPrice]]
    /\ event = [s \in Sessions |-> "none"]
    /\ holds = 0
    /\ signMailed = FALSE
    /\ \E creator \in Requests \ Pollers :
          req = [r \in Requests |->
                    IF r = creator THEN [Idle EXCEPT !.pc = "mail"] ELSE Idle]
    /\ aborts = 0

At(r, pc) == req[r].pc = pc

Becomes(r, request) == req' = [req EXCEPT ![r] = request]

\* The mail or the confirmation is done but for the signing mail: nothing that
\* the request has read is used again.
GotoSign(r) ==
    Becomes(r, [Idle EXCEPT
        !.pc = "sign", !.webhook = req[r].webhook,
        !.session = IF req[r].webhook THEN req[r].session ELSE NoSession])

\* The request answers; Stripe takes its 200 for an acknowledgement.
Answer(r) ==
    /\ Becomes(r, Idle)
    /\ event' = IF req[r].webhook
                THEN [event EXCEPT ![req[r].session] = "acknowledged"]
                ELSE event

-----------------------------------------------------------------------------
(* The confirmation mail: ReservationsService.sendConfirmationEmail, which *)
(* first reprices an unpaid reservation, then the notification service's   *)
(* sendConfirmationEmail, where create() enters directly.                  *)

StartSend(r) ==
    /\ At(r, "idle")
    /\ r \notin Pollers
    /\ Becomes(r, IF res.captured
                  THEN [Idle EXCEPT !.pc = "mail"]
                  ELSE [Idle EXCEPT !.pc = "reprice", !.amount = price,
                                    !.seen = [Unread EXCEPT !.totalDue = res.totalDue]])
    /\ UNCHANGED <<res, price, stripe, event, holds, signMailed, aborts>>

\* syncComputedTotalDueCents writes the price it computed unless the row it was
\* given holds it already; it does not look again whether the row is captured.
Reprice(r) ==
    /\ At(r, "reprice")
    /\ res' = IF req[r].amount > 0 /\ req[r].seen.totalDue = req[r].amount
              THEN res
              ELSE [res EXCEPT !.totalDue = req[r].amount]
    /\ Becomes(r, [Idle EXCEPT !.pc = "mail"])
    /\ UNCHANGED <<price, stripe, event, holds, signMailed, aborts>>

IsFree(total) == total < MinCharge

\* Nothing to collect: the row read decides, and is written by GrantFree.
FindNothingDue(r) ==
    /\ At(r, "mail")
    /\ IsFree(res.totalDue)
    /\ Becomes(r, [Idle EXCEPT !.pc = "free",
                       !.seen = [Unread EXCEPT !.captured = res.captured,
                                               !.totalDue = res.totalDue]])
    /\ UNCHANGED <<res, price, stripe, event, holds, signMailed, aborts>>

MUTANT_GrantedRow(row, total) ==
    [row EXCEPT !.totalDue = total, !.captured = TRUE,
                !.status = "RESERVED_PAID", !.link = NoSession]

GrantedRow(row, total) ==
    [row EXCEPT !.totalDue = total, !.captured = TRUE,
                !.status = "RESERVED_PAID", !.link = NoSession,
                !.session = NoSession]

GrantFree(r) ==
    /\ At(r, "free")
    /\ res' = IF req[r].seen.captured
              THEN res
              ELSE GrantedRow(res, req[r].seen.totalDue)
    /\ GotoSign(r)
    /\ UNCHANGED <<price, stripe, event, holds, signMailed, aborts>>

\* A Checkout session is created for the amount read, whatever the row's status.
CreateSession(r) ==
    /\ At(r, "mail")
    /\ ~IsFree(res.totalDue)
    /\ \E s \in Sessions :
          /\ stripe[s].state = "unused"
          /\ stripe' = [stripe EXCEPT ![s] = [state |-> "created", amount |-> res.totalDue]]
          /\ Becomes(r, [Idle EXCEPT !.pc = "store", !.session = s,
                                     !.amount = res.totalDue])
    /\ UNCHANGED <<res, price, event, holds, signMailed, aborts>>

\* The row names the new session; the one it named before stays payable.
StoreLink(r) ==
    /\ At(r, "store")
    /\ res' = [res EXCEPT !.session = req[r].session, !.link = req[r].session,
                          !.totalDue = req[r].amount]
    /\ stripe' = [stripe EXCEPT ![req[r].session].state = "open"]
    /\ GotoSign(r)
    /\ UNCHANGED <<price, event, holds, signMailed, aborts>>

\* trySendContractSignEmail, the last step of a mail and of a confirmation: the
\* signing mail goes out once, only for a row that counts as paid; its failure
\* is logged and the request goes on.
SendSignMail(r) ==
    /\ At(r, "sign")
    /\ \/ UNCHANGED signMailed
       \/ /\ ~signMailed
          /\ res.captured \/ res.status = "RESERVED_PAID"
          /\ signMailed' = TRUE
    /\ Answer(r)
    /\ UNCHANGED <<res, price, stripe, holds, aborts>>

-----------------------------------------------------------------------------
(* Confirming a session: confirmPaymentFromCheckoutSession and its callers. *)

\* Stripe delivers the event, possibly to several requests at a time.
ReceiveWebhook(r, s) ==
    /\ At(r, "idle")
    /\ r \notin Pollers
    /\ event[s] = "queued"
    /\ Becomes(r, [Idle EXCEPT !.pc = "check", !.session = s, !.webhook = TRUE])
    /\ UNCHANGED <<res, price, stripe, event, holds, signMailed, aborts>>

\* The success page, the contract page or the operator's button: any session
\* whose URL has been given out may be confirmed at any time, and again.
OpenSuccessPage(r, s) ==
    /\ At(r, "idle")
    /\ r \notin Pollers
    /\ stripe[s].state \in {"open", "paid"}
    /\ Becomes(r, [Idle EXCEPT !.pc = "check", !.session = s])
    /\ UNCHANGED <<res, price, stripe, event, holds, signMailed, aborts>>

MUTANT_AwaitsPayment(row) == row.status = "RESERVED_PAID" /\ row.session # NoSession

AwaitsPayment(row) == row.status = "PENDING_PAYMENT" /\ row.session # NoSession

\* syncPendingStripePayments, which the administration's page asks for every 10 s.
Poll(r) ==
    /\ At(r, "idle")
    /\ r \in Pollers
    /\ AwaitsPayment(res)
    /\ Becomes(r, [Idle EXCEPT !.pc = "check", !.session = res.session])
    /\ UNCHANGED <<res, price, stripe, event, holds, signMailed, aborts>>

MUTANT_AcceptsAnyAmount(row, s) ==
    /\ stripe[s].state = "paid"
    /\ row.session \in {NoSession, s}
    /\ row.totalDue >= MinCharge

\* validatePaidCheckoutSession: the expected amount is the stored total.
Accepts(row, s) ==
    /\ stripe[s].state = "paid"
    /\ row.session \in {NoSession, s}
    /\ row.totalDue >= MinCharge
    /\ stripe[s].amount = row.totalDue

AcceptSession(r) ==
    /\ At(r, "check")
    /\ Accepts(res, req[r].session)
    /\ Becomes(r, [req[r] EXCEPT !.pc = "read", !.amount = res.totalDue])
    /\ UNCHANGED <<res, price, stripe, event, holds, signMailed, aborts>>

\* The webhook answers 200 to a session it refuses: Stripe does not come back.
RefuseSession(r) ==
    /\ At(r, "check")
    /\ ~Accepts(res, req[r].session)
    /\ Answer(r)
    /\ UNCHANGED <<res, price, stripe, holds, signMailed, aborts>>

\* The row is read again, after the contract has been ensured.
ReadRow(r) ==
    /\ At(r, "read")
    /\ Becomes(r, [req[r] EXCEPT !.pc = "apply",
                       !.seen = [Unread EXCEPT !.status = res.status,
                                               !.captured = res.captured,
                                               !.totalDue = res.totalDue,
                                               !.deposit = res.deposit]])
    /\ UNCHANGED <<res, price, stripe, event, holds, signMailed, aborts>>

WasAlreadyPaid(row) == row.status = "RESERVED_PAID" /\ row.captured

MUTANT_AccumulatedRow(row, s, total) ==
    [row EXCEPT !.status = "RESERVED_PAID", !.captured = TRUE, !.totalDue = total,
                !.session = s, !.link = NoSession, !.baseline = @ + total]

MUTANT_KeptBaselineRow(row, s, total) ==
    [row EXCEPT !.status = "RESERVED_PAID", !.captured = TRUE, !.totalDue = total,
                !.session = s, !.link = NoSession,
                !.baseline = IF @ > 0 THEN @ ELSE total]

\* cancelledAt is left as it is.
CapturedRow(row, s, total) ==
    [row EXCEPT !.status = "RESERVED_PAID", !.captured = TRUE, !.totalDue = total,
                !.session = s, !.link = NoSession, !.baseline = total]

ApplyPayment(r) ==
    /\ At(r, "apply")
    /\ res' = IF WasAlreadyPaid(req[r].seen)
              THEN IF req[r].seen.totalDue = req[r].amount
                   THEN res
                   ELSE [res EXCEPT !.totalDue = req[r].amount]
              ELSE CapturedRow(res, req[r].session, req[r].amount)
    /\ Becomes(r, [req[r] EXCEPT !.pc = "deposit", !.amount = AnyPrice,
                       !.seen = [Unread EXCEPT !.deposit = req[r].seen.deposit]])
    /\ UNCHANGED <<price, stripe, event, holds, signMailed, aborts>>

MUTANT_NeedsHold(row) == HasDeposit

\* Decided on the row that was read before the payment was applied.
NeedsHold(row) == HasDeposit /\ row.deposit = 0

SkipHold(r) ==
    /\ At(r, "deposit")
    /\ ~NeedsHold(req[r].seen)
    /\ GotoSign(r)
    /\ UNCHANGED <<res, price, stripe, event, holds, signMailed, aborts>>

PlaceHold(r) ==
    /\ At(r, "deposit")
    /\ NeedsHold(req[r].seen)
    /\ holds < MaxHolds
    /\ holds' = holds + 1
    /\ Becomes(r, [req[r] EXCEPT !.pc = "record", !.hold = holds + 1])
    /\ UNCHANGED <<res, price, stripe, event, signMailed, aborts>>

\* Stripe declines or fails: the error is logged and the confirmation goes on.
FailHold(r) ==
    /\ At(r, "deposit")
    /\ NeedsHold(req[r].seen)
    /\ GotoSign(r)
    /\ UNCHANGED <<res, price, stripe, event, holds, signMailed, aborts>>

RecordHold(r) ==
    /\ At(r, "record")
    /\ res' = [res EXCEPT !.deposit = req[r].hold]
    /\ GotoSign(r)
    /\ UNCHANGED <<price, stripe, event, holds, signMailed, aborts>>

-----------------------------------------------------------------------------
(* Cancelling and restoring.  Both write back the detailsJson they read.   *)

IsCancelled(row) == row.status = "CANCELLED" \/ row.cancelled

StartCancel(r) ==
    /\ At(r, "idle")
    /\ r \notin Pollers
    /\ ~IsCancelled(res)
    /\ Becomes(r, [Idle EXCEPT !.pc = "cancel",
                       !.seen = [Unread EXCEPT !.baseline = res.baseline]])
    /\ UNCHANGED <<res, price, stripe, event, holds, signMailed, aborts>>

Cancel(r) ==
    /\ At(r, "cancel")
    /\ res' = [res EXCEPT !.status = "CANCELLED", !.cancelled = TRUE,
                          !.baseline = req[r].seen.baseline]
    /\ Answer(r)
    /\ UNCHANGED <<price, stripe, holds, signMailed, aborts>>

StartRestore(r) ==
    /\ At(r, "idle")
    /\ r \notin Pollers
    /\ IsCancelled(res)
    /\ Becomes(r, [Idle EXCEPT !.pc = "restore", !.amount = price,
                       !.seen = [Unread EXCEPT !.captured = res.captured,
                                               !.totalDue = res.totalDue,
                                               !.baseline = res.baseline]])
    /\ UNCHANGED <<res, price, stripe, event, holds, signMailed, aborts>>

MUTANT_AlwaysPending(seen) == "PENDING_PAYMENT"

RestoredStatus(seen) == IF seen.captured THEN "RESERVED_PAID" ELSE "PENDING_PAYMENT"

\* The total becomes the catalogue's price of the moment, if there is one.
Restore(r) ==
    /\ At(r, "restore")
    /\ res' = [res EXCEPT !.status = RestoredStatus(req[r].seen), !.cancelled = FALSE,
                          !.totalDue = IF req[r].amount > 0 THEN req[r].amount
                                       ELSE req[r].seen.totalDue,
                          !.baseline = req[r].seen.baseline]
    /\ Answer(r)
    /\ UNCHANGED <<price, stripe, holds, signMailed, aborts>>

-----------------------------------------------------------------------------
(* The outside: the client, the catalogue, failures.                       *)

ClientPays(s) ==
    /\ stripe[s].state = "open"
    /\ stripe' = [stripe EXCEPT ![s].state = "paid"]
    /\ event' = [event EXCEPT ![s] = "queued"]
    /\ UNCHANGED <<res, price, holds, signMailed, req, aborts>>

\* The price of an extra, a coupon or the season's rate is edited elsewhere.
ChangePrice ==
    /\ \E p \in Prices \ {price} : price' = p
    /\ UNCHANGED <<res, stripe, event, holds, signMailed, req, aborts>>

\* A request dies: an exception of the database, of Stripe or of the mail
\* service, or a restart of the server.  A webhook gets no 200.
Abort(r) ==
    /\ ~At(r, "idle")
    /\ aborts < MaxAborts
    /\ aborts' = aborts + 1
    /\ Becomes(r, Idle)
    /\ UNCHANGED <<res, price, stripe, event, holds, signMailed>>

-----------------------------------------------------------------------------
SendStep(r) ==
    \/ Reprice(r)
    \/ FindNothingDue(r)
    \/ GrantFree(r)
    \/ CreateSession(r)
    \/ StoreLink(r)
    \/ SendSignMail(r)

ConfirmStep(r) ==
    \/ AcceptSession(r)
    \/ RefuseSession(r)
    \/ ReadRow(r)
    \/ ApplyPayment(r)
    \/ SkipHold(r)
    \/ PlaceHold(r)
    \/ FailHold(r)
    \/ RecordHold(r)

\* What a running request does next.
Continue(r) == SendStep(r) \/ ConfirmStep(r) \/ Cancel(r) \/ Restore(r)

Start(r) ==
    \/ StartSend(r)
    \/ StartCancel(r)
    \/ StartRestore(r)
    \/ Poll(r)
    \/ \E s \in Sessions : ReceiveWebhook(r, s) \/ OpenSuccessPage(r, s)

Next ==
    \/ \E r \in Requests : Start(r) \/ Continue(r) \/ Abort(r)
    \/ \E s \in Sessions : ClientPays(s)
    \/ ChangePrice

Spec == Init /\ [][Next]_vars

\* A request that runs goes on, and an administration page polls.
Fairness == \A r \in Requests : WF_vars(Continue(r)) /\ WF_vars(Poll(r))

FairSpec == Spec /\ Fairness

-----------------------------------------------------------------------------
(* Properties that hold however the requests interleave and die.           *)

\* A reservation becomes captured only against a session that Stripe reports
\* paid, of exactly the total due then written, or when that total is under
\* the 50 cents Stripe can charge: the only two writes of paymentCapturedAt,
\* in confirmPaymentFromCheckoutSession and sendConfirmationEmail.
CaptureIsEarned ==
    [][ ~res.captured /\ res'.captured =>
          \/ Paid(res'.session) /\ stripe[res'.session].amount = res'.totalDue
          \/ res'.totalDue < MinCharge /\ res'.session = NoSession ]_vars

\* onlinePaidBaselineCents, from which supplements and refunds are computed,
\* is the amount of a session that was paid, even after a stale detailsJson
\* has been written back by cancel or restore.
BaselineIsAPayment ==
    res.baseline > 0 => \E s \in Sessions : Paid(s) /\ stripe[s].amount = res.baseline

\* The status RESERVED_PAID never stands on a row without paymentCapturedAt,
\* though restore chooses it from a row read earlier.
PaidStatusMeansCaptured == res.status = "RESERVED_PAID" => res.captured

\* A row that names a session and offers no link names a paid session: no
\* order of a mail, a confirmation and a free grant leaves the client with an
\* unpaid session and nothing to click.
ClosedLinkIsPaid == res.session # NoSession /\ res.link = NoSession => Paid(res.session)

-----------------------------------------------------------------------------
(* What the reservation's payment amounts to: PaymentLedger.               *)

\* What Stripe holds of the client's money, by session.
Received == [s \in Sessions |-> IF Paid(s) THEN stripe[s].amount ELSE 0]

Ledger == INSTANCE PaymentLedger WITH
    received <- Received,
    captured <- res.captured,
    baseline <- res.baseline,
    invited  <- signMailed

\* Whatever mails, confirmations, replays, cancellations, restorations and deaths
\* do, the reservation, Stripe and the signing mail behave as the ledger does:
\* no payment is taken back, no capture undone, none made without money, no
\* baseline invented, nobody invited to sign before.
KeepsLedger == Ledger!Spec

-----------------------------------------------------------------------------
(* Properties of requests that run one at a time.                          *)

\* A PENDING_PAYMENT row is neither captured nor cancelled.
PendingMeansUnpaid ==
    res.status = "PENDING_PAYMENT" => ~res.captured /\ ~res.cancelled

\* Every hold on the client's card is the one the row names, so that it can be
\* released or captured, or is about to be recorded.
NoOrphanHold ==
    \A h \in 1..holds :
        h = res.deposit \/ \E r \in Requests : At(r, "record") /\ req[r].hold = h

\* A payment is applied only while its session is still the row's, or the row
\* has none, and the total is still the one it was checked against.
OnlyCurrentSessionApplied ==
    [][ \A r \in Requests : ApplyPayment(r) =>
          res.session \in {NoSession, req[r].session} /\ res.totalDue = req[r].amount ]_vars

\* Once a payment is settled, the baseline is what its session collected.
BaselineIsTheSettledPayment ==
    res.captured /\ res.link = NoSession /\ res.session # NoSession =>
        res.baseline = stripe[res.session].amount

-----------------------------------------------------------------------------
(* Liveness.                                                               *)

Payable(s) ==
    /\ res.status = "PENDING_PAYMENT"
    /\ res.session = s
    /\ stripe[s].amount = res.totalDue

\* The payment of the session a pending reservation names is captured in the
\* end, unless the reservation changes its session, total or status first:
\* also after the webhook was refused, or died, and even if it never comes.
PaidIsCaptured ==
    \A s \in Sessions :
        Paid(s) /\ Payable(s) ~> res.captured \/ ~Payable(s)

-----------------------------------------------------------------------------
(* What the code's comments say and the code does not do.                  *)

\* "Idempotent": applying a session the reservation was captured with already
\* changes nothing in the row.
ConfirmIsIdempotent ==
    [][ \A r \in Requests :
          ApplyPayment(r) /\ res.captured /\ res.session = req[r].session
              => UNCHANGED res ]_vars

\* "Recalcule le montant attendu serveur": a payment is accepted for the total
\* the server computes at that moment.
AcceptedAtServerPrice ==
    [][ \A r \in Requests : AcceptSession(r) => stripe[req[r].session].amount = price ]_vars
=============================================================================
