------------------------------- MODULE Refunds -------------------------------
(***************************************************************************)
(* Refunding a reservation that was paid online, wholly or with a part in  *)
(* cash: issueRefund, which lists what Stripe can still give back, refunds *)
(* it payment by payment and only then records the refund; the             *)
(* synchronisations, which confirm the payment once more and import the    *)
(* refunds made on Stripe's dashboard; the confirmation when Stripe's      *)
(* webhook or the client's success page repeats it; the cancellation and   *)
(* the restoration.                                                        *)
(*                                                                         *)
(* Scope: the reservation is captured and its plan does not change while   *)
(* it is refunded; the edit that rewrites the refunds from a form is in    *)
(* module ReservationStore.                                                *)
(***************************************************************************)
EXTENDS Integers, FiniteSets, Functions

CONSTANTS
    Payments,    \* the Stripe payments a reservation may have, one or two
    Sales,       \* the ways it may have been paid, and what Stripe then tells
    Requests,    \* the API requests that may run at the same time (bound)
    Amounts,     \* the refunds an operator may ask for, in cents
    MaxRecorded, \* bound on what the refunds recorded add up to
    MaxAborts    \* bound on the requests that die half-way

\* What Stripe has received for each payment, in cents, 0 for one not made; the
\* payments whose session the row or a paid instalment names, and those the row
\* names as payments of the whole, not of an instalment; what was paid at the agency; whether the
\* PaymentIntents Stripe returns carry amount_refunded.
Sale == [received : [Payments -> Nat],
         named    : SUBSET Payments,
         row      : SUBSET Payments,
         cash     : Nat,
         reports  : BOOLEAN]

ASSUME RefundsAssumption ==
    /\ IsFiniteSet(Payments)
    /\ Sales \subseteq Sale
    /\ Amounts \subseteq Nat \ {0}
    /\ MaxRecorded \in Nat
    /\ MaxAborts \in Nat

VARIABLES
    sale,        \* how the reservation was paid
    reservation, \* the status and cancelledAt of its row, and whether a repeated
                 \* confirmation was the last to write the status
    recorded,    \* what its ReservationRefund rows add up to
    refunded,    \* what Stripe has given back of each payment
    dashboard,   \* somebody has refunded on Stripe's dashboard
    req,         \* the running requests
    aborts,      \* how many requests have died
    overlapped   \* two requests have run at the same time

refundsVars == <<reservation, recorded, refunded, sale, dashboard, req, aborts, overlapped>>

-----------------------------------------------------------------------------
Received == sale.received

Named == sale.named

Cash == sale.cash

\* What the client has paid; the total due and the paid instalments agree.
Collected == SumFunction(Received) + Cash

PaidStatuses == {"RESERVED_PAID", "CANCELLED", "PARTIALLY_REFUNDED", "REFUNDED"}

Reservation == [status : PaidStatuses, cancelled : BOOLEAN, confirmed : BOOLEAN]

\* A payment Stripe can refund, reached through its Checkout session or through
\* its PaymentIntent, and what was left to refund of it when it was listed.
Target == [payment : Payments, by : {"session", "intent"}, cents : Nat]

Steps == {"idle", "list", "refund", "record", "status", "write", "row", "confirm", "sum",
          "total", "cancel", "restore"}

Tasks == {"refund", "sync", "none"}

\* A request: the amount it refunds or imports, whether it cancels, the sum of
\* the refunds it has read, what is left to ask Stripe for and of whom, and the
\* status it has computed.
Request == [pc      : Steps,
            task    : Tasks,
            amount  : Nat,
            cancel  : BOOLEAN,
            sum     : Nat,
            left    : Nat,
            targets : SUBSET Target,
            status  : PaidStatuses]

Idle == [pc |-> "idle", task |-> "none", amount |-> 0, cancel |-> FALSE, sum |-> 0,
         left |-> 0, targets |-> {}, status |-> "RESERVED_PAID"]

RefundsTypeOK ==
    /\ reservation \in Reservation
    /\ recorded \in Nat
    /\ refunded \in [Payments -> Nat]
    /\ sale \in Sales
    /\ dashboard \in BOOLEAN
    /\ req \in [Requests -> Request]
    /\ aborts \in 0..MaxAborts
    /\ overlapped \in BOOLEAN

-----------------------------------------------------------------------------
RefundsInit ==
    /\ reservation = [status |-> "RESERVED_PAID", cancelled |-> FALSE, confirmed |-> FALSE]
    /\ recorded = 0
    /\ refunded = [p \in Payments |-> 0]
    /\ sale \in Sales
    /\ dashboard = FALSE
    /\ req = [r \in Requests |-> Idle]
    /\ aborts = 0
    /\ overlapped = FALSE

At(r, pc) == req[r].pc = pc

Becomes(r, request) == req' = [req EXCEPT ![r] = request]

Begins(r, request) ==
    /\ At(r, "idle")
    /\ Becomes(r, request)
    /\ overlapped' = (overlapped \/ \E q \in Requests : ~At(q, "idle"))
    /\ UNCHANGED <<reservation, recorded, refunded, sale, dashboard, aborts>>

\* What Stripe says is left to refund of a payment, and what is left.
Reported(p) == IF sale.reports THEN Received[p] - refunded[p] ELSE Received[p]

Left(p) == Received[p] - refunded[p]

-----------------------------------------------------------------------------
(* issueRefund.                                                            *)

StartRefund(r, amount, cancel) ==
    Begins(r, [Idle EXCEPT !.pc = "list", !.task = "refund", !.amount = amount,
                           !.cancel = cancel, !.sum = recorded])

\* The sessions the database names, and the PaymentIntents a search finds, if
\* it succeeds: a payment may be listed under both.
Targets(searched) ==
    {[payment |-> p, by |-> "session", cents |-> Reported(p)] : p \in Named}
    \cup {[payment |-> p, by |-> "intent", cents |-> Reported(p)] :
            p \in IF searched THEN Payments ELSE {}}

Listed(searched) == {t \in Targets(searched) : t.cents > 0}

MUTANT_Allowed(request) == request.amount <= Collected

\* The cap is the total paid; the refunds are those read with the row.
Allowed(request) ==
    LET remaining == Collected - request.sum
    IN  request.amount <= IF remaining > 0 THEN remaining ELSE 0

Smaller(a, b) == IF a <= b THEN a ELSE b

\* What is beyond the targets' sum is taken for a part paid in cash.
ListTargets(r) ==
    /\ At(r, "list")
    /\ \E searched \in BOOLEAN :
          LET targets == Listed(searched)
              refundable == SumFunction([t \in targets |-> t.cents])
              left == Smaller(req[r].amount, refundable)
          IN  Becomes(r, IF ~Allowed(req[r]) THEN Idle
                         ELSE [req[r] EXCEPT !.pc = IF left > 0 THEN "refund" ELSE "record",
                                             !.left = left, !.sum = 0,
                                             !.targets = IF left > 0 THEN targets ELSE {}])
    /\ UNCHANGED <<reservation, recorded, refunded, sale, dashboard, aborts, overlapped>>

\* The largest first, a session before an intent.
Precedes(t, u) ==
    \/ t.cents > u.cents
    \/ t.cents = u.cents /\ t.by = "session" /\ u.by = "intent"

IsNext(t, targets) == t \in targets /\ \A u \in targets : ~Precedes(u, t)

\* stripeErrorMessageFr words Stripe's error, and isStripeChargeAlreadyRefunded
\* looks for words in what it has worded.
Worded(error) ==
    IF error = "charge_already_refunded" THEN "est deja remboursee" ELSE "depasse"

IsAlreadyRefunded(message) == message \in {"integralement rembourse", "deja ete rembourse"}

Refusal(t, chunk) ==
    IF chunk > Reported(t.payment) \/ Left(t.payment) > 0 THEN "amount_too_large"
    ELSE "charge_already_refunded"

Chunk(request, t) == Smaller(request.left, t.cents)

\* One target is refunded, or its refusal ends the request, though what was
\* refunded before it stays refunded.
RefundTarget(r, t) ==
    LET chunk == Chunk(req[r], t)
        rest == [req[r] EXCEPT !.targets = @ \ {t}, !.left = @ - chunk]
        next == IF rest.left > 0 THEN rest
                ELSE [rest EXCEPT !.pc = "record", !.targets = {}]
    IN  /\ At(r, "refund")
        /\ IsNext(t, req[r].targets)
        /\ IF chunk <= Reported(t.payment) /\ chunk <= Left(t.payment)
           THEN /\ refunded' = [refunded EXCEPT ![t.payment] = @ + chunk]
                /\ Becomes(r, next)
           ELSE /\ Becomes(r, IF IsAlreadyRefunded(Worded(Refusal(t, chunk)))
                              THEN next ELSE Idle)
                /\ UNCHANGED refunded
        /\ UNCHANGED <<reservation, recorded, sale, dashboard, aborts, overlapped>>

\* The refund's row, or the import's, is created; nothing is looked at again.
RecordRefund(r) ==
    /\ At(r, "record")
    /\ recorded + req[r].amount <= MaxRecorded
    /\ recorded' = recorded + req[r].amount
    /\ Becomes(r, [req[r] EXCEPT !.pc = "status", !.amount = 0])
    /\ UNCHANGED <<reservation, refunded, sale, dashboard, aborts, overlapped>>

MUTANT_RefundStatus(sum) == IF sum >= 1 THEN "REFUNDED" ELSE "PARTIALLY_REFUNDED"

\* computeRefundStatus, to a cent.
RefundStatus(sum) == IF sum >= Collected - 1 THEN "REFUNDED" ELSE "PARTIALLY_REFUNDED"

\* The row and the refunds are read again.
ComputeStatus(r) ==
    /\ At(r, "status")
    /\ Becomes(r, [req[r] EXCEPT !.pc = "write", !.status = RefundStatus(recorded)])
    /\ UNCHANGED <<reservation, recorded, refunded, sale, dashboard, aborts, overlapped>>

WriteStatus(r) ==
    /\ At(r, "write")
    /\ reservation' = [status |-> req[r].status,
                        cancelled |-> reservation.cancelled \/ req[r].cancel,
                        confirmed |-> FALSE]
    /\ Becomes(r, Idle)
    /\ UNCHANGED <<recorded, refunded, sale, dashboard, aborts, overlapped>>

-----------------------------------------------------------------------------
(* confirmPaymentFromCheckoutSession, of a session that was confirmed      *)
(* before.                                                                 *)

\* The validation asks that the row names the session and that it has collected
\* the total due.  An instalment that is paid is told so, and nothing is written.
Confirmable == \E p \in sale.row : Received[p] = Collected

\* The webhook again, or the client's success page.
StartConfirmation(r) ==
    /\ Confirmable
    /\ Begins(r, [Idle EXCEPT !.pc = "row"])

\* A synchronisation reads the refunds once the sessions are confirmed.
Confirmed(request) == IF request.task = "sync" THEN [request EXCEPT !.pc = "sum"] ELSE Idle

\* The row is read after the validation; what is paid already is left alone.
ReadRow(r) ==
    /\ At(r, "row")
    /\ Becomes(r, IF Confirmable /\ reservation.status # "RESERVED_PAID"
                  THEN [req[r] EXCEPT !.pc = "confirm"] ELSE Confirmed(req[r]))
    /\ UNCHANGED <<reservation, recorded, refunded, sale, dashboard, aborts, overlapped>>

\* Whatever the status was, it becomes RESERVED_PAID; cancelledAt stays.
ConfirmAgain(r) ==
    /\ At(r, "confirm")
    /\ reservation' = [status |-> "RESERVED_PAID", cancelled |-> reservation.cancelled,
                        confirmed |-> TRUE]
    /\ Becomes(r, Confirmed(req[r]))
    /\ UNCHANGED <<recorded, refunded, sale, dashboard, aborts, overlapped>>

-----------------------------------------------------------------------------
(* syncStripePayment, and syncStripeRefunds by itself or as its end.       *)

\* The sessions named are confirmed first; without one it is refused.
StartSync(r) ==
    /\ Named # {}
    /\ Begins(r, [Idle EXCEPT !.pc = "row", !.task = "sync"])

StartImport(r) ==
    Begins(r, [Idle EXCEPT !.pc = "total", !.task = "sync", !.sum = recorded])

ReadRefunds(r) ==
    /\ At(r, "sum")
    /\ Becomes(r, [req[r] EXCEPT !.pc = "total", !.sum = recorded])
    /\ UNCHANGED <<reservation, recorded, refunded, sale, dashboard, aborts, overlapped>>

StripeTotal == IF sale.reports THEN SumFunction(refunded) ELSE 0

\* What Stripe has given back and the refunds read do not tell.
Missing(request) == StripeTotal - request.sum

CompareWithStripe(r) ==
    /\ At(r, "total")
    /\ Becomes(r, IF Missing(req[r]) < 1 THEN Idle
                  ELSE [req[r] EXCEPT !.pc = "record", !.amount = Missing(req[r]), !.sum = 0])
    /\ UNCHANGED <<reservation, recorded, refunded, sale, dashboard, aborts, overlapped>>

-----------------------------------------------------------------------------
(* Cancelling and restoring.                                               *)

StartCancel(r) ==
    /\ reservation.status # "CANCELLED" /\ ~reservation.cancelled
    /\ Begins(r, [Idle EXCEPT !.pc = "cancel"])

CancelReservation(r) ==
    /\ At(r, "cancel")
    /\ reservation' = [status |-> "CANCELLED", cancelled |-> TRUE, confirmed |-> FALSE]
    /\ Becomes(r, Idle)
    /\ UNCHANGED <<recorded, refunded, sale, dashboard, aborts, overlapped>>

MUTANT_MayRestore == reservation.status = "CANCELLED" \/ reservation.cancelled

\* A refunded reservation is not restored.
MayRestore ==
    /\ reservation.status = "CANCELLED" \/ reservation.cancelled
    /\ reservation.status \notin {"REFUNDED", "PARTIALLY_REFUNDED"}
    /\ recorded = 0

StartRestore(r) ==
    /\ MayRestore
    /\ Begins(r, [Idle EXCEPT !.pc = "restore"])

RestoreReservation(r) ==
    /\ At(r, "restore")
    /\ reservation' = [status |-> "RESERVED_PAID", cancelled |-> FALSE, confirmed |-> FALSE]
    /\ Becomes(r, Idle)
    /\ UNCHANGED <<recorded, refunded, sale, dashboard, aborts, overlapped>>

-----------------------------------------------------------------------------
(* The outside.                                                            *)

\* Somebody refunds a payment on Stripe's dashboard.
RefundOnDashboard(p, amount) ==
    /\ amount <= Left(p)
    /\ refunded' = [refunded EXCEPT ![p] = @ + amount]
    /\ dashboard' = TRUE
    /\ UNCHANGED <<reservation, recorded, sale, req, aborts, overlapped>>

\* A request dies: an exception of the database or of Stripe, or a restart.
Abort(r) ==
    /\ ~At(r, "idle")
    /\ aborts < MaxAborts
    /\ aborts' = aborts + 1
    /\ Becomes(r, Idle)
    /\ UNCHANGED <<reservation, recorded, refunded, sale, dashboard, overlapped>>

-----------------------------------------------------------------------------
Start(r) ==
    \/ \E amount \in Amounts, cancel \in BOOLEAN : StartRefund(r, amount, cancel)
    \/ StartConfirmation(r)
    \/ StartSync(r)
    \/ StartImport(r)
    \/ StartCancel(r)
    \/ StartRestore(r)

Continue(r) ==
    \/ ListTargets(r)
    \/ \E t \in req[r].targets : RefundTarget(r, t)
    \/ RecordRefund(r)
    \/ ComputeStatus(r)
    \/ WriteStatus(r)
    \/ ReadRow(r)
    \/ ConfirmAgain(r)
    \/ ReadRefunds(r)
    \/ CompareWithStripe(r)
    \/ CancelReservation(r)
    \/ RestoreReservation(r)

RefundsNext ==
    \/ \E r \in Requests : Start(r) \/ Continue(r) \/ Abort(r)
    \/ \E p \in Payments, amount \in Amounts : RefundOnDashboard(p, amount)

RefundsSpec == RefundsInit /\ [][RefundsNext]_refundsVars

-----------------------------------------------------------------------------
(* Properties that hold however the requests interleave and die.           *)

\* The status REFUNDED is never on a reservation of which more than a cent is
\* not recorded as refunded, though the status is written after a second read
\* and other requests refund, cancel, restore or confirm in between.
RefundedIsRefunded == reservation.status = "REFUNDED" => recorded >= Collected - 1

-----------------------------------------------------------------------------
(* Properties of requests that have come one at a time so far.             *)

\* The refunds recorded, by hand or imported, never exceed what the client has
\* paid: issueRefund's cap and the synchronisation's difference agree.
NotBeyondCollected == ~overlapped => recorded <= Collected

\* When nobody is at it, the status of a reservation with refunds tells them,
\* unless it was cancelled afterwards, a repeated confirmation has written
\* RESERVED_PAID over it, or a request has died.
StatusTellsRefunds ==
    ~overlapped /\ aborts = 0 /\ recorded > 0 /\ (\A r \in Requests : At(r, "idle")) =>
        \/ reservation.status \in {"CANCELLED", RefundStatus(recorded)}
        \/ reservation.status = "RESERVED_PAID" /\ reservation.confirmed

-----------------------------------------------------------------------------
(* What the code's comments say and the code does not do.                  *)

\* "Remboursement client (Stripe si paiement en ligne) + enregistrement BDD":
\* when nobody is at it, what the application has refunded at Stripe is
\* recorded, if no request has died, none has overlapped another and nobody has
\* used the dashboard.
StripeRefundIsRecorded ==
    ~overlapped /\ aborts = 0 /\ ~dashboard /\ (\A r \in Requests : At(r, "idle")) =>
        SumFunction(refunded) <= recorded
=============================================================================
