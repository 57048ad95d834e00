----------------------------- MODULE Supplement -----------------------------
(***************************************************************************)
(* What happens to the money of a reservation that is paid when its price  *)
(* changes: the move to another slot, which leaves a difference to pay or  *)
(* turns it into store credit, the supplement session the client pays the  *)
(* difference with, its confirmation, and its settlement at the agency.    *)
(*                                                                         *)
(* The supplement that was paid is one field of detailsJson, a column that *)
(* is read as a whole and written back as a whole: a request keeps what it *)
(* has read of it in details.                                              *)
(*                                                                         *)
(* Scope: an ONLINE reservation in a single payment, captured for Base     *)
(* cents as in module Checkout, without store credit spent on it, not      *)
(* cancelled; clients with a mail address.                                 *)
(***************************************************************************)
EXTENDS Integers

CONSTANTS
    Sessions,     \* the supplement sessions that may be created (bound)
    Requests,     \* the API requests that may run at the same time (bound)
    Prices,       \* the prices the slots have, in cents
    Base,         \* what the first payment collected, onlinePaidBaselineCents
    MaxCounted,   \* bound on the supplements counted in all
    MaxCredited,  \* bound on the store credit issued in all
    FirstSession, \* the session of the first payment
    NoSession     \* the null of stripeCheckoutSessionId and paymentLinkUrl

ASSUME SupplementAssumption ==
    /\ Prices \subseteq Nat
    /\ Base \in Prices
    /\ Base >= 50
    /\ MaxCounted \in Nat
    /\ MaxCredited \in Nat
    /\ FirstSession \notin Sessions
    /\ NoSession \notin Sessions

MinCharge == 50  \* the smallest amount Stripe takes, in cents

VARIABLES
    row,       \* the reservation's row
    price,     \* what computeReservationTotalDueCents returns for it now
    stripe,    \* Stripe's side of every supplement session
    credited,  \* the store credit issued for lower prices, in all
    counted,   \* every supplement that was ever added to the row, in all
    confirmed, \* the sessions among them
    req        \* the running requests

vars == <<row, price, stripe, credited, counted, confirmed, req>>

-----------------------------------------------------------------------------
Larger(a, b) == IF a <= b THEN b ELSE a

\* supplement is the supplementPaidCents of detailsJson, link names the session
\* that paymentLinkUrl leads to.
Row == [totalDue   : Nat,
        session    : Sessions \cup {FirstSession, NoSession},
        link       : Sessions \cup {NoSession},
        supplement : Nat]

StripeSession == [state : {"none", "created", "open", "paid"}, amount : Nat]

\* What a settlement asks for: to reopen the supplement, a link, a payment at
\* the agency, or the mail that asks the client.
Settlements == {"reopen", "link", "agency", "mail"}

Steps == {"idle", "move", "collect", "due", "credit", "collected", "reopen",
          "create", "store", "send", "agency", "adopt", "read", "count"}

\* A request: what it does, the price it works with and the price before a move,
\* the supplement in the detailsJson it has read, the total or the link it has
\* read, the amount it has computed and the session it works on.
Request == [pc        : Steps,
            task      : Settlements \cup {"other"},
            price     : Nat,
            before    : Nat,
            details   : Nat,
            remaining : Nat,
            amount    : Nat,
            session   : Sessions \cup {NoSession}]

Idle == [pc |-> "idle", task |-> "other", price |-> 0, before |-> 0, details |-> 0,
         remaining |-> 0, amount |-> 0, session |-> NoSession]

TypeOK ==
    /\ row \in Row
    /\ price \in Nat
    /\ stripe \in [Sessions -> StripeSession]
    /\ credited \in Nat
    /\ counted \in Nat
    /\ confirmed \subseteq Sessions
    /\ req \in [Requests -> Request]

-----------------------------------------------------------------------------
\* The row as confirmPaymentFromCheckoutSession leaves it.
PaidRow == [totalDue |-> Base, session |-> FirstSession, link |-> NoSession,
            supplement |-> 0]

Init ==
    /\ row = PaidRow
    /\ price = Base
    /\ stripe = [s \in Sessions |-> [state |-> "none", amount |-> 0]]
    /\ credited = 0
    /\ counted = 0
    /\ confirmed = {}
    /\ req = [r \in Requests |-> Idle]

At(r, pc) == req[r].pc = pc

Becomes(r, request) == req' = [req EXCEPT ![r] = request]

\* collectedAmountCents of a captured row that has its baseline.
Collected == Base + row.supplement

\* The row with its session and its link withdrawn.
Closed(old) == [old EXCEPT !.session = NoSession, !.link = NoSession]

-----------------------------------------------------------------------------
(* Moving the reservation: resolveAsMove and its reconciliation.           *)

StartMove(r, p) ==
    /\ At(r, "idle")
    /\ Becomes(r, [Idle EXCEPT !.pc = "move", !.price = p, !.before = price,
                               !.details = row.supplement])
    /\ UNCHANGED <<row, price, stripe, credited, counted, confirmed>>

\* The new slot, its price and detailsJson, the last as it was read.
WriteSlot(r) ==
    /\ At(r, "move")
    /\ price' = req[r].price
    /\ row' = [row EXCEPT !.supplement = req[r].details]
    /\ Becomes(r, [req[r] EXCEPT !.pc = "collect"])
    /\ UNCHANGED <<stripe, credited, counted, confirmed>>

ReadCollected(r) ==
    /\ At(r, "collect")
    /\ Becomes(r, [req[r] EXCEPT !.pc = "due", !.amount = Collected])
    /\ UNCHANGED <<row, price, stripe, credited, counted, confirmed>>

MUTANT_Difference(request) == request.price - Base

\* What the new price asks for after all that was collected.
Difference(request) == request.price - request.amount

MUTANT_RepricedRow(due) ==
    IF due < MinCharge THEN [row EXCEPT !.totalDue = due, !.session = NoSession]
    ELSE [row EXCEPT !.totalDue = due]

RepricedRow(due) ==
    IF due < MinCharge THEN Closed([row EXCEPT !.totalDue = due])
    ELSE [row EXCEPT !.totalDue = due]

\* The operator chooses whether a lower price gives a credit.
WriteDue(r) ==
    /\ At(r, "due")
    /\ row' = RepricedRow(Larger(0, Difference(req[r])))
    /\ \E creditLowerDifference \in BOOLEAN :
          Becomes(r, IF creditLowerDifference /\ Difference(req[r]) < -50
                     THEN [req[r] EXCEPT !.pc = "credit"] ELSE Idle)
    /\ UNCHANGED <<price, stripe, credited, counted, confirmed>>

CreditDifference(r) ==
    /\ At(r, "credit")
    /\ credited - Difference(req[r]) <= MaxCredited
    /\ credited' = credited - Difference(req[r])
    /\ Becomes(r, Idle)
    /\ UNCHANGED <<row, price, stripe, counted, confirmed>>

-----------------------------------------------------------------------------
(* Asking for the difference, or recording it: settleSupplement and        *)
(* sendSupplementPaymentEmail.                                             *)

StartSettlement(r, task) ==
    /\ At(r, "idle")
    /\ Becomes(r, [Idle EXCEPT !.pc = "collected", !.task = task, !.price = price,
                               !.details = row.supplement, !.remaining = row.totalDue,
                               !.session = row.link])
    /\ UNCHANGED <<row, price, stripe, credited, counted, confirmed>>

\* What is still due: the difference, or the stored total if it is too small.
Outstanding(request) ==
    LET due == Larger(0, request.price - Collected)
    IN  IF due >= MinCharge THEN due ELSE request.remaining

\* The request is refused.
FindNothingOutstanding(r) ==
    /\ At(r, "collected")
    /\ Outstanding(req[r]) < MinCharge
    /\ Becomes(r, Idle)
    /\ UNCHANGED <<row, price, stripe, credited, counted, confirmed>>

\* A mail takes the link there is, if there is one.
FindOutstanding(r) ==
    LET next == CASE req[r].task = "reopen" -> "reopen"
                  [] req[r].task = "agency" -> "agency"
                  [] req[r].task = "link" -> "create"
                  [] OTHER -> IF req[r].session = NoSession THEN "create" ELSE "send"
    IN  /\ At(r, "collected")
        /\ Outstanding(req[r]) >= MinCharge
        /\ Becomes(r, [req[r] EXCEPT !.pc = next, !.amount = Outstanding(req[r])])
        /\ UNCHANGED <<row, price, stripe, credited, counted, confirmed>>

Reopen(r) ==
    /\ At(r, "reopen")
    /\ row' = Closed([row EXCEPT !.totalDue = req[r].amount])
    /\ Becomes(r, Idle)
    /\ UNCHANGED <<price, stripe, credited, counted, confirmed>>

CreateSession(r) ==
    /\ At(r, "create")
    /\ \E s \in Sessions :
          /\ stripe[s].state = "none"
          /\ stripe' = [stripe EXCEPT ![s] = [state |-> "created", amount |-> req[r].amount]]
          /\ Becomes(r, [req[r] EXCEPT !.pc = "store", !.session = s])
    /\ UNCHANGED <<row, price, credited, counted, confirmed>>

\* From here on the client may be given the link.
StoreLink(r) ==
    LET s == req[r].session
    IN  /\ At(r, "store")
        /\ row' = [row EXCEPT !.session = s, !.link = s]
        /\ stripe' = [stripe EXCEPT ![s].state = "open"]
        /\ Becomes(r, IF req[r].task = "mail" THEN [req[r] EXCEPT !.pc = "send"] ELSE Idle)
        /\ UNCHANGED <<price, credited, counted, confirmed>>

\* The mail announces the amount and carries the link.
SendLink(r) ==
    /\ At(r, "send")
    /\ Becomes(r, Idle)
    /\ UNCHANGED <<row, price, stripe, credited, counted, confirmed>>

MUTANT_WithSupplement(details, amount) ==
    [row EXCEPT !.totalDue = 0, !.link = NoSession, !.supplement = amount]

\* The row once a supplement is added to the one that was read.
WithSupplement(details, amount) ==
    [row EXCEPT !.totalDue = 0, !.link = NoSession, !.supplement = details + amount]

\* Paid at the agency, in cash, by card or by transfer.
SettleAtAgency(r) ==
    /\ At(r, "agency")
    /\ counted + req[r].amount <= MaxCounted
    /\ counted' = counted + req[r].amount
    /\ row' = Closed(WithSupplement(req[r].details, req[r].amount))
    /\ Becomes(r, Idle)
    /\ UNCHANGED <<price, stripe, credited, confirmed>>

-----------------------------------------------------------------------------
(* Confirming a supplement session: the webhook, delivered once or more,   *)
(* the success page, opened once or more, or the operator.                 *)

\* validateSupplementCheckoutSession
Accepts(s) == stripe[s].state = "paid" /\ row.session \in {NoSession, s}

RefuseSession(r, s) ==
    /\ At(r, "idle")
    /\ stripe[s].state \in {"open", "paid"}
    /\ ~Accepts(s)
    /\ UNCHANGED vars

AcceptSession(r, s) ==
    /\ At(r, "idle")
    /\ Accepts(s)
    /\ Becomes(r, [Idle EXCEPT !.pc = "adopt", !.session = s, !.amount = stripe[s].amount])
    /\ UNCHANGED <<row, price, stripe, credited, counted, confirmed>>

AdoptSession(r) ==
    /\ At(r, "adopt")
    /\ row' = [row EXCEPT !.session = req[r].session]
    /\ Becomes(r, [req[r] EXCEPT !.pc = "read"])
    /\ UNCHANGED <<price, stripe, credited, counted, confirmed>>

ReadDetails(r) ==
    /\ At(r, "read")
    /\ Becomes(r, [req[r] EXCEPT !.pc = "count", !.details = row.supplement])
    /\ UNCHANGED <<row, price, stripe, credited, counted, confirmed>>

CountSupplement(r) ==
    /\ At(r, "count")
    /\ counted + req[r].amount <= MaxCounted
    /\ counted' = counted + req[r].amount
    /\ confirmed' = confirmed \cup {req[r].session}
    /\ row' = WithSupplement(req[r].details, req[r].amount)
    /\ Becomes(r, Idle)
    /\ UNCHANGED <<price, stripe, credited>>

-----------------------------------------------------------------------------
ClientPays(s) ==
    /\ stripe[s].state = "open"
    /\ stripe' = [stripe EXCEPT ![s].state = "paid"]
    /\ UNCHANGED <<row, price, credited, counted, confirmed, req>>

\* A request dies: an exception of the database or of Stripe, or a restart.
Abort(r) ==
    /\ ~At(r, "idle")
    /\ Becomes(r, Idle)
    /\ UNCHANGED <<row, price, stripe, credited, counted, confirmed>>

-----------------------------------------------------------------------------
Start(r) ==
    \/ \E p \in Prices : StartMove(r, p)
    \/ \E task \in Settlements : StartSettlement(r, task)
    \/ \E s \in Sessions : RefuseSession(r, s) \/ AcceptSession(r, s)

MoveStep(r) ==
    \/ WriteSlot(r)
    \/ ReadCollected(r)
    \/ WriteDue(r)
    \/ CreditDifference(r)

SettlementStep(r) ==
    \/ FindNothingOutstanding(r)
    \/ FindOutstanding(r)
    \/ Reopen(r)
    \/ CreateSession(r)
    \/ StoreLink(r)
    \/ SendLink(r)
    \/ SettleAtAgency(r)

ConfirmStep(r) ==
    \/ AdoptSession(r)
    \/ ReadDetails(r)
    \/ CountSupplement(r)

Next ==
    \/ \E r \in Requests :
          Start(r) \/ MoveStep(r) \/ SettlementStep(r) \/ ConfirmStep(r) \/ Abort(r)
    \/ \E s \in Sessions : ClientPays(s)

Spec == Init /\ [][Next]_vars

-----------------------------------------------------------------------------
(* A property that holds however the requests interleave and die.          *)

\* The recorded supplement is made of confirmations and settlements: stale
\* copies of detailsJson that are written back may lose some of them, but no
\* interleaving records money that was not counted.
NothingInvented == row.supplement <= counted

-----------------------------------------------------------------------------
(* Properties of requests that run one at a time, some of which die.       *)

\* Every supplement that was ever counted is still recorded, whatever moves
\* wrote detailsJson since.
NothingForgotten == row.supplement = counted

\* A link the client may be given leads to the session whose payment will be
\* accepted.
LinkIsAccepted == row.link # NoSession => row.session = row.link

\* What a move or a reopening stores as due is at most what the price asks for
\* after all that was collected, or what was stored as due already.
DueIsOwed ==
    [][ \A r \in Requests : WriteDue(r) \/ Reopen(r) =>
          \/ row'.totalDue <= Larger(0, price - Collected)
          \/ row'.totalDue = row.totalDue ]_vars

-----------------------------------------------------------------------------
(* What the code says of itself and does not do.                           *)

\* "Idempotent : confirme le paiement": a session is counted once.
SupplementCountedOnce ==
    [][ \A r \in Requests : CountSupplement(r) => req[r].session \notin confirmed ]_vars

\* "Difference suite a modification": the credit of a move is at most the fall
\* of the price it made.
CreditIsTheDifference ==
    [][ \A r \in Requests :
          CreditDifference(r) => credited' - credited <= req[r].before - req[r].price ]_vars
=============================================================================
