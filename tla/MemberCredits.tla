---------------------------- MODULE MemberCredits ----------------------------
(***************************************************************************)
(* The store credit of one client: the credits of his cancelled            *)
(* reservations, and the pricing of his next ones, which spends them       *)
(* oldest first before the confirmation mail asks for the rest.            *)
(*                                                                         *)
(* The pricing reads what the reservation has already been given, then     *)
(* what is available, then the list of credits, then takes from one credit *)
(* after the other, and writes the total last: each of these is an await   *)
(* and one action here.  The mail and the payment that follow are single   *)
(* steps, since module Checkout takes them apart.                          *)
(*                                                                         *)
(* Scope: the ONLINE reservations in a single payment of one client, whose *)
(* price does not change, credits without an expiry date (nothing in the   *)
(* code sets one) and cancellations for the default amount.                *)
(***************************************************************************)
EXTENDS Integers, Sequences, Functions

CONSTANTS
    Reservations,  \* the client's reservations
    Requests,      \* the API requests that may run at the same time (bound)
    Price,         \* what computeReservationTotalDueCents returns for each
    Granted,       \* the amounts of the credits the client starts with, oldest first
    MaxCredits,    \* bound on the credits that exist
    MaxSessions,   \* bound on the Checkout sessions that are created
    NoReservation  \* an idle request's reservation

ASSUME MemberCreditsAssumption ==
    /\ Price \in [Reservations -> Nat]
    /\ Granted \in Seq(Nat \ {0})
    /\ MaxCredits \in Nat
    /\ Len(Granted) <= MaxCredits
    /\ MaxSessions \in Nat
    /\ NoReservation \notin Reservations

MinCharge == 50  \* the smallest amount Stripe takes, in cents

\* Credits are numbered in the order of their createdAt.
Credits == 1..MaxCredits

VARIABLES
    row,      \* the rows of the reservations
    session,  \* the Checkout session each reservation names
    sessions, \* how many Checkout sessions have been created
    received, \* what Stripe has collected for each reservation in all
    credit,   \* the MemberCredit rows; those not issued yet are all zero
    issued,   \* how many of them exist
    spent,    \* the MemberCreditUsage rows, summed by credit
    applied,  \* the same rows, summed by reservation
    req       \* the running requests

vars == <<row, session, sessions, received, credit, issued, spent, applied, req>>

-----------------------------------------------------------------------------
Smaller(a, b) == IF a <= b THEN a ELSE b
Larger(a, b) == IF a <= b THEN b ELSE a

\* captured is paymentCapturedAt # null, baseline the onlinePaidBaselineCents
\* of detailsJson and fees the sum of stripeNetCents and stripeFeeCents (0 while
\* they are not known).
Row == [status   : {"PENDING_PAYMENT", "RESERVED_PAID", "CANCELLED"},
        captured : BOOLEAN,
        total    : Nat,
        baseline : Nat,
        fees     : Nat]

\* amount is 0 when the reservation names no session.
Session == [amount : Nat, paid : BOOLEAN]

Unpaid(amount) == [amount |-> amount, paid |-> FALSE]

Credit == [initial : Nat, remaining : Nat]

Steps == {"idle", "applied", "available", "list", "take", "write", "mail",
          "collect", "cancel", "issue"}

\* A request: the stored total it has read, the credit it found already given
\* to its reservation, the additional credit it has planned, what it still has
\* to take of it, the credits it has listed and not come to yet (their balance
\* as read), the baseline of the detailsJson it has read and will write back,
\* and the amount it gives back.
Request == [pc       : Steps,
            of       : Reservations \cup {NoReservation},
            stored   : Nat,
            already  : Nat,
            planned  : Nat,
            left     : Nat,
            listed   : [Credits -> Nat],
            details  : Nat,
            amount   : Nat]

Nothing == [c \in Credits |-> 0]

Idle == [pc |-> "idle", of |-> NoReservation, stored |-> 0, already |-> 0,
         planned |-> 0, left |-> 0, listed |-> Nothing,
         details |-> 0, amount |-> 0]

TypeOK ==
    /\ row \in [Reservations -> Row]
    /\ session \in [Reservations -> Session]
    /\ sessions \in 0..MaxSessions
    /\ received \in [Reservations -> Nat]
    /\ credit \in [Credits -> Credit]
    /\ issued \in 0..MaxCredits
    /\ spent \in [Credits -> Nat]
    /\ applied \in [Reservations -> Nat]
    /\ req \in [Requests -> Request]

-----------------------------------------------------------------------------
\* The rows are stored with the total of their form; nothing is priced yet.
Init ==
    /\ row = [x \in Reservations |->
                [status |-> "PENDING_PAYMENT", captured |-> FALSE,
                 total |-> Price[x], baseline |-> 0, fees |-> 0]]
    /\ session = [x \in Reservations |-> Unpaid(0)]
    /\ sessions = 0
    /\ received = [x \in Reservations |-> 0]
    /\ credit = [c \in Credits |->
                   IF c <= Len(Granted)
                   THEN [initial |-> Granted[c], remaining |-> Granted[c]]
                   ELSE [initial |-> 0, remaining |-> 0]]
    /\ issued = Len(Granted)
    /\ spent = Nothing
    /\ applied = [x \in Reservations |-> 0]
    /\ req = [r \in Requests |-> Idle]

At(r, pc) == req[r].pc = pc

Becomes(r, request) == req' = [req EXCEPT ![r] = request]

-----------------------------------------------------------------------------
(* Pricing: syncComputedTotalDueCents, run by create() and by              *)
(* sendConfirmationEmail, both of which send the mail afterwards.          *)

StartPricing(r, x) ==
    /\ At(r, "idle")
    /\ Becomes(r, [Idle EXCEPT
           !.pc = IF row[x].captured THEN "mail"
                  ELSE IF Price[x] = 0 THEN "write" ELSE "applied",
           !.of = x, !.stored = row[x].total])
    /\ UNCHANGED <<row, session, sessions, received, credit, issued, spent, applied>>

\* appliedCentsForReservation
ReadApplied(r) ==
    /\ At(r, "applied")
    /\ Becomes(r, [req[r] EXCEPT !.pc = "available", !.already = applied[req[r].of]])
    /\ UNCHANGED <<row, session, sessions, received, credit, issued, spent, applied>>

\* availableCreditsCents
Available == SumFunction([c \in Credits |-> credit[c].remaining])

\* What the price still asks for after the credit already given.
Missing(request) == Larger(0, Price[request.of] - request.already)

PlanCredit(r) ==
    /\ At(r, "available")
    /\ \E planned \in 0..Missing(req[r]) :
          /\ planned = Smaller(Available, Missing(req[r]))
          /\ Becomes(r, [req[r] EXCEPT !.pc = IF planned > 0 THEN "list" ELSE "write",
                                       !.planned = planned, !.left = planned])
    /\ UNCHANGED <<row, session, sessions, received, credit, issued, spent, applied>>

\* listAvailable
ListCredits(r) ==
    /\ At(r, "list")
    /\ Becomes(r, [req[r] EXCEPT !.pc = "take",
                       !.listed = [c \in Credits |-> credit[c].remaining]])
    /\ UNCHANGED <<row, session, sessions, received, credit, issued, spent, applied>>

MUTANT_IsNext(request, c) ==
    /\ request.listed[c] > 0
    /\ \A d \in Credits : request.listed[d] > 0 => d <= c

\* The oldest of the listed credits that the loop has not come to.
IsNext(request, c) ==
    /\ request.listed[c] > 0
    /\ \A d \in Credits : request.listed[d] > 0 => c <= d

MUTANT_KeptBalance(request, c, take) == request.listed[c]

\* The balance that is written comes from the one that was listed.
Balance(request, c, take) == request.listed[c] - take

\* One turn of the loop of applyCreditsToReservation: the balance and the usage
\* are written in one transaction.
TakeCredit(r) ==
    /\ At(r, "take")
    /\ req[r].left > 0
    /\ \E c \in Credits :
          LET take == Smaller(req[r].listed[c], req[r].left)
          IN  /\ IsNext(req[r], c)
              /\ credit' = [credit EXCEPT ![c].remaining = Balance(req[r], c, take)]
              /\ spent' = [spent EXCEPT ![c] = @ + take]
              /\ applied' = [applied EXCEPT ![req[r].of] = @ + take]
              /\ Becomes(r, [req[r] EXCEPT !.listed[c] = 0, !.left = @ - take])
    /\ UNCHANGED <<row, session, sessions, received, issued>>

StopTaking(r) ==
    /\ At(r, "take")
    /\ req[r].left = 0 \/ req[r].listed = Nothing
    /\ Becomes(r, [req[r] EXCEPT !.pc = "write", !.left = 0, !.listed = Nothing])
    /\ UNCHANGED <<row, session, sessions, received, credit, issued, spent, applied>>

MUTANT_RemainingTotal(request) ==
    Larger(0, Price[request.of] - request.already - 2 * request.planned)

RemainingTotal(request) ==
    Larger(0, Price[request.of] - request.already - request.planned)

\* The total is reduced by the credit that was planned, whatever was taken, and
\* the row is written without another look at it.
WriteTotal(r) ==
    LET x == req[r].of
        total == RemainingTotal(req[r])
        covered == total < MinCharge /\ req[r].already + req[r].planned > 0
    IN  /\ At(r, "write")
        /\ row' = IF req[r].planned = 0 /\ req[r].stored = total
                  THEN row
                  ELSE [row EXCEPT ![x].total = total,
                                   ![x].captured = @ \/ covered,
                                   ![x].status = IF covered THEN "RESERVED_PAID" ELSE @]
        /\ Becomes(r, [Idle EXCEPT !.pc = "mail", !.of = x])
        /\ UNCHANGED <<session, sessions, received, credit, issued, spent, applied>>

\* The notification service's sendConfirmationEmail, as if it ran alone: under
\* 50 cents the reservation is granted, otherwise a session is created for the
\* total.
SendMail(r) ==
    LET x == req[r].of
    IN  /\ At(r, "mail")
        /\ \/ /\ row[x].total < MinCharge
              /\ row[x].captured
              /\ UNCHANGED <<row, session, sessions>>
           \/ /\ row[x].total < MinCharge
              /\ ~row[x].captured
              /\ row' = [row EXCEPT ![x].captured = TRUE, ![x].status = "RESERVED_PAID"]
              /\ session' = [session EXCEPT ![x] = Unpaid(0)]
              /\ UNCHANGED sessions
           \/ /\ row[x].total >= MinCharge
              /\ sessions < MaxSessions
              /\ sessions' = sessions + 1
              /\ session' = [session EXCEPT ![x] = Unpaid(row[x].total)]
              /\ UNCHANGED row
        /\ Becomes(r, Idle)
        /\ UNCHANGED <<received, credit, issued, spent, applied>>

-----------------------------------------------------------------------------
(* Cancelling for a credit: resolveAsStoreCredit.                          *)

StartCredit(r, x) ==
    /\ At(r, "idle")
    /\ row[x].status # "CANCELLED"
    /\ row[x].captured
    /\ Becomes(r, [Idle EXCEPT !.pc = "collect", !.of = x, !.details = row[x].baseline])
    /\ UNCHANGED <<row, session, sessions, received, credit, issued, spent, applied>>

\* What was paid by card as far as the row knows.
Online(x) == Larger(row[x].fees, row[x].baseline)

\* What collectedCentsOnReservation returns for a captured reservation without
\* supplement: what is recorded, or under 50 cents a guess from total and price.
Recorded(x) ==
    LET records == applied[x] + Online(x)
        total == row[x].total
    IN  IF records >= MinCharge THEN records
        ELSE IF total >= MinCharge /\ total < Price[x]
             THEN Larger(records, Price[x] - total)
             ELSE IF records > 0 THEN records ELSE Price[x]

MUTANT_PaidBesides(x) == IF Recorded(x) < MinCharge THEN session[x].amount ELSE 0

\* A paid session that no confirmation has taken counts when little is recorded,
\* and becomes the baseline.
PaidBesides(x) ==
    IF Recorded(x) < MinCharge /\ session[x].paid THEN session[x].amount ELSE 0

\* collectedAmountCents
Collected(x) == Larger(Recorded(x), PaidBesides(x))

\* Nothing to give back: the request is refused.
CollectNothing(r) ==
    /\ At(r, "collect")
    /\ Collected(req[r].of) < 1
    /\ Becomes(r, Idle)
    /\ UNCHANGED <<row, session, sessions, received, credit, issued, spent, applied>>

Collect(r) ==
    LET x == req[r].of
    IN  /\ At(r, "collect")
        /\ Collected(x) >= 1
        /\ row' = IF PaidBesides(x) > 0 /\ row[x].baseline = 0
                  THEN [row EXCEPT ![x].baseline = PaidBesides(x)]
                  ELSE row
        /\ Becomes(r, [req[r] EXCEPT !.pc = "cancel", !.amount = Collected(x)])
        /\ UNCHANGED <<session, sessions, received, credit, issued, spent, applied>>

\* detailsJson is written back as it was read when the request started, which
\* drops a baseline that was stored since.
CancelForCredit(r) ==
    /\ At(r, "cancel")
    /\ row' = [row EXCEPT ![req[r].of].status = "CANCELLED",
                          ![req[r].of].baseline = req[r].details]
    /\ Becomes(r, [req[r] EXCEPT !.pc = "issue"])
    /\ UNCHANGED <<session, sessions, received, credit, issued, spent, applied>>

IssueCredit(r) ==
    /\ At(r, "issue")
    /\ issued < MaxCredits
    /\ issued' = issued + 1
    /\ credit' = [credit EXCEPT ![issued + 1] =
                    [initial |-> req[r].amount, remaining |-> req[r].amount]]
    /\ Becomes(r, Idle)
    /\ UNCHANGED <<row, session, sessions, received, spent, applied>>

-----------------------------------------------------------------------------
(* The outside.                                                            *)

\* The client pays the session the link leads to, and its confirmation takes it
\* if its amount is still the stored total; Stripe may not know its fees yet.
ClientPays(x) ==
    /\ session[x].amount > 0
    /\ ~session[x].paid
    /\ session' = [session EXCEPT ![x].paid = TRUE]
    /\ received' = [received EXCEPT ![x] = @ + session[x].amount]
    /\ \/ /\ \/ session[x].amount # row[x].total
             \/ row[x].status = "RESERVED_PAID" /\ row[x].captured
          /\ UNCHANGED row
       \/ /\ session[x].amount = row[x].total
          /\ row[x].status # "RESERVED_PAID" \/ ~row[x].captured
          /\ \E fees \in {row[x].fees, session[x].amount} :
                row' = [row EXCEPT ![x].captured = TRUE, ![x].status = "RESERVED_PAID",
                                   ![x].baseline = session[x].amount, ![x].fees = fees]
    /\ UNCHANGED <<sessions, credit, issued, spent, applied, req>>

\* A request dies: an exception of the database, of Stripe or of the mail
\* service, or a restart of the server.
Abort(r) ==
    /\ ~At(r, "idle")
    /\ Becomes(r, Idle)
    /\ UNCHANGED <<row, session, sessions, received, credit, issued, spent, applied>>

-----------------------------------------------------------------------------
PricingStep(r) ==
    \/ ReadApplied(r)
    \/ PlanCredit(r)
    \/ ListCredits(r)
    \/ TakeCredit(r)
    \/ StopTaking(r)
    \/ WriteTotal(r)
    \/ SendMail(r)

CreditStep(r) ==
    \/ CollectNothing(r)
    \/ Collect(r)
    \/ CancelForCredit(r)
    \/ IssueCredit(r)

Next ==
    \/ \E r \in Requests :
          \/ PricingStep(r)
          \/ CreditStep(r)
          \/ Abort(r)
          \/ \E x \in Reservations : StartPricing(r, x) \/ StartCredit(r, x)
    \/ \E x \in Reservations : ClientPays(x)

Spec == Init /\ [][Next]_vars

-----------------------------------------------------------------------------
(* Properties that hold however the requests interleave and die.           *)

\* The client's credit is never lost: what is missing from a credit's balance
\* is recorded as used by some reservation, although balances are written from
\* a value read earlier and lose updates.
CreditNeverLost == \A c \in Credits : credit[c].remaining + spent[c] >= credit[c].initial

-----------------------------------------------------------------------------
(* Properties of requests that run one at a time, some of which die.       *)

\* The journal agrees with the balances: every cent of a credit is either left
\* or used once.
LedgerBalanced == \A c \in Credits : credit[c].remaining + spent[c] = credit[c].initial

\* A credit is touched only when the older ones are used up.
OldestFirst ==
    \A c, d \in Credits : c < d /\ spent[d] > 0 => credit[c].remaining = 0

\* A reservation never swallows more credit than its price.
CreditWithinPrice == \A x \in Reservations : applied[x] <= Price[x]

\* A captured reservation has been given its price in credit and card payment,
\* but for the cents too few for Stripe to take.
PaidInFull ==
    \A x \in Reservations :
        row[x].captured => applied[x] + Online(x) + MinCharge > Price[x]

\* The credit issued for a reservation that had to be paid is no more than what
\* the client has given for it in credit and in money.
IssuedCreditIsBacked ==
    [][ \A r \in Requests :
          LET x == req[r].of
          IN  IssueCredit(r) /\ Price[x] >= MinCharge =>
                  req[r].amount <= applied[x] + received[x] ]_vars

-----------------------------------------------------------------------------
(* What the code says of itself and two requests at a time refute.         *)

\* "Consomme les avoirs disponibles": what is taken from a credit is available
\* in it when it is taken.
ConsumesAvailableCredit ==
    [][ \A c \in Credits : spent'[c] - spent[c] <= credit[c].remaining ]_vars
=============================================================================
