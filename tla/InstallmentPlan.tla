--------------------------- MODULE InstallmentPlan ---------------------------
(***************************************************************************)
(* A reservation paid in two instalments, a deposit and a balance: the     *)
(* plan that create and update write, the Checkout session of the          *)
(* instalment that is due now, its confirmation by Stripe, its settlement  *)
(* at the agency, and the link for the balance mailed after the deposit.   *)
(* The operator may turn the plan into a single payment and back, so that  *)
(* a session for the whole price can meet a plan.                          *)
(*                                                                         *)
(* An operator edits a form opened earlier, whatever has happened since:   *)
(* saving it writes the status, paymentCapturedAt and total the form was   *)
(* opened with, and so may take a capture back or write one back.          *)
(*                                                                         *)
(* Scope: an ONLINE reservation of a client with a mail address and        *)
(* without store credit, before the rental ends, not cancelled; edits that *)
(* change nothing that is priced.  The deposit hold and the signing mail,  *)
(* which end a confirmation, are in module Checkout.                       *)
(***************************************************************************)
EXTENDS Integers, FiniteSets

CONSTANTS
    Sessions,    \* the Checkout sessions that may be created (bound)
    Requests,    \* the API requests that may run at the same time (bound)
    Prices,      \* the totals the catalogue may give, in cents
    Percent,     \* the deposit's share of the total, clamped to 1..99
    MaxRows,     \* bound on the instalment rows that are there or remembered
    MaxForms,    \* bound on the forms open at the same time
    MaxAborts,   \* bound on the requests that die half-way
    NoSession    \* the null of stripeCheckoutSessionId

ASSUME InstallmentAssumption ==
    /\ Requests # {}
    /\ Prices \subseteq Nat
    /\ Prices # {}
    /\ Percent \in 1..99
    /\ MaxRows \in Nat
    /\ MaxForms \in Nat
    /\ MaxAborts \in Nat
    /\ NoSession \notin Sessions

MinCharge == 50  \* the smallest amount Stripe takes, in cents
NoTotal == -1    \* the null of totalDueCents

VARIABLES
    row,      \* the reservation's row
    plan,     \* its instalments, 1 the deposit and 2 the balance
    price,    \* what computeReservationTotalDueCents returns for it now
    stripe,   \* Stripe's side of every Checkout session
    event,    \* the checkout.session.completed event of every session
    forms,    \* what the open forms were opened with
    req,      \* the running requests
    aborts,   \* how many requests have died
    declared, \* history: the instalments an operator has declared paid or unpaid
    granted,  \* history: it was captured once for a total that needs no payment
    undone    \* history: a form has taken a capture back

vars == <<row, plan, price, stripe, event, forms, req, aborts, declared, granted, undone>>

history == <<declared, granted, undone>>

outside == <<price, stripe, event, forms, history>>

-----------------------------------------------------------------------------
Both == {1, 2}

Amounts == UNION {{p, (p * Percent + 50) \div 100, p - (p * Percent + 50) \div 100} :
                    p \in Prices} \cup {0}

Row == [status   : {"PENDING_PAYMENT", "RESERVED_PAID"},
        captured : BOOLEAN,
        total    : Prices \cup {0, NoTotal},
        session  : Sessions \cup {NoSession}]

\* What a form sends of the row: its total is not in it if it is captured.
FormOf(seen) == [seen EXCEPT !.total = IF seen.captured THEN NoTotal ELSE @,
                             !.session = NoSession]

Methods == {"ONLINE", "CASH"}

\* id is the primary key of the row of an instalment, 0 if there is none.  The
\* key of a row that is gone is given again only when no request remembers it.
Instalment == [id     : 0..MaxRows,
               amount : Nat,
               method : Methods,
               status : {"PENDING", "PAID"}]

Absent == [id |-> 0, amount |-> 0, method |-> "ONLINE", status |-> "PENDING"]

NoPlan == [k \in Both |-> Absent]

\* A session carries the number of the instalment it is for in its metadata, or
\* none: 0 is a session for the whole price.
StripeSession == [state : {"unused", "created", "open", "paid"}, amount : Nat, for : 0..2]

Event == {"none", "queued", "acknowledged"}

\* What an operator asks the plan to be: one payment, or two with their methods.
Single == [k \in {} |-> "ONLINE"]

Choice == [Both -> Methods] \cup {Single}

Steps == {"idle", "save", "total", "reprice", "plan", "clear", "upsert", \* writing the plan
          "mail", "grant", "store",                            \* the confirmation mail
          "check", "mark", "read", "capture",                  \* paying an instalment
          "whole", "apply"}                                    \* a session for the whole price

Tasks == {"create", "update", "send", "confirm", "declare", "none"}

\* A request: where it stands and for which task, the session it confirms and
\* whether Stripe's webhook waits for its answer, the session it has created,
\* what it has read of the row and of the plan and will use, the plan it is
\* asked for, the amount and the instalment it works with, and whether what it
\* works with is paid.
Request == [pc      : Steps,
            task    : Tasks,
            session : Sessions \cup {NoSession},
            webhook : BOOLEAN,
            link    : Sessions \cup {NoSession},
            seen    : Row,
            plan    : [Both -> Instalment],
            choice  : Choice,
            amount  : Prices \cup {0, NoTotal},
            k       : 0..2,
            paid    : BOOLEAN]

Unread == [status |-> "PENDING_PAYMENT", captured |-> FALSE, total |-> NoTotal,
           session |-> NoSession]

Idle == [pc |-> "idle", task |-> "none", session |-> NoSession, webhook |-> FALSE,
         link |-> NoSession, seen |-> Unread, plan |-> NoPlan, choice |-> Single,
         amount |-> 0, k |-> 0, paid |-> FALSE]

TypeOK ==
    /\ row \in Row
    /\ plan \in [Both -> Instalment]
    /\ price \in Prices
    /\ stripe \in [Sessions -> StripeSession]
    /\ event \in [Sessions -> Event]
    /\ forms \subseteq Row
    /\ req \in [Requests -> Request]
    /\ aborts \in 0..MaxAborts
    /\ declared \subseteq Both
    /\ granted \in BOOLEAN
    /\ undone \in BOOLEAN

-----------------------------------------------------------------------------
(* create() has stored the row and priced it, and is about to write the    *)
(* plan it was asked for.                                                  *)

Init ==
    /\ price \in Prices
    /\ row = [Unread EXCEPT !.total = price]
    /\ plan = NoPlan
    /\ stripe = [s \in Sessions |-> [state |-> "unused", amount |-> 0, for |-> 0]]
    /\ event = [s \in Sessions |-> "none"]
    /\ forms = {}
    /\ \E creator \in Requests, choice \in Choice :
          req = [r \in Requests |->
                    IF r = creator
                    THEN [Idle EXCEPT !.pc = "plan", !.task = "create", !.choice = choice]
                    ELSE Idle]
    /\ aborts = 0
    /\ declared = {}
    /\ granted = FALSE
    /\ undone = FALSE

At(r, pc) == req[r].pc = pc

Becomes(r, request) == req' = [req EXCEPT ![r] = request]

Begins(r, request) == At(r, "idle") /\ Becomes(r, request)

\* The request answers; Stripe takes its 200 for an acknowledgement.
Answer(r) ==
    /\ Becomes(r, Idle)
    /\ event' = IF req[r].webhook
                THEN [event EXCEPT ![req[r].session] = "acknowledged"]
                ELSE event

-----------------------------------------------------------------------------
(* Writing the plan: update, syncComputedTotalDueCents, syncInstallmentPlan. *)

\* A page shows the reservation in a form, which stays open while requests run.
OpenForm ==
    /\ forms' = forms \cup {FormOf(row)}
    /\ Cardinality(forms') <= MaxForms
    /\ UNCHANGED <<row, plan, price, stripe, event, req, aborts, history>>

\* A form is sent, however old it is; update reads the row.
SubmitForm(r, form) ==
    /\ form \in forms
    /\ forms' = forms \ {form}
    /\ \E choice \in Choice :
          Begins(r, [Idle EXCEPT !.pc = "save", !.task = "update", !.choice = choice,
                                 !.seen = form,
                                 !.paid = row.captured])
    /\ UNCHANGED <<row, plan, price, stripe, event, aborts, history>>

\* The total of a row that was captured when it was read is left as it is.
SaveForm(r) ==
    LET form == req[r].seen
    IN  /\ At(r, "save")
        /\ row' = [row EXCEPT !.status = form.status, !.captured = form.captured,
                              !.total = IF req[r].paid THEN @ ELSE form.total]
        /\ undone' = (undone \/ (row.captured /\ ~form.captured))
        /\ Becomes(r, [req[r] EXCEPT !.pc = "total", !.seen = Unread, !.paid = FALSE])
        /\ UNCHANGED <<plan, price, stripe, event, forms, aborts, declared, granted>>

\* The total of a row that is not captured is computed again.
ReadTotal(r) ==
    /\ At(r, "total")
    /\ Becomes(r, IF row.captured
                  THEN [req[r] EXCEPT !.pc = "plan"]
                  ELSE [req[r] EXCEPT !.pc = "reprice", !.amount = price,
                                      !.seen = [Unread EXCEPT !.total = row.total]])
    /\ UNCHANGED <<row, plan, outside, aborts>>

Reprice(r) ==
    /\ At(r, "reprice")
    /\ row' = IF req[r].amount > 0 /\ req[r].seen.total = req[r].amount
              THEN row
              ELSE [row EXCEPT !.total = req[r].amount]
    /\ Becomes(r, IF req[r].task = "send"
                  THEN [Idle EXCEPT !.pc = "mail"]
                  ELSE [Idle EXCEPT !.pc = "plan", !.task = req[r].task,
                                    !.choice = req[r].choice])
    /\ UNCHANGED <<plan, outside, aborts>>

\* create() goes on with its mail.
EndPlan(r) ==
    Becomes(r, IF req[r].task = "create" THEN [Idle EXCEPT !.pc = "mail"] ELSE Idle)

Exists(instalment) == instalment.id # 0

\* The row's total and the plan are read once.
ReadPlan(r) ==
    /\ At(r, "plan")
    /\ IF req[r].choice # Single
       THEN Becomes(r, [req[r] EXCEPT !.pc = "upsert", !.k = 1, !.plan = plan,
                            !.amount = IF row.total = NoTotal THEN 0 ELSE row.total])
       ELSE IF \E k \in Both : Exists(plan[k])
            THEN Becomes(r, [req[r] EXCEPT !.pc = "clear"])
            ELSE EndPlan(r)
    /\ UNCHANGED <<row, plan, outside, aborts>>

\* A single payment deletes every instalment.
ClearPlan(r) ==
    /\ At(r, "clear")
    /\ plan' = NoPlan
    /\ EndPlan(r)
    /\ UNCHANGED <<row, outside, aborts>>

MUTANT_Parts(total) ==
    LET deposit == (total * Percent + 50) \div 100
    IN  <<deposit, total - deposit + 1>>

\* computeInstallmentAmounts: the deposit is rounded, the balance is the rest.
Parts(total) ==
    LET deposit == (total * Percent + 50) \div 100
    IN  <<deposit, total - deposit>>

MUTANT_Rewritable(instalment) == TRUE

\* A paid instalment is left as it is.
Rewritable(instalment) == instalment.status # "PAID"

\* The row read is updated by its id, the missing one created with its sequence
\* number: the database refuses when the one is gone, or the other is there.
Refused(r) ==
    LET old == req[r].plan[req[r].k]
        now == plan[req[r].k]
    IN  IF Exists(old) THEN Rewritable(old) /\ now.id # old.id ELSE Exists(now)

Remembered ==
    {plan[k].id : k \in Both} \cup {req[r].plan[k].id : r \in Requests, k \in Both}

NewIds == 1..MaxRows \ Remembered

\* The row is created with the first key nobody remembers.
Created(k, amount, method) ==
    \E id \in NewIds :
        /\ \A other \in NewIds : id <= other
        /\ plan' = [plan EXCEPT ![k] = [id |-> id, amount |-> amount, method |-> method,
                                       status |-> "PENDING"]]

Upserted(r) ==
    LET k == req[r].k
        old == req[r].plan[k]
        amount == Parts(req[r].amount)[k]
        method == req[r].choice[k]
    IN  IF Exists(old)
        THEN plan' = IF Rewritable(old)
                     THEN [plan EXCEPT ![k].amount = amount, ![k].method = method]
                     ELSE plan
        ELSE Created(k, amount, method)

\* A refusal ends the request.
UpsertInstalment(r) ==
    /\ At(r, "upsert")
    /\ IF Refused(r)
       THEN Becomes(r, Idle) /\ UNCHANGED plan
       ELSE /\ Upserted(r)
            /\ IF req[r].k = 1 THEN Becomes(r, [req[r] EXCEPT !.k = 2]) ELSE EndPlan(r)
    /\ UNCHANGED <<row, outside, aborts>>

-----------------------------------------------------------------------------
(* The confirmation mail.                                                  *)

StartSend(r) ==
    /\ Begins(r, IF row.captured
                 THEN [Idle EXCEPT !.pc = "mail"]
                 ELSE [Idle EXCEPT !.pc = "reprice", !.task = "send", !.amount = price,
                                   !.seen = [Unread EXCEPT !.total = row.total]])
    /\ UNCHANGED <<row, plan, outside, aborts>>

DueTotal == IF row.total = NoTotal THEN price ELSE row.total

Awaited(instalment) ==
    Exists(instalment) /\ instalment.method = "ONLINE" /\ instalment.status # "PAID"

\* resolveOnlineChargeNow: what is to be paid online now.
OnlineCharge(instalments, total) ==
    IF \E k \in Both : ~Exists(instalments[k])
    THEN [amount |-> total, for |-> 0]
    ELSE IF Awaited(instalments[1])
         THEN [amount |-> instalments[1].amount, for |-> 1]
         ELSE IF instalments[1].status = "PAID" /\ Awaited(instalments[2])
              THEN [amount |-> instalments[2].amount, for |-> 2]
              ELSE [amount |-> 0, for |-> 0]

FindNothingDue(r) ==
    /\ At(r, "mail")
    /\ DueTotal < MinCharge
    /\ Becomes(r, [req[r] EXCEPT !.pc = "grant", !.amount = DueTotal,
                                 !.paid = row.captured])
    /\ UNCHANGED <<row, plan, outside, aborts>>

GrantFree(r) ==
    /\ At(r, "grant")
    /\ row' = IF req[r].paid THEN row
              ELSE [status |-> "RESERVED_PAID", captured |-> TRUE, total |-> req[r].amount,
                    session |-> NoSession]
    /\ granted' = (granted \/ (~req[r].paid /\ req[r].amount < MinCharge))
    /\ Answer(r)
    /\ UNCHANGED <<plan, price, stripe, forms, aborts, declared, undone>>

\* Nothing to pay online: the mail has no link.
FindNothingOnline(r) ==
    /\ At(r, "mail")
    /\ DueTotal >= MinCharge
    /\ OnlineCharge(plan, DueTotal).amount < MinCharge
    /\ Becomes(r, [req[r] EXCEPT !.pc = "store", !.amount = DueTotal])
    /\ UNCHANGED <<row, plan, outside, aborts>>

StoreNoLink(r) ==
    /\ At(r, "store")
    /\ req[r].link = NoSession
    /\ row' = [row EXCEPT !.total = req[r].amount]
    /\ Answer(r)
    /\ UNCHANGED <<plan, price, stripe, forms, aborts, history>>

CreateSession(r) ==
    LET charge == OnlineCharge(plan, DueTotal)
    IN  /\ At(r, "mail")
        /\ DueTotal >= MinCharge
        /\ charge.amount >= MinCharge
        /\ \E s \in Sessions :
              /\ stripe[s].state = "unused"
              /\ stripe' = [stripe EXCEPT ![s] = [state |-> "created", amount |-> charge.amount,
                                                  for |-> charge.for]]
              /\ Becomes(r, [req[r] EXCEPT !.pc = "store", !.amount = DueTotal, !.link = s])
        /\ UNCHANGED <<row, plan, price, event, forms, aborts, history>>

StoreLink(r) ==
    /\ At(r, "store")
    /\ req[r].link # NoSession
    /\ row' = [row EXCEPT !.total = req[r].amount, !.session = req[r].link]
    /\ stripe' = [stripe EXCEPT ![req[r].link].state = "open"]
    /\ Answer(r)
    /\ UNCHANGED <<plan, price, forms, aborts, history>>

\* The mail fails: create and a confirmation log it and go on to their end.
SkipMail(r) ==
    /\ At(r, "mail")
    /\ Answer(r)
    /\ UNCHANGED <<row, plan, price, stripe, forms, aborts, history>>

-----------------------------------------------------------------------------
(* Confirming the session of an instalment, and declaring one paid.        *)

\* Stripe delivers the event, possibly to several requests at a time.
ReceiveWebhook(r, s) ==
    /\ event[s] = "queued"
    /\ Begins(r, [Idle EXCEPT !.pc = "check", !.session = s, !.webhook = TRUE])
    /\ UNCHANGED <<row, plan, outside, aborts>>

\* The success page or the operator's synchronisation.
OpenSuccessPage(r, s) ==
    /\ stripe[s].state \in {"open", "paid"}
    /\ Begins(r, [Idle EXCEPT !.pc = "check", !.session = s])
    /\ UNCHANGED <<row, plan, outside, aborts>>

\* The synchronisation looks at pending reservations only: it confirms a
\* deposit whose webhook is late, never a balance.
Poll(r) ==
    /\ row.status = "PENDING_PAYMENT"
    /\ row.session # NoSession
    /\ Begins(r, [Idle EXCEPT !.pc = "check", !.session = row.session])
    /\ UNCHANGED <<row, plan, outside, aborts>>

Paid(s) == s \in Sessions /\ stripe[s].state = "paid"

MUTANT_PaysUnpaid(s, k) == Exists(plan[k]) /\ plan[k].amount = stripe[s].amount

\* The session is paid and its amount is that of the instalment it is for.
Pays(s, k) ==
    /\ Paid(s)
    /\ Exists(plan[k])
    /\ plan[k].amount = stripe[s].amount

\* An instalment that is paid already is confirmed with nothing more to do.
CheckInstalment(r) ==
    LET s == req[r].session
        k == stripe[s].for
    IN  /\ At(r, "check")
        /\ k # 0
        /\ IF Pays(s, k) /\ plan[k].status # "PAID"
           THEN /\ Becomes(r, [req[r] EXCEPT !.pc = "mark", !.task = "confirm", !.plan = plan,
                                             !.k = k, !.paid = TRUE])
                /\ UNCHANGED event
           ELSE Answer(r)
        /\ UNCHANGED <<row, plan, price, stripe, forms, aborts, history>>

\* setInstallmentPaid does not look at the instalment's state.
StartDeclare(r, k, paid) ==
    /\ Exists(plan[k])
    /\ Begins(r, [Idle EXCEPT !.pc = "mark", !.task = "declare", !.plan = plan, !.k = k,
                              !.paid = paid])
    /\ UNCHANGED <<row, plan, outside, aborts>>

\* The row read is written by its id; if it is gone the request fails, and a
\* webhook gets no 200.  A deposit that is paid goes on to the reservation.
MarkInstalment(r) ==
    LET k == req[r].k
    IN  /\ At(r, "mark")
        /\ IF plan[k].id # req[r].plan[k].id
           THEN Becomes(r, Idle) /\ UNCHANGED <<plan, declared, event>>
           ELSE /\ plan' = [plan EXCEPT ![k].status = IF req[r].paid THEN "PAID" ELSE "PENDING"]
                /\ declared' = IF req[r].task = "declare" THEN declared \cup {k} ELSE declared
                /\ IF req[r].paid /\ k = 1
                   THEN /\ Becomes(r, [req[r] EXCEPT !.pc = "read", !.plan = NoPlan])
                        /\ UNCHANGED event
                   ELSE Answer(r)
        /\ UNCHANGED <<row, price, stripe, forms, aborts, granted, undone>>

ReadDeposit(r) ==
    /\ At(r, "read")
    /\ Becomes(r, [req[r] EXCEPT !.pc = "capture", !.plan = plan,
                       !.seen = [row EXCEPT !.total = NoTotal, !.session = NoSession]])
    /\ UNCHANGED <<row, plan, outside, aborts>>

IsCaptured(seen) == seen.status = "RESERVED_PAID" /\ seen.captured

MUTANT_ConfirmedRow(seen) == row

\* Confirming the reservation the deposit of which is paid.
ConfirmedRow(seen) ==
    IF IsCaptured(seen) THEN row
    ELSE [row EXCEPT !.status = "RESERVED_PAID", !.captured = TRUE]

\* The balance to pay online is asked for at once.
CaptureDeposit(r) ==
    /\ At(r, "capture")
    /\ row' = ConfirmedRow(req[r].seen)
    /\ IF Awaited(req[r].plan[2])
       THEN /\ Becomes(r, [Idle EXCEPT !.pc = "mail", !.session = req[r].session,
                                       !.webhook = req[r].webhook])
            /\ UNCHANGED event
       ELSE Answer(r)
    /\ UNCHANGED <<plan, price, stripe, forms, aborts, history>>

-----------------------------------------------------------------------------
(* Confirming a session for the whole price, as in module Checkout.        *)

AcceptsWhole(s) ==
    /\ Paid(s)
    /\ row.session \in {NoSession, s}
    /\ DueTotal >= MinCharge
    /\ stripe[s].amount = DueTotal

CheckWhole(r) ==
    LET s == req[r].session
    IN  /\ At(r, "check")
        /\ stripe[s].for = 0
        /\ IF AcceptsWhole(s)
           THEN /\ Becomes(r, [req[r] EXCEPT !.pc = "whole", !.amount = DueTotal])
                /\ UNCHANGED event
           ELSE Answer(r)
        /\ UNCHANGED <<row, plan, price, stripe, forms, aborts, history>>

ReadWhole(r) ==
    /\ At(r, "whole")
    /\ Becomes(r, [req[r] EXCEPT !.pc = "apply", !.seen = [row EXCEPT !.session = NoSession]])
    /\ UNCHANGED <<row, plan, outside, aborts>>

ApplyWhole(r) ==
    /\ At(r, "apply")
    /\ row' = IF IsCaptured(req[r].seen)
              THEN IF req[r].seen.total = req[r].amount THEN row
                   ELSE [row EXCEPT !.total = req[r].amount]
              ELSE [status |-> "RESERVED_PAID", captured |-> TRUE, total |-> req[r].amount,
                    session |-> req[r].session]
    /\ Answer(r)
    /\ UNCHANGED <<plan, price, stripe, forms, aborts, history>>

-----------------------------------------------------------------------------
(* The outside: the client, the catalogue, failures.                       *)

ClientPays(s) ==
    /\ stripe[s].state = "open"
    /\ stripe' = [stripe EXCEPT ![s].state = "paid"]
    /\ event' = [event EXCEPT ![s] = "queued"]
    /\ UNCHANGED <<row, plan, price, forms, req, aborts, history>>

ChangePrice ==
    /\ \E p \in Prices \ {price} : price' = p
    /\ UNCHANGED <<row, plan, stripe, event, forms, req, aborts, history>>

\* A request dies: an exception, or a restart of the server.
Abort(r) ==
    /\ ~At(r, "idle")
    /\ aborts < MaxAborts
    /\ aborts' = aborts + 1
    /\ Becomes(r, Idle)
    /\ UNCHANGED <<row, plan, outside>>

-----------------------------------------------------------------------------
PlanStep(r) ==
    \/ SaveForm(r)
    \/ ReadTotal(r)
    \/ Reprice(r)
    \/ ReadPlan(r)
    \/ ClearPlan(r)
    \/ UpsertInstalment(r)

MailStep(r) ==
    \/ FindNothingDue(r)
    \/ GrantFree(r)
    \/ FindNothingOnline(r)
    \/ StoreNoLink(r)
    \/ CreateSession(r)
    \/ StoreLink(r)
    \/ SkipMail(r)

ConfirmStep(r) ==
    \/ CheckInstalment(r)
    \/ MarkInstalment(r)
    \/ ReadDeposit(r)
    \/ CaptureDeposit(r)
    \/ CheckWhole(r)
    \/ ReadWhole(r)
    \/ ApplyWhole(r)

\* What a running request does next.
Continue(r) == PlanStep(r) \/ MailStep(r) \/ ConfirmStep(r)

Start(r) ==
    \/ \E form \in forms : SubmitForm(r, form)
    \/ StartSend(r)
    \/ Poll(r)
    \/ \E s \in Sessions : ReceiveWebhook(r, s) \/ OpenSuccessPage(r, s)
    \/ \E k \in Both, paid \in BOOLEAN : StartDeclare(r, k, paid)

Next ==
    \/ \E r \in Requests : Start(r) \/ Continue(r) \/ Abort(r)
    \/ \E s \in Sessions : ClientPays(s)
    \/ OpenForm
    \/ ChangePrice

Spec == Init /\ [][Next]_vars

\* A request that runs goes on.
FairSpec == Spec /\ \A r \in Requests : WF_vars(Continue(r))

-----------------------------------------------------------------------------
(* A property of requests that overlap and die anywhere.                   *)

\* A reservation with a plan is confirmed only for a reason: a client has paid
\* a session of it, an operator has settled an instalment, or it was once
\* granted for a total that needs no payment; also when a form opened earlier
\* writes back a capture that another form has taken back meanwhile, though
\* the reason may then be one of the total it had before.
CaptureHasReason ==
    row.captured => (\E s \in Sessions : Paid(s)) \/ declared # {} \/ granted

-----------------------------------------------------------------------------
(* Properties of requests that run one at a time.                          *)

\* An instalment marked paid was settled by an operator, or a session paid
\* for it collected exactly its amount: the plan was not rewritten under it.
PaidIsCollected ==
    \A k \in Both :
        plan[k].status = "PAID" =>
            \/ k \in declared
            \/ \E s \in Sessions : Paid(s) /\ stripe[s].for = k /\ stripe[s].amount = plan[k].amount

\* Two instalments that are both due, and that no operator has ever settled
\* by hand, are the two parts of one total, though it may have changed since.
PartsOfOneTotal ==
    aborts = 0 /\ declared = {}
          /\ (\A k \in Both : Exists(plan[k]) /\ plan[k].status = "PENDING")
          /\ (\A r \in Requests : ~At(r, "upsert"))
        => \E p \in Prices \cup {0} : plan[1].amount + plan[2].amount = p

\* A deposit that is paid has confirmed its reservation, or its request is at
\* it, unless a request has died or a form opened before has taken the capture
\* back.
PaidDepositCaptures ==
    aborts = 0 /\ ~undone /\ plan[1].status = "PAID" =>
        row.captured \/ \E r \in Requests : At(r, "read") \/ At(r, "capture")

-----------------------------------------------------------------------------
(* What the code's comments say and the code does not do.                  *)

\* "Les echeances deja payees (PAID) ne sont jamais modifiees": writing the
\* plan leaves a paid instalment as it is.
PaidIsNeverChanged ==
    [][ \A r \in Requests, k \in Both :
          PlanStep(r) /\ plan[k].status = "PAID" => plan'[k] = plan[k] ]_vars

\* "Acompte regle -> reservation confirmee": a deposit that is paid confirms
\* its reservation in the end, also if the first confirmation died half-way.
PaidDepositConfirms == plan[1].status = "PAID" ~> row.captured \/ plan[1].status # "PAID"
=============================================================================
