# Verification of the bleu-calanque back office

The repository is the back office of a boat-rental company: a NestJS API over
PostgreSQL (`apps/api`), a React administration (`apps/admin`), shared pure code
(`packages/shared`) and the Prisma schema (`packages/db`). It has no tests. What
can go wrong in it is mostly in the API services: they read rows, await Stripe, the
mail service or another query, and write the rows later, without a lock or a
version, while Stripe's webhooks, the success page, the polling of an open
administration page and the operators do the same to the same rows. The screens
add their own copies of the rows, which they send back whole. These modules model
those services and those copies.

## 1. Inventory

### Parts, their state and their operations

| Part (code) | State it keeps | Operations | Module |
|---|---|---|---|
| Online payment of a reservation (`notifications/reservation-notifications.service.ts`, `stripe-checkout-validation.ts`, `stripe-payments.service.ts`) | `Reservation` row: `status`, `paymentCapturedAt`, `cancelledAt`, `totalDueCents`, `stripeCheckoutSessionId`, `paymentLinkUrl`, `stripeDepositPaymentIntentId`, `detailsJson.onlinePaidBaselineCents`; at Stripe: Checkout sessions, events, holds | `sendConfirmationEmail`, `confirmPaymentFromCheckoutSession`, webhook `handle`, `success` page, `syncPendingStripePayments`, `authorizeDepositAfterCheckout`, `trySendContractSignEmail` | `Checkout`, abstractly `PaymentLedger` |
| Cancellation and restoration (`reservations.service.ts`) | same row | `cancel`, `restore` | `Checkout`, `Refunds`, `Booking`, `ReservationStore`, each with the part of the row it is about |
| Supplement after a price change (`resolveAsMove`, `reconcileScheduleChangePayment`, `settleSupplement`, `confirmSupplementFromCheckoutSession`) | same row: `totalDueCents`, session, link, `detailsJson.supplementPaidCents` | move, ask for the difference by link or mail, confirm it, settle it at the agency, credit a lower price | `Supplement` |
| Two-instalment plan (`upsertReservationInstallments`, `confirmInstallment…`) | `ReservationPaymentInstallment` rows | write, rewrite and delete the plan, one session per instalment, mark paid | `InstallmentPlan` |
| Store credit (`member-credits.service.ts`) | `MemberCredit` rows, `MemberCreditUsage`, the total and the collected amount of the reservation | `syncComputedTotalDueCents`, `applyCreditsToReservation`, `resolveAsStoreCredit`, `collectedAmountCents`, `issueCredit` | `MemberCredits` |
| Refunds (`issueRefund`, `syncStripeRefunds`) | `ReservationRefund` rows, status; at Stripe: refunds | refund target by target, import of dashboard refunds | `Refunds` |
| Rental contract (`rental-contracts.service.ts`) | `RentalContract` row: signatures, archive, hash, `signedAt`, mail marks | ensure, mail the link, sign, archive, mail the copy, refresh | `ContractSigning` |
| Check-in / check-out (`check-flow.service.ts`) | questions, shared setting, submissions, answers | submit, correct, edit the form; the lock of a finished reservation | `CheckFlow` |
| Stock of extras, extra rentals (`extras.service.ts`, `extra-rentals.service.ts`) | `ReservationExtra`, `ExtraRental` rows | check availability, write | `Booking` |
| Coupons (`coupons.service.ts`) | `CouponRedemption` journal | record, remove, align | `Booking` |
| Reservations on the screens (`stores/reservations.ts`, `CalendarPage.tsx`) | list, form, calls under way | refresh, create, edit, recover | `ReservationStore` |
| Update, move, schedule change (`reservations.service.ts`) | the whole row | `update`, `resolveAsMove` | the row in `ReservationStore`, the price in `Supplement`, the plan in `InstallmentPlan`, stock and coupon in `Booking` |
| Login sessions (`auth.service.ts`) | `RefreshToken` rows | login, refresh, logout | no |
| Internal notifications, unavailabilities, catalogue, members, users, settings, announcements | independent rows | create, read, update, delete | no |
| Pricing (`pricing/*.ts`, shared code; in the administration the wizard, the finances page, the coupons page) | none of its own: it reads the reservations' rows, the coupon, the catalogue | `computeReservationTotalDueCents` from create, edit, mail, move, restoration; the tier and the price worked out again by three screens | `Pricing` |
| Mail, PDF, media; the other screens | none on the server | I/O | no |

### How they interact

`ReservationsService.create` writes the row, prices it and calls
`ReservationNotificationsService.sendConfirmationEmail`, which creates the Checkout session
through `StripePaymentsService` and stores its URL. The client pays at Stripe. Four callers then
confirm the session through the same function: the webhook, the public success page, the
operator's button, and `syncPendingStripePayments`, which every open administration page
requests each 10 seconds (`InternalNotificationsPoller`). Confirmation writes the row, updates
the coupon journal, places the deposit hold and mails the contract for signature. Cancellation,
restoration, repricing, credit and refunds write the same row from other requests, and a
screen's edit writes the whole of it from a form that was opened earlier. The total each of them
writes comes from the pricing, which counts the other reservations of the client to choose the
coupon's tier. Almost nothing is locked: one SQL statement is atomic, and the check flow and the
taking of one credit are short transactions.

### What is hard

Interleaving of these asynchronous functions; values used after an await; a
confirmation that is repeated, late, refused or lost; a request that dies between
Stripe's side effect and its own write; the 50-cent boundary under which nothing
can be charged; whole-row and whole-column rewrites; answers that reach a screen in
another order than they were made in. `PROJECT.json` lists each hazard at its line
with the properties that watch it.

### What makes each part correct

| Part | It is correct if |
|---|---|
| Online payment | nothing is captured, and no contract sent for signature, without the client's money or a total under 50 cents; the amount captured is the amount due; a payment that was made is captured in the end; one payment places one deposit hold, and every hold is named by the row |
| Cancellation, restoration | neither undoes a payment captured meanwhile, nor brings back a status the row does not earn |
| Supplement | a paid difference is recorded once and never lost; what is asked for is the price less what was collected; the link the client has can be confirmed and charges what the mail announces |
| Instalments | a paid instalment was collected and is never rewritten; the two parts make up the total; the reservation is captured when its first instalment is paid |
| Store credit | every cent of a credit is left or used once, oldest first; a reservation never swallows more than its price; a credit is backed by what the client gave |
| Refunds | never more is recorded than was collected; the status tells what was refunded; each Stripe refund is recorded |
| Contract | signed once, by both, only of a reservation that was paid; the archive bears the signatures of the row, and an archive outdated in what its fingerprint covers is reported |
| Check flow | one submission per kind, complete for the questions of its time; no answer without its question; a closed rental stays closed |
| Stock of extras | never more items out than owned on any day |
| Pricing | the full discount of a coupon is given to a client as often as it may be in a season; the screens tell the tier and the price the API charges |
| Coupons | one journal line per use, and it tells the reservations |
| Screens | when nothing is under way the screen shows the row; an edit from an up-to-date form undoes nothing (one from an older form does) |

## 2. Plan

Money first: it is where the code interleaves with Stripe. Modules are written to
be proved about (parameters as `CONSTANTS` with a named assumption, one action per
operation, no recursive operator). In the order they were written:

| Module, with its `MC…` and `…Proofs` | Composes / abstracts |
|---|---|
| `Checkout`, `MCCheckout`, `CheckoutProofs` | implements `PaymentLedger` |
| `MemberCredits`, `MCMemberCredits`, `MemberCreditsProofs` | a payment is one step, which `Checkout` takes apart |
| `Supplement`, `MCSupplement`, `SupplementProofs` | starts where `Checkout` captures |
| `PaymentLedger` | what a reservation received and whether it is captured, one step each |
| `InstallmentPlan`, `MCInstallmentPlan`, `InstallmentPlanProofs` | sessions of `Checkout`'s kind over the plan's rows |
| `Refunds`, `MCRefunds`, in `ReservationStoreProofs` | starts where all is collected |
| `ContractSigning`, `MCContractSigning`, `ContractSigningProofs` | the payment is one step, the data of a reservation one version |
| `CheckFlow`, `MCCheckFlow`, `CheckFlowProofs` | payment and refund are one step |
| `Booking`, `MCBooking`, in `PricingProofs` | the reservations as stock and journal see them |
| `ReservationStore`, `MCReservationStore`, `ReservationStoreProofs` | the row as the screens see it; the API's handlers are one step each |
| `Pricing`, `MCPricing`, `PricingProofs` | the reservations as the coupon's quota sees them; what `Checkout`, `Supplement` and `InstallmentPlan` take as the price |

The proofs about `Refunds` are in the proof module of the row it writes, those about
`Booking` in that of the coupon it journals. `InstallmentPlan` does not implement
`PaymentLedger`: saving a form opened before the capture takes the capture back. Left for
later: login sessions.

## 3. `Checkout`: the payment of one reservation

**State.** `res` is the reservation's row with the columns the payment reads or
writes; `price` what `computeReservationTotalDueCents` would return now; `stripe`
the Checkout sessions; `event` the `checkout.session.completed` event of each;
`holds` the card holds Stripe has placed; `signMailed` is
`contractSignEmailSentAt`; `req[r]` is a running request: its place (`pc`), the
session, amount and columns it has read and not used yet (`seen`).

**Actions.** Each stretch of code between two awaits that touches shared state is
one action, so that anything may happen where the code awaits:

| Request | Actions, in order | Code |
|---|---|---|
| confirmation mail | `StartSend`, `Reprice`, then `FindNothingDue`, `GrantFree` or `CreateSession`, `StoreLink`, then `SendSignMail` | `sendConfirmationEmail` of both services, `syncComputedTotalDueCents` |
| webhook, success page, polling | `ReceiveWebhook`, `OpenSuccessPage` or `Poll`; `AcceptSession` or `RefuseSession`, `ReadRow`, `ApplyPayment`, `SkipHold` or `PlaceHold`/`FailHold` then `RecordHold`, `SendSignMail` | `confirmPaymentFromCheckoutSession`, `validatePaidCheckoutSession`, `authorizeDepositAfterCheckout` |
| cancellation, restoration | `StartCancel`, `Cancel`; `StartRestore`, `Restore` | `cancel`, `restore` |
| none | `ClientPays` (Stripe), `ChangePrice` (the catalogue), `Abort` (an exception or a restart: a request forgets all it read, and a webhook that dies is delivered again) | |

**Abstractions.** A read is merged with the Stripe call or the read beside it where
the two commute; the sign mail and its mark are one step; a session that expires is
one nobody pays; audit, notifications, the coupon journal and the creation of the
contract row are writes no decision of this module reads; the request snapshot keeps
only the columns used later. Scope: ONLINE, one payment, no store credit, before
the rental ends (the lock of a finished reservation is not reached).

## 4. `MemberCredits`: the credit of one client

**State.** `credit[c]` are the `MemberCredit` rows in the order of `createdAt`,
`issued` how many exist; the `MemberCreditUsage` rows are kept by their two sums,
`spent` by credit and `applied` by reservation, the only ways the code reads them;
`row`, `session`, `sessions` and `received` are the reservations and what Stripe
collected; `req` the running requests with what they have read: the stored total,
the credit found already given, the planned credit, what is left of it to take, the
listed balances, the `detailsJson` that will be written back.

**Actions.** Pricing (`syncComputedTotalDueCents` with
`applyCreditsToReservation`): `StartPricing`, `ReadApplied`, `PlanCredit`,
`ListCredits`, `TakeCredit` once per credit (one database transaction), `StopTaking`,
`WriteTotal`, then `SendMail`. Cancelling for a credit (`resolveAsStoreCredit`):
`StartCredit`, `Collect` (or `CollectNothing`, which refuses), `CancelForCredit`,
`IssueCredit`. `Collected` is `collectedAmountCents` with its guesses: what is
recorded, else what total and price suggest, else what Stripe says of the session.
`ClientPays` is a payment with its confirmation, `Abort` a request that dies
anywhere.

**Abstractions.** Mail and payment are one step each, since `Checkout` takes them
apart. The price of a reservation does not change here, a cancellation uses the
default amount, and nothing in the code sets an expiry date. The restoration of a reservation
cancelled for a credit is left out; the credit of a move is in `Supplement`.

## 5. `Supplement`: a price that changes after the payment

**State.** `row` is the row once `Checkout` has captured it, with the four columns
that matter here; `price` what the present slot costs; `stripe` the supplement
sessions; `credited` and `counted` are sums the program does not keep, of the credit
issued for lower prices and of the supplements added to the row, and `confirmed` the
sessions among them; `req` the running requests, each with the copy of
`supplementPaidCents` (`details`) it has read with the rest of `detailsJson`.

**Actions.**

| Request | Actions, in order | Code |
|---|---|---|
| move | `StartMove`, `WriteSlot`, `ReadCollected`, `WriteDue`, then `CreditDifference` if the price fell | `resolveAsMove`, `reconcileScheduleChangePayment` |
| settlement: reopen, link, agency or mail | `StartSettlement`, `FindNothingOutstanding` (refused) or `FindOutstanding`, then `Reopen`, `CreateSession` and `StoreLink`, `SettleAtAgency`, `SendLink` | `settleSupplement`, `sendSupplementPaymentEmail`, `createSupplementCheckoutSession` |
| confirmation | `AcceptSession` or `RefuseSession`, `AdoptSession`, `ReadDetails`, `CountSupplement` | `confirmSupplementFromCheckoutSession`, `validateSupplementCheckoutSession` |
| none | `ClientPays` (Stripe), `Abort` | |

**Abstractions.** The settlement's and the mail's common beginning is written once,
with the task as a parameter; the amounts in Stripe's metadata and on its session are
the same, since one call sets both; a supplement session is confirmed by any caller at
any time, which includes deliveries that repeat. `Collected` is the branch of
`collectedCentsOnReservation` that such a row takes. The note, the refreshed contract
and the mail of the resolution are not state anything here reads.

## 6. `PaymentLedger` and how `Checkout` implements it

The abstract specification has three variables: what each session received, what
the reservation is captured with, whether the client was invited to sign. Its
steps are `Receive`, `Capture` (with an amount that was received), `Waive` (nothing
can be charged), `WriteBack` (a stale whole-column write gives the baseline an
earlier received amount) and `Invite` (only after the capture). `Checkout!KeepsLedger`
is `Ledger!Spec`, with `Ledger == INSTANCE PaymentLedger WITH …` mapping a session to
what Stripe collected in it and the row's columns to the capture. TLC checks it in
`live`; `ImplementsLedger` proves it for every number of requests, sessions and prices.

## 7. `InstallmentPlan`: a deposit and a balance

**State.** `plan[k]` is the row of instalment 1 or 2 (`Absent` if there is none),
`row` the columns of the reservation, `stripe` the sessions with the instalment each
is for (0: the whole price), `price`, `event` as in `Checkout`, `forms` what the
operators' open forms were opened with, and `req`. Three history variables say why a
capture may be there or not: `declared` (the instalments an operator has settled by hand),
`granted` (it was captured once for a total that needs no payment), `undone` (a form has
taken a capture back).

**Actions.** Writing the plan: `OpenForm`, `SubmitForm`, `SaveForm`, `ReadTotal`,
`Reprice`, then `ReadPlan` and `UpsertInstalment` per row, or `ClearPlan`
(`create`, `update`, `upsertReservationInstallments`). The mail: `StartSend`,
`FindNothingDue`/`GrantFree`, `FindNothingOnline`/`StoreNoLink`,
`CreateSession`/`StoreLink`, `SkipMail`. Confirmation: `ReceiveWebhook`,
`OpenSuccessPage`, `Poll`; `CheckInstalment`, `MarkInstalment`, `ReadDeposit`,
`CaptureDeposit`, or `CheckWhole`, `ReadWhole`, `ApplyWhole` for a session that is
for the whole price. `StartDeclare` is the operator who marks an instalment paid, or
unpaid. After the deposit, `MarkInstalment` goes on to mail the balance.

**Abstractions.** The deposit hold and the signing mail, which end a confirmation, are
in `Checkout`. Edits change nothing that is priced; the catalogue may change. A form keeps the
status, `paymentCapturedAt` and total it was opened with, and is no request: it stays open
while requests run, payments arrive and other forms are saved, and `SubmitForm` writes back
what it was opened with however stale that is (`update`, `reservations.service.ts:2054`).
So saving an old form takes a capture back, or writes one back that another form had taken.

## 8. `Refunds`

**State.** `sale` is how the reservation was paid: what each Stripe payment received, which
are named by a session of the row or of an instalment, which are payments of the whole, the
cash, and whether Stripe's API tells refunds of a charge. `refunded[p]` is what Stripe has
given back of payment `p`, `recorded` the sum of the `ReservationRefund` rows, `reservation`
the status and `cancelledAt`, with a mark (`confirmed`) that a repeated confirmation wrote the
status last, and `req`: the cap's sum as read, the targets listed, what is left to refund.

**Actions.** `StartRefund` (the cap), `ListTargets` (each payment may be reached by its
session and by its PaymentIntent), `RefundTarget` one by one, `RecordRefund`,
`ComputeStatus`, `WriteStatus`; `StartConfirmation`, `ReadRow`, `ConfirmAgain` when Stripe
delivers its event again or the client reopens the success page; `StartSync`, which does the
same to the sessions named and then, like `StartImport` alone, imports (`ReadRefunds`,
`CompareWithStripe`, the same record); `StartCancel`, `CancelReservation`, `StartRestore`,
`RestoreReservation`; `RefundOnDashboard` and `Abort`. `ConfirmAgain` writes `RESERVED_PAID`
over any other status, a refund's too (`reservation-notifications.service.ts:590`), if the
payment passes the validation: its session is the row's and collected the whole price. A plan's
sessions do not, for their instalments are paid already.
`Worded` and `IsAlreadyRefunded` keep what the wording of an error decides: the French
text `stripeErrorMessageFr` returns is not the one `isStripeChargeAlreadyRefunded` looks for.

## 9. `ContractSigning`

**State.** `contract` is the row: the two signatures, `signedAt`, the archived document
(`html`, with the data and signatures printed in it), the fingerprint (`snapshot`) and
the marks of the mails. `data` is the present version of what the contract prints
and the fingerprint covers (`rental-contract-snapshot.ts:19`), `terms` of what it prints
besides: the discount, the coupon, the deposit, the plan, the payments, the catalogue's prices,
who the member and the company are. `paid` is `isReservationPaidForContract`, `writtenOff` a
history variable: a form has taken a payment off. `company` is the company's signature in the
settings.

**Actions.** `Ensure` then `CreateContract`, `SeedOperator`, `DecideLink`, `MailLink`,
`RecordLink`; `SignAsOperator`; `StartSign`, `BuildDocument`, `TakeSnapshot`, `Archive`;
`StartCopy`, `ReadArchive`, `MailCopy`, `RecordCopy`; `StartChange`, `ChangeData`,
`Reread` for a move, an edit or a supplement, which refresh the archive of a signed
contract through the same `BuildDocument` … `Archive`; `ClientPays`, `ChangeTerms`,
`SetCompanySignature` outside. `ChangeData` by a form writes the payment the form shows, none
if it was opened before the payment (`WritesOff`).

**Abstractions.** A document is what it prints: data, terms and signatures. One reservation, so
contract numbers are left out. `overlapped` remembers whether two requests have ever run
at once: properties that hold serially are stated of behaviours in which they have not.

## 10. `CheckFlow`

**State.** `form[q]` is what a question demands (or that it is disabled, deleted, not yet
created), `shared` the setting that gives the check-out the check-in's form, `rental` the
row's day and payment, `submission[kind]` the day and answers, `now` in half-days.

**Actions.** `StartSubmit`, `CheckAccess`, `ReadQuestions`, `CreateSubmission`;
`StartUpdate`, …, `ReplaceAnswers`; `StartSync`, `WriteForm`, `ToggleShared`; `StartEdit`,
`WriteRental`, `StartMove`, `WriteMove`, `StartRemove`, `Remove`, guarded by
`MayEdit` (the lock of `reservation-lock.ts`) except the move, whose code never asks;
`SettlePayment` and `Tick`. The database's keys are in the guards of the writes:
`Unique` (one submission per kind) and `Refers` (an answer's question exists).

## 11. `Booking`: stock and coupon journal

**State.** `held[h]` is the row of a reservation or a stand-alone rental: pending, paid, void
(cancelled or refunded) or `revived` (paid, though its row keeps `cancelledAt`), its day, the
key its client is known by; `lines[h]` the units of the extra; `journal` the
number of `CouponRedemption` rows of each key and day; `today`.

**Actions.** `StartCreate`/`StartEdit` check the stock (`Fits`), `WriteRow`, `ClearLines`,
`CreateLines`, `Refetch` write; `StartChange` with `WriteState` or `WriteMove` is a
cancellation, a restoration or a move, which check nothing; `PayHolding`, the confirmation of a
payment, which looks at no status and so makes a void reservation paid or revived again, with
no check of the stock (`reservation-notifications.service.ts:584`); `StartRemove`,
`RemoveUses`, `Delete`; every one ends with the journal (`LookUp`, `Record`, `RemoveUse`),
which `StartAlign` does for all. `Tick`, `Abort`.

**Abstractions.** One extra and one coupon, which meet in the rows alone; slots of one day.

## 12. `ReservationStore`: the screens

**State.** `row` is the row as written by the API, with both its columns and the copy of
the same facts in `detailsJson`; `shown[s]` what a tab shows, `local[s]` the item it has
created and the API has not confirmed, `draft[s]` the item its form was opened on, `calls[s]`
the calls under way, `write` a counter of writes that names the origin of each copy.
`doubt[s]` is a history variable: the tab had two calls under way, a refresh of it failed or
the row was written behind its back since it last caught up.

**Actions.** `Refresh`, `New`, `OpenForm`, `CloseForm`, `Save`, `SaveLocal` at a tab;
`ServeGet`, `ServeWrite` (the whole `update`) at the API; `Fail` (the call is lost before
or after it was served); `GetAnswer`, `PostAnswer`, `PutAnswer`, `GetFails`, `Failed`
(`Recover`: read again). `Pay`, `Cancel`, `Restore`, `Refund` change the row behind the
screen. `Resolve` is `resolveReservationStatus`, which derives the status shown from the
columns and the JSON; `Sent` is what `reservationToApi` writes of it.

## 13. `Pricing`: the total of a reservation and the coupon's quota

**State.** `row[b]` is a reservation: its status, whether it is captured, what was recorded
as refunded (nothing, a part, all), `cancelledAt`, what the copy of these facts in
`detailsJson` tells a screen, its slot, the client (a member's id, an e-mail, or both), and what
its total was last computed with: the coupon's tier, and the rental's price, typed or the
catalogue's for a season. `coupon` is whether the coupon is enabled and what kind it is.
`inTurn` is a history variable: clients have booked and paid one rental after the other, each
for a later day, and nothing was moved, restored, given to another client, or confirmed again
when it no longer counted.

**Operators.** `Tier` is `resolveEffectiveCouponDiscount`; the four places that call it differ
in the uses they count: `Charged` (the API: by slot, then by creation), `QuoteTier` (the
wizard: all that has started by noon of the day), `FinanceTier` (the finances page),
`UsageTier` (the coupons page: by slot, then by id). What they count differs too: `Counts` is
the API's, of the columns (`coupon-usage.ts:66`); `ShownCounts` that of the screens, of the
status and capture `resolveReservationStatus` and `reservationFromApi` make of the row, in
which a partly refunded reservation is not captured. `Price` is the API's sum in cents, each
line rounded; `Quote` the wizard's in euros, the sum rounded. `SeasonCode` and
`ListedSeasonCode` are the two calendars of the catalogue.

**Actions.** `Create`, `Reprice` (each mail prices again what is not captured), `Edit` (of
slot, boat, client, typed price, extras: `ScheduleChanged` and `CatalogPricingChanged` decide
what is priced again; the status is the one the form shows, `Saved`), `Move` (priced before it is
written), `Pay` (the confirmation, also repeated on a cancelled or refunded reservation, which
counts again then), `Settle`, `Cancel`, `Refund` (a part or all, with or without a
cancellation), `Restore`, `EditCoupon`.

**Abstractions.** Every reservation bears the one coupon. A slot lies within one day. A price
of the catalogue is a function of the season: half-days, weeks, and the rate of a boat against
its fleet's, are left out. No store credit is used, and extras are settled online. API and
screens judge alike whether the refunds make up the whole price. The
administration's sums of floating-point euros are taken as exact, so that a half cent is
always rounded up.

## 14. Runs

| Run | Question | Properties | Result |
|---|---|---|---|
| `sequential` | one request at a time, three sessions, totals 0, 49, 50 and 80: what do races alone break? | `ClosedLinkIsPaid`, `PendingMeansUnpaid`, `NoOrphanHold`, `BaselineIsTheSettledPayment` | holds, 0.63 million states |
| `live` | a request and a polling page, two of which die: is every capture earned, the ledger kept and a payment captured in the end? | `CaptureIsEarned`, `KeepsLedger`, `PaidIsCaptured` | holds, 0.16 million states |
| `confirm_idempotent` | is a replayed confirmation a no-op, as its comment says? | `ConfirmIsIdempotent` | **violated**: it undoes a cancellation |
| `credits_sequential` | one request at a time that may die: journal, order, price, backing | `LedgerBalanced`, `OldestFirst`, `PaidInFull`, `IssuedCreditIsBacked` | holds, 1.2 million states |
| `supplement_sequential` | one request at a time that may die: is every supplement kept, the link accepted, the demand owed? | `NothingForgotten`, `LinkIsAccepted`, `DueIsOwed` | holds, 0.54 million states |
| `instalments` | a plan written, mailed, paid, settled, deleted and written again while the price changes and two forms stay open | `CaptureHasReason`, `PaidIsCollected`, `PartsOfOneTotal`, `PaidDepositCaptures` | holds, 5.3 million states |
| `refunds` | two requests and Stripe's dashboard refund, confirm again, import, cancel and restore | `RefundedIsRefunded`, `NotBeyondCollected`, `StatusTellsRefunds` | holds, 2.4 million states |
| `signing` | two requests create, sign, archive, mail and refresh a contract while its data, terms and payment change | `SignedWasPaidAndComplete`, `ArchiveBearsTheSignatures`, `StaleIsReported`, `CopyIsMailed`, `SignedStaysSigned`, `SignedOnce` | holds, 2.7 million states |
| `check_flow` | two requests submit, correct, edit the forms and the reservation | `AnswersHaveQuestions`, `FirstStays`, `SubmissionIsComplete`, `ClosedStaysClosed` | holds, 0.78 million states |
| `booking` | two reservations and a rental share one unit and two days; one request may die | `BookingTypeOK`, `NotOverbooked`, `JournalOnce`, `AlignedAlone` | holds, 0.63 million states |
| `store` | a tab with two calls under way edits a row that changes behind it | `AtRestAgrees`, `UpToDateEditKeeps` | holds, 0.47 million states |
| `pricing` | three rentals of a member and of somebody with his e-mail, over two seasons and October, are booked, paid and changed while the coupon is | `ExtraUseIsDegraded`, `ScreensAgree`, `QuoteNearPrice` | holds, 0.50 million states |

Every action fires in some passing run. Many properties are serial: they are checked on one
request at a time, or stated of behaviours in which no two have overlapped
(`overlapped`), and are false with two, as section 16 says. What holds whatever overlaps:
all of `live`, `ClosedLinkIsPaid`, `RefundedIsRefunded`, `SignedWasPaidAndComplete`,
`SignedStaysSigned`, `CaptureHasReason` (by its theorem: the run has one request and two
forms), `AnswersHaveQuestions`, `FirstStays`, and everything of `store`. In
`Pricing` a request is one step.

**Bounds and why they are enough.** `Requests`: two where races are asked about, since each race
found needs two, and one where the property is serial. `Sessions`: two for a current and a
former link, three when a serial history has a former, a current and a stale one. `Prices`: {50,
80} both chargeable, {0, 49, 50, 80} at the boundary, {49, 120} for a plan (a total too small
for a session and one whose parts are both chargeable); amounts matter only by equality, order
and being under 50. `MaxHolds`: one per confirmation that can run. `MaxAborts`: two deaths in
`live`, one in the modules added after; not bounded in `MemberCredits` and `Supplement`. Credits
of 40 and 100 against prices of 0, 49, 90 and 130 make a pricing use one credit up, part of one,
or all and not suffice; `MaxCredits` and `MaxSessions` leave room for a reservation to be
cancelled for a credit that pays another. A reservation paid 100 moves to slots of 40, 100, 160
and 230: a fall over 50 cents, none, and two supplements that differ; `MaxCounted` leaves room
for two supplements, or one and a settlement, and `MaxCredited` for two credits. `MaxRows`: the
two rows of a plan, the key of a deleted one being given again once no request remembers it, so
that a plan is deleted and written again any number of times; `MaxForms`: two forms, one of
which can undo what the other has saved. `MaxRecorded` and amounts of 1, 2 and 6 cents: part of
a payment, all of one, all of them. `MaxLinks`: a link mailed again. `LastDay` and `GraceDays`:
the day of the rental, the grace day, the day after it. `MaxWrites`: four writes of the row, a
creation and three changes that can cross. In `pricing`: `MaxFull` of one use and three
reservations, so that one use is in order, one past the quota and one more to change; five
slots: two of one June day, July, October (out of season, where the two catalogues differ) and
June of the next year; `MaxChanges`: one edit, move, settlement, cancellation, refund or change
of the coupon among the bookings, payments and restorations; the prices, shares and discounts of
`Forms` are such that halves are met in every rounding.

Four runs cut the product of independent dimensions with a `CONSTRAINT` of the `MC`
module: `FewAtATime` (of a plan, one of: a death, a second session, a settlement at the
agency, a second form, a stale form; or a stale form with a second session or form),
`DiesOrOverlaps` and `SameTerms` (a contract's request dies or two overlap, and once two have
overlapped every document prints the terms as they are),
`OnlyFormsOverlap` (in `check_flow`, what happens to the reservation itself is interleaved
with nothing) and `StockOrCoupon` (in `booking`, a behaviour is about the extra or about
the coupon, which meet in the rows alone). Where requests, sessions, versions or calls are
interchangeable they are taken up to permutation; liveness is checked without symmetry.

**Deadlock** is checked except in `instalments`, `refunds`, `signing`, `check_flow` and
`pricing`, where the bounds let the model stop: no session, row, recordable refund, mail,
day or reservation is left.

**Fairness.** Only `PaidIsCaptured` needs it. `Continue` of a request is weakly fair:
an asynchronous function that started is resumed when what it awaits answers, unless
it dies (`Abort`, a bounded number of times). `Poll` is weakly fair: an open
administration page requests the synchronisation each 10 seconds. Nothing is fair
about the webhook, the success page, the client or the operators.

## 15. Proofs

`tlapm` checks every leaf. The proofs assume only the named assumption of each module
(`CheckoutAssumption`, `MemberCreditsAssumption`, …), which TLC evaluates in every run.

**`CheckoutProofs`.** `TypeCorrect`, then `Invariance`: `IInv` is inductive. The three
safety invariants (`BaselineIsAPayment`, `PaidStatusMeansCaptured`,
`ClosedLinkIsPaid`) are not inductive, because a request writes what it read or
validated several steps earlier. `IInv` therefore adds, for each place of a request,
what its stale values still guarantee (`RequestOK`: an accepted session stays paid, a
remembered baseline stays the amount of some payment, a remembered capture stays
earned) and that two requests never store the same new session (`StoresApart`). The
reason it works is monotonic: what Stripe collected is never uncollected and a capture
is never undone (`PaymentsStay`, `CaptureStays`). `CaptureEarned` is the action
property, from the same invariant. `ImplementsLedger` is the refinement: under `IInv`
every action is a step of `PaymentLedger` or leaves its variables alone.

`PendingIsUnpaid`, `BaselineIsSettled`, `HoldsAreNamed` and `AppliesCurrentSession` are about
behaviours in which no two requests run at once (`[]OneAtATime`), with any number of requests
that follow each other, wherever they die; `HoldsAreNamed` assumes that none has (the run has
no deaths). `SInv` adds to `IInv` what the running request has read and may still rely
on (`Knows`): the session and total it was checked against, the deposit, the baseline and the
capture of the row. It is proved request by request: whoever takes a step is the only one
before and after it.

**`MemberCreditsProofs`.** `TypeCorrect` says that no balance or total becomes
negative under any interleaving. `CreditIsNeverLost`: a balance is written from a
listed value, so the invariant says of each listed value what the property says of the
balance (`ListedCovers`); usages only grow, so it stays true while others spend.
`LedgerIsBalanced`, `OldestIsFirst` and `CreditStaysWithinPrice` are what the code
guarantees when requests run one at a time, which the theorems assume of the constants
(`Alone`: there is at most one request). Their invariants are that the loop's list shows
the balances until it has taken enough (`ListShowsBalances`) and that what was planned
still fits (`PlanFits`).

`CapturedIsPaidInFull` and `IssuedIsBacked`, under `Alone` too, are about sums: the credit a
client has available is the sum of his balances, a fold. The library's theorems of induction
take an operator, which the provers cannot instantiate, so the lemmas on sums (any element may
be taken out first, terms that are equal or smaller give sums that are) are proved from the
smallest counterexample: a family of finite sets that is not empty has a smallest member
(`SmallestSet`). `SettledInv` then says of every reservation that it is settled for its price
by money and credit, and of the running request what it still has to apply (`Knows`).

**`SupplementProofs`.** `TypeCorrect` as above. One lemma (`StepEffects`) says what any
step does to the recorded supplement and to the copies of it, and two invariants rest
on it: a copy never exceeds what was counted (`Invented`), which holds under any
interleaving and gives `InventedNothing`; and, when there is at most one request, the
copy that will be written back is what is recorded (`Forgotten`), which gives
`ForgottenNothing`. `AcceptedLink` and `OnlyOwedIsDue` are serial as well: the session
about to be adopted is the one the row names (`AdoptsNamed`), and the price and the
amounts a request has read are still true when it writes (`KnowsDue`).

**`ContractSigningProofs`.** `TypeCorrect`, `SignedContractIsComplete` and
`SignatureIsFinal`, for any number of requests that may die anywhere. The inductive
invariant says that a signature is written only from a request that has seen the
payment and holds an archive, that a payment seen is there or was written off by a form
(`WasPaidStays`), and that no later write, of the company's signature
seeded late or of a new archive, takes `signedAt` or the client's signature back.

`SignaturesAreTheArchives`, `StaleDocumentsAreReported`, `SignedCopyReachesTheClient`,
`LinkIsMailedOnce` and `SignaturesAreFinal` are about behaviours in which no two requests have
overlapped so far, the history variable of the properties. Their invariant (`SerialInvariance`)
says that the archive agrees with the row, its fingerprint (of the data, which is all
`StaleDocumentsAreReported` is about) and the copy that was mailed
(`ArchiveAgrees`), that a copy or a link is mailed or about to be (`CopyIsDue`, `LinkIsDue`),
and that what the running request has read still holds (`Knows`).

**`CheckFlowProofs`.** `TypeCorrect`, `AnswersKeepQuestions` (a withdrawn question that was
answered is disabled, not deleted, and the key refuses an answer to a deleted one) and
`FirstSubmissionStays` hold for any number of requests. `RecordedIsComplete`, `RecordedInTime`,
`CorrectedInTime` and `ClosedRentalStaysClosed` are serial: `Single` says at most one request is
under way while none has overlapped, and `Knows` that what it has read is still true.

**`InstallmentPlanProofs`.** `TypeCorrect` for any number of requests: its invariant adds that a
request about to write an instalment has read a total (`Ready`), since `Parts` of a null one is
no amount. `CapturesHaveReasons` holds whatever overlaps and dies and however old the forms that
are saved: every open form that shows a capture, and every request about to write one, has a
reason (`Sound`, `RInv`), and a reason stays. The three other properties of the run are serial
(`Alone`: at most one request; forms and payments wait for none), for any number of sessions,
forms, prices, percentage, edits and deaths. They are inductive only together, with what the
request knows (`Knows`): of the row, that a confirmation still holds the capture and status it
read (a form need not); of the plan, that it is as read from the instalment being written, and
that a deposit behind it that is due is the first part of the amount (`PlanIsAsRead`); of
Stripe, that the session being confirmed is paid and is of the amount of its instalment. The
client and the catalogue do not wait for the request, so these are facts that no payment and no
change of price undoes. One lemma (`Kept`) covers every step that leaves the plan alone.

**`PricingProofs`.** `TypeCorrect`. `QuotaIsKept` is `ExtraUseIsDegraded` for any number of
reservations, clients, slots and changes and any quota. It is not inductive: a payment makes a
use of a reservation that was priced when others were not uses yet. The invariant adds, for
behaviours in turn, that a reservation pending is its client's last one (`PendingIsLast`), so
that nothing counted after it was priced, and says the quota of the uses before every live
reservation, paid or not (`FullIsFew`). A reservation that counts again after its refund would
break both: `inTurn` excludes it. `RoundingsOnly` is the arithmetic of `QuoteNearPrice`
for every form, kind of coupon and tier.

`PagesAgree` is `ScreensAgree`: the four orders in which the API and the pages count the uses
before a reservation give the same tier where the client has one key, one rental a day and no
refund, for noon and the start of a slot then tell the same days apart (`DaysOfInstants`), and
a reservation without refunds counts for the screens exactly if it does for the API
(`RowsAreSound`, `ShownAgree`: the JSON of a row without refunds tells no payment the row has
not, and a captured one is shown captured).
`WizardIsNearThePrice` is `QuoteNearPrice`: it adds that a price not typed is the catalogue's
for the slot the reservation has now (`CatalogueFollows`), and joins the two. It assumes that a
percentage is at most 100 (`[]PercentIsAShare`), which the comment at
`reservation-coupon-pricing.ts:5` says ("Pourcentage 0–100") and the coupon's DTO, which
accepts up to 1 000 000, does not enforce: above 100 a coupon takes more than the rental, of
which nothing is claimed.

The same module proves `Booking`, for any number of reservations, rentals and days and any
stock, with at most one request (`OneRequest`) that may die anywhere. `NotOverbooked` is not
inductive: a row is written before its lines, and an edit deletes the lines before it creates
them anew, so a day may be full but for what is about to be written. The invariant counts the
others then (`NoDayOverbooked`), says that what was checked at the start still fits at the write
(`Checked`), and needs of the stock, a sum over a set, that it splits into one share and the
rest (`ReservedSplits`) and that a write leaves what the others take (`OthersReserve`): the
lemmas on sums are those of `MemberCreditsProofs`. `BookingTypeCorrect` carries a property of
its own, that nobody has more than the stock. For the journal the invariant follows an
alignment half-way (`Journals`): the reservations it has been through are in step as it read
them, if alone on their day, and a use about to be recorded is not there. `SettledJournal`
says that going through one reservation disturbs only its day. `JournalHasUsesOnce` and
`AlignmentRepairs` follow, in whatever order the database returns the rows.

**`ReservationStoreProofs`.** `TypeCorrect`, `RestIsAgreement` (`AtRestAgrees`) and
`EditsUndoNothing` (`UpToDateEditKeeps`) for any number of tabs, calls, slots and writes. The
first rests on `Certain`: a tab not in doubt has one call under way at most, and the answer to
it, once served, is the row as it is; an answer that reaches a tab in doubt ends the doubt only
if it bears the row's write, and one write has one content (`SameWrite`). The second rests on
what an item remembers (`Current`, `CallOK`): one that bears the row's write has the details
`reservationFromApi` gives the row now. What the row shows and the next edit writes back is
then a matter of the conversions alone (`EditKeeps`), given that details that say pending tell
of no cancellation or refund and those that say refunded tell of one (`Bare`, `Funded`), which
every write keeps.

The same module proves `Refunds`, for any number of requests, payments and deaths.
`RefundedIsTrue` holds whatever overlaps: refunds are only added, so a status computed from a
sum read earlier stays true, and a confirmation writes another status. `RefundsAreCapped` and
`StatusIsTold` are about behaviours in which no two requests have overlapped: the sum the cap
was checked on is still what is recorded (`StillKnown`), and the status tells the refunds, a
repeated confirmation was the last to write it, or a request is on its way to writing it
(`Told`). That a request never refunds more than it was allowed is an argument on sums over the
payments, with the same lemmas.

Proved, and in no run, because the theorem says it for every instance: the types of all the
components but `Booking`, whose types are in its run, `BaselineIsAPayment`,
`PaidStatusMeansCaptured`, `OnlyCurrentSessionApplied`, `CreditNeverLost`, `CreditWithinPrice`,
`NothingInvented`, `LinkMailedOnce`, `OnlyPaidInTime`, `CorrectedTheSameDay`.

**Only model-checked.** Liveness (`PaidIsCaptured`), out of the prover's reach, and the
violation. Every safety invariant and action property that a run checks is proved as well,
under the hypotheses above; what two overlapping requests break (section 16) is no theorem.

## 16. Findings

One run shows a disagreement with a comment of the code: a confirmation replayed after a
cancellation writes `RESERVED_PAID` over it while `cancelledAt` stays
(`reservation-notifications.service.ts:595`, called idempotent at line 552). The same write
limits the properties of three other modules, in each of which it is an action. One request at
a time suffices, and none need die:

- `Refunds`: it writes `RESERVED_PAID` over `REFUNDED` or `PARTIALLY_REFUNDED`, also as the
  first half of the synchronisation of refunds, which then finds nothing missing and leaves it
  so (`reservations.service.ts:841`). `StatusTellsRefunds` is stated of a status that no
  repeated confirmation was the last to write.
- `Booking`: a client pays the old link of a reservation that was cancelled and whose unit of
  an extra somebody else has taken: more units are out than owned. `NotOverbooked` is stated of
  behaviours without it, as without a move and a restoration.
- `Pricing`: a refunded reservation that is confirmed again counts as a use of the coupon
  again, before one that was priced in full in its place. `inTurn` excludes it from
  `ExtraUseIsDegraded`; `EveryExtraUseIsDegraded`, below, does not.

Other properties are stated in the modules and are false; no run checks them. Most need
two requests at a time:

| Property | What happens instead | Where |
|---|---|---|
| `Checkout!AcceptedAtServerPrice` | a payment is compared with the stored total, not with the recomputed price that line 553 of the service announces | `stripe-checkout-validation.ts:130` |
| `MemberCredits!ConsumesAvailableCredit` | two pricings of one client spend the same credit | `member-credits.service.ts:189` |
| `Supplement!SupplementCountedOnce` | a supplement confirmed twice at once is recorded twice | `reservation-notifications.service.ts:970` |
| `Supplement!CreditIsTheDifference` | a second move credits the same fall of the price again (one request at a time suffices) | `reservations.service.ts:1588` |
| `InstallmentPlan!PaidIsNeverChanged` | an edit to a single payment deletes the paid instalment | `reservations.service.ts:983` |
| `InstallmentPlan!PaidDepositConfirms` | a death between marking the deposit and capturing leaves the reservation pending for good | `reservation-notifications.service.ts:699` |
| `Refunds!StripeRefundIsRecorded` | a refund larger than the largest payment refunds it, is refused when the same payment comes again under its other name, and ends before the row, which the comment at line 1069 promises (one request suffices) | `reservations.service.ts:1137` |
| `ContractSigning!SignedIsPaid` | a form opened before the payment and saved after it leaves a reservation with a signed contract unpaid, whether it is saved between the check and the signature or later | `reservations.service.ts:2054`, `rental-contracts.service.ts:643` |
| `ContractSigning!EveryChangeIsReported` | the fingerprint leaves out the discount, the coupon, the deposit, the plan, the payments, the catalogue's prices, the member and the company, which the document prints: an archive outdated in these is reported fresh (one request suffices) | `rental-contract-snapshot.ts:19` |
| `CheckFlow!ClosedIsNotMoved` | a closed rental can be moved: the lock is not asked (`resolveAsMove`) | `reservations.service.ts:126`, 1734 |
| `Booking!AlignedAfterSync` | a pending or void reservation takes away the use of a paid one of the client on the same day | `coupons.service.ts:278` |
| `Pricing!EveryExtraUseIsDegraded` | "la 4e utilisation de la saison reçoit le palier dégradé": rentals booked ahead are each priced in full, and so paid, and a refunded one confirmed again counts once more | `coupon-usage.ts:122` |
| `Pricing!MoveIsPricedThere` | a move is charged the tier of the slot it leaves | `reservations.service.ts:1748` |
| `ReservationStore!EditDuringCreateIsSaved` | an edit of a reservation that is being created is not sent, and the answer of the creation replaces it | `stores/reservations.ts:503` |

The models also have behaviours that nothing in the repository's texts excludes, or not
clearly, and that a team would want to know of; they limit what the properties can say.

- Two confirmations of one payment at a time each place a deposit hold and the row names
  one of them (`reservation-notifications.service.ts:630`).
- Two cancellations of one reservation at a time both issue a credit
  (`reservations.service.ts:1671`, 1689).
- A reservation paid in full can be settled once more at the agency, for the total its
  first payment left in the row (line 572): `DueIsOwed` has its second case for it. A mail
  announces the present balance with the link of a former one (line 722).
- A move of a reservation whose price is 0, by a discount or a coupon of 100 %, asks for
  the full rental price (line 1511); a restoration keeps the old total (line 1925).
- A move and a restoration ask for no stock (line 1750): `NotOverbooked` is stated of
  behaviours without them.
- A form of a plan's reservation opened before the deposit was paid takes the capture back when
  it is saved: `PaidDepositCaptures` is stated of behaviours in which none has (`undone`), and
  `SignedWasPaidAndComplete` of a payment that is there or was written off so (`writtenOff`).
- A reservation refunded in part counts as a use of the coupon for the API
  (`coupon-usage.ts:66`) and not for the screens, whose `resolveReservationStatus` and
  `reservationFromApi` show it not captured (`stores/reservations.ts:312`); so does one
  confirmed again after its refund. Tier and price then differ by more than roundings:
  `ScreensAgree` and `QuoteNearPrice` are stated of reservations none of whose client's other
  uses was refunded, even in part (`Alike`).
- A rental that is refunded, over, checked in and checked out is locked
  (`reservation-lock.ts:36`), while the message for it says that it can still be edited
  (line 49).
- October is low season for the API and middle season for the administration
  (`catalog-location-pricing.ts:12`, `pricingSeasons.ts:75`): `QuoteNearPrice` leaves out
  the catalogue's price of a slot in October. The last day of a coupon's validity counts for
  the screens and, after midnight UTC, not for the API (`reservation-pricing.ts:91`):
  `ScreensAgree` and `QuoteNearPrice` are of slots the API finds valid.
- An edit that changes the slot discards the price typed in the same form; a settlement by
  hand stores a null total; a reservation given to another client after its payment keeps
  the price and the tier of the first.
- On a screen: a stale form that moves a cancelled reservation leaves the columns pending
  while the JSON says cancelled, so the next up-to-date edit cancels it again, or, of a paid
  one, pending and not captured while the JSON says paid, so the next edits make it paid;
  `reservationFromApi` does not copy `paymentCapturedAt`, so an edit after a cancellation
  or a refund writes null there; a payment that arrives after a cancellation is undone by
  the next edit; a refunded row that is cancelled is shown as refunded and written back so.

## 17. Not modelled

- Login sessions and refresh tokens: the rotation of one token row by one request a page
  has under way; small and independent of all the rest.
- Internal notifications: written for the interface; no decision modelled here reads them.
- Boat unavailabilities: rows created, moved and deleted with no check against
  reservations in the API.
- Of the pricing: half-days, weeks, the rate of a boat against its fleet's, slots of several
  days, extras settled at the agency, more than one coupon.
- The synchronisation of Stripe's fees of older rows; the catalogue, members, users,
  settings and announcements: independent rows written in one statement each.
- Mail, PDF and media: pure I/O, whose failure is an `Abort`. Guards, validation and the
  audit log, which nothing reads back. The schema but for the rows and unique keys the
  modules rest on.
- The screens besides the reservation store, the calendar that feeds it and the polling:
  rendering, forms and filters.
