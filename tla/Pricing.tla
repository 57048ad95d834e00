-------------------------------- MODULE Pricing --------------------------------
(***************************************************************************)
(* What a reservation costs: the rental's price, typed or taken from the   *)
(* catalogue when the slot changes, the discount, the extras and a partner *)
(* coupon that gives its full discount for a client's first rentals of a   *)
(* season (April to September) and a degraded one for those that follow.   *)
(*                                                                         *)
(* The API prices a reservation whenever it writes the total due.  The     *)
(* wizard, the finances page and the coupons page of the administration    *)
(* work the tier and the price out again by themselves.                    *)
(*                                                                         *)
(* Scope: every reservation bears the one coupon; a slot lies within one   *)
(* day; requests run one at a time and no reservation is closed; no store  *)
(* credit; extras are settled online; API and screens judge alike whether  *)
(* the refunds make up the whole price.                                    *)
(***************************************************************************)
EXTENDS FiniteSetsExt, Integers

CONSTANTS
    Bookings,   \* the reservations ever made, numbered in that order (bound)
    Rank,       \* the order of their ids, which are random
    Clients,    \* who books: a member's id, an e-mail, or both
    NoValue,    \* no member, no e-mail
    Starts,     \* the instants at which a slot may start
    Month,      \* the month of a day, 0 to 11
    Year,       \* its year
    From,       \* the first day of the coupon's validity
    Until,      \* the last one
    MaxFull,    \* seasonMaxFullUsesPerClient
    Off,        \* what each tier takes off: per cent, or cents
    Rates,      \* the catalogue: the price of a slot by season
    Forms,      \* the prices, discounts and extras of forms
    MaxChanges  \* bound on edits, moves, settlements, voids, and edits of the coupon

\* A day has four instants: midnight, the morning, noon and the afternoon.
Day(t) == t \div 4

Midnight(day) == 4 * day

Noon(t) == 4 * Day(t) + 2

SlotDays == {Day(t) : t \in Starts}

Seasons == {"BASSE", "MOYENNE", "HAUTE"}

Tiers == {"none", "full", "degraded"}

\* The rental's price and the extras' in cents, the percentages of two extras
\* priced by the rental (0: no such extra), and the discount in per cent.
Form == [rental : Nat, extras : Nat, share : 0..100, share2 : 0..100, discount : 0..100]

ASSUME PricingAssumption ==
    /\ Bookings \subseteq Nat /\ IsFiniteSet(Bookings)
    /\ Rank \in [Bookings -> Nat]
    /\ \A c \in Clients : c = [member |-> c.member, email |-> c.email]
    /\ Starts \subseteq Nat /\ Starts # {}
    /\ Month \in [SlotDays -> 0..11]
    /\ Year \in [SlotDays -> Nat \ {0}]
    /\ From \in Nat /\ Until \in Nat
    /\ MaxFull \in Nat \ {0}
    /\ Off \in [Tiers -> Nat] /\ Off["none"] = 0
    /\ Rates \in [Seasons -> Nat]
    /\ Forms \subseteq Form
    /\ MaxChanges \in Nat

VARIABLES
    row,        \* the Reservation rows
    coupon,     \* the Coupon row
    changes,    \* how many changes were made
    inTurn      \* clients have booked and paid one rental after the other, each for a
                \* later day, and none was moved, restored, given away, or confirmed
                \* again when it no longer counted

vars == <<row, coupon, changes, inTurn>>

-----------------------------------------------------------------------------
Nobody == [member |-> NoValue, email |-> NoValue]

Statuses == {"absent", "pending", "paid", "cancelled", "partly", "refunded"}

\* The dates of payment (told: the JSON's own) and of cancellation, what the refunds
\* made make up, the tier and the rental's price (typed, or the catalogue's for a
\* season) the total due was last computed with; no total: "unset".
Row == [status : Statuses, captured : BOOLEAN, told : BOOLEAN, cancelled : BOOLEAN,
        refunds : {"none", "partly", "refunded"},
        start : Starts, client : Clients \cup {Nobody},
        tier : Tiers \cup {"unset"}, rental : Seasons \cup {"typed"}]

NoRow == [status |-> "absent", captured |-> FALSE, told |-> FALSE, cancelled |-> FALSE,
          refunds |-> "none", start |-> CHOOSE t \in Starts : TRUE,
          client |-> Nobody, tier |-> "unset", rental |-> "typed"]

Coupon == [enabled : BOOLEAN, kind : {"PERCENT", "FIXED"}]

TypeOK ==
    /\ row \in [Bookings -> Row]
    /\ coupon \in Coupon
    /\ changes \in 0..MaxChanges
    /\ inTurn \in BOOLEAN

Init ==
    /\ row = [b \in Bookings |-> NoRow]
    /\ coupon = [enabled |-> TRUE, kind |-> "PERCENT"]
    /\ changes = 0
    /\ inTurn = TRUE

Exists(b) == row[b].status # "absent"

-----------------------------------------------------------------------------
(* The tier.                                                               *)

\* Its year, or 0 from October to March.
Season(t) == IF Month[Day(t)] \in 3..8 THEN Year[Day(t)] ELSE 0

SameClient(c, d) ==
    \/ c.member # NoValue /\ c.member = d.member
    \/ c.email # NoValue /\ c.email = d.email

\* Cancelled, or refunded in full by its status.
Void(r) == r.cancelled \/ r.status \in {"cancelled", "refunded"}

\* Paid and not void: a partly refunded row counts as long as it is captured.
Counts(r) == ~Void(r) /\ (r.captured \/ r.status = "paid")

\* Among some reservations that count, the client's uses of that season.
Uses(rows, among, client, start) ==
    {c \in among :
        /\ SameClient(rows[c].client, client)
        /\ Season(start) # 0 => Season(rows[c].start) = Season(start)}

MUTANT_Tier(rows, earlier, client, start) ==
    IF Season(start) # 0 /\ Cardinality(Uses(rows, earlier, client, start)) > MaxFull
    THEN "degraded" ELSE "full"

Tier(rows, earlier, client, start) ==
    IF Season(start) # 0 /\ Cardinality(Uses(rows, earlier, client, start)) >= MaxFull
    THEN "degraded" ELSE "full"

\* What counts and comes before: by slot, then by creation.
Earlier(rows, b) ==
    {c \in Bookings :
        /\ Counts(rows[c])
        /\ \/ rows[c].start < rows[b].start
           \/ rows[c].start = rows[b].start /\ c < b}

\* The API compares the slot with the days of the coupon's validity, at midnight.
Valid(start) ==
    coupon.enabled /\ Midnight(From) <= start /\ start <= Midnight(Until)

\* The tier of a slot and a client: the uses before the place the reservation
\* has in the rows read, which a move has not written yet.
Charged(rows, b, client, start) ==
    IF Valid(start) THEN Tier(rows, Earlier(rows, b), client, start) ELSE "none"

-----------------------------------------------------------------------------
(* The tier as the administration's screens see it.                        *)

\* resolveReservationStatus: refunds go before a cancellation, and that before the
\* status of the row.
ShownStatus(r) ==
    CASE r.status \in {"partly", "refunded"}      -> r.status
      [] r.status \notin {"partly", "refunded"} /\ r.refunds # "none" -> r.refunds
      [] OTHER -> IF r.cancelled THEN "cancelled" ELSE r.status

\* The payment the administration reads: the row's only of what it shows neither
\* cancelled nor refunded, else the one its JSON tells.
ShownCaptured(r) ==
    \/ r.captured /\ {r.status, ShownStatus(r)} \cap {"cancelled", "partly", "refunded"} = {}
    \/ r.told

\* Counts, of what the administration reads.
ShownCounts(r) == Counts([r EXCEPT !.status = ShownStatus(r), !.captured = ShownCaptured(r)])

Shown == {c \in Bookings : ShownCounts(row[c])}

\* The key of a client: the member's id, or else the e-mail.
KeyOf(c) ==
    IF c.member # NoValue THEN [Nobody EXCEPT !.member = c.member]
    ELSE [Nobody EXCEPT !.email = c.email]

\* isCouponActiveNow: the last day included.
Active(day) == coupon.enabled /\ From <= day /\ day <= Until

\* What has started by noon of the day, but the reservation itself.
ByNoon(b, start) == {c \in Shown \ {b} : row[c].start <= Noon(start)}

\* On that day, for a reservation that is created or edited, or listed.
QuoteTier(b, today) ==
    IF Active(today)
    THEN Tier(row, ByNoon(b, row[b].start), KeyOf(row[b].client), Noon(row[b].start))
    ELSE "none"

FinanceTier(b) == QuoteTier(b, Day(row[b].start))

MUTANT_UsageTier(b) ==
    Tier(row, {c \in Shown : row[c].start <= row[b].start},
         KeyOf(row[b].client), row[b].start)

\* The coupons page has no creation dates: ids order what starts together.
UsageTier(b) ==
    Tier(row, {c \in Shown : \/ row[c].start < row[b].start
                             \/ row[c].start = row[b].start /\ Rank[c] < Rank[b]},
         KeyOf(row[b].client), row[b].start)

-----------------------------------------------------------------------------
(* The amounts.                                                            *)

\* Math.round of the quotient of two natural numbers.
Rounded(n, d) == (2 * n + d) \div (2 * d)

Percent(amount, share) == Rounded(amount * share, 100)

AfterDiscount(amount, discount) == Percent(amount, 100 - discount)

AfterCoupon(amount, kind, off) ==
    IF kind = "PERCENT" THEN Percent(amount, 100 - off)
    ELSE IF off > amount THEN 0 ELSE amount - off

\* The API rounds each line.
ExtrasTotal(form) ==
    form.extras + Percent(form.rental, form.share) + Percent(form.rental, form.share2)

\* The screens round the sum.
ExtrasEuros(form) ==
    Rounded(100 * form.extras + form.rental * (form.share + form.share2), 100)

MUTANT_Price(form, kind, tier) ==
    AfterCoupon(AfterDiscount(form.rental + ExtrasTotal(form), form.discount),
                kind, Off[tier])

\* computeReservationTotalDueCents.
Price(form, kind, tier) ==
    AfterCoupon(AfterDiscount(form.rental, form.discount), kind, Off[tier])
        + AfterDiscount(ExtrasTotal(form), form.discount)

\* The wizard's price: without a coupon, the sum is rounded once.
Quote(form, kind, tier) ==
    IF tier = "none"
    THEN AfterDiscount(form.rental + ExtrasEuros(form), form.discount)
    ELSE AfterCoupon(AfterDiscount(form.rental, form.discount), kind, Off[tier])
             + AfterDiscount(ExtrasEuros(form), form.discount)

\* The season of the catalogue for the API, which knows no October.
SeasonCode(day) ==
    CASE Month[day] \in 5..8 -> "HAUTE"
      [] Month[day] \in 2..4 -> "MOYENNE"
      [] OTHER -> "BASSE"

\* And for the administration.
ListedSeasonCode(day) ==
    CASE Month[day] \in 5..8 -> "HAUTE"
      [] Month[day] \in (2..4) \cup {9} -> "MOYENNE"
      [] OTHER -> "BASSE"

-----------------------------------------------------------------------------
(* The operations on a reservation.                                        *)

Writes(b, r) ==
    /\ row' = [row EXCEPT ![b] = r]
    /\ UNCHANGED coupon

Changes == changes < MaxChanges /\ changes' = changes + 1

\* A row written, and priced as it then stands (syncComputedTotalDueCents).
Priced(b, r) ==
    [r EXCEPT !.tier = Charged([row EXCEPT ![b] = r], b, r.client, r.start)]

\* The client's other reservations count, and are before that day, or do not and are
\* not pending either.
IsNext(client, start) ==
    \A c \in Bookings :
        (row[c].status = "pending" \/ Counts(row[c])) /\ SameClient(row[c].client, client)
            => Counts(row[c]) /\ Day(row[c].start) < Day(start)

Create(b, start, client) ==
    /\ ~Exists(b)
    /\ \A c \in Bookings : Exists(c) <=> c < b
    /\ Writes(b, Priced(b, [NoRow EXCEPT !.status = "pending", !.start = start,
                                         !.client = client]))
    /\ inTurn' = (inTurn /\ IsNext(client, start))
    /\ UNCHANGED changes

\* Every confirmation mail prices again what is not captured.
Reprice(b) ==
    /\ Exists(b) /\ ~row[b].captured
    /\ Writes(b, Priced(b, row[b]))
    /\ UNCHANGED <<changes, inTurn>>

\* Another boat or another time.
ScheduleChanged(b, start, boat) == boat \/ start # row[b].start

\* Whether an edit may change the price of what is captured.
CatalogPricingChanged(b, moved, rental, extras) ==
    moved \/ extras \/ rental # row[b].rental

\* The price of a slot: computeBoatSlotCatalogEuros.
CatalogPrice(start) == SeasonCode(Day(start))

\* What the form of a reservation writes back: the status and the payment shown, into
\* the JSON too, which of a moved one comes from the row.
Saved(b, start, client, rental, moved) ==
    [row[b] EXCEPT !.start = start, !.client = client,
                   !.rental = IF moved THEN CatalogPrice(start) ELSE rental,
                   !.status = ShownStatus(row[b]),
                   !.captured = ShownCaptured(row[b]),
                   !.told = IF moved THEN @ ELSE ShownCaptured(row[b])]

\* A form is saved.  Moved, the rental is priced by the catalogue, else by the form.
Edit(b, start, client, rental, boat, extras) ==
    LET moved == ScheduleChanged(b, start, boat)
        new   == Saved(b, start, client, rental, moved)
    IN /\ Exists(b)
       /\ rental \in {row[b].rental, "typed"}
       /\ Changes
       /\ Writes(b, IF /\ new.captured
                       /\ ~(row[b].captured /\ CatalogPricingChanged(b, moved, rental, extras))
                    THEN new ELSE Priced(b, new))
       /\ inTurn' = (inTurn /\ start = row[b].start /\ client = row[b].client)

\* applyCatalogPricingForSchedule, before the row is written: the tier is that of
\* the place the reservation leaves.
ScheduledElsewhere(b, start) ==
    [row[b] EXCEPT !.start = start, !.rental = CatalogPrice(start),
                   !.tier = Charged(row, b, row[b].client, start)]

Move(b, start) ==
    /\ Exists(b)
    /\ Changes
    /\ Writes(b, ScheduledElsewhere(b, start))
    /\ inTurn' = FALSE

\* Confirmed, for the first time or again: cancellation and refunds stay.
Pay(b) ==
    /\ Exists(b) /\ row[b].status # "paid"
    /\ Writes(b, [row[b] EXCEPT !.status = "paid", !.captured = TRUE])
    /\ inTurn' = (inTurn /\ (row[b].status = "pending" \/ row[b].cancelled \/ Counts(row[b])))
    /\ UNCHANGED changes

\* Settled by hand: the item is saved with no total.
Settle(b) ==
    /\ row[b].status = "pending"
    /\ Changes
    /\ Writes(b, [row[b] EXCEPT !.status = "paid", !.captured = TRUE, !.told = TRUE,
                                !.tier = "unset"])
    /\ UNCHANGED inTurn

Cancel(b) ==
    /\ Exists(b) /\ ~row[b].cancelled
    /\ Changes
    /\ Writes(b, [row[b] EXCEPT !.status = "cancelled", !.cancelled = TRUE])
    /\ UNCHANGED inTurn

\* All of it, or a part, of what is still to give back.
Refund(b, refunds, cancels) ==
    /\ row[b].captured /\ row[b].refunds # "refunded"
    /\ Changes
    /\ Writes(b, [row[b] EXCEPT !.status = refunds, !.refunds = refunds,
                                !.cancelled = @ \/ cancels])
    /\ UNCHANGED inTurn

\* Of what was not refunded, priced from the row read, which is still void.
Restore(b) ==
    /\ row[b].cancelled /\ row[b].refunds = "none"
    /\ Writes(b, [row[b] EXCEPT
                    !.status = IF row[b].captured THEN "paid" ELSE "pending",
                    !.cancelled = FALSE,
                    !.told = @ \/ row[b].captured,
                    !.tier = Charged(row, b, row[b].client, row[b].start)])
    /\ inTurn' = FALSE
    /\ UNCHANGED changes

EditCoupon ==
    /\ Changes
    /\ coupon' \in Coupon
    /\ UNCHANGED <<row, inTurn>>

Next ==
    \/ \E b \in Bookings :
        \/ \E start \in Starts, client \in Clients :
            \/ Create(b, start, client)
            \/ \E rental \in Seasons \cup {"typed"}, boat, extras \in BOOLEAN :
                   Edit(b, start, client, rental, boat, extras)
        \/ \E start \in Starts : Move(b, start)
        \/ Reprice(b)
        \/ Pay(b)
        \/ Settle(b)
        \/ Cancel(b)
        \/ \E refunds \in {"partly", "refunded"}, cancels \in BOOLEAN : Refund(b, refunds, cancels)
        \/ Restore(b)
    \/ EditCoupon

Spec == Init /\ [][Next]_vars

-----------------------------------------------------------------------------
(* Properties.                                                             *)

\* Of a client who books and pays one rental after the other, for later and later
\* days, the rentals past the first MaxFull of a season are not charged in full:
\* whatever is cancelled or refunded meanwhile, switched off or repriced, through
\* forms, mails and payments (syncComputedTotalDueCents).  Not so where a rental
\* refunded is confirmed again (confirmPaymentFromCheckoutSession looks at no refund)
\* and counts anew before those that took its place.
ExtraUseIsDegraded ==
    inTurn => \A b \in Bookings :
        Counts(row[b]) /\ row[b].tier = "full" /\ Season(row[b].start) # 0 =>
            Cardinality(Uses(row, Earlier(row, b), row[b].client, row[b].start)) < MaxFull

\* The key under which the screens look for a client finds what the API finds.
OneKey(b) ==
    \A c \in Bookings : SameClient(row[c].client, row[b].client) <=>
                        SameClient(row[c].client, KeyOf(row[b].client))

\* The client's other uses.
Others(b) ==
    {c \in Bookings \ {b} : Counts(row[c]) /\ SameClient(row[c].client, row[b].client)}

\* None of them was refunded, even in part: the API counts one refunded in part, or
\* confirmed again after its refund, and the screens do not.
Alike(b) == \A c \in Others(b) : row[c].refunds = "none"

Place(b) == Charged(row, b, row[b].client, row[b].start)

AloneThatDay(b) == \A c \in Others(b) : Day(row[c].start) # Day(row[b].start)

\* The coupons page and the finances page tell the tier the API would charge,
\* though they order the uses by other means and tell from the JSON which count,
\* wherever two uses of the client do not start together (coupons) or on one day
\* (finances) and no use of the client was refunded in part.
ScreensAgree ==
    \A b \in Bookings :
        Exists(b) /\ OneKey(b) /\ Alike(b) /\ Valid(row[b].start) =>
            /\ (\A c \in Others(b) : row[c].start # row[b].start) => UsageTier(b) = Place(b)
            /\ AloneThatDay(b) => FinanceTier(b) = Place(b)

\* With the price of the catalogue the administration or the API would fill in.
Listed(form, b) ==
    [form EXCEPT !.rental = IF row[b].rental = "typed" THEN @
                            ELSE Rates[ListedSeasonCode(Day(row[b].start))]]

Catalogued(form, b) ==
    [form EXCEPT !.rental = IF row[b].rental = "typed" THEN @ ELSE Rates[row[b].rental]]

\* How many extras priced by the rental a form has.
Shares(form) == Cardinality({f \in {"share", "share2"} : form[f] # 0})

\* Two amounts that differ by roundings alone.
Near(m, n, shares) == m - n <= 1 + shares \div 2 /\ n - m <= 1 + shares \div 2

\* The price the wizard shows is the one the API charges, up to a cent for the
\* rounding of the sum and one for two extras priced by the rental: the wizard
\* works in euros, with the coupon's validity of the day it is opened, its own
\* catalogue and its own tier; where no other use of the client was refunded.
QuoteNearPrice ==
    \A b \in Bookings :
        /\ row[b].status = "pending"
        /\ OneKey(b) /\ Alike(b) /\ AloneThatDay(b) /\ Valid(row[b].start)
        /\ row[b].rental # "typed" => Month[Day(row[b].start)] # 9
        => \A today \in {d \in SlotDays : Active(d)} :
               LET quoted == QuoteTier(b, today)
                   place  == Place(b)
               IN \A form \in Forms :
                      Near(Quote(Listed(form, b), coupon.kind, quoted),
                           Price(Catalogued(form, b), coupon.kind, place),
                           Shares(form))

-----------------------------------------------------------------------------
(* What the code's comments say and the code does not do.                  *)

\* "La 4e utilisation de la saison recoit le palier degrade", in any order of
\* bookings, payments, confirmations repeated, restorations and moves.
EveryExtraUseIsDegraded ==
    \A b \in Bookings :
        Counts(row[b]) /\ row[b].tier = "full" /\ Season(row[b].start) # 0 =>
            Cardinality(Uses(row, Earlier(row, b), row[b].client, row[b].start)) < MaxFull

\* A move is charged the tier of the slot it moves to.
MoveIsPricedThere ==
    [][ \A b \in Bookings, start \in Starts :
          Move(b, start) => row'[b].tier = Charged(row', b, row[b].client, start) ]_vars
================================================================================
