---------------------------- MODULE PricingProofs ----------------------------
(***************************************************************************)
(* Proofs about Pricing, for every set of reservations, clients, slots and *)
(* forms, and every coupon; then about Booking, which keeps the stock of   *)
(* an extra and the journal of that coupon's uses.                         *)
(*                                                                         *)
(* That a rental past the quota is not charged in full, while clients book *)
(* and pay one rental after the other, rests on a stronger fact: a pending *)
(* reservation is its client's last one (PendingIsLast), so that a payment *)
(* adds no use before a reservation already priced; and on what the fields *)
(* of a row have to do with each other (SoundRow), so that a form written  *)
(* back makes no row count that did not.                                   *)
(***************************************************************************)
EXTENDS Pricing, Booking, FiniteSetTheorems, TLAPS

Live(b) == row[b].status = "pending" \/ Counts(row[b])

\* What is told or pending, cancelled or refunded is so by the other fields too.
SoundRow(r) ==
    /\ r.told => r.captured
    /\ r.captured => r.status \notin {"absent", "pending"}
    /\ r.status = "cancelled" => r.cancelled
    /\ r.status = "partly" => r.refunds # "none"
    /\ r.status = "refunded" => r.refunds = "refunded"

RowsAreSound == \A b \in Bookings : SoundRow(row[b])

\* The uses before a reservation.
Before(rows, b) == Uses(rows, Earlier(rows, b), rows[b].client, rows[b].start)

Few(rows, b) ==
    rows[b].tier = "full" /\ Season(rows[b].start) # 0 =>
        Cardinality(Before(rows, b)) < MaxFull

FullIsFew == \A b \in Bookings : Live(b) => Few(row, b)

PendingIsLast ==
    \A b, c \in Bookings :
        b # c /\ row[b].status = "pending" /\ Live(c)
              /\ SameClient(row[c].client, row[b].client)
            => Counts(row[c]) /\ Day(row[c].start) < Day(row[b].start)

IInv == TypeOK /\ RowsAreSound /\ (inTurn => FullIsFew /\ PendingIsLast)

-----------------------------------------------------------------------------
(* Types.                                                                  *)

\* The row of a reservation not booked yet is a row.
LEMMA NoRowIsARow == NoRow \in Row
  <1>1. (CHOOSE t \in Starts : TRUE) \in Starts
    BY PricingAssumption
  <1> QED  BY <1>1 DEF NoRow, Row, Statuses

\* What the quota leaves is a tier.
LEMMA ChargedIsATier ==
  ASSUME NEW rows, NEW b, NEW client, NEW start
  PROVE  Charged(rows, b, client, start) \in Tiers
  BY DEF Charged, Tier, Tiers

\* The rental the catalogue has for a day is one of the seasons.
LEMMA CatalogPriceIsASeason ==
  ASSUME NEW start  PROVE CatalogPrice(start) \in Seasons
  BY DEF CatalogPrice, SeasonCode, Seasons

\* A row as it is priced is a row, and differs in its tier only.
LEMMA PricedIsARow ==
  ASSUME NEW b, NEW r \in Row
  PROVE  /\ Priced(b, r) \in Row
         /\ Priced(b, r).start = r.start /\ Priced(b, r).client = r.client
         /\ Priced(b, r).rental = r.rental /\ Priced(b, r).status = r.status
         /\ Counts(Priced(b, r)) <=> Counts(r)
         /\ SoundRow(r) => SoundRow(Priced(b, r))
  <1> DEFINE p == Priced(b, r)
  <1>1. /\ p \in Row
        /\ p.start = r.start /\ p.client = r.client /\ p.rental = r.rental
        /\ p.status = r.status /\ p.captured = r.captured /\ p.told = r.told
        /\ p.cancelled = r.cancelled /\ p.refunds = r.refunds
    BY ChargedIsATier DEF Priced, Row
  <1> HIDE DEF p
  <1>2. (Counts(p) <=> Counts(r)) /\ (SoundRow(r) => SoundRow(p))
    BY <1>1 DEF Counts, Void, SoundRow
  <1> QED  BY <1>1, <1>2 DEF p

\* What is shown of a row is a status and a payment, and the payment is one of the row.
LEMMA ShownTyped ==
  ASSUME NEW r \in Row
  PROVE  /\ ShownStatus(r) \in Statuses /\ ShownCaptured(r) \in BOOLEAN
         /\ ShownStatus(r) \in {r.status, r.refunds, "cancelled"}
         /\ (r.told => r.captured) /\ ShownCaptured(r) => r.captured
  <1>1. /\ r.status \in Statuses /\ r.refunds \in {"none", "partly", "refunded"}
        /\ r.captured \in BOOLEAN /\ r.told \in BOOLEAN
    BY DEF Row
  <1> QED  BY <1>1 DEF ShownStatus, ShownCaptured, Statuses

\* A form written back keeps the place and the client it is given and the tier, and
\* makes no row pending or count that was not and did not.
LEMMA SavedIsARow ==
  ASSUME TypeOK, NEW b \in Bookings, NEW start \in Starts, NEW client \in Clients,
         NEW rental \in Seasons \cup {"typed"}, NEW moved \in BOOLEAN
  PROVE  LET new == Saved(b, start, client, rental, moved)
         IN /\ new \in Row
            /\ new.start = start /\ new.client = client /\ new.tier = row[b].tier
            /\ new.rental = IF moved THEN CatalogPrice(start) ELSE rental
            /\ SoundRow(row[b]) =>
                  /\ SoundRow(new)
                  /\ new.status = "pending" => row[b].status = "pending"
                  /\ Counts(new) => Counts(row[b])
  <1> DEFINE new == Saved(b, start, client, rental, moved)
             r   == row[b]
             s   == ShownStatus(r)
             k   == ShownCaptured(r)
             told == IF moved THEN r.told ELSE k
  <1>1. r \in Row
    BY DEF TypeOK
  <1>2. /\ s \in Statuses /\ k \in BOOLEAN
        /\ (r.told => r.captured) /\ k => r.captured
    BY <1>1, ShownTyped
  <1>3. r.told \in BOOLEAN /\ r.captured \in BOOLEAN /\ told \in BOOLEAN
    BY <1>1, <1>2 DEF Row
  <1>4. CatalogPrice(start) \in Seasons
    BY CatalogPriceIsASeason
  <1>5. new = [r EXCEPT !.start = start, !.client = client,
                        !.rental = IF moved THEN CatalogPrice(start) ELSE rental,
                        !.status = s, !.captured = k, !.told = told]
    BY <1>1 DEF Saved, Row
  <1>6. s = CASE r.status \in {"partly", "refunded"} -> r.status
              [] r.status \notin {"partly", "refunded"} /\ r.refunds # "none" -> r.refunds
              [] OTHER -> IF r.cancelled THEN "cancelled" ELSE r.status
    BY DEF ShownStatus
  <1>7. k <=> \/ r.captured /\ {r.status, s} \cap {"cancelled", "partly", "refunded"} = {}
              \/ r.told
    BY DEF ShownCaptured
  <1>8. told => k
    BY <1>7
  <1> HIDE DEF s, k, told
  <1>9. /\ new \in Row
        /\ new.start = start /\ new.client = client /\ new.tier = r.tier
        /\ new.rental = IF moved THEN CatalogPrice(start) ELSE rental
        /\ new.status = s /\ new.captured = k /\ new.told = told
        /\ new.cancelled = r.cancelled /\ new.refunds = r.refunds
    BY <1>1, <1>2, <1>3, <1>4, <1>5 DEF Row
  <1> HIDE DEF new
  <1>10. r.status \in Statuses /\ r.refunds \in {"none", "partly", "refunded"}
            /\ r.cancelled \in BOOLEAN
    BY <1>1 DEF Row
  <1>11. ASSUME SoundRow(r)
         PROVE  /\ SoundRow(new)
                /\ new.status = "pending" => r.status = "pending"
                /\ Counts(new) => Counts(r)
    <2>1. /\ r.told => r.captured
          /\ r.captured => r.status \notin {"absent", "pending"}
          /\ r.status = "cancelled" => r.cancelled
          /\ r.status = "partly" => r.refunds # "none"
          /\ r.status = "refunded" => r.refunds = "refunded"
      BY <1>11 DEF SoundRow
    <2>2. k => r.captured
      BY <1>2, <2>1
    <2>3. s = "pending" => r.status = "pending"
      BY <1>6, <1>10
    <2>4. s = "absent" => r.status = "absent"
      BY <1>6, <1>10
    <2>5. s = "cancelled" => r.cancelled
      BY <1>6, <1>10, <2>1
    <2>6. /\ s = "partly" => r.refunds # "none"
          /\ s = "refunded" => r.refunds = "refunded"
      BY <1>6, <1>10, <2>1
    <2>7. SoundRow(new)
      BY <1>8, <1>9, <2>1, <2>2, <2>3, <2>4, <2>5, <2>6 DEF SoundRow
    <2>8. s = "paid" => r.status = "paid"
      BY <1>6, <1>10
    <2>9. r.status = "refunded" => s = "refunded"
      BY <1>6
    <2>10. Counts(new) => Counts(r)
      BY <1>9, <2>1, <2>2, <2>8, <2>9 DEF Counts, Void
    <2> QED  BY <1>9, <2>3, <2>7, <2>10
  <1> QED  BY <1>9, <1>11 DEF new, r

\* What a payment, a settlement, a cancellation and a refund write: a row in its place,
\* of its client and its price, not pending, that counts if it did or was pending, or
\* else the client no longer books in turn.
LEMMA InPlaceRows ==
  ASSUME TypeOK, NEW b \in Bookings,
         \/ Pay(b) \/ Settle(b) \/ Cancel(b)
         \/ \E refunds \in {"partly", "refunded"}, cancels \in BOOLEAN :
                Refund(b, refunds, cancels)
  PROVE  \E r \in Row :
            /\ Writes(b, r)
            /\ r.start = row[b].start /\ r.client = row[b].client
            /\ r.rental = row[b].rental
            /\ r.status # "pending"
            /\ r.tier = "full" => row[b].tier = "full"
            /\ SoundRow(row[b]) => SoundRow(r)
            /\ SoundRow(row[b]) /\ inTurn' /\ Counts(r) =>
                   row[b].status = "pending" \/ Counts(row[b])
  <1>1. row[b] \in Row
    BY DEF TypeOK
  <1>2. CASE Pay(b)
    <2> DEFINE r == [row[b] EXCEPT !.status = "paid", !.captured = TRUE]
    <2>1. /\ r \in Row /\ r.status = "paid" /\ r.captured = TRUE
          /\ r.start = row[b].start /\ r.client = row[b].client /\ r.rental = row[b].rental
          /\ r.tier = row[b].tier /\ r.told = row[b].told
          /\ r.cancelled = row[b].cancelled /\ r.refunds = row[b].refunds
      BY <1>1 DEF Row, Statuses
    <2>2. Writes(b, r)
      BY <1>2 DEF Pay
    <2>3. inTurn' => row[b].status = "pending" \/ row[b].cancelled \/ Counts(row[b])
      BY <1>2 DEF Pay
    <2> HIDE DEF r
    <2>4. SoundRow(r)
      BY <2>1 DEF SoundRow
    <2>5. row[b].cancelled => ~Counts(r)
      BY <2>1 DEF Counts, Void
    <2> QED  BY <2>1, <2>2, <2>3, <2>4, <2>5
  <1>3. CASE Settle(b)
    <2> DEFINE r == [row[b] EXCEPT !.status = "paid", !.captured = TRUE, !.told = TRUE,
                                   !.tier = "unset"]
    <2>1. /\ r \in Row /\ r.status = "paid" /\ r.captured = TRUE
          /\ r.start = row[b].start /\ r.client = row[b].client /\ r.rental = row[b].rental
          /\ r.tier = "unset"
      BY <1>1 DEF Row, Statuses, Tiers
    <2>2. Writes(b, r) /\ row[b].status = "pending"
      BY <1>3 DEF Settle
    <2> HIDE DEF r
    <2>3. SoundRow(r)
      BY <2>1 DEF SoundRow
    <2> QED  BY <2>1, <2>2, <2>3
  <1>4. CASE Cancel(b)
    <2> DEFINE r == [row[b] EXCEPT !.status = "cancelled", !.cancelled = TRUE]
    <2>1. /\ r \in Row /\ r.status = "cancelled" /\ r.cancelled = TRUE
          /\ r.start = row[b].start /\ r.client = row[b].client /\ r.rental = row[b].rental
          /\ r.tier = row[b].tier /\ r.told = row[b].told /\ r.captured = row[b].captured
      BY <1>1 DEF Row, Statuses
    <2>2. Writes(b, r)
      BY <1>4 DEF Cancel
    <2> HIDE DEF r
    <2>3. SoundRow(row[b]) => SoundRow(r)
      BY <2>1 DEF SoundRow
    <2>4. ~Counts(r)
      BY <2>1 DEF Counts, Void
    <2> QED  BY <2>1, <2>2, <2>3, <2>4
  <1>5. ASSUME NEW refunds \in {"partly", "refunded"}, NEW cancels \in BOOLEAN,
               Refund(b, refunds, cancels)
        PROVE  \E r \in Row :
                  /\ Writes(b, r)
                  /\ r.start = row[b].start /\ r.client = row[b].client
                  /\ r.rental = row[b].rental
                  /\ r.status # "pending"
                  /\ r.tier = "full" => row[b].tier = "full"
                  /\ SoundRow(row[b]) => SoundRow(r)
                  /\ SoundRow(row[b]) /\ inTurn' /\ Counts(r) =>
                         row[b].status = "pending" \/ Counts(row[b])
    <2>1. row[b].cancelled \in BOOLEAN
      BY <1>1 DEF Row
    <2>2. PICK gone \in BOOLEAN : gone = (row[b].cancelled \/ cancels)
      OBVIOUS
    <2> DEFINE r == [row[b] EXCEPT !.status = refunds, !.refunds = refunds,
                                   !.cancelled = gone]
    <2>3. /\ r \in Row /\ r.status = refunds /\ r.refunds = refunds /\ r.cancelled = gone
          /\ r.start = row[b].start /\ r.client = row[b].client /\ r.rental = row[b].rental
          /\ r.tier = row[b].tier /\ r.told = row[b].told /\ r.captured = row[b].captured
      BY <1>1 DEF Row, Statuses
    <2>4. Writes(b, r) /\ row[b].captured /\ row[b].refunds # "refunded"
      BY <1>1, <1>5, <2>2 DEF Refund, Row
    <2> HIDE DEF r
    <2>5. SoundRow(row[b]) => SoundRow(r)
      BY <2>3, <2>4 DEF SoundRow
    <2>6. SoundRow(row[b]) /\ Counts(r) => Counts(row[b])
      BY <2>2, <2>3, <2>4 DEF SoundRow, Counts, Void
    <2> QED  BY <2>3, <2>4, <2>5, <2>6
  <1> QED  BY <1>2, <1>3, <1>4, <1>5

\* A restoration writes a row, with the price of the rental that it had.
LEMMA RestoredIsARow ==
  ASSUME TypeOK, NEW b \in Bookings, Restore(b)
  PROVE  \E r \in Row : /\ Writes(b, r) /\ (SoundRow(row[b]) => SoundRow(r))
                        /\ r.rental = row[b].rental /\ r.start = row[b].start
  <1>1. row[b] \in Row
    BY DEF TypeOK
  <1>2. PICK status \in {"paid", "pending"} :
            status = IF row[b].captured THEN "paid" ELSE "pending"
    OBVIOUS
  <1>3. row[b].told \in BOOLEAN /\ row[b].captured \in BOOLEAN
    BY <1>1 DEF Row
  <1>4. PICK told \in BOOLEAN : told = (row[b].told \/ row[b].captured)
    OBVIOUS
  <1>5. PICK tier \in Tiers : tier = Charged(row, b, row[b].client, row[b].start)
    BY ChargedIsATier
  <1> DEFINE r == [row[b] EXCEPT !.status = status, !.cancelled = FALSE, !.told = told,
                                 !.tier = tier]
  <1>6. /\ r \in Row /\ r.status = status /\ r.told = told /\ r.captured = row[b].captured
        /\ r.rental = row[b].rental /\ r.start = row[b].start
    BY <1>1 DEF Row, Statuses
  <1>7. Writes(b, r)
    BY <1>1, <1>2, <1>4, <1>5 DEF Restore, Row
  <1> HIDE DEF r
  <1>8. SoundRow(row[b]) => SoundRow(r)
    BY <1>2, <1>4, <1>6, <1>7 DEF SoundRow
  <1> QED  BY <1>6, <1>7, <1>8

\* A step that writes a row keeps the types.
LEMMA WriteTyped ==
  ASSUME TypeOK, NEW b \in Bookings, NEW r \in Row, Writes(b, r),
         changes' \in 0..MaxChanges, inTurn' \in BOOLEAN
  PROVE  TypeOK'
  BY DEF TypeOK, Writes

\* The changes counted stay within their bound.
LEMMA ChangeTyped ==
  ASSUME TypeOK, Changes  PROVE changes' \in 0..MaxChanges
  BY PricingAssumption DEF TypeOK, Changes

\* The types at the start.
LEMMA InitTyped == Init => TypeOK
  BY NoRowIsARow, PricingAssumption DEF Init, TypeOK, Coupon

\* Every step keeps the types.
LEMMA NextTyped == TypeOK /\ [Next]_vars => TypeOK'
  <1> SUFFICES ASSUME TypeOK, [Next]_vars PROVE TypeOK'
    OBVIOUS
  <1>1. \A b \in Bookings : row[b] \in Row
    BY DEF TypeOK
  <1>2. inTurn \in BOOLEAN /\ changes \in 0..MaxChanges
    BY DEF TypeOK
  <1>3. ASSUME NEW b \in Bookings, NEW start \in Starts, NEW client \in Clients,
               Create(b, start, client)
        PROVE  TypeOK'
    <2> DEFINE r == [NoRow EXCEPT !.status = "pending", !.start = start, !.client = client]
    <2>1. r \in Row
      BY NoRowIsARow DEF Row, Statuses
    <2> HIDE DEF r
    <2>2. Writes(b, Priced(b, r))
      BY <1>3 DEF Create, r
    <2>3. inTurn' \in BOOLEAN /\ changes' = changes
      BY <1>2, <1>3 DEF Create
    <2> QED  BY <1>2, <2>1, <2>2, <2>3, PricedIsARow, WriteTyped
  <1>4. ASSUME NEW b \in Bookings, Reprice(b)  PROVE TypeOK'
    BY <1>1, <1>2, <1>4, PricedIsARow, WriteTyped DEF Reprice
  <1>5. ASSUME NEW b \in Bookings, NEW start \in Starts, NEW client \in Clients,
               NEW rental \in Seasons \cup {"typed"},
               NEW boat \in BOOLEAN, NEW extras \in BOOLEAN,
               Edit(b, start, client, rental, boat, extras)
        PROVE  TypeOK'
    <2> DEFINE moved == ScheduleChanged(b, start, boat)
               new == Saved(b, start, client, rental, moved)
    <2>0. moved \in BOOLEAN
      BY DEF ScheduleChanged
    <2>2. Writes(b, new) \/ Writes(b, Priced(b, new))
      BY <1>5 DEF Edit
    <2> HIDE DEF moved
    <2>1. new \in Row
      BY <2>0, SavedIsARow
    <2> HIDE DEF new
    <2>3. inTurn' \in BOOLEAN /\ Changes
      BY <1>2, <1>5 DEF Edit
    <2> QED  BY <2>1, <2>2, <2>3, PricedIsARow, WriteTyped, ChangeTyped
  <1>6. ASSUME NEW b \in Bookings, NEW start \in Starts, Move(b, start)  PROVE TypeOK'
    <2> DEFINE new == ScheduledElsewhere(b, start)
    <2>1. new \in Row
      BY <1>1, CatalogPriceIsASeason, ChargedIsATier DEF Row, ScheduledElsewhere
    <2> HIDE DEF new
    <2>2. Writes(b, new) /\ inTurn' = FALSE /\ Changes
      BY <1>6 DEF Move, new
    <2> QED  BY <2>1, <2>2, WriteTyped, ChangeTyped
  <1>7. ASSUME NEW b \in Bookings,
               \/ Pay(b) \/ Settle(b) \/ Cancel(b)
               \/ \E refunds \in {"partly", "refunded"}, cancels \in BOOLEAN :
                      Refund(b, refunds, cancels)
        PROVE  TypeOK'
    <2>1. PICK r \in Row : Writes(b, r)
      BY <1>7, InPlaceRows
    <2>2. inTurn' \in BOOLEAN /\ (changes' = changes \/ Changes)
      BY <1>2, <1>7 DEF Pay, Settle, Cancel, Refund
    <2> QED  BY <1>2, <2>1, <2>2, WriteTyped, ChangeTyped
  <1>8. ASSUME NEW b \in Bookings, Restore(b)  PROVE TypeOK'
    <2>1. PICK r \in Row : Writes(b, r)
      BY <1>8, RestoredIsARow
    <2>2. inTurn' = FALSE /\ UNCHANGED changes
      BY <1>8 DEF Restore
    <2> QED  BY <1>2, <2>1, <2>2, WriteTyped
  <1>9. ASSUME EditCoupon  PROVE TypeOK'
    BY <1>9, ChangeTyped DEF EditCoupon, TypeOK
  <1>10. ASSUME UNCHANGED vars  PROVE TypeOK'
    BY <1>10 DEF vars, TypeOK
  <1> QED  BY <1>3, <1>4, <1>5, <1>6, <1>7, <1>8, <1>9, <1>10 DEF Next

\* Whatever is booked, edited, moved, paid, cancelled and restored, rows and
\* coupon keep their types.
THEOREM TypeCorrect == Spec => []TypeOK
  BY InitTyped, NextTyped, PTL DEF Spec

-----------------------------------------------------------------------------
(* The quota.                                                              *)

\* The uses before a reservation do not become more if it keeps its place and its
\* client, and whatever counts before it counted already where it was.
LEMMA NoMoreBefore ==
  ASSUME NEW old, NEW new, NEW b \in Bookings,
         new[b].start = old[b].start, new[b].client = old[b].client,
         \A c \in Bookings :
            /\ c \in Earlier(new, b)
            /\ SameClient(new[c].client, new[b].client)
            => Counts(old[c]) /\ new[c].start = old[c].start
                              /\ new[c].client = old[c].client
  PROVE  Cardinality(Before(new, b)) <= Cardinality(Before(old, b))
  <1>1. Before(new, b) \subseteq Before(old, b)
    BY DEF Before, Uses, Earlier
  <1>2. Before(old, b) \subseteq Bookings
    BY DEF Before, Uses, Earlier
  <1>3. IsFiniteSet(Before(old, b))
    BY <1>2, PricingAssumption, FS_Subset
  <1> QED  BY <1>1, <1>3, FS_Subset

\* The uses before a reservation are finitely many.
LEMMA BeforeIsFinite ==
  ASSUME NEW rows, NEW b  PROVE Cardinality(Before(rows, b)) \in Nat
  <1>1. Before(rows, b) \subseteq Bookings
    BY DEF Before, Uses, Earlier
  <1>2. IsFiniteSet(Before(rows, b))
    BY <1>1, PricingAssumption, FS_Subset
  <1> QED  BY <1>2, FS_CardinalityType

\* A reservation stays in order when no use comes before it anew.
LEMMA FewStays ==
  ASSUME NEW old, NEW new, NEW b \in Bookings, Few(old, b),
         new[b].start = old[b].start, new[b].client = old[b].client,
         new[b].tier = "full" => old[b].tier = "full",
         \A c \in Bookings :
            /\ c \in Earlier(new, b)
            /\ SameClient(new[c].client, new[b].client)
            => Counts(old[c]) /\ new[c].start = old[c].start
                              /\ new[c].client = old[c].client
  PROVE  Few(new, b)
  <1>1. Cardinality(Before(new, b)) <= Cardinality(Before(old, b))
    BY NoMoreBefore
  <1>2. Cardinality(Before(new, b)) \in Nat /\ Cardinality(Before(old, b)) \in Nat
    BY BeforeIsFinite
  <1> QED  BY <1>1, <1>2, PricingAssumption DEF Few

\* A reservation is not before itself.
LEMMA NotEarlierThanItself ==
  ASSUME NEW rows, NEW b \in Bookings, rows[b].start \in Nat
  PROVE  b \notin Earlier(rows, b)
  <1>1. b \in Nat
    BY PricingAssumption
  <1> QED  BY <1>1 DEF Earlier

\* The API's price is in full only if few uses are before.
LEMMA PricedIsFew ==
  ASSUME TypeOK, NEW b \in Bookings, NEW r \in Row, Writes(b, Priced(b, r))
  PROVE  Few(row', b)
  <1> DEFINE old == [row EXCEPT ![b] = r]
  <1>1. row' = [row EXCEPT ![b] = Priced(b, r)]
    BY DEF Writes
  <1>2. /\ row'[b] = Priced(b, r)
        /\ old[b] = r
        /\ \A c \in Bookings \ {b} : row'[c] = old[c]
    BY <1>1 DEF TypeOK
  <1>3. /\ row'[b].start = r.start /\ row'[b].client = r.client
        /\ row'[b].tier = Charged(old, b, r.client, r.start)
    BY <1>2 DEF Priced, Row
  <1> HIDE DEF old
  <1>4. SUFFICES ASSUME row'[b].tier = "full", Season(r.start) # 0
                 PROVE  Cardinality(Before(row', b)) < MaxFull
    BY <1>3 DEF Few
  <1>5. ~(Cardinality(Before(old, b)) >= MaxFull)
    BY <1>2, <1>3, <1>4 DEF Charged, Tier, Before
  <1>6. r.start \in Nat
    BY PricingAssumption DEF Row
  <1>7. \A c \in Bookings : c \in Earlier(row', b) => c # b /\ Counts(row'[c])
    <2>1. b \notin Earlier(row', b)
      BY <1>3, <1>6, NotEarlierThanItself
    <2> QED  BY <2>1 DEF Earlier
  <1>8. Cardinality(Before(row', b)) <= Cardinality(Before(old, b))
    BY <1>2, <1>3, <1>7, NoMoreBefore
  <1> QED  BY <1>5, <1>8, BeforeIsFinite, PricingAssumption

\* Who is the same client is so either way.
LEMMA SameClientIsSymmetric ==
  ASSUME NEW c, NEW d  PROVE SameClient(c, d) <=> SameClient(d, c)
  BY DEF SameClient

\* A day later, it is not before.
LEMMA LaterIsNotEarlier ==
  ASSUME NEW rows, NEW b, NEW c, rows[b].start \in Nat, rows[c].start \in Nat,
         Day(rows[c].start) < Day(rows[b].start)
  PROVE  b \notin Earlier(rows, c)
  <1>1. \A x, y \in Nat : x \div 4 < y \div 4 => x < y
    OBVIOUS
  <1>2. rows[c].start < rows[b].start
    BY <1>1 DEF Day
  <1> QED  BY <1>2 DEF Earlier

\* The invariant at the start.
LEMMA InitHolds == Init => IInv
  <1>1. Init => TypeOK
    BY InitTyped
  <1>2. Init => RowsAreSound /\ FullIsFew /\ PendingIsLast
    BY DEF Init, NoRow, RowsAreSound, SoundRow, FullIsFew, PendingIsLast, Live, Counts
  <1> QED  BY <1>1, <1>2 DEF IInv

\* A write that keeps the place and the client of a reservation that is not made
\* pending, prices it in full only with few uses before, and lets it count only if
\* it counted or was pending.
LEMMA InPlaceHolds ==
  ASSUME TypeOK, RowsAreSound, FullIsFew, PendingIsLast, NEW b \in Bookings, NEW r \in Row,
         Writes(b, r), r.start = row[b].start, r.client = row[b].client,
         r.status = "pending" => row[b].status = "pending",
         Counts(r) => row[b].status = "pending" \/ Counts(row[b]),
         Few(row', b) \/ (r.tier = "full" => row[b].tier = "full")
  PROVE  FullIsFew' /\ PendingIsLast'
  <1>1. /\ row' = [row EXCEPT ![b] = r]
        /\ row'[b] = r
        /\ \A c \in Bookings \ {b} : row'[c] = row[c]
    BY DEF Writes, TypeOK
  <1>2. \A c \in Bookings : row[c].start \in Nat
    BY PricingAssumption DEF TypeOK, Row
  <1>3. \A c \in Bookings : row'[c].start = row[c].start /\ row'[c].client = row[c].client
    BY <1>1
  <1>4. \A c \in Bookings : Live(c)' => Live(c)
    BY <1>1 DEF Live
  <1>5. ASSUME NEW m \in Bookings, Live(m)'  PROVE Few(row', m)
    <2>1. CASE m = b /\ Few(row', b)
      BY <2>1
    <2>2. CASE ~(m = b /\ Few(row', b))
      <3>1. row'[m].tier = "full" => row[m].tier = "full"
        BY <1>1, <1>5, <2>2 DEF Live
      <3>2. Few(row, m)
        BY <1>4, <1>5 DEF FullIsFew
      <3>3. ASSUME NEW c \in Bookings, c \in Earlier(row', m),
                   SameClient(row'[c].client, row'[m].client)
            PROVE  Counts(row[c])
        <4>0. Counts(row'[c])
          BY <3>3 DEF Earlier
        <4>1. CASE row[c].status = "pending"
          <5>1. c # m
            BY <1>2, <1>3, <3>3, PricingAssumption DEF Earlier
          <5>2. Live(m) /\ SameClient(row[m].client, row[c].client)
            BY <1>3, <1>4, <1>5, <3>3, SameClientIsSymmetric
          <5>3. Day(row[m].start) < Day(row[c].start)
            BY <4>1, <5>1, <5>2 DEF PendingIsLast
          <5>4. c \notin Earlier(row', m)
            BY <1>2, <1>3, <5>3, LaterIsNotEarlier
          <5> QED  BY <3>3, <5>4
        <4>2. CASE row[c].status # "pending"
          BY <1>1, <4>0, <4>2
        <4> QED  BY <4>1, <4>2
      <3> QED  BY <1>3, <3>1, <3>2, <3>3, FewStays
    <2> QED  BY <2>1, <2>2
  <1>6. FullIsFew'
    BY <1>5 DEF FullIsFew
  <1>7. PendingIsLast'
    <2> SUFFICES ASSUME NEW p \in Bookings, NEW c \in Bookings, p # c,
                        row'[p].status = "pending", Live(c)',
                        SameClient(row'[c].client, row'[p].client)
                 PROVE  Counts(row'[c]) /\ Day(row'[c].start) < Day(row'[p].start)
      BY DEF PendingIsLast
    <2>1. row[p].status = "pending"
      BY <1>1
    <2>2. Live(c) /\ SameClient(row[c].client, row[p].client)
      BY <1>3, <1>4
    <2>3. Counts(row[c]) /\ Day(row[c].start) < Day(row[p].start)
      BY <2>1, <2>2 DEF PendingIsLast
    <2>4. row[c].status # "pending"
      <3>1. row[c].captured => row[c].status # "pending"
        BY DEF RowsAreSound, SoundRow
      <3> QED  BY <2>3, <3>1 DEF Counts
    <2>5. Counts(row'[c])
      BY <1>1, <2>4 DEF Live
    <2> QED  BY <1>3, <2>3, <2>5
  <1> QED  BY <1>6, <1>7

\* A creation in turn: the new reservation is its client's last.
LEMMA CreateHolds ==
  ASSUME TypeOK, RowsAreSound, FullIsFew, PendingIsLast, NEW b \in Bookings, NEW start \in Starts,
         NEW client \in Clients, Create(b, start, client), IsNext(client, start)
  PROVE  FullIsFew' /\ PendingIsLast'
  <1> DEFINE r == [NoRow EXCEPT !.status = "pending", !.start = start, !.client = client]
  <1>1. r \in Row /\ r.status = "pending" /\ r.start = start /\ r.client = client
    BY NoRowIsARow DEF Row, Statuses
  <1> HIDE DEF r
  <1>2. Writes(b, Priced(b, r)) /\ row[b].status = "absent"
    BY DEF Create, Exists, r
  <1>0. ~Counts(r)
    BY NoRowIsARow DEF r, NoRow, Row, Counts
  <1>3. /\ row'[b] = Priced(b, r)
        /\ \A c \in Bookings \ {b} : row'[c] = row[c]
    BY <1>2 DEF Writes, TypeOK
  <1>4. /\ row'[b].status = "pending" /\ row'[b].start = start /\ row'[b].client = client
        /\ ~Counts(row'[b])
    BY <1>0, <1>1, <1>3, PricedIsARow
  <1>5. ASSUME NEW m \in Bookings, Live(m)'  PROVE Few(row', m)
    <2>1. CASE m = b
      BY <1>1, <1>2, <2>1, PricedIsFew
    <2>2. CASE m # b
      <3>1. row'[m] = row[m] /\ Few(row, m)
        BY <1>3, <1>5, <2>2 DEF FullIsFew, Live
      <3>2. \A c \in Bookings : Counts(row'[c]) => row'[c] = row[c]
        BY <1>3, <1>4
      <3>3. \A c \in Bookings : c \in Earlier(row', m) =>
                Counts(row[c]) /\ row'[c].start = row[c].start
                               /\ row'[c].client = row[c].client
        BY <3>2 DEF Earlier
      <3>4. row'[m].start = row[m].start /\ row'[m].client = row[m].client
                /\ (row'[m].tier = "full" => row[m].tier = "full")
        BY <3>1
      <3> QED  BY <3>1, <3>3, <3>4, FewStays
    <2> QED  BY <2>1, <2>2
  <1>6. PendingIsLast'
    <2> SUFFICES ASSUME NEW p \in Bookings, NEW c \in Bookings, p # c,
                        row'[p].status = "pending", Live(c)',
                        SameClient(row'[c].client, row'[p].client)
                 PROVE  Counts(row'[c]) /\ Day(row'[c].start) < Day(row'[p].start)
      BY DEF PendingIsLast
    <2>1. CASE p = b
      BY <1>3, <1>4, <2>1 DEF IsNext, Live
    <2>2. CASE c = b
      <3>1. row'[p] = row[p] /\ SameClient(row[p].client, client)
        BY <1>3, <1>4, <2>2, SameClientIsSymmetric
      <3>2. row[p].status = "pending" => ~Counts(row[p])
        BY DEF RowsAreSound, SoundRow, Counts
      <3> QED  BY <3>1, <3>2 DEF IsNext
    <2>3. CASE p # b /\ c # b
      BY <1>3, <2>3 DEF PendingIsLast, Live
    <2> QED  BY <2>1, <2>2, <2>3
  <1>7. FullIsFew'
    BY <1>5 DEF FullIsFew
  <1> QED  BY <1>6, <1>7

\* A price worked out in place, on an existing reservation.
LEMMA RepriceHolds ==
  ASSUME TypeOK, RowsAreSound, FullIsFew, PendingIsLast, NEW b \in Bookings, NEW r \in Row,
         Writes(b, Priced(b, r)), r.start = row[b].start, r.client = row[b].client,
         r.status = "pending" => row[b].status = "pending",
         Counts(r) => row[b].status = "pending" \/ Counts(row[b])
  PROVE  FullIsFew' /\ PendingIsLast'
  <1> DEFINE p == Priced(b, r)
  <1>1. /\ p \in Row /\ p.start = r.start /\ p.client = r.client /\ p.status = r.status
        /\ Counts(p) <=> Counts(r)
    BY PricedIsARow
  <1>2. Few(row', b) /\ Writes(b, p)
    BY PricedIsFew
  <1> HIDE DEF p
  <1> QED  BY <1>1, <1>2, InPlaceHolds

\* A step that writes a sound row leaves the rows sound.
LEMMA WriteSound ==
  ASSUME TypeOK, RowsAreSound, NEW b \in Bookings, NEW r, Writes(b, r), SoundRow(r)
  PROVE  RowsAreSound'
  <1>1. \A c \in Bookings : row'[c] = IF c = b THEN r ELSE row[c]
    BY DEF Writes, TypeOK
  <1> QED  BY <1>1 DEF RowsAreSound

\* Every step leaves the rows sound.
LEMMA NextSound == TypeOK /\ RowsAreSound /\ [Next]_vars => RowsAreSound'
  <1> SUFFICES ASSUME TypeOK, RowsAreSound, [Next]_vars  PROVE RowsAreSound'
    OBVIOUS
  <1>1. \A b \in Bookings : row[b] \in Row /\ SoundRow(row[b])
    BY DEF TypeOK, RowsAreSound
  <1>2. ASSUME NEW b \in Bookings, NEW start \in Starts, NEW client \in Clients,
               Create(b, start, client)
        PROVE  RowsAreSound'
    <2> DEFINE r == [NoRow EXCEPT !.status = "pending", !.start = start, !.client = client]
    <2>1. r \in Row
      BY NoRowIsARow DEF Row, Statuses
    <2>2. SoundRow(r)
      BY NoRowIsARow DEF Row, NoRow, SoundRow
    <2>3. Writes(b, Priced(b, r))
      BY <1>2 DEF Create
    <2> HIDE DEF r
    <2> QED  BY <2>1, <2>2, <2>3, PricedIsARow, WriteSound
  <1>3. ASSUME NEW b \in Bookings, Reprice(b)  PROVE RowsAreSound'
    BY <1>1, <1>3, PricedIsARow, WriteSound DEF Reprice
  <1>4. ASSUME NEW b \in Bookings, NEW start \in Starts, NEW client \in Clients,
               NEW rental \in Seasons \cup {"typed"},
               NEW boat \in BOOLEAN, NEW extras \in BOOLEAN,
               Edit(b, start, client, rental, boat, extras)
        PROVE  RowsAreSound'
    <2> DEFINE moved == ScheduleChanged(b, start, boat)
               new == Saved(b, start, client, rental, moved)
    <2>1. moved \in BOOLEAN
      BY DEF ScheduleChanged
    <2>2. Writes(b, new) \/ Writes(b, Priced(b, new))
      BY <1>4 DEF Edit
    <2> HIDE DEF moved
    <2>3. new \in Row /\ SoundRow(new)
      BY <1>1, <2>1, SavedIsARow
    <2> HIDE DEF new
    <2> QED  BY <2>2, <2>3, PricedIsARow, WriteSound
  <1>5. ASSUME NEW b \in Bookings, NEW start \in Starts, Move(b, start)
        PROVE  RowsAreSound'
    <2> DEFINE new == ScheduledElsewhere(b, start)
    <2>1. /\ new.status = row[b].status /\ new.captured = row[b].captured
          /\ new.told = row[b].told /\ new.cancelled = row[b].cancelled
          /\ new.refunds = row[b].refunds
      BY <1>1 DEF Row, ScheduledElsewhere
    <2>2. Writes(b, new)
      BY <1>5 DEF Move
    <2> HIDE DEF new
    <2>3. SoundRow(new)
      BY <1>1, <2>1 DEF SoundRow
    <2> QED  BY <2>2, <2>3, WriteSound
  <1>6. ASSUME NEW b \in Bookings,
               \/ Pay(b) \/ Settle(b) \/ Cancel(b)
               \/ \E refunds \in {"partly", "refunded"}, cancels \in BOOLEAN :
                      Refund(b, refunds, cancels)
        PROVE  RowsAreSound'
    <2>1. PICK r \in Row : Writes(b, r) /\ (SoundRow(row[b]) => SoundRow(r))
      BY <1>6, InPlaceRows
    <2> QED  BY <1>1, <2>1, WriteSound
  <1>7. ASSUME NEW b \in Bookings, Restore(b)  PROVE RowsAreSound'
    <2>1. PICK r \in Row : Writes(b, r) /\ (SoundRow(row[b]) => SoundRow(r))
      BY <1>7, RestoredIsARow
    <2> QED  BY <1>1, <2>1, WriteSound
  <1>8. ASSUME EditCoupon \/ UNCHANGED vars  PROVE RowsAreSound'
    BY <1>8 DEF EditCoupon, vars, RowsAreSound
  <1> QED  BY <1>2, <1>3, <1>4, <1>5, <1>6, <1>7, <1>8 DEF Next

\* Every step keeps the invariant.
LEMMA NextHolds == IInv /\ [Next]_vars => IInv'
  <1> SUFFICES ASSUME IInv, [Next]_vars, inTurn'
               PROVE  FullIsFew' /\ PendingIsLast'
    BY NextTyped, NextSound DEF IInv
  <1>1. /\ TypeOK /\ RowsAreSound /\ inTurn \in BOOLEAN
        /\ \A b \in Bookings : row[b] \in Row /\ SoundRow(row[b])
    BY DEF IInv, TypeOK, RowsAreSound
  <1>2. inTurn => FullIsFew /\ PendingIsLast
    BY DEF IInv
  <1>3. ASSUME NEW b \in Bookings, NEW start \in Starts, NEW client \in Clients,
               Create(b, start, client)
        PROVE  FullIsFew' /\ PendingIsLast'
    <2>1. inTurn /\ IsNext(client, start)
      BY <1>3 DEF Create
    <2> QED  BY <1>1, <1>2, <1>3, <2>1, CreateHolds
  <1>4. ASSUME NEW b \in Bookings, Reprice(b)  PROVE FullIsFew' /\ PendingIsLast'
    <2>1. inTurn /\ Writes(b, Priced(b, row[b]))
      BY <1>4 DEF Reprice
    <2> QED  BY <1>1, <1>2, <2>1, RepriceHolds
  <1>5. ASSUME NEW b \in Bookings, NEW start \in Starts, NEW client \in Clients,
               NEW rental \in Seasons \cup {"typed"},
               NEW boat \in BOOLEAN, NEW extras \in BOOLEAN,
               Edit(b, start, client, rental, boat, extras)
        PROVE  FullIsFew' /\ PendingIsLast'
    <2> DEFINE moved == ScheduleChanged(b, start, boat)
               new == Saved(b, start, client, rental, moved)
    <2>1. moved \in BOOLEAN
      BY DEF ScheduleChanged
    <2>2. Writes(b, new) \/ Writes(b, Priced(b, new))
      BY <1>5 DEF Edit
    <2> HIDE DEF moved
    <2>3. /\ new \in Row /\ new.tier = row[b].tier
          /\ new.start = start /\ new.client = client
          /\ new.status = "pending" => row[b].status = "pending"
          /\ Counts(new) => Counts(row[b])
      BY <1>1, <2>1, SavedIsARow
    <2> HIDE DEF new
    <2>4. inTurn /\ start = row[b].start /\ client = row[b].client
      BY <1>5 DEF Edit
    <2>5. CASE Writes(b, new)
      BY <1>1, <1>2, <2>3, <2>4, <2>5, InPlaceHolds
    <2>6. CASE Writes(b, Priced(b, new))
      BY <1>1, <1>2, <2>3, <2>4, <2>6, RepriceHolds
    <2> QED  BY <2>2, <2>5, <2>6
  <1>6. ASSUME NEW b \in Bookings, NEW start \in Starts, Move(b, start)
        PROVE  FALSE
    BY <1>6 DEF Move
  <1>7. ASSUME NEW b \in Bookings,
               \/ Pay(b) \/ Settle(b) \/ Cancel(b)
               \/ \E refunds \in {"partly", "refunded"}, cancels \in BOOLEAN :
                      Refund(b, refunds, cancels)
        PROVE  FullIsFew' /\ PendingIsLast'
    <2>1. PICK r \in Row :
            /\ Writes(b, r)
            /\ r.start = row[b].start /\ r.client = row[b].client
            /\ r.status # "pending"
            /\ r.tier = "full" => row[b].tier = "full"
            /\ SoundRow(row[b]) /\ inTurn' /\ Counts(r) =>
                   row[b].status = "pending" \/ Counts(row[b])
      BY <1>7, <1>1, InPlaceRows
    <2>2. inTurn
      BY <1>7 DEF Pay, Settle, Cancel, Refund
    <2>3. Counts(r) => row[b].status = "pending" \/ Counts(row[b])
      BY <1>1, <2>1
    <2> QED  BY <1>1, <1>2, <2>1, <2>2, <2>3, InPlaceHolds
  <1>8. ASSUME NEW b \in Bookings, Restore(b)  PROVE FALSE
    BY <1>8 DEF Restore
  <1>9. ASSUME EditCoupon \/ UNCHANGED vars  PROVE FullIsFew' /\ PendingIsLast'
    <2>1. row' = row /\ inTurn' = inTurn
      BY <1>9 DEF EditCoupon, vars
    <2> QED  BY <1>2, <2>1 DEF FullIsFew, PendingIsLast, Few, Live, Before, Uses,
                              Earlier
  <1> QED  BY <1>3, <1>4, <1>5, <1>6, <1>7, <1>8, <1>9 DEF Next

\* A client who books and pays in turn is not charged in full past the quota, for
\* any number of reservations, clients, slots and cancellations.
THEOREM QuotaIsKept == Spec => []ExtraUseIsDegraded
  <1>1. IInv => ExtraUseIsDegraded
    BY DEF IInv, FullIsFew, Few, Before, Live, ExtraUseIsDegraded
  <1> QED  BY <1>1, InitHolds, NextHolds, PTL DEF Spec

-----------------------------------------------------------------------------
(* The amounts.                                                            *)

\* The quotient Rounded is the nearest whole number.
LEMMA RoundedBounds ==
  \A n \in Nat :
      /\ Rounded(n, 100) \in Nat
      /\ 200 * Rounded(n, 100) <= 2 * n + 100
      /\ 2 * n + 100 < 200 * Rounded(n, 100) + 200
  BY DEF Rounded

\* Quotients of numbers less than 100 apart are a unit apart at most.
LEMMA RoundedNear ==
  ASSUME NEW x \in Nat, NEW y \in Nat, x <= y, y <= x + 100
  PROVE  Rounded(y, 100) - Rounded(x, 100) \in {0, 1}
  <1> DEFINE a == Rounded(x, 100)
             b == Rounded(y, 100)
  <1>1. /\ a \in Nat /\ 200 * a <= 2 * x + 100 /\ 2 * x + 100 < 200 * a + 200
        /\ b \in Nat /\ 200 * b <= 2 * y + 100 /\ 2 * y + 100 < 200 * b + 200
    BY RoundedBounds
  <1> HIDE DEF a, b
  <1>2. b < a + 2 /\ a < b + 1
    BY <1>1
  <1>3. b - a \in {0, 1}
    BY <1>1, <1>2
  <1> QED  BY <1>3 DEF a, b

\* Rounding the sum or the terms: a cent.
LEMMA SumRoundedOnce ==
  ASSUME NEW x \in Nat, NEW y \in Nat
  PROVE  Rounded(x + y, 100) - (Rounded(x, 100) + Rounded(y, 100)) \in {-1, 0, 1}
  <1> DEFINE a == Rounded(x, 100)
             b == Rounded(y, 100)
             c == Rounded(x + y, 100)
  <1>1. /\ a \in Nat /\ 200 * a <= 2 * x + 100 /\ 2 * x + 100 < 200 * a + 200
        /\ b \in Nat /\ 200 * b <= 2 * y + 100 /\ 2 * y + 100 < 200 * b + 200
    BY RoundedBounds
  <1>2. x + y \in Nat
    OBVIOUS
  <1>3. /\ c \in Nat /\ 200 * c <= 2 * (x + y) + 100
        /\ 2 * (x + y) + 100 < 200 * c + 200
    BY <1>2, RoundedBounds
  <1> HIDE DEF a, b, c
  <1>4. c < a + b + 2 /\ a + b < c + 2
    BY <1>1, <1>3
  <1>5. c - (a + b) \in {-1, 0, 1}
    BY <1>1, <1>3, <1>4
  <1> QED  BY <1>5 DEF a, b, c

\* A discount of amounts a cent apart leaves them a cent apart at most.
LEMMA DiscountNear ==
  ASSUME NEW x \in Nat, NEW y \in Nat, NEW f \in 0..100, x - y \in {-1, 0, 1}
  PROVE  Rounded(x * f, 100) - Rounded(y * f, 100) \in {-1, 0, 1}
  <1>1. x * f \in Nat /\ y * f \in Nat /\ f \in Nat /\ f <= 100
    OBVIOUS
  <1>2. /\ Rounded(x * f, 100) \in Nat
        /\ Rounded(y * f, 100) \in Nat
    BY <1>1, RoundedBounds
  <1>3. CASE x = y
    BY <1>2, <1>3
  <1>4. CASE x = y + 1
    <2>1. x * f = y * f + f
      BY <1>4
    <2>2. y * f <= x * f /\ x * f <= y * f + 100
      BY <1>1, <2>1
    <2> QED  BY <1>1, <1>2, <2>2, RoundedNear
  <1>5. CASE y = x + 1
    <2>1. y * f = x * f + f
      BY <1>5
    <2>2. x * f <= y * f /\ y * f <= x * f + 100
      BY <1>1, <2>1
    <2>3. Rounded(y * f, 100) - Rounded(x * f, 100) \in {0, 1}
      BY <1>1, <2>2, RoundedNear
    <2> QED  BY <1>2, <2>3
  <1>6. x = y \/ x = y + 1 \/ y = x + 1
    OBVIOUS
  <1> QED  BY <1>3, <1>4, <1>5, <1>6

\* Whole cents come out of a rounding.
LEMMA CentsComeOut ==
  ASSUME NEW x \in Nat, NEW n \in Nat
  PROVE  Rounded(100 * x + n, 100) = x + Rounded(n, 100)
  <1> DEFINE a == Rounded(n, 100)
             b == Rounded(100 * x + n, 100)
  <1>1. a \in Nat /\ 200 * a <= 2 * n + 100 /\ 2 * n + 100 < 200 * a + 200
    BY RoundedBounds
  <1>2. 100 * x + n \in Nat
    OBVIOUS
  <1>3. /\ b \in Nat /\ 200 * b <= 2 * (100 * x + n) + 100
        /\ 2 * (100 * x + n) + 100 < 200 * b + 200
    BY <1>2, RoundedBounds
  <1> HIDE DEF a, b
  <1>4. b < x + a + 1 /\ x + a < b + 1
    BY <1>1, <1>3
  <1>5. b = x + a
    BY <1>1, <1>3, <1>4
  <1> QED  BY <1>5 DEF a, b

\* The extras of a form: the API's sum and the screens' are a cent apart, and the
\* same if at most one extra is priced by the rental.
LEMMA ExtrasNear ==
  ASSUME NEW form \in Form
  PROVE  /\ ExtrasTotal(form) \in Nat /\ ExtrasEuros(form) \in Nat
         /\ ExtrasEuros(form) - ExtrasTotal(form) \in {-1, 0, 1}
         /\ form.share = 0 \/ form.share2 = 0 => ExtrasEuros(form) = ExtrasTotal(form)
  <1> DEFINE x == form.extras
             a == form.rental * form.share
             b == form.rental * form.share2
  <1>1. x \in Nat /\ form.rental \in Nat /\ form.share \in Nat /\ form.share2 \in Nat
    BY DEF Form
  <1>2. a \in Nat /\ b \in Nat
            /\ form.rental * (form.share + form.share2) = a + b
    BY <1>1
  <1>3. ExtrasTotal(form) = x + Rounded(a, 100) + Rounded(b, 100)
    BY DEF ExtrasTotal, Percent
  <1>4. ExtrasEuros(form) = Rounded(100 * x + (a + b), 100)
    BY <1>2 DEF ExtrasEuros
  <1>5. (form.share = 0 => a = 0) /\ (form.share2 = 0 => b = 0)
    BY <1>1
  <1> HIDE DEF x, a, b
  <1>6. a + b \in Nat
    BY <1>2
  <1>7. ExtrasEuros(form) = x + Rounded(a + b, 100)
    BY ZenonT(30), <1>1, <1>4, <1>6, CentsComeOut DEF x
  <1>8. /\ Rounded(a, 100) \in Nat
        /\ Rounded(b, 100) \in Nat
        /\ Rounded(a + b, 100) \in Nat
    BY <1>2, <1>6, RoundedBounds
  <1>9. Rounded(a + b, 100) - (Rounded(a, 100) + Rounded(b, 100)) \in {-1, 0, 1}
    BY <1>2, SumRoundedOnce
  <1>10. Rounded(0, 100) = 0
    BY DEF Rounded
  <1>11. x \in Nat
    BY <1>1 DEF x
  <1>12. ExtrasEuros(form) - ExtrasTotal(form) \in {-1, 0, 1}
    BY <1>3, <1>7, <1>8, <1>9, <1>11
  <1>13. ASSUME a = 0 \/ b = 0
         PROVE  Rounded(a + b, 100) = Rounded(a, 100) + Rounded(b, 100)
    BY <1>2, <1>8, <1>10, <1>13
  <1> QED  BY <1>3, <1>5, <1>7, <1>8, <1>11, <1>12, <1>13

\* No coupon takes nothing off.
LEMMA NothingOff ==
  ASSUME NEW n \in Nat, NEW kind  PROVE AfterCoupon(n, kind, 0) = n
  <1>1. Rounded(n * 100, 100) = n
    <2> DEFINE a == Rounded(n * 100, 100)
    <2>1. n * 100 \in Nat
      OBVIOUS
    <2>2. /\ a \in Nat /\ 200 * a <= 2 * (n * 100) + 100
          /\ 2 * (n * 100) + 100 < 200 * a + 200
      BY <2>1, RoundedBounds
    <2> HIDE DEF a
    <2>3. a = n
      BY <2>2
    <2> QED  BY <2>3 DEF a
  <1>2. 100 - 0 = 100 /\ ~(0 > n) /\ n - 0 = n
    OBVIOUS
  <1> QED  BY <1>1, <1>2 DEF AfterCoupon, Percent

\* A coupon takes nothing below zero.
LEMMA CouponLeaves ==
  ASSUME NEW n \in Nat, NEW kind, NEW off \in Nat, kind = "PERCENT" => off <= 100
  PROVE  AfterCoupon(n, kind, off) \in Nat
  <1>1. CASE kind = "PERCENT"
    <2>1. 100 - off \in Nat
      BY <1>1
    <2>2. n * (100 - off) \in Nat
      BY <2>1
    <2> QED  BY <1>1, <2>2, RoundedBounds DEF AfterCoupon, Percent
  <1>2. CASE kind # "PERCENT"
    BY <1>2 DEF AfterCoupon
  <1> QED  BY <1>1, <1>2

\* Two shares that are both there are two roundings.
LEMMA SharesOfTwo ==
  ASSUME NEW form
  PROVE  /\ Shares(form) \in Nat
         /\ form.share # 0 /\ form.share2 # 0 => Shares(form) = 2
  <1> DEFINE F == {f \in {"share", "share2"} : form[f] # 0}
  <1>1. IsFiniteSet({"share"}) /\ Cardinality({"share"}) = 1
    BY FS_Singleton
  <1>2. IsFiniteSet({"share"} \cup {"share2"}) /\ Cardinality({"share"} \cup {"share2"}) = 2
    BY <1>1, FS_AddElement
  <1>3. F \in SUBSET ({"share"} \cup {"share2"})
    OBVIOUS
  <1>4. IsFiniteSet(F)
    BY <1>2, <1>3, FS_Subset
  <1>5. Cardinality(F) \in Nat
    BY <1>4, FS_CardinalityType
  <1>6. form.share # 0 /\ form.share2 # 0 => F = {"share"} \cup {"share2"}
    OBVIOUS
  <1> QED  BY <1>2, <1>5, <1>6 DEF Shares

\* For a tier that both apply, the wizard's price and the API's differ by a cent for
\* the rounding of the sum and one for two extras priced by the rental, whatever the
\* prices, the discount and the coupon.
THEOREM RoundingsOnly ==
  ASSUME NEW form \in Form, NEW kind, NEW tier \in Tiers,
         kind = "PERCENT" => Off[tier] <= 100
  PROVE  Near(Quote(form, kind, tier), Price(form, kind, tier), Shares(form))
  <1> DEFINE f  == 100 - form.discount
             E  == ExtrasTotal(form)
             E2 == ExtrasEuros(form)
             R  == Rounded(form.rental * f, 100)
             p  == Rounded(E * f, 100)
             q  == Rounded(E2 * f, 100)
  <1>1. f \in 0..100 /\ form.rental \in Nat
    BY DEF Form
  <1>2. /\ E \in Nat /\ E2 \in Nat /\ E2 - E \in {-1, 0, 1}
        /\ form.share = 0 \/ form.share2 = 0 => E2 = E
    BY ExtrasNear
  <1>3. /\ AfterDiscount(form.rental, form.discount) = R
        /\ AfterDiscount(E, form.discount) = p
        /\ AfterDiscount(E2, form.discount) = q
        /\ AfterDiscount(form.rental + E2, form.discount) =
              Rounded((form.rental + E2) * f, 100)
    BY DEF AfterDiscount, Percent
  <1> HIDE DEF f, E, E2
  <1>4. form.rental * f \in Nat /\ E * f \in Nat /\ E2 * f \in Nat
    BY <1>1, <1>2
  <1>5. R \in Nat /\ p \in Nat /\ q \in Nat
    BY <1>4, RoundedBounds
  <1>6. q - p \in {-1, 0, 1}
    BY ZenonT(30), <1>1, <1>2, DiscountNear
  <1>7. form.share = 0 \/ form.share2 = 0 => q = p
    BY <1>2
  <1>8. Rounded((form.rental + E2) * f, 100) - (R + q) \in {-1, 0, 1}
    <2>1. \A x, y, z \in Nat : (x + y) * z = x * z + y * z
      OBVIOUS
    <2>2. f \in Nat
      BY <1>1
    <2>3. (form.rental + E2) * f = form.rental * f + E2 * f
      BY <1>1, <1>2, <2>1, <2>2
    <2> QED  BY <1>4, <2>3, SumRoundedOnce DEF R, q
  <1>9. (form.rental + E2) * f \in Nat
    BY <1>1, <1>2
  <1>10. Rounded((form.rental + E2) * f, 100) \in Nat
    BY <1>9, RoundedBounds
  <1>11. /\ Shares(form) \in Nat
         /\ form.share # 0 /\ form.share2 # 0 => Shares(form) = 2
    BY SharesOfTwo
  <1>12. /\ Shares(form) \div 2 \in Nat
         /\ Shares(form) = 2 => Shares(form) \div 2 = 1
    BY <1>11
  <1> HIDE DEF R, p, q
  <1>13. CASE tier = "none"
    <2>1. Quote(form, kind, tier) = Rounded((form.rental + E2) * f, 100)
      BY <1>3, <1>13 DEF Quote, E2
    <2>2. Price(form, kind, tier) = R + p
      BY <1>3, <1>5, <1>13, NothingOff, PricingAssumption DEF Price, E
    <2> DEFINE d == Rounded((form.rental + E2) * f, 100)
    <2>3. d \in Nat /\ d - (R + q) \in {-1, 0, 1}
      BY <1>8, <1>10
    <2> HIDE DEF d
    <2>4. Near(d, R + p, Shares(form))
      BY <1>5, <1>6, <1>7, <1>11, <1>12, <2>3 DEF Near
    <2> QED  BY <2>1, <2>2, <2>4 DEF d
  <1>14. CASE tier # "none"
    <2> DEFINE N == AfterCoupon(R, kind, Off[tier])
    <2>1. Off[tier] \in Nat
      BY PricingAssumption
    <2>2. N \in Nat
      BY <1>5, <2>1, CouponLeaves
    <2>3. Quote(form, kind, tier) = N + q /\ Price(form, kind, tier) = N + p
      BY <1>3, <1>14 DEF Quote, Price, E, E2
    <2> HIDE DEF N
    <2>4. Near(N + q, N + p, Shares(form))
      BY <1>5, <1>6, <1>12, <2>2 DEF Near
    <2> QED  BY <2>3, <2>4
  <1> QED  BY <1>13, <1>14

-----------------------------------------------------------------------------
(* The screens' tier.                                                      *)

\* An instant and the noon of its day have the same day.
LEMMA DaysOfInstants ==
  /\ \A t \in Nat : Noon(t) \in Nat /\ Day(t) \in Nat /\ Day(Noon(t)) = Day(t)
  /\ \A s, t \in Nat : Day(s) # Day(t) => (s <= Noon(t) <=> s < t)
  <1>1. ASSUME NEW t \in Nat
        PROVE  Noon(t) \in Nat /\ Day(t) \in Nat /\ Day(Noon(t)) = Day(t)
    <2>1. t \div 4 \in Nat
      OBVIOUS
    <2>2. \A n \in Nat : (4 * n + 2) \div 4 = n
      OBVIOUS
    <2> QED  BY <2>1, <2>2 DEF Noon, Day
  <1>2. ASSUME NEW s \in Nat, NEW t \in Nat, Day(s) # Day(t)
        PROVE  s <= Noon(t) <=> s < t
    <2> DEFINE m == s \div 4
               n == t \div 4
    <2>1. /\ m \in Nat /\ 4 * m <= s /\ s < 4 * m + 4
          /\ n \in Nat /\ 4 * n <= t /\ t < 4 * n + 4
      OBVIOUS
    <2>2. m # n /\ Noon(t) = 4 * n + 2
      BY <1>2 DEF Day, Noon
    <2> HIDE DEF m, n
    <2>3. s <= 4 * n + 2 <=> s < t
      BY <2>1, <2>2
    <2> QED  BY <2>2, <2>3
  <1> QED  BY <1>1, <1>2

\* In every state the rows are sound.
LEMMA SoundAlways == Spec => []RowsAreSound
  <1>1. Init => RowsAreSound
    BY InitHolds DEF IInv
  <1> QED  BY <1>1, TypeCorrect, NextSound, PTL DEF Spec

\* What the administration counts counts, and what counts is counted by the
\* administration if nothing of it was refunded.
LEMMA ShownAgree ==
  ASSUME NEW r \in Row, SoundRow(r)
  PROVE  /\ ShownCounts(r) => Counts(r)
         /\ Counts(r) /\ r.refunds = "none" => ShownCounts(r)
  <1> DEFINE s == ShownStatus(r)
             k == ShownCaptured(r)
             q == [r EXCEPT !.status = s, !.captured = k]
  <1>1. /\ r.status \in Statuses /\ r.refunds \in {"none", "partly", "refunded"}
        /\ r.captured \in BOOLEAN /\ r.told \in BOOLEAN /\ r.cancelled \in BOOLEAN
    BY DEF Row
  <1>2. q.status = s /\ q.captured = k /\ q.cancelled = r.cancelled
    BY DEF Row
  <1>3. /\ r.told => r.captured
        /\ r.status = "cancelled" => r.cancelled
        /\ r.status = "partly" => r.refunds # "none"
        /\ r.status = "refunded" => r.refunds = "refunded"
    BY DEF SoundRow
  <1>4. k => r.captured
    BY <1>3, ShownTyped
  <1>5. /\ s = "paid" => r.status = "paid"
        /\ r.status = "refunded" => s = "refunded"
        /\ r.refunds = "none" /\ ~r.cancelled => s = r.status
    BY <1>1, <1>3 DEF ShownStatus
  <1>6. r.captured /\ r.status \in {"absent", "pending", "paid"} /\ s = r.status => k
    BY DEF ShownCaptured
  <1>7. ShownCounts(r) <=> Counts(q)
    BY DEF ShownCounts
  <1> HIDE DEF s, k, q
  <1>8. Counts(q) => Counts(r)
    BY <1>2, <1>3, <1>4, <1>5 DEF Counts, Void
  <1>9. Counts(r) /\ r.refunds = "none" => Counts(q)
    BY <1>1, <1>2, <1>3, <1>5, <1>6 DEF Counts, Void, Statuses
  <1> QED  BY <1>7, <1>8, <1>9

\* Of the other uses of a client, none of them refunded, the administration counts all.
LEMMA OthersShown ==
  ASSUME TypeOK, RowsAreSound, NEW b \in Bookings, Alike(b)
  PROVE  /\ \A c \in Shown : Counts(row[c])
         /\ Others(b) \subseteq Shown
  <1>1. \A c \in Bookings : row[c] \in Row /\ SoundRow(row[c])
    BY DEF TypeOK, RowsAreSound
  <1>2. \A c \in Bookings :
            /\ ShownCounts(row[c]) => Counts(row[c])
            /\ Counts(row[c]) /\ row[c].refunds = "none" => ShownCounts(row[c])
    BY <1>1, ShownAgree
  <1> QED  BY <1>2 DEF Shown, Others, Alike

\* Another instant of the season, other means to order the reservations and the
\* key of the client give the tier the API charges, if they find the same other
\* uses before.
LEMMA SameTier ==
  ASSUME NEW b \in Bookings, OneKey(b), Valid(row[b].start),
         NEW among \in SUBSET (Bookings \ {b}), NEW start,
         \A c \in among : Counts(row[c]),
         b \notin Earlier(row, b),
         Season(start) = Season(row[b].start),
         \A c \in Others(b) : c \in among <=> c \in Earlier(row, b)
  PROVE  Tier(row, among, KeyOf(row[b].client), start) = Place(b)
  <1>1. \A c \in Bookings : SameClient(row[c].client, row[b].client) <=>
                            SameClient(row[c].client, KeyOf(row[b].client))
    BY DEF OneKey
  <1>2. Uses(row, among, KeyOf(row[b].client), start)
            \subseteq Uses(row, Earlier(row, b), row[b].client, row[b].start)
    BY <1>1 DEF Uses, Others
  <1>3. Earlier(row, b) \subseteq {c \in Bookings : Counts(row[c])}
    BY DEF Earlier
  <1>4. Uses(row, Earlier(row, b), row[b].client, row[b].start)
            \subseteq Uses(row, among, KeyOf(row[b].client), start)
    BY <1>1, <1>3 DEF Uses, Others
  <1>5. Uses(row, among, KeyOf(row[b].client), start)
            = Uses(row, Earlier(row, b), row[b].client, row[b].start)
    BY <1>2, <1>4
  <1> QED  BY <1>5 DEF Tier, Place, Charged

\* Not now, either.
LEMMA NotBeforeItself ==
  ASSUME TypeOK, NEW b \in Bookings
  PROVE  /\ row[b].start \in Nat
         /\ b \notin Earlier(row, b)
  <1>1. row[b].start \in Nat
    BY PricingAssumption DEF TypeOK, Row
  <1> QED  BY <1>1, NotEarlierThanItself

\* The coupons page.
LEMMA UsagePageAgrees ==
  ASSUME TypeOK, RowsAreSound, NEW b \in Bookings, OneKey(b), Alike(b), Valid(row[b].start),
         \A c \in Others(b) : row[c].start # row[b].start
  PROVE  UsageTier(b) = Place(b)
  <1> DEFINE among == {c \in Shown : \/ row[c].start < row[b].start
                                     \/ row[c].start = row[b].start /\ Rank[c] < Rank[b]}
  <1>1. among \in SUBSET (Bookings \ {b}) /\ \A c \in among : Counts(row[c])
    <2>1. Rank[b] \in Nat
      BY PricingAssumption
    <2>2. \A c \in Shown : c \in Bookings /\ Counts(row[c])
      BY OthersShown DEF Shown
    <2> QED  BY <2>1, <2>2, NotBeforeItself
  <1>2. \A c \in Others(b) : c \in among <=> c \in Earlier(row, b)
    <2>1. \A c \in Others(b) : c \in Shown /\ row[c].start # row[b].start
      BY OthersShown
    <2> QED  BY <2>1 DEF Others, Earlier
  <1> HIDE DEF among
  <1>3. Tier(row, among, KeyOf(row[b].client), row[b].start) = Place(b)
    BY <1>1, <1>2, NotBeforeItself, SameTier
  <1> QED  BY <1>3 DEF UsageTier, among

\* The wizard and the finances page, which order by noon of the day.
LEMMA QuotedTierAgrees ==
  ASSUME TypeOK, RowsAreSound, NEW b \in Bookings, OneKey(b), Alike(b),
         Valid(row[b].start), AloneThatDay(b),
         NEW now, Active(now)
  PROVE  QuoteTier(b, now) = Place(b)
  <1>1. \A c \in Bookings : row[c].start \in Nat
    BY PricingAssumption DEF TypeOK, Row
  <1>2. /\ ByNoon(b, row[b].start) \in SUBSET (Bookings \ {b})
        /\ \A c \in ByNoon(b, row[b].start) : Counts(row[c])
    <2>1. \A c \in Shown : c \in Bookings /\ Counts(row[c])
      BY OthersShown DEF Shown
    <2> QED  BY <2>1 DEF ByNoon
  <1>3. Season(Noon(row[b].start)) = Season(row[b].start)
    BY <1>1, DaysOfInstants DEF Season
  <1>4. ASSUME NEW c \in Others(b)
        PROVE  c \in ByNoon(b, row[b].start) <=> c \in Earlier(row, b)
    <2>1. /\ c \in Bookings \ {b} /\ Day(row[c].start) # Day(row[b].start)
          /\ c \in Shown /\ Counts(row[c])
      BY <1>4, OthersShown DEF Others, AloneThatDay
    <2>2. row[c].start <= Noon(row[b].start) <=> row[c].start < row[b].start
      BY <1>1, <2>1, DaysOfInstants
    <2>3. row[c].start # row[b].start
      BY <2>1
    <2> QED  BY <2>1, <2>2, <2>3 DEF ByNoon, Earlier
  <1>5. Tier(row, ByNoon(b, row[b].start), KeyOf(row[b].client), Noon(row[b].start))
            = Place(b)
    BY <1>2, <1>3, <1>4, NotBeforeItself, SameTier
  <1> QED  BY <1>5 DEF QuoteTier

\* The days on which a valid slot lies are days of the coupon's validity.
LEMMA ValidDayIsActive ==
  ASSUME NEW t \in Nat, Valid(t)  PROVE Active(Day(t))
  <1> DEFINE d == t \div 4
  <1>1. d \in Nat /\ 4 * d <= t /\ t < 4 * d + 4
    OBVIOUS
  <1>2. coupon.enabled /\ 4 * From <= t /\ t <= 4 * Until
    BY DEF Valid, Midnight
  <1> HIDE DEF d
  <1>3. From <= d /\ d <= Until
    BY <1>1, <1>2, PricingAssumption
  <1> QED  BY <1>2, <1>3 DEF Active, Day, d

\* In every state, the coupons page and the finances page show the tier the API
\* would charge, but for uses that start together or on one day and for the clients
\* one of whose uses was refunded in part.
THEOREM PagesAgree == Spec => []ScreensAgree
  <1>1. TypeOK /\ RowsAreSound => ScreensAgree
    <2> SUFFICES ASSUME TypeOK, RowsAreSound, NEW b \in Bookings, OneKey(b), Alike(b),
                        Valid(row[b].start)
                 PROVE  /\ (\A c \in Others(b) : row[c].start # row[b].start)
                               => UsageTier(b) = Place(b)
                        /\ AloneThatDay(b) => FinanceTier(b) = Place(b)
      BY DEF ScreensAgree
    <2>1. (\A c \in Others(b) : row[c].start # row[b].start) => UsageTier(b) = Place(b)
      BY UsagePageAgrees
    <2>2. Active(Day(row[b].start))
      BY NotBeforeItself, ValidDayIsActive
    <2>3. AloneThatDay(b) => FinanceTier(b) = Place(b)
      BY <2>2, QuotedTierAgrees DEF FinanceTier
    <2> QED  BY <2>1, <2>3
  <1> QED  BY <1>1, TypeCorrect, SoundAlways, PTL

-----------------------------------------------------------------------------
(* The wizard's price.                                                     *)

\* A price that was not typed is the one of the catalogue for the slot the
\* reservation has, not for one it had.
CatalogueFollows ==
    \A b \in Bookings :
        row[b].rental # "typed" => row[b].rental = CatalogPrice(row[b].start)

\* A row written from the catalogue follows it.
LEMMA CatalogueWritten ==
  ASSUME TypeOK, CatalogueFollows, NEW b \in Bookings, NEW r, Writes(b, r),
         r.rental # "typed" => r.rental = CatalogPrice(r.start)
  PROVE  CatalogueFollows'
  <1>1. \A c \in Bookings : row'[c] = IF c = b THEN r ELSE row[c]
    BY DEF Writes, TypeOK
  <1> QED  BY <1>1 DEF CatalogueFollows

\* The rows follow the catalogue at the start.
LEMMA InitCatalogue == Init => CatalogueFollows
  BY DEF Init, NoRow, CatalogueFollows

\* Every step keeps them so.
LEMMA NextCatalogue == TypeOK /\ CatalogueFollows /\ [Next]_vars => CatalogueFollows'
  <1> SUFFICES ASSUME TypeOK, CatalogueFollows, [Next]_vars  PROVE CatalogueFollows'
    OBVIOUS
  <1>1. \A b \in Bookings :
            row[b] \in Row /\ (row[b].rental # "typed" =>
                                  row[b].rental = CatalogPrice(row[b].start))
    BY DEF TypeOK, CatalogueFollows
  <1>2. ASSUME NEW b \in Bookings, NEW r \in Row
        PROVE  Priced(b, r).rental = r.rental /\ Priced(b, r).start = r.start
    BY DEF Priced, Row
  <1>3. ASSUME NEW b \in Bookings, NEW start \in Starts, NEW client \in Clients,
               Create(b, start, client)
        PROVE  CatalogueFollows'
    <2> DEFINE r == [NoRow EXCEPT !.status = "pending", !.start = start, !.client = client]
    <2>1. r \in Row /\ r.rental = "typed"
      BY NoRowIsARow DEF Row, Statuses, NoRow
    <2> HIDE DEF r
    <2>2. Writes(b, Priced(b, r))
      BY <1>3 DEF Create, r
    <2>3. Priced(b, r).rental = "typed"
      BY <1>2, <2>1
    <2> QED  BY <2>2, <2>3, CatalogueWritten
  <1>4. ASSUME NEW b \in Bookings, Reprice(b)  PROVE CatalogueFollows'
    <2>1. Writes(b, Priced(b, row[b]))
      BY <1>4 DEF Reprice
    <2>2. /\ Priced(b, row[b]).rental = row[b].rental
          /\ Priced(b, row[b]).start = row[b].start
      BY <1>1, <1>2
    <2> QED  BY <1>1, <2>1, <2>2, CatalogueWritten
  <1>5. ASSUME NEW b \in Bookings, NEW start \in Starts, NEW client \in Clients,
               NEW rental \in Seasons \cup {"typed"},
               NEW boat \in BOOLEAN, NEW extras \in BOOLEAN,
               Edit(b, start, client, rental, boat, extras)
        PROVE  CatalogueFollows'
    <2> DEFINE moved == ScheduleChanged(b, start, boat)
               new == Saved(b, start, client, rental, moved)
    <2>0. moved \in BOOLEAN
      BY DEF ScheduleChanged
    <2>3. ~moved => start = row[b].start
      BY DEF ScheduleChanged
    <2>4. rental \in {row[b].rental, "typed"}
      BY <1>5 DEF Edit
    <2>5. Writes(b, new) \/ Writes(b, Priced(b, new))
      BY <1>5 DEF Edit
    <2> HIDE DEF moved
    <2>1. /\ new \in Row /\ new.start = start
          /\ new.rental = IF moved THEN CatalogPrice(start) ELSE rental
      BY <2>0, SavedIsARow
    <2> HIDE DEF new
    <2>6. new.rental # "typed" => new.rental = CatalogPrice(new.start)
      BY <1>1, <2>1, <2>3, <2>4
    <2>7. Priced(b, new).rental = new.rental /\ Priced(b, new).start = new.start
      BY <1>2, <2>1
    <2> QED  BY <2>5, <2>6, <2>7, CatalogueWritten
  <1>6. ASSUME NEW b \in Bookings, NEW start \in Starts, Move(b, start)
        PROVE  CatalogueFollows'
    <2> DEFINE new == ScheduledElsewhere(b, start)
    <2>1. new.start = start /\ new.rental = CatalogPrice(start)
      BY <1>1 DEF Row, ScheduledElsewhere
    <2>2. Writes(b, new)
      BY <1>6 DEF Move
    <2> HIDE DEF new
    <2> QED  BY <2>1, <2>2, CatalogueWritten
  <1>7. ASSUME NEW b \in Bookings,
               \/ Pay(b) \/ Settle(b) \/ Cancel(b)
               \/ \E refunds \in {"partly", "refunded"}, cancels \in BOOLEAN :
                      Refund(b, refunds, cancels)
               \/ Restore(b)
        PROVE  CatalogueFollows'
    <2>1. PICK r \in Row :
              Writes(b, r) /\ r.rental = row[b].rental /\ r.start = row[b].start
      BY <1>7, InPlaceRows, RestoredIsARow
    <2> QED  BY <1>1, <2>1, CatalogueWritten
  <1>8. ASSUME EditCoupon \/ UNCHANGED vars  PROVE CatalogueFollows'
    BY <1>8 DEF EditCoupon, vars, CatalogueFollows
  <1> QED  BY <1>3, <1>4, <1>5, <1>6, <1>7, <1>8 DEF Next

\* The two catalogues are at odds in October only.
LEMMA OctoberApart ==
  ASSUME NEW day, Month[day] # 9  PROVE ListedSeasonCode(day) = SeasonCode(day)
  <1>1. Month[day] \in (2..4) \cup {9} <=> Month[day] \in 2..4
    OBVIOUS
  <1> QED  BY <1>1 DEF ListedSeasonCode, SeasonCode

\* A percentage off is one of a hundred.
PercentIsAShare ==
    coupon.kind = "PERCENT" => \A tier \in Tiers : Off[tier] <= 100

\* The wizard is near the price in every state of these invariants.
LEMMA QuoteHolds ==
  ASSUME TypeOK, RowsAreSound, CatalogueFollows, PercentIsAShare  PROVE QuoteNearPrice
  <1> SUFFICES ASSUME NEW b \in Bookings,
                      OneKey(b), Alike(b), AloneThatDay(b), Valid(row[b].start),
                      row[b].rental # "typed" => Month[Day(row[b].start)] # 9,
                      NEW now \in SlotDays, Active(now),
                      NEW form \in Forms
               PROVE  Near(Quote(Listed(form, b), coupon.kind, QuoteTier(b, now)),
                           Price(Catalogued(form, b), coupon.kind, Place(b)),
                           Shares(form))
    BY DEF QuoteNearPrice
  <1>1. QuoteTier(b, now) = Place(b)
    BY QuotedTierAgrees
  <1>2. Place(b) \in Tiers
    BY ChargedIsATier DEF Place
  <1>3. form \in Form
    BY PricingAssumption
  <1>4. row[b].rental # "typed" =>
            /\ row[b].rental = ListedSeasonCode(Day(row[b].start))
            /\ row[b].rental \in Seasons
    <2>1. SUFFICES ASSUME row[b].rental # "typed"
                   PROVE  /\ row[b].rental = ListedSeasonCode(Day(row[b].start))
                          /\ row[b].rental \in Seasons
      OBVIOUS
    <2>2. row[b].rental = SeasonCode(Day(row[b].start))
      BY <2>1 DEF CatalogueFollows, CatalogPrice
    <2>3. row[b].rental \in Seasons
      BY <2>1 DEF TypeOK, Row
    <2> QED  BY <2>1, <2>2, <2>3, OctoberApart
  <1>5. Listed(form, b) = Catalogued(form, b)
    BY <1>4 DEF Listed, Catalogued
  <1> DEFINE same == Catalogued(form, b)
  <1>6. same \in Form /\ same.share = form.share /\ same.share2 = form.share2
    <2>1. row[b].rental # "typed" => Rates[row[b].rental] \in Nat
      BY <1>4, PricingAssumption
    <2> QED  BY <1>3, <2>1 DEF Catalogued, Form
  <1>7. Shares(same) = Shares(form)
    <2>1. \A f \in {"share", "share2"} : same[f] = form[f]
      BY <1>6
    <2> HIDE DEF same
    <2>2. {f \in {"share", "share2"} : same[f] # 0} = {f \in {"share", "share2"} : form[f] # 0}
      BY <2>1
    <2> QED  BY <2>2 DEF Shares
  <1> HIDE DEF same
  <1>8. coupon.kind = "PERCENT" => Off[Place(b)] <= 100
    BY <1>2 DEF PercentIsAShare
  <1>9. Near(Quote(same, coupon.kind, Place(b)), Price(same, coupon.kind, Place(b)), Shares(same))
    BY <1>2, <1>6, <1>8, RoundingsOnly
  <1> QED  BY <1>1, <1>5, <1>7, <1>9 DEF same

\* The wizard, with its own catalogue, key, order of the uses and day, shows the
\* price the API charges but for the roundings, for every form and every coupon; not
\* for the clients one of whose other uses was refunded in part.
THEOREM WizardIsNearThePrice == Spec /\ []PercentIsAShare => []QuoteNearPrice
  <1>1. Spec => []CatalogueFollows
    <2>1. Spec => []TypeOK
      BY TypeCorrect
    <2> QED  BY <2>1, InitCatalogue, NextCatalogue, PTL DEF Spec
  <1> QED  BY <1>1, TypeCorrect, SoundAlways, QuoteHolds, PTL

-----------------------------------------------------------------------------
(* Sums.                                                                   *)

(***************************************************************************)
(* What is reserved of an extra is a fold, a recursive function on the     *)
(* sets of reservations and rentals. The provers apply no theorem of       *)
(* induction, for it has an operator for a parameter; here a family of     *)
(* counterexamples, which is a set, has a smallest member (SmallestSet).   *)
(***************************************************************************)

\* The element that the fold takes out of a set.
Pick(s) == CHOOSE x \in s : TRUE

\* What the fold computes on every subset of S.
IsSums(g, f, S) ==
    g = [s \in SUBSET S |-> IF s = {} THEN 0 ELSE f[Pick(s)] + g[s \ {Pick(s)}]]

Sums(f, S) == CHOOSE g : IsSums(g, f, S)

\* The fold of the community modules is that function.
LEMMA FoldIsSums ==
  ASSUME NEW f, NEW S
  PROVE  SumFunctionOnSet(f, S) = Sums(f, S)[S]
  BY DEF SumFunctionOnSet, FoldFunctionOnSet, MapThenFoldSet, Sums, IsSums, Pick

\* It takes out a member.
LEMMA PickIsIn == \A s : s # {} => Pick(s) \in s
  BY DEF Pick

\* Finite induction without an operator for a parameter: a family of finite
\* sets that is not empty has a smallest member.
LEMMA SmallestSet ==
  ASSUME NEW S, IsFiniteSet(S), NEW F \in SUBSET SUBSET S, F # {}
  PROVE  \E T \in F : \A U \in F : U \subseteq T => U = T
  <1>1. F \subseteq FiniteSubsetsOf(S)
    BY FS_Subset DEF FiniteSubsetsOf
  <1>2. PICK T \in F : \A U \in F : ~(<<U, T>> \in StrictSubsetOrdering(S))
    BY <1>1, FS_StrictSubsetOrderingWellFounded, WFMin
  <1>3. ASSUME NEW U \in F, U \subseteq T  PROVE U = T
    BY <1>2, <1>3 DEF StrictSubsetOrdering
  <1> QED  BY <1>2, <1>3

\* Two such functions agree on the sets that both are about.
LEMMA SumsAgree ==
  ASSUME NEW f, NEW S, IsFiniteSet(S), NEW T \in SUBSET S,
         NEW g, IsSums(g, f, S), NEW h, IsSums(h, f, T)
  PROVE  \A s \in SUBSET T : g[s] = h[s]
  <1> DEFINE F == {s \in SUBSET T : g[s] # h[s]}
  <1> SUFFICES ASSUME F # {}  PROVE FALSE
    OBVIOUS
  <1>1. PICK s \in F : \A u \in F : u \subseteq s => u = s
    <2>1. IsFiniteSet(T) /\ F \in SUBSET SUBSET T
      BY FS_Subset
    <2> HIDE DEF F
    <2> QED  BY <2>1, SmallestSet
  <1>2. s \in SUBSET T /\ s \in SUBSET S /\ g[s] # h[s]
    BY <1>1
  <1>3. \A u \in SUBSET s : u # s => g[u] = h[u]
    BY <1>1, <1>2
  <1>4. g[s] = IF s = {} THEN 0 ELSE f[Pick(s)] + g[s \ {Pick(s)}]
    BY <1>2 DEF IsSums
  <1>5. h[s] = IF s = {} THEN 0 ELSE f[Pick(s)] + h[s \ {Pick(s)}]
    BY <1>2 DEF IsSums
  <1>6. CASE s = {}
    BY <1>2, <1>4, <1>5, <1>6
  <1>7. CASE s # {}
    <2>1. Pick(s) \in s
      BY <1>7, PickIsIn
    <2>2. g[s \ {Pick(s)}] = h[s \ {Pick(s)}]
      BY <1>3, <2>1
    <2> QED  BY <1>2, <1>4, <1>5, <1>7, <2>2
  <1> QED  BY <1>6, <1>7

\* There is one for every finite set.
LEMMA SumsExist ==
  ASSUME NEW f, NEW S, IsFiniteSet(S)
  PROVE  \E g : IsSums(g, f, S)
  <1> DEFINE F == {T \in SUBSET S : ~ \E g : IsSums(g, f, T)}
  <1> SUFFICES ASSUME F # {}  PROVE FALSE
    OBVIOUS
  <1>1. PICK T \in F : \A u \in F : u \subseteq T => u = T
    <2>1. F \in SUBSET SUBSET S
      OBVIOUS
    <2> HIDE DEF F
    <2> QED  BY <2>1, SmallestSet
  <1>2. T \in SUBSET S /\ ~ \E g : IsSums(g, f, T)
    BY <1>1
  <1> DEFINE G(u) == CHOOSE g : IsSums(g, f, u)
  <1>3. \A u \in SUBSET T : u # T => IsSums(G(u), f, u)
    BY <1>1, <1>2
  <1> DEFINE rest(u) == u \ {Pick(u)}
             h == [s \in SUBSET T |-> IF s = {} THEN 0 ELSE f[Pick(s)] + G(rest(s))[rest(s)]]
  <1>4. \A u \in SUBSET T : u # {} => rest(u) \in SUBSET T /\ rest(u) # T /\ rest(u) \subseteq u
    BY PickIsIn
  <1>5. ASSUME NEW u \in SUBSET T, u # T  PROVE h[u] = G(u)[u]
    <2>1. h[u] = IF u = {} THEN 0 ELSE f[Pick(u)] + G(rest(u))[rest(u)]
      OBVIOUS
    <2>2. G(u)[u] = IF u = {} THEN 0 ELSE f[Pick(u)] + G(u)[rest(u)]
      <3> DEFINE a == G(u)
      <3>1. IsSums(a, f, u)
        BY <1>3, <1>5
      <3> HIDE DEF a
      <3>2. a[u] = IF u = {} THEN 0 ELSE f[Pick(u)] + a[rest(u)]
        BY <3>1 DEF IsSums
      <3> QED  BY <3>2 DEF a
    <2>3. u # {} => G(u)[rest(u)] = G(rest(u))[rest(u)]
      <3>1. SUFFICES ASSUME u # {}  PROVE G(u)[rest(u)] = G(rest(u))[rest(u)]
        OBVIOUS
      <3>2. rest(u) \in SUBSET u /\ rest(u) \in SUBSET T /\ rest(u) # T
        BY <1>4, <3>1
      <3>3. IsSums(G(u), f, u) /\ IsSums(G(rest(u)), f, rest(u))
        BY <1>3, <1>5, <3>2
      <3>4. IsFiniteSet(u)
        BY <1>2, FS_Subset
      <3> DEFINE v == rest(u)
                 a == G(u)
                 b == G(v)
      <3>5. v \in SUBSET u /\ IsSums(a, f, u) /\ IsSums(b, f, v)
        BY <3>2, <3>3
      <3> HIDE DEF a, b, v
      <3>6. a[v] = b[v]
        BY <3>4, <3>5, SumsAgree
      <3> QED  BY <3>6 DEF a, b, v
    <2> HIDE DEF G, rest, h
    <2> QED  BY <2>1, <2>2, <2>3
  <1>6. IsSums(h, f, T)
    <2>1. \A s \in SUBSET T : s # {} => h[rest(s)] = G(rest(s))[rest(s)]
      BY <1>4, <1>5
    <2>2. h = [s \in SUBSET T |-> IF s = {} THEN 0 ELSE f[Pick(s)] + h[rest(s)]]
      <3>1. h = [s \in SUBSET T |-> IF s = {} THEN 0
                                    ELSE f[Pick(s)] + G(rest(s))[rest(s)]]
        OBVIOUS
      <3> HIDE DEF G, rest, h
      <3> QED  BY <2>1, <3>1
    <2> HIDE DEF G, h
    <2> QED  BY <2>2 DEF IsSums
  <1> HIDE DEF h
  <1> QED  BY <1>2, <1>6

\* The equations of a sum.
LEMMA SumOfNone == \A f : SumFunctionOnSet(f, {}) = 0
  <1> SUFFICES ASSUME NEW f  PROVE SumFunctionOnSet(f, {}) = 0
    OBVIOUS
  <1>1. IsFiniteSet({})
    BY FS_EmptySet
  <1>2. IsSums(Sums(f, {}), f, {})
    BY <1>1, SumsExist DEF Sums
  <1>3. Sums(f, {})[{}] = 0
    BY <1>2 DEF IsSums
  <1> QED  BY <1>3, FoldIsSums

\* The element picked goes first.
LEMMA SumOfPicked ==
  ASSUME NEW f, NEW S, IsFiniteSet(S), S # {}
  PROVE  SumFunctionOnSet(f, S) = f[Pick(S)] + SumFunctionOnSet(f, S \ {Pick(S)})
  <1> DEFINE R == S \ {Pick(S)}
  <1>1. IsFiniteSet(R) /\ R \in SUBSET S
    BY FS_RemoveElement
  <1>2. IsSums(Sums(f, S), f, S)
    BY SumsExist DEF Sums
  <1>3. IsSums(Sums(f, R), f, R)
    BY <1>1, SumsExist DEF Sums
  <1>4. Sums(f, S)[S] = f[Pick(S)] + Sums(f, S)[R]
    BY <1>2 DEF IsSums
  <1> HIDE DEF R
  <1>5. Sums(f, S)[R] = Sums(f, R)[R]
    BY <1>1, <1>2, <1>3, SumsAgree
  <1> QED  BY <1>4, <1>5, FoldIsSums DEF R

\* A sum of natural numbers is one.
LEMMA SumIsNatural ==
  ASSUME NEW f, NEW S, IsFiniteSet(S), \A x \in S : f[x] \in Nat
  PROVE  SumFunctionOnSet(f, S) \in Nat
  <1> DEFINE F == {T \in SUBSET S : SumFunctionOnSet(f, T) \notin Nat}
  <1> SUFFICES ASSUME F # {}  PROVE FALSE
    OBVIOUS
  <1>1. PICK T \in F : \A u \in F : u \subseteq T => u = T
    <2>1. F \in SUBSET SUBSET S
      OBVIOUS
    <2> HIDE DEF F
    <2> QED  BY <2>1, SmallestSet
  <1>2. T \in SUBSET S /\ SumFunctionOnSet(f, T) \notin Nat /\ IsFiniteSet(T)
    BY <1>1, FS_Subset
  <1>3. T # {}
    BY <1>2, SumOfNone
  <1>4. Pick(T) \in T
    BY <1>3, PickIsIn
  <1>5. SumFunctionOnSet(f, T \ {Pick(T)}) \in Nat
    BY <1>1, <1>2, <1>4
  <1>6. f[Pick(T)] \in Nat
    BY <1>2, <1>4
  <1> QED  BY <1>2, <1>3, <1>5, <1>6, SumOfPicked

\* Any element may be taken out first.
LEMMA SumWithout ==
  ASSUME NEW f, NEW S, IsFiniteSet(S), \A x \in S : f[x] \in Nat, NEW c \in S
  PROVE  SumFunctionOnSet(f, S) = f[c] + SumFunctionOnSet(f, S \ {c})
  <1> DEFINE Sum(T) == SumFunctionOnSet(f, T)
             F == {T \in SUBSET S : \E x \in T : Sum(T) # f[x] + Sum(T \ {x})}
  <1> SUFFICES ASSUME F # {}  PROVE FALSE
    OBVIOUS
  <1>1. PICK T \in F : \A u \in F : u \subseteq T => u = T
    <2>1. F \in SUBSET SUBSET S
      OBVIOUS
    <2> HIDE DEF F
    <2> QED  BY <2>1, SmallestSet
  <1>2. PICK x \in T : Sum(T) # f[x] + Sum(T \ {x})
    BY <1>1
  <1>3. T \in SUBSET S /\ IsFiniteSet(T)
    BY <1>1, FS_Subset
  <1> DEFINE y == Pick(T)
  <1>4. y \in T
    BY <1>2, PickIsIn
  <1>5. Sum(T) = f[y] + Sum(T \ {y})
    BY <1>3, <1>4, SumOfPicked
  <1>6. ASSUME NEW u \in SUBSET T, u # T, NEW z \in u
        PROVE  Sum(u) = f[z] + Sum(u \ {z})
    BY <1>1, <1>3, <1>6
  <1>7. f[x] \in Nat /\ f[y] \in Nat
    BY <1>3, <1>4
  <1>8. CASE x = y
    BY <1>2, <1>5, <1>8
  <1>9. CASE x # y
    <2>1. (T \ {y}) \ {x} = (T \ {x}) \ {y}
      OBVIOUS
    <2>2. Sum(T \ {y}) = f[x] + Sum((T \ {x}) \ {y})
      BY <1>4, <1>6, <1>9, <2>1
    <2>3. Sum(T \ {x}) = f[y] + Sum((T \ {x}) \ {y})
      BY <1>4, <1>6, <1>9
    <2>4. Sum((T \ {x}) \ {y}) \in Nat
      <3>1. IsFiniteSet((T \ {x}) \ {y})
        BY <1>3, FS_RemoveElement
      <3> QED  BY <1>3, <3>1, SumIsNatural
    <2> HIDE DEF Sum, y
    <2> QED  BY <1>2, <1>5, <1>7, <2>2, <2>3, <2>4
  <1> QED  BY <1>8, <1>9

\* A sum depends on the terms alone.
LEMMA SumOfSameTerms ==
  ASSUME NEW f, NEW g, NEW S, IsFiniteSet(S), \A x \in S : f[x] = g[x]
  PROVE  SumFunctionOnSet(f, S) = SumFunctionOnSet(g, S)
  <1> DEFINE F == {T \in SUBSET S : SumFunctionOnSet(f, T) # SumFunctionOnSet(g, T)}
  <1> SUFFICES ASSUME F # {}  PROVE FALSE
    OBVIOUS
  <1>1. PICK T \in F : \A u \in F : u \subseteq T => u = T
    <2>1. F \in SUBSET SUBSET S
      OBVIOUS
    <2> HIDE DEF F
    <2> QED  BY <2>1, SmallestSet
  <1>2. /\ T \in SUBSET S /\ IsFiniteSet(T)
        /\ SumFunctionOnSet(f, T) # SumFunctionOnSet(g, T)
    BY <1>1, FS_Subset
  <1>3. T # {}
    BY <1>2, SumOfNone
  <1>4. Pick(T) \in T
    BY <1>3, PickIsIn
  <1>5. SumFunctionOnSet(f, T \ {Pick(T)}) = SumFunctionOnSet(g, T \ {Pick(T)})
    BY <1>1, <1>2, <1>4
  <1>6. f[Pick(T)] = g[Pick(T)]
    BY <1>2, <1>4
  <1> QED  BY <1>2, <1>3, <1>5, <1>6, SumOfPicked
-----------------------------------------------------------------------------
(* The stock and the journal of the coupon.                                *)

(***************************************************************************)
(* A write follows a read by several steps, so what is guaranteed is about *)
(* requests that run one at a time, even if they die half-way: there is at *)
(* most one.  Between the row of an edited reservation and its new lines   *)
(* the day may seem overbooked, so the invariant counts the others only.   *)
(***************************************************************************)
OneRequest == \A q, r \in Requests : q = r

\* A quantity was asked for when the stock had it, unless something was paid,
\* restored or moved meanwhile that asks for none.
Asked(h, day, qty) == qty \in 0..Stock /\ (unchecked \/ Fits(h, day, qty))

\* A running request has checked what it is about to write: there is a row to
\* write to, what it takes fits, and what asks for no stock is marked so.
Checked(r) ==
    LET q == req[r]
        h == q.holder
    IN  /\ q.pc = "row" =>
              \/ /\ q.task = "create"
                 /\ q.row.state # "absent"
                 /\ Asked(h, q.row.day, q.qty)
              \/ /\ q.task = "edit"
                 /\ q.row.state # "absent"
                 /\ \/ Asked(h, q.row.day, q.qty)
                    \/ /\ h \in Rentals /\ Consumes(h)
                       /\ q.row.day = held[h].day /\ q.qty = lines[h]
              \/ /\ q.task = "cancel" /\ h \in Reservations /\ Stored(h)
                 /\ q.row.state = "void"
              \/ /\ q.task = "restore" /\ h \in Reservations /\ Stored(h)
                 /\ q.row.state # "absent" /\ unchecked
              \/ /\ q.task = "move" /\ h \in Reservations /\ Stored(h)
                 /\ unchecked
        /\ q.pc \in {"clear", "lines"} => Stored(h) /\ Asked(h, held[h].day, q.qty)
        /\ q.pc \in {"clear", "lines", "refetch"} => h \in Reservations /\ q.task # "align"

\* The uses of a reservation, as it was read, are in step.
UsesInStep(read) ==
    IF CountsAsUse(read) THEN journal[<<read.key, read.day>>] = 1
    ELSE \A k \in Keys : journal[<<k, read.day>>] = 0

\* No other reservation that was read shares its day.
AloneIn(rows, b) ==
    \A c \in Reservations \ {b} : rows[c].state # "absent" => rows[c].day # rows[b].day

\* A use about to be recorded is not there yet; those the alignment has been
\* through are in step, as they were read.
Journals(r) ==
    LET q == req[r]
    IN  /\ q.pc = "record" =>
              /\ q.holder \in q.todo
              /\ CountsAsUse(q.rows[q.holder])
              /\ journal[<<q.rows[q.holder].key, q.rows[q.holder].day>>] = 0
        /\ q.pc \in {"sync", "record"} /\ q.task = "align" =>
              /\ \A b \in q.todo : q.rows[b].state # "absent"
              /\ \A b \in Reservations \ q.todo :
                    q.rows[b].state # "absent" /\ AloneIn(q.rows, b) => UsesInStep(q.rows[b])

\* No day is overbooked, but for the lines about to be written.
NoDayOverbooked ==
    aborts = 0 /\ ~unchecked =>
        \A d \in Days :
            /\ (\A r \in Requests : req[r].pc \notin {"clear", "lines"}) =>
                  Reserved(Holders, d) <= Stock
            /\ \A r \in Requests, h \in Holders :
                  req[r].pc \in {"clear", "lines"} /\ req[r].holder = h =>
                      Reserved(Holders \ {h}, d) <= Stock

StockOK ==
    /\ BookingTypeOK
    /\ \A r \in Requests : Checked(r)
    /\ NoDayOverbooked

JournalOK ==
    /\ JournalOnce
    /\ \A r \in Requests : Journals(r)
    /\ aligned => Quiet
    /\ AlignedAlone

BookingInv == StockOK /\ JournalOK

\* The sums of the stock are about finitely many reservations and rentals.
LEMMA HoldersFinite == IsFiniteSet(Holders) /\ Holders # {} /\ Days # {} /\ NotHeld \in Holding
  BY BookingAssumption, FS_Union DEF Holders, NotHeld, Holding, States, Keys

\* A sum with and without one of those that may have a share.
LEMMA ShareApart ==
  ASSUME NEW f \in [Holders -> Nat], NEW A \in SUBSET Holders, NEW h \in Holders
  PROVE  /\ SumFunctionOnSet(f, A \ {h}) \in Nat
         /\ SumFunctionOnSet(f, A) =
              SumFunctionOnSet(f, A \ {h}) + IF h \in A THEN f[h] ELSE 0
  <1>1. IsFiniteSet(A) /\ IsFiniteSet(A \ {h})
    BY HoldersFinite, FS_Subset, FS_RemoveElement
  <1>2. \A x \in A : f[x] \in Nat
    OBVIOUS
  <1>3. SumFunctionOnSet(f, A \ {h}) \in Nat
    BY <1>1, <1>2, SumIsNatural
  <1>4. CASE h \in A
    BY <1>1, <1>2, <1>3, <1>4, SumWithout
  <1>5. CASE h \notin A
    <2>1. A \ {h} = A
      BY <1>5
    <2> QED  BY <1>3, <1>5, <2>1
  <1> QED  BY <1>3, <1>4, <1>5

\* What is reserved on a day, with and without one of those that may take it,
LEMMA ReservedSplits ==
  ASSUME lines \in [Holders -> Nat], NEW h \in Holders, NEW d \in Days
  PROVE  /\ Reserved(Holders \ {h}, d) \in Nat
         /\ Reserved(Holders, d) =
              Reserved(Holders \ {h}, d)
                + IF Consumes(h) /\ held[h].day = d THEN lines[h] ELSE 0
  <1> DEFINE A == {x \in Holders : Consumes(x) /\ held[x].day = d}
             B == {x \in Holders \ {h} : Consumes(x) /\ held[x].day = d}
  <1>1. /\ Reserved(Holders, d) = SumFunctionOnSet(lines, A)
        /\ Reserved(Holders \ {h}, d) = SumFunctionOnSet(lines, B)
    BY DEF Reserved
  <1>2. A \in SUBSET Holders /\ B = A \ {h} /\ (h \in A <=> Consumes(h) /\ held[h].day = d)
    OBVIOUS
  <1> HIDE DEF A, B
  <1> QED  BY <1>1, <1>2, ShareApart

\* before a step and after it.
LEMMA ReservedSplitsAfter ==
  ASSUME lines' \in [Holders -> Nat], NEW h \in Holders, NEW d \in Days
  PROVE  /\ Reserved(Holders \ {h}, d)' \in Nat
         /\ Reserved(Holders, d)' =
              Reserved(Holders \ {h}, d)'
                + IF Consumes(h)' /\ held'[h].day = d THEN lines'[h] ELSE 0
  <1> DEFINE A == {x \in Holders : Consumes(x)' /\ held'[x].day = d}
             B == {x \in Holders \ {h} : Consumes(x)' /\ held'[x].day = d}
             f == lines'
  <1>1. /\ Reserved(Holders, d)' = SumFunctionOnSet(f, A)
        /\ Reserved(Holders \ {h}, d)' = SumFunctionOnSet(f, B)
    BY DEF Reserved
  <1>2. A \in SUBSET Holders /\ B = A \ {h} /\ (h \in A <=> Consumes(h)' /\ held'[h].day = d)
    OBVIOUS
  <1>3. f \in [Holders -> Nat] /\ f[h] = lines'[h]
    OBVIOUS
  <1> HIDE DEF A, B, f
  <1>4. /\ SumFunctionOnSet(f, B) \in Nat
        /\ SumFunctionOnSet(f, A) = SumFunctionOnSet(f, B) + IF h \in A THEN f[h] ELSE 0
    BY <1>2, <1>3, ShareApart
  <1> QED  BY <1>1, <1>2, <1>3, <1>4

\* A write to one reservation or rental leaves what the others take.
LEMMA OthersReserve ==
  ASSUME NEW h \in Holders, NEW d \in Days, lines \in [Holders -> Nat],
         \A x \in Holders \ {h} :
            /\ lines'[x] = lines[x]
            /\ Consumes(x)' <=> Consumes(x)
            /\ held'[x].day = held[x].day
  PROVE  Reserved(Holders \ {h}, d)' = Reserved(Holders \ {h}, d)
  <1> DEFINE B == {x \in Holders \ {h} : Consumes(x) /\ held[x].day = d}
             C == {x \in Holders \ {h} : Consumes(x)' /\ held'[x].day = d}
  <1>1. /\ Reserved(Holders \ {h}, d) = SumFunctionOnSet(lines, B)
        /\ Reserved(Holders \ {h}, d)' = SumFunctionOnSet(lines', C)
    BY DEF Reserved
  <1>2. B = C /\ B \subseteq Holders /\ \A x \in B : lines'[x] = lines[x]
    OBVIOUS
  <1> HIDE DEF B, C
  <1>3. IsFiniteSet(B)
    BY <1>2, HoldersFinite, FS_Subset
  <1> DEFINE after == lines'
  <1>4. \A x \in B : lines[x] = after[x]
    BY <1>2
  <1> HIDE DEF after
  <1>5. SumFunctionOnSet(lines, B) = SumFunctionOnSet(after, B)
    BY <1>3, <1>4, SumOfSameTerms
  <1> QED  BY <1>1, <1>2, <1>5 DEF after

\* So does a step that changes nobody's share.
LEMMA AllReserve ==
  ASSUME NEW d \in Days, lines \in [Holders -> Nat],
         \A x \in Holders :
            /\ lines'[x] = lines[x]
            /\ Consumes(x)' <=> Consumes(x)
            /\ held'[x].day = held[x].day
  PROVE  /\ Reserved(Holders, d)' = Reserved(Holders, d)
         /\ \A h \in Holders : Reserved(Holders \ {h}, d)' = Reserved(Holders \ {h}, d)
  <1>1. \A h \in Holders : Reserved(Holders \ {h}, d)' = Reserved(Holders \ {h}, d)
    BY OthersReserve
  <1> DEFINE A == {x \in Holders : Consumes(x) /\ held[x].day = d}
             C == {x \in Holders : Consumes(x)' /\ held'[x].day = d}
  <1>2. /\ Reserved(Holders, d) = SumFunctionOnSet(lines, A)
        /\ Reserved(Holders, d)' = SumFunctionOnSet(lines', C)
    BY DEF Reserved
  <1>3. A = C /\ A \subseteq Holders /\ \A x \in A : lines'[x] = lines[x]
    OBVIOUS
  <1> HIDE DEF A, C
  <1>4. IsFiniteSet(A)
    BY <1>3, HoldersFinite, FS_Subset
  <1> DEFINE after == lines'
  <1>5. \A x \in A : lines[x] = after[x]
    BY <1>3
  <1> HIDE DEF after
  <1>6. SumFunctionOnSet(lines, A) = SumFunctionOnSet(after, A)
    BY <1>4, <1>5, SumOfSameTerms
  <1> QED  BY <1>1, <1>2, <1>3, <1>6 DEF after

\* A quantity that fits is within the stock.
LEMMA FitsIsWithin ==
  ASSUME lines \in [Holders -> Nat], NEW h \in Holders, NEW d \in Days,
         NEW qty \in Nat, Fits(h, d, qty)
  PROVE  qty \in 0..Stock
  BY ReservedSplits, BookingAssumption DEF Fits

\* What a request and the request it becomes are.
LEMMA RequestIs ==
  ASSUME NEW q \in Request
  PROVE  /\ q.pc \in Steps /\ q.task \in Tasks /\ q.holder \in Holders /\ q.row \in Holding
         /\ q.qty \in 0..(Stock + 1) /\ q.rows \in [Holders -> Holding]
         /\ q.todo \in SUBSET Reservations
  BY DEF Request

\* What a row is made of.
LEMMA HoldingIs ==
  ASSUME NEW x \in Holding
  PROVE  x.state \in States /\ x.day \in Days /\ x.key \in Keys
  BY DEF Holding

\* The idle request, and the rows that nobody has.
LEMMA IdleIs ==
  /\ Idle \in Request /\ Idle.pc = "idle" /\ Idle.task = "none"
  /\ NoneHeld \in [Holders -> Holding]
  <1>1. NotHeld \in Holding /\ (CHOOSE h \in Holders : TRUE) \in Holders
    BY HoldersFinite
  <1>2. NoneHeld \in [Holders -> Holding]
    BY <1>1 DEF NoneHeld
  <1>3. 0 \in 0..(Stock + 1)
    BY BookingAssumption
  <1> QED  BY <1>1, <1>2, <1>3 DEF Idle, Request, Steps, Tasks

\* The only request has become another one.
LEMMA OnlyBecomes ==
  ASSUME OneRequest, NEW r \in Requests, NEW q \in Request,
         req \in [Requests -> Request], Becomes(r, q)
  PROVE  /\ req' \in [Requests -> Request] /\ req'[r] = q
         /\ \A u \in Requests : u = r
  BY DEF Becomes, OneRequest

\* The types, by name.
LEMMA TypesAre ==
  ASSUME BookingTypeOK
  PROVE  /\ held \in [Holders -> Holding] /\ lines \in [Holders -> 0..Stock]
         /\ lines \in [Holders -> Nat]
         /\ journal \in [Keys \X Days -> Nat] /\ req \in [Requests -> Request]
         /\ today \in 0..LastDay /\ aborts \in 0..MaxAborts
         /\ \A h \in Holders : held[h] \in Holding
  BY BookingAssumption DEF BookingTypeOK

-----------------------------------------------------------------------------
(* The stock.                                                              *)

\* A request that begins has checked what it will write.
LEMMA StartsChecked ==
  ASSUME OneRequest, NEW r \in Requests, NEW q \in Request, StockOK, Begins(r, q),
         q.pc \in {"row", "remove", "sync"},
         q.pc = "row" =>
           \/ q.task = "create" /\ q.row.state # "absent" /\ Fits(q.holder, q.row.day, q.qty)
           \/ /\ q.task = "edit" /\ q.row.state # "absent"
              /\ \/ Fits(q.holder, q.row.day, q.qty)
                 \/ /\ q.holder \in Rentals /\ Consumes(q.holder)
                    /\ q.row.day = held[q.holder].day /\ q.qty = lines[q.holder]
           \/ /\ q.task \in {"cancel", "restore", "move"}
              /\ q.holder \in Reservations /\ Stored(q.holder)
              /\ q.task = "cancel" => q.row.state = "void"
              /\ q.task = "restore" => q.row.state # "absent"
  PROVE  StockOK'
  <1>1. /\ BookingTypeOK /\ req \in [Requests -> Request] /\ req[r].pc = "idle"
        /\ UNCHANGED <<today, held, lines, journal, aborts>> /\ ~aligned'
        /\ unchecked' = (unchecked \/ q.task \in {"move", "restore"})
    BY TypesAre DEF StockOK, Begins
  <1>2. req' \in [Requests -> Request] /\ req'[r] = q /\ \A u \in Requests : u = r
    BY <1>1, OnlyBecomes DEF Begins
  <1>3. BookingTypeOK'
    <2>1. unchecked' \in BOOLEAN /\ aligned' \in BOOLEAN
      BY Zenon DEF Begins
    <2> QED  BY <1>1, <1>2, <2>1 DEF BookingTypeOK
  <1>4. Checked(r)'
    <2>1. \A h, d, n : Fits(h, d, n)' = Fits(h, d, n)
      BY <1>1 DEF Fits, Reserved, Consumes
    <2>2. \A h : Stored(h)' = Stored(h) /\ Consumes(h)' = Consumes(h)
      BY <1>1 DEF Stored, Consumes
    <2>3. unchecked' = TRUE \/ q.task \notin {"move", "restore"}
      BY <1>1
    <2>4. q.holder \in Holders /\ q.row.day \in Days /\ q.qty \in Nat /\ lines \in [Holders -> Nat]
      BY <1>1, RequestIs, HoldingIs, TypesAre, BookingAssumption
    <2>5. Fits(q.holder, q.row.day, q.qty) => Asked(q.holder, q.row.day, q.qty)'
      BY <2>1, <2>4, FitsIsWithin DEF Asked
    <2> QED  BY <1>1, <1>2, <2>2, <2>3, <2>5 DEF Checked
  <1>5. NoDayOverbooked'
    <2>1. \A S, d : Reserved(S, d)' = Reserved(S, d)
      BY <1>1 DEF Reserved, Consumes
    <2>2. \A d \in Days : aborts = 0 /\ ~unchecked => Reserved(Holders, d) <= Stock
      BY <1>1, <1>2 DEF StockOK, NoDayOverbooked
    <2> QED  BY <1>1, <1>2, <2>1, <2>2 DEF NoDayOverbooked
  <1> QED  BY <1>2, <1>3, <1>4, <1>5 DEF StockOK

\* A request that goes on or ends without a write to the rows or the lines.
LEMMA StockKept ==
  ASSUME OneRequest, NEW r \in Requests, NEW q \in Request, StockOK, Becomes(r, q),
         UNCHANGED <<today, held, lines, unchecked>>,
         journal' \in [Keys \X Days -> Nat], aligned' \in BOOLEAN,
         q.pc \notin {"row", "clear", "lines", "refetch"},
         \/ aborts' = aborts /\ req[r].pc \notin {"clear", "lines"}
         \/ aborts' \in 1..MaxAborts
  PROVE  StockOK'
  <1>1. BookingTypeOK /\ req \in [Requests -> Request]
    BY TypesAre DEF StockOK
  <1>2. req' \in [Requests -> Request] /\ req'[r] = q /\ \A u \in Requests : u = r
    BY <1>1, OnlyBecomes
  <1>3. BookingTypeOK'
    <2>1. aborts' \in 0..MaxAborts
      BY <1>1, BookingAssumption DEF BookingTypeOK
    <2> QED  BY <1>1, <1>2, <2>1 DEF BookingTypeOK
  <1>4. Checked(r)'
    BY <1>2 DEF Checked
  <1>5. NoDayOverbooked'
    <2>1. \A S, d : Reserved(S, d)' = Reserved(S, d)
      BY DEF Reserved, Consumes
    <2>2. \A d \in Days : aborts' = 0 /\ ~unchecked => Reserved(Holders, d) <= Stock
      BY <1>2 DEF StockOK, NoDayOverbooked
    <2> QED  BY <1>2, <2>1, <2>2 DEF NoDayOverbooked
  <1> QED  BY <1>2, <1>3, <1>4, <1>5 DEF StockOK

\* The row is written; a reservation's lines are still to be.
LEMMA WriteRowStock ==
  ASSUME OneRequest, NEW r \in Requests, StockOK, WriteRow(r)
  PROVE  StockOK'
  <1> DEFINE h == req[r].holder
             next == [req[r] EXCEPT !.pc = IF req[r].task = "edit" THEN "clear" ELSE "lines",
                                    !.row = NotHeld]
             q == IF h \in Rentals THEN Idle ELSE next
  <1>1. /\ BookingTypeOK /\ req \in [Requests -> Request] /\ Checked(r)
        /\ held \in [Holders -> Holding] /\ lines \in [Holders -> 0..Stock]
        /\ lines \in [Holders -> Nat]
    BY TypesAre DEF StockOK
  <1>2. /\ req[r].pc = "row" /\ req[r].task \in {"create", "edit"}
        /\ held' = [held EXCEPT ![h] = req[r].row]
        /\ lines' = IF h \in Rentals THEN [lines EXCEPT ![h] = req[r].qty] ELSE lines
        /\ Becomes(r, q)
        /\ Stored(h) = (req[r].task = "edit")
        /\ UNCHANGED <<today, journal, aborts, unchecked, aligned>>
    BY DEF WriteRow
  <1>3. /\ req[r] \in Request /\ h \in Holders /\ req[r].row \in Holding
        /\ req[r].row.day \in Days /\ req[r].qty \in Nat
    BY <1>1, RequestIs, HoldingIs, BookingAssumption
  <1>4. next \in Request /\ next.pc \in {"clear", "lines"} /\ next.qty = req[r].qty
        /\ next.holder = h /\ next.task = req[r].task
    BY <1>3, HoldersFinite DEF Request, Steps
  <1>5. q \in Request
    BY <1>4, IdleIs
  <1> HIDE DEF next
  <1>6. req' \in [Requests -> Request] /\ req'[r] = q /\ \A u \in Requests : u = r
    BY <1>1, <1>2, <1>5, OnlyBecomes
  <1>7. /\ req[r].row.state # "absent"
        /\ \/ Asked(h, req[r].row.day, req[r].qty)
           \/ /\ h \in Rentals /\ Consumes(h)
              /\ req[r].row.day = held[h].day /\ req[r].qty = lines[h]
    BY <1>1, <1>2 DEF Checked
  <1>8. PICK b \in Holders : b = h
    BY <1>3
  <1>81. PICK day \in Days : day = req[r].row.day
    BY <1>3
  <1>82. PICK n \in Nat : n = req[r].qty
    BY <1>3
  <1>9. /\ held'[b] = req[r].row /\ held' \in [Holders -> Holding]
        /\ \A x \in Holders \ {b} : held'[x] = held[x] /\ lines'[x] = lines[x]
        /\ lines'[b] = IF b \in Rentals THEN req[r].qty ELSE lines[b]
    BY <1>1, <1>2, <1>3, <1>8
  <1>10. req[r].qty \in 0..Stock
    BY <1>1, <1>3, <1>7 DEF Asked
  <1>11. lines' \in [Holders -> 0..Stock]
    BY <1>1, <1>2, <1>10
  <1>12. BookingTypeOK'
    <2>1. \A x \in Holders : held'[x].state = "absent" => held'[x] = NotHeld /\ lines'[x] = 0
      BY <1>1, <1>7, <1>8, <1>9 DEF BookingTypeOK
    <2> QED  BY <1>1, <1>2, <1>6, <1>9, <1>11, <2>1 DEF BookingTypeOK
  <1>13. \A d \in Days : /\ Reserved(Holders \ {b}, d)' = Reserved(Holders \ {b}, d)
                         /\ Reserved(Holders \ {b}, d) \in Nat
    BY <1>1, <1>9, OthersReserve, ReservedSplits DEF Consumes
  <1>14. Checked(r)'
    <2>1. CASE b \in Rentals
      BY <1>6, <1>8, <2>1, IdleIs DEF Checked
    <2>2. CASE b \notin Rentals
      <3>1. req'[r] = next
        BY <1>6, <1>8, <2>2
      <3>2. Asked(b, day, n)
        BY <1>7, <1>8, <1>81, <1>82, <2>2
      <3>3. Asked(b, day, n)'
        BY <1>2, <1>13, <3>2 DEF Asked, Fits
      <3>4. Stored(b)'
        BY <1>7, <1>9 DEF Stored
      <3>5. b \in Reservations
        BY <2>2 DEF Holders
      <3>6. /\ req'[r].pc \in {"clear", "lines"} /\ req'[r].holder = b /\ req'[r].qty = n
            /\ held'[b].day = day /\ req'[r].task # "align"
        BY <1>2, <1>4, <1>8, <1>81, <1>82, <1>9, <3>1
      <3> QED  BY <3>3, <3>4, <3>5, <3>6 DEF Checked
    <2> QED  BY <2>1, <2>2
  <1>15. NoDayOverbooked'
    <2> SUFFICES ASSUME aborts = 0, ~unchecked, NEW d \in Days
                 PROVE  /\ req'[r].pc \notin {"clear", "lines"} => Reserved(Holders, d)' <= Stock
                        /\ \A x \in Holders :
                              req'[r].pc \in {"clear", "lines"} /\ req'[r].holder = x =>
                                  Reserved(Holders \ {x}, d)' <= Stock
      BY <1>2, <1>6 DEF NoDayOverbooked
    <2>1. Reserved(Holders, d) <= Stock
      BY <1>2, <1>6 DEF StockOK, NoDayOverbooked
    <2>2. Reserved(Holders, d) = Reserved(Holders \ {b}, d)
            + IF Consumes(b) /\ held[b].day = d THEN lines[b] ELSE 0
      BY <1>1, ReservedSplits
    <2>3. Reserved(Holders \ {b}, d) <= Stock /\ lines[b] \in Nat /\ Stock \in Nat
      BY <1>1, <1>13, <2>1, <2>2, BookingAssumption
    <2>4. CASE b \notin Rentals
      <3>1. req'[r] = next
        BY <1>6, <1>8, <2>4
      <3>2. req'[r].pc \in {"clear", "lines"} /\ req'[r].holder = b
        BY <1>4, <1>8, <3>1
      <3> QED  BY <1>13, <2>3, <3>2
    <2>5. CASE b \in Rentals
      <3>1. req'[r].pc = "idle"
        BY <1>6, <1>8, <2>5, IdleIs
      <3> DEFINE share == IF Consumes(b)' /\ held'[b].day = d THEN lines'[b] ELSE 0
      <3>2. Reserved(Holders, d)' = Reserved(Holders \ {b}, d)' + share
        <4>1. (lines \in [Holders -> Nat])'
          BY <1>11, BookingAssumption
        <4> QED  BY <4>1, ReservedSplitsAfter
      <3>3. Reserved(Holders, d)' = Reserved(Holders \ {b}, d) + share
        BY <1>13, <3>2
      <3>4. lines'[b] = n /\ held'[b].day = day
        BY <1>8, <1>81, <1>82, <1>9, <2>5
      <3>5. CASE d # day \/ n = 0
        <4>1. share = 0
          BY <3>4, <3>5
        <4>2. Reserved(Holders, d)' <= Stock
          <5> HIDE DEF share
          <5> QED  BY <1>13, <2>3, <3>3, <4>1
        <4> QED  BY <3>1, <4>2
      <3>6. CASE d = day /\ n + Reserved(Holders \ {b}, day) <= Stock
        <4>1. share = 0 \/ share = n
          BY <3>4
        <4>2. Reserved(Holders, d)' <= Stock
          <5>1. n + Reserved(Holders \ {b}, d) <= Stock
            BY <3>6
          <5> HIDE DEF share
          <5> QED  BY <1>13, <2>3, <3>3, <4>1, <5>1
        <4> QED  BY <3>1, <4>2
      <3>7. CASE Consumes(b) /\ day = held[b].day /\ n = lines[b]
        BY <1>13, <2>1, <2>2, <2>3, <3>1, <3>3, <3>4, <3>7
      <3>8. \/ n = 0 \/ n + Reserved(Holders \ {b}, day) <= Stock
            \/ Consumes(b) /\ day = held[b].day /\ n = lines[b]
        BY <1>7, <1>8, <1>81, <1>82 DEF Asked, Fits
      <3> QED  BY <3>5, <3>6, <3>7, <3>8
    <2> QED  BY <2>4, <2>5
  <1> QED  BY <1>6, <1>12, <1>14, <1>15 DEF StockOK

\* The lines of an edited reservation are deleted, then created anew; they fit.
LEMMA WriteLinesStock ==
  ASSUME OneRequest, NEW r \in Requests, StockOK, ClearLines(r) \/ CreateLines(r)
  PROVE  StockOK'
  <1> DEFINE h == req[r].holder
             q1 == [req[r] EXCEPT !.pc = "lines"]
             q2 == [req[r] EXCEPT !.pc = "refetch", !.qty = 0]
  <1>1. /\ BookingTypeOK /\ req \in [Requests -> Request] /\ Checked(r)
        /\ held \in [Holders -> Holding] /\ lines \in [Holders -> 0..Stock]
        /\ lines \in [Holders -> Nat]
    BY TypesAre DEF StockOK
  <1>2. \/ /\ req[r].pc = "clear" /\ Becomes(r, q1)
           /\ lines' = [lines EXCEPT ![h] = 0]
        \/ /\ req[r].pc = "lines" /\ Becomes(r, q2)
           /\ lines' = [lines EXCEPT ![h] = req[r].qty]
    BY DEF ClearLines, CreateLines, WriteLines
  <1>3. UNCHANGED <<today, held, journal, aborts, unchecked, aligned>>
    BY DEF ClearLines, CreateLines, WriteLines
  <1>4. /\ req[r] \in Request /\ h \in Holders /\ req[r].qty \in Nat
        /\ held[h] \in Holding /\ held[h].day \in Days
    BY <1>1, RequestIs, HoldingIs, BookingAssumption
  <1>5. /\ q1 \in Request /\ q1.pc = "lines" /\ q1.qty = req[r].qty /\ q1.holder = h
        /\ q2 \in Request /\ q2.pc = "refetch" /\ q2.holder = h
        /\ q1.task = req[r].task /\ q2.task = req[r].task
    <2>1. 0 \in 0..(Stock + 1)
      BY BookingAssumption
    <2>2. q1 \in Request /\ q1.pc = "lines" /\ q1.qty = req[r].qty /\ q1.holder = h
          /\ q1.task = req[r].task
      BY <1>4 DEF Request, Steps
    <2>3. q2 \in Request /\ q2.pc = "refetch" /\ q2.holder = h
          /\ q2.task = req[r].task
      BY <1>4, <2>1 DEF Request, Steps
    <2> HIDE DEF q1, q2
    <2> QED  BY <2>2, <2>3
  <1> HIDE DEF q1, q2
  <1>6. PICK b \in Holders : b = h
    BY <1>4
  <1>7. PICK n \in Nat : n = req[r].qty
    BY <1>4
  <1>8. PICK day \in Days : day = held[b].day
    BY <1>4, <1>6
  <1>9. Stored(b) /\ Asked(b, day, n) /\ b \in Reservations /\ req[r].task # "align"
    BY <1>1, <1>2, <1>6, <1>7, <1>8 DEF Checked
  <1>10. n \in 0..Stock
    BY <1>9 DEF Asked
  <1>11. /\ lines' \in [Holders -> 0..Stock]
         /\ \A x \in Holders \ {b} : lines'[x] = lines[x]
         /\ lines' \in [Holders -> Nat]
    BY <1>1, <1>2, <1>6, <1>7, <1>10, BookingAssumption
  <1>12. req' \in [Requests -> Request] /\ \A u \in Requests : u = r
    BY <1>1, <1>2, <1>5, OnlyBecomes
  <1>13. BookingTypeOK'
    <2>1. \A x \in Holders : held'[x].state = "absent" => held'[x] = NotHeld /\ lines'[x] = 0
      BY <1>1, <1>3, <1>9, <1>11 DEF BookingTypeOK, Stored
    <2> QED  BY <1>1, <1>3, <1>11, <1>12, <2>1 DEF BookingTypeOK
  <1>14. \A d \in Days : /\ Reserved(Holders \ {b}, d)' = Reserved(Holders \ {b}, d)
                         /\ Reserved(Holders \ {b}, d) \in Nat
    BY <1>1, <1>3, <1>11, OthersReserve, ReservedSplits DEF Consumes
  <1>15. Asked(b, day, n)' /\ Stored(b)' /\ held'[b].day = day
    BY <1>3, <1>8, <1>9, <1>14 DEF Asked, Fits, Stored
  <1>16. ASSUME aborts = 0, ~unchecked, NEW d \in Days
         PROVE  Reserved(Holders \ {b}, d) <= Stock
    BY <1>2, <1>6, <1>16 DEF StockOK, NoDayOverbooked
  <1>17. CASE req[r].pc = "clear"
    <2>1. req'[r] = q1
      BY <1>1, <1>2, <1>5, <1>17, OnlyBecomes
    <2>2. /\ req'[r].pc = "lines" /\ req'[r].holder = b /\ req'[r].qty = n
          /\ req'[r].task = req[r].task
      BY <1>5, <1>6, <1>7, <2>1
    <2>3. Checked(r)'
      BY <1>9, <1>15, <2>2 DEF Checked
    <2>4. NoDayOverbooked'
      BY <1>3, <1>12, <1>14, <1>16, <2>2 DEF NoDayOverbooked
    <2> QED  BY <1>12, <1>13, <2>3, <2>4 DEF StockOK
  <1>18. CASE req[r].pc = "lines"
    <2>1. req'[r] = q2
      BY <1>1, <1>2, <1>5, <1>18, OnlyBecomes
    <2>2. /\ req'[r].pc = "refetch" /\ req'[r].holder = b /\ lines'[b] = n
          /\ req'[r].task = req[r].task
      BY <1>1, <1>2, <1>5, <1>6, <1>7, <1>18, <2>1
    <2>3. Checked(r)'
      BY <1>9, <2>2 DEF Checked
    <2>4. NoDayOverbooked'
      <3> SUFFICES ASSUME aborts = 0, ~unchecked, NEW d \in Days
                   PROVE  Reserved(Holders, d)' <= Stock
        BY <1>3, <1>12, <2>2 DEF NoDayOverbooked
      <3> DEFINE share == IF Consumes(b)' /\ held'[b].day = d THEN lines'[b] ELSE 0
      <3>1. Reserved(Holders, d)' = Reserved(Holders \ {b}, d)' + share
        BY <1>11, ReservedSplitsAfter
      <3>2. Reserved(Holders, d)' = Reserved(Holders \ {b}, d) + share
        BY <1>14, <3>1
      <3>3. share = 0 \/ (share = n /\ d = day)
        BY <1>15, <2>2
      <3> HIDE DEF share
      <3>4. n = 0 \/ n + Reserved(Holders \ {b}, day) <= Stock
        BY <1>9 DEF Asked, Fits
      <3>5. Reserved(Holders \ {b}, d) <= Stock
        BY <1>16
      <3>6. CASE share = 0
        BY <1>14, <3>2, <3>5, <3>6
      <3>7. CASE share = n /\ d = day
        BY <1>14, <3>2, <3>4, <3>5, <3>7
      <3> QED  BY <3>3, <3>6, <3>7
    <2> QED  BY <1>12, <1>13, <2>3, <2>4 DEF StockOK
  <1> QED  BY <1>2, <1>17, <1>18

\* A cancellation or a restoration writes the state, which takes no more than before
\* unless it restores; a move writes the day, and asks for no stock.
LEMMA WriteChangeStock ==
  ASSUME OneRequest, NEW r \in Requests, StockOK, WriteState(r) \/ WriteMove(r)
  PROVE  StockOK'
  <1>1. /\ BookingTypeOK /\ req \in [Requests -> Request] /\ Checked(r)
        /\ held \in [Holders -> Holding] /\ lines \in [Holders -> Nat]
    BY TypesAre DEF StockOK
  <1>2. req[r].pc = "row" /\ req[r].task \in {"cancel", "restore", "move"}
    BY DEF WriteState, WriteMove
  <1>3. PICK b \in Holders : b = req[r].holder
    BY <1>1, RequestIs
  <1>4. /\ req[r] \in Request /\ held[b] \in Holding
        /\ req[r].row.state \in States /\ req[r].row.day \in Days
    BY <1>1, RequestIs, HoldingIs
  <1>5. /\ b \in Reservations /\ Stored(b)
        /\ req[r].task = "cancel" => req[r].row.state = "void"
        /\ req[r].task = "restore" => req[r].row.state # "absent" /\ unchecked
        /\ req[r].task = "move" => unchecked
    BY <1>1, <1>2, <1>3 DEF Checked
  <1>6. UNCHANGED <<today, lines, journal, aborts, unchecked, aligned>>
    BY DEF WriteState, WriteMove
  <1> DEFINE new == [held[b] EXCEPT !.state = req[r].row.state]
             moved == [held[b] EXCEPT !.day = req[r].row.day]
             q == [req[r] EXCEPT !.pc = "sync", !.row = NotHeld, !.rows[b] = new,
                                 !.todo = {b}]
  <1>7. /\ new \in Holding /\ new.state = req[r].row.state
        /\ moved \in Holding /\ moved.state = held[b].state
    BY <1>4 DEF Holding
  <1>8. \/ /\ req[r].task \in {"cancel", "restore"}
           /\ held' = [held EXCEPT ![b] = new] /\ Becomes(r, q)
        \/ /\ req[r].task = "move"
           /\ held' = [held EXCEPT ![b] = moved] /\ Becomes(r, Idle)
    <2>1. CASE WriteState(r)
      BY <1>3, <2>1 DEF WriteState
    <2>2. CASE WriteMove(r)
      <3>1. held' = [held EXCEPT ![b].day = req[r].row.day] /\ Becomes(r, Idle)
            /\ req[r].task = "move"
        BY <1>3, <2>2 DEF WriteMove
      <3>2. held' = [held EXCEPT ![b] = moved]
        BY <1>1, <3>1
      <3> QED  BY <3>1, <3>2
    <2> QED  BY <2>1, <2>2
  <1> HIDE DEF new, moved
  <1>9. q \in Request /\ q.pc = "sync"
    <2>1. /\ req[r] = [req[r] EXCEPT !.pc = req[r].pc]
          /\ req[r].rows \in [Holders -> Holding]
      BY <1>4, RequestIs DEF Request
    <2>2. [req[r].rows EXCEPT ![b] = new] \in [Holders -> Holding]
      BY <1>7, <2>1
    <2>3. q = [req[r] EXCEPT !.pc = "sync", !.row = NotHeld,
                             !.rows = [req[r].rows EXCEPT ![b] = new], !.todo = {b}]
      BY <1>4 DEF Request
    <2> HIDE DEF q
    <2> QED  BY <1>4, <1>5, <2>2, <2>3, HoldersFinite DEF Request, Steps
  <1> HIDE DEF q
  <1>10. /\ held' \in [Holders -> Holding]
         /\ \A x \in Holders \ {b} : held'[x] = held[x]
         /\ held'[b] = new \/ held'[b] = moved
         /\ held'[b].state # "absent"
         /\ req[r].task = "cancel" => held'[b].state = "void"
    BY <1>1, <1>5, <1>7, <1>8 DEF Stored
  <1>11. /\ req' \in [Requests -> Request] /\ req'[r].pc \in {"sync", "idle"}
         /\ \A u \in Requests : u = r
    BY <1>1, <1>8, <1>9, IdleIs, OnlyBecomes
  <1>12. BookingTypeOK'
    <2>1. \A x \in Holders : held'[x].state = "absent" => held'[x] = NotHeld /\ lines'[x] = 0
      BY <1>1, <1>6, <1>10 DEF BookingTypeOK
    <2> QED  BY <1>1, <1>6, <1>10, <1>11, <2>1 DEF BookingTypeOK
  <1>13. Checked(r)'
    BY <1>11 DEF Checked
  <1>14. NoDayOverbooked'
    <2> SUFFICES ASSUME aborts = 0, ~unchecked, NEW d \in Days
                 PROVE  Reserved(Holders, d)' <= Stock
      BY <1>6, <1>11 DEF NoDayOverbooked
    <2>1. held'[b].state = "void"
      BY <1>2, <1>5, <1>10
    <2>2. /\ Reserved(Holders, d)' = Reserved(Holders \ {b}, d)' + 0
      <3>1. ~Consumes(b)'
        BY <2>1 DEF Consumes
      <3>2. lines' \in [Holders -> Nat]
        BY <1>1, <1>6
      <3> QED  BY <3>1, <3>2, ReservedSplitsAfter
    <2>3. Reserved(Holders \ {b}, d)' = Reserved(Holders \ {b}, d)
      BY <1>1, <1>6, <1>10, OthersReserve DEF Consumes
    <2>4. Reserved(Holders, d) <= Stock
      BY <1>2, <1>11 DEF StockOK, NoDayOverbooked
    <2> DEFINE share == IF Consumes(b) /\ held[b].day = d THEN lines[b] ELSE 0
    <2>5. Reserved(Holders, d) = Reserved(Holders \ {b}, d) + share
          /\ Reserved(Holders \ {b}, d) \in Nat /\ share \in Nat
      BY <1>1, ReservedSplits
    <2> HIDE DEF share
    <2> QED  BY <2>2, <2>3, <2>4, <2>5, BookingAssumption
  <1> QED  BY <1>11, <1>12, <1>13, <1>14 DEF StockOK

\* Who is deleted takes nothing any more.
LEMMA DeleteStock ==
  ASSUME OneRequest, NEW r \in Requests, StockOK, Delete(r)
  PROVE  StockOK'
  <1>1. /\ BookingTypeOK /\ req \in [Requests -> Request]
        /\ held \in [Holders -> Holding] /\ lines \in [Holders -> Nat]
        /\ lines \in [Holders -> 0..Stock]
    BY TypesAre DEF StockOK
  <1>2. PICK b \in Holders : b = req[r].holder
    BY <1>1, RequestIs
  <1>3. /\ req[r].pc \in {"delete", "remove"} /\ Becomes(r, Idle)
        /\ held' = [held EXCEPT ![b] = NotHeld]
        /\ lines' = [lines EXCEPT ![b] = 0]
        /\ UNCHANGED <<today, journal, aborts, unchecked, aligned>>
    BY <1>2 DEF Delete
  <1>4. /\ held' \in [Holders -> Holding] /\ lines' \in [Holders -> 0..Stock]
        /\ held'[b] = NotHeld /\ lines'[b] = 0 /\ lines' \in [Holders -> Nat]
        /\ \A x \in Holders \ {b} : held'[x] = held[x] /\ lines'[x] = lines[x]
    BY <1>1, <1>3, HoldersFinite, BookingAssumption
  <1>5. /\ req' \in [Requests -> Request] /\ req'[r].pc = "idle"
        /\ \A u \in Requests : u = r
    BY <1>1, <1>3, IdleIs, OnlyBecomes
  <1>6. BookingTypeOK'
    <2>1. \A x \in Holders : held'[x].state = "absent" => held'[x] = NotHeld /\ lines'[x] = 0
      BY <1>1, <1>4 DEF BookingTypeOK
    <2> QED  BY <1>1, <1>3, <1>4, <1>5, <2>1 DEF BookingTypeOK
  <1>7. Checked(r)'
    BY <1>5 DEF Checked
  <1>8. NoDayOverbooked'
    <2> SUFFICES ASSUME aborts = 0, ~unchecked, NEW d \in Days
                 PROVE  Reserved(Holders, d)' <= Stock
      BY <1>3, <1>5 DEF NoDayOverbooked
    <2>1. Reserved(Holders, d)' = Reserved(Holders \ {b}, d)' + 0
      BY <1>4, ReservedSplitsAfter
    <2>2. Reserved(Holders \ {b}, d)' = Reserved(Holders \ {b}, d)
      BY <1>1, <1>4, OthersReserve DEF Consumes
    <2>3. Reserved(Holders, d) <= Stock
      BY <1>3, <1>5 DEF StockOK, NoDayOverbooked
    <2> DEFINE share == IF Consumes(b) /\ held[b].day = d THEN lines[b] ELSE 0
    <2>4. Reserved(Holders, d) = Reserved(Holders \ {b}, d) + share
          /\ Reserved(Holders \ {b}, d) \in Nat /\ share \in Nat
      BY <1>1, ReservedSplits
    <2> HIDE DEF share
    <2> QED  BY <2>1, <2>2, <2>3, <2>4, BookingAssumption
  <1> QED  BY <1>5, <1>6, <1>7, <1>8 DEF StockOK

\* A payment and the passing of a day leave the stock alone, unless the payment
\* is that of a void reservation.
LEMMA OutsideStock ==
  ASSUME StockOK, (\E b \in Reservations : PayHolding(b)) \/ Tick
  PROVE  StockOK'
  <1>1. /\ BookingTypeOK /\ req \in [Requests -> Request]
        /\ held \in [Holders -> Holding] /\ lines \in [Holders -> Nat]
    BY TypesAre DEF StockOK
  <1>2. UNCHANGED <<lines, journal, req, aborts>> /\ ~aligned' /\ aligned' \in BOOLEAN
    BY DEF PayHolding, Tick
  <1>3. /\ held' \in [Holders -> Holding] /\ today' \in 0..LastDay
        /\ (unchecked => unchecked') /\ unchecked' \in BOOLEAN
        /\ \A x \in Holders : /\ unchecked' \/ (Consumes(x)' <=> Consumes(x))
                              /\ x \in Rentals => held'[x] = held[x]
                              /\ Stored(x)' <=> Stored(x)
                              /\ held'[x].day = held[x].day
                              /\ held'[x].state = "absent" => held'[x] = held[x]
    <2>1. ASSUME NEW b \in Reservations, PayHolding(b)
          PROVE  /\ held' \in [Holders -> Holding] /\ today' = today
                 /\ (unchecked => unchecked') /\ unchecked' \in BOOLEAN
                 /\ \A x \in Holders : /\ unchecked' \/ (Consumes(x)' <=> Consumes(x))
                                       /\ x \in Rentals => held'[x] = held[x]
                                       /\ Stored(x)' <=> Stored(x)
                                       /\ held'[x].day = held[x].day
                                       /\ held'[x].state = "absent" => held'[x] = held[x]
      <3>1. PICK state \in {"paid", "revived"} :
              /\ \/ held[b].state = "pending" /\ state = "paid"
                 \/ held[b].state = "void"
              /\ held' = [held EXCEPT ![b].state = state]
        BY <2>1 DEF PayHolding
      <3>2. b \in Holders /\ b \notin Rentals /\ held[b] \in Holding
        BY <1>1, BookingAssumption DEF Holders
      <3>3. PICK new : new = [held[b] EXCEPT !.state = state]
        OBVIOUS
      <3>4. new \in Holding /\ new.state = state /\ new.day = held[b].day
        BY <3>2, <3>3 DEF Holding, States
      <3>5. held' = [held EXCEPT ![b] = new]
        BY <1>1, <3>1, <3>2, <3>3
      <3>6. /\ held' \in [Holders -> Holding] /\ held'[b] = new
            /\ \A x \in Holders \ {b} : held'[x] = held[x]
        BY <1>1, <3>2, <3>4, <3>5
      <3>7. today' = today
        BY <2>1 DEF PayHolding
      <3>8. unchecked' = (unchecked \/ held[b].state = "void")
        BY <2>1 DEF PayHolding
      <3>9. /\ held[b].state # "absent" /\ held'[b].state # "absent"
            /\ held[b].state = "void" \/ (Consumes(b) /\ Consumes(b)')
        BY <3>1, <3>4, <3>6 DEF Consumes
      <3>10. \A x \in Holders : /\ unchecked' \/ (Consumes(x)' <=> Consumes(x))
                                /\ x \in Rentals => held'[x] = held[x]
                                /\ Stored(x)' <=> Stored(x)
                                /\ held'[x].day = held[x].day
                                /\ held'[x].state = "absent" => held'[x] = held[x]
        BY <3>2, <3>4, <3>6, <3>8, <3>9 DEF Consumes, Stored
      <3>11. (unchecked => unchecked') /\ unchecked' \in BOOLEAN
        BY <3>8
      <3> QED  BY <3>6, <3>7, <3>10, <3>11
    <2>2. CASE Tick
      BY <1>1, <2>2, BookingAssumption DEF Tick, BookingTypeOK, Consumes, Stored
    <2> QED  BY <1>1, <2>1, <2>2 DEF BookingTypeOK
  <1>4. BookingTypeOK'
    <2>1. \A x \in Holders : held'[x].state = "absent" => held'[x] = NotHeld /\ lines'[x] = 0
      BY <1>1, <1>2, <1>3 DEF BookingTypeOK
    <2> QED  BY <1>1, <1>2, <1>3, <2>1 DEF BookingTypeOK
  <1>5. ASSUME ~unchecked'
        PROVE  \A d \in Days : /\ Reserved(Holders, d)' = Reserved(Holders, d)
                               /\ \A h \in Holders :
                                     Reserved(Holders \ {h}, d)' = Reserved(Holders \ {h}, d)
    BY <1>1, <1>2, <1>3, <1>5, AllReserve
  <1>6. ASSUME NEW r \in Requests  PROVE Checked(r)'
    <2>1. /\ req[r].holder \in Holders /\ req[r].row.day \in Days
          /\ held[req[r].holder].day \in Days
      BY <1>1, RequestIs, HoldingIs
    <2>2. \A h \in Holders, d \in Days : \A n : Asked(h, d, n) => Asked(h, d, n)'
      BY <1>3, <1>5 DEF Asked, Fits
    <2>3. Checked(r)
      BY DEF StockOK
    <2>4. \A h \in Rentals : Consumes(h) => Consumes(h)'
      BY <1>3 DEF Consumes, Holders
    <2> QED  BY <1>2, <1>3, <2>1, <2>2, <2>3, <2>4 DEF Checked
  <1>7. NoDayOverbooked'
    BY <1>2, <1>3, <1>5 DEF StockOK, NoDayOverbooked
  <1> QED  BY <1>4, <1>6, <1>7 DEF StockOK

-----------------------------------------------------------------------------
(* The journal.                                                            *)

\* While a request is under way the journal is not marked as aligned.
LEMMA BusyIsNotAligned ==
  ASSUME JournalOK, NEW r \in Requests, req[r].pc # "idle"
  PROVE  ~aligned
  BY DEF JournalOK, Quiet

\* A request that neither aligns nor records leaves the journal in step.
LEMMA JournalKept ==
  ASSUME OneRequest, NEW r \in Requests, JournalOnce', ~aligned',
         req'[r].pc # "record", ~(req'[r].pc = "sync" /\ req'[r].task = "align")
  PROVE  JournalOK'
  <1>1. \A u \in Requests : u = r
    BY DEF OneRequest
  <1>2. Journals(r)'
    BY DEF Journals
  <1> QED  BY <1>1, <1>2 DEF JournalOK, AlignedAlone

\* An alignment starts with everything to go through.
LEMMA StartAlignJournal ==
  ASSUME OneRequest, NEW r \in Requests, BookingTypeOK, JournalOK, StartAlign(r)
  PROVE  JournalOK'
  <1> DEFINE q == [Idle EXCEPT !.pc = "sync", !.task = "align", !.rows = held,
                               !.todo = {b \in Reservations : Stored(b)}]
  <1>1. /\ q \in Request /\ q.pc = "sync" /\ q.task = "align" /\ q.rows = held
        /\ q.todo = {b \in Reservations : Stored(b)}
    BY IdleIs, TypesAre DEF Request, Steps, Tasks
  <1>2. /\ Becomes(r, q) /\ ~aligned'
        /\ UNCHANGED <<today, held, lines, journal, aborts>>
    BY DEF StartAlign, Begins
  <1> HIDE DEF q
  <1>3. req'[r] = q /\ \A u \in Requests : u = r
    BY <1>1, <1>2, OnlyBecomes, TypesAre
  <1>4. Journals(r)'
    BY <1>1, <1>2, <1>3 DEF Journals, Stored
  <1> QED  BY <1>2, <1>3, <1>4 DEF JournalOK, JournalOnce, AlignedAlone

\* A use that counts and is not there is about to be recorded.
LEMMA LookUpJournal ==
  ASSUME OneRequest, NEW r \in Requests, BookingTypeOK, JournalOK, NEW b \in Reservations,
         LookUp(r, b), ~AlreadyRecorded(req[r].rows[b])
  PROVE  JournalOK'
  <1> DEFINE q == [req[r] EXCEPT !.pc = "record", !.holder = b]
  <1>1. /\ req[r] \in Request /\ req[r].pc = "sync" /\ b \in req[r].todo
        /\ CountsAsUse(req[r].rows[b]) /\ req[r].rows[b] \in Holding
        /\ Becomes(r, q)
        /\ UNCHANGED <<today, held, lines, journal, aborts, unchecked, aligned>>
    BY TypesAre, RequestIs DEF LookUp, Reads, Holders
  <1>2. /\ q \in Request /\ q.pc = "record" /\ q.holder = b /\ q.todo = req[r].todo
        /\ q.rows = req[r].rows /\ q.task = req[r].task
    BY <1>1 DEF Request, Steps, Holders
  <1> HIDE DEF q
  <1>3. req'[r] = q /\ \A u \in Requests : u = r
    BY <1>1, <1>2, OnlyBecomes, TypesAre
  <1>4. journal[<<req[r].rows[b].key, req[r].rows[b].day>>] = 0
    <2>1. <<req[r].rows[b].key, req[r].rows[b].day>> \in Keys \X Days
      BY <1>1, HoldingIs
    <2>2. journal[<<req[r].rows[b].key, req[r].rows[b].day>>] \in Nat
      BY <2>1, TypesAre
    <2> QED  BY <2>2 DEF AlreadyRecorded
  <1>5. Journals(r)
    BY DEF JournalOK
  <1>6. Journals(r)'
    BY <1>1, <1>2, <1>3, <1>4, <1>5 DEF Journals, UsesInStep, CountsAsUse
  <1>7. ~aligned'
    BY <1>1, BusyIsNotAligned
  <1> QED  BY <1>1, <1>3, <1>6, <1>7 DEF JournalOK, JournalOnce, AlignedAlone

\* Going through one reservation brings its own uses in step and disturbs those of
\* its day only; when it was the last one, all are in step.
LEMMA SettledJournal ==
  ASSUME OneRequest, NEW r \in Requests, BookingTypeOK, JournalOK, NEW b \in req[r].todo,
         NEW reads \in [Holders -> Holding], reads = req[r].rows,
         req[r].pc \in {"sync", "record"}, Settled(r, b), JournalOnce',
         UsesInStep(reads[b])',
         \A k \in Keys, d \in Days :
            d # reads[b].day => journal'[<<k, d>>] = journal[<<k, d>>]
  PROVE  JournalOK'
  <1>1. /\ req[r] \in Request /\ req[r].todo \in SUBSET Reservations /\ Journals(r) /\ b \in Reservations
    BY TypesAre, RequestIs DEF JournalOK
  <1> DEFINE left == req[r].todo \ {b}
             q == [req[r] EXCEPT !.pc = "sync", !.todo = left]
  <1>2. /\ q \in Request /\ q.pc = "sync" /\ q.todo = left /\ q.rows = reads
        /\ q.task = req[r].task
    BY <1>1 DEF Request, Steps
  <1>3. left \in SUBSET Reservations /\ \A c \in Reservations \ left : c = b \/ c \notin req[r].todo
    BY <1>1
  <1>4. /\ left = {} => Becomes(r, Idle)
        /\ left # {} => Becomes(r, q)
        /\ aligned' = /\ req[r].task = "align" /\ left = {}
                      /\ \A c \in Reservations : reads[c] = held[c]
        /\ UNCHANGED <<today, held>>
    BY DEF Settled
  <1> HIDE DEF q, left
  <1>5. /\ left = {} => req'[r] = Idle
        /\ left # {} => req'[r] = q
        /\ \A u \in Requests : u = r
    BY <1>2, <1>4, IdleIs, OnlyBecomes, TypesAre
  \* What the alignment has been through, this reservation included, is in step.
  <1>6. ASSUME req[r].task = "align", NEW c \in Reservations \ left,
               reads[c].state # "absent", AloneIn(reads, c)
        PROVE  UsesInStep(reads[c])'
    <2>2. CASE c = b
      BY <2>2
    <2>3. CASE c # b
      <3>1. /\ UsesInStep(reads[c]) /\ reads[b].state # "absent"
        BY <1>1, <1>3, <1>6, <2>3 DEF Journals
      <3>2. reads[b].day # reads[c].day /\ reads[c].day \in Days /\ reads[c].key \in Keys
        BY <1>1, <1>6, <2>3, <3>1, HoldingIs DEF AloneIn, Holders
      <3>3. \A k \in Keys : journal'[<<k, reads[c].day>>] = journal[<<k, reads[c].day>>]
        BY <3>2
      <3>4. UsesInStep(reads[c])'
        BY <1>4, <3>1, <3>2, <3>3 DEF UsesInStep, CountsAsUse
      <3> QED  BY <3>4
    <2> QED  BY <2>2, <2>3
  <1>7. CASE left = {}
    <2>1. req'[r].pc = "idle"
      BY <1>5, <1>7, IdleIs
    <2>2. Journals(r)'
      BY <2>1 DEF Journals
    <2>3. Quiet'
      BY <1>5, <2>1 DEF Quiet
    <2>4. ASSUME aligned', NEW c \in Reservations, Stored(c),
                 \A x \in Reservations \ {c} : Stored(x) => held[x].day # held[c].day
          PROVE  UsesInStep(held[c])'
      <3>1. req[r].task = "align" /\ \A x \in Reservations : reads[x] = held[x]
        BY <1>4, <2>4
      <3>2. AloneIn(reads, c) /\ reads[c].state # "absent"
        BY <2>4, <3>1 DEF AloneIn, Stored
      <3>3. UsesInStep(reads[c])'
        BY <1>6, <1>7, <3>1, <3>2
      <3> QED  BY <1>4, <3>1, <3>3 DEF UsesInStep, CountsAsUse
    <2>5. AlignedAlone'
      BY <1>4, <2>4 DEF AlignedAlone, UsesInStep, CountsAsUse, Stored
    <2> QED  BY <1>5, <2>2, <2>3, <2>5 DEF JournalOK
  <1>8. CASE left # {}
    <2>1. ~aligned' /\ req'[r] = q
      BY <1>4, <1>5, <1>8
    <2>2. Journals(r)'
      <3>1. req[r].task = "align" => \A c \in left : reads[c].state # "absent"
        BY <1>1 DEF Journals, left
      <3>2. req[r].task = "align" =>
               \A c \in Reservations \ left :
                  reads[c].state # "absent" /\ AloneIn(reads, c) =>
                      UsesInStep(reads[c])'
        BY <1>6
      <3>3. /\ req'[r].pc = "sync" /\ req'[r].todo = left /\ req'[r].rows = reads
            /\ req'[r].task = req[r].task
        BY <1>2, <2>1
      <3> QED  BY <3>1, <3>2, <3>3 DEF Journals, AloneIn, UsesInStep, CountsAsUse
    <2> QED  BY <1>5, <2>1, <2>2 DEF JournalOK, AlignedAlone
  <1> QED  BY <1>7, <1>8

\* Only an alignment and a use to be recorded are a matter for the journal: the other
\* steps of a request, and its death, leave it or remove uses.
LEMMA OtherStepsJournal ==
  ASSUME OneRequest, NEW r \in Requests, StockOK, JournalOK,
         \/ WriteRow(r) \/ ClearLines(r) \/ CreateLines(r) \/ Refetch(r) \/ WriteState(r)
         \/ WriteMove(r) \/ RemoveUses(r) \/ Delete(r) \/ NothingToAlign(r) \/ Abort(r)
  PROVE  JournalOK'
  <1>1. /\ req \in [Requests -> Request] /\ req[r] \in Request /\ Idle.pc = "idle"
        /\ Checked(r)
    BY TypesAre, IdleIs DEF StockOK
  <1>2. ~aligned'
    <2>1. req[r].pc # "idle" /\ aligned' = aligned
      BY DEF WriteRow, ClearLines, CreateLines, WriteLines, Refetch, Reads, WriteState,
             WriteMove, RemoveUses, Delete, NothingToAlign, Fails, Abort
    <2> QED  BY <2>1, BusyIsNotAligned
  <1>3. JournalOnce'
    <2>1. CASE RemoveUses(r)
      BY <2>1 DEF RemoveUses, UsesRemoved, JournalOnce, JournalOK
    <2>2. CASE ~RemoveUses(r)
      <3>1. journal' = journal
        BY <2>2 DEF WriteRow, ClearLines, CreateLines, WriteLines, Refetch, Reads, WriteState,
               WriteMove, Delete, NothingToAlign, Fails, Abort
      <3> QED  BY <3>1 DEF JournalOnce, JournalOK
    <2> QED  BY <2>1, <2>2
  <1>4. req'[r].pc # "record" /\ ~(req'[r].pc = "sync" /\ req'[r].task = "align")
    <2>1. CASE WriteMove(r) \/ Delete(r) \/ NothingToAlign(r) \/ Abort(r)
      BY <1>1, <2>1 DEF WriteMove, Delete, NothingToAlign, Fails, Abort, Becomes
    <2>2. CASE WriteRow(r)
      BY <1>1, <2>2 DEF WriteRow, Becomes, Request
    <2>3. CASE ClearLines(r) \/ CreateLines(r)
      BY <1>1, <2>3 DEF ClearLines, CreateLines, WriteLines, Becomes, Request
    <2>4. CASE Refetch(r)
      BY <1>1, <2>4 DEF Refetch, Reads, Becomes, Request, Checked
    <2>5. CASE WriteState(r)
      BY <1>1, <2>5 DEF WriteState, Becomes, Request
    <2>6. CASE RemoveUses(r)
      BY <1>1, <2>6 DEF RemoveUses, Becomes, Request
    <2> QED  BY <2>1, <2>2, <2>3, <2>4, <2>5, <2>6
  <1> QED  BY <1>2, <1>3, <1>4, JournalKept

\* Requests that do not align begin without a use to record.
LEMMA BeginsJournal ==
  ASSUME OneRequest, NEW r \in Requests, NEW q \in Request, BookingTypeOK, JournalOK,
         Begins(r, q), q.pc \in {"row", "remove"}
  PROVE  JournalOK'
  <1>1. req'[r] = q /\ ~aligned' /\ journal' = journal
    BY OnlyBecomes, TypesAre DEF Begins
  <1> QED  BY <1>1, JournalKept DEF JournalOK, JournalOnce

\* A payment, and the passing of a day, are for the next alignment.
LEMMA OutsideJournal ==
  ASSUME JournalOK, (\E b \in Reservations : PayHolding(b)) \/ Tick
  PROVE  JournalOK'
  <1>1. UNCHANGED <<req, journal>> /\ ~aligned'
    BY DEF PayHolding, Tick
  <1>2. ASSUME NEW r \in Requests  PROVE Journals(r)'
    <2>1. Journals(r)
      BY DEF JournalOK
    <2>2. CASE Tick
      <3>1. req[r].pc = "idle"
        BY <2>2 DEF Tick
      <3> QED  BY <1>1, <3>1 DEF Journals
    <2>3. CASE \E b \in Reservations : PayHolding(b)
      <3>1. today' = today
        BY <2>3 DEF PayHolding
      <3> QED  BY <1>1, <2>1, <3>1 DEF Journals, UsesInStep, CountsAsUse
    <2> QED  BY <2>2, <2>3
  <1> QED  BY <1>1, <1>2 DEF JournalOK, JournalOnce, AlignedAlone

\* A use is looked up, recorded or removed, and its reservation is settled.
LEMMA SettlingJournal ==
  ASSUME OneRequest, NEW r \in Requests, BookingTypeOK, JournalOK, NEW b \in req[r].todo,
         NEW reads \in [Holders -> Holding], reads = req[r].rows,
         req[r].pc \in {"sync", "record"}, Settled(r, b),
         \/ CountsAsUse(reads[b]) /\ AlreadyRecorded(reads[b]) /\ UNCHANGED journal
         \/ /\ CountsAsUse(reads[b]) /\ journal[<<reads[b].key, reads[b].day>>] = 0
            /\ journal' = [journal EXCEPT ![<<reads[b].key, reads[b].day>>] = @ + 1]
         \/ ~CountsAsUse(reads[b]) /\ UsesRemoved(b, reads[b])
  PROVE  JournalOK' /\ journal' \in [Keys \X Days -> Nat]
  <1>1. b \in Holders /\ journal \in [Keys \X Days -> Nat]
    BY TypesAre, RequestIs DEF Holders
  <1>2. PICK key \in Keys, day \in Days : key = reads[b].key /\ day = reads[b].day
    BY <1>1, HoldingIs
  <1>3. /\ <<key, day>> \in Keys \X Days
        /\ \A k \in Keys, d \in Days : d # day => <<k, d>> # <<key, day>>
    BY <1>2
  <1>4. \A u \in Keys \X Days : journal[u] <= 1 /\ journal[u] \in Nat
    BY <1>1 DEF JournalOK, JournalOnce
  <1>5. today' = today
    BY DEF Settled
  <1>6. CASE CountsAsUse(reads[b]) /\ AlreadyRecorded(reads[b]) /\ UNCHANGED journal
    <2>1. journal[<<key, day>>] = 1
      BY <1>2, <1>3, <1>4, <1>6 DEF AlreadyRecorded
    <2>2. UsesInStep(reads[b])'
      BY <1>2, <1>5, <1>6, <2>1 DEF UsesInStep, CountsAsUse
    <2>3. JournalOnce'
      BY <1>4, <1>6 DEF JournalOnce
    <2> QED  BY <1>1, <1>6, <2>2, <2>3, SettledJournal
  <1>7. CASE /\ CountsAsUse(reads[b]) /\ journal[<<key, day>>] = 0
             /\ journal' = [journal EXCEPT ![<<key, day>>] = @ + 1]
    <2>1. journal' = [journal EXCEPT ![<<key, day>>] = 1]
      BY <1>1, <1>3, <1>7
    <2>2. /\ journal' \in [Keys \X Days -> Nat] /\ journal'[<<key, day>>] = 1
          /\ \A u \in Keys \X Days : u # <<key, day>> => journal'[u] = journal[u]
      BY <1>1, <1>3, <2>1
    <2>3. UsesInStep(reads[b])'
      BY <1>2, <1>5, <1>7, <2>2 DEF UsesInStep, CountsAsUse
    <2>4. JournalOnce'
      BY <1>4, <2>2 DEF JournalOnce
    <2>5. \A k \in Keys, d \in Days : d # reads[b].day => journal'[<<k, d>>] = journal[<<k, d>>]
      BY <1>2, <1>3, <2>2
    <2> QED  BY <2>2, <2>3, <2>4, <2>5, SettledJournal
  <1>8. CASE ~CountsAsUse(reads[b]) /\ UsesRemoved(b, reads[b])
    <2>1. journal' = [u \in Keys \X Days |-> IF u[2] = day THEN 0 ELSE journal[u]]
      BY <1>2, <1>8 DEF UsesRemoved
    <2>2. /\ journal' \in [Keys \X Days -> Nat]
          /\ \A k \in Keys, d \in Days :
                journal'[<<k, d>>] = IF d = day THEN 0 ELSE journal[<<k, d>>]
      BY <1>4, <2>1
    <2>3. UsesInStep(reads[b])'
      BY <1>2, <1>5, <1>8, <2>2 DEF UsesInStep, CountsAsUse
    <2>4. JournalOnce'
      BY <1>4, <2>1 DEF JournalOnce
    <2>5. \A k \in Keys, d \in Days : d # reads[b].day => journal'[<<k, d>>] = journal[<<k, d>>]
      BY <1>2, <2>2
    <2> QED  BY <2>2, <2>3, <2>4, <2>5, SettledJournal
  <1> QED  BY <1>2, <1>6, <1>7, <1>8

\* The journal's steps take nothing from the stock.
LEMMA SettledStock ==
  ASSUME OneRequest, NEW r \in Requests, StockOK, NEW b \in Reservations,
         req[r].pc \in {"sync", "record"}, Settled(r, b), journal' \in [Keys \X Days -> Nat]
  PROVE  StockOK'
  <1>1. req[r] \in Request /\ req[r].todo \in SUBSET Reservations
    BY TypesAre, RequestIs DEF StockOK
  <1> DEFINE left == req[r].todo \ {b}
             on == [req[r] EXCEPT !.pc = "sync", !.todo = left]
             q == IF left = {} THEN Idle ELSE on
  <1>2. on \in Request /\ on.pc = "sync"
    BY <1>1 DEF Request, Steps
  <1>3. Becomes(r, q) /\ UNCHANGED <<today, held, lines, aborts, unchecked>>
    BY DEF Settled
  <1>4. aligned' \in BOOLEAN
    BY Zenon DEF Settled
  <1> HIDE DEF on
  <1>5. q \in Request /\ q.pc \in {"sync", "idle"}
    BY <1>2, IdleIs
  <1> HIDE DEF q
  <1> QED  BY <1>3, <1>4, <1>5, StockKept

\* The steps of the journal keep the invariant.
LEMMA JournalSteps ==
  ASSUME OneRequest, NEW r \in Requests, BookingInv,
         (\E b \in Reservations : LookUp(r, b) \/ RemoveUse(r, b)) \/ Record(r)
  PROVE  BookingInv'
  <1>1. /\ StockOK /\ JournalOK /\ BookingTypeOK /\ req[r] \in Request
        /\ req[r].todo \in SUBSET Reservations /\ Journals(r)
    BY TypesAre, RequestIs DEF BookingInv, StockOK, JournalOK
  <1>2. PICK reads \in [Holders -> Holding] : reads = req[r].rows
    BY <1>1, RequestIs
  <1>3. ASSUME NEW b \in req[r].todo, Settled(r, b), req[r].pc \in {"sync", "record"},
         \/ CountsAsUse(reads[b]) /\ AlreadyRecorded(reads[b]) /\ UNCHANGED journal
         \/ /\ CountsAsUse(reads[b]) /\ journal[<<reads[b].key, reads[b].day>>] = 0
            /\ journal' = [journal EXCEPT ![<<reads[b].key, reads[b].day>>] = @ + 1]
         \/ ~CountsAsUse(reads[b]) /\ UsesRemoved(b, reads[b])
        PROVE  BookingInv'
    <2>1. JournalOK' /\ journal' \in [Keys \X Days -> Nat]
      BY <1>1, <1>2, <1>3, SettlingJournal
    <2>2. StockOK'
      BY <1>1, <1>3, <2>1, SettledStock
    <2> QED  BY <2>1, <2>2 DEF BookingInv
  <1>4. ASSUME NEW b \in Reservations, LookUp(r, b)  PROVE BookingInv'
    <2>1. CASE AlreadyRecorded(reads[b])
      BY <1>2, <1>3, <1>4, <2>1 DEF LookUp
    <2>2. CASE ~AlreadyRecorded(reads[b])
      <3> DEFINE q == [req[r] EXCEPT !.pc = "record", !.holder = b]
      <3>1. q \in Request /\ q.pc = "record"
        BY <1>1 DEF Request, Steps, Holders
      <3>2. /\ Becomes(r, q) /\ req[r].pc = "sync"
            /\ UNCHANGED <<today, held, lines, journal, aborts, unchecked, aligned>>
        BY <1>2, <1>4, <2>2 DEF LookUp, Reads
      <3>3. journal' \in [Keys \X Days -> Nat] /\ aligned' \in BOOLEAN
        BY <1>1, <3>2 DEF BookingTypeOK
      <3> HIDE DEF q
      <3>4. StockOK'
        BY <1>1, <3>1, <3>2, <3>3, StockKept
      <3>5. JournalOK'
        BY <1>1, <1>2, <1>4, <2>2, LookUpJournal
      <3> QED  BY <3>4, <3>5 DEF BookingInv
    <2> QED  BY <2>1, <2>2
  <1>5. ASSUME NEW b \in Reservations, RemoveUse(r, b)  PROVE BookingInv'
    BY <1>2, <1>3, <1>5 DEF RemoveUse
  <1>6. CASE Record(r)
    <2>1. PICK b \in req[r].todo : b = req[r].holder
      BY <1>1, <1>6 DEF Record, Journals
    <2>2. CountsAsUse(reads[b]) /\ journal[<<reads[b].key, reads[b].day>>] = 0
      BY <1>1, <1>2, <1>6, <2>1 DEF Record, Journals
    <2>3. /\ Settled(r, b) /\ req[r].pc = "record"
          /\ journal' = [journal EXCEPT ![<<reads[b].key, reads[b].day>>] = @ + 1]
      BY <1>2, <1>6, <2>1 DEF Record
    <2> QED  BY <1>3, <2>2, <2>3
  <1> QED  BY <1>4, <1>5, <1>6

-----------------------------------------------------------------------------
(* The requests begin.                                                     *)

\* A creation or an edition that begins keeps the invariant;
LEMMA CreateStarts ==
  ASSUME OneRequest, NEW r \in Requests, BookingInv,
         NEW h \in Holders, NEW new \in Holding, NEW qty \in 0..(Stock + 1),
         StartCreate(r, h, new, qty) \/ StartEdit(r, h, new, qty)
  PROVE  BookingInv'
  <1> DEFINE create == [Idle EXCEPT !.pc = "row", !.task = "create", !.holder = h,
                                    !.row = new, !.qty = qty]
             edit == [Idle EXCEPT !.pc = "row", !.task = "edit", !.holder = h,
                                  !.row = new, !.qty = qty]
  <1>1. /\ create \in Request /\ create.pc = "row" /\ create.task = "create"
        /\ create.holder = h /\ create.row = new /\ create.qty = qty
        /\ edit \in Request /\ edit.pc = "row" /\ edit.task = "edit"
        /\ edit.holder = h /\ edit.row = new /\ edit.qty = qty
    BY IdleIs DEF Request, Steps, Tasks
  <1>2. StockOK /\ JournalOK /\ BookingTypeOK
    BY DEF BookingInv, StockOK
  <1>3. CASE StartCreate(r, h, new, qty)
    <2>1. Begins(r, create) /\ Fits(h, new.day, qty) /\ new.state # "absent"
      BY <1>3 DEF StartCreate
    <2> HIDE DEF create
    <2> QED  BY <1>1, <1>2, <2>1, StartsChecked, BeginsJournal DEF BookingInv
  <1>4. CASE StartEdit(r, h, new, qty)
    <2>1. /\ Begins(r, edit) /\ new.state # "absent"
          /\ \/ Fits(h, new.day, qty)
             \/ /\ h \in Rentals /\ Stored(h) /\ held[h].state # "void"
                /\ new.day = held[h].day /\ qty = lines[h]
      BY <1>4 DEF StartEdit
    <2>2. held[h].state \in States
      BY <1>2, TypesAre, HoldingIs
    <2>3. Stored(h) /\ held[h].state # "void" => Consumes(h)
      BY <2>2 DEF Stored, Consumes, States
    <2> HIDE DEF edit
    <2> QED  BY <1>1, <1>2, <2>1, <2>3, StartsChecked, BeginsJournal DEF BookingInv
  <1> QED  BY <1>3, <1>4

\* so does a cancellation, a restoration or a move,
LEMMA ChangeStarts ==
  ASSUME OneRequest, NEW r \in Requests, BookingInv,
         NEW b \in Reservations, NEW new \in Holding,
         NEW task \in {"cancel", "restore", "move"}, StartChange(r, task, b, new)
  PROVE  BookingInv'
  <1> DEFINE q == [Idle EXCEPT !.pc = "row", !.task = task, !.holder = b, !.row = new]
  <1>1. /\ q \in Request /\ q.pc = "row" /\ q.task = task
        /\ q.holder = b /\ q.row = new
    BY IdleIs DEF Request, Steps, Tasks, Holders
  <1>2. StockOK /\ JournalOK /\ BookingTypeOK /\ held[b] \in Holding
    BY TypesAre DEF BookingInv, StockOK, Holders
  <1>3. /\ Begins(r, q) /\ Stored(b)
        /\ task = "cancel" => new = [held[b] EXCEPT !.state = "void"]
        /\ task = "restore" => new.state # "absent"
    BY DEF StartChange
  <1>4. task = "cancel" => new.state = "void"
    BY <1>2, <1>3 DEF Holding
  <1> HIDE DEF q
  <1> QED  BY <1>1, <1>2, <1>3, <1>4, StartsChecked, BeginsJournal DEF BookingInv

\* a deletion,
LEMMA RemoveStarts ==
  ASSUME OneRequest, NEW r \in Requests, BookingInv, NEW h \in Holders, StartRemove(r, h)
  PROVE  BookingInv'
  <1>1. StockOK /\ JournalOK /\ BookingTypeOK /\ held[h] \in Holding
    BY TypesAre DEF BookingInv, StockOK
  <1> DEFINE rows == [Idle.rows EXCEPT ![h] = held[h]]
             q == [Idle EXCEPT !.pc = "remove", !.task = "remove", !.holder = h,
                               !.rows[h] = held[h]]
  <1>2. rows \in [Holders -> Holding]
    BY <1>1, IdleIs, RequestIs
  <1>3. q = [Idle EXCEPT !.pc = "remove", !.task = "remove", !.holder = h, !.rows = rows]
    BY IdleIs DEF Request
  <1>4. Begins(r, q)
    BY DEF StartRemove
  <1> HIDE DEF rows, q
  <1>5. q \in Request /\ q.pc = "remove"
    BY <1>2, <1>3, IdleIs DEF Request, Steps, Tasks
  <1> QED  BY <1>1, <1>4, <1>5, StartsChecked, BeginsJournal DEF BookingInv

\* and an alignment.
LEMMA AlignStarts ==
  ASSUME OneRequest, NEW r \in Requests, BookingInv, StartAlign(r)
  PROVE  BookingInv'
  <1>1. StockOK /\ JournalOK /\ BookingTypeOK /\ held \in [Holders -> Holding]
    BY TypesAre DEF BookingInv, StockOK
  <1> DEFINE q == [Idle EXCEPT !.pc = "sync", !.task = "align", !.rows = held,
                               !.todo = {b \in Reservations : Stored(b)}]
  <1>2. q \in Request /\ q.pc = "sync"
    BY <1>1, IdleIs DEF Request, Steps, Tasks
  <1>3. Begins(r, q)
    BY DEF StartAlign
  <1> HIDE DEF q
  <1> QED  BY <1>1, <1>2, <1>3, StartsChecked, StartAlignJournal DEF BookingInv

-----------------------------------------------------------------------------
(* Every step.                                                             *)

\* The steps of a running request that write neither rows nor lines.
LEMMA QuietStepsStock ==
  ASSUME OneRequest, NEW r \in Requests, StockOK,
         Refetch(r) \/ RemoveUses(r) \/ NothingToAlign(r) \/ Abort(r)
  PROVE  StockOK'
  <1>1. /\ BookingTypeOK /\ req[r] \in Request /\ journal \in [Keys \X Days -> Nat]
        /\ held \in [Holders -> Holding] /\ req[r].rows \in [Holders -> Holding]
        /\ aligned \in BOOLEAN /\ aborts \in 0..MaxAborts /\ Checked(r)
    BY TypesAre, RequestIs DEF StockOK, BookingTypeOK
  <1>2. CASE Refetch(r)
    <2>1. PICK b \in Reservations : b = req[r].holder
      BY <1>1, <1>2 DEF Refetch, Checked
    <2> DEFINE rows == [req[r].rows EXCEPT ![b] = held[b]]
               q == [req[r] EXCEPT !.pc = "sync", !.rows[b] = held[b], !.todo = {b}]
    <2>2. rows \in [Holders -> Holding]
      BY <1>1, <2>1 DEF Holders
    <2>3. q = [req[r] EXCEPT !.pc = "sync", !.rows = rows, !.todo = {b}]
      BY <1>1 DEF Request
    <2>4. /\ Becomes(r, q) /\ req[r].pc = "refetch"
          /\ UNCHANGED <<today, held, lines, journal, aborts, unchecked, aligned>>
      BY <1>2, <2>1 DEF Refetch, Reads
    <2> HIDE DEF rows, q
    <2>5. q \in Request /\ q.pc = "sync"
      BY <1>1, <2>1, <2>2, <2>3 DEF Request, Steps
    <2> QED  BY <1>1, <2>4, <2>5, StockKept
  <1>3. CASE RemoveUses(r)
    <2> DEFINE q == [req[r] EXCEPT !.pc = "delete"]
    <2>1. q \in Request /\ q.pc = "delete"
      BY <1>1 DEF Request, Steps
    <2>2. /\ Becomes(r, q) /\ req[r].pc = "remove"
          /\ UNCHANGED <<today, held, lines, aborts, unchecked, aligned>>
      BY <1>3 DEF RemoveUses
    <2>3. journal' \in [Keys \X Days -> Nat]
      BY <1>1, <1>3 DEF RemoveUses, UsesRemoved
    <2> HIDE DEF q
    <2> QED  BY <1>1, <2>1, <2>2, <2>3, StockKept
  <1>4. CASE NothingToAlign(r)
    <2>1. /\ Becomes(r, Idle) /\ req[r].pc = "sync"
          /\ UNCHANGED <<today, held, lines, journal, aborts, unchecked, aligned>>
      BY <1>4 DEF NothingToAlign, Fails
    <2> QED  BY <1>1, <2>1, IdleIs, StockKept
  <1>5. CASE Abort(r)
    <2>1. /\ Becomes(r, Idle) /\ aborts' = aborts + 1 /\ aborts < MaxAborts
          /\ UNCHANGED <<today, held, lines, journal, unchecked, aligned>>
      BY <1>5 DEF Abort
    <2>2. aborts' \in 1..MaxAborts
      BY <1>1, <2>1, BookingAssumption
    <2> QED  BY <1>1, <2>1, <2>2, IdleIs, StockKept
  <1> QED  BY <1>2, <1>3, <1>4, <1>5

\* A step of the request keeps the invariant.
LEMMA HandlerKeeps ==
  ASSUME OneRequest, NEW r \in Requests, BookingInv, Handler(r)
  PROVE  BookingInv'
  <1>1. StockOK /\ JournalOK
    BY DEF BookingInv
  <1>2. ASSUME NEW h \in Holders, NEW new \in Holding, NEW qty \in 0..(Stock + 1),
               StartCreate(r, h, new, qty) \/ StartEdit(r, h, new, qty)
        PROVE  BookingInv'
    BY <1>2, CreateStarts
  <1>3. ASSUME NEW b \in Reservations, NEW new \in Holding,
               NEW task \in {"cancel", "restore", "move"}, StartChange(r, task, b, new)
        PROVE  BookingInv'
    BY <1>3, ChangeStarts
  <1>4. ASSUME NEW h \in Holders, StartRemove(r, h)  PROVE BookingInv'
    BY <1>4, RemoveStarts
  <1>5. CASE StartAlign(r)
    BY <1>5, AlignStarts
  <1>6. CASE \/ WriteRow(r) \/ ClearLines(r) \/ CreateLines(r) \/ Refetch(r) \/ WriteState(r)
             \/ WriteMove(r) \/ RemoveUses(r) \/ Delete(r) \/ NothingToAlign(r) \/ Abort(r)
    <2>1. JournalOK'
      BY <1>1, <1>6, OtherStepsJournal
    <2>2. StockOK'
      BY <1>1, <1>6, WriteRowStock, WriteLinesStock, WriteChangeStock, DeleteStock,
         QuietStepsStock
    <2> QED  BY <2>1, <2>2 DEF BookingInv
  <1>7. CASE (\E b \in Reservations : LookUp(r, b) \/ RemoveUse(r, b)) \/ Record(r)
    BY <1>7, JournalSteps
  <1> QED  BY <1>2, <1>3, <1>4, <1>5, <1>6, <1>7 DEF Handler

\* So does a step that leaves everything.
LEMMA StutterKeeps ==
  ASSUME BookingInv, UNCHANGED bookingVars
  PROVE  BookingInv'
  <1>1. UNCHANGED <<today, held, lines, journal, req, aborts, unchecked, aligned>>
    BY DEF bookingVars
  <1>2. BookingTypeOK'
    BY <1>1 DEF BookingInv, StockOK, BookingTypeOK
  <1>3. \A S, d : Reserved(S, d)' = Reserved(S, d)
    BY <1>1 DEF Reserved, Consumes
  <1>4. \A r \in Requests : Checked(r)'
    <2>1. \A h, d, n : Asked(h, d, n)' = Asked(h, d, n)
      BY <1>1, <1>3 DEF Asked, Fits
    <2>2. \A h : Stored(h)' = Stored(h) /\ Consumes(h)' = Consumes(h)
      BY <1>1 DEF Stored, Consumes
    <2> QED  BY <1>1, <2>1, <2>2 DEF BookingInv, StockOK, Checked
  <1>5. NoDayOverbooked'
    BY <1>1, <1>3 DEF BookingInv, StockOK, NoDayOverbooked
  <1>6. JournalOK'
    BY <1>1 DEF BookingInv, JournalOK, JournalOnce, Journals, AlignedAlone, Quiet,
       UsesInStep, CountsAsUse, AloneIn, Stored
  <1> QED  BY <1>2, <1>4, <1>5, <1>6 DEF BookingInv, StockOK

\* The first state.
LEMMA BookingBegins ==
  ASSUME BookingInit
  PROVE  BookingInv
  <1>1. BookingTypeOK
    <2>1. 0 \in 0..LastDay /\ 0 \in 0..Stock /\ 0 \in 0..MaxAborts
      BY BookingAssumption
    <2>2. /\ held \in [Holders -> Holding] /\ req \in [Requests -> Request]
          /\ unchecked \in BOOLEAN /\ aligned \in BOOLEAN
      BY IdleIs DEF BookingInit
    <2>3. \A h \in Holders : held[h] = NotHeld /\ lines[h] = 0
      BY DEF BookingInit, NoneHeld
    <2> QED  BY <2>1, <2>2, <2>3 DEF BookingInit, BookingTypeOK
  <1>2. \A r \in Requests : req[r].pc = "idle"
    BY IdleIs DEF BookingInit
  <1>3. \A r \in Requests : Checked(r) /\ Journals(r)
    BY <1>2 DEF Checked, Journals
  <1>4. ASSUME NEW d \in Days  PROVE Reserved(Holders, d) = 0
    <2>1. {h \in Holders : Consumes(h) /\ held[h].day = d} = {}
      BY DEF BookingInit, NoneHeld, NotHeld, Consumes
    <2> QED  BY <2>1, SumOfNone DEF Reserved
  <1>5. NoDayOverbooked
    BY <1>2, <1>4, BookingAssumption DEF NoDayOverbooked
  <1>6. JournalOK
    BY <1>3 DEF BookingInit, JournalOK, JournalOnce, AlignedAlone
  <1> QED  BY <1>1, <1>3, <1>5, <1>6 DEF BookingInv, StockOK

\* The invariant, whatever dies half-way.
THEOREM BookingInvariance ==
  ASSUME OneRequest
  PROVE  BookingSpec => []BookingInv
  <1>1. BookingInit => BookingInv
    BY BookingBegins
  <1>2. BookingInv /\ [BookingNext]_bookingVars => BookingInv'
    <2> SUFFICES ASSUME BookingInv, [BookingNext]_bookingVars  PROVE BookingInv'
      OBVIOUS
    <2>1. CASE (\E b \in Reservations : PayHolding(b)) \/ Tick
      BY <2>1, OutsideStock, OutsideJournal DEF BookingInv
    <2>2. ASSUME NEW r \in Requests, Handler(r)  PROVE BookingInv'
      BY <2>2, HandlerKeeps
    <2>3. CASE UNCHANGED bookingVars
      BY <2>3, StutterKeeps
    <2> QED  BY <2>1, <2>2, <2>3 DEF BookingNext
  <1> QED  BY <1>1, <1>2, PTL DEF BookingSpec

\* The types: in particular, what a reservation or a rental has taken of the extra
\* never exceeds the stock, and a deleted one has neither row nor lines.
THEOREM BookingTypeCorrect ==
  ASSUME OneRequest
  PROVE  BookingSpec => []BookingTypeOK
  BY BookingInvariance, PTL DEF BookingInv, StockOK

\* assertStockForSlot guards every creation and edition, so requests that run to
\* their end one at a time overbook no day, unless one was moved, restored or paid when
\* it was void.
THEOREM StockIsNotOverbooked ==
  ASSUME OneRequest
  PROVE  BookingSpec => []NotOverbooked
  <1>1. BookingInv => NotOverbooked
    BY DEF BookingInv, StockOK, NoDayOverbooked, NotOverbooked, Quiet
  <1> QED  BY <1>1, BookingInvariance, PTL

\* A use is looked up before it is recorded, so the journal of the coupon has it once.
THEOREM JournalHasUsesOnce ==
  ASSUME OneRequest
  PROVE  BookingSpec => []JournalOnce
  BY BookingInvariance, PTL DEF BookingInv, JournalOK

\* syncRedemptionsFromReservations brings the uses of a day that one reservation has
\* to itself in step with its row.
THEOREM AlignmentRepairs ==
  ASSUME OneRequest
  PROVE  BookingSpec => []AlignedAlone
  BY BookingInvariance, PTL DEF BookingInv, JournalOK

==============================================================================
