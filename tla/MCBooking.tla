------------------------------- MODULE MCBooking -------------------------------
(***************************************************************************)
(* Two reservations and a rental share one unit of an extra and two days;  *)
(* the journal is aligned up to the day after the first.  The extra and    *)
(* the coupon meet in the rows alone: a behaviour has no unit of the extra *)
(* taken, or it stays on the first day and with one key of the client.     *)
(***************************************************************************)
EXTENDS Booking, TLC

CONSTANTS r1, b1, b2, x1

OnlyCoupon ==
    /\ \A h \in Holders : lines[h] = 0 /\ (h \in Rentals => ~Stored(h))
    /\ \A r \in Requests : req[r].qty = 0 /\ (Quiet \/ req[r].holder \in Reservations)

OnlyStock ==
    /\ today = 0
    /\ \A h \in Holders : held[h].key = "email"
    /\ \A r \in Requests : req[r].row.key = "email" /\ req[r].task # "align"

StockOrCoupon == OnlyCoupon \/ OnlyStock

Symmetry == Permutations({b1, b2})

================================================================================
