--------------------------- MODULE MCReservationStore ---------------------------
(***************************************************************************)
(* One tab with two calls under way: what another tab does reaches the row *)
(* as its own edits from an old form do, and reaches the tab as a payment  *)
(* or a cancellation does. The calls are interchangeable.                  *)
(***************************************************************************)
EXTENDS ReservationStore, TLC

CONSTANTS s1, c1, c2, before, after

Symmetry == Permutations({c1, c2})

================================================================================
