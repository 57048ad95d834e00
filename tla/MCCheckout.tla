----------------------------- MODULE MCCheckout -----------------------------
(***************************************************************************)
(* Checkout for TLC.  Sessions and requests are sets of model values that  *)
(* the specification never orders or names, so the safety runs take them   *)
(* up to permutation; the liveness run does not.                           *)
(***************************************************************************)
EXTENDS Checkout, TLC

Symmetry == Permutations(Sessions) \cup Permutations(Requests \ Pollers)
=============================================================================
