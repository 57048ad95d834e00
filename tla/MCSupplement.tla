---------------------------- MODULE MCSupplement ----------------------------
(***************************************************************************)
(* Supplement for TLC: a reservation paid 100 cents, and slots that cost   *)
(* 60 cents less, as much, and one or two payable supplements more.        *)
(***************************************************************************)
EXTENDS Supplement, TLC

Symmetry == Permutations(Sessions) \cup Permutations(Requests)
=============================================================================
