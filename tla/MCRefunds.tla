------------------------------ MODULE MCRefunds ------------------------------
(***************************************************************************)
(* Refunds for TLC: an online deposit of 2 cents, an online balance of 3   *)
(* and a cent in cash, or 3 cents paid at once through the session the row *)
(* names.                                                                  *)
(***************************************************************************)
EXTENDS Refunds, TLC

CONSTANTS deposit, balance

TwoSales ==
    {[received |-> deposit :> 2 @@ balance :> 3, named |-> {deposit}, row |-> {}, cash |-> 1,
      reports |-> reports] : reports \in BOOLEAN}
    \cup
    {[received |-> deposit :> 3 @@ balance :> 0, named |-> {deposit}, row |-> {deposit},
      cash |-> 0, reports |-> reports] : reports \in BOOLEAN}

Symmetry == Permutations(Requests)
=============================================================================
