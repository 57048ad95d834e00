-------------------------- MODULE MCMemberCredits --------------------------
(***************************************************************************)
(* MemberCredits for TLC: the prices around the 50 cents Stripe can take,  *)
(* and two credits of which neither covers the larger price.               *)
(***************************************************************************)
EXTENDS MemberCredits, TLC

CONSTANTS x1, x2, x3, x4

\* Two reservations that compete for the credits.
TwoPrices == (x1 :> 90) @@ (x2 :> 130)

\* Two that need no payment, and the two.
FourPrices == TwoPrices @@ (x3 :> 49) @@ (x4 :> 0)

TwoCredits == <<40, 100>>
=============================================================================
