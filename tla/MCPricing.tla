------------------------------ MODULE MCPricing ------------------------------
(***************************************************************************)
(* Three reservations of a member, and of somebody with his e-mail, in     *)
(* June (two slots of one day), in July, in October and in June a year     *)
(* later; the full discount is given once a season.                        *)
(***************************************************************************)
EXTENDS Pricing, TLC

CONSTANTS m, e

SomeClients == [member : {m, NoValue}, email : {e}]

ReverseRank == [b \in Bookings |-> 10 - b]

Slots == {1, 3, 5, 9, 13}

Months == 0 :> 5 @@ 1 :> 6 @@ 2 :> 9 @@ 3 :> 5

Years == 0 :> 1 @@ 1 :> 1 @@ 2 :> 1 @@ 3 :> 2

Tenths == [none |-> 0, full |-> 50, degraded |-> 20]

Catalogue == [BASSE |-> 101, MOYENNE |-> 203, HAUTE |-> 305]

\* Amounts whose halves, fifths and sevenths have to be rounded.
SomeForms ==
    [rental : {99, 150}, extras : {0, 33}, share : {0, 15}, share2 : {25}, discount : {0, 7}]
        \cup [rental : {151}, extras : {35}, share : {0}, share2 : {0}, discount : {50}]
==============================================================================
