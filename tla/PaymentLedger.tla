---------------------------- MODULE PaymentLedger ----------------------------
(***************************************************************************)
(* What the online payment of a reservation promises, without the requests *)
(* that make it: what the client pays in a session stays; the reservation  *)
(* is captured, once and for all, with an amount that was received or when *)
(* nothing can be charged; the amount later differences are counted from   *)
(* was received; the client is invited to sign only after the capture.     *)
(***************************************************************************)
EXTENDS Integers

CONSTANTS
    Sessions,    \* what the client may pay
    Prices,      \* the amounts that may be asked, in cents
    MinCharge    \* the smallest amount that can be charged

VARIABLES
    received,    \* the amount received in each session, 0 before
    captured,    \* the reservation counts as paid
    baseline,    \* the amount later differences are counted from, 0 if none
    invited      \* the client has been invited to sign the contract

vars == <<received, captured, baseline, invited>>

Amounts == {received[s] : s \in Sessions} \ {0}

Init ==
    /\ received = [s \in Sessions |-> 0]
    /\ captured = FALSE
    /\ baseline = 0
    /\ invited = FALSE

Receive(s) ==
    /\ received[s] = 0
    /\ \E amount \in Prices :
          amount >= MinCharge /\ received' = [received EXCEPT ![s] = amount]
    /\ UNCHANGED <<captured, baseline, invited>>

\* Also when the reservation is captured already: a payment may be confirmed again.
Capture ==
    /\ captured' = TRUE
    /\ baseline' \in Amounts
    /\ UNCHANGED <<received, invited>>

Waive ==
    /\ \E p \in Prices : p < MinCharge
    /\ captured' = TRUE
    /\ UNCHANGED <<received, baseline, invited>>

\* An older record may come back, never one of an amount that was not received.
WriteBack ==
    /\ baseline' \in Amounts \cup {0}
    /\ UNCHANGED <<received, captured, invited>>

Invite ==
    /\ captured
    /\ invited' = TRUE
    /\ UNCHANGED <<received, captured, baseline>>

Next == (\E s \in Sessions : Receive(s)) \/ Capture \/ Waive \/ WriteBack \/ Invite

Spec == Init /\ [][Next]_vars
=============================================================================
