------------------------- MODULE MemberCreditsProofs -------------------------
(***************************************************************************)
(* Proofs about MemberCredits, for any reservations, prices, credits and   *)
(* sessions: what holds for any number of requests that may die at any     *)
(* step, then what the code guarantees when requests run one at a time.    *)
(***************************************************************************)
EXTENDS MemberCredits, FiniteSetTheorems, TLAPS

-----------------------------------------------------------------------------
(* Type correctness.                                                       *)

\* A request that runs works on a reservation.
Started == \A r \in Requests : ~At(r, "idle") => req[r].of \in Reservations

Typed == TypeOK /\ Started

\* An idle request is a request.
LEMMA IdleType == Idle \in Request
  BY DEF Idle, Request, Steps, Nothing

\* Replacing a request by one that is idle or works on a reservation keeps the
\* requests typed and started.
LEMMA BecomesType ==
  ASSUME Typed, NEW r \in Requests, NEW q \in Request, Becomes(r, q),
         q.pc = "idle" \/ q.of \in Reservations
  PROVE  req' \in [Requests -> Request] /\ Started'
  BY DEF Typed, TypeOK, Started, Becomes, At

\* Dying, or answering, keeps the requests typed and started.
LEMMA IdleAgain ==
  ASSUME Typed, NEW r \in Requests, Becomes(r, Idle)
  PROVE  req' \in [Requests -> Request] /\ Started'
  BY IdleType, BecomesType DEF Idle

\* The sums and guesses of collectedAmountCents are amounts.
LEMMA CollectedType ==
  ASSUME Typed, NEW x \in Reservations
  PROVE  Recorded(x) \in Nat /\ PaidBesides(x) \in Nat /\ Collected(x) \in Nat
<1>1. applied[x] \in Nat /\ Online(x) \in Nat /\ row[x].total \in Nat
  BY DEF Typed, TypeOK, Row, Online, Larger
<1>2. session[x].amount \in Nat /\ Price[x] \in Nat
  BY MemberCreditsAssumption DEF Typed, TypeOK, Session
<1>3. Recorded(x) \in Nat
  BY <1>1, <1>2 DEF Recorded, Larger, MinCharge
<1>4. PaidBesides(x) \in Nat
  BY <1>2 DEF PaidBesides
<1> QED
  BY <1>3, <1>4 DEF Collected, Larger

\* What one turn of the loop takes is an amount, within both the listed balance
\* and what is left to take.
LEMMA TakeType ==
  ASSUME Typed, NEW r \in Requests, NEW c \in Credits
  PROVE  /\ Smaller(req[r].listed[c], req[r].left) \in Nat
         /\ Smaller(req[r].listed[c], req[r].left) <= req[r].listed[c]
         /\ Smaller(req[r].listed[c], req[r].left) <= req[r].left
  BY DEF Typed, TypeOK, Request, Smaller

\* The initial state is typed.
LEMMA InitTyped == Init => Typed
<1> SUFFICES ASSUME Init PROVE Typed
  OBVIOUS
<1>1. credit \in [Credits -> Credit]
  BY MemberCreditsAssumption DEF Init, Credits, Credit
<1>2. issued \in 0..MaxCredits
  BY MemberCreditsAssumption DEF Init
<1>3. req \in [Requests -> Request] /\ Started
  BY IdleType DEF Init, Started, At, Idle
<1>4. row \in [Reservations -> Row] /\ session \in [Reservations -> Session]
  BY MemberCreditsAssumption DEF Init, Row, Session, Unpaid
<1> QED
  BY <1>1, <1>2, <1>3, <1>4, MemberCreditsAssumption DEF Init, Typed, TypeOK, Nothing

\* The steps of a pricing keep the types.
LEMMA PricingTypes ==
  ASSUME Typed, NEW r \in Requests,
         PricingStep(r) \/ \E x \in Reservations : StartPricing(r, x)
  PROVE  Typed'
<1> USE DEF Typed, TypeOK
<1>0. req[r] \in Request
  OBVIOUS
<1>1. ASSUME NEW x \in Reservations, StartPricing(r, x)
      PROVE  Typed'
  <2> DEFINE q == [Idle EXCEPT
           !.pc = IF row[x].captured THEN "mail"
                  ELSE IF Price[x] = 0 THEN "write" ELSE "applied",
           !.of = x, !.stored = row[x].total]
  <2>1. q \in Request /\ q.of \in Reservations
    BY IdleType DEF Idle, Request, Steps, Row
  <2> QED
    BY <1>1, <2>1, BecomesType DEF StartPricing
<1>2. CASE ReadApplied(r)
  <2>1. req[r].of \in Reservations
    BY <1>2 DEF ReadApplied, Started, At
  <2>2. [req[r] EXCEPT !.pc = "available", !.already = applied[req[r].of]] \in Request
    BY <1>0, <2>1 DEF Request, Steps
  <2> QED
    BY <1>2, <2>1, <2>2, <1>0, BecomesType DEF ReadApplied, Request
<1>3. CASE PlanCredit(r)
  <2>1. req[r].of \in Reservations
    BY <1>3 DEF PlanCredit, Started, At
  <2>2. PICK planned \in 0..Missing(req[r]) :
          Becomes(r, [req[r] EXCEPT !.pc = IF planned > 0 THEN "list" ELSE "write",
                                    !.planned = planned, !.left = planned])
    BY <1>3 DEF PlanCredit
  <2>3. planned \in Nat
    BY <1>0, <2>1, <2>2, MemberCreditsAssumption DEF Missing, Larger, Request
  <2>4. [req[r] EXCEPT !.pc = IF planned > 0 THEN "list" ELSE "write",
                       !.planned = planned, !.left = planned] \in Request
    BY <1>0, <2>3 DEF Request, Steps
  <2> QED
    BY <1>3, <1>0, <2>1, <2>2, <2>4, BecomesType DEF PlanCredit, Request
<1>4. CASE ListCredits(r)
  <2> DEFINE q == [req[r] EXCEPT !.pc = "take",
                     !.listed = [c \in Credits |-> credit[c].remaining]]
  <2>1. req[r].of \in Reservations
    BY <1>4 DEF ListCredits, Started, At
  <2>2. q \in Request /\ q.of \in Reservations
    BY <1>0, <2>1 DEF Request, Steps, Credit
  <2> QED
    BY <1>4, <2>2, BecomesType DEF ListCredits
<1>5. CASE TakeCredit(r)
  <2>1. req[r].of \in Reservations
    BY <1>5 DEF TakeCredit, Started, At
  <2>2. PICK c \in Credits :
          LET take == Smaller(req[r].listed[c], req[r].left)
          IN  /\ credit' = [credit EXCEPT ![c].remaining = Balance(req[r], c, take)]
              /\ spent' = [spent EXCEPT ![c] = @ + take]
              /\ applied' = [applied EXCEPT ![req[r].of] = @ + take]
              /\ Becomes(r, [req[r] EXCEPT !.listed[c] = 0, !.left = @ - take])
    BY <1>5 DEF TakeCredit
  <2> DEFINE take == Smaller(req[r].listed[c], req[r].left)
             q == [req[r] EXCEPT !.listed[c] = 0, !.left = @ - take]
  <2>3. /\ take \in Nat
        /\ take <= req[r].listed[c]
        /\ take <= req[r].left
    BY TakeType
  <2> HIDE DEF take
  <2>4. q \in Request /\ q.of \in Reservations
    <3>1. req[r].left - take \in Nat
      BY <1>0, <2>3 DEF Request
    <3>2. [req[r].listed EXCEPT ![c] = 0] \in [Credits -> Nat]
      BY <1>0 DEF Request
    <3>3. q = [req[r] EXCEPT !.listed = [req[r].listed EXCEPT ![c] = 0],
                             !.left = req[r].left - take]
      OBVIOUS
    <3> QED
      BY <1>0, <2>1, <3>1, <3>2, <3>3 DEF Request
  <2>5. Balance(req[r], c, take) \in Nat
    BY <1>0, <2>3 DEF Balance, Request
  <2>6. credit' \in [Credits -> Credit] /\ spent' \in [Credits -> Nat]
    BY <2>2, <2>3, <2>5 DEF take, Credit
  <2>7. applied' \in [Reservations -> Nat]
    BY <2>1, <2>2, <2>3 DEF take
  <2>8. req' \in [Requests -> Request] /\ Started'
    BY <2>2, <2>4, BecomesType DEF take
  <2> QED
    BY <1>5, <2>6, <2>7, <2>8 DEF TakeCredit
<1>6. CASE StopTaking(r)
  <2> DEFINE q == [req[r] EXCEPT !.pc = "write", !.left = 0, !.listed = Nothing]
  <2>1. req[r].of \in Reservations
    BY <1>6 DEF StopTaking, Started, At
  <2>2. q \in Request /\ q.of \in Reservations
    BY <1>0, <2>1 DEF Request, Steps, Nothing
  <2> QED
    BY <1>6, <2>2, BecomesType DEF StopTaking
<1>7. CASE WriteTotal(r)
  <2> DEFINE q == [Idle EXCEPT !.pc = "mail", !.of = req[r].of]
  <2>1. req[r].of \in Reservations
    BY <1>7 DEF WriteTotal, Started, At
  <2>2. q \in Request /\ q.of \in Reservations
    BY <2>1, IdleType DEF Idle, Request, Steps
  <2>3. RemainingTotal(req[r]) \in Nat
    BY <1>0, <2>1, MemberCreditsAssumption DEF RemainingTotal, Larger, Request
  <2>4. row' \in [Reservations -> Row]
    BY SMTT(30), <1>7, <2>1, <2>3 DEF WriteTotal, Row
  <2> QED
    BY <1>7, <2>2, <2>4, BecomesType DEF WriteTotal
<1>8. CASE SendMail(r)
  <2>1. req[r].of \in Reservations
    BY <1>8 DEF SendMail, Started, At
  <2> DEFINE x == req[r].of
  <2>a. row[x] \in Row /\ session[x] \in Session
    BY <2>1
  <2>2. row' \in [Reservations -> Row]
    <3>1. \/ row' = row
          \/ row' = [row EXCEPT ![x].captured = TRUE, ![x].status = "RESERVED_PAID"]
      BY <1>8 DEF SendMail
    <3>2. [row[x] EXCEPT !.captured = TRUE, !.status = "RESERVED_PAID"] \in Row
      BY <2>a DEF Row
    <3>3. [row EXCEPT ![x].captured = TRUE, ![x].status = "RESERVED_PAID"]
            = [row EXCEPT ![x] = [row[x] EXCEPT !.captured = TRUE,
                                                !.status = "RESERVED_PAID"]]
      OBVIOUS
    <3> QED
      BY <3>1, <3>2, <3>3
  <2>3. session' \in [Reservations -> Session]
    <3>1. \/ session' = session
          \/ session' = [session EXCEPT ![x] = Unpaid(0)]
          \/ session' = [session EXCEPT ![x] = Unpaid(row[x].total)]
      BY <1>8 DEF SendMail
    <3>2. Unpaid(0) \in Session /\ Unpaid(row[x].total) \in Session
      BY <2>a DEF Unpaid, Session, Row
    <3> QED
      BY <3>1, <3>2
  <2>4. sessions' \in 0..MaxSessions
    BY <1>8, MemberCreditsAssumption DEF SendMail
  <2> QED
    BY <1>8, <2>2, <2>3, <2>4, IdleAgain DEF SendMail
<1> QED
  BY <1>1, <1>2, <1>3, <1>4, <1>5, <1>6, <1>7, <1>8 DEF PricingStep

\* The other steps keep the types.
LEMMA OtherTypes ==
  ASSUME Typed,
         \/ \E r \in Requests : \/ CreditStep(r) \/ Abort(r)
                                \/ \E x \in Reservations : StartCredit(r, x)
         \/ \E x \in Reservations : ClientPays(x)
  PROVE  Typed'
<1> USE DEF Typed, TypeOK
<1>1. ASSUME NEW r \in Requests, NEW x \in Reservations, StartCredit(r, x)
      PROVE  Typed'
  <2> DEFINE q == [Idle EXCEPT !.pc = "collect", !.of = x, !.details = row[x].baseline]
  <2>1. q \in Request /\ q.of \in Reservations
    BY IdleType DEF Idle, Request, Steps, Row
  <2> QED
    BY <1>1, <2>1, BecomesType DEF StartCredit
<1>2. ASSUME NEW r \in Requests, CollectNothing(r) \/ Abort(r)
      PROVE  Typed'
  BY <1>2, IdleAgain DEF CollectNothing, Abort
<1>3. ASSUME NEW r \in Requests, Collect(r)
      PROVE  Typed'
  <2>1. req[r].of \in Reservations /\ req[r] \in Request
    BY <1>3 DEF Collect, Started, At
  <2> DEFINE q == [req[r] EXCEPT !.pc = "cancel", !.amount = Collected(req[r].of)]
  <2>2. q \in Request /\ q.of \in Reservations
    BY <2>1, CollectedType DEF Request, Steps
  <2>3. row' \in [Reservations -> Row]
    BY <1>3, <2>1, CollectedType DEF Collect, Row
  <2> QED
    BY <1>3, <2>2, <2>3, BecomesType DEF Collect
<1>4. ASSUME NEW r \in Requests, CancelForCredit(r)
      PROVE  Typed'
  <2>1. req[r].of \in Reservations /\ req[r] \in Request
    BY <1>4 DEF CancelForCredit, Started, At
  <2>2. [req[r] EXCEPT !.pc = "issue"] \in Request
    BY <2>1 DEF Request, Steps
  <2>3. row' \in [Reservations -> Row]
    BY <1>4, <2>1 DEF CancelForCredit, Row
  <2> QED
    BY <1>4, <2>1, <2>2, <2>3, BecomesType DEF CancelForCredit, Request
<1>5. ASSUME NEW r \in Requests, IssueCredit(r)
      PROVE  Typed'
  <2>1. req[r].amount \in Nat
    BY DEF Request
  <2>2. issued' \in 0..MaxCredits /\ issued + 1 \in Credits
    BY <1>5, MemberCreditsAssumption DEF IssueCredit, Credits
  <2>3. credit' \in [Credits -> Credit]
    BY <1>5, <2>1, <2>2 DEF IssueCredit, Credit
  <2> QED
    BY <1>5, <2>2, <2>3, IdleAgain DEF IssueCredit
<1>6. ASSUME NEW x \in Reservations, ClientPays(x)
      PROVE  Typed'
  <2>1. session[x].amount \in Nat
    BY DEF Session
  <2>2. row' \in [Reservations -> Row]
    <3>1. CASE UNCHANGED row
      BY <3>1
    <3>2. ASSUME NEW fees \in {row[x].fees, session[x].amount},
                 row' = [row EXCEPT ![x].captured = TRUE, ![x].status = "RESERVED_PAID",
                                    ![x].baseline = session[x].amount, ![x].fees = fees]
          PROVE  row' \in [Reservations -> Row]
      <4>1. fees \in Nat /\ row[x] \in Row
        BY <2>1 DEF Row
      <4> DEFINE paid == [row[x] EXCEPT !.captured = TRUE, !.status = "RESERVED_PAID",
                                        !.baseline = session[x].amount, !.fees = fees]
      <4>2. paid \in Row
        BY <2>1, <4>1 DEF Row
      <4>3. row' = [row EXCEPT ![x] = paid]
        BY <3>2
      <4> HIDE DEF paid
      <4> QED
        BY <4>2, <4>3
    <3> QED
      BY <1>6, <3>1, <3>2 DEF ClientPays
  <2>3. session' \in [Reservations -> Session]
    <3>1. session' = [session EXCEPT ![x].paid = TRUE]
      BY <1>6 DEF ClientPays
    <3> QED
      BY <3>1 DEF Session
  <2>4. received' \in [Reservations -> Nat]
    <3>1. received' = [received EXCEPT ![x] = @ + session[x].amount]
      BY <1>6 DEF ClientPays
    <3> QED
      BY <2>1, <3>1
  <2> QED
    BY <1>6, <2>2, <2>3, <2>4 DEF ClientPays, Started, At
<1> QED
  BY <1>1, <1>2, <1>3, <1>4, <1>5, <1>6 DEF CreditStep

\* Every step keeps the types.
LEMMA NextTyped == Typed /\ [Next]_vars => Typed'
<1> SUFFICES ASSUME Typed, [Next]_vars PROVE Typed'
  OBVIOUS
<1>1. CASE UNCHANGED vars
  BY <1>1 DEF vars, Typed, TypeOK, Started, At
<1>2. CASE Next
  BY <1>2, PricingTypes, OtherTypes DEF Next
<1> QED
  BY <1>1, <1>2

\* The variables keep their types: in particular no balance, total or amount
\* ever becomes negative, however the requests interleave.
THEOREM TypeCorrect == Spec => []TypeOK
<1>1. Spec => []Typed
  BY InitTyped, NextTyped, PTL DEF Spec
<1> QED
  BY <1>1, PTL DEF Typed

-----------------------------------------------------------------------------
(* The client's credit is never lost.  A balance is written from the value *)
(* that was listed, so the invariant says of every listed value what the   *)
(* property says of the balance: usages only grow, so a value that covered *)
(* the rest of the credit when it was read still does.                     *)

\* A credit that is not issued has no balance, and nobody has listed it.
Fresh ==
    \A c \in Credits : c > issued =>
        /\ credit[c].remaining = 0
        /\ spent[c] = 0
        /\ \A r \in Requests : req[r].listed[c] = 0

\* A listed balance and the usages recorded by now make up the credit.
ListedCovers ==
    \A r \in Requests, c \in Credits :
        req[r].listed[c] > 0 => req[r].listed[c] + spent[c] >= credit[c].initial

NeverLostInv == Typed /\ Fresh /\ ListedCovers /\ CreditNeverLost

\* The credits are those of the initial state, and nothing is spent or listed.
LEMMA InitNeverLost == Init => NeverLostInv
<1> SUFFICES ASSUME Init PROVE NeverLostInv
  OBVIOUS
<1>1. Typed
  BY InitTyped
<1>2. \A r \in Requests, c \in Credits : req[r].listed[c] = 0
  BY DEF Init, Idle, Nothing
<1>3. \A c \in Credits : spent[c] = 0
  BY DEF Init, Nothing
<1>4. \A c \in Credits : credit[c].remaining = credit[c].initial
  BY DEF Init
<1>5. \A c \in Credits : c > issued => credit[c].remaining = 0
  BY MemberCreditsAssumption DEF Init, Credits
<1>6. \A c \in Credits : credit[c].initial \in Nat
  BY <1>1 DEF Typed, TypeOK, Credit
<1> QED
  BY <1>1, <1>2, <1>3, <1>4, <1>5, <1>6 DEF NeverLostInv, Fresh, ListedCovers, CreditNeverLost

\* A turn of the loop takes from one listed credit what it records as used.
LEMMA TakeStep ==
  ASSUME Typed, NEW r \in Requests, TakeCredit(r)
  PROVE  \E c \in Credits, take \in Nat :
           /\ req[r].listed[c] > 0
           /\ take <= req[r].listed[c]
           /\ take <= req[r].left
           /\ take = req[r].listed[c] \/ take = req[r].left
           /\ \A d \in Credits : req[r].listed[d] > 0 => c <= d
           /\ credit' = [credit EXCEPT ![c].remaining = req[r].listed[c] - take]
           /\ spent' = [spent EXCEPT ![c] = @ + take]
           /\ applied' = [applied EXCEPT ![req[r].of] = @ + take]
           /\ req' = [req EXCEPT ![r] = [req[r] EXCEPT !.listed[c] = 0, !.left = @ - take]]
           /\ issued' = issued
<1>1. PICK c \in Credits :
        LET take == Smaller(req[r].listed[c], req[r].left)
        IN  /\ IsNext(req[r], c)
            /\ credit' = [credit EXCEPT ![c].remaining = Balance(req[r], c, take)]
            /\ spent' = [spent EXCEPT ![c] = @ + take]
            /\ applied' = [applied EXCEPT ![req[r].of] = @ + take]
            /\ Becomes(r, [req[r] EXCEPT !.listed[c] = 0, !.left = @ - take])
  BY DEF TakeCredit
<1> DEFINE take == Smaller(req[r].listed[c], req[r].left)
<1>2. /\ take \in Nat
      /\ take <= req[r].listed[c]
      /\ take <= req[r].left
      /\ take = req[r].listed[c] \/ take = req[r].left
  BY TakeType DEF Smaller
<1>3. issued' = issued
  BY DEF TakeCredit
<1>4. req[r].listed[c] > 0 /\ \A d \in Credits : req[r].listed[d] > 0 => c <= d
  BY <1>1 DEF IsNext
<1> QED
  BY <1>1, <1>2, <1>3, <1>4 DEF Balance, Becomes

\* Every step but ListCredits, TakeCredit and IssueCredit leaves the credits and
\* their usages alone, lists nothing new and starts no loop over the credits.
LEMMA QuietStep ==
  ASSUME Typed, [Next]_vars
  PROVE  \/ \E r \in Requests : ListCredits(r) \/ TakeCredit(r) \/ IssueCredit(r)
         \/ /\ UNCHANGED <<credit, issued, spent, applied>>
            /\ \A r \in Requests :
                 /\ req'[r].listed = req[r].listed \/ req'[r].listed = Nothing
                 /\ req'[r].pc = "take" => req'[r] = req[r]
<1> USE DEF Typed, TypeOK
<1> DEFINE Quiet == /\ UNCHANGED <<credit, issued, spent, applied>>
                    /\ \A r \in Requests :
                         /\ req'[r].listed = req[r].listed \/ req'[r].listed = Nothing
                         /\ req'[r].pc = "take" => req'[r] = req[r]
<1>1. ASSUME NEW r \in Requests, NEW q, Becomes(r, q),
             UNCHANGED <<credit, issued, spent, applied>>,
             q.listed = req[r].listed \/ q.listed = Nothing, q.pc # "take"
      PROVE  Quiet
  BY <1>1 DEF Becomes
<1>2. Idle.listed = Nothing /\ Idle.pc # "take"
  BY DEF Idle
<1>3. ASSUME NEW r \in Requests
      PROVE  /\ \A x \in Reservations : StartPricing(r, x) \/ StartCredit(r, x) => Quiet
             /\ ReadApplied(r) \/ PlanCredit(r) \/ StopTaking(r) => Quiet
             /\ WriteTotal(r) \/ SendMail(r) => Quiet
             /\ CollectNothing(r) \/ Collect(r) \/ CancelForCredit(r) \/ Abort(r) => Quiet
  <2> HIDE DEF Quiet
  <2>0. req[r] \in Request
    OBVIOUS
  <2>1. ASSUME NEW x \in Reservations, StartPricing(r, x) PROVE Quiet
    <3> DEFINE q == [Idle EXCEPT
             !.pc = IF row[x].captured THEN "mail"
                    ELSE IF Price[x] = 0 THEN "write" ELSE "applied",
             !.of = x, !.stored = row[x].total]
    <3>1. q.listed = Nothing /\ q.pc # "take"
      BY DEF Idle
    <3>2. Becomes(r, q) /\ UNCHANGED <<credit, issued, spent, applied>>
      BY <2>1 DEF StartPricing
    <3> HIDE DEF q
    <3> QED
      BY <1>1, <3>1, <3>2
  <2>2. ASSUME NEW x \in Reservations, StartCredit(r, x) PROVE Quiet
    <3> DEFINE q == [Idle EXCEPT !.pc = "collect", !.of = x, !.details = row[x].baseline]
    <3>1. q.listed = Nothing /\ q.pc # "take"
      BY DEF Idle
    <3>2. Becomes(r, q) /\ UNCHANGED <<credit, issued, spent, applied>>
      BY <2>2 DEF StartCredit
    <3> QED
      BY <1>1, <3>1, <3>2
  <2>3. CASE ReadApplied(r)
    <3> DEFINE q == [req[r] EXCEPT !.pc = "available", !.already = applied[req[r].of]]
    <3>1. q.listed = req[r].listed /\ q.pc # "take"
      BY <2>0 DEF Request
    <3>2. Becomes(r, q) /\ UNCHANGED <<credit, issued, spent, applied>>
      BY <2>3 DEF ReadApplied
    <3> QED
      BY <1>1, <3>1, <3>2
  <2>4. CASE PlanCredit(r)
    <3>1. PICK planned \in 0..Missing(req[r]) :
            Becomes(r, [req[r] EXCEPT !.pc = IF planned > 0 THEN "list" ELSE "write",
                                      !.planned = planned, !.left = planned])
      BY <2>4 DEF PlanCredit
    <3> DEFINE q == [req[r] EXCEPT !.pc = IF planned > 0 THEN "list" ELSE "write",
                                   !.planned = planned, !.left = planned]
    <3>2. q.listed = req[r].listed /\ q.pc # "take"
      BY <2>0 DEF Request
    <3>3. UNCHANGED <<credit, issued, spent, applied>>
      BY <2>4 DEF PlanCredit
    <3> QED
      BY <1>1, <3>1, <3>2, <3>3
  <2>5. CASE StopTaking(r)
    <3> DEFINE q == [req[r] EXCEPT !.pc = "write", !.left = 0, !.listed = Nothing]
    <3>1. q.listed = Nothing /\ q.pc # "take"
      BY <2>0 DEF Request
    <3>2. Becomes(r, q) /\ UNCHANGED <<credit, issued, spent, applied>>
      BY <2>5 DEF StopTaking
    <3> QED
      BY <1>1, <3>1, <3>2
  <2>6. CASE WriteTotal(r)
    <3> DEFINE q == [Idle EXCEPT !.pc = "mail", !.of = req[r].of]
    <3>1. q.listed = Nothing /\ q.pc # "take"
      BY DEF Idle
    <3>2. Becomes(r, q) /\ UNCHANGED <<credit, issued, spent, applied>>
      BY <2>6 DEF WriteTotal
    <3> QED
      BY <1>1, <3>1, <3>2
  <2>7. CASE SendMail(r) \/ CollectNothing(r) \/ Abort(r)
    BY <1>1, <1>2, <2>7 DEF SendMail, CollectNothing, Abort
  <2>8. CASE Collect(r)
    <3> DEFINE q == [req[r] EXCEPT !.pc = "cancel", !.amount = Collected(req[r].of)]
    <3>1. q.listed = req[r].listed /\ q.pc # "take"
      BY <2>0 DEF Request
    <3>2. Becomes(r, q) /\ UNCHANGED <<credit, issued, spent, applied>>
      BY <2>8 DEF Collect
    <3> QED
      BY <1>1, <3>1, <3>2
  <2>9. CASE CancelForCredit(r)
    <3> DEFINE q == [req[r] EXCEPT !.pc = "issue"]
    <3>1. q.listed = req[r].listed /\ q.pc # "take"
      BY <2>0 DEF Request
    <3>2. Becomes(r, q) /\ UNCHANGED <<credit, issued, spent, applied>>
      BY <2>9 DEF CancelForCredit
    <3> QED
      BY <1>1, <3>1, <3>2
  <2> QED
    BY <2>1, <2>2, <2>3, <2>4, <2>5, <2>6, <2>7, <2>8, <2>9
<1>4. ASSUME NEW x \in Reservations, ClientPays(x) PROVE Quiet
  BY <1>4 DEF ClientPays
<1>5. UNCHANGED vars => Quiet
  BY DEF vars
<1> HIDE DEF Quiet
<1>6. ASSUME NEW r \in Requests,
             PricingStep(r) \/ CreditStep(r) \/ Abort(r)
             \/ \E x \in Reservations : StartPricing(r, x) \/ StartCredit(r, x)
      PROVE  ListCredits(r) \/ TakeCredit(r) \/ IssueCredit(r) \/ Quiet
  <2>1. \A x \in Reservations : StartPricing(r, x) \/ StartCredit(r, x) => Quiet
    BY <1>3
  <2>2. CASE PricingStep(r)
    BY ONLY <2>2, <1>3, r \in Requests DEF PricingStep
  <2>3. CASE CreditStep(r)
    BY ONLY <2>3, <1>3, r \in Requests DEF CreditStep
  <2>4. CASE Abort(r)
    BY ONLY <2>4, <1>3, r \in Requests
  <2> QED
    BY <1>6, <2>1, <2>2, <2>3, <2>4
<1>7. (\E r \in Requests : ListCredits(r) \/ TakeCredit(r) \/ IssueCredit(r)) \/ Quiet
  <2>1. CASE Next
    BY <1>4, <1>6, <2>1 DEF Next
  <2>2. CASE UNCHANGED vars
    BY <1>5, <2>2
  <2>3. Next \/ UNCHANGED vars
    OBVIOUS
  <2> QED
    BY ONLY <2>1, <2>2, <2>3
<1> QED
  BY <1>7 DEF Quiet

\* Every step preserves the invariant.
LEMMA NextNeverLost == NeverLostInv /\ [Next]_vars => NeverLostInv'
<1> SUFFICES ASSUME NeverLostInv, [Next]_vars PROVE NeverLostInv'
  OBVIOUS
<1>0. Typed /\ Typed'
  BY NextTyped DEF NeverLostInv
<1>t. /\ \A c \in Credits : /\ spent[c] \in Nat
                            /\ credit[c].initial \in Nat
                            /\ credit[c].remaining \in Nat
      /\ \A r \in Requests, c \in Credits : req[r].listed[c] \in Nat
  BY <1>0 DEF Typed, TypeOK, Credit, Request
<1>1. ASSUME NEW r \in Requests, ListCredits(r)
      PROVE  NeverLostInv'
  <2>1. \A q \in Requests, c \in Credits :
          req'[q].listed[c] = IF q = r THEN credit[c].remaining ELSE req[q].listed[c]
    BY <1>0, <1>1 DEF Typed, TypeOK, ListCredits, Becomes, Request
  <2>2. UNCHANGED <<credit, issued, spent>>
    BY <1>1 DEF ListCredits
  <2> QED
    BY <1>0, <1>t, <2>1, <2>2 DEF NeverLostInv, Fresh, ListedCovers, CreditNeverLost
<1>2. ASSUME NEW r \in Requests, TakeCredit(r)
      PROVE  NeverLostInv'
  <2>1. PICK c \in Credits, take \in Nat :
           /\ req[r].listed[c] > 0
           /\ take <= req[r].listed[c]
           /\ take <= req[r].left
           /\ credit' = [credit EXCEPT ![c].remaining = req[r].listed[c] - take]
           /\ spent' = [spent EXCEPT ![c] = @ + take]
           /\ applied' = [applied EXCEPT ![req[r].of] = @ + take]
           /\ req' = [req EXCEPT ![r] = [req[r] EXCEPT !.listed[c] = 0, !.left = @ - take]]
           /\ issued' = issued
    BY <1>0, <1>2, TakeStep
  <2>2. \A d \in Credits :
          /\ credit'[d].initial = credit[d].initial
          /\ credit'[d].remaining = IF d = c THEN req[r].listed[c] - take
                                    ELSE credit[d].remaining
          /\ spent'[d] = IF d = c THEN spent[c] + take ELSE spent[d]
    BY <1>0, <2>1 DEF Typed, TypeOK, Credit
  <2>3. \A q \in Requests, d \in Credits :
          req'[q].listed[d] = IF q = r /\ d = c THEN 0 ELSE req[q].listed[d]
    BY <1>0, <2>1 DEF Typed, TypeOK, Request
  <2>4. c <= issued
    <3>1. ~(c > issued)
      BY <2>1 DEF NeverLostInv, Fresh
    <3> QED
      BY <1>0, <3>1, MemberCreditsAssumption DEF Typed, TypeOK, Credits
  <2>5. Fresh'
    BY <1>0, <2>1, <2>2, <2>3, <2>4 DEF NeverLostInv, Fresh, Typed, TypeOK, Credits
  <2>6. ListedCovers'
    BY <1>t, <2>1, <2>2, <2>3 DEF NeverLostInv, ListedCovers
  <2>7. CreditNeverLost'
    BY <1>t, <2>1, <2>2 DEF NeverLostInv, ListedCovers, CreditNeverLost
  <2> QED
    BY <1>0, <2>5, <2>6, <2>7 DEF NeverLostInv
<1>3. ASSUME NEW r \in Requests, IssueCredit(r)
      PROVE  NeverLostInv'
  <2>1. issued \in Nat /\ issued + 1 \in Credits
    BY <1>0, <1>3, MemberCreditsAssumption DEF Typed, TypeOK, IssueCredit, Credits
  <2>2. \A d \in Credits :
          /\ d # issued + 1 => credit'[d] = credit[d]
          /\ d = issued + 1 => credit'[d].remaining = credit'[d].initial
    BY <1>0, <1>3, <2>1 DEF Typed, TypeOK, IssueCredit
  <2>3. UNCHANGED spent /\ issued' = issued + 1
    BY <1>3 DEF IssueCredit
  <2>4. \A q \in Requests, d \in Credits :
          req'[q].listed[d] = req[q].listed[d] \/ req'[q].listed[d] = 0
    BY <1>0, <1>3 DEF Typed, TypeOK, IssueCredit, Becomes, Idle, Nothing
  <2>5. \A q \in Requests : req[q].listed[issued + 1] = 0
    BY <2>1 DEF NeverLostInv, Fresh
  <2>6. \A d \in Credits : d > issued + 1 => d > issued /\ d # issued + 1
    BY <2>1 DEF Credits
  <2>7. Fresh'
    BY <2>1, <2>2, <2>3, <2>4, <2>6 DEF NeverLostInv, Fresh
  <2>8. ListedCovers'
    BY <1>t, <2>1, <2>2, <2>3, <2>4, <2>5 DEF NeverLostInv, ListedCovers
  <2>9. \A d \in Credits : credit'[d].initial \in Nat
    BY <1>0 DEF Typed, TypeOK, Credit
  <2>10. CreditNeverLost'
    BY <1>t, <2>2, <2>3, <2>9 DEF NeverLostInv, CreditNeverLost
  <2> QED
    BY <1>0, <2>7, <2>8, <2>10 DEF NeverLostInv
<1>4. CASE /\ UNCHANGED <<credit, issued, spent, applied>>
           /\ \A r \in Requests :
                req'[r].listed = req[r].listed \/ req'[r].listed = Nothing
  <2>1. \A r \in Requests, c \in Credits :
          req'[r].listed[c] = req[r].listed[c] \/ req'[r].listed[c] = 0
    BY <1>4 DEF Nothing
  <2> QED
    BY <1>0, <1>4, <2>1 DEF NeverLostInv, Fresh, ListedCovers, CreditNeverLost
<1> QED
  BY <1>0, <1>1, <1>2, <1>3, <1>4, QuietStep

\* However many requests price reservations, cancel them for a credit and die,
\* what is missing from a credit's balance is recorded as used.
THEOREM CreditIsNeverLost == Spec => []CreditNeverLost
<1>1. Spec => []NeverLostInv
  BY InitNeverLost, NextNeverLost, PTL DEF Spec
<1> QED
  BY <1>1, PTL DEF NeverLostInv

-----------------------------------------------------------------------------
(* Requests that run one at a time.  What the loop lists is then what the  *)
(* credits hold, turn after turn, until it has taken enough; so it takes   *)
(* what is there, and comes to a credit only when the older ones are empty.*)

Alone == \A q, r \in Requests : q = r

\* While the loop has something to take, its list shows the balances.
ListShowsBalances ==
    \A r \in Requests : At(r, "take") /\ req[r].left > 0 =>
        \A c \in Credits : req[r].listed[c] = credit[c].remaining

OrderlyInv == Typed /\ Fresh /\ ListShowsBalances /\ LedgerBalanced /\ OldestFirst

\* At first nothing is spent and no loop runs.
LEMMA InitOrderly == Init => OrderlyInv
<1> SUFFICES ASSUME Init PROVE OrderlyInv
  OBVIOUS
<1>1. Typed /\ Fresh
  BY InitNeverLost DEF NeverLostInv
<1>2. ListShowsBalances
  BY DEF Init, ListShowsBalances, At, Idle
<1>3. \A c \in Credits : /\ spent[c] = 0
                         /\ credit[c].remaining = credit[c].initial
                         /\ credit[c].initial \in Nat
  BY <1>1 DEF Init, Nothing, Typed, TypeOK, Credit
<1> QED
  BY <1>1, <1>2, <1>3 DEF OrderlyInv, LedgerBalanced, OldestFirst

\* Every step of a request that runs alone preserves it.
LEMMA NextOrderly ==
  ASSUME Alone
  PROVE  OrderlyInv /\ [Next]_vars => OrderlyInv'
<1> SUFFICES ASSUME OrderlyInv, [Next]_vars PROVE OrderlyInv'
  OBVIOUS
<1>0. Typed /\ Typed'
  BY NextTyped DEF OrderlyInv
<1>t. /\ issued \in Nat
      /\ \A c \in Credits : /\ c \in Nat
                            /\ spent[c] \in Nat
                            /\ credit[c].initial \in Nat
                            /\ credit[c].remaining \in Nat
      /\ \A r \in Requests : /\ req[r].left \in Nat
                             /\ \A c \in Credits : req[r].listed[c] \in Nat
  <2>1. issued \in Nat /\ \A c \in Credits : c \in Nat
    BY <1>0, MemberCreditsAssumption DEF Typed, TypeOK, Credits
  <2>2. \A c \in Credits : /\ spent[c] \in Nat
                          /\ credit[c].initial \in Nat
                          /\ credit[c].remaining \in Nat
    BY <1>0 DEF Typed, TypeOK, Credit
  <2>3. \A r \in Requests : /\ req[r].left \in Nat
                           /\ \A c \in Credits : req[r].listed[c] \in Nat
    BY <1>0 DEF Typed, TypeOK, Request
  <2> QED
    BY <2>1, <2>2, <2>3
<1>1. ASSUME NEW r \in Requests, ListCredits(r)
      PROVE  OrderlyInv'
  <2>1. \A q \in Requests, c \in Credits : req'[q].listed[c] = credit[c].remaining
    BY <1>0, <1>1 DEF Alone, Typed, TypeOK, ListCredits, Becomes, Request
  <2>2. UNCHANGED <<credit, issued, spent>>
    BY <1>1 DEF ListCredits
  <2>3. Fresh'
    BY <2>1, <2>2 DEF OrderlyInv, Fresh
  <2>4. ListShowsBalances'
    BY <2>1, <2>2 DEF ListShowsBalances
  <2> QED
    BY <1>0, <2>2, <2>3, <2>4 DEF OrderlyInv, LedgerBalanced, OldestFirst
<1>2. ASSUME NEW r \in Requests, TakeCredit(r)
      PROVE  OrderlyInv'
  <2>1. PICK c \in Credits, take \in Nat :
           /\ req[r].listed[c] > 0
           /\ take <= req[r].listed[c]
           /\ take <= req[r].left
           /\ take = req[r].listed[c] \/ take = req[r].left
           /\ \A d \in Credits : req[r].listed[d] > 0 => c <= d
           /\ credit' = [credit EXCEPT ![c].remaining = req[r].listed[c] - take]
           /\ spent' = [spent EXCEPT ![c] = @ + take]
           /\ applied' = [applied EXCEPT ![req[r].of] = @ + take]
           /\ req' = [req EXCEPT ![r] = [req[r] EXCEPT !.listed[c] = 0, !.left = @ - take]]
           /\ issued' = issued
    BY <1>0, <1>2, TakeStep
  <2>2. \A d \in Credits : req[r].listed[d] = credit[d].remaining
    BY <1>2 DEF OrderlyInv, ListShowsBalances, TakeCredit
  <2>3. \A d \in Credits :
          /\ credit'[d].initial = credit[d].initial
          /\ credit'[d].remaining = IF d = c THEN credit[c].remaining - take
                                    ELSE credit[d].remaining
          /\ spent'[d] = IF d = c THEN spent[c] + take ELSE spent[d]
    BY <1>0, <2>1, <2>2 DEF Typed, TypeOK, Credit
  <2>4. /\ \A d \in Credits :
             req'[r].listed[d] = IF d = c THEN 0 ELSE req[r].listed[d]
        /\ req'[r].left = req[r].left - take
    BY <1>0, <2>1 DEF Typed, TypeOK, Request
  <2>5. c <= issued /\ issued' = issued
    BY <1>t, <2>1 DEF OrderlyInv, Fresh
  <2>6. Fresh'
    BY <1>t, <2>1, <2>3, <2>4, <2>5 DEF Alone, OrderlyInv, Fresh
  <2>7. ListShowsBalances'
    <3>1. req[r].left - take > 0 => take = credit[c].remaining
      BY <1>t, <2>1, <2>2
    <3>2. req'[r].left > 0 =>
            \A d \in Credits : req'[r].listed[d] = credit'[d].remaining
      BY <1>t, <2>2, <2>3, <2>4, <3>1
    <3> QED
      BY <3>2 DEF Alone, ListShowsBalances
  <2>8. LedgerBalanced'
    BY <1>t, <2>1, <2>3 DEF OrderlyInv, LedgerBalanced
  <2>9. \A d \in Credits : d < c => credit[d].remaining = 0
    BY <1>t, <2>1, <2>2
  <2>10. \A d \in Credits : c < d => spent[d] = 0
    BY <1>t, <2>1, <2>2 DEF OrderlyInv, OldestFirst
  <2>11. OldestFirst'
    <3> SUFFICES ASSUME NEW a \in Credits, NEW d \in Credits, a < d, spent'[d] > 0
                 PROVE  credit'[a].remaining = 0
      BY DEF OldestFirst
    <3>1. CASE d = c
      BY <1>t, <2>3, <2>9, <3>1
    <3>2. CASE d # c
      BY <1>t, <2>3, <2>10, <3>2 DEF OrderlyInv, OldestFirst
    <3> QED
      BY <3>1, <3>2
  <2> QED
    BY <1>0, <2>6, <2>7, <2>8, <2>11 DEF OrderlyInv
<1>3. ASSUME NEW r \in Requests, IssueCredit(r)
      PROVE  OrderlyInv'
  <2>1. issued + 1 \in Credits /\ issued' = issued + 1 /\ UNCHANGED spent
    BY <1>0, <1>3, MemberCreditsAssumption DEF Typed, TypeOK, IssueCredit, Credits
  <2>2. \A d \in Credits :
          /\ d # issued + 1 => credit'[d] = credit[d]
          /\ d = issued + 1 => credit'[d].remaining = credit'[d].initial
    BY <1>0, <1>3, <2>1 DEF Typed, TypeOK, IssueCredit
  <2>3. req'[r] = Idle
    BY <1>0, <1>3 DEF Typed, TypeOK, IssueCredit, Becomes
  <2>4. \A d \in Credits : d > issued => spent[d] = 0
    BY DEF OrderlyInv, Fresh
  <2>5. Fresh'
    BY <1>t, <2>1, <2>2, <2>3 DEF Alone, OrderlyInv, Fresh, Idle, Nothing
  <2>6. ListShowsBalances'
    BY <2>3 DEF Alone, ListShowsBalances, At, Idle
  <2>7. \A d \in Credits : credit'[d].initial \in Nat
    BY <1>0 DEF Typed, TypeOK, Credit
  <2>8. LedgerBalanced'
    BY <1>t, <2>1, <2>2, <2>4, <2>7 DEF OrderlyInv, LedgerBalanced
  <2>9. OldestFirst'
    BY <1>t, <2>1, <2>2, <2>4 DEF OrderlyInv, OldestFirst
  <2> QED
    BY <1>0, <2>5, <2>6, <2>8, <2>9 DEF OrderlyInv
<1>4. CASE /\ UNCHANGED <<credit, issued, spent, applied>>
           /\ \A r \in Requests :
                /\ req'[r].listed = req[r].listed \/ req'[r].listed = Nothing
                /\ req'[r].pc = "take" => req'[r] = req[r]
  <2>1. \A r \in Requests, c \in Credits :
          req'[r].listed[c] = req[r].listed[c] \/ req'[r].listed[c] = 0
    BY <1>4 DEF Nothing
  <2>2. Fresh'
    BY <1>4, <2>1 DEF OrderlyInv, Fresh
  <2>3. ListShowsBalances'
    BY <1>4 DEF OrderlyInv, ListShowsBalances, At
  <2> QED
    BY <1>0, <1>4, <2>2, <2>3 DEF OrderlyInv, LedgerBalanced, OldestFirst
<1> QED
  BY <1>0, <1>1, <1>2, <1>3, <1>4, QuietStep

\* When requests run one at a time, even if they die, every cent of a credit is
\* either left or used once.
THEOREM LedgerIsBalanced ==
  ASSUME Alone
  PROVE  Spec => []LedgerBalanced
<1>1. Spec => []OrderlyInv
  BY InitOrderly, NextOrderly, PTL DEF Spec
<1> QED
  BY <1>1, PTL DEF OrderlyInv

\* When requests run one at a time, even if they die, credits are used oldest
\* first, whatever the number of credits and of reservations.
THEOREM OldestIsFirst ==
  ASSUME Alone
  PROVE  Spec => []OldestFirst
<1>1. Spec => []OrderlyInv
  BY InitOrderly, NextOrderly, PTL DEF Spec
<1> QED
  BY <1>1, PTL DEF OrderlyInv

-----------------------------------------------------------------------------
(* A reservation never swallows more than its price, because what it has   *)
(* been given is read before the loop and only the loop adds to it.        *)

\* What a request has found given is given, and what it still has to take fits
\* in the price.
PlanFits ==
    \A r \in Requests :
        /\ At(r, "available") => req[r].already = applied[req[r].of]
        /\ At(r, "list") \/ At(r, "take") =>
               applied[req[r].of] + req[r].left <= Price[req[r].of]

WithinInv == Typed /\ PlanFits /\ CreditWithinPrice

\* Every step of a request that runs alone preserves it.
LEMMA NextWithin ==
  ASSUME Alone
  PROVE  WithinInv /\ [Next]_vars => WithinInv'
<1> SUFFICES ASSUME WithinInv, [Next]_vars PROVE WithinInv'
  OBVIOUS
<1>0. Typed /\ Typed'
  BY NextTyped DEF WithinInv
<1>t. /\ \A x \in Reservations : applied[x] \in Nat /\ Price[x] \in Nat
      /\ \A r \in Requests : req[r].left \in Nat /\ req[r].already \in Nat
  <2>1. \A x \in Reservations : applied[x] \in Nat /\ Price[x] \in Nat
    BY <1>0, MemberCreditsAssumption DEF Typed, TypeOK
  <2>2. \A r \in Requests : req[r].left \in Nat /\ req[r].already \in Nat
    BY <1>0 DEF Typed, TypeOK, Request
  <2> QED
    BY <2>1, <2>2
<1>s. \A r \in Requests : ~At(r, "idle") => req[r].of \in Reservations
  BY <1>0 DEF Typed, Started
<1>b. ASSUME NEW r \in Requests, NEW q, Becomes(r, q), UNCHANGED applied,
             q.pc \notin {"available", "list", "take"}
      PROVE  WithinInv'
  <2>1. req'[r] = q
    BY <1>0, <1>b DEF Typed, TypeOK, Becomes
  <2> QED
    BY <1>0, <1>b, <2>1 DEF Alone, WithinInv, PlanFits, CreditWithinPrice, At
<1>1. ASSUME NEW r \in Requests, NEW x \in Reservations,
             StartPricing(r, x) \/ StartCredit(r, x)
      PROVE  WithinInv'
  <2>1. CASE StartPricing(r, x)
    <3> DEFINE q == [Idle EXCEPT
             !.pc = IF row[x].captured THEN "mail"
                    ELSE IF Price[x] = 0 THEN "write" ELSE "applied",
             !.of = x, !.stored = row[x].total]
    <3>1. q.pc \notin {"available", "list", "take"}
      BY DEF Idle
    <3>2. Becomes(r, q) /\ UNCHANGED applied
      BY <2>1 DEF StartPricing
    <3> HIDE DEF q
    <3> QED
      BY <1>b, <3>1, <3>2
  <2>2. CASE StartCredit(r, x)
    <3> DEFINE q == [Idle EXCEPT !.pc = "collect", !.of = x, !.details = row[x].baseline]
    <3>1. q.pc \notin {"available", "list", "take"}
      BY DEF Idle
    <3>2. Becomes(r, q) /\ UNCHANGED applied
      BY <2>2 DEF StartCredit
    <3> HIDE DEF q
    <3> QED
      BY <1>b, <3>1, <3>2
  <2> QED
    BY <1>1, <2>1, <2>2
<1>2. ASSUME NEW r \in Requests, PricingStep(r)
      PROVE  WithinInv'
  <2>0. req[r] \in Request
    BY <1>0 DEF Typed, TypeOK
  <2>1. CASE ReadApplied(r)
    <3>1. /\ req'[r].pc = "available"
          /\ req'[r].of = req[r].of
          /\ req'[r].already = applied[req[r].of]
          /\ UNCHANGED applied
      BY <1>0, <2>0, <2>1 DEF Typed, TypeOK, ReadApplied, Becomes, Request
    <3> QED
      BY <1>0, <3>1 DEF Alone, WithinInv, PlanFits, CreditWithinPrice, At
  <2>2. CASE PlanCredit(r)
    <3>1. PICK planned \in 0..Missing(req[r]) :
            Becomes(r, [req[r] EXCEPT !.pc = IF planned > 0 THEN "list" ELSE "write",
                                      !.planned = planned, !.left = planned])
      BY <2>2 DEF PlanCredit
    <3>2. /\ req'[r].pc = IF planned > 0 THEN "list" ELSE "write"
          /\ req'[r].of = req[r].of
          /\ req'[r].left = planned
      BY <1>0, <2>0, <3>1 DEF Typed, TypeOK, Becomes, Request
    <3>3. UNCHANGED applied /\ At(r, "available")
      BY <2>2 DEF PlanCredit
    <3>4. req[r].of \in Reservations /\ req[r].already = applied[req[r].of]
      BY <1>s, <3>3 DEF WithinInv, PlanFits, At
    <3>5. planned > 0 => applied[req[r].of] + planned <= Price[req[r].of]
      BY <1>t, <3>1, <3>4 DEF Missing, Larger
    <3> QED
      BY <1>0, <3>2, <3>3, <3>5 DEF Alone, WithinInv, PlanFits, CreditWithinPrice, At
  <2>3. CASE ListCredits(r)
    <3>1. /\ req'[r].pc = "take"
          /\ req'[r].of = req[r].of
          /\ req'[r].left = req[r].left
          /\ UNCHANGED applied
          /\ At(r, "list")
      BY <1>0, <2>0, <2>3 DEF Typed, TypeOK, ListCredits, Becomes, Request
    <3> QED
      BY <1>0, <3>1 DEF Alone, WithinInv, PlanFits, CreditWithinPrice, At
  <2>4. CASE TakeCredit(r)
    <3>1. PICK c \in Credits, take \in Nat :
            /\ req[r].listed[c] > 0
            /\ take <= req[r].listed[c]
            /\ take <= req[r].left
            /\ take = req[r].listed[c] \/ take = req[r].left
            /\ \A d \in Credits : req[r].listed[d] > 0 => c <= d
            /\ credit' = [credit EXCEPT ![c].remaining = req[r].listed[c] - take]
            /\ spent' = [spent EXCEPT ![c] = @ + take]
            /\ applied' = [applied EXCEPT ![req[r].of] = @ + take]
            /\ req' = [req EXCEPT ![r] = [req[r] EXCEPT !.listed[c] = 0, !.left = @ - take]]
            /\ issued' = issued
      BY <1>0, <2>4, TakeStep
    <3>2. /\ req'[r].pc = "take"
          /\ req'[r].of = req[r].of
          /\ req'[r].left = req[r].left - take
      BY <1>0, <2>0, <2>4, <3>1 DEF Typed, TypeOK, TakeCredit, At, Request
    <3>3. /\ req[r].of \in Reservations
          /\ applied[req[r].of] + req[r].left <= Price[req[r].of]
      BY <1>s, <2>4 DEF TakeCredit, WithinInv, PlanFits, At
    <3>4. \A x \in Reservations :
            applied'[x] = IF x = req[r].of THEN applied[x] + take ELSE applied[x]
      BY <1>0, <3>1, <3>3 DEF Typed, TypeOK
    <3>5. PlanFits'
      BY <1>t, <3>1, <3>2, <3>3, <3>4 DEF Alone, PlanFits, At
    <3>6. CreditWithinPrice'
      BY <1>t, <3>1, <3>3, <3>4 DEF WithinInv, CreditWithinPrice
    <3> QED
      BY <1>0, <3>5, <3>6 DEF WithinInv
  <2>5. CASE StopTaking(r)
    <3> DEFINE q == [req[r] EXCEPT !.pc = "write", !.left = 0, !.listed = Nothing]
    <3>1. q.pc \notin {"available", "list", "take"}
      BY <2>0 DEF Request
    <3>2. Becomes(r, q) /\ UNCHANGED applied
      BY <2>5 DEF StopTaking
    <3> HIDE DEF q
    <3> QED
      BY <1>b, <3>1, <3>2
  <2>6. CASE WriteTotal(r)
    <3> DEFINE q == [Idle EXCEPT !.pc = "mail", !.of = req[r].of]
    <3>1. q.pc \notin {"available", "list", "take"}
      BY DEF Idle
    <3>2. Becomes(r, q) /\ UNCHANGED applied
      BY <2>6 DEF WriteTotal
    <3> HIDE DEF q
    <3> QED
      BY <1>b, <3>1, <3>2
  <2>7. CASE SendMail(r)
    <3>1. Becomes(r, Idle) /\ UNCHANGED applied
      BY <2>7 DEF SendMail
    <3> QED
      BY <1>b, <3>1 DEF Idle
  <2> QED
    BY <1>2, <2>1, <2>2, <2>3, <2>4, <2>5, <2>6, <2>7 DEF PricingStep
<1>3. ASSUME NEW r \in Requests, CreditStep(r) \/ Abort(r)
      PROVE  WithinInv'
  <2>0. req[r] \in Request
    BY <1>0 DEF Typed, TypeOK
  <2>1. CASE CollectNothing(r) \/ IssueCredit(r) \/ Abort(r)
    <3>1. Becomes(r, Idle) /\ UNCHANGED applied
      BY <2>1 DEF CollectNothing, IssueCredit, Abort
    <3> QED
      BY <1>b, <3>1 DEF Idle
  <2>2. CASE Collect(r)
    <3> DEFINE q == [req[r] EXCEPT !.pc = "cancel", !.amount = Collected(req[r].of)]
    <3>1. q.pc \notin {"available", "list", "take"}
      BY <2>0 DEF Request
    <3>2. Becomes(r, q) /\ UNCHANGED applied
      BY <2>2 DEF Collect
    <3> HIDE DEF q
    <3> QED
      BY <1>b, <3>1, <3>2
  <2>3. CASE CancelForCredit(r)
    <3> DEFINE q == [req[r] EXCEPT !.pc = "issue"]
    <3>1. q.pc \notin {"available", "list", "take"}
      BY <2>0 DEF Request
    <3>2. Becomes(r, q) /\ UNCHANGED applied
      BY <2>3 DEF CancelForCredit
    <3> HIDE DEF q
    <3> QED
      BY <1>b, <3>1, <3>2
  <2> QED
    BY <1>3, <2>1, <2>2, <2>3 DEF CreditStep
<1>4. CASE (\E x \in Reservations : ClientPays(x)) \/ UNCHANGED vars
  <2>1. UNCHANGED <<applied, req>>
    BY <1>4 DEF ClientPays, vars
  <2> QED
    BY <1>0, <2>1 DEF WithinInv, PlanFits, CreditWithinPrice, At
<1> QED
  <2>1. CASE Next
    BY ONLY <1>1, <1>2, <1>3, <1>4, <2>1 DEF Next
  <2>2. Next \/ UNCHANGED vars
    OBVIOUS
  <2> QED
    BY ONLY <1>4, <2>1, <2>2

\* When requests run one at a time, even if they die between two awaits, no
\* reservation swallows more credit than its price.
THEOREM CreditStaysWithinPrice ==
  ASSUME Alone
  PROVE  Spec => []CreditWithinPrice
<1>1. Init => WithinInv
  <2> SUFFICES ASSUME Init PROVE WithinInv
    OBVIOUS
  <2>1. \A x \in Reservations : applied[x] = 0 /\ Price[x] \in Nat
    BY MemberCreditsAssumption DEF Init
  <2>2. \A r \in Requests : req[r].pc = "idle"
    BY DEF Init, Idle
  <2> QED
    BY <2>1, <2>2, InitTyped DEF WithinInv, PlanFits, CreditWithinPrice, At
<1>2. Spec => []WithinInv
  BY <1>1, NextWithin, PTL DEF Spec
<1> QED
  BY <1>2, PTL DEF WithinInv

-----------------------------------------------------------------------------
(* Sums.                                                                   *)

(***************************************************************************)
(* What availableCreditsCents adds up is a fold, a recursive function on   *)
(* the sets of credits. The provers apply no theorem of induction, for it  *)
(* has an operator for a parameter; here a family of counterexamples,      *)
(* which is a set, has a smallest member (SmallestSet).                    *)
(***************************************************************************)

\* The element that the fold takes out of a set.
Pick(s) == CHOOSE x \in s : TRUE

\* What the fold computes on every subset of S.
IsSums(g, f, S) ==
    g = [s \in SUBSET S |-> IF s = {} THEN 0 ELSE f[Pick(s)] + g[s \ {Pick(s)}]]

Sums(f, S) == CHOOSE g : IsSums(g, f, S)

\* The fold of the community modules is that function.
LEMMA FoldIsSums ==
  ASSUME NEW f, NEW S
  PROVE  SumFunctionOnSet(f, S) = Sums(f, S)[S]
  BY DEF SumFunctionOnSet, FoldFunctionOnSet, MapThenFoldSet, Sums, IsSums, Pick

\* It takes out a member.
LEMMA PickIsIn == \A s : s # {} => Pick(s) \in s
  BY DEF Pick

\* Finite induction without an operator for a parameter: a family of finite
\* sets that is not empty has a smallest member.
LEMMA SmallestSet ==
  ASSUME NEW S, IsFiniteSet(S), NEW F \in SUBSET SUBSET S, F # {}
  PROVE  \E T \in F : \A U \in F : U \subseteq T => U = T
  <1>1. F \subseteq FiniteSubsetsOf(S)
    BY FS_Subset DEF FiniteSubsetsOf
  <1>2. PICK T \in F : \A U \in F : ~(<<U, T>> \in StrictSubsetOrdering(S))
    BY <1>1, FS_StrictSubsetOrderingWellFounded, WFMin
  <1>3. ASSUME NEW U \in F, U \subseteq T  PROVE U = T
    BY <1>2, <1>3 DEF StrictSubsetOrdering
  <1> QED  BY <1>2, <1>3

\* Two such functions agree on the sets that both are about.
LEMMA SumsAgree ==
  ASSUME NEW f, NEW S, IsFiniteSet(S), NEW T \in SUBSET S,
         NEW g, IsSums(g, f, S), NEW h, IsSums(h, f, T)
  PROVE  \A s \in SUBSET T : g[s] = h[s]
  <1> DEFINE F == {s \in SUBSET T : g[s] # h[s]}
  <1> SUFFICES ASSUME F # {}  PROVE FALSE
    OBVIOUS
  <1>1. PICK s \in F : \A u \in F : u \subseteq s => u = s
    <2>1. IsFiniteSet(T) /\ F \in SUBSET SUBSET T
      BY FS_Subset
    <2> HIDE DEF F
    <2> QED  BY <2>1, SmallestSet
  <1>2. s \in SUBSET T /\ s \in SUBSET S /\ g[s] # h[s]
    BY <1>1
  <1>3. \A u \in SUBSET s : u # s => g[u] = h[u]
    BY <1>1, <1>2
  <1>4. g[s] = IF s = {} THEN 0 ELSE f[Pick(s)] + g[s \ {Pick(s)}]
    BY <1>2 DEF IsSums
  <1>5. h[s] = IF s = {} THEN 0 ELSE f[Pick(s)] + h[s \ {Pick(s)}]
    BY <1>2 DEF IsSums
  <1>6. CASE s = {}
    BY <1>2, <1>4, <1>5, <1>6
  <1>7. CASE s # {}
    <2>1. Pick(s) \in s
      BY <1>7, PickIsIn
    <2>2. g[s \ {Pick(s)}] = h[s \ {Pick(s)}]
      BY <1>3, <2>1
    <2> QED  BY <1>2, <1>4, <1>5, <1>7, <2>2
  <1> QED  BY <1>6, <1>7

\* There is one for every finite set.
LEMMA SumsExist ==
  ASSUME NEW f, NEW S, IsFiniteSet(S)
  PROVE  \E g : IsSums(g, f, S)
  <1> DEFINE F == {T \in SUBSET S : ~ \E g : IsSums(g, f, T)}
  <1> SUFFICES ASSUME F # {}  PROVE FALSE
    OBVIOUS
  <1>1. PICK T \in F : \A u \in F : u \subseteq T => u = T
    <2>1. F \in SUBSET SUBSET S
      OBVIOUS
    <2> HIDE DEF F
    <2> QED  BY <2>1, SmallestSet
  <1>2. T \in SUBSET S /\ ~ \E g : IsSums(g, f, T)
    BY <1>1
  <1> DEFINE G(u) == CHOOSE g : IsSums(g, f, u)
  <1>3. \A u \in SUBSET T : u # T => IsSums(G(u), f, u)
    BY <1>1, <1>2
  <1> DEFINE rest(u) == u \ {Pick(u)}
             h == [s \in SUBSET T |-> IF s = {} THEN 0 ELSE f[Pick(s)] + G(rest(s))[rest(s)]]
  <1>4. \A u \in SUBSET T : u # {} => rest(u) \in SUBSET T /\ rest(u) # T /\ rest(u) \subseteq u
    BY PickIsIn
  <1>5. ASSUME NEW u \in SUBSET T, u # T  PROVE h[u] = G(u)[u]
    <2>1. h[u] = IF u = {} THEN 0 ELSE f[Pick(u)] + G(rest(u))[rest(u)]
      OBVIOUS
    <2>2. G(u)[u] = IF u = {} THEN 0 ELSE f[Pick(u)] + G(u)[rest(u)]
      <3> DEFINE a == G(u)
      <3>1. IsSums(a, f, u)
        BY <1>3, <1>5
      <3> HIDE DEF a
      <3>2. a[u] = IF u = {} THEN 0 ELSE f[Pick(u)] + a[rest(u)]
        BY <3>1 DEF IsSums
      <3> QED  BY <3>2 DEF a
    <2>3. u # {} => G(u)[rest(u)] = G(rest(u))[rest(u)]
      <3>1. SUFFICES ASSUME u # {}  PROVE G(u)[rest(u)] = G(rest(u))[rest(u)]
        OBVIOUS
      <3>2. rest(u) \in SUBSET u /\ rest(u) \in SUBSET T /\ rest(u) # T
        BY <1>4, <3>1
      <3>3. IsSums(G(u), f, u) /\ IsSums(G(rest(u)), f, rest(u))
        BY <1>3, <1>5, <3>2
      <3>4. IsFiniteSet(u)
        BY <1>2, FS_Subset
      <3> DEFINE v == rest(u)
                 a == G(u)
                 b == G(v)
      <3>5. v \in SUBSET u /\ IsSums(a, f, u) /\ IsSums(b, f, v)
        BY <3>2, <3>3
      <3> HIDE DEF a, b, v
      <3>6. a[v] = b[v]
        BY <3>4, <3>5, SumsAgree
      <3> QED  BY <3>6 DEF a, b, v
    <2> HIDE DEF G, rest, h
    <2> QED  BY <2>1, <2>2, <2>3
  <1>6. IsSums(h, f, T)
    <2>1. \A s \in SUBSET T : s # {} => h[rest(s)] = G(rest(s))[rest(s)]
      BY <1>4, <1>5
    <2>2. h = [s \in SUBSET T |-> IF s = {} THEN 0 ELSE f[Pick(s)] + h[rest(s)]]
      <3>1. h = [s \in SUBSET T |-> IF s = {} THEN 0
                                    ELSE f[Pick(s)] + G(rest(s))[rest(s)]]
        OBVIOUS
      <3> HIDE DEF G, rest, h
      <3> QED  BY <2>1, <3>1
    <2> HIDE DEF G, h
    <2> QED  BY <2>2 DEF IsSums
  <1> HIDE DEF h
  <1> QED  BY <1>2, <1>6

\* The equations of a sum.
LEMMA SumOfNone == \A f : SumFunctionOnSet(f, {}) = 0
  <1> SUFFICES ASSUME NEW f  PROVE SumFunctionOnSet(f, {}) = 0
    OBVIOUS
  <1>1. IsFiniteSet({})
    BY FS_EmptySet
  <1>2. IsSums(Sums(f, {}), f, {})
    BY <1>1, SumsExist DEF Sums
  <1>3. Sums(f, {})[{}] = 0
    BY <1>2 DEF IsSums
  <1> QED  BY <1>3, FoldIsSums

\* The element picked goes first.
LEMMA SumOfPicked ==
  ASSUME NEW f, NEW S, IsFiniteSet(S), S # {}
  PROVE  SumFunctionOnSet(f, S) = f[Pick(S)] + SumFunctionOnSet(f, S \ {Pick(S)})
  <1> DEFINE R == S \ {Pick(S)}
  <1>1. IsFiniteSet(R) /\ R \in SUBSET S
    BY FS_RemoveElement
  <1>2. IsSums(Sums(f, S), f, S)
    BY SumsExist DEF Sums
  <1>3. IsSums(Sums(f, R), f, R)
    BY <1>1, SumsExist DEF Sums
  <1>4. Sums(f, S)[S] = f[Pick(S)] + Sums(f, S)[R]
    BY <1>2 DEF IsSums
  <1> HIDE DEF R
  <1>5. Sums(f, S)[R] = Sums(f, R)[R]
    BY <1>1, <1>2, <1>3, SumsAgree
  <1> QED  BY <1>4, <1>5, FoldIsSums DEF R

\* A sum of natural numbers is one.
LEMMA SumIsNatural ==
  ASSUME NEW f, NEW S, IsFiniteSet(S), \A x \in S : f[x] \in Nat
  PROVE  SumFunctionOnSet(f, S) \in Nat
  <1> DEFINE F == {T \in SUBSET S : SumFunctionOnSet(f, T) \notin Nat}
  <1> SUFFICES ASSUME F # {}  PROVE FALSE
    OBVIOUS
  <1>1. PICK T \in F : \A u \in F : u \subseteq T => u = T
    <2>1. F \in SUBSET SUBSET S
      OBVIOUS
    <2> HIDE DEF F
    <2> QED  BY <2>1, SmallestSet
  <1>2. T \in SUBSET S /\ SumFunctionOnSet(f, T) \notin Nat /\ IsFiniteSet(T)
    BY <1>1, FS_Subset
  <1>3. T # {}
    BY <1>2, SumOfNone
  <1>4. Pick(T) \in T
    BY <1>3, PickIsIn
  <1>5. SumFunctionOnSet(f, T \ {Pick(T)}) \in Nat
    BY <1>1, <1>2, <1>4
  <1>6. f[Pick(T)] \in Nat
    BY <1>2, <1>4
  <1> QED  BY <1>2, <1>3, <1>5, <1>6, SumOfPicked

\* Any element may be taken out first.
LEMMA SumWithout ==
  ASSUME NEW f, NEW S, IsFiniteSet(S), \A x \in S : f[x] \in Nat, NEW c \in S
  PROVE  SumFunctionOnSet(f, S) = f[c] + SumFunctionOnSet(f, S \ {c})
  <1> DEFINE Sum(T) == SumFunctionOnSet(f, T)
             F == {T \in SUBSET S : \E x \in T : Sum(T) # f[x] + Sum(T \ {x})}
  <1> SUFFICES ASSUME F # {}  PROVE FALSE
    OBVIOUS
  <1>1. PICK T \in F : \A u \in F : u \subseteq T => u = T
    <2>1. F \in SUBSET SUBSET S
      OBVIOUS
    <2> HIDE DEF F
    <2> QED  BY <2>1, SmallestSet
  <1>2. PICK x \in T : Sum(T) # f[x] + Sum(T \ {x})
    BY <1>1
  <1>3. T \in SUBSET S /\ IsFiniteSet(T)
    BY <1>1, FS_Subset
  <1> DEFINE y == Pick(T)
  <1>4. y \in T
    BY <1>2, PickIsIn
  <1>5. Sum(T) = f[y] + Sum(T \ {y})
    BY <1>3, <1>4, SumOfPicked
  <1>6. ASSUME NEW u \in SUBSET T, u # T, NEW z \in u
        PROVE  Sum(u) = f[z] + Sum(u \ {z})
    BY <1>1, <1>3, <1>6
  <1>7. f[x] \in Nat /\ f[y] \in Nat
    BY <1>3, <1>4
  <1>8. CASE x = y
    BY <1>2, <1>5, <1>8
  <1>9. CASE x # y
    <2>1. (T \ {y}) \ {x} = (T \ {x}) \ {y}
      OBVIOUS
    <2>2. Sum(T \ {y}) = f[x] + Sum((T \ {x}) \ {y})
      BY <1>4, <1>6, <1>9, <2>1
    <2>3. Sum(T \ {x}) = f[y] + Sum((T \ {x}) \ {y})
      BY <1>4, <1>6, <1>9
    <2>4. Sum((T \ {x}) \ {y}) \in Nat
      <3>1. IsFiniteSet((T \ {x}) \ {y})
        BY <1>3, FS_RemoveElement
      <3> QED  BY <1>3, <3>1, SumIsNatural
    <2> HIDE DEF Sum, y
    <2> QED  BY <1>2, <1>5, <1>7, <2>2, <2>3, <2>4
  <1> QED  BY <1>8, <1>9

\* A sum depends on the terms alone.
LEMMA SumOfSameTerms ==
  ASSUME NEW f, NEW g, NEW S, IsFiniteSet(S), \A x \in S : f[x] = g[x]
  PROVE  SumFunctionOnSet(f, S) = SumFunctionOnSet(g, S)
  <1> DEFINE F == {T \in SUBSET S : SumFunctionOnSet(f, T) # SumFunctionOnSet(g, T)}
  <1> SUFFICES ASSUME F # {}  PROVE FALSE
    OBVIOUS
  <1>1. PICK T \in F : \A u \in F : u \subseteq T => u = T
    <2>1. F \in SUBSET SUBSET S
      OBVIOUS
    <2> HIDE DEF F
    <2> QED  BY <2>1, SmallestSet
  <1>2. /\ T \in SUBSET S /\ IsFiniteSet(T)
        /\ SumFunctionOnSet(f, T) # SumFunctionOnSet(g, T)
    BY <1>1, FS_Subset
  <1>3. T # {}
    BY <1>2, SumOfNone
  <1>4. Pick(T) \in T
    BY <1>3, PickIsIn
  <1>5. SumFunctionOnSet(f, T \ {Pick(T)}) = SumFunctionOnSet(g, T \ {Pick(T)})
    BY <1>1, <1>2, <1>4
  <1>6. f[Pick(T)] = g[Pick(T)]
    BY <1>2, <1>4
  <1> QED  BY <1>2, <1>3, <1>5, <1>6, SumOfPicked

\* Nothing adds up to nothing.
LEMMA SumOfZeros ==
  ASSUME NEW f, NEW S, IsFiniteSet(S), \A x \in S : f[x] = 0
  PROVE  SumFunctionOnSet(f, S) = 0
  <1> DEFINE F == {T \in SUBSET S : SumFunctionOnSet(f, T) # 0}
  <1> SUFFICES ASSUME F # {}  PROVE FALSE
    OBVIOUS
  <1>1. PICK T \in F : \A u \in F : u \subseteq T => u = T
    <2>1. F \in SUBSET SUBSET S
      OBVIOUS
    <2> HIDE DEF F
    <2> QED  BY <2>1, SmallestSet
  <1>2. T \in SUBSET S /\ IsFiniteSet(T) /\ SumFunctionOnSet(f, T) # 0
    BY <1>1, FS_Subset
  <1>3. T # {}
    BY <1>2, SumOfNone
  <1>4. Pick(T) \in T
    BY <1>3, PickIsIn
  <1>5. SumFunctionOnSet(f, T \ {Pick(T)}) = 0
    BY <1>1, <1>2, <1>4
  <1>6. f[Pick(T)] = 0
    BY <1>2, <1>4
  <1> QED  BY <1>2, <1>3, <1>5, <1>6, SumOfPicked

\* The credits are finitely many.
LEMMA CreditsFinite == IsFiniteSet(Credits)
  BY FS_Interval, MemberCreditsAssumption DEF Credits

\* Taking a credit off a list takes its balance off the sum.
LEMMA CreditOffTheList ==
  ASSUME NEW f \in [Credits -> Nat], NEW c \in Credits
  PROVE  /\ SumFunction(f) \in Nat
         /\ SumFunction([f EXCEPT ![c] = 0]) \in Nat
         /\ SumFunction(f) = f[c] + SumFunction([f EXCEPT ![c] = 0])
  <1> DEFINE g == [f EXCEPT ![c] = 0]
  <1>1. /\ g \in [Credits -> Nat] /\ g[c] = 0
        /\ \A d \in Credits \ {c} : g[d] = f[d]
        /\ DOMAIN f = Credits /\ DOMAIN g = Credits
    OBVIOUS
  <1> HIDE DEF g
  <1>2. IsFiniteSet(Credits) /\ IsFiniteSet(Credits \ {c})
    BY CreditsFinite, FS_RemoveElement
  <1>3. SumFunctionOnSet(f, Credits) = f[c] + SumFunctionOnSet(f, Credits \ {c})
    BY <1>2, SumWithout
  <1>4. SumFunctionOnSet(g, Credits) = g[c] + SumFunctionOnSet(g, Credits \ {c})
    BY <1>1, <1>2, SumWithout
  <1>5. SumFunctionOnSet(g, Credits \ {c}) = SumFunctionOnSet(f, Credits \ {c})
    BY <1>1, <1>2, SumOfSameTerms
  <1>6. /\ SumFunctionOnSet(f, Credits) \in Nat
        /\ SumFunctionOnSet(g, Credits) \in Nat
        /\ SumFunctionOnSet(g, Credits \ {c}) \in Nat
    BY <1>1, <1>2, SumIsNatural
  <1>7. SumFunction(f) = SumFunctionOnSet(f, Credits)
        /\ SumFunction(g) = SumFunctionOnSet(g, Credits)
    BY <1>1 DEF SumFunction
  <1>8. SumFunction(g) = SumFunctionOnSet(f, Credits \ {c})
    BY <1>1, <1>4, <1>5, <1>6, <1>7
  <1>9. SumFunction(f) = f[c] + SumFunction(g)
    BY <1>3, <1>7, <1>8
  <1> QED  BY <1>6, <1>7, <1>9 DEF g

\* An empty list adds up to nothing.
LEMMA EmptyList == SumFunction(Nothing) = 0
  <1>1. DOMAIN Nothing = Credits /\ \A c \in Credits : Nothing[c] = 0
    BY DEF Nothing
  <1> QED  BY <1>1, CreditsFinite, SumOfZeros DEF SumFunction

-----------------------------------------------------------------------------
(* Requests that run one at a time: what the client has given.             *)

(***************************************************************************)
(* PaidInFull is not inductive.  A reservation's stored total is no less   *)
(* than its price lacks (Settled), because the credit that was planned is  *)
(* really taken: while no other request runs, the list that the loop goes  *)
(* through adds up to what is left to take (Knows), so it does not run out. *)
(***************************************************************************)

\* A reservation's stored total and the credit given to it cover its price, it is
\* captured for a reason, and what is recorded of its card payment was received.
Settled(x) ==
    /\ row[x].total + applied[x] >= Price[x]
    /\ row[x].captured => /\ row[x].status # "PENDING_PAYMENT"
                          /\ applied[x] + Online(x) + MinCharge > Price[x]
    /\ row[x].baseline <= received[x]
    /\ row[x].fees <= received[x]
    /\ session[x].paid => session[x].amount <= received[x]

\* What a running request has read and counts on.
Knows(r) ==
    LET q == req[r]
        x == q.of
    IN  /\ At(r, "available") => q.already <= applied[x]
        /\ At(r, "list") => /\ q.already + q.planned <= applied[x] + q.left
                            /\ q.left <= Available
        /\ At(r, "take") => /\ q.already + q.planned <= applied[x] + q.left
                            /\ q.left <= SumFunction(q.listed)
        /\ At(r, "write") => q.already + q.planned <= applied[x]
        /\ At(r, "collect") => q.details = row[x].baseline
        /\ At(r, "cancel") =>
              /\ applied[x] + Larger(row[x].fees, q.details) + MinCharge > Price[x]
              /\ q.details <= received[x]
        /\ At(r, "collect") \/ At(r, "cancel") =>
              row[x].captured /\ row[x].status = "RESERVED_PAID"
        /\ At(r, "cancel") \/ At(r, "issue") =>
              (Price[x] >= MinCharge => q.amount <= applied[x] + received[x])

SettledInv ==
    /\ Typed
    /\ \A x \in Reservations : Settled(x)
    /\ \A r \in Requests : Knows(r)

\* Nothing is paid or issued at the start.
LEMMA InitSettled == Init => SettledInv
<1> SUFFICES ASSUME Init PROVE SettledInv
  OBVIOUS
<1>1. \A x \in Reservations : Settled(x)
  BY MemberCreditsAssumption DEF Init, Settled, Unpaid
<1>2. \A r \in Requests : Knows(r)
  BY DEF Init, Knows, At, Idle
<1> QED
  BY <1>1, <1>2, InitTyped DEF SettledInv

\* The amounts of a reservation.
LEMMA AmountsTyped ==
  ASSUME Typed, NEW x \in Reservations
  PROVE  /\ Price[x] \in Nat /\ applied[x] \in Nat /\ received[x] \in Nat
         /\ row[x] \in Row
         /\ row[x].total \in Nat /\ row[x].baseline \in Nat /\ row[x].fees \in Nat
         /\ row[x].captured \in BOOLEAN
         /\ session[x].amount \in Nat /\ session[x].paid \in BOOLEAN
         /\ Online(x) \in Nat
<1>1. row[x] \in Row /\ session[x] \in Session /\ applied[x] \in Nat /\ received[x] \in Nat
  BY DEF Typed, TypeOK
<1>2. Price[x] \in Nat
  BY MemberCreditsAssumption
<1>3. /\ row[x].total \in Nat /\ row[x].baseline \in Nat /\ row[x].fees \in Nat
      /\ row[x].captured \in BOOLEAN
      /\ session[x].amount \in Nat /\ session[x].paid \in BOOLEAN
  BY <1>1 DEF Row, Session
<1> QED
  BY <1>1, <1>2, <1>3 DEF Online, Larger

\* The amounts a running request holds.
LEMMA HeldTyped ==
  ASSUME Typed, NEW r \in Requests, ~At(r, "idle")
  PROVE  /\ req[r] \in Request /\ req[r].of \in Reservations
         /\ req[r].already \in Nat /\ req[r].planned \in Nat /\ req[r].left \in Nat
         /\ req[r].details \in Nat /\ req[r].amount \in Nat /\ req[r].stored \in Nat
         /\ req[r].listed \in [Credits -> Nat]
<1>1. req[r] \in Request /\ req[r].of \in Reservations
  BY DEF Typed, TypeOK, Started
<1> QED
  BY <1>1 DEF Request

\* A reservation about which nothing changes stays settled.
LEMMA SettledStays ==
  ASSUME NEW x \in Reservations, Settled(x),
         row'[x] = row[x], session'[x] = session[x],
         received'[x] = received[x], applied'[x] = applied[x]
  PROVE  Settled(x)'
  BY DEF Settled, Online

\* A request that is alone and becomes idle knows nothing; nor do the others.
LEMMA IdleKnows ==
  ASSUME Alone, Typed, NEW r \in Requests, Becomes(r, Idle)
  PROVE  \A q \in Requests : Knows(q)'
<1>1. req'[r] = Idle
  BY DEF Typed, TypeOK, Becomes
<1>2. \A q \in Requests : req'[q].pc = "idle"
  BY <1>1 DEF Alone, Idle
<1> QED
  BY <1>2 DEF Knows, At

\* What a lone request becomes.
LEMMA LoneBecomes ==
  ASSUME Alone, Typed, NEW r \in Requests, NEW q, Becomes(r, q)
  PROVE  req'[r] = q /\ \A s \in Requests : s = r
  BY DEF Typed, TypeOK, Becomes, Alone

\* Reading changes no reservation.
LEMMA ReadsSettled ==
  ASSUME SettledInv, UNCHANGED <<row, session, received, applied>>
  PROVE  \A x \in Reservations : Settled(x)'
<1> TAKE x \in Reservations
<1>1. Settled(x)
  BY DEF SettledInv
<1> QED
  BY <1>1, SettledStays

\* Starting to price, and reading what was applied.
LEMMA PriceKnows ==
  ASSUME Alone, SettledInv, NEW r \in Requests,
         (\E x \in Reservations : StartPricing(r, x)) \/ ReadApplied(r)
  PROVE  (\A x \in Reservations : Settled(x)') /\ \A q \in Requests : Knows(q)'
<1> Typed
  BY DEF SettledInv
<1>1. UNCHANGED <<row, session, received, applied>>
  BY DEF StartPricing, ReadApplied
<1>2. ASSUME NEW x \in Reservations, StartPricing(r, x)  PROVE \A q \in Requests : Knows(q)'
  <2> DEFINE q == [Idle EXCEPT
             !.pc = IF row[x].captured THEN "mail"
                    ELSE IF Price[x] = 0 THEN "write" ELSE "applied",
             !.of = x, !.stored = row[x].total]
  <2>1. /\ q.pc \in {"mail", "write", "applied"} /\ q.of = x
        /\ q.already = 0 /\ q.planned = 0
    BY DEF Idle
  <2>2. Becomes(r, q)
    BY <1>2 DEF StartPricing
  <2> HIDE DEF q
  <2>3. req'[r] = q /\ \A s \in Requests : s = r
    BY <2>2, LoneBecomes
  <2>4. applied'[x] \in Nat
    BY <1>1, AmountsTyped
  <2> QED
    BY <2>1, <2>3, <2>4 DEF Knows, At
<1>3. CASE ReadApplied(r)
  <2> DEFINE q == [req[r] EXCEPT !.pc = "available", !.already = applied[req[r].of]]
  <2>0. req[r] \in Request /\ req[r].of \in Reservations
    BY <1>3, HeldTyped DEF ReadApplied, At
  <2>1. q.pc = "available" /\ q.of = req[r].of /\ q.already = applied[req[r].of]
    BY <2>0 DEF Request
  <2>2. Becomes(r, q)
    BY <1>3 DEF ReadApplied
  <2> HIDE DEF q
  <2>3. req'[r] = q /\ \A s \in Requests : s = r
    BY <2>2, LoneBecomes
  <2>4. applied[req[r].of] \in Nat
    BY <2>0, AmountsTyped
  <2>5. q.already <= applied'[q.of]
    BY <1>1, <2>1, <2>4
  <2>6. Knows(r)'
    BY <2>1, <2>3, <2>5 DEF Knows, At
  <2> QED
    BY <1>1, <2>3, <2>6, ReadsSettled
<1> QED
  BY <1>1, <1>2, <1>3, ReadsSettled

\* No more credit is planned than is available, and while the request is alone the
\* list it reads has it all.
LEMMA PlanKnows ==
  ASSUME Alone, SettledInv, NEW r \in Requests, PlanCredit(r) \/ ListCredits(r)
  PROVE  (\A x \in Reservations : Settled(x)') /\ \A q \in Requests : Knows(q)'
<1> Typed /\ Knows(r)
  BY DEF SettledInv
<1>1. UNCHANGED <<row, session, received, applied, credit>>
  BY DEF PlanCredit, ListCredits
<1>2. /\ req[r] \in Request /\ req[r].of \in Reservations
      /\ req[r].already \in Nat /\ req[r].planned \in Nat /\ req[r].left \in Nat
  BY HeldTyped DEF PlanCredit, ListCredits, At
<1>3. applied[req[r].of] \in Nat
  BY <1>2, AmountsTyped
<1>4. [c \in Credits |-> credit[c].remaining] \in [Credits -> Nat]
  BY DEF Typed, TypeOK, Credit
<1>5. Available \in Nat
  <2> DEFINE f == [c \in Credits |-> credit[c].remaining]
  <2>1. DOMAIN f = Credits /\ \A c \in Credits : f[c] \in Nat
    BY <1>4
  <2> HIDE DEF f
  <2>2. SumFunctionOnSet(f, Credits) \in Nat
    BY <2>1, CreditsFinite, SumIsNatural
  <2> QED
    BY <2>1, <2>2 DEF Available, SumFunction, f
<1>6. CASE PlanCredit(r)
  <2>1. PICK planned \in 0..Missing(req[r]) :
          /\ planned = Smaller(Available, Missing(req[r]))
          /\ Becomes(r, [req[r] EXCEPT !.pc = IF planned > 0 THEN "list" ELSE "write",
                                       !.planned = planned, !.left = planned])
    BY <1>6 DEF PlanCredit
  <2> DEFINE q == [req[r] EXCEPT !.pc = IF planned > 0 THEN "list" ELSE "write",
                                 !.planned = planned, !.left = planned]
  <2>2. /\ q.pc \in {"list", "write"} /\ (q.pc = "write" => ~(planned > 0))
        /\ q.of = req[r].of /\ q.already = req[r].already
        /\ q.planned = planned /\ q.left = planned
    BY <1>2 DEF Request
  <2> HIDE DEF q
  <2>3. req'[r] = q /\ \A s \in Requests : s = r
    BY <2>1, LoneBecomes DEF q
  <2>4. planned \in Nat /\ planned <= Available
    <3>1. Missing(req[r]) \in Nat
      BY <1>2, MemberCreditsAssumption DEF Missing, Larger
    <3> QED
      BY <1>5, <2>1, <3>1 DEF Smaller
  <2>5. req[r].already <= applied[req[r].of]
    BY <1>6 DEF PlanCredit, Knows
  <2>6. Available' = Available
    BY <1>1 DEF Available
  <2>7. /\ q.already + q.planned <= applied[req[r].of] + q.left
        /\ q.left <= Available
        /\ q.pc = "write" => q.already + q.planned <= applied[req[r].of]
    BY <1>2, <1>3, <2>2, <2>4, <2>5
  <2>8. Knows(r)'
    BY <1>1, <2>2, <2>3, <2>6, <2>7 DEF Knows, At
  <2> QED
    BY <1>1, <2>3, <2>8, ReadsSettled
<1>7. CASE ListCredits(r)
  <2> DEFINE f == [c \in Credits |-> credit[c].remaining]
             q == [req[r] EXCEPT !.pc = "take", !.listed = f]
  <2>1. /\ q.pc = "take" /\ q.of = req[r].of /\ q.already = req[r].already
        /\ q.planned = req[r].planned /\ q.left = req[r].left /\ q.listed = f
    BY <1>2 DEF Request
  <2>2. Becomes(r, q)
    BY <1>7 DEF ListCredits
  <2>3. SumFunction(f) = Available
    BY DEF Available
  <2> HIDE DEF q, f
  <2>4. req'[r] = q /\ \A s \in Requests : s = r
    BY <2>2, LoneBecomes
  <2>5. /\ req[r].already + req[r].planned <= applied[req[r].of] + req[r].left
        /\ req[r].left <= Available
    BY <1>7 DEF ListCredits, Knows
  <2>6. Knows(r)'
    BY <1>1, <2>1, <2>3, <2>4, <2>5 DEF Knows, At
  <2> QED
    BY <1>1, <2>4, <2>6, ReadsSettled
<1> QED
  BY <1>6, <1>7

\* What is taken off the list is taken off what is left, so that the list has the
\* rest; when it is done, all that was planned is applied.
LEMMA TakeKnows ==
  ASSUME Alone, SettledInv, NEW r \in Requests, TakeCredit(r) \/ StopTaking(r)
  PROVE  (\A x \in Reservations : Settled(x)') /\ \A q \in Requests : Knows(q)'
<1> Typed /\ Knows(r)
  BY DEF SettledInv
<1>1. /\ req[r] \in Request /\ req[r].of \in Reservations
      /\ req[r].already \in Nat /\ req[r].planned \in Nat /\ req[r].left \in Nat
      /\ req[r].listed \in [Credits -> Nat]
  BY HeldTyped DEF TakeCredit, StopTaking, At
<1>0. PICK x \in Reservations : x = req[r].of
  BY <1>1
<1>2. applied[x] \in Nat
  BY AmountsTyped
<1>3. /\ req[r].already + req[r].planned <= applied[x] + req[r].left
      /\ req[r].left <= SumFunction(req[r].listed)
  BY <1>0 DEF TakeCredit, StopTaking, Knows
<1>4. CASE TakeCredit(r)
  <2>1. PICK c \in Credits :
          LET take == Smaller(req[r].listed[c], req[r].left)
          IN  /\ applied' = [applied EXCEPT ![x] = @ + take]
              /\ Becomes(r, [req[r] EXCEPT !.listed[c] = 0, !.left = @ - take])
    BY <1>0, <1>4 DEF TakeCredit
  <2> DEFINE take == Smaller(req[r].listed[c], req[r].left)
             f == [req[r].listed EXCEPT ![c] = 0]
             q == [req[r] EXCEPT !.listed = f, !.left = @ - take]
  <2>2. /\ take \in Nat /\ take <= req[r].listed[c] /\ take <= req[r].left
        /\ take = req[r].listed[c] \/ take = req[r].left
    BY TakeType DEF Smaller
  <2>3. applied' = [applied EXCEPT ![x] = @ + take]
    BY <2>1
  <2>4. /\ SumFunction(f) \in Nat
        /\ SumFunction(req[r].listed) = req[r].listed[c] + SumFunction(f)
    BY <1>1, CreditOffTheList
  <2>5. Becomes(r, q)
    <3>1. [req[r] EXCEPT !.listed[c] = 0, !.left = @ - take] = q
      BY <1>1 DEF Request
    <3> QED
      BY <2>1, <3>1
  <2> HIDE DEF take
  <2>6. /\ q.pc = "take" /\ q.of = x /\ q.already = req[r].already
        /\ q.planned = req[r].planned /\ q.left = req[r].left - take /\ q.listed = f
    BY <1>0, <1>1, <1>4 DEF Request, TakeCredit, At
  <2> HIDE DEF q, f
  <2>7. req'[r] = q /\ \A s \in Requests : s = r
    BY <2>5, LoneBecomes
  <2>8. \A y \in Reservations : applied'[y] = IF y = x THEN applied[y] + take ELSE applied[y]
    BY <2>3 DEF Typed, TypeOK
  <2>9. req[r].listed[c] \in Nat
    BY <1>1
  <2>10. /\ q.already + q.planned <= applied'[x] + q.left
         /\ q.left <= SumFunction(q.listed)
    BY <1>1, <1>2, <1>3, <2>2, <2>4, <2>6, <2>8, <2>9
  <2>11. Knows(r)'
    BY <2>6, <2>7, <2>10 DEF Knows, At
  <2>12. ASSUME NEW y \in Reservations  PROVE Settled(y)'
    <3>1. Settled(y)
      BY DEF SettledInv
    <3>2. /\ row' = row /\ session' = session /\ received' = received
          /\ applied'[y] \in Nat /\ applied'[y] >= applied[y]
      <4>1. applied[y] \in Nat
        BY AmountsTyped
      <4>2. applied'[y] = applied[y] + take \/ applied'[y] = applied[y]
        BY <2>8
      <4>3. applied'[y] \in Nat /\ applied'[y] >= applied[y]
        BY ONLY <2>2, <4>1, <4>2
      <4> QED
        BY <1>4, <4>3 DEF TakeCredit
    <3>3. /\ row[y].total \in Nat /\ Price[y] \in Nat /\ applied[y] \in Nat
          /\ Online(y) \in Nat /\ Online(y)' = Online(y)
      BY <3>2, AmountsTyped DEF Online
    <3> QED
      BY <3>1, <3>2, <3>3 DEF Settled, MinCharge
  <2> QED
    BY <2>7, <2>11, <2>12
<1>5. CASE StopTaking(r)
  <2>1. req[r].left = 0
    <3>1. req[r].left = 0 \/ req[r].listed = Nothing
      BY <1>5 DEF StopTaking
    <3> QED
      BY <1>1, <1>3, <3>1, EmptyList
  <2> DEFINE q == [req[r] EXCEPT !.pc = "write", !.left = 0, !.listed = Nothing]
  <2>2. /\ q.pc = "write" /\ q.of = x /\ q.already = req[r].already
        /\ q.planned = req[r].planned
    BY <1>0, <1>1 DEF Request
  <2>3. Becomes(r, q)
    BY <1>5 DEF StopTaking
  <2> HIDE DEF q
  <2>4. req'[r] = q /\ \A s \in Requests : s = r
    BY <2>3, LoneBecomes
  <2>5. UNCHANGED <<row, session, received, applied>>
    BY <1>5 DEF StopTaking
  <2>6. q.already + q.planned <= applied'[x]
    BY <1>1, <1>2, <1>3, <2>1, <2>2, <2>5
  <2>7. Knows(r)'
    BY <2>2, <2>4, <2>6 DEF Knows, At
  <2> QED
    BY <2>4, <2>5, <2>7, ReadsSettled
<1> QED
  BY <1>4, <1>5

\* A reservation's row and session are rewritten.
LEMMA OthersSettled ==
  ASSUME SettledInv, NEW x \in Reservations, Settled(x)',
         \A y \in Reservations \ {x} : row'[y] = row[y] /\ session'[y] = session[y]
                                         /\ received'[y] = received[y],
         UNCHANGED applied
  PROVE  \A y \in Reservations : Settled(y)'
<1> TAKE y \in Reservations
<1>1. CASE y = x
  BY <1>1
<1>2. CASE y # x
  <2>1. Settled(y)
    BY DEF SettledInv
  <2> QED
    BY <1>2, <2>1, SettledStays
<1> QED
  BY <1>1, <1>2

\* The total that is written lacks the credit that was planned, which is applied;
\* what it covers but for the cents is captured.
LEMMA WriteKnows ==
  ASSUME Alone, SettledInv, NEW r \in Requests, WriteTotal(r)
  PROVE  (\A x \in Reservations : Settled(x)') /\ \A q \in Requests : Knows(q)'
<1> Typed /\ Knows(r)
  BY DEF SettledInv
<1>0. PICK x \in Reservations : x = req[r].of
  BY HeldTyped DEF WriteTotal, At
<1> DEFINE total == RemainingTotal(req[r])
           covered == total < MinCharge /\ req[r].already + req[r].planned > 0
           new == [row[x] EXCEPT !.total = total, !.captured = @ \/ covered,
                                 !.status = IF covered THEN "RESERVED_PAID" ELSE @]
<1>1. req[r].already \in Nat /\ req[r].planned \in Nat
  BY HeldTyped DEF WriteTotal, At
<1>2. /\ Price[x] \in Nat /\ applied[x] \in Nat /\ received[x] \in Nat /\ row[x] \in Row
      /\ row[x].total \in Nat /\ row[x].baseline \in Nat /\ row[x].fees \in Nat
      /\ row[x].captured \in BOOLEAN /\ Online(x) \in Nat
  BY AmountsTyped
<1>3. req[r].already + req[r].planned <= applied[x]
  BY <1>0 DEF WriteTotal, Knows
<1>4. total \in Nat /\ total + applied[x] >= Price[x]
  BY <1>0, <1>1, <1>2, <1>3 DEF RemainingTotal, Larger
<1>5. UNCHANGED <<session, received, applied>>
  BY DEF WriteTotal
<1>6. row' = row \/ row' = [row EXCEPT ![x] = new]
  <2>1. [row EXCEPT ![x].total = total, ![x].captured = @ \/ covered,
                    ![x].status = IF covered THEN "RESERVED_PAID" ELSE @]
          = [row EXCEPT ![x] = new]
    BY <1>2 DEF Typed, TypeOK, Row
  <2> QED
    BY <1>0, <2>1 DEF WriteTotal
<1>7. /\ new.total = total /\ new.baseline = row[x].baseline /\ new.fees = row[x].fees
      /\ new.captured = (row[x].captured \/ covered)
      /\ new.status = IF covered THEN "RESERVED_PAID" ELSE row[x].status
  BY <1>2 DEF Row
<1> HIDE DEF new, total
<1>8. \A y \in Reservations : Settled(y)'
  <2>1. CASE row' = row
    BY <1>5, <2>1, ReadsSettled
  <2>2. CASE row' = [row EXCEPT ![x] = new]
    <3>1. row'[x] = new /\ \A y \in Reservations \ {x} : row'[y] = row[y]
      BY <2>2 DEF Typed, TypeOK
    <3>2. Settled(x)
      BY DEF SettledInv
    <3>3. Online(x)' = Online(x)
      BY <1>7, <3>1 DEF Online
    <3>4. covered => applied[x] + Online(x) + MinCharge > Price[x]
      BY <1>2, <1>4 DEF MinCharge
    <3>5. /\ row'[x].total = total /\ row'[x].baseline = row[x].baseline
          /\ row'[x].fees = row[x].fees
          /\ row'[x].captured => row[x].captured \/ covered
          /\ row'[x].status = IF covered THEN "RESERVED_PAID" ELSE row[x].status
      BY <1>7, <3>1
    <3> HIDE DEF covered
    <3>6. row'[x].captured => /\ row'[x].status # "PENDING_PAYMENT"
                              /\ applied'[x] + Online(x)' + MinCharge > Price[x]
      BY <1>5, <3>2, <3>3, <3>4, <3>5 DEF Settled
    <3>7. row'[x].total + applied'[x] >= Price[x]
      BY <1>4, <1>5, <3>5
    <3>8. Settled(x)'
      BY <1>5, <3>2, <3>5, <3>6, <3>7 DEF Settled
    <3> QED
      BY <1>5, <3>1, <3>8, OthersSettled
  <2> QED
    BY <1>6, <2>1, <2>2
<1>9. \A q \in Requests : Knows(q)'
  <2> DEFINE q == [Idle EXCEPT !.pc = "mail", !.of = x]
  <2>1. q.pc = "mail"
    BY DEF Idle
  <2>2. Becomes(r, q)
    BY <1>0 DEF WriteTotal
  <2> HIDE DEF q
  <2>3. req'[r] = q /\ \A s \in Requests : s = r
    BY <2>2, LoneBecomes
  <2> QED
    BY <2>1, <2>3 DEF Knows, At
<1> QED
  BY <1>8, <1>9

\* What the mail grants lacks no more than the cents.
LEMMA MailKnows ==
  ASSUME Alone, SettledInv, NEW r \in Requests, SendMail(r)
  PROVE  (\A x \in Reservations : Settled(x)') /\ \A q \in Requests : Knows(q)'
<1> Typed
  BY DEF SettledInv
<1>1. PICK x \in Reservations : x = req[r].of
  BY HeldTyped DEF SendMail, At
<1>2. /\ Price[x] \in Nat /\ applied[x] \in Nat /\ received[x] \in Nat /\ row[x] \in Row
      /\ row[x].total \in Nat /\ Online(x) \in Nat
  BY <1>1, AmountsTyped
<1>3. UNCHANGED <<received, applied>>
  BY DEF SendMail
<1>4. Settled(x)
  BY <1>1 DEF SettledInv
<1>5. \A y \in Reservations : Settled(y)'
  <2>1. CASE UNCHANGED <<row, session>>
    BY <1>3, <2>1, ReadsSettled
  <2>2. CASE /\ row[x].total < MinCharge
             /\ row' = [row EXCEPT ![x].captured = TRUE, ![x].status = "RESERVED_PAID"]
             /\ session' = [session EXCEPT ![x] = Unpaid(0)]
    <3> DEFINE new == [row[x] EXCEPT !.captured = TRUE, !.status = "RESERVED_PAID"]
    <3>1. row'[x] = new /\ \A y \in Reservations \ {x} : row'[y] = row[y]
      BY <1>1, <2>2 DEF Typed, TypeOK
    <3>2. /\ new.total = row[x].total /\ new.baseline = row[x].baseline
          /\ new.fees = row[x].fees /\ new.status = "RESERVED_PAID"
      BY <1>2 DEF Row
    <3> HIDE DEF new
    <3>3. ~session'[x].paid /\ \A y \in Reservations \ {x} : session'[y] = session[y]
      BY <1>1, <2>2 DEF Typed, TypeOK, Unpaid
    <3>4. Online(x)' = Online(x)
      BY <3>1, <3>2 DEF Online
    <3>5. applied[x] + Online(x) + MinCharge > Price[x]
      BY <1>2, <1>4, <2>2 DEF Settled, MinCharge
    <3>6. Settled(x)'
      BY <1>3, <1>4, <3>1, <3>2, <3>3, <3>4, <3>5 DEF Settled
    <3> QED
      BY <1>1, <1>3, <3>1, <3>3, <3>6, OthersSettled
  <2>3. CASE row' = row /\ session' = [session EXCEPT ![x] = Unpaid(row[x].total)]
    <3>1. ~session'[x].paid /\ \A y \in Reservations \ {x} : session'[y] = session[y]
      BY <1>1, <2>3 DEF Typed, TypeOK, Unpaid
    <3>2. Settled(x)'
      BY <1>3, <1>4, <2>3, <3>1 DEF Settled, Online
    <3> QED
      BY <1>1, <1>3, <2>3, <3>1, <3>2, OthersSettled
  <2> QED
    BY <1>1, <2>1, <2>2, <2>3 DEF SendMail
<1>6. \A q \in Requests : Knows(q)'
  BY IdleKnows DEF SendMail
<1> QED
  BY <1>5, <1>6

\* What is collected of a reservation that had to be paid was given for it: what
\* is recorded was received, and a guess from the total is credit.
LEMMA CollectedIsBacked ==
  ASSUME Typed, NEW x \in Reservations, Settled(x), row[x].captured,
         Price[x] >= MinCharge
  PROVE  Collected(x) <= applied[x] + received[x]
<1>1. /\ Price[x] \in Nat /\ applied[x] \in Nat /\ received[x] \in Nat
      /\ row[x].total \in Nat /\ row[x].baseline \in Nat /\ row[x].fees \in Nat
      /\ session[x].amount \in Nat /\ Online(x) \in Nat
  BY AmountsTyped
<1>2. Online(x) <= received[x]
  BY <1>1 DEF Settled, Online, Larger
<1>3. /\ row[x].total + applied[x] >= Price[x]
      /\ applied[x] + Online(x) + MinCharge > Price[x]
      /\ session[x].paid => session[x].amount <= received[x]
  BY DEF Settled
<1>4. applied[x] + Online(x) > 0
  BY <1>1, <1>3 DEF MinCharge
<1>5. Recorded(x) <= applied[x] + received[x]
  BY <1>1, <1>2, <1>3, <1>4 DEF Recorded, Larger, MinCharge
<1>6. PaidBesides(x) <= applied[x] + received[x]
  BY <1>1, <1>3 DEF PaidBesides
<1>7. Recorded(x) \in Nat /\ PaidBesides(x) \in Nat
  BY CollectedType
<1> QED
  BY <1>5, <1>6, <1>7 DEF Collected, Larger

\* The row is read when nobody but the request could change it.
LEMMA CancelStarts ==
  ASSUME Alone, SettledInv, NEW r \in Requests, NEW x \in Reservations, StartCredit(r, x)
  PROVE  (\A y \in Reservations : Settled(y)') /\ \A q \in Requests : Knows(q)'
<1> Typed /\ Settled(x)
  BY DEF SettledInv
<1> DEFINE q == [Idle EXCEPT !.pc = "collect", !.of = x, !.details = row[x].baseline]
<1>1. q.pc = "collect" /\ q.of = x /\ q.details = row[x].baseline
  BY DEF Idle
<1>2. Becomes(r, q)
  BY DEF StartCredit
<1> HIDE DEF q
<1>3. req'[r] = q /\ \A s \in Requests : s = r
  BY <1>2, LoneBecomes
<1>4. UNCHANGED <<row, session, received, applied>>
  BY DEF StartCredit
<1>5. row[x].captured /\ row[x].status = "RESERVED_PAID"
  <2>1. row[x].captured /\ row[x].status # "CANCELLED" /\ row[x].status # "PENDING_PAYMENT"
    BY DEF StartCredit, Settled
  <2>2. row[x].status \in {"PENDING_PAYMENT", "RESERVED_PAID", "CANCELLED"}
    BY AmountsTyped DEF Row
  <2> QED
    BY <2>1, <2>2
<1>6. Knows(r)'
  BY <1>1, <1>3, <1>4, <1>5 DEF Knows, At
<1> QED
  BY <1>3, <1>4, <1>6, ReadsSettled

\* A baseline that is stored when the amount is collected is dropped again by the
\* details that were read.
LEMMA CollectKnows ==
  ASSUME Alone, SettledInv, NEW r \in Requests, Collect(r)
  PROVE  (\A x \in Reservations : Settled(x)') /\ \A q \in Requests : Knows(q)'
<1> Typed /\ Knows(r)
  BY DEF SettledInv
<1>0. PICK x \in Reservations : x = req[r].of
  BY HeldTyped DEF Collect, At
<1>1. Settled(x)
  BY DEF SettledInv
<1>2. /\ Price[x] \in Nat /\ applied[x] \in Nat /\ received[x] \in Nat /\ row[x] \in Row
      /\ row[x].baseline \in Nat /\ row[x].fees \in Nat
      /\ session[x].amount \in Nat /\ session[x].paid \in BOOLEAN
  BY AmountsTyped
<1>3. /\ row[x].captured /\ row[x].status = "RESERVED_PAID"
      /\ req[r].details = row[x].baseline
  BY <1>0 DEF Collect, Knows
<1> DEFINE b == PaidBesides(x)
           new == [row[x] EXCEPT !.baseline = b]
<1>4. b \in Nat /\ b <= received[x]
  BY <1>1, <1>2 DEF PaidBesides, Settled
<1>5. \/ row' = row
      \/ row[x].baseline = 0 /\ row' = [row EXCEPT ![x] = new]
  <2>1. [row EXCEPT ![x].baseline = b] = [row EXCEPT ![x] = new]
    BY <1>2 DEF Typed, TypeOK, Row
  <2> QED
    BY <1>0, <2>1 DEF Collect
<1>6. /\ new.total = row[x].total /\ new.captured = row[x].captured
      /\ new.status = row[x].status /\ new.fees = row[x].fees /\ new.baseline = b
  BY <1>2 DEF Row
<1> HIDE DEF new, b
<1>7. UNCHANGED <<session, received, applied>>
  BY DEF Collect
<1>8. \A y \in Reservations : Settled(y)'
  <2>1. CASE row' = row
    BY <1>7, <2>1, ReadsSettled
  <2>2. CASE row[x].baseline = 0 /\ row' = [row EXCEPT ![x] = new]
    <3>1. row'[x] = new /\ \A y \in Reservations \ {x} : row'[y] = row[y]
      BY <2>2 DEF Typed, TypeOK
    <3>2. Online(x) \in Nat /\ Online(x)' \in Nat /\ Online(x) <= Online(x)'
      BY <1>2, <1>4, <1>6, <2>2, <3>1 DEF Online, Larger
    <3>3. applied'[x] + Online(x)' + MinCharge > Price[x]
      BY <1>1, <1>2, <1>3, <1>7, <3>2 DEF Settled, MinCharge
    <3>4. Settled(x)'
      BY <1>1, <1>3, <1>4, <1>6, <1>7, <3>1, <3>3 DEF Settled
    <3> QED
      BY <1>7, <3>1, <3>4, OthersSettled
  <2> QED
    BY <1>5, <2>1, <2>2
<1>9. /\ row'[x].captured /\ row'[x].status = "RESERVED_PAID"
      /\ row'[x].fees = row[x].fees
  BY <1>3, <1>5, <1>6 DEF Typed, TypeOK
<1> DEFINE q == [req[r] EXCEPT !.pc = "cancel", !.amount = Collected(x)]
<1>10. q.pc = "cancel" /\ q.of = x /\ q.amount = Collected(x) /\ q.details = req[r].details
  BY <1>0 DEF Typed, TypeOK, Request
<1>11. Becomes(r, q)
  BY <1>0 DEF Collect
<1> HIDE DEF q
<1>12. req'[r] = q /\ \A s \in Requests : s = r
  BY <1>11, LoneBecomes
<1>13. applied[x] + Larger(row[x].fees, row[x].baseline) + MinCharge > Price[x]
  BY <1>1, <1>3 DEF Settled, Online
<1>14. Price[x] >= MinCharge => Collected(x) <= applied[x] + received[x]
  BY <1>1, <1>3, CollectedIsBacked
<1>15. row[x].baseline <= received[x]
  BY <1>1 DEF Settled
<1>16. Knows(r)'
  BY <1>3, <1>7, <1>9, <1>10, <1>12, <1>13, <1>14, <1>15 DEF Knows, At
<1> QED
  BY <1>8, <1>12, <1>16

\* The row keeps what it had when the request started.
LEMMA CancelKnows ==
  ASSUME Alone, SettledInv, NEW r \in Requests, CancelForCredit(r) \/ IssueCredit(r)
  PROVE  (\A x \in Reservations : Settled(x)') /\ \A q \in Requests : Knows(q)'
<1> Typed /\ Knows(r)
  BY DEF SettledInv
<1>1. CASE CancelForCredit(r)
  <2>0. PICK x \in Reservations : x = req[r].of
    BY <1>1, HeldTyped DEF CancelForCredit, At
  <2>1. Settled(x) /\ row[x] \in Row
    BY AmountsTyped DEF SettledInv
  <2>2. /\ applied[x] + Larger(row[x].fees, req[r].details) + MinCharge > Price[x]
        /\ req[r].details <= received[x]
        /\ Price[x] >= MinCharge => req[r].amount <= applied[x] + received[x]
    BY <1>1, <2>0 DEF CancelForCredit, Knows
  <2> DEFINE new == [row[x] EXCEPT !.status = "CANCELLED", !.baseline = req[r].details]
  <2>3. row'[x] = new /\ \A y \in Reservations \ {x} : row'[y] = row[y]
    <3>1. [row EXCEPT ![x].status = "CANCELLED", ![x].baseline = req[r].details]
            = [row EXCEPT ![x] = new]
      BY <2>1 DEF Typed, TypeOK, Row
    <3> QED
      BY <1>1, <2>0, <3>1 DEF CancelForCredit, Typed, TypeOK
  <2>4. /\ new.total = row[x].total /\ new.status = "CANCELLED"
        /\ new.fees = row[x].fees /\ new.baseline = req[r].details
    BY <2>1 DEF Row
  <2> HIDE DEF new
  <2>5. UNCHANGED <<session, received, applied>>
    BY <1>1 DEF CancelForCredit
  <2>6. Online(x)' = Larger(row[x].fees, req[r].details)
    BY <2>3, <2>4 DEF Online
  <2>7. Settled(x)'
    BY <2>1, <2>2, <2>3, <2>4, <2>5, <2>6 DEF Settled
  <2>8. \A y \in Reservations : Settled(y)'
    BY <2>3, <2>5, <2>7, OthersSettled
  <2> DEFINE q == [req[r] EXCEPT !.pc = "issue"]
  <2>9. q.pc = "issue" /\ q.of = x /\ q.amount = req[r].amount
    BY <2>0 DEF Typed, TypeOK, Request
  <2>10. Becomes(r, q)
    BY <1>1 DEF CancelForCredit
  <2> HIDE DEF q
  <2>11. req'[r] = q /\ \A s \in Requests : s = r
    BY <2>10, LoneBecomes
  <2>12. Knows(r)'
    BY <2>2, <2>5, <2>9, <2>11 DEF Knows, At
  <2> QED
    BY <2>8, <2>11, <2>12
<1>2. CASE IssueCredit(r)
  <2>1. UNCHANGED <<row, session, received, applied>>
    BY <1>2 DEF IssueCredit
  <2> QED
    BY <1>2, <2>1, ReadsSettled, IdleKnows DEF IssueCredit
<1> QED
  BY <1>1, <1>2

\* A payment that is confirmed is of the stored total; one that comes while the
\* reservation is cancelled finds it captured, and leaves its row alone.
LEMMA PaysKnows ==
  ASSUME SettledInv, NEW x \in Reservations, ClientPays(x)
  PROVE  (\A y \in Reservations : Settled(y)') /\ \A q \in Requests : Knows(q)'
<1> Typed /\ Settled(x)
  BY DEF SettledInv
<1>1. /\ Price[x] \in Nat /\ applied[x] \in Nat /\ received[x] \in Nat /\ row[x] \in Row
      /\ row[x].total \in Nat /\ row[x].baseline \in Nat /\ row[x].fees \in Nat
      /\ session[x].amount \in Nat /\ session[x] \in Session
  BY AmountsTyped DEF Typed, TypeOK
<1> DEFINE a == session[x].amount
<1>2. /\ session'[x].amount = a /\ \A y \in Reservations \ {x} : session'[y] = session[y]
      /\ received'[x] = received[x] + a
      /\ \A y \in Reservations \ {x} : received'[y] = received[y]
  BY <1>1 DEF ClientPays, Typed, TypeOK, Session
<1>3. UNCHANGED <<applied, credit, req>>
  BY DEF ClientPays
<1>4. PICK f \in {row[x].fees, a} :
         \/ row' = row
         \/ /\ a = row[x].total
            /\ row[x].status # "RESERVED_PAID" \/ ~row[x].captured
            /\ row' = [row EXCEPT ![x].captured = TRUE, ![x].status = "RESERVED_PAID",
                                  ![x].baseline = a, ![x].fees = f]
  BY DEF ClientPays
<1> DEFINE new == [row[x] EXCEPT !.captured = TRUE, !.status = "RESERVED_PAID",
                                 !.baseline = a, !.fees = f]
<1>5. \/ row' = row
      \/ /\ a = row[x].total
         /\ row[x].status # "RESERVED_PAID" \/ ~row[x].captured
         /\ row'[x] = new /\ \A y \in Reservations \ {x} : row'[y] = row[y]
  <2>1. [row EXCEPT ![x].captured = TRUE, ![x].status = "RESERVED_PAID",
                    ![x].baseline = a, ![x].fees = f] = [row EXCEPT ![x] = new]
    BY <1>1 DEF Typed, TypeOK, Row
  <2> QED
    BY <1>4, <2>1 DEF Typed, TypeOK
<1>6. /\ new.total = row[x].total /\ new.captured = TRUE /\ new.status = "RESERVED_PAID"
      /\ new.baseline = a /\ new.fees = f
  BY <1>1 DEF Row
<1>7. a \in Nat /\ f \in Nat /\ (f = row[x].fees \/ f = a)
  BY <1>1, <1>4
<1> HIDE DEF new, a
<1>8. \A y \in Reservations \ {x} : row'[y] = row[y]
  BY <1>5
<1>9. Settled(x)'
  <2>1. CASE row' = row
    BY <1>1, <1>2, <1>3, <1>7, <2>1 DEF Settled, Online
  <2>2. CASE a = row[x].total /\ row'[x] = new
    <3>1. row'[x].total = row[x].total /\ row'[x].baseline = a /\ row'[x].fees = f
          /\ row'[x].status = "RESERVED_PAID"
      BY <1>6, <2>2
    <3>2. Online(x)' \in Nat /\ Online(x)' >= a
      BY <1>7, <3>1 DEF Online, Larger
    <3>3. applied'[x] + Online(x)' + MinCharge > Price[x]
      BY <1>1, <1>3, <1>7, <2>2, <3>2 DEF Settled, MinCharge
    <3>4. f <= received'[x] /\ a <= received'[x]
      BY <1>1, <1>2, <1>7 DEF Settled
    <3>5. row'[x].total + applied'[x] >= Price[x]
      BY <1>3, <3>1 DEF Settled
    <3> QED
      BY <1>2, <3>1, <3>3, <3>4, <3>5 DEF Settled
  <2> QED
    BY <1>5, <2>1, <2>2
<1>10. \A y \in Reservations : Settled(y)'
  BY <1>2, <1>3, <1>8, <1>9, OthersSettled
<1>11. ASSUME NEW r \in Requests  PROVE Knows(r)'
  <2>1. Knows(r)
    BY DEF SettledInv
  <2>2. req'[r] = req[r] /\ applied' = applied /\ Available' = Available
    BY <1>3 DEF Available
  <2>3. CASE At(r, "idle")
    BY <2>2, <2>3 DEF Knows, At
  <2>4. CASE ~At(r, "idle")
    <3>1. PICK y \in Reservations : y = req[r].of
      BY <2>4, HeldTyped
    <3>2. /\ req[r].details \in Nat /\ req[r].amount \in Nat
          /\ applied[y] \in Nat /\ received[y] \in Nat /\ Price[y] \in Nat
      BY <2>4, HeldTyped, AmountsTyped
    <3>3. received'[y] \in Nat /\ received'[y] >= received[y]
      BY <1>1, <1>2, <1>7, <3>2
    <3>4. At(r, "collect") \/ At(r, "cancel") => row'[y] = row[y]
      BY <1>5, <1>8, <2>1, <3>1 DEF Knows
    <3> QED
      BY <2>1, <2>2, <3>1, <3>2, <3>3, <3>4 DEF Knows, At
  <2> QED
    BY <2>3, <2>4
<1> QED
  BY <1>10, <1>11

\* Every step keeps the books settled, when requests run alone.
LEMMA NextSettled ==
  ASSUME Alone  PROVE SettledInv /\ [Next]_vars => SettledInv'
<1> SUFFICES ASSUME SettledInv, [Next]_vars PROVE SettledInv'
  OBVIOUS
<1>1. Typed /\ Typed'
  BY NextTyped DEF SettledInv
<1> DEFINE Goal == (\A x \in Reservations : Settled(x)') /\ \A q \in Requests : Knows(q)'
<1>2. ASSUME NEW r \in Requests, PricingStep(r)  PROVE Goal
  BY <1>2, PriceKnows, PlanKnows, TakeKnows, WriteKnows, MailKnows DEF PricingStep
<1>3. ASSUME NEW r \in Requests, CollectNothing(r) \/ Abort(r)  PROVE Goal
  <2>1. UNCHANGED <<row, session, received, applied>> /\ Becomes(r, Idle)
    BY <1>3 DEF CollectNothing, Abort
  <2> QED
    BY <1>1, <2>1, ReadsSettled, IdleKnows
<1>4. ASSUME NEW r \in Requests, CreditStep(r)  PROVE Goal
  BY <1>3, <1>4, CollectKnows, CancelKnows DEF CreditStep
<1>5. ASSUME NEW r \in Requests, NEW x \in Reservations,
             StartPricing(r, x) \/ StartCredit(r, x)
      PROVE  Goal
  BY <1>5, PriceKnows, CancelStarts
<1>6. ASSUME NEW x \in Reservations, ClientPays(x)  PROVE Goal
  BY <1>6, PaysKnows
<1>7. ASSUME UNCHANGED vars  PROVE Goal
  <2>1. UNCHANGED <<row, session, received, credit, applied, req>>
    BY <1>7 DEF vars
  <2>2. \A x \in Reservations : Settled(x)'
    BY <2>1, ReadsSettled
  <2>3. ASSUME NEW q \in Requests  PROVE Knows(q)'
    <3>1. Knows(q)
      BY DEF SettledInv
    <3> QED
      BY <2>1, <3>1 DEF Knows, At, Available
  <2> QED
    BY <2>2, <2>3
<1> HIDE DEF Goal
<1>8. Goal
  BY <1>2, <1>3, <1>4, <1>5, <1>6, <1>7 DEF Next
<1> QED
  BY <1>1, <1>8 DEF Goal, SettledInv

\* Whatever the prices, the credits and the deaths, a reservation is captured only
\* once it has been given its price in credit and card payment, but for the cents
\* Stripe does not take, and a cancellation takes none of it off its records:
\* syncComputedTotalDueCents, sendConfirmationEmail, resolveAsStoreCredit.
THEOREM CapturedIsPaidInFull ==
  ASSUME Alone  PROVE Spec => []PaidInFull
<1>1. SettledInv => PaidInFull
  BY DEF SettledInv, Settled, PaidInFull
<1> QED
  BY <1>1, InitSettled, NextSettled, PTL DEF Spec

\* The credit issued is no more than what was given for the reservation, in credit
\* and in money, though its amount is guessed when little is recorded:
\* collectedAmountCents.
THEOREM IssuedIsBacked ==
  ASSUME Alone  PROVE Spec => IssuedCreditIsBacked
<1>1. SettledInv => \A r \in Requests :
                        LET x == req[r].of
                        IN  IssueCredit(r) /\ Price[x] >= MinCharge =>
                                req[r].amount <= applied[x] + received[x]
  BY DEF SettledInv, Knows, IssueCredit
<1>2. SettledInv /\ [Next]_vars =>
        [ \A r \in Requests :
            LET x == req[r].of
            IN  IssueCredit(r) /\ Price[x] >= MinCharge =>
                    req[r].amount <= applied[x] + received[x] ]_vars
  BY <1>1
<1> QED
  BY <1>2, InitSettled, NextSettled, PTL DEF Spec, IssuedCreditIsBacked
=============================================================================
