------------------------ MODULE InstallmentPlanProofs ------------------------
(***************************************************************************)
(* What the plan of a reservation keeps.  For any number of requests: its  *)
(* types, and that a capture has its reason.  For requests that run one at *)
(* a time (Alone): the three other properties of InstallmentPlan; requests *)
(* may still die anywhere, and the client, the catalogue and the forms the *)
(* operators have open do not wait for them.                               *)
(***************************************************************************)
EXTENDS InstallmentPlan, TLAPS

\* What a request needs where it works on an instalment.
Ready(q) ==
    /\ q.pc = "upsert" => q.choice # Single /\ q.k \in Both /\ q.amount # NoTotal
    /\ q.pc = "mark" => q.k \in Both

TInv == TypeOK /\ \A r \in Requests : Ready(req[r])

-----------------------------------------------------------------------------
(* Amounts.                                                                *)

\* The two parts computeInstallmentAmounts makes of a total are amounts, and add
\* up to it.
LEMMA PartsAreNaturals ==
  ASSUME NEW total \in Nat
  PROVE  /\ Parts(total)[1] \in Nat
         /\ Parts(total)[2] \in Nat
         /\ Parts(total)[1] + Parts(total)[2] = total
  <1> DEFINE raised == total * Percent + 50
             deposit == raised \div 100
  <1>1. total * Percent \in Nat /\ total * Percent <= 99 * total
    <2>1. \A p \in 1..99 : total * p \in Nat /\ total * p <= 99 * total
      OBVIOUS
    <2> QED  BY <2>1, InstallmentAssumption
  <1>2. raised \in Nat /\ raised < 100 * (total + 1)
    BY <1>1
  <1> HIDE DEF raised
  <1>3. \A n \in Nat : n < 100 * (total + 1) => n \div 100 \in Nat /\ n \div 100 <= total
    OBVIOUS
  <1>4. deposit \in Nat /\ deposit <= total
    BY <1>2, <1>3
  <1>5. Parts(total) = <<deposit, total - deposit>>
    BY DEF Parts, raised
  <1> HIDE DEF deposit
  <1> QED  BY <1>4, <1>5

\* The total the mail asks for is one of the catalogue's, or nothing.
LEMMA DueTyped ==
  ASSUME TypeOK
  PROVE  DueTotal \in Prices \cup {0} /\ DueTotal \in Nat /\ DueTotal # NoTotal /\ price \in Nat
  <1>1. row.total \in Prices \cup {0, NoTotal} /\ price \in Prices
    BY DEF TypeOK, Row
  <1>2. DueTotal \in Prices \cup {0} /\ price \in Nat
    BY <1>1, InstallmentAssumption DEF DueTotal
  <1>3. DueTotal \in Nat
    BY <1>2, InstallmentAssumption
  <1> QED  BY <1>2, <1>3 DEF NoTotal

\* What resolveOnlineChargeNow returns is an amount and an instalment's number.
LEMMA ChargeTyped ==
  ASSUME TypeOK, NEW total \in Nat
  PROVE  /\ OnlineCharge(plan, total).amount \in Nat
         /\ OnlineCharge(plan, total).for \in 0..2
  BY DEF TypeOK, OnlineCharge, Awaited, Instalment, Both

-----------------------------------------------------------------------------
(* Types.                                                                  *)

\* The values a request starts from are typed.
LEMMA IdleTyped ==
  /\ Unread \in Row /\ Absent \in Instalment /\ NoPlan \in [Both -> Instalment]
  /\ Idle \in Request /\ Ready(Idle)
  <1>1. Unread \in Row
    BY DEF Unread, Row
  <1>2. Absent \in Instalment /\ NoPlan \in [Both -> Instalment]
    BY InstallmentAssumption DEF NoPlan, Absent, Instalment, Methods
  <1> QED  BY <1>1, <1>2 DEF Idle, Request, Ready, Steps, Tasks, Choice, Single

\* A request that becomes a typed one leaves the others as they were.
LEMMA RequestTyped ==
  ASSUME NEW r \in Requests, NEW q \in Request, TInv, Ready(q), Becomes(r, q)
  PROVE  /\ req' \in [Requests -> Request]
         /\ \A t \in Requests : Ready(req'[t])
         /\ req'[r] = q
  BY DEF TInv, TypeOK, Becomes

\* Answering leaves the requests and the events typed.
LEMMA AnswerTyped ==
  ASSUME NEW r \in Requests, TInv, Answer(r)
  PROVE  /\ req' \in [Requests -> Request]
         /\ \A t \in Requests : Ready(req'[t])
         /\ event' \in [Sessions -> Event]
         /\ req'[r] = Idle
  <1>1. Becomes(r, Idle)
    BY DEF Answer
  <1>2. event' \in [Sessions -> Event]
    BY DEF Answer, TInv, TypeOK, Event
  <1> QED  BY <1>1, <1>2, IdleTyped, RequestTyped

\* A reservation just created is typed.
LEMMA InitTyped == Init => TInv
  <1> SUFFICES ASSUME Init  PROVE TInv
    OBVIOUS
  <1>1. row \in Row
    BY IdleTyped DEF Init, Row, Unread
  <1>2. \A choice \in Choice :
          /\ [Idle EXCEPT !.pc = "plan", !.task = "create", !.choice = choice] \in Request
          /\ Ready([Idle EXCEPT !.pc = "plan", !.task = "create", !.choice = choice])
    BY IdleTyped DEF Request, Idle, Ready, Steps, Tasks
  <1>3. req \in [Requests -> Request] /\ \A r \in Requests : Ready(req[r])
    BY <1>2, IdleTyped DEF Init
  <1>4. stripe \in [Sessions -> StripeSession] /\ event \in [Sessions -> Event]
    BY DEF Init, StripeSession, Event
  <1>5. /\ forms \subseteq Row /\ declared \subseteq Both /\ granted \in BOOLEAN
        /\ undone \in BOOLEAN /\ plan \in [Both -> Instalment] /\ price \in Prices
    BY IdleTyped DEF Init
  <1>6. aborts \in 0..MaxAborts
    BY InstallmentAssumption DEF Init
  <1> QED
    BY <1>1, <1>3, <1>4, <1>5, <1>6 DEF TInv, TypeOK

\* The forms and the history are typed.
NotesOK == forms \subseteq Row /\ declared \subseteq Both /\ granted \in BOOLEAN /\ undone \in BOOLEAN

LEMMA NotesKept ==
  ASSUME TInv, UNCHANGED <<forms, history>>
  PROVE  NotesOK'
  BY DEF TInv, TypeOK, NotesOK, history

\* A step of a request that leaves what it writes typed.
LEMMA WritesTyped ==
  ASSUME TInv, NEW r \in Requests, NEW q \in Request, Ready(q), Becomes(r, q),
         row' \in Row, plan' \in [Both -> Instalment], price' = price,
         stripe' \in [Sessions -> StripeSession], event' \in [Sessions -> Event],
         NotesOK', aborts' \in 0..MaxAborts
  PROVE  TInv'
  <1>1. req' \in [Requests -> Request] /\ \A t \in Requests : Ready(req'[t])
    BY RequestTyped
  <1>2. price' \in Prices
    BY DEF TInv, TypeOK
  <1> QED  BY <1>1, <1>2 DEF TInv, TypeOK, Ready, NotesOK

\* A step that only reads.
LEMMA ReadsTyped ==
  ASSUME TInv, NEW r \in Requests, NEW q \in Request, Ready(q), Becomes(r, q),
         UNCHANGED <<row, plan, outside, aborts>>
  PROVE  TInv'
  <1>1. /\ row' \in Row /\ plan' \in [Both -> Instalment]
        /\ stripe' \in [Sessions -> StripeSession] /\ event' \in [Sessions -> Event]
        /\ aborts' \in 0..MaxAborts /\ price' = price
    BY DEF TInv, TypeOK, outside
  <1>2. NotesOK'
    BY NotesKept DEF outside
  <1> QED  BY <1>1, <1>2, WritesTyped

\* A step that answers.
LEMMA AnswersTyped ==
  ASSUME TInv, NEW r \in Requests, Answer(r),
         row' \in Row, plan' \in [Both -> Instalment],
         stripe' \in [Sessions -> StripeSession], NotesOK', UNCHANGED <<price, aborts>>
  PROVE  TInv'
  <1>1. Becomes(r, Idle) /\ event' \in [Sessions -> Event]
    BY AnswerTyped DEF Answer
  <1>2. aborts' \in 0..MaxAborts
    BY DEF TInv, TypeOK
  <1> QED  BY <1>1, <1>2, IdleTyped, WritesTyped

\* Writing the plan keeps the types.
LEMMA PlanStepTyped ==
  ASSUME TInv, NEW r \in Requests, PlanStep(r)
  PROVE  TInv'
  <1>1. /\ req[r] \in Request /\ Ready(req[r]) /\ row \in Row
        /\ plan \in [Both -> Instalment] /\ price \in Prices
        /\ stripe \in [Sessions -> StripeSession] /\ event \in [Sessions -> Event]
        /\ aborts \in 0..MaxAborts /\ (UNCHANGED <<forms, history>> => NotesOK')
    BY NotesKept DEF TInv, TypeOK
  <1>3. CASE SaveForm(r)
    <2> DEFINE q == [req[r] EXCEPT !.pc = "total", !.seen = Unread, !.paid = FALSE]
    <2>1. q \in Request /\ Ready(q)
      <3>1. q \in Request
        BY <1>1, IdleTyped DEF Request, Steps
      <3> QED  BY <1>1, <3>1 DEF Ready, Request
    <2> HIDE DEF q
    <2>2. /\ Becomes(r, q) /\ UNCHANGED <<plan, price, stripe, event, forms, aborts, declared, granted>>
          /\ undone' = (undone \/ (row.captured /\ ~req[r].seen.captured))
      BY <1>3 DEF SaveForm, q
    <2>3. req[r].seen \in Row
      BY <1>1 DEF Request
    <2>4. row' \in Row
      BY <1>1, <1>3, <2>3 DEF SaveForm, Row
    <2>5. NotesOK'
      BY <2>2 DEF TInv, TypeOK, NotesOK
    <2> QED  BY <1>1, <2>1, <2>2, <2>4, <2>5, WritesTyped
  <1>4. CASE ReadTotal(r)
    <2> DEFINE q == IF row.captured
                    THEN [req[r] EXCEPT !.pc = "plan"]
                    ELSE [req[r] EXCEPT !.pc = "reprice", !.amount = price,
                                        !.seen = [Unread EXCEPT !.total = row.total]]
    <2>1. [Unread EXCEPT !.total = row.total] \in Row
      BY <1>1, IdleTyped DEF Row
    <2>2. q \in Request /\ Ready(q)
      BY <1>1, <2>1 DEF Request, Steps, Ready
    <2> HIDE DEF q
    <2>3. Becomes(r, q) /\ UNCHANGED <<row, plan, outside, aborts>>
      BY <1>4 DEF ReadTotal, q
    <2> QED  BY <2>2, <2>3, ReadsTyped
  <1>5. CASE Reprice(r)
    <2> DEFINE q == IF req[r].task = "send"
                    THEN [Idle EXCEPT !.pc = "mail"]
                    ELSE [Idle EXCEPT !.pc = "plan", !.task = req[r].task,
                                      !.choice = req[r].choice]
    <2>1. q \in Request /\ Ready(q)
      <3>1. [Idle EXCEPT !.pc = "mail"] \in Request /\ Ready([Idle EXCEPT !.pc = "mail"])
        BY IdleTyped DEF Request, Steps, Ready, Idle
      <3>2. \A task \in Tasks, choice \in Choice :
              /\ [Idle EXCEPT !.pc = "plan", !.task = task, !.choice = choice] \in Request
              /\ Ready([Idle EXCEPT !.pc = "plan", !.task = task, !.choice = choice])
        BY ZenonT(30), IdleTyped DEF Request, Steps, Ready, Idle
      <3>3. req[r].task \in Tasks /\ req[r].choice \in Choice
        BY <1>1 DEF Request
      <3> QED  BY <3>1, <3>2, <3>3
    <2> HIDE DEF q
    <2>2. Becomes(r, q) /\ UNCHANGED <<plan, outside, aborts>>
      BY <1>5 DEF Reprice, q
    <2>3. row' \in Row
      BY <1>1, <1>5 DEF Reprice, Row, Request
    <2> QED  BY <1>1, <2>1, <2>2, <2>3, WritesTyped DEF outside
  <1>6. CASE ReadPlan(r)
    <2>1. CASE req[r].choice # Single
      <3> DEFINE total == IF row.total = NoTotal THEN 0 ELSE row.total
                 q == [req[r] EXCEPT !.pc = "upsert", !.k = 1, !.plan = plan, !.amount = total]
      <3>1. total \in Prices \cup {0} /\ total # NoTotal
        BY <1>1 DEF Row, NoTotal
      <3> HIDE DEF total
      <3>2. q \in Request
        <4>1. \A x \in Request, n \in 0..2, p \in [Both -> Instalment],
                 a \in Prices \cup {0, NoTotal} :
                [x EXCEPT !.pc = "upsert", !.k = n, !.plan = p, !.amount = a] \in Request
          BY ZenonT(30) DEF Request, Steps
        <4>2. total \in Prices \cup {0, NoTotal} /\ 1 \in 0..2
          BY <3>1
        <4> QED  BY <1>1, <4>1, <4>2
      <3>3. q.choice # Single /\ q.k \in Both /\ q.amount # NoTotal /\ q.pc = "upsert"
        BY <1>1, <2>1, <3>1 DEF Request, Both
      <3>4. Ready(q)
        BY <3>3 DEF Ready
      <3> HIDE DEF q
      <3>5. Becomes(r, q) /\ UNCHANGED <<row, plan, outside, aborts>>
        BY <1>6, <2>1 DEF ReadPlan, q, total
      <3> QED  BY <3>2, <3>4, <3>5, ReadsTyped
    <2>2. CASE req[r].choice = Single
      <3>1. PICK q \in {[req[r] EXCEPT !.pc = "clear"], [Idle EXCEPT !.pc = "mail"], Idle} :
              Becomes(r, q)
        BY <1>6, <2>2 DEF ReadPlan, EndPlan
      <3>2. q \in Request /\ Ready(q)
        BY <1>1, <3>1, IdleTyped DEF Request, Steps, Ready
      <3> QED  BY <1>6, <3>1, <3>2, ReadsTyped DEF ReadPlan
    <2> QED  BY <2>1, <2>2
  <1>7. CASE ClearPlan(r)
    <2>1. PICK q \in {[Idle EXCEPT !.pc = "mail"], Idle} : Becomes(r, q)
      BY <1>7 DEF ClearPlan, EndPlan
    <2>2. q \in Request /\ Ready(q)
      BY <1>1, <2>1, IdleTyped DEF Request, Steps, Ready
    <2>3. plan' \in [Both -> Instalment]
      BY <1>7, IdleTyped DEF ClearPlan
    <2>4. UNCHANGED <<row, outside, aborts>>
      BY <1>7 DEF ClearPlan
    <2> QED  BY <1>1, <2>1, <2>2, <2>3, <2>4, WritesTyped DEF outside
  <1>8. CASE UpsertInstalment(r)
    <2>1. PICK q \in {[req[r] EXCEPT !.k = 2], [Idle EXCEPT !.pc = "mail"], Idle} : Becomes(r, q)
      BY <1>8 DEF UpsertInstalment, EndPlan
    <2>2. /\ req[r].pc = "upsert" /\ req[r].k \in Both
          /\ req[r].choice \in [Both -> Methods]
          /\ req[r].amount \in Nat
      BY <1>1, <1>8, InstallmentAssumption DEF UpsertInstalment, At, Ready, Request, Choice
    <2>3. q \in Request /\ Ready(q)
      BY <1>1, <2>1, IdleTyped DEF Request, Steps, Ready, Both
    <2>4. plan' \in [Both -> Instalment]
      <3>1. CASE Upserted(r)
        <4> DEFINE amount == Parts(req[r].amount)[req[r].k]
        <4>1. amount \in Nat
          BY <2>2, PartsAreNaturals DEF Both
        <4>2. req[r].choice[req[r].k] \in Methods
          BY <2>2
        <4> HIDE DEF amount
        <4>3. CASE Exists(req[r].plan[req[r].k])
          <5>1. \/ UNCHANGED plan
                \/ plan' = [plan EXCEPT ![req[r].k].amount = amount,
                                        ![req[r].k].method = req[r].choice[req[r].k]]
            BY <3>1, <4>3 DEF Upserted, amount
          <5> QED  BY <1>1, <2>2, <4>1, <4>2, <5>1 DEF Instalment
        <4>4. CASE ~Exists(req[r].plan[req[r].k])
          <5>1. PICK id \in NewIds :
                  plan' = [plan EXCEPT ![req[r].k] =
                               [id |-> id, amount |-> amount,
                                method |-> req[r].choice[req[r].k], status |-> "PENDING"]]
            BY <3>1, <4>4 DEF Upserted, Created, amount
          <5>2. id \in 0..MaxRows
            BY <5>1, InstallmentAssumption DEF NewIds
          <5> QED  BY <1>1, <2>2, <4>1, <4>2, <5>1, <5>2 DEF Instalment
        <4> QED  BY <4>3, <4>4
      <3> QED  BY <1>1, <1>8, <3>1 DEF UpsertInstalment
    <2>5. UNCHANGED <<row, outside, aborts>>
      BY <1>8 DEF UpsertInstalment
    <2> QED  BY <1>1, <2>1, <2>3, <2>4, <2>5, WritesTyped DEF outside
  <1> QED  BY <1>3, <1>4, <1>5, <1>6, <1>7, <1>8 DEF PlanStep

\* A mail keeps the types.
LEMMA MailStepTyped ==
  ASSUME TInv, NEW r \in Requests, MailStep(r)
  PROVE  TInv'
  <1>1. /\ req[r] \in Request /\ Ready(req[r]) /\ row \in Row
        /\ plan \in [Both -> Instalment] /\ price \in Prices
        /\ stripe \in [Sessions -> StripeSession] /\ event \in [Sessions -> Event]
        /\ aborts \in 0..MaxAborts /\ (UNCHANGED <<forms, history>> => NotesOK')
    BY NotesKept DEF TInv, TypeOK
  <1>2. DueTotal \in Prices \cup {0} /\ DueTotal \in Nat
    BY DueTyped DEF TInv
  <1>3. CASE FindNothingDue(r)
    <2> DEFINE q == [req[r] EXCEPT !.pc = "grant", !.amount = DueTotal, !.paid = row.captured]
    <2>1. q \in Request /\ Ready(q)
      <3>1. row.captured \in BOOLEAN
        BY <1>1 DEF Row
      <3>2. q \in Request
        BY <1>1, <1>2, <3>1 DEF Request, Steps
      <3> QED  BY <1>1, <3>2 DEF Ready, Request
    <2> HIDE DEF q
    <2>2. Becomes(r, q) /\ UNCHANGED <<row, plan, outside, aborts>>
      BY <1>3 DEF FindNothingDue, q
    <2> QED  BY <2>1, <2>2, ReadsTyped
  <1>4. CASE GrantFree(r)
    <2>1. row' \in Row
      BY <1>1, <1>4 DEF GrantFree, Row, Request
    <2>2. NotesOK'
      BY <1>4 DEF GrantFree, TInv, TypeOK, NotesOK
    <2> QED  BY <1>1, <1>4, <2>1, <2>2, AnswersTyped DEF GrantFree
  <1>5. CASE FindNothingOnline(r)
    <2> DEFINE q == [req[r] EXCEPT !.pc = "store", !.amount = DueTotal]
    <2>1. q \in Request /\ Ready(q)
      <3>1. q \in Request
        BY <1>1, <1>2 DEF Request, Steps
      <3> QED  BY <1>1, <3>1 DEF Ready, Request
    <2> HIDE DEF q
    <2>2. Becomes(r, q) /\ UNCHANGED <<row, plan, outside, aborts>>
      BY <1>5 DEF FindNothingOnline, q
    <2> QED  BY <2>1, <2>2, ReadsTyped
  <1>6. CASE StoreNoLink(r)
    <2>1. row' \in Row
      BY <1>1, <1>6 DEF StoreNoLink, Row, Request
    <2> QED  BY <1>1, <1>6, <2>1, AnswersTyped DEF StoreNoLink
  <1>7. CASE CreateSession(r)
    <2> DEFINE charge == OnlineCharge(plan, DueTotal)
    <2>1. charge.amount \in Nat /\ charge.for \in 0..2
      BY <1>2, ChargeTyped DEF TInv
    <2> HIDE DEF charge
    <2>2. PICK s \in Sessions :
            /\ stripe' = [stripe EXCEPT ![s] = [state |-> "created", amount |-> charge.amount,
                                                for |-> charge.for]]
            /\ Becomes(r, [req[r] EXCEPT !.pc = "store", !.amount = DueTotal, !.link = s])
      BY <1>7 DEF CreateSession, charge
    <2>3. stripe' \in [Sessions -> StripeSession]
      BY <1>1, <2>1, <2>2 DEF StripeSession
    <2> DEFINE q == [req[r] EXCEPT !.pc = "store", !.amount = DueTotal, !.link = s]
    <2>4. q \in Request /\ Ready(q)
      <3>1. q \in Request
        BY <1>1, <1>2 DEF Request, Steps
      <3> QED  BY <1>1, <3>1 DEF Ready, Request
    <2>5. UNCHANGED <<row, plan, price, event, forms, aborts, history>>
      BY <1>7 DEF CreateSession
    <2> HIDE DEF q
    <2>6. Becomes(r, q)
      BY <2>2 DEF q
    <2> QED  BY <1>1, <2>3, <2>4, <2>5, <2>6, WritesTyped
  <1>8. CASE StoreLink(r)
    <2>1. row' \in Row
      BY <1>1, <1>8 DEF StoreLink, Row, Request
    <2>2. stripe' \in [Sessions -> StripeSession]
      BY <1>1, <1>8 DEF StoreLink, StripeSession
    <2> QED  BY <1>1, <1>8, <2>1, <2>2, AnswersTyped DEF StoreLink
  <1>9. CASE SkipMail(r)
    BY <1>1, <1>9, AnswersTyped DEF SkipMail
  <1> QED  BY <1>3, <1>4, <1>5, <1>6, <1>7, <1>8, <1>9 DEF MailStep

\* A confirmation keeps the types.
LEMMA ConfirmStepTyped ==
  ASSUME TInv, NEW r \in Requests, ConfirmStep(r)
  PROVE  TInv'
  <1>1. /\ req[r] \in Request /\ Ready(req[r]) /\ row \in Row
        /\ plan \in [Both -> Instalment] /\ price \in Prices
        /\ stripe \in [Sessions -> StripeSession] /\ event \in [Sessions -> Event]
        /\ aborts \in 0..MaxAborts /\ (UNCHANGED <<forms, history>> => NotesOK')
    BY NotesKept DEF TInv, TypeOK
  <1>2. DueTotal \in Prices \cup {0}
    BY DueTyped DEF TInv
  <1>3. CASE CheckInstalment(r)
    <2> DEFINE k == stripe[req[r].session].for
               q == [req[r] EXCEPT !.pc = "mark", !.task = "confirm", !.plan = plan,
                                   !.k = k, !.paid = TRUE]
    <2>1. UNCHANGED <<row, plan, price, stripe, forms, aborts, history>>
      BY <1>3 DEF CheckInstalment
    <2>2. CASE Answer(r)
      BY <1>1, <2>1, <2>2, AnswersTyped
    <2>3. CASE Pays(req[r].session, k) /\ Becomes(r, q) /\ UNCHANGED event
      <3>1. k \in Both
        <4>1. req[r].session \in Sessions /\ k # 0
          BY <1>3, <2>3 DEF CheckInstalment, Pays, Paid
        <4>2. stripe[req[r].session] \in StripeSession
          BY <1>1, <4>1
        <4>3. k \in 0..2
          BY <4>2 DEF StripeSession
        <4> QED  BY <4>1, <4>3 DEF Both
      <3>2. q \in Request /\ Ready(q)
        <4> HIDE DEF k
        <4> DEFINE x == [req[r] EXCEPT !.pc = "mark", !.task = "confirm"]
        <4> HIDE DEF k
        <4>1. x \in Request
          <5>1. \A y \in Request : [y EXCEPT !.pc = "mark", !.task = "confirm"] \in Request
            BY ZenonT(30) DEF Request, Steps, Tasks
          <5> QED  BY <1>1, <5>1
        <4>2. \A y \in Request, n \in 0..2, p \in [Both -> Instalment] :
                [y EXCEPT !.plan = p, !.k = n, !.paid = TRUE] \in Request
          BY DEF Request
        <4>3. k \in 0..2
          BY <3>1 DEF Both
        <4>4. q = [x EXCEPT !.plan = plan, !.k = k, !.paid = TRUE]
          BY <1>1 DEF Request
        <4> HIDE DEF x, q
        <4>5. q \in Request
          BY <1>1, <4>1, <4>2, <4>3, <4>4
        <4>6. q.k = k /\ q.pc = "mark"
          BY <1>1 DEF q, Request
        <4> QED  BY <1>1, <3>1, <4>5, <4>6 DEF Ready, Request
      <3> HIDE DEF q
      <3> QED  BY <2>1, <2>3, <3>2, ReadsTyped DEF outside
    <2> QED  BY <1>3, <2>2, <2>3 DEF CheckInstalment
  <1>4. CASE MarkInstalment(r)
    <2>1. req[r].k \in Both /\ req[r].paid \in BOOLEAN
      BY <1>1, <1>4 DEF MarkInstalment, At, Ready, Request
    <2>2. plan' \in [Both -> Instalment]
      BY <1>1, <1>4, <2>1 DEF MarkInstalment, Instalment
    <2>3. UNCHANGED <<row, price, stripe, aborts>> /\ NotesOK'
      BY <1>4, <2>1 DEF MarkInstalment, TInv, TypeOK, NotesOK
    <2>4. CASE Answer(r)
      BY <1>1, <2>2, <2>3, <2>4, AnswersTyped
    <2>5. CASE ~Answer(r)
      <3>1. PICK q \in {Idle, [req[r] EXCEPT !.pc = "read", !.plan = NoPlan]} :
              Becomes(r, q) /\ UNCHANGED event
        BY <1>4, <2>5 DEF MarkInstalment
      <3>2. [req[r] EXCEPT !.pc = "read", !.plan = NoPlan] \in Request
        BY <1>1, IdleTyped DEF Request, Steps
      <3>3. Ready([req[r] EXCEPT !.pc = "read", !.plan = NoPlan])
        BY <1>1 DEF Ready, Request
      <3>4. q \in Request /\ Ready(q)
        BY <3>1, <3>2, <3>3, IdleTyped
      <3> QED  BY <1>1, <2>2, <2>3, <3>1, <3>4, WritesTyped
    <2> QED  BY <2>4, <2>5
  <1>5. CASE ReadDeposit(r)
    <2> DEFINE seen == [row EXCEPT !.total = NoTotal, !.session = NoSession]
               q == [req[r] EXCEPT !.pc = "capture", !.plan = plan, !.seen = seen]
    <2>1. seen \in Row
      BY <1>1 DEF Row
    <2>2. q \in Request /\ Ready(q)
      <3> HIDE DEF seen
      <3>1. q \in Request
        BY <1>1, <2>1 DEF Request, Steps
      <3> QED  BY <1>1, <3>1 DEF Ready, Request
    <2>3. Becomes(r, q) /\ UNCHANGED <<row, plan, outside, aborts>>
      BY <1>5 DEF ReadDeposit
    <2> HIDE DEF q
    <2> QED  BY <2>2, <2>3, ReadsTyped
  <1>6. CASE CaptureDeposit(r)
    <2>1. row' \in Row
      BY <1>1, <1>6 DEF CaptureDeposit, ConfirmedRow, Row
    <2>2. UNCHANGED <<plan, price, stripe, forms, aborts, history>>
      BY <1>6 DEF CaptureDeposit
    <2>3. CASE Answer(r)
      BY <1>1, <2>1, <2>2, <2>3, AnswersTyped
    <2>4. CASE ~Answer(r)
      <3> DEFINE q == [Idle EXCEPT !.pc = "mail", !.session = req[r].session,
                                   !.webhook = req[r].webhook]
      <3>1. q \in Request /\ Ready(q)
        <4>1. \A s \in Sessions \cup {NoSession}, w \in BOOLEAN :
                [Idle EXCEPT !.pc = "mail", !.session = s, !.webhook = w] \in Request
          BY IdleTyped DEF Request, Steps
        <4>2. req[r].session \in Sessions \cup {NoSession} /\ req[r].webhook \in BOOLEAN
          BY <1>1 DEF Request
        <4>3. q \in Request
          BY <4>1, <4>2
        <4>4. q.pc = "mail"
          BY DEF Idle
        <4> QED  BY <4>3, <4>4 DEF Ready
      <3>2. Becomes(r, q) /\ UNCHANGED event
        BY <1>6, <2>4 DEF CaptureDeposit
      <3> HIDE DEF q
      <3> QED  BY <1>1, <2>1, <2>2, <3>1, <3>2, WritesTyped
    <2> QED  BY <2>3, <2>4
  <1>7. CASE CheckWhole(r)
    <2>1. UNCHANGED <<row, plan, price, stripe, forms, aborts, history>>
      BY <1>7 DEF CheckWhole
    <2>2. CASE Answer(r)
      BY <1>1, <2>1, <2>2, AnswersTyped
    <2>3. CASE ~Answer(r)
      <3> DEFINE q == [req[r] EXCEPT !.pc = "whole", !.amount = DueTotal]
      <3>1. q \in Request /\ Ready(q)
        <4>1. q \in Request
          BY <1>1, <1>2 DEF Request, Steps
        <4> QED  BY <1>1, <4>1 DEF Ready, Request
      <3>2. Becomes(r, q) /\ UNCHANGED event
        BY <1>7, <2>3 DEF CheckWhole
      <3> HIDE DEF q
      <3> QED  BY <2>1, <3>1, <3>2, ReadsTyped DEF outside
    <2> QED  BY <2>2, <2>3
  <1>8. CASE ReadWhole(r)
    <2> DEFINE seen == [row EXCEPT !.session = NoSession]
               q == [req[r] EXCEPT !.pc = "apply", !.seen = seen]
    <2>1. seen \in Row
      BY <1>1 DEF Row
    <2>2. q \in Request /\ Ready(q)
      <3> HIDE DEF seen
      <3>1. q \in Request
        BY <1>1, <2>1 DEF Request, Steps
      <3> QED  BY <1>1, <3>1 DEF Ready, Request
    <2>3. Becomes(r, q) /\ UNCHANGED <<row, plan, outside, aborts>>
      BY <1>8 DEF ReadWhole
    <2> HIDE DEF q
    <2> QED  BY <2>2, <2>3, ReadsTyped
  <1>9. CASE ApplyWhole(r)
    <2>1. row' \in Row
      BY <1>1, <1>9 DEF ApplyWhole, Row, Request
    <2> QED  BY <1>1, <1>9, <2>1, AnswersTyped DEF ApplyWhole
  <1> QED  BY <1>3, <1>4, <1>5, <1>6, <1>7, <1>8, <1>9 DEF ConfirmStep

\* Beginning a request keeps the types.
LEMMA StartTyped ==
  ASSUME TInv, NEW r \in Requests, Start(r)
  PROVE  TInv'
  <1>1. /\ row \in Row /\ plan \in [Both -> Instalment] /\ price \in Prices
        /\ Idle \in Request /\ Idle.pc = "idle" /\ Unread \in Row
    BY IdleTyped DEF TInv, TypeOK, Idle
  <1>2. row.captured \in BOOLEAN /\ row.total \in Prices \cup {0, NoTotal}
        /\ row.session \in Sessions \cup {NoSession}
    BY <1>1 DEF Row
  <1>3. ASSUME NEW q \in Request, q.pc \notin {"upsert", "mark"}, Begins(r, q),
               UNCHANGED <<row, plan, outside, aborts>>
        PROVE  TInv'
    BY <1>3, ReadsTyped DEF Begins, Ready
  <1>4. ASSUME NEW form \in forms, SubmitForm(r, form)
        PROVE  TInv'
    <2>1. form \in Row /\ forms \subseteq Row
      BY DEF TInv, TypeOK
    <2>2. PICK choice \in Choice :
            Begins(r, [Idle EXCEPT !.pc = "save", !.task = "update", !.choice = choice,
                                   !.seen = form, !.paid = row.captured])
      BY <1>4 DEF SubmitForm
    <2> DEFINE q == [Idle EXCEPT !.pc = "save", !.task = "update", !.choice = choice,
                                 !.seen = form, !.paid = row.captured]
    <2>3. \A c \in Choice, f \in Row, b \in BOOLEAN :
            [Idle EXCEPT !.pc = "save", !.task = "update", !.choice = c, !.seen = f,
                         !.paid = b] \in Request
      BY ZenonT(30), <1>1 DEF Request, Steps, Tasks
    <2>4. q \in Request
      BY <1>2, <2>1, <2>3
    <2>5. q.pc = "save"
      BY DEF Idle
    <2> HIDE DEF q
    <2>6. Becomes(r, q) /\ Ready(q)
      BY <2>2, <2>5 DEF q, Begins, Ready
    <2>7. /\ UNCHANGED <<row, plan, price, stripe, event, aborts, history>>
          /\ forms' = forms \ {form}
      BY <1>4 DEF SubmitForm
    <2>8. NotesOK'
      BY <2>1, <2>7 DEF NotesOK, TInv, TypeOK, history
    <2>9. /\ stripe' \in [Sessions -> StripeSession] /\ event' \in [Sessions -> Event]
          /\ aborts' \in 0..MaxAborts
      BY <2>7 DEF TInv, TypeOK
    <2> QED  BY <1>1, <2>4, <2>6, <2>7, <2>8, <2>9, WritesTyped
  <1>5. CASE StartSend(r)
    <2> DEFINE seen == [Unread EXCEPT !.total = row.total]
               mail == [Idle EXCEPT !.pc = "mail"]
               reprice == [Idle EXCEPT !.pc = "reprice", !.task = "send", !.amount = price,
                                       !.seen = seen]
    <2>1. seen \in Row
      BY <1>1, <1>2 DEF Row
    <2>2. Begins(r, mail) \/ Begins(r, reprice)
      BY <1>5 DEF StartSend
    <2>3. UNCHANGED <<row, plan, outside, aborts>>
      BY <1>5 DEF StartSend
    <2> HIDE DEF seen
    <2>4. mail \in Request /\ mail.pc = "mail"
      BY <1>1 DEF Request, Steps
    <2>5. reprice \in Request /\ reprice.pc = "reprice"
      BY <1>1, <2>1 DEF Request, Steps, Tasks
    <2> HIDE DEF mail, reprice
    <2> QED  BY <1>3, <2>2, <2>3, <2>4, <2>5
  <1>6. CASE Poll(r)
    <2> DEFINE q == [Idle EXCEPT !.pc = "check", !.session = row.session]
    <2>1. q \in Request /\ q.pc = "check"
      BY <1>1, <1>2 DEF Request, Steps
    <2>2. Begins(r, q) /\ UNCHANGED <<row, plan, outside, aborts>>
      BY <1>6 DEF Poll
    <2> HIDE DEF q
    <2> QED  BY <1>3, <2>1, <2>2
  <1>7. ASSUME NEW s \in Sessions, ReceiveWebhook(r, s)
        PROVE  TInv'
    <2> DEFINE q == [Idle EXCEPT !.pc = "check", !.session = s, !.webhook = TRUE]
    <2>1. q \in Request /\ q.pc = "check"
      BY <1>1 DEF Request, Steps
    <2>2. Begins(r, q) /\ UNCHANGED <<row, plan, outside, aborts>>
      BY <1>7 DEF ReceiveWebhook
    <2> HIDE DEF q
    <2> QED  BY <1>3, <2>1, <2>2
  <1>8. ASSUME NEW s \in Sessions, OpenSuccessPage(r, s)
        PROVE  TInv'
    <2> DEFINE q == [Idle EXCEPT !.pc = "check", !.session = s]
    <2>1. q \in Request /\ q.pc = "check"
      BY <1>1 DEF Request, Steps
    <2>2. Begins(r, q) /\ UNCHANGED <<row, plan, outside, aborts>>
      BY <1>8 DEF OpenSuccessPage
    <2> HIDE DEF q
    <2> QED  BY <1>3, <2>1, <2>2
  <1>9. ASSUME NEW k \in Both, NEW paid \in BOOLEAN, StartDeclare(r, k, paid)
         PROVE  TInv'
    <2> DEFINE q == [Idle EXCEPT !.pc = "mark", !.task = "declare", !.plan = plan, !.k = k,
                                 !.paid = paid]
    <2>1. \A n \in 0..2, p \in [Both -> Instalment], b \in BOOLEAN :
            [Idle EXCEPT !.pc = "mark", !.task = "declare", !.plan = p, !.k = n,
                         !.paid = b] \in Request
      BY ZenonT(30), <1>1 DEF Request, Steps, Tasks
    <2>2. k \in 0..2
      BY DEF Both
    <2>3. q \in Request
      BY <1>1, <2>1, <2>2
    <2>4. q.k = k /\ q.pc = "mark"
      BY DEF Idle
    <2>5. Becomes(r, q) /\ UNCHANGED <<row, plan, outside, aborts>>
      BY <1>9 DEF StartDeclare, Begins
    <2> HIDE DEF q
    <2> QED  BY <2>3, <2>4, <2>5, ReadsTyped DEF Ready
  <1> QED  BY <1>4, <1>5, <1>6, <1>7, <1>8, <1>9 DEF Start

\* Every step keeps the types.
LEMMA NextTyped == TInv /\ [Next]_vars => TInv'
  <1> SUFFICES ASSUME TInv, [Next]_vars  PROVE TInv'
    OBVIOUS
  <1>1. ASSUME NEW r \in Requests, Abort(r)
        PROVE  TInv'
    <2>1. /\ row' \in Row /\ plan' \in [Both -> Instalment]
          /\ stripe' \in [Sessions -> StripeSession] /\ event' \in [Sessions -> Event]
          /\ price' = price /\ Becomes(r, Idle) /\ NotesOK'
      BY <1>1, NotesKept DEF Abort, TInv, TypeOK, outside
    <2>2. aborts' \in 0..MaxAborts
      BY <1>1, InstallmentAssumption DEF Abort, TInv, TypeOK
    <2> QED  BY <2>1, <2>2, IdleTyped, WritesTyped
  <1>2. ASSUME NEW s \in Sessions, ClientPays(s)
        PROVE  TInv'
    <2>1. stripe' \in [Sessions -> StripeSession] /\ event' \in [Sessions -> Event]
      BY <1>2 DEF ClientPays, TInv, TypeOK, StripeSession, Event
    <2> QED  BY <1>2, <2>1 DEF ClientPays, TInv, TypeOK, Ready, history
  <1>3. CASE ChangePrice
    BY <1>3 DEF ChangePrice, TInv, TypeOK, Ready, history
  <1>4. CASE UNCHANGED vars
    BY <1>4 DEF vars, TInv, TypeOK, Ready
  <1>6. CASE OpenForm
    <2>1. FormOf(row) \in Row
      BY DEF TInv, TypeOK, FormOf, Row
    <2> QED  BY <1>6, <2>1 DEF OpenForm, TInv, TypeOK, Ready, history
  <1>5. ASSUME NEW r \in Requests, Start(r) \/ Continue(r)
        PROVE  TInv'
    BY <1>5, StartTyped, PlanStepTyped, MailStepTyped, ConfirmStepTyped DEF Continue
  <1> QED  BY <1>1, <1>2, <1>3, <1>4, <1>5, <1>6 DEF Next

\* Every state is well typed: the forms, the totals read before they are used
\* and the parts of a total included, whatever the requests in flight.
THEOREM TypeCorrect == Spec => []TypeOK
  <1>1. TInv => TypeOK
    BY DEF TInv
  <1> QED  BY <1>1, InitTyped, NextTyped, PTL DEF Spec

-----------------------------------------------------------------------------
(* Why a reservation is confirmed, however requests overlap and die.       *)

\* Once there is a reason there is one for good.
Reason == (\E s \in Sessions : Paid(s)) \/ declared # {} \/ granted

\* A request that will write a capture, or mark the payment of a session.
Owes(q) ==
    \/ q.pc = "save" /\ q.seen.captured
    \/ q.pc = "mark" /\ q.task # "declare"
    \/ q.pc \in {"read", "capture", "whole", "apply"}

\* What a request knows: that there is a reason, that the total it grants needs
\* no payment, and that nobody has opened the session it has created.
Sound(q) ==
    /\ Owes(q) => Reason
    /\ q.pc = "grant" => q.amount < MinCharge
    /\ q.link # NoSession => q.pc = "store" /\ stripe[q.link].state = "created"

\* Every capture in the row or in a form has a reason, and no two requests have
\* created the same session.
RInv ==
    /\ row.captured => Reason
    /\ \A form \in forms : form.captured => Reason
    /\ \A r \in Requests : Sound(req[r])
    /\ \A r, t \in Requests : r # t /\ req[r].link # NoSession => req[t].link # req[r].link

\* A reservation just created is not confirmed.
LEMMA InitReasons == Init => RInv
  <1> SUFFICES ASSUME Init  PROVE RInv
    OBVIOUS
  <1>1. ~row.captured /\ forms = {}
    BY DEF Init, Unread
  <1>2. \A r \in Requests : req[r].pc \in {"plan", "idle"} /\ req[r].link = NoSession
    BY DEF Init, Idle
  <1> QED  BY <1>1, <1>2 DEF RInv, Sound, Owes

\* A step of a request keeps the reasons: what it writes has one, what it knows
\* next holds, and the sessions the others have created stay as they are.
LEMMA StepReasons ==
  ASSUME TInv, RInv, NEW r \in Requests, NEW q, Becomes(r, q), Reason => Reason',
         row'.captured => row.captured \/ Reason', forms' \subseteq forms, Sound(q)',
         \A t \in Requests : t # r /\ req[t].link # NoSession =>
            stripe'[req[t].link] = stripe[req[t].link] /\ q.link # req[t].link
  PROVE  RInv'
  <1>1. req'[r] = q /\ \A t \in Requests : t # r => req'[t] = req[t]
    BY DEF TInv, TypeOK, Becomes
  <1>2. row'.captured => Reason'
    BY DEF RInv
  <1>3. \A form \in forms' : form.captured => Reason'
    BY DEF RInv
  <1>4. \A t \in Requests : Sound(req[t])'
    <2> SUFFICES ASSUME NEW t \in Requests  PROVE Sound(req[t])'
      OBVIOUS
    <2>1. CASE t = r
      BY <1>1, <2>1 DEF Sound, Owes
    <2>2. CASE t # r
      <3>1. req'[t] = req[t] /\ Sound(req[t])
        BY <1>1, <2>2 DEF RInv
      <3>2. req[t].link # NoSession => stripe'[req[t].link] = stripe[req[t].link]
        BY <2>2
      <3> QED  BY <3>1, <3>2 DEF Sound, Owes
    <2> QED  BY <2>1, <2>2
  <1>5. \A u, t \in Requests : u # t /\ req'[u].link # NoSession => req'[t].link # req'[u].link
    BY <1>1 DEF RInv
  <1> QED  BY <1>2, <1>3, <1>4, <1>5 DEF RInv

\* A step that writes neither the sessions nor the history, and opens no form.
LEMMA PlainReasons ==
  ASSUME TInv, RInv, NEW r \in Requests, NEW q, Becomes(r, q), UNCHANGED <<stripe, history>>,
         row'.captured => row.captured \/ Reason, forms' \subseteq forms,
         Owes(q) => Reason, q.pc = "grant" => q.amount < MinCharge, q.link = NoSession
  PROVE  RInv'
  <1>1. Reason <=> Reason'
    BY DEF Reason, Paid, history
  <1>2. Sound(q)'
    BY <1>1 DEF Sound, Owes
  <1>3. \A t \in Requests : t # r /\ req[t].link # NoSession =>
            stripe'[req[t].link] = stripe[req[t].link] /\ q.link # req[t].link
    OBVIOUS
  <1> QED  BY <1>1, <1>2, <1>3, StepReasons

\* Writing the plan keeps the reasons: a form that sends a capture was opened
\* when there was one.
LEMMA PlanReasons ==
  ASSUME TInv, RInv, NEW r \in Requests, PlanStep(r)
  PROVE  RInv'
  <1>1. /\ req[r] \in Request /\ row \in Row /\ Sound(req[r])
        /\ req[r].link = NoSession
    BY DEF TInv, TypeOK, RInv, Sound, PlanStep, SaveForm, ReadTotal, Reprice, ReadPlan,
           ClearPlan, UpsertInstalment, At
  <1>2. CASE SaveForm(r)
    <2>a. PICK q : q = [req[r] EXCEPT !.pc = "total", !.seen = Unread, !.paid = FALSE]
      OBVIOUS
    <2>1. q.pc = "total" /\ q.link = NoSession
      BY <1>1, <2>a DEF Request
    <2>2. Becomes(r, q) /\ UNCHANGED <<stripe, declared, granted, forms>>
      BY <1>2, <2>a DEF SaveForm
    <2>3. Reason => Reason'
      BY <2>2 DEF Reason, Paid
    <2>4. row'.captured => Reason'
      <3>1. row'.captured = req[r].seen.captured
        BY <1>1, <1>2 DEF SaveForm, Row
      <3>2. req[r].seen.captured => Reason
        BY <1>1, <1>2 DEF SaveForm, At, Sound, Owes
      <3> QED  BY <2>3, <3>1, <3>2
    <2>5. Sound(q)'
      BY <2>1 DEF Sound, Owes
    <2>6. \A t \in Requests : t # r /\ req[t].link # NoSession =>
            stripe'[req[t].link] = stripe[req[t].link] /\ q.link # req[t].link
      BY <2>1, <2>2
    <2> QED  BY <2>2, <2>3, <2>4, <2>5, <2>6, StepReasons
  <1>3. ASSUME NEW q, Becomes(r, q), q.pc \in {"total", "plan", "reprice", "clear", "upsert", "mail", "idle"},
               q.link = NoSession, UNCHANGED <<stripe, history, forms>>,
               row'.captured => row.captured
        PROVE  RInv'
    BY <1>3, PlainReasons DEF Owes
  <1>4. CASE ReadTotal(r)
    <2>1. PICK q \in {[req[r] EXCEPT !.pc = "plan"],
                      [req[r] EXCEPT !.pc = "reprice", !.amount = price,
                                     !.seen = [Unread EXCEPT !.total = row.total]]} :
            Becomes(r, q)
      BY <1>4 DEF ReadTotal
    <2>2. q.pc \in {"plan", "reprice"} /\ q.link = NoSession
      BY <1>1, <2>1 DEF Request
    <2> QED  BY <1>3, <1>4, <2>1, <2>2 DEF ReadTotal, outside
  <1>5. CASE Reprice(r)
    <2>1. PICK q \in {[Idle EXCEPT !.pc = "mail"],
                      [Idle EXCEPT !.pc = "plan", !.task = req[r].task, !.choice = req[r].choice]} :
            Becomes(r, q)
      BY <1>5 DEF Reprice
    <2>2. q.pc \in {"mail", "plan"} /\ q.link = NoSession
      BY <2>1 DEF Idle
    <2>3. row'.captured = row.captured
      BY <1>1, <1>5 DEF Reprice, Row
    <2> QED  BY <1>3, <1>5, <2>1, <2>2, <2>3 DEF Reprice, outside
  <1>6. CASE ReadPlan(r)
    <2>a. PICK total : total = IF row.total = NoTotal THEN 0 ELSE row.total
      OBVIOUS
    <2>1. PICK q \in {[req[r] EXCEPT !.pc = "upsert", !.k = 1, !.plan = plan, !.amount = total],
                      [req[r] EXCEPT !.pc = "clear"], [Idle EXCEPT !.pc = "mail"], Idle} :
            Becomes(r, q)
      BY <1>6, <2>a DEF ReadPlan, EndPlan
    <2>2. q.pc \in {"upsert", "clear", "mail", "idle"} /\ q.link = NoSession
      <3>1. \A p \in [Both -> Instalment] :
              LET x == [req[r] EXCEPT !.pc = "upsert", !.k = 1, !.plan = p, !.amount = total]
              IN  x.pc = "upsert" /\ x.link = NoSession
        BY <1>1 DEF Request
      <3>2. [req[r] EXCEPT !.pc = "clear"].pc = "clear" /\ [req[r] EXCEPT !.pc = "clear"].link = NoSession
        BY <1>1 DEF Request
      <3>3. [Idle EXCEPT !.pc = "mail"].pc = "mail" /\ [Idle EXCEPT !.pc = "mail"].link = NoSession
            /\ Idle.pc = "idle" /\ Idle.link = NoSession
        BY DEF Idle
      <3>4. plan \in [Both -> Instalment]
        BY DEF TInv, TypeOK
      <3> QED  BY ZenonT(30), <2>1, <3>1, <3>2, <3>3, <3>4
    <2> QED  BY <1>3, <1>6, <2>1, <2>2 DEF ReadPlan, outside
  <1>7. CASE ClearPlan(r) \/ UpsertInstalment(r)
    <2>1. PICK q \in {[req[r] EXCEPT !.k = 2], [Idle EXCEPT !.pc = "mail"], Idle} : Becomes(r, q)
      BY <1>7 DEF ClearPlan, UpsertInstalment, EndPlan
    <2>2. q.pc \in {"upsert", "clear", "mail", "idle"} /\ q.link = NoSession
      BY <1>1, <1>7, <2>1 DEF Request, Idle, ClearPlan, UpsertInstalment, At
    <2> QED  BY <1>3, <1>7, <2>1, <2>2 DEF ClearPlan, UpsertInstalment, outside
  <1> QED  BY <1>2, <1>4, <1>5, <1>6, <1>7 DEF PlanStep

\* The mail keeps the reasons: what is granted needs no payment, and the session
\* it opens is its own.
LEMMA MailReasons ==
  ASSUME TInv, RInv, NEW r \in Requests, MailStep(r)
  PROVE  RInv'
  <1>1. /\ req[r] \in Request /\ row \in Row /\ Sound(req[r])
        /\ stripe \in [Sessions -> StripeSession] /\ Idle.pc = "idle" /\ Idle.link = NoSession
    BY DEF TInv, TypeOK, RInv, Idle
  <1>2. At(r, "mail") => req[r].link = NoSession
    BY <1>1 DEF Sound, At
  <1>3. ASSUME Answer(r), UNCHANGED <<stripe, history, forms>>, row'.captured => row.captured
        PROVE  RInv'
    BY <1>1, <1>3, PlainReasons DEF Answer, Owes
  <1>4. CASE FindNothingDue(r)
    <2>1. PICK q : q = [req[r] EXCEPT !.pc = "grant", !.amount = DueTotal, !.paid = row.captured]
      OBVIOUS
    <2>2. q.pc = "grant" /\ q.link = NoSession /\ q.amount = DueTotal
      BY <1>1, <1>2, <1>4, <2>1 DEF Request, FindNothingDue
    <2>3. Becomes(r, q) /\ UNCHANGED <<row, stripe, history, forms>> /\ q.amount < MinCharge
      BY <1>4, <2>1, <2>2 DEF FindNothingDue, outside
    <2> QED  BY <2>2, <2>3, PlainReasons DEF Owes
  <1>5. CASE GrantFree(r)
    <2>1. /\ UNCHANGED <<stripe, forms, declared>> /\ Becomes(r, Idle)
          /\ granted' = (granted \/ (~req[r].paid /\ req[r].amount < MinCharge))
      BY <1>5 DEF GrantFree, Answer
    <2>2. Reason => Reason'
      BY <2>1 DEF Reason, Paid
    <2>3. row'.captured => row.captured \/ Reason'
      <3>1. CASE req[r].paid
        BY <1>5, <3>1 DEF GrantFree
      <3>2. CASE ~req[r].paid
        <4>1. req[r].amount < MinCharge
          BY <1>1, <1>5 DEF GrantFree, At, Sound
        <4> QED  BY <2>1, <3>2, <4>1 DEF Reason
      <3> QED  BY <3>1, <3>2
    <2>4. PICK q : q = Idle
      OBVIOUS
    <2>5. Sound(q)' /\ Becomes(r, q)
      BY <1>1, <2>1, <2>4 DEF Sound, Owes
    <2>6. \A t \in Requests : t # r /\ req[t].link # NoSession =>
            stripe'[req[t].link] = stripe[req[t].link] /\ q.link # req[t].link
      BY <1>1, <2>1, <2>4
    <2> QED  BY <2>1, <2>2, <2>3, <2>5, <2>6, StepReasons
  <1>6. CASE FindNothingOnline(r)
    <2>1. PICK q : q = [req[r] EXCEPT !.pc = "store", !.amount = DueTotal]
      OBVIOUS
    <2>2. q.pc = "store" /\ q.link = NoSession
      BY <1>1, <1>2, <1>6, <2>1 DEF Request, FindNothingOnline
    <2>3. Becomes(r, q) /\ UNCHANGED <<row, stripe, history, forms>>
      BY <1>6, <2>1 DEF FindNothingOnline, outside
    <2> QED  BY <2>2, <2>3, PlainReasons DEF Owes
  <1>7. CASE StoreNoLink(r)
    <2>1. row'.captured = row.captured
      BY <1>1, <1>7 DEF StoreNoLink, Row
    <2> QED  BY <1>3, <1>7, <2>1 DEF StoreNoLink
  <1>8. CASE CreateSession(r)
    <2> DEFINE charge == OnlineCharge(plan, DueTotal)
    <2>1. PICK s \in Sessions :
            /\ stripe[s].state = "unused"
            /\ stripe' = [stripe EXCEPT ![s] = [state |-> "created", amount |-> charge.amount,
                                                for |-> charge.for]]
            /\ Becomes(r, [req[r] EXCEPT !.pc = "store", !.amount = DueTotal, !.link = s])
      BY <1>8 DEF CreateSession
    <2> HIDE DEF charge
    <2>2. PICK q : q = [req[r] EXCEPT !.pc = "store", !.amount = DueTotal, !.link = s]
      OBVIOUS
    <2>3. q.pc = "store" /\ q.link = s
      BY <1>1, <2>2 DEF Request
    <2>4. UNCHANGED <<row, forms, history>> /\ Becomes(r, q)
      BY <1>8, <2>1, <2>2 DEF CreateSession
    <2>5. /\ stripe'[s].state = "created"
          /\ \A t \in Sessions : t # s => stripe'[t] = stripe[t]
      BY <1>1, <2>1
    <2>6. Reason => Reason'
      BY <2>1, <2>4, <2>5 DEF Reason, Paid, history
    <2>7. Sound(q)'
      BY <2>3, <2>5 DEF Sound, Owes
    <2>8. ASSUME NEW t \in Requests, t # r, req[t].link # NoSession
          PROVE  stripe'[req[t].link] = stripe[req[t].link] /\ q.link # req[t].link
      <3>1. stripe[req[t].link].state = "created" /\ req[t].link \in Sessions
        BY <2>8 DEF RInv, Sound, TInv, TypeOK, Request
      <3>2. req[t].link # s
        BY <2>1, <3>1
      <3> QED  BY <2>3, <2>5, <3>1, <3>2
    <2> QED  BY <2>4, <2>6, <2>7, <2>8, StepReasons
  <1>9. CASE StoreLink(r)
    <2>1. PICK s \in Sessions : req[r].link = s
      BY <1>1, <1>9 DEF StoreLink, Request
    <2>2. stripe[s].state = "created"
      BY <1>1, <1>9, <2>1 DEF StoreLink, Sound
    <2>3. /\ UNCHANGED <<forms, history>> /\ Becomes(r, Idle)
          /\ \A t \in Sessions : t # s => stripe'[t] = stripe[t]
      BY <1>1, <1>9, <2>1 DEF StoreLink, Answer
    <2>4. Reason => Reason'
      BY <2>2, <2>3 DEF Reason, Paid, history
    <2>5. row'.captured = row.captured
      BY <1>1, <1>9 DEF StoreLink, Row
    <2>6. PICK q : q = Idle
      OBVIOUS
    <2>7. Sound(q)' /\ Becomes(r, q)
      BY <1>1, <2>3, <2>6 DEF Sound, Owes
    <2>8. ASSUME NEW t \in Requests, t # r, req[t].link # NoSession
          PROVE  stripe'[req[t].link] = stripe[req[t].link] /\ q.link # req[t].link
      <3>1. req[t].link # s
        BY <1>9, <2>1, <2>8 DEF RInv, StoreLink
      <3>2. req[t].link \in Sessions
        BY <2>8 DEF TInv, TypeOK, Request
      <3> QED  BY <1>1, <2>3, <2>6, <2>8, <3>1, <3>2
    <2> QED  BY <2>3, <2>4, <2>5, <2>7, <2>8, StepReasons
  <1>10. CASE SkipMail(r)
    BY <1>3, <1>10 DEF SkipMail
  <1> QED  BY <1>4, <1>5, <1>6, <1>7, <1>8, <1>9, <1>10 DEF MailStep

\* A confirmation keeps the reasons: it marks and captures what a session paid
\* or an operator has declared.
LEMMA ConfirmReasons ==
  ASSUME TInv, RInv, NEW r \in Requests, ConfirmStep(r)
  PROVE  RInv'
  <1>1. /\ req[r] \in Request /\ row \in Row /\ Sound(req[r])
        /\ Idle.pc = "idle" /\ Idle.link = NoSession
        /\ req[r].link = NoSession
    BY DEF TInv, TypeOK, RInv, Idle, Sound, ConfirmStep, CheckInstalment, MarkInstalment,
           ReadDeposit, CaptureDeposit, CheckWhole, ReadWhole, ApplyWhole, At
  <1>2. ASSUME Answer(r), UNCHANGED <<stripe, history, forms>>, row'.captured => row.captured \/ Reason
        PROVE  RInv'
    BY <1>1, <1>2, PlainReasons DEF Answer, Owes
  <1>3. CASE CheckInstalment(r)
    <2>1. UNCHANGED <<row, stripe, history, forms>>
      BY <1>3 DEF CheckInstalment
    <2>2. PICK k : k = stripe[req[r].session].for
      OBVIOUS
    <2>3. CASE Pays(req[r].session, k) /\ ~Answer(r)
      <3>1. PICK q : q = [req[r] EXCEPT !.pc = "mark", !.task = "confirm", !.plan = plan,
                                        !.k = k, !.paid = TRUE]
        OBVIOUS
      <3>2. q.pc = "mark" /\ q.link = NoSession
        BY <1>1, <3>1 DEF Request
      <3>3. Becomes(r, q)
        BY <1>3, <2>2, <2>3, <3>1 DEF CheckInstalment
      <3>4. Reason
        BY <2>3 DEF Reason, Pays, Paid
      <3> QED  BY <2>1, <3>2, <3>3, <3>4, PlainReasons
    <2> QED  BY <1>2, <1>3, <2>1, <2>2, <2>3 DEF CheckInstalment
  <1>4. CASE MarkInstalment(r)
    <2>1. /\ UNCHANGED <<row, stripe, forms, granted>> /\ declared \subseteq declared'
          /\ req[r].pc = "mark"
      BY <1>4 DEF MarkInstalment, At
    <2>2. Reason => Reason'
      BY <2>1 DEF Reason, Paid
    <2>3. PICK q \in {Idle, [req[r] EXCEPT !.pc = "read", !.plan = NoPlan]} :
            /\ Becomes(r, q)
            /\ q # Idle => declared' = IF req[r].task = "declare" THEN declared \cup {req[r].k}
                                       ELSE declared
      BY <1>4 DEF MarkInstalment, Answer
    <2>4. q.pc \in {"idle", "read"} /\ q.link = NoSession /\ (q.pc = "read" => q # Idle)
      BY <1>1, <2>3 DEF Request
    <2>5. q.pc = "read" => Reason'
      <3>1. CASE req[r].task = "declare"
        BY <2>3, <2>4, <3>1 DEF Reason
      <3>2. CASE req[r].task # "declare"
        BY <1>1, <2>1, <2>2, <3>2 DEF Sound, Owes
      <3> QED  BY <3>1, <3>2
    <2>6. Sound(q)'
      BY <2>4, <2>5 DEF Sound, Owes
    <2>7. \A t \in Requests : t # r /\ req[t].link # NoSession =>
            stripe'[req[t].link] = stripe[req[t].link] /\ q.link # req[t].link
      BY <2>1, <2>4
    <2> QED  BY <2>1, <2>2, <2>3, <2>6, <2>7, StepReasons
  <1>5. CASE ReadDeposit(r)
    <2>1. PICK q : q = [req[r] EXCEPT !.pc = "capture", !.plan = plan,
                               !.seen = [row EXCEPT !.total = NoTotal, !.session = NoSession]]
      OBVIOUS
    <2>2. q.pc = "capture" /\ q.link = NoSession
      BY <1>1, <2>1 DEF Request
    <2>3. Becomes(r, q) /\ UNCHANGED <<row, stripe, history, forms>> /\ Reason
      BY <1>1, <1>5, <2>1 DEF ReadDeposit, outside, At, Sound, Owes
    <2> QED  BY <2>2, <2>3, PlainReasons
  <1>6. CASE CaptureDeposit(r)
    <2>1. UNCHANGED <<stripe, history, forms>> /\ Reason
      BY <1>1, <1>6 DEF CaptureDeposit, At, Sound, Owes
    <2>2. CASE Answer(r)
      BY <1>2, <2>1, <2>2
    <2>3. CASE ~Answer(r)
      <3>1. PICK q : q = [Idle EXCEPT !.pc = "mail", !.session = req[r].session,
                                      !.webhook = req[r].webhook]
        OBVIOUS
      <3>2. q.pc = "mail" /\ q.link = NoSession
        BY <3>1 DEF Idle
      <3>3. Becomes(r, q)
        BY <1>6, <2>3, <3>1 DEF CaptureDeposit
      <3> QED  BY <2>1, <3>2, <3>3, PlainReasons
    <2> QED  BY <2>2, <2>3
  <1>7. CASE CheckWhole(r)
    <2>1. UNCHANGED <<row, stripe, history, forms>>
      BY <1>7 DEF CheckWhole
    <2>2. CASE AcceptsWhole(req[r].session) /\ ~Answer(r)
      <3>1. PICK q : q = [req[r] EXCEPT !.pc = "whole", !.amount = DueTotal]
        OBVIOUS
      <3>2. q.pc = "whole" /\ q.link = NoSession
        BY <1>1, <3>1 DEF Request
      <3>3. Becomes(r, q) /\ Reason
        BY <1>7, <2>2, <3>1 DEF CheckWhole, Reason, AcceptsWhole, Paid
      <3> QED  BY <2>1, <3>2, <3>3, PlainReasons
    <2> QED  BY <1>2, <1>7, <2>1, <2>2 DEF CheckWhole
  <1>8. CASE ReadWhole(r)
    <2>1. PICK q : q = [req[r] EXCEPT !.pc = "apply", !.seen = [row EXCEPT !.session = NoSession]]
      OBVIOUS
    <2>2. q.pc = "apply" /\ q.link = NoSession
      BY <1>1, <2>1 DEF Request
    <2>3. Becomes(r, q) /\ UNCHANGED <<row, stripe, history, forms>> /\ Reason
      BY <1>1, <1>8, <2>1 DEF ReadWhole, outside, At, Sound, Owes
    <2> QED  BY <2>2, <2>3, PlainReasons
  <1>9. CASE ApplyWhole(r)
    <2>1. UNCHANGED <<stripe, history, forms>> /\ Reason /\ Answer(r)
      BY <1>1, <1>9 DEF ApplyWhole, At, Sound, Owes
    <2> QED  BY <1>2, <2>1
  <1> QED  BY <1>3, <1>4, <1>5, <1>6, <1>7, <1>8, <1>9 DEF ConfirmStep

\* Beginning a request keeps the reasons.
LEMMA StartReasons ==
  ASSUME TInv, RInv, NEW r \in Requests, Start(r)
  PROVE  RInv'
  <1>1. UNCHANGED <<row, stripe, history>> /\ Idle.link = NoSession /\ Idle.pc = "idle"
    BY DEF Start, SubmitForm, StartSend, Poll, ReceiveWebhook, OpenSuccessPage, StartDeclare,
           outside, Idle
  <1>2. ASSUME NEW q, Becomes(r, q), q.pc \in {"mail", "reprice", "check"}, q.link = NoSession,
               UNCHANGED forms
        PROVE  RInv'
    BY <1>1, <1>2, PlainReasons DEF Owes
  <1>3. ASSUME NEW form \in forms, SubmitForm(r, form)
        PROVE  RInv'
    <2>1. PICK choice \in Choice :
            Becomes(r, [Idle EXCEPT !.pc = "save", !.task = "update", !.choice = choice,
                                    !.seen = form, !.paid = row.captured])
      BY <1>3 DEF SubmitForm, Begins
    <2>2. PICK q : q = [Idle EXCEPT !.pc = "save", !.task = "update", !.choice = choice,
                                    !.seen = form, !.paid = row.captured]
      OBVIOUS
    <2>3. q.pc = "save" /\ q.link = NoSession /\ q.seen = form
      BY <2>2 DEF Idle
    <2>4. Owes(q) => Reason
      BY <1>3, <2>3 DEF Owes, RInv
    <2>5. forms' \subseteq forms
      BY <1>3 DEF SubmitForm
    <2> QED  BY <1>1, <2>1, <2>2, <2>3, <2>4, <2>5, PlainReasons
  <1>4. CASE StartSend(r)
    <2>1. PICK q \in {[Idle EXCEPT !.pc = "mail"],
                      [Idle EXCEPT !.pc = "reprice", !.task = "send", !.amount = price,
                                   !.seen = [Unread EXCEPT !.total = row.total]]} :
            Becomes(r, q)
      BY <1>4 DEF StartSend, Begins
    <2>2. q.pc \in {"mail", "reprice"} /\ q.link = NoSession
      BY <2>1 DEF Idle
    <2> QED  BY <1>2, <1>4, <2>1, <2>2 DEF StartSend, outside
  <1>5. ASSUME NEW s \in Sessions, NEW q, Becomes(r, q), UNCHANGED forms,
               q \in {[Idle EXCEPT !.pc = "check", !.session = s, !.webhook = TRUE],
                      [Idle EXCEPT !.pc = "check", !.session = s]}
        PROVE  RInv'
    <2>1. q.pc = "check" /\ q.link = NoSession
      BY <1>5 DEF Idle
    <2> QED  BY <1>2, <1>5, <2>1
  <1>7. CASE Poll(r)
    <2>1. row.session \in Sessions
      BY <1>7 DEF TInv, TypeOK, Row, Poll
    <2> QED  BY <1>5, <1>7, <2>1 DEF Poll, Begins, outside
  <1>8. ASSUME NEW s \in Sessions, ReceiveWebhook(r, s) \/ OpenSuccessPage(r, s)
        PROVE  RInv'
    BY <1>5, <1>8 DEF ReceiveWebhook, OpenSuccessPage, Begins, outside
  <1>9. ASSUME NEW k \in Both, NEW paid \in BOOLEAN, StartDeclare(r, k, paid)
        PROVE  RInv'
    <2>1. PICK q : q = [Idle EXCEPT !.pc = "mark", !.task = "declare", !.plan = plan, !.k = k,
                                    !.paid = paid]
      OBVIOUS
    <2>2. q.pc = "mark" /\ q.task = "declare" /\ q.link = NoSession
      BY <2>1 DEF Idle
    <2>3. Becomes(r, q) /\ UNCHANGED forms
      BY <1>9, <2>1 DEF StartDeclare, Begins, outside
    <2> QED  BY <1>1, <2>2, <2>3, PlainReasons DEF Owes
  <1> QED  BY <1>3, <1>4, <1>7, <1>8, <1>9 DEF Start

\* Every step keeps the reasons.
LEMMA NextReasons == TInv /\ RInv /\ [Next]_vars => RInv'
  <1> SUFFICES ASSUME TInv, RInv, [Next]_vars  PROVE RInv'
    OBVIOUS
  <1>1. ASSUME NEW r \in Requests, Abort(r)
        PROVE  RInv'
    <2>1. Becomes(r, Idle) /\ UNCHANGED <<row, stripe, history, forms>>
      BY <1>1 DEF Abort, outside
    <2>2. ~Owes(Idle) /\ Idle.pc # "grant" /\ Idle.link = NoSession
      BY DEF Owes, Idle, Unread
    <2> QED  BY <2>1, <2>2, PlainReasons
  <1>2. CASE (\E s \in Sessions : ClientPays(s)) \/ ChangePrice \/ OpenForm \/ UNCHANGED vars
    <2>1. /\ UNCHANGED <<row, req, declared, granted>>
          /\ \A s \in Sessions : Paid(s) \/ stripe[s].state = "created" => stripe'[s] = stripe[s]
      BY <1>2 DEF ClientPays, ChangePrice, OpenForm, vars, history, Paid, TInv, TypeOK
    <2>2. Reason => Reason'
      BY <2>1 DEF Reason, Paid
    <2>3. \A form \in forms' : form.captured => Reason
      <3>1. FormOf(row).captured = row.captured
        BY DEF TInv, TypeOK, FormOf, Row
      <3>2. forms' = forms \/ forms' = forms \cup {FormOf(row)}
        BY <1>2 DEF ClientPays, ChangePrice, OpenForm, vars
      <3> QED  BY <3>1, <3>2 DEF RInv
    <2>4. ASSUME NEW r \in Requests  PROVE Sound(req[r])'
      <3>1. Sound(req[r]) /\ req'[r] = req[r]
        BY <2>1 DEF RInv
      <3>2. req[r].link \in Sessions \cup {NoSession}
        BY DEF TInv, TypeOK, Request
      <3> QED  BY <2>1, <2>2, <3>1, <3>2 DEF Sound, Owes
    <2> QED  BY <2>1, <2>2, <2>3, <2>4 DEF RInv
  <1>3. ASSUME NEW r \in Requests, Start(r) \/ Continue(r)
        PROVE  RInv'
    BY <1>3, StartReasons, PlanReasons, MailReasons, ConfirmReasons DEF Continue
  <1> QED  BY <1>1, <1>2, <1>3 DEF Next

\* Whatever overlaps and dies, and however old the forms that are sent: what
\* confirms a reservation is a paid session, an instalment settled by hand or a
\* total that needed no payment.
THEOREM CapturesHaveReasons == Spec => []CaptureHasReason
  <1>1. Init => TInv /\ RInv
    BY InitTyped, InitReasons
  <1>2. TInv /\ RInv /\ [Next]_vars => (TInv /\ RInv)'
    BY NextTyped, NextReasons
  <1>3. RInv => CaptureHasReason
    BY DEF RInv, CaptureHasReason, Reason
  <1> QED  BY <1>1, <1>2, <1>3, PTL DEF Spec

-----------------------------------------------------------------------------
(* Requests that run one at a time, while forms stay open.                 *)

Alone == \A r, t \in Requests : r = t

\* What a confirmation read of the row is what is there.
IsOfRow(seen) == seen.captured = row.captured /\ seen.status = row.status

\* The plan is what the request read, from the instalment it is at; behind it,
\* a deposit that is still due is the first part of the amount.
PlanIsAsRead(q) ==
    /\ \A k \in Both : k >= q.k => q.plan[k] = plan[k]
    /\ q.k = 2 => /\ Exists(plan[1])
                  /\ declared = {} /\ plan[1].status = "PENDING" =>
                        plan[1].amount = Parts(q.amount)[1]

\* What a running request knows of the row, of the plan and of Stripe; it is
\* still so when the request uses it, for no other request runs meanwhile.
Knows(q) ==
    /\ q.pc = "capture" => IsOfRow(q.seen)
    /\ q.pc = "upsert" => PlanIsAsRead(q)
    /\ q.pc = "mark" =>
          \/ q.task = "declare"
          \/ /\ q.task = "confirm"
             /\ q.paid
             /\ Pays(q.session, q.k)
             /\ stripe[q.session].for = q.k

\* The three properties of requests one at a time, and what the request knows.
SInv ==
    /\ PaidIsCollected
    /\ PartsOfOneTotal
    /\ PaidDepositCaptures
    /\ \A r \in Requests : Knows(req[r])

\* The inductive invariant.
IInv == TInv /\ RInv /\ SInv

\* What a request becomes is what it is next.
LEMMA NowIs ==
  ASSUME TInv, NEW r \in Requests, NEW q, Becomes(r, q)
  PROVE  req'[r] = q
  BY DEF TInv, TypeOK, Becomes

\* Where a request knows something.
Knowing == {"upsert", "mark", "capture"}

\* A request that stands where nothing is known.
LEMMA NothingToKnow ==
  ASSUME NEW r \in Requests, req'[r].pc \notin Knowing
  PROVE  Knows(req[r])'
  BY DEF Knows, Knowing

\* A request that has answered knows nothing.
LEMMA AnswerKnows ==
  ASSUME TInv, NEW r \in Requests, Answer(r)
  PROVE  req'[r] = Idle /\ req'[r].pc \notin Knowing /\ Knows(req[r])'
  <1>1. req'[r] = Idle
    BY AnswerTyped
  <1>2. req'[r].pc = "idle"
    BY <1>1 DEF Idle
  <1> QED  BY <1>1, <1>2, NothingToKnow DEF Knowing

\* A session that is paid stays as it is.
LEMMA PaymentsLast ==
  ASSUME TInv, RInv, [Next]_vars, NEW s \in Sessions, Paid(s)
  PROVE  stripe'[s] = stripe[s]
  <1>1. stripe[s].state = "paid" /\ stripe \in [Sessions -> StripeSession]
    BY DEF Paid, TInv, TypeOK
  <1>2. ASSUME NEW r \in Requests, Start(r) \/ PlanStep(r) \/ ConfirmStep(r) \/ Abort(r)
        PROVE  stripe' = stripe
    BY <1>2 DEF Start, SubmitForm, StartSend, Poll, ReceiveWebhook, OpenSuccessPage, StartDeclare,
                PlanStep, SaveForm, ReadTotal, Reprice, ReadPlan, ClearPlan, UpsertInstalment,
                ConfirmStep, CheckInstalment, MarkInstalment, ReadDeposit, CaptureDeposit,
                CheckWhole, ReadWhole, ApplyWhole, Abort, outside
  <1>3. ASSUME NEW r \in Requests, MailStep(r)
        PROVE  stripe'[s] = stripe[s]
    <2>1. CASE CreateSession(r)
      BY <1>1, <2>1 DEF CreateSession
    <2>2. CASE StoreLink(r)
      <3>1. Sound(req[r])
        BY DEF RInv
      <3>2. stripe[req[r].link].state = "created"
        BY <2>2, <3>1 DEF StoreLink, Sound
      <3> QED  BY <1>1, <2>2, <3>2 DEF StoreLink
    <2>3. CASE ~CreateSession(r) /\ ~StoreLink(r)
      BY <1>3, <2>3 DEF MailStep, FindNothingDue, GrantFree, FindNothingOnline, StoreNoLink,
                        SkipMail, outside
    <2> QED  BY <2>1, <2>2, <2>3
  <1>4. CASE (\E t \in Sessions : ClientPays(t)) \/ ChangePrice \/ OpenForm \/ UNCHANGED vars
    BY <1>1, <1>4 DEF ClientPays, ChangePrice, OpenForm, vars
  <1> QED  BY <1>2, <1>3, <1>4 DEF Next, Continue

\* A step that leaves the plan alone keeps the invariant if only a form takes a
\* capture back, a paid deposit's request goes on to its capture, and what the
\* request knows is right.
LEMMA Kept ==
  ASSUME Alone, IInv, [Next]_vars, NEW r \in Requests, UNCHANGED <<plan, declared, aborts>>,
         row.captured => row'.captured \/ undone',
         undone => undone',
         Knows(req[r])',
         At(r, "upsert") => At(r, "upsert")',
         At(r, "read") \/ At(r, "capture") => (At(r, "read") \/ At(r, "capture"))' \/ row'.captured
  PROVE  SInv'
  <1>1. \A t \in Requests : t = r
    BY DEF Alone
  <1>2. \A s \in Sessions : Paid(s) => stripe'[s] = stripe[s] /\ Paid(s)'
    BY PaymentsLast DEF Paid, IInv
  <1>4. PaidIsCollected'
    <2> SUFFICES ASSUME NEW k \in Both, plan[k].status = "PAID", k \notin declared
                 PROVE  \E s \in Sessions : Paid(s)' /\ stripe'[s].for = k
                                              /\ stripe'[s].amount = plan[k].amount
      BY DEF PaidIsCollected
    <2>1. PICK s \in Sessions : Paid(s) /\ stripe[s].for = k /\ stripe[s].amount = plan[k].amount
      BY DEF IInv, SInv, PaidIsCollected
    <2> QED  BY <1>2, <2>1
  <1>5. PartsOfOneTotal'
    BY <1>1 DEF IInv, SInv, PartsOfOneTotal
  <1>6. PaidDepositCaptures'
    BY <1>1 DEF IInv, SInv, PaidDepositCaptures
  <1>7. \A t \in Requests : Knows(req[t])'
    BY <1>1
  <1> QED  BY <1>4, <1>5, <1>6, <1>7 DEF SInv

\* A step of a request from where it stands to where it knows nothing.
LEMMA Quiet ==
  ASSUME Alone, IInv, [Next]_vars, NEW r \in Requests, UNCHANGED <<plan, declared, aborts>>,
         row.captured => row'.captured \/ undone', undone => undone',
         req[r].pc \notin {"upsert", "read", "capture"},
         req'[r].pc \notin Knowing
  PROVE  SInv'
  <1>1. Knows(req[r])'
    BY NothingToKnow
  <1> QED  BY <1>1, Kept DEF At

\* The invariant holds of a reservation just created.
LEMMA InitSerial == Init => SInv
  <1> SUFFICES ASSUME Init  PROVE SInv
    OBVIOUS
  <1>2. \A k \in Both : plan[k] = Absent
    BY DEF Init, NoPlan
  <1>3. PaidIsCollected
    BY <1>2 DEF PaidIsCollected, Absent
  <1>4. PartsOfOneTotal
    BY <1>2 DEF PartsOfOneTotal, Absent, Exists, Both
  <1>5. PaidDepositCaptures
    BY <1>2 DEF PaidDepositCaptures, Absent, Both
  <1>6. \A r \in Requests : req[r].pc \in {"plan", "idle"}
    BY DEF Init, Idle
  <1> QED  BY <1>3, <1>4, <1>5, <1>6 DEF SInv, Knows

\* Beginning a request keeps the invariant.
LEMMA StartSerial ==
  ASSUME Alone, IInv, [Next]_vars, NEW r \in Requests, Start(r)
  PROVE  SInv'
  <1>1. TInv /\ req[r] \in Request
    BY DEF IInv, TInv, TypeOK
  <1>2. /\ req[r].pc = "idle" /\ UNCHANGED <<row, plan, stripe, declared, undone, aborts>>
    BY DEF Start, SubmitForm, StartSend, Poll, ReceiveWebhook, OpenSuccessPage, StartDeclare,
           Begins, outside, history, At
  <1>3. ASSUME NEW q, Becomes(r, q), q.pc \in {"save", "mail", "reprice", "check"}
        PROVE  SInv'
    <2>1. req'[r].pc \notin Knowing
      BY <1>1, <1>3, NowIs DEF Knowing
    <2> QED  BY <1>2, <2>1, Quiet
  <1>4. ASSUME NEW form \in forms, SubmitForm(r, form)
        PROVE  SInv'
    <2>1. PICK choice \in Choice :
            Becomes(r, [Idle EXCEPT !.pc = "save", !.task = "update", !.choice = choice,
                                    !.seen = form, !.paid = row.captured])
      BY <1>4 DEF SubmitForm, Begins
    <2>2. PICK q : q = [Idle EXCEPT !.pc = "save", !.task = "update", !.choice = choice,
                                    !.seen = form, !.paid = row.captured]
      OBVIOUS
    <2>3. q.pc = "save"
      BY <2>2 DEF Idle
    <2> QED  BY <1>3, <2>1, <2>2, <2>3
  <1>5. CASE StartSend(r)
    <2>1. PICK q \in {[Idle EXCEPT !.pc = "mail"],
                      [Idle EXCEPT !.pc = "reprice", !.task = "send", !.amount = price,
                                   !.seen = [Unread EXCEPT !.total = row.total]]} :
            Becomes(r, q)
      BY <1>5 DEF StartSend, Begins
    <2>2. q.pc \in {"mail", "reprice"}
      BY <2>1 DEF Idle
    <2> QED  BY <1>3, <2>1, <2>2
  <1>6. ASSUME NEW s, NEW q \in {[Idle EXCEPT !.pc = "check", !.session = s, !.webhook = TRUE],
                                 [Idle EXCEPT !.pc = "check", !.session = s]},
               Becomes(r, q)
        PROVE  SInv'
    <2>1. q.pc = "check"
      BY <1>6 DEF Idle
    <2> QED  BY <1>3, <1>6, <2>1
  <1>7. CASE Poll(r)
    BY <1>6, <1>7 DEF Poll, Begins
  <1>8. ASSUME NEW s \in Sessions, ReceiveWebhook(r, s) \/ OpenSuccessPage(r, s)
        PROVE  SInv'
    BY <1>6, <1>8 DEF ReceiveWebhook, OpenSuccessPage, Begins
  <1>9. ASSUME NEW k \in Both, NEW paid \in BOOLEAN, StartDeclare(r, k, paid)
        PROVE  SInv'
    <2>1. PICK q : q = [Idle EXCEPT !.pc = "mark", !.task = "declare", !.plan = plan, !.k = k,
                                    !.paid = paid]
      OBVIOUS
    <2>2. req'[r] = q
      BY <1>1, <1>9, <2>1, NowIs DEF StartDeclare, Begins
    <2>3. q.pc = "mark" /\ q.task = "declare"
      BY <2>1 DEF Idle
    <2>4. Knows(req[r])'
      BY <2>2, <2>3 DEF Knows
    <2> QED  BY <1>2, <2>4, Kept DEF At
  <1> QED  BY <1>4, <1>5, <1>7, <1>8, <1>9 DEF Start

\* Writing the row from a form, however old, pricing it and reading the plan.
LEMMA RowStepSerial ==
  ASSUME Alone, IInv, [Next]_vars, NEW r \in Requests,
         SaveForm(r) \/ ReadTotal(r) \/ Reprice(r) \/ ReadPlan(r)
  PROVE  SInv'
  <1>1. TInv /\ row \in Row /\ req[r] \in Request /\ undone \in BOOLEAN
    BY DEF IInv, TInv, TypeOK
  <1>2. /\ UNCHANGED <<plan, declared, aborts>>
        /\ req[r].pc \notin {"upsert", "read", "capture"}
    BY DEF SaveForm, ReadTotal, Reprice, ReadPlan, outside, history, At
  <1>3. CASE SaveForm(r)
    <2>1. req'[r].pc = "total"
      <3>1. PICK q : q = [req[r] EXCEPT !.pc = "total", !.seen = Unread, !.paid = FALSE]
        OBVIOUS
      <3>2. req'[r] = q
        BY <1>1, <1>3, <3>1, NowIs DEF SaveForm
      <3> QED  BY <1>1, <3>1, <3>2 DEF Request
    <2>2. row'.captured = req[r].seen.captured
      BY <1>1, <1>3 DEF SaveForm, Row
    <2>3. undone' = (undone \/ (row.captured /\ ~req[r].seen.captured))
      BY <1>3 DEF SaveForm
    <2>4. (row.captured => row'.captured \/ undone') /\ (undone => undone')
      BY <2>2, <2>3
    <2>5. req'[r].pc \notin Knowing
      BY <2>1 DEF Knowing
    <2> QED  BY <1>2, <2>4, <2>5, Quiet
  <1>4. CASE ReadTotal(r)
    <2>1. PICK q \in {[req[r] EXCEPT !.pc = "plan"],
                      [req[r] EXCEPT !.pc = "reprice", !.amount = price,
                                     !.seen = [Unread EXCEPT !.total = row.total]]} :
            Becomes(r, q)
      BY <1>4 DEF ReadTotal
    <2>2. q.pc \in {"plan", "reprice"}
      BY <1>1, <2>1 DEF Request
    <2>3. req'[r].pc \notin Knowing
      BY <1>1, <2>1, <2>2, NowIs DEF Knowing
    <2> QED  BY <1>2, <1>4, <2>3, Quiet DEF ReadTotal, outside, history
  <1>5. CASE Reprice(r)
    <2>1. PICK q \in {[Idle EXCEPT !.pc = "mail"],
                      [Idle EXCEPT !.pc = "plan", !.task = req[r].task,
                                   !.choice = req[r].choice]} :
            Becomes(r, q)
      BY <1>5 DEF Reprice
    <2>2. q.pc \in {"plan", "mail"}
      BY <2>1 DEF Idle
    <2>3. req'[r].pc \notin Knowing
      BY <1>1, <2>1, <2>2, NowIs DEF Knowing
    <2>4. row'.captured = row.captured /\ undone' = undone
      BY <1>1, <1>5 DEF Reprice, outside, history, Row
    <2> QED  BY <1>2, <2>3, <2>4, Quiet
  <1>6. CASE ReadPlan(r)
    <2>1. UNCHANGED <<row, plan, stripe, declared, undone, aborts>>
      BY <1>6 DEF ReadPlan, outside, history
    <2>2. CASE req[r].choice # Single
      <3>1. PICK total : total = IF row.total = NoTotal THEN 0 ELSE row.total
        OBVIOUS
      <3>2. PICK q : q = [req[r] EXCEPT !.pc = "upsert", !.k = 1, !.plan = plan, !.amount = total]
        OBVIOUS
      <3>3. req'[r] = q
        BY <1>1, <1>6, <2>2, <3>1, <3>2, NowIs DEF ReadPlan
      <3>4. q.pc = "upsert" /\ q.k = 1 /\ q.plan = plan
        BY <1>1, <3>2 DEF Request
      <3>5. Knows(req[r])'
        BY <2>1, <3>3, <3>4 DEF Knows, PlanIsAsRead
      <3> QED  BY <1>2, <2>1, <3>5, Kept DEF At
    <2>3. CASE req[r].choice = Single
      <3>1. PICK q \in {[req[r] EXCEPT !.pc = "clear"], [Idle EXCEPT !.pc = "mail"], Idle} :
              Becomes(r, q)
        BY <1>6, <2>3 DEF ReadPlan, EndPlan
      <3>2. q.pc \in {"clear", "mail", "idle"}
        BY <1>1, <3>1 DEF Request, Idle
      <3>3. req'[r].pc \notin Knowing
        BY <1>1, <3>1, <3>2, NowIs DEF Knowing
      <3> QED  BY <1>2, <2>1, <3>3, Quiet
    <2> QED  BY <2>2, <2>3
  <1> QED  BY <1>3, <1>4, <1>5, <1>6

\* A step of the confirmation mail keeps the invariant.
LEMMA MailSerial ==
  ASSUME Alone, IInv, [Next]_vars, NEW r \in Requests, MailStep(r)
  PROVE  SInv'
  <1>1. TInv /\ row \in Row /\ req[r] \in Request
    BY DEF IInv, TInv, TypeOK
  <1>2. /\ UNCHANGED <<plan, declared, undone, aborts>>
        /\ req[r].pc \in {"mail", "grant", "store"}
    BY DEF MailStep, FindNothingDue, GrantFree, FindNothingOnline, StoreNoLink, CreateSession,
           StoreLink, SkipMail, outside, history, At
  <1>3. row.captured => row'.captured
    <2>1. CASE GrantFree(r)
      <3>1. row' = row \/ row' = [status |-> "RESERVED_PAID", captured |-> TRUE,
                                  total |-> req[r].amount, session |-> NoSession]
        BY <2>1 DEF GrantFree
      <3> QED  BY <3>1
    <2>2. CASE StoreNoLink(r)
      BY <1>1, <2>2 DEF StoreNoLink, Row
    <2>3. CASE StoreLink(r)
      BY <1>1, <2>3 DEF StoreLink, Row
    <2>4. CASE ~GrantFree(r) /\ ~StoreNoLink(r) /\ ~StoreLink(r)
      BY <2>4 DEF MailStep, FindNothingDue, FindNothingOnline, CreateSession, SkipMail, outside
    <2> QED  BY <2>1, <2>2, <2>3, <2>4
  <1>4. req'[r].pc \notin Knowing
    <2>1. CASE Answer(r)
      BY <1>1, <2>1, AnswerKnows
    <2>2. ASSUME NEW q, Becomes(r, q), q.pc \in {"grant", "store"}
          PROVE  req'[r].pc \notin Knowing
      BY <1>1, <2>2, NowIs DEF Knowing
    <2>3. CASE FindNothingDue(r)
      <3>1. PICK q : q = [req[r] EXCEPT !.pc = "grant", !.amount = DueTotal, !.paid = row.captured]
        OBVIOUS
      <3>2. q.pc = "grant"
        BY <1>1, <3>1 DEF Request
      <3> QED  BY <2>2, <2>3, <3>1, <3>2 DEF FindNothingDue
    <2>4. CASE FindNothingOnline(r)
      <3>1. PICK q : q = [req[r] EXCEPT !.pc = "store", !.amount = DueTotal]
        OBVIOUS
      <3>2. q.pc = "store"
        BY <1>1, <3>1 DEF Request
      <3> QED  BY <2>2, <2>4, <3>1, <3>2 DEF FindNothingOnline
    <2>5. CASE CreateSession(r)
      <3>1. PICK s \in Sessions :
              Becomes(r, [req[r] EXCEPT !.pc = "store", !.amount = DueTotal, !.link = s])
        BY <2>5 DEF CreateSession
      <3>2. PICK q : q = [req[r] EXCEPT !.pc = "store", !.amount = DueTotal, !.link = s]
        OBVIOUS
      <3>3. q.pc = "store"
        BY <1>1, <3>2 DEF Request
      <3> QED  BY <2>2, <3>1, <3>2, <3>3
    <2> QED  BY <2>1, <2>3, <2>4, <2>5
             DEF MailStep, GrantFree, StoreNoLink, StoreLink, SkipMail
  <1> QED  BY <1>2, <1>3, <1>4, Quiet

\* Confirming, besides the writing of the instalment.
LEMMA ConfirmSerial ==
  ASSUME Alone, IInv, [Next]_vars, NEW r \in Requests,
         \/ CheckInstalment(r) \/ ReadDeposit(r) \/ CaptureDeposit(r)
         \/ CheckWhole(r) \/ ReadWhole(r) \/ ApplyWhole(r)
  PROVE  SInv'
  <1>1. /\ TInv /\ row \in Row /\ req[r] \in Request /\ Knows(req[r])
        /\ UNCHANGED <<plan, declared, undone, aborts>>
    BY DEF IInv, SInv, TInv, TypeOK, CheckInstalment, ReadDeposit, CaptureDeposit,
           CheckWhole, ReadWhole, ApplyWhole, outside, history
  <1>3. ASSUME Answer(r), row.captured => row'.captured, req[r].pc \in {"check", "apply"}
        PROVE  SInv'
    BY <1>1, <1>3, AnswerKnows, Quiet
  <1>4. CASE CheckInstalment(r)
    <2>1. PICK k : k = stripe[req[r].session].for
      OBVIOUS
    <2>2. PICK q : q = [req[r] EXCEPT !.pc = "mark", !.task = "confirm", !.plan = plan,
                                      !.k = k, !.paid = TRUE]
      OBVIOUS
    <2>3. UNCHANGED <<row, plan, stripe>> /\ req[r].pc = "check"
      BY <1>4 DEF CheckInstalment, At
    <2>4. CASE Pays(req[r].session, k) /\ Becomes(r, q)
      <3>1. req'[r] = q
        BY <1>1, <2>4, NowIs
      <3>2. q.pc = "mark" /\ q.task = "confirm" /\ q.k = k /\ q.paid /\ q.session = req[r].session
        BY ZenonT(30), <1>1, <2>2 DEF Request
      <3>3. Pays(req[r].session, req[r].k)' /\ stripe'[req'[r].session].for = req'[r].k
        BY <2>1, <2>3, <2>4, <3>1, <3>2 DEF Pays, Paid
      <3>4. req'[r].pc = "mark" /\ req'[r].task = "confirm" /\ req'[r].paid
        BY <3>1, <3>2
      <3>5. Knows(req[r])'
        BY <3>3, <3>4 DEF Knows
      <3> QED  BY <1>1, <2>3, <3>5, Kept DEF At
    <2>5. (Pays(req[r].session, k) /\ Becomes(r, q)) \/ Answer(r)
      BY <1>4, <2>1, <2>2 DEF CheckInstalment
    <2> QED  BY <1>3, <2>3, <2>4, <2>5
  <1>5. CASE ReadDeposit(r)
    <2>1. UNCHANGED <<row, plan, stripe>> /\ req[r].pc = "read"
      BY <1>5 DEF ReadDeposit, outside, At
    <2>2. PICK q : q = [req[r] EXCEPT !.pc = "capture", !.plan = plan,
                                   !.seen = [row EXCEPT !.total = NoTotal, !.session = NoSession]]
      OBVIOUS
    <2>3. req'[r] = q
      BY <1>1, <1>5, <2>2, NowIs DEF ReadDeposit
    <2>4. q.pc = "capture" /\ q.seen.status = row.status /\ q.seen.captured = row.captured
      BY <1>1, <2>2 DEF Request, Row
    <2>5. Knows(req[r])'
      BY <2>1, <2>3, <2>4 DEF Knows, IsOfRow
    <2> QED  BY <1>1, <2>1, <2>3, <2>4, <2>5, Kept DEF At
  <1>6. CASE CaptureDeposit(r)
    <2>1. IsOfRow(req[r].seen) /\ req[r].pc = "capture"
      BY <1>1, <1>6 DEF CaptureDeposit, At, Knows
    <2>2. row'.captured
      BY <1>1, <1>6, <2>1 DEF CaptureDeposit, ConfirmedRow, IsCaptured, IsOfRow, Row
    <2>3. Knows(req[r])'
      <3>1. CASE Answer(r)
        BY <1>1, <3>1, AnswerKnows
      <3>2. CASE Becomes(r, [Idle EXCEPT !.pc = "mail", !.session = req[r].session,
                                         !.webhook = req[r].webhook])
        <4>1. PICK q : q = [Idle EXCEPT !.pc = "mail", !.session = req[r].session,
                                        !.webhook = req[r].webhook]
          OBVIOUS
        <4>2. q.pc = "mail" /\ req'[r] = q
          BY <1>1, <3>2, <4>1, NowIs DEF Idle
        <4> QED  BY <4>2, NothingToKnow DEF Knowing
      <3> QED  BY <1>6, <3>1, <3>2 DEF CaptureDeposit
    <2> QED  BY <1>1, <2>1, <2>2, <2>3, Kept DEF At
  <1>7. CASE CheckWhole(r)
    <2>1. UNCHANGED row /\ req[r].pc = "check"
      BY <1>7 DEF CheckWhole, At
    <2>2. PICK q : q = [req[r] EXCEPT !.pc = "whole", !.amount = DueTotal]
      OBVIOUS
    <2>3. CASE Becomes(r, q)
      <3>1. req'[r] = q /\ q.pc = "whole"
        BY <1>1, <2>2, <2>3, NowIs DEF Request
      <3>2. req'[r].pc \notin Knowing
        BY <3>1 DEF Knowing
      <3> QED  BY <1>1, <2>1, <3>2, Quiet
    <2>4. Becomes(r, q) \/ Answer(r)
      BY <1>7, <2>2 DEF CheckWhole
    <2> QED  BY <1>3, <2>1, <2>3, <2>4
  <1>8. CASE ReadWhole(r)
    <2>1. UNCHANGED row /\ req[r].pc = "whole"
      BY <1>8 DEF ReadWhole, outside, At
    <2>2. PICK q : q = [req[r] EXCEPT !.pc = "apply", !.seen = [row EXCEPT !.session = NoSession]]
      OBVIOUS
    <2>3. req'[r] = q /\ q.pc = "apply"
      BY <1>1, <1>8, <2>2, NowIs DEF ReadWhole, Request
    <2>4. req'[r].pc \notin Knowing
      BY <2>3 DEF Knowing
    <2> QED  BY <1>1, <2>1, <2>4, Quiet
  <1>9. CASE ApplyWhole(r)
    <2>1. req[r].pc = "apply" /\ Answer(r)
      BY <1>9 DEF ApplyWhole, At
    <2>2. row.captured => row'.captured
      BY <1>1, <1>9 DEF ApplyWhole, Row
    <2> QED  BY <1>3, <2>1, <2>2
  <1> QED  BY <1>4, <1>5, <1>6, <1>7, <1>8, <1>9

\* Deleting the plan keeps the invariant.
LEMMA ClearSerial ==
  ASSUME Alone, IInv, NEW r \in Requests, ClearPlan(r)
  PROVE  SInv'
  <1>1. /\ TInv /\ UNCHANGED <<row, stripe, declared, undone, aborts>> /\ plan' = NoPlan
    BY DEF IInv, ClearPlan, outside, history
  <1>2. \A k \in Both : plan'[k] = Absent
    BY <1>1 DEF NoPlan
  <1>3. PaidIsCollected' /\ PartsOfOneTotal' /\ PaidDepositCaptures'
    BY <1>2 DEF PaidIsCollected, PartsOfOneTotal, PaidDepositCaptures, Absent, Exists, Both
  <1>4. req'[r].pc \in {"mail", "idle"}
    BY <1>1, NowIs DEF ClearPlan, EndPlan, Idle
  <1>5. \A t \in Requests : Knows(req[t])'
    BY <1>4, NothingToKnow DEF Alone, Knowing
  <1> QED  BY <1>3, <1>5 DEF SInv

\* Writing one instalment: the plan is as it was read, so nothing is refused,
\* and only an instalment that is due is rewritten.
LEMMA UpsertWrites ==
  ASSUME IInv, NEW r \in Requests, UpsertInstalment(r)
  PROVE  /\ req[r].k \in Both /\ req[r].amount \in Nat
         /\ req[r].amount \in Prices \cup {0}
         /\ \A j \in Both : j # req[r].k => plan'[j] = plan[j]
         /\ plan'[req[r].k].status = "PAID" => plan'[req[r].k] = plan[req[r].k]
         /\ Exists(plan'[req[r].k])
         /\ plan'[req[r].k].status # "PAID" =>
               plan'[req[r].k].amount = Parts(req[r].amount)[req[r].k]
         /\ IF req[r].k = 1
            THEN req'[r] = [req[r] EXCEPT !.k = 2]
            ELSE req'[r] = [Idle EXCEPT !.pc = "mail"] \/ req'[r] = Idle
  <1> DEFINE k == req[r].k
             amount == Parts(req[r].amount)[k]
             method == req[r].choice[k]
  <1>1. /\ TInv /\ req[r] \in Request /\ req[r].pc = "upsert" /\ Ready(req[r])
        /\ Knows(req[r]) /\ plan \in [Both -> Instalment]
    BY DEF IInv, SInv, TInv, TypeOK, UpsertInstalment, At
  <1>2. k \in Both /\ req[r].amount \in Prices \cup {0}
    BY <1>1 DEF Ready, Request
  <1>3. req[r].amount \in Nat
    <2>1. Prices \cup {0} \subseteq Nat
      BY InstallmentAssumption
    <2> QED  BY <1>2, <2>1
  <1>4. req[r].plan[k] = plan[k]
    BY <1>1, <1>2 DEF Knows, PlanIsAsRead, Both
  <1>5. ~Refused(r)
    BY <1>4 DEF Refused
  <1>6. Upserted(r)
    BY <1>5 DEF UpsertInstalment
  <1>7. IF k = 1
        THEN req'[r] = [req[r] EXCEPT !.k = 2]
        ELSE req'[r] = [Idle EXCEPT !.pc = "mail"] \/ req'[r] = Idle
    BY <1>1, <1>5, NowIs DEF UpsertInstalment, EndPlan
  <1>8. /\ \A j \in Both : j # k => plan'[j] = plan[j]
        /\ plan'[k].status = "PAID" => plan'[k] = plan[k]
        /\ Exists(plan'[k])
        /\ plan'[k].status # "PAID" => plan'[k].amount = amount
    <2>1. CASE Exists(plan[k])
      <3>1. plan' = IF plan[k].status # "PAID"
                    THEN [plan EXCEPT ![k].amount = amount, ![k].method = method]
                    ELSE plan
        BY <1>4, <1>6, <2>1 DEF Upserted, Rewritable
      <3> HIDE DEF amount, method, k
      <3> QED  BY <1>1, <1>2, <2>1, <3>1 DEF Exists, Instalment
    <2>2. CASE ~Exists(plan[k])
      <3>1. Created(k, amount, method)
        BY <1>4, <1>6, <2>2 DEF Upserted
      <3> HIDE DEF amount, method, k
      <3>2. PICK id \in NewIds : plan' = [plan EXCEPT ![k] = [id |-> id, amount |-> amount,
                                                       method |-> method, status |-> "PENDING"]]
        BY <3>1 DEF Created
      <3>3. id # 0
        BY InstallmentAssumption DEF NewIds
      <3> QED  BY <1>1, <1>2, <3>2, <3>3 DEF Exists
    <2> QED  BY <2>1, <2>2
  <1> QED  BY <1>2, <1>3, <1>7, <1>8

\* Writing one instalment keeps the invariant.
LEMMA UpsertSerial ==
  ASSUME Alone, IInv, NEW r \in Requests, UpsertInstalment(r)
  PROVE  SInv'
  <1>1. /\ TInv /\ req[r] \in Request /\ req[r].pc = "upsert" /\ Knows(req[r])
        /\ UNCHANGED <<row, stripe, declared, undone, aborts>>
    BY DEF IInv, SInv, TInv, TypeOK, UpsertInstalment, At, outside, history
  <1>2. req[r].k \in Both /\ req[r].amount \in Nat /\ req[r].amount \in Prices \cup {0}
    BY UpsertWrites
  <1>3. \A j \in Both : j # req[r].k => plan'[j] = plan[j]
    BY UpsertWrites
  <1>4. plan'[req[r].k].status = "PAID" => plan'[req[r].k] = plan[req[r].k]
    BY UpsertWrites
  <1>5. /\ Exists(plan'[req[r].k])
        /\ plan'[req[r].k].status # "PAID" =>
               plan'[req[r].k].amount = Parts(req[r].amount)[req[r].k]
    BY UpsertWrites
  <1>6. \A j \in Both : plan'[j].status = "PAID" => plan'[j] = plan[j]
    BY <1>3, <1>4
  <1>8. PaidIsCollected'
    <2> SUFFICES ASSUME NEW j \in Both, plan'[j].status = "PAID", j \notin declared
                 PROVE  \E s \in Sessions : Paid(s)' /\ stripe'[s].for = j
                                              /\ stripe'[s].amount = plan'[j].amount
      BY <1>1 DEF PaidIsCollected
    <2>1. plan'[j] = plan[j]
      BY <1>6
    <2>2. PICK s \in Sessions : Paid(s) /\ stripe[s].for = j /\ stripe[s].amount = plan[j].amount
      BY <2>1 DEF IInv, SInv, PaidIsCollected
    <2> QED  BY <1>1, <2>1, <2>2 DEF Paid
  <1>9. PaidDepositCaptures'
    <2> SUFFICES ASSUME aborts = 0, ~undone, plan'[1].status = "PAID"  PROVE row.captured
      BY <1>1 DEF PaidDepositCaptures
    <2>1. plan[1].status = "PAID"
      BY <1>6 DEF Both
    <2>2. \A t \in Requests : ~At(t, "read") /\ ~At(t, "capture")
      BY <1>1 DEF Alone, At
    <2> QED  BY <2>1, <2>2 DEF IInv, SInv, PaidDepositCaptures
  <1>10. CASE req[r].k = 1
    <2>1. req'[r] = [req[r] EXCEPT !.k = 2]
      BY <1>10, UpsertWrites
    <2>2. /\ req'[r].pc = "upsert" /\ req'[r].k = 2 /\ req'[r].plan = req[r].plan
          /\ req'[r].amount = req[r].amount
      BY <1>1, <2>1 DEF Request
    <2>3. PartsOfOneTotal'
      BY <2>2 DEF PartsOfOneTotal, At
    <2>4. req[r].plan[2] = plan[2] /\ plan'[2] = plan[2]
      BY <1>1, <1>3, <1>10 DEF Knows, PlanIsAsRead, Both
    <2>5. PlanIsAsRead(req[r])'
      BY <1>5, <1>10, <2>2, <2>4 DEF PlanIsAsRead, Both
    <2>6. Knows(req[r])'
      BY <2>2, <2>5 DEF Knows
    <2>7. \A t \in Requests : Knows(req[t])'
      BY <2>6 DEF Alone
    <2> QED  BY <1>8, <1>9, <2>3, <2>7 DEF SInv
  <1>11. CASE req[r].k = 2
    <2>1. req'[r] = [Idle EXCEPT !.pc = "mail"] \/ req'[r] = Idle
      <3>1. IF req[r].k = 1
            THEN req'[r] = [req[r] EXCEPT !.k = 2]
            ELSE req'[r] = [Idle EXCEPT !.pc = "mail"] \/ req'[r] = Idle
        BY UpsertWrites
      <3>2. req[r].k # 1
        BY <1>11
      <3> QED  BY <3>1, <3>2
    <2>2. Knows(req[r])'
      BY <2>1, NothingToKnow DEF Idle, Knowing
    <2>3. PartsOfOneTotal'
      <3> SUFFICES ASSUME declared = {}, \A j \in Both : Exists(plan'[j]) /\ plan'[j].status = "PENDING"
                   PROVE  \E p \in Prices \cup {0} : plan'[1].amount + plan'[2].amount = p
        BY <1>1 DEF PartsOfOneTotal
      <3>1. plan'[1] = plan[1] /\ plan'[1].status = "PENDING" /\ plan'[2].status = "PENDING"
        BY <1>3, <1>11 DEF Both
      <3>2. plan[1].amount = Parts(req[r].amount)[1]
        BY <1>1, <1>11, <3>1 DEF Knows, PlanIsAsRead
      <3>3. plan'[2].amount = Parts(req[r].amount)[2]
        BY <1>5, <1>11, <3>1
      <3>4. plan'[1].amount + plan'[2].amount = req[r].amount
        BY <1>2, <3>1, <3>2, <3>3, PartsAreNaturals
      <3> QED  BY <1>2, <3>4
    <2>4. \A t \in Requests : Knows(req[t])'
      BY <2>2 DEF Alone
    <2> QED  BY <1>8, <1>9, <2>3, <2>4 DEF SInv
  <1> QED  BY <1>2, <1>10, <1>11 DEF Both

\* Writing an instalment's status keeps the invariant.
LEMMA MarkSerial ==
  ASSUME Alone, IInv, [Next]_vars, NEW r \in Requests, MarkInstalment(r)
  PROVE  SInv'
  <1> DEFINE k == req[r].k
  <1>1. /\ TInv /\ req[r] \in Request /\ req[r].pc = "mark" /\ Knows(req[r]) /\ k \in Both
        /\ plan \in [Both -> Instalment] /\ UNCHANGED <<row, stripe, undone, aborts>>
        /\ declared \subseteq Both
    BY DEF IInv, SInv, TInv, TypeOK, MarkInstalment, At, Ready
  <1>2. \/ req[r].task = "declare"
        \/ /\ req[r].task = "confirm" /\ req[r].paid
           /\ Pays(req[r].session, k) /\ stripe[req[r].session].for = k
    BY <1>1 DEF Knows
  <1>3. CASE plan[k].id # req[r].plan[k].id
    <2>1. req'[r] = Idle /\ UNCHANGED <<plan, declared>>
      BY <1>1, <1>3, NowIs DEF MarkInstalment
    <2>2. req'[r].pc \notin Knowing
      BY <2>1 DEF Idle, Knowing
    <2> QED  BY <1>1, <2>1, <2>2, Quiet
  <1>4. CASE plan[k].id = req[r].plan[k].id
    <2>1. /\ plan' = [plan EXCEPT ![k].status = IF req[r].paid THEN "PAID" ELSE "PENDING"]
          /\ declared' = IF req[r].task = "declare" THEN declared \cup {k} ELSE declared
      BY <1>4 DEF MarkInstalment
    <2>2. /\ req[r].paid /\ k = 1 => req'[r] = [req[r] EXCEPT !.pc = "read", !.plan = NoPlan]
          /\ ~(req[r].paid /\ k = 1) => req'[r] = Idle
      BY <1>1, <1>4, NowIs, AnswerKnows DEF MarkInstalment
    <2> HIDE DEF k
    <2>3. \A j \in Both : j # k => plan'[j] = plan[j]
      BY <1>1, <2>1
    <2>4. /\ plan'[k].amount = plan[k].amount
          /\ plan'[k].status = IF req[r].paid THEN "PAID" ELSE "PENDING"
      BY <1>1, <2>1 DEF Instalment
    <2>6. PaidIsCollected'
      <3> SUFFICES ASSUME NEW j \in Both, plan'[j].status = "PAID", j \notin declared'
                   PROVE  \E s \in Sessions : Paid(s)' /\ stripe'[s].for = j
                                                /\ stripe'[s].amount = plan'[j].amount
        BY DEF PaidIsCollected
      <3>1. CASE j = k
        <4>1. /\ Pays(req[r].session, k) /\ stripe[req[r].session].for = k
          BY <1>2, <2>1, <3>1
        <4> QED  BY <1>1, <2>4, <3>1, <4>1 DEF Pays, Paid
      <3>2. CASE j # k
        <4>1. plan[j].status = "PAID" /\ j \notin declared
          BY <2>1, <2>3, <3>2
        <4>2. PICK s \in Sessions :
                Paid(s) /\ stripe[s].for = j /\ stripe[s].amount = plan[j].amount
          BY <4>1 DEF IInv, SInv, PaidIsCollected
        <4> QED  BY <1>1, <2>3, <3>2, <4>2 DEF Paid
      <3> QED  BY <3>1, <3>2
    <2>7. PartsOfOneTotal'
      <3>1. declared' = {} => plan'[k].status = "PAID"
        BY <1>2, <2>1, <2>4
      <3> QED  BY <1>1, <3>1 DEF PartsOfOneTotal
    <2>8. req[r].paid /\ k = 1 => req'[r].pc = "read"
      BY ZenonT(30), <1>1, <2>2 DEF Request
    <2>9. PaidDepositCaptures'
      <3> SUFFICES ASSUME aborts = 0, ~undone, plan'[1].status = "PAID"
                   PROVE  row.captured \/ req'[r].pc = "read"
        BY <1>1 DEF PaidDepositCaptures, At
      <3>1. CASE k = 1
        BY <2>4, <2>8, <3>1
      <3>2. CASE k # 1
        <4>1. plan[1].status = "PAID"
          BY <2>3, <3>2 DEF Both
        <4>2. \A t \in Requests : ~At(t, "read") /\ ~At(t, "capture")
          BY <1>1 DEF Alone, At
        <4> QED  BY <4>1, <4>2 DEF IInv, SInv, PaidDepositCaptures
      <3> QED  BY <3>1, <3>2
    <2>11. Knows(req[r])'
      <3>1. CASE req[r].paid /\ k = 1
        BY <2>8, <3>1, NothingToKnow DEF Knowing
      <3>2. CASE ~(req[r].paid /\ k = 1)
        BY <2>2, <3>2, NothingToKnow DEF Idle, Knowing
      <3> QED  BY <3>1, <3>2
    <2>12. \A t \in Requests : Knows(req[t])'
      BY <2>11 DEF Alone
    <2> QED  BY <2>6, <2>7, <2>9, <2>12 DEF SInv
  <1> QED  BY <1>3, <1>4

\* A request that dies keeps the invariant.
LEMMA AbortSerial ==
  ASSUME Alone, IInv, NEW r \in Requests, Abort(r)
  PROVE  SInv'
  <1>1. /\ TInv /\ aborts \in Nat /\ aborts' = aborts + 1 /\ Becomes(r, Idle)
        /\ UNCHANGED <<row, plan, stripe, declared>>
    BY InstallmentAssumption DEF IInv, TInv, TypeOK, Abort, outside, history
  <1>2. aborts' # 0
    BY <1>1
  <1>3. PartsOfOneTotal' /\ PaidDepositCaptures'
    BY <1>2 DEF PartsOfOneTotal, PaidDepositCaptures
  <1>5. PaidIsCollected'
    BY <1>1 DEF IInv, SInv, PaidIsCollected, Paid
  <1>6. Knows(req[r])'
    BY <1>1, NowIs, NothingToKnow DEF Idle, Knowing
  <1>7. \A t \in Requests : Knows(req[t])'
    BY <1>6 DEF Alone
  <1> QED  BY <1>3, <1>5, <1>7 DEF SInv

\* A step of the outside, of which a request knows nothing.
LEMMA OutsideSerial ==
  ASSUME Alone, IInv, [Next]_vars,
         (\E s \in Sessions : ClientPays(s)) \/ ChangePrice \/ OpenForm \/ UNCHANGED vars
  PROVE  SInv'
  <1>1. PICK r \in Requests : TRUE
    BY InstallmentAssumption
  <1>2. /\ UNCHANGED <<row, plan, declared, undone, req, aborts>> /\ Knows(req[r])
    BY DEF IInv, SInv, ClientPays, ChangePrice, OpenForm, history, vars
  <1>3. \A s : Paid(s) => stripe'[s] = stripe[s]
    BY PaymentsLast DEF Paid, IInv
  <1>4. Knows(req[r])'
    BY <1>2, <1>3 DEF Knows, IsOfRow, PlanIsAsRead, Pays, Paid
  <1> QED  BY <1>2, <1>4, Kept DEF At

\* The invariant is inductive when requests run one at a time.
LEMMA Inductive == Alone => (Init => IInv) /\ (IInv /\ [Next]_vars => IInv')
  <1> SUFFICES ASSUME Alone  PROVE (Init => IInv) /\ (IInv /\ [Next]_vars => IInv')
    OBVIOUS
  <1>1. Init => IInv
    BY InitTyped, InitReasons, InitSerial DEF IInv
  <1>2. ASSUME IInv, [Next]_vars  PROVE IInv'
    <2>1. TInv' /\ RInv'
      BY <1>2, NextTyped, NextReasons DEF IInv
    <2>2. ASSUME NEW r \in Requests, Start(r) \/ Continue(r) \/ Abort(r)
          PROVE  SInv'
      BY <1>2, <2>2, StartSerial, RowStepSerial, MailSerial, ConfirmSerial, ClearSerial,
         UpsertSerial, MarkSerial, AbortSerial DEF Continue, PlanStep, ConfirmStep
    <2>3. SInv'
      BY <1>2, <2>2, OutsideSerial DEF Next
    <2> QED  BY <2>1, <2>3 DEF IInv
  <1> QED  BY <1>1, <1>2

\* An instalment marked paid was settled by hand, or a session paid exactly it.
THEOREM PaidIsAlwaysCollected == ASSUME Alone PROVE Spec => []PaidIsCollected
  <1>1. (Init => IInv) /\ (IInv /\ [Next]_vars => IInv')
    BY Inductive
  <1>2. IInv => PaidIsCollected
    BY DEF IInv, SInv
  <1> QED  BY <1>1, <1>2, PTL DEF Spec

\* Two instalments that are due are the parts of one total.
THEOREM PartsMakeOneTotal == ASSUME Alone PROVE Spec => []PartsOfOneTotal
  <1>1. (Init => IInv) /\ (IInv /\ [Next]_vars => IInv')
    BY Inductive
  <1>2. IInv => PartsOfOneTotal
    BY DEF IInv, SInv
  <1> QED  BY <1>1, <1>2, PTL DEF Spec

\* A deposit that is paid has confirmed its reservation or is about to, as long
\* as no form opened before has taken the capture back.
THEOREM PaidDepositsCapture == ASSUME Alone PROVE Spec => []PaidDepositCaptures
  <1>1. (Init => IInv) /\ (IInv /\ [Next]_vars => IInv')
    BY Inductive
  <1>2. IInv => PaidDepositCaptures
    BY DEF IInv, SInv
  <1> QED  BY <1>1, <1>2, PTL DEF Spec

=============================================================================
