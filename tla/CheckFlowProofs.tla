--------------------------- MODULE CheckFlowProofs ---------------------------
(***************************************************************************)
(* Proofs about CheckFlow, for every set of requests, questions and days.  *)
(*                                                                         *)
(* What a submission refers to is protected by the database at the moment  *)
(* of the write, so two of the properties hold under any interleaving.     *)
(* The others rest on what a request has checked earlier, and hold while   *)
(* nothing has happened under a running request: then at most one runs     *)
(* (Single), and what it has checked is still so (Knows).                  *)
(***************************************************************************)
EXTENDS CheckFlow, TLAPS

\* A request that writes the reservation has read, or been given, a row of it.
RequestOK ==
    \A r \in Requests : req[r].task \in {"edit", "move"} => req[r].rental \in Rental

Single ==
    ~overlapped =>
        \A q, r \in Requests : req[q].pc # "idle" /\ req[r].pc # "idle" => q = r

InTime == Eligible(rental.payment) /\ ~Expired(rental.day)

\* What a request that runs alone may rely on, at each of its places.
Knows(r) ==
    /\ At(r, "access", "submit") => req[r].rental = rental
    /\ At(r, "settings", "submit") => InTime
    /\ At(r, "write", "submit") => InTime /\ AnswersAll(req[r].kind, req[r].answers)
    /\ At(r, "settings", "update") => MayCorrect(req[r].kind)
    /\ At(r, "write", "update") =>
          MayCorrect(req[r].kind) /\ AnswersAll(req[r].kind, req[r].answers)
    /\ At(r, "write", "edit") => ~Locked
    /\ At(r, "write", "remove") => ~Locked

AloneKnows == ~overlapped => \A r \in Requests : Knows(r)

IInv == TypeOK /\ RequestOK /\ AnswersHaveQuestions /\ Single /\ AloneKnows

-----------------------------------------------------------------------------
(* Types.                                                                  *)

\* The idle request is one.
LEMMA IdleIsARequest == Idle \in Request
  BY DEF Idle, NoEdit, Request, Steps, Tasks, Kinds, Edit

\* The half-days of the model are those of its days.
LEMMA TodayIsADay ==
  ASSUME TypeOK  PROVE Today \in 0..LastDay
  <1>1. now \in Nat /\ LastDay \in Nat /\ now <= 2 * LastDay + 1
    BY CheckFlowAssumption DEF TypeOK
  <1>2. \A n, d \in Nat : n <= 2 * d + 1 => n \div 2 \in 0..d
    OBVIOUS
  <1> QED  BY <1>1, <1>2 DEF Today

\* The types at the start.
LEMMA InitTyped == Init => TypeOK /\ RequestOK
  <1> SUFFICES ASSUME Init PROVE TypeOK /\ RequestOK
    OBVIOUS
  <1>1. now \in 0..(2 * LastDay + 1)
    BY CheckFlowAssumption DEF Init
  <1>2. rental \in Rental
    BY DEF Init, Rental, Payments
  <1>3. form \in [Questions -> Question]
    BY DEF Init, Question, Demands
  <1>4. req \in [Requests -> Request] /\ RequestOK
    BY IdleIsARequest DEF Init, RequestOK, Idle
  <1> QED  BY <1>1, <1>2, <1>3, <1>4 DEF Init, TypeOK

\* A step that starts or continues a request keeps the types if the request
\* that it leaves is one.
LEMMA RequestTyped ==
  ASSUME TypeOK, RequestOK, NEW r \in Requests, NEW q \in Request, Becomes(r, q),
         q.task \in {"edit", "move"} => q.rental \in Rental
  PROVE  req' \in [Requests -> Request] /\ RequestOK'
  BY DEF TypeOK, RequestOK, Becomes

\* A step that only reads keeps the types.
LEMMA ReadTyped ==
  ASSUME TypeOK, RequestOK, NEW r \in Requests, NEW q \in Request, Becomes(r, q),
         q.task \in {"edit", "move"} => q.rental \in Rental,
         UNCHANGED <<now, rental, shared, form, submission>>, overlapped' \in BOOLEAN
  PROVE  TypeOK' /\ RequestOK'
  <1>1. req' \in [Requests -> Request] /\ RequestOK'
    BY RequestTyped
  <1> QED  BY <1>1 DEF TypeOK

\* So does one that begins a request.
LEMMA BeginTyped ==
  ASSUME TypeOK, RequestOK, NEW r \in Requests, NEW q \in Request, Begins(r, q),
         q.task \in {"edit", "move"} => q.rental \in Rental
  PROVE  TypeOK' /\ RequestOK'
  <1>1. overlapped' \in BOOLEAN
    BY DEF Begins, Happens, TypeOK
  <1> QED  BY <1>1, ReadTyped DEF Begins

\* The steps that begin a request keep the types.
LEMMA StartTyped ==
  ASSUME TypeOK, RequestOK, NEW r \in Requests, Start(r)
  PROVE  TypeOK' /\ RequestOK'
  <1>0. /\ NoEdit \in Edit /\ {} \in SUBSET Questions /\ None \in Rental \cup {None}
        /\ "CHECK_IN" \in Kinds
    BY DEF NoEdit, Edit, Kinds
  <1>1. ASSUME NEW kind \in Kinds, NEW answers \in SUBSET Answerable, StartSubmit(r, kind, answers)
        PROVE  TypeOK' /\ RequestOK'
    <2> DEFINE q == [Idle EXCEPT !.pc = "access", !.task = "submit", !.kind = kind,
                                 !.answers = answers, !.rental = rental]
    <2>1. q \in Request
      BY <1>0, <1>1 DEF Idle, Request, Steps, Tasks, TypeOK, Answerable
    <2>2. Begins(r, q)
      BY <1>1 DEF StartSubmit
    <2>3. q.task = "submit"
      BY DEF Idle
    <2> HIDE DEF q
    <2> QED  BY <2>1, <2>2, <2>3, BeginTyped
  <1>2. ASSUME NEW kind \in Kinds, NEW answers \in SUBSET Answerable, StartUpdate(r, kind, answers)
        PROVE  TypeOK' /\ RequestOK'
    <2> DEFINE q == [Idle EXCEPT !.pc = "settings", !.task = "update", !.kind = kind,
                                 !.answers = answers]
    <2>1. q \in Request
      BY <1>0, <1>2 DEF Idle, Request, Steps, Tasks, TypeOK, Answerable
    <2>2. Begins(r, q)
      BY <1>2 DEF StartUpdate
    <2>3. q.task = "update"
      BY DEF Idle
    <2> HIDE DEF q
    <2> QED  BY <2>1, <2>2, <2>3, BeginTyped
  <1>3. ASSUME NEW kind \in Kinds, NEW edit \in Edit, StartSync(r, kind, edit)
        PROVE  TypeOK' /\ RequestOK'
    <2> DEFINE q == [Idle EXCEPT !.pc = "write", !.task = "sync", !.kind = kind, !.edit = edit]
    <2>1. q \in Request
      BY <1>0, <1>3 DEF Idle, Request, Steps, Tasks
    <2>2. Begins(r, q)
      BY <1>3 DEF StartSync
    <2>3. q.task = "sync"
      BY DEF Idle
    <2> HIDE DEF q
    <2> QED  BY <2>1, <2>2, <2>3, BeginTyped
  <1>4. ASSUME NEW row \in Rental, StartEdit(r, row)
        PROVE  TypeOK' /\ RequestOK'
    <2> DEFINE q == [Idle EXCEPT !.pc = "write", !.task = "edit", !.rental = row]
    <2>1. q \in Request
      BY <1>0, <1>4 DEF Idle, Request, Steps, Tasks
    <2>2. Begins(r, q)
      BY <1>4 DEF StartEdit
    <2>3. q.rental \in Rental
      BY DEF Idle
    <2> HIDE DEF q
    <2> QED  BY <2>1, <2>2, <2>3, BeginTyped
  <1>5. ASSUME NEW day \in Days, StartMove(r, day)
        PROVE  TypeOK' /\ RequestOK'
    <2> DEFINE row == [rental EXCEPT !.day = day]
               q == [Idle EXCEPT !.pc = "write", !.task = "move", !.rental = row]
    <2>0. row \in Rental
      BY <1>5 DEF TypeOK, Rental
    <2>2. Begins(r, q)
      BY <1>5 DEF StartMove
    <2>3. q.rental = row
      BY DEF Idle
    <2> HIDE DEF row
    <2>1. q \in Request
      BY <1>0, <2>0 DEF Idle, Request, Steps, Tasks
    <2> HIDE DEF q
    <2> QED  BY <2>0, <2>1, <2>2, <2>3, BeginTyped
  <1>6. ASSUME StartRemove(r)
        PROVE  TypeOK' /\ RequestOK'
    <2> DEFINE q == [Idle EXCEPT !.pc = "write", !.task = "remove"]
    <2>1. q \in Request
      BY <1>0 DEF Idle, Request, Steps, Tasks
    <2>2. Begins(r, q)
      BY <1>6 DEF StartRemove
    <2>3. q.task = "remove"
      BY DEF Idle
    <2> HIDE DEF q
    <2> QED  BY <2>1, <2>2, <2>3, BeginTyped
  <1> QED  BY <1>1, <1>2, <1>3, <1>4, <1>5, <1>6 DEF Start

\* So do those that go on with it.
LEMMA ContinueTyped ==
  ASSUME TypeOK, RequestOK, NEW r \in Requests, Continue(r)
  PROVE  TypeOK' /\ RequestOK'
  <1>0. /\ Idle \in Request /\ Idle.task \notin {"edit", "move"}
        /\ req[r] \in Request /\ Today \in 0..LastDay
    BY IdleIsARequest, TodayIsADay DEF Idle, TypeOK
  <1>1. ASSUME CheckAccess(r)
        PROVE  TypeOK' /\ RequestOK'
    <2> DEFINE q == [req[r] EXCEPT !.pc = "settings", !.rental = None]
    <2>1. q \in Request
      BY <1>0 DEF Request, Steps
    <2>2. q.task = "submit"
      BY <1>0, <1>1 DEF CheckAccess, At, Request
    <2>3. Reads(r, q) \/ Reads(r, Idle)
      BY <1>1 DEF CheckAccess
    <2> HIDE DEF q
    <2> QED  BY <1>0, <2>1, <2>2, <2>3, ReadTyped DEF Reads, TypeOK
  <1>2. ASSUME ReadQuestions(r)
        PROVE  TypeOK' /\ RequestOK'
    <2> DEFINE kept == req[r].answers \cap Asked(req[r].kind)
               q == [req[r] EXCEPT !.pc = "write", !.answers = kept]
    <2>0. kept \in SUBSET Questions
      BY <1>0 DEF Request
    <2>3. Reads(r, q) \/ Reads(r, Idle)
      BY <1>2 DEF ReadQuestions
    <2> HIDE DEF kept
    <2>1. q \in Request
      BY <1>0, <2>0 DEF Request, Steps
    <2>2. q.task \in {"submit", "update"}
      BY <1>0, <1>2 DEF ReadQuestions, Request
    <2> HIDE DEF q
    <2> QED  BY <1>0, <2>1, <2>2, <2>3, ReadTyped DEF Reads, TypeOK
  <1>3. ASSUME Reads(r, Idle)
        PROVE  TypeOK' /\ RequestOK'
    BY <1>0, <1>3, ReadTyped DEF Reads, TypeOK
  <1>4. ASSUME NEW kind \in Kinds, NEW row \in Submission, Writes(r, kind, row)
        PROVE  TypeOK' /\ RequestOK'
    <2>1. req' \in [Requests -> Request] /\ RequestOK'
      BY <1>0, <1>4, RequestTyped DEF Writes
    <2>2. submission' \in [Kinds -> Submission \cup {None}]
      BY <1>4 DEF Writes, TypeOK
    <2> QED  BY <1>4, <2>1, <2>2 DEF Writes, TypeOK
  <1>5. ASSUME CreateSubmission(r)
        PROVE  TypeOK' /\ RequestOK'
    <2> DEFINE row == [day |-> Today, answers |-> req[r].answers]
    <2>1. row \in Submission /\ req[r].kind \in Kinds
      BY <1>0 DEF Submission, Request
    <2>2. Reads(r, Idle) \/ Writes(r, req[r].kind, row)
      BY <1>5 DEF CreateSubmission
    <2> HIDE DEF row
    <2> QED  BY <1>3, <1>4, <2>1, <2>2
  <1>6. ASSUME ReplaceAnswers(r)
        PROVE  TypeOK' /\ RequestOK'
    <2> DEFINE row == [submission[req[r].kind] EXCEPT !.answers = req[r].answers]
    <2>1. req[r].kind \in Kinds /\ req[r].answers \in SUBSET Questions
      BY <1>0 DEF Request
    <2>2. Reads(r, Idle) \/ (Done(req[r].kind) /\ Writes(r, req[r].kind, row))
      BY <1>6 DEF ReplaceAnswers
    <2>3. Done(req[r].kind) => row \in Submission
      BY <2>1 DEF Done, TypeOK, Submission
    <2> HIDE DEF row
    <2> QED  BY <1>3, <1>4, <2>1, <2>2, <2>3
  <1>7. ASSUME WriteForm(r)
        PROVE  TypeOK' /\ RequestOK'
    <2>1. req' \in [Requests -> Request] /\ RequestOK'
      BY <1>0, <1>7, RequestTyped DEF WriteForm
    <2>2. req[r].edit \in Edit
      BY <1>0 DEF Request
    <2>3. form' \in [Questions -> Question]
      BY <1>7, <2>2 DEF WriteForm, Synced, Withdrawn, TypeOK, Question, Demands, Edit
    <2> QED  BY <1>7, <2>1, <2>3 DEF WriteForm, TypeOK
  <1>8. ASSUME WriteRental(r)
        PROVE  TypeOK' /\ RequestOK'
    <2>1. req' \in [Requests -> Request] /\ RequestOK'
      BY <1>0, <1>8, RequestTyped DEF WriteRental
    <2>2. rental' \in Rental
      BY <1>8 DEF WriteRental, At, RequestOK, TypeOK
    <2> QED  BY <1>8, <2>1, <2>2 DEF WriteRental, TypeOK
  <1>9. ASSUME WriteMove(r)
        PROVE  TypeOK' /\ RequestOK'
    <2>1. req' \in [Requests -> Request] /\ RequestOK'
      BY <1>0, <1>9, RequestTyped DEF WriteMove
    <2>2. req[r].rental.day \in Days
      BY <1>9 DEF WriteMove, At, RequestOK, Rental
    <2>3. rental' \in Rental
      BY <1>9, <2>2 DEF WriteMove, TypeOK, Rental
    <2> QED  BY <1>9, <2>1, <2>3 DEF WriteMove, TypeOK
  <1>10. ASSUME Remove(r)
         PROVE  TypeOK' /\ RequestOK'
    <2>1. req' \in [Requests -> Request] /\ RequestOK'
      BY <1>0, <1>10, RequestTyped DEF Remove
    <2>2. rental' \in Rental /\ submission' \in [Kinds -> Submission \cup {None}]
      BY <1>10 DEF Remove, TypeOK, Rental
    <2> QED  BY <1>10, <2>1, <2>2 DEF Remove, TypeOK
  <1> QED  BY <1>1, <1>2, <1>5, <1>6, <1>7, <1>8, <1>9, <1>10 DEF Continue

\* So does every step.
LEMMA StepTyped == TypeOK /\ RequestOK /\ [Next]_vars => TypeOK' /\ RequestOK'
  <1> SUFFICES ASSUME TypeOK, RequestOK, [Next]_vars PROVE TypeOK' /\ RequestOK'
    OBVIOUS
  <1>1. CASE ToggleShared
    BY <1>1 DEF ToggleShared, Happens, TypeOK, RequestOK
  <1>2. CASE SettlePayment
    <2>1. rental' \in Rental /\ overlapped' \in BOOLEAN
      BY <1>2 DEF SettlePayment, Happens, TypeOK, Rental, Payments
    <2> QED  BY <1>2, <2>1 DEF SettlePayment, TypeOK, RequestOK
  <1>3. CASE Tick
    <2>1. now' \in 0..(2 * LastDay + 1) /\ overlapped' \in BOOLEAN
      BY <1>3, CheckFlowAssumption DEF Tick, Happens, TypeOK
    <2> QED  BY <1>3, <2>1 DEF Tick, TypeOK, RequestOK
  <1>4. CASE UNCHANGED vars
    BY <1>4 DEF vars, TypeOK, RequestOK
  <1> QED  BY <1>1, <1>2, <1>3, <1>4, StartTyped, ContinueTyped DEF Next

\* The variables keep their types, for any number of requests at a time.
THEOREM TypeCorrect == Spec => []TypeOK
  <1>1. Spec => [](TypeOK /\ RequestOK)
    BY InitTyped, StepTyped, PTL DEF Spec
  <1> QED  BY <1>1, PTL

-----------------------------------------------------------------------------
(* What holds under any interleaving.                                      *)

\* Only three writes touch a submission.
LEMMA SubmissionWrites ==
  ASSUME [Next]_vars
  PROVE  \/ submission' = submission
         \/ \E r \in Requests : CreateSubmission(r) \/ ReplaceAnswers(r) \/ Remove(r)
  <1>1. \A r \in Requests : Start(r) => submission' = submission
    BY DEF Start, StartSubmit, StartUpdate, StartSync, StartEdit, StartMove, StartRemove, Begins
  <1>2. \A r \in Requests : CheckAccess(r) => submission' = submission
    BY DEF CheckAccess, Reads
  <1>3. \A r \in Requests : ReadQuestions(r) => submission' = submission
    BY DEF ReadQuestions, Reads
  <1>4. \A r \in Requests : WriteForm(r) \/ WriteRental(r) \/ WriteMove(r) => submission' = submission
    BY DEF WriteForm, WriteRental, WriteMove
  <1>5. ToggleShared \/ SettlePayment \/ Tick \/ UNCHANGED vars => submission' = submission
    BY DEF ToggleShared, SettlePayment, Tick, vars
  <1> QED  BY <1>1, <1>2, <1>3, <1>4, <1>5 DEF Next, Continue

\* And one the questions.
LEMMA FormWrites ==
  ASSUME [Next]_vars
  PROVE  form' = form \/ \E r \in Requests : WriteForm(r)
  <1>1. \A r \in Requests : Start(r) => form' = form
    BY DEF Start, StartSubmit, StartUpdate, StartSync, StartEdit, StartMove, StartRemove, Begins
  <1>2. \A r \in Requests : CheckAccess(r) => form' = form
    BY DEF CheckAccess, Reads
  <1>3. \A r \in Requests : ReadQuestions(r) => form' = form
    BY DEF ReadQuestions, Reads
  <1>4. \A r \in Requests : CreateSubmission(r) \/ ReplaceAnswers(r) => form' = form
    BY DEF CreateSubmission, ReplaceAnswers, Reads, Writes
  <1>5. \A r \in Requests : WriteRental(r) \/ WriteMove(r) \/ Remove(r) => form' = form
    BY DEF WriteRental, WriteMove, Remove
  <1>6. ToggleShared \/ SettlePayment \/ Tick \/ UNCHANGED vars => form' = form
    BY DEF ToggleShared, SettlePayment, Tick, vars
  <1> QED  BY <1>1, <1>2, <1>3, <1>4, <1>5, <1>6 DEF Next, Continue

\* A submission that is written is one: the database took it.
LEMMA WrittenSubmission ==
  ASSUME TypeOK, NEW r \in Requests, CreateSubmission(r) \/ ReplaceAnswers(r),
         submission' # submission
  PROVE  /\ Refers(req[r].answers)
         /\ form' = form /\ rental' = rental /\ overlapped' = overlapped
         /\ \A kind \in Kinds : kind # req[r].kind => submission'[kind] = submission[kind]
         /\ submission'[req[r].kind] \in Submission
         /\ submission'[req[r].kind].answers = req[r].answers
         /\ CreateSubmission(r) => ~Done(req[r].kind)
         /\ ReplaceAnswers(r) =>
               Done(req[r].kind) /\ submission'[req[r].kind].day = submission[req[r].kind].day
  <1>0. req[r].kind \in Kinds /\ req[r].answers \in SUBSET Questions /\ Today \in 0..LastDay
    BY TodayIsADay DEF TypeOK, Request
  <1>1. CASE CreateSubmission(r)
    <2>0. ~ReplaceAnswers(r)
      BY <1>1 DEF CreateSubmission, ReplaceAnswers, At
    <2> DEFINE row == [day |-> Today, answers |-> req[r].answers]
    <2>1. row \in Submission /\ row.answers = req[r].answers
      BY <1>0 DEF Submission
    <2>2. /\ Writes(r, req[r].kind, row)
          /\ ~Done(req[r].kind) /\ Refers(req[r].answers)
      BY <1>1 DEF CreateSubmission, Unique, Reads
    <2> HIDE DEF row
    <2> QED  BY <1>0, <2>0, <2>1, <2>2 DEF Writes, TypeOK
  <1>2. CASE ReplaceAnswers(r)
    <2>0. ~CreateSubmission(r)
      BY <1>2 DEF CreateSubmission, ReplaceAnswers, At
    <2> DEFINE row == [submission[req[r].kind] EXCEPT !.answers = req[r].answers]
    <2>2. /\ Writes(r, req[r].kind, row)
          /\ Done(req[r].kind) /\ Refers(req[r].answers)
      BY <1>2 DEF ReplaceAnswers, Reads
    <2>1. /\ row \in Submission /\ row.answers = req[r].answers
          /\ row.day = submission[req[r].kind].day
      BY <1>0, <2>2 DEF Done, Submission, TypeOK
    <2> HIDE DEF row
    <2> QED  BY <1>0, <2>0, <2>1, <2>2 DEF Writes, TypeOK
  <1> QED  BY <1>1, <1>2

\* No submission is not a submission.
LEMMA NoneIsNoSubmission == None \notin Submission
  BY CheckFlowAssumption DEF Submission, Questions

\* There is no answer at the start.
LEMMA InitAnswers == Init => AnswersHaveQuestions
  BY DEF Init, AnswersHaveQuestions, Done

\* The foreign key lets no answer in without its question, and an edit of the
\* form only disables a question that has answers.
LEMMA StepAnswers ==
  TypeOK /\ RequestOK /\ AnswersHaveQuestions /\ [Next]_vars => AnswersHaveQuestions'
  <1> SUFFICES ASSUME TypeOK, AnswersHaveQuestions, [Next]_vars,
                      NEW kind \in Kinds, Done(kind)', NEW q \in submission'[kind].answers
               PROVE  Exists(q)'
    BY DEF AnswersHaveQuestions
  <1>1. CASE submission' = submission
    <2>1. Done(kind) /\ q \in submission[kind].answers /\ Exists(q)
      BY <1>1 DEF AnswersHaveQuestions, Done
    <2>2. CASE form' = form
      BY <2>1, <2>2 DEF Exists
    <2>3. CASE \E r \in Requests : WriteForm(r)
      <3>1. PICK r \in Requests : WriteForm(r)
        BY <2>3
      <3>2. Answered(q) /\ q \in Questions
        BY <2>1 DEF Answered, Done, TypeOK, Submission
      <3>3. form'[q] = Synced(req[r].kind, req[r].edit)[q]
        BY <3>1 DEF WriteForm
      <3>4. form'[q] = form[q] \/ form'[q] = "disabled"
            \/ (form'[q] = req[r].edit[q] /\ req[r].edit[q] # "absent")
        BY <3>2, <3>3 DEF Synced, Withdrawn
      <3>5. req[r].edit[q] \in Demands \cup {"absent"}
        BY <3>2 DEF TypeOK, Request, Edit
      <3> QED  BY <2>1, <3>4, <3>5 DEF Exists, Demands
    <2> QED  BY <2>2, <2>3, FormWrites
  <1>2. CASE \E r \in Requests : CreateSubmission(r) \/ ReplaceAnswers(r)
    <2>1. PICK r \in Requests : CreateSubmission(r) \/ ReplaceAnswers(r)
      BY <1>2
    <2>2. CASE submission' # submission
      <3>1. /\ Refers(req[r].answers) /\ form' = form
            /\ kind # req[r].kind => submission'[kind] = submission[kind]
            /\ submission'[req[r].kind].answers = req[r].answers
        BY <2>1, <2>2, WrittenSubmission
      <3>2. CASE kind = req[r].kind
        BY <3>1, <3>2 DEF Refers, Exists
      <3>3. CASE kind # req[r].kind
        BY <3>1, <3>3 DEF AnswersHaveQuestions, Done, Exists
      <3> QED  BY <3>2, <3>3
    <2> QED  BY <1>1, <2>2
  <1>3. CASE \E r \in Requests : Remove(r)
    BY <1>3 DEF Remove, Done
  <1> QED  BY <1>1, <1>2, <1>3, SubmissionWrites

\* No edit of the form leaves an answer without its question, for any number of
\* desks and agents at a time.
THEOREM AnswersKeepQuestions == Spec => []AnswersHaveQuestions
  <1>1. Init => TypeOK /\ RequestOK /\ AnswersHaveQuestions
    BY InitTyped, InitAnswers
  <1>2. /\ TypeOK /\ RequestOK /\ AnswersHaveQuestions
        /\ [Next]_vars
        => TypeOK' /\ RequestOK' /\ AnswersHaveQuestions'
    BY StepTyped, StepAnswers
  <1> QED  BY <1>1, <1>2, PTL DEF Spec

\* For any number of agents at a time, the first submission of a kind stays
\* while the reservation does.
THEOREM FirstSubmissionStays == Spec => FirstStays
  <1>1. TypeOK /\ RequestOK /\ [Next]_vars =>
          [ \A kind \in Kinds : Done(kind) /\ rental'.exists =>
              submission'[kind] # None /\ submission'[kind].day = submission[kind].day ]_vars
    <2> SUFFICES ASSUME TypeOK, [Next]_vars, NEW kind \in Kinds, Done(kind), rental'.exists
                 PROVE  submission'[kind] # None /\ submission'[kind].day = submission[kind].day
      OBVIOUS
    <2>1. CASE submission' = submission
      BY <2>1 DEF Done
    <2>2. CASE \E r \in Requests : CreateSubmission(r) \/ ReplaceAnswers(r)
      <3>1. PICK r \in Requests : CreateSubmission(r) \/ ReplaceAnswers(r)
        BY <2>2
      <3>2. CASE submission' # submission
        BY <3>1, <3>2, WrittenSubmission, NoneIsNoSubmission DEF Done
      <3> QED  BY <2>1, <3>2
    <2>3. CASE \E r \in Requests : Remove(r)
      BY <2>3 DEF Remove, TypeOK, Rental
    <2> QED  BY <2>1, <2>2, <2>3, SubmissionWrites
  <1> QED  BY <1>1, InitTyped, StepTyped, PTL DEF Spec, FirstStays

-----------------------------------------------------------------------------
(* Requests that have come one at a time.                                  *)

\* An idle request has nothing to know.
LEMMA IdleKnows ==
  ASSUME NEW r \in Requests, req'[r].pc = "idle"  PROVE Knows(r)'
  BY DEF Knows, At

\* A request starts alone, or something has overlapped.
LEMMA StartsAlone ==
  ASSUME TypeOK, NEW r \in Requests, NEW q \in Request, Begins(r, q), ~overlapped' => Knows(r)'
  PROVE  Single' /\ AloneKnows'
  <1>1. \A x \in Requests : x # r => req'[x] = req[x]
    BY DEF Begins, Becomes, TypeOK
  <1>2. ~overlapped' => \A x \in Requests : req[x].pc = "idle"
    BY DEF Begins, Happens
  <1>3. ~overlapped' => \A x \in Requests : x # r => req'[x].pc = "idle"
    BY <1>1, <1>2
  <1> QED  BY <1>3, IdleKnows DEF Single, AloneKnows

\* And continues alone.
LEMMA ContinuesAlone ==
  ASSUME TypeOK, Single, NEW r \in Requests, req[r].pc # "idle", NEW q \in Request,
         Becomes(r, q), overlapped' = overlapped, ~overlapped => Knows(r)'
  PROVE  Single' /\ AloneKnows'
  <1>1. \A x \in Requests : x # r => req'[x] = req[x]
    BY DEF Becomes, TypeOK
  <1>2. ~overlapped => \A x \in Requests : x # r => req'[x].pc = "idle"
    BY <1>1 DEF Single
  <1> QED  BY <1>2, IdleKnows DEF Single, AloneKnows

\* What happens outside the requests happens while none runs, or overlaps.
LEMMA OutsideAlone ==
  ASSUME req' = req, Happens
  PROVE  Single' /\ AloneKnows'
  <1>1. ~overlapped' => \A x \in Requests : req'[x].pc = "idle"
    BY DEF Happens
  <1> QED  BY <1>1, IdleKnows DEF Single, AloneKnows

\* A request that begins is alone and has read nothing yet, or overlaps.
LEMMA StartSerial ==
  ASSUME TypeOK, NEW r \in Requests, Start(r)
  PROVE  Single' /\ AloneKnows'
  <1>0. Idle \in Request /\ NoEdit \in Edit /\ r \in DOMAIN req
    BY IdleIsARequest DEF NoEdit, Edit, TypeOK
  <1>1. ASSUME NEW kind \in Kinds, NEW answers \in SUBSET Answerable, StartSubmit(r, kind, answers)
        PROVE  Single' /\ AloneKnows'
    <2> DEFINE q == [Idle EXCEPT !.pc = "access", !.task = "submit", !.kind = kind,
                                 !.answers = answers, !.rental = rental]
    <2>1. q \in Request
      BY <1>0 DEF Idle, Request, Steps, Tasks, TypeOK, Answerable, Kinds
    <2>2. Begins(r, q)
      BY <1>1 DEF StartSubmit
    <2>3. q.pc = "access" /\ q.task = "submit" /\ q.rental = rental
      BY DEF Idle
    <2> HIDE DEF q
    <2>4. req'[r] = q /\ rental' = rental
      BY <1>0, <2>2 DEF Begins, Becomes
    <2>5. Knows(r)'
      BY <2>3, <2>4 DEF Knows, At
    <2> QED  BY <2>1, <2>2, <2>5, StartsAlone
  <1>2. ASSUME NEW kind \in Kinds, NEW answers \in SUBSET Answerable, StartUpdate(r, kind, answers)
        PROVE  Single' /\ AloneKnows'
    <2> DEFINE q == [Idle EXCEPT !.pc = "settings", !.task = "update", !.kind = kind,
                                 !.answers = answers]
    <2>1. q \in Request
      BY <1>0 DEF Idle, Request, Steps, Tasks, TypeOK, Answerable, Kinds
    <2>2. Begins(r, q) /\ MayCorrect(kind)
      BY <1>2 DEF StartUpdate
    <2>3. q.pc = "settings" /\ q.task = "update" /\ q.kind = kind
      BY DEF Idle
    <2> HIDE DEF q
    <2>4. req'[r] = q /\ MayCorrect(kind)'
      BY <1>0, <2>2 DEF Begins, Becomes, MayCorrect, Done, Today
    <2>5. Knows(r)'
      BY <2>3, <2>4 DEF Knows, At
    <2> QED  BY <2>1, <2>2, <2>5, StartsAlone
  <1>3. ASSUME NEW kind \in Kinds, NEW edit \in Edit, StartSync(r, kind, edit)
        PROVE  Single' /\ AloneKnows'
    <2> DEFINE q == [Idle EXCEPT !.pc = "write", !.task = "sync", !.kind = kind, !.edit = edit]
    <2>1. q \in Request
      BY <1>0 DEF Idle, Request, Steps, Tasks, Kinds
    <2>2. Begins(r, q)
      BY <1>3 DEF StartSync
    <2>3. q.pc = "write" /\ q.task = "sync"
      BY DEF Idle
    <2> HIDE DEF q
    <2>4. req'[r] = q
      BY <1>0, <2>2 DEF Begins, Becomes
    <2>5. Knows(r)'
      BY <2>3, <2>4 DEF Knows, At
    <2> QED  BY <2>1, <2>2, <2>5, StartsAlone
  <1>4. ASSUME NEW row \in Rental, StartEdit(r, row)
        PROVE  Single' /\ AloneKnows'
    <2> DEFINE q == [Idle EXCEPT !.pc = "write", !.task = "edit", !.rental = row]
    <2>1. q \in Request
      BY <1>0 DEF Idle, Request, Steps, Tasks, Kinds
    <2>2. Begins(r, q) /\ ~Locked
      BY <1>4 DEF StartEdit, MayEdit
    <2>3. q.pc = "write" /\ q.task = "edit"
      BY DEF Idle
    <2> HIDE DEF q
    <2>4. req'[r] = q /\ ~Locked'
      BY <1>0, <2>2 DEF Begins, Becomes, Locked, PastEnd, Done
    <2>5. Knows(r)'
      BY <2>3, <2>4 DEF Knows, At
    <2> QED  BY <2>1, <2>2, <2>5, StartsAlone
  <1>5. ASSUME NEW day \in Days, StartMove(r, day)
        PROVE  Single' /\ AloneKnows'
    <2> DEFINE row == [rental EXCEPT !.day = day]
               q == [Idle EXCEPT !.pc = "write", !.task = "move", !.rental = row]
    <2>0. row \in Rental
      BY <1>5 DEF TypeOK, Rental
    <2>2. Begins(r, q)
      BY <1>5 DEF StartMove
    <2> HIDE DEF row
    <2>1. q \in Request
      BY <1>0, <2>0 DEF Idle, Request, Steps, Tasks, Kinds
    <2>3. q.pc = "write" /\ q.task = "move"
      BY DEF Idle
    <2> HIDE DEF q
    <2>4. req'[r] = q
      BY <1>0, <2>2 DEF Begins, Becomes
    <2>5. Knows(r)'
      BY <2>3, <2>4 DEF Knows, At
    <2> QED  BY <2>1, <2>2, <2>5, StartsAlone
  <1>6. ASSUME StartRemove(r)
        PROVE  Single' /\ AloneKnows'
    <2> DEFINE q == [Idle EXCEPT !.pc = "write", !.task = "remove"]
    <2>1. q \in Request
      BY <1>0 DEF Idle, Request, Steps, Tasks, Kinds
    <2>2. Begins(r, q) /\ ~Locked
      BY <1>6 DEF StartRemove, MayEdit
    <2>3. q.pc = "write" /\ q.task = "remove"
      BY DEF Idle
    <2> HIDE DEF q
    <2>4. req'[r] = q /\ ~Locked'
      BY <1>0, <2>2 DEF Begins, Becomes, Locked, PastEnd, Done
    <2>5. Knows(r)'
      BY <2>3, <2>4 DEF Knows, At
    <2> QED  BY <2>1, <2>2, <2>5, StartsAlone
  <1> QED  BY <1>1, <1>2, <1>3, <1>4, <1>5, <1>6 DEF Start

\* A request that goes on alone still knows the rows.
LEMMA ContinueSerial ==
  ASSUME TypeOK, Single, AloneKnows, NEW r \in Requests, Continue(r)
  PROVE  Single' /\ AloneKnows'
  <1>0. /\ Idle \in Request /\ Idle.pc = "idle"
        /\ req[r] \in Request /\ r \in DOMAIN req
    BY IdleIsARequest DEF Idle, TypeOK
  <1>1. ASSUME req[r].pc # "idle", Becomes(r, Idle), overlapped' = overlapped
        PROVE  Single' /\ AloneKnows'
    <2>1. req'[r].pc = "idle"
      BY <1>0, <1>1 DEF Becomes
    <2>2. Knows(r)'
      BY <2>1, IdleKnows
    <2> QED  BY <1>0, <1>1, <2>2, ContinuesAlone
  <1>2. ASSUME CheckAccess(r)
        PROVE  Single' /\ AloneKnows'
    <2> DEFINE row == req[r].rental
               q == [req[r] EXCEPT !.pc = "settings", !.rental = None]
    <2>0. At(r, "access", "submit")
      BY <1>2 DEF CheckAccess
    <2>1. q \in Request
      BY <1>0 DEF Request, Steps
    <2>2. \/ Reads(r, q) /\ ~Expired(row.day) /\ Eligible(row.payment)
          \/ Reads(r, Idle)
      BY <1>2 DEF CheckAccess
    <2>3. q.pc = "settings" /\ q.task = "submit"
      BY <1>0, <2>0 DEF At, Request
    <2> HIDE DEF q
    <2>4. CASE Reads(r, q) /\ ~Expired(row.day) /\ Eligible(row.payment)
      <3>1. /\ req'[r] = q /\ rental' = rental /\ now' = now
            /\ overlapped' = overlapped /\ Becomes(r, q)
        BY <1>0, <2>4 DEF Reads, Becomes
      <3>2. ~overlapped => row = rental
        BY <2>0 DEF AloneKnows, Knows
      <3>3. ~overlapped => InTime'
        BY <2>4, <3>1, <3>2 DEF InTime, Expired, Eligible, Today
      <3>4. ~overlapped => Knows(r)'
        BY <2>3, <3>1, <3>3 DEF Knows, At
      <3> QED  BY <2>0, <2>1, <3>1, <3>4, ContinuesAlone DEF At
    <2>5. CASE Reads(r, Idle)
      BY <1>1, <2>0, <2>5 DEF Reads, At
    <2> QED  BY <2>2, <2>4, <2>5
  <1>3. ASSUME ReadQuestions(r)
        PROVE  Single' /\ AloneKnows'
    <2> DEFINE kept == req[r].answers \cap Asked(req[r].kind)
               q == [req[r] EXCEPT !.pc = "write", !.answers = kept]
    <2>0. req[r].pc = "settings" /\ req[r].task \in {"submit", "update"}
      BY <1>3 DEF ReadQuestions
    <2>1. \/ Reads(r, q) /\ AnswersAll(req[r].kind, req[r].answers)
          \/ Reads(r, Idle)
      BY <1>3 DEF ReadQuestions
    <2>2. kept \in SUBSET Questions
      BY <1>0 DEF Request
    <2>3. AnswersAll(req[r].kind, req[r].answers) => AnswersAll(req[r].kind, kept)
      BY DEF AnswersAll
    <2> HIDE DEF kept
    <2>4. /\ q \in Request /\ q.pc = "write" /\ q.task = req[r].task
          /\ q.kind = req[r].kind /\ q.answers = kept
      BY <1>0, <2>2 DEF Request, Steps
    <2> HIDE DEF q
    <2>5. CASE Reads(r, q) /\ AnswersAll(req[r].kind, req[r].answers)
      <3>1. /\ req'[r] = q /\ overlapped' = overlapped /\ Becomes(r, q)
            /\ UNCHANGED <<now, rental, shared, form, submission>>
        BY <1>0, <2>5 DEF Reads, Becomes
      <3>2. AnswersAll(req[r].kind, req[r].answers)'
        BY <2>3, <2>4, <2>5, <3>1 DEF AnswersAll, Asked, FormOf, Enabled
      <3>3. ~overlapped /\ req[r].task = "submit" => InTime'
        BY <2>0, <3>1 DEF AloneKnows, Knows, At, InTime, Expired, Eligible, Today
      <3>4. ~overlapped /\ req[r].task = "update" => MayCorrect(req[r].kind)'
        BY <2>0, <2>4, <3>1 DEF AloneKnows, Knows, At, MayCorrect, Done, Today
      <3>5. ~overlapped => Knows(r)'
        BY <2>0, <2>4, <3>1, <3>2, <3>3, <3>4 DEF Knows, At
      <3> QED  BY <2>0, <2>4, <3>1, <3>5, ContinuesAlone
    <2>6. CASE Reads(r, Idle)
      BY <1>1, <2>0, <2>6 DEF Reads
    <2> QED  BY <2>1, <2>5, <2>6
  <1>4. ASSUME CreateSubmission(r) \/ ReplaceAnswers(r)
        PROVE  Single' /\ AloneKnows'
    BY <1>1, <1>4 DEF CreateSubmission, ReplaceAnswers, Reads, Writes, At
  <1>5. ASSUME WriteForm(r) \/ WriteRental(r) \/ WriteMove(r)
        PROVE  Single' /\ AloneKnows'
    BY <1>1, <1>5 DEF WriteForm, WriteRental, WriteMove, At
  <1>6. ASSUME Remove(r)
        PROVE  Single' /\ AloneKnows'
    BY <1>1, <1>6 DEF Remove, At
  <1> QED  BY <1>2, <1>3, <1>4, <1>5, <1>6 DEF Continue

\* So it is after every step.
LEMMA StepSerial == TypeOK /\ Single /\ AloneKnows /\ [Next]_vars => Single' /\ AloneKnows'
  <1> SUFFICES ASSUME TypeOK, Single, AloneKnows, [Next]_vars PROVE Single' /\ AloneKnows'
    OBVIOUS
  <1>1. CASE ToggleShared \/ SettlePayment \/ Tick
    BY <1>1, OutsideAlone DEF ToggleShared, SettlePayment, Tick
  <1>2. CASE UNCHANGED vars
    <2>1. Single'
      BY <1>2 DEF vars, Single
    <2>2. \A r \in Requests : Knows(r) => Knows(r)'
      BY <1>2 DEF vars, Knows, At, InTime, Eligible, Expired, Today, MayCorrect, Done,
                 AnswersAll, Asked, FormOf, Enabled, Locked, PastEnd
    <2> QED  BY <1>2, <2>1, <2>2 DEF AloneKnows, vars
  <1> QED  BY <1>1, <1>2, StartSerial, ContinueSerial DEF Next

\* No request runs at the start.
LEMMA InitSerial == Init => Single /\ AloneKnows
  BY DEF Init, Single, AloneKnows, Knows, At, Idle

\* All three together are the inductive invariant.
THEOREM Invariance == Spec => []IInv
  <1>1. Init => IInv
    BY InitTyped, InitAnswers, InitSerial DEF IInv
  <1>2. IInv /\ [Next]_vars => IInv'
    BY StepTyped, StepAnswers, StepSerial DEF IInv
  <1> QED  BY <1>1, <1>2, PTL DEF Spec

\* While one request runs at a time, what is recorded answers all that is
\* required.
THEOREM RecordedIsComplete == Spec => SubmissionIsComplete
  <1>1. IInv /\ [Next]_vars =>
          [ ~overlapped' => \A kind \in Kinds :
              submission'[kind] \notin {None, submission[kind]} =>
                \A q \in Asked(kind) : form[q] = "required" => q \in submission'[kind].answers ]_vars
    <2> SUFFICES ASSUME IInv, [Next]_vars, ~overlapped', NEW kind \in Kinds,
                        submission'[kind] \notin {None, submission[kind]}
                 PROVE  AnswersAll(kind, submission'[kind].answers)
      BY DEF AnswersAll
    <2>1. PICK r \in Requests : CreateSubmission(r) \/ ReplaceAnswers(r) \/ Remove(r)
      BY SubmissionWrites
    <2>2. ~Remove(r) /\ submission' # submission
      BY DEF Remove
    <2>3. /\ overlapped' = overlapped /\ kind = req[r].kind
          /\ submission'[kind].answers = req[r].answers
      BY <2>1, <2>2, WrittenSubmission DEF IInv
    <2>4. Knows(r)
      BY <2>3 DEF IInv, AloneKnows
    <2>5. AnswersAll(req[r].kind, req[r].answers)
      BY <2>1, <2>2, <2>4 DEF Knows, CreateSubmission, ReplaceAnswers
    <2> QED  BY <2>3, <2>5
  <1> QED  BY <1>1, Invariance, PTL DEF Spec, SubmissionIsComplete

\* While one request runs at a time, a rental is checked in and out only while
\* it is paid and before the grace days are over.
THEOREM RecordedInTime == Spec => OnlyPaidInTime
  <1>1. IInv /\ [Next]_vars =>
          [ ~overlapped' => \A kind \in Kinds :
              ~Done(kind) /\ submission'[kind] # None =>
                rental.payment = "paid" /\ Today <= rental.day + GraceDays ]_vars
    <2> SUFFICES ASSUME IInv, [Next]_vars, ~overlapped', NEW kind \in Kinds,
                        ~Done(kind), submission'[kind] # None
                 PROVE  rental.payment = "paid" /\ Today <= rental.day + GraceDays
      OBVIOUS
    <2>0. submission' # submission
      BY DEF Done
    <2>1. PICK r \in Requests : CreateSubmission(r) \/ ReplaceAnswers(r) \/ Remove(r)
      BY <2>0, SubmissionWrites
    <2>2. ~Remove(r)
      BY DEF Remove
    <2>3. overlapped' = overlapped /\ kind = req[r].kind /\ ~ReplaceAnswers(r)
      BY <2>0, <2>1, <2>2, WrittenSubmission DEF IInv, Done
    <2>4. Knows(r) /\ At(r, "write", "submit")
      BY <2>1, <2>2, <2>3 DEF IInv, AloneKnows, CreateSubmission
    <2>5. rental.payment = "paid" /\ ~(Today > rental.day + GraceDays)
      BY <2>4 DEF Knows, InTime, Eligible, Expired
    <2>6. Today \in Int /\ rental.day + GraceDays \in Int
      BY TodayIsADay, CheckFlowAssumption DEF IInv, TypeOK, Rental
    <2> QED  BY <2>5, <2>6
  <1> QED  BY <1>1, Invariance, PTL DEF Spec, OnlyPaidInTime

\* updateSubmission asks for the day before it reads the questions: while one request
\* runs at a time, what it writes after that is still corrected on the day it was recorded.
THEOREM CorrectedInTime == Spec => CorrectedTheSameDay
  <1>1. IInv /\ [Next]_vars =>
          [ ~overlapped' => \A kind \in Kinds :
              Done(kind) /\ submission'[kind] \notin {None, submission[kind]} =>
                submission[kind].day = Today ]_vars
    <2> SUFFICES ASSUME IInv, [Next]_vars, ~overlapped', NEW kind \in Kinds,
                        Done(kind), submission'[kind] \notin {None, submission[kind]}
                 PROVE  submission[kind].day = Today
      OBVIOUS
    <2>0. submission' # submission
      OBVIOUS
    <2>1. PICK r \in Requests : CreateSubmission(r) \/ ReplaceAnswers(r) \/ Remove(r)
      BY <2>0, SubmissionWrites
    <2>2. ~Remove(r)
      BY DEF Remove
    <2>3. overlapped' = overlapped /\ kind = req[r].kind /\ ~CreateSubmission(r)
      BY <2>0, <2>1, <2>2, WrittenSubmission DEF IInv
    <2>4. Knows(r) /\ At(r, "write", "update")
      BY <2>1, <2>2, <2>3 DEF IInv, AloneKnows, ReplaceAnswers
    <2> QED  BY <2>3, <2>4 DEF Knows, MayCorrect
  <1> QED  BY <1>1, Invariance, PTL DEF Spec, CorrectedTheSameDay

\* While one request runs at a time, only a move opens a closed rental again.
THEOREM ClosedRentalStaysClosed == Spec => ClosedStaysClosed
  <1>1. IInv /\ [Next]_vars =>
          [ ~overlapped' /\ Locked /\ (\A r \in Requests : ~At(r, "write", "move")) => Locked' ]_vars
    <2> SUFFICES ASSUME IInv, Next, ~overlapped', Locked,
                        \A r \in Requests : ~At(r, "write", "move")
                 PROVE  Locked'
      BY DEF vars, Locked, PastEnd, Done
    <2>1. /\ rental.payment \in {"paid", "over"} /\ now > 2 * rental.day
          /\ \A kind \in Kinds : submission[kind] # None
          /\ rental \in Rental
      BY DEF Locked, PastEnd, Done, IInv, TypeOK
    <2>11. now \in Nat
      BY DEF IInv, TypeOK
    <2>12. rental.day \in Nat
      <3>1. rental.day \in Days
        BY <2>1 DEF Rental
      <3>2. rental.day \in 0..LastDay
        BY <3>1, CheckFlowAssumption, Zenon
      <3> QED  BY <3>2
    <2>2. ~overlapped => \A r \in Requests : ~At(r, "write", "edit") /\ ~At(r, "write", "remove")
      BY DEF IInv, AloneKnows, Knows
    <2>3. ASSUME UNCHANGED <<now, rental, submission>>  PROVE Locked'
      BY <2>1, <2>3 DEF Locked, PastEnd, Done
    <2>4. ASSUME NEW r \in Requests, Start(r)  PROVE Locked'
      BY <2>3, <2>4 DEF Start, StartSubmit, StartUpdate, StartSync, StartEdit, StartMove,
                        StartRemove, Begins
    <2>5. ASSUME NEW r \in Requests, CheckAccess(r) \/ ReadQuestions(r) \/ WriteForm(r)
          PROVE  Locked'
      <3>1. CASE CheckAccess(r)
        BY <2>3, <3>1 DEF CheckAccess, Reads
      <3>2. CASE ReadQuestions(r)
        BY <2>3, <3>2 DEF ReadQuestions, Reads
      <3>3. CASE WriteForm(r)
        BY <2>3, <3>3 DEF WriteForm
      <3> QED  BY <2>5, <3>1, <3>2, <3>3
    <2>6. ASSUME NEW r \in Requests, CreateSubmission(r) \/ ReplaceAnswers(r)
          PROVE  Locked'
      <3>1. now' = now /\ rental' = rental
        BY <2>6 DEF CreateSubmission, ReplaceAnswers, Reads, Writes
      <3>2. \A kind \in Kinds : submission'[kind] # None
        BY <2>1, <2>6, WrittenSubmission, NoneIsNoSubmission DEF IInv
      <3> QED  BY <2>1, <3>1, <3>2 DEF Locked, PastEnd, Done
    <2>7. ASSUME NEW r \in Requests, WriteRental(r) \/ WriteMove(r) \/ Remove(r)
          PROVE  Locked'
      BY <2>2, <2>7 DEF WriteRental, WriteMove, Remove
    <2>8. CASE SettlePayment
      <3>1. rental'.payment \in {"paid", "over"} /\ rental'.day = rental.day
        BY <2>1, <2>8 DEF SettlePayment, Rental
      <3> QED  BY <2>1, <2>8, <3>1 DEF SettlePayment, Locked, PastEnd, Done
    <2>9. CASE ToggleShared
      BY <2>3, <2>9 DEF ToggleShared
    <2>10. CASE Tick
      BY <2>1, <2>10, <2>11, <2>12 DEF Tick, Locked, PastEnd, Done
    <2> QED  BY <2>4, <2>5, <2>6, <2>7, <2>8, <2>9, <2>10 DEF Next, Continue
  <1> QED  BY <1>1, Invariance, PTL DEF Spec, ClosedStaysClosed
=============================================================================
