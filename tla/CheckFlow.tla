------------------------------- MODULE CheckFlow -------------------------------
(***************************************************************************)
(* The check-in and check-out forms of one reservation: the questions the  *)
(* desk edits, the submission the agent's tablet records and may correct   *)
(* the same day, and the lock the two submissions put, with the payment    *)
(* and the end of the rental, on every later edit.                         *)
(*                                                                         *)
(* Time is counted in half-days.  A rental begins and ends on one day      *)
(* (parseSlotFromInput), with its first half.  A question is what it       *)
(* demands, an answer is the question it is given to.  Each request writes *)
(* in one transaction, at its end: one that dies is one that never ends.   *)
(***************************************************************************)
EXTENDS Integers

CONSTANTS
    Requests,      \* the API requests that may run at the same time (bound)
    InQuestions,   \* the questions ever created for the check-in (bound)
    OutQuestions,  \* and for the check-out
    GraceDays,     \* CHECK_FLOW_SUBMIT_GRACE_DAYS
    Days,          \* the days a rental may be on
    LastDay,       \* the last day of the model (bound)
    None           \* no submission

ASSUME CheckFlowAssumption ==
    /\ InQuestions \cap OutQuestions = {}
    /\ GraceDays \in Nat
    /\ LastDay \in Nat
    /\ Days # {} /\ Days \subseteq 0..LastDay
    /\ None \notin [day : 0..LastDay, answers : SUBSET (InQuestions \cup OutQuestions)]

VARIABLES
    now,         \* the half-day
    rental,      \* the Reservation row
    shared,      \* checkOutUsesCheckInForm
    form,        \* the CheckFlowQuestion rows
    submission,  \* the CheckFlowSubmission row of each kind, with its answers
    req,         \* the running requests
    overlapped   \* something else has happened while a request was running

vars == <<now, rental, shared, form, submission, req, overlapped>>

-----------------------------------------------------------------------------
Kinds == {"CHECK_IN", "CHECK_OUT"}

Questions == InQuestions \cup OutQuestions

Of(kind) == IF kind = "CHECK_IN" THEN InQuestions ELSE OutQuestions

Demands == {"required", "optional", "disabled"}

\* A question before it is created, while it exists, after it is deleted.
Question == Demands \cup {"unborn", "deleted"}

\* Neither captured nor over; captured; cancelled or refunded afterwards.
Payments == {"pending", "paid", "over"}

Rental == [exists : BOOLEAN, day : Days, payment : Payments]

Submission == [day : 0..LastDay, answers : SUBSET Questions]

Tasks == {"none", "submit", "update", "sync", "edit", "move", "remove"}

Steps == {"idle", "access", "settings", "questions", "write"}

Edit == [Questions -> Demands \cup {"absent"}]

NoEdit == [q \in Questions |-> "absent"]

\* A request: the answers it carries, then those it keeps; the rental it read,
\* then the one it writes; the questions it writes.
Request == [pc      : Steps,
            task    : Tasks,
            kind    : Kinds,
            answers : SUBSET Questions,
            rental  : Rental \cup {None},
            edit    : Edit]

Idle == [pc |-> "idle", task |-> "none", kind |-> "CHECK_IN", answers |-> {},
         rental |-> None, edit |-> NoEdit]

Today == now \div 2

TypeOK ==
    /\ now \in 0..(2 * LastDay + 1)
    /\ rental \in Rental
    /\ shared \in BOOLEAN
    /\ form \in [Questions -> Question]
    /\ submission \in [Kinds -> Submission \cup {None}]
    /\ req \in [Requests -> Request]
    /\ overlapped \in BOOLEAN

-----------------------------------------------------------------------------
Init ==
    /\ now = 0
    /\ rental \in [exists : {TRUE}, day : Days, payment : {"pending"}]
    /\ shared \in BOOLEAN
    /\ form \in [Questions -> {"unborn", "required"}]
    /\ submission = [kind \in Kinds |-> None]
    /\ req = [r \in Requests |-> Idle]
    /\ overlapped = FALSE

At(r, pc, task) == req[r].pc = pc /\ req[r].task = task

Becomes(r, request) == req' = [req EXCEPT ![r] = request]

Happens == overlapped' = (overlapped \/ \E q \in Requests : req[q].pc # "idle")

Begins(r, request) ==
    /\ req[r].pc = "idle"
    /\ Becomes(r, request)
    /\ Happens
    /\ UNCHANGED <<now, rental, shared, form, submission>>

Reads(r, request) ==
    /\ Becomes(r, request)
    /\ UNCHANGED <<now, rental, shared, form, submission, overlapped>>

Done(kind) == submission[kind] # None

Exists(q) == form[q] \in Demands

Enabled(q) == form[q] \in {"required", "optional"}

-----------------------------------------------------------------------------
(* The tablet: submit and updateSubmission.                                *)

\* isReservationEligibleForCheckFlow.
Eligible(payment) == payment = "paid"

Expired(day) == Today > day + GraceDays

\* The page may have loaded its questions long before: the answers are to any
\* that have existed.
Answerable == {q \in Questions : form[q] # "unborn"}

\* The reservation is read before the submission of that kind.
StartSubmit(r, kind, answers) ==
    /\ rental.exists
    /\ Begins(r, [Idle EXCEPT !.pc = "access", !.task = "submit", !.kind = kind,
                              !.answers = answers, !.rental = rental])

\* computeTabletFlowAccess in mode "submit".
CheckAccess(r) ==
    /\ At(r, "access", "submit")
    /\ LET row == req[r].rental
       IN  Reads(r, IF ~Done(req[r].kind) /\ ~Expired(row.day) /\ Eligible(row.payment)
                    THEN [req[r] EXCEPT !.pc = "settings", !.rental = None]
                    ELSE Idle)

\* Mode "done_today"; the payment is not asked again.
MayCorrect(kind) == Done(kind) /\ submission[kind].day = Today

StartUpdate(r, kind, answers) ==
    /\ MayCorrect(kind)
    /\ Begins(r, [Idle EXCEPT !.pc = "settings", !.task = "update", !.kind = kind,
                              !.answers = answers])

\* resolveQuestionsKind: from here the request's kind of questions is settled by
\* what it carries.
FormOf(kind) == IF kind = "CHECK_OUT" /\ shared THEN "CHECK_IN" ELSE kind

Asked(kind) == {q \in Of(FormOf(kind)) : Enabled(q)}

MUTANT_AnswersAll(kind, answers) == TRUE

\* A required question without an answer is refused (buildProcessedAnswers).
AnswersAll(kind, answers) == \A q \in Asked(kind) : form[q] = "required" => q \in answers

\* The answers to the questions read are kept, the others left out.
ReadQuestions(r) ==
    /\ req[r].pc = "settings"
    /\ req[r].task \in {"submit", "update"}
    /\ LET kind == req[r].kind
           answers == req[r].answers
       IN  Reads(r, IF Asked(kind) # {} /\ AnswersAll(kind, answers)
                    THEN [req[r] EXCEPT !.pc = "write", !.answers = answers \cap Asked(kind)]
                    ELSE Idle)

MUTANT_Refers(answers) == TRUE

\* The foreign key of an answer.
Refers(answers) == \A q \in answers : Exists(q)

MUTANT_Unique(kind) == TRUE

\* The unique key of a submission.
Unique(kind) == ~Done(kind)

\* The submission is written with its answers, or the database refuses.
Writes(r, kind, row) ==
    /\ submission' = [submission EXCEPT ![kind] = row]
    /\ Becomes(r, Idle)
    /\ UNCHANGED <<now, rental, shared, form, overlapped>>

CreateSubmission(r) ==
    /\ At(r, "write", "submit")
    /\ LET kind == req[r].kind
           answers == req[r].answers
       IN  IF rental.exists /\ Unique(kind) /\ Refers(answers)
           THEN Writes(r, kind, [day |-> Today, answers |-> answers])
           ELSE Reads(r, Idle)

\* All answers are deleted and written anew, in one transaction.
ReplaceAnswers(r) ==
    /\ At(r, "write", "update")
    /\ LET kind == req[r].kind
           answers == req[r].answers
       IN  IF Done(kind) /\ Refers(answers)
           THEN Writes(r, kind, [submission[kind] EXCEPT !.answers = answers])
           ELSE Reads(r, Idle)

-----------------------------------------------------------------------------
(* The desk: syncQuestions and updateSettings.                             *)

\* A shared form is edited as the check-in's.  A question the page still has
\* and the database no more is created again: it stands for an unborn one.
StartSync(r, kind, edit) ==
    /\ ~(kind = "CHECK_OUT" /\ shared)
    /\ \A q \in Questions : edit[q] # "absent" => q \in Of(kind)
    /\ Begins(r, [Idle EXCEPT !.pc = "write", !.task = "sync", !.kind = kind, !.edit = edit])

Answered(q) == \E kind \in Kinds : Done(kind) /\ q \in submission[kind].answers

\* A question the form drops is disabled if it has answers, deleted otherwise.
Withdrawn(q) == IF Answered(q) THEN "disabled" ELSE "deleted"

Synced(kind, edit) ==
    [q \in Questions |->
        IF q \notin Of(kind) \/ form[q] = "deleted" THEN form[q]
        ELSE IF edit[q] # "absent" THEN edit[q]
        ELSE IF Exists(q) THEN Withdrawn(q)
        ELSE form[q]]

WriteForm(r) ==
    /\ At(r, "write", "sync")
    /\ form' = Synced(req[r].kind, req[r].edit)
    /\ Becomes(r, Idle)
    /\ UNCHANGED <<now, rental, shared, submission, overlapped>>

ToggleShared ==
    /\ shared' = ~shared
    /\ Happens
    /\ UNCHANGED <<now, rental, form, submission, req>>

-----------------------------------------------------------------------------
(* The desk: an edit, a move or the removal of the reservation.            *)

PastEnd == now > 2 * rental.day

\* isReservationLocked: a refund or a cancellation leaves a rental paid.
Locked ==
    /\ rental.payment \in {"paid", "over"}
    /\ PastEnd
    /\ \A kind \in Kinds : Done(kind)

MUTANT_MayEdit == rental.exists /\ ~(Locked /\ rental.payment = "paid")

\* assertReservationEditable.
MayEdit == rental.exists /\ ~Locked

\* The form gives the row its day and, unless it is already over, its payment.
StartEdit(r, row) ==
    /\ MayEdit
    /\ row.exists
    /\ (row.payment = "over") = (rental.payment = "over")
    /\ Begins(r, [Idle EXCEPT !.pc = "write", !.task = "edit", !.rental = row])

\* resolveAsMove asks for no lock; a cancelled rental can be moved too.
StartMove(r, day) ==
    /\ rental.exists
    /\ Begins(r, [Idle EXCEPT !.pc = "write", !.task = "move",
                              !.rental = [rental EXCEPT !.day = day]])

WriteRental(r) ==
    /\ At(r, "write", "edit")
    /\ rental' = IF rental.exists THEN req[r].rental ELSE rental
    /\ Becomes(r, Idle)
    /\ UNCHANGED <<now, shared, form, submission, overlapped>>

WriteMove(r) ==
    /\ At(r, "write", "move")
    /\ rental' = IF rental.exists THEN [rental EXCEPT !.day = req[r].rental.day] ELSE rental
    /\ Becomes(r, Idle)
    /\ UNCHANGED <<now, shared, form, submission, overlapped>>

StartRemove(r) ==
    /\ MayEdit
    /\ Begins(r, [Idle EXCEPT !.pc = "write", !.task = "remove"])

\* The submissions and their answers go with the reservation.
Remove(r) ==
    /\ At(r, "write", "remove")
    /\ rental' = [rental EXCEPT !.exists = FALSE]
    /\ submission' = [kind \in Kinds |-> None]
    /\ Becomes(r, Idle)
    /\ UNCHANGED <<now, shared, form, overlapped>>

-----------------------------------------------------------------------------
(* The outside.                                                            *)

\* A payment, a cancellation or refund, a restoration: none asks for the lock.
SettlePayment ==
    /\ rental.exists
    /\ rental' = [rental EXCEPT !.payment = IF rental.payment = "paid" THEN "over" ELSE "paid"]
    /\ Happens
    /\ UNCHANGED <<now, shared, form, submission, req>>

Tick ==
    /\ now < 2 * LastDay + 1
    /\ now' = now + 1
    /\ Happens
    /\ UNCHANGED <<rental, shared, form, submission, req>>

-----------------------------------------------------------------------------
Start(r) ==
    \/ \E kind \in Kinds, answers \in SUBSET Answerable :
          StartSubmit(r, kind, answers) \/ StartUpdate(r, kind, answers)
    \/ \E kind \in Kinds, edit \in Edit : StartSync(r, kind, edit)
    \/ \E row \in Rental : StartEdit(r, row)
    \/ \E day \in Days : StartMove(r, day)
    \/ StartRemove(r)

Continue(r) ==
    \/ CheckAccess(r)
    \/ ReadQuestions(r)
    \/ CreateSubmission(r)
    \/ ReplaceAnswers(r)
    \/ WriteForm(r)
    \/ WriteRental(r)
    \/ WriteMove(r)
    \/ Remove(r)

Next ==
    \/ \E r \in Requests : Start(r) \/ Continue(r)
    \/ ToggleShared
    \/ SettlePayment
    \/ Tick

Spec == Init /\ [][Next]_vars

-----------------------------------------------------------------------------
(* Properties that hold however the requests interleave.                   *)

\* No edit of the form leaves an answer without its question, though an agent
\* answers questions he read long before.
AnswersHaveQuestions ==
    \A kind \in Kinds : Done(kind) => \A q \in submission[kind].answers : Exists(q)

\* The first submission of a kind stays: none sent twice, or by two agents,
\* takes its place and its day, and its answers change under it only the day
\* somebody was allowed to correct them.
FirstStays ==
    [][ \A kind \in Kinds : Done(kind) /\ rental'.exists =>
          submission'[kind] # None /\ submission'[kind].day = submission[kind].day ]_vars

-----------------------------------------------------------------------------
(* Properties of requests that have come one at a time so far.             *)

\* A submission is recorded, or corrected, only with an answer to all that is
\* required at that time, whatever form the agent's page had loaded.
SubmissionIsComplete ==
    [][ ~overlapped' => \A kind \in Kinds :
          submission'[kind] \notin {None, submission[kind]} =>
              \A q \in Asked(kind) : form[q] = "required" => q \in submission'[kind].answers ]_vars

\* A rental is checked in and out only while it is paid, and not after the
\* grace days.
OnlyPaidInTime ==
    [][ ~overlapped' => \A kind \in Kinds :
          ~Done(kind) /\ submission'[kind] # None =>
              rental.payment = "paid" /\ Today <= rental.day + GraceDays ]_vars

\* What is corrected is corrected on the day it was recorded.
CorrectedTheSameDay ==
    [][ ~overlapped' => \A kind \in Kinds :
          Done(kind) /\ submission'[kind] \notin {None, submission[kind]} =>
              submission[kind].day = Today ]_vars

\* A rental that is paid, over, checked in and out stays so: no edit, removal,
\* refund or restoration opens it again.  A move may.
ClosedStaysClosed ==
    [][ ~overlapped' /\ Locked /\ (\A r \in Requests : ~At(r, "write", "move")) =>
          Locked' ]_vars

-----------------------------------------------------------------------------
(* A reading of a message of the code that the code does not meet.         *)

\* "Cette réservation est clôturée (payée, terminée, check-in et check-out
\* effectués) et ne peut plus être modifiée."
ClosedIsNotMoved == [][~overlapped' /\ Locked => rental'.day = rental.day]_vars
=============================================================================
