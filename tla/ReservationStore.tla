---------------------------- MODULE ReservationStore ----------------------------
(***************************************************************************)
(* The reservations as the screens of the administration keep them: edited *)
(* at once on the screen, sent whole to the API, and replaced by what the  *)
(* API answers, while payments, cancellations, restorations and refunds    *)
(* change the row behind the screens' back.                                *)
(*                                                                         *)
(* Scope: one reservation of a client without store credit, created once,  *)
(* never closed and never deleted; the API's edit is one step; the status  *)
(* is not chosen by hand; two copies of the reservation on a screen count  *)
(* as the later one.                                                       *)
(***************************************************************************)
EXTENDS Integers

CONSTANTS
    Screens,    \* the browser tabs
    CallIds,    \* the calls a tab may have under way at once (bound)
    Slots,      \* the schedules a form may give the reservation: boat and times
    MaxWrites   \* bound on the writes of the row

ASSUME ReservationStoreAssumption ==
    /\ Slots # {}
    /\ MaxWrites \in Nat

VARIABLES
    row,        \* the Reservation row
    shown,      \* the persisted item each tab shows
    local,      \* the item a tab has created and the API has not confirmed
    draft,      \* the item as it was when a tab opened its form
    calls,      \* the calls under way
    doubt       \* the tabs that had two calls under way, whose refresh failed, or
                \* behind whose back the row was written, since they last caught up

vars == <<row, shown, local, draft, calls, doubt>>

-----------------------------------------------------------------------------
Statuses == {"pending", "paid", "cancelled", "partly", "refunded"}

\* What detailsJson and an item's details say; refunds: none, part, the whole.
Details == [status : Statuses, captured : BOOLEAN, cancelled : BOOLEAN, refunds : 0..2]

Empty == [status |-> "pending", captured |-> FALSE, cancelled |-> FALSE, refunds |-> 0]

\* An item: its form, its details, and the write of the row they come from.
Item == [slot : Slots, details : Details, write : 0..MaxWrites]

\* Nothing shown, drafted or stored; write 0 is before the row is created.
Nothing == [slot |-> CHOOSE s \in Slots : TRUE, details |-> Empty, write |-> -1]

\* The columns, next to the JSON the screens wrote.
Row == [slot : Slots, columns : Details, json : Details, write : 0..MaxWrites]

NoRow == [slot |-> Nothing.slot, columns |-> Empty, json |-> Empty, write |-> 0]

Call == [kind : {"none", "get", "post", "put"}, stage : {"sent", "done", "failed"},
         item : Item \cup {Nothing}]

NoCall == [kind |-> "none", stage |-> "sent", item |-> Nothing]

Is(item) == item # Nothing

\* No tab knows more writes than were made, nor shows a reservation as paid and
\* cancelled at once.
TypeOK ==
    /\ row \in Row
    /\ shown \in [Screens -> Item \cup {Nothing}]
    /\ local \in [Screens -> Item \cup {Nothing}]
    /\ draft \in [Screens -> Item \cup {Nothing}]
    /\ calls \in [Screens -> [CallIds -> Call]]
    /\ doubt \in [Screens -> BOOLEAN]
    /\ \A s \in Screens :
        /\ shown[s].write <= row.write
        /\ shown[s].details.status = "paid" => ~shown[s].details.cancelled

-----------------------------------------------------------------------------
(* The conversions between the row and an item.                            *)

\* A refund wins over a cancellation, and both over a payment; the status the
\* API gives, "none" if it gives none, wins over that of the details.
Resolve(details, api) ==
    CASE api \in {"partly", "refunded"} -> api
      [] api \notin {"partly", "refunded"} /\ details.status \in {"partly", "refunded"} ->
            details.status
      [] OTHER ->
            IF details.refunds > 0
            THEN IF details.refunds = 2 THEN "refunded" ELSE "partly"
            ELSE IF api = "cancelled" \/ details.status = "cancelled" \/ details.cancelled
            THEN "cancelled"
            ELSE IF api # "none" THEN api ELSE details.status

\* reservationFromApi: the JSON, corrected by the columns.
FromApi(r) ==
    LET kept == [r.json EXCEPT !.status = IF r.columns.cancelled
                                          THEN Resolve(r.json, r.columns.status)
                                          ELSE r.columns.status,
                               !.cancelled = @ \/ r.columns.cancelled]
        refunded == IF r.columns.refunds > 0
                    THEN [kept EXCEPT !.refunds = r.columns.refunds] ELSE kept
        status == Resolve(refunded, r.columns.status)
        settled == {"cancelled", "refunded", "partly"}
        details == IF r.columns.captured /\ {status, r.columns.status} \cap settled = {}
                   THEN [refunded EXCEPT !.captured = TRUE, !.status = "paid"]
                   ELSE [refunded EXCEPT !.status = status]
    IN  IF r.write = 0 THEN Nothing
        ELSE [slot |-> r.slot, details |-> details, write |-> r.write]

MUTANT_Sent(item) == [item EXCEPT !.details.captured = FALSE]

\* reservationToApi: the whole item, with its status resolved again.
Sent(item) == [item EXCEPT !.details.status = Resolve(item.details, "none")]

-----------------------------------------------------------------------------
Init ==
    /\ row = NoRow
    /\ shown = [s \in Screens |-> Nothing]
    /\ local = [s \in Screens |-> Nothing]
    /\ draft = [s \in Screens |-> Nothing]
    /\ calls = [s \in Screens |-> [c \in CallIds |-> NoCall]]
    /\ doubt = [s \in Screens |-> FALSE]

Free(s, c) == calls[s][c].kind = "none"

Resting(s) == \A c \in CallIds : Free(s, c)

Starts(s, c, kind, item) ==
    /\ Free(s, c)
    /\ calls' = [calls EXCEPT ![s][c] = [kind |-> kind, stage |-> "sent", item |-> item]]
    /\ doubt' = [doubt EXCEPT ![s] = @ \/ ~Resting(s)]

\* Every tab but the writer's own falls behind.
Written(r, writers) ==
    /\ row' = [r EXCEPT !.write = row.write + 1]
    /\ doubt' = [s \in Screens |-> doubt[s] \/ s \notin writers]

MayWrite == row.write < MaxWrites

-----------------------------------------------------------------------------
(* What a tab does: refresh and replace.                                   *)

\* On a poll, on a broadcast of another tab, when a page opens.
Refresh(s, c) ==
    /\ Starts(s, c, "get", Nothing)
    /\ UNCHANGED <<row, shown, local, draft>>

\* A new reservation is shown under a local id and posted.
New(s, c, slot) ==
    LET item == [slot |-> slot, details |-> Empty, write |-> 0]
    IN  /\ row = NoRow
        /\ \A t \in Screens : ~Is(local[t])
        /\ \A t \in Screens, d \in CallIds : calls[t][d].kind # "post"
        /\ local' = [local EXCEPT ![s] = item]
        /\ Starts(s, c, "post", Sent(item))
        /\ UNCHANGED <<row, shown, draft>>

\* The form of an edit starts from the item as it is shown now.
OpenForm(s) ==
    /\ ~Is(draft[s])
    /\ \E item \in {shown[s], local[s]} : Is(item) /\ draft' = [draft EXCEPT ![s] = item]
    /\ UNCHANGED <<row, shown, local, calls, doubt>>

CloseForm(s) == draft' = [draft EXCEPT ![s] = Nothing]

\* What the form saves replaces the item and is put, whole, unless nothing of it
\* differs: the fields that are not modelled may.
Save(s, c, slot) ==
    LET item == [draft[s] EXCEPT !.slot = slot]
    IN  /\ Is(draft[s]) /\ draft[s].write > 0
        /\ Is(shown[s])
        /\ \/ /\ item.slot = shown[s].slot /\ item.details = shown[s].details
              /\ UNCHANGED <<shown, calls, doubt>>
           \/ shown' = [shown EXCEPT ![s] = item] /\ Starts(s, c, "put", Sent(item))
        /\ CloseForm(s)
        /\ UNCHANGED <<row, local>>

\* An item not yet confirmed is changed on the screen only, "le create en cours
\* s'en chargera"; one confirmed since the form was opened is not found.
SaveLocal(s, slot) ==
    /\ Is(draft[s]) /\ draft[s].write = 0
    /\ local' = [local EXCEPT ![s] = IF Is(@) THEN [draft[s] EXCEPT !.slot = slot] ELSE @]
    /\ CloseForm(s)
    /\ UNCHANGED <<row, shown, calls, doubt>>

-----------------------------------------------------------------------------
(* What the API does with a call, and what it does behind the screens.     *)

Answers(s, c, item) == calls' = [calls EXCEPT ![s][c].stage = "done", ![s][c].item = item]

Waits(s, c, kind) == calls[s][c].kind = kind /\ calls[s][c].stage = "sent"

ServeGet(s, c) ==
    /\ Waits(s, c, "get")
    /\ Answers(s, c, FromApi(row))
    /\ UNCHANGED <<row, shown, local, draft, doubt>>

\* create and update write every column from the form, the status, the payment
\* and the refunds among them; an edit that moves the reservation keeps its JSON.
ServeWrite(s, c, kind) ==
    /\ Waits(s, c, kind)
    /\ kind = "put" => row # NoRow
    /\ MayWrite
    /\ LET item == calls[s][c].item
           moves == kind = "put" /\ item.slot # row.slot
           new == [row EXCEPT !.slot = item.slot, !.columns = item.details,
                              !.json = IF moves THEN @ ELSE item.details]
       IN  Written(new, {s})
    /\ Answers(s, c, FromApi(row'))
    /\ UNCHANGED <<shown, local, draft>>

Behind(r) == Written(r, {}) /\ UNCHANGED <<shown, local, draft, calls>>

\* The confirmation of a payment leaves the JSON and a cancellation as they are.
Pay ==
    /\ row # NoRow /\ MayWrite
    /\ ~(row.columns.status = "paid" /\ row.columns.captured)
    /\ Behind([row EXCEPT !.columns.status = "paid", !.columns.captured = TRUE])

Cancel ==
    /\ row # NoRow /\ MayWrite
    /\ row.columns.status # "cancelled" /\ ~row.columns.cancelled
    /\ Behind([row EXCEPT !.columns.status = "cancelled", !.columns.cancelled = TRUE,
                          !.json.status = "cancelled", !.json.cancelled = TRUE])

Restore ==
    LET next == IF row.columns.captured THEN "paid" ELSE "pending"
    IN  /\ row # NoRow /\ MayWrite
        /\ row.columns.status = "cancelled" \/ row.columns.cancelled
        /\ row.columns.status \notin {"partly", "refunded"}
        /\ row.columns.refunds = 0
        /\ Behind([row EXCEPT !.columns.status = next, !.columns.cancelled = FALSE,
                              !.json.status = next, !.json.cancelled = FALSE,
                              !.json.captured = @ \/ row.columns.captured])

\* A part or what is left is refunded; the refund may cancel too.
Refund(part, cancels) ==
    LET refunds == IF part THEN 1 ELSE 2
        status == IF part THEN "partly" ELSE "refunded"
        cancelled == row.columns.cancelled \/ cancels
    IN  /\ row # NoRow /\ MayWrite
        /\ row.columns.captured
        /\ row.columns.refunds < refunds
        /\ Behind([row EXCEPT !.columns.status = status, !.columns.refunds = refunds,
                              !.columns.cancelled = cancelled,
                              !.json.status = status, !.json.refunds = refunds,
                              !.json.cancelled = @ \/ cancelled])

\* A call fails before the API has served it, or its answer is lost.
Fail(s, c) ==
    /\ calls[s][c].kind \in {"post", "put"} /\ calls[s][c].stage # "failed"
    /\ calls' = [calls EXCEPT ![s][c].stage = "failed", ![s][c].item = Nothing]
    /\ UNCHANGED <<row, shown, local, draft, doubt>>

-----------------------------------------------------------------------------
(* What a tab does with an answer.                                         *)

Ends(s, c) == calls' = [calls EXCEPT ![s][c] = NoCall]

Answered(s, c, kind) == calls[s][c].kind = kind /\ calls[s][c].stage = "done"

\* The items of the API, and the local ones it does not have.
GetAnswer(s, c) ==
    /\ Answered(s, c, "get")
    /\ shown' = [shown EXCEPT ![s] = calls[s][c].item]
    /\ doubt' = [doubt EXCEPT ![s] = @ /\ \/ calls[s][c].item.write # FromApi(row).write
                                           \/ \E d \in CallIds \ {c} : ~Free(s, d)]
    /\ Ends(s, c)
    /\ UNCHANGED <<row, local, draft>>

\* The answer takes the place of the local item.
PostAnswer(s, c) ==
    /\ Answered(s, c, "post")
    /\ shown' = [shown EXCEPT ![s] = IF Is(local[s]) THEN calls[s][c].item ELSE @]
    /\ local' = [local EXCEPT ![s] = Nothing]
    /\ Ends(s, c)
    /\ UNCHANGED <<row, draft, doubt>>

PutAnswer(s, c) ==
    /\ Answered(s, c, "put")
    /\ shown' = [shown EXCEPT ![s] = IF Is(@) THEN calls[s][c].item ELSE @]
    /\ Ends(s, c)
    /\ UNCHANGED <<row, local, draft, doubt>>

MUTANT_Recover(s, c) == Ends(s, c)

\* A refresh that fails changes nothing.
GetFails(s, c) ==
    /\ calls[s][c].kind = "get"
    /\ doubt' = [doubt EXCEPT ![s] = TRUE]
    /\ Ends(s, c)
    /\ UNCHANGED <<row, shown, local, draft>>

\* After a failure the tab reads everything again.
Recover(s, c) == calls' = [calls EXCEPT ![s][c] = [NoCall EXCEPT !.kind = "get"]]

\* A creation that failed is taken off the screen.
Failed(s, c, kind) ==
    /\ calls[s][c].kind = kind /\ calls[s][c].stage = "failed"
    /\ local' = [local EXCEPT ![s] = IF kind = "post" THEN Nothing ELSE @]
    /\ Recover(s, c)
    /\ UNCHANGED <<row, shown, draft, doubt>>

Tab(s) ==
    \/ \E c \in CallIds : Refresh(s, c)
    \/ \E c \in CallIds, slot \in Slots : New(s, c, slot) \/ Save(s, c, slot)
    \/ \E slot \in Slots : SaveLocal(s, slot)
    \/ OpenForm(s)
    \/ \E c \in CallIds :
        \/ GetAnswer(s, c) \/ GetFails(s, c) \/ PostAnswer(s, c) \/ PutAnswer(s, c)
        \/ \E kind \in {"post", "put"} : Failed(s, c, kind)

Serve(s) ==
    \E c \in CallIds :
        ServeGet(s, c) \/ Fail(s, c) \/ \E kind \in {"post", "put"} : ServeWrite(s, c, kind)

Next ==
    \/ \E s \in Screens : Tab(s) \/ Serve(s)
    \/ Pay \/ Cancel \/ Restore
    \/ \E part, cancels \in BOOLEAN : Refund(part, cancels)

Spec == Init /\ [][Next]_vars

-----------------------------------------------------------------------------
\* A tab at rest that is not in doubt shows the row as it is, whichever of its
\* calls failed, before the API served them or after.
AtRestAgrees ==
    \A s \in Screens :
        Resting(s) /\ ~doubt[s] => ~Is(local[s]) /\ shown[s] = FromApi(row)

\* JSON and columns say the same of the cancellation and of the refunds, a pending
\* row is not captured, and the last word on the row was not a payment after its
\* cancellation or refund, nor a cancellation after its refund.
InStep ==
    /\ row.json.cancelled = row.columns.cancelled
    /\ row.columns.status = "pending" => ~row.columns.captured
    /\ row.json.refunds = row.columns.refunds
    /\ row.columns.status = "paid" => ~row.columns.cancelled
    /\ row.columns.status \in {"paid", "cancelled"} => row.columns.refunds = 0

\* An edit that starts from a row in step, as it is, leaves its status, its
\* cancellation and its refunds alone, and a payment that was neither cancelled
\* nor refunded, though only the columns tell of it.
UpToDateEditKeeps ==
    [][\A s \in Screens, c \in CallIds :
          /\ row' # row
          /\ calls[s][c].kind = "put" /\ calls'[s][c] # calls[s][c]
          /\ calls[s][c].item.write = row.write
          /\ InStep
          => /\ row'.columns.status = row.columns.status
             /\ row'.columns.cancelled = row.columns.cancelled
             /\ row'.columns.refunds = row.columns.refunds
             /\ row.columns.status = "paid" /\ row.columns.captured => row'.columns.captured]_vars

\* "Pas encore confirmé côté serveur ; le create en cours s'en chargera": what was
\* changed on the screen while it was being created is what is shown once it is.
EditDuringCreateIsSaved ==
    [][\A s \in Screens :
          Is(local[s]) /\ ~Is(local'[s]) /\ Is(shown'[s]) => shown'[s].slot = local[s].slot]_vars

=============================================================================
