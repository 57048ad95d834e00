------------------------ MODULE ReservationStoreProofs ------------------------
(***************************************************************************)
(* A tab at rest shows the row, and an edit from an up-to-date form undoes *)
(* nothing: for any number of tabs, calls, slots and writes.               *)
(*                                                                         *)
(* Then the refunds: whatever is recorded was refunded, and requests that  *)
(* run one at a time refund no more than was collected and leave a status  *)
(* that says so.                                                           *)
(***************************************************************************)
EXTENDS ReservationStore, Refunds, FiniteSetTheorems, TLAPS

\* Details that say pending tell of no cancellation and of no refund.
Bare(details) == details.status = "pending" => ~details.cancelled /\ details.refunds = 0

\* Details that say refunded, in part or whole, tell of a refund.
Funded(details) == details.status \in {"partly", "refunded"} => details.refunds > 0

\* An item that is not shown as paid and cancelled at once, nor as refunded for nothing.
Sane(item) ==
    /\ item.details.status = "paid" => ~item.details.cancelled
    /\ Funded(item.details)

\* An item that comes from the row as it is says what the row says.
Current(item) ==
    item.write = row.write /\ item.write > 0 => item.details = FromApi(row).details

\* What the API has answered, and what it has been sent.
CallOK(call) ==
    /\ call.kind = "none" => call.stage = "sent"
    /\ call.stage = "done" =>
          /\ Sane(call.item)
          /\ call.item.write <= row.write
          /\ call.item.write = row.write => call.item = FromApi(row)
    /\ call.stage = "sent" /\ call.kind \in {"post", "put"} =>
          /\ call.item # Nothing
          /\ Bare(call.item.details)
          /\ Funded(call.item.details)
    /\ call.stage = "sent" /\ call.kind = "put" =>
          /\ call.item.write > 0
          /\ call.item.write <= row.write
          /\ call.item.write = row.write =>
                call.item.details = Sent(FromApi(row)).details

\* A tab shows, drafts and remembers items of the row.
ItemsOK(s) ==
    /\ Sane(shown[s]) /\ Sane(draft[s]) /\ Sane(local[s])
    /\ Current(shown[s]) /\ Current(draft[s])
    /\ shown[s].write <= row.write
    /\ draft[s].write <= row.write
    /\ local[s].write <= 0

\* A tab has a local item just while it posts it, once.
Posting(s) ==
    /\ Is(local[s]) <=> \E c \in CallIds : calls[s][c].kind = "post"
    /\ \A c, d \in CallIds : calls[s][c].kind = "post" /\ calls[s][d].kind = "post" => c = d

\* A tab that is not in doubt has one call at most, which is to show the row.
Certain(s) ==
    /\ \A c, d \in CallIds : c = d \/ Free(s, c) \/ Free(s, d)
    /\ Resting(s) => shown[s] = FromApi(row)
    /\ \A c \in CallIds : calls[s][c].kind = "put" => Is(shown[s])
    /\ \A c \in CallIds : calls[s][c].stage = "done" => calls[s][c].item = FromApi(row)

TabOK(s) ==
    /\ ItemsOK(s)
    /\ Posting(s)
    /\ \A c \in CallIds : CallOK(calls[s][c])
    /\ ~doubt[s] => Certain(s)

RowOK == Bare(row.columns) /\ Funded(row.columns) /\ Funded(row.json)

IInv == TypeOK /\ RowOK /\ \A s \in Screens : TabOK(s)

-----------------------------------------------------------------------------
(* The conversions.                                                        *)

\* The values everything starts from.
LEMMA NothingIs ==
  /\ Empty \in Details
  /\ Nothing.slot \in Slots /\ Nothing.details = Empty /\ Nothing.write = -1
  /\ Nothing \notin Item
  /\ NoRow \in Row /\ NoRow.write = 0 /\ NoCall \in Call
  <1>1. Empty \in Details
    BY DEF Empty, Details, Statuses
  <1>2. (CHOOSE slot \in Slots : TRUE) \in Slots
    BY ReservationStoreAssumption
  <1>3. Nothing.slot \in Slots /\ Nothing.details = Empty /\ Nothing.write = -1
    BY <1>2 DEF Nothing
  <1>4. Nothing \notin Item
    BY <1>3, ReservationStoreAssumption DEF Item
  <1>5. NoRow \in Row /\ NoRow.write = 0
    BY <1>1, <1>3, ReservationStoreAssumption DEF NoRow, Row
  <1>6. NoCall \in Call
    BY DEF NoCall, Call
  <1> QED  BY <1>1, <1>3, <1>4, <1>5, <1>6

\* What is shown is told from nothing by the write it comes from.
LEMMA ItemIs ==
  ASSUME NEW item \in Item \cup {Nothing}
  PROVE  /\ item.slot \in Slots /\ item.details \in Details /\ item.write \in Int
         /\ item.write >= -1
         /\ Is(item) <=> item.write # -1
         /\ Is(item) <=> item \in Item
  <1>1. CASE item \in Item
    <2>1. item.slot \in Slots /\ item.details \in Details /\ item.write \in 0..MaxWrites
      BY <1>1 DEF Item
    <2> QED  BY <1>1, <2>1, NothingIs, ReservationStoreAssumption DEF Is
  <1>2. CASE item = Nothing
    BY <1>2, NothingIs DEF Is
  <1> QED  BY <1>1, <1>2

\* What resolveReservationStatus can say.
LEMMA ResolveIs ==
  ASSUME NEW details \in Details, NEW api \in Statuses \cup {"none"}
  PROVE  /\ Resolve(details, api) \in Statuses
         /\ Resolve(details, api) \in {"paid", "pending"} =>
               ~details.cancelled /\ details.refunds = 0
         /\ Resolve(details, api) \in {"partly", "refunded"} =>
               \/ api \in {"partly", "refunded"}
               \/ details.status \in {"partly", "refunded"}
               \/ details.refunds > 0
  BY DEF Resolve, Details, Statuses

\* The details reservationFromApi gives the row of a reservation.
Kept(r) ==
    [r.json EXCEPT !.status = IF r.columns.cancelled
                              THEN Resolve(r.json, r.columns.status) ELSE r.columns.status,
                   !.cancelled = @ \/ r.columns.cancelled]

Refunded(r) ==
    IF r.columns.refunds > 0 THEN [Kept(r) EXCEPT !.refunds = r.columns.refunds] ELSE Kept(r)

Shown(r) ==
    LET status == Resolve(Refunded(r), r.columns.status)
        settled == {"cancelled", "refunded", "partly"}
    IN  IF r.columns.captured /\ {status, r.columns.status} \cap settled = {}
        THEN [Refunded(r) EXCEPT !.captured = TRUE, !.status = "paid"]
        ELSE [Refunded(r) EXCEPT !.status = status]

\* What the JSON corrected by the status and the cancellation of the columns says.
LEMMA KeptIs ==
  ASSUME NEW r \in Row
  PROVE  /\ Kept(r) \in Details
         /\ Kept(r).cancelled = (r.json.cancelled \/ r.columns.cancelled)
         /\ Kept(r).refunds = r.json.refunds
         /\ Kept(r).captured = r.json.captured
         /\ ~r.columns.cancelled => Kept(r).status = r.columns.status
         /\ r.columns.cancelled => Kept(r).status = Resolve(r.json, r.columns.status)
  <1>1. r.json \in Details /\ r.columns \in Details
    BY DEF Row
  <1>2. r.columns.status \in Statuses /\ r.columns.cancelled \in BOOLEAN
    BY <1>1 DEF Details
  <1>3. Resolve(r.json, r.columns.status) \in Statuses
    BY <1>1, <1>2, ResolveIs
  <1> HIDE DEF Row
  <1> QED  BY <1>1, <1>2, <1>3 DEF Kept, Details

\* What it says once the refunds of the columns are in it.
LEMMA RefundedIs ==
  ASSUME NEW r \in Row
  PROVE  /\ Refunded(r) \in Details
         /\ Refunded(r).cancelled = (r.json.cancelled \/ r.columns.cancelled)
         /\ Refunded(r).refunds = IF r.columns.refunds > 0 THEN r.columns.refunds ELSE r.json.refunds
         /\ Refunded(r).captured = r.json.captured
         /\ Refunded(r).status = Kept(r).status
         /\ Funded(r.columns) /\ Funded(r.json) => Funded(Refunded(r))
  <1>1. Kept(r) \in Details
    BY KeptIs
  <1>2. r.columns.refunds \in 0..2 /\ r.json.refunds \in 0..2
    BY DEF Row, Details
  <1>3. /\ Refunded(r) \in Details
        /\ Refunded(r).cancelled = (r.json.cancelled \/ r.columns.cancelled)
        /\ Refunded(r).refunds = IF r.columns.refunds > 0 THEN r.columns.refunds ELSE r.json.refunds
        /\ Refunded(r).captured = r.json.captured
        /\ Refunded(r).status = Kept(r).status
    BY <1>1, <1>2, KeptIs DEF Refunded, Details
  <1>4. ASSUME Funded(r.columns), Funded(r.json), Refunded(r).status \in {"partly", "refunded"}
        PROVE  Refunded(r).refunds > 0
    <2>1. r.columns.status \in Statuses /\ r.json \in Details /\ r.columns.cancelled \in BOOLEAN
      BY DEF Row, Details
    <2>2. CASE r.columns.cancelled
      BY <1>2, <1>3, <1>4, <2>1, <2>2, KeptIs, ResolveIs DEF Funded
    <2>3. CASE ~r.columns.cancelled
      BY <1>2, <1>3, <1>4, <2>1, <2>3, KeptIs DEF Funded
    <2> QED  BY <2>1, <2>2, <2>3
  <1> QED  BY <1>3, <1>4 DEF Funded

\* What is shown is neither paid and cancelled nor, of a row that was not, refunded for nothing.
LEMMA ShownIs ==
  ASSUME NEW r \in Row
  PROVE  /\ Shown(r) \in Details
         /\ Shown(r).status = "paid" => ~Shown(r).cancelled
         /\ Shown(r).cancelled = (r.json.cancelled \/ r.columns.cancelled)
         /\ Shown(r).refunds = Refunded(r).refunds
         /\ Funded(r.columns) /\ Funded(r.json) => Funded(Shown(r))
  <1> DEFINE status == Resolve(Refunded(r), r.columns.status)
  <1>1. r.columns.status \in Statuses /\ Refunded(r) \in Details
    BY RefundedIs DEF Row, Details
  <1>2. /\ status \in Statuses
        /\ status \in {"paid", "pending"} => ~Refunded(r).cancelled
        /\ status \in {"partly", "refunded"} =>
              \/ r.columns.status \in {"partly", "refunded"}
              \/ Refunded(r).status \in {"partly", "refunded"}
              \/ Refunded(r).refunds > 0
    BY <1>1, ResolveIs
  <1>3. Shown(r) = IF r.columns.captured /\ {status, r.columns.status} \cap {"cancelled", "refunded", "partly"} = {}
                   THEN [Refunded(r) EXCEPT !.captured = TRUE, !.status = "paid"]
                   ELSE [Refunded(r) EXCEPT !.status = status]
    BY DEF Shown
  <1> HIDE DEF status
  <1>4. CASE r.columns.captured /\ {status, r.columns.status} \cap {"cancelled", "refunded", "partly"} = {}
    <2>1. status \in {"paid", "pending"}
      BY <1>2, <1>4 DEF Statuses
    <2>2. Shown(r).status = "paid"
      BY <1>1, <1>3, <1>4 DEF Details, Statuses
    <2> QED  BY <1>1, <1>2, <1>3, <1>4, <2>1, <2>2, RefundedIs DEF Details, Statuses, Funded
  <1>5. CASE ~(r.columns.captured /\ {status, r.columns.status} \cap {"cancelled", "refunded", "partly"} = {})
    <2>1. /\ Shown(r) \in Details
          /\ Shown(r).status = status
          /\ Shown(r).cancelled = Refunded(r).cancelled
          /\ Shown(r).refunds = Refunded(r).refunds
      BY <1>1, <1>2, <1>3, <1>5 DEF Details, Statuses
    <2>2. ASSUME Funded(r.columns), Funded(r.json), status \in {"partly", "refunded"}
          PROVE  Refunded(r).refunds > 0
      <3>1. r.columns.refunds \in 0..2
        BY DEF Row, Details
      <3>2. r.columns.refunds > 0 => Refunded(r).refunds = r.columns.refunds
        BY RefundedIs
      <3>3. Funded(Refunded(r))
        BY <2>2, RefundedIs
      <3> QED  BY <1>2, <2>2, <3>1, <3>2, <3>3 DEF Funded
    <2>3. Funded(r.columns) /\ Funded(r.json) => Funded(Shown(r))
      BY <2>1, <2>2 DEF Funded
    <2> QED  BY <1>2, <2>1, <2>3, RefundedIs
  <1> QED  BY <1>4, <1>5

\* reservationFromApi shows nothing just when there is no row.
LEMMA FromApiIs ==
  ASSUME NEW r \in Row, Funded(r.columns), Funded(r.json)
  PROVE  /\ FromApi(r) \in Item \cup {Nothing}
         /\ r.write = 0 => FromApi(r) = Nothing
         /\ r.write # 0 => /\ FromApi(r) \in Item
                           /\ FromApi(r).write = r.write
                           /\ FromApi(r).details = Shown(r)
         /\ Sane(FromApi(r))
  <1>1. FromApi(r) = IF r.write = 0 THEN Nothing
                     ELSE [slot |-> r.slot, details |-> Shown(r), write |-> r.write]
    BY DEF FromApi, Shown, Refunded, Kept
  <1>2. /\ Shown(r) \in Details
        /\ Shown(r).status = "paid" => ~Shown(r).cancelled
        /\ Funded(Shown(r))
    BY ShownIs
  <1>3. r.slot \in Slots /\ r.write \in 0..MaxWrites
    BY DEF Row
  <1>4. Sane(Nothing)
    BY NothingIs DEF Sane, Funded, Empty
  <1> QED  BY <1>1, <1>2, <1>3, <1>4 DEF Sane, Item

\* reservationToApi keeps all of an item but its status.
LEMMA SentIs ==
  ASSUME NEW item \in Item
  PROVE  /\ Sent(item) \in Item
         /\ Sent(item).write = item.write
         /\ Sent(item).details = [item.details EXCEPT !.status = Resolve(item.details, "none")]
         /\ Bare(Sent(item).details)
         /\ Funded(item.details) => Funded(Sent(item).details)
  <1>1. item.details \in Details /\ "none" \in Statuses \cup {"none"}
    BY DEF Item
  <1>2. Resolve(item.details, "none") \in Statuses
    BY <1>1, ResolveIs
  <1>3. Resolve(item.details, "none") = "pending" =>
           ~item.details.cancelled /\ item.details.refunds = 0
    BY <1>1, ResolveIs
  <1>4. Sent(item).details = [item.details EXCEPT !.status = Resolve(item.details, "none")]
    BY DEF Sent, Item
  <1>5. Sent(item).write = item.write /\ Sent(item) \in Item
    BY <1>1, <1>2 DEF Sent, Item, Details
  <1>6. Bare(Sent(item).details)
    BY <1>1, <1>2, <1>3, <1>4 DEF Bare, Details
  <1>7. Funded(item.details) => Funded(Sent(item).details)
    <2>1. Resolve(item.details, "none") \in {"partly", "refunded"} =>
             item.details.status \in {"partly", "refunded"} \/ item.details.refunds > 0
      BY <1>1, ResolveIs
    <2> QED  BY <1>1, <1>2, <1>4, <2>1 DEF Funded, Details
  <1> QED  BY <1>4, <1>5, <1>6, <1>7

\* An edit from the row as it is, when the row is in step, writes the columns it has.
LEMMA EditKeeps ==
  ASSUME NEW r \in Row, r.write # 0, RowOK, InStep, row = r,
         NEW details, details = Sent(FromApi(r)).details
  PROVE  /\ details.status = r.columns.status
         /\ details.cancelled = r.columns.cancelled
         /\ details.refunds = r.columns.refunds
         /\ r.columns.status = "paid" /\ r.columns.captured => details.captured
  <1> DEFINE status == Resolve(Refunded(r), r.columns.status)
  <1>1. /\ r.columns \in Details /\ r.json \in Details
        /\ r.columns.status \in Statuses /\ r.columns.refunds \in 0..2
        /\ r.json.refunds \in 0..2 /\ r.columns.cancelled \in BOOLEAN
        /\ r.columns.captured \in BOOLEAN
    BY DEF Row, Details
  <1>2. /\ Refunded(r) \in Details
        /\ Refunded(r).cancelled = r.columns.cancelled
        /\ Refunded(r).refunds = r.columns.refunds
    BY <1>1, RefundedIs DEF InStep
  <1>3. Shown(r) \in Details /\ details = [Shown(r) EXCEPT !.status = Resolve(Shown(r), "none")]
    <2>1. FromApi(r) \in Item /\ FromApi(r).details = Shown(r)
      BY FromApiIs DEF RowOK
    <2> QED  BY <2>1, SentIs, ShownIs
  <1>4. /\ Shown(r).cancelled = r.columns.cancelled
        /\ Shown(r).refunds = r.columns.refunds
    BY <1>1, <1>2, ShownIs, RefundedIs DEF InStep
  <1>5. /\ details.status = Resolve(Shown(r), "none")
        /\ details.cancelled = Shown(r).cancelled
        /\ details.refunds = Shown(r).refunds
        /\ details.captured = Shown(r).captured
    BY <1>3 DEF Details
  <1>6. status = r.columns.status
    <2>1. CASE r.columns.status \in {"partly", "refunded"}
      BY <2>1 DEF Resolve
    <2>2. CASE r.columns.status = "cancelled"
      <3>1. r.json.refunds = 0 /\ Refunded(r).refunds = 0
        BY <1>1, <1>2, <2>2 DEF InStep
      <3>2. r.json.status \notin {"partly", "refunded"}
        BY <1>1, <3>1 DEF RowOK, Funded
      <3>3. Refunded(r).status = "cancelled"
        <4>1. CASE r.columns.cancelled
          <5>1. Refunded(r).status = Resolve(r.json, "cancelled")
            BY <2>2, <4>1, RefundedIs, KeptIs
          <5> QED  BY <1>1, <3>1, <3>2, <5>1 DEF Resolve
        <4>2. CASE ~r.columns.cancelled
          BY <2>2, <4>2, RefundedIs, KeptIs
        <4> QED  BY <4>1, <4>2
      <3> QED  BY <2>2, <3>1, <3>3 DEF Resolve
    <2>3. CASE r.columns.status \in {"paid", "pending"}
      <3>1. ~r.columns.cancelled /\ r.columns.refunds = 0
        BY <2>3 DEF InStep, RowOK, Bare
      <3>2. Refunded(r).status = r.columns.status
        BY <3>1, RefundedIs, KeptIs
      <3> QED  BY <1>2, <2>3, <3>1, <3>2 DEF Resolve
    <2> QED  BY <1>1, <2>1, <2>2, <2>3 DEF Statuses
  <1>7. Shown(r).status = r.columns.status
    <2>1. Shown(r) = IF r.columns.captured /\ {status, r.columns.status} \cap {"cancelled", "refunded", "partly"} = {}
                     THEN [Refunded(r) EXCEPT !.captured = TRUE, !.status = "paid"]
                     ELSE [Refunded(r) EXCEPT !.status = status]
      BY DEF Shown
    <2> HIDE DEF status
    <2>2. CASE r.columns.status = "pending"
      <3>1. ~r.columns.captured
        BY <2>2 DEF InStep
      <3> QED  BY <1>2, <1>6, <2>1, <3>1 DEF Details
    <2>3. CASE r.columns.status = "paid"
      BY <1>2, <1>6, <2>1, <2>3 DEF Details
    <2>4. CASE r.columns.status \in {"cancelled", "partly", "refunded"}
      BY <1>2, <1>6, <2>1, <2>4 DEF Details
    <2> QED  BY <1>1, <2>2, <2>3, <2>4 DEF Statuses
  <1>8. Resolve(Shown(r), "none") = Shown(r).status
    <2>1. CASE r.columns.status \in {"partly", "refunded"}
      BY <1>7, <2>1 DEF Resolve
    <2>2. CASE r.columns.status = "cancelled"
      <3>1. r.columns.refunds = 0
        BY <2>2 DEF InStep
      <3> QED  BY <1>4, <1>7, <2>2, <3>1 DEF Resolve
    <2>3. CASE r.columns.status \in {"paid", "pending"}
      <3>1. ~r.columns.cancelled /\ r.columns.refunds = 0
        BY <2>3 DEF InStep, RowOK, Bare
      <3> QED  BY <1>4, <1>7, <2>3, <3>1 DEF Resolve
    <2> QED  BY <1>1, <2>1, <2>2, <2>3 DEF Statuses
  <1>9. ASSUME r.columns.status = "paid", r.columns.captured
        PROVE  Shown(r).captured
    <2>1. Shown(r) = [Refunded(r) EXCEPT !.captured = TRUE, !.status = "paid"]
      <3>1. {status, r.columns.status} \cap {"cancelled", "refunded", "partly"} = {}
        BY <1>6, <1>9
      <3> QED  BY <1>9, <3>1 DEF Shown
    <2> QED  BY <1>2, <2>1 DEF Details
  <1> QED  BY <1>4, <1>5, <1>7, <1>8, <1>9

-----------------------------------------------------------------------------
(* The initial state, and how a step reaches the tabs.                     *)

Kinds == {"none", "get", "post", "put"}

\* There is no reservation, and no tab has done anything.
LEMMA InitInv == Init => IInv
  <1> SUFFICES ASSUME Init PROVE IInv
    OBVIOUS
  <1>1. /\ row = NoRow
        /\ \A s \in Screens : /\ shown[s] = Nothing /\ local[s] = Nothing
                              /\ draft[s] = Nothing /\ doubt[s] = FALSE
        /\ \A s \in Screens, c \in CallIds : calls[s][c] = NoCall
    BY DEF Init
  <1>2. Sane(Nothing) /\ Nothing.write = -1 /\ ~Is(Nothing)
    BY NothingIs DEF Sane, Funded, Empty, Is
  <1>3. row \in Row /\ row.write = 0 /\ RowOK
    BY <1>1, NothingIs DEF RowOK, NoRow, Bare, Funded, Empty
  <1>4. FromApi(row) = Nothing
    BY <1>3, FromApiIs DEF RowOK
  <1>5. TypeOK
    <2>1. /\ shown \in [Screens -> Item \cup {Nothing}]
          /\ local \in [Screens -> Item \cup {Nothing}]
          /\ draft \in [Screens -> Item \cup {Nothing}]
          /\ calls \in [Screens -> [CallIds -> Call]]
          /\ doubt \in [Screens -> BOOLEAN]
      BY NothingIs DEF Init
    <2> QED  BY <1>1, <1>2, <1>3, <2>1 DEF TypeOK, Sane
  <1>6. ASSUME NEW s \in Screens PROVE TabOK(s)
    <2>1. ItemsOK(s)
      BY <1>1, <1>2, <1>3 DEF ItemsOK, Current
    <2>2. Posting(s)
      BY <1>1, <1>2 DEF Posting, NoCall
    <2>3. \A c \in CallIds : CallOK(calls[s][c])
      BY <1>1 DEF CallOK, NoCall
    <2>4. Certain(s)
      BY <1>1, <1>4 DEF Certain, Free, Resting, NoCall
    <2> QED  BY <2>1, <2>2, <2>3, <2>4 DEF TabOK
  <1> QED  BY <1>3, <1>5, <1>6 DEF IInv

\* A change of one call of a tab leaves the other calls alone.
LEMMA OneCall ==
  ASSUME TypeOK, NEW s \in Screens, NEW c \in CallIds, NEW call \in Call,
         calls' = [calls EXCEPT ![s][c] = call]
  PROVE  /\ calls' \in [Screens -> [CallIds -> Call]]
         /\ calls'[s][c] = call
         /\ \A d \in CallIds \ {c} : calls'[s][d] = calls[s][d]
         /\ \A t \in Screens \ {s} : calls'[t] = calls[t]
  BY DEF TypeOK

\* What is known of the fields of a call.
LEMMA CallIs ==
  ASSUME TypeOK, NEW s \in Screens, NEW c \in CallIds
  PROVE  /\ calls[s][c] \in Call
         /\ calls[s][c].kind \in Kinds
         /\ calls[s][c].item \in Item \cup {Nothing}
         /\ calls[s][c] = [kind |-> calls[s][c].kind, stage |-> calls[s][c].stage,
                           item |-> calls[s][c].item]
  <1>1. calls[s][c] \in Call
    BY DEF TypeOK
  <1> QED  BY <1>1 DEF Call, Kinds

\* What the row shows, as far as the write it comes from tells it.
LEMMA RowIs ==
  ASSUME TypeOK, RowOK
  PROVE  /\ row \in Row /\ row.write \in Int /\ 0 <= row.write
         /\ FromApi(row) \in Item \cup {Nothing}
         /\ Sane(FromApi(row))
         /\ FromApi(row).write <= row.write
         /\ FromApi(row).write > 0 => FromApi(row).write = row.write
         /\ row.write = 0 => FromApi(row) = Nothing
         /\ row.write # 0 => FromApi(row) \in Item /\ FromApi(row).write = row.write
  <1>1. row \in Row
    BY DEF TypeOK
  <1>2. row.write \in 0..MaxWrites
    BY <1>1 DEF Row
  <1> QED  BY <1>1, <1>2, FromApiIs, NothingIs, ReservationStoreAssumption DEF RowOK

\* A step of one tab leaves the others as they were.
LEMMA TabStep ==
  ASSUME IInv, NEW s \in Screens, row' = row,
         shown' \in [Screens -> Item \cup {Nothing}],
         local' \in [Screens -> Item \cup {Nothing}],
         draft' \in [Screens -> Item \cup {Nothing}],
         calls' \in [Screens -> [CallIds -> Call]],
         doubt' \in [Screens -> BOOLEAN],
         \A t \in Screens \ {s} :
            /\ shown'[t] = shown[t] /\ local'[t] = local[t] /\ draft'[t] = draft[t]
            /\ calls'[t] = calls[t] /\ doubt'[t] = doubt[t],
         TabOK(s)'
  PROVE  IInv'
  <1>1. ASSUME NEW t \in Screens \ {s} PROVE TabOK(t)'
    <2>1. TabOK(t)
      BY DEF IInv
    <2>2. ItemsOK(t)'
      BY <2>1 DEF TabOK, ItemsOK, Current
    <2>3. Posting(t)'
      BY <2>1 DEF TabOK, Posting
    <2>4. (\A c \in CallIds : CallOK(calls[t][c]))'
      BY <2>1 DEF TabOK, CallOK
    <2>5. ~doubt'[t] => Certain(t)'
      BY <2>1 DEF TabOK, Certain, Free, Resting
    <2> QED  BY <2>2, <2>3, <2>4, <2>5 DEF TabOK
  <1>2. \A t \in Screens : TabOK(t)'
    BY <1>1
  <1>3. RowOK'
    BY DEF IInv, RowOK
  <1>4. row' \in Row
    BY DEF IInv, TypeOK
  <1>5. TypeOK'
    BY <1>2, <1>4 DEF TypeOK, TabOK, ItemsOK, Sane
  <1> QED  BY <1>2, <1>3, <1>5 DEF IInv

\* A write of the row leaves what a tab knows true of the writes there were.
LEMMA OldItems ==
  ASSUME IInv, NEW t \in Screens, row' \in Row, row'.write = row.write + 1,
         shown'[t] = shown[t], local'[t] = local[t], draft'[t] = draft[t]
  PROVE  /\ ItemsOK(t)'
         /\ \A c \in CallIds : calls'[t][c] = calls[t][c] => CallOK(calls[t][c])'
  <1>1. TabOK(t) /\ row.write \in Int /\ row.write >= 0
    BY RowIs DEF IInv
  <1>2. /\ shown[t].write \in Int /\ draft[t].write \in Int /\ local[t].write \in Int
    BY ItemIs DEF IInv, TypeOK
  <1>3. ItemsOK(t)'
    BY <1>1, <1>2 DEF TabOK, ItemsOK, Current
  <1>4. ASSUME NEW c \in CallIds, calls'[t][c] = calls[t][c]
        PROVE  CallOK(calls[t][c])'
    <2>1. calls[t][c].item.write \in Int
      BY CallIs, ItemIs DEF IInv
    <2> QED  BY <1>1, <1>4, <2>1 DEF TabOK, CallOK
  <1> QED  BY <1>3, <1>4

\* A write behind the tabs' backs puts every one of them in doubt.
LEMMA BehindStep ==
  ASSUME IInv, NEW r, Behind(r), row' \in Row, RowOK', r.write = row.write, r \in Row
  PROVE  IInv'
  <1>1. /\ row'.write = row.write + 1
        /\ shown' = shown /\ local' = local /\ draft' = draft /\ calls' = calls
        /\ doubt' = [s \in Screens |-> TRUE]
    <2>1. row.write \in Int
      BY RowIs DEF IInv
    <2> QED  BY <2>1 DEF Behind, Written, Row, IInv, TypeOK
  <1>2. ASSUME NEW t \in Screens PROVE TabOK(t)'
    <2>1. ItemsOK(t)' /\ \A c \in CallIds : CallOK(calls[t][c])'
      BY <1>1, <1>2, OldItems
    <2>2. Posting(t)'
      <3>1. Posting(t)
        BY DEF IInv, TabOK
      <3> QED  BY <1>1, <3>1 DEF Posting
    <2>3. doubt'[t]
      BY <1>1
    <2> QED  BY <2>1, <2>2, <2>3 DEF TabOK
  <1>3. TypeOK'
    BY <1>1, <1>2 DEF TypeOK, TabOK, ItemsOK, Sane, IInv
  <1> QED  BY <1>2, <1>3 DEF IInv

-----------------------------------------------------------------------------
(* What a tab does.                                                        *)

\* A call that starts is the tab's only one, or puts it in doubt.
LEMMA StartsIs ==
  ASSUME IInv, NEW s \in Screens, NEW c \in CallIds, NEW kind \in Kinds,
         NEW item \in Item \cup {Nothing}, Starts(s, c, kind, item)
  PROVE  /\ calls[s][c].kind = "none"
         /\ calls' \in [Screens -> [CallIds -> Call]]
         /\ calls'[s][c] = [kind |-> kind, stage |-> "sent", item |-> item]
         /\ \A d \in CallIds \ {c} : calls'[s][d] = calls[s][d]
         /\ doubt' \in [Screens -> BOOLEAN]
         /\ ~doubt'[s] => \A d \in CallIds : Free(s, d)
         /\ \A t \in Screens \ {s} : calls'[t] = calls[t] /\ doubt'[t] = doubt[t]
  <1>1. TypeOK /\ TabOK(s)
    BY DEF IInv
  <1>2. [kind |-> kind, stage |-> "sent", item |-> item] \in Call
    BY DEF Call, Kinds
  <1>3. doubt \in [Screens -> BOOLEAN] /\ doubt' = [doubt EXCEPT ![s] = @ \/ ~Resting(s)]
    BY <1>1 DEF TypeOK, Starts
  <1>4. ~doubt'[s] => Resting(s)
    BY <1>3
  <1>5. /\ doubt' \in [Screens -> BOOLEAN]
        /\ \A t \in Screens \ {s} : doubt'[t] = doubt[t]
    BY <1>3
  <1>6. calls' = [calls EXCEPT ![s][c] = [kind |-> kind, stage |-> "sent", item |-> item]]
    BY DEF Starts
  <1>7. /\ calls' \in [Screens -> [CallIds -> Call]]
        /\ calls'[s][c] = [kind |-> kind, stage |-> "sent", item |-> item]
        /\ \A d \in CallIds \ {c} : calls'[s][d] = calls[s][d]
        /\ \A t \in Screens \ {s} : calls'[t] = calls[t]
    <2> DEFINE call == [kind |-> kind, stage |-> "sent", item |-> item]
    <2>1. call \in Call /\ calls' = [calls EXCEPT ![s][c] = call]
      BY <1>2, <1>6
    <2> HIDE DEF call
    <2>2. /\ calls' \in [Screens -> [CallIds -> Call]]
          /\ calls'[s][c] = call
          /\ \A d \in CallIds \ {c} : calls'[s][d] = calls[s][d]
          /\ \A t \in Screens \ {s} : calls'[t] = calls[t]
      BY <1>1, <2>1, OneCall
    <2> QED  BY <2>2 DEF call
  <1>8. calls[s][c].kind = "none"
    BY DEF Starts, Free
  <1>9. ~doubt'[s] => \A d \in CallIds : Free(s, d)
    BY <1>4 DEF Resting
  <1> QED  BY <1>5, <1>7, <1>8, <1>9

\* The calls of a tab that a step leaves alone stay as they should be.
LEMMA CallsKept ==
  ASSUME IInv, NEW s \in Screens, NEW c \in CallIds, row' = row,
         \A d \in CallIds \ {c} : calls'[s][d] = calls[s][d],
         CallOK(calls'[s][c])
  PROVE  (\A d \in CallIds : CallOK(calls[s][d]))'
  <1>1. \A d \in CallIds : CallOK(calls[s][d])
    BY DEF IInv, TabOK
  <1> QED  BY <1>1 DEF CallOK

\* A refresh starts.
LEMMA RefreshStep ==
  ASSUME IInv, NEW s \in Screens, NEW c \in CallIds, Refresh(s, c)
  PROVE  IInv'
  <1>1. /\ Starts(s, c, "get", Nothing)
        /\ row' = row /\ shown' = shown /\ local' = local /\ draft' = draft
    BY DEF Refresh
  <1>2. TabOK(s) /\ TypeOK
    BY DEF IInv
  <1>3. /\ calls[s][c].kind = "none"
        /\ calls' \in [Screens -> [CallIds -> Call]]
        /\ calls'[s][c] = [kind |-> "get", stage |-> "sent", item |-> Nothing]
        /\ \A d \in CallIds \ {c} : calls'[s][d] = calls[s][d]
        /\ doubt' \in [Screens -> BOOLEAN]
        /\ ~doubt'[s] => \A d \in CallIds : Free(s, d)
        /\ \A t \in Screens \ {s} : calls'[t] = calls[t] /\ doubt'[t] = doubt[t]
    BY <1>1, StartsIs DEF Kinds
  <1>4. ItemsOK(s)'
    BY <1>1, <1>2 DEF TabOK, ItemsOK, Current
  <1>5. Posting(s)'
    BY SMTT(30), <1>1, <1>2, <1>3 DEF TabOK, Posting
  <1>6. CallOK(calls'[s][c])
    BY <1>3 DEF CallOK
  <1>7. (\A d \in CallIds : CallOK(calls[s][d]))'
    BY <1>1, <1>3, <1>6, CallsKept
  <1>8. ~doubt'[s] => Certain(s)'
    <2> SUFFICES ASSUME ~doubt'[s] PROVE Certain(s)'
      OBVIOUS
    <2>1. \A d \in CallIds \ {c} : calls'[s][d].kind = "none" /\ calls'[s][d].stage = "sent"
      BY <1>2, <1>3 DEF Free, TabOK, CallOK
    <2> QED  BY <1>3, <2>1 DEF Certain, Free, Resting
  <1>9. TabOK(s)'
    BY <1>4, <1>5, <1>7, <1>8 DEF TabOK
  <1> QED  BY <1>1, <1>2, <1>3, <1>9, TabStep DEF TypeOK

\* A creation is shown and posted.
LEMMA NewStep ==
  ASSUME IInv, NEW s \in Screens, NEW c \in CallIds, NEW slot \in Slots, New(s, c, slot)
  PROVE  IInv'
  <1> DEFINE item == [slot |-> slot, details |-> Empty, write |-> 0]
  <1>1. /\ Starts(s, c, "post", Sent(item))
        /\ local' = [local EXCEPT ![s] = item]
        /\ \A t \in Screens, d \in CallIds : calls[t][d].kind # "post"
        /\ row' = row /\ shown' = shown /\ draft' = draft
    BY DEF New
  <1>2. TabOK(s) /\ TypeOK
    BY DEF IInv
  <1>3. item \in Item /\ item.write = 0 /\ Sane(item) /\ item # Nothing
    <2>1. 0 \in 0..MaxWrites
      BY ReservationStoreAssumption
    <2> QED  BY <2>1, NothingIs DEF Item, Sane, Funded, Empty
  <1>4. /\ Sent(item) \in Item /\ Sent(item) # Nothing
        /\ Bare(Sent(item).details) /\ Funded(Sent(item).details)
    BY <1>3, SentIs, NothingIs DEF Sane
  <1> HIDE DEF item
  <1>5. /\ calls'[s][c] = [kind |-> "post", stage |-> "sent", item |-> Sent(item)]
        /\ calls' \in [Screens -> [CallIds -> Call]]
        /\ \A d \in CallIds \ {c} : calls'[s][d] = calls[s][d]
        /\ doubt' \in [Screens -> BOOLEAN]
        /\ ~doubt'[s] => \A d \in CallIds : Free(s, d)
        /\ \A t \in Screens \ {s} : calls'[t] = calls[t] /\ doubt'[t] = doubt[t]
    BY <1>1, <1>4, StartsIs DEF Kinds
  <1>6. /\ local' \in [Screens -> Item \cup {Nothing}]
        /\ local'[s] = item
        /\ \A t \in Screens \ {s} : local'[t] = local[t]
    BY <1>1, <1>2, <1>3 DEF TypeOK
  <1>7. ItemsOK(s)'
    BY <1>1, <1>2, <1>3, <1>6 DEF TabOK, ItemsOK, Current
  <1>8. Posting(s)'
    BY <1>1, <1>2, <1>3, <1>5, <1>6 DEF TabOK, Posting, Is
  <1>9. CallOK(calls'[s][c])
    BY <1>4, <1>5 DEF CallOK
  <1>10. (\A d \in CallIds : CallOK(calls[s][d]))'
    BY <1>1, <1>5, <1>9, CallsKept
  <1>11. ~doubt'[s] => Certain(s)'
    <2> SUFFICES ASSUME ~doubt'[s] PROVE Certain(s)'
      OBVIOUS
    <2>1. \A d \in CallIds \ {c} : calls'[s][d].kind = "none" /\ calls'[s][d].stage = "sent"
      BY <1>2, <1>5 DEF Free, TabOK, CallOK
    <2> QED  BY <1>5, <2>1 DEF Certain, Free, Resting
  <1>12. TabOK(s)'
    BY <1>7, <1>8, <1>10, <1>11 DEF TabOK
  <1> QED  BY <1>1, <1>2, <1>5, <1>6, <1>12, TabStep DEF TypeOK

\* A form opens.
LEMMA OpenFormStep ==
  ASSUME IInv, NEW s \in Screens, OpenForm(s)
  PROVE  IInv'
  <1>1. TabOK(s) /\ TypeOK
    BY DEF IInv
  <1>2. PICK item \in {shown[s], local[s]} : Is(item) /\ draft' = [draft EXCEPT ![s] = item]
    BY DEF OpenForm
  <1>3. /\ row' = row /\ shown' = shown /\ local' = local /\ calls' = calls /\ doubt' = doubt
    BY DEF OpenForm
  <1>4. /\ local[s] \in Item \cup {Nothing} /\ shown[s] \in Item \cup {Nothing}
        /\ draft \in [Screens -> Item \cup {Nothing}]
    BY <1>1 DEF TypeOK
  <1>5. /\ draft' \in [Screens -> Item \cup {Nothing}]
        /\ draft'[s] = item
        /\ \A t \in Screens \ {s} : draft'[t] = draft[t]
    BY <1>2, <1>4
  <1>6. Sane(item) /\ Current(item) /\ item.write <= row.write
    <2>1. local[s].write \in Int /\ row.write \in Int /\ 0 <= row.write
      BY <1>1, <1>4, ItemIs, RowIs DEF IInv
    <2> QED  BY <1>1, <2>1 DEF TabOK, ItemsOK, Current
  <1>7. ItemsOK(s)'
    BY <1>1, <1>3, <1>5, <1>6 DEF TabOK, ItemsOK, Current
  <1>8. Posting(s)'
    BY <1>1, <1>3 DEF TabOK, Posting
  <1>9. (\A d \in CallIds : CallOK(calls[s][d]))'
    BY <1>1, <1>3 DEF TabOK, CallOK
  <1>10. ~doubt'[s] => Certain(s)'
    BY <1>1, <1>3 DEF TabOK, Certain, Free, Resting
  <1>11. TabOK(s)'
    BY <1>7, <1>8, <1>9, <1>10 DEF TabOK
  <1> QED  BY <1>1, <1>3, <1>5, <1>11, TabStep DEF TypeOK

\* A form that closes is forgotten.
LEMMA CloseFormIs ==
  ASSUME TypeOK, NEW s \in Screens, CloseForm(s)
  PROVE  /\ draft' \in [Screens -> Item \cup {Nothing}]
         /\ draft'[s] = Nothing
         /\ \A t \in Screens \ {s} : draft'[t] = draft[t]
         /\ Sane(Nothing) /\ Nothing.write = -1
  <1>1. draft \in [Screens -> Item \cup {Nothing}] /\ draft' = [draft EXCEPT ![s] = Nothing]
    BY DEF TypeOK, CloseForm
  <1> QED  BY <1>1, NothingIs DEF Sane, Funded, Empty

\* A form is saved: nothing of it differs, or it is shown and put.
LEMMA SaveStep ==
  ASSUME IInv, NEW s \in Screens, NEW c \in CallIds, NEW slot \in Slots, Save(s, c, slot)
  PROVE  IInv'
  <1> DEFINE item == [draft[s] EXCEPT !.slot = slot]
  <1>1. TabOK(s) /\ TypeOK
    BY DEF IInv
  <1>2. /\ Is(draft[s]) /\ draft[s].write > 0 /\ Is(shown[s])
        /\ CloseForm(s) /\ row' = row /\ local' = local
    BY DEF Save
  <1>3. /\ draft' \in [Screens -> Item \cup {Nothing}]
        /\ draft'[s] = Nothing
        /\ \A t \in Screens \ {s} : draft'[t] = draft[t]
        /\ Sane(Nothing) /\ Nothing.write = -1
    BY <1>1, <1>2, CloseFormIs
  <1>4. row.write \in Int /\ 0 <= row.write
    BY RowIs DEF IInv
  <1>5. /\ draft[s] \in Item
        /\ item \in Item /\ item.details = draft[s].details /\ item.write = draft[s].write
        /\ item.write \in Int
    BY <1>1, <1>2, ItemIs DEF TypeOK, Item
  <1>6. Sane(item) /\ Current(item) /\ item.write <= row.write /\ item.write > 0
    BY <1>1, <1>2, <1>5 DEF TabOK, ItemsOK, Current, Sane
  <1>7. CASE UNCHANGED <<shown, calls, doubt>>
    <2>1. ItemsOK(s)'
      BY <1>1, <1>2, <1>3, <1>4, <1>7 DEF TabOK, ItemsOK, Current
    <2>2. Posting(s)'
      BY <1>1, <1>2, <1>7 DEF TabOK, Posting
    <2>3. (\A d \in CallIds : CallOK(calls[s][d]))'
      BY <1>1, <1>2, <1>7 DEF TabOK, CallOK
    <2>4. ~doubt'[s] => Certain(s)'
      BY <1>1, <1>2, <1>7 DEF TabOK, Certain, Free, Resting
    <2>5. TabOK(s)'
      BY <2>1, <2>2, <2>3, <2>4 DEF TabOK
    <2> QED  BY <1>1, <1>2, <1>3, <1>7, <2>5, TabStep DEF TypeOK
  <1>8. CASE shown' = [shown EXCEPT ![s] = item] /\ Starts(s, c, "put", Sent(item))
    <2>1. /\ Sent(item) \in Item /\ Sent(item).write = item.write /\ Sent(item) # Nothing
          /\ Bare(Sent(item).details) /\ Funded(Sent(item).details)
          /\ Sent(item).details = [item.details EXCEPT !.status = Resolve(item.details, "none")]
      BY <1>5, <1>6, SentIs, NothingIs DEF Sane
    <2>2. item.write = row.write => Sent(item).details = Sent(FromApi(row)).details
      <3> SUFFICES ASSUME item.write = row.write
                   PROVE  Sent(item).details = Sent(FromApi(row)).details
        OBVIOUS
      <3>1. FromApi(row) \in Item
        BY <1>6, RowIs DEF IInv
      <3>2. item.details = FromApi(row).details
        BY <1>6 DEF Current
      <3> QED  BY <2>1, <3>1, <3>2, SentIs
    <2> HIDE DEF item
    <2>3. /\ calls'[s][c] = [kind |-> "put", stage |-> "sent", item |-> Sent(item)]
          /\ calls[s][c].kind = "none"
          /\ calls' \in [Screens -> [CallIds -> Call]]
          /\ \A d \in CallIds \ {c} : calls'[s][d] = calls[s][d]
          /\ doubt' \in [Screens -> BOOLEAN]
          /\ ~doubt'[s] => \A d \in CallIds : Free(s, d)
          /\ \A t \in Screens \ {s} : calls'[t] = calls[t] /\ doubt'[t] = doubt[t]
      BY <1>8, <2>1, StartsIs DEF Kinds
    <2>4. /\ shown' \in [Screens -> Item \cup {Nothing}]
          /\ shown'[s] = item
          /\ \A t \in Screens \ {s} : shown'[t] = shown[t]
      BY <1>1, <1>5, <1>8 DEF TypeOK
    <2>5. ItemsOK(s)'
      BY <1>1, <1>2, <1>3, <1>4, <1>6, <2>4 DEF TabOK, ItemsOK, Current
    <2>6. Posting(s)'
      <3>1. \A d \in CallIds : calls'[s][d].kind = "post" <=> calls[s][d].kind = "post"
        BY <2>3
      <3> QED  BY <1>1, <1>2, <3>1 DEF TabOK, Posting
    <2>7. CallOK(calls'[s][c])
      BY <1>6, <2>1, <2>2, <2>3 DEF CallOK
    <2>8. (\A d \in CallIds : CallOK(calls[s][d]))'
      BY <1>2, <2>3, <2>7, CallsKept
    <2>9. ~doubt'[s] => Certain(s)'
      <3> SUFFICES ASSUME ~doubt'[s] PROVE Certain(s)'
        OBVIOUS
      <3>1. \A d \in CallIds \ {c} : calls'[s][d].kind = "none" /\ calls'[s][d].stage = "sent"
        BY <1>1, <2>3 DEF Free, TabOK, CallOK
      <3>2. Is(shown'[s])
        BY <1>5, <2>4, NothingIs DEF Is
      <3> QED  BY <2>3, <3>1, <3>2 DEF Certain, Free, Resting
    <2>10. TabOK(s)'
      BY <2>5, <2>6, <2>8, <2>9 DEF TabOK
    <2> QED  BY <1>1, <1>2, <1>3, <2>3, <2>4, <2>10, TabStep DEF TypeOK
  <1> QED  BY <1>7, <1>8 DEF Save

\* A reservation that is being created is changed on the screen only.
LEMMA SaveLocalStep ==
  ASSUME IInv, NEW s \in Screens, NEW slot \in Slots, SaveLocal(s, slot)
  PROVE  IInv'
  <1> DEFINE item == IF Is(local[s]) THEN [draft[s] EXCEPT !.slot = slot] ELSE local[s]
  <1>1. TabOK(s) /\ TypeOK
    BY DEF IInv
  <1>2. /\ Is(draft[s]) /\ draft[s].write = 0 /\ local' = [local EXCEPT ![s] = item]
        /\ CloseForm(s) /\ row' = row /\ shown' = shown /\ calls' = calls /\ doubt' = doubt
    BY DEF SaveLocal
  <1>3. /\ draft' \in [Screens -> Item \cup {Nothing}]
        /\ draft'[s] = Nothing
        /\ \A t \in Screens \ {s} : draft'[t] = draft[t]
        /\ Sane(Nothing) /\ Nothing.write = -1
    BY <1>1, <1>2, CloseFormIs
  <1>4. row.write \in Int /\ 0 <= row.write
    BY RowIs DEF IInv
  <1>5. item \in Item \cup {Nothing} /\ Sane(item) /\ item.write <= 0 /\ (Is(item) <=> Is(local[s]))
    <2>1. CASE Is(local[s])
      <3>1. item = [draft[s] EXCEPT !.slot = slot] /\ draft[s] \in Item
        BY <1>1, <1>2, <2>1, ItemIs DEF TypeOK
      <3>2. item \in Item /\ item.details = draft[s].details /\ item.write = draft[s].write
        BY <3>1 DEF Item
      <3> QED  BY <1>1, <1>2, <2>1, <3>2, NothingIs DEF TabOK, ItemsOK, Sane, Is
    <2>2. CASE ~Is(local[s])
      BY <1>1, <2>2 DEF TypeOK, TabOK, ItemsOK
    <2> QED  BY <2>1, <2>2
  <1> HIDE DEF item
  <1>6. /\ local' \in [Screens -> Item \cup {Nothing}]
        /\ local'[s] = item
        /\ \A t \in Screens \ {s} : local'[t] = local[t]
    BY <1>1, <1>2, <1>5 DEF TypeOK
  <1>7. ItemsOK(s)'
    BY <1>1, <1>2, <1>3, <1>4, <1>5, <1>6 DEF TabOK, ItemsOK, Current
  <1>8. Posting(s)'
    BY <1>1, <1>2, <1>5, <1>6 DEF TabOK, Posting
  <1>9. (\A d \in CallIds : CallOK(calls[s][d]))'
    BY <1>1, <1>2 DEF TabOK, CallOK
  <1>10. ~doubt'[s] => Certain(s)'
    BY <1>1, <1>2 DEF TabOK, Certain, Free, Resting
  <1>11. TabOK(s)'
    BY <1>7, <1>8, <1>9, <1>10 DEF TabOK
  <1> QED  BY <1>1, <1>2, <1>3, <1>6, <1>11, TabStep DEF TypeOK

-----------------------------------------------------------------------------
(* What a tab does with an answer.                                         *)

\* A call that ends is forgotten.
LEMMA EndsIs ==
  ASSUME IInv, NEW s \in Screens, NEW c \in CallIds, Ends(s, c)
  PROVE  /\ calls' \in [Screens -> [CallIds -> Call]]
         /\ calls'[s][c] = NoCall
         /\ NoCall.kind = "none" /\ NoCall.stage = "sent"
         /\ \A d \in CallIds \ {c} : calls'[s][d] = calls[s][d]
         /\ \A t \in Screens \ {s} : calls'[t] = calls[t]
         /\ CallOK(calls'[s][c])
  <1>1. NoCall \in Call /\ NoCall.kind = "none" /\ NoCall.stage = "sent"
    BY NothingIs DEF NoCall
  <1>2. calls' = [calls EXCEPT ![s][c] = NoCall] /\ TypeOK
    BY DEF Ends, IInv
  <1>3. /\ calls' \in [Screens -> [CallIds -> Call]]
        /\ calls'[s][c] = NoCall
        /\ \A d \in CallIds \ {c} : calls'[s][d] = calls[s][d]
        /\ \A t \in Screens \ {s} : calls'[t] = calls[t]
    BY <1>1, <1>2, OneCall
  <1> QED  BY <1>1, <1>3 DEF CallOK

\* An answer of the row's write is the row as it is.
LEMMA SameWrite ==
  ASSUME IInv, NEW s \in Screens, NEW c \in CallIds, calls[s][c].stage = "done",
         calls[s][c].item.write = FromApi(row).write
  PROVE  calls[s][c].item = FromApi(row)
  <1>1. TypeOK /\ RowOK /\ CallOK(calls[s][c])
    BY DEF IInv, TabOK
  <1>2. CASE row.write = 0
    <2>1. FromApi(row) = Nothing /\ calls[s][c].item.write = -1
      BY <1>1, <1>2, RowIs, NothingIs
    <2> QED  BY <1>1, <2>1, CallIs, ItemIs DEF Is
  <1>3. CASE row.write # 0
    BY <1>1, <1>3, RowIs DEF CallOK
  <1> QED  BY <1>2, <1>3

\* The answer of a refresh replaces what is shown.
LEMMA GetAnswerStep ==
  ASSUME IInv, NEW s \in Screens, NEW c \in CallIds, GetAnswer(s, c)
  PROVE  IInv'
  <1> DEFINE item == calls[s][c].item
  <1>1. TabOK(s) /\ TypeOK /\ CallOK(calls[s][c])
    BY DEF IInv, TabOK
  <1>2. /\ calls[s][c].kind = "get" /\ calls[s][c].stage = "done"
        /\ shown' = [shown EXCEPT ![s] = item]
        /\ Ends(s, c) /\ row' = row /\ local' = local /\ draft' = draft
    BY DEF GetAnswer, Answered
  <1>3. /\ calls' \in [Screens -> [CallIds -> Call]]
        /\ calls'[s][c] = NoCall
        /\ NoCall.kind = "none" /\ NoCall.stage = "sent"
        /\ \A d \in CallIds \ {c} : calls'[s][d] = calls[s][d]
        /\ \A t \in Screens \ {s} : calls'[t] = calls[t]
        /\ CallOK(calls'[s][c])
    BY <1>2, EndsIs
  <1>4. item \in Item \cup {Nothing}
    BY <1>1, CallIs
  <1>5. /\ shown' \in [Screens -> Item \cup {Nothing}]
        /\ shown'[s] = item
        /\ \A t \in Screens \ {s} : shown'[t] = shown[t]
    BY <1>1, <1>2, <1>4 DEF TypeOK
  <1>6. /\ doubt' \in [Screens -> BOOLEAN]
        /\ \A t \in Screens \ {s} : doubt'[t] = doubt[t]
        /\ ~doubt'[s] => \/ ~doubt[s]
                         \/ /\ item.write = FromApi(row).write
                            /\ \A d \in CallIds \ {c} : Free(s, d)
    BY <1>1 DEF GetAnswer, TypeOK
  <1>7. ItemsOK(s)'
    <2>1. Sane(item) /\ item.write <= row.write /\ Current(item)
      BY <1>1, <1>2 DEF CallOK, Current
    <2> HIDE DEF item
    <2> QED  BY <1>1, <1>2, <1>5, <2>1 DEF TabOK, ItemsOK, Current
  <1>8. Posting(s)'
    <2>1. \A d \in CallIds : calls'[s][d].kind = "post" <=> calls[s][d].kind = "post"
      BY <1>2, <1>3
    <2> QED  BY <1>1, <1>2, <2>1 DEF TabOK, Posting
  <1>9. (\A d \in CallIds : CallOK(calls[s][d]))'
    BY <1>2, <1>3, CallsKept
  <1>10. ~doubt'[s] => Certain(s)'
    <2> SUFFICES ASSUME ~doubt'[s] PROVE Certain(s)'
      OBVIOUS
    <2>1. item = FromApi(row) /\ \A d \in CallIds \ {c} : Free(s, d)
      <3>1. CASE ~doubt[s]
        BY <1>1, <1>2, <3>1 DEF TabOK, Certain, Free
      <3>2. CASE item.write = FromApi(row).write /\ \A d \in CallIds \ {c} : Free(s, d)
        BY <1>2, <3>2, SameWrite
      <3> QED  BY <1>6, <3>1, <3>2
    <2>2. \A d \in CallIds : calls'[s][d].kind = "none" /\ calls'[s][d].stage = "sent"
      BY <1>1, <1>3, <2>1 DEF Free, TabOK, CallOK
    <2>3. shown'[s] = FromApi(row')
      BY <1>2, <1>5, <2>1
    <2> QED  BY <2>2, <2>3 DEF Certain, Free, Resting
  <1>11. TabOK(s)'
    BY <1>7, <1>8, <1>9, <1>10 DEF TabOK
  <1> QED  BY <1>1, <1>2, <1>3, <1>5, <1>6, <1>11, TabStep DEF TypeOK

\* A refresh that fails puts its tab in doubt.
LEMMA GetFailsStep ==
  ASSUME IInv, NEW s \in Screens, NEW c \in CallIds, GetFails(s, c)
  PROVE  IInv'
  <1>1. TabOK(s) /\ TypeOK
    BY DEF IInv
  <1>2. /\ calls[s][c].kind = "get"
        /\ doubt' = [doubt EXCEPT ![s] = TRUE]
        /\ Ends(s, c) /\ row' = row /\ shown' = shown /\ local' = local /\ draft' = draft
    BY DEF GetFails
  <1>3. /\ calls' \in [Screens -> [CallIds -> Call]]
        /\ calls'[s][c] = NoCall
        /\ NoCall.kind = "none" /\ NoCall.stage = "sent"
        /\ \A d \in CallIds \ {c} : calls'[s][d] = calls[s][d]
        /\ \A t \in Screens \ {s} : calls'[t] = calls[t]
        /\ CallOK(calls'[s][c])
    BY <1>2, EndsIs
  <1>4. /\ doubt' \in [Screens -> BOOLEAN] /\ doubt'[s]
        /\ \A t \in Screens \ {s} : doubt'[t] = doubt[t]
    BY <1>1, <1>2 DEF TypeOK
  <1>5. ItemsOK(s)'
    BY <1>1, <1>2 DEF TabOK, ItemsOK, Current
  <1>6. Posting(s)'
    <2>1. \A d \in CallIds : calls'[s][d].kind = "post" <=> calls[s][d].kind = "post"
      BY <1>2, <1>3
    <2> QED  BY <1>1, <1>2, <2>1 DEF TabOK, Posting
  <1>7. (\A d \in CallIds : CallOK(calls[s][d]))'
    BY <1>2, <1>3, CallsKept
  <1>8. TabOK(s)'
    BY <1>4, <1>5, <1>6, <1>7 DEF TabOK
  <1> QED  BY <1>1, <1>2, <1>3, <1>4, <1>8, TabStep DEF TypeOK

\* The answer of a creation takes the place of the local item.
LEMMA PostAnswerStep ==
  ASSUME IInv, NEW s \in Screens, NEW c \in CallIds, PostAnswer(s, c)
  PROVE  IInv'
  <1> DEFINE item == IF Is(local[s]) THEN calls[s][c].item ELSE shown[s]
  <1>1. TabOK(s) /\ TypeOK /\ CallOK(calls[s][c])
    BY DEF IInv, TabOK
  <1>2. /\ calls[s][c].kind = "post" /\ calls[s][c].stage = "done"
        /\ shown' = [shown EXCEPT ![s] = item]
        /\ local' = [local EXCEPT ![s] = Nothing]
        /\ Ends(s, c) /\ row' = row /\ draft' = draft /\ doubt' = doubt
    BY DEF PostAnswer, Answered
  <1>3. /\ calls' \in [Screens -> [CallIds -> Call]]
        /\ calls'[s][c] = NoCall
        /\ NoCall.kind = "none" /\ NoCall.stage = "sent"
        /\ \A d \in CallIds \ {c} : calls'[s][d] = calls[s][d]
        /\ \A t \in Screens \ {s} : calls'[t] = calls[t]
        /\ CallOK(calls'[s][c])
    BY <1>2, EndsIs
  <1>4. item = calls[s][c].item
    BY <1>1, <1>2 DEF TabOK, Posting
  <1> HIDE DEF item
  <1>5. item \in Item \cup {Nothing}
    BY <1>1, <1>4, CallIs
  <1>6. /\ shown' \in [Screens -> Item \cup {Nothing}]
        /\ shown'[s] = item
        /\ \A t \in Screens \ {s} : shown'[t] = shown[t]
    BY <1>1, <1>2, <1>5 DEF TypeOK
  <1>7. /\ local' \in [Screens -> Item \cup {Nothing}]
        /\ local'[s] = Nothing
        /\ \A t \in Screens \ {s} : local'[t] = local[t]
    BY <1>1, <1>2 DEF TypeOK
  <1>8. ItemsOK(s)'
    <2>1. Sane(item) /\ item.write <= row.write /\ Current(item)
      BY <1>1, <1>2, <1>4 DEF CallOK, Current
    <2>2. Sane(Nothing) /\ Nothing.write <= 0
      BY NothingIs DEF Sane, Funded, Empty
    <2> QED  BY <1>1, <1>2, <1>6, <1>7, <2>1, <2>2 DEF TabOK, ItemsOK, Current
  <1>9. Posting(s)'
    <2>1. \A d \in CallIds : calls'[s][d].kind # "post"
      BY <1>1, <1>2, <1>3 DEF TabOK, Posting
    <2> QED  BY <1>7, <2>1 DEF Posting, Is
  <1>10. (\A d \in CallIds : CallOK(calls[s][d]))'
    BY <1>2, <1>3, CallsKept
  <1>11. ~doubt'[s] => Certain(s)'
    <2> SUFFICES ASSUME ~doubt'[s] PROVE Certain(s)'
      OBVIOUS
    <2>1. item = FromApi(row) /\ \A d \in CallIds \ {c} : Free(s, d)
      BY <1>1, <1>2, <1>4 DEF TabOK, Certain, Free
    <2>2. \A d \in CallIds : calls'[s][d].kind = "none" /\ calls'[s][d].stage = "sent"
      BY <1>1, <1>3, <2>1 DEF Free, TabOK, CallOK
    <2>3. shown'[s] = FromApi(row')
      BY <1>2, <1>6, <2>1
    <2> QED  BY <2>2, <2>3 DEF Certain, Free, Resting
  <1>12. TabOK(s)'
    BY <1>8, <1>9, <1>10, <1>11 DEF TabOK
  <1> QED  BY <1>1, <1>2, <1>3, <1>6, <1>7, <1>12, TabStep DEF TypeOK

\* The answer of an edit replaces what is shown.
LEMMA PutAnswerStep ==
  ASSUME IInv, NEW s \in Screens, NEW c \in CallIds, PutAnswer(s, c)
  PROVE  IInv'
  <1> DEFINE item == IF Is(shown[s]) THEN calls[s][c].item ELSE shown[s]
  <1>1. TabOK(s) /\ TypeOK /\ CallOK(calls[s][c])
    BY DEF IInv, TabOK
  <1>2. /\ calls[s][c].kind = "put" /\ calls[s][c].stage = "done"
        /\ shown' = [shown EXCEPT ![s] = item]
        /\ Ends(s, c) /\ row' = row /\ local' = local /\ draft' = draft /\ doubt' = doubt
    BY DEF PutAnswer, Answered
  <1>3. /\ calls' \in [Screens -> [CallIds -> Call]]
        /\ calls'[s][c] = NoCall
        /\ NoCall.kind = "none" /\ NoCall.stage = "sent"
        /\ \A d \in CallIds \ {c} : calls'[s][d] = calls[s][d]
        /\ \A t \in Screens \ {s} : calls'[t] = calls[t]
        /\ CallOK(calls'[s][c])
    BY <1>2, EndsIs
  <1>4. /\ item \in Item \cup {Nothing}
        /\ Sane(item) /\ item.write <= row.write /\ Current(item)
    BY <1>1, <1>2, CallIs DEF TypeOK, TabOK, ItemsOK, CallOK, Current
  <1>5. ~doubt[s] => item = FromApi(row) /\ \A d \in CallIds \ {c} : Free(s, d)
    BY <1>1, <1>2 DEF TabOK, Certain, Free
  <1> HIDE DEF item
  <1>6. /\ shown' \in [Screens -> Item \cup {Nothing}]
        /\ shown'[s] = item
        /\ \A t \in Screens \ {s} : shown'[t] = shown[t]
    BY <1>1, <1>2, <1>4 DEF TypeOK
  <1>7. ItemsOK(s)'
    BY <1>1, <1>2, <1>4, <1>6 DEF TabOK, ItemsOK, Current
  <1>8. Posting(s)'
    <2>1. \A d \in CallIds : calls'[s][d].kind = "post" <=> calls[s][d].kind = "post"
      BY <1>2, <1>3
    <2> QED  BY <1>1, <1>2, <2>1 DEF TabOK, Posting
  <1>9. (\A d \in CallIds : CallOK(calls[s][d]))'
    BY <1>2, <1>3, CallsKept
  <1>10. ~doubt'[s] => Certain(s)'
    <2> SUFFICES ASSUME ~doubt'[s] PROVE Certain(s)'
      OBVIOUS
    <2>1. \A d \in CallIds : calls'[s][d].kind = "none" /\ calls'[s][d].stage = "sent"
      BY <1>1, <1>2, <1>3, <1>5 DEF Free, TabOK, CallOK
    <2>2. shown'[s] = FromApi(row')
      BY <1>2, <1>5, <1>6
    <2> QED  BY <2>1, <2>2 DEF Certain, Free, Resting
  <1>11. TabOK(s)'
    BY <1>7, <1>8, <1>9, <1>10 DEF TabOK
  <1> QED  BY <1>1, <1>2, <1>3, <1>6, <1>11, TabStep DEF TypeOK

\* After a failure the tab reads everything again.
LEMMA FailedStep ==
  ASSUME IInv, NEW s \in Screens, NEW c \in CallIds, NEW kind \in {"post", "put"},
         Failed(s, c, kind)
  PROVE  IInv'
  <1> DEFINE item == IF kind = "post" THEN Nothing ELSE local[s]
             again == [NoCall EXCEPT !.kind = "get"]
  <1>1. TabOK(s) /\ TypeOK
    BY DEF IInv
  <1>2. /\ calls[s][c].kind = kind /\ calls[s][c].stage = "failed"
        /\ local' = [local EXCEPT ![s] = item]
        /\ calls' = [calls EXCEPT ![s][c] = again]
        /\ row' = row /\ shown' = shown /\ draft' = draft /\ doubt' = doubt
    BY DEF Failed, Recover
  <1>3. again \in Call /\ again.kind = "get" /\ again.stage = "sent"
    BY NothingIs DEF NoCall, Call
  <1>4. /\ item \in Item \cup {Nothing} /\ Sane(item) /\ item.write <= 0
        /\ kind = "post" => item = Nothing
        /\ kind = "put" => item = local[s]
    BY <1>1, NothingIs DEF TypeOK, TabOK, ItemsOK, Sane, Funded, Empty
  <1> HIDE DEF item, again
  <1>5. /\ calls' \in [Screens -> [CallIds -> Call]]
        /\ calls'[s][c] = again
        /\ \A d \in CallIds \ {c} : calls'[s][d] = calls[s][d]
        /\ \A t \in Screens \ {s} : calls'[t] = calls[t]
    BY <1>1, <1>2, <1>3, OneCall
  <1>6. /\ local' \in [Screens -> Item \cup {Nothing}]
        /\ local'[s] = item
        /\ \A t \in Screens \ {s} : local'[t] = local[t]
    BY <1>1, <1>2, <1>4 DEF TypeOK
  <1>7. ItemsOK(s)'
    BY <1>1, <1>2, <1>4, <1>6 DEF TabOK, ItemsOK, Current
  <1>8. Posting(s)'
    <2>1. CASE kind = "post"
      <3>1. \A d \in CallIds : calls'[s][d].kind # "post"
        BY <1>1, <1>2, <1>3, <1>5, <2>1 DEF TabOK, Posting
      <3> QED  BY <1>4, <1>6, <2>1, <3>1 DEF Posting, Is
    <2>2. CASE kind = "put"
      <3>1. \A d \in CallIds : calls'[s][d].kind = "post" <=> calls[s][d].kind = "post"
        BY <1>2, <1>3, <1>5, <2>2
      <3> QED  BY <1>1, <1>4, <1>6, <2>2, <3>1 DEF TabOK, Posting
    <2> QED  BY <2>1, <2>2
  <1>9. CallOK(calls'[s][c])
    BY <1>3, <1>5 DEF CallOK
  <1>10. (\A d \in CallIds : CallOK(calls[s][d]))'
    BY <1>2, <1>5, <1>9, CallsKept
  <1>11. ~doubt'[s] => Certain(s)'
    <2> SUFFICES ASSUME ~doubt'[s] PROVE Certain(s)'
      OBVIOUS
    <2>1. \A d \in CallIds \ {c} : Free(s, d)
      BY <1>1, <1>2 DEF TabOK, Certain, Free
    <2>2. \A d \in CallIds \ {c} : calls'[s][d].kind = "none" /\ calls'[s][d].stage = "sent"
      BY <1>1, <1>5, <2>1 DEF Free, TabOK, CallOK
    <2> QED  BY <1>3, <1>5, <2>2 DEF Certain, Free, Resting
  <1>12. TabOK(s)'
    BY <1>7, <1>8, <1>10, <1>11 DEF TabOK
  <1> QED  BY <1>1, <1>2, <1>5, <1>6, <1>12, TabStep DEF TypeOK

-----------------------------------------------------------------------------
(* What the API does with a call.                                          *)

\* The answer of a call leaves its kind, and the other calls.
LEMMA StageIs ==
  ASSUME IInv, NEW s \in Screens, NEW c \in CallIds, NEW item \in Item \cup {Nothing},
         NEW stage \in {"sent", "done", "failed"},
         calls' = [calls EXCEPT ![s][c].stage = stage, ![s][c].item = item]
  PROVE  /\ calls' \in [Screens -> [CallIds -> Call]]
         /\ calls'[s][c].kind = calls[s][c].kind
         /\ calls'[s][c].stage = stage
         /\ calls'[s][c].item = item
         /\ \A d \in CallIds \ {c} : calls'[s][d] = calls[s][d]
         /\ \A t \in Screens \ {s} : calls'[t] = calls[t]
         /\ \A d \in CallIds : calls'[s][d].kind = calls[s][d].kind
  <1> DEFINE call == [kind |-> calls[s][c].kind, stage |-> stage, item |-> item]
  <1>1. TypeOK
    BY DEF IInv
  <1>2. call \in Call
    BY <1>1, CallIs DEF Call, Kinds
  <1>3. calls' = [calls EXCEPT ![s][c] = call]
    <2>1. calls \in [Screens -> [CallIds -> Call]]
      BY <1>1 DEF TypeOK
    <2>2. calls[s][c] = [kind |-> calls[s][c].kind, stage |-> calls[s][c].stage,
                         item |-> calls[s][c].item]
      BY <1>1, CallIs
    <2> DEFINE mid == [calls EXCEPT ![s][c].stage = stage]
    <2>3. mid = [calls EXCEPT ![s][c] = [kind |-> calls[s][c].kind, stage |-> stage,
                                         item |-> calls[s][c].item]]
      <3>1. [calls[s][c] EXCEPT !.stage = stage]
               = [kind |-> calls[s][c].kind, stage |-> stage, item |-> calls[s][c].item]
        BY <2>2
      <3> QED  BY <2>1, <3>1
    <2>4. calls' = [mid EXCEPT ![s][c].item = item]
      OBVIOUS
    <2>5. mid[s][c] = [kind |-> calls[s][c].kind, stage |-> stage, item |-> calls[s][c].item]
      BY <2>1, <2>3
    <2>6. [mid[s][c] EXCEPT !.item = item]
             = [kind |-> calls[s][c].kind, stage |-> stage, item |-> item]
      BY <2>5
    <2>7. mid \in [Screens -> [CallIds -> Call]]
      BY <1>1, <2>1, <2>3, CallIs DEF Call
    <2> QED  BY <2>1, <2>3, <2>4, <2>6, <2>7
  <1>4. call.kind = calls[s][c].kind /\ call.stage = stage /\ call.item = item
    OBVIOUS
  <1> HIDE DEF call
  <1>5. /\ calls' \in [Screens -> [CallIds -> Call]]
        /\ calls'[s][c] = call
        /\ \A d \in CallIds \ {c} : calls'[s][d] = calls[s][d]
        /\ \A t \in Screens \ {s} : calls'[t] = calls[t]
    BY <1>1, <1>2, <1>3, OneCall
  <1> QED  BY <1>4, <1>5

\* A refresh is answered with the row as it is.
LEMMA ServeGetStep ==
  ASSUME IInv, NEW s \in Screens, NEW c \in CallIds, ServeGet(s, c)
  PROVE  IInv'
  <1>1. TabOK(s) /\ TypeOK /\ RowOK
    BY DEF IInv
  <1>2. /\ calls[s][c].kind = "get"
        /\ calls' = [calls EXCEPT ![s][c].stage = "done", ![s][c].item = FromApi(row)]
        /\ row' = row /\ shown' = shown /\ local' = local /\ draft' = draft /\ doubt' = doubt
    BY DEF ServeGet, Waits, Answers
  <1>3. /\ FromApi(row) \in Item \cup {Nothing} /\ Sane(FromApi(row))
        /\ FromApi(row).write <= row.write
    BY <1>1, RowIs
  <1>4. /\ calls' \in [Screens -> [CallIds -> Call]]
        /\ calls'[s][c].kind = "get"
        /\ calls'[s][c].stage = "done"
        /\ calls'[s][c].item = FromApi(row)
        /\ \A d \in CallIds \ {c} : calls'[s][d] = calls[s][d]
        /\ \A t \in Screens \ {s} : calls'[t] = calls[t]
        /\ \A d \in CallIds : calls'[s][d].kind = calls[s][d].kind
    BY <1>2, <1>3, StageIs
  <1>5. ItemsOK(s)'
    BY <1>1, <1>2 DEF TabOK, ItemsOK, Current
  <1>6. Posting(s)'
    BY <1>1, <1>2, <1>4 DEF TabOK, Posting
  <1>7. CallOK(calls'[s][c])
    BY <1>3, <1>4 DEF CallOK
  <1>8. (\A d \in CallIds : CallOK(calls[s][d]))'
    BY <1>2, <1>4, <1>7, CallsKept
  <1>9. ~doubt'[s] => Certain(s)'
    <2> SUFFICES ASSUME ~doubt'[s] PROVE Certain(s)'
      OBVIOUS
    <2>1. Certain(s)
      BY <1>1, <1>2 DEF TabOK
    <2>2. \A d \in CallIds : calls'[s][d].stage = "done" => calls'[s][d].item = FromApi(row')
      BY <1>2, <1>4, <2>1 DEF Certain
    <2>3. \A d \in CallIds : Free(s, d)' <=> Free(s, d)
      BY <1>4 DEF Free
    <2> QED  BY <1>2, <1>4, <2>1, <2>2, <2>3 DEF Certain, Resting
  <1>10. TabOK(s)'
    BY <1>5, <1>6, <1>8, <1>9 DEF TabOK
  <1> QED  BY <1>1, <1>2, <1>4, <1>10, TabStep DEF TypeOK

\* A call that fails has no answer.
LEMMA FailStep ==
  ASSUME IInv, NEW s \in Screens, NEW c \in CallIds, Fail(s, c)
  PROVE  IInv'
  <1>1. TabOK(s) /\ TypeOK /\ RowOK
    BY DEF IInv
  <1>2. /\ calls[s][c].kind \in {"post", "put"}
        /\ calls' = [calls EXCEPT ![s][c].stage = "failed", ![s][c].item = Nothing]
        /\ row' = row /\ shown' = shown /\ local' = local /\ draft' = draft /\ doubt' = doubt
    BY DEF Fail
  <1>3. /\ calls' \in [Screens -> [CallIds -> Call]]
        /\ calls'[s][c].stage = "failed"
        /\ \A d \in CallIds \ {c} : calls'[s][d] = calls[s][d]
        /\ \A t \in Screens \ {s} : calls'[t] = calls[t]
        /\ \A d \in CallIds : calls'[s][d].kind = calls[s][d].kind
    BY <1>2, StageIs
  <1>4. ItemsOK(s)'
    BY <1>1, <1>2 DEF TabOK, ItemsOK, Current
  <1>5. Posting(s)'
    BY <1>1, <1>2, <1>3 DEF TabOK, Posting
  <1>6. CallOK(calls'[s][c])
    BY <1>2, <1>3 DEF CallOK
  <1>7. (\A d \in CallIds : CallOK(calls[s][d]))'
    BY <1>2, <1>3, <1>6, CallsKept
  <1>8. ~doubt'[s] => Certain(s)'
    <2> SUFFICES ASSUME ~doubt'[s] PROVE Certain(s)'
      OBVIOUS
    <2>1. Certain(s)
      BY <1>1, <1>2 DEF TabOK
    <2>2. \A d \in CallIds : calls'[s][d].stage = "done" => calls'[s][d].item = FromApi(row')
      BY <1>2, <1>3, <2>1 DEF Certain
    <2>3. \A d \in CallIds : Free(s, d)' <=> Free(s, d)
      BY <1>3 DEF Free
    <2> QED  BY <1>2, <1>3, <2>1, <2>2, <2>3 DEF Certain, Resting
  <1>9. TabOK(s)'
    BY <1>4, <1>5, <1>7, <1>8 DEF TabOK
  <1> QED  BY <1>1, <1>2, <1>3, <1>9, TabStep DEF TypeOK

\* A row given another slot, other columns and another JSON, and its next write.
With(r, slot, columns, details) ==
    [r EXCEPT !.slot = slot, !.columns = columns, !.json = details]

Numbered(r, write) == [r EXCEPT !.write = write]

\* A row with other details is a row.
LEMMA WithIs ==
  ASSUME NEW r \in Row, NEW slot \in Slots, NEW columns \in Details, NEW details \in Details
  PROVE  /\ With(r, slot, columns, details) \in Row
         /\ With(r, slot, columns, details).columns = columns
         /\ With(r, slot, columns, details).json = details
         /\ With(r, slot, columns, details).write = r.write
  <1> DEFINE a == [r EXCEPT !.slot = slot]
             b == [a EXCEPT !.columns = columns]
             c == [b EXCEPT !.json = details]
  <1>1. a \in Row /\ a.write = r.write
    BY DEF Row
  <1>2. b \in Row /\ b.write = r.write /\ b.columns = columns
    <2> HIDE DEF a
    <2> QED  BY <1>1 DEF Row
  <1>3. c \in Row /\ c.write = r.write /\ c.columns = columns /\ c.json = details
    <2> HIDE DEF b
    <2> QED  BY <1>2 DEF Row
  <1>4. With(r, slot, columns, details) = c
    BY DEF With
  <1> HIDE DEF c
  <1> QED  BY <1>3, <1>4

\* So is a row written anew.
LEMMA NumberedIs ==
  ASSUME NEW r \in Row, NEW write \in 0..MaxWrites
  PROVE  /\ Numbered(r, write) \in Row /\ Numbered(r, write).columns = r.columns
         /\ Numbered(r, write).json = r.json /\ Numbered(r, write).write = write
  BY DEF Row, Numbered

\* What a creation or an edit makes of the row.
LEMMA ServeWriteIs ==
  ASSUME IInv, NEW s \in Screens, NEW c \in CallIds, NEW kind \in {"post", "put"},
         ServeWrite(s, c, kind)
  PROVE  /\ row' \in Row /\ row'.write = row.write + 1
         /\ row'.columns = calls[s][c].item.details
         /\ RowOK'
         /\ doubt' = [t \in Screens |-> doubt[t] \/ t # s]
  <1> DEFINE item == calls[s][c].item
             moves == kind = "put" /\ item.slot # row.slot
             json == IF moves THEN row.json ELSE item.details
             new == [row EXCEPT !.slot = item.slot, !.columns = item.details, !.json = json]
  <1>1. TypeOK /\ RowOK /\ CallOK(calls[s][c])
    BY DEF IInv, TabOK
  <1>2. /\ calls[s][c].kind = kind /\ calls[s][c].stage = "sent"
        /\ row.write < MaxWrites
    BY DEF ServeWrite, Waits, MayWrite
  <1>3. item \in Item /\ Bare(item.details) /\ Funded(item.details)
    BY <1>1, <1>2, CallIs DEF CallOK
  <1>4. item.slot \in Slots /\ item.details \in Details
    BY <1>3 DEF Item
  <1>5. /\ row.slot \in Slots /\ row.columns \in Details /\ row.json \in Details
        /\ row.write \in 0..MaxWrites /\ row.write + 1 \in 0..MaxWrites
    BY <1>1, <1>2, ReservationStoreAssumption DEF TypeOK, Row
  <1>6. json \in Details /\ Funded(json)
    BY <1>1, <1>3, <1>4, <1>5 DEF RowOK
  <1>7. Written(new, {s})
    BY DEF ServeWrite
  <1> HIDE DEF json
  <1>9. /\ new \in Row /\ new.columns = item.details /\ new.json = json
        /\ new.write = row.write
    <2>1. row \in Row
      BY <1>1 DEF TypeOK
    <2>2. new = With(row, item.slot, item.details, json)
      BY DEF With
    <2> HIDE DEF new, item
    <2> QED  BY <1>4, <1>6, <2>1, <2>2, WithIs
  <1> HIDE DEF new
  <1>10. row' = Numbered(new, row.write + 1)
    BY <1>7 DEF Written, Numbered
  <1>11. /\ row' \in Row /\ row'.columns = item.details /\ row'.json = json
         /\ row'.write = row.write + 1
    BY <1>5, <1>9, <1>10, NumberedIs
  <1>12. doubt' = [t \in Screens |-> doubt[t] \/ t # s]
    BY <1>7 DEF Written
  <1> HIDE DEF item
  <1>13. RowOK'
    BY <1>3, <1>6, <1>11 DEF RowOK
  <1> QED  BY <1>11, <1>12, <1>13 DEF item

\* A creation or an edit is served: its own tab may still be certain of the row.
LEMMA ServeWriteStep ==
  ASSUME IInv, NEW s \in Screens, NEW c \in CallIds, NEW kind \in {"post", "put"},
         ServeWrite(s, c, kind)
  PROVE  IInv'
  <1>1. TypeOK /\ RowOK /\ TabOK(s)
    BY DEF IInv
  <1>2. /\ calls[s][c].kind = kind /\ calls[s][c].stage = "sent"
        /\ shown' = shown /\ local' = local /\ draft' = draft
        /\ calls' = [calls EXCEPT ![s][c].stage = "done", ![s][c].item = FromApi(row')]
    BY DEF ServeWrite, Waits, Answers
  <1>3. /\ row' \in Row /\ row'.write = row.write + 1 /\ RowOK'
        /\ doubt' = [t \in Screens |-> doubt[t] \/ t # s]
    BY ServeWriteIs
  <1>4. row.write \in Int /\ row.write >= 0
    BY <1>1, RowIs
  <1>5. /\ FromApi(row') \in Item /\ Sane(FromApi(row')) /\ FromApi(row').write = row'.write
    BY <1>3, <1>4, FromApiIs DEF RowOK
  <1>6. /\ calls' \in [Screens -> [CallIds -> Call]]
        /\ calls'[s][c].kind = kind
        /\ calls'[s][c].stage = "done"
        /\ calls'[s][c].item = FromApi(row')
        /\ \A d \in CallIds \ {c} : calls'[s][d] = calls[s][d]
        /\ \A t \in Screens \ {s} : calls'[t] = calls[t]
        /\ \A d \in CallIds : calls'[s][d].kind = calls[s][d].kind
    BY <1>2, <1>5, StageIs
  <1>7. /\ doubt' \in [Screens -> BOOLEAN]
        /\ \A t \in Screens : doubt'[t] = (doubt[t] \/ t # s)
    BY <1>1, <1>3 DEF TypeOK
  <1>8. ASSUME NEW t \in Screens \ {s} PROVE TabOK(t)'
    <2>1. calls'[t] = calls[t] /\ doubt'[t]
      BY <1>6, <1>7
    <2>2. ItemsOK(t)' /\ \A d \in CallIds : CallOK(calls[t][d])'
      BY <1>2, <1>3, <2>1, OldItems
    <2>3. Posting(t)'
      <3>1. Posting(t)
        BY DEF IInv, TabOK
      <3> QED  BY <1>2, <2>1, <3>1 DEF Posting
    <2> QED  BY <2>1, <2>2, <2>3 DEF TabOK
  <1>9. TabOK(s)'
    <2>1. ItemsOK(s)' /\ \A d \in CallIds \ {c} : CallOK(calls[s][d])'
      BY <1>2, <1>3, <1>6, OldItems
    <2>2. CallOK(calls[s][c])'
      <3>1. calls'[s][c].stage = "done" /\ calls'[s][c].kind # "none"
        BY <1>6
      <3>2. Sane(FromApi(row))' /\ (FromApi(row').write <= row'.write)
        BY <1>3, <1>4, <1>5 DEF Row, Sane, Funded
      <3> QED  BY <1>6, <3>1, <3>2 DEF CallOK, Sane, Funded
    <2>3. Posting(s)'
      BY <1>1, <1>2, <1>6 DEF TabOK, Posting
    <2>4. ~doubt'[s] => Certain(s)'
      <3> SUFFICES ASSUME ~doubt'[s] PROVE Certain(s)'
        OBVIOUS
      <3>1. Certain(s)
        BY <1>1, <1>7 DEF TabOK
      <3>2. \A d \in CallIds \ {c} : calls[s][d].kind = "none" /\ calls[s][d].stage = "sent"
        BY <1>1, <1>2, <3>1 DEF Certain, Free, TabOK, CallOK
      <3> QED  BY <1>2, <1>6, <3>1, <3>2 DEF Certain, Free, Resting
    <2> QED  BY <2>1, <2>2, <2>3, <2>4 DEF TabOK
  <1>10. \A t \in Screens : TabOK(t)'
    BY <1>8, <1>9
  <1>11. TypeOK'
    BY <1>1, <1>2, <1>3, <1>6, <1>7, <1>10 DEF TypeOK, TabOK, ItemsOK, Sane
  <1> QED  BY <1>3, <1>10, <1>11 DEF IInv

-----------------------------------------------------------------------------
(* What the API does behind the screens.                                   *)

\* The row with other columns and another JSON, in the same slot.
Changed(r, columns, details) == With(r, r.slot, columns, details)

\* A write behind the screens' back.
LEMMA BehindIs ==
  ASSUME IInv, MayWrite, NEW columns \in Details, NEW details \in Details,
         Bare(columns), Funded(columns), Funded(details),
         Behind(Changed(row, columns, details))
  PROVE  IInv'
  <1> DEFINE r == Changed(row, columns, details)
  <1>1. TypeOK /\ RowOK
    BY DEF IInv
  <1>2. /\ row \in Row /\ row.slot \in Slots
        /\ row.write + 1 \in 0..MaxWrites
    BY <1>1, ReservationStoreAssumption DEF TypeOK, Row, MayWrite
  <1>3. r \in Row /\ r.columns = columns /\ r.json = details /\ r.write = row.write
    BY <1>2, WithIs DEF Changed
  <1> HIDE DEF r
  <1>4. Behind(r)
    BY DEF r
  <1>5. row' = Numbered(r, row.write + 1)
    BY <1>4 DEF Behind, Written, Numbered
  <1>6. row' \in Row /\ row'.columns = columns /\ row'.json = details
    BY <1>2, <1>3, <1>5, NumberedIs
  <1>7. RowOK'
    BY <1>6 DEF RowOK
  <1> QED  BY <1>3, <1>4, <1>6, <1>7, BehindStep

\* The columns and the JSON of the row.
LEMMA RowFields ==
  ASSUME IInv
  PROVE  /\ row \in Row
         /\ row.columns \in Details /\ row.json \in Details
         /\ row.columns.captured \in BOOLEAN /\ row.columns.cancelled \in BOOLEAN
         /\ row.json.captured \in BOOLEAN /\ row.json.cancelled \in BOOLEAN
         /\ row.columns.refunds \in 0..2
         /\ Funded(row.columns) /\ Funded(row.json) /\ Bare(row.columns)
  <1>1. row \in Row /\ Funded(row.columns) /\ Funded(row.json) /\ Bare(row.columns)
    BY DEF IInv, TypeOK, RowOK
  <1>2. row.columns \in Details /\ row.json \in Details
    BY <1>1 DEF Row
  <1> QED  BY <1>1, <1>2 DEF Details

\* A payment.
LEMMA PayStep ==
  ASSUME IInv, Pay
  PROVE  IInv'
  <1> DEFINE columns == [row.columns EXCEPT !.status = "paid", !.captured = TRUE]
  <1>1. columns \in Details /\ Bare(columns) /\ Funded(columns)
    BY RowFields DEF Details, Statuses, Bare, Funded
  <1>2. [row EXCEPT !.columns.status = "paid", !.columns.captured = TRUE]
           = Changed(row, columns, row.json)
    BY RowFields DEF Row, Details, Changed, With
  <1>3. MayWrite /\ Behind(Changed(row, columns, row.json))
    BY <1>2 DEF Pay
  <1> HIDE DEF columns
  <1> QED  BY <1>1, <1>3, RowFields, BehindIs

\* A cancellation.
LEMMA CancelStep ==
  ASSUME IInv, Cancel
  PROVE  IInv'
  <1> DEFINE columns == [row.columns EXCEPT !.status = "cancelled", !.cancelled = TRUE]
             details == [row.json EXCEPT !.status = "cancelled", !.cancelled = TRUE]
  <1>1. columns \in Details /\ Bare(columns) /\ Funded(columns)
    BY RowFields DEF Details, Statuses, Bare, Funded
  <1>2. details \in Details /\ Funded(details)
    BY RowFields DEF Details, Statuses, Funded
  <1>3. [row EXCEPT !.columns.status = "cancelled", !.columns.cancelled = TRUE,
                    !.json.status = "cancelled", !.json.cancelled = TRUE]
           = Changed(row, columns, details)
    BY RowFields DEF Row, Details, Changed, With
  <1>4. MayWrite /\ Behind(Changed(row, columns, details))
    BY <1>3 DEF Cancel
  <1> HIDE DEF columns, details
  <1> QED  BY <1>1, <1>2, <1>4, BehindIs

\* A restoration: nothing was refunded.
LEMMA RestoreStep ==
  ASSUME IInv, Restore
  PROVE  IInv'
  <1> DEFINE next == IF row.columns.captured THEN "paid" ELSE "pending"
             columns == [row.columns EXCEPT !.status = next, !.cancelled = FALSE]
             details == [row.json EXCEPT !.status = next, !.cancelled = FALSE,
                                         !.captured = @ \/ row.columns.captured]
  <1>1. MayWrite /\ row.columns.refunds = 0
    BY DEF Restore
  <1>2. columns \in Details /\ Bare(columns) /\ Funded(columns)
    BY <1>1, RowFields DEF Details, Statuses, Bare, Funded
  <1>3. details \in Details /\ Funded(details)
    BY RowFields DEF Details, Statuses, Funded
  <1>4. [row EXCEPT !.columns.status = next, !.columns.cancelled = FALSE,
                    !.json.status = next, !.json.cancelled = FALSE,
                    !.json.captured = @ \/ row.columns.captured]
           = Changed(row, columns, details)
    <2> HIDE DEF next
    <2> QED  BY RowFields DEF Row, Details, Changed, With
  <1>5. Behind(Changed(row, columns, details))
    BY <1>4 DEF Restore
  <1> HIDE DEF columns, details
  <1> QED  BY <1>1, <1>2, <1>3, <1>5, BehindIs

\* A refund, in part or whole, that may cancel.
LEMMA RefundStep ==
  ASSUME IInv, NEW part \in BOOLEAN, NEW cancels \in BOOLEAN, Refund(part, cancels)
  PROVE  IInv'
  <1> DEFINE refunds == IF part THEN 1 ELSE 2
             status == IF part THEN "partly" ELSE "refunded"
             cancelled == row.columns.cancelled \/ cancels
             columns == [row.columns EXCEPT !.status = status, !.refunds = refunds,
                                            !.cancelled = cancelled]
             details == [row.json EXCEPT !.status = status, !.refunds = refunds,
                                         !.cancelled = @ \/ cancelled]
  <1>1. refunds \in 1..2 /\ status \in {"partly", "refunded"} /\ cancelled \in BOOLEAN
    BY RowFields
  <1>2. columns \in Details /\ Bare(columns) /\ Funded(columns)
    <2>1. /\ columns \in Details
          /\ columns.status = status /\ columns.refunds = refunds
      <3>1. status \in Statuses /\ refunds \in 0..2
        BY <1>1 DEF Statuses
      <3> HIDE DEF refunds, status, cancelled
      <3> QED  BY <1>1, <3>1, RowFields DEF Details
    <2> HIDE DEF refunds, status, columns
    <2> QED  BY <1>1, <2>1 DEF Bare, Funded
  <1>3. details \in Details /\ Funded(details)
    <2>1. /\ details \in Details
          /\ details.status = status /\ details.refunds = refunds
      <3>1. status \in Statuses /\ refunds \in 0..2
        BY <1>1 DEF Statuses
      <3> HIDE DEF refunds, status, cancelled
      <3> QED  BY <1>1, <3>1, RowFields DEF Details
    <2> HIDE DEF refunds, status, details
    <2> QED  BY <1>1, <2>1 DEF Funded
  <1>4. [row EXCEPT !.columns.status = status, !.columns.refunds = refunds,
                    !.columns.cancelled = cancelled,
                    !.json.status = status, !.json.refunds = refunds,
                    !.json.cancelled = @ \/ cancelled]
           = Changed(row, columns, details)
    <2> HIDE DEF refunds, status, cancelled
    <2> QED  BY RowFields DEF Row, Details, Changed, With
  <1>5. MayWrite /\ Behind(Changed(row, columns, details))
    BY <1>4 DEF Refund
  <1> HIDE DEF columns, details
  <1> QED  BY <1>2, <1>3, <1>5, BehindIs

-----------------------------------------------------------------------------
(* The theorems.                                                           *)

\* A step that changes nothing.
LEMMA StutterStep ==
  ASSUME IInv, UNCHANGED vars
  PROVE  IInv'
  <1>1. TypeOK' /\ RowOK'
    BY DEF IInv, TypeOK, RowOK, vars
  <1>2. ASSUME NEW t \in Screens PROVE TabOK(t)'
    <2>1. TabOK(t)
      BY DEF IInv
    <2>2. ItemsOK(t)' /\ Posting(t)'
      BY <2>1 DEF TabOK, ItemsOK, Current, Posting, vars
    <2>3. (\A c \in CallIds : CallOK(calls[t][c]))'
      BY <2>1 DEF TabOK, CallOK, vars
    <2>4. ~doubt'[t] => Certain(t)'
      BY <2>1 DEF TabOK, Certain, Free, Resting, vars
    <2> QED  BY <2>2, <2>3, <2>4 DEF TabOK
  <1> QED  BY <1>1, <1>2 DEF IInv

\* No step breaks the invariant.
LEMMA StepInv == IInv /\ [Next]_vars => IInv'
  <1> SUFFICES ASSUME IInv, [Next]_vars PROVE IInv'
    OBVIOUS
  <1>1. ASSUME NEW s \in Screens, Tab(s) PROVE IInv'
    <2>1. ASSUME NEW c \in CallIds, Refresh(s, c) PROVE IInv'
      BY <2>1, RefreshStep
    <2>2. ASSUME NEW c \in CallIds, NEW slot \in Slots, New(s, c, slot) PROVE IInv'
      BY <2>2, NewStep
    <2>3. ASSUME NEW c \in CallIds, NEW slot \in Slots, Save(s, c, slot) PROVE IInv'
      BY <2>3, SaveStep
    <2>4. ASSUME NEW slot \in Slots, SaveLocal(s, slot) PROVE IInv'
      BY <2>4, SaveLocalStep
    <2>5. ASSUME OpenForm(s) PROVE IInv'
      BY <2>5, OpenFormStep
    <2>6. ASSUME NEW c \in CallIds, GetAnswer(s, c) PROVE IInv'
      BY <2>6, GetAnswerStep
    <2>7. ASSUME NEW c \in CallIds, GetFails(s, c) PROVE IInv'
      BY <2>7, GetFailsStep
    <2>8. ASSUME NEW c \in CallIds, PostAnswer(s, c) PROVE IInv'
      BY <2>8, PostAnswerStep
    <2>9. ASSUME NEW c \in CallIds, PutAnswer(s, c) PROVE IInv'
      BY <2>9, PutAnswerStep
    <2>10. ASSUME NEW c \in CallIds, NEW kind \in {"post", "put"}, Failed(s, c, kind)
           PROVE  IInv'
      BY <2>10, FailedStep
    <2> QED
      BY <1>1, <2>1, <2>2, <2>3, <2>4, <2>5, <2>6, <2>7, <2>8, <2>9, <2>10 DEF Tab
  <1>2. ASSUME NEW s \in Screens, Serve(s) PROVE IInv'
    <2>1. ASSUME NEW c \in CallIds, ServeGet(s, c) PROVE IInv'
      BY <2>1, ServeGetStep
    <2>2. ASSUME NEW c \in CallIds, Fail(s, c) PROVE IInv'
      BY <2>2, FailStep
    <2>3. ASSUME NEW c \in CallIds, NEW kind \in {"post", "put"}, ServeWrite(s, c, kind)
          PROVE  IInv'
      BY <2>3, ServeWriteStep
    <2> QED  BY <1>2, <2>1, <2>2, <2>3 DEF Serve
  <1>3. CASE Pay
    BY <1>3, PayStep
  <1>4. CASE Cancel
    BY <1>4, CancelStep
  <1>5. CASE Restore
    BY <1>5, RestoreStep
  <1>6. ASSUME NEW part \in BOOLEAN, NEW cancels \in BOOLEAN, Refund(part, cancels)
        PROVE  IInv'
    BY <1>6, RefundStep
  <1>7. CASE UNCHANGED vars
    BY <1>7, StutterStep
  <1> QED  BY <1>1, <1>2, <1>3, <1>4, <1>5, <1>6, <1>7 DEF Next

\* Every variable keeps its type; no tab knows more writes than were made, nor shows a
\* reservation as paid and cancelled at once.
THEOREM TypeCorrect == Spec => []TypeOK
  <1>1. IInv => TypeOK
    BY DEF IInv
  <1> QED  BY <1>1, InitInv, StepInv, PTL DEF Spec

\* refresh, persistCreate, persistUpdate and their recoveries: whatever calls crossed or
\* failed before, a tab that has none under way and is not in doubt shows the row.
THEOREM RestIsAgreement == Spec => []AtRestAgrees
  <1>1. IInv => AtRestAgrees
    <2> SUFFICES ASSUME IInv, NEW s \in Screens, Resting(s), ~doubt[s]
                 PROVE  ~Is(local[s]) /\ shown[s] = FromApi(row)
      BY DEF AtRestAgrees
    <2>1. TabOK(s)
      BY DEF IInv
    <2>2. shown[s] = FromApi(row)
      BY <2>1 DEF TabOK, Certain
    <2>3. \A c \in CallIds : calls[s][c].kind # "post"
      BY DEF Resting, Free
    <2> QED  BY <2>1, <2>2, <2>3 DEF TabOK, Posting
  <1> QED  BY <1>1, InitInv, StepInv, PTL DEF Spec

\* An edit served from an item of the row as it is writes the columns of the row.
LEMMA PutKeeps ==
  ASSUME IInv, NEW s \in Screens, NEW c \in CallIds, ServeWrite(s, c, "put"),
         calls[s][c].item.write = row.write, InStep
  PROVE  /\ row'.columns.status = row.columns.status
         /\ row'.columns.cancelled = row.columns.cancelled
         /\ row'.columns.refunds = row.columns.refunds
         /\ row.columns.status = "paid" /\ row.columns.captured => row'.columns.captured
  <1>1. TypeOK /\ RowOK /\ CallOK(calls[s][c])
    BY DEF IInv, TabOK
  <1>2. calls[s][c].kind = "put" /\ calls[s][c].stage = "sent"
    BY DEF ServeWrite, Waits
  <1>3. row \in Row /\ row.write # 0
    BY <1>1, <1>2, RowIs DEF CallOK
  <1>4. row'.columns = Sent(FromApi(row)).details
    BY <1>1, <1>2, ServeWriteIs DEF CallOK
  <1> QED  BY <1>1, <1>3, <1>4, EditKeeps

\* update, reservationToApi and reservationFromApi: an edit whose form was up to date and
\* in step undoes no payment, no cancellation and no refund, though it writes them all.
THEOREM EditsUndoNothing == Spec => UpToDateEditKeeps
  <1> DEFINE Keeps(s, c) ==
               /\ row' # row
               /\ calls[s][c].kind = "put" /\ calls'[s][c] # calls[s][c]
               /\ calls[s][c].item.write = row.write
               /\ InStep
               => /\ row'.columns.status = row.columns.status
                  /\ row'.columns.cancelled = row.columns.cancelled
                  /\ row'.columns.refunds = row.columns.refunds
                  /\ row.columns.status = "paid" /\ row.columns.captured => row'.columns.captured
  <1>1. IInv /\ [Next]_vars => [\A s \in Screens, c \in CallIds : Keeps(s, c)]_vars
    <2> SUFFICES ASSUME IInv, Next, NEW s \in Screens, NEW c \in CallIds, row' # row,
                        calls[s][c].kind = "put", calls'[s][c] # calls[s][c],
                        calls[s][c].item.write = row.write, InStep
                 PROVE  Keeps(s, c)
      OBVIOUS
    <2>1. ASSUME NEW t \in Screens, Tab(t) PROVE FALSE
      BY <2>1 DEF Tab, Refresh, New, Save, SaveLocal, OpenForm, GetAnswer, GetFails,
                  PostAnswer, PutAnswer, Failed
    <2>2. ASSUME NEW t \in Screens, NEW d \in CallIds, ServeGet(t, d) \/ Fail(t, d)
          PROVE  FALSE
      BY <2>2 DEF ServeGet, Fail
    <2>3. ASSUME NEW t \in Screens, NEW d \in CallIds, NEW kind \in {"post", "put"},
                 ServeWrite(t, d, kind)
          PROVE  ServeWrite(s, c, "put")
      <3>1. calls' = [calls EXCEPT ![t][d].stage = "done", ![t][d].item = FromApi(row')]
        BY <2>3 DEF ServeWrite, Answers
      <3>2. row' \in Row /\ RowOK'
        BY <2>3, ServeWriteIs
      <3>3. FromApi(row') \in Item \cup {Nothing}
        BY <3>2, FromApiIs DEF RowOK
      <3>4. /\ \A e \in CallIds \ {d} : calls'[t][e] = calls[t][e]
            /\ \A u \in Screens \ {t} : calls'[u] = calls[u]
        BY <3>1, <3>3, StageIs
      <3>5. t = s /\ d = c
        BY <3>4
      <3>6. kind = "put"
        BY <2>3, <3>5 DEF ServeWrite, Waits
      <3> QED  BY <2>3, <3>5, <3>6
    <2>4. ~Pay /\ ~Cancel /\ ~Restore
      BY DEF Pay, Cancel, Restore, Behind
    <2>5. \A part, cancels \in BOOLEAN : ~Refund(part, cancels)
      BY DEF Refund, Behind
    <2>6. ServeWrite(s, c, "put")
      BY <2>1, <2>2, <2>3, <2>4, <2>5 DEF Next, Serve
    <2> QED  BY <2>6, PutKeeps
  <1> QED  BY <1>1, InitInv, StepInv, PTL DEF Spec, UpToDateEditKeeps

-----------------------------------------------------------------------------
(* Sums.                                                                   *)

(***************************************************************************)
(* What has been refunded of a reservation is a fold, a recursive function *)
(* on the sets of refunds. The provers apply no theorem of induction, for  *)
(* it has an operator for a parameter; here a family of counterexamples,   *)
(* which is a set, has a smallest member (SmallestSet).                    *)
(***************************************************************************)

\* The element that the fold takes out of a set.
Pick(s) == CHOOSE x \in s : TRUE

\* What the fold computes on every subset of S.
IsSums(g, f, S) ==
    g = [s \in SUBSET S |-> IF s = {} THEN 0 ELSE f[Pick(s)] + g[s \ {Pick(s)}]]

Sums(f, S) == CHOOSE g : IsSums(g, f, S)

\* The fold of the community modules is that function.
LEMMA FoldIsSums ==
  ASSUME NEW f, NEW S
  PROVE  SumFunctionOnSet(f, S) = Sums(f, S)[S]
  BY DEF SumFunctionOnSet, FoldFunctionOnSet, MapThenFoldSet, Sums, IsSums, Pick

\* It takes out a member.
LEMMA PickIsIn == \A s : s # {} => Pick(s) \in s
  BY DEF Pick

\* Finite induction without an operator for a parameter: a family of finite
\* sets that is not empty has a smallest member.
LEMMA SmallestSet ==
  ASSUME NEW S, IsFiniteSet(S), NEW F \in SUBSET SUBSET S, F # {}
  PROVE  \E T \in F : \A U \in F : U \subseteq T => U = T
  <1>1. F \subseteq FiniteSubsetsOf(S)
    BY FS_Subset DEF FiniteSubsetsOf
  <1>2. PICK T \in F : \A U \in F : ~(<<U, T>> \in StrictSubsetOrdering(S))
    BY <1>1, FS_StrictSubsetOrderingWellFounded, WFMin
  <1>3. ASSUME NEW U \in F, U \subseteq T  PROVE U = T
    BY <1>2, <1>3 DEF StrictSubsetOrdering
  <1> QED  BY <1>2, <1>3

\* Two such functions agree on the sets that both are about.
LEMMA SumsAgree ==
  ASSUME NEW f, NEW S, IsFiniteSet(S), NEW T \in SUBSET S,
         NEW g, IsSums(g, f, S), NEW h, IsSums(h, f, T)
  PROVE  \A s \in SUBSET T : g[s] = h[s]
  <1> DEFINE F == {s \in SUBSET T : g[s] # h[s]}
  <1> SUFFICES ASSUME F # {}  PROVE FALSE
    OBVIOUS
  <1>1. PICK s \in F : \A u \in F : u \subseteq s => u = s
    <2>1. IsFiniteSet(T) /\ F \in SUBSET SUBSET T
      BY FS_Subset
    <2> HIDE DEF F
    <2> QED  BY <2>1, SmallestSet
  <1>2. s \in SUBSET T /\ s \in SUBSET S /\ g[s] # h[s]
    BY <1>1
  <1>3. \A u \in SUBSET s : u # s => g[u] = h[u]
    BY <1>1, <1>2
  <1>4. g[s] = IF s = {} THEN 0 ELSE f[Pick(s)] + g[s \ {Pick(s)}]
    BY <1>2 DEF IsSums
  <1>5. h[s] = IF s = {} THEN 0 ELSE f[Pick(s)] + h[s \ {Pick(s)}]
    BY <1>2 DEF IsSums
  <1>6. CASE s = {}
    BY <1>2, <1>4, <1>5, <1>6
  <1>7. CASE s # {}
    <2>1. Pick(s) \in s
      BY <1>7, PickIsIn
    <2>2. g[s \ {Pick(s)}] = h[s \ {Pick(s)}]
      BY <1>3, <2>1
    <2> QED  BY <1>2, <1>4, <1>5, <1>7, <2>2
  <1> QED  BY <1>6, <1>7

\* There is one for every finite set.
LEMMA SumsExist ==
  ASSUME NEW f, NEW S, IsFiniteSet(S)
  PROVE  \E g : IsSums(g, f, S)
  <1> DEFINE F == {T \in SUBSET S : ~ \E g : IsSums(g, f, T)}
  <1> SUFFICES ASSUME F # {}  PROVE FALSE
    OBVIOUS
  <1>1. PICK T \in F : \A u \in F : u \subseteq T => u = T
    <2>1. F \in SUBSET SUBSET S
      OBVIOUS
    <2> HIDE DEF F
    <2> QED  BY <2>1, SmallestSet
  <1>2. T \in SUBSET S /\ ~ \E g : IsSums(g, f, T)
    BY <1>1
  <1> DEFINE G(u) == CHOOSE g : IsSums(g, f, u)
  <1>3. \A u \in SUBSET T : u # T => IsSums(G(u), f, u)
    BY <1>1, <1>2
  <1> DEFINE rest(u) == u \ {Pick(u)}
             h == [s \in SUBSET T |-> IF s = {} THEN 0 ELSE f[Pick(s)] + G(rest(s))[rest(s)]]
  <1>4. \A u \in SUBSET T : u # {} => rest(u) \in SUBSET T /\ rest(u) # T /\ rest(u) \subseteq u
    BY PickIsIn
  <1>5. ASSUME NEW u \in SUBSET T, u # T  PROVE h[u] = G(u)[u]
    <2>1. h[u] = IF u = {} THEN 0 ELSE f[Pick(u)] + G(rest(u))[rest(u)]
      OBVIOUS
    <2>2. G(u)[u] = IF u = {} THEN 0 ELSE f[Pick(u)] + G(u)[rest(u)]
      <3> DEFINE a == G(u)
      <3>1. IsSums(a, f, u)
        BY <1>3, <1>5
      <3> HIDE DEF a
      <3>2. a[u] = IF u = {} THEN 0 ELSE f[Pick(u)] + a[rest(u)]
        BY <3>1 DEF IsSums
      <3> QED  BY <3>2 DEF a
    <2>3. u # {} => G(u)[rest(u)] = G(rest(u))[rest(u)]
      <3>1. SUFFICES ASSUME u # {}  PROVE G(u)[rest(u)] = G(rest(u))[rest(u)]
        OBVIOUS
      <3>2. rest(u) \in SUBSET u /\ rest(u) \in SUBSET T /\ rest(u) # T
        BY <1>4, <3>1
      <3>3. IsSums(G(u), f, u) /\ IsSums(G(rest(u)), f, rest(u))
        BY <1>3, <1>5, <3>2
      <3>4. IsFiniteSet(u)
        BY <1>2, FS_Subset
      <3> DEFINE v == rest(u)
                 a == G(u)
                 b == G(v)
      <3>5. v \in SUBSET u /\ IsSums(a, f, u) /\ IsSums(b, f, v)
        BY <3>2, <3>3
      <3> HIDE DEF a, b, v
      <3>6. a[v] = b[v]
        BY <3>4, <3>5, SumsAgree
      <3> QED  BY <3>6 DEF a, b, v
    <2> HIDE DEF G, rest, h
    <2> QED  BY <2>1, <2>2, <2>3
  <1>6. IsSums(h, f, T)
    <2>1. \A s \in SUBSET T : s # {} => h[rest(s)] = G(rest(s))[rest(s)]
      BY <1>4, <1>5
    <2>2. h = [s \in SUBSET T |-> IF s = {} THEN 0 ELSE f[Pick(s)] + h[rest(s)]]
      <3>1. h = [s \in SUBSET T |-> IF s = {} THEN 0
                                    ELSE f[Pick(s)] + G(rest(s))[rest(s)]]
        OBVIOUS
      <3> HIDE DEF G, rest, h
      <3> QED  BY <2>1, <3>1
    <2> HIDE DEF G, h
    <2> QED  BY <2>2 DEF IsSums
  <1> HIDE DEF h
  <1> QED  BY <1>2, <1>6

\* The equations of a sum.
LEMMA SumOfNone == \A f : SumFunctionOnSet(f, {}) = 0
  <1> SUFFICES ASSUME NEW f  PROVE SumFunctionOnSet(f, {}) = 0
    OBVIOUS
  <1>1. IsFiniteSet({})
    BY FS_EmptySet
  <1>2. IsSums(Sums(f, {}), f, {})
    BY <1>1, SumsExist DEF Sums
  <1>3. Sums(f, {})[{}] = 0
    BY <1>2 DEF IsSums
  <1> QED  BY <1>3, FoldIsSums

\* The element picked goes first.
LEMMA SumOfPicked ==
  ASSUME NEW f, NEW S, IsFiniteSet(S), S # {}
  PROVE  SumFunctionOnSet(f, S) = f[Pick(S)] + SumFunctionOnSet(f, S \ {Pick(S)})
  <1> DEFINE R == S \ {Pick(S)}
  <1>1. IsFiniteSet(R) /\ R \in SUBSET S
    BY FS_RemoveElement
  <1>2. IsSums(Sums(f, S), f, S)
    BY SumsExist DEF Sums
  <1>3. IsSums(Sums(f, R), f, R)
    BY <1>1, SumsExist DEF Sums
  <1>4. Sums(f, S)[S] = f[Pick(S)] + Sums(f, S)[R]
    BY <1>2 DEF IsSums
  <1> HIDE DEF R
  <1>5. Sums(f, S)[R] = Sums(f, R)[R]
    BY <1>1, <1>2, <1>3, SumsAgree
  <1> QED  BY <1>4, <1>5, FoldIsSums DEF R

\* A sum of natural numbers is one.
LEMMA SumIsNatural ==
  ASSUME NEW f, NEW S, IsFiniteSet(S), \A x \in S : f[x] \in Nat
  PROVE  SumFunctionOnSet(f, S) \in Nat
  <1> DEFINE F == {T \in SUBSET S : SumFunctionOnSet(f, T) \notin Nat}
  <1> SUFFICES ASSUME F # {}  PROVE FALSE
    OBVIOUS
  <1>1. PICK T \in F : \A u \in F : u \subseteq T => u = T
    <2>1. F \in SUBSET SUBSET S
      OBVIOUS
    <2> HIDE DEF F
    <2> QED  BY <2>1, SmallestSet
  <1>2. T \in SUBSET S /\ SumFunctionOnSet(f, T) \notin Nat /\ IsFiniteSet(T)
    BY <1>1, FS_Subset
  <1>3. T # {}
    BY <1>2, SumOfNone
  <1>4. Pick(T) \in T
    BY <1>3, PickIsIn
  <1>5. SumFunctionOnSet(f, T \ {Pick(T)}) \in Nat
    BY <1>1, <1>2, <1>4
  <1>6. f[Pick(T)] \in Nat
    BY <1>2, <1>4
  <1> QED  BY <1>2, <1>3, <1>5, <1>6, SumOfPicked

\* A sum of smaller terms is smaller.
LEMMA SumIsMonotone ==
  ASSUME NEW f, NEW g, NEW S, IsFiniteSet(S),
         \A x \in S : f[x] \in Nat /\ g[x] \in Nat /\ f[x] <= g[x]
  PROVE  SumFunctionOnSet(f, S) <= SumFunctionOnSet(g, S)
  <1> DEFINE F == {T \in SUBSET S : ~(SumFunctionOnSet(f, T) <= SumFunctionOnSet(g, T))}
  <1> SUFFICES ASSUME F # {}  PROVE FALSE
    OBVIOUS
  <1>1. PICK T \in F : \A u \in F : u \subseteq T => u = T
    <2>1. F \in SUBSET SUBSET S
      OBVIOUS
    <2> HIDE DEF F
    <2> QED  BY <2>1, SmallestSet
  <1>2. /\ T \in SUBSET S /\ IsFiniteSet(T)
        /\ ~(SumFunctionOnSet(f, T) <= SumFunctionOnSet(g, T))
    BY <1>1, FS_Subset
  <1>3. T # {}
    BY <1>2, SumOfNone
  <1> DEFINE R == T \ {Pick(T)}
  <1>4. Pick(T) \in T
    BY <1>3, PickIsIn
  <1>5. SumFunctionOnSet(f, R) <= SumFunctionOnSet(g, R)
    BY <1>1, <1>2, <1>4
  <1>6. SumFunctionOnSet(f, R) \in Nat /\ SumFunctionOnSet(g, R) \in Nat
    <2>1. IsFiniteSet(R) /\ \A x \in R : f[x] \in Nat /\ g[x] \in Nat
      BY <1>2, FS_RemoveElement
    <2> HIDE DEF R
    <2> QED  BY <2>1, SumIsNatural
  <1>7. /\ f[Pick(T)] \in Nat /\ g[Pick(T)] \in Nat /\ f[Pick(T)] <= g[Pick(T)]
        /\ SumFunctionOnSet(f, T) = f[Pick(T)] + SumFunctionOnSet(f, R)
        /\ SumFunctionOnSet(g, T) = g[Pick(T)] + SumFunctionOnSet(g, R)
    BY <1>2, <1>3, <1>4, SumOfPicked
  <1> HIDE DEF R
  <1> QED  BY <1>2, <1>5, <1>6, <1>7

-----------------------------------------------------------------------------
(* The refunds of a reservation.                                           *)

(***************************************************************************)
(* The three properties of the refunds are inductive only with what a      *)
(* request still knows when it writes.  Recorded refunds only grow, so a   *)
(* status REFUNDED that was computed stays true whatever overlaps.  What is *)
(* under the cap when it was read stays so until it is recorded only if no *)
(* other request records, hence the rest is about requests that have come  *)
(* one at a time.                                                          *)
(***************************************************************************)

\* Stripe gives back no more than it has received, and a status REFUNDED that
\* is stored or about to be is still true.
RefundsOK ==
    /\ RefundsTypeOK
    /\ RefundedIsRefunded
    /\ \A r \in Requests :
          At(r, "write") /\ req[r].status = "REFUNDED" => recorded >= Collected - 1
    /\ \A p \in Payments : refunded[p] <= Received[p]

\* What a request that runs alone has read is still so.
StillKnown(r) ==
    /\ At(r, "list") \/ At(r, "total") => req[r].sum = recorded
    /\ At(r, "refund") \/ At(r, "record") => recorded + req[r].amount <= Collected

\* The status tells the refunds, or a confirmation has written over it, until a
\* refund is recorded, and again once the status computed from it is written; a
\* reservation about to be restored has none.
Told ==
    /\ \/ recorded = 0
       \/ reservation.confirmed /\ reservation.status = "RESERVED_PAID"
       \/ reservation.status \in {"CANCELLED", RefundStatus(recorded)}
       \/ \E r \in Requests : At(r, "status") \/ At(r, "write")
    /\ \A r \in Requests : At(r, "write") => req[r].status = RefundStatus(recorded)
    /\ \A r \in Requests : At(r, "restore") => recorded = 0

AloneOK ==
    ~overlapped =>
        /\ \A q, r \in Requests : q = r \/ At(q, "idle") \/ At(r, "idle")
        /\ NotBeyondCollected
        /\ \A r \in Requests : StillKnown(r)
        /\ aborts = 0 => Told

RefundsInv == RefundsOK /\ AloneOK

\* The values everything starts from.
LEMMA RefundsStart ==
  /\ Idle \in Request /\ Idle.pc = "idle"
  /\ \A n \in Nat : RefundStatus(n) \in PaidStatuses
  <1>1. Idle \in Request /\ Idle.pc = "idle"
    BY DEF Idle, Request, Steps, Tasks, PaidStatuses
  <1>2. \A n \in Nat : RefundStatus(n) \in PaidStatuses
    BY DEF RefundStatus, PaidStatuses
  <1> QED  BY <1>1, <1>2

\* What the ways a reservation may have been paid amount to.
LEMMA SaleIs ==
  ASSUME sale \in Sales
  PROVE  /\ DOMAIN Received = Payments /\ \A p \in Payments : Received[p] \in Nat
         /\ Named \in SUBSET Payments
         /\ Cash \in Nat /\ Collected \in Nat
  <1>1. sale \in Sale
    BY RefundsAssumption
  <1>2. /\ DOMAIN Received = Payments /\ \A p \in Payments : Received[p] \in Nat
        /\ Named \in SUBSET Payments /\ Cash \in Nat
    BY <1>1 DEF Sale, Received, Named, Cash
  <1>3. SumFunctionOnSet(Received, Payments) \in Nat
    BY <1>2, RefundsAssumption, SumIsNatural
  <1>4. Collected \in Nat
    BY <1>2, <1>3 DEF Collected, SumFunction
  <1> QED  BY <1>2, <1>4

\* A request that becomes a typed one keeps the others.
LEMMA RequestBecomes ==
  ASSUME NEW r \in Requests, NEW q \in Request, req \in [Requests -> Request], Becomes(r, q)
  PROVE  /\ req' \in [Requests -> Request]
         /\ req'[r] = q
         /\ \A u \in Requests : u # r => req'[u] = req[u]
  BY DEF Becomes

\* What the fields of a request are.
LEMMA RequestFields ==
  ASSUME NEW q \in Request
  PROVE  /\ q.pc \in Steps /\ q.task \in Tasks /\ q.amount \in Nat
         /\ q.cancel \in BOOLEAN /\ q.sum \in Nat /\ q.left \in Nat
         /\ q.targets \in SUBSET Target /\ q.status \in PaidStatuses
  BY DEF Request

\* A request is what its fields are.
LEMMA RequestMade ==
  ASSUME NEW pc \in Steps, NEW task \in Tasks, NEW amount \in Nat, NEW cancel \in BOOLEAN,
         NEW sum \in Nat, NEW left \in Nat, NEW targets \in SUBSET Target,
         NEW status \in PaidStatuses
  PROVE  [pc |-> pc, task |-> task, amount |-> amount, cancel |-> cancel, sum |-> sum,
          left |-> left, targets |-> targets, status |-> status] \in Request
  BY DEF Request

\* What is listed of Stripe are finitely many targets, of which a sum can be made.
LEMMA ListedTargets ==
  ASSUME NEW searched \in BOOLEAN, refunded \in [Payments -> Nat], sale \in Sales
  PROVE  /\ Listed(searched) \in SUBSET Target
         /\ SumFunction([t \in Listed(searched) |-> t.cents]) \in Nat
  <1>1. \A p \in Payments : Reported(p) \in Int
    BY SaleIs DEF Reported
  <1>2. \A S \in SUBSET Payments, by \in {"session", "intent"} :
           IsFiniteSet({[payment |-> p, by |-> by, cents |-> Reported(p)] : p \in S})
    <2> SUFFICES ASSUME NEW S \in SUBSET Payments, NEW by \in {"session", "intent"}
                 PROVE  IsFiniteSet({[payment |-> p, by |-> by, cents |-> Reported(p)] : p \in S})
      OBVIOUS
    <2> DEFINE T == {[payment |-> p, by |-> by, cents |-> Reported(p)] : p \in S}
               f == [p \in S |-> [payment |-> p, by |-> by, cents |-> Reported(p)]]
    <2>1. f \in [S -> T] /\ \A t \in T : \E p \in S : f[p] = t
      OBVIOUS
    <2>2. IsFiniteSet(S)
      BY RefundsAssumption, FS_Subset
    <2> HIDE DEF T, f
    <2>3. f \in Surjection(S, T)
      BY <2>1 DEF Surjection
    <2>4. IsFiniteSet(T)
      BY <2>2, <2>3, FS_Surjection DEF ExistsSurjection
    <2> QED  BY <2>4 DEF T
  <1>3. IsFiniteSet(Targets(searched))
    <2> DEFINE N == IF searched THEN Payments ELSE {}
    <2>1. N \in SUBSET Payments /\ Named \in SUBSET Payments
      BY SaleIs
    <2>2. Targets(searched) =
            {[payment |-> p, by |-> "session", cents |-> Reported(p)] : p \in Named}
            \cup {[payment |-> p, by |-> "intent", cents |-> Reported(p)] : p \in N}
      BY DEF Targets
    <2> HIDE DEF N
    <2> DEFINE A == {[payment |-> p, by |-> "session", cents |-> Reported(p)] : p \in Named}
               B == {[payment |-> p, by |-> "intent", cents |-> Reported(p)] : p \in N}
    <2>3. IsFiniteSet(A) /\ IsFiniteSet(B)
      BY <1>2, <2>1
    <2>4. Targets(searched) = A \cup B
      BY <2>2
    <2> HIDE DEF A, B
    <2> QED  BY <2>3, <2>4, FS_Union
  <1>4. \A t \in Targets(searched) :
           /\ t.payment \in Payments /\ t.by \in {"session", "intent"} /\ t.cents \in Int
           /\ t = [payment |-> t.payment, by |-> t.by, cents |-> t.cents]
    BY <1>1, SaleIs DEF Targets
  <1>5. \A t \in Listed(searched) :
           /\ t.payment \in Payments /\ t.by \in {"session", "intent"} /\ t.cents \in Nat
           /\ t = [payment |-> t.payment, by |-> t.by, cents |-> t.cents]
    BY <1>4 DEF Listed
  <1>6. Listed(searched) \in SUBSET Target
    BY <1>5 DEF Target
  <1>7. IsFiniteSet(Listed(searched))
    BY <1>3, FS_Subset DEF Listed
  <1> DEFINE S == Listed(searched)
             f == [t \in S |-> t.cents]
  <1>8. DOMAIN f = S /\ \A t \in S : f[t] \in Nat
    BY <1>5
  <1>9. IsFiniteSet(S)
    BY <1>7
  <1> HIDE DEF S, f
  <1>10. SumFunction(f) \in Nat
    BY <1>8, <1>9, SumIsNatural DEF SumFunction
  <1> QED  BY <1>6, <1>10 DEF S, f

\* What Stripe says it has given back is no more than the client has paid.
LEMMA StripeTotalIsLess ==
  ASSUME refunded \in [Payments -> Nat], \A p \in Payments : refunded[p] <= Received[p],
         sale \in Sales
  PROVE  StripeTotal \in Nat /\ StripeTotal <= Collected
  <1>1. /\ DOMAIN Received = Payments /\ DOMAIN refunded = Payments
        /\ \A p \in Payments : Received[p] \in Nat /\ refunded[p] \in Nat
        /\ Cash \in Nat
    BY SaleIs
  <1>2. /\ SumFunctionOnSet(Received, Payments) \in Nat
        /\ SumFunctionOnSet(refunded, Payments) \in Nat
    BY <1>1, RefundsAssumption, SumIsNatural
  <1>3. SumFunctionOnSet(refunded, Payments) <= SumFunctionOnSet(Received, Payments)
    BY <1>1, RefundsAssumption, SumIsMonotone
  <1> QED
    BY <1>1, <1>2, <1>3 DEF StripeTotal, Collected, SumFunction

\* It holds at the start.
LEMMA RefundsInitially == RefundsInit => RefundsInv
  <1> SUFFICES ASSUME RefundsInit  PROVE RefundsInv
    OBVIOUS
  <1>1. \A r \in Requests : req[r] = Idle /\ req[r].pc = "idle"
    BY RefundsStart DEF RefundsInit
  <1>2. RefundsTypeOK
    <2>1. reservation \in Reservation
      BY DEF RefundsInit, Reservation, PaidStatuses
    <2>2. refunded \in [Payments -> Nat] /\ recorded \in Nat /\ aborts \in 0..MaxAborts
      BY RefundsAssumption DEF RefundsInit
    <2>3. req \in [Requests -> Request]
      BY RefundsStart DEF RefundsInit
    <2> QED  BY <2>1, <2>2, <2>3, Zenon DEF RefundsInit, RefundsTypeOK
  <1>3. RefundsOK
    BY <1>1, <1>2, SaleIs DEF RefundsTypeOK, RefundsOK, RefundsInit, RefundedIsRefunded, At
  <1>4. AloneOK
    BY <1>1, <1>2, SaleIs DEF RefundsTypeOK, AloneOK, RefundsInit, NotBeyondCollected, StillKnown, Told, At
  <1> QED  BY <1>3, <1>4 DEF RefundsInv

\* A request that goes on, or dies, keeps the invariant if it writes nothing but
\* what Stripe gives back and what it remembers is so.
LEMMA GoesOn ==
  ASSUME NEW r \in Requests, NEW q \in Request, RefundsInv, ~At(r, "idle"), Becomes(r, q),
         UNCHANGED <<reservation, recorded, sale, dashboard, overlapped>>,
         refunded' \in [Payments -> Nat], \A p \in Payments : refunded'[p] <= Received[p],
         aborts' = aborts \/ (aborts' \in 1..MaxAborts),
         q.pc \in {"idle", "refund", "record", "status", "write", "confirm", "sum", "total"},
         q.pc = "total" => q.sum = recorded,
         q.pc = "write" => q.status = RefundStatus(recorded),
         q.pc \in {"refund", "record"} /\ ~overlapped => recorded + q.amount <= Collected,
         aborts' = 0 /\ (At(r, "status") \/ At(r, "write")) => q.pc = "write"
  PROVE  RefundsInv'
  <1>1. /\ RefundsTypeOK /\ RefundedIsRefunded /\ recorded \in Nat /\ Collected \in Nat
        /\ req \in [Requests -> Request]
    BY RefundsStart, SaleIs DEF RefundsInv, RefundsOK, RefundsTypeOK
  <1>2. /\ req' \in [Requests -> Request] /\ req'[r] = q
        /\ \A u \in Requests : u # r => req'[u] = req[u]
    BY <1>1, RequestBecomes
  <1>3. RefundsTypeOK'
    <2>1. (reservation \in Reservation)' /\ (recorded \in Nat)' /\ (sale \in Sales)'
          /\ (dashboard \in BOOLEAN)' /\ (overlapped \in BOOLEAN)'
      BY <1>1, Zenon DEF RefundsTypeOK
    <2>2. aborts' \in 0..MaxAborts
      BY <1>1, RefundsAssumption DEF RefundsTypeOK
    <2> QED  BY <1>2, <2>1, <2>2, Zenon DEF RefundsTypeOK
  <1>4. RefundsOK'
    <2>1. RefundedIsRefunded'
      BY <1>1 DEF RefundedIsRefunded, Collected, Received, Cash
    <2>2. ASSUME NEW u \in Requests, At(u, "write")', (req[u].status = "REFUNDED")'
          PROVE  (recorded >= Collected - 1)'
      <3>1. CASE u = r
        <4>1. RefundStatus(recorded) = "REFUNDED"
          BY <1>2, <2>2, <3>1 DEF At
        <4> QED  BY <4>1 DEF RefundStatus, Collected, Received, Cash
      <3>2. CASE u # r
        BY <1>2, <2>2, <3>2 DEF At, RefundsInv, RefundsOK, Collected, Received, Cash
      <3> QED  BY <3>1, <3>2
    <2> QED  BY <1>3, <2>1, <2>2 DEF RefundsOK, Received
  <1>5. AloneOK'
    <2> SUFFICES ASSUME ~overlapped
                 PROVE  /\ \A u, v \in Requests : u = v \/ At(u, "idle")' \/ At(v, "idle")'
                        /\ NotBeyondCollected'
                        /\ \A u \in Requests : StillKnown(u)'
                        /\ aborts' = 0 => Told'
      BY DEF AloneOK
    <2>1. /\ \A u, v \in Requests : u = v \/ At(u, "idle") \/ At(v, "idle")
          /\ NotBeyondCollected
          /\ aborts = 0 => Told
      BY DEF AloneOK, RefundsInv
    <2>2. \A u \in Requests : u # r => req'[u].pc = "idle"
      BY <1>2, <2>1 DEF At
    <2>3. \A u, v \in Requests : u = v \/ At(u, "idle")' \/ At(v, "idle")'
      BY <2>2 DEF At
    <2>4. NotBeyondCollected'
      BY <2>1 DEF NotBeyondCollected, Collected, Received, Cash
    <2>5. ASSUME NEW u \in Requests  PROVE StillKnown(u)'
      BY <1>2, <2>2 DEF StillKnown, At, Collected, Received, Cash
    <2>6. ASSUME aborts' = 0  PROVE Told'
      <3>1. aborts = 0 /\ Told
        BY <2>1, <2>6
      <3>2. \A u \in Requests : At(u, "write")' => (req[u].status = RefundStatus(recorded))'
        BY <1>2, <2>2 DEF At, RefundStatus, Collected, Received, Cash
      <3>3. \A u \in Requests : ~At(u, "restore")'
        BY <1>2, <2>2 DEF At
      <3>4. \/ recorded' = 0
            \/ reservation'.confirmed /\ reservation'.status = "RESERVED_PAID"
            \/ (reservation.status \in {"CANCELLED", RefundStatus(recorded)})'
            \/ \E u \in Requests : At(u, "status")' \/ At(u, "write")'
        <4>1. CASE \E u \in Requests : At(u, "status") \/ At(u, "write")
          <5>1. PICK u \in Requests : At(u, "status") \/ At(u, "write")
            BY <4>1
          <5>2. u = r
            BY <2>1, <5>1 DEF At
          <5>3. At(r, "write")'
            BY <1>2, <2>6, <5>1, <5>2 DEF At
          <5> QED  BY <5>3
        <4>2. CASE ~ \E u \in Requests : At(u, "status") \/ At(u, "write")
          BY <3>1, <4>2 DEF Told, RefundStatus, Collected, Received, Cash
        <4> QED  BY <4>1, <4>2
      <3> QED  BY <3>2, <3>3, <3>4 DEF Told
    <2> QED  BY <2>3, <2>4, <2>5, <2>6
  <1> QED  BY <1>4, <1>5 DEF RefundsInv

\* A request that begins, when it runs alone, knows what it has just read.
LEMMA StartsKnowing ==
  ASSUME NEW r \in Requests, NEW q \in Request, RefundsInv, Begins(r, q),
         q.pc \in {"list", "row", "total", "cancel", "restore"},
         q.pc \in {"list", "total"} => q.sum = recorded,
         q.pc = "restore" => recorded = 0
  PROVE  RefundsInv'
  <1>1. /\ RefundsTypeOK /\ RefundedIsRefunded /\ recorded \in Nat /\ Collected \in Nat
        /\ req \in [Requests -> Request]
    BY RefundsStart, SaleIs DEF RefundsInv, RefundsOK, RefundsTypeOK
  <1>2. /\ req' \in [Requests -> Request] /\ req'[r] = q
        /\ \A u \in Requests : u # r => req'[u] = req[u]
    BY <1>1, RequestBecomes DEF Begins
  <1>3. UNCHANGED <<reservation, recorded, refunded, sale, dashboard, aborts>>
    BY DEF Begins
  <1>4. RefundsTypeOK'
    <2>1. overlapped' \in BOOLEAN
      BY Zenon DEF Begins
    <2>2. (reservation \in Reservation)' /\ (recorded \in Nat)' /\ (sale \in Sales)'
          /\ (dashboard \in BOOLEAN)' /\ (aborts \in 0..MaxAborts)'
          /\ (refunded \in [Payments -> Nat])'
      BY <1>1, <1>3, Zenon DEF RefundsTypeOK
    <2> QED  BY <1>2, <2>1, <2>2, Zenon DEF RefundsTypeOK
  <1>5. RefundsOK'
    <2>1. RefundedIsRefunded'
      BY <1>1, <1>3 DEF RefundedIsRefunded, Collected, Received, Cash
    <2>2. ASSUME NEW u \in Requests, At(u, "write")', (req[u].status = "REFUNDED")'
          PROVE  (recorded >= Collected - 1)'
      <3>1. u # r
        BY <1>2, <2>2 DEF At
      <3> QED  BY <1>2, <1>3, <2>2, <3>1 DEF At, RefundsInv, RefundsOK, Collected, Received, Cash
    <2>3. \A p \in Payments : (refunded[p] <= Received[p])'
      BY <1>3 DEF RefundsInv, RefundsOK, Received
    <2> QED  BY <1>4, <2>1, <2>2, <2>3 DEF RefundsOK
  <1>6. AloneOK'
    <2> SUFFICES ASSUME ~overlapped'
                 PROVE  /\ \A u, v \in Requests : u = v \/ At(u, "idle")' \/ At(v, "idle")'
                        /\ NotBeyondCollected'
                        /\ \A u \in Requests : StillKnown(u)'
                        /\ aborts' = 0 => Told'
      BY DEF AloneOK
    <2>1. ~overlapped /\ \A u \in Requests : At(u, "idle")
      BY DEF Begins
    <2>2. NotBeyondCollected /\ (aborts = 0 => Told)
      BY <2>1 DEF AloneOK, RefundsInv
    <2>3. \A u \in Requests : u # r => req'[u].pc = "idle"
      BY <1>2, <2>1 DEF At
    <2>4. \A u, v \in Requests : u = v \/ At(u, "idle")' \/ At(v, "idle")'
      BY <2>3 DEF At
    <2>5. NotBeyondCollected'
      BY <1>3, <2>1, <2>2 DEF NotBeyondCollected, Collected, Received, Cash
    <2>6. ASSUME NEW u \in Requests  PROVE StillKnown(u)'
      BY <1>2, <1>3, <2>3 DEF StillKnown, At, Collected, Received, Cash
    <2>7. ASSUME aborts' = 0  PROVE Told'
      <3>1. Told
        BY <1>3, <2>2, <2>7
      <3>2. \/ recorded' = 0
            \/ reservation'.confirmed /\ reservation'.status = "RESERVED_PAID"
            \/ (reservation.status \in {"CANCELLED", RefundStatus(recorded)})'
        BY <1>3, <2>1, <3>1 DEF Told, At, RefundStatus, Collected, Received, Cash
      <3>3. \A u \in Requests : ~At(u, "write")' /\ (At(u, "restore")' => recorded' = 0)
        BY <1>2, <1>3, <2>3 DEF At
      <3> QED  BY <3>2, <3>3 DEF Told
    <2> QED  BY <2>4, <2>5, <2>6, <2>7
  <1> QED  BY <1>5, <1>6 DEF RefundsInv

\* A refund that is recorded was under the cap, if nobody else recorded one since
\* the sum was read; what was refunded in full stays so.
LEMMA RecordKeeps ==
  ASSUME NEW r \in Requests, RefundsInv, RecordRefund(r)
  PROVE  RefundsInv'
  <1> DEFINE q == [req[r] EXCEPT !.pc = "status", !.amount = 0]
  <1>1. /\ RefundsTypeOK /\ RefundedIsRefunded /\ recorded \in Nat /\ Collected \in Nat
        /\ req \in [Requests -> Request] /\ req[r].amount \in Nat
    BY SaleIs, RequestFields DEF RefundsInv, RefundsOK, RefundsTypeOK
  <1>2. q \in Request /\ q.pc = "status"
    BY <1>1 DEF Request, Steps
  <1>3. At(r, "record") /\ Becomes(r, q) /\ recorded' = recorded + req[r].amount
        /\ UNCHANGED <<reservation, refunded, sale, dashboard, aborts, overlapped>>
    BY DEF RecordRefund
  <1> HIDE DEF q
  <1>4. /\ req' \in [Requests -> Request] /\ req'[r] = q
        /\ \A u \in Requests : u # r => req'[u] = req[u]
    BY <1>1, <1>2, <1>3, RequestBecomes
  <1>5. recorded' \in Nat /\ recorded' >= recorded
    BY <1>1, <1>3
  <1>6. RefundsTypeOK'
    <2>1. (reservation \in Reservation)' /\ (sale \in Sales)' /\ (overlapped \in BOOLEAN)'
          /\ (dashboard \in BOOLEAN)' /\ (aborts \in 0..MaxAborts)'
          /\ (refunded \in [Payments -> Nat])'
      BY <1>1, <1>3, Zenon DEF RefundsTypeOK
    <2> QED  BY <1>4, <1>5, <2>1, Zenon DEF RefundsTypeOK
  <1>7. RefundsOK'
    <2>1. RefundedIsRefunded'
      BY <1>1, <1>3, <1>5 DEF RefundedIsRefunded, Collected, Received, Cash
    <2>2. ASSUME NEW u \in Requests, At(u, "write")', (req[u].status = "REFUNDED")'
          PROVE  (recorded >= Collected - 1)'
      <3>1. u # r
        BY <1>2, <1>4, <2>2 DEF At
      <3>2. recorded >= Collected - 1
        BY <1>4, <2>2, <3>1 DEF At, RefundsInv, RefundsOK
      <3> QED  BY <1>1, <1>3, <1>5, <3>2 DEF Collected, Received, Cash
    <2>3. \A p \in Payments : (refunded[p] <= Received[p])'
      BY <1>3 DEF RefundsInv, RefundsOK, Received
    <2> QED  BY <1>6, <2>1, <2>2, <2>3 DEF RefundsOK
  <1>8. AloneOK'
    <2> SUFFICES ASSUME ~overlapped'
                 PROVE  /\ \A u, v \in Requests : u = v \/ At(u, "idle")' \/ At(v, "idle")'
                        /\ NotBeyondCollected'
                        /\ \A u \in Requests : StillKnown(u)'
                        /\ aborts' = 0 => Told'
      BY DEF AloneOK
    <2>1. /\ \A u, v \in Requests : u = v \/ At(u, "idle") \/ At(v, "idle")
          /\ StillKnown(r)
      BY <1>3 DEF AloneOK, RefundsInv
    <2>2. \A u \in Requests : u # r => req'[u].pc = "idle"
      BY <1>3, <1>4, <2>1 DEF At
    <2>3. \A u, v \in Requests : u = v \/ At(u, "idle")' \/ At(v, "idle")'
      BY <2>2 DEF At
    <2>4. NotBeyondCollected'
      BY <1>3, <2>1 DEF NotBeyondCollected, StillKnown, Collected, Received, Cash
    <2>5. ASSUME NEW u \in Requests  PROVE StillKnown(u)'
      BY <1>2, <1>4, <2>2 DEF StillKnown, At
    <2>6. Told'
      BY <1>2, <1>4, <2>2 DEF Told, At
    <2> QED  BY <2>3, <2>4, <2>5, <2>6
  <1> QED  BY <1>7, <1>8 DEF RefundsInv

\* A request that writes the row keeps the invariant if what it writes is true and
\* tells the refunds or confirms; after it the request ends, or reads the refunds.
LEMMA WritesRow ==
  ASSUME NEW r \in Requests, NEW q \in Request, RefundsInv, ~At(r, "idle"), Becomes(r, q),
         q.pc \in {"idle", "sum"},
         UNCHANGED <<recorded, refunded, sale, dashboard, aborts, overlapped>>,
         reservation' \in Reservation,
         reservation'.status = "REFUNDED" => recorded >= Collected - 1,
         ~overlapped /\ aborts = 0 =>
            \/ recorded = 0
            \/ reservation'.confirmed /\ reservation'.status = "RESERVED_PAID"
            \/ reservation'.status \in {"CANCELLED", RefundStatus(recorded)}
  PROVE  RefundsInv'
  <1>1. /\ RefundsTypeOK /\ recorded \in Nat /\ Collected \in Nat
        /\ req \in [Requests -> Request]
    BY RefundsStart, SaleIs DEF RefundsInv, RefundsOK, RefundsTypeOK
  <1>2. /\ req' \in [Requests -> Request] /\ req'[r] = q
        /\ \A u \in Requests : u # r => req'[u] = req[u]
    BY <1>1, RequestBecomes
  <1>3. RefundsTypeOK'
    <2>1. (recorded \in Nat)' /\ (sale \in Sales)' /\ (overlapped \in BOOLEAN)'
          /\ (dashboard \in BOOLEAN)' /\ (aborts \in 0..MaxAborts)'
          /\ (refunded \in [Payments -> Nat])'
      BY <1>1, Zenon DEF RefundsTypeOK
    <2> QED  BY <1>2, <2>1, Zenon DEF RefundsTypeOK
  <1>4. RefundsOK'
    <2>1. RefundedIsRefunded'
      BY DEF RefundedIsRefunded, Collected, Received, Cash
    <2>2. ASSUME NEW u \in Requests, At(u, "write")', (req[u].status = "REFUNDED")'
          PROVE  (recorded >= Collected - 1)'
      <3>1. u # r
        BY <1>2, <2>2 DEF At
      <3> QED  BY <1>2, <2>2, <3>1 DEF At, RefundsInv, RefundsOK, Collected, Received, Cash
    <2>3. \A p \in Payments : (refunded[p] <= Received[p])'
      BY DEF RefundsInv, RefundsOK, Received
    <2> QED  BY <1>3, <2>1, <2>2, <2>3 DEF RefundsOK
  <1>5. AloneOK'
    <2> SUFFICES ASSUME ~overlapped'
                 PROVE  /\ \A u, v \in Requests : u = v \/ At(u, "idle")' \/ At(v, "idle")'
                        /\ NotBeyondCollected'
                        /\ \A u \in Requests : StillKnown(u)'
                        /\ aborts' = 0 => Told'
      BY DEF AloneOK
    <2>1. /\ \A u, v \in Requests : u = v \/ At(u, "idle") \/ At(v, "idle")
          /\ NotBeyondCollected
      BY DEF AloneOK, RefundsInv
    <2>2. \A u \in Requests : req'[u].pc \in {"idle", "sum"} /\ (u # r => req'[u].pc = "idle")
      BY <1>2, <2>1 DEF At
    <2>3. NotBeyondCollected'
      BY <2>1 DEF NotBeyondCollected, Collected, Received, Cash
    <2>4. ASSUME NEW u \in Requests  PROVE StillKnown(u)'
      BY <2>2 DEF StillKnown, At
    <2>5. ASSUME aborts' = 0  PROVE Told'
      BY <2>2, <2>5 DEF Told, At, RefundStatus, Collected, Received, Cash
    <2> QED  BY <2>2, <2>3, <2>4, <2>5 DEF At
  <1> QED  BY <1>4, <1>5 DEF RefundsInv

\* What the smaller of two amounts is.
LEMMA SmallerIs ==
  ASSUME NEW a \in Nat, NEW b \in Nat
  PROVE  Smaller(a, b) \in Nat /\ Smaller(a, b) <= a /\ Smaller(a, b) <= b
  BY DEF Smaller

\* issueRefund lists what can be refunded, under the cap.
LEMMA ListKeeps ==
  ASSUME NEW r \in Requests, RefundsInv, ListTargets(r)
  PROVE  RefundsInv'
  <1>1. /\ req \in [Requests -> Request] /\ refunded \in [Payments -> Nat] /\ At(r, "list")
        /\ sale \in Sales
        /\ recorded \in Nat /\ Collected \in Nat
        /\ \A p \in Payments : refunded[p] <= Received[p]
        /\ UNCHANGED <<reservation, recorded, refunded, sale, dashboard, aborts, overlapped>>
    BY RefundsStart, SaleIs DEF RefundsInv, RefundsOK, RefundsTypeOK, ListTargets
  <1>2. PICK searched \in BOOLEAN :
          LET targets == Listed(searched)
              refundable == SumFunction([t \in targets |-> t.cents])
              left == Smaller(req[r].amount, refundable)
          IN  Becomes(r, IF ~Allowed(req[r]) THEN Idle
                         ELSE [req[r] EXCEPT !.pc = IF left > 0 THEN "refund" ELSE "record",
                                             !.left = left, !.sum = 0,
                                             !.targets = IF left > 0 THEN targets ELSE {}])
    BY DEF ListTargets
  <1> DEFINE targets == Listed(searched)
             left == Smaller(req[r].amount, SumFunction([t \in targets |-> t.cents]))
             q == [req[r] EXCEPT !.pc = IF left > 0 THEN "refund" ELSE "record",
                                 !.left = left, !.sum = 0,
                                 !.targets = IF left > 0 THEN targets ELSE {}]
  <1>3. targets \in SUBSET Target /\ left \in Nat
    BY <1>1, ListedTargets, RequestFields, SmallerIs
  <1>4. Becomes(r, IF ~Allowed(req[r]) THEN Idle ELSE q)
    BY <1>2
  <1> HIDE DEF targets, left
  <1>5. q \in Request /\ q.pc \in {"refund", "record"} /\ q.amount = req[r].amount
    BY <1>1, <1>3 DEF Request, Steps
  <1> HIDE DEF q
  <1>6. req[r].amount \in Nat /\ req[r].sum \in Nat
    BY <1>1, RequestFields
  <1>7. Allowed(req[r]) /\ ~overlapped => recorded + q.amount <= Collected
    <2> SUFFICES ASSUME Allowed(req[r]), ~overlapped
                 PROVE  recorded + q.amount <= Collected
      OBVIOUS
    <2>1. req[r].sum = recorded /\ recorded <= Collected
      BY <1>1 DEF RefundsInv, AloneOK, StillKnown, NotBeyondCollected
    <2>2. req[r].amount <= IF Collected - recorded > 0 THEN Collected - recorded ELSE 0
      BY <2>1 DEF Allowed
    <2> QED  BY <1>1, <1>5, <1>6, <2>1, <2>2
  <1>8. CASE Allowed(req[r])
    <2>1. Becomes(r, q)
      BY <1>4, <1>8
    <2> QED  BY <1>1, <1>5, <1>7, <1>8, <2>1, GoesOn DEF At
  <1>9. CASE ~Allowed(req[r])
    <2>1. Becomes(r, Idle)
      BY <1>4, <1>9
    <2> QED  BY <1>1, <2>1, RefundsStart, GoesOn DEF At
  <1> QED  BY <1>8, <1>9

\* One target after the other is refunded, of which no more is taken than is left.
LEMMA RefundKeeps ==
  ASSUME NEW r \in Requests, RefundsInv, NEW t \in req[r].targets, RefundTarget(r, t)
  PROVE  RefundsInv'
  <1>1. /\ req \in [Requests -> Request] /\ refunded \in [Payments -> Nat] /\ At(r, "refund")
        /\ recorded \in Nat /\ Collected \in Nat
        /\ \A p \in Payments : refunded[p] <= Received[p] /\ Received[p] \in Nat
        /\ UNCHANGED <<reservation, recorded, sale, dashboard, aborts, overlapped>>
    BY SaleIs DEF RefundsInv, RefundsOK, RefundsTypeOK, RefundTarget
  <1>2. t.payment \in Payments /\ t.cents \in Nat /\ req[r].left \in Nat
    <2>1. req[r] \in Request
      BY <1>1
    <2>2. t \in Target
      BY <2>1, RequestFields
    <2> QED  BY <2>1, <2>2, RequestFields DEF Target
  <1> DEFINE chunk == Chunk(req[r], t)
             rest == [req[r] EXCEPT !.targets = @ \ {t}, !.left = @ - chunk]
             next == IF rest.left > 0 THEN rest
                     ELSE [rest EXCEPT !.pc = "record", !.targets = {}]
  <1>3. chunk \in Nat /\ chunk <= req[r].left
    BY <1>2, SmallerIs DEF Chunk
  <1>4. IF chunk <= Reported(t.payment) /\ chunk <= Left(t.payment)
        THEN refunded' = [refunded EXCEPT ![t.payment] = @ + chunk] /\ Becomes(r, next)
        ELSE /\ \/ Becomes(r, next)
                \/ Becomes(r, Idle)
             /\ UNCHANGED refunded
    BY DEF RefundTarget
  <1> HIDE DEF chunk
  <1>5. rest \in Request /\ rest.pc = "refund" /\ rest.amount = req[r].amount
    <2>1. req[r] \in Request /\ req[r].pc = "refund"
      BY <1>1 DEF At
    <2>2. req[r].left - chunk \in Nat
      BY <1>2, <1>3
    <2> QED  BY <2>1, <2>2 DEF Request
  <1> HIDE DEF rest
  <1>6. next \in Request /\ next.pc \in {"refund", "record"} /\ next.amount = req[r].amount
    BY <1>5 DEF Request, Steps
  <1> HIDE DEF next
  <1>7. refunded' \in [Payments -> Nat] /\ \A p \in Payments : refunded'[p] <= Received[p]
    <2>1. CASE chunk <= Reported(t.payment) /\ chunk <= Left(t.payment)
      <3>1. /\ refunded[t.payment] + chunk \in Nat
            /\ refunded[t.payment] + chunk <= Received[t.payment]
        BY <1>1, <1>2, <1>3, <2>1 DEF Left
      <3> QED  BY <1>1, <1>2, <1>4, <2>1, <3>1
    <2>2. CASE ~(chunk <= Reported(t.payment) /\ chunk <= Left(t.payment))
      BY <1>1, <1>4, <2>2
    <2> QED  BY <2>1, <2>2
  <1>8. ~overlapped => recorded + req[r].amount <= Collected
    BY <1>1 DEF RefundsInv, AloneOK, StillKnown
  <1>9. CASE Becomes(r, next)
    BY <1>1, <1>6, <1>7, <1>8, <1>9, GoesOn DEF At
  <1>10. CASE Becomes(r, Idle)
    BY <1>1, <1>7, <1>10, RefundsStart, GoesOn DEF At
  <1> QED  BY <1>4, <1>9, <1>10

\* What is missing from the records is no more than what the client has paid.
LEMMA CompareKeeps ==
  ASSUME NEW r \in Requests, RefundsInv, CompareWithStripe(r)
  PROVE  RefundsInv'
  <1> DEFINE q == [req[r] EXCEPT !.pc = "record", !.amount = Missing(req[r]), !.sum = 0]
  <1>1. /\ req \in [Requests -> Request] /\ refunded \in [Payments -> Nat] /\ At(r, "total")
        /\ sale \in Sales
        /\ recorded \in Nat /\ Collected \in Nat
        /\ \A p \in Payments : refunded[p] <= Received[p]
        /\ UNCHANGED <<reservation, recorded, refunded, sale, dashboard, aborts, overlapped>>
        /\ Becomes(r, IF Missing(req[r]) < 1 THEN Idle ELSE q)
    BY RefundsStart, SaleIs DEF RefundsInv, RefundsOK, RefundsTypeOK, CompareWithStripe
  <1>2. StripeTotal \in Nat /\ StripeTotal <= Collected /\ req[r].sum \in Nat
    BY <1>1, StripeTotalIsLess, RequestFields
  <1>3. CASE Missing(req[r]) < 1
    <2>1. Becomes(r, Idle)
      BY <1>1, <1>3
    <2> QED  BY <1>1, <2>1, RefundsStart, GoesOn DEF At
  <1>4. CASE ~(Missing(req[r]) < 1)
    <2>1. Becomes(r, q)
      BY <1>1, <1>4
    <2>2. Missing(req[r]) \in Nat
      BY <1>2, <1>4 DEF Missing
    <2>3. q \in Request /\ q.pc = "record" /\ q.amount = Missing(req[r])
      BY <1>1, <2>2 DEF Request, Steps
    <2> HIDE DEF q
    <2>4. ~overlapped => recorded + q.amount <= Collected
      <3>1. ~overlapped => req[r].sum = recorded
        BY <1>1 DEF RefundsInv, AloneOK, StillKnown
      <3> QED  BY <1>1, <1>2, <2>3, <3>1 DEF Missing
    <2> QED  BY <1>1, <2>1, <2>3, <2>4, GoesOn DEF At
  <1> QED  BY <1>3, <1>4

\* A confirmation that is repeated writes RESERVED_PAID whatever was there, and a
\* synchronisation then reads the refunds.
LEMMA ConfirmKeeps ==
  ASSUME NEW r \in Requests, RefundsInv,
         ReadRow(r) \/ ConfirmAgain(r) \/ ReadRefunds(r)
  PROVE  RefundsInv'
  <1>1. /\ req \in [Requests -> Request] /\ refunded \in [Payments -> Nat]
        /\ recorded \in Nat /\ reservation \in Reservation
        /\ \A p \in Payments : refunded[p] <= Received[p]
    BY DEF RefundsInv, RefundsOK, RefundsTypeOK
  <1>2. Confirmed(req[r]) \in Request /\ Confirmed(req[r]).pc \in {"idle", "sum"}
    <2>1. req[r] \in Request
      BY <1>1
    <2>2. CASE req[r].task = "sync"
      BY <2>1, <2>2 DEF Confirmed, Request, Steps
    <2>3. CASE req[r].task # "sync"
      BY <2>3, RefundsStart DEF Confirmed
    <2> QED  BY <2>2, <2>3
  <1>3. CASE ReadRow(r)
    <2> DEFINE q == [req[r] EXCEPT !.pc = "confirm"]
    <2>1. q \in Request /\ q.pc = "confirm"
      BY <1>1 DEF Request, Steps
    <2>2. /\ At(r, "row") /\ (Becomes(r, q) \/ Becomes(r, Confirmed(req[r])))
          /\ UNCHANGED <<reservation, recorded, refunded, sale, dashboard, aborts, overlapped>>
      BY <1>3 DEF ReadRow
    <2> HIDE DEF q
    <2>3. CASE Becomes(r, q)
      BY <1>1, <2>1, <2>2, <2>3, GoesOn DEF At
    <2>4. CASE Becomes(r, Confirmed(req[r]))
      BY <1>1, <1>2, <2>2, <2>4, GoesOn DEF At
    <2> QED  BY <2>2, <2>3, <2>4
  <1>4. CASE ConfirmAgain(r)
    <2>1. /\ At(r, "confirm") /\ Becomes(r, Confirmed(req[r]))
          /\ UNCHANGED <<recorded, refunded, sale, dashboard, aborts, overlapped>>
          /\ reservation' = [status |-> "RESERVED_PAID", cancelled |-> reservation.cancelled,
                             confirmed |-> TRUE]
      BY <1>4 DEF ConfirmAgain
    <2>2. reservation' \in Reservation
      BY <1>1, <2>1 DEF Reservation, PaidStatuses
    <2>3. reservation'.status = "RESERVED_PAID" /\ reservation'.confirmed
      BY <2>1
    <2> QED  BY <1>2, <2>1, <2>2, <2>3, WritesRow DEF At
  <1>5. CASE ReadRefunds(r)
    <2> DEFINE q == [req[r] EXCEPT !.pc = "total", !.sum = recorded]
    <2>1. q \in Request /\ q.pc = "total" /\ q.sum = recorded
      BY <1>1 DEF Request, Steps
    <2>2. /\ At(r, "sum") /\ Becomes(r, q)
          /\ UNCHANGED <<reservation, recorded, refunded, sale, dashboard, aborts, overlapped>>
      BY <1>5 DEF ReadRefunds
    <2> HIDE DEF q
    <2> QED  BY <1>1, <2>1, <2>2, GoesOn DEF At
  <1> QED  BY <1>3, <1>4, <1>5

\* The status is computed from the refunds as they are, and written with the
\* cancellation, if any, though they may have grown since.
LEMMA StatusKeeps ==
  ASSUME NEW r \in Requests, RefundsInv, ComputeStatus(r) \/ WriteStatus(r)
  PROVE  RefundsInv'
  <1>1. /\ req \in [Requests -> Request] /\ refunded \in [Payments -> Nat]
        /\ recorded \in Nat /\ Collected \in Nat
        /\ \A p \in Payments : refunded[p] <= Received[p]
        /\ reservation \in Reservation
    BY RefundsStart, SaleIs DEF RefundsInv, RefundsOK, RefundsTypeOK
  <1>2. CASE ComputeStatus(r)
    <2> DEFINE q == [req[r] EXCEPT !.pc = "write", !.status = RefundStatus(recorded)]
    <2>1. q \in Request /\ q.pc = "write" /\ q.status = RefundStatus(recorded)
      <3>1. RefundStatus(recorded) \in PaidStatuses
        BY <1>1, RefundsStart
      <3> QED  BY <1>1, <3>1 DEF Request, Steps
    <2>2. At(r, "status") /\ Becomes(r, q)
          /\ UNCHANGED <<reservation, recorded, refunded, sale, dashboard, aborts, overlapped>>
      BY <1>2 DEF ComputeStatus
    <2> HIDE DEF q
    <2> QED  BY <1>1, <2>1, <2>2, GoesOn DEF At
  <1>3. CASE WriteStatus(r)
    <2>1. /\ At(r, "write") /\ Becomes(r, Idle)
          /\ UNCHANGED <<recorded, refunded, sale, dashboard, aborts, overlapped>>
          /\ reservation' = [status |-> req[r].status,
                             cancelled |-> reservation.cancelled \/ req[r].cancel,
                             confirmed |-> FALSE]
      BY <1>3 DEF WriteStatus
    <2>2. reservation' \in Reservation /\ reservation'.status = req[r].status
      <3>1. req[r].status \in PaidStatuses
        BY <1>1, RequestFields
      <3>2. (reservation.cancelled \/ req[r].cancel) \in BOOLEAN
        BY Zenon
      <3> QED  BY <2>1, <3>1, <3>2 DEF Reservation
    <2>3. req[r].status = "REFUNDED" => recorded >= Collected - 1
      BY <2>1 DEF RefundsInv, RefundsOK
    <2>4. ~overlapped /\ aborts = 0 => req[r].status = RefundStatus(recorded)
      BY <2>1 DEF RefundsInv, AloneOK, Told
    <2> QED  BY <2>1, <2>2, <2>3, <2>4, RefundsStart, WritesRow DEF At
  <1> QED  BY <1>2, <1>3

\* A cancellation and a restoration, which was allowed on a row read before.
LEMMA CancelKeeps ==
  ASSUME NEW r \in Requests, RefundsInv, CancelReservation(r) \/ RestoreReservation(r)
  PROVE  RefundsInv'
  <1>1. CASE CancelReservation(r)
    <2>1. /\ At(r, "cancel") /\ Becomes(r, Idle)
          /\ UNCHANGED <<recorded, refunded, sale, dashboard, aborts, overlapped>>
          /\ reservation' \in Reservation /\ reservation'.status = "CANCELLED"
      BY <1>1 DEF CancelReservation, Reservation, PaidStatuses
    <2> QED  BY <2>1, RefundsStart, WritesRow DEF At
  <1>2. CASE RestoreReservation(r)
    <2>1. /\ At(r, "restore") /\ Becomes(r, Idle)
          /\ UNCHANGED <<recorded, refunded, sale, dashboard, aborts, overlapped>>
          /\ reservation' \in Reservation /\ reservation'.status = "RESERVED_PAID"
      BY <1>2 DEF RestoreReservation, Reservation, PaidStatuses
    <2>2. ~overlapped /\ aborts = 0 => recorded = 0
      BY <2>1 DEF RefundsInv, AloneOK, Told
    <2> QED  BY <2>1, <2>2, RefundsStart, WritesRow DEF At
  <1> QED  BY <1>1, <1>2

\* Every request starts from the row and the refunds as they are.
LEMMA StartKeeps ==
  ASSUME NEW r \in Requests, RefundsInv, Start(r)
  PROVE  RefundsInv'
  <1>1. recorded \in Nat
    BY DEF RefundsInv, RefundsOK, RefundsTypeOK
  <1>2. ASSUME NEW amount \in Amounts, NEW cancel \in BOOLEAN, StartRefund(r, amount, cancel)
        PROVE  RefundsInv'
    <2> DEFINE q == [Idle EXCEPT !.pc = "list", !.task = "refund", !.amount = amount,
                                 !.cancel = cancel, !.sum = recorded]
    <2>1. q \in Request /\ q.pc = "list" /\ q.sum = recorded
      BY <1>1, RefundsStart, RefundsAssumption DEF Request, Steps, Tasks
    <2>2. Begins(r, q)
      BY <1>2 DEF StartRefund
    <2> HIDE DEF q
    <2> QED  BY <2>1, <2>2, StartsKnowing
  <1>3. CASE StartImport(r)
    <2> DEFINE q == [Idle EXCEPT !.pc = "total", !.task = "sync", !.sum = recorded]
    <2>1. q \in Request /\ q.pc = "total" /\ q.sum = recorded
      BY <1>1, RefundsStart DEF Request, Steps, Tasks
    <2>2. Begins(r, q)
      BY <1>3 DEF StartImport
    <2> HIDE DEF q
    <2> QED  BY <2>1, <2>2, StartsKnowing
  <1>4. CASE StartCancel(r)
    <2> DEFINE q == [Idle EXCEPT !.pc = "cancel"]
    <2>1. q \in Request /\ q.pc = "cancel"
      BY RefundsStart DEF Request, Steps
    <2>2. Begins(r, q)
      BY <1>4 DEF StartCancel
    <2> HIDE DEF q
    <2> QED  BY <2>1, <2>2, StartsKnowing
  <1>5. CASE StartRestore(r)
    <2> DEFINE q == [Idle EXCEPT !.pc = "restore"]
    <2>1. q \in Request /\ q.pc = "restore"
      BY RefundsStart DEF Request, Steps
    <2>2. Begins(r, q) /\ recorded = 0
      BY <1>5 DEF StartRestore, MayRestore
    <2> HIDE DEF q
    <2> QED  BY <2>1, <2>2, StartsKnowing
  <1>6. CASE StartConfirmation(r)
    <2> DEFINE q == [Idle EXCEPT !.pc = "row"]
    <2>1. q \in Request /\ q.pc = "row"
      BY RefundsStart DEF Request, Steps
    <2>2. Begins(r, q)
      BY <1>6 DEF StartConfirmation
    <2> HIDE DEF q
    <2> QED  BY <2>1, <2>2, StartsKnowing
  <1>7. CASE StartSync(r)
    <2> DEFINE q == [Idle EXCEPT !.pc = "row", !.task = "sync"]
    <2>1. q \in Request /\ q.pc = "row"
      BY RefundsStart DEF Request, Steps, Tasks
    <2>2. Begins(r, q)
      BY <1>7 DEF StartSync
    <2> HIDE DEF q
    <2> QED  BY <2>1, <2>2, StartsKnowing
  <1> QED  BY <1>2, <1>3, <1>4, <1>5, <1>6, <1>7 DEF Start

\* Somebody refunds on the dashboard, no more than is left.
LEMMA DashboardKeeps ==
  ASSUME NEW p \in Payments, NEW amount \in Amounts, RefundsInv, RefundOnDashboard(p, amount)
  PROVE  RefundsInv'
  <1>1. /\ RefundsTypeOK /\ refunded \in [Payments -> Nat] /\ amount \in Nat
        /\ \A x \in Payments : refunded[x] <= Received[x] /\ Received[x] \in Nat
    BY SaleIs, RefundsAssumption DEF RefundsInv, RefundsOK, RefundsTypeOK
  <1>2. /\ refunded' = [refunded EXCEPT ![p] = @ + amount]
        /\ refunded[p] + amount <= Received[p]
        /\ refunded[p] + amount \in Nat
        /\ dashboard' = TRUE
        /\ UNCHANGED <<reservation, recorded, sale, req, aborts, overlapped>>
    BY <1>1 DEF RefundOnDashboard, Left
  <1>3. refunded' \in [Payments -> Nat] /\ \A x \in Payments : refunded'[x] <= Received[x]
    BY <1>1, <1>2
  <1>4. RefundsTypeOK'
    BY <1>1, <1>2, <1>3 DEF RefundsTypeOK
  <1>5. RefundsOK'
    BY <1>2, <1>3, <1>4
    DEF RefundsInv, RefundsOK, RefundedIsRefunded, Collected, Received, Cash, At
  <1>6. AloneOK'
    BY <1>2
    DEF RefundsInv, AloneOK, NotBeyondCollected, StillKnown, Told, RefundStatus, Collected,
        Received, Cash, At
  <1> QED  BY <1>5, <1>6 DEF RefundsInv

\* A request dies.
LEMMA AbortKeeps ==
  ASSUME NEW r \in Requests, RefundsInv, Abort(r)
  PROVE  RefundsInv'
  <1>1. /\ refunded \in [Payments -> Nat] /\ aborts \in 0..MaxAborts /\ MaxAborts \in Nat
        /\ \A p \in Payments : refunded[p] <= Received[p]
    BY RefundsAssumption DEF RefundsInv, RefundsOK, RefundsTypeOK
  <1>2. /\ ~At(r, "idle") /\ Becomes(r, Idle)
        /\ UNCHANGED <<reservation, recorded, refunded, sale, dashboard, overlapped>>
        /\ aborts' \in 1..MaxAborts
    BY <1>1 DEF Abort
  <1> QED  BY <1>1, <1>2, RefundsStart, GoesOn

\* Every step keeps it.
LEMMA RefundsInvStep == RefundsInv /\ [RefundsNext]_refundsVars => RefundsInv'
  <1> SUFFICES ASSUME RefundsInv, [RefundsNext]_refundsVars  PROVE RefundsInv'
    OBVIOUS
  <1>1. ASSUME NEW r \in Requests, Start(r)  PROVE RefundsInv'
    BY <1>1, StartKeeps
  <1>2. ASSUME NEW r \in Requests, Continue(r)  PROVE RefundsInv'
    BY <1>2, ListKeeps, RefundKeeps, RecordKeeps, StatusKeeps, ConfirmKeeps, CompareKeeps,
       CancelKeeps
    DEF Continue
  <1>3. ASSUME NEW r \in Requests, Abort(r)  PROVE RefundsInv'
    BY <1>3, AbortKeeps
  <1>4. ASSUME NEW p \in Payments, NEW amount \in Amounts, RefundOnDashboard(p, amount)
        PROVE  RefundsInv'
    BY <1>4, DashboardKeeps
  <1>5. CASE UNCHANGED refundsVars
    <2>1. RefundsOK'
      BY <1>5 DEF RefundsInv, refundsVars, RefundsOK, RefundsTypeOK, RefundedIsRefunded,
                  Collected, Received, Cash, At
    <2>2. AloneOK'
      BY <1>5 DEF RefundsInv, refundsVars, AloneOK, NotBeyondCollected, StillKnown, Told,
                  RefundStatus, Collected, Received, Cash, At
    <2> QED  BY <2>1, <2>2 DEF RefundsInv
  <1> QED  BY <1>1, <1>2, <1>3, <1>4, <1>5 DEF RefundsNext

\* The strengthened invariant holds at all times.
THEOREM RefundsInvariance == RefundsSpec => []RefundsInv
  BY RefundsInitially, RefundsInvStep, PTL DEF RefundsSpec

\* The row, the refunds recorded and those at Stripe keep their types, for any
\* number of requests, of payments and of deaths.
THEOREM RefundsTypeCorrect == RefundsSpec => []RefundsTypeOK
  <1>1. RefundsInv => RefundsTypeOK
    BY DEF RefundsInv, RefundsOK
  <1> QED  BY <1>1, RefundsInvariance, PTL

\* However many requests refund, import, confirm, cancel and restore at a time, and wherever
\* they die, a reservation that says REFUNDED is refunded in the records, to a cent.
THEOREM RefundedIsTrue == RefundsSpec => []RefundedIsRefunded
  <1>1. RefundsInv => RefundedIsRefunded
    BY DEF RefundsInv, RefundsOK
  <1> QED  BY <1>1, RefundsInvariance, PTL

\* While requests come one at a time, even if they die between Stripe and the
\* database and somebody uses the dashboard, no more is recorded as refunded than
\* the client has paid: the cap of issueRefund, the difference of syncStripeRefunds.
THEOREM RefundsAreCapped == RefundsSpec => []NotBeyondCollected
  <1>1. RefundsInv => NotBeyondCollected
    BY DEF RefundsInv, AloneOK, NotBeyondCollected
  <1> QED  BY <1>1, RefundsInvariance, PTL

\* While requests come one at a time and none dies, the status of a reservation with
\* refunds tells them again as soon as all is quiet, unless it says cancelled or a
\* repeated confirmation has written that it is paid.
THEOREM StatusIsTold == RefundsSpec => []StatusTellsRefunds
  <1>1. RefundsInv => StatusTellsRefunds
    BY DEF RefundsInv, AloneOK, Told, StatusTellsRefunds, At
  <1> QED  BY <1>1, RefundsInvariance, PTL

===============================================================================
