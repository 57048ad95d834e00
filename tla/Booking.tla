-------------------------------- MODULE Booking --------------------------------
(***************************************************************************)
(* What the API keeps in step with the reservations: the stock of an extra *)
(* that reservations and stand-alone rentals share day by day, and the     *)
(* journal of the uses of a coupon.                                        *)
(*                                                                         *)
(* Scope: one extra, enabled and with a stock; one coupon, on every        *)
(* reservation; one client, known by his e-mail or by his member id; a     *)
(* reservation or rental takes one day, and is over the day after.  "void" *)
(* stands for a store credit and a full refund too.  A payment confirmed   *)
(* late makes a void reservation paid again; "revived" is the one that was *)
(* cancelled, the date of which stays in its row.                          *)
(***************************************************************************)
EXTENDS FiniteSets, Functions, Integers

CONSTANTS
    Requests,   \* the API requests that may run at the same time (bound)
    Reservations, \* the reservations ever made (bound)
    Rentals,    \* the stand-alone rentals ever made (bound)
    Days,       \* the days of reservations
    LastDay,    \* the last day of the model (bound)
    Stock,      \* the extra's stock
    MaxAborts   \* bound on the requests that die half-way

ASSUME BookingAssumption ==
    /\ IsFiniteSet(Reservations) /\ IsFiniteSet(Rentals)
    /\ Reservations # {} /\ Reservations \cap Rentals = {}
    /\ LastDay \in Nat
    /\ Days # {} /\ Days \subseteq 0..LastDay
    /\ Stock \in Nat
    /\ MaxAborts \in Nat

VARIABLES
    today,      \* the day
    held,       \* the Reservation rows, and the ExtraRental rows
    lines,      \* the quantity of the extra each takes
    journal,    \* how many CouponRedemption rows a client's key has for a day
    req,        \* the running requests
    aborts,     \* how many requests have died
    unchecked,  \* a void reservation was paid or restored, or one was moved,
                \* for which no stock is asked
    aligned     \* the journal was aligned with the rows as they are still

bookingVars == <<today, held, lines, journal, req, aborts, unchecked, aligned>>

-----------------------------------------------------------------------------
Keys == {"email", "member"}

Holders == Reservations \cup Rentals

States == {"absent", "pending", "paid", "void", "revived"}

Holding == [state : States, day : Days, key : Keys]

NotHeld == [state |-> "absent", day |-> CHOOSE d \in Days : TRUE, key |-> "email"]

Tasks == {"none", "create", "edit", "cancel", "restore", "move", "remove", "align"}

Steps == {"idle", "row", "clear", "lines", "refetch", "sync", "record", "remove", "delete"}

\* A request: its reservation or rental, the row and quantity it writes, the
\* rows it has read and those it has still to bring into the journal.
Request == [pc     : Steps,
            task   : Tasks,
            holder : Holders,
            row    : Holding,
            qty    : 0..(Stock + 1),
            rows   : [Holders -> Holding],
            todo   : SUBSET Reservations]

NoneHeld == [h \in Holders |-> NotHeld]

Idle == [pc |-> "idle", task |-> "none", holder |-> CHOOSE h \in Holders : TRUE,
         row |-> NotHeld, qty |-> 0, rows |-> NoneHeld, todo |-> {}]

\* No quantity exceeds the stock, nor has an absent holder a row or a line.
BookingTypeOK ==
    /\ today \in 0..LastDay
    /\ held \in [Holders -> Holding]
    /\ lines \in [Holders -> 0..Stock]
    /\ \A h \in Holders : held[h].state = "absent" => held[h] = NotHeld /\ lines[h] = 0
    /\ journal \in [Keys \X Days -> Nat]
    /\ req \in [Requests -> Request]
    /\ aborts \in 0..MaxAborts
    /\ unchecked \in BOOLEAN
    /\ aligned \in BOOLEAN

-----------------------------------------------------------------------------
BookingInit ==
    /\ today = 0
    /\ held = NoneHeld
    /\ lines = [h \in Holders |-> 0]
    /\ journal = [k \in Keys \X Days |-> 0]
    /\ req = [r \in Requests |-> Idle]
    /\ aborts = 0
    /\ unchecked = FALSE
    /\ aligned = FALSE

Stored(h) == held[h].state # "absent"

Becomes(r, request) == req' = [req EXCEPT ![r] = request]

Begins(r, request) ==
    /\ req[r].pc = "idle"
    /\ Becomes(r, request)
    /\ aligned' = FALSE
    /\ unchecked' = (unchecked \/ request.task \in {"move", "restore"})
    /\ UNCHANGED <<today, held, lines, journal, aborts>>

Reads(r, request) ==
    /\ Becomes(r, request)
    /\ UNCHANGED <<today, held, lines, journal, aborts, unchecked, aligned>>

-----------------------------------------------------------------------------
(* The stock: getAvailability and assertStockForSlot.                      *)

\* Cancelled and refunded reservations, and cancelled rentals, take nothing.
Consumes(h) == held[h].state \in {"pending", "paid", "revived"}

Reserved(holders, day) ==
    SumFunctionOnSet(lines, {h \in holders : Consumes(h) /\ held[h].day = day})

MUTANT_FitsReservations(h, day, qty) ==
    qty = 0 \/ qty + Reserved(Reservations \ {h}, day) <= Stock

MUTANT_FitsAlways(h, day, qty) == TRUE

\* A reservation without extras is not checked; one that is edited does not
\* count against itself.
Fits(h, day, qty) == qty = 0 \/ qty + Reserved(Holders \ {h}, day) <= Stock

-----------------------------------------------------------------------------
(* A reservation is created or edited: create and update.                  *)

\* The form gives the row its day and state and the client his key; a form
\* that takes no extra asks for no stock.
StartCreate(r, h, new, qty) ==
    /\ ~Stored(h)
    /\ new.state \in {"pending", "paid"}
    /\ h \in Rentals => new.key = NotHeld.key
    /\ Fits(h, new.day, qty)
    /\ Begins(r, [Idle EXCEPT !.pc = "row", !.task = "create", !.holder = h,
                              !.row = new, !.qty = qty])

\* A rental whose day and quantity stay is not checked, a cancelled one is
\* refused, and a paid one stays paid; its client has no coupon.
StartEdit(r, h, new, qty) ==
    /\ Stored(h)
    /\ new.state # "absent"
    /\ h \in Rentals => /\ held[h].state # "void" /\ new.key = NotHeld.key
                       /\ (held[h].state = "paid" => new.state # "pending")
                       /\ new.state # "revived"
    /\ \/ Fits(h, new.day, qty)
       \/ h \in Rentals /\ new.day = held[h].day /\ qty = lines[h]
    /\ Begins(r, [Idle EXCEPT !.pc = "row", !.task = "edit", !.holder = h,
                              !.row = new, !.qty = qty])

Fails(r) ==
    /\ Becomes(r, Idle)
    /\ UNCHANGED <<today, held, lines, journal, aborts, unchecked, aligned>>

\* The row is written before its lines, which an edit deletes and creates anew.
\* A stand-alone rental is one row.
WriteRow(r) ==
    /\ req[r].pc = "row" /\ req[r].task \in {"create", "edit"}
    /\ LET h == req[r].holder
           after == [req[r] EXCEPT !.pc = IF req[r].task = "edit" THEN "clear" ELSE "lines",
                                   !.row = NotHeld]
       IN  /\ Stored(h) = (req[r].task = "edit")
           /\ held' = [held EXCEPT ![h] = req[r].row]
           /\ lines' = IF h \in Rentals THEN [lines EXCEPT ![h] = req[r].qty] ELSE lines
           /\ Becomes(r, IF h \in Rentals THEN Idle ELSE after)
    /\ UNCHANGED <<today, journal, aborts, unchecked, aligned>>

WriteLines(r, qty, request) ==
    /\ lines' = [lines EXCEPT ![req[r].holder] = qty]
    /\ Becomes(r, request)
    /\ UNCHANGED <<today, held, journal, aborts, unchecked, aligned>>

ClearLines(r) ==
    /\ req[r].pc = "clear"
    /\ WriteLines(r, 0, [req[r] EXCEPT !.pc = "lines"])

CreateLines(r) ==
    /\ req[r].pc = "lines"
    /\ WriteLines(r, req[r].qty, [req[r] EXCEPT !.pc = "refetch", !.qty = 0])

\* The reservation is read again before its use of the coupon is journalled.
Refetch(r) ==
    /\ req[r].pc = "refetch"
    /\ LET b == req[r].holder
       IN  Reads(r, [req[r] EXCEPT !.pc = "sync", !.rows[b] = held[b], !.todo = {b}])

-----------------------------------------------------------------------------
(* A reservation is cancelled, restored, moved, paid or deleted.           *)

\* A restoration is refused once refunded: "void" then stays.  A cancellation
\* is refused if there was one, also of a reservation that is revived.
StartChange(r, task, b, new) ==
    /\ Stored(b)
    /\ task = "cancel"  => /\ held[b].state \in {"pending", "paid"}
                           /\ new = [held[b] EXCEPT !.state = "void"]
    /\ task = "restore" => /\ held[b].state \in {"void", "revived"}
                           /\ new.state \in {"pending", "paid"}
                           /\ new = [held[b] EXCEPT !.state = new.state]
    /\ task = "move"    => new = [held[b] EXCEPT !.day = new.day]
    /\ Begins(r, [Idle EXCEPT !.pc = "row", !.task = task, !.holder = b, !.row = new])

\* Only the state is written, and the row as written is journalled.
WriteState(r) ==
    /\ req[r].pc = "row" /\ req[r].task \in {"cancel", "restore"}
    /\ LET b == req[r].holder
           new == [held[b] EXCEPT !.state = req[r].row.state]
       IN  /\ held' = [held EXCEPT ![b] = new]
           /\ Becomes(r, [req[r] EXCEPT !.pc = "sync", !.row = NotHeld, !.rows[b] = new,
                                        !.todo = {b}])
    /\ UNCHANGED <<today, lines, journal, aborts, unchecked, aligned>>

\* Only the day is written, for which no stock is asked, and nothing journalled.
WriteMove(r) ==
    /\ req[r].pc = "row" /\ req[r].task = "move"
    /\ held' = [held EXCEPT ![req[r].holder].day = req[r].row.day]
    /\ Becomes(r, Idle)
    /\ UNCHANGED <<today, lines, journal, aborts, unchecked, aligned>>

\* The confirmation of a payment looks neither at the state nor at the stock,
\* leaves the date of a cancellation, and does not touch the journal.
PayHolding(b) ==
    /\ \E state \in {"paid", "revived"} :
          /\ \/ held[b].state = "pending" /\ state = "paid"
             \/ held[b].state = "void"
          /\ held' = [held EXCEPT ![b].state = state]
    /\ unchecked' = (unchecked \/ held[b].state = "void")
    /\ aligned' = FALSE
    /\ UNCHANGED <<today, lines, journal, req, aborts>>

\* The uses of the reservation as it was read are removed before it is.
StartRemove(r, h) ==
    /\ Stored(h)
    /\ Begins(r, [Idle EXCEPT !.pc = "remove", !.task = "remove", !.holder = h,
                              !.rows[h] = held[h]])

UsesRemoved(b, read) ==
    journal' = [u \in Keys \X Days |-> IF u[2] = read.day THEN 0 ELSE journal[u]]

RemoveUses(r) ==
    /\ req[r].pc = "remove" /\ req[r].holder \in Reservations
    /\ UsesRemoved(req[r].holder, req[r].rows[req[r].holder])
    /\ Becomes(r, [req[r] EXCEPT !.pc = "delete"])
    /\ UNCHANGED <<today, held, lines, aborts, unchecked, aligned>>

Delete(r) ==
    /\ \/ req[r].pc = "delete"
       \/ req[r].pc = "remove" /\ req[r].holder \in Rentals
    /\ held' = [held EXCEPT ![req[r].holder] = NotHeld]
    /\ lines' = [lines EXCEPT ![req[r].holder] = 0]
    /\ Becomes(r, Idle)
    /\ UNCHANGED <<today, journal, aborts, unchecked, aligned>>

-----------------------------------------------------------------------------
(* The journal of the coupon.                                              *)

MUTANT_CountsAsUse(read) == read.state = "paid"

\* A use counts once the reservation is paid and over, unless its row has the
\* date of a cancellation.
CountsAsUse(read) == read.state = "paid" /\ read.day < today

MUTANT_AlreadyRecorded(read) == FALSE

AlreadyRecorded(read) == journal[<<read.key, read.day>>] > 0

\* syncRedemptionsFromReservations reads every reservation, then goes through
\* them one by one, in an order the database chooses.
StartAlign(r) ==
    Begins(r, [Idle EXCEPT !.pc = "sync", !.task = "align", !.rows = held,
                           !.todo = {b \in Reservations : Stored(b)}])

Settled(r, b) ==
    /\ LET left == req[r].todo \ {b}
       IN  /\ Becomes(r, IF left = {} THEN Idle
                         ELSE [req[r] EXCEPT !.pc = "sync", !.todo = left])
           /\ aligned' = /\ req[r].task = "align" /\ left = {}
                         /\ \A c \in Reservations : req[r].rows[c] = held[c]
    /\ UNCHANGED <<today, held, lines, aborts, unchecked>>

\* A use that counts is looked up by the client's present key.
LookUp(r, b) ==
    /\ req[r].pc = "sync" /\ b \in req[r].todo
    /\ CountsAsUse(req[r].rows[b])
    /\ IF AlreadyRecorded(req[r].rows[b])
       THEN Settled(r, b) /\ UNCHANGED journal
       ELSE Reads(r, [req[r] EXCEPT !.pc = "record", !.holder = b])

Record(r) ==
    /\ req[r].pc = "record"
    /\ LET b == req[r].holder
           read == req[r].rows[b]
       IN  /\ journal' = [journal EXCEPT ![<<read.key, read.day>>] = @ + 1]
           /\ Settled(r, b)

\* One that does not is removed under every key of the client.
RemoveUse(r, b) ==
    /\ req[r].pc = "sync" /\ b \in req[r].todo
    /\ ~CountsAsUse(req[r].rows[b])
    /\ UsesRemoved(b, req[r].rows[b])
    /\ Settled(r, b)

\* Nothing to align.
NothingToAlign(r) ==
    /\ req[r].pc = "sync" /\ req[r].todo = {}
    /\ Fails(r)

-----------------------------------------------------------------------------
\* A request is over within the day.
Tick ==
    /\ today < LastDay
    /\ \A r \in Requests : req[r].pc = "idle"
    /\ today' = today + 1
    /\ aligned' = FALSE
    /\ UNCHANGED <<held, lines, journal, req, aborts, unchecked>>

Abort(r) ==
    /\ req[r].pc # "idle"
    /\ aborts < MaxAborts
    /\ aborts' = aborts + 1
    /\ Becomes(r, Idle)
    /\ UNCHANGED <<today, held, lines, journal, unchecked, aligned>>

Handler(r) ==
    \/ \E h \in Holders, new \in Holding, qty \in 0..(Stock + 1) :
           StartCreate(r, h, new, qty) \/ StartEdit(r, h, new, qty)
    \/ \E b \in Reservations, new \in Holding, task \in {"cancel", "restore", "move"} :
           StartChange(r, task, b, new)
    \/ \E h \in Holders : StartRemove(r, h)
    \/ StartAlign(r)
    \/ WriteRow(r) \/ ClearLines(r) \/ CreateLines(r) \/ Refetch(r)
    \/ WriteState(r) \/ WriteMove(r) \/ RemoveUses(r) \/ Delete(r)
    \/ \E b \in Reservations : LookUp(r, b) \/ RemoveUse(r, b)
    \/ Record(r) \/ NothingToAlign(r)
    \/ Abort(r)

BookingNext == (\E r \in Requests : Handler(r)) \/ (\E b \in Reservations : PayHolding(b)) \/ Tick

BookingSpec == BookingInit /\ [][BookingNext]_bookingVars

-----------------------------------------------------------------------------
Quiet == \A r \in Requests : req[r].pc = "idle"

\* "Ex. stock 2 : 2 le lundi + 1 le mardi OK ; 3 le même lundi refusé": as long as
\* no request has died half-way, nothing was moved, and no void reservation was
\* restored or had its payment confirmed late, the reservations and rentals of
\* one day take no more than the stock.
NotOverbooked ==
    Quiet /\ aborts = 0 /\ ~unchecked =>
        \A d \in Days : Reserved(Holders, d) <= Stock

\* A coupon's use on a day is journalled at most once per key of the client,
\* whatever dies half-way and however often the journal is aligned.
JournalOnce == \A u \in Keys \X Days : journal[u] <= 1

\* Aligning repairs what a death, a payment or the passing of time left behind: a
\* reservation that shares its day with no other one then has a use exactly if
\* it is paid and over; one paid after its cancellation has none.
AlignedAlone ==
    aligned =>
        \A b \in Reservations :
            /\ Stored(b)
            /\ \A c \in Reservations \ {b} : Stored(c) => held[c].day # held[b].day
            => IF held[b].state = "paid" /\ held[b].day < today
               THEN journal[<<held[b].key, held[b].day>>] = 1
               ELSE \A k \in Keys : journal[<<k, held[b].day>>] = 0

\* "Aligne le journal avec les locations terminées": what counts has a use, also
\* when two reservations share their day.
AlignedAfterSync ==
    aligned =>
        \A b \in Reservations :
            held[b].state = "paid" /\ held[b].day < today =>
                journal[<<held[b].key, held[b].day>>] >= 1

=============================================================================
