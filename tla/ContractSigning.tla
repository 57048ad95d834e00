--------------------------- MODULE ContractSigning ---------------------------
(***************************************************************************)
(* The rental contract of one reservation: its creation with the mail that *)
(* asks for a signature, the signatures of the operator and of the client, *)
(* the archived document with the fingerprint of the data it was made      *)
(* from, the mail of the signed document, and the moves, edits and         *)
(* supplements that change those data before, while and after it is        *)
(* signed.                                                                 *)
(*                                                                         *)
(* Scope: one reservation, so contract numbers are left out (the unique    *)
(* key refuses a second one); documents of identity are always provided;   *)
(* a form may be saved with any payment, whatever is paid meanwhile;       *)
(* resetClientSignatureAfterReservationChange and                          *)
(* assertReservationContractUnlocked have no caller.                       *)
(***************************************************************************)
EXTENDS Integers

CONSTANTS
    Requests,   \* the API requests that may run at the same time (bound)
    Versions,   \* what the reservation's data under the fingerprint may be
    Terms,      \* what else the contract prints: the discount, the coupon, the deposit, the
                \* plan, the payments and prices of extras, who the member and the company are
    Clients,    \* the signatures a client may draw
    MaxLinks,   \* bound on the unforced mails that ask for a signature
    MaxAborts,  \* bound on the requests that die half-way
    None        \* no signature, no document

ASSUME ContractAssumption ==
    /\ Versions # {} /\ Terms # {}
    /\ None \notin Versions \cup Clients \cup {"auto", "hand"}
    /\ None \notin [data : Versions, terms : Terms, client : Clients,
                      operator : {"auto", "hand"}]
    /\ MaxLinks \in Nat
    /\ MaxAborts \in Nat

VARIABLES
    data,       \* the reservation's contractual data that the fingerprint covers
    terms,      \* what the contract prints besides
    paid,       \* isReservationPaidForContract
    writtenOff, \* a form without the payment was saved after it
    company,    \* the operator signature of the company's settings
    contract,   \* the ReservationRentalContract row
    links,      \* the unforced mails that asked for a signature
    mailed,     \* the last signed document mailed to the client
    req,        \* the running requests
    aborts,     \* how many requests have died
    overlapped  \* two requests have run at the same time

vars == <<data, terms, paid, writtenOff, company, contract, links, mailed, req, aborts,
          overlapped>>

-----------------------------------------------------------------------------
Operators == {None, "auto", "hand"}

\* A document: the data it prints and the signatures on it.
Document == [data : Versions, terms : Terms, client : Clients,
             operator : Operators \ {None}]

Contract == [exists   : BOOLEAN,
             operator : Operators,
             client   : Clients \cup {None},
             signed   : BOOLEAN,                 \* signedAt and contractLocked
             html     : Document \cup {None},
             snapshot : Versions \cup {None},
             linkSent : BOOLEAN,                 \* contractSignEmailSentAt
             copySent : BOOLEAN]                 \* contractSignedEmailSentAt

NoContract == [exists |-> FALSE, operator |-> None, client |-> None, signed |-> FALSE,
               html |-> None, snapshot |-> None, linkSent |-> FALSE, copySent |-> FALSE]

Tasks == {"none", "ensure", "link", "operator", "sign", "move", "edit", "supplement", "copy"}

Steps == {"idle", "create", "seed", "link", "linkMail", "linkSent", "operator", "build",
          "snapshot", "archive", "write", "reread", "copy", "copyMail", "copySent"}

\* A request: the row it read, its own signature, the document it makes, the
\* fingerprint, and whether it forces or wants a mail.
Request == [pc       : Steps,
            task     : Tasks,
            row      : Contract,
            client   : Clients \cup {None},
            html     : Document \cup {None},
            snapshot : Versions \cup {None},
            mail     : BOOLEAN]

Idle == [pc |-> "idle", task |-> "none", row |-> NoContract, client |-> None, html |-> None,
         snapshot |-> None, mail |-> FALSE]

TypeOK ==
    /\ data \in Versions
    /\ terms \in Terms
    /\ paid \in BOOLEAN
    /\ writtenOff \in BOOLEAN
    /\ company \in {None, "auto"}
    /\ contract \in Contract
    /\ links \in 0..MaxLinks
    /\ mailed \in Document \cup {None}
    /\ req \in [Requests -> Request]
    /\ aborts \in 0..MaxAborts
    /\ overlapped \in BOOLEAN

-----------------------------------------------------------------------------
Init ==
    /\ data \in Versions
    /\ terms \in Terms
    /\ paid = FALSE
    /\ writtenOff = FALSE
    /\ company \in {None, "auto"}
    /\ contract = NoContract
    /\ links = 0
    /\ mailed = None
    /\ req = [r \in Requests |-> Idle]
    /\ aborts = 0
    /\ overlapped = FALSE

At(r, pc) == req[r].pc = pc

Becomes(r, request) == req' = [req EXCEPT ![r] = request]

Begins(r, request) ==
    /\ At(r, "idle")
    /\ Becomes(r, request)
    /\ overlapped' = (overlapped \/ \E q \in Requests : ~At(q, "idle"))
    /\ UNCHANGED <<data, terms, paid, writtenOff, company, contract, links, mailed, aborts>>

\* Only the contract's row and the request change.
Writes(r, row, request) ==
    /\ contract' = row
    /\ Becomes(r, request)
    /\ UNCHANGED <<data, terms, paid, writtenOff, company, links, mailed, aborts, overlapped>>

Reads(r, request) ==
    /\ Becomes(r, request)
    /\ UNCHANGED <<data, terms, paid, writtenOff, company, contract, links, mailed, aborts,
                   overlapped>>

\* What a request uses later of the row it has read.
Known(row) == [NoContract EXCEPT !.exists = row.exists, !.operator = row.operator,
                                 !.signed = row.signed, !.linkSent = row.linkSent]

\* resolveOperatorSignature.
OperatorOf(row) == IF row.operator # None THEN row.operator ELSE company

-----------------------------------------------------------------------------
(* The contract is made sure of (ensureForReservation), alone or for the   *)
(* mail that asks for a signature (trySendContractSignEmail and            *)
(* sendSignContractEmail).                                                 *)

Ensure(r, task, force) ==
    Begins(r, [Idle EXCEPT !.task = task, !.mail = force, !.row = Known(contract),
                           !.pc = IF contract.exists THEN "seed" ELSE "create"])

\* A confirmation mail or a preview wants the contract, paid or not.
StartEnsure(r) == Ensure(r, "ensure", FALSE)

StartLink(r, force) == paid /\ ~contract.signed /\ Ensure(r, "link", force)

\* The unique key of the reservation stops a second creation.
CreateContract(r) ==
    /\ At(r, "create")
    /\ LET row == [NoContract EXCEPT !.exists = TRUE]
       IN  IF contract.exists THEN Reads(r, Idle)
           ELSE Writes(r, row, [req[r] EXCEPT !.pc = "seed", !.row = row])

MUTANT_Seeded(row) == [row EXCEPT !.operator = company]

\* The company's signature is copied to a contract that had none, nor a
\* client's, when read.
Seeded(row) == [contract EXCEPT !.operator = company]

SeedOperator(r) ==
    /\ At(r, "seed")
    /\ LET row == Seeded(req[r].row)
       IN  IF req[r].row.operator # None \/ req[r].row.signed \/ company = None
           THEN Reads(r, [req[r] EXCEPT !.pc = "link"])
           ELSE Writes(r, row, [req[r] EXCEPT !.pc = "link", !.row = Known(row)])

\* Whether a link is wanted, by the row read or written last.
AsksSignature(request) ==
    /\ request.task = "link"
    /\ ~request.row.signed
    /\ request.mail \/ ~request.row.linkSent

DecideLink(r) ==
    /\ At(r, "link")
    /\ Reads(r, IF AsksSignature(req[r])
                THEN [Idle EXCEPT !.pc = "linkMail", !.task = "link", !.mail = req[r].mail]
                ELSE Idle)

MailLink(r) ==
    /\ At(r, "linkMail")
    /\ req[r].mail \/ links < MaxLinks
    /\ links' = IF req[r].mail THEN links ELSE links + 1
    /\ Becomes(r, [req[r] EXCEPT !.pc = "linkSent"])
    /\ UNCHANGED <<data, terms, paid, writtenOff, company, contract, mailed, aborts, overlapped>>

RecordLink(r) ==
    /\ At(r, "linkSent")
    /\ Writes(r, [contract EXCEPT !.linkSent = TRUE], Idle)

-----------------------------------------------------------------------------
(* The operator signs: setOperatorSignature.                               *)

OperatorMaySign == contract.exists /\ ~contract.signed

StartOperator(r) ==
    /\ OperatorMaySign
    /\ Begins(r, [Idle EXCEPT !.pc = "operator", !.task = "operator"])

SignAsOperator(r) ==
    /\ At(r, "operator")
    /\ Writes(r, [contract EXCEPT !.operator = "hand"], Idle)

-----------------------------------------------------------------------------
(* The client signs: signByToken.                                          *)

MUTANT_SignsUnpaid == contract.exists /\ ~contract.signed

MUTANT_SignsAgain == contract.exists /\ paid

\* An unpaid reservation is refused, a signed contract is not signed again.
MaySign == contract.exists /\ paid /\ ~contract.signed

StartSign(r, client) ==
    /\ MaySign
    /\ Begins(r, [Idle EXCEPT !.pc = "build", !.task = "sign", !.client = client,
                              !.row = [NoContract EXCEPT !.operator = contract.operator]])

\* "Signature exploitant requise avant la signature client."
OperatorSigned(operator) == operator # None

\* The reservation is read again for the document, the contract is not.
BuildDocument(r) ==
    /\ At(r, "build")
    /\ LET operator == OperatorOf(req[r].row)
           html == [data |-> data, terms |-> terms, client |-> req[r].client,
                    operator |-> operator]
       IN  Reads(r, IF OperatorSigned(operator)
                    THEN [req[r] EXCEPT !.pc = "snapshot", !.html = html, !.row = NoContract]
                    ELSE Idle)

\* The fingerprint is of yet another read of the reservation, and leaves out the terms.
TakeSnapshot(r) ==
    /\ At(r, "snapshot")
    /\ Reads(r, [req[r] EXCEPT !.pc = "archive", !.snapshot = data])

MUTANT_Signed(html, snapshot) ==
    [contract EXCEPT !.signed = TRUE, !.client = html.client, !.html = html,
                     !.snapshot = snapshot]

Signed(html, snapshot) ==
    [contract EXCEPT !.signed = TRUE, !.client = html.client, !.operator = html.operator,
                     !.html = html, !.snapshot = snapshot]

MUTANT_Refreshed(html, snapshot) == [contract EXCEPT !.snapshot = snapshot]

\* refreshSignedContractAfterScheduleChange leaves the signatures as they are.
Refreshed(html, snapshot) == [contract EXCEPT !.html = html, !.snapshot = snapshot]

MUTANT_ThenCopy(request) ==
    IF request.task = "move" /\ request.mail
    THEN [Idle EXCEPT !.pc = "copy", !.task = request.task, !.mail = TRUE]
    ELSE Idle

\* What follows the archive: the copy for the client, if one is wanted.
ThenCopy(request) ==
    IF request.task = "sign" \/ (request.task = "move" /\ request.mail)
    THEN [Idle EXCEPT !.pc = "copy", !.task = request.task, !.mail = request.task = "move"]
    ELSE Idle

Archive(r) ==
    /\ At(r, "archive")
    /\ Writes(r, IF req[r].task = "sign" THEN Signed(req[r].html, req[r].snapshot)
                 ELSE Refreshed(req[r].html, req[r].snapshot),
              ThenCopy(req[r]))

-----------------------------------------------------------------------------
(* The copy of the signed contract: sendSignedContractEmail.               *)

StartCopy(r) == Begins(r, [Idle EXCEPT !.pc = "copy", !.task = "copy", !.mail = TRUE])

\* Nothing is mailed again unless it is forced.
ReadArchive(r) ==
    /\ At(r, "copy")
    /\ Reads(r, IF contract.signed /\ (req[r].mail \/ ~contract.copySent)
                THEN [Idle EXCEPT !.pc = "copyMail", !.task = req[r].task,
                                  !.html = contract.html]
                ELSE Idle)

MailCopy(r) ==
    /\ At(r, "copyMail")
    /\ mailed' = req[r].html
    /\ Becomes(r, [req[r] EXCEPT !.pc = "copySent", !.html = None])
    /\ UNCHANGED <<data, terms, paid, writtenOff, company, contract, links, aborts, overlapped>>

RecordCopy(r) ==
    /\ At(r, "copySent")
    /\ Writes(r, [contract EXCEPT !.copySent = TRUE], Idle)

-----------------------------------------------------------------------------
(* The reservation's data change.                                          *)

\* A move, or an update that changes the price, refreshes the document if the
\* contract was signed when it began; another update does not; a supplement
\* tries in any case.
StartChange(r, task, version, mail) ==
    /\ task = "supplement" => paid
    /\ mail => task = "move"
    /\ Begins(r, [Idle EXCEPT !.pc = "write", !.task = task, !.mail = mail,
                              !.row = [NoContract EXCEPT !.signed = contract.signed],
                              !.snapshot = version])

Refreshes(request) ==
    \/ request.task = "supplement"
    \/ request.task = "move" /\ request.row.signed

\* A form writes the payment it shows: none if it was opened before the payment, or
\* if the operator has taken it off.
WritesOff(task) == IF task \in {"move", "edit"} THEN BOOLEAN ELSE {FALSE}

ChangeData(r) ==
    /\ At(r, "write")
    /\ data' = req[r].snapshot
    /\ terms' \in Terms
    /\ \E off \in WritesOff(req[r].task) :
          /\ paid' = (paid /\ ~off)
          /\ writtenOff' = (writtenOff \/ (paid /\ off))
    /\ Becomes(r, IF Refreshes(req[r])
                  THEN [req[r] EXCEPT !.pc = "reread", !.row = NoContract, !.snapshot = None]
                  ELSE Idle)
    /\ UNCHANGED <<company, contract, links, mailed, aborts, overlapped>>

\* The contract and the reservation are read together.
Reread(r) ==
    /\ At(r, "reread")
    /\ Reads(r, IF contract.signed
                THEN [req[r] EXCEPT !.pc = "snapshot",
                                    !.html = [data |-> data, terms |-> terms,
                                              client |-> contract.client,
                                              operator |-> OperatorOf(contract)]]
                ELSE ThenCopy(req[r]))

-----------------------------------------------------------------------------
(* The outside.                                                            *)

ClientPays ==
    /\ paid' = TRUE
    /\ UNCHANGED <<data, terms, writtenOff, company, contract, links, mailed, req, aborts,
                   overlapped>>

\* An instalment is paid, the catalogue, the member or the company is edited.
ChangeTerms ==
    /\ terms' \in Terms
    /\ UNCHANGED <<data, paid, writtenOff, company, contract, links, mailed, req, aborts,
                   overlapped>>

\* The company's settings get a signature.
SetCompanySignature ==
    /\ company' = "auto"
    /\ UNCHANGED <<data, terms, paid, writtenOff, contract, links, mailed, req, aborts,
                   overlapped>>

\* A request dies, or its mail fails, which its callers swallow: either way it
\* writes nothing more.
Abort(r) ==
    /\ ~At(r, "idle")
    /\ aborts < MaxAborts
    /\ aborts' = aborts + 1
    /\ Becomes(r, Idle)
    /\ UNCHANGED <<data, terms, paid, writtenOff, company, contract, links, mailed, overlapped>>

-----------------------------------------------------------------------------
Start(r) ==
    \/ StartEnsure(r)
    \/ \E force \in BOOLEAN : StartLink(r, force)
    \/ StartOperator(r)
    \/ \E client \in Clients : StartSign(r, client)
    \/ StartCopy(r)
    \/ \E task \in {"move", "edit", "supplement"}, version \in Versions, mail \in BOOLEAN :
          StartChange(r, task, version, mail)

Continue(r) ==
    \/ CreateContract(r)
    \/ SeedOperator(r)
    \/ DecideLink(r)
    \/ MailLink(r)
    \/ RecordLink(r)
    \/ SignAsOperator(r)
    \/ BuildDocument(r)
    \/ TakeSnapshot(r)
    \/ Archive(r)
    \/ ReadArchive(r)
    \/ MailCopy(r)
    \/ RecordCopy(r)
    \/ ChangeData(r)
    \/ Reread(r)

Next ==
    \/ \E r \in Requests : Start(r) \/ Continue(r) \/ Abort(r)
    \/ ClientPays
    \/ ChangeTerms
    \/ SetCompanySignature

Spec == Init /\ [][Next]_vars

AllIdle == \A r \in Requests : At(r, "idle")

-----------------------------------------------------------------------------
(* Properties that hold however the requests interleave and die.           *)

WasPaid == paid \/ writtenOff

\* A contract is signed by a client and an operator, and only of a reservation that
\* has been paid, though the row is read long before it is written.  It is unpaid only
\* if a form has written the payment off, between the check and the signature or later.
SignedWasPaidAndComplete ==
    contract.signed =>
        /\ WasPaid
        /\ contract.client # None /\ contract.operator # None
        /\ contract.html # None /\ contract.snapshot # None

\* No order of requests takes a signature back.
SignedStaysSigned == [][contract.signed => contract'.signed]_vars

-----------------------------------------------------------------------------
(* Properties of requests that have come one at a time so far.             *)

\* The signatures of the row are those of the archived document, through any
\* number of moves and supplements that make it again.
ArchiveBearsTheSignatures ==
    ~overlapped /\ contract.signed =>
        /\ contract.html.client = contract.client
        /\ contract.html.operator = contract.operator

\* An archived document that does not print the reservation's present data, as far as
\* the fingerprint covers them, is reported stale: the fingerprint differs too.
StaleIsReported ==
    ~overlapped /\ contract.signed /\ contract.html.data # data => contract.snapshot # data

\* Once the client has signed, neither signature changes.
SignedOnce ==
    [][ ~overlapped' /\ contract.signed =>
          contract'.client = contract.client /\ contract'.operator = contract.operator ]_vars

\* When nobody is at it, the client holds a copy with his own signature, unless
\* a request has died.
CopyIsMailed ==
    ~overlapped /\ aborts = 0 /\ AllIdle /\ contract.signed =>
        mailed # None /\ mailed.client = contract.client

\* The unforced mail that asks for a signature is sent once, unless a request
\* has died.
LinkMailedOnce == ~overlapped /\ aborts = 0 => links <= 1

-----------------------------------------------------------------------------
(* What the code's comments say and the code does not do.                  *)

\* The fingerprint is said to be of the reservation's data as fixed in the contract
\* (rental-contract-snapshot.ts); it is not of all that the contract prints of them.
EveryChangeIsReported ==
    ~overlapped /\ contract.signed
        /\ (contract.html.data # data \/ contract.html.terms # terms)
            => contract.snapshot # data

\* A reservation with a signed contract is a paid one, as signByToken demands of the
\* row it has read.
SignedIsPaid == contract.signed => paid
=============================================================================
