------------------------ MODULE ContractSigningProofs ------------------------
(***************************************************************************)
(* Proofs about ContractSigning, for any number of requests, of versions   *)
(* of the reservation, of signatures and of failures.                      *)
(***************************************************************************)
EXTENDS ContractSigning, TLAPS

-----------------------------------------------------------------------------
(* Type correctness.                                                       *)

\* The row before the contract exists is a row, and the idle request a request.
LEMMA NoContractType == NoContract \in Contract
  BY DEF NoContract, Contract, Operators

\* The idle request has its type.
LEMMA IdleType == Idle \in Request
  BY NoContractType DEF Idle, Request, Steps, Tasks

\* What is kept of a row is a row.
LEMMA KnownType == \A row \in Contract : Known(row) \in Contract
  BY NoContractType DEF Known, Contract

\* The three kinds of step keep the types, if what they write is typed.
LEMMA BecomesType ==
  ASSUME req \in [Requests -> Request],
         NEW r \in Requests, NEW q \in Request, Becomes(r, q)
  PROVE  req' \in [Requests -> Request]
  BY DEF Becomes

\* A step that begins a request keeps the types.
LEMMA BeginsType ==
  ASSUME TypeOK, NEW r \in Requests, NEW q \in Request, Begins(r, q)
  PROVE  TypeOK'
<1>1. req' \in [Requests -> Request]
  BY BecomesType DEF TypeOK, Begins
<1>2. overlapped' \in BOOLEAN
  BY DEF TypeOK, Begins, At
<1> QED
  BY <1>1, <1>2 DEF TypeOK, Begins

\* So does one that writes the contract.
LEMMA WritesType ==
  ASSUME TypeOK, NEW r \in Requests, NEW row \in Contract, NEW q \in Request,
         Writes(r, row, q)
  PROVE  TypeOK'
<1>1. req' \in [Requests -> Request]
  BY BecomesType DEF TypeOK, Writes
<1> QED
  BY <1>1 DEF TypeOK, Writes

\* So does one that does not.
LEMMA ReadsType ==
  ASSUME TypeOK, NEW r \in Requests, NEW q \in Request, Reads(r, q)
  PROVE  TypeOK'
<1>1. req' \in [Requests -> Request]
  BY BecomesType DEF TypeOK, Reads
<1> QED
  BY <1>1 DEF TypeOK, Reads

\* The operator whose signature a document bears, if there is one.
LEMMA OperatorType ==
  ASSUME TypeOK, NEW row \in Contract
  PROVE  OperatorOf(row) \in Operators
  BY DEF OperatorOf, Operators, Contract, TypeOK

\* What follows the archive is a request.
LEMMA ThenCopyType == \A q \in Request : ThenCopy(q) \in Request
<1> SUFFICES ASSUME NEW q \in Request PROVE ThenCopy(q) \in Request
  OBVIOUS
<1>1. \A m \in BOOLEAN : [Idle EXCEPT !.pc = "copy", !.task = q.task, !.mail = m] \in Request
  BY IdleType DEF Request, Steps
<1>2. (q.task = "move") \in BOOLEAN
  OBVIOUS
<1>3. [Idle EXCEPT !.pc = "copy", !.task = q.task, !.mail = q.task = "move"] \in Request
  BY <1>1, <1>2
<1> QED
  BY <1>3, IdleType DEF ThenCopy

\* Starting a request keeps the types.
LEMMA StartTypes ==
  ASSUME TypeOK, NEW r \in Requests, Start(r)
  PROVE  TypeOK'
<1>1. ASSUME NEW task \in Tasks, NEW force \in BOOLEAN, Ensure(r, task, force)
      PROVE  TypeOK'
  <2> DEFINE q == [Idle EXCEPT !.task = task, !.mail = force, !.row = Known(contract),
                               !.pc = IF contract.exists THEN "seed" ELSE "create"]
  <2>1. Known(contract) \in Contract
    BY KnownType DEF TypeOK
  <2>2. q \in Request
    BY <2>1, IdleType DEF Request, Steps
  <2> QED
    BY <1>1, <2>2, BeginsType DEF Ensure
<1>2. CASE StartEnsure(r)
  BY <1>1, <1>2 DEF StartEnsure, Tasks
<1>3. ASSUME NEW force \in BOOLEAN, StartLink(r, force) PROVE TypeOK'
  BY <1>1, <1>3 DEF StartLink, Tasks
<1>4. CASE StartOperator(r)
  <2>1. [Idle EXCEPT !.pc = "operator", !.task = "operator"] \in Request
    BY IdleType DEF Request, Steps, Tasks
  <2> QED
    BY <1>4, <2>1, BeginsType DEF StartOperator
<1>5. ASSUME NEW client \in Clients, StartSign(r, client) PROVE TypeOK'
  <2> DEFINE q == [Idle EXCEPT !.pc = "build", !.task = "sign", !.client = client,
                               !.row = [NoContract EXCEPT !.operator = contract.operator]]
  <2>1. [NoContract EXCEPT !.operator = contract.operator] \in Contract
    BY NoContractType DEF Contract, TypeOK
  <2>2. q \in Request
    BY <2>1, IdleType DEF Request, Steps, Tasks
  <2> QED
    BY <1>5, <2>2, BeginsType DEF StartSign
<1>6. CASE StartCopy(r)
  <2>1. [Idle EXCEPT !.pc = "copy", !.task = "copy", !.mail = TRUE] \in Request
    BY IdleType DEF Request, Steps, Tasks
  <2> QED
    BY <1>6, <2>1, BeginsType DEF StartCopy
<1>7. ASSUME NEW task \in {"move", "edit", "supplement"}, NEW version \in Versions,
             NEW mail \in BOOLEAN, StartChange(r, task, version, mail)
      PROVE  TypeOK'
  <2> DEFINE q == [Idle EXCEPT !.pc = "write", !.task = task, !.mail = mail,
                               !.row = [NoContract EXCEPT !.signed = contract.signed],
                               !.snapshot = version]
  <2>1. [NoContract EXCEPT !.signed = contract.signed] \in Contract
    BY NoContractType DEF Contract, TypeOK
  <2>2. q \in Request
    BY <2>1, IdleType DEF Request, Steps, Tasks
  <2> QED
    BY <1>7, <2>2, BeginsType DEF StartChange
<1> QED
  BY <1>2, <1>3, <1>4, <1>5, <1>6, <1>7 DEF Start

\* So does every step of the contract's making and of the two mails,
LEMMA MailTypes ==
  ASSUME TypeOK, NEW r \in Requests,
         CreateContract(r) \/ SeedOperator(r) \/ DecideLink(r) \/ MailLink(r)
           \/ RecordLink(r) \/ ReadArchive(r) \/ MailCopy(r) \/ RecordCopy(r)
  PROVE  TypeOK'
<1> req[r] \in Request /\ contract \in Contract
  BY DEF TypeOK
<1>1. CASE CreateContract(r)
  <2>1. [NoContract EXCEPT !.exists = TRUE] \in Contract
    BY NoContractType DEF Contract
  <2>2. [req[r] EXCEPT !.pc = "seed", !.row = [NoContract EXCEPT !.exists = TRUE]] \in Request
    BY <2>1 DEF Request, Steps
  <2> QED
    BY <1>1, <2>1, <2>2, IdleType, ReadsType, WritesType DEF CreateContract
<1>2. CASE SeedOperator(r)
  <2>1. Seeded(req[r].row) \in Contract
    BY DEF Seeded, TypeOK, Contract, Operators
  <2>2. Known(Seeded(req[r].row)) \in Contract
    BY <2>1, KnownType
  <2>3. /\ [req[r] EXCEPT !.pc = "link"] \in Request
        /\ [req[r] EXCEPT !.pc = "link", !.row = Known(Seeded(req[r].row))] \in Request
    BY <2>2 DEF Request, Steps
  <2> QED
    BY <1>2, <2>1, <2>3, ReadsType, WritesType DEF SeedOperator
<1>3. CASE DecideLink(r)
  <2>1. [Idle EXCEPT !.pc = "linkMail", !.task = "link", !.mail = req[r].mail] \in Request
    BY IdleType DEF Request, Steps, Tasks
  <2> QED
    BY <1>3, <2>1, IdleType, ReadsType DEF DecideLink
<1>4. CASE MailLink(r)
  <2>1. [req[r] EXCEPT !.pc = "linkSent"] \in Request
    BY DEF Request, Steps
  <2>2. req' \in [Requests -> Request]
    BY <1>4, <2>1, BecomesType DEF MailLink, TypeOK
  <2>3. links' \in 0..MaxLinks
    <3>1. CASE req[r].mail
      BY <1>4, <3>1 DEF MailLink, TypeOK
    <3>2. CASE ~req[r].mail
      BY <1>4, <3>2, ContractAssumption DEF MailLink, TypeOK
    <3> QED
      BY <3>1, <3>2
  <2> QED
    BY <1>4, <2>2, <2>3 DEF MailLink, TypeOK
<1>5. CASE RecordLink(r)
  <2>1. [contract EXCEPT !.linkSent = TRUE] \in Contract
    BY DEF Contract
  <2> QED
    BY <1>5, <2>1, IdleType, WritesType DEF RecordLink
<1>6. CASE ReadArchive(r)
  <2>1. [Idle EXCEPT !.pc = "copyMail", !.task = req[r].task, !.html = contract.html]
            \in Request
    BY IdleType DEF Request, Steps, Contract
  <2> QED
    BY <1>6, <2>1, IdleType, ReadsType DEF ReadArchive
<1>7. CASE MailCopy(r)
  <2>1. [req[r] EXCEPT !.pc = "copySent", !.html = None] \in Request
    BY DEF Request, Steps
  <2>2. req' \in [Requests -> Request]
    BY <1>7, <2>1, BecomesType DEF MailCopy, TypeOK
  <2>3. mailed' \in Document \cup {None}
    BY <1>7 DEF MailCopy, Request
  <2> QED
    BY <1>7, <2>2, <2>3 DEF MailCopy, TypeOK
<1>8. CASE RecordCopy(r)
  <2>1. [contract EXCEPT !.copySent = TRUE] \in Contract
    BY DEF Contract
  <2> QED
    BY <1>8, <2>1, IdleType, WritesType DEF RecordCopy
<1> QED
  BY <1>1, <1>2, <1>3, <1>4, <1>5, <1>6, <1>7, <1>8

-----------------------------------------------------------------------------
(* The inductive invariant.  Neither the types nor the promise about a     *)
(* signed contract are inductive alone: the row is written from a document *)
(* that was made, and from a payment that was seen, steps before.          *)

\* A request that makes the document has a client's signature and has seen the
\* payment and the contract; one that archives a document has it and its fingerprint; one that is
\* about to change the data knows what to.
RequestOK(r) ==
    /\ At(r, "build") => req[r].client # None /\ WasPaid /\ contract.exists
    /\ At(r, "snapshot") \/ At(r, "archive") =>
          req[r].html # None /\ (req[r].task = "sign" => WasPaid /\ contract.exists)
    /\ At(r, "archive") \/ At(r, "write") => req[r].snapshot # None

RequestsOK == \A r \in Requests : RequestOK(r)

SignedExists == contract.signed => contract.exists

IInv == TypeOK /\ RequestsOK /\ SignedWasPaidAndComplete /\ SignedExists

\* Every step of the signatures and of the changes keeps the types.
LEMMA SignTypes ==
  ASSUME IInv, NEW r \in Requests,
         SignAsOperator(r) \/ BuildDocument(r) \/ TakeSnapshot(r) \/ Archive(r)
           \/ ChangeData(r) \/ Reread(r) \/ Abort(r)
  PROVE  TypeOK'
<1> TypeOK /\ RequestOK(r) /\ SignedWasPaidAndComplete
  BY DEF IInv, RequestsOK
<1> req[r] \in Request /\ contract \in Contract
  BY DEF TypeOK
<1>1. CASE SignAsOperator(r)
  <2>1. [contract EXCEPT !.operator = "hand"] \in Contract
    BY DEF Contract, Operators
  <2> QED
    BY <1>1, <2>1, IdleType, WritesType DEF SignAsOperator
<1>2. CASE BuildDocument(r)
  <2> DEFINE operator == OperatorOf(req[r].row)
             html == [data |-> data, terms |-> terms, client |-> req[r].client, operator |-> operator]
             q == [req[r] EXCEPT !.pc = "snapshot", !.html = html, !.row = NoContract]
  <2>1. operator \in Operators
    BY OperatorType DEF Request
  <2>2. req[r].client \in Clients
    BY <1>2 DEF BuildDocument, RequestOK, Request
  <2>3. ASSUME OperatorSigned(operator) PROVE q \in Request
    <3>1. html \in Document
      BY <2>1, <2>2, <2>3 DEF Document, OperatorSigned, TypeOK
    <3> HIDE DEF html
    <3> QED
      BY <3>1, NoContractType DEF Request, Steps
  <2>4. Reads(r, IF OperatorSigned(operator) THEN q ELSE Idle)
    BY <1>2 DEF BuildDocument
  <2> HIDE DEF q, operator
  <2> QED
    BY <2>3, <2>4, IdleType, ReadsType
<1>3. CASE TakeSnapshot(r)
  <2>1. [req[r] EXCEPT !.pc = "archive", !.snapshot = data] \in Request
    BY DEF Request, Steps, TypeOK
  <2> QED
    BY <1>3, <2>1, ReadsType DEF TakeSnapshot
<1>4. CASE Archive(r)
  <2>1. req[r].html \in Document /\ req[r].snapshot \in Versions
    BY <1>4 DEF Archive, RequestOK, Request
  <2>2. Signed(req[r].html, req[r].snapshot) \in Contract
    BY <2>1 DEF Signed, Contract, Document
  <2>3. Refreshed(req[r].html, req[r].snapshot) \in Contract
    BY <2>1 DEF Refreshed, Contract
  <2>4. ThenCopy(req[r]) \in Request
    BY ThenCopyType
  <2> QED
    BY <1>4, <2>2, <2>3, <2>4, WritesType DEF Archive
<1>5. CASE ChangeData(r)
  <2>1. data' \in Versions
    BY <1>5 DEF ChangeData, RequestOK, Request
  <2>2. [req[r] EXCEPT !.pc = "reread", !.row = NoContract, !.snapshot = None] \in Request
    BY NoContractType DEF Request, Steps
  <2>3. req' \in [Requests -> Request]
    BY <1>5, <2>2, IdleType, BecomesType DEF ChangeData, TypeOK
  <2>4. terms' \in Terms /\ paid' \in BOOLEAN /\ writtenOff' \in BOOLEAN
    <3>1. PICK off : /\ paid' = (paid /\ ~off)
                     /\ writtenOff' = (writtenOff \/ (paid /\ off))
      BY <1>5 DEF ChangeData
    <3> QED
      BY <1>5, <3>1 DEF ChangeData, TypeOK
  <2> QED
    BY <1>5, <2>1, <2>3, <2>4 DEF ChangeData, TypeOK
<1>6. CASE Reread(r)
  <2> DEFINE html == [data |-> data, terms |-> terms, client |-> contract.client,
                      operator |-> OperatorOf(contract)]
             q == [req[r] EXCEPT !.pc = "snapshot", !.html = html]
  <2>1. OperatorOf(contract) \in Operators
    BY OperatorType
  <2>2. ASSUME contract.signed PROVE q \in Request
    <3>1. contract.client \in Clients /\ OperatorOf(contract) # None
      BY <2>2 DEF SignedWasPaidAndComplete, Contract, OperatorOf
    <3>2. html \in Document
      BY <2>1, <3>1 DEF Document, TypeOK
    <3> HIDE DEF html
    <3> QED
      BY <3>2 DEF Request, Steps
  <2>3. Reads(r, IF contract.signed THEN q ELSE ThenCopy(req[r]))
    BY <1>6 DEF Reread
  <2>4. ThenCopy(req[r]) \in Request
    BY ThenCopyType
  <2> HIDE DEF q
  <2> QED
    BY <2>2, <2>3, <2>4, ReadsType
<1>7. CASE Abort(r)
  <2>1. req' \in [Requests -> Request]
    BY <1>7, IdleType, BecomesType DEF Abort, TypeOK
  <2>2. aborts' \in 0..MaxAborts
    BY <1>7, ContractAssumption DEF Abort, TypeOK
  <2> QED
    BY <1>7, <2>1, <2>2 DEF Abort, TypeOK
<1> QED
  BY <1>1, <1>2, <1>3, <1>4, <1>5, <1>6, <1>7

\* So a step of the specification keeps the types.
LEMMA TypeStep == IInv /\ [Next]_vars => TypeOK'
<1> SUFFICES ASSUME IInv, [Next]_vars PROVE TypeOK'
  OBVIOUS
<1>1. TypeOK
  BY DEF IInv
<1>2. CASE UNCHANGED vars
  BY <1>1, <1>2 DEF vars, TypeOK
<1>3. ASSUME NEW r \in Requests, Start(r) \/ Continue(r) \/ Abort(r) PROVE TypeOK'
  BY <1>1, <1>3, StartTypes, MailTypes, SignTypes DEF Continue
<1>4. CASE ClientPays \/ ChangeTerms \/ SetCompanySignature
  BY <1>1, <1>4 DEF ClientPays, ChangeTerms, SetCompanySignature, TypeOK
<1> QED
  BY <1>2, <1>3, <1>4 DEF Next

-----------------------------------------------------------------------------
(* Every step keeps the rest of the invariant.                             *)

\* A payment that was seen is there, or has been written off.
LEMMA WasPaidStays == TypeOK /\ [Next]_vars /\ WasPaid => WasPaid'
<1> SUFFICES ASSUME TypeOK, [Next]_vars, WasPaid PROVE WasPaid'
  OBVIOUS
<1>1. ASSUME NEW r \in Requests, Start(r) \/ Continue(r) \/ Abort(r), ~ChangeData(r)
      PROVE  UNCHANGED <<paid, writtenOff>>
  BY <1>1 DEF Start, Continue, Abort, StartEnsure, StartLink, Ensure, StartOperator,
     StartSign, StartCopy, StartChange, CreateContract, SeedOperator, DecideLink, MailLink,
     RecordLink, SignAsOperator, BuildDocument, TakeSnapshot, Archive, ReadArchive, MailCopy,
     RecordCopy, Reread, Begins, Writes, Reads
<1>2. ASSUME NEW r \in Requests, ChangeData(r)
      PROVE  WasPaid'
  <2>1. PICK off : /\ paid' = (paid /\ ~off)
                   /\ writtenOff' = (writtenOff \/ (paid /\ off))
    BY <1>2 DEF ChangeData
  <2> QED
    BY <2>1 DEF WasPaid
<1> QED
  BY <1>1, <1>2 DEF Next, vars, ClientPays, ChangeTerms, SetCompanySignature, WasPaid

\* A request changes nothing of another.
LEMMA ActsOnItself ==
  ASSUME NEW r \in Requests, Start(r) \/ Continue(r) \/ Abort(r)
  PROVE  \E q : Becomes(r, q)
  BY DEF Start, Continue, Abort, StartEnsure, StartLink, Ensure, StartOperator, StartSign,
     StartCopy, StartChange, CreateContract, SeedOperator, DecideLink, MailLink, RecordLink,
     SignAsOperator, BuildDocument, TakeSnapshot, Archive, ReadArchive, MailCopy, RecordCopy,
     ChangeData, Reread, Begins, Writes, Reads

\* So it stays as it is but for its own steps.
LEMMA RequestChanges ==
  ASSUME TypeOK, [Next]_vars, NEW x \in Requests
  PROVE  req'[x] = req[x] \/ Start(x) \/ Continue(x) \/ Abort(x)
<1>1. ASSUME NEW r \in Requests, Start(r) \/ Continue(r) \/ Abort(r), x # r
      PROVE  req'[x] = req[x]
  BY <1>1, ActsOnItself DEF Becomes, TypeOK
<1> QED
  BY <1>1 DEF Next, vars, ClientPays, ChangeTerms, SetCompanySignature

\* No document is the null.
LEMMA DocumentIsNotNone == None \notin Document
<1>1. Operators \ {None} = {"auto", "hand"}
  BY ContractAssumption DEF Operators
<1> QED
  BY <1>1, ContractAssumption DEF Document

\* A document made of a client's and an operator's signature is one.
LEMMA MadeDocument ==
  ASSUME TypeOK, NEW client \in Clients, NEW operator \in Operators, operator # None
  PROVE  [data |-> data, terms |-> terms, client |-> client, operator |-> operator] # None
<1>1. [data |-> data, terms |-> terms, client |-> client, operator |-> operator] \in Document
  BY DEF Document, TypeOK
<1> QED
  BY <1>1, DocumentIsNotNone

\* The writes of the contract's row.
ContractWrite(r) ==
    CreateContract(r) \/ SeedOperator(r) \/ RecordLink(r) \/ SignAsOperator(r)
      \/ Archive(r) \/ RecordCopy(r)

\* Only a request writes the contract.
LEMMA ContractChanges ==
  ASSUME [Next]_vars
  PROVE  UNCHANGED contract \/ \E r \in Requests : ContractWrite(r)
<1>1. ASSUME NEW r \in Requests, Start(r) \/ Continue(r) \/ Abort(r)
      PROVE  UNCHANGED contract \/ ContractWrite(r)
  BY <1>1 DEF ContractWrite, Start, Continue, Abort, StartEnsure, StartLink, Ensure,
     StartOperator, StartSign, StartCopy, StartChange, DecideLink, MailLink,
     BuildDocument, TakeSnapshot, ReadArchive, MailCopy, ChangeData, Reread, Begins, Reads
<1> QED
  BY <1>1 DEF Next, vars, ClientPays, ChangeTerms, SetCompanySignature

\* A contract that exists stays, and who signs it exists then.
LEMMA ExistsStays == TypeOK /\ [Next]_vars /\ contract.exists => contract'.exists
<1> SUFFICES ASSUME TypeOK, [Next]_vars, contract.exists PROVE contract'.exists
  OBVIOUS
<1>1. contract \in Contract
  BY DEF TypeOK
<1>2. ASSUME NEW r \in Requests, ContractWrite(r) PROVE contract'.exists
  <2>1. CASE CreateContract(r)
    BY <2>1 DEF CreateContract, Reads
  <2>2. CASE SeedOperator(r)
    BY <1>1, <2>2 DEF SeedOperator, Seeded, Reads, Writes, Contract
  <2>3. CASE RecordLink(r) \/ SignAsOperator(r) \/ RecordCopy(r)
    BY <1>1, <2>3 DEF RecordLink, SignAsOperator, RecordCopy, Writes, Contract
  <2>4. CASE Archive(r)
    BY <1>1, <2>4 DEF Archive, Signed, Refreshed, Writes, Contract
  <2> QED
    BY <1>2, <2>1, <2>2, <2>3, <2>4 DEF ContractWrite
<1> QED
  BY <1>2, ContractChanges

\* A request that has begun knows what it is about to write,
LEMMA StartRequestOK ==
  ASSUME TypeOK, NEW x \in Requests, Start(x)
  PROVE  RequestOK(x)'
<1>1. CASE StartEnsure(x)
  BY <1>1 DEF StartEnsure, Ensure, Begins, Becomes, TypeOK, RequestOK, At, Idle
<1>2. ASSUME NEW force \in BOOLEAN, StartLink(x, force) PROVE RequestOK(x)'
  BY <1>2 DEF StartLink, Ensure, Begins, Becomes, TypeOK, RequestOK, At, Idle
<1>3. CASE StartOperator(x) \/ StartCopy(x)
  BY <1>3 DEF StartOperator, StartCopy, Begins, Becomes, TypeOK, RequestOK, At, Idle
<1>4. ASSUME NEW client \in Clients, StartSign(x, client) PROVE RequestOK(x)'
  <2>1. req'[x].pc = "build" /\ req'[x].client = client
    BY <1>4 DEF StartSign, Begins, Becomes, TypeOK, Idle
  <2>2. WasPaid' /\ contract'.exists
    BY <1>4 DEF StartSign, MaySign, Begins, WasPaid
  <2> QED
    BY <2>1, <2>2, ContractAssumption DEF RequestOK, At
<1>5. ASSUME NEW task \in {"move", "edit", "supplement"}, NEW version \in Versions,
             NEW mail \in BOOLEAN, StartChange(x, task, version, mail)
      PROVE  RequestOK(x)'
  <2>1. req'[x].pc = "write" /\ req'[x].snapshot = version
    BY <1>5 DEF StartChange, Begins, Becomes, TypeOK, Idle
  <2> QED
    BY <2>1, ContractAssumption DEF RequestOK, At
<1> QED
  BY <1>1, <1>2, <1>3, <1>4, <1>5 DEF Start

\* a request that goes on does,
LEMMA ContinueRequestOK ==
  ASSUME IInv, [Next]_vars, NEW x \in Requests, Continue(x)
  PROVE  RequestOK(x)'
<1> TypeOK /\ RequestOK(x) /\ SignedWasPaidAndComplete /\ SignedExists
  BY DEF IInv, RequestsOK
<1> req[x] \in Request /\ contract \in Contract
  BY DEF TypeOK
<1>4. ASSUME req'[x].pc \notin {"build", "snapshot", "archive", "write"}
      PROVE  RequestOK(x)'
  BY <1>4 DEF RequestOK, At
<1>5. CASE CreateContract(x) \/ SeedOperator(x) \/ DecideLink(x)
  <2>1. CASE CreateContract(x)
    <3>1. CASE contract.exists
      <4>1. req'[x].pc = "idle"
        BY <2>1, <3>1 DEF CreateContract, Reads, Becomes, TypeOK, Idle
      <4> QED
        BY <1>4, <4>1
    <3>2. CASE ~contract.exists
      <4> DEFINE q == [req[x] EXCEPT !.pc = "seed", !.row = [NoContract EXCEPT !.exists = TRUE]]
      <4>1. Becomes(x, q)
        BY <2>1, <3>2 DEF CreateContract, Writes
      <4>2. q.pc = "seed"
        BY DEF Request
      <4> HIDE DEF q
      <4>3. req'[x].pc = "seed"
        BY <4>1, <4>2 DEF Becomes, TypeOK
      <4> QED
        BY <1>4, <4>3
    <3> QED
      BY <3>1, <3>2
  <2>2. CASE SeedOperator(x)
    <3>1. req'[x].pc = "link"
      BY <2>2 DEF SeedOperator, Reads, Writes, Becomes, TypeOK, Request
    <3> QED
      BY <1>4, <3>1
  <2>3. CASE DecideLink(x)
    <3>1. req'[x].pc \in {"idle", "linkMail"}
      BY <2>3 DEF DecideLink, Reads, Becomes, TypeOK, Idle
    <3> QED
      BY <1>4, <3>1
  <2> QED
    BY <1>5, <2>1, <2>2, <2>3
<1>6. CASE MailLink(x) \/ RecordLink(x) \/ MailCopy(x) \/ RecordCopy(x)
  <2>1. CASE MailLink(x) \/ MailCopy(x)
    <3>1. req'[x].pc \in {"linkSent", "copySent"}
      BY <2>1 DEF MailLink, MailCopy, Becomes, TypeOK, Request
    <3> QED
      BY <1>4, <3>1
  <2>2. CASE RecordLink(x) \/ RecordCopy(x)
    <3>1. req'[x].pc = "idle"
      BY <2>2 DEF RecordLink, RecordCopy, Writes, Becomes, TypeOK, Idle
    <3> QED
      BY <1>4, <3>1
  <2> QED
    BY <1>6, <2>1, <2>2
<1>7. CASE SignAsOperator(x) \/ Archive(x) \/ ReadArchive(x)
  <2>1. CASE SignAsOperator(x)
    <3>1. req'[x].pc = "idle"
      BY <2>1 DEF SignAsOperator, Writes, Becomes, TypeOK, Idle
    <3> QED
      BY <1>4, <3>1
  <2>2. CASE Archive(x)
    <3>1. req'[x] = ThenCopy(req[x])
      BY <2>2 DEF Archive, Writes, Becomes, TypeOK
    <3>2. req'[x].pc \in {"idle", "copy"}
      BY <3>1 DEF ThenCopy, Idle
    <3> QED
      BY <1>4, <3>2
  <2>3. CASE ReadArchive(x)
    <3>1. req'[x].pc \in {"idle", "copyMail"}
      BY <2>3 DEF ReadArchive, Reads, Becomes, TypeOK, Idle
    <3> QED
      BY <1>4, <3>1
  <2> QED
    BY <1>7, <2>1, <2>2, <2>3
<1>8. CASE ChangeData(x)
  <2>1. req'[x].pc \in {"idle", "reread"}
    BY <1>8 DEF ChangeData, Becomes, TypeOK, Idle, Request
  <2> QED
    BY <1>4, <2>1
<1>9. CASE BuildDocument(x)
  <2> DEFINE operator == OperatorOf(req[x].row)
             html == [data |-> data, terms |-> terms, client |-> req[x].client, operator |-> operator]
             q == [req[x] EXCEPT !.pc = "snapshot", !.html = html, !.row = NoContract]
  <2>1. operator \in Operators
    BY OperatorType DEF Request
  <2>2. req[x].client \in Clients /\ WasPaid /\ contract.exists
    BY <1>9 DEF BuildDocument, RequestOK, Request
  <2>3. operator # None => html # None
    BY <2>1, <2>2, MadeDocument
  <2>4. Reads(x, IF OperatorSigned(operator) THEN q ELSE Idle)
    BY <1>9 DEF BuildDocument
  <2>5. WasPaid' = WasPaid /\ contract' = contract
    BY <2>4 DEF Reads, WasPaid
  <2>9. req'[x] = IF OperatorSigned(operator) THEN q ELSE Idle
    BY <2>4 DEF Reads, Becomes, TypeOK
  <2>6. q.pc = "snapshot" /\ q.html = html
    BY DEF Request
  <2> HIDE DEF q, html, operator
  <2>7. CASE OperatorSigned(operator)
    BY <2>2, <2>3, <2>5, <2>6, <2>7, <2>9 DEF OperatorSigned, RequestOK, At
  <2>8. CASE ~OperatorSigned(operator)
    BY <1>4, <2>8, <2>9 DEF Idle
  <2> QED
    BY <2>7, <2>8
<1>10. CASE TakeSnapshot(x)
  <2> DEFINE q == [req[x] EXCEPT !.pc = "archive", !.snapshot = data]
  <2>1. Reads(x, q)
    BY <1>10 DEF TakeSnapshot
  <2>2. WasPaid' = WasPaid /\ contract' = contract /\ req'[x] = q
    BY <2>1 DEF Reads, Becomes, TypeOK, WasPaid
  <2>3. q.pc = "archive" /\ q.html = req[x].html /\ q.task = req[x].task /\ q.snapshot = data
    BY DEF Request
  <2>4. data # None
    BY ContractAssumption DEF TypeOK
  <2> HIDE DEF q
  <2> QED
    BY <1>10, <2>2, <2>3, <2>4 DEF TakeSnapshot, RequestOK, At
<1>11. CASE Reread(x)
  <2> DEFINE html == [data |-> data, terms |-> terms, client |-> contract.client,
                      operator |-> OperatorOf(contract)]
             q == [req[x] EXCEPT !.pc = "snapshot", !.html = html]
  <2>1. Reads(x, IF contract.signed THEN q ELSE ThenCopy(req[x]))
    BY <1>11 DEF Reread
  <2>2. /\ WasPaid' = WasPaid /\ contract' = contract
        /\ req'[x] = IF contract.signed THEN q ELSE ThenCopy(req[x])
    BY <2>1 DEF Reads, Becomes, TypeOK, WasPaid
  <2>3. contract.signed => html # None /\ WasPaid /\ contract.exists
    <3>1. SUFFICES ASSUME contract.signed PROVE html # None /\ WasPaid /\ contract.exists
      BY DEF SignedExists
    <3>2. contract.client \in Clients /\ OperatorOf(contract) # None /\ WasPaid
      BY <3>1 DEF SignedWasPaidAndComplete, Contract, OperatorOf
    <3>3. OperatorOf(contract) \in Operators
      BY OperatorType
    <3>4. html # None
      BY <3>2, <3>3, MadeDocument
    <3> QED
      BY <3>1, <3>2, <3>4 DEF SignedExists
  <2>4. q.pc = "snapshot" /\ q.html = html
    BY DEF Request
  <2> HIDE DEF q, html
  <2>5. CASE contract.signed
    BY <2>2, <2>3, <2>4, <2>5 DEF RequestOK, At
  <2>6. CASE ~contract.signed
    BY <1>4, <2>2, <2>6 DEF ThenCopy, Idle
  <2> QED
    BY <2>5, <2>6
<1> QED
  BY <1>5, <1>6, <1>7, <1>8, <1>9, <1>10, <1>11 DEF Continue

\* and what a request knows nobody takes from it.
LEMMA RequestsStep == IInv /\ [Next]_vars => RequestsOK'
<1> SUFFICES ASSUME IInv, [Next]_vars, NEW x \in Requests PROVE RequestOK(x)'
  BY DEF RequestsOK
<1>1. CASE req'[x] = req[x]
  BY <1>1, WasPaidStays, ExistsStays DEF IInv, RequestsOK, RequestOK, At
<1>2. CASE Start(x)
  BY <1>2, StartRequestOK DEF IInv
<1>3. CASE Continue(x)
  BY <1>3, ContinueRequestOK
<1>4. CASE Abort(x)
  BY <1>4 DEF Abort, Becomes, IInv, TypeOK, Idle, RequestOK, At
<1> QED
  BY <1>1, <1>2, <1>3, <1>4, RequestChanges DEF IInv

\* A write signs what was paid and is complete, and leaves what is signed signed.
LEMMA SignedStep ==
  ASSUME IInv, [Next]_vars
  PROVE  SignedWasPaidAndComplete' /\ SignedExists' /\ (contract.signed => contract'.signed)
<1> TypeOK /\ SignedWasPaidAndComplete /\ SignedExists
  BY DEF IInv
<1> contract \in Contract
  BY DEF TypeOK
<1> DEFINE Goal == /\ contract'.signed => /\ contract'.client # None /\ contract'.operator # None
                                          /\ contract'.html # None /\ contract'.snapshot # None
                                          /\ WasPaid /\ contract.exists
                   /\ contract.signed => contract'.signed
<1>1. ASSUME UNCHANGED contract PROVE Goal
  BY <1>1 DEF SignedWasPaidAndComplete, SignedExists
<1>2. ASSUME NEW r \in Requests, ContractWrite(r)
      PROVE  Goal
  <2> RequestOK(r) /\ req[r] \in Request
    BY DEF IInv, RequestsOK, TypeOK
  <2>1. CASE CreateContract(r)
    <3>1. CASE contract.exists
      BY <2>1, <3>1 DEF CreateContract, Reads, SignedWasPaidAndComplete, SignedExists
    <3>2. CASE ~contract.exists
      BY <2>1, <3>2 DEF CreateContract, Writes, NoContract, SignedExists
    <3> QED
      BY <3>1, <3>2
  <2>2. CASE SeedOperator(r)
    BY <2>2 DEF SeedOperator, Seeded, Reads, Writes, Contract, SignedWasPaidAndComplete,
       SignedExists
  <2>3. CASE RecordLink(r) \/ SignAsOperator(r) \/ RecordCopy(r)
    <3>1. "hand" # None
      BY ContractAssumption
    <3> QED
      BY <2>3, <3>1 DEF RecordLink, SignAsOperator, RecordCopy, Writes, Contract,
         SignedWasPaidAndComplete, SignedExists
  <2>4. CASE Archive(r)
    <3>1. req[r].html \in Document /\ req[r].html # None /\ req[r].snapshot # None
      BY <2>4 DEF Archive, RequestOK, Request
    <3>2. CASE req[r].task = "sign"
      <4>1. contract' = Signed(req[r].html, req[r].snapshot)
        BY <2>4, <3>2 DEF Archive, Writes
      <4>2. WasPaid /\ contract.exists
        BY <2>4, <3>2 DEF Archive, RequestOK
      <4>3. req[r].html.client # None /\ req[r].html.operator # None
        BY <3>1, ContractAssumption DEF Document
      <4> QED
        BY <3>1, <4>1, <4>2, <4>3 DEF Signed, Contract
    <3>3. CASE req[r].task # "sign"
      <4>1. contract' = Refreshed(req[r].html, req[r].snapshot)
        BY <2>4, <3>3 DEF Archive, Writes
      <4> QED
        BY <3>1, <4>1 DEF Refreshed, Contract, SignedWasPaidAndComplete, SignedExists
    <3> QED
      BY <3>2, <3>3
  <2> QED
    BY <1>2, <2>1, <2>2, <2>3, <2>4 DEF ContractWrite
<1>3. Goal
  BY <1>1, <1>2, ContractChanges DEF SignedWasPaidAndComplete, SignedExists
<1> QED
  BY <1>3, WasPaidStays, ExistsStays DEF SignedWasPaidAndComplete, SignedExists

-----------------------------------------------------------------------------
(* The theorems.                                                           *)

\* The invariant holds before anything has happened.
LEMMA InvInit == Init => IInv
<1> SUFFICES ASSUME Init PROVE IInv
  OBVIOUS
<1>1. TypeOK
  <2>1. 0 \in 0..MaxLinks /\ 0 \in 0..MaxAborts
    BY ContractAssumption
  <2>2. req \in [Requests -> Request]
    BY IdleType DEF Init
  <2> QED
    BY <2>1, <2>2, NoContractType DEF Init, TypeOK
<1>2. RequestsOK
  BY DEF Init, RequestsOK, RequestOK, At, Idle
<1>3. SignedWasPaidAndComplete /\ SignedExists
  BY DEF Init, NoContract, SignedWasPaidAndComplete, SignedExists
<1> QED
  BY <1>1, <1>2, <1>3 DEF IInv

\* Every step keeps it.
LEMMA InvStep == IInv /\ [Next]_vars => IInv'
  BY TypeStep, RequestsStep, SignedStep DEF IInv

\* So it holds at all times.
THEOREM Invariance == Spec => []IInv
  BY InvInit, InvStep, PTL DEF Spec

\* The variables keep their types, whatever the requests and their number.
THEOREM TypeCorrect == Spec => []TypeOK
<1>1. IInv => TypeOK
  BY DEF IInv
<1> QED
  BY <1>1, Invariance, PTL

\* A signed contract is that of a reservation that was paid and bears both signatures,
\* however many requests sign, move, edit and die at a time.
THEOREM SignedContractIsComplete == Spec => []SignedWasPaidAndComplete
<1>1. IInv => SignedWasPaidAndComplete
  BY DEF IInv
<1> QED
  BY <1>1, Invariance, PTL

\* No step of any request takes a signature back.
THEOREM SignatureIsFinal == Spec => SignedStaysSigned
<1>1. IInv /\ [Next]_vars => [contract.signed => contract'.signed]_vars
  BY SignedStep
<1> QED
  BY <1>1, Invariance, PTL DEF Spec, SignedStaysSigned

-----------------------------------------------------------------------------
(* Requests that have come one at a time.  At most one of them is running, *)
(* so what it has read is still what the row and the reservation say: that *)
(* is what the properties of serial requests rest on, and what two         *)
(* overlapping requests lose.                                              *)

Copying(r) == At(r, "copy") \/ At(r, "copyMail")

Linking(r) == At(r, "linkSent")

\* No two requests are running.
OneAtATime == \A p, q \in Requests : ~At(p, "idle") /\ ~At(q, "idle") => p = q

\* The archived document agrees with the row and with its own fingerprint, and
\* what was mailed with the client's signature.
ArchiveAgrees ==
    /\ contract.signed =>
          /\ contract.html.client = contract.client
          /\ contract.html.operator = contract.operator
          /\ contract.html.data = contract.snapshot
    /\ mailed # None => contract.signed /\ mailed.client = contract.client
    /\ contract.copySent => mailed # None

\* A signed contract has been mailed, or is about to be.
CopyIsDue ==
    aborts = 0 /\ contract.signed => mailed # None \/ \E r \in Requests : Copying(r)

\* An unforced link was mailed once, and is recorded or about to be.
LinkIsDue ==
    /\ links > 0 => contract.exists
    /\ aborts = 0 /\ links > 0 =>
          links = 1 /\ (contract.linkSent \/ \E r \in Requests : Linking(r))

\* What the running request has read still holds.
Knows(r) ==
    /\ At(r, "seed") => /\ req[r].row.operator = contract.operator
                        /\ req[r].row.signed = contract.signed
    /\ At(r, "seed") \/ At(r, "link") => req[r].row.linkSent = contract.linkSent
    /\ At(r, "seed") \/ At(r, "link") \/ At(r, "linkMail") \/ Linking(r) => contract.exists
    /\ At(r, "linkMail") /\ ~req[r].mail => ~contract.linkSent
    /\ At(r, "operator") => ~contract.signed
    /\ At(r, "build") => ~contract.signed /\ req[r].task = "sign"
    /\ At(r, "snapshot") \/ At(r, "archive") =>
          /\ req[r].html.data = data
          /\ req[r].task = "sign" => ~contract.signed
          /\ req[r].task # "sign" => /\ contract.signed
                                     /\ req[r].html.client = contract.client
                                     /\ req[r].html.operator = contract.operator
    /\ At(r, "archive") => req[r].snapshot = data
    /\ At(r, "write") \/ At(r, "reread") => req[r].task # "sign"
    /\ At(r, "copyMail") => contract.signed /\ req[r].html = contract.html
    /\ At(r, "copySent") => mailed # None

SerialOK == /\ OneAtATime /\ ArchiveAgrees /\ CopyIsDue /\ LinkIsDue
            /\ \A r \in Requests : Knows(r)

SInv == IInv /\ (~overlapped => SerialOK)

\* Only one request runs, if any.
Alone(r) == \A x \in Requests : x # r => At(x, "idle")

\* What the only running request has to do with the mails.
DueFrom(r) ==
    /\ aborts = 0 /\ contract.signed => mailed # None \/ Copying(r)
    /\ links > 0 => contract.exists
    /\ aborts = 0 /\ links > 0 => links = 1 /\ (contract.linkSent \/ Linking(r))

SerialFor(r) == ArchiveAgrees /\ DueFrom(r) /\ Knows(r)

\* When only one request runs, what is due is due from it,
LEMMA SerialGives ==
  ASSUME SerialOK, NEW r \in Requests, Alone(r)
  PROVE  SerialFor(r)
<1>1. \A x \in Requests : Copying(x) \/ Linking(x) => x = r
  BY DEF Alone, Copying, Linking, At
<1>2. /\ (\E x \in Requests : Copying(x)) => Copying(r)
      /\ (\E x \in Requests : Linking(x)) => Linking(r)
  BY <1>1
<1> QED
  BY <1>2 DEF SerialOK, CopyIsDue, LinkIsDue, DueFrom, SerialFor

\* and the promises about it are the promises about all.
LEMMA SerialFrom ==
  ASSUME NEW r \in Requests, Alone(r)', SerialFor(r)'
  PROVE  SerialOK'
<1>1. OneAtATime'
  BY DEF Alone, OneAtATime
<1>2. CopyIsDue' /\ LinkIsDue'
  BY DEF SerialFor, DueFrom, CopyIsDue, LinkIsDue
<1>3. ASSUME NEW x \in Requests, x # r PROVE Knows(x)'
  BY <1>3 DEF Alone, Knows, Linking, At
<1> QED
  BY <1>1, <1>2, <1>3 DEF SerialFor, SerialOK

\* A step that changes neither row nor mails keeps what is due, if the request
\* that has to mail is not leaving it.
LEMMA DueStays ==
  ASSUME NEW r \in Requests, ArchiveAgrees, DueFrom(r),
         UNCHANGED <<contract, mailed, links, aborts>>,
         Copying(r) => Copying(r)', Linking(r) => Linking(r)'
  PROVE  ArchiveAgrees' /\ DueFrom(r)'
<1>1. ArchiveAgrees'
  BY DEF ArchiveAgrees
<1> QED
  BY <1>1 DEF DueFrom

\* A request that knows nothing is right.
LEMMA IdleKnows ==
  ASSUME NEW r \in Requests, req'[r].pc \in {"idle", "create", "copy"}
  PROVE  Knows(r)'
  BY DEF Knows, Linking, At

\* A request that starts alone has read what holds.
LEMMA StartSerial ==
  ASSUME TypeOK, NEW r \in Requests, Start(r), SerialFor(r)
  PROVE  SerialFor(r)'
<1>1. ASSUME NEW q, Begins(r, q)
      PROVE  /\ req'[r] = q
             /\ UNCHANGED <<data, contract, mailed>>
             /\ ArchiveAgrees' /\ DueFrom(r)'
  <2>1. ~Copying(r) /\ ~Linking(r) /\ UNCHANGED <<data, contract, mailed, links, aborts>>
    BY <1>1 DEF Begins, Copying, Linking, At
  <2>2. req'[r] = q
    BY <1>1 DEF Begins, Becomes, TypeOK
  <2> QED
    BY <2>1, <2>2, DueStays DEF SerialFor
<1>2. ASSUME NEW task \in Tasks, NEW force \in BOOLEAN, Ensure(r, task, force)
      PROVE  SerialFor(r)'
  <2> DEFINE q == [Idle EXCEPT !.task = task, !.mail = force, !.row = Known(contract),
                               !.pc = IF contract.exists THEN "seed" ELSE "create"]
  <2>1. Begins(r, q)
    BY <1>2 DEF Ensure
  <2>2. q.pc = (IF contract.exists THEN "seed" ELSE "create") /\ q.row = Known(contract)
    BY DEF Idle
  <2>3. /\ Known(contract).operator = contract.operator
        /\ Known(contract).signed = contract.signed
        /\ Known(contract).linkSent = contract.linkSent
    BY DEF Known, NoContract
  <2> HIDE DEF q
  <2>4. /\ req'[r] = q
        /\ UNCHANGED <<data, contract, mailed>>
        /\ ArchiveAgrees' /\ DueFrom(r)'
    BY <1>1, <2>1
  <2>5. Knows(r)'
    BY <2>2, <2>3, <2>4 DEF Knows, Linking, At
  <2> QED
    BY <2>4, <2>5 DEF SerialFor
<1>3. CASE StartEnsure(r)
  BY <1>2, <1>3 DEF StartEnsure, Tasks
<1>4. ASSUME NEW force \in BOOLEAN, StartLink(r, force) PROVE SerialFor(r)'
  BY <1>2, <1>4 DEF StartLink, Tasks
<1>5. CASE StartOperator(r)
  <2> DEFINE q == [Idle EXCEPT !.pc = "operator", !.task = "operator"]
  <2>1. Begins(r, q) /\ ~contract.signed
    BY <1>5 DEF StartOperator, OperatorMaySign
  <2>2. q.pc = "operator"
    BY DEF Idle
  <2> HIDE DEF q
  <2>3. req'[r] = q /\ UNCHANGED contract /\ ArchiveAgrees' /\ DueFrom(r)'
    BY <1>1, <2>1
  <2>4. Knows(r)'
    BY <2>1, <2>2, <2>3 DEF Knows, Linking, At
  <2> QED
    BY <2>3, <2>4 DEF SerialFor
<1>6. ASSUME NEW client \in Clients, StartSign(r, client) PROVE SerialFor(r)'
  <2> DEFINE q == [Idle EXCEPT !.pc = "build", !.task = "sign", !.client = client,
                               !.row = [NoContract EXCEPT !.operator = contract.operator]]
  <2>1. Begins(r, q) /\ ~contract.signed
    BY <1>6 DEF StartSign, MaySign
  <2>2. q.pc = "build" /\ q.task = "sign"
    BY DEF Idle
  <2> HIDE DEF q
  <2>3. req'[r] = q /\ UNCHANGED contract /\ ArchiveAgrees' /\ DueFrom(r)'
    BY <1>1, <2>1
  <2>4. Knows(r)'
    BY <2>1, <2>2, <2>3 DEF Knows, Linking, At
  <2> QED
    BY <2>3, <2>4 DEF SerialFor
<1>7. CASE StartCopy(r)
  <2> DEFINE q == [Idle EXCEPT !.pc = "copy", !.task = "copy", !.mail = TRUE]
  <2>1. Begins(r, q)
    BY <1>7 DEF StartCopy
  <2>2. q.pc = "copy"
    BY DEF Idle
  <2> HIDE DEF q
  <2>3. req'[r] = q /\ ArchiveAgrees' /\ DueFrom(r)'
    BY <1>1, <2>1
  <2> QED
    BY <2>2, <2>3, IdleKnows DEF SerialFor
<1>8. ASSUME NEW task \in {"move", "edit", "supplement"}, NEW version \in Versions,
             NEW mail \in BOOLEAN, StartChange(r, task, version, mail)
      PROVE  SerialFor(r)'
  <2> DEFINE q == [Idle EXCEPT !.pc = "write", !.task = task, !.mail = mail,
                               !.row = [NoContract EXCEPT !.signed = contract.signed],
                               !.snapshot = version]
  <2>1. Begins(r, q)
    BY <1>8 DEF StartChange
  <2>2. q.pc = "write" /\ q.task = task
    BY DEF Idle
  <2> HIDE DEF q
  <2>3. req'[r] = q /\ ArchiveAgrees' /\ DueFrom(r)'
    BY <1>1, <2>1
  <2>4. Knows(r)'
    BY <2>2, <2>3 DEF Knows, Linking, At
  <2> QED
    BY <2>3, <2>4 DEF SerialFor
<1> QED
  BY <1>3, <1>4, <1>5, <1>6, <1>7, <1>8 DEF Start

\* A step that only reads keeps the archive, and what is due if the request
\* that has to mail is not leaving it.
LEMMA ReadsSerial ==
  ASSUME TypeOK, NEW r \in Requests, NEW q, Reads(r, q), SerialFor(r),
         Copying(r) => q.pc \in {"copy", "copyMail"}, ~Linking(r),
         req'[r] = q => Knows(r)'
  PROVE  SerialFor(r)'
<1>1. req'[r] = q /\ UNCHANGED <<contract, mailed, links, aborts>>
  BY DEF Reads, Becomes, TypeOK
<1>2. Copying(r) => Copying(r)'
  BY <1>1 DEF Copying, At
<1>3. ArchiveAgrees' /\ DueFrom(r)'
  BY <1>1, <1>2, DueStays DEF SerialFor
<1> QED
  BY <1>1, <1>3 DEF SerialFor

\* The contract's making and the mail that asks for a signature keep it,
LEMMA LinkSerial ==
  ASSUME IInv, IInv', NEW r \in Requests, SerialFor(r),
         CreateContract(r) \/ SeedOperator(r) \/ DecideLink(r) \/ MailLink(r) \/ RecordLink(r)
  PROVE  SerialFor(r)'
<1> TypeOK /\ SignedExists /\ Knows(r) /\ ArchiveAgrees /\ DueFrom(r)
  BY DEF IInv, SerialFor
<1> req[r] \in Request /\ contract \in Contract
  BY DEF TypeOK
<1>1. CASE CreateContract(r)
  <2>1. At(r, "create")
    BY <1>1 DEF CreateContract
  <2>2. CASE contract.exists
    <3>1. Reads(r, Idle)
      BY <1>1, <2>2 DEF CreateContract
    <3>2. Idle.pc = "idle"
      BY DEF Idle
    <3> QED
      BY <2>1, <3>1, <3>2, ReadsSerial, IdleKnows DEF Copying, Linking, At
  <2>3. CASE ~contract.exists
    <3> DEFINE row == [NoContract EXCEPT !.exists = TRUE]
               q == [req[r] EXCEPT !.pc = "seed", !.row = row]
    <3>1. Writes(r, row, q)
      BY <1>1, <2>3 DEF CreateContract
    <3>2. q.pc = "seed" /\ q.row = row
      BY DEF Request
    <3>3. row.exists /\ ~row.signed /\ ~row.copySent
      BY DEF NoContract
    <3> HIDE DEF q, row
    <3>4. /\ req'[r] = q /\ contract' = row
          /\ UNCHANGED <<data, mailed, links, aborts>>
      BY <3>1 DEF Writes, Becomes, TypeOK
    <3>5. mailed = None /\ links = 0
      <4>1. ~contract.signed /\ ~(links > 0)
        BY <2>3 DEF SignedExists, DueFrom
      <4>2. links \in 0..MaxLinks /\ MaxLinks \in Nat
        BY ContractAssumption DEF TypeOK
      <4> QED
        BY <4>1, <4>2 DEF ArchiveAgrees
    <3>6. Knows(r)'
      BY <3>2, <3>3, <3>4 DEF Knows, Linking, At
    <3>7. ArchiveAgrees'
      BY <3>3, <3>4, <3>5 DEF ArchiveAgrees
    <3>8. DueFrom(r)'
      BY <3>3, <3>4, <3>5 DEF DueFrom
    <3> QED
      BY <3>6, <3>7, <3>8 DEF SerialFor
  <2> QED
    BY <2>2, <2>3
<1>2. CASE SeedOperator(r)
  <2>1. At(r, "seed") /\ ~Copying(r) /\ ~Linking(r)
    BY <1>2 DEF SeedOperator, Copying, Linking, At
  <2>2. /\ contract.exists
        /\ req[r].row.linkSent = contract.linkSent
        /\ req[r].row.signed = contract.signed
    BY <2>1 DEF Knows
  <2>3. CASE req[r].row.operator # None \/ req[r].row.signed \/ company = None
    <3> DEFINE q == [req[r] EXCEPT !.pc = "link"]
    <3>1. Reads(r, q)
      BY <1>2, <2>3 DEF SeedOperator
    <3>2. q.pc = "link" /\ q.row = req[r].row
      BY DEF Request
    <3> HIDE DEF q
    <3>3. UNCHANGED contract
      BY <3>1 DEF Reads
    <3>4. req'[r] = q => Knows(r)'
      BY <2>2, <3>2, <3>3 DEF Knows, Linking, At
    <3> QED
      BY <2>1, <3>1, <3>4, ReadsSerial
  <2>4. CASE ~(req[r].row.operator # None \/ req[r].row.signed \/ company = None)
    <3> DEFINE row == Seeded(req[r].row)
               q == [req[r] EXCEPT !.pc = "link", !.row = Known(row)]
    <3>1. Writes(r, row, q)
      BY <1>2, <2>4 DEF SeedOperator
    <3>2. q.pc = "link" /\ q.row = Known(row)
      BY DEF Request
    <3>3. /\ row.exists /\ ~row.signed
          /\ row.linkSent = contract.linkSent /\ row.copySent = contract.copySent
      BY <2>2, <2>4 DEF Seeded, Contract
    <3>4. Known(row).linkSent = row.linkSent
      BY DEF Known, NoContract
    <3> HIDE DEF q, row
    <3>5. /\ req'[r] = q /\ contract' = row
          /\ UNCHANGED <<data, mailed, links, aborts>>
      BY <3>1 DEF Writes, Becomes, TypeOK
    <3>6. Knows(r)'
      BY <3>2, <3>3, <3>4, <3>5 DEF Knows, Linking, At
    <3>7. ArchiveAgrees'
      BY <2>2, <2>4, <3>3, <3>5 DEF ArchiveAgrees
    <3>8. DueFrom(r)'
      BY <2>1, <2>2, <2>4, <3>3, <3>5 DEF DueFrom
    <3> QED
      BY <3>6, <3>7, <3>8 DEF SerialFor
  <2> QED
    BY <2>3, <2>4
<1>3. CASE DecideLink(r)
  <2>1. At(r, "link") /\ ~Copying(r) /\ ~Linking(r)
    BY <1>3 DEF DecideLink, Copying, Linking, At
  <2>2. contract.exists /\ req[r].row.linkSent = contract.linkSent
    BY <2>1 DEF Knows
  <2>3. CASE AsksSignature(req[r])
    <3> DEFINE q == [Idle EXCEPT !.pc = "linkMail", !.task = "link", !.mail = req[r].mail]
    <3>1. Reads(r, q)
      BY <1>3, <2>3 DEF DecideLink
    <3>2. q.pc = "linkMail" /\ q.mail = req[r].mail
      BY DEF Idle
    <3>3. ~req[r].mail => ~contract.linkSent
      BY <2>2, <2>3 DEF AsksSignature
    <3> HIDE DEF q
    <3>4. UNCHANGED contract
      BY <3>1 DEF Reads
    <3>5. req'[r] = q => Knows(r)'
      BY <2>2, <3>2, <3>3, <3>4 DEF Knows, Linking, At
    <3> QED
      BY <2>1, <3>1, <3>5, ReadsSerial
  <2>4. CASE ~AsksSignature(req[r])
    <3>1. Reads(r, Idle)
      BY <1>3, <2>4 DEF DecideLink
    <3>2. Idle.pc = "idle"
      BY DEF Idle
    <3> QED
      BY <2>1, <3>1, <3>2, ReadsSerial, IdleKnows
  <2> QED
    BY <2>3, <2>4
<1>4. CASE MailLink(r)
  <2> DEFINE q == [req[r] EXCEPT !.pc = "linkSent"]
  <2>1. At(r, "linkMail") /\ ~Copying(r) /\ ~Linking(r)
    BY <1>4 DEF MailLink, Copying, Linking, At
  <2>2. Becomes(r, q) /\ UNCHANGED <<contract, mailed, aborts>>
    BY <1>4 DEF MailLink
  <2>3. q.pc = "linkSent"
    BY DEF Request
  <2> HIDE DEF q
  <2>4. req'[r] = q
    BY <2>2 DEF Becomes, TypeOK
  <2>5. Linking(r)' /\ Knows(r)'
    BY <2>1, <2>2, <2>3, <2>4 DEF Knows, Linking, At
  <2>6. ArchiveAgrees'
    BY <2>2 DEF ArchiveAgrees
  <2>7. links \in 0..MaxLinks /\ MaxLinks \in Nat
    BY ContractAssumption DEF TypeOK
  <2>8. aborts = 0 /\ links' > 0 => links' = 1
    <3>1. CASE req[r].mail
      BY <1>4, <3>1 DEF MailLink, DueFrom
    <3>2. CASE ~req[r].mail
      BY <1>4, <2>1, <2>7, <3>2 DEF MailLink, DueFrom, Knows
    <3> QED
      BY <3>1, <3>2
  <2>9. DueFrom(r)'
    <3>1. contract.exists
      BY <2>1 DEF Knows
    <3> QED
      BY <2>1, <2>2, <2>5, <2>8, <3>1 DEF DueFrom
  <2> QED
    BY <2>5, <2>6, <2>9 DEF SerialFor
<1>5. CASE RecordLink(r)
  <2> DEFINE row == [contract EXCEPT !.linkSent = TRUE]
  <2>1. At(r, "linkSent") /\ Writes(r, row, Idle)
    BY <1>5 DEF RecordLink
  <2>2. row.linkSent
    BY DEF Contract
  <2>3. /\ row.exists = contract.exists /\ row.signed = contract.signed
        /\ row.copySent = contract.copySent /\ row.client = contract.client
        /\ row.operator = contract.operator /\ row.html = contract.html
        /\ row.snapshot = contract.snapshot
    BY DEF Contract
  <2> HIDE DEF row
  <2>4. req'[r] = Idle /\ contract' = row /\ UNCHANGED <<data, mailed, links, aborts>>
    BY <2>1 DEF Writes, Becomes, TypeOK
  <2>5. Knows(r)'
    BY <2>4, IdleKnows DEF Idle
  <2>6. ArchiveAgrees'
    BY <2>3, <2>4 DEF ArchiveAgrees
  <2>7. DueFrom(r)'
    BY <2>1, <2>2, <2>3, <2>4 DEF DueFrom, Copying, At
  <2> QED
    BY <2>5, <2>6, <2>7 DEF SerialFor
<1> QED
  BY <1>1, <1>2, <1>3, <1>4, <1>5

\* Where a request goes after the archive.
LEMMA ThenCopyGoes ==
  ASSUME NEW q
  PROVE  /\ ThenCopy(q).pc \in {"idle", "copy"}
         /\ q.task = "sign" => ThenCopy(q).pc = "copy"
  BY DEF ThenCopy, Idle

\* so do the signatures and the document,
LEMMA SignSerial ==
  ASSUME IInv, NEW r \in Requests, SerialFor(r),
         SignAsOperator(r) \/ BuildDocument(r) \/ TakeSnapshot(r) \/ Archive(r)
  PROVE  SerialFor(r)'
<1> TypeOK /\ SignedExists /\ Knows(r) /\ ArchiveAgrees /\ DueFrom(r)
  BY DEF IInv, SerialFor
<1> req[r] \in Request /\ contract \in Contract
  BY DEF TypeOK
<1>1. CASE SignAsOperator(r)
  <2> DEFINE row == [contract EXCEPT !.operator = "hand"]
  <2>1. At(r, "operator") /\ Writes(r, row, Idle)
    BY <1>1 DEF SignAsOperator
  <2>2. /\ row.exists = contract.exists /\ row.signed = contract.signed
        /\ row.copySent = contract.copySent /\ row.linkSent = contract.linkSent
    BY DEF Contract
  <2> HIDE DEF row
  <2>3. req'[r] = Idle /\ contract' = row /\ UNCHANGED <<mailed, links, aborts>>
    BY <2>1 DEF Writes, Becomes, TypeOK
  <2>4. ~contract.signed
    BY <2>1 DEF Knows
  <2>5. Knows(r)'
    BY <2>3, IdleKnows DEF Idle
  <2>6. ArchiveAgrees'
    BY <2>2, <2>3, <2>4 DEF ArchiveAgrees
  <2>7. DueFrom(r)'
    BY <2>1, <2>2, <2>3, <2>4 DEF DueFrom, Linking, At
  <2> QED
    BY <2>5, <2>6, <2>7 DEF SerialFor
<1>2. CASE BuildDocument(r)
  <2> DEFINE operator == OperatorOf(req[r].row)
             html == [data |-> data, terms |-> terms, client |-> req[r].client, operator |-> operator]
             q == [req[r] EXCEPT !.pc = "snapshot", !.html = html, !.row = NoContract]
  <2>1. At(r, "build") /\ ~Copying(r) /\ ~Linking(r)
    BY <1>2 DEF BuildDocument, Copying, Linking, At
  <2>2. ~contract.signed /\ req[r].task = "sign"
    BY <2>1 DEF Knows
  <2>3. CASE OperatorSigned(operator)
    <3>1. Reads(r, q)
      BY <1>2, <2>3 DEF BuildDocument
    <3>2. q.pc = "snapshot" /\ q.html = html /\ q.task = req[r].task
      BY DEF Request
    <3>3. html.data = data
      OBVIOUS
    <3> HIDE DEF q, html, operator
    <3>4. UNCHANGED <<data, contract>>
      BY <3>1 DEF Reads
    <3>5. req'[r] = q => Knows(r)'
      BY <2>2, <3>2, <3>3, <3>4 DEF Knows, Linking, At
    <3> QED
      BY <2>1, <3>1, <3>5, ReadsSerial
  <2>4. CASE ~OperatorSigned(operator)
    <3>1. Reads(r, Idle)
      BY <1>2, <2>4 DEF BuildDocument
    <3>2. Idle.pc = "idle"
      BY DEF Idle
    <3> QED
      BY <2>1, <3>1, <3>2, ReadsSerial, IdleKnows
  <2> QED
    BY <2>3, <2>4
<1>3. CASE TakeSnapshot(r)
  <2> DEFINE q == [req[r] EXCEPT !.pc = "archive", !.snapshot = data]
  <2>1. At(r, "snapshot") /\ ~Copying(r) /\ ~Linking(r)
    BY <1>3 DEF TakeSnapshot, Copying, Linking, At
  <2>2. Reads(r, q)
    BY <1>3 DEF TakeSnapshot
  <2>3. /\ q.pc = "archive" /\ q.html = req[r].html /\ q.task = req[r].task
        /\ q.snapshot = data
    BY DEF Request
  <2> HIDE DEF q
  <2>4. UNCHANGED <<data, contract>>
    BY <2>2 DEF Reads
  <2>5. req'[r] = q => Knows(r)'
    BY <2>1, <2>3, <2>4 DEF Knows, Linking, At
  <2> QED
    BY <2>1, <2>2, <2>5, ReadsSerial
<1>4. CASE Archive(r)
  <2> DEFINE q == ThenCopy(req[r])
             html == req[r].html
             snapshot == req[r].snapshot
  <2>1. At(r, "archive") /\ ~Copying(r) /\ ~Linking(r)
    BY <1>4 DEF Archive, Copying, Linking, At
  <2>2. /\ Becomes(r, q) /\ UNCHANGED <<data, mailed, links, aborts>>
        /\ contract' = IF req[r].task = "sign" THEN Signed(html, snapshot)
                       ELSE Refreshed(html, snapshot)
    BY <1>4 DEF Archive, Writes
  <2>3. req'[r] = q
    BY <2>2 DEF Becomes, TypeOK
  <2>4. q.pc \in {"idle", "copy"} /\ (req[r].task = "sign" => q.pc = "copy")
    BY ThenCopyGoes
  <2>5. html.data = snapshot
    BY <2>1 DEF Knows
  <2>6. Knows(r)'
    BY <2>3, <2>4, IdleKnows
  <2>7. CASE req[r].task = "sign"
    <3> DEFINE row == Signed(html, snapshot)
    <3>1. /\ row.signed /\ row.client = html.client /\ row.operator = html.operator
          /\ row.html = html /\ row.snapshot = snapshot /\ row.exists = contract.exists
          /\ row.copySent = contract.copySent /\ row.linkSent = contract.linkSent
      BY DEF Signed, Contract
    <3>2. contract' = row
      BY <2>2, <2>7
    <3> HIDE DEF row, q, html, snapshot
    <3>3. ~contract.signed
      BY <2>1, <2>7 DEF Knows
    <3>4. ArchiveAgrees'
      BY <2>2, <2>5, <3>1, <3>2, <3>3 DEF ArchiveAgrees
    <3>5. Copying(r)'
      BY <2>3, <2>4, <2>7 DEF Copying, At
    <3>6. DueFrom(r)'
      BY <2>1, <2>2, <3>1, <3>2, <3>5 DEF DueFrom
    <3> QED
      BY <2>6, <3>4, <3>6 DEF SerialFor
  <2>8. CASE req[r].task # "sign"
    <3> DEFINE row == Refreshed(html, snapshot)
    <3>1. /\ row.signed = contract.signed /\ row.client = contract.client
          /\ row.operator = contract.operator
          /\ row.html = html /\ row.snapshot = snapshot /\ row.exists = contract.exists
          /\ row.copySent = contract.copySent /\ row.linkSent = contract.linkSent
      BY DEF Refreshed, Contract
    <3>2. contract' = row
      BY <2>2, <2>8
    <3>3. html.client = contract.client /\ html.operator = contract.operator
      BY <2>1, <2>8 DEF Knows
    <3> HIDE DEF row, q, html, snapshot
    <3>4. ArchiveAgrees'
      BY <2>2, <2>5, <3>1, <3>2, <3>3 DEF ArchiveAgrees
    <3>5. DueFrom(r)'
      BY <2>1, <2>2, <3>1, <3>2 DEF DueFrom
    <3> QED
      BY <2>6, <3>4, <3>5 DEF SerialFor
  <2> QED
    BY <2>7, <2>8
<1> QED
  BY <1>1, <1>2, <1>3, <1>4

\* the changes of the reservation's data and the end of a request,
LEMMA ChangeSerial ==
  ASSUME IInv, NEW r \in Requests, SerialFor(r),
         ChangeData(r) \/ Reread(r) \/ Abort(r)
  PROVE  SerialFor(r)'
<1> TypeOK /\ SignedWasPaidAndComplete /\ Knows(r) /\ ArchiveAgrees /\ DueFrom(r)
  BY DEF IInv, SerialFor
<1> req[r] \in Request /\ contract \in Contract
  BY DEF TypeOK
<1>1. CASE ChangeData(r)
  <2> DEFINE q == [req[r] EXCEPT !.pc = "reread", !.row = NoContract, !.snapshot = None]
  <2>1. At(r, "write") /\ ~Copying(r) /\ ~Linking(r)
    BY <1>1 DEF ChangeData, Copying, Linking, At
  <2>2. /\ Becomes(r, IF Refreshes(req[r]) THEN q ELSE Idle)
        /\ UNCHANGED <<contract, mailed, links, aborts>>
    BY <1>1 DEF ChangeData
  <2>3. q.pc = "reread" /\ q.task = req[r].task
    BY DEF Request
  <2>4. Idle.pc = "idle"
    BY DEF Idle
  <2> HIDE DEF q
  <2>5. req'[r] = IF Refreshes(req[r]) THEN q ELSE Idle
    BY <2>2 DEF Becomes, TypeOK
  <2>6. Knows(r)'
    BY <2>1, <2>3, <2>4, <2>5 DEF Knows, Linking, At
  <2>7. ArchiveAgrees' /\ DueFrom(r)'
    BY <2>1, <2>2, DueStays
  <2> QED
    BY <2>6, <2>7 DEF SerialFor
<1>2. CASE Reread(r)
  <2>1. At(r, "reread") /\ ~Copying(r) /\ ~Linking(r)
    BY <1>2 DEF Reread, Copying, Linking, At
  <2>2. CASE contract.signed
    <3> DEFINE html == [data |-> data, terms |-> terms, client |-> contract.client,
                        operator |-> OperatorOf(contract)]
               q == [req[r] EXCEPT !.pc = "snapshot", !.html = html]
    <3>1. Reads(r, q)
      BY <1>2, <2>2 DEF Reread
    <3>2. q.pc = "snapshot" /\ q.html = html /\ q.task = req[r].task
      BY DEF Request
    <3>3. OperatorOf(contract) = contract.operator
      BY <2>2 DEF OperatorOf, SignedWasPaidAndComplete
    <3>4. html.data = data /\ html.client = contract.client /\ html.operator = contract.operator
      BY <3>3
    <3> HIDE DEF q, html
    <3>5. UNCHANGED <<data, contract>>
      BY <3>1 DEF Reads
    <3>6. req[r].task # "sign"
      BY <2>1 DEF Knows
    <3>7. req'[r] = q => Knows(r)'
      BY <2>2, <3>2, <3>4, <3>5, <3>6 DEF Knows, Linking, At
    <3> QED
      BY <2>1, <3>1, <3>7, ReadsSerial
  <2>3. CASE ~contract.signed
    <3>1. Reads(r, ThenCopy(req[r]))
      BY <1>2, <2>3 DEF Reread
    <3> QED
      BY <2>1, <3>1, ThenCopyGoes, ReadsSerial, IdleKnows
  <2> QED
    BY <2>2, <2>3
<1>3. CASE Abort(r)
  <2>1. Becomes(r, Idle) /\ aborts' = aborts + 1 /\ UNCHANGED <<contract, mailed, links>>
    BY <1>3 DEF Abort
  <2>2. req'[r] = Idle
    BY <2>1 DEF Becomes, TypeOK
  <2>3. aborts' # 0
    BY <2>1, ContractAssumption DEF TypeOK
  <2>4. Knows(r)'
    BY <2>2, IdleKnows DEF Idle
  <2>5. ArchiveAgrees'
    BY <2>1 DEF ArchiveAgrees
  <2>6. DueFrom(r)'
    BY <2>1, <2>3 DEF DueFrom
  <2> QED
    BY <2>4, <2>5, <2>6 DEF SerialFor
<1> QED
  BY <1>1, <1>2, <1>3

\* and the copy of the signed document.
LEMMA CopySerial ==
  ASSUME IInv, NEW r \in Requests, SerialFor(r),
         ReadArchive(r) \/ MailCopy(r) \/ RecordCopy(r)
  PROVE  SerialFor(r)'
<1> TypeOK /\ SignedWasPaidAndComplete /\ Knows(r) /\ ArchiveAgrees /\ DueFrom(r)
  BY DEF IInv, SerialFor
<1> req[r] \in Request /\ contract \in Contract
  BY DEF TypeOK
<1>1. CASE ReadArchive(r)
  <2> DEFINE q == [Idle EXCEPT !.pc = "copyMail", !.task = req[r].task,
                               !.html = contract.html]
  <2>1. At(r, "copy") /\ Copying(r) /\ ~Linking(r)
    BY <1>1 DEF ReadArchive, Copying, Linking, At
  <2>2. CASE contract.signed /\ (req[r].mail \/ ~contract.copySent)
    <3>1. Reads(r, q)
      BY <1>1, <2>2 DEF ReadArchive
    <3>2. q.pc = "copyMail" /\ q.html = contract.html
      BY DEF Idle
    <3> HIDE DEF q
    <3>3. UNCHANGED contract
      BY <3>1 DEF Reads
    <3>4. req'[r] = q => Knows(r)'
      BY <2>2, <3>2, <3>3 DEF Knows, Linking, At
    <3> QED
      BY <2>1, <3>1, <3>2, <3>4, ReadsSerial
  <2>3. CASE ~(contract.signed /\ (req[r].mail \/ ~contract.copySent))
    <3>1. Reads(r, Idle)
      BY <1>1, <2>3 DEF ReadArchive
    <3>2. req'[r] = Idle /\ UNCHANGED <<contract, mailed, links, aborts>>
      BY <3>1 DEF Reads, Becomes, TypeOK
    <3>3. Knows(r)'
      BY <3>2, IdleKnows DEF Idle
    <3>4. ArchiveAgrees'
      BY <3>2 DEF ArchiveAgrees
    <3>5. contract.signed => mailed # None
      BY <2>3 DEF ArchiveAgrees
    <3>6. DueFrom(r)'
      BY <2>1, <3>2, <3>5 DEF DueFrom
    <3> QED
      BY <3>3, <3>4, <3>6 DEF SerialFor
  <2> QED
    BY <2>2, <2>3
<1>2. CASE MailCopy(r)
  <2> DEFINE q == [req[r] EXCEPT !.pc = "copySent", !.html = None]
  <2>1. At(r, "copyMail") /\ ~Linking(r)
    BY <1>2 DEF MailCopy, Linking, At
  <2>2. mailed' = req[r].html /\ Becomes(r, q) /\ UNCHANGED <<contract, links, aborts>>
    BY <1>2 DEF MailCopy
  <2>3. q.pc = "copySent"
    BY DEF Request
  <2> HIDE DEF q
  <2>4. req'[r] = q
    BY <2>2 DEF Becomes, TypeOK
  <2>5. contract.signed /\ req[r].html = contract.html
    BY <2>1 DEF Knows
  <2>6. mailed' # None /\ mailed'.client = contract.client
    BY <2>2, <2>5 DEF ArchiveAgrees, SignedWasPaidAndComplete
  <2>7. Knows(r)'
    BY <2>3, <2>4, <2>6 DEF Knows, Linking, At
  <2>8. ArchiveAgrees'
    BY <2>2, <2>5, <2>6 DEF ArchiveAgrees
  <2>9. DueFrom(r)'
    BY <2>1, <2>2, <2>6 DEF DueFrom
  <2> QED
    BY <2>7, <2>8, <2>9 DEF SerialFor
<1>3. CASE RecordCopy(r)
  <2> DEFINE row == [contract EXCEPT !.copySent = TRUE]
  <2>1. At(r, "copySent") /\ ~Linking(r) /\ Writes(r, row, Idle)
    BY <1>3 DEF RecordCopy, Linking, At
  <2>2. /\ row.exists = contract.exists /\ row.signed = contract.signed
        /\ row.linkSent = contract.linkSent /\ row.client = contract.client
        /\ row.operator = contract.operator /\ row.html = contract.html
        /\ row.snapshot = contract.snapshot
    BY DEF Contract
  <2> HIDE DEF row
  <2>3. req'[r] = Idle /\ contract' = row /\ UNCHANGED <<mailed, links, aborts>>
    BY <2>1 DEF Writes, Becomes, TypeOK
  <2>4. mailed # None
    BY <2>1 DEF Knows
  <2>5. Knows(r)'
    BY <2>3, IdleKnows DEF Idle
  <2>6. ArchiveAgrees'
    BY <2>2, <2>3, <2>4 DEF ArchiveAgrees
  <2>7. DueFrom(r)'
    BY <2>1, <2>2, <2>3, <2>4 DEF DueFrom
  <2> QED
    BY <2>5, <2>6, <2>7 DEF SerialFor
<1> QED
  BY <1>1, <1>2, <1>3

\* Once two requests have overlapped they have.
LEMMA OverlapStays == [Next]_vars /\ overlapped => overlapped'
<1>1. ASSUME NEW r \in Requests, Start(r) \/ Continue(r) \/ Abort(r), overlapped
      PROVE  overlapped'
  BY <1>1 DEF Start, Continue, Abort, StartEnsure, StartLink, Ensure, StartOperator,
     StartSign, StartCopy, StartChange, CreateContract, SeedOperator, DecideLink, MailLink,
     RecordLink, SignAsOperator, BuildDocument, TakeSnapshot, Archive, ReadArchive, MailCopy,
     RecordCopy, ChangeData, Reread, Begins, Writes, Reads
<1> QED
  BY <1>1 DEF Next, vars, ClientPays, ChangeTerms, SetCompanySignature

\* While no two have overlapped, the request that takes a step is the only one
\* before and after it.
LEMMA ActsAlone ==
  ASSUME TypeOK, OneAtATime, NEW r \in Requests, ~overlapped',
         Start(r) \/ Continue(r) \/ Abort(r)
  PROVE  Alone(r) /\ Alone(r)'
<1>1. CASE Start(r)
  <2>1. \A x \in Requests : At(x, "idle")
    BY <1>1 DEF Start, StartEnsure, StartLink, Ensure, StartOperator, StartSign, StartCopy,
       StartChange, Begins
  <2> QED
    BY <2>1, <1>1, ActsOnItself DEF Alone, Becomes, TypeOK, At
<1>2. CASE Continue(r) \/ Abort(r)
  <2>1. ~At(r, "idle")
    BY <1>2 DEF Continue, Abort, CreateContract, SeedOperator, DecideLink, MailLink,
       RecordLink, SignAsOperator, BuildDocument, TakeSnapshot, Archive, ReadArchive,
       MailCopy, RecordCopy, ChangeData, Reread, At
  <2>2. Alone(r)
    BY <2>1 DEF OneAtATime, Alone
  <2> QED
    BY <2>2, <1>2, ActsOnItself DEF Alone, Becomes, TypeOK, At
<1> QED
  BY <1>1, <1>2

\* The strengthened invariant holds at first
LEMMA SInvInit == Init => SInv
<1> SUFFICES ASSUME Init PROVE SInv
  OBVIOUS
<1>1. \A r \in Requests : At(r, "idle")
  BY DEF Init, Idle, At
<1>2. ~contract.signed /\ ~contract.copySent /\ mailed = None /\ ~(links > 0)
  BY DEF Init, NoContract
<1>3. \A r \in Requests : Knows(r)
  BY <1>1 DEF Knows, Linking, At
<1> QED
  BY <1>1, <1>2, <1>3, InvInit
     DEF SInv, SerialOK, OneAtATime, ArchiveAgrees, CopyIsDue, LinkIsDue

\* and every step keeps it: the only request that runs keeps what it knows,
\* the archive and what is due.
LEMMA SInvStep == SInv /\ [Next]_vars => SInv'
<1> SUFFICES ASSUME SInv, [Next]_vars, ~overlapped' PROVE SerialOK'
  BY InvStep DEF SInv
<1>1. TypeOK /\ IInv /\ IInv' /\ SerialOK
  BY InvStep, OverlapStays DEF SInv, IInv
<1>2. CASE UNCHANGED vars \/ ClientPays \/ ChangeTerms \/ SetCompanySignature
  <2>1. UNCHANGED <<data, contract, links, mailed, req, aborts>>
    BY <1>2 DEF vars, ClientPays, ChangeTerms, SetCompanySignature
  <2> QED
    BY <1>1, <2>1 DEF SerialOK, OneAtATime, ArchiveAgrees, CopyIsDue, LinkIsDue, Knows,
       Copying, Linking, At
<1>3. ASSUME NEW r \in Requests, Start(r) \/ Continue(r) \/ Abort(r) PROVE SerialOK'
  <2>1. Alone(r) /\ Alone(r)'
    BY <1>1, <1>3, ActsAlone DEF SerialOK
  <2>2. SerialFor(r)
    BY <1>1, <2>1, SerialGives
  <2>3. SerialFor(r)'
    BY <1>1, <1>3, <2>2, StartSerial, LinkSerial, SignSerial, ChangeSerial, CopySerial
       DEF Continue
  <2> QED
    BY <2>1, <2>3, SerialFrom
<1> QED
  BY <1>2, <1>3 DEF Next

\* While requests come one at a time, a step leaves both signatures of a signed
\* contract alone.
LEMMA SignaturesStay ==
  ASSUME SInv, [Next]_vars, ~overlapped', contract.signed
  PROVE  contract'.client = contract.client /\ contract'.operator = contract.operator
<1>1. TypeOK /\ SignedExists /\ SerialOK
  BY OverlapStays DEF SInv, IInv
<1> contract \in Contract
  BY <1>1 DEF TypeOK
<1>2. ASSUME NEW r \in Requests, ContractWrite(r)
      PROVE  contract'.client = contract.client /\ contract'.operator = contract.operator
  <2> Knows(r)
    BY <1>1 DEF SerialOK
  <2>1. CASE CreateContract(r)
    BY <1>1, <2>1 DEF CreateContract, Reads, SignedExists
  <2>2. CASE SeedOperator(r)
    BY <2>2 DEF SeedOperator, Reads, Knows
  <2>3. CASE RecordLink(r) \/ RecordCopy(r)
    BY <2>3 DEF RecordLink, RecordCopy, Writes, Contract
  <2>4. CASE SignAsOperator(r)
    BY <2>4 DEF SignAsOperator, Knows
  <2>5. CASE Archive(r)
    BY <2>5 DEF Archive, Writes, Refreshed, Contract, Knows
  <2> QED
    BY <1>2, <2>1, <2>2, <2>3, <2>4, <2>5 DEF ContractWrite
<1> QED
  BY <1>2, ContractChanges

\* The strengthened invariant holds at all times.
THEOREM SerialInvariance == Spec => []SInv
  BY SInvInit, SInvStep, PTL DEF Spec

\* While requests come one at a time, the signatures of the row are those of the
\* archived document, whatever moves and supplements make it again.
THEOREM SignaturesAreTheArchives == Spec => []ArchiveBearsTheSignatures
<1>1. SInv => ArchiveBearsTheSignatures
  BY DEF SInv, SerialOK, ArchiveAgrees, ArchiveBearsTheSignatures
<1> QED
  BY <1>1, SerialInvariance, PTL

\* While requests come one at a time, an archived document that no longer prints
\* the reservation's data has a fingerprint that tells it.
THEOREM StaleDocumentsAreReported == Spec => []StaleIsReported
<1>1. SInv => StaleIsReported
  BY DEF SInv, SerialOK, ArchiveAgrees, StaleIsReported
<1> QED
  BY <1>1, SerialInvariance, PTL

\* While requests come one at a time and none dies, a client who has signed is
\* mailed the document with his own signature before everything is idle again.
THEOREM SignedCopyReachesTheClient == Spec => []CopyIsMailed
<1>1. SInv => CopyIsMailed
  BY DEF SInv, SerialOK, ArchiveAgrees, CopyIsDue, CopyIsMailed, AllIdle, Copying, At
<1> QED
  BY <1>1, SerialInvariance, PTL

\* While requests come one at a time and none dies, the unforced mail that asks
\* for a signature is sent once, however often the link is asked for.
THEOREM LinkIsMailedOnce == Spec => []LinkMailedOnce
<1>1. SInv => LinkMailedOnce
  <2> SUFFICES ASSUME SInv, ~overlapped, aborts = 0 PROVE links <= 1
    BY DEF LinkMailedOnce
  <2>1. links \in 0..MaxLinks /\ (links > 0 => links = 1)
    BY DEF SInv, IInv, TypeOK, SerialOK, LinkIsDue
  <2> QED
    BY <2>1, ContractAssumption
<1> QED
  BY <1>1, SerialInvariance, PTL

\* While requests come one at a time, no step of any of them changes a signature
\* of a signed contract.
THEOREM SignaturesAreFinal == Spec => SignedOnce
<1>1. SInv /\ [Next]_vars =>
        [~overlapped' /\ contract.signed =>
           contract'.client = contract.client /\ contract'.operator = contract.operator]_vars
  BY SignaturesStay
<1> QED
  BY <1>1, SerialInvariance, PTL DEF Spec, SignedOnce
=============================================================================
