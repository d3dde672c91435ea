------------------------------ MODULE Contracts ------------------------------
(***************************************************************************)
(* The contracts of one opportunity (src/src/contracts): the requests that *)
(* create, preview, send, wet-sign, amend and void them, DocuSign, which   *)
(* holds the envelopes those requests create, and the reports through      *)
(* which DocuSign tells how far the signing of an envelope has come.       *)
(*                                                                         *)
(* Every await of a handler is a point where other requests run, so a      *)
(* handler is split at the awaits that matter: the read of the contract,   *)
(* each DocuSign call, each write.  A request refused by a guard changes   *)
(* nothing and has no action.  Contract ids are numbered in the order of   *)
(* createdAt.  The products installed for the opportunity, which the same  *)
(* handlers replace at their end, are not part of this module.             *)
(*                                                                         *)
(* A definition whose comment starts with "Fault:" is not part of the      *)
(* specification: it is the definition after it as a plausible mistake     *)
(* would have it, kept to show that a property notices.                    *)
(***************************************************************************)
EXTENDS Naturals, FiniteSets

CONSTANTS
  MaxContracts,  \* bound on the contracts ever created for the opportunity
  Envelope,      \* the envelopes DocuSign may create (bounds the sends)
  NoEnvelope,    \* no contractingSystemReferenceId
  Request,       \* handlers that may be under way at the same time: HTTP
                 \* requests and reports of DocuSign
  Crashes        \* may the server stop with requests in flight?

ASSUME ContractsAssumption ==
  /\ MaxContracts \in Nat
  /\ NoEnvelope \notin Envelope
  /\ Crashes \in BOOLEAN

Contract == 1..MaxContracts
NoContract == 0

Type == {"PRIMARY_CONTRACT", "GRID_SERVICES_PACKET",
         "CHANGE_ORDER", "NO_COST_CHANGE_ORDER"}
Status == {"INITIATED", "DRAFT", "IN_PROGRESS", "COMPLETED", "ERROR", "VOIDED"}
Reference == Envelope \cup {NoEnvelope}

PC == {"idle", "sync", "addCO", "addNCCO", "updateCO",
       "callDraft", "callSend", "saveDraft", "saveSent", "saveError",
       "callSendDraft", "saveSentDraft", "callWetSign", "saveWetSigned",
       "void", "voidRelated", "saveReport", "saveCompleted"}

VARIABLES
  contracts,  \* the contract collection; status "absent": not created
  envelopes,  \* DocuSign: [of: the contract it was made for, state]
  amount,     \* amount of opportunity and project: "none", "sold" or "zero"
  req,        \* per request: where its handler is and what it has read
  voids       \* per request and contract: the voidContract call it runs

vars == <<contracts, envelopes, amount, req, voids>>

Existing == {c \in Contract : contracts[c].status # "absent"}
OfType(t) == {c \in Existing : contracts[c].type = t}
IsLatest(c, S) == c \in S /\ \A d \in S : d <= c

Idle == [pc |-> "idle", c |-> NoContract, type |-> "PRIMARY_CONTRACT",
         status |-> "absent", env |-> NoEnvelope]
NoVoid == [at |-> "none", ref |-> NoEnvelope]
Absent == [type |-> "PRIMARY_CONTRACT", status |-> "absent",
           primary |-> NoContract, ref |-> NoEnvelope]

Init ==
  /\ contracts = [c \in Contract |-> Absent]
  /\ envelopes = [e \in Envelope |-> [of |-> NoContract, state |-> "none"]]
  /\ amount = "none"
  /\ req = [r \in Request |-> Idle]
  /\ voids = [r \in Request |-> [c \in Contract |-> NoVoid]]

----------------------------------------------------------------------------
(* Handler bookkeeping. *)

At(r, pc) == req[r].pc = pc
Become(r, rec) == req' = [req EXCEPT ![r] = rec]
Goto(r, pc) == req' = [req EXCEPT ![r].pc = pc]
Finish(r) == Become(r, Idle)

\* findById followed by the guards: the handler keeps the document it read, of
\* which only the status matters later.
Load(r, c, pc) ==
  Become(r, [Idle EXCEPT !.pc = pc, !.c = c, !.status = contracts[c].status])

\* document.save(): mongoose writes only what differs from the document read.
SaveStatus(r, status) ==
  [contracts EXCEPT ![req[r].c].status = IF status = req[r].status THEN @ ELSE status]

SaveStatusAndRef(r, status) ==
  [contracts EXCEPT ![req[r].c].status = IF status = req[r].status THEN @ ELSE status,
                    ![req[r].c].ref = req[r].env]

NewEnvelope(e, c, state) ==
  /\ envelopes[e].state = "none"
  /\ envelopes' = [envelopes EXCEPT ![e] = [of |-> c, state |-> state]]

----------------------------------------------------------------------------
(* Creating contracts. *)

\* Fault: the new record is spread over the primary contract the pipe has loaded.
InsertCopy(c, type, primary) ==
  /\ c \notin Existing
  /\ \A d \in Contract : d < c => d \in Existing
  /\ contracts' = [contracts EXCEPT ![c] =
       [type |-> type, status |-> "INITIATED", primary |-> primary,
        ref |-> IF primary \in Contract THEN contracts[primary].ref ELSE NoEnvelope]]

Insert(c, type, primary) ==
  /\ c \notin Existing
  /\ \A d \in Contract : d < c => d \in Existing
  /\ contracts' = [contracts EXCEPT ![c] = [type |-> type, status |-> "INITIATED",
                                            primary |-> primary, ref |-> NoEnvelope]]

\* ContractService.saveContract, mode ADD, for a primary contract.
AddPrimary(r, c) ==
  /\ At(r, "idle")
  /\ Insert(c, "PRIMARY_CONTRACT", NoContract)
  /\ Become(r, [Idle EXCEPT !.pc = "sync", !.c = c])
  /\ UNCHANGED <<envelopes, amount, voids>>

\* syncWithWav: the opportunity takes the amount of the new contract's payment; the
\* request fails when quote or utility is not found.
SyncWithWav(r) ==
  /\ At(r, "sync")
  /\ amount' = "sold" \/ UNCHANGED amount
  /\ Finish(r)
  /\ UNCHANGED <<contracts, envelopes, voids>>

\* saveContract, mode ADD, for a grid services packet: validateNewGridServiceContract
\* wants a primary contract, of any status; p is the client's choice.
AddGridServicesPacket(r, c, p) ==
  /\ At(r, "idle")
  /\ p \in OfType("PRIMARY_CONTRACT")
  /\ Insert(c, "GRID_SERVICES_PACKET", p)
  /\ UNCHANGED <<envelopes, amount, req, voids>>

\* ChangeOrderValidationPipe, mode ADD.  The pipe looks at the opportunity's
\* latest primary contract; p, the primary contract the change order names, comes
\* from the client.
IsFinalOrVoid(c) == contracts[c].status \in {"COMPLETED", "VOIDED"}

QualifiesForChangeOrder ==
  /\ \E p \in Contract : /\ IsLatest(p, OfType("PRIMARY_CONTRACT"))
                         /\ contracts[p].status = "COMPLETED"
  /\ \A c \in OfType("CHANGE_ORDER") : IsFinalOrVoid(c)

ValidateChangeOrder(r, p) ==
  /\ At(r, "idle")
  /\ p \in OfType("PRIMARY_CONTRACT")
  /\ QualifiesForChangeOrder
  /\ Become(r, [Idle EXCEPT !.pc = "addCO", !.c = p])
  /\ UNCHANGED <<contracts, envelopes, amount, voids>>

ValidateNoCostChangeOrder(r, p) ==
  /\ At(r, "idle")
  /\ p \in Existing /\ contracts[p].status = "COMPLETED"
  /\ Become(r, [Idle EXCEPT !.pc = "addNCCO", !.c = p])
  /\ UNCHANGED <<contracts, envelopes, amount, voids>>

\* saveChangeOrder, mode ADD: the record the pipe has cleared is inserted.
AddChangeOrder(r, c) ==
  /\ \/ At(r, "addCO") /\ Insert(c, "CHANGE_ORDER", req[r].c)
     \/ At(r, "addNCCO") /\ Insert(c, "NO_COST_CHANGE_ORDER", req[r].c)
  /\ Finish(r)
  /\ UNCHANGED <<envelopes, amount, voids>>

\* ChangeOrderValidationPipe, mode UPDATE.
ValidateUpdate(r, c) ==
  /\ At(r, "idle")
  /\ c \in Existing /\ contracts[c].status = "INITIATED"
  /\ Load(r, c, "updateCO")
  /\ UNCHANGED <<contracts, envelopes, amount, voids>>

\* saveChangeOrder, mode UPDATE: findByIdAndUpdate writes the type CHANGE_ORDER and
\* the status the pipe read, whatever either is by now.
UpdateChangeOrder(r) ==
  /\ At(r, "updateCO")
  /\ contracts' = [contracts EXCEPT ![req[r].c].type = "CHANGE_ORDER",
                                    ![req[r].c].status = req[r].status]
  /\ Finish(r)
  /\ UNCHANGED <<envelopes, amount, voids>>

----------------------------------------------------------------------------
(* Previewing and sending. *)

\* Fault: the guard on VOIDED is missing.
StartSendVoided(r, c, draft) ==
  /\ At(r, "idle")
  /\ c \in Existing
  /\ contracts[c].status # "DRAFT"
  /\ Load(r, c, IF draft THEN "callDraft" ELSE "callSend")
  /\ UNCHANGED <<contracts, envelopes, amount, voids>>

\* sendContract up to its DocuSign call; draft: POST /:contractId/preview.
StartSend(r, c, draft) ==
  /\ At(r, "idle")
  /\ c \in Existing
  /\ contracts[c].status \notin {"VOIDED", "DRAFT"}
  /\ contracts[c].type # "PRIMARY_CONTRACT" => contracts[c].primary \in Existing
  /\ Load(r, c, IF draft THEN "callDraft" ELSE "callSend")
  /\ UNCHANGED <<contracts, envelopes, amount, voids>>

\* DocusignApiService.sendContract answers: createEnvelope, then, unless this is a
\* preview, sendDraftEnvelop.  An exception leaves the envelope as it is, created or
\* already sent, and ends the request; an error code in the answer marks the contract.
\* An answer with neither an envelope id nor an error code is passed on as a SUCCESS:
\* a send goes on without an envelope, a preview takes it for an error.
CallDocusign(r) ==
  /\ req[r].pc \in {"callDraft", "callSend"}
  /\ \/ \E e \in Envelope :
          \/ /\ NewEnvelope(e, req[r].c, IF At(r, "callDraft") THEN "created" ELSE "sent")
             /\ Become(r, [req[r] EXCEPT !.env = e,
                             !.pc = IF At(r, "callDraft") THEN "saveDraft" ELSE "saveSent"])
          \/ NewEnvelope(e, req[r].c, "created") /\ Finish(r)
          \/ At(r, "callSend") /\ NewEnvelope(e, req[r].c, "sent") /\ Finish(r)
     \/ At(r, "callSend") /\ Goto(r, "saveSent") /\ UNCHANGED envelopes
     \/ Goto(r, "saveError") /\ UNCHANGED envelopes
     \/ Finish(r) /\ UNCHANGED envelopes
  /\ UNCHANGED <<contracts, amount, voids>>

\* sendContract: the contract.save() that records the answer; req[r].env is NoEnvelope
\* when a send was answered without an id ("?? ''").
SaveDraft(r) ==
  /\ At(r, "saveDraft")
  /\ contracts' = SaveStatusAndRef(r, "DRAFT")
  /\ Finish(r)
  /\ UNCHANGED <<envelopes, amount, voids>>

SaveSent(r) ==
  /\ At(r, "saveSent")
  /\ contracts' = SaveStatusAndRef(r, "IN_PROGRESS")
  /\ Finish(r)
  /\ UNCHANGED <<envelopes, amount, voids>>

SaveError(r) ==
  /\ At(r, "saveError")
  /\ contracts' = SaveStatus(r, "ERROR")
  /\ Finish(r)
  /\ UNCHANGED <<envelopes, amount, voids>>

\* sendContract of a DRAFT contract: the previewed envelope is sent as it is.
StartSendDraft(r, c) ==
  /\ At(r, "idle")
  /\ c \in Existing /\ contracts[c].status = "DRAFT"
  /\ Become(r, [Idle EXCEPT !.pc = "callSendDraft", !.c = c, !.status = "DRAFT",
                             !.env = contracts[c].ref])
  /\ UNCHANGED <<contracts, envelopes, amount, voids>>

\* sendDraftEnvelop: DocuSign sends an envelope that is still created and refuses
\* any other; the answer to a send it has performed may be lost.
CallSendDraft(r) ==
  /\ At(r, "callSendDraft")
  /\ \/ /\ req[r].env \in Envelope /\ envelopes[req[r].env].state = "created"
        /\ envelopes' = [envelopes EXCEPT ![req[r].env].state = "sent"]
        /\ Goto(r, "saveSentDraft") \/ Finish(r)
     \/ Finish(r) /\ UNCHANGED envelopes
  /\ UNCHANGED <<contracts, amount, voids>>

\* Fault: the status of a signer is written as the status of the contract.
SaveSentDraftAsSigner(r) ==
  /\ At(r, "saveSentDraft")
  /\ contracts' = SaveStatus(r, "SENT")
  /\ Finish(r)
  /\ UNCHANGED <<envelopes, amount, voids>>

SaveSentDraft(r) ==
  /\ At(r, "saveSentDraft")
  /\ contracts' = SaveStatus(r, "IN_PROGRESS")
  /\ Finish(r)
  /\ UNCHANGED <<envelopes, amount, voids>>

\* WetSignContractInterceptor and sendContractByWetSigned up to the DocuSign call:
\* no guard on the status of the contract.
StartWetSign(r, c) ==
  /\ At(r, "idle")
  /\ c \in Existing
  /\ Load(r, c, "callWetSign")
  /\ UNCHANGED <<contracts, envelopes, amount, voids>>

\* sendWetSingedContract: one call creates the envelope and sends it; an answer other
\* than "sent" ends the request, whatever DocuSign has done.
CallWetSign(r) ==
  /\ At(r, "callWetSign")
  /\ \/ \E e \in Envelope :
          /\ NewEnvelope(e, req[r].c, "sent")
          /\ Become(r, [req[r] EXCEPT !.pc = "saveWetSigned", !.env = e]) \/ Finish(r)
     \/ Finish(r) /\ UNCHANGED envelopes
  /\ UNCHANGED <<contracts, amount, voids>>

\* Fault: a contract signed on paper counts as completed at once.
SaveWetSignedAsCompleted(r) ==
  /\ At(r, "saveWetSigned")
  /\ contracts' = SaveStatusAndRef(r, "COMPLETED")
  /\ Finish(r)
  /\ UNCHANGED <<envelopes, amount, voids>>

SaveWetSigned(r) ==
  /\ At(r, "saveWetSigned")
  /\ contracts' = SaveStatusAndRef(r, "IN_PROGRESS")
  /\ Finish(r)
  /\ UNCHANGED <<envelopes, amount, voids>>

----------------------------------------------------------------------------
(* Voiding: POST /:contractId/void. *)

VoidCall(c) == [at |-> "envelope", ref |-> contracts[c].ref]
Voiding(r) == \E c \in Contract : voids[r][c].at # "none"

\* VoidPrimaryContractPipe, and the call of voidContract it lets through.
StartVoid(r, c) ==
  /\ At(r, "idle")
  /\ c \in Existing /\ contracts[c].status # "VOIDED"
  /\ Become(r, [Idle EXCEPT !.pc = "void", !.c = c])
  /\ voids' = [voids EXCEPT ![r][c] = VoidCall(c)]
  /\ UNCHANGED <<contracts, envelopes, amount>>

\* Fault: the exception of voidEnvelope is not caught.
VoidEnvelopeThrows(r, c) ==
  /\ voids[r][c].at = "envelope"
  /\ voids[r][c].ref \in Envelope =>
       envelopes[voids[r][c].ref].state \in {"created", "sent"}
  /\ envelopes' = [e \in Envelope |-> IF e = voids[r][c].ref
                      THEN [envelopes[e] EXCEPT !.state = "voided"] ELSE envelopes[e]]
  /\ voids' = [voids EXCEPT ![r][c].at = "mark"]
  /\ UNCHANGED <<contracts, amount, req>>

\* voidEnvelope: DocuSign voids an envelope that is not completed; whether it does
\* or fails, the handler goes on.
VoidEnvelope(r, c) ==
  /\ voids[r][c].at = "envelope"
  /\ \/ /\ voids[r][c].ref \in Envelope
        /\ envelopes[voids[r][c].ref].state \in {"created", "sent"}
        /\ envelopes' = [envelopes EXCEPT ![voids[r][c].ref].state = "voided"]
     \/ UNCHANGED envelopes
  /\ voids' = [voids EXCEPT ![r][c].at = "mark"]
  /\ UNCHANGED <<contracts, amount, req>>

MarkVoided(r, c) ==
  /\ voids[r][c].at = "mark"
  /\ contracts' = [contracts EXCEPT ![c].status = "VOIDED"]
  /\ voids' = [voids EXCEPT ![r][c].at = "count"]
  /\ UNCHANGED <<envelopes, amount, req>>

\* Fault: grid services packets count as well.
FinalizedOfAnyType == {c \in Existing : contracts[c].status = "COMPLETED"}

\* The query for COMPLETED contracts other than grid services packets.
Finalized == {c \in Existing : /\ contracts[c].type # "GRID_SERVICES_PACKET"
                               /\ contracts[c].status = "COMPLETED"}

CountFinalized(r, c) ==
  /\ voids[r][c].at = "count"
  /\ voids' = [voids EXCEPT ![r][c] =
                 IF Finalized = {} THEN [NoVoid EXCEPT !.at = "zero"] ELSE NoVoid]
  /\ UNCHANGED <<contracts, envelopes, amount, req>>

ZeroAmount(r, c) ==
  /\ voids[r][c].at = "zero"
  /\ amount' = "zero"
  /\ voids' = [voids EXCEPT ![r][c] = NoVoid]
  /\ UNCHANGED <<contracts, envelopes, req>>

\* VoidRelatedContractsInterceptor: the change orders of the voided contract are
\* read once and voided side by side (Promise.all).
\* Fault: the no-cost change orders are forgotten.
RelatedChangeOrders(p) == {c \in Existing : /\ contracts[c].primary = p
                                            /\ contracts[c].type = "CHANGE_ORDER"}

RelatedTo(p) == {c \in Existing : /\ contracts[c].primary = p
                                  /\ contracts[c].type # "GRID_SERVICES_PACKET"}

VoidRelated(r) ==
  /\ At(r, "void") /\ ~Voiding(r)
  /\ voids' = [voids EXCEPT ![r] =
                 [c \in Contract |-> IF c \in RelatedTo(req[r].c) THEN VoidCall(c) ELSE NoVoid]]
  /\ Goto(r, "voidRelated")
  /\ UNCHANGED <<contracts, envelopes, amount>>

AnswerVoid(r) ==
  /\ At(r, "voidRelated") /\ ~Voiding(r)
  /\ Finish(r)
  /\ UNCHANGED <<contracts, envelopes, amount, voids>>

----------------------------------------------------------------------------
(* DocuSign and the process around the requests. *)

\* Every recipient of a sent envelope has signed.
SignEnvelope(e) ==
  /\ envelopes[e].state = "sent"
  /\ envelopes' = [envelopes EXCEPT ![e].state = "signed"]
  /\ UNCHANGED <<contracts, amount, req, voids>>

\* updateContractByDocusign, up to its write: DocuSign reports how far the signing of
\* an envelope has come, complete or not, as often as it likes, and the handler reads
\* the contract that refers to the envelope; a report that finds none ends there.  The
\* query as written names a field the schema does not have and nothing in the
\* repository calls the method, but contracts do become COMPLETED: the model takes
\* the query for the reference it is meant to find.
StartReport(r, e, complete) ==
  /\ At(r, "idle")
  /\ envelopes[e].state \notin {"none", "created"}
  /\ complete => envelopes[e].state = "signed"
  /\ \E c \in Existing :
       /\ contracts[c].ref = e
       /\ Become(r, [pc |-> IF complete THEN "saveCompleted" ELSE "saveReport", c |-> c,
                     type |-> contracts[c].type, status |-> contracts[c].status, env |-> e])
  /\ UNCHANGED <<contracts, envelopes, amount, voids>>

\* findByIdAndUpdate with the document read: all of it is written, whatever others
\* have written since; a complete report has set its status to COMPLETED.
WriteBack(r, status) ==
  [contracts EXCEPT ![req[r].c] =
     [@ EXCEPT !.type = req[r].type, !.status = status, !.ref = req[r].env]]

\* Fault: a report that is not complete puts the contract in progress.
SaveReportInProgress(r) ==
  /\ req[r].pc \in {"saveReport", "saveCompleted"}
  /\ contracts' = WriteBack(r, IF At(r, "saveCompleted") THEN "COMPLETED" ELSE "IN_PROGRESS")
  /\ Finish(r)
  /\ UNCHANGED <<envelopes, amount, voids>>

SaveReport(r) ==
  /\ req[r].pc \in {"saveReport", "saveCompleted"}
  /\ contracts' = WriteBack(r, IF At(r, "saveCompleted") THEN "COMPLETED" ELSE req[r].status)
  /\ Finish(r)
  /\ UNCHANGED <<envelopes, amount, voids>>

\* The server stops: the requests in flight are gone, the collections stay.
Crash ==
  /\ Crashes
  /\ \E r \in Request : ~At(r, "idle")
  /\ req' = [r \in Request |-> Idle]
  /\ voids' = [r \in Request |-> [c \in Contract |-> NoVoid]]
  /\ UNCHANGED <<contracts, envelopes, amount>>

----------------------------------------------------------------------------

Arrive(r) ==
  \E c \in Contract :
    \/ AddPrimary(r, c)
    \/ \E p \in Contract : AddGridServicesPacket(r, c, p)
    \/ ValidateChangeOrder(r, c) \/ ValidateNoCostChangeOrder(r, c)
    \/ ValidateUpdate(r, c)
    \/ \E draft \in BOOLEAN : StartSend(r, c, draft)
    \/ StartSendDraft(r, c) \/ StartWetSign(r, c) \/ StartVoid(r, c)

Report(r) == \E e \in Envelope, complete \in BOOLEAN : StartReport(r, e, complete)

Continue(r) ==
  \/ SyncWithWav(r)
  \/ \E c \in Contract : AddChangeOrder(r, c)
  \/ UpdateChangeOrder(r)
  \/ CallDocusign(r) \/ SaveDraft(r) \/ SaveSent(r) \/ SaveError(r)
  \/ CallSendDraft(r) \/ SaveSentDraft(r) \/ CallWetSign(r) \/ SaveWetSigned(r)
  \/ \E c \in Contract : \/ VoidEnvelope(r, c) \/ MarkVoided(r, c)
                         \/ CountFinalized(r, c) \/ ZeroAmount(r, c)
  \/ VoidRelated(r) \/ AnswerVoid(r) \/ SaveReport(r)

Docusign == \E e \in Envelope : SignEnvelope(e)

Next == (\E r \in Request : Arrive(r) \/ Report(r) \/ Continue(r)) \/ Docusign \/ Crash

Spec == Init /\ [][Next]_vars

\* A handler that has started runs on: Node resumes every resolved await.
FairSpec == Spec /\ \A r \in Request : WF_vars(Continue(r))

----------------------------------------------------------------------------
(* Properties that hold whatever requests run side by side, crashes included. *)

ContractRecord == [type : Type, status : Status \cup {"absent"},
                   primary : Contract \cup {NoContract}, ref : Reference]
EnvelopeRecord == [of : Contract \cup {NoContract},
                   state : {"none", "created", "sent", "signed", "voided"}]
RequestRecord == [pc : PC, c : Contract \cup {NoContract}, type : Type,
                  status : Status \cup {"absent"}, env : Reference]
VoidRecord == [at : {"none", "envelope", "mark", "count", "zero"}, ref : Reference]

TypeOK ==
  /\ contracts \in [Contract -> ContractRecord]
  /\ envelopes \in [Envelope -> EnvelopeRecord]
  /\ amount \in {"none", "sold", "zero"}
  /\ req \in [Request -> RequestRecord]
  /\ voids \in [Request -> [Contract -> VoidRecord]]

\* A contract refers only to an envelope DocuSign made for it: an answer recorded
\* by contract.save() is never the answer to another contract's call.
ReferenceIsOwn ==
  \A c \in Contract : contracts[c].ref # NoEnvelope =>
    /\ envelopes[contracts[c].ref].of = c
    /\ envelopes[contracts[c].ref].state # "none"

\* A COMPLETED contract has been signed: every recipient has signed an envelope made
\* for it, although concurrent saves may since have replaced its reference and a
\* report may have written an old document back.
WasSigned(c) == \E e \in Envelope : envelopes[e].of = c /\ envelopes[e].state = "signed"

CompletedWasSigned ==
  \A c \in Contract : contracts[c].status = "COMPLETED" => WasSigned(c)

\* What the two invariants above need to be inductive: the envelope a handler carries
\* from its DocuSign call to its save is its own contract's, and the document it has
\* read passed the guards of the handler.
HeldEnvelopeIsOwn ==
  \A r \in Request : req[r].env # NoEnvelope =>
    /\ envelopes[req[r].env].of = req[r].c
    /\ envelopes[req[r].env].state # "none"

ReadIsGuarded ==
  \A r \in Request :
    /\ At(r, "updateCO") => req[r].status = "INITIATED"
    /\ req[r].pc \in {"callDraft", "callSend", "saveDraft", "saveSent", "saveError"} =>
         req[r].status \notin {"VOIDED", "DRAFT"}
    /\ req[r].pc \in {"callSendDraft", "saveSentDraft"} => req[r].status = "DRAFT"
    /\ At(r, "saveReport") /\ req[r].status = "COMPLETED" => WasSigned(req[r].c)
    /\ At(r, "saveCompleted") => WasSigned(req[r].c)

IInv == ReferenceIsOwn /\ CompletedWasSigned /\ HeldEnvelopeIsOwn /\ ReadIsGuarded

\* The only ways out of VOIDED: a wet signature, the report of a signed envelope,
\* and the save of a handler that had read the contract before it was voided.
\* Every other handler refuses a voided contract.
LeavesVoided(c) ==
  contracts[c].status = "VOIDED" /\ contracts'[c].status # "VOIDED"

ReadBeforeVoid(c) ==
  \E r \in Request : req[r].c = c /\ req[r].status # "VOIDED" /\ req'[r] # req[r]

WetSigned(c) ==
  \E r \in Request : req[r].c = c /\ At(r, "saveWetSigned") /\ req'[r] # req[r]

SignatureReported(c) ==
  \E r \in Request : req[r].c = c /\ At(r, "saveCompleted") /\ req'[r] # req[r]

VoidedStays ==
  [][\A c \in Contract :
       LeavesVoided(c) => ReadBeforeVoid(c) \/ WetSigned(c) \/ SignatureReported(c)]_vars

\* A void that has passed its pipe marks the contract, and each related contract it
\* has read, whatever DocuSign answers (liveness, under FairSpec).
VoidIsDelivered ==
  \A r \in Request, c \in Contract :
    voids[r][c].at \in {"envelope", "mark"} ~> contracts[c].status = "VOIDED"

----------------------------------------------------------------------------
(* Properties of one handler at a time, a request of the client or a report;  *)
(* customers sign between its steps.  Two that overlap can break each of them. *)

AtRest == \A r \in Request : At(r, "idle")

\* When a void answers, every change order of the voided contract is VOIDED, whatever
\* DocuSign made of its envelope and whichever of them had been completed.
VoidClosesChangeOrders ==
  [][\A r \in Request : At(r, "voidRelated") /\ req'[r].pc = "idle" =>
       \A c \in OfType("CHANGE_ORDER") \cup OfType("NO_COST_CHANGE_ORDER") :
         contracts[c].primary = req[r].c => contracts[c].status = "VOIDED"]_vars

\* An opportunity whose contracts are all voided is not carried with an amount: the
\* last voidContract to mark finds nothing finalized, in whatever order the
\* contracts were voided and whichever of them had been completed.
VoidedOpportunityHasNoAmount ==
  LET deals == {c \in Existing : contracts[c].type # "GRID_SERVICES_PACKET"} IN
  AtRest /\ deals # {} /\ (\A c \in deals : contracts[c].status = "VOIDED")
    => amount # "sold"

\* A contract shown as previewed has an envelope, and one shown as previewed or out
\* for signature never refers to a voided envelope: after a void nothing the customer
\* cannot get or sign is offered again.  A contract sent without an envelope, which a
\* SUCCESS without an id leaves behind, is the case the code lets through.
OpenContractIsUsable ==
  AtRest => \A c \in Existing : LET ref == contracts[c].ref IN
    /\ contracts[c].status = "DRAFT" => ref # NoEnvelope
    /\ contracts[c].status \in {"DRAFT", "IN_PROGRESS"} /\ ref # NoEnvelope =>
         envelopes[ref].state # "voided"

\* What sendContract says of a voided contract, "This contract has been voided":
\* nothing puts it out for signature again.
VoidedIsNotSent ==
  [][\A c \in Contract : LeavesVoided(c) => contracts'[c].status # "IN_PROGRESS"]_vars

=============================================================================
