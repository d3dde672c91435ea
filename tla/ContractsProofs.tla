--------------------------- MODULE ContractsProofs ---------------------------
(***************************************************************************)
(* Theorems about Contracts, for every number of contracts, envelopes and  *)
(* concurrent requests, with or without crashes; and what a single client  *)
(* can rely on, for every number of contracts and envelopes.               *)
(***************************************************************************)
EXTENDS Contracts, TLAPS

LEMMA NoEnvelopeRef == NoEnvelope \in Reference
  BY DEF Reference

\* What the bookkeeping of a handler does to the types.
LEMMA IdleType == Idle \in RequestRecord
  BY DEF Idle, RequestRecord, PC, Type, Reference

LEMMA StartType ==
  ASSUME NEW pc \in PC, NEW c \in Contract, NEW s \in Status \cup {"absent"}, NEW e \in Reference
  PROVE  /\ [Idle EXCEPT !.pc = pc, !.c = c] \in RequestRecord
         /\ [Idle EXCEPT !.pc = pc, !.c = c, !.status = s] \in RequestRecord
         /\ [Idle EXCEPT !.pc = pc, !.c = c, !.status = s, !.env = e] \in RequestRecord
  BY IdleType DEF RequestRecord

LEMMA FinishType == ASSUME TypeOK, NEW r \in Request, Finish(r)
                    PROVE  req' \in [Request -> RequestRecord]
  BY IdleType DEF TypeOK, Finish, Become

LEMMA GotoType == ASSUME TypeOK, NEW r \in Request, NEW pc \in PC, Goto(r, pc)
                  PROVE  req' \in [Request -> RequestRecord]
<1>1. [req[r] EXCEPT !.pc = pc] \in RequestRecord
  BY DEF TypeOK, RequestRecord
<1>2. req' = [req EXCEPT ![r] = [req[r] EXCEPT !.pc = pc]]
  BY DEF Goto, TypeOK
<1> QED BY <1>1, <1>2 DEF TypeOK

LEMMA LoadType == ASSUME TypeOK, NEW r \in Request, NEW c \in Contract, NEW pc \in PC,
                         Load(r, c, pc)
                  PROVE  req' \in [Request -> RequestRecord]
<1> DEFINE rec == [Idle EXCEPT !.pc = pc, !.c = c, !.status = contracts[c].status]
<1>1. contracts[c].status \in Status \cup {"absent"}
  BY DEF TypeOK, ContractRecord
<1>2. rec \in RequestRecord
  BY <1>1, StartType, NoEnvelopeRef
<1>3. req' = [req EXCEPT ![r] = rec]
  BY DEF Load, Become
<1> QED BY <1>2, <1>3 DEF TypeOK

LEMMA StatusWriteType ==
  ASSUME TypeOK, NEW c, NEW s \in Status \cup {"absent"}
  PROVE  [contracts EXCEPT ![c].status = s] \in [Contract -> ContractRecord]
  BY DEF TypeOK, ContractRecord

LEMMA EnvelopeWriteType ==
  ASSUME TypeOK, NEW e \in Envelope, NEW state \in {"created", "sent", "signed", "voided"}
  PROVE  [envelopes EXCEPT ![e].state = state] \in [Envelope -> EnvelopeRecord]
  BY DEF TypeOK, EnvelopeRecord

LEMMA NewEnvelopeType ==
  ASSUME TypeOK, NEW e \in Envelope, NEW r \in Request, NEW state \in {"created", "sent"},
         NewEnvelope(e, req[r].c, state)
  PROVE  envelopes' \in [Envelope -> EnvelopeRecord]
<1>1. req[r].c \in Contract \cup {NoContract}
  BY DEF TypeOK, RequestRecord
<1> QED BY <1>1 DEF TypeOK, NewEnvelope, EnvelopeRecord

LEMMA InsertType ==
  ASSUME TypeOK, NEW c \in Contract, NEW t \in Type, NEW p \in Contract \cup {NoContract},
         Insert(c, t, p)
  PROVE  contracts' \in [Contract -> ContractRecord]
<1>1. [type |-> t, status |-> "INITIATED", primary |-> p, ref |-> NoEnvelope] \in ContractRecord
  BY DEF ContractRecord, Status, Reference
<1> QED BY <1>1 DEF TypeOK, Insert

LEMMA VoidCallType ==
  ASSUME TypeOK, NEW c \in Contract PROVE VoidCall(c) \in VoidRecord
  BY DEF TypeOK, VoidCall, VoidRecord, ContractRecord

LEMMA VoidStageType ==
  ASSUME TypeOK, NEW r \in Request, NEW c \in Contract, NEW at \in {"mark", "count"}
  PROVE  [voids EXCEPT ![r][c].at = at] \in [Request -> [Contract -> VoidRecord]]
<1> DEFINE v == [voids[r][c] EXCEPT !.at = at]
<1>1. voids[r] \in [Contract -> VoidRecord]
  BY DEF TypeOK
<1>2. v \in VoidRecord
  BY <1>1 DEF VoidRecord
<1>3. [voids[r] EXCEPT ![c] = v] \in [Contract -> VoidRecord]
  BY <1>1, <1>2
<1>4. [voids EXCEPT ![r] = [voids[r] EXCEPT ![c] = v]] \in [Request -> [Contract -> VoidRecord]]
  BY <1>3 DEF TypeOK
<1> QED BY <1>4

LEMMA VoidWriteType ==
  ASSUME TypeOK, NEW r \in Request, NEW c \in Contract, NEW v \in VoidRecord
  PROVE  [voids EXCEPT ![r][c] = v] \in [Request -> [Contract -> VoidRecord]]
<1>1. [voids[r] EXCEPT ![c] = v] \in [Contract -> VoidRecord]
  BY DEF TypeOK
<1> QED BY <1>1 DEF TypeOK

\* A record of the collection with new type, status or reference is a record again.
LEMMA ContractWriteType ==
  ASSUME TypeOK, NEW c \in Contract, NEW t \in Type, NEW s \in Status \cup {"absent"},
         NEW ref \in Reference
  PROVE  /\ [contracts[c] EXCEPT !.status = s, !.ref = ref] \in ContractRecord
         /\ [contracts[c] EXCEPT !.type = t, !.status = s] \in ContractRecord
         /\ [contracts[c] EXCEPT !.type = t, !.status = s, !.ref = ref] \in ContractRecord
  BY DEF TypeOK, ContractRecord

\* The type invariant is inductive, one step per action of Next.
LEMMA TypeStep == ASSUME TypeOK, [Next]_vars PROVE TypeOK'
<1>1. ASSUME NEW r \in Request, NEW c \in Contract, AddPrimary(r, c) PROVE TypeOK'
  <2>1. [Idle EXCEPT !.pc = "sync", !.c = c] \in RequestRecord
    BY IdleType DEF RequestRecord, PC
  <2>2. contracts' \in [Contract -> ContractRecord]
    BY <1>1, InsertType DEF AddPrimary, Type
  <2> QED BY <1>1, <2>1, <2>2 DEF AddPrimary, Become, TypeOK
<1>2. ASSUME NEW r \in Request, NEW c \in Contract, NEW p \in Contract,
             AddGridServicesPacket(r, c, p) PROVE TypeOK'
  <2>1. contracts' \in [Contract -> ContractRecord]
    BY <1>2, InsertType DEF AddGridServicesPacket, Type
  <2> QED BY <1>2, <2>1 DEF AddGridServicesPacket, TypeOK
<1>3. ASSUME NEW r \in Request, NEW p \in Contract,
             ValidateChangeOrder(r, p) \/ ValidateNoCostChangeOrder(r, p) PROVE TypeOK'
  <2>1. ASSUME NEW pc \in PC PROVE [Idle EXCEPT !.pc = pc, !.c = p] \in RequestRecord
    BY IdleType DEF RequestRecord
  <2>2. {"addCO", "addNCCO"} \subseteq PC
    BY DEF PC
  <2> QED BY <1>3, <2>1, <2>2 DEF ValidateChangeOrder, ValidateNoCostChangeOrder, Become, TypeOK
<1>4. ASSUME NEW r \in Request, NEW c \in Contract,
             ValidateUpdate(r, c) \/ StartWetSign(r, c)
             \/ StartSend(r, c, TRUE) \/ StartSend(r, c, FALSE) PROVE TypeOK'
  <2>1. {"updateCO", "callWetSign", "callDraft", "callSend"} \subseteq PC
    BY DEF PC
  <2>2. req' \in [Request -> RequestRecord]
    BY <1>4, <2>1, LoadType DEF ValidateUpdate, StartWetSign, StartSend
  <2> QED BY <1>4, <2>2 DEF ValidateUpdate, StartWetSign, StartSend, TypeOK
<1>5. ASSUME NEW r \in Request, NEW c \in Contract, StartSendDraft(r, c) PROVE TypeOK'
  <2>1. contracts[c].ref \in Reference
    BY DEF TypeOK, ContractRecord
  <2>2. [Idle EXCEPT !.pc = "callSendDraft", !.c = c, !.status = "DRAFT",
                     !.env = contracts[c].ref] \in RequestRecord
    BY <2>1, StartType DEF PC, Status
  <2> QED BY <1>5, <2>2 DEF StartSendDraft, Become, TypeOK
<1>6. ASSUME NEW r \in Request, NEW c \in Contract, StartVoid(r, c) PROVE TypeOK'
  <2>1. [Idle EXCEPT !.pc = "void", !.c = c] \in RequestRecord
    BY IdleType DEF RequestRecord, PC
  <2> QED BY <1>6, <2>1, VoidCallType DEF StartVoid, Become, TypeOK
<1>7. ASSUME NEW r \in Request, SyncWithWav(r) PROVE TypeOK'
  BY <1>7, FinishType DEF SyncWithWav, TypeOK
<1>8. ASSUME NEW r \in Request, NEW c \in Contract, AddChangeOrder(r, c) PROVE TypeOK'
  <2>1. req[r].c \in Contract \cup {NoContract}
    BY DEF TypeOK, RequestRecord
  <2>2. contracts' \in [Contract -> ContractRecord]
    BY <1>8, <2>1, InsertType DEF AddChangeOrder, Type
  <2> QED BY <1>8, <2>2, FinishType DEF AddChangeOrder, TypeOK
<1>9. ASSUME NEW r \in Request, UpdateChangeOrder(r) PROVE TypeOK'
  <2>1. req[r].status \in Status \cup {"absent"}
    BY DEF TypeOK, RequestRecord
  <2>2. contracts' \in [Contract -> ContractRecord]
    <3> DEFINE rec == [contracts[req[r].c] EXCEPT !.type = "CHANGE_ORDER",
                                                  !.status = req[r].status]
    <3>1. contracts' = [contracts EXCEPT ![req[r].c] = rec]
      BY <1>9 DEF UpdateChangeOrder
    <3>2. CASE req[r].c \in Contract
      <4>1. rec \in ContractRecord
        BY <2>1, <3>2, ContractWriteType, NoEnvelopeRef DEF Type
      <4> QED BY <3>1, <3>2, <4>1 DEF TypeOK
    <3>3. CASE req[r].c \notin Contract
      BY <3>1, <3>3 DEF TypeOK
    <3> QED BY <3>2, <3>3
  <2> QED BY <1>9, <2>2, FinishType DEF UpdateChangeOrder, TypeOK
<1>10. ASSUME NEW r \in Request, CallDocusign(r) PROVE TypeOK'
  <2>1. ASSUME NEW e \in Envelope, NEW state \in {"created", "sent"},
               NEW pc \in {"saveDraft", "saveSent"}, NewEnvelope(e, req[r].c, state),
               Become(r, [req[r] EXCEPT !.env = e, !.pc = pc]), UNCHANGED <<contracts, amount, voids>>
        PROVE  TypeOK'
    <3>1. [req[r] EXCEPT !.env = e, !.pc = pc] \in RequestRecord
      BY DEF TypeOK, RequestRecord, PC, Reference
    <3> QED BY <2>1, <3>1, NewEnvelopeType DEF Become, TypeOK
  <2>2. ASSUME NEW e \in Envelope, NEW state \in {"created", "sent"},
               NewEnvelope(e, req[r].c, state), Finish(r), UNCHANGED <<contracts, amount, voids>>
        PROVE  TypeOK'
    BY <2>2, NewEnvelopeType, FinishType DEF TypeOK
  <2>3. ASSUME Goto(r, "saveSent") \/ Goto(r, "saveError") \/ Finish(r),
               UNCHANGED <<contracts, envelopes, amount, voids>>
        PROVE  TypeOK'
    <3>1. {"saveSent", "saveError"} \subseteq PC
      BY DEF PC
    <3> QED BY <2>3, <3>1, GotoType, FinishType DEF TypeOK
  <2> QED BY <1>10, <2>1, <2>2, <2>3 DEF CallDocusign, At
<1>11. ASSUME NEW r \in Request, SaveDraft(r) \/ SaveSent(r) \/ SaveWetSigned(r) PROVE TypeOK'
  <2>1. req[r].env \in Reference
    BY DEF TypeOK, RequestRecord
  <2>2. ASSUME NEW s \in Status
        PROVE  SaveStatusAndRef(r, s) \in [Contract -> ContractRecord]
    <3> DEFINE c == req[r].c
               new == IF s = req[r].status THEN contracts[c].status ELSE s
               rec == [contracts[c] EXCEPT !.status = new, !.ref = req[r].env]
    <3>1. SaveStatusAndRef(r, s) = [contracts EXCEPT ![c] = rec]
      BY DEF SaveStatusAndRef
    <3>2. CASE c \in Contract
      <4>1. new \in Status \cup {"absent"}
        BY <3>2 DEF TypeOK, ContractRecord
      <4>2. rec \in ContractRecord
        BY <2>1, <3>2, <4>1, ContractWriteType DEF Type
      <4> QED BY <3>1, <3>2, <4>2 DEF TypeOK
    <3>3. CASE c \notin Contract
      BY <3>1, <3>3 DEF TypeOK
    <3> QED BY <3>2, <3>3
  <2>3. {"DRAFT", "IN_PROGRESS"} \subseteq Status
    BY DEF Status
  <2> QED BY <1>11, <2>2, <2>3, FinishType DEF SaveDraft, SaveSent, SaveWetSigned, TypeOK
<1>12. ASSUME NEW r \in Request, SaveError(r) \/ SaveSentDraft(r) PROVE TypeOK'
  <2>1. ASSUME NEW s \in Status PROVE SaveStatus(r, s) \in [Contract -> ContractRecord]
    BY DEF SaveStatus, TypeOK, ContractRecord
  <2>2. {"ERROR", "IN_PROGRESS"} \subseteq Status
    BY DEF Status
  <2> QED BY <1>12, <2>1, <2>2, FinishType DEF SaveError, SaveSentDraft, TypeOK
<1>13. ASSUME NEW r \in Request, CallSendDraft(r) PROVE TypeOK'
  <2>1. "saveSentDraft" \in PC
    BY DEF PC
  <2>2. req' \in [Request -> RequestRecord]
    BY <1>13, <2>1, GotoType, FinishType DEF CallSendDraft
  <2>3. envelopes' \in [Envelope -> EnvelopeRecord]
    <3>1. CASE UNCHANGED envelopes
      BY <3>1 DEF TypeOK
    <3>2. CASE /\ req[r].env \in Envelope
               /\ envelopes' = [envelopes EXCEPT ![req[r].env].state = "sent"]
      BY <3>2, EnvelopeWriteType
    <3> QED BY <1>13, <3>1, <3>2 DEF CallSendDraft
  <2> QED BY <1>13, <2>2, <2>3 DEF CallSendDraft, TypeOK
<1>14. ASSUME NEW r \in Request, CallWetSign(r) PROVE TypeOK'
  <2>1. ASSUME NEW e \in Envelope, NewEnvelope(e, req[r].c, "sent"),
               Become(r, [req[r] EXCEPT !.pc = "saveWetSigned", !.env = e]),
               UNCHANGED <<contracts, amount, voids>>
        PROVE  TypeOK'
    <3>1. [req[r] EXCEPT !.pc = "saveWetSigned", !.env = e] \in RequestRecord
      BY DEF TypeOK, RequestRecord, PC, Reference
    <3> QED BY <2>1, <3>1, NewEnvelopeType DEF Become, TypeOK
  <2>2. ASSUME NEW e \in Envelope, NewEnvelope(e, req[r].c, "sent"), Finish(r),
               UNCHANGED <<contracts, amount, voids>>
        PROVE  TypeOK'
    BY <2>2, NewEnvelopeType, FinishType DEF TypeOK
  <2> QED BY <1>14, <2>1, <2>2, FinishType DEF CallWetSign, TypeOK
<1>15. ASSUME NEW r \in Request, NEW c \in Contract, VoidEnvelope(r, c) PROVE TypeOK'
  <2>1. voids' \in [Request -> [Contract -> VoidRecord]]
    BY <1>15, VoidStageType DEF VoidEnvelope
  <2>2. envelopes' \in [Envelope -> EnvelopeRecord]
    <3>1. CASE UNCHANGED envelopes
      BY <3>1 DEF TypeOK
    <3>2. CASE /\ voids[r][c].ref \in Envelope
               /\ envelopes' = [envelopes EXCEPT ![voids[r][c].ref].state = "voided"]
      BY <3>2, EnvelopeWriteType
    <3> QED BY <1>15, <3>1, <3>2 DEF VoidEnvelope
  <2> QED BY <1>15, <2>1, <2>2 DEF VoidEnvelope, TypeOK
<1>16. ASSUME NEW r \in Request, NEW c \in Contract, MarkVoided(r, c) PROVE TypeOK'
  <2>1. voids' \in [Request -> [Contract -> VoidRecord]]
    BY <1>16, VoidStageType DEF MarkVoided
  <2> QED BY <1>16, <2>1, StatusWriteType DEF MarkVoided, TypeOK, Status
<1>17. ASSUME NEW r \in Request, NEW c \in Contract,
              CountFinalized(r, c) \/ ZeroAmount(r, c) PROVE TypeOK'
  <2>1. NoVoid \in VoidRecord /\ [NoVoid EXCEPT !.at = "zero"] \in VoidRecord
    BY DEF NoVoid, VoidRecord, Reference
  <2>2. voids' \in [Request -> [Contract -> VoidRecord]]
    BY <1>17, <2>1, VoidWriteType DEF CountFinalized, ZeroAmount
  <2> QED BY <1>17, <2>2 DEF CountFinalized, ZeroAmount, TypeOK
<1>18. ASSUME NEW r \in Request, VoidRelated(r) \/ AnswerVoid(r) PROVE TypeOK'
  <2>1. NoVoid \in VoidRecord
    BY DEF NoVoid, VoidRecord, Reference
  <2>2. "voidRelated" \in PC
    BY DEF PC
  <2>3. req' \in [Request -> RequestRecord]
    BY <1>18, <2>2, GotoType, FinishType DEF VoidRelated, AnswerVoid
  <2>4. voids' \in [Request -> [Contract -> VoidRecord]]
    <3> DEFINE related == [c \in Contract |-> IF c \in RelatedTo(req[r].c)
                                              THEN VoidCall(c) ELSE NoVoid]
    <3>1. related \in [Contract -> VoidRecord]
      BY <2>1, VoidCallType
    <3>2. CASE voids' = [voids EXCEPT ![r] = related]
      BY <3>1, <3>2 DEF TypeOK
    <3>3. CASE UNCHANGED voids
      BY <3>3 DEF TypeOK
    <3> QED BY <1>18, <3>2, <3>3 DEF VoidRelated, AnswerVoid
  <2> QED BY <1>18, <2>3, <2>4 DEF VoidRelated, AnswerVoid, TypeOK
<1>19. ASSUME NEW e \in Envelope, SignEnvelope(e) PROVE TypeOK'
  BY <1>19, EnvelopeWriteType DEF SignEnvelope, TypeOK
<1>20. ASSUME NEW r \in Request, Report(r) PROVE TypeOK'
  <2>1. PICK e \in Envelope, complete \in BOOLEAN : StartReport(r, e, complete)
    BY <1>20 DEF Report
  <2>2. PICK c \in Existing, pc \in {"saveCompleted", "saveReport"} :
          Become(r, [pc |-> pc, c |-> c, type |-> contracts[c].type,
                     status |-> contracts[c].status, env |-> e])
    BY <2>1 DEF StartReport
  <2>3. [pc |-> pc, c |-> c, type |-> contracts[c].type, status |-> contracts[c].status,
         env |-> e] \in RequestRecord
    BY DEF TypeOK, Existing, ContractRecord, RequestRecord, PC, Reference
  <2> QED BY <2>1, <2>2, <2>3 DEF StartReport, Become, TypeOK
<1>23. ASSUME NEW r \in Request, SaveReport(r) PROVE TypeOK'
  <2>1. /\ req[r].type \in Type /\ req[r].status \in Status \cup {"absent"}
        /\ req[r].env \in Reference
    BY DEF TypeOK, RequestRecord
  <2>2. PICK s \in Status \cup {"absent"} : contracts' = WriteBack(r, s)
    BY <1>23, <2>1 DEF SaveReport, Status
  <2>3. contracts' \in [Contract -> ContractRecord]
    <3> DEFINE c == req[r].c
               rec == [contracts[c] EXCEPT !.type = req[r].type, !.status = s, !.ref = req[r].env]
    <3>1. contracts' = [contracts EXCEPT ![c] = rec]
      BY <2>2 DEF WriteBack
    <3>2. CASE c \in Contract
      <4>1. rec \in ContractRecord
        BY <2>1, <3>2, ContractWriteType
      <4> QED BY <3>1, <3>2, <4>1 DEF TypeOK
    <3>3. CASE c \notin Contract
      BY <3>1, <3>3 DEF TypeOK
    <3> QED BY <3>2, <3>3
  <2> QED BY <1>23, <2>3, FinishType DEF SaveReport, TypeOK
<1>21. CASE Crash
  <2>1. NoVoid \in VoidRecord
    BY DEF NoVoid, VoidRecord, Reference
  <2> QED BY <1>21, <2>1, IdleType DEF Crash, TypeOK
<1>22. CASE UNCHANGED vars
  BY <1>22 DEF vars, TypeOK
<1> QED
  BY <1>1, <1>2, <1>3, <1>4, <1>5, <1>6, <1>7, <1>8, <1>9, <1>10, <1>11, <1>12, <1>13,
     <1>14, <1>15, <1>16, <1>17, <1>18, <1>19, <1>20, <1>21, <1>22, <1>23
     DEF Next, Arrive, Continue, Docusign

\* Every reachable state is well typed: each handler writes only the statuses,
\* references and amounts the code knows, whatever it has raced with.
THEOREM TypeCorrect == Spec => []TypeOK
<1>1. Init => TypeOK
  BY ContractsAssumption DEF Init, TypeOK, Absent, Idle, NoVoid, Reference, Status, PC, Type,
     ContractRecord, EnvelopeRecord, RequestRecord, VoidRecord
<1>2. TypeOK /\ [Next]_vars => TypeOK'
  BY TypeStep
<1> QED BY <1>1, <1>2, PTL DEF Spec

----------------------------------------------------------------------------

\* DocuSign forgets nothing: an envelope keeps its contract, and a signed one stays
\* signed.
EnvelopesKept ==
  \A e \in Envelope : envelopes[e].state # "none" =>
    /\ envelopes'[e].of = envelopes[e].of
    /\ envelopes'[e].state # "none"
    /\ envelopes[e].state = "signed" => envelopes'[e].state = "signed"

LEMMA EnvelopesStep == ASSUME TypeOK, [Next]_vars PROVE EnvelopesKept
<1>1. ASSUME NEW r \in Request, NEW c \in Contract,
             VoidEnvelope(r, c) PROVE EnvelopesKept
  <2>1. CASE UNCHANGED envelopes
    BY <2>1 DEF EnvelopesKept
  <2>2. CASE /\ voids[r][c].ref \in Envelope
             /\ envelopes[voids[r][c].ref].state \in {"created", "sent"}
             /\ envelopes' = [envelopes EXCEPT ![voids[r][c].ref].state = "voided"]
    BY <2>2 DEF TypeOK, EnvelopeRecord, EnvelopesKept
  <2> QED BY <1>1, <2>1, <2>2 DEF VoidEnvelope
<1>2. ASSUME NEW r \in Request, CallDocusign(r) \/ CallWetSign(r) PROVE EnvelopesKept
  BY <1>2 DEF CallDocusign, CallWetSign, NewEnvelope, TypeOK, EnvelopeRecord, EnvelopesKept
<1>3. ASSUME NEW r \in Request, CallSendDraft(r) PROVE EnvelopesKept
  <2>1. CASE UNCHANGED envelopes
    BY <2>1 DEF EnvelopesKept
  <2>2. CASE /\ req[r].env \in Envelope /\ envelopes[req[r].env].state = "created"
             /\ envelopes' = [envelopes EXCEPT ![req[r].env].state = "sent"]
    BY <2>2 DEF TypeOK, EnvelopeRecord, EnvelopesKept
  <2> QED BY <1>3, <2>1, <2>2 DEF CallSendDraft
<1>4. ASSUME NEW e \in Envelope, SignEnvelope(e) PROVE EnvelopesKept
  BY <1>4 DEF SignEnvelope, TypeOK, EnvelopeRecord, EnvelopesKept
<1>5. CASE UNCHANGED envelopes
  BY <1>5 DEF EnvelopesKept
<1>6. ASSUME NEW r \in Request, Arrive(r) \/ Report(r) PROVE UNCHANGED envelopes
  BY <1>6 DEF Arrive, AddPrimary, AddGridServicesPacket, ValidateChangeOrder,
       ValidateNoCostChangeOrder, ValidateUpdate, StartSend, StartSendDraft,
       StartWetSign, StartVoid, Report, StartReport
<1>7. ASSUME NEW r \in Request, NEW c \in Contract,
             AddChangeOrder(r, c) \/ MarkVoided(r, c) \/ CountFinalized(r, c) \/ ZeroAmount(r, c)
      PROVE  UNCHANGED envelopes
  BY <1>7 DEF AddChangeOrder, MarkVoided, CountFinalized, ZeroAmount
<1>8. ASSUME NEW r \in Request,
             \/ SyncWithWav(r) \/ UpdateChangeOrder(r) \/ SaveDraft(r) \/ SaveSent(r)
             \/ SaveError(r) \/ SaveSentDraft(r) \/ SaveWetSigned(r) \/ VoidRelated(r)
             \/ AnswerVoid(r) \/ SaveReport(r)
      PROVE  UNCHANGED envelopes
  BY <1>8 DEF SyncWithWav, UpdateChangeOrder, SaveDraft, SaveSent, SaveError,
       SaveSentDraft, SaveWetSigned, VoidRelated, AnswerVoid, SaveReport
<1>9. CASE Crash \/ UNCHANGED vars
  BY <1>5, <1>9 DEF Crash, vars
<1> QED
  BY <1>1, <1>2, <1>3, <1>4, <1>5, <1>6, <1>7, <1>8, <1>9 DEF Next, Continue, Docusign

\* What a step may do to a contract: create it, void it, or record the outcome of a
\* request or a report that has read it.
Created(c) ==
  contracts[c].status = "absent" /\ contracts'[c].status = "INITIATED"
                                /\ contracts'[c].ref = NoEnvelope
MarkedVoided(c) ==
  contracts'[c].status = "VOIDED" /\ contracts'[c].ref = contracts[c].ref
SavedBy(r, c) ==
  /\ req[r].c = c /\ req'[r] # req[r]
  /\ \/ /\ req[r].pc \in {"saveDraft", "saveSent", "saveWetSigned"}
        /\ contracts'[c].ref = req[r].env
        /\ contracts'[c].status \in {contracts[c].status, "DRAFT", "IN_PROGRESS"}
     \/ /\ req[r].pc \in {"saveError", "saveSentDraft"}
        /\ contracts'[c].ref = contracts[c].ref
        /\ contracts'[c].status \in {contracts[c].status, "ERROR", "IN_PROGRESS"}
     \/ /\ req[r].pc = "updateCO"
        /\ contracts'[c].ref = contracts[c].ref
        /\ contracts'[c].status = req[r].status
     \/ /\ req[r].pc = "saveReport"
        /\ contracts'[c].ref = req[r].env
        /\ contracts'[c].status = req[r].status
     \/ /\ req[r].pc = "saveCompleted"
        /\ contracts'[c].ref = req[r].env
        /\ contracts'[c].status = "COMPLETED"

ContractChanges ==
  \A c \in Contract :
    \/ contracts'[c] = contracts[c]
    \/ Created(c) \/ MarkedVoided(c)
    \/ \E r \in Request : SavedBy(r, c)

LEMMA SavesMove ==
  ASSUME TypeOK, NEW r \in Request, ~At(r, "idle"), Finish(r) PROVE req'[r] # req[r]
  BY DEF TypeOK, Finish, Become, At, Idle, RequestRecord

LEMMA ContractsStep == ASSUME TypeOK, [Next]_vars PROVE ContractChanges
<1>1. ASSUME NEW c \in Contract, NEW t, NEW p, Insert(c, t, p) PROVE ContractChanges
  BY <1>1 DEF Insert, Existing, Created, ContractChanges, TypeOK, ContractRecord
<1>2. ASSUME NEW r \in Request,
             SaveDraft(r) \/ SaveSent(r) \/ SaveWetSigned(r) PROVE ContractChanges
  <2>1. req'[r] # req[r] /\ req[r].pc \in {"saveDraft", "saveSent", "saveWetSigned"}
    BY <1>2, SavesMove DEF SaveDraft, SaveSent, SaveWetSigned, At
  <2>2. PICK s \in {"DRAFT", "IN_PROGRESS"} : contracts' = SaveStatusAndRef(r, s)
    BY <1>2 DEF SaveDraft, SaveSent, SaveWetSigned
  <2>3. ASSUME NEW c \in Contract, c = req[r].c PROVE SavedBy(r, c)
    BY <2>1, <2>2, <2>3 DEF SavedBy, SaveStatusAndRef, TypeOK, ContractRecord
  <2>4. ASSUME NEW c \in Contract, c # req[r].c PROVE contracts'[c] = contracts[c]
    BY <2>2, <2>4 DEF SaveStatusAndRef, TypeOK
  <2> QED BY <2>3, <2>4 DEF ContractChanges
<1>3. ASSUME NEW r \in Request, SaveError(r) \/ SaveSentDraft(r) PROVE ContractChanges
  <2>1. req'[r] # req[r] /\ req[r].pc \in {"saveError", "saveSentDraft"}
    BY <1>3, SavesMove DEF SaveError, SaveSentDraft, At
  <2>2. PICK s \in {"ERROR", "IN_PROGRESS"} : contracts' = SaveStatus(r, s)
    BY <1>3 DEF SaveError, SaveSentDraft
  <2>3. ASSUME NEW c \in Contract, c = req[r].c PROVE SavedBy(r, c)
    BY <2>1, <2>2, <2>3 DEF SavedBy, SaveStatus, TypeOK, ContractRecord
  <2>4. ASSUME NEW c \in Contract, c # req[r].c PROVE contracts'[c] = contracts[c]
    BY <2>2, <2>4 DEF SaveStatus, TypeOK
  <2> QED BY <2>3, <2>4 DEF ContractChanges
<1>4. ASSUME NEW r \in Request, UpdateChangeOrder(r) PROVE ContractChanges
  <2>1. req'[r] # req[r] /\ req[r].pc = "updateCO"
    BY <1>4, SavesMove DEF UpdateChangeOrder, At
  <2>2. ASSUME NEW c \in Contract, c = req[r].c PROVE SavedBy(r, c)
    BY <1>4, <2>1, <2>2 DEF UpdateChangeOrder, SavedBy, TypeOK, ContractRecord
  <2>3. ASSUME NEW c \in Contract, c # req[r].c PROVE contracts'[c] = contracts[c]
    BY <1>4, <2>3 DEF UpdateChangeOrder, TypeOK
  <2> QED BY <2>2, <2>3 DEF ContractChanges
<1>5. ASSUME NEW r \in Request, NEW c \in Contract, MarkVoided(r, c) PROVE ContractChanges
  BY <1>5 DEF MarkVoided, MarkedVoided, ContractChanges, TypeOK, ContractRecord
<1>6. ASSUME NEW r \in Request, SaveReport(r) PROVE ContractChanges
  <2> DEFINE c == req[r].c
             s == IF At(r, "saveCompleted") THEN "COMPLETED" ELSE req[r].status
             rec == [contracts[c] EXCEPT !.type = req[r].type, !.status = s, !.ref = req[r].env]
  <2>1. req'[r] # req[r] /\ req[r].pc \in {"saveReport", "saveCompleted"}
    BY <1>6, SavesMove DEF SaveReport, At
  <2>2. contracts' = [contracts EXCEPT ![c] = rec]
    BY <1>6 DEF SaveReport, WriteBack
  <2>3. ASSUME c \in Contract PROVE SavedBy(r, c)
    <3>1. contracts'[c] = rec
      BY <2>2, <2>3 DEF TypeOK
    <3>2. rec.status = s /\ rec.ref = req[r].env
      BY <2>3 DEF TypeOK, ContractRecord
    <3> QED BY <2>1, <3>1, <3>2 DEF SavedBy, At
  <2>4. ASSUME NEW d \in Contract, d # c PROVE contracts'[d] = contracts[d]
    BY <2>2, <2>4 DEF TypeOK
  <2> QED BY <2>3, <2>4 DEF ContractChanges
<1>7. CASE UNCHANGED contracts
  BY <1>7 DEF ContractChanges
<1>8. ASSUME NEW r \in Request, Arrive(r) \/ Report(r) PROVE ContractChanges
  <2>1. ASSUME NEW c \in Contract, NEW p \in Contract,
               AddPrimary(r, c) \/ AddGridServicesPacket(r, c, p) PROVE ContractChanges
    BY <1>1, <2>1 DEF AddPrimary, AddGridServicesPacket
  <2>2. ASSUME NEW c \in Contract, NEW draft \in BOOLEAN,
               \/ ValidateChangeOrder(r, c) \/ ValidateNoCostChangeOrder(r, c)
               \/ ValidateUpdate(r, c) \/ StartSend(r, c, draft) \/ StartSendDraft(r, c)
               \/ StartWetSign(r, c) \/ StartVoid(r, c)
        PROVE  ContractChanges
    BY <1>7, <2>2 DEF ValidateChangeOrder, ValidateNoCostChangeOrder, ValidateUpdate,
         StartSend, StartSendDraft, StartWetSign, StartVoid
  <2>3. CASE Report(r)
    BY <1>7, <2>3 DEF Report, StartReport
  <2> QED BY <1>8, <2>1, <2>2, <2>3 DEF Arrive
<1>9. ASSUME NEW r \in Request, NEW c \in Contract,
             \/ AddChangeOrder(r, c) \/ VoidEnvelope(r, c) \/ CountFinalized(r, c)
             \/ ZeroAmount(r, c)
      PROVE  ContractChanges
  BY <1>1, <1>7, <1>9 DEF AddChangeOrder, VoidEnvelope, CountFinalized, ZeroAmount
<1>10. ASSUME NEW r \in Request,
              \/ SyncWithWav(r) \/ CallDocusign(r) \/ CallSendDraft(r) \/ CallWetSign(r)
              \/ VoidRelated(r) \/ AnswerVoid(r)
      PROVE  ContractChanges
  BY <1>7, <1>10 DEF SyncWithWav, CallDocusign, CallSendDraft, CallWetSign,
       VoidRelated, AnswerVoid
<1>11. ASSUME NEW e \in Envelope, SignEnvelope(e) PROVE ContractChanges
  BY <1>7, <1>11 DEF SignEnvelope
<1>12. CASE Crash \/ UNCHANGED vars
  BY <1>7, <1>12 DEF Crash, vars
<1> QED
  BY <1>2, <1>3, <1>4, <1>5, <1>6, <1>8, <1>9, <1>10, <1>11, <1>12
     DEF Next, Continue, Docusign

LEMMA OwnStep ==
  ASSUME TypeOK, TypeOK', ReferenceIsOwn, HeldEnvelopeIsOwn, [Next]_vars
  PROVE  ReferenceIsOwn'
<1> SUFFICES ASSUME NEW c \in Contract, contracts'[c].ref # NoEnvelope
             PROVE  /\ envelopes'[contracts'[c].ref].of = c
                    /\ envelopes'[contracts'[c].ref].state # "none"
  BY DEF ReferenceIsOwn
<1>1. contracts'[c].ref \in Envelope
  BY DEF TypeOK, ContractRecord, Reference
<1>2. EnvelopesKept /\ ContractChanges
  BY EnvelopesStep, ContractsStep
<1>3. CASE contracts'[c].ref = contracts[c].ref
  BY <1>1, <1>2, <1>3 DEF ReferenceIsOwn, EnvelopesKept
<1>4. ASSUME NEW r \in Request, req[r].c = c, contracts'[c].ref = req[r].env
      PROVE  /\ envelopes'[contracts'[c].ref].of = c
             /\ envelopes'[contracts'[c].ref].state # "none"
  BY <1>1, <1>2, <1>4 DEF HeldEnvelopeIsOwn, EnvelopesKept
<1> QED
  BY <1>2, <1>3, <1>4 DEF ContractChanges, Created, MarkedVoided, SavedBy

LEMMA SignedStep ==
  ASSUME TypeOK, TypeOK', IInv, [Next]_vars
  PROVE  CompletedWasSigned'
<1> SUFFICES ASSUME NEW c \in Contract, contracts'[c].status = "COMPLETED"
             PROVE  WasSigned(c)'
  BY DEF CompletedWasSigned
<1>1. EnvelopesKept /\ ContractChanges
  BY EnvelopesStep, ContractsStep
<1>2. WasSigned(c) => WasSigned(c)'
  BY <1>1 DEF WasSigned, EnvelopesKept
<1>3. CASE contracts[c].status = "COMPLETED"
  BY <1>2, <1>3 DEF IInv, CompletedWasSigned
<1>4. ASSUME NEW r \in Request, SavedBy(r, c)
      PROVE  contracts[c].status = "COMPLETED" \/ WasSigned(c)
  BY <1>4 DEF SavedBy, IInv, ReadIsGuarded, At
<1> QED BY <1>1, <1>2, <1>3, <1>4 DEF ContractChanges, Created, MarkedVoided

\* What a step may do to a request: leave it, end it, or take it to a record that
\* carries no envelope or one of its own, past the guards of its handler.
Guarded(rec) ==
  /\ rec.pc = "updateCO" => rec.status = "INITIATED"
  /\ rec.pc \in {"callDraft", "callSend", "saveDraft", "saveSent", "saveError"} =>
       rec.status \notin {"VOIDED", "DRAFT"}
  /\ rec.pc \in {"callSendDraft", "saveSentDraft"} => rec.status = "DRAFT"

SignedNext(c) == \E e \in Envelope : envelopes'[e].of = c /\ envelopes'[e].state = "signed"

Owned(rec) ==
  /\ rec.env # NoEnvelope => /\ envelopes'[rec.env].of = rec.c
                             /\ envelopes'[rec.env].state # "none"
  /\ rec.pc = "saveReport" /\ rec.status = "COMPLETED" => SignedNext(rec.c)
  /\ rec.pc = "saveCompleted" => SignedNext(rec.c)

LEMMA RequestsStep ==
  ASSUME TypeOK, IInv, [Next]_vars
  PROVE  \A r \in Request : Guarded(req'[r]) /\ Owned(req'[r])
<1> DEFINE Goal == \A r \in Request : Guarded(req'[r]) /\ Owned(req'[r])
<1>0. \A c : WasSigned(c) => SignedNext(c)
  BY EnvelopesStep DEF WasSigned, SignedNext, EnvelopesKept
<1>1. ASSUME NEW r \in Request PROVE Guarded(req[r]) /\ Owned(req[r])
  <2>1. req[r].env \in Envelope \cup {NoEnvelope}
    BY DEF TypeOK, RequestRecord, Reference
  <2>2. Guarded(req[r])
    BY DEF IInv, ReadIsGuarded, At, Guarded
  <2>3. req[r].env # NoEnvelope => /\ envelopes'[req[r].env].of = req[r].c
                                  /\ envelopes'[req[r].env].state # "none"
    BY <2>1, EnvelopesStep DEF IInv, HeldEnvelopeIsOwn, EnvelopesKept
  <2>4. WasSigned(req[r].c) => SignedNext(req[r].c)
    BY <1>0
  <2> QED BY <2>2, <2>3, <2>4 DEF IInv, ReadIsGuarded, At, Owned
<1>2. Guarded(Idle) /\ Owned(Idle)
  BY DEF Guarded, Owned, Idle
<1>3. CASE UNCHANGED req
  BY <1>1, <1>3
<1>4. ASSUME NEW r \in Request, NEW rec, Become(r, rec), Guarded(rec), Owned(rec) PROVE Goal
  BY <1>1, <1>4 DEF Become, TypeOK
<1>5. ASSUME NEW r \in Request, Finish(r) PROVE Goal
  BY <1>2, <1>4, <1>5 DEF Finish
<1>6. ASSUME NEW r \in Request, Arrive(r) PROVE Goal
  <2>1. ASSUME NEW c \in Contract, AddPrimary(r, c) PROVE Goal
    BY <1>4, <2>1 DEF AddPrimary, Idle, Guarded, Owned
  <2>2. ASSUME NEW c \in Contract, NEW p \in Contract, AddGridServicesPacket(r, c, p) PROVE Goal
    BY <1>3, <2>2 DEF AddGridServicesPacket
  <2>3. ASSUME NEW c \in Contract, \/ ValidateChangeOrder(r, c)
                                   \/ ValidateNoCostChangeOrder(r, c) \/ StartVoid(r, c)
        PROVE  Goal
    BY <1>4, <2>3 DEF ValidateChangeOrder, ValidateNoCostChangeOrder, StartVoid, Idle,
         Guarded, Owned
  <2>4. ASSUME NEW c \in Contract, NEW draft \in BOOLEAN,
               ValidateUpdate(r, c) \/ StartSend(r, c, draft) \/ StartWetSign(r, c)
        PROVE  Goal
    BY <1>4, <2>4 DEF ValidateUpdate, StartSend, StartWetSign, Load, Idle, Guarded, Owned
  <2>5. ASSUME NEW c \in Contract, StartSendDraft(r, c) PROVE Goal
    <3>1. contracts[c].ref \in Envelope \cup {NoEnvelope}
      BY DEF TypeOK, ContractRecord, Reference
    <3> DEFINE rec == [Idle EXCEPT !.pc = "callSendDraft", !.c = c, !.status = "DRAFT",
                                   !.env = contracts[c].ref]
    <3>2. Guarded(rec) /\ Owned(rec)
      BY <3>1, EnvelopesStep DEF Guarded, Owned, Idle, IInv, ReferenceIsOwn, EnvelopesKept
    <3> QED BY <1>4, <2>5, <3>2 DEF StartSendDraft
  <2> QED BY <1>6, <2>1, <2>2, <2>3, <2>4, <2>5 DEF Arrive
<1>7. ASSUME NEW r \in Request, NEW e \in Envelope, NEW state \in {"created", "sent"},
             NEW pc \in {"saveDraft", "saveSent", "saveWetSigned"},
             NewEnvelope(e, req[r].c, state), Become(r, [req[r] EXCEPT !.env = e, !.pc = pc]),
             pc = "saveWetSigned" \/ req[r].status \notin {"VOIDED", "DRAFT"}
      PROVE  Goal
  <2> DEFINE rec == [req[r] EXCEPT !.env = e, !.pc = pc]
  <2>1. /\ rec.env = e /\ rec.pc = pc /\ rec.c = req[r].c /\ rec.status = req[r].status
    BY DEF TypeOK, RequestRecord
  <2>2. /\ envelopes'[e].of = req[r].c /\ envelopes'[e].state = state
    BY <1>7 DEF NewEnvelope, TypeOK, EnvelopeRecord
  <2>3. Owned(rec)
    BY <2>1, <2>2 DEF Owned
  <2>4. Guarded(rec)
    BY <1>7, <2>1 DEF Guarded
  <2> QED BY <1>4, <1>7, <2>3, <2>4
<1>8. ASSUME NEW r \in Request,
             NEW pc \in {"saveSent", "saveError", "saveSentDraft", "voidRelated"}, Goto(r, pc),
             pc \in {"saveSent", "saveError"} => req[r].status \notin {"VOIDED", "DRAFT"},
             pc = "saveSentDraft" => req[r].status = "DRAFT"
      PROVE  Goal
  <2> DEFINE rec == [req[r] EXCEPT !.pc = pc]
  <2>1. /\ rec.env = req[r].env /\ rec.pc = pc /\ rec.c = req[r].c
        /\ rec.status = req[r].status
    BY DEF TypeOK, RequestRecord
  <2>2. Guarded(rec) /\ Owned(rec)
    BY <1>1, <1>8, <2>1 DEF Guarded, Owned
  <2>3. Become(r, rec)
    BY <1>8 DEF Goto, Become
  <2> QED BY <1>4, <2>2, <2>3
<1>9. ASSUME NEW r \in Request, CallDocusign(r) PROVE Goal
  <2>1. req[r].status \notin {"VOIDED", "DRAFT"}
    BY <1>1, <1>9 DEF CallDocusign, Guarded
  <2> QED BY <1>5, <1>7, <1>8, <1>9, <2>1 DEF CallDocusign
<1>10. ASSUME NEW r \in Request, CallWetSign(r) PROVE Goal
  <2>1. ASSUME NEW e \in Envelope, NewEnvelope(e, req[r].c, "sent"),
               Become(r, [req[r] EXCEPT !.pc = "saveWetSigned", !.env = e])
        PROVE  Goal
    <3>1. [req[r] EXCEPT !.pc = "saveWetSigned", !.env = e]
            = [req[r] EXCEPT !.env = e, !.pc = "saveWetSigned"]
      BY DEF TypeOK, RequestRecord
    <3> QED BY <1>7, <2>1, <3>1
  <2> QED BY <1>5, <1>10, <2>1 DEF CallWetSign
<1>11. ASSUME NEW r \in Request, CallSendDraft(r) PROVE Goal
  <2>1. req[r].status = "DRAFT"
    BY <1>1, <1>11 DEF CallSendDraft, At, Guarded
  <2> QED BY <1>5, <1>8, <1>11, <2>1 DEF CallSendDraft
<1>12. ASSUME NEW r \in Request, VoidRelated(r) PROVE Goal
  BY <1>8, <1>12 DEF VoidRelated
<1>13. ASSUME NEW r \in Request, NEW c \in Contract,
              \/ AddChangeOrder(r, c) \/ VoidEnvelope(r, c) \/ MarkVoided(r, c)
              \/ CountFinalized(r, c) \/ ZeroAmount(r, c)
       PROVE  Goal
  BY <1>3, <1>5, <1>13 DEF AddChangeOrder, VoidEnvelope, MarkVoided, CountFinalized, ZeroAmount
<1>14. ASSUME NEW r \in Request,
              \/ SyncWithWav(r) \/ UpdateChangeOrder(r) \/ SaveDraft(r) \/ SaveSent(r)
              \/ SaveError(r) \/ SaveSentDraft(r) \/ SaveWetSigned(r) \/ AnswerVoid(r)
              \/ SaveReport(r)
       PROVE  Goal
  BY <1>5, <1>14 DEF SyncWithWav, UpdateChangeOrder, SaveDraft, SaveSent, SaveError,
       SaveSentDraft, SaveWetSigned, AnswerVoid, SaveReport
<1>15. CASE Docusign
  BY <1>3, <1>15 DEF Docusign, SignEnvelope
<1>16. CASE Crash
  BY <1>2, <1>16 DEF Crash
<1>17. CASE UNCHANGED vars
  BY <1>3, <1>17 DEF vars
<1>18. ASSUME NEW r \in Request, Report(r) PROVE Goal
  <2>1. PICK e \in Envelope, complete \in BOOLEAN : StartReport(r, e, complete)
    BY <1>18 DEF Report
  <2>2. PICK c \in Existing : /\ contracts[c].ref = e
                              /\ Become(r, [pc |-> IF complete THEN "saveCompleted" ELSE "saveReport",
                                            c |-> c, type |-> contracts[c].type,
                                            status |-> contracts[c].status, env |-> e])
    BY <2>1 DEF StartReport
  <2> DEFINE rec == [pc |-> IF complete THEN "saveCompleted" ELSE "saveReport", c |-> c,
                     type |-> contracts[c].type, status |-> contracts[c].status, env |-> e]
  <2>3. c \in Contract /\ envelopes[e].of = c /\ envelopes[e].state # "none"
    BY <2>2, ContractsAssumption DEF IInv, ReferenceIsOwn, Existing
  <2>4. complete => WasSigned(c)
    BY <2>1, <2>3 DEF StartReport, WasSigned
  <2>5. contracts[c].status = "COMPLETED" => WasSigned(c)
    BY <2>3 DEF IInv, CompletedWasSigned
  <2>6. Guarded(rec)
    BY DEF Guarded
  <2>7. Owned(rec)
    BY <1>0, <2>3, <2>4, <2>5, EnvelopesStep DEF Owned, EnvelopesKept
  <2> QED BY <1>4, <2>2, <2>6, <2>7
<1> QED
  BY <1>6, <1>9, <1>10, <1>11, <1>12, <1>13, <1>14, <1>15, <1>16, <1>17, <1>18
     DEF Next, Continue

\* The invariant the theorems below share, with the types it is read over.
LEMMA InvStep == ASSUME TypeOK, IInv, [Next]_vars PROVE TypeOK' /\ IInv'
<1>1. TypeOK'
  BY TypeStep
<1>2. ReferenceIsOwn' /\ CompletedWasSigned'
  BY <1>1, OwnStep, SignedStep DEF IInv
<1>3. HeldEnvelopeIsOwn' /\ ReadIsGuarded'
  BY RequestsStep DEF HeldEnvelopeIsOwn, ReadIsGuarded, At, Guarded, Owned, WasSigned, SignedNext
<1> QED BY <1>1, <1>2, <1>3 DEF IInv

LEMMA InvInit == Init => TypeOK /\ IInv
<1> SUFFICES ASSUME Init PROVE TypeOK /\ IInv
  OBVIOUS
<1>1. TypeOK
  BY DEF Init, TypeOK, Absent, Idle, NoVoid, Reference, Status, PC, Type,
     ContractRecord, EnvelopeRecord, RequestRecord, VoidRecord
<1>2. IInv
  BY DEF Init, IInv, ReferenceIsOwn, CompletedWasSigned, HeldEnvelopeIsOwn, ReadIsGuarded,
     At, Absent, Idle
<1> QED BY <1>1, <1>2

\* However many requests send, preview, wet-sign, amend and void side by side, and
\* wherever the server stops, a contract's reference is an envelope made for it.
THEOREM ReferencesAreOwn == Spec => []ReferenceIsOwn
<1>1. TypeOK /\ IInv => ReferenceIsOwn
  BY DEF IInv
<1> QED BY <1>1, InvInit, InvStep, PTL DEF Spec

\* A contract is COMPLETED only if an envelope of its own has been signed: no race of
\* saves and no stale write, of a request or of a report, makes it so.
THEOREM CompletionIsSigned == Spec => []CompletedWasSigned
<1>1. TypeOK /\ IInv => CompletedWasSigned
  BY DEF IInv
<1> QED BY <1>1, InvInit, InvStep, PTL DEF Spec

\* The only ways out of VOIDED are the wet signature, the report of a signed envelope
\* and the save of a handler that had read the contract before it was voided.
THEOREM VoidedIsLeftOnlyKnowingly == Spec => VoidedStays
<1> DEFINE Left == \A c \in Contract :
             LeavesVoided(c) => ReadBeforeVoid(c) \/ WetSigned(c) \/ SignatureReported(c)
<1>1. ASSUME TypeOK, IInv, [Next]_vars PROVE Left
  <2> SUFFICES ASSUME NEW c \in Contract, LeavesVoided(c)
               PROVE  ReadBeforeVoid(c) \/ WetSigned(c) \/ SignatureReported(c)
    OBVIOUS
  <2>1. contracts[c].status = "VOIDED" /\ contracts'[c].status # "VOIDED"
    BY DEF LeavesVoided
  <2>2. PICK r \in Request : SavedBy(r, c)
    BY <1>1, <2>1, ContractsStep DEF ContractChanges, Created, MarkedVoided
  <2> QED BY <1>1, <2>1, <2>2 DEF SavedBy, IInv, ReadIsGuarded, At, ReadBeforeVoid, WetSigned,
                               SignatureReported
<1>2. TypeOK /\ IInv /\ [Next]_vars => [Left]_vars
  BY <1>1
<1> QED BY <1>2, InvInit, InvStep, PTL DEF Spec, VoidedStays

----------------------------------------------------------------------------
(* One handler at a time: what it knows nobody changes but the customers who *)
(* sign, and no stop of the server breaks it off.                            *)

OneClient == (\A r, s \in Request : r = s) /\ ~Crashes

Open(c) == contracts[c].status \in {"DRAFT", "IN_PROGRESS"}
Usable(e) == e # NoEnvelope => envelopes[e].state # "voided"
Shown(c) == contracts[c].status = "DRAFT" => contracts[c].ref # NoEnvelope
Fits(c) == Shown(c) /\ Usable(contracts[c].ref)
Deals == {c \in Existing : contracts[c].type # "GRID_SERVICES_PACKET"}
ChangeOrders == OfType("CHANGE_ORDER") \cup OfType("NO_COST_CHANGE_ORDER")

\* An open contract whose envelope is voided is about to be marked.
OpenIsUsable ==
  \A c \in Contract : Open(c) =>
    /\ Shown(c)
    /\ Usable(contracts[c].ref) \/ \E r \in Request : voids[r][c].at = "mark"

\* The calls of voidContract belong to a handler that voids, and to their contracts.
VoidsAreOwn ==
  \A r \in Request, c \in Contract : voids[r][c].at # "none" =>
    /\ c \in Existing
    /\ req[r].pc \in {"void", "voidRelated"}
    /\ voids[r][c].at = "envelope" /\ voids[r][c].ref # NoEnvelope =>
         envelopes[voids[r][c].ref].of = c /\ envelopes[voids[r][c].ref].state # "none"

\* An amount left over from voided contracts is about to be taken away.
SoldIsDue ==
  amount = "sold" /\ Deals # {} /\ (\A c \in Deals : contracts[c].status = "VOIDED") =>
    \E r \in Request, c \in Contract : voids[r][c].at \in {"count", "zero"}

\* What the handler of r can rely on.
Informed(r) ==
  /\ ~At(r, "idle") => req[r].c \in Existing
  /\ At(r, "sync") => req[r].c \in Deals /\ contracts[req[r].c].status # "VOIDED"
  /\ req[r].pc \in {"callSend", "saveDraft", "saveSent", "saveWetSigned"} => Usable(req[r].env)
  /\ At(r, "saveDraft") => req[r].env # NoEnvelope
  /\ req[r].pc \in {"callSend", "saveSent"} => contracts[req[r].c].status # "DRAFT"
  /\ At(r, "saveWetSigned") => req[r].env # NoEnvelope
  /\ req[r].pc \in {"callSendDraft", "saveSentDraft"} => Usable(contracts[req[r].c].ref)
  /\ req[r].pc \in {"saveReport", "saveCompleted"} =>
       /\ contracts[req[r].c].type = req[r].type
       /\ contracts[req[r].c].status = req[r].status
       /\ contracts[req[r].c].ref = req[r].env
  /\ At(r, "voidRelated") =>
       \A c \in ChangeOrders : contracts[c].primary = req[r].c =>
         contracts[c].status = "VOIDED" \/ voids[r][c].at \in {"envelope", "mark"}

ClientInv == OpenIsUsable /\ VoidsAreOwn /\ SoldIsDue /\ \A r \in Request : Informed(r)

\* The only request is r: nobody else's handler or void can be meant.
LEMMA OnlyClient ==
  ASSUME OneClient, NEW r \in Request, NEW s \in Request PROVE s = r
  BY DEF OneClient

\* A handler that does not void finds no void under way: open contracts are usable and
\* no amount is due.
LEMMA NoVoidUnderWay ==
  ASSUME OneClient, TypeOK, ClientInv, NEW r \in Request,
         ~Voiding(r) \/ req[r].pc \notin {"void", "voidRelated"}
  PROVE  /\ \A s \in Request, c \in Contract : voids[s][c].at = "none"
         /\ \A c \in Contract : Open(c) => Fits(c)
         /\ ~(amount = "sold" /\ Deals # {} /\ \A c \in Deals : contracts[c].status = "VOIDED")
<1>1. \A c \in Contract : voids[r][c].at = "none"
  BY DEF Voiding, ClientInv, VoidsAreOwn
<1>2. \A s \in Request, c \in Contract : voids[s][c].at = "none"
  BY <1>1, OnlyClient
<1> QED BY <1>2 DEF ClientInv, OpenIsUsable, SoldIsDue, Fits

\* What is left to show of a step that voids nothing.
LEMMA QuietStep ==
  ASSUME OneClient, TypeOK, ClientInv, NEW r \in Request, UNCHANGED voids,
         ~Voiding(r) \/ req[r].pc \notin {"void", "voidRelated"},
         \A c \in Contract : Open(c)' => Fits(c)',
         ~(amount = "sold" /\ Deals # {} /\ \A c \in Deals : contracts[c].status = "VOIDED")',
         Informed(r)'
  PROVE  ClientInv'
<1>1. \A s \in Request, c \in Contract : voids'[s][c].at = "none"
  BY NoVoidUnderWay
<1>2. OpenIsUsable'
  BY DEF OpenIsUsable, Fits
<1>3. VoidsAreOwn'
  BY <1>1 DEF VoidsAreOwn
<1>4. SoldIsDue'
  BY DEF SoldIsDue
<1>5. \A s \in Request : Informed(s)'
  <2> SUFFICES ASSUME NEW s \in Request PROVE Informed(s)'
    OBVIOUS
  <2> s = r
    BY OnlyClient
  <2> QED OBVIOUS
<1> QED BY <1>2, <1>3, <1>4, <1>5 DEF ClientInv

LEMMA IdleInformed ==
  ASSUME TypeOK, NEW r \in Request, Finish(r) \/ (At(r, "idle") /\ UNCHANGED req)
  PROVE  Informed(r)'
  BY DEF TypeOK, Finish, Become, Idle, At, Informed

\* The same of a step that touches no contract, and the envelopes but to create or send one.
LEMMA HandlerStep ==
  ASSUME OneClient, TypeOK, ClientInv, NEW r \in Request, UNCHANGED <<contracts, amount, voids>>,
         ~Voiding(r) \/ req[r].pc \notin {"void", "voidRelated"},
         \A e \in Envelope : envelopes'[e].state = "voided" => envelopes[e].state = "voided",
         Informed(r)'
  PROVE  ClientInv'
<1>1. \A c \in Contract : Open(c)' => Fits(c)'
  <2> SUFFICES ASSUME NEW c \in Contract, Open(c) PROVE Fits(c)'
    BY DEF Open
  <2>1. Shown(c) /\ Usable(contracts[c].ref)
    BY NoVoidUnderWay DEF Fits
  <2>2. contracts[c].ref \in Envelope \cup {NoEnvelope}
    BY DEF TypeOK, ContractRecord, Reference
  <2> QED BY <2>1, <2>2 DEF Fits, Shown, Usable
<1>2. ~(amount = "sold" /\ Deals # {} /\ \A c \in Deals : contracts[c].status = "VOIDED")'
  BY NoVoidUnderWay DEF Deals, Existing
<1> QED BY <1>1, <1>2, QuietStep

\* The handler of r becomes rec, and contracts and envelopes stay.
LEMMA ArriveStep ==
  ASSUME OneClient, TypeOK, IInv, ClientInv, NEW r \in Request, Arrive(r) \/ Report(r),
         UNCHANGED <<contracts, envelopes, amount, voids>>
  PROVE  ClientInv'
<1>1. At(r, "idle")
  BY DEF Arrive, AddPrimary, AddGridServicesPacket, ValidateChangeOrder,
         ValidateNoCostChangeOrder, ValidateUpdate, StartSend, StartSendDraft, StartWetSign,
         StartVoid, Report, StartReport
<1>2. Informed(r)'
  <2>1. ASSUME NEW c \in Contract, ValidateChangeOrder(r, c) PROVE Informed(r)'
    <3>1. req'[r].pc = "addCO" /\ req'[r].c = c
      BY <2>1 DEF ValidateChangeOrder, Become, TypeOK, Idle
    <3> QED BY <2>1, <3>1 DEF ValidateChangeOrder, Informed, At, OfType, Existing
  <2>2. ASSUME NEW c \in Contract, ValidateNoCostChangeOrder(r, c) PROVE Informed(r)'
    <3>1. req'[r].pc = "addNCCO" /\ req'[r].c = c
      BY <2>2 DEF ValidateNoCostChangeOrder, Become, TypeOK, Idle
    <3> QED BY <2>2, <3>1 DEF ValidateNoCostChangeOrder, Informed, At, Existing
  <2>3. ASSUME NEW c \in Contract, NEW draft \in BOOLEAN,
               ValidateUpdate(r, c) \/ StartSend(r, c, draft) \/ StartWetSign(r, c)
        PROVE  Informed(r)'
    <3>1. ASSUME NEW pc \in {"updateCO", "callDraft", "callSend", "callWetSign"}, Load(r, c, pc)
          PROVE  req'[r].pc = pc /\ req'[r].c = c /\ req'[r].env = NoEnvelope
      <4>1. req'[r] = [Idle EXCEPT !.pc = pc, !.c = c, !.status = contracts[c].status]
        BY <3>1 DEF Load, Become, TypeOK
      <4> QED BY <4>1 DEF Idle
    <3>2. CASE ValidateUpdate(r, c)
      BY <3>1, <3>2 DEF ValidateUpdate, Informed, At, Existing
    <3>3. CASE StartSend(r, c, draft)
      <4>1. PICK pc \in {"callDraft", "callSend"} : Load(r, c, pc)
        BY <3>3 DEF StartSend
      <4>2. req'[r].pc = pc /\ req'[r].c = c /\ req'[r].env = NoEnvelope
        BY <3>1, <4>1
      <4>3. c \in Existing /\ contracts[c].status # "DRAFT"
        BY <3>3 DEF StartSend
      <4>4. Usable(req[r].env)'
        BY <4>2 DEF Usable
      <4> QED BY <4>2, <4>3, <4>4 DEF Informed, At, Existing
    <3>4. CASE StartWetSign(r, c)
      BY <3>1, <3>4 DEF StartWetSign, Informed, At, Existing
    <3> QED BY <2>3, <3>2, <3>3, <3>4
  <2>4. ASSUME NEW c \in Contract, StartSendDraft(r, c) PROVE Informed(r)'
    <3>1. req'[r].pc = "callSendDraft" /\ req'[r].c = c /\ c \in Existing
      BY <2>4 DEF StartSendDraft, Idle, Become, TypeOK
    <3>2. Usable(contracts[c].ref)
      BY <1>1, <2>4, NoVoidUnderWay DEF StartSendDraft, Open, At, Fits
    <3> QED BY <3>1, <3>2 DEF Informed, At, Existing, Usable
  <2>5. ASSUME NEW c \in Contract, NEW p \in Contract,
               \/ AddPrimary(r, c) \/ AddGridServicesPacket(r, c, p) \/ StartVoid(r, c)
        PROVE  FALSE
    <3>1. CASE StartVoid(r, c)
      <4>1. voids'[r][c].at = "envelope"
        BY <3>1 DEF StartVoid, VoidCall, TypeOK
      <4> QED BY <1>1, <4>1, NoVoidUnderWay DEF At
    <3>2. CASE AddPrimary(r, c) \/ AddGridServicesPacket(r, c, p)
      <4>1. contracts'[c].status = "INITIATED" /\ c \notin Existing
        BY <3>2 DEF AddPrimary, AddGridServicesPacket, Insert, TypeOK
      <4> QED BY <4>1 DEF Existing
    <3> QED BY <2>5, <3>1, <3>2
  <2>6. CASE Report(r)
    <3>1. PICK c \in Existing, e \in Envelope, pc \in {"saveCompleted", "saveReport"} :
            /\ contracts[c].ref = e
            /\ Become(r, [pc |-> pc, c |-> c, type |-> contracts[c].type,
                          status |-> contracts[c].status, env |-> e])
      BY <2>6 DEF Report, StartReport
    <3>2. /\ req'[r].pc = pc /\ req'[r].c = c /\ req'[r].type = contracts[c].type
          /\ req'[r].status = contracts[c].status /\ req'[r].env = contracts[c].ref
      BY <3>1 DEF Become, TypeOK
    <3> QED BY <3>1, <3>2 DEF Informed, At, Existing
  <2> QED BY <2>1, <2>2, <2>3, <2>4, <2>5, <2>6 DEF Arrive
<1> QED BY <1>1, <1>2, HandlerStep DEF At

\* A new contract is INITIATED: it is not open, and a new deal is not voided.
LEMMA InsertKeepsOpen ==
  ASSUME OneClient, TypeOK, ClientInv, NEW r \in Request,
         req[r].pc \notin {"void", "voidRelated"}, UNCHANGED <<envelopes, amount, voids>>,
         NEW c \in Contract, NEW t \in Type, NEW p, Insert(c, t, p)
  PROVE  /\ \A d \in Contract : Open(d)' => Fits(d)'
         /\ ~(amount = "sold" /\ Deals # {} /\ \A d \in Deals : contracts[d].status = "VOIDED")'
         /\ Existing' = Existing \cup {c}
         /\ contracts'[c].status = "INITIATED" /\ contracts'[c].type = t
<1>1. /\ contracts'[c].status = "INITIATED" /\ contracts'[c].type = t
      /\ c \notin Existing
      /\ \A d \in Contract : d # c => contracts'[d] = contracts[d]
  BY DEF Insert, TypeOK
<1>2. Existing' = Existing \cup {c}
  BY <1>1 DEF Existing
<1>3. \A d \in Contract : Open(d)' => Fits(d)'
  BY <1>1, NoVoidUnderWay DEF Open, Usable, Shown, Fits
<1>4. Deals' = IF t = "GRID_SERVICES_PACKET" THEN Deals ELSE Deals \cup {c}
  BY <1>1, <1>2 DEF Deals, Existing
<1>5. ~(amount = "sold" /\ Deals # {} /\ \A d \in Deals : contracts[d].status = "VOIDED")'
  <2>1. CASE t = "GRID_SERVICES_PACKET"
    <3>1. \A d \in Deals : contracts'[d] = contracts[d]
      BY <1>1 DEF Deals, Existing
    <3> QED BY <1>4, <2>1, <3>1, NoVoidUnderWay
  <2>2. CASE t # "GRID_SERVICES_PACKET"
    BY <1>1, <1>4, <2>2
  <2> QED BY <2>1, <2>2
<1> QED BY <1>1, <1>2, <1>3, <1>5

LEMMA AddStep ==
  ASSUME OneClient, TypeOK, ClientInv, NEW r \in Request, NEW c \in Contract,
         \/ AddPrimary(r, c) \/ (\E p \in Contract : AddGridServicesPacket(r, c, p))
         \/ AddChangeOrder(r, c)
  PROVE  ClientInv'
<1>1. CASE AddPrimary(r, c)
  <2>1. /\ \A d \in Contract : Open(d)' => Fits(d)'
        /\ ~(amount = "sold" /\ Deals # {} /\ \A d \in Deals : contracts[d].status = "VOIDED")'
        /\ Existing' = Existing \cup {c}
        /\ contracts'[c].status = "INITIATED" /\ contracts'[c].type = "PRIMARY_CONTRACT"
    BY <1>1, InsertKeepsOpen DEF AddPrimary, At, Type
  <2>2. req'[r].pc = "sync" /\ req'[r].c = c
    BY <1>1 DEF AddPrimary, Become, Idle, TypeOK
  <2>3. Informed(r)'
    BY <2>1, <2>2 DEF Informed, At, Deals
  <2> QED BY <1>1, <2>1, <2>3, QuietStep DEF AddPrimary, At
<1>2. ASSUME NEW p \in Contract, AddGridServicesPacket(r, c, p) PROVE ClientInv'
  <2>1. /\ \A d \in Contract : Open(d)' => Fits(d)'
        /\ ~(amount = "sold" /\ Deals # {} /\ \A d \in Deals : contracts[d].status = "VOIDED")'
    BY <1>2, InsertKeepsOpen DEF AddGridServicesPacket, At, Type
  <2>2. Informed(r)'
    BY <1>2, IdleInformed DEF AddGridServicesPacket
  <2> QED BY <1>2, <2>1, <2>2, QuietStep DEF AddGridServicesPacket, At
<1>3. CASE AddChangeOrder(r, c)
  <2>1. req[r].pc \in {"addCO", "addNCCO"} /\ UNCHANGED <<envelopes, amount, voids>>
    BY <1>3 DEF AddChangeOrder, At
  <2>2. PICK t \in Type : Insert(c, t, req[r].c)
    BY <1>3 DEF AddChangeOrder, Type
  <2>3. /\ \A d \in Contract : Open(d)' => Fits(d)'
        /\ ~(amount = "sold" /\ Deals # {} /\ \A d \in Deals : contracts[d].status = "VOIDED")'
    BY <2>1, <2>2, InsertKeepsOpen
  <2>4. Informed(r)'
    BY <1>3, IdleInformed DEF AddChangeOrder
  <2> QED BY <2>1, <2>3, <2>4, QuietStep
<1> QED BY <1>1, <1>2, <1>3

\* The amount is taken over while the contract it comes from is a deal that stands.
LEMMA SyncStep ==
  ASSUME OneClient, TypeOK, ClientInv, NEW r \in Request, SyncWithWav(r) PROVE ClientInv'
<1>1. req[r].c \in Deals /\ contracts[req[r].c].status # "VOIDED" /\ UNCHANGED contracts
  BY DEF SyncWithWav, ClientInv, Informed
<1>2. ~(amount = "sold" /\ Deals # {} /\ \A d \in Deals : contracts[d].status = "VOIDED")'
  BY <1>1 DEF Deals, Existing
<1>3. \A d \in Contract : Open(d)' => Fits(d)'
  BY NoVoidUnderWay DEF SyncWithWav, At, Open, Usable, Shown, Fits
<1> QED BY <1>2, <1>3, IdleInformed, QuietStep DEF SyncWithWav, At

\* A save leaves every other contract; its own is not voided by it, and fits if it is open.
LEMMA SaveStep ==
  ASSUME OneClient, TypeOK, ClientInv, NEW r \in Request,
         req[r].pc \notin {"idle", "void", "voidRelated"},
         Finish(r), UNCHANGED <<envelopes, amount, voids>>,
         NEW rec \in ContractRecord,
         contracts' = [contracts EXCEPT ![req[r].c] = rec],
         rec.type \in {contracts[req[r].c].type, "CHANGE_ORDER"},
         rec.status \in {contracts[req[r].c].status,
                         "INITIATED", "DRAFT", "IN_PROGRESS", "ERROR", "COMPLETED"},
         rec.type = "CHANGE_ORDER" /\ contracts[req[r].c].type # "CHANGE_ORDER"
           => rec.status = "INITIATED",
         rec.status \in {"DRAFT", "IN_PROGRESS"} => Usable(rec.ref),
         rec.status = "DRAFT" => rec.ref # NoEnvelope
  PROVE  ClientInv'
<1> DEFINE c == req[r].c
<1>1. c \in Existing
  BY DEF ClientInv, Informed, At
<1> HIDE DEF c
<1>2. c \in Contract /\ contracts'[c] = rec /\ rec.status # "absent"
  BY <1>1 DEF Existing, TypeOK, c
<1>3. \A d \in Contract : d # c => contracts'[d] = contracts[d]
  BY DEF TypeOK, c
<1>4. Existing' = Existing
  BY <1>1, <1>2, <1>3 DEF Existing
<1>5. \A d \in Contract : Open(d)' => Fits(d)'
  BY <1>2, <1>3, NoVoidUnderWay DEF Open, Usable, Shown, Fits
<1>6. ~(amount = "sold" /\ Deals # {} /\ \A d \in Deals : contracts[d].status = "VOIDED")'
  <2> SUFFICES ASSUME amount = "sold", Deals' # {}, \A d \in Deals' : contracts'[d].status = "VOIDED"
               PROVE  FALSE
    OBVIOUS
  <2>1. CASE c \in Deals'
    <3>1. rec.status = "VOIDED"
      BY <1>2, <2>1
    <3>2. contracts[c].status = "VOIDED" /\ rec.type = contracts[c].type
      BY <3>1 DEF c
    <3>3. Deals' = Deals
      BY <1>2, <1>3, <1>4, <3>2 DEF Deals, Existing
    <3>4. \A d \in Deals : contracts[d].status = "VOIDED"
      BY <1>3, <3>2, <3>3 DEF Deals, Existing
    <3> QED BY <3>3, <3>4, NoVoidUnderWay
  <2>2. CASE c \notin Deals'
    <3>1. rec.type = "GRID_SERVICES_PACKET"
      BY <1>1, <1>2, <1>4, <2>2 DEF Deals
    <3>2. contracts[c].type = "GRID_SERVICES_PACKET"
      BY <3>1 DEF c
    <3>3. Deals' = Deals
      BY <1>2, <1>3, <1>4, <3>1, <3>2 DEF Deals, Existing
    <3>4. \A d \in Deals : contracts[d].status = "VOIDED"
      BY <1>3, <2>2, <3>3 DEF Deals, Existing
    <3> QED BY <3>3, <3>4, NoVoidUnderWay
  <2> QED BY <2>1, <2>2
<1> QED BY <1>5, <1>6, IdleInformed, QuietStep

LEMMA SavesStep ==
  ASSUME OneClient, TypeOK, IInv, ClientInv, NEW r \in Request,
         \/ SaveDraft(r) \/ SaveSent(r) \/ SaveWetSigned(r)
         \/ SaveError(r) \/ SaveSentDraft(r) \/ UpdateChangeOrder(r) \/ SaveReport(r)
  PROVE  ClientInv'
<1> DEFINE c == req[r].c
<1>1. req[r].pc \notin {"idle", "void", "voidRelated"}
  BY DEF SaveDraft, SaveSent, SaveWetSigned, SaveError, SaveSentDraft, UpdateChangeOrder,
         SaveReport, At
<1>2. c \in Existing
  BY <1>1 DEF ClientInv, Informed, At
<1> HIDE DEF c
<1>3. c \in Contract /\ contracts[c] \in ContractRecord
  BY <1>2 DEF Existing, TypeOK
<1>4. Finish(r) /\ UNCHANGED <<envelopes, amount, voids>>
  BY DEF SaveDraft, SaveSent, SaveWetSigned, SaveError, SaveSentDraft, UpdateChangeOrder,
         SaveReport
<1>5. ASSUME NEW s \in {"DRAFT", "IN_PROGRESS"}, contracts' = SaveStatusAndRef(r, s),
             Usable(req[r].env),
             req[r].env # NoEnvelope \/ (s = "IN_PROGRESS" /\ contracts[c].status # "DRAFT")
      PROVE  ClientInv'
  <2> DEFINE new == IF s = req[r].status THEN contracts[c].status ELSE s
             rec == [contracts[c] EXCEPT !.status = new, !.ref = req[r].env]
  <2>1. contracts' = [contracts EXCEPT ![c] = rec]
    BY <1>5 DEF SaveStatusAndRef, c
  <2>2. new \in Status \cup {"absent"} /\ req[r].env \in Reference
    BY <1>3 DEF ContractRecord, Status, TypeOK, RequestRecord
  <2>3. rec \in ContractRecord
    BY <1>3, <2>2, ContractWriteType DEF Type
  <2>4. rec.type = contracts[c].type /\ rec.status = new /\ rec.ref = req[r].env
    BY <1>3 DEF ContractRecord
  <2> HIDE DEF rec
  <2> QED BY <1>1, <1>4, <1>5, <2>1, <2>3, <2>4, SaveStep DEF c
<1>6. ASSUME NEW s \in {"ERROR", "IN_PROGRESS"}, contracts' = SaveStatus(r, s),
             s = "IN_PROGRESS" => Usable(contracts[c].ref)
      PROVE  ClientInv'
  <2> DEFINE new == IF s = req[r].status THEN contracts[c].status ELSE s
             rec == [contracts[c] EXCEPT !.status = new]
  <2>1. contracts' = [contracts EXCEPT ![c] = rec]
    BY <1>6 DEF SaveStatus, c
  <2>2. rec \in ContractRecord
    BY <1>3 DEF ContractRecord, Status
  <2>3. rec.type = contracts[c].type /\ rec.status = new /\ rec.ref = contracts[c].ref
    BY <1>3 DEF ContractRecord
  <2>4. Open(c) => Usable(contracts[c].ref) /\ Shown(c)
    BY <1>1, <1>3, NoVoidUnderWay DEF Fits
  <2> HIDE DEF rec
  <2> QED BY <1>1, <1>4, <1>6, <2>1, <2>2, <2>3, <2>4, SaveStep DEF c, Open, Shown
<1>7. CASE UpdateChangeOrder(r)
  <2> DEFINE rec == [contracts[c] EXCEPT !.type = "CHANGE_ORDER", !.status = "INITIATED"]
  <2>1. req[r].status = "INITIATED"
    BY <1>7 DEF UpdateChangeOrder, IInv, ReadIsGuarded
  <2>2. contracts' = [contracts EXCEPT ![c] = rec]
    BY <1>7, <2>1 DEF UpdateChangeOrder, c
  <2>3. rec \in ContractRecord /\ rec.type = "CHANGE_ORDER" /\ rec.status = "INITIATED"
    BY <1>3 DEF ContractRecord, Type, Status
  <2> HIDE DEF rec
  <2> QED BY <1>1, <1>4, <2>2, <2>3, SaveStep DEF c
<1>8. CASE SaveDraft(r) \/ SaveSent(r) \/ SaveWetSigned(r)
  <2>1. /\ Usable(req[r].env)
        /\ req[r].env # NoEnvelope \/ (At(r, "saveSent") /\ contracts[c].status # "DRAFT")
    BY <1>8 DEF SaveDraft, SaveSent, SaveWetSigned, At, ClientInv, Informed, c
  <2> QED BY <1>5, <1>8, <2>1 DEF SaveDraft, SaveSent, SaveWetSigned, At
<1>9. CASE SaveError(r)
  BY <1>6, <1>9 DEF SaveError
<1>10. CASE SaveSentDraft(r)
  <2>1. Usable(contracts[c].ref)
    BY <1>10 DEF SaveSentDraft, At, ClientInv, Informed, c
  <2> QED BY <1>6, <1>10, <2>1 DEF SaveSentDraft
<1>11. CASE SaveReport(r)
  <2> DEFINE s == IF At(r, "saveCompleted") THEN "COMPLETED" ELSE req[r].status
             rec == [contracts[c] EXCEPT !.type = req[r].type, !.status = s, !.ref = req[r].env]
  <2>1. contracts' = [contracts EXCEPT ![c] = rec]
    BY <1>11 DEF SaveReport, WriteBack, c
  <2>2. /\ contracts[c].type = req[r].type /\ contracts[c].status = req[r].status
        /\ contracts[c].ref = req[r].env
    BY <1>11 DEF SaveReport, ClientInv, Informed, c
  <2>3. rec \in ContractRecord /\ rec.type = contracts[c].type /\ rec.ref = contracts[c].ref
        /\ rec.status \in {contracts[c].status, "COMPLETED"}
    BY <1>3, <2>2 DEF ContractRecord, Status
  <2>4. Open(c) => Usable(contracts[c].ref) /\ Shown(c)
    BY <1>1, <1>3, NoVoidUnderWay DEF Fits
  <2> HIDE DEF rec
  <2> QED BY <1>1, <1>4, <2>1, <2>3, <2>4, SaveStep DEF c, Open, Shown
<1> QED BY <1>7, <1>8, <1>9, <1>10, <1>11

\* Nothing but voidEnvelope voids an envelope; the calls that send leave usable ones.
LEMMA CallsStep ==
  ASSUME OneClient, TypeOK, ClientInv, NEW r \in Request,
         CallDocusign(r) \/ CallSendDraft(r) \/ CallWetSign(r)
  PROVE  ClientInv'
<1>1. /\ req[r].pc \in {"callDraft", "callSend", "callSendDraft", "callWetSign"}
      /\ UNCHANGED <<contracts, amount, voids>>
  BY DEF CallDocusign, CallSendDraft, CallWetSign, At
<1>2. \A e \in Envelope : envelopes'[e].state = "voided" => envelopes[e].state = "voided"
  <2>1. ASSUME NEW e \in Envelope, NEW s \in {"created", "sent"}, NEW c, NewEnvelope(e, c, s)
        PROVE  \A d \in Envelope : envelopes'[d].state = "voided" => envelopes[d].state = "voided"
    BY <2>1 DEF NewEnvelope, TypeOK
  <2>2. ASSUME req[r].env \in Envelope,
               envelopes' = [envelopes EXCEPT ![req[r].env].state = "sent"]
        PROVE  \A d \in Envelope : envelopes'[d].state = "voided" => envelopes[d].state = "voided"
    BY <2>2 DEF TypeOK, EnvelopeRecord
  <2> QED BY <2>1, <2>2 DEF CallDocusign, CallSendDraft, CallWetSign
<1>3. req[r].c \in Existing
  BY <1>1 DEF ClientInv, Informed, At
<1>4. ASSUME req'[r].c = req[r].c, req'[r].pc \in {"saveDraft", "saveSent", "saveWetSigned"},
             Usable(req[r].env)',
             req'[r].env # NoEnvelope \/ req'[r].pc = "saveSent",
             req'[r].pc = "saveSent" => contracts[req[r].c].status # "DRAFT"
      PROVE  Informed(r)'
  BY <1>1, <1>3, <1>4 DEF Informed, At, Existing
<1>5. ASSUME NEW e \in Envelope, NEW s \in {"created", "sent"}, NewEnvelope(e, req[r].c, s),
             NEW pc \in {"saveDraft", "saveSent", "saveWetSigned"},
             Become(r, [req[r] EXCEPT !.env = e, !.pc = pc]),
             pc = "saveSent" => contracts[req[r].c].status # "DRAFT"
      PROVE  Informed(r)'
  <2>1. req'[r].c = req[r].c /\ req'[r].pc = pc /\ req'[r].env = e
    BY <1>5 DEF Become, TypeOK, RequestRecord
  <2>2. envelopes'[e].state = s
    BY <1>5 DEF NewEnvelope, TypeOK
  <2>3. Usable(req[r].env)'
    BY <2>1, <2>2, ContractsAssumption DEF Usable
  <2> QED BY <1>4, <1>5, <2>1, <2>3, ContractsAssumption
<1>6. ASSUME Finish(r) PROVE Informed(r)'
  BY <1>6, IdleInformed
<1>7. ASSUME CallDocusign(r) PROVE Informed(r)'
  <2>1. CASE Goto(r, "saveError")
    <3>1. req'[r].c = req[r].c /\ req'[r].pc = "saveError"
      BY <2>1 DEF Goto, TypeOK, RequestRecord
    <3> QED BY <1>1, <1>3, <3>1 DEF Informed, At, Existing
  <2>2. At(r, "callSend") => contracts[req[r].c].status # "DRAFT"
    BY DEF ClientInv, Informed, At
  <2>3. CASE At(r, "callSend") /\ Goto(r, "saveSent") /\ UNCHANGED envelopes
    <3>1. req'[r].c = req[r].c /\ req'[r].pc = "saveSent" /\ req'[r].env = req[r].env
      BY <2>3 DEF Goto, TypeOK, RequestRecord
    <3>2. Usable(req[r].env)'
      BY <2>3, <3>1 DEF ClientInv, Informed, Usable, At
    <3> QED BY <1>4, <2>2, <2>3, <3>1, <3>2
  <2> QED BY <1>5, <1>6, <1>7, <2>1, <2>2, <2>3 DEF CallDocusign, At
<1>8. ASSUME CallWetSign(r) PROVE Informed(r)'
  <2>1. ASSUME NEW e \in Envelope, NewEnvelope(e, req[r].c, "sent"),
               Become(r, [req[r] EXCEPT !.pc = "saveWetSigned", !.env = e])
        PROVE  Informed(r)'
    <3>1. [req[r] EXCEPT !.pc = "saveWetSigned", !.env = e]
            = [req[r] EXCEPT !.env = e, !.pc = "saveWetSigned"]
      BY DEF TypeOK, RequestRecord
    <3> QED BY <1>5, <2>1, <3>1
  <2> QED BY <1>6, <1>8, <2>1 DEF CallWetSign
<1>9. ASSUME CallSendDraft(r) PROVE Informed(r)'
  <2>1. CASE Goto(r, "saveSentDraft")
    <3>1. req'[r].c = req[r].c /\ req'[r].pc = "saveSentDraft"
      BY <2>1 DEF Goto, TypeOK, RequestRecord
    <3>2. Usable(contracts[req[r].c].ref)
      BY <1>9 DEF CallSendDraft, At, ClientInv, Informed
    <3>3. contracts[req[r].c].ref \in Envelope \cup {NoEnvelope}
      BY <1>3 DEF TypeOK, ContractRecord, Reference, Existing
    <3>4. Usable(contracts[req[r].c].ref)'
      BY <1>1, <1>2, <3>1, <3>2, <3>3 DEF Usable
    <3> QED BY <1>1, <1>3, <3>1, <3>4 DEF Informed, At, Existing
  <2> QED BY <1>6, <1>9, <2>1 DEF CallSendDraft
<1>10. Informed(r)'
  BY <1>7, <1>8, <1>9
<1> QED BY <1>1, <1>2, <1>10, HandlerStep

\* A call of voidContract refers to the envelope of its own contract.
LEMMA VoidCallIsOwn ==
  ASSUME TypeOK, IInv, NEW c \in Contract, VoidCall(c).ref # NoEnvelope
  PROVE  envelopes[VoidCall(c).ref].of = c /\ envelopes[VoidCall(c).ref].state # "none"
  BY DEF VoidCall, IInv, ReferenceIsOwn

LEMMA StartVoidStep ==
  ASSUME OneClient, TypeOK, IInv, ClientInv, NEW r \in Request, NEW c \in Contract,
         StartVoid(r, c)
  PROVE  ClientInv'
<1>1. /\ req'[r].pc = "void" /\ req'[r].c = c /\ c \in Existing
      /\ UNCHANGED <<contracts, envelopes, amount>>
  BY DEF StartVoid, Become, Idle, TypeOK
<1>2. voids'[r][c] = VoidCall(c) /\ \A d \in Contract : d # c => voids'[r][d] = voids[r][d]
  BY DEF StartVoid, TypeOK
<1>3. req[r].pc \notin {"void", "voidRelated"}
  BY DEF StartVoid, At
<1>4. OpenIsUsable'
  BY <1>1, <1>3, NoVoidUnderWay DEF OpenIsUsable, Open, Usable, Shown, Fits
<1>5. VoidsAreOwn'
  <2> SUFFICES ASSUME NEW d \in Contract, voids'[r][d].at # "none"
               PROVE  /\ d \in Existing
                      /\ voids'[r][d].at = "envelope" /\ voids'[r][d].ref # NoEnvelope =>
                           /\ envelopes[voids'[r][d].ref].of = d
                           /\ envelopes[voids'[r][d].ref].state # "none"
    BY <1>1, OnlyClient DEF VoidsAreOwn, Existing
  <2>1. d = c
    BY <1>2, <1>3, NoVoidUnderWay
  <2> QED BY <1>1, <1>2, <2>1, VoidCallIsOwn
<1>6. SoldIsDue'
  BY <1>1, <1>3, NoVoidUnderWay DEF SoldIsDue, Deals, Existing
<1>7. Informed(r)'
  BY <1>1 DEF Informed, At, Existing
<1>8. \A s \in Request : Informed(s)'
  BY <1>7, OnlyClient
<1> QED BY <1>4, <1>5, <1>6, <1>8 DEF ClientInv

\* What a step of voidContract of c leaves to the other contracts.
LEMMA VoidFacts ==
  ASSUME OneClient, TypeOK, ClientInv, NEW r \in Request, NEW c \in Contract,
         voids[r][c].at # "none",
         NEW v \in VoidRecord, voids' = [voids EXCEPT ![r][c] = v]
  PROVE  /\ req[r].pc \in {"void", "voidRelated"}
         /\ voids'[r][c] = v
         /\ \A d \in Contract : d # c => voids'[r][d] = voids[r][d]
  BY DEF ClientInv, VoidsAreOwn, TypeOK

\* While it voids, the handler relies only on the contracts being there and on the calls.
LEMMA VoidingInformed ==
  ASSUME OneClient, NEW r \in Request, req[r].pc \in {"void", "voidRelated"}, UNCHANGED req,
         req[r].c \in Existing',
         At(r, "voidRelated") =>
           \A d \in ChangeOrders' : contracts'[d].primary = req[r].c =>
             contracts'[d].status = "VOIDED" \/ voids'[r][d].at \in {"envelope", "mark"}
  PROVE  \A s \in Request : Informed(s)'
<1>1. Informed(r)'
  BY DEF Informed, At
<1> QED BY <1>1, OnlyClient

LEMMA VoidEnvelopeStep ==
  ASSUME OneClient, TypeOK, IInv, ClientInv, NEW r \in Request, NEW c \in Contract,
         VoidEnvelope(r, c)
  PROVE  ClientInv'
<1> DEFINE v == [voids[r][c] EXCEPT !.at = "mark"]
<1>1. v \in VoidRecord /\ v.at = "mark" /\ voids[r][c].at = "envelope"
  <2>1. voids[r][c] \in VoidRecord
    BY DEF TypeOK
  <2> QED BY <2>1 DEF VoidEnvelope, VoidRecord
<1>2. voids' = [voids EXCEPT ![r][c] = v] /\ UNCHANGED <<contracts, amount, req>>
  BY DEF VoidEnvelope, TypeOK
<1> HIDE DEF v
<1>3. /\ req[r].pc \in {"void", "voidRelated"} /\ voids'[r][c].at = "mark"
      /\ \A d \in Contract : d # c => voids'[r][d] = voids[r][d]
  BY <1>1, <1>2, VoidFacts
<1>4. ASSUME NEW e \in Envelope, envelopes[e].of # c PROVE envelopes'[e] = envelopes[e]
  <2>1. voids[r][c].ref \in Envelope => envelopes[voids[r][c].ref].of = c
    BY <1>1, ContractsAssumption DEF ClientInv, VoidsAreOwn
  <2> QED BY <1>4, <2>1 DEF VoidEnvelope, TypeOK
<1>5. ASSUME NEW e \in Envelope, envelopes[e].state # "none"
      PROVE  envelopes'[e].of = envelopes[e].of /\ envelopes'[e].state # "none"
  <2>1. CASE UNCHANGED envelopes
    BY <1>5, <2>1
  <2>2. CASE /\ voids[r][c].ref \in Envelope
             /\ envelopes' = [envelopes EXCEPT ![voids[r][c].ref].state = "voided"]
    BY <1>5, <2>2 DEF TypeOK, EnvelopeRecord
  <2> QED BY <2>1, <2>2 DEF VoidEnvelope
<1>6. OpenIsUsable'
  <2> SUFFICES ASSUME NEW d \in Contract, Open(d)
               PROVE  /\ Shown(d)
                      /\ Usable(contracts[d].ref)' \/ voids'[r][d].at = "mark"
    BY <1>2 DEF OpenIsUsable, Open, Shown
  <2>0. Shown(d)
    BY DEF ClientInv, OpenIsUsable
  <2>1. contracts[d].ref \in Envelope \cup {NoEnvelope}
    BY DEF TypeOK, ContractRecord, Reference
  <2>2. CASE d = c
    BY <1>3, <2>0, <2>2
  <2>4. CASE contracts[d].ref = NoEnvelope
    BY <1>2, <2>0, <2>4 DEF Usable
  <2>3. CASE d # c /\ contracts[d].ref # NoEnvelope
    <3>1. envelopes[contracts[d].ref].of = d
      BY <2>1, <2>3 DEF IInv, ReferenceIsOwn
    <3>2. envelopes'[contracts[d].ref] = envelopes[contracts[d].ref]
      BY <1>4, <2>1, <2>3, <3>1
    <3>3. Usable(contracts[d].ref) \/ voids[r][d].at = "mark"
      BY OnlyClient DEF ClientInv, OpenIsUsable
    <3> QED BY <1>2, <1>3, <2>0, <2>1, <2>3, <3>2, <3>3 DEF Usable
  <2> QED BY <2>2, <2>3, <2>4
<1>7. VoidsAreOwn'
  <2>0. \A d \in Contract : voids'[r][d].at # "none" => d \in Existing'
    BY <1>1, <1>2, <1>3 DEF ClientInv, VoidsAreOwn, Existing
  <2> SUFFICES ASSUME NEW d \in Contract, voids'[r][d].at = "envelope",
                      voids'[r][d].ref # NoEnvelope
               PROVE  /\ envelopes'[voids'[r][d].ref].of = d
                      /\ envelopes'[voids'[r][d].ref].state # "none"
    BY <1>2, <1>3, <2>0, OnlyClient DEF VoidsAreOwn
  <2>1. d # c /\ voids'[r][d] = voids[r][d]
    BY <1>3
  <2>2. voids[r][d].ref \in Envelope
    BY <2>1 DEF TypeOK, VoidRecord, Reference
  <2>3. envelopes[voids[r][d].ref].of = d /\ envelopes[voids[r][d].ref].state # "none"
    BY <2>1 DEF ClientInv, VoidsAreOwn
  <2> QED BY <1>5, <2>1, <2>2, <2>3
<1>8. SoldIsDue'
  <2> SUFFICES ASSUME amount = "sold", Deals # {}, \A d \in Deals : contracts[d].status = "VOIDED"
               PROVE  \E d \in Contract : voids'[r][d].at \in {"count", "zero"}
    BY <1>2 DEF SoldIsDue, Deals, Existing
  <2>1. PICK s \in Request, d \in Contract : voids[s][d].at \in {"count", "zero"}
    BY DEF ClientInv, SoldIsDue
  <2>2. s = r /\ d # c
    BY <1>1, <2>1, OnlyClient
  <2> QED BY <1>3, <2>1, <2>2
<1>9. \A s \in Request : Informed(s)'
  <2>1. Informed(r)
    BY DEF ClientInv
  <2>2. req[r].c \in Existing'
    BY <1>2, <1>3, <2>1 DEF Informed, At, Existing
  <2> QED BY <1>1, <1>2, <1>3, <2>1, <2>2, VoidingInformed
          DEF Informed, ChangeOrders, OfType, Existing, At
<1> QED BY <1>6, <1>7, <1>8, <1>9 DEF ClientInv

LEMMA MarkVoidedStep ==
  ASSUME OneClient, TypeOK, ClientInv, NEW r \in Request, NEW c \in Contract, MarkVoided(r, c)
  PROVE  ClientInv'
<1> DEFINE v == [voids[r][c] EXCEPT !.at = "count"]
<1>1. v \in VoidRecord /\ v.at = "count" /\ voids[r][c].at = "mark"
  <2>1. voids[r][c] \in VoidRecord
    BY DEF TypeOK
  <2> QED BY <2>1 DEF MarkVoided, VoidRecord
<1>2. voids' = [voids EXCEPT ![r][c] = v] /\ UNCHANGED <<envelopes, amount, req>>
  BY DEF MarkVoided, TypeOK
<1> HIDE DEF v
<1>3. /\ req[r].pc \in {"void", "voidRelated"} /\ voids'[r][c].at = "count"
      /\ \A d \in Contract : d # c => voids'[r][d] = voids[r][d]
  BY <1>1, <1>2, VoidFacts
<1>4. /\ contracts'[c].status = "VOIDED" /\ contracts'[c].type = contracts[c].type
      /\ \A d \in Contract : d # c => contracts'[d] = contracts[d]
      /\ \A d \in Contract : contracts'[d].primary = contracts[d].primary
  BY DEF MarkVoided, TypeOK, ContractRecord
<1>5. c \in Existing
  BY <1>1 DEF ClientInv, VoidsAreOwn
<1>6. Existing' = Existing
  BY <1>4, <1>5 DEF Existing
<1>7. OpenIsUsable'
  <2> SUFFICES ASSUME NEW d \in Contract, Open(d)'
               PROVE  /\ Shown(d)'
                      /\ Usable(contracts[d].ref)' \/ voids'[r][d].at = "mark"
    BY DEF OpenIsUsable
  <2>1. d # c /\ contracts'[d] = contracts[d]
    BY <1>4 DEF Open
  <2>2. /\ Shown(d)
        /\ Usable(contracts[d].ref) \/ voids[r][d].at = "mark"
    BY <2>1, OnlyClient DEF Open, ClientInv, OpenIsUsable
  <2> QED BY <1>2, <1>3, <2>1, <2>2 DEF Usable, Shown
<1>8. VoidsAreOwn'
  <2> SUFFICES ASSUME NEW d \in Contract, voids'[r][d].at # "none"
               PROVE  /\ d \in Existing
                      /\ voids'[r][d].at = "envelope" /\ voids'[r][d].ref # NoEnvelope =>
                           /\ envelopes[voids'[r][d].ref].of = d
                           /\ envelopes[voids'[r][d].ref].state # "none"
    BY <1>2, <1>3, <1>6, OnlyClient DEF VoidsAreOwn
  <2> QED BY <1>3, <1>5 DEF ClientInv, VoidsAreOwn
<1>9. SoldIsDue'
  BY <1>3 DEF SoldIsDue
<1>10. \A s \in Request : Informed(s)'
  <2>1. Informed(r)
    BY DEF ClientInv
  <2>2. req[r].c \in Existing'
    BY <1>3, <1>6, <2>1 DEF Informed, At
  <2>3. ChangeOrders' = ChangeOrders
    BY <1>4, <1>6 DEF ChangeOrders, OfType, Existing
  <2>4. ASSUME At(r, "voidRelated"), NEW d \in ChangeOrders, contracts'[d].primary = req[r].c
        PROVE  contracts'[d].status = "VOIDED" \/ voids'[r][d].at \in {"envelope", "mark"}
    <3>1. d \in Contract
      BY DEF ChangeOrders, OfType, Existing
    <3> QED BY <1>3, <1>4, <2>1, <2>4, <3>1 DEF Informed
  <2> QED BY <1>2, <1>3, <2>2, <2>3, <2>4, VoidingInformed
<1> QED BY <1>7, <1>8, <1>9, <1>10 DEF ClientInv

\* The last steps of voidContract: when nothing is finalized the amount is taken away.
LEMMA CountStep ==
  ASSUME OneClient, TypeOK, ClientInv, NEW r \in Request, NEW c \in Contract,
         CountFinalized(r, c) \/ ZeroAmount(r, c)
  PROVE  ClientInv'
<1>1. /\ voids[r][c].at \in {"count", "zero"} /\ UNCHANGED <<contracts, envelopes, req>>
      /\ UNCHANGED amount \/ amount' = "zero"
  BY DEF CountFinalized, ZeroAmount
<1>2. PICK v \in VoidRecord : voids' = [voids EXCEPT ![r][c] = v] /\ v.at \in {"zero", "none"}
  <2>1. NoVoid \in VoidRecord /\ [NoVoid EXCEPT !.at = "zero"] \in VoidRecord
    BY DEF NoVoid, VoidRecord, Reference
  <2>2. NoVoid.at = "none" /\ [NoVoid EXCEPT !.at = "zero"].at = "zero"
    BY DEF NoVoid
  <2> QED BY <2>1, <2>2 DEF CountFinalized, ZeroAmount
<1>3. /\ req[r].pc \in {"void", "voidRelated"} /\ voids'[r][c] = v
      /\ \A d \in Contract : d # c => voids'[r][d] = voids[r][d]
  BY <1>1, <1>2, VoidFacts
<1>4. Existing' = Existing /\ Deals' = Deals /\ ChangeOrders' = ChangeOrders
  BY <1>1 DEF Existing, Deals, ChangeOrders, OfType
<1>5. OpenIsUsable'
  <2> SUFFICES ASSUME NEW d \in Contract, Open(d)
               PROVE  /\ Shown(d)
                      /\ Usable(contracts[d].ref) \/ voids'[r][d].at = "mark"
    BY <1>1 DEF OpenIsUsable, Open, Usable, Shown
  <2>1. /\ Shown(d)
        /\ Usable(contracts[d].ref) \/ voids[r][d].at = "mark"
    BY OnlyClient DEF ClientInv, OpenIsUsable
  <2> QED BY <1>1, <1>3, <2>1
<1>6. VoidsAreOwn'
  <2> SUFFICES ASSUME NEW d \in Contract, voids'[r][d].at # "none"
               PROVE  /\ d \in Existing
                      /\ voids'[r][d].at = "envelope" /\ voids'[r][d].ref # NoEnvelope =>
                           /\ envelopes[voids'[r][d].ref].of = d
                           /\ envelopes[voids'[r][d].ref].state # "none"
    BY <1>1, <1>3, <1>4, OnlyClient DEF VoidsAreOwn
  <2>1. voids[r][d].at # "none"
    BY <1>1, <1>3
  <2> QED BY <1>2, <1>3, <2>1 DEF ClientInv, VoidsAreOwn
<1>7. SoldIsDue'
  <2> SUFFICES ASSUME amount' = "sold", Deals # {}, \A d \in Deals : contracts[d].status = "VOIDED"
               PROVE  \E d \in Contract : voids'[r][d].at \in {"count", "zero"}
    BY <1>1, <1>4 DEF SoldIsDue
  <2>1. CountFinalized(r, c)
    BY DEF ZeroAmount
  <2>2. Finalized = {}
    BY DEF Finalized, Deals
  <2>3. voids' = [voids EXCEPT ![r][c] = [NoVoid EXCEPT !.at = "zero"]]
    BY <2>1, <2>2 DEF CountFinalized
  <2>4. voids'[r][c].at = "zero"
    BY <2>3 DEF TypeOK, NoVoid
  <2> QED BY <2>4
<1>8. \A s \in Request : Informed(s)'
  <2>1. Informed(r)
    BY DEF ClientInv
  <2>2. req[r].c \in Existing'
    BY <1>3, <1>4, <2>1 DEF Informed, At
  <2>3. ASSUME At(r, "voidRelated"), NEW d \in ChangeOrders, contracts[d].primary = req[r].c
        PROVE  contracts[d].status = "VOIDED" \/ voids'[r][d].at \in {"envelope", "mark"}
    <3>1. d \in Contract
      BY DEF ChangeOrders, OfType, Existing
    <3> QED BY <1>1, <1>3, <2>1, <2>3, <3>1 DEF Informed
  <2> QED BY <1>1, <1>3, <1>4, <2>2, <2>3, VoidingInformed
<1> QED BY <1>5, <1>6, <1>7, <1>8 DEF ClientInv

\* The change orders are read once the primary contract is voided; none is added since.
LEMMA VoidRelatedStep ==
  ASSUME OneClient, TypeOK, IInv, ClientInv, NEW r \in Request, VoidRelated(r)
  PROVE  ClientInv'
<1>1. /\ req[r].pc = "void" /\ ~Voiding(r) /\ UNCHANGED <<contracts, envelopes, amount>>
      /\ req'[r].pc = "voidRelated" /\ req'[r].c = req[r].c
  BY DEF VoidRelated, At, Goto, TypeOK, RequestRecord
<1>2. \A c \in Contract : voids'[r][c] = IF c \in RelatedTo(req[r].c) THEN VoidCall(c) ELSE NoVoid
  BY DEF VoidRelated, TypeOK
<1>3. OpenIsUsable'
  BY <1>1, NoVoidUnderWay DEF OpenIsUsable, Open, Usable, Shown, Fits
<1>4. VoidsAreOwn'
  <2> SUFFICES ASSUME NEW c \in Contract, voids'[r][c].at # "none"
               PROVE  /\ c \in Existing
                      /\ voids'[r][c].at = "envelope" /\ voids'[r][c].ref # NoEnvelope =>
                           /\ envelopes[voids'[r][c].ref].of = c
                           /\ envelopes[voids'[r][c].ref].state # "none"
    BY <1>1, OnlyClient DEF VoidsAreOwn, Existing
  <2>1. c \in RelatedTo(req[r].c)
    BY <1>2 DEF NoVoid
  <2> QED BY <1>2, <2>1, VoidCallIsOwn DEF RelatedTo
<1>5. SoldIsDue'
  BY <1>1, NoVoidUnderWay DEF SoldIsDue, Deals, Existing
<1>6. \A s \in Request : Informed(s)'
  <2>1. req[r].c \in Existing
    BY <1>1 DEF ClientInv, Informed, At
  <2>2. ASSUME NEW c \in ChangeOrders, contracts[c].primary = req[r].c
        PROVE  voids'[r][c].at = "envelope"
    <3>1. c \in RelatedTo(req[r].c) /\ c \in Contract
      BY <2>2 DEF ChangeOrders, OfType, RelatedTo, Existing
    <3>2. voids'[r][c] = VoidCall(c)
      BY <1>2, <3>1
    <3>3. VoidCall(c).at = "envelope"
      BY DEF VoidCall
    <3> QED BY <3>2, <3>3
  <2>3. Existing' = Existing /\ ChangeOrders' = ChangeOrders
    BY <1>1 DEF Existing, ChangeOrders, OfType
  <2>4. Informed(r)'
    BY <1>1, <2>1, <2>2, <2>3 DEF Informed, At
  <2> QED BY <2>4, OnlyClient
<1> QED BY <1>3, <1>4, <1>5, <1>6 DEF ClientInv

LEMMA AnswerVoidStep ==
  ASSUME OneClient, TypeOK, ClientInv, NEW r \in Request, AnswerVoid(r) PROVE ClientInv'
  BY IdleInformed, HandlerStep DEF AnswerVoid

\* A signature touches no contract and voids nothing.
LEMMA DocusignStep ==
  ASSUME OneClient, TypeOK, ClientInv, Docusign PROVE ClientInv'
<1>1. UNCHANGED <<contracts, amount, req, voids>>
  BY DEF Docusign, SignEnvelope
<1>2. ASSUME NEW e \in Envelope
      PROVE  /\ envelopes'[e].of = envelopes[e].of
             /\ envelopes[e].state # "none" => envelopes'[e].state # "none"
             /\ envelopes[e].state # "voided" => envelopes'[e].state # "voided"
  <2>1. PICK d \in Envelope :
          envelopes[d].state # "none" /\ envelopes' = [envelopes EXCEPT ![d].state = "signed"]
    BY DEF Docusign, SignEnvelope
  <2> QED BY <2>1 DEF TypeOK, EnvelopeRecord
<1>3. Existing' = Existing /\ Deals' = Deals /\ ChangeOrders' = ChangeOrders
  BY <1>1 DEF Existing, Deals, ChangeOrders, OfType
<1>4. ASSUME NEW e \in Reference, Usable(e) PROVE Usable(e)'
  BY <1>2, <1>4 DEF Usable, Reference
<1>5. OpenIsUsable'
  <2> SUFFICES ASSUME NEW c \in Contract, Open(c)
               PROVE  /\ Shown(c)
                      /\ \/ Usable(contracts[c].ref)'
                         \/ \E r \in Request : voids[r][c].at = "mark"
    BY <1>1 DEF OpenIsUsable, Open, Shown
  <2>1. contracts[c].ref \in Reference
    BY DEF TypeOK, ContractRecord
  <2>2. Usable(contracts[c].ref) => Usable(contracts[c].ref)'
    BY <1>1, <1>4, <2>1
  <2> QED BY <2>2 DEF ClientInv, OpenIsUsable
<1>6. VoidsAreOwn'
  <2> SUFFICES ASSUME NEW r \in Request, NEW c \in Contract, voids[r][c].at # "none"
               PROVE  /\ c \in Existing
                      /\ req[r].pc \in {"void", "voidRelated"}
                      /\ voids[r][c].at = "envelope" /\ voids[r][c].ref # NoEnvelope =>
                           /\ envelopes'[voids[r][c].ref].of = c
                           /\ envelopes'[voids[r][c].ref].state # "none"
    BY <1>1, <1>3 DEF VoidsAreOwn
  <2>1. voids[r][c].ref \in Reference
    BY DEF TypeOK, VoidRecord
  <2> QED BY <1>2, <2>1 DEF ClientInv, VoidsAreOwn, Reference
<1>7. SoldIsDue'
  BY <1>1, <1>3 DEF ClientInv, SoldIsDue
<1>8. ASSUME NEW r \in Request PROVE Informed(r)'
  <2>1. Informed(r)
    BY DEF ClientInv
  <2>2. Usable(req[r].env) => Usable(req[r].env)'
    <3>1. req[r].env \in Reference
      BY DEF TypeOK, RequestRecord
    <3> QED BY <1>1, <1>4, <3>1
  <2>3. ~At(r, "idle") /\ Usable(contracts[req[r].c].ref) => Usable(contracts[req[r].c].ref)'
    <3>1. ~At(r, "idle") => contracts[req[r].c].ref \in Reference
      BY <2>1 DEF Informed, Existing, TypeOK, ContractRecord
    <3> QED BY <1>1, <1>4, <3>1
  <2> QED BY <1>1, <1>3, <2>1, <2>2, <2>3 DEF Informed, At
<1> QED BY <1>5, <1>6, <1>7, <1>8 DEF ClientInv

LEMMA ClientStep ==
  ASSUME OneClient, TypeOK, IInv, ClientInv, [Next]_vars PROVE ClientInv'
<1>1. ASSUME NEW r \in Request, Arrive(r) PROVE ClientInv'
  <2>1. ASSUME NEW c \in Contract,
               AddPrimary(r, c) \/ (\E p \in Contract : AddGridServicesPacket(r, c, p))
        PROVE  ClientInv'
    BY <2>1, AddStep
  <2>2. ASSUME NEW c \in Contract, StartVoid(r, c) PROVE ClientInv'
    BY <2>2, StartVoidStep
  <2>3. ASSUME NEW c \in Contract, NEW draft \in BOOLEAN,
               \/ ValidateChangeOrder(r, c) \/ ValidateNoCostChangeOrder(r, c)
               \/ ValidateUpdate(r, c) \/ StartSend(r, c, draft) \/ StartSendDraft(r, c)
               \/ StartWetSign(r, c)
        PROVE  ClientInv'
    <3>1. UNCHANGED <<contracts, envelopes, amount, voids>>
      BY <2>3 DEF ValidateChangeOrder, ValidateNoCostChangeOrder, ValidateUpdate,
           StartSend, StartSendDraft, StartWetSign
    <3> QED BY <1>1, <3>1, ArriveStep
  <2> QED BY <1>1, <2>1, <2>2, <2>3 DEF Arrive
<1>5. ASSUME NEW r \in Request, Report(r) PROVE ClientInv'
  <2>1. UNCHANGED <<contracts, envelopes, amount, voids>>
    BY <1>5 DEF Report, StartReport
  <2> QED BY <1>5, <2>1, ArriveStep
<1>2. ASSUME NEW r \in Request, Continue(r) PROVE ClientInv'
  <2>1. ASSUME NEW c \in Contract,
               \/ AddChangeOrder(r, c) \/ VoidEnvelope(r, c) \/ MarkVoided(r, c)
               \/ CountFinalized(r, c) \/ ZeroAmount(r, c)
        PROVE  ClientInv'
    BY <2>1, AddStep, VoidEnvelopeStep, MarkVoidedStep, CountStep
  <2> QED BY <1>2, <2>1, SyncStep, SavesStep, CallsStep, VoidRelatedStep, AnswerVoidStep
          DEF Continue
<1>3. ~Crash
  BY DEF Crash, OneClient
<1>4. CASE UNCHANGED vars
  <2>1. Existing' = Existing /\ Deals' = Deals /\ ChangeOrders' = ChangeOrders
    BY <1>4 DEF vars, Existing, Deals, ChangeOrders, OfType
  <2>2. OpenIsUsable' /\ VoidsAreOwn'
    BY <1>4, <2>1 DEF vars, ClientInv, OpenIsUsable, VoidsAreOwn, Open, Usable, Shown
  <2>3. SoldIsDue'
    BY <1>4, <2>1 DEF vars, ClientInv, SoldIsDue
  <2>4. \A r \in Request : Informed(r)'
    BY <1>4, <2>1 DEF vars, ClientInv, Informed, At, Usable
  <2> QED BY <2>2, <2>3, <2>4 DEF ClientInv
<1> QED BY <1>1, <1>2, <1>3, <1>4, <1>5, DocusignStep DEF Next

LEMMA ClientInit == ASSUME Init PROVE ClientInv
<1>1. Existing = {}
  BY DEF Init, Existing, Absent
<1>2. \A c \in Contract : ~Open(c)
  BY DEF Init, Open, Absent
<1>3. \A r \in Request, c \in Contract : voids[r][c].at = "none"
  BY DEF Init, NoVoid
<1>4. \A r \in Request : Informed(r)
  BY DEF Init, Informed, At, Idle
<1> QED BY <1>1, <1>2, <1>3, <1>4 DEF ClientInv, OpenIsUsable, VoidsAreOwn, SoldIsDue, Deals

LEMMA ClientInvariance == ASSUME OneClient PROVE Spec => [](TypeOK /\ IInv /\ ClientInv)
<1>1. Init => TypeOK /\ IInv /\ ClientInv
  BY InvInit, ClientInit
<1>2. TypeOK /\ IInv /\ ClientInv /\ [Next]_vars => (TypeOK /\ IInv /\ ClientInv)'
  BY InvStep, ClientStep
<1> QED BY <1>1, <1>2, PTL DEF Spec

\* With one handler at a time, a contract shown as previewed has an envelope and no open
\* one refers to a voided envelope, whatever DocuSign refuses, loses or answers without
\* an id.
THEOREM OpenContractsAreUsable == ASSUME OneClient PROVE Spec => []OpenContractIsUsable
<1>1. TypeOK /\ IInv /\ ClientInv => OpenContractIsUsable
  <2> SUFFICES ASSUME ClientInv, AtRest, NEW c \in Contract, Open(c)
               PROVE  Shown(c) /\ Usable(contracts[c].ref)
    BY DEF OpenContractIsUsable, Open, Existing, Shown, Usable
  <2>1. \A r \in Request : voids[r][c].at # "mark"
    BY DEF ClientInv, VoidsAreOwn, AtRest, At
  <2> QED BY <2>1 DEF ClientInv, OpenIsUsable
<1> QED BY <1>1, ClientInvariance, PTL

\* With one handler at a time, an opportunity whose contracts are all voided carries no amount, in
\* whatever order voidContract marked them and counted the finalized ones.
THEOREM VoidedOpportunitiesAreFree == ASSUME OneClient PROVE Spec => []VoidedOpportunityHasNoAmount
<1>1. TypeOK /\ IInv /\ ClientInv => VoidedOpportunityHasNoAmount
  <2> SUFFICES ASSUME ClientInv, AtRest, Deals # {}, \A c \in Deals : contracts[c].status = "VOIDED"
               PROVE  amount # "sold"
    BY DEF VoidedOpportunityHasNoAmount, Deals
  <2>1. \A r \in Request, c \in Contract : voids[r][c].at \notin {"count", "zero"}
    BY DEF ClientInv, VoidsAreOwn, AtRest, At
  <2> QED BY <2>1 DEF ClientInv, SoldIsDue
<1> QED BY <1>1, ClientInvariance, PTL

\* With one handler at a time, when a void answers every change order of the voided
\* contract is voided, although they are voided side by side.
THEOREM VoidsCloseChangeOrders == ASSUME OneClient PROVE Spec => VoidClosesChangeOrders
<1> DEFINE Closed == \A r \in Request : At(r, "voidRelated") /\ req'[r].pc = "idle" =>
             \A c \in OfType("CHANGE_ORDER") \cup OfType("NO_COST_CHANGE_ORDER") :
               contracts[c].primary = req[r].c => contracts[c].status = "VOIDED"
<1>1. ASSUME TypeOK, ClientInv, [Next]_vars PROVE Closed
  <2> SUFFICES ASSUME NEW r \in Request, At(r, "voidRelated"), req'[r].pc = "idle",
                      NEW c \in ChangeOrders, contracts[c].primary = req[r].c
               PROVE  contracts[c].status = "VOIDED"
    BY DEF ChangeOrders
  <2>1. c \in Contract
    BY DEF ChangeOrders, OfType, Existing
  <2>2. req' # req
    BY DEF At
  <2>3. ~Crash /\ ~Docusign /\ ~UNCHANGED vars
    BY <2>2 DEF Crash, OneClient, Docusign, SignEnvelope, vars
  <2>4. Arrive(r) \/ Report(r) \/ Continue(r)
    BY <1>1, <2>3, OnlyClient DEF Next
  <2>5. AnswerVoid(r)
    BY <2>2, <2>4 DEF Arrive, Continue, At, AddPrimary, AddGridServicesPacket,
         ValidateChangeOrder, ValidateNoCostChangeOrder, ValidateUpdate, StartSend,
         StartSendDraft, StartWetSign, StartVoid, SyncWithWav, AddChangeOrder,
         UpdateChangeOrder, CallDocusign, SaveDraft, SaveSent, SaveError, CallSendDraft,
         SaveSentDraft, CallWetSign, SaveWetSigned, VoidEnvelope, MarkVoided, CountFinalized,
         ZeroAmount, VoidRelated, Report, StartReport, SaveReport
  <2>6. voids[r][c].at = "none"
    BY <2>1, <2>5 DEF AnswerVoid, Voiding
  <2> QED BY <1>1, <2>6 DEF ClientInv, Informed
<1>2. TypeOK /\ IInv /\ ClientInv /\ [Next]_vars => [Closed]_vars
  BY <1>1
<1> QED BY <1>2, ClientInvariance, PTL DEF Spec, VoidClosesChangeOrders
=============================================================================
