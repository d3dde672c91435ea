---------------------------- MODULE Qualification ----------------------------
(***************************************************************************)
(* The credit qualification of one opportunity (src/src/qualifications):   *)
(* an agent creates it, records the verbal consents and has the            *)
(* application mailed; the applicant, and a co-applicant after him, open   *)
(* the link and apply; FNI, the credit vendor, initialises the application *)
(* under a refnum and decides it, at once or in a later report.            *)
(*                                                                         *)
(* A handler is split at its awaits, as in Contracts.  It holds the        *)
(* document it has read: document.save() writes the fields it changed,     *)
(* updateOne(_id, document) writes the whole document back.  Event         *)
(* histories, notifications and milestones, which no guard reads, are left *)
(* out.  The system is the one whose NODE_ENV is not 'production': there   *)
(* consents and manual approvals are refused, and no mail can be sent.     *)
(***************************************************************************)
EXTENDS Naturals, Sequences

CONSTANTS
  Qualifications,   \* qualification records (more than one: a creation race)
  NoQualification,
  Request,          \* HTTP requests that may be in flight at the same time
  Refnum,           \* the applications FNI may open (bounds the submissions)
  NoRefnum,
  Consents,         \* the consents agents record: pairs of a flag and yes or no
  Decisions,        \* the decisions FNI takes in the instance
  MaxApplications,  \* bound on the applications of a record (bounds the resends)
  Failures          \* may a handler end between two of its steps?

Flag == {"hasApplicantConsent", "hasCoApplicant", "hasCoApplicantConsent"}
Final == {"APPROVED", "DECLINED", "CANCELLED"}
Decision == Final \cup {"PENDING", "CONDITIONED"}

ASSUME QualificationAssumption ==
  /\ NoQualification \notin Qualifications
  /\ NoRefnum \notin Refnum
  /\ Consents \subseteq Flag \X {"yes", "no"}
  /\ Decisions \subseteq Decision
  /\ MaxApplications \in Nat \ {0}
  /\ Failures \in BOOLEAN

Applicant == {"applicant", "coapplicant"}
ProcessStatus == {"INITIATED", "VERBAL CONSENT - ACCEPTED", "VERBAL CONSENT - DECLINED",
                  "COMPLETE - APPLICANT DECLINED VERBAL CONSENT", "APPLICATION EMAILED",
                  "STARTED", "IN_PROGRESS", "COMPLETED", "ERROR"}
Reference == Refnum \cup {NoRefnum}

VARIABLES
  qual,   \* the collection; status "absent": not created
  req,    \* per request: where its handler is, and the document it holds
  fni,    \* FNI: the record an application was opened for, the decisions made on it
  links,  \* <<q, who>>: who has been mailed a link to the application of q
  abandoned   \* the records a handler has left half way (history)

vars == <<qual, req, fni, links, abandoned>>

Absent == [status |-> "absent", decision |-> "none", mode |-> "none", approvedBy |-> FALSE,
           consent |-> [f \in Flag |-> "unset"], applicants |-> {}, authorized |-> {},
           apps |-> <<>>]
Idle == [pc |-> "idle", q |-> NoQualification, doc |-> Absent, who |-> "applicant",
         refnum |-> NoRefnum, answer |-> "none"]

Init ==
  /\ qual = [q \in Qualifications |-> Absent]
  /\ req = [r \in Request |-> Idle]
  /\ fni = [n \in Refnum |-> [of |-> NoQualification, made |-> {}]]
  /\ links = {}
  /\ abandoned = {}

----------------------------------------------------------------------------
(* Handler bookkeeping. *)

Existing == {q \in Qualifications : qual[q].status # "absent"}
At(r, pc) == req[r].pc = pc
Goto(r, pc) == req' = [req EXCEPT ![r].pc = pc]
Finish(r) == req' = [req EXCEPT ![r] = Idle]
Refuse(r) == req' = [req EXCEPT ![r] = [Idle EXCEPT !.pc = "fail", !.q = req[r].q]]

\* findById at the start of a handler.
Load(r, q, pc) == req' = [req EXCEPT ![r] = [Idle EXCEPT !.pc = pc, !.q = q, !.doc = qual[q]]]

\* document.save() of one field: what was read, what it became, what is stored.
Saved(read, new, stored) == IF new = read THEN stored ELSE new

\* updateOne(_id, document): every field the document has.
Overwrite(q, d) ==
  qual' = [qual EXCEPT ![q] =
    [d EXCEPT !.decision = IF @ = "none" THEN qual[q].decision ELSE @,
              !.mode = IF @ = "none" THEN qual[q].mode ELSE @,
              !.approvedBy = @ \/ qual[q].approvedBy,
              !.consent = [f \in Flag |-> IF d.consent[f] = "unset"
                                          THEN qual[q].consent[f] ELSE d.consent[f]]]]

\* fniApplications.findIndex(state === ACTIVE).
Active(d) == {i \in DOMAIN d.apps : d.apps[i].state = "ACTIVE"}
ActiveIndex(d) == CHOOSE i \in Active(d) : \A j \in Active(d) : i <= j

NewApplication == [state |-> "ACTIVE", refnum |-> NoRefnum]

----------------------------------------------------------------------------
(* The agent. *)

\* createQualification: findOne, then, when there is none, save.
StartCreate(r) ==
  /\ At(r, "idle")
  /\ Existing = {}
  /\ Goto(r, "create")
  /\ UNCHANGED <<qual, fni, links, abandoned>>

Create(r, q) ==
  /\ At(r, "create")
  /\ q \notin Existing
  /\ qual' = [qual EXCEPT ![q] = [Absent EXCEPT !.status = "INITIATED",
                                                !.apps = <<NewApplication>>]]
  /\ Finish(r)
  /\ UNCHANGED <<fni, links, abandoned>>

\* setManualApproval and setApplicantConsent: findById, later save.
StartEdit(r, q) ==
  /\ At(r, "idle")
  /\ q \in Existing
  /\ Load(r, q, "approve") \/ Load(r, q, "consent")
  /\ UNCHANGED <<qual, fni, links, abandoned>>

\* Fault: who approved is not recorded.
SaveApprovalAnonymously(r) ==
  /\ At(r, "approve")
  /\ LET d == req[r].doc IN
     qual' = [qual EXCEPT ![req[r].q].status = Saved(d.status, "COMPLETED", @),
                          ![req[r].q].mode = Saved(d.mode, "AGENT", @),
                          ![req[r].q].decision = Saved(d.decision, "APPROVED", @)]
  /\ Finish(r)
  /\ UNCHANGED <<fni, links, abandoned>>

SaveApproval(r) ==
  /\ At(r, "approve")
  /\ LET d == req[r].doc IN
     qual' = [qual EXCEPT ![req[r].q].status = Saved(d.status, "COMPLETED", @),
                          ![req[r].q].mode = Saved(d.mode, "AGENT", @),
                          ![req[r].q].decision = Saved(d.decision, "APPROVED", @),
                          ![req[r].q].approvedBy = TRUE]
  /\ Finish(r)
  /\ UNCHANGED <<fni, links, abandoned>>

\* getQualificationMilestoneAndProcessStatusByVerbalConsent.
StatusByConsent(c, status) ==
  LET applicant == c["hasApplicantConsent"]
      joint == c["hasCoApplicant"]
      co == c["hasCoApplicantConsent"]
  IN CASE applicant = "yes" /\ (joint = "no" \/ (joint = "yes" /\ co # "unset"))
            -> "VERBAL CONSENT - ACCEPTED"
       [] applicant = "no" /\ joint = "no" -> "VERBAL CONSENT - DECLINED"
       [] applicant = "no" /\ joint = "yes" /\ co = "no"
            -> "COMPLETE - APPLICANT DECLINED VERBAL CONSENT"
       [] OTHER -> status

Consented(c, f, v) ==
  [g \in Flag |-> CASE g = f -> v
                    [] g = "hasCoApplicantConsent" /\ f = "hasCoApplicant" /\ v = "no" -> "unset"
                    [] OTHER -> c[g]]

SaveConsent(r) ==
  /\ At(r, "consent")
  /\ \E f \in Flag, v \in {"yes", "no"} :
       /\ <<f, v>> \in Consents
       /\ LET d == req[r].doc
              c == Consented(d.consent, f, v)
          IN qual' = [qual EXCEPT
               ![req[r].q].consent = [g \in Flag |-> Saved(d.consent[g], c[g], @[g])],
               ![req[r].q].status = Saved(d.status, StatusByConsent(c, d.status), @)]
  /\ Finish(r)
  /\ UNCHANGED <<fni, links, abandoned>>

----------------------------------------------------------------------------
(* Mailing the application. *)

Joint(d) == d.consent["hasCoApplicant"] = "yes"
UseCaseIsValid(d) ==
  /\ d.consent["hasApplicantConsent"] # "unset"
  /\ d.consent["hasCoApplicant"] # "unset"
  /\ Joint(d) => d.consent["hasCoApplicantConsent"] # "unset"

\* The applicants of the record, with those the mail handler adds.
Applicants(d) == d.applicants \cup {"applicant"} \cup (IF Joint(d) THEN {"coapplicant"} ELSE {})

\* Fault: the co-applicant's invitation goes to the applicant.
RecipientIsApplicant(d) ==
  IF Applicants(d) \ d.authorized = {} THEN "nobody" ELSE "applicant"

\* The applicant first, the co-applicant when he has authorised the credit check.
Recipient(d) ==
  IF "applicant" \notin d.authorized THEN "applicant"
  ELSE IF "coapplicant" \in Applicants(d) \ d.authorized THEN "coapplicant" ELSE "nobody"

\* Fault: the new application is a copy of the last, refnum included.
RenewedAsCopy(d) ==
  [d EXCEPT !.apps = Append([i \in DOMAIN @ |-> [@[i] EXCEPT !.state = "INACTIVE"]],
                            [@[Len(@)] EXCEPT !.state = "ACTIVE"]),
            !.authorized = {}]

\* Fault: the old applications stay active.
RenewedBesideOld(d) == [d EXCEPT !.apps = Append(@, NewApplication), !.authorized = {}]

\* resendMail, before it mails: a new application, and nobody has authorised it.
Renewed(d) ==
  [d EXCEPT !.apps = Append([i \in DOMAIN @ |-> [@[i] EXCEPT !.state = "INACTIVE"]],
                            NewApplication),
            !.authorized = {}]

\* sendMail: what the mail handler refuses goes to the exception filter.
StartSendMail(r, q) ==
  /\ At(r, "idle")
  /\ q \in Existing
  /\ IF UseCaseIsValid(qual[q]) /\ Recipient(qual[q]) # "nobody"
     THEN Load(r, q, "mail")
     ELSE req' = [req EXCEPT ![r] = [Idle EXCEPT !.pc = "fail", !.q = q]]
  /\ UNCHANGED <<qual, fni, links, abandoned>>

\* resendMail has no exception filter: what is refused changes nothing.
StartResendMail(r, q) ==
  /\ At(r, "idle")
  /\ q \in Existing
  /\ Len(qual[q].apps) < MaxApplications
  /\ UseCaseIsValid(qual[q])
  /\ Load(r, q, "remail")
  /\ UNCHANGED <<qual, fni, links, abandoned>>

\* applyCreditQualification mails the co-applicant, errors are only logged.
StartCoMail(r) ==
  /\ At(r, "coMail")
  /\ LET d == qual[req[r].q] IN
     IF UseCaseIsValid(d) /\ Recipient(d) # "nobody" /\ "coapplicant" \in Applicants(d)
     THEN req' = [req EXCEPT ![r].pc = "mailCo", ![r].doc = d]
     ELSE Finish(r)
  /\ UNCHANGED <<qual, fni, links, abandoned>>

Email(r) ==
  /\ req[r].pc \in {"mail", "remail", "mailCo"}
  /\ \/ LET to == CASE At(r, "mail") -> Recipient(req[r].doc)
                    [] At(r, "remail") -> Recipient(Renewed(req[r].doc))
                    [] At(r, "mailCo") -> "coapplicant"
        IN /\ links' = links \cup {<<req[r].q, to>>}
           /\ Goto(r, IF At(r, "remail") THEN "saveRemail" ELSE "saveMail")
     \/ /\ Failures
        /\ IF At(r, "mail") THEN Refuse(r) ELSE Finish(r)
        /\ UNCHANGED links
  /\ UNCHANGED <<qual, fni, abandoned>>

SaveMail(r) ==
  /\ req[r].pc \in {"saveMail", "saveRemail"}
  /\ LET q == req[r].q
         d == req[r].doc
         stored == [qual[q] EXCEPT !.status = Saved(d.status, "APPLICATION EMAILED", @),
                                   !.applicants = @ \cup Applicants(d)]
     IN qual' = [qual EXCEPT ![q] =
          IF At(r, "saveMail") THEN stored
          ELSE [stored EXCEPT !.apps = Renewed(d).apps,
                              !.authorized = @ \ d.authorized]]
  /\ Finish(r)
  /\ UNCHANGED <<fni, links, abandoned>>

----------------------------------------------------------------------------
(* The applicants. *)

\* getApplicationDetail: the link is opened.
StartOpen(r, q, who) ==
  /\ At(r, "idle")
  /\ <<q, who>> \in links
  /\ who \in qual[q].applicants
  /\ Load(r, q, "open")
  /\ UNCHANGED <<qual, fni, links, abandoned>>

\* processStatus is set to STARTED before it is tested; without an eligible quote the
\* request fails.
SaveOpen(r) ==
  /\ At(r, "open")
  /\ \/ /\ qual' = [qual EXCEPT ![req[r].q].status = Saved(req[r].doc.status, "STARTED", @)]
        /\ Finish(r)
     \/ Refuse(r) /\ UNCHANGED qual
  /\ UNCHANGED <<fni, links, abandoned>>

\* applyCreditQualification.
StartApply(r, q, who) ==
  /\ At(r, "idle")
  /\ qual[q].status = "STARTED"
  /\ who \in qual[q].applicants
  /\ req' = [req EXCEPT ![r] = [Idle EXCEPT !.pc = "apply", !.q = q, !.doc = qual[q],
                                            !.who = who]]
  /\ UNCHANGED <<qual, fni, links, abandoned>>

\* Fault: the mode is the name of the vendor.
SaveApplyAsVendor(r) ==
  /\ At(r, "apply")
  /\ qual' = [qual EXCEPT ![req[r].q].status = "IN_PROGRESS",
                          ![req[r].q].mode = "FNI",
                          ![req[r].q].authorized = @ \cup {req[r].who}]
  /\ Goto(r, "init")
  /\ UNCHANGED <<fni, links, abandoned>>

\* The authorisation is saved before FNI is called; the request fails when the
\* opportunity is not found, and ends when no quote is eligible.
SaveApply(r) ==
  /\ At(r, "apply")
  /\ \/ /\ qual' = [qual EXCEPT ![req[r].q].status = "IN_PROGRESS",
                                ![req[r].q].mode = Saved(req[r].doc.mode, "CREDIT_VENDOR", @),
                                ![req[r].q].authorized = @ \cup {req[r].who}]
        /\ req' = [req EXCEPT ![r].pc = "init",
                              ![r].doc.status = "IN_PROGRESS",
                              ![r].doc.mode = "CREDIT_VENDOR",
                              ![r].doc.authorized = @ \cup {req[r].who}]
     \/ Refuse(r) /\ UNCHANGED qual
     \/ Finish(r) /\ UNCHANGED qual
  /\ UNCHANGED <<fni, links, abandoned>>

AsCoApplicant(r) == Joint(req[r].doc) /\ req[r].who = "coapplicant"

\* solar_initcoapp for the co-applicant of an application FNI knows, solar_init for
\* anyone else; FNI may refuse, in the answer or by an HTTP status.
CallInit(r) ==
  /\ At(r, "init")
  /\ \/ /\ AsCoApplicant(r)
        /\ LET n == req[r].doc.apps[ActiveIndex(req[r].doc)].refnum IN
           /\ n \in Refnum
           /\ req' = [req EXCEPT ![r].pc = "saveInit", ![r].refnum = n]
        /\ UNCHANGED fni
     \/ /\ ~AsCoApplicant(r)
        /\ \E n \in Refnum :
             /\ fni[n].of = NoQualification
             /\ fni' = [fni EXCEPT ![n].of = req[r].q]
             /\ req' = [req EXCEPT ![r].pc = "saveInit", ![r].refnum = n]
     \/ /\ req' = [req EXCEPT ![r].pc = "saveInit", ![r].answer = "error"]
        /\ UNCHANGED fni
     \/ Refuse(r) /\ UNCHANGED fni
  /\ UNCHANGED <<qual, links, abandoned>>

\* handleFNIInitResponse: the whole document, as read before FNI was called.
SaveInit(r) ==
  /\ At(r, "saveInit")
  /\ LET d == req[r].doc IN
     IF req[r].answer = "error"
     THEN Overwrite(req[r].q, d) /\ Refuse(r)
     ELSE /\ Overwrite(req[r].q, IF AsCoApplicant(r) THEN d
                                 ELSE [d EXCEPT !.apps[ActiveIndex(d)].refnum = req[r].refnum])
          /\ req' = [req EXCEPT ![r] =
               [Idle EXCEPT !.q = req[r].q, !.refnum = req[r].refnum,
                            !.pc = IF Joint(d) /\ req[r].who = "applicant"
                                   THEN "coMail" ELSE "solarApply"]]
  /\ UNCHANGED <<fni, links, abandoned>>

\* processCreditQualification: solar_apply.
CallApply(r) ==
  /\ At(r, "solarApply")
  /\ \/ \E a \in Decisions :
          /\ fni[req[r].refnum].made \cap Final \subseteq {a}
          /\ fni' = [fni EXCEPT ![req[r].refnum].made = @ \cup {a}]
          /\ req' = [req EXCEPT ![r].pc = "loadDecision", ![r].answer = a]
     \/ /\ req' = [req EXCEPT ![r].pc = "loadDecision", ![r].answer = "error"]
        /\ UNCHANGED fni
     \/ Refuse(r) /\ UNCHANGED fni
  /\ UNCHANGED <<qual, links, abandoned>>

----------------------------------------------------------------------------
(* The decision. *)

\* FNI decides an application it had left pending.
Decide(n, a) ==
  /\ fni[n].made # {} /\ fni[n].made \cap Final = {}
  /\ a \in Decisions \cap Final
  /\ fni' = [fni EXCEPT ![n].made = @ \cup {a}]
  /\ UNCHANGED <<qual, req, links, abandoned>>

\* receiveFniUpdate: a report of any decision made, delayed or repeated, finds the
\* record by the refnum of any of its applications, active or not.
StartReport(r, n, q) ==
  /\ At(r, "idle")
  /\ \E i \in DOMAIN qual[q].apps : qual[q].apps[i].refnum = n
  /\ \E a \in fni[n].made \cup {"error"} :
       req' = [req EXCEPT ![r] = [Idle EXCEPT !.pc = "loadDecision", !.q = q,
                                              !.refnum = n, !.answer = a]]
  /\ UNCHANGED <<qual, fni, links, abandoned>>

\* handleProcessFniSolarApplyResponse reads the record again ...
LoadDecision(r) ==
  /\ At(r, "loadDecision")
  /\ req' = [req EXCEPT ![r].pc = "saveDecision", ![r].doc = qual[req[r].q]]
  /\ UNCHANGED <<qual, fni, links, abandoned>>

\* Fault: a decision without a case of its own is passed over.
DecidedOnlyIfKnown(d, a) ==
  CASE a \in Final -> [d EXCEPT !.decision = a, !.status = "COMPLETED"]
    [] a = "PENDING" -> [d EXCEPT !.decision = a]
    [] OTHER -> d

\* ... and decides it.  CONDITIONED stands for FUNDED and for unknown decisions too.
Decided(d, a) ==
  CASE a \in Final -> [d EXCEPT !.decision = a, !.status = "COMPLETED"]
    [] a = "PENDING" -> [d EXCEPT !.decision = a]
    [] a = "CONDITIONED" -> [d EXCEPT !.decision = "ERROR", !.status = "ERROR"]
    [] a = "error" -> d

SaveDecision(r) ==
  /\ At(r, "saveDecision")
  /\ Overwrite(req[r].q, Decided(req[r].doc, req[r].answer))
  /\ IF req[r].answer = "error" THEN Refuse(r) ELSE Finish(r)
  /\ UNCHANGED <<fni, links, abandoned>>

\* QualificationExceptionsFilter.
Fail(r) ==
  /\ At(r, "fail")
  /\ qual' = [qual EXCEPT ![req[r].q].status = "ERROR"]
  /\ Finish(r)
  /\ UNCHANGED <<fni, links, abandoned>>

\* The handler ends here: the server stops, MongoDB refuses, FNI does not answer
\* (callFniAPI then throws what the filter does not catch).
Abandon(r) ==
  /\ Failures
  /\ ~At(r, "idle")
  /\ Finish(r)
  /\ abandoned' = abandoned \cup {req[r].q}
  /\ UNCHANGED <<qual, fni, links>>

----------------------------------------------------------------------------

Arrive(r) ==
  \/ StartCreate(r)
  \/ \E q \in Qualifications : StartEdit(r, q) \/ StartSendMail(r, q) \/ StartResendMail(r, q)
  \/ \E q \in Qualifications, who \in Applicant : StartOpen(r, q, who) \/ StartApply(r, q, who)
  \/ \E n \in Refnum, q \in Qualifications : StartReport(r, n, q)

Continue(r) ==
  \/ \E q \in Qualifications : Create(r, q)
  \/ SaveApproval(r) \/ SaveConsent(r)
  \/ StartCoMail(r) \/ Email(r) \/ SaveMail(r)
  \/ SaveOpen(r) \/ SaveApply(r)
  \/ CallInit(r) \/ SaveInit(r) \/ CallApply(r)
  \/ LoadDecision(r) \/ SaveDecision(r) \/ Fail(r)

Vendor == \E n \in Refnum, a \in Decisions : Decide(n, a)

Next ==
  \/ \E r \in Request : Arrive(r) \/ Continue(r) \/ Abandon(r)
  \/ Vendor

Spec == Init /\ [][Next]_vars

\* Node resumes a handler whose await has been answered, and the services answer.
Fairness == \A r \in Request : WF_vars(Continue(r))
FairSpec == Spec /\ Fairness

----------------------------------------------------------------------------
(* Properties. *)

Document == [status : ProcessStatus \cup {"absent"},
             decision : Final \cup {"none", "PENDING", "ERROR"},
             mode : {"none", "AGENT", "CREDIT_VENDOR"},
             approvedBy : BOOLEAN,
             consent : [Flag -> {"unset", "yes", "no"}],
             applicants : SUBSET Applicant,
             authorized : SUBSET Applicant,
             apps : Seq([state : {"ACTIVE", "INACTIVE"}, refnum : Reference])]

PC == {"idle", "create", "approve", "consent", "fail", "mail", "remail", "mailCo",
       "coMail", "saveMail", "saveRemail", "open", "apply", "init", "saveInit",
       "solarApply", "loadDecision", "saveDecision"}

\* Every record, request and FNI application has its fields in their types.
TypeOK ==
  /\ qual \in [Qualifications -> Document]
  /\ req \in [Request -> [pc : PC, q : Qualifications \cup {NoQualification},
                          doc : Document, who : Applicant, refnum : Reference,
                          answer : Decision \cup {"none", "error"}]]
  /\ fni \in [Refnum -> [of : Qualifications \cup {NoQualification}, made : SUBSET Decision]]
  /\ links \subseteq Qualifications \X Applicant
  /\ abandoned \subseteq Qualifications \cup {NoQualification}

\* Every record has exactly one ACTIVE application, however resends and whole-document
\* writes interleave: every handler that looks for it finds it.
OneActiveApplication ==
  \A q \in Existing : \E i \in Active(qual[q]) : Active(qual[q]) = {i}

\* A record is APPROVED only if an agent approved it or FNI approved an application
\* opened for this very record.
ApprovalHasSource ==
  \A q \in Qualifications :
    qual[q].decision = "APPROVED" =>
      \/ qual[q].approvedBy
      \/ \E n \in Refnum : fni[n].of = q /\ "APPROVED" \in fni[n].made

\* One request at a time: a record that waits for its applicants has mailed the link
\* to one of those who have not yet authorised the check.
EmailedCanProceed ==
  \A q \in Qualifications :
    qual[q].status = "APPLICATION EMAILED" /\ (\A r \in Request : At(r, "idle")) =>
      \E who \in qual[q].applicants \ qual[q].authorized : <<q, who>> \in links

\* One request at a time: an active application that FNI knows has been authorised by
\* someone; a resend takes the authorisations and the refnum back together.
ActiveApplicationAuthorized ==
  \A q \in Existing :
    (\A r \in Request : At(r, "idle")) =>
      \/ qual[q].apps[ActiveIndex(qual[q])].refnum = NoRefnum
      \/ qual[q].authorized # {}

\* The application of a single applicant, once submitted, leaves IN_PROGRESS or waits
\* for FNI, unless a handler of it ended half way (server stop, no answer of FNI).
SubmittedIsResolved ==
  \A q \in Qualifications :
    qual[q].status = "IN_PROGRESS" /\ ~Joint(qual[q]) ~>
      \/ qual[q].status # "IN_PROGRESS"
      \/ qual[q].decision = "PENDING"
      \/ Joint(qual[q])
      \/ q \in abandoned

\* What getApplicationDetail states: only an application that is INITIATED, STARTED or
\* EMAILED is started, for any other it answers responseStatus false.
OnlyOpenIsStarted ==
  [][\A q \in Qualifications :
       qual'[q].status = "STARTED" =>
         qual[q].status \in {"INITIATED", "APPLICATION EMAILED", "STARTED"}]_vars
=============================================================================
