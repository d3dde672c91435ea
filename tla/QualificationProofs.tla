------------------------ MODULE QualificationProofs ------------------------
(***************************************************************************)
(* Theorems about Qualification, for any number of records, of concurrent  *)
(* requests, of applications at FNI and of resends, whatever agents record *)
(* and FNI decides, handlers that end half way included; and what a single *)
(* client can rely on.                                                     *)
(***************************************************************************)
EXTENDS Qualification, SequenceTheorems, TLAPS

Application == [state : {"ACTIVE", "INACTIVE"}, refnum : Reference]

Handler == [pc : PC, q : Qualifications \cup {NoQualification}, doc : Document,
            who : Applicant, refnum : Reference, answer : Decision \cup {"none", "error"}]

Vendors == [Refnum -> [of : Qualifications \cup {NoQualification}, made : SUBSET Decision]]

(***************************************************************************)
(* What FNI, in the state f, knows of the record q.                        *)
(***************************************************************************)
Opened(n, q, f) == n \in Refnum /\ f[n].of = q
ApprovedByFni(q, f) == \E n \in Refnum : f[n].of = q /\ "APPROVED" \in f[n].made

(***************************************************************************)
(* What holds of a document d of the record q, stored or held: one of its  *)
(* applications is active, FNI has opened those with a refnum for q, and   *)
(* if it is approved somebody approved it.                                 *)
(***************************************************************************)
OneActive(apps) ==
  \E i \in DOMAIN apps : \A j \in DOMAIN apps : apps[j].state = "ACTIVE" <=> j = i
OpenedForIt(apps, q, f) ==
  \A i \in DOMAIN apps : apps[i].refnum \in Refnum => Opened(apps[i].refnum, q, f)

SoundDoc(d, q, f) ==
  /\ d \in Document
  /\ d.status # "absent"
  /\ OneActive(d.apps)
  /\ OpenedForIt(d.apps, q, f)
  /\ d.decision = "APPROVED" => d.approvedBy \/ ApprovedByFni(q, f)

Stored(ql, f) ==
  \A q \in Qualifications : ql[q] # Absent => SoundDoc(ql[q], q, f)

(***************************************************************************)
(* What holds of a handler h: it works on a record that exists, it holds a *)
(* sound document of it, a refnum that FNI has given for it, and an answer *)
(* FNI has given.                                                          *)
(***************************************************************************)
Holding == {"approve", "consent", "mail", "remail", "mailCo", "saveMail", "saveRemail", "open",
            "apply", "init", "saveInit", "saveDecision"}
Working == Holding \cup {"fail", "coMail", "solarApply", "loadDecision"}

Sound(h, ql, f) ==
  /\ h \in Handler
  /\ h.pc \in Working => h.q \in Qualifications /\ ql[h.q] # Absent
  /\ h.pc \in Holding => SoundDoc(h.doc, h.q, f)
  /\ h.pc = "mail" => Recipient(h.doc) # "nobody"
  /\ h.pc = "solarApply" \/ (h.pc = "saveInit" /\ h.answer # "error") => Opened(h.refnum, h.q, f)
  /\ h.pc \in {"loadDecision", "saveDecision"} =>
       /\ h.answer # "none"
       /\ h.answer = "APPROVED" => ApprovedByFni(h.q, f)

IInv ==
  /\ qual \in [Qualifications -> Document]
  /\ fni \in Vendors
  /\ links \subseteq Qualifications \X Applicant
  /\ abandoned \subseteq Qualifications \cup {NoQualification}
  /\ Stored(qual, fni)
  /\ req \in [Request -> Handler]
  /\ \A r \in Request : Sound(req[r], qual, fni)

(***************************************************************************)
(* Records are never deleted, and FNI forgets nothing.                     *)
(***************************************************************************)
Evolve(ql, f, ql2, f2) ==
  /\ \A q \in Qualifications : ql[q] # Absent => ql2[q] # Absent
  /\ \A n \in Refnum : /\ f[n].of \in Qualifications => f2[n].of = f[n].of
                       /\ f[n].made \subseteq f2[n].made

LEMMA VendorStays ==
  ASSUME NEW ql, NEW f, NEW ql2, NEW f2, Evolve(ql, f, ql2, f2), NEW q \in Qualifications
  PROVE  /\ \A n : Opened(n, q, f) => Opened(n, q, f2)
         /\ ApprovedByFni(q, f) => ApprovedByFni(q, f2)
         /\ \A d : SoundDoc(d, q, f) => SoundDoc(d, q, f2)
<1>1. \A n : Opened(n, q, f) => Opened(n, q, f2)
  BY DEF Evolve, Opened
<1>2. ApprovedByFni(q, f) => ApprovedByFni(q, f2)
  BY DEF Evolve, ApprovedByFni
<1>3. \A d : SoundDoc(d, q, f) => SoundDoc(d, q, f2)
  BY <1>1, <1>2 DEF SoundDoc, OpenedForIt
<1> QED BY <1>1, <1>2, <1>3

LEMMA SoundStays ==
  ASSUME NEW ql, NEW f, NEW ql2, NEW f2, Evolve(ql, f, ql2, f2), NEW h, Sound(h, ql, f)
  PROVE  Sound(h, ql2, f2)
<1>1. h.pc \in Working => h.q \in Qualifications /\ ql2[h.q] # Absent
  BY DEF Sound, Evolve
<1>2. Holding \subseteq Working /\ "solarApply" \in Working /\ "saveInit" \in Working
      /\ {"loadDecision", "saveDecision"} \subseteq Working
  BY DEF Working, Holding
<1>3. h.pc \in Holding => SoundDoc(h.doc, h.q, f2)
  BY <1>1, <1>2, VendorStays DEF Sound
<1>4. h.pc = "solarApply" \/ (h.pc = "saveInit" /\ h.answer # "error") => Opened(h.refnum, h.q, f2)
  BY <1>1, <1>2, VendorStays DEF Sound
<1>5. h.pc \in {"loadDecision", "saveDecision"} =>
        /\ h.answer # "none"
        /\ h.answer = "APPROVED" => ApprovedByFni(h.q, f2)
  BY <1>1, <1>2, VendorStays DEF Sound
<1> QED
  BY <1>1, <1>3, <1>4, <1>5 DEF Sound

LEMMA HandlerStep ==
  ASSUME IInv, Evolve(qual, fni, qual', fni'),
         qual' \in [Qualifications -> Document], fni' \in Vendors,
         links' \subseteq Qualifications \X Applicant,
         abandoned' \subseteq Qualifications \cup {NoQualification},
         Stored(qual', fni'), NEW r \in Request, NEW h, req' = [req EXCEPT ![r] = h],
         Sound(h, qual', fni')
  PROVE  IInv'
<1>1. h \in Handler
  BY DEF Sound
<1>2. req' \in [Request -> Handler] /\ req'[r] = h
      /\ \A s \in Request : s # r => req'[s] = req[s]
  BY <1>1 DEF IInv
<1>3. \A s \in Request : Sound(req'[s], qual', fni')
  BY <1>2, SoundStays DEF IInv
<1> QED
  BY <1>2, <1>3 DEF IInv

LEMMA AbsentIsDocument == Absent \in Document /\ Absent.status = "absent" /\ Absent.applicants = {}
                          /\ Absent.apps = <<>> /\ Absent.decision = "none"
  BY DEF Absent, Document

LEMMA IdleSound == ASSUME NEW ql, NEW f PROVE Sound(Idle, ql, f)
<1>1. Idle \in Handler
  BY AbsentIsDocument DEF Idle, Handler, PC, Applicant, Reference
<1>2. Idle.pc = "idle"
  BY DEF Idle
<1> QED
  BY <1>1, <1>2 DEF Sound, Working, Holding

(***************************************************************************)
(* The operators: what they do to a sound document.                        *)
(***************************************************************************)

LEMMA SeqFacts ==
  ASSUME NEW S, NEW s \in Seq(S)
  PROVE  /\ Len(s) \in Nat /\ DOMAIN s = 1..Len(s)
         /\ \A i \in DOMAIN s : i \in Nat /\ i \in 1..Len(s) /\ s[i] \in S
  OBVIOUS

\* Replacing elements one by one keeps a sequence a sequence.
LEMMA MapSeq ==
  ASSUME NEW S, NEW T, NEW s \in Seq(S), NEW t, t = [i \in DOMAIN s |-> t[i]],
         \A i \in DOMAIN s : t[i] \in T
  PROVE  t \in Seq(T) /\ Len(t) = Len(s) /\ DOMAIN t = DOMAIN s
<1>1. Len(s) \in Nat /\ DOMAIN s = 1..Len(s)
  OBVIOUS
<1>2. t \in [1..Len(s) -> T]
  BY <1>1
<1> QED
  BY <1>1, <1>2, IsASeq, LenProperties

LEMMA ActiveIndexIs ==
  ASSUME NEW d, d \in Document, OneActive(d.apps)
  PROVE  /\ ActiveIndex(d) \in DOMAIN d.apps
         /\ \A j \in DOMAIN d.apps : d.apps[j].state = "ACTIVE" <=> j = ActiveIndex(d)
<1>1. PICK i \in DOMAIN d.apps : \A j \in DOMAIN d.apps : d.apps[j].state = "ACTIVE" <=> j = i
  BY DEF OneActive
<1>2. d.apps \in Seq(Application)
  BY DEF Document, Application
<1>3. i \in Nat
  BY <1>1, <1>2, SeqFacts
<1>4. Active(d) = {i}
  BY <1>1 DEF Active
<1>5. i \in Active(d) /\ \A j \in Active(d) : i <= j
  BY <1>3, <1>4
<1>6. ActiveIndex(d) = i
  BY <1>4, <1>5 DEF ActiveIndex
<1> QED
  BY <1>1, <1>6

LEMMA RenewedIsSound ==
  ASSUME NEW q, NEW f, NEW d, SoundDoc(d, q, f)
  PROVE  /\ SoundDoc(Renewed(d), q, f)
         /\ Renewed(d).apps \in Seq(Application) /\ OneActive(Renewed(d).apps)
         /\ OpenedForIt(Renewed(d).apps, q, f)
         /\ Recipient(Renewed(d)) = "applicant"
         /\ \A i \in DOMAIN Renewed(d).apps :
              Renewed(d).apps[i].state = "ACTIVE" => Renewed(d).apps[i].refnum = NoRefnum
<1> DEFINE old == [i \in DOMAIN d.apps |-> [d.apps[i] EXCEPT !.state = "INACTIVE"]]
           apps == Append(old, NewApplication)
<1>1. d.apps \in Seq(Application) /\ d \in Document
  BY DEF SoundDoc, Document, Application
<1>2. \A i \in DOMAIN d.apps :
        /\ old[i] \in Application
        /\ old[i].state = "INACTIVE" /\ old[i].refnum = d.apps[i].refnum
  <2> TAKE i \in DOMAIN d.apps
  <2>1. d.apps[i] \in Application
    BY <1>1, SeqFacts
  <2> QED
    BY <2>1 DEF Application
<1>3. old \in Seq(Application) /\ Len(old) = Len(d.apps) /\ DOMAIN old = DOMAIN d.apps
  <2>1. old = [i \in DOMAIN d.apps |-> old[i]]
    OBVIOUS
  <2> HIDE DEF old
  <2> QED
    BY <1>1, <1>2, <2>1, MapSeq
<1>4. NewApplication \in Application /\ NewApplication.state = "ACTIVE"
      /\ NewApplication.refnum = NoRefnum
  BY DEF NewApplication, Application, Reference
<1> HIDE DEF old
<1>5. /\ apps \in Seq(Application) /\ DOMAIN apps = 1..(Len(old) + 1)
      /\ apps[Len(old) + 1] = NewApplication
      /\ \A i \in DOMAIN old : apps[i] = old[i]
      /\ DOMAIN old = 1..Len(old) /\ Len(old) \in Nat
  BY <1>3, <1>4, AppendProperties
<1> DEFINE n == Len(old) + 1
<1>6. n \in DOMAIN apps /\ n \notin DOMAIN old
      /\ \A i \in DOMAIN apps : i = n \/ i \in DOMAIN old
  BY <1>5
<1>7. Renewed(d).apps = apps /\ Renewed(d).authorized = {}
      /\ Renewed(d) = [d EXCEPT !.apps = apps, !.authorized = {}]
  BY <1>1 DEF Renewed, Document, old
<1> HIDE DEF apps, n
<1>8. /\ OneActive(apps)
      /\ \A i \in DOMAIN apps : apps[i].state = "ACTIVE" => apps[i].refnum = NoRefnum
  <2>1. \A i \in DOMAIN apps : apps[i].state = "ACTIVE" <=> i = n
    BY <1>2, <1>3, <1>4, <1>5, <1>6 DEF n
  <2> QED
    BY <1>4, <1>5, <1>6, <2>1 DEF OneActive, n
<1>9. OpenedForIt(apps, q, f)
  <2>1. OpenedForIt(d.apps, q, f)
    BY DEF SoundDoc
  <2>2. ASSUME NEW i \in DOMAIN apps, apps[i].refnum \in Refnum
        PROVE  Opened(apps[i].refnum, q, f)
    <3>1. apps[i] # NewApplication
      BY <1>4, <2>2, QualificationAssumption
    <3>2. i \in DOMAIN d.apps /\ apps[i].refnum = d.apps[i].refnum
      BY <1>2, <1>3, <1>5, <1>6, <3>1 DEF n
    <3> QED
      BY <2>1, <2>2, <3>2 DEF OpenedForIt
  <2> QED
    BY <2>2 DEF OpenedForIt
<1>10. SoundDoc(Renewed(d), q, f)
  BY <1>1, <1>5, <1>7, <1>8, <1>9 DEF SoundDoc, Document, Application
<1>11. Recipient(Renewed(d)) = "applicant"
  BY <1>7 DEF Recipient
<1> QED
  BY <1>5, <1>7, <1>8, <1>9, <1>10, <1>11

\* The refnum FNI has given is noted at the active application.
LEMMA NotedIsSound ==
  ASSUME NEW q, NEW f, NEW d, SoundDoc(d, q, f), NEW n, Opened(n, q, f)
  PROVE  SoundDoc([d EXCEPT !.apps[ActiveIndex(d)].refnum = n], q, f)
<1> DEFINE k == ActiveIndex(d)
           noted == [d.apps[k] EXCEPT !.refnum = n]
           apps == [d.apps EXCEPT ![k] = noted]
<1>1. d.apps \in Seq(Application) /\ d \in Document /\ n \in Reference
  BY DEF SoundDoc, Document, Application, Opened, Reference
<1>2. k \in DOMAIN d.apps
      /\ \A j \in DOMAIN d.apps : d.apps[j].state = "ACTIVE" <=> j = k
  BY ActiveIndexIs DEF SoundDoc
<1>3. [d EXCEPT !.apps[ActiveIndex(d)].refnum = n] = [d EXCEPT !.apps = apps]
  BY <1>1, <1>2 DEF Document
<1> HIDE DEF k
<1>4. noted \in Application /\ noted.state = "ACTIVE" /\ noted.refnum = n
  <2>1. d.apps[k] \in Application /\ d.apps[k].state = "ACTIVE"
    BY <1>1, <1>2, SeqFacts
  <2> QED
    BY <1>1, <2>1 DEF Application
<1> HIDE DEF noted
<1>5. \A i \in DOMAIN d.apps : apps[i] \in Application
        /\ apps[i].state = d.apps[i].state
        /\ apps[i].refnum = IF i = k THEN n ELSE d.apps[i].refnum
  BY <1>1, <1>2, <1>4, SeqFacts
<1>6. apps \in Seq(Application) /\ DOMAIN apps = DOMAIN d.apps
  <2>1. apps = [i \in DOMAIN d.apps |-> apps[i]]
    OBVIOUS
  <2> HIDE DEF apps
  <2> QED
    BY <1>1, <1>5, <2>1, MapSeq
<1> HIDE DEF apps
<1>7. OneActive(apps)
  BY <1>2, <1>5, <1>6 DEF OneActive
<1>8. OpenedForIt(apps, q, f)
  BY <1>5, <1>6 DEF OpenedForIt, SoundDoc
<1>9. SoundDoc([d EXCEPT !.apps = apps], q, f)
  BY <1>1, <1>6, <1>7, <1>8 DEF SoundDoc, Document, Application
<1> QED
  BY <1>3, <1>9

\* What the fields of a document are, one by one.
LEMMA DocFields ==
  ASSUME NEW d \in Document
  PROVE  /\ d.status \in ProcessStatus \cup {"absent"}
         /\ d.decision \in Final \cup {"none", "PENDING", "ERROR"}
         /\ d.mode \in {"none", "AGENT", "CREDIT_VENDOR"} /\ d.approvedBy \in BOOLEAN
         /\ d.consent \in [Flag -> {"unset", "yes", "no"}]
         /\ d.applicants \subseteq Applicant /\ d.authorized \subseteq Applicant
         /\ d.apps \in Seq(Application)
  BY DEF Document, Application

LEMMA Values ==
  /\ \A x \in {"VERBAL CONSENT - ACCEPTED", "VERBAL CONSENT - DECLINED",
               "COMPLETE - APPLICANT DECLINED VERBAL CONSENT", "APPLICATION EMAILED",
               "STARTED", "IN_PROGRESS", "COMPLETED", "ERROR", "INITIATED"} :
       x \in ProcessStatus /\ x # "absent"
  /\ "APPROVED" \in Final
  BY DEF ProcessStatus, Final

\* A sound document takes the place of the one of record q.
LEMMA StoreStep ==
  ASSUME IInv, NEW q \in Qualifications, NEW e, SoundDoc(e, q, fni),
         qual' = [qual EXCEPT ![q] = e], fni' = fni
  PROVE  /\ qual' \in [Qualifications -> Document] /\ Stored(qual', fni')
         /\ Evolve(qual, fni, qual', fni')
         /\ qual'[q] # Absent
<1>1. e \in Document /\ e # Absent
  BY AbsentIsDocument DEF SoundDoc
<1>2. qual' \in [Qualifications -> Document] /\ qual'[q] = e
      /\ \A p \in Qualifications : p # q => qual'[p] = qual[p]
  BY <1>1 DEF IInv
<1>3. Stored(qual', fni')
  BY <1>2 DEF Stored, IInv
<1>4. Evolve(qual, fni, qual', fni')
  BY <1>1, <1>2 DEF Evolve
<1> QED
  BY <1>1, <1>2, <1>3, <1>4

\* The handler r writes the sound document e to its record and goes on as h.
LEMMA WriteStep ==
  ASSUME IInv, NEW r \in Request, req[r].pc \in Working, NEW e, SoundDoc(e, req[r].q, fni),
         qual' = [qual EXCEPT ![req[r].q] = e], UNCHANGED <<fni, links, abandoned>>,
         NEW h, req' = [req EXCEPT ![r] = h], Sound(h, qual, fni)
  PROVE  IInv'
<1>1. req[r].q \in Qualifications
  BY DEF IInv, Sound
<1>2. /\ qual' \in [Qualifications -> Document] /\ Stored(qual', fni')
      /\ Evolve(qual, fni, qual', fni')
  BY <1>1, StoreStep
<1>3. Sound(h, qual', fni')
  BY <1>2, SoundStays
<1> QED
  BY <1>2, <1>3, HandlerStep DEF IInv

\* The handler r goes on as h, and no record changes.
LEMMA ReadStep ==
  ASSUME IInv, NEW r \in Request, UNCHANGED <<qual, fni, abandoned>>,
         links' \subseteq Qualifications \X Applicant,
         NEW h, req' = [req EXCEPT ![r] = h], Sound(h, qual, fni)
  PROVE  IInv'
<1>1. Evolve(qual, fni, qual', fni')
  BY DEF Evolve
<1> QED
  BY <1>1, HandlerStep DEF IInv

LEMMA OverwriteStep ==
  ASSUME IInv, NEW q \in Qualifications, qual[q] # Absent, NEW d, SoundDoc(d, q, fni),
         Overwrite(q, d)
  PROVE  \E e : SoundDoc(e, q, fni) /\ qual' = [qual EXCEPT ![q] = e]
<1> DEFINE s == qual[q]
           decision == IF d.decision = "none" THEN s.decision ELSE d.decision
           mode == IF d.mode = "none" THEN s.mode ELSE d.mode
           approvedBy == d.approvedBy \/ s.approvedBy
           consent == [f \in Flag |-> IF d.consent[f] = "unset" THEN s.consent[f]
                                                                ELSE d.consent[f]]
           e == [d EXCEPT !.decision = decision, !.mode = mode, !.approvedBy = approvedBy,
                          !.consent = consent]
<1>1. d \in Document /\ s \in Document /\ SoundDoc(s, q, fni)
  BY DEF SoundDoc, IInv, Stored
<1>2. qual' = [qual EXCEPT ![q] = e]
  BY <1>1 DEF Overwrite, Document
<1> HIDE DEF s
<1>3. decision \in Final \cup {"none", "PENDING", "ERROR"}
      /\ mode \in {"none", "AGENT", "CREDIT_VENDOR"}
  BY <1>1, DocFields
<1>4. approvedBy \in BOOLEAN
      /\ (decision = "APPROVED" => approvedBy \/ ApprovedByFni(q, fni))
  BY <1>1, DocFields DEF SoundDoc
<1>5. consent \in [Flag -> {"unset", "yes", "no"}]
  BY <1>1, DocFields
<1> HIDE DEF decision, mode, approvedBy, consent
<1>6. e \in Document /\ e.apps = d.apps /\ e.status = d.status /\ e.decision = decision
      /\ e.approvedBy = approvedBy
  BY <1>1, <1>3, <1>4, <1>5 DEF Document
<1> HIDE DEF e
<1>7. SoundDoc(e, q, fni)
  BY <1>4, <1>6 DEF SoundDoc
<1> QED
  BY <1>2, <1>7

LEMMA DecidedIsSound ==
  ASSUME NEW q, NEW f, NEW d, SoundDoc(d, q, f), NEW a \in Decision \cup {"error"},
         a = "APPROVED" => ApprovedByFni(q, f)
  PROVE  SoundDoc(Decided(d, a), q, f)
<1>1. d \in Document
  BY DEF SoundDoc
<1> USE Values
<1>2. CASE a \in Final
  <2> DEFINE e == [d EXCEPT !.decision = a, !.status = "COMPLETED"]
  <2>1. Decided(d, a) = e
    BY <1>2 DEF Decided, Final
  <2>2. e \in Document /\ e.apps = d.apps /\ e.status = "COMPLETED" /\ e.decision = a
    BY <1>1, <1>2 DEF Document
  <2> HIDE DEF e
  <2> QED
    BY <2>1, <2>2 DEF SoundDoc
<1>3. CASE a = "PENDING"
  <2> DEFINE e == [d EXCEPT !.decision = a]
  <2>1. Decided(d, a) = e
    BY <1>3 DEF Decided, Final
  <2>2. e \in Document /\ e.apps = d.apps /\ e.status = d.status /\ e.decision = a
    BY <1>1, <1>3 DEF Document
  <2> HIDE DEF e
  <2> QED
    BY <1>3, <2>1, <2>2 DEF SoundDoc
<1>4. CASE a = "CONDITIONED"
  <2> DEFINE e == [d EXCEPT !.decision = "ERROR", !.status = "ERROR"]
  <2>1. Decided(d, a) = e
    BY <1>4 DEF Decided, Final
  <2>2. e \in Document /\ e.apps = d.apps /\ e.status = "ERROR" /\ e.decision = "ERROR"
    BY <1>1 DEF Document
  <2> HIDE DEF e
  <2> QED
    BY <2>1, <2>2 DEF SoundDoc
<1>5. CASE a = "error"
  BY <1>5 DEF Decided, Final
<1> QED
  BY <1>2, <1>3, <1>4, <1>5 DEF Decision

(***************************************************************************)
(* The actions, one lemma each.                                            *)
(***************************************************************************)

LEMMA IdleFacts ==
  /\ Idle \in Handler /\ Idle.pc = "idle" /\ Idle.q = NoQualification /\ Idle.doc = Absent
  /\ Idle.who = "applicant" /\ Idle.refnum = NoRefnum /\ Idle.answer = "none"
  BY AbsentIsDocument DEF Idle, Handler, PC, Applicant, Reference

LEMMA ExistingFacts ==
  ASSUME IInv, NEW q \in Existing
  PROVE  q \in Qualifications /\ qual[q] # Absent /\ SoundDoc(qual[q], q, fni)
  BY AbsentIsDocument DEF Existing, IInv, Stored

\* A request that goes to the exception filter.
LEMMA RefusedSound ==
  ASSUME IInv, NEW q \in Qualifications, qual[q] # Absent
  PROVE  Sound([Idle EXCEPT !.pc = "fail", !.q = q], qual, fni)
<1> DEFINE h == [Idle EXCEPT !.pc = "fail", !.q = q]
<1>1. h \in Handler /\ h.pc = "fail" /\ h.q = q
  BY IdleFacts DEF Handler, PC
<1> HIDE DEF h
<1>2. Sound(h, qual, fni)
  BY <1>1 DEF Sound, Holding
<1> QED
  BY <1>2 DEF h

\* A request that has read its record.
LEMMA LoadedSound ==
  ASSUME IInv, NEW q \in Qualifications, qual[q] # Absent,
         NEW h \in Handler, h.pc \in {"approve", "consent", "mail", "remail", "open", "apply"},
         h.q = q, h.doc = qual[q], h.pc = "mail" => Recipient(qual[q]) # "nobody"
  PROVE  Sound(h, qual, fni)
  BY DEF IInv, Stored, Sound

LEMMA LoadStep ==
  ASSUME IInv, NEW r \in Request, NEW q \in Qualifications, qual[q] # Absent,
         NEW pc \in {"approve", "consent", "mail", "remail", "open"},
         pc = "mail" => Recipient(qual[q]) # "nobody",
         Load(r, q, pc), UNCHANGED <<qual, fni, links, abandoned>>
  PROVE  IInv'
<1> DEFINE h == [Idle EXCEPT !.pc = pc, !.q = q, !.doc = qual[q]]
<1>1. qual[q] \in Document /\ pc \in PC
  BY DEF IInv, PC
<1>2. h \in Handler /\ h.pc = pc /\ h.q = q /\ h.doc = qual[q]
  BY <1>1, IdleFacts DEF Handler
<1>3. req' = [req EXCEPT ![r] = h]
  BY DEF Load
<1> HIDE DEF h
<1>4. Sound(h, qual, fni)
  BY <1>2, LoadedSound
<1> QED
  BY <1>3, <1>4, ReadStep DEF IInv

LEMMA FinishStep ==
  ASSUME IInv, NEW r \in Request, Finish(r), UNCHANGED <<qual, fni, abandoned>>,
         links' \subseteq Qualifications \X Applicant
  PROVE  IInv'
  BY ReadStep, IdleSound DEF Finish

LEMMA RefuseStep ==
  ASSUME IInv, NEW r \in Request, req[r].pc \in Working, Refuse(r),
         UNCHANGED <<qual, fni, links, abandoned>>
  PROVE  IInv'
<1>1. req[r].q \in Qualifications /\ qual[req[r].q] # Absent
  BY DEF IInv, Sound
<1> QED
  BY <1>1, ReadStep, RefusedSound DEF Refuse, IInv

\* The records of requests that are on their way, and their documents.
LEMMA WorkingFacts ==
  ASSUME IInv, NEW r \in Request, req[r].pc \in Working
  PROVE  /\ req[r] \in Handler /\ Sound(req[r], qual, fni)
         /\ req[r].q \in Qualifications /\ qual[req[r].q] # Absent
         /\ qual[req[r].q] \in Document /\ SoundDoc(qual[req[r].q], req[r].q, fni)
         /\ req[r].pc \in Holding =>
              req[r].doc \in Document /\ SoundDoc(req[r].doc, req[r].q, fni)
  BY DEF IInv, Sound, Stored, SoundDoc

LEMMA StartCreateStep ==
  ASSUME IInv, NEW r \in Request, StartCreate(r)
  PROVE  IInv'
<1> DEFINE h == [req[r] EXCEPT !.pc = "create"]
<1>1. req[r] \in Handler
  BY DEF IInv
<1>2. h \in Handler /\ h.pc = "create"
  BY <1>1 DEF Handler, PC
<1>3. req' = [req EXCEPT ![r] = h]
  BY DEF StartCreate, Goto
<1> HIDE DEF h
<1>4. Sound(h, qual, fni)
  BY <1>2 DEF Sound, Working, Holding
<1> QED
  BY <1>3, <1>4, ReadStep DEF StartCreate, IInv

LEMMA CreateStep ==
  ASSUME IInv, NEW r \in Request, NEW q \in Qualifications, Create(r, q)
  PROVE  IInv'
<1> DEFINE e == [Absent EXCEPT !.status = "INITIATED", !.apps = <<NewApplication>>]
<1>1. NewApplication \in Application /\ NewApplication.state = "ACTIVE"
      /\ NewApplication.refnum = NoRefnum
  BY DEF NewApplication, Application, Reference
<1>2. <<NewApplication>> \in Seq(Application) /\ DOMAIN <<NewApplication>> = {1}
      /\ <<NewApplication>>[1] = NewApplication
  BY <1>1
<1>3. e \in Document /\ e.status = "INITIATED" /\ e.apps = <<NewApplication>>
      /\ e.decision = "none"
  BY <1>2, AbsentIsDocument, Values DEF Document, Application
<1>4. OneActive(e.apps)
  BY <1>1, <1>2, <1>3 DEF OneActive
<1>5. OpenedForIt(e.apps, q, fni)
  BY <1>1, <1>2, <1>3, QualificationAssumption DEF OpenedForIt
<1>6. qual' = [qual EXCEPT ![q] = e] /\ Finish(r) /\ UNCHANGED <<fni, links, abandoned>>
  BY DEF Create
<1> HIDE DEF e
<1>7. SoundDoc(e, q, fni)
  BY <1>3, <1>4, <1>5 DEF SoundDoc
<1>8. /\ qual' \in [Qualifications -> Document] /\ Stored(qual', fni')
      /\ Evolve(qual, fni, qual', fni')
  BY <1>6, <1>7, StoreStep
<1> QED
  BY <1>6, <1>8, IdleSound, HandlerStep DEF Finish, IInv

LEMMA StartEditStep ==
  ASSUME IInv, NEW r \in Request, NEW q \in Qualifications, StartEdit(r, q)
  PROVE  IInv'
  BY ExistingFacts, LoadStep DEF StartEdit

LEMMA SaveApprovalStep ==
  ASSUME IInv, NEW r \in Request, SaveApproval(r)
  PROVE  IInv'
<1>1. req[r].pc \in Working /\ req[r].pc \in Holding
  BY DEF SaveApproval, At, Working, Holding
<1> DEFINE d == req[r].doc
           s == qual[req[r].q]
           status == Saved(d.status, "COMPLETED", s.status)
           mode == Saved(d.mode, "AGENT", s.mode)
           decision == Saved(d.decision, "APPROVED", s.decision)
           e == [s EXCEPT !.status = status, !.mode = mode, !.decision = decision,
                          !.approvedBy = TRUE]
<1>2. d \in Document /\ s \in Document /\ SoundDoc(s, req[r].q, fni)
      /\ req[r].q \in Qualifications
  BY <1>1, WorkingFacts
<1>3. qual' = [qual EXCEPT ![req[r].q] = e]
  BY <1>2 DEF SaveApproval, IInv, Document
<1> HIDE DEF d, s
<1>4. status \in ProcessStatus /\ status # "absent"
      /\ mode \in {"none", "AGENT", "CREDIT_VENDOR"}
      /\ decision \in Final \cup {"none", "PENDING", "ERROR"}
  BY <1>2, DocFields, Values DEF Saved, SoundDoc
<1> HIDE DEF status, mode, decision
<1>5. e \in Document /\ e.status = status /\ e.apps = s.apps /\ e.approvedBy
  BY <1>2, <1>4 DEF Document
<1> HIDE DEF e
<1>6. SoundDoc(e, req[r].q, fni)
  BY <1>2, <1>4, <1>5 DEF SoundDoc
<1> QED
  BY <1>1, <1>3, <1>6, WriteStep, IdleSound DEF SaveApproval, Finish

LEMMA ConsentFacts ==
  ASSUME NEW c \in [Flag -> {"unset", "yes", "no"}], NEW f \in Flag, NEW v \in {"yes", "no"}
  PROVE  /\ Consented(c, f, v) \in [Flag -> {"unset", "yes", "no"}]
         /\ \A status \in ProcessStatus : StatusByConsent(c, status) \in ProcessStatus
<1>1. Consented(c, f, v) \in [Flag -> {"unset", "yes", "no"}]
  BY DEF Consented
<1>2. \A status \in ProcessStatus : StatusByConsent(c, status) \in ProcessStatus
  BY Values DEF StatusByConsent
<1> QED BY <1>1, <1>2

LEMMA SaveConsentStep ==
  ASSUME IInv, NEW r \in Request, SaveConsent(r)
  PROVE  IInv'
<1>1. req[r].pc \in Working /\ req[r].pc \in Holding
  BY DEF SaveConsent, At, Working, Holding
<1>2. PICK f \in Flag, v \in {"yes", "no"} :
        LET d == req[r].doc
            c == Consented(d.consent, f, v)
        IN qual' = [qual EXCEPT
             ![req[r].q].consent = [g \in Flag |-> Saved(d.consent[g], c[g], @[g])],
             ![req[r].q].status = Saved(d.status, StatusByConsent(c, d.status), @)]
  BY DEF SaveConsent
<1> DEFINE d == req[r].doc
           s == qual[req[r].q]
           c == Consented(d.consent, f, v)
           consent == [g \in Flag |-> Saved(d.consent[g], c[g], s.consent[g])]
           status == Saved(d.status, StatusByConsent(c, d.status), s.status)
           e == [s EXCEPT !.consent = consent, !.status = status]
<1>3. d \in Document /\ s \in Document /\ SoundDoc(s, req[r].q, fni)
      /\ SoundDoc(d, req[r].q, fni) /\ req[r].q \in Qualifications
  BY <1>1, WorkingFacts
<1>4. qual' = [qual EXCEPT ![req[r].q] = e]
  BY <1>2, <1>3 DEF IInv, Document
<1> HIDE DEF d, s
<1>5. c \in [Flag -> {"unset", "yes", "no"}] /\ d.status \in ProcessStatus
      /\ s.status \in ProcessStatus
  BY <1>3, DocFields, ConsentFacts DEF SoundDoc
<1>6. StatusByConsent(c, d.status) \in ProcessStatus /\ "absent" \notin ProcessStatus
  <2>1. StatusByConsent(c, d.status) \in ProcessStatus
    <3> HIDE DEF c
    <3> QED
      BY <1>5, ConsentFacts
  <2>2. "absent" \notin ProcessStatus
    BY DEF ProcessStatus
  <2> QED BY <2>1, <2>2
<1> HIDE DEF c
<1>7. consent \in [Flag -> {"unset", "yes", "no"}] /\ status \in ProcessStatus
  BY <1>3, <1>5, <1>6, DocFields DEF Saved
<1> HIDE DEF consent, status
<1>8. e \in Document /\ e.status = status /\ e.apps = s.apps /\ e.approvedBy = s.approvedBy
      /\ e.decision = s.decision
  BY <1>3, <1>7 DEF Document
<1> HIDE DEF e
<1>9. SoundDoc(e, req[r].q, fni)
  BY <1>3, <1>6, <1>7, <1>8 DEF SoundDoc
<1> QED
  BY <1>1, <1>4, <1>9, WriteStep, IdleSound DEF SaveConsent, Finish

LEMMA StartSendMailStep ==
  ASSUME IInv, NEW r \in Request, NEW q \in Qualifications, StartSendMail(r, q)
  PROVE  IInv'
<1>1. qual[q] # Absent /\ UNCHANGED <<qual, fni, links, abandoned>>
  BY ExistingFacts DEF StartSendMail
<1>2. CASE UseCaseIsValid(qual[q]) /\ Recipient(qual[q]) # "nobody"
  BY <1>1, <1>2, LoadStep DEF StartSendMail
<1>3. CASE ~(UseCaseIsValid(qual[q]) /\ Recipient(qual[q]) # "nobody")
  BY <1>1, <1>3, RefusedSound, ReadStep DEF StartSendMail, IInv
<1> QED BY <1>2, <1>3

LEMMA StartResendMailStep ==
  ASSUME IInv, NEW r \in Request, NEW q \in Qualifications, StartResendMail(r, q)
  PROVE  IInv'
  BY ExistingFacts, LoadStep DEF StartResendMail

LEMMA StartCoMailStep ==
  ASSUME IInv, NEW r \in Request, StartCoMail(r)
  PROVE  IInv'
<1>1. req[r].pc \in Working /\ req[r].pc = "coMail" /\ UNCHANGED <<qual, fni, links, abandoned>>
  BY DEF StartCoMail, At, Working, Holding
<1> DEFINE d == qual[req[r].q]
           h == [req[r] EXCEPT !.pc = "mailCo", !.doc = d]
<1>2. req[r] \in Handler /\ d \in Document /\ SoundDoc(d, req[r].q, fni)
      /\ req[r].q \in Qualifications
  BY <1>1, WorkingFacts
<1>3. CASE UseCaseIsValid(d) /\ Recipient(d) # "nobody" /\ "coapplicant" \in Applicants(d)
  <2>1. req' = [req EXCEPT ![r] = h]
    BY <1>2, <1>3 DEF StartCoMail, IInv, Handler
  <2>2. h \in Handler /\ h.pc = "mailCo" /\ h.q = req[r].q /\ h.doc = d
    BY <1>2 DEF Handler, PC
  <2> HIDE DEF h, d
  <2>3. Sound(h, qual, fni)
    BY <1>1, <1>2, <2>2, WorkingFacts DEF Sound
  <2> QED
    BY <1>1, <2>1, <2>3, ReadStep DEF IInv
<1>4. CASE ~(UseCaseIsValid(d) /\ Recipient(d) # "nobody" /\ "coapplicant" \in Applicants(d))
  BY <1>1, <1>4, FinishStep DEF StartCoMail, IInv
<1> QED BY <1>3, <1>4

LEMMA EmailStep ==
  ASSUME IInv, NEW r \in Request, Email(r)
  PROVE  IInv'
<1>1. /\ req[r].pc \in {"mail", "remail", "mailCo"}
      /\ req[r].pc \in Working /\ req[r].pc \in Holding
      /\ UNCHANGED <<qual, fni, abandoned>>
  BY DEF Email, Working, Holding
<1>2. req[r] \in Handler /\ SoundDoc(req[r].doc, req[r].q, fni)
      /\ req[r].q \in Qualifications /\ Sound(req[r], qual, fni)
  BY <1>1, WorkingFacts
<1>3. CASE links' = links /\ IF At(r, "mail") THEN Refuse(r) ELSE Finish(r)
  BY <1>1, <1>3, RefuseStep, FinishStep DEF IInv
<1>4. CASE /\ \E to \in {Recipient(req[r].doc), Recipient(Renewed(req[r].doc)), "coapplicant"} :
                /\ to \in Applicant
                /\ links' = links \cup {<<req[r].q, to>>}
           /\ Goto(r, IF At(r, "remail") THEN "saveRemail" ELSE "saveMail")
  <2> DEFINE pc == IF At(r, "remail") THEN "saveRemail" ELSE "saveMail"
             h == [req[r] EXCEPT !.pc = pc]
  <2>1. pc \in {"saveMail", "saveRemail"}
    OBVIOUS
  <2> HIDE DEF pc
  <2>2. h \in Handler /\ h.pc = pc /\ h.q = req[r].q /\ h.doc = req[r].doc
    BY <1>2, <2>1 DEF Handler, PC
  <2>3. req' = [req EXCEPT ![r] = h]
    BY <1>4 DEF Goto, pc
  <2> HIDE DEF h
  <2>4. Sound(h, qual, fni)
    BY <1>1, <1>2, <2>1, <2>2, WorkingFacts DEF Sound
  <2>5. links' \subseteq Qualifications \X Applicant
    BY <1>2, <1>4 DEF IInv
  <2> QED
    BY <1>1, <2>3, <2>4, <2>5, ReadStep
<1>5. Recipient(req[r].doc) \in Applicant \/ Recipient(req[r].doc) = "nobody"
  BY DEF Recipient, Applicant
<1>6. At(r, "mail") => Recipient(req[r].doc) \in Applicant
  BY <1>2, <1>5 DEF Sound, At
<1>7. Recipient(Renewed(req[r].doc)) \in Applicant /\ "coapplicant" \in Applicant
  BY <1>2, RenewedIsSound DEF Applicant
<1>8. CASE LET to == CASE At(r, "mail") -> Recipient(req[r].doc)
                       [] At(r, "remail") -> Recipient(Renewed(req[r].doc))
                       [] At(r, "mailCo") -> "coapplicant"
           IN /\ links' = links \cup {<<req[r].q, to>>}
              /\ Goto(r, IF At(r, "remail") THEN "saveRemail" ELSE "saveMail")
  <2>1. CASE At(r, "mail")
    BY <1>4, <1>6, <1>8, <2>1 DEF At
  <2>2. CASE At(r, "remail")
    BY <1>4, <1>7, <1>8, <2>2 DEF At
  <2>3. CASE At(r, "mailCo")
    BY <1>4, <1>7, <1>8, <2>3 DEF At
  <2> QED
    BY <1>1, <2>1, <2>2, <2>3 DEF At
<1> QED
  BY <1>3, <1>8 DEF Email

LEMMA SaveMailStep ==
  ASSUME IInv, NEW r \in Request, SaveMail(r)
  PROVE  IInv'
<1>1. /\ req[r].pc \in {"saveMail", "saveRemail"}
      /\ req[r].pc \in Working /\ req[r].pc \in Holding
  BY DEF SaveMail, Working, Holding
<1> DEFINE q == req[r].q
           d == req[r].doc
           s == qual[q]
           status == Saved(d.status, "APPLICATION EMAILED", s.status)
           applicants == s.applicants \cup Applicants(d)
           stored == [s EXCEPT !.status = status, !.applicants = applicants]
           e == IF At(r, "saveMail") THEN stored
                ELSE [stored EXCEPT !.apps = Renewed(d).apps, !.authorized = @ \ d.authorized]
<1>2. d \in Document /\ s \in Document /\ SoundDoc(s, q, fni) /\ SoundDoc(d, q, fni)
      /\ q \in Qualifications
  BY <1>1, WorkingFacts
<1>3. qual' = [qual EXCEPT ![q] = e] /\ Finish(r) /\ UNCHANGED <<fni, links, abandoned>>
  BY DEF SaveMail
<1> HIDE DEF q, d, s
<1>4. status \in ProcessStatus /\ status # "absent"
  BY <1>2, DocFields, Values DEF Saved, SoundDoc
<1>5. applicants \subseteq Applicant
  BY <1>2, DocFields DEF Applicants, Applicant
<1> HIDE DEF status, applicants
<1>6. stored \in Document /\ stored.status = status /\ stored.apps = s.apps
      /\ stored.decision = s.decision /\ stored.approvedBy = s.approvedBy
  BY <1>2, <1>4, <1>5 DEF Document
<1> HIDE DEF stored
<1>7. SoundDoc(stored, q, fni)
  BY <1>2, <1>4, <1>6 DEF SoundDoc
<1>8. SoundDoc(e, q, fni)
  <2>1. CASE At(r, "saveMail")
    BY <1>7, <2>1
  <2>2. CASE ~At(r, "saveMail")
    <3> DEFINE apps == Renewed(d).apps
               g == [stored EXCEPT !.apps = apps, !.authorized = @ \ d.authorized]
    <3>1. apps \in Seq(Application) /\ OneActive(apps) /\ OpenedForIt(apps, q, fni)
      BY <1>2, RenewedIsSound
    <3> HIDE DEF apps
    <3>2. g \in Document /\ g.status = status /\ g.apps = apps
          /\ g.decision = s.decision /\ g.approvedBy = s.approvedBy
      BY <1>6, <3>1 DEF Document, Application
    <3>3. e = g
      BY <2>2 DEF apps
    <3> HIDE DEF g, e
    <3>4. SoundDoc(g, q, fni)
      BY <1>2, <1>4, <3>1, <3>2 DEF SoundDoc
    <3> QED
      BY <3>3, <3>4
  <2> QED BY <2>1, <2>2
<1> HIDE DEF e
<1>9. SoundDoc(e, req[r].q, fni) /\ qual' = [qual EXCEPT ![req[r].q] = e]
  BY <1>3, <1>8 DEF q
<1> QED
  BY <1>1, <1>3, <1>9, WriteStep, IdleSound DEF Finish

LEMMA StartOpenStep ==
  ASSUME IInv, NEW r \in Request, NEW q \in Qualifications, NEW who \in Applicant,
         StartOpen(r, q, who)
  PROVE  IInv'
<1>1. qual[q] # Absent
  BY AbsentIsDocument DEF StartOpen
<1> QED
  BY <1>1, LoadStep DEF StartOpen

LEMMA SaveOpenStep ==
  ASSUME IInv, NEW r \in Request, SaveOpen(r)
  PROVE  IInv'
<1>1. /\ req[r].pc \in Working /\ req[r].pc \in Holding
      /\ UNCHANGED <<fni, links, abandoned>>
  BY DEF SaveOpen, At, Working, Holding
<1>2. CASE Refuse(r) /\ UNCHANGED qual
  BY <1>1, <1>2, RefuseStep
<1>3. CASE /\ qual' = [qual EXCEPT ![req[r].q].status = Saved(req[r].doc.status, "STARTED", @)]
           /\ Finish(r)
  <2> DEFINE d == req[r].doc
             s == qual[req[r].q]
             status == Saved(d.status, "STARTED", s.status)
             e == [s EXCEPT !.status = status]
  <2>1. d \in Document /\ s \in Document /\ SoundDoc(s, req[r].q, fni)
        /\ req[r].q \in Qualifications
    BY <1>1, WorkingFacts
  <2>2. qual' = [qual EXCEPT ![req[r].q] = e]
    BY <1>3, <2>1 DEF IInv, Document
  <2> HIDE DEF d, s
  <2>3. status \in ProcessStatus /\ status # "absent"
    BY <2>1, DocFields, Values DEF Saved, SoundDoc
  <2> HIDE DEF status
  <2>4. e \in Document /\ e.status = status /\ e.apps = s.apps
        /\ e.decision = s.decision /\ e.approvedBy = s.approvedBy
    BY <2>1, <2>3 DEF Document
  <2> HIDE DEF e
  <2>5. SoundDoc(e, req[r].q, fni)
    BY <2>1, <2>3, <2>4 DEF SoundDoc
  <2> QED
    BY <1>1, <1>3, <2>2, <2>5, WriteStep, IdleSound DEF Finish
<1> QED
  BY <1>2, <1>3 DEF SaveOpen

LEMMA StartApplyStep ==
  ASSUME IInv, NEW r \in Request, NEW q \in Qualifications, NEW who \in Applicant,
         StartApply(r, q, who)
  PROVE  IInv'
<1> DEFINE h == [Idle EXCEPT !.pc = "apply", !.q = q, !.doc = qual[q], !.who = who]
<1>1. qual[q] # Absent
  BY AbsentIsDocument DEF StartApply
<1>2. qual[q] \in Document
  BY DEF IInv
<1>3. h \in Handler /\ h.pc = "apply" /\ h.q = q /\ h.doc = qual[q]
  BY <1>2, IdleFacts DEF Handler, PC
<1>4. req' = [req EXCEPT ![r] = h]
  BY DEF StartApply
<1> HIDE DEF h
<1>5. Sound(h, qual, fni)
  BY <1>1, <1>3, LoadedSound
<1> QED
  BY <1>4, <1>5, ReadStep DEF StartApply, IInv

LEMMA SaveApplyStep ==
  ASSUME IInv, NEW r \in Request, SaveApply(r)
  PROVE  IInv'
<1>1. /\ req[r].pc \in Working /\ req[r].pc \in Holding
      /\ UNCHANGED <<fni, links, abandoned>>
  BY DEF SaveApply, At, Working, Holding
<1>2. CASE Refuse(r) /\ UNCHANGED qual
  BY <1>1, <1>2, RefuseStep
<1>3. CASE Finish(r) /\ UNCHANGED qual
  BY <1>1, <1>3, FinishStep DEF IInv
<1>4. CASE
        /\ qual' = [qual EXCEPT ![req[r].q].status = "IN_PROGRESS",
                                ![req[r].q].mode = Saved(req[r].doc.mode, "CREDIT_VENDOR", @),
                                ![req[r].q].authorized = @ \cup {req[r].who}]
        /\ req' = [req EXCEPT ![r].pc = "init",
                              ![r].doc.status = "IN_PROGRESS",
                              ![r].doc.mode = "CREDIT_VENDOR",
                              ![r].doc.authorized = @ \cup {req[r].who}]
  <2> DEFINE d == req[r].doc
             s == qual[req[r].q]
             mode == Saved(d.mode, "CREDIT_VENDOR", s.mode)
             authorized == s.authorized \cup {req[r].who}
             e == [s EXCEPT !.status = "IN_PROGRESS", !.mode = mode, !.authorized = authorized]
             held == d.authorized \cup {req[r].who}
             doc == [d EXCEPT !.status = "IN_PROGRESS", !.mode = "CREDIT_VENDOR",
                              !.authorized = held]
             h == [req[r] EXCEPT !.pc = "init", !.doc = doc]
  <2>1. d \in Document /\ s \in Document /\ SoundDoc(s, req[r].q, fni)
        /\ SoundDoc(d, req[r].q, fni) /\ req[r].q \in Qualifications /\ req[r] \in Handler
        /\ req[r].who \in Applicant /\ qual[req[r].q] # Absent
    BY <1>1, WorkingFacts DEF Handler
  <2>2. qual' = [qual EXCEPT ![req[r].q] = e]
    BY <1>4, <2>1 DEF IInv, Document
  <2>3. req' = [req EXCEPT ![r] = h]
    <3>1. [req[r] EXCEPT !.pc = "init", !.doc.status = "IN_PROGRESS",
                         !.doc.mode = "CREDIT_VENDOR", !.doc.authorized = @ \cup {req[r].who}]
          = h
      BY <2>1 DEF Handler, Document
    <3>2. req' = [req EXCEPT ![r] =
            [req[r] EXCEPT !.pc = "init", !.doc.status = "IN_PROGRESS",
                           !.doc.mode = "CREDIT_VENDOR", !.doc.authorized = @ \cup {req[r].who}]]
      BY <1>4 DEF IInv
    <3> HIDE DEF h
    <3> QED
      BY <3>1, <3>2
  <2> HIDE DEF d, s
  <2>4. mode \in {"none", "AGENT", "CREDIT_VENDOR"} /\ authorized \subseteq Applicant
        /\ held \subseteq Applicant
    BY <2>1, DocFields DEF Saved
  <2> HIDE DEF mode, authorized, held
  <2>5. e \in Document /\ e.status = "IN_PROGRESS" /\ e.apps = s.apps
        /\ e.decision = s.decision /\ e.approvedBy = s.approvedBy
    BY <2>1, <2>4, Values DEF Document
  <2>6. doc \in Document /\ doc.status = "IN_PROGRESS" /\ doc.apps = d.apps
        /\ doc.decision = d.decision /\ doc.approvedBy = d.approvedBy
    BY <2>1, <2>4, Values DEF Document
  <2> HIDE DEF e, doc
  <2>7. SoundDoc(e, req[r].q, fni) /\ SoundDoc(doc, req[r].q, fni)
    BY <2>1, <2>5, <2>6 DEF SoundDoc
  <2>8. h \in Handler /\ h.pc = "init" /\ h.q = req[r].q /\ h.doc = doc
    BY <2>1, <2>6 DEF Handler, PC
  <2> HIDE DEF h
  <2>9. Sound(h, qual, fni)
    BY <2>1, <2>7, <2>8 DEF Sound
  <2> QED
    BY <1>1, <2>2, <2>3, <2>7, <2>9, WriteStep
<1> QED
  BY <1>2, <1>3, <1>4 DEF SaveApply

\* FNI opens applications and takes decisions, the handler r goes on as h.
LEMMA VendorStep ==
  ASSUME IInv, NEW r \in Request, UNCHANGED <<qual, links, abandoned>>, fni' \in Vendors,
         \A n \in Refnum : /\ fni[n].of \in Qualifications => fni'[n].of = fni[n].of
                           /\ fni[n].made \subseteq fni'[n].made,
         NEW h, req' = [req EXCEPT ![r] = h], Sound(h, qual', fni')
  PROVE  IInv'
<1>1. Evolve(qual, fni, qual', fni')
  BY DEF Evolve
<1>2. Stored(qual', fni')
  BY <1>1, VendorStays DEF Stored, IInv
<1> QED
  BY <1>1, <1>2, HandlerStep DEF IInv

LEMMA CallInitStep ==
  ASSUME IInv, NEW r \in Request, CallInit(r)
  PROVE  IInv'
<1>1. /\ req[r].pc = "init" /\ req[r].pc \in Working /\ req[r].pc \in Holding
      /\ UNCHANGED <<qual, links, abandoned>>
  BY DEF CallInit, At, Working, Holding
<1> DEFINE d == req[r].doc
           q == req[r].q
<1>2. req[r] \in Handler /\ d \in Document /\ SoundDoc(d, q, fni)
      /\ q \in Qualifications /\ qual[q] # Absent
  BY <1>1, WorkingFacts
<1>3. ASSUME NEW n \in Refnum, req' = [req EXCEPT ![r].pc = "saveInit", ![r].refnum = n],
             fni' \in Vendors,
             \A m \in Refnum : /\ fni[m].of \in Qualifications => fni'[m].of = fni[m].of
                               /\ fni[m].made \subseteq fni'[m].made,
             fni'[n].of = q
      PROVE  IInv'
  <2> DEFINE h == [req[r] EXCEPT !.pc = "saveInit", !.refnum = n]
  <2>1. req' = [req EXCEPT ![r] = h]
    BY <1>2, <1>3 DEF IInv, Handler
  <2>2. h \in Handler /\ h.pc = "saveInit" /\ h.q = q /\ h.doc = d /\ h.refnum = n
    BY <1>2 DEF Handler, PC, Reference
  <2> HIDE DEF h
  <2>3. SoundDoc(d, q, fni')
    <3>1. Evolve(qual, fni, qual', fni')
      BY <1>1, <1>3 DEF Evolve
    <3> HIDE DEF d, q
    <3> QED
      BY <1>2, <3>1, VendorStays
  <2>4. Opened(n, q, fni')
    BY <1>3 DEF Opened
  <2>5. Sound(h, qual', fni')
    BY <1>1, <1>2, <2>2, <2>3, <2>4 DEF Sound
  <2> QED
    BY <1>1, <1>3, <2>1, <2>5, VendorStep
<1>4. CASE /\ AsCoApplicant(r)
           /\ LET n == d.apps[ActiveIndex(d)].refnum IN
              /\ n \in Refnum
              /\ req' = [req EXCEPT ![r].pc = "saveInit", ![r].refnum = n]
           /\ UNCHANGED fni
  <2> DEFINE n == d.apps[ActiveIndex(d)].refnum
  <2>1. ActiveIndex(d) \in DOMAIN d.apps
    BY <1>2, ActiveIndexIs DEF SoundDoc
  <2>2. Opened(n, q, fni)
    BY <1>2, <1>4, <2>1 DEF SoundDoc, OpenedForIt
  <2>3. n \in Refnum /\ fni'[n].of = q
        /\ req' = [req EXCEPT ![r].pc = "saveInit", ![r].refnum = n]
    BY <1>4, <2>2 DEF Opened
  <2> HIDE DEF n, d, q
  <2> QED
    BY <1>3, <1>4, <2>3 DEF IInv
<1>5. CASE \E n \in Refnum :
             /\ fni[n].of = NoQualification
             /\ fni' = [fni EXCEPT ![n].of = q]
             /\ req' = [req EXCEPT ![r].pc = "saveInit", ![r].refnum = n]
  <2>1. PICK n \in Refnum :
          /\ fni[n].of = NoQualification
          /\ fni' = [fni EXCEPT ![n].of = q]
          /\ req' = [req EXCEPT ![r].pc = "saveInit", ![r].refnum = n]
    BY <1>5
  <2>2. fni' \in Vendors /\ fni'[n].of = q /\ fni'[n].made = fni[n].made
        /\ \A m \in Refnum : m # n => fni'[m] = fni[m]
    BY <1>2, <2>1 DEF IInv, Vendors
  <2> HIDE DEF d, q
  <2> QED
    BY <1>3, <2>1, <2>2, QualificationAssumption
<1>6. CASE req' = [req EXCEPT ![r].pc = "saveInit", ![r].answer = "error"] /\ UNCHANGED fni
  <2> DEFINE h == [req[r] EXCEPT !.pc = "saveInit", !.answer = "error"]
  <2>1. req' = [req EXCEPT ![r] = h]
    BY <1>2, <1>6 DEF IInv, Handler
  <2>2. h \in Handler /\ h.pc = "saveInit" /\ h.q = q /\ h.doc = d /\ h.answer = "error"
    BY <1>2 DEF Handler, PC
  <2> HIDE DEF h
  <2>3. Sound(h, qual, fni)
    BY <1>2, <2>2 DEF Sound
  <2> QED
    BY <1>1, <1>6, <2>1, <2>3, ReadStep DEF IInv
<1>7. CASE Refuse(r) /\ UNCHANGED fni
  BY <1>1, <1>7, RefuseStep
<1> QED
  BY <1>4, <1>5, <1>6, <1>7 DEF CallInit

LEMMA SaveInitStep ==
  ASSUME IInv, NEW r \in Request, SaveInit(r)
  PROVE  IInv'
<1>1. /\ req[r].pc = "saveInit" /\ req[r].pc \in Working /\ req[r].pc \in Holding
      /\ UNCHANGED <<fni, links, abandoned>>
  BY DEF SaveInit, At, Working, Holding
<1> DEFINE d == req[r].doc
           q == req[r].q
<1>2. req[r] \in Handler /\ d \in Document /\ SoundDoc(d, q, fni)
      /\ q \in Qualifications /\ qual[q] # Absent /\ Sound(req[r], qual, fni)
  BY <1>1, WorkingFacts
<1>3. CASE req[r].answer = "error"
  <2>1. PICK e : SoundDoc(e, q, fni) /\ qual' = [qual EXCEPT ![q] = e]
    <3>1. Overwrite(q, d)
      BY <1>3 DEF SaveInit
    <3> QED
      BY <1>2, <3>1, OverwriteStep
  <2>2. Refuse(r)
    BY <1>3 DEF SaveInit
  <2> QED
    BY <1>1, <1>2, <2>1, <2>2, RefusedSound, WriteStep DEF Refuse
<1>4. CASE req[r].answer # "error"
  <2> DEFINE noted == IF AsCoApplicant(r) THEN d
                      ELSE [d EXCEPT !.apps[ActiveIndex(d)].refnum = req[r].refnum]
             pc == IF Joint(d) /\ req[r].who = "applicant" THEN "coMail" ELSE "solarApply"
             h == [Idle EXCEPT !.q = q, !.refnum = req[r].refnum, !.pc = pc]
  <2>1. Opened(req[r].refnum, q, fni)
    BY <1>1, <1>2, <1>4 DEF Sound
  <2>2. SoundDoc(noted, q, fni)
    BY <1>2, <2>1, NotedIsSound
  <2>3. Overwrite(q, noted) /\ req' = [req EXCEPT ![r] = h]
    BY <1>4 DEF SaveInit
  <2>4. pc \in {"coMail", "solarApply"} /\ pc \in PC
    BY DEF PC
  <2> HIDE DEF noted, pc
  <2>5. h \in Handler /\ h.pc = pc /\ h.q = q /\ h.refnum = req[r].refnum
    BY <1>2, <2>4, IdleFacts DEF Handler
  <2> HIDE DEF h
  <2>6. Sound(h, qual, fni)
    BY <1>2, <2>1, <2>4, <2>5 DEF Sound, Holding
  <2>7. PICK e : SoundDoc(e, q, fni) /\ qual' = [qual EXCEPT ![q] = e]
    BY <1>2, <2>2, <2>3, OverwriteStep
  <2> QED
    BY <1>1, <2>3, <2>6, <2>7, WriteStep
<1> QED BY <1>3, <1>4

LEMMA CallApplyStep ==
  ASSUME IInv, NEW r \in Request, CallApply(r)
  PROVE  IInv'
<1>1. /\ req[r].pc = "solarApply" /\ req[r].pc \in Working
      /\ UNCHANGED <<qual, links, abandoned>>
  BY DEF CallApply, At, Working, Holding
<1> DEFINE q == req[r].q
           n == req[r].refnum
<1>2. req[r] \in Handler /\ q \in Qualifications /\ qual[q] # Absent
      /\ n \in Refnum /\ fni[n].of = q
  BY <1>1, WorkingFacts DEF Sound, Opened
<1>3. ASSUME NEW a \in Decision \cup {"error"}, a = "APPROVED" => ApprovedByFni(q, fni'),
             req' = [req EXCEPT ![r].pc = "loadDecision", ![r].answer = a], fni' \in Vendors,
             \A m \in Refnum : /\ fni[m].of \in Qualifications => fni'[m].of = fni[m].of
                               /\ fni[m].made \subseteq fni'[m].made
      PROVE  IInv'
  <2> DEFINE h == [req[r] EXCEPT !.pc = "loadDecision", !.answer = a]
  <2>1. req' = [req EXCEPT ![r] = h]
    BY <1>2, <1>3 DEF IInv, Handler
  <2>2. h \in Handler /\ h.pc = "loadDecision" /\ h.q = q /\ h.answer = a
    BY <1>2 DEF Handler, PC
  <2> HIDE DEF h
  <2>3. a # "none"
    BY DEF Decision, Final
  <2>4. Sound(h, qual', fni')
    BY <1>1, <1>2, <1>3, <2>2, <2>3 DEF Sound, Holding
  <2> QED
    BY <1>1, <1>3, <2>1, <2>4, VendorStep
<1>4. CASE \E a \in Decisions :
             /\ fni' = [fni EXCEPT ![n].made = @ \cup {a}]
             /\ req' = [req EXCEPT ![r].pc = "loadDecision", ![r].answer = a]
  <2>1. PICK a \in Decisions :
          /\ fni' = [fni EXCEPT ![n].made = @ \cup {a}]
          /\ req' = [req EXCEPT ![r].pc = "loadDecision", ![r].answer = a]
    BY <1>4
  <2>2. a \in Decision
    BY QualificationAssumption
  <2> HIDE DEF n, q
  <2>3. fni' \in Vendors /\ fni'[n].of = q /\ fni'[n].made = fni[n].made \cup {a}
        /\ \A m \in Refnum : m # n => fni'[m] = fni[m]
    BY <1>2, <2>1, <2>2 DEF IInv, Vendors
  <2>4. a = "APPROVED" => ApprovedByFni(q, fni')
    BY <1>2, <2>3 DEF ApprovedByFni
  <2> QED
    BY <1>2, <1>3, <2>1, <2>2, <2>3, <2>4
<1>5. CASE req' = [req EXCEPT ![r].pc = "loadDecision", ![r].answer = "error"] /\ UNCHANGED fni
  BY <1>3, <1>5 DEF IInv
<1>6. CASE Refuse(r) /\ UNCHANGED fni
  BY <1>1, <1>6, RefuseStep
<1> QED
  BY <1>4, <1>5, <1>6 DEF CallApply

\* FNI decides by itself.
LEMMA DecideStep ==
  ASSUME IInv, NEW n \in Refnum, NEW a \in Decisions, Decide(n, a)
  PROVE  IInv'
<1>1. fni' = [fni EXCEPT ![n].made = @ \cup {a}] /\ UNCHANGED <<qual, req, links, abandoned>>
      /\ a \in Decision
  BY QualificationAssumption DEF Decide
<1>2. fni' \in Vendors /\ fni'[n].of = fni[n].of /\ fni'[n].made = fni[n].made \cup {a}
      /\ \A m \in Refnum : m # n => fni'[m] = fni[m]
  BY <1>1 DEF IInv, Vendors
<1>3. Evolve(qual, fni, qual', fni')
  BY <1>1, <1>2 DEF Evolve
<1>4. Stored(qual', fni')
  BY <1>1, <1>3, VendorStays DEF Stored, IInv
<1>5. \A r \in Request : Sound(req'[r], qual', fni')
  BY <1>1, <1>3, SoundStays DEF IInv
<1> QED
  BY <1>1, <1>2, <1>4, <1>5 DEF IInv

LEMMA StartReportStep ==
  ASSUME IInv, NEW r \in Request, NEW n \in Refnum, NEW q \in Qualifications,
         StartReport(r, n, q)
  PROVE  IInv'
<1>1. PICK a \in fni[n].made \cup {"error"} :
        req' = [req EXCEPT ![r] = [Idle EXCEPT !.pc = "loadDecision", !.q = q,
                                               !.refnum = n, !.answer = a]]
  BY DEF StartReport
<1>2. PICK i \in DOMAIN qual[q].apps : qual[q].apps[i].refnum = n
  BY DEF StartReport
<1>3. qual[q] # Absent
  BY <1>2, AbsentIsDocument
<1>4. Opened(n, q, fni)
  BY <1>2, <1>3 DEF IInv, Stored, SoundDoc, OpenedForIt
<1>5. a \in Decision \cup {"error"} /\ a # "none"
  BY DEF IInv, Vendors, Decision, Final
<1>6. a = "APPROVED" => ApprovedByFni(q, fni)
  BY <1>1, <1>4 DEF Opened, ApprovedByFni
<1> DEFINE h == [Idle EXCEPT !.pc = "loadDecision", !.q = q, !.refnum = n, !.answer = a]
<1>7. h \in Handler /\ h.pc = "loadDecision" /\ h.q = q /\ h.answer = a
  BY <1>5, IdleFacts DEF Handler, PC, Reference
<1> HIDE DEF h
<1>8. Sound(h, qual, fni)
  BY <1>3, <1>5, <1>6, <1>7 DEF Sound, Holding
<1>9. req' = [req EXCEPT ![r] = h] /\ UNCHANGED <<qual, fni, links, abandoned>>
  BY <1>1 DEF StartReport, h
<1> QED
  BY <1>8, <1>9, ReadStep DEF IInv

LEMMA LoadDecisionStep ==
  ASSUME IInv, NEW r \in Request, LoadDecision(r)
  PROVE  IInv'
<1>1. /\ req[r].pc = "loadDecision" /\ req[r].pc \in Working
      /\ UNCHANGED <<qual, fni, links, abandoned>>
  BY DEF LoadDecision, At, Working, Holding
<1> DEFINE d == qual[req[r].q]
           h == [req[r] EXCEPT !.pc = "saveDecision", !.doc = d]
<1>2. req[r] \in Handler /\ d \in Document /\ SoundDoc(d, req[r].q, fni)
      /\ req[r].q \in Qualifications /\ d # Absent /\ Sound(req[r], qual, fni)
  BY <1>1, WorkingFacts
<1>3. req' = [req EXCEPT ![r] = h]
  BY <1>2 DEF LoadDecision, IInv, Handler
<1>4. h \in Handler /\ h.pc = "saveDecision" /\ h.q = req[r].q /\ h.doc = d
      /\ h.answer = req[r].answer
  BY <1>2 DEF Handler, PC
<1> HIDE DEF h
<1>5. Sound(h, qual, fni)
  BY <1>1, <1>2, <1>4 DEF Sound
<1> QED
  BY <1>1, <1>3, <1>5, ReadStep DEF IInv

LEMMA SaveDecisionStep ==
  ASSUME IInv, NEW r \in Request, SaveDecision(r)
  PROVE  IInv'
<1>1. /\ req[r].pc = "saveDecision" /\ req[r].pc \in Working /\ req[r].pc \in Holding
      /\ UNCHANGED <<fni, links, abandoned>>
  BY DEF SaveDecision, At, Working, Holding
<1> DEFINE q == req[r].q
           a == req[r].answer
<1>2. req[r] \in Handler /\ SoundDoc(req[r].doc, q, fni) /\ q \in Qualifications
      /\ qual[q] # Absent /\ Sound(req[r], qual, fni)
  BY <1>1, WorkingFacts
<1>3. a \in Decision \cup {"error"} /\ (a = "APPROVED" => ApprovedByFni(q, fni))
  BY <1>1, <1>2 DEF Sound, Handler
<1>4. SoundDoc(Decided(req[r].doc, a), q, fni)
  BY <1>2, <1>3, DecidedIsSound
<1>5. PICK e : SoundDoc(e, q, fni) /\ qual' = [qual EXCEPT ![q] = e]
  BY <1>2, <1>4, OverwriteStep DEF SaveDecision
<1>6. CASE Refuse(r)
  BY <1>1, <1>2, <1>5, <1>6, RefusedSound, WriteStep DEF Refuse
<1>7. CASE Finish(r)
  BY <1>1, <1>5, <1>7, IdleSound, WriteStep DEF Finish
<1> QED
  BY <1>6, <1>7 DEF SaveDecision

LEMMA FailStep ==
  ASSUME IInv, NEW r \in Request, Fail(r)
  PROVE  IInv'
<1>1. req[r].pc \in Working
  BY DEF Fail, At, Working
<1> DEFINE s == qual[req[r].q]
           e == [s EXCEPT !.status = "ERROR"]
<1>2. s \in Document /\ SoundDoc(s, req[r].q, fni) /\ req[r].q \in Qualifications
  BY <1>1, WorkingFacts
<1>3. qual' = [qual EXCEPT ![req[r].q] = e]
  BY <1>2 DEF Fail, IInv, Document
<1> HIDE DEF s
<1>4. e \in Document /\ e.status = "ERROR" /\ e.apps = s.apps
      /\ e.decision = s.decision /\ e.approvedBy = s.approvedBy
  BY <1>2, Values DEF Document
<1> HIDE DEF e
<1>5. SoundDoc(e, req[r].q, fni)
  BY <1>2, <1>4 DEF SoundDoc
<1> QED
  BY <1>1, <1>3, <1>5, WriteStep, IdleSound DEF Fail, Finish

LEMMA AbandonStep ==
  ASSUME IInv, NEW r \in Request, Abandon(r)
  PROVE  IInv'
<1>1. req[r].q \in Qualifications \cup {NoQualification}
  BY DEF IInv, Handler
<1>2. abandoned' \subseteq Qualifications \cup {NoQualification}
  BY <1>1 DEF Abandon, IInv
<1>3. Evolve(qual, fni, qual', fni')
  BY DEF Abandon, Evolve
<1> QED
  BY <1>2, <1>3, HandlerStep, IdleSound DEF Abandon, Finish, IInv

LEMMA NextInv ==
  ASSUME IInv, [Next]_vars
  PROVE  IInv'
<1>1. CASE UNCHANGED vars
  BY <1>1 DEF vars, IInv
<1>2. ASSUME NEW r \in Request, Arrive(r) PROVE IInv'
  <2>1. CASE StartCreate(r)
    BY <2>1, StartCreateStep
  <2>2. ASSUME NEW q \in Qualifications,
               StartEdit(r, q) \/ StartSendMail(r, q) \/ StartResendMail(r, q)
        PROVE  IInv'
    BY <2>2, StartEditStep, StartSendMailStep, StartResendMailStep
  <2>3. ASSUME NEW q \in Qualifications, NEW who \in Applicant,
               StartOpen(r, q, who) \/ StartApply(r, q, who)
        PROVE  IInv'
    BY <2>3, StartOpenStep, StartApplyStep
  <2>4. ASSUME NEW n \in Refnum, NEW q \in Qualifications, StartReport(r, n, q)
        PROVE  IInv'
    BY <2>4, StartReportStep
  <2> QED
    BY <1>2, <2>1, <2>2, <2>3, <2>4 DEF Arrive
<1>3. ASSUME NEW r \in Request, Continue(r) PROVE IInv'
  <2>1. ASSUME NEW q \in Qualifications, Create(r, q) PROVE IInv'
    BY <2>1, CreateStep
  <2>2. CASE SaveApproval(r) \/ SaveConsent(r) \/ StartCoMail(r) \/ Email(r) \/ SaveMail(r)
    BY <2>2, SaveApprovalStep, SaveConsentStep, StartCoMailStep, EmailStep, SaveMailStep
  <2>3. CASE SaveOpen(r) \/ SaveApply(r) \/ CallInit(r) \/ SaveInit(r) \/ CallApply(r)
    BY <2>3, SaveOpenStep, SaveApplyStep, CallInitStep, SaveInitStep, CallApplyStep
  <2>4. CASE LoadDecision(r) \/ SaveDecision(r) \/ Fail(r)
    BY <2>4, LoadDecisionStep, SaveDecisionStep, FailStep
  <2> QED
    BY <1>3, <2>1, <2>2, <2>3, <2>4 DEF Continue
<1>4. CASE Vendor
  BY <1>4, DecideStep DEF Vendor
<1> QED
  BY <1>1, <1>2, <1>3, <1>4, AbandonStep DEF Next

LEMMA InitInv == Init => IInv
<1> SUFFICES ASSUME Init PROVE IInv
  OBVIOUS
<1>1. qual \in [Qualifications -> Document] /\ Stored(qual, fni)
  BY AbsentIsDocument DEF Init, Stored
<1>2. fni \in Vendors /\ links = {} /\ abandoned = {}
  BY DEF Init, Vendors
<1>3. req \in [Request -> Handler] /\ \A r \in Request : Sound(req[r], qual, fni)
  BY IdleSound, IdleFacts DEF Init
<1> QED
  BY <1>1, <1>2, <1>3 DEF IInv

LEMMA Invariance == Spec => []IInv
<1>1. IInv /\ [Next]_vars => IInv'
  BY NextInv
<1> QED
  BY <1>1, InitInv, PTL DEF Spec

(***************************************************************************)
(* Theorems.                                                               *)
(***************************************************************************)

\* Every record, request and FNI application has its fields in their types.
THEOREM TypeCorrect == Spec => []TypeOK
<1>1. IInv => TypeOK
  BY DEF IInv, TypeOK, Handler, Vendors
<1> QED
  BY <1>1, Invariance, PTL

\* Whatever overlaps, resends and whole-document writes included, every record has exactly
\* one ACTIVE application (resendMail, handleFNIInitResponse).
THEOREM OneApplicationActive == Spec => []OneActiveApplication
<1>1. IInv => OneActiveApplication
  <2> SUFFICES ASSUME IInv, NEW q \in Existing
               PROVE  \E i \in Active(qual[q]) : Active(qual[q]) = {i}
    BY DEF OneActiveApplication
  <2>1. OneActive(qual[q].apps)
    BY ExistingFacts DEF SoundDoc
  <2> QED
    BY <2>1 DEF OneActive, Active
<1> QED
  BY <1>1, Invariance, PTL

\* However stale a document is when it is written back, and however late, repeated or
\* misdirected a report of FNI, an APPROVED record has been approved by an agent or by FNI,
\* in an application opened for it (setManualApproval, handleProcessFniSolarApplyResponse).
THEOREM ApprovalSourced == Spec => []ApprovalHasSource
<1>1. IInv => ApprovalHasSource
  <2> SUFFICES ASSUME IInv, NEW q \in Qualifications, qual[q].decision = "APPROVED"
               PROVE  qual[q].approvedBy \/ ApprovedByFni(q, fni)
    BY DEF ApprovalHasSource, ApprovedByFni
  <2>1. qual[q] # Absent
    BY AbsentIsDocument
  <2> QED
    BY <2>1 DEF IInv, Stored, SoundDoc
<1> QED
  BY <1>1, Invariance, PTL

(***************************************************************************)
(* One client at a time: the document a handler holds is the stored one.   *)
(***************************************************************************)
OneClient == \A r, s \in Request : r = s

\* Somebody who can go on has the link, if the document d of q waits for its applicants.
Reachable(d, q, l) ==
  d.status = "APPLICATION EMAILED" => \E who \in d.applicants \ d.authorized : <<q, who>> \in l

\* What FNI knows of an active application, somebody has authorised.
Authorised(d) ==
  \A i \in DOMAIN d.apps :
    d.apps[i].state = "ACTIVE" /\ d.apps[i].refnum # NoRefnum => d.authorized # {}

Settled(ql, l) ==
  \A q \in Qualifications : ql[q] # Absent => Reachable(ql[q], q, l) /\ Authorised(ql[q])

Informed(h, ql, l) ==
  /\ h.pc \in Holding => h.doc = ql[h.q]
  /\ h.pc = "mailCo" => "coapplicant" \in Applicants(h.doc) \ h.doc.authorized
  /\ h.pc = "saveMail" => \E who \in Applicants(h.doc) \ h.doc.authorized : <<h.q, who>> \in l
  /\ h.pc = "saveRemail" => <<h.q, "applicant">> \in l
  /\ h.pc = "coMail" => "applicant" \in ql[h.q].authorized
  /\ h.pc \in {"init", "saveInit"} => h.who \in h.doc.authorized

ClientInv == Settled(qual, links) /\ \A r \in Request : Informed(req[r], qual, links)

LEMMA IdleInformed == ASSUME NEW ql, NEW l PROVE Informed(Idle, ql, l)
<1>1. Idle.pc = "idle"
  BY IdleFacts
<1> QED
  BY <1>1 DEF Informed, Holding

LEMMA RefusedInformed ==
  ASSUME NEW h, h.pc = "fail", NEW ql, NEW l PROVE Informed(h, ql, l)
  BY DEF Informed, Holding

\* The record a handler works on, and the document it holds.
LEMMA ClientFacts ==
  ASSUME IInv, ClientInv, NEW r \in Request, req[r].pc \in Working
  PROVE  /\ req[r] \in Handler /\ Informed(req[r], qual, links)
         /\ req[r].q \in Qualifications /\ qual[req[r].q] # Absent
         /\ qual[req[r].q] \in Document /\ SoundDoc(qual[req[r].q], req[r].q, fni)
         /\ Reachable(qual[req[r].q], req[r].q, links) /\ Authorised(qual[req[r].q])
         /\ req[r].pc \in Holding => req[r].doc = qual[req[r].q]
<1>1. Informed(req[r], qual, links) /\ Settled(qual, links)
  BY DEF ClientInv
<1>2. req[r].q \in Qualifications /\ qual[req[r].q] # Absent
  BY WorkingFacts
<1>3. Reachable(qual[req[r].q], req[r].q, links) /\ Authorised(qual[req[r].q])
  BY <1>1, <1>2 DEF Settled
<1> QED
  BY <1>1, <1>2, <1>3, WorkingFacts DEF Informed

\* The only request r writes e to the record q.
LEMMA WriteClient ==
  ASSUME OneClient, IInv, ClientInv, NEW r \in Request, NEW q \in Qualifications,
         NEW e \in Document, qual' = [qual EXCEPT ![q] = e], links \subseteq links',
         Reachable(e, q, links'), Authorised(e), Informed(req'[r], qual', links')
  PROVE  ClientInv'
<1>1. qual'[q] = e /\ \A p \in Qualifications : p # q => qual'[p] = qual[p]
  BY DEF IInv
<1>2. ASSUME NEW p \in Qualifications, qual'[p] # Absent
      PROVE  Reachable(qual'[p], p, links') /\ Authorised(qual'[p])
  <2>1. CASE p = q
    BY <1>1, <2>1
  <2>2. CASE p # q
    <3>1. qual'[p] = qual[p]
      BY <1>1, <2>2
    <3>2. Reachable(qual[p], p, links) /\ Authorised(qual[p])
      BY <1>2, <3>1 DEF ClientInv, Settled
    <3>3. Reachable(qual[p], p, links')
      BY <3>2 DEF Reachable
    <3> QED
      BY <3>1, <3>2, <3>3
  <2> QED BY <2>1, <2>2
<1>3. Settled(qual', links')
  BY <1>2 DEF Settled
<1>4. \A s \in Request : Informed(req'[s], qual', links')
  BY DEF OneClient
<1> QED
  BY <1>3, <1>4 DEF ClientInv

\* The only request r goes on, and no record changes.
LEMMA ReadClient ==
  ASSUME OneClient, ClientInv, NEW r \in Request, qual' = qual, links \subseteq links',
         Informed(req'[r], qual, links')
  PROVE  ClientInv'
<1>1. Settled(qual', links')
  BY DEF ClientInv, Settled, Reachable
<1>2. \A s \in Request : Informed(req'[s], qual', links')
  BY DEF OneClient
<1> QED
  BY <1>1, <1>2 DEF ClientInv

\* The only request r changes the status, and no more than adds an authorisation.
LEMMA SavedClient ==
  ASSUME OneClient, IInv, ClientInv, NEW r \in Request, req[r].pc \in Working,
         NEW e \in Document, qual' = [qual EXCEPT ![req[r].q] = e], links' = links,
         e.apps = qual[req[r].q].apps,
         qual[req[r].q].authorized \subseteq e.authorized,
         \/ e.status # "APPLICATION EMAILED"
         \/ /\ e.status = qual[req[r].q].status
            /\ e.applicants = qual[req[r].q].applicants
            /\ e.authorized = qual[req[r].q].authorized,
         Informed(req'[r], qual', links)
  PROVE  ClientInv'
<1>1. Reachable(e, req[r].q, links)
  BY ClientFacts DEF Reachable
<1>2. Authorised(e)
  BY ClientFacts DEF Authorised
<1> QED
  BY <1>1, <1>2, WriteClient, ClientFacts

LEMMA FinishClient ==
  ASSUME OneClient, IInv, ClientInv, NEW r \in Request, Finish(r), UNCHANGED <<qual, links>>
  PROVE  ClientInv'
<1>1. req'[r] = Idle
  BY DEF Finish, IInv
<1> QED
  BY <1>1, ReadClient, IdleInformed

LEMMA RefuseClient ==
  ASSUME OneClient, IInv, ClientInv, NEW r \in Request, Refuse(r), UNCHANGED <<qual, links>>
  PROVE  ClientInv'
<1>1. req'[r].pc = "fail"
  BY IdleFacts DEF Refuse, IInv, Handler
<1> QED
  BY <1>1, ReadClient, RefusedInformed

LEMMA LoadClient ==
  ASSUME OneClient, IInv, ClientInv, NEW r \in Request, NEW q \in Qualifications,
         NEW pc \in {"approve", "consent", "mail", "remail", "open"},
         Load(r, q, pc), UNCHANGED <<qual, links>>
  PROVE  ClientInv'
<1> DEFINE h == [Idle EXCEPT !.pc = pc, !.q = q, !.doc = qual[q]]
<1>1. h.pc = pc /\ h.q = q /\ h.doc = qual[q]
  BY IdleFacts DEF Handler
<1>2. req'[r] = h
  BY DEF Load, IInv
<1> HIDE DEF h
<1>3. Informed(h, qual, links)
  BY <1>1 DEF Informed
<1> QED
  BY <1>2, <1>3, ReadClient

(***************************************************************************)
(* The actions again, with one client.                                     *)
(***************************************************************************)

LEMMA StartCreateClient ==
  ASSUME OneClient, IInv, ClientInv, NEW r \in Request, StartCreate(r)
  PROVE  ClientInv'
<1>1. req'[r] = [req[r] EXCEPT !.pc = "create"] /\ req[r] \in Handler
      /\ UNCHANGED <<qual, links>>
  BY DEF StartCreate, Goto, IInv
<1>2. req'[r].pc = "create"
  BY <1>1 DEF Handler
<1>3. Informed(req'[r], qual, links)
  BY <1>2 DEF Informed, Holding
<1> QED
  BY <1>1, <1>3, ReadClient

LEMMA CreateClient ==
  ASSUME OneClient, IInv, ClientInv, NEW r \in Request, NEW q \in Qualifications, Create(r, q)
  PROVE  ClientInv'
<1> DEFINE e == [Absent EXCEPT !.status = "INITIATED", !.apps = <<NewApplication>>]
<1>1. NewApplication \in Application /\ NewApplication.refnum = NoRefnum
  BY DEF NewApplication, Application, Reference
<1>2. <<NewApplication>> \in Seq(Application) /\ DOMAIN <<NewApplication>> = {1}
      /\ <<NewApplication>>[1] = NewApplication
  BY <1>1
<1>3. e \in Document /\ e.status = "INITIATED" /\ e.apps = <<NewApplication>>
  BY <1>2, AbsentIsDocument, Values DEF Document, Application
<1>4. qual' = [qual EXCEPT ![q] = e] /\ req'[r] = Idle /\ links' = links
  BY DEF Create, Finish, IInv
<1> HIDE DEF e
<1>5. Reachable(e, q, links') /\ Authorised(e)
  BY <1>1, <1>2, <1>3 DEF Reachable, Authorised
<1> QED
  BY <1>3, <1>4, <1>5, WriteClient, IdleInformed

LEMMA StartEditClient ==
  ASSUME OneClient, IInv, ClientInv, NEW r \in Request, NEW q \in Qualifications,
         StartEdit(r, q)
  PROVE  ClientInv'
  BY LoadClient DEF StartEdit

LEMMA SaveApprovalClient ==
  ASSUME OneClient, IInv, ClientInv, NEW r \in Request, SaveApproval(r)
  PROVE  ClientInv'
<1>1. req[r].pc \in Working /\ req[r].pc \in Holding
  BY DEF SaveApproval, At, Working, Holding
<1> DEFINE d == req[r].doc
           s == qual[req[r].q]
           mode == Saved(d.mode, "AGENT", s.mode)
           decision == Saved(d.decision, "APPROVED", s.decision)
           e == [s EXCEPT !.status = "COMPLETED", !.mode = mode, !.decision = decision,
                          !.approvedBy = TRUE]
<1>2. d = s /\ s \in Document /\ req[r].q \in Qualifications
  BY <1>1, ClientFacts
<1>3. Saved(d.status, "COMPLETED", s.status) = "COMPLETED"
  BY <1>2 DEF Saved
<1>4. qual' = [qual EXCEPT ![req[r].q] = e]
  BY <1>2, <1>3 DEF SaveApproval, IInv, Document
<1> HIDE DEF d, s
<1>5. mode \in {"none", "AGENT", "CREDIT_VENDOR"}
      /\ decision \in Final \cup {"none", "PENDING", "ERROR"}
  BY <1>2, DocFields, Values DEF Saved
<1> HIDE DEF mode, decision
<1>6. e \in Document /\ e.status = "COMPLETED" /\ e.apps = s.apps
      /\ e.authorized = s.authorized
  BY <1>2, <1>5, Values DEF Document
<1> HIDE DEF e
<1>7. req'[r] = Idle /\ links' = links
  BY DEF SaveApproval, Finish, IInv
<1> QED
  BY <1>1, <1>4, <1>6, <1>7, SavedClient, IdleInformed DEF s

LEMMA SaveConsentClient ==
  ASSUME OneClient, IInv, ClientInv, NEW r \in Request, SaveConsent(r)
  PROVE  ClientInv'
<1>1. req[r].pc \in Working /\ req[r].pc \in Holding
  BY DEF SaveConsent, At, Working, Holding
<1>2. PICK f \in Flag, v \in {"yes", "no"} :
        LET d == req[r].doc
            c == Consented(d.consent, f, v)
        IN qual' = [qual EXCEPT
             ![req[r].q].consent = [g \in Flag |-> Saved(d.consent[g], c[g], @[g])],
             ![req[r].q].status = Saved(d.status, StatusByConsent(c, d.status), @)]
  BY DEF SaveConsent
<1> DEFINE d == req[r].doc
           s == qual[req[r].q]
           c == Consented(d.consent, f, v)
           consent == [g \in Flag |-> Saved(d.consent[g], c[g], s.consent[g])]
           status == Saved(d.status, StatusByConsent(c, d.status), s.status)
           e == [s EXCEPT !.consent = consent, !.status = status]
<1>3. d = s /\ s \in Document /\ SoundDoc(s, req[r].q, fni) /\ req[r].q \in Qualifications
  BY <1>1, ClientFacts
<1>4. qual' = [qual EXCEPT ![req[r].q] = e]
  BY <1>2, <1>3 DEF IInv, Document
<1> HIDE DEF d, s
<1>5. c \in [Flag -> {"unset", "yes", "no"}] /\ s.status \in ProcessStatus
  BY <1>3, DocFields, ConsentFacts DEF SoundDoc
<1>6. StatusByConsent(c, d.status) \in ProcessStatus
      /\ (StatusByConsent(c, d.status) = d.status
          \/ StatusByConsent(c, d.status) # "APPLICATION EMAILED")
  <2> HIDE DEF c
  <2>1. StatusByConsent(c, d.status) \in ProcessStatus
    BY <1>3, <1>5, ConsentFacts
  <2>2. StatusByConsent(c, d.status) = d.status
        \/ StatusByConsent(c, d.status) # "APPLICATION EMAILED"
    BY DEF StatusByConsent
  <2> QED BY <2>1, <2>2
<1> HIDE DEF c
<1>7. consent \in [Flag -> {"unset", "yes", "no"}] /\ status \in ProcessStatus
      /\ (status = s.status \/ status # "APPLICATION EMAILED")
  BY <1>3, <1>5, <1>6, DocFields DEF Saved
<1> HIDE DEF consent, status
<1>8. e \in Document /\ e.status = status /\ e.apps = s.apps
      /\ e.applicants = s.applicants /\ e.authorized = s.authorized
  BY <1>3, <1>7 DEF Document
<1> HIDE DEF e
<1>9. req'[r] = Idle /\ links' = links
  BY DEF SaveConsent, Finish, IInv
<1> QED
  BY <1>1, <1>4, <1>7, <1>8, <1>9, SavedClient, IdleInformed DEF s

LEMMA StartSendMailClient ==
  ASSUME OneClient, IInv, ClientInv, NEW r \in Request, NEW q \in Qualifications,
         StartSendMail(r, q)
  PROVE  ClientInv'
<1>1. UNCHANGED <<qual, links>>
  BY DEF StartSendMail
<1>2. CASE Load(r, q, "mail")
  BY <1>1, <1>2, LoadClient
<1>3. CASE req' = [req EXCEPT ![r] = [Idle EXCEPT !.pc = "fail", !.q = q]]
  <2>1. req'[r].pc = "fail"
    BY <1>3, IdleFacts DEF IInv, Handler
  <2> QED
    BY <1>1, <2>1, ReadClient, RefusedInformed
<1> QED
  BY <1>2, <1>3 DEF StartSendMail

LEMMA StartResendMailClient ==
  ASSUME OneClient, IInv, ClientInv, NEW r \in Request, NEW q \in Qualifications,
         StartResendMail(r, q)
  PROVE  ClientInv'
  BY LoadClient DEF StartResendMail

LEMMA StartCoMailClient ==
  ASSUME OneClient, IInv, ClientInv, NEW r \in Request, StartCoMail(r)
  PROVE  ClientInv'
<1>1. req[r].pc = "coMail" /\ req[r].pc \in Working /\ UNCHANGED <<qual, links>>
  BY DEF StartCoMail, At, Working
<1> DEFINE d == qual[req[r].q]
           h == [req[r] EXCEPT !.pc = "mailCo", !.doc = d]
<1>2. req[r] \in Handler /\ d \in Document /\ "applicant" \in d.authorized
  BY <1>1, ClientFacts DEF Informed
<1>3. CASE UseCaseIsValid(d) /\ Recipient(d) # "nobody" /\ "coapplicant" \in Applicants(d)
  <2>1. req'[r] = h
    BY <1>2, <1>3 DEF StartCoMail, IInv, Handler
  <2>2. h.pc = "mailCo" /\ h.q = req[r].q /\ h.doc = d
    BY <1>2 DEF Handler
  <2>3. "coapplicant" \in Applicants(d) \ d.authorized
    BY <1>2, <1>3 DEF Recipient
  <2> HIDE DEF h
  <2>4. Informed(h, qual, links)
    BY <2>2, <2>3 DEF Informed
  <2> QED
    BY <1>1, <2>1, <2>4, ReadClient
<1>4. CASE ~(UseCaseIsValid(d) /\ Recipient(d) # "nobody" /\ "coapplicant" \in Applicants(d))
  BY <1>1, <1>4, FinishClient DEF StartCoMail
<1> QED BY <1>3, <1>4

\* Whom sendMail writes to has not authorised the check.
LEMMA RecipientIsOpen ==
  ASSUME NEW d, Recipient(d) # "nobody"
  PROVE  Recipient(d) \in Applicants(d) \ d.authorized
  BY DEF Recipient, Applicants

LEMMA EmailClient ==
  ASSUME OneClient, IInv, ClientInv, NEW r \in Request, Email(r)
  PROVE  ClientInv'
<1>1. /\ req[r].pc \in {"mail", "remail", "mailCo"}
      /\ req[r].pc \in Working /\ req[r].pc \in Holding
      /\ qual' = qual
  BY DEF Email, Working, Holding
<1> DEFINE q == req[r].q
           d == req[r].doc
<1>2. req[r] \in Handler /\ d = qual[q] /\ SoundDoc(d, q, fni) /\ Sound(req[r], qual, fni)
      /\ Informed(req[r], qual, links)
  BY <1>1, ClientFacts, WorkingFacts
<1>3. CASE links' = links /\ IF At(r, "mail") THEN Refuse(r) ELSE Finish(r)
  BY <1>1, <1>3, RefuseClient, FinishClient
<1>4. ASSUME NEW to, links' = links \cup {<<q, to>>},
             Goto(r, IF At(r, "remail") THEN "saveRemail" ELSE "saveMail"),
             IF At(r, "remail") THEN to = "applicant" ELSE to \in Applicants(d) \ d.authorized
      PROVE  ClientInv'
  <2> DEFINE pc == IF At(r, "remail") THEN "saveRemail" ELSE "saveMail"
  <2>1. req'[r] = [req[r] EXCEPT !.pc = pc]
    BY <1>4 DEF Goto, IInv
  <2>2. pc = "saveRemail" => to = "applicant"
    BY <1>4
  <2>3. pc = "saveMail" => to \in Applicants(d) \ d.authorized
    BY <1>4
  <2>4. pc \in {"saveMail", "saveRemail"}
    OBVIOUS
  <2> HIDE DEF pc
  <2>5. req'[r].pc = pc /\ req'[r].q = q /\ req'[r].doc = d
    BY <1>2, <2>1 DEF Handler
  <2>6. <<q, to>> \in links' /\ links \subseteq links'
    BY <1>4
  <2> HIDE DEF q, d
  <2>7. Informed(req'[r], qual, links')
    BY <1>2, <2>2, <2>3, <2>4, <2>5, <2>6 DEF Informed
  <2> QED
    BY <1>1, <2>6, <2>7, ReadClient
<1>5. CASE LET to == CASE At(r, "mail") -> Recipient(d)
                       [] At(r, "remail") -> Recipient(Renewed(d))
                       [] At(r, "mailCo") -> "coapplicant"
           IN /\ links' = links \cup {<<q, to>>}
              /\ Goto(r, IF At(r, "remail") THEN "saveRemail" ELSE "saveMail")
  <2>1. CASE At(r, "mail")
    <3>1. Recipient(d) \in Applicants(d) \ d.authorized
      BY <1>2, <2>1, RecipientIsOpen DEF Sound, At
    <3> HIDE DEF q, d
    <3> QED
      BY <1>4, <1>5, <2>1, <3>1 DEF At
  <2>2. CASE At(r, "remail")
    <3>1. Recipient(Renewed(d)) = "applicant"
      BY <1>2, RenewedIsSound
    <3> HIDE DEF q, d
    <3> QED
      BY <1>4, <1>5, <2>2, <3>1 DEF At
  <2>3. CASE At(r, "mailCo")
    <3>1. "coapplicant" \in Applicants(d) \ d.authorized
      BY <1>2, <2>3 DEF Informed, At
    <3> HIDE DEF q, d
    <3> QED
      BY <1>4, <1>5, <2>3, <3>1 DEF At
  <2> QED
    BY <1>1, <2>1, <2>2, <2>3 DEF At
<1> QED
  BY <1>3, <1>5 DEF Email

LEMMA SaveMailClient ==
  ASSUME OneClient, IInv, ClientInv, NEW r \in Request, SaveMail(r)
  PROVE  ClientInv'
<1>1. /\ req[r].pc \in {"saveMail", "saveRemail"}
      /\ req[r].pc \in Working /\ req[r].pc \in Holding
  BY DEF SaveMail, Working, Holding
<1> DEFINE q == req[r].q
           d == req[r].doc
           applicants == d.applicants \cup Applicants(d)
           stored == [d EXCEPT !.status = "APPLICATION EMAILED", !.applicants = applicants]
           e == IF At(r, "saveMail") THEN stored
                ELSE [stored EXCEPT !.apps = Renewed(d).apps, !.authorized = @ \ d.authorized]
<1>2. d = qual[q] /\ d \in Document /\ SoundDoc(d, q, fni) /\ q \in Qualifications
      /\ Authorised(d) /\ Informed(req[r], qual, links)
  BY <1>1, ClientFacts
<1>3. Saved(d.status, "APPLICATION EMAILED", d.status) = "APPLICATION EMAILED"
  BY DEF Saved
<1>4. qual' = [qual EXCEPT ![q] = e] /\ req'[r] = Idle /\ links' = links
  BY <1>2, <1>3 DEF SaveMail, Finish, IInv
<1>5. applicants \subseteq Applicant /\ applicants = Applicants(d)
  BY <1>2, DocFields DEF Applicants, Applicant
<1>6. /\ At(r, "saveMail") => \E who \in Applicants(d) \ d.authorized : <<q, who>> \in links
      /\ At(r, "saveRemail") => <<q, "applicant">> \in links
  BY <1>2 DEF Informed, At
<1> HIDE DEF q, d, applicants
<1>7. stored \in Document /\ stored.status = "APPLICATION EMAILED" /\ stored.apps = d.apps
      /\ stored.applicants = applicants /\ stored.authorized = d.authorized
  BY <1>2, <1>5, Values DEF Document
<1> HIDE DEF stored
<1>8. CASE At(r, "saveMail")
  <2>1. e = stored
    BY <1>8
  <2> HIDE DEF e
  <2>2. Reachable(e, q, links)
    BY <1>5, <1>6, <1>7, <1>8, <2>1 DEF Reachable
  <2>3. Authorised(e)
    BY <1>2, <1>7, <2>1 DEF Authorised
  <2> QED
    BY <1>2, <1>4, <1>7, <2>1, <2>2, <2>3, WriteClient, IdleInformed
<1>9. CASE ~At(r, "saveMail")
  <2> DEFINE apps == Renewed(d).apps
             g == [stored EXCEPT !.apps = apps, !.authorized = @ \ d.authorized]
  <2>1. apps \in Seq(Application)
        /\ \A i \in DOMAIN apps : apps[i].state = "ACTIVE" => apps[i].refnum = NoRefnum
    <3>1. SoundDoc(d, q, fni)
      BY <1>2
    <3> QED
      BY <3>1, RenewedIsSound, Zenon
  <2>2. e = g
    BY <1>9
  <2> HIDE DEF apps, e
  <2>3. g \in Document /\ g.apps = apps /\ g.applicants = applicants /\ g.authorized = {}
    BY <1>7, <2>1 DEF Document, Application
  <2> HIDE DEF g
  <2>4. Reachable(e, q, links)
    <3>1. "applicant" \in applicants
      BY <1>5 DEF Applicants
    <3>2. <<q, "applicant">> \in links
      BY <1>1, <1>6, <1>9 DEF At
    <3> QED
      BY <2>2, <2>3, <3>1, <3>2 DEF Reachable
  <2>5. Authorised(e)
    BY <2>1, <2>2, <2>3 DEF Authorised
  <2> QED
    BY <1>2, <1>4, <2>2, <2>3, <2>4, <2>5, WriteClient, IdleInformed
<1> QED BY <1>8, <1>9

LEMMA StartOpenClient ==
  ASSUME OneClient, IInv, ClientInv, NEW r \in Request, NEW q \in Qualifications,
         NEW who \in Applicant, StartOpen(r, q, who)
  PROVE  ClientInv'
  BY LoadClient DEF StartOpen

LEMMA SaveOpenClient ==
  ASSUME OneClient, IInv, ClientInv, NEW r \in Request, SaveOpen(r)
  PROVE  ClientInv'
<1>1. req[r].pc \in Working /\ req[r].pc \in Holding /\ links' = links
  BY DEF SaveOpen, At, Working, Holding
<1>2. CASE Refuse(r) /\ UNCHANGED qual
  BY <1>1, <1>2, RefuseClient
<1>3. CASE /\ qual' = [qual EXCEPT ![req[r].q].status = Saved(req[r].doc.status, "STARTED", @)]
           /\ Finish(r)
  <2> DEFINE s == qual[req[r].q]
             e == [s EXCEPT !.status = "STARTED"]
  <2>1. req[r].doc = s /\ s \in Document /\ req[r].q \in Qualifications
    BY <1>1, ClientFacts
  <2>2. qual' = [qual EXCEPT ![req[r].q] = e]
    BY <1>3, <2>1 DEF IInv, Document, Saved
  <2> HIDE DEF s
  <2>3. e \in Document /\ e.status = "STARTED" /\ e.apps = s.apps
        /\ e.authorized = s.authorized
    BY <2>1, Values DEF Document
  <2> HIDE DEF e
  <2>4. req'[r] = Idle
    BY <1>3 DEF Finish, IInv
  <2> QED
    BY <1>1, <2>2, <2>3, <2>4, SavedClient, IdleInformed DEF s
<1> QED
  BY <1>2, <1>3 DEF SaveOpen

LEMMA StartApplyClient ==
  ASSUME OneClient, IInv, ClientInv, NEW r \in Request, NEW q \in Qualifications,
         NEW who \in Applicant, StartApply(r, q, who)
  PROVE  ClientInv'
<1> DEFINE h == [Idle EXCEPT !.pc = "apply", !.q = q, !.doc = qual[q], !.who = who]
<1>1. req'[r] = h /\ UNCHANGED <<qual, links>>
  BY DEF StartApply, IInv
<1>2. h.pc = "apply" /\ h.q = q /\ h.doc = qual[q]
  BY IdleFacts DEF Handler
<1> HIDE DEF h
<1>3. Informed(h, qual, links)
  BY <1>2 DEF Informed
<1> QED
  BY <1>1, <1>3, ReadClient

LEMMA SaveApplyClient ==
  ASSUME OneClient, IInv, ClientInv, NEW r \in Request, SaveApply(r)
  PROVE  ClientInv'
<1>1. req[r].pc = "apply" /\ req[r].pc \in Working /\ req[r].pc \in Holding /\ links' = links
  BY DEF SaveApply, At, Working, Holding
<1>2. CASE Refuse(r) /\ UNCHANGED qual
  BY <1>1, <1>2, RefuseClient
<1>3. CASE Finish(r) /\ UNCHANGED qual
  BY <1>1, <1>3, FinishClient
<1>4. CASE
        /\ qual' = [qual EXCEPT ![req[r].q].status = "IN_PROGRESS",
                                ![req[r].q].mode = Saved(req[r].doc.mode, "CREDIT_VENDOR", @),
                                ![req[r].q].authorized = @ \cup {req[r].who}]
        /\ req' = [req EXCEPT ![r].pc = "init",
                              ![r].doc.status = "IN_PROGRESS",
                              ![r].doc.mode = "CREDIT_VENDOR",
                              ![r].doc.authorized = @ \cup {req[r].who}]
  <2> DEFINE q == req[r].q
             d == req[r].doc
             authorized == d.authorized \cup {req[r].who}
             e == [d EXCEPT !.status = "IN_PROGRESS", !.mode = "CREDIT_VENDOR",
                            !.authorized = authorized]
             h == [req[r] EXCEPT !.pc = "init", !.doc = e]
  <2>1. d = qual[q] /\ d \in Document /\ q \in Qualifications /\ req[r] \in Handler
        /\ req[r].who \in Applicant
    BY <1>1, ClientFacts DEF Handler
  <2>2. Saved(d.mode, "CREDIT_VENDOR", d.mode) = "CREDIT_VENDOR"
    BY DEF Saved
  <2>3. qual' = [qual EXCEPT ![q] = e]
    BY <1>4, <2>1, <2>2 DEF IInv, Document
  <2>4. req'[r] = h
    <3>1. [req[r] EXCEPT !.pc = "init", !.doc.status = "IN_PROGRESS",
                         !.doc.mode = "CREDIT_VENDOR", !.doc.authorized = @ \cup {req[r].who}]
          = h
      BY <2>1 DEF Handler, Document
    <3>2. req' = [req EXCEPT ![r] =
            [req[r] EXCEPT !.pc = "init", !.doc.status = "IN_PROGRESS",
                           !.doc.mode = "CREDIT_VENDOR", !.doc.authorized = @ \cup {req[r].who}]]
      BY <1>4 DEF IInv
    <3> HIDE DEF h
    <3> QED
      BY <3>1, <3>2 DEF IInv
  <2>5. authorized \subseteq Applicant /\ req[r].who \in authorized
        /\ d.authorized \subseteq authorized
    BY <2>1, DocFields
  <2> HIDE DEF q, d, authorized
  <2>6. e \in Document /\ e.status = "IN_PROGRESS" /\ e.apps = d.apps
        /\ e.authorized = authorized
    BY <2>1, <2>5, Values DEF Document
  <2> HIDE DEF e
  <2>7. h.pc = "init" /\ h.q = q /\ h.doc = e /\ h.who = req[r].who
    BY <2>1 DEF Handler, q
  <2> HIDE DEF h
  <2>8. qual'[q] = e
    BY <2>1, <2>3, <2>6 DEF IInv
  <2>9. Informed(h, qual', links)
    BY <2>5, <2>6, <2>7, <2>8 DEF Informed
  <2> QED
    BY <1>1, <2>1, <2>3, <2>4, <2>5, <2>6, <2>9, SavedClient DEF q
<1> QED
  BY <1>2, <1>3, <1>4 DEF SaveApply

LEMMA CallInitClient ==
  ASSUME OneClient, IInv, ClientInv, NEW r \in Request, CallInit(r)
  PROVE  ClientInv'
<1>1. /\ req[r].pc = "init" /\ req[r].pc \in Working /\ req[r].pc \in Holding
      /\ UNCHANGED <<qual, links>>
  BY DEF CallInit, At, Working, Holding
<1>2. req[r] \in Handler /\ Informed(req[r], qual, links)
  BY <1>1, ClientFacts
<1>3. CASE Refuse(r)
  BY <1>1, <1>3, RefuseClient
<1>4. CASE ~Refuse(r)
  <2>1. req'[r] \in {[req[r] EXCEPT !.pc = "saveInit", !.answer = "error"]}
                    \cup {[req[r] EXCEPT !.pc = "saveInit", !.refnum = n] : n \in Refnum}
    BY <1>4 DEF CallInit, IInv
  <2>2. req'[r].pc = "saveInit" /\ req'[r].q = req[r].q /\ req'[r].doc = req[r].doc
        /\ req'[r].who = req[r].who
    BY <1>2, <2>1 DEF Handler
  <2>3. Informed(req'[r], qual, links)
    BY <1>1, <1>2, <2>2 DEF Informed
  <2> QED
    BY <1>1, <2>3, ReadClient
<1> QED BY <1>3, <1>4

\* updateOne(_id, document) keeps the status, the applicants and the applications.
LEMMA OverwriteKeeps ==
  ASSUME IInv, NEW q \in Qualifications, NEW d \in Document, Overwrite(q, d)
  PROVE  \E e \in Document :
           /\ qual' = [qual EXCEPT ![q] = e]
           /\ e.status = d.status /\ e.applicants = d.applicants
           /\ e.authorized = d.authorized /\ e.apps = d.apps
<1> DEFINE s == qual[q]
           decision == IF d.decision = "none" THEN s.decision ELSE d.decision
           mode == IF d.mode = "none" THEN s.mode ELSE d.mode
           approvedBy == d.approvedBy \/ s.approvedBy
           consent == [f \in Flag |-> IF d.consent[f] = "unset" THEN s.consent[f]
                                                                ELSE d.consent[f]]
           e == [d EXCEPT !.decision = decision, !.mode = mode, !.approvedBy = approvedBy,
                          !.consent = consent]
<1>1. s \in Document
  BY DEF IInv
<1>2. qual' = [qual EXCEPT ![q] = e]
  BY <1>1 DEF Overwrite, Document
<1> HIDE DEF s
<1>3. decision \in Final \cup {"none", "PENDING", "ERROR"}
      /\ mode \in {"none", "AGENT", "CREDIT_VENDOR"}
  BY <1>1, DocFields
<1>4. approvedBy \in BOOLEAN
  BY <1>1, DocFields
<1>5. consent \in [Flag -> {"unset", "yes", "no"}]
  BY <1>1, DocFields
<1> HIDE DEF decision, mode, approvedBy, consent
<1>6. e \in Document /\ e.status = d.status /\ e.applicants = d.applicants
      /\ e.authorized = d.authorized /\ e.apps = d.apps
  BY <1>3, <1>4, <1>5 DEF Document
<1> QED
  BY <1>2, <1>6

LEMMA SaveInitClient ==
  ASSUME OneClient, IInv, ClientInv, NEW r \in Request, SaveInit(r)
  PROVE  ClientInv'
<1>1. /\ req[r].pc = "saveInit" /\ req[r].pc \in Working /\ req[r].pc \in Holding
      /\ UNCHANGED <<fni, links>>
  BY DEF SaveInit, At, Working, Holding
<1> DEFINE q == req[r].q
           d == req[r].doc
<1>2. d = qual[q] /\ d \in Document /\ q \in Qualifications /\ req[r] \in Handler
      /\ Informed(req[r], qual, links) /\ SoundDoc(d, q, fni) /\ Sound(req[r], qual, fni)
      /\ Reachable(d, q, links) /\ Authorised(d) /\ req[r].who \in d.authorized
  BY <1>1, ClientFacts, WorkingFacts DEF Informed
<1>3. CASE req[r].answer = "error"
  <2>1. Overwrite(q, d) /\ Refuse(r)
    BY <1>3 DEF SaveInit
  <2>2. PICK e \in Document :
          /\ qual' = [qual EXCEPT ![q] = e]
          /\ e.status = d.status /\ e.applicants = d.applicants
          /\ e.authorized = d.authorized /\ e.apps = d.apps
    BY <1>2, <2>1, OverwriteKeeps
  <2>3. req'[r].pc = "fail"
    BY <2>1, IdleFacts DEF Refuse, IInv, Handler
  <2> QED
    BY <1>1, <1>2, <2>2, <2>3, SavedClient, RefusedInformed
<1>4. CASE req[r].answer # "error"
  <2> DEFINE k == ActiveIndex(d)
             noted == [d EXCEPT !.apps[ActiveIndex(d)].refnum = req[r].refnum]
             g == IF AsCoApplicant(r) THEN d ELSE noted
             pc == IF Joint(d) /\ req[r].who = "applicant" THEN "coMail" ELSE "solarApply"
  <2>1. noted \in Document /\ noted.status = d.status /\ noted.applicants = d.applicants
        /\ noted.authorized = d.authorized
    <3>1. Opened(req[r].refnum, q, fni)
      BY <1>1, <1>2, <1>4 DEF Sound
    <3>2. noted \in Document
      BY <1>2, <3>1, NotedIsSound DEF SoundDoc
    <3> QED
      BY <1>2, <3>2 DEF Document
  <2>2. Overwrite(q, g)
        /\ req'[r] = [Idle EXCEPT !.q = q, !.refnum = req[r].refnum, !.pc = pc]
    BY <1>4 DEF SaveInit, IInv
  <2>3. pc \in {"coMail", "solarApply"} /\ (pc = "coMail" => req[r].who = "applicant")
    OBVIOUS
  <2>4. g \in Document /\ g.status = d.status /\ g.applicants = d.applicants
        /\ g.authorized = d.authorized
    BY <1>2, <2>1
  <2> HIDE DEF g, noted, pc
  <2>5. PICK e \in Document :
          /\ qual' = [qual EXCEPT ![q] = e]
          /\ e.status = d.status /\ e.applicants = d.applicants
          /\ e.authorized = d.authorized
    BY <1>2, <2>2, <2>4, OverwriteKeeps
  <2>6. req'[r].pc = pc /\ req'[r].q = q
    BY <2>2, IdleFacts DEF Handler
  <2>7. qual'[q] = e
    BY <1>2, <2>5 DEF IInv
  <2> HIDE DEF q, d
  <2>8. Reachable(e, q, links) /\ Authorised(e)
    BY <1>2, <2>5 DEF Reachable, Authorised
  <2>9. Informed(req'[r], qual', links)
    BY <1>2, <2>3, <2>5, <2>6, <2>7 DEF Informed, Holding
  <2> QED
    BY <1>1, <1>2, <2>5, <2>8, <2>9, WriteClient
<1> QED BY <1>3, <1>4

LEMMA CallApplyClient ==
  ASSUME OneClient, IInv, ClientInv, NEW r \in Request, CallApply(r)
  PROVE  ClientInv'
<1>1. req[r].pc \in Working /\ UNCHANGED <<qual, links>>
  BY DEF CallApply, At, Working
<1>2. CASE Refuse(r)
  BY <1>1, <1>2, RefuseClient
<1>3. CASE ~Refuse(r)
  <2>1. PICK a : req'[r] = [req[r] EXCEPT !.pc = "loadDecision", !.answer = a]
    BY <1>3 DEF CallApply, IInv
  <2>2. req'[r].pc = "loadDecision"
    BY <1>1, <2>1, ClientFacts DEF Handler
  <2>3. Informed(req'[r], qual, links)
    BY <2>2 DEF Informed, Holding
  <2> QED
    BY <1>1, <2>3, ReadClient
<1> QED BY <1>2, <1>3

LEMMA StartReportClient ==
  ASSUME OneClient, IInv, ClientInv, NEW r \in Request, NEW n \in Refnum,
         NEW q \in Qualifications, StartReport(r, n, q)
  PROVE  ClientInv'
<1>1. UNCHANGED <<qual, links>>
  BY DEF StartReport
<1>2. PICK a : req'[r] = [Idle EXCEPT !.pc = "loadDecision", !.q = q, !.refnum = n, !.answer = a]
  BY DEF StartReport, IInv
<1>3. req'[r].pc = "loadDecision"
  BY <1>2, IdleFacts DEF Handler
<1>4. Informed(req'[r], qual, links)
  BY <1>3 DEF Informed, Holding
<1> QED
  BY <1>1, <1>4, ReadClient

LEMMA LoadDecisionClient ==
  ASSUME OneClient, IInv, ClientInv, NEW r \in Request, LoadDecision(r)
  PROVE  ClientInv'
<1>1. req[r].pc = "loadDecision" /\ req[r].pc \in Working /\ UNCHANGED <<qual, links>>
  BY DEF LoadDecision, At, Working
<1> DEFINE h == [req[r] EXCEPT !.pc = "saveDecision", !.doc = qual[req[r].q]]
<1>2. req[r] \in Handler
  BY <1>1, ClientFacts
<1>3. req'[r] = h
  BY <1>2 DEF LoadDecision, IInv, Handler
<1>4. h.pc = "saveDecision" /\ h.q = req[r].q /\ h.doc = qual[req[r].q]
  BY <1>2 DEF Handler
<1> HIDE DEF h
<1>5. Informed(h, qual, links)
  BY <1>4 DEF Informed
<1> QED
  BY <1>1, <1>3, <1>5, ReadClient

LEMMA DecidedKeeps ==
  ASSUME NEW d \in Document, NEW a \in Decision \cup {"error"}
  PROVE  /\ Decided(d, a) \in Document
         /\ Decided(d, a).status = d.status \/ Decided(d, a).status # "APPLICATION EMAILED"
         /\ Decided(d, a).applicants = d.applicants
         /\ Decided(d, a).authorized = d.authorized
         /\ Decided(d, a).apps = d.apps
<1>1. CASE a \in Final
  <2>1. Decided(d, a) = [d EXCEPT !.decision = a, !.status = "COMPLETED"]
    BY <1>1 DEF Decided, Final
  <2> QED
    BY <1>1, <2>1, Values DEF Document
<1>2. CASE a = "PENDING"
  <2>1. Decided(d, a) = [d EXCEPT !.decision = a]
    BY <1>2 DEF Decided, Final
  <2> QED
    BY <1>2, <2>1 DEF Document
<1>3. CASE a = "CONDITIONED"
  <2>1. Decided(d, a) = [d EXCEPT !.decision = "ERROR", !.status = "ERROR"]
    BY <1>3 DEF Decided, Final
  <2> QED
    BY <2>1, Values DEF Document
<1>4. CASE a = "error"
  BY <1>4 DEF Decided, Final
<1> QED
  BY <1>1, <1>2, <1>3, <1>4 DEF Decision

LEMMA SaveDecisionClient ==
  ASSUME OneClient, IInv, ClientInv, NEW r \in Request, SaveDecision(r)
  PROVE  ClientInv'
<1>1. /\ req[r].pc = "saveDecision" /\ req[r].pc \in Working /\ req[r].pc \in Holding
      /\ links' = links
  BY DEF SaveDecision, At, Working, Holding
<1> DEFINE q == req[r].q
           d == req[r].doc
           g == Decided(d, req[r].answer)
<1>2. d = qual[q] /\ d \in Document /\ q \in Qualifications /\ req[r] \in Handler
      /\ Sound(req[r], qual, fni)
  BY <1>1, ClientFacts, WorkingFacts
<1>3. req[r].answer \in Decision \cup {"error"}
  BY <1>1, <1>2 DEF Sound, Handler
<1>4. g \in Document /\ (g.status = d.status \/ g.status # "APPLICATION EMAILED")
      /\ g.applicants = d.applicants /\ g.authorized = d.authorized /\ g.apps = d.apps
  BY <1>2, <1>3, DecidedKeeps
<1>5. Overwrite(q, g)
  BY DEF SaveDecision
<1> HIDE DEF g
<1>6. PICK e \in Document :
        /\ qual' = [qual EXCEPT ![q] = e]
        /\ e.status = g.status /\ e.applicants = g.applicants
        /\ e.authorized = g.authorized /\ e.apps = g.apps
  BY <1>2, <1>4, <1>5, OverwriteKeeps
<1>7. req'[r] = Idle \/ req'[r].pc = "fail"
  BY IdleFacts DEF SaveDecision, Refuse, Finish, IInv, Handler
<1>8. Informed(req'[r], qual', links)
  BY <1>7, IdleInformed, RefusedInformed
<1> QED
  BY <1>1, <1>2, <1>4, <1>6, <1>8, SavedClient

LEMMA FailClient ==
  ASSUME OneClient, IInv, ClientInv, NEW r \in Request, Fail(r)
  PROVE  ClientInv'
<1>1. req[r].pc \in Working /\ links' = links
  BY DEF Fail, At, Working
<1> DEFINE s == qual[req[r].q]
           e == [s EXCEPT !.status = "ERROR"]
<1>2. s \in Document /\ req[r].q \in Qualifications
  BY <1>1, ClientFacts
<1>3. qual' = [qual EXCEPT ![req[r].q] = e] /\ req'[r] = Idle
  BY <1>2 DEF Fail, Finish, IInv, Document
<1> HIDE DEF s
<1>4. e \in Document /\ e.status = "ERROR" /\ e.apps = s.apps /\ e.authorized = s.authorized
  BY <1>2, Values DEF Document
<1> HIDE DEF e
<1> QED
  BY <1>1, <1>3, <1>4, SavedClient, IdleInformed DEF s

LEMMA ClientStep ==
  ASSUME OneClient, IInv, ClientInv, [Next]_vars
  PROVE  ClientInv'
<1>1. CASE UNCHANGED vars
  <2>1. qual' = qual /\ req' = req /\ links' = links
    BY <1>1 DEF vars
  <2> QED
    BY <2>1 DEF ClientInv
<1>2. ASSUME NEW r \in Request, Arrive(r) PROVE ClientInv'
  <2>1. CASE StartCreate(r)
    BY <2>1, StartCreateClient
  <2>2. ASSUME NEW q \in Qualifications,
               StartEdit(r, q) \/ StartSendMail(r, q) \/ StartResendMail(r, q)
        PROVE  ClientInv'
    BY <2>2, StartEditClient, StartSendMailClient, StartResendMailClient
  <2>3. ASSUME NEW q \in Qualifications, NEW who \in Applicant,
               StartOpen(r, q, who) \/ StartApply(r, q, who)
        PROVE  ClientInv'
    BY <2>3, StartOpenClient, StartApplyClient
  <2>4. ASSUME NEW n \in Refnum, NEW q \in Qualifications, StartReport(r, n, q)
        PROVE  ClientInv'
    BY <2>4, StartReportClient
  <2> QED
    BY <1>2, <2>1, <2>2, <2>3, <2>4 DEF Arrive
<1>3. ASSUME NEW r \in Request, Continue(r) PROVE ClientInv'
  <2>1. ASSUME NEW q \in Qualifications, Create(r, q) PROVE ClientInv'
    BY <2>1, CreateClient
  <2>2. CASE SaveApproval(r) \/ SaveConsent(r) \/ StartCoMail(r) \/ Email(r) \/ SaveMail(r)
    BY <2>2, SaveApprovalClient, SaveConsentClient, StartCoMailClient, EmailClient,
       SaveMailClient
  <2>3. CASE SaveOpen(r) \/ SaveApply(r) \/ CallInit(r) \/ SaveInit(r) \/ CallApply(r)
    BY <2>3, SaveOpenClient, SaveApplyClient, CallInitClient, SaveInitClient, CallApplyClient
  <2>4. CASE LoadDecision(r) \/ SaveDecision(r) \/ Fail(r)
    BY <2>4, LoadDecisionClient, SaveDecisionClient, FailClient
  <2> QED
    BY <1>3, <2>1, <2>2, <2>3, <2>4 DEF Continue
<1>4. ASSUME NEW r \in Request, Abandon(r) PROVE ClientInv'
  BY <1>4, FinishClient DEF Abandon
<1>5. CASE Vendor
  <2>1. qual' = qual /\ req' = req /\ links' = links
    BY <1>5 DEF Vendor, Decide
  <2> QED
    BY <2>1 DEF ClientInv
<1> QED
  BY <1>1, <1>2, <1>3, <1>4, <1>5 DEF Next

LEMMA ClientInit == Init => ClientInv
<1> SUFFICES ASSUME Init PROVE ClientInv
  OBVIOUS
<1>1. Settled(qual, links)
  BY DEF Init, Settled
<1>2. \A r \in Request : Informed(req[r], qual, links)
  BY IdleInformed DEF Init
<1> QED
  BY <1>1, <1>2 DEF ClientInv

LEMMA ClientInvariance == ASSUME OneClient PROVE Spec => [](IInv /\ ClientInv)
<1>1. IInv /\ ClientInv /\ [Next]_vars => (IInv /\ ClientInv)'
  BY NextInv, ClientStep
<1>2. Init => IInv /\ ClientInv
  BY InitInv, ClientInit
<1> QED
  BY <1>1, <1>2, PTL DEF Spec

(***************************************************************************)
(* Theorems about a single client, handlers that end half way included.    *)
(***************************************************************************)

\* With one request at a time, a record that waits for its applicants has mailed the link
\* to one of those who have not yet authorised the check (sendMail, resendMail and the
\* co-applicant's mail of applyCreditQualification).
THEOREM EmailedApplicantsCanProceed == ASSUME OneClient PROVE Spec => []EmailedCanProceed
<1>1. IInv /\ ClientInv => EmailedCanProceed
  <2> SUFFICES ASSUME IInv, ClientInv, NEW q \in Qualifications,
                      qual[q].status = "APPLICATION EMAILED"
               PROVE  \E who \in qual[q].applicants \ qual[q].authorized : <<q, who>> \in links
    BY DEF EmailedCanProceed
  <2>1. qual[q] # Absent
    BY AbsentIsDocument
  <2> QED
    BY <2>1 DEF ClientInv, Settled, Reachable
<1> QED
  BY <1>1, ClientInvariance, PTL

\* With one request at a time, an active application that FNI knows has been authorised by
\* someone: resendMail takes the authorisations and the refnum back together.
THEOREM ActiveApplicationsAuthorised ==
  ASSUME OneClient PROVE Spec => []ActiveApplicationAuthorized
<1>1. IInv /\ ClientInv => ActiveApplicationAuthorized
  <2> SUFFICES ASSUME IInv, ClientInv, NEW q \in Existing
               PROVE  \/ qual[q].apps[ActiveIndex(qual[q])].refnum = NoRefnum
                      \/ qual[q].authorized # {}
    BY DEF ActiveApplicationAuthorized
  <2>1. q \in Qualifications /\ qual[q] # Absent /\ SoundDoc(qual[q], q, fni)
    BY ExistingFacts
  <2>2. /\ ActiveIndex(qual[q]) \in DOMAIN qual[q].apps
        /\ qual[q].apps[ActiveIndex(qual[q])].state = "ACTIVE"
    BY <2>1, ActiveIndexIs DEF SoundDoc
  <2>3. Authorised(qual[q])
    BY <2>1 DEF ClientInv, Settled
  <2> QED
    BY <2>2, <2>3 DEF Authorised
<1> QED
  BY <1>1, ClientInvariance, PTL
=============================================================================
