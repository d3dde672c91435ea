------------------------- MODULE UtilityUsageProofs -------------------------
(***************************************************************************)
(* Theorems about UtilityUsage, for any number of concurrent requests, of  *)
(* profiles, of usages entered and of existing systems.                    *)
(***************************************************************************)
EXTENDS MCUtilityUsage, TLAPS

(***************************************************************************)
(* What holds in every state, of a handler h and of the document d: they   *)
(* know no more changes of the systems than n, and no more usages than m.  *)
(***************************************************************************)

Sound(h, n, m) ==
  /\ h.pc \in {"idle", "putBack"} => h.op = "get"
  /\ h.pc = "read" => h.op = "existing"
  /\ h.pc \in {"hourly", "doc", "designs"} => h.op \in {"put", "existing"}
  /\ h.pc \in {"calculate", "profiles"} => h.op # "get"
  /\ h.pc \in {"hourly", "calculate", "profiles", "doc", "designs"} /\ h.op # "getProfiles"
       /\ h.mode = "monthly" => h.hours
  /\ h.pc \in {"profiles", "doc", "designs"} => h.input.usage = h.usage
  /\ h.op # "get" => h.usage <= m
  /\ h.input.systems <= n

SoundDoc(d, n, m) ==
  /\ d.usage <= m
  /\ d.sums # Legacy => d.sums.usage = d.usage /\ d.sums.systems <= n

(***************************************************************************)
(* The monitor: what is alone does not overlap, and while nothing is torn  *)
(* apart, or nothing has ever overlapped, what is under way is alone.      *)
(***************************************************************************)
MonitorOK ==
  /\ clean \in BOOLEAN /\ overlapped \in BOOLEAN
  /\ alone \subseteq Busy
  /\ alone # {} => ~Overlap
  /\ clean \/ ~overlapped => ~Overlap /\ Busy \subseteq alone
  /\ clean => ~Racing

(***************************************************************************)
(* A handler h that runs alone finds the stores as it has written them:    *)
(* m usages entered, the document d, the hours of usage u, the profiles p. *)
(***************************************************************************)
Solo(h, m, d, u, pr) ==
  /\ h.op \in {"put", "existing"} =>
       /\ h.pc \in {"hourly", "calculate", "profiles", "doc", "designs"} => h.usage = m
       /\ h.pc \in {"calculate", "profiles", "doc", "designs"} /\ h.hours => u = h.usage
  /\ h.op = "getProfiles" => h.usage = d.usage
  /\ h.pc = "profiles" => \A p \in Profile : p \notin h.todo => pr[p] = h.input
  /\ h.pc \in {"doc", "designs"} => \A p \in Profile : pr[p] = h.input
  /\ h.pc \in {"profiles", "doc"} /\ d.sums # Legacy => d.sums.systems <= h.input.systems
  /\ h.pc = "designs" => d.sums = h.input /\ d.usage = h.usage /\ d.mode = h.mode

(***************************************************************************)
(* While nothing is torn apart, each store agrees with the document except *)
(* where the update that is under way has left it.                         *)
(***************************************************************************)
Calculated(pr, sums) ==
  \A p \in Profile : /\ \A q \in Profile : pr[q] = pr[p]
                     /\ pr[p].usage = sums.usage
                     /\ pr[p].systems >= sums.systems

ProfilesWhole ==
  doc.sums # Legacy /\ (\A r \in Request : req[r].pc \notin {"profiles", "doc"}) =>
    Calculated(profile, doc.sums)

HourlyWhole ==
  doc.mode = "monthly"
    /\ (\A r \in Request : req[r].op = "getProfiles"
                           \/ req[r].pc \notin {"calculate", "profiles", "doc"}) =>
    hourly = doc.usage

FiguresWhole ==
  (\A r \in Request : ~At(r, "designs")) =>
    /\ pending = {} => figures.annual = doc.sums /\ figures.sums = doc.sums
    /\ \A f \in pending : f.annual = doc.sums /\ f.sums = doc.sums

ReadersWhole ==
  \A r \in Request : At(r, "putBack") /\ doc.mode = "monthly" => req[r].usage = doc.usage

Whole == ProfilesWhole /\ HourlyWhole /\ FiguresWhole /\ ReadersWhole

\* The figures are of one usage, and so are those on their way.
OneUsage == /\ FiguresAreOfOneUsage
            /\ overlapped \/ \A f \in pending : f.annual = f.sums

IInv ==
  /\ TypeOK
  /\ \A r \in Request : Sound(req[r], systems, entered)
  /\ SoundDoc(doc, systems, entered)
  /\ MonitorOK
  /\ \A r \in alone : Solo(req[r], entered, doc, hourly, profile)
  /\ clean => Whole
  /\ OneUsage
  /\ S3IsAhead

(***************************************************************************)
(* Steps.                                                                  *)
(***************************************************************************)

\* What every step does to the monitor.
Watched ==
  /\ alone' = IF Overlap' THEN {} ELSE {r \in Busy' : r \in alone \/ r \notin Busy}
  /\ overlapped' = (overlapped \/ Overlap')
  /\ clean' \in BOOLEAN

\* A step that makes up for nothing.
Steady == clean' => clean /\ ~Overlap' /\ ~Racing'

LEMMA MonitorStays ==
  ASSUME MonitorOK, Watched, Steady
  PROVE  MonitorOK'
<1>1. (clean \/ ~overlapped) /\ ~Overlap' => Busy' \subseteq alone'
  BY DEF MonitorOK, Watched
<1> QED
  BY <1>1 DEF MonitorOK, Watched, Steady

\* Everybody but r is idle.
Quiet(r) == \A s \in Request : s # r => req[s].pc = "idle" /\ req[s].op = "get"

\* A step of request r that leaves it with the record h: nobody else is alone then.
LEMMA Others ==
  ASSUME IInv, Watched, NEW r \in Request, NEW h, req' = [req EXCEPT ![r] = h],
         ~At(r, "idle") \/ h.pc # "idle"
  PROVE  /\ \A s \in alone' : s = r
         /\ r \in alone' => At(r, "idle") \/ r \in alone
<1> USE DEF IInv, TypeOK, Busy, At
<1>1. r \in Busy \/ r \in Busy'
  OBVIOUS
<1>2. \A s \in alone' : s \in alone \/ (s \notin Busy /\ s \in Busy')
  BY DEF Watched
<1>3. \A s \in Request : s # r => req'[s] = req[s]
  OBVIOUS
<1>4. ASSUME NEW s \in alone', s # r PROVE FALSE
  <2>1. s \in Busy' /\ ~Overlap'
    BY <1>4 DEF Watched
  <2>2. s \in alone /\ s \in Busy
    BY <2>1, <1>2, <1>3, <1>4
  <2>3. r \notin Busy'
    BY <2>1, <1>4 DEF Overlap
  <2>4. r \notin Busy
    BY <2>2, <1>4 DEF Overlap, MonitorOK
  <2> QED
    BY <2>3, <2>4, <1>1
<1>5. r \in alone' => At(r, "idle") \/ r \in alone
  BY <1>2
<1> QED
  BY <1>4, <1>5

\* While nothing is torn apart, or nothing has overlapped, r runs alone.
LEMMA RunsAlone ==
  ASSUME IInv, NEW r \in Request, NEW h, req' = [req EXCEPT ![r] = h],
         ~At(r, "idle") \/ h.pc # "idle", clean \/ ~overlapped, ~Overlap'
  PROVE  /\ Quiet(r)
         /\ At(r, "idle") \/ r \in alone
<1> USE DEF IInv, TypeOK, Busy, At
<1>1. r \in Busy \/ r \in Busy'
  OBVIOUS
<1>2. ~Overlap /\ Busy \subseteq alone
  BY DEF MonitorOK
<1>3. \A s \in Request : s # r => req'[s] = req[s]
  OBVIOUS
<1>4. \A s \in Request : s # r => req[s].pc = "idle"
  BY <1>1, <1>2, <1>3 DEF Overlap
<1>5. \A s \in Request : s # r => req[s].op = "get"
  BY <1>4 DEF Sound
<1> QED
  BY <1>2, <1>4, <1>5 DEF Quiet

\* Whole, where everybody but a handler h is idle.
WholeFor(h, d, u, pr, fi, pe) ==
  /\ d.sums # Legacy /\ h.pc \notin {"profiles", "doc"} => Calculated(pr, d.sums)
  /\ d.mode = "monthly" /\ (h.op = "getProfiles" \/ h.pc \notin {"calculate", "profiles", "doc"})
       => u = d.usage
  /\ h.pc # "designs" => /\ pe = {} => fi.annual = d.sums /\ fi.sums = d.sums
                         /\ \A f \in pe : f.annual = d.sums /\ f.sums = d.sums
  /\ h.pc = "putBack" /\ d.mode = "monthly" => h.usage = d.usage

LEMMA WholeAlone ==
  ASSUME NEW r \in Request, Whole, Quiet(r)
  PROVE  WholeFor(req[r], doc, hourly, profile, figures, pending)
<1> USE DEF Quiet, At
<1>1. \A s \in Request : s # r =>
        /\ req[s].pc \notin {"profiles", "doc", "calculate", "designs"}
  OBVIOUS
<1>2. doc.sums # Legacy /\ req[r].pc \notin {"profiles", "doc"} =>
        Calculated(profile, doc.sums)
  BY <1>1 DEF Whole, ProfilesWhole
<1>3. doc.mode = "monthly" /\ (req[r].op = "getProfiles"
                               \/ req[r].pc \notin {"calculate", "profiles", "doc"})
        => hourly = doc.usage
  BY <1>1 DEF Whole, HourlyWhole
<1>4. req[r].pc # "designs" =>
        /\ pending = {} => figures.annual = doc.sums /\ figures.sums = doc.sums
        /\ \A f \in pending : f.annual = doc.sums /\ f.sums = doc.sums
  BY <1>1 DEF Whole, FiguresWhole
<1>5. req[r].pc = "putBack" /\ doc.mode = "monthly" => req[r].usage = doc.usage
  BY DEF Whole, ReadersWhole
<1> QED
  BY <1>2, <1>3, <1>4, <1>5 DEF WholeFor

LEMMA AloneWhole ==
  ASSUME NEW r \in Request, WholeFor(req[r], doc, hourly, profile, figures, pending)',
         \A s \in Request : s # r => req'[s].pc = "idle" /\ req'[s].op = "get"
  PROVE  Whole'
<1> USE DEF WholeFor, At
<1>1. ProfilesWhole'
  BY DEF ProfilesWhole
<1>2. HourlyWhole'
  BY DEF HourlyWhole
<1>3. FiguresWhole'
  BY DEF FiguresWhole
<1>4. ReadersWhole'
  BY DEF ReadersWhole
<1> QED
  BY <1>1, <1>2, <1>3, <1>4 DEF Whole

\* What a step of r that is no update of the figures finds while the stores are whole.
LEMMA StartedAlone ==
  ASSUME IInv, Watched, Steady, NEW r \in Request, NEW h, req' = [req EXCEPT ![r] = h],
         ~At(r, "idle") \/ h.pc # "idle"
  PROVE  /\ clean' => /\ WholeFor(req[r], doc, hourly, profile, figures, pending)
                      /\ At(r, "idle") \/ Solo(req[r], entered, doc, hourly, profile)
         /\ clean' /\ WholeFor(h, doc', hourly', profile', figures', pending') => Whole'
         /\ ~overlapped' =>
              ~overlapped /\ (At(r, "idle") \/ Solo(req[r], entered, doc, hourly, profile))
         /\ r \in alone' => At(r, "idle") \/ Solo(req[r], entered, doc, hourly, profile)
<1>1. req'[r] = h /\ \A s \in Request : s # r => req'[s] = req[s]
  BY DEF IInv, TypeOK
<1>2. r \in alone => Solo(req[r], entered, doc, hourly, profile)
  BY DEF IInv
<1>3. clean' => Whole /\ Quiet(r) /\ (At(r, "idle") \/ r \in alone)
  BY RunsAlone DEF Steady, IInv
<1>4. clean' => WholeFor(req[r], doc, hourly, profile, figures, pending)
  BY <1>3, WholeAlone
<1>5. ASSUME clean', WholeFor(h, doc', hourly', profile', figures', pending') PROVE Whole'
  <2>1. \A s \in Request : s # r => req'[s].pc = "idle" /\ req'[s].op = "get"
    BY <1>1, <1>3, <1>5 DEF Quiet
  <2>2. WholeFor(req'[r], doc', hourly', profile', figures', pending')
    BY <1>1, <1>5
  <2> QED
    BY <2>1, <2>2, AloneWhole
<1>6. ~overlapped' => ~overlapped /\ (At(r, "idle") \/ r \in alone)
  BY RunsAlone DEF Watched, IInv, MonitorOK
<1>7. r \in alone' => At(r, "idle") \/ r \in alone
  BY Others
<1> QED BY <1>2, <1>3, <1>4, <1>5, <1>6, <1>7

\* A step of request r that leaves it with the record h.
LEMMA HandlerStep ==
  ASSUME IInv, Watched, Steady, NEW r \in Request, NEW h \in Requests,
         req' = [req EXCEPT ![r] = h], ~At(r, "idle") \/ h.pc # "idle",
         TypeOK', systems <= systems', entered <= entered',
         Sound(h, systems', entered'), SoundDoc(doc, systems, entered)',
         r \in alone' => Solo(h, entered', doc', hourly', profile'),
         pending' = pending, figures' = figures,
         clean' => WholeFor(h, doc', hourly', profile', figures', pending'), S3IsAhead'
  PROVE  IInv'
<1>1. MonitorOK'
  BY MonitorStays DEF IInv
<1>2. req'[r] = h /\ \A s \in Request : s # r => req'[s] = req[s]
  BY DEF IInv, TypeOK
<1>3. \A s \in alone' : Solo(req'[s], entered', doc', hourly', profile')
  BY <1>2, Others
<1>4. ASSUME NEW s \in Request, s # r PROVE Sound(req[s], systems', entered')
  <2>1. req[s].input.systems \in Nat /\ systems \in Nat /\ systems' \in Nat
        /\ req[s].usage \in Nat /\ entered \in Nat /\ entered' \in Nat
    BY UtilityUsageAssumption DEF IInv, TypeOK, Requests, Input, Systems, Usage
  <2> QED
    BY <2>1 DEF IInv, Sound
<1>5. \A s \in Request : Sound(req'[s], systems', entered')
  BY <1>2, <1>4
<1>6. clean' => Whole'
  BY StartedAlone
<1>7. OneUsage'
  BY DEF IInv, OneUsage, FiguresAreOfOneUsage, Watched
<1> QED
  BY <1>1, <1>3, <1>5, <1>6, <1>7 DEF IInv

LEMMA Numbers ==
  ASSUME TypeOK
  PROVE  /\ systems \in Nat /\ entered \in Nat /\ systems \in Systems /\ entered \in Usage
         /\ doc.usage \in Usage /\ doc.usage \in Nat
         /\ doc.sums # Legacy => doc.sums \in Input
         /\ \A i \in Input : i.usage \in Nat /\ i.systems \in Nat /\ i # Legacy
                             /\ i = [usage |-> i.usage, systems |-> i.systems]
  BY UtilityUsageAssumption DEF TypeOK, Usage, Systems, Input

LEMMA IdleRequest ==
  /\ Idle \in Requests
  /\ Idle.pc = "idle" /\ Idle.op = "get" /\ Idle.usage = 0
  /\ Idle.input \in Input /\ Idle.input.systems = 0
  BY UtilityUsageAssumption DEF Idle, Requests, First, Input, Usage, Systems, Mode

(***************************************************************************)
(* The actions, one lemma each.                                            *)
(***************************************************************************)

LEMMA StartPutStep ==
  ASSUME IInv, Watched, Steady, NEW r \in Request, StartPut(r)
  PROVE  IInv'
<1>1. PICK mode \in Mode, hours \in BOOLEAN :
        req' = [req EXCEPT ![r] =
          [Idle EXCEPT !.pc = "hourly", !.op = "put", !.usage = entered + 1,
                       !.mode = mode, !.hours = hours \/ mode = "monthly"]]
  BY DEF StartPut, Become
<1> DEFINE asked == hours \/ mode = "monthly"
           h == [Idle EXCEPT !.pc = "hourly", !.op = "put", !.usage = entered + 1,
                             !.mode = mode, !.hours = asked]
<1>2. asked \in BOOLEAN /\ (mode = "monthly" => asked)
  OBVIOUS
<1>3. req' = [req EXCEPT ![r] = h]
  BY <1>1
<1> HIDE DEF asked
<1>4. entered' = entered + 1 /\ entered + 1 \in Usage
  BY Numbers, UtilityUsageAssumption DEF StartPut, IInv, Usage
<1>5. h \in Requests /\ h.pc = "hourly" /\ h.op = "put" /\ h.usage = entered + 1
      /\ h.mode = mode /\ h.hours = asked /\ h.input.systems = 0
  BY <1>2, <1>4, IdleRequest DEF Requests, Idle, First
<1> HIDE DEF h
<1>6. At(r, "idle") /\ UNCHANGED <<systems, doc, hourly, profile, figures, pending>>
  BY DEF StartPut
<1>7. TypeOK'
  BY <1>3, <1>4, <1>5, <1>6 DEF IInv, TypeOK
<1>8. SoundDoc(doc, systems, entered)' /\ systems <= systems' /\ entered <= entered'
  BY <1>4, <1>6, Numbers DEF IInv, SoundDoc
<1>9. Sound(h, systems', entered') /\ Solo(h, entered', doc', hourly', profile')
  BY <1>2, <1>4, <1>5, <1>6, Numbers DEF Sound, Solo, IInv
<1>10. clean' => WholeFor(h, doc', hourly', profile', figures', pending')
  BY <1>3, <1>5, <1>6, StartedAlone
     DEF WholeFor, At, Solo
<1>11. S3IsAhead'
  BY <1>3, <1>5, <1>6, StartedAlone DEF S3IsAhead, IInv
<1> QED
  BY HandlerStep, <1>3, <1>5, <1>6, <1>7, <1>8, <1>9, <1>10, <1>11

LEMMA StartChangeSystemStep ==
  ASSUME IInv, Watched, Steady, NEW r \in Request, StartChangeSystem(r)
  PROVE  IInv'
<1> DEFINE h == [Idle EXCEPT !.pc = "read", !.op = "existing"]
<1>1. req' = [req EXCEPT ![r] = h] /\ At(r, "idle")
      /\ UNCHANGED <<entered, doc, hourly, profile, figures, pending>>
  BY DEF StartChangeSystem, Become
<1>2. systems' = systems + 1 /\ systems + 1 \in Systems
  BY Numbers, UtilityUsageAssumption DEF StartChangeSystem, IInv, Systems
<1>3. h \in Requests /\ h.pc = "read" /\ h.op = "existing" /\ h.usage = 0
      /\ h.input.systems = 0
  BY IdleRequest DEF Requests, Idle, First
<1> HIDE DEF h
<1>4. TypeOK'
  BY <1>1, <1>2, <1>3 DEF IInv, TypeOK
<1>5. SoundDoc(doc, systems, entered)' /\ systems <= systems' /\ entered <= entered'
  BY <1>1, <1>2, Numbers DEF IInv, SoundDoc, Input
<1>6. Sound(h, systems', entered') /\ Solo(h, entered', doc', hourly', profile')
  BY <1>1, <1>2, <1>3, Numbers DEF Sound, Solo, IInv
<1>7. clean' => WholeFor(h, doc', hourly', profile', figures', pending')
  BY <1>1, <1>3, StartedAlone
     DEF WholeFor, At, Solo
<1>8. S3IsAhead'
  BY <1>1, <1>3, StartedAlone DEF S3IsAhead, IInv
<1> QED
  BY HandlerStep, <1>1, <1>3, <1>4, <1>5, <1>6, <1>7, <1>8

LEMMA ReadUsageStep ==
  ASSUME IInv, Watched, Steady, NEW r \in Request, ReadUsage(r)
  PROVE  IInv'
<1> DEFINE asked == doc.mode = "monthly"
           h == [req[r] EXCEPT !.pc = "hourly", !.usage = entered + 1, !.mode = doc.mode,
                               !.hours = asked]
<1>1. asked \in BOOLEAN /\ (doc.mode = "monthly" => asked)
  OBVIOUS
<1>2. req' = [req EXCEPT ![r] = h] /\ At(r, "read") /\ req[r].op = "existing"
      /\ UNCHANGED <<systems, doc, hourly, profile, figures, pending>>
  BY DEF ReadUsage, Become
<1> HIDE DEF asked
<1>3. entered' = entered + 1 /\ entered + 1 \in Usage
  BY Numbers, UtilityUsageAssumption DEF ReadUsage, IInv, Usage
<1>4. req[r] \in Requests /\ doc.mode \in Mode
  BY DEF IInv, TypeOK
<1>5. h \in Requests /\ h.pc = "hourly" /\ h.op = "existing" /\ h.usage = entered + 1
      /\ h.mode = doc.mode /\ h.hours = asked /\ h.input = req[r].input
  BY <1>1, <1>2, <1>3, <1>4 DEF Requests
<1> HIDE DEF h
<1>6. TypeOK'
  BY <1>2, <1>3, <1>5 DEF IInv, TypeOK
<1>7. SoundDoc(doc, systems, entered)' /\ systems <= systems' /\ entered <= entered'
  BY <1>2, <1>3, Numbers DEF IInv, SoundDoc
<1>8. Sound(h, systems', entered') /\ Solo(h, entered', doc', hourly', profile')
  BY <1>1, <1>2, <1>3, <1>5, Numbers DEF Sound, Solo, IInv
<1>9. clean' => WholeFor(h, doc', hourly', profile', figures', pending')
  BY <1>2, <1>5, StartedAlone
     DEF WholeFor, At, Solo
<1>10. S3IsAhead'
  BY <1>2, <1>5, StartedAlone DEF S3IsAhead, IInv
<1> QED
  BY HandlerStep, <1>2, <1>5, <1>6, <1>7, <1>8, <1>9, <1>10 DEF At

LEMMA PutHourlyStep ==
  ASSUME IInv, Watched, Steady, NEW r \in Request, PutHourly(r)
  PROVE  IInv'
<1> DEFINE h == [req[r] EXCEPT !.pc = "calculate"]
<1>1. req[r] \in Requests
  BY DEF IInv, TypeOK
<1>2. req' = [req EXCEPT ![r] = h] /\ At(r, "hourly")
      /\ hourly' = (IF req[r].hours THEN req[r].usage ELSE hourly)
      /\ UNCHANGED <<systems, entered, doc, profile, figures, pending>>
  BY DEF PutHourly, Goto
<1>3. h \in Requests /\ h.pc = "calculate" /\ h.op = req[r].op /\ h.usage = req[r].usage
      /\ h.mode = req[r].mode /\ h.hours = req[r].hours /\ h.input = req[r].input
  BY <1>1 DEF Requests
<1> HIDE DEF h
<1>4. TypeOK'
  BY <1>1, <1>2, <1>3 DEF IInv, TypeOK, Requests
<1>5. SoundDoc(doc, systems, entered)' /\ systems <= systems' /\ entered <= entered'
  BY <1>2, Numbers DEF IInv, SoundDoc
<1>6. Sound(req[r], systems, entered) /\ req[r].op \in {"put", "existing"}
  BY <1>2 DEF IInv, Sound, At
<1>7. Sound(h, systems', entered')
  BY <1>2, <1>3, <1>6 DEF Sound, At
<1>8. r \in alone' => Solo(h, entered', doc', hourly', profile')
  <2>1. r \in alone' => Solo(req[r], entered, doc, hourly, profile)
    BY Others, <1>2, <1>3 DEF IInv, At
  <2> QED
    BY <2>1, <1>2, <1>3, <1>6 DEF Solo, At
<1>9. clean' => WholeFor(h, doc', hourly', profile', figures', pending')
  BY <1>2, <1>3, <1>6, StartedAlone
     DEF WholeFor, At, Solo
<1>10. S3IsAhead'
  BY <1>2, <1>3, StartedAlone DEF S3IsAhead, IInv
<1> QED
  BY HandlerStep, <1>2, <1>3, <1>4, <1>5, <1>7, <1>8, <1>9, <1>10 DEF At

LEMMA CalculateStep ==
  ASSUME IInv, Watched, Steady, NEW r \in Request, Calculate(r)
  PROVE  IInv'
<1> DEFINE input == [usage |-> req[r].usage, systems |-> systems]
           h == [req[r] EXCEPT !.pc = "profiles", !.todo = Profile, !.input = input]
<1>1. req[r] \in Requests
  BY DEF IInv, TypeOK
<1>2. req' = [req EXCEPT ![r] = h] /\ At(r, "calculate") /\ UNCHANGED stores
  BY DEF Calculate, Become
<1>3. input \in Input /\ input.usage = req[r].usage /\ input.systems = systems
  BY <1>1, Numbers DEF Input, Requests, IInv
<1> HIDE DEF input
<1>4. h \in Requests /\ h.pc = "profiles" /\ h.op = req[r].op /\ h.usage = req[r].usage
      /\ h.mode = req[r].mode /\ h.hours = req[r].hours /\ h.input = input
      /\ h.todo = Profile
  BY <1>1, <1>3 DEF Requests
<1> HIDE DEF h
<1>5. UNCHANGED <<systems, entered, doc, hourly, profile, figures, pending>>
  BY <1>2 DEF stores
<1>6. TypeOK'
  BY <1>2, <1>4, <1>5 DEF IInv, TypeOK
<1>7. SoundDoc(doc, systems, entered)' /\ systems <= systems' /\ entered <= entered'
  BY <1>5, Numbers DEF IInv, SoundDoc
<1>8. Sound(req[r], systems, entered)
  BY DEF IInv
<1>9. Sound(h, systems', entered')
  BY <1>2, <1>3, <1>4, <1>5, <1>8, Numbers DEF Sound, At, IInv
<1>10. r \in alone' => Solo(h, entered', doc', hourly', profile')
  <2>1. r \in alone' => Solo(req[r], entered, doc, hourly, profile)
    BY Others, <1>2, <1>4 DEF IInv, At
  <2> QED
    BY <2>1, <1>2, <1>3, <1>4, <1>5 DEF Solo, At, IInv, SoundDoc
<1>11. clean' => WholeFor(h, doc', hourly', profile', figures', pending')
  BY <1>2, <1>4, <1>5, StartedAlone
     DEF WholeFor, At, Solo
<1>12. S3IsAhead'
  BY <1>2, <1>4, <1>5, StartedAlone DEF S3IsAhead, IInv
<1> QED
  BY HandlerStep, <1>2, <1>4, <1>5, <1>6, <1>7, <1>9, <1>10, <1>11, <1>12 DEF At

LEMMA PutProfileStep ==
  ASSUME IInv, Watched, Steady, NEW r \in Request, NEW p \in Profile, PutProfile(r, p)
  PROVE  IInv'
<1>1. /\ At(r, "profiles") /\ p \in req[r].todo
      /\ profile' = [profile EXCEPT ![p] = req[r].input]
      /\ UNCHANGED <<systems, entered, doc, hourly, figures, pending>>
  BY DEF PutProfile
<1>2. req[r] \in Requests /\ req[r].input \in Input
  BY DEF IInv, TypeOK, Requests
<1>3. Sound(req[r], systems, entered) /\ req[r].input.systems <= systems
  BY DEF IInv, Sound
<1> DEFINE wholeBefore == WholeFor(req[r], doc, hourly, profile, figures, pending)
           soloBefore == Solo(req[r], entered, doc, hourly, profile)
<1>4. profile' \in [Profile -> Input \cup {Legacy}]
      /\ profile'[p] = req[r].input /\ \A o \in Profile : o # p => profile'[o] = profile[o]
  BY <1>1, <1>2 DEF IInv, TypeOK
<1>5. SoundDoc(doc, systems, entered)' /\ systems <= systems' /\ entered <= entered'
  BY <1>1, Numbers DEF IInv, SoundDoc
<1>6. ASSUME NEW h \in Requests, req' = [req EXCEPT ![r] = h] PROVE TypeOK'
  BY <1>1, <1>4, <1>6 DEF IInv, TypeOK
<1>7. ASSUME ~overlapped' => ~overlapped /\ soloBefore PROVE S3IsAhead'
  <2>1. ASSUME ~overlapped', doc'.sums # Legacy, NEW o \in Profile
        PROVE  /\ profile'[o] # Legacy
               /\ profile'[o].usage >= doc'.sums.usage
               /\ profile'[o].systems >= doc'.sums.systems
    <3>1. CASE o # p
      BY <1>1, <1>4, <1>7, <2>1, <3>1 DEF IInv, S3IsAhead
    <3>2. CASE o = p
      <4>1. profile'[o] = req[r].input /\ doc' = doc /\ doc.sums \in Input
            /\ req[r].input # Legacy
        BY <1>1, <1>2, <1>4, <2>1, <3>2, Numbers DEF IInv
      <4>2. doc.sums.usage = doc.usage /\ doc.usage <= entered
        BY <2>1, <4>1 DEF IInv, SoundDoc
      <4>3. doc.sums.systems <= req[r].input.systems
        BY <1>1, <1>7, <2>1, <4>1 DEF Solo, At
      <4>4. req[r].input.usage = req[r].usage
        BY <1>1, <1>3 DEF Sound, At
      <4>5. req[r].usage = entered \/ req[r].usage = doc.usage
        BY <1>1, <1>2, <1>3, <1>7, <2>1 DEF Solo, At, Sound, Requests
      <4>6. req[r].usage \in Nat /\ doc.usage \in Nat /\ entered \in Nat
            /\ doc.sums.systems \in Nat /\ req[r].input.systems \in Nat
        BY <1>2, <4>1, Numbers, UtilityUsageAssumption DEF IInv, Requests, Usage
      <4> QED
        BY <4>1, <4>2, <4>3, <4>4, <4>5, <4>6
    <3> QED BY <3>1, <3>2
  <2> QED
    BY <2>1 DEF S3IsAhead
<1>8. CASE req[r].todo # {p}
  <2> DEFINE h == [req[r] EXCEPT !.todo = @ \ {p}]
  <2>1. req' = [req EXCEPT ![r] = h]
    BY <1>8 DEF PutProfile, Become
  <2>2. h \in Requests /\ h.pc = "profiles" /\ h.op = req[r].op /\ h.usage = req[r].usage
        /\ h.mode = req[r].mode /\ h.hours = req[r].hours /\ h.input = req[r].input
        /\ h.todo = req[r].todo \ {p}
    BY <1>1, <1>2 DEF Requests, At
  <2> HIDE DEF h
  <2>3. Sound(h, systems', entered')
    BY <1>1, <1>3, <2>2 DEF Sound, At
  <2>4. r \in alone' => Solo(h, entered', doc', hourly', profile')
    BY <1>1, <1>4, <2>1, <2>2, StartedAlone DEF Solo, At
  <2>5. clean' => WholeFor(h, doc', hourly', profile', figures', pending')
    BY <1>1, <2>1, <2>2, StartedAlone DEF WholeFor, At
  <2>6. S3IsAhead'
    BY <1>1, <1>7, <2>1, StartedAlone DEF At
  <2> QED
    BY HandlerStep, <1>1, <1>5, <1>6, <2>1, <2>2, <2>3, <2>4, <2>5, <2>6 DEF At
<1>9. CASE req[r].todo = {p} /\ req[r].op = "getProfiles"
  <2>1. req' = [req EXCEPT ![r] = Idle]
    BY <1>9 DEF PutProfile, Become, Finish
  <2>2. Sound(Idle, systems', entered') /\ Solo(Idle, entered', doc', hourly', profile')
    BY <1>1, IdleRequest, Numbers DEF Sound, Solo, IInv
  <2>3. clean' => WholeFor(Idle, doc', hourly', profile', figures', pending')
    <3> DEFINE i == req[r].input
    <3>1. /\ clean' => wholeBefore /\ soloBefore
          /\ i.systems \in Nat
      BY <1>1, <1>2, <2>1, StartedAlone, Numbers DEF At, IInv
    <3>2. clean' => \A o \in Profile : profile'[o] = i
      BY <1>1, <1>4, <1>9, <3>1 DEF Solo, At
    <3>3. clean' /\ doc.sums # Legacy => i.usage = doc.sums.usage /\ i.systems >= doc.sums.systems
      <4>1. i.usage = req[r].usage /\ (doc.sums # Legacy => doc.sums.usage = doc.usage)
        BY <1>1, <1>3 DEF Sound, At, IInv, SoundDoc
      <4>2. clean' => req[r].usage = doc.usage
        BY <1>9, <3>1 DEF Solo
      <4>3. clean' /\ doc.sums # Legacy => doc.sums.systems <= i.systems
        BY <1>1, <3>1 DEF Solo, At
      <4> QED BY <4>1, <4>2, <4>3
    <3>4. clean' /\ doc'.sums # Legacy => Calculated(profile', doc'.sums)
      BY <1>1, <3>2, <3>3 DEF Calculated
    <3> QED
      BY <1>1, <1>9, <3>1, <3>4, IdleRequest DEF WholeFor, At
  <2>4. S3IsAhead'
    BY <1>1, <1>7, <2>1, StartedAlone DEF At
  <2> QED
    BY HandlerStep, IdleRequest, <1>1, <1>5, <1>6, <2>1, <2>2, <2>3, <2>4 DEF At
<1>10. CASE req[r].todo = {p} /\ req[r].op # "getProfiles"
  <2> DEFINE h == [req[r] EXCEPT !.pc = "doc", !.todo = {}]
  <2>1. req' = [req EXCEPT ![r] = h]
    BY <1>10 DEF PutProfile, Become
  <2>2. h \in Requests /\ h.pc = "doc" /\ h.op = req[r].op /\ h.usage = req[r].usage
        /\ h.mode = req[r].mode /\ h.hours = req[r].hours /\ h.input = req[r].input
    BY <1>2 DEF Requests
  <2> HIDE DEF h
  <2>3. Sound(h, systems', entered')
    BY <1>1, <1>2, <1>3, <1>10, <2>2 DEF Sound, At, Requests
  <2>4. r \in alone' => Solo(h, entered', doc', hourly', profile')
    BY <1>1, <1>4, <1>10, <2>1, <2>2, StartedAlone DEF Solo, At
  <2>5. clean' => WholeFor(h, doc', hourly', profile', figures', pending')
    BY <1>1, <1>10, <2>1, <2>2, StartedAlone DEF WholeFor, At
  <2>6. S3IsAhead'
    BY <1>1, <1>7, <2>1, StartedAlone DEF At
  <2> QED
    BY HandlerStep, <1>1, <1>5, <1>6, <2>1, <2>2, <2>3, <2>4, <2>5, <2>6 DEF At
<1> QED
  BY <1>8, <1>9, <1>10

LEMMA SaveUsageStep ==
  ASSUME IInv, Watched, Steady, NEW r \in Request, SaveUsage(r)
  PROVE  IInv'
<1> DEFINE h == [req[r] EXCEPT !.pc = "designs"]
<1>1. req' = [req EXCEPT ![r] = h] /\ At(r, "doc")
      /\ doc' = [usage |-> req[r].usage, mode |-> req[r].mode, sums |-> req[r].input]
      /\ UNCHANGED <<systems, entered, hourly, profile, figures, pending>>
  BY DEF SaveUsage, Goto
<1>2. req[r] \in Requests /\ req[r].input \in Input
  BY DEF IInv, TypeOK, Requests
<1>3. h \in Requests /\ h.pc = "designs" /\ h.op = req[r].op /\ h.usage = req[r].usage
      /\ h.mode = req[r].mode /\ h.hours = req[r].hours /\ h.input = req[r].input
  BY <1>2 DEF Requests
<1> HIDE DEF h
<1>4. doc'.usage = req[r].usage /\ doc'.mode = req[r].mode /\ doc'.sums = req[r].input
  BY <1>1
<1>5. TypeOK'
  BY <1>1, <1>2, <1>3 DEF IInv, TypeOK, Requests
<1>6. Sound(req[r], systems, entered)
  BY DEF IInv
<1>7. SoundDoc(doc, systems, entered)' /\ systems <= systems' /\ entered <= entered'
  <2>1. req[r].usage <= entered
    BY <1>1, <1>6 DEF Sound, At
  <2> QED
    BY <1>1, <1>4, <1>6, <2>1, Numbers DEF IInv, SoundDoc, Sound, At
<1>8. Sound(h, systems', entered')
  BY <1>1, <1>3, <1>6 DEF Sound, At
<1>9. r \in alone' => Solo(h, entered', doc', hourly', profile')
  BY <1>1, <1>3, <1>4, <1>6, StartedAlone DEF Solo, At, Sound
<1>10. clean' => WholeFor(h, doc', hourly', profile', figures', pending')
  <2>1. req[r].input.systems \in Nat /\ req[r].input.usage \in Nat
    BY <1>2, Numbers DEF IInv
  <2>2. clean' => Calculated(profile', doc'.sums)
    <3>1. clean' => \A p \in Profile : profile'[p] = req[r].input
      BY <1>1, <1>3, StartedAlone DEF Solo, At
    <3> QED
      BY <1>4, <2>1, <3>1 DEF Calculated
  <2> QED
    BY <1>1, <1>3, <1>4, <1>6, <2>2, StartedAlone DEF WholeFor, Solo, At, Sound
<1>11. S3IsAhead'
  <2>1. ~overlapped' => \A p \in Profile : profile'[p] = req[r].input
    BY <1>1, <1>3, StartedAlone DEF Solo, At
  <2>2. req[r].input # Legacy /\ req[r].input.usage \in Nat /\ req[r].input.systems \in Nat
    BY <1>2, Numbers DEF IInv
  <2> QED
    BY <1>4, <2>1, <2>2 DEF S3IsAhead
<1> QED
  BY HandlerStep, <1>1, <1>3, <1>5, <1>7, <1>8, <1>9, <1>10, <1>11 DEF At

LEMMA StartGetStep ==
  ASSUME IInv, Watched, Steady, NEW r \in Request, NEW usage \in Usage, At(r, "idle"),
         req' = [req EXCEPT ![r] = [Idle EXCEPT !.pc = "putBack", !.usage = usage]],
         UNCHANGED stores, usage \in {hourly, doc.usage}
  PROVE  IInv'
<1> DEFINE h == [Idle EXCEPT !.pc = "putBack", !.usage = usage]
<1>1. h \in Requests /\ h.pc = "putBack" /\ h.op = "get" /\ h.usage = usage
      /\ h.input.systems = 0
  BY IdleRequest DEF Requests, Idle, First
<1>2. req' = [req EXCEPT ![r] = h]
  OBVIOUS
<1> HIDE DEF h
<1>3. UNCHANGED <<systems, entered, doc, hourly, profile, figures, pending>>
  BY DEF stores
<1>4. TypeOK'
  BY <1>1, <1>2, <1>3 DEF IInv, TypeOK
<1>5. SoundDoc(doc, systems, entered)' /\ systems <= systems' /\ entered <= entered'
  BY <1>3, Numbers DEF IInv, SoundDoc
<1>6. Sound(h, systems', entered') /\ Solo(h, entered', doc', hourly', profile')
  BY <1>1, <1>3, Numbers DEF Sound, Solo, IInv
<1>7. clean' => WholeFor(h, doc', hourly', profile', figures', pending')
  BY <1>1, <1>2, <1>3, StartedAlone DEF WholeFor, At
<1>8. S3IsAhead'
  BY <1>1, <1>2, <1>3, StartedAlone DEF S3IsAhead, IInv
<1> QED
  BY HandlerStep, <1>1, <1>2, <1>3, <1>4, <1>5, <1>6, <1>7, <1>8

LEMMA StartGetProfilesStep ==
  ASSUME IInv, Watched, Steady, NEW r \in Request, StartGetProfiles(r)
  PROVE  IInv'
<1> DEFINE h == [Idle EXCEPT !.pc = "calculate", !.op = "getProfiles", !.usage = doc.usage]
<1>1. doc.usage \in Usage
  BY Numbers DEF IInv
<1>2. h \in Requests /\ h.pc = "calculate" /\ h.op = "getProfiles" /\ h.usage = doc.usage
      /\ h.input.systems = 0
  BY <1>1, IdleRequest DEF Requests, Idle, First
<1>3. req' = [req EXCEPT ![r] = h] /\ At(r, "idle")
  BY DEF StartGetProfiles, Become
<1> HIDE DEF h
<1>4. UNCHANGED <<systems, entered, doc, hourly, profile, figures, pending>>
  BY DEF stores, StartGetProfiles
<1>5. TypeOK'
  BY <1>2, <1>3, <1>4 DEF IInv, TypeOK
<1>6. SoundDoc(doc, systems, entered)' /\ systems <= systems' /\ entered <= entered'
  BY <1>4, Numbers DEF IInv, SoundDoc
<1>7. Sound(h, systems', entered') /\ Solo(h, entered', doc', hourly', profile')
  BY <1>2, <1>4, Numbers DEF Sound, Solo, IInv, SoundDoc
<1>8. clean' => WholeFor(h, doc', hourly', profile', figures', pending')
  BY <1>2, <1>3, <1>4, StartedAlone DEF WholeFor, At
<1>9. S3IsAhead'
  BY <1>2, <1>3, <1>4, StartedAlone DEF S3IsAhead, IInv
<1> QED
  BY HandlerStep, <1>2, <1>3, <1>4, <1>5, <1>6, <1>7, <1>8, <1>9

LEMMA PutBackStep ==
  ASSUME IInv, Watched, Steady, NEW r \in Request, PutBack(r)
  PROVE  IInv'
<1>1. req' = [req EXCEPT ![r] = Idle] /\ At(r, "putBack") /\ hourly' = req[r].usage
      /\ UNCHANGED <<systems, entered, doc, profile, figures, pending>>
  BY DEF PutBack, Finish, Become
<1>2. req[r] \in Requests
  BY DEF IInv, TypeOK
<1>3. TypeOK'
  BY <1>1, <1>2, IdleRequest DEF IInv, TypeOK, Requests
<1>4. SoundDoc(doc, systems, entered)' /\ systems <= systems' /\ entered <= entered'
  BY <1>1, Numbers DEF IInv, SoundDoc
<1>5. Sound(Idle, systems', entered') /\ Solo(Idle, entered', doc', hourly', profile')
  BY <1>1, IdleRequest, Numbers DEF Sound, Solo, IInv
<1>6. Sound(req[r], systems, entered)
  BY DEF IInv
<1>7. clean' => WholeFor(Idle, doc', hourly', profile', figures', pending')
  BY <1>1, <1>6, IdleRequest, StartedAlone DEF WholeFor, At, Sound
<1>8. S3IsAhead'
  BY <1>1, StartedAlone DEF S3IsAhead, IInv, At
<1> QED
  BY HandlerStep, IdleRequest, <1>1, <1>3, <1>4, <1>5, <1>7, <1>8 DEF At

LEMMA FailStep ==
  ASSUME IInv, Watched, clean' = FALSE, NEW r \in Request, Fail(r)
  PROVE  IInv'
<1>1. req' = [req EXCEPT ![r] = Idle] /\ ~At(r, "idle")
      /\ UNCHANGED <<systems, entered, doc, hourly, profile, figures, pending>>
  BY DEF Fail, Finish, Become, stores
<1>2. TypeOK'
  BY <1>1, IdleRequest DEF IInv, TypeOK
<1>3. SoundDoc(doc, systems, entered)' /\ systems <= systems' /\ entered <= entered'
  BY <1>1, Numbers DEF IInv, SoundDoc
<1>4. Sound(Idle, systems', entered') /\ Solo(Idle, entered', doc', hourly', profile')
  BY <1>1, IdleRequest, Numbers DEF Sound, Solo, IInv
<1>5. Steady
  BY DEF Steady
<1>6. S3IsAhead'
  BY <1>1, <1>5, StartedAlone DEF S3IsAhead, IInv
<1> QED
  BY HandlerStep, IdleRequest, <1>1, <1>2, <1>3, <1>4, <1>5, <1>6

\* Steps of no request: figures arrive or are lost, or somebody enters an existing system.
LEMMA EnvironmentStep ==
  ASSUME IInv, Watched, Steady,
         \/ AddSystem
         \/ \E f \in pending : UpdateProduction(f)
         \/ (\E f \in pending : LoseProduction(f)) /\ ~clean'
  PROVE  IInv'
<1>1. UNCHANGED <<entered, doc, hourly, profile, req>>
  BY DEF AddSystem, UpdateProduction, LoseProduction
<1>2. systems' \in Systems /\ systems <= systems' /\ entered <= entered'
  BY Numbers, UtilityUsageAssumption DEF AddSystem, UpdateProduction, LoseProduction, IInv, Systems
<1>3. TypeOK'
  BY <1>1, <1>2 DEF AddSystem, UpdateProduction, LoseProduction, IInv, TypeOK
<1>4. SoundDoc(doc, systems, entered)'
  <2>1. /\ doc.sums # Legacy => doc.sums.systems \in Nat
        /\ systems \in Nat /\ systems' \in Nat
    BY <1>2, Numbers, UtilityUsageAssumption DEF IInv, Systems
  <2> QED
    BY <1>1, <1>2, <2>1 DEF IInv, SoundDoc
<1>5. \A r \in Request : Sound(req'[r], systems', entered')
  <2> TAKE r \in Request
  <2>1. req[r].input.systems \in Nat /\ systems \in Nat /\ systems' \in Nat
    BY <1>2, UtilityUsageAssumption DEF IInv, TypeOK, Requests, Input, Systems
  <2> QED
    BY <1>1, <1>2, <2>1 DEF IInv, Sound
<1>6. MonitorOK'
  BY MonitorStays DEF IInv
<1>7. \A r \in alone' : Solo(req'[r], entered', doc', hourly', profile')
  BY <1>1 DEF IInv, Watched, Busy, At
<1>8. clean' => Whole'
  <2>1. CASE AddSystem
    BY <1>1, <2>1 DEF AddSystem, Steady, IInv, Whole, ProfilesWhole, HourlyWhole, FiguresWhole,
                      ReadersWhole, At
  <2>2. CASE \E f \in pending : UpdateProduction(f)
    <3> SUFFICES ASSUME clean' PROVE Whole'
      OBVIOUS
    <3>1. PICK f \in pending : figures' = f /\ pending' = pending \ {f}
      BY <2>2 DEF UpdateProduction
    <3>2. Whole /\ pending' = {}
      BY <3>1 DEF Steady, IInv, MonitorOK, Racing
    <3>3. FiguresWhole'
      BY <1>1, <3>1, <3>2 DEF Whole, FiguresWhole, At
    <3> QED
      BY <1>1, <3>2, <3>3 DEF Whole, ProfilesWhole, HourlyWhole, ReadersWhole, At
  <2> QED BY <2>1, <2>2
<1>9. S3IsAhead'
  BY <1>1 DEF IInv, Watched, S3IsAhead
<1>10. OneUsage'
  BY DEF AddSystem, UpdateProduction, LoseProduction, IInv, Watched, OneUsage,
         FiguresAreOfOneUsage
<1> QED
  BY <1>3, <1>4, <1>5, <1>6, <1>7, <1>8, <1>9, <1>10 DEF IInv

LEMMA RefreshDesignsStep ==
  ASSUME IInv, Watched, NEW r \in Request, RefreshDesigns(r),
         clean' => (r \in alone /\ pending = {}) \/ (clean /\ ~Overlap' /\ ~Racing')
  PROVE  IInv'
<1> DEFINE f == [annual |-> req[r].input, sums |-> doc.sums, systems |-> systems]
<1>1. req' = [req EXCEPT ![r] = Idle] /\ At(r, "designs") /\ pending' = pending \cup {f}
      /\ UNCHANGED <<systems, entered, doc, hourly, profile, figures>>
  BY DEF RefreshDesigns, Finish, Become
<1>2. req[r] \in Requests /\ req[r].input \in Input
  BY DEF IInv, TypeOK, Requests
<1>3. f \in Figures /\ f.annual = req[r].input /\ f.sums = doc.sums
  BY <1>2 DEF Figures, IInv, TypeOK
<1> HIDE DEF f
<1>4. TypeOK'
  BY <1>1, <1>3, IdleRequest DEF IInv, TypeOK
<1>5. SoundDoc(doc, systems, entered)'
  BY <1>1 DEF IInv
<1>6. req'[r] = Idle /\ \A s \in Request : s # r => req'[s] = req[s]
  BY <1>1 DEF IInv, TypeOK
<1>7. \A s \in Request : Sound(req'[s], systems', entered')
  BY <1>1, <1>6, IdleRequest, Numbers DEF IInv, Sound
<1>8. r \notin Busy' /\ r \in Busy
  BY <1>1, <1>6, IdleRequest DEF Busy, At
<1>9. clean' => r \in alone /\ Busy = {r} /\ Busy' = {} /\ pending' = {f}
  <2>1. clean' => r \in alone
    BY <1>8 DEF IInv, MonitorOK
  <2>2. r \in alone => Busy = {r}
    BY <1>8 DEF IInv, MonitorOK, Overlap
  <2>3. Busy' \subseteq Busy
    BY <1>6, <1>8 DEF Busy, At
  <2>4. clean' => pending' = {f}
    BY <1>1 DEF Racing
  <2> QED
    BY <1>8, <2>1, <2>2, <2>3, <2>4
<1>10. MonitorOK'
  <2>1. ~overlapped' => ~Overlap' /\ Busy' \subseteq alone'
    BY DEF IInv, Watched, MonitorOK
  <2>2. clean' => ~Overlap' /\ ~Racing'
    BY <1>9 DEF Overlap, Racing
  <2> QED
    BY <1>9, <2>1, <2>2 DEF IInv, Watched, MonitorOK
<1>11. \A s \in alone' : Solo(req'[s], entered', doc', hourly', profile')
  <2> TAKE s \in alone'
  <2>1. s = r
    BY Others, <1>1 DEF At
  <2> QED
    BY <1>8, <2>1 DEF Watched
<1>12. clean' => Whole'
  <2> SUFFICES ASSUME clean' PROVE Whole'
    OBVIOUS
  <2>1. Solo(req[r], entered, doc, hourly, profile) /\ Sound(req[r], systems, entered)
    BY <1>9 DEF IInv
  <2>2. /\ \A p \in Profile : profile[p] = doc.sums
        /\ doc.mode = "monthly" => hourly = doc.usage
        /\ f.annual = doc.sums /\ f.sums = doc.sums
    BY <1>1, <1>3, <2>1 DEF Solo, Sound, At
  <2>3. \A s \in Request : req'[s].pc = "idle" /\ req'[s].op = "get"
    BY <1>6, <1>7, <1>9 DEF Busy, At, Sound
  <2>4. doc.sums # Legacy => Calculated(profile, doc.sums)
    BY <2>2, Numbers DEF Calculated, IInv
  <2> QED
    BY <1>1, <1>9, <2>2, <2>3, <2>4
       DEF Whole, ProfilesWhole, HourlyWhole, FiguresWhole, ReadersWhole, At
<1>13. S3IsAhead'
  BY <1>1 DEF IInv, Watched, S3IsAhead
<1>14. OneUsage'
  <2>1. ~overlapped' => ~overlapped /\ r \in alone
    BY <1>8 DEF Watched, IInv, MonitorOK
  <2>2. ~overlapped' => f.annual = f.sums
    BY <1>1, <1>3, <2>1 DEF IInv, Solo, At
  <2> QED
    BY <1>1, <2>1, <2>2 DEF IInv, OneUsage, FiguresAreOfOneUsage
<1> QED
  BY <1>4, <1>5, <1>7, <1>10, <1>11, <1>12, <1>13, <1>14 DEF IInv

(***************************************************************************)
(* Only the end of an update that has run alone makes up for a failure.    *)
(***************************************************************************)
LEMMA StepIsSteady ==
  ASSUME IInv, MonitoredNext, ~\E r \in Request : RefreshDesigns(r)
  PROVE  Steady
<1>1. ASSUME Step, NEW s \in alone, At(s, "designs"), req'[s] = Idle PROVE FALSE
  <2>1. s \in Request /\ req[s].pc = "designs" /\ req'[s].pc = "idle"
    BY <1>1, IdleRequest DEF IInv, MonitorOK, Busy, At
  <2>2. req' # req
    BY <2>1
  <2>3. PICK r \in Request :
          \/ StartPut(r) \/ StartChangeSystem(r) \/ ReadUsage(r) \/ PutHourly(r) \/ Calculate(r)
          \/ SaveUsage(r) \/ StartGet(r) \/ StartGetUnreadable(r) \/ PutBack(r)
          \/ StartGetProfiles(r)
          \/ \E p \in Profile : PutProfile(r, p)
    BY <1>1, <2>2 DEF Step, AddSystem, UpdateProduction
  <2>4. req[r].pc # "designs"
    BY <2>3 DEF StartPut, StartChangeSystem, ReadUsage, PutHourly, Calculate, SaveUsage,
                StartGet, StartGetUnreadable, PutBack, StartGetProfiles, PutProfile, At
  <2>5. \A o \in Request : o # r => req'[o] = req[o]
    BY <2>3 DEF StartPut, StartChangeSystem, ReadUsage, PutHourly, Calculate, SaveUsage,
                StartGet, StartGetUnreadable, PutBack, StartGetProfiles, PutProfile, Become, Goto, Finish,
                IInv, TypeOK
  <2> QED
    BY <2>1, <2>4, <2>5
<1>2. Step => ~Updated
  BY <1>1 DEF Updated, At
<1> QED
  BY <1>2 DEF MonitoredNext, Steady

LEMMA NextInv ==
  ASSUME IInv, [MonitoredNext]_<<vars, monitor>>
  PROVE  IInv'
<1>1. CASE UNCHANGED <<vars, monitor>>
  BY <1>1 DEF vars, stores, monitor, IInv, TypeOK, MonitorOK, Busy, Overlap, Racing, At, Whole,
              ProfilesWhole, HourlyWhole, FiguresWhole, ReadersWhole, OneUsage,
              FiguresAreOfOneUsage, S3IsAhead
<1>2. CASE MonitoredNext
  <2>1. Watched
    <3>1. clean' \in BOOLEAN
      BY <1>2 DEF MonitoredNext, IInv, MonitorOK
    <3> QED
      BY <1>2, <3>1 DEF MonitoredNext, Watched
  <2>2. CASE \E r \in Request : RefreshDesigns(r)
    <3>1. PICK r \in Request : RefreshDesigns(r)
      BY <2>2
    <3>2. clean' => (r \in alone /\ pending = {}) \/ (clean /\ ~Overlap' /\ ~Racing')
      <4>1. ASSUME NEW s \in alone, req[s].pc = "designs", req'[s] = Idle PROVE s = r
        <5>1. req'[s].pc = "idle" /\ s \in Request
          BY <4>1, IdleRequest DEF IInv, MonitorOK, Busy
        <5>2. \A o \in Request : o # r => req'[o] = req[o]
          BY <3>1 DEF RefreshDesigns, Finish, Become, IInv, TypeOK
        <5> QED
          BY <4>1, <5>1, <5>2
      <4> QED
        BY <1>2, <4>1 DEF MonitoredNext, Updated
    <3> QED
      BY <2>1, <3>1, <3>2, RefreshDesignsStep
  <2>3. CASE ~\E r \in Request : RefreshDesigns(r)
    <3>1. Steady
      BY <1>2, <2>3, StepIsSteady
    <3> USE <2>1, <3>1
    <3>2. CASE AddSystem \/ \E f \in pending : UpdateProduction(f)
      BY <3>2, EnvironmentStep
    <3>3. ASSUME NEW r \in Request, StartPut(r) PROVE IInv'
      BY <3>3, StartPutStep
    <3>4. ASSUME NEW r \in Request, StartChangeSystem(r) PROVE IInv'
      BY <3>4, StartChangeSystemStep
    <3>5. ASSUME NEW r \in Request, ReadUsage(r) PROVE IInv'
      BY <3>5, ReadUsageStep
    <3>6. ASSUME NEW r \in Request, PutHourly(r) PROVE IInv'
      BY <3>6, PutHourlyStep
    <3>7. ASSUME NEW r \in Request, Calculate(r) PROVE IInv'
      BY <3>7, CalculateStep
    <3>8. ASSUME NEW r \in Request, SaveUsage(r) PROVE IInv'
      BY <3>8, SaveUsageStep
    <3>9. ASSUME NEW r \in Request, StartGet(r) PROVE IInv'
      BY <3>9, StartGetStep DEF StartGet, Become, IInv, TypeOK
    <3>15. ASSUME NEW r \in Request, StartGetUnreadable(r) PROVE IInv'
      <4>1. doc.usage \in Usage
        BY Numbers DEF IInv
      <4> QED
        BY <3>15, <4>1, StartGetStep DEF StartGetUnreadable, Become
    <3>10. ASSUME NEW r \in Request, PutBack(r) PROVE IInv'
      BY <3>10, PutBackStep
    <3>11. ASSUME NEW r \in Request, StartGetProfiles(r) PROVE IInv'
      BY <3>11, StartGetProfilesStep
    <3>12. ASSUME NEW r \in Request, NEW p \in Profile, PutProfile(r, p) PROVE IInv'
      BY <3>12, PutProfileStep
    <3>13. CASE Step
      BY <2>3, <3>13, <3>2, <3>3, <3>4, <3>5, <3>6, <3>7, <3>8, <3>9, <3>10, <3>11, <3>12, <3>15
         DEF Step
    <3>14. CASE Broken /\ clean' = FALSE
      BY <3>14, FailStep, EnvironmentStep DEF Broken
    <3> QED
      BY <1>2, <3>13, <3>14 DEF MonitoredNext
  <2> QED BY <2>2, <2>3
<1> QED BY <1>1, <1>2

LEMMA InitInv == MonitoredInit => IInv
<1> SUFFICES ASSUME MonitoredInit PROVE IInv
  OBVIOUS
<1> USE DEF MonitoredInit, Init
<1>1. \A r \in Request : req[r] = Idle
  OBVIOUS
<1>2. First \in Input /\ First.usage = 0 /\ First.systems = 0
      /\ systems \in Nat /\ systems \in Systems /\ entered \in Usage
  BY UtilityUsageAssumption DEF First, Input, Usage, Systems
<1>3. PICK sums \in {First, Legacy}, mode \in Mode :
        /\ doc = [usage |-> 0, mode |-> mode, sums |-> sums]
        /\ profile = [p \in Profile |-> sums]
        /\ figures = [annual |-> sums, sums |-> sums, systems |-> 0]
  OBVIOUS
<1>4. TypeOK
  BY <1>2, <1>3, IdleRequest DEF TypeOK, Figures, Usage, Systems
<1>5. \A r \in Request : Sound(req[r], systems, entered)
  <2>1. Sound(Idle, systems, entered)
    <3>1. systems = 0 /\ entered = 0
      OBVIOUS
    <3> QED
      BY <3>1, IdleRequest DEF Sound
  <2> QED
    BY <1>1, <2>1
<1>6. SoundDoc(doc, systems, entered)
  BY <1>2, <1>3 DEF SoundDoc
<1>7. Busy = {}
  BY <1>1, IdleRequest DEF Busy, At
<1>8. MonitorOK
  BY <1>7 DEF MonitorOK, Overlap, Racing
<1>9. Whole
  <2>1. doc.sums # Legacy => Calculated(profile, doc.sums)
    BY <1>2, <1>3 DEF Calculated
  <2> QED
    BY <1>1, <1>3, <2>1, IdleRequest
       DEF Whole, ProfilesWhole, HourlyWhole, FiguresWhole, ReadersWhole, At
<1>10. S3IsAhead
  BY <1>2, <1>3 DEF S3IsAhead
<1>11. OneUsage
  BY <1>3 DEF OneUsage, FiguresAreOfOneUsage
<1> QED
  BY <1>4, <1>5, <1>6, <1>8, <1>9, <1>10, <1>11 DEF IInv

LEMMA Invariance == MonitoredSpec => []IInv
<1>1. IInv /\ [MonitoredNext]_<<vars, monitor>> => IInv'
  BY NextInv
<1> QED
  BY <1>1, InitInv, PTL DEF MonitoredSpec

(***************************************************************************)
(* Theorems.                                                               *)
(***************************************************************************)

\* Every variable keeps its type (UtilityUsage, every action).
THEOREM TypeCorrect == MonitoredSpec => []TypeOK
<1>1. IInv => TypeOK
  BY DEF IInv
<1> QED
  BY <1>1, Invariance, PTL

\* S3 is written before the document: while updates do not overlap, no failure, of a call
\* or of the process, leaves a profile in S3 behind the sums in the document
\* (updateUtilityUsageDetailUtil).
THEOREM S3Ahead == MonitoredSpec => []S3IsAhead
<1>1. IInv => S3IsAhead
  BY DEF IInv
<1> QED
  BY <1>1, Invariance, PTL

LEMMA AtRestAgree == IInv => ProfilesAgree /\ HourlyAgrees /\ FiguresAgree
<1> SUFFICES ASSUME IInv, clean, AtRest PROVE ProfilesAgree /\ HourlyAgrees /\ FiguresAgree
  BY DEF ProfilesAgree, HourlyAgrees, FiguresAgree
<1>1. \A r \in Request : req[r].pc = "idle"
  BY DEF AtRest, Busy, At
<1> QED
  BY <1>1 DEF IInv, Whole, ProfilesWhole, Calculated, HourlyWhole, FiguresWhole, AtRest, At,
              ProfilesAgree, HourlyAgrees, FiguresAgree

\* At rest, where nothing overlapped, failed or was lost since the last update that ran
\* alone, the profiles in S3 are of one calculation, of the usage in the document and of
\* no fewer systems than its sums, also where S3 has failed readers
\* (updateUtilityUsageDetailUtil, getHourlyDataByOpportunityId).
THEOREM ProfilesMatchDocument == MonitoredSpec => []ProfilesAgree
  BY AtRestAgree, Invariance, PTL

\* At rest, under the same condition, the hours in S3 are those of the entered usage.
THEOREM HoursMatchDocument == MonitoredSpec => []HourlyAgrees
  BY AtRestAgree, Invariance, PTL

\* At rest, under the same condition, the designs show the figures of the usage: what keeps
\* them from it is an update that was lost or met another one on its way
\* (updateListSystemDesign, which does not await it).
THEOREM FiguresMatchDocument == MonitoredSpec => []FiguresAgree
  BY AtRestAgree, Invariance, PTL

\* While handlers do not overlap, the annual usage and the offset of the designs are of one
\* usage, whatever fails and in whatever order the updates arrive that nobody awaits.
THEOREM FiguresOfOneUsage == MonitoredSpec => []FiguresAreOfOneUsage
<1>1. IInv => FiguresAreOfOneUsage
  BY DEF IInv, OneUsage
<1> QED
  BY <1>1, Invariance, PTL
=============================================================================
