----------------------- MODULE HourlyProductionProofs -----------------------
(***************************************************************************)
(* Theorems about HourlyProduction, for any number of requests, arrays and *)
(* places, with every failure and stop of the process.                     *)
(***************************************************************************)
EXTENDS HourlyProduction, TLAPS

HasRecord(i) == \E rec \in recorded : rec.id = i

\* The values of a record about to be saved are cached or uploaded, those of a record
\* about to be read from S3 were uploaded or lost, and a lookup that misses values ends.
LookupsFindValues ==
  \A r \in Request, a \in Array :
    /\ look[r][a].pc = "save" => look[r][a].id \in cache \cup s3
    /\ look[r][a].pc = "read" => look[r][a].id \in s3 \cup lost
    /\ look[r][a].hours = "missing" => look[r][a].pc = "done"

\* While a request is not over, whatever it has queued for upload has a record, is about
\* to get one, or was left without one by a task.
QueuedIsSaved ==
  \A r \in Request : req[r].pc = "running" =>
    \A i \in req[r].queue :
      \/ HasRecord(i) \/ i \in unsaved
      \/ \E a \in Array : look[r][a].pc = "save" /\ look[r][a].id = i

UploadedIsSaved == \A i \in uploads \cup s3 : HasRecord(i) \/ i \in unsaved \cup Saving

\* A place for a request keeps no task of the request that has left it.
NoTaskLeft == \A r \in Request : req[r].pc = "idle" => req[r].phase # "task"

IInv == /\ TypeOK /\ NoTaskLeft
        /\ LookupsFindValues /\ QueuedIsSaved /\ UploadedIsSaved
        /\ ValuesAreSomewhere /\ MissingIsLost

LEMMA NoLookType == NoLook \in Looks /\ NoLook.pc = "idle" /\ NoLook.hours = "none"
<1>1. (CHOOSE p \in Place : TRUE) \in Place /\ (CHOOSE l \in Losses : TRUE) \in Losses
  BY HourlyAssumption
<1> QED BY <1>1 DEF NoLook, Looks

LEMMA IdleType == Idle \in Requests /\ Idle.pc = "idle" /\ Idle.phase = "hourly"
  BY DEF Idle, Requests, Route, Phase

\* What a lookup that ends, or goes on to S3, is.
LEMMA EndedType ==
  /\ Failed \in Looks /\ Failed.pc = "failed" /\ Failed.hours = "none"
  /\ \A id \in Id \cup {NoId} :
       /\ ToRead(id) \in Looks /\ ToRead(id).pc = "read"
       /\ ToRead(id).id = id /\ ToRead(id).hours = "none"
       /\ \A h \in {"none", "full", "missing", "unreadable"} :
            /\ Done(id, h) \in Looks /\ Done(id, h).pc = "done"
            /\ Done(id, h).id = id /\ Done(id, h).hours = h
  BY NoLookType DEF Failed, ToRead, Done, Looks

LEMMA InvInit == Init => IInv
<1> SUFFICES ASSUME Init PROVE IInv
  OBVIOUS
<1>1. TypeOK
  BY NoLookType, IdleType DEF Init, TypeOK
<1>2. LookupsFindValues /\ MissingIsLost
  BY NoLookType DEF Init, LookupsFindValues, MissingIsLost
<1>3. QueuedIsSaved /\ UploadedIsSaved /\ ValuesAreSomewhere
  BY IdleType DEF Init, QueuedIsSaved, UploadedIsSaved, ValuesAreSomewhere
<1>4. NoTaskLeft
  BY IdleType DEF Init, NoTaskLeft
<1> QED BY <1>1, <1>2, <1>3, <1>4 DEF IInv

----------------------------------------------------------------------------
(* What a step of a kind leaves of the invariant. *)

\* One lookup moves.
LEMMA LookupStep ==
  ASSUME IInv, NEW r \in Request, NEW a \in Array, NEW l \in Looks, Looking(r, a, l),
         s3' = s3, lost' = lost, cache \subseteq cache',
         l.pc = "save" => l.id \in cache' \cup s3,
         l.pc = "read" => l.id \in s3 \cup lost,
         l.hours = "missing" => l.id \in lost /\ l.pc = "done"
  PROVE  /\ look' \in [Request -> [Array -> Looks]]
         /\ look'[r][a] = l
         /\ \A s \in Request, b \in Array : s # r \/ b # a => look'[s][b] = look[s][b]
         /\ LookupsFindValues' /\ MissingIsLost'
<1>1. look' \in [Request -> [Array -> Looks]]
  BY DEF IInv, TypeOK, Looking
<1>2. look'[r][a] = l
  BY DEF IInv, TypeOK, Looking
<1>3. ASSUME NEW s \in Request, NEW b \in Array, s # r \/ b # a
      PROVE  look'[s][b] = look[s][b]
  BY <1>3 DEF IInv, TypeOK, Looking
<1>4. ASSUME NEW s \in Request, NEW b \in Array
      PROVE  /\ look'[s][b].pc = "save" => look'[s][b].id \in cache' \cup s3'
             /\ look'[s][b].pc = "read" => look'[s][b].id \in s3' \cup lost'
             /\ look'[s][b].hours = "missing" =>
                  look'[s][b].id \in lost' /\ look'[s][b].pc = "done"
  <2>1. CASE s = r /\ b = a
    BY <1>2, <2>1
  <2>2. CASE s # r \/ b # a
    BY <1>3, <2>2 DEF IInv, LookupsFindValues, MissingIsLost
  <2> QED BY <2>1, <2>2
<1> QED BY <1>1, <1>2, <1>3, <1>4 DEF LookupsFindValues, MissingIsLost

\* All lookups of one request begin, or are forgotten.
LEMMA RequestStep ==
  ASSUME IInv, NEW r \in Request, NEW l \in [Array -> Looks],
         look' = [look EXCEPT ![r] = l],
         \A a \in Array : l[a].pc \notin {"save", "read"} /\ l[a].hours # "missing",
         s3' = s3, lost' = lost, cache' = cache
  PROVE  /\ look' \in [Request -> [Array -> Looks]]
         /\ \A s \in Request \ {r} : look'[s] = look[s]
         /\ LookupsFindValues' /\ MissingIsLost'
<1>1. look' \in [Request -> [Array -> Looks]] /\ \A s \in Request \ {r} : look'[s] = look[s]
  BY DEF IInv, TypeOK
<1>2. ASSUME NEW s \in Request, NEW b \in Array
      PROVE  /\ look'[s][b].pc = "save" => look'[s][b].id \in cache' \cup s3'
             /\ look'[s][b].pc = "read" => look'[s][b].id \in s3' \cup lost'
             /\ look'[s][b].hours = "missing" =>
                  look'[s][b].id \in lost' /\ look'[s][b].pc = "done"
  <2>1. CASE s = r
    BY <2>1 DEF IInv, TypeOK
  <2>2. CASE s # r
    BY <2>2 DEF IInv, TypeOK, LookupsFindValues, MissingIsLost
  <2> QED BY <2>1, <2>2
<1> QED BY <1>1, <1>2 DEF LookupsFindValues, MissingIsLost

LEMMA BeginStep ==
  ASSUME IInv, NEW r \in Request, Begin(r), s3' = s3, lost' = lost, cache' = cache
  PROVE  /\ look' \in [Request -> [Array -> Looks]]
         /\ \A s \in Request \ {r} : look'[s] = look[s]
         /\ LookupsFindValues' /\ MissingIsLost'
<1>1. PICK place \in [Array -> Place], losses \in [Array -> Losses] :
        look' = [look EXCEPT ![r] = [a \in Array |->
                   [pc |-> "find", place |-> place[a], losses |-> losses[a],
                    id |-> NoId, hours |-> "none"]]]
  BY DEF Begin
<1> DEFINE l == [a \in Array |-> [pc |-> "find", place |-> place[a], losses |-> losses[a],
                                  id |-> NoId, hours |-> "none"]]
<1>2. l \in [Array -> Looks]
  BY DEF Looks
<1>3. \A a \in Array : l[a].pc \notin {"save", "read"} /\ l[a].hours # "missing"
  OBVIOUS
<1>4. look' = [look EXCEPT ![r] = l]
  BY <1>1
<1> HIDE DEF l
<1> QED BY <1>2, <1>3, <1>4, RequestStep

\* A request that is over, or that leaves its queue as it was and loses no record on its
\* way, keeps its promise.
LEMMA QueueStep ==
  ASSUME IInv, recorded \subseteq recorded', unsaved \subseteq unsaved', NEW r \in Request,
         \A s \in Request \ {r} : req'[s] = req[s] /\ look'[s] = look[s],
         req'[r].pc = "running" =>
           \A i \in req'[r].queue : HasRecord(i)' \/ i \in unsaved' \/
             \E a \in Array : look'[r][a].pc = "save" /\ look'[r][a].id = i
  PROVE  QueuedIsSaved'
<1> SUFFICES ASSUME NEW s \in Request, req'[s].pc = "running", NEW i \in req'[s].queue
             PROVE  HasRecord(i)' \/ i \in unsaved' \/
                      \E a \in Array : look'[s][a].pc = "save" /\ look'[s][a].id = i
  BY DEF QueuedIsSaved
<1>1. CASE s = r
  BY <1>1
<1>2. CASE s # r
  BY <1>2 DEF IInv, QueuedIsSaved, HasRecord
<1> QED BY <1>1, <1>2

\* A lookup that was not saving moves, the queue stays.
LEMMA QueueOnStep ==
  ASSUME IInv, NEW r \in Request, NEW a \in Array, look[r][a].pc # "save",
         req' = req, recorded' = recorded, unsaved' = unsaved,
         \A s \in Request, b \in Array : s # r \/ b # a => look'[s][b] = look[s][b]
  PROVE  QueuedIsSaved'
  BY DEF IInv, QueuedIsSaved, HasRecord

\* What a task is about to save it is still about to save, but for the lookup that moves.
LEMMA SavingStep ==
  ASSUME IInv, NEW r \in Request,
         \A s \in Request \ {r} : req'[s].phase = req[s].phase /\ look'[s] = look[s],
         NEW i \in Saving,
         \A a \in Array : req[r].phase = "task" /\ look[r][a].pc = "save" /\ look[r][a].id = i =>
           req'[r].phase = "task" /\ look'[r][a] = look[r][a]
  PROVE  i \in Saving'
<1>1. PICK s \in Request, a \in Array :
        req[s].phase = "task" /\ look[s][a].pc = "save" /\ look[s][a].id = i
  BY DEF Saving
<1>2. req'[s].phase = "task" /\ look'[s][a] = look[s][a]
  BY <1>1
<1>3. i \in Id
  BY DEF Saving
<1> QED BY <1>1, <1>2, <1>3 DEF Saving

\* A step that saves, uploads and uncaches nothing.
LEMMA StoresStep ==
  ASSUME IInv, recorded' = recorded, s3' = s3, uploads' = uploads, lost' = lost,
         cache \subseteq cache', unsaved \subseteq unsaved',
         \A i \in Saving : i \in Saving' \/ i \in unsaved'
  PROVE  UploadedIsSaved' /\ ValuesAreSomewhere'
  BY DEF IInv, UploadedIsSaved, ValuesAreSomewhere, HasRecord

----------------------------------------------------------------------------
(* The actions. *)

LEMMA StartRequestInv ==
  ASSUME IInv, NEW r \in Request, StartRequest(r) PROVE IInv'
<1>1. PICK route \in Route :
        req' = [req EXCEPT ![r] = [pc |-> "running", route |-> route, queue |-> {},
                  phase |-> IF route = "shop" THEN "annual" ELSE "hourly"]]
  BY DEF StartRequest
<1>2. /\ look' \in [Request -> [Array -> Looks]] /\ LookupsFindValues' /\ MissingIsLost'
      /\ \A s \in Request \ {r} : look'[s] = look[s]
  BY BeginStep DEF StartRequest
<1>3. /\ req' \in [Request -> Requests] /\ req'[r].queue = {} /\ req'[r].pc = "running"
      /\ \A s \in Request \ {r} : req'[s] = req[s]
  BY <1>1 DEF IInv, TypeOK, Requests, Phase
<1>4. QueuedIsSaved'
  BY <1>2, <1>3, QueueStep DEF StartRequest
<1>5. req[r].phase # "task"
  BY DEF IInv, NoTaskLeft, StartRequest
<1>6. \A i \in Saving : i \in Saving'
  BY <1>2, <1>3, <1>5, SavingStep
<1>7. UploadedIsSaved' /\ ValuesAreSomewhere'
  BY <1>6, StoresStep DEF StartRequest
<1>8. NoTaskLeft'
  BY <1>3 DEF IInv, NoTaskLeft
<1> QED BY <1>2, <1>3, <1>4, <1>7, <1>8 DEF IInv, TypeOK, StartRequest

\* What findOne returns is recorded.
LEMMA AfterFindSound ==
  ASSUME IInv, NEW r \in Request, NEW rec \in recorded
  PROVE  LET new == AfterFind(r, rec) IN
           /\ new \in Looks /\ new.pc # "save" /\ new.hours # "missing"
           /\ new.pc = "read" => new.id \in s3 \cup lost
<1>1. rec.id \in Id
  BY DEF IInv, TypeOK, Record
<1>2. rec.id \notin cache => rec.id \in s3 \cup lost
  BY DEF IInv, ValuesAreSomewhere
<1> QED BY <1>1, <1>2, EndedType DEF AfterFind

\* A lookup that was not saving moves, and everything else of its request stays.
LEMMA LookupOnStep ==
  ASSUME IInv, NEW r \in Request, NEW a \in Array, look[r][a].pc # "save",
         UNCHANGED <<recorded, s3, cache, uploads, lost, unsaved, req>>,
         \A s \in Request, b \in Array : s # r \/ b # a => look'[s][b] = look[s][b]
  PROVE  QueuedIsSaved' /\ UploadedIsSaved' /\ ValuesAreSomewhere' /\ NoTaskLeft'
<1>1. \A i \in Saving : i \in Saving'
  BY DEF Saving
<1> QED BY <1>1, QueueOnStep, StoresStep DEF IInv, NoTaskLeft

LEMMA FindInv ==
  ASSUME IInv, NEW r \in Request, NEW a \in Array, Find(r, a) PROVE IInv'
<1> DEFINE l == look[r][a]
<1>1. l \in Looks /\ l.pc = "find" /\ l.hours # "missing"
  BY DEF IInv, TypeOK, LookupsFindValues, Find
<1>2. PICK new \in Looks :
        /\ Looking(r, a, new) /\ new.pc # "save" /\ new.hours # "missing"
        /\ new.pc = "read" => new.id \in s3 \cup lost
  <2>1. CASE Looking(r, a, [l EXCEPT !.pc = "ask"])
    <3>1. [l EXCEPT !.pc = "ask"] \in Looks
      BY <1>1 DEF Looks
    <3> QED BY <1>1, <2>1, <3>1 DEF Looks
  <2>2. CASE \E rec \in recorded : Looking(r, a, AfterFind(r, rec))
    BY <2>2, AfterFindSound
  <2> QED BY <2>1, <2>2 DEF Find, Found
<1>3. /\ look' \in [Request -> [Array -> Looks]]
      /\ \A s \in Request, b \in Array : s # r \/ b # a => look'[s][b] = look[s][b]
      /\ LookupsFindValues' /\ MissingIsLost'
  BY <1>2, LookupStep DEF Find
<1>4. QueuedIsSaved' /\ UploadedIsSaved' /\ ValuesAreSomewhere' /\ NoTaskLeft'
  BY <1>1, <1>3, LookupOnStep DEF Find
<1> QED BY <1>3, <1>4 DEF IInv, TypeOK, Find

LEMMA ReadInv ==
  ASSUME IInv, NEW r \in Request, NEW a \in Array, Read(r, a) PROVE IInv'
<1> DEFINE l == look[r][a]
<1>1. l.pc = "read" /\ l.id \in s3 \cup lost /\ l.id \in Id \cup {NoId}
  BY DEF IInv, TypeOK, Looks, LookupsFindValues, Read
<1>2. PICK new \in Looks :
        Looking(r, a, new) /\ new.pc = "done" /\ (new.hours = "missing" => new.id \in lost)
  BY <1>1, EndedType DEF Read
<1>3. /\ look' \in [Request -> [Array -> Looks]]
      /\ \A s \in Request, b \in Array : s # r \/ b # a => look'[s][b] = look[s][b]
      /\ LookupsFindValues' /\ MissingIsLost'
  BY <1>2, LookupStep DEF Read
<1>4. QueuedIsSaved' /\ UploadedIsSaved' /\ ValuesAreSomewhere' /\ NoTaskLeft'
  BY <1>1, <1>3, LookupOnStep DEF Read
<1> QED BY <1>3, <1>4 DEF IInv, TypeOK, Read

LEMMA AskInv ==
  ASSUME IInv, NEW r \in Request, NEW a \in Array, Ask(r, a) PROVE IInv'
<1> DEFINE l == look[r][a]
<1>1. l \in Looks /\ l.pc = "ask" /\ l.hours # "missing"
  BY DEF IInv, TypeOK, LookupsFindValues, Ask
<1>2. PICK id \in Id \ issued :
        /\ issued' = issued \cup {id} /\ cache' = cache \cup {id}
        /\ \/ /\ Looking(r, a, Failed)
              /\ req' = [req EXCEPT ![r].pc = "over"]
           \/ /\ Looking(r, a, [l EXCEPT !.pc = "save", !.id = id])
              /\ req' = [req EXCEPT ![r].queue = @ \cup {id}]
  BY DEF Ask
<1>3. PICK new \in Looks :
        /\ Looking(r, a, new) /\ new.pc # "read" /\ new.hours # "missing"
        /\ new.pc = "save" => new.id \in cache'
        /\ \/ req' = [req EXCEPT ![r].pc = "over"]
           \/ /\ new.pc = "save" /\ new.id = id
              /\ req' = [req EXCEPT ![r].queue = @ \cup {id}]
  <2>1. CASE /\ Looking(r, a, Failed)
             /\ req' = [req EXCEPT ![r].pc = "over"]
    BY <2>1, EndedType
  <2>2. CASE /\ Looking(r, a, [l EXCEPT !.pc = "save", !.id = id])
             /\ req' = [req EXCEPT ![r].queue = @ \cup {id}]
    <3> DEFINE new == [l EXCEPT !.pc = "save", !.id = id]
    <3>1. new \in Looks /\ new.pc = "save" /\ new.id = id /\ new.hours # "missing"
      BY <1>1 DEF Looks
    <3>2. Looking(r, a, new) /\ id \in cache'
      BY <1>2, <2>2
    <3> HIDE DEF new
    <3> QED BY <2>2, <3>1, <3>2
  <2> QED BY <1>2, <2>1, <2>2
<1>4. /\ look' \in [Request -> [Array -> Looks]] /\ look'[r][a] = new
      /\ \A s \in Request, b \in Array : s # r \/ b # a => look'[s][b] = look[s][b]
      /\ LookupsFindValues' /\ MissingIsLost'
  BY <1>2, <1>3, LookupStep DEF Ask
<1>5. req' \in [Request -> Requests]
  <2>1. req \in [Request -> Requests] /\ req[r] \in Requests
    BY DEF IInv, TypeOK
  <2>2. [req[r] EXCEPT !.pc = "over"] \in Requests
    BY <2>1 DEF Requests
  <2>3. [req[r] EXCEPT !.queue = @ \cup {id}] \in Requests
    BY <2>1 DEF Requests
  <2>4. \/ req' = [req EXCEPT ![r] = [req[r] EXCEPT !.pc = "over"]]
        \/ req' = [req EXCEPT ![r] = [req[r] EXCEPT !.queue = @ \cup {id}]]
    BY <1>3, <2>1
  <2> QED BY <2>1, <2>2, <2>3, <2>4
<1>6. \A s \in Request \ {r} : req'[s] = req[s] /\ look'[s] = look[s]
  BY <1>3 DEF IInv, TypeOK, Looking
<1>7. QueuedIsSaved'
  <2>1. ASSUME req'[r].pc = "running", NEW i \in req'[r].queue
        PROVE  HasRecord(i)' \/ i \in unsaved' \/
                 \E b \in Array : look'[r][b].pc = "save" /\ look'[r][b].id = i
    <3>1. /\ req[r].pc = "running" /\ i \in req[r].queue \cup {id}
          /\ new.pc = "save" /\ new.id = id
      BY <1>3, <2>1 DEF IInv, TypeOK, Requests
    <3>2. CASE i = id
      BY <1>4, <3>1, <3>2
    <3>3. CASE i \in req[r].queue
      BY <1>1, <1>4, <3>1, <3>3 DEF IInv, QueuedIsSaved, HasRecord, Ask
    <3> QED BY <3>1, <3>2, <3>3
  <2> QED BY <1>6, <2>1, QueueStep DEF Ask
<1>8. req'[r].phase = req[r].phase /\ (req'[r].pc = "idle" => req[r].pc = "idle")
  BY <1>3 DEF IInv, TypeOK, Requests
<1>9. \A i \in Saving : i \in Saving'
  BY <1>1, <1>4, <1>6, <1>8, SavingStep
<1>10. UploadedIsSaved' /\ ValuesAreSomewhere'
  BY <1>2, <1>9, StoresStep DEF Ask
<1>11. NoTaskLeft'
  BY <1>6, <1>8 DEF IInv, NoTaskLeft
<1> QED BY <1>2, <1>4, <1>5, <1>7, <1>10, <1>11 DEF IInv, TypeOK, Ask

LEMMA LookupFailsInv ==
  ASSUME IInv, NEW r \in Request, NEW a \in Array, LookupFails(r, a) PROVE IInv'
<1>1. Looking(r, a, Failed)
  BY DEF LookupFails
<1>2. /\ look' \in [Request -> [Array -> Looks]] /\ LookupsFindValues' /\ MissingIsLost'
      /\ \A s \in Request, b \in Array : s # r \/ b # a => look'[s][b] = look[s][b]
  BY <1>1, EndedType, LookupStep DEF LookupFails
<1>3. /\ req' \in [Request -> Requests] /\ req'[r].phase = req[r].phase
      /\ req'[r].pc = "over" \/ (req[r].phase = "task" /\ req' = req)
      /\ \A s \in Request \ {r} : req'[s] = req[s]
  BY DEF IInv, TypeOK, Requests, LookupFails
<1>4. \A s \in Request \ {r} : look'[s] = look[s]
  BY <1>1 DEF IInv, TypeOK, Looking
<1>5. /\ unsaved' \subseteq Id /\ unsaved \subseteq unsaved'
      /\ req[r].phase = "task" /\ look[r][a].pc = "save" => look[r][a].id \in unsaved'
  <2>1. look[r][a].pc = "save" => look[r][a].id \in Id
    BY DEF IInv, TypeOK, LookupsFindValues
  <2> QED BY <2>1 DEF IInv, TypeOK, LookupFails
<1>6. QueuedIsSaved'
  <2>1. ASSUME req'[r].pc = "running", NEW i \in req'[r].queue
        PROVE  HasRecord(i)' \/ i \in unsaved' \/
                 \E b \in Array : look'[r][b].pc = "save" /\ look'[r][b].id = i
    <3>1. req[r].phase = "task" /\ req' = req
      BY <1>3, <2>1
    <3>2. HasRecord(i) \/ i \in unsaved \/
            \E b \in Array : look[r][b].pc = "save" /\ look[r][b].id = i
      BY <2>1, <3>1 DEF IInv, QueuedIsSaved
    <3>3. HasRecord(i) => HasRecord(i)'
      BY DEF HasRecord, LookupFails
    <3> QED BY <1>2, <1>5, <3>1, <3>2, <3>3
  <2> QED BY <1>3, <1>4, <1>5, <2>1, QueueStep DEF LookupFails
<1>7. ASSUME NEW i \in Saving PROVE i \in Saving' \/ i \in unsaved'
  <2>1. CASE req[r].phase = "task" /\ look[r][a].pc = "save" /\ look[r][a].id = i
    BY <1>5, <2>1
  <2>2. CASE ~(req[r].phase = "task" /\ look[r][a].pc = "save" /\ look[r][a].id = i)
    BY <1>2, <1>3, <1>4, <1>7, <2>2, SavingStep
  <2> QED BY <2>1, <2>2
<1>8. UploadedIsSaved' /\ ValuesAreSomewhere'
  BY <1>5, <1>7, StoresStep DEF LookupFails
<1>9. NoTaskLeft'
  BY <1>3 DEF IInv, NoTaskLeft
<1> QED BY <1>2, <1>3, <1>5, <1>6, <1>8, <1>9 DEF IInv, TypeOK, LookupFails

LEMMA SaveInv ==
  ASSUME IInv, NEW r \in Request, NEW a \in Array, Save(r, a) PROVE IInv'
<1> DEFINE l == look[r][a]
           rec == [id |-> l.id, place |-> l.place, losses |-> l.losses]
           new == Done(NoId, IF req[r].phase = "annual" THEN "none" ELSE "full")
<1>1. l \in Looks /\ l.pc = "save" /\ l.id \in cache \cup s3
  BY DEF IInv, TypeOK, LookupsFindValues, Save
<1>2. recorded' = recorded \cup {rec} /\ Looking(r, a, new)
  BY DEF Save
<1>3. rec \in Record /\ rec.id = l.id
  BY <1>1 DEF IInv, TypeOK, Looks, Record
<1>4. new \in Looks /\ new.pc = "done" /\ new.hours # "missing"
  BY EndedType
<1> HIDE DEF new, rec
<1>5. /\ look' \in [Request -> [Array -> Looks]]
      /\ \A s \in Request, b \in Array : s # r \/ b # a => look'[s][b] = look[s][b]
      /\ LookupsFindValues' /\ MissingIsLost'
  BY <1>2, <1>4, LookupStep DEF Save
<1>6. recorded' \subseteq Record
  BY <1>2, <1>3 DEF IInv, TypeOK
<1>7. \A i : HasRecord(i) \/ i = l.id => HasRecord(i)'
  BY <1>2, <1>3 DEF HasRecord
<1>8. \A s \in Request \ {r} : req'[s] = req[s] /\ look'[s] = look[s]
  BY <1>2 DEF IInv, TypeOK, Looking, Save
<1>9. QueuedIsSaved'
  <2>1. ASSUME req'[r].pc = "running", NEW i \in req'[r].queue
        PROVE  HasRecord(i)' \/ i \in unsaved' \/
                 \E b \in Array : look'[r][b].pc = "save" /\ look'[r][b].id = i
    <3>1. HasRecord(i) \/ i \in unsaved \/
            \E b \in Array : look[r][b].pc = "save" /\ look[r][b].id = i
      BY <2>1 DEF IInv, QueuedIsSaved, Save
    <3> QED BY <1>5, <1>7, <3>1 DEF Save
  <2> QED BY <1>2, <1>8, <2>1, QueueStep DEF Save
<1>10. ASSUME NEW i \in Saving PROVE i \in Saving' \/ i = l.id
  <2>1. CASE i # l.id
    <3>1. req' = req
      BY DEF Save
    <3> QED BY <1>5, <1>8, <1>10, <2>1, <3>1, SavingStep
  <2> QED BY <2>1
<1>11. UploadedIsSaved'
  BY <1>7, <1>10 DEF IInv, UploadedIsSaved, Save
<1>12. ValuesAreSomewhere'
  BY <1>1, <1>2, <1>3 DEF IInv, ValuesAreSomewhere, Save
<1> QED BY <1>5, <1>6, <1>9, <1>11, <1>12 DEF IInv, TypeOK, NoTaskLeft, Save

LEMMA NextPhaseInv ==
  ASSUME IInv, NEW r \in Request, NextPhase(r) PROVE IInv'
<1>1. PICK phase \in Phase : req' = [req EXCEPT ![r].phase = phase]
  BY DEF NextPhase
<1>2. /\ req' \in [Request -> Requests] /\ req'[r].queue = req[r].queue
      /\ req'[r].pc = "running" /\ req[r].pc = "running"
      /\ \A s \in Request \ {r} : req'[s] = req[s]
  BY <1>1 DEF IInv, TypeOK, Requests, NextPhase
<1>3. /\ look' \in [Request -> [Array -> Looks]] /\ LookupsFindValues' /\ MissingIsLost'
      /\ \A s \in Request \ {r} : look'[s] = look[s]
  BY BeginStep DEF NextPhase
<1>4. \A b \in Array : look[r][b].pc # "save"
  BY DEF NextPhase, AllDone
<1>5. \A i \in req[r].queue : HasRecord(i)' \/ i \in unsaved'
  BY <1>2, <1>4 DEF IInv, QueuedIsSaved, HasRecord, NextPhase
<1>6. QueuedIsSaved'
  BY <1>2, <1>3, <1>5, QueueStep DEF NextPhase
<1>7. \A i \in Saving : i \in Saving'
  BY <1>2, <1>3, <1>4, SavingStep
<1>8. UploadedIsSaved' /\ ValuesAreSomewhere'
  BY <1>7, StoresStep DEF NextPhase
<1>9. NoTaskLeft'
  BY <1>2 DEF IInv, NoTaskLeft
<1> QED BY <1>2, <1>3, <1>6, <1>8, <1>9 DEF IInv, TypeOK, NextPhase

\* The request is over, or gone.
LEMMA OverStep ==
  ASSUME IInv, NEW r \in Request, Over(r) \/ (Settled(r) /\ Left(r)), recorded' = recorded,
         s3' = s3, cache' = cache, lost' = lost, unsaved' = unsaved
  PROVE  /\ req' \in [Request -> Requests] /\ look' \in [Request -> [Array -> Looks]]
         /\ LookupsFindValues' /\ MissingIsLost' /\ QueuedIsSaved' /\ NoTaskLeft'
         /\ \A i \in Saving : i \in Saving'
<1>1. CASE Settled(r) /\ Left(r)
  <2>1. /\ req' \in [Request -> Requests] /\ req'[r].pc = "idle" /\ req'[r].phase = "hourly"
        /\ \A s \in Request \ {r} : req'[s] = req[s]
    BY <1>1, IdleType DEF IInv, TypeOK, Left
  <2> DEFINE l == [a \in Array |-> NoLook]
  <2>2. /\ l \in [Array -> Looks] /\ look' = [look EXCEPT ![r] = l]
        /\ \A a \in Array : l[a].pc = "idle" /\ l[a].hours = "none"
    BY <1>1, NoLookType DEF Left
  <2> HIDE DEF l
  <2>3. /\ look' \in [Request -> [Array -> Looks]] /\ LookupsFindValues' /\ MissingIsLost'
        /\ \A s \in Request \ {r} : look'[s] = look[s]
    BY <2>2, RequestStep
  <2>4. QueuedIsSaved'
    BY <2>1, <2>3, QueueStep
  <2>5. \A a \in Array : look[r][a].pc # "save"
    BY <1>1 DEF Settled
  <2>6. \A i \in Saving : i \in Saving'
    BY <2>1, <2>3, <2>5, SavingStep
  <2>7. NoTaskLeft'
    BY <2>1 DEF IInv, NoTaskLeft
  <2> QED BY <2>1, <2>3, <2>4, <2>6, <2>7
<1>2. CASE req' = [req EXCEPT ![r].pc = "over", ![r].queue = {}] /\ look' = look
  <2>1. /\ req' \in [Request -> Requests] /\ req'[r].pc = "over"
        /\ req'[r].phase = req[r].phase /\ \A s \in Request \ {r} : req'[s] = req[s]
    BY <1>2 DEF IInv, TypeOK, Requests
  <2>2. QueuedIsSaved'
    BY <1>2, <2>1, QueueStep
  <2>3. \A i \in Saving : i \in Saving'
    BY <1>2, <2>1, SavingStep
  <2>4. LookupsFindValues' /\ MissingIsLost'
    BY <1>2 DEF IInv, LookupsFindValues, MissingIsLost
  <2>5. NoTaskLeft'
    BY <2>1 DEF IInv, NoTaskLeft
  <2> QED BY <1>2, <2>1, <2>2, <2>3, <2>4, <2>5 DEF IInv, TypeOK
<1> QED BY <1>1, <1>2 DEF Over

LEMMA AnswerInv ==
  ASSUME IInv, NEW r \in Request, Answer(r) PROVE IInv'
<1>1. /\ req' \in [Request -> Requests] /\ look' \in [Request -> [Array -> Looks]]
      /\ LookupsFindValues' /\ MissingIsLost' /\ QueuedIsSaved' /\ NoTaskLeft'
      /\ \A i \in Saving : i \in Saving'
  BY OverStep DEF Answer
<1>2. req[r].queue \subseteq Id
  BY DEF IInv, TypeOK, Requests
<1>3. ASSUME NEW i \in req[r].queue PROVE HasRecord(i) \/ i \in unsaved \cup Saving
  <2>1. HasRecord(i) \/ i \in unsaved \/
          \E a \in Array : look[r][a].pc = "save" /\ look[r][a].id = i
    BY <1>3 DEF IInv, QueuedIsSaved, Answer
  <2>2. ASSUME NEW a \in Array, look[r][a].pc = "save", look[r][a].id = i PROVE i \in Saving
    BY <1>2, <1>3, <2>2 DEF Answer, MayAnswer, AllDone, Saving
  <2> QED BY <2>1, <2>2
<1>4. UploadedIsSaved'
  BY <1>1, <1>3 DEF IInv, UploadedIsSaved, HasRecord, Answer
<1> QED BY <1>1, <1>2, <1>4 DEF IInv, TypeOK, ValuesAreSomewhere, Answer

LEMMA GoneInv ==
  ASSUME IInv, NEW r \in Request, Gone(r) PROVE IInv'
<1>1. /\ req' \in [Request -> Requests] /\ look' \in [Request -> [Array -> Looks]]
      /\ LookupsFindValues' /\ MissingIsLost' /\ QueuedIsSaved' /\ NoTaskLeft'
      /\ \A i \in Saving : i \in Saving'
  BY OverStep DEF Gone
<1>2. UploadedIsSaved' /\ ValuesAreSomewhere'
  BY <1>1, StoresStep DEF Gone
<1> QED BY <1>1, <1>2 DEF IInv, TypeOK, Gone

LEMMA HandlerFailsInv ==
  ASSUME IInv, NEW r \in Request, HandlerFails(r) PROVE IInv'
<1>1. /\ req' \in [Request -> Requests] /\ req'[r].pc = "over"
      /\ req'[r].phase = req[r].phase /\ \A s \in Request \ {r} : req'[s] = req[s]
  BY DEF IInv, TypeOK, Requests, HandlerFails
<1>2. QueuedIsSaved'
  BY <1>1, QueueStep DEF HandlerFails
<1>3. \A i \in Saving : i \in Saving'
  BY <1>1, SavingStep DEF HandlerFails
<1>4. UploadedIsSaved' /\ ValuesAreSomewhere'
  BY <1>3, StoresStep DEF HandlerFails
<1>5. NoTaskLeft'
  BY <1>1 DEF IInv, NoTaskLeft
<1> QED BY <1>1, <1>2, <1>4, <1>5
        DEF IInv, TypeOK, LookupsFindValues, MissingIsLost, HandlerFails

LEMMA UploadInv ==
  ASSUME IInv, NEW i \in Id, Upload(i) PROVE IInv'
<1>1. /\ recorded' = recorded /\ req' = req /\ look' = look /\ lost' = lost
      /\ issued' = issued /\ unsaved' = unsaved
  BY DEF Upload, Put, PutFails, Uncache
<1>2. /\ s3 \subseteq s3' /\ cache \cup s3 \subseteq cache' \cup s3'
      /\ uploads' \cup s3' \subseteq uploads \cup s3 /\ cache' \subseteq cache
  BY DEF Upload, Put, PutFails, Uncache
<1>3. TypeOK'
  BY <1>1, <1>2 DEF IInv, TypeOK
<1>4. LookupsFindValues' /\ MissingIsLost'
  BY <1>1, <1>2 DEF IInv, LookupsFindValues, MissingIsLost
<1>5. QueuedIsSaved'
  BY <1>1 DEF IInv, QueuedIsSaved, HasRecord
<1>6. UploadedIsSaved' /\ ValuesAreSomewhere'
  BY <1>1, <1>2 DEF IInv, UploadedIsSaved, ValuesAreSomewhere, HasRecord, Saving
<1> QED BY <1>1, <1>3, <1>4, <1>5, <1>6 DEF IInv, NoTaskLeft

LEMMA CrashInv ==
  ASSUME IInv, Crash PROVE IInv'
<1>1. TypeOK'
  BY NoLookType, IdleType DEF IInv, TypeOK, Crash, Saving
<1>2. LookupsFindValues' /\ MissingIsLost'
  BY NoLookType DEF Crash, LookupsFindValues, MissingIsLost
<1>3. QueuedIsSaved'
  BY IdleType DEF Crash, QueuedIsSaved
<1>4. UploadedIsSaved' /\ ValuesAreSomewhere'
  BY DEF IInv, UploadedIsSaved, ValuesAreSomewhere, HasRecord, Crash
<1>5. NoTaskLeft'
  BY IdleType DEF Crash, NoTaskLeft
<1> QED BY <1>1, <1>2, <1>3, <1>4, <1>5 DEF IInv

LEMMA InvNext == IInv /\ [Next]_vars => IInv'
<1> SUFFICES ASSUME IInv, [Next]_vars PROVE IInv'
  OBVIOUS
<1>1. CASE \E r \in Request : StartRequest(r)
  BY <1>1, StartRequestInv
<1>2. CASE \E r \in Request : Lookup(r)
  BY <1>2, FindInv, ReadInv, AskInv, LookupFailsInv, SaveInv DEF Lookup
<1>3. CASE \E r \in Request : NextPhase(r) \/ Answer(r) \/ HandlerFails(r) \/ Gone(r)
  BY <1>3, NextPhaseInv, AnswerInv, HandlerFailsInv, GoneInv
<1>4. CASE \E i \in Id : Upload(i)
  BY <1>4, UploadInv
<1>5. CASE Crash
  BY <1>5, CrashInv
<1>6. CASE UNCHANGED vars
  BY <1>6 DEF vars, IInv, TypeOK, LookupsFindValues, QueuedIsSaved, UploadedIsSaved,
              ValuesAreSomewhere, MissingIsLost, HasRecord, NoTaskLeft, Saving
<1> QED BY <1>1, <1>2, <1>3, <1>4, <1>5, <1>6 DEF Next, Continue

\* What holds of lookups, queues, cache and objects holds after every step, failures and
\* stops included.
THEOREM Invariance == Spec => []IInv
<1> QED BY InvInit, InvNext, PTL DEF Spec

----------------------------------------------------------------------------

\* Every variable keeps its type, for any number of requests, arrays and places.
THEOREM TypeCorrect == Spec => []TypeOK
<1>1. IInv => TypeOK
  BY DEF IInv
<1> QED BY <1>1, Invariance, PTL

\* The hourly values of every record are in the cache or in S3, unless the stop of the
\* process that held them lost them; no failure of a call or a request loses any.
THEOREM RecordsKeepValues == Spec => []ValuesAreSomewhere
<1>1. IInv => ValuesAreSomewhere
  BY DEF IInv
<1> QED BY <1>1, Invariance, PTL

\* A reader misses the values of a record only if a stop of the process lost them.
THEOREM OnlyStopsLoseValues == Spec => []MissingIsLost
<1>1. IInv => MissingIsLost
  BY DEF IInv
<1> QED BY <1>1, Invariance, PTL

\* Whatever is in S3 has a record, or one that a task before the answer has not saved.
THEOREM OrphansComeFromTasks == Spec => []OrphansAreOfTasks
<1>1. IInv => OrphansAreOfTasks
  BY DEF IInv, UploadedIsSaved, HasRecord, OrphansAreOfTasks
<1> QED BY <1>1, Invariance, PTL
=============================================================================
