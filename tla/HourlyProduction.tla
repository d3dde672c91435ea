-------------------------- MODULE HourlyProduction --------------------------
(***************************************************************************)
(* Where the 8760 hourly values of a production live                       *)
(* (system-designs/sub-services/system-product.service.ts).  PVWatts is    *)
(* asked once for an array; a record with the yearly and monthly sums and  *)
(* an id goes to MongoDB at once, the hourly values go under that id into  *)
(* a cache of the process and, after the answer of the request, to S3      *)
(* (shared/async-context).  The arrays of a request are looked up side by  *)
(* side, requests interleave at every await, any call may fail, and the    *)
(* process may stop.  There is one process (cdk/ECSStack.ts:90).           *)
(***************************************************************************)
EXTENDS FiniteSets

CONSTANTS
  Request,   \* places for requests under way
  Array,     \* the arrays of a request
  Place,     \* latitude, longitude, capacity, azimuth and tilt of an array
  Losses,    \* the system losses asked for
  Id,        \* the uuids; as many as a behaviour may draw
  NoId

ASSUME HourlyAssumption == NoId \notin Id /\ Place # {} /\ Losses # {}

VARIABLES
  recorded,  \* the records in MongoDB: id, place, losses
  s3,        \* ids whose hourly values are in S3
  cache,     \* ids whose hourly values are in _sharedCacheStorage
  issued,    \* ids drawn so far
  uploads,   \* ids whose upload has been started by a flush and has not ended
  req,       \* the request: its route, phase and afterRes queue
  look,      \* look[r][a]: the lookup of array a for request r
  lost,      \* ids the process held alone when it stopped (history)
  unsaved    \* ids whose record a task has not saved (history)

vars == <<recorded, s3, cache, issued, uploads, req, look, lost, unsaved>>

(***************************************************************************)
(* The callers.  "design" looks up hourly values of all arrays, then       *)
(* yearly sums of all arrays, and may end with a task before the answer    *)
(* that looks up hourly values again (regenerateSunroofProduction); "shop" *)
(* (e-commerce) looks up yearly sums only; "usage" hourly values of        *)
(* existing systems (their GET, PUT of one), and so does "refresh" (PUT of *)
(* a usage, DELETE of an existing system), which has no @UseAsyncContext,  *)
(* so that queue() throws.                                                 *)
(***************************************************************************)
Route == {"design", "shop", "usage", "refresh"}
HasContext(route) == route # "refresh"
Phase == {"hourly", "annual", "task"}
Follows == {<<"hourly", "annual">>, <<"annual", "task">>}
Record == [id : Id, place : Place, losses : Losses]

Idle == [pc |-> "idle", route |-> "design", phase |-> "hourly", queue |-> {}]
NoLook == [pc |-> "idle", place |-> CHOOSE p \in Place : TRUE,
           losses |-> CHOOSE l \in Losses : TRUE, id |-> NoId, hours |-> "none"]

Requests == [pc : {"idle", "running", "over"}, route : Route, phase : Phase,
             queue : SUBSET Id]
Looks == [pc : {"idle", "find", "read", "ask", "save", "done", "failed"},
          place : Place, losses : Losses, id : Id \cup {NoId},
          hours : {"none", "full", "missing", "unreadable"}]

(* Every variable keeps its type. *)
TypeOK ==
  /\ recorded \subseteq Record
  /\ s3 \subseteq Id /\ cache \subseteq Id /\ issued \subseteq Id
  /\ uploads \subseteq Id /\ lost \subseteq Id /\ unsaved \subseteq Id
  /\ req \in [Request -> Requests]
  /\ look \in [Request -> [Array -> Looks]]

Init ==
  /\ recorded = {} /\ s3 = {} /\ cache = {} /\ issued = {} /\ uploads = {} /\ lost = {}
  /\ unsaved = {}
  /\ req = [r \in Request |-> Idle]
  /\ look = [r \in Request |-> [a \in Array |-> NoLook]]

----------------------------------------------------------------------------
Settled(r) == \A a \in Array : look[r][a].pc \in {"done", "failed"}
AllDone(r) == \A a \in Array : look[r][a].pc = "done"

(* look[r][a] with some fields changed. *)
Looking(r, a, l) == look' = [look EXCEPT ![r][a] = l]

(* The lookups of the arrays begin.                                        *)
Begin(r) ==
  \E place \in [Array -> Place], losses \in [Array -> Losses] :
    look' = [look EXCEPT ![r] = [a \in Array |->
               [pc |-> "find", place |-> place[a], losses |-> losses[a],
                id |-> NoId, hours |-> "none"]]]

(* What findOne may return: calculatePVProduction does not ask for the     *)
(* losses, pvWatCalculation does.                                          *)
Found(l, phase) ==
  {rec \in recorded : rec.place = l.place /\ (phase = "annual" => rec.losses = l.losses)}

StartRequest(r) ==
  /\ req[r].pc = "idle"
  /\ \E route \in Route :
       req' = [req EXCEPT ![r] = [pc |-> "running", route |-> route, queue |-> {},
                 phase |-> IF route = "shop" THEN "annual" ELSE "hourly"]]
  /\ Begin(r)
  /\ UNCHANGED <<recorded, s3, cache, issued, uploads, lost, unsaved>>

(* A lookup that has ended, with these hourly values (of this record).     *)
Done(id, hours) == [NoLook EXCEPT !.pc = "done", !.id = id, !.hours = hours]
Failed == [NoLook EXCEPT !.pc = "failed"]
ToRead(id) == [NoLook EXCEPT !.pc = "read", !.id = id]

(* What a lookup becomes when findOne has returned a record.               *)
AfterFind(r, rec) ==
  IF req[r].phase = "annual" THEN Done(NoId, "none")
  ELSE IF rec.id \in cache THEN Done(NoId, "full")
  ELSE ToRead(rec.id)

(* Fault: values are read from S3 without a look into the cache. *)
FindInS3(r, a) ==
  LET l == look[r][a]
      found == Found(l, req[r].phase)
  IN
  /\ l.pc = "find"
  /\ IF found = {} THEN Looking(r, a, [l EXCEPT !.pc = "ask"])
     ELSE \E rec \in found : Looking(r, a,
            IF req[r].phase = "annual" THEN AfterFind(r, rec) ELSE ToRead(rec.id))
  /\ UNCHANGED <<recorded, s3, cache, issued, uploads, req, lost, unsaved>>

(* findOne, and the look into the cache that follows it.                   *)
Find(r, a) ==
  LET l == look[r][a]
      found == Found(l, req[r].phase)
  IN
  /\ l.pc = "find"
  /\ IF found = {} THEN Looking(r, a, [l EXCEPT !.pc = "ask"])
     ELSE \E rec \in found : Looking(r, a, AfterFind(r, rec))
  /\ UNCHANGED <<recorded, s3, cache, issued, uploads, req, lost, unsaved>>

(* getObject: an error and a missing object are both answered as []; the   *)
(* branch that would ask PVWatts again tests a list, which is truthy.      *)
Read(r, a) ==
  LET id == look[r][a].id IN
  /\ look[r][a].pc = "read"
  /\ \/ Looking(r, a, Done(NoId, "unreadable"))
     \/ id \in s3 /\ Looking(r, a, Done(NoId, "full"))
     \/ id \notin s3 /\ Looking(r, a, Done(id, "missing"))
  /\ UNCHANGED <<recorded, s3, cache, issued, uploads, req, lost, unsaved>>

(* PVWatts has answered: an id is drawn, the values are cached, the upload *)
(* is queued.  Without a context queue() throws after cache().             *)
Ask(r, a) ==
  /\ look[r][a].pc = "ask"
  /\ \E id \in Id \ issued :
       /\ issued' = issued \cup {id}
       /\ cache' = cache \cup {id}
       /\ IF ~HasContext(req[r].route)
          THEN /\ Looking(r, a, Failed)
               /\ req' = [req EXCEPT ![r].pc = "over"]
          ELSE /\ Looking(r, a, [look[r][a] EXCEPT !.pc = "save", !.id = id])
               /\ req' = [req EXCEPT ![r].queue = @ \cup {id}]
  /\ UNCHANGED <<recorded, s3, uploads, lost, unsaved>>

(* PVWatts or the save of the record fails: Promise.all rejects, the       *)
(* request fails, its other lookups go on.  A task catches the error, so   *)
(* that the request goes on, with the upload of the values queued.         *)
LookupFails(r, a) ==
  /\ look[r][a].pc \in {"ask", "save"}
  /\ Looking(r, a, Failed)
  /\ \/ /\ req[r].phase # "task"
        /\ req' = [req EXCEPT ![r].pc = "over"]
        /\ UNCHANGED unsaved
     \/ /\ req[r].phase = "task"
        /\ unsaved' = unsaved \cup (IF look[r][a].pc = "save" THEN {look[r][a].id} ELSE {})
        /\ UNCHANGED req
  /\ UNCHANGED <<recorded, s3, cache, issued, uploads, lost>>

(* Fault: the record is saved with the id the lookup started with. *)
SaveWithoutId(r, a) ==
  LET l == look[r][a] IN
  /\ l.pc = "save"
  /\ recorded' = recorded \cup {[id |-> NoId, place |-> l.place, losses |-> l.losses]}
  /\ Looking(r, a, Done(NoId, "full"))
  /\ UNCHANGED <<s3, cache, issued, uploads, req, lost, unsaved>>

Save(r, a) ==
  LET l == look[r][a] IN
  /\ l.pc = "save"
  /\ recorded' = recorded \cup {[id |-> l.id, place |-> l.place, losses |-> l.losses]}
  /\ Looking(r, a, Done(NoId, IF req[r].phase = "annual" THEN "none" ELSE "full"))
  /\ UNCHANGED <<s3, cache, issued, uploads, req, lost, unsaved>>

(* A design goes on to the yearly sums of its arrays and to the task; each *)
(* reads the arrays from another document.                                 *)
NextPhase(r) ==
  /\ req[r].pc = "running" /\ req[r].route = "design" /\ AllDone(r)
  /\ \E phase \in Phase :
       /\ <<req[r].phase, phase>> \in Follows
       /\ req' = [req EXCEPT ![r].phase = phase]
  /\ Begin(r)
  /\ UNCHANGED <<recorded, s3, cache, issued, uploads, lost, unsaved>>

(* The handler is done.  A task may fail at any time, whatever its lookups *)
(* are doing: the answer does not wait for them.                           *)
MayAnswer(r) ==
  \/ req[r].phase = "task"
  \/ AllDone(r) /\ (req[r].route = "design" => req[r].phase = "annual")

Left(r) == /\ req' = [req EXCEPT ![r] = Idle]
           /\ look' = [look EXCEPT ![r] = [a \in Array |-> NoLook]]

(* The request is over.  Lookups that still run go on; what they queue is  *)
(* not uploaded any more.                                                  *)
Over(r) == IF Settled(r) THEN Left(r)
           ELSE /\ req' = [req EXCEPT ![r].pc = "over", ![r].queue = {}]
                /\ UNCHANGED look

(* Fault: an entry leaves the cache when its upload starts. *)
AnswerUncaching(r) ==
  /\ req[r].pc = "running" /\ MayAnswer(r)
  /\ uploads' = uploads \cup req[r].queue
  /\ cache' = cache \ req[r].queue
  /\ Over(r)
  /\ UNCHANGED <<recorded, s3, issued, lost, unsaved>>

(* res.send, then flush() starts every queued upload.                      *)
Answer(r) ==
  /\ req[r].pc = "running" /\ MayAnswer(r)
  /\ uploads' = uploads \cup req[r].queue
  /\ Over(r)
  /\ UNCHANGED <<recorded, s3, cache, issued, lost, unsaved>>

(* Something else in the handler fails, whatever its lookups are doing.    *)
HandlerFails(r) ==
  /\ req[r].pc = "running" /\ req[r].phase # "task"
  /\ req' = [req EXCEPT ![r].pc = "over"]
  /\ UNCHANGED <<recorded, s3, cache, issued, uploads, look, lost, unsaved>>

(* Fault: the queue is flushed after a failed request, too. *)
GoneFlushing(r) ==
  /\ req[r].pc = "over" /\ Settled(r)
  /\ uploads' = uploads \cup req[r].queue
  /\ Left(r)
  /\ UNCHANGED <<recorded, s3, cache, issued, lost, unsaved>>

(* The last lookup of a request that is over ends; its queue is dropped.   *)
Gone(r) ==
  /\ req[r].pc = "over" /\ Settled(r)
  /\ Left(r)
  /\ UNCHANGED <<recorded, s3, cache, issued, uploads, lost, unsaved>>

----------------------------------------------------------------------------
Put(i) ==
  /\ i \in uploads \ s3
  /\ s3' = s3 \cup {i}
  /\ UNCHANGED <<recorded, cache, issued, uploads, req, look, lost, unsaved>>

(* The error is logged; the entry stays in the cache.                      *)
PutFails(i) ==
  /\ i \in uploads \ s3
  /\ uploads' = uploads \ {i}
  /\ UNCHANGED <<recorded, s3, cache, issued, req, look, lost, unsaved>>

(* Fault: the entry is kept after the upload. *)
UncacheNothing(i) ==
  /\ i \in uploads \cap s3
  /\ uploads' = uploads \ {i}
  /\ UNCHANGED <<recorded, s3, cache, issued, req, look, lost, unsaved>>

Uncache(i) ==
  /\ i \in uploads \cap s3
  /\ cache' = cache \ {i}
  /\ uploads' = uploads \ {i}
  /\ UNCHANGED <<recorded, s3, issued, req, look, lost, unsaved>>

(* Ids whose record a task is about to save.                               *)
Saving == {i \in Id : \E r \in Request, a \in Array :
             req[r].phase = "task" /\ look[r][a].pc = "save" /\ look[r][a].id = i}

(* The process stops and starts again.                                     *)
Crash ==
  /\ lost' = lost \cup (cache \ s3)
  /\ unsaved' = unsaved \cup Saving
  /\ cache' = {} /\ uploads' = {}
  /\ req' = [r \in Request |-> Idle]
  /\ look' = [r \in Request |-> [a \in Array |-> NoLook]]
  /\ UNCHANGED <<recorded, s3, issued>>

----------------------------------------------------------------------------
Lookup(r) == \E a \in Array :
  Find(r, a) \/ Read(r, a) \/ Ask(r, a) \/ LookupFails(r, a) \/ Save(r, a)
Continue(r) == Lookup(r) \/ NextPhase(r) \/ Answer(r) \/ HandlerFails(r) \/ Gone(r)
Upload(i) == Put(i) \/ PutFails(i) \/ Uncache(i)

Next ==
  \/ \E r \in Request : StartRequest(r) \/ Continue(r)
  \/ \E i \in Id : Upload(i)
  \/ Crash

Spec == Init /\ [][Next]_vars

(* S3 answers a started upload, with success or an error.                  *)
FairSpec == Spec /\ \A i \in Id : WF_vars(Upload(i))

----------------------------------------------------------------------------
(* The hourly values of every record can be read somewhere, unless they    *)
(* were only in memory when the process stopped: whatever fails, whoever   *)
(* reads meanwhile, an entry leaves the cache only when S3 has it (lines   *)
(* 82-92, 110 and 212-224).                                                *)
ValuesAreSomewhere ==
  \A rec \in recorded : rec.id \in cache \cup s3 \cup lost

(* A lookup finds no hourly values for a record only when a stop of the    *)
(* process lost them (or S3 cannot be read): in particular never because   *)
(* another request drew the id and has not uploaded its values yet         *)
(* (getHourlyProduction, lines 121-135).                                   *)
MissingIsLost ==
  \A r \in Request, a \in Array :
    look[r][a].hours = "missing" => look[r][a].id \in lost

(* Values in S3 have a record, or one that a task did not save: a failed   *)
(* request uploads nothing and an answered one has saved the records of    *)
(* its handler (flush-context.interceptor.ts:15-26), but the tasks before  *)
(* the answer catch their errors, so that the values of a record they did  *)
(* not save, or save later, are uploaded all the same                      *)
(* (system-design.hook.ts:214-217, 253).                                   *)
OrphansAreOfTasks == s3 \subseteq {rec.id : rec \in recorded} \cup unsaved \cup Saving

(* A started upload ends with the values in S3 and out of the cache, or    *)
(* with the cache still serving them, or with a stop of the process        *)
(* (flush, lines 45-55 of the provider).                                   *)
UploadSettles ==
  \A i \in Id : i \in uploads ~> \/ i \in s3 \ cache
                                 \/ i \in cache \ (s3 \cup uploads)
                                 \/ i \in lost
=============================================================================
