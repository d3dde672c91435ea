-------------------------- MODULE DesignHooksProofs --------------------------
(***************************************************************************)
(* Theorems about DesignHooks, for any set of panel arrays.                *)
(***************************************************************************)
EXTENDS DesignHooks, SequenceTheorems, TLAPS

TaskRecord == [kind : TaskKind, at : TaskState]

\* What the cache says of the queue is true: the heatmap task is at its place, the
\* production task at its own unless heatmaps took it over, and there is no other.
Places(s) ==
  /\ s.pngs # 0 => s.pngs \in DOMAIN s.beforeRes /\ s.beforeRes[s.pngs].kind = "pngs"
  /\ s.production # 0 /\ s.pngs = 0 =>
       s.production \in DOMAIN s.beforeRes /\ s.beforeRes[s.production].kind = "production"
  /\ \A i \in DOMAIN s.beforeRes :
       /\ s.beforeRes[i].kind = "pngs" => i = s.pngs
       /\ s.beforeRes[i].kind = "production" => i = s.production /\ s.pngs = 0

\* While the queue lives it is as the cache says; it is emptied by the answer.
QueueIsAsCached ==
  IF at = "answered" THEN store.beforeRes = <<>> ELSE Places(store)

\* Of a design that needs heatmaps only hooks that queued them are through.
Needed(a) == design.array[a] # "same" /\ (design.isNew \/ design.moved \/ design.larger)

HooksQueueHeatmaps ==
  /\ store.onNewSystemDesign => store.pngs # 0
  /\ \A a \in Array : hook[a] = "done" /\ Needed(a) => store.pngs # 0
  /\ \A a \in Array : hook[a] = "checkOverlay" =>
       ~design.isNew /\ ~design.moved /\ ~design.larger
  /\ design.moved \/ design.larger \/ design.isNew => store.overlay = 0
  /\ at \in {"flushing", "answered"} => \A a \in Array : hook[a] = "done"
  /\ at \in {"flushing", "answered"} /\ ~design.isNew =>
       store.pngs # 0 \/ store.production # 0

IInv == TypeOK /\ QueueIsAsCached /\ HooksQueueHeatmaps

LEMMA InvInit == Init => IInv
  BY DEF Init, IInv, TypeOK, Design, Store, EmptyStore, QueueIsAsCached, Places,
         HooksQueueHeatmaps, Needed

-----------------------------------------------------------------------------
(* The queue. *)

\* What every operation on the queue keeps: the cache stays right, and no task that
\* was queued is lost to a lesser one.
Keeps(s, t) ==
  /\ t \in Store
  /\ Places(t)
  /\ s.pngs # 0 => t.pngs # 0
  /\ s.production # 0 => t.production # 0
  /\ t.onNewSystemDesign = s.onNewSystemDesign

LEMMA TaskType == \A kind \in TaskKind : Task(kind) \in TaskRecord
  BY DEF Task, TaskRecord, TaskKind, TaskState

LEMMA CancelType ==
  ASSUME NEW q \in Seq(TaskRecord), NEW i \in Nat
  PROVE  /\ Cancel(q, i) \in Seq(TaskRecord)
         /\ DOMAIN Cancel(q, i) = DOMAIN q
         /\ \A j \in DOMAIN q : Cancel(q, i)[j] = IF j = i THEN Task("nothing") ELSE q[j]
<1>1. Task("nothing") \in TaskRecord
  BY TaskType DEF TaskKind
<1>2. CASE i \in DOMAIN q
  BY <1>1, <1>2, ExceptSeq DEF Cancel
<1>3. CASE i \notin DOMAIN q
  <2>1. [q EXCEPT ![i] = Task("nothing")] = q
    BY <1>3
  <2> QED BY <1>3, <2>1 DEF Cancel
<1> QED BY <1>2, <1>3

LEMMA PushType ==
  ASSUME NEW q \in Seq(TaskRecord), NEW kind \in TaskKind
  PROVE  /\ Append(q, Task(kind)) \in Seq(TaskRecord)
         /\ Len(Append(q, Task(kind))) = Len(q) + 1
         /\ DOMAIN Append(q, Task(kind)) = 1 .. Len(q) + 1
         /\ DOMAIN q = 1 .. Len(q)
         /\ Len(q) \in Nat
         /\ \A j \in DOMAIN q : Append(q, Task(kind))[j] = q[j]
         /\ Append(q, Task(kind))[Len(q) + 1] = Task(kind)
<1>1. Task(kind) \in TaskRecord
  BY TaskType
<1> QED BY <1>1

LEMMA StoreType ==
  ASSUME NEW s \in Store, NEW q \in Seq(TaskRecord), NEW i \in Nat
  PROVE  /\ [s EXCEPT !.beforeRes = q] \in Store
         /\ [s EXCEPT !.beforeRes = q, !.overlay = i] \in Store
         /\ [s EXCEPT !.beforeRes = q, !.pngs = i] \in Store
         /\ [s EXCEPT !.beforeRes = q, !.production = i] \in Store
<1> DEFINE Queue == Seq(TaskRecord)
<1>1. Store = [beforeRes : Queue, pngs : Nat, overlay : Nat, production : Nat,
               onNewSystemDesign : BOOLEAN]
  BY DEF Store, TaskRecord
<1>2. q \in Queue
  OBVIOUS
<1> HIDE DEF Queue
<1> QED BY <1>1, <1>2

LEMMA ResaveKeeps ==
  ASSUME NEW s \in Store, Places(s)
  PROVE  Keeps(s, QueueResaveClosestBuilding(s)) /\ QueueResaveClosestBuilding(s).overlay = s.overlay
<1> DEFINE q == s.beforeRes
           t == Append(q, Task("resave"))
<1>1. q \in Seq(TaskRecord)
  BY DEF Store, TaskRecord
<1>2. /\ t \in Seq(TaskRecord) /\ DOMAIN t = 1 .. Len(q) + 1 /\ DOMAIN q = 1 .. Len(q)
      /\ Len(q) \in Nat
      /\ \A j \in DOMAIN q : t[j] = q[j]
      /\ t[Len(q) + 1].kind = "resave"
  BY <1>1, PushType DEF TaskKind, Task
<1>3. QueueResaveClosestBuilding(s) = [s EXCEPT !.beforeRes = t]
  BY DEF QueueResaveClosestBuilding, Push
<1>4. [s EXCEPT !.beforeRes = t] \in Store
  BY <1>2, StoreType
<1> HIDE DEF q, t
<1>5. Places([s EXCEPT !.beforeRes = t])
  BY <1>2 DEF Places, Store, q
<1> QED BY <1>3, <1>4, <1>5 DEF Keeps, Store

LEMMA OverlayKeeps ==
  ASSUME NEW s \in Store, Places(s)
  PROVE  Keeps(s, QueueGenerateArrayOverlay(s))
<1> DEFINE q == s.beforeRes
           t == Append(q, Task("overlay"))
           u == [s EXCEPT !.beforeRes = t, !.overlay = Len(t)]
<1>1. q \in Seq(TaskRecord)
  BY DEF Store, TaskRecord
<1>2. /\ t \in Seq(TaskRecord) /\ DOMAIN t = 1 .. Len(q) + 1 /\ DOMAIN q = 1 .. Len(q)
      /\ Len(q) \in Nat /\ Len(t) = Len(q) + 1 /\ Len(t) \in Nat
      /\ \A j \in DOMAIN q : t[j] = q[j]
      /\ t[Len(q) + 1].kind = "overlay"
  BY <1>1, PushType DEF TaskKind, Task
<1>3. QueueGenerateArrayOverlay(s) = u
  BY DEF QueueGenerateArrayOverlay, Push, Place, Store
<1> HIDE DEF q, t
<1>4. u \in Store
  BY <1>2, StoreType
<1>5. Places(u)
  BY <1>2 DEF Places, Store, q
<1> QED BY <1>3, <1>4, <1>5 DEF Keeps, Store

LEMMA ProductionKeeps ==
  ASSUME NEW s \in Store, Places(s)
  PROVE  /\ Keeps(s, QueueGenerateSunroofProduction(s))
         /\ LET t == QueueGenerateSunroofProduction(s) IN
              t.overlay = s.overlay /\ (t.pngs # 0 \/ t.production # 0)
<1>1. CASE s.pngs # 0
  BY <1>1 DEF QueueGenerateSunroofProduction, Keeps
<1>2. CASE s.pngs = 0 /\ s.production # 0
  <2> DEFINE q == s.beforeRes
             t == [q EXCEPT ![s.production] = Task("production")]
             u == [s EXCEPT !.beforeRes = t]
  <2>1. q \in Seq(TaskRecord) /\ s.production \in 1 .. Len(q) /\ Task("production") \in TaskRecord
    BY <1>2, TaskType DEF Store, TaskRecord, Places, TaskKind
  <2>2. /\ t \in Seq(TaskRecord) /\ DOMAIN t = DOMAIN q
        /\ \A j \in DOMAIN q : t[j] = IF j = s.production THEN Task("production") ELSE q[j]
    BY <2>1, ExceptSeq
  <2>3. QueueGenerateSunroofProduction(s) = u
    BY <1>2 DEF QueueGenerateSunroofProduction, Store
    <2> HIDE DEF q, t
<2>4. u \in Store
    BY <2>2, StoreType
  <2>5. Places(u)
    BY <1>2, <2>1, <2>2 DEF Places, Store, q, Task
  <2> QED BY <1>2, <2>3, <2>4, <2>5 DEF Keeps, Store
<1>3. CASE s.pngs = 0 /\ s.production = 0
  <2> DEFINE q == s.beforeRes
             t == Append(q, Task("production"))
             u == [s EXCEPT !.beforeRes = t, !.production = Len(t)]
  <2>1. q \in Seq(TaskRecord)
    BY DEF Store, TaskRecord
  <2>2. /\ t \in Seq(TaskRecord) /\ DOMAIN t = 1 .. Len(q) + 1 /\ DOMAIN q = 1 .. Len(q)
        /\ Len(q) \in Nat /\ Len(t) = Len(q) + 1 /\ Len(t) \in Nat
        /\ \A j \in DOMAIN q : t[j] = q[j]
        /\ t[Len(q) + 1].kind = "production"
    BY <2>1, PushType DEF TaskKind, Task
  <2>3. QueueGenerateSunroofProduction(s) = u
    BY <1>3 DEF QueueGenerateSunroofProduction, Push, Place, Store
    <2> HIDE DEF q, t
<2>4. u \in Store
    BY <2>2, StoreType
  <2>5. Places(u)
    BY <1>3, <2>2 DEF Places, Store, q
  <2> QED BY <1>3, <2>2, <2>3, <2>4, <2>5 DEF Keeps, Store
<1> QED BY <1>1, <1>2, <1>3

LEMMA PngsKeeps ==
  ASSUME NEW s \in Store, Places(s)
  PROVE  /\ Keeps(s, QueueGeneratePngs(s))
         /\ QueueGeneratePngs(s).overlay = s.overlay
         /\ QueueGeneratePngs(s).pngs # 0
<1> DEFINE q == s.beforeRes
           c == Cancel(Cancel(q, s.overlay), s.production)
<1>1. q \in Seq(TaskRecord) /\ s.overlay \in Nat /\ s.production \in Nat
  BY DEF Store, TaskRecord
<1>2. /\ c \in Seq(TaskRecord)
      /\ DOMAIN c = DOMAIN q
      /\ \A j \in DOMAIN q : c[j].kind = IF j = s.overlay \/ j = s.production
                                         THEN "nothing" ELSE q[j].kind
  <2> DEFINE d == Cancel(q, s.overlay)
  <2>1. /\ d \in Seq(TaskRecord)
        /\ DOMAIN d = DOMAIN q
        /\ \A j \in DOMAIN q : d[j] = IF j = s.overlay THEN Task("nothing") ELSE q[j]
    BY <1>1, CancelType
  <2> HIDE DEF d
  <2>2. /\ Cancel(d, s.production) \in Seq(TaskRecord)
        /\ DOMAIN Cancel(d, s.production) = DOMAIN d
        /\ \A j \in DOMAIN d :
             Cancel(d, s.production)[j] = IF j = s.production THEN Task("nothing") ELSE d[j]
    BY <1>1, <2>1, CancelType
  <2>3. Task("nothing").kind = "nothing"
    BY DEF Task
  <2> QED BY <2>1, <2>2, <2>3 DEF d
<1> HIDE DEF c
<1>3. CASE s.pngs # 0
  <2> DEFINE t == [c EXCEPT ![s.pngs] = Task("pngs")]
             u == [s EXCEPT !.beforeRes = t]
  <2>1. s.pngs \in 1 .. Len(c) /\ Task("pngs") \in TaskRecord
    BY <1>2, <1>3, TaskType DEF Places, TaskKind
  <2>2. /\ t \in Seq(TaskRecord) /\ DOMAIN t = DOMAIN q
        /\ \A j \in DOMAIN q : t[j] = IF j = s.pngs THEN Task("pngs") ELSE c[j]
    BY <1>2, <2>1, ExceptSeq
  <2>3. QueueGeneratePngs(s) = u
    BY <1>3 DEF QueueGeneratePngs, c
    <2> HIDE DEF t
<2>4. u \in Store
    BY <2>2, StoreType
  <2>5. Places(u)
    BY <1>2, <1>3, <2>1, <2>2 DEF Places, Store, Task
  <2> QED BY <1>3, <2>3, <2>4, <2>5 DEF Keeps, Store
<1>4. CASE s.pngs = 0
  <2> DEFINE t == Append(c, Task("pngs"))
             u == [s EXCEPT !.beforeRes = t, !.pngs = Len(t)]
  <2>1. /\ t \in Seq(TaskRecord) /\ DOMAIN t = 1 .. Len(c) + 1 /\ DOMAIN c = 1 .. Len(c)
        /\ Len(c) \in Nat /\ Len(t) = Len(c) + 1 /\ Len(t) \in Nat
        /\ \A j \in DOMAIN c : t[j] = c[j]
        /\ t[Len(c) + 1].kind = "pngs"
    BY <1>2, PushType DEF TaskKind, Task
  <2>2. QueueGeneratePngs(s) = u
    BY <1>4 DEF QueueGeneratePngs, Push, Place, Store, c
    <2> HIDE DEF t
<2>3. u \in Store
    BY <2>1, StoreType
  <2>4. u.beforeRes = t /\ u.pngs = Len(t) /\ u.production = s.production
    BY DEF Store
  <2>5. \A i \in DOMAIN t : t[i].kind = "pngs" => i = Len(t)
    BY <1>1, <1>2, <1>4, <2>1 DEF Places
  <2>6. \A i \in DOMAIN t : t[i].kind # "production"
    BY <1>1, <1>2, <1>4, <2>1 DEF Places
  <2>7. Len(t) \in DOMAIN t /\ t[Len(t)].kind = "pngs"
    BY <2>1
  <2>8. Places(u)
    BY <2>1, <2>4, <2>5, <2>6, <2>7 DEF Places
  <2> QED BY <1>4, <2>1, <2>2, <2>3, <2>8 DEF Keeps, Store
<1> QED BY <1>1, <1>3, <1>4 DEF Store

\* A task that goes on, and all of them being started, leave every kind as it is.
LEMMA BecomeKeeps ==
  ASSUME NEW s \in Store, Places(s), NEW i \in DOMAIN s.beforeRes, NEW pc \in TaskState
  PROVE  /\ Keeps(s, [s EXCEPT !.beforeRes[i].at = pc])
         /\ [s EXCEPT !.beforeRes[i].at = pc].overlay = s.overlay
<1> DEFINE q == s.beforeRes
           e == [q[i] EXCEPT !.at = pc]
           t == [q EXCEPT ![i] = e]
           u == [s EXCEPT !.beforeRes = t]
<1>1. q \in Seq(TaskRecord) /\ i \in 1 .. Len(q)
  BY DEF Store, TaskRecord
<1>2. q[i] \in TaskRecord
  BY <1>1
<1>3. e \in TaskRecord /\ e.kind = q[i].kind
  BY <1>2 DEF TaskRecord
<1>4. [s EXCEPT !.beforeRes[i].at = pc] = u
  BY DEF Store
<1> HIDE DEF e
<1>5. t \in Seq(TaskRecord) /\ DOMAIN t = DOMAIN q
      /\ \A j \in DOMAIN q : t[j] = IF j = i THEN e ELSE q[j]
  BY <1>1, <1>3, ExceptSeq
<1>6. \A j \in DOMAIN q : t[j].kind = q[j].kind
  BY <1>3, <1>5
<1> HIDE DEF t
<1>7. u \in Store
  BY <1>5, StoreType
<1>8. /\ u.beforeRes = t /\ u.pngs = s.pngs /\ u.production = s.production
      /\ u.overlay = s.overlay /\ u.onNewSystemDesign = s.onNewSystemDesign
  BY DEF Store
<1>9. Places(u)
  BY <1>5, <1>6, <1>8 DEF Places
<1> QED BY <1>4, <1>7, <1>8, <1>9 DEF Keeps

LEMMA RunAllKeeps ==
  ASSUME NEW s \in Store, Places(s)
  PROVE  Keeps(s, RunAll(s)) /\ RunAll(s).overlay = s.overlay
<1> DEFINE q == s.beforeRes
           t == [i \in DOMAIN q |-> Run(q[i])]
           u == [s EXCEPT !.beforeRes = t]
<1>1. q \in Seq(TaskRecord)
  BY DEF Store, TaskRecord
<1>2. ASSUME NEW task \in TaskRecord
      PROVE  Run(task) \in TaskRecord /\ Run(task).kind = task.kind
  BY DEF Run, FirstStep, TaskRecord, TaskKind, TaskState
<1>3. \A i \in DOMAIN q : q[i] \in TaskRecord
  BY <1>1
<1>4. /\ DOMAIN t = DOMAIN q
      /\ \A i \in DOMAIN q : t[i] \in TaskRecord /\ t[i].kind = q[i].kind
  BY <1>2, <1>3
<1>5. t \in Seq(TaskRecord)
  BY <1>1, <1>2, <1>3
<1>6. RunAll(s) = u
  BY DEF RunAll
<1> HIDE DEF t
<1>7. u \in Store
  BY <1>5, StoreType
<1>8. /\ u.beforeRes = t /\ u.pngs = s.pngs /\ u.production = s.production
      /\ u.overlay = s.overlay /\ u.onNewSystemDesign = s.onNewSystemDesign
  BY DEF Store
<1>9. Places(u)
  BY <1>4, <1>8 DEF Places
<1> QED BY <1>6, <1>7, <1>8, <1>9 DEF Keeps

-----------------------------------------------------------------------------
(* The steps of a hook. *)

\* What a hook that goes to pc has to do with the queue.
LEMMA HookStep ==
  ASSUME IInv, NEW a \in Array, hook[a] # "done",
         NEW pc \in {"checkNew", "checkOverlay", "done"}, hook' = [hook EXCEPT ![a] = pc],
         store' \in Store, Places(store'),
         store.pngs # 0 => store'.pngs # 0,
         store'.onNewSystemDesign => store'.pngs # 0,
         pc = "done" /\ Needed(a) => store'.pngs # 0,
         pc = "checkOverlay" => ~design.isNew /\ ~design.moved /\ ~design.larger,
         design.moved \/ design.larger \/ design.isNew => store'.overlay = 0,
         UNCHANGED <<design, at, body>>
  PROVE  IInv'
<1>1. TypeOK'
  BY DEF IInv, TypeOK
<1>2. at \notin {"flushing", "answered"}
  BY DEF IInv, HooksQueueHeatmaps
<1>3. QueueIsAsCached'
  BY <1>2 DEF QueueIsAsCached
<1>4. HooksQueueHeatmaps'
  BY <1>2 DEF IInv, TypeOK, HooksQueueHeatmaps, Needed
<1> QED BY <1>1, <1>3, <1>4 DEF IInv

\* dispatch, with what was queued just before it.
LEMMA DispatchStep ==
  ASSUME IInv, NEW a \in Array, hook[a] # "done", NEW s \in Store, Keeps(store, s),
         s.overlay = store.overlay, Dispatch(a, s), UNCHANGED <<design, at, body>>
  PROVE  IInv'
<1>1. at # "answered" /\ Places(store) /\ Places(s)
  BY DEF IInv, HooksQueueHeatmaps, QueueIsAsCached, Keeps
<1>2. /\ s.onNewSystemDesign => s.pngs # 0
      /\ design.moved \/ design.larger \/ design.isNew => s.overlay = 0
      /\ store.pngs # 0 => s.pngs # 0
      /\ design \in Design
  BY DEF IInv, TypeOK, HooksQueueHeatmaps, Keeps
<1>3. CASE design.isNew /\ s.onNewSystemDesign /\ store' = s /\ Goto(a, "done")
  BY <1>1, <1>2, <1>3, HookStep DEF Goto
<1>4. CASE /\ design.isNew /\ ~s.onNewSystemDesign
           /\ store' = [QueueGeneratePngs(s) EXCEPT !.onNewSystemDesign = TRUE]
           /\ Goto(a, "done")
  <2> DEFINE t == QueueGeneratePngs(s)
  <2>1. t \in Store /\ Places(t) /\ t.overlay = s.overlay /\ t.pngs # 0
    BY <1>1, PngsKeeps DEF Keeps
  <2> HIDE DEF t
  <2>2. /\ store' \in Store /\ store'.beforeRes = t.beforeRes /\ store'.pngs = t.pngs
        /\ store'.production = t.production /\ store'.overlay = t.overlay
    BY <1>4, <2>1 DEF Store, t
  <2>3. Places(store')
    BY <2>1, <2>2 DEF Places
  <2> QED BY <1>2, <1>4, <2>1, <2>2, <2>3, HookStep DEF Goto
<1>5. CASE ~design.isNew /\ DispatchPanelArrayChange(a, s)
  <2> DEFINE t == IF design.drift THEN QueueGenerateSunroofProduction(s) ELSE s
  <2>1. t \in Store /\ Places(t) /\ t.overlay = s.overlay /\ (s.pngs # 0 => t.pngs # 0)
        /\ t.onNewSystemDesign = s.onNewSystemDesign
    BY <1>1, ProductionKeeps DEF Keeps
  <2> HIDE DEF t
  <2>2. CASE (WillGenerate(t) \/ design.array[a] = "same") /\ store' = t /\ Goto(a, "done")
    BY <1>2, <1>5, <2>1, <2>2, HookStep DEF Goto, WillGenerate, Needed
  <2>3. CASE design.array[a] # "same" /\ store' = QueueGeneratePngs(t) /\ Goto(a, "done")
    <3>1. /\ Keeps(t, QueueGeneratePngs(t))
          /\ QueueGeneratePngs(t).overlay = t.overlay
          /\ QueueGeneratePngs(t).pngs # 0
      BY <2>1, PngsKeeps
    <3> QED BY <1>2, <2>1, <2>3, <3>1, HookStep DEF Goto, Keeps
  <2>4. CASE ~design.moved /\ ~design.larger /\ store' = t /\ Goto(a, "checkOverlay")
    BY <1>2, <1>5, <2>1, <2>4, HookStep DEF Goto
  <2> QED BY <1>5, <2>2, <2>3, <2>4 DEF DispatchPanelArrayChange, t
<1> QED BY <1>3, <1>4, <1>5 DEF Dispatch

LEMMA StoreKeepsItself == ASSUME IInv, at # "answered" PROVE Keeps(store, store)
  BY DEF IInv, TypeOK, QueueIsAsCached, Keeps

LEMMA StartStep == ASSUME IInv, NEW a \in Array, Start(a) PROVE IInv'
<1>1. hook[a] # "done" /\ at # "answered" /\ UNCHANGED <<design, at, body>>
  BY DEF IInv, HooksQueueHeatmaps, Start
<1>2. CASE Goto(a, "checkNew") /\ UNCHANGED store
  BY <1>1, <1>2, HookStep, StoreKeepsItself DEF Goto, Keeps, IInv, HooksQueueHeatmaps
<1>3. CASE Dispatch(a, store)
  BY <1>1, <1>3, DispatchStep, StoreKeepsItself DEF Keeps
<1> QED BY <1>2, <1>3 DEF Start

LEMMA CheckNewStep == ASSUME IInv, NEW a \in Array, CheckNew(a) PROVE IInv'
<1>1. hook[a] # "done" /\ at # "answered" /\ UNCHANGED <<design, at, body>>
  BY DEF IInv, HooksQueueHeatmaps, CheckNew
<1>2. Keeps(store, store) /\ store \in Store /\ Places(store)
  BY <1>1, StoreKeepsItself DEF Keeps
<1>3. CASE Dispatch(a, QueueResaveClosestBuilding(store))
  BY <1>1, <1>2, <1>3, ResaveKeeps, DispatchStep DEF Keeps
<1>4. CASE Dispatch(a, store)
  BY <1>1, <1>2, <1>4, DispatchStep
<1> QED BY <1>3, <1>4 DEF CheckNew

LEMMA CheckOverlayStep == ASSUME IInv, NEW a \in Array, CheckOverlay(a) PROVE IInv'
<1>1. /\ hook[a] # "done" /\ at # "answered" /\ UNCHANGED <<design, at, body>>
      /\ Goto(a, "done")
      /\ ~design.isNew /\ ~design.moved /\ ~design.larger
  BY DEF IInv, HooksQueueHeatmaps, CheckOverlay
<1>2. Keeps(store, store) /\ store \in Store /\ Places(store)
  BY <1>1, StoreKeepsItself DEF Keeps
<1>3. Keeps(store, store')
  BY <1>2, OverlayKeeps DEF CheckOverlay
<1>4. store'.onNewSystemDesign => store'.pngs # 0
  BY <1>3 DEF Keeps, IInv, HooksQueueHeatmaps
<1> QED BY <1>1, <1>3, <1>4, HookStep DEF Goto, Keeps, Needed

-----------------------------------------------------------------------------
(* The steps of the request and of its tasks. *)

LEMMA FailStep == ASSUME IInv, Fail PROVE IInv'
  BY DEF Fail, IInv, TypeOK, QueueIsAsCached, HooksQueueHeatmaps, Needed

\* The queue that the interceptor starts to run.
LEMMA SavedStore ==
  ASSUME IInv, Saved
  PROVE  /\ Keeps(store, store') /\ store'.overlay = store.overlay
         /\ ~design.isNew => store'.pngs # 0 \/ store'.production # 0
<1>1. Keeps(store, store) /\ store \in Store /\ Places(store)
  BY StoreKeepsItself DEF Saved, Keeps
<1> DEFINE s == IF design.isNew THEN store ELSE QueueGenerateSunroofProduction(store)
<1>2. /\ Keeps(store, s) /\ s.overlay = store.overlay
      /\ ~design.isNew => s.pngs # 0 \/ s.production # 0
  BY <1>1, ProductionKeeps
<1>3. store' = RunAll(s)
  BY DEF Saved
<1> HIDE DEF s
<1> QED BY <1>2, <1>3, RunAllKeeps DEF Keeps

LEMMA SavedStep == ASSUME IInv, Saved PROVE IInv'
<1>1. /\ at' = "flushing" /\ UNCHANGED <<design, hook, body>>
      /\ \A a \in Array : hook[a] = "done"
  BY DEF Saved
<1> QED BY <1>1, SavedStore
        DEF IInv, TypeOK, QueueIsAsCached, HooksQueueHeatmaps, Keeps, Needed

LEMMA AnswerStep == ASSUME IInv, Answer PROVE IInv'
<1>1. /\ at = "flushing" /\ at' = "answered" /\ UNCHANGED <<design, hook, body>>
      /\ store' = [store EXCEPT !.beforeRes = <<>>]
  BY DEF Answer
<1>2. store \in Store /\ <<>> \in Seq(TaskRecord)
  BY DEF IInv, TypeOK
<1>3. store' \in Store
  BY <1>1, <1>2, StoreType
<1>4. /\ store'.beforeRes = <<>> /\ store'.pngs = store.pngs
      /\ store'.production = store.production /\ store'.overlay = store.overlay
      /\ store'.onNewSystemDesign = store.onNewSystemDesign
  BY <1>1, <1>2 DEF Store
<1> QED BY <1>1, <1>3, <1>4 DEF IInv, TypeOK, QueueIsAsCached, HooksQueueHeatmaps, Needed

\* Tasks run after the save only, and only forward themselves.
LEMMA RunTaskStore ==
  ASSUME IInv, NEW i \in DOMAIN store.beforeRes, RunTask(i)
  PROVE  /\ \E pc \in TaskState : Become(i, pc)
         /\ body' \in {"asSaved", "recalculated"}
         /\ UNCHANGED <<design, hook, at>>
<1>1. body \in {"asSaved", "recalculated"}
  BY DEF IInv, TypeOK
<1>2. CASE Heatmaps(i)
  BY <1>1, <1>2 DEF Heatmaps, Teardown, TaskState
<1>3. CASE Calculate(i)
  BY <1>1, <1>3 DEF Calculate, Teardown, TaskState
<1>4. CASE Simulate(i)
  BY <1>1, <1>4 DEF Simulate, Teardown, TaskState
<1>5. CASE Generate(i)
  BY <1>1, <1>5 DEF Generate, Teardown, TaskState
<1> QED BY <1>2, <1>3, <1>4, <1>5 DEF RunTask

LEMMA RunTaskStep ==
  ASSUME IInv, NEW i \in DOMAIN store.beforeRes, RunTask(i)
  PROVE  IInv' /\ Keeps(store, store')
<1>1. PICK pc \in TaskState : Become(i, pc)
  BY RunTaskStore
<1>2. store \in Store /\ at # "answered" /\ Places(store)
  BY DEF IInv, TypeOK, QueueIsAsCached
<1>3. Keeps(store, store') /\ store'.overlay = store.overlay
  BY <1>1, <1>2, BecomeKeeps DEF Become
<1>4. TypeOK' /\ QueueIsAsCached'
  BY <1>2, <1>3, RunTaskStore DEF IInv, TypeOK, QueueIsAsCached, Keeps
<1>5. HooksQueueHeatmaps'
  BY <1>3, RunTaskStore DEF IInv, HooksQueueHeatmaps, Keeps, Needed
<1> QED BY <1>3, <1>4, <1>5 DEF IInv

LEMMA InvNext == IInv /\ [Next]_vars => IInv'
<1> SUFFICES ASSUME IInv, [Next]_vars PROVE IInv'
  OBVIOUS
<1>1. ASSUME NEW a \in Array, Start(a) \/ CheckNew(a) \/ CheckOverlay(a) PROVE IInv'
  BY <1>1, StartStep, CheckNewStep, CheckOverlayStep
<1>2. CASE Saved \/ Fail \/ Answer
  BY <1>2, SavedStep, FailStep, AnswerStep
<1>3. ASSUME NEW i \in DOMAIN store.beforeRes, RunTask(i) PROVE IInv'
  BY <1>3, RunTaskStep
<1>4. CASE UNCHANGED vars
  BY <1>4 DEF vars, IInv, TypeOK, QueueIsAsCached, HooksQueueHeatmaps, Needed
<1> QED BY <1>1, <1>2, <1>3, <1>4 DEF Next

LEMMA Invariance == Spec => []IInv
  BY InvInit, InvNext, PTL DEF Spec

\* Every variable of the hooks keeps its type, however many arrays the design has.
THEOREM TypeCorrect == Spec => []TypeOK
<1>1. IInv => TypeOK
  BY DEF IInv
<1> QED BY <1>1, Invariance, PTL

\* However many hooks queue tasks and overtake each other at the Sunroof service, one
\* task at most of a request recalculates the production (system-design.hook.ts:190).
THEOREM RegeneratesOnce == Spec => []OneRegeneration
<1>1. IInv => OneRegeneration
  <2> SUFFICES ASSUME IInv, NEW i \in Regenerating, NEW j \in Regenerating PROVE i = j
    BY DEF OneRegeneration
  <2>1. CASE at = "answered"
    BY <2>1 DEF IInv, QueueIsAsCached, Regenerating, Queued
  <2>2. CASE at # "answered"
    <3>1. store \in Store /\ Places(store)
      BY <2>2 DEF IInv, TypeOK, QueueIsAsCached
    <3>2. DOMAIN store.beforeRes \subseteq Nat \ {0}
      BY <3>1 DEF Store
    <3> QED BY <3>1, <3>2 DEF Places, Regenerating, Queued
  <2> QED BY <2>1, <2>2
<1> QED BY <1>1, Invariance, PTL

\* A design that needs heatmaps has them queued when the queue is run, whatever other
\* arrays queued (system-design.hook.ts:116).
THEOREM HeatmapsAreQueued == Spec => []HeatmapsFollowDesign
<1>1. IInv => HeatmapsFollowDesign
  <2> SUFFICES ASSUME IInv, at = "flushing",
                      NEW a \in Array, design.array[a] # "same",
                      design.isNew \/ design.moved \/ design.larger
               PROVE  Queued("pngs") # {}
    BY DEF HeatmapsFollowDesign
  <2>1. store.pngs # 0
    BY DEF IInv, HooksQueueHeatmaps, Needed
  <2> QED BY <2>1 DEF IInv, QueueIsAsCached, Places, Queued
<1> QED BY <1>1, Invariance, PTL

-----------------------------------------------------------------------------
(* The answer. *)

\* A task that recalculates the production is done only when it has put the production into
\* the answer, and only a task that fails takes it out again.
Recalculates(task) == task.kind \in {"pngs", "production"}

DoneIsShown ==
  at = "flushing" =>
    \A i \in DOMAIN store.beforeRes : Recalculates(store.beforeRes[i]) =>
      /\ store.beforeRes[i].at # "generate"
      /\ store.beforeRes[i].at = "done" =>
           body = "recalculated" \/ \E j \in DOMAIN store.beforeRes : TaskAt(j, "failed")

LEMMA BecomeFields ==
  ASSUME IInv, NEW i \in DOMAIN store.beforeRes, NEW pc, Become(i, pc)
  PROVE  /\ DOMAIN store'.beforeRes = DOMAIN store.beforeRes
         /\ store'.beforeRes[i].at = pc
         /\ \A j \in DOMAIN store.beforeRes :
              /\ store'.beforeRes[j].kind = store.beforeRes[j].kind
              /\ j # i => store'.beforeRes[j] = store.beforeRes[j]
<1> DEFINE q == store.beforeRes
           e == [q[i] EXCEPT !.at = pc]
<1>1. store \in Store /\ q[i] \in TaskRecord
  <2>1. store \in Store
    BY DEF IInv, TypeOK
  <2>2. q \in Seq(TaskRecord)
    BY <2>1 DEF Store, TaskRecord
  <2> QED BY <2>1, <2>2
<1>2. e.kind = q[i].kind /\ e.at = pc
  BY <1>1 DEF TaskRecord
<1>3. store'.beforeRes = [q EXCEPT ![i] = e]
  BY <1>1 DEF Become, Store
<1> HIDE DEF e
<1> QED BY <1>2, <1>3

LEMMA SavedShows == ASSUME IInv, Saved PROVE DoneIsShown'
<1> DEFINE s == IF design.isNew THEN store ELSE QueueGenerateSunroofProduction(store)
           q == s.beforeRes
<1>1. s \in Store
  BY StoreKeepsItself, ProductionKeeps DEF Saved, Keeps
<1>2. q \in Seq(TaskRecord)
  BY <1>1 DEF Store, TaskRecord
<1>3. store'.beforeRes = [i \in DOMAIN q |-> Run(q[i])]
  BY <1>1 DEF Saved, RunAll, Store
<1> HIDE DEF s
<1>4. ASSUME NEW i \in DOMAIN q, Recalculates(Run(q[i]))
      PROVE  Run(q[i]).at \notin {"generate", "done"}
  <2>1. q[i] \in TaskRecord
    BY <1>2
  <2> QED BY <1>4, <2>1 DEF Recalculates, Run, FirstStep, TaskRecord
<1> HIDE DEF q
<1> QED BY <1>3, <1>4 DEF DoneIsShown

LEMMA RunTaskShows ==
  ASSUME IInv, DoneIsShown, NEW i \in DOMAIN store.beforeRes, RunTask(i)
  PROVE  DoneIsShown'
<1> SUFFICES ASSUME at = "flushing" PROVE DoneIsShown'
  BY RunTaskStore DEF DoneIsShown
<1>1. \/ /\ Become(i, "failed")
      \/ /\ Become(i, "done") /\ body' = "recalculated"
      \/ /\ \E pc \in {"calculate", "simulate"} : Become(i, pc)
         /\ body' = body /\ ~TaskAt(i, "failed")
      \/ /\ Become(i, "done") /\ body' = body /\ TaskAt(i, "generate")
  BY DEF RunTask, Heatmaps, Calculate, Simulate, Generate, Teardown, TaskAt
<1>2. CASE Become(i, "failed")
  <2>1. store'.beforeRes[i].at = "failed" /\ i \in DOMAIN store'.beforeRes
    BY <1>2, BecomeFields
  <2>2. \E j \in DOMAIN store'.beforeRes : TaskAt(j, "failed")'
    BY <2>1 DEF TaskAt
  <2>3. ASSUME NEW j \in DOMAIN store'.beforeRes, Recalculates(store'.beforeRes[j])
        PROVE  store'.beforeRes[j].at # "generate"
    BY <1>2, <2>1, <2>3, BecomeFields DEF DoneIsShown, Recalculates
  <2> QED BY <2>2, <2>3 DEF DoneIsShown
<1>3. CASE Become(i, "done") /\ body' = "recalculated"
  BY <1>3, BecomeFields DEF DoneIsShown, Recalculates
<1>4. ASSUME NEW pc \in {"calculate", "simulate"}, Become(i, pc), body' = body,
             ~TaskAt(i, "failed")
      PROVE  DoneIsShown'
  <2>1. \A j \in DOMAIN store.beforeRes : TaskAt(j, "failed") => TaskAt(j, "failed")'
    BY <1>4, BecomeFields DEF TaskAt
  <2> QED BY <1>4, <2>1, BecomeFields DEF DoneIsShown, Recalculates
<1>5. CASE Become(i, "done") /\ body' = body /\ TaskAt(i, "generate")
  <2>1. ~Recalculates(store.beforeRes[i])
    BY <1>5 DEF DoneIsShown, TaskAt
  <2>2. \A j \in DOMAIN store.beforeRes : TaskAt(j, "failed") => TaskAt(j, "failed")'
    BY <1>5, BecomeFields DEF TaskAt
  <2> QED BY <1>5, <2>1, <2>2, BecomeFields DEF DoneIsShown, Recalculates
<1> QED BY <1>1, <1>2, <1>3, <1>4, <1>5

LEMMA ShowsNext == ASSUME IInv, DoneIsShown, [Next]_vars PROVE DoneIsShown'
<1>1. ASSUME NEW a \in Array, Start(a) \/ CheckNew(a) \/ CheckOverlay(a) PROVE DoneIsShown'
  <2>1. at' = at /\ hook[a] # "done"
    BY <1>1 DEF Start, CheckNew, CheckOverlay
  <2> QED BY <2>1 DEF IInv, HooksQueueHeatmaps, DoneIsShown
<1>2. CASE Saved
  BY <1>2, SavedShows
<1>3. CASE Fail \/ Answer
  BY <1>3 DEF Fail, Answer, DoneIsShown
<1>4. ASSUME NEW i \in DOMAIN store.beforeRes, RunTask(i) PROVE DoneIsShown'
  BY <1>4, RunTaskShows
<1>5. CASE UNCHANGED vars
  BY <1>5 DEF vars, DoneIsShown, TaskAt
<1> QED BY <1>1, <1>2, <1>3, <1>4, <1>5 DEF Next

\* However many tasks run side by side, skip, fail or are torn down: the answer is sent when
\* all have settled, and if none has failed it shows the production that was recalculated
\* (flush-context.interceptor.ts:14, system-design.hook.ts:277 and :345).
THEOREM AnswersShowProduction == Spec => AnswerShowsProduction
<1>1. IInv /\ DoneIsShown /\ [Next]_vars => (IInv /\ DoneIsShown)'
  BY InvNext, ShowsNext
<1>2. Init => IInv /\ DoneIsShown
  BY InvInit DEF Init, DoneIsShown
<1>3. ASSUME IInv, DoneIsShown, [Next]_vars, at = "flushing", at' = "answered",
             Regenerating # {},
             \A i \in DOMAIN store.beforeRes : store.beforeRes[i].at # "failed"
      PROVE  body' = "recalculated"
  <2>1. Answer
    BY <1>3, RunTaskStore
    DEF Next, vars, Start, CheckNew, CheckOverlay, Saved, Fail
  <2>2. PICK i \in DOMAIN store.beforeRes : Recalculates(store.beforeRes[i])
    BY <1>3 DEF Regenerating, Queued, Recalculates
  <2>3. store.beforeRes[i].at = "done" /\ body' = body
    BY <1>3, <2>1 DEF Answer
  <2> QED BY <1>3, <2>2, <2>3 DEF DoneIsShown, TaskAt
<1>4. IInv /\ DoneIsShown /\ [Next]_vars =>
        [at = "flushing" /\ at' = "answered" /\ Regenerating # {}
           /\ (\A i \in DOMAIN store.beforeRes : store.beforeRes[i].at # "failed")
           => body' = "recalculated"]_vars
  BY <1>3
<1> QED BY <1>1, <1>2, <1>4, PTL DEF Spec, AnswerShowsProduction

-----------------------------------------------------------------------------
(* The refinement. *)

\* The plan is what the cache says, as long as there is a queue to run.
PlanIsAsCached ==
  plan = CASE at \in {"failed", "answered"} -> "none"
           [] at \notin {"failed", "answered"} /\ store.pngs # 0 -> "heatmaps"
           [] at \notin {"failed", "answered"} /\ store.pngs = 0 /\ store.production # 0 ->
                "production"
           [] OTHER -> "none"

LEMMA PlanOfStore == IInv => PlanIsAsCached
<1> SUFFICES ASSUME IInv PROVE PlanIsAsCached
  OBVIOUS
<1>1. CASE at \in {"answered", "failed"}
  BY <1>1 DEF IInv, QueueIsAsCached, plan, Queued, PlanIsAsCached
<1>2. CASE at \notin {"answered", "failed"} /\ store.pngs # 0
  <2>1. Queued("pngs") # {}
    BY <1>2 DEF IInv, QueueIsAsCached, Places, Queued
  <2> QED BY <1>2, <2>1 DEF plan, PlanIsAsCached
<1>3. CASE at \notin {"answered", "failed"} /\ store.pngs = 0
  <2>1. store \in Store /\ Places(store)
    BY <1>3 DEF IInv, TypeOK, QueueIsAsCached
  <2>2. Queued("pngs") = {}
    BY <1>3, <2>1 DEF Places, Queued, Store
  <2>3. Queued("production") # {} <=> store.production # 0
    BY <1>3, <2>1 DEF Places, Queued, Store
  <2> QED BY <1>3, <2>2, <2>3 DEF plan, PlanIsAsCached
<1> QED BY <1>1, <1>2, <1>3

LEMMA PlanOfStorePrimed == IInv' => PlanIsAsCached'
  BY PlanOfStore, PTL

\* A step that keeps the queue and where the request is decides for as much, or more.
LEMMA KeepsDecides ==
  ASSUME IInv, IInv', UNCHANGED <<at, design>>, store.pngs # 0 => store'.pngs # 0,
         store.production # 0 => store'.production # 0
  PROVE  at \in {"saving", "failed"} => [Regeneration!Next]_(Regeneration!vars)
<1>1. plan' \in Regeneration!Plan
  BY DEF plan, Regeneration!Plan
<1>2. PlanIsAsCached /\ PlanIsAsCached'
  BY PlanOfStore, PlanOfStorePrimed
<1>3. CASE at = "saving"
  <2>1. Regeneration!AtLeast(plan', plan)
    BY <1>2, <1>3 DEF Regeneration!AtLeast, PlanIsAsCached
  <2> QED BY <1>1, <1>3, <2>1 DEF Regeneration!Next, Regeneration!Decide
<1>4. CASE at = "failed"
  BY <1>2, <1>4 DEF Regeneration!vars, PlanIsAsCached
<1> QED BY <1>3, <1>4

LEMMA HookDecides ==
  ASSUME IInv, IInv', NEW a \in Array, Start(a) \/ CheckNew(a) \/ CheckOverlay(a)
  PROVE  [Regeneration!Next]_(Regeneration!vars)
<1>1. /\ UNCHANGED <<at, design>> /\ hook[a] # "done"
      /\ at \in {"saving", "failed"} /\ store \in Store /\ Places(store)
  BY DEF IInv, TypeOK, HooksQueueHeatmaps, QueueIsAsCached, Start, CheckNew, CheckOverlay
<1>2. ASSUME NEW s \in Store, Keeps(store, s), Dispatch(a, s)
      PROVE  /\ store.pngs # 0 => store'.pngs # 0
             /\ store.production # 0 => store'.production # 0
  <2>1. Places(s)
    BY <1>2 DEF Keeps
  <2>2. CASE store' = s
    BY <1>2, <2>2 DEF Keeps
  <2>3. CASE store' = [QueueGeneratePngs(s) EXCEPT !.onNewSystemDesign = TRUE]
    <3>1. Keeps(s, QueueGeneratePngs(s))
      BY <2>1, PngsKeeps
    <3> HIDE DEF QueueGeneratePngs
    <3> QED BY <1>2, <2>3, <3>1 DEF Keeps, Store
  <2>4. CASE ~design.isNew /\ DispatchPanelArrayChange(a, s)
    <3> DEFINE t == IF design.drift THEN QueueGenerateSunroofProduction(s) ELSE s
    <3>1. Keeps(s, t) /\ t \in Store /\ Places(t)
      BY <2>1, ProductionKeeps DEF Keeps
    <3> HIDE DEF t
    <3>2. Keeps(t, QueueGeneratePngs(t))
      BY <3>1, PngsKeeps
    <3>3. store' = t \/ store' = QueueGeneratePngs(t)
      BY <2>4 DEF DispatchPanelArrayChange, t
    <3> QED BY <1>2, <3>1, <3>2, <3>3 DEF Keeps
  <2> QED BY <1>2, <2>2, <2>3, <2>4 DEF Dispatch
<1>3. Keeps(store, store)
  BY <1>1 DEF Keeps
<1>4. /\ store.pngs # 0 => store'.pngs # 0
      /\ store.production # 0 => store'.production # 0
  <2>1. CASE Start(a)
    BY <1>1, <1>2, <1>3, <2>1 DEF Start
  <2>2. CASE CheckNew(a)
    <3>1. Keeps(store, QueueResaveClosestBuilding(store))
      BY <1>1, ResaveKeeps
    <3>2. QueueResaveClosestBuilding(store) \in Store
      BY <3>1 DEF Keeps
    <3> QED BY <1>1, <1>2, <1>3, <2>2, <3>1, <3>2 DEF CheckNew
  <2>3. CASE CheckOverlay(a)
    <3>1. Keeps(store, QueueGenerateArrayOverlay(store))
      BY <1>1, OverlayKeeps
    <3> QED BY <2>3, <3>1 DEF CheckOverlay, Keeps
  <2> QED BY <2>1, <2>2, <2>3
<1> QED BY <1>1, <1>4, KeepsDecides

\* A task that goes on changes the kind of no task.
LEMMA RunTaskPlan ==
  ASSUME IInv, NEW i \in DOMAIN store.beforeRes, RunTask(i)
  PROVE  plan' = plan
<1>1. PICK pc \in TaskState : Become(i, pc)
  BY RunTaskStore
<1>2. /\ DOMAIN store'.beforeRes = DOMAIN store.beforeRes
      /\ \A j \in DOMAIN store.beforeRes : store'.beforeRes[j].kind = store.beforeRes[j].kind
  <2> DEFINE q == store.beforeRes
             e == [q[i] EXCEPT !.at = pc]
  <2>1. store \in Store /\ q[i] \in TaskRecord
    <3>1. store \in Store
      BY DEF IInv, TypeOK
    <3>2. q \in Seq(TaskRecord)
      BY <3>1 DEF Store, TaskRecord
    <3> QED BY <3>1, <3>2
  <2>2. e.kind = q[i].kind
    BY <2>1 DEF TaskRecord
  <2>3. store'.beforeRes = [q EXCEPT ![i] = e]
    BY <1>1, <2>1 DEF Become, Store
  <2> HIDE DEF e
  <2> QED BY <2>2, <2>3
<1> QED BY <1>2, RunTaskStore DEF plan, Queued

LEMMA SavedRuns ==
  ASSUME IInv, IInv', Saved
  PROVE  Regeneration!Next
<1>1. PlanIsAsCached /\ PlanIsAsCached'
  BY PlanOfStore, PlanOfStorePrimed
<1>2. at = "saving" /\ at' = "flushing" /\ design' = design
  BY DEF Saved
<1>3. plan' \in Regeneration!Plan
  BY DEF plan, Regeneration!Plan
<1>4. Regeneration!AtLeast(plan', plan) /\ (~design.isNew => plan' # "none")
  BY <1>1, <1>2, SavedStore DEF PlanIsAsCached, Regeneration!AtLeast, Keeps
<1>5. Regeneration!Run(plan')
  BY <1>2, <1>4 DEF Regeneration!Run
<1> QED BY <1>3, <1>5 DEF Regeneration!Next

LEMMA RefinedStep ==
  ASSUME IInv, IInv', [Next]_vars
  PROVE  [Regeneration!Next]_(Regeneration!vars)
<1>1. PlanIsAsCached /\ PlanIsAsCached'
  BY PlanOfStore, PlanOfStorePrimed
<1>2. ASSUME NEW a \in Array, Start(a) \/ CheckNew(a) \/ CheckOverlay(a)
      PROVE  [Regeneration!Next]_(Regeneration!vars)
  BY <1>2, HookDecides
<1>3. CASE Saved
  BY <1>3, SavedRuns
<1>4. CASE Fail
  BY <1>1, <1>4 DEF Fail, PlanIsAsCached, Regeneration!Next, Regeneration!Fail
<1>5. CASE Answer
  BY <1>1, <1>5 DEF Answer, PlanIsAsCached, Regeneration!Next, Regeneration!Answer
<1>6. ASSUME NEW i \in DOMAIN store.beforeRes, RunTask(i)
      PROVE  [Regeneration!Next]_(Regeneration!vars)
  <2>1. UNCHANGED <<design, at>>
    BY <1>6, RunTaskStore
  <2>2. plan' = plan
    BY <1>6, <2>1, RunTaskPlan
  <2> QED BY <2>1, <2>2 DEF Regeneration!vars
<1>7. CASE UNCHANGED vars
  BY <1>7 DEF vars, Regeneration!vars, plan, Queued
<1> QED BY <1>2, <1>3, <1>4, <1>5, <1>6, <1>7 DEF Next

\* The hooks, with every interleaving of their awaits, implement RegenerationPlan: what
\* will be regenerated is only ever decided for more while the design is saved, and is
\* what is run (system-design.hook.ts:39-263, flush-context.interceptor.ts:14).
THEOREM HooksImplementPlan == Spec => PlanOnlyGrows
<1>1. Init => Regeneration!Init
  BY DEF Init, Regeneration!Init, plan, Queued, EmptyStore, Design
<1>2. IInv /\ IInv' /\ [Next]_vars => [Regeneration!Next]_(Regeneration!vars)
  BY RefinedStep
<1> QED BY <1>1, <1>2, Invariance, PTL DEF Spec, PlanOnlyGrows, Regeneration!Spec
=============================================================================
