---------------------------- MODULE DesignHooks -----------------------------
(***************************************************************************)
(* What follows the save of a system design (src/src/system-designs,       *)
(* src/src/shared/async-context): the post-save hook of each panel array   *)
(* queues tasks that regenerate heatmaps, array overlay and production,    *)
(* replacing each other in the queue of the request; when the handler is   *)
(* through the tasks run side by side, and the answer waits for them.      *)
(*                                                                         *)
(* One request and one save.  Mongoose calls the hooks of all arrays one   *)
(* after the other and waits for them together, so an array whose hook     *)
(* awaits the Sunroof service is overtaken by the others.  That service    *)
(* answers TRUE or FALSE (also when it cannot be reached), to each call    *)
(* anew.  What the design is compared with is drawn in Init.               *)
(*                                                                         *)
(* A definition whose comment starts with "Fault:" is not part of the      *)
(* specification: it is the definition after it as a plausible mistake     *)
(* would have it, kept to show that a property notices.                    *)
(***************************************************************************)
EXTENDS Naturals, Sequences

CONSTANT
  Array       \* the panel arrays of the saved design

VARIABLES
  design,  \* the saved design against the stored one: moved, larger, drift, array
  hook,    \* per array: where its post-save hook is
  store,   \* the queue of the request and what its cache says of it
  at,      \* of the request: "saving", "flushing", "answered" or "failed"
  body     \* transformBody: is the answer the design "asSaved" or "recalculated"?

vars == <<design, hook, store, at, body>>

\* isNew: the request creates it; moved: other latitude or longitude; larger: a larger
\* radius; drift: the drift correction is not zero; array: how an array differs from the
\* stored one.
Design == [isNew : BOOLEAN, moved : BOOLEAN, larger : BOOLEAN, drift : BOOLEAN,
           array : [Array -> {"new", "changed", "same"}]]

\* The cache holds 0, or the place of the task in beforeRes, counted from 1.
EmptyStore == [beforeRes |-> <<>>, pngs |-> 0, overlay |-> 0, production |-> 0,
               onNewSystemDesign |-> FALSE]

Init ==
  /\ design \in Design
  /\ design.isNew => \A a \in Array : design.array[a] = "new"
  /\ hook = [a \in Array |-> "start"]
  /\ store = EmptyStore
  /\ at = "saving"
  /\ body = "asSaved"

----------------------------------------------------------------------------
(* The queue of the request. *)

Task(kind) == [kind |-> kind, at |-> "queued"]
Push(s, kind) == [s EXCEPT !.beforeRes = Append(@, Task(kind))]
Place(s) == Len(s.beforeRes)
Cancel(q, i) == IF i = 0 THEN q ELSE [q EXCEPT ![i] = Task("nothing")]

QueueResaveClosestBuilding(s) == Push(s, "resave")

QueueGenerateArrayOverlay(s) ==
  LET t == Push(s, "overlay") IN [t EXCEPT !.overlay = Place(t)]

\* Fault: a pending production is left in the queue.
QueueGeneratePngsBeside(s) ==
  IF s.pngs # 0 THEN s
  ELSE LET t == Push([s EXCEPT !.beforeRes = Cancel(@, s.overlay)], "pngs")
       IN [t EXCEPT !.pngs = Place(t)]

\* The heatmap task draws the overlay and calculates the production itself.
QueueGeneratePngs(s) ==
  LET q == Cancel(Cancel(s.beforeRes, s.overlay), s.production) IN
  IF s.pngs # 0
  THEN [s EXCEPT !.beforeRes = [q EXCEPT ![s.pngs] = Task("pngs")]]
  ELSE LET t == Push([s EXCEPT !.beforeRes = q], "pngs") IN [t EXCEPT !.pngs = Place(t)]

\* Fault: the pending heatmaps are replaced as a pending production is.
QueueGenerateSunroofProductionInstead(s) ==
  CASE s.pngs # 0 -> [s EXCEPT !.beforeRes[s.pngs] = Task("production")]
    [] s.pngs = 0 /\ s.production # 0 -> s
    [] OTHER -> LET t == Push(s, "production") IN [t EXCEPT !.production = Place(t)]

QueueGenerateSunroofProduction(s) ==
  CASE s.pngs # 0 -> s
    [] s.pngs = 0 /\ s.production # 0 ->
         [s EXCEPT !.beforeRes[s.production] = Task("production")]
    [] OTHER -> LET t == Push(s, "production") IN [t EXCEPT !.production = Place(t)]

----------------------------------------------------------------------------
(* The post-save hooks. *)

Goto(a, pc) == hook' = [hook EXCEPT ![a] = pc]

\* Fault: a pending production is taken for one that will generate the heatmaps.
WillGenerateAnything(s) == s.overlay # 0 \/ s.pngs # 0 \/ s.production # 0

WillGenerate(s) == s.overlay # 0 \/ s.pngs # 0

\* dispatchPanelArrayChange, up to its await.
DispatchPanelArrayChange(a, s) ==
  LET t == IF design.drift THEN QueueGenerateSunroofProduction(s) ELSE s IN
  \/ /\ WillGenerate(t) \/ design.array[a] = "same"
     /\ store' = t
     /\ Goto(a, "done")
  \/ /\ ~WillGenerate(t) /\ design.array[a] # "same"
     /\ design.moved \/ design.larger
     /\ store' = QueueGeneratePngs(t)
     /\ Goto(a, "done")
  \/ /\ ~WillGenerate(t) /\ design.array[a] # "same"
     /\ ~design.moved /\ ~design.larger
     /\ store' = t
     /\ Goto(a, "checkOverlay")

\* dispatch, after a new array has been looked after: the first array of a new design
\* queues for all of them.
Dispatch(a, s) ==
  \/ /\ design.isNew /\ s.onNewSystemDesign
     /\ store' = s
     /\ Goto(a, "done")
  \/ /\ design.isNew /\ ~s.onNewSystemDesign
     /\ store' = [QueueGeneratePngs(s) EXCEPT !.onNewSystemDesign = TRUE]
     /\ Goto(a, "done")
  \/ ~design.isNew /\ DispatchPanelArrayChange(a, s)

Start(a) ==
  /\ hook[a] = "start"
  /\ \/ design.array[a] = "new" /\ Goto(a, "checkNew") /\ UNCHANGED store
     \/ design.array[a] # "new" /\ Dispatch(a, store)
  /\ UNCHANGED <<design, at, body>>

Started == \A a \in Array : hook[a] # "start"

\* dispatchNewPanelArray: isExistedGeotiff has answered.
CheckNew(a) ==
  /\ hook[a] = "checkNew"
  /\ Started
  /\ \/ Dispatch(a, QueueResaveClosestBuilding(store))
     \/ Dispatch(a, store)
  /\ UNCHANGED <<design, at, body>>

\* The rest of dispatchPanelArrayChange: what is pending is not looked at again.
CheckOverlay(a) ==
  /\ hook[a] = "checkOverlay"
  /\ Started
  /\ store' \in {store, QueueGenerateArrayOverlay(store)}
  /\ Goto(a, "done")
  /\ UNCHANGED <<design, at, body>>

----------------------------------------------------------------------------
(* The request. *)

FirstStep(kind) ==
  CASE kind = "pngs" -> "heatmaps"
    [] kind = "production" -> "calculate"
    [] kind \in {"overlay", "resave"} -> "generate"
    [] kind = "nothing" -> "done"

Run(task) == [task EXCEPT !.at = FirstStep(task.kind)]
RunAll(s) == [s EXCEPT !.beforeRes = [i \in DOMAIN s.beforeRes |-> Run(s.beforeRes[i])]]

\* Another part of the handler fails (quotes, system production, derates): the design
\* is saved, the request answers with an error and the queue is not run.
Fail ==
  /\ at = "saving"
  /\ at' = "failed"
  /\ UNCHANGED <<design, hook, store, body>>

\* Every hook has called next.  An update queues the production whatever the arrays
\* did; then the interceptor runs the queue.
Saved ==
  /\ at = "saving"
  /\ \A a \in Array : hook[a] = "done"
  /\ store' = RunAll(IF design.isNew THEN store ELSE QueueGenerateSunroofProduction(store))
  /\ at' = "flushing"
  /\ UNCHANGED <<design, hook, body>>

\* Fault: the tasks are started and not waited for.
AnswerAtOnce ==
  /\ at = "flushing"
  /\ at' = "answered"
  /\ store' = [store EXCEPT !.beforeRes = <<>>]
  /\ UNCHANGED <<design, hook, body>>

Answer ==
  /\ at = "flushing"
  /\ \A i \in DOMAIN store.beforeRes : store.beforeRes[i].at \in {"done", "failed"}
  /\ at' = "answered"
  /\ store' = [store EXCEPT !.beforeRes = <<>>]
  /\ UNCHANGED <<design, hook, body>>

----------------------------------------------------------------------------
(* The tasks. *)

TaskAt(i, pc) ==
  i \in DOMAIN store.beforeRes /\ store.beforeRes[i].at = pc
Become(i, pc) == store' = [store EXCEPT !.beforeRes[i].at = pc]

\* Fault: the error itself becomes the body of the answer.
TeardownAnswersError(i) ==
  /\ Become(i, "failed")
  /\ body' = "error"
  /\ UNCHANGED <<design, hook, at>>

\* Fault: the error is rethrown, and fails the request.
TeardownRethrows(i) ==
  /\ Become(i, "failed")
  /\ at' = "failed"
  /\ body' = "asSaved"
  /\ UNCHANGED <<design, hook>>

\* teardown: every task swallows its error and has the answer sent as it was.
Teardown(i) ==
  /\ Become(i, "failed")
  /\ body' = "asSaved"
  /\ UNCHANGED <<design, hook, at>>

\* generateHeatmapPngs and generateArrayOverlayPng, skipped where there is no flux data.
Heatmaps(i) ==
  /\ TaskAt(i, "heatmaps")
  /\ \/ Become(i, "calculate") /\ UNCHANGED <<design, hook, at, body>>
     \/ Teardown(i)

Calculate(i) ==
  /\ TaskAt(i, "calculate")
  /\ \/ Become(i, "simulate") /\ UNCHANGED <<design, hook, at, body>>
     \/ Teardown(i)

\* invokePINBALLSimulator, then transformBody; the production may have been deleted.
Simulate(i) ==
  /\ TaskAt(i, "simulate")
  /\ \/ /\ Become(i, "done")
        /\ body' = "recalculated"
        /\ UNCHANGED <<design, hook, at>>
     \/ Become(i, "failed") /\ UNCHANGED <<design, hook, at, body>>
     \/ Teardown(i)

\* generateArrayOverlayPng, reSaveClosestBuildingByPanelArrayId.
Generate(i) ==
  /\ TaskAt(i, "generate")
  /\ \/ Become(i, "done") /\ UNCHANGED <<design, hook, at, body>>
     \/ Teardown(i)

RunTask(i) == Heatmaps(i) \/ Calculate(i) \/ Simulate(i) \/ Generate(i)

Next ==
  \/ \E a \in Array : Start(a) \/ CheckNew(a) \/ CheckOverlay(a)
  \/ Saved \/ Fail \/ Answer
  \/ \E i \in DOMAIN store.beforeRes : RunTask(i)

Spec == Init /\ [][Next]_vars

\* Node resumes what is awaited, and every service answers or times out.
FairSpec == Spec /\ WF_vars(Next)

----------------------------------------------------------------------------
(* Properties. *)

TaskKind == {"resave", "pngs", "overlay", "production", "nothing"}
TaskState == {"queued", "heatmaps", "calculate", "simulate", "generate", "done", "failed"}

Store == [beforeRes : Seq([kind : TaskKind, at : TaskState]),
          pngs : Nat, overlay : Nat, production : Nat, onNewSystemDesign : BOOLEAN]

\* Every variable has its type.
TypeOK ==
  /\ design \in Design
  /\ hook \in [Array -> {"start", "checkNew", "checkOverlay", "done"}]
  /\ store \in Store
  /\ at \in {"saving", "flushing", "answered", "failed"}
  /\ body \in {"asSaved", "recalculated"}

Queued(kind) == {i \in DOMAIN store.beforeRes : store.beforeRes[i].kind = kind}
Regenerating == Queued("pngs") \cup Queued("production")

\* In whatever order the hooks overtake each other, never two tasks of one request
\* recalculate the production: they would write the same documents and files side by
\* side.
OneRegeneration == \A i, j \in Regenerating : i = j

\* A design that is new, or was moved or enlarged with an array that changed, gets its
\* heatmaps, and with them the production, before the answer: a production queued for
\* another array neither prevents nor replaces them.
HeatmapsFollowDesign ==
  at = "flushing" /\ (\E a \in Array : design.array[a] # "same")
                  /\ (design.isNew \/ design.moved \/ design.larger)
    => Queued("pngs") # {}

\* Unless a task failed, the answer to a request that recalculated the production
\* shows it: the response waits for every task, and no other task takes it back.
AnswerShowsProduction ==
  [][at = "flushing" /\ at' = "answered" /\ Regenerating # {}
       /\ (\A i \in DOMAIN store.beforeRes : store.beforeRes[i].at # "failed")
       => body' = "recalculated"]_vars

\* Once the save is through, the request is answered, whatever the tasks run into
\* (liveness, under FairSpec).
FlushedIsAnswered == at = "flushing" ~> at = "answered"

\* The hooks implement RegenerationPlan: what is queued is a plan that only grows.
plan ==
  CASE at # "failed" /\ Queued("pngs") # {} -> "heatmaps"
    [] at # "failed" /\ Queued("pngs") = {} /\ Queued("production") # {} -> "production"
    [] OTHER -> "none"

Regeneration ==
  INSTANCE RegenerationPlan WITH plan <- plan, phase <- at, isCreate <- design.isNew

PlanOnlyGrows == Regeneration!Spec
=============================================================================
