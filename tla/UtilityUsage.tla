---------------------------- MODULE UtilityUsage ----------------------------
(***************************************************************************)
(* The utility usage of an opportunity (utilities/utility.service.ts).  An *)
(* update stores the hourly usage and five hourly profiles in S3, then     *)
(* their sums in the document, then refreshes the figures of the system    *)
(* designs.  Existing systems are an input of the profiles; changing one   *)
(* (existing-systems/existing-system.service.ts) updates the usage, too.   *)
(* Readers write: what a GET finds in S3 it puts back, what it misses it   *)
(* calculates and puts, and an error of S3 counts as a missing object.     *)
(* Requests interleave at every await; a call to S3, Genability, PVWatts   *)
(* or MongoDB may fail, and the process may stop.                          *)
(*                                                                         *)
(* The document is there: POST has created it.  Its costs, the medical     *)
(* baseline and the incentives are not modelled.                           *)
(***************************************************************************)
EXTENDS Naturals

CONSTANTS
  Request,     \* places for requests under way
  Profile,     \* HOURLY_USAGE_PROFILE: the hourly profiles, five in the code
  MaxUsage,    \* bound on the usages entered
  MaxSystems,  \* bound on the changes of existing systems
  Legacy       \* no profile: the document is older than the profiles

Usage == 0..MaxUsage
Systems == 0..MaxSystems
Input == [usage : Usage, systems : Systems]   \* what profiles are calculated from

ASSUME UtilityUsageAssumption ==
  MaxUsage \in Nat /\ MaxSystems \in Nat /\ Legacy \notin Input

VARIABLES
  systems,   \* how often the existing systems have been changed
  entered,   \* how many usages have been entered
  doc,       \* the document: the usage, its entry mode, the sums of the profiles
  hourly,    \* S3: the usage the hourly values are of
  profile,   \* S3: what each profile was calculated from
  figures,   \* what annual usage and offset of the designs were calculated from
  pending,   \* figures on their way to MongoDB: their update is not awaited
  req        \* the requests

stores == <<systems, entered, doc, hourly, profile, figures, pending>>
vars == <<stores, req>>

First == [usage |-> 0, systems |-> 0]
Mode == {"monthly", "csv"}   \* ENTRY_MODE: of the modes, only CSV_INTERVAL_DATA differs
Figures == [annual : Input \cup {Legacy}, sums : Input \cup {Legacy}, systems : Systems]

Idle == [pc |-> "idle", op |-> "get", usage |-> 0, mode |-> "monthly", hours |-> FALSE,
         input |-> First, todo |-> {}]

Requests ==
  [pc : {"idle", "read", "hourly", "calculate", "profiles", "doc", "designs", "putBack"},
   op : {"get", "getProfiles", "put", "existing"}, usage : Usage, mode : Mode,
   hours : BOOLEAN, input : Input, todo : SUBSET Profile]

(* Every variable keeps its type. *)
TypeOK ==
  /\ systems \in Systems /\ entered \in Usage
  /\ doc \in [usage : Usage, mode : Mode, sums : Input \cup {Legacy}]
  /\ hourly \in Usage
  /\ profile \in [Profile -> Input \cup {Legacy}]
  /\ figures \in Figures /\ pending \subseteq Figures
  /\ req \in [Request -> Requests]

Init ==
  /\ systems = 0 /\ entered = 0 /\ hourly = 0
  /\ \E sums \in {First, Legacy}, mode \in Mode :
       /\ doc = [usage |-> 0, mode |-> mode, sums |-> sums]
       /\ profile = [p \in Profile |-> sums]
       /\ figures = [annual |-> sums, sums |-> sums, systems |-> 0]
  /\ pending = {}
  /\ req = [r \in Request |-> Idle]

At(r, pc) == req[r].pc = pc
Become(r, rec) == req' = [req EXCEPT ![r] = rec]
Goto(r, pc) == req' = [req EXCEPT ![r].pc = pc]
Finish(r) == Become(r, Idle)

----------------------------------------------------------------------------
(* updateUtilityUsageDetailUtil, from PUT or after a change of a system.   *)

\* PUT of a usage; with CSV_INTERVAL_DATA the hours are the client's, if it sends any.
StartPut(r) ==
  /\ At(r, "idle") /\ entered < MaxUsage
  /\ entered' = entered + 1
  /\ \E mode \in Mode, hours \in BOOLEAN :
       Become(r, [Idle EXCEPT !.pc = "hourly", !.op = "put", !.usage = entered + 1,
                              !.mode = mode, !.hours = hours \/ mode = "monthly"])
  /\ UNCHANGED <<systems, doc, hourly, profile, figures, pending>>

\* POST of an existing system touches nothing else.
AddSystem ==
  /\ systems < MaxSystems
  /\ systems' = systems + 1
  /\ UNCHANGED <<entered, doc, hourly, profile, figures, pending, req>>

\* PUT or DELETE of an existing system saves it ...
StartChangeSystem(r) ==
  /\ At(r, "idle") /\ systems < MaxSystems
  /\ systems' = systems + 1
  /\ Become(r, [Idle EXCEPT !.pc = "read", !.op = "existing"])
  /\ UNCHANGED <<entered, doc, hourly, profile, figures, pending>>

\* ... reads the document, and subtracts the production from the typical usage; the
\* entry mode stays, the hours are left out.
ReadUsage(r) ==
  /\ At(r, "read") /\ req[r].op = "existing" /\ entered < MaxUsage
  /\ entered' = entered + 1
  /\ Become(r, [req[r] EXCEPT !.pc = "hourly", !.usage = entered + 1, !.mode = doc.mode,
                              !.hours = doc.mode = "monthly"])
  /\ UNCHANGED <<systems, doc, hourly, profile, figures, pending>>

\* Fault: the hours are stored only where the client has sent them.
PutHourlyOfClient(r) ==
  /\ At(r, "hourly")
  /\ hourly' = IF req[r].hours /\ req[r].mode = "csv" THEN req[r].usage ELSE hourly
  /\ Goto(r, "calculate")
  /\ UNCHANGED <<systems, entered, doc, profile, figures, pending>>

\* Those calculated from the monthly values, or sent, go to S3.
PutHourly(r) ==
  /\ At(r, "hourly")
  /\ hourly' = IF req[r].hours THEN req[r].usage ELSE hourly
  /\ Goto(r, "calculate")
  /\ UNCHANGED <<systems, entered, doc, profile, figures, pending>>

\* Fault: the sums are saved as soon as they are there.
CalculateAndSave(r) ==
  /\ At(r, "calculate")
  /\ LET input == [usage |-> req[r].usage, systems |-> systems] IN
     /\ Become(r, [req[r] EXCEPT !.pc = "profiles", !.input = input, !.todo = Profile])
     /\ doc' = IF req[r].op = "getProfiles" THEN doc
               ELSE [usage |-> req[r].usage, mode |-> req[r].mode, sums |-> input]
  /\ UNCHANGED <<systems, entered, hourly, profile, figures, pending>>

\* Fault: a reader puts only the profiles it has missed.
CalculateMissed(r) ==
  /\ At(r, "calculate")
  /\ \E missed \in IF req[r].op = "getProfiles" THEN SUBSET Profile \ {{}} ELSE {Profile} :
       Become(r, [req[r] EXCEPT !.pc = "profiles", !.todo = missed,
                                !.input = [usage |-> req[r].usage, systems |-> systems]])
  /\ UNCHANGED stores

\* calculateUsageProfile: the production of the existing systems is looked up.
Calculate(r) ==
  /\ At(r, "calculate")
  /\ Become(r, [req[r] EXCEPT !.pc = "profiles", !.todo = Profile,
                              !.input = [usage |-> req[r].usage, systems |-> systems]])
  /\ UNCHANGED stores

\* The profiles go to S3, side by side; a reader is done with the last of them.
PutProfile(r, p) ==
  /\ At(r, "profiles") /\ p \in req[r].todo
  /\ profile' = [profile EXCEPT ![p] = req[r].input]
  /\ IF req[r].todo # {p} THEN Become(r, [req[r] EXCEPT !.todo = @ \ {p}])
     ELSE IF req[r].op = "getProfiles" THEN Finish(r)
     ELSE Become(r, [req[r] EXCEPT !.pc = "doc", !.todo = {}])
  /\ UNCHANGED <<systems, entered, doc, hourly, figures, pending>>

\* Fault: the designs are refreshed only after a PUT of the usage.
SaveUsageOnly(r) ==
  /\ At(r, "doc")
  /\ doc' = [usage |-> req[r].usage, mode |-> req[r].mode, sums |-> req[r].input]
  /\ IF req[r].op = "existing" THEN Finish(r) ELSE Goto(r, "designs")
  /\ UNCHANGED <<systems, entered, hourly, profile, figures, pending>>

\* Fault: the designs are refreshed side by side with the save.
SaveAndRefresh(r) ==
  /\ At(r, "doc")
  /\ doc' = [usage |-> req[r].usage, mode |-> req[r].mode, sums |-> req[r].input]
  /\ \E sums \in {doc.sums, req[r].input} :
       pending' = pending \cup {[annual |-> req[r].input, sums |-> sums, systems |-> systems]}
  /\ Finish(r)
  /\ UNCHANGED <<systems, entered, hourly, profile, figures>>

\* Genability has answered with the costs: findOneAndUpdate.
SaveUsage(r) ==
  /\ At(r, "doc")
  /\ doc' = [usage |-> req[r].usage, mode |-> req[r].mode, sums |-> req[r].input]
  /\ Goto(r, "designs")
  /\ UNCHANGED <<systems, entered, hourly, profile, figures, pending>>

\* updateListSystemDesign reads the document again and the production of the systems (one
\* step here), and updates the productions of the designs without awaiting it; side by
\* side the quotes are outdated (module QuoteUse).
RefreshDesigns(r) ==
  /\ At(r, "designs")
  /\ pending' = pending \cup
       {[annual |-> req[r].input, sums |-> doc.sums, systems |-> systems]}
  /\ Finish(r)
  /\ UNCHANGED <<systems, entered, doc, hourly, profile, figures>>

UpdateProduction(f) ==
  /\ f \in pending
  /\ figures' = f
  /\ pending' = pending \ {f}
  /\ UNCHANGED <<systems, entered, doc, hourly, profile, req>>

\* The update that nobody awaits fails, or the process stops before it: nobody is told.
LoseProduction(f) ==
  /\ f \in pending
  /\ pending' = pending \ {f}
  /\ UNCHANGED <<systems, entered, doc, hourly, profile, figures, req>>

----------------------------------------------------------------------------
(* Readers. *)

\* getHourlyComputedUsageByOppotunityId: the values are read from S3, or else calculated
\* from those of the document ...
StartGet(r) ==
  /\ At(r, "idle")
  /\ Become(r, [Idle EXCEPT !.pc = "putBack", !.usage = hourly])
  /\ UNCHANGED stores

\* Fault: where S3 does not answer, nothing is calculated.
StartGetNothing(r) ==
  /\ At(r, "idle")
  /\ Become(r, [Idle EXCEPT !.pc = "putBack", !.usage = Legacy])
  /\ UNCHANGED stores

\* (S3 does not answer: any error counts as a missing object.)
StartGetUnreadable(r) ==
  /\ At(r, "idle")
  /\ Become(r, [Idle EXCEPT !.pc = "putBack", !.usage = doc.usage])
  /\ UNCHANGED stores

\* ... and in either case put to S3.
PutBack(r) ==
  /\ At(r, "putBack")
  /\ hourly' = req[r].usage
  /\ Finish(r)
  /\ UNCHANGED <<systems, entered, doc, profile, figures, pending>>

\* getHourlyDataByOpportunityId: a profile it asks for is not in S3, or S3 has answered with
\* an error (getObjects: allSettled); all are calculated from the document.
StartGetProfiles(r) ==
  /\ At(r, "idle")
  /\ Become(r, [Idle EXCEPT !.pc = "calculate", !.op = "getProfiles", !.usage = doc.usage])
  /\ UNCHANGED stores

\* A call fails or the process stops: the handler ends.
Fail(r) == ~At(r, "idle") /\ Finish(r) /\ UNCHANGED stores

----------------------------------------------------------------------------
Step ==
  \/ AddSystem
  \/ \E r \in Request :
       \/ StartPut(r) \/ StartChangeSystem(r) \/ ReadUsage(r) \/ PutHourly(r) \/ Calculate(r)
       \/ SaveUsage(r) \/ RefreshDesigns(r) \/ PutBack(r)
       \/ StartGet(r) \/ StartGetUnreadable(r) \/ StartGetProfiles(r)
       \/ \E p \in Profile : PutProfile(r, p)
  \/ \E f \in pending : UpdateProduction(f)

Broken == (\E r \in Request : Fail(r)) \/ \E f \in pending : LoseProduction(f)

Next == Step \/ Broken

Spec == Init /\ [][Next]_vars
=============================================================================
