# wave-quote-service in TLA+

The service (NestJS on MongoDB) keeps the system designs, quotes, proposals, credit qualifications
and contracts of solar and storage opportunities. Contracts are signed through DocuSign, credit is
decided by FNI, production comes from PVWatts and Google Sunroof. This directory holds TLA+ modules
of its stateful core, TLC configurations that check them on small instances, and TLAPS proofs of the
safety properties for every instance. `PROJECT.json` maps every definition to the lines it models.

What makes the service hard to test is the same everywhere. One Node process runs its handlers side
by side and switches at every `await`; a document is read, several services are awaited, and the
document is written, with no lock and no version (`app.module.ts:75` switches mongoose's version key
off for every schema), no transaction and no retry. `document.save()` writes the fields the handler
changed, `updateOne(_id, document)` and `findByIdAndUpdate` write whole documents back. A handler
that throws has no compensation.

## 1. Inventory

Sources are under `src/src`. Each part: its state, operations, interactions, what is hard, and what
makes it correct.

**contracts** (`contracts/`). State: one document per contract (type, status, envelope reference
`contractingSystemReferenceId`, `primaryContractId`), and the sale amount on opportunity and
project. Operations: create, preview (draft envelope), send, wet-sign, create and update change
orders, void, record DocuSign's report (`updateContractByDocusign`), and the same for grid-services
agreements. Calls DocuSign between read and write; pipes and interceptors check and act before and
after the handler. Hard: two requests on one contract or opportunity, a failed DocuSign call after
the envelope exists, a stop between the voids of a contract and of its change orders, DocuSign's own
report of a signature. Correct: a contract refers to its own envelope, COMPLETED means signed,
VOIDED stays, voiding closes the change orders, an amount belongs to a live deal.

**qualifications**. State: one record per opportunity (process status, decision, consents,
applications with state and FNI refnum, authorised applicants). Operations: create, record consents,
approve by hand, mail and re-mail the application, open the link, apply, FNI's answer, FNI's later
report, and an exception filter that writes ERROR. Hard: whole-document writes after FNI calls, late
reports, resends, double submissions, a co-applicant who is mailed in the middle of the applicant's
submission. Correct: one active application, an approval has a source, a mailed application can
proceed, a submitted one is resolved.

**shared/docusign and docusign-communications**. State: access tokens in MongoDB for all processes,
and in static maps of this one; the api client's header, the account, `_headers`. Operations: a
decorator refreshes them before each call. Hard: refreshes overlapping, failing half way, other
processes refreshing. Correct: a call is authorised by live credentials, nobody gets a token
DocuSign has refused. Envelope calls are part of *contracts*. Templates and tabs are data.

**system-designs**. State: the design, its production document, heatmaps and arrays in S3.
Operations: create, update, archive, delete, recalculate. Post-save hooks of the panel arrays queue
regeneration tasks in the context of the request (**shared/async-context**), which the response
interceptor runs. Hard: hooks of several arrays interleave, tasks replace each other by index, every
task may fail; designs are checked for use and written much later. Correct: derived data follows the
design, once; a used design does not change.

**quotes** and **proposals**. State: a quote holds figures computed from a design and the usage, and
the flags `isSync` and `isArchived`; a proposal holds a copy of a quote. Operations: create,
requote, recalculate, update, delete, archive with the design, `setOutdatedData` (called by designs
and utilities); create, send and delete proposals. Hard: check-then-write over a dozen awaits
(`checkInUsed`), flags sent back by the client, searches and updates side by side in `Promise.all`.
Correct: a stale quote is flagged, a used quote or design is frozen, no document refers to a deleted
one, a proposal shows the figures of its quote.

**hourly production** (`system-designs/sub-services/system-product.service.ts`). State: a record in
MongoDB, its 8760 values first in a cache of the process and after the answer in S3. Looked up by
designs, the web shop, usages and existing systems. Tasks that run before the answer catch their
errors; what they have queued is uploaded. Hard: the upload runs after the answer, may fail and is
not repeated; requests for the same place race; routes without an async context throw between the
cache and the record; the process may stop. Correct: a record's values can be read; values in S3
have a record, but for those of a failed task.

**utilities** and **existing-systems**. State: a usage with the sums of five hourly profiles in
MongoDB, the hourly values and the profiles in S3, figures derived from them in the productions of
the designs. Operations: update of a usage; change of an existing system, which updates the usage;
readers, which put back what they have read or calculated, also when S3 has only failed to answer
(`getObjects` of S3Service settles all and turns an error into a missing object). Hard: three stores
written one after the other with failures in between, an update that is not awaited and may be lost,
readers that write. Correct: the stores agree once an update has run alone.

**installed-products**. Replaced as a set by contract handlers: delete all, insert all, with neither
guard nor repair. **system-productions, customer-payments, opportunities, usage-profiles**:
documents written by one owner, data computed from others. **Catalogues** (products, manufacturers,
programmes, financiers, templates, users, contacts, ...): CRUD. **Numeric code** (leases, pricing,
energy profiles, e-commerce estimate): functions of their input; `energy-profiles/mockData.ts` alone
is 35 thousand lines of data. **authentication, tokens, emails, aws, external-services**: libraries
and I/O. PROJECT.json lists them with the reason they are not modelled.

## 2. Modules

| module | models | state |
|---|---|---|
| `Contracts` | contract handlers, DocuSign's envelopes, its reports | `contracts`, `envelopes`, `amount`, `req`, `voids` |
| `MCContracts` | symmetry for TLC | |
| `ContractsProofs` | seven theorems, three of them about one handler at a time | |
| `Qualification` | qualification handlers and FNI | `qual`, `req`, `fni`, `links`, `abandoned` (history) |
| `MCQualification` | consents, decisions and symmetry for TLC | |
| `QualificationProofs` | five theorems, two of them about one request at a time | |
| `DocusignAuth` | the refresh of the DocuSign credentials | `token`, `accepted`, `stored`, `cached`, `header`, `account`, `headers`, `req`, `booted` |
| `MCDocusignAuth`, `MCDocusignAuthMonitored` | symmetry; a monitor of overlaps and refusals | `disturbed` |
| `DocusignAuthProofs` | three theorems, one of them with the monitor | |
| `RegenerationPlan` | abstract: what a save decides to regenerate | `plan`, `phase`, `isCreate` |
| `DesignHooks` | the hooks, the queue, its tasks, the answer; implements `RegenerationPlan` | `design`, `hook`, `store`, `at`, `body` |
| `DesignHooksProofs` | five theorems, the refinement among them | |
| `HourlyProduction` | hourly values between PVWatts, MongoDB, cache and S3 | `recorded`, `s3`, `cache`, `issued`, `uploads`, `req`, `look`, `lost`, `unsaved` (history) |
| `HourlyProductionProofs` | four theorems | |
| `QuoteUse` | usage, designs, quotes, proposals and contracts that use each other | `usage`, `designs`, `quotes`, `proposals`, `contracts`, `req`, `skipped` (history) |
| `MCQuoteUse` | symmetry; a monitor of overlaps and broken-off handlers, and what holds without | `disturbed` |
| `QuoteUseProofs` | three theorems | |
| `MCQuoteUseProofs` | three theorems with the monitor | |
| `UtilityUsage` | usage, hourly values, profiles, figures of the designs | `systems`, `entered`, `doc`, `hourly`, `profile`, `figures`, `pending`, `req` |
| `MCUtilityUsage` | symmetry; a monitor of what tore the stores apart and what made up for it | `clean`, `alone`, `overlapped` |
| `UtilityUsageProofs` | six theorems with the monitor | |

How they compose: `QuoteUse` sees a contract as its status and its quote, `Contracts` has the
handlers; `QuoteUse` sees a design and the usage as a version number, `DesignHooks`,
`HourlyProduction` and `UtilityUsage` have what one version is made of. The update of a usage begins
in `UtilityUsage` and goes on to the quotes in `QuoteUse` (`UpdateUsage`).

How they correspond to the code:

* A handler is one sequence of actions, cut where the code awaits something another handler can
  change or a service that can fail. `req[r].pc` is the place it has reached, the rest of `req[r]`
  is what it has read. Guards are the handler's early returns and exceptions; a refused request
  changes nothing and has no action. What runs between two awaits is one action.
* **Contracts.** `StartSend`, `CallDocusign`, `SaveDraft`/`SaveSent`/`SaveError` are `sendContract`
  with its read, its DocuSign call and its `contract.save()`; `StartSendDraft`, ... and
  `StartWetSign`, ... the other two ways to send. `StartVoid` is the pipe, `VoidEnvelope` and
  `MarkVoided`/`CountFinalized`/`ZeroAmount` the steps of `voidContract`, `VoidRelated` the
  interceptor that voids the change orders side by side (`voids[r][c]` is one such call).
  `SignEnvelope` is the customer. `StartReport` and `SaveReport` are `updateContractByDocusign`: the
  contract is read and, after an await, written back as a whole document, COMPLETED if the report
  says so. `CallDocusign` also has the answer the code takes for a SUCCESS without an envelope id: a
  send saves IN_PROGRESS with an empty reference (contract.service.ts:496). `Crash` loses all
  handlers. Contract numbers stand for the order of `createdAt`.
* **Qualification.** `doc` in `req[r]` is the mongoose document the handler holds: `Saved` writes
  the changed fields of it, `Overwrite` all of it. `SaveApply`, `CallInit`, `SaveInit`, `CallApply`,
  `LoadDecision`, `SaveDecision` are the submission. `Fail` is the exception filter.
* **DocusignAuth.** A token is fresh, due or expired; `expiresAt` is 15 minutes before the expiry.
  Each await of the decorator and of `onModuleInit` is a step. Other processes refresh `stored`.
* **DesignHooks.** `store.beforeRes` is the queue; `pngs`, `overlay`, `production` are the three
  cache entries, places counted from 1 as in the code; `Cancel` and `EXCEPT` are the replacement by
  index. mongoose runs the post-save hooks of all arrays without waiting (`Started`: none of the
  awaited answers comes before the last hook has begun). `Saved` is the rest of the handler,
  `RunTask` the tasks of `flushBeforeRes`, `Answer` the response.
* **HourlyProduction.** `Find`, `Read`, `Ask` and `Save` are one lookup, all lookups of a request
  run side by side (`look[r][a]`). `NextPhase` takes a design from the hourly lookups to the yearly
  sums and on to the task before the answer that looks up hourly values again
  (`regenerateSunroofProduction`). The task catches what fails in it: `LookupFails` ends the request
  in the handler, and in the task leaves it to `Answer`, which may come while lookups still run.
  `Ask` draws the uuid, caches the values and queues the upload; `Answer` starts the uploads of
  `afterRes`, `Put`, `PutFails` and `Uncache` are one of them. `Gone` is the end of the last lookup
  of a request that has failed or been answered: what it queued is not flushed.
* **QuoteUse.** A document is a status and what the properties tell apart of it: a design its
  version, a quote the versions it was computed from (`basis`), a proposal the basis it copied.
  `full` tells whether the proposal found a quote to copy: `StartProposal` takes quote and design
  from the client and asks for the design only. `Start...` reads the document, `Check...OfDesign`
  and `Check...OfQuote` are the two awaits of `checkInUsed`, `SaveDesign`, `FindOutdated` and
  `MarkOutdated` the branches of the `Promise.all` of an updated design. An archived design is only
  filtered from lists, so the flag itself is not kept. `known` in `req[r]` (history) is who used
  anything when the handler began.
* **UtilityUsage.** Usages and states of the existing systems are numbered; hourly values, profiles,
  sums and figures are the numbers they were computed from. `PutHourly`, `Calculate`, `PutProfile`,
  `SaveUsage` and `RefreshDesigns` are `updateUtilityUsageDetailUtil` and `updateListSystemDesign`,
  `UpdateProduction` the update that is not awaited, and `LoseProduction` its loss by an error or a
  stop after the answer. `StartGet` and `StartGetUnreadable` read the hours or fail to;
  `StartGetProfiles`, possible at any time, is a reader for whom a profile is missing or S3 has
  failed, which calculates and writes all of them anew.

Definitions marked *Fault:* are mutated forms of the definition that follows. They belong to no
specification; they record which mistake each property detects.

## 3. Runs

| run | question | instance |
|---|---|---|
| `contracts_one_request` | `OpenContractIsUsable`, `VoidedOpportunityHasNoAmount`, `VoidClosesChangeOrders`, `VoidIsDelivered` (liveness) | 3 contracts, 1 envelope, 1 handler |
| `contracts_concurrent` | `TypeOK`, `ReferenceIsOwn`, `CompletedWasSigned`, `VoidedStays` | 2 contracts, 1 envelope, 2 handlers, crashes |
| `contracts_voided_is_sent` | violated: `VoidedIsNotSent` | 1 contract, 1 envelope, 1 request |
| `qualification_one_request` | `EmailedCanProceed`, `ActiveApplicationAuthorized`, `SubmittedIsResolved` (liveness) | 1 record, 1 request, joint, every decision, handlers that end half way |
| `qualification_concurrent` | `TypeOK`, `OneActiveApplication`, `ApprovalHasSource` | 1 record, 2 requests, 2 applications |
| `qualification_reopened` | violated: `OnlyOpenIsStarted` | 1 record, 1 request |
| `docusign_auth_shared` | `TypeOK`, `StoredTokenWasAccepted`, `UndisturbedCallIsAuthorised` | 3 tokens, 2 requests, DocuSign may refuse |
| `docusign_auth_stale_headers` | violated: `CallHasLiveToken` | 3 tokens, 2 requests |
| `design_hooks` | `TypeOK`, `OneRegeneration`, `HeatmapsFollowDesign`, `AnswerShowsProduction`, `FlushedIsAnswered` (liveness), `PlanOnlyGrows` (refinement) | 3 arrays, new or changed in every way |
| `hourly_production` | `TypeOK`, `ValuesAreSomewhere`, `MissingIsLost`, `OrphansAreOfTasks`, `UploadSettles` (liveness) | 2 requests of 1 array, 2 places, 2 ids, failures, tasks, stops |
| `quote_use` | `TypeOK`, `StaleIsFlagged`, `NoDangling`, `ProposalShowsItsQuote`, `UsedQuoteIsFrozen`, `UsedDesignIsFrozen` | 1 design, 2 quotes, 1 proposal, 1 contract, 2 requests, 1 change |
| `utility_usage` | `TypeOK`, `ProfilesAgree`, `HourlyAgrees`, `FiguresAgree`, `FiguresAreOfOneUsage`, `S3IsAhead` | 2 requests, 2 profiles, 2 updates, 1 change of systems, S3 errors, lost refreshes |

**Monitors.** Much of this code promises something to a client that sends one request at a time and
to nobody else. A monitor remembers whether that has been the case, so that one run explores both
worlds: some of its properties hold whatever overlaps or fails, the others speak of the behaviours
the monitor calls undisturbed. `disturbed` of `MCQuoteUse` and `MCDocusignAuthMonitored` is set for
good by an overlap, a broken-off handler or a refusal. `clean` of `MCUtilityUsage` is set again by
an update that has run alone: its properties say that such an update repairs whatever was torn
apart. It is taken away by two handlers under way at once, two refreshes under way at once, a
handler that ends half way, or a lost refresh; a handler and one late refresh do not count as a
disturbance. `abandoned` of `Qualification` holds the records a handler has left half way, which
nothing in the code picks up.

**Why the bounds are enough.** Three contracts are a primary contract with two change orders, the
least in which "only the last one finds nothing finalized" differs from "the first one"; the same
properties hold with two contracts and two envelopes, where a contract is sent again while its first
envelope is alive (change `MaxContracts` and `Envelope`). Two requests are the least that
interleave; no guard compares three. One envelope keeps two contracts and two requests with crashes
to 1.4 million states, and the theorems hold for any number of all three. Two applications are one
resend. Three tokens are an old one, a new one, and one of another process. Three arrays let two
hooks wait for Sunroof while a third queues. *hourly_production*: two lookups of one place race for
its record, those of two places share the queue of a request from phase to phase; one array is
enough for both, since the phases of one request and the requests draw ids side by side already. Two
ids are two records of one place, drawn by lookups that overtook each other, or one record and one
that was not saved. *quote_use*: two quotes of one design are one in use and one that is not; one
change is what makes a quote stale. After an overlap the handlers under way go on and none begins,
so every interleaving of two handlers is explored from every state undisturbed behaviours reach, not
a third handler after them; `UsedQuoteIsFrozen` and `UsedDesignIsFrozen` are proved without that
bound. *utility_usage*: two updates can overlap, or the second repair what the first has left; that
a third repairs what two have torn apart is left to the proof. Two profiles are one written and one
not yet. Runs marked with one request or handler say what a client can rely on while nobody else has
a request under way; customers sign between its steps. In Contracts a report of DocuSign is a
handler, too: with one handler it comes between two requests, with two it overlaps them.

**Fairness.** `WF(Continue(r))` for each request of Contracts and Qualification (`WF(Next)` in
DesignHooks): Node resumes a handler whose await is settled, and the clients of DocuSign, FNI, S3
and Sunroof settle, with an answer or an error. In HourlyProduction `WF(Upload(i))`: S3 answers a
started upload, and its callback runs. Nothing is assumed of customers, agents, DocuSign's report,
FNI's later report, or of when requests arrive. The liveness run of Contracts has no crashes: the
code has no recovery after one. Deadlock is not an error anywhere: each instance ends when its
bounds are used up and no handler is under way.

### What the violated runs show

* **A voided contract is sent again.** `sendContract` refuses a voided contract;
  `sendContractByWetSigned` (contract.service.ts:939) sets IN_PROGRESS whatever the status was.
* **A finished application is started again.** `getApplicationDetail` (qualification.service.ts:656)
  saves STARTED before it tests the status, so the refusing branch at line 705 cannot be taken, and
  a used link reopens a COMPLETED record, which can then be submitted again.
* **A call with an expired token.** `updateJwtAuthConfig` replaces the cached token before
  `setAuthConfig` awaits `getUserInfo` and sets `_headers`; a request in between finds the cache
  fresh and uses the headers of the old token.

More races are in the models and can be reproduced: with a second element of `Request` in the
configurations of one request, two change-order requests both qualify before either inserts
(change-order-validation.pipe.ts:29 against contract.service.ts:552), so that two change orders are
open; a void between the insertion of a contract and `syncWithWav` (contract.service.ts:1130) leaves
a voided opportunity with an amount; and two submissions of one application both find it STARTED, so
FNI opens two (qualification.service.ts:859 against :931); without `~disturbed` in `NoDangling` a
design is deleted between the two steps of a handler that creates a quote of it
(system-design.service.ts:1034, quote.service.ts:133 and :376), and without it in
`ProposalShowsItsQuote` a proposal copies a quote that is being updated. Without `~overlapped` in
`FiguresAreOfOneUsage` one update refreshes the designs from the sums another has just saved.

### Observations

No text of the repository says otherwise, so they are not findings.

* *Contracts.* A SUCCESS of DocuSign without an envelope id leaves a contract IN_PROGRESS with an
  empty reference (contract.service.ts:496), which is why `OpenContractIsUsable` asks for an
  envelope of previewed contracts only. `updateContractByDocusign` is called by nothing in the
  repository, looks for a field the schema does not have, and writes the whole document it has read,
  so that it can undo a void in between.
* *Qualification.* A record may be COMPLETED with decision PENDING when FNI reports out of order; a
  reopened joint application can stay IN_PROGRESS; a submission after a manual approval keeps
  APPROVED until FNI decides (qualification.service.ts:922).
* *DocusignAuth.* After a failed `getUserInfo` the cached token looks fresh and calls fail until it
  is due.
* *DesignHooks.* A handler that fails after the save of a design drops the queued regeneration. The
  teardown of an overlay task takes the recalculated production out of the answer, although it is
  stored (system-design.hook.ts:349). The old thumbnail of a design is deleted from S3 before the
  save (system-design.service.ts:835).
* *HourlyProduction.* The branch that would fetch missing values again tests a list, which is
  truthy, so a reader gets no production where only a stop has lost it. Routes without
  `@UseAsyncContext` throw in `queue()` after the values are cached (system-product.service.ts:212).
  Records are found by place without their losses. A task whose save of a record fails leaves an
  object in S3 that no record names, and a lookup that outlives the answer of its request queues an
  upload nobody flushes: its values are in the cache until a stop.
* *QuoteUse.* The check before archiving looks for contracts of quotes that are not archived only;
  creating a proposal asks for its design only (proposal.service.ts:116), so it can be one of a
  deleted quote or of the quote of another design; deleting a proposal or voiding a contract leaves
  a quote that an outdating passed over unflagged (quote.service.ts:1665); an update takes `isSync`
  from the client (:1484).
* *UtilityUsage.* Creating an existing system refreshes nothing (existing-system.service.ts:149),
  changing one starts from the hourly values S3 had before (:131). Two creations of a usage at once
  store two documents (utility.service.ts:358). When S3 fails a read, however briefly,
  `getHourlyDataByOpportunityId` takes the profiles for missing and calculates and overwrites all of
  them (s3.service.ts:417, utility.service.ts:1555), with the existing systems of that moment. A
  refresh of the designs that fails after the answer is neither reported nor repeated. `slice(0,
  8759)` leaves out the last hour of the year (customer-usage-profile.ts:31).

## 4. Proofs

All theorems are checked by TLAPS for arbitrary constants: any number of documents, requests,
tokens, applications, profiles. In each module `IInv` is the inductive invariant; each action has a
lemma that it keeps it, and shared reasoning is in lemmas about kinds of steps. Every safety
property of a passing run, invariant or action property, is stated by a theorem.

Theorems come in three kinds. *Whatever overlaps*: from `Spec` alone. *Of undisturbed behaviours*:
from `MonitoredSpec`, whose monitor tells the disturbed states apart and restricts no step of an
undisturbed one; nothing else is assumed. *Of one handler at a time*: from `Spec` and the hypothesis
`OneClient` on the constants, that `Request` has no two elements; this is what the runs with one
request check. In the last two kinds the argument is the same: what a handler has read is still true
when it writes, because nobody else has moved, so each says what the handler knows at each of its
places.

**ContractsProofs**, whatever overlaps: `TypeCorrect`; `ReferencesAreOwn`; `CompletionIsSigned`;
`VoidedIsLeftOnlyKnowingly` (an action property). The two invariants are not inductive: a save
writes the envelope and the status the handler holds, so one must know what handlers hold. `IInv`
adds `HeldEnvelopeIsOwn` (the envelope a handler carries from its DocuSign call, or from the
document a report has read, to its save is of its own contract) and `ReadIsGuarded` (the status it
has read passed its guards, and a report that completes a contract, or writes COMPLETED back, is of
one that was signed). They hold with arbitrarily many contracts, envelopes and requests, crashes
allowed; the assumption is `ContractsAssumption` (the number of contracts is natural, the missing
envelope is none).

Of one handler at a time: `OpenContractsAreUsable`, `VoidedOpportunitiesAreFree` and
`VoidsCloseChangeOrders`. Here `OneClient` also says that the server does not stop in the middle of
a handler, since nothing resumes a void that was broken off. Reports of DocuSign come between the
requests, customers sign between the steps, and the void of a contract still runs side by side with
the voids of its change orders. `ClientInv` therefore says of what a voiding leaves untrue for a
while who is going to repair it: an open contract with a voided envelope is about to be marked
(`OpenIsUsable`), an amount without a live deal is about to be taken away by the call that found
nothing finalized (`SoldIsDue`), and a change order that is still alive has a call of its own
(`Informed`). It is the last of these calls to count, whichever it is, that finds nothing finalized.

**QualificationProofs**, whatever overlaps: `TypeCorrect`; `OneApplicationActive`;
`ApprovalSourced`. A handler may write back a document it read long ago, so the invariant has to
hold of every document held as well as of those stored: `SoundDoc` (one application is active, FNI
has opened those with a refnum for this record, and if it is approved somebody approved it) is kept
by every operator the handlers apply (`RenewedIsSound`, `NotedIsSound`, `DecidedIsSound`,
`OverwriteStep`). What FNI and the collection know only grows (`Evolve`), so a document that was
sound when it was read is sound when it is written (`SoundStays`), however old it is. Not even a
report of FNI for an application that has long been replaced can approve another record.
`QualificationAssumption`: the missing record and refnum are none, consents and decisions have their
types.

Of one handler at a time: `EmailedApplicantsCanProceed` and `ActiveApplicationsAuthorised`, with
handlers that end anywhere. `ClientInv`: a stored record that waits for its applicants is
`Reachable`, one whose application FNI knows is `Authorised`; a handler holds the stored document,
and by the time it saves *APPLICATION EMAILED* somebody who has yet to authorise the check has the
link (`Informed`).

**DocusignAuthProofs**, whatever overlaps: `TypeCorrect`; `StoredIsAccepted` (no token reaches
MongoDB before DocuSign has accepted it). `HandlerTokens` is the strengthening: the token a handler
asks about is issued, and only an accepted one is about to be stored. Of undisturbed behaviours:
`UndisturbedCalls` (a call is authorised by a token that lives, in the header and in the cache
alike). `MonitoredInv`: between the requests the static maps agree with each other (`AtRest`); the
token a handler is going to use was not due when the handler began (`Lasts`), so it outlives it.

**DesignHooksProofs**: `TypeCorrect`; `RegeneratesOnce`; `HeatmapsAreQueued`;
`AnswersShowProduction` (an action property); and `HooksImplementPlan`, the refinement of
`RegenerationPlan`. `IInv` says that the cache is right about the queue while the queue lives
(`Places`: the heatmap task is where the cache says, the production task too unless heatmaps took it
over, and there are no others) and that of a design that needs heatmaps only hooks that queued them
are through (`HooksQueueHeatmaps`). Each operation on the queue has a lemma that it keeps `Places`
and loses nothing pending (`Keeps`); each step of Next has one that it keeps `IInv`. For the answer
`DoneIsShown` is added: a recalculating task that is done has put the production into the answer
unless some task has failed, and a failed task stays failed. Refinement mapping: the plan is
"heatmaps" if a heatmap task is queued, else "production" if one is, and "none" once the queue is
emptied or the request has failed; a hook that queues maps to `Decide`, `Saved` to `Run`, tasks and
a failed request's remaining hooks to stuttering. No assumption on the set of arrays.

**HourlyProductionProofs**: `TypeCorrect`; `RecordsKeepValues`; `OnlyStopsLoseValues`;
`OrphansComeFromTasks`. That an id in the queue of uploads gets its record is a matter of the whole
request: the queue is flushed only when all lookups of the handler are done, and what the task
before the answer has queued is saved, about to be, or on the list of what a task did not save.
Hence `QueuedIsSaved` (what a running request has queued has a record or is about to get one),
`UploadedIsSaved`, and `LookupsFindValues` (the values of a record about to be saved are cached or
uploaded, those of a record about to be read from S3 were uploaded or lost). `HourlyAssumption`:
there is a place and a loss, and the missing id is none.

**QuoteUseProofs**: `TypeCorrect`; `QuotesInUseAreFrozen` and `DesignsInUseAreFrozen`, action
properties. What a handler checked may be out of date when it writes: a proposal or contract may
have come in between. But of those it has `known`, which were there when it began, the check stays
true, because an id is used once and no document changes what it refers to (`Evolve`). So `IInv`
says of each handler that it is `Sound`: `Checked` lists what the checks it has passed say of those
it has known, and `SoundStays` shows that it stays so whatever other handlers do. A write then
touches only what the check was about (`WritersHaveChecked`). `QuoteUseAssumption`: there is a
design, the bound on changes is natural, ids of proposals and contracts differ.

**MCQuoteUseProofs**, of undisturbed behaviours: `StaleQuotesFlagged`, `NothingDangles`,
`ProposalsShowTheirQuotes`. `MonitoredInv` builds on `IInv`: while nothing has disturbed it no
handlers overlap and the documents are `Whole`. What a handler has read is as it was (`Reads`), and
quotes are out of date only while an outdating is under way that has yet to find them or has found
them and has yet to mark them, in whichever order its branches of `Promise.all` come (`Outdating`).

**UtilityUsageProofs**, with the monitor: `TypeCorrect`; `S3Ahead`; `ProfilesMatchDocument`,
`HoursMatchDocument`, `FiguresMatchDocument`, `FiguresOfOneUsage`. `S3Ahead` and `FiguresOfOneUsage`
hold as long as no handlers have ever overlapped, failures, S3 errors, lost or reordered refreshes
or not; the other three while the monitor is `clean`, which an update that has run alone makes true
again after anything: the proof is that such an update rewrites every store, so it needs no
assumption on what it found. `MonitorOK` is what the monitor means (who is alone does not overlap),
`Solo` what a handler that runs alone knows of the stores at each of its places, `Whole` where each
store may lag behind the document while the update is under way.

Some definitions are written for the proofs: the arms of a CASE exclude each other (`Recipient`),
since TLA+ leaves the choice open where two apply; `SaveConsent` quantifies over flag and answer
instead of over pairs, and `Overlap` of `MCUtilityUsage` says "two of them" without counting.

Only model-checked: liveness under fairness, which is outside the prover (`VoidIsDelivered`,
`SubmittedIsResolved`, `FlushedIsAnswered`, `UploadSettles`). The three violated properties are
refuted by TLC's counterexamples.

## 5. Assumptions and what is left out

* Contracts: change orders are created through the change-order endpoints only; the grid-services
  agreements, NCCO contracts, resend, read-only endpoints and the replacement of installed products
  are left out. The contracts are those of one opportunity. Nothing in the repository calls
  `updateContractByDocusign`, whose query names a field the schema does not have; as contracts do
  become COMPLETED, it is taken to be called for any report, as often as DocuSign likes, and to find
  the contract that refers to the envelope.
* Qualification: `NODE_ENV` is not `production` (there, consents and approvals by hand are refused
  and no mail goes out). Event histories and milestones, which no guard reads, are left out.
* DocusignAuth: one of the two integrations; a handler lasts less than the 15 minutes of slack.
* DesignHooks: one save of one request, with at least one panel array. The Sunroof service may
  answer differently each time. Tasks after the answer (`afterRes`) are in HourlyProduction.
* HourlyProduction: one process, as it is deployed (cdk/ECSStack.ts:90). Uuids are not drawn twice.
* QuoteUse: the documents of one opportunity. Updates of a design without new design data (name,
  thumbnail) ask and outdate nothing and are left out, as are rooftop images, notes, views of
  proposals and sample contracts. The parallel reads of `createQuote` are one step. Where a query
  names its field in camelCase, the naming plugin of the schemas translates it, so that `updateMany`
  of the archived quotes does reach them.
* UtilityUsage: the document exists. Costs, the medical baseline and low-income settings are left
  out; Genability's costs are one step with the save they precede, and the reads of
  `updateListSystemDesign` are one step.
* Hazards that no property covers are in PROJECT.json with the reason or the module planned.

## Not modelled

Catalogues, CRM records and masters are CRUD without a guard that reads another collection. Leases,
pricing, energy profiles and estimates compute numbers in floating point, which TLC does not have;
their control is a chain of lookups. Templates, tabs and mails are formatting. Installed products
are replaced by a deletion and an insertion with no guard and no repair, so there is nothing the
code promises that could be checked.

## 6. Plan

Done: `Contracts`, `Qualification`, `DocusignAuth`, `RegenerationPlan`, `DesignHooks`,
`HourlyProduction`, `QuoteUse`, `UtilityUsage`. Next, in this order:

1. Done: a theorem for every safety property of a passing run.
2. `ContractLifecycle`, an abstract life cycle of one contract, implemented by Contracts, and the
   composition of Contracts with Qualification through the credit gate of `sendContract`
   (contract.service.ts:353-378).
3. The grid-services agreements and NCCO contracts, as extensions of Contracts.
4. Pure algorithms with a reference definition: the radius and bounds of a design, month and hour
   aggregation, the lease lookup.
