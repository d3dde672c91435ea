------------------------------ MODULE QuoteUse ------------------------------
(***************************************************************************)
(* The documents of one opportunity that are computed from each other:     *)
(* the utility usage, system designs, quotes computed from a design and    *)
(* the usage, proposals and contracts that show a quote (quotes/           *)
(* quote.service.ts, system-designs/system-design.service.ts,              *)
(* proposals/proposal.service.ts, contracts/contract.service.ts).          *)
(*                                                                         *)
(* A quote or a design that a proposal or contract uses must not change; a *)
(* quote that no longer agrees with what it was computed from is marked    *)
(* (isSync FALSE).  Both rest on checks and searches that are awaited long *)
(* before the writes they guard.                                           *)
(***************************************************************************)
EXTENDS Naturals, FiniteSets

CONSTANTS
  Design, Quote, Proposal, Contract,   \* the ids a behaviour may use
  Request,                             \* places for requests under way
  MaxChanges    \* bound on how often the usage and a design change, together

ASSUME QuoteUseAssumption ==
  MaxChanges \in Nat /\ Design # {} /\ Proposal \cap Contract = {}

None == "none"   \* no id
ASSUME NoneAssumption == None \notin Design \cup Quote \cup Proposal \cup Contract

VARIABLES
  usage,      \* how often the usage has been changed
  designs,    \* st, version (how often changed)
  quotes,     \* st, design, basis (what it was computed from), isSync, isArchived
  proposals,  \* st, quote, design, full (is quoteData there?), shows (its basis), sent
  contracts,  \* st, quote
  req,        \* what a handler under way has read
  skipped     \* quotes an outdating has passed over because they were in use (history)

docs == <<usage, designs, quotes, proposals, contracts>>
vars == <<docs, req, skipped>>

Version == 0..MaxChanges
Basis == [design : Version, usage : Version]
NoBasis == [design |-> 0, usage |-> 0]

\* st: an id that is free, a document that is there, one that was deleted.
NoDesign == [st |-> "free", version |-> 0]
NoQuote == [st |-> "free", design |-> None, basis |-> NoBasis,
            isSync |-> TRUE, isArchived |-> FALSE]
NoProposal == [st |-> "free", quote |-> None, design |-> None,
               full |-> FALSE, shows |-> NoBasis, sent |-> FALSE]
NoContract == [st |-> "free", quote |-> None]

Idle == [pc |-> "idle", op |-> None, design |-> None, quote |-> None, doc |-> None,
         basis |-> NoBasis, isSync |-> TRUE, isArchived |-> FALSE,
         todo |-> {}, found |-> {}, known |-> {}]

Init ==
  /\ usage = 0
  /\ designs = [d \in Design |-> NoDesign]
  /\ quotes = [q \in Quote |-> NoQuote]
  /\ proposals = [p \in Proposal |-> NoProposal]
  /\ contracts = [c \in Contract |-> NoContract]
  /\ req = [r \in Request |-> Idle]
  /\ skipped = {}

----------------------------------------------------------------------------
Changeable(d) == usage + designs[d].version < MaxChanges

There(coll, id) == coll[id].st = "there"
Designs == {d \in Design : There(designs, d)}
Quotes == {q \in Quote : There(quotes, q)}
Proposals == {p \in Proposal : There(proposals, p)}
Contracts == {c \in Contract : contracts[c].st # "free"}
Live == {c \in Contract : contracts[c].st = "there"}   \* not VOIDED

At(r, pc) == req[r].pc = pc
Become(r, rec) == req' = [req EXCEPT ![r] = rec]
Goto(r, pc) == req' = [req EXCEPT ![r].pc = pc]
Finish(r) == Become(r, Idle)
Begin(r, rec) == At(r, "idle") /\ Become(r, rec)
\* A handler that may change quotes or designs: known is who used any when it began
\* (history).
BeginChange(r, rec) == Begin(r, [rec EXCEPT !.known = Proposals \cup Contracts])

QuotesOf(d) == {q \in Quotes : quotes[q].design = d}

\* existByQuoteId, existsByQuoteId: who uses a quote; a voided contract does not.
ProposalsOfQuote(q) == {p \in Proposals : proposals[p].quote = q}
LiveContractsOfQuote(q) == {c \in Live : contracts[c].quote = q}
\* existBySystemDesignId, twice: who uses a design; here a voided contract counts.
ProposalsOfDesign(d) == {p \in Proposals : proposals[p].design = d}
\* Fault: a voided contract does not keep a design, either.
LiveContractsOfDesign(d) == {c \in Live : contracts[c].quote \in QuotesOf(d)}
ContractsOfDesign(d) == {c \in Contracts : contracts[c].quote \in QuotesOf(d)}

\* setOutdatedData: the quotes with no proposal and no contract of any status.
Unused(found) ==
  {q \in found : ProposalsOfQuote(q) = {} /\ \A c \in Contracts : contracts[c].quote # q}

----------------------------------------------------------------------------
(* Usage and designs. *)

\* updateUtilityUsageDetailUtil stores the new usage; the quotes are outdated next.
UpdateUsage(r) ==
  /\ BeginChange(r, [Idle EXCEPT !.pc = "outdate", !.op = "usage", !.todo = {"find"}])
  /\ \A d \in Design : Changeable(d)
  /\ usage' = usage + 1
  /\ UNCHANGED <<designs, quotes, proposals, contracts, skipped>>

CreateDesign(r, d) ==
  /\ At(r, "idle")
  /\ designs[d].st = "free"
  /\ designs' = [designs EXCEPT ![d].st = "there"]
  /\ UNCHANGED <<usage, quotes, proposals, contracts, req, skipped>>

\* update, with new design data (designMode is sent with them): findById ...
StartUpdateDesign(r, d) ==
  /\ d \in Designs
  /\ BeginChange(r, [Idle EXCEPT !.pc = "proposalsOfDesign", !.op = "updateDesign", !.design = d])
  /\ UNCHANGED <<docs, skipped>>

\* delete: findOne ...
StartDeleteDesign(r, d) ==
  /\ d \in Designs
  /\ BeginChange(r, [Idle EXCEPT !.pc = "countQuotes", !.op = "deleteDesign", !.design = d])
  /\ UNCHANGED <<docs, skipped>>

\* Fault: only the quotes that are not archived keep a design.
CountActiveQuotes(r) ==
  /\ At(r, "countQuotes")
  /\ IF \A q \in QuotesOf(req[r].design) : quotes[q].isArchived
     THEN Goto(r, "proposalsOfDesign") ELSE Finish(r)
  /\ UNCHANGED <<docs, skipped>>

\* ... getAllQuotes(STATUS_QUERY.ALL): the design is refused to anyone with a quote ...
CountQuotes(r) ==
  /\ At(r, "countQuotes")
  /\ IF QuotesOf(req[r].design) = {} THEN Goto(r, "proposalsOfDesign") ELSE Finish(r)
  /\ UNCHANGED <<docs, skipped>>

\* ... and both: checkInUsed asks for proposals, then for contracts.
CheckProposalsOfDesign(r) ==
  /\ At(r, "proposalsOfDesign")
  /\ IF ProposalsOfDesign(req[r].design) = {} THEN Goto(r, "contractsOfDesign") ELSE Finish(r)
  /\ UNCHANGED <<docs, skipped>>

\* Then update goes on to calculate the design and writes it: Promise.all of the save
\* and of setOutdatedData.
CheckContractsOfDesign(r) ==
  /\ At(r, "contractsOfDesign")
  /\ IF ContractsOfDesign(req[r].design) # {} THEN Finish(r)
     ELSE IF req[r].op = "deleteDesign" THEN Goto(r, "deleteDesign")
     ELSE Become(r, [req[r] EXCEPT !.pc = "outdate", !.todo = {"save", "find"}])
  /\ UNCHANGED <<docs, skipped>>

\* A handler whose Promise.all has settled ends.
Done(r, rec) == Become(r, IF rec.todo = {} THEN Idle ELSE rec)

\* save() of a design deleted meanwhile fails: nothing is stored.
SaveDesign(r) ==
  /\ At(r, "outdate") /\ "save" \in req[r].todo
  /\ LET d == req[r].design IN
     IF d \in Designs /\ Changeable(d)
     THEN designs' = [designs EXCEPT ![d].version = @ + 1]
     ELSE UNCHANGED designs
  /\ Done(r, [req[r] EXCEPT !.todo = @ \ {"save"}])
  /\ UNCHANGED <<usage, quotes, proposals, contracts, skipped>>

\* setOutdatedData: of all quotes, or of those of the design, the unused ones ...
FindOutdated(r) ==
  /\ At(r, "outdate") /\ "find" \in req[r].todo
  /\ LET scope == IF req[r].op = "usage" THEN Quotes ELSE QuotesOf(req[r].design) IN
     /\ Become(r, [req[r] EXCEPT !.todo = (@ \ {"find"}) \cup {"mark"},
                                 !.found = Unused(scope)])
     /\ skipped' = skipped \cup (scope \ Unused(scope))
  /\ UNCHANGED docs

\* ... are marked.
MarkOutdated(r) ==
  /\ At(r, "outdate") /\ "mark" \in req[r].todo
  /\ quotes' = [q \in Quote |-> IF q \in req[r].found \cap Quotes
                                THEN [quotes[q] EXCEPT !.isSync = FALSE] ELSE quotes[q]]
  /\ Done(r, [req[r] EXCEPT !.todo = @ \ {"mark"}])
  /\ UNCHANGED <<usage, designs, proposals, contracts, skipped>>

DeleteDesign(r) ==
  /\ At(r, "deleteDesign")
  /\ designs' = [designs EXCEPT ![req[r].design] = [NoDesign EXCEPT !.st = "gone"]]
  /\ Finish(r)
  /\ UNCHANGED <<usage, quotes, proposals, contracts, skipped>>

----------------------------------------------------------------------------
(* Archiving a design archives its quotes.  The flag of the design itself only filters    *)
(* lists; unarchiving sets nothing else.                                                  *)

\* updateArchiveStatus(TRUE): findById ...
StartArchiveDesign(r, d) ==
  /\ d \in Designs
  /\ BeginChange(r, [Idle EXCEPT !.pc = "checkSent", !.op = "archive", !.design = d])
  /\ UNCHANGED <<docs, skipped>>

\* ... checkSentProposalOrGeneratedContract: contracts are looked for on the quotes
\* that are not archived ...
CheckSent(r) ==
  /\ At(r, "checkSent")
  /\ LET d == req[r].design IN
     IF \/ \E p \in ProposalsOfDesign(d) : proposals[p].sent
        \/ \E c \in Live : \E q \in QuotesOf(d) : contracts[c].quote = q /\ ~quotes[q].isArchived
     THEN Finish(r) ELSE Goto(r, "archiveDesign")
  /\ UNCHANGED <<docs, skipped>>

\* ... the design is saved as archived, which fails if it was deleted meanwhile ...
ArchiveDesign(r) ==
  /\ At(r, "archiveDesign")
  /\ IF req[r].design \in Designs THEN Goto(r, "findQuotes") ELSE Finish(r)
  /\ UNCHANGED <<docs, skipped>>

\* ... its active quotes are read, and each is checked for proposals and contracts ...
FindQuotes(r) ==
  /\ At(r, "findQuotes")
  /\ LET active == {q \in QuotesOf(req[r].design) : ~quotes[q].isArchived} IN
     Become(r, [req[r] EXCEPT !.pc = "checkQuotes", !.found = active,
                              !.todo = {<<"proposals", q>> : q \in active}])
  /\ UNCHANGED <<docs, skipped>>

CheckQuoteProposals(r, q) ==
  /\ At(r, "checkQuotes") /\ <<"proposals", q>> \in req[r].todo
  /\ LET rest == req[r].todo \ {<<"proposals", q>>} IN
     Become(r, IF ProposalsOfQuote(q) # {}
               THEN [req[r] EXCEPT !.todo = rest, !.found = @ \ {q}]
               ELSE [req[r] EXCEPT !.todo = rest \cup {<<"contracts", q>>}])
  /\ UNCHANGED <<docs, skipped>>

CheckQuoteContracts(r, q) ==
  /\ At(r, "checkQuotes") /\ <<"contracts", q>> \in req[r].todo
  /\ Become(r, [req[r] EXCEPT
       !.todo = @ \ {<<"contracts", q>>},
       !.found = IF LiveContractsOfQuote(q) # {} THEN @ \ {q} ELSE @])
  /\ UNCHANGED <<docs, skipped>>

\* Fault: all quotes of the design are archived with it.
ArchiveAllQuotes(r) ==
  /\ At(r, "checkQuotes") /\ req[r].todo = {}
  /\ quotes' = [q \in Quote |-> IF q \in QuotesOf(req[r].design)
                                THEN [quotes[q] EXCEPT !.isArchived = TRUE] ELSE quotes[q]]
  /\ Finish(r)
  /\ UNCHANGED <<usage, designs, proposals, contracts, skipped>>

\* ... and those without are archived.
ArchiveQuotes(r) ==
  /\ At(r, "checkQuotes") /\ req[r].todo = {}
  /\ quotes' = [q \in Quote |-> IF q \in req[r].found \cap Quotes
                                THEN [quotes[q] EXCEPT !.isArchived = TRUE] ELSE quotes[q]]
  /\ Finish(r)
  /\ UNCHANGED <<usage, designs, proposals, contracts, skipped>>

----------------------------------------------------------------------------
(* Quotes. *)

\* createQuote: the design and the utility are read ...
StartCreateQuote(r, d) ==
  /\ d \in Designs
  /\ Begin(r, [Idle EXCEPT !.pc = "insertQuote", !.op = "create", !.design = d,
                           !.basis = [design |-> designs[d].version, usage |-> usage]])
  /\ UNCHANGED <<docs, skipped>>

\* reQuote: the quote is read; its copy keeps isSync and isArchived.
StartReQuote(r, q, d) ==
  /\ q \in Quotes
  /\ Begin(r, [Idle EXCEPT !.pc = "readDesign", !.op = "requote", !.design = d, !.quote = q,
                           !.isSync = quotes[q].isSync, !.isArchived = quotes[q].isArchived])
  /\ UNCHANGED <<docs, skipped>>

\* The client has opened a quote: what it will send back for updateQuote (a PUT) or for
\* updateLatestQuote (a recalculation).
OpenQuote(r, q, op) ==
  /\ q \in Quotes
  /\ op \in {"update", "latest"}
  /\ BeginChange(r, [Idle EXCEPT !.pc = "proposalsOfQuote", !.op = op, !.quote = q,
                           !.design = quotes[q].design, !.basis = quotes[q].basis,
                           !.isSync = quotes[q].isSync])
  /\ UNCHANGED <<docs, skipped>>

\* deleteQuote: findOne ...
StartDeleteQuote(r, q) ==
  /\ q \in Quotes
  /\ BeginChange(r, [Idle EXCEPT !.pc = "proposalsOfQuote", !.op = "deleteQuote", !.quote = q])
  /\ UNCHANGED <<docs, skipped>>

\* Fault: only a proposal that was sent keeps a quote.
CheckSentProposalsOfQuote(r) ==
  /\ At(r, "proposalsOfQuote")
  /\ IF \A p \in ProposalsOfQuote(req[r].quote) : ~proposals[p].sent
     THEN Goto(r, "contractsOfQuote") ELSE Finish(r)
  /\ UNCHANGED <<docs, skipped>>

\* checkInUsed asks for proposals, then for contracts that are not voided.
CheckProposalsOfQuote(r) ==
  /\ At(r, "proposalsOfQuote")
  /\ IF ProposalsOfQuote(req[r].quote) = {} THEN Goto(r, "contractsOfQuote") ELSE Finish(r)
  /\ UNCHANGED <<docs, skipped>>

CheckContractsOfQuote(r) ==
  /\ At(r, "contractsOfQuote")
  /\ IF LiveContractsOfQuote(req[r].quote) # {} THEN Finish(r)
     ELSE Goto(r, IF req[r].op = "deleteQuote" THEN "deleteQuote" ELSE "readDesign")
  /\ UNCHANGED <<docs, skipped>>

\* Fault: a requote keeps the figures of the quote it copies.
ReadDesignOnly(r) ==
  /\ At(r, "readDesign")
  /\ IF req[r].design \notin Designs THEN Finish(r)
     ELSE IF req[r].op = "requote"
     THEN Become(r, [req[r] EXCEPT !.pc = "insertQuote", !.basis = quotes[req[r].quote].basis])
     ELSE IF req[r].quote \notin Quotes THEN Finish(r)
     ELSE Become(r, [req[r] EXCEPT !.pc = "writeQuote",
            !.basis = IF req[r].op = "latest"
                      THEN [design |-> designs[req[r].design].version, usage |-> usage] ELSE @])
  /\ UNCHANGED <<docs, skipped>>

\* The design and the utility are read, and the quote where it is updated: the others
\* compute all figures anew; updateQuote takes those the client sends, but for the cost
\* buildup and the net amount, which it computes from the design, too (basis: the rest).
ReadDesign(r) ==
  /\ At(r, "readDesign")
  /\ IF req[r].design \notin Designs \/ (req[r].op # "requote" /\ req[r].quote \notin Quotes)
     THEN Finish(r)
     ELSE Become(r, [req[r] EXCEPT
            !.pc = IF req[r].op = "requote" THEN "insertQuote" ELSE "writeQuote",
            !.basis = IF req[r].op = "update" THEN @
                      ELSE [design |-> designs[req[r].design].version, usage |-> usage]])
  /\ UNCHANGED <<docs, skipped>>

InsertQuote(r, q) ==
  /\ At(r, "insertQuote")
  /\ quotes[q].st = "free"
  /\ quotes' = [quotes EXCEPT ![q] =
       [st |-> "there", design |-> req[r].design, basis |-> req[r].basis,
        isSync |-> req[r].isSync, isArchived |-> req[r].isArchived]]
  /\ Finish(r)
  /\ UNCHANGED <<usage, designs, proposals, contracts, skipped>>

\* findByIdAndUpdate with the whole QuoteModel.  isSync: what the client sent, TRUE after
\* a recalculation.  isArchived: what the client sends, FALSE after a recalculation.
WriteQuote(r) ==
  /\ At(r, "writeQuote")
  /\ \E archived \in IF req[r].op = "update" THEN BOOLEAN ELSE {FALSE} :
       quotes' = [quotes EXCEPT ![req[r].quote] =
         IF req[r].quote \in Quotes
         THEN [st |-> "there", design |-> req[r].design, basis |-> req[r].basis,
               isSync |-> req[r].op = "latest" \/ req[r].isSync, isArchived |-> archived]
         ELSE @]
  /\ skipped' = IF req[r].op = "latest" THEN skipped \ {req[r].quote} ELSE skipped
  /\ Finish(r)
  /\ UNCHANGED <<usage, designs, proposals, contracts>>

DeleteQuote(r) ==
  /\ At(r, "deleteQuote")
  /\ quotes' = [quotes EXCEPT ![req[r].quote] = [NoQuote EXCEPT !.st = "gone"]]
  /\ skipped' = skipped \ {req[r].quote}
  /\ Finish(r)
  /\ UNCHANGED <<usage, designs, proposals, contracts>>

----------------------------------------------------------------------------
(* Proposals and contracts. *)

\* create of a proposal: the design and the quote the client names are read, to be copied.
\* Only the design must be there; the quote may have been deleted, and need not be of it ...
StartProposal(r, q, d) ==
  /\ quotes[q].st # "free" /\ d \in Designs
  /\ Begin(r, [Idle EXCEPT !.pc = "insertProposal", !.quote = q, !.design = d,
                           !.found = {q} \cap Quotes, !.basis = quotes[q].basis])
  /\ UNCHANGED <<docs, skipped>>

\* Fault: the proposal is saved without the design of its quote.
InsertProposalOfQuote(r, p) ==
  /\ At(r, "insertProposal")
  /\ proposals[p].st = "free"
  /\ proposals' = [proposals EXCEPT ![p] =
       [st |-> "there", quote |-> req[r].quote, design |-> None,
        full |-> req[r].found # {}, shows |-> req[r].basis, sent |-> FALSE]]
  /\ Finish(r)
  /\ UNCHANGED <<usage, designs, quotes, contracts, skipped>>

\* ... the thumbnail is copied in S3, the proposal is saved, its PDF is made.
InsertProposal(r, p) ==
  /\ At(r, "insertProposal")
  /\ proposals[p].st = "free"
  /\ proposals' = [proposals EXCEPT ![p] =
       [st |-> "there", quote |-> req[r].quote, design |-> req[r].design,
        full |-> req[r].found # {}, shows |-> req[r].basis, sent |-> FALSE]]
  /\ Finish(r)
  /\ UNCHANGED <<usage, designs, quotes, contracts, skipped>>

\* sendRecipients: findById; later the analytics record says SENT.
StartSend(r, p) ==
  /\ p \in Proposals
  /\ Begin(r, [Idle EXCEPT !.pc = "track", !.doc = p])
  /\ UNCHANGED <<docs, skipped>>

TrackSent(r) ==
  /\ At(r, "track")
  /\ proposals' = [proposals EXCEPT ![req[r].doc].sent = @ \/ req[r].doc \in Proposals]
  /\ Finish(r)
  /\ UNCHANGED <<usage, designs, quotes, contracts, skipped>>

\* deleteProposal asks nothing.
DeleteProposal(r, p) ==
  /\ At(r, "idle") /\ p \in Proposals
  /\ proposals' = [proposals EXCEPT ![p] = [NoProposal EXCEPT !.st = "gone"]]
  /\ UNCHANGED <<usage, designs, quotes, contracts, req, skipped>>

\* saveContract (ADD) and saveChangeOrder: the quote must be there when it is read ...
StartContract(r, q) ==
  /\ q \in Quotes
  /\ Begin(r, [Idle EXCEPT !.pc = "insertContract", !.quote = q])
  /\ UNCHANGED <<docs, skipped>>

InsertContract(r, c) ==
  /\ At(r, "insertContract")
  /\ contracts[c].st = "free"
  /\ contracts' = [contracts EXCEPT ![c] = [st |-> "there", quote |-> req[r].quote]]
  /\ Finish(r)
  /\ UNCHANGED <<usage, designs, quotes, proposals, skipped>>

\* voidContract; Contracts has its steps.
VoidContract(c) ==
  /\ c \in Live
  /\ contracts' = [contracts EXCEPT ![c].st = "voided"]
  /\ UNCHANGED <<usage, designs, quotes, proposals, req, skipped>>

\* A handler ends between two of its steps: a service fails, the server stops.
Abandon(r) ==
  /\ ~At(r, "idle")
  /\ Finish(r)
  /\ UNCHANGED <<docs, skipped>>

----------------------------------------------------------------------------
Arrive(r) ==
  \/ UpdateUsage(r)
  \/ \E d \in Design :
       \/ CreateDesign(r, d) \/ StartUpdateDesign(r, d) \/ StartDeleteDesign(r, d)
       \/ StartCreateQuote(r, d) \/ StartArchiveDesign(r, d)
  \/ \E q \in Quote :
       \/ StartDeleteQuote(r, q) \/ StartContract(r, q)
       \/ \E d \in Design : StartReQuote(r, q, d) \/ StartProposal(r, q, d)
       \/ \E op \in {"update", "latest"} : OpenQuote(r, q, op)
  \/ \E p \in Proposal : StartSend(r, p) \/ DeleteProposal(r, p)

Continue(r) ==
  \/ CountQuotes(r) \/ CheckProposalsOfDesign(r) \/ CheckContractsOfDesign(r)
  \/ SaveDesign(r) \/ FindOutdated(r) \/ MarkOutdated(r) \/ DeleteDesign(r)
  \/ CheckSent(r) \/ ArchiveDesign(r) \/ FindQuotes(r) \/ ArchiveQuotes(r)
  \/ CheckProposalsOfQuote(r) \/ CheckContractsOfQuote(r) \/ ReadDesign(r)
  \/ WriteQuote(r) \/ DeleteQuote(r) \/ TrackSent(r)
  \/ \E q \in Quote :
       CheckQuoteProposals(r, q) \/ CheckQuoteContracts(r, q) \/ InsertQuote(r, q)
  \/ \E p \in Proposal : InsertProposal(r, p)
  \/ \E c \in Contract : InsertContract(r, c)

Step ==
  \/ \E r \in Request : Arrive(r) \/ Continue(r)
  \/ \E c \in Contract : VoidContract(c)

Next == Step \/ \E r \in Request : Abandon(r)

Spec == Init /\ [][Next]_vars

----------------------------------------------------------------------------
St == {"free", "there", "gone"}

(* Every variable keeps its type; a document refers to documents once it is *)
(* there.                                                                   *)
TypeOK ==
  /\ usage \in Version
  /\ designs \in [Design -> [st : St, version : Version]]
  /\ quotes \in [Quote -> [st : St, design : Design \cup {None}, basis : Basis,
                           isSync : BOOLEAN, isArchived : BOOLEAN]]
  /\ \A q \in Quotes : quotes[q].design \in Design
  /\ proposals \in [Proposal -> [st : St, quote : Quote \cup {None},
                     design : Design \cup {None}, full : BOOLEAN, shows : Basis, sent : BOOLEAN]]
  /\ \A p \in Proposals : proposals[p].quote \in Quote /\ proposals[p].design \in Design
  /\ contracts \in [Contract -> [st : {"free", "there", "voided"}, quote : Quote \cup {None}]]
  /\ \A c \in Contracts : contracts[c].quote \in Quote
  /\ skipped \subseteq Quote

(* Whoever else runs: a handler changes, archives, marks or deletes a quote *)
(* only if no proposal and no contract that is not voided has been using it *)
(* since before the handler started (checkInUsed, setOutdatedData, and      *)
(* updateArchiveStatus, each many awaits before the write).                 *)
UsedQuoteIsFrozen ==
  [][\A q \in Quote, r \in Request :
       (q \in Quotes /\ quotes'[q] # quotes[q] /\ req'[r] # req[r]) =>
         req[r].known \cap (ProposalsOfQuote(q) \cup LiveContractsOfQuote(q)) = {}]_vars

(* The same for the data of a design, which a voided contract keeps, too    *)
(* (checkInUsed of designs; archiving a design is another matter).          *)
UsedDesignIsFrozen ==
  [][\A d \in Design, r \in Request :
       (/\ d \in Designs /\ req'[r] # req[r]
        /\ <<designs'[d].st, designs'[d].version>> # <<designs[d].st, designs[d].version>>) =>
         \A u \in req[r].known :
           /\ u \in Proposals => proposals[u].design # d
           /\ u \in Contracts => contracts[u].quote \notin QuotesOf(d)]_vars
=============================================================================
