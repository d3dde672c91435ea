--------------------------- MODULE QuoteUseProofs ---------------------------
(***************************************************************************)
(* Theorems about QuoteUse, for any number of documents and of concurrent  *)
(* requests, handlers that end half way included.                          *)
(***************************************************************************)
EXTENDS QuoteUse, TLAPS

Todo == {"save", "find", "mark"} \cup ({"proposals", "contracts"} \X Quote)

PC == {"idle", "outdate", "countQuotes", "proposalsOfDesign", "contractsOfDesign", "deleteDesign",
       "checkSent", "archiveDesign", "findQuotes", "checkQuotes", "insertQuote",
       "proposalsOfQuote", "contractsOfQuote", "readDesign", "writeQuote", "deleteQuote",
       "insertProposal", "track", "insertContract"}
Op == {None, "usage", "updateDesign", "deleteDesign", "archive", "create", "requote", "update",
       "latest", "deleteQuote"}

Handlers ==
  [pc : PC, op : Op, design : Design \cup {None}, quote : Quote \cup {None},
   doc : Proposal \cup {None}, basis : Basis, isSync : BOOLEAN, isArchived : BOOLEAN,
   todo : SUBSET Todo, found : SUBSET Quote, known : SUBSET (Proposal \cup Contract)]

(***************************************************************************)
(* What holds of a handler h, given the proposals pr, the contracts co and *)
(* the quotes qu.                                                          *)
(***************************************************************************)

\* Who is known has been created.
KnownExist(h, pr, co) ==
  /\ \A p \in Proposal : p \in h.known => pr[p].st # "free"
  /\ \A c \in Contract : c \in h.known => co[c].st # "free"

\* The documents a handler has read are of the right kind, and it does what its kind does.
Ready(h, qu) ==
  /\ h.pc \in {"countQuotes", "proposalsOfDesign", "contractsOfDesign", "deleteDesign",
               "insertQuote", "writeQuote", "insertProposal"} => h.design \in Design
  /\ h.pc \in {"proposalsOfQuote", "contractsOfQuote", "writeQuote", "deleteQuote",
               "insertProposal", "insertContract"} => h.quote \in Quote
  /\ h.pc = "insertContract" => qu[h.quote].st # "free"
  /\ h.pc = "track" => h.doc \in Proposal
  /\ h.pc \in {"proposalsOfQuote", "contractsOfQuote"} => h.op \in {"update", "latest", "deleteQuote"}
  /\ h.pc = "readDesign" => h.op \in {"update", "latest", "requote"}
  /\ h.pc = "writeQuote" => h.op \in {"update", "latest"}
  /\ h.op \in {"update", "latest"} =>
       /\ h.quote \in Quote /\ qu[h.quote].st # "free"
       /\ qu[h.quote].st = "there" => qu[h.quote].design = h.design

\* None of those known to h uses quote q: no proposal, no contract that is not voided.
FreeOfProposals(h, pr, q) ==
  \A p \in Proposal : p \in h.known /\ pr[p].st = "there" => pr[p].quote # q
FreeOfContracts(h, co, q) ==
  \A c \in Contract : c \in h.known /\ co[c].st = "there" => co[c].quote # q

\* The same for design d; here every contract counts.
DesignFreeOfProposals(h, pr, d) ==
  \A p \in Proposal : p \in h.known /\ pr[p].st = "there" => pr[p].design # d
DesignFreeOfContracts(h, co, qu, d) ==
  \A c \in Contract : c \in h.known /\ co[c].st # "free" =>
    ~(qu[co[c].quote].st = "there" /\ qu[co[c].quote].design = d)

\* What the checks a handler has passed say of those it has known.
Checked(h, pr, co, qu) ==
  /\ (h.pc \in {"contractsOfQuote", "writeQuote", "deleteQuote"}
        \/ (h.pc = "readDesign" /\ h.op # "requote")) => FreeOfProposals(h, pr, h.quote)
  /\ (h.pc \in {"writeQuote", "deleteQuote"} \/ (h.pc = "readDesign" /\ h.op # "requote")) =>
       FreeOfContracts(h, co, h.quote)
  /\ h.pc = "outdate" /\ "mark" \in h.todo =>
       \A q \in h.found : FreeOfProposals(h, pr, q) /\ FreeOfContracts(h, co, q)
  /\ h.pc = "checkQuotes" => \A q \in h.found :
       <<"proposals", q>> \notin h.todo =>
         /\ FreeOfProposals(h, pr, q)
         /\ <<"contracts", q>> \notin h.todo => FreeOfContracts(h, co, q)
  /\ (h.pc \in {"contractsOfDesign", "deleteDesign"} \/ (h.pc = "outdate" /\ "save" \in h.todo)) =>
       DesignFreeOfProposals(h, pr, h.design)
  /\ (h.pc = "deleteDesign" \/ (h.pc = "outdate" /\ "save" \in h.todo)) =>
       DesignFreeOfContracts(h, co, qu, h.design)

Sound(h, pr, co, qu) ==
  h \in Handlers /\ KnownExist(h, pr, co) /\ Ready(h, qu) /\ Checked(h, pr, co, qu)

ContractsHaveQuotes(co, qu) ==
  \A c \in Contract : co[c].st # "free" => co[c].quote \in Quote /\ qu[co[c].quote].st # "free"

IInv ==
  /\ TypeOK
  /\ ContractsHaveQuotes(contracts, quotes)
  /\ req \in [Request -> Handlers]
  /\ \A r \in Request : Sound(req[r], proposals, contracts, quotes)

(***************************************************************************)
(* How documents change: an id is used once, and what a document refers to *)
(* never changes.                                                          *)
(***************************************************************************)
Evolve(pr, co, qu, pr2, co2, qu2) ==
  /\ \A p \in Proposal : pr[p].st # "free" =>
       /\ pr2[p].st # "free"
       /\ pr2[p].st = "there" => /\ pr[p].st = "there"
                                 /\ pr2[p].quote = pr[p].quote /\ pr2[p].design = pr[p].design
  /\ \A c \in Contract : co[c].st # "free" =>
       /\ co2[c].st # "free" /\ co2[c].quote = co[c].quote
       /\ co2[c].st = "there" => co[c].st = "there"
  /\ \A q \in Quote : qu[q].st # "free" =>
       /\ qu2[q].st # "free"
       /\ qu2[q].st = "there" => qu[q].st = "there" /\ qu2[q].design = qu[q].design

\* What is sound stays sound while documents change.
LEMMA SoundStays ==
  ASSUME NEW pr, NEW co, NEW qu, NEW pr2, NEW co2, NEW qu2,
         Evolve(pr, co, qu, pr2, co2, qu2), ContractsHaveQuotes(co, qu),
         NEW h, Sound(h, pr, co, qu)
  PROVE  Sound(h, pr2, co2, qu2)
<1>1. KnownExist(h, pr2, co2)
  BY DEF Sound, KnownExist, Evolve
<1>2. Ready(h, qu2)
  BY DEF Sound, Ready, Evolve, Handlers
<1>3. \A q : FreeOfProposals(h, pr, q) => FreeOfProposals(h, pr2, q)
  BY DEF Sound, KnownExist, Evolve, FreeOfProposals
<1>4. \A q : FreeOfContracts(h, co, q) => FreeOfContracts(h, co2, q)
  BY DEF Sound, KnownExist, Evolve, FreeOfContracts
<1>5. \A d : DesignFreeOfProposals(h, pr, d) => DesignFreeOfProposals(h, pr2, d)
  BY DEF Sound, KnownExist, Evolve, DesignFreeOfProposals
<1>6. \A d : DesignFreeOfContracts(h, co, qu, d) => DesignFreeOfContracts(h, co2, qu2, d)
  BY DEF Sound, KnownExist, Evolve, DesignFreeOfContracts, ContractsHaveQuotes
<1>7. Checked(h, pr2, co2, qu2)
  BY <1>3, <1>4, <1>5, <1>6 DEF Sound, Checked
<1> QED BY <1>1, <1>2, <1>7 DEF Sound

LEMMA IdleSound ==
  ASSUME NEW pr, NEW co, NEW qu
  PROVE  Sound(Idle, pr, co, qu)
<1>1. NoBasis \in Basis
  BY QuoteUseAssumption DEF NoBasis, Basis, Version
<1>2. Idle \in Handlers
  BY <1>1 DEF Idle, Handlers, PC, Op
<1>3. Idle.pc = "idle" /\ Idle.op = None /\ Idle.known = {}
  BY DEF Idle
<1>4. KnownExist(Idle, pr, co)
  BY <1>3 DEF KnownExist
<1>5. Ready(Idle, qu)
  BY <1>3 DEF Ready, None
<1>6. Checked(Idle, pr, co, qu)
  BY <1>3 DEF Checked
<1> QED
  BY <1>2, <1>4, <1>5, <1>6 DEF Sound

\* A step that changes documents, and leaves request r with the record h.
LEMMA HandlerStep ==
  ASSUME IInv, TypeOK', ContractsHaveQuotes(contracts', quotes'),
         Evolve(proposals, contracts, quotes, proposals', contracts', quotes'),
         NEW r \in Request, NEW h, req' = [req EXCEPT ![r] = h],
         Sound(h, proposals', contracts', quotes')
  PROVE  IInv'
<1>1. req' \in [Request -> Handlers]
  BY DEF IInv, Sound
<1>2. ASSUME NEW s \in Request PROVE Sound(req'[s], proposals', contracts', quotes')
  <2>1. CASE s = r BY <2>1 DEF IInv
  <2>2. CASE s # r BY <2>2, SoundStays DEF IInv
  <2> QED BY <2>1, <2>2
<1> QED BY <1>1, <1>2 DEF IInv

\* A step that only reads.
LEMMA ReadingStep ==
  ASSUME IInv, UNCHANGED docs, skipped' \subseteq Quote,
         NEW r \in Request, NEW h, req' = [req EXCEPT ![r] = h],
         Sound(h, proposals, contracts, quotes)
  PROVE  IInv'
<1>1. TypeOK'
  BY DEF IInv, TypeOK, docs, Quotes, Proposals, Contracts, There, Basis, Version
<1>2. Evolve(proposals, contracts, quotes, proposals', contracts', quotes')
  BY DEF Evolve, docs
<1>3. ContractsHaveQuotes(contracts', quotes') /\ Sound(h, proposals', contracts', quotes')
  BY DEF IInv, docs
<1> QED BY <1>1, <1>2, <1>3, HandlerStep

LEMMA FinishReading ==
  ASSUME IInv, UNCHANGED <<docs, skipped>>, NEW r \in Request, Finish(r)
  PROVE  IInv'
BY ReadingStep, IdleSound DEF Finish, Become, IInv, TypeOK

\* A step that starts a handler: none of its checks has been made.
LEMMA ArrivingStep ==
  ASSUME IInv, UNCHANGED <<docs, skipped>>, NEW r \in Request, NEW h \in Handlers,
         req' = [req EXCEPT ![r] = h],
         h.known = {} \/ h.known = Proposals \cup Contracts,
         h.pc \in {"countQuotes", "proposalsOfDesign", "checkSent", "insertQuote",
                   "proposalsOfQuote", "insertProposal", "track", "insertContract"}
           \/ (h.pc = "readDesign" /\ h.op = "requote"),
         Ready(h, quotes)
  PROVE  IInv'
<1>1. KnownExist(h, proposals, contracts)
  BY QuoteUseAssumption DEF KnownExist, Proposals, Contracts, There
<1>2. Checked(h, proposals, contracts, quotes)
  BY DEF Checked
<1> QED BY <1>1, <1>2, ReadingStep DEF IInv, TypeOK, Sound

----------------------------------------------------------------------------
(* The arrivals that only read. *)

LEMMA StartUpdateDesignInv ==
  ASSUME IInv, NEW r \in Request, NEW d \in Design, StartUpdateDesign(r, d)
  PROVE  IInv'
<1> DEFINE h == [Idle EXCEPT !.pc = "proposalsOfDesign", !.op = "updateDesign", !.design = d,
                             !.known = Proposals \cup Contracts]
<1>1. h \in Handlers
  BY IdleSound DEF Sound, Handlers, PC, Op, Proposals, Contracts
<1>2. /\ h.pc = "proposalsOfDesign" /\ h.op = "updateDesign"
      /\ h.design = d /\ h.known = Proposals \cup Contracts
  BY IdleSound DEF Sound, Handlers
<1>3. UNCHANGED <<docs, skipped>> /\ req' = [req EXCEPT ![r] = h]
  BY IdleSound DEF StartUpdateDesign, BeginChange, Begin, Become, Sound, Handlers
<1> HIDE DEF h
<1>4. Ready(h, quotes)
  BY <1>2 DEF Ready
<1> QED BY <1>1, <1>2, <1>3, <1>4, ArrivingStep

LEMMA StartDeleteDesignInv ==
  ASSUME IInv, NEW r \in Request, NEW d \in Design, StartDeleteDesign(r, d)
  PROVE  IInv'
<1> DEFINE h == [Idle EXCEPT !.pc = "countQuotes", !.op = "deleteDesign", !.design = d,
                             !.known = Proposals \cup Contracts]
<1>1. h \in Handlers
  BY IdleSound DEF Sound, Handlers, PC, Op, Proposals, Contracts
<1>2. /\ h.pc = "countQuotes" /\ h.op = "deleteDesign"
      /\ h.design = d /\ h.known = Proposals \cup Contracts
  BY IdleSound DEF Sound, Handlers
<1>3. UNCHANGED <<docs, skipped>> /\ req' = [req EXCEPT ![r] = h]
  BY IdleSound DEF StartDeleteDesign, BeginChange, Begin, Become, Sound, Handlers
<1> HIDE DEF h
<1>4. Ready(h, quotes)
  BY <1>2 DEF Ready
<1> QED BY <1>1, <1>2, <1>3, <1>4, ArrivingStep

LEMMA StartArchiveDesignInv ==
  ASSUME IInv, NEW r \in Request, NEW d \in Design, StartArchiveDesign(r, d)
  PROVE  IInv'
<1> DEFINE h == [Idle EXCEPT !.pc = "checkSent", !.op = "archive", !.design = d,
                             !.known = Proposals \cup Contracts]
<1>1. h \in Handlers
  BY IdleSound DEF Sound, Handlers, PC, Op, Proposals, Contracts
<1>2. h.pc = "checkSent" /\ h.op = "archive" /\ h.known = Proposals \cup Contracts
  BY IdleSound DEF Sound, Handlers
<1>3. UNCHANGED <<docs, skipped>> /\ req' = [req EXCEPT ![r] = h]
  BY IdleSound DEF StartArchiveDesign, BeginChange, Begin, Become, Sound, Handlers
<1> HIDE DEF h
<1>4. Ready(h, quotes)
  BY <1>2 DEF Ready
<1> QED BY <1>1, <1>2, <1>3, <1>4, ArrivingStep

LEMMA StartCreateQuoteInv ==
  ASSUME IInv, NEW r \in Request, NEW d \in Design, StartCreateQuote(r, d)
  PROVE  IInv'
<1> DEFINE b == [design |-> designs[d].version, usage |-> usage]
           h == [Idle EXCEPT !.pc = "insertQuote", !.op = "create", !.design = d, !.basis = b]
<1>1. b \in Basis
  BY DEF IInv, TypeOK, Basis
<1> HIDE DEF b
<1>2. h \in Handlers
  BY <1>1, IdleSound DEF Sound, Handlers, PC, Op
<1>3. h.pc = "insertQuote" /\ h.op = "create" /\ h.design = d /\ h.known = {}
  BY IdleSound DEF Sound, Handlers, Idle
<1>4. UNCHANGED <<docs, skipped>> /\ req' = [req EXCEPT ![r] = h]
  BY DEF StartCreateQuote, Begin, Become, b
<1> HIDE DEF h
<1>5. Ready(h, quotes)
  BY <1>3 DEF Ready
<1> QED BY <1>2, <1>3, <1>4, <1>5, ArrivingStep

LEMMA StartReQuoteInv ==
  ASSUME IInv, NEW r \in Request, NEW q \in Quote, NEW d \in Design, StartReQuote(r, q, d)
  PROVE  IInv'
<1> DEFINE h == [Idle EXCEPT !.pc = "readDesign", !.op = "requote", !.design = d, !.quote = q,
                   !.isSync = quotes[q].isSync, !.isArchived = quotes[q].isArchived]
<1>1. quotes[q].isSync \in BOOLEAN /\ quotes[q].isArchived \in BOOLEAN
  BY DEF IInv, TypeOK
<1>2. h \in Handlers
  BY <1>1, IdleSound DEF Sound, Handlers, PC, Op
<1>3. h.pc = "readDesign" /\ h.op = "requote" /\ h.known = {}
  BY IdleSound DEF Sound, Handlers, Idle
<1>4. UNCHANGED <<docs, skipped>> /\ req' = [req EXCEPT ![r] = h]
  BY DEF StartReQuote, Begin, Become
<1> HIDE DEF h
<1>5. Ready(h, quotes)
  BY <1>3 DEF Ready
<1> QED BY <1>2, <1>3, <1>4, <1>5, ArrivingStep

LEMMA OpenQuoteInv ==
  ASSUME IInv, NEW r \in Request, NEW q \in Quote, NEW op \in {"update", "latest"},
         OpenQuote(r, q, op)
  PROVE  IInv'
<1> DEFINE h == [Idle EXCEPT !.pc = "proposalsOfQuote", !.op = op, !.quote = q,
                   !.design = quotes[q].design, !.basis = quotes[q].basis,
                   !.isSync = quotes[q].isSync, !.known = Proposals \cup Contracts]
<1>1. /\ quotes[q].isSync \in BOOLEAN /\ quotes[q].basis \in Basis
      /\ quotes[q].design \in Design \cup {None}
  BY DEF IInv, TypeOK
<1>2. h \in Handlers
  BY <1>1, IdleSound DEF Sound, Handlers, PC, Op, Proposals, Contracts
<1>3. /\ h.pc = "proposalsOfQuote" /\ h.op = op /\ h.quote = q
      /\ h.design = quotes[q].design /\ h.known = Proposals \cup Contracts
  BY IdleSound DEF Sound, Handlers
<1>4. /\ UNCHANGED <<docs, skipped>> /\ req' = [req EXCEPT ![r] = h]
      /\ quotes[q].st = "there"
  BY IdleSound DEF OpenQuote, BeginChange, Begin, Become, Sound, Handlers, Quotes, There
<1> HIDE DEF h
<1>5. Ready(h, quotes)
  BY <1>3, <1>4 DEF Ready
<1> QED BY <1>2, <1>3, <1>4, <1>5, ArrivingStep

LEMMA StartDeleteQuoteInv ==
  ASSUME IInv, NEW r \in Request, NEW q \in Quote, StartDeleteQuote(r, q)
  PROVE  IInv'
<1> DEFINE h == [Idle EXCEPT !.pc = "proposalsOfQuote", !.op = "deleteQuote", !.quote = q,
                             !.known = Proposals \cup Contracts]
<1>1. h \in Handlers
  BY IdleSound DEF Sound, Handlers, PC, Op, Proposals, Contracts
<1>2. /\ h.pc = "proposalsOfQuote" /\ h.op = "deleteQuote" /\ h.quote = q
      /\ h.known = Proposals \cup Contracts
  BY IdleSound DEF Sound, Handlers
<1>3. UNCHANGED <<docs, skipped>> /\ req' = [req EXCEPT ![r] = h]
  BY IdleSound DEF StartDeleteQuote, BeginChange, Begin, Become, Sound, Handlers
<1> HIDE DEF h
<1>4. Ready(h, quotes)
  BY <1>2 DEF Ready
<1> QED BY <1>1, <1>2, <1>3, <1>4, ArrivingStep

LEMMA StartProposalInv ==
  ASSUME IInv, NEW r \in Request, NEW q \in Quote, NEW d \in Design, StartProposal(r, q, d)
  PROVE  IInv'
<1> DEFINE h == [Idle EXCEPT !.pc = "insertProposal", !.quote = q, !.design = d,
                             !.found = {q} \cap Quotes, !.basis = quotes[q].basis]
<1>1. quotes[q].basis \in Basis
  BY DEF IInv, TypeOK
<1>2. h \in Handlers
  BY <1>1, IdleSound DEF Sound, Handlers, PC
<1>3. /\ h.pc = "insertProposal" /\ h.quote = q /\ h.design = d
      /\ h.op = None /\ h.known = {}
  BY IdleSound DEF Sound, Handlers, Idle
<1>4. UNCHANGED <<docs, skipped>> /\ req' = [req EXCEPT ![r] = h]
  BY DEF StartProposal, Begin, Become
<1> HIDE DEF h
<1>5. Ready(h, quotes)
  BY <1>1, <1>3 DEF Ready, None
<1> QED BY <1>2, <1>3, <1>4, <1>5, ArrivingStep

LEMMA StartSendInv ==
  ASSUME IInv, NEW r \in Request, NEW p \in Proposal, StartSend(r, p)
  PROVE  IInv'
<1> DEFINE h == [Idle EXCEPT !.pc = "track", !.doc = p]
<1>1. h \in Handlers
  BY IdleSound DEF Sound, Handlers, PC
<1>2. h.pc = "track" /\ h.doc = p /\ h.op = None /\ h.known = {}
  BY IdleSound DEF Sound, Handlers, Idle
<1>3. UNCHANGED <<docs, skipped>> /\ req' = [req EXCEPT ![r] = h]
  BY DEF StartSend, Begin, Become
<1> HIDE DEF h
<1>4. Ready(h, quotes)
  BY <1>2 DEF Ready, None
<1> QED BY <1>1, <1>2, <1>3, <1>4, ArrivingStep

LEMMA StartContractInv ==
  ASSUME IInv, NEW r \in Request, NEW q \in Quote, StartContract(r, q)
  PROVE  IInv'
<1> DEFINE h == [Idle EXCEPT !.pc = "insertContract", !.quote = q]
<1>1. h \in Handlers
  BY IdleSound DEF Sound, Handlers, PC
<1>2. h.pc = "insertContract" /\ h.quote = q /\ h.op = None /\ h.known = {}
  BY IdleSound DEF Sound, Handlers, Idle
<1>3. /\ UNCHANGED <<docs, skipped>> /\ req' = [req EXCEPT ![r] = h]
      /\ quotes[q].st = "there"
  BY DEF StartContract, Begin, Become, Quotes, There
<1> HIDE DEF h
<1>4. Ready(h, quotes)
  BY <1>2, <1>3 DEF Ready, None
<1> QED BY <1>1, <1>2, <1>3, <1>4, ArrivingStep

LEMMA AbandonInv ==
  ASSUME IInv, NEW r \in Request, Abandon(r) PROVE IInv'
BY FinishReading DEF Abandon

----------------------------------------------------------------------------
(* The checks of a handler: what they find says something of those it has known. *)

\* A handler that goes from one check to the next keeps all but where it is.
LEMMA GotoFacts ==
  ASSUME IInv, NEW r \in Request, NEW pc \in PC, Goto(r, pc)
  PROVE  \E new \in Handlers :
           /\ req' = [req EXCEPT ![r] = new]
           /\ new.pc = pc /\ new.op = req[r].op /\ new.design = req[r].design
           /\ new.quote = req[r].quote /\ new.doc = req[r].doc /\ new.known = req[r].known
           /\ new.todo = req[r].todo /\ new.found = req[r].found
<1> DEFINE h == req[r]
           new == [h EXCEPT !.pc = pc]
<1>1. h \in Handlers
  BY DEF IInv
<1>2. new \in Handlers
  BY <1>1 DEF Handlers
<1>3. /\ new.pc = pc /\ new.op = h.op /\ new.design = h.design /\ new.quote = h.quote
      /\ new.doc = h.doc /\ new.known = h.known /\ new.todo = h.todo /\ new.found = h.found
  BY <1>1 DEF Handlers
<1>4. req' = [req EXCEPT ![r] = new]
  BY DEF Goto
<1> HIDE DEF new
<1> QED BY <1>2, <1>3, <1>4

LEMMA CountQuotesInv ==
  ASSUME IInv, NEW r \in Request, CountQuotes(r) PROVE IInv'
<1> DEFINE h == req[r]
<1>1. Sound(h, proposals, contracts, quotes) /\ h.pc = "countQuotes"
  BY DEF IInv, CountQuotes, At
<1>2. CASE Goto(r, "proposalsOfDesign")
  <2>1. PICK new \in Handlers :
          /\ req' = [req EXCEPT ![r] = new]
          /\ new.pc = "proposalsOfDesign" /\ new.op = h.op /\ new.design = h.design
          /\ new.quote = h.quote /\ new.known = h.known
    BY <1>2, GotoFacts DEF PC
  <2>2. Sound(new, proposals, contracts, quotes)
    BY <1>1, <2>1 DEF Sound, KnownExist, Ready, Checked
  <2> QED BY <2>1, <2>2, ReadingStep DEF IInv, TypeOK, CountQuotes
<1> QED BY <1>2, FinishReading DEF CountQuotes

LEMMA CheckProposalsOfDesignInv ==
  ASSUME IInv, NEW r \in Request, CheckProposalsOfDesign(r) PROVE IInv'
<1> DEFINE h == req[r]
<1>1. Sound(h, proposals, contracts, quotes) /\ h.pc = "proposalsOfDesign"
  BY DEF IInv, CheckProposalsOfDesign, At
<1>2. CASE ProposalsOfDesign(h.design) = {} /\ Goto(r, "contractsOfDesign")
  <2>1. PICK new \in Handlers :
          /\ req' = [req EXCEPT ![r] = new]
          /\ new.pc = "contractsOfDesign" /\ new.op = h.op /\ new.design = h.design
          /\ new.quote = h.quote /\ new.known = h.known
    BY <1>2, GotoFacts DEF PC
  <2>2. DesignFreeOfProposals(new, proposals, h.design)
    BY <1>2 DEF DesignFreeOfProposals, ProposalsOfDesign, Proposals, There
  <2>3. Sound(new, proposals, contracts, quotes)
    BY <1>1, <2>1, <2>2 DEF Sound, KnownExist, Ready, Checked
  <2> QED BY <2>1, <2>3, ReadingStep DEF IInv, TypeOK, CheckProposalsOfDesign
<1> QED BY <1>2, FinishReading DEF CheckProposalsOfDesign

LEMMA CheckContractsOfDesignInv ==
  ASSUME IInv, NEW r \in Request, CheckContractsOfDesign(r) PROVE IInv'
<1> DEFINE h == req[r]
<1>1. Sound(h, proposals, contracts, quotes) /\ h.pc = "contractsOfDesign" /\ h \in Handlers
  BY DEF IInv, CheckContractsOfDesign, At
<1>2. ASSUME NEW new, new.known = h.known, ContractsOfDesign(h.design) = {}
      PROVE  DesignFreeOfContracts(new, contracts, quotes, h.design)
  BY <1>2 DEF IInv, DesignFreeOfContracts, ContractsHaveQuotes, ContractsOfDesign, Contracts,
              QuotesOf, Quotes, There
<1>3. ASSUME NEW new, new.known = h.known
      PROVE  DesignFreeOfProposals(new, proposals, h.design)
  BY <1>1, <1>3 DEF Sound, Checked, DesignFreeOfProposals
<1>4. CASE ContractsOfDesign(h.design) = {} /\ Goto(r, "deleteDesign")
  <2>1. PICK new \in Handlers :
          /\ req' = [req EXCEPT ![r] = new]
          /\ new.pc = "deleteDesign" /\ new.op = h.op /\ new.design = h.design
          /\ new.quote = h.quote /\ new.known = h.known
    BY <1>4, GotoFacts DEF PC
  <2>2. Sound(new, proposals, contracts, quotes)
    BY <1>1, <1>2, <1>3, <1>4, <2>1 DEF Sound, KnownExist, Ready, Checked
  <2> QED BY <2>1, <2>2, ReadingStep DEF IInv, TypeOK, CheckContractsOfDesign
<1>5. CASE /\ ContractsOfDesign(h.design) = {}
           /\ Become(r, [h EXCEPT !.pc = "outdate", !.todo = {"save", "find"}])
  <2> DEFINE new == [h EXCEPT !.pc = "outdate", !.todo = {"save", "find"}]
  <2>1. new \in Handlers
    BY <1>1 DEF Handlers, PC, Todo
  <2>2. /\ new.pc = "outdate" /\ new.op = h.op /\ new.design = h.design
        /\ new.quote = h.quote /\ new.known = h.known /\ new.todo = {"save", "find"}
    BY <1>1 DEF Handlers
  <2>3. req' = [req EXCEPT ![r] = new]
    BY <1>5 DEF Become
  <2> HIDE DEF new
  <2>4. Sound(new, proposals, contracts, quotes)
    BY <1>1, <1>2, <1>3, <1>5, <2>1, <2>2 DEF Sound, KnownExist, Ready, Checked
  <2> QED BY <2>3, <2>4, ReadingStep DEF IInv, TypeOK, CheckContractsOfDesign
<1> QED BY <1>4, <1>5, FinishReading DEF CheckContractsOfDesign

LEMMA FindOutdatedInv ==
  ASSUME IInv, NEW r \in Request, FindOutdated(r) PROVE IInv'
<1> DEFINE h == req[r]
           scope == IF h.op = "usage" THEN Quotes ELSE QuotesOf(h.design)
           new == [h EXCEPT !.todo = (@ \ {"find"}) \cup {"mark"}, !.found = Unused(scope)]
<1>1. Sound(h, proposals, contracts, quotes) /\ h.pc = "outdate" /\ h \in Handlers
  BY DEF IInv, FindOutdated, At
<1>2. scope \subseteq Quote
  BY DEF Quotes, QuotesOf
<1>3. req' = [req EXCEPT ![r] = new] /\ skipped' = skipped \cup (scope \ Unused(scope))
  BY DEF FindOutdated, Become
<1> HIDE DEF scope
<1>4. new \in Handlers
  BY <1>1, <1>2 DEF Handlers, Todo, Unused
<1>5. /\ new.pc = "outdate" /\ new.op = h.op /\ new.design = h.design /\ new.quote = h.quote
      /\ new.known = h.known /\ new.found = Unused(scope)
      /\ "save" \in new.todo => "save" \in h.todo
  BY <1>1 DEF Handlers
<1> HIDE DEF new
<1>6. \A q \in new.found : FreeOfProposals(new, proposals, q) /\ FreeOfContracts(new, contracts, q)
  BY <1>5 DEF Unused, FreeOfProposals, FreeOfContracts, ProposalsOfQuote, Proposals,
              Contracts, There
<1>7. "save" \in new.todo => /\ DesignFreeOfProposals(new, proposals, new.design)
                             /\ DesignFreeOfContracts(new, contracts, quotes, new.design)
  BY <1>1, <1>5 DEF Sound, Checked, DesignFreeOfProposals, DesignFreeOfContracts
<1>8. Sound(new, proposals, contracts, quotes)
  BY <1>1, <1>4, <1>5, <1>6, <1>7 DEF Sound, KnownExist, Ready, Checked
<1> QED BY <1>2, <1>3, <1>8, ReadingStep DEF IInv, TypeOK, FindOutdated

LEMMA CheckSentInv ==
  ASSUME IInv, NEW r \in Request, CheckSent(r) PROVE IInv'
<1> DEFINE h == req[r]
<1>1. Sound(h, proposals, contracts, quotes) /\ h.pc = "checkSent"
  BY DEF IInv, CheckSent, At
<1>2. CASE Goto(r, "archiveDesign")
  <2>1. PICK new \in Handlers :
          /\ req' = [req EXCEPT ![r] = new]
          /\ new.pc = "archiveDesign" /\ new.op = h.op /\ new.design = h.design
          /\ new.quote = h.quote /\ new.known = h.known
    BY <1>2, GotoFacts DEF PC
  <2>2. Sound(new, proposals, contracts, quotes)
    BY <1>1, <2>1 DEF Sound, KnownExist, Ready, Checked
  <2> QED BY <2>1, <2>2, ReadingStep DEF IInv, TypeOK, CheckSent
<1> QED BY <1>2, FinishReading DEF CheckSent

LEMMA ArchiveDesignInv ==
  ASSUME IInv, NEW r \in Request, ArchiveDesign(r) PROVE IInv'
<1> DEFINE h == req[r]
<1>1. Sound(h, proposals, contracts, quotes) /\ h.pc = "archiveDesign"
  BY DEF IInv, ArchiveDesign, At
<1>2. CASE Goto(r, "findQuotes")
  <2>1. PICK new \in Handlers :
          /\ req' = [req EXCEPT ![r] = new]
          /\ new.pc = "findQuotes" /\ new.op = h.op /\ new.design = h.design
          /\ new.quote = h.quote /\ new.known = h.known
    BY <1>2, GotoFacts DEF PC
  <2>2. Sound(new, proposals, contracts, quotes)
    BY <1>1, <2>1 DEF Sound, KnownExist, Ready, Checked
  <2> QED BY <2>1, <2>2, ReadingStep DEF IInv, TypeOK, ArchiveDesign
<1> QED BY <1>2, FinishReading DEF ArchiveDesign

LEMMA FindQuotesInv ==
  ASSUME IInv, NEW r \in Request, FindQuotes(r) PROVE IInv'
<1> DEFINE h == req[r]
           active == {q \in QuotesOf(h.design) : ~quotes[q].isArchived}
           asked == {<<"proposals", q>> : q \in active}
           new == [h EXCEPT !.pc = "checkQuotes", !.found = active, !.todo = asked]
<1>1. Sound(h, proposals, contracts, quotes) /\ h \in Handlers
  BY DEF IInv
<1>2. active \subseteq Quote
  BY DEF QuotesOf, Quotes
<1>3. req' = [req EXCEPT ![r] = new]
  BY DEF FindQuotes, Become
<1>4. asked \subseteq Todo /\ \A q \in active : <<"proposals", q>> \in asked
  BY <1>2 DEF Todo
<1> HIDE DEF active, asked
<1>5. new \in Handlers
  BY <1>1, <1>2, <1>4 DEF Handlers, PC
<1>6. /\ new.pc = "checkQuotes" /\ new.op = h.op /\ new.design = h.design
      /\ new.quote = h.quote /\ new.known = h.known /\ new.found = active /\ new.todo = asked
  BY <1>1 DEF Handlers
<1> HIDE DEF new
<1>7. Sound(new, proposals, contracts, quotes)
  BY <1>1, <1>4, <1>5, <1>6 DEF Sound, KnownExist, Ready, Checked
<1> QED BY <1>3, <1>7, ReadingStep DEF IInv, TypeOK, FindQuotes

LEMMA CheckQuoteProposalsInv ==
  ASSUME IInv, NEW r \in Request, NEW q \in Quote, CheckQuoteProposals(r, q) PROVE IInv'
<1> DEFINE h == req[r]
           rest == h.todo \ {<<"proposals", q>>}
<1>1. Sound(h, proposals, contracts, quotes) /\ h.pc = "checkQuotes" /\ h \in Handlers
  BY DEF IInv, CheckQuoteProposals, At
<1>2. \A new : new.known = h.known =>
        \A x : /\ FreeOfProposals(h, proposals, x) => FreeOfProposals(new, proposals, x)
               /\ FreeOfContracts(h, contracts, x) => FreeOfContracts(new, contracts, x)
  BY DEF FreeOfProposals, FreeOfContracts
<1>3. CASE Become(r, [h EXCEPT !.todo = rest, !.found = @ \ {q}])
  <2> DEFINE new == [h EXCEPT !.todo = rest, !.found = @ \ {q}]
  <2>1. new \in Handlers
    BY <1>1 DEF Handlers
  <2>2. /\ new.pc = "checkQuotes" /\ new.op = h.op /\ new.design = h.design
        /\ new.quote = h.quote /\ new.known = h.known /\ new.found = h.found \ {q}
        /\ new.todo = rest
    BY <1>1 DEF Handlers
  <2>3. req' = [req EXCEPT ![r] = new]
    BY <1>3 DEF Become
  <2> HIDE DEF new
  <2>4. Sound(new, proposals, contracts, quotes)
    BY <1>1, <1>2, <2>1, <2>2 DEF Sound, KnownExist, Ready, Checked
  <2> QED BY <2>3, <2>4, ReadingStep DEF IInv, TypeOK, CheckQuoteProposals
<1>4. CASE ProposalsOfQuote(q) = {} /\ Become(r, [h EXCEPT !.todo = rest \cup {<<"contracts", q>>}])
  <2> DEFINE new == [h EXCEPT !.todo = rest \cup {<<"contracts", q>>}]
  <2>1. new \in Handlers
    BY <1>1 DEF Handlers, Todo
  <2>2. /\ new.pc = "checkQuotes" /\ new.op = h.op /\ new.design = h.design
        /\ new.quote = h.quote /\ new.known = h.known /\ new.found = h.found
        /\ new.todo = rest \cup {<<"contracts", q>>}
    BY <1>1 DEF Handlers
  <2>3. req' = [req EXCEPT ![r] = new]
    BY <1>4 DEF Become
  <2> HIDE DEF new
  <2>4. FreeOfProposals(new, proposals, q)
    BY <1>4 DEF FreeOfProposals, ProposalsOfQuote, Proposals, There
  <2>5. Sound(new, proposals, contracts, quotes)
    BY <1>1, <1>2, <2>1, <2>2, <2>4 DEF Sound, KnownExist, Ready, Checked
  <2> QED BY <2>3, <2>5, ReadingStep DEF IInv, TypeOK, CheckQuoteProposals
<1> QED BY <1>3, <1>4 DEF CheckQuoteProposals

LEMMA CheckQuoteContractsInv ==
  ASSUME IInv, NEW r \in Request, NEW q \in Quote, CheckQuoteContracts(r, q) PROVE IInv'
<1> DEFINE h == req[r]
           rest == h.todo \ {<<"contracts", q>>}
           kept == IF LiveContractsOfQuote(q) # {} THEN h.found \ {q} ELSE h.found
           new == [h EXCEPT !.todo = rest, !.found = kept]
<1>1. Sound(h, proposals, contracts, quotes) /\ h.pc = "checkQuotes" /\ h \in Handlers
  BY DEF IInv, CheckQuoteContracts, At
<1>2. kept \subseteq h.found /\ (q \in kept => LiveContractsOfQuote(q) = {})
  OBVIOUS
<1>3. req' = [req EXCEPT ![r] = new]
  BY DEF CheckQuoteContracts, Become
<1> HIDE DEF kept
<1>4. new \in Handlers
  BY <1>1, <1>2 DEF Handlers
<1>5. /\ new.pc = "checkQuotes" /\ new.op = h.op /\ new.design = h.design
      /\ new.quote = h.quote /\ new.known = h.known /\ new.found = kept /\ new.todo = rest
  BY <1>1 DEF Handlers
<1> HIDE DEF new
<1>6. \A x : /\ FreeOfProposals(h, proposals, x) => FreeOfProposals(new, proposals, x)
             /\ FreeOfContracts(h, contracts, x) => FreeOfContracts(new, contracts, x)
  BY <1>5 DEF FreeOfProposals, FreeOfContracts
<1>7. q \in kept => FreeOfContracts(new, contracts, q)
  BY <1>2 DEF FreeOfContracts, LiveContractsOfQuote, Live
<1>8. Sound(new, proposals, contracts, quotes)
  BY <1>1, <1>2, <1>4, <1>5, <1>6, <1>7 DEF Sound, KnownExist, Ready, Checked
<1> QED BY <1>3, <1>8, ReadingStep DEF IInv, TypeOK, CheckQuoteContracts

LEMMA CheckProposalsOfQuoteInv ==
  ASSUME IInv, NEW r \in Request, CheckProposalsOfQuote(r) PROVE IInv'
<1> DEFINE h == req[r]
<1>1. Sound(h, proposals, contracts, quotes) /\ h.pc = "proposalsOfQuote"
  BY DEF IInv, CheckProposalsOfQuote, At
<1>2. CASE ProposalsOfQuote(h.quote) = {} /\ Goto(r, "contractsOfQuote")
  <2>1. PICK new \in Handlers :
          /\ req' = [req EXCEPT ![r] = new]
          /\ new.pc = "contractsOfQuote" /\ new.op = h.op /\ new.design = h.design
          /\ new.quote = h.quote /\ new.known = h.known
    BY <1>2, GotoFacts DEF PC
  <2>2. FreeOfProposals(new, proposals, h.quote)
    BY <1>2 DEF FreeOfProposals, ProposalsOfQuote, Proposals, There
  <2>3. Sound(new, proposals, contracts, quotes)
    BY <1>1, <2>1, <2>2 DEF Sound, KnownExist, Ready, Checked
  <2> QED BY <2>1, <2>3, ReadingStep DEF IInv, TypeOK, CheckProposalsOfQuote
<1> QED BY <1>2, FinishReading DEF CheckProposalsOfQuote

LEMMA CheckContractsOfQuoteInv ==
  ASSUME IInv, NEW r \in Request, CheckContractsOfQuote(r) PROVE IInv'
<1> DEFINE h == req[r]
           next == IF h.op = "deleteQuote" THEN "deleteQuote" ELSE "readDesign"
<1>1. Sound(h, proposals, contracts, quotes) /\ h.pc = "contractsOfQuote"
  BY DEF IInv, CheckContractsOfQuote, At
<1>2. CASE LiveContractsOfQuote(h.quote) = {} /\ Goto(r, next)
  <2>1. PICK new \in Handlers :
          /\ req' = [req EXCEPT ![r] = new]
          /\ new.pc = next /\ new.op = h.op /\ new.design = h.design
          /\ new.quote = h.quote /\ new.known = h.known
    BY <1>2, GotoFacts DEF PC
  <2>2. FreeOfContracts(new, contracts, h.quote)
    BY <1>2 DEF FreeOfContracts, LiveContractsOfQuote, Live
  <2>3. FreeOfProposals(new, proposals, h.quote)
    BY <1>1, <2>1 DEF Sound, Checked, FreeOfProposals
  <2>4. Sound(new, proposals, contracts, quotes)
    BY <1>1, <2>1, <2>2, <2>3 DEF Sound, KnownExist, Ready, Checked
  <2> QED BY <2>1, <2>4, ReadingStep DEF IInv, TypeOK, CheckContractsOfQuote
<1> QED BY <1>2, FinishReading DEF CheckContractsOfQuote

LEMMA ReadDesignInv ==
  ASSUME IInv, NEW r \in Request, ReadDesign(r) PROVE IInv'
<1> DEFINE h == req[r]
           pc == IF h.op = "requote" THEN "insertQuote" ELSE "writeQuote"
           b == IF h.op = "update" THEN h.basis
                ELSE [design |-> designs[h.design].version, usage |-> usage]
           new == [h EXCEPT !.pc = pc, !.basis = b]
<1>1. Sound(h, proposals, contracts, quotes) /\ h.pc = "readDesign" /\ h \in Handlers
  BY DEF IInv, ReadDesign, At
<1>2. CASE h.design \in Designs /\ Become(r, new)
  <2>1. h.design \in Design
    BY <1>2 DEF Designs
  <2>2. b \in Basis
    BY <1>1, <2>1 DEF IInv, TypeOK, Basis, Handlers
  <2>3. req' = [req EXCEPT ![r] = new]
    BY <1>2 DEF Become
  <2> HIDE DEF b
  <2>4. new \in Handlers
    BY <1>1, <2>2 DEF Handlers, PC
  <2>5. /\ new.pc = pc /\ new.op = h.op /\ new.design = h.design
        /\ new.quote = h.quote /\ new.known = h.known
    BY <1>1 DEF Handlers
  <2> HIDE DEF new
  <2>6. \A x : /\ FreeOfProposals(h, proposals, x) => FreeOfProposals(new, proposals, x)
               /\ FreeOfContracts(h, contracts, x) => FreeOfContracts(new, contracts, x)
    BY <2>5 DEF FreeOfProposals, FreeOfContracts
  <2>7. Sound(new, proposals, contracts, quotes)
    BY <1>1, <2>1, <2>4, <2>5, <2>6 DEF Sound, KnownExist, Ready, Checked
  <2> QED BY <2>3, <2>7, ReadingStep DEF IInv, TypeOK, ReadDesign
<1> QED BY <1>2, FinishReading DEF ReadDesign

----------------------------------------------------------------------------
(* The writes to usage and designs: proposals, contracts and quotes stay. *)

LEMMA DesignStep ==
  ASSUME IInv, usage' \in Version, designs' \in [Design -> [st : St, version : Version]],
         UNCHANGED <<quotes, proposals, contracts, skipped>>,
         NEW r \in Request, NEW h, req' = [req EXCEPT ![r] = h],
         Sound(h, proposals, contracts, quotes)
  PROVE  IInv'
<1>1. TypeOK'
  BY DEF IInv, TypeOK, Quotes, Proposals, Contracts, There, Basis
<1>2. Evolve(proposals, contracts, quotes, proposals', contracts', quotes')
  BY DEF Evolve
<1>3. ContractsHaveQuotes(contracts', quotes') /\ Sound(h, proposals', contracts', quotes')
  BY DEF IInv
<1> QED BY <1>1, <1>2, <1>3, HandlerStep

LEMMA UpdateUsageInv ==
  ASSUME IInv, NEW r \in Request, UpdateUsage(r) PROVE IInv'
<1> DEFINE h == [Idle EXCEPT !.pc = "outdate", !.op = "usage", !.todo = {"find"},
                             !.known = Proposals \cup Contracts]
<1>1. h \in Handlers
  BY IdleSound DEF Sound, Handlers, PC, Op, Todo, Proposals, Contracts
<1>2. /\ h.pc = "outdate" /\ h.op = "usage" /\ h.todo = {"find"}
      /\ h.known = Proposals \cup Contracts
  BY IdleSound DEF Sound, Handlers
<1>3. req' = [req EXCEPT ![r] = h]
  BY IdleSound DEF UpdateUsage, BeginChange, Begin, Become, Sound, Handlers
<1> HIDE DEF h
<1>4. KnownExist(h, proposals, contracts)
  BY <1>2, QuoteUseAssumption DEF KnownExist, Proposals, Contracts, There
<1>5. Sound(h, proposals, contracts, quotes)
  BY <1>1, <1>2, <1>4 DEF Sound, Ready, Checked
<1>6. usage' \in Version
  <2>1. PICK d \in Design : usage + designs[d].version < MaxChanges
    BY QuoteUseAssumption DEF UpdateUsage, Changeable
  <2>2. usage \in Version /\ designs[d].version \in Version
    BY DEF IInv, TypeOK
  <2> QED BY <2>1, <2>2, QuoteUseAssumption DEF UpdateUsage, Version
<1> QED BY <1>3, <1>5, <1>6, DesignStep DEF UpdateUsage, IInv, TypeOK

LEMMA CreateDesignInv ==
  ASSUME IInv, NEW r \in Request, NEW d \in Design, CreateDesign(r, d) PROVE IInv'
<1>1. designs' \in [Design -> [st : St, version : Version]]
  BY DEF IInv, TypeOK, CreateDesign, St
<1>2. req' = [req EXCEPT ![r] = req[r]] /\ Sound(req[r], proposals, contracts, quotes)
  BY DEF IInv, CreateDesign
<1> QED BY <1>1, <1>2, DesignStep DEF CreateDesign, IInv, TypeOK

\* A handler that has done one thing of its Promise.all goes on with the others.
LEMMA DoneFacts ==
  ASSUME IInv, NEW r \in Request, req[r].pc = "outdate", NEW x,
         Done(r, [req[r] EXCEPT !.todo = @ \ {x}])
  PROVE  \E new : /\ req' = [req EXCEPT ![r] = new]
                  /\ Sound(new, proposals, contracts, quotes)
<1> DEFINE h == req[r]
           rec == [h EXCEPT !.todo = @ \ {x}]
<1>1. Sound(h, proposals, contracts, quotes) /\ h \in Handlers
  BY DEF IInv
<1>2. rec \in Handlers
  BY <1>1 DEF Handlers
<1>3. /\ rec.pc = "outdate" /\ rec.op = h.op /\ rec.design = h.design /\ rec.quote = h.quote
      /\ rec.known = h.known /\ rec.found = h.found /\ rec.todo \subseteq h.todo
  BY <1>1 DEF Handlers
<1>4. req' = [req EXCEPT ![r] = IF rec.todo = {} THEN Idle ELSE rec]
  BY DEF Done, Become
<1> HIDE DEF rec
<1>5. \A y : /\ FreeOfProposals(h, proposals, y) => FreeOfProposals(rec, proposals, y)
             /\ FreeOfContracts(h, contracts, y) => FreeOfContracts(rec, contracts, y)
             /\ DesignFreeOfProposals(h, proposals, y) => DesignFreeOfProposals(rec, proposals, y)
             /\ DesignFreeOfContracts(h, contracts, quotes, y)
                  => DesignFreeOfContracts(rec, contracts, quotes, y)
  BY <1>3 DEF FreeOfProposals, FreeOfContracts, DesignFreeOfProposals, DesignFreeOfContracts
<1>6. Sound(rec, proposals, contracts, quotes)
  BY <1>1, <1>2, <1>3, <1>5 DEF Sound, KnownExist, Ready, Checked
<1> QED BY <1>4, <1>6, IdleSound

LEMMA SaveDesignInv ==
  ASSUME IInv, NEW r \in Request, SaveDesign(r) PROVE IInv'
<1>1. PICK new : /\ req' = [req EXCEPT ![r] = new]
                 /\ Sound(new, proposals, contracts, quotes)
  BY DoneFacts DEF SaveDesign, At
<1>2. designs' \in [Design -> [st : St, version : Version]]
  <2> DEFINE d == req[r].design
  <2>1. CASE /\ d \in Designs /\ Changeable(d)
             /\ designs' = [designs EXCEPT ![d].version = @ + 1]
    <3>1. d \in Design /\ usage + designs[d].version < MaxChanges
      BY <2>1 DEF Designs, Changeable
    <3>2. usage \in Version /\ designs[d].version \in Version
      BY <3>1 DEF IInv, TypeOK
    <3>3. designs[d].version + 1 \in Version
      BY <3>1, <3>2, QuoteUseAssumption DEF Version
    <3> QED BY <2>1, <3>1, <3>3 DEF IInv, TypeOK
  <2>2. CASE UNCHANGED designs
    BY <2>2 DEF IInv, TypeOK
  <2> QED BY <2>1, <2>2 DEF SaveDesign
<1> QED BY <1>1, <1>2, DesignStep DEF SaveDesign, IInv, TypeOK

LEMMA DeleteDesignInv ==
  ASSUME IInv, NEW r \in Request, DeleteDesign(r) PROVE IInv'
<1>1. 0 \in Version
  BY QuoteUseAssumption DEF Version
<1>2. designs' \in [Design -> [st : St, version : Version]]
  BY <1>1 DEF IInv, TypeOK, DeleteDesign, NoDesign, St
<1> QED BY <1>2, IdleSound, DesignStep DEF DeleteDesign, Finish, Become, IInv, TypeOK

----------------------------------------------------------------------------
(* The writes to quotes. *)

LEMMA QuoteStep ==
  ASSUME IInv, UNCHANGED <<usage, designs, proposals, contracts>>, skipped' \subseteq Quote,
         quotes' \in [Quote -> [st : St, design : Design \cup {None}, basis : Basis,
                                isSync : BOOLEAN, isArchived : BOOLEAN]],
         \A q \in Quote : quotes'[q].st = "there" => quotes'[q].design \in Design,
         \A q \in Quote : quotes[q].st # "free" =>
           /\ quotes'[q].st # "free"
           /\ quotes'[q].st = "there" =>
                quotes[q].st = "there" /\ quotes'[q].design = quotes[q].design,
         NEW r \in Request, NEW h, req' = [req EXCEPT ![r] = h],
         Sound(h, proposals, contracts, quotes)
  PROVE  IInv'
<1>1. TypeOK'
  BY DEF IInv, TypeOK, Quotes, Proposals, Contracts, There
<1>2. Evolve(proposals, contracts, quotes, proposals', contracts', quotes')
  BY DEF Evolve
<1>3. ContractsHaveQuotes(contracts', quotes')
  BY DEF IInv, ContractsHaveQuotes
<1>4. Sound(h, proposals', contracts', quotes')
  BY <1>2, SoundStays DEF IInv
<1> QED BY <1>1, <1>2, <1>3, <1>4, HandlerStep

LEMMA MarkOutdatedInv ==
  ASSUME IInv, NEW r \in Request, MarkOutdated(r) PROVE IInv'
<1>1. PICK new : /\ req' = [req EXCEPT ![r] = new]
                 /\ Sound(new, proposals, contracts, quotes)
  BY DoneFacts DEF MarkOutdated, At
<1>2. \A q \in Quote : /\ quotes'[q] \in [st : St, design : Design \cup {None}, basis : Basis,
                                          isSync : BOOLEAN, isArchived : BOOLEAN]
                       /\ quotes'[q].st = quotes[q].st /\ quotes'[q].design = quotes[q].design
  <2> SUFFICES ASSUME NEW q \in Quote
               PROVE  /\ quotes'[q] \in [st : St, design : Design \cup {None}, basis : Basis,
                                         isSync : BOOLEAN, isArchived : BOOLEAN]
                      /\ quotes'[q].st = quotes[q].st /\ quotes'[q].design = quotes[q].design
    OBVIOUS
  <2>1. quotes[q] \in [st : St, design : Design \cup {None}, basis : Basis,
                       isSync : BOOLEAN, isArchived : BOOLEAN]
    BY DEF IInv, TypeOK
  <2>2. quotes'[q] = quotes[q] \/ quotes'[q] = [quotes[q] EXCEPT !.isSync = FALSE]
    BY DEF MarkOutdated
  <2> QED BY <2>1, <2>2
<1>3. quotes' \in [Quote -> [st : St, design : Design \cup {None}, basis : Basis,
                             isSync : BOOLEAN, isArchived : BOOLEAN]]
  BY <1>2 DEF MarkOutdated
<1> QED BY <1>1, <1>2, <1>3, QuoteStep DEF MarkOutdated, IInv, TypeOK, Quotes, There

LEMMA ArchiveQuotesInv ==
  ASSUME IInv, NEW r \in Request, ArchiveQuotes(r) PROVE IInv'
<1>1. \A q \in Quote : /\ quotes'[q] \in [st : St, design : Design \cup {None}, basis : Basis,
                                          isSync : BOOLEAN, isArchived : BOOLEAN]
                       /\ quotes'[q].st = quotes[q].st /\ quotes'[q].design = quotes[q].design
  <2> SUFFICES ASSUME NEW q \in Quote
               PROVE  /\ quotes'[q] \in [st : St, design : Design \cup {None}, basis : Basis,
                                         isSync : BOOLEAN, isArchived : BOOLEAN]
                      /\ quotes'[q].st = quotes[q].st /\ quotes'[q].design = quotes[q].design
    OBVIOUS
  <2>1. quotes[q] \in [st : St, design : Design \cup {None}, basis : Basis,
                       isSync : BOOLEAN, isArchived : BOOLEAN]
    BY DEF IInv, TypeOK
  <2>2. quotes'[q] = quotes[q] \/ quotes'[q] = [quotes[q] EXCEPT !.isArchived = TRUE]
    BY DEF ArchiveQuotes
  <2> QED BY <2>1, <2>2
<1>2. quotes' \in [Quote -> [st : St, design : Design \cup {None}, basis : Basis,
                             isSync : BOOLEAN, isArchived : BOOLEAN]]
  BY <1>1 DEF ArchiveQuotes
<1> QED
  BY <1>1, <1>2, IdleSound, QuoteStep
  DEF ArchiveQuotes, Finish, Become, IInv, TypeOK, Quotes, There

\* One quote is written.
LEMMA OneQuoteStep ==
  ASSUME IInv, UNCHANGED <<usage, designs, proposals, contracts>>, skipped' \subseteq Quote,
         NEW q \in Quote,
         NEW new \in [st : St, design : Design \cup {None}, basis : Basis,
                      isSync : BOOLEAN, isArchived : BOOLEAN],
         quotes' = [quotes EXCEPT ![q] = new],
         new.st = "there" => new.design \in Design,
         \/ new.st = "gone"
         \/ quotes[q].st = "free"
         \/ quotes[q].st = "there" /\ new.st = "there" /\ new.design = quotes[q].design,
         NEW r \in Request, Finish(r)
  PROVE  IInv'
<1>1. quotes' \in [Quote -> [st : St, design : Design \cup {None}, basis : Basis,
                             isSync : BOOLEAN, isArchived : BOOLEAN]]
  BY DEF IInv, TypeOK
<1>2. quotes'[q] = new /\ \A x \in Quote \ {q} : quotes'[x] = quotes[x]
  BY DEF IInv, TypeOK
<1> QED
  BY <1>1, <1>2, IdleSound, QuoteStep DEF Finish, Become, IInv, TypeOK, Quotes, There

LEMMA InsertQuoteInv ==
  ASSUME IInv, NEW r \in Request, NEW q \in Quote, InsertQuote(r, q) PROVE IInv'
<1> DEFINE h == req[r]
           new == [st |-> "there", design |-> h.design, basis |-> h.basis,
                   isSync |-> h.isSync, isArchived |-> h.isArchived]
<1>1. Sound(h, proposals, contracts, quotes) /\ h.pc = "insertQuote" /\ h \in Handlers
  BY DEF IInv, InsertQuote, At
<1>2. h.design \in Design
  BY <1>1 DEF Sound, Ready
<1>3. new \in [st : St, design : Design \cup {None}, basis : Basis,
               isSync : BOOLEAN, isArchived : BOOLEAN]
  BY <1>1 DEF Handlers, St
<1> QED BY <1>2, <1>3, OneQuoteStep DEF InsertQuote, IInv, TypeOK

LEMMA WriteQuoteInv ==
  ASSUME IInv, NEW r \in Request, WriteQuote(r) PROVE IInv'
<1> DEFINE h == req[r]
           q == h.quote
<1>1. Sound(h, proposals, contracts, quotes) /\ h.pc = "writeQuote" /\ h \in Handlers
  BY DEF IInv, WriteQuote, At
<1>2. /\ h.design \in Design /\ q \in Quote
      /\ quotes[q].st = "there" => quotes[q].design = h.design
  BY <1>1 DEF Sound, Ready
<1>3. PICK archived \in BOOLEAN :
        quotes' = [quotes EXCEPT ![q] =
          IF q \in Quotes
          THEN [st |-> "there", design |-> h.design, basis |-> h.basis,
                isSync |-> h.op = "latest" \/ h.isSync, isArchived |-> archived]
          ELSE quotes[q]]
  BY DEF WriteQuote
<1>4. skipped' \subseteq Quote
  BY DEF IInv, TypeOK, WriteQuote
<1>5. CASE q \in Quotes
  <2> DEFINE sync == h.op = "latest" \/ h.isSync
             new == [st |-> "there", design |-> h.design, basis |-> h.basis,
                     isSync |-> sync, isArchived |-> archived]
  <2>1. sync \in BOOLEAN
    OBVIOUS
  <2>2. quotes' = [quotes EXCEPT ![q] = new]
    BY <1>3, <1>5
  <2> HIDE DEF sync
  <2>3. new \in [st : St, design : Design \cup {None}, basis : Basis,
                 isSync : BOOLEAN, isArchived : BOOLEAN]
    BY <1>1, <2>1 DEF Handlers, St
  <2> QED BY <1>2, <1>4, <1>5, <2>2, <2>3, OneQuoteStep DEF WriteQuote, Quotes, There
<1>6. CASE q \notin Quotes
  <2>1. quotes' = quotes
    BY <1>3, <1>6 DEF IInv, TypeOK
  <2> QED BY <1>4, <2>1, IdleSound, ReadingStep DEF WriteQuote, Finish, Become, docs
<1> QED BY <1>5, <1>6

LEMMA DeleteQuoteInv ==
  ASSUME IInv, NEW r \in Request, DeleteQuote(r) PROVE IInv'
<1> DEFINE q == req[r].quote
           new == [NoQuote EXCEPT !.st = "gone"]
<1>1. q \in Quote
  BY DEF IInv, DeleteQuote, At, Sound, Ready
<1>2. NoBasis \in Basis
  BY QuoteUseAssumption DEF NoBasis, Basis, Version
<1>3. /\ new \in [st : St, design : Design \cup {None}, basis : Basis,
                  isSync : BOOLEAN, isArchived : BOOLEAN]
      /\ new.st = "gone"
  BY <1>2 DEF NoQuote, St
<1> QED BY <1>1, <1>3, OneQuoteStep DEF DeleteQuote, IInv, TypeOK

----------------------------------------------------------------------------
(* The writes to proposals and contracts. *)

LEMMA ProposalStep ==
  ASSUME IInv, UNCHANGED <<usage, designs, quotes, contracts, skipped>>,
         NEW p \in Proposal,
         NEW new \in [st : St, quote : Quote \cup {None}, design : Design \cup {None},
                      full : BOOLEAN, shows : Basis, sent : BOOLEAN],
         proposals' = [proposals EXCEPT ![p] = new],
         new.st = "there" => new.quote \in Quote /\ new.design \in Design,
         \/ new.st = "gone"
         \/ proposals[p].st = "free"
         \/ /\ new.st = proposals[p].st
            /\ new.quote = proposals[p].quote /\ new.design = proposals[p].design,
         NEW r \in Request, NEW h, req' = [req EXCEPT ![r] = h],
         Sound(h, proposals, contracts, quotes)
  PROVE  IInv'
<1>1. proposals'[p] = new /\ \A x \in Proposal \ {p} : proposals'[x] = proposals[x]
  BY DEF IInv, TypeOK
<1>2. proposals' \in [Proposal -> [st : St, quote : Quote \cup {None},
                        design : Design \cup {None}, full : BOOLEAN, shows : Basis, sent : BOOLEAN]]
  BY DEF IInv, TypeOK
<1>3. \A x \in Proposal : proposals'[x].st = "there" =>
        proposals'[x].quote \in Quote /\ proposals'[x].design \in Design
  BY <1>1 DEF IInv, TypeOK, Proposals, There
<1>4. TypeOK'
  BY <1>2, <1>3 DEF IInv, TypeOK, Quotes, Proposals, Contracts, There
<1>5. Evolve(proposals, contracts, quotes, proposals', contracts', quotes')
  BY <1>1 DEF Evolve
<1>6. ContractsHaveQuotes(contracts', quotes') /\ Sound(h, proposals', contracts', quotes')
  BY <1>5, SoundStays DEF IInv
<1> QED BY <1>4, <1>5, <1>6, HandlerStep

LEMMA InsertProposalInv ==
  ASSUME IInv, NEW r \in Request, NEW p \in Proposal, InsertProposal(r, p) PROVE IInv'
<1> DEFINE h == req[r]
           new == [st |-> "there", quote |-> h.quote, design |-> h.design,
                   full |-> h.found # {}, shows |-> h.basis, sent |-> FALSE]
<1>1. Sound(h, proposals, contracts, quotes) /\ h.pc = "insertProposal" /\ h \in Handlers
  BY DEF IInv, InsertProposal, At
<1>2. h.quote \in Quote /\ h.design \in Design
  BY <1>1 DEF Sound, Ready
<1>3. new \in [st : St, quote : Quote \cup {None}, design : Design \cup {None},
               full : BOOLEAN, shows : Basis, sent : BOOLEAN]
  BY <1>1 DEF Handlers, St
<1> QED BY <1>2, <1>3, IdleSound, ProposalStep DEF InsertProposal, Finish, Become

LEMMA TrackSentInv ==
  ASSUME IInv, NEW r \in Request, TrackSent(r) PROVE IInv'
<1> DEFINE p == req[r].doc
           sent == proposals[p].sent \/ p \in Proposals
           new == [proposals[p] EXCEPT !.sent = sent]
<1>1. p \in Proposal
  BY DEF IInv, TrackSent, At, Sound, Ready
<1>2. proposals' = [proposals EXCEPT ![p] = new]
  BY <1>1 DEF TrackSent, IInv, TypeOK
<1>3. sent \in BOOLEAN
  BY <1>1 DEF IInv, TypeOK
<1> HIDE DEF sent
<1>4. new \in [st : St, quote : Quote \cup {None}, design : Design \cup {None},
               full : BOOLEAN, shows : Basis, sent : BOOLEAN]
  <2>1. proposals[p] \in [st : St, quote : Quote \cup {None}, design : Design \cup {None},
                          full : BOOLEAN, shows : Basis, sent : BOOLEAN]
    BY <1>1 DEF IInv, TypeOK
  <2> QED BY <1>3, <2>1, Zenon
<1>5. /\ new.st = proposals[p].st /\ new.quote = proposals[p].quote
      /\ new.design = proposals[p].design
  BY <1>1 DEF IInv, TypeOK
<1>6. new.st = "there" => new.quote \in Quote /\ new.design \in Design
  BY <1>1, <1>5 DEF IInv, TypeOK, Proposals, There
<1> HIDE DEF new, p
<1> QED
  BY <1>1, <1>2, <1>4, <1>5, <1>6, IdleSound, ProposalStep DEF TrackSent, Finish, Become

LEMMA DeleteProposalInv ==
  ASSUME IInv, NEW r \in Request, NEW p \in Proposal, DeleteProposal(r, p) PROVE IInv'
<1> DEFINE new == [NoProposal EXCEPT !.st = "gone"]
<1>1. NoBasis \in Basis
  BY QuoteUseAssumption DEF NoBasis, Basis, Version
<1>2. /\ new \in [st : St, quote : Quote \cup {None}, design : Design \cup {None},
                  full : BOOLEAN, shows : Basis, sent : BOOLEAN]
      /\ new.st = "gone"
  BY <1>1 DEF NoProposal, St
<1>3. req' = [req EXCEPT ![r] = req[r]] /\ Sound(req[r], proposals, contracts, quotes)
  BY DEF IInv, DeleteProposal
<1> HIDE DEF new
<1>4. proposals' = [proposals EXCEPT ![p] = new]
  BY DEF DeleteProposal, new
<1> QED BY <1>2, <1>3, <1>4, ProposalStep DEF DeleteProposal

\* A contract is written; it keeps its quote.
LEMMA ContractStep ==
  ASSUME IInv, UNCHANGED <<usage, designs, quotes, proposals, skipped>>,
         NEW c \in Contract,
         NEW new \in [st : {"there", "voided"}, quote : Quote],
         contracts' = [contracts EXCEPT ![c] = new],
         quotes[new.quote].st # "free",
         \/ contracts[c].st = "free"
         \/ new.st = "voided" /\ new.quote = contracts[c].quote
  PROVE  /\ TypeOK' /\ ContractsHaveQuotes(contracts', quotes')
         /\ Evolve(proposals, contracts, quotes, proposals', contracts', quotes')
<1>1. contracts'[c] = new /\ \A x \in Contract \ {c} : contracts'[x] = contracts[x]
  BY DEF IInv, TypeOK
<1>2. /\ contracts' \in [Contract -> [st : {"free", "there", "voided"}, quote : Quote \cup {None}]]
      /\ \A x \in Contract : contracts'[x].st # "free" => contracts'[x].quote \in Quote
  BY <1>1 DEF IInv, TypeOK, Contracts
<1>3. TypeOK'
  BY <1>2 DEF IInv, TypeOK, Quotes, Proposals, Contracts, There
<1>4. ContractsHaveQuotes(contracts', quotes')
  BY <1>1 DEF IInv, ContractsHaveQuotes
<1>5. Evolve(proposals, contracts, quotes, proposals', contracts', quotes')
  BY <1>1 DEF Evolve
<1> QED BY <1>3, <1>4, <1>5

LEMMA InsertContractInv ==
  ASSUME IInv, NEW r \in Request, NEW c \in Contract, InsertContract(r, c) PROVE IInv'
<1> DEFINE new == [st |-> "there", quote |-> req[r].quote]
<1>1. req[r].quote \in Quote /\ quotes[req[r].quote].st # "free"
  BY DEF IInv, InsertContract, At, Sound, Ready
<1>2. /\ TypeOK' /\ ContractsHaveQuotes(contracts', quotes')
      /\ Evolve(proposals, contracts, quotes, proposals', contracts', quotes')
  BY <1>1, ContractStep DEF InsertContract
<1> QED BY <1>2, IdleSound, HandlerStep DEF InsertContract, Finish, Become

LEMMA VoidContractInv ==
  ASSUME IInv, NEW c \in Contract, VoidContract(c) PROVE IInv'
<1> DEFINE new == [contracts[c] EXCEPT !.st = "voided"]
<1>1. contracts[c].quote \in Quote /\ quotes[contracts[c].quote].st # "free"
  BY DEF IInv, ContractsHaveQuotes, VoidContract, Live
<1>2. /\ new \in [st : {"there", "voided"}, quote : Quote]
      /\ new.st = "voided" /\ new.quote = contracts[c].quote
  BY <1>1 DEF IInv, TypeOK
<1>3. contracts' = [contracts EXCEPT ![c] = new]
  BY DEF VoidContract, IInv, TypeOK
<1> HIDE DEF new
<1>4. /\ TypeOK' /\ ContractsHaveQuotes(contracts', quotes')
      /\ Evolve(proposals, contracts, quotes, proposals', contracts', quotes')
  BY <1>1, <1>2, <1>3, ContractStep DEF VoidContract
<1>5. req' = req
  BY DEF VoidContract
<1> QED BY <1>4, <1>5, SoundStays DEF IInv

----------------------------------------------------------------------------
LEMMA InitInv == Init => IInv
<1> SUFFICES ASSUME Init PROVE IInv
  OBVIOUS
<1>1. NoBasis \in Basis /\ 0 \in Version
  BY QuoteUseAssumption DEF NoBasis, Basis, Version
<1>2. TypeOK
  BY <1>1 DEF Init, TypeOK, NoDesign, NoQuote, NoProposal, NoContract, St, Quotes, Proposals,
              Contracts, There
<1>3. ContractsHaveQuotes(contracts, quotes)
  BY DEF Init, ContractsHaveQuotes, NoContract
<1>4. \A r \in Request : Sound(req[r], proposals, contracts, quotes)
  BY IdleSound DEF Init
<1>5. req \in [Request -> Handlers]
  BY <1>4 DEF Init, Sound
<1> QED BY <1>2, <1>3, <1>4, <1>5 DEF IInv

LEMMA StutterInv ==
  ASSUME IInv, UNCHANGED vars PROVE IInv'
<1>1. TypeOK'
  BY DEF IInv, TypeOK, vars, docs, Quotes, Proposals, Contracts, There
<1> QED BY <1>1 DEF IInv, vars, docs

LEMMA NextInv ==
  ASSUME IInv, [Next]_vars PROVE IInv'
<1>1. ASSUME NEW r \in Request, Arrive(r) PROVE IInv'
  <2>1. CASE UpdateUsage(r)
    BY <2>1, UpdateUsageInv
  <2>2. CASE \E d \in Design :
               \/ CreateDesign(r, d) \/ StartUpdateDesign(r, d) \/ StartDeleteDesign(r, d)
               \/ StartCreateQuote(r, d) \/ StartArchiveDesign(r, d)
    BY <2>2, CreateDesignInv, StartUpdateDesignInv, StartDeleteDesignInv,
       StartCreateQuoteInv, StartArchiveDesignInv
  <2>3. CASE \E q \in Quote : StartDeleteQuote(r, q) \/ StartContract(r, q)
    BY <2>3, StartDeleteQuoteInv, StartContractInv
  <2>4. CASE \E q \in Quote, d \in Design : StartReQuote(r, q, d) \/ StartProposal(r, q, d)
    BY <2>4, StartReQuoteInv, StartProposalInv
  <2>5. CASE \E q \in Quote, op \in {"update", "latest"} : OpenQuote(r, q, op)
    BY <2>5, OpenQuoteInv
  <2>6. CASE \E p \in Proposal : StartSend(r, p) \/ DeleteProposal(r, p)
    BY <2>6, StartSendInv, DeleteProposalInv
  <2> QED BY <1>1, <2>1, <2>2, <2>3, <2>4, <2>5, <2>6 DEF Arrive
<1>2. ASSUME NEW r \in Request, Continue(r) PROVE IInv'
  <2>1. CASE CountQuotes(r) \/ CheckProposalsOfDesign(r) \/ CheckContractsOfDesign(r)
    BY <2>1, CountQuotesInv, CheckProposalsOfDesignInv, CheckContractsOfDesignInv
  <2>2. CASE SaveDesign(r) \/ FindOutdated(r) \/ MarkOutdated(r) \/ DeleteDesign(r)
    BY <2>2, SaveDesignInv, FindOutdatedInv, MarkOutdatedInv, DeleteDesignInv
  <2>3. CASE CheckSent(r) \/ ArchiveDesign(r) \/ FindQuotes(r) \/ ArchiveQuotes(r)
    BY <2>3, CheckSentInv, ArchiveDesignInv, FindQuotesInv, ArchiveQuotesInv
  <2>4. CASE CheckProposalsOfQuote(r) \/ CheckContractsOfQuote(r) \/ ReadDesign(r)
    BY <2>4, CheckProposalsOfQuoteInv, CheckContractsOfQuoteInv, ReadDesignInv
  <2>5. CASE WriteQuote(r) \/ DeleteQuote(r) \/ TrackSent(r)
    BY <2>5, WriteQuoteInv, DeleteQuoteInv, TrackSentInv
  <2>6. CASE \E q \in Quote :
               CheckQuoteProposals(r, q) \/ CheckQuoteContracts(r, q) \/ InsertQuote(r, q)
    BY <2>6, CheckQuoteProposalsInv, CheckQuoteContractsInv, InsertQuoteInv
  <2>7. CASE \E p \in Proposal : InsertProposal(r, p)
    BY <2>7, InsertProposalInv
  <2>8. CASE \E c \in Contract : InsertContract(r, c)
    BY <2>8, InsertContractInv
  <2> QED BY <1>2, <2>1, <2>2, <2>3, <2>4, <2>5, <2>6, <2>7, <2>8 DEF Continue
<1>3. CASE \E c \in Contract : VoidContract(c)
  BY <1>3, VoidContractInv
<1>4. CASE \E r \in Request : Abandon(r)
  BY <1>4, AbandonInv
<1>5. CASE UNCHANGED vars
  BY <1>5, StutterInv
<1> QED BY <1>1, <1>2, <1>3, <1>4, <1>5 DEF Next, Step

\* Whatever the handlers do and wherever they end, what each has read and checked stays true of
\* those it has known, and everything keeps its type.
THEOREM Invariance == Spec => []IInv
BY InitInv, NextInv, PTL DEF Spec

\* Every variable keeps its type; a document that is there refers to documents.
THEOREM TypeCorrect == Spec => []TypeOK
BY Invariance, PTL DEF IInv

----------------------------------------------------------------------------
(* Only five steps write to quotes; each knows of nobody who uses what it writes. *)

LEMMA FreeIsUnused ==
  ASSUME IInv, NEW r \in Request, NEW q \in Quote,
         FreeOfProposals(req[r], proposals, q), FreeOfContracts(req[r], contracts, q)
  PROVE  req[r].known \cap (ProposalsOfQuote(q) \cup LiveContractsOfQuote(q)) = {}
BY DEF FreeOfProposals, FreeOfContracts, ProposalsOfQuote, LiveContractsOfQuote, Live,
       Proposals, There

\* What a handler writes to a quote that is there, it has checked.
LEMMA WritersHaveChecked ==
  ASSUME IInv, NEW r \in Request, Continue(r), NEW q \in Quotes, quotes'[q] # quotes[q]
  PROVE  FreeOfProposals(req[r], proposals, q) /\ FreeOfContracts(req[r], contracts, q)
<1> DEFINE h == req[r]
<1>1. Checked(h, proposals, contracts, quotes) /\ Ready(h, quotes) /\ q \in Quote
  BY DEF IInv, Sound, Quotes
<1>2. CASE MarkOutdated(r)
  <2>1. h.pc = "outdate" /\ "mark" \in h.todo /\ q \in h.found
    BY <1>1, <1>2 DEF MarkOutdated, At
  <2> QED BY <1>1, <2>1 DEF Checked
<1>3. CASE ArchiveQuotes(r)
  <2>1. h.pc = "checkQuotes" /\ h.todo = {} /\ q \in h.found
    BY <1>1, <1>3 DEF ArchiveQuotes, At
  <2> QED BY <1>1, <2>1 DEF Checked
<1>4. CASE WriteQuote(r)
  <2>1. h.pc = "writeQuote" /\ q = h.quote
    BY <1>1, <1>4 DEF WriteQuote, At, IInv, TypeOK
  <2> QED BY <1>1, <2>1 DEF Checked
<1>5. CASE DeleteQuote(r)
  <2>1. h.pc = "deleteQuote" /\ q = h.quote
    BY <1>1, <1>5 DEF DeleteQuote, At, IInv, TypeOK
  <2> QED BY <1>1, <2>1 DEF Checked
<1>6. CASE \E x \in Quote : InsertQuote(r, x)
  <2>1. PICK x \in Quote : InsertQuote(r, x)
    BY <1>6
  <2>2. q = x
    BY <1>1, <2>1 DEF InsertQuote, IInv, TypeOK
  <2> QED BY <2>1, <2>2 DEF InsertQuote, Quotes, There
<1>7. CASE quotes' = quotes
  BY <1>7
<1> QED
  BY <1>2, <1>3, <1>4, <1>5, <1>6, <1>7
  DEF Continue, CountQuotes, CheckProposalsOfDesign, CheckContractsOfDesign, SaveDesign,
      FindOutdated, DeleteDesign, CheckSent, ArchiveDesign, FindQuotes, CheckProposalsOfQuote,
      CheckContractsOfQuote, ReadDesign, TrackSent, CheckQuoteProposals, CheckQuoteContracts,
      InsertProposal, InsertContract, docs

\* A step of one handler leaves the others as they are.
LEMMA OneHandlerMoves ==
  ASSUME IInv, NEW r \in Request, NEW s \in Request, Arrive(s) \/ Continue(s) \/ Abandon(s),
         req'[r] # req[r]
  PROVE  r = s
<1>1. \A h : req' = [req EXCEPT ![s] = h] /\ r # s => req'[r] = req[r]
  BY DEF IInv
<1> QED
  BY <1>1
  DEF Arrive, UpdateUsage, CreateDesign, StartUpdateDesign, StartDeleteDesign, StartCreateQuote,
      StartArchiveDesign, StartDeleteQuote, StartProposal, StartContract, StartReQuote, OpenQuote,
      StartSend, DeleteProposal, BeginChange, Begin,
      Continue, CountQuotes, CheckProposalsOfDesign, CheckContractsOfDesign, SaveDesign,
      FindOutdated, MarkOutdated, DeleteDesign, CheckSent, ArchiveDesign, FindQuotes,
      ArchiveQuotes, CheckProposalsOfQuote, CheckContractsOfQuote, ReadDesign, WriteQuote,
      DeleteQuote, TrackSent, CheckQuoteProposals, CheckQuoteContracts, InsertQuote,
      InsertProposal, InsertContract, Abandon, Goto, Done, Finish, Become

\* Arrivals, ended handlers and voided contracts write to no quote and change no design that is there.
LEMMA OthersWriteNothing ==
  ASSUME IInv,
         \/ \E s \in Request : Arrive(s) \/ Abandon(s)
         \/ \E c \in Contract : VoidContract(c)
         \/ UNCHANGED vars
  PROVE  quotes' = quotes /\ \A d \in Designs : designs'[d] = designs[d]
BY DEF Arrive, UpdateUsage, CreateDesign, StartUpdateDesign, StartDeleteDesign, StartCreateQuote,
       StartArchiveDesign, StartDeleteQuote, StartProposal, StartContract, StartReQuote, OpenQuote,
       StartSend, DeleteProposal, Abandon, VoidContract, vars, docs, IInv, TypeOK, Designs, There

\* A handler changes, archives, marks or deletes a quote only if no proposal and no contract
\* that is not voided has been using it since before the handler started.
THEOREM QuotesInUseAreFrozen == Spec => UsedQuoteIsFrozen
<1>1. ASSUME IInv, [Next]_vars, NEW q \in Quotes, NEW r \in Request,
             quotes'[q] # quotes[q], req'[r] # req[r]
      PROVE  req[r].known \cap (ProposalsOfQuote(q) \cup LiveContractsOfQuote(q)) = {}
  <2>1. PICK s \in Request : Continue(s)
    BY <1>1, OthersWriteNothing DEF Next, Step
  <2>2. r = s
    BY <1>1, <2>1, OneHandlerMoves
  <2>3. FreeOfProposals(req[r], proposals, q) /\ FreeOfContracts(req[r], contracts, q)
    BY <1>1, <2>1, <2>2, WritersHaveChecked
  <2> QED BY <1>1, <2>3, FreeIsUnused DEF Quotes
<1>2. ASSUME IInv, [Next]_vars
      PROVE  [\A q \in Quote, r \in Request :
               (q \in Quotes /\ quotes'[q] # quotes[q] /\ req'[r] # req[r]) =>
                 req[r].known \cap (ProposalsOfQuote(q) \cup LiveContractsOfQuote(q)) = {}]_vars
  BY <1>1, <1>2
<1> QED BY <1>2, Invariance, PTL DEF Spec, UsedQuoteIsFrozen

\* A handler changes the data of a design, or deletes it, only if no proposal with it and no
\* contract with a quote of it has been there since before the handler started.
THEOREM DesignsInUseAreFrozen == Spec => UsedDesignIsFrozen
<1>1. ASSUME IInv, [Next]_vars, NEW d \in Designs, NEW r \in Request, req'[r] # req[r],
             <<designs'[d].st, designs'[d].version>> # <<designs[d].st, designs[d].version>>,
             NEW u \in req[r].known
      PROVE  /\ u \in Proposals => proposals[u].design # d
             /\ u \in Contracts => contracts[u].quote \notin QuotesOf(d)
  <2> DEFINE h == req[r]
  <2>1. PICK s \in Request : Continue(s)
    BY <1>1, OthersWriteNothing DEF Next, Step
  <2>2. r = s
    BY <1>1, <2>1, OneHandlerMoves
  <2>3. Checked(h, proposals, contracts, quotes) /\ d \in Design
    BY <1>1 DEF IInv, Sound, Designs
  <2>4. /\ h.design = d
        /\ h.pc = "deleteDesign" \/ (h.pc = "outdate" /\ "save" \in h.todo)
    <3>1. CASE SaveDesign(r)
      BY <1>1, <2>3, <3>1 DEF SaveDesign, At, IInv, TypeOK
    <3>2. CASE DeleteDesign(r)
      BY <1>1, <2>3, <3>2 DEF DeleteDesign, At, IInv, TypeOK
    <3>3. CASE designs' = designs
      BY <1>1, <3>3
    <3> QED
      BY <2>1, <2>2, <3>1, <3>2, <3>3
      DEF Continue, CountQuotes, CheckProposalsOfDesign, CheckContractsOfDesign, FindOutdated,
          MarkOutdated, CheckSent, ArchiveDesign, FindQuotes, ArchiveQuotes,
          CheckProposalsOfQuote, CheckContractsOfQuote, ReadDesign, WriteQuote, DeleteQuote,
          TrackSent, CheckQuoteProposals, CheckQuoteContracts, InsertQuote, InsertProposal,
          InsertContract, docs
  <2>5. DesignFreeOfProposals(h, proposals, d) /\ DesignFreeOfContracts(h, contracts, quotes, d)
    BY <2>3, <2>4 DEF Checked
  <2> QED
    BY <2>5 DEF DesignFreeOfProposals, DesignFreeOfContracts, Proposals, Contracts, QuotesOf,
                Quotes, There
<1>2. ASSUME IInv, [Next]_vars
      PROVE  [\A d \in Design, r \in Request :
               (/\ d \in Designs /\ req'[r] # req[r]
                /\ <<designs'[d].st, designs'[d].version>> # <<designs[d].st, designs[d].version>>) =>
                 \A u \in req[r].known :
                   /\ u \in Proposals => proposals[u].design # d
                   /\ u \in Contracts => contracts[u].quote \notin QuotesOf(d)]_vars
  BY <1>1, <1>2
<1> QED BY <1>2, Invariance, PTL DEF Spec, UsedDesignIsFrozen
=============================================================================
