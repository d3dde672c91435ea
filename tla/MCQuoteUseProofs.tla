-------------------------- MODULE MCQuoteUseProofs --------------------------
(***************************************************************************)
(* Theorems about QuoteUse with its monitor: what is true of the documents *)
(* as long as no handler has been broken off and no two have overlapped,   *)
(* for any number of documents and of places for requests.                 *)
(***************************************************************************)
EXTENDS MCQuoteUse, QuoteUseProofs

(***************************************************************************)
(* What an undisturbed behaviour keeps whole.  A handler that is alone     *)
(* finds what it has read as it was, and quotes are out of date only while *)
(* an outdating is under way that is going to mark them.                   *)
(***************************************************************************)

Current(d) == [design |-> designs[d].version, usage |-> usage]
Fresh(q) == quotes[q].isSync => quotes[q].basis = Current(quotes[q].design)
Counted == Quotes \ skipped

Referring ==
  /\ \A q \in Quotes : quotes[q].design \in Designs
  /\ \A p \in Proposals :
       /\ proposals[p].design \in Designs
       /\ proposals[p].full => /\ proposals[p].quote \in Quotes
                               /\ proposals[p].shows = quotes[proposals[p].quote].basis
  /\ \A c \in Live : contracts[c].quote \in Quotes

\* What a handler that is alone knows of the documents it has read and of the checks it made.
DesignReads(h) ==
  /\ h.pc \in {"countQuotes", "deleteDesign"} => h.op = "deleteDesign"
  /\ h.pc \in {"proposalsOfDesign", "contractsOfDesign"} => h.op \in {"updateDesign", "deleteDesign"}
  /\ h.pc \in {"proposalsOfDesign", "contractsOfDesign", "deleteDesign"} /\ h.op = "deleteDesign"
       => \A q \in Quotes : quotes[q].design # h.design
  /\ h.pc \in {"contractsOfDesign", "deleteDesign"}
       => \A p \in Proposals : proposals[p].design # h.design

UnusedReads(h) ==
  /\ h.pc \in {"contractsOfQuote", "writeQuote", "deleteQuote"}
         \/ (h.pc = "readDesign" /\ h.op # "requote")
       => \A p \in Proposals : proposals[p].quote # h.quote
  /\ h.pc = "deleteQuote" => \A c \in Live : contracts[c].quote # h.quote

QuoteReads(h) ==
  /\ h.op = "update" /\ h.pc \in {"proposalsOfQuote", "contractsOfQuote", "readDesign", "writeQuote"}
       => /\ h.quote \in Quotes
          /\ h.basis = quotes[h.quote].basis /\ h.isSync = quotes[h.quote].isSync
  /\ h.pc \in {"insertQuote", "writeQuote"} => h.design \in Designs
  /\ h.pc = "insertQuote" \/ (h.pc = "writeQuote" /\ h.op # "update") => h.basis = Current(h.design)

CopyReads(h) ==
  /\ h.pc = "insertProposal" =>
       /\ h.design \in Designs
       /\ h.found # {} => h.quote \in Quotes /\ h.basis = quotes[h.quote].basis
  /\ h.pc = "insertContract" => h.quote \in Quotes

Reads(h) == DesignReads(h) /\ UnusedReads(h) /\ QuoteReads(h) /\ CopyReads(h)

\* Which quotes an outdating that is alone leaves to be marked, or has yet to find.
Outdating(h) ==
  /\ "save" \in h.todo => h.op # "usage"
  /\ "find" \in h.todo =>
       \A q \in Counted : h.op # "usage" /\ quotes[q].design # h.design => Fresh(q)
  /\ "find" \notin h.todo /\ "mark" \in h.todo =>
       /\ \A q \in Counted : q \in h.found \/ Fresh(q)
       /\ "save" \in h.todo => \A q \in Counted : quotes[q].design = h.design => q \in h.found
  /\ "find" \notin h.todo /\ "mark" \notin h.todo =>
       /\ \A q \in Counted : Fresh(q)
       /\ "save" \in h.todo =>
            \A q \in Counted : quotes[q].design = h.design => ~quotes[q].isSync

Whole ==
  /\ Referring
  /\ (\A r \in Request : ~At(r, "outdate")) => \A q \in Counted : Fresh(q)
  /\ \A r \in Request : Reads(req[r]) /\ (At(r, "outdate") => Outdating(req[r]))

MonitoredInv ==
  /\ IInv
  /\ disturbed \in BOOLEAN
  /\ ~disturbed => ~Overlap /\ Whole

(***************************************************************************)
(* The same for one handler that is alone.                                 *)
(***************************************************************************)
AllFresh == \A q \in Counted : Fresh(q)

Solo(r) ==
  /\ Referring /\ Reads(req[r])
  /\ At(r, "outdate") => Outdating(req[r])
  /\ ~At(r, "outdate") => AllFresh

OthersIdle(r) == \A s \in Request : s # r => At(s, "idle")

LEMMA WholeAlone ==
  ASSUME Whole, NEW r \in Request, OthersIdle(r)
  PROVE  Solo(r)
<1>1. ~At(r, "outdate") => \A s \in Request : ~At(s, "outdate")
  BY DEF OthersIdle, At
<1> QED BY <1>1 DEF Whole, Solo, AllFresh

LEMMA IdleReads ==
  ASSUME NEW h, h.pc = "idle" PROVE Reads(h)
BY DEF Reads, DesignReads, UnusedReads, QuoteReads, CopyReads

\* The documents as a step leaves them: a handler that is idle has read none.
LEMMA IdleReadsNext ==
  ASSUME NEW r, At(r, "idle")' PROVE Reads(req[r])'
BY DEF Reads, DesignReads, UnusedReads, QuoteReads, CopyReads, At

LEMMA AloneWhole ==
  ASSUME NEW r \in Request, Solo(r)', OthersIdle(r)'
  PROVE  Whole'
<1>1. (\A s \in Request : ~At(s, "outdate"))' => AllFresh'
  BY DEF Solo
<1>2. ASSUME NEW s \in Request
      PROVE  Reads(req[s])' /\ (At(s, "outdate")' => Outdating(req[s])')
  <2>1. CASE s = r
    BY <2>1 DEF Solo
  <2>2. CASE s # r
    <3>1. At(s, "idle")'
      BY <2>2 DEF OthersIdle
    <3> QED BY <3>1, IdleReadsNext DEF At
  <2> QED BY <2>1, <2>2
<1> QED BY <1>1, <1>2 DEF Whole, Solo, AllFresh

(***************************************************************************)
(* The steps of a handler that only read.                                  *)
(***************************************************************************)

\* A handler that only reads, and is not outdating.
LEMMA ReadingSolo ==
  ASSUME NEW r, Solo(r), UNCHANGED <<docs, skipped>>,
         ~At(r, "outdate"), ~At(r, "outdate")', Reads(req[r])'
  PROVE  Solo(r)'
<1>1. Referring'
  BY DEF Solo, Referring, Quotes, Designs, Proposals, Live, There, docs
<1>2. AllFresh'
  BY DEF Solo, AllFresh, Counted, Fresh, Current, Quotes, There, docs
<1> QED BY <1>1, <1>2 DEF Solo

LEMMA Finished ==
  ASSUME IInv, NEW r \in Request, Finish(r)
  PROVE  At(r, "idle")' /\ ~At(r, "outdate")' /\ Reads(req[r])'
<1>1. At(r, "idle")' /\ ~At(r, "outdate")'
  BY DEF IInv, Finish, Become, At, Idle
<1> QED BY <1>1, IdleReadsNext

LEMMA FinishSolo ==
  ASSUME IInv, NEW r \in Request, Solo(r), UNCHANGED <<docs, skipped>>, Finish(r),
         ~At(r, "outdate")
  PROVE  Solo(r)'
BY Finished, ReadingSolo

\* The fields of a handler that goes on from one step to the next.
LEMMA GotoNext ==
  ASSUME IInv, NEW r \in Request, NEW pc, Goto(r, pc)
  PROVE  /\ req'[r].pc = pc /\ req'[r].op = req[r].op /\ req'[r].design = req[r].design
         /\ req'[r].quote = req[r].quote /\ req'[r].basis = req[r].basis
         /\ req'[r].isSync = req[r].isSync
<1>1. req[r] \in Handlers /\ req'[r] = [req[r] EXCEPT !.pc = pc]
  BY DEF IInv, Goto
<1> QED BY <1>1 DEF Handlers

LEMMA StartUpdateDesignSolo ==
  ASSUME IInv, NEW r \in Request, Solo(r), NEW d \in Design, StartUpdateDesign(r, d)
  PROVE  Solo(r)'
<1>1. req'[r].pc = "proposalsOfDesign" /\ req'[r].op = "updateDesign"
  BY IdleSound DEF StartUpdateDesign, BeginChange, Begin, Become, IInv, Sound, Handlers
<1>2. Reads(req[r])'
  BY <1>1 DEF Reads, DesignReads, UnusedReads, QuoteReads, CopyReads
<1> QED BY <1>1, <1>2, ReadingSolo DEF StartUpdateDesign, BeginChange, Begin, At

LEMMA StartDeleteDesignSolo ==
  ASSUME IInv, NEW r \in Request, Solo(r), NEW d \in Design, StartDeleteDesign(r, d)
  PROVE  Solo(r)'
<1>1. req'[r].pc = "countQuotes" /\ req'[r].op = "deleteDesign"
  BY IdleSound DEF StartDeleteDesign, BeginChange, Begin, Become, IInv, Sound, Handlers
<1>2. Reads(req[r])'
  BY <1>1 DEF Reads, DesignReads, UnusedReads, QuoteReads, CopyReads
<1> QED BY <1>1, <1>2, ReadingSolo DEF StartDeleteDesign, BeginChange, Begin, At

LEMMA StartArchiveDesignSolo ==
  ASSUME IInv, NEW r \in Request, Solo(r), NEW d \in Design, StartArchiveDesign(r, d)
  PROVE  Solo(r)'
<1>1. req'[r].pc = "checkSent"
  BY IdleSound DEF StartArchiveDesign, BeginChange, Begin, Become, IInv, Sound, Handlers
<1>2. Reads(req[r])'
  BY <1>1 DEF Reads, DesignReads, UnusedReads, QuoteReads, CopyReads
<1> QED BY <1>1, <1>2, ReadingSolo DEF StartArchiveDesign, BeginChange, Begin, At

LEMMA StartCreateQuoteSolo ==
  ASSUME IInv, NEW r \in Request, Solo(r), NEW d \in Design, StartCreateQuote(r, d)
  PROVE  Solo(r)'
<1>1. /\ req'[r].pc = "insertQuote" /\ req'[r].op = "create" /\ req'[r].design = d
      /\ req'[r].basis = Current(d)
  BY IdleSound DEF StartCreateQuote, Begin, Become, IInv, Sound, Handlers, Current
<1>2. d \in Designs' /\ Current(d)' = Current(d)
  BY DEF StartCreateQuote, docs, Designs, There, Current
<1>3. Reads(req[r])'
  BY <1>1, <1>2 DEF Reads, DesignReads, UnusedReads, QuoteReads, CopyReads, Current
<1> QED BY <1>1, <1>3, ReadingSolo DEF StartCreateQuote, Begin, At

LEMMA StartReQuoteSolo ==
  ASSUME IInv, NEW r \in Request, Solo(r), NEW q \in Quote, NEW d \in Design,
         StartReQuote(r, q, d)
  PROVE  Solo(r)'
<1>1. req'[r].pc = "readDesign" /\ req'[r].op = "requote"
  BY IdleSound DEF StartReQuote, Begin, Become, IInv, Sound, Handlers
<1>2. Reads(req[r])'
  BY <1>1 DEF Reads, DesignReads, UnusedReads, QuoteReads, CopyReads
<1> QED BY <1>1, <1>2, ReadingSolo DEF StartReQuote, Begin, At

LEMMA OpenQuoteSolo ==
  ASSUME IInv, NEW r \in Request, Solo(r), NEW q \in Quote, NEW op \in {"update", "latest"},
         OpenQuote(r, q, op)
  PROVE  Solo(r)'
<1>1. /\ req'[r].pc = "proposalsOfQuote" /\ req'[r].quote = q
      /\ req'[r].basis = quotes[q].basis /\ req'[r].isSync = quotes[q].isSync
  BY IdleSound DEF OpenQuote, BeginChange, Begin, Become, IInv, Sound, Handlers
<1>2. q \in Quotes' /\ quotes' = quotes
  BY DEF OpenQuote, docs, Quotes, There
<1>3. Reads(req[r])'
  BY <1>1, <1>2 DEF Reads, DesignReads, UnusedReads, QuoteReads, CopyReads
<1> QED BY <1>1, <1>3, ReadingSolo DEF OpenQuote, BeginChange, Begin, At

LEMMA StartDeleteQuoteSolo ==
  ASSUME IInv, NEW r \in Request, Solo(r), NEW q \in Quote, StartDeleteQuote(r, q)
  PROVE  Solo(r)'
<1>1. req'[r].pc = "proposalsOfQuote" /\ req'[r].op = "deleteQuote"
  BY IdleSound DEF StartDeleteQuote, BeginChange, Begin, Become, IInv, Sound, Handlers
<1>2. Reads(req[r])'
  BY <1>1 DEF Reads, DesignReads, UnusedReads, QuoteReads, CopyReads
<1> QED BY <1>1, <1>2, ReadingSolo DEF StartDeleteQuote, BeginChange, Begin, At

LEMMA StartProposalSolo ==
  ASSUME IInv, NEW r \in Request, Solo(r), NEW q \in Quote, NEW d \in Design,
         StartProposal(r, q, d)
  PROVE  Solo(r)'
<1>1. /\ req'[r].pc = "insertProposal" /\ req'[r].quote = q /\ req'[r].design = d
      /\ req'[r].found = {q} \cap Quotes /\ req'[r].basis = quotes[q].basis
  BY IdleSound DEF StartProposal, Begin, Become, IInv, Sound, Handlers
<1>2. d \in Designs' /\ Quotes' = Quotes /\ quotes' = quotes
  BY DEF StartProposal, docs, Quotes, Designs, There
<1>3. Reads(req[r])'
  BY <1>1, <1>2 DEF Reads, DesignReads, UnusedReads, QuoteReads, CopyReads
<1> QED BY <1>1, <1>3, ReadingSolo DEF StartProposal, Begin, At

LEMMA StartSendSolo ==
  ASSUME IInv, NEW r \in Request, Solo(r), NEW p \in Proposal, StartSend(r, p)
  PROVE  Solo(r)'
<1>1. req'[r].pc = "track"
  BY IdleSound DEF StartSend, Begin, Become, IInv, Sound, Handlers
<1>2. Reads(req[r])'
  BY <1>1 DEF Reads, DesignReads, UnusedReads, QuoteReads, CopyReads
<1> QED BY <1>1, <1>2, ReadingSolo DEF StartSend, Begin, At

LEMMA StartContractSolo ==
  ASSUME IInv, NEW r \in Request, Solo(r), NEW q \in Quote, StartContract(r, q)
  PROVE  Solo(r)'
<1>1. req'[r].pc = "insertContract" /\ req'[r].quote = q
  BY IdleSound DEF StartContract, Begin, Become, IInv, Sound, Handlers
<1>2. q \in Quotes'
  BY DEF StartContract, docs, Quotes, There
<1>3. Reads(req[r])'
  BY <1>1, <1>2 DEF Reads, DesignReads, UnusedReads, QuoteReads, CopyReads
<1> QED BY <1>1, <1>3, ReadingSolo DEF StartContract, Begin, At

LEMMA CountQuotesSolo ==
  ASSUME IInv, NEW r \in Request, Solo(r), CountQuotes(r) PROVE Solo(r)'
<1>1. UNCHANGED <<docs, skipped>> /\ ~At(r, "outdate") /\ req[r].pc = "countQuotes"
  BY DEF CountQuotes, At
<1>2. CASE QuotesOf(req[r].design) = {} /\ Goto(r, "proposalsOfDesign")
  <2>1. /\ req'[r].pc = "proposalsOfDesign" /\ req'[r].design = req[r].design
        /\ req'[r].op = "deleteDesign"
    BY <1>1, <1>2, GotoNext DEF Solo, Reads, DesignReads
  <2>2. \A q \in Quotes' : quotes'[q].design # req'[r].design
    BY <1>1, <1>2, <2>1 DEF QuotesOf, Quotes, There, docs
  <2>3. Reads(req[r])'
    BY <2>1, <2>2 DEF Reads, DesignReads, UnusedReads, QuoteReads, CopyReads
  <2> QED BY <1>1, <2>1, <2>3, ReadingSolo DEF At
<1> QED BY <1>1, <1>2, FinishSolo DEF CountQuotes

LEMMA CheckProposalsOfDesignSolo ==
  ASSUME IInv, NEW r \in Request, Solo(r), CheckProposalsOfDesign(r) PROVE Solo(r)'
<1>1. UNCHANGED <<docs, skipped>> /\ ~At(r, "outdate") /\ req[r].pc = "proposalsOfDesign"
  BY DEF CheckProposalsOfDesign, At
<1>2. CASE ProposalsOfDesign(req[r].design) = {} /\ Goto(r, "contractsOfDesign")
  <2>1. /\ req'[r].pc = "contractsOfDesign" /\ req'[r].design = req[r].design
        /\ req'[r].op = req[r].op
    BY <1>2, GotoNext
  <2>2. \A p \in Proposals' : proposals'[p].design # req'[r].design
    BY <1>1, <1>2, <2>1 DEF ProposalsOfDesign, Proposals, There, docs
  <2>3. /\ req'[r].op \in {"updateDesign", "deleteDesign"}
        /\ req'[r].op = "deleteDesign" => \A q \in Quotes' : quotes'[q].design # req'[r].design
    BY <1>1, <2>1 DEF Solo, Reads, DesignReads, Quotes, There, docs
  <2>4. Reads(req[r])'
    BY <2>1, <2>2, <2>3 DEF Reads, DesignReads, UnusedReads, QuoteReads, CopyReads
  <2> QED BY <1>1, <2>1, <2>4, ReadingSolo DEF At
<1> QED BY <1>1, <1>2, FinishSolo DEF CheckProposalsOfDesign

LEMMA CheckSentSolo ==
  ASSUME IInv, NEW r \in Request, Solo(r), CheckSent(r) PROVE Solo(r)'
<1>1. UNCHANGED <<docs, skipped>> /\ ~At(r, "outdate")
  BY DEF CheckSent, At
<1>2. CASE Goto(r, "archiveDesign")
  <2>1. req'[r].pc = "archiveDesign"
    BY <1>2, GotoNext
  <2>2. Reads(req[r])'
    BY <2>1 DEF Reads, DesignReads, UnusedReads, QuoteReads, CopyReads
  <2> QED BY <1>1, <2>1, <2>2, ReadingSolo DEF At
<1> QED BY <1>1, <1>2, FinishSolo DEF CheckSent

LEMMA ArchiveDesignSolo ==
  ASSUME IInv, NEW r \in Request, Solo(r), ArchiveDesign(r) PROVE Solo(r)'
<1>1. UNCHANGED <<docs, skipped>> /\ ~At(r, "outdate")
  BY DEF ArchiveDesign, At
<1>2. CASE Goto(r, "findQuotes")
  <2>1. req'[r].pc = "findQuotes"
    BY <1>2, GotoNext
  <2>2. Reads(req[r])'
    BY <2>1 DEF Reads, DesignReads, UnusedReads, QuoteReads, CopyReads
  <2> QED BY <1>1, <2>1, <2>2, ReadingSolo DEF At
<1> QED BY <1>1, <1>2, FinishSolo DEF ArchiveDesign

\* Looking for the quotes to archive, and checking them, stays at checkQuotes.
LEMMA CheckingQuotesSolo ==
  ASSUME IInv, NEW r \in Request, Solo(r), UNCHANGED <<docs, skipped>>, ~At(r, "outdate"),
         At(r, "checkQuotes")'
  PROVE  Solo(r)'
<1>1. Reads(req[r])'
  BY DEF At, Reads, DesignReads, UnusedReads, QuoteReads, CopyReads
<1> QED BY <1>1, ReadingSolo DEF At

LEMMA FindQuotesSolo ==
  ASSUME IInv, NEW r \in Request, Solo(r), FindQuotes(r) PROVE Solo(r)'
<1>1. At(r, "checkQuotes")' /\ UNCHANGED <<docs, skipped>> /\ ~At(r, "outdate")
  BY DEF FindQuotes, Become, At, IInv, Handlers
<1> QED BY <1>1, CheckingQuotesSolo

LEMMA CheckQuoteProposalsSolo ==
  ASSUME IInv, NEW r \in Request, Solo(r), NEW q \in Quote, CheckQuoteProposals(r, q)
  PROVE  Solo(r)'
<1>1. At(r, "checkQuotes")' /\ UNCHANGED <<docs, skipped>> /\ ~At(r, "outdate")
  BY DEF CheckQuoteProposals, Become, At, IInv, Handlers
<1> QED BY <1>1, CheckingQuotesSolo

LEMMA CheckQuoteContractsSolo ==
  ASSUME IInv, NEW r \in Request, Solo(r), NEW q \in Quote, CheckQuoteContracts(r, q)
  PROVE  Solo(r)'
<1>1. At(r, "checkQuotes")' /\ UNCHANGED <<docs, skipped>> /\ ~At(r, "outdate")
  BY DEF CheckQuoteContracts, Become, At, IInv, Handlers
<1> QED BY <1>1, CheckingQuotesSolo

LEMMA CheckProposalsOfQuoteSolo ==
  ASSUME IInv, NEW r \in Request, Solo(r), CheckProposalsOfQuote(r) PROVE Solo(r)'
<1>1. UNCHANGED <<docs, skipped>> /\ ~At(r, "outdate") /\ req[r].pc = "proposalsOfQuote"
  BY DEF CheckProposalsOfQuote, At
<1>2. CASE ProposalsOfQuote(req[r].quote) = {} /\ Goto(r, "contractsOfQuote")
  <2>1. /\ req'[r].pc = "contractsOfQuote" /\ req'[r].quote = req[r].quote
        /\ req'[r].op = req[r].op /\ req'[r].basis = req[r].basis
        /\ req'[r].isSync = req[r].isSync
    BY <1>2, GotoNext
  <2>2. \A p \in Proposals' : proposals'[p].quote # req'[r].quote
    BY <1>1, <1>2, <2>1 DEF ProposalsOfQuote, Proposals, There, docs
  <2>3. req'[r].op = "update" =>
          /\ req'[r].quote \in Quotes' /\ req'[r].basis = quotes'[req'[r].quote].basis
          /\ req'[r].isSync = quotes'[req'[r].quote].isSync
    BY <1>1, <2>1 DEF Solo, Reads, QuoteReads, Quotes, There, docs
  <2>4. Reads(req[r])'
    BY <2>1, <2>2, <2>3 DEF Reads, DesignReads, UnusedReads, QuoteReads, CopyReads
  <2> QED BY <1>1, <2>1, <2>4, ReadingSolo DEF At
<1> QED BY <1>1, <1>2, FinishSolo DEF CheckProposalsOfQuote

LEMMA CheckContractsOfQuoteSolo ==
  ASSUME IInv, NEW r \in Request, Solo(r), CheckContractsOfQuote(r) PROVE Solo(r)'
<1> DEFINE next == IF req[r].op = "deleteQuote" THEN "deleteQuote" ELSE "readDesign"
<1>1. UNCHANGED <<docs, skipped>> /\ ~At(r, "outdate") /\ req[r].pc = "contractsOfQuote"
  BY DEF CheckContractsOfQuote, At
<1>2. CASE LiveContractsOfQuote(req[r].quote) = {} /\ Goto(r, next)
  <2>1. /\ req'[r].pc = next /\ req'[r].quote = req[r].quote
        /\ req'[r].op = req[r].op /\ req'[r].basis = req[r].basis
        /\ req'[r].isSync = req[r].isSync
    BY <1>2, GotoNext
  <2>2. \A p \in Proposals' : proposals'[p].quote # req'[r].quote
    BY <1>1, <2>1 DEF Solo, Reads, UnusedReads, Proposals, There, docs
  <2>3. req'[r].op = "update" =>
          /\ req'[r].quote \in Quotes' /\ req'[r].basis = quotes'[req'[r].quote].basis
          /\ req'[r].isSync = quotes'[req'[r].quote].isSync
    BY <1>1, <2>1 DEF Solo, Reads, QuoteReads, Quotes, There, docs
  <2>4. \A c \in Live' : contracts'[c].quote # req'[r].quote
    BY <1>1, <1>2, <2>1 DEF LiveContractsOfQuote, Live, docs
  <2>5. Reads(req[r])'
    BY <2>1, <2>2, <2>3, <2>4 DEF Reads, DesignReads, UnusedReads, QuoteReads, CopyReads
  <2> QED BY <1>1, <2>1, <2>5, ReadingSolo DEF At
<1> QED BY <1>1, <1>2, FinishSolo DEF CheckContractsOfQuote

LEMMA ReadDesignSolo ==
  ASSUME IInv, NEW r \in Request, Solo(r), ReadDesign(r) PROVE Solo(r)'
<1> DEFINE h == req[r]
           pc == IF h.op = "requote" THEN "insertQuote" ELSE "writeQuote"
           b == IF h.op = "update" THEN h.basis ELSE Current(h.design)
           new == [h EXCEPT !.pc = pc, !.basis = b]
<1>1. /\ UNCHANGED <<docs, skipped>> /\ ~At(r, "outdate") /\ h.pc = "readDesign"
      /\ h \in Handlers /\ h.op \in {"update", "latest", "requote"}
  BY DEF ReadDesign, At, IInv, Sound, Ready
<1>2. CASE h.design \in Designs /\ (h.op # "requote" => h.quote \in Quotes) /\ Become(r, new)
  <2>1. /\ req'[r].pc = pc /\ req'[r].quote = h.quote /\ req'[r].design = h.design
        /\ req'[r].op = h.op /\ req'[r].basis = b /\ req'[r].isSync = h.isSync
    BY <1>1, <1>2 DEF Become, IInv, Handlers
  <2>2. h.op # "requote" => \A p \in Proposals' : proposals'[p].quote # req'[r].quote
    BY <1>1, <2>1 DEF Solo, Reads, UnusedReads, Proposals, There, docs
  <2>3. h.op = "update" =>
          /\ req'[r].quote \in Quotes' /\ req'[r].basis = quotes'[req'[r].quote].basis
          /\ req'[r].isSync = quotes'[req'[r].quote].isSync
    BY <1>1, <2>1 DEF Solo, Reads, QuoteReads, Quotes, There, docs
  <2>4. h.design \in Designs'
    BY <1>1, <1>2 DEF Designs, There, docs
  <2>5. h.op # "update" => req'[r].basis = [design |-> designs'[h.design].version, usage |-> usage']
    BY <1>1, <2>1 DEF docs, Current
  <2>6. Reads(req[r])'
    BY <1>1, <2>1, <2>2, <2>3, <2>4, <2>5
    DEF Reads, DesignReads, UnusedReads, QuoteReads, CopyReads, Current
  <2> QED BY <1>1, <2>1, <2>6, ReadingSolo DEF At
<1> QED BY <1>1, <1>2, FinishSolo DEF ReadDesign, Current

(***************************************************************************)
(* Outdating.                                                              *)
(***************************************************************************)

\* A handler that goes on outdating has read nothing else.
LEMMA OutdatingReads ==
  ASSUME NEW r, At(r, "outdate")' PROVE Reads(req[r])'
BY DEF At, Reads, DesignReads, UnusedReads, QuoteReads, CopyReads

LEMMA CheckContractsOfDesignSolo ==
  ASSUME IInv, NEW r \in Request, Solo(r), CheckContractsOfDesign(r) PROVE Solo(r)'
<1> DEFINE h == req[r]
<1>1. /\ UNCHANGED <<docs, skipped>> /\ ~At(r, "outdate") /\ h.pc = "contractsOfDesign"
      /\ h \in Handlers
  BY DEF CheckContractsOfDesign, At, IInv
<1>2. CASE h.op = "deleteDesign" /\ Goto(r, "deleteDesign")
  <2>1. /\ req'[r].pc = "deleteDesign" /\ req'[r].design = h.design /\ req'[r].op = h.op
    BY <1>2, GotoNext
  <2>2. /\ \A q \in Quotes' : quotes'[q].design # req'[r].design
        /\ \A p \in Proposals' : proposals'[p].design # req'[r].design
    BY <1>1, <1>2, <2>1 DEF Solo, Reads, DesignReads, Quotes, Proposals, There, docs
  <2>3. Reads(req[r])'
    BY <1>2, <2>1, <2>2 DEF Reads, DesignReads, UnusedReads, QuoteReads, CopyReads
  <2> QED BY <1>1, <2>1, <2>3, ReadingSolo DEF At
<1>3. CASE /\ h.op # "deleteDesign"
           /\ Become(r, [h EXCEPT !.pc = "outdate", !.todo = {"save", "find"}])
  <2>1. /\ req'[r].pc = "outdate" /\ req'[r].op = h.op /\ req'[r].todo = {"save", "find"}
    BY <1>1, <1>3 DEF Become, IInv, Handlers
  <2>2. h.op # "usage"
    BY <1>1 DEF Solo, Reads, DesignReads
  <2>3. Referring' /\ AllFresh'
    BY <1>1 DEF Solo, Referring, AllFresh, Counted, Fresh, Current, Quotes, Designs,
                Proposals, Live, There, docs
  <2>4. Outdating(req[r])'
    BY <2>1, <2>2, <2>3 DEF Outdating, AllFresh
  <2> QED BY <2>1, <2>3, <2>4, OutdatingReads DEF Solo, At
<1> QED BY <1>1, <1>2, <1>3, FinishSolo DEF CheckContractsOfDesign

LEMMA UpdateUsageSolo ==
  ASSUME IInv, NEW r \in Request, Solo(r), UpdateUsage(r) PROVE Solo(r)'
<1>1. req'[r].pc = "outdate" /\ req'[r].op = "usage" /\ req'[r].todo = {"find"}
  BY IdleSound DEF UpdateUsage, BeginChange, Begin, Become, IInv, Sound, Handlers
<1>2. Outdating(req[r])'
  BY <1>1 DEF Outdating
<1>3. Referring'
  BY DEF Solo, Referring, UpdateUsage, Quotes, Designs, Proposals, Live, There
<1> QED BY <1>1, <1>2, <1>3, OutdatingReads DEF Solo, At

\* A handler has done x of its Promise.all: it goes on with the rest, or ends.
LEMMA DoneNext ==
  ASSUME IInv, NEW r \in Request, At(r, "outdate"), NEW x,
         Done(r, [req[r] EXCEPT !.todo = @ \ {x}])
  PROVE  /\ Reads(req[r])'
         /\ \/ At(r, "idle")' /\ req[r].todo \subseteq {x}
            \/ /\ At(r, "outdate")' /\ req'[r].todo = req[r].todo \ {x}
               /\ req'[r].op = req[r].op /\ req'[r].design = req[r].design
               /\ req'[r].found = req[r].found
<1> DEFINE h == req[r]
           rec == [h EXCEPT !.todo = h.todo \ {x}]
<1>1. h \in Handlers /\ h.pc = "outdate"
  BY DEF IInv, At
<1>2. /\ rec.pc = "outdate" /\ rec.todo = h.todo \ {x} /\ rec.op = h.op
      /\ rec.design = h.design /\ rec.found = h.found
  BY <1>1 DEF Handlers
<1>3. req'[r] = IF rec.todo = {} THEN Idle ELSE rec
  BY DEF Done, Become, IInv
<1> HIDE DEF rec
<1>4. CASE rec.todo = {}
  BY <1>2, <1>3, <1>4, IdleReadsNext DEF At, Idle
<1>5. CASE rec.todo # {}
  BY <1>2, <1>3, <1>5, OutdatingReads DEF At
<1> QED BY <1>4, <1>5

\* save() of the design: only its own quotes can fall behind, and they are yet to be found, or
\* found, or marked.
LEMMA SaveDesignSolo ==
  ASSUME IInv, NEW r \in Request, Solo(r), SaveDesign(r) PROVE Solo(r)'
<1> DEFINE h == req[r]
<1>1. /\ At(r, "outdate") /\ "save" \in h.todo /\ Outdating(h) /\ h.op # "usage"
      /\ UNCHANGED <<usage, quotes, proposals, contracts, skipped>>
  BY DEF SaveDesign, Solo, Outdating
<1>2. /\ Reads(req[r])'
      /\ \/ At(r, "idle")' /\ h.todo \subseteq {"save"}
         \/ /\ At(r, "outdate")' /\ req'[r].todo = h.todo \ {"save"}
            /\ req'[r].op = h.op /\ req'[r].design = h.design /\ req'[r].found = h.found
  BY DoneNext DEF SaveDesign
<1>3. \A d \in Design : /\ designs'[d].st = designs[d].st
                        /\ d # h.design => designs'[d].version = designs[d].version
  BY DEF SaveDesign, IInv, TypeOK
<1>4. Referring'
  BY <1>1, <1>3 DEF Solo, Referring, Quotes, Designs, Proposals, Live, There
<1>5. \A q \in Quote : (q \in Counted)' <=> q \in Counted
  BY <1>1 DEF Counted, Quotes, There
<1>6. \A q \in Counted : quotes[q].design # h.design /\ Fresh(q) => Fresh(q)'
  BY <1>1, <1>3 DEF Fresh, Current, Counted, Quotes, IInv, TypeOK
<1>7. Counted \subseteq Quote /\ (Counted)' \subseteq Quote
  BY DEF Counted, Quotes
<1>8. CASE "find" \in h.todo
  BY <1>1, <1>2, <1>4, <1>5, <1>6, <1>7, <1>8 DEF Solo, Outdating, At
<1>9. CASE "find" \notin h.todo /\ "mark" \in h.todo
  BY <1>1, <1>2, <1>4, <1>5, <1>6, <1>7, <1>9 DEF Solo, Outdating, At
<1>10. CASE "find" \notin h.todo /\ "mark" \notin h.todo
  <2>1. \A q \in Counted : Fresh(q) /\ (quotes[q].design = h.design => ~quotes[q].isSync)
    BY <1>1, <1>10 DEF Outdating
  <2>2. AllFresh'
    BY <1>1, <1>5, <1>6, <1>7, <2>1 DEF AllFresh, Fresh
  <2> QED BY <1>1, <1>2, <1>4, <1>10, <2>2 DEF Solo, Outdating, AllFresh, At
<1> QED BY <1>8, <1>9, <1>10

LEMMA FindOutdatedSolo ==
  ASSUME IInv, NEW r \in Request, Solo(r), FindOutdated(r) PROVE Solo(r)'
<1> DEFINE h == req[r]
           scope == IF h.op = "usage" THEN Quotes ELSE QuotesOf(h.design)
           left == Unused(scope)
<1>1. /\ At(r, "outdate") /\ "find" \in h.todo /\ Outdating(h) /\ h \in Handlers
      /\ UNCHANGED docs /\ skipped' = skipped \cup (scope \ left)
  BY DEF FindOutdated, Solo, IInv
<1>2. \A q \in Counted : h.op # "usage" /\ quotes[q].design # h.design => Fresh(q)
  BY <1>1 DEF Outdating
<1>3. \A q \in Counted : q \in scope <=> (h.op = "usage" \/ quotes[q].design = h.design)
  BY DEF Counted, QuotesOf
<1> HIDE DEF scope, left
<1>4. /\ req'[r].pc = "outdate" /\ req'[r].todo = (h.todo \ {"find"}) \cup {"mark"}
      /\ req'[r].op = h.op /\ req'[r].design = h.design /\ req'[r].found = left
  BY <1>1 DEF FindOutdated, Become, IInv, Handlers, At, scope, left
<1>5. Referring' /\ (\A q \in Quote : Fresh(q) => Fresh(q)') /\ quotes' = quotes
  BY <1>1 DEF Solo, Referring, Fresh, Current, Quotes, Designs, Proposals, Live, There, docs
<1>6. (Counted)' \subseteq Counted /\ (\A q \in (Counted)' : q \in Quote /\ q \notin scope \ left)
  BY <1>1 DEF Counted, Quotes, There, docs
<1>7. \A q \in (Counted)' : q \in left \/ Fresh(q)'
  BY <1>2, <1>3, <1>5, <1>6
<1>8. "save" \in h.todo => h.op # "usage"
  BY <1>1 DEF Outdating
<1>9. \A q \in (Counted)' : quotes[q].design = h.design => q \in left
  BY <1>3, <1>6
<1>10. Outdating(req[r])'
  BY <1>4, <1>5, <1>7, <1>8, <1>9 DEF Outdating
<1> QED BY <1>4, <1>5, <1>10, OutdatingReads DEF Solo, At

LEMMA MarkOutdatedSolo ==
  ASSUME IInv, NEW r \in Request, Solo(r), MarkOutdated(r) PROVE Solo(r)'
<1> DEFINE h == req[r]
<1>1. /\ At(r, "outdate") /\ "mark" \in h.todo /\ Outdating(h)
      /\ UNCHANGED <<usage, designs, proposals, contracts, skipped>>
  BY DEF MarkOutdated, Solo
<1>2. /\ Reads(req[r])'
      /\ \/ At(r, "idle")' /\ h.todo \subseteq {"mark"}
         \/ /\ At(r, "outdate")' /\ req'[r].todo = h.todo \ {"mark"}
            /\ req'[r].op = h.op /\ req'[r].design = h.design /\ req'[r].found = h.found
  BY DoneNext DEF MarkOutdated
<1>3. ASSUME NEW q \in Quote
      PROVE  /\ quotes'[q].st = quotes[q].st /\ quotes'[q].design = quotes[q].design
             /\ quotes'[q].basis = quotes[q].basis
             /\ quotes'[q].isSync => quotes[q].isSync
             /\ q \in h.found /\ q \in Quotes => ~quotes'[q].isSync
  <2>1. quotes[q] \in [st : St, design : Design \cup {None}, basis : Basis,
                       isSync : BOOLEAN, isArchived : BOOLEAN]
    BY DEF IInv, TypeOK
  <2>2. quotes'[q] = IF q \in h.found \cap Quotes THEN [quotes[q] EXCEPT !.isSync = FALSE]
                     ELSE quotes[q]
    BY DEF MarkOutdated
  <2> QED BY <2>1, <2>2
<1>4. Referring'
  BY <1>1, <1>3 DEF Solo, Referring, Quotes, Designs, Proposals, Live, There, IInv, TypeOK
<1>5. \A q \in Quote : (q \in Counted)' <=> q \in Counted
  BY <1>1, <1>3 DEF Counted, Quotes, There
<1>6. \A q \in Counted : Fresh(q) \/ q \in h.found => Fresh(q)'
  BY <1>1, <1>3 DEF Fresh, Current, Counted, Quotes
<1>7. Counted \subseteq Quote /\ (Counted)' \subseteq Quote
  BY DEF Counted, Quotes
<1>8. CASE "find" \in h.todo
  <2>1. \A q \in (Counted)' : h.op # "usage" /\ quotes'[q].design # h.design => Fresh(q)'
    BY <1>1, <1>3, <1>5, <1>6, <1>7, <1>8 DEF Outdating
  <2> QED BY <1>1, <1>2, <1>4, <1>8, <2>1 DEF Solo, Outdating, At
<1>9. CASE "find" \notin h.todo
  <2>1. AllFresh'
    BY <1>1, <1>5, <1>6, <1>7, <1>9 DEF Outdating, AllFresh
  <2>2. "save" \in h.todo =>
          \A q \in (Counted)' : quotes'[q].design = h.design => ~quotes'[q].isSync
    BY <1>1, <1>3, <1>5, <1>7, <1>9 DEF Outdating, Counted
  <2> QED BY <1>1, <1>2, <1>4, <1>9, <2>1, <2>2 DEF Solo, Outdating, AllFresh, At
<1> QED BY <1>8, <1>9

(***************************************************************************)
(* The last step of a handler: one write, or the archiving of quotes.      *)
(***************************************************************************)

\* A handler that ends with a write, before which nothing was out of date.
LEMMA LastStep ==
  ASSUME IInv, NEW r \in Request, Finish(r), Referring', AllFresh'
  PROVE  Solo(r)'
BY Finished DEF Solo

LEMMA DeleteDesignSolo ==
  ASSUME IInv, NEW r \in Request, Solo(r), DeleteDesign(r) PROVE Solo(r)'
<1> DEFINE d == req[r].design
<1>1. /\ req[r].pc = "deleteDesign" /\ ~At(r, "outdate")
      /\ UNCHANGED <<usage, quotes, proposals, contracts, skipped>>
  BY DEF DeleteDesign, At
<1>2. /\ \A q \in Quotes : quotes[q].design # d
      /\ \A p \in Proposals : proposals[p].design # d
  BY <1>1 DEF Solo, Reads, DesignReads
<1>3. \A x \in Design : x # d => designs'[x] = designs[x]
  BY DEF DeleteDesign, IInv, TypeOK
<1>4. Referring'
  BY <1>1, <1>2, <1>3 DEF Solo, Referring, Quotes, Designs, Proposals, Live, There
<1>5. AllFresh'
  <2>1. \A q \in Quotes : quotes[q].design \in Design
    BY DEF IInv, TypeOK
  <2> QED
    BY <1>1, <1>2, <1>3, <2>1 DEF Solo, AllFresh, Counted, Fresh, Current, Quotes, There
<1> QED BY <1>4, <1>5, LastStep DEF DeleteDesign

LEMMA ArchiveQuotesSolo ==
  ASSUME IInv, NEW r \in Request, Solo(r), ArchiveQuotes(r) PROVE Solo(r)'
<1>1. ~At(r, "outdate") /\ UNCHANGED <<usage, designs, proposals, contracts, skipped>>
  BY DEF ArchiveQuotes, At
<1>2. ASSUME NEW q \in Quote
      PROVE  /\ quotes'[q].st = quotes[q].st /\ quotes'[q].design = quotes[q].design
             /\ quotes'[q].basis = quotes[q].basis /\ quotes'[q].isSync = quotes[q].isSync
  <2>1. quotes[q] \in [st : St, design : Design \cup {None}, basis : Basis,
                       isSync : BOOLEAN, isArchived : BOOLEAN]
    BY DEF IInv, TypeOK
  <2>2. quotes'[q] = quotes[q] \/ quotes'[q] = [quotes[q] EXCEPT !.isArchived = TRUE]
    BY DEF ArchiveQuotes
  <2> QED BY <2>1, <2>2
<1>3. Referring'
  BY <1>1, <1>2 DEF Solo, Referring, Quotes, Designs, Proposals, Live, There, IInv, TypeOK
<1>4. AllFresh'
  BY <1>1, <1>2 DEF Solo, AllFresh, Counted, Fresh, Current, Quotes, There
<1> QED BY <1>3, <1>4, LastStep DEF ArchiveQuotes

LEMMA InsertQuoteSolo ==
  ASSUME IInv, NEW r \in Request, Solo(r), NEW x \in Quote, InsertQuote(r, x)
  PROVE  Solo(r)'
<1> DEFINE h == req[r]
<1>1. /\ h.pc = "insertQuote" /\ ~At(r, "outdate") /\ x \notin Quotes
      /\ UNCHANGED <<usage, designs, proposals, contracts, skipped>>
  BY DEF InsertQuote, At, Quotes, There
<1>2. h.design \in Designs /\ h.basis = Current(h.design)
  BY <1>1 DEF Solo, Reads, QuoteReads
<1>3. /\ quotes'[x].st = "there" /\ quotes'[x].design = h.design /\ quotes'[x].basis = h.basis
      /\ \A q \in Quote : q # x => quotes'[q] = quotes[q]
  BY DEF InsertQuote, IInv, TypeOK
<1>4. Referring'
  BY <1>1, <1>2, <1>3 DEF Solo, Referring, Quotes, Designs, Proposals, Live, There
<1>5. AllFresh'
  BY <1>1, <1>2, <1>3 DEF Solo, AllFresh, Counted, Fresh, Current, Quotes, There
<1> QED BY <1>4, <1>5, LastStep DEF InsertQuote

\* The whole quote is written: with its own figures, or with those of now.
LEMMA WriteQuoteSolo ==
  ASSUME IInv, NEW r \in Request, Solo(r), WriteQuote(r) PROVE Solo(r)'
<1> DEFINE h == req[r]
<1>0. PICK x \in Quote : x = h.quote
  BY DEF WriteQuote, At, IInv, Sound, Ready
<1>1. /\ h.pc = "writeQuote" /\ ~At(r, "outdate") /\ h.op \in {"update", "latest"}
      /\ quotes[x].st = "there" => quotes[x].design = h.design
      /\ UNCHANGED <<usage, designs, proposals, contracts>>
  BY <1>0 DEF WriteQuote, At, IInv, Sound, Ready
<1>2. /\ \A p \in Proposals : proposals[p].quote # x
      /\ h.design \in Designs
      /\ h.op = "update" => h.basis = quotes[x].basis /\ h.isSync = quotes[x].isSync
      /\ h.op = "latest" => h.basis = Current(h.design)
  BY <1>0, <1>1 DEF Solo, Reads, UnusedReads, QuoteReads
<1>3. skipped' = IF h.op = "latest" THEN skipped \ {x} ELSE skipped
  BY <1>0 DEF WriteQuote
<1>4. \A q \in Quote : q # x => quotes'[q] = quotes[q]
  BY <1>0 DEF WriteQuote, IInv, TypeOK
<1>5. CASE x \in Quotes
  <2> DEFINE sync == h.op = "latest" \/ h.isSync
  <2>1. h.op = "update" => sync = h.isSync
    <3>1. h.isSync \in BOOLEAN
      BY DEF IInv, Handlers
    <3>2. h.op = "update" => h.op # "latest"
      OBVIOUS
    <3> QED BY <3>1, <3>2, Zenon
  <2>2. PICK archived \in BOOLEAN :
          quotes' = [quotes EXCEPT ![x] =
            [st |-> "there", design |-> h.design, basis |-> h.basis,
             isSync |-> sync, isArchived |-> archived]]
    BY <1>0, <1>5 DEF WriteQuote
  <2> HIDE DEF sync
  <2>3. /\ quotes'[x].st = "there" /\ quotes'[x].design = h.design /\ quotes'[x].basis = h.basis
        /\ h.op = "update" => quotes'[x].isSync = h.isSync
    BY <1>1, <2>1, <2>2 DEF IInv, TypeOK
  <2>4. Referring'
    BY <1>1, <1>2, <1>4, <1>5, <2>3
    DEF Solo, Referring, Quotes, Designs, Proposals, Live, There
  <2>5. Fresh(x)' \/ x \notin (Counted)'
    <3>1. CASE h.op = "latest"
      BY <1>2, <2>3, <3>1, <1>1 DEF Fresh, Current
    <3>2. CASE h.op = "update"
      <4>1. x \in Counted => Fresh(x)
        BY <1>1 DEF Solo, AllFresh
      <4>2. Fresh(x) => Fresh(x)'
        BY <1>1, <1>2, <1>5, <2>3, <3>2 DEF Fresh, Current, Quotes, There
      <4>3. x \in (Counted)' => x \in Counted
        BY <1>3, <1>5, <3>2 DEF Counted
      <4> QED BY <4>1, <4>2, <4>3
    <3> QED BY <1>1, <3>1, <3>2
  <2>6. AllFresh'
    <3>1. ASSUME NEW q \in (Counted)', q # x PROVE Fresh(q)'
      <4>1. q \in Counted /\ q \in Quote /\ quotes'[q] = quotes[q]
        BY <1>3, <1>4, <3>1 DEF Counted, Quotes, There
      <4> QED BY <1>1, <4>1 DEF Solo, AllFresh, Fresh, Current
    <3> QED BY <2>5, <3>1 DEF AllFresh
  <2> QED BY <2>4, <2>6, LastStep DEF WriteQuote
<1>6. CASE x \notin Quotes
  <2>1. quotes' = quotes
    BY <1>0, <1>6 DEF WriteQuote, IInv, TypeOK
  <2>2. Referring'
    BY <1>1, <2>1 DEF Solo, Referring, Quotes, Designs, Proposals, Live, There
  <2>3. AllFresh'
    BY <1>1, <1>3, <1>6, <2>1 DEF Solo, AllFresh, Counted, Fresh, Current, Quotes, There
  <2> QED BY <2>2, <2>3, LastStep DEF WriteQuote
<1> QED BY <1>5, <1>6

LEMMA DeleteQuoteSolo ==
  ASSUME IInv, NEW r \in Request, Solo(r), DeleteQuote(r) PROVE Solo(r)'
<1> DEFINE x == req[r].quote
<1>1. /\ req[r].pc = "deleteQuote" /\ ~At(r, "outdate") /\ x \in Quote
      /\ UNCHANGED <<usage, designs, proposals, contracts>> /\ skipped' = skipped \ {x}
  BY DEF DeleteQuote, At, IInv, Sound, Ready
<1>2. /\ \A p \in Proposals : proposals[p].quote # x
      /\ \A c \in Live : contracts[c].quote # x
  BY <1>1 DEF Solo, Reads, UnusedReads
<1>3. quotes'[x].st = "gone" /\ \A q \in Quote : q # x => quotes'[q] = quotes[q]
  BY <1>1 DEF DeleteQuote, NoQuote, IInv, TypeOK
<1>4. Referring'
  BY <1>1, <1>2, <1>3 DEF Solo, Referring, Quotes, Designs, Proposals, Live, There
<1>5. AllFresh'
  BY <1>1, <1>3 DEF Solo, AllFresh, Counted, Fresh, Current, Quotes, There
<1> QED BY <1>4, <1>5, LastStep DEF DeleteQuote

LEMMA InsertProposalSolo ==
  ASSUME IInv, NEW r \in Request, Solo(r), NEW x \in Proposal, InsertProposal(r, x)
  PROVE  Solo(r)'
<1> DEFINE h == req[r]
<1>1. /\ h.pc = "insertProposal" /\ ~At(r, "outdate")
      /\ UNCHANGED <<usage, designs, quotes, contracts, skipped>>
  BY DEF InsertProposal, At
<1>2. h.design \in Designs /\ (h.found # {} => h.quote \in Quotes /\ h.basis = quotes[h.quote].basis)
  BY <1>1 DEF Solo, Reads, CopyReads
<1>3. /\ proposals'[x].quote = h.quote /\ proposals'[x].design = h.design
      /\ proposals'[x].full = (h.found # {}) /\ proposals'[x].shows = h.basis
      /\ \A p \in Proposal : p # x => proposals'[p] = proposals[p]
  BY DEF InsertProposal, IInv, TypeOK
<1>4. Referring'
  <2>1. Quotes' = Quotes /\ Designs' = Designs /\ Live' = Live
    BY <1>1 DEF Quotes, Designs, Live, There
  <2>2. ASSUME NEW p \in Proposals'
        PROVE  /\ proposals'[p].design \in Designs
               /\ proposals'[p].full => /\ proposals'[p].quote \in Quotes
                                        /\ proposals'[p].shows = quotes[proposals'[p].quote].basis
    <3>1. CASE p = x
      BY <1>2, <1>3, <3>1
    <3>2. CASE p # x
      <4>1. p \in Proposals /\ proposals'[p] = proposals[p]
        BY <1>3, <2>2, <3>2 DEF Proposals, There
      <4> QED BY <4>1 DEF Solo, Referring
    <3> QED BY <3>1, <3>2
  <2> QED BY <1>1, <2>1, <2>2 DEF Solo, Referring
<1>5. AllFresh'
  BY <1>1 DEF Solo, AllFresh, Counted, Fresh, Current, Quotes, There
<1> QED BY <1>4, <1>5, LastStep DEF InsertProposal

LEMMA TrackSentSolo ==
  ASSUME IInv, NEW r \in Request, Solo(r), TrackSent(r) PROVE Solo(r)'
<1>1. ~At(r, "outdate") /\ UNCHANGED <<usage, designs, quotes, contracts, skipped>>
  BY DEF TrackSent, At
<1>2. \A p \in Proposal :
        /\ proposals'[p].st = proposals[p].st /\ proposals'[p].quote = proposals[p].quote
        /\ proposals'[p].design = proposals[p].design /\ proposals'[p].full = proposals[p].full
        /\ proposals'[p].shows = proposals[p].shows
  BY DEF TrackSent, IInv, TypeOK
<1>3. Referring'
  BY <1>1, <1>2 DEF Solo, Referring, Quotes, Designs, Proposals, Live, There
<1>4. AllFresh'
  BY <1>1 DEF Solo, AllFresh, Counted, Fresh, Current, Quotes, There
<1> QED BY <1>3, <1>4, LastStep DEF TrackSent

LEMMA InsertContractSolo ==
  ASSUME IInv, NEW r \in Request, Solo(r), NEW x \in Contract, InsertContract(r, x)
  PROVE  Solo(r)'
<1>1. /\ req[r].pc = "insertContract" /\ ~At(r, "outdate")
      /\ UNCHANGED <<usage, designs, quotes, proposals, skipped>>
  BY DEF InsertContract, At
<1>2. req[r].quote \in Quotes
  BY <1>1 DEF Solo, Reads, CopyReads
<1>3. contracts'[x].quote = req[r].quote /\ \A c \in Contract : c # x => contracts'[c] = contracts[c]
  BY DEF InsertContract, IInv, TypeOK
<1>4. Referring'
  BY <1>1, <1>2, <1>3 DEF Solo, Referring, Quotes, Designs, Proposals, Live, There
<1>5. AllFresh'
  BY <1>1 DEF Solo, AllFresh, Counted, Fresh, Current, Quotes, There
<1> QED BY <1>4, <1>5, LastStep DEF InsertContract

(***************************************************************************)
(* Steps that no handler under way takes, and that may come beside one.    *)
(***************************************************************************)
LEMMA CreateDesignWhole ==
  ASSUME IInv, Whole, NEW r \in Request, NEW d \in Design, CreateDesign(r, d)
  PROVE  Whole'
<1>1. UNCHANGED <<usage, quotes, proposals, contracts, req, skipped>> /\ d \notin Designs
  BY DEF CreateDesign, Designs, There
<1>2. /\ Designs \subseteq Designs'
      /\ \A x \in Design : designs'[x].version = designs[x].version
  BY DEF CreateDesign, IInv, TypeOK, Designs, There
<1>3. \A x \in Design : Current(x)' = Current(x)
  BY <1>1, <1>2 DEF Current
<1>4. Referring'
  BY <1>1, <1>2 DEF Whole, Referring, Quotes, Proposals, Live, There
<1>5. \A q \in Counted : Fresh(q) => Fresh(q)'
  <2>1. \A q \in Quotes : quotes[q].design \in Design
    BY DEF IInv, TypeOK
  <2> QED BY <1>1, <1>2, <2>1 DEF Fresh, Current, Counted
<1>6. (Counted)' = Counted
  BY <1>1 DEF Counted, Quotes, There
<1>7. ASSUME NEW s \in Request PROVE Reads(req[s])'
  <2>1. Reads(req[s]) /\ req' = req
    BY <1>1 DEF Whole
  <2>2. DesignReads(req[s])' /\ UnusedReads(req[s])'
    BY <1>1, <2>1 DEF Reads, DesignReads, UnusedReads, Quotes, Proposals, Live, There
  <2>3. QuoteReads(req[s])'
    BY <1>1, <1>2, <2>1 DEF Reads, QuoteReads, Quotes, There, Current, Designs
  <2>4. CopyReads(req[s])'
    BY <1>1, <1>2, <2>1 DEF Reads, CopyReads, Quotes, There
  <2> QED BY <2>2, <2>3, <2>4 DEF Reads
<1>8. ASSUME NEW s \in Request, At(s, "outdate") PROVE Outdating(req[s])'
  BY <1>1, <1>5, <1>6, <1>8 DEF Whole, Outdating
<1> QED BY <1>1, <1>4, <1>5, <1>6, <1>7, <1>8 DEF Whole, At

\* A proposal that is deleted, a contract that is voided: nothing refers to either.
LEMMA LessInUseWhole ==
  ASSUME IInv, Whole, UNCHANGED <<usage, designs, quotes, req, skipped>>,
         Proposals' \subseteq Proposals, \A p \in (Proposals)' : proposals'[p] = proposals[p],
         Live' \subseteq Live, \A c \in (Live)' : contracts'[c].quote = contracts[c].quote
  PROVE  Whole'
<1>1. Quotes' = Quotes /\ Designs' = Designs /\ (Counted)' = Counted
  BY DEF Quotes, Designs, Counted, There
<1>2. Referring'
  BY <1>1 DEF Whole, Referring
<1>3. \A q : Fresh(q) => Fresh(q)'
  BY DEF Fresh, Current
<1>4. ASSUME NEW s \in Request PROVE Reads(req[s])'
  BY <1>1 DEF Whole, Reads, DesignReads, UnusedReads, QuoteReads, CopyReads, Current
<1>5. ASSUME NEW s \in Request, At(s, "outdate") PROVE Outdating(req[s])'
  BY <1>1, <1>3, <1>5 DEF Whole, Outdating
<1> QED BY <1>1, <1>2, <1>3, <1>4, <1>5 DEF Whole, At

LEMMA DeleteProposalWhole ==
  ASSUME IInv, Whole, NEW r \in Request, NEW p \in Proposal, DeleteProposal(r, p)
  PROVE  Whole'
<1>1. proposals'[p].st = "gone" /\ \A x \in Proposal : x # p => proposals'[x] = proposals[x]
  BY DEF DeleteProposal, NoProposal, IInv, TypeOK
<1> QED BY <1>1, LessInUseWhole DEF DeleteProposal, Proposals, Live, There

LEMMA VoidContractWhole ==
  ASSUME IInv, Whole, NEW c \in Contract, VoidContract(c) PROVE Whole'
<1>1. contracts'[c].st = "voided" /\ \A x \in Contract : x # c => contracts'[x] = contracts[x]
  BY DEF VoidContract, IInv, TypeOK
<1> QED BY <1>1, LessInUseWhole DEF VoidContract, Proposals, Live, There

(***************************************************************************)
(* The whole.                                                              *)
(***************************************************************************)

\* A step of one handler leaves the others where they are.
LEMMA OthersStay ==
  ASSUME IInv, NEW r \in Request, Arrive(r) \/ Continue(r)
  PROVE  \A s \in Request : s # r => req'[s] = req[s]
BY OneHandlerMoves

LEMMA ArriveSolo ==
  ASSUME IInv, NEW r \in Request, Solo(r), Arrive(r)
  PROVE  \/ Solo(r)'
         \/ \E d \in Design : CreateDesign(r, d)
         \/ \E p \in Proposal : DeleteProposal(r, p)
<1>1. CASE UpdateUsage(r)
  BY <1>1, UpdateUsageSolo
<1>2. CASE \E d \in Design :
             \/ CreateDesign(r, d) \/ StartUpdateDesign(r, d) \/ StartDeleteDesign(r, d)
             \/ StartCreateQuote(r, d) \/ StartArchiveDesign(r, d)
  BY <1>2, StartUpdateDesignSolo, StartDeleteDesignSolo, StartCreateQuoteSolo,
     StartArchiveDesignSolo
<1>3. CASE \E q \in Quote : StartDeleteQuote(r, q) \/ StartContract(r, q)
  BY <1>3, StartDeleteQuoteSolo, StartContractSolo
<1>4. CASE \E q \in Quote, d \in Design : StartReQuote(r, q, d) \/ StartProposal(r, q, d)
  BY <1>4, StartReQuoteSolo, StartProposalSolo
<1>5. CASE \E q \in Quote, op \in {"update", "latest"} : OpenQuote(r, q, op)
  BY <1>5, OpenQuoteSolo
<1>6. CASE \E p \in Proposal : StartSend(r, p) \/ DeleteProposal(r, p)
  BY <1>6, StartSendSolo
<1> QED BY <1>1, <1>2, <1>3, <1>4, <1>5, <1>6 DEF Arrive

LEMMA ContinueSolo ==
  ASSUME IInv, NEW r \in Request, Solo(r), Continue(r) PROVE Solo(r)'
<1>1. CASE CountQuotes(r) \/ CheckProposalsOfDesign(r) \/ CheckContractsOfDesign(r)
  BY <1>1, CountQuotesSolo, CheckProposalsOfDesignSolo, CheckContractsOfDesignSolo
<1>2. CASE SaveDesign(r) \/ FindOutdated(r) \/ MarkOutdated(r) \/ DeleteDesign(r)
  BY <1>2, SaveDesignSolo, FindOutdatedSolo, MarkOutdatedSolo, DeleteDesignSolo
<1>3. CASE CheckSent(r) \/ ArchiveDesign(r) \/ FindQuotes(r) \/ ArchiveQuotes(r)
  BY <1>3, CheckSentSolo, ArchiveDesignSolo, FindQuotesSolo, ArchiveQuotesSolo
<1>4. CASE CheckProposalsOfQuote(r) \/ CheckContractsOfQuote(r) \/ ReadDesign(r)
  BY <1>4, CheckProposalsOfQuoteSolo, CheckContractsOfQuoteSolo, ReadDesignSolo
<1>5. CASE WriteQuote(r) \/ DeleteQuote(r) \/ TrackSent(r)
  BY <1>5, WriteQuoteSolo, DeleteQuoteSolo, TrackSentSolo
<1>6. CASE \E q \in Quote :
             CheckQuoteProposals(r, q) \/ CheckQuoteContracts(r, q) \/ InsertQuote(r, q)
  BY <1>6, CheckQuoteProposalsSolo, CheckQuoteContractsSolo, InsertQuoteSolo
<1>7. CASE \E p \in Proposal : InsertProposal(r, p)
  BY <1>7, InsertProposalSolo
<1>8. CASE \E c \in Contract : InsertContract(r, c)
  BY <1>8, InsertContractSolo
<1> QED
  BY <1>1, <1>2, <1>3, <1>4, <1>5, <1>6, <1>7, <1>8 DEF Continue

\* Who arrives is under way, but for the two requests that are one step.
LEMMA Started ==
  ASSUME IInv, NEW r \in Request, Arrive(r)
  PROVE  \/ ~At(r, "idle")'
         \/ \E d \in Design : CreateDesign(r, d)
         \/ \E p \in Proposal : DeleteProposal(r, p)
<1> USE IdleSound DEF BeginChange, Begin, Become, IInv, Sound, Handlers, At
<1>1. CASE UpdateUsage(r)
  BY <1>1 DEF UpdateUsage
<1>2. ASSUME NEW d \in Design, StartUpdateDesign(r, d) PROVE ~At(r, "idle")'
  BY <1>2 DEF StartUpdateDesign
<1>3. ASSUME NEW d \in Design, StartDeleteDesign(r, d) PROVE ~At(r, "idle")'
  BY <1>3 DEF StartDeleteDesign
<1>4. ASSUME NEW d \in Design, StartCreateQuote(r, d) PROVE ~At(r, "idle")'
  BY <1>4 DEF StartCreateQuote
<1>5. ASSUME NEW d \in Design, StartArchiveDesign(r, d) PROVE ~At(r, "idle")'
  BY <1>5 DEF StartArchiveDesign
<1>6. ASSUME NEW q \in Quote, StartDeleteQuote(r, q) PROVE ~At(r, "idle")'
  BY <1>6 DEF StartDeleteQuote
<1>7. ASSUME NEW q \in Quote, NEW d \in Design, StartProposal(r, q, d) PROVE ~At(r, "idle")'
  BY <1>7 DEF StartProposal
<1>8. ASSUME NEW q \in Quote, StartContract(r, q) PROVE ~At(r, "idle")'
  BY <1>8 DEF StartContract
<1>9. ASSUME NEW q \in Quote, NEW d \in Design, StartReQuote(r, q, d) PROVE ~At(r, "idle")'
  BY <1>9 DEF StartReQuote
<1>10. ASSUME NEW q \in Quote, NEW op \in {"update", "latest"}, OpenQuote(r, q, op) PROVE ~At(r, "idle")'
  BY <1>10 DEF OpenQuote
<1>11. ASSUME NEW p \in Proposal, StartSend(r, p) PROVE ~At(r, "idle")'
  BY <1>11 DEF StartSend
<1> QED
  BY <1>1, <1>2, <1>3, <1>4, <1>5, <1>6, <1>7, <1>8, <1>9, <1>10, <1>11 DEF Arrive

\* A handler that takes a step is the only one, unless it leaves no handler under way.
LEMMA MovesAlone ==
  ASSUME IInv, NEW r \in Request, Arrive(r) \/ Continue(r), ~Overlap, ~Overlap'
  PROVE  \/ OthersIdle(r) /\ OthersIdle(r)'
         \/ \E d \in Design : CreateDesign(r, d)
         \/ \E p \in Proposal : DeleteProposal(r, p)
<1>1. CASE ~At(r, "idle")
  BY <1>1, OthersStay DEF Overlap, OthersIdle, At
<1>2. CASE ~At(r, "idle")'
  BY <1>2, OthersStay DEF Overlap, OthersIdle, At
<1>3. CASE Arrive(r)
  BY <1>2, <1>3, Started
<1>4. CASE Continue(r)
  <2>1. ~At(r, "idle")
    BY <1>4
    DEF Continue, CountQuotes, CheckProposalsOfDesign, CheckContractsOfDesign, SaveDesign,
        FindOutdated, MarkOutdated, DeleteDesign, CheckSent, ArchiveDesign, FindQuotes,
        ArchiveQuotes, CheckProposalsOfQuote, CheckContractsOfQuote, ReadDesign, WriteQuote,
        DeleteQuote, TrackSent, CheckQuoteProposals, CheckQuoteContracts, InsertQuote,
        InsertProposal, InsertContract, At
  <2> QED BY <1>1, <2>1
<1> QED BY <1>3, <1>4

LEMMA StepWhole ==
  ASSUME IInv, Whole, Step, ~Overlap, ~Overlap' PROVE Whole'
<1>1. ASSUME NEW r \in Request, Arrive(r) \/ Continue(r) PROVE Whole'
  <2>1. CASE OthersIdle(r) /\ OthersIdle(r)'
    <3>1. Solo(r)
      BY <2>1, WholeAlone
    <3>2. \/ Solo(r)'
          \/ \E d \in Design : CreateDesign(r, d)
          \/ \E p \in Proposal : DeleteProposal(r, p)
      BY <1>1, <3>1, ArriveSolo, ContinueSolo
    <3> QED BY <2>1, <3>2, AloneWhole, CreateDesignWhole, DeleteProposalWhole
  <2> QED BY <1>1, <2>1, MovesAlone, CreateDesignWhole, DeleteProposalWhole
<1>2. CASE \E c \in Contract : VoidContract(c)
  BY <1>2, VoidContractWhole
<1> QED BY <1>1, <1>2 DEF Step

LEMMA MonitoredInitInv == MonitoredInit => MonitoredInv
<1> SUFFICES ASSUME MonitoredInit PROVE MonitoredInv
  OBVIOUS
<1>1. IInv
  BY InitInv DEF MonitoredInit
<1>2. \A r \in Request : At(r, "idle")
  BY DEF MonitoredInit, Init, Idle, At
<1>3. Quotes = {} /\ Proposals = {} /\ Live = {}
  BY DEF MonitoredInit, Init, NoQuote, NoProposal, NoContract, Quotes, Proposals, Live, There
<1>4. Whole
  BY <1>2, <1>3, IdleReads DEF Whole, Referring, Counted, At
<1> QED BY <1>1, <1>2, <1>4 DEF MonitoredInit, MonitoredInv, Overlap

LEMMA MonitoredNextInv ==
  ASSUME MonitoredInv, [MonitoredNext]_<<vars, disturbed>> PROVE MonitoredInv'
<1>1. [Next]_vars
  BY DEF MonitoredNext, Next
<1>2. IInv'
  BY <1>1, NextInv DEF MonitoredInv
<1>3. CASE Step /\ disturbed' = (disturbed \/ Overlap')
  <2>1. disturbed' \in BOOLEAN /\ (~disturbed' => ~disturbed /\ ~Overlap')
    BY <1>3 DEF MonitoredInv, Overlap
  <2> QED BY <1>2, <1>3, <2>1, StepWhole DEF MonitoredInv
<1>4. CASE disturbed' = TRUE
  BY <1>2, <1>4 DEF MonitoredInv
<1>5. CASE UNCHANGED <<vars, disturbed>>
  <2>1. disturbed' = disturbed /\ (Overlap' <=> Overlap)
    BY <1>5 DEF Overlap, At, vars
  <2>2. Whole => Whole'
    BY <1>5, LessInUseWhole DEF MonitoredInv, vars, docs, Proposals, Live, There
  <2> QED BY <1>2, <2>1, <2>2 DEF MonitoredInv
<1> QED BY <1>3, <1>4, <1>5 DEF MonitoredNext

THEOREM MonitoredInvariance == MonitoredSpec => []MonitoredInv
BY MonitoredInitInv, MonitoredNextInv, PTL DEF MonitoredSpec

\* Between requests, a quote that counts as up to date agrees with the design and the usage it
\* was computed from, unless a change passed it over because it was in use.
THEOREM StaleQuotesFlagged == MonitoredSpec => []StaleIsFlagged
<1>1. MonitoredInv => StaleIsFlagged
  BY DEF MonitoredInv, Whole, StaleIsFlagged, AtRest, At, Counted, Fresh, Current
<1> QED BY <1>1, MonitoredInvariance, PTL

\* What a document refers to stays: a quote and a proposal have their design, a contract that
\* is not voided its quote, and so does a proposal that was made while its quote was there.
THEOREM NothingDangles == MonitoredSpec => []NoDangling
<1>1. MonitoredInv => NoDangling
  BY DEF MonitoredInv, Whole, Referring, NoDangling
<1> QED BY <1>1, MonitoredInvariance, PTL

\* The figures copied into a proposal are those its quote has for as long as the proposal is
\* there.
THEOREM ProposalsShowTheirQuotes == MonitoredSpec => []ProposalShowsItsQuote
<1>1. MonitoredInv => ProposalShowsItsQuote
  BY DEF MonitoredInv, Whole, Referring, ProposalShowsItsQuote
<1> QED BY <1>1, MonitoredInvariance, PTL
=============================================================================
