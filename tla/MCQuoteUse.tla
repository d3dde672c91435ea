----------------------------- MODULE MCQuoteUse -----------------------------
(***************************************************************************)
(* QuoteUse with a monitor: has a handler been broken off, or have two     *)
(* overlapped?  No check of the code protects the documents from either.   *)
(***************************************************************************)
EXTENDS QuoteUse, TLC

VARIABLE disturbed

Overlap == \E r, s \in Request : r # s /\ ~At(r, "idle") /\ ~At(s, "idle")

MonitoredInit == Init /\ disturbed = FALSE

\* After a disturbance the handlers under way go on, and none begins: all interleavings
\* of two handlers are explored from all states that undisturbed behaviours reach.
MonitoredNext ==
  \/ /\ Step
     /\ disturbed => \A r \in Request : At(r, "idle") => req'[r] = req[r]
     /\ disturbed' = (disturbed \/ Overlap')
  \/ \E r \in Request : Abandon(r) /\ disturbed' = TRUE
MonitoredSpec == MonitoredInit /\ [][MonitoredNext]_<<vars, disturbed>>

Symmetry == Permutations(Design) \cup Permutations(Quote) \cup Permutations(Request)

AtRest == \A r \in Request : At(r, "idle")

(* Between requests, a quote that counts as up to date agrees with the      *)
(* design and the usage it was computed from, unless a change passed it     *)
(* over because a proposal or a contract was using it (setOutdatedData,     *)
(* updateLatestQuote, reQuote).                                             *)
StaleIsFlagged ==
  (~disturbed /\ AtRest) =>
    \A q \in Quotes \ skipped : quotes[q].isSync =>
      quotes[q].basis = [design |-> designs[quotes[q].design].version, usage |-> usage]

(* What a document refers to stays: the design of a quote and of a proposal, *)
(* the quote of a contract that is not voided, and the quote of a proposal   *)
(* that was made while the quote was there, are there (the checks of         *)
(* deleteQuote and of delete of a design).                                   *)
NoDangling ==
  ~disturbed =>
    /\ \A q \in Quotes : quotes[q].design \in Designs
    /\ \A p \in Proposals :
         proposals[p].design \in Designs /\ (proposals[p].full => proposals[p].quote \in Quotes)
    /\ \A c \in Live : contracts[c].quote \in Quotes

(* The figures copied into a proposal are those of its quote for as long as *)
(* the proposal is there, whatever is done to the quote after (create of    *)
(* proposals, checkInUsed of quotes).                                       *)
ProposalShowsItsQuote ==
  ~disturbed => \A p \in Proposals :
                  proposals[p].full => proposals[p].shows = quotes[proposals[p].quote].basis
=============================================================================
