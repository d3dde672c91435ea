--------------------------- MODULE MCUtilityUsage ---------------------------
(***************************************************************************)
(* UtilityUsage with a monitor of what may have torn its stores apart:     *)
(* handlers that overlapped or ended half way, refreshes of the designs    *)
(* that were lost or on their way together.  An update that runs alone and *)
(* succeeds makes up for all of it.                                        *)
(***************************************************************************)
EXTENDS UtilityUsage, TLC

VARIABLES
  clean,   \* nothing has been torn apart since the last update that ran alone
  alone,   \* the requests that have run alone since they began
  overlapped

monitor == <<clean, alone, overlapped>>

Busy == {r \in Request : ~At(r, "idle")}
Overlap == \E r, s \in Busy : r # s
Racing == \E f, g \in pending : f # g

Updated ==
  pending = {} /\ \E r \in alone : req[r].pc = "designs" /\ req'[r] = Idle

MonitoredInit == Init /\ clean = TRUE /\ alone = {} /\ overlapped = FALSE
MonitoredNext ==
  /\ \/ Step /\ clean' = (Updated \/ (clean /\ ~Overlap' /\ ~Racing'))
     \/ Broken /\ clean' = FALSE
  /\ alone' = IF Overlap' THEN {} ELSE {r \in Busy' : r \in alone \/ r \notin Busy}
  /\ overlapped' = (overlapped \/ Overlap')
MonitoredSpec == MonitoredInit /\ [][MonitoredNext]_<<vars, monitor>>

Symmetry == Permutations(Request) \cup Permutations(Profile)

AtRest == Busy = {} /\ pending = {}

(* The three stores agree between requests, or do so again after the next   *)
(* update that runs alone and succeeds, whatever failed or overlapped       *)
(* before it (updateUtilityUsageDetailUtil, getHourlyDataByOpportunityId).  *)

\* S3 holds profiles of one calculation, of the usage in the document and of no fewer
\* systems: of those in its sums, or, where S3 has failed a reader, of all there were then.
ProfilesAgree ==
  clean /\ AtRest /\ doc.sums # Legacy =>
    \A p \in Profile : /\ \A q \in Profile : profile[q] = profile[p]
                       /\ profile[p].usage = doc.sums.usage
                       /\ profile[p].systems >= doc.sums.systems

\* S3 holds the hourly values of the monthly ones in the document; for intervals of a
\* meter they depend on what clients send, and a change of a system keeps them.
HourlyAgrees == clean /\ AtRest /\ doc.mode = "monthly" => hourly = doc.usage

\* The annual usage and the offset of the designs are of the profiles in the document,
\* unless the update that nobody awaits was lost or met another one on its way.
FiguresAgree ==
  clean /\ AtRest => figures.annual = doc.sums /\ figures.sums = doc.sums

(* As long as handlers do not overlap, the annual usage and the offset of   *)
(* the designs are of one usage, never one of each, however late, lost or   *)
(* out of order the updates arrive that nobody awaits, and whatever else    *)
(* fails (updateListSystemDesign, after the document is saved).             *)
FiguresAreOfOneUsage == overlapped \/ figures.annual = figures.sums

(* S3 is written before the document: as long as handlers do not overlap, a *)
(* failure leaves S3 ahead of the document and never behind it, and so does *)
(* a reader that S3 has failed.                                             *)
S3IsAhead ==
  overlapped \/ doc.sums = Legacy \/
    \A p \in Profile : /\ profile[p] # Legacy
                       /\ profile[p].usage >= doc.sums.usage
                       /\ profile[p].systems >= doc.sums.systems
=============================================================================
