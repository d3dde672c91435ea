----------------------- MODULE MCDocusignAuthMonitored -----------------------
(***************************************************************************)
(* DocusignAuth with a monitor: has anything happened that a single        *)
(* request on a working DocuSign never meets?                              *)
(***************************************************************************)
EXTENDS MCDocusignAuth

VARIABLE disturbed   \* two requests have overlapped, or DocuSign has refused

Overlap == \E r, s \in Request : r # s /\ ~At(r, "idle") /\ ~At(s, "idle")

MonitoredInit == Init /\ disturbed = FALSE
MonitoredNext ==
  \/ Step /\ disturbed' = (disturbed \/ Overlap')
  \/ \E r \in Request : Refuse(r) /\ disturbed' = TRUE
MonitoredSpec == MonitoredInit /\ [][MonitoredNext]_<<vars, disturbed>>

\* As long as requests come one at a time and DocuSign accepts, every call is made
\* with the account set and live tokens in both headers, through restarts, replaced
\* credentials and refreshes of other processes.
UndisturbedCallIsAuthorised == disturbed \/ CallIsAuthorised
=============================================================================
