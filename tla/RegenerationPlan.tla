-------------------------- MODULE RegenerationPlan --------------------------
(***************************************************************************)
(* What a request that saves a system design promises of the derived data: *)
(* while it saves it settles what has to be regenerated, production alone  *)
(* or the heatmaps and the production after them; it only ever decides for *)
(* more, never for less; and once the save is through exactly what was     *)
(* decided runs, once, before the answer is sent.                          *)
(***************************************************************************)
VARIABLES
  plan,     \* what will be regenerated before the answer
  phase,    \* of the request
  isCreate  \* does the request create the design?

vars == <<plan, phase, isCreate>>

Plan == {"none", "production", "heatmaps"}

\* Heatmaps contain what production contains.
AtLeast(p, q) ==
  \/ q = "none"
  \/ q = "production" /\ p # "none"
  \/ p = "heatmaps"

Init == plan = "none" /\ phase = "saving" /\ isCreate \in BOOLEAN

\* One more panel array of the design was looked at.
Decide(p) ==
  /\ phase = "saving"
  /\ AtLeast(p, plan)
  /\ plan' = p
  /\ UNCHANGED <<phase, isCreate>>

\* The save is through: an update regenerates the production at least.
Run(p) ==
  /\ phase = "saving"
  /\ AtLeast(p, plan)
  /\ ~isCreate => p # "none"
  /\ plan' = p
  /\ phase' = "flushing"
  /\ UNCHANGED isCreate

Answer ==
  /\ phase = "flushing"
  /\ plan' = "none"
  /\ phase' = "answered"
  /\ UNCHANGED isCreate

\* A request that fails regenerates nothing.
Fail ==
  /\ phase = "saving"
  /\ phase' = "failed"
  /\ plan' = "none"
  /\ UNCHANGED isCreate

Next ==
  \/ \E p \in Plan : Decide(p) \/ Run(p)
  \/ Answer
  \/ Fail

Spec == Init /\ [][Next]_vars
=============================================================================
