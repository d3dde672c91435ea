----------------------------- MODULE MCContracts -----------------------------
(***************************************************************************)
(* Bounds for model-checking Contracts: symmetry of the envelopes and of   *)
(* the requests, which no definition tells apart.                          *)
(***************************************************************************)
EXTENDS Contracts, TLC

Symmetry == Permutations(Envelope) \cup Permutations(Request)
=============================================================================
