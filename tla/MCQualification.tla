--------------------------- MODULE MCQualification ---------------------------
(***************************************************************************)
(* Bounds for model-checking Qualification: what agents record and what    *)
(* FNI decides in an instance.                                             *)
(***************************************************************************)
EXTENDS Qualification, TLC

JointConsents == {<<"hasApplicantConsent", "yes">>, <<"hasCoApplicant", "yes">>,
                  <<"hasCoApplicant", "no">>, <<"hasCoApplicantConsent", "yes">>}
SingleConsents == {<<"hasApplicantConsent", "yes">>, <<"hasCoApplicant", "no">>}

OnlyApproved == {"APPROVED"}
ApprovedOrPending == {"APPROVED", "PENDING"}
OneOfEachKind == {"APPROVED", "PENDING", "CONDITIONED"}

Symmetry == Permutations(Request) \cup Permutations(Refnum)
=============================================================================
