--------------------------- MODULE MCAiSubmission ---------------------------
(* Values of AiSubmission's constants that a cfg cannot spell. *)
EXTENDS AiSubmission

CONSTANTS dense, moe

MCStatements == {dense, moe}
MCFactor == [s \in MCStatements |-> IF s = dense THEN 1 ELSE 2]
MCTerms == [statement : Statements, target : Tiers \cup InstanceTargets]
=============================================================================
