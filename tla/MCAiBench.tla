----------------------------- MODULE MCAiBench -----------------------------
(* Values of AiBench's constants that a cfg cannot spell. *)
EXTENDS AiBench

MCRequests == 0..40
=============================================================================
