----------------------------- MODULE MCRegistry -----------------------------
(* Values of Registry's constants that a cfg cannot spell. *)
EXTENDS Registry

\* A list that passes for either K, and one that fails at each stage.
MCProofLists ==
  {<<"good">>, <<"good", "good">>, <<"good", "invalid">>, <<"unbound", "good">>}
=============================================================================
