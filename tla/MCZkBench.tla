----------------------------- MODULE MCZkBench -----------------------------
(* Values of ZkBench's constants that a cfg cannot spell. *)
EXTENDS ZkBench

\* What the others send: a list that passes, and one that fails at each stage.
MCProofLists ==
  {<<"good", "good", "good">>, <<"good", "invalid", "good">>, <<"unbound", "good", "good">>}
=============================================================================
