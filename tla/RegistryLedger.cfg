\* The same with two challenges and a K of one: two runs, their ids, and what a
\* checkpoint between them keeps.
SPECIFICATION Spec
CONSTANTS
  Nonces = {n1, n2}
  Requests = {r1, r2}
  ProofLists <- MCProofLists
  Elapsed = {1}
  Ks = {1}
  Hour = 1
  MaxClock = 2
  MaxOrphans = 1
  MaxCrashes = 1
INVARIANT
  OneRunPerNonce
PROPERTY
  ImplementsLedger
