\* A client of two threads and another submission of its challenge, K of one (a
\* thread idles) or three, another K after a restart, an hour of one tick on a clock
\* of three, one death, and one queued task whose handler is gone: every order of
\* joining, the loop over the proofs, the verifier's queue and the kernel's checks.
SPECIFICATION BenchSpec
CONSTANTS
  Nonces = {n1}
  Requests = {r1, r2}
  Bench = r1
  ThreadCounts = {2}
  ProofLists <- MCProofLists
  Elapsed = {1}
  Ks = {1, 3}
  Hour = 1
  MaxClock = 2
  MaxOrphans = 1
  MaxCrashes = 1
INVARIANTS
  RunsAreProved
  ElapsedFits
  CheckpointsSurvive
  ProofsInPlace
  HonestRunKept
PROPERTIES
  Answered
