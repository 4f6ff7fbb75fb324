\* Two submissions in flight over one challenge, under either statement, and one
\* death.  Canonical-moe doubles a target and a hash is at most 5, so that 3 does
\* not scale under it: as a dense tier submitted as canonical-moe, and as what the
\* instance may be configured with for it.  An instance's target is the tier told,
\* a harder or an easier one.  Cut appends are AiStore's run's; here an append
\* succeeds or writes nothing.
SPECIFICATION SubSpec
CONSTANTS
  Nonces = {n1}
  Tiers = {1, 3}
  Untiered = 0
  Terms <- MCTerms
  Window = 0
  MaxClock = 1
  MaxLog = 3
  MaxTorn = 0
  MaxCrashes = 1
  Requests = {r1, r2}
  dense = dense
  moe = moe
  Statements <- MCStatements
  Factor <- MCFactor
  MaxHash = 5
  InstanceTargets = {1, 3}
INVARIANTS
  CreditedAsVerified
  TierHonoured
  OneSubmissionCredited
PROPERTIES
  Answered
