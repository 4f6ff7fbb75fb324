\* One cut append and one restart lose an acknowledged run.
SPECIFICATION Spec
CONSTANTS
  Nonces = {n1, n2}
  Tiers = {}
  Untiered = Untiered
  Terms = {x}
  Window = 0
  MaxClock = 1
  MaxLog = 3
  MaxTorn = 2
  MaxCrashes = 2
INVARIANT
  TornWritesAreSkipped
