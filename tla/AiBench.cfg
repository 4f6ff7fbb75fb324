\* Tiers from 2^2 to 2^5 and every request up to 40, four ordinals with any of
\* them winning, one to three wins, batches of one to four: a winner at every
\* place of a batch, and at the last ordinal.  A pinned target that scales and one
\* that does not; registries of every version; two setups; a window that a slow
\* run misses, before its submission or during the registry's checks.
SPECIFICATION Spec
CONSTANTS
  None = None
  MinBit = 2
  MaxBit = 5
  HashBits = 13
  Mantissa = 4
  ScaleBits = 3
  ProveRatio = 2
  Requests <- MCRequests
  Bits = {6, 11}
  CpuRate = 1
  GpuRate = 5
  Ks = {1, 3}
  Batches = {1, 3}
  Ordinals = 4
  Setups = {own, other}
  OwnSetup = own
  Faults = {"none", "short", "reversed", "stale", "repeated", "relabelled", "rewritten", "wrapped"}
  Warming = 1
  Proving = 2
  Reproving = 1
  Checking = 1
  Window = 12
\* A run ends.
CHECK_DEADLOCK FALSE
INVARIANTS
  GrantIsNearest
  GrindsItsTier
  GrindPaysForProof
  SearchesInOrder
  WindowIsTheRun
  AcceptedWinsAreDistinct
  HonestRunAccepted
PROPERTY
  Terminates
