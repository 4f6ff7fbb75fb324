\* Two challenges, one of which can be minted again, on a clock that ticks and
\* steps back once the window of zero ticks is over; two cut appends and two
\* deaths: enough for a remnant to be glued, replayed, and glued again after a
\* restart.
SPECIFICATION FairSpec
CONSTANTS
  Nonces = {n1, n2}
  Tiers = {}
  Untiered = Untiered
  Terms = {x}
  Window = 0
  MaxClock = 1
  MaxLog = 3
  MaxTorn = 2
  MaxCrashes = 2
INVARIANTS
  TypeOK
  OneRunPerNonce
  BoardSurvives
  LossBounded
  MemoryIsReplay
  RunInItsWindow
PROPERTIES
  Recovers
  ImplementsLedger
