\* Three clients on a map capped at one entry, so that trims and wipes happen
\* with every other request; windows of two seconds and a half, a second being two
\* ticks, on a clock that sees one of them end and the next one past its middle.
SPECIFICATION Spec
CONSTANTS
  Keys = {a, b, c}
  MaxPerWindow = 1
  Window = 5
  Second = 2
  Cap = 1
  MaxClock = 7
  MaxHits = 6
SYMMETRY Clients
CHECK_DEADLOCK FALSE
INVARIANTS
  MemoryBounded
  Allowance
PROPERTY
  RetryIsGranted
