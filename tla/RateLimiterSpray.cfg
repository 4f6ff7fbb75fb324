\* Three clients on a map capped at one entry and a clock that stands still: a
\* window in which the map is wiped four times.
SPECIFICATION Spec
CONSTANTS
  Keys = {a, b, c}
  MaxPerWindow = 1
  Window = 3
  Second = 2
  Cap = 1
  MaxClock = 0
  MaxHits = 10
SYMMETRY Clients
CHECK_DEADLOCK FALSE
INVARIANT
  SprayAtMostDoubles
