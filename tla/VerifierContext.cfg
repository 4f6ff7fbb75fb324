\* Two builders that may overlap, two pins, blobs of two writes, one failed
\* proof or write and two deaths, each followed by a deployment of either pin.
SPECIFICATION Spec
CONSTANTS
  Builders = {b1, b2}
  Pins = {p1, p2}
  LastChunk = 2
  None = None
  MaxFails = 1
  MaxCrashes = 2
\* Once the cell is initialised and the deaths are used up, nothing is left to do.
CHECK_DEADLOCK FALSE
INVARIANTS
  PublishedWhole
  MendedAtRest
  LeftoversPaid
PROPERTIES
  CellIsReleased
