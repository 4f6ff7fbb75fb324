\* Two overlapping builders, one hang-up and one death leave a torn blob.
SPECIFICATION Spec
CONSTANTS
  Builders = {b1, b2}
  Pins = {p1, p2}
  LastChunk = 2
  None = None
  MaxFails = 1
  MaxCrashes = 1
\* Once the cell is initialised and the deaths are used up, nothing is left to do.
CHECK_DEADLOCK FALSE
INVARIANT
  NoTornBlobAfterCrash
