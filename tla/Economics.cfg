\* A history of five observations and three more, of a ZK difficulty or of an AI
\* tip's, on a clock of two instants with one death and the fork at any time: an
\* append cut at each of its writes and glued to the next, readers at every point,
\* thinning to as many as seven points, whole products rounded down included.
SPECIFICATION Spec
CONSTANTS
  ZkDifficulties = {1}
  AiDifficulties = {9}
  Older = 5
  Caps = {0, 1, 2, 5, 7}
  MaxClock = 1
  MaxPolls = 8
  MaxCrashes = 1
  Nothing = Nothing
  Part = Part
INVARIANTS
  DifficultyIsZk
  HistoryLossBounded
  ThinnedEvenly
  OldestFirst
