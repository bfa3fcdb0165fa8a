SPECIFICATION Spec
CONSTANTS
  NoTime = NoTime
  NoFilter = NoFilter
  NoCursor = NoCursor
  ReplayFacts <- MCFacts
  Recorded <- MCRecorded
  Requests <- MCRequests
  MaxPageSize = 1
  MaxTime = 5
  MaxMarkers = 2
  MaxRepeats = 1
INVARIANTS
  ViewIsPast
  SettledViewIsExact
  WalkIsOneSnapshot
  ConflictFailsClosed
PROPERTIES
  WalkEnds
