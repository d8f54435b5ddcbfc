SPECIFICATION Spec
CONSTANTS
  Seats = {s1, s2, s3}
  s1 = s1
  s2 = s2
  here = here
  Places = {here}
  Readers = {s1, "nofog"}
  Capacity = 4
  RoundLimit = 2
  SegmentTicks = 2
  Silent <- OneFiled
  LullTicks = 1
  TickLines <- TwoKinds
  MaxLimit = 1
  MaxRestarts = 1
CHECK_DEADLOCK FALSE
INVARIANTS
  RecapTellsItsSegment
  EveryKeptLineIsPublished
  FogFollowsTheMatch
  SteadyReaderMissesNothing
