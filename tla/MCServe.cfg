SPECIFICATION FairSpec
CONSTANTS
  Clients = {c1, c2, c3}
  MaxConnections = 2
  MaxDials = 1
  MaxAsks = 2
INVARIANTS PlacesAreThreads WaitersAreQueued
PROPERTIES StopIsServed NobodyWaitsForever
CHECK_DEADLOCK FALSE
