SPECIFICATION Spec
CONSTANTS
  NumSeats = 2
  p1 = p1
  p2 = p2
  Plans = {p1, p2}
  RoundLimit = 2
  MaxProcesses = 3
  MaxFailures = 1
  MaxSeq = 7
SYMMETRY EitherPlan
CHECK_DEADLOCK FALSE
INVARIANTS
  WatchedPushIsReplayed
  ReplayInputsAgree
  ViewsAreOnesOwn
PROPERTIES
  SavesGoForward
