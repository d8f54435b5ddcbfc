SPECIFICATION Spec
CONSTANTS
  MsPerTick = 2
  RoundLimit = 2
  SegmentTicks <- Segments
  LullMs <- Lulls
  MaxClockStep = 2
  MaxReport = 4
  Admin = Admin
  Seat = Seat
  Tokens = {Admin, Seat}
  PerTick <- InATick
  PerWindow <- InAWindow
  WindowTicks = 2
  MaxCalls <- Calls
  MaxRestarts = 2
  LastTick = 8
CHECK_DEADLOCK FALSE
INVARIANTS
  CallsAreMetered
PROPERTIES
  TickNeverFallsBack
  LogNeverFallsBack
  OneStepAReport
