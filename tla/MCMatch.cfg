SPECIFICATION FairSpec
CONSTANTS
  Seats = {s1, s2}
  NoSeat = NoSeat
  Beacons = {core, b2}
  Core = core
  RoundLimit = 2
  Ladder <- DuelLadder
  RespawnBaseMs = 50
  RespawnGrowthMs = 50
  DecisionTicks = 2
  LastTick = 10
CHECK_DEADLOCK FALSE
INVARIANTS
  CommandersComeBack
  BeaconsAddUp
  FrozenIsThePlannedBoard
  OutcomeIsEarned
  EveryRecapIsSettledOnce
PROPERTIES
  CycleSpec
  MatchIsPlayedOut
