SPECIFICATION PowerSpec
CONSTANTS
  Beacons = {1, 2, 3}
  Distance <- Sites
  Vents = {v1}
  Output <- OneRichness
  CoreSurplus = 2
  ReviveMargin = 1
  PerUnit = 1
  MaxLoad = 3
  Priorities = {0, 1}
  Normal = 0
PROPERTIES DeficitIsHelpless ShedForOneAbove
