SPECIFICATION FairSpec
CONSTANTS
  west = west
  gate = gate
  east = east
  Places = {west, gate, east}
  Meets <- Line
  Bases = {west}
  Diggable = {gate}
  MaxRows = 2
  FirstRows = 1
  Commanders = {0}
  Cap = 1
  MaxRoute = 2
  Speed = 1
  Price = 2
INVARIANTS SealedIsCutOff NobodyIsPassedOverTwice
PROPERTIES SentUnitsArrive
