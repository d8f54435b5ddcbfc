SPECIFICATION SpendSpec
CONSTANTS
  Payees = {1, 2, 3}
  Requests <- Orders
  Nothing = Nothing
  MaxTreasury = 2
  MaxHeadroom = 1
PROPERTIES
  LadderHolds
  TurnsAreTaken
