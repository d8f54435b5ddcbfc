SPECIFICATION RunSpec
CONSTANTS
  site = site
  post = post
  core = core
  Road = Road
  NoPlace = NoPlace
  Home = core
  Places = {core, site, post}
  Plans <- Playbooks
  MaxBeacons = 3
  Cost = 1
  Refund = 0
  MaxMoney = 2
  FullHp = 2
  ReflexHp = 1
  Handshake = 1
  RowTime = 2
  Deploy = 1
  MaxDeaths = 1
  MaxPushes = 2
CHECK_DEADLOCK FALSE
INVARIANTS
  MoneyIsAccountedFor
  ReflexIsGoingHome
  StageFitsTheCommander
