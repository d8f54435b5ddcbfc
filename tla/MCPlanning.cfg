SPECIFICATION Spec
CONSTANTS
  Seats = {s1, s2}
  Books = {safe, a}
  SafeBook = safe
  NoBook = NoBook
  Executable = {safe, a}
  a = a
  b = b
  broken = broken
  Reports <- AnyReport
  Advised = {s1}
  Played = {s2}
  DraftIds = {d1}
  MaxDrafts = 1
  RoundLimit = 2
CHECK_DEADLOCK FALSE
INVARIANTS
  ShownSafePlanIsFiled
  SilentSeatPlaysAFiling
  SealedSaveResumes
PROPERTIES
  OrdersSpec OnlyOwnWorkIsCarried
