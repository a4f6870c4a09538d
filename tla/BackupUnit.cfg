CONSTANTS
  Slots = {0}
  Entries = 3
  BrokenEntries = 1
  Names = {A, B}
  Functions <- MCEvery
  AutoFormat = FALSE
  FirstCards <- MCAllCards
  QuietReset = TRUE
  MaxCalls = 2
  MaxStates = 0
SPECIFICATION FairSpec
CHECK_DEADLOCK FALSE
INVARIANTS
  TypeOK
  CacheIsTheCard
  FilesAreWhole
  DoneIsOnTheCard
PROPERTIES
  FilesAreKept
  EveryCallReturns
