CONSTANTS
  Slots = {0}
  Entries = 1
  BrokenEntries = 1
  Names = {A, B}
  Functions = {"open"}
  AutoFormat = FALSE
  FirstCards <- MCEmptyCard
  QuietReset = TRUE
  MaxCalls = 3
  MaxStates = 1
SPECIFICATION StateSpec
CHECK_DEADLOCK FALSE
PROPERTIES
  FilesAreKept
