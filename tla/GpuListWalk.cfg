CONSTANTS
  Programs <- MCPrograms
  Depth = 4
  DrawWords = 2
  DrawCost = 8
  UploadWords = 2
  NodeSetup = 2
  EmptySetup = 1
  Ticks = {1, 2, 5}
SPECIFICATION Spec
INVARIANTS
  TypeOK
  BatchingChangesNothing
  ListsArriveWhole
PROPERTIES
  TransferEnds
