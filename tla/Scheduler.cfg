CONSTANTS
  Slots <- MCSlots
  MaxTime <- MCMaxTime
  Deltas <- MCDeltas
  ExcludedSets <- MCExcludedSets
SPECIFICATION Spec
INVARIANTS
  TypeOK
  EarliestIsExact
PROPERTY ImplementsEventQueue
