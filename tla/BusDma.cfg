CONSTANTS
  Channels <- AllFour
  Modes <- MCModes
  Words <- OneOrTwo
  Slots <- MCSlots
  MaxTime <- MCMaxTime
  Cost <- MCCost
  FirstVBlank = 2
  VBlankPeriod = 3
  TickLengths <- JustOne
  DpcrValues <- MCDpcrValues
  DicrValues <- MCDicrValues
  MaxClock = 5
VIEW PendingOnly
CONSTRAINT OnePair
SPECIFICATION Spec
INVARIANTS
  TypeOK
  BusyHasAnEnd
  DmaInterruptNotLost
  VBlankKeepsItsGrid
