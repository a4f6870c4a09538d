CONSTANTS
  Indices <- AllThree
  Wrap = 5
  Prescale = 2
  LineClocks = 3
  Lines = 3
  BlankLines = 1
  OffsetLines = 1
  ActiveStart = 1
  ActiveEnd = 2
  DotRates <- MCDotRates
  ReadStall = 1
  ReadExtra = 0
  MaxHeld = 0
  Ticks = {2}
  Counters = {0}
  Targets = {3}
  Modes <- MCModes
SPECIFICATION Spec
INVARIANTS
  TypeOK
  LazyIsEager
