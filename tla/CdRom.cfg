CONSTANTS
  Discs <- MCDiscs
  Delay <- MCDelay
  Buffers = 2
  Parts = 2
  MaintenanceEvery = 2
  Script <- MCScript
  Targets = {2}
  MaxLate = 2
SPECIFICATION Spec
INVARIANTS
  TypeOK
  StreamIsSingle
  HeldInt1IsNotLost
  UnmaskedInterruptIsSignalled
  BufferIsOneStream
PROPERTIES
  AnnouncedSectorIsCurrent
CHECK_DEADLOCK FALSE
VIEW Unread
CONSTRAINT MaskedOnlyAtRest
