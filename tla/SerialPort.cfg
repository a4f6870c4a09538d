CONSTANTS
  None = None
  Frames = 1
  FrameBytes = 2
  PollLast = 2
  Ports <- MCPorts
  Pads = {1}
  Cards <- MCCards
  CtrlValues <- MCCtrl
  Data = {1}
  Sectors = {0, 1}
  ByteTicks = 1
  AckDelay = 1
  AckPulse = 1
  MaxLate = 1
  MaxUpsets = 1
VIEW Unread
SPECIFICATION Spec
INVARIANTS
  TypeOK
  LateServiceChangesNothing
  CardIsFaithful
