CONSTANTS
  Games = {a, b}
  LastSlot = 1
  None = None
  MaxOps = 2
  MaxChanges = 2
  MaxFaults = 1
SPECIFICATION Spec
INVARIANTS
  TypeOK
  MachineRunsItsGame
  SheetIsTheStore
PROPERTIES
  AnswerComes
CHECK_DEADLOCK FALSE
