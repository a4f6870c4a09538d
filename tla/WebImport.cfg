CONSTANTS
  Games = {a, b}
  LastSlot = 1
  None = None
  MaxOps = 2
  MaxChanges = 2
  MaxFaults = 1
SPECIFICATION Spec
INVARIANTS
  ImportNeverReplaces
CHECK_DEADLOCK FALSE
