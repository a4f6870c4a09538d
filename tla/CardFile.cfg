CONSTANTS
  Discs = {g1, g2}
  Exes = {x}
  None = None
  FilesFail = TRUE
  MaxSaves = 2
SPECIFICATION Spec
INVARIANTS
  TypeOK
  EverySaveIsKept
  NoForeignSave
PROPERTIES
  OriginalIsKept
