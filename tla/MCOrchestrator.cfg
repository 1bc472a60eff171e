SPECIFICATION Spec
CONSTANTS
  Asker = {a, b}
  None = 0
  MaxSaves = 1
CHECK_DEADLOCK FALSE
INVARIANTS
  OneStorePerFile
