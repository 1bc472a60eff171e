SPECIFICATION Spec
CONSTANTS
  Key = {k1, k2}
  Val = {v1, Nil}
  Nil = Nil
  KeyRemoved = KeyRemoved
  Absent = Absent
  MaxLayers = 4
INVARIANTS
  StandsForMap
