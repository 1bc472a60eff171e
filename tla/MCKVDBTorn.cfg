SPECIFICATION Spec
CONSTANTS
  c1 = c1
  c2 = c2
  c3 = c3
  c4 = c4
  c5 = c5
  k1 = k1
  k2 = k2
  v1 = v1
  v2 = v2
  None = None
  Client = {c1, c2, c4}
  Op <- SaveOps
  Key = {k1, k2}
  Val = {v1, v2}
  Ordered = TRUE
  MaxCrashes = 1
INVARIANTS
  EverythingRead
