SPECIFICATION Spec
CONSTANTS
  Small = {s1}
  Large = {m1, m2}
  Chunks = 2
  Window = 2
  Resent = {m1}
INVARIANTS
  GivenWhole
