SPECIFICATION FairSpec
CONSTANTS
  A = A
  B = B
  a1 = a1
  a2 = a2
  b1 = b1
  b2 = b2
  b3 = b3
  NoReq = NoReq
  Request = {a1, b1, b2, b3}
  Ser = {A, B}
  At <- MCAt
  Inner <- MCInner
  Timed = {B}
  Faulty = {b3}
INVARIANTS
  OneAtATime
  NoStrayAnswer
PROPERTIES
  ServedInTurn
  EveryRequestAnswered
