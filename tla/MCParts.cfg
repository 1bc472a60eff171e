SPECIFICATION MCSpec
CONSTANTS
  Item = {a, b}
  Nothing = Nothing
  MaxLen = 5
  Key = {k1, k2}
  Val = {v1, v2}
  NilValue = NilValue
  KeyRemoved = KeyRemoved
  Absent = Absent
  MaxLayers = 4
  s1 = s1
  s2 = s2
  w = w
  X = X
  Y = Y
  Session = {s1, s2}
  Writer = {w}
  Store = {X, Y}
  Needs <- MCNeeds
  Uuid <- MCUuid
  None = None
  a1 = a1
  a2 = a2
  Lasting = {l}
  Brief = {b1}
  Timed = {a1, a2}
  Outgoing = {1}
  Names <- MCNames
  Ttl = 2
  MaxAnswers = 2
  Sender = {t1, t2}
  Killer = {k}
  Pool = 2
  Nobody = Nobody
CHECK_DEADLOCK FALSE
INVARIANTS
  StandsForSequence
  StandsForMap
  OkWhenDone
  KeptWhileUsed
  ThreadsListed
PROPERTIES
  SessionsAreAtomic
  SessionsEnd
  PurgedInTheEnd
