SPECIFICATION FairSpec
CONSTANTS
  t1 = t1
  t2 = t2
  q = q
  A = A
  S = S
  Me = Me
  req = req
  ans = ans
  job = job
  f = f
  g = g
  e = e
  NoMsg = NoMsg
  Thread = {t1, t2, q}
  Asker = {q}
  Actor = {A, S, Me}
  Msg <- MCMsg
  Parent <- MCParent
  Target <- MCTarget
  Chains <- MCChains
  ErrReply <- MCErrReply
  Request <- MCRequest
  Answers <- MCAnswers
INVARIANTS
  TypeOK
  OnePlace
PROPERTIES
  HandledAtomically
  EveryMessageHandled
  AskReturns
