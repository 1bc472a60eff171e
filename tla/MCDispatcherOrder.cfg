SPECIFICATION OSpec
CONSTANTS
  t1 = t1
  A = A
  B = B
  f1 = f1
  f2 = f2
  g = g
  h = h
  k = k
  NoMsg = NoMsg
  Thread = {t1}
  Asker = {}
  Actor = {A, B}
  Msg <- MCMsg
  Parent <- MCParent
  Target <- MCTarget
  Chains <- MCChains
  ErrReply <- MCErrReply
  Request <- MCRequest
  Answers <- MCAnswers
INVARIANT EarlierActivationInFront
