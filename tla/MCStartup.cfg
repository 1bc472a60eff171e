SPECIFICATION FairSpec
CONSTANTS
  Sender = {t1, t2}
  Killer = {}
  Pool = 2
  Nobody = Nobody
CHECK_DEADLOCK FALSE
PROPERTIES
  EveryMessageHeard
