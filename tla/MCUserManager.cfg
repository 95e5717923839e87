CONSTANTS
  Threads = {t1, t2, t3}
  Senders = {t3}
  Sessions = {s1, s2}
  Nobody = Nobody
SPECIFICATION FairSpec
INVARIANTS
  TableAgrees
  VisitedRegistered
PROPERTIES
  EveryCallReturns
CHECK_DEADLOCK FALSE
