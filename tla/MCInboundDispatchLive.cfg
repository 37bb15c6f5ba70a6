\* One event, two dispatchers and two consumers, with fairness.  No symmetry,
\* which liveness forbids, and no replay, which settles nothing by itself.
SPECIFICATION FairSpec
CONSTANTS
  c1 = c1
  c2 = c2
  Event = {e1}
  Dispatcher = {w1, w2}
  Replayer = operator
  Subscribers <- TwoSubscribers
  Token = {t1, t2, t3}
  NoToken = none
  NoRecord = none
  Lease = 1
  RetryDelay <- DoublingFromOne
  MaxAttempts = 2
  MaxReclaims = 1
  Horizon = 1
  BusAttempts = 1
  MaxReplays = 0
  ThrownCap = 0
INVARIANTS UndisturbedIsExactlyOnce
PROPERTIES EveryEventSettles
