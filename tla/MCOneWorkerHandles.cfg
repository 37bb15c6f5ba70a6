\* No replay and no symmetry: what one retry that outlives its lease does.
SPECIFICATION Spec
CONSTANTS
  c1 = c1
  c2 = c2
  Event = {e1}
  Dispatcher = {w1, w2}
  Replayer = operator
  Subscribers <- OneSubscriber
  Token = {t1, t2, t3}
  NoToken = none
  NoRecord = none
  Lease = 1
  RetryDelay <- DoublingFromOne
  MaxAttempts = 2
  MaxReclaims = 1
  Horizon = 1
  BusAttempts = 2
  MaxReplays = 0
  ThrownCap = 0
INVARIANTS OneWorkerHandles
