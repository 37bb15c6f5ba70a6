\* One event, two dispatchers and a replay, with one consumer per event type as
\* the application wires it, which the bus tries twice.  No fairness is needed.
SPECIFICATION Spec
SYMMETRY Symm
CONSTANTS
  c1 = c1
  c2 = c2
  Event = {e1}
  Dispatcher = {w1, w2}
  Replayer = operator
  Subscribers <- OneSubscriber
  Token = {t1, t2, t3}
  NoToken = none
  NoRecord = none
  Lease = 1
  RetryDelay <- DoublingFromOne
  MaxAttempts = 2
  MaxReclaims = 1
  Horizon = 1
  BusAttempts = 2
  MaxReplays = 1
  ThrownCap = 2
INVARIANTS TypeOK HandledOncePerThrow
PROPERTIES ProcessedIsFinal OnlyTheHolderCharges
