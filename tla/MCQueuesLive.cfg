\* One row in each queue and two workers, with fairness: the budgets and the
\* promise that every row settles.  No symmetry, which liveness forbids; two
\* tokens, for one row never needs a third.
SPECIFICATION FairQSpec
CONSTANTS
  everywhere = everywhere
  elsewhere = elsewhere
  Event = {e1}
  Relay = {w1, w2}
  NoEvent = none
  BatchLimit = 1
  MaxRevivals = 1
  Published = {e3}
  Subscription = {s1}
  Sender = {w1, w2}
  NoDelivery = none
  SendLimit = 1
  MaxRevivalsOf = 0
  Notice = {e3}
  Recipient = {everywhere}
  Organization = {"alpha", "beta"}
  Platform = platform
  ScopeOf <- NoScope
  TenantOf <- Tenants
  Courier = {w1, w2}
  NoNotice = none
  CourierLimit = 1
  AskedDelay = {0}
  Token = {t1, t2}
  NoToken = none
  Lease = 1
  RetryDelay <- DoublingFromOne
  MaxAttempts = 2
  MaxReclaims = 1
  Horizon = 1
INVARIANTS QTypeOK DeadHasSpentABudget MessagedWithinBudget
PROPERTIES EveryRowSettles EveryDeliverySettles EveryNotificationSettles
