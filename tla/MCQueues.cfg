\* Two events, two relays and batches of two: stale holders, half-finished
\* batches and recoveries that overlap.  One delivery that an operator may
\* revive, one message, and a recipient of another tenant.
SPECIFICATION QSpec
CONSTANTS
  everywhere = everywhere
  elsewhere = elsewhere
  Event = {e1, e2}
  Relay = {w1, w2}
  NoEvent = none
  BatchLimit = 2
  MaxRevivals = 0
  Published = {e3}
  Subscription = {s1}
  Sender = {w1, w2}
  NoDelivery = none
  SendLimit = 2
  MaxRevivalsOf = 1
  Notice = {e3}
  Recipient = {everywhere, elsewhere}
  Organization = {"alpha", "beta"}
  Platform = platform
  ScopeOf <- Scopes
  TenantOf <- Tenants
  Courier = {w1, w2}
  NoNotice = none
  CourierLimit = 2
  AskedDelay = {0}
  Token = {t1, t2, t3}
  NoToken = none
  Lease = 1
  RetryDelay <- DoublingFromOne
  MaxAttempts = 2
  MaxReclaims = 1
  Horizon = 1
SYMMETRY Symm
INVARIANTS HeldCopyIsCurrent OneHolder FanOutWithPublication StopsSending SendsAreBudgeted
PROPERTIES WorkIsExclusive DeliveryIsExclusive NotificationIsExclusive
