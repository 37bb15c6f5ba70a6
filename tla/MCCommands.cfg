\* Two processes, c1 and c2, in every module.  Money: one wallet, one hold of up
\* to two minor units.  Billing: one agreement of two periods, four
\* commands.  Retry: one key and two requests that carry it.  Access: one account,
\* three identities, two tenants.  Reputation: three references.
\* Geography: two countries, two codes, two regions.  A module may have nothing
\* more to do.
SPECIFICATION CSpec
CONSTANTS
  main = main
  Wallet = {main}
  WalletOf <- OneWallet
  Hold = {h1}
  Key = {k1, k2}
  Whole = whole
  Credit = {d1}
  Client = {c1, c2}
  NoCommand = none
  MaxAmount = 2
  Agreement = {a1}
  Biller = {c1, c2}
  NoJob = none
  Report = {r1}
  MaxCommands = 4
  MaxUsage = 1
  MaxPeriods = 2
  MaxFunds = 1
  Quota = 1
  Server = {c1, c2}
  NoRequest = none
  RetryKey = {key}
  Fingerprint = {k1, k2}
  ClaimToken = {t1, t2, t3, t4}
  Horizon = 1
  Retention = 2
  HitLimit = 1
  MaxClaims = 3
  Account = {x1}
  operator = operator
  Person = {operator, p1, p2}
  home = home
  Tenant = {home, away}
  first = first
  Session = {first, second}
  Caller = {c1, c2}
  NoCall = none
  Granted <- AdminOnly
  Source = {q1, q2, q3}
  Consumer = {c1, c2}
  NoReport = none
  Rating = {1, 4}
  Country = {n1, n2}
  Currency = {u1}
  Code = {k1, k2}
  Region = {g1, g2}
  City = {y1}
  Area = {z1, z2}
  Spot = {0, 1}
  RadiusLimit = 1
  Surveyor = {c1, c2}
  NoSearch = none
SYMMETRY Symm
INVARIANTS
  CTypeOK AggregatesAgree ConsentIsACeiling ReferenceMovesMoneyOnce
  EntitledHasPaid PeriodPaidOnce UncontestedBillsAgree
  KeyedWorkDoneOnce ReplayAnswersItsRequest OneIdentityPerAccount
  ListenersAgree CodeMeansOnePlace
PROPERTIES AggregatesOnlyGrow CancellationStands
CHECK_DEADLOCK FALSE
