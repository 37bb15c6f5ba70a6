\* One agreement of two periods, two billers, four commands.
SPECIFICATION BSpec
CONSTANTS
  Agreement = {a1}
  Biller = {b1, b2}
  NoJob = none
  Report = {r1}
  MaxCommands = 4
  MaxUsage = 1
  MaxPeriods = 2
  MaxFunds = 1
  Quota = 1
INVARIANT CaptureIsExplained
CHECK_DEADLOCK FALSE
