\* Paper: no native protection, one entry a day.
SPECIFICATION Spec
CONSTANTS
  a = a
  b = b
  x = x
  y = y
  exec = exec
  sentry = sentry
  NoCand = NoCand
  Coins = {x, y}
  Cands <- TwoCands
  CoinOf <- TwoCoins
  FollowupMax = 1
  RestingMayFill = FALSE
  Procs = {exec}
  IntakeProcs = {exec}
  Protected = FALSE
  MaxOpen = 2
  MaxTrades = 1
  BatchLimit = 2
  MaxFaults = 1
  MaxHalts = 1
INVARIANT DailyBudgetHolds
