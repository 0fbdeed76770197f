\* One executor, two candidates for one coin.
SPECIFICATION Spec
CONSTANTS
  a = a
  b = b
  x = x
  y = y
  exec = exec
  sentry = sentry
  NoCand = NoCand
  Coins = {x, y}
  Cands <- TwoCands
  CoinOf <- OneCoin
  FollowupMax = 1
  RestingMayFill = FALSE
  Procs = {exec}
  IntakeProcs = {exec}
  Protected = TRUE
  MaxOpen = 2
  MaxTrades = 0
  BatchLimit = 2
  MaxFaults = 1
  MaxHalts = 1
INVARIANT OnePerCoinHolds
INVARIANT TrackedIsCovered
