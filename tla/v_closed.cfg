\* The close-out that is refused.
SPECIFICATION Spec
CONSTANTS
  a = a
  b = b
  x = x
  y = y
  exec = exec
  sentry = sentry
  NoCand = NoCand
  Coins = {x, y}
  Cands <- OneCand
  CoinOf <- OneCoin
  FollowupMax = 1
  RestingMayFill = FALSE
  Procs = {exec}
  IntakeProcs = {exec}
  Protected = TRUE
  MaxOpen = 1
  MaxTrades = 0
  BatchLimit = 2
  MaxFaults = 0
  MaxHalts = 0
INVARIANT ClosedIsFlat
