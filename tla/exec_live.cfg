\* One executor under weak fairness.
SPECIFICATION FairSpec
CONSTANTS
  a = a
  b = b
  x = x
  y = y
  exec = exec
  sentry = sentry
  NoCand = NoCand
  Coins = {x, y}
  Cands <- OneCand
  CoinOf <- OneCoin
  FollowupMax = 1
  RestingMayFill = TRUE
  Procs = {exec}
  IntakeProcs = {exec}
  Protected = TRUE
  MaxOpen = 1
  MaxTrades = 0
  BatchLimit = 2
  MaxFaults = 1
  MaxHalts = 1
PROPERTY EveryCandidateHandled
PROPERTY DeferralSettles
