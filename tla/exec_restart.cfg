\* One executor, two coins, one crash or raised call.
SPECIFICATION Spec
CONSTANTS
  a = a
  b = b
  x = x
  y = y
  exec = exec
  sentry = sentry
  NoCand = NoCand
  Coins = {x, y}
  Cands <- TwoCands
  CoinOf <- TwoCoins
  FollowupMax = 1
  RestingMayFill = FALSE
  Procs = {exec}
  IntakeProcs = {exec}
  Protected = TRUE
  MaxOpen = 1
  MaxTrades = 0
  BatchLimit = 2
  MaxFaults = 1
  MaxHalts = 1
INVARIANT TypeOK
INVARIANT OrphanNeedsFault
INVARIANT VanishedIsFlat
INVARIANT NoSkippedCandidate
INVARIANT NoLostWait
INVARIANT LooksBounded
INVARIANT OpenCapHolds
