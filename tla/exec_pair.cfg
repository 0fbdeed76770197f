\* Two processes that both pull the stream, one candidate, one fault.
SPECIFICATION Spec
CONSTANTS
  a = a
  b = b
  x = x
  y = y
  exec = exec
  sentry = sentry
  NoCand = NoCand
  Coins = {x, y}
  Cands <- OneCand
  CoinOf <- OneCoin
  FollowupMax = 1
  RestingMayFill = FALSE
  Procs = {exec, sentry}
  IntakeProcs = {exec, sentry}
  Protected = TRUE
  MaxOpen = 1
  MaxTrades = 0
  BatchLimit = 2
  MaxFaults = 1
  MaxHalts = 0
SYMMETRY Interchangeable
INVARIANT EntryOnce
INVARIANT ClaimCoversEntry
INVARIANT LedgerMatchesBook
PROPERTY ImplementsEntryClaim
