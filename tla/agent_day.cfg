\* The agent over two days, an operator beside it, one fault.
SPECIFICATION FairSpec
CONSTANTS
  a = a
  b = b
  Cands = {a, b}
  Files = {1}
  Batch <- TwoBatches
  PassLimit = 1
  LastDay = 2
  Operator = operator
  Promoters = {"agent", operator}
  AutoPromotes = TRUE
  ExecEvery = 2
  SentryEvery = 1
  StaleAfter = 0
  MaxBackoff = 2
  DayLength = 2
  DailyAt = 1
  MaxProposals = 1
  MaxFaults = 1
INVARIANT ArchivedIsQueued
INVARIANT JobRunsBounded
INVARIANT JobJournals
INVARIANT AuditedIsConsumed
PROPERTY QueueIsDrained
PROPERTY DailyIsServed
