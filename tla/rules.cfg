\* Configuration, gate, ledger and statistics in a loop.
SPECIFICATION Spec
CONSTANTS
  x = x
  y = y
  NonFinite = NonFinite
  SignalAge = 60
  RecheckCeiling = 60
  Ticks = 10
  AllowedCoins = {x, y}
  MaxNotional = 4
  MaxLeverage = 2
  MaxGross = 6
  MaxGrossLeverage = 3
  MaxPositions = 2
  MaxTradesPerDay = 0
  MinNotional = 1
  MaxAge = 60
  Floor = 150
  TakerFee = 0
  MarginFrac = 0
  MinCohort = 1
  MinTrades = 2
  MinDays = 1
  MinExpectancy = 0
  MinBucket = 1
  MinSpread = 10
  Setups <- TwoSetups
  Payloads <- SomePayloads
  Sources = {"llm", "rule", "follow_source"}
  Quotes <- SomeQuotes
  Regimes <- SomeRegimes
  Settings <- SomeSettings
  Drafts <- SomeDrafts
  Answers <- SomeAnswers
  Deposit = 20
  AdoptedSize = 2
  MaxAdds = 1
  MaxEntries = 2
  MaxEdits = 1
  MaxProposals = 1
  MaxAdopted = 1
INVARIANT TypeOK
INVARIANT EvidenceCountsOrders
INVARIANT DrawdownIsWorst
INVARIANT ProposalKeepsCadence
PROPERTY CapsHold
