\* One live position with native triggers, one fault at any step.
SPECIFICATION FairSpec
CONSTANTS
  Marks = {11, 13, 17}
  MaxMoves = 1
  Entry = 10
  InitialStop = 8
  Target = 16
  Size = 4
  StopLevels = {10, 12}
  TargetLevels = {18}
  ReduceShares = {2}
  MinMove = 0
  AddMinMove = 2
  Room = 8
  MaxAdds = 1
  MaxActions = 2
  MaxCalls = 2
  MaxFaults = 1
INVARIANT NeverNaked
INVARIANT LedgerNeverTighter
INVARIANT NoAmbush
INVARIANT AddsBounded
PROPERTY FlatIsBooked
