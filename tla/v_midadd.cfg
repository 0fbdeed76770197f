\* A crash in the middle of an add.
SPECIFICATION Spec
CONSTANTS
  Marks = {7, 11, 13, 17}
  MaxMoves = 2
  Entry = 10
  InitialStop = 8
  Target = 16
  Size = 4
  StopLevels = {10, 12}
  TargetLevels = {18}
  ReduceShares = {2}
  MinMove = 0
  AddMinMove = 2
  Room = 8
  MaxAdds = 1
  MaxActions = 2
  MaxCalls = 3
  MaxFaults = 1
INVARIANT CrashLeavesLessRisk
