\* One managing process, a buy and a sell of one coin, one fault.
SPECIFICATION Spec
CONSTANTS
  x = x
  exec = exec
  sentry = sentry
  NoMark = NoMark
  Marks = {36, 72, 108, 144}
  TrailDistance <- SixthTrail
  TrailStartR = 100
  BreakevenTriggerR = 50
  BreakevenBufferR = 50
  ScaleOutR = 100
  ScaleOutParts = 2
  MinMoveR = 10
  RRFloor = 2
  Coins = {x}
  Procs = {sentry}
  Cands = {1, 2}
  Setup <- BothSetup
  Managers = {sentry}
  StopLevels = {54, 90}
  TargetLevels = {18, 162}
  AddSizes = {4}
  MaxAdds = 1
  MaxPasses = 3
  MaxFaults = 1
INVARIANT AccountAgrees
INVARIANT LostNeverProfits
INVARIANT MovedStopHolds
INVARIANT BankedOnce
PROPERTY StopNeverLoosens
