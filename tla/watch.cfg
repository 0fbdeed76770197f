\* Live and shadow passes over two days, two deaths.
SPECIFICATION Spec
CONSTANTS
  x = x
  LimitPct = 10
  Equities = {90, 100}
  Conditions = {"unmanaged", "liquidation", "halt"}
  Coins = {x}
  Stream <- TwoOfACoin
  LastDay = 2
  MaxMoves = 3
  MaxFaults = 2
INVARIANT LossFromDaysFirst
INVARIANT ToldOncePerChange
INVARIANT ShadowBookedOnce
