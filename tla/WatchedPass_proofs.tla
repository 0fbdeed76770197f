------------------------- MODULE WatchedPass_proofs -------------------------
(***************************************************************************)
(* Proofs about WatchedPass, for any stream of candidates, any equities    *)
(* and loss limit, any number of days, changes of the world and deaths.    *)
(***************************************************************************)
EXTENDS WatchedPass, FiniteSetTheorems, TLAPS

-----------------------------------------------------------------------------
(* The types. *)

Before == {"resolve", "roll"}
Measured == {"unmanaged", "liquidation", "pull", "halt", "judge", "advance",
             "record unmanaged", "record liquidation", "record halt"}
Running == Before \cup {"start", "measure"} \cup Measured

RunningPass ==
    [at : Running, fires : BOOLEAN, equity : Int, coins : SUBSET Coins,
     danger : [Dangers -> SUBSET Coins], tripped : BOOLEAN, loss : BOOLEAN, day : Nat,
     last : 0..Len(Stream), blocked : BOOLEAN]

Row == [coin : Coins, candidate : Nat, open : BOOLEAN]

WorldTypeOK ==
    /\ BreakerTypeOK
    /\ day \in 1..LastDay
    /\ equity \in Int
    /\ danger \in [Dangers -> SUBSET Coins]
    /\ parked \in BOOLEAN
    /\ faults \in Nat

BookTypeOK ==
    /\ rows \in Seq(Row)
    /\ hwm \in Nat
    /\ pass = Idle \/ pass \in RunningPass
    /\ opened \in [1..LastDay -> SUBSET Int]

TypeInv == WorldTypeOK /\ BookTypeOK

LEMMA Constants ==
    /\ LastDay \in Nat \ {0} /\ Stream \in Seq(Coins) /\ Equities \subseteq Int
    /\ LimitPct \in Nat
BY WatchAssumption, BreakerAssumption DEF WatchAssumption, BreakerAssumption

LEMMA PassStages ==
    ASSUME pass = Idle \/ pass \in RunningPass
    PROVE  /\ pass.at \in Running \cup {"idle"}
           /\ pass.at # "idle" => pass \in RunningPass
           /\ pass.at = "idle" => pass = Idle
<1>1. "idle" \notin Running
  BY DEF Running, Before, Measured
<1>2. pass = Idle => pass.at = "idle"
  BY DEF Idle
<1>3. pass \in RunningPass => pass.at \in Running
  BY DEF RunningPass
<1> QED BY <1>1, <1>2, <1>3

(* Any step of the alerts leaves the pass as it was, but for its stage. *)
LEMMA AlertsMove ==
    ASSUME TypeInv, Alerts
    PROVE  /\ pass \in RunningPass
           /\ pass.at \in Measured
           /\ \E stage \in Measured \ {"advance"} : pass' = [pass EXCEPT !.at = stage]
           /\ pass.at # "advance"
<1>0. pass = Idle \/ pass \in RunningPass
  BY DEF TypeInv, BookTypeOK
<1>1. ASSUME NEW c \in {"unmanaged", "liquidation", "halt"},
             NEW next \in Measured \ {"advance"}, Alert(c, next)
      PROVE  /\ pass \in RunningPass
             /\ pass.at \in Measured \ {"advance"}
             /\ \E stage \in Measured \ {"advance"} : pass' = [pass EXCEPT !.at = stage]
  <2>1. Recording(c) \in Measured \ {"advance"} /\ c \in Measured \ {"advance"}
    BY <1>1 DEF Recording, Measured
  <2>2. /\ pass.at \in Measured \ {"advance"}
        /\ pass' = [pass EXCEPT !.at = next] \/ pass' = [pass EXCEPT !.at = Recording(c)]
    BY <1>1, <2>1 DEF Alert, At, Goes
  <2>3. pass.at # "idle"
    BY <2>2 DEF Measured
  <2> QED BY <1>0, <1>1, <2>1, <2>2, <2>3, PassStages
<1>2. {"liquidation", "pull", "judge"} \subseteq Measured \ {"advance"}
  BY DEF Measured
<1> QED BY <1>1, <1>2 DEF Alerts

LEMMA TypeInvInit == Init => TypeInv
<1> SUFFICES ASSUME Init PROVE TypeInv
  OBVIOUS
<1>1. WorldTypeOK
  <2>1. BreakerTypeOK
    BY DEF Init, BreakerInit, BreakerTypeOK, NoDay
  <2>2. day \in 1..LastDay /\ equity \in Int /\ faults \in Nat
    BY Constants DEF Init
  <2>3. danger \in [Dangers -> SUBSET Coins] /\ parked \in BOOLEAN
    BY DEF Init
  <2> QED BY <2>1, <2>2, <2>3 DEF WorldTypeOK
<1>2. BookTypeOK
  BY DEF Init, BookTypeOK
<1> QED BY <1>1, <1>2 DEF TypeInv

LEMMA WorldKeepsType == TypeInv /\ [Next]_vars => WorldTypeOK'
<1> SUFFICES ASSUME TypeInv, [Next]_vars PROVE WorldTypeOK'
  OBVIOUS
<1>a. WorldTypeOK /\ (pass = Idle \/ pass \in RunningPass)
  BY DEF TypeInv, BookTypeOK
<1>1. CASE EquityMoves \/ DayTurns \/ DangerChanges \/ SwitchFlips \/ DeferralsChange
  <2>1. BreakerTypeOK'
    BY <1>a, <1>1 DEF EquityMoves, DayTurns, DangerChanges, SwitchFlips, DeferralsChange,
       SetBreaker, WorldTypeOK, BreakerTypeOK, breakerVars
  <2>2. day' \in 1..LastDay
    <3>1. day' = day \/ (day < LastDay /\ day' = day + 1)
      BY <1>1 DEF EquityMoves, DayTurns, DangerChanges, SwitchFlips, DeferralsChange
    <3> QED BY <1>a, <3>1, Constants DEF WorldTypeOK
  <2>3. equity' \in Int
    <3>1. equity' = equity \/ equity' \in Equities
      BY <1>1 DEF EquityMoves, DayTurns, DangerChanges, SwitchFlips, DeferralsChange
    <3> QED BY <1>a, <3>1, Constants DEF WorldTypeOK
  <2>4. danger' \in [Dangers -> SUBSET Coins]
    BY <1>a, <1>1 DEF EquityMoves, DayTurns, DangerChanges, SwitchFlips, DeferralsChange,
       WorldTypeOK
  <2>5. parked' \in BOOLEAN /\ faults' \in Nat
    BY <1>a, <1>1 DEF EquityMoves, DayTurns, DangerChanges, SwitchFlips, DeferralsChange, Moves,
       WorldTypeOK
  <2> QED BY <2>1, <2>2, <2>3, <2>4, <2>5 DEF WorldTypeOK
<1>2. CASE RollDay
  <2>1. UNCHANGED <<worldVars, faults>> /\ UNCHANGED <<tripped, dayStart>>
        /\ breakerDay' \in {day, breakerDay}
    BY <1>2 DEF RollDay, RecordDay, Quiet, breakerVars
  <2>2. day \in Nat
    BY <1>a, Constants DEF WorldTypeOK
  <2> QED BY <1>a, <2>1, <2>2 DEF worldVars, WorldTypeOK, BreakerTypeOK
<1>3. CASE RollStart
  <2>1. pass \in RunningPass
    BY <1>a, <1>3, PassStages DEF RollStart, At
  <2>2. pass.equity \in Int
    BY <2>1 DEF RunningPass
  <2> QED BY <1>a, <1>3, <2>2 DEF RollStart, RecordStart, Quiet, worldVars, WorldTypeOK,
      BreakerTypeOK
<1>4. CASE Dies
  BY <1>a, <1>4 DEF Dies, worldVars, breakerVars, WorldTypeOK, BreakerTypeOK
<1>5. CASE \/ StartPass \/ ResolveShadow \/ ReadAccount \/ Measure \/ Alerts \/ PullBatch
           \/ BookShadow \/ PassOver \/ AdvanceHwm \/ EndPass \/ UNCHANGED vars
  <2>1. UNCHANGED <<breakerVars, worldVars, faults>>
    BY <1>5 DEF StartPass, ResolveShadow, ReadAccount, Measure, Alerts, PullBatch, BookShadow,
       PassOver, AdvanceHwm, EndPass, Quiet, vars
  <2> QED BY <1>a, <2>1 DEF worldVars, breakerVars, WorldTypeOK, BreakerTypeOK
<1> QED BY <1>1, <1>2, <1>3, <1>4, <1>5 DEF Next

LEMMA BookKeepsType == TypeInv /\ [Next]_vars => BookTypeOK'
<1> SUFFICES ASSUME TypeInv, [Next]_vars PROVE BookTypeOK'
  OBVIOUS
<1>a. /\ rows \in Seq(Row) /\ hwm \in Nat /\ (pass = Idle \/ pass \in RunningPass)
      /\ opened \in [1..LastDay -> SUBSET Int]
      /\ tripped \in BOOLEAN /\ breakerDay \in Nat /\ day \in 1..LastDay /\ equity \in Int
      /\ danger \in [Dangers -> SUBSET Coins] /\ parked \in BOOLEAN
      /\ Len(Stream) \in Nat
  BY Constants DEF TypeInv, BookTypeOK, WorldTypeOK, BreakerTypeOK
<1>1. CASE \/ EquityMoves \/ DayTurns \/ DangerChanges \/ SwitchFlips \/ DeferralsChange
           \/ UNCHANGED vars
  <2>1. UNCHANGED <<rows, hwm, pass, opened>>
    BY <1>1 DEF EquityMoves, DayTurns, DangerChanges, SwitchFlips, DeferralsChange, Moves,
       historyVars, vars
  <2> QED BY <1>a, <2>1 DEF BookTypeOK
<1>2. CASE StartPass
  <2>1. UNCHANGED <<rows, hwm, opened>>
    BY <1>2 DEF StartPass, historyVars
  <2>2. PICK fires \in BOOLEAN :
           pass' = [at |-> "resolve", fires |-> fires, equity |-> 0, coins |-> {},
                    danger |-> danger, tripped |-> FALSE, loss |-> FALSE, day |-> 0,
                    last |-> 0, blocked |-> FALSE]
    BY <1>2 DEF StartPass
  <2>3. "resolve" \in Running
    BY DEF Running, Before
  <2>4. pass' \in RunningPass
    BY <1>a, <2>2, <2>3 DEF RunningPass
  <2> QED BY <1>a, <2>1, <2>4 DEF BookTypeOK
<1>3. CASE ResolveShadow
  <2>1. UNCHANGED <<hwm, pass, opened>>
    BY <1>3 DEF ResolveShadow, historyVars
  <2>2. PICK i \in DOMAIN rows : rows' = [rows EXCEPT ![i].open = FALSE]
    BY <1>3 DEF ResolveShadow, OpenIds
  <2>3. rows[i] \in Row
    BY <1>a
  <2>4. [rows[i] EXCEPT !.open = FALSE] \in Row
    BY <2>3 DEF Row
  <2>5. rows' \in Seq(Row)
    BY <1>a, <2>2, <2>4
  <2> QED BY <1>a, <2>1, <2>5 DEF BookTypeOK
<1>4. CASE ReadAccount
  <2>1. UNCHANGED <<rows, hwm, opened>> /\ pass \in RunningPass
    BY <1>a, <1>4, PassStages DEF ReadAccount, At, historyVars
  <2>2. OpenCoins \subseteq Coins
    <3>1. ASSUME NEW i \in OpenIds PROVE rows[i].coin \in Coins
      <4>1. rows[i] \in Row
        BY <1>a DEF OpenIds
      <4> QED BY <4>1 DEF Row
    <3> QED BY <3>1 DEF OpenCoins
  <2>3. "roll" \in Running
    BY DEF Running, Before
  <2>4. pass' \in RunningPass
    BY <1>a, <1>4, <2>1, <2>2, <2>3 DEF ReadAccount, RunningPass
  <2> QED BY <1>a, <2>1, <2>4 DEF BookTypeOK
<1>5. CASE RollDay
  <2>1. UNCHANGED <<rows, hwm>> /\ pass \in RunningPass
    BY <1>a, <1>5, PassStages DEF RollDay, At
  <2>2. pass' \in RunningPass
    <3>1. {"start", "measure"} \subseteq Running
      BY DEF Running
    <3> QED BY <1>5, <2>1, <3>1 DEF RollDay, Goes, RunningPass
  <2>3. opened' \in [1..LastDay -> SUBSET Int]
    <3>1. pass.equity \in Int
      BY <2>1 DEF RunningPass
    <3> QED BY <1>a, <1>5, <3>1 DEF RollDay
  <2> QED BY <1>a, <2>1, <2>2, <2>3 DEF BookTypeOK
<1>6. CASE RollStart \/ PassOver \/ AdvanceHwm
  <2>1. /\ UNCHANGED <<rows, opened>> /\ pass \in RunningPass
        /\ hwm' \in {hwm, hwm + 1}
    BY <1>a, <1>6, PassStages DEF RollStart, PassOver, AdvanceHwm, At, historyVars
  <2>2. {"measure", "advance", "judge"} \subseteq Running
    BY DEF Running, Measured
  <2>3. pass' \in RunningPass
    BY <1>6, <2>1, <2>2 DEF RollStart, PassOver, AdvanceHwm, Goes, RunningPass
  <2> QED BY <1>a, <2>1, <2>3 DEF BookTypeOK
<1>7. CASE Measure
  <2>1. UNCHANGED <<rows, hwm, opened>> /\ pass \in RunningPass
    BY <1>a, <1>7, PassStages DEF Measure, At, historyVars
  <2>2. "unmanaged" \in Running /\ DailyLossHit(pass.equity) \in BOOLEAN
    BY DEF Running, Measured, DailyLossHit
  <2>3. pass' \in RunningPass
    BY <1>a, <1>7, <2>1, <2>2 DEF Measure, RunningPass
  <2> QED BY <1>a, <2>1, <2>3 DEF BookTypeOK
<1>8. CASE Alerts
  <2>1. UNCHANGED <<rows, hwm, opened>>
    BY <1>8 DEF Alerts, historyVars
  <2>2. pass \in RunningPass /\ \E stage \in Measured : pass' = [pass EXCEPT !.at = stage]
    BY <1>8, AlertsMove
  <2>3. pass' \in RunningPass
    BY <2>2 DEF RunningPass, Running
  <2> QED BY <1>a, <2>1, <2>3 DEF BookTypeOK
<1>9. CASE PullBatch
  <2>1. UNCHANGED <<rows, hwm, opened>> /\ pass \in RunningPass
    BY <1>a, <1>9, PassStages DEF PullBatch, At, historyVars
  <2>2. "halt" \in Running /\ Len(Stream) \in 0..Len(Stream)
    BY <1>a DEF Running, Measured
  <2>3. pass' \in RunningPass
    BY <1>a, <1>9, <2>1, <2>2 DEF PullBatch, RunningPass
  <2> QED BY <1>a, <2>1, <2>3 DEF BookTypeOK
<1>10. CASE BookShadow
  <2>1. UNCHANGED <<hwm, opened>> /\ pass \in RunningPass
    BY <1>a, <1>10, PassStages DEF BookShadow, At, historyVars
  <2>2. Coin \in Coins
    <3>1. hwm < pass.last /\ pass.last \in 0..Len(Stream)
      BY <1>10, <2>1 DEF BookShadow, RunningPass
    <3>2. hwm + 1 \in 1..Len(Stream)
      BY <1>a, <3>1
    <3> QED BY <3>2, Constants DEF Coin
  <2>3. "advance" \in Running
    BY DEF Running, Measured
  <2>4. pass' \in RunningPass
    BY <1>10, <2>1, <2>2, <2>3 DEF BookShadow, RunningPass
  <2>5. [coin |-> Coin, candidate |-> hwm + 1, open |-> TRUE] \in Row
    BY <1>a, <2>2 DEF Row
  <2>6. rows' \in Seq(Row)
    BY <1>a, <1>10, <2>5 DEF BookShadow
  <2> QED BY <1>a, <2>1, <2>4, <2>6 DEF BookTypeOK
<1>11. CASE EndPass \/ Dies
  BY <1>a, <1>11 DEF EndPass, Dies, historyVars, BookTypeOK
<1> QED BY <1>1, <1>2, <1>3, <1>4, <1>5, <1>6, <1>7, <1>8, <1>9, <1>10, <1>11 DEF Next

LEMMA TypeAlways == Spec => []TypeInv
<1>1. TypeInv /\ [Next]_vars => TypeInv'
  BY WorldKeepsType, BookKeepsType DEF TypeInv
<1> QED BY <1>1, TypeInvInit, PTL DEF Spec

-----------------------------------------------------------------------------
(* The day's loss.  The start that is stored is the one the day opened     *)
(* with, unless the process is between the two commits of the rollover or  *)
(* died there.                                                             *)

OpenedWithStart(d) == \E e \in Int : dayStart = {e} /\ opened[d] = {e}

RollInHand == At("start") => breakerDay # NoDay /\ opened[breakerDay] = {pass.equity}
DayHasStart ==
    breakerDay # NoDay /\ breakerDay \notin cutRoll /\ ~At("start") => OpenedWithStart(breakerDay)
MeasuredToday ==
    /\ At("measure") => breakerDay # NoDay
    /\ pass.at \in Measured =>
           /\ breakerDay # NoDay
           /\ pass.day = breakerDay
           /\ pass.day \notin cutRoll =>
                  \E first \in opened[pass.day] : pass.loss = LossHit(first, pass.equity)

DayInv == breakerDay \in 0..LastDay /\ RollInHand /\ DayHasStart /\ MeasuredToday

(* A step that leaves the day and its start alone, and of the pass what    *)
(* the loss was measured from.                                             *)
LEMMA DayStays ==
    ASSUME DayInv, UNCHANGED <<breakerDay, dayStart, opened, cutRoll>>,
           \/ pass'.at \in Before \cup {"idle"} /\ pass.at # "start"
           \/ pass' = pass
           \/ /\ pass.at \in Measured /\ pass'.at \in Measured
              /\ pass'.day = pass.day /\ pass'.loss = pass.loss /\ pass'.equity = pass.equity
    PROVE  DayInv'
<1>1. At("start")' => At("start") /\ pass'.equity = pass.equity
  BY DEF At, Before, Measured
<1>2. At("start") => At("start")'
  BY DEF At, Measured
<1>3. RollInHand' /\ DayHasStart'
  BY <1>1, <1>2 DEF DayInv, RollInHand, DayHasStart, OpenedWithStart
<1>4. MeasuredToday'
  <2>1. At("measure")' => At("measure")
    BY DEF At, Before, Measured
  <2>2. pass'.at \in Measured => /\ pass.at \in Measured /\ pass'.day = pass.day
                                 /\ pass'.loss = pass.loss /\ pass'.equity = pass.equity
    BY DEF Before, Measured
  <2> QED BY <2>1, <2>2 DEF DayInv, MeasuredToday, LossHit
<1> QED BY <1>3, <1>4 DEF DayInv

LEMMA DayInvNext == TypeInv /\ DayInv /\ [Next]_vars => DayInv'
<1> SUFFICES ASSUME TypeInv, DayInv, [Next]_vars PROVE DayInv'
  OBVIOUS
<1>a. /\ pass = Idle \/ pass \in RunningPass
      /\ opened \in [1..LastDay -> SUBSET Int] /\ day \in 1..LastDay
      /\ breakerDay \in Nat /\ LastDay \in Nat \ {0}
  BY Constants DEF TypeInv, BookTypeOK, WorldTypeOK, BreakerTypeOK
<1>1. CASE \/ EquityMoves \/ DayTurns \/ DangerChanges \/ SwitchFlips \/ DeferralsChange
           \/ ResolveShadow \/ UNCHANGED vars
  <2>1. UNCHANGED <<breakerDay, dayStart, opened, cutRoll, pass>>
    BY <1>1 DEF EquityMoves, DayTurns, DangerChanges, SwitchFlips, DeferralsChange, Moves,
       SetBreaker, ResolveShadow, historyVars, breakerVars, vars
  <2> QED BY <2>1, DayStays
<1>2. CASE StartPass \/ ReadAccount \/ EndPass
  <2>1. UNCHANGED <<breakerDay, dayStart, opened, cutRoll>>
    BY <1>2 DEF StartPass, ReadAccount, EndPass, historyVars, breakerVars
  <2>2. pass.at # "start"
    BY <1>2 DEF StartPass, ReadAccount, EndPass, At
  <2>3. pass'.at \in Before \cup {"idle"}
    <3>1. CASE StartPass
      BY <3>1 DEF StartPass, Before
    <3>2. CASE ReadAccount
      <4>1. pass \in RunningPass
        BY <1>a, <3>2, PassStages DEF ReadAccount, At
      <4>2. pass'.at = "roll"
        BY <3>2, <4>1 DEF ReadAccount, RunningPass
      <4> QED BY <4>2 DEF Before
    <3>3. CASE EndPass
      BY <3>3 DEF EndPass, Idle
    <3> QED BY <1>2, <3>1, <3>2, <3>3
  <2> QED BY <2>1, <2>2, <2>3, DayStays
<1>3. CASE RollDay
  <2>0. pass \in RunningPass /\ pass.at = "roll" /\ UNCHANGED cutRoll
    BY <1>a, <1>3, PassStages DEF RollDay, At
  <2>1. pass.equity \in Int
    BY <2>0 DEF RunningPass
  <2>2. CASE breakerDay # day
    <3>1. /\ breakerDay' = day /\ opened'[day] = {pass.equity}
          /\ pass'.at = "start" /\ pass'.equity = pass.equity
      BY <1>a, <1>3, <2>0, <2>2 DEF RollDay, RecordDay, Goes, RunningPass
    <3>2. breakerDay' \in 0..LastDay /\ breakerDay' # NoDay
      BY <1>a, <3>1 DEF NoDay
    <3> QED BY <3>1, <3>2 DEF DayInv, RollInHand, DayHasStart, MeasuredToday, At, Measured
  <2>3. CASE breakerDay = day
    <3>1. UNCHANGED <<breakerDay, dayStart, opened>> /\ pass'.at = "measure"
      BY <1>3, <2>0, <2>3 DEF RollDay, Goes, RunningPass, breakerVars
    <3>2. breakerDay # NoDay
      BY <1>a, <2>3 DEF NoDay
    <3> QED BY <2>0, <3>1, <3>2 DEF DayInv, RollInHand, DayHasStart, MeasuredToday,
        OpenedWithStart, At, Measured
  <2> QED BY <2>2, <2>3
<1>4. CASE RollStart
  <2>0. pass \in RunningPass /\ pass.at = "start" /\ UNCHANGED <<breakerDay, opened, cutRoll>>
    BY <1>a, <1>4, PassStages DEF RollStart, RecordStart, At, historyVars
  <2>1. dayStart' = {pass.equity} /\ pass'.at = "measure" /\ pass.equity \in Int
    BY <1>4, <2>0 DEF RollStart, RecordStart, Goes, RunningPass
  <2>2. breakerDay # NoDay /\ opened[breakerDay] = {pass.equity}
    BY <2>0 DEF DayInv, RollInHand, At
  <2>3. OpenedWithStart(breakerDay)'
    BY <2>0, <2>1, <2>2 DEF OpenedWithStart
  <2> QED BY <2>0, <2>1, <2>2, <2>3 DEF DayInv, RollInHand, DayHasStart, MeasuredToday, At,
      Measured
<1>5. CASE Measure
  <2>0. pass \in RunningPass /\ pass.at = "measure"
        /\ UNCHANGED <<breakerDay, dayStart, opened, cutRoll>>
    BY <1>a, <1>5, PassStages DEF Measure, At, historyVars, breakerVars
  <2>1. /\ pass'.at = "unmanaged" /\ pass'.loss = DailyLossHit(pass.equity)
        /\ pass'.day = breakerDay /\ pass'.equity = pass.equity
    BY <1>5, <2>0 DEF Measure, RunningPass
  <2>2. breakerDay # NoDay
    BY <2>0 DEF DayInv, MeasuredToday, At
  <2>3. ASSUME breakerDay \notin cutRoll
        PROVE  /\ OpenedWithStart(breakerDay)
               /\ \E first \in opened[breakerDay] : pass'.loss = LossHit(first, pass.equity)
    <3>1. PICK e \in Int : dayStart = {e} /\ opened[breakerDay] = {e}
      BY <2>0, <2>2, <2>3 DEF DayInv, DayHasStart, OpenedWithStart, At
    <3>2. DailyLossHit(pass.equity) <=> LossHit(e, pass.equity)
      BY <3>1 DEF DailyLossHit
    <3>3. pass'.loss = LossHit(e, pass.equity)
      BY <2>1, <3>2 DEF DailyLossHit, LossHit
    <3> QED BY <3>1, <3>3 DEF OpenedWithStart
  <2>4. RollInHand' /\ DayHasStart'
    BY <2>0, <2>1, <2>3 DEF RollInHand, DayHasStart, OpenedWithStart, At
  <2>5. MeasuredToday'
    BY <2>0, <2>1, <2>2, <2>3 DEF MeasuredToday, At, LossHit
  <2> QED BY <2>0, <2>4, <2>5 DEF DayInv
<1>6. CASE Alerts \/ PullBatch \/ BookShadow \/ PassOver \/ AdvanceHwm
  <2>1. UNCHANGED <<breakerDay, dayStart, opened, cutRoll>>
    BY <1>6 DEF Alerts, PullBatch, BookShadow, PassOver, AdvanceHwm, historyVars, breakerVars
  <2>2. pass \in RunningPass /\ pass.at \in Measured
    <3>1. CASE Alerts
      BY <3>1, AlertsMove
    <3>2. CASE PullBatch \/ BookShadow \/ PassOver \/ AdvanceHwm
      BY <1>a, <3>2, PassStages DEF PullBatch, BookShadow, PassOver, AdvanceHwm, At, Measured
    <3> QED BY <1>6, <3>1, <3>2
  <2>3. /\ pass'.at \in Measured
        /\ pass'.day = pass.day /\ pass'.loss = pass.loss /\ pass'.equity = pass.equity
    <3>1. CASE Alerts
      <4>1. PICK stage \in Measured : pass' = [pass EXCEPT !.at = stage]
        BY <3>1, AlertsMove
      <4> QED BY <2>2, <4>1 DEF RunningPass
    <3>2. CASE PullBatch
      BY <2>2, <3>2 DEF PullBatch, RunningPass, Measured
    <3>3. CASE BookShadow
      BY <2>2, <3>3 DEF BookShadow, RunningPass, Measured
    <3>4. CASE PassOver \/ AdvanceHwm
      BY <2>2, <3>4 DEF PassOver, AdvanceHwm, Goes, RunningPass, Measured
    <3> QED BY <1>6, <3>1, <3>2, <3>3, <3>4
  <2> QED BY <2>1, <2>2, <2>3, DayStays
<1>7. CASE Dies
  <2>1. UNCHANGED <<breakerDay, dayStart, opened>> /\ pass'.at = "idle"
        /\ cutRoll \subseteq cutRoll' /\ (At("start") => breakerDay \in cutRoll')
    BY <1>7 DEF Dies, Idle, breakerVars
  <2> QED BY <2>1 DEF DayInv, RollInHand, DayHasStart, MeasuredToday, OpenedWithStart, At,
      Measured
<1> QED BY <1>1, <1>2, <1>3, <1>4, <1>5, <1>6, <1>7 DEF Next

(* A pass that judges a batch measured the day's loss from the equity of   *)
(* the day's first pass, whoever died before, unless one died between the  *)
(* two commits of that day's rollover (breaker.py:49-51).                  *)
THEOREM LossMeasuredFromDaysFirst == Spec => []LossFromDaysFirst
<1>1. Init => DayInv
  <2> SUFFICES ASSUME Init PROVE DayInv
    OBVIOUS
  <2>1. pass.at = "idle" /\ breakerDay = NoDay
    BY DEF Init, BreakerInit, Idle
  <2> QED BY <2>1, Constants DEF DayInv, RollInHand, DayHasStart, MeasuredToday, At, Measured, NoDay
<1>2. DayInv => LossFromDaysFirst
  BY DEF DayInv, MeasuredToday, LossFromDaysFirst, At, Measured
<1> QED BY <1>1, <1>2, DayInvNext, TypeAlways, PTL DEF Spec

-----------------------------------------------------------------------------
(* The hypothetical book.  A candidate that is booked but not yet passed   *)
(* over is owed a fault, once the pass that booked it is gone.             *)

Booked == {rows[i].candidate : i \in DOMAIN rows}
Owed == IF ~At("advance") /\ hwm + 1 \in Booked THEN 1 ELSE 0

OneToACoin == \A i, j \in OpenIds : rows[i].coin = rows[j].coin => i = j
CoinsKnown == pass.at \in Running \ {"resolve"} /\ ~pass.fires => OpenCoins \subseteq pass.coins
BookedInOrder == \A i \in DOMAIN rows : rows[i].candidate \in 1..hwm + 1
BookedAgainByFault == Len(rows) + Owed <= Cardinality(Booked) + faults

BookInv == OneToACoin /\ CoinsKnown /\ BookedInOrder /\ BookedAgainByFault

LEMMA CountTo ==
    ASSUME NEW n \in Nat PROVE Cardinality(1..n) = n
<1>1. Cardinality(1..n) = IF 1 > n THEN 0 ELSE n - 1 + 1
  BY FS_Interval, 1 \in Int, n \in Int
<1> QED BY <1>1

LEMMA BookedFinite ==
    ASSUME hwm \in Nat, BookedInOrder
    PROVE  IsFiniteSet(Booked) /\ Cardinality(Booked) \in Nat
<1>1. IsFiniteSet(1..hwm + 1)
  BY FS_Interval
<1>2. Booked \in SUBSET (1..hwm + 1)
  BY DEF Booked, BookedInOrder
<1> QED BY <1>1, <1>2, FS_Subset, FS_CardinalityType

(* A step that books nothing.                                              *)
LEMMA BookStays ==
    ASSUME BookInv, UNCHANGED <<rows, hwm, faults>>,
           At("advance") => At("advance")',
           pass'.at \in Running \ {"resolve"} /\ ~pass'.fires =>
               OpenCoins \subseteq pass'.coins,
           hwm \in Nat, faults \in Nat, Len(rows) \in Nat
    PROVE  BookInv'
<1>1. Booked' = Booked /\ OpenIds' = OpenIds /\ OpenCoins' = OpenCoins
  BY DEF Booked, OpenIds, OpenCoins
<1>2. OneToACoin' /\ CoinsKnown' /\ BookedInOrder'
  BY <1>1 DEF BookInv, OneToACoin, CoinsKnown, BookedInOrder
<1>3. Owed \in {0, 1} /\ Owed' \in {0, 1} /\ Owed' <= Owed
  BY <1>1 DEF Owed
<1>4. Cardinality(Booked) \in Nat
  BY BookedFinite DEF BookInv
<1>5. BookedAgainByFault'
  BY <1>1, <1>3, <1>4 DEF BookInv, BookedAgainByFault
<1> QED BY <1>2, <1>5 DEF BookInv

LEMMA BookInvNext == TypeInv /\ BookInv /\ [Next]_vars => BookInv'
<1> SUFFICES ASSUME TypeInv, BookInv, [Next]_vars PROVE BookInv'
  OBVIOUS
<1>a. /\ rows \in Seq(Row) /\ hwm \in Nat /\ (pass = Idle \/ pass \in RunningPass)
      /\ faults \in Nat /\ Len(rows) \in Nat /\ DOMAIN rows = 1..Len(rows)
  BY DEF TypeInv, BookTypeOK, WorldTypeOK
<1>b. Owed \in {0, 1} /\ Cardinality(Booked) \in Nat /\ IsFiniteSet(Booked)
  BY <1>a, BookedFinite DEF BookInv, Owed
<1>1. CASE \/ EquityMoves \/ DayTurns \/ DangerChanges \/ SwitchFlips \/ DeferralsChange
           \/ UNCHANGED vars
  <2>1. UNCHANGED <<rows, hwm, pass, faults>>
    BY <1>1 DEF EquityMoves, DayTurns, DangerChanges, SwitchFlips, DeferralsChange, Moves, vars
  <2> QED BY <1>a, <2>1, BookStays DEF BookInv, CoinsKnown, At
<1>2. CASE StartPass \/ EndPass
  <2>1. UNCHANGED <<rows, hwm, faults>>
    BY <1>2 DEF StartPass, EndPass, Quiet
  <2>2. pass.at # "advance" /\ pass'.at \in {"resolve", "idle"}
    BY <1>2 DEF StartPass, EndPass, At, Idle
  <2>3. "idle" \notin Running
    BY DEF Running, Before, Measured
  <2> QED BY <1>a, <2>1, <2>2, <2>3, BookStays DEF At
<1>3. CASE ResolveShadow
  <2>0. UNCHANGED <<hwm, pass, faults>> /\ pass.at = "resolve"
    BY <1>3 DEF ResolveShadow, Quiet, At
  <2>1. PICK i \in OpenIds : rows' = [rows EXCEPT ![i].open = FALSE]
    BY <1>3 DEF ResolveShadow
  <2>2. i \in DOMAIN rows /\ rows[i] \in Row
    BY <1>a DEF OpenIds
  <2>3. /\ DOMAIN rows' = DOMAIN rows /\ Len(rows') = Len(rows)
        /\ \A j \in DOMAIN rows : /\ rows'[j].coin = rows[j].coin
                                  /\ rows'[j].candidate = rows[j].candidate
                                  /\ rows'[j].open => rows[j].open
    BY <1>a, <2>1, <2>2 DEF Row
  <2>4. OpenIds' \subseteq OpenIds /\ Booked' = Booked
    BY <2>3 DEF OpenIds, Booked
  <2>5. OneToACoin' /\ BookedInOrder'
    BY <2>0, <2>3, <2>4 DEF BookInv, OneToACoin, BookedInOrder, OpenIds
  <2>6. CoinsKnown'
    BY <2>0 DEF CoinsKnown
  <2>7. BookedAgainByFault'
    BY <2>0, <2>3, <2>4 DEF BookInv, BookedAgainByFault, Owed, At
  <2> QED BY <2>5, <2>6, <2>7 DEF BookInv
<1>4. CASE ReadAccount
  <2>1. UNCHANGED <<rows, hwm, faults>> /\ pass \in RunningPass /\ pass.at = "resolve"
    BY <1>a, <1>4, PassStages DEF ReadAccount, Quiet, At
  <2>2. ~pass'.fires => OpenCoins \subseteq pass'.coins
    BY <1>4, <2>1 DEF ReadAccount, RunningPass
  <2> QED BY <1>a, <2>1, <2>2, BookStays DEF At
<1>5. CASE RollDay \/ RollStart \/ Measure \/ Alerts \/ PullBatch \/ PassOver
  <2>1. UNCHANGED <<rows, hwm, faults>>
    BY <1>5 DEF RollDay, RollStart, Measure, Alerts, PullBatch, PassOver, Quiet
  <2>2. pass \in RunningPass /\ pass.at \in Running \ {"resolve", "advance"}
    <3>1. CASE Alerts
      BY <3>1, AlertsMove DEF Running, Measured
    <3>2. CASE RollDay \/ RollStart \/ Measure \/ PullBatch \/ PassOver
      BY <1>a, <3>2, PassStages DEF RollDay, RollStart, Measure, PullBatch, PassOver, At,
         Running, Before, Measured
    <3> QED BY <1>5, <3>1, <3>2
  <2>3. pass'.fires = pass.fires /\ pass'.coins = pass.coins
    <3>1. CASE Alerts
      <4>1. PICK stage \in Measured : pass' = [pass EXCEPT !.at = stage]
        BY <3>1, AlertsMove
      <4> QED BY <2>2, <4>1 DEF RunningPass
    <3>2. CASE RollDay \/ RollStart \/ PassOver
      BY <2>2, <3>2 DEF RollDay, RollStart, PassOver, Goes, RunningPass
    <3>3. CASE Measure \/ PullBatch
      BY <2>2, <3>3 DEF Measure, PullBatch, RunningPass
    <3> QED BY <1>5, <3>1, <3>2, <3>3
  <2>4. ~pass.fires => OpenCoins \subseteq pass.coins
    BY <2>2 DEF BookInv, CoinsKnown
  <2> QED BY <1>a, <2>1, <2>2, <2>3, <2>4, BookStays DEF At
<1>6. CASE AdvanceHwm
  <2>0. /\ pass \in RunningPass /\ pass.at = "advance" /\ UNCHANGED <<rows, faults>>
        /\ hwm' = hwm + 1
    BY <1>a, <1>6, PassStages DEF AdvanceHwm, Quiet, At
  <2>1. pass'.at = "judge" /\ pass'.fires = pass.fires /\ pass'.coins = pass.coins
    BY <1>6, <2>0 DEF AdvanceHwm, Goes, RunningPass
  <2>2. Booked' = Booked /\ OpenIds' = OpenIds /\ OpenCoins' = OpenCoins
    BY <2>0 DEF Booked, OpenIds, OpenCoins
  <2>3. OneToACoin' /\ CoinsKnown'
    <3>1. "advance" \in Running \ {"resolve"}
      BY DEF Running, Measured
    <3> QED BY <2>0, <2>1, <2>2, <3>1 DEF BookInv, OneToACoin, CoinsKnown
  <2>4. BookedInOrder' /\ hwm' + 1 \notin Booked'
    <3>1. \A i \in DOMAIN rows : rows[i].candidate \in 1..hwm' + 1 /\ rows[i].candidate # hwm' + 1
      BY <1>a, <2>0 DEF BookInv, BookedInOrder
    <3> QED BY <2>0, <3>1 DEF BookedInOrder, Booked
  <2>5. BookedAgainByFault'
    <3>1. Owed = 0 /\ Owed' = 0
      BY <2>0, <2>4 DEF Owed, At
    <3> QED BY <2>0, <2>2, <3>1 DEF BookInv, BookedAgainByFault
  <2> QED BY <2>3, <2>4, <2>5 DEF BookInv
<1>7. CASE BookShadow
  <2> DEFINE row == [coin |-> Coin, candidate |-> hwm + 1, open |-> TRUE]
             n == Len(rows)
  <2>0. /\ pass \in RunningPass /\ pass.at = "judge" /\ ~pass.fires
        /\ UNCHANGED <<hwm, faults>> /\ rows' = Append(rows, row)
        /\ Coin \notin pass.coins
    BY <1>a, <1>7, PassStages DEF BookShadow, GateMayPass, Quiet, At
  <2>1. /\ pass'.at = "advance" /\ pass'.coins = pass.coins \cup {Coin}
        /\ pass'.fires = pass.fires
    BY <1>7, <2>0 DEF BookShadow, RunningPass
  <2>2. /\ Len(rows') = n + 1 /\ DOMAIN rows' = 1..n + 1
        /\ rows'[n + 1] = row /\ \A i \in 1..n : rows'[i] = rows[i]
    <3> HIDE DEF row
    <3> QED BY <1>a, <2>0
  <2>3. row.coin = Coin /\ row.candidate = hwm + 1 /\ row.open
    OBVIOUS
  <2> HIDE DEF row
  <2>4. DOMAIN rows' = (DOMAIN rows) \cup {n + 1} /\ n + 1 \notin DOMAIN rows
    BY <1>a, <2>2
  <2>5. OpenIds' = OpenIds \cup {n + 1} /\ n + 1 \notin OpenIds
    BY <1>a, <2>2, <2>3, <2>4 DEF OpenIds
  <2>6. Booked' = Booked \cup {hwm + 1}
    BY <1>a, <2>2, <2>3, <2>4 DEF Booked
  <2>7. OpenCoins \subseteq pass.coins
    <3>1. "judge" \in Running \ {"resolve"}
      BY DEF Running, Measured
    <3> QED BY <2>0, <3>1 DEF BookInv, CoinsKnown
  <2>8. \A i \in OpenIds : rows'[i].coin = rows[i].coin /\ rows[i].coin # Coin
    <3>1. \A i \in OpenIds : i \in 1..n /\ rows[i].coin \in OpenCoins
      BY <1>a DEF OpenIds, OpenCoins
    <3> QED BY <2>0, <2>2, <2>7, <3>1
  <2>9. OneToACoin'
    BY <2>2, <2>3, <2>5, <2>8 DEF BookInv, OneToACoin
  <2>10. CoinsKnown'
    <3>1. OpenCoins' = OpenCoins \cup {Coin}
      BY <2>2, <2>3, <2>5, <2>8 DEF OpenCoins
    <3> QED BY <2>1, <2>7, <3>1 DEF CoinsKnown
  <2>11. BookedInOrder'
    <3>1. hwm + 1 \in 1..hwm + 1
      BY <1>a
    <3> QED BY <1>a, <2>0, <2>2, <2>3, <2>4, <3>1 DEF BookInv, BookedInOrder
  <2>12. BookedAgainByFault'
    <3>1. Owed' = 0 /\ Owed = IF hwm + 1 \in Booked THEN 1 ELSE 0
      BY <2>0, <2>1 DEF Owed, At
    <3>2. CASE hwm + 1 \in Booked
      <4>1. Booked' = Booked
        BY <2>6, <3>2
      <4> QED BY <1>a, <1>b, <2>0, <2>2, <3>1, <3>2, <4>1 DEF BookInv, BookedAgainByFault
    <3>3. CASE hwm + 1 \notin Booked
      <4>1. Cardinality(Booked \cup {hwm + 1}) = Cardinality(Booked) + 1
        BY <1>b, <3>3, FS_AddElement
      <4>2. Cardinality(Booked') = Cardinality(Booked) + 1
        BY <2>6, <4>1
      <4> QED BY <1>a, <1>b, <2>0, <2>2, <3>1, <3>3, <4>2 DEF BookInv, BookedAgainByFault
    <3> QED BY <3>2, <3>3
  <2> QED BY <2>9, <2>10, <2>11, <2>12 DEF BookInv
<1>8. CASE Dies
  <2>1. UNCHANGED <<rows, hwm>> /\ faults' = faults + 1 /\ pass'.at = "idle"
    BY <1>8 DEF Dies, Idle
  <2>2. Booked' = Booked /\ OpenIds' = OpenIds
    BY <2>1 DEF Booked, OpenIds
  <2>3. OneToACoin' /\ CoinsKnown' /\ BookedInOrder'
    <3>1. "idle" \notin Running
      BY DEF Running, Before, Measured
    <3> QED BY <2>1, <2>2, <3>1 DEF BookInv, OneToACoin, CoinsKnown, BookedInOrder
  <2>4. BookedAgainByFault'
    <3>1. Owed' \in {0, 1}
      BY DEF Owed
    <3> QED BY <1>a, <1>b, <2>1, <2>2, <3>1 DEF BookInv, BookedAgainByFault
  <2> QED BY <2>3, <2>4 DEF BookInv
<1> QED BY <1>1, <1>2, <1>3, <1>4, <1>5, <1>6, <1>7, <1>8 DEF Next

(* The hypothetical book holds one open row to a coin, and books a         *)
(* candidate once and once more at most for each death between its row and *)
(* the mark (runner.py:136-138, 189-191).                                  *)
THEOREM ShadowBooksOnce == Spec => []ShadowBookedOnce
<1>1. Init => BookInv
  <2> SUFFICES ASSUME Init PROVE BookInv
    OBVIOUS
  <2>1. rows = <<>> /\ hwm = 0 /\ pass.at = "idle" /\ faults = 0
    BY DEF Init, Idle
  <2>2. OpenIds = {} /\ Booked = {}
    BY <2>1 DEF OpenIds, Booked
  <2>3. Owed = 0 /\ Len(rows) = 0 /\ Cardinality(Booked) = 0
    BY <2>1, <2>2, FS_EmptySet DEF Owed
  <2>4. "idle" \notin Running
    BY DEF Running, Before, Measured
  <2> QED BY <2>1, <2>2, <2>3, <2>4 DEF BookInv, OneToACoin, CoinsKnown, BookedInOrder,
      BookedAgainByFault
<1>2. TypeInv /\ BookInv => ShadowBookedOnce
  <2> SUFFICES ASSUME TypeInv, BookInv PROVE ShadowBookedOnce
    OBVIOUS
  <2>1. /\ hwm \in Nat /\ faults \in Nat /\ Len(rows) \in Nat /\ DOMAIN rows = 1..Len(rows)
    BY DEF TypeInv, BookTypeOK, WorldTypeOK
  <2>2. Cardinality(DOMAIN rows) = Len(rows)
    BY <2>1, CountTo
  <2>3. Owed \in {0, 1} /\ Cardinality(Booked) \in Nat
    BY <2>1, BookedFinite DEF BookInv, Owed
  <2>4. Cardinality(DOMAIN rows) <= Cardinality(Booked) + faults
    BY <2>1, <2>2, <2>3 DEF BookInv, BookedAgainByFault
  <2> QED BY <2>4 DEF BookInv, OneToACoin, Booked, ShadowBookedOnce
<1>3. TypeInv /\ BookInv /\ [Next]_vars => BookInv'
  BY BookInvNext
<1> QED BY <1>1, <1>2, <1>3, TypeAlways, PTL DEF Spec

-----------------------------------------------------------------------------
(* What the operator knows.                                                *)

Pictures == SUBSET (Coins \cup {"kill switch", "daily loss"})

AlertTypeOK ==
    /\ known \in [Conditions -> Pictures]
    /\ told \in [Conditions -> Pictures]
    /\ pages \in Nat /\ moves \in Nat /\ faults \in Nat

(* The stages at which the pass is done with a condition.                  *)
Past(c) ==
    CASE c = "unmanaged" -> {"liquidation", "record liquidation", "pull", "halt", "record halt",
                             "judge", "advance"}
      [] c = "liquidation" -> {"pull", "halt", "record halt", "judge", "advance"}
      [] c = "halt" -> {"judge", "advance"}
Looks(c) == c = "halt" => pass.blocked

ToldWhatIsKnown(c) == known[c] # {} /\ c \notin unrecorded => told[c] = known[c]
PagedInHand(c) ==
    At(Recording(c)) => told[c] = Seen(c) /\ Seen(c) # {} /\ c \in unrecorded /\ Looks(c)
SeenIsKnown(c) == pass.at \in Past(c) /\ Looks(c) /\ Seen(c) # {} => known[c] = Seen(c)
CutByFault(c) == c \in unrecorded => At(Recording(c)) \/ faults > 0

Told(c) == ToldWhatIsKnown(c) /\ PagedInHand(c) /\ SeenIsKnown(c) /\ CutByFault(c)
ToldInv == \A c \in Conditions : Told(c)

AfterOf(c) ==
    CASE c = "unmanaged" -> "liquidation"
      [] c = "liquidation" -> "pull"
      [] c = "halt" -> "judge"

LEMMA ThreeConditions ==
    /\ Conditions = {"unmanaged", "liquidation", "halt"}
    /\ Dangers = {"unmanaged", "liquidation"}
BY WatchAssumption DEF WatchAssumption, Dangers

LEMMA AlertsOfOne ==
    ASSUME Alerts
    PROVE  \E c \in Conditions : Alert(c, AfterOf(c))
BY ThreeConditions DEF Alerts, AfterOf

(* A pass sees pictures.                                                   *)
LEMMA SeenIsPicture ==
    ASSUME pass \in RunningPass, NEW c \in Conditions
    PROVE  Seen(c) \in Pictures
<1>1. Reason \in Pictures
  BY DEF Reason, Pictures
<1>2. CASE c # "halt"
  <2>1. c \in Dangers
    BY <1>2, ThreeConditions
  <2>2. pass.danger[c] \in SUBSET Coins
    BY <2>1 DEF RunningPass
  <2> QED BY <1>2, <2>2 DEF Seen, Pictures
<1> QED BY <1>1, <1>2 DEF Seen

(* An alert is skipped, sent, or recorded.                                 *)
Skipped(c) ==
    /\ pass.at = c /\ (Looks(c) /\ Seen(c) # {} => known[c] = Seen(c))
    /\ pass' = [pass EXCEPT !.at = AfterOf(c)] /\ UNCHANGED alertVars
Sent(c) ==
    /\ pass.at = c /\ Seen(c) # {} /\ Seen(c) # known[c] /\ Looks(c)
    /\ Page(c, Seen(c)) /\ pass' = [pass EXCEPT !.at = Recording(c)]
Recorded(c) ==
    /\ \/ pass.at = c /\ Seen(c) = {}
       \/ At(Recording(c))
    /\ Remember(c, Seen(c)) /\ pass' = [pass EXCEPT !.at = AfterOf(c)]

LEMMA AlertIsOneOf ==
    ASSUME NEW c \in Conditions, Alert(c, AfterOf(c))
    PROVE  Skipped(c) \/ Sent(c) \/ Recorded(c)
<1>1. Worth(c) <=> (c = "halt" /\ Seen(c) # {} => pass.blocked)
  BY DEF Worth, Seen
<1>2. CASE At(c) /\ ~News(c) /\ Goes(AfterOf(c)) /\ UNCHANGED alertVars
  BY <1>1, <1>2 DEF Skipped, News, IsNews, Looks, At, Goes
<1>3. CASE At(c) /\ News(c) /\ Seen(c) # {} /\ Page(c, Seen(c)) /\ Goes(Recording(c))
  BY <1>1, <1>3 DEF Sent, News, IsNews, Looks, At, Goes
<1>4. CASE At(c) /\ News(c) /\ Seen(c) = {} /\ Remember(c, {}) /\ Goes(AfterOf(c))
  BY <1>4 DEF Recorded, At, Goes
<1>5. CASE At(Recording(c)) /\ Remember(c, Seen(c)) /\ Goes(AfterOf(c))
  BY <1>5 DEF Recorded, Goes
<1> QED BY <1>2, <1>3, <1>4, <1>5 DEF Alert

(* What the pass has seen does not change with its stage.                  *)
LEMMA StageChangesNoPicture ==
    ASSUME pass \in RunningPass, NEW stage, pass' = [pass EXCEPT !.at = stage],
           NEW c \in Conditions
    PROVE  /\ pass'.at = stage
           /\ Seen(c)' = Seen(c) /\ Looks(c)' = Looks(c)
           /\ pass'.danger = pass.danger /\ pass'.tripped = pass.tripped
           /\ pass'.loss = pass.loss /\ pass'.equity = pass.equity
BY DEF RunningPass, Seen, Reason, Looks

(* The stages of the alerts are apart.                                     *)
LEMMA AlertStages ==
    ASSUME NEW c \in Conditions, NEW d \in Conditions
    PROVE  /\ d # c => /\ Recording(d) \notin {c, Recording(c), AfterOf(c)}
                       /\ {c, Recording(c)} \cap Past(d) # {} =>
                              {c, Recording(c), AfterOf(c)} \subseteq Past(d)
                       /\ {Recording(c), AfterOf(c)} \cap Past(d) # {} =>
                              {c, Recording(c), AfterOf(c)} \subseteq Past(d)
           /\ c \notin Past(c) /\ Recording(c) \notin Past(c) /\ AfterOf(c) \in Past(c)
           /\ AfterOf(c) # Recording(c) /\ c # Recording(c)
           /\ {c, Recording(c), AfterOf(c)} \subseteq Running \ (Before \cup {"start", "measure"})
<1>1. /\ Recording("unmanaged") = "record unmanaged" /\ AfterOf("unmanaged") = "liquidation"
      /\ Recording("liquidation") = "record liquidation" /\ AfterOf("liquidation") = "pull"
      /\ Recording("halt") = "record halt" /\ AfterOf("halt") = "judge"
  BY DEF Recording, AfterOf
<1>2. /\ Past("unmanaged") = {"liquidation", "record liquidation", "pull", "halt", "record halt",
                             "judge", "advance"}
      /\ Past("liquidation") = {"pull", "halt", "record halt", "judge", "advance"}
      /\ Past("halt") = {"judge", "advance"}
  BY DEF Past
<1>3. /\ {"unmanaged", "record unmanaged", "liquidation", "record liquidation", "pull", "halt",
          "record halt", "judge"} \subseteq Running \ (Before \cup {"start", "measure"})
  BY DEF Running, Before, Measured
<1>4. c \in {"unmanaged", "liquidation", "halt"} /\ d \in {"unmanaged", "liquidation", "halt"}
  BY ThreeConditions
<1>5. /\ c \notin Past(c) /\ Recording(c) \notin Past(c) /\ AfterOf(c) \in Past(c)
      /\ AfterOf(c) # Recording(c) /\ c # Recording(c)
      /\ {c, Recording(c), AfterOf(c)} \subseteq Running \ (Before \cup {"start", "measure"})
  BY <1>1, <1>2, <1>3, <1>4
<1>6. d # c => Recording(d) \notin {c, Recording(c), AfterOf(c)}
  BY <1>1, <1>4
<1>7. d # c => /\ {c, Recording(c)} \cap Past(d) # {} =>
                     {c, Recording(c), AfterOf(c)} \subseteq Past(d)
               /\ {Recording(c), AfterOf(c)} \cap Past(d) # {} =>
                     {c, Recording(c), AfterOf(c)} \subseteq Past(d)
  BY <1>1, <1>2, <1>4
<1> QED BY <1>5, <1>6, <1>7

LEMMA ToldThroughAlerts ==
    ASSUME TypeInv, AlertTypeOK, ToldInv, Alerts
    PROVE  ToldInv'
<1>a. PICK c \in Conditions : Alert(c, AfterOf(c))
  BY AlertsOfOne
<1>b. pass \in RunningPass /\ faults' = faults
  BY AlertsMove DEF Alerts, Quiet
<1>c. Skipped(c) \/ Sent(c) \/ Recorded(c)
  BY <1>a, AlertIsOneOf
<1>d. /\ pass.at \in {c, Recording(c)}
      /\ \E stage \in {Recording(c), AfterOf(c)} : pass' = [pass EXCEPT !.at = stage]
  BY <1>c DEF Skipped, Sent, Recorded, At
<1>1. ASSUME NEW d \in Conditions, d # c PROVE Told(d)'
  <2>1. known'[d] = known[d] /\ told'[d] = told[d] /\ (d \in unrecorded' <=> d \in unrecorded)
    BY <1>c, <1>1 DEF Skipped, Sent, Recorded, Page, Remember, alertVars, AlertTypeOK
  <2>2. /\ pass'.at \in {Recording(c), AfterOf(c)}
        /\ Seen(d)' = Seen(d) /\ Looks(d)' = Looks(d)
    BY <1>b, <1>d, StageChangesNoPicture
  <2>3. ~At(Recording(d))' /\ ~At(Recording(d)) /\ (pass'.at \in Past(d) => pass.at \in Past(d))
    BY <1>1, <1>d, <2>2, AlertStages DEF At
  <2> QED BY <1>b, <2>1, <2>2, <2>3 DEF ToldInv, Told, ToldWhatIsKnown, PagedInHand, SeenIsKnown,
      CutByFault
<1>2. Told(c)'
  <2>1. Told(c)
    BY DEF ToldInv
  <2>2. CASE Skipped(c)
    <3>1. /\ pass'.at = AfterOf(c) /\ Seen(c)' = Seen(c) /\ Looks(c)' = Looks(c)
          /\ UNCHANGED <<known, told, unrecorded>>
      BY <1>b, <2>2, StageChangesNoPicture DEF Skipped, alertVars
    <3>2. ~At(Recording(c))' /\ ~At(Recording(c)) /\ (Looks(c) /\ Seen(c) # {} => known[c] = Seen(c))
      BY <2>2, <3>1, AlertStages DEF Skipped, At
    <3> QED BY <1>b, <2>1, <3>1, <3>2 DEF Told, ToldWhatIsKnown, PagedInHand, SeenIsKnown, CutByFault
  <2>3. CASE Sent(c)
    <3>1. /\ pass'.at = Recording(c) /\ Seen(c)' = Seen(c) /\ Looks(c)' = Looks(c)
          /\ c \in unrecorded' /\ told'[c] = Seen(c) /\ Seen(c) # {} /\ Looks(c)
      BY <1>b, <2>3, StageChangesNoPicture DEF Sent, Page, AlertTypeOK
    <3>2. pass'.at \notin Past(c)
      BY <3>1, AlertStages
    <3> QED BY <3>1, <3>2 DEF Told, ToldWhatIsKnown, PagedInHand, SeenIsKnown, CutByFault, At
  <2>4. CASE Recorded(c)
    <3>1. /\ pass'.at = AfterOf(c) /\ Seen(c)' = Seen(c) /\ Looks(c)' = Looks(c)
          /\ c \notin unrecorded' /\ known'[c] = Seen(c)
      BY <1>b, <2>4, StageChangesNoPicture DEF Recorded, Remember, AlertTypeOK
    <3>2. Seen(c) # {} => told'[c] = Seen(c)
      <4>1. Seen(c) # {} => At(Recording(c))
        BY <2>4 DEF Recorded
      <4> QED BY <2>1, <2>4, <4>1 DEF Recorded, Remember, Told, PagedInHand
    <3>3. ~At(Recording(c))'
      BY <3>1, AlertStages DEF At
    <3> QED BY <3>1, <3>2, <3>3 DEF Told, ToldWhatIsKnown, PagedInHand, SeenIsKnown, CutByFault
  <2> QED BY <1>c, <2>2, <2>3, <2>4
<1> QED BY <1>1, <1>2 DEF ToldInv

(* Of a step that alerts nobody it matters only whether it leaves the      *)
(* stages of the alerts, and whether it costs a fault.                     *)
Leaves ==
    /\ pass'.at \in Before \cup {"start", "measure", "unmanaged", "idle"}
    /\ \A c \in Conditions : At(Recording(c)) => faults' > 0
GoesOn ==
    /\ pass.at \in {"pull", "judge", "advance"} /\ pass'.at \in {"halt", "judge", "advance"}
    /\ pass'.at \in {"judge", "advance"} => pass.at # "pull" /\ pass'.blocked = pass.blocked
    /\ pass'.danger = pass.danger /\ pass'.tripped = pass.tripped /\ pass'.loss = pass.loss

LEMMA ToldStays ==
    ASSUME ToldInv, UNCHANGED alertVars, faults \in Nat, faults' \in Nat, faults <= faults',
           pass' = pass \/ Leaves \/ GoesOn
    PROVE  ToldInv'
<1> SUFFICES ASSUME NEW c \in Conditions PROVE Told(c)'
  BY DEF ToldInv
<1>1. Told(c) /\ UNCHANGED <<known, told, unrecorded>>
  BY DEF ToldInv, alertVars
<1>2. CASE pass' = pass
  <2>1. Seen(c)' = Seen(c) /\ Looks(c)' = Looks(c)
    BY <1>2 DEF Seen, Reason, Looks
  <2>2. At(Recording(c))' = At(Recording(c)) /\ pass'.at = pass.at
    BY <1>2 DEF At
  <2>3. ToldWhatIsKnown(c)' /\ PagedInHand(c)' /\ SeenIsKnown(c)'
    BY <1>1, <2>1, <2>2 DEF Told, ToldWhatIsKnown, PagedInHand, SeenIsKnown
  <2>4. CutByFault(c)'
    BY <1>1, <2>2 DEF Told, CutByFault
  <2> QED BY <2>3, <2>4 DEF Told
<1>3. CASE Leaves
  <2>1. ~At(Recording(c))' /\ pass'.at \notin Past(c)
    BY <1>3, ThreeConditions DEF Leaves, At, Recording, Past, Before
  <2>2. At(Recording(c)) => faults' > 0
    BY <1>3 DEF Leaves
  <2> QED BY <1>1, <2>1, <2>2 DEF Told, ToldWhatIsKnown, PagedInHand, SeenIsKnown, CutByFault
<1>4. CASE GoesOn
  <2>1. ~At(Recording(c))' /\ ~At(Recording(c))
    BY <1>4, ThreeConditions DEF GoesOn, At, Recording
  <2>2. pass'.at \in Past(c) /\ Looks(c)' => pass.at \in Past(c) /\ Looks(c)
    BY <1>4, ThreeConditions DEF GoesOn, Past, Looks
  <2>3. Seen(c)' = Seen(c)
    BY <1>4 DEF GoesOn, Seen, Reason
  <2> QED BY <1>1, <2>1, <2>2, <2>3 DEF Told, ToldWhatIsKnown, PagedInHand, SeenIsKnown, CutByFault
<1> QED BY <1>2, <1>3, <1>4

LEMMA ToldNext ==
    ASSUME TypeInv, AlertTypeOK, ToldInv, [Next]_vars
    PROVE  ToldInv'
<1>a. faults \in Nat /\ (pass = Idle \/ pass \in RunningPass)
  BY DEF TypeInv, BookTypeOK, AlertTypeOK
<1>1. CASE \/ EquityMoves \/ DayTurns \/ DangerChanges \/ SwitchFlips \/ DeferralsChange
           \/ ResolveShadow \/ UNCHANGED vars
  <2>1. UNCHANGED alertVars /\ faults' = faults /\ pass' = pass
    BY <1>1 DEF EquityMoves, DayTurns, DangerChanges, SwitchFlips, DeferralsChange, Moves,
       ResolveShadow, Quiet, vars
  <2> QED BY <1>a, <2>1, ToldStays
<1>2. CASE StartPass \/ ReadAccount \/ RollDay \/ RollStart \/ Measure \/ EndPass
  <2>1. UNCHANGED alertVars /\ faults' = faults
    BY <1>2 DEF StartPass, ReadAccount, RollDay, RollStart, Measure, EndPass, Quiet
  <2>2. pass'.at \in Before \cup {"start", "measure", "unmanaged", "idle"}
    <3>1. CASE StartPass
      BY <3>1 DEF StartPass, Before
    <3>2. CASE EndPass
      BY <3>2 DEF EndPass, Idle
    <3>3. CASE ReadAccount \/ RollDay \/ RollStart \/ Measure
      <4>1. pass \in RunningPass
        BY <1>a, <3>3, PassStages DEF ReadAccount, RollDay, RollStart, Measure, At
      <4> QED BY <3>3, <4>1 DEF ReadAccount, RollDay, RollStart, Measure, Goes, RunningPass, Before
    <3> QED BY <1>2, <3>1, <3>2, <3>3
  <2>3. \A c \in Conditions : ~At(Recording(c))
    BY <1>2, ThreeConditions DEF StartPass, ReadAccount, RollDay, RollStart, Measure, EndPass, At,
       Recording
  <2> QED BY <1>a, <2>1, <2>2, <2>3, ToldStays DEF Leaves
<1>3. CASE Dies
  <2>1. UNCHANGED alertVars /\ faults' = faults + 1 /\ pass' = Idle
    BY <1>3 DEF Dies
  <2>2. Leaves
    BY <1>a, <2>1 DEF Leaves, Idle
  <2> QED BY <1>a, <2>1, <2>2, ToldStays
<1>4. CASE PullBatch \/ BookShadow \/ PassOver \/ AdvanceHwm
  <2>1. UNCHANGED alertVars /\ faults' = faults /\ pass \in RunningPass
    BY <1>a, <1>4, PassStages DEF PullBatch, BookShadow, PassOver, AdvanceHwm, Quiet, At
  <2>2. GoesOn
    <3>1. CASE PullBatch
      BY <2>1, <3>1 DEF PullBatch, GoesOn, At, RunningPass
    <3>2. CASE BookShadow
      BY <2>1, <3>2 DEF BookShadow, GoesOn, At, RunningPass
    <3>3. CASE PassOver \/ AdvanceHwm
      BY <2>1, <3>3 DEF PassOver, AdvanceHwm, Goes, GoesOn, At, RunningPass
    <3> QED BY <1>4, <3>1, <3>2, <3>3
  <2> QED BY <1>a, <2>1, <2>2, ToldStays
<1>5. CASE Alerts
  BY <1>5, ToldThroughAlerts
<1> QED BY <1>1, <1>2, <1>3, <1>4, <1>5 DEF Next

-----------------------------------------------------------------------------
(* What pages are still due.  A page takes a condition from what is        *)
(* recorded to what a pass saw, and the next one from there to what the    *)
(* world is like by now: each way costs at most a page, and going the two  *)
(* ways at once is never dearer.                                           *)

Cost(was, now) == IF now # {} /\ now # was THEN 1 ELSE 0

Rolling == {"roll", "start", "measure"}
Waiting(c) ==
    CASE c = "unmanaged" -> Rolling \cup {"unmanaged"}
      [] c = "liquidation" -> Rolling \cup {"unmanaged", "record unmanaged", "liquidation"}
      [] c = "halt" -> Rolling \cup {"unmanaged", "record unmanaged", "liquidation",
                                     "record liquidation", "pull", "halt"}

Halted(switch, lost) == IF switch THEN {"kill switch"} ELSE IF lost THEN {"daily loss"} ELSE {}

(* The pass is about to start its day from the equity it read.             *)
Fresh == At("start") \/ (At("roll") /\ breakerDay # day)

PassLoses ==
    /\ ~Fresh
    /\ IF pass.at \in Rolling THEN DailyLossHit(pass.equity) ELSE pass.loss
WorldLoses ==
    IF Fresh THEN (At("roll") \/ breakerDay = day) /\ LossHit(pass.equity, equity)
    ELSE breakerDay = day /\ DailyLossHit(equity)

(* What this pass will make of a condition, and what a pass that starts    *)
(* after it would.                                                         *)
Mine(c) == IF c = "halt" THEN Halted(pass.tripped, PassLoses) ELSE pass.danger[c]
Theirs(c) == IF c = "halt" THEN Halted(tripped, WorldLoses) ELSE danger[c]

Due(c) ==
    IF pass.at \in Waiting(c) THEN Cost(known[c], Mine(c)) + Cost(Mine(c), Theirs(c))
    ELSE IF At(Recording(c)) THEN Cost(Mine(c), Theirs(c))
    ELSE Cost(known[c], Theirs(c))

Dues == Due("unmanaged") + Due("liquidation") + Due("halt")
PagesPaid == pages + Dues <= moves + faults

LEMMA CostFacts ==
    ASSUME NEW a, NEW b, NEW c
    PROVE  /\ Cost(a, b) \in {0, 1} /\ Cost(a, {}) = 0 /\ Cost(a, a) = 0
           /\ Cost(a, c) <= Cost(a, b) + Cost(b, c)
BY DEF Cost

LEMMA DueIsSmall ==
    ASSUME NEW c
    PROVE  Due(c) \in Nat /\ Due(c)' \in Nat
<1>1. /\ Cost(known[c], Mine(c)) \in {0, 1} /\ Cost(Mine(c), Theirs(c)) \in {0, 1}
      /\ Cost(known[c], Theirs(c)) \in {0, 1}
  BY CostFacts
<1>2. /\ Cost(known[c], Mine(c))' \in {0, 1} /\ Cost(Mine(c), Theirs(c))' \in {0, 1}
      /\ Cost(known[c], Theirs(c))' \in {0, 1}
  BY DEF Cost
<1>3. Due(c) \in Nat
  BY <1>1 DEF Due
<1>4. Due(c)' \in Nat
  BY <1>2 DEF Due
<1> QED BY <1>3, <1>4

LEMMA NoLossFromItself ==
    ASSUME LimitPct > 0, NEW e \in Int
    PROVE  ~LossHit(e, e)
<1>1. e > 0 => LimitPct * e > 0
  BY Constants
<1>2. 100 * (e - e) = 0
  OBVIOUS
<1>3. LimitPct * e \in Int
  BY Constants
<1> QED BY <1>1, <1>2, <1>3 DEF LossHit

(* A step that moves nothing of what a condition looks like to anybody.    *)
SameStand(c) ==
    /\ known'[c] = known[c] /\ Theirs(c)' = Theirs(c)
    /\ pass'.at \in Waiting(c) <=> pass.at \in Waiting(c)
    /\ pass'.at = Recording(c) <=> pass.at = Recording(c)
    /\ pass.at \in Waiting(c) \cup {Recording(c)} => Mine(c)' = Mine(c)

LEMMA DueStays ==
    ASSUME NEW c, SameStand(c)
    PROVE  Due(c)' = Due(c)
<1>1. CASE pass.at \in Waiting(c)
  BY <1>1 DEF SameStand, Due, At
<1>2. CASE pass.at \notin Waiting(c) /\ At(Recording(c))
  BY <1>2 DEF SameStand, Due, At
<1>3. CASE pass.at \notin Waiting(c) /\ ~At(Recording(c))
  BY <1>3 DEF SameStand, Due, At
<1> QED BY <1>1, <1>2, <1>3

(* The world's part of a debt is one page.                                 *)
LEMMA DueMoves ==
    ASSUME NEW c, pass' = pass, known'[c] = known[c], Mine(c)' = Mine(c)
    PROVE  Due(c)' <= Due(c) + 1
<1>1. /\ Cost(known[c], Mine(c)) \in {0, 1} /\ Cost(Mine(c), Theirs(c)) \in {0, 1}
      /\ Cost(known[c], Theirs(c)) \in {0, 1} /\ Cost(Mine(c), Theirs(c)') \in {0, 1}
      /\ Cost(known[c], Theirs(c)') \in {0, 1}
  BY CostFacts
<1>2. /\ Cost(Mine(c), Theirs(c))' = Cost(Mine(c), Theirs(c)')
      /\ Cost(known[c], Theirs(c))' = Cost(known[c], Theirs(c)')
      /\ Cost(known[c], Mine(c))' = Cost(known[c], Mine(c))
  BY DEF Cost
<1> QED BY <1>1, <1>2 DEF Due, At

(* The pass's danger stands for the fields it read them into.              *)
LEMMA DangersStand ==
    ASSUME NEW c \in Dangers, UNCHANGED <<alertVars, danger>>,
           pass'.danger = pass.danger \/ pass.at \notin Waiting(c) \cup {Recording(c)},
           pass'.at \in Waiting(c) <=> pass.at \in Waiting(c),
           pass'.at = Recording(c) <=> pass.at = Recording(c)
    PROVE  Due(c)' = Due(c)
<1>1. c # "halt"
  BY DEF Dangers
<1>2. SameStand(c)
  BY <1>1 DEF SameStand, Theirs, Mine, alertVars
<1> QED BY <1>2, DueStays

LEMMA WorldStep ==
    ASSUME TypeInv, AlertTypeOK, breakerDay <= day,
           EquityMoves \/ DayTurns \/ DangerChanges \/ SwitchFlips \/ DeferralsChange
    PROVE  /\ UNCHANGED <<pages, faults>> /\ moves' = moves + 1
           /\ Dues' <= Dues + 1
<1>a. /\ UNCHANGED <<alertVars, faults, pass>> /\ UNCHANGED <<known, pages>>
      /\ moves' = moves + 1
  BY DEF EquityMoves, DayTurns, DangerChanges, SwitchFlips, DeferralsChange, Moves, alertVars
<1>b. /\ Due("unmanaged") \in Nat /\ Due("liquidation") \in Nat /\ Due("halt") \in Nat
      /\ Due("unmanaged")' \in Nat /\ Due("liquidation")' \in Nat /\ Due("halt")' \in Nat
  BY DueIsSmall
<1>1. CASE DangerChanges
  <2>1. PICK d \in Dangers : \E coins : danger' = [danger EXCEPT ![d] = coins]
    BY <1>1 DEF DangerChanges
  <2>2. UNCHANGED <<breakerVars, day, equity>>
    BY <1>1 DEF DangerChanges
  <2>3. Due("halt")' = Due("halt")
    <3>1. Theirs("halt")' = Theirs("halt") /\ Mine("halt")' = Mine("halt")
      BY <1>a, <2>2 DEF Theirs, Mine, WorldLoses, PassLoses, Fresh, At, DailyLossHit, breakerVars,
         LossHit
    <3>2. SameStand("halt")
      BY <1>a, <3>1 DEF SameStand
    <3> QED BY <3>2, DueStays
  <2>4. ASSUME NEW c \in Dangers PROVE Due(c)' <= Due(c) + 1 /\ (c # d => Due(c)' = Due(c))
    <3>1. c # "halt"
      BY DEF Dangers
    <3>2. Mine(c)' = Mine(c) /\ (c # d => Theirs(c)' = Theirs(c))
      BY <1>a, <2>1, <3>1 DEF Mine, Theirs
    <3>3. c # d => SameStand(c)
      BY <1>a, <3>2 DEF SameStand
    <3> QED BY <1>a, <3>2, <3>3, DueStays, DueMoves
  <2> QED BY <1>a, <1>b, <2>3, <2>4 DEF Dues, Dangers
<1>2. CASE EquityMoves \/ DayTurns \/ SwitchFlips \/ DeferralsChange
  <2>1. danger' = danger
    BY <1>2 DEF EquityMoves, DayTurns, SwitchFlips, DeferralsChange
  <2>2. Due("unmanaged")' = Due("unmanaged") /\ Due("liquidation")' = Due("liquidation")
    BY <1>a, <2>1, DangersStand DEF Dangers
  <2>3. Due("halt")' <= Due("halt") + 1
    <3>1. CASE At("roll") /\ DayTurns /\ ~pass.tripped /\ Fresh'
      <4>1. Mine("halt")' = {}
        BY <1>a, <3>1 DEF Mine, PassLoses, Halted
      <4>2. pass'.at \in Waiting("halt")
        BY <1>a, <3>1 DEF At, Waiting, Rolling
      <4>3. Due("halt")' = Cost(known["halt"], {}) + Cost({}, Theirs("halt")')
        BY <1>a, <4>1, <4>2 DEF Due, Cost
      <4> QED BY <1>b, <4>3, CostFacts
    <3>2. CASE ~(At("roll") /\ DayTurns /\ ~pass.tripped /\ Fresh')
      <4>1. UNCHANGED <<breakerDay, dayStart>> /\ (~DayTurns => day' = day)
        BY <1>2 DEF EquityMoves, DayTurns, SwitchFlips, DeferralsChange, SetBreaker, breakerVars
      <4>2. CASE pass.tripped
        BY <1>a, <4>2, DueMoves DEF Mine, Halted
      <4>3. CASE ~pass.tripped
        <5>1. DailyLossHit(pass.equity)' = DailyLossHit(pass.equity)
          BY <1>a, <4>1 DEF DailyLossHit, LossHit
        <5>2. CASE Fresh' <=> Fresh
          <6>1. PassLoses' = PassLoses
            BY <1>a, <5>1, <5>2 DEF PassLoses
          <6>2. Mine("halt")' = Mine("halt")
            BY <1>a, <6>1 DEF Mine
          <6> QED BY <1>a, <6>2, DueMoves
        <5>3. CASE ~(Fresh' <=> Fresh)
          <6>1. At("roll") /\ DayTurns /\ Fresh /\ ~Fresh'
            BY <1>a, <3>2, <4>1, <4>3, <5>3 DEF Fresh, At
          <6>2. breakerDay = day' /\ day' = day + 1
            BY <1>a, <4>1, <6>1 DEF Fresh, At, DayTurns
          <6>3. day \in Nat
            BY Constants DEF TypeInv, WorldTypeOK
          <6> QED BY <6>2, <6>3
        <5> QED BY <5>2, <5>3
      <4> QED BY <4>2, <4>3
    <3> QED BY <3>1, <3>2
  <2> QED BY <1>a, <1>b, <2>2, <2>3 DEF Dues
<1> QED BY <1>1, <1>2, <1>a

(* What a pass reads, rolls and measures is what the world held for it.    *)
LEMMA MeasuringStep ==
    ASSUME TypeInv, AlertTypeOK, breakerDay <= day, LimitPct > 0,
           ReadAccount \/ RollDay \/ RollStart \/ Measure
    PROVE  /\ UNCHANGED <<pages, faults, moves>>
           /\ Dues' = Dues
<1>a. /\ pass \in RunningPass /\ pass.equity \in Int /\ equity \in Int
      /\ day \in Nat /\ breakerDay \in Nat /\ dayStart \in SUBSET Int
  <2>1. pass = Idle \/ pass \in RunningPass
    BY DEF TypeInv, BookTypeOK
  <2>2. pass.at # "idle"
    BY DEF ReadAccount, RollDay, RollStart, Measure, At
  <2>3. pass \in RunningPass
    BY <2>1, <2>2, PassStages
  <2> QED BY <2>3, Constants DEF RunningPass, TypeInv, WorldTypeOK, BreakerTypeOK
<1>b. UNCHANGED <<alertVars, worldVars, faults>> /\ UNCHANGED <<known, pages, moves, danger, day, equity>>
  BY DEF ReadAccount, RollDay, RollStart, Measure, Quiet, alertVars, worldVars
<1>c. ~LossHit(pass.equity, pass.equity) /\ ~LossHit(equity, equity)
  BY <1>a, NoLossFromItself
<1>1. CASE ReadAccount
  <2>1. /\ pass.at = "resolve" /\ pass'.at = "roll" /\ pass'.equity = equity
        /\ pass'.danger = danger /\ pass'.tripped = tripped
        /\ UNCHANGED <<tripped, breakerDay, dayStart>>
    BY <1>a, <1>1 DEF ReadAccount, At, RunningPass, breakerVars
  <2>2. Theirs("halt")' = Theirs("halt") /\ Mine("halt")' = Theirs("halt")'
    <3>1. ~Fresh /\ (Fresh' <=> breakerDay # day)
      BY <1>b, <2>1 DEF Fresh, At
    <3>2. WorldLoses <=> breakerDay = day /\ DailyLossHit(equity)
      BY <3>1 DEF WorldLoses
    <3>3. WorldLoses' <=> breakerDay = day /\ DailyLossHit(equity)
      <4>1. CASE breakerDay = day
        BY <1>b, <2>1, <3>1, <4>1 DEF WorldLoses, DailyLossHit, LossHit
      <4>2. CASE breakerDay # day
        <5>1. LossHit(pass.equity, equity)' <=> LossHit(equity, equity)
          BY <1>b, <2>1 DEF LossHit
        <5> QED BY <1>b, <1>c, <2>1, <3>1, <4>2, <5>1 DEF WorldLoses
      <4> QED BY <4>1, <4>2
    <3>4. PassLoses' <=> breakerDay = day /\ DailyLossHit(equity)
      BY <1>b, <2>1, <3>1 DEF PassLoses, Rolling, DailyLossHit, LossHit
    <3> QED BY <2>1, <3>2, <3>3, <3>4 DEF Theirs, Mine, Halted
  <2>3. ASSUME NEW c \in {"unmanaged", "liquidation", "halt"} PROVE Due(c)' = Due(c)
    <3>1. Theirs(c)' = Theirs(c) /\ Mine(c)' = Theirs(c)'
      BY <1>b, <2>1, <2>2, <2>3 DEF Theirs, Mine
    <3>2. /\ pass.at \notin Waiting(c) /\ ~At(Recording(c)) /\ pass'.at \in Waiting(c)
      BY <2>1, <2>3 DEF Waiting, Rolling, Recording, At
    <3>3. Due(c) = Cost(known[c], Theirs(c))
      BY <3>2 DEF Due
    <3>4. Due(c)' = Cost(known[c], Theirs(c)) + Cost(Theirs(c), Theirs(c))
      BY <1>b, <3>1, <3>2 DEF Due, Cost
    <3> QED BY <3>3, <3>4, CostFacts
  <2> QED BY <1>b, <2>3 DEF Dues
<1>2. CASE RollDay \/ RollStart \/ Measure
  <2>1. /\ pass'.danger = pass.danger /\ pass'.equity = pass.equity
        /\ pass'.tripped = pass.tripped /\ UNCHANGED tripped
        /\ pass.at \in Rolling /\ pass'.at \in Rolling \cup {"unmanaged"}
    BY <1>a, <1>2 DEF RollDay, RollStart, Measure, RecordDay, RecordStart, At, Goes, RunningPass,
       Rolling, breakerVars
  <2>2. (PassLoses' <=> PassLoses) /\ (WorldLoses' <=> WorldLoses)
    <3>1. CASE RollDay /\ breakerDay # day
      <4>1. pass.at = "roll" /\ pass'.at = "start" /\ breakerDay' = day
        BY <1>a, <3>1 DEF RollDay, At, Goes, RecordDay, RunningPass
      <4>2. Fresh /\ Fresh'
        BY <3>1, <4>1 DEF Fresh, At
      <4> QED BY <1>b, <2>1, <4>1, <4>2 DEF PassLoses, WorldLoses, LossHit, At
    <3>2. CASE RollDay /\ breakerDay = day
      <4>1. pass.at = "roll" /\ pass'.at = "measure" /\ UNCHANGED <<breakerDay, dayStart>>
        BY <1>a, <3>2 DEF RollDay, At, Goes, RunningPass, breakerVars
      <4>2. ~Fresh /\ ~Fresh'
        BY <3>2, <4>1 DEF Fresh, At
      <4> QED BY <1>b, <2>1, <4>1, <4>2 DEF PassLoses, WorldLoses, DailyLossHit, LossHit, Rolling
    <3>3. CASE RollStart
      <4>1. /\ pass.at = "start" /\ pass'.at = "measure" /\ dayStart' = {pass.equity}
            /\ breakerDay' = breakerDay
        BY <1>a, <3>3 DEF RollStart, At, Goes, RecordStart, RunningPass
      <4>2. Fresh /\ ~Fresh'
        BY <4>1 DEF Fresh, At
      <4>3. /\ DailyLossHit(pass.equity)' <=> LossHit(pass.equity, pass.equity)
            /\ DailyLossHit(equity)' <=> LossHit(pass.equity, equity)
        BY <1>b, <2>1, <4>1 DEF DailyLossHit, LossHit
      <4>4. PassLoses' <=> PassLoses
        BY <1>c, <4>1, <4>2, <4>3 DEF PassLoses, Rolling
      <4>5. WorldLoses' <=> WorldLoses
        BY <1>b, <4>1, <4>2, <4>3 DEF WorldLoses, At
      <4> QED BY <4>4, <4>5
    <3>4. CASE Measure
      <4>1. /\ pass.at = "measure" /\ pass'.at = "unmanaged" /\ UNCHANGED <<breakerDay, dayStart>>
            /\ pass'.loss = DailyLossHit(pass.equity)
        BY <1>a, <3>4 DEF Measure, At, RunningPass, breakerVars
      <4>2. ~Fresh /\ ~Fresh'
        BY <4>1 DEF Fresh, At
      <4>3. PassLoses' <=> PassLoses
        BY <4>1, <4>2 DEF PassLoses, Rolling
      <4>4. WorldLoses' <=> WorldLoses
        BY <1>b, <4>1, <4>2 DEF WorldLoses, DailyLossHit, LossHit
      <4> QED BY <4>3, <4>4
    <3> QED BY <1>2, <3>1, <3>2, <3>3, <3>4
  <2>3. ASSUME NEW c \in {"unmanaged", "liquidation", "halt"} PROVE Due(c)' = Due(c)
    <3>1. Theirs(c)' = Theirs(c) /\ Mine(c)' = Mine(c)
      BY <1>b, <2>1, <2>2, <2>3 DEF Theirs, Mine, Halted
    <3>2. /\ pass.at \in Waiting(c) /\ pass'.at \in Waiting(c)
          /\ pass.at # Recording(c) /\ pass'.at # Recording(c)
      BY <2>1, <2>3 DEF Waiting, Rolling, Recording
    <3> QED BY <1>b, <3>1, <3>2, DueStays DEF SameStand
  <2> QED BY <1>b, <2>3 DEF Dues
<1> QED BY <1>1, <1>2

(* A step that neither measures nor alerts.                                *)
LEMMA OtherStep ==
    ASSUME TypeInv, AlertTypeOK,
           \/ StartPass \/ ResolveShadow \/ PullBatch \/ BookShadow \/ PassOver \/ AdvanceHwm
           \/ EndPass \/ UNCHANGED vars
    PROVE  /\ UNCHANGED <<pages, faults, moves>>
           /\ Dues' = Dues
<1>a. /\ UNCHANGED <<alertVars, worldVars, faults>> /\ UNCHANGED <<known, pages, moves, danger, day, equity>>
      /\ UNCHANGED <<tripped, breakerDay, dayStart>>
  BY DEF StartPass, ResolveShadow, PullBatch, BookShadow, PassOver, AdvanceHwm, EndPass, Quiet,
     alertVars, worldVars, breakerVars, vars
<1>1. CASE ResolveShadow \/ UNCHANGED vars
  <2>1. pass' = pass
    BY <1>1 DEF ResolveShadow, vars
  <2>2. ASSUME NEW c PROVE Due(c)' = Due(c)
    BY <1>a, <2>1, DueStays DEF SameStand, Theirs, Mine, WorldLoses, PassLoses, Fresh, At,
       DailyLossHit, LossHit
  <2> QED BY <1>a, <2>2 DEF Dues
<1>2. CASE \/ StartPass \/ PullBatch \/ BookShadow \/ PassOver \/ AdvanceHwm \/ EndPass
  <2>1. \/ /\ pass.at \in {"idle", "judge", "advance"}
           /\ pass'.at \in {"idle", "resolve", "judge", "advance"}
        \/ /\ pass.at = "pull" /\ pass'.at = "halt" /\ pass'.tripped = pass.tripped
           /\ pass'.loss = pass.loss
    <3>1. CASE StartPass
      BY <3>1 DEF StartPass, At
    <3>2. CASE EndPass
      BY <3>2 DEF EndPass, At, Idle
    <3>3. CASE PullBatch \/ BookShadow \/ PassOver \/ AdvanceHwm
      <4>1. pass \in RunningPass
        BY <3>3, PassStages DEF PullBatch, BookShadow, PassOver, AdvanceHwm, At, TypeInv, BookTypeOK
      <4> QED BY <3>3, <4>1 DEF PullBatch, BookShadow, PassOver, AdvanceHwm, At, Goes, RunningPass
    <3> QED BY <1>2, <3>1, <3>2, <3>3
  <2>2. ASSUME NEW c \in {"unmanaged", "liquidation", "halt"} PROVE Due(c)' = Due(c)
    <3>1. Theirs(c)' = Theirs(c)
      <4>1. ~Fresh /\ ~Fresh'
        BY <2>1 DEF Fresh, At
      <4> QED BY <1>a, <4>1 DEF Theirs, WorldLoses, DailyLossHit, LossHit
    <3>2. /\ pass'.at \in Waiting(c) <=> pass.at \in Waiting(c)
          /\ pass.at # Recording(c) /\ pass'.at # Recording(c)
      BY <2>1, <2>2 DEF Waiting, Rolling, Recording
    <3>3. pass.at \in Waiting(c) => Mine(c)' = Mine(c)
      BY <2>1, <2>2 DEF Waiting, Rolling, Mine, PassLoses, Fresh, At
    <3> QED BY <1>a, <3>1, <3>2, <3>3, DueStays DEF SameStand
  <2> QED BY <1>a, <2>2 DEF Dues
<1> QED BY <1>1, <1>2

LEMMA AlertWaits ==
    ASSUME NEW c \in Conditions, NEW d \in Conditions
    PROVE  /\ d # c => \/ {c, Recording(c), AfterOf(c)} \subseteq Waiting(d)
                       \/ {c, Recording(c), AfterOf(c)} \cap Waiting(d) = {}
           /\ c \in Waiting(c) /\ Recording(c) \notin Waiting(c) /\ AfterOf(c) \notin Waiting(c)
<1>1. /\ Recording("unmanaged") = "record unmanaged" /\ AfterOf("unmanaged") = "liquidation"
      /\ Recording("liquidation") = "record liquidation" /\ AfterOf("liquidation") = "pull"
      /\ Recording("halt") = "record halt" /\ AfterOf("halt") = "judge"
  BY DEF Recording, AfterOf
<1>2. /\ Waiting("unmanaged") = {"roll", "start", "measure", "unmanaged"}
      /\ Waiting("liquidation") = {"roll", "start", "measure", "unmanaged", "record unmanaged",
                                   "liquidation"}
      /\ Waiting("halt") = {"roll", "start", "measure", "unmanaged", "record unmanaged",
                            "liquidation", "record liquidation", "pull", "halt"}
  BY DEF Waiting, Rolling
<1>3. c \in {"unmanaged", "liquidation", "halt"} /\ d \in {"unmanaged", "liquidation", "halt"}
  BY ThreeConditions
<1> QED BY <1>1, <1>2, <1>3

(* An alert pays for its page.                                             *)
LEMMA AlertStep ==
    ASSUME TypeInv, AlertTypeOK, Alerts
    PROVE  /\ UNCHANGED <<faults, moves>> /\ pages' \in Nat
           /\ pages' + Dues' <= pages + Dues
<1>a. PICK c \in Conditions : Alert(c, AfterOf(c))
  BY AlertsOfOne
<1>b. /\ pass \in RunningPass /\ UNCHANGED <<faults, moves, danger, day, equity>>
      /\ UNCHANGED <<tripped, breakerDay, dayStart>>
  BY AlertsMove DEF Alerts, Quiet, worldVars, breakerVars
<1>c. Skipped(c) \/ Sent(c) \/ Recorded(c)
  BY <1>a, AlertIsOneOf
<1>d. /\ pass.at \in {c, Recording(c)}
      /\ \E stage \in {Recording(c), AfterOf(c)} : pass' = [pass EXCEPT !.at = stage]
  BY <1>c DEF Skipped, Sent, Recorded, At
<1>e. pass'.at \in {Recording(c), AfterOf(c)}
  BY <1>b, <1>d, StageChangesNoPicture
<1>f. ASSUME NEW d \in Conditions
      PROVE  Mine(d) = Seen(d) /\ Mine(d)' = Seen(d) /\ Theirs(d)' = Theirs(d)
  <2>1. Seen(d)' = Seen(d)
    BY <1>b, <1>d, StageChangesNoPicture
  <2>2. /\ pass.at \in Running \ (Before \cup {"start", "measure"})
        /\ pass'.at \in Running \ (Before \cup {"start", "measure"})
    BY <1>d, <1>e, AlertStages
  <2>3. ~Fresh /\ ~Fresh' /\ pass.at \notin Rolling /\ pass'.at \notin Rolling
    BY <2>2 DEF Fresh, At, Rolling, Before
  <2>4. Mine(d) = Seen(d)
    BY <2>3 DEF Mine, PassLoses, Halted, Seen, Reason
  <2>5. Mine(d)' = Seen(d)'
    BY <2>3 DEF Mine, PassLoses, Halted, Seen, Reason
  <2>6. Theirs(d)' = Theirs(d)
    BY <1>b, <2>3 DEF Theirs, WorldLoses, DailyLossHit, LossHit
  <2> QED BY <2>1, <2>4, <2>5, <2>6
<1>1. ASSUME NEW d \in Conditions, d # c PROVE Due(d)' = Due(d)
  <2>1. known'[d] = known[d]
    BY <1>c, <1>1 DEF Skipped, Sent, Recorded, Page, Remember, alertVars, AlertTypeOK
  <2>2. /\ pass'.at \in Waiting(d) <=> pass.at \in Waiting(d)
        /\ pass'.at # Recording(d) /\ pass.at # Recording(d)
    BY <1>1, <1>d, <1>e, AlertWaits, AlertStages
  <2> QED BY <1>f, <2>1, <2>2, DueStays DEF SameStand
<1>2. pages' \in Nat /\ pages' + Due(c)' <= pages + Due(c)
  <2>0. Cost(known[c], Seen(c)) \in {0, 1} /\ Cost(Seen(c), Theirs(c)) \in {0, 1}
        /\ Cost(known[c], Theirs(c)) <= Cost(known[c], Seen(c)) + Cost(Seen(c), Theirs(c))
        /\ Cost(known[c], Theirs(c)) \in {0, 1} /\ pages \in Nat
    BY CostFacts DEF AlertTypeOK
  <2>1. /\ c \in Waiting(c) /\ Recording(c) \notin Waiting(c) /\ AfterOf(c) \notin Waiting(c)
        /\ AfterOf(c) # Recording(c)
    BY AlertWaits, AlertStages
  <2>2. CASE Skipped(c)
    <3>1. pass.at = c /\ pass'.at = AfterOf(c) /\ UNCHANGED <<known, pages>>
      BY <1>b, <2>2, StageChangesNoPicture DEF Skipped, alertVars
    <3>2. Due(c) = Cost(known[c], Seen(c)) + Cost(Seen(c), Theirs(c))
      BY <1>f, <2>1, <3>1 DEF Due
    <3>3. Due(c)' = Cost(known[c], Theirs(c))
      BY <1>f, <2>1, <3>1 DEF Due, At, Cost
    <3> QED BY <2>0, <3>1, <3>2, <3>3
  <2>3. CASE Sent(c)
    <3>1. /\ pass.at = c /\ pass'.at = Recording(c) /\ pages' = pages + 1
          /\ Cost(known[c], Seen(c)) = 1
      BY <1>b, <2>3, StageChangesNoPicture DEF Sent, Page, Cost
    <3>2. Due(c) = Cost(known[c], Seen(c)) + Cost(Seen(c), Theirs(c))
      BY <1>f, <2>1, <3>1 DEF Due
    <3>3. Due(c)' = Cost(Seen(c), Theirs(c))
      BY <1>f, <2>1, <3>1 DEF Due, At, Cost
    <3> QED BY <2>0, <3>1, <3>2, <3>3
  <2>4. CASE Recorded(c)
    <3>1. /\ pass'.at = AfterOf(c) /\ pages' = pages /\ known'[c] = Seen(c)
      BY <1>b, <2>4, StageChangesNoPicture DEF Recorded, Remember, AlertTypeOK
    <3>2. Due(c) >= Cost(Seen(c), Theirs(c))
      <4>1. CASE pass.at = c
        <5>1. Due(c) = Cost(known[c], Seen(c)) + Cost(Seen(c), Theirs(c))
          BY <1>f, <2>1, <4>1 DEF Due
        <5> QED BY <2>0, <5>1
      <4>2. CASE pass.at = Recording(c)
        <5>1. Due(c) = Cost(Seen(c), Theirs(c))
          BY <1>f, <2>1, <4>2 DEF Due, At
        <5> QED BY <2>0, <5>1
      <4> QED BY <1>d, <4>1, <4>2
    <3>3. Due(c)' = Cost(Seen(c), Theirs(c))
      BY <1>f, <2>1, <3>1 DEF Due, At, Cost
    <3>4. Due(c) \in Nat
      BY DueIsSmall
    <3> QED BY <2>0, <3>1, <3>2, <3>3, <3>4
  <2> QED BY <1>c, <2>2, <2>3, <2>4
<1>3. /\ Due("unmanaged") \in Nat /\ Due("liquidation") \in Nat /\ Due("halt") \in Nat
      /\ Due("unmanaged")' \in Nat /\ Due("liquidation")' \in Nat /\ Due("halt")' \in Nat
  BY DueIsSmall
<1>4. c \in {"unmanaged", "liquidation", "halt"} /\ pages \in Nat
  BY ThreeConditions DEF AlertTypeOK
<1>5. CASE c = "unmanaged"
  BY <1>b, <1>1, <1>2, <1>3, <1>4, <1>5, ThreeConditions DEF Dues
<1>6. CASE c = "liquidation"
  BY <1>b, <1>1, <1>2, <1>3, <1>4, <1>6, ThreeConditions DEF Dues
<1>7. CASE c = "halt"
  BY <1>b, <1>1, <1>2, <1>3, <1>4, <1>7, ThreeConditions DEF Dues
<1> QED BY <1>4, <1>5, <1>6, <1>7

(* A death costs at most the page it cuts off, or what the pass took for   *)
(* the day's start.                                                        *)
LEMMA DeathStep ==
    ASSUME TypeInv, AlertTypeOK, Dies
    PROVE  /\ UNCHANGED <<pages, moves>> /\ faults' = faults + 1
           /\ Dues' <= Dues + 1
<1>a. /\ UNCHANGED <<known, pages, moves, danger, day, equity, tripped, breakerDay, dayStart>>
      /\ pass' = Idle /\ faults' = faults + 1
  BY DEF Dies, alertVars, worldVars, breakerVars
<1>b. pass'.at = "idle"
  BY <1>a DEF Idle
<1>1. ASSUME NEW c \in Conditions
      PROVE  /\ Due(c) \in Nat /\ Due(c)' \in {0, 1}
             /\ Theirs(c)' = Theirs(c) /\ ~At(Recording(c)) => Due(c)' <= Due(c)
  <2>1. pass'.at \notin Waiting(c) /\ ~At(Recording(c))'
    BY <1>b, ThreeConditions DEF Waiting, Recording, Rolling, At
  <2>2. Due(c)' = Cost(known[c], Theirs(c)')
    BY <1>a, <2>1 DEF Due, Cost
  <2>3. /\ Cost(known[c], Theirs(c)') \in {0, 1} /\ Cost(known[c], Theirs(c)) \in {0, 1}
        /\ Cost(known[c], Mine(c)) \in {0, 1} /\ Cost(Mine(c), Theirs(c)) \in {0, 1}
        /\ Cost(known[c], Theirs(c)) <= Cost(known[c], Mine(c)) + Cost(Mine(c), Theirs(c))
    BY CostFacts
  <2>4. ~At(Recording(c)) => Cost(known[c], Theirs(c)) <= Due(c)
    BY <2>3 DEF Due
  <2>5. Due(c) \in Nat
    BY DueIsSmall
  <2> QED BY <2>2, <2>3, <2>4, <2>5
<1>2. Theirs("unmanaged")' = Theirs("unmanaged") /\ Theirs("liquidation")' = Theirs("liquidation")
  BY <1>a DEF Theirs
<1>3. ~Fresh => Theirs("halt")' = Theirs("halt")
  <2>1. ~Fresh'
    BY <1>b DEF Fresh, At
  <2> QED BY <1>a, <2>1 DEF Theirs, WorldLoses, DailyLossHit, LossHit
<1>4. \/ ~At(Recording("unmanaged")) /\ ~At(Recording("liquidation"))
      \/ ~At(Recording("unmanaged")) /\ ~At(Recording("halt")) /\ ~Fresh
      \/ ~At(Recording("liquidation")) /\ ~At(Recording("halt")) /\ ~Fresh
  BY DEF At, Recording, Fresh
<1>5. /\ Due("unmanaged") \in Nat /\ Due("unmanaged")' \in {0, 1}
      /\ Due("liquidation") \in Nat /\ Due("liquidation")' \in {0, 1}
      /\ Due("halt") \in Nat /\ Due("halt")' \in {0, 1}
      /\ ~At(Recording("unmanaged")) => Due("unmanaged")' <= Due("unmanaged")
      /\ ~At(Recording("liquidation")) => Due("liquidation")' <= Due("liquidation")
      /\ ~At(Recording("halt")) /\ ~Fresh => Due("halt")' <= Due("halt")
  BY <1>1, <1>2, <1>3, ThreeConditions
<1>6. Dues' <= Dues + 1
  BY <1>4, <1>5 DEF Dues
<1> QED BY <1>a, <1>6

-----------------------------------------------------------------------------

AlertInv == AlertTypeOK /\ breakerDay <= day /\ ToldInv /\ PagesPaid

LEMMA AlertTypeNext ==
    ASSUME TypeInv, AlertTypeOK, [Next]_vars
    PROVE  AlertTypeOK'
<1>a. known \in [Conditions -> Pictures] /\ told \in [Conditions -> Pictures]
      /\ pages \in Nat /\ moves \in Nat /\ faults \in Nat
  BY DEF AlertTypeOK
<1>1. CASE Alerts
  <2>1. pass \in RunningPass /\ UNCHANGED <<moves, faults>>
    BY <1>1, AlertsMove DEF Alerts, Quiet, worldVars
  <2>2. PICK c \in Conditions : Alert(c, AfterOf(c))
    BY <1>1, AlertsOfOne
  <2>3. Seen(c) \in Pictures /\ {} \in Pictures
    BY <2>1, SeenIsPicture DEF Pictures
  <2>4. Skipped(c) \/ Sent(c) \/ Recorded(c)
    BY <2>2, AlertIsOneOf
  <2>5. UNCHANGED alertVars \/ Page(c, Seen(c)) \/ Remember(c, Seen(c))
    BY <2>4 DEF Skipped, Sent, Recorded
  <2>6. known' \in [Conditions -> Pictures] /\ told' \in [Conditions -> Pictures] /\ pages' \in Nat
    BY <1>a, <2>3, <2>5 DEF Page, Remember, alertVars
  <2> QED BY <1>a, <2>1, <2>6 DEF AlertTypeOK
<1>2. CASE ~Alerts
  <2>1. UNCHANGED alertVars /\ moves' \in {moves, moves + 1} /\ faults' \in {faults, faults + 1}
    BY <1>2 DEF Next, EquityMoves, DayTurns, DangerChanges, SwitchFlips, DeferralsChange, Moves,
       StartPass, ResolveShadow, ReadAccount, RollDay, RollStart, Measure, PullBatch, BookShadow,
       PassOver, AdvanceHwm, EndPass, Dies, Quiet, worldVars, vars
  <2> QED BY <1>a, <2>1 DEF AlertTypeOK, alertVars
<1> QED BY <1>1, <1>2

LEMMA DayGoesOn ==
    ASSUME TypeInv, breakerDay <= day, [Next]_vars
    PROVE  breakerDay' <= day'
<1>a. breakerDay \in Nat /\ day \in Nat
  BY Constants DEF TypeInv, WorldTypeOK, BreakerTypeOK
<1>1. /\ breakerDay' \in {breakerDay, day}
      /\ day' = day \/ (day' = day + 1 /\ breakerDay' = breakerDay)
  BY DEF Next, EquityMoves, DayTurns, DangerChanges, SwitchFlips, DeferralsChange, Moves,
     StartPass, ResolveShadow, ReadAccount, RollDay, RollStart, Measure, PullBatch, BookShadow,
     PassOver, AdvanceHwm, EndPass, Dies, Alerts, Quiet, worldVars, vars, breakerVars, SetBreaker,
     RecordDay, RecordStart
<1> QED BY <1>a, <1>1

LEMMA OneMore ==
    ASSUME NEW p \in Nat, NEW d \in Nat, NEW e \in Nat, NEW m \in Nat, NEW f \in Nat,
           p + d <= m + f, e <= d + 1
    PROVE  p + e <= m + f + 1
OBVIOUS

LEMMA PagesPaidNext ==
    ASSUME TypeInv, AlertInv, LimitPct > 0, [Next]_vars
    PROVE  PagesPaid'
<1>a. AlertTypeOK /\ breakerDay <= day /\ pages + Dues <= moves + faults
      /\ pages \in Nat /\ moves \in Nat /\ faults \in Nat
  BY DEF AlertInv, AlertTypeOK, PagesPaid
<1>b. Dues \in Nat /\ Dues' \in Nat
  <2>1. \A c : Due(c) \in Nat /\ Due(c)' \in Nat
    BY DueIsSmall
  <2> QED BY <2>1 DEF Dues
<1>1. CASE EquityMoves \/ DayTurns \/ DangerChanges \/ SwitchFlips \/ DeferralsChange
  BY <1>a, <1>b, <1>1, WorldStep DEF PagesPaid
<1>2. CASE ReadAccount \/ RollDay \/ RollStart \/ Measure
  BY <1>a, <1>b, <1>2, MeasuringStep DEF PagesPaid
<1>3. CASE \/ StartPass \/ ResolveShadow \/ PullBatch \/ BookShadow \/ PassOver \/ AdvanceHwm
           \/ EndPass \/ UNCHANGED vars
  BY <1>a, <1>b, <1>3, OtherStep DEF PagesPaid
<1>4. CASE Alerts
  BY <1>a, <1>b, <1>4, AlertStep DEF PagesPaid
<1>5. CASE Dies
  <2>1. pages' = pages
    BY <1>a, <1>5, DeathStep
  <2>2. moves' + faults' = moves + faults + 1
    BY <1>a, <1>5, DeathStep
  <2>3. Dues' <= Dues + 1
    BY <1>a, <1>5, DeathStep
  <2>4. pages + Dues' <= moves + faults + 1
    BY <1>a, <1>b, <2>3, OneMore
  <2> QED BY <2>1, <2>2, <2>4 DEF PagesPaid
<1> QED BY <1>1, <1>2, <1>3, <1>4, <1>5 DEF Next

(* The operator's picture of a danger is the pass's, unless a death left   *)
(* an alert unrecorded; and pages are paid for by changes of the world and *)
(* deaths (runner.py:579-638).  A loss limit of nothing would halt the     *)
(* desk, and page, before anything changed.                                *)
THEOREM OperatorIsToldOnce ==
    ASSUME LimitPct > 0
    PROVE  Spec => []ToldOncePerChange
<1>1. Init => AlertInv
  <2> SUFFICES ASSUME Init PROVE AlertInv
    OBVIOUS
  <2>1. /\ pass.at = "idle" /\ breakerDay = 0 /\ ~tripped /\ day = 1 /\ dayStart = {}
        /\ danger = [c \in Dangers |-> {}] /\ known = [c \in Conditions |-> {}]
        /\ told = [c \in Conditions |-> {}] /\ unrecorded = {} /\ pages = 0 /\ moves = 0
        /\ faults = 0
    BY DEF Init, BreakerInit, AlertInit, Idle, NoDay
  <2>2. AlertTypeOK
    BY <2>1 DEF AlertTypeOK, Pictures
  <2>3. ToldInv
    <3>1. ASSUME NEW c \in Conditions PROVE ~At(Recording(c)) /\ pass.at \notin Past(c)
      BY <2>1, ThreeConditions DEF At, Recording, Past
    <3> QED BY <2>1, <3>1 DEF ToldInv, Told, ToldWhatIsKnown, PagedInHand, SeenIsKnown, CutByFault
  <2>4. PagesPaid
    <3>1. ASSUME NEW c \in Conditions PROVE Due(c) = 0
      <4>1. pass.at \notin Waiting(c) /\ ~At(Recording(c))
        BY <2>1, ThreeConditions DEF At, Recording, Waiting, Rolling
      <4>2. Theirs(c) = {}
        BY <2>1, ThreeConditions DEF Theirs, Halted, WorldLoses, Fresh, At
      <4> QED BY <4>1, <4>2, CostFacts DEF Due
    <3> QED BY <2>1, <3>1, ThreeConditions DEF PagesPaid, Dues
  <2> QED BY <2>1, <2>2, <2>3, <2>4 DEF AlertInv
<1>2. AlertInv => ToldOncePerChange
  <2> SUFFICES ASSUME AlertInv PROVE ToldOncePerChange
    OBVIOUS
  <2>1. ASSUME NEW c \in Conditions, Looked(c), Seen(c) # {}
        PROVE  told[c] = Seen(c) \/ (c \in unrecorded /\ faults > 0)
    <3>1. pass.at \in Past(c) /\ Looks(c) /\ ~At(Recording(c))
      BY <2>1, ThreeConditions DEF Looked, Past, Looks, At, Recording
    <3> QED BY <2>1, <3>1 DEF AlertInv, ToldInv, Told, ToldWhatIsKnown, SeenIsKnown, CutByFault
  <2>2. Dues \in Nat
    <3>1. \A c : Due(c) \in Nat
      BY DueIsSmall
    <3> QED BY <3>1 DEF Dues
  <2>3. pages <= moves + faults
    BY <2>2 DEF AlertInv, AlertTypeOK, PagesPaid
  <2> QED BY <2>1, <2>3 DEF ToldOncePerChange
<1>3. TypeInv /\ AlertInv /\ [Next]_vars => AlertInv'
  BY ToldNext, AlertTypeNext, DayGoesOn, PagesPaidNext DEF AlertInv
<1> QED BY <1>1, <1>2, <1>3, TypeAlways, PTL DEF Spec
=============================================================================
