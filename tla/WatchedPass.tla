----------------------------- MODULE WatchedPass -----------------------------
(***************************************************************************)
(* What a pass of hlcli/executor/runner.py does around its candidates, one *)
(* process passing at a time: it resolves the hypothetical rows, reads the *)
(* account, measures the day's loss (safety/breaker.py), pages what is     *)
(* unmanaged, near its liquidation or halted, and judges the batch.  A     *)
(* pass is live (`exec run`, `exec once`) or shadow (`exec shadow`); both  *)
(* take the same stream, and a shadow pass books what it would have fired. *)
(*                                                                         *)
(* Every commit and every alert is a step of its own; the process may die  *)
(* between any two.  What a live pass fires, and what becomes of a WAIT,   *)
(* is ExecutorPass's subject: here a real entry leaves no row and deferred *)
(* rows come and go.                                                       *)
(***************************************************************************)
EXTENDS Breaker, EdgeAlert, Sequences, FiniteSets, SequencesExt

CONSTANTS
    Coins,
    Stream,     \* the coins of the candidates, in intake order
    LastDay,    \* bound: days 1..LastDay
    MaxMoves,   \* bound: changes of the world
    MaxFaults   \* bound: deaths

ASSUME WatchAssumption ==
    /\ Conditions = {"unmanaged", "liquidation", "halt"}
    /\ Stream \in Seq(Coins)
    /\ LastDay \in Nat \ {0}
    /\ {MaxMoves, MaxFaults} \subseteq Nat

VARIABLES
    day,      \* the calendar
    equity,   \* what the account is worth
    danger,   \* coins held that no row knows, coins near their liquidation
    parked,   \* whether a candidate is deferred
    rows,     \* hypothetical rows, in the order they were opened
    hwm,      \* the intake stream's mark
    pass,     \* the pass, or Idle
    moves, faults,
    opened,   \* equity the first pass of each day read: history
    cutRoll   \* days whose rollover was cut off between its two commits: history

worldVars == <<day, equity, danger, parked, moves>>
historyVars == <<opened, cutRoll>>
vars == <<breakerVars, alertVars, worldVars, rows, hwm, pass, faults, historyVars>>

Idle == [at |-> "idle"]
Dangers == {"unmanaged", "liquidation"}

OpenIds == {i \in DOMAIN rows : rows[i].open}
OpenCoins == {rows[i].coin : i \in OpenIds}

Init ==
    /\ BreakerInit /\ AlertInit
    /\ day = 1 /\ equity \in Equities
    /\ danger = [c \in Dangers |-> {}]
    /\ parked = FALSE
    /\ rows = <<>> /\ hwm = 0
    /\ pass = Idle
    /\ moves = 0 /\ faults = 0
    /\ opened = [d \in 1..LastDay |-> {}]
    /\ cutRoll = {}

-----------------------------------------------------------------------------
(* The world changes at any time, in the middle of a pass too. *)

Moves ==
    /\ moves < MaxMoves
    /\ moves' = moves + 1
    /\ UNCHANGED <<alertVars, rows, hwm, pass, faults, historyVars>>

EquityMoves ==
    /\ equity' \in Equities \ {equity}
    /\ Moves /\ UNCHANGED <<breakerVars, day, danger, parked>>
DayTurns ==
    /\ day < LastDay
    /\ day' = day + 1
    /\ Moves /\ UNCHANGED <<breakerVars, equity, danger, parked>>
DangerChanges ==
    /\ \E c \in Dangers, coins \in SUBSET Coins :
           coins # danger[c] /\ danger' = [danger EXCEPT ![c] = coins]
    /\ Moves /\ UNCHANGED <<breakerVars, day, equity, parked>>
SwitchFlips ==
    /\ SetBreaker(~tripped)
    /\ Moves /\ UNCHANGED <<day, equity, danger, parked>>
DeferralsChange ==
    /\ parked' = ~parked
    /\ Moves /\ UNCHANGED <<breakerVars, day, equity, danger>>

-----------------------------------------------------------------------------
(* A pass. *)

At(step) == pass.at = step
Goes(step) == pass' = [pass EXCEPT !.at = step]
Quiet == UNCHANGED <<worldVars, faults>>

StartPass ==
    /\ At("idle")
    /\ \E fires \in BOOLEAN :
           pass' = [at |-> "resolve", fires |-> fires, equity |-> 0, coins |-> {},
                    danger |-> danger, tripped |-> FALSE, loss |-> FALSE, day |-> 0,
                    last |-> 0, blocked |-> FALSE]
    /\ Quiet /\ UNCHANGED <<breakerVars, alertVars, rows, hwm, historyVars>>

\* _resolve_shadow: a row whose level is crossed, or that is held too long, is booked
\* without an order, whatever kind of pass this is.
ResolveShadow ==
    /\ At("resolve")
    /\ \E i \in OpenIds : rows' = [rows EXCEPT ![i].open = FALSE]
    /\ Quiet /\ UNCHANGED <<breakerVars, alertVars, hwm, pass, historyVars>>

\* Slip: the hypothetical book is not looked at.
ReadRealBook ==
    /\ At("resolve")
    /\ pass' = [pass EXCEPT !.at = "roll", !.equity = equity, !.danger = danger,
                            !.tripped = tripped]
    /\ Quiet /\ UNCHANGED <<breakerVars, alertVars, rows, hwm, historyVars>>

\* The account as the pass will know it; a shadow pass adds its own open rows.
ReadAccount ==
    /\ At("resolve")
    /\ pass' = [pass EXCEPT !.at = "roll", !.equity = equity, !.danger = danger,
                            !.tripped = tripped,
                            !.coins = IF pass.fires THEN {} ELSE OpenCoins]
    /\ Quiet /\ UNCHANGED <<breakerVars, alertVars, rows, hwm, historyVars>>

\* daily_loss_hit: on a new day the date is committed, then its starting equity.
RollDay ==
    /\ At("roll")
    /\ IF breakerDay # day
       THEN /\ RecordDay(day)
            /\ opened' = [opened EXCEPT ![day] = {pass.equity}]
            /\ Goes("start")
       ELSE Goes("measure") /\ UNCHANGED <<breakerVars, opened>>
    /\ Quiet /\ UNCHANGED <<alertVars, rows, hwm, cutRoll>>

RollStart ==
    /\ At("start")
    /\ RecordStart(pass.equity)
    /\ Goes("measure")
    /\ Quiet /\ UNCHANGED <<alertVars, rows, hwm, historyVars>>

Measure ==
    /\ At("measure")
    /\ pass' = [pass EXCEPT !.at = "unmanaged", !.loss = DailyLossHit(pass.equity),
                            !.day = breakerDay]
    /\ Quiet /\ UNCHANGED <<breakerVars, alertVars, rows, hwm, historyVars>>

-----------------------------------------------------------------------------
(* The alerts.  Each is skipped, or sent and then recorded; that a danger has ended *)
(* is only recorded.                                                               *)

Reason == IF pass.tripped THEN {"kill switch"} ELSE IF pass.loss THEN {"daily loss"} ELSE {}

\* What the pass sees of a condition; a halt that blocks nothing is as it was.
Seen(c) == IF c = "halt" THEN Reason ELSE pass.danger[c]
Worth(c) == c = "halt" /\ Reason # {} => pass.blocked

News(c) == IsNews(c, Seen(c)) /\ Worth(c)

\* The stage between an alert and its record.
Recording(c) ==
    CASE c = "unmanaged" -> "record unmanaged"
      [] c = "liquidation" -> "record liquidation"
      [] c = "halt" -> "record halt"

\* Slip: recorded, then sent.
AlertLate(c, next) ==
    \/ At(c) /\ ~News(c) /\ Goes(next) /\ UNCHANGED alertVars
    \/ At(c) /\ News(c) /\ Remember(c, Seen(c)) /\ Goes(Recording(c))
    \/ At(Recording(c)) /\ Page(c, Seen(c)) /\ Goes(next)

Alert(c, next) ==
    \/ At(c) /\ ~News(c) /\ Goes(next) /\ UNCHANGED alertVars
    \/ At(c) /\ News(c) /\ Seen(c) # {} /\ Page(c, Seen(c)) /\ Goes(Recording(c))
    \/ At(c) /\ News(c) /\ Seen(c) = {} /\ Remember(c, {}) /\ Goes(next)
    \/ At(Recording(c)) /\ Remember(c, Seen(c)) /\ Goes(next)

Alerts ==
    /\ \/ Alert("unmanaged", "liquidation")
       \/ Alert("liquidation", "pull")
       \/ Alert("halt", "judge")
    /\ Quiet /\ UNCHANGED <<breakerVars, rows, hwm, historyVars>>

\* The batch is pulled; that, and what is deferred, is the work a halt would block.
PullBatch ==
    /\ At("pull")
    /\ pass' = [pass EXCEPT !.at = "halt", !.last = Len(Stream),
                            !.blocked = hwm < Len(Stream) \/ parked]
    /\ Quiet /\ UNCHANGED <<breakerVars, alertVars, rows, hwm, historyVars>>

-----------------------------------------------------------------------------
(* The batch. *)

Coin == Stream[hwm + 1]
GateMayPass == Reason = {} /\ Coin \notin pass.coins

\* _open_shadow_trade; then the candidate's coin is taken for the rest of the pass.
BookShadow ==
    /\ At("judge") /\ hwm < pass.last
    /\ ~pass.fires /\ GateMayPass
    /\ rows' = Append(rows, [coin |-> Coin, candidate |-> hwm + 1, open |-> TRUE])
    /\ pass' = [pass EXCEPT !.at = "advance", !.coins = @ \cup {Coin}]
    /\ Quiet /\ UNCHANGED <<breakerVars, alertVars, hwm, historyVars>>

\* Dropped, rejected, parked or fired.
PassOver ==
    /\ At("judge") /\ hwm < pass.last
    /\ Goes("advance")
    /\ Quiet /\ UNCHANGED <<breakerVars, alertVars, rows, hwm, historyVars>>

AdvanceHwm ==
    /\ At("advance")
    /\ hwm' = hwm + 1
    /\ Goes("judge")
    /\ Quiet /\ UNCHANGED <<breakerVars, alertVars, rows, historyVars>>

EndPass ==
    /\ At("judge") /\ hwm = pass.last
    /\ pass' = Idle
    /\ Quiet /\ UNCHANGED <<breakerVars, alertVars, rows, hwm, historyVars>>

Dies ==
    /\ ~At("idle")
    /\ faults < MaxFaults
    /\ faults' = faults + 1
    /\ pass' = Idle
    /\ cutRoll' = IF At("start") THEN cutRoll \cup {breakerDay} ELSE cutRoll
    /\ UNCHANGED <<breakerVars, alertVars, worldVars, rows, hwm, opened>>

Next ==
    \/ EquityMoves \/ DayTurns \/ DangerChanges \/ SwitchFlips \/ DeferralsChange
    \/ StartPass \/ ResolveShadow \/ ReadAccount \/ RollDay \/ RollStart \/ Measure
    \/ Alerts \/ PullBatch \/ BookShadow \/ PassOver \/ AdvanceHwm \/ EndPass
    \/ Dies

Spec == Init /\ [][Next]_vars

-----------------------------------------------------------------------------
(* Properties. *)

\* The day's loss is measured from the equity of the day's first pass ("trips ... when
\* equity has drawn down past the limit from the day's starting equity", breaker.py:4-6),
\* but on a day whose rollover was cut off between its two commits.
LossFromDaysFirst ==
    At("judge") /\ pass.day \notin cutRoll =>
        \E first \in opened[pass.day] : pass.loss = LossHit(first, pass.equity)

\* Whoever watches the alerts knows: a pass that has looked at a danger, or is halted with
\* work to do, leaves the operator told of just that, through every crash between an alert
\* and its record; and is not told over and over: a page costs a change of the world or
\* a crash (runner.py:580-581, 621-622).  One picture can be stale: after a death between
\* an alert and its record, a danger that is again what was recorded before is no news.
Looked(c) ==
    CASE c = "unmanaged" -> pass.at \in {"liquidation", "pull", "halt", "judge", "advance"}
      [] c = "liquidation" -> pass.at \in {"pull", "halt", "judge", "advance"}
      [] OTHER -> pass.at \in {"judge", "advance"} /\ pass.blocked
ToldOncePerChange ==
    /\ \A c \in Conditions :
           Looked(c) /\ Seen(c) # {} => told[c] = Seen(c) \/ (c \in unrecorded /\ faults > 0)
    /\ pages <= moves + faults

\* The hypothetical book keeps live discipline: one open row to a coin, through crashes and
\* passes of both kinds; and a candidate is booked again only where a crash came between
\* its row and the mark (runner.py:136-138, 189-191).
ShadowBookedOnce ==
    /\ \A i, j \in OpenIds : rows[i].coin = rows[j].coin => i = j
    /\ Cardinality(DOMAIN rows) <= Cardinality({rows[i].candidate : i \in DOMAIN rows}) + faults
=============================================================================
