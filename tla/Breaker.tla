------------------------------- MODULE Breaker -------------------------------
(***************************************************************************)
(* The kill switch and the daily loss limit (hlcli/safety/breaker.py).     *)
(* The day and its starting equity are two rows of the store's meta table, *)
(* each a commit of its own; the switch is a third.                        *)
(***************************************************************************)
EXTENDS Integers

CONSTANTS
    LimitPct,   \* HL_DAILY_LOSS_LIMIT_PCT
    Equities    \* what the account may be worth

ASSUME BreakerAssumption == LimitPct \in Nat /\ Equities \subseteq Int

VARIABLES
    tripped,     \* the kill switch
    breakerDay,  \* meta breaker_day
    dayStart     \* meta day_start_equity: none before the first pass

breakerVars == <<tripped, breakerDay, dayStart>>

NoDay == 0

BreakerTypeOK ==
    /\ tripped \in BOOLEAN
    /\ breakerDay \in Nat
    /\ dayStart \in SUBSET Int

BreakerInit == tripped = FALSE /\ breakerDay = NoDay /\ dayStart = {}

SetBreaker(on) ==
    /\ tripped' = on
    /\ UNCHANGED <<breakerDay, dayStart>>

RecordDay(today) ==
    /\ breakerDay' = today
    /\ UNCHANGED <<tripped, dayStart>>

\* Slip: a start that is there is not replaced.
StartOnce(equity) ==
    /\ dayStart' = IF dayStart = {} THEN {equity} ELSE dayStart
    /\ UNCHANGED <<tripped, breakerDay>>

RecordStart(equity) ==
    /\ dayStart' = {equity}
    /\ UNCHANGED <<tripped, breakerDay>>

\* A start of nothing, or less, is never lost from.
LossHit(start, equity) == start > 0 /\ 100 * (start - equity) >= LimitPct * start

\* daily_loss_hit, once the day is rolled over; a start that is missing is today's equity.
DailyLossHit(equity) ==
    \E start \in IF dayStart = {} THEN {equity} ELSE dayStart : LossHit(start, equity)
=============================================================================
