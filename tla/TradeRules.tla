----------------------------- MODULE TradeRules -----------------------------
(***************************************************************************)
(* The pure rules one ledger row is judged by: when the resolver closes it *)
(* (hlcli/executor/resolve.py), what the sentry engine proposes for it     *)
(* (hlcli/sentry/engine.py), what the management gate lets the model do to *)
(* it (hlcli/sentry/gate.py) and which mark an entry may be fired at       *)
(* (hlcli/executor/gate.py).                                               *)
(*                                                                         *)
(* A side is 1 for long and -1 for short, so that "toward profit" is "up"  *)
(* once a price is multiplied by it.  Prices and sizes are whole numbers   *)
(* of a small unit and thresholds in R are whole percents of R.  Rounding  *)
(* and the taker fee are left out: a row's `realized` is the gross P&L,    *)
(* which the code stores as realized + fee_paid.  An ATR trail differs     *)
(* from a percent trail only in the distance it follows a mark at.         *)
(***************************************************************************)
EXTENDS Integers

CONSTANTS
    Marks,               \* the prices the feed may quote
    TrailDistance,       \* trail: how far behind a mark the stop follows
    TrailStartR,         \* trail_start_r
    BreakevenTriggerR,   \* breakeven_trigger_r, 0 = off
    BreakevenBufferR,    \* breakeven_buffer_r
    ScaleOutR,           \* scale_out_r, 0 = off
    ScaleOutParts,       \* one part in so many is banked: 1 / scale_out_fraction
    MinMoveR,            \* min_move_r
    RRFloor              \* HL_RR_FLOOR, whole

NoTrail == -1

ASSUME RulesAssumption ==
    /\ Marks \subseteq Nat \ {0}
    /\ TrailDistance \in [Marks -> Nat \cup {NoTrail}]
    /\ {TrailStartR, BreakevenTriggerR, BreakevenBufferR, ScaleOutR, MinMoveR, RRFloor}
           \subseteq Nat
    /\ ScaleOutParts \in Nat \ {0, 1}   \* clamp keeps the fraction within 0.1..0.9

Long == 1
Short == -1
Sides == {Long, Short}

Magnitude(x) == IF x < 0 THEN -x ELSE x

InitialRisk(row) == Magnitude(row.entry - row.initial_sl)
FavorableMove(row, mark) == row.side * (mark - row.entry)
Pnl(row, size, exit) == row.side * (exit - row.entry) * size

\* The move is worth at least r percent of the row's initial risk.
Reaches(row, move, r) == 100 * move >= r * InitialRisk(row)

-----------------------------------------------------------------------------
(* resolve.py: what closes a row. *)

StopHit(row, mark) == row.side * (mark - row.sl) <= 0
TargetHit(row, mark) == row.side * (mark - row.tp) >= 0

\* Slip: every stop-out is a loss.
StopAlwaysLoses(row) == "lost"

\* A stop past entry banks a profit: that is a win, not a loss.
StopStatus(row) == IF row.side * (row.sl - row.entry) > 0 THEN "won" ELSE "lost"

\* The outcome due at this mark, if any; the stop is looked at first and the hold
\* time last.
Classify(row, mark, aged) ==
    IF StopHit(row, mark) THEN {[status |-> StopStatus(row), level |-> row.sl]}
    ELSE IF TargetHit(row, mark) THEN {[status |-> "won", level |-> row.tp]}
    ELSE IF aged THEN {[status |-> "expired", level |-> mark]}
    ELSE {}

\* A judgment close is booked by the sign of what it made.
CloseStatus(pnl) == IF pnl > 0 THEN "won" ELSE IF pnl < 0 THEN "lost" ELSE "closed"

-----------------------------------------------------------------------------
(* engine.py: the deterministic management of a row. *)

\* The one-shot partial: its size and the ladder level it is booked at.
ScaleOut(row, mark) ==
    IF /\ InitialRisk(row) > 0
       /\ ScaleOutR > 0
       /\ ~row.scaled_out
       /\ Reaches(row, FavorableMove(row, mark), ScaleOutR)
    THEN {[size  |-> row.size \div ScaleOutParts,
           level |-> row.entry + row.side * ((ScaleOutR * InitialRisk(row)) \div 100)]}
    ELSE {}

Breakeven(row) ==
    row.entry + row.side * ((BreakevenBufferR * InitialRisk(row)) \div 100)
Trail(row, mark) == mark - row.side * TrailDistance[mark]

StopProposals(row, mark) ==
    LET move == FavorableMove(row, mark)
    IN  (IF BreakevenTriggerR > 0 /\ Reaches(row, move, BreakevenTriggerR)
         THEN {Breakeven(row)} ELSE {})
        \cup
        (IF TrailDistance[mark] # NoTrail /\ Reaches(row, move, TrailStartR)
         THEN {Trail(row, mark)} ELSE {})

\* Slips: the level may be at or past the mark; a move counts whichever way it goes.
RatchetsPastMark(row, mark, stop) ==
    LET improvement == row.side * (stop - row.sl)
    IN  improvement > 0 /\ Reaches(row, improvement, MinMoveR)
RatchetsEitherWay(row, mark, stop) ==
    /\ Reaches(row, Magnitude(stop - row.sl), MinMoveR)
    /\ row.side * (mark - stop) > 0

\* A stop worth moving to: nearer to profit than the row's own, by more than dust, and
\* still on the losing side of the mark.
Ratchets(row, mark, stop) ==
    LET improvement == row.side * (stop - row.sl)
    IN  /\ improvement > 0
        /\ Reaches(row, improvement, MinMoveR)
        /\ row.side * (mark - stop) > 0

\* The most protecting proposal alone is put to that test.
MoveStop(row, mark) ==
    {s \in StopProposals(row, mark) :
        /\ InitialRisk(row) > 0
        /\ \A o \in StopProposals(row, mark) : row.side * s >= row.side * o
        /\ Ratchets(row, mark, s)}

-----------------------------------------------------------------------------
(* sentry/gate.py: what a verdict of the model may do.  Halts, budgets, cooldowns and *)
(* the windows between opposing actions may refuse any verdict but a close: they are  *)
(* the caller's choice not to act.                                                    *)

MayTighten(row, mark, stop) == InitialRisk(row) > 0 /\ Ratchets(row, mark, stop)

MayReduce(row) == InitialRisk(row) > 0 /\ ~row.scaled_out

MayExtend(row, tp) ==
    /\ InitialRisk(row) > 0
    /\ row.side * (row.sl - row.entry) >= 0
    /\ row.side * (tp - row.tp) > 0
    /\ row.side * (tp - row.tp) <= InitialRisk(row)

\* A winner of at least 1R whose stop is raised with the add.  The code adds as much as
\* the open profit covers, at most half of what the coin holds and no more than the
\* account's caps; here any size within the first two bounds may be the one.
MayAdd(row, mark, stop, size, held) ==
    /\ InitialRisk(row) > 0
    /\ Reaches(row, FavorableMove(row, mark), 100)
    /\ row.side * (stop - row.sl) > 0
    /\ row.side * (mark - stop) > 0
    /\ size * Magnitude(mark - stop) <= FavorableMove(row, mark) * row.size
    /\ 2 * size <= held

-----------------------------------------------------------------------------
(* executor/gate.py: the mark an entry may be fired at. *)

MarkInsideLevels(c, mark) ==
    /\ c.side * (mark - c.sl) > 0
    /\ c.side * (c.tp - mark) > 0
RewardRiskHolds(c, mark) ==
    Magnitude(c.tp - mark) >= RRFloor * Magnitude(mark - c.sl)
=============================================================================
