----------------------------- MODULE EntryGate ------------------------------
(***************************************************************************)
(* The risk gate (hlcli/executor/gate.py): the checks an act-now verdict   *)
(* passes in order, the size it is given and the caps on the whole book.   *)
(*                                                                         *)
(* A side is 1 for long and -1 for short.  Prices are whole; a size is a   *)
(* whole number of ticks, Ticks of them to a unit (the code rounds to a    *)
(* millionth), so that size * price is a notional in Ticks-ths of a dollar.*)
(* Percents of the configuration are hundredths (ConfigClamp).             *)
(***************************************************************************)
EXTENDS ConfigClamp, Sequences, FiniteSets, Functions, FiniteSetsExt, TLC

CONSTANTS
    Ticks,             \* ticks to a unit of size
    AllowedCoins,      \* HL_ALLOWED_COINS
    MaxNotional,       \* HL_MAX_NOTIONAL_PER_TRADE
    MaxLeverage,       \* HL_MAX_LEVERAGE
    MaxGross,          \* HL_MAX_TOTAL_EXPOSURE_USD, 0 = off
    MaxGrossLeverage,  \* HL_MAX_GROSS_LEVERAGE, 0 = off
    MaxPositions,      \* HL_MAX_CONCURRENT_POSITIONS
    MaxTradesPerDay,   \* HL_MAX_TRADES_PER_DAY, 0 = off
    MinNotional,       \* HL_MIN_ORDER_NOTIONAL
    MaxAge,            \* HL_MAX_SIGNAL_AGE_MINUTES
    Floor,             \* HL_RR_FLOOR, in percent
    TakerFee,          \* HL_TAKER_FEE_PCT in hundredths of a percent; 0 when not netted
    MarginFrac         \* HL_MAX_MAINTENANCE_MARGIN_FRAC in percent, 0 = off

ASSUME GateAssumption ==
    /\ {Ticks, MaxNotional, MaxLeverage} \subseteq Nat \ {0}
    /\ {MaxGross, MaxGrossLeverage, MaxPositions, MaxTradesPerDay, MinNotional, MaxAge, Floor,
        TakerFee, MarginFrac} \subseteq Nat

NoQuote == 0

Dist(a, b) == IF a >= b THEN a - b ELSE b - a

\* To the nearest whole; the code's rounding differs on exact halves only.
Nearest(num, den) ==
    IF 2 * (num % den) >= den THEN num \div den + 1 ELSE num \div den

Coherent(c) == c.side * (c.entry - c.sl) > 0 /\ c.side * (c.tp - c.entry) > 0
Inside(c, mark) == c.side * (mark - c.sl) > 0 /\ c.side * (c.tp - mark) > 0

\* Reward over risk at a price reaches the floor, net of the fee on both legs: the fee is
\* 2 * TakerFee / 10000 of the price.
RewardRiskAt(c, price, fee) ==
    LET reward == Greatest(0, 10000 * Dist(c.tp, price) - 2 * fee * price)
        risk == 10000 * Dist(price, c.sl) + 2 * fee * price
    IN  risk > 0 /\ 100 * reward >= Floor * risk

\* gross_exposure_reason: the first cap on the whole book that `notional` more would break.
GrossReason(gross, notional, equity) ==
    IF MaxGross > 0 /\ gross + notional > MaxGross * Ticks THEN "gross exposure"
    ELSE IF /\ MaxGrossLeverage > 0
            /\ equity > 0
            /\ gross + notional > equity * MaxGrossLeverage * Ticks
    THEN "gross leverage"
    ELSE "none"

\* book_gross_notional: a coin without a quote counts at its entry price.
GrossNotional(book, marks) ==
    SumFunction([t \in book |->
        t.size * (IF marks[t.coin] = NoQuote THEN t.entry ELSE marks[t.coin])])

-----------------------------------------------------------------------------
(* Sizing. *)

\* _conviction_fraction, as a fraction with the denominator Span: below the minimum
\* nothing, else on the line from the floor to the ceiling.
Span(cfg) == Greatest(1, 100 - cfg["min_conviction"])
ConvictionShare(conviction, cfg) ==
    IF ~cfg["sizing_enabled"] THEN 100 * Span(cfg)
    ELSE IF conviction < cfg["min_conviction"] THEN 0
    ELSE cfg["floor_fraction"] * Span(cfg)
           + (conviction - cfg["min_conviction"])
                 * (cfg["ceil_fraction"] - cfg["floor_fraction"])

\* _size: the fraction of equity at risk between the mark and the stop, scaled by
\* conviction and then capped per order.
Size(c, conviction, cfg, mark, equity) ==
    IF Dist(mark, c.sl) = 0 THEN 0
    ELSE LET target == Nearest(cfg["risk_per_trade_pct"] * equity * Ticks
                                   * ConvictionShare(conviction, cfg),
                               10000 * 100 * Span(cfg) * Dist(mark, c.sl))
             byNotional == Nearest(MaxNotional * Ticks, mark)
             byLeverage == Nearest(equity * MaxLeverage * Ticks, mark)
         IN  Least(target, Least(byNotional, byLeverage))

-----------------------------------------------------------------------------
(* The pipeline: the first check that fails is the reason. *)

Check(reason, fails) == [reason |-> reason, fails |-> fails]

Checks(c, d, cfg, ctx) ==
    LET mark == ctx.marks[c.coin]
        size == IF mark = NoQuote THEN 0 ELSE Size(c, d.conviction, cfg, mark, ctx.equity)
        regime == ctx.regime[c.coin]
    IN  << Check("skip", d.action # "act"),
           Check("wait", d.timing # "now"),
           Check("breaker", ctx.breaker_tripped),
           Check("daily loss", ctx.daily_loss),
           Check("daily entries", MaxTradesPerDay > 0 /\ ctx.trades_today >= MaxTradesPerDay),
           Check("stale", ctx.now - c.created_at > MaxAge),
           Check("coin", c.coin \notin AllowedCoins),
           Check("regime", /\ cfg["regime_enabled"]
                           /\ regime # "unknown"
                           /\ regime \notin cfg["allowed_regimes"]),
           Check("levels", ~Coherent(c)),
           Check("reward", ~RewardRiskAt(c, c.entry, 0)),
           Check("no mark", mark = NoQuote),
           Check("mark", ~Inside(c, mark)),
           Check("reward at mark", ~RewardRiskAt(c, mark, TakerFee)),
           Check("held", c.coin \in ctx.open_coins),
           Check("positions", Cardinality(ctx.open_coins) >= MaxPositions),
           Check("equity", ctx.equity <= 0),
           Check("margin", MarginFrac > 0 /\ 100 * ctx.margin > ctx.equity * MarginFrac),
           Check("size", size <= 0),
           Check("minimum", size * mark < MinNotional * Ticks),
           Check(GrossReason(ctx.gross, size * mark, ctx.equity),
                 GrossReason(ctx.gross, size * mark, ctx.equity) # "none") >>

\* evaluate
Evaluate(c, d, cfg, ctx) ==
    LET checks == Checks(c, d, cfg, ctx)
        failed == {i \in DOMAIN checks : checks[i].fails}
    IN  IF failed = {}
        THEN [reason |-> "approved",
              size |-> Size(c, d.conviction, cfg, ctx.marks[c.coin], ctx.equity)]
        ELSE [reason |-> checks[Min(failed)].reason, size |-> 0]
=============================================================================
