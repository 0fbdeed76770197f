--------------------------- MODULE MCLearningLoop ---------------------------
(* Instances of LearningLoop for TLC. *)
EXTENDS LearningLoop

CONSTANTS x, y

Coins == {x, y}

Setup(id, coin, side, entry, sl, tp) ==
    [id |-> id, coin |-> coin, side |-> side, entry |-> entry, sl |-> sl, tp |-> tp,
     created_at |-> 0, direction |-> IF side = 1 THEN "LONG" ELSE "SHORT",
     confidence |-> NonFinite]

\* A long and a short, each of a reward of three times its risk.
TwoSetups == {Setup(1, x, 1, 10, 8, 16), Setup(2, y, -1, 10, 12, 4)}

Marks(px, py) == [coin \in Coins |-> IF coin = x THEN px ELSE py]

\* At the entries; and the long a winner while the feed has lost the other coin.
SomeQuotes == {Marks(10, 10), Marks(12, NoQuote)}

SomeRegimes == {[coin \in Coins |-> IF coin = x THEN "trend" ELSE "unknown"]}

Answer(action, timing, conviction) ==
    [action |-> action, timing |-> timing, conviction |-> conviction, recheck |-> NonFinite]

\* Sure beyond measure, unsure, and of no conviction at all.
SomePayloads == {Answer("act", "now", 150), Answer("act", "now", 20),
                 Answer("act", "now", NonFinite)}

SomeSettings == {<<"exec_interval_minutes", 200>>}

\* What an editor may leave: more risk than there may be, no number where there was one,
\* and a floor over its ceiling.
SomeDrafts ==
    {[Defaults EXCEPT !["risk_per_trade_pct"] = 900, !["min_conviction"] = NonFinite,
                      !["sizing_enabled"] = TRUE,
                      !["floor_fraction"] = 99, !["ceil_fraction"] = 95]}

\* The model proposes more risk than it may, and no number.
SomeAnswers ==
    {[key \in {"risk_per_trade_pct", "min_conviction"} |->
        IF key = "risk_per_trade_pct" THEN 900 ELSE NonFinite]}
=============================================================================
