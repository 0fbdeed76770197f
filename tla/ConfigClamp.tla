---------------------------- MODULE ConfigClamp -----------------------------
(***************************************************************************)
(* The tunable configuration (hlcli/core/config_schema.py): its fields,    *)
(* the clamp every load and every write goes through, the two ways a field *)
(* is changed, and the overlay the config tuner makes of a proposal        *)
(* (hlcli/tuner/config_tuner.py).                                          *)
(*                                                                         *)
(* A numeric field holds a number of hundredths or NonFinite (NaN or an    *)
(* infinity, which JSON as Python reads it can carry).  A proposal is a    *)
(* function over the fields it names.                                      *)
(***************************************************************************)
EXTENDS Integers

CONSTANT NonFinite   \* a value that is no number

ASSUME NonFiniteAssumption == NonFinite \notin Int

Field(section, lo, hi, default) ==
    [section |-> section, lo |-> lo, hi |-> hi, default |-> default]

\* Where a numeric field lives, its bounds and its default.
Numeric ==
    [risk_per_trade_pct      |-> Field("top", 0, 500, 50),
     max_candidates_per_pass |-> Field("top", 100, 5000, 500),
     decision_temperature    |-> Field("top", 0, 100, 20),
     max_hold_minutes        |-> Field("top", 0, 1008000, 0),
     min_conviction          |-> Field("sizing", 0, 100, 30),
     floor_fraction          |-> Field("sizing", 0, 100, 25),
     ceil_fraction           |-> Field("sizing", 0, 100, 100),
     atr_multiple            |-> Field("trail", 50, 1000, 200),
     trail_percent           |-> Field("trail", 10, 2000, 100),
     trail_start_r           |-> Field("trail", 0, 1000, 100),
     breakeven_trigger_r     |-> Field("trail", 0, 1000, 0),
     breakeven_buffer_r      |-> Field("trail", 0, 90, 5),
     scale_out_r             |-> Field("trail", 0, 1000, 0),
     scale_out_fraction      |-> Field("trail", 10, 90, 50),
     min_move_r              |-> Field("trail", 0, 200, 10),
     intake_poll_seconds     |-> Field("agent", 100, 6000, 500),
     exec_interval_minutes   |-> Field("agent", 50, 12000, 500),
     sentry_interval_seconds |-> Field("agent", 1000, 360000, 6000)]

\* The fields that are no numbers.
Switches ==
    [regime_enabled    |-> [section |-> "regime", default |-> TRUE],
     allowed_regimes   |-> [section |-> "regime", default |-> {"trend", "range"}],
     sizing_enabled    |-> [section |-> "sizing", default |-> FALSE],
     style             |-> [section |-> "trail", default |-> "off"],
     journal_narrative |-> [section |-> "agent", default |-> TRUE],
     reflection_inject |-> [section |-> "agent", default |-> TRUE]]

NumericKeys == DOMAIN Numeric
TunableKeys == NumericKeys \cup DOMAIN Switches

Section(key) == IF key \in NumericKeys THEN Numeric[key].section ELSE Switches[key].section
Default(key) == IF key \in NumericKeys THEN Numeric[key].default ELSE Switches[key].default

Defaults == [key \in TunableKeys |-> Default(key)]

\* What the schema lets a field hold; pydantic refuses a file with anything else.
OfKind(key, value) ==
    CASE key \in NumericKeys -> value \in Int \cup {NonFinite}
      [] key = "style" -> value \in STRING
      [] key = "allowed_regimes" -> value \subseteq STRING
      [] OTHER -> value \in BOOLEAN

KnownRegimes == {"trend", "range"}
TrailStyles == {"off", "atr", "percent"}

Least(a, b) == IF a <= b THEN a ELSE b
Greatest(a, b) == IF a >= b THEN a ELSE b

\* _bound: what is no number becomes the default, never the widest setting.
Bound(value, f) ==
    IF value = NonFinite THEN f.default ELSE Greatest(f.lo, Least(f.hi, value))

Bounded(cfg, key) == Bound(cfg[key], Numeric[key])

ClampSwitch(cfg, key) ==
    CASE key = "style" ->
             IF cfg[key] \in TrailStyles THEN cfg[key] ELSE Default(key)
      [] key = "allowed_regimes" ->
             IF cfg[key] \cap KnownRegimes = {} THEN KnownRegimes ELSE cfg[key] \cap KnownRegimes
      [] OTHER -> cfg[key]

\* Slip: every field is bounded on its own.
BoundsEach(cfg) ==
    [key \in TunableKeys |->
        IF key \in NumericKeys THEN Bounded(cfg, key) ELSE ClampSwitch(cfg, key)]

\* clamp
Clamp(cfg) ==
    [key \in TunableKeys |->
        IF key = "floor_fraction"
        THEN Least(Bounded(cfg, key), Bounded(cfg, "ceil_fraction"))
        ELSE IF key \in NumericKeys THEN Bounded(cfg, key)
        ELSE ClampSwitch(cfg, key)]

\* The box no configuration leaves once it is loaded.
InBox(cfg) ==
    /\ \A key \in NumericKeys : cfg[key] \in Numeric[key].lo..Numeric[key].hi
    /\ cfg["floor_fraction"] <= cfg["ceil_fraction"]
    /\ cfg["style"] \in TrailStyles
    /\ cfg["allowed_regimes"] # {} /\ cfg["allowed_regimes"] \subseteq KnownRegimes

\* set_field: one leaf; a path that is no leaf, or a value of another kind, is refused
\* before this.
SetField(cfg, key, value) == [cfg EXCEPT ![key] = value]

Sections(payload) == {Section(key) : key \in DOMAIN payload}

\* Slip: fields no proposal names are defaults.
BarePayload(cfg, payload) ==
    Clamp([key \in TunableKeys |->
              IF key \in DOMAIN payload THEN payload[key] ELSE Default(key)])

\* _validate: the overlay replaces a section as a whole, so that a field of a named
\* section that the payload leaves out becomes its default.
Overlay(cfg, payload) ==
    Clamp([key \in TunableKeys |->
              IF key \in DOMAIN payload THEN payload[key]
              ELSE IF Section(key) # "top" /\ Section(key) \in Sections(payload)
              THEN Default(key)
              ELSE cfg[key]])
=============================================================================
