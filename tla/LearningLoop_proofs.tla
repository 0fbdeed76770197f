------------------------ MODULE LearningLoop_proofs ------------------------
(***************************************************************************)
(* Proofs about the clamp and the life of a configuration, the gate, and   *)
(* the book and the record that passes, adds and partials make, for any    *)
(* configurations, candidates, verdicts, quotes and limits.                *)
(***************************************************************************)
EXTENDS LearningLoop, Sums_proofs

-----------------------------------------------------------------------------
(* The clamp. *)

(* The bounds of every numeric field are numbers around its default. *)
LEMMA Boxes ==
    ASSUME NEW key \in NumericKeys
    PROVE  /\ Numeric[key].lo \in Int /\ Numeric[key].hi \in Int
           /\ Numeric[key].default \in Numeric[key].lo..Numeric[key].hi
BY DEF NumericKeys, Numeric, Field

LEMMA AgentKeys ==
    ASSUME NEW key \in TunableKeys, Section(key) = "agent"
    PROVE  key \notin {"floor_fraction", "style", "allowed_regimes"}
BY DEF TunableKeys, NumericKeys, Section, Numeric, Switches, Field

LEMMA NamedKeys ==
    /\ {"floor_fraction", "ceil_fraction"} \subseteq NumericKeys
    /\ {"style", "allowed_regimes"} \subseteq TunableKeys \ NumericKeys
    /\ NumericKeys \subseteq TunableKeys
BY DEF TunableKeys, NumericKeys, Numeric, Switches

Number == Int \cup {NonFinite}
Numbers(cfg) == \A key \in NumericKeys : cfg[key] \in Number

LEMMA BoundInBox ==
    ASSUME NEW f, f.lo \in Int, f.hi \in Int, f.default \in f.lo..f.hi,
           NEW value \in Number
    PROVE  /\ Bound(value, f) \in f.lo..f.hi
           /\ value \in f.lo..f.hi => Bound(value, f) = value
<1>1. CASE value = NonFinite
  <2>1. value \notin Int
    BY <1>1, NonFiniteAssumption DEF NonFiniteAssumption
  <2> QED BY <1>1, <2>1 DEF Bound
<1>2. CASE value # NonFinite
  <2>1. value \in Int
    BY <1>2 DEF Number
  <2> QED BY <1>2, <2>1 DEF Bound, Greatest, Least
<1> QED BY <1>1, <1>2

LEMMA BoundedInBox ==
    ASSUME NEW cfg, NEW key \in NumericKeys, cfg[key] \in Number
    PROVE  /\ Bounded(cfg, key) \in Numeric[key].lo..Numeric[key].hi
           /\ cfg[key] \in Numeric[key].lo..Numeric[key].hi => Bounded(cfg, key) = cfg[key]
BY Boxes, BoundInBox DEF Bounded

(* What each kind of field becomes. *)
LEMMA ClampOf ==
    ASSUME NEW cfg
    PROVE  /\ Clamp(cfg)["floor_fraction"]
                  = Least(Bounded(cfg, "floor_fraction"), Bounded(cfg, "ceil_fraction"))
           /\ \A key \in NumericKeys \ {"floor_fraction"} : Clamp(cfg)[key] = Bounded(cfg, key)
           /\ \A key \in TunableKeys \ NumericKeys : Clamp(cfg)[key] = ClampSwitch(cfg, key)
BY NamedKeys DEF Clamp

LEMMA CommonBox ==
    Numeric["floor_fraction"].lo = 0 /\ Numeric["floor_fraction"].hi = 100
    /\ Numeric["ceil_fraction"].lo = 0 /\ Numeric["ceil_fraction"].hi = 100
BY DEF Numeric, Field

(* Whatever numbers a file, a command or a model holds, and whatever is no *)
(* number, the clamped configuration is in the box (config_schema.py:113). *)
THEOREM ClampInBox ==
    ASSUME NEW cfg, Numbers(cfg) PROVE InBox(Clamp(cfg))
<1>1. ASSUME NEW key \in NumericKeys
      PROVE  Bounded(cfg, key) \in Numeric[key].lo..Numeric[key].hi
  BY BoundedInBox DEF Numbers
<1>2. /\ Bounded(cfg, "floor_fraction") \in 0..100
      /\ Bounded(cfg, "ceil_fraction") \in 0..100
  BY <1>1, NamedKeys, CommonBox
<1>3. /\ Clamp(cfg)["floor_fraction"] \in 0..100
      /\ Clamp(cfg)["floor_fraction"] <= Bounded(cfg, "ceil_fraction")
  BY <1>2, ClampOf DEF Least
<1>4. Clamp(cfg)["floor_fraction"] <= Clamp(cfg)["ceil_fraction"]
  BY <1>3, ClampOf, NamedKeys
<1>5. \A key \in NumericKeys : Clamp(cfg)[key] \in Numeric[key].lo..Numeric[key].hi
  BY <1>1, <1>3, ClampOf, CommonBox
<1>6. Clamp(cfg)["style"] \in TrailStyles
  <2>1. Clamp(cfg)["style"] = ClampSwitch(cfg, "style")
    BY ClampOf, NamedKeys
  <2>2. Default("style") = "off"
    BY NamedKeys DEF Default, Switches
  <2> QED BY <2>1, <2>2 DEF ClampSwitch, TrailStyles
<1>7. Clamp(cfg)["allowed_regimes"] # {} /\ Clamp(cfg)["allowed_regimes"] \subseteq KnownRegimes
  <2>1. Clamp(cfg)["allowed_regimes"] = ClampSwitch(cfg, "allowed_regimes")
    BY ClampOf, NamedKeys
  <2> QED BY <2>1 DEF ClampSwitch, KnownRegimes
<1> QED BY <1>4, <1>5, <1>6, <1>7 DEF InBox

LEMMA BoxIsNumbers ==
    ASSUME NEW cfg, InBox(cfg) PROVE Numbers(cfg)
BY Boxes DEF InBox, Numbers, Number

(* Clamping what is in the box changes nothing: the clamp is idempotent    *)
(* (config_schema.py:114), and loading what was saved, or promoting what   *)
(* was proposed, keeps every field.                                        *)
THEOREM ClampKeepsTheBox ==
    ASSUME NEW cfg, InBox(cfg)
    PROVE  \A key \in TunableKeys : Clamp(cfg)[key] = cfg[key]
<1>1. ASSUME NEW key \in NumericKeys PROVE Bounded(cfg, key) = cfg[key]
  BY BoundedInBox, BoxIsNumbers DEF InBox, Numbers
<1>2. Clamp(cfg)["floor_fraction"] = cfg["floor_fraction"]
  <2>1. /\ cfg["floor_fraction"] \in 0..100 /\ cfg["ceil_fraction"] \in 0..100
        /\ cfg["floor_fraction"] <= cfg["ceil_fraction"]
    BY NamedKeys, CommonBox DEF InBox
  <2> QED BY <1>1, <2>1, ClampOf, NamedKeys DEF Least
<1>3. ASSUME NEW key \in TunableKeys \ NumericKeys PROVE ClampSwitch(cfg, key) = cfg[key]
  <2>1. CASE key = "style"
    BY <2>1 DEF ClampSwitch, InBox
  <2>2. CASE key = "allowed_regimes"
    <3>1. cfg[key] \cap KnownRegimes = cfg[key] /\ cfg[key] # {}
      BY <2>2 DEF InBox
    <3> QED BY <2>2, <3>1 DEF ClampSwitch
  <2>3. CASE key \notin {"style", "allowed_regimes"}
    BY <2>3 DEF ClampSwitch
  <2> QED BY <2>1, <2>2, <2>3
<1> QED BY <1>1, <1>2, <1>3, ClampOf

-----------------------------------------------------------------------------
(* The life of a configuration. *)

LEMMA KindIsNumber ==
    ASSUME NEW key \in NumericKeys, NEW value, OfKind(key, value)
    PROVE  value \in Number
BY NamedKeys DEF OfKind, Number

LEMMA DefaultsAreNumbers == Numbers(Defaults)
<1>1. ASSUME NEW key \in NumericKeys PROVE Defaults[key] \in Number
  <2>1. Defaults[key] = Numeric[key].default
    BY NamedKeys DEF Defaults, Default
  <2> QED BY <2>1, Boxes DEF Number
<1> QED BY <1>1 DEF Numbers

ConfigInv ==
    /\ \A cfg \in active : Numbers(cfg)
    /\ editor = "closed" => \A cfg \in active : InBox(cfg)
    /\ \A cfg \in tuner : InBox(cfg)
    /\ \A p \in proposal : InBox(p.cfg) /\ InBox(p.from)
    /\ pass.running => "cfg" \in DOMAIN pass /\ InBox(pass.cfg)

LEMMA LoadInBox ==
    ASSUME ConfigInv PROVE InBox(Load)
<1>1. CASE active = {}
  BY <1>1, DefaultsAreNumbers, ClampInBox DEF Load
<1>2. CASE active # {}
  <2>1. (CHOOSE cfg \in active : TRUE) \in active
    BY <1>2
  <2>2. Numbers(CHOOSE cfg \in active : TRUE)
    BY <2>1 DEF ConfigInv
  <2> QED BY <1>2, <2>2, ClampInBox DEF Load
<1> QED BY <1>1, <1>2

LEMMA SetKeepsNumbers ==
    ASSUME NEW cfg, Numbers(Clamp(cfg)), NEW key \in TunableKeys, NEW value, OfKind(key, value)
    PROVE  Numbers(SetField(Clamp(cfg), key, value))
<1>1. ASSUME NEW k \in NumericKeys
      PROVE  SetField(Clamp(cfg), key, value)[k] = IF k = key THEN value ELSE Clamp(cfg)[k]
  BY NamedKeys DEF SetField, Clamp
<1>2. ASSUME NEW k \in NumericKeys PROVE SetField(Clamp(cfg), key, value)[k] \in Number
  BY <1>1, KindIsNumber DEF Numbers
<1> QED BY <1>2 DEF Numbers

(* What the overlay makes of each field, before it clamps. *)
Overlaid(cfg, payload) ==
    [key \in TunableKeys |->
        IF key \in DOMAIN payload THEN payload[key]
        ELSE IF Section(key) # "top" /\ Section(key) \in Sections(payload) THEN Default(key)
        ELSE cfg[key]]

LEMMA OverlayInBox ==
    ASSUME NEW cfg, InBox(cfg), NEW answer \in Answers
    PROVE  Numbers(Overlaid(cfg, answer)) /\ InBox(Overlay(cfg, answer))
<1>1. ASSUME NEW key \in NumericKeys PROVE Overlaid(cfg, answer)[key] \in Number
  <2>1. key \in DOMAIN answer => answer[key] \in Number
    BY KindIsNumber, LoopAssumption DEF LoopAssumption
  <2>2. Default(key) \in Number
    BY Boxes DEF Default, Number
  <2>3. cfg[key] \in Number
    BY BoxIsNumbers DEF Numbers
  <2> QED BY <2>1, <2>2, <2>3, NamedKeys DEF Overlaid
<1>2. Numbers(Overlaid(cfg, answer))
  BY <1>1 DEF Numbers
<1>3. Overlay(cfg, answer) = Clamp(Overlaid(cfg, answer))
  BY DEF Overlay, Overlaid
<1> QED BY <1>2, <1>3, ClampInBox

LEMMA OverlayKeepsAgent ==
    ASSUME NEW cfg, InBox(cfg), NEW answer \in Answers,
           NEW key \in TunableKeys, Section(key) = "agent"
    PROVE  Overlay(cfg, answer)[key] = cfg[key]
<1>1. DOMAIN answer \subseteq Exposed
  BY LoopAssumption DEF LoopAssumption
<1>2. key \notin DOMAIN answer /\ "agent" \notin Sections(answer)
  BY <1>1 DEF Exposed, Sections
<1>3. Overlaid(cfg, answer)[key] = cfg[key]
  BY <1>2 DEF Overlaid
<1>4. Overlay(cfg, answer) = Clamp(Overlaid(cfg, answer))
  BY DEF Overlay, Overlaid
<1>5. CASE key \in NumericKeys
  <2>1. cfg[key] \in Numeric[key].lo..Numeric[key].hi /\ cfg[key] \in Number
    BY <1>5, BoxIsNumbers DEF InBox, Numbers
  <2>2. Bounded(Overlaid(cfg, answer), key) = cfg[key]
    BY <1>3, <1>5, <2>1, BoundedInBox
  <2> QED BY <1>4, <1>5, <2>2, ClampOf, AgentKeys
<1>6. CASE key \notin NumericKeys
  <2>1. ClampSwitch(Overlaid(cfg, answer), key) = Overlaid(cfg, answer)[key]
    BY AgentKeys DEF ClampSwitch
  <2> QED BY <1>3, <1>4, <1>6, <2>1, ClampOf
<1> QED BY <1>5, <1>6

LEMMA ConfigInvInit == Init => ConfigInv
BY DEF Init, ConfigInv, Idle

LEMMA ConfigInvNext == ConfigInv /\ [Next]_vars => ConfigInv'
<1> SUFFICES ASSUME ConfigInv, [Next]_vars PROVE ConfigInv'
  OBVIOUS
<1>1. CASE ConfigSet
  <2>1. PICK s \in Settings : active' = {Clamp(SetField(Load, s[1], s[2]))}
    BY <1>1 DEF ConfigSet
  <2>2. PICK file : Load = Clamp(file)
    BY DEF Load
  <2>3. s[1] \in TunableKeys /\ OfKind(s[1], s[2])
    BY LoopAssumption DEF LoopAssumption
  <2>4. Numbers(SetField(Load, s[1], s[2]))
    BY <2>2, <2>3, LoadInBox, BoxIsNumbers, SetKeepsNumbers
  <2>5. \A cfg \in active' : InBox(cfg) /\ Numbers(cfg)
    BY <2>1, <2>4, ClampInBox, BoxIsNumbers
  <2> QED BY <1>1, <2>5 DEF ConfigSet, ConfigInv
<1>2. CASE ConfigReset
  BY <1>2 DEF ConfigReset, ConfigInv
<1>3. CASE EditorSaves
  <2>1. PICK cfg \in Drafts : active' = {cfg}
    BY <1>3 DEF EditorSaves
  <2>2. Numbers(cfg)
    <3>1. ASSUME NEW key \in NumericKeys PROVE cfg[key] \in Number
      BY KindIsNumber, NamedKeys, LoopAssumption DEF LoopAssumption
    <3> QED BY <3>1 DEF Numbers
  <2>3. editor' = "saved" /\ UNCHANGED <<tuner, proposal, pass>>
    BY <1>3 DEF EditorSaves
  <2> QED BY <2>1, <2>2, <2>3 DEF ConfigInv
<1>4. CASE EditNormalises
  <2>1. active' = {Load} /\ UNCHANGED <<tuner, proposal, pass>>
    BY <1>4 DEF EditNormalises
  <2> QED BY <2>1, LoadInBox, BoxIsNumbers DEF ConfigInv
<1>5. CASE TuneAsks
  BY <1>5, LoadInBox DEF TuneAsks, ConfigInv
<1>6. CASE TuneAnswers
  <2>1. PICK cfg \in tuner, answer \in Answers :
           proposal' = {[cfg |-> Clamp(Overlay(cfg, answer)), from |-> cfg]}
    BY <1>6 DEF TuneAnswers
  <2>2. InBox(cfg)
    BY DEF ConfigInv
  <2>3. InBox(Clamp(Overlay(cfg, answer)))
    BY <2>2, OverlayInBox, BoxIsNumbers, ClampInBox
  <2>4. \A p \in proposal' : InBox(p.cfg) /\ InBox(p.from)
    BY <2>1, <2>2, <2>3
  <2> QED BY <1>6, <2>4 DEF TuneAnswers, ConfigInv
<1>7. CASE Promote
  <2>1. PICK p \in proposal : active' = {Clamp(p.cfg)}
    BY <1>7 DEF Promote
  <2>2. InBox(Clamp(p.cfg))
    BY BoxIsNumbers, ClampInBox DEF ConfigInv
  <2>3. \A cfg \in active' : InBox(cfg) /\ Numbers(cfg)
    BY <2>1, <2>2, BoxIsNumbers
  <2> QED BY <1>7, <2>3 DEF Promote, ConfigInv
<1>8. CASE StartPass
  <2>1. UNCHANGED files
    BY <1>8 DEF StartPass
  <2>2. PICK marks \in Quotes, regime \in Regimes, source \in Sources :
           pass' = [running |-> TRUE, source |-> source, cfg |-> Load, marks |-> marks,
                    regime |-> regime, equity |-> Equity(marks),
                    gross |-> GrossNotional(open, marks), open_coins |-> {t.coin : t \in open},
                    trades_today |-> Cardinality(open) + Len(resolved),
                    breaker_tripped |-> FALSE, daily_loss |-> FALSE, margin |-> 0,
                    now |-> 0, judged |-> {}]
    BY <1>8, Zenon DEF StartPass
  <2>3. pass'.cfg = Load /\ "cfg" \in DOMAIN pass'
    BY <2>2
  <2> QED BY <2>1, <2>3, LoadInBox DEF ConfigInv, files
<1>9. CASE PassJudges
  <2>1. UNCHANGED files /\ pass.running
    BY <1>9 DEF PassJudges
  <2>2. PICK c \in Unjudged : \E d, outcome : Judge(c, d, outcome)
    BY <1>9, Zenon DEF PassJudges
  <2>3. pass'.cfg = pass.cfg /\ DOMAIN pass' = DOMAIN pass
    <3>1. "cfg" \in DOMAIN pass
      BY <2>1 DEF ConfigInv
    <3>2. PICK d : \E outcome : Judge(c, d, outcome)
      BY <2>2
    <3>3. PICK outcome : Judge(c, d, outcome)
      BY <3>2
    <3> QED BY <3>1, <3>3 DEF Judge
  <2> QED BY <2>1, <2>3 DEF ConfigInv, files
<1>10. CASE EndPass
  BY <1>10 DEF EndPass, Idle, ConfigInv, files
<1>11. CASE Resolve \/ ScaleOut \/ AddToWinner \/ Adopt \/ Finished \/ UNCHANGED vars
  <2>1. UNCHANGED <<active, editor, tuner, proposal, pass>>
    BY <1>11 DEF Resolve, ScaleOut, AddToWinner, Adopt, Finished, files, vars
  <2> QED BY <2>1 DEF ConfigInv
<1> QED BY <1>1, <1>2, <1>3, <1>4, <1>5, <1>6, <1>7, <1>8, <1>9, <1>10, <1>11 DEF Next

(* Whatever an editor leaves in the file and whatever the model proposes,  *)
(* the configuration a pass acts on, one a tuner asks about, a proposal    *)
(* and a file nobody is editing are in the box (config_schema.py:113-170). *)
ConfigInBox ==
    /\ editor = "closed" => \A cfg \in active : InBox(cfg)
    /\ \A cfg \in tuner : InBox(cfg)
    /\ \A p \in proposal : InBox(p.cfg)
    /\ pass.running => InBox(pass.cfg)

THEOREM ConfigStaysInBox == Spec => []ConfigInBox
<1>1. ConfigInv => ConfigInBox
  BY DEF ConfigInv, ConfigInBox
<1> QED BY <1>1, ConfigInvInit, ConfigInvNext, PTL DEF Spec

(* The fields the tuner's model is not asked for come through its proposal *)
(* as they stood when it was asked (config_tuner.py:145-156).              *)
THEOREM ProposalsKeepCadence == Spec => []ProposalKeepsCadence
<1>1. Init => ProposalKeepsCadence
  BY DEF Init, ProposalKeepsCadence
<1>2. ConfigInv /\ ProposalKeepsCadence /\ [Next]_vars => ProposalKeepsCadence'
  <2> SUFFICES ASSUME ConfigInv, ProposalKeepsCadence, [Next]_vars PROVE ProposalKeepsCadence'
    OBVIOUS
  <2>1. CASE TuneAnswers
    <3>1. PICK cfg \in tuner, answer \in Answers :
             proposal' = {[cfg |-> Clamp(Overlay(cfg, answer)), from |-> cfg]}
      BY <2>1 DEF TuneAnswers
    <3>2. InBox(cfg)
      BY DEF ConfigInv
    <3>3. ASSUME NEW key \in TunableKeys, Section(key) = "agent"
          PROVE  Clamp(Overlay(cfg, answer))[key] = cfg[key]
      <4>1. Clamp(Overlay(cfg, answer))[key] = Overlay(cfg, answer)[key]
        BY <3>2, OverlayInBox, ClampKeepsTheBox
      <4> QED BY <3>2, <3>3, <4>1, OverlayKeepsAgent
    <3> QED BY <3>1, <3>3 DEF ProposalKeepsCadence
  <2>2. CASE Promote
    BY <2>2 DEF Promote, ProposalKeepsCadence
  <2>3. CASE ~TuneAnswers /\ ~Promote
    <3>1. proposal' = proposal
      BY <2>3 DEF Next, ConfigSet, ConfigReset, EditorSaves, EditNormalises, TuneAsks, StartPass,
         PassJudges, EndPass, Resolve, ScaleOut, AddToWinner, Adopt, Finished, files, vars
    <3> QED BY <3>1 DEF ProposalKeepsCadence
  <2> QED BY <2>1, <2>2, <2>3
<1> QED BY <1>1, <1>2, ConfigInvInit, ConfigInvNext, PTL DEF Spec

-----------------------------------------------------------------------------
(* The gate. *)

LEMMA DivMod ==
    ASSUME NEW num \in Nat, NEW den \in Nat \ {0}
    PROVE  /\ num \div den \in Nat /\ num % den \in 0..den - 1
           /\ num = den * (num \div den) + (num % den)
OBVIOUS

LEMMA NearestWithin ==
    ASSUME NEW num \in Nat, NEW den \in Nat \ {0}
    PROVE  Nearest(num, den) \in Nat /\ 2 * (den * Nearest(num, den)) <= 2 * num + den
<1> DEFINE q == num \div den
           r == num % den
<1>1. q \in Nat /\ r \in 0..den - 1 /\ num = den * q + r
  BY DivMod
<1>2. den * (q + 1) = den * q + den /\ den * q \in Nat
  BY <1>1
<1>3. Nearest(num, den) = IF 2 * r >= den THEN q + 1 ELSE q
  BY DEF Nearest
<1> HIDE DEF q, r
<1> QED BY <1>1, <1>2, <1>3

LEMMA ProductsOrder ==
    ASSUME NEW a \in Nat, NEW b \in Nat, NEW k \in Nat, a <= b
    PROVE  a * k \in Nat /\ b * k \in Nat /\ a * k <= b * k
OBVIOUS

LEMMA Cancel ==
    ASSUME NEW a \in Int, NEW b \in Int, NEW k \in Nat \ {0}, k * a <= k * b
    PROVE  a <= b
OBVIOUS

LEMMA ShareBounded ==
    ASSUME NEW cfg, InBox(cfg), cfg["sizing_enabled"] \in BOOLEAN, NEW conviction \in 0..100
    PROVE  /\ Span(cfg) \in Nat \ {0}
           /\ ConvictionShare(conviction, cfg) \in Nat
           /\ ConvictionShare(conviction, cfg) <= 100 * Span(cfg)
<1> DEFINE min == cfg["min_conviction"]
           floor == cfg["floor_fraction"]
           ceil == cfg["ceil_fraction"]
           span == Span(cfg)
<1>1. min \in 0..100 /\ floor \in 0..100 /\ ceil \in 0..100 /\ floor <= ceil
  <2>1. Numeric["min_conviction"].lo = 0 /\ Numeric["min_conviction"].hi = 100
    BY DEF Numeric, Field
  <2>2. "min_conviction" \in NumericKeys
    BY DEF NumericKeys, Numeric
  <2> QED BY <2>1, <2>2, NamedKeys, CommonBox DEF InBox
<1>2. span \in Nat \ {0} /\ 100 - min <= span
  BY <1>1 DEF Span, Greatest
<1>a. conviction \in Nat /\ conviction <= 100
  OBVIOUS
<1>b. 100 * span \in Nat
  BY <1>2
<1> HIDE DEF span
<1>3. CASE ~cfg["sizing_enabled"] \/ conviction < min
  <2>1. ConvictionShare(conviction, cfg) \in {100 * span, 0}
    BY <1>3 DEF ConvictionShare, span
  <2> QED BY <1>2, <1>b, <2>1 DEF span
<1>4. CASE cfg["sizing_enabled"] /\ ~(conviction < min)
  <2> DEFINE over == conviction - min
             rise == ceil - floor
  <2>1. over \in Nat /\ rise \in Nat /\ over <= span /\ rise + floor = ceil
    <3> HIDE DEF min, floor, ceil
    <3> QED BY <1>1, <1>2, <1>4, <1>a
  <2>2. ConvictionShare(conviction, cfg) = floor * span + over * rise
    BY <1>4 DEF ConvictionShare, span
  <2> HIDE DEF over, rise, span, floor, ceil
  <2>3. over * rise <= span * rise /\ over * rise \in Nat
    BY <1>2, <2>1, ProductsOrder
  <2>4. floor * span + span * rise = ceil * span /\ floor * span \in Nat /\ span * rise \in Nat
    BY <1>1, <1>2, <2>1
  <2>5. ceil * span <= 100 * span /\ ceil * span \in Nat
    BY <1>1, <1>2
  <2> DEFINE a == floor * span
             b == over * rise
             d == span * rise
             e == ceil * span
             g == 100 * span
  <2>6. a \in Nat /\ b \in Nat /\ d \in Nat /\ e \in Nat /\ g \in Nat
    BY <1>b, <2>3, <2>4, <2>5
  <2>7. b <= d /\ a + d = e /\ e <= g
    BY <2>3, <2>4, <2>5
  <2> HIDE DEF a, b, d, e, g
  <2>8. a + b \in Nat /\ a + b <= g
    BY <2>6, <2>7
  <2> QED BY <1>2, <2>2, <2>8 DEF span, a, b, g
<1> QED BY <1>3, <1>4

(* No size breaks the caps on one order, up to half a tick of rounding, or *)
(* risks more than the five percent the widest configuration may.          *)
LEMMA SizeKeepsCaps ==
    ASSUME NEW c, NEW conviction \in 0..100, NEW cfg, NEW mark \in Nat \ {0},
           NEW equity \in Nat \ {0},
           InBox(cfg), cfg["sizing_enabled"] \in BOOLEAN, c.sl \in Nat
    PROVE  LET size == Size(c, conviction, cfg, mark, equity) IN
           /\ size \in Nat
           /\ 2 * (mark * size) <= 2 * (MaxNotional * Ticks) + mark
           /\ 2 * (mark * size) <= 2 * (equity * MaxLeverage * Ticks) + mark
           /\ 40 * (Dist(mark, c.sl) * size) <= 2 * (equity * Ticks) + 20 * Dist(mark, c.sl)
<1> DEFINE size == Size(c, conviction, cfg, mark, equity)
           d == Dist(mark, c.sl)
           S == Span(cfg)
           risk == cfg["risk_per_trade_pct"]
           share == ConvictionShare(conviction, cfg)
           E == equity * Ticks
           num == risk * equity * Ticks * share
           den == 10000 * 100 * S * d
           target == Nearest(num, den)
           byNotional == Nearest(MaxNotional * Ticks, mark)
           byLeverage == Nearest(equity * MaxLeverage * Ticks, mark)
<1>0. /\ d \in Nat /\ E \in Nat /\ Ticks \in Nat \ {0} /\ MaxNotional \in Nat \ {0}
      /\ MaxLeverage \in Nat \ {0}
  BY GateAssumption DEF Dist, GateAssumption
<1>1. CASE d = 0
  <2>1. size = 0
    BY <1>1 DEF Size
  <2>2. MaxNotional * Ticks \in Nat /\ equity * MaxLeverage * Ticks \in Nat
    BY <1>0
  <2> QED BY <1>0, <1>1, <2>1, <2>2
<1>2. CASE d # 0
  <2>1. size = Least(target, Least(byNotional, byLeverage))
    BY <1>2 DEF Size
  <2>2. /\ byNotional \in Nat /\ 2 * (mark * byNotional) <= 2 * (MaxNotional * Ticks) + mark
        /\ byLeverage \in Nat
        /\ 2 * (mark * byLeverage) <= 2 * (equity * MaxLeverage * Ticks) + mark
    <3>1. MaxNotional * Ticks \in Nat /\ equity * MaxLeverage * Ticks \in Nat
      BY <1>0
    <3> QED BY <3>1, NearestWithin
  <2>3. S \in Nat \ {0} /\ share \in Nat /\ share <= 100 * S /\ risk \in 0..500
    <3>1. Numeric["risk_per_trade_pct"].lo = 0 /\ Numeric["risk_per_trade_pct"].hi = 500
      BY DEF Numeric, Field
    <3>2. "risk_per_trade_pct" \in NumericKeys
      BY DEF NumericKeys, Numeric
    <3>3. risk \in 0..500
      BY <3>1, <3>2 DEF InBox
    <3>4. /\ Span(cfg) \in Nat \ {0} /\ ConvictionShare(conviction, cfg) \in Nat
          /\ ConvictionShare(conviction, cfg) <= 100 * Span(cfg)
      BY ShareBounded
    <3> QED BY <3>3, <3>4
  <2>4. num \in Nat /\ num <= S * (50000 * E)
    <3> HIDE DEF S, share, risk
    <3>1. num = (risk * share) * E
      BY <1>0, <2>3
    <3>2. risk * share <= 500 * share /\ risk * share \in Nat
      BY <2>3
    <3>3. risk * share <= 50000 * S
      BY <2>3, <3>2
    <3> HIDE DEF E
    <3>4. (risk * share) * E <= (50000 * S) * E /\ (risk * share) * E \in Nat
      <4>1. 50000 * S \in Nat
        BY <2>3
      <4> QED BY <1>0, <3>2, <3>3, <4>1, ProductsOrder
    <3>5. (50000 * S) * E = S * (50000 * E)
      BY <1>0, <2>3
    <3> HIDE DEF num
    <3> QED BY <3>1, <3>4, <3>5
  <2>5. den \in Nat \ {0} /\ den = S * (1000000 * d)
    BY <1>0, <1>2, <2>3
  <2>6. target \in Nat /\ 2 * (den * target) <= 2 * num + den
    <3>1. num \in Nat /\ den \in Nat \ {0}
      BY <2>4, <2>5
    <3> HIDE DEF num, den
    <3> QED BY <3>1, NearestWithin, Zenon
  <2>7. 2000000 * (d * target) <= 100000 * E + 1000000 * d
    <3> HIDE DEF S, d, E, num, den, target
    <3>1. 2 * (den * target) = S * (2000000 * (d * target))
      BY <1>0, <2>3, <2>5, <2>6
    <3>2. 2 * num + den <= S * (100000 * E + 1000000 * d)
      <4>1. S * (100000 * E + 1000000 * d) = 2 * (S * (50000 * E)) + S * (1000000 * d)
        BY <1>0, <2>3
      <4>2. S * (50000 * E) \in Nat
        BY <1>0, <2>3
      <4> QED BY <2>4, <2>5, <4>1, <4>2
    <3>3. S * (2000000 * (d * target)) <= S * (100000 * E + 1000000 * d)
      <4> DEFINE left == S * (2000000 * (d * target))
                 right == S * (100000 * E + 1000000 * d)
      <4>1. left \in Int /\ right \in Int /\ 2 * num + den \in Int
        BY <1>0, <2>3, <2>4, <2>5, <2>6
      <4> HIDE DEF left, right
      <4>2. left <= 2 * num + den /\ 2 * num + den <= right
        BY <2>6, <3>1, <3>2 DEF left, right
      <4>3. left <= right
        BY <4>1, <4>2
      <4> QED BY <4>3 DEF left, right
    <3>4. 2000000 * (d * target) \in Int /\ 100000 * E + 1000000 * d \in Int
      BY <1>0, <2>6
    <3> QED BY <2>3, <3>3, <3>4, Cancel
  <2>8. size \in Nat /\ size <= target /\ size <= byNotional /\ size <= byLeverage
    BY <2>1, <2>2, <2>6 DEF Least
  <2> HIDE DEF size, target, byNotional, byLeverage, d
  <2>9. /\ mark * size <= mark * byNotional /\ mark * size \in Nat /\ mark * byNotional \in Nat
        /\ mark * size <= mark * byLeverage /\ mark * byLeverage \in Nat
    BY <2>2, <2>8
  <2>10. d * size <= d * target /\ d * size \in Nat /\ d * target \in Nat
    BY <1>0, <2>6, <2>8
  <2>11. MaxNotional * Ticks \in Nat /\ equity * MaxLeverage * Ticks \in Nat
    BY <1>0
  <2>12. 40 * (d * size) <= 2 * E + 20 * d
    <3> HIDE DEF E
    <3> QED BY <1>0, <2>7, <2>10
  <2> QED BY <2>2, <2>8, <2>9, <2>11, <2>12 DEF size, d
<1> QED BY <1>1, <1>2

LEMMA ChecksLaid ==
    ASSUME NEW c, NEW d, NEW cfg, NEW ctx
    PROVE  /\ DOMAIN Checks(c, d, cfg, ctx) = 1..20
           /\ \A i \in 1..20 : Checks(c, d, cfg, ctx)[i].reason # "approved"
<1> DEFINE ch == Checks(c, d, cfg, ctx)
<1>1. DOMAIN ch = 1..20
  BY DEF Checks
<1>2. /\ ch[1].reason = "skip"
        /\ ch[2].reason = "wait"
        /\ ch[3].reason = "breaker"
        /\ ch[4].reason = "daily loss"
        /\ ch[5].reason = "daily entries"
        /\ ch[6].reason = "stale"
        /\ ch[7].reason = "coin"
        /\ ch[8].reason = "regime"
        /\ ch[9].reason = "levels"
        /\ ch[10].reason = "reward"
        /\ ch[11].reason = "no mark"
        /\ ch[12].reason = "mark"
        /\ ch[13].reason = "reward at mark"
        /\ ch[14].reason = "held"
        /\ ch[15].reason = "positions"
        /\ ch[16].reason = "equity"
        /\ ch[17].reason = "margin"
        /\ ch[18].reason = "size"
        /\ ch[19].reason = "minimum"
        /\ \E reason : ch[20].reason = GrossReason(ctx.gross, reason, ctx.equity)
  BY DEF Checks, Check
<1>3. ch[20].reason \in {"gross exposure", "gross leverage", "none"}
  BY <1>2 DEF GrossReason
<1> HIDE DEF ch
<1>4. ASSUME NEW i \in 1..20 PROVE ch[i].reason # "approved"
  <2>1. i \in 1..10 \/ i \in 11..20
    OBVIOUS
  <2>2. CASE i \in 1..10
    <3>1. i \in {1, 2, 3, 4, 5, 6, 7, 8, 9, 10}
      BY <2>2
    <3> QED BY <1>2, <3>1
  <2>3. CASE i \in 11..20
    <3>1. i \in {11, 12, 13, 14, 15, 16, 17, 18, 19, 20}
      BY <2>3
    <3> QED BY <1>2, <1>3, <3>1
  <2> QED BY <2>1, <2>2, <2>3
<1> QED BY <1>1, <1>4 DEF ch

LEMMA ApprovedFailsNothing ==
    ASSUME NEW c, NEW d, NEW cfg, NEW ctx, Evaluate(c, d, cfg, ctx).reason = "approved"
    PROVE  /\ \A i \in 1..20 : ~Checks(c, d, cfg, ctx)[i].fails
           /\ Evaluate(c, d, cfg, ctx).size
                  = Size(c, d.conviction, cfg, ctx.marks[c.coin], ctx.equity)
<1> DEFINE checks == Checks(c, d, cfg, ctx)
           failed == {i \in DOMAIN checks : checks[i].fails}
<1>1. ASSUME failed # {} PROVE FALSE
  <2>1. Evaluate(c, d, cfg, ctx).reason = checks[Min(failed)].reason
    BY <1>1 DEF Evaluate
  <2>2. failed \subseteq 1..20
    BY ChecksLaid
  <2>3. \E n \in failed : \A m \in failed : n <= m
    <3> HIDE DEF failed
    <3>1. failed \subseteq Nat
      BY <2>2
    <3>2. PICK n \in failed : \A m \in failed : ~(<<m, n>> \in OpToRel(<, Nat))
      BY <1>1, <3>1, NatLessThanWellFounded, WFMin
    <3>3. ASSUME NEW m \in failed PROVE n <= m
      <4>1. n \in Nat /\ m \in Nat
        BY <3>1
      <4>2. m < n => <<m, n>> \in OpToRel(<, Nat)
        BY <4>1 DEF OpToRel
      <4>3. ~(m < n)
        BY <3>2, <4>2, Zenon
      <4> QED BY <4>1, <4>3
    <3> QED BY <3>3
  <2>4. Min(failed) \in failed
    BY <2>3 DEF Min
  <2> QED BY <2>1, <2>2, <2>4, ChecksLaid
<1> QED BY <1>1, ChecksLaid DEF Evaluate

(* The gate's contract (executor/gate.py): what it approves has a mark, a  *)
(* size above nothing that keeps the caps on one order up to half a tick   *)
(* of rounding and risks at most five percent of the equity, a coin that   *)
(* is not held, and fits under the ceiling on the whole book, whatever the *)
(* configuration in the box, the candidate, the verdict and the account.   *)
THEOREM ApprovedKeepsCaps ==
    ASSUME NEW c, NEW d, NEW cfg, NEW ctx,
           InBox(cfg), cfg["sizing_enabled"] \in BOOLEAN,
           c.sl \in Nat, d.conviction \in 0..100,
           ctx.marks[c.coin] \in Nat, ctx.equity \in Int, ctx.gross \in Nat,
           Evaluate(c, d, cfg, ctx).reason = "approved"
    PROVE  LET mark == ctx.marks[c.coin]
               size == Evaluate(c, d, cfg, ctx).size
           IN  /\ mark # NoQuote /\ size \in Nat \ {0} /\ c.coin \notin ctx.open_coins
               /\ ~ctx.breaker_tripped /\ ~ctx.daily_loss
               /\ 2 * (mark * size) <= 2 * (MaxNotional * Ticks) + mark
               /\ 2 * (mark * size) <= 2 * (ctx.equity * MaxLeverage * Ticks) + mark
               /\ 40 * (Dist(mark, c.sl) * size)
                      <= 2 * (ctx.equity * Ticks) + 20 * Dist(mark, c.sl)
               /\ MaxGross > 0 => ctx.gross + size * mark <= MaxGross * Ticks
<1> DEFINE mark == ctx.marks[c.coin]
           size == Evaluate(c, d, cfg, ctx).size
           ch == Checks(c, d, cfg, ctx)
           sized == IF mark = NoQuote THEN 0 ELSE Size(c, d.conviction, cfg, mark, ctx.equity)
<1>1. /\ \A i \in 1..20 : ~ch[i].fails
      /\ size = Size(c, d.conviction, cfg, mark, ctx.equity)
  BY ApprovedFailsNothing
<1>2. /\ ch[3].fails = ctx.breaker_tripped /\ ch[4].fails = ctx.daily_loss
      /\ ch[11].fails = (mark = NoQuote) /\ ch[14].fails = (c.coin \in ctx.open_coins)
      /\ ch[16].fails = (ctx.equity <= 0) /\ ch[18].fails = (sized <= 0)
      /\ ch[20].fails = (GrossReason(ctx.gross, sized * mark, ctx.equity) # "none")
  BY DEF Checks, Check
<1> HIDE DEF ch
<1>3. /\ ~ctx.breaker_tripped /\ ~ctx.daily_loss /\ mark # NoQuote
      /\ c.coin \notin ctx.open_coins /\ ~(ctx.equity <= 0) /\ ~(sized <= 0)
      /\ GrossReason(ctx.gross, sized * mark, ctx.equity) = "none"
  <2>1. /\ ~ch[3].fails /\ ~ch[4].fails /\ ~ch[11].fails /\ ~ch[14].fails
        /\ ~ch[16].fails /\ ~ch[18].fails /\ ~ch[20].fails
    BY <1>1
  <2> HIDE DEF sized, mark
  <2> QED BY <1>2, <2>1, Zenon
<1>4. sized = size /\ mark \in Nat \ {0} /\ ctx.equity \in Nat \ {0}
  BY <1>1, <1>3 DEF NoQuote
<1>5. /\ size \in Nat
      /\ 2 * (mark * size) <= 2 * (MaxNotional * Ticks) + mark
      /\ 2 * (mark * size) <= 2 * (ctx.equity * MaxLeverage * Ticks) + mark
      /\ 40 * (Dist(mark, c.sl) * size) <= 2 * (ctx.equity * Ticks) + 20 * Dist(mark, c.sl)
  <2> DEFINE given == Size(c, d.conviction, cfg, mark, ctx.equity)
  <2>1. /\ given \in Nat
        /\ 2 * (mark * given) <= 2 * (MaxNotional * Ticks) + mark
        /\ 2 * (mark * given) <= 2 * (ctx.equity * MaxLeverage * Ticks) + mark
        /\ 40 * (Dist(mark, c.sl) * given) <= 2 * (ctx.equity * Ticks) + 20 * Dist(mark, c.sl)
    <3> HIDE DEF mark
    <3> QED BY <1>4, SizeKeepsCaps, Zenon
  <2> HIDE DEF given, size
  <2>2. size = given
    BY <1>1 DEF given, size
  <2> QED BY <2>1, <2>2
<1>6. MaxGross > 0 => ctx.gross + size * mark <= MaxGross * Ticks
  <2>1. GrossReason(ctx.gross, size * mark, ctx.equity) = "none"
    BY <1>3, <1>4
  <2>2. ~(MaxGross > 0 /\ ctx.gross + size * mark > MaxGross * Ticks)
    BY <2>1 DEF GrossReason
  <2>3. ctx.gross + size * mark \in Int /\ MaxGross * Ticks \in Int
    BY <1>4, <1>5, GateAssumption DEF GateAssumption
  <2> QED BY <2>2, <2>3
<1>7. size \in Nat \ {0}
  BY <1>3, <1>4, <1>5
<1> QED BY <1>3, <1>5, <1>6, <1>7

-----------------------------------------------------------------------------
(* Sums over the rows. *)

LEMMA TotalIsInt ==
    ASSUME NEW S, NEW rows \in Seq(S), \A i \in DOMAIN rows : rows[i].realized \in Int
    PROVE  Total(rows) \in Int
<1> DEFINE made == [i \in DOMAIN rows |-> rows[i].realized]
<1>1. IsFiniteSet(DOMAIN rows)
  <2>1. DOMAIN rows = 1..Len(rows) /\ Len(rows) \in Nat
    OBVIOUS
  <2> QED BY <2>1, FS_Interval
<1>2. IntsOn(made, DOMAIN rows) /\ DOMAIN made = DOMAIN rows
  BY DEF IntsOn
<1> HIDE DEF made
<1>3. SumFunctionOnSet(made, DOMAIN rows) \in Int
  BY <1>1, <1>2, SumIsInt
<1> QED BY <1>2, <1>3 DEF Total, SumFunction, made

(* The fields of a row. *)
RowKeys ==
    {"candidate", "coin", "side", "entry", "sl", "initial_sl", "tp", "size", "conviction",
     "status", "realized", "r", "scaled_out", "adopted", "closed_at", "adds", "leg"}

Traded == {c.coin : c \in Setups}

Row(t) ==
    /\ DOMAIN t = RowKeys
    /\ t.coin \in Traded /\ t.side \in {1, -1}
    /\ {t.entry, t.sl, t.initial_sl, t.tp, t.adds, t.leg} \subseteq Nat
    /\ t.size \in Nat \ {0}
    /\ t.candidate \in Int /\ t.conviction \in Int
    /\ t.status = "open"
    \* A stop that was moved stands at the entry.
    /\ t.sl \in {t.initial_sl, t.entry}

Done(t) ==
    /\ t.realized \in Int /\ t.status \in {"lost", "won", "aborted", "scaled"}
    /\ t.candidate \in Int /\ t.leg \in Nat /\ t.conviction \in Int

Price(t, marks) == IF marks[t.coin] = NoQuote THEN t.entry ELSE marks[t.coin]

LEMMA PriceIsNat ==
    ASSUME NEW t, Row(t), NEW marks \in Quotes
    PROVE  /\ marks[t.coin] \in Nat /\ Price(t, marks) \in Nat
<1>1. PICK c \in Setups : t.coin = c.coin
  BY DEF Row, Traded
<1>2. marks[t.coin] \in Nat
  BY <1>1, LoopAssumption DEF LoopAssumption
<1> QED BY <1>2 DEF Row, Price

LEMMA EquityIsInt ==
    ASSUME NEW S, resolved \in Seq(S), \A i \in DOMAIN resolved : Done(resolved[i]),
           IsFiniteSet(open), \A t \in open : Row(t), NEW marks \in Quotes
    PROVE  Equity(marks) \in Int
<1> DEFINE floating == [t \in open |-> t.side * (Price(t, marks) - t.entry) * t.size]
<1>1. Total(resolved) \in Int
  BY TotalIsInt DEF Done
<1>2. ASSUME NEW t \in open PROVE floating[t] \in Int
  <2>1. t.side \in Int /\ Price(t, marks) \in Int /\ t.entry \in Int /\ t.size \in Int
    BY PriceIsNat DEF Row
  <2>2. Price(t, marks) - t.entry \in Int
    BY <2>1
  <2>3. t.side * (Price(t, marks) - t.entry) \in Int
    BY <2>1, <2>2
  <2> QED BY <2>1, <2>3
<1>3. IntsOn(floating, open)
  BY <1>2 DEF IntsOn
<1>4. SumFunction(floating) \in Int
  <2>1. DOMAIN floating = open
    OBVIOUS
  <2> HIDE DEF floating
  <2> QED BY <1>3, <2>1, SumIsInt DEF SumFunction
<1>5. Equity(marks) = Deposit + (Total(resolved) + SumFunction(floating)) \div Ticks
  BY DEF Equity, Price
<1>6. Ticks \in Nat \ {0} /\ Deposit \in Nat
  BY GateAssumption, LoopAssumption DEF GateAssumption, LoopAssumption
<1> HIDE DEF floating
<1> QED BY <1>1, <1>4, <1>5, <1>6

(* Gross of a book with one more row on a coin with a quote. *)
LEMMA GrossGrows ==
    ASSUME NEW book, IsFiniteSet(book), \A t \in book : Row(t), NEW marks \in Quotes,
           NEW row, Row(row), row \notin book, marks[row.coin] # NoQuote
    PROVE  /\ GrossNotional(book, marks) \in Nat
           /\ GrossNotional(book \cup {row}, marks)
                  = GrossNotional(book, marks) + row.size * marks[row.coin]
<1> DEFINE more == book \cup {row}
           w == [t \in book |-> t.size * Price(t, marks)]
           v == [t \in more |-> t.size * Price(t, marks)]
<1>1. ASSUME NEW t \in more PROVE t.size * Price(t, marks) \in Nat
  <2>1. Row(t)
    OBVIOUS
  <2>2. t.size \in Nat /\ Price(t, marks) \in Nat
    BY <2>1, PriceIsNat DEF Row
  <2> QED BY <2>2
<1>2. IntsOn(w, book) /\ \A t \in book : w[t] \in Nat
  BY <1>1 DEF IntsOn
<1>3. v[row] \in Int /\ \A t \in book : v[t] = w[t]
  BY <1>1
<1>4. DOMAIN w = book /\ DOMAIN v = more
  OBVIOUS
<1>5. GrossNotional(book, marks) = SumFunction(w) /\ GrossNotional(more, marks) = SumFunction(v)
  BY DEF GrossNotional, Price
<1>6. v[row] = row.size * marks[row.coin]
  BY DEF Price
<1> HIDE DEF w, v
<1>7. SumFunctionOnSet(v, more) = SumFunctionOnSet(w, book) + v[row]
  BY <1>2, <1>3, SumGrown
<1>8. SumFunctionOnSet(w, book) \in Nat
  BY <1>2, SumIsNat
<1> QED BY <1>4, <1>5, <1>6, <1>7, <1>8 DEF SumFunction

LEMMA GrossIsNat ==
    ASSUME NEW book, IsFiniteSet(book), \A t \in book : Row(t), NEW marks \in Quotes
    PROVE  GrossNotional(book, marks) \in Nat
<1> DEFINE w == [t \in book |-> t.size * Price(t, marks)]
<1>1. ASSUME NEW t \in book PROVE w[t] \in Nat
  <2>1. t.size \in Nat /\ Price(t, marks) \in Nat
    BY PriceIsNat DEF Row
  <2> QED BY <2>1
<1>2. DOMAIN w = book /\ GrossNotional(book, marks) = SumFunction(w)
  BY DEF GrossNotional, Price
<1> HIDE DEF w
<1> QED BY <1>1, <1>2, SumIsNat DEF SumFunction

-----------------------------------------------------------------------------
(* Verdicts. *)

LEMMA ConvictionInRange ==
    ASSUME NEW c \in Setups, NEW payload \in Payloads, NEW source,
           NEW d \in Verdict(source, c, payload)
    PROVE  d.conviction \in 0..100
<1>1. ASSUME NEW value \in Int PROVE ClampTo(value, 100) \in 0..100
  BY DEF ClampTo, Greatest, Least
<1>2. payload.conviction \in Int \cup {NonFinite} /\ c.confidence \in Int \cup {NonFinite}
  BY LoopAssumption DEF LoopAssumption
<1>3. CASE source = "rule"
  <2>1. d = DecideRule
    BY <1>3 DEF Verdict
  <2> QED BY <2>1 DEF DecideRule
<1>4. CASE source = "follow_source"
  <2>1. d = DecideFollowSource(c)
    BY <1>4 DEF Verdict
  <2>2. CASE Finite(c.confidence)
    <3>1. c.confidence \in Int
      BY <1>2, <2>2 DEF Finite
    <3> QED BY <1>1, <2>1, <2>2, <3>1 DEF DecideFollowSource
  <2>3. CASE ~Finite(c.confidence)
    <3>1. d.conviction \in {100, 0}
      BY <2>1, <2>3 DEF DecideFollowSource
    <3> QED BY <3>1
  <2> QED BY <2>2, <2>3
<1>5. CASE source # "rule" /\ source # "follow_source"
  <2>1. d \in ValidateDecision(payload)
    BY <1>5 DEF Verdict
  <2>2. Finite(payload.conviction) /\ d.conviction = ClampTo(payload.conviction, 100)
    BY <2>1 DEF ValidateDecision
  <2> QED BY <1>1, <1>2, <2>2 DEF Finite
<1> QED BY <1>3, <1>4, <1>5

-----------------------------------------------------------------------------
(* Switches. *)

Switched(cfg) == cfg["sizing_enabled"] \in BOOLEAN

SwitchInv ==
    /\ \A cfg \in active : Switched(cfg)
    /\ \A cfg \in tuner : Switched(cfg)
    /\ \A p \in proposal : Switched(p.cfg)
    /\ pass.running => "cfg" \in DOMAIN pass /\ Switched(pass.cfg)

LEMMA SizingKey ==
    "sizing_enabled" \in TunableKeys \ NumericKeys
BY DEF TunableKeys, NumericKeys, Numeric, Switches

LEMMA ClampSwitched ==
    ASSUME NEW cfg PROVE Clamp(cfg)["sizing_enabled"] = cfg["sizing_enabled"]
<1>1. Clamp(cfg)["sizing_enabled"] = ClampSwitch(cfg, "sizing_enabled")
  BY SizingKey, ClampOf
<1> QED BY <1>1 DEF ClampSwitch

LEMMA KindSwitched ==
    ASSUME NEW value, OfKind("sizing_enabled", value) PROVE value \in BOOLEAN
BY SizingKey DEF OfKind

LEMMA LoadSwitched ==
    ASSUME SwitchInv PROVE Switched(Load)
<1>1. CASE active = {}
  <2>1. Defaults["sizing_enabled"] = FALSE
    BY SizingKey DEF Defaults, Default, Switches
  <2>2. Load = Clamp(Defaults)
    BY <1>1 DEF Load
  <2> QED BY <2>1, <2>2, ClampSwitched DEF Switched
<1>2. CASE active # {}
  <2>1. (CHOOSE cfg \in active : TRUE) \in active
    BY <1>2
  <2>2. Switched(CHOOSE cfg \in active : TRUE)
    BY <2>1 DEF SwitchInv
  <2> QED BY <1>2, <2>2, ClampSwitched DEF Load, Switched
<1> QED BY <1>1, <1>2

LEMMA SetSwitched ==
    ASSUME NEW file, Switched(Clamp(file)), NEW key \in TunableKeys, NEW value,
           OfKind(key, value)
    PROVE  Switched(Clamp(SetField(Clamp(file), key, value)))
<1>1. DOMAIN Clamp(file) = TunableKeys
  BY DEF Clamp
<1>2. SetField(Clamp(file), key, value)["sizing_enabled"]
          = IF key = "sizing_enabled" THEN value ELSE Clamp(file)["sizing_enabled"]
  BY <1>1, SizingKey DEF SetField
<1>3. Switched(SetField(Clamp(file), key, value))
  BY <1>2, KindSwitched DEF Switched
<1> QED BY <1>3, ClampSwitched DEF Switched

LEMMA OverlaySwitched ==
    ASSUME NEW cfg, Switched(cfg), NEW answer \in Answers
    PROVE  Switched(Clamp(Overlay(cfg, answer)))
<1>1. "sizing_enabled" \notin DOMAIN answer
  BY LoopAssumption DEF LoopAssumption, Exposed
<1>2. Default("sizing_enabled") = FALSE
  BY SizingKey DEF Default, Switches
<1>3. Overlaid(cfg, answer)["sizing_enabled"] \in {cfg["sizing_enabled"], FALSE}
  BY <1>1, <1>2, SizingKey DEF Overlaid
<1>4. Overlay(cfg, answer) = Clamp(Overlaid(cfg, answer))
  BY DEF Overlay, Overlaid
<1> QED BY <1>3, <1>4, ClampSwitched DEF Switched

Started(marks, regime, source) ==
    [running |-> TRUE, source |-> source, cfg |-> Load, marks |-> marks, regime |-> regime,
     equity |-> Equity(marks), gross |-> GrossNotional(open, marks),
     open_coins |-> {t.coin : t \in open}, trades_today |-> Cardinality(open) + Len(resolved),
     breaker_tripped |-> FALSE, daily_loss |-> FALSE, margin |-> 0, now |-> 0, judged |-> {}]

LEMMA SwitchInvInit == Init => SwitchInv
BY DEF Init, SwitchInv, Idle

LEMMA SwitchInvNext == SwitchInv /\ [Next]_vars => SwitchInv'
<1> SUFFICES ASSUME SwitchInv, [Next]_vars PROVE SwitchInv'
  OBVIOUS
<1>1. CASE ConfigSet
  <2>1. PICK s \in Settings : active' = {Clamp(SetField(Load, s[1], s[2]))}
    BY <1>1 DEF ConfigSet
  <2>2. PICK file : Load = Clamp(file)
    BY DEF Load
  <2>3. s[1] \in TunableKeys /\ OfKind(s[1], s[2])
    BY LoopAssumption DEF LoopAssumption
  <2>4. Switched(Clamp(SetField(Load, s[1], s[2])))
    BY <2>2, <2>3, LoadSwitched, SetSwitched
  <2>5. UNCHANGED <<tuner, proposal, pass>>
    BY <1>1 DEF ConfigSet
  <2> QED BY <2>1, <2>4, <2>5 DEF SwitchInv
<1>2. CASE ConfigReset
  BY <1>2 DEF ConfigReset, SwitchInv
<1>3. CASE EditorSaves
  <2>1. PICK cfg \in Drafts : active' = {cfg}
    BY <1>3 DEF EditorSaves
  <2>2. Switched(cfg)
    BY SizingKey, KindSwitched, LoopAssumption DEF LoopAssumption, Switched
  <2>3. UNCHANGED <<tuner, proposal, pass>>
    BY <1>3 DEF EditorSaves
  <2> QED BY <2>1, <2>2, <2>3 DEF SwitchInv
<1>4. CASE EditNormalises
  <2>1. active' = {Load} /\ UNCHANGED <<tuner, proposal, pass>>
    BY <1>4 DEF EditNormalises
  <2> QED BY <2>1, LoadSwitched DEF SwitchInv
<1>5. CASE TuneAsks
  BY <1>5, LoadSwitched DEF TuneAsks, SwitchInv
<1>6. CASE TuneAnswers
  <2>1. PICK cfg \in tuner, answer \in Answers :
           proposal' = {[cfg |-> Clamp(Overlay(cfg, answer)), from |-> cfg]}
    BY <1>6 DEF TuneAnswers
  <2>2. Switched(Clamp(Overlay(cfg, answer)))
    BY OverlaySwitched DEF SwitchInv
  <2>3. \A p \in proposal' : Switched(p.cfg)
    BY <2>1, <2>2
  <2>4. tuner' = {} /\ UNCHANGED <<active, pass>>
    BY <1>6 DEF TuneAnswers
  <2> QED BY <2>3, <2>4 DEF SwitchInv
<1>7. CASE Promote
  <2>1. PICK p \in proposal : active' = {Clamp(p.cfg)}
    BY <1>7 DEF Promote
  <2>2. Switched(Clamp(p.cfg))
    BY ClampSwitched DEF SwitchInv, Switched
  <2>3. proposal' = {} /\ UNCHANGED <<tuner, pass>>
    BY <1>7 DEF Promote
  <2> QED BY <2>1, <2>2, <2>3 DEF SwitchInv
<1>8. CASE StartPass
  <2>1. UNCHANGED <<active, tuner, proposal>>
    BY <1>8 DEF StartPass, files
  <2>2. PICK marks \in Quotes, regime \in Regimes, source \in Sources :
           pass' = Started(marks, regime, source)
    BY <1>8, Zenon DEF StartPass, Started
  <2>3. pass'.cfg = Load /\ "cfg" \in DOMAIN pass'
    BY <2>2 DEF Started
  <2> QED BY <2>1, <2>3, LoadSwitched DEF SwitchInv
<1>9. CASE PassJudges
  <2>1. UNCHANGED <<active, tuner, proposal>> /\ pass.running
    BY <1>9 DEF PassJudges, files
  <2>2. \E c, d, outcome : Judge(c, d, outcome)
    BY <1>9, Zenon DEF PassJudges
  <2>3. pass'.cfg = pass.cfg /\ DOMAIN pass' = DOMAIN pass
    <3>1. "cfg" \in DOMAIN pass
      BY <2>1 DEF SwitchInv
    <3>2. PICK c, d, outcome : Judge(c, d, outcome)
      BY <2>2
    <3> QED BY <3>1, <3>2 DEF Judge
  <2> QED BY <2>1, <2>3 DEF SwitchInv
<1>10. CASE EndPass
  BY <1>10 DEF EndPass, Idle, SwitchInv, files
<1>11. CASE Resolve \/ ScaleOut \/ AddToWinner \/ Adopt \/ Finished \/ UNCHANGED vars
  <2>1. UNCHANGED <<active, tuner, proposal, pass>>
    BY <1>11 DEF Resolve, ScaleOut, AddToWinner, Adopt, Finished, files, vars
  <2> QED BY <2>1 DEF SwitchInv
<1> QED BY <1>1, <1>2, <1>3, <1>4, <1>5, <1>6, <1>7, <1>8, <1>9, <1>10, <1>11 DEF Next

-----------------------------------------------------------------------------
(* What each action makes of a row. *)

LEMMA FreshRow ==
    ASSUME NEW c \in Setups, NEW size \in Nat \ {0}, NEW mark \in Nat, NEW conviction \in Int,
           entries \in Nat
    PROVE  LET row == OpenRow(c, size, mark, conviction) IN
           /\ Row(row)
           /\ row.coin = c.coin /\ row.size = size /\ row.entry = mark /\ row.sl = c.sl
           /\ row.candidate = entries + 1 /\ row.leg = 0 /\ row.adds = 0
<1> DEFINE row == OpenRow(c, size, mark, conviction)
<1>1. DOMAIN row = RowKeys
  BY DEF OpenRow, RowKeys
<1>2. /\ row.coin = c.coin /\ row.size = size /\ row.entry = mark /\ row.sl = c.sl
      /\ row.initial_sl = c.sl /\ row.tp = c.tp /\ row.side = c.side
      /\ row.candidate = entries + 1 /\ row.leg = 0 /\ row.adds = 0 /\ row.status = "open"
      /\ row.conviction = conviction
  BY DEF OpenRow
<1> HIDE DEF row
<1>3. c.side \in {1, -1} /\ {c.entry, c.sl, c.tp} \subseteq Nat /\ c.coin \in Traded
  BY LoopAssumption DEF LoopAssumption, Traded
<1> QED BY <1>1, <1>2, <1>3 DEF Row, row

LEMMA AdoptedRow ==
    ASSUME NEW c \in Setups, entries \in Nat, adopted \in Nat
    PROVE  LET row == [OpenRow(c, AdoptedSize, c.entry, 0) EXCEPT !.adopted = TRUE,
                                                                  !.candidate = 0 - adopted]
           IN  Row(row) /\ row.candidate = 0 - adopted /\ row.leg = 0 /\ row.adds = 0
<1> DEFINE fresh == OpenRow(c, AdoptedSize, c.entry, 0)
           row == [fresh EXCEPT !.adopted = TRUE, !.candidate = 0 - adopted]
<1>1. c.entry \in Nat /\ AdoptedSize \in Nat \ {0}
  BY LoopAssumption DEF LoopAssumption
<1>2. Row(fresh) /\ fresh.leg = 0 /\ fresh.adds = 0
  BY <1>1, FreshRow
<1> HIDE DEF fresh
<1>3. DOMAIN fresh = RowKeys
  BY <1>2 DEF Row
<1>4. DOMAIN row = RowKeys /\ row.candidate = 0 - adopted
      /\ \A key \in RowKeys \ {"adopted", "candidate"} : row[key] = fresh[key]
  BY <1>3 DEF RowKeys
<1>5. /\ row.coin = fresh.coin /\ row.side = fresh.side /\ row.entry = fresh.entry
      /\ row.sl = fresh.sl /\ row.initial_sl = fresh.initial_sl /\ row.tp = fresh.tp
      /\ row.size = fresh.size /\ row.status = fresh.status /\ row.adds = fresh.adds
      /\ row.leg = fresh.leg /\ row.conviction = fresh.conviction
  BY <1>4 DEF RowKeys
<1> HIDE DEF row
<1> QED BY <1>2, <1>4, <1>5 DEF Row, row, fresh

(* A row that resolves, in whole or in part. *)
Outcomes == {"lost", "won", "aborted", "scaled"}

LEMMA BookedRow ==
    ASSUME NEW t, DOMAIN t = RowKeys, t.side \in Int, t.entry \in Int, t.candidate \in Int,
           t.leg \in Nat, t.conviction \in Int,
           NEW size \in Int, NEW exit \in Int, NEW status, status \in Outcomes
    PROVE  LET row == Booked(t, size, exit, status) IN
           /\ Done(row) /\ row.status = status /\ row.candidate = t.candidate /\ row.leg = t.leg
           /\ row.conviction = t.conviction /\ row.adopted = t.adopted
<1> DEFINE row == Booked(t, size, exit, status)
           made == t.side * (exit - t.entry) * size
<1>1. made \in Int
  <2>1. t.side \in Int /\ exit - t.entry \in Int
    OBVIOUS
  <2>2. t.side * (exit - t.entry) \in Int
    BY <2>1
  <2> QED BY <2>2
<1>2. /\ row.status = status /\ row.realized = made
      /\ row.candidate = t.candidate /\ row.leg = t.leg /\ row.conviction = t.conviction
      /\ row.adopted = t.adopted
  BY DEF Booked, RowKeys
<1> HIDE DEF row, made
<1> QED BY <1>1, <1>2 DEF Done, Outcomes, row

(* What is left of a row of which half was banked. *)
LEMMA HalvedRow ==
    ASSUME NEW t, Row(t), t.size \div 2 > 0
    PROVE  LET half == t.size \div 2
               row == [t EXCEPT !.size = @ - half, !.scaled_out = TRUE] IN
           /\ Row(row) /\ row.candidate = t.candidate /\ row.leg = t.leg /\ row.adds = t.adds
           /\ half \in Nat \ {0}
<1> DEFINE half == t.size \div 2
           row == [t EXCEPT !.size = @ - half, !.scaled_out = TRUE]
<1>1. t.size \in Nat \ {0} /\ DOMAIN t = RowKeys
  BY DEF Row
<1>2. half \in Nat \ {0} /\ t.size - half \in Nat \ {0}
  BY <1>1
<1> HIDE DEF half
<1>3. /\ DOMAIN row = RowKeys /\ row.size = t.size - half
      /\ \A key \in RowKeys \ {"size", "scaled_out"} : row[key] = t[key]
  BY <1>1 DEF RowKeys
<1>4. /\ row.coin = t.coin /\ row.side = t.side /\ row.entry = t.entry
      /\ row.sl = t.sl /\ row.initial_sl = t.initial_sl /\ row.tp = t.tp
      /\ row.candidate = t.candidate /\ row.status = t.status /\ row.adds = t.adds
      /\ row.leg = t.leg /\ row.conviction = t.conviction
  BY <1>3 DEF RowKeys
<1> HIDE DEF row
<1> QED BY <1>2, <1>3, <1>4 DEF Row, row, half

(* A winner whose stop was raised, and the row that was added to it. *)
Raised(t) == [t EXCEPT !.sl = t.entry, !.adds = @ + 1]
Added(t, mark, size) ==
    [t EXCEPT !.sl = t.entry, !.initial_sl = t.entry, !.entry = mark,
              !.size = size, !.scaled_out = FALSE, !.adds = MaxAdds,
              !.leg = t.adds + 1]

LEMMA RaisedRow ==
    ASSUME NEW t, Row(t)
    PROVE  /\ Row(Raised(t)) /\ Raised(t).candidate = t.candidate /\ Raised(t).leg = t.leg
           /\ Raised(t).adds = t.adds + 1
<1> DEFINE row == Raised(t)
<1>1. DOMAIN t = RowKeys /\ t.entry \in Nat /\ t.adds \in Nat
  BY DEF Row
<1>2. /\ DOMAIN row = RowKeys /\ row.sl = t.entry /\ row.adds = t.adds + 1
      /\ \A key \in RowKeys \ {"sl", "adds"} : row[key] = t[key]
  BY <1>1 DEF RowKeys, Raised
<1>3. /\ row.coin = t.coin /\ row.side = t.side /\ row.entry = t.entry
      /\ row.size = t.size /\ row.initial_sl = t.initial_sl /\ row.tp = t.tp
      /\ row.candidate = t.candidate /\ row.status = t.status /\ row.leg = t.leg
      /\ row.conviction = t.conviction
  BY <1>2 DEF RowKeys
<1> HIDE DEF row
<1> QED BY <1>1, <1>2, <1>3 DEF Row, row

LEMMA AddedRow ==
    ASSUME NEW t, Row(t), NEW mark \in Nat, NEW size \in Nat \ {0}
    PROVE  LET row == Added(t, mark, size) IN
           /\ Row(row) /\ row.candidate = t.candidate /\ row.leg = t.adds + 1
           /\ row.adds = MaxAdds
<1> DEFINE row == Added(t, mark, size)
<1>1. /\ DOMAIN t = RowKeys /\ t.entry \in Nat /\ t.adds \in Nat
      /\ MaxAdds \in Nat
  BY LoopAssumption DEF Row, LoopAssumption
<1>2. /\ DOMAIN row = RowKeys /\ row.sl = t.entry /\ row.initial_sl = t.entry
      /\ row.entry = mark /\ row.size = size /\ row.adds = MaxAdds /\ row.leg = t.adds + 1
      /\ \A key \in {"coin", "side", "tp", "candidate", "status", "conviction"} : row[key] = t[key]
  BY <1>1 DEF RowKeys, Added
<1>3. /\ row.coin = t.coin /\ row.side = t.side /\ row.tp = t.tp
      /\ row.candidate = t.candidate /\ row.status = t.status
      /\ row.conviction = t.conviction
  BY <1>2
<1> HIDE DEF row
<1> QED BY <1>1, <1>2, <1>3 DEF Row, row

LEMMA LeastOfFour ==
    ASSUME NEW a \in Int, NEW b \in Int, NEW c \in Int, NEW d \in Int
    PROVE  Min({a, b, c, d}) \in Int
<1> DEFINE S == {a, b, c, d}
<1>1. PICK m \in {a, b} : m <= a /\ m <= b
  OBVIOUS
<1>2. PICK n \in {c, d} : n <= c /\ n <= d
  OBVIOUS
<1>3. PICK k \in {m, n} : k <= m /\ k <= n
  OBVIOUS
<1>4. k \in S /\ \A y \in S : k <= y
  BY <1>1, <1>2, <1>3
<1>5. Min(S) \in S
  BY <1>4 DEF Min
<1> QED BY <1>5

(* An add's size is a number wherever there is a distance to the stop. *)
LEMMA AddSizeIsInt ==
    ASSUME NEW t, Row(t), IsFiniteSet(open), \A u \in open : Row(u),
           NEW mark \in Nat \ {0}, NEW stop \in Nat, Dist(mark, stop) # 0, NEW equity \in Int
    PROVE  AddSize(t, mark, stop, equity) \in Int
<1> DEFINE mine == {u \in open : u.coin = t.coin}
           sizes == [u \in mine |-> u.size]
           held == Held(t.coin)
<1>1. IsFiniteSet(mine)
  BY FS_Subset
<1>2. IntsOn(sizes, mine) /\ DOMAIN sizes = mine
  BY DEF IntsOn, Row
<1>3. held = SumFunction(sizes)
  BY DEF Held
<1> HIDE DEF sizes, mine
<1>4. held \in Int
  BY <1>1, <1>2, <1>3, SumIsInt DEF SumFunction
<1> HIDE DEF held
<1>5. Dist(mark, stop) \in Nat \ {0}
  BY DEF Dist
<1>6. t.side * (mark - t.entry) * t.size \in Int
  <2>1. t.side \in Int /\ mark - t.entry \in Int /\ t.size \in Int
    BY DEF Row
  <2>2. t.side * (mark - t.entry) \in Int
    BY <2>1
  <2> QED BY <2>1, <2>2
<1>7. (t.side * (mark - t.entry) * t.size) \div Dist(mark, stop) \in Int
  BY <1>5, <1>6
<1>8. /\ held \div 2 \in Int
      /\ (MaxNotional * Ticks) \div mark - held \in Int
      /\ (equity * MaxLeverage * Ticks) \div mark - held \in Int
  <2>1. MaxNotional \in Int /\ Ticks \in Int /\ MaxLeverage \in Int
    BY GateAssumption DEF GateAssumption
  <2>2. MaxNotional * Ticks \in Int /\ equity * MaxLeverage * Ticks \in Int
    BY <2>1
  <2>3. (MaxNotional * Ticks) \div mark \in Int /\ (equity * MaxLeverage * Ticks) \div mark \in Int
    BY <2>2
  <2> QED BY <1>4, <2>3
<1> QED BY <1>7, <1>8, LeastOfFour DEF AddSize, held

-----------------------------------------------------------------------------
(* The ledger and the pass. *)

LedgerInv ==
    /\ IsFiniteSet(open) /\ \A t \in open : Row(t)
    /\ \E S : resolved \in Seq(S)
    /\ \A i \in DOMAIN resolved : Done(resolved[i])
    /\ entries \in Nat /\ adopted \in Nat

PassKeys ==
    {"running", "source", "cfg", "marks", "regime", "equity", "gross", "open_coins",
     "trades_today", "breaker_tripped", "daily_loss", "margin", "now", "judged"}

\* The account a running pass judges by: what it fired is counted.
Sound(p) ==
    /\ DOMAIN p = PassKeys /\ p.running = TRUE
    /\ p.marks \in Quotes /\ p.equity \in Int
    /\ p.gross = GrossNotional(open, p.marks)
    /\ p.open_coins = {t.coin : t \in open}

PassInv == pass = Idle \/ Sound(pass)

LoopInv == ConfigInv /\ SwitchInv /\ LedgerInv /\ PassInv

(* What a pass does with a candidate: nothing, or it opens a row within    *)
(* the caps on a coin nobody holds.                                        *)
Fires(c, size, conviction) ==
    LET mark == pass.marks[c.coin]
        row == OpenRow(c, size, mark, conviction)
    IN  /\ c \in Setups
        /\ mark \in Nat \ {0} /\ size \in Nat \ {0} /\ conviction \in 0..100
        /\ c.coin \notin {t.coin : t \in open}
        /\ open' = open \cup {row} /\ entries' = entries + 1
        /\ pass' = [pass EXCEPT !.judged = @ \cup {c.id},
                        !.open_coins = @ \cup {c.coin},
                        !.gross = @ + size * mark,
                        !.trades_today = @ + 1]
        /\ 2 * (mark * size) <= 2 * (MaxNotional * Ticks) + mark
        /\ 2 * (mark * size) <= 2 * (pass.equity * MaxLeverage * Ticks) + mark
        /\ 40 * (Dist(mark, c.sl) * size) <= 2 * (pass.equity * Ticks) + 20 * Dist(mark, c.sl)
        /\ MaxGross > 0 => pass.gross + size * mark <= MaxGross * Ticks

Passes(c) ==
    /\ pass' = [pass EXCEPT !.judged = @ \cup {c.id}]
    /\ UNCHANGED <<open, entries>>

LEMMA PassOutcome ==
    ASSUME LoopInv, PassJudges
    PROVE  /\ Sound(pass) /\ UNCHANGED <<resolved, adopted>>
           /\ \/ \E c \in Setups : Passes(c)
              \/ \E c, size, conviction : Fires(c, size, conviction)
<1>1. Sound(pass)
  BY DEF LoopInv, PassInv, PassJudges, Idle
<1>2. PICK c \in Unjudged, payload \in Payloads :
        \E d \in Verdict(pass.source, c, payload) : Judge(c, d, Evaluate(c, d, pass.cfg, pass))
  BY DEF PassJudges
<1>3. PICK d \in Verdict(pass.source, c, payload) : Judge(c, d, Evaluate(c, d, pass.cfg, pass))
  BY <1>2
<1>4. c \in Setups
  BY DEF Unjudged
<1> DEFINE outcome == Evaluate(c, d, pass.cfg, pass)
           mark == pass.marks[c.coin]
           size == outcome.size
<1>5. CASE outcome.reason # "approved"
  <2>1. Passes(c)
    BY <1>3, <1>5 DEF Judge, Passes
  <2> QED BY <1>1, <1>4, <2>1 DEF PassJudges
<1>6. CASE outcome.reason = "approved"
  <2>1. /\ InBox(pass.cfg) /\ pass.cfg["sizing_enabled"] \in BOOLEAN
    BY <1>1 DEF LoopInv, ConfigInv, SwitchInv, Switched, Sound
  <2>2. c.sl \in Nat /\ mark \in Nat
    BY <1>1, <1>4, LoopAssumption DEF LoopAssumption, Sound
  <2>3. d.conviction \in 0..100
    BY <1>4, ConvictionInRange
  <2>4. pass.equity \in Int /\ pass.gross \in Nat
    BY <1>1, GrossIsNat DEF LoopInv, LedgerInv, Sound
  <2>5. /\ mark # NoQuote /\ size \in Nat \ {0} /\ c.coin \notin pass.open_coins
        /\ 2 * (mark * size) <= 2 * (MaxNotional * Ticks) + mark
        /\ 2 * (mark * size) <= 2 * (pass.equity * MaxLeverage * Ticks) + mark
        /\ 40 * (Dist(mark, c.sl) * size) <= 2 * (pass.equity * Ticks) + 20 * Dist(mark, c.sl)
        /\ MaxGross > 0 => pass.gross + size * mark <= MaxGross * Ticks
    BY <1>6, <2>1, <2>2, <2>3, <2>4, ApprovedKeepsCaps, Zenon
  <2>6. mark \in Nat \ {0} /\ c.coin \notin {t.coin : t \in open}
    BY <1>1, <2>2, <2>5 DEF NoQuote, Sound
  <2>7. /\ open' = open \cup {OpenRow(c, size, mark, d.conviction)} /\ entries' = entries + 1
        /\ pass' = [pass EXCEPT !.judged = @ \cup {c.id},
                        !.open_coins = @ \cup {c.coin},
                        !.gross = @ + size * mark,
                        !.trades_today = @ + 1]
    BY <1>3, <1>6, Zenon DEF Judge
  <2> HIDE DEF outcome, mark, size
  <2>8. Fires(c, size, d.conviction)
    BY <1>4, <2>3, <2>5, <2>6, <2>7 DEF Fires, mark
  <2> QED BY <1>1, <1>4, <2>8 DEF PassJudges
<1> QED BY <1>5, <1>6

(* A row that a pass opens leaves the account it judges by sound. *)
LEMMA FiredSound ==
    ASSUME LedgerInv, Sound(pass), NEW c, NEW size, NEW conviction,
           Fires(c, size, conviction)
    PROVE  LET row == OpenRow(c, size, pass.marks[c.coin], conviction) IN
           /\ Row(row) /\ row \notin open /\ open' = open \cup {row}
           /\ row.coin = c.coin /\ row.size = size /\ row.entry = pass.marks[c.coin]
           /\ row.sl = c.sl /\ row.candidate = entries + 1 /\ row.leg = 0 /\ row.adds = 0
           /\ GrossNotional(open', pass.marks) = pass.gross + size * pass.marks[c.coin]
           /\ pass'.marks = pass.marks
           /\ Sound(pass)'
<1> DEFINE mark == pass.marks[c.coin]
           row == OpenRow(c, size, mark, conviction)
<1>1. c \in Setups /\ mark \in Nat \ {0} /\ size \in Nat \ {0}
      /\ c.coin \notin {t.coin : t \in open} /\ open' = open \cup {row}
  BY DEF Fires
<1>2. Row(row) /\ row.coin = c.coin /\ row.size = size /\ row.entry = mark
      /\ row.sl = c.sl /\ row.candidate = entries + 1 /\ row.leg = 0 /\ row.adds = 0
  <2>1. conviction \in Int /\ mark \in Nat
    BY DEF Fires
  <2> QED BY <1>1, <2>1, FreshRow DEF LedgerInv
<1> HIDE DEF row
<1>3. row \notin open
  BY <1>1, <1>2
<1>4. pass.marks \in Quotes /\ pass.marks[row.coin] # NoQuote
  BY <1>1, <1>2 DEF Sound, NoQuote
<1>5. GrossNotional(open', pass.marks) = GrossNotional(open, pass.marks) + size * mark
  BY <1>1, <1>2, <1>3, <1>4, GrossGrows DEF LedgerInv
<1>6. pass.gross = GrossNotional(open, pass.marks) /\ DOMAIN pass = PassKeys
  BY DEF Sound
<1>7. pass' = [pass EXCEPT !.judged = @ \cup {c.id}, !.open_coins = @ \cup {c.coin},
                        !.gross = @ + size * mark, !.trades_today = @ + 1]
  BY DEF Fires
<1> HIDE DEF mark
<1>8. /\ DOMAIN pass' = PassKeys /\ pass'.running = pass.running /\ pass'.marks = pass.marks
      /\ pass'.equity = pass.equity /\ pass'.gross = pass.gross + size * mark
      /\ pass'.open_coins = pass.open_coins \cup {c.coin}
  BY <1>6, <1>7 DEF PassKeys
<1>9. pass'.open_coins = {t.coin : t \in open'}
  BY <1>1, <1>2, <1>8 DEF Sound
<1>10. Sound(pass)'
  BY <1>5, <1>6, <1>8, <1>9 DEF Sound
<1> QED BY <1>1, <1>2, <1>3, <1>5, <1>6, <1>8, <1>10 DEF mark, row

LEMMA PassInvInit == Init => PassInv
BY DEF Init, PassInv

LEMMA PassInvNext ==
    ASSUME LoopInv, [Next]_vars PROVE PassInv'
<1>1. CASE StartPass
  <2>1. PICK marks \in Quotes, regime \in Regimes, source \in Sources :
           pass' = Started(marks, regime, source)
    BY <1>1, Zenon DEF StartPass, Started
  <2>2. UNCHANGED open
    BY <1>1 DEF StartPass, books
  <2>3. Equity(marks) \in Int
    BY EquityIsInt DEF LoopInv, LedgerInv
  <2>4. /\ DOMAIN pass' = PassKeys /\ pass'.running = TRUE /\ pass'.marks = marks
        /\ pass'.equity = Equity(marks) /\ pass'.gross = GrossNotional(open, marks)
        /\ pass'.open_coins = {t.coin : t \in open}
    BY <2>1 DEF Started, PassKeys
  <2>5. Sound(pass)'
    BY <2>2, <2>3, <2>4 DEF Sound
  <2> QED BY <2>5 DEF PassInv
<1>2. CASE PassJudges
  <2>1. /\ Sound(pass)
        /\ \/ \E c \in Setups : Passes(c)
           \/ \E c, size, conviction : Fires(c, size, conviction)
    BY <1>2, PassOutcome
  <2>2. ASSUME NEW c \in Setups, Passes(c) PROVE Sound(pass)'
    <3>1. DOMAIN pass = PassKeys
      BY <2>1 DEF Sound
    <3>2. /\ DOMAIN pass' = PassKeys /\ pass'.running = pass.running /\ pass'.marks = pass.marks
          /\ pass'.equity = pass.equity /\ pass'.gross = pass.gross
          /\ pass'.open_coins = pass.open_coins /\ open' = open
      BY <2>2, <3>1 DEF Passes, PassKeys
    <3> QED BY <2>1, <3>2 DEF Sound
  <2>3. ASSUME NEW c, NEW size, NEW conviction, Fires(c, size, conviction)
        PROVE  Sound(pass)'
    BY <2>1, <2>3, FiredSound DEF LoopInv
  <2> QED BY <2>1, <2>2, <2>3 DEF PassInv
<1>3. CASE EndPass
  BY <1>3 DEF EndPass, PassInv
<1>4. CASE ConfigSet \/ ConfigReset \/ EditorSaves \/ EditNormalises \/ TuneAsks \/ TuneAnswers
           \/ Promote \/ Finished \/ UNCHANGED vars
  <2>1. UNCHANGED <<pass, open>>
    BY <1>4 DEF ConfigSet, ConfigReset, EditorSaves, EditNormalises, TuneAsks, TuneAnswers,
       Promote, Finished, books, vars
  <2> QED BY <2>1 DEF LoopInv, PassInv, Sound
<1>5. CASE Resolve \/ ScaleOut \/ AddToWinner \/ Adopt
  <2>1. ~pass.running /\ UNCHANGED pass
    BY <1>5 DEF Resolve, ScaleOut, AddToWinner, Adopt
  <2>2. pass = Idle
    BY <2>1 DEF LoopInv, PassInv, Sound
  <2> QED BY <2>1, <2>2 DEF PassInv
<1> QED BY <1>1, <1>2, <1>3, <1>4, <1>5 DEF Next

(* What becomes of the book and of the record, step by step. *)

Opens(row) ==
    /\ Row(row) /\ row.leg = 0 /\ row.adds = 0
    /\ open' = open \cup {row}
    /\ UNCHANGED resolved

Ends(t, row) ==
    /\ t \in open /\ Done(row) /\ row.status # "scaled"
    /\ row.candidate = t.candidate /\ row.leg = t.leg
    /\ open' = open \ {t} /\ resolved' = Append(resolved, row)
    /\ UNCHANGED <<entries, adopted>>

Halves(t, rest, row) ==
    /\ t \in open /\ Row(rest) /\ Done(row) /\ row.status = "scaled"
    /\ row.candidate = t.candidate /\ row.leg = t.leg
    /\ rest.candidate = t.candidate /\ rest.leg = t.leg /\ rest.adds = t.adds
    /\ open' = (open \ {t}) \cup {rest} /\ resolved' = Append(resolved, row)
    /\ UNCHANGED <<entries, adopted>>

Adds(t, rest, row) ==
    /\ t \in open /\ Row(rest) /\ Row(row) /\ t.adds < MaxAdds
    /\ rest.candidate = t.candidate /\ rest.leg = t.leg /\ rest.adds = t.adds + 1
    /\ row.candidate = t.candidate /\ row.leg = t.adds + 1 /\ row.adds = MaxAdds
    /\ open' = (open \ {t}) \cup {rest, row}
    /\ UNCHANGED <<resolved, entries, adopted>>

BookStep ==
    \/ UNCHANGED <<open, resolved, entries, adopted>>
    \/ \E row : /\ Opens(row) /\ row.candidate = entries + 1
                /\ entries' = entries + 1 /\ UNCHANGED adopted
    \/ \E row : /\ Opens(row) /\ row.candidate = 0 - adopted
                /\ adopted' = adopted + 1 /\ UNCHANGED entries
    \/ \E t, row : Ends(t, row)
    \/ \E t, rest, row : Halves(t, rest, row)
    \/ \E t, rest, row : Adds(t, rest, row)

LEMMA StepsOfTheBook ==
    ASSUME LoopInv, [Next]_vars PROVE BookStep
<1>0. \A t \in open : Row(t)
  BY DEF LoopInv, LedgerInv
<1>1. CASE PassJudges
  <2>1. /\ Sound(pass) /\ UNCHANGED <<resolved, adopted>>
        /\ \/ \E c \in Setups : Passes(c)
           \/ \E c, size, conviction : Fires(c, size, conviction)
    BY <1>1, PassOutcome
  <2>2. CASE \E c \in Setups : Passes(c)
    BY <2>1, <2>2 DEF Passes, BookStep
  <2>3. ASSUME NEW c, NEW size, NEW conviction, Fires(c, size, conviction)
        PROVE  BookStep
    <3> DEFINE row == OpenRow(c, size, pass.marks[c.coin], conviction)
    <3>1. /\ Row(row) /\ row.leg = 0 /\ row.adds = 0 /\ row.candidate = entries + 1
          /\ open' = open \cup {row}
      BY <2>1, <2>3, FiredSound DEF LoopInv
    <3>2. entries' = entries + 1
      BY <2>3 DEF Fires
    <3> HIDE DEF row
    <3> QED BY <2>1, <3>1, <3>2 DEF BookStep, Opens
  <2> QED BY <2>1, <2>2, <2>3
<1>2. CASE Adopt
  <2>1. PICK c \in Setups :
          open' = open \cup
                  {[OpenRow(c, AdoptedSize, c.entry, 0) EXCEPT !.adopted = TRUE,
                                                               !.candidate = 0 - adopted]}
    BY <1>2 DEF Adopt
  <2> DEFINE row == [OpenRow(c, AdoptedSize, c.entry, 0) EXCEPT !.adopted = TRUE,
                                                               !.candidate = 0 - adopted]
  <2>2. Row(row) /\ row.candidate = 0 - adopted /\ row.leg = 0 /\ row.adds = 0
    BY AdoptedRow DEF LoopInv, LedgerInv
  <2>3. open' = open \cup {row} /\ adopted' = adopted + 1 /\ UNCHANGED <<resolved, entries>>
    BY <1>2, <2>1 DEF Adopt
  <2> HIDE DEF row
  <2> QED BY <2>2, <2>3 DEF BookStep, Opens
<1>3. CASE Resolve
  <2>0. PICK t \in open : \E exit \in Exits(t) :
           /\ open' = open \ {t}
           /\ resolved' = Append(resolved, Booked(t, t.size, exit[2], exit[1]))
    BY <1>3 DEF Resolve
  <2>1. PICK exit \in Exits(t) :
           /\ open' = open \ {t}
           /\ resolved' = Append(resolved, Booked(t, t.size, exit[2], exit[1]))
    BY <2>0
  <2>2. /\ DOMAIN t = RowKeys /\ t.side \in {1, -1} /\ t.entry \in Nat /\ t.candidate \in Int
        /\ t.leg \in Nat /\ t.size \in Nat /\ t.sl \in Nat /\ t.tp \in Nat
        /\ t.conviction \in Int
    BY <1>0 DEF Row
  <2> DEFINE price == exit[2]
             status == exit[1]
             size == t.size
             row == Booked(t, size, price, status)
  <2>3. price \in Int /\ status \in {"lost", "won", "aborted"} /\ size \in Nat
    BY <2>2 DEF Exits
  <2>4. resolved' = Append(resolved, row) /\ open' = open \ {t}
    BY <2>1
  <2> HIDE DEF price, status, size
  <2>5. /\ Done(row) /\ row.status = status /\ row.candidate = t.candidate /\ row.leg = t.leg
    <3>1. status \in Outcomes /\ t.side \in Int /\ t.entry \in Int /\ size \in Int
      BY <2>2, <2>3 DEF Outcomes
    <3> QED BY <2>2, <2>3, <3>1, BookedRow
  <2>6. UNCHANGED <<entries, adopted>>
    BY <1>3 DEF Resolve
  <2> HIDE DEF row
  <2>7. Ends(t, row)
    BY <2>3, <2>4, <2>5, <2>6 DEF Ends
  <2> QED BY <2>7 DEF BookStep
<1>4. CASE ScaleOut
  <2>1. PICK t \in open :
           LET half == t.size \div 2
           IN  /\ ~t.scaled_out /\ half > 0
               /\ open' = (open \ {t}) \cup {[t EXCEPT !.size = @ - half, !.scaled_out = TRUE]}
               /\ resolved' = Append(resolved,
                      Booked([t EXCEPT !.scaled_out = TRUE], half,
                             t.entry + t.side * Dist(t.entry, t.initial_sl), "scaled"))
    BY <1>4 DEF ScaleOut
  <2> DEFINE half == t.size \div 2
             flagged == [t EXCEPT !.scaled_out = TRUE]
             exit == t.entry + t.side * Dist(t.entry, t.initial_sl)
             rest == [t EXCEPT !.size = @ - half, !.scaled_out = TRUE]
             row == Booked(flagged, half, exit, "scaled")
  <2>2. /\ DOMAIN t = RowKeys /\ t.side \in {1, -1} /\ t.entry \in Nat /\ t.candidate \in Int
        /\ t.leg \in Nat /\ t.initial_sl \in Nat /\ Row(t)
        /\ t.conviction \in Int
    BY <1>0 DEF Row
  <2>3. half \in Nat \ {0} /\ Row(rest) /\ rest.candidate = t.candidate /\ rest.leg = t.leg
        /\ rest.adds = t.adds
    BY <2>1, <2>2, HalvedRow
  <2>4. /\ DOMAIN flagged = RowKeys /\ flagged.side = t.side /\ flagged.entry = t.entry
        /\ flagged.candidate = t.candidate /\ flagged.leg = t.leg
        /\ flagged.conviction = t.conviction
    BY <2>2 DEF RowKeys
  <2>5. exit \in Int
    <3>1. Dist(t.entry, t.initial_sl) \in Int
      BY <2>2 DEF Dist
    <3> QED BY <2>2, <3>1
  <2> HIDE DEF flagged, exit, half
  <2>6. Done(row) /\ row.status = "scaled" /\ row.candidate = t.candidate /\ row.leg = t.leg
    <3>1. "scaled" \in Outcomes /\ t.side \in Int /\ t.entry \in Int /\ half \in Int
      BY <2>2, <2>3 DEF Outcomes
    <3> QED BY <2>2, <2>3, <2>4, <2>5, <3>1, BookedRow
  <2>7. open' = (open \ {t}) \cup {rest} /\ resolved' = Append(resolved, row)
    BY <2>1 DEF half, flagged, exit
  <2>8. UNCHANGED <<entries, adopted>>
    BY <1>4 DEF ScaleOut
  <2> HIDE DEF row, rest
  <2>9. Halves(t, rest, row)
    BY <2>3, <2>6, <2>7, <2>8 DEF Halves
  <2> QED BY <2>9 DEF BookStep
<1>5. CASE AddToWinner
  <2>1. PICK t \in open, marks \in Quotes :
           LET mark == marks[t.coin]
               size == AddSize(t, mark, t.entry, Equity(marks))
           IN  /\ t.adds < MaxAdds
               /\ mark # NoQuote
               /\ t.side * (mark - t.entry) >= Dist(t.entry, t.initial_sl)
               /\ t.side * (t.entry - t.sl) > 0
               /\ size > 0
               /\ open' = (open \ {t}) \cup {Raised(t), Added(t, mark, size)}
    BY <1>5 DEF AddToWinner, Raised, Added
  <2> DEFINE mark == marks[t.coin]
             size == AddSize(t, mark, t.entry, Equity(marks))
             rest == Raised(t)
             row == Added(t, mark, size)
  <2>2. Row(t) /\ t.entry \in Nat /\ t.sl \in {t.initial_sl, t.entry} /\ t.side \in {1, -1}
        /\ t.initial_sl \in Nat
    BY <1>0 DEF Row
  <2>3. mark \in Nat \ {0}
    BY <2>1, <2>2, PriceIsNat DEF NoQuote
  <2>4. Dist(mark, t.entry) # 0
    <3>1. t.sl # t.entry
      BY <2>1, <2>2
    <3>2. Dist(t.entry, t.initial_sl) > 0
      BY <2>2, <3>1 DEF Dist
    <3>3. t.side * (mark - t.entry) > 0
      BY <2>1, <2>2, <2>3, <3>2 DEF Dist
    <3>4. mark # t.entry
      BY <2>2, <3>3
    <3> QED BY <2>2, <2>3, <3>4 DEF Dist
  <2>5. Equity(marks) \in Int
    BY EquityIsInt DEF LoopInv, LedgerInv
  <2>6. size \in Int
    BY <1>0, <2>2, <2>3, <2>4, <2>5, AddSizeIsInt DEF LoopInv, LedgerInv
  <2>7. size \in Nat \ {0} /\ t.adds < MaxAdds /\ open' = (open \ {t}) \cup {rest, row}
    BY <2>1, <2>6
  <2> HIDE DEF mark, size
  <2>8. /\ Row(rest) /\ rest.candidate = t.candidate /\ rest.leg = t.leg
        /\ rest.adds = t.adds + 1
    BY <2>2, RaisedRow
  <2>9. /\ Row(row) /\ row.candidate = t.candidate /\ row.leg = t.adds + 1
        /\ row.adds = MaxAdds
    BY <2>2, <2>3, <2>7, AddedRow
  <2>10. UNCHANGED <<resolved, entries, adopted>>
    BY <1>5 DEF AddToWinner
  <2> HIDE DEF row, rest
  <2>11. Adds(t, rest, row)
    BY <2>7, <2>8, <2>9, <2>10 DEF Adds
  <2> QED BY <2>11 DEF BookStep
<1>6. CASE ~PassJudges /\ ~Adopt /\ ~Resolve /\ ~ScaleOut /\ ~AddToWinner
  <2>1. UNCHANGED <<open, resolved, entries, adopted>>
    BY <1>6 DEF Next, ConfigSet, ConfigReset, EditorSaves, EditNormalises, TuneAsks,
       TuneAnswers, Promote, StartPass, EndPass, Finished, books, vars
  <2> QED BY <2>1 DEF BookStep
<1> QED BY <1>1, <1>2, <1>3, <1>4, <1>5, <1>6

LEMMA Appended ==
    ASSUME NEW S, NEW rows \in Seq(S), NEW row
    PROVE  /\ Append(rows, row) \in Seq(S \cup {row})
           /\ DOMAIN rows = 1..Len(rows) /\ Len(rows) \in Nat
           /\ DOMAIN Append(rows, row) = 1..Len(rows) + 1
           /\ \A i \in DOMAIN rows : Append(rows, row)[i] = rows[i]
           /\ Append(rows, row)[Len(rows) + 1] = row
<1>1. rows \in Seq(S \cup {row})
  OBVIOUS
<1> QED BY <1>1

LEMMA LedgerInvInit == Init => LedgerInv
<1> SUFFICES ASSUME Init PROVE LedgerInv
  OBVIOUS
<1>1. open = {} /\ resolved = <<>> /\ entries = 0 /\ adopted = 0
  BY DEF Init
<1>2. resolved \in Seq({}) /\ DOMAIN resolved = {}
  BY <1>1
<1> QED BY <1>1, <1>2, FS_EmptySet DEF LedgerInv

LEMMA LedgerInvNext ==
    ASSUME LoopInv, [Next]_vars PROVE LedgerInv'
<1>1. /\ IsFiniteSet(open) /\ \A t \in open : Row(t)
      /\ \A i \in DOMAIN resolved : Done(resolved[i])
      /\ entries \in Nat /\ adopted \in Nat
  BY DEF LoopInv, LedgerInv
<1>2. PICK S : resolved \in Seq(S)
  BY DEF LoopInv, LedgerInv
<1>3. ASSUME NEW row, Done(row), resolved' = Append(resolved, row)
      PROVE  /\ \E T : resolved' \in Seq(T)
             /\ \A i \in DOMAIN resolved' : Done(resolved'[i])
  <2>1. /\ resolved' \in Seq(S \cup {row})
        /\ DOMAIN resolved = 1..Len(resolved) /\ Len(resolved) \in Nat
        /\ DOMAIN resolved' = 1..Len(resolved) + 1
        /\ \A i \in DOMAIN resolved : resolved'[i] = resolved[i]
        /\ resolved'[Len(resolved) + 1] = row
    BY <1>2, <1>3, Appended
  <2>2. ASSUME NEW i \in DOMAIN resolved' PROVE Done(resolved'[i])
    <3>1. i \in DOMAIN resolved \/ i = Len(resolved) + 1
      BY <2>1
    <3> QED BY <1>1, <1>3, <2>1, <3>1
  <2> QED BY <2>1, <2>2
<1>4. BookStep
  BY StepsOfTheBook
<1>5. CASE UNCHANGED <<open, resolved, entries, adopted>>
  BY <1>1, <1>2, <1>5 DEF LedgerInv
<1>6. ASSUME NEW row, Opens(row), entries' \in Nat, adopted' \in Nat PROVE LedgerInv'
  <2>1. /\ open' = open \cup {row} /\ Row(row) /\ resolved' = resolved
    BY <1>6 DEF Opens
  <2>2. IsFiniteSet(open')
    BY <1>1, <2>1, FS_AddElement
  <2> QED BY <1>1, <1>2, <1>6, <2>1, <2>2 DEF LedgerInv
<1>7. ASSUME NEW t, NEW row, Ends(t, row) PROVE LedgerInv'
  <2>1. IsFiniteSet(open') /\ \A u \in open' : Row(u)
    BY <1>1, <1>7, FS_Subset DEF Ends
  <2> QED BY <1>1, <1>3, <1>7, <2>1 DEF LedgerInv, Ends
<1>8. ASSUME NEW t, NEW rest, NEW row, Halves(t, rest, row) PROVE LedgerInv'
  <2>1. IsFiniteSet(open \ {t})
    BY <1>1, FS_Subset
  <2>2. IsFiniteSet(open') /\ \A u \in open' : Row(u)
    BY <1>1, <1>8, <2>1, FS_AddElement DEF Halves
  <2> QED BY <1>1, <1>3, <1>8, <2>2 DEF LedgerInv, Halves
<1>9. ASSUME NEW t, NEW rest, NEW row, Adds(t, rest, row) PROVE LedgerInv'
  <2>1. IsFiniteSet(open \ {t})
    BY <1>1, FS_Subset
  <2>2. open' = ((open \ {t}) \cup {rest}) \cup {row}
    BY <1>9 DEF Adds
  <2>3. IsFiniteSet(open')
    BY <2>1, <2>2, FS_AddElement
  <2>4. \A u \in open' : Row(u)
    BY <1>1, <1>9 DEF Adds
  <2> QED BY <1>1, <1>2, <1>9, <2>3, <2>4 DEF LedgerInv, Adds
<1> QED BY <1>1, <1>4, <1>5, <1>6, <1>7, <1>8, <1>9 DEF BookStep

LEMMA LoopInvInit == Init => LoopInv
BY ConfigInvInit, SwitchInvInit, LedgerInvInit, PassInvInit DEF LoopInv

LEMMA LoopInvNext == LoopInv /\ [Next]_vars => LoopInv'
BY ConfigInvNext, SwitchInvNext, LedgerInvNext, PassInvNext DEF LoopInv

(* However a pass was configured and whatever it fired before, the order it *)
(* fires keeps the caps on one order and the ceiling on the whole book at   *)
(* the marks of the pass, and its coin was free (executor/gate.py:62-153,   *)
(* executor/runner.py:272-357).                                             *)
THEOREM CapsAlwaysHold == Spec => CapsHold
<1> DEFINE Kept == entries' > entries => \A t \in open' \ open : FiredWithinCaps(t)
<1>1. ASSUME LoopInv, [Next]_vars PROVE Kept
  <2> SUFFICES ASSUME entries' > entries, NEW t \in open' \ open PROVE FiredWithinCaps(t)
    OBVIOUS
  <2>1. entries \in Nat
    BY <1>1 DEF LoopInv, LedgerInv
  <2>2. PassJudges
    <3> SUFFICES ASSUME ~PassJudges PROVE entries' = entries
      BY <2>1
    <3>1. CASE Resolve \/ ScaleOut \/ AddToWinner \/ Adopt
      BY <3>1 DEF Resolve, ScaleOut, AddToWinner, Adopt
    <3>2. CASE ~(Resolve \/ ScaleOut \/ AddToWinner \/ Adopt)
      BY <1>1, <3>2 DEF Next, ConfigSet, ConfigReset, EditorSaves, EditNormalises, TuneAsks,
         TuneAnswers, Promote, StartPass, EndPass, Finished, books, vars
    <3> QED BY <3>1, <3>2
  <2>3. /\ Sound(pass)
        /\ \/ \E c \in Setups : Passes(c)
           \/ \E c, size, conviction : Fires(c, size, conviction)
    BY <1>1, <2>2, PassOutcome
  <2>4. ~\E c \in Setups : Passes(c)
    BY <2>1 DEF Passes
  <2>5. PICK c, size, conviction : Fires(c, size, conviction)
    BY <2>3, <2>4
  <2> DEFINE mark == pass.marks[c.coin]
             row == OpenRow(c, size, mark, conviction)
  <2>6. /\ open' = open \cup {row}
        /\ row.coin = c.coin /\ row.size = size /\ row.entry = mark /\ row.sl = c.sl
        /\ GrossNotional(open', pass.marks) = pass.gross + size * mark
    BY <1>1, <2>3, <2>5, FiredSound DEF LoopInv
  <2>7. t = row
    BY <2>6
  <2>8. /\ c \in Setups /\ c.coin \notin {u.coin : u \in open} /\ mark \in Nat /\ size \in Nat
        /\ 2 * (mark * size) <= 2 * (MaxNotional * Ticks) + mark
        /\ 2 * (mark * size) <= 2 * (pass.equity * MaxLeverage * Ticks) + mark
        /\ 40 * (Dist(mark, c.sl) * size) <= 2 * (pass.equity * Ticks) + 20 * Dist(mark, c.sl)
        /\ MaxGross > 0 => pass.gross + size * mark <= MaxGross * Ticks
    BY <2>5 DEF Fires
  <2> HIDE DEF mark, row
  <2>9. /\ t.coin = c.coin /\ t.size = size /\ t.entry = mark /\ t.sl = c.sl
    BY <2>6, <2>7
  <2>10. pass.equity \in Int /\ MaxNotional \in Nat /\ Ticks \in Nat /\ MaxLeverage \in Nat
         /\ c.sl \in Nat /\ Dist(mark, c.sl) \in Nat
    BY <2>3, <2>8, GateAssumption, LoopAssumption DEF Sound, GateAssumption, LoopAssumption, Dist
  <2>11. 2 * size * mark = 2 * (mark * size)
    BY <2>8
  <2>12. 40 * size * Dist(mark, c.sl) = 40 * (Dist(mark, c.sl) * size)
    BY <2>8, <2>10
  <2>13. /\ 2 * MaxNotional * Ticks = 2 * (MaxNotional * Ticks)
         /\ 2 * pass.equity * Ticks = 2 * (pass.equity * Ticks)
    BY <2>10
  <2>14. 2 * pass.equity * MaxLeverage * Ticks = 2 * (pass.equity * MaxLeverage * Ticks)
    <3>1. pass.equity * MaxLeverage \in Int
      BY <2>10
    <3>2. 2 * pass.equity * MaxLeverage = 2 * (pass.equity * MaxLeverage)
      BY <2>10
    <3> QED BY <2>10, <3>1, <3>2
  <2>15. /\ 2 * t.size * t.entry <= 2 * MaxNotional * Ticks + t.entry
         /\ 2 * t.size * t.entry <= 2 * pass.equity * MaxLeverage * Ticks + t.entry
         /\ 40 * t.size * Dist(t.entry, t.sl) <= 2 * pass.equity * Ticks + 20 * Dist(t.entry, t.sl)
    BY <2>8, <2>9, <2>11, <2>12, <2>13, <2>14
  <2>16. MaxGross > 0 => GrossNotional(open', pass.marks) <= MaxGross * Ticks
    BY <2>6, <2>8
  <2>17. \A o \in open : o.coin # t.coin
    BY <2>8, <2>9
  <2> QED BY <2>15, <2>16, <2>17 DEF FiredWithinCaps
<1>2. LoopInv /\ [Next]_vars => [Kept]_vars
  BY <1>1
<1> QED BY <1>2, LoopInvInit, LoopInvNext, PTL DEF Spec, CapsHold

AtMostOne(S) == S = {} \/ \E e : S = {e}

FilesInv ==
    /\ AtMostOne(active) /\ AtMostOne(tuner) /\ AtMostOne(proposal)
    /\ editor \in {"closed", "saved"}

LEMMA AtMostOneIsSmall ==
    ASSUME NEW S, AtMostOne(S) PROVE Cardinality(S) <= 1
<1>1. CASE S = {}
  BY <1>1, FS_EmptySet
<1>2. ASSUME NEW e, S = {e} PROVE Cardinality(S) = 1
  BY <1>2, FS_Singleton
<1> QED BY <1>1, <1>2 DEF AtMostOne

LEMMA FilesInvInit == Init => FilesInv
BY DEF Init, FilesInv, AtMostOne

LEMMA FilesInvNext == FilesInv /\ [Next]_vars => FilesInv'
<1> SUFFICES ASSUME FilesInv, [Next]_vars PROVE FilesInv'
  OBVIOUS
<1>1. CASE ConfigSet \/ EditorSaves \/ EditNormalises \/ ConfigReset
  <2>1. AtMostOne(active') /\ UNCHANGED <<tuner, proposal>>
    BY <1>1 DEF ConfigSet, EditorSaves, EditNormalises, ConfigReset, AtMostOne
  <2>2. editor' \in {editor, "closed", "saved"}
    BY <1>1 DEF ConfigSet, EditorSaves, EditNormalises, ConfigReset
  <2> QED BY <2>1, <2>2 DEF FilesInv
<1>2. CASE TuneAsks \/ TuneAnswers \/ Promote
  <2>1. /\ active' = active \/ \E e : active' = {e}
        /\ tuner' \in {tuner, {}} \/ \E e : tuner' = {e}
        /\ proposal' \in {proposal, {}} \/ \E e : proposal' = {e}
        /\ UNCHANGED editor
    BY <1>2 DEF TuneAsks, TuneAnswers, Promote
  <2> QED BY <2>1 DEF FilesInv, AtMostOne
<1>3. CASE StartPass \/ PassJudges \/ EndPass \/ Resolve \/ ScaleOut \/ AddToWinner \/ Adopt
           \/ Finished \/ UNCHANGED vars
  <2>1. UNCHANGED files
    BY <1>3 DEF StartPass, PassJudges, EndPass, Resolve, ScaleOut, AddToWinner, Adopt,
       Finished, files, vars
  <2> QED BY <2>1 DEF files, FilesInv
<1> QED BY <1>1, <1>2, <1>3 DEF Next

(* The type of the loop's state: every configuration that is acted on or   *)
(* written is in the box, a row keeps a size whatever is banked, added or  *)
(* adopted (store.py:308-330, sentry/apply.py:227), and what is resolved   *)
(* is not open.                                                            *)
THEOREM LoopTyped == Spec => []TypeOK
<1>1. LoopInv /\ FilesInv => TypeOK
  <2> SUFFICES ASSUME LoopInv, FilesInv PROVE TypeOK
    OBVIOUS
  <2>1. Cardinality(active) <= 1 /\ Cardinality(tuner) <= 1 /\ Cardinality(proposal) <= 1
    BY AtMostOneIsSmall DEF FilesInv
  <2>2. /\ editor \in {"closed", "saved"}
        /\ editor = "closed" => \A cfg \in active : InBox(cfg)
        /\ \A cfg \in tuner : InBox(cfg)
        /\ \A p \in proposal : InBox(p.cfg)
        /\ pass.running => InBox(pass.cfg)
    BY DEF FilesInv, LoopInv, ConfigInv
  <2>3. /\ \A t \in open : t.size \in Nat \ {0} /\ t.status = "open"
        /\ \A i \in DOMAIN resolved : resolved[i].status # "open"
    BY DEF LoopInv, LedgerInv, Row, Done
  <2> QED BY <2>1, <2>2, <2>3 DEF TypeOK
<1> QED BY <1>1, FilesInvInit, FilesInvNext, LoopInvInit, LoopInvNext, PTL DEF Spec

-----------------------------------------------------------------------------
(* What an order is told by. *)

Key(t) == <<t.candidate, t.leg>>
Rows == open \cup {resolved[i] : i \in DOMAIN resolved}
Whole(t) == t.status # "scaled"

\* Every row is of a candidate or adoption counted so far.
Counted ==
    \A t \in Rows : /\ t.candidate \in Int /\ t.leg \in Nat
                    /\ 0 - adopted < t.candidate /\ t.candidate <= entries

\* A row that may yet be added to knows of every leg of its position.
LegsKnown ==
    /\ \A t \in open : t.leg > 0 => t.adds = MaxAdds
    /\ \A t \in open, u \in Rows :
           t.adds < MaxAdds /\ u.candidate = t.candidate => u.leg <= t.adds

\* No order has two rows, but for what was banked of it.
OrdersDistinct ==
    /\ \A t, u \in open : Key(t) = Key(u) => t = u
    /\ \A t \in open, i \in DOMAIN resolved : Whole(resolved[i]) => Key(t) # Key(resolved[i])
    /\ \A i, j \in DOMAIN resolved :
           Whole(resolved[i]) /\ Whole(resolved[j]) /\ Key(resolved[i]) = Key(resolved[j]) => i = j

OrderInv == Counted /\ LegsKnown /\ OrdersDistinct

LEMMA OrderInvInit == Init => OrderInv
<1> SUFFICES ASSUME Init PROVE OrderInv
  OBVIOUS
<1>1. open = {} /\ DOMAIN resolved = {}
  BY DEF Init
<1>2. Rows = {}
  BY <1>1 DEF Rows
<1> QED BY <1>1, <1>2 DEF OrderInv, Counted, LegsKnown, OrdersDistinct

LEMMA SameKey ==
    ASSUME NEW t, NEW u PROVE Key(t) = Key(u) <=> t.candidate = u.candidate /\ t.leg = u.leg
BY DEF Key

(* A row of a candidate or adoption that was never seen. *)
LEMMA OpensKeepsOrders ==
    ASSUME LedgerInv, OrderInv, NEW row, Opens(row), row.candidate \in Int,
           \A t \in Rows : t.candidate # row.candidate,
           entries' \in Nat, adopted' \in Nat, entries <= entries', adopted <= adopted',
           0 - adopted' < row.candidate, row.candidate <= entries'
    PROVE  OrderInv'
<1>1. /\ open' = open \cup {row} /\ resolved' = resolved /\ row.leg = 0 /\ row.adds = 0
  BY DEF Opens
<1>2. Rows' = Rows \cup {row}
  BY <1>1 DEF Rows
<1>3. open \subseteq Rows /\ \A i \in DOMAIN resolved : resolved[i] \in Rows
  BY DEF Rows
<1>4. entries \in Nat /\ adopted \in Nat
  BY DEF LedgerInv
<1>5. Counted'
  <2>1. ASSUME NEW t \in Rows'
        PROVE  /\ t.candidate \in Int /\ t.leg \in Nat
               /\ 0 - adopted' < t.candidate /\ t.candidate <= entries'
    <3>1. CASE t \in Rows
      BY <1>4, <3>1 DEF OrderInv, Counted
    <3>2. CASE t = row
      BY <1>1, <3>2
    <3> QED BY <1>2, <2>1, <3>1, <3>2
  <2> QED BY <2>1 DEF Counted
<1>6. LegsKnown'
  <2>1. \A t \in open' : t.leg > 0 => t.adds = MaxAdds
    BY <1>1 DEF OrderInv, LegsKnown
  <2>2. ASSUME NEW t \in open', NEW u \in Rows', t.adds < MaxAdds, u.candidate = t.candidate
        PROVE  u.leg <= t.adds
    <3>1. CASE t \in open
      BY <1>2, <1>3, <2>2, <3>1 DEF OrderInv, LegsKnown
    <3>2. CASE t = row
      BY <1>1, <1>2, <2>2, <3>2
    <3> QED BY <1>1, <3>1, <3>2
  <2> QED BY <2>1, <2>2 DEF LegsKnown
<1>7. OrdersDistinct'
  <2>1. ASSUME NEW t \in open', NEW u \in open', Key(t) = Key(u) PROVE t = u
    BY <1>1, <1>3, <2>1, SameKey DEF OrderInv, OrdersDistinct
  <2>2. ASSUME NEW t \in open', NEW i \in DOMAIN resolved', Whole(resolved'[i])
        PROVE  Key(t) # Key(resolved'[i])
    BY <1>1, <1>3, <2>2, SameKey DEF OrderInv, OrdersDistinct
  <2>3. \A i, j \in DOMAIN resolved' :
           Whole(resolved'[i]) /\ Whole(resolved'[j]) /\ Key(resolved'[i]) = Key(resolved'[j])
               => i = j
    BY <1>1 DEF OrderInv, OrdersDistinct
  <2> QED BY <2>1, <2>2, <2>3 DEF OrdersDistinct
<1> QED BY <1>5, <1>6, <1>7 DEF OrderInv

(* The record with one more row. *)
LEMMA RecordGrows ==
    ASSUME LedgerInv, NEW row, resolved' = Append(resolved, row)
    PROVE  /\ Len(resolved) \in Nat /\ DOMAIN resolved = 1..Len(resolved)
           /\ DOMAIN resolved' = 1..Len(resolved) + 1
           /\ \A i \in DOMAIN resolved : i \in DOMAIN resolved' /\ resolved'[i] = resolved[i]
           /\ resolved'[Len(resolved) + 1] = row
           /\ {resolved'[i] : i \in DOMAIN resolved'}
                  = {resolved[i] : i \in DOMAIN resolved} \cup {row}
<1>1. PICK S : resolved \in Seq(S)
  BY DEF LedgerInv
<1>2. /\ Len(resolved) \in Nat /\ DOMAIN resolved = 1..Len(resolved)
      /\ DOMAIN resolved' = 1..Len(resolved) + 1
      /\ \A i \in DOMAIN resolved : resolved'[i] = resolved[i]
      /\ resolved'[Len(resolved) + 1] = row
  BY <1>1, Appended
<1>3. DOMAIN resolved' = DOMAIN resolved \cup {Len(resolved) + 1}
  BY <1>2
<1> QED BY <1>2, <1>3

LEMMA EndsKeepsOrders ==
    ASSUME LedgerInv, OrderInv, NEW t, NEW row, Ends(t, row) PROVE OrderInv'
<1>1. /\ t \in open /\ row.status # "scaled" /\ row.candidate = t.candidate /\ row.leg = t.leg
      /\ open' = open \ {t} /\ resolved' = Append(resolved, row)
      /\ entries' = entries /\ adopted' = adopted
  BY DEF Ends
<1> DEFINE n == Len(resolved) + 1
<1>2. /\ n \notin DOMAIN resolved /\ DOMAIN resolved' = DOMAIN resolved \cup {n}
      /\ \A i \in DOMAIN resolved : resolved'[i] = resolved[i]
      /\ resolved'[n] = row
      /\ {resolved'[i] : i \in DOMAIN resolved'} = {resolved[i] : i \in DOMAIN resolved} \cup {row}
  BY <1>1, RecordGrows
<1> HIDE DEF n
<1>3. \A u \in Rows' : u \in Rows \/ u = row
  BY <1>1, <1>2 DEF Rows
<1>4. open \subseteq Rows /\ \A i \in DOMAIN resolved : resolved[i] \in Rows
  BY DEF Rows
<1>5. Counted'
  BY <1>1, <1>3, <1>4 DEF OrderInv, Counted
<1>6. LegsKnown'
  <2>1. \A u \in open' : u.leg > 0 => u.adds = MaxAdds
    BY <1>1 DEF OrderInv, LegsKnown
  <2>2. ASSUME NEW u \in open', NEW v \in Rows', u.adds < MaxAdds, v.candidate = u.candidate
        PROVE  v.leg <= u.adds
    BY <1>1, <1>3, <1>4, <2>2 DEF OrderInv, LegsKnown
  <2> QED BY <2>1, <2>2 DEF LegsKnown
<1>7. OrdersDistinct'
  <2>1. \A u, v \in open' : Key(u) = Key(v) => u = v
    BY <1>1 DEF OrderInv, OrdersDistinct
  <2>2. Key(row) = Key(t)
    BY <1>1, SameKey
  <2>3. ASSUME NEW u \in open', NEW i \in DOMAIN resolved', Whole(resolved'[i])
        PROVE  Key(u) # Key(resolved'[i])
    <3>1. u \in open /\ u # t
      BY <1>1
    <3>2. CASE i \in DOMAIN resolved
      BY <1>2, <2>3, <3>1, <3>2 DEF OrderInv, OrdersDistinct
    <3>3. CASE i = n
      BY <1>1, <1>2, <2>2, <3>1, <3>3 DEF OrderInv, OrdersDistinct
    <3> QED BY <1>2, <3>2, <3>3
  <2>4. ASSUME NEW i \in DOMAIN resolved', NEW j \in DOMAIN resolved', Whole(resolved'[i]),
               Whole(resolved'[j]), Key(resolved'[i]) = Key(resolved'[j])
        PROVE  i = j
    <3>1. CASE i \in DOMAIN resolved /\ j \in DOMAIN resolved
      BY <1>2, <2>4, <3>1 DEF OrderInv, OrdersDistinct
    <3>2. CASE i = n /\ j \in DOMAIN resolved
      BY <1>1, <1>2, <2>2, <2>4, <3>2 DEF OrderInv, OrdersDistinct
    <3>3. CASE j = n /\ i \in DOMAIN resolved
      BY <1>1, <1>2, <2>2, <2>4, <3>3 DEF OrderInv, OrdersDistinct
    <3> QED BY <1>2, <3>1, <3>2, <3>3
  <2> QED BY <2>1, <2>3, <2>4 DEF OrdersDistinct
<1> QED BY <1>5, <1>6, <1>7 DEF OrderInv

LEMMA HalvesKeepsOrders ==
    ASSUME LedgerInv, OrderInv, NEW t, NEW rest, NEW row, Halves(t, rest, row) PROVE OrderInv'
<1>1. /\ t \in open /\ row.status = "scaled" /\ row.candidate = t.candidate /\ row.leg = t.leg
      /\ rest.candidate = t.candidate /\ rest.leg = t.leg /\ rest.adds = t.adds
      /\ open' = (open \ {t}) \cup {rest} /\ resolved' = Append(resolved, row)
      /\ entries' = entries /\ adopted' = adopted
  BY DEF Halves
<1> DEFINE n == Len(resolved) + 1
<1>2. /\ n \notin DOMAIN resolved /\ DOMAIN resolved' = DOMAIN resolved \cup {n}
      /\ \A i \in DOMAIN resolved : resolved'[i] = resolved[i]
      /\ resolved'[n] = row
      /\ {resolved'[i] : i \in DOMAIN resolved'} = {resolved[i] : i \in DOMAIN resolved} \cup {row}
  BY <1>1, RecordGrows
<1> HIDE DEF n
<1>3. \A u \in Rows' : u \in Rows \/ u = row \/ u = rest
  BY <1>1, <1>2 DEF Rows
<1>4. open \subseteq Rows /\ \A i \in DOMAIN resolved : resolved[i] \in Rows
  BY DEF Rows
<1>5. Counted'
  BY <1>1, <1>3, <1>4 DEF OrderInv, Counted
<1>6. LegsKnown'
  <2>1. \A u \in open' : u.leg > 0 => u.adds = MaxAdds
    BY <1>1 DEF OrderInv, LegsKnown
  <2>2. ASSUME NEW u \in open', NEW v \in Rows', u.adds < MaxAdds, v.candidate = u.candidate
        PROVE  v.leg <= u.adds
    <3>1. PICK a \in open : a.adds = u.adds /\ a.candidate = u.candidate
      BY <1>1
    <3>2. PICK b \in Rows : b.leg = v.leg /\ b.candidate = v.candidate
      BY <1>1, <1>3, <1>4
    <3> QED BY <2>2, <3>1, <3>2 DEF OrderInv, LegsKnown
  <2> QED BY <2>1, <2>2 DEF LegsKnown
<1>7. OrdersDistinct'
  <2>1. Key(rest) = Key(t)
    BY <1>1, SameKey
  <2>2. ASSUME NEW u \in open', NEW v \in open', Key(u) = Key(v) PROVE u = v
    BY <1>1, <2>1, <2>2 DEF OrderInv, OrdersDistinct
  <2>3. ASSUME NEW u \in open', NEW i \in DOMAIN resolved', Whole(resolved'[i])
        PROVE  Key(u) # Key(resolved'[i])
    <3>1. i \in DOMAIN resolved /\ resolved'[i] = resolved[i]
      BY <1>1, <1>2, <2>3 DEF Whole
    <3>2. PICK a \in open : Key(a) = Key(u)
      BY <1>1, <2>1
    <3> QED BY <2>3, <3>1, <3>2 DEF OrderInv, OrdersDistinct
  <2>4. ASSUME NEW i \in DOMAIN resolved', NEW j \in DOMAIN resolved', Whole(resolved'[i]),
               Whole(resolved'[j]), Key(resolved'[i]) = Key(resolved'[j])
        PROVE  i = j
    <3>1. i \in DOMAIN resolved /\ j \in DOMAIN resolved
      BY <1>1, <1>2, <2>4 DEF Whole
    <3> QED BY <1>2, <2>4, <3>1 DEF OrderInv, OrdersDistinct
  <2> QED BY <2>2, <2>3, <2>4 DEF OrdersDistinct
<1> QED BY <1>5, <1>6, <1>7 DEF OrderInv

(* The row that is added is the next leg of its position. *)
LEMMA AddsKeepsOrders ==
    ASSUME LedgerInv, OrderInv, NEW t, NEW rest, NEW row, Adds(t, rest, row) PROVE OrderInv'
<1>1. /\ t \in open /\ t.adds < MaxAdds
      /\ rest.candidate = t.candidate /\ rest.leg = t.leg /\ rest.adds = t.adds + 1
      /\ row.candidate = t.candidate /\ row.leg = t.adds + 1 /\ row.adds = MaxAdds
      /\ open' = (open \ {t}) \cup {rest, row} /\ resolved' = resolved
      /\ entries' = entries /\ adopted' = adopted
  BY DEF Adds
<1>2. /\ t.adds \in Nat /\ t.leg \in Nat /\ MaxAdds \in Nat /\ \A u \in open : u.adds \in Nat
      /\ \A u \in open : u.leg \in Nat
  BY <1>1, LoopAssumption DEF LedgerInv, Row, LoopAssumption
<1>3. \A u \in Rows' : u \in Rows \/ u = row \/ u = rest
  BY <1>1 DEF Rows
<1>4. open \subseteq Rows /\ \A i \in DOMAIN resolved : resolved[i] \in Rows
  BY DEF Rows
<1>5. Counted'
  BY <1>1, <1>2, <1>3, <1>4 DEF OrderInv, Counted
<1>6. t.leg = 0 /\ \A u \in Rows : u.candidate = t.candidate => u.leg <= t.adds
  BY <1>1, <1>2 DEF OrderInv, LegsKnown
<1>7. \A u \in Rows : Key(u) # Key(row)
  <2>1. \A u \in Rows : u.leg \in Nat
    BY DEF OrderInv, Counted
  <2> QED BY <1>1, <1>2, <1>6, <2>1, SameKey
\* No other row of the position has room for an add.
<1>8. ASSUME NEW u \in open, u # t, u.candidate = t.candidate PROVE ~(u.adds < MaxAdds)
  <2>1. u.leg # t.leg
    BY <1>1, <1>8, SameKey DEF OrderInv, OrdersDistinct
  <2>2. u.leg > 0
    BY <1>2, <1>6, <2>1
  <2> QED BY <1>2, <2>2 DEF OrderInv, LegsKnown
<1>9. LegsKnown'
  <2>1. \A u \in open' : u.leg > 0 => u.adds = MaxAdds
    BY <1>1, <1>6 DEF OrderInv, LegsKnown
  <2>2. ASSUME NEW u \in open', NEW v \in Rows', u.adds < MaxAdds, v.candidate = u.candidate
        PROVE  v.leg <= u.adds
    <3>1. u # row
      BY <1>1, <1>2, <2>2
    <3>2. CASE u = rest
      <4>1. v.leg <= t.adds + 1
        <5>1. \A w \in Rows : w.leg \in Nat
          BY DEF OrderInv, Counted
        <5> QED BY <1>1, <1>2, <1>3, <1>6, <2>2, <3>2, <5>1
      <4> QED BY <1>1, <3>2, <4>1
    <3>3. CASE u \in open /\ u # t
      <4>1. u.candidate # t.candidate
        BY <1>8, <2>2, <3>3
      <4>2. v \in Rows
        BY <1>1, <1>3, <2>2, <4>1
      <4> QED BY <2>2, <3>3, <4>2 DEF OrderInv, LegsKnown
    <3> QED BY <1>1, <3>1, <3>2, <3>3
  <2> QED BY <2>1, <2>2 DEF LegsKnown
<1>10. OrdersDistinct'
  <2>1. Key(rest) = Key(t)
    BY <1>1, SameKey
  <2>2. ASSUME NEW u \in open', NEW v \in open', Key(u) = Key(v) PROVE u = v
    BY <1>1, <1>4, <1>7, <2>1, <2>2 DEF OrderInv, OrdersDistinct
  <2>3. ASSUME NEW u \in open', NEW i \in DOMAIN resolved', Whole(resolved'[i])
        PROVE  Key(u) # Key(resolved'[i])
    BY <1>1, <1>4, <1>7, <2>1, <2>3 DEF OrderInv, OrdersDistinct
  <2>4. \A i, j \in DOMAIN resolved' :
           Whole(resolved'[i]) /\ Whole(resolved'[j]) /\ Key(resolved'[i]) = Key(resolved'[j])
               => i = j
    BY <1>1 DEF OrderInv, OrdersDistinct
  <2> QED BY <2>2, <2>3, <2>4 DEF OrdersDistinct
<1> QED BY <1>5, <1>9, <1>10 DEF OrderInv

LEMMA OrderInvNext ==
    ASSUME LoopInv, OrderInv, [Next]_vars PROVE OrderInv'
<1>1. BookStep
  BY StepsOfTheBook
<1>2. LedgerInv /\ entries \in Nat /\ adopted \in Nat
  BY DEF LoopInv, LedgerInv
<1>3. CASE UNCHANGED <<open, resolved, entries, adopted>>
  BY <1>3 DEF OrderInv, Counted, LegsKnown, OrdersDistinct, Rows
<1>4. ASSUME NEW row, Opens(row), row.candidate = entries + 1,
             entries' = entries + 1, UNCHANGED adopted
      PROVE  OrderInv'
  <2>1. \A t \in Rows : t.candidate # row.candidate
    BY <1>2, <1>4 DEF OrderInv, Counted
  <2>2. /\ row.candidate \in Int /\ entries' \in Nat /\ adopted' \in Nat
        /\ entries <= entries' /\ adopted <= adopted'
        /\ 0 - adopted' < row.candidate /\ row.candidate <= entries'
    BY <1>2, <1>4
  <2> QED BY <1>2, <1>4, <2>1, <2>2, OpensKeepsOrders
<1>5. ASSUME NEW row, Opens(row), row.candidate = 0 - adopted,
             adopted' = adopted + 1, UNCHANGED entries
      PROVE  OrderInv'
  <2>1. \A t \in Rows : t.candidate # row.candidate
    BY <1>2, <1>5 DEF OrderInv, Counted
  <2>2. /\ row.candidate \in Int /\ entries' \in Nat /\ adopted' \in Nat
        /\ entries <= entries' /\ adopted <= adopted'
        /\ 0 - adopted' < row.candidate /\ row.candidate <= entries'
    BY <1>2, <1>5
  <2> QED BY <1>2, <1>5, <2>1, <2>2, OpensKeepsOrders
<1> QED BY <1>1, <1>2, <1>3, <1>4, <1>5, EndsKeepsOrders, HalvesKeepsOrders, AddsKeepsOrders
       DEF BookStep

(* As many orders as there are whole rows of a kind. *)
LEMMA OneOrderEach ==
    ASSUME LedgerInv, OrderInv, NEW part \in SUBSET DOMAIN resolved, NEW rows,
           \A i \in part : Whole(resolved[i]) /\ resolved[i] \in rows,
           rows \subseteq Courses
    PROVE  /\ Cardinality(part) \in Nat /\ Cardinality(Orders(rows)) \in Nat
           /\ Cardinality(part) <= Cardinality(Orders(rows))
<1>1. IsFiniteSet(DOMAIN resolved)
  <2>1. PICK S : resolved \in Seq(S)
    BY DEF LedgerInv
  <2>2. DOMAIN resolved = 1..Len(resolved) /\ Len(resolved) \in Nat
    BY <2>1
  <2> QED BY <2>2, FS_Interval
<1>2. IsFiniteSet(Orders(rows))
  <2> DEFINE places == {i \in DOMAIN resolved : resolved[i] \in rows}
             key == [i \in places |-> Key(resolved[i])]
  <2>1. IsFiniteSet(places)
    BY <1>1, FS_Subset
  <2>2. key \in Surjection(places, Orders(rows))
    <3>1. key \in [places -> Orders(rows)]
      BY DEF Orders, Key
    <3>2. ASSUME NEW order \in Orders(rows) PROVE \E i \in places : key[i] = order
      <4>1. PICK t \in rows : order = Key(t)
        BY DEF Orders, Key
      <4>2. PICK i \in DOMAIN resolved : t = resolved[i]
        BY DEF Courses
      <4> QED BY <4>1, <4>2
    <3> QED BY <3>1, <3>2 DEF Surjection
  <2> QED BY <2>1, <2>2, FS_Surjection
<1> DEFINE key == [i \in part |-> Key(resolved[i])]
<1>3. key \in Injection(part, Orders(rows))
  <2>1. key \in [part -> Orders(rows)]
    BY DEF Orders, Key
  <2>2. ASSUME NEW i \in part, NEW j \in part, key[i] = key[j] PROVE i = j
    BY <2>2 DEF OrderInv, OrdersDistinct
  <2> QED BY <2>1, <2>2 DEF Injection, IsInjective
<1>4. IsFiniteSet(part)
  BY <1>1, FS_Subset
<1> QED BY <1>2, <1>3, <1>4, FS_Injection, FS_CardinalityType

(* Readiness is evidence of as many orders as it asks for: partials, aborts *)
(* and adoptions along the way count for nothing (graduation.py:20-25,      *)
(* stats.py:69-96).                                                         *)
THEOREM ReadinessCountsOrders == Spec => []EvidenceCountsOrders
<1>1. LoopInv /\ OrderInv => EvidenceCountsOrders
  <2> SUFFICES ASSUME LoopInv, OrderInv PROVE EvidenceCountsOrders
    OBVIOUS
  <2>1. LedgerInv
    BY DEF LoopInv
  <2>2. ASSUME NEW i \in DOMAIN resolved,
               resolved[i].status \notin {"scaled", "aborted"}, ~resolved[i].adopted
        PROVE  Whole(resolved[i]) /\ resolved[i] \in Courses
    <3>1. resolved[i].status \in {"lost", "won"}
      BY <2>1, <2>2 DEF LedgerInv, Done
    <3> QED BY <2>2, <3>1 DEF Courses, RanItsCourse, Whole
  <2>3. ASSUME NEW part \in SUBSET DOMAIN resolved, NEW rows, rows \subseteq Courses,
               \A i \in part : Whole(resolved[i]) /\ resolved[i] \in rows,
               NEW n \in Nat, Cardinality(part) >= n
        PROVE  Cardinality(Orders(rows)) >= n
    <3>1. /\ Cardinality(part) \in Nat /\ Cardinality(Orders(rows)) \in Nat
          /\ Cardinality(part) <= Cardinality(Orders(rows))
      BY <2>1, <2>3, OneOrderEach
    <3> QED BY <2>3, <3>1
  <2>4. GraduationReady(resolved) => Cardinality(Orders(Courses)) >= MinTrades
    <3> SUFFICES ASSUME GraduationReady(resolved) PROVE Cardinality(Orders(Courses)) >= MinTrades
      OBVIOUS
    <3> DEFINE part == Graded(resolved)
    <3>1. Cardinality(part) >= MinTrades /\ MinTrades \in Nat
      BY EvidenceAssumption DEF GraduationReady, EvidenceAssumption
    <3>2. part \subseteq DOMAIN resolved
          /\ \A i \in part : Whole(resolved[i]) /\ resolved[i] \in Courses
      BY <2>2 DEF Graded, UngradedStatuses
    <3> QED BY <2>3, <3>1, <3>2
  <2>5. ASSUME CalibrationReady(resolved), NEW b \in {"low", "high"}
        PROVE  Cardinality(InBucket(resolved, b)) >= MinBucket /\ MinBucket \in Nat
    BY <2>5, EvidenceAssumption DEF CalibrationReady, EvidenceAssumption
  <2>6. ASSUME NEW b, NEW i \in InBucket(resolved, b)
        PROVE  /\ i \in DOMAIN resolved /\ Whole(resolved[i]) /\ resolved[i] \in Courses
               /\ Bucket(resolved[i].conviction) = b /\ resolved[i].conviction \in Int
    BY <2>1, <2>2 DEF LedgerInv, Done, InBucket, Calibrates, CalibrationStatuses
  <2>7. CalibrationReady(resolved) =>
           Cardinality(Orders({t \in Courses : t.conviction < 40})) >= MinBucket
    <3> SUFFICES ASSUME CalibrationReady(resolved)
                 PROVE  Cardinality(Orders({t \in Courses : t.conviction < 40})) >= MinBucket
      OBVIOUS
    <3> DEFINE rows == {t \in Courses : t.conviction < 40}
               part == InBucket(resolved, "low")
    <3>1. \A i \in part : Whole(resolved[i]) /\ resolved[i] \in rows
      BY <2>6 DEF Bucket
    <3>2. part \subseteq DOMAIN resolved /\ rows \subseteq Courses
      BY <2>6
    <3> QED BY <2>3, <2>5, <3>1, <3>2
  <2>8. CalibrationReady(resolved) =>
           Cardinality(Orders({t \in Courses : t.conviction >= 70})) >= MinBucket
    <3> SUFFICES ASSUME CalibrationReady(resolved)
                 PROVE  Cardinality(Orders({t \in Courses : t.conviction >= 70})) >= MinBucket
      OBVIOUS
    <3> DEFINE rows == {t \in Courses : t.conviction >= 70}
               part == InBucket(resolved, "high")
    <3>1. \A i \in part : Whole(resolved[i]) /\ resolved[i] \in rows
      BY <2>6 DEF Bucket
    <3>2. part \subseteq DOMAIN resolved /\ rows \subseteq Courses
      BY <2>6
    <3> QED BY <2>3, <2>5, <3>1, <3>2
  <2> QED BY <2>4, <2>7, <2>8 DEF EvidenceCountsOrders
<1> QED BY <1>1, LoopInvInit, LoopInvNext, OrderInvInit, OrderInvNext, PTL DEF Spec

-----------------------------------------------------------------------------
(* The drawdown. *)

(* The walk over the rows, up to each of them. *)
Walks(rows, start, g) ==
    g = [n \in 0..Len(rows) |->
            IF n = 0 THEN [equity |-> start, peak |-> start, worst |-> NoFall]
            ELSE Walk(rows[n], g[n - 1])]

LEMMA WalkIs ==
    ASSUME NEW rows, NEW start
    PROVE  Performance(rows, start) = (CHOOSE g : Walks(rows, start, g))[Len(rows)]
BY DEF Performance, Walks

LEMMA WalkExists ==
    ASSUME NEW rows, Len(rows) \in Nat, NEW start
    PROVE  \E g : Walks(rows, start, g)
<1> DEFINE first == [equity |-> start, peak |-> start, worst |-> NoFall]
           Upto(n, g) == g = [m \in 0..n |-> IF m = 0 THEN first ELSE Walk(rows[m], g[m - 1])]
           P == {n \in Nat : \E g : Upto(n, g)}
<1>1. 0 \in P
  <2> DEFINE g == [m \in 0..0 |-> first]
  <2>1. [m \in 0..0 |-> IF m = 0 THEN first ELSE Walk(rows[m], g[m - 1])] = g
    OBVIOUS
  <2>2. Upto(0, g)
    BY <2>1
  <2> QED BY <2>2
<1>2. ASSUME NEW n \in P PROVE n + 1 \in P
  <2>1. n \in Nat
    OBVIOUS
  <2>2. PICK g : Upto(n, g)
    OBVIOUS
  <2> DEFINE h == [m \in 0..n + 1 |-> IF m <= n THEN g[m] ELSE Walk(rows[n + 1], g[n])]
  <2>3. ASSUME NEW m \in 0..n + 1
        PROVE  h[m] = IF m = 0 THEN first ELSE Walk(rows[m], h[m - 1])
    <3>1. CASE m = 0
      <4>1. h[m] = g[0] /\ g[0] = first
        BY <2>1, <2>2, <3>1
      <4> QED BY <3>1, <4>1
    <3>2. CASE m \in 1..n
      <4>1. h[m] = g[m] /\ h[m - 1] = g[m - 1] /\ g[m] = Walk(rows[m], g[m - 1])
        BY <2>1, <2>2, <3>2
      <4> QED BY <3>2, <4>1
    <3>3. CASE m = n + 1
      <4>1. h[m] = Walk(rows[n + 1], g[n]) /\ h[m - 1] = g[n] /\ m # 0
        BY <2>1, <3>3
      <4> QED BY <3>3, <4>1
    <3> QED BY <2>1, <3>1, <3>2, <3>3
  <2>4. h = [m \in 0..n + 1 |-> IF m = 0 THEN first ELSE Walk(rows[m], h[m - 1])]
    <3>1. DOMAIN h = 0..n + 1 /\ h = [m \in 0..n + 1 |-> h[m]]
      OBVIOUS
    <3> HIDE DEF h
    <3> QED BY <2>3, <3>1
  <2>5. Upto(n + 1, h)
    BY <2>4
  <2> HIDE DEF h, Upto
  <2>6. \E f : Upto(n + 1, f)
    BY <2>5
  <2> QED BY <2>1, <2>6
<1>3. P = Nat
  <2>1. P \in SUBSET Nat
    OBVIOUS
  <2> HIDE DEF P
  <2> QED BY <1>1, <1>2, <2>1, Counting
<1>4. \E g : Upto(Len(rows), g)
  BY <1>3
<1> QED BY <1>4 DEF Walks

(* Comparing falls: a share of one peak with a share of another. *)
LEMMA ShareTransitive ==
    ASSUME NEW a \in Int, NEW p \in Nat \ {0}, NEW b \in Int, NEW q \in Nat \ {0},
           NEW c \in Int, NEW r \in Nat \ {0},
           a * q <= b * p, b * r <= c * q
    PROVE  a * r <= c * p
<1>1. q * (a * r) <= q * (c * p)
  <2>1. q * (a * r) = r * (a * q) /\ q * (c * p) = p * (c * q)
    OBVIOUS
  <2>2. r * (a * q) <= r * (b * p)
    <3>1. a * q \in Int /\ b * p \in Int
      OBVIOUS
    <3> DEFINE x == a * q
               y == b * p
    <3>2. x \in Int /\ y \in Int /\ x <= y
      BY <3>1
    <3> HIDE DEF x, y
    <3>3. r * x <= r * y
      BY <3>2
    <3> QED BY <3>3 DEF x, y
  <2>3. p * (b * r) <= p * (c * q)
    <3> DEFINE x == b * r
               y == c * q
    <3>2. x \in Int /\ y \in Int /\ x <= y
      OBVIOUS
    <3> HIDE DEF x, y
    <3>3. p * x <= p * y
      BY <3>2
    <3> QED BY <3>3 DEF x, y
  <2>4. r * (b * p) = p * (b * r)
    OBVIOUS
  <2> DEFINE v == r * (a * q)
             w == r * (b * p)
             z == p * (c * q)
  <2>5. v \in Int /\ w \in Int /\ z \in Int /\ v <= w /\ w <= z
    BY <2>2, <2>3, <2>4
  <2> HIDE DEF v, w, z
  <2>6. v <= z
    BY <2>5
  <2> QED BY <2>1, <2>6 DEF v, z
<1>2. a * r \in Int /\ c * p \in Int
  OBVIOUS
<1> QED BY <1>1, <1>2, Cancel

(* To an equity that is not below nothing, the higher the peak the deeper. *)
LEMMA HigherPeakDeeper ==
    ASSUME NEW low \in Nat \ {0}, NEW high \in Nat \ {0}, low <= high, NEW to \in Nat
    PROVE  (low - to) * high <= (high - to) * low
<1>1. to * low <= to * high /\ to * low \in Int /\ to * high \in Int /\ low * high \in Int
  OBVIOUS
<1>2. (low - to) * high = low * high - to * high /\ (high - to) * low = low * high - to * low
  OBVIOUS
<1> QED BY <1>1, <1>2

(* The equity after so many rows, and what the walk knows of it then. *)
LEMMA EquityWalks ==
    ASSUME LedgerInv
    PROVE  /\ Len(resolved) \in Nat /\ DOMAIN resolved = 1..Len(resolved)
           /\ EquityAfter(0) = Deposit * Ticks /\ EquityAfter(0) \in Nat
           /\ \A n \in 0..Len(resolved) : EquityAfter(n) \in Int
           /\ \A n \in 1..Len(resolved) :
                  EquityAfter(n) = EquityAfter(n - 1) + resolved[n].realized
<1>1. PICK S : resolved \in Seq(S)
  BY DEF LedgerInv
<1>2. Len(resolved) \in Nat /\ DOMAIN resolved = 1..Len(resolved)
  BY <1>1
<1>3. \A i \in 1..Len(resolved) : resolved[i].realized \in Int
  BY <1>2 DEF LedgerInv, Done
<1> DEFINE made(n) == [i \in 1..n |-> resolved[i].realized]
           Sum(n) == SumFunctionOnSet(made(n), 1..n)
<1>4. ASSUME NEW n \in 0..Len(resolved) PROVE EquityAfter(n) = Deposit * Ticks + Sum(n)
  <2> DEFINE part == SubSeq(resolved, 1, n)
  <2>1. /\ n \in Nat /\ DOMAIN part = 1..n /\ \A i \in 1..n : part[i] = resolved[i]
    BY <1>1, <1>2
  <2>2. [i \in DOMAIN part |-> part[i].realized] = made(n)
    BY <2>1
  <2>3. DOMAIN made(n) = 1..n
    OBVIOUS
  <2> HIDE DEF made, part
  <2>4. Total(part) = Sum(n)
    BY <2>2, <2>3 DEF Total, SumFunction
  <2> QED BY <2>4 DEF EquityAfter, part
<1>5. ASSUME NEW n \in 0..Len(resolved) PROVE IsFiniteSet(1..n) /\ IntsOn(made(n), 1..n)
  <2>1. IsFiniteSet(1..n)
    BY <1>2, FS_Interval
  <2> QED BY <1>2, <1>3, <2>1 DEF IntsOn
<1>6. Deposit * Ticks \in Nat
  BY GateAssumption, LoopAssumption DEF GateAssumption, LoopAssumption
<1>7. ASSUME NEW n \in 0..Len(resolved) PROVE EquityAfter(n) \in Int
  <2>1. Sum(n) \in Int
    BY <1>5, SumIsInt
  <2> HIDE DEF made
  <2> QED BY <1>4, <1>6, <2>1
<1>8. EquityAfter(0) = Deposit * Ticks
  <2>1. 1..0 = {} /\ 0 \in 0..Len(resolved)
    BY <1>2
  <2>2. Sum(0) = 0
    BY <1>5, <2>1, SumIsZero
  <2> HIDE DEF made
  <2> QED BY <1>4, <1>6, <2>1, <2>2
<1>9. ASSUME NEW n \in 1..Len(resolved)
      PROVE  EquityAfter(n) = EquityAfter(n - 1) + resolved[n].realized
  <2>1. n - 1 \in 0..Len(resolved) /\ n \in 0..Len(resolved) /\ 1..n = (1..n - 1) \cup {n}
        /\ n \notin 1..n - 1
    BY <1>2
  <2>2. made(n)[n] \in Int /\ \A i \in 1..n - 1 : made(n)[i] = made(n - 1)[i]
    BY <1>2, <1>3
  <2>3. IsFiniteSet(1..n - 1) /\ IntsOn(made(n - 1), 1..n - 1)
    BY <1>5, <2>1
  <2>4. made(n)[n] = resolved[n].realized
    BY <1>2
  <2> HIDE DEF made
  <2>5. SumFunctionOnSet(made(n), (1..n - 1) \cup {n})
            = SumFunctionOnSet(made(n - 1), 1..n - 1) + made(n)[n]
    <3> DEFINE v == made(n)
               w == made(n - 1)
               T == 1..n - 1
    <3>1. /\ IsFiniteSet(T) /\ IntsOn(w, T) /\ n \notin T /\ v[n] \in Int
          /\ \A y \in T : v[y] = w[y]
      BY <2>1, <2>2, <2>3
    <3> HIDE DEF v, w, T
    <3>2. SumFunctionOnSet(v, T \cup {n}) = SumFunctionOnSet(w, T) + v[n]
      BY <3>1, SumGrown
    <3> QED BY <3>2 DEF v, w, T
  <2>6. Sum(n) = Sum(n - 1) + resolved[n].realized
    BY <2>1, <2>4, <2>5
  <2>7. Sum(n - 1) \in Int /\ resolved[n].realized \in Int
    BY <1>3, <2>3, SumIsInt
  <2> HIDE DEF Sum
  <2> QED BY <1>4, <1>6, <2>1, <2>6, <2>7
<1> QED BY <1>2, <1>6, <1>7, <1>8, <1>9

LEMMA MaxOfTwo ==
    ASSUME NEW a \in Int, NEW b \in Int
    PROVE  Max({a, b}) \in {a, b} /\ a <= Max({a, b}) /\ b <= Max({a, b})
<1>1. PICK m \in {a, b} : \A y \in {a, b} : m >= y
  OBVIOUS
<1>2. Max({a, b}) \in {a, b} /\ \A y \in {a, b} : Max({a, b}) >= y
  BY <1>1 DEF Max
<1> QED BY <1>2

\* No fall up to the n-th row, to an equity that is not below nothing, is deeper; and the
\* worst was seen.
Knows(n, s) ==
    /\ s.equity = EquityAfter(n)
    /\ \E k \in 0..n : s.peak = EquityAfter(k)
    /\ \A m \in 0..n : EquityAfter(m) <= s.peak
    /\ s.worst.peak \in Nat \ {0} /\ s.worst.fall \in Int
    /\ \A a, b \in 0..n :
           a <= b /\ EquityAfter(a) > 0 /\ EquityAfter(b) >= 0 =>
               (EquityAfter(a) - EquityAfter(b)) * s.worst.peak <= s.worst.fall * EquityAfter(a)
    /\ \E a, b \in 0..n :
           /\ a <= b
           /\ s.worst.fall * EquityAfter(a) <= (EquityAfter(a) - EquityAfter(b)) * s.worst.peak

LEMMA WalkLearns ==
    ASSUME LedgerInv, NEW n \in 1..Len(resolved), NEW s, Knows(n - 1, s)
    PROVE  Knows(n, Walk(resolved[n], s))
<1> DEFINE e == EquityAfter(n)
           P == Max({s.peak, e})
           fall == [peak |-> P, fall |-> P - e]
           W == s.worst
           next == Walk(resolved[n], s)
           worse == P > 0 /\ Worse(fall, W)
<1>1. /\ Len(resolved) \in Nat /\ n \in Nat \ {0} /\ n - 1 \in Nat
      /\ \A m \in 0..n : EquityAfter(m) \in Int
      /\ e = EquityAfter(n - 1) + resolved[n].realized
  BY EquityWalks
<1>2. s.equity = EquityAfter(n - 1)
  BY DEF Knows
<1>3. next = [equity |-> e, peak |-> P, worst |-> IF worse THEN fall ELSE W]
  BY <1>1, <1>2 DEF Walk
<1>4. PICK k \in 0..n - 1 : s.peak = EquityAfter(k)
  BY DEF Knows
<1>5. e \in Int /\ s.peak \in Int /\ k \in 0..n /\ n \in 0..n
  BY <1>1, <1>4
<1>6. P \in {s.peak, e} /\ s.peak <= P /\ e <= P
  BY <1>5, MaxOfTwo
<1> HIDE DEF P
<1>7. P \in Int /\ P - e \in Int
  BY <1>5, <1>6
<1>8. \E j \in 0..n : P = EquityAfter(j)
  BY <1>4, <1>5, <1>6
<1>9. ASSUME NEW m \in 0..n PROVE EquityAfter(m) <= P
  <2>1. CASE m = n
    BY <1>6, <2>1
  <2>2. CASE m \in 0..n - 1
    <3>1. EquityAfter(m) <= s.peak /\ EquityAfter(m) \in Int
      BY <1>1, <2>2 DEF Knows
    <3> QED BY <1>5, <1>6, <1>7, <3>1
  <2> QED BY <1>1, <2>1, <2>2
<1>10. W.peak \in Nat \ {0} /\ W.fall \in Int
  BY DEF Knows
<1>11. Worse(fall, W) <=> (P - e) * W.peak > W.fall * P
  BY DEF Worse
<1>12. ASSUME NEW a \in 0..n, EquityAfter(a) > 0, e >= 0
       PROVE  /\ P \in Nat \ {0} /\ EquityAfter(a) \in Nat \ {0}
              /\ (EquityAfter(a) - e) * P <= (P - e) * EquityAfter(a)
  <2>1. EquityAfter(a) \in Nat \ {0} /\ EquityAfter(a) <= P /\ e \in Nat
    BY <1>1, <1>5, <1>9, <1>12
  <2>2. P \in Nat \ {0}
    BY <1>7, <2>1
  <2> QED BY <2>1, <2>2, HigherPeakDeeper
<1>13. ASSUME NEW a \in 0..n, NEW b \in 0..n, a <= b
       PROVE  (a \in 0..n - 1 /\ b \in 0..n - 1) \/ b = n
  BY <1>1, <1>13
<1> HIDE DEF e, W
<1>14. CASE worse
  <2>1. next.equity = e /\ next.peak = P /\ next.worst.peak = P /\ next.worst.fall = P - e
    BY <1>3, <1>14
  <2>2. P \in Nat \ {0} /\ (P - e) * W.peak > W.fall * P
    BY <1>7, <1>11, <1>14
  <2>3. ASSUME NEW a \in 0..n, NEW b \in 0..n, a <= b, EquityAfter(a) > 0, EquityAfter(b) >= 0
        PROVE  (EquityAfter(a) - EquityAfter(b)) * P <= (P - e) * EquityAfter(a)
    <3>1. CASE b = n
      BY <1>12, <2>3, <3>1 DEF e
    <3>2. CASE a \in 0..n - 1 /\ b \in 0..n - 1
      <4> DEFINE x == EquityAfter(a)
                 d == EquityAfter(a) - EquityAfter(b)
                 c == P - e
      <4>1. x \in Nat \ {0} /\ d \in Int /\ c \in Int
        BY <1>1, <1>7, <2>3
      <4>2. d * W.peak <= W.fall * x
        BY <2>3, <3>2 DEF Knows, W
      <4>3. W.fall * P <= c * W.peak
        <5>1. (P - e) * W.peak \in Int /\ W.fall * P \in Int
          BY <1>7, <1>10
        <5> QED BY <2>2, <5>1
      <4> HIDE DEF x, d, c
      <4>4. d * P <= c * x
        BY <1>10, <2>2, <4>1, <4>2, <4>3, ShareTransitive
      <4> QED BY <4>4 DEF x, d, c
    <3> QED BY <1>13, <2>3, <3>1, <3>2
  <2>4. \E a, b \in 0..n :
           a <= b /\ (P - e) * EquityAfter(a) <= (EquityAfter(a) - EquityAfter(b)) * P
    <3>1. PICK j \in 0..n : P = EquityAfter(j)
      BY <1>8
    <3>2. j <= n /\ (P - e) * EquityAfter(j) <= (EquityAfter(j) - EquityAfter(n)) * P
      <4>1. (P - e) * P \in Int /\ j <= n
        BY <1>1, <1>7
      <4>2. (P - e) * P <= (P - e) * P
        BY <4>1
      <4> QED BY <3>1, <4>1, <4>2 DEF e
    <3> QED BY <1>5, <3>2
  <2>5. /\ P - e \in Int /\ \A m \in 0..n : EquityAfter(m) <= P
        /\ \A a, b \in 0..n :
               a <= b /\ EquityAfter(a) > 0 /\ EquityAfter(b) >= 0 =>
                   (EquityAfter(a) - EquityAfter(b)) * P <= (P - e) * EquityAfter(a)
    BY <1>7, <1>9, <2>3
  <2>6. next.equity = EquityAfter(n)
    BY <2>1 DEF e
  <2> HIDE DEF next
  <2> QED BY <1>8, <2>1, <2>2, <2>4, <2>5, <2>6 DEF Knows, next
<1>15. CASE ~worse
  <2>1. next.equity = e /\ next.peak = P /\ next.worst = W
    BY <1>3, <1>15
  <2>2. ASSUME NEW a \in 0..n, NEW b \in 0..n, a <= b, EquityAfter(a) > 0, EquityAfter(b) >= 0
        PROVE  (EquityAfter(a) - EquityAfter(b)) * W.peak <= W.fall * EquityAfter(a)
    <3>1. CASE b = n
      <4> DEFINE x == EquityAfter(a)
                 d == x - e
                 c == P - e
      <4>1. P \in Nat \ {0} /\ x \in Nat \ {0} /\ d * P <= c * x
        BY <1>12, <2>2, <3>1 DEF e
      <4>2. d \in Int /\ c \in Int
        BY <1>5, <1>7, <4>1
      <4>3. c * W.peak <= W.fall * P
        <5>1. ~((P - e) * W.peak > W.fall * P)
          BY <1>11, <1>15, <4>1
        <5>2. (P - e) * W.peak \in Int /\ W.fall * P \in Int
          BY <1>7, <1>10
        <5> QED BY <5>1, <5>2
      <4> HIDE DEF x, d, c
      <4>4. d * W.peak <= W.fall * x
        BY <1>10, <4>1, <4>2, <4>3, ShareTransitive
      <4> QED BY <3>1, <4>4 DEF x, d, e
    <3>2. CASE a \in 0..n - 1 /\ b \in 0..n - 1
      BY <2>2, <3>2 DEF Knows, W
    <3> QED BY <1>13, <2>2, <3>1, <3>2
  <2>3. \E a, b \in 0..n :
           a <= b /\ W.fall * EquityAfter(a) <= (EquityAfter(a) - EquityAfter(b)) * W.peak
    <3>1. PICK a \in 0..n - 1, b \in 0..n - 1 :
           a <= b /\ W.fall * EquityAfter(a) <= (EquityAfter(a) - EquityAfter(b)) * W.peak
      BY DEF Knows, W
    <3>2. a \in 0..n /\ b \in 0..n
      BY <1>1
    <3> QED BY <3>1, <3>2
  <2>4. next.equity = EquityAfter(n)
    BY <2>1 DEF e
  <2>5. \A a, b \in 0..n :
           a <= b /\ EquityAfter(a) > 0 /\ EquityAfter(b) >= 0 =>
               (EquityAfter(a) - EquityAfter(b)) * W.peak <= W.fall * EquityAfter(a)
    BY <2>2
  <2> HIDE DEF next
  <2> QED BY <1>8, <1>9, <1>10, <2>1, <2>3, <2>4, <2>5 DEF Knows, next
<1> QED BY <1>14, <1>15

(* The drawdown found in one walk is the worst fall of equity from any     *)
(* moment of the record to any later one (stats.py:277-286), falls to      *)
(* below nothing apart.                                                    *)
THEOREM DrawdownIsFound == Spec => []DrawdownIsWorst
<1>1. LoopInv => DrawdownIsWorst
  <2> SUFFICES ASSUME LoopInv PROVE DrawdownIsWorst
    OBVIOUS
  <2> DEFINE start == Deposit * Ticks
             N == Len(resolved)
             g == CHOOSE g : Walks(resolved, start, g)
             first == [equity |-> start, peak |-> start, worst |-> NoFall]
  <2>1. LedgerInv
    BY DEF LoopInv
  <2>2. /\ N \in Nat /\ EquityAfter(0) = start /\ start \in Nat
        /\ \A n \in 0..N : EquityAfter(n) \in Int
    BY <2>1, EquityWalks
  <2>3. Walks(resolved, start, g)
    BY <2>2, WalkExists
  <2> HIDE DEF g
  <2>4. /\ g[0] = first
        /\ \A n \in 1..N : g[n] = Walk(resolved[n], g[n - 1])
    <3>1. g = [n \in 0..N |-> IF n = 0 THEN first ELSE Walk(resolved[n], g[n - 1])]
      BY <2>3 DEF Walks
    <3> DEFINE h(n) == IF n = 0 THEN first ELSE Walk(resolved[n], g[n - 1])
    <3>2. \A n \in 0..N : g[n] = h(n)
      <4> HIDE DEF h
      <4>1. g = [n \in 0..N |-> h(n)]
        BY <3>1 DEF h
      <4> QED BY <4>1
    <3>3. 0 \in 0..N /\ \A n \in 1..N : n \in 0..N /\ n # 0
      BY <2>2
    <3> QED BY <3>2, <3>3
  <2>5. Knows(0, first)
    <3> DEFINE x == EquityAfter(0)
    <3>1. 0..0 = {0} /\ x \in Nat
      BY <2>2
    <3>2. /\ first.equity = x /\ first.peak = x /\ first.worst.peak = 1 /\ first.worst.fall = 0
      BY <2>2 DEF NoFall
    <3>3. (x - x) * 1 <= 0 * x /\ 0 * x <= (x - x) * 1 /\ x <= x
      BY <3>1
    <3> HIDE DEF first
    <3> QED BY <3>1, <3>2, <3>3 DEF Knows
  <2> DEFINE Q == {n \in Nat : n <= N => Knows(n, g[n])}
  <2>6. Q = Nat
    <3>1. 0 \in Q
      BY <2>4, <2>5
    <3>2. ASSUME NEW n \in Q PROVE n + 1 \in Q
      <4> SUFFICES ASSUME n + 1 <= N PROVE Knows(n + 1, g[n + 1])
        OBVIOUS
      <4>1. n \in Nat /\ Knows(n, g[n]) /\ n + 1 \in 1..N /\ (n + 1) - 1 = n
        BY <2>2
      <4>2. g[n + 1] = Walk(resolved[n + 1], g[n])
        BY <2>4, <4>1
      <4> DEFINE m == n + 1
      <4>3. m \in 1..Len(resolved) /\ Knows(m - 1, g[n])
        BY <4>1
      <4> HIDE DEF m
      <4>4. Knows(m, Walk(resolved[m], g[n]))
        BY <2>1, <4>3, WalkLearns
      <4> QED BY <4>2, <4>4 DEF m
    <3>3. Q \in SUBSET Nat
      OBVIOUS
    <3> HIDE DEF Q
    <3> QED BY <3>1, <3>2, <3>3, Counting
  <2>7. Knows(N, g[N])
    BY <2>2, <2>6
  <2> DEFINE worst == g[N].worst
             span == {mn \in (0..N) \X (0..N) : mn[1] <= mn[2]}
             of(mn) == [peak |-> EquityAfter(mn[1]),
                        fall |-> EquityAfter(mn[1]) - EquityAfter(mn[2])]
             later == {of(mn) : mn \in span}
  <2>8. Performance(resolved, start).worst = worst
    BY WalkIs DEF g
  <2>9. worst.peak \in Nat \ {0} /\ worst.fall \in Int
    BY <2>7 DEF Knows
  <2>10. ASSUME NEW f \in later, f.peak > 0, f.fall <= f.peak PROVE ~Worse(f, worst)
    <3>1. PICK mn \in span : f = of(mn)
      OBVIOUS
    <3>2. PICK a \in 0..N, b \in 0..N :
             a <= b /\ f = [peak |-> EquityAfter(a), fall |-> EquityAfter(a) - EquityAfter(b)]
      BY <3>1
    <3>3. EquityAfter(a) > 0 /\ EquityAfter(b) >= 0
      BY <2>2, <2>10, <3>2
    <3>4. (EquityAfter(a) - EquityAfter(b)) * worst.peak <= worst.fall * EquityAfter(a)
      BY <2>7, <3>2, <3>3 DEF Knows
    <3> DEFINE x == worst.fall * EquityAfter(a)
               y == (EquityAfter(a) - EquityAfter(b)) * worst.peak
    <3>5. x \in Int /\ y \in Int
      <4>1. EquityAfter(a) \in Int /\ EquityAfter(b) \in Int
        BY <2>2
      <4> HIDE DEF worst
      <4> QED BY <2>9, <4>1
    <3>6. f.fall * worst.peak = y /\ worst.fall * f.peak = x
      BY <3>2
    <3>7. y <= x
      BY <3>4
    <3> HIDE DEF worst, x, y
    <3> QED BY <3>5, <3>6, <3>7 DEF Worse
  <2>11. \E f \in later : ~Worse(worst, f)
    <3>1. PICK a \in 0..N, b \in 0..N :
             /\ a <= b
             /\ worst.fall * EquityAfter(a) <= (EquityAfter(a) - EquityAfter(b)) * worst.peak
      BY <2>7 DEF Knows
    <3> DEFINE f == of(<<a, b>>)
    <3>2. f \in later
      <4>1. <<a, b>> \in span
        BY <3>1
      <4> QED BY <4>1
    <3>3. f.peak = EquityAfter(a) /\ f.fall = EquityAfter(a) - EquityAfter(b)
      OBVIOUS
    <3>4. (EquityAfter(a) - EquityAfter(b)) * worst.peak \in Int
          /\ worst.fall * EquityAfter(a) \in Int
      BY <2>2, <2>9
    <3> HIDE DEF worst, f, later
    <3>5. ~Worse(worst, f)
      <4> DEFINE x == worst.fall * EquityAfter(a)
                 y == (EquityAfter(a) - EquityAfter(b)) * worst.peak
      <4>1. worst.fall * f.peak = x /\ f.fall * worst.peak = y
        BY <3>3
      <4>2. x \in Int /\ y \in Int /\ x <= y
        BY <3>1, <3>4
      <4> HIDE DEF x, y
      <4> QED BY <4>1, <4>2 DEF Worse
    <3> QED BY <3>2, <3>5
  <2> HIDE DEF worst
  <2> QED BY <2>8, <2>10, <2>11 DEF DrawdownIsWorst
<1> QED BY <1>1, LoopInvInit, LoopInvNext, PTL DEF Spec
=============================================================================
