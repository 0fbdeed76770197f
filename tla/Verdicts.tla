------------------------------ MODULE Verdicts ------------------------------
(***************************************************************************)
(* What the code makes of a verdict: the model's answer on a candidate and *)
(* on an open row, validated and clamped or dropped                        *)
(* (hlcli/executor/decision.py, hlcli/sentry/decision.py), the two         *)
(* arbiters that ask no model, and when a WAIT is looked at again          *)
(* (hlcli/executor/runner.py).                                             *)
(*                                                                         *)
(* An answer is a set of at most one verdict: the empty set is a drop.     *)
(* Fractions are whole percents.  NonFinite stands for whatever is no      *)
(* finite number: NaN, an infinity, text, a missing field.  Times are      *)
(* minutes.                                                                *)
(***************************************************************************)
EXTENDS ConfigClamp

CONSTANTS
    SignalAge,      \* HL_MAX_SIGNAL_AGE_MINUTES
    RecheckCeiling  \* _RECHECK_CEILING_MIN

ASSUME VerdictAssumption == SignalAge \in Nat /\ RecheckCeiling \in Nat \ {0}

NoRecheck == -1   \* None: use the code's default
MinRecheck == 1
DefaultRecheck == 5

Actions == {"act", "skip"}
Timings == {"now", "wait"}

ClampTo(value, hi) == Greatest(0, Least(hi, value))

Finite(value) == value # NonFinite

\* _clamp_recheck: an unusable time is the code's default, not a drop.
ClampRecheck(minutes) == IF Finite(minutes) THEN ClampTo(minutes, RecheckCeiling) ELSE NoRecheck

\* validate_decision: an unknown action or timing, or no usable conviction, drops the
\* answer; a conviction out of range is clamped.
ValidateDecision(payload) ==
    IF /\ payload.action \in Actions
       /\ payload.timing \in Timings
       /\ Finite(payload.conviction)
    THEN {[action     |-> payload.action,
           timing     |-> payload.timing,
           conviction |-> ClampTo(payload.conviction, 100),
           recheck    |-> ClampRecheck(payload.recheck)]}
    ELSE {}

\* The baseline arbiters: `rule` acts on everything, `follow_source` on what its producer
\* says, carrying the producer's confidence where there is one.
DecideRule ==
    [action |-> "act", timing |-> "now", conviction |-> 100, recheck |-> NoRecheck]

DecideFollowSource(c) ==
    LET act == \/ c.direction = "LONG" /\ c.side = 1
               \/ c.direction = "SHORT" /\ c.side = -1
    IN  [action     |-> IF act THEN "act" ELSE "skip",
         timing     |-> "now",
         conviction |-> IF Finite(c.confidence) THEN ClampTo(c.confidence, 100)
                        ELSE IF act THEN 100 ELSE 0,
         recheck    |-> NoRecheck]

\* decider_for: the verdicts the selected arbiter may come back with.
Verdict(source, c, payload) ==
    CASE source = "rule" -> {DecideRule}
      [] source = "follow_source" -> {DecideFollowSource(c)}
      [] OTHER -> ValidateDecision(payload)

\* _schedule_recheck: no sooner than a minute from now and no later than the candidate
\* goes stale; no look at all once less than that minute is left.
ScheduleRecheck(c, recheck, now) ==
    LET latest == c.created_at + SignalAge
        minutes == IF recheck > 0 THEN recheck ELSE DefaultRecheck
    IN  IF latest - now < MinRecheck THEN {}
        ELSE {Least(now + Greatest(MinRecheck, minutes), latest)}

ReduceSteps == {25, 50, 75}

\* validate_management: an action without a usable parameter of its own is dropped.
ValidateManagement(payload) ==
    IF /\ Finite(payload.confidence)
       /\ CASE payload.action \in {"hold", "close"} -> TRUE
            [] payload.action \in {"tighten_stop", "add"} ->
                   Finite(payload.new_stop) /\ payload.new_stop > 0
            [] payload.action = "reduce" -> payload.reduce_pct \in ReduceSteps
            [] payload.action = "extend_tp" -> Finite(payload.new_tp) /\ payload.new_tp > 0
            [] OTHER -> FALSE
    THEN {[payload EXCEPT !.confidence = ClampTo(payload.confidence, 100)]}
    ELSE {}
=============================================================================
