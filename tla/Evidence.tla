------------------------------ MODULE Evidence ------------------------------
(***************************************************************************)
(* What the resolved rows of the ledger are evidence of: the cohorts the   *)
(* tuner may learn from, the calibration of conviction and the drawdown    *)
(* (hlcli/tuner/stats.py), and whether the record is enough for real money *)
(* (hlcli/safety/graduation.py).                                           *)
(*                                                                         *)
(* Rows come oldest-closed first.  R is in whole percents, conviction too; *)
(* closed_at is a day.  A mean is compared by its sum.  Rounding and the   *)
(* ratios of dispersion (Sharpe, Sortino) are left out.                    *)
(***************************************************************************)
EXTENDS Integers, Sequences, Functions, FiniteSets, FiniteSetsExt

CONSTANTS
    MinCohort,       \* MIN_COHORT_SAMPLES
    MinTrades,       \* HL_GRADUATION_MIN_TRADES
    MinDays,         \* HL_GRADUATION_MIN_DAYS
    MinExpectancy,   \* HL_GRADUATION_MIN_EXPECTANCY
    MinBucket,       \* HL_CALIBRATION_MIN_BUCKET_N
    MinSpread        \* HL_CALIBRATION_MIN_SPREAD_R

ASSUME EvidenceAssumption ==
    /\ {MinCohort, MinTrades, MinDays, MinBucket} \subseteq Nat
    /\ {MinExpectancy, MinSpread} \subseteq Int

\* A part of the record is the set of its places in it.
SumR(rows, part) == SumFunction([i \in part |-> rows[i].r])

Bucket(conviction) ==
    IF conviction < 40 THEN "low" ELSE IF conviction < 70 THEN "mid" ELSE "high"

\* cohorts: coin, side and bucket; those of too few rows are no evidence.
CohortOf(t) == <<t.coin, t.side, Bucket(t.conviction)>>
Cohort(rows, key) == {i \in DOMAIN rows : CohortOf(rows[i]) = key}
Cohorts(rows) ==
    {key \in {CohortOf(rows[i]) : i \in DOMAIN rows} :
        Cardinality(Cohort(rows, key)) >= MinCohort}

-----------------------------------------------------------------------------
(* Conviction calibration. *)

CalibrationStatuses == {"won", "lost", "expired", "closed"}
Calibrates(t) == t.status \in CalibrationStatuses /\ ~t.adopted

InBucket(rows, b) ==
    {i \in DOMAIN rows : Calibrates(rows[i]) /\ Bucket(rows[i].conviction) = b}
Populated(rows) == {b \in {"low", "mid", "high"} : InBucket(rows, b) # {}}

\* The mean R of bucket a is at most that of bucket b less `spread`.
Below(rows, a, b, spread) ==
    LET lo == InBucket(rows, a)
        hi == InBucket(rows, b)
    IN  (SumR(rows, lo) + spread * Cardinality(lo)) * Cardinality(hi)
            <= SumR(rows, hi) * Cardinality(lo)

\* calibration_verdict: both ends of the range, enough of each, never falling with
\* conviction, and far enough apart.
CalibrationReady(rows) ==
    /\ {"low", "high"} \subseteq Populated(rows)
    /\ \A b \in Populated(rows) : Cardinality(InBucket(rows, b)) >= MinBucket
    /\ "mid" \in Populated(rows) => Below(rows, "low", "mid", 0) /\ Below(rows, "mid", "high", 0)
    /\ Below(rows, "low", "high", 0)
    /\ Below(rows, "low", "high", MinSpread)

-----------------------------------------------------------------------------
(* Graduation. *)

UngradedStatuses == {"scaled", "aborted", "abort_failed"}

\* Slip: partials are graded like whole trades.
GradesPartials(rows) ==
    {i \in DOMAIN rows :
        rows[i].status \notin UngradedStatuses \ {"scaled"} /\ ~rows[i].adopted}

\* graded_trades: no partials, no mechanical aborts, no adopted rows.
Graded(rows) ==
    {i \in DOMAIN rows : rows[i].status \notin UngradedStatuses /\ ~rows[i].adopted}

\* _span_days
SpanDays(rows, part) ==
    IF Cardinality(part) < 2 THEN 0
    ELSE LET days == {rows[i].closed_at : i \in part} IN Max(days) - Min(days)

\* assess: enough trades over enough days that made more than the threshold on average.
\* The summary of no trades has a mean of nought.
GraduationReady(rows) ==
    LET graded == Graded(rows)
    IN  /\ Cardinality(graded) >= MinTrades
        /\ SpanDays(rows, graded) >= MinDays
        /\ IF graded = {} THEN 0 > MinExpectancy
           ELSE SumR(rows, graded) > MinExpectancy * Cardinality(graded)

-----------------------------------------------------------------------------
(* performance: the drawdown of the equity curve. *)

\* A fall from a peak is a fraction of the peak: a is worse than b.
Worse(a, b) == a.fall * b.peak > b.fall * a.peak
NoFall == [peak |-> 1, fall |-> 0]

\* Slip: the fall is measured from the start, not from the peak.
WalkFromStart(t, s) ==
    LET equity == s.equity + t.realized
        fall == [peak |-> s.peak, fall |-> s.peak - equity]
    IN  [equity |-> equity, peak |-> s.peak,
         worst |-> IF s.peak > 0 /\ Worse(fall, s.worst) THEN fall ELSE s.worst]

\* One pass over the rows: the equity, its peak so far and the worst fall from a peak.
Walk(t, s) ==
    LET equity == s.equity + t.realized
        peak == Max({s.peak, equity})
        fall == [peak |-> peak, fall |-> peak - equity]
    IN  [equity |-> equity, peak |-> peak,
         worst |-> IF peak > 0 /\ Worse(fall, s.worst) THEN fall ELSE s.worst]

Performance(rows, start) ==
    LET walked[n \in 0..Len(rows)] ==
            IF n = 0 THEN [equity |-> start, peak |-> start, worst |-> NoFall]
            ELSE Walk(rows[n], walked[n - 1])
    IN  walked[Len(rows)]
=============================================================================
