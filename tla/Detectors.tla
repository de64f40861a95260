----------------------------- MODULE Detectors ------------------------------
(***************************************************************************)
(* The detectors of the scheduler, as operators on finite sequences of     *)
(* samples.  Values, times and settings are integers, and every comparison *)
(* of the code on means, deviations, slopes or medians is stated here      *)
(* multiplied out, so that it is exact: the operators are the detectors of *)
(* the code without their rounding.                                        *)
(*                                                                         *)
(* A sample is a record with its time ts in ticks, its value and its       *)
(* subgroup key; None is an absent setting, key or unreadable value.       *)
(* Settings that are times are in seconds, as in the code.                 *)
(***************************************************************************)
EXTENDS Integers, Sequences, SequencesExt, FiniteSetsExt

CONSTANTS
    None,
    Garbled,                    \* a text that is not a time
    SigmaUnit,                  \* sigma multipliers are in parts of this size
    defaultBaselineMinN,        \* 20 in the code
    defaultBaselineSubgroups,   \* 10
    defaultBaselineLastN,       \* 50
    defaultTrendWindowSize,     \* 6
    Year,                       \* how far back baselines are looked for, in ticks
    TicksPerSecond              \* the resolution of the time of a row

Default(x, d) == IF x = 0 THEN d ELSE x
Given(x, d) == IF x = None THEN d ELSE x
Unix(ts) == ts \div TicksPerSecond
Seconds(s) == s * TicksPerSecond
AbsVal(x) == IF x < 0 THEN -x ELSE x

\* Mutant: the status is not set with the violation.
ResultKeepsOK(reasons) ==
    [hit |-> reasons # {}, reasons |-> reasons, status |-> "OK"]

\* What a detector answers; reasons are those of the violations it lists.
Result(reasons) ==
    [hit |-> reasons # {}, reasons |-> reasons,
     status |-> IF reasons # {} THEN "VIOLATION" ELSE "OK"]
insufficientData == [hit |-> FALSE, reasons |-> {}, status |-> "INSUFFICIENT_DATA"]
invalidConfig == [hit |-> FALSE, reasons |-> {}, status |-> "INVALID_CONFIG"]
noResult == [hit |-> FALSE, reasons |-> {}, status |-> ""]
failed == [hit |-> FALSE, reasons |-> {}, status |-> "ERROR"]

-----------------------------------------------------------------------------
extractValues(samples) == [i \in DOMAIN samples |-> samples[i].value]

\* The entries of s that are in S, in their order.
Those(s, S) ==
    LET kept[i \in 0..Len(s)] ==
            IF i = 0 THEN <<>>
            ELSE IF s[i] \in S THEN Append(kept[i - 1], s[i]) ELSE kept[i - 1]
    IN  kept[Len(s)]

SumSeq(s) ==
    LET sum[i \in 0..Len(s)] == IF i = 0 THEN 0 ELSE sum[i - 1] + s[i]
    IN  sum[Len(s)]
Squares(s) == [i \in DOMAIN s |-> s[i] * s[i]]

\* n squared times the population variance of s (Mean, StdDev), which the code
\* sums up from the deviations from the mean.
Spread(s) == Len(s) * SumSeq(Squares(s)) - SumSeq(s) * SumSeq(s)

\* Mutant: the upper of the two middle values is the median.
UpperMedian2(s) == IF s = <<>> THEN 0 ELSE 2 * SortSeq(s, <)[Len(s) \div 2 + 1]

\* Twice the median, an integer (Median).
Median2(s) ==
    LET sorted == SortSeq(s, <)
        mid == Len(s) \div 2
    IN  CASE Len(s) = 0 -> 0
          [] Len(s) > 0 /\ Len(s) % 2 = 0 -> sorted[mid] + sorted[mid + 1]
          [] OTHER -> 2 * sorted[mid + 1]

\* Four times the median of the absolute deviations from the median (MAD).
MAD4(s) == Median2([i \in DOMAIN s |-> AbsVal(2 * s[i] - Median2(s))])

\* The slope of the least-squares line, as numerator and denominator; the
\* denominator is 0 when all x are equal and no line is defined.
LinearRegression(xs, ys) ==
    LET n == Len(xs)
        xy == [i \in DOMAIN xs |-> xs[i] * ys[i]]
    IN  [num |-> n * SumSeq(xy) - SumSeq(xs) * SumSeq(ys),
         den |-> n * SumSeq(Squares(xs)) - SumSeq(xs) * SumSeq(xs)]

-----------------------------------------------------------------------------
Unset(bounds) == bounds.upper = None /\ bounds.lower = None

Above(value, limit, epsilon) == limit # None /\ value > limit + epsilon
Below(value, limit, epsilon) == limit # None /\ value < limit - epsilon

specMode(spec) == IF spec.mode = "" THEN "spec" ELSE spec.mode

EvaluateSpecLimit(value, spec) ==
    LET mode == specMode(spec)
        epsilon == Given(spec.epsilon, 0)
        useSpec == mode \in {"spec", "both"}
        useControl == mode \in {"control", "both"}
    IN  IF (useSpec /\ Unset(spec.limits)) \/ (useControl /\ Unset(spec.control))
        THEN invalidConfig
        ELSE Result({r \in {"USL"} : useSpec /\ Above(value, spec.limits.upper, epsilon)}
               \cup {r \in {"LSL"} : useSpec /\ Below(value, spec.limits.lower, epsilon)}
               \cup {r \in {"UCL"} : useControl /\ Above(value, spec.control.upper, epsilon)}
               \cup {r \in {"LCL"} : useControl /\ Below(value, spec.control.lower, epsilon)})

\* Mutant: the limits are those of the mean of the samples.
BeyondMean(distance, k, n, denom, spread) ==
    SigmaUnit * SigmaUnit * (distance * distance * denom) > k * k * spread

\* A value at distance / n from the mean of n values is more than k sigma away,
\* for a k in parts of SigmaUnit.
Beyond(distance, k, n, denom, spread) ==
    SigmaUnit * SigmaUnit * (distance * distance * denom) > k * k * (n * spread)

\* The latest value against the mean and sigma of all samples, its own value
\* among them.  distance is n times its distance from the mean.
EvaluateShewhart(samples, spec, sigmaMultiplier) ==
    LET values == extractValues(samples)
        n == Len(values)
        denom == IF spec.populationSigma THEN n ELSE n - 1
        sigmaIsZero == denom = 0 \/ Spread(values) = 0
        distance == n * values[n] - SumSeq(values)
        far == Beyond(distance, sigmaMultiplier, n, denom, Spread(values))
    IN  IF n < Default(spec.minBaselineN, defaultBaselineMinN)
        THEN insufficientData
        ELSE Result({r \in {"mean_shift"} : sigmaIsZero /\ distance # 0}
               \cup {r \in {"above_ucl"} : ~sigmaIsZero /\ distance > 0 /\ far}
               \cup {r \in {"below_lcl"} : ~sigmaIsZero /\ distance < 0 /\ far})

\* Mutant: equal steps count.
ExceedsOrEquals(difference, epsilon) == difference >= epsilon

Exceeds(difference, epsilon) == difference > epsilon

EvaluateTrend6(samples, spec) ==
    LET window == Default(spec.windowSize, defaultTrendWindowSize)
        segment == SubSeq(samples, Len(samples) - window + 1, Len(samples))
        step(i) == segment[i + 1].value - segment[i].value
        increasing == \A i \in 1..(window - 1) : Exceeds(step(i), spec.epsilon)
        decreasing == \A i \in 1..(window - 1) : Exceeds(-step(i), spec.epsilon)
    IN  IF Len(samples) < window
        THEN insufficientData
        ELSE Result({r \in {"increasing"} : increasing}
               \cup {r \in {"decreasing"} : decreasing /\ ~increasing})

\* D3 and D4 in thousandths.
rangeChartConstants ==
    [n \in 2..10 |->
        <<[D3 |-> 0, D4 |-> 3267], [D3 |-> 0, D4 |-> 2574], [D3 |-> 0, D4 |-> 2282],
          [D3 |-> 0, D4 |-> 2114], [D3 |-> 0, D4 |-> 2004], [D3 |-> 76, D4 |-> 1924],
          [D3 |-> 136, D4 |-> 1864], [D3 |-> 184, D4 |-> 1816],
          [D3 |-> 223, D4 |-> 1777]>>[n - 1]]

subgroupRange(group) ==
    LET values == ToSet(extractValues(group))
    IN  IF values = {} THEN 0 ELSE Max(values) - Min(values)

\* The range of the last subgroup against D3 and D4 times the mean range.
EvaluateRangeChart(groups, spec) ==
    LET ranges == [i \in DOMAIN groups |-> subgroupRange(groups[i])]
        latest == 1000 * Len(groups) * Last(ranges)
        consts == rangeChartConstants[spec.subgroupSize]
    IN  CASE \/ groups = <<>>
             \/ Len(groups) < Default(spec.minBaselineSubgroups, defaultBaselineSubgroups)
                -> insufficientData
          [] OTHER ->
                IF spec.subgroupSize \notin DOMAIN rangeChartConstants
                THEN invalidConfig
                ELSE Result({r \in {"above_ucl_r"} : latest > consts.D4 * SumSeq(ranges)}
                       \cup {r \in {"below_lcl_r"} : latest < consts.D3 * SumSeq(ranges)})

\* The time until the line through the latest value with the given slope
\* reaches the limit it heads for is within the threshold, and not past.
reachesSpec(slope, latest, limits, threshold) ==
    LET room == CASE slope.num > 0 /\ limits.upper # None -> limits.upper - latest
                  [] slope.num < 0 /\ limits.lower # None -> latest - limits.lower
                  [] OTHER -> -1
    IN  room >= 0 /\ room * slope.den <= threshold * AbsVal(slope.num)

\* The slope is per second, or per sample; times count in whole seconds.
EvaluateTPA(samples, spec) ==
    LET window == SubSeq(samples, Len(samples) - spec.windowN + 1, Len(samples))
        xs == [i \in DOMAIN window |->
                 IF spec.basis \in {"", "timestamp"}
                 THEN Unix(window[i].ts) - Unix(window[1].ts)
                 ELSE i - 1]
        slope == LinearRegression(xs, extractValues(window))
        steep == spec.slope # None /\ AbsVal(slope.num) >= spec.slope * slope.den
        near == /\ spec.time # None /\ spec.limits # None
                /\ reachesSpec(slope, Last(window).value, spec.limits, spec.time)
    IN  CASE spec.windowN < 3 -> invalidConfig
          [] spec.windowN >= 3 /\ Len(samples) < spec.windowN -> insufficientData
          [] OTHER ->
                CASE slope.den = 0 -> invalidConfig
                  [] slope.den # 0 /\ AbsVal(slope.num) <= spec.epsilon * slope.den -> Result({})
                  [] OTHER ->
                        IF spec.time # None /\ spec.requireSpecLimits /\ spec.limits = None
                        THEN invalidConfig
                        ELSE Result({r \in {"slope_threshold"} : steep}
                               \cup {r \in {"time_to_spec"} : near})

\* 0.6745 (latest - median) / mad against the warning and critical scores.
EvaluateRobustZ(values, latest, zWarn, zCrit) ==
    LET distance == AbsVal(2 * latest - Median2(values))
        score(z) == 13490 * distance >= 10000 * z * MAD4(values)
    IN  IF MAD4(values) = 0
        THEN Result({r \in {"high"} : distance # 0})
        ELSE Result({r \in {"high"} : score(zCrit)}
               \cup {r \in {"medium"} : score(zWarn) /\ ~score(zCrit)})

EvaluateMissingData(latestTS, maxGapSeconds, now) ==
    Result({r \in {"gap"} : latestTS = None \/ now - latestTS > Seconds(maxGapSeconds)})

EvaluateCondition(cond, value) ==
    LET holds == CASE cond.op = ">" -> value > cond.value
                   [] cond.op = ">=" -> value >= cond.value
                   [] cond.op = "<" -> value < cond.value
                   [] cond.op = "<=" -> value <= cond.value
                   [] cond.op = "==" -> value = cond.value
                   [] cond.op = "!=" -> value # cond.value
                   [] cond.op = "between" -> value >= cond.min /\ value <= cond.max
                   [] OTHER -> FALSE
        bounded == cond.op # "between" \/ (cond.min # None /\ cond.max # None)
    IN  Result({r \in {"condition"} : value # None /\ bounded /\ holds})

-----------------------------------------------------------------------------
clampLimit(value, maxRows) ==
    IF maxRows = 0 \/ value <= maxRows THEN value ELSE maxRows

\* Mutant: the least size of a baseline is its default size.
minNAsLastN(baseline) == Given(baseline.lastN, defaultBaselineMinN)

\* How many samples a baseline is made of.
baselineLastN(baseline) == Given(baseline.lastN, defaultBaselineLastN)

\* A range is accepted if its ends are times and in order.  An end is None if it
\* is empty, Garbled if it is a text that is not a time, or a time in seconds.
parseTimeRange(range) ==
    /\ range.start \notin {None, Garbled} /\ range.end \notin {None, Garbled}
    /\ range.start <= range.end

\* Where the samples of a baseline are looked for, or None for a setting that
\* is refused: a time range, or the last samples of the last year.
buildBaselineWindow(now, baseline, maxRows) ==
    LET range == baseline.timeRange
        lastN == baselineLastN(baseline)
    IN  CASE range # None /\ ~parseTimeRange(range) -> None
          [] range # None /\ parseTimeRange(range) ->
                [since |-> Seconds(range.start), limit |-> maxRows,
                 start |-> Seconds(range.start), end |-> Seconds(range.end)]
          [] range = None /\ lastN <= 0 -> None
          [] OTHER ->
                [since |-> now - Year, start |-> None, end |-> None,
                 limit |-> clampLimit(lastN, maxRows)]

\* The newest limit rows, oldest first, from the second of since on: the query
\* carries the time without its fraction.
FetchRecentRows(rows, since, limit) ==
    LET recent == Those(rows, {r \in ToSet(rows) : r.ts >= Seconds(Unix(since))})
    IN  SubSeq(recent, Max({1, Len(recent) - limit + 1}), Len(recent))

\* The rows whose value can be read.
Readable(rows) == Those(rows, {r \in ToSet(rows) : r.value # None})

fetchSamples(rows, since, limit) == Readable(FetchRecentRows(rows, since, limit))

filterSamplesByRange(samples, start, end) ==
    Those(samples, {r \in ToSet(samples) : /\ start = None \/ r.ts >= start
                                           /\ end = None \/ r.ts <= end})

\* Complete groups only, counted from the oldest sample.
groupConsecutive(samples, size) ==
    IF size <= 0 THEN <<>>
    ELSE [g \in 1..(Len(samples) \div size) |->
             SubSeq(samples, (g - 1) * size + 1, g * size)]

\* The first samples of every large enough subgroup, in the order of the keys.
groupBySubgroup(samples, size) ==
    LET of(key) == Those(samples, {r \in ToSet(samples) : r.group = key})
        keys == {r.group : r \in ToSet(samples)} \ {None}
        large == {key \in keys : Len(of(key)) >= size}
        nth(g) == CHOOSE key \in large : Cardinality({k \in large : k <= key}) = g
    IN  [g \in 1..Cardinality(large) |-> SubSeq(of(nth(g)), 1, size)]

hasConsecutiveTimestamps(samples) ==
    LET deltas == [i \in 1..(Len(samples) - 1) |-> samples[i + 1].ts - samples[i].ts]
    IN  Len(samples) >= 2 =>
            \A i \in DOMAIN deltas : deltas[i] > 0 /\ deltas[i] <= Median2(deltas)
=============================================================================
