-------------------------- MODULE EvaluationProofs --------------------------
(***************************************************************************)
(* Proofs about Evaluation for every set of submissions and every table.   *)
(*                                                                         *)
(* The inductive invariant says that the table is in order and only grows, *)
(* and that what is remembered of the last poll is an answer to a table    *)
(* that the present one begins with.  Each theorem then is about a single  *)
(* evaluation of such a table: which samples it fetches (SeriesProofs),    *)
(* what the detector makes of them, and what the settings of the rule can  *)
(* be, by the way it was submitted.                                        *)
(***************************************************************************)
EXTENDS Evaluation, SeriesProofs

Refusals == {"INVALID_CONFIG", "ERROR"}

\* A baseline whose range has an end that is not a time, or ends before it starts.
BadRange(d) ==
    LET range == d.baseline.timeRange
    IN  /\ d.type \in {"shewhart", "range_chart"}
        /\ range # None
        /\ Garbled \in {range.start, range.end} \/ range.end < range.start

\* The rule's own query needs a row.
NeedsRow(spec) == spec.detector.type = "threshold" /\ ~Aggregating(spec)

DetectorTypes == {"threshold", "missing_data", "robust_zscore", "spec_limit", "shewhart",
                  "range_chart", "trend", "tpa"}

\* The times of a table: in order, and none after t.
InOrder(table) == \A i, j \in 1..Len(table) : i < j => table[i].ts < table[j].ts
Past(table, t) == \A r \in ToSet(table) : r.ts <= t

\* The rows that the last poll saw.
Seen == SubSeq(rows, 1, last.count)

\* The last answers are those to the table of the last poll.
Polled ==
    /\ active
    /\ last.at \in Nat /\ last.at <= now
    /\ lastRun \in Nat /\ lastRun <= last.at
    /\ last.since = None \/ last.since \in Nat
    /\ last.count \in 0..Len(rows)
    /\ Past(Seen, last.at)
    /\ NeedsRow(rule) => Seen # <<>>
    /\ last.answers = evaluateParameterSince(rule, Seen, last.at, last.since)

\* A poll is under way: the one before it had read the table when it began.
UnderWay ==
    /\ active
    /\ runAt \in Nat /\ runAt <= now
    /\ polls > 0 => last.at <= runAt

\* A row that can be the newest sample of a control chart.
Eligible(d, r) ==
    LET range == d.baseline.timeRange
    IN  /\ r.value # None
        /\ range # None => Seconds(range.start) <= r.ts /\ r.ts <= Seconds(range.end)

\* The alerts of a control chart so far: each is about a row of the table that
\* the poll saw, no poll begins before an earlier one has seen its rows, and
\* alerts are repeated only as NewestSampleAlertsTwiceAtMost says.
AlertRecord == [ts : Int, run : Int]
ChartAlerts ==
    /\ alerted \in Seq(AlertRecord)
    /\ \A i \in 1..Len(alerted) :
          /\ alerted[i].ts <= last.at /\ alerted[i].run <= lastRun
          /\ \E r \in ToSet(rows) : Eligible(rule.detector, r) /\ r.ts = alerted[i].ts
    /\ \A i, j \in 1..Len(alerted) : i < j =>
          /\ alerted[i].ts <= alerted[j].run
          /\ \/ alerted[i].ts < alerted[j].ts
             \/ j = i + 1 /\ alerted[i].ts = alerted[j].ts /\ alerted[i].run < alerted[i].ts

\* The inductive invariant: the rule is what its submission was stored as, the
\* table keeps its rows, and what is remembered of the last poll is an answer
\* to a table that the present one begins with.
Inv ==
    /\ sub \in Submissions /\ rule = Stored(sub)
    /\ rows \in Seq(Sample) /\ now \in Nat /\ polls \in Nat
    /\ InOrder(rows) /\ Past(rows, now)
    /\ active => rule # None /\ (NeedsRow(rule) => rows # <<>>)
    /\ IF polls = 0 THEN lastRun = None /\ last = NoPoll /\ alerted = <<>> ELSE Polled
    /\ runAt # None => UnderWay
    /\ (polls > 0 /\ rule.detector.type \in {"shewhart", "range_chart"}) => ChartAlerts

-----------------------------------------------------------------------------
\* What the detectors answer, apart from invalidConfig and failed, is no
\* refusal.
LEMMA Results ==
  /\ \A reasons : Result(reasons).status \notin Refusals
  /\ insufficientData.status \notin Refusals
  /\ noResult.status \notin Refusals
  BY DEF Result, insufficientData, noResult, Refusals

\* An answer has the status of the result it is about.
LEMMA Answers ==
  ASSUME NEW result, NEW samples, result.status \notin Refusals
  PROVE  \A a \in About(result, samples) : a.status \notin Refusals
  BY DEF About

LEMMA NothingAnswers == \A a \in Nothing : a.status \notin Refusals
  BY Results, Answers DEF Nothing

\* A condition is answered whatever it says of the value.
LEMMA ConditionAnswers == \A cond, value : EvaluateCondition(cond, value).status \notin Refusals
  BY Results DEF EvaluateCondition

\* evaluateThreshold fails on an empty table only, and an aggregate never.
LEMMA ThresholdAnswers ==
  ASSUME NEW spec, NEW d, NEW table, NEW t, Aggregating(spec) \/ table # <<>>
  PROVE  \A a \in evaluateThreshold(spec, d, table, t) : a.status \notin Refusals
  <1>1. CASE Aggregating(spec)
    <2> DEFINE agg == queryAggregate(spec, table, t)
               result == IF agg = None THEN EvaluateCondition(d, None)
                                ELSE EvaluateCondition(Times(d, agg.den), agg.num)
    <2>1. result.status \notin Refusals
      BY ConditionAnswers
    <2>2. evaluateThreshold(spec, d, table, t) = About(result, <<[ts |-> t]>>)
      BY <1>1 DEF evaluateThreshold
    <2> HIDE DEF result
    <2> QED BY <2>1, <2>2, Answers
  <1>2. CASE ~Aggregating(spec)
    <2>1. evaluateThreshold(spec, d, table, t)
              = About(EvaluateCondition(d, Last(table).value), <<Last(table)>>)
      BY <1>2 DEF evaluateThreshold
    <2> QED BY <2>1, ConditionAnswers, Answers
  <1> QED BY <1>1, <1>2

\* A gap in the data is found or not.
LEMMA MissingAnswers ==
  ASSUME NEW d, NEW table, NEW t
  PROVE  \A a \in evaluateMissingData(d, table, t) : a.status \notin Refusals
  <1>1. \A ts, gap : EvaluateMissingData(ts, gap, t).status \notin Refusals
    BY Results DEF EvaluateMissingData
  <1> QED BY <1>1, Answers DEF evaluateMissingData

\* The robust z-score has an answer for every spread.
LEMMA RobustAnswers ==
  ASSUME NEW d, NEW table, NEW t
  PROVE  \A a \in evaluateRobustZ(d, table, t) : a.status \notin Refusals
  <1>1. \A values, latest, zWarn, zCrit :
            EvaluateRobustZ(values, latest, zWarn, zCrit).status \notin Refusals
    BY Results DEF EvaluateRobustZ
  <1> QED BY <1>1, Answers, NothingAnswers DEF evaluateRobustZ

\* evaluateSpecLimit reports violations only, so that limits which are not
\* there are no answer.
LEMMA LimitAnswers ==
  ASSUME NEW spec, NEW d, NEW table, NEW t, NEW since
  PROVE  \A a \in evaluateSpecLimit(spec, d, table, t, since) : a.status \notin Refusals
  <1>1. \A value : EvaluateSpecLimit(value, d).status \notin Refusals
                      \/ EvaluateSpecLimit(value, d).reasons = {}
    BY Results DEF EvaluateSpecLimit, invalidConfig
  <1>2. \A s, samples : \A a \in About(EvaluateSpecLimit(s.value, d), samples) :
            a.reasons # {} => a.status \notin Refusals
    BY <1>1 DEF About
  <1> QED BY <1>2, NothingAnswers DEF evaluateSpecLimit

\* A trend is judged, or there are not enough samples.
LEMMA TrendAnswers ==
  ASSUME NEW spec, NEW d, NEW table, NEW t, NEW since
  PROVE  \A a \in evaluateTrend(spec, d, table, t, since) : a.status \notin Refusals
  <1>1. \A samples : EvaluateTrend6(samples, d).status \notin Refusals
    BY Results DEF EvaluateTrend6
  <1> QED BY <1>1, Results, Answers DEF evaluateTrend

\* A baseline that the validator accepts, and whose range is one of times and in
\* order, says where its samples are.
LEMMA WindowFound ==
  ASSUME NEW d, NEW t \in Int, IsBaseline(d.baseline), validateBaseline(d.baseline),
         d.type \in {"shewhart", "range_chart"}, ~BadRange(d)
  PROVE  buildBaselineWindow(t, d.baseline, MaxSampleRows) # None
  <1> USE EvaluationAssumption
  <1> DEFINE b == d.baseline
             range == b.timeRange
             lastN == baselineLastN(b)
  <1>1. CASE range # None
    <2>1. range.start \in Int /\ range.end \in Int /\ range.start <= range.end
      <3>1. {range.start, range.end} \subseteq Int \cup {None, Garbled}
        BY <1>1 DEF IsBaseline, IsRange
      <3>2. range.start # None /\ range.end # None
        BY <1>1 DEF validateBaseline
      <3>3. Garbled \notin {range.start, range.end} /\ ~(range.end < range.start)
        BY <1>1 DEF BadRange
      <3>4. range.start \in Int /\ range.end \in Int
        BY <3>1, <3>2, <3>3
      <3> QED BY <3>3, <3>4
    <2> DEFINE w == [since |-> Seconds(range.start), limit |-> MaxSampleRows,
                     start |-> Seconds(range.start), end |-> Seconds(range.end)]
    <2>2. w \in BaselineWindow
      BY <2>1 DEF BaselineWindow, Seconds
    <2>3. parseTimeRange(range) /\ range # None
      BY <1>1, <2>1 DEF parseTimeRange
    <2>4. buildBaselineWindow(t, d.baseline, MaxSampleRows) = w
      BY <2>3 DEF buildBaselineWindow
    <2> QED BY <2>2, <2>4
  <1>2. CASE range = None
    <2>1. lastN \in Int /\ lastN > 0
      BY <1>2 DEF IsBaseline, validateBaseline, baselineLastN, Given
    <2> DEFINE w == [since |-> t - Year, start |-> None, end |-> None,
                     limit |-> clampLimit(lastN, MaxSampleRows)]
    <2>2. clampLimit(lastN, MaxSampleRows) \in Int
      BY <2>1 DEF clampLimit
    <2>3. w \in BaselineWindow
      BY <2>2 DEF BaselineWindow
    <2>4. buildBaselineWindow(t, d.baseline, MaxSampleRows) = w
      BY <1>2, <2>1 DEF buildBaselineWindow
    <2> QED BY <2>3, <2>4
  <1> QED BY <1>1, <1>2

\* A control chart judges its newest sample, or has not enough of them.
LEMMA ShewhartAnswers ==
  ASSUME NEW d, NEW table, NEW t, NEW since,
         buildBaselineWindow(t, d.baseline, MaxSampleRows) # None
  PROVE  \A a \in evaluateShewhart(d, table, t, since) : a.status \notin Refusals
  <1>1. \A samples, k : EvaluateShewhart(samples, d, k).status \notin Refusals
    BY Results DEF EvaluateShewhart
  <1> DEFINE samples == baselineSamples(d, table, t)
  <1>2. evaluateShewhart(d, table, t, since) =
            IF Unchanged(samples, since) THEN Nothing
            ELSE About(EvaluateShewhart(samples, d, sigmas(d)), samples)
    BY DEF evaluateShewhart
  <1> QED BY <1>1, <1>2, Answers, NothingAnswers

\* So does a range chart, for the sizes that have constants.
LEMMA RangeAnswers ==
  ASSUME NEW d, NEW table, NEW t, NEW since,
         buildBaselineWindow(t, d.baseline, MaxSampleRows) # None,
         isSupportedRangeChartSize(d.subgroupSize)
  PROVE  \A a \in evaluateRangeChart(d, table, t, since) : a.status \notin Refusals
  <1>1. d.subgroupSize \in DOMAIN rangeChartConstants
    BY DEF rangeChartConstants, isSupportedRangeChartSize
  <1>2. \A groups : EvaluateRangeChart(groups, d).status \notin Refusals
    BY <1>1, Results DEF EvaluateRangeChart
  <1> DEFINE samples == baselineSamples(d, table, t)
  <1>3. evaluateRangeChart(d, table, t, since) =
            IF Unchanged(samples, since) THEN Nothing
            ELSE About(EvaluateRangeChart(subgroups(d, samples), d), samples)
    BY DEF evaluateRangeChart
  <1> QED BY <1>2, <1>3, Answers, NothingAnswers

\* No detector refuses a rule that the validator has accepted, on any table.
LEMMA VettedAnswers ==
  ASSUME NEW spec, NEW table, NEW t \in Int, NEW since,
         ValidateRuleSpec(spec), IsDetector(spec.detector),
         spec.detector.type # "tpa", ~BadRange(spec.detector),
         NeedsRow(spec) => table # <<>>
  PROVE  \A a \in evaluateParameterSince(spec, table, t, since) : a.status \notin Refusals
  <1> DEFINE d == spec.detector
             Answered(answers) == \A a \in answers : a.status \notin Refusals
  <1>0. validateDetector(d, spec.poll)
    BY DEF ValidateRuleSpec
  <1>1. CASE d.type = "threshold"
    <2>1. Answered(evaluateThreshold(spec, d, table, t))
      BY <1>1, ThresholdAnswers DEF NeedsRow
    <2> QED BY <1>1, <2>1 DEF evaluateParameterSince
  <1>2. CASE d.type = "missing_data"
    <2>1. Answered(evaluateMissingData(d, table, t))
      BY MissingAnswers
    <2> QED BY <1>2, <2>1 DEF evaluateParameterSince
  <1>3. CASE d.type = "robust_zscore"
    <2>1. Answered(evaluateRobustZ(d, table, t))
      BY RobustAnswers
    <2> QED BY <1>3, <2>1 DEF evaluateParameterSince
  <1>4. CASE d.type = "spec_limit"
    <2>1. Answered(evaluateSpecLimit(spec, d, table, t, since))
      BY LimitAnswers
    <2> QED BY <1>4, <2>1 DEF evaluateParameterSince
  <1>5. CASE d.type = "shewhart"
    <2>1. validateBaseline(d.baseline)
      BY <1>0, <1>5 DEF validateDetector
    <2>2. buildBaselineWindow(t, d.baseline, MaxSampleRows) # None
      BY <1>5, <2>1, WindowFound DEF IsDetector
    <2>3. Answered(evaluateShewhart(d, table, t, since))
      BY <2>2, ShewhartAnswers
    <2> QED BY <1>5, <2>3 DEF evaluateParameterSince
  <1>6. CASE d.type = "range_chart"
    <2>1. validateBaseline(d.baseline) /\ isSupportedRangeChartSize(d.subgroupSize)
      BY <1>0, <1>6 DEF validateDetector
    <2>2. buildBaselineWindow(t, d.baseline, MaxSampleRows) # None
      BY <1>6, <2>1, WindowFound DEF IsDetector
    <2>3. Answered(evaluateRangeChart(d, table, t, since))
      BY <2>1, <2>2, RangeAnswers
    <2> QED BY <1>6, <2>3 DEF evaluateParameterSince
  <1>7. CASE d.type = "trend"
    <2>1. Answered(evaluateTrend(spec, d, table, t, since))
      BY TrendAnswers
    <2> QED BY <1>7, <2>1 DEF evaluateParameterSince
  <1>8. d.type \in {"threshold", "missing_data", "robust_zscore", "spec_limit", "shewhart",
                    "range_chart", "trend"}
    BY <1>0 DEF validateDetector
  <1> QED BY <1>1, <1>2, <1>3, <1>4, <1>5, <1>6, <1>7, <1>8

-----------------------------------------------------------------------------
LEMMA RuleDetector ==
  \A detector, poll : /\ Rule(detector, poll).detector = detector /\ Rule(detector, poll).poll = poll
                      /\ Rule(detector, poll).agg = "" /\ Rule(detector, poll).window = None
  BY DEF Rule

\* A setting of the user interface that must be positive to count.
LEMMA PositiveSetting ==
  ASSUME NEW cfg, NEW name, Setting(cfg, name, 0) \in Int, NEW d \in Nat \ {0}
  PROVE  Positive(cfg, name, d) \in Nat \ {0}
  <1>1. CASE name \in DOMAIN cfg
    <2>1. Setting(cfg, name, 0) = cfg[name]
      BY <1>1 DEF Setting
    <2> QED BY <2>1 DEF Positive
  <1>2. CASE name \notin DOMAIN cfg
    BY <1>2 DEF Setting, Positive
  <1> QED BY <1>1, <1>2

\* The detectors that settings are turned into.
LEMMA BuiltDetector ==
  ASSUME NEW ruleType, NEW cfg, IsSettings(cfg), buildDetector(ruleType, cfg) # None
  PROVE  LET d == buildDetector(ruleType, cfg)
         IN  /\ IsDetector(d)
             /\ d.type \in {"trend", "shewhart", "range_chart", "spec_limit", "tpa"}
             /\ d.type = "shewhart" => d.minBaselineN > 0
             /\ d.type = "range_chart" => d.minBaselineSubgroups > 0
             /\ d.type = "trend" => d.windowSize > 0
  <1> DEFINE d == buildDetector(ruleType, cfg)
             sg == Setting(cfg, "subgrouping", <<>>)
  <1>0. /\ \A name \in NumberSettings : Setting(cfg, name, 0) \in Int
        /\ Setting(sg, "subgroupSize", 0) \in Int
        /\ IsBaseline(buildBaselineSpec(cfg))
    BY DEF IsSettings
  <1>1. CASE ruleType = "TREND_6_POINTS"
    <2>1. d = buildTrend(cfg)
      BY <1>1 DEF buildDetector, ShewhartTypes
    <2>2. /\ Positive(cfg, "windowSize", defaultTrendWindowSize) \in Nat \ {0}
          /\ Setting(cfg, "epsilon", 0) \in Int
      BY <1>0, DefaultAssumption, PositiveSetting DEF NumberSettings
    <2>3. d.type = "trend" /\ d.windowSize \in Nat \ {0} /\ d.epsilon \in Int
      BY <2>1, <2>2 DEF buildTrend
    <2> QED BY <2>3 DEF IsDetector
  <1>2. CASE ruleType \in ShewhartTypes
    <2>1. d = buildShewhart(ruleType, cfg)
      BY <1>2 DEF buildDetector, ShewhartTypes
    <2> DEFINE k == SigmaUnit * typeSigma(ruleType)
    <2>4. k \in Nat \ {0}
      <3>1. SigmaUnit \in Nat \ {0}
        BY EvaluationAssumption
      <3>2. CASE ruleType = "SHEWHART_2SIGMA"
        BY <3>1, <3>2 DEF typeSigma
      <3>3. CASE ruleType # "SHEWHART_2SIGMA"
        BY <3>1, <3>3 DEF typeSigma
      <3> QED BY <3>2, <3>3
    <2> HIDE DEF k
    <2>2. /\ Positive(cfg, "sigmaMultiplier", k) \in Nat \ {0}
          /\ Positive(cfg, "minBaselineN", defaultBaselineMinN) \in Nat \ {0}
      BY <1>0, <2>4, DefaultAssumption, PositiveSetting DEF NumberSettings
    <2>3. /\ d.type = "shewhart" /\ d.sigmaMultiplier \in Int /\ d.minBaselineN \in Nat \ {0}
          /\ d.baseline = buildBaselineSpec(cfg)
      BY <2>1, <2>2 DEF buildShewhart, k
    <2> QED BY <1>0, <2>3 DEF IsDetector
  <1>3. CASE ruleType = "RANGE_CHART_R"
    <2>1. d = buildRangeChart(cfg)
      BY <1>3 DEF buildDetector, ShewhartTypes
    <2>2. /\ Positive(cfg, "subgroupSize", defaultSubgroupSize) \in Nat \ {0}
          /\ Positive(cfg, "minBaselineSubgroups", defaultBaselineSubgroups) \in Nat \ {0}
      BY <1>0, DefaultAssumption, PositiveSetting DEF NumberSettings
    <2> DEFINE size == Positive(sg, "subgroupSize", Positive(cfg, "subgroupSize", defaultSubgroupSize))
               least == Positive(cfg, "minBaselineSubgroups", defaultBaselineSubgroups)
    <2>3. size \in Int /\ least \in Nat \ {0}
      BY <1>0, <2>2, PositiveSetting
    <2>5. /\ d.type = "range_chart" /\ d.subgroupSize = size
          /\ d.minBaselineSubgroups = least /\ d.baseline = buildBaselineSpec(cfg)
      <3> DEFINE baseline == buildBaselineSpec(cfg)
                 made == [type |-> "range_chart", subgroupSize |-> size,
                          mode |-> Setting(sg, "kind", "consecutive"),
                          column |-> Setting(sg, "column", ""),
                          minBaselineSubgroups |-> least, baseline |-> baseline]
      <3>1. buildRangeChart(cfg) = made
        BY Zenon DEF buildRangeChart
      <3> HIDE DEF size, least, baseline
      <3>2. /\ made.type = "range_chart" /\ made.subgroupSize = size
            /\ made.minBaselineSubgroups = least /\ made.baseline = baseline
        OBVIOUS
      <3> HIDE DEF made
      <3> QED BY <2>1, <3>1, <3>2, Zenon DEF baseline
    <2> HIDE DEF size, least, d
    <2>4. /\ d.type = "range_chart" /\ d.subgroupSize \in Int /\ d.minBaselineSubgroups \in Nat \ {0}
          /\ d.baseline = buildBaselineSpec(cfg)
      BY <2>3, <2>5
    <2> USE DEF d
    <2> QED BY <1>0, <2>4 DEF IsDetector
  <1>4. CASE ruleType = "SPEC_LIMIT_VIOLATION"
    <2>1. d.type = "spec_limit"
      BY <1>4 DEF buildDetector, buildSpecLimit, ShewhartTypes
    <2> QED BY <2>1 DEF IsDetector
  <1>5. CASE ruleType = "TPA"
    <2>1. d = buildTPA(cfg)
      BY <1>5 DEF buildDetector, ShewhartTypes
    <2>2. Positive(cfg, "windowN", defaultWindowN) \in Nat \ {0}
      BY <1>0, DefaultAssumption, PositiveSetting DEF NumberSettings
    <2>3. d.type = "tpa" /\ d.windowN \in Int
      BY <2>1, <2>2 DEF buildTPA
    <2> QED BY <2>3 DEF IsDetector
  <1> QED BY <1>1, <1>2, <1>3, <1>4, <1>5 DEF buildDetector

\* What a submission other than one of the user interface is stored as has
\* been validated, and its detector is one that JSON can carry.
LEMMA StoredIsValid ==
  ASSUME NEW s \in Submissions, s.via \in {"json", "prompt"}, Stored(s) # None
  PROVE  /\ ValidateRuleSpec(Stored(s)) /\ IsDetector(Stored(s).detector)
         /\ Stored(s).window \in Int \cup {None}
  <1>1. CASE s.via = "json"
    <2>1. Stored(s) = IF ValidateRuleSpec(s.spec) THEN s.spec ELSE None
      BY <1>1 DEF Stored
    <2> QED BY <1>1, <2>1, SubmissionAssumption
  <1>2. CASE s.via = "prompt"
    <2> DEFINE parsed == ParsePromptWithDraft(s.prompt, s.draft)
               poll == Positive(s.prompt, "every", promptPollSeconds)
               own == s.draft.parameter # None /\ s.draft.parameter.type # ""
               det == IF own THEN s.draft.parameter ELSE promptDetector(s.prompt, poll)
    <2>1. Stored(s) = IF parsed # None /\ ValidateRuleSpec(parsed) THEN parsed ELSE None
      BY <1>2 DEF Stored
    <2>2. parsed # None /\ Stored(s) = parsed /\ ValidateRuleSpec(parsed)
      BY <2>1
    <2>3. parsed = Rule(det, poll)
      BY <2>2 DEF ParsePromptWithDraft
    <2>4. Stored(s).detector = det /\ Stored(s).window = None
      <3> HIDE DEF det, poll
      <3>1. Rule(det, poll).detector = det /\ Rule(det, poll).window = None
        BY RuleDetector
      <3>2. Stored(s) = Rule(det, poll)
        BY <2>2, <2>3
      <3> QED BY <3>1, <3>2, Zenon
    <2>5. CASE own
      BY <1>2, <2>2, <2>4, <2>5, SubmissionAssumption
    <2>6. CASE ~own
      <3>1. detectorType(s.prompt) # ""
        BY <2>2 DEF ParsePromptWithDraft
      <3>2. /\ promptDetector(s.prompt, poll).type
                  \notin {"shewhart", "range_chart", "trend", "tpa"}
            /\ promptDetector(s.prompt, poll).type = "threshold" =>
                  promptDetector(s.prompt, poll) = s.prompt.threshold /\ s.prompt.threshold # None
        BY <1>2, <3>1, SubmissionAssumption DEF promptDetector, detectorType, IsPrompt
      <3>3. (s.prompt.threshold # None /\ s.prompt.threshold.op # "between") =>
                s.prompt.threshold.value \in Int
        <4>1. IsPrompt(s.prompt)
          BY <1>2, SubmissionAssumption
        <4> QED BY <4>1, Zenon DEF IsPrompt
      <3> QED BY <2>2, <2>4, <2>6, <3>2, <3>3 DEF IsDetector
    <2> QED BY <2>5, <2>6
  <1> QED BY <1>1, <1>2

\* Every stored rule has a detector of a known type, with enough samples asked
\* for, and an aggregate has a window as long as the poll interval.
LEMMA StoredIsSound ==
  ASSUME NEW s \in Submissions, Stored(s) # None
  PROVE  LET r == Stored(s)
             d == r.detector
         IN  /\ IsDetector(d) /\ d.type \in DetectorTypes
             /\ r.poll \in Int
             /\ d.type = "shewhart" => d.minBaselineN >= 0
             /\ d.type = "trend" => d.windowSize > 0
             /\ Aggregating(r) => r.window \in Int /\ r.window >= r.poll
  <1> DEFINE r == Stored(s)
             d == r.detector
  <1>1. CASE s.via = "stepper"
    <2>1. IsSettings(s.cfg)
      BY <1>1, SubmissionAssumption
    <2>2. r = BuildRuleSpecFromStepper(s.ruleType, s.cfg)
      BY <1>1 DEF Stored
    <2> DEFINE det == buildDetector(s.ruleType, s.cfg)
               poll == Positive(s.cfg, "pollIntervalSeconds", defaultStepperPollIntervalSeconds)
    <2>3. det # None /\ r = Rule(det, poll)
      BY <2>2 DEF BuildRuleSpecFromStepper
    <2>4. poll \in Nat \ {0}
      BY <2>1, DefaultAssumption, PositiveSetting DEF IsSettings, NumberSettings
    <2> HIDE DEF poll
    <2>5. d = det /\ r.poll = poll /\ r.agg = ""
      <3> HIDE DEF det
      <3>1. /\ Rule(det, poll).detector = det /\ Rule(det, poll).poll = poll
            /\ Rule(det, poll).agg = ""
        BY RuleDetector
      <3> QED BY <2>3, <3>1, Zenon
    <2>6. /\ IsDetector(det)
          /\ det.type \in {"trend", "shewhart", "range_chart", "spec_limit", "tpa"}
          /\ det.type = "shewhart" => det.minBaselineN > 0 /\ det.minBaselineN \in Int
          /\ det.type = "trend" => det.windowSize > 0
      BY <2>1, <2>3, BuiltDetector DEF IsDetector
    <2> HIDE DEF det, r
    <2>9. poll \in Int
      BY <2>4
    <2>7. ~Aggregating(r) /\ r.poll \in Int
      BY <2>9, <2>5, Zenon DEF Aggregating
    <2>8. d.type \in DetectorTypes
      BY <2>5, <2>6 DEF DetectorTypes
    <2>10. /\ IsDetector(d)
           /\ d.type = "shewhart" => d.minBaselineN >= 0
           /\ d.type = "trend" => d.windowSize > 0
      <3>1. det.type = "shewhart" => det.minBaselineN >= 0
        BY <2>6
      <3> QED BY <2>5, <2>6, <3>1, Zenon
    <2> QED BY <2>7, <2>8, <2>10, Zenon DEF r
  <1>2. CASE s.via \in {"json", "prompt"}
    <2>1. ValidateRuleSpec(r) /\ IsDetector(d) /\ r.window \in Int \cup {None}
      BY <1>2, StoredIsValid
    <2> HIDE DEF r
    <2>2. r.poll \in Int
      BY <2>1, ParserAssumption DEF ValidateRuleSpec
    <2>3. Aggregating(r) => r.window \in Int /\ r.window >= r.poll
      BY <2>1 DEF ValidateRuleSpec, WindowCoversPoll, Aggregating
    <2>4. validateDetector(d, r.poll)
      BY <2>1 DEF ValidateRuleSpec
    <2>5. d.type \in DetectorTypes
      BY <2>4 DEF validateDetector, DetectorTypes
    <2>6. d.type = "shewhart" => d.minBaselineN >= 0
      BY <2>4 DEF validateDetector
    <2>7. d.type = "trend" => d.windowSize >= 2 /\ d.windowSize \in Int
      BY <2>1, <2>4 DEF validateDetector, IsDetector
    <2> QED BY <2>1, <2>2, <2>3, <2>5, <2>6, <2>7 DEF r
  <1> QED BY <1>1, <1>2, SubmissionAssumption

-----------------------------------------------------------------------------
\* What a detector may say, and what an answer of a poll at time t may be.
Said(result) ==
    /\ result.status \in Statuses
    /\ result.status = "VIOLATION" <=> result.reasons # {}

Answer(a, t) ==
    /\ a.status \in Statuses
    /\ a.status = "VIOLATION" <=> a.reasons # {}
    /\ a.ts = None \/ (a.ts \in Int /\ a.ts <= t)

\* Every result is made by one of five operators.
LEMMA ResultsSaid ==
  /\ \A reasons : Said(Result(reasons))
  /\ Said(insufficientData) /\ Said(invalidConfig) /\ Said(noResult) /\ Said(failed)
  BY DEF Said, Result, insufficientData, invalidConfig, noResult, failed, Statuses

LEMMA DetectorsSaid ==
  /\ \A cond, value : Said(EvaluateCondition(cond, value))
  /\ \A ts, gap, t : Said(EvaluateMissingData(ts, gap, t))
  /\ \A values, latest, zWarn, zCrit : Said(EvaluateRobustZ(values, latest, zWarn, zCrit))
  /\ \A value, d : Said(EvaluateSpecLimit(value, d))
  /\ \A samples, d, k : Said(EvaluateShewhart(samples, d, k))
  /\ \A groups, d : Said(EvaluateRangeChart(groups, d))
  /\ \A samples, d : Said(EvaluateTrend6(samples, d))
  /\ \A samples, d : Said(EvaluateTPA(samples, d))
  <1>1. \A cond, value : Said(EvaluateCondition(cond, value))
    BY ResultsSaid DEF EvaluateCondition
  <1>2. \A ts, gap, t : Said(EvaluateMissingData(ts, gap, t))
    BY ResultsSaid DEF EvaluateMissingData
  <1>3. \A values, latest, zWarn, zCrit : Said(EvaluateRobustZ(values, latest, zWarn, zCrit))
    BY ResultsSaid DEF EvaluateRobustZ
  <1>4. \A value, d : Said(EvaluateSpecLimit(value, d))
    BY ResultsSaid DEF EvaluateSpecLimit
  <1>5. \A samples, d, k : Said(EvaluateShewhart(samples, d, k))
    BY ResultsSaid DEF EvaluateShewhart
  <1>6. \A groups, d : Said(EvaluateRangeChart(groups, d))
    BY ResultsSaid DEF EvaluateRangeChart
  <1>7. \A samples, d : Said(EvaluateTrend6(samples, d))
    BY ResultsSaid DEF EvaluateTrend6
  <1>8. \A samples, d : Said(EvaluateTPA(samples, d))
    <2> TAKE samples, spec
    <2> DEFINE window == SubSeq(samples, Len(samples) - spec.windowN + 1, Len(samples))
               xs == [i \in DOMAIN window |->
                        IF spec.basis \in {"", "timestamp"}
                        THEN Unix(window[i].ts) - Unix(window[1].ts)
                        ELSE i - 1]
               slope == LinearRegression(xs, extractValues(window))
               steep == spec.slope # None /\ AbsVal(slope.num) >= spec.slope * slope.den
               near == /\ spec.time # None /\ spec.limits # None
                       /\ reachesSpec(slope, Last(window).value, spec.limits, spec.time)
               flat == AbsVal(slope.num) <= spec.epsilon * slope.den
               found == Result({r \in {"slope_threshold"} : steep}
                                  \cup {r \in {"time_to_spec"} : near})
               judged == IF spec.time # None /\ spec.requireSpecLimits /\ spec.limits = None
                         THEN invalidConfig ELSE found
               fitted == CASE slope.den = 0 -> invalidConfig
                           [] slope.den # 0 /\ flat -> Result({})
                           [] OTHER -> judged
    <2>1. EvaluateTPA(samples, spec) =
              CASE spec.windowN < 3 -> invalidConfig
                [] spec.windowN >= 3 /\ Len(samples) < spec.windowN -> insufficientData
                [] OTHER -> fitted
      BY Zenon DEF EvaluateTPA
    <2>2. Said(judged)
      BY ResultsSaid, Zenon
    <2> HIDE DEF judged, slope, flat
    <2>3. Said(fitted)
      BY ResultsSaid, <2>2, Zenon
    <2> HIDE DEF fitted
    <2> QED BY ResultsSaid, <2>1, <2>3, Zenon
  <1> QED BY <1>1, <1>2, <1>3, <1>4, <1>5, <1>6, <1>7, <1>8

\* An answer about samples of a table is about a time of the table.
LEMMA AboutAnswers ==
  ASSUME NEW t \in Int, NEW table \in Seq(Sample), Past(table, t)
  PROVE  /\ \A result, samples :
               (Said(result) /\ samples \in Seq(Sample) /\ ToSet(samples) \subseteq ToSet(table))
                  => \A a \in About(result, samples) : Answer(a, t)
         /\ \A result, s : (Said(result) /\ s \in ToSet(table)) =>
                  \A a \in About(result, <<s>>) : Answer(a, t)
         /\ \A result : Said(result) => \A a \in About(result, <<[ts |-> t]>>) : Answer(a, t)
         /\ \A result : Said(result) => \A a \in About(result, <<>>) : Answer(a, t)
         /\ \A a \in Nothing : Answer(a, t)
  <1>1. ASSUME NEW result, NEW samples, Said(result),
               samples = <<>> \/ (Last(samples).ts \in Int /\ Last(samples).ts <= t)
        PROVE  \A a \in About(result, samples) : Answer(a, t)
    <2> DEFINE ts == IF samples = <<>> THEN None ELSE Last(samples).ts
    <2>1. ts = None \/ (ts \in Int /\ ts <= t)
      BY <1>1
    <2> HIDE DEF ts
    <2>2. \A a \in {[status |-> result.status, reasons |-> result.reasons, ts |-> ts]} :
              Answer(a, t)
      BY <1>1, <2>1 DEF Answer, Said
    <2> QED BY <2>2, Zenon DEF About, ts
  <1>2. \A s \in ToSet(table) : s.ts \in Int /\ s.ts <= t
    <2>1. ToSet(table) \subseteq Sample
      BY ToSetAppend, Zenon
    <2>2. \A s \in Sample : s.ts \in Int
      BY DEF Sample
    <2> QED BY <2>1, <2>2 DEF Past
  <1>3. ASSUME NEW result, NEW samples, Said(result), samples \in Seq(Sample),
               ToSet(samples) \subseteq ToSet(table)
        PROVE  \A a \in About(result, samples) : Answer(a, t)
    BY <1>1, <1>2, <1>3, LastEntry
  <1>4. \A s : <<s>> # <<>> /\ Last(<<s>>) = s
    BY DEF Last
  <1>5. ASSUME NEW result, NEW s \in ToSet(table), Said(result)
        PROVE  \A a \in About(result, <<s>>) : Answer(a, t)
    BY <1>1, <1>2, <1>4, <1>5
  <1>6. ASSUME NEW result, Said(result)
        PROVE  \A a \in About(result, <<[ts |-> t]>>) : Answer(a, t)
    <2> DEFINE r == [ts |-> t]
    <2>1. r.ts \in Int /\ r.ts <= t
      OBVIOUS
    <2> HIDE DEF r
    <2>2. \A a \in About(result, <<r>>) : Answer(a, t)
      BY <1>1, <1>4, <1>6, <2>1
    <2> QED BY <2>2 DEF r
  <1>7. ASSUME NEW result, Said(result)
        PROVE  \A a \in About(result, <<>>) : Answer(a, t)
    BY <1>1, <1>7
  <1>8. \A a \in Nothing : Answer(a, t)
    BY <1>7, ResultsSaid DEF Nothing
  <1> QED BY <1>3, <1>5, <1>6, <1>7, <1>8
\* Where the samples of a baseline are looked for, unless it is refused.
LEMMA WindowLimit ==
  ASSUME NEW b, NEW t \in Int, IsBaseline(b),
         buildBaselineWindow(t, b, MaxSampleRows) # None
  PROVE  LET w == buildBaselineWindow(t, b, MaxSampleRows)
         IN  /\ w.limit \in Int /\ w.since \in Int
             /\ b.timeRange = None => w.start = None /\ w.end = None
             /\ b.timeRange # None =>
                   /\ w.start = Seconds(b.timeRange.start) /\ w.start \in Int
                   /\ w.end = Seconds(b.timeRange.end) /\ w.end \in Int
  <1> USE EvaluationAssumption
  <1> DEFINE w == buildBaselineWindow(t, b, MaxSampleRows)
             range == b.timeRange
             lastN == baselineLastN(b)
             limit == clampLimit(lastN, MaxSampleRows)
  <1>1. CASE range # None
    <2>1. parseTimeRange(range)
      BY <1>1 DEF buildBaselineWindow
    <2>2. w = [since |-> Seconds(range.start), limit |-> MaxSampleRows,
               start |-> Seconds(range.start), end |-> Seconds(range.end)]
      BY <1>1, <2>1 DEF buildBaselineWindow
    <2>3. range.start \in Int /\ range.end \in Int
      BY <1>1, <2>1 DEF IsBaseline, IsRange, parseTimeRange
    <2> DEFINE start == Seconds(range.start)
               end == Seconds(range.end)
    <2>4. start \in Int /\ end \in Int
      BY <2>3 DEF Seconds
    <2> HIDE DEF start, end, w
    <2> QED BY <1>1, <2>2, <2>4 DEF start, end, w
  <1>2. CASE range = None
    <2>1. lastN \in Int
      BY <1>2 DEF IsBaseline, baselineLastN, Given
    <2>2. limit \in Int
      BY <2>1 DEF clampLimit
    <2>3. CASE lastN <= 0
      BY <1>2, <2>3 DEF buildBaselineWindow
    <2>4. CASE ~(lastN <= 0)
      <3>1. w = [since |-> t - Year, start |-> None, end |-> None, limit |-> limit]
        BY <1>2, <2>4 DEF buildBaselineWindow
      <3> HIDE DEF limit, w
      <3>2. w.limit = limit /\ w.since = t - Year /\ w.start = None /\ w.end = None
        BY <3>1
      <3> QED BY <1>2, <2>2, <3>2 DEF w
    <2> QED BY <2>3, <2>4
  <1> QED BY <1>1, <1>2

\* The samples of a baseline are readable rows of the table.
LEMMA BaselineTyped ==
  ASSUME NEW d, NEW table \in Seq(Sample), NEW t \in Int, IsBaseline(d.baseline),
         buildBaselineWindow(t, d.baseline, MaxSampleRows) # None
  PROVE  /\ baselineSamples(d, table, t) \in Seq(Sample)
         /\ ToSet(baselineSamples(d, table, t)) \subseteq ToSet(table)
         /\ \A r \in ToSet(baselineSamples(d, table, t)) : r.value # None
  <1> DEFINE w == buildBaselineWindow(t, d.baseline, MaxSampleRows)
             fetched == fetchSamples(table, w.since, w.limit)
  <1>1. w.limit \in Int
    BY WindowLimit
  <1> HIDE DEF w
  <1>2. /\ fetched \in Seq(Sample) /\ ToSet(fetched) \subseteq ToSet(table)
        /\ \A r \in ToSet(fetched) : r.value # None
    BY <1>1, Fetched
  <1> HIDE DEF fetched
  <1>3. baselineSamples(d, table, t) = filterSamplesByRange(fetched, w.start, w.end)
    BY DEF baselineSamples, fetched, w
  <1> QED BY <1>2, <1>3, Filtered

\* Entries of a table in order are in order.
LEMMA EmbeddedOrder ==
  ASSUME NEW table \in Seq(Sample), InOrder(table), NEW q \in Seq(Sample), Embeds(q, table),
         NEW r \in ToSet(q)
  PROVE  q # <<>> /\ r.ts <= Last(q).ts
  <1> DEFINE m == Len(q)
             n == Len(table)
  <1>1. m \in Nat /\ n \in Nat
    OBVIOUS
  <1>2. PICK i \in 1..m : r = q[i]
    BY ToSetAppend
  <1>3. q # <<>> /\ m \in 1..m
    BY <1>1, <1>2
  <1>4. Last(q) = q[m]
    BY <1>3, LastEntry
  <1>5. PICK f : Embedding(f, q, table)
    BY DEF Embeds
  <1>6. /\ f \in [1..m -> 1..n] /\ (i < m => f[i] < f[m])
        /\ q[i] = table[f[i]] /\ q[m] = table[f[m]]
    BY <1>3, <1>5 DEF Embedding
  <1>7. f[i] \in 1..n /\ f[m] \in 1..n
    BY <1>3, <1>6
  <1>8. q[i].ts \in Int
    <2>1. q[i] \in Sample
      BY <1>1
    <2> QED BY <2>1 DEF Sample
  <1>9. CASE i < m
    <2>1. q[i].ts < q[m].ts
      BY <1>6, <1>7, <1>9 DEF InOrder
    <2>2. q[m] \in Sample
      BY <1>3
    <2>3. q[m].ts \in Int
      BY <2>2 DEF Sample
    <2> QED BY <1>2, <1>3, <1>4, <1>8, <2>1, <2>3
  <1>10. CASE i = m
    BY <1>2, <1>3, <1>4, <1>8, <1>10
  <1> QED BY <1>1, <1>9, <1>10

\* The newest sample of a control chart is the newest row it may judge.
LEMMA ChartNewest ==
  ASSUME NEW d, NEW table \in Seq(Sample), InOrder(table), NEW t \in Int, IsBaseline(d.baseline),
         buildBaselineWindow(t, d.baseline, MaxSampleRows) # None,
         baselineSamples(d, table, t) # <<>>
  PROVE  LET newest == Last(baselineSamples(d, table, t))
         IN  /\ newest \in ToSet(table) /\ Eligible(d, newest)
             /\ \A r \in ToSet(table) : Eligible(d, r) => r.ts <= newest.ts
  <1> USE EvaluationAssumption
  <1> DEFINE w == buildBaselineWindow(t, d.baseline, MaxSampleRows)
             fetched == fetchSamples(table, w.since, w.limit)
             samples == baselineSamples(d, table, t)
             readable == Readable(table)
             In(r) == /\ w.start = None \/ r.ts >= w.start
                      /\ w.end = None \/ r.ts <= w.end
             S == {r \in Sample : In(r)}
             all == Those(readable, S)
  <1>1. /\ w.limit \in Int /\ w.since \in Int
        /\ d.baseline.timeRange = None => w.start = None /\ w.end = None
        /\ d.baseline.timeRange # None =>
              /\ w.start = Seconds(d.baseline.timeRange.start) /\ w.start \in Int
              /\ w.end = Seconds(d.baseline.timeRange.end) /\ w.end \in Int
    BY WindowLimit
  <1>2. samples = filterSamplesByRange(fetched, w.start, w.end)
    BY DEF baselineSamples
  <1> HIDE DEF w, samples
  <1>3. \A r \in Sample : r.ts \in Int
    BY DEF Sample
  <1>4. \A r \in Sample : (r.value # None /\ In(r)) <=> Eligible(d, r)
    <2>1. CASE d.baseline.timeRange = None
      BY <1>1, <2>1 DEF Eligible
    <2>2. CASE d.baseline.timeRange # None
      BY <1>1, <1>3, <2>2 DEF Eligible
    <2> QED BY <2>1, <2>2
  <1> HIDE DEF In
  <1>5. fetched \in Seq(Sample)
    BY <1>1, Fetched
  <1>6. /\ readable \in Seq(Sample) /\ Embeds(readable, table)
        /\ ToSet(readable) = ToSet(table) \cap {r \in ToSet(table) : r.value # None}
    BY ThoseMembers, ThoseEmbed DEF Readable
  <1>7. Ends(fetched, readable)
    BY <1>1, <1>3, FetchedEnd DEF InOrder
  <1> HIDE DEF fetched, readable
  <1>8. samples = Those(fetched, S)
    <2> DEFINE T == {r \in ToSet(fetched) : In(r)}
    <2>1. samples = Those(fetched, T)
      BY <1>2, Zenon DEF filterSamplesByRange, In
    <2>2. \A e \in ToSet(fetched) : e \in T <=> e \in S
      BY <1>5, ToSetAppend
    <2> HIDE DEF T, S
    <2> QED BY <1>5, <2>1, <2>2, ThoseAgree
  <1>9. /\ all \in Seq(Sample) /\ ToSet(all) = ToSet(readable) \cap S /\ Embeds(all, readable)
    BY <1>6, ThoseMembers, ThoseEmbed
  <1>10. samples \in Seq(Sample) /\ Ends(samples, all)
    BY <1>5, <1>6, <1>7, <1>8, ThoseMembers, ThoseEnd
  <1>11. Embeds(all, table)
    BY <1>6, <1>9, EmbedsFurther
  <1>12. all # <<>> /\ Last(samples) = Last(all)
    <2>1. samples # <<>>
      BY DEF samples
    <2>2. Last(samples) = samples[Len(samples)] /\ Len(samples) \in Nat \ {0}
      BY <1>10, <2>1, LastEntry
    <2> HIDE DEF all
    <2>3. Len(all) \in Nat /\ Len(samples) <= Len(all)
      BY <1>9, <1>10 DEF Ends
    <2>4. all # <<>>
      BY <1>9, <2>2, <2>3
    <2>5. Last(all) = all[Len(all)]
      BY <1>9, <2>4, LastEntry
    <2>6. samples[Len(samples)] = all[Len(all) - Len(samples) + Len(samples)]
      BY <1>10, <2>2 DEF Ends
    <2> QED BY <2>2, <2>3, <2>4, <2>5, <2>6
  <1>13. ToSet(table) \subseteq Sample
    BY ToSetAppend
  <1>14. \A r : r \in ToSet(all) <=> r \in ToSet(table) /\ Eligible(d, r)
    BY <1>4, <1>6, <1>9, <1>13
  <1> HIDE DEF all
  <1>15. Last(all) \in ToSet(all)
    BY <1>9, <1>12, LastEntry
  <1>16. \A r \in ToSet(all) : r.ts <= Last(all).ts
    BY <1>9, <1>11, EmbeddedOrder
  <1> QED BY <1>12, <1>14, <1>15, <1>16 DEF samples

\* Whatever a poll answers, it is about a time that has been.
LEMMA PollAnswers ==
  ASSUME NEW spec, NEW table \in Seq(Sample), NEW t \in Int, NEW since,
         Past(table, t), IsDetector(spec.detector), spec.detector.type \in DetectorTypes
  PROVE  \A a \in evaluateParameterSince(spec, table, t, since) : Answer(a, t)
  <1> USE EvaluationAssumption
  <1> DEFINE d == spec.detector
             Good(answers) == \A a \in answers : Answer(a, t)
             of(result, samples) ==
                (Said(result) /\ samples \in Seq(Sample) /\ ToSet(samples) \subseteq ToSet(table))
                   => Good(About(result, samples))
  <1>0. /\ \A result, samples : of(result, samples)
        /\ \A result, s : (Said(result) /\ s \in ToSet(table)) => Good(About(result, <<s>>))
        /\ \A result : Said(result) => Good(About(result, <<[ts |-> t]>>))
        /\ \A result : Said(result) => Good(About(result, <<>>))
        /\ Good(Nothing)
    BY AboutAnswers
  <1> SUFFICES Good(evaluateParameterSince(spec, table, t, since))
    OBVIOUS
  <1> HIDE DEF Good
  <1>1. CASE d.type = "threshold"
    <2> DEFINE agg == queryAggregate(spec, table, t)
               result == IF agg = None THEN EvaluateCondition(d, None)
                                ELSE EvaluateCondition(Times(d, agg.den), agg.num)
    <2>1. Said(result)
      BY DetectorsSaid
    <2>2. CASE Aggregating(spec)
      <3>1. evaluateThreshold(spec, d, table, t) = About(result, <<[ts |-> t]>>)
        BY <2>2 DEF evaluateThreshold
      <3> HIDE DEF result
      <3> QED BY <1>0, <1>1, <2>1, <3>1 DEF evaluateParameterSince
    <2>3. CASE ~Aggregating(spec) /\ table = <<>>
      <3>1. evaluateThreshold(spec, d, table, t) = About(failed, <<>>)
        BY <2>3 DEF evaluateThreshold
      <3> QED BY <1>0, <1>1, <3>1, ResultsSaid DEF evaluateParameterSince
    <2>4. CASE ~Aggregating(spec) /\ table # <<>>
      <3>1. evaluateThreshold(spec, d, table, t)
                = About(EvaluateCondition(d, Last(table).value), <<Last(table)>>)
        BY <2>4 DEF evaluateThreshold
      <3>2. Last(table) \in ToSet(table)
        BY <2>4, LastEntry
      <3> QED BY <1>0, <1>1, <3>1, <3>2, DetectorsSaid DEF evaluateParameterSince
    <2> QED BY <2>2, <2>3, <2>4
  <1>2. CASE d.type = "missing_data"
    <2>1. Good(evaluateMissingData(d, table, t))
      BY <1>0, DetectorsSaid DEF evaluateMissingData
    <2> QED BY <1>2, <2>1 DEF evaluateParameterSince
  <1>3. CASE d.type = "robust_zscore"
    <2> DEFINE fetched == FetchRecentRows(table, t - Seconds(d.baselineWindow), MaxSampleRows)
               samples == Readable(fetched)
    <2>1. fetched \in Seq(Sample) /\ ToSet(fetched) \subseteq ToSet(table)
      BY Fetched
    <2>2. samples \in Seq(Sample) /\ ToSet(samples) \subseteq ToSet(table)
      BY <2>1, ThoseMembers DEF Readable
    <2>3. Good(evaluateRobustZ(d, table, t))
      BY <1>0, <2>2, DetectorsSaid, Zenon DEF evaluateRobustZ
    <2> QED BY <1>3, <2>3 DEF evaluateParameterSince
  <1>4. CASE d.type = "spec_limit"
    <2> DEFINE samples == fetchSamples(table, windowSince(spec, t, since), MaxSampleRows)
               answer(s) == About(EvaluateSpecLimit(s.value, d), <<s>>)
               hits == {a \in UNION {answer(s) : s \in ToSet(samples)} : a.reasons # {}}
    <2>1. ToSet(samples) \subseteq ToSet(table)
      BY Fetched
    <2>2. \A s \in ToSet(samples) : Good(answer(s))
      BY <1>0, <2>1, DetectorsSaid
    <2>3. Good(hits)
      BY <2>2, Zenon DEF Good
    <2>4. Good(evaluateSpecLimit(spec, d, table, t, since))
      BY <1>0, <2>3, Zenon DEF evaluateSpecLimit
    <2> QED BY <1>4, <2>4 DEF evaluateParameterSince
  <1>5. CASE d.type \in {"shewhart", "range_chart"}
    <2> DEFINE samples == baselineSamples(d, table, t)
               refused == buildBaselineWindow(t, d.baseline, MaxSampleRows) = None
               k == sigmas(d)
    <2>1. IsBaseline(d.baseline)
      BY <1>5 DEF IsDetector
    <2>2. ~refused => samples \in Seq(Sample) /\ ToSet(samples) \subseteq ToSet(table)
      BY <2>1, BaselineTyped
    <2> HIDE DEF samples
    <2>3. CASE d.type = "shewhart"
      <3>1. evaluateShewhart(d, table, t, since) =
              CASE refused -> About(failed, <<>>)
                [] OTHER -> IF Unchanged(samples, since) THEN Nothing
                            ELSE About(EvaluateShewhart(samples, d, k), samples)
        BY DEF evaluateShewhart, samples
      <3>2. Good(evaluateShewhart(d, table, t, since))
        BY <1>0, <2>2, <3>1, ResultsSaid, DetectorsSaid, Zenon
      <3> QED BY <2>3, <3>2 DEF evaluateParameterSince
    <2>4. CASE d.type = "range_chart"
      <3>1. evaluateRangeChart(d, table, t, since) =
              CASE refused -> About(failed, <<>>)
                [] OTHER -> IF Unchanged(samples, since) THEN Nothing
                            ELSE About(EvaluateRangeChart(subgroups(d, samples), d), samples)
        BY DEF evaluateRangeChart, samples
      <3>2. Good(evaluateRangeChart(d, table, t, since))
        BY <1>0, <2>2, <3>1, ResultsSaid, DetectorsSaid, Zenon
      <3> QED BY <2>4, <3>2 DEF evaluateParameterSince
    <2> QED BY <1>5, <2>3, <2>4
  <1>6. CASE d.type = "trend"
    <2> DEFINE limit == clampLimit(Default(d.windowSize, defaultTrendWindowSize), MaxSampleRows)
               samples == fetchSamples(table, windowSince(spec, t, since), limit)
    <2>1. limit \in Int
      BY <1>6, DefaultAssumption DEF IsDetector, clampLimit, Default
    <2> HIDE DEF limit
    <2>2. samples \in Seq(Sample) /\ ToSet(samples) \subseteq ToSet(table)
      BY <2>1, Fetched
    <2> HIDE DEF samples
    <2>3. evaluateTrend(spec, d, table, t, since) =
              IF d.consecutive /\ ~hasConsecutiveTimestamps(samples)
              THEN About(insufficientData, samples) ELSE About(EvaluateTrend6(samples, d), samples)
      BY Zenon DEF evaluateTrend, samples, limit
    <2>4. Good(evaluateTrend(spec, d, table, t, since))
      BY <1>0, <2>2, <2>3, ResultsSaid, DetectorsSaid, Zenon
    <2> QED BY <1>6, <2>4 DEF evaluateParameterSince
  <1>7. CASE d.type = "tpa"
    <2> DEFINE limit == clampLimit(Default(d.windowN, 3), MaxSampleRows)
               samples == fetchSamples(table, windowSince(spec, t, since), limit)
    <2>1. limit \in Int
      BY <1>7 DEF IsDetector, clampLimit, Default
    <2> HIDE DEF limit
    <2>2. samples \in Seq(Sample) /\ ToSet(samples) \subseteq ToSet(table)
      BY <2>1, Fetched
    <2> HIDE DEF samples
    <2>3. evaluateTPA(spec, d, table, t, since) = About(EvaluateTPA(samples, d), samples)
      BY DEF evaluateTPA, samples, limit
    <2>4. Good(evaluateTPA(spec, d, table, t, since))
      BY <1>0, <2>2, <2>3, DetectorsSaid
    <2> QED BY <1>7, <2>4 DEF evaluateParameterSince
  <1> QED BY <1>1, <1>2, <1>3, <1>4, <1>5, <1>6, <1>7 DEF DetectorTypes
-----------------------------------------------------------------------------
\* A control chart has nothing to say of no samples.
LEMMA NoSamples ==
  ASSUME NEW d, IsDetector(d)
  PROVE  /\ (d.type = "shewhart" /\ d.minBaselineN >= 0) =>
                \A k : EvaluateShewhart(<<>>, d, k).reasons = {}
         /\ d.type = "range_chart" => EvaluateRangeChart(subgroups(d, <<>>), d).reasons = {}
  <1>1. ASSUME d.type = "shewhart", d.minBaselineN >= 0, NEW k
        PROVE  EvaluateShewhart(<<>>, d, k).reasons = {}
    <2>1. d.minBaselineN \in Int
      BY <1>1 DEF IsDetector
    <2>2. Default(d.minBaselineN, defaultBaselineMinN) \in Nat \ {0}
      BY <1>1, <2>1, DefaultAssumption DEF Default
    <2> DEFINE least == Default(d.minBaselineN, defaultBaselineMinN)
    <2>3. Len(extractValues(<<>>)) = 0
      BY DEF extractValues
    <2>4. 0 < least
      BY <2>2
    <2> HIDE DEF least
    <2>5. EvaluateShewhart(<<>>, d, k) = insufficientData
      BY <2>3, <2>4, Zenon DEF EvaluateShewhart, least
    <2> QED BY <2>5 DEF insufficientData
  <1>2. ASSUME d.type = "range_chart" PROVE EvaluateRangeChart(subgroups(d, <<>>), d).reasons = {}
    <2> DEFINE size == d.subgroupSize
    <2>1. size \in Int
      BY <1>2 DEF IsDetector
    <2>2. groupConsecutive(<<>>, size) = <<>>
      <3>1. size > 0 => Len(<<>>) \div size = 0
        BY <2>1
      <3>2. CASE size <= 0
        BY <3>2 DEF groupConsecutive
      <3>3. CASE ~(size <= 0)
        <4> DEFINE G(g) == SubSeq(<<>>, (g - 1) * size + 1, g * size)
        <4>1. groupConsecutive(<<>>, size) = [g \in 1..0 |-> G(g)]
          BY <2>1, <3>1, <3>3 DEF groupConsecutive
        <4> HIDE DEF G
        <4> QED BY <4>1
      <3> QED BY <3>2, <3>3
    <2>3. groupBySubgroup(<<>>, size) = <<>>
      <3> DEFINE samples == <<>>
                 of(key) == Those(samples, {r \in ToSet(samples) : r.group = key})
                 keys == {r.group : r \in ToSet(samples)} \ {None}
                 large == {key \in keys : Len(of(key)) >= size}
                 nth(g) == CHOOSE key \in large : Cardinality({k \in large : k <= key}) = g
                 G(g) == SubSeq(of(nth(g)), 1, size)
      <3>1. ToSet(samples) = {}
        BY ToSetAppend
      <3>2. large = {}
        BY <3>1
      <3>3. Cardinality(large) = 0
        BY <3>2, FS_EmptySet
      <3>4. groupBySubgroup(samples, size) = [g \in 1..Cardinality(large) |-> G(g)]
        BY Zenon DEF groupBySubgroup
      <3> HIDE DEF G, large
      <3>5. [g \in 1..0 |-> G(g)] = <<>>
        OBVIOUS
      <3> QED BY <3>3, <3>4, <3>5
    <2>4. subgroups(d, <<>>) = <<>>
      BY <2>2, <2>3, Zenon DEF subgroups
    <2>5. EvaluateRangeChart(<<>>, d) = insufficientData
      BY DEF EvaluateRangeChart
    <2> QED BY <2>4, <2>5 DEF insufficientData
  <1> QED BY <1>1, <1>2

\* What a control chart answers, by its type.
ChartResult(d, samples) ==
    IF d.type = "shewhart" THEN EvaluateShewhart(samples, d, sigmas(d))
                           ELSE EvaluateRangeChart(subgroups(d, samples), d)

\* An alert of a control chart is one answer, about the newest of its samples,
\* which is newer than the last run.
LEMMA ChartHit ==
  ASSUME NEW spec, NEW table \in Seq(Sample), NEW t \in Int, NEW since,
         Past(table, t), IsDetector(spec.detector),
         spec.detector.type \in {"shewhart", "range_chart"},
         spec.detector.type = "shewhart" => spec.detector.minBaselineN >= 0,
         since = None \/ since \in Int,
         Hits(evaluateParameterSince(spec, table, t, since)) # {}
  PROVE  LET d == spec.detector
             samples == baselineSamples(d, table, t)
             hits == Hits(evaluateParameterSince(spec, table, t, since))
         IN  /\ buildBaselineWindow(t, d.baseline, MaxSampleRows) # None
             /\ samples \in Seq(Sample) /\ samples # <<>>
             /\ \A r \in ToSet(samples) : r.value # None
             /\ ChartResult(d, samples).reasons # {}
             /\ {a.ts : a \in hits} = {Last(samples).ts}
             /\ Last(samples).ts \in Int /\ Last(samples).ts <= t
             /\ since # None => Last(samples).ts > since
  <1> DEFINE d == spec.detector
             samples == baselineSamples(d, table, t)
             answers == evaluateParameterSince(spec, table, t, since)
             refused == buildBaselineWindow(t, d.baseline, MaxSampleRows) = None
             result == ChartResult(d, samples)
  <1>1. answers = CASE refused -> About(failed, <<>>)
                    [] OTHER -> IF Unchanged(samples, since) THEN Nothing
                                ELSE About(result, samples)
    <2>1. CASE d.type = "shewhart"
      BY <2>1 DEF evaluateParameterSince, evaluateShewhart, ChartResult
    <2>2. CASE d.type = "range_chart"
      BY <2>2 DEF evaluateParameterSince, evaluateRangeChart, ChartResult
    <2> QED BY <2>1, <2>2
  <1> HIDE DEF answers, samples, result
  <1>2. \A a \in About(failed, <<>>) \cup Nothing : a.reasons = {}
    <2>1. \A res, s : \A a \in About(res, s) : a.reasons = res.reasons
      BY DEF About
    <2>2. failed.reasons = {} /\ noResult.reasons = {}
      BY DEF failed, noResult
    <2> QED BY <2>1, <2>2, Zenon DEF Nothing
  <1>3. PICK a \in answers : a.reasons # {}
    BY DEF Hits, answers
  <1>4. ~refused /\ ~Unchanged(samples, since) /\ answers = About(result, samples)
    BY <1>1, <1>2, <1>3
  <1>5. IsBaseline(d.baseline)
    BY DEF IsDetector
  <1>6. /\ samples \in Seq(Sample) /\ ToSet(samples) \subseteq ToSet(table)
        /\ \A r \in ToSet(samples) : r.value # None
    BY <1>4, <1>5, BaselineTyped DEF samples
  <1>7. result.reasons # {}
    BY <1>3, <1>4 DEF About
  <1>8. samples # <<>>
    BY <1>7, NoSamples DEF result, ChartResult
  <1>9. answers = {[status |-> result.status, reasons |-> result.reasons, ts |-> Last(samples).ts]}
    BY <1>4, <1>8 DEF About
  <1>10. {b.ts : b \in {c \in answers : c.reasons # {}}} = {Last(samples).ts}
    BY <1>7, <1>9
  <1>11. Last(samples) \in ToSet(samples)
    BY <1>6, <1>8, LastEntry
  <1>12. Last(samples) \in Sample /\ Last(samples).ts <= t
    BY <1>6, <1>11, ToSetAppend DEF Past
  <1>13. Last(samples).ts \in Int
    BY <1>12 DEF Sample
  <1>14. since # None => Last(samples).ts > since
    BY <1>4, <1>8, <1>13 DEF Unchanged
  <1> QED BY <1>4, <1>6, <1>7, <1>8, <1>10, <1>12, <1>13, <1>14 DEF Hits, answers, samples, result
-----------------------------------------------------------------------------
\* The parts of the invariant that only look at the rule and the table.
LEMMA StartsRight ==
  Init => Inv
  <1> SUFFICES ASSUME Init PROVE Inv
    OBVIOUS
  <1> USE EvaluationAssumption
  <1>1. /\ sub \in Submissions /\ rule = Stored(sub)
        /\ rows \in Seq(Sample) /\ now \in Nat /\ polls \in Nat
    BY DEF Init
  <1>2. \A i \in 1..Len(rows) : /\ rows[i].ts <= 0 /\ \A j \in 1..(i - 1) : rows[j].ts < rows[i].ts
    BY HistoryAssumption DEF Init
  <1>3. InOrder(rows)
    <2> SUFFICES ASSUME NEW i \in 1..Len(rows), NEW j \in 1..Len(rows), i < j
                 PROVE  rows[i].ts < rows[j].ts
      BY DEF InOrder
    <2>1. i \in 1..(j - 1)
      BY <1>1
    <2> QED BY <1>2, <2>1
  <1>4. Past(rows, now)
    <2>1. ToSet(rows) = {rows[i] : i \in 1..Len(rows)} /\ now = 0
      BY <1>1, ToSetAppend DEF Init
    <2> QED BY <1>2, <2>1 DEF Past
  <1> QED BY <1>1, <1>3, <1>4 DEF Init, Inv

\* A row that arrives is later than all rows before it.
LEMMA InsertKeeps ==
  ASSUME Inv, NEW a \in Arrivals, NEW gap \in Gaps, Insert(a, gap)
  PROVE  Inv'
  <1> USE EvaluationAssumption
  <1> DEFINE row == [ts |-> now', value |-> a.value, group |-> a.group]
  <1>1. rows \in Seq(Sample) /\ now \in Nat /\ polls \in Nat /\ InOrder(rows) /\ Past(rows, now)
    BY DEF Inv
  <1>2. /\ now' = now + gap /\ now' \in Nat /\ now < now' /\ rows' = Append(rows, row)
        /\ UNCHANGED <<sub, rule, active, runAt, lastRun, polls, last, alerted>>
    BY <1>1 DEF Insert
  <1>3. row \in Sample /\ row.ts = now'
    BY <1>2 DEF Sample
  <1> HIDE DEF row
  <1>4. /\ rows' \in Seq(Sample) /\ Len(rows') = Len(rows) + 1 /\ Len(rows) \in Nat
        /\ \A i \in 1..Len(rows) : rows'[i] = rows[i] /\ rows[i] \in Sample
        /\ rows'[Len(rows) + 1] = row
    BY <1>1, <1>2, <1>3
  <1>5. /\ ToSet(rows') = ToSet(rows) \cup {row} /\ ToSet(rows) \subseteq Sample
        /\ ToSet(rows) = {rows[i] : i \in 1..Len(rows)}
    BY <1>1, <1>2, <1>3, ToSetAppend
  <1>6. \A r \in ToSet(rows) : r.ts \in Int /\ r.ts <= now
    <2>1. \A r \in Sample : r.ts \in Int
      BY DEF Sample
    <2> QED BY <1>1, <1>5, <2>1 DEF Past
  <1>7. Past(rows', now')
    BY <1>1, <1>2, <1>3, <1>5, <1>6 DEF Past
  <1>8. InOrder(rows')
    <2>1. \A i \in 1..Len(rows) : rows[i].ts < row.ts
      BY <1>1, <1>2, <1>3, <1>5, <1>6
    <2> SUFFICES ASSUME NEW i \in 1..(Len(rows) + 1), NEW j \in 1..(Len(rows) + 1), i < j
                 PROVE  rows'[i].ts < rows'[j].ts
      BY <1>4 DEF InOrder
    <2>2. CASE j = Len(rows) + 1
      <3>1. i \in 1..Len(rows)
        BY <1>4, <2>2
      <3> QED BY <1>4, <2>1, <2>2, <3>1
    <2>3. CASE j # Len(rows) + 1
      <3>1. i \in 1..Len(rows) /\ j \in 1..Len(rows)
        BY <1>4, <2>3
      <3> QED BY <1>1, <1>4, <3>1 DEF InOrder
    <2> QED BY <2>2, <2>3
  <1>9. (active => rule # None /\ (NeedsRow(rule) => rows # <<>>))'
    <2>1. rows' # <<>>
      BY <1>4
    <2>2. (active => rule # None) /\ active' = active /\ rule' = rule
      BY <1>2 DEF Inv
    <2> QED BY <2>1, <2>2
  <1>10. ASSUME Polled PROVE Polled'
    <2>1. last.count \in 0..Len(rows)
      BY <1>10 DEF Polled
    <2>2. Seen' = Seen
      BY <1>1, <1>2, <1>3, <2>1, Beginnings DEF Seen
    <2>3. last' = last /\ rule' = rule /\ lastRun' = lastRun /\ active' = active
      BY <1>2
    <2>4. last.at <= now => last.at <= now' \/ last.at \notin Nat
      BY <1>1, <1>2
    <2>5. last.count \in 0..Len(rows')
      BY <1>4, <2>1
    <2>6. NeedsRow(rule)' <=> NeedsRow(rule)
      BY <2>3 DEF NeedsRow, Aggregating
    <2>7. evaluateParameterSince(rule, Seen, last.at, last.since)'
              = evaluateParameterSince(rule, Seen, last.at, last.since)
      BY <2>2, <2>3
    <2> QED BY <1>10, <2>2, <2>3, <2>4, <2>5, <2>6, <2>7 DEF Polled, Past
  <1>11. ASSUME ChartAlerts PROVE ChartAlerts'
    BY <1>2, <1>5, <1>11, Zenon DEF ChartAlerts
  <1>12. ASSUME UnderWay PROVE UnderWay'
    <2>1. runAt' = runAt /\ active' = active /\ polls' = polls /\ last' = last
      BY <1>2
    <2>2. runAt \in Nat => (runAt <= now => runAt <= now')
      BY <1>1, <1>2
    <2> QED BY <1>12, <2>1, <2>2 DEF UnderWay
  <1>13. /\ sub' = sub /\ rule' = rule /\ polls' = polls /\ lastRun' = lastRun /\ last' = last
         /\ alerted' = alerted /\ runAt' = runAt
    BY <1>2
  <1> QED BY <1>2, <1>4, <1>7, <1>8, <1>9, <1>10, <1>11, <1>12, <1>13, Zenon DEF Inv
\* The scheduler schedules no rule whose first query needs a row it lacks.
LEMMA ActivateKeeps == Inv /\ Activate => Inv'
  <1> SUFFICES ASSUME Inv, Activate PROVE Inv'
    OBVIOUS
  <1>1. /\ rule # None /\ ~active /\ RuntimeValidateRule(rule, rows) /\ active'
        /\ UNCHANGED <<sub, rule, rows, now, runAt, lastRun, polls, last, alerted>>
    BY DEF Activate
  <1>2. polls = 0 /\ runAt = None
    BY <1>1 DEF Inv, Polled, UnderWay
  <1>3. NeedsRow(rule) => rows # <<>>
    BY <1>1 DEF RuntimeValidateRule, NeedsRow
  <1>4. (NeedsRow(rule) => rows # <<>>)'
    BY <1>1, <1>3 DEF NeedsRow, Aggregating
  <1> QED BY <1>1, <1>2, <1>4 DEF Inv

\* A table of the past stays one.
LEMMA PastStays ==
  ASSUME NEW table \in Seq(Sample), NEW s \in Int, NEW t \in Int, s <= t, Past(table, s)
  PROVE  Past(table, t)
  <1>1. ToSet(table) \subseteq Sample
    BY ToSetAppend
  <1>2. \A r \in Sample : r.ts \in Int
    BY DEF Sample
  <1> QED BY <1>1, <1>2 DEF Past

\* A poll begins after the last one has ended.
LEMMA BeginPollKeeps ==
  ASSUME Inv, NEW gap \in Gaps \cup {0}, BeginPoll(gap)
  PROVE  Inv'
  <1> USE EvaluationAssumption
  <1>1. /\ active /\ now' = now + gap /\ runAt' = now'
        /\ UNCHANGED <<sub, rule, active, rows, lastRun, polls, last, alerted>>
    BY DEF BeginPoll
  <1>2. now \in Nat /\ now' \in Nat /\ now <= now' /\ rows \in Seq(Sample) /\ Past(rows, now)
    <2>1. gap \in Nat
      OBVIOUS
    <2>2. now \in Nat /\ rows \in Seq(Sample) /\ Past(rows, now)
      BY DEF Inv
    <2>3. now + gap \in Nat /\ now <= now + gap
      BY <2>1, <2>2
    <2> QED BY <1>1, <2>2, <2>3
  <1>3. Past(rows', now')
    BY <1>1, <1>2, PastStays
  <1>4. ASSUME Polled PROVE Polled'
    <2>1. last.at \in Nat /\ last.at <= now
      BY <1>4 DEF Polled
    <2>2. last.at <= now'
      BY <1>2, <2>1
    <2>3. Seen' = Seen /\ (NeedsRow(rule)' <=> NeedsRow(rule))
      BY <1>1 DEF Seen, NeedsRow, Aggregating
    <2>4. evaluateParameterSince(rule, Seen, last.at, last.since)'
              = evaluateParameterSince(rule, Seen, last.at, last.since)
      BY <1>1, <2>3
    <2>5. Past(Seen, last.at)' <=> Past(Seen, last.at)
      BY <1>1, <2>3 DEF Past
    <2> QED BY <1>1, <1>4, <2>1, <2>2, <2>3, <2>4, <2>5 DEF Polled
  <1>5. UnderWay'
    <2>1. polls > 0 => last.at \in Nat /\ last.at <= now
      BY DEF Inv, Polled
    <2> QED BY <1>1, <1>2, <2>1 DEF UnderWay
  <1>6. ChartAlerts' <=> ChartAlerts
    BY <1>1 DEF ChartAlerts
  <1>7. InOrder(rows)' /\ ((NeedsRow(rule) => rows # <<>>)' <=> (NeedsRow(rule) => rows # <<>>))
    BY <1>1 DEF Inv, InOrder, NeedsRow, Aggregating
  <1> QED BY <1>1, <1>2, <1>3, <1>4, <1>5, <1>6, <1>7 DEF Inv

\* What the invariant says of the alerts when a poll reads the table.
LEMMA AlertsBefore ==
  ASSUME Inv, UnderWay, rule.detector.type \in {"shewhart", "range_chart"}
  PROVE  /\ alerted \in Seq(AlertRecord)
         /\ \A i \in 1..Len(alerted) :
               /\ alerted[i].ts \in Int /\ alerted[i].run \in Int
               /\ alerted[i].ts <= runAt /\ alerted[i].run <= runAt
               /\ lastRun \in Int /\ alerted[i].run <= lastRun
               /\ \E r \in ToSet(rows) : Eligible(rule.detector, r) /\ r.ts = alerted[i].ts
         /\ \A i, j \in 1..Len(alerted) : i < j =>
               /\ alerted[i].ts <= alerted[j].run
               /\ \/ alerted[i].ts < alerted[j].ts
                  \/ j = i + 1 /\ alerted[i].ts = alerted[j].ts /\ alerted[i].run < alerted[i].ts
  <1>1. CASE polls = 0
    <2>1. alerted = <<>>
      BY <1>1 DEF Inv
    <2> QED BY <2>1
  <1>2. CASE polls # 0
    <2>1. polls > 0 /\ ChartAlerts /\ Polled
      BY <1>2 DEF Inv
    <2>2. lastRun \in Nat /\ last.at \in Nat /\ runAt \in Nat /\ lastRun <= last.at /\ last.at <= runAt
      BY <2>1 DEF Polled, UnderWay
    <2>3. \A i \in 1..Len(alerted) : alerted[i].ts \in Int /\ alerted[i].run \in Int
      <3>1. \A i \in 1..Len(alerted) : alerted[i] \in AlertRecord
        BY <2>1 DEF ChartAlerts
      <3> QED BY <3>1 DEF AlertRecord
    <2>4. \A i \in 1..Len(alerted) : alerted[i].ts <= last.at /\ alerted[i].run <= lastRun
      BY <2>1 DEF ChartAlerts
    <2>5. \A i \in 1..Len(alerted) : alerted[i].ts <= runAt /\ alerted[i].run <= runAt
      BY <2>2, <2>3, <2>4
    <2>6. lastRun \in Int
      BY <2>2
    <2> QED BY <2>1, <2>3, <2>4, <2>5, <2>6, Zenon DEF ChartAlerts
  <1> QED BY <1>1, <1>2

\* A poll answers to the whole table.  If a control chart alerts about a sample
\* that an alert was about before, that was at the poll before this one, which
\* had begun before the sample arrived.
LEMMA PollKeeps ==
  ASSUME Inv, NEW delay \in Delays, Poll(delay)
  PROVE  Inv'
  <1> USE EvaluationAssumption
  <1> DEFINE t == now + delay
             answers == evaluateParameterSince(rule, rows, t, lastRun)
             d == rule.detector
  <1>1. /\ sub \in Submissions /\ rule = Stored(sub)
        /\ rows \in Seq(Sample) /\ now \in Nat /\ polls \in Nat /\ InOrder(rows) /\ Past(rows, now)
        /\ active => rule # None /\ (NeedsRow(rule) => rows # <<>>)
    BY DEF Inv
  <1>2. /\ runAt # None /\ now' = t /\ runAt' = None /\ lastRun' = runAt /\ polls' = polls + 1
        /\ last' = [answers |-> answers, since |-> lastRun, at |-> t, count |-> Len(rows)]
        /\ alerted' = IF Hits(answers) = {} THEN alerted
                      ELSE Append(alerted, [ts |-> Max({a.ts : a \in Hits(answers)}), run |-> runAt])
        /\ UNCHANGED <<sub, rule, active, rows, arrivals>>
    BY Zenon DEF Poll
  <1>3. t \in Nat /\ now <= t
    BY <1>1
  <1>4. UnderWay
    BY <1>2 DEF Inv
  <1>5. active /\ runAt \in Nat /\ runAt <= t
    BY <1>1, <1>3, <1>4 DEF UnderWay
  <1> HIDE DEF answers, t
  <1>6. /\ last'.answers = answers /\ last'.since = lastRun
        /\ last'.at = t /\ last'.count = Len(rows)
    BY <1>2
  <1>7. Past(rows, t)
    BY <1>1, <1>3, PastStays
  <1>8. lastRun = None \/ lastRun \in Nat
    BY DEF Inv, Polled
  <1>9. Polled'
    <2>1. Seen' = rows
      BY <1>1, <1>2, <1>6, Beginnings DEF Seen
    <2>2. Len(rows) \in Nat /\ Len(rows) \in 0..Len(rows)
      BY <1>1
    <2>3. NeedsRow(rule)' <=> NeedsRow(rule)
      BY <1>2 DEF NeedsRow, Aggregating
    <2>4. last'.answers = evaluateParameterSince(rule', Seen', last'.at, last'.since)
      BY <1>2, <1>6, <2>1, Zenon DEF answers
    <2>5. last'.at \in Nat /\ last'.at <= now' /\ lastRun' \in Nat /\ lastRun' <= last'.at
      BY <1>2, <1>3, <1>5, <1>6
    <2>6. Past(Seen', last'.at) /\ (last'.since = None \/ last'.since \in Nat)
      BY <1>6, <1>7, <1>8, <2>1
    <2>7. last'.count \in 0..Len(rows')
      BY <1>2, <1>6, <2>2
    <2> QED BY <1>1, <1>2, <1>5, <2>1, <2>3, <2>4, <2>5, <2>6, <2>7, Zenon DEF Polled
  <1>10. ASSUME d.type \in {"shewhart", "range_chart"} PROVE ChartAlerts'
    <2> DEFINE n == Len(alerted)
               Found(ts) == \E r \in ToSet(rows) : Eligible(d, r) /\ r.ts = ts
               InTurn(a, b, next) ==
                  /\ a.ts <= b.run
                  /\ a.ts < b.ts \/ (next /\ a.ts = b.ts /\ a.run < a.ts)
    <2>1. rule # None /\ IsDetector(d) /\ (d.type = "shewhart" => d.minBaselineN >= 0)
      BY <1>1, <1>5, StoredIsSound
    <2>2. /\ alerted \in Seq(AlertRecord)
          /\ \A i \in 1..n :
               /\ alerted[i].ts \in Int /\ alerted[i].run \in Int
               /\ alerted[i].ts <= runAt /\ alerted[i].run <= runAt
               /\ lastRun \in Int /\ alerted[i].run <= lastRun /\ Found(alerted[i].ts)
          /\ \A i, j \in 1..n : i < j => InTurn(alerted[i], alerted[j], j = i + 1)
      BY <1>4, <1>10, AlertsBefore
    <2>3. \A i \in 1..n : alerted[i].ts <= t
      BY <1>3, <1>5, <2>2
    <2>4. SUFFICES /\ alerted' \in Seq(AlertRecord)
                   /\ \A i \in 1..Len(alerted') :
                        alerted'[i].ts <= t /\ alerted'[i].run <= runAt /\ Found(alerted'[i].ts)
                   /\ \A i, j \in 1..Len(alerted') : i < j =>
                        InTurn(alerted'[i], alerted'[j], j = i + 1)
      BY <1>2, <1>6, Zenon DEF ChartAlerts
    <2> HIDE DEF Found
    <2>5. CASE Hits(answers) = {}
      <3>1. alerted' = alerted
        BY <1>2, <2>5
      <3> QED BY <2>2, <2>3, <3>1
    <2>6. CASE Hits(answers) # {}
      <3> DEFINE newest == Last(baselineSamples(d, rows, t))
                 x == newest.ts
                 new == [ts |-> x, run |-> runAt]
      <3>1. /\ {a.ts : a \in Hits(answers)} = {x} /\ x \in Int /\ x <= t
            /\ lastRun # None => x > lastRun
            /\ buildBaselineWindow(t, d.baseline, MaxSampleRows) # None
            /\ baselineSamples(d, rows, t) # <<>>
        <4>1. t \in Int /\ (lastRun = None \/ lastRun \in Int)
          BY <1>3, <1>8
        <4>2. Hits(evaluateParameterSince(rule, rows, t, lastRun)) # {}
          BY <2>6 DEF answers
        <4> QED BY <1>1, <1>7, <1>10, <2>1, <4>1, <4>2, ChartHit, Zenon DEF answers
      <3>2. /\ newest \in ToSet(rows) /\ Eligible(d, newest)
            /\ \A r \in ToSet(rows) : Eligible(d, r) => r.ts <= x
        <4>1. t \in Int /\ IsBaseline(d.baseline)
          BY <1>3, <1>10, <2>1 DEF IsDetector
        <4> QED BY <1>1, <3>1, <4>1, ChartNewest, Zenon
      <3>3. Found(x) /\ \A ts : Found(ts) => ts <= x
        BY <3>2 DEF Found
      <3> HIDE DEF newest, x
      <3>4. alerted' = Append(alerted, new)
        BY <1>2, <2>6, <3>1, SingleMax
      <3>5. new \in AlertRecord /\ new.ts = x /\ new.run = runAt
        BY <1>5, <3>1 DEF AlertRecord
      <3> HIDE DEF new
      <3>6. /\ alerted' \in Seq(AlertRecord) /\ Len(alerted') = n + 1 /\ n \in Nat
            /\ \A i \in 1..n : alerted'[i] = alerted[i]
            /\ alerted'[n + 1] = new
        BY <2>2, <3>4, <3>5
      <3>7. ASSUME NEW i \in 1..n PROVE InTurn(alerted[i], new, n + 1 = i + 1)
        <4>1. /\ alerted[i].ts \in Int /\ alerted[i].run \in Int /\ alerted[i].ts <= runAt
              /\ lastRun \in Int /\ alerted[i].run <= lastRun /\ alerted[i].ts <= x
          BY <2>2, <3>3
        <4>2. x > lastRun /\ alerted[i].run < x
          BY <1>8, <3>1, <4>1
        <4>3. CASE i = n
          BY <3>1, <3>5, <4>1, <4>2, <4>3
        <4>4. CASE i # n
          <5>1. n \in 1..n /\ i < n
            BY <3>6, <4>4
          <5>2. alerted[i].ts <= alerted[n].run /\ alerted[n].run <= lastRun /\ alerted[n].run \in Int
            BY <2>2, <5>1
          <5>3. alerted[i].ts < x
            BY <3>1, <4>1, <4>2, <5>2
          <5> QED BY <3>5, <4>1, <5>3
        <4> QED BY <4>3, <4>4
      <3>8. ASSUME NEW i \in 1..(n + 1)
            PROVE  alerted'[i].ts <= t /\ alerted'[i].run <= runAt /\ Found(alerted'[i].ts)
        <4>1. CASE i = n + 1
          BY <1>5, <3>1, <3>3, <3>5, <3>6, <4>1
        <4>2. CASE i # n + 1
          <5>1. i \in 1..n
            BY <3>6, <4>2
          <5> QED BY <2>2, <2>3, <3>6, <5>1
        <4> QED BY <4>1, <4>2
      <3>9. ASSUME NEW i \in 1..(n + 1), NEW j \in 1..(n + 1), i < j
            PROVE  InTurn(alerted'[i], alerted'[j], j = i + 1)
        <4>1. i \in 1..n
          BY <3>6, <3>9
        <4>2. CASE j = n + 1
          BY <3>6, <3>7, <4>1, <4>2
        <4>3. CASE j # n + 1
          <5>1. j \in 1..n
            BY <3>6, <4>3
          <5> QED BY <2>2, <3>6, <3>9, <4>1, <5>1
        <4> QED BY <4>2, <4>3
      <3> HIDE DEF InTurn
      <3> QED BY <3>6, <3>8, <3>9
    <2> QED BY <2>5, <2>6
  <1>11. polls' \in Nat /\ polls' # 0 /\ now' \in Nat
    BY <1>1, <1>2, <1>3
  <1>12. /\ sub' \in Submissions /\ rule' = Stored(sub')
         /\ rows' \in Seq(Sample) /\ InOrder(rows') /\ Past(rows', now')
    BY <1>1, <1>2, <1>7
  <1>13. (active => rule # None /\ (NeedsRow(rule) => rows # <<>>))'
    BY <1>1, <1>2 DEF NeedsRow, Aggregating
  <1>14. rule'.detector.type \in {"shewhart", "range_chart"} => ChartAlerts'
    BY <1>2, <1>10
  <1> QED BY <1>2, <1>9, <1>11, <1>12, <1>13, <1>14, Zenon DEF Inv

THEOREM Invariance == Spec => []Inv
  <1>1. Init => Inv
    BY StartsRight
  <1>2. Inv /\ [Next]_vars => Inv'
    <2> SUFFICES ASSUME Inv, [Next]_vars PROVE Inv'
      OBVIOUS
    <2>1. CASE Activate
      BY <2>1, ActivateKeeps
    <2>2. ASSUME NEW a \in Arrivals, NEW gap \in Gaps, Insert(a, gap) PROVE Inv'
      BY <2>2, InsertKeeps
    <2>3. ASSUME NEW gap \in Gaps \cup {0}, BeginPoll(gap) PROVE Inv'
      BY <2>3, BeginPollKeeps
    <2>4. ASSUME NEW delay \in Delays, Poll(delay) PROVE Inv'
      BY <2>4, PollKeeps
    <2>5. CASE UNCHANGED vars
      <3>1. /\ sub' = sub /\ rule' = rule /\ active' = active /\ rows' = rows /\ now' = now
            /\ runAt' = runAt /\ lastRun' = lastRun /\ polls' = polls /\ last' = last
            /\ alerted' = alerted
        BY <2>5 DEF vars
      <3>2. Polled' <=> Polled
        BY <3>1 DEF Polled, Seen, NeedsRow, Aggregating, Past
      <3>3. (UnderWay' <=> UnderWay) /\ (ChartAlerts' <=> ChartAlerts)
        BY <3>1 DEF UnderWay, ChartAlerts
      <3>4. InOrder(rows)' /\ Past(rows, now)'
        BY <3>1 DEF Inv, InOrder, Past
      <3>5. (NeedsRow(rule) => rows # <<>>)' <=> (NeedsRow(rule) => rows # <<>>)
        BY <3>1 DEF NeedsRow, Aggregating
      <3> QED BY <3>1, <3>2, <3>3, <3>4, <3>5, Zenon DEF Inv
    <2> QED BY <2>1, <2>2, <2>3, <2>4, <2>5 DEF Next
  <1> QED BY <1>1, <1>2, PTL DEF Spec
-----------------------------------------------------------------------------
\* What the invariant says of the last poll.
LEMMA LastPoll ==
  ASSUME Inv, polls > 0
  PROVE  /\ Polled /\ rule # None /\ rule = Stored(sub) /\ sub \in Submissions
         /\ IsDetector(rule.detector) /\ rule.detector.type \in DetectorTypes
         /\ rule.detector.type = "shewhart" => rule.detector.minBaselineN >= 0
         /\ rule.detector.type = "trend" => rule.detector.windowSize > 0
         /\ rule.poll \in Int
         /\ Aggregating(rule) => rule.window \in Int /\ rule.window >= rule.poll
         /\ rows \in Seq(Sample) /\ Seen \in Seq(Sample) /\ Len(Seen) = last.count
         /\ \A i \in 1..last.count : Seen[i] = rows[i] /\ rows[i] \in Sample
         /\ InOrder(Seen) /\ Past(Seen, last.at)
  <1>1. /\ Polled /\ rule # None /\ rule = Stored(sub) /\ sub \in Submissions
        /\ rows \in Seq(Sample) /\ InOrder(rows)
    BY DEF Inv, Polled
  <1>2. last.count \in 0..Len(rows) /\ Past(Seen, last.at)
    BY <1>1 DEF Polled
  <1>3. /\ Seen \in Seq(Sample) /\ Len(Seen) = last.count
        /\ \A i \in 1..last.count : Seen[i] = rows[i]
    BY <1>1, <1>2, Beginnings DEF Seen
  <1>4. Len(rows) \in Nat /\ \A i \in 1..last.count : i \in 1..Len(rows) /\ rows[i] \in Sample
    BY <1>1, <1>2
  <1>5. InOrder(Seen)
    BY <1>1, <1>3, <1>4 DEF InOrder
  <1>6. /\ IsDetector(rule.detector) /\ rule.detector.type \in DetectorTypes
        /\ rule.detector.type = "shewhart" => rule.detector.minBaselineN >= 0
        /\ rule.detector.type = "trend" => rule.detector.windowSize > 0
        /\ rule.poll \in Int
        /\ Aggregating(rule) => rule.window \in Int /\ rule.window >= rule.poll
    BY <1>1, StoredIsSound
  <1> QED BY <1>1, <1>2, <1>3, <1>4, <1>5, <1>6, Zenon

\* Whatever is submitted and whatever the table holds, an answer has a status
\* of DetectorResult, is a violation exactly if it has a reason, and is about a
\* time that has been (addViolation, statusFromHit, applyResultTimestamp).
THEOREM TypeCorrect == Spec => []TypeOK
  <1>1. Inv => TypeOK
    <2> SUFFICES ASSUME Inv PROVE TypeOK
      OBVIOUS
    <2>1. /\ polls \in Nat /\ now \in Nat /\ (active => rule # None)
          /\ runAt # None => active /\ runAt \in 0..now
      BY DEF Inv, UnderWay
    <2>2. CASE polls = 0
      <3>1. last = NoPoll
        BY <2>2 DEF Inv
      <3>2. last.answers = {}
        BY <3>1 DEF NoPoll
      <3> QED BY <2>1, <2>2, <3>2 DEF TypeOK
    <2>3. CASE polls # 0
      <3>1. polls > 0
        BY <2>1, <2>3
      <3>2. /\ last.at \in Nat /\ last.at <= now /\ lastRun \in Nat /\ lastRun <= last.at
            /\ last.answers = evaluateParameterSince(rule, Seen, last.at, last.since)
        BY <3>1, LastPoll DEF Polled
      <3>3. last.at \in Int
        BY <3>2
      <3>4. \A a \in last.answers : Answer(a, last.at)
        BY <3>1, <3>2, <3>3, LastPoll, PollAnswers, Zenon
      <3>5. \A a : Answer(a, last.at) =>
               /\ a.status \in Statuses
               /\ a.status = "VIOLATION" <=> a.reasons # {}
               /\ a.ts = None \/ a.ts <= now
        <4>1. \A ts \in Int : ts <= last.at => ts <= now
          BY <2>1, <3>2
        <4> QED BY <4>1, Zenon DEF Answer
      <3>6. lastRun \in 0..now
        BY <2>1, <3>2
      <3> QED BY <2>1, <3>4, <3>5, <3>6 DEF TypeOK
    <2> QED BY <2>2, <2>3
  <1> QED BY <1>1, Invariance, PTL

\* A control chart alerts about a newest sample once, or at two polls in a row of
\* which the first began before the sample arrived, and never about an older one
\* again, for every chart, table and order of rows and polls: what
\* evaluateParameterSince compares with lastRunAt is the sample that the chart
\* judges.
THEOREM NewestAlertsTwiceAtMost == Spec => []NewestSampleAlertsTwiceAtMost
  <1>1. Inv => NewestSampleAlertsTwiceAtMost
    <2> SUFFICES ASSUME Inv, rule # None, rule.detector.type \in {"shewhart", "range_chart"}
                 PROVE  \A i, j \in DOMAIN alerted : i < j =>
                           \/ alerted[i].ts < alerted[j].ts
                           \/ j = i + 1 /\ alerted[i].ts = alerted[j].ts /\ alerted[i].run < alerted[i].ts
      BY DEF NewestSampleAlertsTwiceAtMost, IsChart
    <2>1. polls \in Nat
      BY DEF Inv
    <2>2. CASE polls = 0
      <3>1. alerted = <<>>
        BY <2>2 DEF Inv
      <3>2. DOMAIN alerted = {}
        BY <3>1
      <3> QED BY <3>2
    <2>3. CASE polls # 0
      <3>1. ChartAlerts
        BY <2>1, <2>3 DEF Inv
      <3>2. DOMAIN alerted = 1..Len(alerted)
        BY <3>1 DEF ChartAlerts
      <3> QED BY <3>1, <3>2, Zenon DEF ChartAlerts
    <2> QED BY <2>2, <2>3
  <1> QED BY <1>1, Invariance, PTL

-----------------------------------------------------------------------------
\* Seconds count in the order of ticks.
LEMMA UnixGrows ==
  \A a, b \in Int : Unix(a) \in Int /\ (a <= b => Unix(a) <= Unix(b))
  <1> DEFINE T == TicksPerSecond
  <1>1. T \in Nat \ {0}
    BY EvaluationAssumption
  <1> HIDE DEF T
  <1>2. \A a \in Int : a \div T \in Int /\ T * (a \div T) <= a /\ a < T * (a \div T) + T
    BY <1>1, SMTT(30)
  <1>3. \A x, y \in Int : x > y => T * x >= T * y + T
    <2> SUFFICES ASSUME NEW x \in Int, NEW y \in Int, x > y PROVE T * x >= T * y + T
      OBVIOUS
    <2>1. y + 1 <= x /\ T \in Nat
      BY <1>1
    <2>2. (y + 1) * T <= x * T
      BY <2>1, Scaled
    <2>3. (y + 1) * T = T * y + T /\ x * T = T * x
      BY <1>1, SMTT(30)
    <2> QED BY <2>2, <2>3
  <1> SUFFICES ASSUME NEW a \in Int, NEW b \in Int
               PROVE  a \div T \in Int /\ (a <= b => a \div T <= b \div T)
    BY DEF Unix, T
  <1> DEFINE x == a \div T
             y == b \div T
             tx == T * x
             ty == T * y
  <1>4. x \in Int /\ y \in Int /\ tx \in Int /\ ty \in Int /\ tx <= a /\ b < ty + T
    BY <1>1, <1>2
  <1>5. x > y => tx >= ty + T
    BY <1>3, <1>4
  <1> HIDE DEF x, y, tx, ty
  <1>6. x \in Int /\ (a <= b => x <= y)
    BY <1>1, <1>4, <1>5
  <1> QED BY <1>6 DEF x, y

\* The x of the samples of a regression.
LineXs(window, spec) ==
    [i \in DOMAIN window |->
        IF spec.basis \in {"", "timestamp"} THEN Unix(window[i].ts) - Unix(window[1].ts)
                                            ELSE i - 1]
LineWindow(samples, spec) == SubSeq(samples, Len(samples) - spec.windowN + 1, Len(samples))

\* A regression that the validator accepts is only refused if its samples have
\* no line.
LEMMA LineIsMissing ==
  ASSUME NEW samples, NEW spec, validateTPA(spec), spec.windowN \in Int,
         EvaluateTPA(samples, spec).status \in Refusals
  PROVE  /\ ~(Len(samples) < spec.windowN)
         /\ LinearRegression(LineXs(LineWindow(samples, spec), spec),
                             extractValues(LineWindow(samples, spec))).den = 0
  <1> DEFINE window == LineWindow(samples, spec)
             slope == LinearRegression(LineXs(window, spec), extractValues(window))
             steep == spec.slope # None /\ AbsVal(slope.num) >= spec.slope * slope.den
             near == /\ spec.time # None /\ spec.limits # None
                     /\ reachesSpec(slope, Last(window).value, spec.limits, spec.time)
             flat == AbsVal(slope.num) <= spec.epsilon * slope.den
             found == Result({r \in {"slope_threshold"} : steep}
                                \cup {r \in {"time_to_spec"} : near})
             judged == IF spec.time # None /\ spec.requireSpecLimits /\ spec.limits = None
                       THEN invalidConfig ELSE found
             fitted == CASE slope.den = 0 -> invalidConfig
                         [] slope.den # 0 /\ flat -> Result({})
                         [] OTHER -> judged
  <1>1. EvaluateTPA(samples, spec) =
            CASE spec.windowN < 3 -> invalidConfig
              [] spec.windowN >= 3 /\ Len(samples) < spec.windowN -> insufficientData
              [] OTHER -> fitted
    BY Zenon DEF EvaluateTPA, LineXs, LineWindow
  <1>2. spec.windowN >= 3 /\ ~(spec.windowN < 3)
    <2>1. spec.windowN >= 3
      BY Zenon DEF validateTPA
    <2>2. \A x \in Int : x >= 3 => ~(x < 3)
      OBVIOUS
    <2> QED BY <2>1, <2>2, Zenon
  <1>3. judged = found
    BY Zenon DEF validateTPA
  <1>4. judged.status \notin Refusals
    BY <1>3, Results, Zenon
  <1> HIDE DEF judged, slope, flat
  <1>5. slope.den # 0 => fitted.status \notin Refusals
    BY <1>4, Results, Zenon
  <1> HIDE DEF fitted
  <1>6. ~(Len(samples) < spec.windowN) /\ slope.den = 0
    BY <1>1, <1>2, <1>5, Results, Zenon
  <1> QED BY <1>6 DEF slope

\* Samples without a line have the same x throughout.
LEMMA SameXs ==
  ASSUME NEW xs \in Seq(Int), NEW ys, LinearRegression(xs, ys).den = 0
  PROVE  \A i \in 1..Len(xs) : xs[i] = xs[Len(xs)]
  <1>1. Spread(xs) = 0
    BY DEF LinearRegression, Spread
  <1> QED BY <1>1, NoSpread

\* A window of three or more samples has a first and a last index.
LEMMA IndexesDiffer ==
  \A x \in Int : x >= 3 => 1 \in 1..x /\ 1 - 1 # x - 1
  OBVIOUS

\* So that they lie in one second, unless they are told apart by their index.
LEMMA LineInOneSecond ==
  ASSUME NEW table \in Seq(Sample), InOrder(table), NEW since, NEW limit \in Int,
         NEW d, validateTPA(d), d.windowN \in Int,
         EvaluateTPA(fetchSamples(table, since, limit), d).status \in Refusals
  PROVE  /\ d.basis # "index"
         /\ \E i \in 1..Len(table) : /\ i + d.windowN - 1 <= Len(table)
                /\ Unix(table[i].ts) = Unix(table[i + d.windowN - 1].ts)
  <1> DEFINE samples == fetchSamples(table, since, limit)
             l == Len(samples)
             N == d.windowN
             n == Len(table)
             window == LineWindow(samples, d)
             xs == LineXs(window, d)
             a == l - N + 1
  <1>1. samples \in Seq(Sample) /\ Embeds(samples, table)
    BY Fetched, FetchedEmbeds
  <1>2. N \in Int /\ N >= 3
    BY DEF validateTPA
  <1>3. ~(l < N) /\ LinearRegression(xs, extractValues(window)).den = 0
    BY LineIsMissing
  <1> HIDE DEF samples
  <1>4. l \in Nat /\ n \in Nat /\ \A i \in 1..l : samples[i] \in Sample
    BY <1>1
  <1>5. a \in 1..l /\ a + (N - 1) = l
    <2>1. ~(l < N) /\ N \in Int /\ N >= 3 /\ l \in Nat
      BY <1>2, <1>3, <1>4, Zenon
    <2> HIDE DEF l, N
    <2> QED BY <2>1
  <1>6. /\ window \in Seq(Sample) /\ Len(window) = N
        /\ \A i \in 1..N : window[i] = samples[a + i - 1]
    <2> HIDE DEF l
    <2>1. \A i \in a..l : i \in 1..l /\ samples[i] \in Sample
      BY <1>4, <1>5
    <2>2. window = SubSeq(samples, a, l)
      BY DEF LineWindow, l
    <2> HIDE DEF window, N
    <2>3. l - a + 1 = N /\ a <= l
      BY <1>2, <1>4, <1>5
    <2>4. a \in Int /\ l \in Int
      BY <1>4, <1>5
    <2> HIDE DEF a
    <2>5. /\ SubSeq(samples, a, l) \in Seq(Sample)
          /\ Len(SubSeq(samples, a, l)) = (IF a <= l THEN l - a + 1 ELSE 0)
          /\ \A i \in 1..(l - a + 1) : SubSeq(samples, a, l)[i] = samples[a + i - 1]
      BY <2>1, <2>4, SubSeqProperties
    <2> QED BY <2>2, <2>3, <2>5
  <1> HIDE DEF window, l, n, N
  <1> DEFINE tsOf(i) == window[i].ts
             X(i) == IF d.basis \in {"", "timestamp"} THEN Unix(tsOf(i)) - Unix(tsOf(1)) ELSE i - 1
  <1>7. \A i \in 1..N : tsOf(i) \in Int
    <2>1. \A i \in 1..N : window[i] \in Sample
      BY <1>2, <1>6
    <2>2. \A r \in Sample : r.ts \in Int
      BY DEF Sample
    <2> QED BY <2>1, <2>2
  <1>8. \A i \in 1..N : X(i) \in Int
    <2>1. 1 \in 1..N
      BY <1>2
    <2>2. \A i \in 1..N : Unix(tsOf(i)) \in Int
      BY <1>7, UnixGrows
    <2> HIDE DEF tsOf
    <2>3. Unix(tsOf(1)) \in Int
      BY <2>1, <2>2
    <2>4. \A i \in 1..N : Unix(tsOf(i)) - Unix(tsOf(1)) \in Int /\ i - 1 \in Int
      BY <1>2, <2>2, <2>3
    <2> QED BY <2>4, Zenon
  <1>9. xs = [i \in 1..N |-> X(i)]
    BY <1>2, <1>6 DEF LineXs
  <1> HIDE DEF X, xs
  <1>10. xs \in Seq(Int) /\ Len(xs) = N /\ \A i \in 1..N : xs[i] = X(i)
    BY <1>2, <1>8, <1>9
  <1>11. \A i \in 1..N : X(i) = X(N)
    <2>1. N \in 1..N
      BY <1>2
    <2>2. \A i \in 1..N : xs[i] = xs[N]
      BY <1>3, <1>10, SameXs
    <2> QED BY <1>10, <2>1, <2>2
  <1>12. d.basis \in {"", "timestamp"}
    <2> SUFFICES ASSUME d.basis \notin {"", "timestamp"} PROVE FALSE
      OBVIOUS
    <2>1. X(1) = 1 - 1 /\ X(N) = N - 1
      BY Zenon DEF X
    <2> QED BY <1>2, <1>11, <2>1, IndexesDiffer, Zenon
  <1>13. Unix(tsOf(1)) = Unix(tsOf(N))
    <2>1. 1 \in 1..N /\ N \in 1..N
      BY <1>2
    <2>2. X(1) = Unix(tsOf(1)) - Unix(tsOf(1)) /\ X(N) = Unix(tsOf(N)) - Unix(tsOf(1))
      BY <1>12 DEF X
    <2>3. Unix(tsOf(1)) \in Int /\ Unix(tsOf(N)) \in Int /\ X(1) = X(N)
      BY <1>7, <1>11, <2>1, UnixGrows
    <2> HIDE DEF tsOf
    <2> QED BY <2>2, <2>3
  <1>14. PICK f : Embedding(f, samples, table)
    BY <1>1 DEF Embeds
  <1>15. /\ f \in [1..l -> 1..n] /\ \A i, j \in 1..l : i < j => f[i] < f[j]
         /\ \A i \in 1..l : samples[i] = table[f[i]]
    BY <1>14 DEF Embedding, l, n
  <1>16. l \in 1..l /\ N - 1 \in Nat
    BY <1>2, <1>4, <1>5
  <1>17. f[l] >= f[a] + (N - 1) /\ f[a] \in 1..n /\ f[l] \in 1..n
    <2>1. \A k \in Nat : \A i \in 1..l : i + k <= l => f[i + k] >= f[i] + k
      BY <1>4, <1>15, EmbeddingGrows
    <2>2. a + (N - 1) <= l /\ f[a + (N - 1)] = f[l]
      BY <1>4, <1>5
    <2> QED BY <1>5, <1>15, <1>16, <2>1, <2>2
  <1>18. window[1] = table[f[a]] /\ window[N] = table[f[l]]
    <2>1. 1 \in 1..N /\ N \in 1..N /\ a + 1 - 1 = a /\ a + N - 1 = l
      BY <1>2, <1>4, <1>5
    <2> QED BY <1>5, <1>6, <1>15, <1>16, <2>1
  <1> DEFINE i == f[a]
             j == f[a] + N - 1
             k == f[l]
             U(x) == Unix(table[x].ts)
  <1>19. i \in 1..n /\ j \in 1..n /\ k \in 1..n /\ i <= j /\ j <= k
    BY <1>2, <1>4, <1>17
  <1>20. U(i) = U(k)
    BY <1>13, <1>18
  <1> HIDE DEF i, j, k
  <1>21. \A x \in 1..n : table[x].ts \in Int
    <2>1. \A r \in Sample : r.ts \in Int
      BY DEF Sample
    <2>2. \A x \in 1..n : table[x] \in Sample
      BY <1>4 DEF n
    <2> QED BY <2>1, <2>2
  <1>22. \A x, y \in 1..n : x <= y => table[x].ts <= table[y].ts
    BY <1>4, <1>21 DEF InOrder, n
  <1>23. U(i) <= U(j) /\ U(j) <= U(k) /\ U(i) \in Int /\ U(j) \in Int /\ U(k) \in Int
    <2>1. table[i].ts <= table[j].ts /\ table[j].ts <= table[k].ts
      BY <1>19, <1>22
    <2>2. table[i].ts \in Int /\ table[j].ts \in Int /\ table[k].ts \in Int
      BY <1>19, <1>21
    <2> QED BY <2>1, <2>2, UnixGrows
  <1> HIDE DEF U
  <1>24. U(i) = U(j)
    BY <1>20, <1>23
  <1>25. i + N - 1 = j /\ j <= n
    BY <1>2, <1>4, <1>19 DEF i, j
  <1> QED BY <1>12, <1>19, <1>24, <1>25 DEF U, N, n

\* A rule that the rule service has validated is never refused by a detector,
\* for any submission, table and order of rows and polls, unless its baseline's
\* range has an end that is not a time or ends before it starts, or its regression
\* is over samples of one second (ValidateRuleSpec against RuntimeValidateRule
\* and evaluateParameterSince).
THEOREM ValidatedRulesAreAnswered == Spec => []ValidatedRuleEvaluates
  <1>1. Inv => ValidatedRuleEvaluates
    <2> DEFINE d == rule.detector
               oneSecond == /\ d.type = "tpa" /\ d.basis # "index"
                            /\ \E i \in 1..last.count : /\ i + d.windowN - 1 <= last.count
                                  /\ Unix(rows[i].ts) = Unix(rows[i + d.windowN - 1].ts)
    <2> SUFFICES ASSUME Inv, sub.via \in {"json", "prompt"}, active,
                        NEW answer \in last.answers, answer.status \in Refusals,
                        ~BadRange(d), ~oneSecond
                 PROVE  FALSE
      BY Zenon DEF ValidatedRuleEvaluates, Refusals, BadRange
    <2>1. CASE polls = 0
      BY <2>1 DEF Inv, NoPoll
    <2>2. CASE polls # 0
      <3>1. polls > 0
        BY <2>2 DEF Inv
      <3>2. /\ last.at \in Int /\ (NeedsRow(rule) => Seen # <<>>)
            /\ last.answers = evaluateParameterSince(rule, Seen, last.at, last.since)
        BY <3>1, LastPoll DEF Polled
      <3>3. ValidateRuleSpec(rule) /\ IsDetector(d)
        BY <3>1, LastPoll, StoredIsValid
      <3>4. CASE d.type # "tpa"
        BY <3>2, <3>3, <3>4, VettedAnswers
      <3>5. CASE d.type = "tpa"
        <4>1. validateTPA(d) /\ d.windowN \in Int
          BY <3>3, <3>5 DEF ValidateRuleSpec, validateDetector, IsDetector
        <4> DEFINE limit == clampLimit(Default(d.windowN, 3), MaxSampleRows)
                   since == windowSince(rule, last.at, last.since)
                   samples == fetchSamples(Seen, since, limit)
        <4>2. limit \in Int
          BY <4>1, EvaluationAssumption DEF clampLimit, Default
        <4> HIDE DEF limit, since
        <4>3. last.answers = About(EvaluateTPA(samples, d), samples)
          BY <3>2, <3>5 DEF evaluateParameterSince, evaluateTPA, limit, since
        <4>4. EvaluateTPA(samples, d).status \in Refusals
          BY <4>3 DEF About
        <4>5. /\ Seen \in Seq(Sample) /\ InOrder(Seen) /\ Len(Seen) = last.count
              /\ \A i \in 1..last.count : Seen[i] = rows[i]
          BY <3>1, LastPoll
        <4>6. last.count \in Nat
          BY <4>5
        <4>7. /\ d.basis # "index"
              /\ \E i \in 1..Len(Seen) : /\ i + d.windowN - 1 <= Len(Seen)
                    /\ Unix(Seen[i].ts) = Unix(Seen[i + d.windowN - 1].ts)
          <5> DEFINE table == Seen
                     x == d
          <5>1. EvaluateTPA(fetchSamples(table, since, limit), x).status \in Refusals
            BY <4>4
          <5>2. /\ table \in Seq(Sample) /\ InOrder(table)
                /\ validateTPA(x) /\ x.windowN \in Int
            BY <4>1, <4>5
          <5> HIDE DEF table, x
          <5>3. /\ x.basis # "index"
                /\ \E i \in 1..Len(table) : /\ i + x.windowN - 1 <= Len(table)
                      /\ Unix(table[i].ts) = Unix(table[i + x.windowN - 1].ts)
            BY <4>2, <5>1, <5>2, LineInOneSecond
          <5> QED BY <5>3 DEF table, x
        <4>8. PICK i \in 1..last.count : /\ i + d.windowN - 1 <= last.count
                    /\ Unix(Seen[i].ts) = Unix(Seen[i + d.windowN - 1].ts)
          BY <4>5, <4>7
        <4>9. d.windowN >= 3
          BY <4>1 DEF validateTPA
        <4>10. i + d.windowN - 1 \in 1..last.count
          BY <4>1, <4>6, <4>8, <4>9
        <4> QED BY <3>5, <4>5, <4>7, <4>8, <4>10
      <3> QED BY <3>4, <3>5
    <2> QED BY <2>1, <2>2
  <1> QED BY <1>1, Invariance, PTL

-----------------------------------------------------------------------------
\* What the validator asks of the detectors that the parser makes.
LEMMA Asked ==
  ASSUME NEW d, NEW poll
  PROVE  /\ d.type = "missing_data" => (validateDetector(d, poll) <=> d.maxGapSeconds >= poll)
         /\ d.type = "robust_zscore" =>
               (validateDetector(d, poll) <=>
                   d.baselineWindow >= d.evalWindow /\ d.minSamples >= minSamplesRobustZ)
         /\ (d.type = "threshold" /\ d.op = "between") =>
               (validateDetector(d, poll) <=> d.min # None /\ d.max # None /\ d.min < d.max)
         /\ (d.type = "threshold" /\ d.op # "between") =>
               (validateDetector(d, poll) <=> d.op # "")
  <1>1. CASE d.type = "missing_data"
    BY <1>1 DEF validateDetector
  <1>2. CASE d.type = "robust_zscore"
    BY <1>2 DEF validateDetector
  <1>3. CASE d.type = "threshold"
    BY <1>3 DEF validateDetector
  <1> QED BY <1>1, <1>2, <1>3

\* The range of a prompt, if it has one, is not empty.
Ordered(p) ==
    (p.threshold # None /\ p.threshold.op = "between") => p.threshold.min < p.threshold.max

LEMMA NotAtLeast == \A x, y \in Int : ~(x >= y) => x < y
  OBVIOUS

LEMMA Doubled == \A poll \in Nat : 2 * poll >= poll
  OBVIOUS

LEMMA WindowFits ==
  \A window \in Nat : window <= promptBaselineSeconds =>
      promptBaselineSeconds >= (IF window > 0 THEN window ELSE promptEvalSeconds)
  BY ParserAssumption

LEMMA AtLeastItself == minSamplesRobustZ >= minSamplesRobustZ
  BY ParserAssumption

\* The numbers of a prompt.
LEMMA PromptNumbers ==
  ASSUME NEW p, IsPrompt(p)
  PROVE  /\ p.window \in Nat /\ p.every \in Nat
         /\ \A d : Positive(p, "window", d) = (IF p.window > 0 THEN p.window ELSE d)
         /\ \A d : Positive(p, "every", d) = (IF p.every > 0 THEN p.every ELSE d)
         /\ (p.threshold # None /\ p.threshold.op = "between") =>
               p.threshold.min \in Int /\ p.threshold.max \in Int
  <1>1. p.window \in Nat /\ p.every \in Nat /\ "window" \in DOMAIN p /\ "every" \in DOMAIN p
    BY Zenon DEF IsPrompt
  <1>2. (p.threshold # None /\ p.threshold.op = "between") =>
            p.threshold.min \in Int /\ p.threshold.max \in Int
    BY Zenon DEF IsPrompt
  <1>3. p["window"] = p.window /\ p["every"] = p.every
    OBVIOUS
  <1> QED BY <1>1, <1>2, <1>3, Zenon DEF Positive, Setting

\* Two poll intervals are at least one, and the parser's own windows fit.
LEMMA OwnDetectorIsValid ==
  ASSUME NEW p, NEW poll \in Nat, IsPrompt(p), detectorType(p) # "",
         p.window <= promptBaselineSeconds, Ordered(p)
  PROVE  validateDetector(promptDetector(p, poll), poll)
  <1> DEFINE d == promptDetector(p, poll)
  <1>1. CASE detectorType(p) = "missing_data"
    <2>1. d = [type |-> "missing_data", maxGapSeconds |-> 2 * poll]
      BY <1>1 DEF promptDetector, promptGap
    <2> HIDE DEF d
    <2>2. d.type = "missing_data" /\ d.maxGapSeconds >= poll
      BY <2>1, Doubled, Zenon
    <2>3. validateDetector(d, poll)
      BY <2>2, Asked, Zenon
    <2> QED BY <2>3 DEF d
  <1>2. CASE detectorType(p) = "robust_zscore"
    <2> DEFINE eval == Positive(p, "window", promptEvalSeconds)
    <2>1. d = [type |-> "robust_zscore", baselineWindow |-> promptBaselineSeconds,
               evalWindow |-> eval, zWarn |-> 3, zCrit |-> 5, minSamples |-> minSamplesRobustZ]
      BY <1>2 DEF promptDetector
    <2>2. eval = IF p.window > 0 THEN p.window ELSE promptEvalSeconds
      BY PromptNumbers, Zenon
    <2> HIDE DEF d, eval
    <2>3. d.type = "robust_zscore" /\ d.baselineWindow = promptBaselineSeconds
              /\ d.evalWindow = eval /\ d.minSamples = minSamplesRobustZ
      BY <2>1
    <2>4. d.baselineWindow >= d.evalWindow /\ d.minSamples >= minSamplesRobustZ
      BY <2>2, <2>3, PromptNumbers, WindowFits, AtLeastItself, Zenon
    <2>5. validateDetector(d, poll)
      BY <2>3, <2>4, Asked, Zenon
    <2> QED BY <2>5 DEF d
  <1>3. CASE detectorType(p) \notin {"missing_data", "robust_zscore"}
    <2>1. p.threshold # None /\ d = p.threshold
      BY <1>3 DEF promptDetector, detectorType, IsPrompt
    <2>2. p.threshold.type = "threshold" /\ p.threshold.op # ""
      BY <2>1 DEF IsPrompt
    <2>3. p.threshold.op = "between" =>
              p.threshold.min # None /\ p.threshold.max # None /\ p.threshold.min < p.threshold.max
      BY <2>1, PromptNumbers, EvaluationAssumption, Zenon DEF Ordered
    <2>4. validateDetector(p.threshold, poll)
      BY <2>2, <2>3, Asked, Zenon
    <2> QED BY <2>1, <2>4
  <1> QED BY <1>1, <1>2, <1>3

\* A prompt that has everything is refused for a number the user wrote or for
\* a detector of the draft, and never for a choice of the parser, whatever the
\* prompt and the draft (ParsePromptWithDraft and buildDetector of parser.go
\* against ValidateRuleSpec).
THEOREM PromptsAreStored == Spec => []ParsedPromptIsStored
  <1>1. Inv => ParsedPromptIsStored
    <2>0. SUFFICES
             ASSUME Inv, sub.via = "prompt", rule = None,
                    ParsePromptWithDraft(sub.prompt, sub.draft) # None,
                    sub.draft.parameter = None \/ sub.draft.parameter.type = "",
                    sub.prompt.every = 0 \/ sub.prompt.every \in MinPollSeconds..MaxPollSeconds,
                    (sub.prompt.threshold # None /\ sub.prompt.threshold.op = "between")
                        => ~(sub.prompt.threshold.min >= sub.prompt.threshold.max),
                    ~(sub.prompt.window > promptBaselineSeconds)
             PROVE  FALSE
      BY DEF ParsedPromptIsStored
    <2> DEFINE p == sub.prompt
               poll == Positive(p, "every", promptPollSeconds)
               parsed == ParsePromptWithDraft(p, sub.draft)
    <2>1. IsPrompt(p) /\ rule = Stored(sub)
      BY <2>0, SubmissionAssumption DEF Inv
    <2>2. ~ValidateRuleSpec(parsed)
      <3>1. Stored(sub) = IF parsed # None /\ ValidateRuleSpec(parsed) THEN parsed ELSE None
        BY <2>0 DEF Stored
      <3> QED BY <2>0, <2>1, <3>1
    <2>3. parsed = Rule(promptDetector(p, poll), poll) /\ detectorType(p) # ""
      BY <2>0 DEF ParsePromptWithDraft
    <2>4. /\ p.window \in Nat /\ p.every \in Nat
          /\ poll = IF p.every > 0 THEN p.every ELSE promptPollSeconds
      BY <2>1, PromptNumbers, Zenon
    <2>5. /\ p.every = 0 \/ p.every \in MinPollSeconds..MaxPollSeconds
          /\ ~(p.window > promptBaselineSeconds)
      BY <2>0
    <2>6. Ordered(p)
      BY <2>0, <2>1, PromptNumbers, NotAtLeast, Zenon DEF Ordered
    <2> HIDE DEF p, poll, parsed
    <2>7. poll \in MinPollSeconds..MaxPollSeconds /\ poll \in Nat
      BY <2>4, <2>5, ParserAssumption
    <2>8. p.window <= promptBaselineSeconds
      BY <2>4, <2>5, ParserAssumption
    <2>9. validateDetector(promptDetector(p, poll), poll)
      BY <2>1, <2>3, <2>6, <2>7, <2>8, OwnDetectorIsValid
    <2>10. ValidateRuleSpec(parsed)
      BY <2>3, <2>7, <2>9 DEF ValidateRuleSpec, WindowCoversPoll, Rule
    <2> QED BY <2>2, <2>10
  <1> QED BY <1>1, Invariance, PTL
-----------------------------------------------------------------------------
\* The values of readable rows are numbers.
LEMMA ReadableValues ==
  ASSUME NEW s \in Seq(Sample), \A r \in ToSet(s) : r.value # None
  PROVE  \A r \in ToSet(s) : r.value \in Int
  <1>1. ToSet(s) \subseteq Sample
    BY ToSetAppend, Zenon
  <1>2. \A r \in Sample : r.value \in Int \cup {None}
    BY DEF Sample
  <1> QED BY <1>1, <1>2

LEMMA SecondsGrow ==
  \A x, y \in Int : /\ Seconds(x) \in Int /\ Seconds(y) \in Int
                    /\ x <= y => Seconds(x) <= Seconds(y)
  <1>1. \A x, y \in Int, k \in Nat : x <= y => x * k <= y * k
    BY SMTT(30)
  <1>2. TicksPerSecond \in Nat
    BY EvaluationAssumption
  <1> QED BY <1>1, <1>2 DEF Seconds

\* The largest value of a window is as large as any in it, and the smallest as
\* small.
LEMMA AggregateBounds ==
  ASSUME NEW spec, NEW table \in Seq(Sample), NEW t \in Int, spec.window \in Int,
         spec.agg \in {"max", "min"},
         NEW r \in ToSet(table), r.value # None, r.ts >= t - Seconds(spec.window)
  PROVE  LET agg == queryAggregate(spec, table, t)
         IN  /\ agg # None /\ agg.den = 1 /\ agg.num \in Int /\ r.value \in Int
             /\ spec.agg = "max" => agg.num >= r.value
             /\ spec.agg = "min" => agg.num <= r.value
  <1> DEFINE recent == Those(table, {x \in ToSet(table) : x.ts >= t - Seconds(spec.window)})
             values == extractValues(Readable(recent))
             agg == queryAggregate(spec, table, t)
  <1>1. recent \in Seq(Sample) /\ r \in ToSet(recent)
    BY ThoseMembers
  <1>2. /\ Readable(recent) \in Seq(Sample) /\ r \in ToSet(Readable(recent))
        /\ \A x \in ToSet(Readable(recent)) : x.value # None
    BY <1>1, ThoseMembers DEF Readable
  <1>3. \A x \in ToSet(Readable(recent)) : x.value \in Int
    BY <1>2, ReadableValues
  <1>4. values \in Seq(Int) /\ r.value \in ToSet(values) /\ r.value \in Int
    BY <1>2, <1>3, Extracted
  <1>5. values # <<>>
    BY <1>4, ToSetAppend
  <1> HIDE DEF recent
  <1>6. CASE spec.agg = "max"
    <2>1. agg = [num |-> Max(ToSet(values)), den |-> 1]
      BY <1>5, <1>6 DEF queryAggregate, recent
    <2> HIDE DEF agg, values
    <2>2. ToSet(values) \subseteq Int
      BY <1>4, ToSetAppend
    <2>3. Max(ToSet(values)) \in Int /\ Max(ToSet(values)) >= r.value
      BY <1>4, <1>5, <2>2, Extremes
    <2>4. agg \in Fraction /\ agg.den = 1 /\ agg.num = Max(ToSet(values))
      BY <2>1, <2>3 DEF Fraction
    <2> QED BY <1>4, <1>6, <2>3, <2>4, EvaluationAssumption DEF agg
  <1>7. CASE spec.agg = "min"
    <2>1. agg = [num |-> Min(ToSet(values)), den |-> 1]
      BY <1>5, <1>7 DEF queryAggregate, recent
    <2> HIDE DEF agg, values
    <2>2. ToSet(values) \subseteq Int
      BY <1>4, ToSetAppend
    <2>3. Min(ToSet(values)) \in Int /\ Min(ToSet(values)) <= r.value
      BY <1>4, <1>5, <2>2, Extremes
    <2>4. agg \in Fraction /\ agg.den = 1 /\ agg.num = Min(ToSet(values))
      BY <2>1, <2>3 DEF Fraction
    <2> QED BY <1>4, <1>7, <2>3, <2>4, EvaluationAssumption DEF agg
  <1> QED BY <1>6, <1>7

\* A rule on the largest value of a window misses no value above its threshold
\* and one on the smallest none below, whatever the poll interval, the window
\* and the rows, as long as polls are no more than the interval apart
\* (WindowCoversPoll of the validator, queryAggregate and EvaluateCondition).
THEOREM BreachesAreSeen == Spec => []AggregateSeesBreach
  <1>1. Inv => AggregateSeesBreach
    <2> DEFINE d == rule.detector
               t == last.at
               from == IF last.since = None THEN last.at - Seconds(rule.poll) ELSE last.since
               breach(v) == \/ rule.agg = "max" /\ d.op = ">" /\ v > d.value
                            \/ rule.agg = "min" /\ d.op = "<" /\ v < d.value
    <2>0. SUFFICES ASSUME Inv, polls > 0, d.type = "threshold", Aggregating(rule),
                          t - from <= Seconds(rule.poll), Hits(last.answers) = {},
                          NEW i \in 1..last.count, rows[i].ts >= from, rows[i].value # None,
                          breach(rows[i].value)
                   PROVE  FALSE
      BY Zenon DEF AggregateSeesBreach
    <2> DEFINE r == rows[i]
               agg == queryAggregate(rule, Seen, t)
               cond == Times(d, agg.den)
    <2>1. /\ Polled /\ IsDetector(d) /\ rule.poll \in Int
          /\ rule.window \in Int /\ rule.window >= rule.poll
          /\ Seen \in Seq(Sample) /\ Len(Seen) = last.count
          /\ Seen[i] = r /\ r \in Sample
      BY <2>0, LastPoll
    <2>2. t \in Int /\ (last.since = None \/ last.since \in Int)
      BY <2>1 DEF Polled
    <2>3. /\ Seconds(rule.poll) <= Seconds(rule.window)
          /\ Seconds(rule.poll) \in Int /\ Seconds(rule.window) \in Int
      <3>1. rule.poll \in Int /\ rule.window \in Int /\ rule.window >= rule.poll
        BY <2>1, Zenon
      <3>2. rule.poll <= rule.window
        BY <3>1
      <3> QED BY <3>1, <3>2, SecondsGrow, Zenon
    <2>4. r.ts \in Int
      BY <2>1 DEF Sample
    <2>5. from \in Int
      BY <2>2, <2>3
    <2>6. r.ts >= t - Seconds(rule.window)
      BY <2>0, <2>2, <2>3, <2>4, <2>5
    <2>7. r \in ToSet(Seen)
      BY <2>0, <2>1, ToSetAppend
    <2>8. rule.agg \in {"max", "min"} /\ d.op \in {">", "<"}
      BY <2>0
    <2>9. /\ agg # None /\ agg.den = 1 /\ agg.num \in Int /\ r.value \in Int
          /\ rule.agg = "max" => agg.num >= r.value
          /\ rule.agg = "min" => agg.num <= r.value
      BY <2>0, <2>1, <2>2, <2>6, <2>7, <2>8, AggregateBounds
    <2>10. d.value \in Int
      BY <2>0, <2>1, <2>8 DEF IsDetector
    <2>11. last.answers = About(EvaluateCondition(cond, agg.num), <<[ts |-> t]>>)
      <3>1. last.answers = evaluateThreshold(rule, d, Seen, t)
        BY <2>0, <2>1 DEF Polled, evaluateParameterSince
      <3> QED BY <2>0, <2>9, <3>1 DEF evaluateThreshold
    <2> HIDE DEF agg, r, d, cond
    <2>12. cond.op = d.op /\ cond.value = d.value
      <3>1. d.value # None /\ agg.den * d.value = d.value
        BY <2>9, <2>10, EvaluationAssumption
      <3> QED BY <3>1, Zenon DEF cond, Times
    <2>13. agg.num # None
      BY <2>9, EvaluationAssumption
    <2>14. \/ d.op = ">" /\ agg.num > d.value
           \/ d.op = "<" /\ agg.num < d.value
      BY <2>0, <2>9, <2>10 DEF r, d
    <2>15. EvaluateCondition(cond, agg.num).reasons # {}
      BY <2>12, <2>13, <2>14 DEF EvaluateCondition, Result
    <2>16. \A a \in last.answers : a.reasons = EvaluateCondition(cond, agg.num).reasons
      BY <2>11 DEF About
    <2>17. last.answers # {}
      BY <2>11 DEF About
    <2> QED BY <2>0, <2>15, <2>16, <2>17 DEF Hits
  <1> QED BY <1>1, Invariance, PTL
-----------------------------------------------------------------------------
\* How many values it takes for one of them to be k sigma from their mean.
EnoughHistory(d, k, n) ==
    LET unit == SigmaUnit * SigmaUnit
    IN  /\ d.populationSigma => unit * (n - 1) > k * k
        /\ ~d.populationSigma => unit * ((n - 1) * (n - 1)) > k * k * n

LEMMA ShewhartNeedsSamples ==
  ASSUME NEW R, NEW s \in Seq(R), s # <<>>, \A r \in ToSet(s) : r.value \in Int,
         NEW d, NEW k \in Int, EvaluateShewhart(s, d, k).reasons # {}
  PROVE  EnoughHistory(d, k, Len(s))
  <1> USE EvaluationAssumption
  <1> DEFINE values == extractValues(s)
             n == Len(values)
             denom == IF d.populationSigma THEN n ELSE n - 1
             spread == Spread(values)
             sigmaIsZero == denom = 0 \/ spread = 0
             distance == n * values[n] - SumSeq(values)
             far == Beyond(distance, k, n, denom, spread)
             square == distance * distance
  <1>1. values \in Seq(Int) /\ n = Len(s) /\ n \in Nat \ {0} /\ values # <<>>
    <2>1. values \in Seq(Int) /\ n = Len(s)
      BY Extracted
    <2>2. Len(s) \in Nat \ {0}
      BY EmptySeq
    <2> QED BY <2>1, <2>2, EmptySeq
  <1>2. spread \in Nat
    BY <1>1, SpreadNonneg
  <1>3. distance \in Int /\ square <= (n - 1) * spread
    BY <1>1, LastWithinSpread
  <1>4. square \in Nat
    <2> HIDE DEF distance
    <2> QED BY <1>3, SquareNonneg
  <1>5. /\ denom \in {n, n - 1}
        /\ d.populationSigma => denom = n
        /\ ~d.populationSigma => denom = n - 1
    OBVIOUS
  <1>6. EvaluateShewhart(s, d, k) =
          IF n < Default(d.minBaselineN, defaultBaselineMinN) THEN insufficientData
          ELSE Result({r \in {"mean_shift"} : sigmaIsZero /\ distance # 0}
               \cup {r \in {"above_ucl"} : ~sigmaIsZero /\ distance > 0 /\ far}
               \cup {r \in {"below_lcl"} : ~sigmaIsZero /\ distance < 0 /\ far})
    BY Zenon DEF EvaluateShewhart
  <1> HIDE DEF far, distance, sigmaIsZero, denom, spread, n, square
  <1>7. (sigmaIsZero /\ distance # 0) \/ (~sigmaIsZero /\ far)
    <2>1. \A reasons : Result(reasons).reasons = reasons
      BY DEF Result
    <2>2. insufficientData.reasons = {}
      BY DEF insufficientData
    <2> QED BY <1>6, <2>1, <2>2, Zenon
  <1>8. CASE sigmaIsZero /\ distance # 0
    <2>1. square > 0
      <3>1. distance * distance # 0
        BY <1>3, <1>8, SMTT(30)
      <3> QED BY <1>4, <3>1 DEF square
    <2>2. spread = 0 \/ n - 1 = 0
      BY <1>1, <1>5, <1>8 DEF sigmaIsZero
    <2>3. (n - 1) * spread = 0
      BY <1>1, <1>2, <2>2, SMTT(30)
    <2> QED BY <1>3, <1>4, <2>1, <2>3
  <1>9. CASE far
    <2> DEFINE unit == SigmaUnit
    <2>1. unit * unit * (square * denom) > k * k * (n * spread)
      BY <1>9 DEF Beyond, far, square
    <2>2. unit \in Nat
      OBVIOUS
    <2> HIDE DEF unit
    <2>3. /\ denom = n => unit * unit * (n - 1) > k * k
          /\ denom = n - 1 => unit * unit * ((n - 1) * (n - 1)) > k * k * n
      BY <1>1, <1>2, <1>3, <1>4, <1>5, <2>1, <2>2, SigmasNeedSamples
    <2> QED BY <1>1, <1>5, <2>3 DEF EnoughHistory, unit
  <1> QED BY <1>7, <1>8, <1>9

\* The constants of the small sizes.
LEMMA RangeConstants ==
  \A n \in 2..6 : rangeChartConstants[n].D3 = 0 /\ rangeChartConstants[n].D4 \in Nat
  <1>1. /\ rangeChartConstants[2] = [D3 |-> 0, D4 |-> 3267]
        /\ rangeChartConstants[3] = [D3 |-> 0, D4 |-> 2574]
        /\ rangeChartConstants[4] = [D3 |-> 0, D4 |-> 2282]
        /\ rangeChartConstants[5] = [D3 |-> 0, D4 |-> 2114]
        /\ rangeChartConstants[6] = [D3 |-> 0, D4 |-> 2004]
    BY DEF rangeChartConstants
  <1> QED BY <1>1

\* The last range is not much above the mean of ranges it is one of.
LEMMA RangesNeedGroups ==
  ASSUME NEW R, NEW s \in Seq(R), \A r \in ToSet(s) : r.value \in Int,
         NEW groups, Grouping(groups, s, R), NEW d, d.subgroupSize \in Int, d.subgroupSize <= 6,
         EvaluateRangeChart(groups, d).reasons # {}
  PROVE  d.subgroupSize \in 2..6 /\ 1000 * Len(groups) > rangeChartConstants[d.subgroupSize].D4
  <1> DEFINE m == Len(groups)
             rangeOf(g) == subgroupRange(groups[g])
             ranges == [i \in DOMAIN groups |-> rangeOf(i)]
             last1 == Last(ranges)
             latest == 1000 * m * last1
             consts == rangeChartConstants[d.subgroupSize]
             sum == SumSeq(ranges)
             few == \/ groups = <<>>
                    \/ m < Default(d.minBaselineSubgroups, defaultBaselineSubgroups)
  <1>1. /\ m \in Nat /\ DOMAIN groups = 1..m
        /\ \A g \in 1..m : groups[g] \in Seq(R) /\ ToSet(groups[g]) \subseteq ToSet(s)
    BY DEF Grouping
  <1>2. \A g \in 1..m : rangeOf(g) \in Nat
    BY <1>1, RangeIsNatural
  <1>3. EvaluateRangeChart(groups, d) =
          CASE few -> insufficientData
            [] OTHER -> IF d.subgroupSize \notin DOMAIN rangeChartConstants THEN invalidConfig
                        ELSE Result({r \in {"above_ucl_r"} : latest > consts.D4 * sum}
                               \cup {r \in {"below_lcl_r"} : latest < consts.D3 * sum})
    BY Zenon DEF EvaluateRangeChart
  <1> HIDE DEF few, latest, consts, sum, rangeOf, ranges
  <1>4. /\ ~few /\ d.subgroupSize \in DOMAIN rangeChartConstants
        /\ latest > consts.D4 * sum \/ latest < consts.D3 * sum
    <2>1. \A reasons : Result(reasons).reasons = reasons
      BY DEF Result
    <2>2. insufficientData.reasons = {} /\ invalidConfig.reasons = {}
      BY DEF insufficientData, invalidConfig
    <2> QED BY <1>3, <2>1, <2>2, Zenon
  <1>5. d.subgroupSize \in 2..6
    BY <1>4 DEF rangeChartConstants
  <1>6. consts.D3 = 0 /\ consts.D4 \in Nat
    BY <1>5, RangeConstants DEF consts
  <1>7. ranges \in Seq(Nat) /\ Len(ranges) = m
    <2>1. ranges = [i \in 1..m |-> rangeOf(i)]
      BY <1>1 DEF ranges
    <2> QED BY <1>1, <1>2, <2>1
  <1>8. m # 0
    <2>1. groups # <<>> /\ groups \in Seq(Seq(R))
      BY <1>4 DEF few, Grouping
    <2> QED BY <2>1, EmptySeq
  <1>9. ranges # <<>>
    BY <1>7, <1>8
  <1>10. last1 \in Nat /\ sum \in Int /\ sum >= last1
    BY <1>7, <1>9, SumOfNaturals DEF sum
  <1> HIDE DEF last1, m
  <1>11. latest \in Int /\ latest >= 0
    BY <1>1, <1>10, SMTT(30) DEF latest
  <1>12. latest > consts.D4 * sum
    BY <1>4, <1>6, <1>10, <1>11
  <1> DEFINE D4 == consts.D4
             few1000 == 1000 * m
  <1>13. D4 \in Nat /\ few1000 \in Nat /\ few1000 * last1 > D4 * sum
    BY <1>1, <1>6, <1>12 DEF latest
  <1> HIDE DEF D4, few1000
  <1>14. sum * D4 >= last1 * D4
    BY <1>10, <1>13, Scaled
  <1>15. D4 * last1 < few1000 * last1
    <2>1. sum * D4 = D4 * sum /\ last1 * D4 = D4 * last1
      BY <1>10, <1>13
    <2>2. D4 * sum \in Int /\ D4 * last1 \in Int /\ few1000 * last1 \in Int
      BY <1>10, <1>13
    <2> QED BY <1>13, <1>14, <2>1, <2>2
  <1>16. D4 < few1000
    BY <1>10, <1>13, <1>15, Unscaled
  <1> QED BY <1>1, <1>5, <1>13, <1>16 DEF D4, few1000, consts, m

\* The groups of a range chart.
LEMMA ChartGroups ==
  ASSUME NEW d, d.subgroupSize \in Nat \ {0}, NEW s \in Seq(Sample)
  PROVE  Grouping(subgroups(d, s), s, Sample)
  <1>1. \A r \in Sample : r.group \in Int \cup {None}
    BY DEF Sample
  <1> QED BY <1>1, GroupsByKey, ConsecutiveGroups, Zenon DEF subgroups

\* A control chart can only alert with so many samples, for all settings and
\* every table: the newest sample moves the limits it is judged by
\* (EvaluateShewhart and EvaluateRangeChart).
THEOREM LimitsAreOutOfReach == Spec => []LimitsNeedHistory
  <1>1. Inv => LimitsNeedHistory
    <2> DEFINE d == rule.detector
               samples == baselineSamples(d, Seen, last.at)
               k == sigmas(d)
    <2> SUFFICES ASSUME Inv, Hits(last.answers) # {}
                 PROVE  /\ d.type = "shewhart" => EnoughHistory(d, k, Len(samples))
                        /\ (d.type = "range_chart" /\ d.subgroupSize <= 6) =>
                              1000 * Len(subgroups(d, samples))
                                 > rangeChartConstants[d.subgroupSize].D4
      BY Zenon DEF LimitsNeedHistory, EnoughHistory, Seen
    <2>1. polls > 0
      <3>1. polls # 0
        BY DEF Inv, NoPoll, Hits
      <3> QED BY <3>1 DEF Inv
    <2>2. /\ Polled /\ IsDetector(d) /\ (d.type = "shewhart" => d.minBaselineN >= 0)
          /\ Seen \in Seq(Sample) /\ Past(Seen, last.at)
      BY <2>1, LastPoll
    <2>3. /\ last.at \in Int /\ (last.since = None \/ last.since \in Int)
          /\ last.answers = evaluateParameterSince(rule, Seen, last.at, last.since)
      BY <2>2 DEF Polled
    <2>4. ASSUME d.type \in {"shewhart", "range_chart"}
          PROVE  /\ samples \in Seq(Sample) /\ samples # <<>>
                 /\ \A r \in ToSet(samples) : r.value # None
                 /\ ChartResult(d, samples).reasons # {}
      BY <2>2, <2>3, <2>4, ChartHit, Zenon
    <2> HIDE DEF samples
    <2>5. d.type \in {"shewhart", "range_chart"} => \A r \in ToSet(samples) : r.value \in Int
      BY <2>4, ReadableValues
    <2>6. CASE d.type = "shewhart"
      <3>1. k \in Int
        BY <2>2, <2>6, EvaluationAssumption DEF IsDetector, sigmas, Default
      <3>2. EvaluateShewhart(samples, d, k).reasons # {}
        BY <2>4, <2>6 DEF ChartResult
      <3> HIDE DEF k
      <3> QED BY <2>4, <2>5, <2>6, <3>1, <3>2, ShewhartNeedsSamples
    <2>7. CASE d.type = "range_chart" /\ d.subgroupSize <= 6
      <3>1. d.subgroupSize \in Int
        BY <2>2, <2>7 DEF IsDetector
      <3>2. EvaluateRangeChart(subgroups(d, samples), d).reasons # {}
        BY <2>4, <2>7 DEF ChartResult
      <3>3. d.subgroupSize \in DOMAIN rangeChartConstants
        BY <3>2, Zenon DEF EvaluateRangeChart, insufficientData, invalidConfig
      <3>4. d.subgroupSize \in Nat \ {0}
        BY <3>3 DEF rangeChartConstants
      <3>5. Grouping(subgroups(d, samples), samples, Sample)
        BY <2>4, <2>7, <3>4, ChartGroups
      <3> QED BY <2>4, <2>5, <2>7, <3>1, <3>2, <3>5, RangesNeedGroups
    <2> QED BY <2>6, <2>7
  <1> QED BY <1>1, Invariance, PTL

-----------------------------------------------------------------------------
\* Steps in one direction make a trend of all pairs.
LEMMA StepsAreMonotone ==
  ASSUME NEW s \in Seq(Sample), \A i \in 1..Len(s) : s[i].value \in Int,
         NEW epsilon \in Int, NEW sign \in {1, -1},
         \A i \in 1..(Len(s) - 1) : sign * (s[i + 1].value - s[i].value) > epsilon
  PROVE  Monotone(s, epsilon)
  <1> DEFINE n == Len(s)
             v == [i \in 1..n |-> sign * s[i].value]
  <1>1. n \in Nat /\ DOMAIN s = 1..n /\ \A i \in 1..n : s[i].value \in Int
    OBVIOUS
  <1>2. \A i \in 1..(n - 1) : sign * (s[i + 1].value - s[i].value) > epsilon
    OBVIOUS
  <1> HIDE DEF n
  <1>3. \A x, y \in Int : /\ sign * (x - y) = sign * x - sign * y
                          /\ sign * x \in Int /\ sign * y \in Int
    OBVIOUS
  <1>4. v \in [1..n -> Int] /\ \A i \in 1..n : v[i] = sign * s[i].value
    BY <1>1, <1>3
  <1>5. \A i \in 1..(n - 1) : i \in 1..n /\ i + 1 \in 1..n
    BY <1>1
  <1> HIDE DEF v
  <1>6. \A i \in 1..(n - 1) : v[i + 1] - v[i] > epsilon
    <2> SUFFICES ASSUME NEW i \in 1..(n - 1) PROVE v[i + 1] - v[i] > epsilon
      OBVIOUS
    <2>1. v[i + 1] = sign * s[i + 1].value /\ v[i] = sign * s[i].value
      BY <1>4, <1>5
    <2>2. sign * (s[i + 1].value - s[i].value) = sign * s[i + 1].value - sign * s[i].value
      BY <1>1, <1>3, <1>5
    <2> QED BY <1>2, <2>1, <2>2
  <1>7. \A i, j \in 1..n : i < j => v[j] - v[i] > (j - i) * epsilon
    BY <1>1, <1>4, <1>6, StepsAddUp
  <1>8. \A i, j \in 1..n : i < j => sign * (s[j].value - s[i].value) > (j - i) * epsilon
    <2> SUFFICES ASSUME NEW i \in 1..n, NEW j \in 1..n, i < j
                 PROVE  sign * (s[j].value - s[i].value) > (j - i) * epsilon
      OBVIOUS
    <2>1. v[j] - v[i] > (j - i) * epsilon
      BY <1>7
    <2>2. sign * (s[j].value - s[i].value) = v[j] - v[i]
      BY <1>1, <1>3, <1>4
    <2> QED BY <2>1, <2>2
  <1>9. \A p \in Pairs(s) : p[1] \in 1..n /\ p[2] \in 1..n /\ p[1] < p[2]
    BY <1>1 DEF Pairs
  <1> QED BY <1>8, <1>9 DEF Monotone

\* A trend that EvaluateTrend6 reports runs through its last samples.
LEMMA TrendFound ==
  ASSUME NEW samples \in Seq(Sample), \A r \in ToSet(samples) : r.value # None,
         NEW d, d.windowSize \in Nat \ {0}, d.epsilon \in Int,
         EvaluateTrend6(samples, d).reasons # {}
  PROVE  /\ d.windowSize <= Len(samples)
         /\ Monotone(SubSeq(samples, Len(samples) - d.windowSize + 1, Len(samples)), d.epsilon)
  <1> DEFINE l == Len(samples)
             w == d.windowSize
             segment == SubSeq(samples, l - w + 1, l)
             increasing == \A i \in 1..(w - 1) :
                               segment[i + 1].value - segment[i].value > d.epsilon
             decreasing == \A i \in 1..(w - 1) :
                               -(segment[i + 1].value - segment[i].value) > d.epsilon
  <1>1. Default(d.windowSize, defaultTrendWindowSize) = w
    BY DEF Default
  <1>2. ~(l < w) /\ (increasing \/ decreasing)
    <2> DEFINE W == Default(d.windowSize, defaultTrendWindowSize)
               part == SubSeq(samples, l - W + 1, l)
               up == \A i \in 1..(W - 1) : part[i + 1].value - part[i].value > d.epsilon
               down == \A i \in 1..(W - 1) : -(part[i + 1].value - part[i].value) > d.epsilon
               reasons == {r \in {"increasing"} : up} \cup {r \in {"decreasing"} : down /\ ~up}
    <2>1. EvaluateTrend6(samples, d) = IF l < W THEN insufficientData ELSE Result(reasons)
      BY Zenon DEF EvaluateTrend6, Exceeds
    <2>2. insufficientData.reasons = {}
      BY DEF insufficientData
    <2>3. \A R : Result(R).reasons = R
      BY DEF Result
    <2> HIDE DEF up, down
    <2>4. ~(l < W) /\ reasons # {}
      BY <2>1, <2>2, <2>3, Zenon
    <2>5. up \/ down
      BY <2>4
    <2> QED BY <1>1, <2>4, <2>5, Zenon DEF up, down
  <1>3. l \in Nat /\ w \in Nat /\ w >= 1 /\ \A i \in 1..l : samples[i] \in Sample
    OBVIOUS
  <1>4. \A i \in 1..l : samples[i].value \in Int
    BY <1>3, ReadableValues, ToSetAppend
  <1> HIDE DEF l, w
  <1>5. /\ segment \in Seq(Sample) /\ Len(segment) = w
        /\ \A i \in 1..w : segment[i].value \in Int
    <2> DEFINE a == l - w + 1
    <2>1. /\ a \in Int /\ l \in Int /\ a <= l /\ l - a + 1 = w
          /\ \A i \in 1..w : a + i - 1 \in 1..l
      BY <1>2, <1>3
    <2>2. \A i \in a..l : samples[i] \in Sample
      BY <1>2, <1>3
    <2> HIDE DEF a
    <2>3. /\ SubSeq(samples, a, l) \in Seq(Sample)
          /\ Len(SubSeq(samples, a, l)) = (IF a <= l THEN l - a + 1 ELSE 0)
          /\ \A i \in 1..(l - a + 1) : SubSeq(samples, a, l)[i] = samples[a + i - 1]
      BY <2>1, <2>2, SubSeqProperties
    <2>4. segment = SubSeq(samples, a, l)
      BY Zenon DEF a
    <2> HIDE DEF segment
    <2> QED BY <1>4, <2>1, <2>3, <2>4
  <1> HIDE DEF segment
  <1>6. \A x, y \in Int : 1 * (x - y) = x - y /\ (-1) * (x - y) = -(x - y)
    OBVIOUS
  <1>7. \A i \in 1..(w - 1) : i \in 1..w /\ i + 1 \in 1..w
    BY <1>3
  <1>8. Monotone(segment, d.epsilon)
    <2>1. CASE increasing
      <3>1. \A i \in 1..(w - 1) : 1 * (segment[i + 1].value - segment[i].value) > d.epsilon
        BY <1>5, <1>6, <1>7, <2>1
      <3>2. 1 \in {1, -1}
        OBVIOUS
      <3> QED BY <1>5, <3>1, <3>2, StepsAreMonotone
    <2>2. CASE decreasing
      <3>1. \A i \in 1..(w - 1) : (-1) * (segment[i + 1].value - segment[i].value) > d.epsilon
        BY <1>5, <1>6, <1>7, <2>2
      <3>2. -1 \in {1, -1}
        OBVIOUS
      <3> QED BY <1>5, <3>1, <3>2, StepsAreMonotone
    <2> QED BY <1>2, <2>1, <2>2
  <1>9. w <= l
    BY <1>2, <1>3
  <1> QED BY <1>8, <1>9 DEF segment, l, w

\* A hit of a trend rule is one of EvaluateTrend6 on the newest readable rows.
LEMMA TrendHit ==
  ASSUME NEW spec, NEW table \in Seq(Sample), InOrder(table), NEW t \in Int, NEW since,
         since = None \/ since \in Int, spec.poll \in Int,
         IsDetector(spec.detector), spec.detector.type = "trend", spec.detector.windowSize > 0,
         Hits(evaluateParameterSince(spec, table, t, since)) # {}
  PROVE  LET d == spec.detector
             window == Max({1, Len(Readable(table)) - d.windowSize + 1})
         IN  /\ d.windowSize <= Len(Readable(table))
             /\ Monotone(SubSeq(Readable(table), window, Len(Readable(table))), d.epsilon)
  <1> DEFINE d == spec.detector
             w == Default(d.windowSize, defaultTrendWindowSize)
             from == windowSince(spec, t, since)
             limit == clampLimit(w, MaxSampleRows)
             samples == fetchSamples(table, from, limit)
             all == Readable(table)
  <1>1. d.windowSize \in Nat \ {0} /\ d.epsilon \in Int
    BY DEF IsDetector
  <1>2. limit \in Int
    BY <1>1, EvaluationAssumption DEF clampLimit, Default
  <1>3. from \in Int
    <2>1. Seconds(spec.poll) \in Int
      BY SecondsGrow
    <2> QED BY <2>1 DEF windowSince
  <1> HIDE DEF from, limit
  <1>4. /\ samples \in Seq(Sample) /\ \A r \in ToSet(samples) : r.value # None
    BY <1>2, Fetched
  <1>5. Ends(samples, all)
    <2>1. \A r \in Sample : r.ts \in Int
      BY DEF Sample
    <2>2. TicksPerSecond \in Nat \ {0}
      BY EvaluationAssumption
    <2>3. \A i, j \in 1..Len(table) : i < j => table[i].ts < table[j].ts
      BY DEF InOrder
    <2> QED BY <1>2, <1>3, <2>1, <2>2, <2>3, FetchedEnd
  <1>6. all \in Seq(Sample)
    BY ThoseMembers DEF Readable
  <1>7. EvaluateTrend6(samples, d).reasons # {}
    <2>1. evaluateParameterSince(spec, table, t, since) = evaluateTrend(spec, d, table, t, since)
      BY DEF evaluateParameterSince
    <2>2. evaluateTrend(spec, d, table, t, since)
             = IF d.consecutive /\ ~hasConsecutiveTimestamps(samples)
               THEN About(insufficientData, samples)
               ELSE About(EvaluateTrend6(samples, d), samples)
      BY Zenon DEF evaluateTrend, from, limit
    <2> HIDE DEF samples
    <2>3. \A result : \A a \in About(result, samples) : a.reasons = result.reasons
      BY DEF About
    <2>4. insufficientData.reasons = {}
      BY DEF insufficientData
    <2>5. PICK a \in evaluateTrend(spec, d, table, t, since) : a.reasons # {}
      BY <2>1 DEF Hits
    <2> QED BY <2>2, <2>3, <2>4, <2>5, Zenon
  <1> HIDE DEF samples, all, d
  <1>8. /\ d.windowSize <= Len(samples)
        /\ Monotone(SubSeq(samples, Len(samples) - d.windowSize + 1, Len(samples)), d.epsilon)
    BY <1>1, <1>4, <1>7, TrendFound
  <1>9. /\ d.windowSize <= Len(all)
        /\ SubSeq(all, Max({1, Len(all) - d.windowSize + 1}), Len(all))
              = SubSeq(samples, Len(samples) - d.windowSize + 1, Len(samples))
    BY <1>1, <1>4, <1>5, <1>6, <1>8, NewestOfEnd
  <1> QED BY <1>8, <1>9, Zenon DEF all, d

\* A trend rule alerts only on a trend: the samples it fetches are the newest of
\* the table, however the window and the limit cut them, and steps between
\* neighbours that all exceed epsilon add up (evaluateParameterSince,
\* EvaluateTrend6).
THEOREM TrendAlertsAreTrends == Spec => []TrendAlertIsATrend
  <1>1. Inv => TrendAlertIsATrend
    <2> DEFINE d == rule.detector
               all == Readable(Seen)
    <2> SUFFICES ASSUME Inv, d.type = "trend", Hits(last.answers) # {}
                 PROVE  d.windowSize <= Len(all) /\ Monotone(TrendWindow(d, Seen), d.epsilon)
      BY Zenon DEF TrendAlertIsATrend, Seen
    <2>1. polls > 0
      <3>1. polls # 0
        BY DEF Inv, NoPoll, Hits
      <3> QED BY <3>1 DEF Inv
    <2>2. /\ Polled /\ IsDetector(d) /\ d.windowSize > 0 /\ rule.poll \in Int
          /\ Seen \in Seq(Sample) /\ InOrder(Seen)
      BY <2>1, LastPoll
    <2>3. /\ last.at \in Int /\ (last.since = None \/ last.since \in Int)
          /\ last.answers = evaluateParameterSince(rule, Seen, last.at, last.since)
      BY <2>2 DEF Polled
    <2>4. TrendWindow(d, Seen) = SubSeq(all, Max({1, Len(all) - d.windowSize + 1}), Len(all))
      BY Zenon DEF TrendWindow
    <2> DEFINE since == last.since
               t == last.at
               table == Seen
    <2>5. Hits(evaluateParameterSince(rule, table, t, since)) # {}
      BY <2>3
    <2>6. table \in Seq(Sample) /\ InOrder(table) /\ t \in Int /\ (since = None \/ since \in Int)
      BY <2>2, <2>3
    <2> HIDE DEF table, t, since
    <2>7. /\ d.windowSize <= Len(Readable(table))
          /\ Monotone(SubSeq(Readable(table), Max({1, Len(Readable(table)) - d.windowSize + 1}),
                             Len(Readable(table))), d.epsilon)
      BY <2>2, <2>5, <2>6, TrendHit, Zenon
    <2> QED BY <2>4, <2>7, Zenon DEF table
  <1> QED BY <1>1, Invariance, PTL

-----------------------------------------------------------------------------
\* The samples of a baseline that is not a range: those of the last year.
LEMMA BaselineFetched ==
  ASSUME NEW d, NEW table \in Seq(Sample), NEW t \in Int,
         d.baseline.timeRange = None, baselineLastN(d.baseline) \in Nat \ {0}
  PROVE  /\ buildBaselineWindow(t, d.baseline, MaxSampleRows) # None
         /\ baselineSamples(d, table, t) =
               fetchSamples(table, t - Year, clampLimit(baselineLastN(d.baseline), MaxSampleRows))
  <1> DEFINE n == baselineLastN(d.baseline)
             limit == clampLimit(n, MaxSampleRows)
             w == [since |-> t - Year, start |-> None, end |-> None, limit |-> limit]
             samples == fetchSamples(table, t - Year, limit)
  <1>1. ~(n <= 0) /\ limit \in Int /\ t - Year \in Int
    BY EvaluationAssumption DEF clampLimit
  <1>2. buildBaselineWindow(t, d.baseline, MaxSampleRows) = w
    <2> HIDE DEF w
    <2>1. ~(baselineLastN(d.baseline) <= 0)
      BY <1>1
    <2> HIDE DEF n
    <2> QED BY <2>1, Zenon DEF buildBaselineWindow, w, limit, n
  <1> HIDE DEF n, limit
  <1>3. w \in BaselineWindow
    BY <1>1 DEF BaselineWindow
  <1>4. w # None
    BY <1>3, EvaluationAssumption
  <1>5. w.since = t - Year /\ w.limit = limit /\ w.start = None /\ w.end = None
    OBVIOUS
  <1> HIDE DEF w
  <1>6. samples \in Seq(Sample)
    BY <1>1, Fetched
  <1>7. baselineSamples(d, table, t) = filterSamplesByRange(samples, None, None)
    BY <1>2, <1>5, Zenon DEF baselineSamples
  <1> HIDE DEF samples
  <1>8. baselineSamples(d, table, t) = samples
    BY <1>6, <1>7, NotFiltered
  <1> QED BY <1>2, <1>4, <1>8 DEF samples, limit, n

\* What the conversion makes of the catalog's settings.
LEMMA CatalogForms ==
  /\ DOMAIN CatalogExamples = {"SPEC_LIMIT_VIOLATION", "SHEWHART_3SIGMA", "SHEWHART_2SIGMA",
                               "RANGE_CHART_R", "TREND_6_POINTS", "TPA"}
  /\ CatalogExamples["SHEWHART_3SIGMA"] =
        [sigmaMultiplier |-> 3 * SigmaUnit, minBaselineN |-> defaultBaselineMinN]
  /\ CatalogExamples["SHEWHART_2SIGMA"] =
        [sigmaMultiplier |-> 2 * SigmaUnit, minBaselineN |-> defaultBaselineMinN]
  /\ CatalogExamples["RANGE_CHART_R"] =
        [subgroupSize |-> defaultSubgroupSize, minBaselineSubgroups |-> defaultBaselineSubgroups]
  /\ CatalogDefaults["SHEWHART_3SIGMA"] =
        [baseline |-> catalogSelector, minBaselineN |-> defaultBaselineMinN]
  /\ CatalogDefaults["SHEWHART_2SIGMA"] =
        [baseline |-> catalogSelector, minBaselineN |-> defaultBaselineMinN]
  /\ CatalogDefaults["RANGE_CHART_R"] =
        [baseline |-> catalogSelector,
         subgrouping |-> [kind |-> "column", subgroupSize |-> defaultSubgroupSize],
         minBaselineSubgroups |-> defaultBaselineSubgroups]
  /\ CatalogDefaults["TREND_6_POINTS"] =
        [windowSize |-> defaultTrendWindowSize, epsilon |-> 0, requireConsecutiveTimestamps |-> TRUE]
  /\ CatalogExamples["TREND_6_POINTS"] = CatalogDefaults["TREND_6_POINTS"]
  BY Zenon DEF CatalogExamples, CatalogDefaults

\* A baseline of the catalog is no range, and asks for at least the default.
CatalogBaseline(b) ==
    /\ b.timeRange = None
    /\ baselineLastN(b) \in {defaultBaselineLastN, catalogLastN}

LEMMA CatalogBaselines ==
  ASSUME NEW cfg, \/ "baseline" \notin DOMAIN cfg
                  \/ "baseline" \in DOMAIN cfg /\ cfg["baseline"] = catalogSelector
  PROVE  CatalogBaseline(buildBaselineSpec(cfg))
  <1>1. CASE "baseline" \notin DOMAIN cfg
    <2>1. Setting(cfg, "baseline", <<>>) = <<>>
      BY <1>1 DEF Setting
    <2>2. DOMAIN <<>> = {}
      OBVIOUS
    <2>3. \A name, v : Setting(<<>>, name, v) = v
      BY <2>2 DEF Setting
    <2>4. [kind |-> ""].kind = "" /\ "" # "lastN" /\ "" # "dateRange"
      OBVIOUS
    <2>5. buildBaselineSpec(cfg) = [lastN |-> None, timeRange |-> None]
      BY <2>1, <2>2, <2>3, <2>4, Zenon DEF buildBaselineSpec
    <2> QED BY <2>5 DEF CatalogBaseline, baselineLastN, Given
  <1>2. CASE "baseline" \in DOMAIN cfg /\ cfg["baseline"] = catalogSelector
    <2> DEFINE sel == [kind |-> "lastN", value |-> catalogLastN]
    <2>1. Setting(cfg, "baseline", <<>>) = catalogSelector
      BY <1>2 DEF Setting
    <2>2. Setting(catalogSelector, "selector", [kind |-> ""]) = sel
      BY DEF Setting, catalogSelector
    <2>3. sel.kind = "lastN" /\ Setting(sel, "value", None) = catalogLastN
      BY DEF Setting
    <2>4. catalogLastN # None
      BY CatalogAssumption, EvaluationAssumption
    <2> HIDE DEF sel
    <2>5. buildBaselineSpec(cfg) = [lastN |-> catalogLastN, timeRange |-> None]
      BY <2>1, <2>2, <2>3, <2>4, Zenon DEF buildBaselineSpec
    <2> QED BY <2>4, <2>5 DEF CatalogBaseline, baselineLastN, Given
  <1> QED BY <1>1, <1>2

LEMMA CatalogCharts ==
  ASSUME NEW type \in {"SHEWHART_3SIGMA", "SHEWHART_2SIGMA", "RANGE_CHART_R"},
         NEW cfg \in {CatalogExamples[type], Filled(CatalogExamples[type], CatalogDefaults[type])}
  PROVE  LET d == buildDetector(type, cfg)
         IN  /\ CatalogBaseline(d.baseline)
             /\ type \in ShewhartTypes =>
                   d.type = "shewhart" /\ d.minBaselineN = defaultBaselineMinN
             /\ type = "RANGE_CHART_R" =>
                   /\ d.type = "range_chart" /\ d.column = ""
                   /\ d.subgroupSize = defaultSubgroupSize
                   /\ d.minBaselineSubgroups = defaultBaselineSubgroups
  <1>1. /\ \/ "baseline" \notin DOMAIN cfg
           \/ "baseline" \in DOMAIN cfg /\ cfg["baseline"] = catalogSelector
        /\ type \in ShewhartTypes =>
              "minBaselineN" \in DOMAIN cfg /\ cfg["minBaselineN"] = defaultBaselineMinN
        /\ type = "RANGE_CHART_R" =>
              /\ "minBaselineSubgroups" \in DOMAIN cfg
              /\ cfg["minBaselineSubgroups"] = defaultBaselineSubgroups
              /\ "subgroupSize" \in DOMAIN cfg /\ cfg["subgroupSize"] = defaultSubgroupSize
              /\ \/ "subgrouping" \notin DOMAIN cfg
                 \/ /\ "subgrouping" \in DOMAIN cfg
                    /\ cfg["subgrouping"] = [kind |-> "column", subgroupSize |-> defaultSubgroupSize]
    <2>1. CASE type = "SHEWHART_3SIGMA"
      BY <2>1, CatalogForms DEF Filled
    <2>2. CASE type = "SHEWHART_2SIGMA"
      BY <2>2, CatalogForms DEF Filled
    <2>3. CASE type = "RANGE_CHART_R"
      BY <2>3, CatalogForms DEF Filled, ShewhartTypes
    <2> QED BY <2>1, <2>2, <2>3
  <1>2. CatalogBaseline(buildBaselineSpec(cfg))
    BY <1>1, CatalogBaselines
  <1>3. CASE type \in ShewhartTypes
    <2>1. buildDetector(type, cfg) = buildShewhart(type, cfg)
      BY <1>3 DEF buildDetector, ShewhartTypes
    <2>2. Positive(cfg, "minBaselineN", defaultBaselineMinN) = defaultBaselineMinN
      BY <1>1, <1>3 DEF Positive
    <2>3. /\ buildShewhart(type, cfg).type = "shewhart"
          /\ buildShewhart(type, cfg).minBaselineN = defaultBaselineMinN
          /\ buildShewhart(type, cfg).baseline = buildBaselineSpec(cfg)
      BY <2>2 DEF buildShewhart
    <2> QED BY <1>2, <1>3, <2>1, <2>3 DEF ShewhartTypes
  <1>4. CASE type = "RANGE_CHART_R"
    <2> DEFINE by == Setting(cfg, "subgrouping", <<>>)
    <2>1. buildDetector(type, cfg) = buildRangeChart(cfg)
      BY <1>4 DEF buildDetector, ShewhartTypes
    <2>2. Positive(cfg, "minBaselineSubgroups", defaultBaselineSubgroups) = defaultBaselineSubgroups
      BY <1>1, <1>4 DEF Positive
    <2>3. Positive(cfg, "subgroupSize", defaultSubgroupSize) = defaultSubgroupSize
      BY <1>1, <1>4 DEF Positive
    <2>4. by = <<>> \/ by = [kind |-> "column", subgroupSize |-> defaultSubgroupSize]
      BY <1>1, <1>4 DEF Setting
    <2> HIDE DEF by
    <2>5. DOMAIN <<>> = {} /\ ~(0 > 0)
      OBVIOUS
    <2>6. /\ Positive(by, "subgroupSize", defaultSubgroupSize) = defaultSubgroupSize
          /\ Setting(by, "column", "") = ""
      <3>1. CASE by = <<>>
        BY <2>5, <3>1, Zenon DEF Positive, Setting
      <3>2. CASE by = [kind |-> "column", subgroupSize |-> defaultSubgroupSize]
        <4>1. /\ "column" \notin DOMAIN by /\ "subgroupSize" \in DOMAIN by
              /\ by["subgroupSize"] = defaultSubgroupSize
          BY <3>2
        <4> QED BY <4>1, Zenon DEF Positive, Setting
      <3> QED BY <2>4, <3>1, <3>2
    <2>7. LET d == buildRangeChart(cfg)
          IN  /\ d.type = "range_chart" /\ d.column = ""
              /\ d.subgroupSize = defaultSubgroupSize
              /\ d.minBaselineSubgroups = defaultBaselineSubgroups
              /\ d.baseline = buildBaselineSpec(cfg)
      BY <2>2, <2>3, <2>6 DEF buildRangeChart, by
    <2> QED BY <1>2, <1>4, <2>1, <2>7 DEF ShewhartTypes
  <1> QED BY <1>3, <1>4 DEF ShewhartTypes

\* The trend of the catalog.
LEMMA CatalogTrend ==
  ASSUME NEW cfg \in {CatalogExamples["TREND_6_POINTS"],
                      Filled(CatalogExamples["TREND_6_POINTS"], CatalogDefaults["TREND_6_POINTS"])}
  PROVE  LET d == buildDetector("TREND_6_POINTS", cfg)
         IN  d.type = "trend" /\ d.windowSize = defaultTrendWindowSize
  <1>1. "windowSize" \in DOMAIN cfg /\ cfg["windowSize"] = defaultTrendWindowSize
    BY CatalogForms DEF Filled
  <1>2. Positive(cfg, "windowSize", defaultTrendWindowSize) = defaultTrendWindowSize
    BY <1>1 DEF Positive
  <1>3. buildTrend(cfg).type = "trend" /\ buildTrend(cfg).windowSize = defaultTrendWindowSize
    BY <1>2 DEF buildTrend
  <1> QED BY <1>3, Zenon DEF buildDetector, ShewhartTypes

\* Detectors with enough data, and constants for their subgroups, have an answer.
Wants == {"INSUFFICIENT_DATA", "INVALID_CONFIG", "ERROR"}

LEMMA EnoughData ==
  ASSUME NEW samples, NEW d, NEW k
  PROVE  /\ ~(Len(extractValues(samples)) < Default(d.minBaselineN, defaultBaselineMinN)) =>
               EvaluateShewhart(samples, d, k).status \notin Wants
         /\ (/\ samples # <<>>
             /\ ~(Len(samples) < Default(d.minBaselineSubgroups, defaultBaselineSubgroups))
             /\ d.subgroupSize \in DOMAIN rangeChartConstants) =>
               EvaluateRangeChart(samples, d).status \notin Wants
         /\ ~(Len(samples) < Default(d.windowSize, defaultTrendWindowSize)) =>
               EvaluateTrend6(samples, d).status \notin Wants
  <1>1. \A reasons : Result(reasons).status \notin Wants
    BY DEF Result, Wants
  <1>2. EvaluateShewhart(samples, d, k).status \notin Wants
           \/ Len(extractValues(samples)) < Default(d.minBaselineN, defaultBaselineMinN)
    BY <1>1, Zenon DEF EvaluateShewhart
  <1>3. ASSUME samples # <<>>,
               ~(Len(samples) < Default(d.minBaselineSubgroups, defaultBaselineSubgroups)),
               d.subgroupSize \in DOMAIN rangeChartConstants
        PROVE  EvaluateRangeChart(samples, d).status \notin Wants
    BY <1>1, <1>3, Zenon DEF EvaluateRangeChart
  <1>4. EvaluateTrend6(samples, d).status \notin Wants
           \/ Len(samples) < Default(d.windowSize, defaultTrendWindowSize)
    BY <1>1, Zenon DEF EvaluateTrend6
  <1> QED BY <1>2, <1>3, <1>4, Zenon

\* The samples of a baseline of the catalog are no fewer than the newest ones
\* that the catalog counts.
LEMMA CatalogSamples ==
  ASSUME NEW d, NEW table \in Seq(Sample), NEW t \in Int,
         \A r \in ToSet(table) : r.value # None, CatalogBaseline(d.baseline)
  PROVE  /\ buildBaselineWindow(t, d.baseline, MaxSampleRows) # None
         /\ Len(baselineSamples(d, table, t))
               >= Len(fetchSamples(table, t - Year, defaultBaselineLastN))
  <1> DEFINE n == baselineLastN(d.baseline)
             limit == clampLimit(n, MaxSampleRows)
             available == Len(Recent(table, t - Year))
  <1>1. /\ n \in Nat \ {0} /\ defaultBaselineLastN \in Nat /\ MaxSampleRows \in Nat \ {0}
        /\ defaultBaselineLastN <= n /\ defaultBaselineLastN <= MaxSampleRows
    BY CatalogAssumption, EvaluationAssumption DEF CatalogBaseline
  <1>2. /\ buildBaselineWindow(t, d.baseline, MaxSampleRows) # None
        /\ baselineSamples(d, table, t) = fetchSamples(table, t - Year, limit)
    BY <1>1, BaselineFetched DEF CatalogBaseline
  <1>3. limit \in Nat /\ defaultBaselineLastN <= limit
    BY <1>1 DEF clampLimit
  <1> HIDE DEF limit, n
  <1>4. /\ available \in Nat
        /\ Len(fetchSamples(table, t - Year, limit))
              = IF limit <= available THEN limit ELSE available
    BY <1>3, FetchedLength
  <1>5. Len(fetchSamples(table, t - Year, defaultBaselineLastN))
           = IF defaultBaselineLastN <= available THEN defaultBaselineLastN ELSE available
    BY <1>1, FetchedLength
  <1> HIDE DEF available
  <1> QED BY <1>1, <1>2, <1>3, <1>4, <1>5

\* A trend looks at the last samples that the catalog counts.
LEMMA TrendSamples ==
  ASSUME NEW table \in Seq(Sample), InOrder(table), NEW since \in Int,
         \A r \in ToSet(table) : r.value # None,
         Len(fetchSamples(table, since, defaultBaselineLastN)) >= defaultTrendWindowSize
  PROVE  LET newest == fetchSamples(table, since, defaultBaselineLastN)
             samples == fetchSamples(table, since,
                                     clampLimit(defaultTrendWindowSize, MaxSampleRows))
         IN  /\ Len(samples) = defaultTrendWindowSize
             /\ samples = SubSeq(newest, Len(newest) - defaultTrendWindowSize + 1, Len(newest))
  <1> DEFINE w == defaultTrendWindowSize
             more == defaultBaselineLastN
             limit == clampLimit(w, MaxSampleRows)
             newest == fetchSamples(table, since, more)
             samples == fetchSamples(table, since, limit)
             available == Len(Recent(table, since))
  <1>1. /\ w \in Nat \ {0} /\ more \in Nat /\ w <= more
        /\ more <= MaxSampleRows /\ MaxSampleRows \in Nat
    BY CatalogAssumption, DefaultAssumption, EvaluationAssumption
  <1>2. limit = w
    BY <1>1 DEF clampLimit
  <1> HIDE DEF limit, w, more
  <1>3. \A r \in Sample : r.ts \in Int
    BY DEF Sample
  <1>4. newest \in Seq(Sample) /\ samples \in Seq(Sample)
    BY <1>1, <1>2, Fetched
  <1>5. Ends(samples, newest)
    BY <1>1, <1>2, <1>3, EvaluationAssumption, FetchedWithin DEF InOrder
  <1>6. /\ available \in Nat
        /\ Len(samples) = IF limit <= available THEN limit ELSE available
        /\ Len(newest) = IF more <= available THEN more ELSE available
    BY <1>1, <1>2, FetchedLength
  <1>7. Len(newest) >= w
    BY DEF w, more
  <1> HIDE DEF newest, samples, available
  <1>8. Len(samples) = w /\ Len(newest) \in Nat
    BY <1>1, <1>2, <1>4, <1>6, <1>7
  <1>9. SubSeq(newest, Max({1, Len(newest) - w + 1}), Len(newest))
           = SubSeq(samples, Len(samples) - w + 1, Len(samples))
    <2>1. w \in Nat /\ w <= Len(samples)
      BY <1>1, <1>8
    <2> QED BY <1>4, <1>5, <2>1, NewestOfEnd
  <1> DEFINE from == Len(newest) - w + 1
  <1>10. from \in Int /\ from >= 1
    BY <1>1, <1>7, <1>8
  <1>11. Max({1, from}) = from
    <2> HIDE DEF from
    <2>0. 1 \in Int
      OBVIOUS
    <2>1. Max({1, from}) >= from /\ (Max({1, from}) = 1 \/ Max({1, from}) = from)
      BY <1>10, <2>0, MaxOfTwo, Zenon
    <2> QED BY <1>10, <2>1
  <1>12. Len(samples) - w + 1 = 1
    BY <1>1, <1>8
  <1>13. SubSeq(samples, 1, Len(samples)) = samples
    BY <1>4, Beginnings
  <1> QED BY <1>8, <1>9, <1>11, <1>12, <1>13 DEF newest, samples, limit, w, more

\* What the catalog asks for is enough, for any defaults that satisfy
\* CatalogAssumption: its own, those of the conversion and those of the
\* detectors go together (buildCatalog, buildDetector of stepper_sync.go,
\* buildBaselineWindow).
THEOREM CatalogMinimumsSuffice == Spec => []CatalogMinDataSuffices
  <1>1. Inv => CatalogMinDataSuffices
    <2> DEFINE type == sub.ruleType
               cfg == sub.cfg
               d == rule.detector
               t == last.at
               since == IF type \in {"TREND_6_POINTS", "TPA"}
                        THEN windowSince(rule, t, last.since) ELSE t - Year
               newest == fetchSamples(Seen, since, defaultBaselineLastN)
               min == CatalogMinData(type)
               samples == baselineSamples(d, Seen, t)
    <2> SUFFICES ASSUME Inv, CatalogDataIsThere, type # "TPA", NEW a \in last.answers
                 PROVE  a.status \notin Wants
      BY Zenon DEF CatalogMinDataSuffices, Wants
    <2>0. /\ polls > 0 /\ sub.via = "stepper" /\ type \in DOMAIN CatalogExamples
          /\ cfg \in {CatalogExamples[type], Filled(CatalogExamples[type], CatalogDefaults[type])}
          /\ \A i \in 1..last.count : rows[i].value # None
          /\ Len(newest) >= min.samples
          /\ Len(groupConsecutive(newest, defaultSubgroupSize)) >= min.subgroups
          /\ type = "TREND_6_POINTS" =>
                hasConsecutiveTimestamps(SubSeq(newest, Len(newest) - min.samples + 1, Len(newest)))
      BY Zenon DEF CatalogDataIsThere, Seen
    <2> HIDE DEF newest, since
    <2>1. /\ Polled /\ rule # None /\ rule = Stored(sub)
          /\ IsDetector(d) /\ d.type \in DetectorTypes
          /\ Seen \in Seq(Sample) /\ Len(Seen) = last.count
          /\ (\A i \in 1..last.count : Seen[i] = rows[i]) /\ Past(Seen, t) /\ InOrder(Seen)
          /\ rule.poll \in Int
      BY <2>0, LastPoll
    <2>2. /\ t \in Int /\ a \in evaluateParameterSince(rule, Seen, t, last.since)
          /\ last.since = None \/ last.since \in Int
      BY <2>1 DEF Polled
    <2>3. rule = BuildRuleSpecFromStepper(type, cfg)
      BY <2>0, <2>1 DEF Stored
    <2>4. d = buildDetector(type, cfg)
      <3> DEFINE poll == Positive(cfg, "pollIntervalSeconds", defaultStepperPollIntervalSeconds)
      <3>1. rule = Rule(buildDetector(type, cfg), poll)
        BY <2>1, <2>3, Zenon DEF BuildRuleSpecFromStepper
      <3>2. Rule(buildDetector(type, cfg), poll).detector = buildDetector(type, cfg)
        BY RuleDetector, Zenon
      <3> QED BY <3>1, <3>2
    <2>5. \A r \in ToSet(Seen) : r.value # None
      BY <2>0, <2>1, ToSetAppend
    <2>6. Answer(a, t)
      BY <2>1, <2>2, PollAnswers, Zenon
    <2>7. Nothing = About(noResult, <<>>) /\ noResult.status \notin Wants
          /\ \A result, s : \A x \in About(result, s) : x.status = result.status
      BY DEF Nothing, noResult, Wants, About
    <2>8. CASE type = "SPEC_LIMIT_VIOLATION"
      <3>1. d.type = "spec_limit"
        BY <2>4, <2>8 DEF buildDetector, buildSpecLimit, ShewhartTypes
      <3>2. a \in evaluateSpecLimit(rule, d, Seen, t, last.since)
        BY <2>2, <3>1 DEF evaluateParameterSince
      <3>3. a \in Nothing \/ a.reasons # {}
        BY <3>2, Zenon DEF evaluateSpecLimit
      <3>4. "VIOLATION" \notin Wants
        BY DEF Wants
      <3> QED BY <2>6, <2>7, <3>3, <3>4 DEF Answer
    <2>9. CASE type \in {"SHEWHART_3SIGMA", "SHEWHART_2SIGMA", "RANGE_CHART_R"}
      <3>1. /\ CatalogBaseline(d.baseline)
            /\ type \in ShewhartTypes =>
                   d.type = "shewhart" /\ d.minBaselineN = defaultBaselineMinN
            /\ type = "RANGE_CHART_R" =>
                   /\ d.type = "range_chart" /\ d.column = ""
                   /\ d.subgroupSize = defaultSubgroupSize
                   /\ d.minBaselineSubgroups = defaultBaselineSubgroups
        BY <2>0, <2>4, <2>9, CatalogCharts
      <3>0. newest = fetchSamples(Seen, t - Year, defaultBaselineLastN)
        BY <2>9 DEF newest, since
      <3>2. /\ buildBaselineWindow(t, d.baseline, MaxSampleRows) # None
            /\ Len(samples) >= Len(newest)
        BY <2>1, <2>2, <2>5, <3>0, <3>1, CatalogSamples
      <3>3. samples \in Seq(Sample) /\ newest \in Seq(Sample)
        <4>1. CASE d.type \in {"shewhart", "range_chart"}
          <5>1. IsBaseline(d.baseline)
            BY <2>1, <4>1 DEF IsDetector
          <5>2. defaultBaselineLastN \in Int
            BY EvaluationAssumption
          <5> QED BY <2>1, <2>2, <3>0, <3>2, <5>1, <5>2, BaselineTyped, Fetched
        <4> QED BY <2>9, <3>1, <4>1 DEF ShewhartTypes
      <3>4. Len(samples) \in Nat /\ Len(newest) \in Nat
        BY <3>3
      <3> HIDE DEF samples, d, type
      <3>5. /\ defaultBaselineMinN \in Nat \ {0} /\ defaultBaselineSubgroups \in Nat \ {0}
            /\ defaultSubgroupSize \in Nat \ {0}
        BY DefaultAssumption
      <3>6. CASE type \in ShewhartTypes
        <4>1. Len(samples) >= defaultBaselineMinN
          <5>1. CatalogMinData(type).samples = defaultBaselineMinN
            BY <3>6 DEF CatalogMinData, ShewhartTypes
          <5> QED BY <2>0, <3>2, <3>4, <3>5, <5>1
        <4>2. Len(extractValues(samples)) = Len(samples)
          BY <3>3 DEF extractValues
        <4>3. Default(d.minBaselineN, defaultBaselineMinN) = defaultBaselineMinN
          BY <3>1, <3>6 DEF Default
        <4>4. \A k : EvaluateShewhart(samples, d, k).status \notin Wants
          <5>1. ~(Len(extractValues(samples)) < Default(d.minBaselineN, defaultBaselineMinN))
            BY <3>4, <3>5, <4>1, <4>2, <4>3
          <5> QED BY <5>1, EnoughData
        <4>5. a \in evaluateShewhart(d, Seen, t, last.since)
          BY <2>2, <3>1, <3>6 DEF evaluateParameterSince, d
        <4>6. \/ a \in Nothing
              \/ a \in About(EvaluateShewhart(samples, d, sigmas(d)), samples)
          BY <3>2, <4>5, Zenon DEF evaluateShewhart, samples
        <4> QED BY <2>7, <4>4, <4>6
      <3>7. CASE type = "RANGE_CHART_R"
        <4> DEFINE groups == subgroups(d, samples)
        <4>1. groups = groupConsecutive(samples, defaultSubgroupSize)
          BY <3>1, <3>7 DEF subgroups
        <4>2. /\ Len(groups) = Len(samples) \div defaultSubgroupSize
              /\ Len(groupConsecutive(newest, defaultSubgroupSize))
                    = Len(newest) \div defaultSubgroupSize
          BY <3>3, <3>5, <4>1, ConsecutiveGroups
        <4>3. CatalogMinData(type).subgroups = defaultBaselineSubgroups
          BY <3>7 DEF CatalogMinData
        <4> HIDE DEF groups
        <4>4. Len(newest) \div defaultSubgroupSize <= Len(samples) \div defaultSubgroupSize
          BY <3>2, <3>4, <3>5, MoreGroups
        <4>5. Len(groups) >= defaultBaselineSubgroups
          <5>1. /\ Len(newest) \div defaultSubgroupSize \in Int
                /\ Len(samples) \div defaultSubgroupSize \in Int
            BY <3>4, <3>5
          <5> QED BY <2>0, <3>5, <4>2, <4>3, <4>4, <5>1
        <4>6. groups # <<>>
          BY <3>5, <4>5
        <4>7. /\ Default(d.minBaselineSubgroups, defaultBaselineSubgroups) = defaultBaselineSubgroups
              /\ d.subgroupSize \in DOMAIN rangeChartConstants
          BY <3>1, <3>7, CatalogAssumption DEF Default
        <4>8. EvaluateRangeChart(groups, d).status \notin Wants
          <5>1. ~(Len(groups) < Default(d.minBaselineSubgroups, defaultBaselineSubgroups))
            <6>1. Len(groups) \in Int
              BY <3>4, <3>5, <4>2
            <6> QED BY <3>5, <4>5, <4>7, <6>1
          <5> QED BY <4>6, <4>7, <5>1, EnoughData
        <4>9. a \in evaluateRangeChart(d, Seen, t, last.since)
          BY <2>2, <3>1, <3>7 DEF evaluateParameterSince, d
        <4>10. a \in Nothing \/ a \in About(EvaluateRangeChart(groups, d), samples)
          BY <3>2, <4>9, Zenon DEF evaluateRangeChart, samples, groups
        <4> QED BY <2>7, <4>8, <4>10
      <3> QED BY <2>9, <3>6, <3>7 DEF ShewhartTypes
    <2>10. CASE type = "TREND_6_POINTS"
      <3> DEFINE w == defaultTrendWindowSize
                 limit == clampLimit(w, MaxSampleRows)
                 recent == fetchSamples(Seen, windowSince(rule, t, last.since), limit)
      <3>1. d.type = "trend" /\ d.windowSize = w
        BY <2>0, <2>4, <2>10, CatalogTrend
      <3>2. since \in Int /\ since = windowSince(rule, t, last.since)
        BY <2>1, <2>2, <2>10, EvaluationAssumption DEF since, windowSince, Seconds
      <3>3. min.samples = w
        BY <2>10 DEF CatalogMinData, ShewhartTypes
      <3>4. w \in Nat \ {0}
        BY DefaultAssumption
      <3>5. /\ Len(recent) = w
            /\ recent = SubSeq(newest, Len(newest) - w + 1, Len(newest))
        <4>1. Len(fetchSamples(Seen, since, defaultBaselineLastN)) >= w
          BY <2>0, <3>3 DEF newest
        <4> QED BY <2>1, <2>5, <3>2, <4>1, TrendSamples DEF newest
      <3>6. hasConsecutiveTimestamps(recent)
        BY <2>0, <2>10, <3>3, <3>5
      <3> HIDE DEF recent, newest
      <3>7. Default(d.windowSize, defaultTrendWindowSize) = w
        BY <3>1 DEF Default
      <3>8. a \in evaluateTrend(rule, d, Seen, t, last.since)
        BY <2>2, <3>1 DEF evaluateParameterSince
      <3> HIDE DEF d
      <3>9. a \in About(EvaluateTrend6(recent, d), recent)
        BY <3>6, <3>7, <3>8, Zenon DEF evaluateTrend, recent, limit
      <3>10. EvaluateTrend6(recent, d).status \notin Wants
        <4>1. ~(Len(recent) < Default(d.windowSize, defaultTrendWindowSize))
          BY <3>4, <3>5, <3>7
        <4> QED BY <4>1, EnoughData
      <3> QED BY <2>7, <3>9, <3>10
    <2> QED BY <2>0, <2>8, <2>9, <2>10, CatalogForms
  <1> QED BY <1>1, Invariance, PTL

-----------------------------------------------------------------------------
\* What a control chart makes of its settings.
LEMMA ShewhartSettings ==
  ASSUME NEW d, NEW e, d.populationSigma = e.populationSigma,
         Default(d.minBaselineN, defaultBaselineMinN) = Default(e.minBaselineN, defaultBaselineMinN)
  PROVE  \A samples, k : EvaluateShewhart(samples, d, k) = EvaluateShewhart(samples, e, k)
  BY SMTT(30) DEF EvaluateShewhart

LEMMA RangeSettings ==
  ASSUME NEW d, NEW e, d.subgroupSize = e.subgroupSize,
         Default(d.minBaselineSubgroups, defaultBaselineSubgroups)
            = Default(e.minBaselineSubgroups, defaultBaselineSubgroups)
  PROVE  \A groups : EvaluateRangeChart(groups, d) = EvaluateRangeChart(groups, e)
  BY SMTT(30) DEF EvaluateRangeChart

\* What a preview reads of the selectors of its request.
BaseAsked(s) == Setting(s.ask, "baselineSelector", lastNSelector)
EvalAsked(s) == Setting(s.ask, "evalSelector", lastNSelector)

LEMMA AskedNumber ==
  ASSUME NEW s, IsAsk(s.ask)
  PROVE  Setting(BaseAsked(s), "value", 0) \in Int /\ Setting(EvalAsked(s), "value", 0) \in Int
  <1>1. Setting(lastNSelector, "value", 0) \in Int
    BY EvaluationAssumption DEF Setting, lastNSelector
  <1>2. ASSUME NEW name \in {"baselineSelector", "evalSelector"}
        PROVE  Setting(Setting(s.ask, name, lastNSelector), "value", 0) \in Int
    <2>1. CASE name \in DOMAIN s.ask
      <3>1. IsSelector(s.ask[name]) /\ Setting(s.ask, name, lastNSelector) = s.ask[name]
        BY <2>1, Zenon DEF IsAsk, Setting
      <3> QED BY <3>1 DEF IsSelector
    <2>2. CASE name \notin DOMAIN s.ask
      <3>1. Setting(s.ask, name, lastNSelector) = lastNSelector
        BY <2>2, Zenon DEF Setting
      <3> QED BY <1>1, <3>1
    <2> QED BY <2>1, <2>2
  <1> QED BY <1>2 DEF BaseAsked, EvalAsked

\* The last samples that a selector asks for.
LEMMA NewestAsked ==
  ASSUME NEW sel, sel.kind = "lastN", Setting(sel, "value", 0) \in Int,
         NEW table \in Seq(Sample), NEW t \in Int
  PROVE  LET limit == clampLimit(Positive(sel, "value", MaxSampleRows), MaxSampleRows)
             samples == fetchForSelector(sel, table, t)
         IN  /\ samples = fetchSamples(table, t - Year, limit)
             /\ samples \in Seq(Sample) /\ samples # None
             /\ ToSet(samples) \subseteq ToSet(table)
  <1> DEFINE value == Positive(sel, "value", MaxSampleRows)
             limit == clampLimit(value, MaxSampleRows)
             samples == fetchSamples(table, t - Year, limit)
  <1>1. MaxSampleRows \in Nat \ {0}
    BY EvaluationAssumption
  <1>2. value \in Nat \ {0}
    BY <1>1, PositiveSetting
  <1>3. limit \in Int
    BY <1>1, <1>2 DEF clampLimit
  <1>4. fetchForSelector(sel, table, t) = samples
    BY Zenon DEF fetchForSelector
  <1> HIDE DEF limit
  <1>5. samples \in Seq(Sample) /\ ToSet(samples) \subseteq ToSet(table)
    BY <1>3, Fetched
  <1>6. samples # None
    BY <1>5, EvaluationAssumption
  <1> QED BY <1>4, <1>5, <1>6 DEF limit

\* What the other detectors make of theirs.
LEMMA LimitSettings ==
  ASSUME NEW d, NEW e, specMode(d) = specMode(e), Given(d.epsilon, 0) = Given(e.epsilon, 0),
         d.limits.upper = e.limits.upper, d.limits.lower = e.limits.lower,
         d.control.upper = e.control.upper, d.control.lower = e.control.lower
  PROVE  \A value : EvaluateSpecLimit(value, d) = EvaluateSpecLimit(value, e)
  BY SMTT(30) DEF EvaluateSpecLimit, Unset

\* A hit of a trend is one on longer samples with the same end.
LEMMA TrendSettings ==
  ASSUME NEW d, NEW e, d.epsilon = e.epsilon,
         Default(d.windowSize, defaultTrendWindowSize) = Default(e.windowSize, defaultTrendWindowSize),
         Default(d.windowSize, defaultTrendWindowSize) \in Nat \ {0},
         NEW R, NEW p \in Seq(R), NEW q \in Seq(R), Ends(p, q),
         EvaluateTrend6(p, d).reasons # {}
  PROVE  EvaluateTrend6(p, d) = EvaluateTrend6(q, e)
  <1> DEFINE w == Default(d.windowSize, defaultTrendWindowSize)
             segment == SubSeq(p, Len(p) - w + 1, Len(p))
  <1>1. ~(Len(p) < w)
    BY Zenon DEF EvaluateTrend6, insufficientData
  <1>2. w \in Nat \ {0} /\ Len(p) \in Nat /\ Len(q) \in Nat /\ w <= Len(p)
    BY <1>1
  <1>3. w <= Len(q) /\ SubSeq(q, Max({1, Len(q) - w + 1}), Len(q)) = segment
    BY <1>2, NewestOfEnd
  <1>4. Max({1, Len(q) - w + 1}) = Len(q) - w + 1
    <2> DEFINE m == Len(q) - w + 1
    <2>1. m \in Int /\ m >= 1 /\ 1 \in Int
      BY <1>2, <1>3
    <2> HIDE DEF m
    <2>2. /\ Max({1, m}) \in Int /\ Max({1, m}) >= m
          /\ (Max({1, m}) = 1 \/ Max({1, m}) = m)
      BY <2>1, MaxOfTwo, Zenon
    <2>3. Max({1, m}) = m
      BY <2>1, <2>2
    <2> QED BY <2>3 DEF m
  <1>5. SubSeq(q, Len(q) - w + 1, Len(q)) = segment
    BY <1>3, <1>4
  <1>6. ~(Len(q) < w)
    BY <1>2, <1>3
  <1> DEFINE v == Default(e.windowSize, defaultTrendWindowSize)
             Trend(part, n, epsilon) ==
                 LET step(i) == part[i + 1].value - part[i].value
                     increasing == \A i \in 1..(n - 1) : Exceeds(step(i), epsilon)
                     decreasing == \A i \in 1..(n - 1) : Exceeds(-step(i), epsilon)
                 IN  Result({r \in {"increasing"} : increasing}
                              \cup {r \in {"decreasing"} : decreasing /\ ~increasing})
  <1>7. EvaluateTrend6(p, d) = Trend(segment, w, d.epsilon)
    BY <1>1, Zenon DEF EvaluateTrend6
  <1>8. ~(Len(q) < v) /\ v = w
    BY <1>6
  <1>9. EvaluateTrend6(q, e) = Trend(SubSeq(q, Len(q) - v + 1, Len(q)), v, e.epsilon)
    BY <1>8, Zenon DEF EvaluateTrend6
  <1> HIDE DEF Trend, w, v, segment
  <1> QED BY <1>5, <1>7, <1>8, <1>9

\* The same for the slope of the newest samples.
Stamped == {"", "timestamp"}

LEMMA SlopeSettings ==
  ASSUME NEW d, NEW e, d.windowN = e.windowN, d.windowN \in Nat,
         d.basis \in Stamped <=> e.basis \in Stamped, d.slope = e.slope, d.time = e.time,
         d.requireSpecLimits = e.requireSpecLimits, d.epsilon = e.epsilon, d.limits = e.limits,
         NEW R, NEW p \in Seq(R), NEW q \in Seq(R), Ends(p, q),
         EvaluateTPA(p, d).reasons # {}
  PROVE  EvaluateTPA(p, d) = EvaluateTPA(q, e)
  <1> DEFINE w == d.windowN
             segment == SubSeq(p, Len(p) - w + 1, Len(p))
             X(part, basis) == [i \in DOMAIN part |->
                                  IF basis \in Stamped THEN Unix(part[i].ts) - Unix(part[1].ts)
                                                       ELSE i - 1]
  <1>1. ~(w < 3) /\ ~(w >= 3 /\ Len(p) < w)
    <2>1. invalidConfig.reasons = {} /\ insufficientData.reasons = {}
      BY DEF invalidConfig, insufficientData
    <2>2. ASSUME w < 3 PROVE FALSE
      <3>1. ~(w >= 3)
        BY <2>2
      <3>2. EvaluateTPA(p, d) = invalidConfig
        BY <2>2, <3>1, Zenon DEF EvaluateTPA
      <3> QED BY <2>1, <3>2
    <2>3. ASSUME w >= 3, Len(p) < w PROVE FALSE
      <3>1. ~(w < 3)
        BY <2>3
      <3>2. EvaluateTPA(p, d) = insufficientData
        BY <2>3, <3>1, Zenon DEF EvaluateTPA
      <3> QED BY <2>1, <3>2
    <2> QED BY <2>2, <2>3
  <1>2. w \in Nat /\ Len(p) \in Nat /\ Len(q) \in Nat /\ w <= Len(p)
    BY <1>1
  <1>3. w <= Len(q) /\ SubSeq(q, Max({1, Len(q) - w + 1}), Len(q)) = segment
    BY <1>2, NewestOfEnd
  <1>4. Max({1, Len(q) - w + 1}) = Len(q) - w + 1
    <2> DEFINE m == Len(q) - w + 1
    <2>1. m \in Int /\ m >= 1 /\ 1 \in Int
      BY <1>2, <1>3
    <2> HIDE DEF m
    <2>2. /\ Max({1, m}) \in Int /\ Max({1, m}) >= m
          /\ (Max({1, m}) = 1 \/ Max({1, m}) = m)
      BY <2>1, MaxOfTwo, Zenon
    <2>3. Max({1, m}) = m
      BY <2>1, <2>2
    <2> QED BY <2>3 DEF m
  <1>5. SubSeq(q, Len(q) - w + 1, Len(q)) = segment
    BY <1>3, <1>4
  <1>6. ~(w >= 3 /\ Len(q) < w)
    BY <1>2, <1>3
  <1> DEFINE Slope(part, xs, slopeThreshold, time, requires, epsilon, limits) ==
                 LET slope == LinearRegression(xs, extractValues(part))
                     steep == slopeThreshold # None /\ AbsVal(slope.num) >= slopeThreshold * slope.den
                     near == /\ time # None /\ limits # None
                             /\ reachesSpec(slope, Last(part).value, limits, time)
                 IN  CASE slope.den = 0 -> invalidConfig
                       [] slope.den # 0 /\ AbsVal(slope.num) <= epsilon * slope.den -> Result({})
                       [] OTHER ->
                             IF time # None /\ requires /\ limits = None
                             THEN invalidConfig
                             ELSE Result({r \in {"slope_threshold"} : steep}
                                    \cup {r \in {"time_to_spec"} : near})
             last1 == SubSeq(q, Len(q) - e.windowN + 1, Len(q))
  <1>7. EvaluateTPA(p, d) = Slope(segment, X(segment, d.basis), d.slope, d.time,
                                  d.requireSpecLimits, d.epsilon, d.limits)
    BY <1>1, Zenon DEF EvaluateTPA, Stamped
  <1>8. ~(e.windowN < 3) /\ ~(e.windowN >= 3 /\ Len(q) < e.windowN) /\ last1 = segment
    BY <1>1, <1>5, <1>6
  <1>9. EvaluateTPA(q, e) = Slope(last1, X(last1, e.basis), e.slope, e.time,
                                  e.requireSpecLimits, e.epsilon, e.limits)
    BY <1>8, Zenon DEF EvaluateTPA, Stamped
  <1> HIDE DEF Slope, segment, last1
  <1>10. X(segment, d.basis) = X(segment, e.basis)
    BY Zenon
  <1> HIDE DEF X
  <1> QED BY <1>7, <1>8, <1>9, <1>10

-----------------------------------------------------------------------------
LEMMA PositiveNumbers == \A n \in Nat \ {0} : n > 0
  OBVIOUS

\* A number that is not negative is read alike with its default.
LEMMA NumberRead ==
  ASSUME NEW cfg, NEW name, Setting(cfg, name, 0) \in Int, Setting(cfg, name, 0) >= 0,
         NEW d \in Nat \ {0}
  PROVE  Default(Positive(cfg, name, d), d) = Default(Setting(cfg, name, 0), d)
  <1>1. CASE name \in DOMAIN cfg
    <2>1. Setting(cfg, name, 0) = cfg[name]
      BY <1>1 DEF Setting
    <2> QED BY <2>1 DEF Positive, Default
  <1>2. CASE name \notin DOMAIN cfg
    BY <1>2 DEF Setting, Positive, Default
  <1> QED BY <1>1, <1>2

LEMMA NotRead ==
  ASSUME NEW cfg, NEW name, name \notin DOMAIN cfg, NEW d
  PROVE  Setting(cfg, name, d) = d /\ Positive(cfg, name, d) = d
  BY DEF Setting, Positive

\* A control chart of such settings is that of the preview.
LEMMA ShewhartRead ==
  ASSUME NEW s, ReadAlike(s), IsSettings(s.cfg), s.ruleType \in ShewhartTypes
  PROVE  LET d == buildDetector(s.ruleType, s.cfg)
             e == previewDetector(s.ruleType, s.cfg)
         IN  /\ d.type = "shewhart" /\ d.baseline = buildBaselineSpec(s.cfg)
             /\ e.sigmaMultiplier = sigmas(d)
             /\ \A samples, k : EvaluateShewhart(samples, d, k) = EvaluateShewhart(samples, e, k)
  <1> DEFINE d == buildDetector(s.ruleType, s.cfg)
             e == previewDetector(s.ruleType, s.cfg)
             cfg == s.cfg
             k == SigmaUnit * typeSigma(s.ruleType)
             least == Positive(cfg, "minBaselineN", defaultBaselineMinN)
             given == Setting(cfg, "minBaselineN", 0)
             baseline == buildBaselineSpec(cfg)
             built == [type |-> "shewhart", sigmaMultiplier |-> k, minBaselineN |-> least,
                       populationSigma |-> FALSE, baseline |-> baseline]
             shown == [sigmaMultiplier |-> k, minBaselineN |-> given, populationSigma |-> FALSE]
  <1>1. /\ "sigmaMultiplier" \notin DOMAIN cfg /\ "populationSigma" \notin DOMAIN cfg
        /\ given >= 0
    <2>1. /\ DOMAIN cfg \cap {"sigmaMultiplier", "populationSigma", "flatSpecLimits",
                              "flatControlLimits"} = {}
          /\ given >= 0
      BY Zenon DEF ReadAlike
    <2> QED BY <2>1
  <1>2. given \in Int
    BY DEF IsSettings, NumberSettings
  <1>3. defaultBaselineMinN \in Nat \ {0}
    BY DefaultAssumption
  <1>4. Default(least, defaultBaselineMinN) = Default(given, defaultBaselineMinN)
    BY <1>1, <1>2, <1>3, NumberRead
  <1>5. Positive(cfg, "sigmaMultiplier", k) = k /\ Setting(cfg, "populationSigma", FALSE) = FALSE
    <2> HIDE DEF k, cfg
    <2>1. Positive(cfg, "sigmaMultiplier", k) = k
      BY <1>1, NotRead
    <2>2. Setting(cfg, "populationSigma", FALSE) = FALSE
      BY <1>1, Zenon DEF Setting
    <2> QED BY <2>1, <2>2
  <1>6. k # 0
    BY EvaluationAssumption DEF typeSigma
  <1> HIDE DEF cfg, least, given, baseline
  <1>7. d = built
    <2>1. d = buildShewhart(s.ruleType, cfg)
      BY DEF buildDetector, ShewhartTypes, cfg
    <2> QED BY <1>5, <2>1, Zenon DEF buildShewhart, k, least, baseline
  <1>8. e = shown
    <2>1. s.ruleType # "TREND_6_POINTS"
      BY DEF ShewhartTypes
    <2>2. s.ruleType \notin {"RANGE_CHART_R", "SPEC_LIMIT_VIOLATION", "TPA"}
      BY DEF ShewhartTypes
    <2>3. e = [sigmaMultiplier |-> k, minBaselineN |-> Setting(cfg, "minBaselineN", 0),
               populationSigma |-> Setting(cfg, "populationSigma", FALSE)]
      BY <2>1, <2>2, Zenon DEF previewDetector, cfg, k
    <2> QED BY <1>5, <2>3, Zenon DEF given
  <1>9. /\ built.type = "shewhart" /\ built.sigmaMultiplier = k /\ built.minBaselineN = least
        /\ built.populationSigma = FALSE /\ built.baseline = baseline
        /\ shown.sigmaMultiplier = k /\ shown.minBaselineN = given /\ shown.populationSigma = FALSE
    OBVIOUS
  <1> HIDE DEF d, e, built, shown, k
  <1>10. sigmas(d) = k
    BY <1>6, <1>7, <1>9 DEF sigmas, Default
  <1>11. \A samples, m : EvaluateShewhart(samples, d, m) = EvaluateShewhart(samples, e, m)
    <2>1. d.populationSigma = e.populationSigma
      BY <1>7, <1>8, <1>9
    <2>2. Default(d.minBaselineN, defaultBaselineMinN) = Default(e.minBaselineN, defaultBaselineMinN)
      BY <1>4, <1>7, <1>8, <1>9
    <2> QED BY <2>1, <2>2, ShewhartSettings, Zenon
  <1> QED BY <1>7, <1>8, <1>9, <1>10, <1>11 DEF d, e, cfg, baseline

LEMMA RangeRead ==
  ASSUME NEW s, ReadAlike(s), IsSettings(s.cfg), s.ruleType = "RANGE_CHART_R"
  PROVE  LET d == buildDetector(s.ruleType, s.cfg)
             e == previewDetector(s.ruleType, s.cfg)
         IN  /\ d.type = "range_chart" /\ d.baseline = buildBaselineSpec(s.cfg)
             /\ d.subgroupSize \in Nat \ {0}
             /\ d.minBaselineSubgroups =
                   Positive(s.cfg, "minBaselineSubgroups", defaultBaselineSubgroups)
             /\ \A samples : subgroups(d, samples) = previewGroups(s.ask, samples)
             /\ \A groups : EvaluateRangeChart(groups, d) = EvaluateRangeChart(groups, e)
  <1> DEFINE d == buildDetector(s.ruleType, s.cfg)
             e == previewDetector(s.ruleType, s.cfg)
             cfg == s.cfg
             by == Setting(cfg, "subgrouping", <<>>)
             own == Setting(cfg, "subgroupSize", 0)
             flat == Positive(cfg, "subgroupSize", defaultSubgroupSize)
             size == Positive(by, "subgroupSize", flat)
             least == Positive(cfg, "minBaselineSubgroups", defaultBaselineSubgroups)
             given == Setting(cfg, "minBaselineSubgroups", 0)
             baseline == buildBaselineSpec(cfg)
             mode == Setting(by, "kind", "consecutive")
             column == Setting(by, "column", "")
             built == [type |-> "range_chart", subgroupSize |-> size, mode |-> mode,
                       column |-> column, minBaselineSubgroups |-> least, baseline |-> baseline]
             shown == [subgroupSize |-> own, minBaselineSubgroups |-> given]
             asked == Setting(s.ask, "subgrouping", <<>>)
  <1>1. own = buildRangeChart(cfg).subgroupSize /\ given >= 0 /\ AsksForWhatItSaves(s)
    BY Zenon DEF ReadAlike
  <1>2. given \in Int /\ own \in Int /\ Setting(by, "subgroupSize", 0) \in Int
    BY DEF IsSettings, NumberSettings
  <1>3. defaultBaselineSubgroups \in Nat \ {0} /\ defaultSubgroupSize \in Nat \ {0}
    BY DefaultAssumption
  <1>4. Default(least, defaultBaselineSubgroups) = Default(given, defaultBaselineSubgroups)
    BY <1>1, <1>2, <1>3, NumberRead
  <1>5. size \in Nat \ {0}
    <2>1. flat \in Nat \ {0}
      BY <1>2, <1>3, PositiveSetting
    <2> HIDE DEF flat, by
    <2> QED BY <1>2, <2>1, PositiveSetting
  <1> HIDE DEF cfg, by, own, flat, size, least, given, baseline, mode, column
  <1>6. buildRangeChart(cfg) = built
    BY Zenon DEF buildRangeChart, by, flat, size, least, baseline, mode, column
  <1>7. d = built
    <2>1. d = buildRangeChart(cfg)
      BY DEF buildDetector, ShewhartTypes, cfg
    <2> QED BY <1>6, <2>1, Zenon
  <1>8. e = shown
    <2>1. /\ "RANGE_CHART_R" \notin ShewhartTypes
          /\ "RANGE_CHART_R" \notin {"TREND_6_POINTS", "SPEC_LIMIT_VIOLATION", "TPA"}
      BY DEF ShewhartTypes
    <2> QED BY <2>1, Zenon DEF previewDetector, cfg, own, given
  <1>9. /\ built.type = "range_chart" /\ built.subgroupSize = size /\ built.mode = mode
        /\ built.column = column /\ built.minBaselineSubgroups = least
        /\ built.baseline = baseline
        /\ shown.subgroupSize = own /\ shown.minBaselineSubgroups = given
    OBVIOUS
  <1> HIDE DEF d, e, built, shown
  <1>10. own = size
    BY <1>1, <1>6, <1>9
  <1>11. /\ Positive(asked, "subgroupSize", defaultSubgroupSize) = d.subgroupSize
         /\ (Setting(asked, "kind", "") = "column") = (d.mode = "column" /\ d.column # "")
    <2>1. d.type = "range_chart"
      BY <1>7, <1>9
    <2> QED BY <1>1, <2>1, Zenon DEF AsksForWhatItSaves, d
  <1>12. ASSUME NEW samples PROVE subgroups(d, samples) = previewGroups(s.ask, samples)
    <2>1. (Setting(asked, "kind", "") = "column") <=> (d.mode = "column" /\ d.column # "")
      BY <1>11
    <2> QED BY <1>11, <2>1, Zenon DEF subgroups, previewGroups
  <1>13. \A groups : EvaluateRangeChart(groups, d) = EvaluateRangeChart(groups, e)
    BY <1>4, <1>7, <1>8, <1>9, <1>10, RangeSettings
  <1> QED BY <1>5, <1>7, <1>9, <1>12, <1>13, Zenon DEF d, e, cfg, baseline, least

\* The other detectors read such settings alike, too.
LEMMA LimitsRead ==
  ASSUME NEW s, ReadAlike(s), s.ruleType = "SPEC_LIMIT_VIOLATION"
  PROVE  LET d == buildDetector(s.ruleType, s.cfg)
             e == previewDetector(s.ruleType, s.cfg)
         IN  /\ d.type = "spec_limit"
             /\ \A value : EvaluateSpecLimit(value, d) = EvaluateSpecLimit(value, e)
  <1> DEFINE d == buildDetector(s.ruleType, s.cfg)
             e == previewDetector(s.ruleType, s.cfg)
             cfg == s.cfg
             epsilon == Setting(cfg, "epsilon", None)
             mode == Setting(cfg, "mode", "spec")
             given == Setting(cfg, "mode", "")
             limits == NestedOrFlat(cfg, "specLimits", "flatSpecLimits")
             control == NestedOrFlat(cfg, "controlLimits", "flatControlLimits")
             ownLimits == Setting(cfg, "specLimits", NoLimits)
             ownControl == Setting(cfg, "controlLimits", NoLimits)
             built == [type |-> "spec_limit", mode |-> mode, epsilon |-> epsilon,
                       limits |-> limits, control |-> control]
             shown == [mode |-> given, epsilon |-> epsilon, limits |-> ownLimits,
                       control |-> ownControl]
  <1>1. "flatSpecLimits" \notin DOMAIN cfg /\ "flatControlLimits" \notin DOMAIN cfg
    <2>1. DOMAIN cfg \cap {"sigmaMultiplier", "populationSigma", "flatSpecLimits",
                           "flatControlLimits"} = {}
      BY Zenon DEF ReadAlike
    <2> QED BY <2>1
  <1>2. /\ limits.upper = ownLimits.upper /\ limits.lower = ownLimits.lower
        /\ control.upper = ownControl.upper /\ control.lower = ownControl.lower
    <2>1. ASSUME NEW nested, NEW flat, flat \notin DOMAIN cfg
          PROVE  LET own == Setting(cfg, nested, NoLimits)
                     both == NestedOrFlat(cfg, nested, flat)
                 IN  both.upper = own.upper /\ both.lower = own.lower
      <3> DEFINE own == Setting(cfg, nested, NoLimits)
      <3>1. Setting(cfg, flat, NoLimits) = NoLimits
        BY <2>1, NotRead
      <3>2. NestedOrFlat(cfg, nested, flat) = IF Unset(own) THEN NoLimits ELSE own
        BY <3>1, Zenon DEF NestedOrFlat
      <3> HIDE DEF own
      <3>3. Unset(own) => own.upper = NoLimits.upper /\ own.lower = NoLimits.lower
        BY DEF Unset, NoLimits
      <3> QED BY <3>2, <3>3 DEF own
    <2> HIDE DEF cfg
    <2> QED BY <1>1, <2>1, Zenon
  <1>3. (IF mode = "" THEN "spec" ELSE mode) = (IF given = "" THEN "spec" ELSE given)
    BY DEF Setting
  <1> HIDE DEF cfg, epsilon, mode, given, limits, control, ownLimits, ownControl
  <1>4. d = built
    <2>1. d = buildSpecLimit(cfg)
      BY DEF buildDetector, ShewhartTypes, cfg
    <2> QED BY <2>1, Zenon DEF buildSpecLimit, epsilon, mode, limits, control
  <1>5. e = shown
    <2>1. /\ "SPEC_LIMIT_VIOLATION" \notin ShewhartTypes
          /\ "SPEC_LIMIT_VIOLATION" \notin {"TREND_6_POINTS", "RANGE_CHART_R", "TPA"}
      BY DEF ShewhartTypes
    <2> QED BY <2>1, Zenon DEF previewDetector, cfg, epsilon, given, ownLimits, ownControl
  <1>6. /\ built.type = "spec_limit" /\ built.mode = mode /\ built.epsilon = epsilon
        /\ built.limits = limits /\ built.control = control
        /\ shown.mode = given /\ shown.epsilon = epsilon /\ shown.limits = ownLimits
        /\ shown.control = ownControl
    OBVIOUS
  <1> HIDE DEF d, e, built, shown
  <1>7. specMode(d) = specMode(e)
    BY <1>3, <1>4, <1>5, <1>6, Zenon DEF specMode
  <1>8. Given(d.epsilon, 0) = Given(e.epsilon, 0)
    BY <1>4, <1>5, <1>6
  <1>9. /\ d.limits.upper = e.limits.upper /\ d.limits.lower = e.limits.lower
        /\ d.control.upper = e.control.upper /\ d.control.lower = e.control.lower
    BY <1>2, <1>4, <1>5, <1>6
  <1>10. \A value : EvaluateSpecLimit(value, d) = EvaluateSpecLimit(value, e)
    BY <1>7, <1>8, <1>9, LimitSettings, Zenon
  <1> QED BY <1>4, <1>6, <1>10 DEF d, e

LEMMA TrendRead ==
  ASSUME NEW s, ReadAlike(s), IsSettings(s.cfg), s.ruleType = "TREND_6_POINTS"
  PROVE  LET d == buildDetector(s.ruleType, s.cfg)
             e == previewDetector(s.ruleType, s.cfg)
         IN  /\ d.type = "trend" /\ d.epsilon = e.epsilon
             /\ d.windowSize \in Nat \ {0}
             /\ Default(d.windowSize, defaultTrendWindowSize) = d.windowSize
             /\ Default(e.windowSize, defaultTrendWindowSize) = d.windowSize
             /\ d.windowSize <= EvalAsked(s).value
  <1> DEFINE d == buildDetector(s.ruleType, s.cfg)
             e == previewDetector(s.ruleType, s.cfg)
             cfg == s.cfg
             size == Positive(cfg, "windowSize", defaultTrendWindowSize)
             given == Setting(cfg, "windowSize", 0)
             w == Default(given, defaultTrendWindowSize)
  <1>1. given >= 0 /\ AsksForWhatItSaves(s)
    BY Zenon DEF ReadAlike
  <1>2. given \in Int /\ defaultTrendWindowSize \in Nat \ {0}
    BY DefaultAssumption DEF IsSettings, NumberSettings
  <1> HIDE DEF cfg
  <1>3. size \in Nat \ {0}
    BY <1>2, PositiveSetting
  <1>4. Default(size, defaultTrendWindowSize) = Default(given, defaultTrendWindowSize)
    BY <1>1, <1>2, NumberRead
  <1> HIDE DEF size
  <1>5. Default(size, defaultTrendWindowSize) = size /\ w = size
    BY <1>3, <1>4 DEF Default
  <1>6. w \in Nat \ {0}
    BY <1>3, <1>5
  <1> HIDE DEF given, w
  <1>7. Default(w, defaultTrendWindowSize) = w
    BY <1>6 DEF Default
  <1>8. d.type = "trend" /\ d.windowSize = size /\ d.epsilon = Setting(cfg, "epsilon", 0)
    <2>1. d = buildTrend(cfg)
      BY DEF buildDetector, ShewhartTypes, cfg
    <2> HIDE DEF d
    <2> QED BY <2>1 DEF buildTrend, size
  <1>9. e.windowSize = w /\ e.epsilon = Setting(cfg, "epsilon", 0)
    <2>1. e = [windowSize |-> w, epsilon |-> Setting(cfg, "epsilon", 0)]
      BY DEF previewDetector, ShewhartTypes, cfg, given, w
    <2> HIDE DEF e
    <2> QED BY <2>1
  <1>10. d.windowSize <= EvalAsked(s).value
    BY <1>1, <1>8, Zenon DEF AsksForWhatItSaves, EvalAsked
  <1> HIDE DEF d, e
  <1> QED BY <1>3, <1>5, <1>7, <1>8, <1>9, <1>10 DEF d, e

LEMMA SlopeRead ==
  ASSUME NEW s, ReadAlike(s), IsSettings(s.cfg), s.ruleType = "TPA"
  PROVE  LET d == buildDetector(s.ruleType, s.cfg)
             e == previewDetector(s.ruleType, s.cfg)
         IN  /\ d.type = "tpa" /\ d.windowN \in Nat \ {0} /\ d.windowN = e.windowN
             /\ d.windowN <= EvalAsked(s).value
             /\ d.basis \in Stamped <=> e.basis \in Stamped
             /\ d.slope = e.slope /\ d.time = e.time /\ d.epsilon = e.epsilon
             /\ d.requireSpecLimits = e.requireSpecLimits /\ d.limits = e.limits
  <1> DEFINE d == buildDetector(s.ruleType, s.cfg)
             e == previewDetector(s.ruleType, s.cfg)
             cfg == s.cfg
             size == Positive(cfg, "windowN", defaultWindowN)
             given == Setting(cfg, "windowN", 0)
             basis == Setting(cfg, "regressionTimeBasis", "timestamp")
             own == Setting(cfg, "regressionTimeBasis", "")
             slope == Setting(cfg, "slopeThreshold", None)
             time == Setting(cfg, "timeToSpecThreshold", None)
             requires == Setting(cfg, "requireSpecLimits", FALSE)
             epsilon == Setting(cfg, "epsilon", 0)
             limits == Setting(cfg, "specLimits", None)
             built == [type |-> "tpa", windowN |-> size, basis |-> basis, slope |-> slope,
                       time |-> time, requireSpecLimits |-> requires, epsilon |-> epsilon,
                       limits |-> limits]
             shown == [windowN |-> given, basis |-> own, slope |-> slope, time |-> time,
                       requireSpecLimits |-> requires, epsilon |-> epsilon, limits |-> limits]
  <1>1. given > 0 /\ AsksForWhatItSaves(s)
    BY Zenon DEF ReadAlike
  <1>2. given \in Int
    BY DEF IsSettings, NumberSettings
  <1>3. basis \in Stamped <=> own \in Stamped
    BY DEF Setting, Stamped
  <1> HIDE DEF cfg
  <1>4. size = given
    <2>1. size = IF given > 0 THEN cfg["windowN"] ELSE defaultWindowN
      BY Zenon DEF Positive
    <2>2. given = IF "windowN" \in DOMAIN cfg THEN cfg["windowN"] ELSE 0
      BY DEF Setting
    <2> HIDE DEF size, given
    <2>3. given \in Int /\ given > 0
      BY <1>1, <1>2
    <2> QED BY <2>1, <2>2, <2>3
  <1> HIDE DEF size, given, basis, own, slope, time, requires, epsilon, limits
  <1>5. d = built
    <2>1. d = buildTPA(cfg)
      BY DEF buildDetector, ShewhartTypes, cfg
    <2> QED BY <2>1, Zenon
            DEF buildTPA, size, basis, slope, time, requires, epsilon, limits
  <1>6. e = shown
    <2>1. /\ "TPA" \notin ShewhartTypes
          /\ "TPA" \notin {"TREND_6_POINTS", "RANGE_CHART_R", "SPEC_LIMIT_VIOLATION"}
      BY DEF ShewhartTypes
    <2> QED BY <2>1, Zenon
            DEF previewDetector, cfg, given, own, slope, time, requires, epsilon, limits
  <1>7. /\ built.type = "tpa" /\ built.windowN = size /\ built.basis = basis
        /\ built.slope = slope /\ built.time = time /\ built.requireSpecLimits = requires
        /\ built.epsilon = epsilon /\ built.limits = limits
        /\ shown.windowN = given /\ shown.basis = own
        /\ shown.slope = slope /\ shown.time = time /\ shown.requireSpecLimits = requires
        /\ shown.epsilon = epsilon /\ shown.limits = limits
    OBVIOUS
  <1> HIDE DEF d, e, built, shown
  <1>8. d.windowN <= EvalAsked(s).value
    <2>1. d.type = "tpa"
      BY <1>5, <1>7
    <2> QED BY <1>1, <2>1, Zenon DEF AsksForWhatItSaves, EvalAsked, d
  <1> QED BY <1>1, <1>2, <1>3, <1>4, <1>5, <1>6, <1>7, <1>8 DEF d, e

-----------------------------------------------------------------------------
\* Rows of a table in order differ in their times.
LEMMA OneRowATime ==
  ASSUME NEW table \in Seq(Sample), InOrder(table),
         NEW r \in ToSet(table), NEW s \in ToSet(table), r.ts = s.ts
  PROVE  r = s
  <1>1. PICK i \in 1..Len(table) : r = table[i]
    BY ToSetAppend
  <1>2. PICK j \in 1..Len(table) : s = table[j]
    BY ToSetAppend
  <1>3. r.ts \in Int /\ s.ts \in Int
    <2>1. r \in Sample /\ s \in Sample
      BY ToSetAppend
    <2> QED BY <2>1 DEF Sample
  <1>4. ~(i < j) /\ ~(j < i)
    BY <1>1, <1>2, <1>3 DEF InOrder
  <1>5. i = j
    BY <1>4, LenProperties
  <1> QED BY <1>1, <1>2, <1>5

\* What an alert about a row beyond its limits says is what the limits say of
\* the row.
LEMMA LimitHit ==
  ASSUME NEW spec, NEW d, NEW table \in Seq(Sample), InOrder(table), NEW t, NEW since,
         NEW a \in evaluateSpecLimit(spec, d, table, t, since), a.reasons # {},
         NEW r \in ToSet(table), a.ts = r.ts
  PROVE  a.reasons = EvaluateSpecLimit(r.value, d).reasons
  <1> DEFINE samples == fetchSamples(table, windowSince(spec, t, since), MaxSampleRows)
             answer(s) == About(EvaluateSpecLimit(s.value, d), <<s>>)
             hits == {b \in UNION {answer(s) : s \in ToSet(samples)} : b.reasons # {}}
  <1>1. evaluateSpecLimit(spec, d, table, t, since) = IF hits = {} THEN Nothing ELSE hits
    BY Zenon DEF evaluateSpecLimit
  <1>2. \A b \in Nothing : b.reasons = {}
    <2>1. \A res, s : \A b \in About(res, s) : b.reasons = res.reasons
      BY DEF About
    <2>2. noResult.reasons = {}
      BY DEF noResult
    <2> QED BY <2>1, <2>2, Zenon DEF Nothing
  <1>3. ToSet(samples) \subseteq ToSet(table)
    <2>1. MaxSampleRows \in Int
      BY EvaluationAssumption
    <2> QED BY <2>1, Fetched
  <1> HIDE DEF samples
  <1>4. PICK s \in ToSet(samples) : a \in answer(s)
    <2>1. a \in hits
      <3> HIDE DEF hits
      <3> QED BY <1>1, <1>2
    <2> QED BY <2>1, Zenon
  <1>5. a.reasons = EvaluateSpecLimit(s.value, d).reasons /\ a.ts = s.ts
    <2>1. <<s>> # <<>> /\ Last(<<s>>) = s
      BY DEF Last
    <2> QED BY <1>4, <2>1 DEF About
  <1>6. s = r
    BY <1>3, <1>5, OneRowATime
  <1> QED BY <1>5, <1>6

\* The newest w rows that a poll fetches end the newest v that a preview shows.
LEMMA ShownEnd ==
  ASSUME NEW table \in Seq(Sample), InOrder(table), NEW t \in Int, NEW since \in Int,
         since >= t - Year, NEW v \in 1..MaxSampleRows, NEW w \in Nat \ {0}, w <= v
  PROVE  LET samples == fetchSamples(table, since, clampLimit(w, MaxSampleRows))
             shown == fetchSamples(table, t - Year, v)
         IN  samples \in Seq(Sample) /\ shown \in Seq(Sample) /\ Ends(samples, shown)
  <1>1. /\ v \in Nat /\ MaxSampleRows \in Nat \ {0} /\ v <= MaxSampleRows
        /\ TicksPerSecond \in Nat \ {0} /\ Year \in Nat
    BY EvaluationAssumption
  <1>2. clampLimit(w, MaxSampleRows) = w /\ w \in Nat /\ w \in Int /\ w <= v
    BY <1>1 DEF clampLimit
  <1>3. t - Year \in Int /\ t - Year <= since /\ v \in Int
    BY <1>1
  <1>4. \A r \in Sample : r.ts \in Int
    BY DEF Sample
  <1>5. \A i, j \in 1..Len(table) : i < j => table[i].ts < table[j].ts
    BY DEF InOrder
  <1>6. Ends(fetchSamples(table, since, w), fetchSamples(table, t - Year, v))
    BY <1>1, <1>2, <1>3, <1>4, <1>5, FetchedWithin
  <1>7. /\ fetchSamples(table, since, w) \in Seq(Sample)
        /\ fetchSamples(table, t - Year, v) \in Seq(Sample)
    BY <1>2, <1>3, Fetched
  <1> QED BY <1>2, <1>6, <1>7

\* The samples a preview shows are the newest it was asked for.
LEMMA ShownFetched ==
  ASSUME NEW s, ReadAlike(s), NEW table \in Seq(Sample), NEW t \in Int
  PROVE  LET v == EvalAsked(s).value
             shown == fetchForSelector(EvalAsked(s), table, t)
         IN  /\ v \in 1..MaxSampleRows
             /\ shown = fetchSamples(table, t - Year, v)
             /\ shown \in Seq(Sample) /\ shown # None
             /\ ToSet(shown) \subseteq ToSet(table)
  <1> DEFINE sel == EvalAsked(s)
             v == sel.value
  <1>1. sel.kind = "lastN" /\ Setting(sel, "value", 0) \in 1..MaxSampleRows
    BY Zenon DEF ReadAlike, AsksForWhatItSaves, EvalAsked
  <1> HIDE DEF sel
  <1>2. MaxSampleRows \in Nat \ {0}
    BY EvaluationAssumption
  <1>3. Setting(sel, "value", 0) = v /\ v \in 1..MaxSampleRows
    BY <1>1, <1>2 DEF Setting
  <1>4. clampLimit(Positive(sel, "value", MaxSampleRows), MaxSampleRows) = v
    BY <1>2, <1>3 DEF Positive, clampLimit
  <1>5. Setting(sel, "value", 0) \in Int
    BY <1>2, <1>3
  <1> HIDE DEF v
  <1> QED BY <1>1, <1>3, <1>4, <1>5, NewestAsked DEF sel, v

\* The samples a preview of such settings judges are those of the rule, if it is a
\* control chart.
LEMMA BaseFetched ==
  ASSUME NEW s, ReadAlike(s), IsAsk(s.ask), NEW table \in Seq(Sample), NEW t \in Int
  PROVE  LET base == fetchForSelector(BaseAsked(s), table, t)
             d == buildDetector(s.ruleType, s.cfg)
         IN  /\ base \in Seq(Sample) /\ base # None
             /\ d.type \in {"shewhart", "range_chart"} =>
                   /\ buildBaselineWindow(t, d.baseline, MaxSampleRows) # None
                   /\ baselineSamples(d, table, t) = base
  <1> DEFINE sel == BaseAsked(s)
             d == buildDetector(s.ruleType, s.cfg)
             n == baselineLastN(d.baseline)
             limit == clampLimit(Positive(sel, "value", MaxSampleRows), MaxSampleRows)
             base == fetchForSelector(sel, table, t)
  <1>1. /\ sel.kind = "lastN"
        /\ d.type \in {"shewhart", "range_chart"} =>
              /\ d.baseline.timeRange = None
              /\ Setting(sel, "value", 0) \in Nat \ {0} /\ sel.value = n
    BY Zenon DEF ReadAlike, AsksForWhatItSaves, BaseAsked
  <1>2. Setting(sel, "value", 0) \in Int
    BY AskedNumber
  <1> HIDE DEF sel, d
  <1>3. base = fetchSamples(table, t - Year, limit) /\ base \in Seq(Sample) /\ base # None
    BY <1>1, <1>2, NewestAsked
  <1>4. ASSUME d.type \in {"shewhart", "range_chart"}
        PROVE  /\ buildBaselineWindow(t, d.baseline, MaxSampleRows) # None
               /\ baselineSamples(d, table, t) = base
    <2>1. d.baseline.timeRange = None /\ Setting(sel, "value", 0) \in Nat \ {0} /\ sel.value = n
      BY <1>1, <1>4, Zenon
    <2> HIDE DEF n
    <2>2. Setting(sel, "value", 0) = n /\ n \in Nat \ {0}
      BY <2>1 DEF Setting
    <2>3. Positive(sel, "value", MaxSampleRows) = n
      BY <2>1, <2>2 DEF Positive
    <2>4. baselineLastN(d.baseline) \in Nat \ {0}
      BY <2>2 DEF n
    <2>5. /\ buildBaselineWindow(t, d.baseline, MaxSampleRows) # None
          /\ baselineSamples(d, table, t) = fetchSamples(table, t - Year, clampLimit(n, MaxSampleRows))
      BY <2>1, <2>4, BaselineFetched DEF n
    <2> HIDE DEF base
    <2> QED BY <1>3, <2>3, <2>5, Zenon
  <1> QED BY <1>3, <1>4, Zenon DEF sel, d

-----------------------------------------------------------------------------
\* The rule that is polled is the one its settings were converted to.
StepperTypes ==
    ShewhartTypes \cup {"RANGE_CHART_R", "SPEC_LIMIT_VIOLATION", "TREND_6_POINTS", "TPA"}

LEMMA StepperRule ==
  ASSUME Inv, polls > 0, sub.via = "stepper"
  PROVE  /\ rule.detector = buildDetector(sub.ruleType, sub.cfg)
         /\ sub.ruleType \in StepperTypes /\ IsSettings(sub.cfg) /\ IsAsk(sub.ask)
  <1> DEFINE d == buildDetector(sub.ruleType, sub.cfg)
             poll == Positive(sub.cfg, "pollIntervalSeconds", defaultStepperPollIntervalSeconds)
  <1>1. rule # None /\ rule = Stored(sub) /\ sub \in Submissions
    BY LastPoll
  <1>2. rule = BuildRuleSpecFromStepper(sub.ruleType, sub.cfg)
    BY <1>1 DEF Stored
  <1>3. d # None /\ rule = Rule(d, poll)
    BY <1>1, <1>2, Zenon DEF BuildRuleSpecFromStepper
  <1>4. rule.detector = d
    <2> HIDE DEF d, poll
    <2> QED BY <1>3, RuleDetector, Zenon
  <1>5. sub.ruleType \in StepperTypes
    BY <1>3 DEF buildDetector, StepperTypes
  <1>6. IsSettings(sub.cfg) /\ IsAsk(sub.ask)
    BY <1>1, SubmissionAssumption
  <1> QED BY <1>4, <1>5, <1>6

\* A poll of a control chart answers nothing, or what the chart says of the
\* samples that the preview judges.
LEMMA ChartPolled ==
  ASSUME Inv, polls > 0, ReadAlike(sub), sub.via = "stepper",
         rule.detector.type \in {"shewhart", "range_chart"},
         NEW a \in last.answers
  PROVE  LET base == fetchForSelector(BaseAsked(sub), Seen, last.at)
         IN  a.status = "" \/ a.status = ChartResult(rule.detector, base).status
  <1> DEFINE d == rule.detector
             table == Seen
             t == last.at
             base == fetchForSelector(BaseAsked(sub), table, t)
             samples == baselineSamples(d, table, t)
  <1>1. /\ table \in Seq(Sample) /\ t \in Int
        /\ a \in evaluateParameterSince(rule, table, t, last.since)
    BY LastPoll DEF Polled
  <1> HIDE DEF table, t
  <1>2. buildBaselineWindow(t, d.baseline, MaxSampleRows) # None /\ samples = base
    <2>1. d = buildDetector(sub.ruleType, sub.cfg) /\ IsAsk(sub.ask)
      BY StepperRule
    <2> QED BY <1>1, <2>1, BaseFetched
  <1> HIDE DEF samples
  <1>3. a \in Nothing \/ a \in About(ChartResult(d, samples), samples)
    <2>1. CASE d.type = "shewhart"
      <3>1. a \in evaluateShewhart(d, table, t, last.since)
        BY <1>1, <2>1 DEF evaluateParameterSince
      <3>2. \/ a \in Nothing
            \/ a \in About(EvaluateShewhart(samples, d, sigmas(d)), samples)
        BY <1>2, <3>1, Zenon DEF evaluateShewhart, samples
      <3> QED BY <2>1, <3>2, Zenon DEF ChartResult
    <2>2. CASE d.type = "range_chart"
      <3>1. a \in evaluateRangeChart(d, table, t, last.since)
        BY <1>1, <2>2 DEF evaluateParameterSince
      <3>2. \/ a \in Nothing
            \/ a \in About(EvaluateRangeChart(subgroups(d, samples), d), samples)
        BY <1>2, <3>1, Zenon DEF evaluateRangeChart, samples
      <3>3. d.type # "shewhart"
        BY <2>2
      <3> QED BY <3>2, <3>3, Zenon DEF ChartResult
    <2> QED BY <2>1, <2>2
  <1>4. \A res, s : \A b \in About(res, s) : b.status = res.status
    BY DEF About
  <1>5. noResult.status = ""
    BY DEF noResult
  <1> QED BY <1>2, <1>3, <1>4, <1>5, Zenon DEF Nothing, t, table

\* An alert of another type about the newest sample of the preview is one of
\* what the preview says.
LEMMA AlertShown ==
  ASSUME Inv, polls > 0, ReadAlike(sub), sub.via = "stepper",
         sub.ruleType \in {"SPEC_LIMIT_VIOLATION", "TREND_6_POINTS", "TPA"},
         windowSince(rule, last.at, last.since) >= last.at - Year,
         NEW a \in last.answers, a.reasons # {},
         LET shown == fetchForSelector(EvalAsked(sub), Seen, last.at)
         IN  shown # <<>> /\ a.ts = Last(shown).ts
  PROVE  a.reasons = StepperPreview(sub.ruleType, sub.cfg, sub.ask, Seen, last.at).reasons
  <1> DEFINE type == sub.ruleType
             cfg == sub.cfg
             d == rule.detector
             e == previewDetector(type, cfg)
             table == Seen
             t == last.at
             since == last.since
             from == windowSince(rule, t, since)
             ask == sub.ask
             base == fetchForSelector(BaseAsked(sub), table, t)
             v == EvalAsked(sub).value
             shown == fetchForSelector(EvalAsked(sub), table, t)
             preview == StepperPreview(type, cfg, ask, table, t)
  <1>1. /\ table \in Seq(Sample) /\ InOrder(table) /\ t \in Int /\ rule.poll \in Int
        /\ (since = None \/ since \in Int)
        /\ a \in evaluateParameterSince(rule, table, t, since)
    BY LastPoll DEF Polled
  <1>2. d = buildDetector(type, cfg) /\ IsSettings(cfg) /\ IsAsk(ask)
    BY StepperRule
  <1>3. shown # <<>> /\ a.ts = Last(shown).ts
    OBVIOUS
  <1> HIDE DEF table, t, since
  <1>4. base # None
    BY <1>1, <1>2, BaseFetched
  <1>5. v \in 1..MaxSampleRows /\ shown = fetchSamples(table, t - Year, v)
    BY <1>1, ShownFetched
  <1>6. shown \in Seq(Sample) /\ shown # None /\ ToSet(shown) \subseteq ToSet(table)
    BY <1>1, ShownFetched
  <1>7. from \in Int /\ from >= t - Year
    <2>1. from >= t - Year
      BY DEF t, since
    <2>2. Seconds(rule.poll) \in Int
      BY <1>1, SecondsGrow
    <2> QED BY <1>1, <2>1, <2>2 DEF windowSince
  <1>8. \A result, s : \A b \in About(result, s) : b.reasons = result.reasons
    BY DEF About
  <1>9. insufficientData.reasons = {}
    BY DEF insufficientData
  <1> HIDE DEF base, shown, from, v
  <1>10. CASE type = "SPEC_LIMIT_VIOLATION"
    <2>1. d.type = "spec_limit" /\ \A value : EvaluateSpecLimit(value, d) = EvaluateSpecLimit(value, e)
      BY <1>2, <1>10, LimitsRead
    <2>2. a \in evaluateSpecLimit(rule, d, table, t, since)
      BY <1>1, <2>1 DEF evaluateParameterSince
    <2>3. Last(shown) \in ToSet(table)
      BY <1>3, <1>6, LastEntry
    <2>4. a.reasons = EvaluateSpecLimit(Last(shown).value, d).reasons
      <3> DEFINE r == Last(shown)
      <3>1. r \in ToSet(table) /\ a.ts = r.ts /\ a.reasons # {}
        BY <1>3, <2>3
      <3> HIDE DEF r, d
      <3>2. a.reasons = EvaluateSpecLimit(r.value, d).reasons
        BY <1>1, <2>2, <3>1, LimitHit
      <3> QED BY <3>2 DEF r
    <2>5. preview = EvaluateSpecLimit(Last(shown).value, e)
      <3>1. type \notin ShewhartTypes /\ type \notin {"RANGE_CHART_R", "TREND_6_POINTS", "TPA"}
        BY <1>10 DEF ShewhartTypes
      <3> HIDE DEF type
      <3> QED BY <1>3, <1>4, <1>6, <1>10, <3>1, Zenon
              DEF StepperPreview, base, shown, BaseAsked, EvalAsked
    <2> QED BY <2>1, <2>4, <2>5 DEF t, table
  <1>11. CASE type = "TREND_6_POINTS"
    <2> DEFINE w == Default(d.windowSize, defaultTrendWindowSize)
               samples == fetchSamples(table, from, clampLimit(w, MaxSampleRows))
    <2>1. /\ d.type = "trend" /\ d.epsilon = e.epsilon
          /\ w = Default(e.windowSize, defaultTrendWindowSize) /\ w \in Nat \ {0} /\ w <= v
      BY <1>2, <1>11, TrendRead, Zenon DEF v
    <2>2. samples \in Seq(Sample) /\ Ends(samples, shown)
      <3> HIDE DEF w
      <3> QED BY <1>1, <1>5, <1>7, <2>1, ShownEnd
    <2>3. a \in evaluateTrend(rule, d, table, t, since)
      BY <1>1, <2>1 DEF evaluateParameterSince
    <2> HIDE DEF samples
    <2>4. \/ a \in About(insufficientData, samples)
          \/ a \in About(EvaluateTrend6(samples, d), samples)
      BY <2>3, Zenon DEF evaluateTrend, samples, from
    <2>5. a.reasons = EvaluateTrend6(samples, d).reasons
      BY <1>8, <1>9, <2>4, Zenon
    <2>6. EvaluateTrend6(samples, d) = EvaluateTrend6(shown, e)
      <3>1. w \in Nat \ {0}
        BY <2>1
      <3>2. EvaluateTrend6(samples, d).reasons # {}
        BY <2>5
      <3> HIDE DEF d, e
      <3> QED BY <1>6, <2>1, <2>2, <3>1, <3>2, TrendSettings
    <2>7. preview = EvaluateTrend6(shown, e)
      <3>1. type \notin ShewhartTypes /\ type \notin {"RANGE_CHART_R", "SPEC_LIMIT_VIOLATION", "TPA"}
        BY <1>11 DEF ShewhartTypes
      <3> HIDE DEF type
      <3> QED BY <1>4, <1>6, <1>11, <3>1, Zenon
              DEF StepperPreview, base, shown, BaseAsked, EvalAsked
    <2> QED BY <2>5, <2>6, <2>7 DEF t, table
  <1>12. CASE type = "TPA"
    <2> DEFINE w == Default(d.windowN, 3)
               samples == fetchSamples(table, from, clampLimit(w, MaxSampleRows))
    <2>1. /\ d.type = "tpa" /\ d.windowN \in Nat \ {0} /\ d.windowN <= v /\ d.windowN = e.windowN
          /\ d.basis \in Stamped <=> e.basis \in Stamped
          /\ d.slope = e.slope /\ d.time = e.time /\ d.epsilon = e.epsilon
          /\ d.requireSpecLimits = e.requireSpecLimits /\ d.limits = e.limits
      BY <1>2, <1>12, SlopeRead, Zenon DEF v
    <2>3. w = d.windowN /\ d.windowN \in Nat
      BY <2>1 DEF Default
    <2>4. samples \in Seq(Sample) /\ Ends(samples, shown)
      <3>1. w \in Nat \ {0} /\ w <= v
        BY <2>1, <2>3
      <3> HIDE DEF w
      <3> QED BY <1>1, <1>5, <1>7, <3>1, ShownEnd
    <2>5. a \in evaluateTPA(rule, d, table, t, since)
      BY <1>1, <2>1 DEF evaluateParameterSince
    <2> HIDE DEF samples
    <2>6. a \in About(EvaluateTPA(samples, d), samples)
      BY <2>5, Zenon DEF evaluateTPA, samples, from
    <2>7. a.reasons = EvaluateTPA(samples, d).reasons
      BY <1>8, <2>6, Zenon
    <2>8. EvaluateTPA(samples, d) = EvaluateTPA(shown, e)
      <3>1. EvaluateTPA(samples, d).reasons # {}
        BY <2>7
      <3> HIDE DEF d, e
      <3> QED BY <1>6, <2>1, <2>3, <2>4, <3>1, SlopeSettings
    <2>9. preview = EvaluateTPA(shown, e)
      <3>1. /\ type \notin ShewhartTypes
            /\ type \notin {"RANGE_CHART_R", "SPEC_LIMIT_VIOLATION", "TREND_6_POINTS"}
        BY <1>12 DEF ShewhartTypes
      <3> HIDE DEF type
      <3> QED BY <1>4, <1>6, <1>12, <3>1, Zenon
              DEF StepperPreview, base, shown, BaseAsked, EvalAsked
    <2> QED BY <2>7, <2>8, <2>9 DEF t, table
  <1> QED BY <1>10, <1>11, <1>12

\* What the preview of a control chart answers is what the stored chart does,
\* and the baseline check counts as both do.
LEMMA ChartShown ==
  ASSUME Inv, polls > 0, ReadAlike(sub), sub.via = "stepper", Polled,
         sub.ruleType \in ShewhartTypes \cup {"RANGE_CHART_R"}
  PROVE  LET d == rule.detector
             base == fetchForSelector(BaseAsked(sub), Seen, last.at)
             check == StepperBaselineCheck(sub.ruleType, sub.ask, Seen, last.at)
         IN  /\ d.type \in {"shewhart", "range_chart"}
             /\ StepperPreview(sub.ruleType, sub.cfg, sub.ask, Seen, last.at).status
                   = ChartResult(d, base).status
             /\ (/\ "baselineSelector" \in DOMAIN sub.ask
                 /\ DOMAIN sub.cfg \cap {"minBaselineN", "minBaselineSubgroups"} = {}) =>
                   (ChartResult(d, base).status = "INSUFFICIENT_DATA"
                       <=> check.status = "INSUFFICIENT_DATA")
  <1> DEFINE type == sub.ruleType
             cfg == sub.cfg
             d == rule.detector
             e == previewDetector(type, cfg)
             table == Seen
             t == last.at
             ask == sub.ask
             base == fetchForSelector(BaseAsked(sub), table, t)
             eval == fetchForSelector(EvalAsked(sub), table, t)
             preview == StepperPreview(type, cfg, ask, table, t)
             check == StepperBaselineCheck(type, ask, table, t)
             plain == /\ "baselineSelector" \in DOMAIN ask
                      /\ DOMAIN cfg \cap {"minBaselineN", "minBaselineSubgroups"} = {}
  <1>1. table \in Seq(Sample) /\ t \in Int
    BY LastPoll DEF Polled
  <1>2. d = buildDetector(type, cfg) /\ IsSettings(cfg) /\ IsAsk(ask)
    BY StepperRule
  <1> HIDE DEF table, t
  <1>3. base \in Seq(Sample) /\ base # None /\ eval # None
    BY <1>1, <1>2, BaseFetched, ShownFetched
  <1> HIDE DEF base, eval
  <1>4. /\ Len(base) \in Nat /\ defaultBaselineMinN \in Nat \ {0}
        /\ defaultBaselineSubgroups \in Nat \ {0}
    BY <1>3, DefaultAssumption
  <1>5. plain => check.status = IF enoughBaseline(type, ask, base)
                               THEN "OK" ELSE "INSUFFICIENT_DATA"
    <2> SUFFICES ASSUME plain
                 PROVE  check.status = IF enoughBaseline(type, ask, base)
                                       THEN "OK" ELSE "INSUFFICIENT_DATA"
      OBVIOUS
    <2>0. Setting(ask, "baselineSelector", [kind |-> ""]) = BaseAsked(sub)
      BY Zenon DEF Setting, BaseAsked
    <2> HIDE DEF type, cfg, ask
    <2> DEFINE s == IF enoughBaseline(type, ask, base) THEN "OK" ELSE "INSUFFICIENT_DATA"
               gaps == ~hasConsecutiveTimestamps(base)
    <2>1. check = [status |-> s, gaps |-> gaps]
      BY <1>3, <2>0, Zenon DEF StepperBaselineCheck, base
    <2> HIDE DEF s, gaps, check
    <2> QED BY <2>1 DEF s
  <1>6. \A reasons : Result(reasons).status # "INSUFFICIENT_DATA"
    BY DEF Result
  <1>7. insufficientData.status = "INSUFFICIENT_DATA" /\ invalidConfig.status # "INSUFFICIENT_DATA"
    BY DEF insufficientData, invalidConfig
  <1>8. CASE type \in ShewhartTypes
    <2> DEFINE k == sigmas(d)
               least == Default(d.minBaselineN, defaultBaselineMinN)
    <2>1. /\ d.type = "shewhart" /\ d.baseline = buildBaselineSpec(cfg) /\ e.sigmaMultiplier = k
          /\ \A samples, m : EvaluateShewhart(samples, d, m) = EvaluateShewhart(samples, e, m)
      BY <1>2, <1>8, ShewhartRead
    <2>2. ChartResult(d, base) = EvaluateShewhart(base, d, k)
      BY <2>1, Zenon DEF ChartResult
    <2>3. type \notin {"SPEC_LIMIT_VIOLATION", "RANGE_CHART_R", "TREND_6_POINTS", "TPA"}
      BY <1>8 DEF ShewhartTypes
    <2>4. preview = EvaluateShewhart(base, e, e.sigmaMultiplier)
      <3> HIDE DEF type, cfg, ask
      <3> QED BY <1>3, <1>8, <2>3, Zenon DEF StepperPreview, base, eval, BaseAsked, EvalAsked, ask
    <2>5. preview.status = ChartResult(d, base).status
      BY <2>1, <2>2, <2>4
    <2>6. ASSUME plain PROVE d.minBaselineN = defaultBaselineMinN
      <3>1. "minBaselineN" \notin DOMAIN cfg
        BY <2>6
      <3>2. d = buildShewhart(type, cfg)
        BY <1>2, <1>8 DEF buildDetector, ShewhartTypes
      <3>3. d.minBaselineN = Positive(cfg, "minBaselineN", defaultBaselineMinN)
        <4> HIDE DEF type, cfg, d
        <4> QED BY <3>2 DEF buildShewhart
      <3> HIDE DEF cfg, d
      <3> QED BY <3>1, <3>3, NotRead
    <2>7. plain => least = defaultBaselineMinN
      BY <2>6 DEF Default
    <2>8. Len(extractValues(base)) = Len(base)
      BY <1>3 DEF extractValues
    <2> HIDE DEF least, k
    <2>9. ChartResult(d, base).status = "INSUFFICIENT_DATA" <=> Len(base) < least
      <3>1. EvaluateShewhart(base, d, k).status = "INSUFFICIENT_DATA"
               <=> Len(extractValues(base)) < least
        BY <1>6, <1>7, Zenon DEF EvaluateShewhart, least
      <3> QED BY <2>2, <2>8, <3>1
    <2>10. enoughBaseline(type, ask, base) <=> Len(base) >= defaultBaselineMinN
      BY <1>8, <2>3, Zenon DEF enoughBaseline
    <2>11. plain => (Len(base) < least <=> ~(Len(base) >= defaultBaselineMinN))
      BY <1>4, <2>7
    <2> HIDE DEF check, plain, preview, d
    <2>12. plain => (check.status = "INSUFFICIENT_DATA" <=> ~enoughBaseline(type, ask, base))
      BY <1>5
    <2>13. plain => (ChartResult(d, base).status = "INSUFFICIENT_DATA"
                        <=> check.status = "INSUFFICIENT_DATA")
      BY <2>9, <2>10, <2>11, <2>12, Zenon
    <2> QED BY <2>1, <2>5, <2>13 DEF check, plain, preview, d, base, table, t
  <1>9. CASE type = "RANGE_CHART_R"
    <2> DEFINE groups == subgroups(d, base)
               least == Default(d.minBaselineSubgroups, defaultBaselineSubgroups)
    <2>2. /\ d.type = "range_chart" /\ d.baseline = buildBaselineSpec(cfg)
          /\ d.subgroupSize \in Nat \ {0}
          /\ d.minBaselineSubgroups =
                Positive(cfg, "minBaselineSubgroups", defaultBaselineSubgroups)
          /\ \A samples : subgroups(d, samples) = previewGroups(ask, samples)
          /\ \A gs : EvaluateRangeChart(gs, d) = EvaluateRangeChart(gs, e)
      BY <1>2, <1>9, RangeRead
    <2>3. ChartResult(d, base) = EvaluateRangeChart(groups, d)
      <3>1. d.type # "shewhart"
        BY <2>2
      <3> QED BY <3>1, Zenon DEF ChartResult
    <2>4. "RANGE_CHART_R" \notin ShewhartTypes
      BY DEF ShewhartTypes
    <2>5. preview = EvaluateRangeChart(previewGroups(ask, base), e)
      <3>1. type \notin ShewhartTypes /\ type \notin {"SPEC_LIMIT_VIOLATION", "TREND_6_POINTS", "TPA"}
        BY <1>9, <2>4
      <3> HIDE DEF type, cfg, ask
      <3> QED BY <1>3, <1>9, <3>1, Zenon DEF StepperPreview, base, eval, BaseAsked, EvalAsked, ask
    <2>6. preview.status = ChartResult(d, base).status
      BY <2>2, <2>3, <2>5
    <2>7. plain => least = defaultBaselineSubgroups
      <3> SUFFICES ASSUME plain PROVE least = defaultBaselineSubgroups
        OBVIOUS
      <3>1. "minBaselineSubgroups" \notin DOMAIN cfg
        OBVIOUS
      <3>2. d.minBaselineSubgroups = defaultBaselineSubgroups
        BY <2>2, <3>1, NotRead
      <3> QED BY <3>2 DEF Default
    <2>8. Len(groups) \in Nat /\ (groups = <<>> => Len(groups) = 0)
      <3>1. Grouping(groups, base, Sample)
        BY <1>3, <2>2, ChartGroups
      <3> QED BY <3>1 DEF Grouping
    <2>9. enoughBaseline(type, ask, base) <=> Len(groups) >= defaultBaselineSubgroups
      <3>1. enoughBaseline(type, ask, base)
               <=> Len(previewGroups(ask, base)) >= defaultBaselineSubgroups
        <4> HIDE DEF ask
        <4> QED BY <1>9, <2>4, Zenon DEF enoughBaseline
      <3> QED BY <2>2, <3>1
    <2> HIDE DEF groups, least
    <2>10. EvaluateRangeChart(groups, d).status = "INSUFFICIENT_DATA"
              <=> groups = <<>> \/ Len(groups) < least
      BY <1>6, <1>7, Zenon DEF EvaluateRangeChart, least
    <2>11. plain => (groups = <<>> \/ Len(groups) < least
                        <=> ~(Len(groups) >= defaultBaselineSubgroups))
      BY <1>4, <2>7, <2>8
    <2> HIDE DEF check, plain, preview, d
    <2>12. plain => (check.status = "INSUFFICIENT_DATA" <=> ~enoughBaseline(type, ask, base))
      BY <1>5
    <2>13. plain => (ChartResult(d, base).status = "INSUFFICIENT_DATA"
                        <=> check.status = "INSUFFICIENT_DATA")
      BY <2>3, <2>9, <2>10, <2>11, <2>12, Zenon
    <2> QED BY <2>2, <2>6, <2>13 DEF check, plain, preview, d, base, table, t
  <1> QED BY <1>8, <1>9

\* What a user is told about such a rule before saving it holds of its polls,
\* whatever the settings and the table: the samples that are previewed are
\* those of the stored baseline, or end as those of a poll do, and the two
\* readings of the settings give detectors that answer alike
\* (BuildRuleSpecFromStepper, StepperPreview and StepperBaselineCheck).
THEOREM ForecastsHold == Spec => []StepperForecastsPoll
  <1> DEFINE base == fetchForSelector(BaseAsked(sub), Seen, last.at)
             preview == StepperPreview(sub.ruleType, sub.cfg, sub.ask, Seen, last.at)
             check == StepperBaselineCheck(sub.ruleType, sub.ask, Seen, last.at)
             d == rule.detector
             Charts == ShewhartTypes \cup {"RANGE_CHART_R"}
             Others == {"SPEC_LIMIT_VIOLATION", "TREND_6_POINTS", "TPA"}
  <1>1. ASSUME Inv, polls > 0, ReadAlike(sub)
        PROVE  /\ sub.via = "stepper" /\ Polled
               /\ sub.ruleType \in Charts \cup Others
               /\ sub.ruleType \in Charts <=> d.type \in {"shewhart", "range_chart"}
    <2>1. sub.via = "stepper" /\ Polled
      BY <1>1, LastPoll DEF ReadAlike
    <2>2. sub.ruleType \in Charts \cup Others
      BY <1>1, <2>1, StepperRule DEF StepperTypes
    <2>3. sub.ruleType \in Charts => d.type \in {"shewhart", "range_chart"}
      BY <1>1, <2>1, ChartShown
    <2>4. sub.ruleType \in Others => d.type \notin {"shewhart", "range_chart"}
      <3>1. d = buildDetector(sub.ruleType, sub.cfg) /\ IsSettings(sub.cfg)
        BY <1>1, <2>1, StepperRule
      <3>2. sub.ruleType = "SPEC_LIMIT_VIOLATION" => d.type = "spec_limit"
        BY <1>1, <3>1, LimitsRead
      <3>3. sub.ruleType = "TREND_6_POINTS" => d.type = "trend"
        BY <1>1, <3>1, TrendRead
      <3>4. sub.ruleType = "TPA" => d.type = "tpa"
        BY <1>1, <3>1, SlopeRead
      <3> QED BY <3>2, <3>3, <3>4
    <2> QED BY <2>1, <2>2, <2>3, <2>4
  <1>2. Inv => PreviewForecastsPoll
    <2> SUFFICES ASSUME Inv, polls > 0, ReadAlike(sub), NEW a \in last.answers
                 PROVE  IF d.type \in {"shewhart", "range_chart"}
                        THEN a.status \notin {"", "ERROR"} => a.status = preview.status
                        ELSE (LET shown == fetchForSelector(EvalAsked(sub), Seen, last.at)
                              IN  /\ a.reasons # {} /\ shown # <<>> /\ a.ts = Last(shown).ts
                                  /\ windowSince(rule, last.at, last.since) >= last.at - Year)
                             => preview.reasons = a.reasons
      BY Zenon DEF PreviewForecastsPoll, Seen, EvalAsked
    <2>1. CASE d.type \in {"shewhart", "range_chart"}
      <3>1. preview.status = ChartResult(d, base).status
        BY <1>1, <2>1, ChartShown
      <3>2. a.status = "" \/ a.status = ChartResult(d, base).status
        BY <1>1, <2>1, ChartPolled
      <3> HIDE DEF preview, base
      <3> QED BY <2>1, <3>1, <3>2
    <2>2. CASE d.type \notin {"shewhart", "range_chart"}
      <3>1. sub.via = "stepper" /\ sub.ruleType \in Others
        BY <1>1, <2>2
      <3> QED BY <2>2, <3>1, AlertShown
    <2> QED BY <2>1, <2>2
  <1>3. Inv => BaselineCheckForecastsPoll
    <2> SUFFICES ASSUME Inv, polls > 0, ReadAlike(sub), "baselineSelector" \in DOMAIN sub.ask,
                        d.type \in {"shewhart", "range_chart"},
                        DOMAIN sub.cfg \cap {"minBaselineN", "minBaselineSubgroups"} = {},
                        NEW a \in last.answers, a.status \notin {"", "ERROR"}
                 PROVE  a.status = "INSUFFICIENT_DATA" <=> check.status = "INSUFFICIENT_DATA"
      BY Zenon DEF BaselineCheckForecastsPoll, Seen
    <2>1. ChartResult(d, base).status = "INSUFFICIENT_DATA" <=> check.status = "INSUFFICIENT_DATA"
      BY <1>1, ChartShown
    <2>2. a.status = "" \/ a.status = ChartResult(d, base).status
      BY <1>1, ChartPolled
    <2> HIDE DEF check, base
    <2> QED BY <2>1, <2>2
  <1>4. Inv => StepperForecastsPoll
    BY <1>2, <1>3 DEF StepperForecastsPoll
  <1> QED BY <1>4, Invariance, PTL
=============================================================================
