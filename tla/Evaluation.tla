----------------------------- MODULE Evaluation -----------------------------
(***************************************************************************)
(* One rule from its submission to its alerts: it is created through the   *)
(* user interface or sent as JSON, checked, scheduled, and polled while    *)
(* rows arrive.  What a poll answers is evaluateParameterSince of the      *)
(* scheduler; a preview of the same settings is StepperPreview.            *)
(*                                                                         *)
(* A poll begins, and reads the table some time later: rows may arrive in  *)
(* between.  RunWindow has its other steps, and polls that overlap.  Rows  *)
(* have distinct times, as the order in which a query returns rows of the  *)
(* same time is the database's choice.                                     *)
(***************************************************************************)
EXTENDS RuleConfig

CONSTANTS
    Submissions,    \* the rules clients submit
    Histories,      \* the rows the table may hold at first
    Arrivals,       \* the rows that may arrive: their value and subgroup key
    Gaps,           \* ticks from one event to the next
    Delays,         \* ticks from the last event to the query of a poll
    MaxSampleRows,
    MaxArrivals,    \* bound: rows that arrive in a behaviour
    MaxPolls        \* bound: polls in a behaviour

\* A row that the scheduler can use, or whose value or key it cannot read.
Sample == [ts : Int, value : Int \cup {None}, group : Int \cup {None}]

\* Where the query for a baseline looks.
BaselineWindow == [since : Int, limit : Int, start : Int \cup {None}, end : Int \cup {None}]

\* An aggregate, as numerator and denominator.
Fraction == [num : Int, den : Int]

ASSUME EvaluationAssumption ==
    /\ TicksPerSecond \in Nat \ {0} /\ Year \in Nat /\ SigmaUnit \in Nat \ {0}
    /\ MaxSampleRows \in Nat \ {0} /\ defaultBaselineLastN \in Nat \ {0}
    /\ Gaps \subseteq Nat \ {0} /\ Delays \subseteq Nat
    /\ Histories \subseteq Seq(Sample)
    /\ \A a \in Arrivals : a.value \in Int \cup {None} /\ a.group \in Int \cup {None}
    /\ None \notin Int /\ None \notin BaselineWindow /\ None \notin Fraction
    /\ None \notin Seq(Sample)
    /\ Garbled \notin Int /\ Garbled # None

\* A table is in the order of its times, and has no row of the future.
ASSUME HistoryAssumption ==
    \A h \in Histories : \A i \in 1..Len(h) :
        h[i].ts <= 0 /\ \A j \in 1..(i - 1) : h[j].ts < h[i].ts

\* The defaults of the settings.
ASSUME DefaultAssumption ==
    {defaultBaselineMinN, defaultBaselineSubgroups, defaultTrendWindowSize, defaultSubgroupSize,
     defaultWindowN, defaultStepperPollIntervalSeconds} \subseteq Nat \ {0}

\* The catalog proposes a baseline no shorter than the one a rule has without
\* it, which holds a trend and which a query may return, and there are constants
\* for its subgroups.
ASSUME CatalogAssumption ==
    /\ defaultBaselineLastN <= catalogLastN /\ defaultBaselineLastN <= MaxSampleRows
    /\ defaultTrendWindowSize <= defaultBaselineLastN
    /\ catalogLastN \in Nat /\ defaultSubgroupSize \in DOMAIN rangeChartConstants

\* The parser's own numbers; its poll interval is one that RULE_POLL_MIN and
\* RULE_POLL_MAX allow, as their defaults do.
ASSUME ParserAssumption ==
    /\ promptPollSeconds \in MinPollSeconds..MaxPollSeconds
    /\ MinPollSeconds \in Nat /\ MaxPollSeconds \in Nat
    /\ promptEvalSeconds \in Nat /\ promptBaselineSeconds \in Nat /\ minSamplesRobustZ \in Nat
    /\ promptEvalSeconds <= promptBaselineSeconds

\* What the patterns can find in a prompt.
IsPrompt(p) ==
    /\ p.missing \in BOOLEAN /\ p.abnormal \in BOOLEAN
    /\ p.window \in Nat /\ p.every \in Nat
    /\ {"window", "every"} \subseteq DOMAIN p
    /\ p.threshold # None =>
          /\ p.threshold.type = "threshold"
          /\ p.threshold.op \in {">", ">=", "<", "<=", "==", "!=", "between"}
          /\ p.threshold.op # "between" => p.threshold.value \in Int
          /\ p.threshold.op = "between" => p.threshold.min \in Int /\ p.threshold.max \in Int

\* The times of a range are texts: empty, a time, or anything else.
IsRange(range) == {range.start, range.end} \subseteq Int \cup {None, Garbled}

\* A baseline as JSON decodes it.
IsBaseline(b) ==
    /\ b.lastN \in Int \cup {None}
    /\ b.timeRange # None => IsRange(b.timeRange)

\* A detector as JSON decodes it.
IsDetector(d) ==
    /\ d.type \in {"shewhart", "range_chart"} => IsBaseline(d.baseline)
    /\ d.type = "shewhart" => d.sigmaMultiplier \in Int /\ d.minBaselineN \in Int
    /\ d.type = "range_chart" => d.subgroupSize \in Int /\ d.minBaselineSubgroups \in Int
    /\ d.type = "trend" => d.windowSize \in Int /\ d.epsilon \in Int
    /\ d.type = "tpa" => d.windowN \in Int
    /\ (d.type = "threshold" /\ d.op # "between") => d.value \in Int

\* The settings of the user interface: those that are numbers, if the client
\* sent them, are.
NumberSettings ==
    {"windowSize", "epsilon", "sigmaMultiplier", "minBaselineN", "subgroupSize",
     "minBaselineSubgroups", "windowN", "pollIntervalSeconds"}

IsSettings(cfg) ==
    /\ \A name \in NumberSettings : Setting(cfg, name, 0) \in Int
    /\ Setting(Setting(cfg, "subgrouping", <<>>), "subgroupSize", 0) \in Int
    /\ IsBaseline(buildBaselineSpec(cfg))

\* The fields that a client sends beside the settings, with its requests for a
\* baseline check and for a preview: selectors and the subgrouping.
IsSelector(sel) ==
    /\ Setting(sel, "value", 0) \in Int
    /\ sel.kind = "timeRange" => IsRange(sel.range)

IsAsk(ask) ==
    /\ \A name \in {"baselineSelector", "evalSelector"} \cap DOMAIN ask : IsSelector(ask[name])
    /\ Setting(Setting(ask, "subgrouping", <<>>), "subgroupSize", 0) \in Int

ASSUME SubmissionAssumption ==
    \A s \in Submissions :
        /\ s.via \in {"stepper", "json", "prompt"}
        /\ s.via = "stepper" => IsSettings(s.cfg) /\ IsAsk(s.ask)
        /\ s.via = "json" => IsDetector(s.spec.detector) /\ s.spec.window \in Int \cup {None}
        /\ s.via = "prompt" =>
              /\ IsPrompt(s.prompt)
              /\ s.draft.parameter # None => IsDetector(s.draft.parameter)

VARIABLES
    sub,            \* the submission
    rule,           \* the stored rule, None if it was refused
    active,         \* the scheduler has accepted and scheduled it
    rows,           \* the table, oldest row first
    now,            \* the time in ticks
    runAt,          \* when the poll under way began, None if there is none
    lastRun,        \* when the last poll began, None before the first
    arrivals, polls,
    last,           \* history: what the last poll saw and answered
    alerted         \* history: at each alert its newest sample and when its poll began

vars == <<sub, rule, active, rows, now, runAt, lastRun, arrivals, polls, last, alerted>>

NoPoll == [answers |-> {}, since |-> None, at |-> None, count |-> 0]

\* What the rule service stores: rules of the user interface are converted and
\* stored as they are, rules sent as JSON or as a prompt are validated.
Stored(s) ==
    CASE s.via = "stepper" -> BuildRuleSpecFromStepper(s.ruleType, s.cfg)
      [] s.via = "json" -> IF ValidateRuleSpec(s.spec) THEN s.spec ELSE None
      [] s.via = "prompt" ->
            LET parsed == ParsePromptWithDraft(s.prompt, s.draft)
            IN  IF parsed # None /\ ValidateRuleSpec(parsed) THEN parsed ELSE None

Init ==
    /\ sub \in Submissions
    /\ rule = Stored(sub)
    /\ active = FALSE
    /\ rows \in Histories
    /\ now = 0
    /\ runAt = None /\ lastRun = None
    /\ arrivals = 0 /\ polls = 0
    /\ last = NoPoll
    /\ alerted = <<>>

-----------------------------------------------------------------------------
windowSince(spec, t, since) ==
    IF since # None THEN since ELSE t - Seconds(spec.poll)

\* An answer with the time of the sample it is about.
About(result, samples) ==
    {[status |-> result.status, reasons |-> result.reasons,
      ts |-> IF samples = <<>> THEN None ELSE Last(samples).ts]}

Nothing == About(noResult, <<>>)

\* The aggregate over the last window; NULL if there is nothing to aggregate.
\* The bound of this query keeps its fraction.
queryAggregate(spec, table, t) ==
    LET recent == Those(table, {r \in ToSet(table) : r.ts >= t - Seconds(spec.window)})
        values == extractValues(Readable(recent))
        whole(n) == [num |-> n, den |-> 1]
    IN  CASE spec.agg = "count" -> whole(Len(recent))
          [] spec.agg # "count" /\ values = <<>> -> None
          [] OTHER -> CASE spec.agg = "avg" -> [num |-> SumSeq(values), den |-> Len(values)]
                        [] spec.agg = "sum" -> whole(SumSeq(values))
                        [] spec.agg = "min" -> whole(Min(ToSet(values)))
                        [] spec.agg = "max" -> whole(Max(ToSet(values)))

\* The condition multiplied by k.
Times(cond, k) ==
    LET times(x) == IF x = None THEN None ELSE k * x
    IN  [op |-> cond.op,
         value |-> times(cond.value), min |-> times(cond.min), max |-> times(cond.max)]

evaluateThreshold(spec, d, table, t) ==
    LET agg == queryAggregate(spec, table, t)
        result == IF agg = None THEN EvaluateCondition(d, None)
                                ELSE EvaluateCondition(Times(d, agg.den), agg.num)
    IN  CASE Aggregating(spec) -> About(result, <<[ts |-> t]>>)
          [] ~Aggregating(spec) /\ table = <<>> -> About(failed, <<>>)
          [] OTHER -> About(EvaluateCondition(d, Last(table).value), <<Last(table)>>)

evaluateMissingData(d, table, t) ==
    LET latestTS == IF table = <<>> THEN None ELSE Last(table).ts
    IN  About(EvaluateMissingData(latestTS, d.maxGapSeconds, t), table)

\* The latest value is 0 when the newest row cannot be read.
evaluateRobustZ(d, table, t) ==
    LET fetched == FetchRecentRows(table, t - Seconds(d.baselineWindow), MaxSampleRows)
        samples == Readable(fetched)
        latest == Given(Last(fetched).value, 0)
    IN  IF Len(samples) < d.minSamples
        THEN Nothing
        ELSE About(EvaluateRobustZ(extractValues(samples), latest, d.zWarn, d.zCrit), samples)

\* One answer for every sample of the window that breaches a limit.
evaluateSpecLimit(spec, d, table, t, since) ==
    LET samples == fetchSamples(table, windowSince(spec, t, since), MaxSampleRows)
        answer(s) == About(EvaluateSpecLimit(s.value, d), <<s>>)
        hits == {a \in UNION {answer(s) : s \in ToSet(samples)} : a.reasons # {}}
    IN  IF hits = {} THEN Nothing ELSE hits

\* Mutant: a sample of the time of the last run counts as new.
UnchangedBefore(samples, since) ==
    samples # <<>> /\ since # None /\ Last(samples).ts < since

\* The newest sample is not newer than the last run.
Unchanged(samples, since) ==
    samples # <<>> /\ since # None /\ Last(samples).ts <= since

baselineSamples(d, table, t) ==
    LET w == buildBaselineWindow(t, d.baseline, MaxSampleRows)
    IN  filterSamplesByRange(fetchSamples(table, w.since, w.limit), w.start, w.end)

sigmas(d) == Default(d.sigmaMultiplier, 3 * SigmaUnit)

evaluateShewhart(d, table, t, since) ==
    LET samples == baselineSamples(d, table, t)
    IN  CASE buildBaselineWindow(t, d.baseline, MaxSampleRows) = None -> About(failed, <<>>)
          [] OTHER -> IF Unchanged(samples, since) THEN Nothing
                      ELSE About(EvaluateShewhart(samples, d, sigmas(d)), samples)

subgroups(d, samples) ==
    IF d.mode = "column" /\ d.column # "" THEN groupBySubgroup(samples, d.subgroupSize)
                                          ELSE groupConsecutive(samples, d.subgroupSize)

evaluateRangeChart(d, table, t, since) ==
    LET samples == baselineSamples(d, table, t)
    IN  CASE buildBaselineWindow(t, d.baseline, MaxSampleRows) = None -> About(failed, <<>>)
          [] OTHER -> IF Unchanged(samples, since) THEN Nothing
                      ELSE About(EvaluateRangeChart(subgroups(d, samples), d), samples)

evaluateTrend(spec, d, table, t, since) ==
    LET window == Default(d.windowSize, defaultTrendWindowSize)
        samples == fetchSamples(table, windowSince(spec, t, since),
                                clampLimit(window, MaxSampleRows))
    IN  IF d.consecutive /\ ~hasConsecutiveTimestamps(samples)
        THEN About(insufficientData, samples)
        ELSE About(EvaluateTrend6(samples, d), samples)

evaluateTPA(spec, d, table, t, since) ==
    LET samples == fetchSamples(table, windowSince(spec, t, since),
                                clampLimit(Default(d.windowN, 3), MaxSampleRows))
    IN  About(EvaluateTPA(samples, d), samples)

\* The answers of a poll at time t of a rule whose last run was at since.
evaluateParameterSince(spec, table, t, since) ==
    LET d == spec.detector
    IN  CASE d.type = "threshold" -> evaluateThreshold(spec, d, table, t)
          [] d.type = "missing_data" -> evaluateMissingData(d, table, t)
          [] d.type = "robust_zscore" -> evaluateRobustZ(d, table, t)
          [] d.type = "spec_limit" -> evaluateSpecLimit(spec, d, table, t, since)
          [] d.type = "shewhart" -> evaluateShewhart(d, table, t, since)
          [] d.type = "range_chart" -> evaluateRangeChart(d, table, t, since)
          [] d.type = "trend" -> evaluateTrend(spec, d, table, t, since)
          [] d.type = "tpa" -> evaluateTPA(spec, d, table, t, since)

Hits(answers) == {a \in answers : a.reasons # {}}

-----------------------------------------------------------------------------
\* The samples a preview looks at: the last ones, or those of a time range;
\* None for a selector that is refused.
fetchForSelector(sel, table, t) ==
    CASE sel.kind = "lastN" ->
            fetchSamples(table, t - Year,
                         clampLimit(Positive(sel, "value", MaxSampleRows), MaxSampleRows))
      [] sel.kind = "timeRange" /\ parseTimeRange(sel.range) ->
            filterSamplesByRange(fetchSamples(table, Seconds(sel.range.start), MaxSampleRows),
                                 Seconds(sel.range.start), Seconds(sel.range.end))
      [] OTHER -> None

lastNSelector == [kind |-> "lastN", value |-> defaultBaselineLastN]

previewGroups(ask, samples) ==
    LET by == Setting(ask, "subgrouping", <<>>)
        size == Positive(by, "subgroupSize", defaultSubgroupSize)
    IN  IF Setting(by, "kind", "") = "column" THEN groupBySubgroup(samples, size)
                                                ELSE groupConsecutive(samples, size)

\* Selectors and subgrouping come with the request, beside the settings.
StepperPreview(ruleType, cfg, ask, table, t) ==
    LET d == previewDetector(ruleType, cfg)
        base == fetchForSelector(Setting(ask, "baselineSelector", lastNSelector), table, t)
        eval == fetchForSelector(Setting(ask, "evalSelector", lastNSelector), table, t)
    IN  IF base = None \/ eval = None THEN failed ELSE
        CASE ruleType = "SPEC_LIMIT_VIOLATION" ->
                IF eval = <<>> THEN insufficientData ELSE EvaluateSpecLimit(Last(eval).value, d)
          [] ruleType \in ShewhartTypes -> EvaluateShewhart(base, d, d.sigmaMultiplier)
          [] ruleType = "RANGE_CHART_R" -> EvaluateRangeChart(previewGroups(ask, base), d)
          [] ruleType = "TREND_6_POINTS" -> EvaluateTrend6(eval, d)
          [] ruleType = "TPA" -> EvaluateTPA(eval, d)

\* Mutant: samples are counted where subgroups are meant.
enoughSamples(ruleType, ask, samples) ==
    CASE ruleType \in ShewhartTypes -> Len(samples) >= defaultBaselineMinN
      [] ruleType = "RANGE_CHART_R" -> Len(samples) >= defaultBaselineSubgroups
      [] OTHER -> TRUE

\* What the baseline check asks for.
enoughBaseline(ruleType, ask, samples) ==
    CASE ruleType \in ShewhartTypes -> Len(samples) >= defaultBaselineMinN
      [] ruleType = "RANGE_CHART_R" ->
            Len(previewGroups(ask, samples)) >= defaultBaselineSubgroups
      [] OTHER -> TRUE

\* StepperBaselineCheck, and whether it sees gaps in the baseline.  A request
\* without a selector is refused.
StepperBaselineCheck(ruleType, ask, table, t) ==
    LET samples == fetchForSelector(Setting(ask, "baselineSelector", [kind |-> ""]), table, t)
    IN  IF samples = None THEN [status |-> "ERROR", gaps |-> FALSE]
        ELSE [status |-> IF enoughBaseline(ruleType, ask, samples)
                         THEN "OK" ELSE "INSUFFICIENT_DATA",
              gaps |-> ~hasConsecutiveTimestamps(samples)]

-----------------------------------------------------------------------------
\* processRule: the scheduler checks the rule, and schedules it if it passes.
Activate ==
    /\ rule # None /\ ~active
    /\ RuntimeValidateRule(rule, rows)
    /\ active' = TRUE
    /\ UNCHANGED <<sub, rule, rows, now, runAt, lastRun, arrivals, polls, last, alerted>>

\* A row is written to the table.
Insert(a, gap) ==
    /\ arrivals < MaxArrivals
    /\ now' = now + gap
    /\ rows' = Append(rows, [ts |-> now', value |-> a.value, group |-> a.group])
    /\ arrivals' = arrivals + 1
    /\ UNCHANGED <<sub, rule, active, runAt, lastRun, polls, last, alerted>>

\* execute begins and notes the time.
BeginPoll(gap) ==
    /\ active /\ runAt = None
    /\ polls < MaxPolls
    /\ now' = now + gap
    /\ runAt' = now'
    /\ UNCHANGED <<sub, rule, active, rows, lastRun, arrivals, polls, last, alerted>>

\* The rest of execute, for a rule without a cooldown: the rule is evaluated,
\* hits become alerts, and the window advances to the time the poll began at,
\* whatever the evaluation answered.
Poll(delay) ==
    LET t == now + delay
        answers == evaluateParameterSince(rule, rows, t, lastRun)
    IN
    /\ runAt # None
    /\ now' = t
    /\ runAt' = None /\ lastRun' = runAt
    /\ polls' = polls + 1
    /\ last' = [answers |-> answers, since |-> lastRun, at |-> t, count |-> Len(rows)]
    /\ alerted' = IF Hits(answers) = {} THEN alerted
                  ELSE Append(alerted, [ts |-> Max({a.ts : a \in Hits(answers)}), run |-> runAt])
    /\ UNCHANGED <<sub, rule, active, rows, arrivals>>

Next ==
    \/ Activate
    \/ \E a \in Arrivals, gap \in Gaps : Insert(a, gap)
    \/ \E gap \in Gaps \cup {0} : BeginPoll(gap)
    \/ \E delay \in Delays : Poll(delay)

Spec == Init /\ [][Next]_vars

-----------------------------------------------------------------------------
Statuses == {"OK", "VIOLATION", "INSUFFICIENT_DATA", "INVALID_CONFIG", "ERROR", ""}

\* Every answer has one of the statuses of DetectorResult, and says VIOLATION
\* exactly when it lists a reason (addViolation and statusFromHit).
TypeOK ==
    /\ \A a \in last.answers :
          /\ a.status \in Statuses
          /\ a.status = "VIOLATION" <=> a.reasons # {}
          /\ a.ts = None \/ a.ts <= now
    /\ active => rule # None
    /\ polls > 0 => lastRun \in 0..now
    /\ runAt # None => active /\ runAt \in 0..now

\* A rule the rule service has validated evaluates at every poll: what
\* ValidateRuleSpec accepts, no detector of the scheduler refuses.  Three cases
\* are left: a baseline whose range has an end that is not a time, or that ends
\* before it starts, which the validator could have seen, and a regression
\* over samples of one and the same second.
ValidatedRuleEvaluates ==
    LET d == rule.detector
        range == d.baseline.timeRange
        badRange == /\ d.type \in {"shewhart", "range_chart"}
                    /\ range # None
                    /\ Garbled \in {range.start, range.end} \/ range.end < range.start
        oneSecond == /\ d.type = "tpa" /\ d.basis # "index"
                     /\ \E i \in 1..last.count : /\ i + d.windowN - 1 <= last.count
                            /\ Unix(rows[i].ts) = Unix(rows[i + d.windowN - 1].ts)
    IN  (sub.via \in {"json", "prompt"} /\ active) =>
            \A a \in last.answers :
                a.status \in {"INVALID_CONFIG", "ERROR"} => badRange \/ oneSecond

\* A control chart judges the newest sample by limits computed from samples
\* that include it, so no value is far enough out unless there are enough
\* samples: (n - 1)^2 > k^2 n of them for k sigma of the sample, n - 1 > k^2 for
\* k sigma of the population, and for a range chart more than D4 subgroups
\* (EvaluateShewhart, EvaluateRangeChart).
LimitsNeedHistory ==
    LET d == rule.detector
        samples == baselineSamples(d, SubSeq(rows, 1, last.count), last.at)
        n == Len(samples)
        k == sigmas(d)
        unit == SigmaUnit * SigmaUnit
    IN  Hits(last.answers) # {} =>
            /\ (d.type = "shewhart" /\ d.populationSigma) => unit * (n - 1) > k * k
            /\ (d.type = "shewhart" /\ ~d.populationSigma) =>
                  unit * ((n - 1) * (n - 1)) > k * k * n
            /\ (d.type = "range_chart" /\ d.subgroupSize <= 6) =>
                  1000 * Len(subgroups(d, samples)) > rangeChartConstants[d.subgroupSize].D4

IsChart == rule # None /\ rule.detector.type \in {"shewhart", "range_chart"}

\* However often a control chart is polled, it alerts about a newest sample once,
\* or in two polls in a row if the sample arrived after the first of them had
\* noted its time and before it read the table; and it never goes back to an
\* older sample (the comparison with lastRunAt in the cases shewhart and
\* range_chart of evaluateParameterSince).
NewestSampleAlertsTwiceAtMost ==
    IsChart => \A i, j \in DOMAIN alerted : i < j =>
        \/ alerted[i].ts < alerted[j].ts
        \/ j = i + 1 /\ alerted[i].ts = alerted[j].ts /\ alerted[i].run < alerted[i].ts

\* What the comment on that comparison says: "Skip evaluation if the latest
\* sample has not changed since the last run. This prevents the same anomalous
\* data row from firing a new alert".
NewestSampleAlertsOnce ==
    IsChart => \A i, j \in DOMAIN alerted : i < j => alerted[i].ts < alerted[j].ts

\* The baseline and the subgroups that the client asks to preview are those that
\* the settings it saves give the rule, and the newest samples it asks for are
\* enough for the rule's window.
AsksForWhatItSaves(s) ==
    LET d == buildDetector(s.ruleType, s.cfg)
        base == Setting(s.ask, "baselineSelector", lastNSelector)
        eval == Setting(s.ask, "evalSelector", lastNSelector)
        by == Setting(s.ask, "subgrouping", <<>>)
    IN
    /\ base.kind = "lastN"
    /\ d.type \in {"shewhart", "range_chart"} =>
          /\ d.baseline.timeRange = None
          /\ Setting(base, "value", 0) \in Nat \ {0} /\ base.value = baselineLastN(d.baseline)
    /\ d.type = "range_chart" =>
          /\ Positive(by, "subgroupSize", defaultSubgroupSize) = d.subgroupSize
          /\ (Setting(by, "kind", "") = "column") = (d.mode = "column" /\ d.column # "")
    /\ eval.kind = "lastN" /\ Setting(eval, "value", 0) \in 1..MaxSampleRows
    /\ d.type = "trend" => d.windowSize <= eval.value
    /\ d.type = "tpa" => d.windowN <= eval.value

\* Requests that the preview and the stored rule read alike; the others are
\* listed in the README.
ReadAlike(s) ==
    LET number(name) == Setting(s.cfg, name, 0) IN
    /\ s.via = "stepper" /\ AsksForWhatItSaves(s)
    /\ DOMAIN s.cfg \cap {"sigmaMultiplier", "populationSigma", "flatSpecLimits",
                          "flatControlLimits"} = {}
    /\ number("minBaselineN") >= 0 /\ number("minBaselineSubgroups") >= 0
    /\ s.ruleType = "TREND_6_POINTS" => number("windowSize") >= 0
    /\ s.ruleType = "TPA" => number("windowN") > 0
    /\ s.ruleType = "RANGE_CHART_R" =>
          number("subgroupSize") = buildRangeChart(s.cfg).subgroupSize

\* For such requests the preview a user sees and the next poll agree: control
\* charts answer alike if the newest sample is new, and an alert of another
\* type about the newest sample of the preview is a violation there too, if the
\* poll looks back no further than the preview does
\* (BuildRuleSpecFromStepper against StepperPreview).
PreviewForecastsPoll ==
    LET table == SubSeq(rows, 1, last.count)
        preview == StepperPreview(sub.ruleType, sub.cfg, sub.ask, table, last.at)
        shown == fetchForSelector(Setting(sub.ask, "evalSelector", lastNSelector), table, last.at)
    IN  (polls > 0 /\ ReadAlike(sub)) => \A a \in last.answers :
            IF rule.detector.type \in {"shewhart", "range_chart"}
            THEN a.status \notin {"", "ERROR"} => a.status = preview.status
            ELSE (/\ a.reasons # {} /\ shown # <<>> /\ a.ts = Last(shown).ts
                  /\ windowSince(rule, last.at, last.since) >= last.at - Year)
                 => preview.reasons = a.reasons

\* The baseline check that a user runs before saving such a rule, with the
\* default minimums, says whether there is enough data for the polls of the
\* stored rule (StepperBaselineCheck has its own copy of the minimums and
\* its own grouping).
BaselineCheckForecastsPoll ==
    LET table == SubSeq(rows, 1, last.count)
        check == StepperBaselineCheck(sub.ruleType, sub.ask, table, last.at)
    IN  (/\ polls > 0 /\ ReadAlike(sub) /\ "baselineSelector" \in DOMAIN sub.ask
         /\ rule.detector.type \in {"shewhart", "range_chart"}
         /\ DOMAIN sub.cfg \cap {"minBaselineN", "minBaselineSubgroups"} = {})
        => \A a \in last.answers :
              a.status \notin {"", "ERROR"} =>
                  (a.status = "INSUFFICIENT_DATA" <=> check.status = "INSUFFICIENT_DATA")

\* What a user is told about a rule before saving it holds of its polls.
StepperForecastsPoll == PreviewForecastsPoll /\ BaselineCheckForecastsPoll

\* What the documentation of the user interface promises by "Block save on
\* INSUFFICIENT_DATA": a control chart whose baseline check and preview found
\* enough data for the request that was sent, as they still do, has enough at
\* its polls.
SavedRuleHasData ==
    LET table == SubSeq(rows, 1, last.count)
        check == StepperBaselineCheck(sub.ruleType, sub.ask, table, last.at)
        preview == StepperPreview(sub.ruleType, sub.cfg, sub.ask, table, last.at)
    IN  (/\ polls > 0 /\ sub.via = "stepper" /\ IsChart
         /\ check.status = "OK" /\ preview.status \in {"OK", "VIOLATION"})
        => \A a \in last.answers : a.status # "INSUFFICIENT_DATA"

\* A rule is made of the catalog's example, or of its example and the defaults of
\* its form, and there are as many samples as the catalog asks for where the
\* poll looks, whose newest rows can all be read: for a trend or a projection
\* the rows since the last poll, for a control chart the table.
CatalogDataIsThere ==
    LET type == sub.ruleType
        since == IF type \in {"TREND_6_POINTS", "TPA"}
                 THEN windowSince(rule, last.at, last.since) ELSE last.at - Year
        newest == fetchSamples(SubSeq(rows, 1, last.count), since, defaultBaselineLastN)
        min == CatalogMinData(type)
    IN  /\ polls > 0 /\ sub.via = "stepper" /\ type \in DOMAIN CatalogExamples
        /\ sub.cfg \in {CatalogExamples[type], Filled(CatalogExamples[type], CatalogDefaults[type])}
        /\ \A i \in 1..last.count : rows[i].value # None
        /\ Len(newest) >= min.samples
        /\ Len(groupConsecutive(newest, defaultSubgroupSize)) >= min.subgroups
        /\ type = "TREND_6_POINTS" =>
              hasConsecutiveTimestamps(SubSeq(newest, Len(newest) - min.samples + 1, Len(newest)))

\* Such a rule has enough data at every poll; a projection has not (see
\* CatalogMinDataSufficesForTPA).  The limits and defaults of the catalog, of the
\* stored rule and of the detectors are written down in three programs.
CatalogMinDataSuffices ==
    (CatalogDataIsThere /\ sub.ruleType # "TPA") =>
        \A a \in last.answers : a.status \notin {"INSUFFICIENT_DATA", "INVALID_CONFIG", "ERROR"}

\* What the catalog says of a projection, that it needs 3 samples.
CatalogMinDataSufficesForTPA ==
    (CatalogDataIsThere /\ sub.ruleType = "TPA") =>
        \A a \in last.answers : a.status # "INSUFFICIENT_DATA"

\* The parser's own choices pass the validator: a prompt that has what a rule
\* needs is refused only for a number the user wrote (the interval, the range,
\* the window) or for a detector of the draft (buildDetector of parser.go
\* against ValidateRuleSpec).
ParsedPromptIsStored ==
    LET parsed == ParsePromptWithDraft(sub.prompt, sub.draft)
        own == sub.draft.parameter # None /\ sub.draft.parameter.type # ""
        badInterval == /\ sub.prompt.every # 0
                       /\ sub.prompt.every \notin MinPollSeconds..MaxPollSeconds
        badRange == /\ sub.prompt.threshold # None
                    /\ sub.prompt.threshold.op = "between"
                    /\ sub.prompt.threshold.min >= sub.prompt.threshold.max
        badWindow == sub.prompt.window > promptBaselineSeconds
    IN  (sub.via = "prompt" /\ parsed # None /\ rule = None) =>
            badInterval \/ badRange \/ badWindow \/ own

\* A rule on the largest value of a window misses no value above its threshold,
\* and one on the smallest none below, as long as polls are no more than the
\* poll interval apart: the window reaches back to the last poll, because
\* the validator asks for a window as long as the interval.
AggregateSeesBreach ==
    LET d == rule.detector
        from == IF last.since = None THEN last.at - Seconds(rule.poll) ELSE last.since
        breach(v) == \/ rule.agg = "max" /\ d.op = ">" /\ v > d.value
                     \/ rule.agg = "min" /\ d.op = "<" /\ v < d.value
    IN  (/\ polls > 0 /\ d.type = "threshold" /\ Aggregating(rule)
         /\ last.at - from <= Seconds(rule.poll))
        => (Hits(last.answers) = {} =>
               \A i \in 1..last.count :
                  rows[i].ts >= from /\ rows[i].value # None => ~breach(rows[i].value))

\* The sums over pairs that the statistics are defined by.
Pairs(s) == {p \in (DOMAIN s) \X (DOMAIN s) : p[1] < p[2]}
SumOverPairs(s, f(_, _)) == FoldSet(LAMBDA p, sum : sum + f(p[1], p[2]), 0, Pairs(s))

\* The statistics compute what they are named for, on the samples at hand: the
\* median is midway between the least value with half of the values at or below
\* it and the greatest with half at or above it, and the spread and the slope
\* are those of the differences between all pairs (Median, StdDev and
\* LinearRegression, which sort, and go through sums of squares and products).
StatisticsMatchReference ==
    LET samples == fetchSamples(rows, now - Year, MaxSampleRows)
        v == extractValues(samples)
        x == [i \in DOMAIN v |-> Unix(samples[i].ts) - Unix(samples[1].ts)]
        line == LinearRegression(x, v)
        halfBelow == {a \in ToSet(v) : 2 * Cardinality({i \in DOMAIN v : v[i] <= a}) >= Len(v)}
        halfAbove == {a \in ToSet(v) : 2 * Cardinality({i \in DOMAIN v : v[i] >= a}) >= Len(v)}
    IN  v # <<>> =>
            /\ Median2(v) = Min(halfBelow) + Max(halfAbove)
            /\ Spread(v) = SumOverPairs(v, LAMBDA i, j : (v[i] - v[j]) * (v[i] - v[j]))
            /\ line.den = SumOverPairs(v, LAMBDA i, j : (x[i] - x[j]) * (x[i] - x[j]))
            /\ line.num = SumOverPairs(v, LAMBDA i, j : (x[i] - x[j]) * (v[i] - v[j]))

\* Samples in which every later value is greater, or every later value less,
\* than every earlier one, by more than epsilon for each step between them.
Monotone(s, epsilon) ==
    \E sign \in {1, -1} : \A p \in Pairs(s) :
        sign * (s[p[2]].value - s[p[1]].value) > (p[2] - p[1]) * epsilon

\* The last samples of the table that a trend rule is about.
TrendWindow(d, table) ==
    LET samples == Readable(table)
    IN  SubSeq(samples, Max({1, Len(samples) - d.windowSize + 1}), Len(samples))

\* An alert of a trend rule is about the newest windowSize samples, and they do
\* rise or fall throughout (EvaluateTrend6).
TrendAlertIsATrend ==
    LET table == SubSeq(rows, 1, last.count)
    IN  (rule # None /\ rule.detector.type = "trend" /\ Hits(last.answers) # {}) =>
            /\ rule.detector.windowSize <= Len(Readable(table))
            /\ Monotone(TrendWindow(rule.detector, table), rule.detector.epsilon)

\* What the documentation of the rule type says, that it "looks at the last N
\* consecutive data points and checks if they form a strictly monotonic trend":
\* a poll that finds a new sample, other than the first, flags them if they do.
TrendIsNotMissed ==
    LET d == rule.detector
        window == TrendWindow(d, SubSeq(rows, 1, last.count))
    IN  (/\ polls > 0 /\ d.type = "trend" /\ ~d.consecutive
         /\ Len(window) = d.windowSize /\ Monotone(window, d.epsilon)
         /\ last.since # None /\ window[d.windowSize].ts > last.since)
        => Hits(last.answers) # {}
=============================================================================
