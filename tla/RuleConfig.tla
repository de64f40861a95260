----------------------------- MODULE RuleConfig -----------------------------
(***************************************************************************)
(* How a rule gets its detector: what the rule service makes of the        *)
(* settings of the user interface (stepper_sync.go), what the preview of   *)
(* the scheduler makes of the same settings (stepper.go), and which rules  *)
(* the rule service (validator.go) and the scheduler                       *)
(* (runtime_validate_rule.go) accept; also what the rule service makes of  *)
(* a prompt (parser.go) and what its catalog offers (stepper_catalog.go).  *)
(*                                                                         *)
(* Settings are JSON objects: records with the fields the client sent.     *)
(* Identifiers, tables and columns are taken to be valid and numeric.      *)
(***************************************************************************)
EXTENDS Detectors

CONSTANTS
    MinPollSeconds, MaxPollSeconds,
    MaxWindowSeconds,                   \* of the scheduler only
    defaultStepperPollIntervalSeconds,  \* 60 in the code
    defaultSubgroupSize,                \* 5
    defaultWindowN,                     \* 5
    minSamplesRobustZ,                  \* 20
    promptPollSeconds,                  \* 60, of a prompt without an interval
    promptBaselineSeconds,              \* 3600
    promptEvalSeconds,                  \* 300
    catalogLastN                        \* 100

\* A field of a JSON object, or d if the client did not send it.
Setting(cfg, name, d) == IF name \in DOMAIN cfg THEN cfg[name] ELSE d

\* The same for a setting that must be positive to count.
Positive(cfg, name, d) ==
    IF Setting(cfg, name, 0) > 0 THEN cfg[name] ELSE d

NoLimits == [upper |-> None, lower |-> None]
NoBaseline == [lastN |-> None, timeRange |-> None]

\* A rule on single values; only a threshold may have an aggregate.
Rule(detector, poll) == [detector |-> detector, poll |-> poll, agg |-> "", window |-> None]
Aggregating(spec) == spec.agg \notin {"", "latest"} /\ spec.window # None

-----------------------------------------------------------------------------
\* The baseline of the rule: of the selector, if it is complete, or of the
\* older fields beside it.
buildBaselineSpec(cfg) ==
    LET b == Setting(cfg, "baseline", <<>>)
        sel == Setting(b, "selector", [kind |-> ""])
        lastN == IF sel.kind = "lastN" THEN Setting(sel, "value", None) ELSE None
        whole(r) == r # None /\ r.start # None /\ r.end # None
        range == IF sel.kind = "dateRange" /\ whole(Setting(sel, "range", None))
                 THEN sel.range ELSE None
    IN  CASE lastN # None -> [lastN |-> lastN, timeRange |-> None]
          [] range # None -> [lastN |-> None, timeRange |-> range]
          [] OTHER -> IF "lastN" \in DOMAIN b
                      THEN [lastN |-> b.lastN, timeRange |-> None]
                      ELSE [lastN |-> None, timeRange |-> Setting(b, "timeRange", None)]

\* Limits as an object or, if that gives none, as flat fields.
NestedOrFlat(cfg, nested, flat) ==
    LET limits == Setting(cfg, nested, NoLimits)
    IN  IF Unset(limits) THEN Setting(cfg, flat, NoLimits) ELSE limits

buildTrend(cfg) ==
    [type |-> "trend",
     windowSize |-> Positive(cfg, "windowSize", defaultTrendWindowSize),
     epsilon |-> Setting(cfg, "epsilon", 0),
     consecutive |-> Setting(cfg, "requireConsecutiveTimestamps", TRUE)]

\* The sigma that the name of a type stands for.
typeSigma(ruleType) == IF ruleType = "SHEWHART_2SIGMA" THEN 2 ELSE 3

buildShewhart(ruleType, cfg) ==
    [type |-> "shewhart",
     sigmaMultiplier |-> Positive(cfg, "sigmaMultiplier",
                                  SigmaUnit * typeSigma(ruleType)),
     minBaselineN |-> Positive(cfg, "minBaselineN", defaultBaselineMinN),
     populationSigma |-> FALSE,
     baseline |-> buildBaselineSpec(cfg)]

buildRangeChart(cfg) ==
    LET sub == Setting(cfg, "subgrouping", <<>>) IN
    [type |-> "range_chart",
     subgroupSize |-> Positive(sub, "subgroupSize",
                               Positive(cfg, "subgroupSize", defaultSubgroupSize)),
     mode |-> Setting(sub, "kind", "consecutive"),
     column |-> Setting(sub, "column", ""),
     minBaselineSubgroups |-> Positive(cfg, "minBaselineSubgroups", defaultBaselineSubgroups),
     baseline |-> buildBaselineSpec(cfg)]

buildSpecLimit(cfg) ==
    [type |-> "spec_limit",
     mode |-> Setting(cfg, "mode", "spec"),
     epsilon |-> Setting(cfg, "epsilon", None),
     limits |-> NestedOrFlat(cfg, "specLimits", "flatSpecLimits"),
     control |-> NestedOrFlat(cfg, "controlLimits", "flatControlLimits")]

buildTPA(cfg) ==
    [type |-> "tpa",
     windowN |-> Positive(cfg, "windowN", defaultWindowN),
     basis |-> Setting(cfg, "regressionTimeBasis", "timestamp"),
     slope |-> Setting(cfg, "slopeThreshold", None),
     time |-> Setting(cfg, "timeToSpecThreshold", None),
     requireSpecLimits |-> Setting(cfg, "requireSpecLimits", FALSE),
     epsilon |-> Setting(cfg, "epsilon", 0),
     limits |-> Setting(cfg, "specLimits", None)]

ShewhartTypes == {"SHEWHART_3SIGMA", "SHEWHART_2SIGMA"}

\* buildDetector of the rule service; None for a type it does not know.
buildDetector(ruleType, cfg) ==
    CASE ruleType = "TREND_6_POINTS" -> buildTrend(cfg)
      [] ruleType \in ShewhartTypes -> buildShewhart(ruleType, cfg)
      [] ruleType = "RANGE_CHART_R" -> buildRangeChart(cfg)
      [] ruleType = "SPEC_LIMIT_VIOLATION" -> buildSpecLimit(cfg)
      [] ruleType = "TPA" -> buildTPA(cfg)
      [] OTHER -> None

\* BuildRuleSpecFromStepper; nothing else is checked on this path.
BuildRuleSpecFromStepper(ruleType, cfg) ==
    LET detector == buildDetector(ruleType, cfg)
    IN  IF detector = None THEN None
        ELSE Rule(detector, Positive(cfg, "pollIntervalSeconds",
                                     defaultStepperPollIntervalSeconds))

-----------------------------------------------------------------------------
(***************************************************************************)
(* Rules written as a prompt.  A prompt is what the patterns find in it:   *)
(* the words for missing and for abnormal data, a comparison or range, a   *)
(* window and an interval in seconds (0 for none) and the names of table,  *)
(* timestamp and column.  A draft has the names and the parameter the      *)
(* client chose in a form; type "" is a parameter without a detector.      *)
(***************************************************************************)
detectorType(prompt) ==
    CASE prompt.missing -> "missing_data"
      [] ~prompt.missing /\ prompt.abnormal -> "robust_zscore"
      [] OTHER -> IF prompt.threshold # None THEN "threshold" ELSE ""

\* Mutant: the gap is half an interval.
halfInterval(poll) == poll \div 2

\* The gap of missing data that a prompt asks for: two intervals.
promptGap(poll) == 2 * poll

\* buildDetector of the parser.
promptDetector(prompt, poll) ==
    CASE detectorType(prompt) = "missing_data" ->
            [type |-> "missing_data", maxGapSeconds |-> promptGap(poll)]
      [] detectorType(prompt) = "robust_zscore" ->
            [type |-> "robust_zscore", baselineWindow |-> promptBaselineSeconds,
             evalWindow |-> Positive(prompt, "window", promptEvalSeconds),
             zWarn |-> 3, zCrit |-> 5, minSamples |-> minSamplesRobustZ]
      [] OTHER -> prompt.threshold

\* The rule, or None if something is missing.  A detector in the draft stays,
\* but the prompt has to have a condition all the same.
ParsePromptWithDraft(prompt, draft) ==
    LET poll == Positive(prompt, "every", promptPollSeconds)
        own == draft.parameter # None /\ draft.parameter.type # ""
        complete == /\ {"table", "timestamp"} \subseteq prompt.names \cup draft.names
                    /\ draft.parameter # None \/ "column" \in prompt.names
                    /\ detectorType(prompt) # ""
    IN  IF complete THEN Rule(IF own THEN draft.parameter ELSE promptDetector(prompt, poll), poll)
                    ELSE None

-----------------------------------------------------------------------------
(***************************************************************************)
(* The catalog: per type the defaults of the form's fields, an example,    *)
(* and the least data a rule of the type needs.                            *)
(***************************************************************************)
catalogSelector == [selector |-> [kind |-> "lastN", value |-> catalogLastN]]

CatalogDefaults ==
    [SPEC_LIMIT_VIOLATION |-> [mode |-> "spec", epsilon |-> 0],
     SHEWHART_3SIGMA |-> [baseline |-> catalogSelector, minBaselineN |-> defaultBaselineMinN],
     SHEWHART_2SIGMA |-> [baseline |-> catalogSelector, minBaselineN |-> defaultBaselineMinN],
     RANGE_CHART_R |-> [baseline |-> catalogSelector,
                        subgrouping |-> [kind |-> "column", subgroupSize |-> defaultSubgroupSize],
                        minBaselineSubgroups |-> defaultBaselineSubgroups],
     TREND_6_POINTS |-> [windowSize |-> defaultTrendWindowSize, epsilon |-> 0,
                         requireConsecutiveTimestamps |-> TRUE],
     TPA |-> [windowN |-> defaultWindowN, regressionTimeBasis |-> "timestamp",
              requireSpecLimits |-> FALSE]]

CatalogExamples ==
    [SPEC_LIMIT_VIOLATION |-> [mode |-> "spec", specLimits |-> [lower |-> 1, upper |-> 2]],
     SHEWHART_3SIGMA |-> [sigmaMultiplier |-> 3 * SigmaUnit, minBaselineN |-> defaultBaselineMinN],
     SHEWHART_2SIGMA |-> [sigmaMultiplier |-> 2 * SigmaUnit, minBaselineN |-> defaultBaselineMinN],
     RANGE_CHART_R |-> [subgroupSize |-> defaultSubgroupSize,
                        minBaselineSubgroups |-> defaultBaselineSubgroups],
     TREND_6_POINTS |-> CatalogDefaults.TREND_6_POINTS,
     TPA |-> [windowN |-> defaultWindowN, regressionTimeBasis |-> "timestamp",
              slopeThreshold |-> 1]]

\* The form of a rule: what the user fills in, and the default of any other field.
Filled(fields, defaults) ==
    [name \in DOMAIN fields \cup DOMAIN defaults |->
        IF name \in DOMAIN fields THEN fields[name] ELSE defaults[name]]

CatalogMinData(ruleType) ==
    [samples |-> CASE ruleType \in ShewhartTypes -> defaultBaselineMinN
                   [] ruleType = "TREND_6_POINTS" -> defaultTrendWindowSize
                   [] ruleType = "TPA" -> 3
                   [] OTHER -> 1,
     subgroups |-> IF ruleType = "RANGE_CHART_R" THEN defaultBaselineSubgroups ELSE 0]

-----------------------------------------------------------------------------
\* buildDetector of the scheduler, for previews: the settings decoded as they
\* are, with zero values for what is missing, and a sigma that is the type's.
previewDetector(ruleType, cfg) ==
    CASE ruleType = "TREND_6_POINTS" ->
            [windowSize |-> Default(Setting(cfg, "windowSize", 0), defaultTrendWindowSize),
             epsilon |-> Setting(cfg, "epsilon", 0)]
      [] ruleType \in ShewhartTypes ->
            [sigmaMultiplier |-> SigmaUnit * typeSigma(ruleType),
             minBaselineN |-> Setting(cfg, "minBaselineN", 0),
             populationSigma |-> Setting(cfg, "populationSigma", FALSE)]
      [] ruleType = "RANGE_CHART_R" ->
            [subgroupSize |-> Setting(cfg, "subgroupSize", 0),
             minBaselineSubgroups |-> Setting(cfg, "minBaselineSubgroups", 0)]
      [] ruleType = "SPEC_LIMIT_VIOLATION" ->
            [mode |-> Setting(cfg, "mode", ""),
             epsilon |-> Setting(cfg, "epsilon", None),
             limits |-> Setting(cfg, "specLimits", NoLimits),
             control |-> Setting(cfg, "controlLimits", NoLimits)]
      [] ruleType = "TPA" ->
            [windowN |-> Setting(cfg, "windowN", 0),
             basis |-> Setting(cfg, "regressionTimeBasis", ""),
             slope |-> Setting(cfg, "slopeThreshold", None),
             time |-> Setting(cfg, "timeToSpecThreshold", None),
             requireSpecLimits |-> Setting(cfg, "requireSpecLimits", FALSE),
             epsilon |-> Setting(cfg, "epsilon", 0),
             limits |-> Setting(cfg, "specLimits", None)]

-----------------------------------------------------------------------------
\* A range only has to have both ends: whether they are times, and in order, is
\* not looked at.
validateBaseline(b) ==
    /\ (b.lastN = None) # (b.timeRange = None)
    /\ b.lastN # None => b.lastN > 0
    /\ b.timeRange # None => b.timeRange.start # None /\ b.timeRange.end # None

isSupportedRangeChartSize(size) == size \in 2..10

\* Mutant: windowN is not checked.
validateTPAWithoutWindow(d) ==
    /\ d.basis \in {"", "index", "timestamp"}
    /\ d.requireSpecLimits => d.limits # None
    /\ d.slope # None \/ d.time # None

validateTPA(d) ==
    /\ d.windowN >= 3
    /\ d.basis \in {"", "index", "timestamp"}
    /\ d.requireSpecLimits => d.limits # None
    /\ d.slope # None \/ d.time # None

\* validateDetector of the rule service, on rules sent as JSON.
validateDetector(d, poll) ==
    CASE d.type = "threshold" ->
            IF d.op = "between" THEN d.min # None /\ d.max # None /\ d.min < d.max
                                ELSE d.op # ""
      [] d.type = "robust_zscore" ->
            d.baselineWindow >= d.evalWindow /\ d.minSamples >= minSamplesRobustZ
      [] d.type = "missing_data" -> d.maxGapSeconds >= poll
      [] d.type = "spec_limit" ->
            /\ specMode(d) \in {"spec", "control", "both"}
            /\ specMode(d) \in {"spec", "both"} => ~Unset(d.limits)
            /\ specMode(d) \in {"control", "both"} => ~Unset(d.control)
      [] d.type = "shewhart" ->
            /\ validateBaseline(d.baseline)
            /\ d.sigmaMultiplier # 0 => d.sigmaMultiplier \in (2 * SigmaUnit)..(3 * SigmaUnit)
            /\ d.minBaselineN >= 0
      [] d.type = "range_chart" ->
            /\ isSupportedRangeChartSize(d.subgroupSize)
            /\ validateBaseline(d.baseline)
            /\ d.mode \in {"", "consecutive", "column"}
            /\ d.mode = "column" => d.column # ""
      [] d.type = "trend" -> d.windowSize >= 2 /\ d.epsilon >= 0
      [] d.type = "tpa" -> validateTPA(d)
      [] OTHER -> FALSE

\* Mutant: any window will do.
AnyWindow(spec) == spec.agg \notin {"", "latest"} => spec.window # None

\* The window of an aggregate is at least a poll interval.
WindowCoversPoll(spec) ==
    spec.agg \notin {"", "latest"} =>
        spec.window # None /\ spec.window > 0 /\ spec.window >= spec.poll

\* ValidateRuleSpec: what handleRulesCreate and handleRuleUpdate accept.
ValidateRuleSpec(spec) ==
    /\ spec.poll \in MinPollSeconds..MaxPollSeconds
    /\ WindowCoversPoll(spec)
    /\ validateDetector(spec.detector, spec.poll)

\* normalizeAgg of the MCP server: the aggregates it computes.
Aggregates == {"avg", "min", "max", "sum", "count"}

\* RuntimeValidateRule: what the scheduler accepts when it is about to schedule
\* the rule.  Its test query must succeed: the one for the latest value fails
\* on an empty table, the one for an unknown aggregate always.
RuntimeValidateRule(spec, rows) ==
    LET d == spec.detector
        aggregate == d.type = "threshold" /\ Aggregating(spec)
    IN
    /\ spec.poll \in MinPollSeconds..MaxPollSeconds
    /\ spec.agg \notin {"", "latest"} =>
          spec.window # None /\ spec.window \in 1..MaxWindowSeconds
    /\ d.type = "range_chart" =>
          isSupportedRangeChartSize(d.subgroupSize) /\ (d.mode = "column" => d.column # "")
    /\ aggregate => spec.agg \in Aggregates
    /\ d.type \notin {"robust_zscore", "range_chart"} /\ ~aggregate => rows # <<>>
=============================================================================
