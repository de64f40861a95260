---------------------------- MODULE MCEvaluation ----------------------------
(* Instances of Evaluation for TLC. *)
EXTENDS Evaluation

\* Settings whose preview asks for nothing else, or with a request of its own.
Previewed(ruleType, cfg, ask) == [via |-> "stepper", ruleType |-> ruleType, cfg |-> cfg, ask |-> ask]
Stepper(ruleType, cfg) == Previewed(ruleType, cfg, <<>>)

Json(detector) == [via |-> "json", spec |-> Rule(detector, 1)]
Prompt(prompt, draft) == [via |-> "prompt", prompt |-> prompt, draft |-> draft]

Limits(low, up) == [upper |-> up, lower |-> low]
LastNSelector(n) == [selector |-> [kind |-> "lastN", value |-> n]]
AskLastN(n) == [baselineSelector |-> [kind |-> "lastN", value |-> n]]
AskNewest(n) == [evalSelector |-> [kind |-> "lastN", value |-> n]]
FromTo(start, end) == [start |-> start, end |-> end]

TrendSubmissions ==
    {Stepper("TREND_6_POINTS", c) : c \in
        {[requireConsecutiveTimestamps |-> FALSE],
         [windowSize |-> 2, epsilon |-> 1, requireConsecutiveTimestamps |-> TRUE]}}
    \cup {Previewed("TREND_6_POINTS", [pollIntervalSeconds |-> 9], AskNewest(n)) : n \in {2, 4}}
    \cup {Json([type |-> "trend", windowSize |-> n, epsilon |-> 0, consecutive |-> FALSE])
            : n \in {1, 3}}

ShewhartSubmissions ==
    {Stepper("SHEWHART_2SIGMA", c) : c \in
        {[baseline |-> [lastN |-> 7], sigmaMultiplier |-> 7],
         [baseline |-> LastNSelector(8), populationSigma |-> TRUE]}}
    \cup {Previewed("SHEWHART_2SIGMA", [baseline |-> LastNSelector(6)], AskLastN(n)) : n \in {5, 6}}
    \cup {Stepper("SHEWHART_3SIGMA", [minBaselineN |-> 2])}
    \cup {Json([type |-> "shewhart", sigmaMultiplier |-> k, minBaselineN |-> 0,
                populationSigma |-> p, baseline |-> [lastN |-> 6, timeRange |-> None]]) :
            p \in BOOLEAN, k \in {11, 9}}
    \cup {Json([type |-> "shewhart", sigmaMultiplier |-> 10, minBaselineN |-> 0,
                populationSigma |-> FALSE, baseline |-> b]) :
            b \in {NoBaseline} \cup {[lastN |-> None, timeRange |-> r] :
                r \in {FromTo(1, 0), FromTo(-5, 1), FromTo(-5, Garbled), FromTo(None, 1)}}}

RangeSubmissions ==
    {Stepper("RANGE_CHART_R", c) : c \in
        {[subgroupSize |-> 2, minBaselineSubgroups |-> 3], [subgroupSize |-> 11]}}
    \cup {Previewed("RANGE_CHART_R", [subgroupSize |-> 2, subgrouping |-> by],
                     [baselineSelector |-> [kind |-> "lastN", value |-> 8], subgrouping |-> by]) :
            by \in {[kind |-> "consecutive", subgroupSize |-> 2],
                    [kind |-> "column", column |-> "lot"]}}
    \cup {Previewed("RANGE_CHART_R", [subgroupSize |-> 2],
                     AskLastN(8))}
    \cup {Previewed("RANGE_CHART_R", [subgroupSize |-> 3], [subgrouping |-> [subgroupSize |-> 2]])}
    \cup {Json([type |-> "range_chart", subgroupSize |-> 2, mode |-> m, column |-> "lot",
                minBaselineSubgroups |-> n, baseline |-> [lastN |-> 8, timeRange |-> None]]) :
            m \in {"consecutive", "column"}, n \in {0, 1}}

LimitSubmissions ==
    {Stepper("SPEC_LIMIT_VIOLATION", c) : c \in
        {[specLimits |-> Limits(None, 1)],
         [flatSpecLimits |-> Limits(1, None), mode |-> "both"],
         [specLimits |-> Limits(0, 1), controlLimits |-> Limits(1, 1), mode |-> "both"]}}
    \cup {Json([type |-> "spec_limit", mode |-> "", epsilon |-> 1,
                limits |-> l, control |-> NoLimits]) : l \in {NoLimits, Limits(0, 0)}}

TPASubmissions ==
    {Stepper("TPA", c) : c \in
        {[slopeThreshold |-> 1],
         [windowN |-> 3, timeToSpecThreshold |-> 2, specLimits |-> Limits(0, 3)]}}
    \cup {Json([type |-> "tpa", windowN |-> n, basis |-> b, slope |-> 1, time |-> None,
                requireSpecLimits |-> FALSE, epsilon |-> 0, limits |-> None]) :
            n \in {2, 3}, b \in {"index", "timestamp"}}

OtherSubmissions ==
    {Stepper("UNKNOWN", <<>>)}
    \cup {Json([type |-> "threshold", op |-> op, value |-> 1, min |-> 0, max |-> 1]) :
            op \in {">", "between", ""}}
    \cup {Json([type |-> "missing_data", maxGapSeconds |-> g]) : g \in {0, 1}}
    \cup {Json([type |-> "robust_zscore", baselineWindow |-> 4, evalWindow |-> 1,
                minSamples |-> n, zWarn |-> 1, zCrit |-> 2]) : n \in {3, 4}}

Threshold(op) == [type |-> "threshold", op |-> op, value |-> 1, min |-> 0, max |-> 1]

AggregateSubmissions ==
    {[via |-> "json", spec |-> [detector |-> Threshold(c[1]), poll |-> 2,
                                agg |-> c[2], window |-> c[3]]] :
        c \in {<<">", "max", 2>>, <<"<", "min", 3>>, <<">", "max", 1>>, <<">", "avg", 2>>,
               <<"<", "count", 2>>, <<"between", "sum", 2>>, <<">", "median", 2>>,
               <<">", "max", None>>}}

NoDraft == [names |-> {}, parameter |-> None]
EmptyPrompt == [missing |-> FALSE, abnormal |-> FALSE, threshold |-> None, window |-> 0,
                every |-> 0, names |-> {"table", "timestamp", "column"}]

PromptSubmissions ==
    {Prompt(p, NoDraft) : p \in
        {EmptyPrompt, [EmptyPrompt EXCEPT !.threshold = Threshold(">")],
         [EmptyPrompt EXCEPT !.missing = TRUE, !.threshold = Threshold(">")],
         [EmptyPrompt EXCEPT !.missing = TRUE, !.every = 9],
         [EmptyPrompt EXCEPT !.abnormal = TRUE], [EmptyPrompt EXCEPT !.abnormal = TRUE, !.window = 9],
         [EmptyPrompt EXCEPT !.threshold = [Threshold("between") EXCEPT !.min = 1]]}}
    \cup {Prompt([EmptyPrompt EXCEPT !.missing = TRUE, !.names = {"timestamp"}],
                 [names |-> {"table"}, parameter |-> d]) :
             d \in {None, [type |-> ""], [type |-> "missing_data", maxGapSeconds |-> 0]}}

CatalogSubmissions ==
    {Stepper(t, CatalogExamples[t]) : t \in DOMAIN CatalogExamples}
    \cup {Stepper(t, Filled(CatalogExamples[t], CatalogDefaults[t])) : t \in DOMAIN CatalogExamples}

RangeSelectorSubmissions ==
    {Stepper("SHEWHART_2SIGMA",
             [baseline |-> [selector |-> [kind |-> "dateRange", range |-> FromTo(-5, e)]]]) :
        e \in {-6, 1, Garbled, None}}
    \cup {Previewed("SHEWHART_2SIGMA", [minBaselineN |-> 6],
                     [baselineSelector |-> [kind |-> "timeRange", range |-> FromTo(s, 1)]]) :
            s \in {-5, 2, Garbled}}

\* What the documentation has the user interface send: a selector with the check
\* and the preview, and settings without one.
DocumentedSubmissions ==
    {Previewed("SHEWHART_3SIGMA", [minBaselineN |-> defaultBaselineMinN], AskLastN(catalogLastN)),
     Previewed("RANGE_CHART_R",
               [subgroupSize |-> 3, minBaselineSubgroups |-> defaultBaselineSubgroups],
               [baselineSelector |-> [kind |-> "lastN", value |-> catalogLastN],
                subgrouping |-> [kind |-> "consecutive", subgroupSize |-> 3]])}

ChartSubmissions == ShewhartSubmissions \cup RangeSubmissions

AllSubmissions ==
    TrendSubmissions \cup ChartSubmissions
        \cup LimitSubmissions \cup TPASubmissions \cup OtherSubmissions
        \cup AggregateSubmissions \cup PromptSubmissions \cup CatalogSubmissions
        \cup RangeSelectorSubmissions

\* A table that is empty, or has a quiet history of one row a second.
QuietHistories ==
    {<<>>, [i \in 1..6 |-> [ts |-> TicksPerSecond * (i - 6), value |-> 0, group |-> i % 3]]}

SomeArrivals == [value : {1, 3, None}, group : {1}]
OneArrival == {[value |-> 3, group |-> 1]}
SomeGaps == {1, 3}
SomeDelays == {1}
=============================================================================
