-------------------------- MODULE MCRuleLifecycle ---------------------------
(* Instances of RuleLifecycle for TLC. *)
EXTENDS RuleLifecycle, TLC

CONSTANTS r1, r2, good, better, bad, q1, q2

OneRule == {r1}
TwoRules == {r1, r2}
GoodOnly == {good}
GoodBetter == {good, better}
GoodBad == {good, bad}
AllSpecs == {good, better, bad}
OneRequest == {q1}
TwoRequests == {q1, q2}

Stepper == {"create", "update", "enable", "disable", "delete"}
NoDelete == AllOps \ {"delete"}
NoFaults == {}

Sym == Permutations(Requests) \cup Permutations(Rules)
=============================================================================
