----------------------------- MODULE MCRegistry -----------------------------
(* Instances of Registry for TLC. *)
EXTENDS Registry, TLC

CONSTANTS r1, r2, s1, s2, j1, j2, j3, w1, w2

OneRule == {r1}
TwoRules == {r1, r2}
OneSpec == {s1}
TwoSpecs == {s1, s2}
TwoJobs == {j1, j2}
ThreeJobs == {j1, j2, j3}
OneWorker == {w1}
TwoWorkers == {w1, w2}

Sym == Permutations(ThreeJobs) \cup Permutations(TwoWorkers)
=============================================================================
