---------------------------- MODULE MCRunWindow -----------------------------
(* Small instances of RunWindow. *)
EXTENDS RunWindow, TLC

CONSTANTS r1, r2, p1, p2, w1, w2

OneRow == {r1}
TwoRows == {r1, r2}
OneParam == {p1}
GoodRows == {{}}
BadRows == {{p1}}
OneWorker == {w1}
TwoWorkers == {w1, w2}
OneJob == {1}
TwoJobs == {1, 2}
CrashFault == {"crash"}
ReadFaults == {"query", "cut"}
RunFaults == AllFaults \ {"cooldown"}

Symmetry == Permutations(RowIds) \cup Permutations(Params) \cup Permutations(Workers)

=============================================================================
