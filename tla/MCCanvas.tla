------------------------------ MODULE MCCanvas ------------------------------
(* Instances of Canvas for TLC. *)
EXTENDS Canvas, TLC

CONSTANTS c1, c2, u1, a, b, d, r1, t1, p1, p2, l0, l1, w1, w2

TwoClients == {c1, c2}
OneUnit == {u1}
ThreeColumns == {a, b, d}
OneRule == {r1}
OneTable == {t1}
TwoParams == {p1, p2}
TwoLines == {l0, l1}
TwoWires == {w1, w2}

SaveOnly == {"save"}
=============================================================================
