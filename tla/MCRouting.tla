------------------------------ MODULE MCRouting ------------------------------
(* Small instances of Routing: a baseline whose second finding is a          *)
(* regression that was filed when the router still wrote baselines.          *)
EXTENDS Routing
CONSTANTS p1, p2, v1, v2, r1, r2, r3, r4, base, adv

OneRun    == {p1}
TwoRuns   == {p1, p2}
OneReport == {v1}
TwoReports == {v1, v2}
RegsOfOne == (v1 :> <<r1, r2>>)
RegsOfTwo == (v1 :> <<r1, r3, r2>>) @@ (v2 :> <<r4>>)
OneAdvisory == {adv}
MCBaseline == (1 :> base) @@ (2 :> r3)
=============================================================================
