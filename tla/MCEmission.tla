----------------------------- MODULE MCEmission -----------------------------
(* Rows for Emission: one per outcome of the gates, on two findings. *)
EXTENDS Emission
CONSTANTS p1, p2

One == {p1}
Two == {p1, p2}

Fp(f, n) ==
  [ref |-> f, verdict |-> "false_positive", manual |-> FALSE, lint |-> TRUE,
   dissent |-> FALSE, votes |-> n, sure |-> TRUE, low |-> TRUE, sampled |-> FALSE]

Live(f, v) ==
  [ref |-> f, verdict |-> v, attested |-> "yes", legacy |-> FALSE, probe |-> "sound",
   grade |-> "E0", proposal |-> FALSE, stale |-> FALSE]

Triaged ==
  {Fp("a", 1), Fp("a", 2),
   [Fp("a", 2) EXCEPT !.verdict = "true_positive"],
   [Fp("b", 2) EXCEPT !.verdict = "true_positive", !.manual = TRUE],
   [Fp("b", 2) EXCEPT !.verdict = "undetermined"],
   [Fp("b", 1) EXCEPT !.verdict = "hardening"]}

Validated ==
  {Live("a", "confirmed"), Live("b", "refuted"),
   [Live("a", "refuted") EXCEPT !.probe = "unsound"],
   [Live("a", "refuted") EXCEPT !.attested = "absent", !.stale = TRUE],
   [Live("b", "confirmed") EXCEPT !.grade = "E3", !.proposal = TRUE],
   [Live("b", "confirmed") EXCEPT !.grade = NoValue, !.legacy = TRUE, !.stale = TRUE],
   [Live("a", "not_attempted") EXCEPT !.attested = "no"]}

TwoRefuted == {Live("a", "refuted"), Live("b", "refuted"), Live("a", "confirmed"),
               [Live("b", "inconclusive") EXCEPT !.probe = "stamped"],
               [Live("b", "refuted") EXCEPT !.attested = "absent", !.legacy = TRUE, !.stale = TRUE]}
Refuted    == {Live("a", "refuted")}
Dismissed  == {Fp("b", 1)}
=============================================================================
