------------------------------- MODULE MCLedger -------------------------------
(* Ledger on small instances: the sets of verdicts and decisions each run    *)
(* explores.  One finding is enough: a disposition reads only its own events. *)
EXTENDS Ledger, TLC

CONSTANTS h1, h2, r1, r2

AllTriage     == {"true_positive", "hardening", "false_positive", "auto_false_positive"}
Axes          == {"confirmed", "refuted", "resolved", "unresolved", "false_positive", "done"}
Sign          == {"false_positive", "keep_open"}
AllVerdicts   == {"confirmed", "weak", "refuted", "unresolved", "done"}

Symmetry == Permutations({h1, h2}) \cup Permutations({r1, r2})
=============================================================================
