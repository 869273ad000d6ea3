------------------------------ MODULE MCRescan ------------------------------
(* Small instances of Rescan: an audited repository with live findings and   *)
(* a threat model, and one of another forge that was never audited.  Days    *)
(* are short: an audit or a model is old the day after, and a week is a day.  *)
EXTENDS Rescan, TLC
CONSTANTS a, b

InOrder   == <<a, b>>
Forge     == (a :> "github") @@ (b :> "gitlab")
LiveHighs == (a :> 1) @@ (b :> 0)
Names     == (a :> "none") @@ (b :> "external")
Ceilings  == [P0 |-> 0, P1 |-> 0, P2 |-> 0]

Pushed == {[repo |-> a, change |-> {"deps", "secret", "wide"}], [repo |-> a, change |-> {"bulk"}]}
Asked  == {[source |-> "methodology", repo |-> a], [source |-> "major-release", repo |-> a]}

Working == [down |-> {}, flaky |-> {}, compares |-> 2, patches |-> 2, trees |-> 2, budget |-> -1]
Hard    == [down |-> {b}, flaky |-> {}, compares |-> 0, patches |-> 0, trees |-> 0, budget |-> 1]
Meets   == {Working, Hard}
=============================================================================
