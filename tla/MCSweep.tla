------------------------------- MODULE MCSweep -------------------------------
(* Two pairs in two ecosystems.  Records 1 and 2 alias one CVE, the second  *)
(* of a lower band; record 3 is malware that a manifest may refute; record 4 *)
(* has a command outside the charset, record 5 an id outside it.  The npm     *)
(* command of the CVE is beyond hope, or none is.                            *)
EXTENDS Sweep, TLC
CONSTANTS npm, maven, r1

PairsSet     == {npm, maven}
MCModuleOf   == (npm :> 1) @@ (maven :> 2)
MCRecords    == 1 .. 5
MCHitBy      == <<{npm}, {maven}, {npm}, {npm, maven}, {maven}>>
MCDisplay    == <<1, 1, 2, 3, 4>>
MCSeverity   == <<4, 3, 0, 4, 3>>
MCManifests  == <<{r1}, {}>>
MCBad        == {<<3, 1>>}
MCHopeless   == {<<1, 1>>}
NoneHopeless == {}
=============================================================================
