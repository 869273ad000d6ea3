---------------------------- MODULE MCExecution ----------------------------
(* Two findings on one path.  Object a and b are made by probes, crd is     *)
(* installed, core is off limits.                                           *)
EXTENDS Execution
CONSTANTS f1, f2, a, b, crd, core

MCOrder   == <<f1, f2>>
MCChains  == <<<<f2, f1>>>>
MCObjects == {a, b, crd, core}
MCOperand == {crd, core}

Apply(objects)  == [verb |-> "apply-manifest", cls |-> "mutating", target |-> objects,
                    reach |-> objects, undo |-> FALSE]
Create(objects) == [Apply(objects) EXCEPT !.verb = "create-cr"]
Command(cls, declared, real, undo) ==
  [verb |-> "raw", cls |-> cls, target |-> declared, reach |-> real, undo |-> undo]
Look   == Command("safe", {}, {}, FALSE)
Peek   == Command("safe", {}, {core}, FALSE)
Stray  == Command("mutating", {b}, {b, core}, TRUE)
Debug  == Command("mutating", {b}, {b}, FALSE)
Delete == Command("destructive", {crd}, {crd}, FALSE)

Probe(pocs) == [skip |-> "", pocs |-> pocs]
Skip(why)   == [skip |-> why, pocs |-> <<>>]

Case(x, y, denied, permit, undeployed) ==
  [finding |-> [f \in {f1, f2} |-> IF f = f1 THEN x ELSE y],
   denied |-> denied, permit |-> permit, undeployed |-> undeployed]

MCWorlds ==
  {Case(Probe(<<Apply({a})>>), Probe(<<Debug>>), {}, FALSE, FALSE),
   Case(Probe(<<Create({a}), Look>>), Skip("triage"), {}, FALSE, TRUE),
   Case(Probe(<<Apply({a})>>), Probe(<<Stray>>), {a}, TRUE, FALSE),
   Case(Probe(<<Create({crd})>>), Probe(<<Delete>>), {}, TRUE, FALSE),
   Case(Probe(<<Look>>), Probe(<<Delete>>), {}, FALSE, FALSE),
   Case(Probe(<<Look>>), Probe(<<>>), {}, FALSE, FALSE),
   Case(Probe(<<Peek>>), Skip("credential"), {}, FALSE, FALSE)}

TwoObjects == {Case(Probe(<<Apply({a, b})>>), Skip("triage"), {b}, FALSE, FALSE)}
OneCreate  == {Case(Probe(<<Create({crd})>>), Probe(<<Look>>), {}, FALSE, FALSE)}

MCAnswers ==
  {[verdict |-> "confirmed", clean |-> TRUE], [verdict |-> "refuted", clean |-> TRUE],
   [verdict |-> "refuted", clean |-> FALSE], [verdict |-> "inconclusive", clean |-> FALSE],
   [verdict |-> "blocked_by_scope", clean |-> TRUE]}
=============================================================================
