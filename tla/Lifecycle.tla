------------------------------- MODULE Lifecycle -------------------------------
(***************************************************************************)
(* What the disposition ledger promises about a finding, without a log, a  *)
(* clock or processes: who may dismiss it, and who may bring it back.      *)
(*                                                                         *)
(* A person's dismissal counts as one dissent.  Against a proof by         *)
(* execution it takes a second one; without proof, one person's or an      *)
(* auto-accepted triage verdict is enough, and any later evidence may      *)
(* bring the finding back.  A dismissal that stands against a proof is     *)
(* undone by proof alone.  Ledger implements this specification            *)
(* (Ledger!LifecycleHolds).                                                *)
(***************************************************************************)
CONSTANTS Findings, Humans

VARIABLES
  verdict,    \* [Findings -> {"live", "dismissed"}]
  proven,     \* [Findings -> BOOLEAN], execution has determined it
  accepted,   \* [Findings -> BOOLEAN], triage has auto-accepted a refutation
  dissent     \* [Findings -> SUBSET Humans], who has dismissed it so far

vars == <<verdict, proven, accepted, dissent>>

Init ==
  /\ verdict = [f \in Findings |-> "live"]
  /\ proven = [f \in Findings |-> FALSE]
  /\ accepted = [f \in Findings |-> FALSE]
  /\ dissent = [f \in Findings |-> {}]

\* Two different people, g among those who spoke before.
Seconded(f, h) == \E g \in dissent[f] : g # h
Two(f)         == \E h \in dissent[f] : Seconded(f, h)

Becomes(f, v) == verdict' = [verdict EXCEPT ![f] = v]

Dismiss(f, h) ==
  /\ dissent' = [dissent EXCEPT ![f] = @ \cup {h}]
  /\ \/ Becomes(f, verdict[f])
     \/ Becomes(f, "dismissed") /\ (proven[f] => Seconded(f, h))
  /\ UNCHANGED <<proven, accepted>>

\* A refutation by triage above the auto-accept bar, once.
Accept(f) ==
  /\ ~accepted[f]
  /\ accepted' = [accepted EXCEPT ![f] = TRUE]
  /\ \/ Becomes(f, verdict[f])
     \/ Becomes(f, "dismissed") /\ ~proven[f]
  /\ UNCHANGED <<proven, dissent>>

\* A proof revives, unless it is older than the dissent of two people.
Prove(f) ==
  /\ proven' = [proven EXCEPT ![f] = TRUE]
  /\ \/ Becomes(f, "live")
     \/ /\ Becomes(f, "dismissed")
        /\ Two(f)
        /\ proven[f] => verdict[f] = "dismissed"
  /\ UNCHANGED <<accepted, dissent>>

\* Any other evidence.
Reconsider(f) ==
  /\ ~proven[f]
  /\ Becomes(f, "live")
  /\ UNCHANGED <<proven, accepted, dissent>>

Next ==
  \E f \in Findings :
    \/ \E h \in Humans : Dismiss(f, h)
    \/ Accept(f) \/ Prove(f) \/ Reconsider(f)

Spec == Init /\ [][Next]_vars
=============================================================================
