-------------------------------- MODULE Sweep --------------------------------
(***************************************************************************)
(* The fleet sweep: fleet_sweep.py asks OSV about every package the        *)
(* portfolio graph declares and writes a worklist of advisories, each with *)
(* the commands that analyse it; run_impact_sweep.py runs the commands of  *)
(* a worklist, skipping those whose artifact is on disk, and gives up      *)
(* after a streak of failures, to be started again later.                  *)
(*                                                                         *)
(* Records, display ids and modules are numbers: records in the order OSV  *)
(* returns them, ids and modules in the order the runner sorts its work    *)
(* by.  A command is a pair of a display id and a module.                  *)
(***************************************************************************)
EXTENDS Naturals, FiniteSets

CONSTANTS
  Pairs,         \* (ecosystem, name, version) declared in the graph
  Records,       \* OSV records that hit a pair
  Ids,           \* display ids
  Modules,       \* (ecosystem, name)
  Repos,
  ModuleOf,      \* [Pairs -> Modules]
  HitBy,         \* [Records -> SUBSET Pairs]
  Display,       \* [Records -> Ids]
  Severity,      \* [Records -> 0 .. 4]
  Malicious,     \* records of malicious packages
  Manifests,     \* [Modules -> SUBSET Repos], the repos that record a manifest
  BadIds,        \* ids outside the charset
  BadCommands,   \* commands whose name or fixed version is outside the charset
  MinRank,       \* --min-severity
  Streak,        \* ERROR_STREAK_ABORT
  Hopeless,      \* commands whose analysis never succeeds
  TornArtifacts, \* whether a failed analysis can leave its artifact behind
  MaxSweeps,     \* bound on sweeps
  MaxKills       \* bound on kills of the runner

Commands == Ids \X Modules

ASSUME DataAssumption ==
  /\ Records \subseteq Nat /\ Ids \subseteq Nat /\ Modules \subseteq Nat
  /\ IsFiniteSet(Records) /\ IsFiniteSet(Ids) /\ IsFiniteSet(Modules)
  /\ Pairs # {}
  /\ ModuleOf \in [Pairs -> Modules]
  /\ HitBy \in [Records -> SUBSET Pairs]
  /\ Display \in [Records -> Ids]
  /\ Severity \in [Records -> 0 .. 4]
  /\ Malicious \subseteq Records
  /\ Manifests \in [Modules -> SUBSET Repos]
  /\ BadIds \subseteq Ids /\ BadCommands \subseteq Commands

ASSUME BoundsAssumption ==
  /\ Hopeless \subseteq Commands
  /\ Streak \in Nat \ {0} /\ MinRank \in 1 .. 4
  /\ TornArtifacts \in BOOLEAN
  /\ MaxSweeps \in Nat /\ MaxKills \in Nat

VARIABLES
  worklist,   \* fleet-osv-worklist-<today>.json
  sweeps,
  artifacts,  \* display ids whose impact analysis is on disk
  analysed,   \* commands that were run to the end
  runner,
  kills

vars == <<worklist, sweeps, artifacts, analysed, runner, kills>>

NoWorklist == [status |-> "none", unanswered |-> {}, missing |-> 0,
               rows |-> {}, refuted |-> {}, rejectedIds |-> {}, rejected |-> {}]

FailedWorklist == [NoWorklist EXCEPT !.status = "failed", !.unanswered = Pairs]

Stopped == [running |-> FALSE, work |-> {}, streak |-> 0]

-----------------------------------------------------------------------------
(* What a sweep makes of the details it got and of the pairs answered.     *)

\* Malware carries no score and is critical.
Band(r) == IF r \in Malicious THEN 4 ELSE Severity[r]

Hits(answered) == {r \in Records : HitBy[r] \cap answered # {}}

\* Mutants: only the best record of an id is looked at; the streak is one short.
BestMember(id, details) ==
  {r \in details : Display[r] = id /\ \A s \in details : Display[s] = id => Band(s) <= Band(r)}
SustainedEarly(streak) == streak + 1 >= Streak

\* Records that alias one CVE collapse into one display id.
Members(id, details) == {r \in details : Display[r] = id}

\* The first record of the highest band represents the id.
Representative(id, details) ==
  CHOOSE r \in Members(id, details) :
    \A s \in Members(id, details) :
      \/ Band(r) > Band(s)
      \/ Band(r) = Band(s) /\ r <= s

Listed(details) ==
  {id \in {Display[r] : r \in details} :
     Band(Representative(id, details)) >= MinRank}

\* Every member's hits count, not only the representative's.
HitModules(id, details, answered) ==
  {ModuleOf[p] : p \in answered \cap UNION {HitBy[r] : r \in Members(id, details)}}

Candidates(details, answered) ==
  {c \in Commands : c[1] \in Listed(details) \ BadIds
                    /\ c[2] \in HitModules(c[1], details, answered)}

Rows(details, answered) ==
  LET good == Candidates(details, answered) \ BadCommands
  IN  {[id        |-> id,
        malicious |-> Representative(id, details) \in Malicious,
        commands  |-> {c \in good : c[1] = id}] : id \in {c[1] : c \in good}}

\* --verify reads the manifest of each repository that declares the module.
Checks(row) ==
  {k \in {c[2] : c \in row.commands} \X Repos : k[2] \in Manifests[k[1]]}

Refuted(row, verdict) ==
  LET verdicts == {verdict[k] : k \in Checks(row)}
  IN  row.malicious /\ "confirmed" \notin verdicts /\ "refuted" \in verdicts

Verdicts == {"confirmed", "refuted", "unverifiable"}

Document(details, missing, answered, verdict) ==
  LET rows == Rows(details, answered)
      out  == {row \in rows : Refuted(row, verdict)}
  IN  [status      |-> IF answered = Pairs /\ missing = {} THEN "complete" ELSE "degraded",
       unanswered  |-> Pairs \ answered,
       missing     |-> Cardinality(missing),
       rows        |-> rows \ out,
       refuted     |-> out,
       rejectedIds |-> Listed(details) \cap BadIds,
       rejected    |-> Candidates(details, answered) \cap BadCommands]

-----------------------------------------------------------------------------
(* fleet_sweep.py.  A sweep writes one file, at its end: a kill before that *)
(* leaves no trace.                                                        *)

\* Some pair is answered; details of some of the hits may not come.
SweepFleet ==
  /\ sweeps < MaxSweeps
  /\ sweeps' = sweeps + 1
  /\ \E answered \in (SUBSET Pairs) \ {{}} :
       \E missing \in SUBSET Hits(answered) :
         LET details == Hits(answered) \ missing
             checks  == UNION {Checks(row) : row \in Rows(details, answered)}
         IN  \E verdict \in [checks -> Verdicts] :
               worklist' = Document(details, missing, answered, verdict)
  /\ UNCHANGED <<artifacts, analysed, runner, kills>>

\* No access, a failed probe, or no pair answered.
FailSweep ==
  /\ sweeps < MaxSweeps
  /\ sweeps' = sweeps + 1
  /\ worklist' = FailedWorklist
  /\ UNCHANGED <<artifacts, analysed, runner, kills>>

-----------------------------------------------------------------------------
(* run_impact_sweep.py.                                                    *)

\* Rows of few repositories first; the commands of a row in its order.
Before(c, d) == c[1] < d[1] \/ (c[1] = d[1] /\ c[2] < d[2])

Work(rows) == UNION {row.commands : row \in rows}

\* The first of the commands still to come.
First(work) == CHOOSE c \in work : \A d \in work \ {c} : Before(c, d)

Sustained(streak) == streak >= Streak

Advance(r) == [r EXCEPT !.work = @ \ {First(@)}]

Start ==
  /\ ~runner.running
  /\ worklist.status # "none"
  /\ runner' = [running |-> TRUE, work |-> Work(worklist.rows), streak |-> 0]
  /\ UNCHANGED <<worklist, sweeps, artifacts, analysed, kills>>

\* All the commands of a row write to the same path.
Pending == runner.running /\ runner.work # {}
OnDisk(c) == c[1] \in artifacts

SkipExisting ==
  /\ Pending /\ OnDisk(First(runner.work))
  /\ runner' = Advance(runner)
  /\ UNCHANGED <<worklist, sweeps, artifacts, analysed, kills>>

Succeeds(c) ==
  /\ Pending /\ c = First(runner.work)
  /\ ~OnDisk(c) /\ c \notin Hopeless
  /\ artifacts' = artifacts \cup {c[1]}
  /\ analysed' = analysed \cup {c}
  /\ runner' = [Advance(runner) EXCEPT !.streak = 0]
  /\ UNCHANGED <<worklist, sweeps, kills>>

\* A nonzero exit, a timeout, or no artifact after an exit of zero.
Fails(c) ==
  /\ Pending /\ c = First(runner.work)
  /\ ~OnDisk(c)
  /\ artifacts' \in {artifacts} \cup (IF TornArtifacts THEN {artifacts \cup {c[1]}} ELSE {})
  /\ runner' = IF Sustained(runner.streak + 1)
               THEN Stopped
               ELSE [Advance(runner) EXCEPT !.streak = @ + 1]
  /\ UNCHANGED <<worklist, sweeps, analysed, kills>>

Finish ==
  /\ runner.running /\ runner.work = {}
  /\ runner' = Stopped
  /\ UNCHANGED <<worklist, sweeps, artifacts, analysed, kills>>

KillRunner ==
  /\ runner.running /\ kills < MaxKills
  /\ kills' = kills + 1
  /\ runner' = Stopped
  /\ UNCHANGED <<worklist, sweeps, artifacts, analysed>>

-----------------------------------------------------------------------------
Init ==
  /\ worklist = NoWorklist
  /\ sweeps = 0
  /\ artifacts = {}
  /\ analysed = {}
  /\ runner = Stopped
  /\ kills = 0

Analyse == \E c \in Commands : Succeeds(c) \/ Fails(c)

Next ==
  \/ SweepFleet \/ FailSweep
  \/ Start \/ SkipExisting
  \/ \E c \in Commands : Succeeds(c)
  \/ \E c \in Commands : Fails(c)
  \/ Finish \/ KillRunner

Spec == Init /\ [][Next]_vars

\* The runner is a loop, it is started again while its worklist stands, and
\* an analysis that can succeed and is tried again and again succeeds.
FairSpec ==
  /\ Spec
  /\ WF_vars(Start) /\ WF_vars(SkipExisting) /\ WF_vars(Analyse) /\ WF_vars(Finish)
  /\ \A c \in Commands : SF_vars(Succeeds(c))

-----------------------------------------------------------------------------
Row == [id : Ids, malicious : BOOLEAN, commands : SUBSET (Commands \ BadCommands)]

TypeOK ==
  /\ worklist \in [status : {"none", "failed", "degraded", "complete"},
                   unanswered : SUBSET Pairs, missing : Nat,
                   rows : SUBSET Row, refuted : SUBSET Row,
                   rejectedIds : SUBSET BadIds, rejected : SUBSET BadCommands]
  /\ sweeps \in 0 .. MaxSweeps
  /\ artifacts \subseteq Ids
  /\ analysed \subseteq Commands
  /\ runner \in [running : BOOLEAN, work : SUBSET (Commands \ BadCommands), streak : 0 .. Streak - 1]
  /\ kills \in 0 .. MaxKills

\* Where the worklist accounts for a record that hits a pair.
Accounted(r, p) ==
  LET c == <<Display[r], ModuleOf[p]>>
  IN  \/ Display[r] \in worklist.rejectedIds
      \/ c \in worklist.rejected
      \/ \E row \in worklist.rows \cup worklist.refuted :
           row.id = Display[r] /\ c \in row.commands

\* A sweep that says complete left nothing unanswered; and unless details were
\* missing, every record at or above the floor that hits an answered pair is
\* accounted for under its module: a row, a refuted row, or a rejected input
\* (fleet_sweep.py: "unanswered pairs are NOT clean", "visible, never silent").
NothingIsSilentlyClean ==
  /\ worklist.status = "complete" => worklist.unanswered = {} /\ worklist.missing = 0
  /\ worklist.status \in {"complete", "degraded"} /\ worklist.missing = 0 =>
       \A r \in Records : Band(r) >= MinRank =>
         \A p \in HitBy[r] \ worklist.unanswered : Accounted(r, p)

\* Every advisory that stays on the worklist is analysed in the end, whatever
\* fails, times out or is killed on the way, as long as fewer commands than a
\* streak are beyond hope and one of its own is not (run_impact_sweep.py: "A
\* sustained error streak aborts the run ... resume from disk").
OnWorklist(id) == \E row \in worklist.rows : row.id = id
HasHope(id)    == \A row \in worklist.rows : row.id = id => row.commands \ Hopeless # {}

EveryAdvisoryIsAnalysed ==
  Cardinality(Hopeless) < Streak =>
    \A id \in Ids :
      <>[](OnWorklist(id) /\ HasHope(id)) => <>(\E m \in Modules : <<id, m>> \in analysed)

\* Stronger, and false: every command on the worklist is run ("a module is
\* looked up, gated and analysed under the ecosystem that produced its hit").
EveryCommandIsRun ==
  \A c \in Commands \ Hopeless :
    <>[](\E row \in worklist.rows : c \in row.commands) => <>(c \in analysed)
=============================================================================
