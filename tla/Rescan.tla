------------------------------- MODULE Rescan -------------------------------
(***************************************************************************)
(* The rescan cadence: the daily router (build_rescan_worklist.py), which  *)
(* decides for every audited repository what it needs next; the weekly     *)
(* tranche over the router's pools (emit_drain_tranche.py); and around     *)
(* them the repositories that are pushed to, the events that operators and *)
(* feeders inject, the network that answers or does not, and the audits    *)
(* that the worklist sends out.                                            *)
(*                                                                         *)
(* A run of the router is one step: it keeps nothing between runs but the  *)
(* worklist it leaves behind.  What has changed in a repository since the  *)
(* commit its audit read is a set of kinds of change.  Days are counted up *)
(* to Cap, behind which nothing is told apart.                             *)
(***************************************************************************)
EXTENDS Integers, Sequences, FiniteSetsExt

CONSTANTS
  Order,        \* the repositories of the inventory, by URL
  Audited0,     \* those that have an audit at the start
  Pinned0,      \* those whose audit names the commit it read
  Host,         \* [Repos -> {"github", "gitlab", "other"}]
  Live,         \* [Repos -> live critical and high findings]
  Archived,     \* repositories that are archived upstream
  Public,       \* public repositories
  Forks,        \* repositories with a public upstream
  Designation,  \* [Repos -> {"none", "external", "internal-tooling"}]
  Modelled,     \* repositories with a threat model beside their audit
  CloudAudited, \* repositories with a cloud-config audit
  Companions,   \* repositories whose audit asks for one
  Pushes,       \* the pushes: a repository and the kinds of change
  Injections,   \* the events that are injected
  Conditions,   \* what a run may meet: forges, quotas and budget
  Ceiling, Tightened, DormantDays, StaleDays, MaxListAge, WeekLength,
  P0Live, DrainWeeks, HorizonWeeks,
  Overnight,    \* whether an audit may run past midnight
  Cap, MaxInputs

Repos == {Order[i] : i \in DOMAIN Order}
Pos(r) == CHOOSE i \in DOMAIN Order : Order[i] = r

\* What changed, and what may be said of a change: its comparison is cut off, it
\* touches three first-party files, or too large a share of all, it adds a secret.
Contents    == {"docs", "deps", "code", "sensitive", "bulk", "iac"}
Traits      == {"wide", "many", "most", "secret"}
ChangeKinds == Contents \cup Traits

Tiers == {"P0", "P1", "P2", "P3"}
AllSources == {"external-report", "methodology", "cve", "release", "major-release"}
Event == [source: AllSources, repo: Repos]

ASSUME OrderAssumption ==
  /\ Order \in Seq(Repos)
  /\ \A i, j \in DOMAIN Order : Order[i] = Order[j] => i = j

ASSUME SetsAssumption ==
  /\ Audited0 \subseteq Repos /\ Pinned0 \subseteq Audited0 /\ Modelled \subseteq Repos
  /\ Pushes \subseteq [repo: Repos, change: SUBSET ChangeKinds] /\ Injections \subseteq Event
  /\ Conditions \subseteq
       [down: SUBSET Repos, flaky: SUBSET Repos, compares: Nat, patches: Nat, trees: Nat,
        budget: Nat \cup {-1}]

ASSUME NumbersAssumption ==
  /\ {DormantDays, StaleDays, MaxListAge, MaxInputs} \subseteq Nat
  /\ Cap \in Nat /\ DormantDays < Cap /\ StaleDays <= Cap
  /\ \A t \in {"P0", "P1", "P2"} : Ceiling[t] \in 0 .. Cap - 1 /\ Tightened[t] \in 0 .. Ceiling[t]
  /\ WeekLength \in Nat \ {0} /\ DrainWeeks \in Nat \ {0}
  /\ HorizonWeeks \in Nat /\ Overnight \in BOOLEAN

VARIABLES
  audited,   \* repositories with an audit
  pinned,    \* those whose newest audit names its commit
  age,       \* days since the newest audit's date
  quiet,     \* days since the last push
  diff,      \* kinds of change between that audit's commit and the head
  audit,     \* running audits: what was pushed since they cloned
  modelAge,  \* days since the date in the threat model's provenance
  events,    \* rescan-events.jsonl: the unconsumed events
  list,      \* the worklist of the last run, and the conditions it met
  listAge,   \* days since it was generated
  weekday,
  drained,   \* the tranches that exist, of this week and of the last
  reviewed,  \* repositories whose model a tranche has sent to review
  inputs

env  == <<audited, pinned, age, quiet, diff, audit, modelAge>>
vars == <<env, events, list, listAge, weekday, drained, reviewed, inputs>>

NotRunning == {"not running"}
NoList     == [rows |-> {}, dropped |-> {}, honored |-> {}, met |-> {}]

-----------------------------------------------------------------------------
(* What a run learns of a repository under the conditions n.               *)

Baselined(r) == r \in audited

\* Mutant: the day of the audit itself is left out.
ChangedSinceTheDay(r) == quiet[r] < age[r]

\* pushed_at >= audit_date, by days.
Changed(r) == quiet[r] <= age[r]

\* Stage 1 answered.  The breaker and missing credentials only add to n.down.
Refreshed(n, r) == Host[r] # "other" /\ r \notin n.down

Candidates(n) == {r \in audited : Refreshed(n, r) /\ Changed(r)}

\* Those whose comparison costs quota, in the order of the population.
Comparisons(n) == {r \in Candidates(n) : Host[r] = "github" /\ r \in pinned}

Deferred(n) ==
  {r \in Comparisons(n) : Cardinality({q \in Comparisons(n) : Pos(q) < Pos(r)}) >= n.compares}

Status(n, r) ==
  IF Host[r] = "other" THEN "unsupported-host"
  ELSE IF ~Refreshed(n, r) THEN "error"
  ELSE IF r \notin Candidates(n) THEN "ok"
  ELSE IF r \notin pinned THEN "no-pinned-sha"
  ELSE IF r \in Deferred(n) THEN "quota-deferred"
  ELSE IF r \in n.flaky THEN "error"
  ELSE "ok"

Measured(n, r) == r \in Candidates(n) /\ Status(n, r) = "ok"

\* The metrics of a comparison that was not made are those of an empty one.
Seen(n, r) == IF Measured(n, r) THEN diff[r] ELSE {}

\* C, in three sizes; documentation is no first-party change.
Lines(d) ==
  IF "bulk" \in d THEN 2 ELSE IF d \cap Contents \subseteq {"docs"} THEN 0 ELSE 1

DepsOnly(d) == d \cap Contents = {"deps"}

-----------------------------------------------------------------------------
(* Tier, exposure, and the decision table.                                 *)

Dormant(r) == quiet[r] > DormantDays

RiskTier(n, r) ==
  IF Live[r] >= P0Live THEN "P0"
  ELSE IF Live[r] >= 1 THEN "P1"
  ELSE IF Refreshed(n, r) /\ (r \in Archived \/ Dormant(r)) THEN "P3"
  ELSE "P2"

Exposure(n, r) ==
  IF Refreshed(n, r) /\ r \in Public
    THEN IF Designation[r] = "internal-tooling" THEN "public-internal" ELSE "public-external"
  ELSE IF Designation[r] = "external"
    THEN IF Refreshed(n, r) /\ r \in Forks THEN "public-external" ELSE "private-external"
  ELSE IF Refreshed(n, r) /\ r \in Forks THEN "public-internal"
  ELSE "private-internal"

OverCeiling(n, r) ==
  /\ RiskTier(n, r) # "P3"
  /\ age[r] > (IF Exposure(n, r) \in {"public-external", "private-external"}
                 THEN Tightened ELSE Ceiling)[RiskTier(n, r)]

\* Mutant: an audit may grow old.
RulesWithoutCeiling == <<"rule-2", "rule-3", "rule-3b", "rule-5", "rule-6", "rule-7">>

Rules == <<"rule-2", "rule-3", "rule-3b", "rule-4", "rule-5", "rule-6", "rule-7">>

Fires(rule, n, r) ==
  CASE rule = "rule-2"  -> "bulk" \in Seen(n, r)
    [] rule = "rule-3"  -> "sensitive" \in Seen(n, r)
    [] rule = "rule-3b" -> DepsOnly(Seen(n, r))
    [] rule = "rule-4"  -> OverCeiling(n, r)
    [] rule = "rule-5"  -> Lines(Seen(n, r)) > 0
    [] rule = "rule-6"  -> Measured(n, r) /\ diff[r] = {}
    [] rule = "rule-7"  -> TRUE

Decide(n, r) == Rules[Min({i \in DOMAIN Rules : Fires(Rules[i], n, r)})]

LaneOf(rule, tier) ==
  CASE rule = "rule-2"  -> "full-audit"
    [] rule = "rule-3"  -> IF tier \in {"P0", "P1"} THEN "full-audit" ELSE "diff-scan"
    [] rule = "rule-3b" -> "deps-lane"
    [] rule = "rule-4"  -> "full-audit"
    [] rule = "rule-5"  -> "diff-scan-quarterly"
    [] OTHER            -> "none"

\* The rule and lane of a repository that no event supersedes.
TableRule(n, r) ==
  IF Status(n, r) \in {"quota-deferred", "no-pinned-sha"} THEN Status(n, r) ELSE Decide(n, r)

TableLane(n, r) ==
  CASE Status(n, r) = "quota-deferred" -> "none"
    [] Status(n, r) = "no-pinned-sha"  -> "full-audit"
    [] OTHER -> LaneOf(Decide(n, r), RiskTier(n, r))

-----------------------------------------------------------------------------
(* Rows.  A row carries what later passes read of it.                      *)

Row(n, r, rule, lane, tier, source) ==
  [repo |-> r, rule |-> rule, lane |-> lane, tier |-> tier, source |-> source,
   expo |-> Exposure(n, r), seen |-> Seen(n, r), status |-> Status(n, r),
   tm |-> IF lane = "threat-model-quarterly" THEN modelAge[r] ELSE 0, pr |-> FALSE]

\* Rule 1: the lane of an event, "none" when it is honored and not queued.
EventLane(source, tier) ==
  CASE source = "external-report" -> "full-audit+validate"
    [] source = "methodology"     -> IF tier = "P0" THEN "full-audit" ELSE "none"
    [] source = "cve"             -> "impact-lane"
    [] OTHER                      -> "release-passthrough"

LaneOfEvent(n, ev) == EventLane(ev.source, RiskTier(n, ev.repo))

Targeted == {ev \in events : Baselined(ev.repo)}
Queued(n) == {ev \in Targeted : LaneOfEvent(n, ev) # "none"}

EventRows(n) ==
  {Row(n, ev.repo, "rule-1", LaneOfEvent(n, ev), RiskTier(n, ev.repo), ev.source) :
     ev \in Queued(n)}

\* Mutant: an event that is not queued supersedes the table as well.
SupersededByAny(n) == {ev.repo : ev \in Targeted}

\* event_urls: the repositories whose event row supersedes the table.
Superseded(n) == {ev.repo : ev \in Queued(n)}

\* A major or minor release re-models, at most once in a run.
ToReview == {ev.repo : ev \in {e \in Targeted : e.source = "major-release"}}

ReviewRows(n) ==
  {Row(n, r, "threat-model-2", "threat-model-review", RiskTier(n, r), "release") : r \in ToReview}

TableRows(n) ==
  {Row(n, r, TableRule(n, r), TableLane(n, r), RiskTier(n, r), "none") :
     r \in audited \ Superseded(n)}

Additive(n, r, rule, lane) == Row(n, r, rule, lane, "P3", "none")

IacRows(n) ==
  {Additive(n, r, "lever-6", IF r \in CloudAudited THEN "iac-lane" ELSE "iac-baseline") :
     r \in {q \in audited \ Superseded(n) : Status(n, q) = "ok" /\ "iac" \in Seen(n, q)}}

CompanionRows(n) ==
  {Additive(n, r, "lever-6-companion", "iac-baseline") :
     r \in (audited \cap Companions) \ (Superseded(n) \cup CloudAudited
                                          \cup {d.repo : d \in IacRows(n)})}

\* Visibility is not looked up: only the designation tells.
BootstrapRow(r) ==
  [repo |-> r, rule |-> "rule-1-bootstrap", lane |-> "full-audit", tier |-> "P2",
   source |-> "none", seen |-> {}, status |-> "never-audited", tm |-> 0, pr |-> FALSE,
   expo |-> IF Designation[r] = "external" THEN "private-external" ELSE "private-internal"]

BootstrapRows == {BootstrapRow(r) : r \in Repos \ audited}

StaleModels == {r \in audited \cap Modelled : modelAge[r] >= StaleDays}

ModelRows(n) ==
  {Additive(n, r, "threat-model-3", "threat-model-quarterly") : r \in StaleModels \ ToReview}

-----------------------------------------------------------------------------
(* The passes over the table's rows.                                       *)

ExposureRank(e) ==
  CASE e = "public-external"  -> 0
    [] e = "private-external" -> 1
    [] e = "public-internal"  -> 2
    [] OTHER                  -> 3

TierRank(t) == CASE t = "P0" -> 0 [] t = "P1" -> 1 [] t = "P2" -> 2 [] OTHER -> 3

SensitiveRank(d) == IF "sensitive" \in d.seen THEN 0 ELSE 1

\* The population comes before the repositories that were never audited.
Turn(d)  == IF d.rule = "rule-1-bootstrap" THEN Len(Order) + Pos(d.repo) ELSE Pos(d.repo)
TurnBase == 2 * Len(Order) + 1

\* The order inside a lane, as digits of a number.
RiskKey(d) ==
  (((ExposureRank(d.expo) * 4 + TierRank(d.tier)) * 2 + SensitiveRank(d)) * 3
     + 2 - Lines(d.seen)) * TurnBase + Turn(d)

Place(d, rows, Key(_)) == Cardinality({x \in rows : Key(x) < Key(d)})

\* The first `quota` GitHub rows get their call, every other forge's row its own.
Allowed(rows, quota) ==
  LET github == {d \in rows : Host[d.repo] = "github"} IN
  (rows \ github) \cup {d \in github : Place(d, github, Turn) < quota}

BelowThreshold(rows) ==
  {d \in rows : d.lane \in {"deps-lane", "diff-scan-quarterly"} /\ Lines(d.seen) > 0}

\* run_tripwire: a secret in the patch makes the scan immediate.
Tripped(rows, n) == {d \in Allowed(BelowThreshold(rows), n.patches) : "secret" \in d.seen}

Tripwire(rows, n) ==
  (rows \ Tripped(rows, n))
    \cup {[d EXCEPT !.lane = "diff-scan", !.rule = "tripwire"] : d \in Tripped(rows, n)}

DiffLanes == {"diff-scan", "diff-scan-quarterly"}

Truncated(rows) == {d \in rows : d.lane \in DiffLanes /\ "wide" \in d.seen}

\* Mutant: rounded down.
FloorDiv(a, b) == a \div b

CeilDiv(a, b) == (a + b - 1) \div b

InPool(rows) == {d \in rows : d.lane = "diff-scan-quarterly"}

\* Rows that are due soon enough to be worth a call.
Imminent(rows) ==
  LET large == {d \in rows : d.lane \in DiffLanes /\ d.seen \cap {"many", "most"} # {}}
      pool  == InPool(large)
      near  == HorizonWeeks * Max({1, CeilDiv(Cardinality(InPool(rows)), DrainWeeks)})
  IN (large \ pool) \cup {d \in pool : Place(d, pool, RiskKey) < near}

\* Only GitHub tells the number of files cheaply.
TooLarge(rows, n) ==
  LET github == {d \in Imminent(rows) : Host[d.repo] = "github"} IN
  {d \in github : "most" \in d.seen /\ Place(d, github, Turn) < n.trees}

FullInstead(rows, picked) ==
  (rows \ picked) \cup {[d EXCEPT !.lane = "full-audit"] : d \in picked}

\* run_preroute: what the resolver would refuse at dispatch becomes a full audit.
Preroute(rows, n) ==
  LET narrow == FullInstead(rows, Truncated(rows)) IN FullInstead(narrow, TooLarge(narrow, n))

\* stamp_threat_model_pr: the diff's companion, where there is a model.
Stamped(rows) ==
  {[d EXCEPT !.pr = d.lane \in DiffLanes /\ "sensitive" \in d.seen /\ d.repo \in Modelled] :
     d \in rows}

\* Mutant: rows are vetted before the tripwire moves some into a diff lane.
VettedFirst(rows, n) == Stamped(Tripwire(Preroute(rows, n), n))

Vetted(rows, n) == Stamped(Preroute(Tripwire(rows, n), n))

-----------------------------------------------------------------------------
(* The worklist.                                                           *)

FullLanes == {"full-audit", "full-audit+validate"}

Decisions(n) ==
  EventRows(n) \cup ReviewRows(n)
    \cup Vetted(TableRows(n) \cup IacRows(n) \cup CompanionRows(n) \cup BootstrapRows
                  \cup ModelRows(n), n)

Fulls(rows) == {d \in rows : d.lane \in FullLanes}

\* Mutant: the highest tier is given up first.
DropKeyReversed(d) == TierRank(d.tier) * (96 * TurnBase) + RiskKey(d)

\* Lowest tier first, fewest lines first, then the order of the worklist.
DropKey(d) ==
  ((3 - TierRank(d.tier)) * 3 + Lines(d.seen)) * (96 * TurnBase) + RiskKey(d)

Droppable(rows) == {d \in Fulls(rows) : d.source = "none"}

\* apply_budget: the rows that do not fit.
Dropped(rows, budget) ==
  IF budget = -1 THEN {}
  ELSE {d \in Droppable(rows) :
          Place(d, Droppable(rows), DropKey) < Cardinality(Fulls(rows)) - budget}

\* events_honored
Honored(n) == {[event |-> ev, queued |-> ev \in Queued(n)] : ev \in events}

Worklist(n) ==
  LET decided == Decisions(n)
      given   == Dropped(decided, n.budget)
  IN [rows |-> decided \ given, dropped |-> given, honored |-> Honored(n), met |-> {n}]

Route(n) ==
  /\ list' = Worklist(n)
  /\ listAge' = 0
  /\ UNCHANGED <<env, events, weekday, drained, reviewed, inputs>>

-----------------------------------------------------------------------------
(* The weekly tranche.                                                     *)

\* Exposure, then the oldest model, then the order of the worklist.
ModelKey(d) ==
  (ExposureRank(d.expo) * (Cap + 1) + Cap - d.tm) * (96 * TurnBase) + RiskKey(d)

ModelPool(rows) == {d \in rows : d.lane = "threat-model-quarterly"}

\* select_rows: the head of each pool by its own rate, and every review.
DueOf(pool, Key(_)) ==
  {d \in pool : Place(d, pool, Key) < CeilDiv(Cardinality(pool), DrainWeeks)}

Tranche(rows) ==
  DueOf(InPool(rows), RiskKey) \cup DueOf(ModelPool(rows), ModelKey)
    \cup {d \in rows : d.lane = "threat-model-review"}

\* The week a tranche is named after is that of the worklist.
WeekOfList == IF listAge <= weekday THEN "this" ELSE "last"

\* Its diff scans and reviews are dispatched.  Neither re-anchors the audit nor
\* re-dates the model.
EmitTranche ==
  /\ list # NoList
  /\ listAge <= MaxListAge
  /\ WeekOfList \notin drained
  /\ drained' = drained \cup {WeekOfList}
  /\ reviewed' = reviewed \cup {d.repo : d \in {x \in Tranche(list.rows) :
                                   x.lane \in {"threat-model-review", "threat-model-quarterly"}}}
  /\ UNCHANGED <<env, events, list, listAge, weekday, inputs>>

-----------------------------------------------------------------------------
(* What the worklist is dispatched to, and the world.                      *)

Remaining(d) == IF d.rule = "rule-1" THEN events \ {[source |-> d.source, repo |-> d.repo]} ELSE events

\* A full audit begins with a clone.  Its event, if it has one, is consumed.
StartAudit(d) ==
  /\ d \in Fulls(list.rows)
  /\ audit[d.repo] = NotRunning
  /\ audit' = [audit EXCEPT ![d.repo] = {}]
  /\ events' = Remaining(d)
  /\ UNCHANGED <<audited, pinned, age, quiet, diff, modelAge, list, listAge, weekday, drained,
                 reviewed, inputs>>

\* The report is dated when it is written, and names the commit of the clone.
FinishAudit(r) ==
  /\ audit[r] # NotRunning
  /\ audited' = audited \cup {r}
  /\ pinned' = pinned \cup {r}
  /\ age' = [age EXCEPT ![r] = 0]
  /\ diff' = [diff EXCEPT ![r] = audit[r]]
  /\ audit' = [audit EXCEPT ![r] = NotRunning]
  /\ UNCHANGED <<quiet, modelAge, events, list, listAge, weekday, drained, reviewed, inputs>>

\* A row for the impact lane or the release lanes.
PassOn(d) ==
  /\ d \in list.rows /\ d.lane \in {"impact-lane", "release-passthrough"}
  /\ events' = Remaining(d)
  /\ events' # events
  /\ UNCHANGED <<env, list, listAge, weekday, drained, reviewed, inputs>>

\* An operator applies the proposals of a review.
Remodel(r) ==
  /\ r \in reviewed
  /\ modelAge' = [modelAge EXCEPT ![r] = 0]
  /\ reviewed' = reviewed \ {r}
  /\ UNCHANGED <<audited, pinned, age, quiet, diff, audit, events, list, listAge, weekday, drained,
                 inputs>>

Inject(ev) ==
  /\ inputs < MaxInputs
  /\ inputs' = inputs + 1
  /\ events' = events \cup {ev}
  /\ UNCHANGED <<env, list, listAge, weekday, drained, reviewed>>

Push(p) ==
  /\ inputs < MaxInputs
  /\ inputs' = inputs + 1
  /\ quiet' = [quiet EXCEPT ![p.repo] = 0]
  /\ diff' = [diff EXCEPT ![p.repo] = @ \cup p.change]
  /\ audit' = [audit EXCEPT ![p.repo] = IF @ = NotRunning THEN @ ELSE @ \cup p.change]
  /\ UNCHANGED <<audited, pinned, age, modelAge, events, list, listAge, weekday, drained, reviewed>>

OlderBy1(days) == IF days < Cap THEN days + 1 ELSE Cap

\* Counting up to Cap keeps a push that was before the audit's day before it.
QuieterBy1(r) ==
  IF Changed(r) THEN OlderBy1(quiet[r]) ELSE IF quiet[r] <= Cap THEN quiet[r] + 1 ELSE Cap + 1

NewDay ==
  /\ Overnight \/ \A r \in Repos : audit[r] = NotRunning
  /\ age' = [r \in Repos |-> IF r \in audited THEN OlderBy1(age[r]) ELSE 0]
  /\ quiet' = [r \in Repos |-> QuieterBy1(r)]
  /\ modelAge' = [r \in Repos |-> IF r \in Modelled THEN OlderBy1(modelAge[r]) ELSE 0]
  /\ listAge' = IF listAge <= MaxListAge THEN listAge + 1 ELSE listAge
  /\ weekday' = IF weekday + 1 = WeekLength THEN 0 ELSE weekday + 1
  /\ drained' = IF weekday' # 0 THEN drained
                ELSE IF "this" \in drained THEN {"last"} ELSE {}
  /\ UNCHANGED <<audited, pinned, diff, audit, events, list, reviewed, inputs>>

Init ==
  /\ audited = Audited0
  /\ pinned = Pinned0
  /\ age = [r \in Repos |-> 0]
  /\ quiet = [r \in Repos |-> Cap + 1]
  /\ diff = [r \in Repos |-> {}]
  /\ audit = [r \in Repos |-> NotRunning]
  /\ modelAge = [r \in Repos |-> 0]
  /\ events = {}
  /\ list = NoList
  /\ listAge = 0
  /\ weekday = 0
  /\ drained = {}
  /\ reviewed = {}
  /\ inputs = 0

Next ==
  \/ \E n \in Conditions : Route(n)
  \/ EmitTranche
  \/ \E d \in list.rows : StartAudit(d)
  \/ \E d \in list.rows : PassOn(d)
  \/ \E r \in Repos : FinishAudit(r)
  \/ \E r \in Repos : Remodel(r)
  \/ \E ev \in Injections : Inject(ev)
  \/ \E p \in Pushes : Push(p)
  \/ NewDay

Spec == Init /\ [][Next]_vars

Good(n) ==
  /\ n.down = {} /\ n.flaky = {} /\ n.budget = -1
  /\ \A q \in {n.compares, n.patches, n.trees} : q >= Len(Order)

\* What goes on for a repository: its row is dispatched, its audit ends.
Work(r) == (\E d \in list.rows : d.repo = r /\ (StartAudit(d) \/ PassOn(d))) \/ FinishAudit(r)

\* Days go by, and again and again a run meets working forges, enough quota and
\* no budget; what is listed again and again is dispatched.
RanWell ==
  /\ listAge' = 0 /\ UNCHANGED <<env, events, weekday, drained, reviewed, inputs>>
  /\ list'.met # {} /\ \A n \in list'.met : Good(n)

Fairness ==
  /\ []<><<RanWell>>_vars
  /\ \A r \in Repos : SF_vars(Work(r))
  /\ SF_vars(NewDay) /\ SF_vars(EmitTranche)

FairSpec == Spec /\ Fairness

-----------------------------------------------------------------------------
TypeOK ==
  /\ pinned \subseteq audited /\ audited \subseteq Repos
  /\ age \in [Repos -> 0 .. Cap] /\ quiet \in [Repos -> 0 .. Cap + 1]
  /\ diff \in [Repos -> SUBSET ChangeKinds]
  /\ audit \in [Repos -> (SUBSET ChangeKinds) \cup {NotRunning}]
  /\ modelAge \in [Repos -> 0 .. Cap]
  /\ events \subseteq Event
  /\ \A d \in list.rows \cup list.dropped : d.repo \in Repos
  /\ listAge \in Nat /\ weekday \in 0 .. WeekLength - 1 /\ drained \subseteq {"this", "last"}
  /\ reviewed \subseteq Repos

\* Every repository of the inventory, audited or not, is in the worklist or among
\* what the budget dropped, and an event that is queued has its row in the worklist.
NothingIsDropped ==
  list # NoList =>
    /\ \A r \in Repos : \E d \in list.rows \cup list.dropped : d.repo = r
    /\ \A h \in list.honored : h.queued =>
         \E d \in list.rows : d.repo = h.event.repo /\ d.source = h.event.source

\* Whatever was pushed since the commit an audit read, the next run takes the
\* repository for changed, on the day of the audit as well.
ChangeIsSeen == \A r \in audited : diff[r] # {} => Changed(r)

\* A row in a diff lane is not one the resolver refuses for a comparison that was
\* cut off, and only rows that stay in a diff lane carry a companion.
DiffRowsCanRun ==
  \A d \in list.rows :
    /\ d.lane \in DiffLanes => "wide" \notin d.seen
    /\ d.pr => d.lane \in DiffLanes

\* What the budget drops is no operator's request, and no row of the table that
\* is kept has a lower tier.
BudgetSparesTheRisky ==
  \A d \in list.dropped :
    /\ d.source = "none"
    /\ \A k \in Fulls(list.rows) : k.source = "none" => TierRank(k.tier) <= TierRank(d.tier)

\* An assurance that has decayed: none at all, a change too large for any diff
\* scan, or an audit above its ceiling where no smaller change is known.
Tier0(r) == IF Live[r] >= P0Live THEN "P0" ELSE "P1"

Decayed(r) ==
  \/ r \notin audited
  \/ Host[r] # "other" /\ "bulk" \in diff[r]
  \/ /\ Live[r] >= 1 /\ age[r] > Ceiling[Tier0(r)]
     /\ Host[r] = "other" \/ diff[r] = {}

DecayIsAudited == \A r \in Repos : Decayed(r) ~> ~Decayed(r)

\* "the backstop's whole point is that every model is revisited once per quarter"
EveryModelIsRevisited ==
  \A r \in Modelled \cap Audited0 : modelAge[r] >= StaleDays ~> r \in reviewed

-----------------------------------------------------------------------------
(* What the documentation says and the code does not keep.                 *)

IsDeferred(rows, r) == \E d \in rows : d.repo = r /\ d.status = "quota-deferred"

\* "the next daily run classifies them -- convergence within a day"
DeferredAreClassifiedNext ==
  [][(\E n \in Conditions : Route(n)) =>
       \A r \in Repos : IsDeferred(list.rows, r) => ~IsDeferred(list'.rows, r)]_vars

\* "rule-4 ceilings bound how long they can wait"
CeilingsBoundTheWait ==
  \A d \in list.rows :
    d.rule \in {"rule-3", "rule-5"} /\ listAge = 0 =>
      d.lane \in FullLanes \/ d.tier = "P3" \/ age[d.repo] <= Ceiling[d.tier]

\* "the cloud-config lane runs REGARDLESS of what the table picked"
IacRidesAlong ==
  \A d \in list.rows : "iac" \in d.seen /\ d.status = "ok" =>
    \E x \in list.rows : x.repo = d.repo /\ x.lane \in {"iac-lane", "iac-baseline"}
=============================================================================
