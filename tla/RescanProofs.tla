---------------------------- MODULE RescanProofs ----------------------------
(* Proofs about Rescan: that a change is seen by the next run, and that the  *)
(* passes of a run lose no repository and no request.                        *)
EXTENDS Rescan, FiniteSetTheorems, TLAPS

\* A row is a record of these fields, whatever they hold.
Fields == {"repo", "rule", "lane", "tier", "source", "expo", "seen", "status", "tm", "pr"}

IsRow(d) == d = [x \in Fields |-> d[x]]

\* A record with a row's fields is a row.
LEMMA BuiltRow ==
  ASSUME NEW a, NEW b, NEW c, NEW d, NEW e, NEW f, NEW g, NEW h, NEW i, NEW j
  PROVE  IsRow([repo |-> a, rule |-> b, lane |-> c, tier |-> d, source |-> e, expo |-> f,
                seen |-> g, status |-> h, tm |-> i, pr |-> j])
  BY DEF IsRow, Fields

-----------------------------------------------------------------------------
(* The passes over the rows change lanes, rules and companions only.        *)

Alike(d, e) == e.repo = d.repo /\ e.source = d.source

Kept(S, T) ==
  /\ \A d \in T : IsRow(d)
  /\ \A d \in S : \E e \in T : Alike(d, e)
  /\ \A e \in T : \E d \in S : Alike(d, e)

\* One pass after another keeps what each of them keeps.
LEMMA KeptTwice ==
  ASSUME NEW S, NEW T, NEW U, Kept(S, T), Kept(T, U)
  PROVE  Kept(S, U)
<1>1. ASSUME NEW d \in S PROVE \E e \in U : Alike(d, e)
  <2>1. PICK m \in T : Alike(d, m)
    BY DEF Kept
  <2>2. PICK e \in U : Alike(m, e)
    BY DEF Kept
  <2> QED BY <2>1, <2>2 DEF Alike
<1>2. ASSUME NEW e \in U PROVE \E d \in S : Alike(d, e)
  <2>1. PICK m \in T : Alike(m, e)
    BY DEF Kept
  <2>2. PICK d \in S : Alike(d, m)
    BY DEF Kept
  <2> QED BY <2>1, <2>2 DEF Alike
<1> QED BY <1>1, <1>2 DEF Kept

\* run_tripwire changes a row's lane and rule, nothing later passes read.
LEMMA TripwireKeeps ==
  ASSUME NEW rows, \A d \in rows : IsRow(d), NEW n
  PROVE  Kept(rows, Tripwire(rows, n))
<1> DEFINE P    == Tripped(rows, n)
           F(d) == [d EXCEPT !.lane = "diff-scan", !.rule = "tripwire"]
<1>1. P \subseteq rows
  BY DEF Tripped, Allowed, BelowThreshold
<1>2. \A d \in P : IsRow(F(d)) /\ Alike(d, F(d))
  <2> SUFFICES ASSUME NEW d \in P PROVE IsRow(F(d)) /\ Alike(d, F(d))
    OBVIOUS
  <2>1. IsRow(d)
    BY <1>1
  <2>2. DOMAIN d = Fields
    BY <2>1 DEF IsRow
  <2>3. IsRow(F(d))
    BY <2>2 DEF IsRow, Fields
  <2>4. F(d).repo = d.repo /\ F(d).source = d.source
    BY <2>2 DEF Fields
  <2> QED BY <2>3, <2>4 DEF Alike
<1>3. Tripwire(rows, n) = (rows \ P) \cup {F(d) : d \in P}
  BY DEF Tripwire
<1> HIDE DEF P, F
<1>4. \A d \in Tripwire(rows, n) : IsRow(d)
  BY <1>2, <1>3
<1>5. \A d \in rows : \E e \in Tripwire(rows, n) : Alike(d, e)
  BY <1>2, <1>3 DEF Alike
<1>6. \A e \in Tripwire(rows, n) : \E d \in rows : Alike(d, e)
  BY <1>1, <1>2, <1>3 DEF Alike
<1> QED BY <1>4, <1>5, <1>6 DEF Kept

\* Sending a row to a full audit loses none.
LEMMA FullInsteadKeeps ==
  ASSUME NEW rows, \A d \in rows : IsRow(d), NEW picked \in SUBSET rows
  PROVE  Kept(rows, FullInstead(rows, picked))
<1> DEFINE F(d) == [d EXCEPT !.lane = "full-audit"]
<1>1. \A d \in picked : IsRow(F(d)) /\ Alike(d, F(d))
  <2> SUFFICES ASSUME NEW d \in picked PROVE IsRow(F(d)) /\ Alike(d, F(d))
    OBVIOUS
  <2>1. DOMAIN d = Fields
    BY DEF IsRow
  <2> QED BY <2>1 DEF IsRow, Fields, Alike
<1>2. FullInstead(rows, picked) = (rows \ picked) \cup {F(d) : d \in picked}
  BY DEF FullInstead
<1> HIDE DEF F
<1>3. \A d \in FullInstead(rows, picked) : IsRow(d)
  BY <1>1, <1>2
<1>4. \A d \in rows : \E e \in FullInstead(rows, picked) : Alike(d, e)
  BY <1>1, <1>2 DEF Alike
<1>5. \A e \in FullInstead(rows, picked) : \E d \in rows : Alike(d, e)
  BY <1>1, <1>2 DEF Alike
<1> QED BY <1>3, <1>4, <1>5 DEF Kept

\* run_preroute loses and invents no row.
LEMMA PrerouteKeeps ==
  ASSUME NEW rows, \A d \in rows : IsRow(d), NEW n
  PROVE  Kept(rows, Preroute(rows, n))
<1> DEFINE narrow == FullInstead(rows, Truncated(rows))
<1>1. Kept(rows, narrow)
  BY FullInsteadKeeps DEF Truncated
<1>2. TooLarge(narrow, n) \subseteq narrow
  BY DEF TooLarge, Imminent, InPool
<1>3. Kept(narrow, FullInstead(narrow, TooLarge(narrow, n)))
  <2> HIDE DEF narrow
  <2> QED BY <1>1, <1>2, FullInsteadKeeps DEF Kept
<1> QED BY <1>1, <1>3, KeptTwice DEF Preroute

\* stamp_threat_model_pr loses and invents no row.
LEMMA StampedKeeps ==
  ASSUME NEW rows, \A d \in rows : IsRow(d)
  PROVE  Kept(rows, Stamped(rows))
<1> DEFINE F(d) == [d EXCEPT !.pr = d.lane \in DiffLanes /\ "sensitive" \in d.seen
                                      /\ d.repo \in Modelled]
<1>1. \A d \in rows : IsRow(F(d)) /\ Alike(d, F(d))
  <2> SUFFICES ASSUME NEW d \in rows PROVE IsRow(F(d)) /\ Alike(d, F(d))
    OBVIOUS
  <2>1. DOMAIN d = Fields
    BY DEF IsRow
  <2> QED BY <2>1 DEF IsRow, Fields, Alike
<1>2. Stamped(rows) = {F(d) : d \in rows}
  BY DEF Stamped
<1> HIDE DEF F
<1> QED BY <1>1, <1>2 DEF Kept

\* Nor do the three passes together.
LEMMA VettedKeeps ==
  ASSUME NEW rows, \A d \in rows : IsRow(d), NEW n
  PROVE  Kept(rows, Vetted(rows, n))
<1>1. Kept(rows, Tripwire(rows, n))
  BY TripwireKeeps
<1>2. Kept(Tripwire(rows, n), Preroute(Tripwire(rows, n), n))
  BY <1>1, PrerouteKeeps DEF Kept
<1>3. Kept(Preroute(Tripwire(rows, n), n), Vetted(rows, n))
  BY <1>2, StampedKeeps DEF Kept, Vetted
<1> QED BY <1>1, <1>2, <1>3, KeptTwice
-----------------------------------------------------------------------------
(* The worklist of a run.                                                   *)

Passed(n) == TableRows(n) \cup IacRows(n) \cup CompanionRows(n) \cup BootstrapRows \cup ModelRows(n)

\* What goes into the passes is made of rows.
LEMMA PassedAreRows ==
  ASSUME NEW n
  PROVE  \A d \in Passed(n) : IsRow(d)
<1>1. \A r, rule, lane, tier, source : IsRow(Row(n, r, rule, lane, tier, source))
  BY BuiltRow DEF Row
<1>2. \A r : IsRow(BootstrapRow(r))
  BY BuiltRow DEF BootstrapRow
<1> QED BY <1>1, <1>2 DEF Passed, TableRows, IacRows, CompanionRows, BootstrapRows, ModelRows,
                          Additive

\* Where a row is from: its repository and its source.
LEMMA RowFrom ==
  ASSUME NEW n, NEW r, NEW rule, NEW lane, NEW tier, NEW source
  PROVE  LET d == Row(n, r, rule, lane, tier, source) IN d.repo = r /\ d.source = source
BY DEF Row

\* An audited repository has its row in the table or the row of a queued event.
LEMMA EveryRepoIsDecided ==
  ASSUME TypeOK, NEW n, NEW r \in Repos
  PROVE  \E d \in Decisions(n) : d.repo = r
<1> DEFINE V == Vetted(Passed(n), n)
<1>1. Kept(Passed(n), V)
  BY PassedAreRows, VettedKeeps
<1>2. Decisions(n) = EventRows(n) \cup ReviewRows(n) \cup V
  BY DEF Decisions, Passed
<1> HIDE DEF V
<1>3. CASE r \in Superseded(n)
  <2>1. PICK ev \in Queued(n) : ev.repo = r
    BY <1>3 DEF Superseded
  <2>2. Row(n, ev.repo, "rule-1", LaneOfEvent(n, ev), RiskTier(n, ev.repo), ev.source)
          \in EventRows(n)
    BY DEF EventRows
  <2> QED BY <1>2, <2>1, <2>2, RowFrom
<1>4. CASE r \notin Superseded(n)
  <2>1. \E d \in Passed(n) : d.repo = r
    <3>1. CASE r \in audited
      <4>1. Row(n, r, TableRule(n, r), TableLane(n, r), RiskTier(n, r), "none") \in Passed(n)
        BY <1>4, <3>1 DEF Passed, TableRows
      <4> QED BY <4>1, RowFrom
    <3>2. CASE r \notin audited
      <4>1. BootstrapRow(r) \in Passed(n)
        BY <3>2 DEF Passed, BootstrapRows
      <4> QED BY <4>1 DEF BootstrapRow
    <3> QED BY <3>1, <3>2
  <2> QED BY <1>1, <1>2, <2>1 DEF Kept, Alike
<1> QED BY <1>3, <1>4

\* A queued event has its row among the decisions.
LEMMA EveryRequestIsDecided ==
  ASSUME NEW n, NEW ev \in Queued(n)
  PROVE  \E d \in Decisions(n) : d.repo = ev.repo /\ d.source = ev.source
<1>1. Row(n, ev.repo, "rule-1", LaneOfEvent(n, ev), RiskTier(n, ev.repo), ev.source)
        \in EventRows(n)
  BY DEF EventRows
<1> QED BY <1>1, RowFrom DEF Decisions

\* Decisions are about repositories of the inventory.
LEMMA DecisionsAreOfRepos ==
  ASSUME TypeOK, NEW n
  PROVE  \A d \in Decisions(n) : d.repo \in Repos
<1> DEFINE V == Vetted(Passed(n), n)
<1>1. Kept(Passed(n), V)
  BY PassedAreRows, VettedKeeps
<1>2. audited \subseteq Repos /\ \A ev \in events : Baselined(ev.repo) => ev.repo \in Repos
  BY DEF TypeOK, Baselined
<1>3. \A d \in Passed(n) : d.repo \in Repos
  <2>1. \A d \in TableRows(n) \cup IacRows(n) \cup CompanionRows(n) \cup ModelRows(n) : d.repo \in audited
    BY RowFrom DEF TableRows, IacRows, CompanionRows, ModelRows, Additive, StaleModels
  <2>2. \A d \in BootstrapRows : d.repo \in Repos
    BY DEF BootstrapRows, BootstrapRow
  <2> QED BY <1>2, <2>1, <2>2 DEF Passed
<1>4. \A d \in EventRows(n) \cup ReviewRows(n) : d.repo \in Repos
  BY <1>2, RowFrom DEF EventRows, ReviewRows, Queued, Targeted, ToReview
<1>5. \A d \in V : d.repo \in Repos
  BY <1>1, <1>3 DEF Kept, Alike
<1> QED BY <1>4, <1>5 DEF Decisions, Passed

-----------------------------------------------------------------------------
(* No row that stays in a diff lane would be refused for a cut-off comparison. *)

RunnableRow(d) ==
  /\ d.lane \in DiffLanes => "wide" \notin d.seen
  /\ d.pr => d.lane \in DiffLanes

\* A row sent to a full audit has left the diff lanes.
LEMMA FullInsteadLane ==
  ASSUME NEW d, IsRow(d)
  PROVE  [d EXCEPT !.lane = "full-audit"].lane \notin DiffLanes
<1>1. DOMAIN d = Fields
  BY DEF IsRow
<1>2. [d EXCEPT !.lane = "full-audit"].lane = "full-audit"
  BY <1>1 DEF Fields
<1> QED BY <1>2 DEF DiffLanes

\* After the pre-route no comparison in a diff lane is cut off.
LEMMA PrerouteNarrows ==
  ASSUME NEW rows, \A d \in rows : IsRow(d), NEW n, NEW d \in Preroute(rows, n), d.lane \in DiffLanes
  PROVE  "wide" \notin d.seen
<1> DEFINE narrow == FullInstead(rows, Truncated(rows))
           large  == TooLarge(narrow, n)
<1>1. \A e \in narrow : e.lane \in DiffLanes => "wide" \notin e.seen
  BY FullInsteadLane DEF FullInstead, Truncated
<1>2. \A e \in narrow : IsRow(e)
  BY FullInsteadKeeps DEF Truncated, Kept
<1>3. large \subseteq narrow
  BY DEF TooLarge, Imminent, InPool
<1>4. d \in FullInstead(narrow, large)
  BY DEF Preroute
<1> HIDE DEF narrow, large
<1>5. d \in narrow
  BY <1>2, <1>3, <1>4, FullInsteadLane DEF FullInstead
<1> QED BY <1>1, <1>5

\* After all passes a row in a diff lane can run.
LEMMA VettedAreRunnable ==
  ASSUME NEW rows, \A d \in rows : IsRow(d), NEW n, NEW e \in Vetted(rows, n)
  PROVE  RunnableRow(e)
<1> DEFINE T == Preroute(Tripwire(rows, n), n)
<1>1. \A d \in Tripwire(rows, n) : IsRow(d)
  BY TripwireKeeps DEF Kept
<1>2. \A d \in T : IsRow(d) /\ (d.lane \in DiffLanes => "wide" \notin d.seen)
  BY <1>1, PrerouteKeeps, PrerouteNarrows DEF Kept
<1>3. e \in Stamped(T)
  BY DEF Vetted
<1> HIDE DEF T
<1>4. PICK d \in T : e = [d EXCEPT !.pr = d.lane \in DiffLanes /\ "sensitive" \in d.seen
                                             /\ d.repo \in Modelled]
  BY <1>3 DEF Stamped
<1>5. DOMAIN d = Fields
  BY <1>2 DEF IsRow
<1>6. e.lane = d.lane /\ e.seen = d.seen
  BY <1>4, <1>5 DEF Fields
<1>7. e.pr = (d.lane \in DiffLanes /\ "sensitive" \in d.seen /\ d.repo \in Modelled)
  BY <1>4, <1>5 DEF Fields
<1> QED BY <1>2, <1>6, <1>7 DEF RunnableRow

\* Events never go to a diff lane.
LEMMA DecisionsAreRunnable ==
  ASSUME NEW n
  PROVE  \A d \in Decisions(n) : RunnableRow(d)
<1>1. \A r, rule, lane, tier, source :
        LET d == Row(n, r, rule, lane, tier, source) IN d.lane = lane /\ d.pr = FALSE
  BY DEF Row
<1>2. \A ev : LaneOfEvent(n, ev) \notin DiffLanes
  BY DEF LaneOfEvent, EventLane, DiffLanes
<1>3. \A d \in EventRows(n) : RunnableRow(d)
  BY <1>1, <1>2 DEF EventRows, RunnableRow
<1>4. \A d \in ReviewRows(n) : RunnableRow(d)
  BY <1>1 DEF ReviewRows, RunnableRow, DiffLanes
<1>5. \A d \in Vetted(Passed(n), n) : RunnableRow(d)
  BY PassedAreRows, VettedAreRunnable
<1> QED BY <1>3, <1>4, <1>5 DEF Decisions, Passed

\* The budget gives up no request.
LEMMA DroppedAreNoRequests ==
  ASSUME NEW rows, NEW budget
  PROVE  \A d \in Dropped(rows, budget) : d \in rows /\ d.source = "none"
BY DEF Dropped, Droppable, Fulls

\* What a run leaves has the properties, the budget's cut included.
LEMMA WorklistIsComplete ==
  ASSUME TypeOK, NEW n, list' = Worklist(n)
  PROVE  /\ NothingIsDropped' /\ DiffRowsCanRun'
         /\ \A d \in list'.rows \cup list'.dropped : d.repo \in Repos
<1> DEFINE D == Decisions(n)
           G == Dropped(D, n.budget)
<1>1. list' = [rows |-> D \ G, dropped |-> G, honored |-> Honored(n), met |-> {n}]
  BY DEF Worklist
<1>2. list'.rows = D \ G /\ list'.dropped = G /\ list'.honored = Honored(n)
  <2> HIDE DEF D, G
  <2> QED BY <1>1
<1>3. \A d \in G : d \in D /\ d.source = "none"
  BY DroppedAreNoRequests
<1>4. \A r \in Repos : \E d \in D : d.repo = r
  BY EveryRepoIsDecided
<1>5. \A ev \in Queued(n) : ev.source # "none" /\ \E d \in D : d.repo = ev.repo /\ d.source = ev.source
  <2>1. \A ev \in Queued(n) : ev \in Event
    BY DEF TypeOK, Queued, Targeted
  <2>2. \A ev \in Event : ev.source # "none"
    BY DEF Event, AllSources
  <2> QED BY <2>1, <2>2, EveryRequestIsDecided
<1>6. \A d \in D : d.repo \in Repos
  BY DecisionsAreOfRepos
<1>10. \A d \in D : RunnableRow(d)
  BY DecisionsAreRunnable
<1> HIDE DEF D, G
<1>7. \A h \in Honored(n) : h.queued => h.event \in Queued(n)
  <2> SUFFICES ASSUME NEW h \in Honored(n), h.queued PROVE h.event \in Queued(n)
    OBVIOUS
  <2>1. PICK ev \in events : h = [event |-> ev, queued |-> ev \in Queued(n)]
    BY Zenon DEF Honored
  <2>2. h.event = ev /\ h.queued = (ev \in Queued(n))
    BY <2>1, Zenon
  <2> QED BY <2>2, Zenon
<1>8. \A r \in Repos : \E d \in list'.rows \cup list'.dropped : d.repo = r
  BY <1>2, <1>3, <1>4
<1>9. \A h \in list'.honored : h.queued =>
         \E d \in list'.rows : d.repo = h.event.repo /\ d.source = h.event.source
  BY <1>2, <1>3, <1>5, <1>7
<1>11. DiffRowsCanRun'
  BY <1>2, <1>10 DEF DiffRowsCanRun, RunnableRow
<1> QED BY <1>2, <1>3, <1>6, <1>8, <1>9, <1>11 DEF NothingIsDropped

-----------------------------------------------------------------------------
(* The invariant: types, and that a push during an audit is of today.       *)

PushedToday ==
  \A r \in Repos : audit[r] # NotRunning /\ audit[r] # {} => quiet[r] = 0

IInv ==
  /\ TypeOK
  /\ NothingIsDropped /\ DiffRowsCanRun
  /\ ~Overnight => PushedToday /\ ChangeIsSeen

\* Days are counted up to the cap, and counting keeps their order.
LEMMA Days ==
  /\ Cap \in Nat /\ MaxListAge \in Nat /\ WeekLength \in Nat /\ WeekLength # 0
  /\ \A d \in 0 .. Cap : OlderBy1(d) \in 0 .. Cap
  /\ \A d, e \in 0 .. Cap : d <= e => OlderBy1(d) <= OlderBy1(e)
BY NumbersAssumption DEF OlderBy1

\* The mark of no running audit is not a set of changes.
LEMMA NotRunningIsNoChange == NotRunning \notin SUBSET ChangeKinds
<1>1. "not running" \notin ChangeKinds
  BY DEF ChangeKinds, Contents, Traits
<1> QED BY <1>1 DEF NotRunning

\* Before the first run there is no row.
LEMMA NoListIsEmpty ==
  NoList.rows = {} /\ NoList.dropped = {}
BY DEF NoList

\* The invariant holds at the start.
LEMMA InitOK == Init => IInv
<1> SUFFICES ASSUME Init PROVE IInv
  OBVIOUS
<1> USE DEF Init
<1>1. TypeOK
  <2>1. pinned \subseteq audited /\ audited \subseteq Repos
    BY SetsAssumption
  <2>2. /\ age \in [Repos -> 0 .. Cap] /\ quiet \in [Repos -> 0 .. Cap + 1]
        /\ modelAge \in [Repos -> 0 .. Cap]
    BY Days
  <2>3. diff \in [Repos -> SUBSET ChangeKinds]
    OBVIOUS
  <2>4. audit \in [Repos -> (SUBSET ChangeKinds) \cup {NotRunning}]
    OBVIOUS
  <2>5. \A d \in list.rows \cup list.dropped : d.repo \in Repos
    BY NoListIsEmpty
  <2>6. weekday \in 0 .. WeekLength - 1
    BY Days
  <2> QED BY <2>1, <2>2, <2>3, <2>4, <2>5, <2>6 DEF TypeOK
<1>2. PushedToday
  BY DEF PushedToday
<1>3. ChangeIsSeen
  BY SetsAssumption DEF ChangeIsSeen
<1>4. NothingIsDropped /\ DiffRowsCanRun
  BY NoListIsEmpty DEF NothingIsDropped, DiffRowsCanRun
<1> QED BY <1>1, <1>2, <1>3, <1>4 DEF IInv

\* The rest of the invariant is about the worklist, which only a run writes.
LEMMA ListStays ==
  ASSUME NothingIsDropped /\ DiffRowsCanRun, UNCHANGED list
  PROVE  NothingIsDropped' /\ DiffRowsCanRun'
BY DEF NothingIsDropped, DiffRowsCanRun

\* A run of the router keeps the invariant.
LEMMA RouteOK ==
  ASSUME IInv, NEW n \in Conditions, Route(n)
  PROVE  IInv'
<1> USE DEF IInv, Route, env
<1>1. NothingIsDropped' /\ DiffRowsCanRun' /\ \A d \in list'.rows \cup list'.dropped : d.repo \in Repos
  BY WorklistIsComplete
<1>2. TypeOK'
  BY <1>1 DEF TypeOK
<1>3. ~Overnight => PushedToday' /\ ChangeIsSeen'
  BY DEF PushedToday, ChangeIsSeen, Changed
<1> QED BY <1>1, <1>2, <1>3

\* So does a tranche, which reads the worklist and writes only itself.
LEMMA EmitTrancheOK ==
  ASSUME IInv, EmitTranche
  PROVE  IInv'
<1> USE DEF IInv, EmitTranche, env
<1>1. TypeOK'
  <2>1. WeekOfList \in {"this", "last"}
    BY DEF WeekOfList
  <2>2. Tranche(list.rows) \subseteq list.rows
    BY DEF Tranche, DueOf, InPool, ModelPool
  <2>3. reviewed' \subseteq Repos
    BY <2>2 DEF TypeOK
  <2> QED BY <2>1, <2>3 DEF TypeOK
<1>2. ~Overnight => PushedToday' /\ ChangeIsSeen'
  BY DEF PushedToday, ChangeIsSeen, Changed
<1> QED BY <1>1, <1>2, ListStays

\* A clone sees everything pushed so far.
LEMMA StartAuditOK ==
  ASSUME IInv, NEW d, StartAudit(d)
  PROVE  IInv'
<1> USE DEF IInv, StartAudit
<1>1. TypeOK'
  <2>1. events' \subseteq events
    BY DEF Remaining
  <2>2. audit' \in [Repos -> (SUBSET ChangeKinds) \cup {NotRunning}]
    BY DEF TypeOK
  <2> QED BY <2>1, <2>2 DEF TypeOK
<1>2. ~Overnight => PushedToday'
  BY DEF PushedToday, TypeOK
<1>3. ~Overnight => ChangeIsSeen'
  BY DEF ChangeIsSeen, Changed
<1> QED BY <1>1, <1>2, <1>3, ListStays

\* The audit is dated today; what it did not read was pushed while it ran, so
\* today too.
LEMMA FinishAuditOK ==
  ASSUME IInv, NEW r \in Repos, FinishAudit(r)
  PROVE  IInv'
<1> USE DEF IInv, FinishAudit
<1>1. TypeOK'
  <2>1. audit[r] \in SUBSET ChangeKinds
    BY DEF TypeOK
  <2>2. age' \in [Repos -> 0 .. Cap] /\ diff' \in [Repos -> SUBSET ChangeKinds]
    BY <2>1, Days DEF TypeOK
  <2>3. audit' \in [Repos -> (SUBSET ChangeKinds) \cup {NotRunning}]
    BY DEF TypeOK
  <2>4. pinned' \subseteq audited' /\ audited' \subseteq Repos
    BY DEF TypeOK
  <2> QED BY <2>2, <2>3, <2>4 DEF TypeOK
<1>2. ~Overnight => PushedToday'
  BY DEF PushedToday, TypeOK
<1>3. ASSUME ~Overnight PROVE ChangeIsSeen'
  <2> SUFFICES ASSUME NEW q \in audited', diff'[q] # {} PROVE quiet'[q] <= age'[q]
    BY DEF ChangeIsSeen, Changed
  <2>1. CASE q = r
    <3>1. diff'[r] = audit[r] /\ age'[r] = 0
      BY DEF TypeOK
    <3> QED BY <1>3, <2>1, <3>1 DEF PushedToday
  <2>2. CASE q # r
    <3>1. q \in audited /\ q \in Repos
      BY <2>2 DEF TypeOK
    <3>2. diff'[q] = diff[q] /\ age'[q] = age[q] /\ quiet'[q] = quiet[q]
      BY <2>2, <3>1 DEF TypeOK
    <3> QED BY <1>3, <3>1, <3>2 DEF ChangeIsSeen, Changed
  <2> QED BY <2>1, <2>2
<1> QED BY <1>1, <1>2, <1>3, ListStays

\* Steps that touch no date.
LEMMA OthersOK ==
  ASSUME IInv,
         \/ \E d \in list.rows : PassOn(d)
         \/ \E r \in Repos : Remodel(r)
         \/ \E ev \in Injections : Inject(ev)
  PROVE  IInv'
<1> USE DEF IInv, env
<1>1. CASE \E d \in list.rows : PassOn(d)
  <2>1. events' \subseteq events
    BY <1>1 DEF PassOn, Remaining
  <2>2. TypeOK' /\ (~Overnight => PushedToday' /\ ChangeIsSeen')
    BY <1>1, <2>1 DEF PassOn, TypeOK, PushedToday, ChangeIsSeen, Changed
  <2> QED BY <1>1, <2>2, ListStays DEF PassOn
<1>2. CASE \E r \in Repos : Remodel(r)
  <2>1. modelAge' \in [Repos -> 0 .. Cap] /\ reviewed' \subseteq Repos
    BY <1>2, Days DEF Remodel, TypeOK
  <2>2. TypeOK' /\ (~Overnight => PushedToday' /\ ChangeIsSeen')
    BY <1>2, <2>1 DEF Remodel, TypeOK, PushedToday, ChangeIsSeen, Changed
  <2> QED BY <1>2, <2>2, ListStays DEF Remodel
<1>3. CASE \E ev \in Injections : Inject(ev)
  <2>1. events' \subseteq Event
    BY <1>3, SetsAssumption DEF Inject, TypeOK
  <2>2. TypeOK' /\ (~Overnight => PushedToday' /\ ChangeIsSeen')
    BY <1>3, <2>1 DEF Inject, TypeOK, PushedToday, ChangeIsSeen, Changed
  <2> QED BY <1>3, <2>2, ListStays DEF Inject
<1> QED BY <1>1, <1>2, <1>3

\* A push dates the repository by today, for its running audit as well.
LEMMA PushOK ==
  ASSUME IInv, NEW p \in Pushes, Push(p)
  PROVE  IInv'
<1> USE DEF IInv, Push
<1>0. p.repo \in Repos /\ p.change \in SUBSET ChangeKinds
  BY SetsAssumption
<1>1. TypeOK'
  <2>1. quiet' \in [Repos -> 0 .. Cap + 1] /\ diff' \in [Repos -> SUBSET ChangeKinds]
    BY <1>0, Days DEF TypeOK
  <2>2. audit' \in [Repos -> (SUBSET ChangeKinds) \cup {NotRunning}]
    BY <1>0 DEF TypeOK
  <2> QED BY <2>1, <2>2 DEF TypeOK
<1>2. quiet'[p.repo] = 0
  BY <1>0 DEF TypeOK
<1>3. \A q \in Repos : q # p.repo => quiet'[q] = quiet[q] /\ diff'[q] = diff[q] /\ audit'[q] = audit[q]
  BY DEF TypeOK
<1>4. ~Overnight => PushedToday'
  BY <1>2, <1>3 DEF PushedToday
<1>5. ASSUME ~Overnight PROVE ChangeIsSeen'
  <2>1. \A q \in audited : q \in Repos /\ age[q] \in 0 .. Cap
    BY DEF TypeOK
  <2> QED BY <1>2, <1>3, <1>5, <2>1, Days DEF ChangeIsSeen, Changed
<1> QED BY <1>1, <1>4, <1>5, ListStays

\* No audit runs past midnight, and a day more keeps the order of the two ages.
LEMMA NewDayOK ==
  ASSUME IInv, NewDay
  PROVE  IInv'
<1> USE DEF IInv, NewDay
<1>1. \A r \in Repos : QuieterBy1(r) \in 0 .. Cap + 1
  BY Days DEF QuieterBy1, OlderBy1, TypeOK
<1>2. TypeOK'
  <2>1. age' \in [Repos -> 0 .. Cap] /\ modelAge' \in [Repos -> 0 .. Cap]
    BY Days DEF TypeOK
  <2>2. quiet' \in [Repos -> 0 .. Cap + 1]
    BY <1>1
  <2>3. listAge' \in Nat /\ weekday' \in 0 .. WeekLength - 1
    BY Days DEF TypeOK
  <2>4. drained' \subseteq {"this", "last"}
    BY DEF TypeOK
  <2> QED BY <2>1, <2>2, <2>3, <2>4 DEF TypeOK
<1>3. ~Overnight => PushedToday'
  BY DEF PushedToday
<1>4. ASSUME ~Overnight PROVE ChangeIsSeen'
  <2> SUFFICES ASSUME NEW r \in audited, diff[r] # {} PROVE quiet'[r] <= age'[r]
    BY DEF ChangeIsSeen, Changed
  <2>1. r \in Repos /\ age[r] \in 0 .. Cap /\ quiet[r] \in 0 .. Cap + 1
    BY DEF TypeOK
  <2>2. Changed(r)
    BY <1>4 DEF ChangeIsSeen
  <2>3. age'[r] = OlderBy1(age[r]) /\ quiet'[r] = OlderBy1(quiet[r])
    BY <2>1, <2>2 DEF QuieterBy1
  <2>4. quiet[r] <= age[r] /\ quiet[r] \in 0 .. Cap
    BY <2>1, <2>2, Days DEF Changed
  <2> QED BY <2>1, <2>3, <2>4, Days
<1> QED BY <1>2, <1>3, <1>4, ListStays

\* The invariant is inductive.
LEMMA StepOK == IInv /\ [Next]_vars => IInv'
<1> SUFFICES ASSUME IInv, [Next]_vars PROVE IInv'
  OBVIOUS
<1>1. CASE \E n \in Conditions : Route(n)
  BY <1>1, RouteOK
<1>2. CASE EmitTranche
  BY <1>2, EmitTrancheOK
<1>3. CASE \E d \in list.rows : StartAudit(d)
  BY <1>3, StartAuditOK
<1>4. CASE \E r \in Repos : FinishAudit(r)
  BY <1>4, FinishAuditOK
<1>5. CASE \/ \E d \in list.rows : PassOn(d)
           \/ \E r \in Repos : Remodel(r)
           \/ \E ev \in Injections : Inject(ev)
  BY <1>5, OthersOK
<1>6. CASE \E p \in Pushes : Push(p)
  BY <1>6, PushOK
<1>7. CASE NewDay
  BY <1>7, NewDayOK
<1>8. CASE UNCHANGED vars
  BY <1>8 DEF vars, env, IInv, TypeOK, NothingIsDropped, DiffRowsCanRun, PushedToday, ChangeIsSeen, Changed
<1> QED BY <1>1, <1>2, <1>3, <1>4, <1>5, <1>6, <1>7, <1>8 DEF Next

\* Worklists stay complete and runnable, and what was pushed behind an audit is datable
\* by days, in every reachable state of the router and its surroundings.
THEOREM Invariance == Spec => []IInv
BY InitOK, StepOK, PTL DEF Spec

\* The rows of every worklist name repositories of the inventory.
THEOREM TypeCorrect == Spec => []TypeOK
<1>1. IInv => TypeOK
  BY DEF IInv
<1> QED BY <1>1, Invariance, PTL

\* Whatever a run meets and whatever its budget, every repository and every
\* queued event is in the worklist or the repository in what the budget gave up.
THEOREM NothingIsEverDropped == Spec => []NothingIsDropped
<1>1. IInv => NothingIsDropped
  BY DEF IInv
<1> QED BY <1>1, Invariance, PTL

\* A row of a diff lane was vetted after the last pass that could put it there, and
\* only such a row carries a companion.
THEOREM DiffRowsAreRunnable == Spec => []DiffRowsCanRun
<1>1. IInv => DiffRowsCanRun
  BY DEF IInv
<1> QED BY <1>1, Invariance, PTL

\* Where no audit runs past midnight, comparing days hides no push.
THEOREM ChangesAreSeen ==
  ASSUME ~Overnight
  PROVE  Spec => []ChangeIsSeen
<1>1. IInv => ChangeIsSeen
  BY DEF IInv
<1> QED BY <1>1, Invariance, PTL

-----------------------------------------------------------------------------
(* What the budget gives up.  A row's place among the rows is a count, so    *)
(* the argument needs that a worklist is finite, and that the digits of a    *)
(* drop key do not carry.                                                    *)

\* The values of a function on a finite set are finitely many.
LEMMA FiniteImage ==
  ASSUME NEW S, IsFiniteSet(S), NEW f, f = [x \in S |-> f[x]]
  PROVE  IsFiniteSet({f[x] : x \in S})
<1> DEFINE T == {f[x] : x \in S}
<1>1. f \in [S -> T]
  OBVIOUS
<1>2. \A t \in T : \E s \in S : f[s] = t
  OBVIOUS
<1> HIDE DEF T
<1>3. f \in Surjection(S, T)
  BY <1>1, <1>2 DEF Surjection
<1>4. IsFiniteSet(T)
  BY <1>3, FS_Surjection
<1> QED BY <1>4 DEF T

LEMMA ReposAreFinite ==
  /\ IsFiniteSet(Repos) /\ Len(Order) \in Nat
  /\ \A r \in Repos : Pos(r) \in 1 .. Len(Order)
<1>1. Len(Order) \in Nat /\ DOMAIN Order = 1 .. Len(Order) /\ Order = [i \in DOMAIN Order |-> Order[i]]
  BY OrderAssumption
<1>2. IsFiniteSet(DOMAIN Order)
  <2>1. 1 \in Int /\ Len(Order) \in Int
    BY <1>1
  <2>2. IsFiniteSet(1 .. Len(Order))
    BY <2>1, FS_Interval
  <2> QED BY <1>1, <2>2
<1>3. IsFiniteSet(Repos)
  BY <1>1, <1>2, FiniteImage DEF Repos
<1>4. ASSUME NEW r \in Repos PROVE Pos(r) \in 1 .. Len(Order)
  <2>1. \E i \in DOMAIN Order : Order[i] = r
    BY DEF Repos
  <2> QED BY <1>1, <2>1 DEF Pos
<1> QED BY <1>1, <1>3, <1>4

LEMMA EventsAreFinite ==
  ASSUME TypeOK
  PROVE  IsFiniteSet(events) /\ IsFiniteSet(audited)
<1> DEFINE P == AllSources \X Repos
           f == [p \in P |-> [source |-> p[1], repo |-> p[2]]]
<1>1. IsFiniteSet(AllSources)
  <2>1. AllSources = {"external-report"} \cup ({"methodology"} \cup ({"cve"} \cup
                       ({"release"} \cup {"major-release"})))
    BY DEF AllSources
  <2>2. IsFiniteSet({"release"} \cup {"major-release"})
    BY FS_Singleton, FS_Union
  <2>3. IsFiniteSet({"cve"} \cup ({"release"} \cup {"major-release"}))
    BY <2>2, FS_Singleton, FS_Union
  <2>4. IsFiniteSet({"methodology"} \cup ({"cve"} \cup ({"release"} \cup {"major-release"})))
    BY <2>3, FS_Singleton, FS_Union
  <2> QED BY <2>1, <2>4, FS_Singleton, FS_Union
<1>2. IsFiniteSet(P)
  BY <1>1, ReposAreFinite, FS_Product
<1>3. IsFiniteSet({f[p] : p \in P})
  <2> HIDE DEF P
  <2>1. f = [p \in P |-> f[p]]
    OBVIOUS
  <2> HIDE DEF f
  <2> QED BY <1>2, <2>1, FiniteImage
<1>4. Event \subseteq {f[p] : p \in P}
  <2> SUFFICES ASSUME NEW ev \in Event PROVE \E p \in P : ev = f[p]
    OBVIOUS
  <2>1. <<ev.source, ev.repo>> \in P /\ ev = [source |-> ev.source, repo |-> ev.repo]
    BY DEF Event
  <2> QED BY <2>1
<1>5. events \subseteq {f[p] : p \in P}
  BY <1>4 DEF TypeOK
<1> HIDE DEF f, P
<1>6. IsFiniteSet(events)
  BY <1>3, <1>5, FS_Subset
<1> QED BY <1>6, ReposAreFinite, FS_Subset DEF TypeOK

\* The passes of a run multiply no row.
LEMMA PassesStayFinite ==
  ASSUME NEW rows, IsFiniteSet(rows), NEW n
  PROVE  IsFiniteSet(Vetted(rows, n))
<1>1. ASSUME NEW R, IsFiniteSet(R), NEW picked \in SUBSET R PROVE IsFiniteSet(FullInstead(R, picked))
  <2> DEFINE f == [d \in picked |-> [d EXCEPT !.lane = "full-audit"]]
  <2>1. IsFiniteSet(picked) /\ IsFiniteSet(R \ picked)
    BY <1>1, FS_Subset, FS_Difference
  <2>2. f = [d \in picked |-> f[d]]
    OBVIOUS
  <2>3. FullInstead(R, picked) = (R \ picked) \cup {f[d] : d \in picked}
    BY DEF FullInstead
  <2> HIDE DEF f
  <2>4. IsFiniteSet({f[d] : d \in picked})
    BY <2>1, <2>2, FiniteImage
  <2> QED BY <2>1, <2>3, <2>4, FS_Union
<1>2. IsFiniteSet(Tripwire(rows, n))
  <2> DEFINE P == Tripped(rows, n)
             f == [d \in P |-> [d EXCEPT !.lane = "diff-scan", !.rule = "tripwire"]]
  <2>1. P \subseteq rows
    BY DEF Tripped, Allowed, BelowThreshold
  <2>2. IsFiniteSet(P) /\ IsFiniteSet(rows \ P)
    BY <2>1, FS_Subset, FS_Difference
  <2>3. Tripwire(rows, n) = (rows \ P) \cup {f[d] : d \in P}
    BY DEF Tripwire
  <2>4. f = [d \in P |-> f[d]]
    OBVIOUS
  <2> HIDE DEF f, P
  <2>5. IsFiniteSet({f[d] : d \in P})
    BY <2>2, <2>4, FiniteImage
  <2> QED BY <2>2, <2>3, <2>5, FS_Union
<1>3. ASSUME NEW R, IsFiniteSet(R) PROVE IsFiniteSet(Preroute(R, n))
  <2> DEFINE narrow == FullInstead(R, Truncated(R))
  <2>1. IsFiniteSet(narrow)
    BY <1>1, <1>3 DEF Truncated
  <2>2. TooLarge(narrow, n) \subseteq narrow
    BY DEF TooLarge, Imminent, InPool
  <2>3. Preroute(R, n) = FullInstead(narrow, TooLarge(narrow, n))
    BY DEF Preroute
  <2> HIDE DEF narrow
  <2> QED BY <1>1, <2>1, <2>2, <2>3
<1>4. ASSUME NEW R, IsFiniteSet(R) PROVE IsFiniteSet(Stamped(R))
  <2> DEFINE f == [d \in R |-> [d EXCEPT !.pr = d.lane \in DiffLanes /\ "sensitive" \in d.seen
                                               /\ d.repo \in Modelled]]
  <2>1. Stamped(R) = {f[d] : d \in R}
    BY DEF Stamped
  <2>2. f = [d \in R |-> f[d]]
    OBVIOUS
  <2> HIDE DEF f
  <2> QED BY <1>4, <2>1, <2>2, FiniteImage
<1> QED BY <1>2, <1>3, <1>4 DEF Vetted

LEMMA DecisionsAreFinite ==
  ASSUME TypeOK, NEW n
  PROVE  IsFiniteSet(Decisions(n))
<1>0. IsFiniteSet(events) /\ IsFiniteSet(audited) /\ IsFiniteSet(Repos)
  BY EventsAreFinite, ReposAreFinite
<1>1. ASSUME NEW S, IsFiniteSet(S), NEW f, f = [x \in S |-> f[x]], NEW T, T = {f[x] : x \in S}
      PROVE  IsFiniteSet(T)
  BY <1>1, FiniteImage
<1>2. IsFiniteSet(EventRows(n))
  <2> DEFINE f == [ev \in Queued(n) |->
                     Row(n, ev.repo, "rule-1", LaneOfEvent(n, ev), RiskTier(n, ev.repo), ev.source)]
  <2>1. IsFiniteSet(Queued(n))
    BY <1>0, FS_Subset DEF Queued, Targeted
  <2>2. EventRows(n) = {f[ev] : ev \in Queued(n)} /\ f = [ev \in Queued(n) |-> f[ev]]
    BY DEF EventRows
  <2> HIDE DEF f
  <2> QED BY <1>1, <2>1, <2>2
<1>3. IsFiniteSet(ReviewRows(n))
  <2> DEFINE E == {e \in Targeted : e.source = "major-release"}
             g == [ev \in E |-> ev.repo]
             f == [r \in ToReview |->
                     Row(n, r, "threat-model-2", "threat-model-review", RiskTier(n, r), "release")]
  <2>1. IsFiniteSet(E)
    BY <1>0, FS_Subset DEF Targeted
  <2>2. ToReview = {g[ev] : ev \in E} /\ g = [ev \in E |-> g[ev]]
    BY DEF ToReview
  <2>3. IsFiniteSet(ToReview)
    <3> HIDE DEF g, E
    <3> QED BY <1>1, <2>1, <2>2
  <2>4. ReviewRows(n) = {f[r] : r \in ToReview} /\ f = [r \in ToReview |-> f[r]]
    BY DEF ReviewRows
  <2> HIDE DEF f
  <2> QED BY <1>1, <2>3, <2>4
<1>4. IsFiniteSet(TableRows(n))
  <2> DEFINE R == audited \ Superseded(n)
             f == [r \in R |-> Row(n, r, TableRule(n, r), TableLane(n, r), RiskTier(n, r), "none")]
  <2>1. IsFiniteSet(R)
    BY <1>0, FS_Difference
  <2>2. TableRows(n) = {f[r] : r \in R} /\ f = [r \in R |-> f[r]]
    BY DEF TableRows
  <2> HIDE DEF f, R
  <2> QED BY <1>1, <2>1, <2>2
<1>5. IsFiniteSet(IacRows(n))
  <2> DEFINE R == {q \in audited \ Superseded(n) : Status(n, q) = "ok" /\ "iac" \in Seen(n, q)}
             f == [r \in R |-> Additive(n, r, "lever-6", IF r \in CloudAudited THEN "iac-lane"
                                                                                ELSE "iac-baseline")]
  <2>1. IsFiniteSet(R)
    <3>1. R \subseteq audited
      OBVIOUS
    <3> QED BY <1>0, <3>1, FS_Subset
  <2>2. IacRows(n) = {f[r] : r \in R} /\ f = [r \in R |-> f[r]]
    BY DEF IacRows
  <2> HIDE DEF f, R
  <2> QED BY <1>1, <2>1, <2>2
<1>6. IsFiniteSet(CompanionRows(n))
  <2> DEFINE R == (audited \cap Companions) \ (Superseded(n) \cup CloudAudited
                                                 \cup {d.repo : d \in IacRows(n)})
             f == [r \in R |-> Additive(n, r, "lever-6-companion", "iac-baseline")]
  <2>1. IsFiniteSet(R)
    <3>1. R \subseteq audited
      OBVIOUS
    <3> QED BY <1>0, <3>1, FS_Subset
  <2>2. CompanionRows(n) = {f[r] : r \in R} /\ f = [r \in R |-> f[r]]
    BY DEF CompanionRows
  <2> HIDE DEF f, R
  <2> QED BY <1>1, <2>1, <2>2
<1>7. IsFiniteSet(BootstrapRows)
  <2> DEFINE R == Repos \ audited
             f == [r \in R |-> BootstrapRow(r)]
  <2>1. IsFiniteSet(R)
    BY <1>0, FS_Difference
  <2>2. BootstrapRows = {f[r] : r \in R} /\ f = [r \in R |-> f[r]]
    BY DEF BootstrapRows
  <2> HIDE DEF f, R
  <2> QED BY <1>1, <2>1, <2>2
<1>8. IsFiniteSet(ModelRows(n))
  <2> DEFINE R == StaleModels \ ToReview
             f == [r \in R |-> Additive(n, r, "threat-model-3", "threat-model-quarterly")]
  <2>1. IsFiniteSet(R)
    <3>1. R \subseteq audited
      BY DEF StaleModels
    <3> QED BY <1>0, <3>1, FS_Subset
  <2>2. ModelRows(n) = {f[r] : r \in R} /\ f = [r \in R |-> f[r]]
    BY DEF ModelRows
  <2> HIDE DEF f, R
  <2> QED BY <1>1, <2>1, <2>2
<1>9. IsFiniteSet(TableRows(n) \cup IacRows(n)) 
  BY <1>4, <1>5, FS_Union
<1>10. IsFiniteSet(TableRows(n) \cup IacRows(n) \cup CompanionRows(n))
  BY <1>6, <1>9, FS_Union
<1>11. IsFiniteSet(TableRows(n) \cup IacRows(n) \cup CompanionRows(n) \cup BootstrapRows)
  BY <1>7, <1>10, FS_Union
<1>12. IsFiniteSet(Passed(n))
  BY <1>8, <1>11, FS_Union DEF Passed
<1>13. IsFiniteSet(Vetted(Passed(n), n))
  BY <1>12, PassesStayFinite
<1>14. IsFiniteSet(EventRows(n) \cup ReviewRows(n))
  BY <1>2, <1>3, FS_Union
<1> QED BY <1>13, <1>14, FS_Union DEF Decisions, Passed

\* The key of a row is below the weight of the next digit.
LEMMA RiskKeyBounds ==
  ASSUME NEW d, d.repo \in Repos
  PROVE  RiskKey(d) \in Nat /\ RiskKey(d) < 96 * TurnBase /\ TurnBase \in Nat
<1> DEFINE e == ExposureRank(d.expo)
           t == TierRank(d.tier)
           s == SensitiveRank(d)
           l == Lines(d.seen)
           turn == Turn(d)
           high == ((e * 4 + t) * 2 + s) * 3 + 2 - l
<1>1. e \in 0 .. 3
  BY DEF ExposureRank
<1>2. t \in 0 .. 3
  BY DEF TierRank
<1>3. s \in 0 .. 1 /\ l \in 0 .. 2
  BY DEF SensitiveRank, Lines
<1>4. TurnBase \in Nat /\ turn \in 0 .. TurnBase - 1
  <2>1. Len(Order) \in Nat /\ Pos(d.repo) \in 1 .. Len(Order)
    BY ReposAreFinite
  <2>2. turn \in {Len(Order) + Pos(d.repo), Pos(d.repo)}
    BY DEF Turn
  <2>3. TurnBase = 2 * Len(Order) + 1
    BY DEF TurnBase
  <2> HIDE DEF turn
  <2> QED BY <2>1, <2>2, <2>3
<1>5. RiskKey(d) = high * TurnBase + turn
  BY DEF RiskKey
<1> HIDE DEF e, t, s, l, turn
<1>6. high \in 0 .. 95
  BY <1>1, <1>2, <1>3
<1> HIDE DEF high
<1>7. high * TurnBase \in Nat /\ high * TurnBase + TurnBase <= 96 * TurnBase
  <2>1. \A m \in Nat, h \in 0 .. 95 : h * m \in Nat /\ h * m + m <= 96 * m
    OBVIOUS
  <2> QED BY <1>4, <1>6, <2>1
<1> QED BY <1>4, <1>5, <1>7

\* Of two rows, the one of the lower tier is given up first.
LEMMA LowerTierFirst ==
  ASSUME NEW d, NEW k, d.repo \in Repos, k.repo \in Repos, TierRank(d.tier) < TierRank(k.tier)
  PROVE  DropKey(k) < DropKey(d) /\ DropKey(k) \in Nat /\ DropKey(d) \in Nat
<1> DEFINE m == 96 * TurnBase
           hd == (3 - TierRank(d.tier)) * 3 + Lines(d.seen)
           hk == (3 - TierRank(k.tier)) * 3 + Lines(k.seen)
<1>1. /\ RiskKey(d) \in Nat /\ RiskKey(d) < m /\ RiskKey(k) \in Nat /\ RiskKey(k) < m /\ m \in Nat
  BY RiskKeyBounds
<1>2. /\ Lines(d.seen) \in 0 .. 2 /\ Lines(k.seen) \in 0 .. 2
      /\ TierRank(d.tier) \in 0 .. 3 /\ TierRank(k.tier) \in 0 .. 3
  BY DEF Lines, TierRank
<1>3. hk \in 0 .. 11 /\ hd \in 0 .. 11 /\ hk + 1 <= hd
  BY <1>2
<1>4. DropKey(d) = hd * m + RiskKey(d) /\ DropKey(k) = hk * m + RiskKey(k)
  BY DEF DropKey
<1> HIDE DEF m, hd, hk
<1>5. hk * m \in Nat /\ hd * m \in Nat /\ hk * m + m <= hd * m
  <2>1. \A x \in Nat, a \in 0 .. 11, b \in 0 .. 11 : a + 1 <= b => a * x \in Nat /\ b * x \in Nat /\ a * x + x <= b * x
    OBVIOUS
  <2> QED BY <1>1, <1>3, <2>1
<1> QED BY <1>1, <1>4, <1>5

\* What goes over the budget goes from below.
LEMMA DroppedAreLeast ==
  ASSUME NEW rows, IsFiniteSet(rows), \A d \in rows : d.repo \in Repos,
         NEW budget \in Nat \cup {-1},
         NEW d \in Dropped(rows, budget), NEW k \in Fulls(rows) \ Dropped(rows, budget),
         k.source = "none"
  PROVE  TierRank(k.tier) <= TierRank(d.tier)
<1> DEFINE D == Droppable(rows)
           over == Cardinality(Fulls(rows)) - budget
           below(x) == {y \in D : DropKey(y) < DropKey(x)}
<1>1. TierRank(d.tier) \in 0 .. 3 /\ TierRank(k.tier) \in 0 .. 3
  BY DEF TierRank
<1>2. SUFFICES ASSUME TierRank(d.tier) < TierRank(k.tier) PROVE FALSE
  BY <1>1
<1>3. budget # -1 /\ d \in D /\ Place(d, D, DropKey) < over
  BY DEF Dropped
<1>4. k \in D
  BY DEF Droppable
<1>5. D \subseteq rows /\ Fulls(rows) \subseteq rows
  BY DEF Droppable, Fulls
<1>6. IsFiniteSet(D) /\ IsFiniteSet(Fulls(rows)) /\ Cardinality(Fulls(rows)) \in Nat
  BY <1>5, FS_Subset, FS_CardinalityType
<1>7. Place(d, D, DropKey) = Cardinality(below(d)) /\ Place(k, D, DropKey) = Cardinality(below(k))
  BY DEF Place
<1>8. below(k) \subseteq below(d)
  <2> SUFFICES ASSUME NEW y \in D, DropKey(y) < DropKey(k) PROVE DropKey(y) < DropKey(d)
    OBVIOUS
  <2>1. DropKey(k) < DropKey(d) /\ DropKey(k) \in Nat /\ DropKey(d) \in Nat
    BY <1>2, <1>3, <1>4, <1>5, LowerTierFirst
  <2>2. DropKey(y) \in Nat
    <3>1. RiskKey(y) \in Nat /\ TurnBase \in Nat
      BY <1>5, RiskKeyBounds
    <3>2. Lines(y.seen) \in 0 .. 2 /\ TierRank(y.tier) \in 0 .. 3
      BY DEF Lines, TierRank
    <3> QED BY <3>1, <3>2 DEF DropKey
  <2> QED BY <2>1, <2>2
<1>9. /\ IsFiniteSet(below(d)) /\ Cardinality(below(d)) \in Nat /\ Cardinality(below(k)) \in Nat
      /\ Cardinality(below(k)) <= Cardinality(below(d))
  <2>1. below(d) \subseteq D /\ below(k) \subseteq D
    OBVIOUS
  <2> HIDE DEF below
  <2> QED BY <1>6, <1>8, <2>1, FS_Subset, FS_CardinalityType
<1>10. Place(k, D, DropKey) < over
  <2> HIDE DEF below, D
  <2> QED BY <1>3, <1>6, <1>7, <1>9
<1>11. k \in Dropped(rows, budget)
  BY <1>3, <1>4, <1>10 DEF Dropped
<1> QED BY <1>11

LEMMA BudgetStep == TypeOK /\ BudgetSparesTheRisky /\ [Next]_vars => BudgetSparesTheRisky'
<1> SUFFICES ASSUME TypeOK, BudgetSparesTheRisky, [Next]_vars PROVE BudgetSparesTheRisky'
  OBVIOUS
<1>1. ASSUME NEW n \in Conditions, Route(n) PROVE BudgetSparesTheRisky'
  <2> DEFINE D == Decisions(n)
             G == Dropped(D, n.budget)
  <2>1. list' = [rows |-> D \ G, dropped |-> G, honored |-> Honored(n), met |-> {n}]
    BY <1>1 DEF Route, Worklist
  <2>2. n.budget \in Nat \cup {-1}
    BY SetsAssumption
  <2>3. IsFiniteSet(D) /\ \A d \in D : d.repo \in Repos
    BY DecisionsAreFinite, DecisionsAreOfRepos
  <2>4. \A d \in G : d.source = "none"
    BY DroppedAreNoRequests
  <2>5. \A d \in G : \A k \in Fulls(D) \ G : k.source = "none" => TierRank(k.tier) <= TierRank(d.tier)
    <3> HIDE DEF D
    <3> QED BY <2>2, <2>3, DroppedAreLeast
  <2>6. list'.dropped = G /\ list'.rows = D \ G
    <3> HIDE DEF D, G
    <3> QED BY <2>1
  <2>7. Fulls(list'.rows) \subseteq Fulls(D) \ G
    BY <2>6 DEF Fulls
  <2> HIDE DEF D, G
  <2> QED BY <2>4, <2>5, <2>6, <2>7 DEF BudgetSparesTheRisky, Fulls
<1>2. CASE ~\E n \in Conditions : Route(n)
  <2>1. list' = list
    BY <1>2 DEF Next, vars, EmitTranche, StartAudit, PassOn, FinishAudit, Remodel, Inject, Push, NewDay
  <2> QED BY <2>1 DEF BudgetSparesTheRisky, Fulls
<1> QED BY <1>1, <1>2

\* However small the budget, what a run gives up is no operator's request and
\* nothing riskier than a row of the table that it keeps.
THEOREM TheRiskyAreKept == Spec => []BudgetSparesTheRisky
<1>1. Init => BudgetSparesTheRisky
  BY NoListIsEmpty DEF Init, BudgetSparesTheRisky
<1> QED BY <1>1, BudgetStep, TypeCorrect, PTL DEF Spec
=============================================================================
