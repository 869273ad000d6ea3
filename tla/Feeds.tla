-------------------------------- MODULE Feeds --------------------------------
(***************************************************************************)
(* fetch_feeds.py for the paginated rh-cve feed, and the program that      *)
(* consumes it, reconcile_cve_provenance.py.  A fetch reads its entry of   *)
(* feeds-meta.json, pages through what was published since the watermark,  *)
(* merges that onto the cached copy, writes the copy and then the whole    *)
(* meta file.  The reconciler compares the copy with an audit and stamps   *)
(* what the audit found first into the findings layer.                     *)
(*                                                                         *)
(* A record is the number of its publication: record r is the r-th one.    *)
(* Days matter for what the upstream window returns; that a cached copy is *)
(* older than its limit is a flag that time clears.  Any process may be    *)
(* killed between two file operations.                                     *)
(***************************************************************************)
EXTENDS Naturals, FiniteSets

CONSTANTS
  Fetchers,      \* processes that fetch this feed
  MaxRecords,    \* bound on publications
  MaxDay,        \* bound on days
  Backfill,      \* incremental.backfill_from
  PerPage,       \* paginate.per_page
  MaxPages,      \* MAX_FEED_PAGES
  AuditDay,      \* the day of the audit
  Similar,       \* records whose title matches a finding of the audit
  MaxEvents,     \* bound on events that emitters append to the layer
  MaxFaults,     \* bound on failed requests and kills
  Inclusive,     \* whether upstream's `after` includes the day it names
  BackDated,     \* whether upstream publishes under an earlier public_date
  TornPayload    \* whether a kill can hit the middle of a payload write

ASSUME BoundsAssumption ==
  /\ MaxRecords \in Nat /\ MaxEvents \in Nat /\ MaxFaults \in Nat
  /\ MaxDay \in Nat \ {0} /\ Backfill \in 1 .. MaxDay
  /\ PerPage \in Nat \ {0} /\ MaxPages \in Nat \ {0}
  /\ Similar \subseteq 1 .. MaxRecords
  /\ AuditDay \in Nat
  /\ {Inclusive, BackDated, TornPayload} \subseteq BOOLEAN

Records == 1 .. MaxRecords
Days    == 1 .. MaxDay

VARIABLES
  today,
  published,   \* how many records upstream has
  pubDay,      \* [Records -> public_date of each]
  file,        \* rh_cve.json
  meta,        \* the rh-cve entry of feeds-meta.json
  fetcher,     \* [Fetchers -> what a fetch in progress knows]
  other,       \* the meta file as the fetch of another feed read it
  layer,       \* the findings layer: its events and its external_refs
  recon,       \* the reconciler
  faults

upstreamVars == <<today, published, pubDay>>
cacheVars    == <<file, meta, fetcher, other>>
layerVars    == <<layer, recon>>
vars         == <<upstreamVars, cacheVars, layerVars, faults>>

\* A missing or unreadable meta file and a missing entry read the same: {}.
NoEntry == [fresh |-> FALSE, watermark |-> 0]

Torn == [state |-> "torn", recs |-> {}]

Idle == [step |-> "idle", page |-> 1, since |-> 0, got |-> {}, mark |-> 0, merged |-> {}]

NoCopy == [held |-> FALSE, entry |-> NoEntry]

Resting == [step |-> "idle", feed |-> {}, events |-> 0, refs |-> {}]

-----------------------------------------------------------------------------
(* Upstream, and time.                                                     *)

Publish ==
  /\ published < MaxRecords
  /\ published' = published + 1
  /\ \E d \in Days :
       /\ IF BackDated THEN d <= today ELSE d = today
       /\ pubDay' = [pubDay EXCEPT ![published + 1] = d]
  /\ UNCHANGED <<today, cacheVars, layerVars, faults>>

NextDay ==
  /\ today < MaxDay
  /\ today' = today + 1
  /\ UNCHANGED <<published, pubDay, cacheVars, layerVars, faults>>

\* retrieved_at gets older than max_age_hours, in every copy of it.
Expire ==
  /\ meta.fresh \/ other.entry.fresh
  /\ meta' = [meta EXCEPT !.fresh = FALSE]
  /\ other' = [other EXCEPT !.entry.fresh = FALSE]
  /\ UNCHANGED <<upstreamVars, file, fetcher, layerVars, faults>>

\* The records the query `?after=since` selects, newest first in pages.
Window(since) ==
  {r \in 1 .. published : IF Inclusive THEN pubDay[r] >= since ELSE pubDay[r] > since}

Page(since, n) ==
  {r \in Window(since) : /\ r + n * PerPage > published
                         /\ r + (n - 1) * PerPage <= published}

-----------------------------------------------------------------------------
(* fetch("rh-cve").                                                        *)

\* A copy that is there and young enough is used as it is.
Usable == file.state # "absent" /\ meta.fresh

Since == IF meta.watermark = 0 THEN Backfill ELSE meta.watermark

Begin(f) ==
  /\ fetcher[f].step = "idle"
  /\ ~Usable
  /\ fetcher' = [fetcher EXCEPT ![f] =
       [Idle EXCEPT !.step = "paging", !.since = Since, !.mark = Since]]
  /\ UNCHANGED <<upstreamVars, file, meta, other, layerVars, faults>>

\* Mutant: the watermark is the day of the request.
LatestToday(w, mark, page) == w = today

\* The watermark is the latest public_date seen.
Latest(w, mark, page) ==
  /\ w \in {mark} \cup {pubDay[r] : r \in page}
  /\ mark <= w
  /\ \A r \in page : pubDay[r] <= w

\* Asking for another page is refused beyond MAX_FEED_PAGES.
WithinCap(page) == page < MaxPages

\* A short page is the last one.  A window that exceeds the cap is an error:
\* the fetch ends and the stale copy stays in use.
AfterPage(p, batch, w) ==
  LET seen == [p EXCEPT !.got = p.got \cup batch, !.mark = w]
  IN IF Cardinality(batch) < PerPage THEN [seen EXCEPT !.step = "merge"]
     ELSE IF WithinCap(p.page) THEN [seen EXCEPT !.page = p.page + 1]
     ELSE Idle

\* One request of _fetch_paginated.
GetPage(f) ==
  /\ fetcher[f].step = "paging"
  /\ LET batch == Page(fetcher[f].since, fetcher[f].page)
     IN \E w \in Days :
          /\ Latest(w, fetcher[f].mark, batch)
          /\ fetcher' = [fetcher EXCEPT ![f] = AfterPage(fetcher[f], batch, w)]
  /\ UNCHANGED <<upstreamVars, file, meta, other, layerVars, faults>>

\* A request fails or times out: nothing is written.
GetFails(f) ==
  /\ fetcher[f].step = "paging"
  /\ faults < MaxFaults
  /\ faults' = faults + 1
  /\ fetcher' = [fetcher EXCEPT ![f] = Idle]
  /\ UNCHANGED <<upstreamVars, file, meta, other, layerVars>>

\* Mutant: the delta replaces the copy.
MergedDelta(got) == got

\* Merged onto the cached copy; an unreadable copy counts as empty.
Merged(got) == (IF file.state = "whole" THEN file.recs ELSE {}) \cup got

Merge(f) ==
  /\ fetcher[f].step = "merge"
  /\ fetcher' = [fetcher EXCEPT ![f].step = "write",
                                ![f].merged = Merged(fetcher[f].got)]
  /\ UNCHANGED <<upstreamVars, file, meta, other, layerVars, faults>>

WritePayload(f) ==
  /\ fetcher[f].step = "write"
  /\ file' = [state |-> "whole", recs |-> fetcher[f].merged]
  /\ fetcher' = [fetcher EXCEPT ![f].step = "meta"]
  /\ UNCHANGED <<upstreamVars, meta, other, layerVars, faults>>

WriteMeta(f) ==
  /\ fetcher[f].step = "meta"
  /\ meta' = [fresh |-> TRUE, watermark |-> fetcher[f].mark]
  /\ fetcher' = [fetcher EXCEPT ![f] = Idle]
  /\ UNCHANGED <<upstreamVars, file, other, layerVars, faults>>

\* A kill in the middle of a write leaves a truncated file.
KillFetcher(f) ==
  /\ fetcher[f].step # "idle"
  /\ faults < MaxFaults
  /\ faults' = faults + 1
  /\ fetcher' = [fetcher EXCEPT ![f] = Idle]
  /\ file' \in IF fetcher[f].step = "write" /\ TornPayload THEN {file, Torn} ELSE {file}
  /\ meta' \in IF fetcher[f].step = "meta" THEN {meta, NoEntry} ELSE {meta}
  /\ UNCHANGED <<upstreamVars, other, layerVars>>

\* The fetch of another feed reads the meta file at its start and writes all
\* of it back at its end, this feed's entry included.
OtherReads ==
  /\ ~other.held
  /\ other' = [held |-> TRUE, entry |-> meta]
  /\ UNCHANGED <<upstreamVars, file, meta, fetcher, layerVars, faults>>

OtherWrites ==
  /\ other.held
  /\ meta' = other.entry
  /\ other' = NoCopy
  /\ UNCHANGED <<upstreamVars, file, fetcher, layerVars, faults>>

-----------------------------------------------------------------------------
(* reconcile_cve_provenance.py, and the emitters it shares the layer with. *)

\* load_rh_cves: the whole copy; an unreadable one ends the run.
ReadFeed ==
  /\ recon.step = "idle"
  /\ file.state = "whole"
  /\ recon' = [Resting EXCEPT !.step = "feed", !.feed = file.recs]
  /\ UNCHANGED <<upstreamVars, cacheVars, layer, faults>>

\* Mutant: a record of the audit's own day, and of no other, is a first find.
FirstFindsOnTheDay(feed) == {r \in feed \cap Similar : pubDay[r] = AuditDay}

\* Only a CVE published after the audit can be a first find.
FirstFinds(feed) == {r \in feed \cap Similar : pubDay[r] > AuditDay}

\* stamp reads the layer; a run that has nothing new writes nothing.
ReadLayer ==
  /\ recon.step = "feed"
  /\ recon' = IF FirstFinds(recon.feed) \subseteq layer.refs
                THEN Resting
                ELSE [recon EXCEPT !.step = "write", !.events = layer.events,
                                   !.refs = layer.refs \cup FirstFinds(recon.feed)]
  /\ UNCHANGED <<upstreamVars, cacheVars, layer, faults>>

\* ... and writes the document it read back, events and all.
WriteLayer ==
  /\ recon.step = "write"
  /\ layer' = [events |-> recon.events, refs |-> recon.refs]
  /\ recon' = Resting
  /\ UNCHANGED <<upstreamVars, cacheVars, faults>>

KillReconciler ==
  /\ recon.step # "idle"
  /\ faults < MaxFaults
  /\ faults' = faults + 1
  /\ recon' = Resting
  /\ UNCHANGED <<upstreamVars, cacheVars, layer>>

\* An emitter or a signer appends an event through the ledger service.
Submit ==
  /\ layer.events < MaxEvents
  /\ layer' = [layer EXCEPT !.events = layer.events + 1]
  /\ UNCHANGED <<upstreamVars, cacheVars, recon, faults>>

-----------------------------------------------------------------------------
Init ==
  /\ today = 1
  /\ published = 0
  /\ pubDay = [r \in Records |-> 0]
  /\ file = [state |-> "absent", recs |-> {}]
  /\ meta = NoEntry
  /\ fetcher = [f \in Fetchers |-> Idle]
  /\ other = NoCopy
  /\ layer = [events |-> 0, refs |-> {}]
  /\ recon = Resting
  /\ faults = 0

FetchStep(f) ==
  Begin(f) \/ GetPage(f) \/ Merge(f) \/ WritePayload(f) \/ WriteMeta(f)

ReconStep == ReadFeed \/ ReadLayer \/ WriteLayer

Next ==
  \/ Publish \/ NextDay \/ Expire
  \/ \E f \in Fetchers : FetchStep(f) \/ GetFails(f) \/ KillFetcher(f)
  \/ OtherReads \/ OtherWrites
  \/ ReconStep \/ KillReconciler \/ Submit

Spec == Init /\ [][Next]_vars

\* The refresh runs on a cadence, copies age, and a run that is not killed
\* goes on.  Nothing is assumed of upstream, of the other feeds, of emitters.
Fairness ==
  /\ WF_vars(Expire)
  /\ \A f \in Fetchers : WF_vars(FetchStep(f))
  /\ WF_vars(ReconStep)

FairSpec == Spec /\ Fairness

-----------------------------------------------------------------------------
Entries == [fresh: BOOLEAN, watermark: 0 .. MaxDay]

Copies == [state: {"absent", "torn", "whole"}, recs: SUBSET Records]

Fetches ==
  [step: {"idle", "paging", "merge", "write", "meta"}, page: 1 .. MaxPages,
   since: 0 .. MaxDay, got: SUBSET Records, mark: 0 .. MaxDay, merged: SUBSET Records]

Reconciliations ==
  [step: {"idle", "feed", "write"}, feed: SUBSET Records, events: 0 .. MaxEvents,
   refs: SUBSET Records]

TypeOK ==
  /\ today \in Days
  /\ published \in 0 .. MaxRecords
  /\ pubDay \in [Records -> 0 .. MaxDay]
  /\ file \in Copies
  /\ meta \in Entries
  /\ fetcher \in [Fetchers -> Fetches]
  /\ other \in [held: BOOLEAN, entry: Entries]
  /\ layer \in [events: 0 .. MaxEvents, refs: SUBSET Records]
  /\ recon \in Reconciliations
  /\ faults \in 0 .. MaxFaults

\* The watermark never claims more than the cached copy holds: what was
\* published before it is in the copy.  A record that fell behind it would
\* never be asked for again.  It holds through kills, failed requests, pages
\* that shift while they are read, and another feed's fetch that writes an old
\* entry back.
WatermarkCovers ==
  \A r \in 1 .. published :
    Backfill <= pubDay[r] /\ pubDay[r] < meta.watermark => r \in file.recs

\* Too much was published since the watermark for MAX_FEED_PAGES.
Overflow == Cardinality(Window(Since)) >= MaxPages * PerPage

\* A publication that the audit anticipated is stamped in the end, if its
\* window does not outgrow the page cap first.
FirstFindsAreStamped ==
  \A r \in Similar :
    (r <= published /\ pubDay[r] > AuditDay /\ pubDay[r] >= Backfill)
      ~> (r \in layer.refs \/ Overflow)

-----------------------------------------------------------------------------
(* What the documentation says and the code does not keep.                 *)

\* "Ledger layers are written through the SDK, never by [...] a direct
\* write_text": what an emitter appends between the reconciler's read and its
\* write is gone.
EventsAreKept == [][layer'.events >= layer.events]_vars
=============================================================================
