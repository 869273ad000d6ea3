------------------------------ MODULE FeedsProofs ------------------------------
(***************************************************************************)
(* The watermark of the feeds cache never claims more than the cached copy *)
(* holds: for any number of records, page size and cap, through kills and  *)
(* failed requests, and while upstream publishes between two pages.  The   *)
(* argument: records are published in the order of their days, so a page   *)
(* that shifted while it was read overlaps the one before and never leaves *)
(* a gap below anything seen; the watermark is a day that was seen.        *)
(***************************************************************************)
EXTENDS Feeds, FiniteSetTheorems, TLAPS

\* What the theorem needs of upstream, of the file system and of the cadence.
Calm ==
  /\ Inclusive /\ ~BackDated /\ ~TornPayload
  /\ \A f, g \in Fetchers : f = g

Chronological ==
  /\ \A r \in 1 .. published : pubDay[r] \in 1 .. today
  /\ \A r, s \in 1 .. published : r <= s => pubDay[r] <= pubDay[s]

Covers(w, S) ==
  \A r \in 1 .. published : Backfill <= pubDay[r] /\ pubDay[r] < w => r \in S

\* Nothing that upstream will publish falls behind w.
Past(w) == w <= today \/ w <= Backfill

Cached ==
  /\ file.state = "whole" \/ file.recs = {}
  /\ file.state # "torn"
  /\ Past(meta.watermark) /\ Covers(meta.watermark, file.recs)
  /\ Past(other.entry.watermark) /\ Covers(other.entry.watermark, file.recs)

\* Below anything seen, everything is seen that the pages read so far reach.
NoGap(got, since, n) ==
  \A m \in got : \A r \in Window(since) :
    r <= m /\ r + (n - 1) * PerPage > published => r \in got

Seen(p) ==
  /\ p.got \subseteq Window(p.since)
  /\ p.mark = p.since \/ \E m \in p.got : p.mark = pubDay[m]

Fetching(p) ==
  /\ p.step # "idle" =>
       Past(p.since) /\ Covers(p.since, file.recs) /\ Past(p.mark) /\ p.mark \in Days
  /\ p.step \in {"paging", "merge"} => Seen(p)
  /\ p.step = "paging" => NoGap(p.got, p.since, p.page)
  /\ p.step = "merge" => \A m \in p.got : \A r \in Window(p.since) : r <= m => r \in p.got
  /\ p.step = "write" => file.recs \subseteq p.merged /\ Covers(p.mark, p.merged)
  /\ p.step = "meta" => Covers(p.mark, file.recs)

Safe == Chronological /\ Cached /\ \A f \in Fetchers : Fetching(fetcher[f])

IInv == TypeOK /\ (Calm => Safe)

-----------------------------------------------------------------------------
LEMMA Bounds ==
  /\ MaxRecords \in Nat /\ MaxEvents \in Nat /\ MaxFaults \in Nat
  /\ MaxDay \in Nat /\ 1 <= MaxDay /\ Backfill \in Nat /\ 1 <= Backfill /\ Backfill <= MaxDay
  /\ PerPage \in Nat /\ 1 <= PerPage /\ MaxPages \in Nat /\ 1 <= MaxPages
  /\ AuditDay \in Nat /\ Inclusive \in BOOLEAN /\ BackDated \in BOOLEAN
  /\ TornPayload \in BOOLEAN
BY BoundsAssumption

LEMMA ConstantsTyped ==
  /\ Idle \in Fetches /\ NoEntry \in Entries /\ Torn \in Copies
  /\ NoCopy \in [held: BOOLEAN, entry: Entries]
  /\ Resting \in Reconciliations
BY Bounds DEF Idle, NoEntry, Torn, NoCopy, Resting, Fetches, Entries, Copies, Reconciliations

LEMMA InitTyped == Init => TypeOK
<1> SUFFICES ASSUME Init PROVE TypeOK
  OBVIOUS
<1>1. fetcher \in [Fetchers -> Fetches]
  BY ConstantsTyped DEF Init
<1>2. QED
  BY <1>1, ConstantsTyped, Bounds DEF Init, Days, Records, TypeOK, Copies

LEMMA AfterPageTyped ==
  ASSUME NEW p \in Fetches, NEW batch \in SUBSET Records, NEW w \in Days
  PROVE  AfterPage(p, batch, w) \in Fetches
<1> DEFINE seen == [p EXCEPT !.got = p.got \cup batch, !.mark = w]
<1>1. seen \in Fetches /\ seen.page = p.page
  <2>1. p.got \cup batch \in SUBSET Records /\ w \in 0 .. MaxDay
    BY Bounds DEF Fetches, Days
  <2> DEFINE got == p.got \cup batch
  <2>2. got \in SUBSET Records
    BY <2>1
  <2> HIDE DEF got
  <2>3. [p EXCEPT !.got = got, !.mark = w] \in Fetches
        /\ [p EXCEPT !.got = got, !.mark = w].page = p.page
    BY <2>1, <2>2 DEF Fetches
  <2> QED BY <2>3 DEF got
<1>2. [seen EXCEPT !.step = "merge"] \in Fetches
  <2> HIDE DEF seen
  <2> QED BY <1>1 DEF Fetches
<1>3. WithinCap(p.page) => [seen EXCEPT !.page = p.page + 1] \in Fetches
  <2>1. p.page \in 1 .. MaxPages
    BY DEF Fetches
  <2> HIDE DEF seen
  <2> QED BY <1>1, <2>1, Bounds DEF Fetches, WithinCap
<1>4. QED
  BY <1>2, <1>3, ConstantsTyped DEF AfterPage

\* Everything a fetch asks for, and merges, is a published record.
LEMMA FetchTyped ==
  ASSUME TypeOK, NEW f \in Fetchers, FetchStep(f) \/ GetFails(f) \/ KillFetcher(f)
  PROVE  TypeOK'
<1> USE ConstantsTyped, Bounds DEF TypeOK
<1>1. fetcher[f] \in Fetches
  OBVIOUS
<1>2. CASE Begin(f)
  <2>1. Since \in 0 .. MaxDay
    BY DEF Since, Entries
  <2>2. [Idle EXCEPT !.step = "paging", !.since = Since, !.mark = Since] \in Fetches
    BY <2>1 DEF Fetches, Idle
  <2> QED BY <1>2, <2>2 DEF Begin, upstreamVars, layerVars
<1>3. CASE GetPage(f)
  <2> DEFINE batch == Page(fetcher[f].since, fetcher[f].page)
  <2>1. PICK w \in Days : fetcher' = [fetcher EXCEPT ![f] = AfterPage(fetcher[f], batch, w)]
    BY <1>3 DEF GetPage
  <2>2. batch \in SUBSET Records
    BY DEF Page, Window, Records
  <2>3. AfterPage(fetcher[f], batch, w) \in Fetches
    <3> HIDE DEF batch
    <3> QED BY <1>1, <2>2, AfterPageTyped
  <2>4. fetcher' \in [Fetchers -> Fetches]
    BY <2>1, <2>3
  <2> QED BY <1>3, <2>4 DEF GetPage, upstreamVars, layerVars
<1>4. CASE Merge(f)
  <2>1. Merged(fetcher[f].got) \in SUBSET Records
    BY <1>1 DEF Merged, Fetches, Copies
  <2>2. fetcher' \in [Fetchers -> Fetches]
    BY <1>1, <1>4, <2>1 DEF Merge, Fetches
  <2> QED BY <1>4, <2>2 DEF Merge, upstreamVars, layerVars
<1>5. CASE WritePayload(f)
  <2>1. fetcher' \in [Fetchers -> Fetches]
    BY <1>1, <1>5 DEF WritePayload, Fetches
  <2>2. fetcher[f].merged \in SUBSET Records
    BY <1>1 DEF Fetches
  <2> QED BY <1>5, <2>1, <2>2 DEF WritePayload, upstreamVars, layerVars, Copies
<1>6. CASE WriteMeta(f)
  <2>1. fetcher[f].mark \in 0 .. MaxDay
    BY <1>1 DEF Fetches
  <2>2. meta' \in Entries
    BY <1>6, <2>1 DEF WriteMeta, Entries
  <2> QED BY <1>6, <2>2 DEF WriteMeta, upstreamVars, layerVars
<1>7. CASE GetFails(f)
  BY <1>7 DEF GetFails, upstreamVars, layerVars
<1>8. CASE KillFetcher(f)
  BY <1>8 DEF KillFetcher, upstreamVars, layerVars
<1>9. QED
  BY <1>2, <1>3, <1>4, <1>5, <1>6, <1>7, <1>8 DEF FetchStep

LEMMA StepTyped == TypeOK /\ [Next]_vars => TypeOK'
<1> SUFFICES ASSUME TypeOK, [Next]_vars PROVE TypeOK'
  OBVIOUS
<1> USE ConstantsTyped, Bounds DEF TypeOK
<1>1. CASE Publish
  <2>1. PICK d \in Days : pubDay' = [pubDay EXCEPT ![published + 1] = d]
    BY <1>1 DEF Publish
  <2>2. published' \in 0 .. MaxRecords
    BY <1>1 DEF Publish
  <2>3. d \in 0 .. MaxDay
    BY DEF Days
  <2>4. pubDay' \in [Records -> 0 .. MaxDay]
    BY <2>1, <2>3
  <2> QED BY <1>1, <2>2, <2>4 DEF Publish, cacheVars, layerVars
<1>2. CASE NextDay
  <2>1. today' \in Days
    BY <1>2 DEF NextDay, Days
  <2> QED BY <1>2, <2>1 DEF NextDay, cacheVars, layerVars
<1>3. CASE Expire
  BY <1>3 DEF Expire, Entries, upstreamVars, layerVars
<1>4. ASSUME NEW f \in Fetchers, FetchStep(f) \/ GetFails(f) \/ KillFetcher(f)
      PROVE  TypeOK'
  BY <1>4, FetchTyped
<1>5. CASE OtherReads \/ OtherWrites
  <2>1. meta' \in Entries
    BY <1>5 DEF OtherReads, OtherWrites
  <2>2. other' \in [held: BOOLEAN, entry: Entries]
    <3>1. [held |-> TRUE, entry |-> meta] \in [held: BOOLEAN, entry: Entries]
      OBVIOUS
    <3> QED BY <1>5, <3>1 DEF OtherReads, OtherWrites
  <2> QED BY <1>5, <2>1, <2>2 DEF OtherReads, OtherWrites, upstreamVars, layerVars
<1>6. CASE ReadFeed
  BY <1>6 DEF ReadFeed, Resting, Reconciliations, Copies, upstreamVars, cacheVars
<1>7. CASE ReadLayer
  <2>1. layer.refs \cup FirstFinds(recon.feed) \in SUBSET Records
    BY DEF FirstFinds, Reconciliations
  <2>2. recon' \in Reconciliations
    <3> DEFINE refs == layer.refs \cup FirstFinds(recon.feed)
    <3>1. recon' = Resting \/
          recon' = [recon EXCEPT !.step = "write", !.events = layer.events, !.refs = refs]
      BY <1>7 DEF ReadLayer
    <3>2. refs \in SUBSET Records
      BY <2>1
    <3> HIDE DEF refs
    <3> QED BY <3>1, <3>2 DEF Reconciliations
  <2> QED BY <1>7, <2>2 DEF ReadLayer, upstreamVars, cacheVars
<1>8. CASE WriteLayer
  BY <1>8 DEF WriteLayer, Reconciliations, upstreamVars, cacheVars
<1>9. CASE KillReconciler \/ Submit
  BY <1>9 DEF KillReconciler, Submit, upstreamVars, cacheVars
<1>10. CASE UNCHANGED vars
  BY <1>10 DEF vars, upstreamVars, cacheVars, layerVars
<1>11. QED
  BY <1>1, <1>2, <1>3, <1>4, <1>5, <1>6, <1>7, <1>8, <1>9, <1>10 DEF Next, ReconStep

-----------------------------------------------------------------------------
(* What one request establishes.                                           *)

LEMMA PublishedTyped ==
  ASSUME TypeOK, NEW r \in 1 .. published
  PROVE  r \in Records /\ r \in Nat /\ pubDay[r] \in 0 .. MaxDay /\ pubDay[r] \in Nat
<1>1. published \in 0 .. MaxRecords /\ pubDay \in [Records -> 0 .. MaxDay]
  BY DEF TypeOK
<1>2. r \in Records /\ r \in Nat
  BY <1>1, Bounds DEF Records
<1>3. QED
  BY <1>1, <1>2, Bounds

\* A page that is not full reaches the bottom of the window.
LEMMA ShortPageIsLast ==
  ASSUME TypeOK, Chronological, Inclusive,
         NEW since \in 0 .. MaxDay, NEW n \in 1 .. MaxPages,
         Cardinality(Page(since, n)) < PerPage,
         NEW r \in Window(since)
  PROVE  r + n * PerPage > published
<1> DEFINE a == (n - 1) * PerPage
<1>1. a \in Nat /\ n * PerPage = a + PerPage
  BY Bounds
<1> HIDE DEF a
<1> SUFFICES ASSUME r + a + PerPage <= published PROVE FALSE
  BY <1>1, Bounds DEF Window, TypeOK
<1>2. published \in Nat /\ r \in 1 .. published
  BY DEF Window, TypeOK
<1> DEFINE I == (published - a - PerPage + 1) .. (published - a)
<1>3. I \subseteq Page(since, n)
  <2> SUFFICES ASSUME NEW s \in I PROVE s \in Page(since, n)
    OBVIOUS
  <2>1. s \in 1 .. published /\ r <= s /\ s + a + PerPage > published /\ s + a <= published
    BY <1>1, <1>2, Bounds
  <2>2. pubDay[r] <= pubDay[s] /\ since <= pubDay[r] /\ pubDay[s] \in 0 .. MaxDay
        /\ pubDay[r] \in 0 .. MaxDay
    BY <2>1, <1>2, PublishedTyped DEF Chronological, Window
  <2>3. s \in Window(since)
    BY <2>1, <2>2, Bounds DEF Window
  <2> QED BY <1>1, <2>1, <2>3, Bounds DEF Page, a
<1>4. IsFiniteSet(I) /\ Cardinality(I) = PerPage
  <2>1. published - a - PerPage + 1 \in Int /\ published - a \in Int
        /\ ~(published - a - PerPage + 1 > published - a)
        /\ (published - a) - (published - a - PerPage + 1) + 1 = PerPage
    BY <1>1, <1>2, Bounds
  <2> QED BY <2>1, FS_Interval
<1>5. IsFiniteSet(Page(since, n))
  <2>1. IsFiniteSet(1 .. published)
    BY <1>2, FS_Interval
  <2> QED BY <2>1, FS_Subset DEF Page, Window
<1> HIDE DEF I
<1>6. Cardinality(I) <= Cardinality(Page(since, n))
  BY <1>3, <1>5, FS_Subset
<1>7. QED
  BY <1>4, <1>5, <1>6, FS_CardinalityType, Bounds

\* The next page, read from a window that has only grown, leaves no gap.
LEMMA PageLeavesNoGap ==
  ASSUME TypeOK, NEW since \in 0 .. MaxDay, NEW n \in 1 .. MaxPages,
         NEW got, got \subseteq Window(since), NoGap(got, since, n)
  PROVE  NoGap(got \cup Page(since, n), since, n + 1)
<1> DEFINE a == (n - 1) * PerPage
<1>1. a \in Nat /\ n * PerPage = a + PerPage /\ (n + 1) - 1 = n
  BY Bounds
<1>2. published \in Nat
  BY DEF TypeOK
<1> SUFFICES ASSUME NEW m \in got \cup Page(since, n), NEW r \in Window(since),
                    r <= m, r + n * PerPage > published
             PROVE  r \in got \cup Page(since, n)
  BY <1>1 DEF NoGap
<1>3. r \in 1 .. published /\ m \in 1 .. published
  BY DEF Window, Page
<1>4. CASE r + a <= published
  BY <1>4 DEF Page
<1>5. CASE r + a > published
  <2>1. m \notin Page(since, n)
    <3>1. m \in Page(since, n) => m + a <= published
      BY DEF Page
    <3> HIDE DEF a
    <3> QED BY <3>1, <1>5, <1>1, <1>2, <1>3
  <2> QED BY <2>1, <1>5 DEF NoGap
<1>6. QED
  <2> HIDE DEF a
  <2> QED BY <1>1, <1>2, <1>3, <1>4, <1>5

\* When the last page has been read, what was published before the watermark
\* was in the copy or is among what was fetched.
LEMMA MarkIsCovered ==
  ASSUME TypeOK, Chronological, Inclusive, NEW p \in Fetches, Seen(p),
         Covers(p.since, file.recs),
         \A m \in p.got : \A r \in Window(p.since) : r <= m => r \in p.got
  PROVE  Covers(p.mark, file.recs \cup p.got)
<1> SUFFICES ASSUME NEW r \in 1 .. published, Backfill <= pubDay[r], pubDay[r] < p.mark
             PROVE  r \in file.recs \cup p.got
  BY DEF Covers
<1>1. pubDay[r] \in 0 .. MaxDay /\ p.since \in 0 .. MaxDay /\ r \in Nat
  BY PublishedTyped DEF Fetches
<1>2. CASE pubDay[r] < p.since
  BY <1>2 DEF Covers
<1>3. CASE p.since <= pubDay[r]
  <2>1. r \in Window(p.since)
    BY <1>3 DEF Window
  <2>2. PICK m \in p.got : p.mark = pubDay[m]
    BY <1>1, <1>3 DEF Seen
  <2>3. m \in 1 .. published
    BY DEF Seen, Window
  <2>4. r <= m
    <3>1. pubDay[m] \in Nat /\ m \in Nat
      BY <2>3, PublishedTyped
    <3>2. m <= r => pubDay[m] <= pubDay[r]
      BY <2>3 DEF Chronological
    <3> QED BY <3>1, <3>2, <2>2, <1>1
  <2> QED BY <2>1, <2>4
<1>4. QED
  BY <1>1, <1>2, <1>3

-----------------------------------------------------------------------------
(* The steps.                                                              *)

LEMMA InitSafe == Init => Safe
<1> SUFFICES ASSUME Init PROVE Safe
  OBVIOUS
<1>1. Chronological
  BY DEF Init, Chronological
<1>2. Cached
  BY Bounds DEF Init, Cached, Past, Covers, NoEntry, NoCopy
<1>3. \A f \in Fetchers : Fetching(fetcher[f])
  BY DEF Init, Fetching, Idle
<1>4. QED
  BY <1>1, <1>2, <1>3 DEF Safe

\* What is published next does not fall behind anything that is past.
LEMMA PublishSafe ==
  ASSUME TypeOK, Calm, Safe, Publish
  PROVE  Safe'
<1> DEFINE new == published + 1
<1>1. /\ published \in Nat /\ today \in Nat /\ published' = new /\ today' = today
      /\ pubDay \in [Records -> 0 .. MaxDay] /\ new \in Records
      /\ pubDay' = [pubDay EXCEPT ![new] = today]
      /\ UNCHANGED <<file, meta, fetcher, other>>
  BY Bounds DEF Publish, TypeOK, Calm, Records, Days, cacheVars
<1>2. \A r \in 1 .. published : r \in Records /\ r # new /\ r \in Nat
                               /\ pubDay[r] \in Nat /\ pubDay'[r] = pubDay[r]
  BY <1>1, PublishedTyped
<1>3. \A r \in 1 .. published' : r \in 1 .. published \/ r = new
  BY <1>1
<1>4. pubDay'[new] = today /\ 1 <= today
  BY <1>1 DEF TypeOK, Days
<1>5. Chronological'
  <2>1. \A r \in 1 .. published' : pubDay'[r] \in 1 .. today'
    BY <1>1, <1>2, <1>3, <1>4 DEF Safe, Chronological
  <2>2. ASSUME NEW r \in 1 .. published', NEW s \in 1 .. published', r <= s
        PROVE  pubDay'[r] <= pubDay'[s]
    <3>1. CASE s = new
      BY <3>1, <2>1, <1>1, <1>4
    <3>2. CASE s # new
      <4>1. s \in 1 .. published /\ r \in 1 .. published
        BY <3>2, <2>2, <1>1, <1>3
      <4> QED BY <4>1, <2>2, <1>2 DEF Safe, Chronological
    <3> QED BY <3>1, <3>2
  <2> QED BY <2>1, <2>2 DEF Chronological
<1>6. ASSUME NEW w \in Nat, NEW S, Past(w), Covers(w, S)
      PROVE  Past(w)' /\ Covers(w, S)'
  BY <1>1, <1>2, <1>3, <1>4, <1>6, Bounds DEF Past, Covers
<1>7. Cached'
  <2>1. meta.watermark \in Nat /\ other.entry.watermark \in Nat
    BY Bounds DEF TypeOK, Entries
  <2> QED BY <1>1, <1>6, <2>1 DEF Safe, Cached
<1>8. ASSUME NEW p \in Fetches, Fetching(p) PROVE Fetching(p)'
  <2>1. p.since \in Nat /\ p.mark \in Nat /\ p.page \in Nat
    BY Bounds DEF Fetches
  <2>2. Fetching(p)
    BY <1>8
  <2>3. \A r \in Window(p.since)' : r \in Window(p.since) \/ r = new
    BY <1>1, <1>2, <1>3 DEF Window, Calm
  <2>4. \A r \in Window(p.since) : r \in 1 .. published /\ r \in Window(p.since)'
    BY <1>1, <1>2 DEF Window, Calm
  <2>5. p.step \in {"paging", "merge"} =>
          p.got \subseteq Window(p.since) /\ Seen(p)' /\ \A m \in p.got : ~(new <= m)
    BY <2>2, <2>4, <1>1, <1>2 DEF Fetching, Seen
  <2>6. p.step = "paging" => NoGap(p.got, p.since, p.page)'
    <3> SUFFICES ASSUME p.step = "paging", NEW m \in p.got, NEW r \in Window(p.since)',
                        r <= m, r + (p.page - 1) * PerPage > published'
                 PROVE  r \in p.got
      BY DEF NoGap
    <3>1. r \in Window(p.since)
      BY <2>3, <2>5
    <3>2. (p.page - 1) * PerPage \in Int
      BY <2>1, Bounds
    <3>3. r + (p.page - 1) * PerPage > published
      BY <3>1, <3>2, <2>4, <1>1
    <3> QED BY <3>1, <3>3, <2>2 DEF Fetching, NoGap
  <2>7. p.step = "merge" => \A m \in p.got : \A r \in Window(p.since)' : r <= m => r \in p.got
    BY <2>2, <2>3, <2>5 DEF Fetching
  <2>8. p.step # "idle" => Past(p.since)' /\ Covers(p.since, file.recs)' /\ Past(p.mark)'
    <3>1. p.step # "idle" => Past(p.since) /\ Covers(p.since, file.recs)
      BY <2>2 DEF Fetching
    <3>2. p.step # "idle" => Past(p.mark)'
      BY <2>2, <1>1 DEF Fetching, Past
    <3>3. ASSUME p.step # "idle" PROVE Covers(p.since, file.recs)' /\ Past(p.since)'
      BY <3>1, <3>3, <2>1, <1>6, <1>1
    <3> QED BY <3>2, <3>3
  <2>9. p.step = "write" => file.recs \subseteq p.merged /\ Covers(p.mark, p.merged)'
    <3>1. p.step = "write" => Past(p.mark) /\ file.recs \subseteq p.merged
                              /\ Covers(p.mark, p.merged)
      BY <2>2 DEF Fetching
    <3> QED BY <3>1, <2>1, <1>6
  <2>10. p.step = "meta" => Covers(p.mark, file.recs)'
    <3>1. p.step = "meta" => Past(p.mark) /\ Covers(p.mark, file.recs)
      BY <2>2 DEF Fetching
    <3> QED BY <3>1, <2>1, <1>6, <1>1
  <2>11. Fetching(p)'
    BY <2>2, <2>5, <2>6, <2>7, <2>8, <2>9, <2>10, <1>1 DEF Fetching
  <2> QED BY <2>11
<1>9. \A f \in Fetchers : fetcher[f] \in Fetches /\ fetcher'[f] = fetcher[f]
  BY <1>1 DEF TypeOK
<1>10. QED
  BY <1>5, <1>7, <1>8, <1>9 DEF Safe

\* As long as upstream publishes nothing and the copy does not shrink, what
\* holds of a fetch and of a watermark goes on holding.
LEMMA Frame ==
  ASSUME TypeOK, Safe, UNCHANGED <<published, pubDay>>, today' \in Nat, today <= today',
         file.recs \subseteq file'.recs
  PROVE  /\ Chronological'
         /\ \A w \in Nat : Past(w) => Past(w)'
         /\ \A w \in Nat : Covers(w, file.recs) => Covers(w, file.recs)'
         /\ \A p \in Fetches :
              Fetching(p) /\ (p.step = "write" => file' = file) => Fetching(p)'
<1>1. today \in Nat /\ published \in Nat
  BY DEF TypeOK, Days
<1>2. Chronological'
  <2>1. \A r \in 1 .. published : pubDay[r] \in Nat
    BY PublishedTyped
  <2> QED BY <1>1, <2>1 DEF Safe, Chronological
<1>3. \A w \in Nat : Past(w) => Past(w)'
  BY <1>1, Bounds DEF Past
<1>4. \A w \in Nat : Covers(w, file.recs) => Covers(w, file.recs)'
  BY DEF Covers
<1>5. ASSUME NEW p \in Fetches, Fetching(p), p.step = "write" => file' = file
      PROVE  Fetching(p)'
  <2>1. p.since \in Nat /\ p.mark \in Nat
    BY Bounds DEF Fetches
  <2>2. /\ Window(p.since)' = Window(p.since)
        /\ Seen(p)' <=> Seen(p)
        /\ NoGap(p.got, p.since, p.page)' <=> NoGap(p.got, p.since, p.page)
        /\ Covers(p.mark, p.merged)' <=> Covers(p.mark, p.merged)
    BY DEF Window, Seen, NoGap, Covers
  <2>3. Past(p.since) => Past(p.since)'
    BY <1>3, <2>1
  <2>4. Past(p.mark) => Past(p.mark)'
    BY <1>3, <2>1
  <2>5. Covers(p.since, file.recs) => Covers(p.since, file.recs)'
    BY <1>4, <2>1
  <2>6. Covers(p.mark, file.recs) => Covers(p.mark, file.recs)'
    BY <1>4, <2>1
  <2> QED BY <1>5, <2>2, <2>3, <2>4, <2>5, <2>6 DEF Fetching
<1>6. QED
  BY <1>2, <1>3, <1>4, <1>5

LEMMA WatermarksTyped ==
  ASSUME TypeOK
  PROVE  /\ today \in Nat /\ published \in Nat
         /\ meta.watermark \in Nat /\ other.entry.watermark \in Nat
         /\ \A f \in Fetchers : fetcher[f] \in Fetches
BY Bounds DEF TypeOK, Entries, Days

\* Steps that leave the cached copy and the fetcher alone.
LEMMA QuietSafe ==
  ASSUME TypeOK, Safe, UNCHANGED <<published, pubDay, file, fetcher>>,
         today' \in Nat, today <= today',
         meta'.watermark \in {meta.watermark, other.entry.watermark},
         other'.entry.watermark \in {meta.watermark, other.entry.watermark, 0}
  PROVE  Safe'
<1>1. Chronological'
  BY Frame
<1>2. Cached'
  <2>1. Past(0)' /\ Covers(0, file.recs)'
    <3>1. \A r \in 1 .. published : pubDay[r] \in Nat
      BY PublishedTyped
    <3> QED BY <3>1, Bounds DEF Past, Covers
  <2>2. Past(meta.watermark) /\ Covers(meta.watermark, file.recs)
        /\ Past(other.entry.watermark) /\ Covers(other.entry.watermark, file.recs)
    BY DEF Safe, Cached
  <2>3. \A w \in {meta.watermark, other.entry.watermark, 0} :
          Past(w)' /\ Covers(w, file.recs)'
    BY <2>1, <2>2, Frame, WatermarksTyped
  <2>4. Past(meta.watermark)' /\ Covers(meta.watermark, file.recs)'
    <3> DEFINE u == meta'.watermark
    <3>1. u \in {meta.watermark, other.entry.watermark, 0}
      OBVIOUS
    <3> QED BY <3>1, <2>3 DEF Past, Covers
  <2>5. Past(other.entry.watermark)' /\ Covers(other.entry.watermark, file.recs)'
    BY <2>3 DEF Past, Covers
  <2> QED BY <2>4, <2>5 DEF Safe, Cached
<1>3. \A f \in Fetchers : Fetching(fetcher[f])'
  <2> TAKE f \in Fetchers
  <2>1. Fetching(fetcher[f]) /\ fetcher'[f] = fetcher[f]
    BY DEF Safe
  <2>2. PICK p \in Fetches : p = fetcher[f]
    BY WatermarksTyped
  <2>3. Fetching(p)'
    BY <2>1, <2>2, Frame
  <2> QED BY <2>1, <2>2, <2>3
<1>4. QED
  BY <1>1, <1>2, <1>3 DEF Safe

LEMMA PageSafe ==
  ASSUME TypeOK, Calm, Chronological, NEW p \in Fetches, Fetching(p), p.step = "paging",
         NEW w \in Days, Latest(w, p.mark, Page(p.since, p.page))
  PROVE  Fetching(AfterPage(p, Page(p.since, p.page), w))
<1> DEFINE batch == Page(p.since, p.page)
           got == p.got \cup batch
           q == AfterPage(p, batch, w)
<1>1. /\ p.since \in 0 .. MaxDay /\ p.page \in 1 .. MaxPages /\ today \in Nat
      /\ p.mark \in Nat /\ p.since \in Nat /\ p.page \in Nat
  BY Bounds DEF Fetches, TypeOK, Days
<1>2. batch \subseteq Window(p.since) /\ got \subseteq Window(p.since)
  BY DEF Page, Fetching, Seen
<1>3. w = p.since \/ \E m \in got : w = pubDay[m]
  BY DEF Latest, Fetching, Seen
<1>4. Past(w)
  <2>1. CASE w = p.mark
    BY <2>1 DEF Fetching
  <2>2. CASE w # p.mark
    <3>1. PICK m \in batch : w = pubDay[m]
      BY <2>2 DEF Latest
    <3>2. m \in 1 .. published
      BY <3>1 DEF Page, Window
    <3>3. pubDay[m] <= today
      BY <3>2, <1>1 DEF Chronological
    <3> QED BY <3>1, <3>3 DEF Past
  <2> QED BY <2>1, <2>2
<1>5. NoGap(got, p.since, p.page + 1)
  BY <1>1, PageLeavesNoGap DEF Fetching, Seen
<1> HIDE DEF got, batch
<1>6. CASE Cardinality(batch) < PerPage
  <2>1. q.step = "merge" /\ q.got = got /\ q.mark = w /\ q.since = p.since
    BY <1>6 DEF AfterPage, Fetches, got
  <2>2. \A m \in got : \A r \in Window(p.since) : r <= m => r \in got
    <3>1. \A r \in Window(p.since) : r + p.page * PerPage > published
      BY <1>1, <1>6, ShortPageIsLast DEF Calm, batch
    <3>2. (p.page + 1) - 1 = p.page
      BY <1>1
    <3> QED BY <3>1, <3>2, <1>5 DEF NoGap
  <2>3. Seen(q)
    BY <2>1, <1>2, <1>3 DEF Seen
  <2> HIDE DEF q
  <2>4. Fetching(q)
    BY <2>1, <2>2, <2>3, <1>4 DEF Fetching
  <2> QED BY <2>4 DEF q, batch
<1>7. CASE ~(Cardinality(batch) < PerPage) /\ WithinCap(p.page)
  <2>2. q.step = "paging" /\ q.got = got /\ q.mark = w /\ q.since = p.since
        /\ q.page = p.page + 1
    BY <1>7 DEF AfterPage, Fetches, got
  <2>3. Seen(q)
    BY <2>2, <1>2, <1>3 DEF Seen
  <2> HIDE DEF q
  <2>4. Fetching(q)
    BY <2>2, <2>3, <1>4, <1>5 DEF Fetching
  <2> QED BY <2>4 DEF q, batch
<1>8. CASE q = Idle
  BY <1>8 DEF Fetching, Idle, batch
<1>9. QED
  BY <1>6, <1>7, <1>8 DEF AfterPage, batch

\* A fetch alone writes the copy, and then the watermark.
LEMMA FetchSafe ==
  ASSUME TypeOK, Calm, Safe, NEW f \in Fetchers,
         FetchStep(f) \/ GetFails(f) \/ KillFetcher(f)
  PROVE  Safe'
<1>1. PICK p \in Fetches : p = fetcher[f]
  BY WatermarksTyped
<1>2. Fetching(p) /\ p.since \in Nat /\ p.mark \in Nat /\ Chronological
  BY <1>1, Bounds DEF Safe, Fetches
<1>3. UNCHANGED <<today, published, pubDay, other>>
  BY DEF FetchStep, Begin, GetPage, Merge, WritePayload, WriteMeta, GetFails, KillFetcher,
         upstreamVars
<1>4. file' = file \/ (WritePayload(f) /\ p.step = "write" /\ file' = [state |-> "whole", recs |-> p.merged])
  BY <1>1 DEF Calm, FetchStep, Begin, GetPage, Merge, WritePayload, WriteMeta, GetFails,
              KillFetcher
<1>5. file.recs \subseteq file'.recs
  BY <1>2, <1>4 DEF Fetching
<1>6. /\ Chronological'
      /\ \A w \in Nat : Past(w) => Past(w)'
      /\ \A w \in Nat : Covers(w, file.recs) => Covers(w, file.recs)'
  BY <1>3, <1>5, Frame, WatermarksTyped
<1>7. Cached'
  <2>1. (file.state = "whole" \/ file.recs = {})' /\ (file.state # "torn")'
    BY <1>4 DEF Safe, Cached
  <2>2. Past(other.entry.watermark)' /\ Covers(other.entry.watermark, file.recs)'
    <3>1. PICK w \in Nat : w = other.entry.watermark /\ Past(w) /\ Covers(w, file.recs)
      BY WatermarksTyped DEF Safe, Cached
    <3> QED BY <3>1, <1>6, <1>3 DEF Past, Covers
  <2>3. PICK w \in Nat : w = meta'.watermark /\ Past(w) /\ Covers(w, file.recs)
    <3>1. CASE meta' = meta
      BY <3>1, WatermarksTyped DEF Safe, Cached
    <3>2. CASE meta' = NoEntry
      <4>1. \A r \in 1 .. published : pubDay[r] \in Nat
        BY PublishedTyped
      <4> QED BY <3>2, <4>1, Bounds DEF NoEntry, Past, Covers
    <3>3. CASE p.step = "meta" /\ meta' = [fresh |-> TRUE, watermark |-> p.mark]
      BY <3>3, <1>2 DEF Fetching
    <3> QED BY <1>1, <3>1, <3>2, <3>3 DEF FetchStep, Begin, GetPage, Merge, WritePayload,
              WriteMeta, GetFails, KillFetcher
  <2>4. Past(meta.watermark)' /\ Covers(meta.watermark, file.recs)'
    BY <2>3, <1>6 DEF Past, Covers
  <2> QED BY <2>1, <2>2, <2>4 DEF Cached
<1>8. PICK q \in Fetches : q = fetcher'[f]
  BY FetchTyped, WatermarksTyped DEF TypeOK
<1>9. Fetching(q)'
  <2>1. CASE WritePayload(f)
    <3>1. p.step = "write" /\ q = [p EXCEPT !.step = "meta"] /\ file'.recs = p.merged
      BY <2>1, <1>1, <1>8 DEF WritePayload, TypeOK
    <3>2. q.step = "meta" /\ q.since = p.since /\ q.mark = p.mark
      BY <3>1 DEF Fetches
    <3>3. Covers(p.mark, file.recs)' /\ Past(p.since)' /\ Covers(p.since, file.recs)'
          /\ Past(p.mark)' /\ p.mark \in Days
      BY <3>1, <1>2, <1>3, <1>6 DEF Fetching, Covers
    <3> QED BY <3>2, <3>3 DEF Fetching
  <2>2. ASSUME Fetching(q), file' = file PROVE Fetching(q)'
    BY <2>2, <1>3, Frame, WatermarksTyped
  <2>3. CASE q = Idle
    BY <2>3 DEF Fetching, Idle
  <2>4. CASE Begin(f)
    <3>1. q = [Idle EXCEPT !.step = "paging", !.since = Since, !.mark = Since] /\ file' = file
      BY <2>4, <1>8 DEF Begin, TypeOK
    <3>2. Past(Since) /\ Covers(Since, file.recs) /\ Since \in Days
      <4>1. \A r \in 1 .. published : pubDay[r] \in Nat
        BY PublishedTyped
      <4> QED BY <4>1, Bounds DEF Since, Past, Covers, Safe, Cached, TypeOK, Entries, Days
    <3>3. q.step = "paging" /\ q.since = Since /\ q.mark = Since /\ q.got = {}
      BY <3>1 DEF Idle
    <3>4. Fetching(q)
      BY <3>2, <3>3 DEF Fetching, Seen, NoGap
    <3> QED BY <3>1, <3>4, <2>2
  <2>5. CASE GetPage(f)
    <3>1. PICK w \in Days : /\ Latest(w, p.mark, Page(p.since, p.page))
                            /\ q = AfterPage(p, Page(p.since, p.page), w)
      BY <2>5, <1>1, <1>8 DEF GetPage, TypeOK
    <3>2. p.step = "paging" /\ file' = file
      BY <2>5, <1>1 DEF GetPage
    <3>3. Fetching(q)
      BY <3>1, <3>2, <1>2, PageSafe
    <3> QED BY <3>2, <3>3, <2>2
  <2>6. CASE Merge(f)
    <3>1. p.step = "merge" /\ q = [p EXCEPT !.step = "write", !.merged = Merged(p.got)]
          /\ file' = file
      BY <2>6, <1>1, <1>8 DEF Merge, TypeOK
    <3>2. q.step = "write" /\ q.since = p.since /\ q.mark = p.mark /\ q.merged = Merged(p.got)
      BY <3>1 DEF Fetches
    <3>3. Merged(p.got) = file.recs \cup p.got
      BY DEF Merged, Safe, Cached
    <3>4. Covers(p.mark, file.recs \cup p.got)
      BY <3>1, <1>2, MarkIsCovered DEF Fetching, Calm
    <3>5. Fetching(q)
      BY <3>1, <3>2, <3>3, <3>4, <1>2 DEF Fetching
    <3> QED BY <3>1, <3>5, <2>2
  <2>7. CASE WriteMeta(f) \/ GetFails(f) \/ KillFetcher(f)
    BY <2>7, <2>3, <1>8 DEF WriteMeta, GetFails, KillFetcher, TypeOK
  <2> QED BY <2>1, <2>4, <2>5, <2>6, <2>7 DEF FetchStep
<1>10. \A g \in Fetchers : Fetching(fetcher[g])'
  BY <1>8, <1>9 DEF Calm
<1>11. QED
  BY <1>6, <1>7, <1>10 DEF Safe

LEMMA StepSafe ==
  ASSUME TypeOK, Calm, Safe, [Next]_vars
  PROVE  Safe'
<1>1. CASE Publish
  BY <1>1, PublishSafe
<1>2. ASSUME NEW f \in Fetchers, FetchStep(f) \/ GetFails(f) \/ KillFetcher(f)
      PROVE  Safe'
  BY <1>2, FetchSafe
<1>3. CASE NextDay \/ Expire \/ OtherReads \/ OtherWrites
  <2>1. /\ UNCHANGED <<published, pubDay, file, fetcher>>
        /\ today' \in Nat /\ today <= today'
        /\ meta'.watermark \in {meta.watermark, other.entry.watermark}
        /\ other'.entry.watermark \in {meta.watermark, other.entry.watermark, 0}
    BY <1>3, WatermarksTyped DEF NextDay, Expire, OtherReads, OtherWrites, TypeOK, Entries,
       NoCopy, NoEntry, upstreamVars, cacheVars
  <2> QED BY <2>1, QuietSafe
<1>4. CASE ReconStep \/ KillReconciler \/ Submit \/ UNCHANGED vars
  <2>1. UNCHANGED <<upstreamVars, cacheVars>>
    BY <1>4 DEF ReconStep, ReadFeed, ReadLayer, WriteLayer, KillReconciler, Submit, vars
  <2> QED BY <2>1, QuietSafe, WatermarksTyped DEF upstreamVars, cacheVars
<1>5. QED
  BY <1>1, <1>2, <1>3, <1>4 DEF Next

LEMMA Invariance == Spec => []IInv
<1>1. Init => IInv
  BY InitTyped, InitSafe DEF IInv
<1>2. IInv /\ [Next]_vars => IInv'
  BY StepTyped, StepSafe DEF IInv, Calm
<1>3. QED
  BY <1>1, <1>2, PTL DEF Spec

-----------------------------------------------------------------------------
\* The cache, every fetch in progress and the reconciler stay well typed; in
\* particular no fetch asks for more than MAX_FEED_PAGES pages.
THEOREM TypeCorrect == Spec => []TypeOK
<1>1. IInv => TypeOK
  BY DEF IInv
<1>2. QED
  BY <1>1, Invariance, PTL

\* With one fetcher of the feed at a time, payload writes that a kill does not
\* cut in two, and an upstream that publishes under today's date and includes
\* the day asked for, nothing that was published ever falls behind the
\* watermark without being in the cached copy.
THEOREM NothingFallsBehind == ASSUME Calm PROVE Spec => []WatermarkCovers
<1>1. IInv => WatermarkCovers
  BY DEF IInv, Safe, Cached, Covers, WatermarkCovers
<1>2. QED
  BY <1>1, Invariance, PTL
=============================================================================
