------------------------------- MODULE Routing -------------------------------
(***************************************************************************)
(* The two routers that file findings between audits: route_regressions    *)
(* (the regressions of a verification report) and route_impact_findings    *)
(* (an advisory that affects the repository).  A router reads the layer,   *)
(* mints the first free number for each claim that is not filed yet, and   *)
(* appends a birth event that carries the claim; the regression router     *)
(* also pins the claim's hash in the layer's metadata and writes the       *)
(* number back to its report.                                              *)
(*                                                                         *)
(* Each write is a step of its own and a router may be killed between two  *)
(* of them; routers interleave.  All numbers are of one (slug, sha7), the  *)
(* only case in which they can meet.  A claim stands for its finding       *)
(* block, and for the hash of it.                                          *)
(***************************************************************************)
EXTENDS Naturals, Sequences, FiniteSetsExt, TLC

CONSTANTS
  Runs,         \* router processes that may be live at the same time
  Reports,      \* verification reports of the repository
  RegsOf,       \* [Reports -> Seq of regressions]
  Advisories,   \* advisories whose impact artifact names the repository
  Baseline,     \* [numbers of the audit baseline -> claims]
  NoClaim,      \* the claim of an event that carries none
  Mixed,        \* whether routers of different sources overlap
  MaxCrashes    \* bound on killed routers

Regs     == UNION {Range(RegsOf[v]) : v \in Reports}
BaseIds  == DOMAIN Baseline
Claims   == Regs \cup Advisories \cup Range(Baseline)
Unrouted == 0

ASSUME BoundsAssumption ==
  /\ RegsOf \in [Reports -> Seq(Regs)]
  /\ IsFiniteSet(BaseIds) /\ BaseIds \subseteq Nat \ {0}
  /\ Reports \cap Advisories = {}
  /\ NoClaim \notin Claims
  /\ Mixed \in BOOLEAN
  /\ MaxCrashes \in Nat

VARIABLES
  events,    \* birth events of the layer, each with its place in the append order
  pins,      \* metadata.claim_hashes: number -> claim
  routedId,  \* routed_id of every regression in its report
  run,       \* what each router is doing
  crashes

vars == <<events, pins, routedId, run, crashes>>

Event ==
  [src: Reports \cup Advisories, id: Nat \ {0}, claim: Claims \cup {NoClaim}, at: Nat \ {0}]

Birth(src, id, claim, at) == [src |-> src, id |-> id, claim |-> claim, at |-> at]

\* Validity is empty and the resolution "open" on each of these events.
SameEventId(e, b) == e.src = b.src /\ e.id = b.id

Filed(evs, b) == \E e \in evs : SameEventId(e, b)

-----------------------------------------------------------------------------
(* What a layer says.                                                      *)

\* findings_from_events: an id's last event that carries a claim.
Carriers(evs, id) == {e \in evs : e.id = id /\ e.claim # NoClaim}
CarriedIds(evs)   == {e.id : e \in {x \in evs : x.claim # NoClaim}}
CarriedClaim(evs, id) ==
  (CHOOSE e \in Carriers(evs, id) : \A x \in Carriers(evs, id) : x.at <= e.at).claim

KnownIds(evs) == BaseIds \cup CarriedIds(evs)

\* The numbers under which a claim is filed, in the baseline or on an event.
IdsOf(evs, c) ==
  {id \in BaseIds : Baseline[id] = c}
    \cup {id \in CarriedIds(evs) : CarriedClaim(evs, id) = c}

\* Mutant: counts the baseline only.
NextSequenceOfBaseline(evs) == 1 + Max(BaseIds \cup {0})

\* Mutant: skips the numbers that are pinned as well.
NextSequenceAfterPins(evs) == 1 + Max(KnownIds(evs) \cup DOMAIN pins \cup {0})

\* next_sequence: the first free number of (slug, sha7).
NextSequence(evs) == 1 + Max(KnownIds(evs) \cup {0})

\* verify_claim_hashes: the build of the cumulative report is refused.  The
\* baseline's own claim wins over one an event carries.
ClaimOf(evs, id) == IF id \in BaseIds THEN Baseline[id] ELSE CarriedClaim(evs, id)

BuildRefused ==
  \E id \in DOMAIN pins : id \notin KnownIds(events) \/ ClaimOf(events, id) # pins[id]

-----------------------------------------------------------------------------
(* route_regressions.                                                      *)

Idle == [step |-> "idle"]

\* A router of src may start beside those that run.
MayStart(p, src) ==
  /\ run[p] = Idle
  /\ Mixed \/ \A q \in {o \in Runs : run[o] # Idle} : run[q].src = src

\* Of several numbers of one claim, the one that entered the layer last.
Born(id) ==
  IF id \in CarriedIds(events) THEN Min({e.at : e \in Carriers(events, id)}) ELSE 0

LastOf(ids) == CHOOSE id \in ids : \A other \in ids : Born(other) <= Born(id)

\* Mutant: the number is looked up in the report only.
PriorInReport(r) == IF routedId[r] \in KnownIds(events) THEN routedId[r] ELSE Unrouted

\* The number a regression already has: the one its claim is filed under, else
\* the routed_id of the report when that number is known.
Prior(r) ==
  IF IdsOf(events, r) # {} THEN LastOf(IdsOf(events, r))
  ELSE IF routedId[r] \in KnownIds(events) THEN routedId[r]
  ELSE Unrouted

IsFresh(r) == Prior(r) = Unrouted

RegsIn(v)   == Range(RegsOf[v])
FreshOf(v)  == {r \in RegsIn(v) : IsFresh(r)}
Place(v, r) == Min({i \in DOMAIN RegsOf[v] : RegsOf[v][i] = r})

\* Mutant: the in-memory layer does not grow inside the loop.
NumberOfFirst(v, r) == IF IsFresh(r) THEN NextSequence(events) ELSE Prior(r)

\* The loop appends to its in-memory copy of the layer, so the fresh regressions
\* of one report get consecutive numbers.
NumberOf(v, r) ==
  IF IsFresh(r)
    THEN NextSequence(events) + Cardinality({s \in FreshOf(v) : Place(v, s) < Place(v, r)})
    ELSE Prior(r)

\* A healed event restates no claim.
BirthOf(v, r) == Birth(v, NumberOf(v, r), IF IsFresh(r) THEN r ELSE NoClaim, Place(v, r))

\* Their places are those in the report.
NewEvents(v) ==
  {b \in {BirthOf(v, r) : r \in RegsIn(v)} :
     /\ ~Filed(events, b)
     /\ \A r \in RegsIn(v) : SameEventId(BirthOf(v, r), b) => b.at <= Place(v, r)}

\* Add-only: a number that is pinned keeps its hash in this copy.
PinsOf(v) ==
  pins @@ [id \in {NumberOf(v, r) : r \in FreshOf(v)} |->
             CHOOSE r \in FreshOf(v) : NumberOf(v, r) = id]

\* The report and the layer are read and the whole plan is made.  With nothing
\* fresh and no event missing, nothing at all is written.
RouteRegressions(p, v) ==
  /\ MayStart(p, v)
  /\ FreshOf(v) # {} \/ NewEvents(v) # {}
  /\ run' = [run EXCEPT ![p] =
               [step |-> "pin", src |-> v, new |-> NewEvents(v), pins |-> PinsOf(v),
                back |-> [r \in RegsIn(v) |-> NumberOf(v, r)]]]
  /\ UNCHANGED <<events, pins, routedId, crashes>>

\* patch_layer_file merges the router's copy of claim_hashes into the layer's.
Pin(p) ==
  /\ run[p].step = "pin"
  /\ pins' = run[p].pins @@ pins
  /\ run' = [run EXCEPT ![p].step = "submit"]
  /\ UNCHANGED <<events, routedId, crashes>>

\* submit_events appends what the layer, as it now is, does not have.
End(evs) == Max({e.at : e \in evs} \cup {0})

AppendFresh(evs, new) ==
  evs \cup {[b EXCEPT !.at = End(evs) + b.at] : b \in {x \in new : ~Filed(evs, x)}}

Submit(p) ==
  /\ run[p].step = "submit"
  /\ events' = AppendFresh(events, run[p].new)
  /\ run' = [run EXCEPT ![p].step = "write"]
  /\ UNCHANGED <<pins, routedId, crashes>>

\* The report is written whole, with the routed_ids of the plan.
WriteReport(p) ==
  /\ run[p].step = "write"
  /\ routedId' = [r \in Regs |-> IF r \in DOMAIN run[p].back THEN run[p].back[r] ELSE routedId[r]]
  /\ run' = [run EXCEPT ![p] = Idle]
  /\ UNCHANGED <<events, pins, crashes>>

-----------------------------------------------------------------------------
(* route_impact_findings, for one artifact and one of its repositories.    *)

\* An advisory that is not filed: read the layer, mint, and submit.  No claim
\* is pinned.
RouteImpact(p, a) ==
  /\ MayStart(p, a)
  /\ IdsOf(events, a) = {}
  /\ run' = [run EXCEPT ![p] =
               [step |-> "file", src |-> a, new |-> {Birth(a, NextSequence(events), a, 1)}]]
  /\ UNCHANGED <<events, pins, routedId, crashes>>

File(p) ==
  /\ run[p].step = "file"
  /\ events' = AppendFresh(events, run[p].new)
  /\ run' = [run EXCEPT ![p] = Idle]
  /\ UNCHANGED <<pins, routedId, crashes>>

-----------------------------------------------------------------------------
Crash(p) ==
  /\ run[p] # Idle
  /\ crashes < MaxCrashes
  /\ crashes' = crashes + 1
  /\ run' = [run EXCEPT ![p] = Idle]
  /\ UNCHANGED <<events, pins, routedId>>

Init ==
  /\ events = {}
  /\ pins = <<>>
  /\ routedId = [r \in Regs |-> Unrouted]
  /\ run = [p \in Runs |-> Idle]
  /\ crashes = 0

Step(p) == Pin(p) \/ Submit(p) \/ WriteReport(p) \/ File(p)

Next ==
  \E p \in Runs :
    \/ \E v \in Reports : RouteRegressions(p, v)
    \/ \E a \in Advisories : RouteImpact(p, a)
    \/ Pin(p) \/ Submit(p) \/ WriteReport(p) \/ File(p)
    \/ Crash(p)

Spec == Init /\ [][Next]_vars

\* A started router runs on unless it is killed, and the routers run again on a
\* cadence, for every report.
Fairness ==
  /\ \A p \in Runs : WF_vars(Step(p))
  /\ \A v \in Reports : SF_vars(\E p \in Runs : RouteRegressions(p, v))

FairSpec == Spec /\ Fairness

-----------------------------------------------------------------------------
TypeOK ==
  /\ events \subseteq Event
  /\ DOMAIN pins \subseteq Nat \ {0} /\ Range(pins) \subseteq Claims
  /\ routedId \in [Regs -> Nat]
  /\ crashes \in 0 .. MaxCrashes

\* Re-running a router, after a crash as well, files nothing a second time.
FiledOnce ==
  \A c \in Regs \cup Advisories : Cardinality(IdsOf(events, c)) <= 1

\* A claim that was filed stays the claim of its number: no later birth event
\* supersedes it.
FiledClaimsStay ==
  [][\A id \in CarriedIds(events) : CarriedClaim(events, id)' = CarriedClaim(events, id)]_events

\* A routed_id in a report resolves to the finding of that very regression.
BackReferenceResolves ==
  \A r \in Regs : routedId[r] # Unrouted =>
     routedId[r] \in KnownIds(events) /\ ClaimOf(events, routedId[r]) = r

\* Every regression is filed, through any crashes.
EveryRegressionIsFiled == <>(\A r \in Regs : IdsOf(events, r) # {})

\* The number of a pin was given to another claim.
Overtaken == \E id \in DOMAIN pins : id \in KnownIds(events) /\ ClaimOf(events, id) # pins[id]

\* A pin without its claim, which a crash between the two writes leaves behind,
\* blocks the build only until the router has run again, unless a finding of
\* another report has taken its number.
RefusalHeals == BuildRefused ~> ~BuildRefused \/ Overtaken

-----------------------------------------------------------------------------
(* What the documentation says and the code does not keep.                 *)

\* "IDs are sha-scoped so collisions cannot occur"
NoCollision ==
  \A d, e \in events :
    d.id = e.id /\ d.claim # NoClaim /\ e.claim # NoClaim => d.claim = e.claim

\* "heal the back-reference": the next completed run on the same report restores
\* a routed_id that a crash kept from being written.
BackReferenceHeals ==
  <>(\A r \in Regs : routedId[r] # Unrouted)

\* Claim errors "are silent in-place edits or deleted baselined findings": with
\* no claim edited or deleted, and all routed, the build goes through.
OnlyEditsAreRefused ==
  (\A p \in Runs : run[p] = Idle) /\ (\A r \in Regs : routedId[r] # Unrouted)
    => ~BuildRefused
=============================================================================
