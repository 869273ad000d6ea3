----------------------------- MODULE Countersign -----------------------------
(***************************************************************************)
(* The countersign workbench (countersign.py): the human inbox of a        *)
(* findings layer.  `queue` renders one card per pending decision, the     *)
(* signer marks the cards offline, and `apply` works through them;         *)
(* `record` takes one decision on any finding or mapping.                  *)
(*                                                                         *)
(* record_decisions reads the layer once, hands every validity decision to *)
(* the ledger service as it comes, collects the decisions on rebaseline    *)
(* mappings in its own copy of the alias table, writes that table back,    *)
(* re-reads the layer, closes the review items of the decided findings     *)
(* and rebuilds the cumulative report.  Between any two of these steps     *)
(* other signers and the emitters write to the same layer.                 *)
(*                                                                         *)
(* All of it happens on one calendar day: a signer's second signature for  *)
(* the same validity is then the same event.                               *)
(***************************************************************************)
EXTENDS Events

CONSTANTS
  Findings,   \* ids of the current baseline's findings
  OldIds,     \* ids of the superseded baseline with a proposed mapping
  NewId,      \* [OldIds -> Findings], the proposals
  Items,      \* review items an emitter may queue
  ItemRef,    \* [Items -> Findings], their suggested_finding_ref
  Signers,    \* people with a verified ledger token, one session each
  Decisions,  \* validity and severity decisions they may take
  Blanks,     \* whether a rationale may be left blank
  Refusals,   \* whether the ledger service may refuse a signature
  MaxKills    \* bound on killed sessions

\* A rebaseline mints new ids for all findings.
ASSUME IdsAssumption ==
  /\ OldIds \cap Findings = {}
  /\ NewId \in [OldIds -> Findings]
  /\ ItemRef \in [Items -> Findings]

ASSUME BoundsAssumption ==
  /\ MaxKills \in Nat
  /\ {Blanks, Refusals} \subseteq BOOLEAN
  /\ Decisions \subseteq
       Severities \cup {"keep_open", "reopen", "false_positive", "override_false_positive"}

VARIABLES
  log,      \* the layer's events, in append order
  alias,    \* metadata.finding_aliases
  review,   \* needs_review: status of each item and the log's length at its arrival
  session,  \* what each signer's workbench is doing
  adopted,  \* history: positions of events that adopted a machine rationale
  kills

vars == <<log, alias, review, session, adopted, kills>>

Mapping    == {"pending", "confirmed", "rejected"}
ItemStatus == {"absent", "pending", "confirmed", "rejected"}
Idle       == [step |-> "idle"]

Session ==
  {Idle}
    \cup [step: {"cards"}, todo: SUBSET (Findings \cup OldIds)]
    \cup [step: {"deciding"}, todo: SUBSET (Findings \cup OldIds),
          decided: SUBSET (Findings \cup OldIds), copy: [OldIds -> Mapping],
          dirty: BOOLEAN]
    \cup [step: {"closing"}, items: SUBSET Items]

-----------------------------------------------------------------------------
(* What the layer says.                                                    *)

\* The replay of build_cumulative: a confirmed mapping carries the history of
\* the old id over to the new one.
RefOf(f)     == IF f \in OldIds /\ alias[f] = "confirmed" THEN NewId[f] ELSE f
Replayed(f)  == {i \in DOMAIN log : RefOf(log[i].ref) = f}

Awaiting(f)  == RefutedAwaitingSignoff("not_verified", log, Replayed(f))

\* discover_pending replays the events filed under the finding's own id.
Own(f) == EventsOf(log, f)

\* Mutant: the finding has a review item, so it needs no card.
AttentionUnqueued(f) ==
  /\ \A i \in Items : ItemRef[i] = f => review[i].status # "pending"
  /\ \/ RefutedAwaitingSignoff("not_verified", log, Own(f))
     \/ FpReassertionBlocked(log, Own(f))
     \/ Conflict(log, Own(f))

\* The card that a finding gets has a decision line (that of an overturned
\* dismissal has none).
Attention(f) ==
  \/ RefutedAwaitingSignoff("not_verified", log, Own(f))
  \/ /\ ~FpOverridden(log, Own(f))
     /\ FpReassertionBlocked(log, Own(f)) \/ Conflict(log, Own(f))

Cards == {f \in Findings : Attention(f)} \cup {o \in OldIds : alias[o] = "pending"}

HumanWordAfter(f, n) == \E i \in DOMAIN log : i > n /\ log[i].ref = f /\ log[i].kind = "human"

-----------------------------------------------------------------------------
(* The emitters.                                                           *)

Emit(e) ==
  /\ \A i \in DOMAIN log : EventId(log[i]) # EventId(e)
  /\ log' = Append(log, e)
  /\ UNCHANGED <<alias, review, session, adopted, kills>>

Refute(f) == Emit(TriageEvent(f, "false_positive", Len(log)))

Prove(f)  == Emit(ValidationEvent(1, f, "confirmed", Len(log)))

Enqueue(i) ==
  /\ review[i].status = "absent"
  /\ review' = [review EXCEPT ![i] = [status |-> "pending", at |-> Len(log)]]
  /\ UNCHANGED <<log, alias, session, adopted, kills>>

-----------------------------------------------------------------------------
(* A session.                                                              *)

\* cmd_queue.
Queue(p) ==
  /\ session[p] = Idle
  /\ Cards # {}
  /\ session' = [session EXCEPT ![p] = [step |-> "cards", todo |-> Cards]]
  /\ UNCHANGED <<log, alias, review, adopted, kills>>

Deciding(todo) ==
  [step |-> "deciding", todo |-> todo, decided |-> {}, copy |-> alias, dirty |-> FALSE]

\* cmd_apply on the marked queue, cmd_record on one id: record_decisions opens
\* the layer.
Apply(p) ==
  /\ session[p].step = "cards"
  /\ session' = [session EXCEPT ![p] = Deciding(session[p].todo)]
  /\ UNCHANGED <<log, alias, review, adopted, kills>>

Record(p, c) ==
  /\ session[p] = Idle
  /\ session' = [session EXCEPT ![p] = Deciding({c})]
  /\ UNCHANGED <<log, alias, review, adopted, kills>>

Takes(p, c) == session[p].step = "deciding" /\ c \in session[p].todo

Taken(p, c) ==
  [session EXCEPT ![p].todo = @ \ {c}, ![p].decided = @ \cup {c}]

Defer(p, c) ==
  /\ Takes(p, c)
  /\ session' = [session EXCEPT ![p].todo = @ \ {c}]
  /\ UNCHANGED <<log, alias, review, adopted, kills>>

\* A blank rationale adopts the machine's for a false_positive and is an error
\* for every other decision, which ends the program where it stands.
Sign(p, f, d) ==
  /\ Takes(p, f)
  /\ \E blank \in {FALSE, Blanks} :
       LET e == SignedEvent(p, f, d, Len(log))
           fresh == \A i \in DOMAIN log : EventId(log[i]) # EventId(e)
       IN /\ blank => d = "false_positive"
          /\ log' = IF fresh THEN Append(log, e) ELSE log
          /\ adopted' = IF fresh /\ blank THEN adopted \cup {Len(log')} ELSE adopted
  /\ session' = Taken(p, f)
  /\ UNCHANGED <<alias, review, kills>>

Abort(p, f) ==
  /\ Takes(p, f)
  /\ Blanks /\ Decisions # {"false_positive"}
  /\ session' = [session EXCEPT ![p] = Idle]
  /\ UNCHANGED <<log, alias, review, adopted, kills>>

\* The ledger service raises; the receipt says "rejected" and the loop goes on.
Refused(p, f) ==
  /\ Takes(p, f)
  /\ Refusals
  /\ session' = Taken(p, f)
  /\ UNCHANGED <<log, alias, review, adopted, kills>>

\* Mutant: a settled mapping may be decided again.
SettleAgain(table, o, verdict) == [table EXCEPT ![o] = verdict]

\* A mapping that is settled in the session's copy is skipped.
Settle(table, o, verdict) ==
  IF table[o] = "pending" THEN [table EXCEPT ![o] = verdict] ELSE table

DecideMapping(p, o) ==
  /\ Takes(p, o)
  /\ \E verdict \in {"confirmed", "rejected"} :
       LET table == Settle(session[p].copy, o, verdict)
       IN session' = [Taken(p, o) EXCEPT ![p].copy = table,
                                        ![p].dirty = @ \/ table # session[p].copy]
  /\ UNCHANGED <<log, alias, review, adopted, kills>>

\* patch_layer_file: every mapping of the session's copy replaces the layer's.
Patch(p) ==
  /\ session[p].step = "deciding" /\ session[p].todo = {} /\ session[p].dirty
  /\ alias' = session[p].copy
  /\ session' = [session EXCEPT ![p].dirty = FALSE]
  /\ UNCHANGED <<log, review, adopted, kills>>

\* Mutant: the workbench as it was until 2026-08-25, when no item was closed.
PendingNone(decided) == {}

\* Mutant: whatever is pending.
PendingAny(decided) == {i \in Items : review[i].status = "pending"}

\* Mutant: the findings of the items in the place of their keys.
PendingRefs(decided) == {ItemRef[i] : i \in PendingAny(decided)}

\* The items that the decisions answer, deferred ones excepted.
PendingOf(decided) ==
  {i \in Items : review[i].status = "pending" /\ ItemRef[i] \in decided}

\* The layer is read again.
Reread(p) ==
  /\ session[p].step = "deciding" /\ session[p].todo = {} /\ ~session[p].dirty
  /\ session' = [session EXCEPT ![p] =
                   [step |-> "closing", items |-> PendingOf(session[p].decided)]]
  /\ UNCHANGED <<log, alias, review, adopted, kills>>

\* The service takes "confirmed" only when a person's event is in the layer;
\* the workbench then asks for "rejected".
Close(p, i) ==
  /\ session[p].step = "closing" /\ i \in session[p].items
  /\ review' = IF review[i].status # "pending" THEN review
               ELSE [review EXCEPT ![i].status =
                       IF HumanWordAfter(ItemRef[i], 0) THEN "confirmed" ELSE "rejected"]
  /\ session' = [session EXCEPT ![p].items = @ \ {i}]
  /\ UNCHANGED <<log, alias, adopted, kills>>

\* build_cumulative writes no state of the layer.
Rebuild(p) ==
  /\ session[p].step = "closing" /\ session[p].items = {}
  /\ session' = [session EXCEPT ![p] = Idle]
  /\ UNCHANGED <<log, alias, review, adopted, kills>>

Kill(p) ==
  /\ session[p] # Idle
  /\ kills < MaxKills
  /\ kills' = kills + 1
  /\ session' = [session EXCEPT ![p] = Idle]
  /\ UNCHANGED <<log, alias, review, adopted>>

\* The events of the superseded findings were filed before the rebaseline.
Init ==
  /\ log \in {<<>>} \cup {<<TriageEvent(o, "false_positive", 0)>> : o \in OldIds}
  /\ alias = [o \in OldIds |-> "pending"]
  /\ review = [i \in Items |-> [status |-> "absent", at |-> 0]]
  /\ session = [p \in Signers |-> Idle]
  /\ adopted = {}
  /\ kills = 0

Next ==
  \/ \E f \in Findings : Refute(f) \/ Prove(f)
  \/ \E i \in Items : Enqueue(i)
  \/ \E p \in Signers :
       \/ Queue(p) \/ Apply(p) \/ Patch(p) \/ Reread(p) \/ Rebuild(p) \/ Kill(p)
       \/ \E c \in Findings \cup OldIds : Record(p, c) \/ Defer(p, c)
       \/ \E f \in Findings : Abort(p, f) \/ Refused(p, f) \/ \E d \in Decisions : Sign(p, f, d)
       \/ \E o \in OldIds : DecideMapping(p, o)
       \/ \E i \in Items : Close(p, i)

Spec == Init /\ [][Next]_vars

\* The program runs on once started, and people work their inbox: they open it
\* again and again, and the same card is not put off, left blank, refused or
\* answered beside the point for ever.
Fairness ==
  \A p \in Signers :
    /\ WF_vars(Patch(p) \/ Reread(p) \/ Rebuild(p) \/ \E i \in Items : Close(p, i))
    /\ SF_vars(Queue(p)) /\ SF_vars(Apply(p))
    /\ \A f \in Findings : SF_vars(\E d \in Decisions \ Severities : Sign(p, f, d))
    /\ \A c \in Findings \cup OldIds : SF_vars(Defer(p, c))

FairSpec == Spec /\ Fairness

-----------------------------------------------------------------------------
TypeOK ==
  /\ \A i \in DOMAIN log : log[i].ref \in Findings \cup OldIds
  /\ alias \in [OldIds -> Mapping]
  /\ review \in [Items -> [status: ItemStatus, at: 0 .. Len(log)]]
  /\ session \in [Signers -> Session]
  /\ adopted \subseteq DOMAIN log
  /\ kills \in 0 .. MaxKills

AtRest == \A p \in Signers : session[p] = Idle

\* A review item that a signature answered does not stay pending: the human
\* inbox shrinks as it is worked.
AnsweredItemsClose ==
  AtRest => \A i \in Items :
    review[i].status = "pending" => ~HumanWordAfter(ItemRef[i], review[i].at)

\* An item leaves the inbox only once a person's word on its finding is in the
\* layer.
ClosedItemsWereDecided ==
  \A i \in Items : review[i].status \in {"confirmed", "rejected"} =>
    HumanWordAfter(ItemRef[i], 0)

\* A mapping that a person refused is never re-proposed, nor one they confirmed
\* withdrawn.
SettledMappingsStay ==
  [][\A o \in OldIds : alias[o] # "pending" => alias'[o] = alias[o]]_alias

\* A machine refutation that waits for a signature gets a human decision in the
\* end, through deferrals, aborted and killed sessions.
RefutationsAreDecided == \A f \in Findings : Awaiting(f) ~> ~Awaiting(f)

-----------------------------------------------------------------------------
(* What the documentation says and the code does not keep.                 *)

\* "Every awaiting-signoff finding" is in the inbox
EveryRefutationHasACard == \A f \in Findings : Awaiting(f) => f \in Cards

\* "rationale in your own words required either way for a conflict"
ConflictsAreDecidedInOwnWords ==
  \A n \in adopted :
    LET before == {i \in DOMAIN log : i < n /\ log[i].ref = log[n].ref}
    IN ~Conflict(log, before)

\* "Resolve every pending needs_review item this decision answers": a decision
\* answers nothing that was not yet asked.
ClosedItemsWereOpen ==
  \A i \in Items : review[i].status \in {"confirmed", "rejected"} =>
    HumanWordAfter(ItemRef[i], review[i].at)
=============================================================================
