-------------------------- MODULE CountersignProofs --------------------------
(***************************************************************************)
(* The human inbox of a findings layer, for every number of signers,       *)
(* findings, mappings and review items.  The argument: a pending item that *)
(* a signature answers is always on some session's way to be closed, and a *)
(* session only closes what the layer holds a person's word on.            *)
(***************************************************************************)
EXTENDS Countersign, TLAPS

Ids == Findings \cup OldIds

Event ==
  [ref: Ids, src: SourceTypes, doc: Nat, who: Signers \cup SourceTypes,
   kind: {"machine", "human"}, verified: BOOLEAN, auto: BOOLEAN,
   grade: Grades \cup {NoValue}, at: Nat, validity: Validities \cup {NoValue},
   resolution: {NoValue}, severity: Severities \cup {NoValue}]

\* The workbench, and nothing else, writes interactive events, on behalf of people.
Attributed(e) == e.src = "interactive" <=> e.kind = "human"

Typed ==
  /\ log \in Seq(Event)
  /\ \A i \in DOMAIN log : Attributed(log[i])
  /\ TypeOK

DecidingSession ==
  [step: {"deciding"}, todo: SUBSET Ids, decided: SUBSET Ids, copy: [OldIds -> Mapping],
   dirty: BOOLEAN]

-----------------------------------------------------------------------------
(* Events and sessions.                                                    *)

LEMMA RefutationBuilds ==
  ASSUME NEW f \in Ids, NEW t \in Nat
  PROVE  LET e == TriageEvent(f, "false_positive", t)
         IN e \in Event /\ Attributed(e) /\ e.ref = f /\ e.kind = "machine"
<1>1. TriageValidity["false_positive"] = "false_positive"
  BY DEF TriageValidity
<1>2. ("false_positive" = "auto_false_positive") \in BOOLEAN
  OBVIOUS
<1>3. QED
  BY <1>1, <1>2 DEF TriageEvent, MachineEvent, Event, Attributed, NoValue, Validities, SourceTypes

LEMMA ProofBuilds ==
  ASSUME NEW f \in Ids, NEW t \in Nat
  PROVE  LET e == ValidationEvent(1, f, "confirmed", t)
         IN e \in Event /\ Attributed(e) /\ e.ref = f /\ e.kind = "machine"
BY DEF ValidationEvent, MachineEvent, Event, Attributed, NoValue, Validities, SourceTypes, Grades

LEMMA SignatureBuilds ==
  ASSUME NEW h \in Signers, NEW f \in Ids, NEW d, NEW t \in Nat
  PROVE  LET e == SignedEvent(h, f, d, t)
         IN e \in Event /\ Attributed(e) /\ e.ref = f /\ e.kind = "human" /\ e.src = "interactive"
<1>1. t \div DayLength \in Nat
  BY DayAssumption
<1>2. QED
  BY <1>1 DEF SignedEvent, MachineEvent, Event, Attributed, NoValue, Validities, Severities,
     SourceTypes

LEMMA SessionShape ==
  ASSUME NEW s \in Session
  PROVE  /\ s.step \in {"idle", "cards", "deciding", "closing"}
         /\ s.step = "idle" => s = Idle
         /\ s.step = "cards" => s.todo \in SUBSET Ids
         /\ s.step = "deciding" => s \in DecidingSession
         /\ s.step = "closing" => s \in [step: {"closing"}, items: SUBSET Items]
BY DEF Session, Idle, DecidingSession, Ids

LEMMA SessionsAre ==
  /\ Idle \in Session
  /\ \A t \in SUBSET Ids : [step |-> "cards", todo |-> t] \in Session
  /\ \A s \in DecidingSession : s \in Session
  /\ \A m \in SUBSET Items : [step |-> "closing", items |-> m] \in Session
BY DEF Session, DecidingSession, Ids

\* The log of a step: unchanged, or one event longer.
Grows(e) == log' = log \/ log' = Append(log, e)

LEMMA GrowthTyped ==
  ASSUME Typed, NEW e \in Event, Attributed(e), Grows(e)
  PROVE  /\ log' \in Seq(Event) /\ \A i \in DOMAIN log' : Attributed(log'[i])
         /\ Len(log') \in Nat /\ Len(log) \in Nat /\ Len(log) <= Len(log')
         /\ \A i \in DOMAIN log : i \in DOMAIN log' /\ log'[i] = log[i]
         /\ \A i \in DOMAIN log' \ DOMAIN log : i = Len(log') /\ i = Len(log) + 1 /\ log'[i] = e
         /\ \A i \in DOMAIN log' : log'[i].ref \in Ids
<1>1. log \in Seq(Event) /\ Len(log) \in Nat /\ \A i \in DOMAIN log : Attributed(log[i])
  BY DEF Typed
<1>2. CASE log' = log
  <2>1. Len(log') = Len(log) /\ \A i \in DOMAIN log' : Attributed(log'[i])
    BY <1>1, <1>2
  <2>2. \A i \in DOMAIN log' : log'[i] \in Event
    BY <1>1, <1>2
  <2>3. \A i \in DOMAIN log' : log'[i].ref \in Ids
    BY <2>2 DEF Event
  <2>4. QED BY <1>1, <1>2, <2>1, <2>3
<1>3. CASE log' = Append(log, e)
  <2>1. /\ log' \in Seq(Event) /\ Len(log') = Len(log) + 1
        /\ \A i \in DOMAIN log : i \in DOMAIN log' /\ log'[i] = log[i]
        /\ DOMAIN log' = DOMAIN log \cup {Len(log) + 1} /\ log'[Len(log) + 1] = e
    BY <1>1, <1>3
  <2>2. \A i \in DOMAIN log' : log'[i] \in Event
    BY <2>1
  <2>3. \A i \in DOMAIN log' : log'[i].ref \in Ids
    BY <2>2 DEF Event
  <2>4. \A i \in DOMAIN log' : Attributed(log'[i])
    BY <1>1, <2>1
  <2>5. \A i \in DOMAIN log' \ DOMAIN log : i = Len(log') /\ i = Len(log) + 1 /\ log'[i] = e
    BY <2>1
  <2>6. Len(log') \in Nat /\ Len(log) <= Len(log')
    BY <1>1, <2>1
  <2>7. QED BY <1>1, <2>1, <2>3, <2>4, <2>5, <2>6
<1>4. QED BY <1>2, <1>3 DEF Grows

\* What keeps TypeOK when one session moves.
LEMMA SessionMoves ==
  ASSUME Typed, NEW p \in Signers, NEW s \in Session, session' = [session EXCEPT ![p] = s]
  PROVE  /\ session' \in [Signers -> Session]
         /\ session'[p] = s /\ \A q \in Signers : q # p => session'[q] = session[q]
BY DEF Typed, TypeOK

\* A card that was worked on.
LEMMA TakenSession ==
  ASSUME Typed, NEW p \in Signers, NEW c \in Ids, Takes(p, c)
  PROVE  LET s == [step |-> "deciding", todo |-> session[p].todo \ {c},
                   decided |-> session[p].decided \cup {c},
                   copy |-> session[p].copy, dirty |-> session[p].dirty]
         IN s \in Session /\ Taken(p, c) = [session EXCEPT ![p] = s]
<1>1. session[p] \in DecidingSession
  BY SessionShape DEF Typed, TypeOK, Takes
<1> DEFINE s == [step |-> "deciding", todo |-> session[p].todo \ {c},
                 decided |-> session[p].decided \cup {c},
                 copy |-> session[p].copy, dirty |-> session[p].dirty]
<1>2. s \in DecidingSession
  BY <1>1 DEF DecidingSession
<1> DEFINE s0 == [step |-> "deciding", todo |-> session[p].todo, decided |-> session[p].decided,
                  copy |-> session[p].copy, dirty |-> session[p].dirty]
           s1 == [step |-> "deciding", todo |-> session[p].todo \ {c},
                  decided |-> session[p].decided,
                  copy |-> session[p].copy, dirty |-> session[p].dirty]
<1>3. [session[p] EXCEPT !.todo = @ \ {c}, !.decided = @ \cup {c}] = s
  <2>1. session[p] = s0
    BY <1>1 DEF DecidingSession
  <2>2. [session[p] EXCEPT !.todo = @ \ {c}] = s1
    <3>1. [s0 EXCEPT !.todo = session[p].todo \ {c}] = s1
      OBVIOUS
    <3>2. QED BY <2>1, <3>1
  <2>3. [s1 EXCEPT !.decided = session[p].decided \cup {c}] = s
    OBVIOUS
  <2> HIDE DEF s, s1, s0
  <2>4. QED BY <2>2, <2>3
<1>4. Taken(p, c) = [session EXCEPT ![p] = s]
  BY <1>1, <1>3 DEF Taken, Typed, TypeOK
<1>5. QED BY <1>2, <1>4, SessionsAre

-----------------------------------------------------------------------------
(* Types.                                                                  *)

LEMMA InitTyped == Init => Typed
<1> SUFFICES ASSUME Init PROVE Typed
  OBVIOUS
<1>1. CASE log = <<>>
  <2>1. log \in Seq(Event) /\ DOMAIN log = {} /\ Len(log) = 0
    BY <1>1
  <2>2. QED
    BY <2>1, BoundsAssumption, SessionsAre DEF Init, Typed, TypeOK, Mapping, ItemStatus
<1>2. CASE \E o \in OldIds : log = <<TriageEvent(o, "false_positive", 0)>>
  <2>1. PICK o \in OldIds : log = <<TriageEvent(o, "false_positive", 0)>>
    BY <1>2
  <2> DEFINE e == TriageEvent(o, "false_positive", 0)
  <2>2. e \in Event /\ Attributed(e) /\ e.ref = o
    BY RefutationBuilds DEF Ids
  <2> HIDE DEF e
  <2>3. log \in Seq(Event) /\ DOMAIN log = {1} /\ Len(log) = 1 /\ log[1] = e
    BY <2>1, <2>2 DEF e
  <2>4. QED
    BY <2>2, <2>3, BoundsAssumption, SessionsAre DEF Init, Typed, TypeOK, Mapping, ItemStatus
<1>3. QED BY <1>1, <1>2 DEF Init

\* A review item keeps its type as the log grows.
LEMMA ReviewGrows ==
  ASSUME NEW m \in Nat, NEW n \in Nat, m <= n
  PROVE  [Items -> [status: ItemStatus, at: 0 .. m]] \subseteq [Items -> [status: ItemStatus, at: 0 .. n]]
<1>1. 0 .. m \subseteq 0 .. n
  OBVIOUS
<1>2. [status: ItemStatus, at: 0 .. m] \subseteq [status: ItemStatus, at: 0 .. n]
  BY <1>1
<1>3. QED BY <1>2

LEMMA GrowthKeepsTypes ==
  ASSUME Typed, NEW e \in Event, Attributed(e), Grows(e),
         UNCHANGED <<alias, review, kills>>, session' \in [Signers -> Session],
         adopted' \subseteq DOMAIN log'
  PROVE  Typed'
<1>1. /\ log' \in Seq(Event) /\ \A i \in DOMAIN log' : Attributed(log'[i])
      /\ Len(log') \in Nat /\ Len(log) \in Nat /\ Len(log) <= Len(log')
      /\ \A i \in DOMAIN log' : log'[i].ref \in Ids
  BY GrowthTyped
<1>2. review' \in [Items -> [status: ItemStatus, at: 0 .. Len(log')]]
  BY <1>1, ReviewGrows DEF Typed, TypeOK
<1>3. QED BY <1>1, <1>2 DEF Typed, TypeOK, Ids, Attributed

\* A step of one session that leaves the log alone.
LEMMA SessionKeepsTypes ==
  ASSUME Typed, session' \in [Signers -> Session], UNCHANGED <<log, adopted>>,
         alias' \in [OldIds -> Mapping], kills' \in 0 .. MaxKills,
         review' \in [Items -> [status: ItemStatus, at: 0 .. Len(log)]]
  PROVE  Typed'
BY DEF Typed, TypeOK, Attributed

LEMMA EmitTyped ==
  ASSUME Typed, NEW e \in Event, Attributed(e), Emit(e)
  PROVE  Typed'
<1>1. Grows(e) /\ UNCHANGED <<alias, review, kills, session, adopted>>
  BY DEF Emit, Grows
<1>2. session' \in [Signers -> Session] /\ adopted' \subseteq DOMAIN log'
  BY <1>1, GrowthTyped DEF Typed, TypeOK
<1>3. QED BY <1>1, <1>2, GrowthKeepsTypes

LEMMA SignEffect ==
  ASSUME Typed, NEW p \in Signers, NEW f \in Findings, NEW d \in Decisions, Sign(p, f, d)
  PROVE  LET e == SignedEvent(p, f, d, Len(log))
         IN /\ e \in Event /\ Attributed(e) /\ e.ref = f /\ e.kind = "human"
            /\ e.src = "interactive"
            /\ log' = log => \E i \in DOMAIN log : EventId(log[i]) = EventId(e)
            /\ Grows(e) /\ adopted' \subseteq DOMAIN log'
            /\ session' = Taken(p, f) /\ Takes(p, f) /\ UNCHANGED <<alias, review, kills>>
<1> DEFINE e == SignedEvent(p, f, d, Len(log))
<1>1. Len(log) \in Nat /\ log \in Seq(Event) /\ adopted \subseteq DOMAIN log
  BY DEF Typed, TypeOK
<1>2. e \in Event /\ Attributed(e) /\ e.ref = f /\ e.kind = "human" /\ e.src = "interactive"
  BY <1>1, SignatureBuilds DEF Ids
<1>3. PICK blank \in {FALSE, Blanks} :
        LET fresh == \A i \in DOMAIN log : EventId(log[i]) # EventId(e)
        IN /\ log' = IF fresh THEN Append(log, e) ELSE log
           /\ adopted' = IF fresh /\ blank THEN adopted \cup {Len(log')} ELSE adopted
  BY DEF Sign
<1> HIDE DEF e
<1>4. CASE \A i \in DOMAIN log : EventId(log[i]) # EventId(e)
  <2>1. log' = Append(log, e)
    BY <1>3, <1>4
  <2>2. DOMAIN log' = DOMAIN log \cup {Len(log')} /\ log' # log
    BY <1>1, <1>2, <2>1
  <2>3. adopted' \subseteq DOMAIN log'
    BY <1>1, <1>3, <2>2
  <2>4. QED BY <1>2, <2>1, <2>2, <2>3 DEF Grows, Sign, e
<1>5. CASE ~(\A i \in DOMAIN log : EventId(log[i]) # EventId(e))
  <2>1. log' = log /\ adopted' = adopted
    BY <1>3, <1>5
  <2>2. QED BY <1>1, <1>2, <1>5, <2>1 DEF Grows, Sign, e
<1>6. QED BY <1>4, <1>5

-----------------------------------------------------------------------------
(* Every other step of a session, by the session it leaves.                *)

LEMMA QueueEffect ==
  ASSUME Typed, NEW p \in Signers, Queue(p)
  PROVE  /\ session[p] = Idle
         /\ \E s \in Session : session' = [session EXCEPT ![p] = s] /\ s.step = "cards"
         /\ UNCHANGED <<log, alias, review, adopted, kills>>
<1>1. Cards \in SUBSET Ids
  BY DEF Cards, Ids
<1>2. [step |-> "cards", todo |-> Cards] \in Session
  BY <1>1, SessionsAre
<1>3. QED BY <1>2 DEF Queue

LEMMA OpenEffect ==
  ASSUME Typed, NEW p \in Signers, Apply(p) \/ \E c \in Findings \cup OldIds : Record(p, c)
  PROVE  /\ session[p].step \in {"cards", "idle"}
         /\ \E s \in DecidingSession :
              /\ session' = [session EXCEPT ![p] = s]
              /\ s.decided = {} /\ s.copy = alias /\ s.dirty = FALSE
         /\ UNCHANGED <<log, alias, review, adopted, kills>>
<1>1. \A t \in SUBSET Ids : /\ Deciding(t) \in DecidingSession /\ Deciding(t).decided = {}
                            /\ Deciding(t).copy = alias /\ Deciding(t).dirty = FALSE
  BY DEF Typed, TypeOK, Deciding, DecidingSession
<1>2. CASE Apply(p)
  <2>1. session[p].step = "cards" /\ session[p].todo \in SUBSET Ids
    BY <1>2, SessionShape DEF Apply, Typed, TypeOK
  <2>2. QED BY <1>1, <1>2, <2>1 DEF Apply
<1>3. CASE \E c \in Findings \cup OldIds : Record(p, c)
  <2>1. PICK c \in Findings \cup OldIds : Record(p, c)
    BY <1>3
  <2>2. {c} \in SUBSET Ids /\ session[p].step = "idle"
    BY <2>1 DEF Ids, Record, Idle
  <2>3. QED BY <1>1, <2>1, <2>2 DEF Record
<1>4. QED BY <1>2, <1>3

LEMMA DeferEffect ==
  ASSUME Typed, NEW p \in Signers, NEW c \in Ids, Defer(p, c)
  PROVE  /\ session[p] \in DecidingSession
         /\ \E s \in DecidingSession :
              /\ session' = [session EXCEPT ![p] = s]
              /\ s.decided = session[p].decided /\ s.copy = session[p].copy
              /\ s.dirty = session[p].dirty
         /\ UNCHANGED <<log, alias, review, adopted, kills>>
<1>1. session[p] \in DecidingSession
  BY SessionShape DEF Typed, TypeOK, Takes, Defer
<1> DEFINE s == [session[p] EXCEPT !.todo = @ \ {c}]
<1>2. /\ s \in DecidingSession /\ s.decided = session[p].decided /\ s.copy = session[p].copy
      /\ s.dirty = session[p].dirty
  BY <1>1 DEF DecidingSession
<1>3. session' = [session EXCEPT ![p] = s]
  BY DEF Defer, Typed, TypeOK
<1>4. QED BY <1>1, <1>2, <1>3 DEF Defer

\* A decision, carried out by the service or refused.
LEMMA TakenEffect ==
  ASSUME Typed, NEW p \in Signers, NEW c \in Ids, Takes(p, c), session' = Taken(p, c)
  PROVE  /\ session[p] \in DecidingSession
         /\ \E s \in DecidingSession :
              /\ session' = [session EXCEPT ![p] = s]
              /\ s.decided = session[p].decided \cup {c} /\ s.copy = session[p].copy
              /\ s.dirty = session[p].dirty
<1>1. session[p] \in DecidingSession
  BY SessionShape DEF Typed, TypeOK, Takes
<1> DEFINE s == [step |-> "deciding", todo |-> session[p].todo \ {c},
                 decided |-> session[p].decided \cup {c},
                 copy |-> session[p].copy, dirty |-> session[p].dirty]
<1>2. s \in DecidingSession
  BY <1>1 DEF DecidingSession
<1>3. session' = [session EXCEPT ![p] = s]
  BY TakenSession
<1>4. QED BY <1>1, <1>2, <1>3

LEMMA MappingEffect ==
  ASSUME Typed, NEW p \in Signers, NEW o \in OldIds, DecideMapping(p, o)
  PROVE  /\ session[p] \in DecidingSession
         /\ \E s \in DecidingSession, verdict \in {"confirmed", "rejected"} :
              /\ session' = [session EXCEPT ![p] = s]
              /\ s.decided = session[p].decided \cup {o}
              /\ s.copy = Settle(session[p].copy, o, verdict)
              /\ s.copy # session[p].copy => s.dirty = TRUE
              /\ s.copy = session[p].copy => s.dirty = session[p].dirty
         /\ UNCHANGED <<log, alias, review, adopted, kills>>
<1>1. session[p] \in DecidingSession /\ Takes(p, o)
  BY SessionShape DEF Typed, TypeOK, Takes, DecideMapping
<1>2. PICK verdict \in {"confirmed", "rejected"} :
        LET table == Settle(session[p].copy, o, verdict)
        IN session' = [Taken(p, o) EXCEPT ![p].copy = table,
                                         ![p].dirty = @ \/ table # session[p].copy]
  BY DEF DecideMapping
<1> DEFINE table == Settle(session[p].copy, o, verdict)
           dirt  == session[p].dirty \/ table # session[p].copy
           s0 == [step |-> "deciding", todo |-> session[p].todo \ {o},
                  decided |-> session[p].decided \cup {o},
                  copy |-> session[p].copy, dirty |-> session[p].dirty]
           s1 == [step |-> "deciding", todo |-> session[p].todo \ {o},
                  decided |-> session[p].decided \cup {o},
                  copy |-> table, dirty |-> session[p].dirty]
           s  == [step |-> "deciding", todo |-> session[p].todo \ {o},
                  decided |-> session[p].decided \cup {o},
                  copy |-> table, dirty |-> dirt]
<1>3. s0 \in Session /\ Taken(p, o) = [session EXCEPT ![p] = s0]
  BY <1>1, TakenSession DEF Ids
<1>4. session \in [Signers -> Session]
  BY DEF Typed, TypeOK
<1>5. [s0 EXCEPT !.copy = table, !.dirty = dirt] = s
  <2> HIDE DEF table, dirt
  <2>1. [s0 EXCEPT !.copy = table] = s1
    OBVIOUS
  <2>2. [s1 EXCEPT !.dirty = dirt] = s
    OBVIOUS
  <2> HIDE DEF s0, s1, s
  <2>3. QED BY <2>1, <2>2
<1>6. session' = [session EXCEPT ![p] = s]
  <2> DEFINE t == [session EXCEPT ![p] = s0]
  <2>1. session' = [t EXCEPT ![p].copy = table, ![p].dirty = @ \/ table # session[p].copy]
    BY <1>2, <1>3
  <2>2. t[p] = s0 /\ t \in [Signers -> Session]
    BY <1>3, <1>4
  <2>3. s0.dirty = session[p].dirty
    OBVIOUS
  <2> HIDE DEF s0, table
  <2>4. session' = [t EXCEPT ![p] = [s0 EXCEPT !.copy = table, !.dirty = dirt]]
    BY <2>1, <2>2, <2>3
  <2>5. QED BY <1>4, <1>5, <2>4
<1>7. table \in [OldIds -> Mapping]
  BY <1>1 DEF Settle, DecidingSession, Mapping
<1>8. s \in DecidingSession
  <2> HIDE DEF table
  <2>1. dirt \in BOOLEAN
    OBVIOUS
  <2> HIDE DEF dirt
  <2>2. QED BY <1>1, <1>7, <2>1 DEF DecidingSession, Ids
<1>9. /\ s.decided = session[p].decided \cup {o} /\ s.copy = table
      /\ s.copy # session[p].copy => s.dirty = TRUE
      /\ s.copy = session[p].copy => s.dirty = session[p].dirty
  <2> HIDE DEF table
  <2>1. table # session[p].copy => dirt = TRUE
    OBVIOUS
  <2>2. table = session[p].copy => dirt = session[p].dirty
    BY <1>1 DEF DecidingSession
  <2> HIDE DEF dirt
  <2>3. QED BY <2>1, <2>2
<1>10. QED
  BY <1>1, <1>6, <1>8, <1>9 DEF DecideMapping

LEMMA PatchEffect ==
  ASSUME Typed, NEW p \in Signers, Patch(p)
  PROVE  /\ session[p] \in DecidingSession
         /\ \E s \in DecidingSession :
              /\ session' = [session EXCEPT ![p] = s]
              /\ s.decided = session[p].decided /\ s.copy = session[p].copy
              /\ s.dirty = FALSE
         /\ alias' = session[p].copy
         /\ UNCHANGED <<log, review, adopted, kills>>
<1>1. session[p] \in DecidingSession
  BY SessionShape DEF Typed, TypeOK, Patch
<1> DEFINE s == [session[p] EXCEPT !.dirty = FALSE]
<1>2. /\ s \in DecidingSession /\ s.decided = session[p].decided /\ s.copy = session[p].copy
      /\ s.dirty = FALSE
  BY <1>1 DEF DecidingSession
<1>3. session' = [session EXCEPT ![p] = s]
  BY DEF Patch, Typed, TypeOK
<1>4. QED BY <1>1, <1>2, <1>3 DEF Patch

LEMMA RereadEffect ==
  ASSUME Typed, NEW p \in Signers, Reread(p)
  PROVE  /\ session[p] \in DecidingSession
         /\ LET s == [step |-> "closing", items |-> PendingOf(session[p].decided)]
            IN s \in Session /\ session' = [session EXCEPT ![p] = s]
         /\ UNCHANGED <<log, alias, review, adopted, kills>>
<1>1. session[p] \in DecidingSession
  BY SessionShape DEF Typed, TypeOK, Reread
<1>2. PendingOf(session[p].decided) \in SUBSET Items
  BY DEF PendingOf
<1>3. QED BY <1>1, <1>2, SessionsAre DEF Reread

LEMMA CloseEffect ==
  ASSUME Typed, NEW p \in Signers, NEW i \in Items, Close(p, i)
  PROVE  /\ session[p].step = "closing" /\ i \in session[p].items
         /\ LET s == [step |-> "closing", items |-> session[p].items \ {i}]
            IN s \in Session /\ session' = [session EXCEPT ![p] = s]
         /\ review' \in [Items -> [status: ItemStatus, at: 0 .. Len(log)]]
         /\ \A j \in Items : j # i => review'[j] = review[j]
         /\ review[i].status # "pending" => review'[i] = review[i]
         /\ review[i].status = "pending" =>
              review'[i].status = IF HumanWordAfter(ItemRef[i], 0) THEN "confirmed" ELSE "rejected"
         /\ UNCHANGED <<log, alias, adopted, kills>>
<1>1. session[p] \in [step: {"closing"}, items: SUBSET Items]
  BY SessionShape DEF Typed, TypeOK, Close
<1> DEFINE s == [step |-> "closing", items |-> session[p].items \ {i}]
<1>2. s \in Session
  BY <1>1, SessionsAre
<1>3. [session[p] EXCEPT !.items = @ \ {i}] = s
  BY <1>1
<1>4. session' = [session EXCEPT ![p] = s]
  BY <1>3 DEF Close, Typed, TypeOK
<1>5. review \in [Items -> [status: ItemStatus, at: 0 .. Len(log)]]
  BY DEF Typed, TypeOK
<1>6. review' \in [Items -> [status: ItemStatus, at: 0 .. Len(log)]]
  <2>1. \A w \in {"confirmed", "rejected"} :
          [review EXCEPT ![i].status = w] \in [Items -> [status: ItemStatus, at: 0 .. Len(log)]]
    BY <1>5 DEF ItemStatus
  <2>2. QED BY <1>5, <2>1 DEF Close
<1>7. QED BY <1>1, <1>2, <1>4, <1>5, <1>6 DEF Close

LEMMA EndEffect ==
  ASSUME Typed, NEW p \in Signers,
         Rebuild(p) \/ Kill(p) \/ \E f \in Findings : Abort(p, f)
  PROVE  /\ session' = [session EXCEPT ![p] = Idle]
         /\ UNCHANGED <<log, alias, review, adopted>>
         /\ kills' \in 0 .. MaxKills
BY BoundsAssumption DEF Rebuild, Kill, Abort, Typed, TypeOK

LEMMA StepTyped == Typed /\ [Next]_vars => Typed'
<1> SUFFICES ASSUME Typed, [Next]_vars PROVE Typed'
  OBVIOUS
<1>t. /\ alias \in [OldIds -> Mapping] /\ kills \in 0 .. MaxKills /\ Len(log) \in Nat
      /\ review \in [Items -> [status: ItemStatus, at: 0 .. Len(log)]]
  BY DEF Typed, TypeOK
<1>1. CASE UNCHANGED vars
  BY <1>1 DEF vars, Typed, TypeOK, Attributed
<1>2. ASSUME NEW f \in Findings, Refute(f) \/ Prove(f) PROVE Typed'
  <2>1. CASE Refute(f)
    BY <1>t, <2>1, RefutationBuilds, EmitTyped DEF Refute, Ids
  <2>2. CASE Prove(f)
    BY <1>t, <2>2, ProofBuilds, EmitTyped DEF Prove, Ids
  <2>3. QED BY <1>2, <2>1, <2>2
<1>3. ASSUME NEW i \in Items, Enqueue(i) PROVE Typed'
  <2>1. review' \in [Items -> [status: ItemStatus, at: 0 .. Len(log)]]
    BY <1>t, <1>3 DEF Enqueue, ItemStatus
  <2>2. session' \in [Signers -> Session]
    BY <1>3 DEF Enqueue, Typed, TypeOK
  <2>3. QED BY <1>t, <1>3, <2>1, <2>2, SessionKeepsTypes DEF Enqueue
<1>4. ASSUME NEW p \in Signers, Queue(p) PROVE Typed'
  BY <1>t, <1>4, QueueEffect, SessionMoves, SessionKeepsTypes
<1>5. ASSUME NEW p \in Signers, Apply(p) \/ \E c \in Findings \cup OldIds : Record(p, c) PROVE Typed'
  BY <1>t, <1>5, OpenEffect, SessionsAre, SessionMoves, SessionKeepsTypes
<1>6. ASSUME NEW p \in Signers, NEW c \in Findings \cup OldIds, Defer(p, c) PROVE Typed'
  BY <1>t, <1>6, DeferEffect, SessionsAre, SessionMoves, SessionKeepsTypes DEF Ids
<1>7. ASSUME NEW p \in Signers, Patch(p) PROVE Typed'
  <2>1. session[p].copy \in [OldIds -> Mapping]
    BY <1>7, PatchEffect DEF DecidingSession
  <2>2. QED BY <1>t, <1>7, <2>1, PatchEffect, SessionsAre, SessionMoves, SessionKeepsTypes
<1>8. ASSUME NEW p \in Signers, Reread(p) PROVE Typed'
  BY <1>t, <1>8, RereadEffect, SessionMoves, SessionKeepsTypes
<1>9. ASSUME NEW p \in Signers, NEW i \in Items, Close(p, i) PROVE Typed'
  BY <1>t, <1>9, CloseEffect, SessionMoves, SessionKeepsTypes
<1>10. ASSUME NEW p \in Signers, Rebuild(p) \/ Kill(p) \/ \E f \in Findings : Abort(p, f)
       PROVE  Typed'
  BY <1>t, <1>10, EndEffect, SessionsAre, SessionMoves, SessionKeepsTypes
<1>11. ASSUME NEW p \in Signers, NEW f \in Findings, Refused(p, f) PROVE Typed'
  <2>1. Takes(p, f) /\ session' = Taken(p, f) /\ UNCHANGED <<log, alias, review, adopted, kills>>
    BY <1>11 DEF Refused
  <2>2. QED BY <1>t, <2>1, TakenEffect, SessionsAre, SessionMoves, SessionKeepsTypes DEF Ids
<1>12. ASSUME NEW p \in Signers, NEW f \in Findings, NEW d \in Decisions, Sign(p, f, d)
       PROVE  Typed'
  <2> DEFINE e == SignedEvent(p, f, d, Len(log))
  <2>1. /\ e \in Event /\ Attributed(e) /\ Grows(e) /\ adopted' \subseteq DOMAIN log'
        /\ session' = Taken(p, f) /\ Takes(p, f) /\ UNCHANGED <<alias, review, kills>>
    BY <1>12, SignEffect
  <2> HIDE DEF e
  <2>2. session' \in [Signers -> Session]
    BY <2>1, TakenEffect, SessionsAre, SessionMoves DEF Ids
  <2>3. QED BY <2>1, <2>2, GrowthKeepsTypes
<1>13. ASSUME NEW p \in Signers, NEW o \in OldIds, DecideMapping(p, o) PROVE Typed'
  BY <1>t, <1>13, MappingEffect, SessionsAre, SessionMoves, SessionKeepsTypes
<1>14. QED
  BY <1>1, <1>2, <1>3, <1>4, <1>5, <1>6, <1>7, <1>8, <1>9, <1>10, <1>11, <1>12, <1>13 DEF Next

LEMMA Typing == Spec => []Typed
BY InitTyped, StepTyped, PTL DEF Spec

\* Whatever signers and emitters do at the same time, a session works on known
\* findings and mappings, the alias table stays total and the queue only holds
\* known states (countersign.py).
THEOREM TypeCorrect == Spec => []TypeOK
<1>1. Typed => TypeOK
  BY DEF Typed
<1>2. QED BY <1>1, Typing, PTL

-----------------------------------------------------------------------------
(* Words that people left in the log.                                      *)

\* A word stays, and a step that is not a signature adds none.
LEMMA WordsStay ==
  ASSUME Typed, NEW e \in Event, Attributed(e), Grows(e)
  PROVE  /\ \A f, n : HumanWordAfter(f, n) => HumanWordAfter(f, n)'
         /\ \A f, n : HumanWordAfter(f, n)' /\ ~HumanWordAfter(f, n) => e.kind = "human" /\ e.ref = f
         /\ \A f : ~HumanWordAfter(f, Len(log))
<1>1. /\ Len(log') \in Nat /\ Len(log) \in Nat /\ log \in Seq(Event)
      /\ \A i \in DOMAIN log : i \in DOMAIN log' /\ log'[i] = log[i]
      /\ \A i \in DOMAIN log' \ DOMAIN log : i = Len(log') /\ i = Len(log) + 1 /\ log'[i] = e
  BY GrowthTyped DEF Typed
<1>2. \A f, n : HumanWordAfter(f, n) => HumanWordAfter(f, n)'
  BY <1>1 DEF HumanWordAfter
<1>3. \A f, n : HumanWordAfter(f, n)' /\ ~HumanWordAfter(f, n) => e.kind = "human" /\ e.ref = f
  BY <1>1 DEF HumanWordAfter
<1>4. \A f : ~HumanWordAfter(f, Len(log))
  BY <1>1 DEF HumanWordAfter
<1>5. QED BY <1>2, <1>3, <1>4

\* After a signature the layer holds a person's word on the finding, whether
\* the service appended the event or knew it already.
LEMMA SignedIsHeard ==
  ASSUME Typed, NEW p \in Signers, NEW f \in Findings, NEW d \in Decisions, Sign(p, f, d)
  PROVE  HumanWordAfter(f, 0)'
<1> DEFINE e == SignedEvent(p, f, d, Len(log))
<1>1. /\ e \in Event /\ Attributed(e) /\ e.ref = f /\ e.kind = "human" /\ e.src = "interactive"
      /\ log' = log => \E i \in DOMAIN log : EventId(log[i]) = EventId(e)
      /\ Grows(e)
  BY SignEffect
<1> HIDE DEF e
<1>2. log \in Seq(Event) /\ Len(log) \in Nat /\ \A i \in DOMAIN log : Attributed(log[i])
  BY DEF Typed
<1>3. CASE log' = log
  <2>1. PICK i \in DOMAIN log : EventId(log[i]) = EventId(e)
    BY <1>1, <1>3
  <2>2. log[i].src = e.src /\ log[i].ref = e.ref
    BY <2>1 DEF EventId
  <2>3. log[i].kind = "human"
    BY <1>1, <1>2, <2>2 DEF Attributed
  <2>4. i > 0
    BY <1>2
  <2>5. QED BY <1>1, <1>3, <2>2, <2>3, <2>4 DEF HumanWordAfter
<1>4. CASE log' = Append(log, e)
  <2>1. Len(log) + 1 \in DOMAIN log' /\ log'[Len(log) + 1] = e /\ Len(log) + 1 > 0
    BY <1>1, <1>2, <1>4
  <2>2. QED BY <1>1, <2>1 DEF HumanWordAfter
<1>5. QED BY <1>1, <1>3, <1>4 DEF Grows

-----------------------------------------------------------------------------
(* Answered items close.                                                   *)

\* No session ends before its time: nobody kills one, and no blank rationale
\* ends one with an error.
Uninterrupted == MaxKills = 0 /\ (~Blanks \/ Decisions = {"false_positive"})

\* A session that will close the item.
WillClose(p, i) ==
  \/ session[p].step = "deciding" /\ ItemRef[i] \in session[p].decided
  \/ session[p].step = "closing" /\ i \in session[p].items

Answered(i) == review[i].status = "pending" /\ HumanWordAfter(ItemRef[i], review[i].at)

InFlight == \A i \in Items : Answered(i) => \E p \in Signers : WillClose(p, i)

\* What a step of one session must do for the items it leaves answered.
LEMMA FlightKept ==
  ASSUME Typed, InFlight, NEW p \in Signers, NEW s \in Session,
         session' = [session EXCEPT ![p] = s],
         \A i \in Items : Answered(i)' =>
           \/ Answered(i) /\ (WillClose(p, i) => WillClose(p, i)')
           \/ WillClose(p, i)'
  PROVE  InFlight'
<1>1. session'[p] = s /\ \A q \in Signers : q # p => session'[q] = session[q]
  BY SessionMoves
<1>2. ASSUME NEW i \in Items, NEW q \in Signers, q # p, WillClose(q, i)
      PROVE  WillClose(q, i)'
  BY <1>1, <1>2 DEF WillClose
<1>3. ASSUME NEW i \in Items, Answered(i)'
      PROVE  \E q \in Signers : WillClose(q, i)'
  <2>1. CASE WillClose(p, i)'
    BY <2>1
  <2>2. CASE Answered(i) /\ (WillClose(p, i) => WillClose(p, i)')
    <3>1. PICK q \in Signers : WillClose(q, i)
      BY <2>2 DEF InFlight
    <3>2. WillClose(q, i)'
      BY <1>2, <2>2, <3>1
    <3>3. QED BY <3>2
  <2>3. QED BY <1>3, <2>1, <2>2
<1>4. QED BY <1>3 DEF InFlight

\* Nothing that is read of items, words and sessions changed.
LEMMA SameAnswers ==
  ASSUME UNCHANGED <<log, review>>
  PROVE  \A i \in Items : Answered(i)' <=> Answered(i)
BY DEF Answered, HumanWordAfter

LEMMA FlightStep == Uninterrupted /\ Typed /\ InFlight /\ [Next]_vars => InFlight'
<1> SUFFICES ASSUME Uninterrupted, Typed, InFlight, [Next]_vars PROVE InFlight'
  OBVIOUS
<1>t. /\ Len(log) \in Nat /\ session \in [Signers -> Session]
      /\ review \in [Items -> [status: ItemStatus, at: 0 .. Len(log)]]
  BY DEF Typed, TypeOK
<1>1. CASE UNCHANGED vars
  BY <1>1 DEF vars, InFlight, Answered, HumanWordAfter, WillClose
<1>2. ASSUME NEW f \in Findings, Refute(f) \/ Prove(f) PROVE InFlight'
  <2>1. PICK e \in Event : Attributed(e) /\ e.kind = "machine" /\ Emit(e)
    BY <1>t, <1>2, RefutationBuilds, ProofBuilds DEF Refute, Prove, Ids
  <2>2. Grows(e) /\ UNCHANGED <<review, session>>
    BY <2>1 DEF Emit, Grows
  <2>3. \A i \in Items : Answered(i)' => Answered(i)
    BY <2>1, <2>2, WordsStay DEF Answered
  <2>4. QED BY <2>2, <2>3 DEF InFlight, WillClose
<1>3. ASSUME NEW i \in Items, Enqueue(i) PROVE InFlight'
  <2>1. UNCHANGED <<log, session>> /\ review' = [review EXCEPT ![i] = [status |-> "pending", at |-> Len(log)]]
    BY <1>3 DEF Enqueue
  <2>2. ~Answered(i)'
    <3>1. review'[i].at = Len(log) /\ log' = log
      BY <1>t, <2>1
    <3>2. QED BY <1>t, <3>1 DEF Answered, HumanWordAfter, Typed
  <2>3. \A j \in Items : Answered(j)' => Answered(j)
    <3> SUFFICES ASSUME NEW j \in Items, Answered(j)' PROVE Answered(j)
      OBVIOUS
    <3>1. j # i
      BY <2>2
    <3>2. review'[j] = review[j] /\ log' = log
      BY <1>t, <2>1, <3>1
    <3>3. QED BY <3>2 DEF Answered, HumanWordAfter
  <2>4. QED BY <2>1, <2>3 DEF InFlight, WillClose
<1>4. ASSUME NEW p \in Signers, Queue(p) PROVE InFlight'
  <2>1. PICK s \in Session : session' = [session EXCEPT ![p] = s]
    BY <1>4, QueueEffect
  <2>2. session[p] = Idle /\ UNCHANGED <<log, review>>
    BY <1>4, QueueEffect
  <2>3. \A i \in Items : ~WillClose(p, i)
    BY <2>2 DEF WillClose, Idle
  <2>4. QED BY <2>1, <2>2, <2>3, SameAnswers, FlightKept
<1>5. ASSUME NEW p \in Signers, Apply(p) \/ \E c \in Findings \cup OldIds : Record(p, c)
      PROVE  InFlight'
  <2>1. PICK s \in DecidingSession : session' = [session EXCEPT ![p] = s]
    BY <1>5, OpenEffect
  <2>2. session[p].step \in {"cards", "idle"} /\ UNCHANGED <<log, review>>
    BY <1>5, OpenEffect
  <2>3. \A i \in Items : ~WillClose(p, i)
    BY <2>2 DEF WillClose
  <2>4. QED BY <2>1, <2>2, <2>3, SessionsAre, SameAnswers, FlightKept
<1>6. ASSUME NEW p \in Signers, session[p] \in DecidingSession, NEW s \in DecidingSession,
             session' = [session EXCEPT ![p] = s],
             session[p].decided \subseteq s.decided, UNCHANGED <<log, review>>
      PROVE  InFlight'
  <2>1. session'[p] = s /\ s \in Session
    BY <1>6, SessionMoves, SessionsAre
  <2>2. \A i \in Items : WillClose(p, i) => WillClose(p, i)'
    BY <1>6, <2>1 DEF WillClose, DecidingSession
  <2>3. QED BY <1>6, <2>1, <2>2, SameAnswers, FlightKept
<1>7. ASSUME NEW p \in Signers, \E c \in Findings \cup OldIds : Defer(p, c) PROVE InFlight'
  BY <1>6, <1>7, DeferEffect DEF Ids
<1>8. ASSUME NEW p \in Signers, Patch(p) PROVE InFlight'
  BY <1>6, <1>8, PatchEffect
<1>9. ASSUME NEW p \in Signers, \E f \in Findings : Refused(p, f) PROVE InFlight'
  BY <1>6, <1>9, TakenEffect DEF Refused, Ids
<1>10. ASSUME NEW p \in Signers, \E o \in OldIds : DecideMapping(p, o) PROVE InFlight'
  BY <1>6, <1>10, MappingEffect
<1>11. ASSUME NEW p \in Signers, NEW f \in Findings, NEW d \in Decisions, Sign(p, f, d)
       PROVE  InFlight'
  <2> DEFINE e == SignedEvent(p, f, d, Len(log))
  <2>1. /\ e \in Event /\ Attributed(e) /\ e.ref = f /\ Grows(e)
        /\ session' = Taken(p, f) /\ Takes(p, f) /\ review' = review
    BY <1>11, SignEffect
  <2> HIDE DEF e
  <2>2. PICK s \in DecidingSession : /\ session' = [session EXCEPT ![p] = s]
                                     /\ s.decided = session[p].decided \cup {f}
    BY <2>1, TakenEffect DEF Ids
  <2>3. session'[p] = s /\ s \in Session /\ s.step = "deciding" /\ session[p] \in DecidingSession
    BY <2>1, <2>2, SessionMoves, SessionsAre, TakenEffect DEF DecidingSession, Ids
  <2>4. \A i \in Items : WillClose(p, i) => WillClose(p, i)'
    BY <2>2, <2>3 DEF WillClose, DecidingSession
  <2>5. \A i \in Items : Answered(i)' => Answered(i) \/ WillClose(p, i)'
    <3> SUFFICES ASSUME NEW i \in Items, Answered(i)', ~Answered(i) PROVE WillClose(p, i)'
      OBVIOUS
    <3>1. ItemRef[i] = f
      BY <2>1, WordsStay DEF Answered
    <3>2. QED BY <2>2, <2>3, <3>1 DEF WillClose
  <2>6. QED BY <2>2, <2>3, <2>4, <2>5, FlightKept
<1>12. ASSUME NEW p \in Signers, Reread(p) PROVE InFlight'
  <2> DEFINE s == [step |-> "closing", items |-> PendingOf(session[p].decided)]
  <2>1. /\ session[p] \in DecidingSession /\ s \in Session /\ session' = [session EXCEPT ![p] = s]
        /\ UNCHANGED <<log, review>>
    BY <1>12, RereadEffect
  <2>2. session'[p] = s
    BY <2>1, SessionMoves
  <2>3. \A i \in Items : Answered(i) /\ WillClose(p, i) => WillClose(p, i)'
    BY <2>1, <2>2 DEF WillClose, Answered, PendingOf, DecidingSession
  <2> HIDE DEF s
  <2>4. QED BY <2>1, <2>3, SameAnswers, FlightKept
<1>13. ASSUME NEW p \in Signers, NEW i \in Items, Close(p, i) PROVE InFlight'
  <2> DEFINE s == [step |-> "closing", items |-> session[p].items \ {i}]
  <2>1. /\ session[p].step = "closing" /\ s \in Session /\ session' = [session EXCEPT ![p] = s]
        /\ \A j \in Items : j # i => review'[j] = review[j]
        /\ review[i].status # "pending" => review'[i] = review[i]
        /\ review[i].status = "pending" =>
              review'[i].status = IF HumanWordAfter(ItemRef[i], 0) THEN "confirmed" ELSE "rejected"
        /\ log' = log
    BY <1>13, CloseEffect
  <2>2. session'[p] = s
    BY <2>1, SessionMoves
  <2>3. ~Answered(i)'
    BY <2>1 DEF Answered
  <2>4. \A j \in Items : j # i => (Answered(j)' <=> Answered(j))
    BY <2>1 DEF Answered, HumanWordAfter
  <2>5. \A j \in Items : j # i => (WillClose(p, j) => WillClose(p, j)')
    BY <2>1, <2>2 DEF WillClose
  <2> HIDE DEF s
  <2>6. QED BY <2>1, <2>3, <2>4, <2>5, FlightKept
<1>14. ASSUME NEW p \in Signers, Rebuild(p) \/ Kill(p) \/ \E f \in Findings : Abort(p, f)
       PROVE  InFlight'
  <2>1. Rebuild(p)
    BY <1>14, BoundsAssumption DEF Uninterrupted, Kill, Abort, Typed, TypeOK
  <2>2. session' = [session EXCEPT ![p] = Idle] /\ UNCHANGED <<log, review>>
    BY <1>14, EndEffect
  <2>3. \A i \in Items : ~WillClose(p, i)
    BY <2>1 DEF WillClose, Rebuild
  <2>4. QED BY <2>2, <2>3, SessionsAre, SameAnswers, FlightKept
<1>15. QED
  BY <1>1, <1>2, <1>3, <1>4, <1>5, <1>7, <1>8, <1>9, <1>10, <1>11, <1>12, <1>13, <1>14 DEF Next

\* The human inbox shrinks as it is worked: however many people sign at the
\* same time, once all sessions have ended no review item that a signature
\* answers is left pending -- unless a session was interrupted.
THEOREM InboxIsWorkedOff ==
  ASSUME Uninterrupted
  PROVE  Spec => []AnsweredItemsClose
<1>1. Init => InFlight
  BY DEF Init, InFlight, Answered
<1>2. Typed /\ InFlight /\ [Next]_vars => InFlight'
  BY FlightStep
<1>3. InFlight => AnsweredItemsClose
  BY DEF InFlight, AnsweredItemsClose, AtRest, Answered, WillClose, Idle
<1>4. QED
  BY <1>1, <1>2, <1>3, Typing, PTL DEF Spec

-----------------------------------------------------------------------------
(* Closed items were decided.                                              *)

\* What a session holds as decided, the layer has a person's word on.
Heard(s) ==
  /\ s.step = "deciding" => \A f \in s.decided \cap Findings : HumanWordAfter(f, 0)
  /\ s.step = "closing" => \A i \in s.items : HumanWordAfter(ItemRef[i], 0)

Backed ==
  /\ \A p \in Signers : Heard(session[p])
  /\ ClosedItemsWereDecided

WordsKept == \A f, n : HumanWordAfter(f, n) => HumanWordAfter(f, n)'

LEMMA SameWords ==
  ASSUME log' = log
  PROVE  /\ \A f, n : HumanWordAfter(f, n)' <=> HumanWordAfter(f, n)
         /\ \A s : Heard(s)' <=> Heard(s)
         /\ WordsKept
BY DEF HumanWordAfter, Heard, WordsKept

LEMMA HeardStays ==
  ASSUME WordsKept, NEW s, Heard(s)
  PROVE  Heard(s)'
BY DEF Heard, WordsKept

\* A step that moves one session and closes no item without a word.
LEMMA BackedKept ==
  ASSUME Typed, Backed, NEW p \in Signers, NEW s \in Session,
         session' = [session EXCEPT ![p] = s], WordsKept, Heard(s)',
         \A i \in Items : \/ review'[i].status = review[i].status
                          \/ HumanWordAfter(ItemRef[i], 0)'
  PROVE  Backed'
<1>1. session'[p] = s /\ \A q \in Signers : q # p => session'[q] = session[q]
  BY SessionMoves
<1>2. ASSUME NEW q \in Signers PROVE Heard(session[q])'
  <2>1. CASE q = p
    BY <1>1, <2>1 DEF Heard
  <2>2. CASE q # p
    <3>1. Heard(session[q])
      BY DEF Backed
    <3>2. QED BY <1>1, <2>2, <3>1 DEF Heard, WordsKept
  <2>3. QED BY <2>1, <2>2
<1>3. ClosedItemsWereDecided'
  BY DEF ClosedItemsWereDecided, Backed, WordsKept
<1>4. QED BY <1>2, <1>3 DEF Backed

\* A step that only adds to the layer's log and queue.
LEMMA BackedGrows ==
  ASSUME Backed, session' = session, WordsKept,
         \A i \in Items : review'[i].status \in {review[i].status, "pending"}
  PROVE  Backed'
<1>1. ASSUME NEW q \in Signers PROVE Heard(session[q])'
  <2>1. Heard(session[q])
    BY DEF Backed
  <2>2. QED BY <2>1 DEF Heard, WordsKept
<1>2. ClosedItemsWereDecided'
  BY DEF ClosedItemsWereDecided, Backed, WordsKept
<1>3. QED BY <1>1, <1>2 DEF Backed

LEMMA BackedStep == ~Refusals /\ Typed /\ Backed /\ [Next]_vars => Backed'
<1> SUFFICES ASSUME ~Refusals, Typed, Backed, [Next]_vars PROVE Backed'
  OBVIOUS
<1>t. /\ Len(log) \in Nat /\ session \in [Signers -> Session]
      /\ review \in [Items -> [status: ItemStatus, at: 0 .. Len(log)]]
  BY DEF Typed, TypeOK
<1>s. \A p \in Signers : Heard(session[p])
  BY DEF Backed
<1>1. CASE UNCHANGED vars
  BY <1>1, SameWords, BackedGrows DEF vars
<1>2. ASSUME NEW f \in Findings, Refute(f) \/ Prove(f) PROVE Backed'
  <2>1. PICK e \in Event : Attributed(e) /\ Emit(e)
    BY <1>t, <1>2, RefutationBuilds, ProofBuilds DEF Refute, Prove, Ids
  <2>2. Grows(e) /\ UNCHANGED <<review, session>>
    BY <2>1 DEF Emit, Grows
  <2>3. QED BY <2>1, <2>2, WordsStay, BackedGrows DEF WordsKept
<1>3. ASSUME NEW i \in Items, Enqueue(i) PROVE Backed'
  <2>1. UNCHANGED <<log, session>> /\ \A j \in Items : review'[j].status \in {review[j].status, "pending"}
    BY <1>t, <1>3 DEF Enqueue
  <2>2. QED BY <2>1, SameWords, BackedGrows
<1>4. ASSUME NEW p \in Signers, NEW s \in Session, session' = [session EXCEPT ![p] = s],
             s.step \in {"cards", "idle"}, UNCHANGED <<log, review>>
      PROVE  Backed'
  <2>1. Heard(s)'
    BY <1>4 DEF Heard
  <2>2. QED BY <1>4, <2>1, SameWords, BackedKept
<1>5. ASSUME NEW p \in Signers, Queue(p) PROVE Backed'
  BY <1>4, <1>5, QueueEffect
<1>6. ASSUME NEW p \in Signers, Rebuild(p) \/ Kill(p) \/ \E f \in Findings : Abort(p, f)
      PROVE  Backed'
  <2>1. Idle \in Session /\ Idle.step = "idle"
    BY SessionsAre DEF Idle
  <2>2. QED BY <1>4, <1>6, <2>1, EndEffect
<1>7. ASSUME NEW p \in Signers, Apply(p) \/ \E c \in Findings \cup OldIds : Record(p, c)
      PROVE  Backed'
  <2>1. PICK s \in DecidingSession : session' = [session EXCEPT ![p] = s] /\ s.decided = {}
    BY <1>7, OpenEffect
  <2>2. UNCHANGED <<log, review>>
    BY <1>7, OpenEffect
  <2>3. Heard(s)'
    BY <2>1 DEF Heard, DecidingSession
  <2>4. QED BY <2>1, <2>2, <2>3, SessionsAre, SameWords, BackedKept
<1>8. ASSUME NEW p \in Signers, session[p] \in DecidingSession, NEW s \in DecidingSession,
             session' = [session EXCEPT ![p] = s],
             s.decided \cap Findings = session[p].decided \cap Findings,
             UNCHANGED <<log, review>>
      PROVE  Backed'
  <2>1. Heard(session[p])
    BY <1>s
  <2>2. Heard(s)
    BY <1>8, <2>1 DEF Heard, DecidingSession
  <2>3. QED BY <1>8, <2>2, SessionsAre, SameWords, BackedKept
<1>9. ASSUME NEW p \in Signers, \E c \in Findings \cup OldIds : Defer(p, c) PROVE Backed'
  BY <1>8, <1>9, DeferEffect DEF Ids
<1>10. ASSUME NEW p \in Signers, Patch(p) PROVE Backed'
  BY <1>8, <1>10, PatchEffect
<1>11. ASSUME NEW p \in Signers, NEW o \in OldIds, DecideMapping(p, o) PROVE Backed'
  <2>1. PICK s \in DecidingSession : /\ session' = [session EXCEPT ![p] = s]
                                     /\ s.decided = session[p].decided \cup {o}
    BY <1>11, MappingEffect
  <2>2. session[p] \in DecidingSession /\ UNCHANGED <<log, review>>
    BY <1>11, MappingEffect
  <2>3. o \notin Findings
    BY IdsAssumption
  <2>4. s.decided \cap Findings = session[p].decided \cap Findings
    BY <2>1, <2>3
  <2>5. QED BY <1>8, <2>1, <2>2, <2>4
<1>12. ASSUME NEW p \in Signers, NEW f \in Findings, Refused(p, f) PROVE Backed'
  BY <1>12 DEF Refused
<1>13. ASSUME NEW p \in Signers, NEW f \in Findings, NEW d \in Decisions, Sign(p, f, d)
       PROVE  Backed'
  <2> DEFINE e == SignedEvent(p, f, d, Len(log))
  <2>1. /\ e \in Event /\ Attributed(e) /\ Grows(e)
        /\ session' = Taken(p, f) /\ Takes(p, f) /\ review' = review
    BY <1>13, SignEffect
  <2> HIDE DEF e
  <2>2. PICK s \in DecidingSession : /\ session' = [session EXCEPT ![p] = s]
                                     /\ s.decided = session[p].decided \cup {f}
    BY <2>1, TakenEffect DEF Ids
  <2>3. WordsKept /\ HumanWordAfter(f, 0)'
    BY <1>13, <2>1, WordsStay, SignedIsHeard DEF WordsKept
  <2>4. session[p].step = "deciding" /\ s.step = "deciding"
    BY <2>1 DEF Takes, DecidingSession
  <2>5. Heard(s)'
    BY <1>s, <2>2, <2>3, <2>4 DEF Heard, WordsKept
  <2>6. QED BY <2>1, <2>2, <2>3, <2>5, SessionsAre, BackedKept
<1>14. ASSUME NEW p \in Signers, Reread(p) PROVE Backed'
  <2> DEFINE s == [step |-> "closing", items |-> PendingOf(session[p].decided)]
  <2>1. /\ session[p] \in DecidingSession /\ s \in Session /\ session' = [session EXCEPT ![p] = s]
        /\ UNCHANGED <<log, review>>
    BY <1>14, RereadEffect
  <2>2. \A i \in PendingOf(session[p].decided) : ItemRef[i] \in session[p].decided \cap Findings
    BY IdsAssumption DEF PendingOf
  <2>3. Heard(s)
    BY <1>s, <2>1, <2>2 DEF Heard, DecidingSession
  <2> HIDE DEF s
  <2>4. QED BY <2>1, <2>3, SameWords, BackedKept
<1>15. ASSUME NEW p \in Signers, NEW i \in Items, Close(p, i) PROVE Backed'
  <2> DEFINE s == [step |-> "closing", items |-> session[p].items \ {i}]
  <2>1. /\ session[p].step = "closing" /\ i \in session[p].items
        /\ s \in Session /\ session' = [session EXCEPT ![p] = s]
        /\ \A j \in Items : j # i => review'[j] = review[j]
        /\ log' = log
    BY <1>15, CloseEffect
  <2>2. HumanWordAfter(ItemRef[i], 0) /\ Heard(s)
    BY <1>s, <2>1 DEF Heard
  <2> HIDE DEF s
  <2>3. QED BY <2>1, <2>2, SameWords, BackedKept
<1>16. QED
  BY <1>1, <1>2, <1>3, <1>5, <1>6, <1>7, <1>9, <1>10, <1>11, <1>12, <1>13, <1>14, <1>15 DEF Next

\* No item leaves the inbox on the workbench's own account: one that is closed
\* has a person's word on its finding in the layer, provided that the ledger
\* service takes the signatures it is handed.
THEOREM ClosureIsDecided ==
  ASSUME ~Refusals
  PROVE  Spec => []ClosedItemsWereDecided
<1>1. Init => Backed
  BY DEF Init, Backed, Heard, ClosedItemsWereDecided, Idle
<1>2. Typed /\ Backed /\ [Next]_vars => Backed'
  BY BackedStep
<1>3. Backed => ClosedItemsWereDecided
  BY DEF Backed
<1>4. QED
  BY <1>1, <1>2, <1>3, Typing, PTL DEF Spec

-----------------------------------------------------------------------------
(* Settled mappings stay, when one person works the inbox.                 *)

\* The copy that a session decides on agrees with the layer on all that is settled.
CopiesAgree ==
  \A p \in Signers : session[p].step = "deciding" =>
    \A o \in OldIds : alias[o] # "pending" => session[p].copy[o] = alias[o]

MappingsKept == \A o \in OldIds : alias[o] # "pending" => alias'[o] = alias[o]

LEMMA CopiesStep ==
  ASSUME NEW h, Signers = {h}, Typed, CopiesAgree, [Next]_vars
  PROVE  CopiesAgree' /\ MappingsKept
<1>1. ASSUME alias' = alias, session' = session PROVE CopiesAgree' /\ MappingsKept
  BY <1>1 DEF CopiesAgree, MappingsKept
<1>2. ASSUME NEW p \in Signers, NEW s, session' = [session EXCEPT ![p] = s], alias' = alias,
             s.step = "deciding" => \A o \in OldIds : alias[o] # "pending" => s.copy[o] = alias[o]
      PROVE  CopiesAgree' /\ MappingsKept
  <2>1. session'[p] = s /\ \A q \in Signers : q # p => session'[q] = session[q]
    BY <1>2 DEF Typed, TypeOK
  <2>2. QED BY <1>2, <2>1 DEF CopiesAgree, MappingsKept
<1>3. ASSUME NEW p \in Signers, session[p] \in DecidingSession, NEW s,
             session' = [session EXCEPT ![p] = s], alias' = alias,
             s.copy = session[p].copy
      PROVE  CopiesAgree' /\ MappingsKept
  <2>1. session[p].step = "deciding"
    BY <1>3 DEF DecidingSession
  <2>2. QED BY <1>2, <1>3, <2>1 DEF CopiesAgree
<1>4. CASE UNCHANGED vars
  BY <1>1, <1>4 DEF vars
<1>5. ASSUME NEW f \in Findings, Refute(f) \/ Prove(f) PROVE CopiesAgree' /\ MappingsKept
  BY <1>1, <1>5 DEF Refute, Prove, Emit
<1>6. ASSUME NEW i \in Items, Enqueue(i) PROVE CopiesAgree' /\ MappingsKept
  BY <1>1, <1>6 DEF Enqueue
<1>7. ASSUME NEW p \in Signers, Queue(p) PROVE CopiesAgree' /\ MappingsKept
  BY <1>2, <1>7, QueueEffect
<1>8. ASSUME NEW p \in Signers, Apply(p) \/ \E c \in Findings \cup OldIds : Record(p, c)
      PROVE  CopiesAgree' /\ MappingsKept
  BY <1>2, <1>8, OpenEffect
<1>9. ASSUME NEW p \in Signers, \E c \in Findings \cup OldIds : Defer(p, c)
      PROVE  CopiesAgree' /\ MappingsKept
  BY <1>3, <1>9, DeferEffect DEF Ids
<1>10. ASSUME NEW p \in Signers, \E f \in Findings : Refused(p, f) PROVE CopiesAgree' /\ MappingsKept
  BY <1>3, <1>10, TakenEffect DEF Refused, Ids
<1>11. ASSUME NEW p \in Signers, NEW f \in Findings, NEW d \in Decisions, Sign(p, f, d)
       PROVE  CopiesAgree' /\ MappingsKept
  <2>1. session' = Taken(p, f) /\ Takes(p, f) /\ alias' = alias
    BY <1>11, SignEffect
  <2>2. QED BY <1>3, <2>1, TakenEffect DEF Ids
<1>12. ASSUME NEW p \in Signers, NEW o \in OldIds, DecideMapping(p, o)
       PROVE  CopiesAgree' /\ MappingsKept
  <2>0. \E s \in DecidingSession, verdict \in {"confirmed", "rejected"} :
          /\ session' = [session EXCEPT ![p] = s]
          /\ s.decided = session[p].decided \cup {o}
          /\ s.copy = Settle(session[p].copy, o, verdict)
          /\ s.copy # session[p].copy => s.dirty = TRUE
          /\ s.copy = session[p].copy => s.dirty = session[p].dirty
    BY ONLY Typed, <1>12, MappingEffect, Zenon
  <2>1. PICK s \in DecidingSession :
          /\ session' = [session EXCEPT ![p] = s]
          /\ \E verdict \in {"confirmed", "rejected"} : s.copy = Settle(session[p].copy, o, verdict)
    BY ONLY <2>0
  <2>2. session[p] \in DecidingSession /\ alias' = alias
    BY <1>12, MappingEffect
  <2>3. ASSUME NEW x \in OldIds, alias[x] # "pending" PROVE s.copy[x] = alias[x]
    <3>1. session[p].copy[x] = alias[x] /\ session[p].copy \in [OldIds -> Mapping]
      BY <2>2, <2>3 DEF CopiesAgree, DecidingSession
    <3>2. CASE x = o
      BY <2>1, <2>3, <3>1, <3>2 DEF Settle
    <3>3. CASE x # o
      BY <2>1, <3>1, <3>3 DEF Settle
    <3>4. QED BY <3>2, <3>3
  <2>4. QED BY <1>2, <2>1, <2>2, <2>3
<1>13. ASSUME NEW p \in Signers, Patch(p) PROVE CopiesAgree' /\ MappingsKept
  <2>1. PICK s \in DecidingSession : /\ session' = [session EXCEPT ![p] = s]
                                     /\ s.copy = session[p].copy
    BY <1>13, PatchEffect
  <2>2. session[p] \in DecidingSession /\ alias' = session[p].copy
    BY <1>13, PatchEffect
  <2>3. session'[p] = s /\ p = h
    BY <2>1 DEF Typed, TypeOK
  <2>4. MappingsKept
    BY <2>2 DEF CopiesAgree, MappingsKept, DecidingSession
  <2>5. QED BY <2>1, <2>2, <2>3, <2>4 DEF CopiesAgree
<1>14. ASSUME NEW p \in Signers, Reread(p) PROVE CopiesAgree' /\ MappingsKept
  <2> DEFINE s == [step |-> "closing", items |-> PendingOf(session[p].decided)]
  <2>1. session' = [session EXCEPT ![p] = s] /\ alias' = alias
    BY <1>14, RereadEffect
  <2>2. s.step # "deciding"
    OBVIOUS
  <2> HIDE DEF s
  <2> QED BY <1>2, <2>1, <2>2
<1>15. ASSUME NEW p \in Signers, NEW i \in Items, Close(p, i) PROVE CopiesAgree' /\ MappingsKept
  <2> DEFINE s == [step |-> "closing", items |-> session[p].items \ {i}]
  <2>1. session' = [session EXCEPT ![p] = s] /\ alias' = alias
    BY <1>15, CloseEffect
  <2>2. s.step # "deciding"
    OBVIOUS
  <2> HIDE DEF s
  <2> QED BY <1>2, <2>1, <2>2
<1>16. ASSUME NEW p \in Signers, Rebuild(p) \/ Kill(p) \/ \E f \in Findings : Abort(p, f)
       PROVE  CopiesAgree' /\ MappingsKept
  BY <1>2, <1>16, EndEffect DEF Idle
<1>17. QED
  BY <1>4, <1>5, <1>6, <1>7, <1>8, <1>9, <1>10, <1>11, <1>12, <1>13, <1>14, <1>15, <1>16 DEF Next

\* A rebaseline mapping that a person decided is never re-proposed, reversed or
\* withdrawn by later sessions of the same person, interrupted ones included.
\* With two signers TLC finds it lost, see the README.
THEOREM MappingsSettle ==
  ASSUME NEW h, Signers = {h}
  PROVE  Spec => SettledMappingsStay
<1>1. Init => CopiesAgree
  BY DEF Init, CopiesAgree, Idle
<1>2. Typed /\ CopiesAgree /\ [Next]_vars => CopiesAgree'
  BY CopiesStep
<1>3. Typed /\ CopiesAgree /\ [Next]_vars =>
        [\A o \in OldIds : alias[o] # "pending" => alias'[o] = alias[o]]_alias
  BY CopiesStep DEF MappingsKept
<1>4. QED
  BY <1>1, <1>2, <1>3, Typing, PTL DEF Spec, SettledMappingsStay
=============================================================================
